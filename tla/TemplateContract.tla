-------------------------- MODULE TemplateContract --------------------------
(***************************************************************************)
(* What the data template promises for the requests it tracks: each is     *)
(* answered to the application exactly once, by the reply of the cloud, by *)
(* a timeout, or not at all when the reply cannot be read or the client is *)
(* destroyed; and no more than MaxPending of them wait at a time.          *)
(***************************************************************************)
EXTENDS Naturals, FiniteSets

CONSTANTS
    Requests,    \* client tokens of the requests
    MaxPending   \* MAX_APPENDING_REQUEST_AT_ANY_GIVEN_TIME

VARIABLE status  \* what the application knows of each request

Answers == {"accepted", "rejected", "timeout"}
Lost    == {"dropped", "abandoned"}
Waiting == {r \in Requests : status[r] = "waiting"}

Init == status = [r \in Requests |-> "idle"]

(* The request is published and tracked. *)
Send(r) ==
    /\ status[r] = "idle"
    /\ Cardinality(Waiting) < MaxPending
    /\ status' = [status EXCEPT ![r] = "waiting"]

(* The callback of the request is called. *)
Answer(r) ==
    /\ status[r] = "waiting"
    /\ \E a \in Answers : status' = [status EXCEPT ![r] = a]

(* The reply has no code: the request is forgotten without its callback. *)
Drop(r) ==
    /\ status[r] = "waiting"
    /\ status' = [status EXCEPT ![r] = "dropped"]

(* A callback may send another request before the list is looked at again. *)
AnswerAndSend(r, s) ==
    /\ status[r] = "waiting" /\ status[s] = "idle"
    /\ Cardinality(Waiting) < MaxPending
    /\ \E a \in Answers : status' = [status EXCEPT ![r] = a, ![s] = "waiting"]

(* The client is destroyed: nothing is answered any more. *)
Abandon ==
    status' = [r \in Requests |-> IF r \in Waiting THEN "abandoned" ELSE status[r]]

Next ==
    \/ \E r \in Requests : Send(r) \/ Answer(r) \/ Drop(r)
    \/ \E r, s \in Requests : AnswerAndSend(r, s)
    \/ Abandon

Spec == Init /\ [][Next]_status
=============================================================================
