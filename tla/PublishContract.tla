-------------------------- MODULE PublishContract --------------------------
(***************************************************************************)
(* What the client promises an application about a QoS 1 publish: after    *)
(* the call has returned a packet id, the publish is reported as timed     *)
(* out or as successful; a timed out publish may still succeed late, a     *)
(* successful one is never reported as timed out afterwards, and none is   *)
(* reported twice in the same way. The application may reuse an id that    *)
(* the client gives out again.                                             *)
(***************************************************************************)
CONSTANT PacketIds

VARIABLE status

Statuses == {"idle", "waiting", "success", "timeout", "late"}

Init == status = [i \in PacketIds |-> "idle"]

Send(i) ==
    /\ status[i] # "waiting"
    /\ status' = [status EXCEPT ![i] = "waiting"]

Succeed(i) ==
    \/ status[i] = "waiting" /\ status' = [status EXCEPT ![i] = "success"]
    \/ status[i] = "timeout" /\ status' = [status EXCEPT ![i] = "late"]

(* The requests whose time has run out are reported together. *)
Expire(S) ==
    /\ \A i \in S : status[i] = "waiting"
    /\ status' = [i \in PacketIds |-> IF i \in S THEN "timeout" ELSE status[i]]

(* The client is destroyed: nothing more is heard of what still waits. *)
Abandon ==
    status' = [i \in PacketIds |-> IF status[i] = "waiting" THEN "idle" ELSE status[i]]

Next ==
    \/ \E i \in PacketIds : Send(i) \/ Succeed(i)
    \/ \E S \in SUBSET PacketIds : Expire(S)
    \/ Abandon

Spec == Init /\ [][Next]_status
============================================================================
