------------------------------- MODULE Gateway -------------------------------
(***************************************************************************)
(* The gateway of gateway_api.c and gateway_common.c: a table of sessions  *)
(* of sub-devices over one MQTT client.  A call of the application that    *)
(* needs the cloud (online, offline, bind, unbind) writes the client id of *)
(* the sub-device and a mark into the slot of its operation, publishes at  *)
(* QoS 0 and yields until the message handler has overwritten the mark, or *)
(* until it has yielded often enough.  There is one slot for each          *)
(* operation, so an answer that comes after its call gave up is looked at  *)
(* by the next call.  The cloud may meanwhile order sub-devices to be      *)
(* bound or unbound, or all of them to be dropped.                         *)
(***************************************************************************)
EXTENDS Integers, Sequences, SequencesExt

CONSTANTS
    Devices,     \* the client ids of the sub-devices
    BeginningOf, \* the pairs of different ids of which the first begins the second
    MaxCalls,    \* bound: calls of the application that publish
    MaxOrders,   \* bound: messages the cloud sends of its own accord
    Null

Operations == {"online", "offline", "bind", "unbind"}
Waiting == -2          \* the mark of a slot that no answer has reached
Refused == 1           \* any result that is neither the mark nor zero

VARIABLES
    gwPhase,     \* the gateway: not constructed, subscribing, usable or destroyed
    gwSessions,  \* session_list: the status of each sub-device
    gwBinds,     \* bind_list, newest first
    gwSlots,     \* gateway_data: client id and result of each operation
    gwCall,      \* the running call of the application
    gwUp,        \* requests on their way to the cloud
    gwDown,      \* answers on their way back
    gwCalls,     \* history: calls made so far, the number of a call
    gwOrders,    \* history: orders of the cloud handled so far
    gwGivenUp,   \* history: numbers of the calls that timed out
    gwAccepted,  \* history: the answer each slot took last, for the call that marked it
    gwLast       \* history: what the last finished call returned, and on which answer

gwVars == <<gwPhase, gwSessions, gwBinds, gwSlots, gwCall, gwUp, gwDown,
            gwCalls, gwOrders, gwGivenUp, gwAccepted, gwLast>>

gwCloud == <<gwUp, gwDown>>
gwHistory == <<gwCalls, gwOrders, gwGivenUp, gwAccepted, gwLast>>

Init ==
    /\ gwPhase = "new"
    /\ gwSessions = [d \in Devices |-> "none"]
    /\ gwBinds = <<>>
    /\ gwSlots = [o \in Operations |-> [client |-> Null, result |-> 0]]
    /\ gwCall = Null
    /\ gwUp = {} /\ gwDown = {}
    /\ gwCalls = 0 /\ gwOrders = 0
    /\ gwGivenUp = {}
    /\ gwAccepted = [o \in Operations |-> Null]
    /\ gwLast = Null

-----------------------------------------------------------------------------
\* Construction: subscribe the result topic, wait on sync_status, destroy on failure.

Construct ==
    /\ gwPhase = "new"
    /\ gwPhase' = "subscribing"
    /\ UNCHANGED <<gwSessions, gwBinds, gwSlots, gwCall, gwCloud, gwHistory>>

\* SUBACK with the packet id waited for (granted), or a refusal, a timeout of the
\* request, or GATEWAY_LOOP_MAX_COUNT yields without either.
SubscribeEnds(granted) ==
    /\ gwPhase = "subscribing"
    /\ gwPhase' = IF granted THEN "up" ELSE "down"
    /\ UNCHANGED <<gwSessions, gwBinds, gwSlots, gwCall, gwCloud, gwHistory>>

Destroy ==
    /\ gwPhase = "up" /\ gwCall = Null
    /\ gwPhase' = "down"
    /\ gwSessions' = [d \in Devices |-> "none"]
    /\ gwUp' = {} /\ gwDown' = {}
    /\ UNCHANGED <<gwBinds, gwSlots, gwCall, gwHistory>>

-----------------------------------------------------------------------------
\* Calls of the application.

Free == gwPhase = "up" /\ gwCall = Null /\ gwCalls < MaxCalls

\* What each call leaves in its slot before it publishes.
Mark(o, d) ==
    /\ gwSlots' = [gwSlots EXCEPT ![o] = [client |-> d, result |-> Waiting]]
    /\ gwAccepted' = [gwAccepted EXCEPT ![o] = Null]

Publish(o, d) ==
    /\ gwCalls' = gwCalls + 1
    /\ gwCall' = [op |-> o, dev |-> d, n |-> gwCalls + 1, held |-> TRUE]
    /\ gwUp' = gwUp \cup {[op |-> o, dev |-> d, n |-> gwCalls + 1]}
    /\ UNCHANGED gwLast

\* IOT_Gateway_Publish returned an error: the call fails at once.
PublishFails(o, d) ==
    /\ gwCalls' = gwCalls + 1
    /\ gwLast' = [op |-> o, dev |-> d, n |-> gwCalls + 1, ok |-> FALSE, by |-> Null]
    /\ UNCHANGED <<gwCall, gwUp>>

Abandoned(d) == [gwSessions EXCEPT ![d] = "none"]

\* IOT_Gateway_Subdev_Online of a sub-device that is not online yet.
Online(d) ==
    /\ Free /\ gwSessions[d] # "online"
    /\ Mark("online", d)
    /\ \/ /\ Publish("online", d)
          /\ gwSessions' = [gwSessions EXCEPT ![d] = "init"]
       \/ PublishFails("online", d) /\ gwSessions' = Abandoned(d)
    /\ UNCHANGED <<gwPhase, gwBinds, gwDown, gwOrders, gwGivenUp>>

\* IOT_Gateway_Subdev_Offline of a sub-device that has a session, Bind and Unbind of any.
Ask(o, d) ==
    /\ Free /\ o # "online"
    /\ o = "offline" => gwSessions[d] # "none"
    /\ Mark(o, d)
    /\ Publish(o, d) \/ PublishFails(o, d)
    /\ UNCHANGED <<gwPhase, gwSessions, gwBinds, gwDown, gwOrders, gwGivenUp>>

\* IOT_Gateway_Subdev_GetBindList: waits on a result that the message handler never writes.
GetBindList ==
    /\ Free
    /\ gwBinds' = <<>>
    /\ Publish("list", Null)
    /\ UNCHANGED <<gwPhase, gwSessions, gwSlots, gwDown, gwOrders, gwGivenUp, gwAccepted>>

Arrived == gwCall.op \in Operations /\ gwSlots[gwCall.op].result # Waiting

\* A failed online drops the session; a good one marks the session it holds a pointer
\* to, which an unbind of all sub-devices may have freed meanwhile.
SessionsAfter(ok) ==
    CASE gwCall.op = "online" /\ ~ok -> Abandoned(gwCall.dev)
      [] gwCall.op = "online" /\ ok /\ gwCall.held -> [gwSessions EXCEPT ![gwCall.dev] = "online"]
      [] gwCall.op = "offline" /\ ok -> Abandoned(gwCall.dev)
      [] OTHER -> gwSessions

Returned(ok) ==
    /\ gwSessions' = SessionsAfter(ok)
    /\ gwLast' = [op |-> gwCall.op, dev |-> gwCall.dev, n |-> gwCall.n, ok |-> ok,
                  by |-> IF ok THEN gwAccepted[gwCall.op] ELSE Null]
    /\ gwCall' = Null
    /\ UNCHANGED <<gwPhase, gwBinds, gwSlots, gwCloud, gwCalls, gwOrders, gwAccepted>>

\* The loop of gateway_publish_sync sees that the result has changed.
Answered ==
    /\ gwCall # Null /\ Arrived
    /\ Returned(gwSlots[gwCall.op].result = 0)
    /\ UNCHANGED gwGivenUp

\* Mutant: the list of bindings has no loop counter.
OutOfLoopsInSlot == gwCall # Null /\ gwCall.op \in Operations /\ ~Arrived

\* GATEWAY_LOOP_MAX_COUNT yields went by without an answer.
OutOfLoops == gwCall # Null /\ ~Arrived

LoopedOut ==
    /\ OutOfLoops
    /\ Returned(FALSE)
    /\ gwGivenUp' = gwGivenUp \cup {gwCall.n}

-----------------------------------------------------------------------------
\* The cloud and the message handler, which runs inside a yield.

CloudAnswers(r, result) ==
    /\ gwUp' = gwUp \ {r}
    /\ gwDown' = gwDown \cup {[r |-> r, result |-> result]}
    /\ UNCHANGED <<gwPhase, gwSessions, gwBinds, gwSlots, gwCall, gwHistory>>

\* QoS 0: a request or an answer may be lost.
MessageLost ==
    /\ \/ \E r \in gwUp : gwUp' = gwUp \ {r} /\ UNCHANGED gwDown
       \/ \E a \in gwDown : gwDown' = gwDown \ {a} /\ UNCHANGED gwUp
    /\ UNCHANGED <<gwPhase, gwSessions, gwBinds, gwSlots, gwCall, gwHistory>>

\* Mutant: an answer is taken for any sub-device.
MatchesAny(answered, d) == TRUE

\* strncmp over the length of the id in the answer.
Matches(answered, d) == answered = d \/ <<answered, d>> \in BeginningOf

\* The reply to a request for the bound list has no slot: it is answered with the list.
HandleAnswer(a) ==
    LET o == a.r.op
        mine == o \in Operations /\ Matches(a.r.dev, gwSlots[o].client)
    IN  /\ gwPhase = "up"
        /\ gwDown' = gwDown \ {a}
        /\ gwSlots' = IF mine THEN [gwSlots EXCEPT ![o].result = a.result] ELSE gwSlots
        /\ gwAccepted' = IF mine THEN [gwAccepted EXCEPT ![o] = a] ELSE gwAccepted
        /\ UNCHANGED <<gwPhase, gwSessions, gwBinds, gwCall, gwUp, gwCalls, gwOrders,
                       gwGivenUp, gwLast>>

Ordered ==
    /\ gwPhase = "up" /\ gwOrders < MaxOrders
    /\ gwOrders' = gwOrders + 1

\* A change of the topology: bound sub-devices are put at the head of the list, even one
\* that is there, and the first entry of an unbound one is taken out.
HandleChange(d, bound) ==
    /\ Ordered
    /\ gwBinds' = IF bound THEN <<d>> \o gwBinds ELSE RemoveFirst(gwBinds, d)
    /\ UNCHANGED <<gwPhase, gwSessions, gwSlots, gwCall, gwCloud, gwCalls, gwGivenUp,
                   gwAccepted, gwLast>>

HandleUnbindAll ==
    /\ Ordered
    /\ gwSessions' = [d \in Devices |-> "none"]
    /\ gwCall' = IF gwCall = Null THEN Null ELSE [gwCall EXCEPT !.held = FALSE]
    /\ UNCHANGED <<gwPhase, gwBinds, gwSlots, gwCloud, gwCalls, gwGivenUp, gwAccepted, gwLast>>

Next ==
    \/ Construct \/ Destroy
    \/ \E granted \in BOOLEAN : SubscribeEnds(granted)
    \/ \E d \in Devices : Online(d)
    \/ \E o \in Operations, d \in Devices : Ask(o, d)
    \/ GetBindList
    \/ Answered \/ LoopedOut
    \/ \E r \in gwUp, result \in {0, Refused} : CloudAnswers(r, result)
    \/ MessageLost
    \/ \E a \in gwDown : HandleAnswer(a)
    \/ \E d \in Devices, bound \in BOOLEAN : HandleChange(d, bound)
    \/ HandleUnbindAll

\* gateway_publish_sync counts its yields.
Fairness == WF_gwVars(Answered \/ LoopedOut)

Spec == Init /\ [][Next]_gwVars /\ Fairness
-----------------------------------------------------------------------------
Message == [op : Operations \cup {"list"}, dev : Devices \cup {Null}, n : 1 .. MaxCalls]

\* The ranges of the variables (struct Gateway and its gateway_data).
TypeOK ==
    /\ gwPhase \in {"new", "subscribing", "up", "down"}
    /\ gwSessions \in [Devices -> {"none", "init", "online"}]
    /\ gwBinds \in Seq(Devices)
    /\ \A o \in Operations : /\ gwSlots[o].client \in Devices \cup {Null}
                             /\ gwSlots[o].result \in {0, Refused, Waiting}
    /\ gwCall = Null \/ [op |-> gwCall.op, dev |-> gwCall.dev, n |-> gwCall.n] \in Message
    /\ gwUp \subseteq Message
    /\ gwCalls \in 0 .. MaxCalls /\ gwOrders \in 0 .. MaxOrders

\* A call that returns success was answered with zero: for its own operation, for a
\* sub-device whose id it shares or begins with, and to this very request, unless an
\* earlier call was given up: from then on each call may take the answer to the one before.
SuccessIsAnswered ==
    (gwLast # Null /\ gwLast.ok) =>
        LET a == gwLast.by
        IN  /\ a # Null /\ a.result = 0
            /\ a.r.op = gwLast.op
            /\ a.r.dev = gwLast.dev \/ <<a.r.dev, gwLast.dev>> \in BeginningOf
            /\ a.r.n = gwLast.n \/ (\E g \in gwGivenUp : g <= a.r.n /\ a.r.n < gwLast.n)

\* Between calls a session is either absent or online: a call that failed half way, at
\* any point, leaves no session that the next call would take for one in use.
IdleSessionsOnline ==
    gwCall = Null => \A d \in Devices : gwSessions[d] \in {"none", "online"}
=============================================================================
