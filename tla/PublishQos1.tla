----------------------------- MODULE PublishQos1 ---------------------------
(***************************************************************************)
(* QoS 1 publishes of the application: the list list_pub_wait_ack, the     *)
(* packet ids, the PUBACK handler and the scan that gives up on publishes  *)
(* that were not acknowledged in time, over a connection that can break.   *)
(* The client never sends a publish again by itself.                       *)
(***************************************************************************)
EXTENDS Naturals, FiniteSets, Sequences

CONSTANTS
    MaxRepub,     \* MAX_REPUB_NUM, the size of the wait list
    MaxPacketId,  \* MAX_PACKET_ID
    StartIds      \* what _get_random_start_packet_id may return

ASSUME MaxRepubAssumption    == MaxRepub \in Nat \ {0}
ASSUME MaxPacketIdAssumption == MaxPacketId \in Nat \ {0}
ASSUME StartIdsAssumption    == StartIds \subseteq 0..MaxPacketId

VARIABLES
    pubWaitAck,    \* list_pub_wait_ack: nodes [id, valid]
    nextPacketId,  \* next_packet_id: the id given out last
    isConnected,   \* is_connected
    due,           \* a packet was read and the main loop owes the list scan
    toBroker,      \* ids of PUBLISH packets under way
    toClient,      \* ids of PUBACK packets under way
    received,      \* ids whose message, as last sent, reached the broker
    outcome,       \* events reported for the publish that last took an id
    alive          \* FALSE once IOT_MQTT_Destroy has run

vars == <<pubWaitAck, nextPacketId, isConnected, due, toBroker, toClient, received,
          outcome, alive>>

----------------------------------------------------------------------------
PacketIds == 1..MaxPacketId
Events    == {"PUBLISH_SUCCESS", "PUBLISH_TIMEOUT"}
Node      == [id: PacketIds, valid: BOOLEAN]

WaitIds     == {n.id : n \in pubWaitAck}
Pending     == {n \in pubWaitAck : n.valid}
InFlight(s) == {s[k] : k \in DOMAIN s}

(* Mutant: the id counter does not start again at 1. *)
NextPacketIdUnbounded == nextPacketId + 1

(* get_next_packet_id *)
NextPacketId == IF nextPacketId = MaxPacketId THEN 1 ELSE nextPacketId + 1

(* 65535 ids against MaxRepub publishes under way: an id is not given out  *)
(* again while a node or a packet still carries it.                        *)
FreshId(id) == id \notin WaitIds \cup InFlight(toBroker) \cup InFlight(toClient)

Init ==
    /\ pubWaitAck = {}
    /\ nextPacketId \in StartIds
    /\ isConnected = TRUE /\ due = FALSE /\ alive = TRUE
    /\ toBroker = <<>> /\ toClient = <<>>
    /\ received = {}
    /\ outcome = [i \in PacketIds |-> {}]

(* qcloud_iot_mqtt_publish: the node is queued before the packet is sent   *)
Publish ==
    /\ alive /\ isConnected
    /\ Cardinality(pubWaitAck) < MaxRepub
    /\ FreshId(NextPacketId)
    /\ pubWaitAck' = pubWaitAck \cup {[id |-> NextPacketId, valid |-> TRUE]}
    /\ nextPacketId' = NextPacketId
    /\ toBroker' = Append(toBroker, NextPacketId)
    /\ received' = received \ {NextPacketId}
    /\ outcome' = [outcome EXCEPT ![NextPacketId] = {}]
    /\ UNCHANGED <<isConnected, due, toClient, alive>>

(* The publish is refused: the list is full, memory is short or the packet *)
(* cannot be sent. The node is taken back; the id is spent. The requests   *)
(* of subscribe and unsubscribe take ids from the same counter.            *)
TakeIdOnly ==
    /\ alive /\ isConnected
    /\ nextPacketId' = NextPacketId
    /\ UNCHANGED <<pubWaitAck, isConnected, due, toBroker, toClient, received, outcome, alive>>

BrokerReceive ==
    /\ toBroker # <<>>
    /\ received' = received \cup {Head(toBroker)}
    /\ toBroker' = Tail(toBroker)
    /\ toClient' = Append(toClient, Head(toBroker))
    /\ UNCHANGED <<pubWaitAck, nextPacketId, isConnected, due, outcome, alive>>

(* Mutant: an acknowledged publish stays valid. *)
MaskedNothing(id) == pubWaitAck

(* _mask_pubInfo_from: the node is only marked, the scan removes it *)
Masked(id) == {IF n.id = id THEN [n EXCEPT !.valid = FALSE] ELSE n : n \in pubWaitAck}

(* _handle_puback_packet: success is reported with or without a node *)
HandlePubAck ==
    /\ alive /\ isConnected /\ ~due
    /\ toClient # <<>>
    /\ pubWaitAck' = Masked(Head(toClient))
    /\ outcome' = [outcome EXCEPT ![Head(toClient)] = @ \cup {"PUBLISH_SUCCESS"}]
    /\ toClient' = Tail(toClient)
    /\ due' = TRUE
    /\ UNCHANGED <<nextPacketId, isConnected, toBroker, received, alive>>

(* Mutant: the event of a publish given up on is the one of success. *)
TimeoutEventWrong == "PUBLISH_SUCCESS"
TimeoutEvent      == "PUBLISH_TIMEOUT"

(* Mutant: publishes are given up on while the connection is down. *)
MayTimeOutWhileDown == Pending
MayTimeOut          == IF isConnected THEN Pending ELSE {}

(* Mutant: a publish given up on is reported and stays in the list. *)
RemainingAll(timedOut) == Pending
Remaining(timedOut)    == Pending \ timedOut

(* qcloud_iot_mqtt_pub_info_proc: remove the invalid nodes, and report and *)
(* remove the ones whose timer has run out, timedOut; none of those while  *)
(* the connection is down.                                                 *)
PubInfoProc(timedOut) ==
    /\ alive /\ (isConnected \/ due)
    /\ timedOut \subseteq MayTimeOut
    /\ pubWaitAck' = Remaining(timedOut)
    /\ outcome' = [i \in PacketIds |->
         IF \E n \in timedOut : n.id = i THEN outcome[i] \cup {TimeoutEvent} ELSE outcome[i]]
    /\ due' = FALSE
    /\ UNCHANGED <<nextPacketId, isConnected, toBroker, toClient, received, alive>>

(* _handle_disconnect: the packets under way are lost, the list is kept *)
LoseConnection ==
    /\ alive /\ isConnected
    /\ isConnected' = FALSE
    /\ toBroker' = <<>> /\ toClient' = <<>>
    /\ UNCHANGED <<pubWaitAck, nextPacketId, due, received, outcome, alive>>

Connect ==
    /\ alive /\ ~isConnected
    /\ isConnected' = TRUE
    /\ UNCHANGED <<pubWaitAck, nextPacketId, due, toBroker, toClient, received, outcome, alive>>

Destroy ==
    /\ alive
    /\ alive' = FALSE /\ isConnected' = FALSE /\ due' = FALSE
    /\ pubWaitAck' = {}
    /\ toBroker' = <<>> /\ toClient' = <<>>
    /\ UNCHANGED <<nextPacketId, received, outcome>>

Next ==
    \/ Publish \/ TakeIdOnly
    \/ BrokerReceive
    \/ HandlePubAck
    \/ \E timedOut \in SUBSET Pending : PubInfoProc(timedOut)
    \/ LoseConnection \/ Connect
    \/ Destroy

(* Time passes: while the client stays connected the main loop keeps       *)
(* scanning, and sooner or later finds the timer of a publish run out.     *)
TimesOut(i) ==
    \E timedOut \in SUBSET Pending : (\E n \in timedOut : n.id = i) /\ PubInfoProc(timedOut)

Fairness ==
    /\ WF_vars(PubInfoProc({}))
    /\ \A i \in PacketIds : WF_vars(TimesOut(i))

Spec == Init /\ [][Next]_vars /\ Fairness

----------------------------------------------------------------------------
(* Types of all state variables. *)
TypeOK ==
    /\ pubWaitAck \subseteq Node
    /\ nextPacketId \in 0..MaxPacketId
    /\ isConnected \in BOOLEAN /\ due \in BOOLEAN /\ alive \in BOOLEAN
    /\ toBroker \in Seq(PacketIds) /\ toClient \in Seq(PacketIds)
    /\ received \subseteq PacketIds
    /\ outcome \in [PacketIds -> SUBSET Events]

(* A publish is reported successful only if the broker has received that   *)
(* publish, and not an earlier one that used the same packet id.           *)
SuccessMeansReceived ==
    \A i \in PacketIds : "PUBLISH_SUCCESS" \in outcome[i] => i \in received

(* A publish that still waits has been reported neither way: the scan does *)
(* not give up on one that was acknowledged but is still in the list.      *)
WaitingUnreported == \A n \in Pending : outcome[n.id] = {}

(* PUBLISH_TIMEOUT is reported while the client is connected and never     *)
(* for a publish already reported as successful.                           *)
TimeoutReported(i) == "PUBLISH_TIMEOUT" \in outcome'[i] /\ "PUBLISH_TIMEOUT" \notin outcome[i]
TimeoutOnlyUnacked ==
    [][\A i \in PacketIds : TimeoutReported(i) =>
         isConnected /\ "PUBLISH_SUCCESS" \notin outcome[i]]_vars

(* Once the connection stays up, every publish that waits is reported. *)
Waits(i) == \E n \in Pending : n.id = i
PublishReported ==
    <>[](isConnected \/ ~alive) => \A i \in PacketIds : Waits(i) ~> ~Waits(i)

(* The list, the marks and the events implement the promise of             *)
(* PublishContract.                                                        *)
StatusOf(i) ==
    IF Waits(i) THEN "waiting"
    ELSE IF outcome[i] = Events THEN "late"
    ELSE IF "PUBLISH_SUCCESS" \in outcome[i] THEN "success"
    ELSE IF "PUBLISH_TIMEOUT" \in outcome[i] THEN "timeout"
    ELSE "idle"

Status == [i \in PacketIds |-> StatusOf(i)]

Contract == INSTANCE PublishContract WITH PacketIds <- PacketIds, status <- Status

ImplementsContract == Contract!Spec
============================================================================
