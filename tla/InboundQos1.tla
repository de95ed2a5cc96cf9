----------------------------- MODULE InboundQos1 ---------------------------
(***************************************************************************)
(* QoS 1 messages from the broker: the PUBLISH handler, its ring of packet *)
(* ids received lately (repeat_packet_id_buf, MQTT_RMDUP_MSG_ENABLED), the *)
(* PUBACK it sends, and a broker that keeps a window of unacknowledged     *)
(* messages and sends them again when the client comes back.               *)
(*                                                                         *)
(* The handler looks the id up, runs the callback, puts the id in the ring *)
(* and acknowledges, in this order, and the callback may yield: while it   *)
(* runs, other packets are handled, and the connection may be lost and     *)
(* made again.  A PUBACK is lost with the connection, when it is under way *)
(* or written after the link broke, or because its write fails on a link   *)
(* that is up: the yield then ends with an error, and nothing is repeated. *)
(***************************************************************************)
EXTENDS Naturals, Sequences, SequencesExt

CONSTANTS
    NumMsgs,       \* bound: messages the broker has for the client, 1..NumMsgs
    RingLen,       \* MQTT_MAX_REPEAT_BUF_LEN
    Window,        \* unacknowledged messages the broker allows itself
    BrokerIds,     \* the broker numbers its messages 1..BrokerIds, then 1 again
    MaxHandlers,   \* bound: PUBLISH handlers that run inside each other
    CleanSession   \* the clean_session connect option

ASSUME NumMsgsAssumption   == NumMsgs \in Nat
ASSUME RingLenAssumption   == RingLen \in Nat \ {0}
ASSUME WindowAssumption    == Window \in 1..RingLen
ASSUME BrokerIdsAssumption == BrokerIds \in Nat /\ BrokerIds >= RingLen + Window
ASSUME HandlersAssumption  == MaxHandlers \in Nat \ {0}
ASSUME CleanAssumption     == CleanSession \in BOOLEAN

VARIABLES
    ring,         \* repeat_packet_id_buf
    cnt,          \* current_packet_id_cnt
    isConnected,  \* is_connected
    linkUp,       \* the link carries packets
    delivered,    \* how often each message was handed to its handler
    handling,     \* packets whose callback is running, innermost first
    toClient,     \* PUBLISH packets under way or in the receive buffer
    toBroker,     \* ids of PUBACK packets under way
    inflight,     \* the broker's unacknowledged messages, oldest first
    sent,         \* messages the broker has sent at least once
    brokerId,     \* packet id the broker used last
    acked,        \* messages the broker has seen the PUBACK of
    ackLost,      \* history: their last PUBACK on this connection failed on a live link
    disordered    \* history: ids may be in the ring in another order than sent

vars == <<ring, cnt, isConnected, linkUp, delivered, handling, toClient, toBroker,
          inflight, sent, brokerId, acked, ackLost, disordered>>

clientVars == <<ring, cnt, delivered, handling>>
histVars   == <<ackLost, disordered>>
brokerVars == <<inflight, sent, brokerId, acked>>

----------------------------------------------------------------------------
Msgs   == 1..NumMsgs
Ids    == 1..BrokerIds
Packet == [msg: Msgs, id: Ids]

(* Mutant: an id below one received lately counts as received. *)
RememberedBelow(id) == \E k \in 0..RingLen - 1 : ring[k] >= id

(* Mutant: ids are compared in fewer bits than they have. *)
RememberedTruncated(id) == \E k \in 0..RingLen - 1 : ring[k] % 3 = id % 3

(* _get_packet_id_in_repeat_buf *)
Remembered(id) == \E k \in 0..RingLen - 1 : ring[k] = id

Init ==
    /\ ring = [k \in 0..RingLen - 1 |-> 0]
    /\ cnt = 0
    /\ isConnected = TRUE /\ linkUp = TRUE
    /\ delivered = [m \in Msgs |-> 0]
    /\ handling = <<>>
    /\ toClient = <<>> /\ toBroker = <<>>
    /\ inflight = <<>>
    /\ sent = 0 /\ brokerId = 0
    /\ acked = {}
    /\ ackLost = {} /\ disordered = FALSE

----------------------------------------------------------------------------
NextBrokerId == IF brokerId = BrokerIds THEN 1 ELSE brokerId + 1

(* Nobody holds the id any more. *)
Fresh(id) ==
    /\ ~Remembered(id)
    /\ \A k \in DOMAIN handling : handling[k].id # id
    /\ \A k \in DOMAIN toClient : toClient[k].id # id
    /\ \A k \in DOMAIN inflight : inflight[k].id # id
    /\ \A k \in DOMAIN toBroker : toBroker[k] # id

(* How many ids come before this one when the ids are given in turn. *)
Turn(id) == (id + BrokerIds - brokerId - 1) % BrokerIds

(* The broker gives its ids in turn.  One with 65535 of them does not come *)
(* round to an id that is still in use; with the few of an instance that   *)
(* has to be said, once the client remembers ids in another order than the *)
(* one they were sent in.                                                  *)
MaySendAs(id) ==
    IF disordered /\ ~CleanSession
    THEN Fresh(id) /\ \A i \in Ids : Fresh(i) => Turn(id) <= Turn(i)
    ELSE id = NextBrokerId /\ \A k \in DOMAIN inflight : inflight[k].id # id

BrokerSend ==
    /\ linkUp
    /\ sent < NumMsgs /\ Len(inflight) < Window
    /\ \E id \in Ids :
         /\ MaySendAs(id)
         /\ LET p == [msg |-> sent + 1, id |-> id] IN
              /\ inflight' = Append(inflight, p)
              /\ toClient' = Append(toClient, p)
         /\ brokerId' = id
    /\ sent' = sent + 1
    /\ UNCHANGED <<clientVars, histVars, isConnected, linkUp, toBroker, acked>>

(* The broker has at most one unacknowledged message with an id. *)
BrokerPubAck ==
    /\ toBroker # <<>>
    /\ LET Acked == {k \in DOMAIN inflight : inflight[k].id = Head(toBroker)} IN
         /\ inflight' = IF Acked = {} THEN inflight
                        ELSE RemoveAt(inflight, CHOOSE k \in Acked : TRUE)
         /\ acked' = acked \cup {inflight[k].msg : k \in Acked}
    /\ toBroker' = Tail(toBroker)
    /\ UNCHANGED <<clientVars, histVars, isConnected, linkUp, toClient, sent, brokerId>>

----------------------------------------------------------------------------
(* Mutant: the index of the ring starts again one slot late. *)
RememberOffByOne(id) ==
    IF Remembered(id) THEN UNCHANGED <<ring, cnt>>
    ELSE /\ ring' = [ring EXCEPT ![cnt] = id]
         /\ cnt' = IF cnt + 1 > RingLen THEN (cnt + 1) % RingLen ELSE cnt + 1

(* Mutant: the index of the ring does not advance. *)
RememberOneSlot(id) ==
    IF Remembered(id) THEN UNCHANGED <<ring, cnt>>
    ELSE ring' = [ring EXCEPT ![cnt] = id] /\ UNCHANGED cnt

(* _add_packet_id_to_repeat_buf *)
Remember(id) ==
    IF Remembered(id) THEN UNCHANGED <<ring, cnt>>
    ELSE /\ ring' = [ring EXCEPT ![cnt] = id]
         /\ cnt' = IF cnt + 1 >= RingLen THEN (cnt + 1) % RingLen ELSE cnt + 1

(* send_mqtt_packet with the PUBACK: on a broken link it goes nowhere, and *)
(* the write may also fail on a link that is up.                           *)
Acknowledge(p) ==
    \/ /\ linkUp
       /\ toBroker' = Append(toBroker, p.id)
       /\ ackLost' = ackLost \ {p.msg}
       /\ UNCHANGED disordered
    \/ /\ linkUp
       /\ ackLost' = ackLost \cup {p.msg} /\ disordered' = TRUE
       /\ UNCHANGED toBroker
    \/ ~linkUp /\ UNCHANGED <<toBroker, ackLost, disordered>>

(* _handle_publish_packet, QoS 1, with an id that is not in the ring: the  *)
(* callback is called.                                                     *)
HandleNew ==
    /\ isConnected /\ toClient # <<>> /\ Len(handling) < MaxHandlers
    /\ LET p == Head(toClient) IN
         /\ ~Remembered(p.id)
         /\ delivered' = [delivered EXCEPT ![p.msg] = @ + 1]
         /\ handling' = <<p>> \o handling
    /\ toClient' = Tail(toClient)
    /\ disordered' = (disordered \/ handling # <<>>)
    /\ UNCHANGED <<ring, cnt, isConnected, linkUp, toBroker, brokerVars, ackLost>>

(* Mutant: a repeated packet is not acknowledged again. *)
HandleRepeatSilently ==
    /\ isConnected /\ toClient # <<>>
    /\ Remembered(Head(toClient).id)
    /\ toClient' = Tail(toClient)
    /\ UNCHANGED <<clientVars, histVars, isConnected, linkUp, toBroker, brokerVars>>

(* _handle_publish_packet, QoS 1, with an id that is in the ring: it is    *)
(* not delivered, but acknowledged all the same.                           *)
HandleRepeat ==
    /\ isConnected /\ toClient # <<>>
    /\ Remembered(Head(toClient).id)
    /\ Acknowledge(Head(toClient))
    /\ toClient' = Tail(toClient)
    /\ UNCHANGED <<clientVars, isConnected, linkUp, brokerVars>>

(* The innermost callback returns, and the rest of its handler runs on     *)
(* whatever connection there is by then.                                   *)
Return ==
    /\ handling # <<>>
    /\ Remember(Head(handling).id)
    /\ Acknowledge(Head(handling))
    /\ handling' = Tail(handling)
    /\ UNCHANGED <<delivered, toClient, isConnected, linkUp, brokerVars>>

----------------------------------------------------------------------------
(* The link breaks. What has already arrived is still read. *)
LinkBreaks ==
    /\ linkUp
    /\ linkUp' = FALSE
    /\ \E k \in 0..Len(toClient) : toClient' = SubSeq(toClient, 1, k)
    /\ toBroker' = <<>>
    /\ UNCHANGED <<clientVars, histVars, isConnected, brokerVars>>

(* A read or a write fails: _handle_disconnect closes the socket *)
Disconnect ==
    /\ isConnected /\ ~linkUp
    /\ isConnected' = FALSE
    /\ toClient' = <<>>
    /\ UNCHANGED <<clientVars, histVars, linkUp, toBroker, brokerVars>>

(* Mutant: the ring is reset with every connection. *)
ReconnectForgets ==
    /\ ~isConnected
    /\ isConnected' = TRUE /\ linkUp' = TRUE
    /\ toClient' = inflight
    /\ ring' = [k \in 0..RingLen - 1 |-> 0] /\ cnt' = 0
    /\ ackLost' = {} /\ disordered' = (disordered \/ handling # <<>>)
    /\ UNCHANGED <<inflight, brokerId, delivered, handling, toBroker, sent, acked>>

(* qcloud_iot_mqtt_attempt_reconnect. The ring is left as it is; it is     *)
(* reset by IOT_MQTT_Destroy only. The broker starts a new session, which  *)
(* forgets its unacknowledged messages, or sends those again.              *)
Reconnect ==
    /\ ~isConnected
    /\ isConnected' = TRUE /\ linkUp' = TRUE
    /\ IF CleanSession
       THEN inflight' = <<>> /\ brokerId' = 0 /\ UNCHANGED toClient
       ELSE toClient' = inflight /\ UNCHANGED <<inflight, brokerId>>
    /\ ackLost' = {}
    /\ disordered' = (disordered \/ handling # <<>>)
    /\ UNCHANGED <<clientVars, toBroker, sent, acked>>

Next ==
    \/ BrokerSend \/ BrokerPubAck
    \/ HandleNew \/ HandleRepeat \/ Return
    \/ LinkBreaks \/ Disconnect \/ Reconnect

(* The broker and the main loop of the client keep working, callbacks      *)
(* return, and a broken link is noticed and made anew.                     *)
Fairness ==
    /\ WF_vars(BrokerSend) /\ WF_vars(BrokerPubAck)
    /\ WF_vars(handling = <<>> /\ (HandleNew \/ HandleRepeat))
    /\ WF_vars(Return)
    /\ WF_vars(Disconnect) /\ WF_vars(Reconnect)

Spec == Init /\ [][Next]_vars /\ Fairness

----------------------------------------------------------------------------
(* Types of all state variables. *)
TypeOK ==
    /\ ring \in [0..RingLen - 1 -> 0..BrokerIds]
    /\ cnt \in 0..RingLen - 1
    /\ isConnected \in BOOLEAN /\ linkUp \in BOOLEAN
    /\ delivered \in [Msgs -> Nat]
    /\ handling \in Seq(Packet)
    /\ toClient \in Seq(Packet) /\ toBroker \in Seq(Ids)
    /\ inflight \in Seq(Packet)
    /\ sent \in 0..NumMsgs /\ brokerId \in 0..BrokerIds
    /\ acked \subseteq Msgs
    /\ ackLost \subseteq Msgs /\ disordered \in BOOLEAN

(* No message is handed to the application twice, although the broker      *)
(* sends it again after every reconnect until it is acknowledged: without  *)
(* exception where the session is not kept, and in a kept one as long as   *)
(* no callback has handled another message or reconnected, and no PUBACK   *)
(* failed on a live link.  After any of these the id of a message that may *)
(* come again can be missing from the ring, and it is delivered again.     *)
AtMostOnce ==
    CleanSession \/ ~disordered => \A m \in Msgs : delivered[m] <= 1

(* A message the client has acknowledged, which the broker will therefore  *)
(* never send again, has been handed to the application: the check for a   *)
(* packet id received before drops nothing but repeats.                    *)
AckedDelivered == \A m \in acked : delivered[m] >= 1

(* Messages reach the application in the order the broker sent them, and   *)
(* without gaps.                                                           *)
DeliveredInOrder ==
    \A m, n \in Msgs : m < n /\ delivered[n] > 0 => delivered[m] > 0

InHandler(p) == \E k \in DOMAIN handling : handling[k] = p

(* What the ring says about the messages the broker may send again: one    *)
(* that was not delivered is never mistaken for a repeat, whatever the     *)
(* callbacks do.  One that was delivered is in the ring, or its callback   *)
(* is still running, as long as nothing has put the ring out of order.     *)
RingSeparates ==
    \A k \in DOMAIN inflight :
      LET p == inflight[k] IN
        /\ Remembered(p.id) \/ InHandler(p) => delivered[p.msg] > 0
        /\ ~disordered /\ delivered[p.msg] > 0 => Remembered(p.id) \/ InHandler(p)

(* The broker waits for PUBACKs whose write failed, and sends nothing else.*)
Stuck ==
    /\ Len(inflight) = Window
    /\ \A k \in DOMAIN inflight : inflight[k].msg \in ackLost

(* Once the link stays up every message is delivered, or the whole window  *)
(* of the broker waits for PUBACKs that failed: nothing but a reconnect    *)
(* brings these messages, and so the chance to acknowledge them, again.    *)
AllDelivered ==
    <>[]linkUp => <>(\A m \in Msgs : delivered[m] > 0) \/ <>[]Stuck
============================================================================
