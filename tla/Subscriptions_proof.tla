------------------------ MODULE Subscriptions_proof ------------------------
(***************************************************************************)
(* Proofs about Subscriptions: types, the ownership of topic filters, the  *)
(* distinctness of handles, the single outcome of a subscribe, that no     *)
(* filter leaks and that a resubscribe covers the table, for every number  *)
(* of topics, callbacks, handles, blocks and packet ids.                   *)
(*                                                                         *)
(* They hold when the uninitialized pointer of the UNSUBACK handler is     *)
(* NULL: with any other content the ownership of filters is lost.          *)
(***************************************************************************)
EXTENDS Subscriptions, TLAPS

OnWire == Ids(toBroker) \cup Ids(toClient)

(* No two packets of a channel carry the same id. *)
OneIdEach(s) == \A i, j \in DOMAIN s : s[i].id = s[j].id => i = j

(* One request of the client bears each id: one node, one packet. *)
NodesUnique   == \A n, m \in subWaitAck : n.id = m.id => n = m
PacketsUnique == OneIdEach(toBroker) /\ OneIdEach(toClient)
                 /\ Ids(toBroker) \cap Ids(toClient) = {}

(* A request that was answered is not answered again. *)
AnsweredOnce == \A n \in subWaitAck : n.id \in OnWire => n.valid

(* Of a request that waits nothing was reported, and of one whose packet   *)
(* is under way not its success.                                           *)
PendingSilent == \A n \in Pending : n.id \in Watched => outcome[n.id] = {}
WireSilent    == \A i \in OnWire \cap Watched : "SUB_SUCCESS" \notin outcome[i]

Wires   == NodesUnique /\ PacketsUnique /\ AnsweredOnce
Reports == PendingSilent /\ WireSilent /\ SubscribeOutcome

IInv == TypeOK /\ Wires /\ FilterOwnership /\ DistinctHandles /\ Reports

----------------------------------------------------------------------------
(* get_next_packet_id never returns 0 and never leaves 1..MAX_PACKET_ID. *)
LEMMA NextPacketIdRange ==
    ASSUME nextPacketId \in 0..MaxPacketId
    PROVE  NextPacketId \in PacketIds
  BY MaxPacketIdAssumption DEF NextPacketId, PacketIds

(* A packet put at the end of a channel is the only new one in it. *)
LEMMA AppendIds ==
    ASSUME NEW S, NEW s \in Seq(S), NEW x \in S
    PROVE  /\ Append(s, x) \in Seq(S)
           /\ Ids(Append(s, x)) = Ids(s) \cup {x.id}
           /\ OneIdEach(s) /\ x.id \notin Ids(s) => OneIdEach(Append(s, x))
  <1> DEFINE t == Append(s, x)
  <1>1. t \in Seq(S) /\ DOMAIN t = 1..Len(s) + 1 /\ DOMAIN s = 1..Len(s) /\ Len(s) \in Nat
    OBVIOUS
  <1>2. (\A k \in 1..Len(s) : t[k] = s[k]) /\ t[Len(s) + 1] = x
    OBVIOUS
  <1> HIDE DEF t
  <1>3. \A k : k \in DOMAIN t <=> (k \in DOMAIN s \/ k = Len(s) + 1)
    BY <1>1
  <1>4. \A y : y \in Ids(t) <=> y \in Ids(s) \cup {x.id}
    BY <1>1, <1>2, <1>3 DEF Ids
  <1>5. ASSUME OneIdEach(s), x.id \notin Ids(s) PROVE OneIdEach(t)
    BY <1>1, <1>2, <1>3, <1>5 DEF OneIdEach, Ids
  <1> QED
    BY <1>1, <1>4, <1>5 DEF t

(* Taking the first packet of a channel leaves the others, each with an id *)
(* of its own.                                                             *)
LEMMA TailIds ==
    ASSUME NEW S, NEW s \in Seq(S), s # <<>>
    PROVE  /\ Tail(s) \in Seq(S)
           /\ Head(s) \in S /\ Head(s).id \in Ids(s)
           /\ Ids(Tail(s)) \subseteq Ids(s)
           /\ OneIdEach(s) => OneIdEach(Tail(s)) /\ Head(s).id \notin Ids(Tail(s))
  <1> DEFINE t == Tail(s)
  <1>1. t \in Seq(S) /\ Head(s) \in S /\ Head(s) = s[1]
    OBVIOUS
  <1>2. DOMAIN s = 1..Len(s) /\ Len(s) \in Nat \ {0} /\ DOMAIN t = 1..Len(s) - 1
    OBVIOUS
  <1>3. \A k \in DOMAIN t : k + 1 \in DOMAIN s /\ k + 1 # 1 /\ t[k] = s[k + 1]
    BY <1>2
  <1> HIDE DEF t
  <1>4. Head(s).id \in Ids(s) /\ 1 \in DOMAIN s
    BY <1>1, <1>2 DEF Ids
  <1>5. Ids(t) \subseteq Ids(s)
    BY <1>3 DEF Ids
  <1>6. ASSUME OneIdEach(s) PROVE OneIdEach(t)
    <2> SUFFICES ASSUME NEW i \in DOMAIN t, NEW j \in DOMAIN t, t[i].id = t[j].id PROVE i = j
      BY DEF OneIdEach
    <2>1. i + 1 = j + 1
      BY <1>3, <1>6 DEF OneIdEach
    <2> QED
      BY <2>1, <1>2
  <1>7. ASSUME OneIdEach(s) PROVE Head(s).id \notin Ids(t)
    BY <1>1, <1>3, <1>4, <1>7 DEF OneIdEach, Ids
  <1> QED
    BY <1>1, <1>4, <1>5, <1>6, <1>7 DEF t

(* Marking the nodes of an id changes no other node and no id. *)
LEMMA MaskedNodes ==
    ASSUME subWaitAck \subseteq Node, NEW id
    PROVE  /\ Masked(id) \subseteq Node
           /\ {n \in Masked(id) : n.valid} = {n \in Pending : n.id # id}
           /\ \A m \in Masked(id) : ~m.valid => m.id = id \/ m \in subWaitAck
           /\ {n.id : n \in Masked(id)} = WaitIds
           /\ NodesUnique => \A n, m \in Masked(id) : n.id = m.id => n = m
  <1> DEFINE Mark(n) == [n EXCEPT !.valid = FALSE]
  <1>1. \A n \in subWaitAck : Mark(n) \in Node /\ Mark(n).id = n.id /\ ~Mark(n).valid
    BY DEF Node
  <1>2. \A n \in subWaitAck : n \in Node
    OBVIOUS
  <1> DEFINE Image(n) == IF n.id = id THEN Mark(n) ELSE n
  <1>3. Masked(id) = {Image(n) : n \in subWaitAck}
    BY DEF Masked
  <1>4. \A n \in subWaitAck : /\ n.id = id => Image(n) = Mark(n)
                              /\ n.id # id => Image(n) = n
    OBVIOUS
  <1> HIDE DEF Mark, Image
  <1>5. \A n \in subWaitAck : Image(n) \in Node /\ Image(n).id = n.id
    BY <1>1, <1>2, <1>4
  <1>6. Masked(id) \subseteq Node
    BY <1>3, <1>5
  <1>7. {n \in Masked(id) : n.valid} = {n \in Pending : n.id # id}
    BY <1>1, <1>3, <1>4 DEF Pending
  <1>8. \A m \in Masked(id) : ~m.valid => m.id = id \/ m \in subWaitAck
    BY <1>1, <1>3, <1>4
  <1>9. {n.id : n \in Masked(id)} = WaitIds
    BY <1>3, <1>5 DEF WaitIds
  <1>10. NodesUnique => \A n, m \in Masked(id) : n.id = m.id => n = m
    BY <1>3, <1>5 DEF NodesUnique
  <1> QED
    BY <1>6, <1>7, <1>8, <1>9, <1>10

----------------------------------------------------------------------------
Heaps == [Blocks -> Topics \cup {Null}]

(* free() leaves a heap. *)
LEMMA FreedHeap ==
    ASSUME NEW h \in Heaps, NEW bs
    PROVE  /\ Freed(h, bs) \in Heaps
           /\ \A b \in Blocks : Freed(h, bs)[b] = IF b \in bs THEN Null ELSE h[b]
  BY DEF Heaps, Freed

(* Events are added to the reports of known kinds. *)
LEMMA ReportType ==
    ASSUME outcome \in [Watched -> SUBSET Events], NEW id, NEW event \in Events
    PROVE  Report(id, event) \in [Watched -> SUBSET Events]
  <1>1. \A i \in Watched : outcome[i] \cup {event} \in SUBSET Events
    OBVIOUS
  <1> QED
    BY <1>1 DEF Report

(* A request that is sent has a node of the right type. *)
LEMMA SendRequestType ==
    ASSUME TypeOK, NEW h \in Heaps, NEW type \in Requests, NEW topic \in Topics,
           NEW cb \in Callbacks \cup {Null}, SendRequest(h, type, topic, cb)
    PROVE  /\ heap' \in Heaps /\ subWaitAck' \subseteq Node
           /\ nextPacketId' \in 0..MaxPacketId /\ toBroker' \in Seq(Packet)
           /\ outcome' \in [Watched -> SUBSET Events]
  <1>1. NextPacketId \in PacketIds /\ NextPacketId \in 0..MaxPacketId
    BY NextPacketIdRange DEF TypeOK, PacketIds
  <1>2. PICK f \in FreeBlocksOf(h) :
          /\ heap' = [h EXCEPT ![f] = topic]
          /\ subWaitAck' = subWaitAck \cup
               {[id |-> NextPacketId, type |-> type, filter |-> f, cb |-> cb, valid |-> TRUE]}
    BY DEF SendRequest
  <1>3. f \in Blocks
    BY DEF FreeBlocksOf
  <1>4. heap' \in Heaps
    BY <1>2, <1>3 DEF Heaps
  <1>5. [id |-> NextPacketId, type |-> type, filter |-> f, cb |-> cb, valid |-> TRUE] \in Node
    BY <1>1, <1>3, Zenon DEF Node
  <1>6. subWaitAck' \subseteq Node
    BY <1>2, <1>5, Zenon DEF TypeOK
  <1>7. [id |-> NextPacketId, type |-> type, topic |-> topic] \in Packet
    BY <1>1 DEF Packet
  <1>8. toBroker' \in Seq(Packet)
    BY <1>7, AppendIds DEF SendRequest, TypeOK
  <1>9. outcome' \in [Watched -> SUBSET Events]
    BY DEF SendRequest, TypeOK
  <1>10. nextPacketId' \in 0..MaxPacketId
    BY <1>1 DEF SendRequest
  <1> QED
    BY <1>4, <1>6, <1>8, <1>9, <1>10

(* A request that fails leaves the types. *)
LEMMA RequestFailsType ==
    ASSUME TypeOK, NEW h \in Heaps, RequestFails(h)
    PROVE  /\ heap' \in Heaps /\ subWaitAck' \subseteq Node
           /\ nextPacketId' \in 0..MaxPacketId /\ toBroker' \in Seq(Packet)
           /\ outcome' \in [Watched -> SUBSET Events]
  <1>1. NextPacketId \in 0..MaxPacketId
    BY NextPacketIdRange DEF TypeOK, PacketIds
  <1> QED
    BY <1>1 DEF RequestFails, TypeOK

(* The initial state satisfies the strengthened invariant. *)
LEMMA InitInv == Init => IInv
  <1> SUFFICES ASSUME Init PROVE IInv
    OBVIOUS
  <1>1. toBroker = <<>> /\ toClient = <<>> /\ subWaitAck = {} /\ OnWire = {} /\ Pending = {}
    BY DEF Init, OnWire, Ids, Pending
  <1>2. \A s \in Slots : ~Used(s)
    BY DEF Init, Used
  <1>3. TypeOK
    <2>1. nextPacketId \in 0..MaxPacketId
      BY StartIdsAssumption DEF Init
    <2>2. toBroker \in Seq(Packet) /\ toClient \in Seq(Ack)
      BY <1>1
    <2>3. cursor \in 0..MaxHandles
      BY MaxHandlesAssumption DEF Init
    <2>4. heap \in [Blocks -> Topics \cup {Null}]
      BY DEF Init
    <2>5. subHandles \in [Slots -> Handle]
      BY DEF Init, Handle
    <2> QED
      BY <1>1, <2>1, <2>2, <2>3, <2>4, <2>5 DEF Init, TypeOK
  <1>4. Wires
    BY <1>1 DEF Wires, NodesUnique, PacketsUnique, AnsweredOnce, OneIdEach, Ids
  <1>5. FilterOwnership /\ DistinctHandles
    BY <1>1, <1>2 DEF FilterOwnership, DistinctHandles
  <1>6. Reports
    BY <1>1 DEF Reports, PendingSilent, WireSilent, SubscribeOutcome, Init
  <1> QED
    BY <1>3, <1>4, <1>5, <1>6 DEF IInv

----------------------------------------------------------------------------
(* Reading a packet keeps the types of what it leaves alone. *)
LEMMA ReadingType ==
    ASSUME TypeOK, NEW type, Reading(type)
    PROVE  /\ toClient \in Seq(Ack) /\ toClient # <<>> /\ toClient' = Tail(toClient)
           /\ toClient' \in Seq(Ack) /\ Head(toClient) \in Ack
           /\ nextPacketId' = nextPacketId /\ isConnected' = isConnected /\ cursor' = cursor
           /\ toBroker' = toBroker /\ brokerSubs' = brokerSubs /\ alive' = alive
  BY TailIds DEF Reading, TypeOK

(* Every step preserves the types. The topic of a resubscribe is one       *)
(* because the filters in the table are allocated.                         *)
LEMMA NextType == TypeOK /\ FilterOwnership /\ [Next]_vars => TypeOK'
  <1> SUFFICES ASSUME TypeOK, FilterOwnership, [Next]_vars PROVE TypeOK'
    OBVIOUS
  <1> USE DEF client, wires
  <1>0. heap \in Heaps
    BY DEF TypeOK, Heaps
  <1>1. ASSUME NEW t \in Topics, NEW c \in Callbacks, Subscribe(t, c) PROVE TypeOK'
    <2>1. SendRequest(heap, "SUBSCRIBE", t, c) \/ RequestFails(heap)
      BY <1>1 DEF Subscribe
    <2>2. /\ heap' \in Heaps /\ subWaitAck' \subseteq Node
          /\ nextPacketId' \in 0..MaxPacketId /\ toBroker' \in Seq(Packet)
          /\ outcome' \in [Watched -> SUBSET Events]
      BY <1>0, <2>1, SendRequestType, RequestFailsType DEF Requests
    <2> QED
      BY <1>1, <2>2 DEF Subscribe, TypeOK, Heaps
  <1>2. ASSUME NEW t \in Topics, Unsubscribe(t) PROVE TypeOK'
    <2> DEFINE h == Freed(heap, {subHandles[s].filter : s \in Matching(t)})
    <2>1. h \in Heaps
      BY <1>0, FreedHeap
    <2> HIDE DEF h
    <2>2. \/ SendRequest(h, "UNSUBSCRIBE", t, Null)
          \/ RequestFails(h)
          \/ heap' = h /\ UNCHANGED <<subWaitAck, nextPacketId, toBroker, outcome>>
      BY <1>2 DEF Unsubscribe, h
    <2>3. /\ heap' \in Heaps /\ subWaitAck' \subseteq Node
          /\ nextPacketId' \in 0..MaxPacketId /\ toBroker' \in Seq(Packet)
          /\ outcome' \in [Watched -> SUBSET Events]
      <3>1. CASE SendRequest(h, "UNSUBSCRIBE", t, Null)
        BY <2>1, <3>1, SendRequestType DEF Requests
      <3>2. CASE RequestFails(h)
        BY <2>1, <3>2, RequestFailsType
      <3>3. CASE heap' = h /\ UNCHANGED <<subWaitAck, nextPacketId, toBroker, outcome>>
        BY <2>1, <3>3 DEF TypeOK
      <3> QED
        BY <2>2, <3>1, <3>2, <3>3
    <2>4. subHandles' \in [Slots -> Handle]
      <3>1. \A s \in Slots : [subHandles[s] EXCEPT !.filter = Null] \in Handle
        BY DEF TypeOK, Handle
      <3> QED
        BY <1>2, <3>1 DEF Unsubscribe, TypeOK
    <2> QED
      BY <1>2, <2>3, <2>4 DEF Unsubscribe, TypeOK, Heaps
  <1>3. CASE BrokerSubscribe
    <2>1. Head(toBroker) \in Packet /\ toBroker' \in Seq(Packet)
      BY <1>3, TailIds DEF BrokerSubscribe, TypeOK
    <2>2. brokerSubs' \subseteq Topics
      BY <1>3, <2>1 DEF BrokerSubscribe, TypeOK, Packet
    <2>3. toClient' \in Seq(Ack)
      <3>1. \A ty \in Acks : [id |-> Head(toBroker).id, type |-> ty] \in Ack
        BY <2>1 DEF Ack, Packet
      <3>2. \A ty \in Acks : Append(toClient, [id |-> Head(toBroker).id, type |-> ty]) \in Seq(Ack)
        BY <3>1, AppendIds DEF TypeOK
      <3> QED
        BY <1>3, <3>2 DEF BrokerSubscribe, Acks
    <2> QED
      BY <1>3, <2>1, <2>2, <2>3 DEF BrokerSubscribe, TypeOK
  <1>4. CASE BrokerUnsubscribe
    <2>1. Head(toBroker) \in Packet /\ toBroker' \in Seq(Packet)
      BY <1>4, TailIds DEF BrokerUnsubscribe, TypeOK
    <2>2. [id |-> Head(toBroker).id, type |-> "UNSUBACK"] \in Ack
      BY <2>1 DEF Ack, Packet, Acks
    <2>3. toClient' \in Seq(Ack)
      BY <1>4, <2>2, AppendIds DEF BrokerUnsubscribe, TypeOK
    <2>4. brokerSubs' \subseteq Topics
      BY <1>4 DEF BrokerUnsubscribe, TypeOK
    <2> QED
      BY <1>4, <2>1, <2>3, <2>4 DEF BrokerUnsubscribe, TypeOK
  <1>5. CASE HandleSubAck
    <2> DEFINE id == Head(toClient).id
    <2>0. Reading("SUBACK")
      BY <1>5 DEF HandleSubAck
    <2>1. CASE SubAckUnmatched(id)
      BY <2>0, <2>1, ReadingType DEF SubAckUnmatched, TypeOK
    <2>2. ASSUME NEW n \in subWaitAck, n.id = id, subWaitAck' = Masked(id),
                 SubAckDuplicate(n) \/ SubAckInstall(n) \/ SubAckTableFull(n)
          PROVE  TypeOK'
      <3>1. n \in Node /\ n.filter \in Blocks /\ n.cb \in Callbacks \cup {Null}
        BY DEF TypeOK, Node
      <3>2. subWaitAck' \subseteq Node
        BY <2>2, MaskedNodes DEF TypeOK
      <3>3. outcome' \in [Watched -> SUBSET Events]
        BY <2>2, ReportType
        DEF SubAckDuplicate, SubAckInstall, SubAckTableFull, TypeOK, Events
      <3>4. heap' \in Heaps
        BY <2>2, <1>0, FreedHeap DEF SubAckDuplicate, SubAckInstall, SubAckTableFull
      <3>5. subHandles' \in [Slots -> Handle]
        <4>1. [filter |-> n.filter, cb |-> n.cb] \in Handle
          BY <3>1 DEF Handle
        <4> QED
          BY <2>2, <4>1 DEF SubAckDuplicate, SubAckInstall, SubAckTableFull, TypeOK
      <3>6. due' \in BOOLEAN
        BY <2>2 DEF SubAckDuplicate, SubAckInstall, SubAckTableFull
      <3> QED
        BY <2>0, <3>2, <3>3, <3>4, <3>5, <3>6, ReadingType DEF TypeOK, Heaps
    <2> QED
      BY <1>5, <2>1, <2>2 DEF HandleSubAck
  <1>6. CASE HandleSubNack
    <2> DEFINE id == Head(toClient).id
    <2>0. Reading("SUBNACK")
      BY <1>6 DEF HandleSubNack
    <2>1. subWaitAck' \subseteq Node
      BY <1>6, MaskedNodes DEF HandleSubNack, TypeOK
    <2>2. outcome' \in [Watched -> SUBSET Events]
      BY <1>6, ReportType DEF HandleSubNack, TypeOK, Events
    <2>3. heap' \in Heaps
      BY <1>6, <1>0, FreedHeap DEF HandleSubNack
    <2> QED
      BY <1>6, <2>0, <2>1, <2>2, <2>3, ReadingType DEF HandleSubNack, TypeOK, Heaps
  <1>7. CASE HandleUnsubAck
    <2>0. Reading("UNSUBACK")
      BY <1>7 DEF HandleUnsubAck
    <2>1. subWaitAck' \subseteq Node
      BY <1>7, MaskedNodes DEF HandleUnsubAck, TypeOK
    <2>2. outcome' \in [Watched -> SUBSET Events]
      BY <1>7, ReportType DEF HandleUnsubAck, TypeOK, Events
    <2>3. heap' \in Heaps
      <3>1. \E bs : heap' = Freed(heap, bs)
        BY <1>7 DEF HandleUnsubAck
      <3> QED
        BY <1>0, <3>1, FreedHeap
    <2> QED
      BY <1>7, <2>0, <2>1, <2>2, <2>3, ReadingType DEF HandleUnsubAck, TypeOK, Heaps
  <1>8. ASSUME NEW timedOut \in SUBSET Pending, SubInfoProc(timedOut) PROVE TypeOK'
    <2>1. heap' \in Heaps
      BY <1>8, <1>0, FreedHeap DEF SubInfoProc
    <2>2. subWaitAck' \subseteq Node
      BY <1>8 DEF SubInfoProc, Remaining, Pending, TypeOK
    <2>3. \A n : TimeoutEvent(n) \in Events
      BY DEF TimeoutEvent, Events
    <2>4. \A i \in Watched : outcome[i] \cup {TimeoutEvent(n) : n \in {m \in timedOut : m.id = i}}
                               \in SUBSET Events
      BY <2>3 DEF TypeOK
    <2>5. outcome' \in [Watched -> SUBSET Events]
      BY <1>8, <2>4 DEF SubInfoProc
    <2> QED
      BY <1>8, <2>1, <2>2, <2>5 DEF SubInfoProc, TypeOK, Heaps
  <1>9. CASE LoseConnection
    <2>1. toBroker' \in Seq(Packet) /\ toClient' \in Seq(Ack)
      BY <1>9 DEF LoseConnection
    <2> QED
      BY <1>9, <2>1 DEF LoseConnection, TypeOK
  <1>10. CASE Connect
    <2>1. cursor' \in 0..MaxHandles
      BY <1>10, MaxHandlesAssumption DEF Connect, FirstSlot
    <2>2. brokerSubs' \subseteq Topics
      BY <1>10 DEF Connect, TypeOK
    <2> QED
      BY <1>10, <2>1, <2>2 DEF Connect, TypeOK
  <1>11. CASE Resubscribe
    <2>1. (cursor + 1) % (MaxHandles + 1) \in 0..MaxHandles /\ 0 \in 0..MaxHandles
      BY MaxHandlesAssumption DEF TypeOK
    <2>2. cursor' \in 0..MaxHandles
      BY <1>11, <2>1 DEF Resubscribe
    <2>3. cursor \in Slots
      BY <1>11 DEF Resubscribe, TypeOK, Slots
    <2>4. /\ heap' \in Heaps /\ subWaitAck' \subseteq Node
          /\ nextPacketId' \in 0..MaxPacketId /\ toBroker' \in Seq(Packet)
          /\ outcome' \in [Watched -> SUBSET Events]
      <3>1. CASE UNCHANGED <<heap, subWaitAck, nextPacketId, toBroker, outcome>>
        BY <1>0, <3>1 DEF TypeOK
      <3>2. CASE RequestFails(heap)
        BY <1>0, <3>2, RequestFailsType
      <3>3. CASE Used(cursor) /\ SendRequest(heap, "SUBSCRIBE", TopicOf(cursor), subHandles[cursor].cb)
        <4>1. subHandles[cursor].filter \in Blocks /\ subHandles[cursor].cb \in Callbacks \cup {Null}
          BY <2>3, <3>3 DEF TypeOK, Handle, Used
        <4>2. TopicOf(cursor) \in Topics
          BY <2>3, <3>3, <4>1 DEF FilterOwnership, TopicOf, TypeOK
        <4> QED
          BY <1>0, <3>3, <4>1, <4>2, SendRequestType DEF Requests
      <3> QED
        BY <1>11, <3>1, <3>2, <3>3 DEF Resubscribe
    <2> QED
      BY <1>11, <2>2, <2>4 DEF Resubscribe, TypeOK, Heaps
  <1>12. CASE Destroy
    <2>1. toBroker' \in Seq(Packet) /\ toClient' \in Seq(Ack) /\ subWaitAck' \subseteq Node
      BY <1>12 DEF Destroy
    <2>2. heap' \in Heaps
      BY <1>12, <1>0, FreedHeap DEF Destroy
    <2>3. subHandles' \in [Slots -> Handle]
      <3>1. \A s \in Slots : [subHandles[s] EXCEPT !.filter = Null] \in Handle
        BY DEF TypeOK, Handle
      <3> QED
        BY <1>12, <3>1 DEF Destroy
    <2> QED
      BY <1>12, <2>1, <2>2, <2>3 DEF Destroy, TypeOK, Heaps
  <1>13. CASE UNCHANGED vars
    BY <1>13 DEF vars, TypeOK
  <1> QED
    BY <1>1, <1>2, <1>3, <1>4, <1>5, <1>6, <1>7, <1>8, <1>9, <1>10, <1>11, <1>12, <1>13
    DEF Next

----------------------------------------------------------------------------
(* A request that is sent takes an id nothing else carries. *)
LEMMA SendRequestWires ==
    ASSUME TypeOK, Wires, NEW h, NEW type \in Requests, NEW topic \in Topics,
           NEW cb, SendRequest(h, type, topic, cb), toClient' = toClient
    PROVE  Wires'
  <1> DEFINE id == NextPacketId
  <1>1. id \in PacketIds
    BY NextPacketIdRange DEF TypeOK
  <1>2. id \notin WaitIds /\ id \notin OnWire
    BY DEF SendRequest, FreshId, OnWire
  <1>3. PICK node : /\ node.id = id /\ node.valid
                    /\ subWaitAck' = subWaitAck \cup {node}
    BY DEF SendRequest
  <1> DEFINE packet == [id |-> id, type |-> type, topic |-> topic]
  <1>4. packet \in Packet /\ packet.id = id
    BY <1>1 DEF Packet
  <1>5. toBroker' = Append(toBroker, packet)
    BY DEF SendRequest
  <1> HIDE DEF packet, id
  <1>6. Ids(toBroker') = Ids(toBroker) \cup {id} /\ OneIdEach(toBroker')
    BY <1>2, <1>4, <1>5, AppendIds DEF TypeOK, Wires, PacketsUnique, OnWire
  <1>7. PacketsUnique'
    BY <1>2, <1>6 DEF Wires, PacketsUnique, OnWire
  <1>8. NodesUnique'
    BY <1>2, <1>3 DEF Wires, NodesUnique, WaitIds
  <1>9. AnsweredOnce'
    <2>1. OnWire' = OnWire \cup {id}
      BY <1>6 DEF OnWire
    <2> QED
      BY <1>2, <1>3, <2>1 DEF Wires, AnsweredOnce, WaitIds
  <1> QED
    BY <1>7, <1>8, <1>9 DEF Wires

(* A packet that is read takes its id off the wire, and the nodes that are *)
(* marked as answered are those of that id.                                *)
LEMMA ReadingWires ==
    ASSUME TypeOK, Wires, NEW type, Reading(type),
           \/ subWaitAck' = Masked(Head(toClient).id)
           \/ subWaitAck' = subWaitAck
    PROVE  Wires' /\ OnWire' \subseteq OnWire \ {Head(toClient).id}
  <1> DEFINE id == Head(toClient).id
  <1>1. toClient' = Tail(toClient) /\ toBroker' = toBroker
    BY DEF Reading
  <1>2. /\ Ids(Tail(toClient)) \subseteq Ids(toClient) /\ id \in Ids(toClient)
        /\ OneIdEach(Tail(toClient)) /\ id \notin Ids(Tail(toClient))
    BY TailIds DEF Reading, TypeOK, Wires, PacketsUnique
  <1>3. OnWire' \subseteq OnWire \ {id}
    BY <1>1, <1>2 DEF OnWire, Wires, PacketsUnique
  <1>4. PacketsUnique'
    BY <1>1, <1>2 DEF Wires, PacketsUnique
  <1>5. NodesUnique' /\ AnsweredOnce'
    <2> HIDE DEF id
    <2>1. CASE subWaitAck' = Masked(id)
      <3>1. NodesUnique'
        BY <2>1, MaskedNodes DEF TypeOK, Wires, NodesUnique
      <3>2. \A m \in Masked(id) : ~m.valid => m.id = id \/ m \in subWaitAck
        BY MaskedNodes DEF TypeOK
      <3>3. AnsweredOnce'
        BY <2>1, <3>2, <1>3 DEF Wires, AnsweredOnce
      <3> QED
        BY <3>1, <3>3
    <2>2. CASE subWaitAck' = subWaitAck
      BY <2>2, <1>3 DEF Wires, NodesUnique, AnsweredOnce
    <2> QED
      BY <2>1, <2>2 DEF id
  <1> QED
    BY <1>3, <1>4, <1>5 DEF Wires

(* A packet the broker answers keeps its id, on the way back. *)
LEMMA BrokerWires ==
    ASSUME TypeOK, Wires, BrokerSubscribe \/ BrokerUnsubscribe
    PROVE  Wires' /\ OnWire' \subseteq OnWire
  <1> DEFINE id == Head(toBroker).id
  <1>1. toBroker # <<>> /\ toBroker' = Tail(toBroker) /\ subWaitAck' = subWaitAck
    BY DEF BrokerSubscribe, BrokerUnsubscribe, client
  <1>2. /\ Ids(toBroker') \subseteq Ids(toBroker) /\ id \in Ids(toBroker)
        /\ OneIdEach(toBroker') /\ id \notin Ids(toBroker')
        /\ Head(toBroker) \in Packet
    BY <1>1, TailIds DEF TypeOK, Wires, PacketsUnique
  <1>3. PICK ack \in Ack : ack.id = id /\ toClient' = Append(toClient, ack)
    <2>1. \A ty \in Acks : [id |-> id, type |-> ty] \in Ack /\ [id |-> id, type |-> ty].id = id
      BY <1>2 DEF Ack, Packet
    <2>2. \E ty \in Acks : toClient' = Append(toClient, [id |-> id, type |-> ty])
      BY DEF BrokerSubscribe, BrokerUnsubscribe, Acks
    <2> QED
      BY <2>1, <2>2
  <1> HIDE DEF id
  <1>4. Ids(toClient') = Ids(toClient) \cup {id} /\ OneIdEach(toClient')
    BY <1>2, <1>3, AppendIds DEF TypeOK, Wires, PacketsUnique
  <1>5. PacketsUnique' /\ OnWire' \subseteq OnWire
    BY <1>2, <1>4 DEF Wires, PacketsUnique, OnWire
  <1> QED
    BY <1>1, <1>5 DEF Wires, NodesUnique, AnsweredOnce

(* Nodes and packets only go away. *)
LEMMA DropWires ==
    ASSUME Wires, subWaitAck' \subseteq subWaitAck,
           \/ toBroker' = toBroker /\ toClient' = toClient
           \/ toBroker' = <<>> /\ toClient' = <<>>
    PROVE  Wires' /\ OnWire' \subseteq OnWire
  <1>1. CASE toBroker' = toBroker /\ toClient' = toClient
    BY <1>1 DEF Wires, NodesUnique, PacketsUnique, AnsweredOnce, OnWire
  <1>2. CASE toBroker' = <<>> /\ toClient' = <<>>
    <2>1. Ids(toBroker') = {} /\ Ids(toClient') = {} /\ OneIdEach(toBroker') /\ OneIdEach(toClient')
      BY <1>2 DEF Ids, OneIdEach
    <2> QED
      BY <2>1 DEF Wires, NodesUnique, PacketsUnique, AnsweredOnce, OnWire
  <1> QED
    BY <1>1, <1>2

(* Every step keeps the requests and their packets in order. *)
LEMMA NextWires == TypeOK /\ FilterOwnership /\ Wires /\ [Next]_vars => Wires'
  <1> SUFFICES ASSUME TypeOK, FilterOwnership, Wires, [Next]_vars PROVE Wires'
    OBVIOUS
  <1> USE DEF client, wires
  <1>1. ASSUME NEW t \in Topics, NEW c \in Callbacks, Subscribe(t, c) PROVE Wires'
    <2>1. CASE SendRequest(heap, "SUBSCRIBE", t, c)
      BY <1>1, <2>1, SendRequestWires DEF Subscribe, Requests
    <2>2. CASE RequestFails(heap)
      BY <1>1, <2>2, DropWires DEF Subscribe, RequestFails
    <2> QED
      BY <1>1, <2>1, <2>2 DEF Subscribe
  <1>2. ASSUME NEW t \in Topics, Unsubscribe(t) PROVE Wires'
    <2>1. ASSUME NEW h, SendRequest(h, "UNSUBSCRIBE", t, Null) PROVE Wires'
      BY <1>2, <2>1, SendRequestWires DEF Unsubscribe, Requests
    <2>2. CASE subWaitAck' = subWaitAck /\ toBroker' = toBroker
      BY <1>2, <2>2, DropWires DEF Unsubscribe
    <2> QED
      BY <1>2, <2>1, <2>2 DEF Unsubscribe, RequestFails
  <1>3. CASE HandleSubAck \/ HandleSubNack \/ HandleUnsubAck
    <2>1. PICK type : Reading(type)
      BY <1>3 DEF HandleSubAck, HandleSubNack, HandleUnsubAck
    <2>2. \/ subWaitAck' = Masked(Head(toClient).id)
          \/ subWaitAck' = subWaitAck
      BY <1>3 DEF HandleSubAck, HandleSubNack, HandleUnsubAck, SubAckUnmatched
    <2> QED
      BY <2>1, <2>2, ReadingWires
  <1>4. ASSUME NEW timedOut \in SUBSET Pending, SubInfoProc(timedOut) PROVE Wires'
    BY <1>4, DropWires DEF SubInfoProc, Remaining, Pending
  <1>5. CASE Resubscribe
    <2>1. CASE UNCHANGED <<subWaitAck, toBroker>>
      BY <1>5, <2>1, DropWires DEF Resubscribe
    <2>2. CASE Used(cursor) /\ SendRequest(heap, "SUBSCRIBE", TopicOf(cursor), subHandles[cursor].cb)
      <3>1. cursor \in Slots
        BY <1>5 DEF Resubscribe, TypeOK, Slots
      <3>2. TopicOf(cursor) \in Topics
        BY <2>2, <3>1 DEF FilterOwnership, TopicOf, TypeOK, Handle, Used
      <3> QED
        BY <1>5, <2>2, <3>2, SendRequestWires DEF Resubscribe, Requests
    <2> QED
      BY <1>5, <2>1, <2>2 DEF Resubscribe, RequestFails
  <1>6. CASE LoseConnection \/ Connect \/ Destroy \/ UNCHANGED vars
    BY <1>6, DropWires DEF LoseConnection, Connect, Destroy, vars
  <1> QED
    BY <1>1, <1>2, <1>3, <1>4, <1>5, <1>6, BrokerWires DEF Next

----------------------------------------------------------------------------
(* FilterOwnership and DistinctHandles of a heap h, a table t and the      *)
(* waiting nodes P: an unsubscribe changes them before its request does.   *)
OwnedBy(h, t, P) ==
    /\ \A s \in Slots : t[s].filter # Null => h[t[s].filter] # Null
    /\ \A n \in P : h[n.filter] # Null
    /\ \A s, r \in Slots : t[s].filter # Null /\ s # r => t[s].filter # t[r].filter
    /\ \A n, m \in P : n # m => n.filter # m.filter
    /\ \A s \in Slots, n \in P : t[s].filter # n.filter

DistinctIn(h, t) ==
    \A s, r \in Slots :
      t[s].filter # Null /\ t[r].filter # Null /\ s # r
        => h[t[s].filter] # h[t[r].filter] \/ t[s].cb # t[r].cb

Sound(h, t, P) == OwnedBy(h, t, P) /\ DistinctIn(h, t)

(* The two invariants are those of the current state. *)
LEMMA SoundIsInvariant ==
    (FilterOwnership /\ DistinctHandles) <=> Sound(heap, subHandles, Pending)
  BY DEF FilterOwnership, DistinctHandles, Sound, OwnedBy, DistinctIn, Used, TopicOf

(* Freeing what no remaining owner points to keeps filters sound. *)
LEMMA FreedSound ==
    ASSUME NEW h \in Heaps, NEW t \in [Slots -> Handle], NEW P \in SUBSET Node, Sound(h, t, P),
           NEW u \in [Slots -> Handle], NEW Q \in SUBSET P, NEW bs,
           \A s \in Slots : u[s].filter = Null \/ u[s] = t[s],
           \A s \in Slots : u[s].filter # Null => u[s].filter \notin bs,
           \A n \in Q : n.filter \notin bs
    PROVE  Sound(Freed(h, bs), u, Q)
  <1>1. \A b \in Blocks : b \notin bs => Freed(h, bs)[b] = h[b]
    BY DEF Freed
  <1>2. \A s \in Slots : u[s].filter # Null => u[s].filter \in Blocks
    BY DEF Handle
  <1>3. \A n \in Q : n.filter \in Blocks
    BY DEF Node
  <1>4. \A s \in Slots : u[s].filter # Null => u[s] = t[s] /\ Freed(h, bs)[u[s].filter] = h[t[s].filter]
    BY <1>1, <1>2
  <1>5. \A n \in Q : n \in P /\ Freed(h, bs)[n.filter] = h[n.filter]
    BY <1>1, <1>3
  <1>6. \A s, r \in Slots : u[s].filter # Null /\ s # r => u[s].filter # u[r].filter
    BY <1>4 DEF Sound, OwnedBy
  <1>7. \A s \in Slots, n \in Q : u[s].filter # n.filter
    BY <1>3, <1>4, <1>5, NullAssumption DEF Sound, OwnedBy
  <1>8. OwnedBy(Freed(h, bs), u, Q)
    BY <1>4, <1>5, <1>6, <1>7 DEF Sound, OwnedBy
  <1>9. DistinctIn(Freed(h, bs), u)
    BY <1>4 DEF Sound, DistinctIn
  <1> QED
    BY <1>8, <1>9 DEF Sound

(* A request takes a free block, which nothing points to. *)
LEMMA SendRequestSound ==
    ASSUME TypeOK, NEW h \in Heaps, NEW t \in [Slots -> Handle], Sound(h, t, Pending),
           NEW type, NEW topic \in Topics, NEW cb, SendRequest(h, type, topic, cb)
    PROVE  Sound(heap', t, Pending')
  <1>0. PICK f \in FreeBlocksOf(h) :
          /\ heap' = [h EXCEPT ![f] = topic]
          /\ \E node : /\ node.filter = f /\ node.valid
                       /\ subWaitAck' = subWaitAck \cup {node}
    BY DEF SendRequest
  <1>1. PICK node : /\ heap' = [h EXCEPT ![f] = topic]
                    /\ node.filter = f /\ node.valid
                    /\ subWaitAck' = subWaitAck \cup {node}
    BY <1>0
  <1>2. f \in Blocks /\ h[f] = Null
    BY DEF FreeBlocksOf
  <1>3. Pending' = Pending \cup {node}
    BY <1>1 DEF Pending
  <1>4. \A b \in Blocks : heap'[b] = IF b = f THEN topic ELSE h[b]
    BY <1>1, <1>2 DEF Heaps
  <1>5. \A s \in Slots : t[s].filter # f
    BY <1>2, NullAssumption DEF Sound, OwnedBy
  <1>6. \A n \in Pending : n.filter # f /\ n.filter \in Blocks
    BY <1>2 DEF Sound, OwnedBy, TypeOK, Pending, Node
  <1>7. \A s \in Slots : t[s].filter # Null => heap'[t[s].filter] = h[t[s].filter]
    BY <1>4, <1>5 DEF Handle
  <1>8. \A n \in Pending : heap'[n.filter] = h[n.filter]
    BY <1>4, <1>6
  <1>9. topic # Null /\ heap'[f] = topic
    BY <1>2, <1>4, NullAssumption
  <1>10. OwnedBy(heap', t, Pending')
    BY <1>1, <1>3, <1>5, <1>6, <1>7, <1>8, <1>9 DEF Sound, OwnedBy
  <1>11. DistinctIn(heap', t)
    BY <1>7 DEF Sound, DistinctIn
  <1> QED
    BY <1>10, <1>11 DEF Sound

(* A SUBACK that is matched gives the filter of its node to the table or   *)
(* frees it; the node stops waiting.                                       *)
LEMMA SubAckSound ==
    ASSUME TypeOK, Wires, Sound(heap, subHandles, Pending),
           NEW n \in Pending, subWaitAck' = Masked(n.id),
           SubAckDuplicate(n) \/ SubAckInstall(n) \/ SubAckTableFull(n)
    PROVE  Sound(heap', subHandles', Pending')
  <1>1. heap \in Heaps /\ subHandles \in [Slots -> Handle] /\ Pending \in SUBSET Node
    BY DEF TypeOK, Heaps, Pending
  <1>2. Pending' = Pending \ {n}
    <2>1. Pending' = {m \in Pending : m.id # n.id}
      BY MaskedNodes DEF TypeOK, Pending
    <2>2. \A m \in Pending : m.id = n.id <=> m = n
      BY DEF Wires, NodesUnique, Pending
    <2> QED
      BY <2>1, <2>2
  <1>3. \A m \in Pending' : m \in Pending /\ m # n /\ m.filter # n.filter
    BY <1>2 DEF Sound, OwnedBy
  <1>4. n.filter \in Blocks /\ n.filter # Null /\ heap[n.filter] # Null
    BY <1>1, NullAssumption DEF Sound, OwnedBy, Node
  <1>5. \A s \in Slots : subHandles[s].filter # n.filter
    BY DEF Sound, OwnedBy
  <1>6. CASE SubAckDuplicate(n)
    <2>1. heap' = Freed(heap, {n.filter}) /\ subHandles' = subHandles
      BY <1>6 DEF SubAckDuplicate
    <2>2. Pending' \in SUBSET Pending
      BY <1>2
    <2>3. \A m \in Pending' : m.filter \notin {n.filter}
      BY <1>3
    <2>4. \A s \in Slots : subHandles[s].filter \notin {n.filter}
      BY <1>5
    <2> HIDE DEF Sound
    <2> QED
      BY <1>1, <2>1, <2>2, <2>3, <2>4, FreedSound
  <1>7. CASE SubAckInstall(n)
    <2>1. PICK s \in FreeSlots :
            subHandles' = [subHandles EXCEPT ![s] = [filter |-> n.filter, cb |-> n.cb]]
      BY <1>7 DEF SubAckInstall
    <2>2. heap' = heap /\ \A r \in Slots : ~Identical(r, n)
      BY <1>7 DEF SubAckInstall
    <2>3. s \in Slots
      BY DEF FreeSlots
    <2>4. /\ subHandles'[s].filter = n.filter /\ subHandles'[s].cb = n.cb
          /\ \A r \in Slots : r # s => subHandles'[r] = subHandles[r]
      BY <1>1, <2>1, <2>3
    <2>5. OwnedBy(heap', subHandles', Pending')
      BY <1>3, <1>4, <1>5, <2>2, <2>3, <2>4 DEF Sound, OwnedBy
    <2>6. \A r \in Slots : subHandles[r].filter # Null =>
            heap[subHandles[r].filter] # heap[n.filter] \/ subHandles[r].cb # n.cb
      BY <2>2 DEF Identical, Used, TopicOf
    <2>7. DistinctIn(heap', subHandles')
      BY <2>2, <2>3, <2>4, <2>6 DEF Sound, DistinctIn
    <2> QED
      BY <2>5, <2>7 DEF Sound
  <1>8. CASE SubAckTableFull(n)
    BY <1>3, <1>8 DEF SubAckTableFull, Sound, OwnedBy
  <1> QED
    BY <1>6, <1>7, <1>8

(* A request that is refused or acknowledged as an unsubscribe frees the   *)
(* filter of its node.                                                     *)
LEMMA AnswerSound ==
    ASSUME TypeOK, Sound(heap, subHandles, Pending), NEW id,
           \A n \in subWaitAck : n.id = id => n.valid,
           heap' = Freed(heap, {n.filter : n \in {m \in subWaitAck : m.id = id}}),
           subWaitAck' = Masked(id), subHandles' = subHandles
    PROVE  Sound(heap', subHandles', Pending')
  <1> DEFINE bs == {n.filter : n \in {m \in subWaitAck : m.id = id}}
  <1>1. heap \in Heaps /\ subHandles \in [Slots -> Handle] /\ Pending \in SUBSET Node
    BY DEF TypeOK, Heaps, Pending
  <1>2. Pending' = {n \in Pending : n.id # id}
    BY MaskedNodes DEF TypeOK, Pending
  <1>3. \A b \in bs : \E n \in Pending : n.id = id /\ n.filter = b
    BY DEF Pending
  <1>4. \A n \in Pending' : n.filter \notin bs
    BY ZenonT(60), <1>2, <1>3 DEF Sound, OwnedBy
  <1>5. \A s \in Slots : subHandles[s].filter \notin bs
    BY <1>3 DEF Sound, OwnedBy
  <1>6. Pending' \in SUBSET Pending
    BY <1>2
  <1> HIDE DEF bs, Sound
  <1>7. Sound(Freed(heap, bs), subHandles, Pending')
    BY <1>1, <1>4, <1>5, <1>6, FreedSound
  <1> QED
    BY <1>7 DEF bs

(* An API call or one round of the resubscribe loop. *)
LEMMA RequestSound ==
    ASSUME TypeOK, NEW h \in Heaps, NEW t \in [Slots -> Handle], Sound(h, t, Pending),
           subHandles' = t, NEW type, NEW topic \in Topics, NEW cb,
           \/ SendRequest(h, type, topic, cb)
           \/ RequestFails(h)
           \/ heap' = h /\ subWaitAck' = subWaitAck
    PROVE  Sound(heap', subHandles', Pending')
  <1>1. CASE SendRequest(h, type, topic, cb)
    BY <1>1, SendRequestSound
  <1>2. CASE heap' = h /\ subWaitAck' = subWaitAck
    BY <1>2 DEF Pending
  <1> QED
    BY <1>1, <1>2 DEF RequestFails

(* Every step keeps the filters owned and the handles distinct. *)
LEMMA NextSound ==
    ASSUME Garbage = {Null}
    PROVE  TypeOK /\ TypeOK' /\ Wires /\ Sound(heap, subHandles, Pending) /\ [Next]_vars
             => Sound(heap, subHandles, Pending)'
  <1> SUFFICES ASSUME TypeOK, TypeOK', Wires, Sound(heap, subHandles, Pending), [Next]_vars
               PROVE  Sound(heap', subHandles', Pending')
    OBVIOUS
  <1> USE DEF client, wires
  <1>0. /\ heap \in Heaps /\ subHandles \in [Slots -> Handle] /\ Pending \in SUBSET Node
        /\ subHandles' \in [Slots -> Handle]
    BY DEF TypeOK, Heaps, Pending
  <1>1. ASSUME NEW t \in Topics, NEW c \in Callbacks, Subscribe(t, c)
        PROVE  Sound(heap', subHandles', Pending')
    <2>1. SendRequest(heap, "SUBSCRIBE", t, c) \/ RequestFails(heap)
      BY <1>1 DEF Subscribe
    <2>2. subHandles' = subHandles
      BY <1>1 DEF Subscribe
    <2> HIDE DEF Sound
    <2> QED
      BY <1>0, <2>1, <2>2, RequestSound
  <1>2. ASSUME NEW t \in Topics, Unsubscribe(t)
        PROVE  Sound(heap', subHandles', Pending')
    <2> DEFINE bs == {subHandles[s].filter : s \in Matching(t)}
               h  == Freed(heap, bs)
    <2>1. /\ \A s \in Slots : subHandles'[s].filter = Null \/ subHandles'[s] = subHandles[s]
          /\ \A s \in Matching(t) : subHandles'[s].filter = Null
      <3>1. \A s \in Slots : [subHandles[s] EXCEPT !.filter = Null].filter = Null
        BY <1>0 DEF Handle
      <3> QED
        BY <1>2, <3>1 DEF Unsubscribe, Matching
    <2>2. Matching(t) \subseteq Slots
      BY DEF Matching
    <2>3. \A s \in Slots : subHandles'[s].filter # Null => subHandles'[s].filter \notin bs
      BY <2>1, <2>2 DEF Sound, OwnedBy
    <2>4. \A n \in Pending : n.filter \notin bs
      BY <2>2 DEF Sound, OwnedBy
    <2>5. h \in Heaps
      BY <1>0, FreedHeap
    <2>6. \/ SendRequest(h, "UNSUBSCRIBE", t, Null)
          \/ RequestFails(h)
          \/ heap' = h /\ subWaitAck' = subWaitAck
      BY <1>2 DEF Unsubscribe
    <2> HIDE DEF bs, Sound
    <2>7. Sound(h, subHandles', Pending)
      BY <1>0, <2>1, <2>3, <2>4, FreedSound
    <2> HIDE DEF h
    <2> QED
      BY <1>0, <2>5, <2>6, <2>7, RequestSound
  <1>3. CASE HandleSubAck
    <2> DEFINE id == Head(toClient).id
    <2>1. CASE SubAckUnmatched(id)
      BY <2>1 DEF SubAckUnmatched, Pending
    <2>2. ASSUME NEW n \in subWaitAck, n.id = id, subWaitAck' = Masked(id),
                 SubAckDuplicate(n) \/ SubAckInstall(n) \/ SubAckTableFull(n)
          PROVE  Sound(heap', subHandles', Pending')
      <3>1. id \in OnWire
        BY <1>3, TailIds DEF HandleSubAck, Reading, TypeOK, OnWire
      <3>2. n \in Pending
        BY <2>2, <3>1 DEF Wires, AnsweredOnce, Pending
      <3> QED
        BY <2>2, <3>2, SubAckSound
    <2> QED
      BY <1>3, <2>1, <2>2 DEF HandleSubAck
  <1>4. CASE HandleSubNack \/ HandleUnsubAck
    <2> DEFINE id == Head(toClient).id
    <2>1. id \in OnWire
      BY <1>4, TailIds DEF HandleSubNack, HandleUnsubAck, Reading, TypeOK, OnWire
    <2>2. subWaitAck' = Masked(id) /\ subHandles' = subHandles
      BY <1>4 DEF HandleSubNack, HandleUnsubAck
    <2>3. heap' = Freed(heap, {n.filter : n \in {m \in subWaitAck : m.id = id}})
      <3>1. CASE HandleUnsubAck /\ id \notin WaitIds
        <4>1. heap' = Freed(heap, {Null})
          BY <3>1 DEF HandleUnsubAck
        <4>2. {n.filter : n \in {m \in subWaitAck : m.id = id}} = {}
          BY <3>1 DEF WaitIds
        <4>3. Freed(heap, {Null}) = Freed(heap, {})
          BY NullAssumption DEF Freed
        <4> QED
          BY <4>1, <4>2, <4>3
      <3> QED
        BY <1>4, <3>1 DEF HandleSubNack, HandleUnsubAck
    <2>4. \A n \in subWaitAck : n.id = id => n.valid
      BY <2>1 DEF Wires, AnsweredOnce
    <2> HIDE DEF id, Sound
    <2> QED
      BY <2>2, <2>3, <2>4, AnswerSound
  <1>5. ASSUME NEW timedOut \in SUBSET Pending, SubInfoProc(timedOut)
        PROVE  Sound(heap', subHandles', Pending')
    <2>1. heap' = Freed(heap, Released(timedOut)) /\ subHandles' = subHandles
      BY <1>5 DEF SubInfoProc
    <2>2. Pending' = Pending \ timedOut
      BY <1>5 DEF SubInfoProc, Remaining, Pending
    <2>3. \A n \in Pending' : n.filter \notin Released(timedOut)
      BY <2>2 DEF Released, Sound, OwnedBy
    <2>4. \A s \in Slots : subHandles[s].filter \notin Released(timedOut)
      BY DEF Released, Sound, OwnedBy
    <2>5. Pending' \in SUBSET Pending
      BY <2>2
    <2> HIDE DEF Sound
    <2> QED
      BY <1>0, <2>1, <2>3, <2>4, <2>5, FreedSound
  <1>6. CASE Resubscribe
    <2>1. subHandles' = subHandles
      BY <1>6 DEF Resubscribe
    <2>2. CASE heap' = heap /\ subWaitAck' = subWaitAck
      BY <2>1, <2>2 DEF Pending
    <2>3. CASE Used(cursor) /\ SendRequest(heap, "SUBSCRIBE", TopicOf(cursor), subHandles[cursor].cb)
      <3>1. cursor \in Slots
        BY <1>6 DEF Resubscribe, TypeOK, Slots
      <3>2. TopicOf(cursor) \in Topics
        BY <1>0, <2>3, <3>1 DEF Sound, OwnedBy, TopicOf, Heaps, Handle, Used
      <3> HIDE DEF Sound
      <3> QED
        BY <1>0, <2>1, <2>3, <3>2, RequestSound
    <2> QED
      BY <1>6, <2>2, <2>3 DEF Resubscribe, RequestFails
  <1>7. CASE Destroy
    <2> DEFINE bs == {subHandles[s].filter : s \in Slots}
    <2>1. heap' = Freed(heap, bs) /\ Pending' = {}
      BY <1>7 DEF Destroy, Pending
    <2>2. \A s \in Slots : subHandles'[s].filter = Null
      <3>1. \A s \in Slots : [subHandles[s] EXCEPT !.filter = Null].filter = Null
        BY <1>0 DEF Handle
      <3> QED
        BY <1>7, <3>1 DEF Destroy
    <2>3. Pending' \in SUBSET Pending
      BY <2>1
    <2> HIDE DEF bs, Sound
    <2> QED
      BY <1>0, <2>1, <2>2, <2>3, FreedSound
  <1>8. CASE UNCHANGED <<heap, subHandles, subWaitAck>>
    BY <1>8 DEF Pending
  <1>9. BrokerSubscribe \/ BrokerUnsubscribe \/ LoseConnection \/ Connect \/ UNCHANGED vars
          => UNCHANGED <<heap, subHandles, subWaitAck>>
    BY DEF BrokerSubscribe, BrokerUnsubscribe, LoseConnection, Connect, vars
  <1> QED
    BY <1>1, <1>2, <1>3, <1>4, <1>5, <1>6, <1>7, <1>8, <1>9 DEF Next

----------------------------------------------------------------------------
(* Nothing is reported, and requests and packets only go away. *)
LEMMA QuietReports ==
    ASSUME Reports, outcome' = outcome, Pending' \subseteq Pending, OnWire' \subseteq OnWire
    PROVE  Reports'
  BY DEF Reports, PendingSilent, WireSilent, SubscribeOutcome

(* A new request starts without reports. *)
LEMMA SendRequestReports ==
    ASSUME TypeOK, Wires, Reports, NEW h, NEW type \in Requests, NEW topic \in Topics, NEW cb,
           SendRequest(h, type, topic, cb), toClient' = toClient
    PROVE  Reports'
  <1> DEFINE id == NextPacketId
  <1>1. id \in PacketIds
    BY NextPacketIdRange DEF TypeOK
  <1>2. id \notin WaitIds
    BY DEF SendRequest, FreshId
  <1>3. PICK node : node.id = id /\ subWaitAck' = subWaitAck \cup {node}
    BY DEF SendRequest
  <1> DEFINE packet == [id |-> id, type |-> type, topic |-> topic]
  <1>4. packet \in Packet /\ packet.id = id /\ toBroker' = Append(toBroker, packet)
    BY <1>1 DEF Packet, SendRequest
  <1>5. \A i \in Watched : outcome'[i] = IF i = id THEN {} ELSE outcome[i]
    BY DEF SendRequest
  <1> HIDE DEF packet, id
  <1>6. OnWire' \subseteq OnWire \cup {id}
    BY <1>4, AppendIds DEF TypeOK, OnWire
  <1>7. \A n \in Pending' : n \notin Pending => n.id = id
    BY <1>3 DEF Pending
  <1>8. PendingSilent'
    BY <1>5, <1>7 DEF Reports, PendingSilent
  <1>9. WireSilent'
    BY <1>5, <1>6 DEF Reports, WireSilent
  <1>10. SubscribeOutcome'
    BY <1>5 DEF Reports, SubscribeOutcome
  <1> QED
    BY <1>8, <1>9, <1>10 DEF Reports

(* An answer is the last report of its request: a success comes only to    *)
(* one that waits, a refusal only to one that has not succeeded.           *)
LEMMA AnswerReports ==
    ASSUME TypeOK, Wires, Reports, NEW type, Reading(type), NEW event,
           subWaitAck' = Masked(Head(toClient).id),
           outcome' = Report(Head(toClient).id, event),
           \/ event = "SUB_SUCCESS" /\ \E n \in Pending : n.id = Head(toClient).id
           \/ event \in {"SUB_NACK", "UNSUB_SUCCESS"}
    PROVE  Reports'
  <1> DEFINE id == Head(toClient).id
  <1>1. OnWire' \subseteq OnWire \ {id}
    BY ReadingWires
  <1>2. id \in OnWire
    BY TailIds DEF Reading, TypeOK, OnWire
  <1>3. Pending' = {n \in Pending : n.id # id}
    BY MaskedNodes DEF TypeOK, Pending
  <1>4. \A i \in Watched : outcome'[i] = IF i = id THEN outcome[i] \cup {event} ELSE outcome[i]
    BY DEF Report
  <1>5. event = "SUB_SUCCESS" => \E n \in Pending : n.id = id
    OBVIOUS
  <1>6. event \in {"SUB_SUCCESS", "SUB_NACK", "UNSUB_SUCCESS"}
    OBVIOUS
  <1> HIDE DEF id
  <1>7. PendingSilent'
    BY <1>3, <1>4 DEF Reports, PendingSilent
  <1>8. WireSilent'
    BY <1>1, <1>4 DEF Reports, WireSilent
  <1>9. SubscribeOutcome'
    <2> SUFFICES ASSUME NEW i \in Watched, "SUB_SUCCESS" \in outcome'[i]
                 PROVE  outcome'[i] \cap {"SUB_TIMEOUT", "SUB_NACK"} = {}
      BY DEF SubscribeOutcome
    <2>1. CASE i # id
      BY <1>4, <2>1 DEF Reports, SubscribeOutcome
    <2>2. CASE i = id /\ event = "SUB_SUCCESS"
      <3>1. outcome[i] = {}
        BY <1>5, <2>2 DEF Reports, PendingSilent
      <3>2. outcome'[i] = {"SUB_SUCCESS"}
        BY <1>4, <2>2, <3>1
      <3> QED
        BY <3>2
    <2>3. CASE i = id /\ event # "SUB_SUCCESS"
      <3>1. "SUB_SUCCESS" \notin outcome[i]
        BY <1>2, <2>3 DEF Reports, WireSilent
      <3> QED
        BY <1>4, <1>6, <2>3, <3>1
    <2> QED
      BY <2>1, <2>2, <2>3
  <1> QED
    BY <1>7, <1>8, <1>9 DEF Reports

(* Every step keeps the reports of a request consistent. *)
LEMMA NextReports ==
    TypeOK /\ FilterOwnership /\ Wires /\ Reports /\ [Next]_vars => Reports'
  <1> SUFFICES ASSUME TypeOK, FilterOwnership, Wires, Reports, [Next]_vars PROVE Reports'
    OBVIOUS
  <1> USE DEF client, wires
  <1>1. ASSUME NEW t \in Topics, NEW c \in Callbacks, Subscribe(t, c) PROVE Reports'
    <2>1. CASE SendRequest(heap, "SUBSCRIBE", t, c)
      BY <1>1, <2>1, SendRequestReports DEF Subscribe, Requests
    <2>2. CASE RequestFails(heap)
      BY <1>1, <2>2, QuietReports DEF Subscribe, RequestFails, Pending, OnWire
    <2> QED
      BY <1>1, <2>1, <2>2 DEF Subscribe
  <1>2. ASSUME NEW t \in Topics, Unsubscribe(t) PROVE Reports'
    <2>1. ASSUME NEW h, SendRequest(h, "UNSUBSCRIBE", t, Null) PROVE Reports'
      BY <1>2, <2>1, SendRequestReports DEF Unsubscribe, Requests
    <2>2. CASE UNCHANGED <<subWaitAck, toBroker, outcome>>
      BY <1>2, <2>2, QuietReports DEF Unsubscribe, Pending, OnWire
    <2> QED
      BY <1>2, <2>1, <2>2 DEF Unsubscribe, RequestFails
  <1>3. CASE BrokerSubscribe \/ BrokerUnsubscribe
    BY <1>3, BrokerWires, QuietReports DEF BrokerSubscribe, BrokerUnsubscribe, Pending
  <1>4. CASE HandleSubAck
    <2> DEFINE id == Head(toClient).id
    <2>0. Reading("SUBACK")
      BY <1>4 DEF HandleSubAck
    <2>1. CASE SubAckUnmatched(id)
      <3>1. outcome' = outcome /\ subWaitAck' = subWaitAck
        BY <2>1 DEF SubAckUnmatched
      <3> QED
        BY <2>0, <3>1, ReadingWires, QuietReports DEF Pending
    <2>2. ASSUME NEW n \in subWaitAck, n.id = id, subWaitAck' = Masked(id),
                 SubAckDuplicate(n) \/ SubAckInstall(n) \/ SubAckTableFull(n)
          PROVE  Reports'
      <3>1. n \in Pending
        BY <2>0, <2>2, TailIds DEF Reading, TypeOK, OnWire, Wires, AnsweredOnce, Pending
      <3>2. CASE SubAckTableFull(n)
        <4>1. Pending' = {m \in Pending : m.id # id}
          BY <2>2, MaskedNodes DEF TypeOK, Pending
        <4>2. outcome' = outcome
          BY <3>2 DEF SubAckTableFull
        <4>3. OnWire' \subseteq OnWire
          BY <2>0, <2>2, ReadingWires
        <4> QED
          BY <4>1, <4>2, <4>3, QuietReports
      <3>3. CASE SubAckDuplicate(n) \/ SubAckInstall(n)
        <4>1. outcome' = Report(id, "SUB_SUCCESS")
          BY <2>2, <3>3 DEF SubAckDuplicate, SubAckInstall
        <4> QED
          BY <2>0, <2>2, <3>1, <4>1, AnswerReports
      <3> QED
        BY <2>2, <3>2, <3>3
    <2> QED
      BY <1>4, <2>1, <2>2 DEF HandleSubAck
  <1>5. CASE HandleSubNack \/ HandleUnsubAck
    <2>1. PICK type : Reading(type)
      BY <1>5 DEF HandleSubNack, HandleUnsubAck
    <2>2. PICK event \in {"SUB_NACK", "UNSUB_SUCCESS"} : outcome' = Report(Head(toClient).id, event)
      BY <1>5 DEF HandleSubNack, HandleUnsubAck
    <2>3. subWaitAck' = Masked(Head(toClient).id)
      BY <1>5 DEF HandleSubNack, HandleUnsubAck
    <2> QED
      BY <2>1, <2>2, <2>3, AnswerReports
  <1>6. ASSUME NEW timedOut \in SUBSET Pending, SubInfoProc(timedOut) PROVE Reports'
    <2>1. \A i \in Watched :
            outcome'[i] = outcome[i] \cup {TimeoutEvent(n) : n \in {m \in timedOut : m.id = i}}
      BY <1>6 DEF SubInfoProc
    <2>2. Pending' = Pending \ timedOut /\ OnWire' = OnWire
      BY <1>6 DEF SubInfoProc, Remaining, Pending, OnWire
    <2>3. \A n \in Pending', m \in timedOut : m.id # n.id
      BY <2>2 DEF Wires, NodesUnique, Pending
    <2>4. ASSUME NEW i \in Watched, \A m \in timedOut : m.id # i
          PROVE  outcome'[i] = outcome[i]
      <3>1. {m \in timedOut : m.id = i} = {}
        BY <2>4
      <3>2. {TimeoutEvent(n) : n \in {m \in timedOut : m.id = i}} = {}
        BY <3>1
      <3>3. outcome'[i] = outcome[i] \cup {}
        BY <2>1, <3>2, Zenon
      <3> QED
        BY <3>3
    <2>5. PendingSilent'
      BY <2>2, <2>3, <2>4 DEF Reports, PendingSilent
    <2>6. \A n : TimeoutEvent(n) # "SUB_SUCCESS"
      BY DEF TimeoutEvent
    <2>7. \A i \in Watched : "SUB_SUCCESS" \in outcome'[i] => "SUB_SUCCESS" \in outcome[i]
      BY <2>1, <2>6
    <2>8. WireSilent'
      BY <2>2, <2>7 DEF Reports, WireSilent
    <2>9. SubscribeOutcome'
      <3> SUFFICES ASSUME NEW i \in Watched, "SUB_SUCCESS" \in outcome'[i]
                   PROVE  outcome'[i] \cap {"SUB_TIMEOUT", "SUB_NACK"} = {}
        BY DEF SubscribeOutcome
      <3>1. outcome[i] # {}
        BY <2>7
      <3>2. \A m \in timedOut : m.id # i
        BY <3>1 DEF Reports, PendingSilent
      <3> QED
        BY <2>4, <2>7, <3>2 DEF Reports, SubscribeOutcome
    <2> QED
      BY <2>5, <2>8, <2>9 DEF Reports
  <1>7. CASE Resubscribe
    <2>1. CASE UNCHANGED <<subWaitAck, toBroker, outcome>>
      BY <1>7, <2>1, QuietReports DEF Resubscribe, Pending, OnWire
    <2>2. CASE Used(cursor) /\ SendRequest(heap, "SUBSCRIBE", TopicOf(cursor), subHandles[cursor].cb)
      <3>1. cursor \in Slots
        BY <1>7 DEF Resubscribe, TypeOK, Slots
      <3>2. TopicOf(cursor) \in Topics
        BY <2>2, <3>1 DEF FilterOwnership, TopicOf, TypeOK, Handle, Used
      <3> QED
        BY <1>7, <2>2, <3>2, SendRequestReports DEF Resubscribe, Requests
    <2> QED
      BY <1>7, <2>1, <2>2 DEF Resubscribe, RequestFails
  <1>8. CASE LoseConnection \/ Connect \/ Destroy \/ UNCHANGED vars
    <2>1. subWaitAck' \subseteq subWaitAck /\ outcome' = outcome
      BY <1>8 DEF LoseConnection, Connect, Destroy, vars
    <2>2. OnWire' \subseteq OnWire
      BY <1>8, DropWires DEF LoseConnection, Connect, Destroy, vars
    <2> QED
      BY <2>1, <2>2, QuietReports DEF Pending
  <1> QED
    BY <1>1, <1>2, <1>3, <1>4, <1>5, <1>6, <1>7, <1>8 DEF Next

----------------------------------------------------------------------------
(* The strengthened invariant holds in every reachable state. *)
THEOREM InvariantHolds ==
    ASSUME Garbage = {Null}
    PROVE  Spec => []IInv
  <1>1. IInv /\ [Next]_vars => IInv'
    <2> SUFFICES ASSUME IInv, [Next]_vars PROVE IInv'
      OBVIOUS
    <2>1. TypeOK'
      BY NextType DEF IInv
    <2>2. Wires' /\ Reports'
      BY NextWires, NextReports DEF IInv
    <2>3. Sound(heap, subHandles, Pending)'
      BY <2>1, NextSound, SoundIsInvariant DEF IInv
    <2>4. (FilterOwnership /\ DistinctHandles)'
      BY <2>3 DEF FilterOwnership, DistinctHandles, Sound, OwnedBy, DistinctIn, Used, TopicOf
    <2> QED
      BY <2>1, <2>2, <2>4 DEF IInv
  <1> QED
    BY InitInv, <1>1, PTL DEF Spec

(* The types hold for every size of the table, the heap and the id space.  *)
(* This needs the ownership of filters: a resubscribe sends what the table *)
(* points to.                                                              *)
THEOREM TypeCorrect ==
    ASSUME Garbage = {Null}
    PROVE  Spec => []TypeOK
  BY InvariantHolds, PTL DEF IInv

(* Every filter in the table and in a waiting request is allocated and has *)
(* this one owner, however requests, answers, timeouts, lost connections   *)
(* and resubscribes interleave.                                            *)
THEOREM FiltersAreOwned ==
    ASSUME Garbage = {Null}
    PROVE  Spec => []FilterOwnership
  BY InvariantHolds, PTL DEF IInv

(* The table never holds the same filter with the same callbacks twice. *)
THEOREM HandlesAreDistinct ==
    ASSUME Garbage = {Null}
    PROVE  Spec => []DistinctHandles
  BY InvariantHolds, PTL DEF IInv

(* A subscribe reported as successful is never reported otherwise. *)
THEOREM OneSubscribeOutcome ==
    ASSUME Garbage = {Null}
    PROVE  Spec => []SubscribeOutcome
  BY InvariantHolds, PTL DEF IInv, Reports
----------------------------------------------------------------------------
(* A step loses no filter if whatever is allocated after it was allocated  *)
(* before, and kept its owner, or has one now.                             *)
Keeps(b) == heap'[b] # Null => Owned(b)' \/ (heap[b] # Null /\ ~Owned(b))

LEMMA KeepsNoOrphan ==
    ASSUME \A b \in Blocks : Keeps(b)
    PROVE  Orphans' \subseteq Orphans
  BY DEF Orphans, Keeps

(* The block of a new request is owned by its node, and the others keep    *)
(* their contents and owners.                                              *)
LEMMA SendRequestKeeps ==
    ASSUME NEW h \in Heaps, NEW type, NEW topic, NEW cb, SendRequest(h, type, topic, cb),
           NEW b \in Blocks, h[b] # Null => Owned(b)' \/ (heap[b] # Null /\ ~Owned(b))
    PROVE  Keeps(b)
  <1>1. PICK f \in FreeBlocksOf(h) :
          /\ heap' = [h EXCEPT ![f] = topic]
          /\ \E node : /\ node.filter = f /\ node.valid
                       /\ subWaitAck' = subWaitAck \cup {node}
    BY DEF SendRequest
  <1>2. f \in Blocks /\ \E n \in Pending' : n.filter = f
    BY <1>1 DEF FreeBlocksOf, Pending
  <1>3. CASE b = f
    BY <1>2, <1>3 DEF Keeps, Owned
  <1>4. CASE b # f
    <2>1. heap'[b] = h[b]
      BY <1>1, <1>2, <1>4 DEF Heaps
    <2> QED
      BY <2>1 DEF Keeps
  <1> QED
    BY <1>3, <1>4

(* Freeing the filters of nodes, and dropping no other node that waits. *)
LEMMA FreedKeeps ==
    ASSUME heap \in Heaps, NEW N \in SUBSET subWaitAck,
           heap' = Freed(heap, {n.filter : n \in N}),
           subHandles' = subHandles, Pending \ N \subseteq Pending'
    PROVE  \A b \in Blocks : Keeps(b)
  <1> TAKE b \in Blocks
  <1>1. CASE \E n \in N : n.filter = b
    BY <1>1, FreedHeap DEF Keeps
  <1>2. CASE \A n \in N : n.filter # b
    <2>1. heap'[b] = heap[b]
      BY <1>2, FreedHeap
    <2>2. Owned(b) => Owned(b)'
      BY <1>2 DEF Owned
    <2> QED
      BY <2>1, <2>2 DEF Keeps
  <1> QED
    BY <1>1, <1>2

(* No step leaves a filter without an owner, except for a SUBACK that      *)
(* finds the table full and the destruction of the client.                 *)
LEMMA NextKeeps ==
    ASSUME TypeOK, Wires, Garbage = {Null}, [Next]_vars, ~TableFull, alive'
    PROVE  Orphans' \subseteq Orphans
  <1> SUFFICES \A b \in Blocks : Keeps(b)
    BY KeepsNoOrphan
  <1> USE DEF client, wires
  <1>0. heap \in Heaps /\ subHandles \in [Slots -> Handle]
    BY DEF TypeOK, Heaps
  <1>1. CASE UNCHANGED <<heap, subHandles, subWaitAck>>
    BY <1>1 DEF Keeps, Owned, Pending
  <1>2. CASE /\ UNCHANGED subHandles
             /\ \E type, topic, cb : SendRequest(heap, type, topic, cb)
    <2> TAKE b \in Blocks
    <2>1. PICK type, topic, cb : SendRequest(heap, type, topic, cb)
      BY <1>2
    <2>2. Owned(b) => Owned(b)'
      BY <1>2, <2>1 DEF SendRequest, Owned, Pending
    <2> QED
      BY <1>0, <2>1, <2>2, SendRequestKeeps
  <1>3. ASSUME NEW t \in Topics, Unsubscribe(t)
        PROVE  \A b \in Blocks : Keeps(b)
    <2> TAKE b \in Blocks
    <2> DEFINE h == Freed(heap, {subHandles[s].filter : s \in Matching(t)})
    <2>1. h \in Heaps /\ h[b] # Null => /\ heap[b] # Null
                                       /\ \A s \in Matching(t) : subHandles[s].filter # b
      BY <1>0, FreedHeap
    <2>2. h \in Heaps
      BY <1>0, FreedHeap
    <2>3. \A s \in Slots : s \notin Matching(t) => subHandles'[s] = subHandles[s]
      BY <1>3 DEF Unsubscribe
    <2>4. Pending \subseteq Pending'
      BY <1>3 DEF Unsubscribe, SendRequest, RequestFails, Pending
    <2>5. h[b] # Null => Owned(b)' \/ (heap[b] # Null /\ ~Owned(b))
      BY <2>1, <2>2, <2>3, <2>4 DEF Owned
    <2>6. SendRequest(h, "UNSUBSCRIBE", t, Null) \/ heap' = h
      BY <1>3 DEF Unsubscribe, RequestFails
    <2> HIDE DEF h
    <2> QED
      BY <2>2, <2>5, <2>6, SendRequestKeeps DEF Keeps
  <1>4. ASSUME HandleSubAck, NEW n \in subWaitAck, n.id = Head(toClient).id,
               subWaitAck' = Masked(n.id), SubAckDuplicate(n) \/ SubAckInstall(n)
        PROVE  \A b \in Blocks : Keeps(b)
    <2>1. Pending \ {n} \subseteq Pending'
      <3>1. Pending' = {m \in Pending : m.id # n.id}
        BY <1>4, MaskedNodes DEF TypeOK, Pending
      <3> QED
        BY <3>1 DEF Wires, NodesUnique, Pending
    <2>2. CASE SubAckDuplicate(n)
      <3>1. heap' = Freed(heap, {m.filter : m \in {n}}) /\ subHandles' = subHandles
        BY <2>2 DEF SubAckDuplicate, Freed
      <3> QED
        BY <1>0, <1>4, <2>1, <3>1, FreedKeeps
    <2>3. CASE SubAckInstall(n)
      <3>1. PICK s \in FreeSlots :
              subHandles' = [subHandles EXCEPT ![s] = [filter |-> n.filter, cb |-> n.cb]]
        BY <2>3 DEF SubAckInstall
      <3>2. heap' = heap /\ s \in Slots /\ subHandles[s].filter = Null
        BY <2>3, <3>1 DEF SubAckInstall, FreeSlots, Used
      <3>3. /\ subHandles'[s].filter = n.filter
            /\ \A r \in Slots : r # s => subHandles'[r] = subHandles[r]
        BY <1>0, <3>1, <3>2
      <3>4. \A b \in Blocks : Owned(b) => Owned(b)'
        BY <2>1, <3>2, <3>3, NullAssumption DEF Owned
      <3> QED
        BY <3>2, <3>4 DEF Keeps
    <2> QED
      BY <1>4, <2>2, <2>3
  <1>5. CASE HandleSubAck
    <2> DEFINE id == Head(toClient).id
    <2>1. CASE SubAckUnmatched(id)
      BY <1>1, <2>1 DEF SubAckUnmatched
    <2>2. ASSUME NEW n \in subWaitAck, n.id = id, subWaitAck' = Masked(id),
                 SubAckDuplicate(n) \/ SubAckInstall(n) \/ SubAckTableFull(n)
          PROVE  \A b \in Blocks : Keeps(b)
      <3>1. ~SubAckTableFull(n)
        BY <1>5 DEF HandleSubAck, Reading, TableFull, SubAckTableFull
      <3> QED
        BY <1>4, <1>5, <2>2, <3>1
    <2> QED
      BY <1>5, <2>1, <2>2 DEF HandleSubAck
  <1>6. CASE HandleSubNack \/ HandleUnsubAck
    <2> DEFINE id == Head(toClient).id
               N  == {m \in subWaitAck : m.id = id}
    <2>1. subWaitAck' = Masked(id) /\ subHandles' = subHandles
      BY <1>6 DEF HandleSubNack, HandleUnsubAck
    <2>2. heap' = Freed(heap, {n.filter : n \in N})
      <3>1. CASE HandleUnsubAck /\ id \notin WaitIds
        <4>1. heap' = Freed(heap, {Null})
          BY <3>1 DEF HandleUnsubAck
        <4>2. {n.filter : n \in N} = {}
          BY <3>1 DEF WaitIds
        <4>3. Freed(heap, {Null}) = Freed(heap, {})
          BY NullAssumption DEF Freed
        <4> QED
          BY <4>1, <4>2, <4>3
      <3> QED
        BY <1>6, <3>1 DEF HandleSubNack, HandleUnsubAck
    <2>3. Pending \ N \subseteq Pending'
      <3>1. Pending' = {n \in Pending : n.id # id}
        BY <2>1, MaskedNodes DEF TypeOK, Pending
      <3> QED
        BY <3>1 DEF Pending
    <2>4. N \in SUBSET subWaitAck
      OBVIOUS
    <2> HIDE DEF N
    <2> QED
      BY <1>0, <2>1, <2>2, <2>3, <2>4, FreedKeeps
  <1>7. ASSUME NEW timedOut \in SUBSET Pending, SubInfoProc(timedOut)
        PROVE  \A b \in Blocks : Keeps(b)
    <2>1. heap' = Freed(heap, {n.filter : n \in timedOut}) /\ subHandles' = subHandles
      BY <1>7 DEF SubInfoProc, Released
    <2>2. Pending \ timedOut \subseteq Pending'
      BY <1>7 DEF SubInfoProc, Remaining, Pending
    <2>3. timedOut \in SUBSET subWaitAck
      BY DEF Pending
    <2> QED
      BY <1>0, <2>1, <2>2, <2>3, FreedKeeps
  <1>8. (\E t \in Topics, c \in Callbacks : Subscribe(t, c)) \/ Resubscribe
          => \/ UNCHANGED <<heap, subHandles, subWaitAck>>
             \/ /\ UNCHANGED subHandles
                /\ \E type, topic, cb : SendRequest(heap, type, topic, cb)
    BY DEF Subscribe, Resubscribe, RequestFails
  <1>9. BrokerSubscribe \/ BrokerUnsubscribe \/ LoseConnection \/ Connect \/ UNCHANGED vars
          => UNCHANGED <<heap, subHandles, subWaitAck>>
    BY DEF BrokerSubscribe, BrokerUnsubscribe, LoseConnection, Connect, vars
  <1>10. ~Destroy
    BY DEF Destroy
  <1> QED
    BY <1>1, <1>2, <1>3, <1>5, <1>6, <1>7, <1>8, <1>9, <1>10 DEF Next

----------------------------------------------------------------------------
(* The slots a resubscribe loop has passed wait for their SUBACK. *)
PassedWait == \A s \in Slots : s < cursor /\ Used(s) => Rerequested(s)

(* The loop goes on to the next slot, or is through. *)
LEMMA NextRound ==
    ASSUME cursor \in Slots
    PROVE  (cursor + 1) % (MaxHandles + 1) = IF cursor = MaxHandles THEN 0 ELSE cursor + 1
  <1>1. cursor \in Nat /\ MaxHandles \in Nat /\ cursor >= 1 /\ cursor <= MaxHandles
    BY MaxHandlesAssumption DEF Slots
  <1>2. CASE cursor = MaxHandles
    BY <1>1, <1>2
  <1>3. CASE cursor < MaxHandles
    BY <1>1, <1>3
  <1> QED
    BY <1>1, <1>2, <1>3

(* A round for slot s keeps the requests of the earlier ones, and makes    *)
(* that of s.                                                              *)
LEMMA RoundRequests ==
    ASSUME TypeOK, FilterOwnership, NEW s \in Slots, Used(s), subHandles' = subHandles,
           SendRequest(heap, "SUBSCRIBE", TopicOf(s), subHandles[s].cb)
    PROVE  /\ Rerequested(s)'
           /\ \A r \in Slots : Used(r) /\ Rerequested(r) => Rerequested(r)'
  <1>1. PICK f \in FreeBlocksOf(heap) :
          /\ heap' = [heap EXCEPT ![f] = TopicOf(s)]
          /\ \E node : /\ node.filter = f /\ node.valid /\ node.type = "SUBSCRIBE"
                       /\ node.cb = subHandles[s].cb
                       /\ subWaitAck' = subWaitAck \cup {node}
    BY DEF SendRequest
  <1>2. f \in Blocks /\ heap[f] = Null
    BY DEF FreeBlocksOf
  <1>3. \A b \in Blocks : heap'[b] = IF b = f THEN TopicOf(s) ELSE heap[b]
    BY <1>1, <1>2 DEF TypeOK
  <1>4. \A r \in Slots : Used(r) => TopicOf(r)' = TopicOf(r)
    BY <1>2, <1>3 DEF FilterOwnership, TopicOf, Used, TypeOK, Handle
  <1>5. Rerequested(s)'
    <2>1. PICK node \in Pending' : /\ node.filter = f /\ node.type = "SUBSCRIBE"
                                   /\ node.cb = subHandles[s].cb
      BY <1>1 DEF Pending
    <2> QED
      BY <1>2, <1>3, <1>4, <2>1 DEF Rerequested
  <1>6. ASSUME NEW r \in Slots, Used(r), Rerequested(r) PROVE Rerequested(r)'
    <2>1. PICK n \in Pending : /\ n.type = "SUBSCRIBE" /\ n.cb = subHandles[r].cb
                               /\ heap[n.filter] = TopicOf(r)
      BY <1>6 DEF Rerequested
    <2>2. n \in Pending'
      BY <1>1 DEF Pending
    <2>3. n.filter \in Blocks /\ n.filter # f
      BY <1>2 DEF FilterOwnership, TypeOK, Pending, Node
    <2> QED
      BY <1>3, <1>4, <1>6, <2>1, <2>2, <2>3 DEF Rerequested
  <1> QED
    BY <1>5, <1>6

(* One round makes what it is for, or ends the loop. *)
LEMMA RoundKeeps ==
    ASSUME TypeOK, FilterOwnership, PassedWait, Resubscribe
    PROVE  /\ PassedWait'
           /\ LoopEnds => \A s \in Slots : Used(s) => Rerequested(s)'
  <1>1. cursor \in Slots /\ subHandles' = subHandles
    BY DEF Resubscribe, TypeOK, Slots
  <1>2. \A s \in Slots : s \in Nat /\ s <= MaxHandles
    BY MaxHandlesAssumption DEF Slots
  <1>3. CASE ~Used(cursor) /\ UNCHANGED <<heap, subWaitAck>>
              /\ cursor' = (cursor + 1) % (MaxHandles + 1)
    <2>1. \A s \in Slots : s <= cursor /\ Used(s) => Rerequested(s)'
      BY <1>1, <1>2, <1>3 DEF PassedWait, Rerequested, TopicOf, Pending
    <2> QED
      BY <1>1, <1>2, <1>3, <2>1, NextRound DEF PassedWait, Used, LoopEnds
  <1>4. CASE /\ Used(cursor) /\ cursor' = (cursor + 1) % (MaxHandles + 1)
             /\ SendRequest(heap, "SUBSCRIBE", TopicOf(cursor), subHandles[cursor].cb)
    <2>1. \A s \in Slots : s <= cursor /\ Used(s) => Rerequested(s)'
      BY <1>1, <1>2, <1>4, RoundRequests DEF PassedWait
    <2> QED
      BY <1>1, <1>2, <1>4, <2>1, NextRound DEF PassedWait, Used, LoopEnds
  <1>5. CASE Used(cursor) /\ RequestFails(heap) /\ cursor' = 0
    BY <1>2, <1>5 DEF PassedWait, RequestFails, LoopEnds
  <1> QED
    BY <1>3, <1>4, <1>5 DEF Resubscribe

(* While the loop runs, no other step of the client does. *)
LEMMA NextRounds ==
    ASSUME TypeOK, FilterOwnership, PassedWait, [Next]_vars
    PROVE  /\ PassedWait'
           /\ LoopEnds => \A s \in Slots : Used(s) => Rerequested(s)'
  <1> USE DEF client
  <1>1. \A s \in Slots : s \in Nat /\ s >= 1
    BY MaxHandlesAssumption DEF Slots
  <1>2. CASE Resubscribe
    BY <1>2, RoundKeeps
  <1>3. CASE UNCHANGED <<heap, subHandles, subWaitAck, cursor>>
    BY <1>3, MaxHandlesAssumption DEF PassedWait, Rerequested, Used, TopicOf, Pending, LoopEnds
  <1>4. CASE cursor = 0 /\ cursor' \in {0, 1}
    BY <1>1, <1>4, MaxHandlesAssumption DEF PassedWait, LoopEnds
  <1>5. BrokerSubscribe \/ BrokerUnsubscribe \/ UNCHANGED vars
          => UNCHANGED <<heap, subHandles, subWaitAck, cursor>>
    BY DEF BrokerSubscribe, BrokerUnsubscribe, vars
  <1>6. CASE \/ \E t \in Topics, c \in Callbacks : Subscribe(t, c)
             \/ \E t \in Topics : Unsubscribe(t)
             \/ HandleSubAck \/ HandleSubNack \/ HandleUnsubAck
             \/ \E timedOut \in SUBSET Pending : SubInfoProc(timedOut)
             \/ LoseConnection \/ Connect \/ Destroy
    <2>1. cursor = 0 /\ cursor' \in {0, 1}
      BY <1>6
         DEF Subscribe, Unsubscribe, HandleSubAck, HandleSubNack, HandleUnsubAck, SubInfoProc,
             LoseConnection, Connect, FirstSlot, Destroy, CanCall, Reading
    <2> QED
      BY <1>4, <2>1
  <1> QED
    BY <1>2, <1>3, <1>4, <1>5, <1>6 DEF Next

----------------------------------------------------------------------------
(* No step leaves a filter allocated that nothing points to any more,      *)
(* except for a SUBACK that finds the table full and IOT_MQTT_Destroy      *)
(* with requests under way, for every size of the table and the heap.      *)
THEOREM NothingLeaks ==
    ASSUME Garbage = {Null}
    PROVE  Spec => LeaksOnlyWhenFull
  <1>1. IInv /\ [Next]_vars => [Orphans' \subseteq Orphans \/ TableFull \/ ~alive']_vars
    BY NextKeeps DEF IInv
  <1> QED
    BY <1>1, InvariantHolds, PTL DEF Spec, LeaksOnlyWhenFull

(* A resubscribe loop that is not cut short leaves a SUBSCRIBE waiting for *)
(* every slot in use, for every size of the table.                         *)
THEOREM ResubscribesAll ==
    ASSUME Garbage = {Null}
    PROVE  Spec => ResubscribeComplete
  <1>1. Init => PassedWait
    BY MaxHandlesAssumption DEF Init, PassedWait, Slots
  <1>2. IInv /\ PassedWait /\ [Next]_vars => PassedWait'
    BY NextRounds DEF IInv
  <1>3. IInv /\ PassedWait /\ [Next]_vars
          => [LoopEnds => \A s \in Slots : Used(s) => Rerequested(s)']_vars
    BY NextRounds DEF IInv
  <1> QED
    BY <1>1, <1>2, <1>3, InvariantHolds, PTL DEF Spec, ResubscribeComplete
============================================================================
