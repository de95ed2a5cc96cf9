------------------------- MODULE PublishQos1_proof -------------------------
(***************************************************************************)
(* Proofs about PublishQos1: types, the two invariants about what is       *)
(* reported, and that the module implements PublishContract.               *)
(***************************************************************************)
EXTENDS PublishQos1, TLAPS

(* A PUBACK is under way only for a publish the broker has received. *)
AcksReceived == InFlight(toClient) \subseteq received

(* What is under way belongs to a publish that waits, or that has been     *)
(* reported: no event comes for a publish the application never made.      *)
InFlightKnown ==
    \A i \in InFlight(toBroker) \cup InFlight(toClient) : Waits(i) \/ outcome[i] # {}

IInv ==
    /\ TypeOK
    /\ AcksReceived
    /\ InFlightKnown
    /\ SuccessMeansReceived
    /\ WaitingUnreported

----------------------------------------------------------------------------
(* get_next_packet_id never returns 0 and never leaves 1..MAX_PACKET_ID. *)
LEMMA NextPacketIdRange ==
    ASSUME nextPacketId \in 0..MaxPacketId
    PROVE  NextPacketId \in PacketIds
  BY MaxPacketIdAssumption DEF NextPacketId, PacketIds

(* A packet put at the end of a channel is the only new one in it. *)
LEMMA AppendInFlight ==
    ASSUME NEW S, NEW s \in Seq(S), NEW x \in S
    PROVE  /\ Append(s, x) \in Seq(S)
           /\ InFlight(Append(s, x)) = InFlight(s) \cup {x}
  <1>1. Append(s, x) \in Seq(S)
    OBVIOUS
  <1>2. DOMAIN Append(s, x) = 1..Len(s) + 1 /\ DOMAIN s = 1..Len(s) /\ Len(s) \in Nat
    OBVIOUS
  <1>3. \A k \in 1..Len(s) : Append(s, x)[k] = s[k]
    OBVIOUS
  <1>4. Append(s, x)[Len(s) + 1] = x
    OBVIOUS
  <1>5. \A y : y \in InFlight(Append(s, x)) <=> y \in InFlight(s) \cup {x}
    <2>1. \A k : k \in 1..Len(s) + 1 <=> (k \in 1..Len(s) \/ k = Len(s) + 1)
      BY <1>2
    <2> QED
      BY <2>1, <1>2, <1>3, <1>4 DEF InFlight
  <1> QED
    BY <1>1, <1>5

(* Taking the first packet of a channel leaves no new one in it. *)
LEMMA TailInFlight ==
    ASSUME NEW S, NEW s \in Seq(S), s # <<>>
    PROVE  /\ Tail(s) \in Seq(S)
           /\ Head(s) \in S /\ Head(s) \in InFlight(s)
           /\ InFlight(Tail(s)) \subseteq InFlight(s)
  <1>1. Tail(s) \in Seq(S) /\ Head(s) \in S /\ Head(s) = s[1]
    OBVIOUS
  <1>2. DOMAIN s = 1..Len(s) /\ Len(s) \in Nat \ {0}
    OBVIOUS
  <1>3. DOMAIN Tail(s) = 1..Len(s) - 1 /\ \A k \in 1..Len(s) - 1 : Tail(s)[k] = s[k + 1]
    OBVIOUS
  <1>4. \A k \in 1..Len(s) - 1 : k + 1 \in 1..Len(s)
    BY <1>2
  <1> QED
    BY <1>1, <1>2, <1>3, <1>4 DEF InFlight

----------------------------------------------------------------------------
LEMMA InitInv == Init => IInv
  <1> SUFFICES ASSUME Init PROVE IInv
    OBVIOUS
  <1> USE DEF Init, PacketIds
  <1>1. TypeOK
    <2>1. nextPacketId \in 0..MaxPacketId
      BY StartIdsAssumption
    <2>2. outcome \in [1..MaxPacketId -> SUBSET Events]
      OBVIOUS
    <2>3. toBroker \in Seq(1..MaxPacketId) /\ toClient \in Seq(1..MaxPacketId)
      OBVIOUS
    <2> QED
      BY <2>1, <2>2, <2>3 DEF TypeOK
  <1>2. InFlight(toBroker) = {} /\ InFlight(toClient) = {}
    BY DEF InFlight
  <1>3. AcksReceived /\ InFlightKnown
    BY <1>2 DEF AcksReceived, InFlightKnown
  <1>4. SuccessMeansReceived /\ WaitingUnreported
    BY DEF SuccessMeansReceived, WaitingUnreported, Pending
  <1> QED
    BY <1>1, <1>3, <1>4 DEF IInv

(* Every step preserves the strengthened invariant. *)
LEMMA NextInv == IInv /\ [Next]_vars => IInv'
  <1> SUFFICES ASSUME IInv, [Next]_vars PROVE IInv'
    OBVIOUS
  <1> USE DEF IInv
  <1>0. TypeOK
    OBVIOUS
  <1>1. CASE Publish
    <2> DEFINE id   == NextPacketId
               node == [id |-> NextPacketId, valid |-> TRUE]
    <2>0. node \in Node /\ node.id = id
      BY <1>0, NextPacketIdRange, Zenon DEF Node, TypeOK
    <2>1. id \in PacketIds /\ FreshId(id)
      BY <1>1, <1>0, NextPacketIdRange DEF Publish, TypeOK
    <2>2. toBroker' \in Seq(PacketIds) /\ InFlight(toBroker') = InFlight(toBroker) \cup {id}
      BY <1>1, <1>0, <2>1, AppendInFlight DEF Publish, TypeOK
    <2>3. InFlight(toClient') = InFlight(toClient)
      BY <1>1 DEF Publish
    <2>4. TypeOK'
      <3>1. pubWaitAck' \subseteq Node
        BY <1>1, <1>0, <2>0 DEF Publish, TypeOK
      <3>2. outcome' \in [PacketIds -> SUBSET Events]
        BY <1>1, <1>0, <2>1 DEF Publish, TypeOK
      <3>3. nextPacketId' \in 0..MaxPacketId
        BY <1>1, <2>1 DEF Publish, PacketIds
      <3>4. received' \subseteq PacketIds
        BY <1>1, <1>0 DEF Publish, TypeOK
      <3> QED
        BY <1>1, <1>0, <2>2, <3>1, <3>2, <3>3, <3>4 DEF Publish, TypeOK
    <2>5. AcksReceived'
      BY <1>1, <2>1, <2>3 DEF Publish, AcksReceived, FreshId
    <2>6. \A i : Waits(i)' <=> Waits(i) \/ i = id
      <3>1. Pending' = Pending \cup {node}
        BY <1>1 DEF Publish, Pending
      <3> HIDE DEF node
      <3> QED
        BY <2>0, <3>1 DEF Waits
    <2>7. \A i \in PacketIds : outcome'[i] = IF i = id THEN {} ELSE outcome[i]
      BY <1>1, <1>0 DEF Publish, TypeOK
    <2>8. InFlightKnown'
      <3> SUFFICES ASSUME NEW i \in InFlight(toBroker)' \cup InFlight(toClient)'
                   PROVE  Waits(i)' \/ outcome'[i] # {}
        BY DEF InFlightKnown
      <3>1. i = id \/ (i # id /\ i \in InFlight(toBroker) \cup InFlight(toClient))
        BY <2>2, <2>3
      <3>2. i \in PacketIds
        BY <1>0, <3>1, <2>1 DEF TypeOK, InFlight
      <3> QED
        BY <3>1, <3>2, <2>6, <2>7 DEF InFlightKnown
    <2>9. SuccessMeansReceived'
      BY <1>1, <2>7 DEF Publish, SuccessMeansReceived
    <2>10. WaitingUnreported'
      <3>1. Pending' = Pending \cup {node}
        BY <1>1 DEF Publish, Pending
      <3>2. \A n \in Pending : n.id \in PacketIds
        BY <1>0 DEF TypeOK, Pending, Node
      <3> QED
        BY <3>1, <3>2, <2>0, <2>1, <2>7 DEF WaitingUnreported
    <2> QED
      BY <2>4, <2>5, <2>8, <2>9, <2>10
  <1>2. CASE TakeIdOnly
    <2>1. nextPacketId' \in 0..MaxPacketId
      BY <1>2, <1>0, NextPacketIdRange DEF TakeIdOnly, TypeOK, PacketIds
    <2>2. TypeOK'
      BY <1>2, <1>0, <2>1 DEF TakeIdOnly, TypeOK
    <2>4. AcksReceived' /\ InFlightKnown'
      BY <1>2 DEF TakeIdOnly, AcksReceived, InFlightKnown, Waits, Pending, InFlight
    <2>5. SuccessMeansReceived' /\ WaitingUnreported'
      BY <1>2 DEF TakeIdOnly, SuccessMeansReceived, WaitingUnreported, Pending
    <2> QED
      BY <2>2, <2>4, <2>5
  <1>3. CASE BrokerReceive
    <2>1. /\ toBroker' \in Seq(PacketIds) /\ Head(toBroker) \in PacketIds
          /\ Head(toBroker) \in InFlight(toBroker)
          /\ InFlight(toBroker') \subseteq InFlight(toBroker)
      BY <1>3, <1>0, TailInFlight DEF BrokerReceive, TypeOK
    <2>2. /\ toClient' \in Seq(PacketIds)
          /\ InFlight(toClient') = InFlight(toClient) \cup {Head(toBroker)}
      BY <1>3, <1>0, <2>1, AppendInFlight DEF BrokerReceive, TypeOK
    <2>3. TypeOK'
      BY <1>3, <1>0, <2>1, <2>2 DEF BrokerReceive, TypeOK
    <2>4. AcksReceived'
      BY <1>3, <2>2 DEF BrokerReceive, AcksReceived
    <2>5. InFlightKnown'
      BY <1>3, <2>1, <2>2 DEF BrokerReceive, InFlightKnown, Waits, Pending
    <2>6. SuccessMeansReceived' /\ WaitingUnreported'
      BY <1>3 DEF BrokerReceive, SuccessMeansReceived, WaitingUnreported, Pending
    <2> QED
      BY <2>3, <2>4, <2>5, <2>6
  <1>4. CASE HandlePubAck
    <2> DEFINE id == Head(toClient)
    <2>1. /\ toClient' \in Seq(PacketIds) /\ id \in PacketIds /\ id \in InFlight(toClient)
          /\ InFlight(toClient') \subseteq InFlight(toClient)
      BY <1>4, <1>0, TailInFlight DEF HandlePubAck, TypeOK
    <2>2. \A i \in PacketIds :
            outcome'[i] = IF i = id THEN outcome[i] \cup {"PUBLISH_SUCCESS"} ELSE outcome[i]
      BY <1>4, <1>0 DEF HandlePubAck, TypeOK
    <2>3. Pending' = {n \in Pending : n.id # id}
      BY <1>4, <1>0 DEF HandlePubAck, Masked, Pending, TypeOK, Node
    <2>4. TypeOK'
      <3>1. pubWaitAck' \subseteq Node
        BY <1>4, <1>0 DEF HandlePubAck, Masked, TypeOK, Node
      <3>2. outcome' \in [PacketIds -> SUBSET Events]
        BY <1>4, <1>0 DEF HandlePubAck, TypeOK, Events
      <3> QED
        BY <1>4, <1>0, <2>1, <3>1, <3>2 DEF HandlePubAck, TypeOK
    <2>5. AcksReceived'
      BY <1>4, <2>1 DEF HandlePubAck, AcksReceived
    <2>6. InFlightKnown'
      <3> SUFFICES ASSUME NEW i \in InFlight(toBroker)' \cup InFlight(toClient)'
                   PROVE  Waits(i)' \/ outcome'[i] # {}
        BY DEF InFlightKnown
      <3>1. i \in InFlight(toBroker) \cup InFlight(toClient)
        BY <1>4, <2>1 DEF HandlePubAck
      <3>2. i \in PacketIds
        BY <1>0, <3>1 DEF TypeOK, InFlight
      <3>3. CASE i = id
        BY <3>2, <3>3, <2>2
      <3>4. CASE i # id
        BY <3>1, <3>2, <3>4, <2>2, <2>3 DEF InFlightKnown, Waits
      <3> QED
        BY <3>3, <3>4
    <2>7. SuccessMeansReceived'
      BY <1>4, <2>1, <2>2 DEF HandlePubAck, SuccessMeansReceived, AcksReceived
    <2>8. WaitingUnreported'
      <3>1. \A n \in Pending : n.id \in PacketIds
        BY <1>0 DEF TypeOK, Pending, Node
      <3> QED
        BY <3>1, <2>2, <2>3 DEF WaitingUnreported
    <2> QED
      BY <2>4, <2>5, <2>6, <2>7, <2>8
  <1>5. ASSUME NEW timedOut \in SUBSET Pending, PubInfoProc(timedOut) PROVE IInv'
    <2>1. Pending' = Pending \ timedOut
      BY <1>5 DEF PubInfoProc, Pending, Remaining
    <2>2. \A i \in PacketIds :
            outcome'[i] = IF \E n \in timedOut : n.id = i
                          THEN outcome[i] \cup {"PUBLISH_TIMEOUT"} ELSE outcome[i]
      BY <1>5 DEF PubInfoProc, TimeoutEvent
    <2>3. TypeOK'
      <3>1. pubWaitAck' \subseteq Node
        BY <1>5, <1>0 DEF PubInfoProc, Remaining, Pending, TypeOK
      <3>2. outcome' \in [PacketIds -> SUBSET Events]
        BY <1>5, <1>0 DEF PubInfoProc, TypeOK, Events, TimeoutEvent
      <3> QED
        BY <1>5, <1>0, <3>1, <3>2 DEF PubInfoProc, TypeOK
    <2>4. AcksReceived'
      BY <1>5 DEF PubInfoProc, AcksReceived, InFlight
    <2>5. InFlightKnown'
      <3> SUFFICES ASSUME NEW i \in InFlight(toBroker)' \cup InFlight(toClient)'
                   PROVE  Waits(i)' \/ outcome'[i] # {}
        BY DEF InFlightKnown
      <3>1. i \in InFlight(toBroker) \cup InFlight(toClient)
        BY <1>5 DEF PubInfoProc, InFlight
      <3>2. i \in PacketIds
        BY <1>0, <3>1 DEF TypeOK, InFlight
      <3> QED
        BY <3>1, <3>2, <2>1, <2>2 DEF InFlightKnown, Waits
    <2>6. SuccessMeansReceived'
      BY ZenonT(60), <1>5, <2>2 DEF PubInfoProc, SuccessMeansReceived
    <2>7. WaitingUnreported'
      <3> SUFFICES ASSUME NEW n \in Pending' PROVE outcome'[n.id] = {}
        BY DEF WaitingUnreported
      <3>1. n \in Pending /\ n \notin timedOut
        BY <2>1
      <3>2. n.id \in PacketIds /\ n = [id |-> n.id, valid |-> TRUE]
        BY <1>0, <3>1 DEF TypeOK, Pending, Node
      <3>3. \A m \in timedOut : m = [id |-> m.id, valid |-> TRUE]
        BY <1>0 DEF TypeOK, Pending, Node
      <3>4. ~ \E m \in timedOut : m.id = n.id
        BY <3>1, <3>2, <3>3
      <3> QED
        BY <3>1, <3>2, <3>4, <2>2 DEF WaitingUnreported
    <2> QED
      BY <2>3, <2>4, <2>5, <2>6, <2>7
  <1>6. CASE LoseConnection
    <2>1. toBroker' \in Seq(PacketIds) /\ toClient' \in Seq(PacketIds)
      BY <1>6 DEF LoseConnection
    <2>2. TypeOK'
      BY <1>6, <1>0, <2>1 DEF LoseConnection, TypeOK
    <2>3. InFlight(toBroker') = {} /\ InFlight(toClient') = {}
      BY <1>6 DEF LoseConnection, InFlight
    <2>4. AcksReceived' /\ InFlightKnown'
      BY <2>3 DEF AcksReceived, InFlightKnown
    <2>5. SuccessMeansReceived' /\ WaitingUnreported'
      BY <1>6 DEF LoseConnection, SuccessMeansReceived, WaitingUnreported, Pending
    <2> QED
      BY <2>2, <2>4, <2>5
  <1>7. CASE Connect
    <2>2. TypeOK'
      BY <1>7, <1>0 DEF Connect, TypeOK
    <2>4. AcksReceived' /\ InFlightKnown'
      BY <1>7 DEF Connect, AcksReceived, InFlightKnown, Waits, Pending, InFlight
    <2>5. SuccessMeansReceived' /\ WaitingUnreported'
      BY <1>7 DEF Connect, SuccessMeansReceived, WaitingUnreported, Pending
    <2> QED
      BY <2>2, <2>4, <2>5
  <1>8. CASE Destroy
    <2>1. toBroker' \in Seq(PacketIds) /\ toClient' \in Seq(PacketIds)
      BY <1>8 DEF Destroy
    <2>2. TypeOK'
      BY <1>8, <1>0, <2>1 DEF Destroy, TypeOK
    <2>3. InFlight(toBroker') = {} /\ InFlight(toClient') = {}
      BY <1>8 DEF Destroy, InFlight
    <2>4. AcksReceived' /\ InFlightKnown'
      BY <2>3 DEF AcksReceived, InFlightKnown
    <2>5. SuccessMeansReceived' /\ WaitingUnreported'
      BY <1>8 DEF Destroy, SuccessMeansReceived, WaitingUnreported, Pending
    <2> QED
      BY <2>2, <2>4, <2>5
  <1>9. CASE UNCHANGED vars
    <2>1. TypeOK'
      BY <1>9, <1>0 DEF vars, TypeOK
    <2>2. AcksReceived' /\ InFlightKnown'
      BY <1>9 DEF vars, AcksReceived, InFlightKnown, Waits, Pending, InFlight
    <2>3. SuccessMeansReceived' /\ WaitingUnreported'
      BY <1>9 DEF vars, SuccessMeansReceived, WaitingUnreported, Pending
    <2> QED
      BY <2>1, <2>2, <2>3
  <1> QED
    BY <1>1, <1>2, <1>3, <1>4, <1>5, <1>6, <1>7, <1>8, <1>9 DEF Next

(* The strengthened invariant holds in every reachable state. *)
THEOREM InvariantHolds == Spec => []IInv
  BY InitInv, NextInv, PTL DEF Spec

(* The types hold for every size of the list and of the id space. *)
THEOREM TypeCorrect == Spec => []TypeOK
  BY InvariantHolds, PTL DEF IInv

(* PUBLISH_SUCCESS is reported only for a publish the broker has received. *)
THEOREM SuccessIsReceived == Spec => []SuccessMeansReceived
  BY InvariantHolds, PTL DEF IInv

(* A publish is never both waiting and reported. *)
THEOREM WaitingIsUnreported == Spec => []WaitingUnreported
  BY InvariantHolds, PTL DEF IInv

(* A publish is reported as timed out only while the client is connected,  *)
(* and never after its success: a scan gives up on publishes that wait     *)
(* only, and of those nothing has been reported.                           *)
THEOREM TimeoutsAreUnacked == Spec => TimeoutOnlyUnacked
  <1> DEFINE Unacked == \A i \in PacketIds : TimeoutReported(i) =>
                          isConnected /\ "PUBLISH_SUCCESS" \notin outcome[i]
  <1>1. IInv /\ [Next]_vars => [Unacked]_vars
    <2> SUFFICES ASSUME IInv, Next, NEW i \in PacketIds, TimeoutReported(i)
                 PROVE  isConnected /\ "PUBLISH_SUCCESS" \notin outcome[i]
      OBVIOUS
    <2>0. TypeOK /\ WaitingUnreported
      BY DEF IInv
    <2>1. outcome \in [PacketIds -> SUBSET Events]
      BY <2>0 DEF TypeOK
    <2>2. CASE Publish
      BY <2>1, <2>2 DEF Publish, TimeoutReported
    <2>3. CASE HandlePubAck
      BY <2>1, <2>3 DEF HandlePubAck, TimeoutReported
    <2>4. ASSUME NEW timedOut \in SUBSET Pending, PubInfoProc(timedOut)
          PROVE  isConnected /\ "PUBLISH_SUCCESS" \notin outcome[i]
      <3>1. PICK n \in timedOut : n.id = i
        BY <2>4 DEF PubInfoProc, TimeoutReported
      <3>2. isConnected
        BY <2>4, <3>1 DEF PubInfoProc, MayTimeOut
      <3>3. outcome[i] = {}
        BY <2>0, <3>1 DEF WaitingUnreported
      <3> QED
        BY <3>2, <3>3
    <2>5. CASE UNCHANGED outcome
      BY <2>5 DEF TimeoutReported
    <2>6. TakeIdOnly \/ BrokerReceive \/ LoseConnection \/ Connect \/ Destroy => UNCHANGED outcome
      BY DEF TakeIdOnly, BrokerReceive, LoseConnection, Connect, Destroy
    <2> QED
      BY <2>2, <2>3, <2>4, <2>5, <2>6 DEF Next
  <1> QED
    BY InvariantHolds, <1>1, PTL DEF Spec, TimeoutOnlyUnacked

----------------------------------------------------------------------------
(* The statuses change at one place when those of all others stay. *)
LEMMA UpdateStatus ==
    ASSUME NEW i \in PacketIds, \A j \in PacketIds \ {i} : StatusOf(j)' = StatusOf(j)
    PROVE  Status' = [Status EXCEPT ![i] = StatusOf(i)']
  <1>1. \A j \in PacketIds : Status'[j] = StatusOf(j)' /\ Status[j] = StatusOf(j)
    BY DEF Status
  <1> QED
    BY <1>1 DEF Status

(* At the start every publish of the contract is idle. *)
LEMMA InitRefines == Init => Contract!Init
  <1> SUFFICES ASSUME Init PROVE Status = [i \in PacketIds |-> "idle"]
    BY DEF Contract!Init
  <1>1. \A i \in PacketIds : ~Waits(i) /\ outcome[i] = {}
    BY DEF Init, Waits, Pending
  <1>2. \A i \in PacketIds : StatusOf(i) = "idle"
    BY <1>1 DEF StatusOf, Events
  <1> QED
    BY <1>2 DEF Status

(* Every step is a step of the contract or leaves all statuses alone. *)
LEMMA StepRefines == IInv /\ [Next]_vars => [Contract!Next]_Status
  <1> SUFFICES ASSUME IInv, [Next]_vars PROVE Contract!Next \/ Status' = Status
    OBVIOUS
  <1>0. TypeOK
    BY DEF IInv
  <1>0a. \A n \in Pending : n.id \in PacketIds
    BY <1>0 DEF TypeOK, Pending, Node
  <1>0b. \A i \in PacketIds : Waits(i) => outcome[i] = {}
    BY DEF IInv, WaitingUnreported, Waits
  <1>0c. \A i \in PacketIds : outcome[i] \subseteq Events
    BY <1>0 DEF TypeOK
  <1>1. CASE Publish
    <2>a. NextPacketId \in PacketIds
      BY <1>0, NextPacketIdRange DEF TypeOK
    <2>b. PICK id \in PacketIds : id = NextPacketId
      BY <2>a
    <2> DEFINE node == [id |-> id, valid |-> TRUE]
    <2>1. id \in PacketIds /\ FreshId(id)
      BY <1>1, <2>b DEF Publish
    <2>2. Pending' = Pending \cup {node} /\ node.id = id
      BY <1>1, <2>b DEF Publish, Pending
    <2> HIDE DEF node
    <2>3. ~Waits(id) /\ Waits(id)'
      BY <2>1, <2>2 DEF Waits, FreshId, WaitIds, Pending
    <2>4. \A i \in PacketIds \ {id} : (Waits(i)' <=> Waits(i)) /\ outcome'[i] = outcome[i]
      BY <1>1, <1>0, <2>b, <2>2 DEF Waits, Publish, TypeOK
    <2>5. Status[id] # "waiting" /\ StatusOf(id)' = "waiting"
      BY <2>1, <2>3 DEF Status, StatusOf
    <2>6. \A i \in PacketIds \ {id} : StatusOf(i)' = StatusOf(i)
      BY <2>4 DEF StatusOf
    <2>7. Status' = [Status EXCEPT ![id] = "waiting"]
      BY <2>5, <2>6, UpdateStatus
    <2>8. Contract!Send(id)
      BY <2>5, <2>7 DEF Contract!Send
    <2> QED
      BY <2>1, <2>8 DEF Contract!Next
  <1>2. CASE HandlePubAck
    <2>a. Head(toClient) \in PacketIds /\ Head(toClient) \in InFlight(toClient)
      BY <1>2, <1>0, TailInFlight DEF HandlePubAck, TypeOK
    <2>b. PICK id \in PacketIds : id = Head(toClient)
      BY <2>a
    <2>1. id \in PacketIds /\ id \in InFlight(toClient)
      BY <2>a, <2>b
    <2>2. Pending' = {n \in Pending : n.id # id}
      BY <1>2, <1>0, <2>b DEF HandlePubAck, Masked, Pending, TypeOK, Node
    <2>3. ~Waits(id)' /\ \A i \in PacketIds \ {id} : Waits(i)' <=> Waits(i)
      BY <2>2 DEF Waits
    <2>4. /\ outcome'[id] = outcome[id] \cup {"PUBLISH_SUCCESS"}
          /\ \A i \in PacketIds \ {id} : outcome'[i] = outcome[i]
      BY <1>2, <1>0, <2>b DEF HandlePubAck, TypeOK
    <2>5. \A i \in PacketIds \ {id} : StatusOf(i)' = StatusOf(i)
      BY <2>3, <2>4 DEF StatusOf
    <2>6. Waits(id) \/ outcome[id] # {}
      BY <2>1 DEF IInv, InFlightKnown
    <2>7. CASE Waits(id)
      <3>1. StatusOf(id) = "waiting" /\ StatusOf(id)' = "success"
        BY <1>0b, <2>1, <2>3, <2>4, <2>7 DEF StatusOf, Events
      <3>2. Status' = [Status EXCEPT ![id] = "success"] /\ Status[id] = "waiting"
        BY <2>5, <3>1, UpdateStatus DEF Status
      <3> QED
        BY <2>1, <3>2 DEF Contract!Next, Contract!Succeed
    <2>8. CASE ~Waits(id) /\ "PUBLISH_SUCCESS" \in outcome[id]
      <3>1. outcome'[id] = outcome[id]
        BY <2>4, <2>8
      <3>2. StatusOf(id)' = StatusOf(id)
        BY <2>3, <2>8, <3>1 DEF StatusOf
      <3> QED
        BY <2>5, <3>2 DEF Status
    <2>9. CASE ~Waits(id) /\ "PUBLISH_SUCCESS" \notin outcome[id]
      <3>1. outcome[id] = {"PUBLISH_TIMEOUT"}
        BY <1>0c, <2>1, <2>6, <2>9 DEF Events
      <3>2. StatusOf(id) = "timeout" /\ StatusOf(id)' = "late"
        BY <2>3, <2>4, <2>9, <3>1 DEF StatusOf, Events
      <3>3. Status' = [Status EXCEPT ![id] = "late"] /\ Status[id] = "timeout"
        BY <2>5, <3>2, UpdateStatus DEF Status
      <3> QED
        BY <2>1, <3>3 DEF Contract!Next, Contract!Succeed
    <2> QED
      BY <2>7, <2>8, <2>9
  <1>3. ASSUME NEW timedOut \in SUBSET Pending, PubInfoProc(timedOut)
        PROVE  Contract!Next
    <2> DEFINE S == {n.id : n \in timedOut}
    <2>1. S \subseteq PacketIds /\ \A i \in S : Waits(i)
      BY <1>0a DEF Waits
    <2>2. Pending' = Pending \ timedOut
      BY <1>3 DEF PubInfoProc, Pending, Remaining
    <2>3. \A n, m \in Pending : n.id = m.id => n = m
      BY <1>0 DEF TypeOK, Pending, Node
    <2>4. \A i \in PacketIds : Waits(i)' <=> Waits(i) /\ i \notin S
      BY <2>2, <2>3 DEF Waits
    <2>5. \A i \in PacketIds :
            outcome'[i] = IF i \in S THEN outcome[i] \cup {"PUBLISH_TIMEOUT"} ELSE outcome[i]
      BY <1>3 DEF PubInfoProc, TimeoutEvent
    <2>6. \A i \in S : StatusOf(i) = "waiting" /\ StatusOf(i)' = "timeout"
      BY <1>0b, <2>1, <2>4, <2>5 DEF StatusOf, Events
    <2>7. \A i \in PacketIds \ S : StatusOf(i)' = StatusOf(i)
      BY <2>4, <2>5 DEF StatusOf
    <2>8. Status' = [i \in PacketIds |-> IF i \in S THEN "timeout" ELSE Status[i]]
      BY <2>6, <2>7 DEF Status
    <2>9. \A i \in S : Status[i] = "waiting"
      BY <2>1, <2>6 DEF Status
    <2> QED
      BY <2>1, <2>8, <2>9 DEF Contract!Next, Contract!Expire
  <1>4. CASE Destroy
    <2>1. \A i \in PacketIds : ~Waits(i)' /\ outcome'[i] = outcome[i]
      BY <1>4 DEF Destroy, Waits, Pending
    <2>2. \A i \in PacketIds : Waits(i) => StatusOf(i) = "waiting" /\ StatusOf(i)' = "idle"
      BY <1>0b, <2>1 DEF StatusOf, Events
    <2>3. \A i \in PacketIds : ~Waits(i) => StatusOf(i) # "waiting" /\ StatusOf(i)' = StatusOf(i)
      BY <2>1 DEF StatusOf
    <2>4. Status' = [i \in PacketIds |-> IF Status[i] = "waiting" THEN "idle" ELSE Status[i]]
      BY <2>2, <2>3 DEF Status
    <2> QED
      BY <2>4 DEF Contract!Next, Contract!Abandon
  <1>5. CASE UNCHANGED <<pubWaitAck, outcome>>
    <2>1. \A i \in PacketIds : StatusOf(i)' = StatusOf(i)
      BY <1>5 DEF StatusOf, Waits, Pending
    <2> QED
      BY <2>1 DEF Status
  <1>6. TakeIdOnly \/ BrokerReceive \/ LoseConnection \/ Connect \/ UNCHANGED vars
          => UNCHANGED <<pubWaitAck, outcome>>
    BY DEF TakeIdOnly, BrokerReceive, LoseConnection, Connect, vars
  <1> QED
    BY <1>1, <1>2, <1>3, <1>4, <1>5, <1>6 DEF Next

(* The wait list, the marks on its nodes and the events reported implement *)
(* the promise of PublishContract: success at most once, never a timeout   *)
(* after a success, a late success only after a timeout.                   *)
THEOREM Implements == Spec => ImplementsContract
  BY InitRefines, StepRefines, InvariantHolds, PTL DEF Spec, ImplementsContract, Contract!Spec
============================================================================
