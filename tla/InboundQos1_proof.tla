------------------------- MODULE InboundQos1_proof -------------------------
(***************************************************************************)
(* Proofs about InboundQos1, for every number of messages, length of the   *)
(* ring, window, id space and depth of handlers.  In a session that is     *)
(* kept, one invariant holds whatever the callbacks do: General.  As long  *)
(* as nothing has put the ring out of order, three counters say all there  *)
(* is to know: the messages up to `low' are acknowledged, those up to      *)
(* `high' have been handled, those up to `sent' were sent, and at most one *)
(* callback is running, for the message after `high'.                      *)
(***************************************************************************)
EXTENDS InboundQos1, TLAPS

(* The last message that is acknowledged, all of the later ones that were  *)
(* sent being in flight.                                                   *)
low == sent - Len(inflight)

(* The id of message m, one of the last BrokerIds of s that were sent, when *)
(* the last of them got id b.                                              *)
IdOf(b, s, m) ==
    LET i == b - (s - m) IN IF i >= 1 THEN i ELSE i + BrokerIds

PacketOf(b, s, m) == [msg |-> m, id |-> IdOf(b, s, m)]

(* The slot of the ring that was filled j ids before slot c will be. *)
Slot(c, j) == IF c - 1 - j >= 0 THEN c - 1 - j ELSE c - 1 - j + RingLen

(* The broker's counters: its ids come round only after BrokerIds of them. *)
Numbers ==
    /\ Len(inflight) <= Window /\ low >= 0
    /\ brokerId = sent \/ (sent >= BrokerIds /\ brokerId >= 1)
    /\ \A k \in 1..Len(inflight) : inflight[k] = PacketOf(brokerId, sent, low + k)
    /\ acked = 1..low

(* What is under way: as long as the link is up, the acknowledgements of   *)
(* the messages in flight up to `at', and then the messages behind it but  *)
(* for the one in the callback.                                            *)
UnderWay(at) ==
    /\ low <= at /\ at + Len(handling) + Len(toClient) <= sent
    /\ \A k \in 1..Len(toClient) : toClient[k] = PacketOf(brokerId, sent, at + Len(handling) + k)
    /\ linkUp => /\ isConnected
                 /\ at + Len(handling) + Len(toClient) = sent
                 /\ Len(toBroker) = at - low
                 /\ \A k \in 1..Len(toBroker) : toBroker[k] = IdOf(brokerId, sent, low + k)
    /\ ~linkUp => toBroker = <<>>
    /\ ~isConnected => toClient = <<>>

(* What is delivered, each message once, and what the ring holds of it. *)
Delivered(high) ==
    /\ low <= high /\ high + Len(handling) <= sent /\ Len(handling) <= 1
    /\ \A k \in 1..Len(handling) : handling[k] = PacketOf(brokerId, sent, high + 1)
    /\ \A m \in Msgs : delivered[m] = IF m <= high + Len(handling) THEN 1 ELSE 0
    /\ \A j \in 0..RingLen - 1 :
         ring[Slot(cnt, j)] = IF high - j >= 1 THEN IdOf(brokerId, sent, high - j) ELSE 0

At(high, at) == Delivered(high) /\ UnderWay(at) /\ (Len(handling) = 1 => at = high)

(* The state of a session that is kept, as long as all is in order. *)
InOrder ==
    /\ Numbers
    /\ \E high \in 0..sent : \E at \in 0..high : At(high, at)

(* Messages in a sequence get later along it. *)
Rising(s) == \A k, l \in 1..Len(s) : k < l => s[k].msg < s[l].msg

(* Nothing holds the id of a message in flight that was not delivered but  *)
(* the packets with this message.                                          *)
Unheld(p) ==
    /\ ~Remembered(p.id)
    /\ \A k \in 1..Len(handling) : handling[k].id # p.id
    /\ \A k \in 1..Len(toBroker) : toBroker[k] # p.id
    /\ \A k \in 1..Len(toClient) : toClient[k].id = p.id => toClient[k].msg = p.msg

(* The broker's messages: acknowledged or in flight, each with its own id. *)
Broker ==
    /\ Rising(inflight)
    /\ \A k, l \in 1..Len(inflight) : inflight[k].id = inflight[l].id => k = l
    /\ \A k \in 1..Len(inflight) : inflight[k].msg <= sent
    /\ \A m \in 1..sent : m \in acked \/ \E k \in 1..Len(inflight) : inflight[k].msg = m

(* The messages after `top' are not delivered: their packets are in flight, *)
(* those under way come without a gap, and with the link up all are.       *)
Ahead(top) ==
    /\ Rising(toClient)
    /\ \A k \in 1..Len(toClient) : toClient[k].msg > top => \E l \in 1..Len(inflight) : inflight[l] = toClient[k]
    /\ \A k \in 1..Len(toClient) : \A n \in top + 1..sent :
         n <= toClient[k].msg => \E l \in 1..Len(toClient) : toClient[l].msg = n
    /\ linkUp => \A n \in top + 1..sent : \E l \in 1..Len(toClient) : toClient[l].msg = n

UpTo(top) ==
    /\ \A m \in Msgs : delivered[m] > 0 <=> m <= top
    /\ \A m \in acked : m <= top
    /\ \A k \in 1..Len(inflight) : inflight[k].msg > top => Unheld(inflight[k])

(* What holds of a session that is kept whatever the callbacks do. *)
General == Broker /\ \E top \in 0..sent : UpTo(top) /\ Ahead(top)

(* The invariant of a session that is kept. *)
IInv == TypeOK /\ General /\ (~disordered => InOrder)

(* Without a session nothing is sent twice: what is under way is new. *)
NewInv ==
    /\ TypeOK
    /\ \A m \in Msgs : delivered[m] <= 1 /\ (m > sent => delivered[m] = 0)
    /\ \A k \in 1..Len(toClient) :
         /\ toClient[k].msg <= sent
         /\ delivered[toClient[k].msg] = 0
         /\ \A l \in 1..Len(toClient) : k < l => toClient[k].msg < toClient[l].msg

----------------------------------------------------------------------------
(* Lemmas about sequences. *)

LEMMA AppendPoints ==
    ASSUME NEW S, NEW s \in Seq(S), NEW x \in S
    PROVE  /\ Append(s, x) \in Seq(S)
           /\ Len(Append(s, x)) = Len(s) + 1
           /\ \A k \in 1..Len(s) + 1 : Append(s, x)[k] = IF k <= Len(s) THEN s[k] ELSE x
  OBVIOUS

LEMMA TailPoints ==
    ASSUME NEW S, NEW s \in Seq(S), s # <<>>
    PROVE  /\ Tail(s) \in Seq(S) /\ Head(s) = s[1] /\ Head(s) \in S
           /\ Len(s) \in Nat /\ Len(s) >= 1
           /\ Len(Tail(s)) = Len(s) - 1
           /\ \A k \in 1..Len(s) - 1 : Tail(s)[k] = s[k + 1]
  OBVIOUS

LEMMA PushPoints ==
    ASSUME NEW S, NEW s \in Seq(S), NEW x \in S
    PROVE  /\ <<x>> \o s \in Seq(S)
           /\ Len(<<x>> \o s) = Len(s) + 1
           /\ \A k \in 1..Len(s) + 1 : (<<x>> \o s)[k] = IF k = 1 THEN x ELSE s[k - 1]
  OBVIOUS

LEMMA PrefixPoints ==
    ASSUME NEW S, NEW s \in Seq(S), NEW n \in 0..Len(s)
    PROVE  /\ SubSeq(s, 1, n) \in Seq(S)
           /\ Len(SubSeq(s, 1, n)) = n
           /\ \A k \in 1..n : SubSeq(s, 1, n)[k] = s[k]
  OBVIOUS

(* To remove the first is to take the tail; what is left is of the same set. *)
LEMMA RemoveAtType ==
    ASSUME NEW S, NEW s \in Seq(S), NEW k \in 1..Len(s)
    PROVE  RemoveAt(s, k) \in Seq(S)
  <1>1. SubSeq(s, 1, k - 1) \in Seq(S)
    OBVIOUS
  <1>2. SubSeq(s, k + 1, Len(s)) \in Seq(S)
    OBVIOUS
  <1> QED
    BY <1>1, <1>2 DEF RemoveAt

LEMMA ConcatPoints ==
    ASSUME NEW S, NEW a \in Seq(S), NEW b \in Seq(S)
    PROVE  /\ Len(a \o b) = Len(a) + Len(b)
           /\ \A j \in 1..Len(a) + Len(b) :
                (a \o b)[j] = IF j <= Len(a) THEN a[j] ELSE b[j - Len(a)]
  OBVIOUS

LEMMA RemoveAtPoints ==
    ASSUME NEW S, NEW s \in Seq(S), NEW k \in 1..Len(s)
    PROVE  /\ RemoveAt(s, k) \in Seq(S)
           /\ Len(RemoveAt(s, k)) = Len(s) - 1
           /\ \A j \in 1..Len(s) - 1 : RemoveAt(s, k)[j] = IF j < k THEN s[j] ELSE s[j + 1]
  <1> DEFINE a == SubSeq(s, 1, k - 1)
             b == SubSeq(s, k + 1, Len(s))
  <1>1. a \in Seq(S) /\ Len(a) = k - 1 /\ \A j \in 1..k - 1 : a[j] = s[j]
    BY PrefixPoints
  <1>2. b \in Seq(S) /\ Len(b) = Len(s) - k /\ \A j \in 1..Len(s) - k : b[j] = s[k + j]
    BY SMTT(30)
  <1>3. RemoveAt(s, k) = a \o b
    BY DEF RemoveAt
  <1> HIDE DEF a, b
  <1>4. Len(a \o b) = Len(s) - 1
    <2>1. Len(a \o b) = Len(a) + Len(b)
      BY <1>1, <1>2, ConcatPoints
    <2> QED
      BY <2>1, <1>1, <1>2
  <1>5. \A j \in 1..Len(s) - 1 : (a \o b)[j] = IF j < k THEN a[j] ELSE b[j - (k - 1)]
    BY <1>1, <1>2, ConcatPoints
  <1>6. ASSUME NEW j \in 1..Len(s) - 1
        PROVE  (a \o b)[j] = IF j < k THEN s[j] ELSE s[j + 1]
    <2>1. CASE j < k
      BY <2>1, <1>1, <1>5
    <2>2. CASE ~(j < k)
      <3>1. j - (k - 1) \in 1..Len(s) - k /\ k + (j - (k - 1)) = j + 1
        BY <2>2
      <3> QED
        BY <2>2, <3>1, <1>2, <1>5
    <2> QED
      BY <2>1, <2>2
  <1> QED
    BY <1>3, <1>4, <1>6, RemoveAtType

LEMMA RemoveFirst1 ==
    ASSUME NEW S, NEW s \in Seq(S), s # <<>>
    PROVE  RemoveAt(s, 1) = Tail(s)
  <1> DEFINE t == SubSeq(s, 2, Len(s))
  <1>1. t \in Seq(S) /\ Len(t) = Len(s) - 1 /\ \A k \in 1..Len(s) - 1 : t[k] = s[k + 1]
    BY SMTT(30)
  <1>2. SubSeq(s, 1, 0) = <<>>
    OBVIOUS
  <1>3. RemoveAt(s, 1) = <<>> \o t
    BY <1>2 DEF RemoveAt
  <1>4. <<>> \o t = t
    BY <1>1
  <1>5. Tail(s) = t
    BY <1>1, TailPoints
  <1> QED
    BY <1>3, <1>4, <1>5

----------------------------------------------------------------------------
(* Types. *)

LEMMA NextIdRange ==
    ASSUME brokerId \in 0..BrokerIds
    PROVE  NextBrokerId \in Ids
  BY BrokerIdsAssumption, RingLenAssumption, WindowAssumption DEF NextBrokerId, Ids

LEMMA WrapIsZero == RingLen % RingLen = 0
  BY RingLenAssumption

LEMMA RememberType ==
    ASSUME TypeOK, NEW id \in Ids, Remember(id)
    PROVE  ring' \in [0..RingLen - 1 -> 0..BrokerIds] /\ cnt' \in 0..RingLen - 1
  <1>1. id \in 0..BrokerIds
    BY BrokerIdsAssumption DEF Ids
  <1>2. ring' \in [0..RingLen - 1 -> 0..BrokerIds]
    BY <1>1 DEF TypeOK, Remember
  <1>3. cnt + 1 >= RingLen => cnt + 1 = RingLen
    BY RingLenAssumption DEF TypeOK
  <1>4. cnt' \in 0..RingLen - 1
    BY SMTT(30), <1>3, WrapIsZero, RingLenAssumption DEF TypeOK, Remember
  <1> QED
    BY <1>2, <1>4

LEMMA AcknowledgeType ==
    ASSUME TypeOK, NEW p \in Packet, Acknowledge(p)
    PROVE  toBroker' \in Seq(Ids) /\ ackLost' \subseteq Msgs /\ disordered' \in BOOLEAN
  <1>1. p.msg \in Msgs /\ p.id \in Ids
    BY DEF Packet
  <1>2. toBroker' = toBroker \/ toBroker' = Append(toBroker, p.id)
    BY DEF Acknowledge
  <1>3. toBroker' \in Seq(Ids)
    <2>1. PICK id \in Ids : id = p.id
      BY <1>1
    <2>2. Append(toBroker, id) \in Seq(Ids)
      BY AppendPoints DEF TypeOK
    <2> QED
      BY <2>1, <2>2, <1>2 DEF TypeOK
  <1> QED
    BY <1>1, <1>3 DEF TypeOK, Acknowledge

(* BrokerSend with the id it chooses. *)
Sends(id) ==
    /\ linkUp /\ sent < NumMsgs /\ Len(inflight) < Window
    /\ MaySendAs(id)
    /\ inflight' = Append(inflight, [msg |-> sent + 1, id |-> id])
    /\ toClient' = Append(toClient, [msg |-> sent + 1, id |-> id])
    /\ sent' = sent + 1 /\ brokerId' = id
    /\ UNCHANGED <<clientVars, histVars, isConnected, linkUp, toBroker, acked>>

LEMMA SendsSome == BrokerSend => \E id \in Ids : Sends(id)
  BY DEF BrokerSend, Sends

LEMMA InitType == Init => TypeOK
  <1>1. <<>> \in Seq(Packet) /\ <<>> \in Seq(Ids)
    OBVIOUS
  <1>2. ASSUME Init
        PROVE  ring \in [0..RingLen - 1 -> 0..BrokerIds] /\ cnt \in 0..RingLen - 1 /\ delivered \in [Msgs -> Nat]
    BY <1>2, RingLenAssumption, BrokerIdsAssumption DEF Init
  <1>3. 0 \in 0..NumMsgs /\ 0 \in 0..BrokerIds
    BY NumMsgsAssumption, BrokerIdsAssumption
  <1> QED
    BY <1>1, <1>2, <1>3 DEF Init, TypeOK

LEMMA NextType == TypeOK /\ [Next]_vars => TypeOK'
  <1> SUFFICES ASSUME TypeOK, [Next]_vars PROVE TypeOK'
    OBVIOUS
  <1> USE DEF TypeOK
  <1>0. <<>> \in Seq(Packet) /\ <<>> \in Seq(Ids)
    OBVIOUS
  <1>1. CASE BrokerSend
    <2>0. PICK id \in Ids : Sends(id)
      BY <1>1, SendsSome
    <2> DEFINE p == [msg |-> sent + 1, id |-> id]
    <2>1. sent + 1 \in Msgs
      BY <1>1, NumMsgsAssumption DEF BrokerSend, Msgs
    <2>2. p \in Packet
      BY <2>1 DEF Packet
    <2>3. inflight' \in Seq(Packet) /\ toClient' \in Seq(Packet)
      BY <2>0, <2>2, AppendPoints DEF Sends
    <2>4. sent' \in 0..NumMsgs /\ brokerId' \in 0..BrokerIds
      BY <2>0, <2>1 DEF Sends, Msgs, Ids
    <2> QED
      BY <2>0, <2>3, <2>4 DEF Sends, clientVars, histVars
  <1>2. CASE BrokerPubAck
    <2> DEFINE Acked == {k \in DOMAIN inflight : inflight[k].id = Head(toBroker)}
    <2>1. Acked \subseteq 1..Len(inflight)
      OBVIOUS
    <2>2. inflight' \in Seq(Packet)
      <3>1. CASE Acked = {}
        BY <3>1, <1>2 DEF BrokerPubAck
      <3>2. CASE Acked # {}
        <4>1. PICK k : k = (CHOOSE j \in Acked : TRUE)
          OBVIOUS
        <4>2. k \in 1..Len(inflight)
          BY <4>1, <3>2, <2>1
        <4>3. inflight' = RemoveAt(inflight, k)
          BY <4>1, <3>2, <1>2 DEF BrokerPubAck
        <4> QED
          BY <4>2, <4>3, RemoveAtType
      <3> QED
        BY <3>1, <3>2
    <2>3. \A k \in 1..Len(inflight) : inflight[k].msg \in Msgs
      <3>1. \A k \in 1..Len(inflight) : inflight[k] \in Packet
        OBVIOUS
      <3> QED
        BY <3>1 DEF Packet
    <2>4. acked' \subseteq Msgs
      BY <1>2, <2>1, <2>3 DEF BrokerPubAck
    <2>5. toBroker' \in Seq(Ids)
      BY <1>2, TailPoints DEF BrokerPubAck
    <2> QED
      BY <1>2, <2>2, <2>4, <2>5 DEF BrokerPubAck, clientVars, histVars
  <1>3. CASE HandleNew
    <2> DEFINE p == Head(toClient)
    <2>0. toClient # <<>> /\ toClient' = Tail(toClient)
      BY <1>3 DEF HandleNew
    <2>1. p \in Packet /\ toClient' \in Seq(Packet)
      BY <2>0, TailPoints
    <2>2. p.msg \in Msgs
      BY <2>1 DEF Packet
    <2>3. delivered' \in [Msgs -> Nat]
      BY <1>3, <2>2 DEF HandleNew
    <2>4. handling' \in Seq(Packet)
      BY <1>3, <2>1, PushPoints DEF HandleNew
    <2>5. disordered' \in BOOLEAN
      BY <1>3 DEF HandleNew
    <2> QED
      BY <1>3, <2>1, <2>3, <2>4, <2>5 DEF HandleNew, brokerVars
  <1>8. CASE HandleRepeat
    <2> DEFINE p == Head(toClient)
    <2>1. p \in Packet /\ toClient' \in Seq(Packet)
      BY <1>8, TailPoints DEF HandleRepeat
    <2>2. toBroker' \in Seq(Ids) /\ ackLost' \subseteq Msgs /\ disordered' \in BOOLEAN
      BY <1>8, <2>1, AcknowledgeType DEF HandleRepeat
    <2> QED
      BY <1>8, <2>1, <2>2 DEF HandleRepeat, clientVars, brokerVars
  <1>9. CASE Return
    <2> DEFINE p == Head(handling)
    <2>1. p \in Packet /\ handling' \in Seq(Packet)
      BY <1>9, TailPoints DEF Return
    <2>2. toBroker' \in Seq(Ids) /\ ackLost' \subseteq Msgs /\ disordered' \in BOOLEAN
      BY <1>9, <2>1, AcknowledgeType DEF Return
    <2>3. p.id \in Ids
      BY <2>1 DEF Packet
    <2>4. ring' \in [0..RingLen - 1 -> 0..BrokerIds] /\ cnt' \in 0..RingLen - 1
      BY <1>9, <2>3, RememberType DEF Return
    <2> QED
      BY <1>9, <2>1, <2>2, <2>4 DEF Return, brokerVars
  <1>4. CASE LinkBreaks
    <2>1. toClient' \in Seq(Packet)
      BY <1>4, PrefixPoints DEF LinkBreaks
    <2> QED
      BY <1>4, <1>0, <2>1 DEF LinkBreaks, clientVars, brokerVars, histVars
  <1>5. CASE Disconnect
    BY <1>5, <1>0 DEF Disconnect, clientVars, brokerVars, histVars
  <1>6. CASE Reconnect
    <2>1. inflight' \in Seq(Packet) /\ toClient' \in Seq(Packet)
      BY <1>6, <1>0 DEF Reconnect
    <2>2. brokerId' \in 0..BrokerIds
      BY <1>6, BrokerIdsAssumption DEF Reconnect
    <2>3. /\ isConnected' \in BOOLEAN /\ linkUp' \in BOOLEAN
          /\ ackLost' \subseteq Msgs /\ disordered' \in BOOLEAN
      BY <1>6 DEF Reconnect
    <2> QED
      BY <1>6, <2>1, <2>2, <2>3 DEF Reconnect, clientVars
  <1>7. CASE UNCHANGED vars
    BY <1>7 DEF vars
  <1> QED
    BY <1>1, <1>2, <1>3, <1>4, <1>5, <1>6, <1>7, <1>8, <1>9 DEF Next

(* What the types say of the numbers that are counted with. *)
LEMMA Numeric ==
    ASSUME TypeOK
    PROVE  /\ sent \in Nat /\ brokerId \in Nat
           /\ Len(toClient) \in Nat /\ Len(toBroker) \in Nat /\ Len(inflight) \in Nat
           /\ Len(handling) \in Nat
           /\ \A k \in 1..Len(toClient) : toClient[k].msg \in Msgs
           /\ Msgs \subseteq Nat
  <1>1. \A k \in 1..Len(toClient) : toClient[k] \in Packet
    BY DEF TypeOK
  <1>2. \A k \in 1..Len(toClient) : toClient[k].msg \in Msgs
    BY <1>1 DEF Packet
  <1>3. Len(toClient) \in Nat /\ Len(toBroker) \in Nat /\ Len(inflight) \in Nat /\ Len(handling) \in Nat
    BY DEF TypeOK
  <1> QED
    BY <1>2, <1>3, NumMsgsAssumption, BrokerIdsAssumption DEF TypeOK, Msgs

----------------------------------------------------------------------------
(* A session that is not kept: nothing is sent twice. *)

LEMMA InitNew == Init => NewInv
  <1> SUFFICES ASSUME Init PROVE NewInv
    OBVIOUS
  <1>1. TypeOK
    BY InitType
  <1>2. Len(toClient) = 0
    BY DEF Init
  <1> QED
    BY <1>1, <1>2 DEF Init, NewInv

LEMMA NextNew == CleanSession /\ NewInv /\ [Next]_vars => NewInv'
  <1> SUFFICES ASSUME CleanSession, NewInv, [Next]_vars PROVE NewInv'
    OBVIOUS
  <1>0. TypeOK /\ TypeOK'
    BY NextType DEF NewInv
  <1>a. /\ \A m \in Msgs : delivered[m] <= 1 /\ (m > sent => delivered[m] = 0)
        /\ \A k \in 1..Len(toClient) :
             /\ toClient[k].msg <= sent
             /\ delivered[toClient[k].msg] = 0
             /\ \A l \in 1..Len(toClient) : k < l => toClient[k].msg < toClient[l].msg
    BY DEF NewInv
  <1>1. CASE BrokerSend
    <2>0. PICK id \in Ids : Sends(id)
      BY <1>1, SendsSome
    <2> DEFINE p == [msg |-> sent + 1, id |-> id]
    <2>1. p \in Packet
      BY <2>0, <1>0, NumMsgsAssumption DEF Sends, Packet, Msgs, TypeOK
    <2>2. sent' = sent + 1 /\ delivered' = delivered /\ sent \in Nat
      BY <2>0, <1>0, NumMsgsAssumption DEF Sends, clientVars, TypeOK
    <2>3. /\ Len(toClient') = Len(toClient) + 1
          /\ \A k \in 1..Len(toClient) + 1 :
                toClient'[k] = IF k <= Len(toClient) THEN toClient[k] ELSE p
      <3>1. toClient \in Seq(Packet) /\ toClient' = Append(toClient, p)
        BY <2>0, <1>0 DEF Sends, TypeOK
      <3> QED
        BY <3>1, <2>1, AppendPoints
    <2>4. Len(toClient) \in Nat /\ \A k \in 1..Len(toClient) : toClient[k].msg \in Nat
      BY <1>0, Numeric
    <2>5. p.msg = sent + 1 /\ sent + 1 \in Msgs
      BY <2>0, <1>0, NumMsgsAssumption DEF Sends, Msgs, TypeOK
    <2>6. delivered[sent + 1] = 0
      BY <1>a, <2>2, <2>5
    <2>7. \A m \in Msgs : delivered'[m] <= 1 /\ (m > sent' => delivered'[m] = 0)
      BY <1>a, <2>2, <1>0, Numeric
    <2>8. ASSUME NEW k \in 1..Len(toClient')
          PROVE  /\ toClient'[k].msg <= sent'
                 /\ delivered'[toClient'[k].msg] = 0
                 /\ \A l \in 1..Len(toClient') : k < l => toClient'[k].msg < toClient'[l].msg
      <3>1. CASE k <= Len(toClient)
        <4>1. toClient'[k] = toClient[k] /\ k \in 1..Len(toClient)
          BY <3>1, <2>3, <2>4
        <4>2. \A l \in 1..Len(toClient') : l \in 1..Len(toClient) \/ toClient'[l] = p
          BY <2>3, <2>4
        <4>3. \A l \in 1..Len(toClient) : toClient'[l] = toClient[l]
          BY <2>3, <2>4
        <4>4. toClient[k].msg <= sent /\ delivered[toClient[k].msg] = 0 /\ toClient[k].msg \in Nat
          BY <1>a, <4>1, <2>4
        <4>5. ASSUME NEW l \in 1..Len(toClient'), k < l
              PROVE  toClient'[k].msg < toClient'[l].msg
          <5>1. CASE l \in 1..Len(toClient)
            BY <5>1, <4>5, <4>1, <4>3, <1>a
          <5>2. CASE toClient'[l] = p
            BY <5>2, <4>1, <4>4, <2>2, <2>5
          <5> QED
            BY <5>1, <5>2, <4>2
        <4> QED
          BY <4>1, <4>4, <4>5, <2>2
      <3>2. CASE k = Len(toClient) + 1
        BY <3>2, <2>2, <2>3, <2>4, <2>5, <2>6
      <3> QED
        BY <3>1, <3>2, <2>3, <2>4
    <2> QED
      BY <1>0, <2>7, <2>8 DEF NewInv
  <1>2. CASE HandleNew \/ HandleRepeat
    <2> DEFINE p == Head(toClient)
    <2>1. /\ p = toClient[1] /\ p \in Packet
          /\ Len(toClient) \in Nat /\ Len(toClient) >= 1
          /\ Len(toClient') = Len(toClient) - 1
          /\ \A k \in 1..Len(toClient) - 1 : toClient'[k] = toClient[k + 1]
      <3>1. toClient # <<>> /\ toClient' = Tail(toClient)
        BY <1>2 DEF HandleNew, HandleRepeat
      <3>2. toClient \in Seq(Packet)
        BY <1>0 DEF TypeOK
      <3> QED
        BY <3>1, <3>2, TailPoints
    <2>2. p.msg \in Msgs /\ p.msg <= sent /\ delivered[p.msg] = 0
      BY <1>a, <2>1 DEF Packet
    <2>3. delivered' = delivered \/ delivered' = [delivered EXCEPT ![p.msg] = 1]
      <3>1. delivered' = delivered \/ delivered' = [delivered EXCEPT ![p.msg] = @ + 1]
        BY <1>2 DEF HandleNew, HandleRepeat, clientVars
      <3>2. [delivered EXCEPT ![p.msg] = @ + 1] = [delivered EXCEPT ![p.msg] = 1]
        BY <2>2, <1>0 DEF TypeOK
      <3> QED
        BY <3>1, <3>2
    <2>4. sent' = sent /\ sent \in Nat
      BY <1>2, <1>0, NumMsgsAssumption DEF HandleNew, HandleRepeat, brokerVars, TypeOK
    <2>5. \A m \in Msgs : delivered'[m] <= 1 /\ (m > sent' => delivered'[m] = 0)
      <3>1. \A m \in Msgs : delivered'[m] = delivered[m] \/ (m = p.msg /\ delivered'[m] = 1)
        BY <2>2, <2>3, <1>0 DEF TypeOK
      <3> QED
        BY <3>1, <1>a, <2>2, <2>4, <1>0, Numeric
    <2>6. \A k \in 1..Len(toClient) : toClient[k].msg \in Msgs
      BY <1>0, Numeric
    <2>7. \A k \in 2..Len(toClient) : p.msg < toClient[k].msg
      BY <1>a, <2>1
    <2>8. \A m \in Msgs : m # p.msg => delivered'[m] = delivered[m]
      BY <2>3, <1>0 DEF TypeOK
    <2>9. ASSUME NEW k \in 1..Len(toClient')
          PROVE  /\ toClient'[k].msg <= sent'
                 /\ delivered'[toClient'[k].msg] = 0
                 /\ \A l \in 1..Len(toClient') : k < l => toClient'[k].msg < toClient'[l].msg
      <3>1. k + 1 \in 2..Len(toClient) /\ k + 1 \in 1..Len(toClient) /\ toClient'[k] = toClient[k + 1]
        BY <2>1
      <3>2. \A l \in 1..Len(toClient') : l + 1 \in 1..Len(toClient) /\ toClient'[l] = toClient[l + 1]
        BY <2>1
      <3>3. toClient'[k].msg # p.msg /\ toClient'[k].msg \in Msgs
        BY <3>1, <2>2, <2>6, <2>7, <1>0, Numeric
      <3>4. delivered'[toClient'[k].msg] = 0
        BY <1>a, <3>1, <3>3, <2>8
      <3>5. \A l \in 1..Len(toClient') : k < l => toClient'[k].msg < toClient'[l].msg
        <4>1. \A l \in 1..Len(toClient') : k < l => k + 1 < l + 1
          OBVIOUS
        <4> QED
          BY <1>a, <4>1, <3>1, <3>2
      <3> QED
        BY <1>a, <3>1, <3>4, <3>5, <2>4
    <2> QED
      BY <1>0, <2>5, <2>9 DEF NewInv
  <1>3. CASE LinkBreaks
    <2>1. PICK n \in 0..Len(toClient) : toClient' = SubSeq(toClient, 1, n)
      BY <1>3 DEF LinkBreaks
    <2>2. Len(toClient') = n /\ \A k \in 1..n : toClient'[k] = toClient[k]
      BY <2>1, <1>0, PrefixPoints DEF TypeOK
    <2>3. Len(toClient) \in Nat
      BY <1>0 DEF TypeOK
    <2>4. delivered' = delivered /\ sent' = sent
      BY <1>3 DEF LinkBreaks, clientVars, brokerVars, histVars
    <2> QED
      BY <1>0, <1>a, <2>2, <2>3, <2>4 DEF NewInv
  <1>4. CASE Disconnect
    <2>1. Len(toClient') = 0 /\ delivered' = delivered /\ sent' = sent
      BY <1>4 DEF Disconnect, clientVars, brokerVars, histVars
    <2> QED
      BY <1>0, <1>a, <2>1 DEF NewInv
  <1>5. CASE BrokerPubAck \/ Return \/ Reconnect \/ UNCHANGED vars
    <2>1. toClient' = toClient /\ delivered' = delivered /\ sent' = sent
      BY <1>5 DEF BrokerPubAck, Return, Reconnect, clientVars, brokerVars, vars
    <2> QED
      BY <1>0, <1>a, <2>1 DEF NewInv
  <1> QED
    BY <1>1, <1>2, <1>3, <1>4, <1>5 DEF Next

----------------------------------------------------------------------------
(* A session that is kept: the ring and the ids. *)

Recent(s, m) == m >= 1 /\ m <= s /\ s - m < BrokerIds

(* The slots of the last RingLen ids are all slots, each once. *)
LEMMA Slots ==
    ASSUME cnt \in 0..RingLen - 1
    PROVE  /\ \A j \in 0..RingLen - 1 : Slot(cnt, j) \in 0..RingLen - 1
           /\ \A i, j \in 0..RingLen - 1 : Slot(cnt, i) = Slot(cnt, j) => i = j
           /\ \A k \in 0..RingLen - 1 : \E j \in 0..RingLen - 1 : Slot(cnt, j) = k
  <1>1. RingLen \in Nat /\ cnt \in Nat /\ cnt < RingLen
    BY RingLenAssumption
  <1>2. \A j \in 0..RingLen - 1 : Slot(cnt, j) \in 0..RingLen - 1
    BY <1>1 DEF Slot
  <1>3. \A i, j \in 0..RingLen - 1 : Slot(cnt, i) = Slot(cnt, j) => i = j
    BY <1>1 DEF Slot
  <1>4. ASSUME NEW k \in 0..RingLen - 1
        PROVE  \E j \in 0..RingLen - 1 : Slot(cnt, j) = k
    <2>1. CASE k < cnt
      <3>1. cnt - 1 - k \in 0..RingLen - 1 /\ Slot(cnt, cnt - 1 - k) = k
        BY <2>1, <1>1 DEF Slot
      <3> QED
        BY <3>1
    <2>2. CASE ~(k < cnt)
      <3>1. cnt - 1 - k + RingLen \in 0..RingLen - 1 /\ Slot(cnt, cnt - 1 - k + RingLen) = k
        BY <2>2, <1>1 DEF Slot
      <3> QED
        BY <3>1
    <2> QED
      BY <2>1, <2>2
  <1> QED
    BY <1>2, <1>3, <1>4

(* Two of the last BrokerIds messages have different ids. *)
LEMMA RecentIds ==
    ASSUME TypeOK, Numbers
    PROVE  /\ \A m \in Int : Recent(sent, m) => IdOf(brokerId, sent, m) \in Ids
           /\ \A m, n \in Int : Recent(sent, m) /\ Recent(sent, n) /\ IdOf(brokerId, sent, m) = IdOf(brokerId, sent, n) => m = n
  <1>1. /\ sent \in Nat /\ brokerId \in Nat /\ brokerId <= BrokerIds /\ BrokerIds \in Nat
        /\ brokerId = sent \/ (sent >= BrokerIds /\ brokerId >= 1)
    BY NumMsgsAssumption, BrokerIdsAssumption DEF TypeOK, Numbers
  <1> QED
    BY <1>1 DEF Recent, IdOf, Ids

(* Window and RingLen are small against the id space. *)
LEMMA Sizes ==
    ASSUME TypeOK, Numbers
    PROVE  /\ sent \in Nat /\ low \in Nat /\ RingLen \in Nat /\ RingLen >= 1
           /\ Window \in Nat /\ Window <= RingLen
           /\ BrokerIds \in Nat /\ BrokerIds >= RingLen + Window
           /\ Len(inflight) \in Nat /\ Len(inflight) <= Window /\ sent = low + Len(inflight)
  BY Numeric, RingLenAssumption, WindowAssumption, BrokerIdsAssumption DEF Numbers, low

(* A message in flight counts as received just when it was delivered. *)
LEMMA RememberedIff ==
    ASSUME TypeOK, Numbers, NEW high \in 0..sent, Delivered(high), NEW m \in low + 1..sent
    PROVE  Remembered(IdOf(brokerId, sent, m)) <=> m <= high
  <1>1. /\ low <= high
        /\ \A j \in 0..RingLen - 1 :
             ring[Slot(cnt, j)] = IF high - j >= 1 THEN IdOf(brokerId, sent, high - j) ELSE 0
    BY DEF Delivered
  <1>2. cnt \in 0..RingLen - 1
    BY DEF TypeOK
  <1>3. Recent(sent, m)
    BY Sizes DEF Recent
  <1>4. ASSUME m <= high PROVE Remembered(IdOf(brokerId, sent, m))
    <2>1. high - m \in 0..RingLen - 1 /\ high - (high - m) = m /\ m >= 1
      BY <1>4, Sizes
    <2>2. ring[Slot(cnt, high - m)] = IdOf(brokerId, sent, m)
      BY <2>1, <1>1
    <2>3. Slot(cnt, high - m) \in 0..RingLen - 1
      BY <2>1, <1>2, Slots
    <2> QED
      BY <2>2, <2>3 DEF Remembered
  <1>5. ASSUME Remembered(IdOf(brokerId, sent, m)) PROVE m <= high
    <2>1. PICK k \in 0..RingLen - 1 : ring[k] = IdOf(brokerId, sent, m)
      BY <1>5 DEF Remembered
    <2>2. PICK j \in 0..RingLen - 1 : Slot(cnt, j) = k
      BY <1>2, Slots
    <2>3. IdOf(brokerId, sent, m) # 0
      BY <1>3, RecentIds, Sizes DEF Ids
    <2>4. high - j >= 1 /\ IdOf(brokerId, sent, high - j) = IdOf(brokerId, sent, m)
      BY <2>1, <2>2, <2>3, <1>1
    <2>5. Recent(sent, high - j) /\ high - j \in Int
      BY SMTT(30), <2>4, <1>1, Sizes DEF Recent
    <2>6. high - j = m
      BY <2>4, <2>5, <1>3, RecentIds, Sizes
    <2> QED
      BY <2>6, Sizes
  <1> QED
    BY <1>4, <1>5

----------------------------------------------------------------------------
(* A session that is kept: the steps, for what high and at were before.    *)

LEMMA InitInOrder == Init => InOrder
  <1> SUFFICES ASSUME Init PROVE InOrder
    OBVIOUS
  <1>1. TypeOK
    BY InitType
  <1>2. /\ Len(inflight) = 0 /\ Len(toClient) = 0 /\ Len(toBroker) = 0 /\ Len(handling) = 0
        /\ sent = 0 /\ brokerId = 0 /\ acked = {} /\ cnt = 0 /\ low = 0
        /\ isConnected /\ linkUp
        /\ \A m \in Msgs : delivered[m] = 0 /\ m > 0
        /\ \A k \in 0..RingLen - 1 : ring[k] = 0
    <2>1. Len(inflight) = 0 /\ Len(toClient) = 0 /\ Len(toBroker) = 0 /\ Len(handling) = 0 /\ sent = 0
      BY DEF Init
    <2>2. low = 0
      BY <2>1 DEF low
    <2>3. \A m \in Msgs : delivered[m] = 0 /\ m > 0
      BY DEF Init, Msgs
    <2>4. \A k \in 0..RingLen - 1 : ring[k] = 0
      BY DEF Init
    <2> QED
      BY <2>1, <2>2, <2>3, <2>4 DEF Init
  <1>3. 1..low = {}
    BY <1>2
  <1>4. Numbers
    BY <1>2, <1>3, WindowAssumption, RingLenAssumption DEF Numbers
  <1>5. cnt \in 0..RingLen - 1
    BY <1>1 DEF TypeOK
  <1>6. Delivered(0)
    <2>0. \A j \in 0..RingLen - 1 : Slot(cnt, j) \in 0..RingLen - 1
      BY <1>5, Slots
    <2>1. \A j \in 0..RingLen - 1 : ring[Slot(cnt, j)] = 0
      BY <1>2, <2>0
    <2>3. \A j \in 0..RingLen - 1 : ~(0 - j >= 1)
      BY RingLenAssumption
    <2>4. low <= 0 /\ 0 + Len(handling) <= sent /\ Len(handling) <= 1
      BY <1>2
    <2>2. \A m \in Msgs : ~(m <= 0 + Len(handling))
      BY <1>2 DEF Msgs
    <2> QED
      BY <1>2, <2>1, <2>2, <2>3, <2>4 DEF Delivered
  <1>7. UnderWay(0)
    BY <1>2 DEF UnderWay
  <1>8. 0 \in 0..sent /\ 0 \in 0..0
    BY <1>2
  <1> QED
    BY <1>2, <1>4, <1>6, <1>7, <1>8 DEF InOrder, At

LEMMA SendKept ==
    ASSUME TypeOK, Numbers, Sends(NextBrokerId),
           NEW high \in 0..sent, NEW at \in 0..high, At(high, at)
    PROVE  /\ Numbers' /\ At(high, at)'
           /\ high \in 0..sent'
  <1>s. /\ sent \in Nat /\ brokerId \in Nat /\ low \in Nat /\ RingLen \in Nat /\ RingLen >= 1
        /\ Window \in Nat /\ Window <= RingLen
        /\ BrokerIds \in Nat /\ BrokerIds >= RingLen + Window
        /\ Len(inflight) \in Nat /\ Len(inflight) <= Window /\ sent = low + Len(inflight)
        /\ Len(toClient) \in Nat /\ Len(toBroker) \in Nat /\ high \in Nat /\ at \in Nat
        /\ Len(handling) \in Nat
    BY Sizes, Numeric
  <1>u. Delivered(high) /\ UnderWay(at) /\ (Len(handling) = 1 => at = high)
    BY DEF At
  <1> DEFINE p == [msg |-> sent + 1, id |-> NextBrokerId]
  <1>0. p \in Packet
    BY NextIdRange, NumMsgsAssumption DEF Sends, Packet, Msgs, TypeOK
  <1>1. /\ Len(inflight') = Len(inflight) + 1
        /\ \A k \in 1..Len(inflight) + 1 :
              inflight'[k] = IF k <= Len(inflight) THEN inflight[k] ELSE p
        /\ Len(toClient') = Len(toClient) + 1
        /\ \A k \in 1..Len(toClient) + 1 :
              toClient'[k] = IF k <= Len(toClient) THEN toClient[k] ELSE p
    <2>1. toClient \in Seq(Packet) /\ inflight \in Seq(Packet)
      BY DEF TypeOK
    <2>2. toClient' = Append(toClient, p) /\ inflight' = Append(inflight, p)
      BY DEF Sends
    <2> QED
      BY <2>1, <2>2, <1>0, AppendPoints
  <1>2. /\ sent' = sent + 1 /\ low' = low /\ brokerId' = NextBrokerId
        /\ Len(inflight) + 1 <= Window
        /\ delivered' = delivered /\ ring' = ring /\ cnt' = cnt /\ toBroker' = toBroker
        /\ acked' = acked /\ handling' = handling /\ linkUp /\ linkUp' = linkUp /\ isConnected' = isConnected
    <2>1. sent' = sent + 1 /\ brokerId' = NextBrokerId /\ Len(inflight) < Window
      BY DEF Sends
    <2>2. low' = low
      <3>1. sent \in Nat /\ Len(inflight) \in Nat /\ Len(inflight') = Len(inflight) + 1
        BY <1>1, <1>s
      <3> QED
        BY <2>1, <3>1 DEF low
    <2>3. Len(inflight) + 1 <= Window
      BY <2>1, <1>s
    <2>4. UNCHANGED <<delivered, handling, ring, cnt, toBroker, acked, linkUp, isConnected>> /\ linkUp
      BY DEF Sends, clientVars
    <2> QED
      BY <2>1, <2>2, <2>3, <2>4
  <1>3. \A m \in Int : Recent(sent, m) /\ sent - m <= BrokerIds - 2 => IdOf(brokerId', sent', m) = IdOf(brokerId, sent, m)
    <2>1. brokerId = sent \/ (sent >= BrokerIds /\ brokerId >= 1)
      BY DEF Numbers
    <2>2. brokerId <= BrokerIds
      BY <1>s DEF TypeOK
    <2>3. CASE brokerId = BrokerIds
      BY SMTT(30), <2>1, <2>3, <1>2, <1>s DEF Recent, IdOf, NextBrokerId
    <2>4. CASE brokerId # BrokerIds
      BY SMTT(30), <2>1, <2>2, <2>4, <1>2, <1>s DEF Recent, IdOf, NextBrokerId
    <2> QED
      BY <2>3, <2>4
  <1>4. PacketOf(brokerId', sent', sent + 1) = p
    <2>1. NextBrokerId >= 1 /\ NextBrokerId \in Nat
      BY NextIdRange, BrokerIdsAssumption DEF TypeOK, Ids
    <2>2. IdOf(brokerId', sent', sent + 1) = NextBrokerId
      BY <1>2, <2>1, <1>s DEF IdOf
    <2> QED
      BY <1>2, <2>2 DEF PacketOf
  <1>5. \A m \in low + 1..sent : PacketOf(brokerId', sent', m) = PacketOf(brokerId, sent, m) /\ IdOf(brokerId', sent', m) = IdOf(brokerId, sent, m)
    <2>1. \A m \in low + 1..sent : m \in Int /\ Recent(sent, m) /\ sent - m <= BrokerIds - 2
      BY <1>2, <1>s DEF Recent
    <2> QED
      BY <2>1, <1>3 DEF PacketOf
  <1>6. Numbers'
    <2>1. ASSUME NEW k \in 1..Len(inflight')
          PROVE  inflight'[k] = PacketOf(brokerId', sent', low' + k)
      <3>1. CASE k <= Len(inflight)
        <4>1. k \in 1..Len(inflight) /\ low + k \in low + 1..sent
          BY <3>1, <1>s
        <4>2. inflight'[k] = inflight[k] /\ inflight[k] = PacketOf(brokerId, sent, low + k)
          BY <4>1, <1>1, <1>s DEF Numbers
        <4> QED
          BY <4>1, <4>2, <1>5, <1>2
      <3>2. CASE k = Len(inflight) + 1
        <4>a. Len(inflight) + 1 \in 1..Len(inflight) + 1 /\ ~(Len(inflight) + 1 <= Len(inflight)) /\ low + k = sent + 1
          BY <3>2, <1>s
        <4>1. inflight'[k] = p /\ low + k = sent + 1
          BY <4>a, <3>2, <1>1
        <4> QED
          BY <4>1, <1>2, <1>4
      <3>3. Len(inflight') = Len(inflight) + 1 /\ Len(inflight) \in Nat
        BY <1>1, <1>s
      <3>4. k <= Len(inflight) \/ k = Len(inflight) + 1
        BY <3>3
      <3> QED
        BY <3>1, <3>2, <3>4
    <2>2. brokerId' = sent' \/ (sent' >= BrokerIds /\ brokerId' >= 1)
      BY <1>2, <1>s DEF NextBrokerId, Numbers
    <2> QED
      BY <2>1, <2>2, <1>1, <1>2, <1>s DEF Numbers
  <1>7. Delivered(high)'
    <2>1. ASSUME NEW j \in 0..RingLen - 1, high - j >= 1
          PROVE  IdOf(brokerId', sent', high - j) = IdOf(brokerId, sent, high - j)
      <3>1. low <= high
        BY <1>u DEF Delivered
      <3>2. Recent(sent, high - j) /\ sent - (high - j) <= BrokerIds - 2 /\ high - j \in Int
        BY <2>1, <3>1, <1>2, <1>s DEF Recent
      <3> QED
        BY <3>2, <1>3
    <2>2. \A j \in 0..RingLen - 1 : Slot(cnt', j) = Slot(cnt, j)
      BY <1>2 DEF Slot
    <2>3. \A m \in Msgs : delivered'[m] = IF m <= high + Len(handling') THEN 1 ELSE 0
      BY <1>2, <1>u DEF Delivered
    <2>4. \A j \in 0..RingLen - 1 :
            ring'[Slot(cnt', j)] = IF high - j >= 1 THEN IdOf(brokerId', sent', high - j) ELSE 0
      BY <2>1, <2>2, <1>2, <1>u DEF Delivered
    <2>5. low' <= high /\ high + Len(handling') <= sent' /\ Len(handling') <= 1
      BY <1>2, <1>s, <1>u DEF Delivered
    <2>6. ASSUME NEW k \in 1..Len(handling')
          PROVE  handling'[k] = PacketOf(brokerId', sent', high + 1)
      <3>1. handling'[k] = PacketOf(brokerId, sent, high + 1) /\ k \in 1..Len(handling)
        BY <1>2, <1>u DEF Delivered
      <3>2. high + 1 \in low + 1..sent
        <4>1. low <= high /\ high + Len(handling) <= sent /\ Len(handling) >= 1
          BY <3>1, <1>s, <1>u DEF Delivered
        <4> QED
          BY <4>1, <1>s
      <3> QED
        BY <3>1, <3>2, <1>5
    <2> QED
      BY <2>3, <2>4, <2>5, <2>6 DEF Delivered
  <1>8. UnderWay(at)'
    <2> DEFINE base == at + Len(handling)
    <2>1. base + Len(toClient) = sent /\ low <= at /\ at <= base /\ base \in Nat /\ Len(toClient) \in Nat
      BY <1>2, <1>s, <1>u DEF UnderWay
    <2>2. ASSUME NEW k \in 1..Len(toClient')
          PROVE  toClient'[k] = PacketOf(brokerId', sent', base + k)
      <3>1. CASE k <= Len(toClient)
        <4>1. k \in 1..Len(toClient) /\ base + k \in low + 1..sent
          BY <3>1, <2>1, <1>s
        <4>2. toClient'[k] = toClient[k] /\ toClient[k] = PacketOf(brokerId, sent, base + k)
          BY <4>1, <1>1, <2>1, <1>u DEF UnderWay
        <4> QED
          BY <4>1, <4>2, <1>5
      <3>2. CASE k = Len(toClient) + 1
        <4>1. base + k = sent + 1
          BY <3>2, <2>1, <1>s
        <4>2. toClient'[k] = p
          <5>1. k \in 1..Len(toClient) + 1 /\ ~(k <= Len(toClient))
            BY <3>2, <2>1
          <5>2. toClient'[k] = IF k <= Len(toClient) THEN toClient[k] ELSE p
            BY <5>1, <1>1
          <5> QED
            BY <5>1, <5>2
        <4> QED
          BY <4>1, <4>2, <1>4
      <3> QED
        BY <3>1, <3>2, <1>1, <2>1
    <2>3. ASSUME NEW k \in 1..Len(toBroker)
          PROVE  toBroker[k] = IdOf(brokerId', sent', low + k)
      <3>1. low + k \in low + 1..sent /\ toBroker[k] = IdOf(brokerId, sent, low + k)
        BY <1>2, <2>1, <1>s, <1>u DEF UnderWay
      <3> QED
        BY <3>1, <1>5
    <2>4. isConnected /\ Len(toBroker) = at - low
      BY <1>2, <1>u DEF UnderWay
    <2>5. base + Len(toClient') = sent' /\ low' <= at
      <3>1. Len(toClient') = Len(toClient) + 1 /\ sent' = sent + 1 /\ low' = low
        BY <1>1, <1>2
      <3> QED
        BY SMTT(30), <3>1, <2>1, <1>s
    <2>6. linkUp' /\ isConnected' /\ toBroker' = toBroker /\ low' = low /\ handling' = handling
      BY <1>2, <2>4
    <2>7. base + Len(toClient') <= sent'
      BY <2>5, <1>1, <1>2, <1>s
    <2> QED
      BY <2>2, <2>3, <2>4, <2>5, <2>6, <2>7 DEF UnderWay
  <1> QED
    BY <1>2, <1>6, <1>7, <1>8, <1>s, <1>u DEF At

LEMMA AckKept ==
    ASSUME TypeOK, Numbers, BrokerPubAck,
           NEW high \in 0..sent, NEW at \in 0..high, At(high, at)
    PROVE  /\ Numbers' /\ At(high, at)'
           /\ high \in 0..sent'
  <1>s. /\ sent \in Nat /\ brokerId \in Nat /\ low \in Nat /\ RingLen \in Nat /\ RingLen >= 1
        /\ Window \in Nat /\ Window <= RingLen
        /\ BrokerIds \in Nat /\ BrokerIds >= RingLen + Window
        /\ Len(inflight) \in Nat /\ Len(inflight) <= Window /\ sent = low + Len(inflight)
        /\ Len(toClient) \in Nat /\ Len(toBroker) \in Nat /\ high \in Nat /\ at \in Nat
        /\ Len(handling) \in Nat
    BY Sizes, Numeric
  <1>u. Delivered(high) /\ UnderWay(at) /\ (Len(handling) = 1 => at = high)
    BY DEF At
  <1> DEFINE Acked == {k \in DOMAIN inflight : inflight[k].id = Head(toBroker)}
  <1>1. /\ toBroker # <<>> /\ Head(toBroker) = toBroker[1] /\ Len(toBroker) >= 1
        /\ Len(toBroker') = Len(toBroker) - 1
        /\ \A k \in 1..Len(toBroker) - 1 : toBroker'[k] = toBroker[k + 1]
    BY TailPoints DEF BrokerPubAck, TypeOK
  <1>2. /\ linkUp /\ Len(toBroker) = at - low /\ Head(toBroker) = IdOf(brokerId, sent, low + 1)
        /\ at + Len(handling) + Len(toClient) = sent /\ isConnected
    BY <1>1, <1>s, <1>u DEF UnderWay, TypeOK
  <1>3. low + 1 <= sent /\ Len(inflight) >= 1
    BY <1>1, <1>2, <1>s
  <1>4. \A k \in 1..Len(inflight) : inflight[k].id = IdOf(brokerId, sent, low + k) /\ inflight[k].msg = low + k
    <2>1. \A k \in 1..Len(inflight) : inflight[k] = PacketOf(brokerId, sent, low + k)
      BY DEF Numbers
    <2>2. \A m \in Int : PacketOf(brokerId, sent, m).id = IdOf(brokerId, sent, m) /\ PacketOf(brokerId, sent, m).msg = m
      BY DEF PacketOf
    <2>3. \A k \in 1..Len(inflight) : low + k \in Int
      BY <1>s
    <2> QED
      BY <2>1, <2>2, <2>3
  <1>5. \A k \in 1..Len(inflight) : IdOf(brokerId, sent, low + k) = IdOf(brokerId, sent, low + 1) => k = 1
    <2>1. \A k \in 1..Len(inflight) : Recent(sent, low + k) /\ low + k \in Int
      BY <1>s DEF Recent
    <2>2. Recent(sent, low + 1) /\ low + 1 \in Int
      BY <1>3, <2>1, <1>s
    <2> QED
      BY <2>1, <2>2, RecentIds, <1>s
  <1>6. Acked = {1} /\ DOMAIN inflight = 1..Len(inflight) /\ 1 \in 1..Len(inflight)
    <2>1. DOMAIN inflight = 1..Len(inflight)
      BY DEF TypeOK
    <2> QED
      BY <2>1, <1>2, <1>3, <1>4, <1>5, <1>s
  <1>7. (CHOOSE k \in Acked : TRUE) = 1
    BY <1>6
  <1>8. inflight' = Tail(inflight)
    <2>1. inflight' = RemoveAt(inflight, 1)
      BY <1>6, <1>7 DEF BrokerPubAck
    <2>2. inflight \in Seq(Packet) /\ inflight # <<>>
      BY <1>3 DEF TypeOK
    <2> QED
      BY <2>1, <2>2, RemoveFirst1
  <1>9. /\ Len(inflight') = Len(inflight) - 1
        /\ \A k \in 1..Len(inflight) - 1 : inflight'[k] = inflight[k + 1]
    <2>1. inflight \in Seq(Packet) /\ inflight # <<>>
      BY <1>3 DEF TypeOK
    <2> QED
      BY <2>1, <1>8, TailPoints
  <1>10. /\ sent' = sent /\ brokerId' = brokerId /\ low' = low + 1
         /\ delivered' = delivered /\ handling' = handling /\ ring' = ring /\ cnt' = cnt /\ toClient' = toClient
         /\ linkUp' = linkUp /\ isConnected' = isConnected
    <2>1. UNCHANGED <<clientVars, isConnected, linkUp, toClient, sent, brokerId>>
      BY DEF BrokerPubAck
    <2>2. low' = low + 1
      <3>1. sent' = sent /\ Len(inflight') = Len(inflight) - 1
        BY <2>1, <1>9
      <3> QED
        BY <3>1, <1>s DEF low
    <2> QED
      BY <2>1, <2>2 DEF clientVars
  <1>11. acked' = 1..low + 1
    <2>1. acked' = acked \cup {inflight[k].msg : k \in Acked}
      BY DEF BrokerPubAck
    <2>2. {inflight[k].msg : k \in Acked} = {low + 1}
      BY <1>6, <1>4
    <2>3. acked = 1..low
      BY DEF Numbers
    <2>4. (1..low) \cup {low + 1} = 1..low + 1
      BY <1>s
    <2> QED
      BY <2>1, <2>2, <2>3, <2>4
  <1>12. /\ \A m \in Int : IdOf(brokerId', sent', m) = IdOf(brokerId, sent, m) /\ PacketOf(brokerId', sent', m) = PacketOf(brokerId, sent, m)
    BY <1>10 DEF IdOf, PacketOf
  <1>13. Numbers'
    <2>1. ASSUME NEW k \in 1..Len(inflight')
          PROVE  inflight'[k] = PacketOf(brokerId', sent', low' + k)
      <3>0. k \in 1..Len(inflight) - 1 /\ low' = low + 1
        BY <1>9, <1>10
      <3>a. k + 1 \in 1..Len(inflight) /\ low' + k = low + (k + 1)
        BY <3>0, <1>s
      <3>b. inflight'[k] = inflight[k + 1]
        BY <3>0, <1>9
      <3>1. k + 1 \in 1..Len(inflight) /\ inflight'[k] = inflight[k + 1] /\ low' + k = low + (k + 1)
        BY <3>a, <3>b
      <3>2. inflight[k + 1] = PacketOf(brokerId, sent, low + (k + 1)) /\ low + (k + 1) \in Int
        BY <3>1, <1>s DEF Numbers
      <3> QED
        BY <3>1, <3>2, <1>12
    <2>2. Len(inflight') <= Window /\ low' >= 0
      BY <1>9, <1>10, <1>s
    <2> QED
      BY <2>1, <2>2, <1>10, <1>11 DEF Numbers
  <1>14. Delivered(high)'
    <2>1. \A j \in 0..RingLen - 1 : Slot(cnt', j) = Slot(cnt, j) /\ high - j \in Int
      BY <1>10 DEF Slot
    <2>2. low' <= high
      BY <1>10, <1>1, <1>2, <1>s
    <2>3. high + 1 \in Int
      BY <1>s
    <2> QED
      BY <2>1, <2>2, <2>3, <1>10, <1>12, <1>u DEF Delivered
  <1>15. UnderWay(at)'
    <2>1. low' <= at
      BY <1>10, <1>1, <1>2, <1>s
    <2>2. \A k \in 1..Len(toClient) : toClient[k] = PacketOf(brokerId', sent', at + Len(handling) + k)
      <3>1. \A k \in 1..Len(toClient) : at + Len(handling) + k \in Int
        BY <1>s
      <3> QED
        BY <3>1, <1>12, <1>u DEF UnderWay
    <2>3. ASSUME NEW k \in 1..Len(toBroker')
          PROVE  toBroker'[k] = IdOf(brokerId', sent', low' + k)
      <3>1. /\ k + 1 \in 1..Len(toBroker) /\ toBroker'[k] = toBroker[k + 1]
            /\ low' + k = low + (k + 1) /\ low + (k + 1) \in Int
        BY <1>1, <1>10, <1>s
      <3>2. toBroker[k + 1] = IdOf(brokerId, sent, low + (k + 1))
        BY <3>1, <1>2, <1>u DEF UnderWay
      <3> QED
        BY <3>1, <3>2, <1>12
    <2>4. Len(toBroker') = at - low'
      BY <1>1, <1>2, <1>10, <1>s
    <2> QED
      BY <1>2, <1>10, <2>1, <2>2, <2>3, <2>4, <1>s DEF UnderWay
  <1> QED
    BY <1>10, <1>13, <1>14, <1>15, <1>u DEF At

(* The facts about sizes that the steps of the client need. *)
LEMMA HandlerSizes ==
    ASSUME TypeOK, Numbers, NEW high \in 0..sent, NEW at \in 0..high, At(high, at)
    PROVE  /\ sent \in Nat /\ brokerId \in Nat /\ low \in Nat /\ high \in Nat /\ at \in Nat
           /\ RingLen \in Nat /\ RingLen >= 1 /\ Window \in Nat /\ Window <= RingLen
           /\ BrokerIds \in Nat /\ BrokerIds >= RingLen + Window
           /\ Len(inflight) \in Nat /\ Len(inflight) <= Window /\ sent = low + Len(inflight)
           /\ Len(toClient) \in Nat /\ Len(toBroker) \in Nat /\ Len(handling) \in 0..1
           /\ low <= at /\ at <= high /\ high + Len(handling) <= sent
           /\ at + Len(handling) + Len(toClient) <= sent
           /\ Delivered(high) /\ UnderWay(at) /\ (Len(handling) = 1 => at = high)
  <1>1. Delivered(high) /\ UnderWay(at) /\ (Len(handling) = 1 => at = high)
    BY DEF At
  <1>2. low <= at /\ high + Len(handling) <= sent /\ Len(handling) <= 1 /\ at + Len(handling) + Len(toClient) <= sent
    BY <1>1 DEF Delivered, UnderWay
  <1>3. sent \in Nat /\ brokerId \in Nat /\ Len(toClient) \in Nat /\ Len(toBroker) \in Nat /\ Len(handling) \in Nat
    BY Numeric
  <1>4. /\ low \in Nat /\ RingLen \in Nat /\ RingLen >= 1 /\ Window \in Nat /\ Window <= RingLen
        /\ BrokerIds \in Nat /\ BrokerIds >= RingLen + Window
        /\ Len(inflight) \in Nat /\ Len(inflight) <= Window /\ sent = low + Len(inflight)
    BY Sizes
  <1>5. high \in Nat /\ at \in Nat /\ at <= high
    BY <1>3
  <1>6. Len(handling) \in 0..1
    <2>1. \A n \in Nat : n <= 1 => n \in 0..1
      OBVIOUS
    <2> QED
      BY <2>1, <1>2, <1>3
  <1> QED
    BY <1>1, <1>2, <1>3, <1>4, <1>5, <1>6

(* One more acknowledgement is under way, if the link is up. *)
LEMMA AcknowledgeKept ==
    ASSUME TypeOK, Numbers, NEW high \in 0..sent, NEW at \in 0..high, At(high, at),
           NEW p, p = PacketOf(brokerId, sent, at + 1), at + 1 <= sent,
           Acknowledge(p), ~disordered'
    PROVE  /\ linkUp => /\ Len(toBroker') = at + 1 - low
                        /\ \A k \in 1..Len(toBroker') : toBroker'[k] = IdOf(brokerId, sent, low + k)
           /\ ~linkUp => toBroker' = <<>>
  <1>s. /\ sent \in Nat /\ low \in Nat /\ at \in Nat /\ low <= at
        /\ Len(inflight) \in Nat /\ sent = low + Len(inflight) /\ Len(inflight) < BrokerIds /\ BrokerIds \in Nat
        /\ Len(toBroker) \in Nat /\ UnderWay(at)
    BY HandlerSizes
  <1> DEFINE id == IdOf(brokerId, sent, at + 1)
  <1>1. p.id = id
    BY DEF PacketOf
  <1>2. id \in Ids
    <2>1. Recent(sent, at + 1) /\ at + 1 \in Int
      BY <1>s DEF Recent
    <2> QED
      BY <2>1, RecentIds
  <1>3. CASE linkUp
    <2>1. toBroker' = Append(toBroker, id)
      BY <1>1, <1>3 DEF Acknowledge
    <2> HIDE DEF id
    <2>2. /\ Len(toBroker') = Len(toBroker) + 1
          /\ \A k \in 1..Len(toBroker) + 1 :
                toBroker'[k] = IF k <= Len(toBroker) THEN toBroker[k] ELSE id
      <3>1. toBroker \in Seq(Ids)
        BY DEF TypeOK
      <3> QED
        BY <3>1, <2>1, <1>2, AppendPoints
    <2>3. /\ Len(toBroker) = at - low
          /\ \A k \in 1..Len(toBroker) : toBroker[k] = IdOf(brokerId, sent, low + k)
      BY <1>3, <1>s DEF UnderWay
    <2>4. ASSUME NEW k \in 1..Len(toBroker')
          PROVE  toBroker'[k] = IdOf(brokerId, sent, low + k)
      <3>1. CASE k <= Len(toBroker)
        BY <3>1, <2>2, <2>3, <1>s
      <3>2. CASE k = Len(toBroker) + 1
        <4>1. low + k = at + 1
          BY <3>2, <2>3, <1>s
        <4>2. toBroker'[k] = id
          BY <3>2, <2>2, <1>s
        <4> QED
          BY <4>1, <4>2 DEF id
      <3>3. k <= Len(toBroker) \/ k = Len(toBroker) + 1
        BY <2>2, <1>s
      <3> QED
        BY <3>1, <3>2, <3>3
    <2>5. Len(toBroker') = at + 1 - low
      BY <2>2, <2>3, <1>s
    <2> QED
      BY <1>3, <2>4, <2>5
  <1>4. CASE ~linkUp
    BY <1>4, <1>s DEF Acknowledge, UnderWay
  <1> QED
    BY <1>3, <1>4

(* A callback is called: for the first message that was not delivered. *)
LEMMA NewKept ==
    ASSUME TypeOK, Numbers, HandleNew, ~disordered',
           NEW high \in 0..sent, NEW at \in 0..high, At(high, at)
    PROVE  Numbers' /\ At(high, at)' /\ high \in 0..sent'
  <1>s. /\ sent \in Nat /\ low \in Nat /\ high \in Nat /\ at \in Nat /\ low <= at /\ at <= high
        /\ Len(inflight) \in Nat /\ sent = low + Len(inflight)
        /\ Len(toClient) \in Nat /\ Len(toBroker) \in Nat
        /\ Delivered(high) /\ UnderWay(at) /\ at + Len(handling) + Len(toClient) <= sent
    BY HandlerSizes
  <1> DEFINE p == Head(toClient)
  <1>1. /\ p \in Packet /\ p = toClient[1] /\ Len(toClient) >= 1
        /\ Len(toClient') = Len(toClient) - 1
        /\ \A k \in 1..Len(toClient) - 1 : toClient'[k] = toClient[k + 1]
    BY TailPoints DEF HandleNew, TypeOK
  <1>2. /\ isConnected /\ ~Remembered(p.id)
        /\ delivered' = [delivered EXCEPT ![p.msg] = @ + 1]
        /\ handling' = <<p>> \o handling
        /\ handling = <<>>
        /\ UNCHANGED <<ring, cnt, isConnected, linkUp, toBroker, inflight, sent, brokerId, acked>>
    BY DEF HandleNew, brokerVars
  <1> HIDE DEF p
  <1>3. Len(handling) = 0 /\ Len(handling') = 1 /\ handling'[1] = p
    <2>1. Len(handling) = 0
      BY <1>2
    <2>2. handling \in Seq(Packet)
      BY DEF TypeOK
    <2> QED
      BY <2>1, <2>2, <1>1, <1>2, PushPoints
  <1>4. p = PacketOf(brokerId, sent, at + 1) /\ at + 1 <= sent
    BY <1>1, <1>3, <1>s DEF UnderWay
  <1>5. p.msg = at + 1 /\ p.id = IdOf(brokerId, sent, at + 1)
    BY <1>4 DEF PacketOf
  <1>6. at = high
    <2>1. at + 1 \in low + 1..sent
      BY <1>4, <1>s
    <2>2. ~(at + 1 <= high)
      BY <2>1, <1>2, <1>5, <1>s, RememberedIff
    <2> QED
      BY <2>2, <1>s
  <1>7. low' = low
    BY <1>2 DEF low
  <1>8. Numbers'
    BY <1>2, <1>7 DEF Numbers
  <1>9. Delivered(high)'
    <2>1. ASSUME NEW m \in Msgs
          PROVE  delivered'[m] = IF m <= high + Len(handling') THEN 1 ELSE 0
      <3>1. delivered[m] = (IF m <= high THEN 1 ELSE 0) /\ m \in Nat
        BY <1>3, <1>s, NumMsgsAssumption DEF Delivered, Msgs
      <3>2. delivered'[m] = IF m = high + 1 THEN delivered[m] + 1 ELSE delivered[m]
        <4>1. delivered' = [delivered EXCEPT ![high + 1] = @ + 1] /\ delivered \in [Msgs -> Nat]
          BY <1>2, <1>5, <1>6 DEF TypeOK
        <4> HIDE DEF Delivered
        <4> QED
          BY <4>1
      <3> QED
        BY <3>1, <3>2, <1>3, <1>s
    <2>2. \A k \in 1..Len(handling') : handling'[k] = PacketOf(brokerId', sent', high + 1)
      BY <1>2, <1>3, <1>4, <1>6
    <2>3. low' <= high /\ high + Len(handling') <= sent' /\ Len(handling') <= 1
      BY <1>2, <1>3, <1>4, <1>6, <1>7, <1>s
    <2>4. \A j \in 0..RingLen - 1 :
            ring'[Slot(cnt', j)] = IF high - j >= 1 THEN IdOf(brokerId', sent', high - j) ELSE 0
      BY <1>2, <1>s DEF Delivered
    <2> QED
      BY <2>1, <2>2, <2>3, <2>4 DEF Delivered
  <1>10. UnderWay(at)'
    <2>1. at + Len(handling') + Len(toClient') = at + Len(handling) + Len(toClient)
      BY <1>1, <1>3, <1>s
    <2>2. ASSUME NEW k \in 1..Len(toClient')
          PROVE  toClient'[k] = PacketOf(brokerId', sent', at + Len(handling') + k)
      <3>1. k + 1 \in 1..Len(toClient) /\ toClient'[k] = toClient[k + 1]
        BY <1>1, <1>s
      <3>2. toClient[k + 1] = PacketOf(brokerId, sent, at + Len(handling) + (k + 1))
        BY <3>1, <1>s DEF UnderWay
      <3>3. at + Len(handling) + (k + 1) = at + Len(handling') + k
        BY <1>3, <1>s
      <3> QED
        BY <3>1, <3>2, <3>3, <1>2
    <2>3. UNCHANGED <<low, sent, brokerId, linkUp, isConnected, toBroker>> /\ isConnected
      BY <1>2, <1>7
    <2> QED
      BY <2>1, <2>2, <2>3, <1>s DEF UnderWay
  <1>11. (Len(handling') = 1 => at = high) /\ high \in 0..sent'
    BY <1>2, <1>6
  <1> QED
    BY <1>8, <1>9, <1>10, <1>11 DEF At

(* A repeat is acknowledged: no callback is running then. *)
LEMMA RepeatKept ==
    ASSUME TypeOK, Numbers, HandleRepeat, ~disordered',
           NEW high \in 0..sent, NEW at \in 0..high, At(high, at)
    PROVE  Numbers' /\ high \in 0..sent' /\ \E a \in 0..high : At(high, a)'
  <1>s. /\ sent \in Nat /\ low \in Nat /\ high \in Nat /\ at \in Nat /\ low <= at /\ at <= high
        /\ Len(inflight) \in Nat /\ sent = low + Len(inflight)
        /\ Len(toClient) \in Nat /\ Len(toBroker) \in Nat /\ Len(handling) \in 0..1
        /\ Delivered(high) /\ UnderWay(at) /\ (Len(handling) = 1 => at = high)
        /\ at + Len(handling) + Len(toClient) <= sent
    BY HandlerSizes
  <1> DEFINE p == Head(toClient)
  <1>1. /\ p \in Packet /\ p = toClient[1] /\ Len(toClient) >= 1
        /\ Len(toClient') = Len(toClient) - 1
        /\ \A k \in 1..Len(toClient) - 1 : toClient'[k] = toClient[k + 1]
    BY TailPoints DEF HandleRepeat, TypeOK
  <1>2. /\ isConnected /\ Remembered(p.id) /\ Acknowledge(p)
        /\ UNCHANGED <<ring, cnt, delivered, handling, isConnected, linkUp, inflight, sent, brokerId, acked>>
    BY DEF HandleRepeat, clientVars, brokerVars
  <1> HIDE DEF p
  <1>3. p = PacketOf(brokerId, sent, at + Len(handling) + 1) /\ at + Len(handling) + 1 <= sent
    BY <1>1, <1>s DEF UnderWay
  <1>4. at + Len(handling) + 1 <= high
    <2>1. at + Len(handling) + 1 \in low + 1..sent
      BY <1>3, <1>s
    <2>2. p.id = IdOf(brokerId, sent, at + Len(handling) + 1)
      BY <1>3 DEF PacketOf
    <2> QED
      BY <2>1, <2>2, <1>2, <1>s, RememberedIff
  <1>5. Len(handling) = 0 /\ at + 1 <= high /\ p = PacketOf(brokerId, sent, at + 1) /\ at + 1 <= sent
    <2>1. Len(handling) = 0
      BY <1>4, <1>s
    <2>2. at + Len(handling) + 1 = at + 1
      BY <2>1, <1>s
    <2> QED
      BY <2>1, <2>2, <1>3, <1>4
  <1>6. /\ linkUp => /\ Len(toBroker') = at + 1 - low
                     /\ \A k \in 1..Len(toBroker') : toBroker'[k] = IdOf(brokerId, sent, low + k)
        /\ ~linkUp => toBroker' = <<>>
    BY <1>2, <1>5, AcknowledgeKept
  <1>7. low' = low
    BY <1>2 DEF low
  <1>8. Numbers' /\ Delivered(high)' /\ high \in 0..sent'
    BY <1>2, <1>7, <1>s DEF Numbers, Delivered
  <1>9. PICK a \in 0..high : a = at + 1
    BY <1>5, <1>s
  <1>10. UnderWay(a)'
    <2>0. Len(handling') = Len(handling) /\ Len(handling) \in Nat
      BY <1>2, <1>s
    <2>1. a + Len(handling') + Len(toClient') = at + Len(handling) + Len(toClient)
      BY SMTT(30), <2>0, <1>1, <1>9, <1>s
    <2>2. ASSUME NEW k \in 1..Len(toClient')
          PROVE  toClient'[k] = PacketOf(brokerId', sent', a + Len(handling') + k)
      <3>0. k \in 1..Len(toClient) - 1
        BY <1>1
      <3>a. k + 1 \in 1..Len(toClient)
        BY <3>0, <1>s
      <3>b. toClient'[k] = toClient[k + 1]
        BY <3>0, <1>1
      <3>1. k + 1 \in 1..Len(toClient) /\ toClient'[k] = toClient[k + 1]
        BY <3>a, <3>b
      <3>2. toClient[k + 1] = PacketOf(brokerId, sent, at + Len(handling) + (k + 1))
        BY <3>1, <1>s DEF UnderWay
      <3>3. at + Len(handling) + (k + 1) = a + Len(handling') + k
        BY <1>2, <1>9, <1>s
      <3> QED
        BY <3>1, <3>2, <3>3, <1>2
    <2>3. UNCHANGED <<low, sent, brokerId, linkUp, isConnected, handling>> /\ isConnected /\ low <= a
      BY <1>2, <1>7, <1>9, <1>s
    <2>4. linkUp => Len(toBroker') = a - low /\ at + Len(handling) + Len(toClient) = sent
      BY <1>6, <1>9, <1>s DEF UnderWay
    <2> QED
      BY <2>1, <2>2, <2>3, <2>4, <1>6, <1>s DEF UnderWay
  <1>11. Len(handling') # 1
    BY <1>2, <1>5
  <1> QED
    BY <1>8, <1>10, <1>11 DEF At

(* The callback returns: its id is put in the ring and acknowledged. *)
LEMMA ReturnKept ==
    ASSUME TypeOK, Numbers, Return, ~disordered',
           NEW high \in 0..sent, NEW at \in 0..high, At(high, at)
    PROVE  Numbers' /\ \E h \in 0..sent' : \E a \in 0..h : At(h, a)'
  <1>s. /\ sent \in Nat /\ low \in Nat /\ high \in Nat /\ at \in Nat /\ low <= at /\ at <= high
        /\ RingLen \in Nat /\ RingLen >= 1
        /\ Len(inflight) \in Nat /\ sent = low + Len(inflight) /\ Len(inflight) < BrokerIds /\ BrokerIds \in Nat
        /\ Len(toClient) \in Nat /\ Len(toBroker) \in Nat /\ Len(handling) \in 0..1
        /\ high + Len(handling) <= sent
        /\ Delivered(high) /\ UnderWay(at) /\ (Len(handling) = 1 => at = high)
        /\ at + Len(handling) + Len(toClient) <= sent
    BY HandlerSizes
  <1> DEFINE p == Head(handling)
  <1>1. /\ p \in Packet /\ p = handling[1] /\ Len(handling) >= 1 /\ Len(handling') = Len(handling) - 1
    BY TailPoints DEF Return, TypeOK
  <1>2. /\ Remember(p.id) /\ Acknowledge(p)
        /\ UNCHANGED <<delivered, toClient, isConnected, linkUp, inflight, sent, brokerId, acked>>
    BY DEF Return, brokerVars
  <1> HIDE DEF p
  <1>3. Len(handling) = 1 /\ Len(handling') = 0 /\ at = high /\ high + 1 <= sent
    BY <1>1, <1>s
  <1>4. p = PacketOf(brokerId, sent, high + 1)
    BY <1>1, <1>3, <1>s DEF Delivered
  <1> DEFINE id == IdOf(brokerId, sent, high + 1)
  <1>5. p.id = id
    BY <1>4 DEF PacketOf
  <1>6. ~Remembered(id)
    <2>1. high + 1 \in low + 1..sent /\ ~(high + 1 <= high)
      BY <1>3, <1>s
    <2> QED
      BY <2>1, <1>s, RememberedIff
  <1>7. id \in Ids
    <2>1. Recent(sent, high + 1) /\ high + 1 \in Int
      BY <1>3, <1>s DEF Recent
    <2> QED
      BY <2>1, RecentIds
  <1>8. Remember(id)
    <2> HIDE DEF id
    <2> QED
      BY <1>2, <1>5
  <1> HIDE DEF id
  <1>9. /\ linkUp => /\ Len(toBroker') = high + 1 - low
                     /\ \A k \in 1..Len(toBroker') : toBroker'[k] = IdOf(brokerId, sent, low + k)
        /\ ~linkUp => toBroker' = <<>>
    BY <1>2, <1>3, <1>4, AcknowledgeKept
  <1>10. low' = low
    BY <1>2 DEF low
  <1>11. Numbers'
    BY <1>2, <1>10 DEF Numbers
  <1>12. PICK h \in Nat : h = high + 1
    BY <1>s
  <1>13. Delivered(h)'
    <2>1. /\ ring' = [ring EXCEPT ![cnt] = id]
          /\ cnt' = IF cnt + 1 >= RingLen THEN (cnt + 1) % RingLen ELSE cnt + 1
      BY <1>6, <1>8 DEF Remember
    <2>2. cnt \in 0..RingLen - 1 /\ ring \in [0..RingLen - 1 -> 0..BrokerIds]
      BY DEF TypeOK
    <2>3. cnt' = IF cnt = RingLen - 1 THEN 0 ELSE cnt + 1
      <3>1. CASE cnt = RingLen - 1
        BY <3>1, <2>1, <1>s, WrapIsZero
      <3>2. CASE cnt # RingLen - 1
        BY <3>2, <2>1, <2>2, <1>s
      <3> QED
        BY <3>1, <3>2
    <2>4. /\ Slot(cnt', 0) = cnt
          /\ \A j \in 1..RingLen - 1 : Slot(cnt', j) = Slot(cnt, j - 1) /\ Slot(cnt', j) # cnt
      BY <2>2, <2>3, <1>s DEF Slot
    <2>5. ASSUME NEW j \in 0..RingLen - 1
          PROVE  ring'[Slot(cnt', j)] = IF h - j >= 1 THEN IdOf(brokerId, sent, h - j) ELSE 0
      <3>1. CASE j = 0
        <4>1. ring'[cnt] = id /\ h - j = high + 1 /\ h - j >= 1
          BY <3>1, <2>1, <2>2, <1>12, <1>s
        <4> QED
          BY <4>1, <3>1, <2>4 DEF id
      <3>2. CASE j # 0
        <4>1. j \in 1..RingLen - 1 /\ j - 1 \in 0..RingLen - 1 /\ high - (j - 1) = h - j
          BY <3>2, <1>12, <1>s
        <4>2. ring[Slot(cnt, j - 1)] = IF high - (j - 1) >= 1 THEN IdOf(brokerId, sent, high - (j - 1)) ELSE 0
          BY <4>1, <1>s DEF Delivered
        <4>3. Slot(cnt, j - 1) \in 0..RingLen - 1 /\ Slot(cnt', j) = Slot(cnt, j - 1) /\ Slot(cnt', j) # cnt
          BY <4>1, <2>2, <2>4, Slots
        <4>4. ring'[Slot(cnt', j)] = ring[Slot(cnt, j - 1)]
          BY <4>3, <2>1, <2>2
        <4> QED
          BY <4>1, <4>2, <4>4
      <3> QED
        BY <3>1, <3>2
    <2>6. \A m \in Msgs : delivered'[m] = IF m <= h + Len(handling') THEN 1 ELSE 0
      <3>1. h + Len(handling') = high + Len(handling)
        BY <1>3, <1>12, <1>s
      <3> QED
        BY <3>1, <1>2, <1>s DEF Delivered
    <2>7. low' <= h /\ h + Len(handling') <= sent' /\ Len(handling') <= 1
      BY <1>2, <1>3, <1>10, <1>12, <1>s
    <2>8. \A k \in 1..Len(handling') : handling'[k] = PacketOf(brokerId', sent', h + 1)
      BY <1>3
    <2>9. sent' = sent /\ brokerId' = brokerId
      BY <1>2
    <2> QED
      BY <2>5, <2>6, <2>7, <2>8, <2>9 DEF Delivered
  <1>14. UnderWay(h)'
    <2>1. h + Len(handling') = at + Len(handling)
      BY <1>3, <1>12, <1>s
    <2>2. UNCHANGED <<low, sent, brokerId, linkUp, isConnected, toClient>> /\ low <= h
      BY <1>2, <1>10, <1>12, <1>s
    <2>3. linkUp => Len(toBroker') = h - low
      BY <1>9, <1>12, <1>s
    <2>4. \A k \in 1..Len(toClient') : toClient'[k] = PacketOf(brokerId', sent', h + Len(handling') + k)
      BY <2>1, <2>2, <1>s DEF UnderWay
    <2> QED
      BY <2>1, <2>2, <2>3, <2>4, <1>9, <1>s DEF UnderWay
  <1>15. h \in 0..sent' /\ h \in 0..h /\ Len(handling') # 1
    BY <1>2, <1>3, <1>12, <1>s
  <1> QED
    BY <1>11, <1>13, <1>14, <1>15 DEF At

(* The link breaks, is noticed, and is made anew. *)
LEMMA LinkKept ==
    ASSUME TypeOK, Numbers, CleanSession = FALSE, LinkBreaks \/ Disconnect \/ Reconnect, ~disordered',
           NEW high \in 0..sent, NEW at \in 0..high, At(high, at)
    PROVE  Numbers' /\ high \in 0..sent' /\ \E a \in 0..high : At(high, a)'
  <1>s. /\ sent \in Nat /\ low \in Nat
        /\ Len(inflight) \in Nat /\ sent = low + Len(inflight)
        /\ Len(toClient) \in Nat /\ Len(toBroker) \in Nat /\ high \in Nat /\ at \in Nat
        /\ Len(handling) \in 0..1 /\ (Len(handling) = 1 => at = high)
        /\ low <= at /\ at + Len(handling) + Len(toClient) <= sent
        /\ Delivered(high) /\ UnderWay(at)
    BY HandlerSizes
  <1>1. UNCHANGED <<ring, cnt, delivered, handling, inflight, sent, brokerId, acked>> /\ low' = low
    <2>1. UNCHANGED <<ring, cnt, delivered, handling, inflight, sent, brokerId, acked>>
      BY DEF LinkBreaks, Disconnect, Reconnect, clientVars, brokerVars
    <2> QED
      BY <2>1 DEF low
  <1>2. Numbers'
    BY <1>1 DEF Numbers
  <1>3. Delivered(high)' /\ high \in 0..sent'
    BY <1>1, <1>s DEF Delivered
  <1>4. low <= at /\ at + Len(handling) + Len(toClient) <= sent
    BY <1>s
  <1>5. CASE LinkBreaks
    <2>1. PICK n \in 0..Len(toClient) : toClient' = SubSeq(toClient, 1, n)
      BY <1>5 DEF LinkBreaks
    <2>2. toClient \in Seq(Packet)
      BY DEF TypeOK
    <2>3. Len(toClient') = n /\ \A k \in 1..n : toClient'[k] = toClient[k]
      BY <2>1, <2>2, PrefixPoints
    <2>4. \A k \in 1..n : toClient'[k] = PacketOf(brokerId, sent, at + Len(handling) + k)
      <3>1. \A k \in 1..n : k \in 1..Len(toClient)
        BY <1>s
      <3> QED
        BY <3>1, <2>3, <1>s DEF UnderWay
    <2>5. at + Len(handling) + Len(toClient') <= sent
      BY <2>3, <1>4, <1>s
    <2>6. isConnected /\ isConnected' /\ ~linkUp' /\ toBroker' = <<>>
      <3>1. linkUp /\ isConnected' = isConnected /\ ~linkUp' /\ toBroker' = <<>>
        BY <1>5 DEF LinkBreaks
      <3> QED
        BY <3>1, <1>s DEF UnderWay
    <2>7. UnderWay(at)'
      BY <1>1, <1>4, <2>3, <2>4, <2>5, <2>6 DEF UnderWay
    <2> QED
      BY <1>1, <1>2, <1>3, <1>s, <2>7 DEF At
  <1>6. CASE Disconnect
    <2>1. Len(toClient') = 0 /\ toClient' = <<>>
      BY <1>6 DEF Disconnect
    <2>2. ~linkUp' /\ toBroker' = <<>>
      <3>1. ~linkUp /\ linkUp' = linkUp /\ toBroker' = toBroker
        BY <1>6 DEF Disconnect
      <3> QED
        BY <3>1, <1>s DEF UnderWay
    <2>3. at + Len(handling) + Len(toClient') <= sent
      BY <2>1, <1>4, <1>s
    <2>4. UnderWay(at)'
      BY <1>1, <1>4, <2>1, <2>2, <2>3 DEF UnderWay
    <2> QED
      BY <1>1, <1>2, <1>3, <1>s, <2>4 DEF At
  <1>7. CASE Reconnect
    <2>1. ~isConnected /\ isConnected' /\ linkUp' /\ toClient' = inflight /\ toBroker' = toBroker
      BY <1>7 DEF Reconnect
    <2>2. toBroker = <<>>
      BY <2>1, <1>s DEF UnderWay
    <2>3. Len(toBroker') = 0
      BY <2>1, <2>2
    <2>9. Len(handling) = 0 /\ Len(handling') = 0
      <3>1. handling = <<>>
        BY <1>7 DEF Reconnect
      <3> QED
        BY <3>1, <1>1
    <2>4. \A k \in 1..Len(toClient') : toClient'[k] = PacketOf(brokerId', sent', low + k)
      BY <1>1, <2>1 DEF Numbers
    <2>5. low + Len(toClient') = sent' /\ Len(toBroker') = low - low'
      BY <1>1, <2>1, <2>3, <1>s
    <2>6. low + Len(toClient') <= sent' /\ low' <= low
      <3>1. sent' = sent /\ low' = low
        BY <1>1
      <3> QED
        BY <3>1, <2>5, <1>s
    <2>7. UnderWay(low)'
      <3>1. PICK n \in Nat : n = low
        BY <1>s
      <3>2. n + Len(handling') = n
        BY <2>9
      <3>3. UnderWay(n)'
        <4>1. n + Len(handling') + Len(toClient') = sent' /\ low' <= n /\ Len(toBroker') = n - low'
          BY <2>5, <2>6, <3>1, <3>2
        <4>2. \A k \in 1..Len(toClient') : toClient'[k] = PacketOf(brokerId', sent', n + Len(handling') + k)
          BY <2>4, <3>1, <3>2
        <4>3. n + Len(handling') + Len(toClient') <= sent'
          BY <4>1, <1>1, <1>s
        <4> QED
          BY <4>1, <4>2, <4>3, <2>1, <2>3 DEF UnderWay
      <3> QED
        BY <3>1, <3>3, <1>1
    <2>8. low \in 0..high
      BY <1>4, <1>s
    <2> QED
      BY <1>1, <1>2, <1>3, <2>7, <2>8, <2>9 DEF At
  <1> QED
    BY <1>5, <1>6, <1>7

(* What is out of order stays so. *)
LEMMA OrderIsLost == TypeOK /\ [Next]_vars /\ ~disordered' => ~disordered
  BY DEF TypeOK, Next, BrokerSend, BrokerPubAck, HandleNew, HandleRepeat, Return, Acknowledge,
         LinkBreaks, Disconnect, Reconnect, histVars, vars

LEMMA NextInOrder ==
    ASSUME CleanSession = FALSE, TypeOK, InOrder, [Next]_vars, ~disordered'
    PROVE  InOrder'
  <1>0. Numbers /\ ~disordered
    BY OrderIsLost DEF InOrder
  <1>a. PICK high \in 0..sent : \E at \in 0..high : At(high, at)
    BY DEF InOrder
  <1>b. PICK at \in 0..high : At(high, at)
    BY <1>a
  <1>1. CASE BrokerSend
    <2>1. PICK id \in Ids : Sends(id)
      BY <1>1, SendsSome
    <2>2. Sends(NextBrokerId)
      BY <2>1, <1>0 DEF Sends, MaySendAs
    <2> QED
      BY <1>0, <1>b, <2>2, SendKept DEF InOrder
  <1>2. CASE BrokerPubAck
    BY <1>0, <1>b, <1>2, AckKept DEF InOrder
  <1>3. CASE HandleNew
    BY <1>0, <1>b, <1>3, NewKept DEF InOrder
  <1>4. CASE HandleRepeat
    BY <1>0, <1>b, <1>4, RepeatKept DEF InOrder
  <1>5. CASE Return
    BY <1>0, <1>b, <1>5, ReturnKept DEF InOrder
  <1>6. CASE LinkBreaks \/ Disconnect \/ Reconnect
    BY <1>0, <1>b, <1>6, LinkKept DEF InOrder
  <1>7. CASE UNCHANGED vars
    <2>1. Numbers' /\ At(high, at)' /\ sent' = sent
      BY <1>0, <1>b, <1>7 DEF vars, Numbers, At, Delivered, UnderWay, low
    <2> QED
      BY <2>1 DEF InOrder
  <1> QED
    BY <1>1, <1>2, <1>3, <1>4, <1>5, <1>6, <1>7 DEF Next

(* The next id in turn is not one of the last BrokerIds - 1. *)
LEMMA NextIsAnother ==
    ASSUME TypeOK, Numbers, NEW m \in Int, Recent(sent, m), sent - m <= BrokerIds - 2
    PROVE  NextBrokerId # IdOf(brokerId, sent, m)
  <1>1. /\ sent \in Nat /\ brokerId \in Nat /\ brokerId <= BrokerIds /\ BrokerIds \in Nat
        /\ brokerId = sent \/ (sent >= BrokerIds /\ brokerId >= 1)
    BY NumMsgsAssumption, BrokerIdsAssumption DEF TypeOK, Numbers
  <1>2. sent - m >= 0 /\ m >= 1
    BY <1>1 DEF Recent
  <1>3. CASE brokerId = BrokerIds
    BY <1>1, <1>2, <1>3 DEF IdOf, NextBrokerId
  <1>4. CASE brokerId # BrokerIds
    BY <1>1, <1>2, <1>4 DEF IdOf, NextBrokerId
  <1> QED
    BY <1>3, <1>4

(* As long as all is in order, nobody holds the next id in turn any more:  *)
(* the id space is large enough for the ring and the window.               *)
LEMMA NextIsFresh ==
    ASSUME TypeOK, InOrder, ~disordered, NEW id \in Ids, Sends(id)
    PROVE  Fresh(id)
  <1>0. Numbers /\ linkUp /\ Len(inflight) < Window
    BY DEF InOrder, Sends
  <1>a. PICK high \in 0..sent : \E at \in 0..high : At(high, at)
    BY DEF InOrder
  <1>b. PICK at \in 0..high : At(high, at)
    BY <1>a
  <1>s. /\ sent \in Nat /\ low \in Nat /\ high \in Nat /\ at \in Nat /\ low <= at /\ at <= high
        /\ RingLen \in Nat /\ RingLen >= 1 /\ Window \in Nat
        /\ BrokerIds \in Nat /\ BrokerIds >= RingLen + Window
        /\ Len(inflight) \in Nat /\ sent = low + Len(inflight)
        /\ Len(toClient) \in Nat /\ Len(toBroker) \in Nat /\ Len(handling) \in 0..1
        /\ high + Len(handling) <= sent
        /\ at + Len(handling) + Len(toClient) <= sent
        /\ Delivered(high) /\ UnderWay(at)
    BY <1>0, <1>b, HandlerSizes
  <1>1. id = NextBrokerId /\ id # 0 /\ \A k \in DOMAIN inflight : inflight[k].id # id
    BY BrokerIdsAssumption DEF Sends, MaySendAs, Ids
  <1>2. \A m \in Int : m >= 1 /\ m <= sent /\ sent - m <= BrokerIds - 2 => IdOf(brokerId, sent, m) # id
    <2>1. \A m \in Int : m >= 1 /\ m <= sent /\ sent - m <= BrokerIds - 2 => Recent(sent, m)
      BY <1>s DEF Recent
    <2> QED
      BY <2>1, <1>0, <1>1, NextIsAnother
  <1>3. \A m \in low + 1..sent : IdOf(brokerId, sent, m) # id
    <2>1. \A m \in low + 1..sent : m \in Int /\ m >= 1 /\ m <= sent /\ sent - m <= BrokerIds - 2
      BY <1>0, <1>s
    <2> QED
      BY <2>1, <1>2
  <1>4. ~Remembered(id)
    <2>1. ASSUME NEW k \in 0..RingLen - 1 PROVE ring[k] # id
      <3>1. PICK j \in 0..RingLen - 1 : Slot(cnt, j) = k
        BY Slots DEF TypeOK
      <3>2. ring[k] = IF high - j >= 1 THEN IdOf(brokerId, sent, high - j) ELSE 0
        BY <3>1, <1>s DEF Delivered
      <3>3. high - j \in Int /\ high - j <= sent /\ sent - (high - j) <= BrokerIds - 2
        BY <1>0, <1>s
      <3> QED
        BY <3>2, <3>3, <1>1, <1>2
    <2> QED
      BY <2>1 DEF Remembered
  <1>5. \A k \in DOMAIN handling : handling[k].id # id
    <2>1. ASSUME NEW k \in 1..Len(handling) PROVE handling[k].id # id
      <3>1. handling[k] = PacketOf(brokerId, sent, high + 1)
        BY <1>s DEF Delivered
      <3>2. high + 1 \in low + 1..sent
        BY <1>s
      <3> QED
        BY <3>1, <3>2, <1>3 DEF PacketOf
    <2>2. DOMAIN handling = 1..Len(handling)
      BY DEF TypeOK
    <2> QED
      BY <2>1, <2>2
  <1>6. \A k \in DOMAIN toClient : toClient[k].id # id
    <2>1. ASSUME NEW k \in 1..Len(toClient) PROVE toClient[k].id # id
      <3>1. toClient[k] = PacketOf(brokerId, sent, at + Len(handling) + k)
        BY <1>s DEF UnderWay
      <3>2. at + Len(handling) + k \in low + 1..sent
        BY <1>s
      <3> QED
        BY <3>1, <3>2, <1>3 DEF PacketOf
    <2>2. DOMAIN toClient = 1..Len(toClient)
      BY DEF TypeOK
    <2> QED
      BY <2>1, <2>2
  <1>7. \A k \in DOMAIN toBroker : toBroker[k] # id
    <2>1. ASSUME NEW k \in 1..Len(toBroker) PROVE toBroker[k] # id
      <3>1. toBroker[k] = IdOf(brokerId, sent, low + k) /\ Len(toBroker) = at - low
        BY <1>0, <1>s DEF UnderWay
      <3>2. low + k \in low + 1..sent
        BY <3>1, <1>s
      <3> QED
        BY <3>1, <3>2, <1>3
    <2>2. DOMAIN toBroker = 1..Len(toBroker)
      BY DEF TypeOK
    <2> QED
      BY <2>1, <2>2
  <1> QED
    BY <1>1, <1>4, <1>5, <1>6, <1>7 DEF Fresh

----------------------------------------------------------------------------
(* A session that is kept, whatever the callbacks do. *)

LEMMA InitGeneral == Init => General
  <1> SUFFICES ASSUME Init PROVE General
    OBVIOUS
  <1>1. Len(inflight) = 0 /\ Len(toClient) = 0 /\ sent = 0 /\ acked = {}
    BY DEF Init
  <1>2. \A m \in Msgs : delivered[m] = 0 /\ ~(m <= 0)
    BY DEF Init, Msgs
  <1>3. Broker
    BY <1>1 DEF Broker, Rising
  <1>4. UpTo(0)
    BY <1>1, <1>2 DEF UpTo
  <1>5. Ahead(0)
    BY <1>1 DEF Ahead, Rising
  <1>6. 0 \in 0..sent
    BY <1>1
  <1> QED
    BY <1>3, <1>4, <1>5, <1>6 DEF General

(* The numbers that the lemmas below count with. *)
LEMMA GeneralSizes ==
    ASSUME TypeOK, Broker, NEW top \in 0..sent, Ahead(top)
    PROVE  /\ sent \in Nat /\ top \in Nat /\ top <= sent /\ Msgs \subseteq Nat
           /\ Len(inflight) \in Nat /\ Len(toClient) \in Nat /\ Len(handling) \in Nat /\ Len(toBroker) \in Nat
           /\ \A k \in 1..Len(inflight) : /\ inflight[k] \in Packet /\ inflight[k].msg \in Msgs
                                          /\ inflight[k].msg \in Nat /\ inflight[k].msg <= sent
           /\ \A k \in 1..Len(toClient) : /\ toClient[k] \in Packet /\ toClient[k].msg \in Msgs
                                          /\ toClient[k].msg \in Nat /\ toClient[k].msg <= sent
  <1>1. sent \in Nat /\ top \in Nat /\ top <= sent /\ Msgs \subseteq Nat
    BY Numeric
  <1>2. Len(inflight) \in Nat /\ Len(toClient) \in Nat /\ Len(handling) \in Nat /\ Len(toBroker) \in Nat
    BY Numeric
  <1>3. /\ \A k \in 1..Len(inflight) : inflight[k] \in Packet
        /\ \A k \in 1..Len(toClient) : toClient[k] \in Packet
    BY DEF TypeOK
  <1>4. \A p \in Packet : p.msg \in Msgs /\ p.msg \in Nat
    BY <1>1 DEF Packet
  <1>5. \A k \in 1..Len(inflight) : inflight[k].msg <= sent
    BY DEF Broker
  <1>6. ASSUME NEW k \in 1..Len(toClient) PROVE toClient[k].msg <= sent
    <2>1. toClient[k].msg \in Nat
      BY <1>3, <1>4
    <2>2. CASE toClient[k].msg > top
      <3>1. PICK l \in 1..Len(inflight) : inflight[l] = toClient[k]
        BY <2>2 DEF Ahead
      <3> QED
        BY <3>1, <1>5
    <2>3. CASE ~(toClient[k].msg > top)
      BY <2>1, <2>3, <1>1
    <2> QED
      BY <2>2, <2>3
  <1> QED
    BY <1>1, <1>2, <1>3, <1>4, <1>5, <1>6

(* A message that is sent gets an id that nobody holds. *)
LEMMA SendGeneral ==
    ASSUME TypeOK, Broker, NEW top \in 0..sent, UpTo(top), Ahead(top),
           NEW id \in Ids, Sends(id), Fresh(id)
    PROVE  Broker' /\ top \in 0..sent' /\ UpTo(top)' /\ Ahead(top)'
  <1> DEFINE p == [msg |-> sent + 1, id |-> id]
             n == Len(inflight)
             c == Len(toClient)
  <1>s. /\ sent \in Nat /\ top \in Nat /\ top <= sent /\ n \in Nat /\ c \in Nat
        /\ \A k \in 1..n : inflight[k].msg \in Nat /\ inflight[k].msg <= sent
        /\ \A k \in 1..c : toClient[k].msg \in Nat /\ toClient[k].msg <= sent
    BY GeneralSizes
  <1>0. p \in Packet /\ p.msg = sent + 1 /\ p.id = id
    BY NumMsgsAssumption DEF Sends, Packet, Msgs, TypeOK
  <1>1. /\ linkUp /\ linkUp' = linkUp /\ sent' = sent + 1
        /\ UNCHANGED <<ring, cnt, delivered, handling, toBroker, acked>>
        /\ inflight' = Append(inflight, p) /\ toClient' = Append(toClient, p)
    BY DEF Sends, clientVars
  <1>2. /\ \A k \in 1..Len(handling) : handling[k].id # id
        /\ \A k \in 1..c : toClient[k].id # id
        /\ \A k \in 1..n : inflight[k].id # id
        /\ \A k \in 1..Len(toBroker) : toBroker[k] # id
        /\ ~Remembered(id)
    BY DEF Fresh, TypeOK
  <1> HIDE DEF p
  <1>3. /\ Len(inflight') = n + 1
        /\ \A k \in 1..n + 1 : inflight'[k] = IF k <= n THEN inflight[k] ELSE p
        /\ Len(toClient') = c + 1
        /\ \A k \in 1..c + 1 : toClient'[k] = IF k <= c THEN toClient[k] ELSE p
    BY <1>0, <1>1, AppendPoints DEF TypeOK
  <1> HIDE DEF n, c
  <1>4. /\ \A k \in 1..n : k \in 1..n + 1 /\ inflight'[k] = inflight[k]
        /\ inflight'[n + 1] = p
        /\ \A k \in 1..n + 1 : k \in 1..n \/ k = n + 1
    BY <1>3, <1>s
  <1>5. /\ \A k \in 1..c : k \in 1..c + 1 /\ toClient'[k] = toClient[k]
        /\ toClient'[c + 1] = p
        /\ \A k \in 1..c + 1 : k \in 1..c \/ k = c + 1
    BY <1>3, <1>s
  <1>6. Rising(inflight)'
    <2>1. ASSUME NEW k \in 1..n + 1, NEW l \in 1..n + 1, k < l
          PROVE  inflight'[k].msg < inflight'[l].msg
      <3>1. k \in 1..n
        BY <2>1, <1>s
      <3>2. CASE l \in 1..n
        BY <2>1, <3>1, <3>2, <1>4 DEF Broker, Rising, n
      <3>3. CASE l = n + 1
        <4>1. inflight[k].msg < sent + 1
          BY <3>1, <1>s
        <4> QED
          BY <3>1, <3>3, <4>1, <1>0, <1>4
      <3> QED
        BY <3>2, <3>3, <1>4
    <2> QED
      BY <2>1, <1>3 DEF Rising
  <1>7. ASSUME NEW k \in 1..n + 1, NEW l \in 1..n + 1, inflight'[k].id = inflight'[l].id
        PROVE  k = l
    <2>1. CASE k \in 1..n /\ l \in 1..n
      BY <2>1, <1>7, <1>4 DEF Broker, n
    <2>2. CASE k \in 1..n /\ l = n + 1
      BY <2>2, <1>7, <1>4, <1>0, <1>2 DEF n
    <2>3. CASE k = n + 1 /\ l \in 1..n
      BY <2>3, <1>7, <1>4, <1>0, <1>2 DEF n
    <2> QED
      BY <2>1, <2>2, <2>3, <1>4
  <1>8. \A k \in 1..n + 1 : inflight'[k].msg <= sent + 1
    <2>1. \A k \in 1..n : inflight[k].msg <= sent + 1
      BY <1>s
    <2> QED
      BY <2>1, <1>0, <1>4, <1>s
  <1>9. ASSUME NEW m \in 1..sent + 1
        PROVE  m \in acked \/ \E k \in 1..n + 1 : inflight'[k].msg = m
    <2>1. CASE m = sent + 1
      <3>1. n + 1 \in 1..n + 1
        BY <1>s
      <3> QED
        BY <3>1, <2>1, <1>0, <1>4
    <2>2. CASE m \in 1..sent
      <3>1. m \in acked \/ \E k \in 1..n : inflight[k].msg = m
        BY <2>2 DEF Broker, n
      <3> QED
        BY <3>1, <1>4
    <2> QED
      BY <2>1, <2>2, <1>s
  <1>10. Broker'
    BY <1>1, <1>3, <1>6, <1>7, <1>8, <1>9 DEF Broker
  <1>11. ASSUME NEW q, \A k \in 1..Len(toClient') : toClient'[k].id = q.id => toClient'[k].msg = q.msg,
                ~Remembered(q.id),
                \A k \in 1..Len(handling) : handling[k].id # q.id,
                \A k \in 1..Len(toBroker) : toBroker[k] # q.id
         PROVE  Unheld(q)'
    BY <1>1, <1>11 DEF Unheld, Remembered
  <1>12. ASSUME NEW k \in 1..n + 1, inflight'[k].msg > top
         PROVE  Unheld(inflight[k])'
    <2>0. PICK q : q = inflight'[k]
      OBVIOUS
    <2>1. CASE k \in 1..n
      <3>1. inflight'[k] = inflight[k] /\ Unheld(inflight[k])
        BY <2>1, <1>4, <1>12 DEF UpTo, n
      <3>2. inflight[k].id # id
        BY <2>1, <1>2 DEF n
      <3>3. \A l \in 1..c + 1 : toClient'[l].id = inflight[k].id => toClient'[l].msg = inflight[k].msg
        BY <3>1, <3>2, <1>0, <1>5 DEF Unheld, c
      <3>4. q = inflight[k] /\ Unheld(q)
        BY <2>0, <3>1
      <3>5. \A l \in 1..Len(toClient') : toClient'[l].id = q.id => toClient'[l].msg = q.msg
        BY <3>3, <3>4, <1>3
      <3>6. /\ ~Remembered(q.id)
            /\ \A l \in 1..Len(handling) : handling[l].id # q.id
            /\ \A l \in 1..Len(toBroker) : toBroker[l] # q.id
        BY <3>4 DEF Unheld
      <3>7. Unheld(q)'
        BY <3>5, <3>6, <1>11
      <3> QED
        BY <2>0, <3>7 DEF Unheld
    <2>2. CASE k = n + 1
      <3>1. inflight'[k] = p
        BY <2>2, <1>4
      <3>2. \A l \in 1..c + 1 : toClient'[l].id = id => toClient'[l].msg = p.msg
        BY <1>2, <1>5 DEF c
      <3>3. /\ ~Remembered(p.id)
            /\ \A l \in 1..Len(handling) : handling[l].id # p.id
            /\ \A l \in 1..Len(toBroker) : toBroker[l] # p.id
        BY <1>0, <1>2
      <3>4. q.id = id /\ q = p
        BY <2>0, <3>1, <1>0
      <3>5. Unheld(q)'
        BY <3>2, <3>3, <3>4, <1>3, <1>11
      <3> QED
        BY <2>0, <3>5 DEF Unheld
    <2> QED
      BY <2>1, <2>2, <1>4
  <1>13. UpTo(top)'
    BY <1>1, <1>3, <1>12 DEF UpTo
  <1>14. Rising(toClient)'
    <2>1. ASSUME NEW k \in 1..c + 1, NEW l \in 1..c + 1, k < l
          PROVE  toClient'[k].msg < toClient'[l].msg
      <3>1. k \in 1..c
        BY <2>1, <1>s
      <3>2. CASE l \in 1..c
        BY <2>1, <3>1, <3>2, <1>5 DEF Ahead, Rising, c
      <3>3. CASE l = c + 1
        <4>1. toClient[k].msg < sent + 1
          BY <3>1, <1>s
        <4> QED
          BY <3>1, <3>3, <4>1, <1>0, <1>5
      <3> QED
        BY <3>2, <3>3, <1>5
    <2> QED
      BY <2>1, <1>3 DEF Rising
  <1>15. ASSUME NEW k \in 1..c + 1, toClient'[k].msg > top
         PROVE  \E l \in 1..n + 1 : inflight'[l] = toClient'[k]
    <2>1. CASE k \in 1..c
      <3>1. PICK l \in 1..n : inflight[l] = toClient[k]
        BY <2>1, <1>5, <1>15 DEF Ahead, c, n
      <3> QED
        BY <3>1, <2>1, <1>4, <1>5
    <2>2. CASE k = c + 1
      <3>1. n + 1 \in 1..n + 1
        BY <1>s
      <3> QED
        BY <3>1, <2>2, <1>4, <1>5
    <2> QED
      BY <2>1, <2>2, <1>5
  <1>16. ASSUME NEW m \in top + 1..sent + 1
         PROVE  \E l \in 1..c + 1 : toClient'[l].msg = m
    <2>1. CASE m = sent + 1
      <3>1. c + 1 \in 1..c + 1
        BY <1>s
      <3> QED
        BY <3>1, <2>1, <1>0, <1>5
    <2>2. CASE m \in top + 1..sent
      <3>1. PICK l \in 1..c : toClient[l].msg = m
        BY <2>2, <1>1 DEF Ahead, c
      <3> QED
        BY <3>1, <1>5
    <2> QED
      BY <2>1, <2>2, <1>s
  <1>17. Ahead(top)'
    BY <1>1, <1>3, <1>14, <1>15, <1>16 DEF Ahead
  <1>18. top \in 0..sent'
    BY <1>1, <1>s
  <1> QED
    BY <1>10, <1>13, <1>17, <1>18

(* An acknowledgement takes away a message that was delivered. *)
LEMMA AckGeneral ==
    ASSUME TypeOK, Broker, NEW top \in 0..sent, UpTo(top), Ahead(top), BrokerPubAck
    PROVE  Broker' /\ top \in 0..sent' /\ UpTo(top)' /\ Ahead(top)'
  <1> DEFINE n == Len(inflight)
             Acked == {k \in DOMAIN inflight : inflight[k].id = Head(toBroker)}
  <1>s. /\ sent \in Nat /\ top \in Nat /\ top <= sent /\ n \in Nat
        /\ \A k \in 1..n : inflight[k].msg \in Nat /\ inflight[k].msg <= sent
    BY GeneralSizes
  <1>1. /\ Head(toBroker) = toBroker[1] /\ Len(toBroker) \in Nat /\ Len(toBroker) >= 1
        /\ Len(toBroker') = Len(toBroker) - 1
        /\ \A k \in 1..Len(toBroker) - 1 : toBroker'[k] = toBroker[k + 1]
    BY TailPoints DEF BrokerPubAck, TypeOK
  <1>2. /\ inflight' = IF Acked = {} THEN inflight ELSE RemoveAt(inflight, CHOOSE k \in Acked : TRUE)
        /\ acked' = acked \cup {inflight[k].msg : k \in Acked}
        /\ UNCHANGED <<ring, cnt, delivered, handling, linkUp, toClient, sent>>
    BY DEF BrokerPubAck, clientVars
  <1>3. DOMAIN inflight = 1..n
    BY DEF TypeOK
  <1>4. ASSUME NEW k \in 1..n, inflight[k].id = Head(toBroker) PROVE inflight[k].msg <= top
    <2>1. 1 \in 1..Len(toBroker)
      BY <1>1
    <2>2. ~Unheld(inflight[k])
      BY <2>1, <1>1, <1>4 DEF Unheld
    <2> QED
      BY <2>2, <1>s DEF UpTo
  <1>5. ASSUME NEW q, Unheld(q) PROVE Unheld(q)'
    <2>1. ASSUME NEW k \in 1..Len(toBroker') PROVE toBroker'[k] # q.id
      <3>1. k \in 1..Len(toBroker) - 1 /\ k + 1 \in 1..Len(toBroker)
        BY <1>1
      <3> QED
        BY <3>1, <1>1, <1>5 DEF Unheld
    <2> QED
      BY <2>1, <1>2, <1>5 DEF Unheld, Remembered
  <1>6. \A m \in acked' : m <= top
    <2>1. \A k \in Acked : inflight[k].msg <= top
      BY <1>3, <1>4
    <2> QED
      BY <2>1, <1>2 DEF UpTo
  <1>7. CASE Acked = {}
    <2>1. inflight' = inflight /\ acked' = acked
      BY <1>2, <1>7
    <2>2. Broker'
      BY <2>1, <1>2 DEF Broker, Rising
    <2>3. UpTo(top)'
      BY <2>1, <1>2, <1>5 DEF UpTo
    <2>4. Ahead(top)'
      BY <2>1, <1>2 DEF Ahead, Rising
    <2> QED
      BY <2>2, <2>3, <2>4, <1>2
  <1>8. CASE Acked # {}
    <2>1. PICK a : a = (CHOOSE k \in Acked : TRUE)
      OBVIOUS
    <2>2. a \in 1..n /\ inflight[a].id = Head(toBroker) /\ inflight' = RemoveAt(inflight, a)
      BY <2>1, <1>2, <1>3, <1>8
    <2>3. Acked = {a}
      BY <2>2, <1>3 DEF Broker
    <2>4. acked' = acked \cup {inflight[a].msg}
      BY <2>3, <1>2
    <2>5. /\ Len(inflight') = n - 1
          /\ \A j \in 1..n - 1 : inflight'[j] = IF j < a THEN inflight[j] ELSE inflight[j + 1]
      BY <2>2, RemoveAtPoints DEF TypeOK
    <2> HIDE DEF n, Acked
    <2> DEFINE Old(j) == IF j < a THEN j ELSE j + 1
    <2>6. \A j \in 1..n - 1 : Old(j) \in 1..n /\ Old(j) # a /\ inflight'[j] = inflight[Old(j)]
      BY <2>2, <2>5, <1>s
    <2>7. \A j, l \in 1..n - 1 : (j < l => Old(j) < Old(l)) /\ (Old(j) = Old(l) => j = l)
      BY <2>2, <1>s
    <2>8. \A k \in 1..n : k # a => \E j \in 1..n - 1 : Old(j) = k
      <3>1. ASSUME NEW k \in 1..n, k # a PROVE \E j \in 1..n - 1 : Old(j) = k
        <4>1. CASE k < a
          <5>1. k \in 1..n - 1 /\ Old(k) = k
            BY <4>1, <2>2, <1>s
          <5> QED
            BY <5>1
        <4>2. CASE ~(k < a)
          <5>1. k - 1 \in 1..n - 1 /\ Old(k - 1) = k
            BY <4>2, <3>1, <2>2, <1>s
          <5> QED
            BY <5>1
        <4> QED
          BY <4>1, <4>2
      <3> QED
        BY <3>1
    <2> HIDE DEF Old
    <2>9. Rising(inflight)'
      <3>1. ASSUME NEW k \in 1..n - 1, NEW l \in 1..n - 1, k < l
            PROVE  inflight'[k].msg < inflight'[l].msg
        <4>1. Old(k) \in 1..n /\ Old(l) \in 1..n /\ Old(k) < Old(l)
          BY <3>1, <2>6, <2>7
        <4>2. inflight[Old(k)].msg < inflight[Old(l)].msg
          BY <4>1 DEF Broker, Rising, n
        <4> QED
          BY <4>2, <3>1, <2>6
      <3> QED
        BY <3>1, <2>5 DEF Rising
    <2>10. ASSUME NEW k \in 1..n - 1, NEW l \in 1..n - 1, inflight'[k].id = inflight'[l].id
           PROVE  k = l
      BY <2>6, <2>7, <2>10 DEF Broker, n
    <2>11. ASSUME NEW m \in 1..sent
           PROVE  m \in acked' \/ \E k \in 1..n - 1 : inflight'[k].msg = m
      <3>1. CASE m \in acked
        BY <3>1, <2>4
      <3>2. CASE m \notin acked
        <4>1. PICK k \in 1..n : inflight[k].msg = m
          BY <3>2 DEF Broker, n
        <4>2. CASE k = a
          BY <4>1, <4>2, <2>4
        <4>3. CASE k # a
          BY <4>1, <4>3, <2>6, <2>8
        <4> QED
          BY <4>2, <4>3
      <3> QED
        BY <3>1, <3>2
    <2>12. Broker'
      <3>1. \A k \in 1..n - 1 : inflight'[k].msg <= sent
        BY <2>6, <1>s
      <3> QED
        BY <3>1, <2>5, <2>9, <2>10, <2>11, <1>2 DEF Broker
    <2>13. UpTo(top)'
      <3>1. \A k \in 1..n - 1 : inflight'[k].msg > top => Unheld(inflight'[k])
        BY <2>6 DEF UpTo, n
      <3>2. ASSUME NEW k \in 1..n - 1, inflight'[k].msg > top
            PROVE  Unheld(inflight[k])'
        <4>1. PICK q : q = inflight'[k]
          OBVIOUS
        <4>2. Unheld(q)'
          BY <3>1, <3>2, <4>1, <1>5
        <4> QED
          BY <4>1, <4>2 DEF Unheld
      <3> QED
        BY <3>2, <2>5, <1>2, <1>6 DEF UpTo
    <2>14. Ahead(top)'
      <3>1. ASSUME NEW k \in 1..Len(toClient), toClient[k].msg > top
            PROVE  \E l \in 1..n - 1 : inflight'[l] = toClient[k]
        <4>1. PICK l \in 1..n : inflight[l] = toClient[k]
          BY <3>1 DEF Ahead, n
        <4>2. l # a
          <5>1. inflight[a].msg <= top /\ inflight[a].msg \in Nat
            BY <2>2, <1>4, <1>s DEF n
          <5> QED
            BY <5>1, <4>1, <3>1, <1>s
        <4>3. PICK j \in 1..n - 1 : Old(j) = l
          BY <4>2, <2>8
        <4> QED
          BY <4>1, <4>3, <2>6
      <3> QED
        BY <3>1, <2>5, <1>2 DEF Ahead, Rising
    <2> QED
      BY <2>12, <2>13, <2>14, <1>2
  <1> QED
    BY <1>7, <1>8

(* The first packet is read: nothing undelivered is skipped. *)
LEMMA ReadGeneral ==
    ASSUME TypeOK, Broker, NEW top \in 0..sent, Ahead(top), toClient # <<>>,
           NEW t \in top..sent, Head(toClient).msg <= t,
           toClient' = Tail(toClient), UNCHANGED <<linkUp, inflight, sent>>
    PROVE  Ahead(t)'
  <1> DEFINE c == Len(toClient)
  <1>s. /\ sent \in Nat /\ top \in Nat /\ top <= sent /\ t \in Nat /\ top <= t /\ c \in Nat
        /\ \A k \in 1..c : toClient[k].msg \in Nat
    <2>1. /\ sent \in Nat /\ top \in Nat /\ top <= sent /\ c \in Nat
          /\ \A k \in 1..c : toClient[k].msg \in Nat
      BY GeneralSizes
    <2>2. t \in Nat /\ top <= t
      BY <2>1
    <2> QED
      BY <2>1, <2>2
  <1>1. /\ Head(toClient) = toClient[1] /\ c >= 1 /\ Len(toClient') = c - 1
        /\ \A k \in 1..c - 1 : toClient'[k] = toClient[k + 1]
    BY TailPoints DEF TypeOK
  <1> HIDE DEF c
  <1>2. \A k \in 1..c - 1 : k + 1 \in 1..c /\ toClient'[k] = toClient[k + 1]
    BY <1>1, <1>s
  <1>3. Rising(toClient)'
    <2>1. ASSUME NEW k \in 1..c - 1, NEW l \in 1..c - 1, k < l
          PROVE  toClient'[k].msg < toClient'[l].msg
      <3>1. k + 1 < l + 1
        BY <2>1, <1>s
      <3> QED
        BY <3>1, <1>2 DEF Ahead, Rising, c
    <2> QED
      BY <2>1, <1>1 DEF Rising
  <1>4. ASSUME NEW k \in 1..c - 1, toClient'[k].msg > t
        PROVE  \E l \in 1..Len(inflight) : inflight[l] = toClient'[k]
    <2>0. k + 1 \in 1..c /\ toClient'[k] = toClient[k + 1]
      BY <1>4, <1>2
    <2>a. PICK l : l = k + 1
      OBVIOUS
    <2>b. l \in 1..c /\ toClient'[k] = toClient[l]
      BY <2>0, <2>a
    <2>c. toClient[l].msg \in Nat /\ toClient[l].msg > t
      BY <2>b, <1>4, <1>s
    <2>1. toClient[l].msg > top
      BY <2>c, <1>s
    <2> QED
      BY <2>1, <2>b DEF Ahead, c
  <1>5. ASSUME NEW m \in t + 1..sent, NEW l \in 1..c, toClient[l].msg = m
        PROVE  \E j \in 1..c - 1 : toClient'[j].msg = m
    <2>1. toClient[1].msg <= t /\ 1 \in 1..c
      BY <1>1, <1>s
    <2>2. l # 1
      BY <2>1, <1>5, <1>s
    <2>3. l - 1 \in 1..c - 1 /\ (l - 1) + 1 = l
      BY <2>2, <1>s
    <2>4. toClient'[l - 1] = toClient[l]
      BY <2>3, <1>2
    <2> QED
      BY <2>3, <2>4, <1>5
  <1>6. \A m \in t + 1..sent : m \in top + 1..sent
    BY <1>s
  <1>7. ASSUME NEW k \in 1..c - 1, NEW m \in t + 1..sent, m <= toClient'[k].msg
        PROVE  \E j \in 1..c - 1 : toClient'[j].msg = m
    <2>1. PICK l \in 1..c : toClient[l].msg = m
      BY <1>6, <1>7, <1>2 DEF Ahead, c
    <2> QED
      BY <2>1, <1>5
  <1>8. ASSUME linkUp, NEW m \in t + 1..sent
        PROVE  \E j \in 1..c - 1 : toClient'[j].msg = m
    <2>1. PICK l \in 1..c : toClient[l].msg = m
      BY <1>6, <1>8 DEF Ahead, c
    <2> QED
      BY <2>1, <1>5
  <1>9. Len(toClient') = c - 1 /\ linkUp' = linkUp /\ inflight' = inflight /\ sent' = sent
    BY <1>1
  <1>10. \A k \in 1..Len(toClient') :
           toClient'[k].msg > t => \E l \in 1..Len(inflight') : inflight'[l] = toClient'[k]
    BY <1>4, <1>9
  <1>11. \A k \in 1..Len(toClient') : \A m \in t + 1..sent' :
           m <= toClient'[k].msg => \E j \in 1..Len(toClient') : toClient'[j].msg = m
    BY <1>7, <1>9
  <1>12. linkUp' => \A m \in t + 1..sent' : \E j \in 1..Len(toClient') : toClient'[j].msg = m
    BY <1>8, <1>9
  <1> QED
    BY <1>3, <1>10, <1>11, <1>12 DEF Ahead

(* The id of a packet that was read is another than those of the messages *)
(* that are still to be delivered.                                        *)
LEMMA ReadIsAnother ==
    ASSUME TypeOK, Broker, NEW top \in 0..sent, UpTo(top), Ahead(top), toClient # <<>>,
           NEW t \in top..sent, Head(toClient).msg <= t,
           NEW k \in 1..Len(inflight), inflight[k].msg > t
    PROVE  Unheld(inflight[k]) /\ Head(toClient).id # inflight[k].id
  <1>s. /\ sent \in Nat /\ top \in Nat /\ t \in Nat /\ top <= t /\ inflight[k].msg \in Nat
        /\ Len(toClient) \in Nat /\ \A l \in 1..Len(toClient) : toClient[l].msg \in Nat
    <2>1. /\ sent \in Nat /\ top \in Nat /\ inflight[k].msg \in Nat
          /\ Len(toClient) \in Nat /\ \A l \in 1..Len(toClient) : toClient[l].msg \in Nat
      BY GeneralSizes
    <2>2. t \in Nat /\ top <= t
      BY <2>1
    <2> QED
      BY <2>1, <2>2
  <1>1. Head(toClient) = toClient[1] /\ 1 \in 1..Len(toClient)
    BY <1>s, TailPoints DEF TypeOK
  <1>2. Unheld(inflight[k])
    BY <1>s DEF UpTo
  <1>3. toClient[1].msg # inflight[k].msg
    BY <1>1, <1>s
  <1> QED
    BY <1>1, <1>2, <1>3 DEF Unheld

(* A callback is called: for a message delivered before, or for the first  *)
(* one that was not.                                                       *)
LEMMA NewGeneral ==
    ASSUME TypeOK, Broker, NEW top \in 0..sent, UpTo(top), Ahead(top), HandleNew
    PROVE  Broker' /\ \E t \in 0..sent' : UpTo(t)' /\ Ahead(t)'
  <1> DEFINE p == Head(toClient)
             c == Len(toClient)
  <1>s. /\ sent \in Nat /\ top \in Nat /\ top <= sent /\ c \in Nat /\ Msgs \subseteq Nat
        /\ \A k \in 1..c : toClient[k].msg \in Nat /\ toClient[k].msg <= sent
        /\ \A k \in 1..Len(inflight) : inflight[k].msg \in Nat
    BY GeneralSizes
  <1>1. /\ p = toClient[1] /\ p \in Packet /\ c >= 1 /\ Len(toClient') = c - 1
        /\ \A k \in 1..c - 1 : toClient'[k] = toClient[k + 1]
    BY TailPoints DEF HandleNew, TypeOK
  <1>2. /\ toClient # <<>> /\ toClient' = Tail(toClient)
        /\ delivered' = [delivered EXCEPT ![p.msg] = @ + 1]
        /\ handling' = <<p>> \o handling
        /\ UNCHANGED <<ring, cnt, linkUp, toBroker, inflight, sent, acked>>
    BY DEF HandleNew, brokerVars
  <1>3. p.msg \in Msgs /\ p.msg \in Nat /\ p.msg <= sent /\ 1 \in 1..c
    BY <1>1, <1>s DEF Packet
  <1>4. p.msg <= top + 1
    <2>1. SUFFICES ASSUME p.msg > top + 1 PROVE FALSE
      BY <1>3, <1>s
    <2>2. top + 1 \in top + 1..sent /\ top + 1 <= toClient[1].msg
      BY <2>1, <1>1, <1>3, <1>s
    <2>3. PICK l \in 1..c : toClient[l].msg = top + 1
      BY <2>2, <1>3 DEF Ahead
    <2>4. CASE l = 1
      BY <2>3, <2>4, <2>1, <1>1, <1>3, <1>s
    <2>5. CASE l # 1
      <3>1. toClient[1].msg < toClient[l].msg
        BY <2>5, <1>3 DEF Ahead, Rising
      <3> QED
        BY <3>1, <2>1, <2>3, <1>1, <1>3, <1>s
    <2> QED
      BY <2>4, <2>5
  <1> HIDE DEF p, c
  <1>5. PICK t \in top..sent : t = IF p.msg <= top THEN top ELSE p.msg
    BY <1>3, <1>s
  <1>6. t \in Nat /\ p.msg <= t /\ top <= t /\ (t = top \/ (t = top + 1 /\ p.msg = t))
    <2>1. PICK m : m = p.msg
      OBVIOUS
    <2>2. m \in Nat /\ m <= top + 1 /\ t = IF m <= top THEN top ELSE m
      BY <2>1, <1>3, <1>4, <1>5
    <2>3. CASE m <= top
      BY <2>1, <2>2, <2>3, <1>s
    <2>4. CASE ~(m <= top)
      <3>1. m = top + 1 /\ t = m
        BY <2>2, <2>4, <1>s
      <3> QED
        BY <3>1, <2>1, <1>s
    <2> QED
      BY <2>3, <2>4
  <1>7. Ahead(t)'
    BY <1>2, <1>6, ReadGeneral DEF p
  <1>8. ASSUME NEW m \in Msgs PROVE delivered'[m] > 0 <=> m <= t
    <2>1. (delivered[m] > 0 <=> m <= top) /\ delivered[m] \in Nat /\ m \in Nat
      BY <1>s DEF UpTo, TypeOK
    <2>2. delivered'[m] = IF m = p.msg THEN delivered[m] + 1 ELSE delivered[m]
      BY <1>2 DEF TypeOK
    <2>3. CASE m = p.msg
      BY <2>1, <2>2, <2>3, <1>6
    <2>4. CASE m # p.msg
      BY <2>1, <2>2, <2>4, <1>6, <1>3, <1>s
    <2> QED
      BY <2>3, <2>4
  <1>9. \A m \in acked' : m <= t
    <2>1. \A m \in acked : m <= top /\ m \in Nat
      BY <1>s DEF UpTo, TypeOK
    <2> QED
      BY <2>1, <1>2, <1>6, <1>s
  <1>10. /\ Len(handling) \in Nat /\ Len(handling') = Len(handling) + 1
         /\ \A k \in 1..Len(handling) + 1 : handling'[k] = IF k = 1 THEN p ELSE handling[k - 1]
    BY <1>1, <1>2, PushPoints DEF TypeOK
  <1>11. ASSUME NEW k \in 1..Len(inflight'), inflight'[k].msg > t
         PROVE  Unheld(inflight[k])'
    <2>1. PICK q : q = inflight[k]
      OBVIOUS
    <2>2. Unheld(q) /\ p.id # q.id
      BY <2>1, <1>2, <1>6, <1>11, ReadIsAnother DEF p
    <2>3. ASSUME NEW l \in 1..Len(handling') PROVE handling'[l].id # q.id
      <3>1. CASE l = 1
        BY <3>1, <2>2, <1>10
      <3>2. CASE l # 1
        <4>1. l - 1 \in 1..Len(handling) /\ handling'[l] = handling[l - 1]
          BY <3>2, <1>10
        <4> QED
          BY <4>1, <2>2 DEF Unheld
      <3> QED
        BY <3>1, <3>2
    <2>4. ASSUME NEW l \in 1..Len(toClient'), toClient'[l].id = q.id PROVE toClient'[l].msg = q.msg
      <3>1. l + 1 \in 1..c /\ toClient'[l] = toClient[l + 1]
        BY <1>1, <1>s
      <3> QED
        BY <3>1, <2>2, <2>4 DEF Unheld, c
    <2>5. inflight'[k] = q
      BY <2>1, <1>2
    <2> QED
      BY <2>2, <2>3, <2>4, <2>5, <1>2 DEF Unheld, Remembered
  <1>12. UpTo(t)'
    BY <1>8, <1>9, <1>11 DEF UpTo
  <1>13. Broker'
    BY <1>2 DEF Broker, Rising
  <1>14. t \in 0..sent'
    BY <1>2, <1>5, <1>s
  <1> QED
    BY <1>7, <1>12, <1>13, <1>14

(* What an acknowledgement adds to what is under way. *)
LEMMA AcknowledgeGeneral ==
    ASSUME TypeOK, NEW p \in Packet, Acknowledge(p)
    PROVE  \A k \in 1..Len(toBroker') : toBroker'[k] = p.id \/ \E l \in 1..Len(toBroker) : toBroker'[k] = toBroker[l]
  <1>1. PICK id \in Ids : id = p.id
    BY DEF Packet
  <1>2. toBroker' = toBroker \/ toBroker' = Append(toBroker, id)
    BY <1>1 DEF Acknowledge
  <1>3. CASE toBroker' = toBroker
    BY <1>3
  <1>4. CASE toBroker' = Append(toBroker, id)
    <2>1. /\ Len(toBroker') = Len(toBroker) + 1 /\ Len(toBroker) \in Nat
          /\ \A k \in 1..Len(toBroker) + 1 : toBroker'[k] = IF k <= Len(toBroker) THEN toBroker[k] ELSE id
      BY <1>4, AppendPoints DEF TypeOK
    <2>2. ASSUME NEW k \in 1..Len(toBroker'), toBroker'[k] # id
          PROVE  \E l \in 1..Len(toBroker) : toBroker'[k] = toBroker[l]
      <3>1. k \in 1..Len(toBroker) /\ toBroker'[k] = toBroker[k]
        BY <2>1, <2>2
      <3> QED
        BY <3>1
    <2> QED
      BY <2>2, <1>1
  <1> QED
    BY <1>2, <1>3, <1>4

(* A repeat is acknowledged. *)
LEMMA RepeatGeneral ==
    ASSUME TypeOK, Broker, NEW top \in 0..sent, UpTo(top), Ahead(top), HandleRepeat
    PROVE  Broker' /\ top \in 0..sent' /\ UpTo(top)' /\ Ahead(top)'
  <1> DEFINE p == Head(toClient)
             c == Len(toClient)
  <1>s. /\ sent \in Nat /\ top \in Nat /\ top <= sent /\ c \in Nat
        /\ \A k \in 1..c : toClient[k].msg \in Nat /\ toClient[k].msg <= sent
    BY GeneralSizes
  <1>1. /\ p = toClient[1] /\ p \in Packet /\ c >= 1 /\ Len(toClient') = c - 1
        /\ \A k \in 1..c - 1 : toClient'[k] = toClient[k + 1]
    BY TailPoints DEF HandleRepeat, TypeOK
  <1>2. /\ toClient # <<>> /\ toClient' = Tail(toClient) /\ Remembered(p.id) /\ Acknowledge(p)
        /\ UNCHANGED <<ring, cnt, delivered, handling, linkUp, inflight, sent, acked>>
    BY DEF HandleRepeat, clientVars, brokerVars
  <1>3. p.msg \in Nat /\ 1 \in 1..c
    BY <1>1, <1>s
  <1>4. p.msg <= top
    <2>1. SUFFICES ASSUME p.msg > top PROVE FALSE
      BY <1>3, <1>s
    <2>2. PICK l \in 1..Len(inflight) : inflight[l] = p
      BY <2>1, <1>1, <1>3 DEF Ahead
    <2>3. Unheld(inflight[l])
      BY <2>1, <2>2 DEF UpTo
    <2> QED
      BY <2>2, <2>3, <1>2 DEF Unheld
  <1>5. top \in top..sent /\ top \in 0..sent'
    BY <1>2, <1>s
  <1>6. Ahead(top)'
    BY <1>2, <1>4, <1>5, ReadGeneral
  <1>7. ASSUME NEW k \in 1..Len(inflight'), inflight'[k].msg > top
         PROVE  Unheld(inflight[k])'
    <2>1. PICK q : q = inflight[k]
      OBVIOUS
    <2>2. Unheld(q) /\ p.id # q.id
      BY <2>1, <1>2, <1>4, <1>5, <1>7, ReadIsAnother
    <2>3. \A l \in 1..Len(toBroker') : toBroker'[l] # q.id
      BY <2>2, <1>1, <1>2, AcknowledgeGeneral DEF Unheld
    <2>4. ASSUME NEW l \in 1..Len(toClient'), toClient'[l].id = q.id PROVE toClient'[l].msg = q.msg
      <3>1. l + 1 \in 1..c /\ toClient'[l] = toClient[l + 1]
        BY <1>1, <1>s
      <3> QED
        BY <3>1, <2>2, <2>4 DEF Unheld
    <2>5. inflight'[k] = q
      BY <2>1, <1>2
    <2> QED
      BY <2>2, <2>3, <2>4, <2>5, <1>2 DEF Unheld, Remembered
  <1>8. UpTo(top)'
    BY <1>2, <1>7 DEF UpTo
  <1>9. Broker'
    BY <1>2 DEF Broker, Rising
  <1> QED
    BY <1>5, <1>6, <1>8, <1>9

(* A callback returns: its id, which no undelivered message has, is put    *)
(* in the ring and acknowledged.                                           *)
LEMMA ReturnGeneral ==
    ASSUME TypeOK, Broker, NEW top \in 0..sent, UpTo(top), Ahead(top), Return
    PROVE  Broker' /\ top \in 0..sent' /\ UpTo(top)' /\ Ahead(top)'
  <1> DEFINE p == Head(handling)
             h == Len(handling)
  <1>1. /\ p = handling[1] /\ p \in Packet /\ h \in Nat /\ h >= 1 /\ Len(handling') = h - 1
        /\ \A k \in 1..h - 1 : handling'[k] = handling[k + 1]
    BY TailPoints DEF Return, TypeOK
  <1>2. /\ Remember(p.id) /\ Acknowledge(p)
        /\ UNCHANGED <<delivered, toClient, linkUp, inflight, sent, acked>>
    BY DEF Return, brokerVars
  <1>3. ASSUME NEW i, Remembered(i)' PROVE i = p.id \/ Remembered(i)
    <2>1. ring \in [0..RingLen - 1 -> 0..BrokerIds]
      BY DEF TypeOK
    <2>2. PICK k \in 0..RingLen - 1 : ring'[k] = i
      BY <1>3 DEF Remembered
    <2>3. ring' = ring \/ ring' = [ring EXCEPT ![cnt] = p.id]
      BY <1>2 DEF Remember
    <2>4. ring'[k] = ring[k] \/ ring'[k] = p.id
      BY <2>1, <2>3
    <2> QED
      BY <2>2, <2>4 DEF Remembered
  <1>4. ASSUME NEW k \in 1..Len(inflight'), inflight'[k].msg > top
        PROVE  Unheld(inflight[k])'
    <2>1. PICK q : q = inflight[k]
      OBVIOUS
    <2>2. Unheld(q)
      BY <2>1, <1>2, <1>4 DEF UpTo
    <2>3. p.id # q.id
      <3>1. 1 \in 1..h
        BY <1>1
      <3> QED
        BY <3>1, <2>2, <1>1 DEF Unheld
    <2>4. ~Remembered(q.id)'
      BY <2>2, <2>3, <1>3 DEF Unheld
    <2>5. \A l \in 1..Len(toBroker') : toBroker'[l] # q.id
      BY <2>2, <2>3, <1>1, <1>2, AcknowledgeGeneral DEF Unheld
    <2>6. ASSUME NEW l \in 1..Len(handling') PROVE handling'[l].id # q.id
      <3>1. l + 1 \in 1..h /\ handling'[l] = handling[l + 1]
        BY <1>1
      <3> QED
        BY <3>1, <2>2 DEF Unheld
    <2>7. inflight'[k] = q
      BY <2>1, <1>2
    <2> QED
      BY <2>2, <2>4, <2>5, <2>6, <2>7, <1>2 DEF Unheld
  <1>5. UpTo(top)'
    BY <1>2, <1>4 DEF UpTo
  <1>6. Broker' /\ Ahead(top)' /\ top \in 0..sent'
    BY <1>2 DEF Broker, Ahead, Rising
  <1> QED
    BY <1>5, <1>6

(* The link breaks, is noticed, and is made anew. *)
LEMMA LinkGeneral ==
    ASSUME TypeOK, Broker, NEW top \in 0..sent, UpTo(top), Ahead(top), CleanSession = FALSE,
           LinkBreaks \/ Disconnect \/ Reconnect
    PROVE  Broker' /\ top \in 0..sent' /\ UpTo(top)' /\ Ahead(top)'
  <1>s. /\ sent \in Nat /\ top \in Nat /\ Len(toClient) \in Nat
        /\ \A k \in 1..Len(toClient) : toClient[k].msg \in Nat
    BY GeneralSizes
  <1>1. UNCHANGED <<ring, cnt, delivered, handling, inflight, sent, acked>>
    BY DEF LinkBreaks, Disconnect, Reconnect, clientVars, brokerVars
  <1>2. Broker' /\ top \in 0..sent'
    BY <1>1 DEF Broker, Rising
  <1>3. ASSUME \A i : (\E k \in 1..Len(toBroker') : toBroker'[k] = i) => \E k \in 1..Len(toBroker) : toBroker[k] = i,
               \A k \in 1..Len(toClient') : \E l \in 1..Len(toClient) : toClient'[k] = toClient[l]
        PROVE  UpTo(top)'
    <2>1. ASSUME NEW q, Unheld(q) PROVE Unheld(q)'
      <3>1. \A l \in 1..Len(toBroker') : toBroker'[l] # q.id
        <4>1. \A l \in 1..Len(toBroker) : toBroker[l] # q.id
          BY <2>1 DEF Unheld
        <4> QED
          BY <4>1, <1>3
      <3>2. ASSUME NEW l \in 1..Len(toClient'), toClient'[l].id = q.id PROVE toClient'[l].msg = q.msg
        <4>1. PICK j \in 1..Len(toClient) : toClient'[l] = toClient[j]
          BY <1>3
        <4> QED
          BY <4>1, <3>2, <2>1 DEF Unheld
      <3>3. ~Remembered(q.id)' /\ \A l \in 1..Len(handling') : handling'[l].id # q.id
        BY <2>1, <1>1 DEF Unheld, Remembered
      <3> QED
        BY <3>1, <3>2, <3>3 DEF Unheld
    <2>2. ASSUME NEW k \in 1..Len(inflight'), inflight'[k].msg > top
          PROVE  Unheld(inflight[k])'
      <3>1. PICK q : q = inflight[k]
        OBVIOUS
      <3>2. Unheld(q)'
        BY <3>1, <2>1, <2>2, <1>1 DEF UpTo
      <3> QED
        BY <3>1, <3>2, <1>1 DEF Unheld
    <2> QED
      BY <2>2, <1>1 DEF UpTo
  <1>4. CASE LinkBreaks
    <2>1. PICK n \in 0..Len(toClient) : toClient' = SubSeq(toClient, 1, n)
      BY <1>4 DEF LinkBreaks
    <2>2. Len(toClient') = n /\ \A k \in 1..n : toClient'[k] = toClient[k]
      BY <2>1, PrefixPoints DEF TypeOK
    <2>3. ~linkUp' /\ Len(toBroker') = 0
      BY <1>4 DEF LinkBreaks
    <2>4. n \in Nat /\ \A k \in 1..n : k \in 1..Len(toClient)
      BY <1>s
    <2>5. UpTo(top)'
      BY <2>2, <2>3, <2>4, <1>3
    <2>6. Rising(toClient)'
      BY <2>2, <2>4 DEF Ahead, Rising
    <2>7. ASSUME NEW k \in 1..n, NEW m \in top + 1..sent, m <= toClient[k].msg
          PROVE  \E l \in 1..n : toClient[l].msg = m
      <3>1. PICK l \in 1..Len(toClient) : toClient[l].msg = m
        BY <2>4, <2>7 DEF Ahead
      <3>2. ~(k < l)
        <4>1. SUFFICES ASSUME k < l PROVE FALSE
          OBVIOUS
        <4>2. toClient[k].msg < toClient[l].msg
          BY <4>1, <2>4 DEF Ahead, Rising
        <4> QED
          BY <4>2, <3>1, <2>4, <2>7, <1>s
      <3>3. l \in 1..n
        BY <3>2, <2>4, <1>s
      <3> QED
        BY <3>1, <3>3
    <2>8. Ahead(top)'
      <3>1. \A k \in 1..n : toClient[k].msg > top => \E l \in 1..Len(inflight) : inflight[l] = toClient[k]
        BY <2>4 DEF Ahead
      <3> QED
        BY <3>1, <2>2, <2>3, <2>6, <2>7, <1>1 DEF Ahead
    <2> QED
      BY <1>2, <2>5, <2>8
  <1>5. CASE Disconnect
    <2>1. Len(toClient') = 0 /\ toBroker' = toBroker /\ ~linkUp'
      BY <1>5 DEF Disconnect
    <2>2. UpTo(top)'
      BY <2>1, <1>3
    <2>3. Ahead(top)'
      BY <2>1 DEF Ahead, Rising
    <2> QED
      BY <1>2, <2>2, <2>3
  <1>6. CASE Reconnect
    <2>1. toClient' = inflight /\ toBroker' = toBroker
      BY <1>6 DEF Reconnect
    <2>2. ASSUME NEW k \in 1..Len(inflight'), inflight'[k].msg > top
          PROVE  Unheld(inflight[k])'
      <3>1. Unheld(inflight[k])
        BY <2>2, <1>1 DEF UpTo
      <3>2. \A l \in 1..Len(inflight) : inflight[l].id = inflight[k].id => l = k
        BY <2>2, <1>1 DEF Broker
      <3>3. \A l \in 1..Len(toClient') : toClient'[l].id = inflight[k].id => toClient'[l].msg = inflight[k].msg
        BY <3>2, <2>1
      <3> QED
        BY <3>1, <3>3, <2>1, <1>1 DEF Unheld, Remembered
    <2>3. UpTo(top)'
      BY <2>2, <1>1 DEF UpTo
    <2>4. ASSUME NEW m \in top + 1..sent PROVE \E l \in 1..Len(inflight) : inflight[l].msg = m
      <3>1. m \in 1..sent /\ ~(m <= top)
        BY <1>s
      <3>2. m \notin acked
        BY <3>1 DEF UpTo
      <3> QED
        BY <3>1, <3>2 DEF Broker
    <2>5. Ahead(top)'
      <3>1. Rising(toClient)'
        BY <2>1 DEF Broker, Rising
      <3> QED
        BY <3>1, <2>1, <2>4, <1>1 DEF Ahead
    <2> QED
      BY <1>2, <2>3, <2>5
  <1> QED
    BY <1>4, <1>5, <1>6

(* Every step of a session that is kept. *)
LEMMA NextGeneral ==
    ASSUME CleanSession = FALSE, TypeOK, General, ~disordered => InOrder, [Next]_vars
    PROVE  General'
  <1>0. Broker
    BY DEF General
  <1>a. PICK top \in 0..sent : UpTo(top) /\ Ahead(top)
    BY DEF General
  <1>1. CASE BrokerSend
    <2>1. PICK id \in Ids : Sends(id)
      BY <1>1, SendsSome
    <2>2. Fresh(id)
      <3>1. CASE disordered
        BY <3>1, <2>1 DEF Sends, MaySendAs
      <3>2. CASE ~disordered
        BY <3>2, <2>1, NextIsFresh
      <3> QED
        BY <3>1, <3>2
    <2> QED
      BY <1>0, <1>a, <2>1, <2>2, SendGeneral DEF General
  <1>2. CASE BrokerPubAck
    BY <1>0, <1>a, <1>2, AckGeneral DEF General
  <1>3. CASE HandleNew
    BY <1>0, <1>a, <1>3, NewGeneral DEF General
  <1>4. CASE HandleRepeat
    BY <1>0, <1>a, <1>4, RepeatGeneral DEF General
  <1>5. CASE Return
    BY <1>0, <1>a, <1>5, ReturnGeneral DEF General
  <1>6. CASE LinkBreaks \/ Disconnect \/ Reconnect
    BY <1>0, <1>a, <1>6, LinkGeneral DEF General
  <1>7. CASE UNCHANGED vars
    <2>1. Broker' /\ UpTo(top)' /\ Ahead(top)' /\ sent' = sent
      BY <1>0, <1>a, <1>7 DEF vars, Broker, UpTo, Ahead, Unheld, Remembered, Rising
    <2> QED
      BY <2>1 DEF General
  <1> QED
    BY <1>1, <1>2, <1>3, <1>4, <1>5, <1>6, <1>7 DEF Next


LEMMA InitIInv == Init => IInv
  BY InitType, InitGeneral, InitInOrder DEF IInv

(* The invariant of a session that is kept is preserved by every step. *)
LEMMA NextKept == CleanSession = FALSE /\ IInv /\ [Next]_vars => IInv'
  <1> SUFFICES ASSUME CleanSession = FALSE, IInv, [Next]_vars PROVE IInv'
    OBVIOUS
  <1>1. TypeOK /\ General /\ (~disordered => InOrder) /\ TypeOK'
    BY NextType DEF IInv
  <1>2. General'
    BY <1>1, NextGeneral
  <1>3. ASSUME ~disordered' PROVE InOrder'
    <2>1. ~disordered
      BY <1>1, <1>3, OrderIsLost
    <2> QED
      BY <1>1, <1>3, <2>1, NextInOrder
  <1> QED
    BY <1>1, <1>2, <1>3 DEF IInv

----------------------------------------------------------------------------
(* The values of the variables stay in their types: the index of the ring  *)
(* inside of it (_add_packet_id_to_repeat_buf), ids inside the id space.   *)
THEOREM TypeCorrect == Spec => []TypeOK
  <1>1. Init => TypeOK
    BY InitType
  <1>2. TypeOK /\ [Next]_vars => TypeOK'
    BY NextType
  <1> QED
    BY <1>1, <1>2, PTL DEF Spec

LEMMA NewSession == ASSUME CleanSession PROVE Spec => []NewInv
  <1>1. Init => NewInv
    BY InitNew
  <1>2. NewInv /\ [Next]_vars => NewInv'
    BY NextNew
  <1> QED
    BY <1>1, <1>2, PTL DEF Spec

LEMMA KeptSession == ASSUME CleanSession = FALSE PROVE Spec => []IInv
  <1>1. Init => IInv
    BY InitIInv
  <1>2. IInv /\ [Next]_vars => IInv'
    BY NextKept
  <1> QED
    BY <1>1, <1>2, PTL DEF Spec

(* What holds of the deliveries whatever the callbacks do. *)
LEMMA GeneralDeliveries ==
    ASSUME IInv
    PROVE  /\ AckedDelivered /\ DeliveredInOrder
           /\ \A k \in DOMAIN inflight : Remembered(inflight[k].id) \/ InHandler(inflight[k])
                                           => delivered[inflight[k].msg] > 0
  <1>0. TypeOK /\ Broker
    BY DEF IInv, General
  <1>1. PICK top \in 0..sent : UpTo(top) /\ Ahead(top)
    BY DEF IInv, General
  <1>s. top \in Nat /\ Msgs \subseteq Nat
    BY <1>0, <1>1, GeneralSizes
  <1>2. \A m \in Msgs : delivered[m] > 0 <=> m <= top
    BY <1>1 DEF UpTo
  <1>3. AckedDelivered
    <2>1. ASSUME NEW m \in acked PROVE delivered[m] >= 1
      <3>1. m \in Msgs /\ m <= top
        BY <1>0, <1>1 DEF UpTo, TypeOK
      <3>2. delivered[m] \in Nat /\ delivered[m] > 0
        BY <3>1, <1>0, <1>2 DEF TypeOK
      <3> QED
        BY <3>2
    <2> QED
      BY <2>1 DEF AckedDelivered
  <1>4. DeliveredInOrder
    <2>1. ASSUME NEW m \in Msgs, NEW n \in Msgs, m < n, n <= top PROVE m <= top
      BY <2>1, <1>s
    <2> QED
      BY <2>1, <1>2 DEF DeliveredInOrder
  <1>5. ASSUME NEW k \in DOMAIN inflight, Remembered(inflight[k].id) \/ InHandler(inflight[k])
        PROVE  delivered[inflight[k].msg] > 0
    <2>1. k \in 1..Len(inflight) /\ inflight[k] \in Packet
      BY <1>0 DEF TypeOK
    <2>2. inflight[k].msg \in Msgs
      BY <2>1 DEF Packet
    <2>3. ~(inflight[k].msg > top)
      <3>1. SUFFICES ASSUME inflight[k].msg > top PROVE FALSE
        OBVIOUS
      <3>2. Unheld(inflight[k])
        BY <2>1, <3>1, <1>1 DEF UpTo
      <3>3. ASSUME NEW l \in DOMAIN handling PROVE handling[l] # inflight[k]
        <4>1. l \in 1..Len(handling)
          BY <1>0 DEF TypeOK
        <4>2. handling[l].id # inflight[k].id
          BY <3>2, <4>1 DEF Unheld
        <4> QED
          BY <4>2
      <3> QED
        BY <3>2, <3>3, <1>5 DEF Unheld, InHandler
    <2>4. inflight[k].msg <= top
      <3>1. PICK m \in Nat : m = inflight[k].msg
        BY <2>2, <1>s
      <3>2. ~(m > top)
        BY <3>1, <2>3
      <3>3. m <= top
        BY <3>2, <1>s
      <3> QED
        BY <3>1, <3>3
    <2> QED
      BY <2>2, <2>4, <1>2
  <1> QED
    BY <1>3, <1>4, <1>5

(* What holds of them as long as nothing has put the ring out of order. *)
LEMMA OrderlyDeliveries ==
    ASSUME IInv, ~disordered
    PROVE  /\ \A m \in Msgs : delivered[m] <= 1
           /\ \A k \in DOMAIN inflight : delivered[inflight[k].msg] > 0
                                           => Remembered(inflight[k].id) \/ InHandler(inflight[k])
  <1>0. TypeOK /\ Numbers
    BY DEF IInv, InOrder
  <1>1. PICK high \in 0..sent : \E at \in 0..high : At(high, at)
    BY DEF IInv, InOrder
  <1>2. Delivered(high)
    BY <1>1 DEF At
  <1>3. /\ low <= high /\ high + Len(handling) <= sent /\ Len(handling) <= 1
        /\ \A k \in 1..Len(handling) : handling[k] = PacketOf(brokerId, sent, high + 1)
        /\ \A m \in Msgs : delivered[m] = IF m <= high + Len(handling) THEN 1 ELSE 0
    BY <1>2 DEF Delivered
  <1>s. /\ Msgs \subseteq Nat /\ sent \in Nat /\ low \in Nat /\ high \in Nat
        /\ sent = low + Len(inflight) /\ Len(inflight) \in Nat /\ Len(handling) \in Nat
    BY <1>0, Sizes, Numeric
  <1>4. \A m \in Msgs : delivered[m] <= 1
    BY <1>3
  <1>5. ASSUME NEW k \in DOMAIN inflight, delivered[inflight[k].msg] > 0
        PROVE  Remembered(inflight[k].id) \/ InHandler(inflight[k])
    <2>1. k \in 1..Len(inflight) /\ inflight[k] \in Packet
      BY <1>0 DEF TypeOK
    <2>2. inflight[k] = PacketOf(brokerId, sent, low + k)
      BY <2>1, <1>0 DEF Numbers
    <2>3. /\ inflight[k].id = IdOf(brokerId, sent, low + k)
          /\ inflight[k].msg = low + k /\ low + k \in Msgs
      BY <2>1, <2>2 DEF PacketOf, Packet
    <2>4. low + k \in low + 1..sent
      BY <2>1, <1>s
    <2>5. low + k <= high + Len(handling)
      BY <1>3, <1>5, <2>3
    <2>6. CASE low + k <= high
      BY <2>3, <2>4, <2>6, <1>0, <1>2, RememberedIff
    <2>7. CASE ~(low + k <= high)
      <3>0. k \in Nat
        BY <2>1
      <3>a. PICK h \in Nat : h = Len(handling)
        BY <1>s
      <3>b. h <= 1 /\ low + k <= high + h
        BY <3>a, <2>5, <1>3
      <3>c. low + k = high + 1 /\ h = 1
        BY <3>0, <3>b, <2>7, <1>s
      <3>1. low + k = high + 1 /\ Len(handling) = 1
        BY <3>a, <3>c
      <3>2. 1 \in DOMAIN handling /\ handling[1] = PacketOf(brokerId, sent, high + 1)
        BY <3>1, <1>0, <1>3 DEF TypeOK
      <3> QED
        BY <2>2, <3>1, <3>2 DEF InHandler
    <2> QED
      BY <2>6, <2>7
  <1> QED
    BY <1>4, <1>5

LEMMA KeptDeliveries ==
    ASSUME CleanSession = FALSE, IInv
    PROVE  AtMostOnce /\ AckedDelivered /\ DeliveredInOrder /\ RingSeparates
  <1>1. AtMostOnce
    BY OrderlyDeliveries DEF AtMostOnce
  <1>2. RingSeparates
    BY GeneralDeliveries, OrderlyDeliveries DEF RingSeparates
  <1> QED
    BY <1>1, <1>2, GeneralDeliveries

(* No message is handed to its callback twice where the broker forgets the *)
(* session, without exception; where it keeps the session and sends again  *)
(* what it has no PUBACK of, as long as no callback has handled another    *)
(* message or reconnected and no PUBACK has failed on a live link: as far  *)
(* as repeat_packet_id_buf, filled after the callback, goes.               *)
THEOREM NoSecondDelivery == Spec => []AtMostOnce
  <1>1. CASE CleanSession
    <2>1. Spec => []NewInv
      BY <1>1, NewSession
    <2>2. NewInv => AtMostOnce
      BY DEF NewInv, AtMostOnce
    <2> QED
      BY <2>1, <2>2, PTL
  <1>2. CASE CleanSession = FALSE
    <2>1. Spec => []IInv
      BY <1>2, KeptSession
    <2>2. IInv => AtMostOnce
      BY <1>2, KeptDeliveries
    <2> QED
      BY <2>1, <2>2, PTL
  <1>3. CleanSession \/ CleanSession = FALSE
    BY CleanAssumption
  <1> QED
    BY <1>1, <1>2, <1>3

(* In a session that is kept, a message that is acknowledged has been      *)
(* handed to its callback, whatever the callbacks do: _handle_publish_packet *)
(* acknowledges what it takes for a repeat without delivering it, and it   *)
(* is one.                                                                 *)
THEOREM NoAckWithoutDelivery ==
    ASSUME CleanSession = FALSE
    PROVE  Spec => []AckedDelivered
  <1>1. IInv => AckedDelivered
    BY KeptDeliveries
  <1> QED
    BY <1>1, KeptSession, PTL

(* In a session that is kept, messages are handed over in the order they   *)
(* were sent first, without gaps, however often they are sent again and    *)
(* whatever the callbacks do: the first delivery of each is in order, a    *)
(* second one is not counted.                                              *)
THEOREM OrderOfDelivery ==
    ASSUME CleanSession = FALSE
    PROVE  Spec => []DeliveredInOrder
  <1>1. IInv => DeliveredInOrder
    BY KeptDeliveries
  <1> QED
    BY <1>1, KeptSession, PTL

(* In a session that is kept, an id in the ring, or in a running callback, *)
(* is never the id of a message the broker may send again that was not     *)
(* delivered.  As long as nothing has put the ring out of order, a ring of *)
(* RingLen ids is enough for a window of up to RingLen messages, and an id *)
(* space of RingLen + Window ids for the ring: a message in flight that    *)
(* was delivered is in the ring, or its callback is still running.         *)
THEOREM RingIsExact ==
    ASSUME CleanSession = FALSE
    PROVE  Spec => []RingSeparates
  <1>1. IInv => RingSeparates
    BY KeptDeliveries
  <1> QED
    BY <1>1, KeptSession, PTL

============================================================================
