------------------------- MODULE DataTemplate_proof -------------------------
(***************************************************************************)
(* Proofs about DataTemplate, for every length of the two lists and every  *)
(* number of tokens.  What is to be known of the request list is which     *)
(* requests are in it, each once: Entries, and Unique.                     *)
(***************************************************************************)
EXTENDS DataTemplate, FiniteSetTheorems, TLAPS

Entries(s) == {s[i] : i \in DOMAIN s}
Unique(s)  == \A i, j \in DOMAIN s : s[i].token = s[j].token => i = j

(* The list holds just the requests whose outcome is open, and the one of  *)
(* a synchronous call only while the call waits for it.                    *)
Tracked ==
    /\ Unique(replyList)
    /\ \A t \in Tokens : outcome[t] = "waiting" <=> \E e \in Entries(replyList) : e.token = t
    /\ \A e \in Entries(replyList) :
         e.sync => call # Null /\ call.token = e.token /\ call.ack = "none"

(* Tokens are used in turn, and those of events are not of requests. *)
TokensInTurn ==
    /\ \A t \in Tokens : t > tokenNum => outcome[t] = "idle"
    /\ \A e \in eventList : outcome[e.token] \in {"posted", "replied", "expired"}

IInv ==
    /\ TypeOK /\ IsFiniteSet(eventList)
    /\ Tracked
    /\ TokensInTurn
    /\ at # "replies" => pos = 0

----------------------------------------------------------------------------
(* Lemmas about lists of requests. *)

LEMMA AppendKeeps ==
    ASSUME NEW S, NEW s \in Seq(S), NEW x \in S, Unique(s),
           \A e \in Entries(s) : e.token # x.token
    PROVE  /\ Append(s, x) \in Seq(S) /\ Len(Append(s, x)) = Len(s) + 1
           /\ Entries(Append(s, x)) = Entries(s) \cup {x}
           /\ Unique(Append(s, x))
  <1> DEFINE a == Append(s, x)
  <1>1. /\ a \in Seq(S) /\ Len(a) = Len(s) + 1 /\ Len(s) \in Nat
        /\ DOMAIN a = 1..Len(s) + 1 /\ DOMAIN s = 1..Len(s)
        /\ \A k \in 1..Len(s) : a[k] = s[k]
        /\ a[Len(s) + 1] = x
    OBVIOUS
  <1> HIDE DEF a
  <1>2. \A k \in DOMAIN a : k \in DOMAIN s \/ k = Len(s) + 1
    BY <1>1
  <1>3. Entries(a) = Entries(s) \cup {x}
    BY <1>1, <1>2 DEF Entries
  <1>4. \A k \in DOMAIN s : a[k].token = s[k].token /\ a[k].token # x.token
    BY <1>1 DEF Entries
  <1>5. Unique(a)
    BY <1>1, <1>2, <1>4 DEF Unique
  <1> QED
    BY <1>1, <1>3, <1>5 DEF a

LEMMA ConcatPoints ==
    ASSUME NEW S, NEW p \in Seq(S), NEW q \in Seq(S)
    PROVE  /\ p \o q \in Seq(S) /\ Len(p \o q) = Len(p) + Len(q)
           /\ \A i \in 1..Len(p) + Len(q) :
                (p \o q)[i] = IF i <= Len(p) THEN p[i] ELSE q[i - Len(p)]
  OBVIOUS

LEMMA RemoveAtPoints ==
    ASSUME NEW S, NEW s \in Seq(S), NEW k \in 1..Len(s)
    PROVE  /\ RemoveAt(s, k) \in Seq(S) /\ Len(RemoveAt(s, k)) = Len(s) - 1
           /\ \A i \in 1..Len(s) - 1 :
                RemoveAt(s, k)[i] = IF i < k THEN s[i] ELSE s[i + 1]
  <1> DEFINE p == SubSeq(s, 1, k - 1)
             q == SubSeq(s, k + 1, Len(s))
  <1>1. /\ p \in Seq(S) /\ Len(p) = k - 1 /\ \A i \in 1..k - 1 : p[i] = s[i]
        /\ q \in Seq(S) /\ Len(q) = Len(s) - k /\ \A i \in 1..Len(s) - k : q[i] = s[k + i]
        /\ k \in Nat /\ Len(s) \in Nat /\ k <= Len(s) /\ k >= 1
    OBVIOUS
  <1> HIDE DEF p, q
  <1>2. /\ p \o q \in Seq(S) /\ Len(p \o q) = Len(p) + Len(q)
        /\ \A i \in 1..Len(p) + Len(q) : (p \o q)[i] = IF i <= Len(p) THEN p[i] ELSE q[i - Len(p)]
    BY <1>1, ConcatPoints
  <1>3. ASSUME NEW i \in 1..Len(s) - 1
        PROVE  (p \o q)[i] = IF i < k THEN s[i] ELSE s[i + 1]
    <2>1. i \in 1..Len(p) + Len(q)
      BY <1>1
    <2>2. CASE i < k
      <3>1. i <= Len(p) /\ i \in 1..k - 1
        BY <1>1, <2>2
      <3> QED
        BY <1>1, <1>2, <2>1, <2>2, <3>1
    <2>3. CASE ~(i < k)
      <3>1. ~(i <= Len(p)) /\ i - Len(p) \in 1..Len(s) - k /\ k + (i - Len(p)) = i + 1
        BY <1>1, <2>3
      <3> QED
        BY <1>1, <1>2, <2>1, <2>3, <3>1
    <2> QED
      BY <2>2, <2>3
  <1>4. RemoveAt(s, k) = p \o q
    BY DEF RemoveAt, p, q
  <1>5. Len(p \o q) = Len(s) - 1
    BY <1>1, <1>2
  <1> QED
    BY <1>2, <1>3, <1>4, <1>5

LEMMA RemoveKeeps ==
    ASSUME NEW S, NEW s \in Seq(S), NEW k \in DOMAIN s, Unique(s)
    PROVE  /\ RemoveAt(s, k) \in Seq(S) /\ Len(RemoveAt(s, k)) = Len(s) - 1
           /\ Entries(RemoveAt(s, k)) = Entries(s) \ {s[k]}
           /\ Unique(RemoveAt(s, k))
  <1> DEFINE r == RemoveAt(s, k)
  <1>1. k \in 1..Len(s) /\ DOMAIN s = 1..Len(s) /\ Len(s) \in Nat
    OBVIOUS
  <1>2. /\ r \in Seq(S) /\ Len(r) = Len(s) - 1
        /\ \A i \in 1..Len(s) - 1 : r[i] = IF i < k THEN s[i] ELSE s[i + 1]
    BY <1>1, RemoveAtPoints
  <1>3. DOMAIN r = 1..Len(s) - 1
    BY <1>2
  <1> HIDE DEF r
  <1> DEFINE From(i) == IF i < k THEN i ELSE i + 1
  <1>4. \A i \in DOMAIN r : From(i) \in DOMAIN s /\ From(i) # k /\ r[i] = s[From(i)]
    BY <1>1, <1>2, <1>3
  <1>5. \A j \in DOMAIN s : j # k => \E i \in DOMAIN r : From(i) = j
    <2> TAKE j \in DOMAIN s
    <2> HAVE j # k
    <2>1. CASE j < k
      BY <2>1, <1>1, <1>3
    <2>2. CASE ~(j < k)
      <3>1. j - 1 \in DOMAIN r /\ From(j - 1) = j
        BY <2>2, <1>1, <1>3
      <3> QED
        BY <3>1
    <2> QED
      BY <2>1, <2>2
  <1>6. \A i, j \in DOMAIN r : From(i) = From(j) => i = j
    BY <1>1, <1>3
  <1> HIDE DEF From
  <1>7. \A j \in DOMAIN s : s[j] = s[k] => j = k
    BY DEF Unique
  <1>8. Entries(r) = Entries(s) \ {s[k]}
    <2>1. ASSUME NEW e \in Entries(r) PROVE e \in Entries(s) \ {s[k]}
      <3>1. PICK i \in DOMAIN r : e = r[i]
        BY DEF Entries
      <3>2. From(i) \in DOMAIN s /\ From(i) # k /\ e = s[From(i)]
        BY <3>1, <1>4
      <3> QED
        BY <3>2, <1>7 DEF Entries
    <2>2. ASSUME NEW e \in Entries(s), e # s[k] PROVE e \in Entries(r)
      <3>1. PICK j \in DOMAIN s : e = s[j]
        BY DEF Entries
      <3>2. PICK i \in DOMAIN r : From(i) = j
        BY <3>1, <2>2, <1>5
      <3> QED
        BY <3>1, <3>2, <1>4 DEF Entries
    <2> QED
      BY <2>1, <2>2
  <1>9. Unique(r)
    BY <1>4, <1>6 DEF Unique
  <1> QED
    BY <1>2, <1>8, <1>9 DEF r

(* A list is no shorter than the set of the tokens in it. *)
LEMMA TokensBounded ==
    ASSUME NEW S, NEW s \in Seq(S)
    PROVE  Cardinality({e.token : e \in Entries(s)}) <= Len(s)
  <1> DEFINE T == {e.token : e \in Entries(s)}
             f == [i \in 1..Len(s) |-> s[i].token]
  <1>1. Len(s) \in Nat /\ DOMAIN s = 1..Len(s)
    OBVIOUS
  <1>2. f \in [1..Len(s) -> T] /\ \A t \in T : \E i \in 1..Len(s) : f[i] = t
    BY <1>1 DEF Entries
  <1>3. f \in Surjection(1..Len(s), T)
    BY <1>2 DEF Surjection
  <1>4. ExistsSurjection(1..Len(s), T)
    BY <1>3 DEF ExistsSurjection
  <1> QED
    BY <1>1, <1>4, FS_SurjCardinalityBound

----------------------------------------------------------------------------
(* What the invariant says of the list and of the numbers. *)

LEMMA ListFacts ==
    ASSUME IInv
    PROVE  /\ replyList \in Seq(Request) /\ Len(replyList) \in Nat /\ Len(replyList) <= MaxRequests
           /\ DOMAIN replyList = 1..Len(replyList)
           /\ MaxRequests \in Nat /\ MaxToken \in Nat /\ tokenNum \in Nat
           /\ outcome \in [Tokens -> Outcomes]
           /\ \A e \in Entries(replyList) :
                /\ e.token \in Tokens /\ e.sync \in BOOLEAN /\ outcome[e.token] = "waiting"
                /\ \A f \in Entries(replyList) : e.token = f.token => e = f
  <1>1. replyList \in Seq(Request)
    BY DEF IInv, TypeOK
  <1>2. \A i \in DOMAIN replyList : replyList[i] \in Request
    BY <1>1
  <1>3. \A e \in Entries(replyList) : e.token \in Tokens /\ e.sync \in BOOLEAN
    BY <1>2 DEF Entries, Request
  <1>4. \A e \in Entries(replyList) : outcome[e.token] = "waiting"
    BY <1>3 DEF IInv, Tracked
  <1>5. \A e, f \in Entries(replyList) : e.token = f.token => e = f
    BY DEF IInv, Tracked, Unique, Entries
  <1>6. tokenNum \in Nat /\ Len(replyList) <= MaxRequests /\ outcome \in [Tokens -> Outcomes]
    BY MaxTokenAssumption DEF IInv, TypeOK
  <1> QED
    BY <1>1, <1>3, <1>4, <1>5, <1>6, MaxRequestsAssumption, MaxTokenAssumption

LEMMA InRepliesEntries ==
    \A t : InReplies(t) <=> \E e \in Entries(replyList) : e.token = t
  BY DEF InReplies, Entries

(* The next token is no token of a request. *)
LEMMA FreshToken ==
    ASSUME IInv, tokenNum + 1 <= MaxToken
    PROVE  /\ tokenNum + 1 \in Tokens /\ outcome[tokenNum + 1] = "idle"
           /\ \A e \in Entries(replyList) : e.token # tokenNum + 1
  <1>1. tokenNum + 1 \in Tokens /\ tokenNum + 1 > tokenNum
    BY ListFacts DEF Tokens
  <1>2. outcome[tokenNum + 1] = "idle"
    BY <1>1 DEF IInv, TokensInTurn
  <1> QED
    BY <1>1, <1>2, ListFacts

(* A request is sent. *)
LEMMA SentKept ==
    ASSUME IInv, NEW sync \in BOOLEAN, tokenNum < MaxToken, Sent(sync, tokenNum + 1)
    PROVE  LET n == tokenNum + 1
               x == [token |-> n, sync |-> sync]
           IN  /\ n \in Tokens /\ outcome[n] = "idle" /\ tokenNum' = n
               /\ replyList' \in Seq(Request) /\ Len(replyList') <= MaxRequests
               /\ Unique(replyList')
               /\ Entries(replyList') = IF HasRoom THEN Entries(replyList) \cup {x} ELSE Entries(replyList)
               /\ outcome' = [outcome EXCEPT ![n] = IF HasRoom THEN "waiting" ELSE "untracked"]
               /\ \A t \in Tokens :
                    outcome'[t] = "waiting" <=> \E e \in Entries(replyList') : e.token = t
               /\ outcome' \in [Tokens -> Outcomes]
               /\ \A t \in Tokens : t > tokenNum' => outcome'[t] = "idle"
               /\ \A e \in eventList : outcome'[e.token] = outcome[e.token]
               /\ (up \subseteq UpMessage => up' \subseteq UpMessage)
  <1> DEFINE n == tokenNum + 1
             x == [token |-> n, sync |-> sync]
             o == IF HasRoom THEN "waiting" ELSE "untracked"
  <1>1. n \in Tokens /\ outcome[n] = "idle" /\ \A e \in Entries(replyList) : e.token # n
    BY FreshToken, ListFacts
  <1>2. /\ tokenNum' = n
        /\ outcome' = [outcome EXCEPT ![n] = o]
        /\ replyList' = IF HasRoom THEN Append(replyList, x) ELSE replyList
        /\ up' = up \cup {[topic |-> "property", token |-> n]}
    BY DEF Sent
  <1>3. x \in Request /\ x.token = n
    BY <1>1 DEF Request
  <1>4. Unique(replyList) /\ replyList \in Seq(Request)
    BY ListFacts DEF IInv, Tracked
  <1> HIDE DEF x, n
  <1>5. /\ replyList' \in Seq(Request) /\ Len(replyList') <= MaxRequests /\ Unique(replyList')
        /\ Entries(replyList') = IF HasRoom THEN Entries(replyList) \cup {x} ELSE Entries(replyList)
    <2>1. CASE HasRoom
      <3>1. replyList' = Append(replyList, x)
        BY <2>1, <1>2
      <3>2. Len(replyList) + 1 <= MaxRequests
        BY <2>1, ListFacts DEF HasRoom
      <3> QED
        BY <1>1, <1>3, <1>4, <2>1, <3>1, <3>2, AppendKeeps
    <2>2. CASE ~HasRoom
      BY <1>2, <1>4, <2>2, ListFacts
    <2> QED
      BY <2>1, <2>2
  <1>6. outcome \in [Tokens -> Outcomes] /\ o \in Outcomes
    BY ListFacts DEF Outcomes
  <1>7. /\ outcome' \in [Tokens -> Outcomes] /\ outcome'[n] = o
        /\ \A t \in Tokens : t # n => outcome'[t] = outcome[t]
    BY <1>1, <1>2, <1>6
  <1>8. \A t \in Tokens : outcome[t] = "waiting" <=> \E e \in Entries(replyList) : e.token = t
    BY DEF IInv, Tracked
  <1>9. ASSUME NEW t \in Tokens
        PROVE  outcome'[t] = "waiting" <=> \E e \in Entries(replyList') : e.token = t
    <2>1. CASE t = n
      <3>1. CASE HasRoom
        BY <2>1, <3>1, <1>3, <1>5, <1>7
      <3>2. CASE ~HasRoom
        BY <2>1, <3>2, <1>1, <1>5, <1>7
      <3> QED
        BY <3>1, <3>2
    <2>2. CASE t # n
      BY <2>2, <1>3, <1>5, <1>7, <1>8
    <2> QED
      BY <2>1, <2>2
  <1>10. \A t \in Tokens : t > tokenNum' => outcome'[t] = "idle"
    <2>1. \A t \in Tokens : t > n => t > tokenNum /\ t # n
      BY ListFacts DEF Tokens, n
    <2>2. \A t \in Tokens : t > tokenNum => outcome[t] = "idle"
      BY DEF IInv, TokensInTurn
    <2> QED
      BY <2>1, <2>2, <1>2, <1>7
  <1>11. \A e \in eventList : outcome'[e.token] = outcome[e.token]
    <2>1. \A e \in eventList : e.token \in Tokens
      BY DEF IInv, TypeOK, Event
    <2>2. \A e \in eventList : outcome[e.token] # "idle"
      BY DEF IInv, TokensInTurn
    <2> QED
      BY <2>1, <2>2, <1>1, <1>7
  <1>12. up \subseteq UpMessage => up' \subseteq UpMessage
    <2>1. [topic |-> "property", token |-> n] \in UpMessage
      BY <1>1 DEF UpMessage
    <2> QED
      BY <2>1, <1>2
  <1> QED
    BY <1>1, <1>2, <1>5, <1>7, <1>9, <1>10, <1>11, <1>12 DEF n, x

(* A request is called back, which may send another one. *)
LEMMA CalledBackKept ==
    ASSUME IInv, NEW i \in DOMAIN replyList, NEW ack \in {"accepted", "rejected", "timeout"},
           NEW retry \in BOOLEAN, CalledBack(i, ack, retry)
    PROVE  LET node    == replyList[i]
               n       == tokenNum + 1
               tracked == retry /\ HasRoom
           IN  /\ node \in Entries(replyList)
               /\ replyList' \in Seq(Request) /\ Len(replyList') <= MaxRequests
               /\ Len(replyList') >= Len(replyList) - 1
               /\ Tracked'
               /\ call' \in [token : Tokens, ack : Acks] \cup {Null}
               /\ tokenNum' \in 0..MaxToken
               /\ outcome' \in [Tokens -> Outcomes]
               /\ \A t \in Tokens : t > tokenNum' => outcome'[t] = "idle"
               /\ \A e \in eventList : outcome'[e.token] = outcome[e.token]
               /\ (retry => n \in Tokens /\ outcome[n] = "idle" /\ n # node.token)
  <1> DEFINE node    == replyList[i]
             n       == tokenNum + 1
             tracked == retry /\ HasRoom
             x       == [token |-> n, sync |-> FALSE]
             r       == LeftAfter(i)
  <1>1. /\ call' = AckWritten(node, ack)
        /\ retry => ~node.sync /\ n <= MaxToken
        /\ tokenNum' = IF retry THEN n ELSE tokenNum
        /\ outcome' = [t \in Tokens |->
                           CASE t = node.token   -> ack
                             [] retry /\ t = n   -> IF tracked THEN "waiting" ELSE "untracked"
                             [] OTHER            -> outcome[t]]
        /\ replyList' = r \o (IF tracked THEN <<x>> ELSE <<>>)
    BY DEF CalledBack
  <1>2. /\ node \in Entries(replyList) /\ node.token \in Tokens /\ node.sync \in BOOLEAN
        /\ outcome[node.token] = "waiting"
        /\ \A e \in Entries(replyList) : e.token = node.token => e = node
    BY ListFacts DEF Entries
  <1>3. retry => /\ n \in Tokens /\ outcome[n] = "idle" /\ n # node.token
                 /\ \A e \in Entries(replyList) : e.token # n
    BY <1>1, <1>2, FreshToken
  <1>4. /\ r \in Seq(Request) /\ Len(r) = Len(replyList) - 1
        /\ Entries(r) = Entries(replyList) \ {node} /\ Unique(r)
    <2>1. Unique(replyList) /\ replyList \in Seq(Request)
      BY ListFacts DEF IInv, Tracked
    <2> QED
      BY <2>1, RemoveKeeps DEF LeftAfter
  <1>5. Len(replyList) \in Nat /\ Len(replyList) <= MaxRequests /\ MaxRequests \in Nat
    BY ListFacts
  <1>6. x.token = n /\ x.sync = FALSE /\ (retry => x \in Request)
    BY <1>3 DEF Request
  <1> HIDE DEF r, x, node, n
  <1>7. /\ replyList' \in Seq(Request) /\ Len(replyList') <= MaxRequests
        /\ Len(replyList') >= Len(replyList) - 1 /\ Unique(replyList')
        /\ Entries(replyList') = (Entries(replyList) \ {node}) \cup (IF tracked THEN {x} ELSE {})
    <2>1. CASE tracked
      <3>1. replyList' = r \o <<x>> /\ x \in Request
        BY <1>1, <1>6, <2>1
      <3>2. r \o <<x>> = Append(r, x)
        BY <1>4, <3>1
      <3>3. \A e \in Entries(r) : e.token # x.token
        BY <1>3, <1>4, <1>6, <2>1
      <3>4. /\ replyList' \in Seq(Request) /\ Len(replyList') = Len(r) + 1
            /\ Entries(replyList') = Entries(r) \cup {x} /\ Unique(replyList')
        <4>1. replyList' = Append(r, x) /\ x \in Request
          BY <3>1, <3>2
        <4> QED
          BY <4>1, <3>3, <1>4, AppendKeeps
      <3>5. Len(replyList') = Len(replyList)
        BY <3>4, <1>4, <1>5
      <3> QED
        BY <3>4, <3>5, <2>1, <1>4, <1>5
    <2>2. CASE ~tracked
      <3>1. replyList' = r
        BY <1>1, <1>4, <2>2
      <3> QED
        BY <3>1, <1>4, <1>5, <2>2
    <2> QED
      BY <2>1, <2>2
  <1>8. \A t \in Tokens :
          outcome'[t] = IF t = node.token THEN ack
                        ELSE IF retry /\ t = n THEN (IF tracked THEN "waiting" ELSE "untracked")
                        ELSE outcome[t]
    <2> TAKE t \in Tokens
    <2>1. outcome'[t] = CASE t = node.token   -> ack
                          [] retry /\ t = n   -> IF tracked THEN "waiting" ELSE "untracked"
                          [] OTHER            -> outcome[t]
      BY <1>1
    <2>2. CASE t = node.token
      <3>1. ~(retry /\ t = n)
        BY <2>2, <1>3
      <3> QED
        BY <2>1, <2>2, <3>1
    <2>3. CASE t # node.token
      BY <2>1, <2>3
    <2> QED
      BY <2>2, <2>3
  <1>9. outcome' \in [Tokens -> Outcomes]
    <2>1. ack \in Outcomes /\ "waiting" \in Outcomes /\ "untracked" \in Outcomes
      BY DEF Outcomes
    <2>2. \A t \in Tokens : outcome'[t] \in Outcomes
      BY <2>1, <1>8, ListFacts
    <2> QED
      BY <2>2, <1>1
  <1>10. ASSUME NEW t \in Tokens
         PROVE  outcome'[t] = "waiting" <=> \E e \in Entries(replyList') : e.token = t
    <2>0. outcome[t] = "waiting" <=> \E e \in Entries(replyList) : e.token = t
      BY DEF IInv, Tracked
    <2>1. CASE t = node.token
      <3>1. outcome'[t] # "waiting"
        BY <2>1, <1>8
      <3>2. \A e \in Entries(replyList') : e.token # t
        BY <2>1, <1>2, <1>3, <1>6, <1>7
      <3> QED
        BY <3>1, <3>2
    <2>2. CASE t # node.token /\ retry /\ t = n
      <3>1. CASE HasRoom
        BY <2>2, <3>1, <1>6, <1>7, <1>8
      <3>2. CASE ~HasRoom
        BY <2>2, <3>2, <1>3, <1>7, <1>8
      <3> QED
        BY <3>1, <3>2
    <2>3. CASE t # node.token /\ ~(retry /\ t = n)
      <3>1. outcome'[t] = outcome[t]
        BY <2>3, <1>8
      <3>2. (\E e \in Entries(replyList') : e.token = t) <=> \E e \in Entries(replyList) : e.token = t
        BY <2>3, <1>6, <1>7
      <3> QED
        BY <3>1, <3>2, <2>0
    <2> QED
      BY <2>1, <2>2, <2>3
  <1>11. ASSUME NEW e \in Entries(replyList'), e.sync
         PROVE  call' # Null /\ call'.token = e.token /\ call'.ack = "none"
    <2>1. e \in Entries(replyList) /\ e # node
      BY <1>6, <1>7, <1>11
    <2>2. call # Null /\ call.token = e.token /\ call.ack = "none"
      BY <2>1, <1>11 DEF IInv, Tracked
    <2>3. ~node.sync
      BY <2>1, <2>2, <1>2 DEF IInv, Tracked
    <2>4. call' = call
      BY <2>3, <1>1 DEF AckWritten
    <2> QED
      BY <2>2, <2>4
  <1>12. Tracked'
    BY <1>7, <1>10, <1>11 DEF Tracked
  <1>13. call' \in [token : Tokens, ack : Acks] \cup {Null}
    <2>1. call \in [token : Tokens, ack : Acks] \cup {Null}
      BY DEF IInv, TypeOK
    <2>2. CASE node.sync
      <3>1. call # Null
        BY <2>2, <1>2 DEF IInv, Tracked
      <3>2. call' = [call EXCEPT !.ack = ack] /\ ack \in Acks
        BY <2>2, <1>1 DEF AckWritten, Acks
      <3> QED
        BY <3>1, <3>2, <2>1
    <2>3. CASE ~node.sync
      BY <2>1, <2>3, <1>1 DEF AckWritten
    <2> QED
      BY <2>2, <2>3
  <1>14. tokenNum' \in 0..MaxToken
    <2>1. tokenNum \in 0..MaxToken /\ MaxToken \in Nat
      BY ListFacts DEF IInv, TypeOK
    <2> QED
      BY <2>1, <1>1 DEF n
  <1>15. \A t \in Tokens : t > tokenNum' => outcome'[t] = "idle"
    <2>1. \A t \in Tokens : t > tokenNum => outcome[t] = "idle"
      BY DEF IInv, TokensInTurn
    <2>2. \A t \in Tokens : t > tokenNum' => t > tokenNum /\ (retry => t # n)
      BY <1>1, ListFacts DEF Tokens, n
    <2> QED
      BY <2>1, <2>2, <1>2, <1>8
  <1>16. \A e \in eventList : outcome'[e.token] = outcome[e.token]
    <2>1. \A e \in eventList : e.token \in Tokens
      BY DEF IInv, TypeOK, Event
    <2>2. \A e \in eventList : outcome[e.token] \notin {"idle", "waiting"}
      BY DEF IInv, TokensInTurn
    <2> QED
      BY <2>1, <2>2, <1>2, <1>3, <1>8
  <1> QED
    BY <1>2, <1>3, <1>7, <1>9, <1>12, <1>13, <1>14, <1>15, <1>16 DEF node, n

----------------------------------------------------------------------------
(* The invariant is inductive. *)

LEMMA InitInvariant == Init => IInv
  <1> SUFFICES ASSUME Init PROVE IInv
    OBVIOUS
  <1>1. Cardinality({}) = 0 /\ IsFiniteSet({})
    BY FS_EmptySet
  <1>2. <<>> \in Seq(Request) /\ Len(<<>>) = 0
    OBVIOUS
  <1>3. TypeOK
    BY <1>1, <1>2, MaxRequestsAssumption, MaxEventsAssumption, MaxTokenAssumption
       DEF Init, TypeOK, Stages, Outcomes
  <1>4. Entries(replyList) = {} /\ Unique(replyList)
    BY DEF Init, Entries, Unique
  <1>5. Tracked
    BY <1>4 DEF Tracked, Init
  <1>6. TokensInTurn
    BY DEF TokensInTurn, Init
  <1> QED
    BY <1>1, <1>3, <1>5, <1>6 DEF IInv, Init

LEMMA SameLists ==
    ASSUME IInv, UNCHANGED <<replyList, outcome, call, tokenNum, eventList>>
    PROVE  Tracked' /\ TokensInTurn' /\ IsFiniteSet(eventList')
  BY DEF IInv, Tracked, TokensInTurn

LEMMA FewerEvents ==
    ASSUME IInv, eventList' \subseteq eventList
    PROVE  IsFiniteSet(eventList') /\ eventList' \subseteq Event /\ Cardinality(eventList') <= MaxEvents
  <1>1. IsFiniteSet(eventList) /\ eventList \subseteq Event /\ Cardinality(eventList) <= MaxEvents
    BY DEF IInv, TypeOK
  <1>2. IsFiniteSet(eventList') /\ Cardinality(eventList') <= Cardinality(eventList)
    BY <1>1, FS_Subset
  <1>3. Cardinality(eventList') \in Nat /\ Cardinality(eventList) \in Nat /\ MaxEvents \in Nat
    BY <1>1, <1>2, FS_CardinalityType, MaxEventsAssumption
  <1> QED
    BY <1>1, <1>2, <1>3

(* Only the outcomes of tokens change that are no tokens of requests. *)
LEMMA OtherOutcomes ==
    ASSUME IInv, UNCHANGED <<replyList, call>>,
           \A t \in Tokens : /\ outcome'[t] # outcome[t] => outcome[t] # "waiting"
                             /\ outcome'[t] # outcome[t] => outcome'[t] # "waiting"
    PROVE  Tracked'
  <1>1. \A t \in Tokens : outcome'[t] = "waiting" <=> outcome[t] = "waiting"
    OBVIOUS
  <1> QED
    BY <1>1 DEF IInv, Tracked

(* A request leaves the list without a word, its reply being unreadable. *)
LEMMA DroppedKept ==
    ASSUME IInv, NEW i \in DOMAIN replyList, replyList' = RemoveAt(replyList, i),
           outcome' = [outcome EXCEPT ![replyList[i].token] = "dropped"],
           UNCHANGED <<call, tokenNum, eventList>>
    PROVE  /\ replyList' \in Seq(Request) /\ Len(replyList') <= MaxRequests
           /\ replyList[i] \in Entries(replyList)
           /\ outcome' \in [Tokens -> Outcomes]
           /\ Tracked' /\ TokensInTurn'
  <1> DEFINE node == replyList[i]
  <1>1. /\ node \in Entries(replyList) /\ node.token \in Tokens /\ outcome[node.token] = "waiting"
        /\ \A e \in Entries(replyList) : e.token = node.token => e = node
    BY ListFacts DEF Entries
  <1>2. /\ replyList' \in Seq(Request) /\ Len(replyList') = Len(replyList) - 1
        /\ Entries(replyList') = Entries(replyList) \ {node} /\ Unique(replyList')
    <2>1. Unique(replyList) /\ replyList \in Seq(Request)
      BY ListFacts DEF IInv, Tracked
    <2> QED
      BY <2>1, RemoveKeeps
  <1>3. Len(replyList') <= MaxRequests
    BY <1>2, ListFacts
  <1> HIDE DEF node
  <1>4. /\ outcome' \in [Tokens -> Outcomes] /\ outcome'[node.token] = "dropped"
        /\ \A t \in Tokens : t # node.token => outcome'[t] = outcome[t]
    <2>1. "dropped" \in Outcomes
      BY DEF Outcomes
    <2> QED
      BY <2>1, <1>1, ListFacts DEF node
  <1>5. ASSUME NEW t \in Tokens
        PROVE  outcome'[t] = "waiting" <=> \E e \in Entries(replyList') : e.token = t
    <2>1. outcome[t] = "waiting" <=> \E e \in Entries(replyList) : e.token = t
      BY DEF IInv, Tracked
    <2> QED
      BY <2>1, <1>1, <1>2, <1>4
  <1>6. Tracked'
    BY <1>2, <1>5 DEF IInv, Tracked
  <1>7. TokensInTurn'
    <2>1. \A t \in Tokens : t > tokenNum => outcome[t] = "idle"
      BY DEF IInv, TokensInTurn
    <2>2. \A e \in eventList : e.token \in Tokens /\ outcome[e.token] \in {"posted", "replied", "expired"}
      BY DEF IInv, TypeOK, TokensInTurn, Event
    <2>3. \A t \in Tokens : t > tokenNum => outcome'[t] = "idle"
      BY <2>1, <1>1, <1>4
    <2>4. \A e \in eventList : outcome'[e.token] \in {"posted", "replied", "expired"}
      BY <2>2, <1>1, <1>4
    <2> QED
      BY <2>3, <2>4 DEF TokensInTurn
  <1> QED
    BY <1>1, <1>2, <1>3, <1>4, <1>6, <1>7 DEF node

(* The message that asks for token n again, when a callback does. *)
LEMMA RetryType ==
    ASSUME up \subseteq UpMessage, NEW n, NEW retry \in BOOLEAN, retry => n \in Tokens,
           up' = IF retry THEN up \cup {[topic |-> "property", token |-> n]} ELSE up
    PROVE  up' \subseteq UpMessage
  BY DEF UpMessage

LEMMA ConnectedType == TypeOK /\ [Next]_vars => connected' \in BOOLEAN
  <1> SUFFICES ASSUME TypeOK, [Next]_vars PROVE connected' \in BOOLEAN
    OBVIOUS
  <1>1. connected \in BOOLEAN
    BY DEF TypeOK
  <1>2. CASE ConnectionChanges
    BY <1>1, <1>2 DEF ConnectionChanges
  <1>3. CASE ~ConnectionChanges
    <2>1. connected' = connected
      BY <1>3 DEF Next, SubscribeTopic, SubscribeRefused, CheckSubscribe, SubscribeEvent,
             Report, SyncBegin, SyncReturn, PostEvent, YieldBegin, ReplyNotExpired, YieldEnd,
             ReplyExpired, EventsExpired, HandleEventReply, HandleReply, Destroy, CloudReplies,
             net, vars
    <2> QED
      BY <1>1, <2>1
  <1> QED
    BY <1>2, <1>3

LEMMA NextInvariant == IInv /\ [Next]_vars => IInv'
  <1> SUFFICES ASSUME IInv, [Next]_vars PROVE IInv'
    OBVIOUS
  <1>t. TypeOK
    BY DEF IInv
  <1>c. connected' \in BOOLEAN
    BY <1>t, ConnectedType
  <1>l. /\ Len(replyList) \in Nat /\ Len(replyList) <= MaxRequests /\ MaxRequests \in Nat
        /\ replyList \in Seq(Request) /\ pos \in 0..Len(replyList)
        /\ (at # "replies" => pos = 0)
    BY ListFacts DEF IInv, TypeOK
  <1>1. CASE \/ SubscribeTopic \/ SubscribeRefused \/ CheckSubscribe
             \/ (\E e \in {"SUB_SUCCESS", "SUB_TIMEOUT", "SUB_NACK"} : SubscribeEvent(e))
             \/ UNCHANGED vars
    <2>1. UNCHANGED <<replyList, outcome, call, tokenNum, eventList, pos, up, down>>
      BY <1>1 DEF SubscribeTopic, SubscribeRefused, CheckSubscribe, SubscribeEvent, lists, place, net, vars
    <2>2. at' = at \/ (at = "mqtt" /\ at' = "app")
      BY <1>1 DEF SubscribeTopic, SubscribeRefused, CheckSubscribe, SubscribeEvent, place, vars
    <2>3. phase' \in Stages \cup {"ready", "failed", "destroyed"}
      BY <1>1, <1>t DEF TypeOK, SubscribeTopic, SubscribeRefused, CheckSubscribe, SubscribeEvent, StageAfter, Stages, vars
    <2>4. syncStatus' \in {"unset", "pending", "synced", "failed"}
      BY <1>1, <1>t DEF TypeOK, SubscribeTopic, SubscribeRefused, CheckSubscribe, SubscribeEvent, vars
    <2>5. TypeOK'
      BY <2>1, <2>2, <2>3, <2>4, <1>t, <1>c DEF TypeOK
    <2> QED
      BY <2>1, <2>2, <2>5, <1>l, SameLists DEF IInv
  <1>2. CASE Report
    <2>0. tokenNum < MaxToken /\ Sent(FALSE, tokenNum + 1) /\ at = "app" /\ call = Null
      BY <1>2 DEF Report, Free
    <2>a. UNCHANGED <<phase, syncStatus, eventList, call, at, pos, down>>
      BY <1>2 DEF Report, setup, place
    <2> DEFINE x == [token |-> tokenNum + 1, sync |-> FALSE]
    <2>1. /\ tokenNum + 1 \in Tokens /\ tokenNum' = tokenNum + 1
          /\ replyList' \in Seq(Request) /\ Len(replyList') <= MaxRequests /\ Unique(replyList')
          /\ Entries(replyList') = IF HasRoom THEN Entries(replyList) \cup {x} ELSE Entries(replyList)
          /\ outcome' \in [Tokens -> Outcomes]
          /\ \A t \in Tokens : outcome'[t] = "waiting" <=> \E e \in Entries(replyList') : e.token = t
          /\ \A t \in Tokens : t > tokenNum' => outcome'[t] = "idle"
          /\ \A e \in eventList : outcome'[e.token] = outcome[e.token]
          /\ (up \subseteq UpMessage => up' \subseteq UpMessage)
      BY <2>0, SentKept
    <2>2. x.sync = FALSE
      OBVIOUS
    <2> HIDE DEF x
    <2>3. \A e \in Entries(replyList') : ~e.sync
      <3>1. \A e \in Entries(replyList) : ~e.sync
        BY <2>0 DEF IInv, Tracked
      <3> QED
        BY <3>1, <2>1, <2>2
    <2>4. Tracked'
      BY <2>1, <2>3 DEF Tracked
    <2>5. TokensInTurn'
      BY <2>1, <2>a DEF IInv, TokensInTurn
    <2>6. tokenNum' \in 0..MaxToken
      BY <2>1, MaxTokenAssumption DEF Tokens
    <2>7. pos' \in 0..Len(replyList') /\ pos' = 0
      <3>1. Len(replyList') \in Nat
        BY <2>1
      <3> QED
        BY <3>1, <2>0, <2>a, <1>l
    <2>8. TypeOK'
      BY <2>1, <2>6, <2>7, <2>a, <1>t, <1>c DEF TypeOK
    <2> QED
      BY <2>4, <2>5, <2>7, <2>8, <2>a DEF IInv
  <1>3. CASE SyncBegin
    <2>0. tokenNum < MaxToken /\ Sent(TRUE, tokenNum + 1) /\ at = "app" /\ call = Null
      BY <1>3 DEF SyncBegin, Free
    <2>a. UNCHANGED <<phase, syncStatus, eventList, at, pos, down>>
      BY <1>3 DEF SyncBegin, setup, place
    <2> DEFINE x == [token |-> tokenNum + 1, sync |-> TRUE]
               c == [token |-> tokenNum + 1, ack |-> "none"]
    <2>1. /\ tokenNum + 1 \in Tokens /\ tokenNum' = tokenNum + 1
          /\ replyList' \in Seq(Request) /\ Len(replyList') <= MaxRequests /\ Unique(replyList')
          /\ Entries(replyList') = IF HasRoom THEN Entries(replyList) \cup {x} ELSE Entries(replyList)
          /\ outcome' \in [Tokens -> Outcomes]
          /\ \A t \in Tokens : outcome'[t] = "waiting" <=> \E e \in Entries(replyList') : e.token = t
          /\ \A t \in Tokens : t > tokenNum' => outcome'[t] = "idle"
          /\ \A e \in eventList : outcome'[e.token] = outcome[e.token]
          /\ (up \subseteq UpMessage => up' \subseteq UpMessage)
      BY <2>0, SentKept
    <2>b. call' = IF HasRoom THEN c ELSE Null
      BY <1>3 DEF SyncBegin
    <2>c. /\ c \in [token : Tokens, ack : Acks] /\ c # Null
          /\ c.token = tokenNum + 1 /\ c.ack = "none" /\ x.token = tokenNum + 1
      <3>1. c \in [token : Tokens, ack : Acks]
        BY <2>1 DEF Acks
      <3> QED
        BY <3>1, NullAssumption
    <2> HIDE DEF x, c
    <2>3. ASSUME NEW e \in Entries(replyList'), e.sync
          PROVE  call' # Null /\ call'.token = e.token /\ call'.ack = "none"
      <3>1. \A f \in Entries(replyList) : ~f.sync
        BY <2>0 DEF IInv, Tracked
      <3>2. HasRoom /\ e = x
        BY <3>1, <2>1, <2>3
      <3> QED
        BY <3>2, <2>b, <2>c
    <2>4. Tracked'
      BY <2>1, <2>3 DEF Tracked
    <2>5. TokensInTurn'
      BY <2>1, <2>a DEF IInv, TokensInTurn
    <2>6. tokenNum' \in 0..MaxToken
      BY <2>1, MaxTokenAssumption DEF Tokens
    <2>7. pos' \in 0..Len(replyList') /\ pos' = 0
      <3>1. Len(replyList') \in Nat
        BY <2>1
      <3> QED
        BY <3>1, <2>0, <2>a, <1>l
    <2>8. call' \in [token : Tokens, ack : Acks] \cup {Null}
      BY <2>b, <2>c
    <2>9. TypeOK'
      BY <2>1, <2>6, <2>7, <2>8, <2>a, <1>t, <1>c DEF TypeOK
    <2> QED
      BY <2>4, <2>5, <2>7, <2>9, <2>a DEF IInv
  <1>4. CASE SyncReturn
    <2>1. UNCHANGED <<phase, syncStatus, replyList, eventList, tokenNum, at, pos, up, down, outcome>>
      BY <1>4 DEF SyncReturn, setup, lists, place, net
    <2>2. call' = Null /\ call # Null /\ call.ack # "none"
      BY <1>4 DEF SyncReturn, Acked
    <2>3. \A e \in Entries(replyList) : ~e.sync
      BY <2>2 DEF IInv, Tracked
    <2>4. Tracked' /\ TokensInTurn'
      BY <2>1, <2>3 DEF IInv, Tracked, TokensInTurn
    <2>5. TypeOK'
      BY <2>1, <2>2, <1>t, <1>c DEF TypeOK
    <2> QED
      BY <2>1, <2>4, <2>5, <1>l DEF IInv
  <1>5. ASSUME NEW c \in BOOLEAN, NEW p \in BOOLEAN, PostEvent(c, p)
        PROVE  IInv'
    <2> DEFINE n == tokenNum + 1
               x == [token |-> n, callback |-> c]
    <2>1. /\ tokenNum < MaxToken /\ Cardinality(eventList) < MaxEvents
          /\ eventList' = eventList \cup {x} /\ tokenNum' = n
          /\ up' = (IF p THEN up \cup {[topic |-> "event", token |-> n]} ELSE up)
          /\ outcome' = [outcome EXCEPT ![n] = "posted"]
          /\ UNCHANGED <<phase, syncStatus, replyList, call, at, pos, down>>
      BY <1>5 DEF PostEvent, setup, place
    <2>2. n \in Tokens /\ outcome[n] = "idle"
      BY <2>1, FreshToken, ListFacts
    <2>3. x \in Event /\ x.token = n /\ [topic |-> "event", token |-> n] \in UpMessage
      BY <2>2 DEF Event, UpMessage
    <2>4. /\ outcome' \in [Tokens -> Outcomes] /\ outcome'[n] = "posted"
          /\ \A t \in Tokens : t # n => outcome'[t] = outcome[t]
      <3>1. "posted" \in Outcomes
        BY DEF Outcomes
      <3> QED
        BY <3>1, <2>1, <2>2, ListFacts
    <2>5. IsFiniteSet(eventList') /\ Cardinality(eventList') <= MaxEvents /\ eventList' \subseteq Event
      <3>1. IsFiniteSet(eventList) /\ eventList \subseteq Event
        BY DEF IInv, TypeOK
      <3>2. Cardinality(eventList) \in Nat /\ MaxEvents \in Nat
        BY <3>1, FS_CardinalityType, MaxEventsAssumption
      <3>3. /\ IsFiniteSet(eventList \cup {x})
            /\ Cardinality(eventList \cup {x}) = Cardinality(eventList)
               \/ Cardinality(eventList \cup {x}) = Cardinality(eventList) + 1
        BY <3>1, FS_AddElement
      <3> QED
        BY <3>1, <3>2, <3>3, <2>1, <2>3
    <2>6. tokenNum' \in 0..MaxToken
      BY <2>1, <2>2, MaxTokenAssumption DEF Tokens
    <2>7. up' \subseteq UpMessage
      BY <2>1, <2>3, <1>t DEF TypeOK
    <2> HIDE DEF n, x
    <2>8. Tracked'
      BY <2>1, <2>2, <2>4, OtherOutcomes
    <2>9. TokensInTurn'
      <3>1. \A t \in Tokens : t > n => t > tokenNum /\ t # n
        BY ListFacts DEF Tokens, n
      <3>2. /\ \A t \in Tokens : t > tokenNum => outcome[t] = "idle"
            /\ \A e \in eventList : e.token \in Tokens /\ outcome[e.token] \in {"posted", "replied", "expired"}
        BY <1>t DEF IInv, TypeOK, TokensInTurn, Event
      <3>3. \A t \in Tokens : t > tokenNum' => outcome'[t] = "idle"
        BY <3>1, <3>2, <2>1, <2>4
      <3>4. \A e \in eventList' : outcome'[e.token] \in {"posted", "replied", "expired"}
        BY <3>2, <2>1, <2>2, <2>3, <2>4
      <3> QED
        BY <3>3, <3>4 DEF TokensInTurn
    <2>10. TypeOK'
      BY <2>1, <2>4, <2>5, <2>6, <2>7, <1>t, <1>c DEF TypeOK
    <2> QED
      BY <2>1, <2>5, <2>8, <2>9, <2>10, <1>l DEF IInv
  <1>6. CASE YieldBegin \/ ReplyNotExpired \/ YieldEnd
    <2>1. UNCHANGED <<phase, syncStatus, replyList, eventList, tokenNum, call, up, down, outcome>>
      BY <1>6 DEF YieldBegin, ReplyNotExpired, YieldEnd, setup, lists, net
    <2>2. \/ at' = "replies" /\ pos' = Len(replyList)
          \/ at' = at /\ at = "replies" /\ pos > 0 /\ pos' = pos - 1
          \/ at = "mqtt" /\ at' = "app" /\ pos' = pos
      BY <1>6 DEF YieldBegin, ReplyNotExpired, YieldEnd
    <2>3. pos' \in 0..Len(replyList') /\ at' \in {"app", "replies", "mqtt"} /\ (at' # "replies" => pos' = 0)
      BY <2>1, <2>2, <1>l
    <2>4. TypeOK'
      BY <2>1, <2>3, <1>t, <1>c DEF TypeOK
    <2> QED
      BY <2>1, <2>3, <2>4, SameLists DEF IInv
  <1>7. ASSUME NEW retry \in BOOLEAN, ReplyExpired(retry)
        PROVE  IInv'
    <2>1. /\ at = "replies" /\ pos > 0 /\ CalledBack(pos, "timeout", retry)
          /\ up' = (IF retry THEN up \cup {[topic |-> "property", token |-> tokenNum + 1]} ELSE up)
          /\ pos' = pos - 1
          /\ UNCHANGED <<phase, syncStatus, eventList, at, down>>
      BY <1>7 DEF ReplyExpired, setup
    <2>2. pos \in DOMAIN replyList
      BY <2>1, <1>l
    <2>3. /\ replyList' \in Seq(Request) /\ Len(replyList') <= MaxRequests
          /\ Len(replyList') >= Len(replyList) - 1
          /\ Tracked'
          /\ call' \in [token : Tokens, ack : Acks] \cup {Null}
          /\ tokenNum' \in 0..MaxToken
          /\ outcome' \in [Tokens -> Outcomes]
          /\ \A t \in Tokens : t > tokenNum' => outcome'[t] = "idle"
          /\ \A e \in eventList : outcome'[e.token] = outcome[e.token]
          /\ (retry => tokenNum + 1 \in Tokens)
      BY <2>1, <2>2, CalledBackKept
    <2>4. TokensInTurn'
      BY <2>1, <2>3 DEF IInv, TokensInTurn
    <2>5. pos' \in 0..Len(replyList')
      <3>1. Len(replyList') \in Nat
        BY <2>3
      <3> QED
        BY <3>1, <2>1, <2>3, <1>l
    <2>6. up' \subseteq UpMessage
      BY <2>1, <2>3, <1>t, RetryType DEF TypeOK
    <2>7. TypeOK'
      BY <2>1, <2>3, <2>5, <2>6, <1>t, <1>c DEF TypeOK
    <2> QED
      BY <2>1, <2>3, <2>4, <2>7 DEF IInv
  <1>8. ASSUME NEW ts \in SUBSET Tokens, EventsExpired(ts)
        PROVE  IInv'
    <2>1. /\ at = "replies" /\ pos = 0 /\ at' = "mqtt"
          /\ ts \subseteq {e.token : e \in eventList}
          /\ eventList' = {e \in eventList : e.token \notin ts}
          /\ outcome' = [t \in Tokens |-> IF t \in ts THEN "expired" ELSE outcome[t]]
          /\ UNCHANGED <<phase, syncStatus, replyList, tokenNum, call, pos, up, down>>
      BY <1>8 DEF EventsExpired, Without, setup, net
    <2>2. IsFiniteSet(eventList') /\ eventList' \subseteq Event /\ Cardinality(eventList') <= MaxEvents
      BY <2>1, FewerEvents
    <2>3. \A e \in eventList : e.token \in Tokens /\ outcome[e.token] \in {"posted", "replied", "expired"}
      BY <1>t DEF IInv, TypeOK, TokensInTurn, Event
    <2>4. \A t \in ts : outcome[t] \in {"posted", "replied", "expired"}
      BY <2>1, <2>3
    <2>5. Tracked'
      BY <2>1, <2>4, OtherOutcomes
    <2>6. TokensInTurn'
      <3>1. \A t \in Tokens : t > tokenNum => outcome[t] = "idle"
        BY DEF IInv, TokensInTurn
      <3>2. \A t \in Tokens : t > tokenNum' => outcome'[t] = "idle"
        BY <3>1, <2>1, <2>4
      <3>3. \A e \in eventList' : outcome'[e.token] \in {"posted", "replied", "expired"}
        BY <2>1, <2>3
      <3> QED
        BY <3>2, <3>3 DEF TokensInTurn
    <2>7. outcome' \in [Tokens -> Outcomes]
      <3>1. "expired" \in Outcomes /\ \A t \in Tokens : outcome[t] \in Outcomes
        BY ListFacts DEF Outcomes
      <3> QED
        BY <3>1, <2>1
    <2>8. TypeOK'
      BY <2>1, <2>2, <2>7, <1>t, <1>c DEF TypeOK
    <2> QED
      BY <2>1, <2>2, <2>5, <2>6, <2>8 DEF IInv
  <1>9. ASSUME NEW m \in down, HandleEventReply(m)
        PROVE  IInv'
    <2> DEFINE taken == {e \in eventList : e.token = m.token /\ e.callback /\ m.code # "unreadable"}
    <2>1. /\ at = "mqtt" /\ down' = down \ {m}
          /\ eventList' = eventList \ taken
          /\ outcome' = [t \in Tokens |-> IF \E e \in taken : e.token = t THEN "replied" ELSE outcome[t]]
          /\ UNCHANGED <<phase, syncStatus, replyList, tokenNum, call, at, pos, up>>
      BY <1>9 DEF HandleEventReply, setup, place
    <2>2. taken \subseteq eventList
      OBVIOUS
    <2> HIDE DEF taken
    <2>3. IsFiniteSet(eventList') /\ eventList' \subseteq Event /\ Cardinality(eventList') <= MaxEvents
      BY <2>1, FewerEvents
    <2>4. \A e \in eventList : e.token \in Tokens /\ outcome[e.token] \in {"posted", "replied", "expired"}
      BY <1>t DEF IInv, TypeOK, TokensInTurn, Event
    <2>5. \A t \in Tokens : \/ outcome'[t] = outcome[t]
                            \/ outcome'[t] = "replied" /\ outcome[t] \in {"posted", "replied", "expired"}
      BY <2>1, <2>2, <2>4
    <2>6. Tracked'
      BY <2>1, <2>5, OtherOutcomes
    <2>7. TokensInTurn'
      <3>1. \A t \in Tokens : t > tokenNum => outcome[t] = "idle"
        BY DEF IInv, TokensInTurn
      <3>2. \A t \in Tokens : t > tokenNum' => outcome'[t] = "idle"
        BY <3>1, <2>1, <2>5
      <3>3. \A e \in eventList' : outcome'[e.token] \in {"posted", "replied", "expired"}
        BY <2>1, <2>4, <2>5
      <3> QED
        BY <3>2, <3>3 DEF TokensInTurn
    <2>8. outcome' \in [Tokens -> Outcomes]
      <3>1. "replied" \in Outcomes /\ \A t \in Tokens : outcome[t] \in Outcomes
        BY ListFacts DEF Outcomes
      <3> QED
        BY <3>1, <2>1
    <2>9. down' \subseteq DownMessage
      BY <2>1, <1>t DEF TypeOK
    <2>10. TypeOK'
      BY <2>1, <2>3, <2>8, <2>9, <1>t, <1>c DEF TypeOK
    <2> QED
      BY <2>1, <2>3, <2>6, <2>7, <2>10, <1>l DEF IInv
  <1>10. ASSUME NEW m \in down, NEW retry \in BOOLEAN, HandleReply(m, retry)
         PROVE  IInv'
    <2>1. /\ at = "mqtt" /\ down' = down \ {m}
          /\ (retry => InReplies(m.token) /\ m.code # "unreadable")
          /\ up' = (IF retry THEN up \cup {[topic |-> "property", token |-> tokenNum + 1]} ELSE up)
          /\ UNCHANGED <<phase, syncStatus, eventList, at, pos>>
      BY <1>10 DEF HandleReply, setup, place
    <2>2. pos = 0 /\ m.code \in Codes
      BY <2>1, <1>t, <1>l DEF TypeOK, DownMessage
    <2>3. ASSUME replyList' \in Seq(Request), Len(replyList') <= MaxRequests,
                 Tracked', TokensInTurn', outcome' \in [Tokens -> Outcomes],
                 call' \in [token : Tokens, ack : Acks] \cup {Null},
                 tokenNum' \in 0..MaxToken, retry => tokenNum + 1 \in Tokens
          PROVE  IInv'
      <3>1. up' \subseteq UpMessage
        BY <2>1, <2>3, <1>t, RetryType DEF TypeOK
      <3>2. pos' \in 0..Len(replyList')
        <4>1. Len(replyList') \in Nat
          BY <2>3
        <4> QED
          BY <4>1, <2>1, <2>2
      <3>3. down' \subseteq DownMessage
        BY <2>1, <1>t DEF TypeOK
      <3>4. TypeOK'
        BY <2>1, <2>3, <3>1, <3>2, <3>3, <1>t, <1>c DEF TypeOK
      <3> QED
        BY <2>1, <2>2, <2>3, <3>4 DEF IInv
    <2>4. CASE ~InReplies(m.token) /\ UNCHANGED <<replyList, outcome, call, tokenNum>>
      <3>1. Tracked' /\ TokensInTurn'
        BY <2>1, <2>4, SameLists
      <3> QED
        BY <2>1, <2>3, <2>4, <3>1, <1>t DEF TypeOK
    <2>5. ASSUME NEW i \in DOMAIN replyList, replyList[i].token = m.token, m.code = "unreadable",
                 replyList' = RemoveAt(replyList, i),
                 outcome' = [outcome EXCEPT ![m.token] = "dropped"],
                 UNCHANGED <<call, tokenNum>>
          PROVE  IInv'
      <3>1. outcome' = [outcome EXCEPT ![replyList[i].token] = "dropped"] /\ UNCHANGED <<call, tokenNum, eventList>>
        BY <2>1, <2>5
      <3>2. /\ replyList' \in Seq(Request) /\ Len(replyList') <= MaxRequests
            /\ outcome' \in [Tokens -> Outcomes] /\ Tracked' /\ TokensInTurn'
        BY <2>5, <3>1, DroppedKept
      <3>3. ~retry
        BY <2>1, <2>5
      <3> QED
        BY <2>3, <2>5, <3>2, <3>3, <1>t DEF TypeOK
    <2>6. ASSUME NEW i \in DOMAIN replyList, m.code # "unreadable", CalledBack(i, m.code, retry)
          PROVE  IInv'
      <3>1. m.code \in {"accepted", "rejected", "timeout"}
        BY <2>2, <2>6 DEF Codes
      <3>2. /\ replyList' \in Seq(Request) /\ Len(replyList') <= MaxRequests
            /\ Tracked'
            /\ call' \in [token : Tokens, ack : Acks] \cup {Null}
            /\ tokenNum' \in 0..MaxToken
            /\ outcome' \in [Tokens -> Outcomes]
            /\ \A t \in Tokens : t > tokenNum' => outcome'[t] = "idle"
            /\ \A e \in eventList : outcome'[e.token] = outcome[e.token]
            /\ (retry => tokenNum + 1 \in Tokens)
        BY <2>6, <3>1, CalledBackKept
      <3>3. TokensInTurn'
        BY <2>1, <3>2 DEF IInv, TokensInTurn
      <3> QED
        BY <2>3, <3>2, <3>3
    <2>7. \/ ~InReplies(m.token) /\ UNCHANGED <<replyList, outcome, call, tokenNum>>
          \/ \E i \in DOMAIN replyList :
               /\ replyList[i].token = m.token
               /\ IF m.code = "unreadable"
                  THEN /\ replyList' = RemoveAt(replyList, i)
                       /\ outcome' = [outcome EXCEPT ![m.token] = "dropped"]
                       /\ UNCHANGED <<call, tokenNum>>
                  ELSE CalledBack(i, m.code, retry)
      BY <1>10 DEF HandleReply
    <2> QED
      BY <2>4, <2>5, <2>6, <2>7
  <1>11. CASE Destroy
    <2>1. /\ at = "app" /\ call = Null /\ phase' = "destroyed"
          /\ replyList' = <<>> /\ eventList' = {} /\ up' = {} /\ down' = {}
          /\ outcome' = [t \in Tokens |-> IF InReplies(t) THEN "abandoned" ELSE outcome[t]]
          /\ UNCHANGED <<syncStatus, tokenNum, call, at, pos>>
      BY <1>11 DEF Destroy, Free, place
    <2>2. Entries(replyList') = {} /\ Unique(replyList')
      BY <2>1 DEF Entries, Unique
    <2>3. \A t \in Tokens : outcome[t] = "waiting" <=> InReplies(t)
      BY InRepliesEntries DEF IInv, Tracked
    <2>4. \A t \in Tokens : outcome'[t] # "waiting"
      BY <2>1, <2>3
    <2>5. Tracked'
      BY <2>2, <2>4 DEF Tracked
    <2>6. TokensInTurn'
      <3>1. \A t \in Tokens : t > tokenNum => outcome[t] = "idle"
        BY DEF IInv, TokensInTurn
      <3> QED
        BY <3>1, <2>1, <2>3 DEF TokensInTurn
    <2>7. outcome' \in [Tokens -> Outcomes]
      <3>1. "abandoned" \in Outcomes /\ \A t \in Tokens : outcome[t] \in Outcomes
        BY ListFacts DEF Outcomes
      <3> QED
        BY <3>1, <2>1
    <2>8. replyList' \in Seq(Request) /\ Len(replyList') = 0
      <3>1. <<>> \in Seq(Request)
        OBVIOUS
      <3> QED
        BY <3>1, <2>1
    <2>9. IsFiniteSet(eventList') /\ Cardinality(eventList') = 0
      BY <2>1, FS_EmptySet
    <2>10. TypeOK'
      BY <2>1, <2>7, <2>8, <2>9, <1>t, <1>c, <1>l, MaxEventsAssumption DEF TypeOK
    <2> QED
      BY <2>1, <2>5, <2>6, <2>9, <2>10, <1>l DEF IInv
  <1>12. ASSUME NEW m \in up, NEW c \in Codes, CloudReplies(m, c)
         PROVE  IInv'
    <2> DEFINE d == [topic |-> m.topic, token |-> m.token, code |-> c]
    <2>1. /\ up' = up \ {m} /\ down' = down \cup {d}
          /\ UNCHANGED <<phase, syncStatus, replyList, eventList, tokenNum, call, at, pos, outcome>>
      BY <1>12 DEF CloudReplies, setup, lists, place
    <2>2. d \in DownMessage
      <3>1. m \in UpMessage
        BY <1>t DEF TypeOK
      <3> QED
        BY <3>1 DEF UpMessage, DownMessage
    <2>3. TypeOK'
      BY <2>1, <2>2, <1>t, <1>c DEF TypeOK
    <2> QED
      BY <2>1, <2>3, <1>l, SameLists DEF IInv
  <1>13. CASE ConnectionChanges
    <2>1. UNCHANGED <<phase, syncStatus, replyList, eventList, tokenNum, call, at, pos, up, down, outcome>>
      BY <1>13 DEF ConnectionChanges, setup, lists, place
    <2>2. TypeOK'
      BY <2>1, <1>t, <1>c DEF TypeOK
    <2> QED
      BY <2>1, <2>2, <1>l, SameLists DEF IInv
  <1> QED
    BY <1>1, <1>2, <1>3, <1>4, <1>5, <1>6, <1>7, <1>8, <1>9, <1>10, <1>11, <1>12, <1>13 DEF Next

LEMMA InvariantHolds == Spec => []IInv
  BY InitInvariant, NextInvariant, PTL DEF Spec

(* The values of the variables stay in their types: neither list grows     *)
(* past its capacity, also when a callback sends a request of its own.     *)
THEOREM TypeCorrect == Spec => []TypeOK
  <1>1. IInv => TypeOK
    BY DEF IInv
  <1> QED
    BY <1>1, InvariantHolds, PTL

(* No request in the list of a client points into the stack of a call that *)
(* has returned (IOT_Template_Report_Sync and the other synchronous calls, *)
(* whose ack variable is the user context of their request).               *)
THEOREM ContextsAreAlive == Spec => []NoDanglingContext
  <1>1. IInv => NoDanglingContext
    BY DEF IInv, Tracked, NoDanglingContext, Entries
  <1> QED
    BY <1>1, InvariantHolds, PTL

----------------------------------------------------------------------------
(* The request list implements the promise of TemplateContract. *)

Unasked == {"untracked", "posted", "replied", "expired"}
Seen(o) == IF o \in Unasked THEN "idle" ELSE o
Status  == [t \in Tokens |-> Seen(outcome[t])]

(* The steps of the contract, in terms of Status. *)
LEMMA ContractInit == Contract!Init <=> Status = [t \in Tokens |-> "idle"]
  BY DEF Status, Seen, Unasked, Contract!Init

LEMMA ContractWaiting == Contract!Waiting = {t \in Tokens : Status[t] = "waiting"}
  BY DEF Status, Seen, Unasked, Contract!Waiting

LEMMA ContractCardinality == \A S : Contract!Cardinality(S) = Cardinality(S)
  BY DEF Cardinality, Contract!Cardinality

LEMMA ContractSend ==
    ASSUME NEW r \in Tokens, Status[r] = "idle", Cardinality(Contract!Waiting) < MaxRequests,
           Status' = [Status EXCEPT ![r] = "waiting"]
    PROVE  Contract!Next
  <1>1. Contract!Send(r)
    BY ContractCardinality DEF Status, Seen, Unasked, Contract!Send
  <1> QED
    BY <1>1 DEF Contract!Next

LEMMA ContractAnswer ==
    ASSUME NEW r \in Tokens, NEW a \in {"accepted", "rejected", "timeout"}, Status[r] = "waiting",
           Status' = [Status EXCEPT ![r] = a]
    PROVE  Contract!Next
  <1>1. Contract!Answer(r)
    BY DEF Status, Seen, Unasked, Contract!Answer, Contract!Answers
  <1> QED
    BY <1>1 DEF Contract!Next

LEMMA ContractDrop ==
    ASSUME NEW r \in Tokens, Status[r] = "waiting", Status' = [Status EXCEPT ![r] = "dropped"]
    PROVE  Contract!Next
  <1>1. Contract!Drop(r)
    BY DEF Status, Seen, Unasked, Contract!Drop
  <1> QED
    BY <1>1 DEF Contract!Next

LEMMA ContractAnswerAndSend ==
    ASSUME NEW r \in Tokens, NEW t \in Tokens, NEW a \in {"accepted", "rejected", "timeout"},
           Status[r] = "waiting", Status[t] = "idle", Cardinality(Contract!Waiting) < MaxRequests,
           Status' = [Status EXCEPT ![r] = a, ![t] = "waiting"]
    PROVE  Contract!Next
  <1>1. Contract!AnswerAndSend(r, t)
    BY ContractCardinality DEF Status, Seen, Unasked, Contract!AnswerAndSend, Contract!Answers
  <1> QED
    BY <1>1 DEF Contract!Next

LEMMA ContractAbandon ==
    ASSUME Status' = [t \in Tokens |-> IF t \in Contract!Waiting THEN "abandoned" ELSE Status[t]]
    PROVE  Contract!Next
  <1>1. Contract!Abandon
    BY DEF Status, Seen, Unasked, Contract!Abandon
  <1> QED
    BY <1>1 DEF Contract!Next

LEMMA StatusPoints ==
    /\ \A t \in Tokens : Status[t] = Seen(outcome[t])
    /\ \A t \in Tokens : Status'[t] = Seen(outcome'[t])
  BY DEF Status

(* No more requests wait than the list has room for. *)
LEMMA WaitingBounded ==
    ASSUME IInv
    PROVE  /\ Contract!Waiting = {t \in Tokens : outcome[t] = "waiting"}
           /\ (HasRoom => Cardinality(Contract!Waiting) < MaxRequests)
  <1>1. Contract!Waiting = {t \in Tokens : outcome[t] = "waiting"}
    BY ContractWaiting, StatusPoints DEF Seen, Unasked
  <1>2. {t \in Tokens : outcome[t] = "waiting"} = {e.token : e \in Entries(replyList)}
    BY ListFacts DEF IInv, Tracked
  <1>3. Cardinality({e.token : e \in Entries(replyList)}) <= Len(replyList)
    BY ListFacts, TokensBounded
  <1>4. IsFiniteSet({e.token : e \in Entries(replyList)})
    <2>1. {e.token : e \in Entries(replyList)} \subseteq 1..MaxToken
      BY ListFacts DEF Tokens
    <2>2. IsFiniteSet(1..MaxToken)
      BY FS_Interval, MaxTokenAssumption
    <2> QED
      BY <2>1, <2>2, FS_Subset
  <1>5. Cardinality({e.token : e \in Entries(replyList)}) \in Nat
    BY <1>4, FS_CardinalityType
  <1>6. Cardinality(Contract!Waiting) \in Nat /\ Cardinality(Contract!Waiting) <= Len(replyList)
    BY <1>1, <1>2, <1>3, <1>5
  <1> QED
    BY <1>1, <1>6, ListFacts DEF HasRoom

LEMMA InitRefines == Init => Contract!Init
  <1> SUFFICES ASSUME Init PROVE Status = [t \in Tokens |-> "idle"]
    BY ContractInit
  <1>1. \A t \in Tokens : outcome[t] = "idle"
    BY DEF Init
  <1> QED
    BY <1>1 DEF Status, Seen, Unasked

LEMMA SameStatus ==
    ASSUME \A t \in Tokens : Seen(outcome'[t]) = Seen(outcome[t])
    PROVE  Status' = Status
  BY DEF Status

LEMMA SentRefines ==
    ASSUME IInv, NEW sync \in BOOLEAN, tokenNum < MaxToken, Sent(sync, tokenNum + 1)
    PROVE  [Contract!Next]_Status
  <1> DEFINE n == tokenNum + 1
  <1>1. /\ n \in Tokens /\ outcome[n] = "idle"
        /\ outcome' = [outcome EXCEPT ![n] = IF HasRoom THEN "waiting" ELSE "untracked"]
    BY SentKept
  <1> HIDE DEF n
  <1>2. /\ outcome'[n] = IF HasRoom THEN "waiting" ELSE "untracked"
        /\ \A t \in Tokens : t # n => outcome'[t] = outcome[t]
    BY <1>1, ListFacts
  <1>3. CASE HasRoom
    <2>1. Status[n] = "idle" /\ Status'[n] = "waiting" /\ \A t \in Tokens : t # n => Status'[t] = Status[t]
      BY <1>1, <1>2, <1>3, StatusPoints DEF Seen, Unasked
    <2>2. Status' = [Status EXCEPT ![n] = "waiting"]
      BY <2>1 DEF Status
    <2> QED
      BY <1>1, <1>3, <2>1, <2>2, WaitingBounded, ContractSend
  <1>4. CASE ~HasRoom
    <2>1. \A t \in Tokens : Seen(outcome'[t]) = Seen(outcome[t])
      BY <1>1, <1>2, <1>4 DEF Seen, Unasked
    <2> QED
      BY <2>1, SameStatus
  <1> QED
    BY <1>3, <1>4

LEMMA CalledBackRefines ==
    ASSUME IInv, NEW i \in DOMAIN replyList, NEW ack \in {"accepted", "rejected", "timeout"},
           NEW retry \in BOOLEAN, CalledBack(i, ack, retry)
    PROVE  Contract!Next
  <1> DEFINE r       == replyList[i].token
             n       == tokenNum + 1
             tracked == retry /\ HasRoom
  <1>1. /\ r \in Tokens /\ outcome[r] = "waiting"
        /\ (retry => n \in Tokens /\ outcome[n] = "idle" /\ n # r)
    BY CalledBackKept, ListFacts
  <1>2. outcome' = [t \in Tokens |->
                      CASE t = r          -> ack
                        [] retry /\ t = n -> IF tracked THEN "waiting" ELSE "untracked"
                        [] OTHER          -> outcome[t]]
    BY DEF CalledBack
  <1> HIDE DEF r, n
  <1>3. \A t \in Tokens : t # r /\ ~(retry /\ t = n) => outcome'[t] = outcome[t]
    BY <1>2
  <1>4. outcome'[r] = ack
    <2>1. ~(retry /\ r = n)
      BY <1>1
    <2> QED
      BY <1>1, <1>2, <2>1
  <1>5. retry => outcome'[n] = IF tracked THEN "waiting" ELSE "untracked"
    BY <1>1, <1>2
  <1>6. Status[r] = "waiting" /\ Status'[r] = ack
    BY <1>1, <1>4, StatusPoints DEF Seen, Unasked
  <1>7. CASE tracked
    <2>1. Status[n] = "idle" /\ Status'[n] = "waiting"
      BY <1>1, <1>5, <1>7, StatusPoints DEF Seen, Unasked
    <2>2. \A t \in Tokens : t # r /\ t # n => Status'[t] = Status[t]
      BY <1>3, StatusPoints
    <2>3. Status' = [Status EXCEPT ![r] = ack, ![n] = "waiting"]
      BY <1>1, <1>6, <1>7, <2>1, <2>2 DEF Status
    <2>4. Cardinality(Contract!Waiting) < MaxRequests
      BY <1>7, WaitingBounded
    <2> QED
      BY <1>1, <1>6, <1>7, <2>1, <2>3, <2>4, ContractAnswerAndSend
  <1>8. CASE ~tracked
    <2>1. \A t \in Tokens : t # r => Status'[t] = Status[t]
      <3>1. retry => Seen(outcome'[n]) = Seen(outcome[n])
        BY <1>1, <1>5, <1>8 DEF Seen, Unasked
      <3> QED
        BY <3>1, <1>1, <1>3, StatusPoints
    <2>2. Status' = [Status EXCEPT ![r] = ack]
      BY <1>1, <1>6, <2>1 DEF Status
    <2> QED
      BY <1>1, <1>6, <2>2, ContractAnswer
  <1> QED
    BY <1>7, <1>8

(* Every step is a step of the contract or leaves all statuses alone. *)
LEMMA StepRefines == IInv /\ [Next]_vars => [Contract!Next]_Status
  <1> SUFFICES ASSUME IInv, [Next]_vars PROVE Contract!Next \/ Status' = Status
    OBVIOUS
  <1>e. \A e \in eventList : e.token \in Tokens /\ outcome[e.token] \in {"posted", "replied", "expired"}
    BY DEF IInv, TypeOK, TokensInTurn, Event
  <1>1. CASE UNCHANGED outcome
    <2>1. \A t \in Tokens : Seen(outcome'[t]) = Seen(outcome[t])
      BY <1>1
    <2> QED
      BY <2>1, SameStatus
  <1>2. CASE Report \/ SyncBegin
    <2>1. PICK sync \in BOOLEAN : tokenNum < MaxToken /\ Sent(sync, tokenNum + 1)
      BY <1>2 DEF Report, SyncBegin
    <2> QED
      BY <2>1, SentRefines
  <1>3. ASSUME NEW c \in BOOLEAN, NEW p \in BOOLEAN, PostEvent(c, p)
        PROVE  Status' = Status
    <2>1. tokenNum + 1 \in Tokens /\ outcome[tokenNum + 1] = "idle"
      BY <1>3, FreshToken, ListFacts DEF PostEvent
    <2>2. outcome' = [outcome EXCEPT ![tokenNum + 1] = "posted"] /\ outcome \in [Tokens -> Outcomes]
      BY <1>3, ListFacts DEF PostEvent
    <2>3. \A t \in Tokens : Seen(outcome'[t]) = Seen(outcome[t])
      BY <2>1, <2>2 DEF Seen, Unasked
    <2> QED
      BY <2>3, SameStatus
  <1>4. ASSUME NEW retry \in BOOLEAN, ReplyExpired(retry)
        PROVE  Contract!Next
    <2>1. pos > 0 /\ CalledBack(pos, "timeout", retry)
      BY <1>4 DEF ReplyExpired
    <2>2. pos \in DOMAIN replyList
      BY <2>1, ListFacts DEF IInv, TypeOK
    <2> QED
      BY <2>1, <2>2, CalledBackRefines
  <1>5. ASSUME NEW ts \in SUBSET Tokens, EventsExpired(ts)
        PROVE  Status' = Status
    <2>1. /\ ts \subseteq {e.token : e \in eventList}
          /\ outcome' = [t \in Tokens |-> IF t \in ts THEN "expired" ELSE outcome[t]]
      BY <1>5 DEF EventsExpired
    <2>2. \A t \in Tokens : \/ outcome'[t] = outcome[t]
                            \/ outcome'[t] = "expired" /\ outcome[t] \in {"posted", "replied", "expired"}
      BY <1>e, <2>1
    <2>3. \A t \in Tokens : Seen(outcome'[t]) = Seen(outcome[t])
      BY <2>2 DEF Seen, Unasked
    <2> QED
      BY <2>3, SameStatus
  <1>6. ASSUME NEW m \in down, HandleEventReply(m)
        PROVE  Status' = Status
    <2>1. PICK taken \in SUBSET eventList :
            outcome' = [t \in Tokens |-> IF \E e \in taken : e.token = t THEN "replied" ELSE outcome[t]]
      BY <1>6 DEF HandleEventReply
    <2>2. \A t \in Tokens : \/ outcome'[t] = outcome[t]
                            \/ outcome'[t] = "replied" /\ outcome[t] \in {"posted", "replied", "expired"}
      BY <1>e, <2>1
    <2>3. \A t \in Tokens : Seen(outcome'[t]) = Seen(outcome[t])
      BY <2>2 DEF Seen, Unasked
    <2> QED
      BY <2>3, SameStatus
  <1>7. ASSUME NEW m \in down, NEW retry \in BOOLEAN, HandleReply(m, retry), ~UNCHANGED outcome
        PROVE  Contract!Next
    <2>1. PICK i \in DOMAIN replyList :
            /\ replyList[i].token = m.token
            /\ IF m.code = "unreadable"
               THEN outcome' = [outcome EXCEPT ![m.token] = "dropped"]
               ELSE CalledBack(i, m.code, retry)
      BY <1>7 DEF HandleReply
    <2>2. m.code \in Codes
      BY DEF IInv, TypeOK, DownMessage
    <2>3. CASE m.code = "unreadable"
      <3>1. m.token \in Tokens /\ outcome[m.token] = "waiting" /\ outcome \in [Tokens -> Outcomes]
        BY <2>1, ListFacts DEF Entries
      <3>2. outcome'[m.token] = "dropped" /\ \A t \in Tokens : t # m.token => outcome'[t] = outcome[t]
        BY <2>1, <2>3, <3>1
      <3>3. /\ Status[m.token] = "waiting" /\ Status'[m.token] = "dropped"
            /\ \A t \in Tokens : t # m.token => Status'[t] = Status[t]
        BY <3>1, <3>2, StatusPoints DEF Seen, Unasked
      <3>4. Status' = [Status EXCEPT ![m.token] = "dropped"]
        BY <3>3 DEF Status
      <3> QED
        BY <3>1, <3>3, <3>4, ContractDrop
    <2>4. CASE m.code # "unreadable"
      <3>1. m.code \in {"accepted", "rejected", "timeout"} /\ CalledBack(i, m.code, retry)
        BY <2>1, <2>2, <2>4 DEF Codes
      <3> QED
        BY <3>1, CalledBackRefines
    <2> QED
      BY <2>3, <2>4
  <1>8. CASE Destroy
    <2>1. outcome' = [t \in Tokens |-> IF InReplies(t) THEN "abandoned" ELSE outcome[t]]
      BY <1>8 DEF Destroy
    <2>2. \A t \in Tokens : InReplies(t) <=> outcome[t] = "waiting"
      BY InRepliesEntries DEF IInv, Tracked
    <2>3. \A t \in Tokens : InReplies(t) <=> t \in Contract!Waiting
      BY <2>2, WaitingBounded
    <2>4. \A t \in Tokens : Status'[t] = IF t \in Contract!Waiting THEN "abandoned" ELSE Status[t]
      BY <2>1, <2>3, StatusPoints DEF Seen, Unasked
    <2>5. Status' = [t \in Tokens |-> IF t \in Contract!Waiting THEN "abandoned" ELSE Status[t]]
      BY <2>4 DEF Status
    <2> QED
      BY <2>5, ContractAbandon
  <1>9. \/ SubscribeTopic \/ SubscribeRefused \/ CheckSubscribe
        \/ (\E e \in {"SUB_SUCCESS", "SUB_TIMEOUT", "SUB_NACK"} : SubscribeEvent(e))
        \/ SyncReturn \/ YieldBegin \/ ReplyNotExpired \/ YieldEnd
        \/ (\E m \in up, c \in Codes : CloudReplies(m, c))
        \/ ConnectionChanges
        \/ UNCHANGED vars
        => UNCHANGED outcome
    BY DEF SubscribeTopic, SubscribeRefused, CheckSubscribe, SubscribeEvent, SyncReturn, YieldBegin,
           ReplyNotExpired, YieldEnd, CloudReplies, ConnectionChanges, net, vars
  <1> QED
    BY <1>1, <1>2, <1>3, <1>4, <1>5, <1>6, <1>7, <1>8, <1>9 DEF Next

(* Every request is answered to the application once at most, by the reply *)
(* of the cloud or by a timeout, none is answered that was not tracked,    *)
(* and no more than MaxRequests wait: the list with its tokens, timers and *)
(* callbacks keeps the promise of TemplateContract.                        *)
THEOREM Implements == Spec => ImplementsContract
  <1>1. Spec => Contract!Init
    BY InitRefines, PTL DEF Spec
  <1>2. Spec => [][Contract!Next]_Status
    BY StepRefines, InvariantHolds, PTL DEF Spec
  <1> QED
    BY <1>1, <1>2, PTL DEF ImplementsContract, Contract!Spec, Status, Seen, Unasked
=============================================================================
