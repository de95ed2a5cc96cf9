------------------------- MODULE CloudServices_proof -------------------------
(* The invariants of the services of CloudServices, each proved inductive for *)
(* its own initial states and steps; Services_proof makes theorems about the  *)
(* whole of them.                                                             *)
EXTENDS CloudServices, Integers, Sequences, FiniteSets, FiniteSetTheorems, WellFoundedInduction,
        TLAPS

----------------------------------------------------------------------------
(* The head of an HTTP request (HttpRequest): the pieces it is collected from,  *)
(* the buffer and the wire hold, one behind the other, the head that is meant.   *)

\* The symbols of a request: the characters of a URL and what stands for a part of the head.
Symbols == STRING \cup {"/", "method", "version", "eol", "host", "basic", "user", "field", "length",
                        "type", "zero", "data"}
Texts == Seq(Symbols)

\* The pieces, put one after the other, are what T has behind its first `at' symbols.
Tiles(P, at, T) ==
    \E st \in [1 .. Len(P) + 1 -> 0 .. Len(T)] :
        /\ st[1] = at /\ st[Len(P) + 1] = Len(T)
        /\ \A k \in 1 .. Len(P) :
             /\ st[k + 1] = st[k] + Len(P[k])
             /\ \A i \in 1 .. Len(P[k]) : P[k][i] = T[st[k] + i]

(* A first position is found where there is one. *)
LEMMA FirstIs ==
    ASSUME NEW c, NEW s \in Texts
    PROVE  /\ Http!First(c, s) \in 0 .. Len(s)
           /\ Http!First(c, s) > 0 => s[Http!First(c, s)] = c
  <1> DEFINE At == {i \in 1 .. Len(s) : s[i] = c}
             P(i) == /\ i > 0 => s[i] = c
                     /\ \A j \in 1 .. Len(s) : s[j] = c => i > 0 /\ i <= j
  <1>0. Len(s) \in Nat
    BY DEF Texts
  <1>1. CASE At = {}
    <2>1. P(0) /\ 0 \in 0 .. Len(s)
      BY <1>0, <1>1
    <2>2. \E i \in 0 .. Len(s) : P(i)
      BY <2>1
    <2> HIDE DEF P
    <2>3. (CHOOSE i \in 0 .. Len(s) : P(i)) \in 0 .. Len(s) /\ P(CHOOSE i \in 0 .. Len(s) : P(i))
      BY <2>2
    <2> QED
      BY <2>3 DEF Http!First, P
  <1>2. CASE At # {}
    <2>1. At \in SUBSET Nat
      BY <1>0
    <2>2. PICK x \in At : \A y \in At : x <= y
      <3> DEFINE R == {ss \in Nat \X Nat : ss[1] < ss[2]}
      <3>1. IsWellFoundedOn(R, Nat)
        BY NatLessThanWellFounded DEF OpToRel
      <3>2. \A a, b \in Nat : a < b => <<a, b>> \in R
        OBVIOUS
      <3> HIDE DEF R, At
      <3>3. PICK x \in At : \A y \in At : ~(<<y, x>> \in R)
        BY <1>2, <2>1, <3>1, WFMin, Zenon
      <3>4. \A y \in At : ~(y < x)
        BY <2>1, <3>2, <3>3
      <3> QED
        BY <2>1, <3>4
    <2>3. P(x) /\ x \in 0 .. Len(s)
      BY <1>0, <2>2
    <2>4. \E i \in 0 .. Len(s) : P(i)
      BY <2>3
    <2> HIDE DEF P
    <2>5. (CHOOSE i \in 0 .. Len(s) : P(i)) \in 0 .. Len(s) /\ P(CHOOSE i \in 0 .. Len(s) : P(i))
      BY <2>4
    <2> QED
      BY <2>5 DEF Http!First, P
  <1> QED
    BY <1>1, <1>2

(* Pieces behind pieces are a text behind a text. *)
LEMMA TilesConcat ==
    ASSUME NEW P \in Seq(Texts), NEW Q \in Seq(Texts), NEW T \in Texts, NEW U \in Texts,
           Tiles(P, 0, T), Tiles(Q, 0, U)
    PROVE  Tiles(P \o Q, 0, T \o U)
  <1> DEFINE m == Len(P)
             n == Len(Q)
             t == Len(T)
             V == T \o U
             R == P \o Q
             u == Len(U)
  <1>1. m \in Nat /\ n \in Nat /\ t \in Nat /\ u \in Nat
    BY DEF Texts
  <1>2. Len(V) = t + u /\ Len(R) = m + n /\ Len(P) = m /\ Len(Q) = n /\ Len(T) = t /\ Len(U) = u
    BY DEF Texts
  <1>21. \A k \in 1 .. m : R[k] = P[k] /\ P[k] \in Texts /\ Len(P[k]) \in Nat
    BY DEF Texts
  <1>22. \A k \in 1 .. n : R[m + k] = Q[k] /\ Q[k] \in Texts /\ Len(Q[k]) \in Nat
    BY <1>1 DEF Texts
  <1>23. \A i \in 1 .. t : V[i] = T[i]
    BY <1>1 DEF Texts
  <1>24. \A i \in 1 .. u : V[t + i] = U[i]
    BY <1>1 DEF Texts
  <1> HIDE DEF m, n, t, u, V, R
  <1>3. PICK a \in [1 .. m + 1 -> 0 .. t] :
            /\ a[1] = 0 /\ a[m + 1] = t
            /\ \A k \in 1 .. m : /\ a[k + 1] = a[k] + Len(P[k])
                                 /\ \A i \in 1 .. Len(P[k]) : P[k][i] = T[a[k] + i]
    BY <1>2 DEF Tiles
  <1>31. \A k \in 1 .. m + 1 : a[k] \in 0 .. t
    BY <1>3
  <1>4. PICK b \in [1 .. n + 1 -> 0 .. u] :
            /\ b[1] = 0 /\ b[n + 1] = u
            /\ \A k \in 1 .. n : /\ b[k + 1] = b[k] + Len(Q[k])
                                 /\ \A i \in 1 .. Len(Q[k]) : Q[k][i] = U[b[k] + i]
    BY <1>2 DEF Tiles
  <1>41. \A k \in 1 .. n + 1 : b[k] \in 0 .. u
    BY <1>4
  <1> DEFINE st == [k \in 1 .. m + n + 1 |-> IF k <= m THEN a[k] ELSE t + b[k - m]]
  <1>5. ASSUME NEW k \in 1 .. m PROVE k \in 1 .. m + n + 1 /\ k \in 1 .. m + 1 /\ k + 1 \in 1 .. m + 1
    BY <1>1
  <1>6. ASSUME NEW k \in 1 .. n + 1
        PROVE  /\ m + k \in 1 .. m + n + 1 /\ ~(m + k <= m) /\ (m + k) - m = k
    BY <1>1
  <1>61. \A k \in 1 .. m : st[k] = a[k]
    BY <1>5
  <1>62. \A k \in 1 .. n + 1 : st[m + k] = t + b[k]
    BY <1>6
  <1>63. \A k \in 1 .. m + n + 1 : k \in 1 .. m \/ \E j \in 1 .. n + 1 : k = m + j
    <2> TAKE k \in 1 .. m + n + 1
    <2>1. k <= m \/ (k - m \in 1 .. n + 1 /\ k = m + (k - m))
      BY <1>1
    <2> QED
      BY <1>1, <2>1
  <1>64. DOMAIN st = 1 .. m + n + 1
    OBVIOUS
  <1>65. st = [k \in 1 .. m + n + 1 |-> st[k]]
    OBVIOUS
  <1> HIDE DEF st
  <1>7. st \in [1 .. Len(R) + 1 -> 0 .. Len(V)]
    <2>1. \A k \in 1 .. m : a[k] \in 0 .. t + u
      BY <1>1, <1>5, <1>31
    <2>2. \A k \in 1 .. n + 1 : t + b[k] \in 0 .. t + u
      BY <1>1, <1>41
    <2>3. \A k \in 1 .. m + n + 1 : st[k] \in 0 .. t + u
      BY <1>61, <1>62, <1>63, <2>1, <2>2
    <2>4. st \in [1 .. m + n + 1 -> 0 .. t + u]
      BY <1>65, <2>3
    <2> QED
      BY <1>2, <2>4
  <1>71. st[m + 1] = t
    BY <1>1, <1>4, <1>62
  <1>72. \A k \in 1 .. m + 1 : st[k] = a[k]
    <2> TAKE k \in 1 .. m + 1
    <2>1. k \in 1 .. m \/ k = m + 1
      BY <1>1
    <2> QED
      BY <1>3, <1>61, <1>71, <2>1
  <1>8. st[1] = 0 /\ st[Len(R) + 1] = Len(V)
    <2>1. 1 \in 1 .. m + 1 /\ n + 1 \in 1 .. n + 1 /\ m + (n + 1) = m + n + 1
      BY <1>1
    <2> QED
      BY SMTT(30), <1>2, <1>3, <1>4, <1>62, <1>72, <2>1
  <1>81. ASSUME NEW k \in 1 .. m
         PROVE  /\ st[k + 1] = st[k] + Len(R[k])
                /\ \A i \in 1 .. Len(R[k]) : R[k][i] = V[st[k] + i]
    <2>1. st[k] = a[k] /\ st[k + 1] = a[k + 1] /\ R[k] = P[k]
      BY <1>5, <1>21, <1>72
    <2>2. a[k] \in 0 .. t /\ a[k + 1] \in 0 .. t /\ a[k + 1] = a[k] + Len(P[k]) /\ Len(P[k]) \in Nat
      BY <1>3, <1>5, <1>21, <1>31
    <2>3. ASSUME NEW i \in 1 .. Len(P[k]) PROVE P[k][i] = V[a[k] + i]
      <3>1. a[k] + i \in 1 .. t
        <4>1. \A x, z, l \in Nat : z = x + l /\ z <= t /\ i \in 1 .. l => x + i \in 1 .. t
          BY <1>1
        <4>2. a[k] \in Nat /\ a[k + 1] \in Nat /\ a[k + 1] <= t
          BY <1>1, <2>2
        <4> QED
          BY <2>2, <4>1, <4>2
      <3> QED
        BY <1>3, <1>23, <3>1
    <2> QED
      BY <2>1, <2>2, <2>3
  <1>82. ASSUME NEW k \in 1 .. n
         PROVE  /\ st[m + k + 1] = st[m + k] + Len(R[m + k])
                /\ \A i \in 1 .. Len(R[m + k]) : R[m + k][i] = V[st[m + k] + i]
    <2>0. k \in 1 .. n + 1 /\ k + 1 \in 1 .. n + 1 /\ m + (k + 1) = m + k + 1
      BY <1>1
    <2>1. st[m + k] = t + b[k] /\ st[m + k + 1] = t + b[k + 1] /\ R[m + k] = Q[k]
      BY <1>22, <1>62, <2>0
    <2>2. b[k] \in 0 .. u /\ b[k + 1] \in 0 .. u /\ b[k + 1] = b[k] + Len(Q[k]) /\ Len(Q[k]) \in Nat
      BY <1>4, <1>22, <1>41, <2>0
    <2>3. ASSUME NEW i \in 1 .. Len(Q[k]) PROVE Q[k][i] = V[t + b[k] + i]
      <3>1. b[k] + i \in 1 .. u /\ t + (b[k] + i) = t + b[k] + i
        <4>1. \A x, z, l \in Nat : z = x + l /\ z <= u /\ i \in 1 .. l =>
                  x + i \in 1 .. u /\ t + (x + i) = t + x + i
          BY <1>1
        <4>2. b[k] \in Nat /\ b[k + 1] \in Nat /\ b[k + 1] <= u
          BY <1>1, <2>2
        <4> QED
          BY <2>2, <4>1, <4>2
      <3> QED
        BY <1>4, <1>24, <3>1
    <2>4. t + b[k + 1] = t + b[k] + Len(Q[k])
      <3>1. \A x, z, l \in Nat : z = x + l => t + z = t + x + l
        BY <1>1
      <3>2. b[k] \in Nat /\ b[k + 1] \in Nat
        BY <1>1, <2>2
      <3> QED
        BY <2>2, <3>1, <3>2
    <2> QED
      BY <2>1, <2>3, <2>4
  <1>83. ASSUME NEW k \in 1 .. Len(R)
         PROVE  /\ st[k + 1] = st[k] + Len(R[k])
                /\ \A i \in 1 .. Len(R[k]) : R[k][i] = V[st[k] + i]
    <2>1. k \in 1 .. m \/ \E j \in 1 .. n : k = m + j
      <3>1. k <= m \/ (k - m \in 1 .. n /\ k = m + (k - m))
        BY <1>1, <1>2
      <3> QED
        BY <1>1, <1>2, <3>1
    <2> QED
      BY <1>81, <1>82, <2>1
  <1>9. Tiles(R, 0, V)
    BY <1>7, <1>8, <1>83 DEF Tiles
  <1> QED
    BY <1>9 DEF R, V

(* One piece is a text by itself. *)
LEMMA TilesOne ==
    ASSUME NEW T \in Texts
    PROVE  Tiles(<<T>>, 0, T)
  <1>1. Len(T) \in Nat
    BY DEF Texts
  <1> DEFINE st == [k \in 1 .. 2 |-> IF k = 1 THEN 0 ELSE Len(T)]
             P == <<T>>
  <1>2. Len(P) = 1 /\ P[1] = T
    OBVIOUS
  <1>3. st \in [1 .. 2 -> 0 .. Len(T)] /\ st[1] = 0 /\ st[2] = Len(T)
    BY <1>1
  <1> HIDE DEF st, P
  <1>4. \A k \in 1 .. Len(P) : k = 1
    BY <1>2
  <1>5. Tiles(P, 0, T)
    BY <1>1, <1>2, <1>3, <1>4 DEF Tiles
  <1> QED
    BY <1>5 DEF P

(* No piece is a text without symbols. *)
LEMMA TilesNone == Tiles(<<>>, 0, <<>>)
  <1> DEFINE st == [k \in 1 .. 1 |-> 0]
  <1>1. st \in [1 .. 1 -> 0 .. 0] /\ st[1] = 0
    OBVIOUS
  <1>2. Len(<<>>) = 0
    OBVIOUS
  <1> HIDE DEF st
  <1> QED
    BY <1>1, <1>2 DEF Tiles

(* The next piece goes on with the text. *)
LEMMA TilesStep ==
    ASSUME NEW P \in Seq(Texts), NEW at \in Nat, NEW T \in Texts, P # <<>>, Tiles(P, at, T)
    PROVE  /\ at + Len(Head(P)) <= Len(T)
           /\ \A i \in 1 .. Len(Head(P)) : Head(P)[i] = T[at + i]
           /\ Tiles(Tail(P), at + Len(Head(P)), T)
  <1> DEFINE n == Len(P)
             R == Tail(P)
  <1>1. n \in Nat /\ n > 0 /\ Head(P) = P[1] /\ P[1] \in Texts /\ Len(T) \in Nat
    BY DEF Texts
  <1>2. Len(R) = n - 1 /\ \A k \in 1 .. n - 1 : R[k] = P[k + 1]
    BY <1>1
  <1>3. PICK a \in [1 .. n + 1 -> 0 .. Len(T)] :
            /\ a[1] = at /\ a[n + 1] = Len(T)
            /\ \A k \in 1 .. n : /\ a[k + 1] = a[k] + Len(P[k])
                                 /\ \A i \in 1 .. Len(P[k]) : P[k][i] = T[a[k] + i]
    BY DEF Tiles
  <1>31. \A k \in 1 .. n + 1 : a[k] \in 0 .. Len(T)
    BY <1>3
  <1>32. 1 \in 1 .. n /\ 2 \in 1 .. n + 1 /\ 1 + 1 = 2
    BY <1>1
  <1>4. a[2] = at + Len(P[1]) /\ a[2] \in 0 .. Len(T)
    BY <1>3, <1>31, <1>32
  <1>5. \A i \in 1 .. Len(P[1]) : P[1][i] = T[at + i]
    BY <1>1, <1>3
  <1> DEFINE st == [k \in 1 .. n |-> a[k + 1]]
  <1>6. st \in [1 .. n -> 0 .. Len(T)] /\ st[1] = a[2] /\ st[n] = a[n + 1]
    BY <1>1, <1>3
  <1>7. ASSUME NEW k \in 1 .. n - 1
        PROVE  /\ st[k + 1] = st[k] + Len(R[k])
               /\ \A i \in 1 .. Len(R[k]) : R[k][i] = T[st[k] + i]
    <2>1. k + 1 \in 1 .. n /\ R[k] = P[k + 1] /\ st[k] = a[k + 1] /\ st[k + 1] = a[(k + 1) + 1]
      BY <1>1, <1>2
    <2> HIDE DEF st, R
    <2> QED
      BY <1>3, <2>1
  <1> HIDE DEF st, R
  <1>8. Len(R) + 1 = n
    BY <1>1, <1>2
  <1>9. /\ st \in [1 .. Len(R) + 1 -> 0 .. Len(T)]
        /\ st[1] = a[2] /\ st[Len(R) + 1] = Len(T)
        /\ \A k \in 1 .. Len(R) : /\ st[k + 1] = st[k] + Len(R[k])
                                 /\ \A i \in 1 .. Len(R[k]) : R[k][i] = T[st[k] + i]
    BY <1>2, <1>3, <1>6, <1>7, <1>8
  <1>10. Tiles(R, a[2], T)
    BY <1>9 DEF Tiles
  <1> QED
    BY <1>1, <1>4, <1>5, <1>10 DEF R

(* With no piece left, the text is at its end. *)
LEMMA TilesEnd ==
    ASSUME NEW at, NEW T \in Texts, Tiles(<<>>, at, T)
    PROVE  at = Len(T)
  <1>1. Len(<<>>) = 0
    OBVIOUS
  <1> QED
    BY <1>1 DEF Tiles
-----------------------------------------------------------------------------
\* The ranges of the variables; a text goes on where the buffer or the caller has got to.
HttpTypes ==
    /\ Http!TypeOK
    /\ hrPieces \in Seq(Texts) /\ hrBuf \in [1 .. SendCap -> Symbols] /\ hrWire \in Texts
    /\ hrAt \in {hrIdx, SendCap}
    /\ hrResult = Null => Http!Parsed

\* Until a write is cut short: either the buffer holds what was collected and nothing is on
\* the wire, or the head was longer than the buffer and the wire has the beginning of it.
HeadKept ==
    hrResult = Null /\ ~hrCut /\ Len(Http!RequestLine) < SendCap =>
        \/ /\ hrWire = <<>> /\ hrIdx = hrAt /\ hrAt < SendCap
           /\ \A i \in 1 .. hrAt : hrBuf[i] = Http!Meant[i]
           /\ Tiles(hrPieces, hrAt, Http!Meant)
        \/ /\ Len(Http!Meant) >= SendCap /\ Len(hrWire) >= SendCap
           /\ \A i \in 1 .. SendCap : hrWire[i] = Http!Meant[i]

\* The first piece never fills the buffer.
HeadBegun ==
    hrResult = Null /\ hrIdx = 0 =>
        hrPieces # <<>> /\ hrAt = 0 /\ Len(Head(hrPieces)) \in 1 .. SendCap - 1

HttpInv == HttpTypes /\ HeadKept /\ HeadBegun /\ Http!RequestWhole
-----------------------------------------------------------------------------
\* What the pieces between the request line and the end of the head hold.
AuthText == IF hrAuth THEN <<"basic", "user", "eol">> ELSE <<>>
PostText == IF hrPost THEN <<"length", "eol", "type", "eol">> ELSE <<>>

(* A symbol n times over. *)
LEMMA CopiesTyped ==
    ASSUME NEW c \in Symbols, NEW n \in Nat
    PROVE  Http!Copies(c, n) \in Texts /\ Len(Http!Copies(c, n)) = n /\ Http!Copies(c, n) \in [1 .. n -> Symbols]
  <1>1. Http!Copies(c, n) \in [1 .. n -> Symbols]
    BY DEF Http!Copies
  <1> QED
    BY <1>1 DEF Texts

(* The parts of a URL are texts, and so is the head made of them. *)
LEMMA HeadTypes ==
    ASSUME Http!TypeOK
    PROVE  /\ hrTarget \in Texts /\ Http!Slash \in 0 .. Len(hrTarget) /\ Http!Hash \in 0 .. Len(hrTarget)
           /\ Http!Host \in Texts /\ Http!Path \in Texts /\ Http!RequestLine \in Texts /\ Len(Http!RequestLine) > 0
           /\ Http!Meant \in Texts
  <1>1. hrTarget \in Texts
    <2>1. hrTarget \in Seq(STRING)
      BY HttpAssumption DEF Http!TypeOK
    <2> QED
      BY <2>1 DEF Texts, Symbols
  <1>2. Http!Slash \in 0 .. Len(hrTarget) /\ Http!Hash \in 0 .. Len(hrTarget)
    BY <1>1, FirstIs DEF Http!Slash, Http!Hash
  <1>20. /\ Len(hrTarget) \in Nat
         /\ \A m, n \in Nat : m >= 1 /\ n <= Len(hrTarget) => SubSeq(hrTarget, m, n) \in Texts
    BY <1>1 DEF Texts
  <1>21. \A n \in Int : n < 1 => SubSeq(hrTarget, 1, n) \in Texts
    BY <1>1 DEF Texts
  <1>22. <<"/">> \in Texts
    BY DEF Texts, Symbols
  <1>3. Http!Host \in Texts /\ Http!Path \in Texts
    <2>1. Http!Host \in Texts
      BY <1>1, <1>2, <1>20 DEF Http!Host
    <2>2. Http!Path \in Texts
      BY <1>2, <1>20, <1>22 DEF Http!Path
    <2> QED
      BY <2>1, <2>2
  <1>4. /\ <<"method">> \in Texts /\ <<"version", "eol", "host">> \in Texts /\ <<"eol">> \in Texts
        /\ Len(<<"method">>) = 1
    <2>1. <<"version", "eol", "host">> \in Texts
      BY DEF Texts, Symbols
    <2>2. <<"method">> \in Texts /\ Len(<<"method">>) = 1
      BY DEF Texts, Symbols
    <2>3. <<"eol">> \in Texts
      BY DEF Texts, Symbols
    <2> QED
      BY <2>1, <2>2, <2>3
  <1>5. \A x, y \in Texts : x \o y \in Texts /\ Len(x \o y) = Len(x) + Len(y) /\ Len(x) \in Nat
    BY DEF Texts
  <1>6. Http!RequestLine \in Texts
    BY <1>3, <1>4, <1>5 DEF Http!RequestLine
  <1>7. Len(Http!RequestLine) > 0
    <2>1. \A x, y \in Texts : Len(x) > 0 => Len(x \o y) > 0
      BY <1>5
    <2> QED
      BY <1>3, <1>4, <1>5, <2>1 DEF Http!RequestLine
  <1>8. (IF Http!Slash = 0 THEN <<"/">>
         ELSE SubSeq(hrTarget, Http!Slash, IF Http!Hash > Http!Slash THEN Http!Hash - 1 ELSE Len(hrTarget))) \in Texts
    BY <1>2, <1>20, <1>22
  <1>9. SubSeq(hrTarget, 1, IF Http!Slash = 0 THEN Len(hrTarget) ELSE Http!Slash - 1) \in Texts
    BY <1>2, <1>20
  <1>10. hrHeader \in Nat
    BY HttpAssumption DEF Http!TypeOK
  <1>11. Http!Copies("field", hrHeader) \in Texts
    BY <1>10, CopiesTyped DEF Symbols
  <1>12. /\ (IF hrAuth THEN <<"basic", "user", "eol">> ELSE <<>>) \in Texts
         /\ (IF hrPost THEN <<"length", "eol", "type", "eol">> ELSE <<>>) \in Texts
    <2>1. <<"basic", "user", "eol">> \in Texts
      BY DEF Texts, Symbols
    <2>2. <<"length", "eol", "type", "eol">> \in Texts
      BY DEF Texts, Symbols
    <2>3. <<>> \in Texts
      BY DEF Texts, Symbols
    <2> QED
      BY <2>1, <2>2, <2>3
  <1>13. Http!Meant \in Texts
    BY <1>4, <1>5, <1>8, <1>9, <1>11, <1>12 DEF Http!Meant
  <1> QED
    BY <1>1, <1>2, <1>3, <1>6, <1>7, <1>13

(* Sequences with the same elements are the same. *)
LEMMA SameText ==
    ASSUME NEW S, NEW x \in Seq(S), NEW y \in Seq(S), Len(x) = Len(y),
           \A i \in 1 .. Len(x) : x[i] = y[i]
    PROVE  x = y
  OBVIOUS

(* Where the symbols of two sequences are when one is put behind the other. *)
LEMMA JoinedAt ==
    ASSUME NEW S, NEW x \in Seq(S), NEW y \in Seq(S)
    PROVE  /\ x \o y \in Seq(S) /\ Len(x \o y) = Len(x) + Len(y)
           /\ \A i \in 1 .. Len(x) : (x \o y)[i] = x[i]
           /\ \A i \in 1 .. Len(y) : (x \o y)[Len(x) + i] = y[i]
  OBVIOUS

(* Tuples put together: one and one. *)
LEMMA OneAndOne ==
    ASSUME NEW a, NEW b
    PROVE  <<a>> \o <<b>> = <<a, b>>
  <1> DEFINE x == <<a>>
             y == <<b>>
             z == <<a, b>>
             S == {a, b}
  <1>1. x \in Seq(S) /\ y \in Seq(S) /\ z \in Seq(S)
    OBVIOUS
  <1>2. /\ Len(x) = 1 /\ Len(y) = 1 /\ Len(z) = 2
        /\ x[1] = a /\ y[1] = b
        /\ z[1] = a /\ z[2] = b
    OBVIOUS
  <1> HIDE DEF x, y, z, S
  <1>3. /\ x \o y \in Seq(S) /\ Len(x \o y) = 2
        /\ (x \o y)[1] = a /\ (x \o y)[2] = b
    <2>1. 1 \in 1 .. 1 /\ 1 \in 1 .. 1 /\ 1 + 1 = 2 /\ 1 + 1 = 2
      OBVIOUS
    <2>2. /\ x \o y \in Seq(S) /\ Len(x \o y) = Len(x) + Len(y)
          /\ \A i \in 1 .. Len(x) : (x \o y)[i] = x[i]
          /\ \A i \in 1 .. Len(y) : (x \o y)[Len(x) + i] = y[i]
      BY <1>1, JoinedAt
    <2> DEFINE v == x \o y
    <2> HIDE DEF v
    <2>3. /\ v \in Seq(S) /\ Len(v) = Len(x) + Len(y)
          /\ \A i \in 1 .. Len(x) : v[i] = x[i]
          /\ \A i \in 1 .. Len(y) : v[Len(x) + i] = y[i]
      BY <2>2 DEF v
    <2> QED
      BY <1>2, <2>1, <2>3 DEF v
  <1>4. \A i \in 1 .. 2 : i = 1 \/ i = 2
    OBVIOUS
  <1>5. x \o y = z
    BY <1>1, <1>2, <1>3, <1>4, SameText
  <1> QED
    BY <1>5 DEF x, y, z

(* One and two. *)
LEMMA OneAndTwo ==
    ASSUME NEW a, NEW b, NEW c
    PROVE  <<a>> \o <<b, c>> = <<a, b, c>>
  <1> DEFINE x == <<a>>
             y == <<b, c>>
             z == <<a, b, c>>
             S == {a, b, c}
  <1>1. x \in Seq(S) /\ y \in Seq(S) /\ z \in Seq(S)
    OBVIOUS
  <1>2. /\ Len(x) = 1 /\ Len(y) = 2 /\ Len(z) = 3
        /\ x[1] = a /\ y[1] = b /\ y[2] = c
        /\ z[1] = a /\ z[2] = b /\ z[3] = c
    OBVIOUS
  <1> HIDE DEF x, y, z, S
  <1>3. /\ x \o y \in Seq(S) /\ Len(x \o y) = 3
        /\ (x \o y)[1] = a /\ (x \o y)[2] = b /\ (x \o y)[3] = c
    <2>1. 1 \in 1 .. 1 /\ 1 \in 1 .. 2 /\ 1 + 1 = 2 /\ 2 \in 1 .. 2 /\ 1 + 2 = 3 /\ 1 + 2 = 3
      OBVIOUS
    <2>2. /\ x \o y \in Seq(S) /\ Len(x \o y) = Len(x) + Len(y)
          /\ \A i \in 1 .. Len(x) : (x \o y)[i] = x[i]
          /\ \A i \in 1 .. Len(y) : (x \o y)[Len(x) + i] = y[i]
      BY <1>1, JoinedAt
    <2> DEFINE v == x \o y
    <2> HIDE DEF v
    <2>3. /\ v \in Seq(S) /\ Len(v) = Len(x) + Len(y)
          /\ \A i \in 1 .. Len(x) : v[i] = x[i]
          /\ \A i \in 1 .. Len(y) : v[Len(x) + i] = y[i]
      BY <2>2 DEF v
    <2> QED
      BY <1>2, <2>1, <2>3 DEF v
  <1>4. \A i \in 1 .. 3 : i = 1 \/ i = 2 \/ i = 3
    OBVIOUS
  <1>5. x \o y = z
    BY <1>1, <1>2, <1>3, <1>4, SameText
  <1> QED
    BY <1>5 DEF x, y, z

(* Two and two. *)
LEMMA TwoAndTwo ==
    ASSUME NEW a, NEW b, NEW c, NEW d
    PROVE  <<a, b>> \o <<c, d>> = <<a, b, c, d>>
  <1> DEFINE x == <<a, b>>
             y == <<c, d>>
             z == <<a, b, c, d>>
             S == {a, b, c, d}
  <1>1. x \in Seq(S) /\ y \in Seq(S) /\ z \in Seq(S)
    OBVIOUS
  <1>2. /\ Len(x) = 2 /\ Len(y) = 2 /\ Len(z) = 4
        /\ x[1] = a /\ x[2] = b /\ y[1] = c /\ y[2] = d
        /\ z[1] = a /\ z[2] = b /\ z[3] = c /\ z[4] = d
    OBVIOUS
  <1> HIDE DEF x, y, z, S
  <1>3. /\ x \o y \in Seq(S) /\ Len(x \o y) = 4
        /\ (x \o y)[1] = a /\ (x \o y)[2] = b /\ (x \o y)[3] = c /\ (x \o y)[4] = d
    <2>1. 1 \in 1 .. 2 /\ 2 \in 1 .. 2 /\ 1 \in 1 .. 2 /\ 2 + 1 = 3 /\ 2 \in 1 .. 2 /\ 2 + 2 = 4 /\ 2 + 2 = 4
      OBVIOUS
    <2>2. /\ x \o y \in Seq(S) /\ Len(x \o y) = Len(x) + Len(y)
          /\ \A i \in 1 .. Len(x) : (x \o y)[i] = x[i]
          /\ \A i \in 1 .. Len(y) : (x \o y)[Len(x) + i] = y[i]
      BY <1>1, JoinedAt
    <2> DEFINE v == x \o y
    <2> HIDE DEF v
    <2>3. /\ v \in Seq(S) /\ Len(v) = Len(x) + Len(y)
          /\ \A i \in 1 .. Len(x) : v[i] = x[i]
          /\ \A i \in 1 .. Len(y) : v[Len(x) + i] = y[i]
      BY <2>2 DEF v
    <2> QED
      BY <1>2, <2>1, <2>3 DEF v
  <1>4. \A i \in 1 .. 4 : i = 1 \/ i = 2 \/ i = 3 \/ i = 4
    OBVIOUS
  <1>5. x \o y = z
    BY <1>1, <1>2, <1>3, <1>4, SameText
  <1> QED
    BY <1>5 DEF x, y, z

(* The pieces of a request line that fits are those of the head that is meant. *)
LEMMA PiecesOfHead ==
    ASSUME Http!TypeOK
    PROVE  /\ Http!Pieces \in Seq(Texts) /\ Http!Pieces # <<>>
           /\ Len(Head(Http!Pieces)) \in 1 .. SendCap - 1
           /\ Http!Parsed /\ Len(Http!RequestLine) < SendCap => Tiles(Http!Pieces, 0, Http!Meant)
           /\ Http!Parsed => Len(Http!RequestLine) <= Len(Http!Meant)
  <1> DEFINE first == SubSeq(Http!RequestLine, 1, Http!AtMost(Len(Http!RequestLine), SendCap - 1))
             auth == IF hrAuth THEN Http!Auth ELSE <<>>
             post == IF hrPost THEN <<<<"length", "eol">>, <<"type", "eol">>>> ELSE <<>>
             field == Http!Copies("field", hrHeader)
  <1>1. Http!RequestLine \in Texts /\ Len(Http!RequestLine) > 0 /\ Http!Host \in Texts /\ Http!Path \in Texts
    BY HeadTypes
  <1>2. field \in Texts
    BY CopiesTyped, HttpAssumption DEF Http!TypeOK, Symbols
  <1>3. /\ first \in Texts /\ Len(first) \in 1 .. SendCap - 1
        /\ Len(Http!RequestLine) < SendCap => first = Http!RequestLine
    <2>1. Len(Http!RequestLine) \in Nat
      BY <1>1 DEF Texts
    <2>2. Http!AtMost(Len(Http!RequestLine), SendCap - 1) \in 1 .. SendCap - 1
          /\ Http!AtMost(Len(Http!RequestLine), SendCap - 1) <= Len(Http!RequestLine)
      BY <1>1, <2>1, HttpAssumption DEF Http!AtMost
    <2>3. Len(Http!RequestLine) < SendCap => Http!AtMost(Len(Http!RequestLine), SendCap - 1) = Len(Http!RequestLine)
      BY <2>1, HttpAssumption DEF Http!AtMost
    <2>4. SubSeq(Http!RequestLine, 1, Len(Http!RequestLine)) = Http!RequestLine
      BY <1>1 DEF Texts
    <2>5. \A n \in 1 .. Len(Http!RequestLine) :
              SubSeq(Http!RequestLine, 1, n) \in Texts /\ Len(SubSeq(Http!RequestLine, 1, n)) = n
      BY <1>1 DEF Texts
    <2> QED
      BY <2>1, <2>2, <2>3, <2>4, <2>5
  <1>4. /\ <<"basic">> \in Texts /\ <<"user", "eol">> \in Texts
        /\ <<"length", "eol">> \in Texts /\ <<"type", "eol">> \in Texts /\ <<"eol">> \in Texts
        /\ <<>> \in Texts
    <2>1. <<"basic">> \in Texts /\ <<"eol">> \in Texts
      BY DEF Texts, Symbols
    <2>2. <<"user", "eol">> \in Texts
      BY DEF Texts, Symbols
    <2>3. <<"length", "eol">> \in Texts /\ <<"type", "eol">> \in Texts
      BY DEF Texts, Symbols
    <2>4. <<>> \in Texts
      BY DEF Texts, Symbols
    <2> QED
      BY <2>1, <2>2, <2>3, <2>4
  <1>5. /\ <<>> \in Seq(Texts)
        /\ \A x \in Texts : <<x>> \in Seq(Texts) /\ Len(<<x>>) = 1
        /\ \A P, Q \in Seq(Texts) : P \o Q \in Seq(Texts) /\ Len(P \o Q) = Len(P) + Len(Q)
    OBVIOUS
  <1>6. \A x, y \in Texts : <<x>> \o <<y>> = <<x, y>>
    BY OneAndOne
  <1>7. /\ auth \in Seq(Texts) /\ Tiles(auth, 0, AuthText) /\ AuthText \in Texts
    <2>1. CASE hrAuth
      <3>1. Tiles(<<<<"basic">>>> \o <<<<"user", "eol">>>>, 0, <<"basic">> \o <<"user", "eol">>)
        BY <1>4, <1>5, TilesConcat, TilesOne
      <3>2. <<"basic">> \o <<"user", "eol">> = <<"basic", "user", "eol">>
        BY OneAndTwo
      <3>3. Http!Auth = <<<<"basic">>>> \o <<<<"user", "eol">>>>
        BY <1>4, <1>6 DEF Http!Auth
      <3>4. <<"basic">> \o <<"user", "eol">> \in Texts
        BY <1>4 DEF Texts
      <3> QED
        BY <1>4, <1>5, <2>1, <3>1, <3>2, <3>3, <3>4 DEF AuthText
    <2>2. CASE ~hrAuth
      BY <1>4, <1>5, <2>2, TilesNone DEF AuthText
    <2> QED
      BY <2>1, <2>2
  <1>8. /\ post \in Seq(Texts) /\ Tiles(post, 0, PostText) /\ PostText \in Texts
    <2>1. CASE hrPost
      <3>1. Tiles(<<<<"length", "eol">>>> \o <<<<"type", "eol">>>>, 0, <<"length", "eol">> \o <<"type", "eol">>)
        BY <1>4, <1>5, TilesConcat, TilesOne
      <3>2. <<"length", "eol">> \o <<"type", "eol">> = <<"length", "eol", "type", "eol">>
        BY TwoAndTwo
      <3>3. <<<<"length", "eol">>, <<"type", "eol">>>> = <<<<"length", "eol">>>> \o <<<<"type", "eol">>>>
        BY <1>4, <1>6
      <3>4. <<"length", "eol">> \o <<"type", "eol">> \in Texts
        BY <1>4 DEF Texts
      <3> QED
        BY <1>4, <1>5, <2>1, <3>1, <3>2, <3>3, <3>4 DEF PostText
    <2>2. CASE ~hrPost
      BY <1>4, <1>5, <2>2, TilesNone DEF PostText
    <2> QED
      BY <2>1, <2>2
  <1>9. Http!Pieces = <<first>> \o auth \o <<field>> \o post \o << <<"eol">> >>
    BY DEF Http!Pieces
  <1> HIDE DEF first, auth, post, field
  <1> DEFINE P1 == <<first>>
             P2 == P1 \o auth
             P3 == P2 \o <<field>>
             P4 == P3 \o post
             P5 == P4 \o << <<"eol">> >>
  <1>10. /\ P1 \in Seq(Texts) /\ P2 \in Seq(Texts) /\ P3 \in Seq(Texts) /\ P4 \in Seq(Texts)
         /\ P5 \in Seq(Texts)
    BY <1>2, <1>3, <1>4, <1>5, <1>7, <1>8
  <1>11. P5 # <<>> /\ Head(P5) = first
    <2>1. \A P, Q \in Seq(Texts) : Len(P) > 0 /\ P[1] = first =>
              Len(P \o Q) > 0 /\ (P \o Q)[1] = first
      OBVIOUS
    <2>2. Len(P1) > 0 /\ P1[1] = first
      OBVIOUS
    <2>3. Len(P2) > 0 /\ P2[1] = first
      BY <1>7, <1>10, <2>1, <2>2
    <2>4. Len(P3) > 0 /\ P3[1] = first
      BY <1>2, <1>5, <1>10, <2>1, <2>3
    <2>5. Len(P4) > 0 /\ P4[1] = first
      BY <1>8, <1>10, <2>1, <2>4
    <2>6. Len(P5) > 0 /\ P5[1] = first
      BY <1>4, <1>5, <1>10, <2>1, <2>5
    <2> HIDE DEF P5
    <2> QED
      BY <1>10, <2>6
  <1> DEFINE T1 == Http!RequestLine
             T2 == T1 \o AuthText
             T3 == T2 \o field
             T4 == T3 \o PostText
             T5 == T4 \o <<"eol">>
  <1>12. \A x, y \in Texts : x \o y \in Texts /\ Len(x \o y) >= Len(x) /\ Len(x) \in Nat
    BY DEF Texts
  <1>13. /\ T1 \in Texts /\ T2 \in Texts /\ T3 \in Texts /\ T4 \in Texts /\ T5 \in Texts
    BY <1>1, <1>2, <1>4, <1>7, <1>8, <1>12
  <1>14. Len(T1) <= Len(T5)
    <2>1. Len(T2) >= Len(T1) /\ Len(T1) \in Nat /\ Len(T2) \in Nat
      BY <1>7, <1>12, <1>13
    <2>2. Len(T3) >= Len(T2) /\ Len(T3) \in Nat
      BY <1>2, <1>12, <1>13
    <2>3. Len(T4) >= Len(T3) /\ Len(T4) \in Nat
      BY <1>8, <1>12, <1>13
    <2>4. Len(T5) >= Len(T4) /\ Len(T5) \in Nat
      BY <1>4, <1>12, <1>13
    <2> HIDE DEF T1, T2, T3, T4, T5
    <2> QED
      BY <2>1, <2>2, <2>3, <2>4
  <1>15. ASSUME Http!Parsed PROVE Http!Meant = T5
    <2>1. Http!Path = IF Http!Slash = 0 THEN <<"/">>
                 ELSE SubSeq(hrTarget, Http!Slash, IF Http!Hash > Http!Slash THEN Http!Hash - 1 ELSE Len(hrTarget))
      <3>1. CASE Http!Slash = 0
        BY <3>1 DEF Http!Path
      <3>2. CASE Http!Slash # 0
        <4>1. Http!Slash \in Nat /\ Http!Hash \in Nat /\ Http!Slash > 0
          BY <3>2, HeadTypes
        <4>2. Http!Hash = 0 \/ Http!Hash > Http!Slash
          BY <1>15, <4>1 DEF Http!Parsed
        <4>3. (IF Http!Hash > Http!Slash THEN Http!Hash - 1 ELSE Len(hrTarget)) = (IF Http!Hash = 0 THEN Len(hrTarget) ELSE Http!Hash - 1)
          BY <4>1, <4>2
        <4> QED
          BY <3>2, <4>3 DEF Http!Path
      <3> QED
        BY <3>1, <3>2
    <2>2. Http!Host = SubSeq(hrTarget, 1, IF Http!Slash = 0 THEN Len(hrTarget) ELSE Http!Slash - 1)
      <3>1. hrTarget \in Texts
        BY HeadTypes
      <3>2. SubSeq(hrTarget, 1, Len(hrTarget)) = hrTarget
        BY <3>1 DEF Texts
      <3> QED
        BY <3>2 DEF Http!Host
    <2> QED
      BY <2>1, <2>2 DEF Http!Meant, Http!RequestLine, AuthText, PostText, field
  <1>16. ASSUME Len(Http!RequestLine) < SendCap PROVE Tiles(P5, 0, T5)
    <2>1. Tiles(P1, 0, T1)
      BY <1>1, <1>3, <1>16, TilesOne
    <2>2. Tiles(P2, 0, T2)
      BY <1>7, <1>10, <1>13, <2>1, TilesConcat
    <2>3. Tiles(P3, 0, T3)
      <3>1. Tiles(<<field>>, 0, field)
        BY <1>2, TilesOne
      <3> HIDE DEF P2, T2
      <3> QED
        BY <1>2, <1>5, <1>10, <1>13, <2>2, <3>1, TilesConcat
    <2>4. Tiles(P4, 0, T4)
      <3> HIDE DEF P3, T3
      <3> QED
        BY <1>8, <1>10, <1>13, <2>3, TilesConcat
    <2>5. Tiles(P5, 0, T5)
      <3>1. Tiles(<<<<"eol">>>>, 0, <<"eol">>)
        BY <1>4, TilesOne
      <3> HIDE DEF P4, T4
      <3> QED
        BY <1>4, <1>5, <1>10, <1>13, <2>4, <3>1, TilesConcat
    <2> QED
      BY <2>5
  <1>17. Http!Pieces = P5
    BY <1>9
  <1> HIDE DEF P5, T5
  <1> QED
    BY <1>3, <1>10, <1>11, <1>14, <1>15, <1>16, <1>17 DEF T1

(* The invariant holds of a request that has been taken apart. *)
LEMMA HttpInit == ASSUME Http!Init PROVE HttpInv
  <1>1. SendCap \in Nat /\ SendCap > 1
    BY HttpAssumption
  <1>2. hrBuf \in [1 .. SendCap -> Symbols] /\ Len(hrBuf) = SendCap
    <2>1. hrBuf = Http!Copies("zero", SendCap)
      BY DEF Http!Init
    <2> QED
      BY <1>1, <2>1, CopiesTyped DEF Symbols
  <1>3. hrWire = <<>> /\ hrWire \in Texts
    BY DEF Http!Init, Texts
  <1>4. Http!TypeOK
    <2>1. hrResult \in {Null, "unparsed"}
      BY DEF Http!Init
    <2>2. 0 \in 0 .. SendCap
      BY <1>1
    <2> QED
      BY <1>2, <2>1, <2>2 DEF Http!Init, Http!TypeOK
  <1>5. HttpTypes
    <2>1. hrAt = hrIdx
      BY DEF Http!Init
    <2>2. hrResult = Null => Http!Parsed
      BY HttpAssumption DEF Http!Init
    <2> QED
      BY <1>2, <1>3, <1>4, <2>1, <2>2, PiecesOfHead DEF HttpTypes, Http!Init
  <1>6. HeadBegun
    BY <1>4, PiecesOfHead DEF HeadBegun, Http!Init
  <1>7. HeadKept
    <2>1. hrResult = Null => Http!Parsed
      BY HttpAssumption DEF Http!Init
    <2>2. hrAt = 0 /\ hrIdx = 0 /\ 0 < SendCap
      BY <1>1 DEF Http!Init
    <2>3. \A i \in 1 .. hrAt : FALSE
      BY <2>2
    <2> QED
      BY <1>3, <1>4, <2>1, <2>2, <2>3, PiecesOfHead DEF HeadKept, Http!Init
  <1>8. Http!RequestWhole
    BY HttpAssumption DEF Http!RequestWhole, Http!Init
  <1> QED
    BY <1>5, <1>6, <1>7, <1>8 DEF HttpInv

(* What is meant depends on the request alone. *)
LEMMA MeantStays ==
    ASSUME UNCHANGED Http!hrAsked
    PROVE  /\ Http!Meant' = Http!Meant /\ Http!RequestLine' = Http!RequestLine /\ Http!Data' = Http!Data
           /\ Http!Parsed' = Http!Parsed
  <1>1. Http!Slash' = Http!Slash /\ Http!Hash' = Http!Hash
    BY DEF Http!hrAsked, Http!Slash, Http!Hash, Http!First
  <1>2. Http!Meant' = Http!Meant
    BY <1>1 DEF Http!hrAsked, Http!Meant, Http!Copies
  <1>3. Http!RequestLine' = Http!RequestLine
    BY <1>1 DEF Http!hrAsked, Http!RequestLine, Http!Path, Http!Host
  <1>4. Http!Parsed' = Http!Parsed
    BY <1>1 DEF Http!hrAsked, Http!Parsed, Http!Path, Http!Host
  <1> QED
    BY <1>2, <1>3, <1>4 DEF Http!hrAsked, Http!Data

(* A write puts what it takes of a text behind what is on the wire. *)
LEMMA WrittenIs ==
    ASSUME NEW text \in Texts, NEW k \in 0 .. Len(text), hrWire \in Texts, Http!Written(text, k)
    PROVE  /\ hrWire' \in Texts /\ Len(hrWire') = Len(hrWire) + k
           /\ \A i \in 1 .. Len(hrWire) : hrWire'[i] = hrWire[i]
           /\ \A i \in 1 .. k : hrWire'[Len(hrWire) + i] = text[i]
  <1> DEFINE part == SubSeq(text, 1, k)
  <1>1. Len(text) \in Nat /\ k \in Nat /\ Len(hrWire) \in Nat
    BY DEF Texts
  <1>2. part \in Texts /\ Len(part) = k /\ \A i \in 1 .. k : part[i] = text[i]
    BY <1>1 DEF Texts
  <1> HIDE DEF part
  <1>3. hrWire' = hrWire \o part
    BY DEF Http!Written, part
  <1>4. \A i \in 1 .. Len(part) : (hrWire \o part)[Len(hrWire) + i] = part[i]
    BY <1>2, JoinedAt DEF Texts
  <1> QED
    BY <1>2, <1>3, <1>4, JoinedAt DEF Texts

(* A round of the loop of _http_client_get_info. *)
LEMMA CollectKeeps == ASSUME HttpInv, Http!Collect PROVE HttpInv'
  <1> DEFINE piece == Head(hrPieces)
             n     == Http!AtMost(SendCap - hrAt, Len(piece))
             rest  == SubSeq(piece, n + 1, Len(piece))
             more  == Tail(hrPieces)
  <1>1. /\ hrResult = Null /\ hrPieces # <<>> /\ hrPieces \in Seq(Texts)
        /\ hrBuf \in [1 .. SendCap -> Symbols] /\ hrWire \in Texts /\ Http!TypeOK
        /\ hrIdx \in 0 .. SendCap /\ hrAt \in 0 .. SendCap /\ hrCut \in BOOLEAN
        /\ hrAt \in {hrIdx, SendCap}
        /\ UNCHANGED <<Http!hrAsked, hrResult>>
    BY DEF HttpInv, HttpTypes, Http!TypeOK, Http!Collect
  <1>2. SendCap \in Nat /\ SendCap > 1
    BY HttpAssumption
  <1>3. piece \in Texts /\ more \in Seq(Texts) /\ Len(piece) \in Nat
    BY <1>1 DEF Texts
  <1>4. n \in Nat /\ n <= Len(piece) /\ hrAt + n <= SendCap /\ (hrAt + n < SendCap => n = Len(piece))
    BY <1>1, <1>2, <1>3 DEF Http!AtMost
  <1>5. rest \in Texts
    BY <1>3, <1>4 DEF Texts
  <1>6. hrBuf' = [i \in 1..SendCap |-> IF i > hrAt /\ i <= hrAt + n THEN piece[i - hrAt] ELSE hrBuf[i]]
    BY DEF Http!Collect
  <1>7. \/ /\ hrAt + n < SendCap
           /\ Http!NextPiece(hrAt + n)
           /\ UNCHANGED <<hrWire, hrCut>>
        \/ /\ hrAt + n = SendCap
           /\ \E k \in {0, 1, SendCap} :
                /\ Http!Written(hrBuf', k)
                /\ \/ k > 0 /\ Http!NextPiece(hrIdx)
                   \/ k = 0 /\ rest = <<>> /\ Http!NextPiece(SendCap)
                   \/ /\ k = 0 /\ rest # <<>>
                      /\ hrPieces' = <<rest>> \o more
                      /\ hrAt' = SendCap
                      /\ UNCHANGED hrIdx
    BY DEF Http!Collect
  <1> HIDE DEF piece, n, rest, more
  <1>8. /\ hrBuf' \in [1 .. SendCap -> Symbols] /\ hrBuf' \in Texts /\ Len(hrBuf') = SendCap
        /\ \A i \in 1 .. SendCap : i <= hrAt => hrBuf'[i] = hrBuf[i]
        /\ \A i \in 1 .. n : hrBuf'[hrAt + i] = piece[i]
    <2>1. \A i \in 1 .. Len(piece) : piece[i] \in Symbols
      BY <1>3 DEF Texts
    <2>2. ASSUME NEW i \in 1 .. SendCap PROVE hrBuf'[i] \in Symbols /\ (i <= hrAt => hrBuf'[i] = hrBuf[i])
      <3>1. CASE i > hrAt /\ i <= hrAt + n
        <4>1. i - hrAt \in 1 .. Len(piece)
          BY <1>1, <1>3, <1>4, <3>1
        <4>2. ~(i <= hrAt)
          BY <1>1, <3>1
        <4> QED
          BY <1>6, <2>1, <3>1, <4>1, <4>2
      <3>2. CASE ~(i > hrAt /\ i <= hrAt + n)
        BY <1>1, <1>6, <3>2
      <3> QED
        BY <3>1, <3>2
    <2>3. hrBuf' \in [1 .. SendCap -> Symbols]
      BY <1>6, <2>2
    <2>4. hrBuf' \in Texts /\ Len(hrBuf') = SendCap
      BY <1>2, <2>3 DEF Texts
    <2>5. ASSUME NEW i \in 1 .. n PROVE hrBuf'[hrAt + i] = piece[i]
      <3>1. hrAt + i \in 1 .. SendCap /\ hrAt + i > hrAt /\ hrAt + i <= hrAt + n /\ (hrAt + i) - hrAt = i
        BY <1>1, <1>2, <1>4
      <3> QED
        BY <1>6, <3>1
    <2> QED
      BY <2>2, <2>3, <2>4, <2>5
  <1>9. hrWire' \in Texts /\ hrCut' \in BOOLEAN
    <2>1. CASE UNCHANGED <<hrWire, hrCut>>
      BY <1>1, <2>1
    <2>2. CASE \E k \in {0, 1, SendCap} : Http!Written(hrBuf', k)
      <3>1. PICK k \in {0, 1, SendCap} : Http!Written(hrBuf', k)
        BY <2>2
      <3>2. k \in 0 .. Len(hrBuf')
        BY <1>2, <1>8
      <3>3. hrCut' \in BOOLEAN
        BY <1>1, <3>1 DEF Http!Written
      <3> QED
        BY <1>1, <1>8, <3>1, <3>2, <3>3, WrittenIs
    <2> QED
      BY <1>7, <2>1, <2>2
  <1>10. hrPieces' \in Seq(Texts) /\ hrIdx' \in 0 .. SendCap /\ hrAt' \in 0 .. SendCap
    <2>1. <<rest>> \o more \in Seq(Texts)
      BY <1>3, <1>5
    <2>2. hrAt + n \in 0 .. SendCap /\ SendCap \in 0 .. SendCap
      BY <1>1, <1>2, <1>4
    <2>3. hrPieces' = more \/ hrPieces' = <<rest>> \o more
      BY <1>7 DEF Http!NextPiece, more
    <2>4. /\ hrIdx' = hrAt + n \/ hrIdx' = hrIdx \/ hrIdx' = SendCap
          /\ hrAt' = hrAt + n \/ hrAt' = hrIdx \/ hrAt' = SendCap
      BY <1>7 DEF Http!NextPiece
    <2> QED
      BY <1>1, <1>3, <2>1, <2>2, <2>3, <2>4
  <1>101. hrAt' \in {hrIdx', SendCap}
    BY <1>7 DEF Http!NextPiece
  <1>11. HttpTypes'
    BY <1>1, <1>8, <1>9, <1>10, <1>101, MeantStays DEF HttpInv, HttpTypes, Http!TypeOK, Http!hrAsked
  <1>12. HeadBegun'
    <2>1. CASE hrIdx = 0
      <3>1. hrAt = 0 /\ Len(piece) \in 1 .. SendCap - 1
        BY <1>1, <2>1 DEF HttpInv, HeadBegun, piece
      <3>2. hrAt + n > 0 /\ hrAt + n < SendCap
        BY <1>2, <3>1 DEF n, Http!AtMost
      <3>3. ~(hrAt + n = SendCap)
        BY <1>1, <1>2, <1>4, <3>2
      <3>4. hrIdx' = hrAt + n
        BY <1>7, <3>3 DEF Http!NextPiece
      <3>5. hrIdx' # 0
        BY <1>1, <1>4, <3>2, <3>4
      <3> QED
        BY <3>5 DEF HeadBegun
    <2>2. CASE hrIdx # 0
      <3>1. CASE hrAt + n < SendCap
        <4>1. ~(hrAt + n = SendCap)
          BY <1>1, <1>2, <1>4, <3>1
        <4>2. hrIdx' = hrAt + n /\ hrPieces' = more
          BY <1>7, <4>1 DEF Http!NextPiece, more
        <4>3. CASE hrAt + n > 0
          BY <1>1, <1>4, <4>2, <4>3 DEF HeadBegun
        <4>4. CASE hrAt + n = 0
          BY <1>1, <1>2, <1>4, <2>2, <4>4
        <4> QED
          BY <1>1, <1>4, <4>3, <4>4
      <3>2. CASE hrAt + n = SendCap
        <4>1. hrIdx' = hrIdx \/ hrIdx' = SendCap
          <5>1. ~(hrAt + n < SendCap)
            BY <1>2, <3>2
          <5> QED
            BY <1>7, <5>1 DEF Http!NextPiece
        <4>2. hrIdx' # 0
          BY <1>2, <2>2, <4>1
        <4> QED
          BY <4>2 DEF HeadBegun
      <3> QED
        BY <1>7, <3>1, <3>2
    <2> QED
      BY <2>1, <2>2
  <1>13. HeadKept'
    <2> SUFFICES ASSUME ~hrCut', Len(Http!RequestLine) < SendCap
                 PROVE  \/ /\ hrWire' = <<>> /\ hrIdx' = hrAt' /\ hrAt' < SendCap
                           /\ \A i \in 1 .. hrAt' : hrBuf'[i] = Http!Meant[i]
                           /\ Tiles(hrPieces', hrAt', Http!Meant)
                        \/ /\ Len(Http!Meant) >= SendCap /\ Len(hrWire') >= SendCap
                           /\ \A i \in 1 .. SendCap : hrWire'[i] = Http!Meant[i]
      BY <1>1, MeantStays DEF HeadKept, Tiles
    <2>1. Http!Meant \in Texts /\ Len(Http!Meant) \in Nat
      BY <1>1, HeadTypes DEF Texts
    <2>2. ~hrCut
      BY <1>7 DEF Http!Written
    <2>3. CASE /\ hrWire = <<>> /\ hrIdx = hrAt /\ hrAt < SendCap
               /\ \A i \in 1 .. hrAt : hrBuf[i] = Http!Meant[i]
               /\ Tiles(hrPieces, hrAt, Http!Meant)
      <3>1. /\ hrAt + Len(piece) <= Len(Http!Meant)
            /\ \A i \in 1 .. Len(piece) : piece[i] = Http!Meant[hrAt + i]
            /\ Tiles(more, hrAt + Len(piece), Http!Meant)
        BY <1>1, <2>1, <2>3, TilesStep DEF piece, more
      <3>2. \A i \in 1 .. hrAt + n : hrBuf'[i] = Http!Meant[i]
        <4> TAKE i \in 1 .. hrAt + n
        <4>1. CASE i <= hrAt
          <5>1. i \in 1 .. SendCap /\ i \in 1 .. hrAt
            BY <1>1, <1>2, <1>4, <4>1
          <5> QED
            BY <1>8, <2>3, <4>1, <5>1
        <4>2. CASE i > hrAt
          <5>1. i - hrAt \in 1 .. n /\ i - hrAt \in 1 .. Len(piece) /\ hrAt + (i - hrAt) = i
            BY <1>1, <1>2, <1>3, <1>4, <4>2
          <5> QED
            BY <1>8, <3>1, <5>1
        <4> QED
          BY <1>1, <1>4, <4>1, <4>2
      <3>3. CASE hrAt + n < SendCap
        <4>1. n = Len(piece) /\ ~(hrAt + n = SendCap)
          BY <1>1, <1>2, <1>4, <3>3
        <4>2. hrIdx' = hrAt + n /\ hrAt' = hrAt + n /\ hrPieces' = more /\ hrWire' = <<>>
          BY <1>7, <2>3, <4>1 DEF Http!NextPiece, more
        <4> QED
          BY <3>1, <3>2, <3>3, <4>1, <4>2
      <3>4. CASE hrAt + n = SendCap
        <4>0. ~(hrAt + n < SendCap)
          BY <1>2, <3>4
        <4>1. PICK k \in {0, 1, SendCap} : Http!Written(hrBuf', k)
          BY <1>7, <4>0
        <4>2. k \in 0 .. Len(hrBuf')
          BY <1>2, <1>8
        <4>3. ~(k < Len(hrBuf'))
          BY <4>1 DEF Http!Written
        <4>4. k = SendCap
          BY <1>2, <1>8, <4>2, <4>3
        <4>5. Len(hrWire) = 0
          BY <2>3
        <4>6. Len(hrWire') = 0 + SendCap /\ \A i \in 1 .. SendCap : hrWire'[0 + i] = hrBuf'[i]
          BY <1>1, <1>8, <4>1, <4>2, <4>4, <4>5, WrittenIs
        <4>7. \A i \in 1 .. SendCap : hrWire'[i] = Http!Meant[i]
          <5> TAKE i \in 1 .. SendCap
          <5>1. 0 + i = i
            OBVIOUS
          <5> QED
            BY <3>2, <3>4, <4>6, <5>1
        <4>8. Len(Http!Meant) >= SendCap /\ Len(hrWire') >= SendCap
          <5>1. hrAt + n <= hrAt + Len(piece) /\ hrAt + Len(piece) \in Nat
            BY <1>1, <1>3, <1>4
          <5> QED
            BY <1>2, <2>1, <3>1, <3>4, <4>6, <5>1
        <4> QED
          BY <4>7, <4>8
      <3> QED
        BY <1>7, <3>3, <3>4
    <2>4. CASE /\ Len(Http!Meant) >= SendCap /\ Len(hrWire) >= SendCap
               /\ \A i \in 1 .. SendCap : hrWire[i] = Http!Meant[i]
      <3>1. Len(hrWire') >= Len(hrWire) /\ \A i \in 1 .. Len(hrWire) : hrWire'[i] = hrWire[i]
        <4>1. Len(hrWire) \in Nat
          BY <1>1 DEF Texts
        <4>2. CASE UNCHANGED <<hrWire, hrCut>>
          BY <4>1, <4>2
        <4>3. CASE \E k \in {0, 1, SendCap} : Http!Written(hrBuf', k)
          <5>1. PICK k \in {0, 1, SendCap} : Http!Written(hrBuf', k)
            BY <4>3
          <5>2. k \in 0 .. Len(hrBuf') /\ k >= 0
            BY <1>2, <1>8
          <5>3. Len(hrWire') = Len(hrWire) + k /\ \A i \in 1 .. Len(hrWire) : hrWire'[i] = hrWire[i]
            BY <1>1, <1>8, <5>1, <5>2, WrittenIs
          <5> QED
            BY <1>2, <4>1, <5>2, <5>3
        <4> QED
          BY <1>7, <4>2, <4>3
      <3>2. Len(hrWire) \in Nat /\ Len(hrWire') \in Nat
        BY <1>1, <1>9 DEF Texts
      <3>3. \A i \in 1 .. SendCap : i \in 1 .. Len(hrWire)
        BY <1>2, <2>4, <3>2
      <3> QED
        BY <1>2, <2>4, <3>1, <3>2, <3>3
    <2> QED
      BY <1>1, <2>2, <2>3, <2>4 DEF HttpInv, HeadKept
  <1>14. Http!RequestWhole'
    <2>1. hrResult' # "sent"
      BY <1>1, HttpAssumption
    <2> QED
      BY <2>1 DEF Http!RequestWhole
  <1> QED
    BY <1>11, <1>12, <1>13, <1>14 DEF HttpInv

(* The end of a request: what is in the buffer is written, and the data behind it. *)
LEMMA SendKeeps == ASSUME HttpInv, Http!Send PROVE HttpInv'
  <1> DEFINE head == SubSeq(hrBuf, 1, hrIdx)
  <1>1. /\ hrResult = Null /\ hrPieces = <<>> /\ hrBuf \in [1 .. SendCap -> Symbols] /\ hrWire \in Texts
        /\ Http!TypeOK /\ hrIdx \in 0 .. SendCap /\ hrCut \in BOOLEAN /\ hrPieces \in Seq(Texts)
        /\ UNCHANGED <<Http!hrAsked, hrPieces, hrBuf, hrIdx, hrAt>>
    BY DEF HttpInv, HttpTypes, Http!TypeOK, Http!Send
  <1>2. SendCap \in Nat /\ SendCap > 1
    BY HttpAssumption
  <1>3. hrIdx # 0
    BY <1>1 DEF HttpInv, HeadBegun
  <1>4. hrBuf \in Texts /\ Len(hrBuf) = SendCap
    BY <1>1, <1>2 DEF Texts
  <1>5. head \in Texts /\ Len(head) = hrIdx /\ \A i \in 1 .. hrIdx : head[i] = hrBuf[i]
    BY <1>1, <1>2, <1>4 DEF Texts
  <1>6. Http!Data \in Texts /\ Len(Http!Data) \in Nat
    <2>1. <<"data", "data">> \in Texts /\ <<>> \in Texts
      BY DEF Texts, Symbols
    <2>2. Http!Data \in Texts
      BY <2>1 DEF Http!Data
    <2> QED
      BY <2>2 DEF Texts
  <1>7. \/ Http!Written(head, 0) /\ hrResult' = "closed"
        \/ \E k \in {1, Len(head)}, d \in 0..Len(Http!Data) :
             /\ hrWire' = hrWire \o SubSeq(head, 1, k) \o SubSeq(Http!Data, 1, d)
             /\ hrCut' = (hrCut \/ k < Len(head) \/ d < Len(Http!Data))
             /\ hrResult' = IF hrPost /\ d = 0 THEN "closed" ELSE "sent"
    BY DEF Http!Send
  <1> HIDE DEF head
  <1>8. CASE Http!Written(head, 0) /\ hrResult' = "closed"
    <2>1. hrWire' \in Texts
      <3>1. 0 \in 0 .. Len(head)
        BY <1>1, <1>2, <1>5
      <3> QED
        BY <1>1, <1>5, <1>8, <3>1, WrittenIs
    <2>2. hrCut' \in BOOLEAN
      BY <1>8 DEF Http!Written
    <2>4. hrResult' # Null /\ hrResult' # "sent"
      BY <1>8, HttpAssumption
    <2>3. HttpTypes'
      BY <1>1, <1>4, <1>8, <2>1, <2>2, <2>4 DEF HttpInv, HttpTypes, Http!TypeOK, Http!hrAsked
    <2> QED
      BY <2>3, <2>4 DEF HttpInv, HeadKept, HeadBegun, Http!RequestWhole
  <1>9. ASSUME NEW k \in {1, Len(head)}, NEW d \in 0..Len(Http!Data),
               hrWire' = hrWire \o SubSeq(head, 1, k) \o SubSeq(Http!Data, 1, d),
               hrCut' = (hrCut \/ k < Len(head) \/ d < Len(Http!Data)),
               hrResult' = IF hrPost /\ d = 0 THEN "closed" ELSE "sent"
        PROVE  HttpInv'
    <2> DEFINE w1 == hrWire \o SubSeq(head, 1, k)
    <2>1. k \in 1 .. Len(head) /\ Len(head) \in Nat
      BY <1>1, <1>2, <1>3, <1>5
    <2>2. SubSeq(head, 1, k) \in Texts /\ Len(SubSeq(head, 1, k)) = k
          /\ (k = Len(head) => SubSeq(head, 1, k) = head)
      BY <1>5, <2>1 DEF Texts
    <2>3. SubSeq(Http!Data, 1, d) \in Texts /\ (d = Len(Http!Data) => SubSeq(Http!Data, 1, d) = Http!Data)
      BY <1>6 DEF Texts
    <2>4. w1 \in Texts /\ Len(w1) = Len(hrWire) + k /\ Len(hrWire) \in Nat
          /\ \A i \in 1 .. Len(hrWire) : w1[i] = hrWire[i]
      BY <1>1, <2>2, JoinedAt DEF Texts
    <2> HIDE DEF w1
    <2>5. hrWire' = w1 \o SubSeq(Http!Data, 1, d)
      BY <1>9 DEF w1
    <2>6. hrWire' \in Texts /\ \A i \in 1 .. Len(w1) : hrWire'[i] = w1[i]
      BY <2>3, <2>4, <2>5, JoinedAt DEF Texts
    <2>61. Len(hrWire') \in Nat /\ Len(hrWire') >= Len(w1)
      <3>1. Len(hrWire') = Len(w1) + Len(SubSeq(Http!Data, 1, d))
        BY <2>3, <2>4, <2>5, JoinedAt DEF Texts
      <3>2. Len(SubSeq(Http!Data, 1, d)) \in Nat /\ Len(w1) \in Nat
        BY <2>3, <2>4 DEF Texts
      <3> QED
        BY <3>1, <3>2
    <2>7. hrResult' \in {"closed", "sent"}
      BY <1>9
    <2>8. hrResult' # Null
      BY <2>7, HttpAssumption
    <2>9. HttpTypes'
      <3>1. hrCut' \in BOOLEAN
        BY <1>9
      <3> QED
        BY <1>1, <1>4, <2>6, <2>7, <2>8, <3>1 DEF HttpInv, HttpTypes, Http!TypeOK, Http!hrAsked
    <2>10. Http!RequestWhole'
      <3> SUFFICES ASSUME ~hrCut'
                   PROVE  IF Len(Http!Meant) < SendCap THEN hrWire' = Http!Meant \o Http!Data
                          ELSE Len(Http!RequestLine) < SendCap =>
                                   SubSeq(hrWire', 1, SendCap) = SubSeq(Http!Meant, 1, SendCap)
        BY <1>1, MeantStays DEF Http!RequestWhole
      <3>1. ~hrCut /\ ~(k < Len(head)) /\ ~(d < Len(Http!Data))
        BY <1>9
      <3>2. k = Len(head) /\ d = Len(Http!Data)
        BY <1>6, <2>1, <3>1
      <3>3. Http!Meant \in Texts /\ Len(Http!Meant) \in Nat
        BY <1>1, HeadTypes DEF Texts
      <3>4. Http!Parsed => Len(Http!RequestLine) <= Len(Http!Meant)
        BY <1>1, PiecesOfHead
      <3>5. Http!RequestLine \in Texts /\ Len(Http!RequestLine) \in Nat
        BY <1>1, HeadTypes DEF Texts
      <3>60. Len(Http!RequestLine) <= Len(Http!Meant)
        BY <1>1, <3>4 DEF HttpInv, HttpTypes
      <3>6. Len(Http!Meant) < SendCap => Len(Http!RequestLine) < SendCap
        BY <1>2, <3>3, <3>5, <3>60
      <3>7. CASE /\ hrWire = <<>> /\ hrIdx = hrAt /\ hrAt < SendCap
                 /\ \A i \in 1 .. hrAt : hrBuf[i] = Http!Meant[i]
                 /\ Tiles(hrPieces, hrAt, Http!Meant)
        <4>1. hrAt = Len(Http!Meant)
          BY <1>1, <3>3, <3>7, TilesEnd
        <4>2. Len(head) = Len(Http!Meant) /\ \A i \in 1 .. Len(head) : head[i] = Http!Meant[i]
          BY <1>5, <3>7, <4>1
        <4>3. head = Http!Meant
          BY <1>5, <3>3, <4>2, SameText DEF Texts
        <4>4. w1 = Http!Meant
          <5>1. <<>> \o head = head
            BY <1>5 DEF Texts
          <5> QED
            BY <2>2, <3>2, <3>7, <4>3, <5>1 DEF w1
        <4>5. hrWire' = Http!Meant \o Http!Data
          BY <2>3, <2>5, <3>2, <4>4
        <4>6. Len(Http!Meant) < SendCap
          BY <3>7, <4>1
        <4> QED
          BY <4>5, <4>6
      <3>8. CASE /\ Len(Http!Meant) >= SendCap /\ Len(hrWire) >= SendCap
                 /\ \A i \in 1 .. SendCap : hrWire[i] = Http!Meant[i]
        <4>1. ~(Len(Http!Meant) < SendCap)
          BY <1>2, <3>3, <3>8
        <4>2. \A i \in 1 .. SendCap : i \in 1 .. Len(hrWire) /\ i \in 1 .. Len(w1)
          BY <1>2, <2>1, <2>4, <3>8
        <4>3. \A i \in 1 .. SendCap : hrWire'[i] = Http!Meant[i]
          BY <2>4, <2>6, <3>8, <4>2
        <4>4. Len(hrWire') >= SendCap
          BY <1>2, <2>1, <2>4, <2>61, <3>8
        <4>5. /\ SubSeq(hrWire', 1, SendCap) \in Texts /\ Len(SubSeq(hrWire', 1, SendCap)) = SendCap
              /\ \A i \in 1 .. SendCap : SubSeq(hrWire', 1, SendCap)[i] = hrWire'[i]
          BY <1>2, <2>6, <2>61, <4>4 DEF Texts
        <4>6. /\ SubSeq(Http!Meant, 1, SendCap) \in Texts /\ Len(SubSeq(Http!Meant, 1, SendCap)) = SendCap
              /\ \A i \in 1 .. SendCap : SubSeq(Http!Meant, 1, SendCap)[i] = Http!Meant[i]
          BY <1>2, <3>3, <3>8 DEF Texts
        <4>7. SubSeq(hrWire', 1, SendCap) = SubSeq(Http!Meant, 1, SendCap)
          BY <4>3, <4>5, <4>6, SameText DEF Texts
        <4> QED
          BY <4>1, <4>7
      <3>9. CASE ~(Len(Http!RequestLine) < SendCap)
        BY <3>6, <3>9
      <3> QED
        BY <1>1, <3>1, <3>7, <3>8, <3>9 DEF HttpInv, HeadKept
    <2> QED
      BY <2>8, <2>9, <2>10 DEF HttpInv, HeadKept, HeadBegun
  <1> QED
    BY <1>7, <1>8, <1>9

(* Every step of a request keeps it. *)
LEMMA HttpNext == HttpInv /\ [Http!Next]_httpVars => HttpInv'
  <1>1. CASE UNCHANGED httpVars
    <2>1. ASSUME HttpInv PROVE HttpInv'
      <3>1. UNCHANGED Http!hrAsked
        BY <1>1 DEF httpVars, Http!hrAsked
      <3>2. Http!Meant' = Http!Meant /\ Http!RequestLine' = Http!RequestLine /\ Http!Data' = Http!Data /\ Http!Parsed' = Http!Parsed
        BY <3>1, MeantStays
      <3>3. HttpTypes'
        BY <1>1, <2>1, <3>2 DEF httpVars, HttpInv, HttpTypes, Http!TypeOK
      <3>4. HeadKept'
        BY <1>1, <2>1, <3>2 DEF httpVars, HttpInv, HeadKept, Tiles
      <3>5. HeadBegun' /\ Http!RequestWhole'
        BY <1>1, <2>1, <3>2 DEF httpVars, HttpInv, HeadBegun, Http!RequestWhole
      <3> QED
        BY <3>3, <3>4, <3>5 DEF HttpInv
    <2> QED
      BY <2>1
  <1> QED
    BY <1>1, CollectKeeps, SendKeeps DEF Http!Next

(* It says that a request which no write cut short is whole. *)
LEMMA HttpMeans == HttpInv => Http!TypeOK /\ Http!RequestWhole
  BY DEF HttpInv, HttpTypes

----------------------------------------------------------------------------
(* Firmware updates. *)

OtaBusy == {"pre", "start", "fetch", "save", "post"}

OtaContexts == [remote : Versions \cup {Null}, downloading : Versions \cup {Null},
                downloaded : 0..Segments, failCnt : 0..(MaxRetry + 2)]

(* While a firmware is downloaded, the offer it came from stands: the      *)
(* handle has its version, and is ready for no other.                      *)
OtaOffer ==
    /\ client # Null /\ client.state = "FETCHING" => client.version \in Versions
    /\ pc \in OtaBusy => /\ client.state # "INITED" /\ downloading
                         /\ client.version = ctx.remote /\ ctx.remote \in Versions
    /\ pc \in {"pre", "start"} => client.state = "FETCHING"
    /\ pc \in {"fetch", "save"} /\ client.state = "FETCHING" => client.sizeFetched < Segments

(* The flash holds no less than the sizes that are remembered. *)
OtaSizes ==
    /\ ctx.downloaded <= Len(flash)
    /\ pc = "start" /\ ctx.downloaded = 0 /\ ~behind => flash = <<>>
    /\ pc \in {"fetch", "post"} => client.sizeFetched <= Len(flash)
    /\ pc = "save" =>
         /\ client.sizeFetched \in 1..Segments /\ client.sizeFetched - 1 <= Len(flash)
         /\ client.md5 # <<>> /\ client.md5[Len(client.md5)] = <<ctx.remote, client.sizeFetched>>

(* What is stored, of the version it was fetched for: that is kept in      *)
(* ctx.downloading while ctx.remote is already that of the next download.  *)
OtaStored ==
    ~behind =>
      /\ ctx.downloaded > 0 =>
           flash = Ota!Part(IF pc = "pre" THEN ctx.downloading ELSE ctx.remote, ctx.downloaded)
      /\ pc = "start" /\ ctx.downloaded > 0 => client.md5 = flash
      /\ pc = "fetch" => /\ flash = client.md5
                         /\ flash = Ota!Part(ctx.remote, client.sizeFetched)
      /\ pc = "save" => /\ flash = Ota!Part(ctx.remote, client.sizeFetched - 1)
                        /\ client.md5 = Append(flash, <<ctx.remote, client.sizeFetched>>)
      /\ pc = "post" => flash = Ota!Firmware(ctx.remote)

OtaResumes == pc = "loop" /\ ctx.downloaded > 0 => ctx.downloading = ctx.remote

(* A failed download has been counted when the next one begins. *)
OtaTries ==
    /\ attempts <= MaxRetry + 1
    /\ pc \in {"loop", "report"} => attempts <= ctx.failCnt /\ ctx.failCnt <= MaxRetry
    /\ pc \in OtaBusy => attempts <= ctx.failCnt + 1 /\ ctx.failCnt <= MaxRetry
    /\ pc = "end" => /\ ctx.failCnt <= MaxRetry + 1
                     /\ ~success => attempts <= ctx.failCnt + (IF downloading THEN 1 ELSE 0)
    /\ pc = "decide" /\ ~success => attempts <= ctx.failCnt

(* Once the boot partition is set the task goes straight to the restart. *)
OtaBoot == boot # Null => pc \in {"end", "decide", "restarted"} /\ success /\ downloading

OtaInv ==
    /\ Ota!TypeOK /\ OtaOffer /\ OtaSizes /\ OtaStored /\ OtaResumes /\ OtaTries /\ OtaBoot
    /\ Ota!BootIsFirmware

----------------------------------------------------------------------------
(* Commands of the cloud. *)

(* The tokens of the messages under way, and that of an unanswered get_status. *)
InDown == {tcDown[i].token : i \in DOMAIN tcDown}
Due    == InDown \cup (IF tcAsked # Null /\ ~tcAsked.answered THEN {tcAsked.token} ELSE {})

(* No callback has been called for this token, and it is not replied to. *)
Fresh(t) == tcCalled[t] = {} /\ t \notin tcReplied /\ tcToken # t

Messages ==
    [kind : {"control"}, token : Commands!Tokens, sets : SUBSET Properties]
    \cup [kind : {"action"}, token : Commands!Tokens, of : Actions, valid : BOOLEAN]
    \cup [kind : {"status"}, token : Commands!Tokens, accepted : BOOLEAN, sets : SUBSET Properties]

CommandTypes ==
    /\ tcTokens \in 0 .. MaxTokens
    /\ tcCalled \in [Commands!Tokens -> SUBSET [at : Nat, of : Properties \cup Actions]]
    /\ tcProperties \in Seq([at : Nat, of : Properties])
    /\ tcActions \in Seq([at : Nat, of : Actions])
    /\ tcDown \in Seq(Messages)
    /\ tcAsked # Null => tcAsked \in [token : 1 .. tcTokens,
                                      ack : {"none", "accepted", "rejected", "timeout"},
                                      answered : BOOLEAN]
    /\ tcValue \in [Properties -> 0 .. MaxTokens] /\ tcActed \in [Properties -> 0 .. MaxTokens]
    /\ tcToken \in Commands!Tokens \cup {Null}
    /\ tcReplied \subseteq Commands!Tokens
    /\ tcArrived \in BOOLEAN /\ (tcArrived => tcToken \in Commands!Tokens)

(* Each token has one message, and is fresh until it is handled. *)
CommandTokens ==
    /\ Due \subseteq 1 .. tcTokens
    /\ \A i, j \in DOMAIN tcDown : tcDown[i].token = tcDown[j].token => i = j
    /\ tcAsked # Null /\ ~tcAsked.answered => tcAsked.token \notin InDown
    /\ \A t \in Commands!Tokens : t \in Due \/ t > tcTokens => Fresh(t)

(* Controls come in the order of their tokens: behind a control or an      *)
(* answer to a get_status there is no older control.                       *)
ControlsInOrder ==
    \A i, j \in DOMAIN tcDown :
        i < j /\ tcDown[i].kind # "action" /\ tcDown[j].kind = "control" =>
            tcDown[i].token < tcDown[j].token

(* The tokens whose message has set a property. *)
Applied == {t \in Commands!Tokens : \E h \in tcCalled[t] : h.of \in Properties}

(* Controls under way are newer than what was applied; while a get_status  *)
(* waits, all that was replied to is older.                                *)
AppliedIsOlder ==
    /\ \A t \in Applied, i \in DOMAIN tcDown :
           tcDown[i].kind = "control" => t < tcDown[i].token
    /\ tcAsked # Null => \A t \in Applied \cap tcReplied : t < tcAsked.token

(* The data is that of the token that is remembered or of a later one, and *)
(* so is what the hardware was set to for a token that was replied to.     *)
DataIsRecent ==
    /\ tcToken \in Commands!Tokens =>
           \A h \in tcCalled[tcToken] : h.of \in Properties => tcValue[h.of] >= tcToken
    /\ \A t \in tcReplied : \A h \in tcCalled[t] :
           h.of \in Properties => tcValue[h.of] >= t /\ tcActed[h.of] >= t
    /\ ~tcArrived => tcActed = tcValue

CommandsInv ==
    CommandTypes /\ CommandTokens /\ ControlsInOrder /\ AppliedIsOlder /\ DataIsRecent

(* The token that is remembered is that of the control received last, and  *)
(* with the flag down every control that reached a callback has a reply    *)
(* with its token or with that of a later one.                             *)
Covered(received, replied) ==
    \A i \in DOMAIN received : received[i].reached =>
        \E j \in i .. Len(received) : received[j].token \in replied

RepliesCover ==
    /\ tcReceived \in Seq([token : Commands!Tokens, reached : BOOLEAN])
    /\ tcReceived # <<>> => tcToken = tcReceived[Len(tcReceived)].token
    /\ tcArrived => tcReceived # <<>>
    /\ ~tcArrived => Covered(tcReceived, tcReplied)

----------------------------------------------------------------------------
(* The gateway: a session that is neither absent nor online is that of the *)
(* call that runs, unless its record was freed.                            *)
GatewayInv ==
    /\ gwSessions \in [Devices -> {"none", "init", "online"}]
    /\ gwCalls \in 0 .. MaxCalls
    /\ gwCall # Null => gwCall \in [op : Gw!Operations \cup {"list"}, dev : Devices \cup {Null},
                                    n : 1 .. MaxCalls, held : BOOLEAN]
    /\ \A d \in Devices : gwSessions[d] = "init" =>
           gwCall # Null /\ gwCall.op = "online" /\ gwCall.dev = d /\ gwCall.held

(* What a call of the gateway takes for its answer. A request under way is *)
(* that of the call that runs, or comes after one that was given up.       *)
GatewayFlight == gwUp \cup {a.r : a \in gwDown}

GatewayDue(r) == gwCall # Null /\ r.n = gwCall.n /\ r.op = gwCall.op /\ r.dev = gwCall.dev

LateAt(n, end) == n < end /\ \E g \in gwGivenUp : g <= n

GatewayEnd == IF gwCall = Null THEN gwCalls + 1 ELSE gwCall.n

GatewayWires ==
    /\ gwUp \subseteq Gw!Message
    /\ gwDown \subseteq [r : Gw!Message, result : {0, Gw!Refused}]
    /\ gwGivenUp \subseteq 1 .. MaxCalls
    /\ gwCall # Null => gwCall.n = gwCalls
    /\ \A r \in GatewayFlight : GatewayDue(r) \/ LateAt(r.n, GatewayEnd)
    /\ \A r, q \in gwUp : r.n = q.n => r = q
    /\ \A r \in gwUp, a \in gwDown : r.n # a.r.n
    /\ \A a, b \in gwDown : a.r.n = b.r.n => a = b

(* The slot of the running call is its own, and has a result only from an  *)
(* answer, to this request or to one behind a call that was given up.      *)
TakenInTurn(a) ==
    /\ a \in [r : Gw!Message, result : {0, Gw!Refused}]
    /\ a.result = gwSlots[gwCall.op].result
    /\ a.r.op = gwCall.op
    /\ a.r.dev = gwCall.dev \/ <<a.r.dev, gwCall.dev>> \in BeginningOf
    /\ \/ a.r.n = gwCall.n /\ \A r \in GatewayFlight : r.n # gwCall.n
       \/ LateAt(a.r.n, gwCall.n)

GatewaySlots ==
    /\ gwSlots \in [Gw!Operations ->
                       [client : Devices \cup {Null}, result : {0, Gw!Refused, Gw!Waiting}]]
    /\ DOMAIN gwAccepted = Gw!Operations
    /\ gwCall # Null /\ gwCall.op \in Gw!Operations =>
         /\ gwSlots[gwCall.op].client = gwCall.dev
         /\ gwSlots[gwCall.op].result # Gw!Waiting => TakenInTurn(gwAccepted[gwCall.op])

GatewayAnswers == GatewayInv /\ GatewayWires /\ GatewaySlots /\ Gw!SuccessIsAnswered

(* The synchronous requests. *)
SyncInv ==
    /\ sqOk \in [Sync!Topics -> BOOLEAN] /\ sqGranted \in [Sync!Topics -> BOOLEAN]
    /\ Sync!OkIsGranted

(* The synchronous requests likewise: what is under way is of the call     *)
(* that waits, or late.                                                    *)
SyncFlight == sqUp \cup {a.q : a \in sqDown}

SyncOwn == [req |-> sqCall.req, n |-> sqCall.n]

SyncLate(n, end) == n < end /\ \E g \in sqGivenUp : g <= n

SyncEnd == IF sqCall = Null THEN sqCalls + 1 ELSE sqCall.n

SyncCalls ==
    /\ sqCalls \in 0 .. MaxCalls
    /\ sqCall # Null => /\ sqCall \in [req : Requests, n : 1 .. MaxCalls, tries : Nat,
                                       phase : {"subscribe", "ask", "wait"}]
                        /\ sqCall.n = sqCalls

SyncWires ==
    /\ sqUp \subseteq Sync!Asked /\ sqDown \subseteq [q : Sync!Asked, good : BOOLEAN]
    /\ sqGivenUp \subseteq 1 .. MaxCalls
    /\ \A q \in SyncFlight : (Sync!Waits /\ q = SyncOwn) \/ SyncLate(q.n, SyncEnd)
    /\ \A r, q \in sqUp : r.n = q.n => r = q
    /\ \A r \in sqUp, a \in sqDown : r.n # a.q.n
    /\ \A a, b \in sqDown : a.q.n = b.q.n => a = b

(* A result is written by an answer; by that to this request, or one that  *)
(* was late.                                                               *)
WrittenInTurn(s) ==
    /\ sqResult[s] # "waiting" => \/ \A q \in SyncFlight : q.n # sqCall.n
                                  \/ \E g \in sqGivenUp : g <= sqCall.n
    /\ sqResult[s] = "ok" =>
         /\ sqTaken[s] \in [q : Sync!Asked, good : BOOLEAN] /\ sqTaken[s].good
         /\ Sync!ServiceOf[sqTaken[s].q.req] = s
         /\ sqTaken[s].q = SyncOwn \/ SyncLate(sqTaken[s].q.n, sqCall.n)

SyncSlots ==
    /\ sqResult \in [Sync!Services -> {"waiting", "ok", "error"}]
    /\ DOMAIN sqTaken = Sync!Services
    /\ Sync!Waits => WrittenInTurn(Sync!ServiceOf[sqCall.req])

SyncAnswers == SyncCalls /\ SyncWires /\ SyncSlots /\ Sync!SuccessIsAnswered

(* Resources. *)
ResourceInv ==
    /\ rsState \in [Resource!Kinds -> {"inited", "start", "end", "disconnected"}]
    /\ rsInfo \in [Resource!Kinds -> [name : Nat \cup {Null}, url : Nat \cup {Null}]]
    /\ rsTasks \in Nat
    /\ \A m \in rsDown : m.type = "task" => m.task \in Nat \ {0}
    /\ \A k \in Resource!Kinds : rsState[k] = "start" =>
           rsInfo[k].name \in Nat /\ rsInfo[k].url = rsInfo[k].name

(* What the application has stored is a part of one task, from its begin;  *)
(* the checksum is that of it where the transfer can go on as it is.       *)
DownTypes ==
    /\ rsChannel \in [Resource!Kinds -> {Null, "open", "closed"}]
    /\ rsFile \in [task : Nat \cup {Null}, units : Seq((Nat \cup {Null}) \X Nat)]

StoredPart ==
    /\ Len(rsFile.units) <= Size
    /\ rsFile.units = [i \in 1 .. Len(rsFile.units) |-> <<rsFile.task, i - 1>>]

DigestGoesOn ==
    /\ rsState["down"] = "inited" => rsChannel["down"] = Null
    /\ rsState["down"] = "start" /\ rsChannel["down"] # Null =>
           rsFile.task = rsInfo["down"].url /\ rsDigest = rsFile.units

ResourceStored == DownTypes /\ StoredPart /\ DigestGoesOn /\ Resource!ChecksumOfFile

(* The result of a report that waits was written by an answer, which is    *)
(* its own when it was the only report of an upload as it began.           *)
ReportAnswer == [type : {"answer"}, kind : Resource!Kinds, to : Resource!Reports, code : {"ok", "error"}]
OwnReport == [kind |-> "up", task |-> rsReport.task, what |-> "result"]

ResourceAnswers ==
    /\ rsResult \in [Resource!Kinds -> {"ok", "waiting", "error"}]
    /\ \A m \in rsDown : m.type = "answer" => m \in ReportAnswer
    /\ \A m \in rsDown : m.type = "answer" => m.to.kind = m.kind
    /\ rsUp \subseteq Resource!Reports
    /\ rsReport # Null /\ rsResult["up"] # "waiting" =>
           rsTaken # Null /\ rsTaken.code = rsResult["up"]
    /\ rsReport # Null /\ ~rsReport.shared =>
           /\ \A r \in rsUp : r.kind = "up" => r = OwnReport
           /\ \A m \in rsDown : m.type = "answer" /\ m.kind = "up" => m.to = OwnReport
           /\ rsTaken # Null => rsTaken.to = OwnReport
    /\ rsReport = Null => rsTaken = Null
    /\ Resource!SuccessIsAnswered

ResourceAll == ResourceInv /\ ResourceStored /\ ResourceAnswers

----------------------------------------------------------------------------
(* Firmware updates: the proof. *)

LEMMA OtaParts ==
    ASSUME NEW v
    PROVE  /\ Ota!Part(v, 0) = <<>>
           /\ Ota!Part(v, Segments) = Ota!Firmware(v)
           /\ \A k \in 0..Segments : Ota!Part(v, k) \in Seq({v} \X (1..Segments)) /\ Len(Ota!Part(v, k)) = k
           /\ \A k \in 1..Segments : Ota!Part(v, k) = Append(Ota!Part(v, k - 1), <<v, k>>)
  <1>1. Ota!Firmware(v) \in Seq({v} \X (1..Segments)) /\ Len(Ota!Firmware(v)) = Segments
    BY OtaAssumption DEF Ota!Firmware
  <1>2. \A k \in 0..Segments : Ota!Part(v, k) \in Seq({v} \X (1..Segments)) /\ Len(Ota!Part(v, k)) = k
    BY <1>1, OtaAssumption DEF Ota!Part
  <1>3. Ota!Part(v, 0) = <<>> /\ Ota!Part(v, Segments) = Ota!Firmware(v)
    BY <1>1, OtaAssumption DEF Ota!Part
  <1>4. ASSUME NEW k \in 1..Segments
        PROVE  Ota!Part(v, k) = Append(Ota!Part(v, k - 1), <<v, k>>)
    BY <1>1, OtaAssumption DEF Ota!Part, Ota!Firmware
  <1> QED
    BY <1>2, <1>3, <1>4

LEMMA OtaBeginnings ==
    /\ <<>> \in Ota!Stored
    /\ Ota!NewContext \in OtaContexts
    /\ Ota!NewClient \in Ota!Client
  <1>1. <<>> \in Ota!Stored
    BY DEF Ota!Stored
  <1> QED
    BY <1>1, OtaAssumption DEF OtaContexts, Ota!NewContext, Ota!NewClient, Ota!Client, Ota!States

(* What the steps make of a handle and of a context is one again. *)
LEMMA OtaUpdates ==
    /\ \A c \in Ota!Client : \A e \in BOOLEAN : [c EXCEPT !.err = e] \in Ota!Client
    /\ \A c \in Ota!Client : Ota!Reset(c) \in Ota!Client
    /\ \A c \in Ota!Client : \A n \in 0..Segments, s \in Ota!Stored :
           [c EXCEPT !.sizeFetched = n, !.md5 = s] \in Ota!Client
    /\ \A c \in Ota!Client : \A s \in Ota!Stored : [c EXCEPT !.md5 = s] \in Ota!Client
    /\ \A c \in OtaContexts : \A n \in 0..Segments : [c EXCEPT !.downloaded = n] \in OtaContexts
    /\ \A c \in OtaContexts : \A n \in 0..MaxRetry + 2 : [c EXCEPT !.failCnt = n] \in OtaContexts
    /\ \A c \in OtaContexts : \A v \in Versions \cup {Null} :
           [c EXCEPT !.remote = v] \in OtaContexts /\ [c EXCEPT !.downloading = v] \in OtaContexts
  BY DEF Ota!Client, Ota!Reset, Ota!States, OtaContexts

LEMMA OtaLast ==
    ASSUME NEW S, NEW s \in Seq(S), NEW x \in S
    PROVE  Append(s, x) # <<>> /\ Append(s, x)[Len(Append(s, x))] = x
  OBVIOUS

LEMMA OtaSave ==
    ASSUME OtaInv, Ota!Save
    PROVE  OtaInv'
  <1>t. /\ ctx \in OtaContexts /\ client \in Ota!Client \cup {Null} /\ (pc = "none" <=> client = Null)
        /\ flash \in Ota!Stored
    BY DEF OtaInv, Ota!TypeOK, OtaContexts
  <1>0. client \in Ota!Client /\ client.md5 \in Ota!Stored
    BY <1>t DEF Ota!Save, Ota!Client
  <1>1. /\ client.sizeFetched \in 1..Segments /\ client.sizeFetched - 1 <= Len(flash)
        /\ Ota!Last(client.md5) = <<ctx.remote, client.sizeFetched>>
    BY DEF OtaInv, OtaSizes, Ota!Save, Ota!Last
  <1>6. flash' = Append(flash, <<ctx.remote, client.sizeFetched>>)
    BY <1>1 DEF Ota!Save
  <1>7. <<ctx.remote, client.sizeFetched>> \in Versions \X (1..Segments)
    BY <1>1 DEF OtaInv, OtaOffer, OtaBusy, Ota!Save
  <1>8. flash' \in Ota!Stored /\ Len(flash') = Len(flash) + 1 /\ Len(flash) \in Nat
    BY <1>t, <1>6, <1>7 DEF Ota!Stored
  <1>9. ctx' = [ctx EXCEPT !.downloaded = client.sizeFetched] /\ ctx' \in OtaContexts
    <2>1. client.sizeFetched \in 0..Segments
      BY <1>1
    <2> QED
      BY <1>t, <2>1, OtaUpdates DEF Ota!Save, Ota!SavedSize
  <1>d. drops' \in Nat
    BY DEF OtaInv, Ota!TypeOK, Ota!Save
  <1>2. Ota!TypeOK'
    BY <1>t, <1>8, <1>9, <1>d, OtaBeginnings DEF OtaInv, Ota!TypeOK, OtaContexts, OtaBusy, Ota!stored, Ota!main, Ota!ToEnd, Ota!Save
  <1>3. OtaOffer' /\ OtaSizes' /\ OtaResumes'
    BY SMTT(30), <1>t, <1>1, <1>8, <1>9, OtaAssumption, NullAssumption, NullIsNoNumber DEF OtaInv, OtaOffer, OtaSizes, OtaResumes, OtaContexts, Ota!Client, OtaBusy, Ota!stored, Ota!main, Ota!ToEnd, Ota!Save
  <1>4. OtaTries' /\ OtaBoot' /\ Ota!BootIsFirmware'
    BY SMTT(30), <1>t, <1>1, <1>8, <1>9, OtaAssumption DEF OtaInv, OtaTries, OtaBoot, OtaOffer, Ota!BootIsFirmware, OtaContexts, Ota!TypeOK, OtaBusy, Ota!stored, Ota!main, Ota!ToEnd, Ota!Save
  <1>5. OtaStored'
    <2>1. ~behind => client.md5 = flash' /\ flash' = Ota!Part(ctx.remote, client.sizeFetched)
      BY <1>1, <1>6, OtaParts DEF OtaInv, OtaStored, Ota!Save
    <2> QED
      BY <1>t, <1>9, <2>1 DEF OtaStored, OtaContexts, Ota!Save, Ota!ToEnd
  <1> QED
    BY <1>2, <1>3, <1>4, <1>5 DEF OtaInv

LEMMA OtaFetch ==
    ASSUME OtaInv, Ota!Fetch
    PROVE  OtaInv'
  <1>t. /\ ctx \in OtaContexts /\ client \in Ota!Client \cup {Null} /\ (pc = "none" <=> client = Null)
        /\ flash \in Ota!Stored
    BY DEF OtaInv, Ota!TypeOK, OtaContexts
  <1> DEFINE n == client.sizeFetched + 1
  <1>0. client \in Ota!Client /\ client.md5 \in Ota!Stored
    BY <1>t DEF Ota!Fetch, Ota!Client
  <1>1. n \in 1..Segments /\ client.sizeFetched \in 0..Segments /\ client.sizeFetched <= Len(flash) /\ n - 1 = client.sizeFetched
    BY <1>0, OtaAssumption DEF OtaInv, OtaOffer, OtaSizes, Ota!Fetch, Ota!Client
  <1>6. client.version = ctx.remote /\ ctx.remote \in Versions /\ downloading /\ client.state # "INITED"
    BY DEF OtaInv, OtaOffer, OtaBusy, Ota!Fetch
  <1>7. Append(client.md5, <<ctx.remote, n>>) \in Ota!Stored
    BY <1>0, <1>1, <1>6 DEF Ota!Stored
  <1>8. /\ client' \in Ota!Client /\ client'.sizeFetched = n /\ client'.version = ctx.remote
        /\ client'.md5 = Append(client.md5, <<ctx.remote, n>>)
        /\ client'.state = IF n >= Segments THEN "FETCHED" ELSE client.state
    <2>1. client' = [client EXCEPT !.sizeFetched = n, !.md5 = Append(client.md5, <<ctx.remote, n>>),
                                  !.state = IF n >= Segments THEN "FETCHED" ELSE client.state]
      BY <1>6 DEF Ota!Fetch
    <2>2. n \in 0..Segments /\ client.state \in Ota!States /\ "FETCHED" \in Ota!States
      BY <1>0, <1>1 DEF Ota!Client, Ota!States
    <2> HIDE DEF n
    <2> QED
      BY <1>0, <1>6, <1>7, <2>1, <2>2 DEF Ota!Client
  <1>9. client'.md5 # <<>> /\ client'.md5[Len(client'.md5)] = <<ctx.remote, n>>
    BY <1>0, <1>6, <1>1, <1>8, OtaLast DEF Ota!Stored
  <1> HIDE DEF n
  <1>2. Ota!TypeOK'
    BY <1>t, <1>8, NullAssumption, NullIsNoNumber DEF OtaInv, Ota!TypeOK, Ota!Fetch, Ota!stored, Ota!main
  <1>3. OtaOffer' /\ OtaSizes' /\ OtaResumes'
    BY <1>0, <1>1, <1>6, <1>8, <1>9, OtaAssumption DEF OtaInv, OtaOffer, OtaSizes, OtaResumes, OtaBusy, Ota!Fetch, Ota!stored
  <1>4. OtaTries' /\ OtaBoot' /\ Ota!BootIsFirmware'
    BY DEF OtaInv, OtaTries, OtaBoot, OtaBusy, Ota!BootIsFirmware, Ota!Fetch, Ota!stored
  <1>5. OtaStored'
    BY <1>1, <1>8 DEF OtaInv, OtaStored, Ota!Fetch, Ota!stored
  <1> QED
    BY <1>2, <1>3, <1>4, <1>5 DEF OtaInv

LEMMA OtaResume ==
    ASSUME OtaInv, NEW ok \in BOOLEAN, Ota!Resume(ok)
    PROVE  OtaInv'
  <1>t. /\ ctx \in OtaContexts /\ client \in Ota!Client \cup {Null} /\ (pc = "none" <=> client = Null)
        /\ flash \in Ota!Stored
    BY DEF OtaInv, Ota!TypeOK, OtaContexts
  <1>0. client \in Ota!Client /\ ctx.downloaded \in 1..Segments /\ ctx.remote = ctx.downloading
    BY <1>t, OtaAssumption DEF Ota!Resume, Ota!Resumable, OtaContexts
  <1>1. ctx.downloaded <= Len(flash)
    BY DEF OtaInv, OtaSizes
  <1>6. SubSeq(flash, 1, ctx.downloaded) \in Ota!Stored
    BY <1>t, <1>0, <1>1 DEF Ota!Stored
  <1>7. client' \in Ota!Client /\ client'.state = client.state /\ client'.version = client.version
    <2>1. CASE ok
      <3> DEFINE part == SubSeq(flash, 1, ctx.downloaded)
      <3>1. client' = [client EXCEPT !.md5 = part]
        BY <2>1 DEF Ota!Resume
      <3>2. part \in Ota!Stored
        BY <1>6
      <3> HIDE DEF part
      <3>3. client' \in Ota!Client
        BY <1>0, <3>1, <3>2, OtaUpdates
      <3> QED
        BY <1>0, <3>1, <3>3 DEF Ota!Client
    <2>2. CASE ~ok
      BY <1>0, <2>2 DEF Ota!Resume
    <2> QED
      BY <2>1, <2>2
  <1>8. /\ ctx' \in OtaContexts /\ ctx'.remote = ctx.remote /\ ctx'.failCnt = ctx.failCnt
        /\ IF ok THEN ctx'.downloaded = ctx.downloaded ELSE ctx'.downloaded = 0 /\ behind'
    <2>1. CASE ok
      BY <1>t, <2>1 DEF Ota!Resume
    <2>2. CASE ~ok
      <3>1. 0 \in 0..Segments
        BY OtaAssumption
      <3>2. ctx' = [ctx EXCEPT !.downloaded = 0] /\ behind'
        BY <2>2 DEF Ota!Resume
      <3>3. ctx' \in OtaContexts
        BY <1>t, <3>1, <3>2, OtaUpdates
      <3> QED
        BY <1>t, <2>2, <3>2, <3>3 DEF OtaContexts
    <2> QED
      BY <2>1, <2>2
  <1>9. behind' \in BOOLEAN
    BY DEF OtaInv, Ota!TypeOK, Ota!Resume
  <1>2. Ota!TypeOK'
    BY <1>t, <1>7, <1>8, <1>9, NullAssumption, NullIsNoNumber DEF OtaInv, Ota!TypeOK, OtaContexts, Ota!Resume, Ota!main
  <1>3. OtaOffer' /\ OtaSizes' /\ OtaResumes'
    <2>1. Len(flash) \in Nat /\ flash' = flash
      BY <1>t DEF Ota!Stored, Ota!Resume
    <2>2. ctx'.downloaded <= Len(flash') /\ (ctx'.downloaded = 0 => behind')
      BY <1>0, <1>1, <1>8, <2>1
    <2> QED
      BY <1>0, <1>7, <1>8, <2>2 DEF OtaInv, OtaOffer, OtaSizes, OtaResumes, OtaBusy, Ota!Resume
  <1>4. OtaTries' /\ OtaBoot' /\ Ota!BootIsFirmware'
    BY <1>8 DEF OtaInv, OtaTries, OtaBoot, OtaBusy, Ota!BootIsFirmware, Ota!Resume
  <1>5. OtaStored'
    <2> SUFFICES ASSUME ~behind' PROVE OtaStored'
      BY DEF OtaStored
    <2>1. ~behind /\ ok
      BY DEF Ota!Resume
    <2>2. flash = Ota!Part(ctx.remote, ctx.downloaded)
      BY <1>0, <2>1 DEF OtaInv, OtaStored, Ota!Resume
    <2>3. Len(flash) = ctx.downloaded
      <3>1. ctx.downloaded \in 0..Segments
        BY <1>0
      <3> QED
        BY <2>2, <3>1, OtaParts
    <2>4. SubSeq(flash, 1, ctx.downloaded) = flash
      BY <1>t, <2>3 DEF Ota!Stored
    <2>5. client'.md5 = flash
      BY <1>0, <2>1, <2>4 DEF Ota!Resume, Ota!Client
    <2> QED
      BY <2>1, <2>2, <2>5 DEF OtaStored, Ota!Resume
  <1> QED
    BY <1>2, <1>3, <1>4, <1>5 DEF OtaInv

LEMMA OtaCheck ==
    ASSUME OtaInv, NEW ok \in BOOLEAN, Ota!Check(ok)
    PROVE  OtaInv'
  <1>t. /\ ctx \in OtaContexts /\ client \in Ota!Client \cup {Null} /\ (pc = "none" <=> client = Null)
        /\ flash \in Ota!Stored
    BY DEF OtaInv, Ota!TypeOK, OtaContexts
  <1>0. client \in Ota!Client /\ client.sizeFetched <= Len(flash)
    BY <1>t DEF OtaInv, OtaSizes, Ota!Check
  <1>1. CASE Ota!Valid
    <2>1. pc = "fetch" /\ pc' = "post" /\ UNCHANGED <<client, ctx, success, drops, downloading, running, disabling, isConnected,
                                   flash, behind, boot, attempts, inbox>>
      BY <1>1 DEF Ota!Check, Ota!stored, Ota!main
    <2>2. Ota!TypeOK'
      BY <1>t, <2>1, NullAssumption, NullIsNoNumber DEF OtaInv, Ota!TypeOK, Ota!Check
    <2>3. OtaOffer' /\ OtaSizes' /\ OtaResumes'
      BY <2>1 DEF OtaInv, OtaOffer, OtaSizes, OtaResumes, OtaBusy
    <2>4. OtaTries' /\ OtaBoot' /\ Ota!BootIsFirmware'
      BY <2>1 DEF OtaInv, OtaTries, OtaBoot, OtaBusy, Ota!BootIsFirmware
    <2>5. OtaStored'
      <3>1. client.version = ctx.remote /\ client.md5 = Ota!Firmware(client.version)
        BY <1>1, <2>1 DEF OtaInv, OtaOffer, OtaBusy, Ota!Valid
      <3> QED
        BY <2>1, <3>1 DEF OtaInv, OtaStored
    <2> QED
      BY <2>2, <2>3, <2>4, <2>5 DEF OtaInv
  <1>2. CASE ~Ota!Valid
    <2>1. /\ pc = "fetch" /\ pc' = "end" /\ success' = FALSE
          /\ ctx' = [ctx EXCEPT !.downloaded = 0, !.failCnt = MaxRetry + 1]
          /\ client' = IF ok THEN Ota!Reset(client) ELSE [client EXCEPT !.err = TRUE]
          /\ UNCHANGED <<drops, downloading, running, disabling, isConnected,
                         flash, behind, boot, attempts, inbox>>
      BY <1>2 DEF Ota!Check, Ota!stored, Ota!main, Ota!ToEnd
    <2>2. /\ client' \in Ota!Client
          /\ client'.state = "FETCHING" => client' = [client EXCEPT !.err = TRUE]
      BY <1>0, <2>1, OtaUpdates DEF Ota!Reset, Ota!Client
    <2>3. ctx' \in OtaContexts /\ ctx'.downloaded = 0 /\ ctx'.failCnt = MaxRetry + 1
      <3>1. 0 \in 0..Segments /\ MaxRetry + 1 \in 0..MaxRetry + 2
        BY OtaAssumption
      <3> DEFINE n == MaxRetry + 1
      <3> HIDE DEF n
      <3>2. n \in 0..MaxRetry + 2 /\ ctx' = [ctx EXCEPT !.downloaded = 0, !.failCnt = n]
        BY <2>1, <3>1 DEF n
      <3>3. ctx' \in OtaContexts /\ ctx'.downloaded = 0 /\ ctx'.failCnt = n
        BY <1>t, <3>1, <3>2 DEF OtaContexts
      <3> QED
        BY <3>3 DEF n
    <2>4. Ota!TypeOK'
      BY <1>t, <2>1, <2>2, <2>3, NullAssumption, NullIsNoNumber DEF OtaInv, Ota!TypeOK, OtaContexts
    <2>5. OtaOffer' /\ OtaSizes' /\ OtaResumes'
      BY <1>0, <2>1, <2>2, <2>3 DEF OtaInv, OtaOffer, OtaSizes, OtaResumes, OtaBusy, Ota!Client
    <2>6. OtaTries' /\ OtaBoot' /\ Ota!BootIsFirmware'
      BY <1>t, <2>1, <2>3, OtaAssumption DEF OtaInv, OtaTries, OtaBoot, OtaBusy, Ota!BootIsFirmware, Ota!TypeOK
    <2>7. OtaStored'
      BY <2>1, <2>3 DEF OtaStored
    <2> QED
      BY <2>4, <2>5, <2>6, <2>7 DEF OtaInv
  <1> QED
    BY <1>1, <1>2

LEMMA OtaMessage ==
    ASSUME OtaInv, NEW m \in Ota!Offers, Ota!OtaCallback(m)
    PROVE  OtaInv'
  <1>t. /\ ctx \in OtaContexts /\ client \in Ota!Client \cup {Null} /\ (pc = "none" <=> client = Null)
        /\ flash \in Ota!Stored
    BY DEF OtaInv, Ota!TypeOK, OtaContexts
  <1>0. client \in Ota!Client
    BY <1>t DEF Ota!OtaCallback
  <1>6. /\ UNCHANGED <<ctx, pc, success, drops, downloading, running, disabling, isConnected, flash,
                       behind, boot, attempts>>
        /\ inbox' = inbox \ {m}
    BY DEF Ota!OtaCallback, Ota!main, Ota!stored
  <1>c. CASE client.state # "INITED"
    <2>1. client' = client
      BY <1>c DEF Ota!OtaCallback
    <2> QED
      BY <1>6, <2>1 DEF OtaInv, Ota!TypeOK, OtaOffer, OtaSizes, OtaStored, OtaResumes, OtaTries, OtaBoot,
                        OtaBusy, Ota!BootIsFirmware
  <1>i. CASE client.state = "INITED"
    <2>1. /\ client' \in Ota!Client
          /\ client'.state = "FETCHING" => client'.version \in Versions
      <3>1. m.type = "update" => m.version \in Versions
        BY DEF Ota!Offers
      <3>2. client' = IF m.type = "update"
                      THEN [client EXCEPT !.state = "FETCHING", !.version = m.version]
                      ELSE [client EXCEPT !.state = "FETCHED", !.err = TRUE]
        BY <1>i DEF Ota!OtaCallback
      <3> QED
        BY <1>0, <3>1, <3>2 DEF Ota!Client, Ota!States
    <2>2. pc \notin OtaBusy
      BY <1>i DEF OtaInv, OtaOffer
    <2>3. Ota!TypeOK'
      BY <1>t, <1>0, <1>6, <2>1, NullAssumption, NullIsNoNumber DEF OtaInv, Ota!TypeOK
    <2>4. OtaOffer' /\ OtaSizes' /\ OtaResumes' /\ OtaStored'
      BY <1>6, <2>1, <2>2 DEF OtaInv, OtaOffer, OtaSizes, OtaResumes, OtaStored, OtaBusy
    <2>5. OtaTries' /\ OtaBoot' /\ Ota!BootIsFirmware'
      BY <1>6 DEF OtaInv, OtaTries, OtaBoot, OtaBusy, Ota!BootIsFirmware
    <2> QED
      BY <2>3, <2>4, <2>5 DEF OtaInv
  <1> QED
    BY <1>c, <1>i

LEMMA OtaQuit ==
    ASSUME OtaInv, Ota!Quit
    PROVE  OtaInv'
  <1>t. /\ ctx \in OtaContexts /\ client \in Ota!Client \cup {Null} /\ (pc = "none" <=> client = Null)
        /\ flash \in Ota!Stored
    BY DEF OtaInv, Ota!TypeOK, OtaContexts
  <1>1. client' = Null /\ ctx' = Ota!NewContext /\ pc' = "none"
    BY DEF Ota!Quit
  <1>2. Ota!TypeOK'
    BY <1>t, <1>1, OtaBeginnings DEF OtaInv, Ota!TypeOK, OtaContexts, OtaBusy, Ota!stored, Ota!main, Ota!ToEnd, Ota!NewContext, Ota!MayRetry, Ota!Quit
  <1>3. OtaOffer' /\ OtaSizes' /\ OtaResumes'
    BY <1>t, OtaAssumption, NullAssumption, NullIsNoNumber DEF OtaInv, OtaOffer, OtaSizes, OtaResumes, OtaContexts, Ota!Client, OtaBusy, Ota!stored, Ota!main, Ota!ToEnd, Ota!NewContext, Ota!MayRetry, Ota!Quit
  <1>4. OtaTries' /\ OtaBoot' /\ Ota!BootIsFirmware'
    BY <1>t, OtaAssumption DEF OtaInv, OtaTries, OtaBoot, OtaOffer, Ota!BootIsFirmware, OtaContexts, Ota!TypeOK, OtaBusy, Ota!stored, Ota!main, Ota!ToEnd, Ota!NewContext, Ota!MayRetry, Ota!Quit
  <1>5. OtaStored'
    BY <1>t, OtaAssumption DEF OtaInv, OtaStored, OtaOffer, OtaSizes, OtaResumes, OtaContexts, Ota!Client, OtaBusy, Ota!stored, Ota!main, Ota!ToEnd, Ota!NewContext, Ota!MayRetry, Ota!Quit
  <1> QED
    BY <1>2, <1>3, <1>4, <1>5 DEF OtaInv

LEMMA OtaNewDownload ==
    ASSUME OtaInv, NEW ok \in BOOLEAN, Ota!NewDownload(ok)
    PROVE  OtaInv'
  <1>t. /\ ctx \in OtaContexts /\ client \in Ota!Client \cup {Null} /\ (pc = "none" <=> client = Null)
        /\ flash \in Ota!Stored
    BY DEF OtaInv, Ota!TypeOK, OtaContexts
  <1>1. ctx' \in OtaContexts /\ ctx' = [ctx EXCEPT !.downloaded = 0]
    <2>1. 0 \in 0..Segments
      BY OtaAssumption
    <2> QED
      BY <1>t, <2>1, OtaUpdates DEF Ota!NewDownload
  <1>2. Ota!TypeOK'
    BY <1>t, <1>1, OtaBeginnings DEF OtaInv, Ota!TypeOK, OtaContexts, OtaBusy, Ota!stored, Ota!main, Ota!ToEnd, Ota!NewDownload
  <1>3. OtaOffer' /\ OtaSizes' /\ OtaResumes'
    BY <1>t, OtaAssumption, NullAssumption, NullIsNoNumber DEF OtaInv, OtaOffer, OtaSizes, OtaResumes, OtaContexts, Ota!Client, OtaBusy, Ota!stored, Ota!main, Ota!ToEnd, Ota!NewDownload
  <1>4. OtaTries' /\ OtaBoot' /\ Ota!BootIsFirmware'
    BY <1>t, OtaAssumption DEF OtaInv, OtaTries, OtaBoot, OtaOffer, Ota!BootIsFirmware, OtaContexts, Ota!TypeOK, OtaBusy, Ota!stored, Ota!main, Ota!ToEnd, Ota!NewDownload
  <1>5. OtaStored'
    BY <1>t, OtaAssumption, OtaParts DEF OtaInv, OtaStored, OtaOffer, OtaSizes, OtaResumes, OtaContexts, Ota!Client, OtaBusy, Ota!stored, Ota!main, Ota!ToEnd, Ota!NewDownload
  <1> QED
    BY <1>2, <1>3, <1>4, <1>5 DEF OtaInv

LEMMA OtaStartDownload ==
    ASSUME OtaInv, NEW ok \in BOOLEAN, Ota!StartDownload(ok)
    PROVE  OtaInv'
  <1>t. /\ ctx \in OtaContexts /\ client \in Ota!Client \cup {Null} /\ (pc = "none" <=> client = Null)
        /\ flash \in Ota!Stored
    BY DEF OtaInv, Ota!TypeOK, OtaContexts
  <1>1. client' \in Ota!Client
    <2>1. client \in Ota!Client
      BY <1>t DEF Ota!StartDownload
    <2>2. ctx.downloaded \in 0..Segments /\ Ota!Md5AtStart(client.md5) \in Ota!Stored
      BY <1>t, <2>1, OtaBeginnings DEF OtaContexts, Ota!Client, Ota!Md5AtStart
    <2> QED
      BY <2>1, <2>2, OtaUpdates DEF Ota!StartDownload
  <1>2. Ota!TypeOK'
    BY <1>t, <1>1, NullAssumption, NullIsNoNumber, OtaBeginnings DEF OtaInv, Ota!TypeOK, OtaContexts, OtaBusy, Ota!stored, Ota!main, Ota!ToEnd, Ota!Md5AtStart, Ota!StartDownload
  <1>3. OtaOffer' /\ OtaSizes' /\ OtaResumes'
    BY <1>t, OtaAssumption, NullAssumption, NullIsNoNumber DEF OtaInv, OtaOffer, OtaSizes, OtaResumes, OtaContexts, Ota!Client, OtaBusy, Ota!stored, Ota!main, Ota!ToEnd, Ota!Md5AtStart, Ota!StartDownload
  <1>4. OtaTries' /\ OtaBoot' /\ Ota!BootIsFirmware'
    BY <1>t, OtaAssumption DEF OtaInv, OtaTries, OtaBoot, OtaOffer, Ota!BootIsFirmware, OtaContexts, Ota!TypeOK, OtaBusy, Ota!stored, Ota!main, Ota!ToEnd, Ota!Md5AtStart, Ota!StartDownload
  <1>5. OtaStored'
    <2>1. client \in Ota!Client /\ client.md5 \in Ota!Stored /\ ctx.downloaded \in 0..Segments
      BY <1>t DEF Ota!StartDownload, Ota!Client, OtaContexts
    <2>2. client'.sizeFetched = ctx.downloaded /\ client'.md5 = Ota!Md5AtStart(client.md5)
      BY <2>1 DEF Ota!StartDownload, Ota!Client
    <2>3. ~behind => flash = client'.md5 /\ flash = Ota!Part(ctx.remote, ctx.downloaded)
      <3>1. CASE ctx.downloaded = 0
        BY <2>2, <3>1, OtaParts DEF OtaInv, OtaSizes, Ota!StartDownload, Ota!Md5AtStart
      <3>2. CASE ctx.downloaded > 0
        BY <2>1, <2>2, <3>2 DEF OtaInv, OtaStored, Ota!StartDownload, Ota!Md5AtStart
      <3> QED
        BY <2>1, <3>1, <3>2
    <2> QED
      BY <2>2, <2>3 DEF OtaInv, OtaStored, Ota!StartDownload, Ota!stored, Ota!ToEnd
  <1> QED
    BY <1>2, <1>3, <1>4, <1>5 DEF OtaInv

LEMMA OtaEndReport ==
    ASSUME OtaInv, NEW ok \in BOOLEAN, Ota!EndReport(ok)
    PROVE  OtaInv'
  <1>t. /\ ctx \in OtaContexts /\ client \in Ota!Client \cup {Null} /\ (pc = "none" <=> client = Null)
        /\ flash \in Ota!Stored
    BY DEF OtaInv, Ota!TypeOK, OtaContexts
  <1>0. client \in Ota!Client
    BY <1>t DEF Ota!EndReport
  <1>1. client' \in Ota!Client
    BY <1>0, OtaUpdates DEF Ota!EndReport
  <1>2f. Ota!Failures = IF success \/ ~downloading THEN 0 ELSE 1
    BY DEF Ota!Failures
  <1>c. ctx.failCnt + Ota!Failures \in 0..MaxRetry + 2
    BY <1>t, <1>2f, OtaAssumption DEF OtaInv, OtaTries, OtaContexts, Ota!EndReport
  <1>6. ctx' \in OtaContexts /\ ctx' = [ctx EXCEPT !.failCnt = ctx.failCnt + Ota!Failures]
    BY <1>t, <1>c, OtaUpdates DEF Ota!EndReport
  <1>2. Ota!TypeOK'
    BY <1>t, <1>1, <1>6, NullAssumption, NullIsNoNumber, OtaBeginnings DEF OtaInv, Ota!TypeOK, OtaContexts, OtaBusy, Ota!stored, Ota!main, Ota!ToEnd, Ota!Reset, Ota!EndReport
  <1>3. OtaOffer' /\ OtaSizes' /\ OtaResumes'
    BY <1>t, <1>6, <1>1, <1>2f, OtaAssumption, NullAssumption, NullIsNoNumber DEF OtaInv, OtaOffer, OtaSizes, OtaResumes, OtaContexts, Ota!Client, OtaBusy, Ota!stored, Ota!main, Ota!ToEnd, Ota!Reset, Ota!EndReport
  <1>4. OtaTries' /\ OtaBoot' /\ Ota!BootIsFirmware'
    BY <1>t, <1>6, <1>1, <1>2f, OtaAssumption DEF OtaInv, OtaTries, OtaBoot, OtaOffer, Ota!BootIsFirmware, OtaContexts, Ota!TypeOK, OtaBusy, Ota!stored, Ota!main, Ota!ToEnd, Ota!Reset, Ota!EndReport
  <1>5. OtaStored'
    BY <1>t, <1>6, <1>1, <1>2f, OtaAssumption DEF OtaInv, OtaStored, OtaOffer, OtaSizes, OtaResumes, OtaContexts, Ota!Client, OtaBusy, Ota!stored, Ota!main, Ota!ToEnd, Ota!Reset, Ota!EndReport
  <1> QED
    BY <1>2, <1>3, <1>4, <1>5 DEF OtaInv

LEMMA OtaReportAgain ==
    ASSUME OtaInv, NEW ok \in BOOLEAN, Ota!ReportAgain(ok)
    PROVE  OtaInv'
  <1>t. /\ ctx \in OtaContexts /\ client \in Ota!Client \cup {Null} /\ (pc = "none" <=> client = Null)
        /\ flash \in Ota!Stored
    BY DEF OtaInv, Ota!TypeOK, OtaContexts
  <1>0. client \in Ota!Client
    BY <1>t DEF Ota!ReportAgain
  <1>1. client' \in Ota!Client
    BY <1>0, OtaUpdates DEF Ota!ReportAgain, Ota!Reported
  <1>6. ctx' \in OtaContexts
    <2>1. ctx.remote \in Versions \cup {Null}
      BY <1>t DEF OtaContexts
    <2> QED
      BY <1>t, <2>1, OtaUpdates DEF Ota!ReportAgain
  <1>2. Ota!TypeOK'
    BY <1>t, <1>1, <1>6, NullAssumption, NullIsNoNumber, OtaBeginnings DEF OtaInv, Ota!TypeOK, OtaContexts, OtaBusy, Ota!stored, Ota!main, Ota!ToEnd, Ota!Reported, Ota!Reset, Ota!ReportAgain
  <1>3. OtaOffer' /\ OtaSizes' /\ OtaResumes'
    BY <1>t, OtaAssumption, NullAssumption, NullIsNoNumber DEF OtaInv, OtaOffer, OtaSizes, OtaResumes, OtaContexts, Ota!Client, OtaBusy, Ota!stored, Ota!main, Ota!ToEnd, Ota!Reported, Ota!Reset, Ota!ReportAgain
  <1>4. OtaTries' /\ OtaBoot' /\ Ota!BootIsFirmware'
    BY <1>t, OtaAssumption DEF OtaInv, OtaTries, OtaBoot, OtaOffer, Ota!BootIsFirmware, OtaContexts, Ota!TypeOK, OtaBusy, Ota!stored, Ota!main, Ota!ToEnd, Ota!Reported, Ota!Reset, Ota!ReportAgain
  <1>5. OtaStored'
    BY <1>t, OtaAssumption DEF OtaInv, OtaStored, OtaOffer, OtaSizes, OtaResumes, OtaContexts, Ota!Client, OtaBusy, Ota!stored, Ota!main, Ota!ToEnd, Ota!Reported, Ota!Reset, Ota!ReportAgain
  <1> QED
    BY <1>2, <1>3, <1>4, <1>5 DEF OtaInv

LEMMA OtaEnable ==
    ASSUME OtaInv, NEW i \in BOOLEAN, NEW p \in BOOLEAN, Ota!Enable(i,p)
    PROVE  OtaInv'
  <1>t. /\ ctx \in OtaContexts /\ client \in Ota!Client \cup {Null} /\ (pc = "none" <=> client = Null)
        /\ flash \in Ota!Stored
    BY DEF OtaInv, Ota!TypeOK, OtaContexts
  <1>1. client' \in Ota!Client \cup {Null} /\ (pc' = "none" <=> client' = Null)
    BY <1>t, NullAssumption, NullIsNoNumber, OtaUpdates, OtaBeginnings DEF Ota!Enable, Ota!Reported
  <1>2. Ota!TypeOK'
    BY <1>t, <1>1, OtaBeginnings DEF OtaInv, Ota!TypeOK, OtaContexts, OtaBusy, Ota!stored, Ota!main, Ota!ToEnd, Ota!Reported, Ota!Reset, Ota!NewClient, Ota!NewContext, Ota!Enable
  <1>3. OtaOffer' /\ OtaSizes' /\ OtaResumes'
    BY <1>t, OtaAssumption, NullAssumption, NullIsNoNumber DEF OtaInv, OtaOffer, OtaSizes, OtaResumes, OtaContexts, Ota!Client, OtaBusy, Ota!stored, Ota!main, Ota!ToEnd, Ota!Reported, Ota!Reset, Ota!NewClient, Ota!NewContext, Ota!Enable
  <1>4. OtaTries' /\ OtaBoot' /\ Ota!BootIsFirmware'
    BY <1>t, OtaAssumption DEF OtaInv, OtaTries, OtaBoot, OtaOffer, Ota!BootIsFirmware, OtaContexts, Ota!TypeOK, OtaBusy, Ota!stored, Ota!main, Ota!ToEnd, Ota!Reported, Ota!Reset, Ota!NewClient, Ota!NewContext, Ota!Enable
  <1>5. OtaStored'
    BY <1>t, OtaAssumption DEF OtaInv, OtaStored, OtaOffer, OtaSizes, OtaResumes, OtaContexts, Ota!Client, OtaBusy, Ota!stored, Ota!main, Ota!ToEnd, Ota!Reported, Ota!Reset, Ota!NewClient, Ota!NewContext, Ota!Enable
  <1> QED
    BY <1>2, <1>3, <1>4, <1>5 DEF OtaInv

LEMMA OtaInit == Ota!Init => OtaInv
  <1> SUFFICES ASSUME Ota!Init PROVE OtaInv
    OBVIOUS
  <1>1. Ota!TypeOK
    BY OtaBeginnings DEF Ota!Init, Ota!TypeOK, OtaContexts
  <1> QED
    BY <1>1, OtaAssumption DEF Ota!Init, Ota!NewContext, OtaInv, OtaOffer, OtaSizes, OtaStored,
         OtaResumes, OtaTries, OtaBoot, OtaBusy, Ota!BootIsFirmware

LEMMA OtaNext == OtaInv /\ [Ota!Next]_otaVars => OtaInv'
  <1> SUFFICES ASSUME OtaInv, [Ota!Next]_otaVars PROVE OtaInv'
    OBVIOUS
  <1>1. CASE Ota!TaskStops
    <2>1. Ota!TypeOK'
      BY <1>1, OtaAssumption, NullAssumption, NullIsNoNumber DEF OtaInv, OtaTries, OtaOffer, Ota!TypeOK, Ota!Client, Ota!States, OtaBusy, Ota!ToEnd, Ota!stored, Ota!main, Ota!TaskStops
    <2>2. OtaOffer' /\ OtaSizes' /\ OtaResumes'
      BY <1>1 DEF OtaInv, OtaOffer, OtaSizes, OtaResumes, Ota!TypeOK, Ota!Client, Ota!States, OtaBusy, Ota!ToEnd, Ota!stored, Ota!TaskStops
    <2>3. OtaTries' /\ OtaBoot' /\ Ota!BootIsFirmware'
      BY <1>1, OtaAssumption DEF OtaInv, OtaTries, OtaBoot, OtaStored, OtaOffer, Ota!TypeOK, Ota!BootIsFirmware, OtaBusy, Ota!ToEnd, Ota!stored, Ota!TaskStops
    <2>4. OtaStored'
      BY <1>1, OtaParts, OtaAssumption DEF OtaInv, OtaStored, OtaOffer, OtaSizes, OtaResumes, Ota!TypeOK, Ota!Client, Ota!States, OtaBusy, Ota!ToEnd, Ota!stored, Ota!TaskStops
    <2> QED
      BY <2>1, <2>2, <2>3, <2>4 DEF OtaInv
  <1>2. CASE Ota!TaskBegins
    <2>1. Ota!TypeOK'
      BY <1>2, OtaAssumption, NullAssumption, NullIsNoNumber DEF OtaInv, OtaTries, OtaOffer, Ota!TypeOK, Ota!Client, Ota!States, OtaBusy, Ota!stored, Ota!main, Ota!TaskBegins
    <2>2. OtaOffer' /\ OtaSizes' /\ OtaResumes'
      BY <1>2 DEF OtaInv, OtaOffer, OtaSizes, OtaResumes, Ota!TypeOK, Ota!Client, Ota!States, OtaBusy, Ota!stored, Ota!TaskBegins
    <2>3. OtaTries' /\ OtaBoot' /\ Ota!BootIsFirmware'
      BY <1>2, OtaAssumption DEF OtaInv, OtaTries, OtaBoot, OtaStored, OtaOffer, Ota!TypeOK, Ota!BootIsFirmware, OtaBusy, Ota!stored, Ota!TaskBegins
    <2>4. OtaStored'
      BY <1>2, OtaParts, OtaAssumption DEF OtaInv, OtaStored, OtaOffer, OtaSizes, OtaResumes, Ota!TypeOK, Ota!Client, Ota!States, OtaBusy, Ota!stored, Ota!TaskBegins
    <2> QED
      BY <2>1, <2>2, <2>3, <2>4 DEF OtaInv
  <1>3. CASE Ota!TaskSeesError
    <2>1. Ota!TypeOK'
      BY <1>3, OtaAssumption, NullAssumption, NullIsNoNumber DEF OtaInv, OtaTries, OtaOffer, Ota!TypeOK, Ota!Client, Ota!States, OtaBusy, Ota!ToEnd, Ota!stored, Ota!main, Ota!TaskSeesError
    <2>2. OtaOffer' /\ OtaSizes' /\ OtaResumes'
      BY <1>3 DEF OtaInv, OtaOffer, OtaSizes, OtaResumes, Ota!TypeOK, Ota!Client, Ota!States, OtaBusy, Ota!ToEnd, Ota!stored, Ota!TaskSeesError
    <2>3. OtaTries' /\ OtaBoot' /\ Ota!BootIsFirmware'
      BY <1>3, OtaAssumption DEF OtaInv, OtaTries, OtaBoot, OtaStored, OtaOffer, Ota!TypeOK, Ota!BootIsFirmware, OtaBusy, Ota!ToEnd, Ota!stored, Ota!TaskSeesError
    <2>4. OtaStored'
      BY <1>3, OtaParts, OtaAssumption DEF OtaInv, OtaStored, OtaOffer, OtaSizes, OtaResumes, Ota!TypeOK, Ota!Client, Ota!States, OtaBusy, Ota!ToEnd, Ota!stored, Ota!TaskSeesError
    <2> QED
      BY <2>1, <2>2, <2>3, <2>4 DEF OtaInv
  <1>4. CASE Ota!SaveFails
    <2>1. Ota!TypeOK'
      BY <1>4, OtaAssumption, NullAssumption, NullIsNoNumber DEF OtaInv, OtaTries, OtaOffer, Ota!TypeOK, Ota!Client, Ota!States, OtaBusy, Ota!ToEnd, Ota!stored, Ota!main, Ota!SaveFails
    <2>2. OtaOffer' /\ OtaSizes' /\ OtaResumes'
      BY <1>4 DEF OtaInv, OtaOffer, OtaSizes, OtaResumes, Ota!TypeOK, Ota!Client, Ota!States, OtaBusy, Ota!ToEnd, Ota!stored, Ota!SaveFails
    <2>3. OtaTries' /\ OtaBoot' /\ Ota!BootIsFirmware'
      BY <1>4, OtaAssumption DEF OtaInv, OtaTries, OtaBoot, OtaStored, OtaOffer, Ota!TypeOK, Ota!BootIsFirmware, OtaBusy, Ota!ToEnd, Ota!stored, Ota!SaveFails
    <2>4. OtaStored'
      BY <1>4, OtaParts, OtaAssumption DEF OtaInv, OtaStored, OtaOffer, OtaSizes, OtaResumes, Ota!TypeOK, Ota!Client, Ota!States, OtaBusy, Ota!ToEnd, Ota!stored, Ota!SaveFails
    <2> QED
      BY <2>1, <2>2, <2>3, <2>4 DEF OtaInv
  <1>5. CASE Ota!TaskDisabled
    <2>1. Ota!TypeOK'
      BY <1>5, OtaAssumption, NullAssumption, NullIsNoNumber DEF OtaInv, OtaTries, OtaOffer, Ota!TypeOK, Ota!Client, Ota!States, OtaBusy, Ota!ToEnd, Ota!stored, Ota!main, Ota!TaskDisabled
    <2>2. OtaOffer' /\ OtaSizes' /\ OtaResumes'
      BY <1>5 DEF OtaInv, OtaOffer, OtaSizes, OtaResumes, Ota!TypeOK, Ota!Client, Ota!States, OtaBusy, Ota!ToEnd, Ota!stored, Ota!TaskDisabled
    <2>3. OtaTries' /\ OtaBoot' /\ Ota!BootIsFirmware'
      BY <1>5, OtaAssumption DEF OtaInv, OtaTries, OtaBoot, OtaStored, OtaOffer, Ota!TypeOK, Ota!BootIsFirmware, OtaBusy, Ota!ToEnd, Ota!stored, Ota!TaskDisabled
    <2>4. OtaStored'
      BY <1>5, OtaParts, OtaAssumption DEF OtaInv, OtaStored, OtaOffer, OtaSizes, OtaResumes, Ota!TypeOK, Ota!Client, Ota!States, OtaBusy, Ota!ToEnd, Ota!stored, Ota!TaskDisabled
    <2> QED
      BY <2>1, <2>2, <2>3, <2>4 DEF OtaInv
  <1>6. CASE Ota!Retry
    <2>1. Ota!TypeOK'
      BY <1>6, OtaAssumption, NullAssumption, NullIsNoNumber DEF OtaInv, OtaTries, OtaOffer, Ota!TypeOK, Ota!Client, Ota!States, OtaBusy, Ota!MayRetry, Ota!stored, Ota!main, Ota!Retry
    <2>2. OtaOffer' /\ OtaSizes' /\ OtaResumes'
      BY <1>6 DEF OtaInv, OtaOffer, OtaSizes, OtaResumes, Ota!TypeOK, Ota!Client, Ota!States, OtaBusy, Ota!MayRetry, Ota!stored, Ota!Retry
    <2>3. OtaTries' /\ OtaBoot' /\ Ota!BootIsFirmware'
      BY <1>6, OtaAssumption DEF OtaInv, OtaTries, OtaBoot, OtaStored, OtaOffer, Ota!TypeOK, Ota!BootIsFirmware, OtaBusy, Ota!MayRetry, Ota!stored, Ota!Retry
    <2>4. OtaStored'
      BY <1>6, OtaParts, OtaAssumption DEF OtaInv, OtaStored, OtaOffer, OtaSizes, OtaResumes, Ota!TypeOK, Ota!Client, Ota!States, OtaBusy, Ota!MayRetry, Ota!stored, Ota!Retry
    <2> QED
      BY <2>1, <2>2, <2>3, <2>4 DEF OtaInv
  <1>7. CASE Ota!Restart
    <2>1. Ota!TypeOK'
      BY <1>7, OtaAssumption, NullAssumption, NullIsNoNumber DEF OtaInv, OtaTries, OtaOffer, Ota!TypeOK, Ota!Client, Ota!States, OtaBusy, Ota!MayRetry, Ota!stored, Ota!main, Ota!Restart
    <2>2. OtaOffer' /\ OtaSizes' /\ OtaResumes'
      BY <1>7 DEF OtaInv, OtaOffer, OtaSizes, OtaResumes, Ota!TypeOK, Ota!Client, Ota!States, OtaBusy, Ota!MayRetry, Ota!stored, Ota!Restart
    <2>3. OtaTries' /\ OtaBoot' /\ Ota!BootIsFirmware'
      BY <1>7, OtaAssumption DEF OtaInv, OtaTries, OtaBoot, OtaStored, OtaOffer, Ota!TypeOK, Ota!BootIsFirmware, OtaBusy, Ota!MayRetry, Ota!stored, Ota!Restart
    <2>4. OtaStored'
      BY <1>7, OtaParts, OtaAssumption DEF OtaInv, OtaStored, OtaOffer, OtaSizes, OtaResumes, Ota!TypeOK, Ota!Client, Ota!States, OtaBusy, Ota!MayRetry, Ota!stored, Ota!Restart
    <2> QED
      BY <2>1, <2>2, <2>3, <2>4 DEF OtaInv
  <1>8. ASSUME NEW ok \in BOOLEAN, Ota!FetchFails(ok) PROVE OtaInv'
    <2>1. Ota!TypeOK'
      BY <1>8, OtaAssumption, NullAssumption, NullIsNoNumber DEF OtaInv, OtaTries, OtaOffer, Ota!TypeOK, Ota!Client, Ota!States, OtaBusy, Ota!ToEnd, Ota!stored, Ota!main, Ota!FetchFails
    <2>2. OtaOffer' /\ OtaSizes' /\ OtaResumes'
      BY <1>8 DEF OtaInv, OtaOffer, OtaSizes, OtaResumes, Ota!TypeOK, Ota!Client, Ota!States, OtaBusy, Ota!ToEnd, Ota!stored, Ota!FetchFails
    <2>3. OtaTries' /\ OtaBoot' /\ Ota!BootIsFirmware'
      BY <1>8, OtaAssumption DEF OtaInv, OtaTries, OtaBoot, OtaStored, OtaOffer, Ota!TypeOK, Ota!BootIsFirmware, OtaBusy, Ota!ToEnd, Ota!stored, Ota!FetchFails
    <2>4. OtaStored'
      BY <1>8, OtaParts, OtaAssumption DEF OtaInv, OtaStored, OtaOffer, OtaSizes, OtaResumes, Ota!TypeOK, Ota!Client, Ota!States, OtaBusy, Ota!ToEnd, Ota!stored, Ota!FetchFails
    <2> QED
      BY <2>1, <2>2, <2>3, <2>4 DEF OtaInv
  <1>9. ASSUME NEW ok \in BOOLEAN, Ota!Post(ok) PROVE OtaInv'
    <2>1. Ota!TypeOK'
      BY <1>9, OtaAssumption, NullAssumption, NullIsNoNumber DEF OtaInv, OtaTries, OtaOffer, Ota!TypeOK, Ota!Client, Ota!States, OtaBusy, Ota!ToEnd, Ota!stored, Ota!main, Ota!Post
    <2>2. OtaOffer' /\ OtaSizes' /\ OtaResumes'
      BY <1>9 DEF OtaInv, OtaOffer, OtaSizes, OtaResumes, Ota!TypeOK, Ota!Client, Ota!States, OtaBusy, Ota!ToEnd, Ota!stored, Ota!Post
    <2>3. OtaTries' /\ OtaBoot' /\ Ota!BootIsFirmware'
      BY <1>9, OtaAssumption DEF OtaInv, OtaTries, OtaBoot, OtaStored, OtaOffer, Ota!TypeOK, Ota!BootIsFirmware, OtaBusy, Ota!ToEnd, Ota!stored, Ota!Post
    <2>4. OtaStored'
      BY SMTT(30), <1>9, OtaParts, OtaAssumption DEF OtaInv, OtaStored, OtaOffer, OtaSizes, OtaResumes, Ota!TypeOK, Ota!Client, Ota!States, OtaBusy, Ota!ToEnd, Ota!stored, Ota!Post
    <2> QED
      BY <2>1, <2>2, <2>3, <2>4 DEF OtaInv
  <1>10. CASE Ota!DisableBegin
    <2>1. Ota!TypeOK'
      <3>1. {success', downloading', running', disabling', isConnected'} \subseteq BOOLEAN
        BY <1>10 DEF OtaInv, Ota!TypeOK, Ota!DisableBegin
      <3>2. UNCHANGED <<client, ctx, pc, drops, attempts, flash, behind, boot, inbox>>
        BY <1>10 DEF Ota!DisableBegin, Ota!stored
      <3> QED
        BY <3>1, <3>2 DEF OtaInv, Ota!TypeOK
    <2>2. OtaOffer' /\ OtaSizes' /\ OtaResumes'
      BY <1>10 DEF OtaInv, OtaOffer, OtaSizes, OtaResumes, Ota!TypeOK, Ota!Client, Ota!States, OtaBusy, Ota!stored, Ota!DisableBegin
    <2>3. OtaTries' /\ OtaBoot' /\ Ota!BootIsFirmware'
      BY <1>10, OtaAssumption DEF OtaInv, OtaTries, OtaBoot, OtaStored, OtaOffer, Ota!TypeOK, Ota!BootIsFirmware, OtaBusy, Ota!stored, Ota!DisableBegin
    <2>4. OtaStored'
      BY <1>10, OtaParts, OtaAssumption DEF OtaInv, OtaStored, OtaOffer, OtaSizes, OtaResumes, Ota!TypeOK, Ota!Client, Ota!States, OtaBusy, Ota!stored, Ota!DisableBegin
    <2> QED
      BY <2>1, <2>2, <2>3, <2>4 DEF OtaInv
  <1>11. CASE Ota!DisableEnd
    <2>1. Ota!TypeOK'
      <3>1. {success', downloading', running', disabling', isConnected'} \subseteq BOOLEAN
        BY <1>11 DEF OtaInv, Ota!TypeOK, Ota!DisableEnd
      <3>2. UNCHANGED <<client, ctx, pc, drops, attempts, flash, behind, boot, inbox>>
        BY <1>11 DEF Ota!DisableEnd, Ota!stored
      <3> QED
        BY <3>1, <3>2 DEF OtaInv, Ota!TypeOK
    <2>2. OtaOffer' /\ OtaSizes' /\ OtaResumes'
      BY <1>11 DEF OtaInv, OtaOffer, OtaSizes, OtaResumes, Ota!TypeOK, Ota!Client, Ota!States, OtaBusy, Ota!stored, Ota!DisableEnd
    <2>3. OtaTries' /\ OtaBoot' /\ Ota!BootIsFirmware'
      BY <1>11, OtaAssumption DEF OtaInv, OtaTries, OtaBoot, OtaStored, OtaOffer, Ota!TypeOK, Ota!BootIsFirmware, OtaBusy, Ota!stored, Ota!DisableEnd
    <2>4. OtaStored'
      BY <1>11, OtaParts, OtaAssumption DEF OtaInv, OtaStored, OtaOffer, OtaSizes, OtaResumes, Ota!TypeOK, Ota!Client, Ota!States, OtaBusy, Ota!stored, Ota!DisableEnd
    <2> QED
      BY <2>1, <2>2, <2>3, <2>4 DEF OtaInv
  <1>12. CASE Ota!LinkChanges
    <2>1. Ota!TypeOK'
      BY <1>12, OtaAssumption, NullAssumption, NullIsNoNumber DEF OtaInv, OtaTries, OtaOffer, Ota!TypeOK, Ota!Client, Ota!States, OtaBusy, Ota!stored, Ota!main, Ota!LinkChanges
    <2>2. OtaOffer' /\ OtaSizes' /\ OtaResumes'
      BY <1>12 DEF OtaInv, OtaOffer, OtaSizes, OtaResumes, Ota!TypeOK, Ota!Client, Ota!States, OtaBusy, Ota!stored, Ota!LinkChanges
    <2>3. OtaTries' /\ OtaBoot' /\ Ota!BootIsFirmware'
      BY <1>12, OtaAssumption DEF OtaInv, OtaTries, OtaBoot, OtaStored, OtaOffer, Ota!TypeOK, Ota!BootIsFirmware, OtaBusy, Ota!stored, Ota!LinkChanges
    <2>4. OtaStored'
      BY <1>12, OtaParts, OtaAssumption DEF OtaInv, OtaStored, OtaOffer, OtaSizes, OtaResumes, Ota!TypeOK, Ota!Client, Ota!States, OtaBusy, Ota!stored, Ota!LinkChanges
    <2> QED
      BY <2>1, <2>2, <2>3, <2>4 DEF OtaInv
  <1>13. ASSUME NEW m \in Ota!Offers, Ota!CloudOffers(m) PROVE OtaInv'
    <2>1. Ota!TypeOK'
      BY <1>13, OtaAssumption, NullAssumption, NullIsNoNumber DEF OtaInv, OtaTries, OtaOffer, Ota!TypeOK, Ota!Client, Ota!States, OtaBusy, Ota!stored, Ota!main, Ota!CloudOffers
    <2>2. OtaOffer' /\ OtaSizes' /\ OtaResumes'
      BY <1>13 DEF OtaInv, OtaOffer, OtaSizes, OtaResumes, Ota!TypeOK, Ota!Client, Ota!States, OtaBusy, Ota!stored, Ota!CloudOffers
    <2>3. OtaTries' /\ OtaBoot' /\ Ota!BootIsFirmware'
      BY <1>13, OtaAssumption DEF OtaInv, OtaTries, OtaBoot, OtaStored, OtaOffer, Ota!TypeOK, Ota!BootIsFirmware, OtaBusy, Ota!stored, Ota!CloudOffers
    <2>4. OtaStored'
      BY <1>13, OtaParts, OtaAssumption DEF OtaInv, OtaStored, OtaOffer, OtaSizes, OtaResumes, Ota!TypeOK, Ota!Client, Ota!States, OtaBusy, Ota!stored, Ota!CloudOffers
    <2> QED
      BY <2>1, <2>2, <2>3, <2>4 DEF OtaInv
  <1>14. CASE UNCHANGED otaVars
    BY <1>14 DEF otaVars, OtaInv, OtaOffer, OtaSizes, OtaStored, OtaResumes, OtaTries, OtaBoot, OtaBusy,
          Ota!TypeOK, Ota!BootIsFirmware
  <1> QED
    BY <1>1, <1>2, <1>3, <1>4, <1>5, <1>6, <1>7, <1>8, <1>9, <1>10, <1>11, <1>12, <1>13, <1>14, OtaSave,
       OtaFetch, OtaQuit, OtaResume, OtaNewDownload, OtaStartDownload, OtaCheck, OtaEndReport,
       OtaReportAgain, OtaEnable, OtaMessage DEF Ota!Next, Ota!Task

----------------------------------------------------------------------------
(* Commands of the cloud: the proof. *)

LEMMA CommandMessages ==
    ASSUME NEW m \in Messages
    PROVE  /\ m.token \in Commands!Tokens /\ m.kind \in {"control", "action", "status"}
           /\ m.kind = "action" => m.of \in Actions /\ m.valid \in BOOLEAN
           /\ m.kind # "action" => m.sets \in SUBSET Properties
           /\ m.kind = "status" => m.accepted \in BOOLEAN
  BY DEF Messages

LEMMA ElementsOf ==
    ASSUME NEW S, NEW s \in Seq(S)
    PROVE  \A i \in DOMAIN s : s[i] \in S
  OBVIOUS

LEMMA TailOf ==
    ASSUME NEW S, NEW s \in Seq(S), s # <<>>
    PROVE  /\ Head(s) \in S /\ Head(s) = s[1] /\ 1 \in DOMAIN s
           /\ Tail(s) \in Seq(S) /\ \A i \in DOMAIN Tail(s) : i \in Nat \ {0}
           /\ \A i \in DOMAIN Tail(s) : i + 1 \in DOMAIN s /\ Tail(s)[i] = s[i + 1]
  OBVIOUS

(* The first message is taken from the channel. *)
LEMMA MessageTaken ==
    ASSUME CommandTypes, CommandTokens, ControlsInOrder, tcDown # <<>>, tcDown' = Tail(tcDown),
           NEW m, m = Head(tcDown)
    PROVE  /\ m \in Messages /\ m.token \in InDown /\ tcDown' \in Seq(Messages)
           /\ \A i \in DOMAIN tcDown' : \E j \in DOMAIN tcDown : tcDown'[i] = tcDown[j]
           /\ \A i, j \in DOMAIN tcDown' : tcDown'[i].token = tcDown'[j].token => i = j
           /\ InDown' \subseteq InDown \ {m.token}
           /\ ControlsInOrder'
           /\ m.kind # "action" => \A i \in DOMAIN tcDown' :
                  tcDown'[i].kind = "control" => m.token < tcDown'[i].token
  <1>1. tcDown \in Seq(Messages)
    BY DEF CommandTypes
  <1>2. /\ m \in Messages /\ m = tcDown[1] /\ 1 \in DOMAIN tcDown
        /\ tcDown' \in Seq(Messages) /\ \A i \in DOMAIN tcDown' : i \in Nat \ {0}
        /\ \A i \in DOMAIN tcDown' : i + 1 \in DOMAIN tcDown /\ tcDown'[i] = tcDown[i + 1]
    BY <1>1, TailOf
  <1>3. ASSUME NEW i \in DOMAIN tcDown', NEW j \in DOMAIN tcDown', tcDown'[i].token = tcDown'[j].token
        PROVE  i = j
    <2>1. i + 1 \in DOMAIN tcDown /\ j + 1 \in DOMAIN tcDown
      BY <1>2
    <2>2. tcDown[i + 1].token = tcDown[j + 1].token
      BY <1>2, <1>3
    <2>3. i + 1 = j + 1
      BY <2>1, <2>2 DEF CommandTokens
    <2> QED
      BY <1>2, <2>3
  <1>4. ASSUME NEW i \in DOMAIN tcDown' PROVE tcDown'[i].token # m.token
    <2>1. i + 1 \in DOMAIN tcDown /\ i + 1 # 1
      BY <1>2
    <2> QED
      BY <1>2, <2>1 DEF CommandTokens
  <1>5. InDown' = {tcDown'[i].token : i \in DOMAIN tcDown'}
    BY DEF InDown
  <1>6. InDown' \subseteq InDown \ {m.token} /\ m.token \in InDown
    BY <1>2, <1>4, <1>5 DEF InDown
  <1>7. ControlsInOrder'
    <2> SUFFICES ASSUME NEW i \in DOMAIN tcDown', NEW j \in DOMAIN tcDown', i < j,
                        tcDown'[i].kind # "action", tcDown'[j].kind = "control"
                 PROVE  tcDown'[i].token < tcDown'[j].token
      BY DEF ControlsInOrder
    <2>1. i + 1 \in DOMAIN tcDown /\ j + 1 \in DOMAIN tcDown /\ i + 1 < j + 1
      BY <1>2
    <2>2. tcDown'[i] = tcDown[i + 1] /\ tcDown'[j] = tcDown[j + 1]
      BY <1>2
    <2> QED
      BY <2>1, <2>2 DEF ControlsInOrder
  <1>8. ASSUME m.kind # "action", NEW i \in DOMAIN tcDown', tcDown'[i].kind = "control"
        PROVE  m.token < tcDown'[i].token
    <2>1. i + 1 \in DOMAIN tcDown /\ 1 < i + 1 /\ tcDown'[i] = tcDown[i + 1]
      BY <1>2
    <2> QED
      BY <1>2, <1>8, <2>1 DEF ControlsInOrder
  <1> QED
    BY <1>2, <1>3, <1>6, <1>7, <1>8

(* A message with a token of its own is put into the channel. *)
LEMMA MessageSent ==
    ASSUME CommandTypes, CommandTokens, ControlsInOrder, NEW m \in Messages, m.token \notin InDown,
           m.kind = "control" => \A t \in InDown : t < m.token, tcDown' = Append(tcDown, m)
    PROVE  /\ tcDown' \in Seq(Messages)
           /\ \A i \in DOMAIN tcDown' : tcDown'[i] = m \/ \E j \in DOMAIN tcDown : tcDown'[i] = tcDown[j]
           /\ \A i, j \in DOMAIN tcDown' : tcDown'[i].token = tcDown'[j].token => i = j
           /\ InDown' = InDown \cup {m.token}
           /\ ControlsInOrder'
  <1>1. tcDown \in Seq(Messages)
    BY DEF CommandTypes
  <1>2. /\ tcDown' \in Seq(Messages) /\ DOMAIN tcDown' = DOMAIN tcDown \cup {Len(tcDown) + 1}
        /\ tcDown'[Len(tcDown) + 1] = m /\ \A i \in DOMAIN tcDown : tcDown'[i] = tcDown[i]
        /\ \A i \in DOMAIN tcDown : i \in Nat /\ i < Len(tcDown) + 1
    BY <1>1
  <1>3. InDown' = {tcDown'[i].token : i \in DOMAIN tcDown'}
    BY DEF InDown
  <1>4. InDown' = InDown \cup {m.token}
    BY <1>2, <1>3 DEF InDown
  <1>5. \A i \in DOMAIN tcDown : tcDown[i].token \in InDown
    BY DEF InDown
  <1>6. ASSUME NEW i \in DOMAIN tcDown', NEW j \in DOMAIN tcDown', tcDown'[i].token = tcDown'[j].token
        PROVE  i = j
    BY <1>2, <1>5, <1>6 DEF CommandTokens
  <1>7. ControlsInOrder'
    <2> SUFFICES ASSUME NEW i \in DOMAIN tcDown', NEW j \in DOMAIN tcDown', i < j,
                        tcDown'[i].kind # "action", tcDown'[j].kind = "control"
                 PROVE  tcDown'[i].token < tcDown'[j].token
      BY DEF ControlsInOrder
    <2>1. i \in DOMAIN tcDown
      BY <1>1, <1>2
    <2>2. CASE j \in DOMAIN tcDown
      BY <1>2, <2>1, <2>2 DEF ControlsInOrder
    <2>3. CASE j = Len(tcDown) + 1
      BY <1>2, <1>5, <2>1, <2>3
    <2> QED
      BY <1>2, <2>2, <2>3
  <1> QED
    BY <1>2, <1>4, <1>6, <1>7

(* The status of the waiting get_status is all that changes of it. *)
AskedKept == tcAsked' = tcAsked \/ \E a \in {"none", "accepted", "rejected", "timeout"} :
                                       tcAsked # Null /\ tcAsked' = [tcAsked EXCEPT !.ack = a]

LEMMA AskedStays ==
    ASSUME CommandTypes, AskedKept, tcTokens' = tcTokens
    PROVE  /\ tcAsked' # Null => /\ tcAsked # Null
                                 /\ tcAsked' \in [token : 1 .. tcTokens',
                                                  ack : {"none", "accepted", "rejected", "timeout"},
                                                  answered : BOOLEAN]
                                 /\ tcAsked'.token = tcAsked.token /\ tcAsked'.answered = tcAsked.answered
           /\ Due' \subseteq Due \cup InDown'
  <1>1. tcAsked' # Null => /\ tcAsked # Null
                           /\ tcAsked' \in [token : 1 .. tcTokens',
                                            ack : {"none", "accepted", "rejected", "timeout"},
                                            answered : BOOLEAN]
                           /\ tcAsked'.token = tcAsked.token /\ tcAsked'.answered = tcAsked.answered
    <2> DEFINE Asked == [token : 1 .. tcTokens, ack : {"none", "accepted", "rejected", "timeout"},
                         answered : BOOLEAN]
    <2>1. tcAsked # Null => tcAsked \in Asked
      BY DEF CommandTypes
    <2>2. CASE tcAsked' = tcAsked
      BY <2>1, <2>2
    <2>3. ASSUME NEW a \in {"none", "accepted", "rejected", "timeout"}, tcAsked # Null,
                 tcAsked' = [tcAsked EXCEPT !.ack = a]
          PROVE  /\ tcAsked # Null /\ tcAsked' \in Asked
                 /\ tcAsked'.token = tcAsked.token /\ tcAsked'.answered = tcAsked.answered
      BY <2>1, <2>3
    <2> QED
      BY <2>2, <2>3 DEF AskedKept
  <1>2. Due' \subseteq Due \cup InDown'
    BY <1>1 DEF Due
  <1> QED
    BY <1>1, <1>2

(* A message is taken and has no effect but on the status of the get_status. *)
LEMMA TakenOnly ==
    ASSUME CommandsInv, tcDown # <<>>, tcDown' = Tail(tcDown), AskedKept,
           UNCHANGED <<tcProperties, tcActions, tcValue, tcActed, tcToken, tcArrived, tcTokens,
                       tcCalled, tcReplied>>
    PROVE  CommandsInv'
  <1>1. CommandTypes /\ CommandTokens /\ ControlsInOrder /\ AppliedIsOlder /\ DataIsRecent
    BY DEF CommandsInv
  <1>2. /\ tcDown' \in Seq(Messages)
        /\ \A i \in DOMAIN tcDown' : \E j \in DOMAIN tcDown : tcDown'[i] = tcDown[j]
        /\ \A i, j \in DOMAIN tcDown' : tcDown'[i].token = tcDown'[j].token => i = j
        /\ InDown' \subseteq InDown
        /\ ControlsInOrder'
    BY <1>1, MessageTaken
  <1>3. /\ tcAsked' # Null => /\ tcAsked # Null
                              /\ tcAsked' \in [token : 1 .. tcTokens',
                                               ack : {"none", "accepted", "rejected", "timeout"},
                                               answered : BOOLEAN]
                              /\ tcAsked'.token = tcAsked.token /\ tcAsked'.answered = tcAsked.answered
        /\ Due' \subseteq Due \cup InDown'
    BY <1>1, AskedStays
  <1>4. CommandTypes'
    BY <1>1, <1>2, <1>3 DEF CommandTypes
  <1>5. CommandTokens'
    <2>1. Due' \subseteq Due
      BY <1>2, <1>3 DEF Due
    <2>2. \A t : Fresh(t) => Fresh(t)'
      BY DEF Fresh
    <2> QED
      BY <1>1, <1>2, <1>3, <2>1, <2>2 DEF CommandTokens
  <1>6. AppliedIsOlder'
    <2>1. Applied' = Applied
      BY DEF Applied
    <2> QED
      BY <1>1, <1>2, <1>3, <2>1 DEF AppliedIsOlder
  <1>7. DataIsRecent'
    BY <1>1 DEF DataIsRecent
  <1> QED
    BY <1>2, <1>4, <1>5, <1>6, <1>7 DEF CommandsInv

(* A control is applied, from a message of its own or with an answer. *)
LEMMA ControlApplied ==
    ASSUME CommandsInv, tcDown # <<>>, tcDown' = Tail(tcDown), AskedKept,
           NEW m, m = Head(tcDown), m.kind # "action", Commands!ApplyControl(m),
           \A t \in Applied \cap tcReplied : t < m.token,
           UNCHANGED <<tcProperties, tcActions, tcActed, tcTokens, tcReplied>>
    PROVE  CommandsInv'
  <1> DEFINE called == Commands!Called(tcProperties, m.sets)
             set    == {h.of : h \in called}
  <1>1. CommandTypes /\ CommandTokens /\ ControlsInOrder /\ AppliedIsOlder /\ DataIsRecent
    BY DEF CommandsInv
  <1>2. /\ m \in Messages /\ m.token \in InDown
        /\ tcDown' \in Seq(Messages)
        /\ \A i \in DOMAIN tcDown' : \E j \in DOMAIN tcDown : tcDown'[i] = tcDown[j]
        /\ \A i, j \in DOMAIN tcDown' : tcDown'[i].token = tcDown'[j].token => i = j
        /\ InDown' \subseteq InDown \ {m.token}
        /\ ControlsInOrder'
        /\ \A i \in DOMAIN tcDown' : tcDown'[i].kind = "control" => m.token < tcDown'[i].token
    BY <1>1, MessageTaken
  <1>3. /\ tcAsked' # Null => /\ tcAsked # Null
                              /\ tcAsked' \in [token : 1 .. tcTokens',
                                               ack : {"none", "accepted", "rejected", "timeout"},
                                               answered : BOOLEAN]
                              /\ tcAsked'.token = tcAsked.token /\ tcAsked'.answered = tcAsked.answered
        /\ Due' \subseteq Due \cup InDown'
    BY <1>1, AskedStays
  <1>4. m.token \in Commands!Tokens /\ m.token \in 1 .. tcTokens /\ Fresh(m.token)
    BY <1>1, <1>2, CommandMessages DEF CommandTokens, Due
  <1>5. called \subseteq [at : Nat, of : Properties]
    <2>1. tcProperties \in Seq([at : Nat, of : Properties])
      BY <1>1 DEF CommandTypes
    <2>2. \A i \in DOMAIN tcProperties : tcProperties[i] \in [at : Nat, of : Properties]
      BY <2>1, ElementsOf
    <2> QED
      BY <2>2 DEF Commands!Called
  <1>6. /\ tcToken' = m.token
        /\ tcValue' = [p \in Properties |-> IF p \in set THEN m.token ELSE tcValue[p]]
        /\ tcCalled' = [tcCalled EXCEPT ![m.token] = @ \cup called]
        /\ tcArrived' = (tcArrived \/ called # {})
    BY DEF Commands!ApplyControl, Commands!ArrivedWith
  <1> HIDE DEF called
  <1>7. /\ tcCalled' \in [Commands!Tokens -> SUBSET [at : Nat, of : Properties \cup Actions]]
        /\ tcCalled'[m.token] = called
        /\ \A t \in Commands!Tokens \ {m.token} : tcCalled'[t] = tcCalled[t]
    <2>1. tcCalled \in [Commands!Tokens -> SUBSET [at : Nat, of : Properties \cup Actions]]
      BY <1>1 DEF CommandTypes
    <2>2. called \subseteq [at : Nat, of : Properties \cup Actions]
      BY <1>5
    <2>3. tcCalled[m.token] = {}
      BY <1>4 DEF Fresh
    <2> QED
      BY <1>4, <1>6, <2>1, <2>2, <2>3
  <1>8. CommandTypes'
    <2>1. m.token \in 0 .. MaxTokens
      BY <1>4 DEF Commands!Tokens
    <2>2. tcValue' \in [Properties -> 0 .. MaxTokens]
      BY <1>1, <1>6, <2>1 DEF CommandTypes
    <2> QED
      BY <1>1, <1>2, <1>3, <1>4, <1>6, <1>7, <2>2 DEF CommandTypes
  <1>9. CommandTokens'
    <2>1. m.token \notin Due'
      BY <1>1, <1>2, <1>3 DEF CommandTokens, Due
    <2>2. Due' \subseteq Due
      BY <1>2, <1>3 DEF Due
    <2>3. \A t \in Commands!Tokens : t # m.token /\ Fresh(t) => Fresh(t)'
      BY <1>6, <1>7 DEF Fresh
    <2>4. \A t \in Commands!Tokens : t > tcTokens => t # m.token
      BY <1>1, <1>4 DEF CommandTypes, Commands!Tokens
    <2>5. \A t \in Commands!Tokens : t \in Due' \/ t > tcTokens' => Fresh(t)'
      BY <1>1, <2>1, <2>2, <2>3, <2>4 DEF CommandTokens
    <2> QED
      BY <1>1, <1>2, <1>3, <2>2, <2>5 DEF CommandTokens
  <1>10. AppliedIsOlder'
    <2>1. Applied' \subseteq Applied \cup {m.token}
      BY <1>7 DEF Applied
    <2>2. m.token \notin tcReplied
      BY <1>4 DEF Fresh
    <2> QED
      BY <1>1, <1>2, <1>3, <2>1, <2>2 DEF AppliedIsOlder
  <1>11. DataIsRecent'
    <2>1. ASSUME NEW h \in tcCalled'[tcToken'], h.of \in Properties PROVE tcValue'[h.of] >= tcToken'
      BY <1>4, <1>6, <1>7, <2>1 DEF Commands!Tokens
    <2>2. ASSUME NEW t \in tcReplied', NEW h \in tcCalled'[t], h.of \in Properties
          PROVE  tcValue'[h.of] >= t /\ tcActed'[h.of] >= t
      <3>1. t \in Commands!Tokens /\ t # m.token
        BY <1>1, <1>4 DEF CommandTypes, Fresh
      <3>2. h \in tcCalled[t] /\ t \in tcReplied
        BY <1>7, <2>2, <3>1
      <3>3. tcValue[h.of] >= t /\ tcActed[h.of] >= t
        BY <1>1, <2>2, <3>2 DEF DataIsRecent
      <3>4. t < m.token
        BY <2>2, <3>1, <3>2 DEF Applied
      <3>5. tcValue'[h.of] = m.token \/ tcValue'[h.of] = tcValue[h.of]
        BY <1>6, <2>2
      <3> QED
        BY <1>4, <3>1, <3>3, <3>4, <3>5 DEF Commands!Tokens
    <2>3. ASSUME ~tcArrived' PROVE tcActed' = tcValue'
      <3>1. ~tcArrived /\ called = {}
        BY <1>6, <2>3
      <3>2. tcValue' = tcValue
        BY <1>1, <1>6, <3>1 DEF CommandTypes
      <3> QED
        BY <1>1, <1>6, <3>1, <3>2 DEF DataIsRecent
    <2> QED
      BY <2>1, <2>2, <2>3 DEF DataIsRecent
  <1> QED
    BY <1>2, <1>8, <1>9, <1>10, <1>11 DEF CommandsInv

LEMMA CommandsInit == Commands!Init => CommandsInv
  <1> SUFFICES ASSUME Commands!Init PROVE CommandsInv
    OBVIOUS
  <1>1. CommandTypes
    <2>1. tcDown \in Seq(Messages)
      BY DEF Commands!Init
    <2>2. tcProperties \in Seq([at : Nat, of : Properties]) /\ tcActions \in Seq([at : Nat, of : Actions])
      BY DEF Commands!Init
    <2>3. 0 \in 0 .. MaxTokens
      BY BoundsAssumption
    <2>4. /\ tcValue \in [Properties -> 0 .. MaxTokens] /\ tcActed \in [Properties -> 0 .. MaxTokens]
          /\ tcTokens \in 0 .. MaxTokens
      BY <2>3 DEF Commands!Init
    <2>5. tcCalled \in [Commands!Tokens -> SUBSET [at : Nat, of : Properties \cup Actions]]
      BY DEF Commands!Init
    <2>6. /\ tcAsked = Null /\ tcToken \in Commands!Tokens \cup {Null}
          /\ tcReplied \subseteq Commands!Tokens /\ tcArrived = FALSE
      BY DEF Commands!Init
    <2> QED
      BY <2>1, <2>2, <2>4, <2>5, <2>6 DEF CommandTypes
  <1>2. Commands!Tokens \subseteq Nat
    BY DEF Commands!Tokens
  <1>3. DOMAIN tcDown = {}
    BY DEF Commands!Init
  <1>4. CommandTokens
    <2>1. InDown = {} /\ Due = {}
      BY <1>3 DEF Commands!Init, InDown, Due
    <2>2. ASSUME NEW t \in Commands!Tokens PROVE Fresh(t)
      <3>1. t # Null
        BY <1>2, NullAssumption, NullIsNoNumber
      <3> QED
        BY <3>1 DEF Commands!Init, Fresh
    <2> QED
      BY <1>3, <2>1, <2>2 DEF Commands!Init, CommandTokens
  <1>5. ControlsInOrder /\ AppliedIsOlder
    BY <1>3 DEF Commands!Init, ControlsInOrder, AppliedIsOlder, Applied
  <1>6. DataIsRecent
    BY DEF Commands!Init, DataIsRecent
  <1> QED
    BY <1>1, <1>4, <1>5, <1>6 DEF CommandsInv

(* Every callback that was called was for a token given out before. *)
LEMMA AppliedIsKnown ==
    ASSUME CommandTypes, CommandTokens
    PROVE  /\ tcTokens \in 0 .. MaxTokens /\ \A t \in Applied : t \in Nat /\ t <= tcTokens
           /\ InDown \subseteq Due /\ Due \subseteq 1 .. tcTokens
           /\ \A i \in DOMAIN tcDown : tcDown[i].token \in InDown
  <1>1. tcTokens \in 0 .. MaxTokens
    BY DEF CommandTypes
  <1>2. ASSUME NEW t \in Applied PROVE t \in Nat /\ t <= tcTokens
    <2>1. t \in Commands!Tokens /\ tcCalled[t] # {}
      BY DEF Applied
    <2>2. ~Fresh(t) /\ t \in Nat
      BY <2>1 DEF Fresh, Commands!Tokens
    <2>3. ~(t > tcTokens)
      BY <2>1, <2>2 DEF CommandTokens
    <2> QED
      BY <1>1, <2>2, <2>3
  <1> QED
    BY <1>1, <1>2 DEF CommandTokens, Due, InDown

(* The cloud begins a dialogue: its token is the next. *)
LEMMA DialogueBegun ==
    ASSUME CommandsInv, NEW m \in Messages, tcTokens < MaxTokens, tcTokens' = tcTokens + 1,
           m.token = tcTokens + 1, Commands!CloudSends(m)
    PROVE  CommandsInv'
  <1>1. CommandTypes /\ CommandTokens /\ ControlsInOrder /\ AppliedIsOlder /\ DataIsRecent
    BY DEF CommandsInv
  <1>2. /\ tcDown' = Append(tcDown, m)
        /\ UNCHANGED <<tcProperties, tcActions, tcValue, tcActed, tcToken, tcArrived, tcAsked,
                       tcCalled, tcReplied>>
    BY DEF Commands!CloudSends
  <1>3. /\ tcTokens \in 0 .. MaxTokens /\ \A t \in Applied : t \in Nat /\ t <= tcTokens
        /\ InDown \subseteq Due /\ Due \subseteq 1 .. tcTokens
    BY <1>1, AppliedIsKnown
  <1>4. m.token \notin InDown /\ \A t \in InDown : t < m.token
    BY <1>3
  <1>5. /\ tcDown' \in Seq(Messages)
        /\ \A i \in DOMAIN tcDown' : tcDown'[i] = m \/ \E j \in DOMAIN tcDown : tcDown'[i] = tcDown[j]
        /\ \A i, j \in DOMAIN tcDown' : tcDown'[i].token = tcDown'[j].token => i = j
        /\ InDown' = InDown \cup {m.token}
        /\ ControlsInOrder'
    BY <1>1, <1>2, <1>4, MessageSent
  <1>6. CommandTypes'
    <2>1. tcTokens' \in 0 .. MaxTokens /\ 1 .. tcTokens \subseteq 1 .. tcTokens'
      BY <1>3, BoundsAssumption
    <2>2. tcAsked' # Null => tcAsked' \in [token : 1 .. tcTokens',
                                           ack : {"none", "accepted", "rejected", "timeout"},
                                           answered : BOOLEAN]
      BY <1>1, <1>2, <2>1 DEF CommandTypes
    <2> QED
      BY <1>1, <1>2, <1>5, <2>1, <2>2 DEF CommandTypes
  <1>7. CommandTokens'
    <2>1. Due' = Due \cup {m.token}
      BY <1>2, <1>5 DEF Due
    <2>2. Due' \subseteq 1 .. tcTokens'
      BY <1>3, <2>1
    <2>3. tcAsked' # Null /\ ~tcAsked'.answered => tcAsked'.token \notin InDown'
      <3>1. ASSUME tcAsked # Null, ~tcAsked.answered PROVE tcAsked.token \notin InDown \cup {m.token}
        <4>1. tcAsked.token \notin InDown
          BY <1>1, <3>1 DEF CommandTokens
        <4>2. tcAsked.token \in Due
          BY <3>1 DEF Due
        <4> QED
          BY <1>3, <4>1, <4>2
      <3> QED
        BY <1>2, <1>5, <3>1
    <2>4. ASSUME NEW t \in Commands!Tokens, t \in Due' \/ t > tcTokens' PROVE Fresh(t)'
      <3>1. t \in Due \/ t > tcTokens
        BY <1>3, <2>1, <2>4 DEF Commands!Tokens
      <3> QED
        BY <1>1, <1>2, <3>1 DEF CommandTokens, Fresh
    <2> QED
      BY <1>5, <2>2, <2>3, <2>4 DEF CommandTokens
  <1>8. AppliedIsOlder'
    <2>1. Applied' = Applied
      BY <1>2 DEF Applied
    <2>2. \A t \in Applied : t < m.token
      BY <1>3
    <2> QED
      BY <1>1, <1>2, <1>5, <2>1, <2>2 DEF AppliedIsOlder
  <1>9. DataIsRecent'
    BY <1>1, <1>2 DEF DataIsRecent
  <1> QED
    BY <1>5, <1>6, <1>7, <1>8, <1>9 DEF CommandsInv

LEMMA StatusAnswered ==
    ASSUME CommandsInv, NEW accepted \in BOOLEAN, NEW sets \in SUBSET Properties,
           Commands!CloudAnswers(accepted, sets)
    PROVE  CommandsInv'
  <1> DEFINE m == [kind |-> "status", token |-> tcAsked.token, accepted |-> accepted, sets |-> sets]
  <1>1. CommandTypes /\ CommandTokens /\ ControlsInOrder /\ AppliedIsOlder /\ DataIsRecent
    BY DEF CommandsInv
  <1>2. /\ tcAsked # Null /\ ~tcAsked.answered /\ tcDown' = Append(tcDown, m)
        /\ tcAsked' = [tcAsked EXCEPT !.answered = TRUE]
        /\ UNCHANGED <<tcProperties, tcActions, tcValue, tcActed, tcToken, tcArrived, tcTokens,
                       tcCalled, tcReplied>>
    BY DEF Commands!CloudAnswers
  <1>3. /\ tcTokens \in 0 .. MaxTokens /\ InDown \subseteq Due /\ Due \subseteq 1 .. tcTokens
    BY <1>1, AppliedIsKnown
  <1>4. tcAsked \in [token : 1 .. tcTokens, ack : {"none", "accepted", "rejected", "timeout"},
                     answered : BOOLEAN]
    BY <1>1, <1>2 DEF CommandTypes
  <1>5. /\ tcAsked' \in [token : 1 .. tcTokens', ack : {"none", "accepted", "rejected", "timeout"},
                         answered : BOOLEAN]
        /\ tcAsked'.token = tcAsked.token /\ tcAsked'.answered
    BY <1>2, <1>4
  <1>6. tcAsked.token \in Commands!Tokens
    BY <1>3, <1>4, BoundsAssumption DEF Commands!Tokens
  <1>7. m \in Messages /\ m.token = tcAsked.token /\ m.kind = "status"
    BY <1>6 DEF Messages
  <1>8. m.token \notin InDown
    BY <1>1, <1>2, <1>7 DEF CommandTokens
  <1> HIDE DEF m
  <1>9. /\ tcDown' \in Seq(Messages)
        /\ \A i \in DOMAIN tcDown' : tcDown'[i] = m \/ \E j \in DOMAIN tcDown : tcDown'[i] = tcDown[j]
        /\ \A i, j \in DOMAIN tcDown' : tcDown'[i].token = tcDown'[j].token => i = j
        /\ InDown' = InDown \cup {m.token}
        /\ ControlsInOrder'
    BY <1>1, <1>2, <1>7, <1>8, MessageSent
  <1>10. CommandTypes'
    BY <1>1, <1>2, <1>5, <1>9 DEF CommandTypes
  <1>11. CommandTokens'
    <2>1. Due' = Due
      BY <1>2, <1>5, <1>7, <1>9 DEF Due
    <2>2. \A t : Fresh(t) => Fresh(t)'
      BY <1>2 DEF Fresh
    <2> QED
      BY <1>1, <1>2, <1>5, <1>9, <2>1, <2>2 DEF CommandTokens
  <1>12. AppliedIsOlder'
    <2>1. Applied' = Applied
      BY <1>2 DEF Applied
    <2> QED
      BY <1>1, <1>2, <1>5, <1>7, <1>9, <2>1 DEF AppliedIsOlder
  <1>13. DataIsRecent'
    BY <1>1, <1>2 DEF DataIsRecent
  <1> QED
    BY <1>9, <1>10, <1>11, <1>12, <1>13 DEF CommandsInv

(* The callback of an action sets no property. *)
LEMMA ActionHandled ==
    ASSUME CommandsInv, tcDown # <<>>, NEW m, m = Head(tcDown), NEW published \in BOOLEAN,
           Commands!HandleAction(m, published)
    PROVE  CommandsInv'
  <1> DEFINE called == IF m.valid THEN Commands!Called(tcActions, {m.of}) ELSE {}
  <1>1. CommandTypes /\ CommandTokens /\ ControlsInOrder /\ AppliedIsOlder /\ DataIsRecent
    BY DEF CommandsInv
  <1>2. /\ m.kind = "action" /\ tcDown' = Tail(tcDown)
        /\ tcCalled' = [tcCalled EXCEPT ![m.token] = @ \cup called]
        /\ tcReplied' \subseteq tcReplied \cup {m.token} /\ tcReplied \subseteq tcReplied'
        /\ UNCHANGED <<tcProperties, tcActions, tcValue, tcActed, tcToken, tcArrived, tcAsked,
                       tcTokens>>
    BY DEF Commands!HandleAction
  <1>3. /\ m \in Messages /\ m.token \in InDown
        /\ tcDown' \in Seq(Messages)
        /\ \A i \in DOMAIN tcDown' : \E j \in DOMAIN tcDown : tcDown'[i] = tcDown[j]
        /\ \A i, j \in DOMAIN tcDown' : tcDown'[i].token = tcDown'[j].token => i = j
        /\ InDown' \subseteq InDown \ {m.token}
        /\ ControlsInOrder'
    BY <1>1, <1>2, MessageTaken
  <1>4. m.token \in Commands!Tokens /\ m.token \in 1 .. tcTokens /\ Fresh(m.token)
    BY <1>1, <1>3, CommandMessages DEF CommandTokens, Due
  <1>5. called \subseteq [at : Nat, of : Actions]
    <2>1. tcActions \in Seq([at : Nat, of : Actions])
      BY <1>1 DEF CommandTypes
    <2>2. \A i \in DOMAIN tcActions : tcActions[i] \in [at : Nat, of : Actions]
      BY <2>1, ElementsOf
    <2> QED
      BY <2>2 DEF Commands!Called
  <1> HIDE DEF called
  <1>6. /\ tcCalled' \in [Commands!Tokens -> SUBSET [at : Nat, of : Properties \cup Actions]]
        /\ tcCalled'[m.token] = called
        /\ \A t \in Commands!Tokens \ {m.token} : tcCalled'[t] = tcCalled[t]
    <2>1. tcCalled \in [Commands!Tokens -> SUBSET [at : Nat, of : Properties \cup Actions]]
      BY <1>1 DEF CommandTypes
    <2>2. called \subseteq [at : Nat, of : Properties \cup Actions]
      BY <1>5
    <2>3. tcCalled[m.token] = {}
      BY <1>4 DEF Fresh
    <2> QED
      BY <1>2, <1>4, <2>1, <2>2, <2>3
  <1>7. \A h \in called : h.of \notin Properties
    BY <1>5, CommandsAssumption
  <1>8. CommandTypes'
    BY <1>1, <1>2, <1>3, <1>4, <1>6 DEF CommandTypes
  <1>9. CommandTokens'
    <2>1. m.token \notin Due'
      BY <1>1, <1>2, <1>3 DEF CommandTokens, Due
    <2>2. Due' \subseteq Due
      BY <1>2, <1>3 DEF Due
    <2>3. \A t \in Commands!Tokens : t # m.token /\ Fresh(t) => Fresh(t)'
      BY <1>2, <1>6 DEF Fresh
    <2>4. \A t \in Commands!Tokens : t > tcTokens => t # m.token
      BY <1>1, <1>4 DEF CommandTypes, Commands!Tokens
    <2>5. \A t \in Commands!Tokens : t \in Due' \/ t > tcTokens' => Fresh(t)'
      BY <1>1, <1>2, <2>1, <2>2, <2>3, <2>4 DEF CommandTokens
    <2> QED
      BY <1>1, <1>2, <1>3, <2>2, <2>5 DEF CommandTokens
  <1>10. AppliedIsOlder'
    <2>1. Applied' \subseteq Applied /\ m.token \notin Applied'
      BY <1>6, <1>7 DEF Applied
    <2> QED
      BY <1>1, <1>2, <1>3, <2>1 DEF AppliedIsOlder
  <1>11. DataIsRecent'
    <2>1. tcToken \in Commands!Tokens => tcCalled'[tcToken] = tcCalled[tcToken]
      BY <1>4, <1>6 DEF Fresh
    <2>2. tcToken \in Commands!Tokens \cup {Null}
      BY <1>1 DEF CommandTypes
    <2>3. ASSUME NEW t \in tcReplied', NEW h \in tcCalled'[t], h.of \in Properties
          PROVE  tcValue'[h.of] >= t /\ tcActed'[h.of] >= t
      <3>1. t # m.token
        BY <1>6, <1>7, <2>3
      <3>2. t \in tcReplied /\ t \in Commands!Tokens
        BY <1>1, <1>2, <3>1 DEF CommandTypes
      <3>3. h \in tcCalled[t]
        BY <1>6, <2>3, <3>1, <3>2
      <3> QED
        BY <1>1, <1>2, <2>3, <3>2, <3>3 DEF DataIsRecent
    <2>4. tcToken' \in Commands!Tokens =>
              \A h \in tcCalled'[tcToken'] : h.of \in Properties => tcValue'[h.of] >= tcToken'
      BY <1>1, <1>2, <2>1 DEF DataIsRecent
    <2>5. ~tcArrived' => tcActed' = tcValue'
      BY <1>1, <1>2, <2>1, <2>2 DEF DataIsRecent
    <2> QED
      BY <2>3, <2>4, <2>5 DEF DataIsRecent
  <1> QED
    BY <1>3, <1>8, <1>9, <1>10, <1>11 DEF CommandsInv

LEMMA ControlReplied ==
    ASSUME CommandsInv, NEW published \in BOOLEAN, Commands!ControlReply(published)
    PROVE  CommandsInv'
  <1>1. CommandTypes /\ CommandTokens /\ ControlsInOrder /\ AppliedIsOlder /\ DataIsRecent
    BY DEF CommandsInv
  <1>2. /\ tcAsked = Null /\ tcArrived /\ tcActed' = tcValue /\ tcArrived' = ~published
        /\ tcReplied' = IF published THEN tcReplied \cup {tcToken} ELSE tcReplied
        /\ UNCHANGED <<tcProperties, tcActions, tcDown, tcValue, tcToken, tcAsked, tcTokens, tcCalled>>
    BY DEF Commands!ControlReply, Commands!ActOnValues, Commands!ReplyToken, Commands!ArrivedAfter
  <1>3. tcToken \in Commands!Tokens
    BY <1>1, <1>2 DEF CommandTypes
  <1>4. CommandTypes'
    BY <1>1, <1>2, <1>3 DEF CommandTypes
  <1>5. CommandTokens'
    <2>1. \A t : Fresh(t) => Fresh(t)'
      BY <1>2 DEF Fresh
    <2>2. Due' = Due /\ InDown' = InDown
      BY <1>2 DEF Due, InDown
    <2> QED
      BY <1>1, <1>2, <2>1, <2>2 DEF CommandTokens
  <1>6. ControlsInOrder'
    BY <1>1, <1>2 DEF ControlsInOrder
  <1>7. AppliedIsOlder'
    <2>1. Applied' = Applied
      BY <1>2 DEF Applied
    <2> QED
      BY <1>1, <1>2, <2>1 DEF AppliedIsOlder
  <1>8. DataIsRecent'
    <2>1. ASSUME NEW t \in tcReplied', NEW h \in tcCalled'[t], h.of \in Properties
          PROVE  tcValue'[h.of] >= t /\ tcActed'[h.of] >= t
      <3>1. h \in tcCalled[t] /\ (t \in tcReplied \/ t = tcToken)
        BY <1>2, <2>1
      <3>2. tcValue[h.of] >= t
        BY <1>1, <1>3, <2>1, <3>1 DEF DataIsRecent
      <3> QED
        BY <1>2, <3>2
    <2>2. ~tcArrived' => tcActed' = tcValue'
      BY <1>2
    <2> QED
      BY <1>1, <1>2, <2>1, <2>2 DEF DataIsRecent
  <1> QED
    BY <1>4, <1>5, <1>6, <1>7, <1>8 DEF CommandsInv

LEMMA StatusAsked ==
    ASSUME CommandsInv, Commands!GetStatus
    PROVE  CommandsInv'
  <1>1. CommandTypes /\ CommandTokens /\ ControlsInOrder /\ AppliedIsOlder /\ DataIsRecent
    BY DEF CommandsInv
  <1>2. /\ tcAsked = Null /\ tcTokens < MaxTokens /\ tcTokens' = tcTokens + 1
        /\ tcAsked' = [token |-> tcTokens + 1, ack |-> "none", answered |-> FALSE]
        /\ UNCHANGED <<tcProperties, tcActions, tcDown, tcValue, tcActed, tcToken, tcArrived,
                       tcCalled, tcReplied>>
    BY DEF Commands!GetStatus
  <1>3. /\ tcTokens \in 0 .. MaxTokens /\ \A t \in Applied : t \in Nat /\ t <= tcTokens
        /\ InDown \subseteq Due /\ Due \subseteq 1 .. tcTokens
    BY <1>1, AppliedIsKnown
  <1>4. tcTokens' \in 0 .. MaxTokens /\ tcTokens + 1 \in 1 .. tcTokens'
    BY <1>2, <1>3, BoundsAssumption
  <1>5. /\ tcAsked' \in [token : 1 .. tcTokens', ack : {"none", "accepted", "rejected", "timeout"},
                         answered : BOOLEAN]
        /\ tcAsked'.token = tcTokens + 1
    BY <1>2, <1>4
  <1>6. CommandTypes'
    BY <1>1, <1>2, <1>4, <1>5 DEF CommandTypes
  <1>7. CommandTokens'
    <2>1. InDown' = InDown
      BY <1>2 DEF InDown
    <2>2. Due' \subseteq Due \cup {tcTokens + 1}
      BY <1>3, <1>5, <2>1 DEF Due
    <2>3. Due' \subseteq 1 .. tcTokens' /\ tcTokens + 1 \notin InDown'
      BY <1>2, <1>3, <2>1, <2>2
    <2>4. ASSUME NEW t \in Commands!Tokens, t \in Due' \/ t > tcTokens' PROVE Fresh(t)'
      <3>1. t \in Due \/ t > tcTokens
        BY <1>2, <1>3, <2>2, <2>4 DEF Commands!Tokens
      <3> QED
        BY <1>1, <1>2, <3>1 DEF CommandTokens, Fresh
    <2> QED
      BY <1>1, <1>2, <1>5, <2>3, <2>4 DEF CommandTokens
  <1>8. ControlsInOrder'
    BY <1>1, <1>2 DEF ControlsInOrder
  <1>9. AppliedIsOlder'
    <2>1. Applied' = Applied
      BY <1>2 DEF Applied
    <2>2. \A t \in Applied : t < tcAsked'.token
      BY <1>3, <1>5
    <2> QED
      BY <1>1, <1>2, <2>1, <2>2 DEF AppliedIsOlder
  <1>10. DataIsRecent'
    BY <1>1, <1>2 DEF DataIsRecent
  <1> QED
    BY <1>6, <1>7, <1>8, <1>9, <1>10 DEF CommandsInv

LEMMA StatusExpired ==
    ASSUME CommandsInv, Commands!StatusExpires
    PROVE  CommandsInv'
  <1>1. CommandTypes /\ CommandTokens /\ ControlsInOrder /\ AppliedIsOlder /\ DataIsRecent
    BY DEF CommandsInv
  <1>2. /\ AskedKept
        /\ UNCHANGED <<tcProperties, tcActions, tcDown, tcValue, tcActed, tcToken, tcArrived,
                       tcTokens, tcCalled, tcReplied>>
    BY DEF Commands!StatusExpires, AskedKept
  <1>3. /\ tcAsked' # Null => /\ tcAsked # Null
                              /\ tcAsked' \in [token : 1 .. tcTokens',
                                               ack : {"none", "accepted", "rejected", "timeout"},
                                               answered : BOOLEAN]
                              /\ tcAsked'.token = tcAsked.token /\ tcAsked'.answered = tcAsked.answered
        /\ Due' \subseteq Due \cup InDown'
    BY <1>1, <1>2, AskedStays
  <1>4. InDown' = InDown /\ Applied' = Applied /\ \A t : Fresh(t) => Fresh(t)'
    BY <1>2 DEF InDown, Applied, Fresh
  <1>5. Due' \subseteq Due
    BY <1>3, <1>4 DEF Due
  <1>6. CommandTypes'
    BY <1>1, <1>2, <1>3 DEF CommandTypes
  <1>7. CommandTokens'
    BY <1>1, <1>2, <1>3, <1>4, <1>5 DEF CommandTokens
  <1>8. ControlsInOrder'
    BY <1>1, <1>2 DEF ControlsInOrder
  <1>9. AppliedIsOlder'
    BY <1>1, <1>2, <1>3, <1>4 DEF AppliedIsOlder
  <1>10. DataIsRecent'
    BY <1>1, <1>2 DEF DataIsRecent
  <1> QED
    BY <1>6, <1>7, <1>8, <1>9, <1>10 DEF CommandsInv

LEMMA StatusReturned ==
    ASSUME CommandsInv, Commands!StatusReturns
    PROVE  CommandsInv'
  <1>1. CommandTypes /\ CommandTokens /\ ControlsInOrder /\ AppliedIsOlder /\ DataIsRecent
    BY DEF CommandsInv
  <1>2. /\ tcAsked' = Null /\ tcActed' = tcValue
        /\ UNCHANGED <<tcProperties, tcActions, tcDown, tcValue, tcToken, tcArrived, tcTokens,
                       tcCalled, tcReplied>>
    BY DEF Commands!StatusReturns, Commands!ActOnValues
  <1>3. InDown' = InDown /\ Applied' = Applied /\ \A t : Fresh(t) => Fresh(t)'
    BY <1>2 DEF InDown, Applied, Fresh
  <1>4. Due' \subseteq Due
    BY <1>2, <1>3 DEF Due
  <1>5. CommandTypes'
    BY <1>1, <1>2 DEF CommandTypes
  <1>6. CommandTokens'
    BY <1>1, <1>2, <1>3, <1>4 DEF CommandTokens
  <1>7. ControlsInOrder'
    BY <1>1, <1>2 DEF ControlsInOrder
  <1>8. AppliedIsOlder'
    BY <1>1, <1>2, <1>3 DEF AppliedIsOlder
  <1>9. DataIsRecent'
    BY <1>1, <1>2 DEF DataIsRecent
  <1> QED
    BY <1>5, <1>6, <1>7, <1>8, <1>9 DEF CommandsInv

(* Registering, or nothing that matters here. *)
LEMMA CommandsKept ==
    ASSUME CommandsInv, tcProperties' \in Seq([at : Nat, of : Properties]),
           tcActions' \in Seq([at : Nat, of : Actions]),
           UNCHANGED <<tcDown, tcValue, tcActed, tcToken, tcArrived, tcAsked, tcTokens, tcCalled,
                       tcReplied>>
    PROVE  CommandsInv'
  <1>1. CommandTypes /\ CommandTokens /\ ControlsInOrder /\ AppliedIsOlder /\ DataIsRecent
    BY DEF CommandsInv
  <1>2. CommandTypes'
    BY <1>1 DEF CommandTypes
  <1>3. InDown' = InDown /\ Due' = Due /\ Applied' = Applied /\ \A t : Fresh(t) => Fresh(t)'
    BY DEF InDown, Due, Applied, Fresh
  <1>4. CommandTokens'
    BY <1>1, <1>3 DEF CommandTokens
  <1>5. ControlsInOrder' /\ AppliedIsOlder'
    BY <1>1, <1>3 DEF ControlsInOrder, AppliedIsOlder
  <1>6. DataIsRecent'
    BY <1>1 DEF DataIsRecent
  <1> QED
    BY <1>2, <1>4, <1>5, <1>6 DEF CommandsInv

LEMMA HandlerPushed ==
    ASSUME NEW S, NEW list \in Seq([at : Nat, of : S]), NEW x \in S
    PROVE  Commands!Pushed(list, x) \in Seq([at : Nat, of : S])
  <1>1. [at |-> Len(list) + 1, of |-> x] \in [at : Nat, of : S]
    OBVIOUS
  <1> QED
    BY <1>1 DEF Commands!Pushed

(* Every step keeps the tokens, the order of the controls, and the data recent. *)
LEMMA CommandsNext == CommandsInv /\ [Commands!Next]_commandsVars => CommandsInv'
  <1> SUFFICES ASSUME CommandsInv, [Commands!Next]_commandsVars PROVE CommandsInv'
    OBVIOUS
  <1>1. CommandTypes /\ AppliedIsOlder
    BY DEF CommandsInv
  <1>2. /\ tcProperties \in Seq([at : Nat, of : Properties])
        /\ tcActions \in Seq([at : Nat, of : Actions]) /\ tcTokens \in 0 .. MaxTokens
    BY <1>1 DEF CommandTypes
  <1>3. tcTokens < MaxTokens => tcTokens + 1 \in Commands!Tokens
    BY <1>2, BoundsAssumption DEF Commands!Tokens
  <1>4. ASSUME NEW p \in Properties, Commands!Register(p) PROVE CommandsInv'
    BY <1>2, <1>4, HandlerPushed, CommandsKept DEF Commands!Register
  <1>5. ASSUME NEW a \in Actions, Commands!RegisterAction(a) PROVE CommandsInv'
    BY <1>2, <1>5, HandlerPushed, CommandsKept DEF Commands!RegisterAction
  <1>6. ASSUME NEW sets \in SUBSET Properties, Commands!CloudControls(sets) PROVE CommandsInv'
    <2> DEFINE m == [kind |-> "control", token |-> tcTokens', sets |-> sets]
    <2>1. /\ tcTokens < MaxTokens /\ tcTokens' = tcTokens + 1 /\ Commands!CloudSends(m)
          /\ m.token = tcTokens'
      BY <1>6 DEF Commands!CloudControls
    <2>2. m \in Messages
      BY <1>3, <2>1 DEF Messages
    <2> HIDE DEF m
    <2> QED
      BY <2>1, <2>2, DialogueBegun
  <1>7. ASSUME NEW a \in Actions, NEW valid \in BOOLEAN, Commands!CloudCallsAction(a, valid)
        PROVE  CommandsInv'
    <2> DEFINE m == [kind |-> "action", token |-> tcTokens', of |-> a, valid |-> valid]
    <2>1. /\ tcTokens < MaxTokens /\ tcTokens' = tcTokens + 1 /\ Commands!CloudSends(m)
          /\ m.token = tcTokens'
      BY <1>7 DEF Commands!CloudCallsAction
    <2>2. m \in Messages
      BY <1>3, <2>1 DEF Messages
    <2> HIDE DEF m
    <2> QED
      BY <2>1, <2>2, DialogueBegun
  <1>8. ASSUME Commands!MessageLost PROVE CommandsInv'
    BY <1>8, TakenOnly DEF Commands!MessageLost, AskedKept
  <1>9. ASSUME Commands!Receive PROVE CommandsInv'
    <2> DEFINE m == Head(tcDown)
    <2>1. tcDown # <<>>
      BY <1>9 DEF Commands!Receive
    <2>2. m = tcDown[1] /\ 1 \in DOMAIN tcDown
      BY <1>1, <2>1, TailOf DEF CommandTypes
    <2>3. \/ Commands!HandleControl(m) \/ Commands!HandleStatus(m) \/ Commands!HandleStrayStatus(m)
          \/ \E published \in BOOLEAN : \/ Commands!HandleStatusControl(m, published)
                                        \/ Commands!HandleAction(m, published)
      BY <1>9 DEF Commands!Receive
    <2> HIDE DEF m
    <2>4. CASE Commands!HandleControl(m)
      <3>1. /\ m.kind = "control" /\ Commands!ApplyControl(m) /\ tcDown' = Tail(tcDown)
            /\ UNCHANGED <<tcProperties, tcActions, tcActed, tcAsked, tcTokens, tcReplied>>
        BY <2>4 DEF Commands!HandleControl
      <3>2. \A t \in Applied : t < m.token
        BY <1>1, <2>2, <3>1 DEF AppliedIsOlder
      <3> QED
        BY <2>1, <3>1, <3>2, ControlApplied DEF m, AskedKept
    <2>5. CASE Commands!HandleStatus(m)
      BY <2>1, <2>5, TakenOnly DEF Commands!HandleStatus, Commands!IsAwaited, AskedKept
    <2>6. CASE Commands!HandleStrayStatus(m)
      BY <2>1, <2>6, TakenOnly DEF Commands!HandleStrayStatus, AskedKept
    <2>7. ASSUME NEW published \in BOOLEAN, Commands!HandleStatusControl(m, published)
          PROVE  CommandsInv'
      <3>1. /\ m.kind # "action" /\ Commands!ApplyControl(m) /\ tcDown' = Tail(tcDown)
            /\ tcAsked # Null /\ tcAsked.token = m.token
            /\ tcAsked' = [tcAsked EXCEPT !.ack = "accepted"]
            /\ UNCHANGED <<tcProperties, tcActions, tcActed, tcTokens, tcReplied>>
        BY <2>7 DEF Commands!HandleStatusControl, Commands!IsAwaited
      <3>2. \A t \in Applied \cap tcReplied : t < m.token
        BY <1>1, <3>1 DEF AppliedIsOlder
      <3>3. AskedKept
        BY <3>1 DEF AskedKept
      <3> QED
        BY <2>1, <3>1, <3>2, <3>3, ControlApplied DEF m
    <2>8. ASSUME NEW published \in BOOLEAN, Commands!HandleAction(m, published) PROVE CommandsInv'
      BY <2>1, <2>8, ActionHandled DEF m
    <2> QED
      BY <2>3, <2>4, <2>5, <2>6, <2>7, <2>8
  <1>10. ASSUME UNCHANGED commandsVars PROVE CommandsInv'
    BY <1>2, <1>10, CommandsKept DEF commandsVars
  <1> QED
    BY <1>4, <1>5, <1>6, <1>7, <1>8, <1>9, <1>10, StatusAnswered, ControlReplied, StatusAsked,
       StatusExpired, StatusReturned DEF Commands!Next, Commands!Reply, Commands!Wait

(* A control is received: the flag is up, or it and the flag are as they were. *)
LEMMA ControlReceived ==
    ASSUME RepliesCover, NEW m \in Messages, Commands!ApplyControl(m), tcReplied' = tcReplied
    PROVE  RepliesCover'
  <1> DEFINE called == Commands!Called(tcProperties, m.sets)
             entry == [token |-> m.token, reached |-> called # {}]
  <1>1. /\ tcToken' = m.token /\ tcArrived' = (tcArrived \/ called # {})
        /\ tcReceived' = Append(tcReceived, entry)
    BY DEF Commands!ApplyControl, Commands!ArrivedWith
  <1>2. entry \in [token : Commands!Tokens, reached : BOOLEAN]
    BY DEF Messages
  <1>3. entry.token = m.token /\ entry.reached = (called # {})
    OBVIOUS
  <1> HIDE DEF entry, called
  <1>4. tcReceived \in Seq([token : Commands!Tokens, reached : BOOLEAN])
    BY DEF RepliesCover
  <1>5. /\ tcReceived' \in Seq([token : Commands!Tokens, reached : BOOLEAN])
        /\ Len(tcReceived) \in Nat /\ Len(tcReceived') = Len(tcReceived) + 1
        /\ DOMAIN tcReceived = 1 .. Len(tcReceived) /\ DOMAIN tcReceived' = 1 .. Len(tcReceived')
        /\ tcReceived'[Len(tcReceived')] = entry
        /\ \A i \in DOMAIN tcReceived : tcReceived'[i] = tcReceived[i]
    BY <1>1, <1>2, <1>4
  <1>6. tcReceived' # <<>>
    BY <1>5
  <1>7. ASSUME ~tcArrived' PROVE Covered(tcReceived', tcReplied')
    <2>1. ~tcArrived /\ called = {}
      BY <1>1, <1>7
    <2>2. Covered(tcReceived, tcReplied)
      BY <2>1 DEF RepliesCover
    <2>3. ASSUME NEW i \in DOMAIN tcReceived', tcReceived'[i].reached
          PROVE  \E j \in i .. Len(tcReceived') : tcReceived'[j].token \in tcReplied'
      <3>1. i # Len(tcReceived')
        BY <1>3, <1>5, <2>1, <2>3
      <3>2. i \in DOMAIN tcReceived
        BY <1>5, <3>1
      <3>3. PICK j \in i .. Len(tcReceived) : tcReceived[j].token \in tcReplied
        BY <1>5, <2>2, <2>3, <3>2 DEF Covered
      <3>4. j \in DOMAIN tcReceived /\ j \in i .. Len(tcReceived')
        BY <1>5, <3>2
      <3> QED
        BY <1>5, <3>3, <3>4
    <2> QED
      BY <2>3 DEF Covered
  <1> QED
    BY <1>1, <1>3, <1>5, <1>6, <1>7 DEF RepliesCover

(* A reply covers all controls that were received. *)
LEMMA ReplyCovers ==
    ASSUME RepliesCover, NEW published \in BOOLEAN, Commands!ControlReply(published)
    PROVE  RepliesCover'
  <1>1. /\ tcArrived /\ UNCHANGED <<tcReceived, tcToken>> /\ tcArrived' = ~published
        /\ tcReplied' = IF published THEN tcReplied \cup {tcToken} ELSE tcReplied
    BY DEF Commands!ControlReply, Commands!ReplyToken, Commands!ArrivedAfter
  <1>2. tcReceived \in Seq([token : Commands!Tokens, reached : BOOLEAN]) /\ tcReceived # <<>>
    BY <1>1 DEF RepliesCover
  <1>3. /\ Len(tcReceived) \in Nat /\ DOMAIN tcReceived = 1 .. Len(tcReceived)
        /\ \A i \in DOMAIN tcReceived : Len(tcReceived) \in i .. Len(tcReceived)
    BY <1>2
  <1>4. tcReceived[Len(tcReceived)].token = tcToken
    BY <1>2 DEF RepliesCover
  <1>5. ~tcArrived' => Covered(tcReceived, tcReplied')
    BY <1>1, <1>3, <1>4 DEF Covered
  <1> QED
    BY <1>1, <1>2, <1>5 DEF RepliesCover

(* Every other step leaves the controls that were received and the flag as they are. *)
LEMMA RepliesKept ==
    ASSUME RepliesCover, UNCHANGED <<tcReceived, tcToken, tcArrived>>, tcReplied \subseteq tcReplied'
    PROVE  RepliesCover'
  <1>1. Covered(tcReceived, tcReplied) => Covered(tcReceived, tcReplied')
    BY DEF Covered
  <1> QED
    BY <1>1 DEF RepliesCover

LEMMA RepliesNext ==
    CommandsInv /\ RepliesCover /\ [Commands!Next]_commandsVars => RepliesCover'
  <1> SUFFICES ASSUME CommandsInv, RepliesCover, [Commands!Next]_commandsVars PROVE RepliesCover'
    OBVIOUS
  <1>1. tcDown \in Seq(Messages)
    BY DEF CommandsInv, CommandTypes
  <1>2. ASSUME \/ \E p \in Properties : Commands!Register(p)
               \/ \E a \in Actions : Commands!RegisterAction(a)
               \/ Commands!MessageLost \/ Commands!GetStatus \/ Commands!Wait
               \/ UNCHANGED commandsVars
        PROVE  RepliesCover'
    <2>1. UNCHANGED <<tcReceived, tcToken, tcArrived, tcReplied>>
      BY <1>2 DEF Commands!Register, Commands!RegisterAction, Commands!MessageLost,
         Commands!GetStatus, Commands!Wait, Commands!StatusExpires, Commands!StatusReturns,
         commandsVars
    <2> QED
      BY <2>1, RepliesKept
  <1>3. ASSUME \/ \E sets \in SUBSET Properties : Commands!CloudControls(sets)
               \/ \E a \in Actions, valid \in BOOLEAN : Commands!CloudCallsAction(a, valid)
               \/ \E accepted \in BOOLEAN, sets \in SUBSET Properties :
                      Commands!CloudAnswers(accepted, sets)
        PROVE  RepliesCover'
    <2>1. UNCHANGED <<tcReceived, tcToken, tcArrived, tcReplied>>
      BY <1>3 DEF Commands!CloudControls, Commands!CloudCallsAction, Commands!CloudAnswers,
         Commands!CloudSends
    <2> QED
      BY <2>1, RepliesKept
  <1>4. ASSUME Commands!Receive PROVE RepliesCover'
    <2> DEFINE m == Head(tcDown)
    <2>1. /\ m \in Messages
          /\ \/ Commands!HandleControl(m) \/ Commands!HandleStatus(m) \/ Commands!HandleStrayStatus(m)
             \/ \E published \in BOOLEAN : \/ Commands!HandleStatusControl(m, published)
                                           \/ Commands!HandleAction(m, published)
      BY <1>1, <1>4 DEF Commands!Receive
    <2> HIDE DEF m
    <2>2. CASE \/ Commands!HandleControl(m)
               \/ \E published \in BOOLEAN : Commands!HandleStatusControl(m, published)
      <3>1. Commands!ApplyControl(m) /\ tcReplied' = tcReplied
        BY <2>2 DEF Commands!HandleControl, Commands!HandleStatusControl
      <3> QED
        BY <2>1, <3>1, ControlReceived
    <2>3. CASE Commands!HandleStatus(m) \/ Commands!HandleStrayStatus(m)
      <3>1. UNCHANGED <<tcReceived, tcToken, tcArrived, tcReplied>>
        BY <2>3 DEF Commands!HandleStatus, Commands!HandleStrayStatus
      <3> QED
        BY <3>1, RepliesKept
    <2>4. CASE \E published \in BOOLEAN : Commands!HandleAction(m, published)
      <3>1. UNCHANGED <<tcReceived, tcToken, tcArrived>> /\ tcReplied \subseteq tcReplied'
        BY <2>4 DEF Commands!HandleAction
      <3> QED
        BY <3>1, RepliesKept
    <2> QED
      BY <2>1, <2>2, <2>3, <2>4
  <1>5. ASSUME Commands!Reply PROVE RepliesCover'
    BY <1>5, ReplyCovers DEF Commands!Reply
  <1> QED
    BY <1>2, <1>3, <1>4, <1>5 DEF Commands!Next

LEMMA RepliesInit == Commands!Init => RepliesCover
  BY DEF Commands!Init, RepliesCover, Covered

(* What the runs check of the commands follows. *)
LEMMA CommandsAnswered ==
    CommandsInv /\ RepliesCover => Commands!LatestIsAnswered /\ Commands!AnsweredIsDone
  BY DEF CommandsInv, DataIsRecent, RepliesCover, Covered, Commands!LatestIsAnswered,
         Commands!AnsweredIsDone

----------------------------------------------------------------------------
(* The gateway: the proof. *)

LEMMA GatewayInit == Gw!Init => GatewayInv
  <1> SUFFICES ASSUME Gw!Init PROVE GatewayInv
    OBVIOUS
  <1>1. gwSessions \in [Devices -> {"none", "init", "online"}] /\ gwCall = Null
    BY DEF Gw!Init
  <1>2. \A d \in Devices : gwSessions[d] = "none"
    BY DEF Gw!Init
  <1>3. gwCalls \in 0 .. MaxCalls
    BY BoundsAssumption DEF Gw!Init
  <1> QED
    BY <1>1, <1>2, <1>3 DEF GatewayInv

(* A call that was published waits; the sessions are those of before, or that of this *)
(* sub-device has begun.                                                              *)
LEMMA CallBegun ==
    ASSUME GatewayInv, Gw!Free, NEW o \in Gw!Operations \cup {"list"},
           NEW d \in Devices \cup {Null}, Gw!Publish(o, d),
           \/ gwSessions' = gwSessions
           \/ o = "online" /\ d \in Devices /\ gwSessions' = [gwSessions EXCEPT ![d] = "init"]
    PROVE  GatewayInv'
  <1>1. /\ gwCalls \in 0 .. MaxCalls /\ gwCalls < MaxCalls /\ gwCalls' = gwCalls + 1
        /\ gwCall' = [op |-> o, dev |-> d, n |-> gwCalls + 1, held |-> TRUE]
        /\ \A e \in Devices : gwSessions[e] # "init"
        /\ gwSessions \in [Devices -> {"none", "init", "online"}]
    BY DEF GatewayInv, Gw!Free, Gw!Publish
  <1>2. gwCalls' \in 0 .. MaxCalls /\ gwCalls + 1 \in 1 .. MaxCalls
    BY <1>1, BoundsAssumption
  <1>3. gwCall' \in [op : Gw!Operations \cup {"list"}, dev : Devices \cup {Null},
                     n : 1 .. MaxCalls, held : BOOLEAN]
    BY <1>1, <1>2
  <1>4. gwCall' # Null
    BY <1>3, NullAssumption, NullIsNoNumber
  <1>5. gwCall'.op = o /\ gwCall'.dev = d /\ gwCall'.held
    BY <1>1
  <1>6. gwSessions' \in [Devices -> {"none", "init", "online"}]
    BY <1>1
  <1>7. \A e \in Devices : gwSessions'[e] = "init" => o = "online" /\ e = d
    BY <1>1
  <1> QED
    BY <1>2, <1>3, <1>4, <1>5, <1>6, <1>7 DEF GatewayInv

(* A call that ends leaves no session half way. *)
LEMMA CallReturned ==
    ASSUME GatewayInv, gwCall # Null, NEW ok \in BOOLEAN, Gw!Returned(ok)
    PROVE  GatewayInv'
  <1>1. /\ gwSessions \in [Devices -> {"none", "init", "online"}] /\ gwCalls \in 0 .. MaxCalls
        /\ \A d \in Devices : gwSessions[d] = "init" =>
               gwCall.op = "online" /\ gwCall.dev = d /\ gwCall.held
    BY DEF GatewayInv
  <1>2. gwCall' = Null /\ gwCalls' = gwCalls /\ gwSessions' = Gw!SessionsAfter(ok)
    BY DEF Gw!Returned
  <1>3. gwSessions' \in [Devices -> {"none", "init", "online"}]
        /\ \A d \in Devices : gwSessions'[d] # "init"
    <2>1. CASE gwCall.op = "online" /\ ~ok
      <3>1. gwSessions' = [gwSessions EXCEPT ![gwCall.dev] = "none"]
        BY <1>2, <2>1 DEF Gw!SessionsAfter, Gw!Abandoned
      <3> QED
        BY <1>1, <3>1
    <2>2. CASE gwCall.op = "online" /\ ok /\ gwCall.held
      <3>1. gwSessions' = [gwSessions EXCEPT ![gwCall.dev] = "online"]
        BY <1>2, <2>2 DEF Gw!SessionsAfter
      <3> QED
        BY <1>1, <3>1
    <2>3. CASE gwCall.op = "offline" /\ ok
      <3>1. gwSessions' = [gwSessions EXCEPT ![gwCall.dev] = "none"]
        BY <1>2, <2>3 DEF Gw!SessionsAfter, Gw!Abandoned
      <3> QED
        BY <1>1, <2>3, <3>1
    <2>4. CASE /\ ~(gwCall.op = "online" /\ ~ok) /\ ~(gwCall.op = "online" /\ ok /\ gwCall.held)
               /\ ~(gwCall.op = "offline" /\ ok)
      <3>1. gwSessions' = gwSessions
        BY <1>2, <2>4 DEF Gw!SessionsAfter
      <3> QED
        BY <1>1, <2>4, <3>1
    <2> QED
      BY <2>1, <2>2, <2>3, <2>4
  <1> QED
    BY <1>1, <1>2, <1>3 DEF GatewayInv

LEMMA GatewayNext == GatewayInv /\ [Gw!Next]_gwVars => GatewayInv'
  <1> SUFFICES ASSUME GatewayInv, [Gw!Next]_gwVars PROVE GatewayInv'
    OBVIOUS
  <1> DEFINE Calls == [op : Gw!Operations \cup {"list"}, dev : Devices \cup {Null},
                       n : 1 .. MaxCalls, held : BOOLEAN]
  <1>1. /\ gwSessions \in [Devices -> {"none", "init", "online"}] /\ gwCalls \in 0 .. MaxCalls
        /\ gwCall # Null => gwCall \in Calls
        /\ \A d \in Devices : gwSessions[d] = "init" =>
               gwCall # Null /\ gwCall.op = "online" /\ gwCall.dev = d /\ gwCall.held
    BY DEF GatewayInv
  <1>2. ASSUME gwSessions' = gwSessions, gwCall' = gwCall, gwCalls' = gwCalls PROVE GatewayInv'
    BY <1>1, <1>2 DEF GatewayInv
  <1>3. ASSUME gwCall = Null, gwCall' = Null, gwCalls < MaxCalls, gwCalls' = gwCalls + 1,
               gwSessions' = gwSessions \/ \E d \in Devices : gwSessions' = Gw!Abandoned(d)
        PROVE  GatewayInv'
    <2>1. gwCalls' \in 0 .. MaxCalls
      BY <1>1, <1>3, BoundsAssumption
    <2>2. /\ gwSessions' \in [Devices -> {"none", "init", "online"}]
          /\ \A d \in Devices : gwSessions'[d] # "init"
      BY <1>1, <1>3 DEF Gw!Abandoned
    <2> QED
      BY <1>3, <2>1, <2>2 DEF GatewayInv
  <1>4. ASSUME NEW d \in Devices, Gw!Online(d) PROVE GatewayInv'
    <2>1. /\ Gw!Free
          /\ \/ Gw!Publish("online", d) /\ gwSessions' = [gwSessions EXCEPT ![d] = "init"]
             \/ Gw!PublishFails("online", d) /\ gwSessions' = Gw!Abandoned(d)
      BY <1>4 DEF Gw!Online
    <2>2. "online" \in Gw!Operations \cup {"list"}
      BY DEF Gw!Operations
    <2>3. CASE Gw!Publish("online", d) /\ gwSessions' = [gwSessions EXCEPT ![d] = "init"]
      BY <2>1, <2>2, <2>3, CallBegun
    <2>4. CASE Gw!PublishFails("online", d) /\ gwSessions' = Gw!Abandoned(d)
      BY <1>3, <2>1, <2>4 DEF Gw!Free, Gw!PublishFails
    <2> QED
      BY <2>1, <2>3, <2>4
  <1>5. ASSUME NEW o \in Gw!Operations, NEW d \in Devices, Gw!Ask(o, d) PROVE GatewayInv'
    <2>1. Gw!Free /\ gwSessions' = gwSessions /\ (Gw!Publish(o, d) \/ Gw!PublishFails(o, d))
      BY <1>5 DEF Gw!Ask
    <2>2. CASE Gw!Publish(o, d)
      BY <2>1, <2>2, CallBegun
    <2>3. CASE Gw!PublishFails(o, d)
      BY <1>3, <2>1, <2>3 DEF Gw!Free, Gw!PublishFails
    <2> QED
      BY <2>1, <2>2, <2>3
  <1>6. ASSUME Gw!GetBindList PROVE GatewayInv'
    BY <1>6, CallBegun DEF Gw!GetBindList
  <1>7. ASSUME Gw!Answered \/ Gw!LoopedOut PROVE GatewayInv'
    <2>1. gwCall # Null /\ \E ok \in BOOLEAN : Gw!Returned(ok)
      BY <1>7 DEF Gw!Answered, Gw!LoopedOut, Gw!OutOfLoops
    <2> QED
      BY <2>1, CallReturned
  <1>8. ASSUME Gw!HandleUnbindAll PROVE GatewayInv'
    <2>1. /\ gwSessions' = [d \in Devices |-> "none"] /\ gwCalls' = gwCalls
          /\ gwCall' = IF gwCall = Null THEN Null ELSE [gwCall EXCEPT !.held = FALSE]
      BY <1>8 DEF Gw!HandleUnbindAll
    <2>2. gwCall' # Null => gwCall' \in Calls
      BY <1>1, <2>1
    <2>3. /\ gwSessions' \in [Devices -> {"none", "init", "online"}]
          /\ \A d \in Devices : gwSessions'[d] # "init"
      BY <2>1
    <2> QED
      BY <1>1, <2>1, <2>2, <2>3 DEF GatewayInv
  <1>9. ASSUME Gw!Destroy PROVE GatewayInv'
    <2>1. /\ gwSessions' = [d \in Devices |-> "none"] /\ gwCalls' = gwCalls /\ gwCall' = gwCall
      BY <1>9 DEF Gw!Destroy, Gw!gwHistory
    <2>2. /\ gwSessions' \in [Devices -> {"none", "init", "online"}]
          /\ \A d \in Devices : gwSessions'[d] # "init"
      BY <2>1
    <2> QED
      BY <1>1, <2>1, <2>2 DEF GatewayInv
  <1>10. ASSUME \/ Gw!Construct \/ \E granted \in BOOLEAN : Gw!SubscribeEnds(granted)
                \/ \E r \in gwUp, result \in {0, Gw!Refused} : Gw!CloudAnswers(r, result)
                \/ Gw!MessageLost \/ \E a \in gwDown : Gw!HandleAnswer(a)
                \/ \E d \in Devices, bound \in BOOLEAN : Gw!HandleChange(d, bound)
                \/ UNCHANGED gwVars
         PROVE  GatewayInv'
    <2>1. gwSessions' = gwSessions /\ gwCall' = gwCall /\ gwCalls' = gwCalls
      BY <1>10 DEF Gw!Construct, Gw!SubscribeEnds, Gw!CloudAnswers, Gw!MessageLost,
                   Gw!HandleAnswer, Gw!HandleChange, Gw!gwHistory, gwVars
    <2> QED
      BY <1>2, <2>1
  <1> QED
    BY <1>4, <1>5, <1>6, <1>7, <1>8, <1>9, <1>10 DEF Gw!Next

LEMMA GatewayIdle == GatewayInv => Gw!IdleSessionsOnline
  BY DEF GatewayInv, Gw!IdleSessionsOnline

----------------------------------------------------------------------------
(* The answers of the gateway: the proof. *)

LEMMA GatewayAnswersInit == Gw!Init => GatewayAnswers
  <1> SUFFICES ASSUME Gw!Init PROVE GatewayAnswers
    OBVIOUS
  <1>1. gwUp = {} /\ gwDown = {} /\ gwGivenUp = {} /\ gwCall = Null /\ gwLast = Null
    BY DEF Gw!Init
  <1>2. GatewayWires
    BY <1>1 DEF GatewayWires, GatewayFlight
  <1>3. GatewaySlots
    BY <1>1 DEF GatewaySlots, Gw!Init, Gw!Refused, Gw!Waiting
  <1>4. Gw!SuccessIsAnswered
    BY <1>1 DEF Gw!SuccessIsAnswered
  <1> QED
    BY <1>2, <1>3, <1>4, GatewayInit DEF GatewayAnswers

(* The request that is under way with a number is the only one. *)
LEMMA FlightTypes ==
    ASSUME GatewayWires
    PROVE  /\ GatewayFlight \subseteq Gw!Message
           /\ \A r \in GatewayFlight : r.n \in 1 .. MaxCalls
           /\ \A r, q \in GatewayFlight : r.n = q.n => r = q
           /\ \A a \in gwDown : a.r \in GatewayFlight
  <1>1. GatewayFlight \subseteq Gw!Message
    BY DEF GatewayWires, GatewayFlight
  <1>2. \A r \in Gw!Message : r.n \in 1 .. MaxCalls
    BY DEF Gw!Message
  <1>3. \A r, q \in GatewayFlight : r.n = q.n => r = q
    BY DEF GatewayWires, GatewayFlight
  <1> QED
    BY <1>1, <1>2, <1>3 DEF GatewayFlight

(* No message comes up, and the call, if there is one, is the same. *)
LEMMA FlightThinned ==
    ASSUME GatewayWires, gwUp' \subseteq gwUp, gwDown' \subseteq gwDown,
           UNCHANGED <<gwCalls, gwGivenUp>>,
           gwCall' = Null <=> gwCall = Null,
           gwCall # Null => gwCall'.n = gwCall.n /\ gwCall'.op = gwCall.op /\ gwCall'.dev = gwCall.dev
    PROVE  GatewayWires' /\ GatewayFlight' \subseteq GatewayFlight
  <1>1. GatewayFlight' \subseteq GatewayFlight
    BY DEF GatewayFlight
  <1>2. GatewayEnd' = GatewayEnd
    BY DEF GatewayEnd
  <1>3. \A r \in GatewayFlight' : GatewayDue(r)' \/ LateAt(r.n, GatewayEnd)'
    BY <1>1, <1>2 DEF GatewayWires, GatewayDue, LateAt
  <1> QED
    BY <1>1, <1>3 DEF GatewayWires

(* A call that waits for its answer goes on waiting, or has it. *)
LEMMA SlotKept ==
    ASSUME GatewaySlots, UNCHANGED <<gwSlots, gwAccepted, gwGivenUp>>,
           GatewayFlight' \subseteq GatewayFlight,
           gwCall' = Null <=> gwCall = Null,
           gwCall # Null => gwCall'.n = gwCall.n /\ gwCall'.op = gwCall.op /\ gwCall'.dev = gwCall.dev
    PROVE  GatewaySlots'
  <1>1. ASSUME NEW a, gwCall # Null, TakenInTurn(a) PROVE TakenInTurn(a)'
    BY <1>1 DEF TakenInTurn, LateAt
  <1> QED
    BY <1>1 DEF GatewaySlots

LEMMA LastKept ==
    ASSUME Gw!SuccessIsAnswered, gwLast' = gwLast \/ ~gwLast'.ok, gwGivenUp \subseteq gwGivenUp'
    PROVE  Gw!SuccessIsAnswered'
  BY DEF Gw!SuccessIsAnswered

(* A request goes out, behind those that may still be answered late. *)
LEMMA RequestSent ==
    ASSUME GatewayInv, GatewayInv', GatewayWires, Gw!Free, NEW o \in Gw!Operations \cup {"list"},
           NEW d \in Devices \cup {Null}, Gw!Publish(o, d), UNCHANGED <<gwDown, gwGivenUp>>
    PROVE  /\ GatewayWires' /\ gwCall' # Null
           /\ gwCall'.op = o /\ gwCall'.dev = d
  <1> PICK n : n = gwCalls + 1
    OBVIOUS
  <1> PICK new : new = [op |-> o, dev |-> d, n |-> n]
    OBVIOUS
  <1>1. /\ gwCalls' = n /\ gwCall' = [op |-> o, dev |-> d, n |-> n, held |-> TRUE]
        /\ gwUp' = gwUp \cup {new} /\ gwCall = Null /\ gwCalls < MaxCalls
    BY DEF Gw!Publish, Gw!Free
  <1>2. gwCalls \in Nat /\ n \in 1 .. MaxCalls
    BY <1>1, BoundsAssumption DEF GatewayInv
  <1>3. new \in Gw!Message /\ new.n = n /\ new.op = o /\ new.dev = d
    BY <1>2 DEF Gw!Message
  <1>4. gwCall' \in [op : Gw!Operations \cup {"list"}, dev : Devices \cup {Null},
                     n : 1 .. MaxCalls, held : BOOLEAN]
    BY <1>1, <1>2
  <1>5. gwCall' # Null /\ gwCall'.n = n /\ gwCall'.op = o /\ gwCall'.dev = d
    BY <1>1, <1>4, NullAssumption, NullIsNoNumber
  <1>6. GatewayFlight' = GatewayFlight \cup {new} /\ GatewayEnd' = n /\ GatewayEnd = n
    BY <1>1, <1>5 DEF GatewayFlight, GatewayEnd
  <1>7. \A r \in GatewayFlight : LateAt(r.n, n) /\ r.n # n /\ LateAt(r.n, n)'
    <2>1. \A r \in GatewayFlight : LateAt(r.n, n)
      BY <1>1, <1>6 DEF GatewayWires, GatewayDue
    <2>2. \A r \in GatewayFlight : r.n \in 1 .. MaxCalls
      BY FlightTypes
    <2>3. ASSUME NEW r \in GatewayFlight PROVE r.n # n
      <3>1. r.n < n
        BY <2>1 DEF LateAt
      <3>2. r.n \in 1 .. MaxCalls
        BY <2>2
      <3> QED
        BY <1>2, <3>1, <3>2, BoundsAssumption
    <2> QED
      BY <2>1, <2>3 DEF LateAt
  <1>8. GatewayDue(new)'
    <2>1. new.n = gwCall'.n /\ new.op = gwCall'.op /\ new.dev = gwCall'.dev
      BY <1>3, <1>5
    <2> QED
      BY <1>5, <2>1 DEF GatewayDue
  <1>9. \A r \in GatewayFlight' : GatewayDue(r)' \/ LateAt(r.n, GatewayEnd)'
    <2>1. GatewayEnd' = n
      BY <1>6
    <2>2. ASSUME NEW r \in GatewayFlight PROVE LateAt(r.n, GatewayEnd)'
      BY <1>7, <2>1 DEF LateAt
    <2> QED
      BY <1>6, <1>8, <2>2
  <1>10. /\ \A r, q \in gwUp' : r.n = q.n => r = q
         /\ \A r \in gwUp', a \in gwDown' : r.n # a.r.n
    BY <1>1, <1>3, <1>7 DEF GatewayWires, GatewayFlight
  <1> QED
    BY <1>1, <1>3, <1>5, <1>9, <1>10 DEF GatewayWires

(* The call is over: what is under way is late for the next one. *)
LEMMA FlightLate ==
    ASSUME GatewayInv, GatewayWires, UNCHANGED <<gwUp, gwDown>>, gwCall' = Null,
           gwCalls' \in Nat, gwCalls <= gwCalls', gwGivenUp \subseteq gwGivenUp',
           gwGivenUp' \subseteq 1 .. MaxCalls, gwCall = Null => gwCalls < gwCalls',
           \A r \in GatewayFlight : GatewayDue(r) => \E g \in gwGivenUp' : g <= r.n
    PROVE  GatewayWires'
  <1>1. GatewayFlight' = GatewayFlight /\ GatewayEnd' = gwCalls' + 1
    BY DEF GatewayFlight, GatewayEnd
  <1>2. gwCalls \in Nat
    BY BoundsAssumption DEF GatewayInv
  <1>3. ASSUME NEW r \in GatewayFlight PROVE LateAt(r.n, GatewayEnd)'
    <2>1. r.n \in Nat /\ (GatewayDue(r) \/ LateAt(r.n, GatewayEnd))
      BY FlightTypes, BoundsAssumption DEF GatewayWires
    <2>2. \E g \in gwGivenUp' : g <= r.n
      BY <2>1 DEF LateAt
    <2>3. r.n < gwCalls' + 1
      BY <1>2, <2>1 DEF GatewayDue, LateAt, GatewayEnd, GatewayWires
    <2> QED
      BY <1>1, <2>2, <2>3 DEF LateAt
  <1> QED
    BY <1>1, <1>3 DEF GatewayWires
(* A call marks its slot, and publishes or fails. *)
LEMMA CallMarks ==
    ASSUME GatewayAnswers, GatewayInv', Gw!Free, NEW o \in Gw!Operations, NEW d \in Devices,
           Gw!Mark(o, d), Gw!Publish(o, d) \/ Gw!PublishFails(o, d),
           UNCHANGED <<gwDown, gwGivenUp>>
    PROVE  GatewayWires' /\ GatewaySlots' /\ Gw!SuccessIsAnswered'
  <1>1. /\ GatewayInv /\ GatewayWires /\ GatewaySlots /\ Gw!SuccessIsAnswered
        /\ gwCall = Null /\ gwCalls \in Nat
    BY BoundsAssumption DEF GatewayAnswers, GatewayInv, Gw!Free
  <1>2. /\ gwSlots' \in [Gw!Operations ->
                           [client : Devices \cup {Null}, result : {0, Gw!Refused, Gw!Waiting}]]
        /\ DOMAIN gwAccepted' = Gw!Operations
        /\ gwSlots'[o] = [client |-> d, result |-> Gw!Waiting]
    BY <1>1 DEF Gw!Mark, GatewaySlots
  <1>3. CASE Gw!Publish(o, d)
    <2>1. GatewayWires' /\ gwCall' # Null /\ gwCall'.op = o /\ gwCall'.dev = d
      BY <1>1, <1>3, RequestSent
    <2>2. GatewaySlots'
      BY <1>2, <2>1 DEF GatewaySlots
    <2>3. gwLast' = gwLast
      BY <1>3 DEF Gw!Publish
    <2> QED
      BY <1>1, <2>1, <2>2, <2>3, LastKept
  <1>4. CASE Gw!PublishFails(o, d)
    <2>1. gwCall' = Null /\ gwUp' = gwUp /\ gwCalls' = gwCalls + 1 /\ ~gwLast'.ok
      BY <1>1, <1>4 DEF Gw!PublishFails
    <2>2. GatewaySlots'
      BY <1>2, <2>1 DEF GatewaySlots
    <2>3. gwCalls' \in Nat /\ gwCalls < gwCalls' /\ gwCalls <= gwCalls'
      BY <1>1, <2>1
    <2>4. gwGivenUp' \subseteq 1 .. MaxCalls /\ \A r \in GatewayFlight : ~GatewayDue(r)
      BY <1>1 DEF GatewayWires, GatewayDue
    <2>5. GatewayWires'
      BY <1>1, <2>1, <2>3, <2>4, FlightLate
    <2> QED
      BY <1>1, <2>1, <2>2, <2>5, LastKept
  <1> QED
    BY <1>3, <1>4

(* A call returns: with success on the answer that its slot has taken. *)
LEMMA CallReturns ==
    ASSUME GatewayAnswers, Gw!Answered \/ Gw!LoopedOut
    PROVE  GatewayWires' /\ GatewaySlots' /\ Gw!SuccessIsAnswered'
  <1>1. /\ GatewayInv /\ GatewayWires /\ GatewaySlots /\ Gw!SuccessIsAnswered
        /\ gwCall # Null /\ gwCall.n \in 1 .. MaxCalls /\ gwCalls \in Nat
        /\ gwCall' = Null /\ UNCHANGED <<gwUp, gwDown, gwCalls, gwSlots, gwAccepted>>
    <2>1. GatewayInv /\ GatewayWires /\ GatewaySlots /\ Gw!SuccessIsAnswered
      BY DEF GatewayAnswers
    <2>2. /\ gwCall # Null /\ gwCall' = Null
          /\ UNCHANGED <<gwUp, gwDown, gwCalls, gwSlots, gwAccepted>>
      BY DEF Gw!Answered, Gw!LoopedOut, Gw!OutOfLoops, Gw!Returned, Gw!gwCloud
    <2>3. gwCall.n \in 1 .. MaxCalls /\ gwCalls \in Nat
      BY <2>1, <2>2, BoundsAssumption DEF GatewayInv
    <2> QED
      BY <2>1, <2>2, <2>3
  <1>2. GatewaySlots'
    BY <1>1 DEF GatewaySlots
  <1>3. CASE Gw!LoopedOut
    <2>1. gwGivenUp' = gwGivenUp \cup {gwCall.n} /\ ~gwLast'.ok
      BY <1>3 DEF Gw!LoopedOut, Gw!Returned
    <2>2. gwGivenUp' \subseteq 1 .. MaxCalls
      BY <1>1, <2>1 DEF GatewayWires
    <2>3. \A r \in GatewayFlight : GatewayDue(r) => \E g \in gwGivenUp' : g <= r.n
      BY <1>1, <2>1, BoundsAssumption DEF GatewayDue
    <2>4. GatewayWires'
      BY <1>1, <2>1, <2>2, <2>3, FlightLate
    <2> QED
      BY <1>1, <1>2, <2>1, <2>4, LastKept
  <1>4. CASE Gw!Answered
    <2>1. /\ gwCall.op \in Gw!Operations /\ gwSlots[gwCall.op].result # Gw!Waiting
          /\ gwGivenUp' = gwGivenUp
      BY <1>4 DEF Gw!Answered, Gw!Arrived
    <2>2. PICK a : a = gwAccepted[gwCall.op]
      OBVIOUS
    <2>3. TakenInTurn(a)
      BY <1>1, <2>1, <2>2 DEF GatewaySlots
    <2>4. a \in [r : Gw!Message, result : {0, Gw!Refused}] /\ a # Null
      BY <2>3, NoAnswerAssumption DEF TakenInTurn
    <2>5. \/ a.r.n = gwCall.n /\ \A r \in GatewayFlight : r.n # gwCall.n
          \/ LateAt(a.r.n, gwCall.n)
      BY <2>3 DEF TakenInTurn
    <2>6. a.r.n \in 1 .. MaxCalls /\ gwGivenUp \subseteq 1 .. MaxCalls
      BY <1>1, <2>4 DEF GatewayWires, Gw!Message
    <2>7. \A r \in GatewayFlight : GatewayDue(r) => \E g \in gwGivenUp' : g <= r.n
      <3> SUFFICES ASSUME NEW r \in GatewayFlight, GatewayDue(r)
                   PROVE  \E g \in gwGivenUp : g <= r.n
        BY <2>1
      <3>1. r.n = gwCall.n
        BY DEF GatewayDue
      <3>2. PICK g \in gwGivenUp : a.r.n < r.n /\ g <= a.r.n
        BY <2>5, <3>1 DEF LateAt
      <3>3. r.n \in 1 .. MaxCalls /\ g \in 1 .. MaxCalls /\ a.r.n \in 1 .. MaxCalls
        BY <1>1, <2>6, <3>1
      <3>4. g <= r.n
        BY <3>2, <3>3, BoundsAssumption
      <3> QED
        BY <3>4
    <2>8. GatewayWires'
      <3>1. gwGivenUp' \subseteq 1 .. MaxCalls
        BY <2>1, <2>6
      <3> QED
        BY <1>1, <2>1, <2>7, <3>1, FlightLate
    <2>9. Gw!SuccessIsAnswered'
      <3>1. SUFFICES ASSUME gwLast'.ok PROVE Gw!SuccessIsAnswered'
        BY DEF Gw!SuccessIsAnswered
      <3>2. /\ gwLast' = [op |-> gwCall.op, dev |-> gwCall.dev, n |-> gwCall.n,
                          ok |-> gwSlots[gwCall.op].result = 0,
                          by |-> IF gwSlots[gwCall.op].result = 0 THEN gwAccepted[gwCall.op]
                                 ELSE Null]
        BY <1>4 DEF Gw!Answered, Gw!Returned
      <3>3. gwSlots[gwCall.op].result = 0
        BY <3>1, <3>2
      <3>4. /\ gwLast'.by = a /\ gwLast'.op = gwCall.op /\ gwLast'.dev = gwCall.dev
            /\ gwLast'.n = gwCall.n
        BY <2>2, <3>2, <3>3
      <3>5. /\ a.result = 0 /\ a.r.op = gwCall.op
            /\ a.r.dev = gwCall.dev \/ <<a.r.dev, gwCall.dev>> \in BeginningOf
        BY <2>3, <3>3 DEF TakenInTurn
      <3>6. a.r.n = gwCall.n \/ (\E g \in gwGivenUp' : g <= a.r.n /\ a.r.n < gwCall.n)
        BY <2>1, <2>5 DEF LateAt
      <3> QED
        BY <2>4, <3>4, <3>5, <3>6 DEF Gw!SuccessIsAnswered
    <2> QED
      BY <1>2, <2>8, <2>9
  <1> QED
    BY <1>3, <1>4

(* The cloud answers: a request turns round. *)
LEMMA RequestAnswered ==
    ASSUME GatewayAnswers, NEW r \in gwUp, NEW result \in {0, Gw!Refused},
           Gw!CloudAnswers(r, result)
    PROVE  GatewayWires' /\ GatewayFlight' = GatewayFlight
  <1> PICK new : new = [r |-> r, result |-> result]
    OBVIOUS
  <1>1. /\ gwUp' = gwUp \ {r} /\ gwDown' = gwDown \cup {new} /\ new.r = r
        /\ UNCHANGED <<gwCall, gwCalls, gwGivenUp>> /\ GatewayWires
    BY DEF Gw!CloudAnswers, Gw!gwHistory, GatewayAnswers
  <1>2. new \in [r : Gw!Message, result : {0, Gw!Refused}]
    BY <1>1 DEF GatewayWires
  <1>3. GatewayFlight' = GatewayFlight
    BY <1>1 DEF GatewayFlight
  <1>4. \A q \in GatewayFlight' : GatewayDue(q)' \/ LateAt(q.n, GatewayEnd)'
    BY <1>1, <1>3 DEF GatewayWires, GatewayDue, LateAt, GatewayEnd
  <1>5. \A p, q \in gwUp' : p.n = q.n => p = q
    BY <1>1 DEF GatewayWires
  <1>6. \A q \in gwUp', a \in gwDown' : q.n # a.r.n
    BY <1>1 DEF GatewayWires
  <1>7. \A a, b \in gwDown' : a.r.n = b.r.n => a = b
    BY <1>1 DEF GatewayWires
  <1> QED
    BY <1>1, <1>2, <1>3, <1>4, <1>5, <1>6, <1>7 DEF GatewayWires

(* An answer of the operation, for this sub-device or one whose id begins  *)
(* that of it, is the result of the call that waits.                       *)
LEMMA AnswerHandled ==
    ASSUME GatewayAnswers, NEW a \in gwDown, Gw!HandleAnswer(a)
    PROVE  GatewayWires' /\ GatewaySlots'
  <1> PICK o : o = a.r.op
    OBVIOUS
  <1> DEFINE mine == o \in Gw!Operations /\ Gw!Matches(a.r.dev, gwSlots[o].client)
  <1>1. /\ gwDown' = gwDown \ {a} /\ UNCHANGED <<gwUp, gwCall, gwCalls, gwGivenUp>>
        /\ gwSlots' = IF mine THEN [gwSlots EXCEPT ![o].result = a.result] ELSE gwSlots
        /\ gwAccepted' = IF mine THEN [gwAccepted EXCEPT ![o] = a] ELSE gwAccepted
    BY DEF Gw!HandleAnswer
  <1>2. GatewayWires /\ GatewaySlots
    BY DEF GatewayAnswers
  <1>3. GatewayWires' /\ GatewayFlight' \subseteq GatewayFlight
    BY <1>1, <1>2, FlightThinned
  <1>4. ASSUME NEW b, gwCall # Null, TakenInTurn(b), gwSlots'[gwCall.op] = gwSlots[gwCall.op]
        PROVE TakenInTurn(b)'
    BY <1>1, <1>3, <1>4 DEF TakenInTurn, LateAt
  <1>5. CASE ~mine
    <2>1. gwSlots' = gwSlots /\ gwAccepted' = gwAccepted
      BY <1>1, <1>5
    <2> QED
      BY <1>1, <1>2, <1>3, <2>1, SlotKept
  <1>6. CASE mine
    <2>1. /\ gwSlots' = [gwSlots EXCEPT ![o].result = a.result]
          /\ gwAccepted' = [gwAccepted EXCEPT ![o] = a]
          /\ o \in Gw!Operations /\ Gw!Matches(a.r.dev, gwSlots[o].client)
      BY <1>1, <1>6
    <2>2. /\ gwSlots \in [Gw!Operations ->
                           [client : Devices \cup {Null}, result : {0, Gw!Refused, Gw!Waiting}]]
          /\ DOMAIN gwAccepted = Gw!Operations
      BY <1>2 DEF GatewaySlots
    <2>3. a \in [r : Gw!Message, result : {0, Gw!Refused}]
      BY <1>2 DEF GatewayWires
    <2>4. gwSlots'[o].client = gwSlots[o].client /\ gwSlots'[o].result = a.result
      BY <2>1, <2>2
    <2>5. gwSlots' \in [Gw!Operations ->
                           [client : Devices \cup {Null}, result : {0, Gw!Refused, Gw!Waiting}]]
      BY <2>1, <2>2, <2>3
    <2>6. DOMAIN gwAccepted' = Gw!Operations /\ gwAccepted'[o] = a
      BY <2>1, <2>2
    <2>7. ASSUME gwCall # Null, gwCall.op = o
          PROVE  gwSlots'[o].client = gwCall.dev /\ TakenInTurn(a)'
      <3>1. gwSlots[o].client = gwCall.dev
        BY <1>2, <2>1, <2>7 DEF GatewaySlots
      <3>2. a.r.dev = gwCall.dev \/ <<a.r.dev, gwCall.dev>> \in BeginningOf
        BY <2>1, <3>1 DEF Gw!Matches
      <3>3. a.r \in GatewayFlight /\ (GatewayDue(a.r) \/ LateAt(a.r.n, GatewayEnd))
        BY <1>2 DEF GatewayFlight, GatewayWires
      <3>4. GatewayEnd = gwCall.n
        BY <2>7 DEF GatewayEnd
      <3>5. ASSUME GatewayDue(a.r)
            PROVE  a.r.n = gwCall.n /\ \A r \in GatewayFlight' : r.n # gwCall.n
        <4>1. a.r.n = gwCall.n
          BY <3>5 DEF GatewayDue
        <4> SUFFICES ASSUME NEW r \in GatewayFlight', r.n = gwCall.n PROVE FALSE
          BY <4>1
        <4>2. r = a.r
          BY <1>2, <1>3, <3>3, <4>1, FlightTypes
        <4>3. CASE r \in gwUp
          BY <1>2, <4>2, <4>3 DEF GatewayWires
        <4>4. ASSUME NEW b \in gwDown', r = b.r PROVE FALSE
          BY <1>1, <1>2, <4>2, <4>4 DEF GatewayWires
        <4> QED
          BY <1>1, <4>3, <4>4 DEF GatewayFlight
      <3>6. LateAt(a.r.n, gwCall.n) => LateAt(a.r.n, gwCall.n)'
        BY <1>1 DEF LateAt
      <3>7. gwCall' = gwCall
        BY <1>1
      <3>8. \/ a.r.n = gwCall.n /\ \A r \in GatewayFlight' : r.n # gwCall.n
            \/ LateAt(a.r.n, gwCall.n)'
        BY <3>3, <3>4, <3>5, <3>6
      <3> QED
        BY <2>3, <2>4, <2>7, <3>1, <3>2, <3>7, <3>8 DEF TakenInTurn
    <2>8. ASSUME gwCall # Null, gwCall.op \in Gw!Operations, gwCall.op # o
          PROVE  /\ gwSlots'[gwCall.op] = gwSlots[gwCall.op]
                 /\ gwAccepted'[gwCall.op] = gwAccepted[gwCall.op]
      BY <2>1, <2>2, <2>8
    <2> PICK b : b = gwAccepted'[gwCall.op]
      OBVIOUS
    <2> HIDE DEF mine
    <2>9. ASSUME gwCall # Null, gwCall.op \in Gw!Operations
          PROVE  /\ gwSlots'[gwCall.op].client = gwCall.dev
                 /\ gwSlots'[gwCall.op].result # Gw!Waiting => TakenInTurn(b)'
      <3>1. CASE gwCall.op = o
        BY <2>6, <2>7, <2>9, <3>1
      <3>2. CASE gwCall.op # o
        <4>1. /\ gwSlots'[gwCall.op] = gwSlots[gwCall.op] /\ b = gwAccepted[gwCall.op]
          BY <2>8, <2>9, <3>2
        <4>2. /\ gwSlots[gwCall.op].client = gwCall.dev
              /\ gwSlots[gwCall.op].result # Gw!Waiting => TakenInTurn(b)
          BY <1>2, <2>9, <4>1 DEF GatewaySlots
        <4> QED
          BY <1>4, <2>9, <4>1, <4>2
      <3> QED
        BY <3>1, <3>2
    <2>10. gwCall' = gwCall
      BY <1>1
    <2>11. (gwCall # Null /\ gwCall.op \in Gw!Operations)' =>
             /\ gwSlots'[gwCall'.op].client = gwCall'.dev
             /\ gwSlots'[gwCall'.op].result # Gw!Waiting => TakenInTurn(b)'
      BY <2>9, <2>10
    <2>12. b = gwAccepted'[gwCall'.op]
      BY <2>10
    <2>13. (gwCall # Null /\ gwCall.op \in Gw!Operations =>
              /\ gwSlots[gwCall.op].client = gwCall.dev
              /\ gwSlots[gwCall.op].result # Gw!Waiting => TakenInTurn(gwAccepted[gwCall.op]))'
      BY <2>11, <2>12
    <2> QED
      BY <1>3, <2>5, <2>6, <2>13 DEF GatewaySlots
  <1> QED
    BY <1>5, <1>6

LEMMA GatewayAnswersNext == GatewayAnswers /\ [Gw!Next]_gwVars => GatewayAnswers'
  <1> SUFFICES ASSUME GatewayAnswers, [Gw!Next]_gwVars PROVE GatewayAnswers'
    OBVIOUS
  <1>1. /\ GatewayInv /\ GatewayWires /\ GatewaySlots /\ Gw!SuccessIsAnswered
        /\ GatewayInv'
    BY GatewayNext DEF GatewayAnswers
  <1> SUFFICES GatewayWires' /\ GatewaySlots' /\ Gw!SuccessIsAnswered'
    BY <1>1 DEF GatewayAnswers
  <1>2. ASSUME NEW d \in Devices, Gw!Online(d)
        PROVE  GatewayWires' /\ GatewaySlots' /\ Gw!SuccessIsAnswered'
    <2>1. /\ Gw!Free /\ "online" \in Gw!Operations /\ Gw!Mark("online", d)
          /\ Gw!Publish("online", d) \/ Gw!PublishFails("online", d)
          /\ UNCHANGED <<gwDown, gwGivenUp>>
      BY <1>2 DEF Gw!Online, Gw!Operations
    <2> QED
      BY <1>1, <2>1, CallMarks
  <1>3. ASSUME NEW o \in Gw!Operations, NEW d \in Devices, Gw!Ask(o, d)
        PROVE  GatewayWires' /\ GatewaySlots' /\ Gw!SuccessIsAnswered'
    <2>1. /\ Gw!Free /\ Gw!Mark(o, d)
          /\ Gw!Publish(o, d) \/ Gw!PublishFails(o, d)
          /\ UNCHANGED <<gwDown, gwGivenUp>>
      BY <1>3 DEF Gw!Ask
    <2> QED
      BY <1>1, <2>1, CallMarks
  <1>4. CASE Gw!GetBindList
    <2>1. /\ Gw!Free /\ Gw!Publish("list", Null)
          /\ UNCHANGED <<gwSlots, gwDown, gwGivenUp, gwAccepted, gwLast>>
      BY <1>4 DEF Gw!GetBindList, Gw!Publish
    <2>2. GatewayWires' /\ gwCall'.op = "list"
      BY <1>1, <2>1, RequestSent
    <2>3. GatewaySlots'
      BY <1>1, <2>1, <2>2 DEF GatewaySlots, Gw!Operations
    <2> QED
      BY <1>1, <2>1, <2>2, <2>3, LastKept
  <1>5. CASE Gw!Answered \/ Gw!LoopedOut
    BY <1>5, CallReturns
  <1>6. ASSUME NEW r \in gwUp, NEW result \in {0, Gw!Refused}, Gw!CloudAnswers(r, result)
        PROVE  GatewayWires' /\ GatewaySlots' /\ Gw!SuccessIsAnswered'
    <2>1. UNCHANGED <<gwSlots, gwAccepted, gwGivenUp, gwCall, gwLast>>
      BY <1>6 DEF Gw!CloudAnswers, Gw!gwHistory
    <2>2. GatewayWires' /\ GatewayFlight' = GatewayFlight
      BY <1>6, RequestAnswered
    <2> QED
      BY <1>1, <2>1, <2>2, SlotKept, LastKept
  <1>7. ASSUME NEW a \in gwDown, Gw!HandleAnswer(a)
        PROVE  GatewayWires' /\ GatewaySlots' /\ Gw!SuccessIsAnswered'
    <2>1. UNCHANGED <<gwGivenUp, gwLast>>
      BY <1>7 DEF Gw!HandleAnswer
    <2> QED
      BY <1>1, <1>7, <2>1, AnswerHandled, LastKept
  <1>8. CASE Gw!HandleUnbindAll
    <2>1. /\ UNCHANGED <<gwUp, gwDown, gwCalls, gwGivenUp, gwSlots, gwAccepted, gwLast>>
          /\ gwCall' = IF gwCall = Null THEN Null ELSE [gwCall EXCEPT !.held = FALSE]
      BY <1>8 DEF Gw!HandleUnbindAll, Gw!gwCloud
    <2>2. /\ gwCall' = Null <=> gwCall = Null
          /\ gwCall # Null => gwCall'.n = gwCall.n /\ gwCall'.op = gwCall.op
                              /\ gwCall'.dev = gwCall.dev
      <3>1. CASE gwCall = Null
        BY <2>1, <3>1
      <3>2. CASE gwCall # Null
        <4>1. gwCall \in [op : Gw!Operations \cup {"list"}, dev : Devices \cup {Null},
                          n : 1 .. MaxCalls, held : BOOLEAN]
          BY <1>1, <3>2 DEF GatewayInv
        <4>2. gwCall' = [gwCall EXCEPT !.held = FALSE]
          BY <2>1, <3>2
        <4>3. gwCall' \in [op : Gw!Operations \cup {"list"}, dev : Devices \cup {Null},
                           n : 1 .. MaxCalls, held : BOOLEAN]
          BY <4>1, <4>2
        <4> QED
          BY <3>2, <4>1, <4>2, <4>3, NullAssumption, NullIsNoNumber
      <3> QED
        BY <3>1, <3>2
    <2>3. GatewayWires' /\ GatewayFlight' \subseteq GatewayFlight
      BY <1>1, <2>1, <2>2, FlightThinned
    <2> QED
      BY <1>1, <2>1, <2>2, <2>3, SlotKept, LastKept
  <1>9. CASE \/ Gw!Construct \/ Gw!Destroy \/ \E granted \in BOOLEAN : Gw!SubscribeEnds(granted)
             \/ Gw!MessageLost \/ UNCHANGED gwVars
             \/ \E d \in Devices, bound \in BOOLEAN : Gw!HandleChange(d, bound)
    <2>1. /\ UNCHANGED <<gwCalls, gwGivenUp, gwSlots, gwAccepted, gwLast, gwCall>>
          /\ gwUp' \subseteq gwUp /\ gwDown' \subseteq gwDown
      BY <1>9 DEF Gw!Construct, Gw!Destroy, Gw!SubscribeEnds, Gw!MessageLost, Gw!HandleChange,
         Gw!gwCloud, Gw!gwHistory, gwVars
    <2>2. GatewayWires' /\ GatewayFlight' \subseteq GatewayFlight
      BY <1>1, <2>1, FlightThinned
    <2> QED
      BY <1>1, <2>1, <2>2, SlotKept, LastKept
  <1> QED
    BY <1>2, <1>3, <1>4, <1>5, <1>6, <1>7, <1>8, <1>9 DEF Gw!Next

----------------------------------------------------------------------------
(* Synchronous requests. *)

LEMMA SyncInit == Sync!Init => SyncInv
  BY DEF Sync!Init, SyncInv, Sync!OkIsGranted

LEMMA SyncNext == SyncInv /\ [Sync!Next]_syncVars => SyncInv'
  <1> SUFFICES ASSUME SyncInv, [Sync!Next]_syncVars PROVE SyncInv'
    OBVIOUS
  <1>1. ASSUME NEW t \in Sync!Topics, Sync!SubAck(t) PROVE SyncInv'
    BY <1>1 DEF Sync!SubAck, SyncInv, Sync!OkIsGranted
  <1>2. ASSUME NEW t \in Sync!Topics, Sync!SubTimeout(t) PROVE SyncInv'
    BY <1>2 DEF Sync!SubTimeout, SyncInv, Sync!OkIsGranted
  <1>3. ASSUME \/ \E r \in Requests : Sync!Call(r)
               \/ Sync!Enable \/ Sync!InCall
               \/ \E q \in sqUp, answers, good \in BOOLEAN : Sync!CloudTakes(q, answers, good)
               \/ \E a \in sqDown : Sync!HandleAnswer(a)
               \/ UNCHANGED syncVars
        PROVE  SyncInv'
    <2>1. sqOk' = sqOk /\ sqGranted' = sqGranted
      BY <1>3 DEF Sync!Call, Sync!Enable, Sync!InCall, Sync!Subscribe, Sync!Subscribed,
                  Sync!SubscribeFails, Sync!Ask, Sync!Answered, Sync!GiveUp, Sync!CloudTakes,
                  Sync!HandleAnswer, syncVars
    <2> QED
      BY <2>1 DEF SyncInv, Sync!OkIsGranted
  <1> QED
    BY <1>1, <1>2, <1>3 DEF Sync!Next

----------------------------------------------------------------------------
(* The answers of the synchronous requests: the proof. *)

LEMMA SyncAnswersInit == Sync!Init => SyncAnswers
  <1> SUFFICES ASSUME Sync!Init PROVE SyncAnswers
    OBVIOUS
  <1>1. /\ sqUp = {} /\ sqDown = {} /\ sqGivenUp = {} /\ sqCall = Null /\ sqLast = Null
        /\ sqCalls = 0
    BY DEF Sync!Init
  <1>2. SyncCalls
    BY <1>1, BoundsAssumption DEF SyncCalls
  <1>3. SyncWires
    BY <1>1 DEF SyncWires, SyncFlight
  <1>4. SyncSlots
    BY <1>1 DEF SyncSlots, Sync!Init, Sync!Waits
  <1>5. Sync!SuccessIsAnswered
    BY <1>1 DEF Sync!SuccessIsAnswered
  <1> QED
    BY <1>2, <1>3, <1>4, <1>5 DEF SyncAnswers

LEMMA ServiceTypes == \A r \in Requests : Sync!ServiceOf[r] \in Sync!Services
  BY RequestsAssumption DEF Sync!ServiceOf, Sync!Services

LEMMA SyncFlightTypes ==
    ASSUME SyncWires
    PROVE  /\ SyncFlight \subseteq Sync!Asked
           /\ \A q \in SyncFlight : q.n \in 1 .. MaxCalls /\ q.req \in Requests
           /\ \A a \in sqDown : a.q \in SyncFlight
  <1>1. SyncFlight \subseteq Sync!Asked
    BY DEF SyncWires, SyncFlight
  <1>2. \A q \in Sync!Asked : q.n \in 1 .. MaxCalls /\ q.req \in Requests
    BY DEF Sync!Asked
  <1> QED
    BY <1>1, <1>2 DEF SyncFlight

(* The call that runs, and its number. *)
LEMMA SyncCallsNext == SyncCalls /\ [Sync!Next]_syncVars => SyncCalls'
  <1> SUFFICES ASSUME SyncCalls, [Sync!Next]_syncVars PROVE SyncCalls'
    OBVIOUS
  <1>1. CASE sqCalls' = sqCalls /\ (sqCall' = sqCall \/ sqCall' = Null)
    BY <1>1 DEF SyncCalls
  <1>2. ASSUME NEW r \in Requests, Sync!Call(r) PROVE SyncCalls'
    <2>1. /\ sqCalls < MaxCalls /\ sqCalls' = sqCalls + 1
          /\ sqCall' = [req |-> r, n |-> sqCalls + 1, tries |-> 0,
                        phase |-> IF Sync!NeedsTopic(r) THEN "subscribe" ELSE "ask"]
      BY <1>2 DEF Sync!Call
    <2>2. sqCalls + 1 \in 1 .. MaxCalls
      BY <2>1, BoundsAssumption DEF SyncCalls
    <2> QED
      BY <2>1, <2>2 DEF SyncCalls
  <1>3. CASE Sync!Subscribe \/ Sync!Subscribed \/ Sync!Ask
    <2>1. sqCall # Null /\ sqCalls' = sqCalls
      BY <1>3 DEF Sync!Subscribe, Sync!Subscribed, Sync!Ask
    <2>2. \/ sqCall' = Null
          \/ sqCall' = [sqCall EXCEPT !.tries = @ + 1]
          \/ \E p \in {"ask", "wait"} : sqCall' = [sqCall EXCEPT !.phase = p]
      BY <1>3 DEF Sync!Subscribe, Sync!Subscribed, Sync!Ask
    <2> QED
      BY <2>1, <2>2 DEF SyncCalls
  <1>4. CASE \/ Sync!Enable \/ Sync!SubscribeFails \/ Sync!Answered \/ Sync!GiveUp
             \/ \E t \in Sync!Topics : Sync!SubAck(t) \/ Sync!SubTimeout(t)
             \/ \E q \in sqUp, answers, good \in BOOLEAN : Sync!CloudTakes(q, answers, good)
             \/ \E a \in sqDown : Sync!HandleAnswer(a)
             \/ UNCHANGED syncVars
    <2>1. sqCalls' = sqCalls /\ (sqCall' = sqCall \/ sqCall' = Null)
      BY <1>4 DEF Sync!Enable, Sync!SubscribeFails, Sync!Answered, Sync!GiveUp, Sync!SubAck,
         Sync!SubTimeout, Sync!CloudTakes, Sync!HandleAnswer, syncVars
    <2> QED
      BY <1>1, <2>1
  <1> QED
    BY <1>2, <1>3, <1>4 DEF Sync!Next, Sync!InCall

(* No message comes up, and a call that waits goes on waiting. *)
LEMMA SyncThinned ==
    ASSUME SyncWires, sqUp' \subseteq sqUp, sqDown' \subseteq sqDown, UNCHANGED sqGivenUp,
           SyncEnd' = SyncEnd, Sync!Waits => Sync!Waits' /\ SyncOwn' = SyncOwn
    PROVE  SyncWires' /\ SyncFlight' \subseteq SyncFlight
  <1>1. SyncFlight' \subseteq SyncFlight
    BY DEF SyncFlight
  <1>2. \A q \in SyncFlight' : (Sync!Waits /\ q = SyncOwn)' \/ SyncLate(q.n, SyncEnd)'
    BY <1>1 DEF SyncWires, SyncLate
  <1> QED
    BY <1>1, <1>2 DEF SyncWires

(* The call is over: what is under way is late for the next one. *)
LEMMA SyncAllLate ==
    ASSUME SyncCalls, SyncWires, UNCHANGED <<sqUp, sqDown, sqCalls>>, sqCall # Null, sqCall' = Null,
           sqGivenUp \subseteq sqGivenUp', sqGivenUp' \subseteq 1 .. MaxCalls,
           Sync!Waits => \A q \in SyncFlight : q = SyncOwn => \E g \in sqGivenUp' : g <= q.n
    PROVE  SyncWires'
  <1>1. SyncFlight' = SyncFlight /\ SyncEnd' = sqCalls + 1 /\ SyncEnd = sqCalls
    BY DEF SyncFlight, SyncEnd, SyncCalls
  <1>2. sqCalls \in Nat /\ sqCall.n = sqCalls
    BY BoundsAssumption DEF SyncCalls
  <1>3. ASSUME NEW q \in SyncFlight PROVE SyncLate(q.n, SyncEnd)'
    <2>1. q.n \in Nat
      BY SyncFlightTypes, BoundsAssumption
    <2>2. (Sync!Waits /\ q = SyncOwn) \/ SyncLate(q.n, SyncEnd)
      BY DEF SyncWires
    <2>3. \E g \in sqGivenUp' : g <= q.n
      BY <2>2 DEF SyncLate
    <2>4. q.n < sqCalls + 1
      BY <1>1, <1>2, <2>1, <2>2 DEF SyncLate, SyncOwn
    <2> QED
      BY <1>1, <2>3, <2>4 DEF SyncLate
  <1> QED
    BY <1>1, <1>3 DEF SyncWires

(* A result that is there stays. *)
LEMMA SyncSlotKept ==
    ASSUME SyncSlots, UNCHANGED <<sqResult, sqTaken>>, sqGivenUp' = sqGivenUp,
           SyncFlight' \subseteq SyncFlight,
           Sync!Waits' => Sync!Waits /\ sqCall' = sqCall
    PROVE  SyncSlots'
  <1>1. ASSUME Sync!Waits' PROVE WrittenInTurn(Sync!ServiceOf[sqCall.req])'
    BY <1>1 DEF SyncSlots, WrittenInTurn, SyncLate, SyncOwn
  <1> QED
    BY <1>1 DEF SyncSlots

LEMMA SyncLastKept ==
    ASSUME Sync!SuccessIsAnswered, sqLast' = sqLast \/ ~sqLast'.ok, sqGivenUp \subseteq sqGivenUp'
    PROVE  Sync!SuccessIsAnswered'
  BY DEF Sync!SuccessIsAnswered

(* A request is published, or that fails. *)
LEMMA SyncAsks ==
    ASSUME SyncAnswers, SyncCalls', Sync!Ask
    PROVE  SyncWires' /\ SyncSlots' /\ Sync!SuccessIsAnswered'
  <1>1. /\ SyncCalls /\ SyncWires /\ SyncSlots /\ Sync!SuccessIsAnswered
        /\ sqCall # Null /\ sqCall.phase = "ask" /\ ~Sync!Waits
        /\ UNCHANGED <<sqDown, sqCalls, sqGivenUp>>
    BY DEF SyncAnswers, Sync!Ask, Sync!Waits
  <1> PICK s : s = Sync!ServiceOf[sqCall.req]
    OBVIOUS
  <1>2. sqCall.req \in Requests /\ s \in Sync!Services /\ sqCall.n = sqCalls
    BY <1>1, ServiceTypes DEF SyncCalls
  <1>3. /\ sqResult' \in [Sync!Services -> {"waiting", "ok", "error"}]
        /\ DOMAIN sqTaken' = Sync!Services /\ sqResult'[s] = "waiting"
    BY <1>1, <1>2 DEF Sync!Ask, Sync!Reset, SyncSlots
  <1>4. CASE sqCall' = Null /\ Sync!Failed /\ UNCHANGED sqUp
    <2>1. SyncWires'
      <3>1. sqGivenUp' \subseteq 1 .. MaxCalls
        BY <1>1 DEF SyncWires
      <3> QED
        BY <1>1, <1>4, <3>1, SyncAllLate
    <2>2. SyncSlots'
      BY <1>3, <1>4 DEF SyncSlots, Sync!Waits
    <2> QED
      BY <1>1, <1>4, <2>1, <2>2, SyncLastKept DEF Sync!Failed
  <1>5. CASE /\ sqCall' = [sqCall EXCEPT !.phase = "wait"]
             /\ sqUp' = sqUp \cup {[req |-> sqCall.req, n |-> sqCall.n]}
             /\ UNCHANGED sqLast
    <2> PICK own : own = SyncOwn
      OBVIOUS
    <2>1. sqCall \in [req : Requests, n : 1 .. MaxCalls, tries : Nat,
                      phase : {"subscribe", "ask", "wait"}]
      BY <1>1 DEF SyncCalls
    <2>2. /\ sqCall'.phase = "wait" /\ sqCall'.req = sqCall.req /\ sqCall'.n = sqCall.n
          /\ sqCall' \in [req : Requests, n : 1 .. MaxCalls, tries : Nat,
                          phase : {"subscribe", "ask", "wait"}]
      BY <1>5, <2>1
    <2>3. Sync!Waits' /\ SyncOwn' = own /\ SyncEnd' = SyncEnd /\ SyncEnd = sqCall.n
      BY <1>1, <2>2, NoAnswerAssumption DEF Sync!Waits, SyncOwn, SyncEnd
    <2>4. own \in Sync!Asked /\ own.n = sqCall.n
      BY <2>1 DEF SyncOwn, Sync!Asked
    <2>5. sqUp' = sqUp \cup {own} /\ SyncFlight' = SyncFlight \cup {own}
      BY <1>1, <1>5 DEF SyncOwn, SyncFlight
    <2>6. \A q \in SyncFlight : SyncLate(q.n, sqCall.n)
      BY <1>1, <2>3 DEF SyncWires
    <2>7. \A q \in SyncFlight : q.n # own.n
      <3> SUFFICES ASSUME NEW q \in SyncFlight, q.n = own.n PROVE FALSE
        OBVIOUS
      <3>1. own.n < own.n
        BY <2>4, <2>6 DEF SyncLate
      <3>2. own.n \in 1 .. MaxCalls
        BY <2>1, <2>4
      <3> QED
        BY <3>1, <3>2, BoundsAssumption
    <2>8. \A q \in SyncFlight' : (Sync!Waits /\ q = SyncOwn)' \/ SyncLate(q.n, SyncEnd)'
      <3>1. \A q \in SyncFlight : SyncLate(q.n, SyncEnd)'
        BY <1>1, <2>3, <2>6 DEF SyncLate
      <3> QED
        BY <2>3, <2>5, <3>1
    <2>9. /\ \A r, q \in sqUp' : r.n = q.n => r = q
          /\ \A r \in sqUp', a \in sqDown' : r.n # a.q.n
      BY <1>1, <2>5, <2>7 DEF SyncWires, SyncFlight
    <2>10. SyncWires'
      BY <1>1, <2>4, <2>5, <2>8, <2>9 DEF SyncWires
    <2>11. SyncSlots'
      <3>1. s = Sync!ServiceOf[sqCall'.req]
        BY <2>2
      <3> QED
        BY <1>3, <3>1 DEF SyncSlots, WrittenInTurn
    <2> QED
      BY <1>1, <1>5, <2>10, <2>11, SyncLastKept
  <1> QED
    BY <1>4, <1>5 DEF Sync!Ask

(* A call returns: with success on the answer that has written its result. *)
LEMMA SyncReturns ==
    ASSUME SyncAnswers, Sync!Answered \/ Sync!GiveUp
    PROVE  SyncWires' /\ SyncSlots' /\ Sync!SuccessIsAnswered'
  <1>1. /\ SyncCalls /\ SyncWires /\ SyncSlots /\ Sync!SuccessIsAnswered
    BY DEF SyncAnswers
  <1>2. /\ Sync!Waits /\ sqCall # Null /\ sqCall' = Null
        /\ UNCHANGED <<sqUp, sqDown, sqCalls, sqResult, sqTaken>>
    BY DEF Sync!Answered, Sync!GiveUp, Sync!Waits
  <1>3. sqCall.n \in 1 .. MaxCalls
    BY <1>1, <1>2 DEF SyncCalls
  <1>4. SyncSlots'
    BY <1>1, <1>2 DEF SyncSlots, Sync!Waits
  <1>5. CASE Sync!GiveUp
    <2>1. sqGivenUp' = sqGivenUp \cup {sqCall.n} /\ ~sqLast'.ok
      BY <1>5 DEF Sync!GiveUp, Sync!Failed
    <2>2. sqGivenUp' \subseteq 1 .. MaxCalls
      BY <1>1, <1>3, <2>1 DEF SyncWires
    <2>3. \A q \in SyncFlight : q = SyncOwn => \E g \in sqGivenUp' : g <= q.n
      BY <1>3, <2>1, BoundsAssumption DEF SyncOwn
    <2>4. SyncWires'
      BY <1>1, <1>2, <2>1, <2>2, <2>3, SyncAllLate
    <2> QED
      BY <1>1, <1>4, <2>1, <2>4, SyncLastKept
  <1>6. CASE Sync!Answered
    <2> PICK s : s = Sync!ServiceOf[sqCall.req]
      OBVIOUS
    <2> PICK a : a = sqTaken[s]
      OBVIOUS
    <2>1. /\ sqResult[s] # "waiting" /\ sqGivenUp' = sqGivenUp
          /\ sqLast' = [req |-> sqCall.req, n |-> sqCall.n, ok |-> sqResult[s] = "ok", by |-> a]
      BY <1>6 DEF Sync!Answered
    <2>2. /\ \/ \A q \in SyncFlight : q.n # sqCall.n
             \/ \E g \in sqGivenUp : g <= sqCall.n
          /\ sqResult[s] = "ok" =>
               /\ a \in [q : Sync!Asked, good : BOOLEAN] /\ a.good
               /\ Sync!ServiceOf[a.q.req] = s
               /\ a.q = SyncOwn \/ SyncLate(a.q.n, sqCall.n)
      BY <1>1, <1>2, <2>1 DEF SyncSlots, WrittenInTurn
    <2>3. \A q \in SyncFlight : q = SyncOwn => \E g \in sqGivenUp' : g <= q.n
      BY <2>1, <2>2 DEF SyncOwn
    <2>4. SyncWires'
      <3>1. sqGivenUp' \subseteq 1 .. MaxCalls
        BY <1>1, <2>1 DEF SyncWires
      <3> QED
        BY <1>1, <1>2, <2>1, <2>3, <3>1, SyncAllLate
    <2>5. ASSUME sqLast'.ok PROVE Sync!SuccessIsAnswered'
      <3>1. sqResult[s] = "ok"
        BY <2>1, <2>5
      <3>2. sqLast'.by = a /\ sqLast'.req = sqCall.req /\ sqLast'.n = sqCall.n
        BY <2>1
      <3>3. a # Null /\ a.good /\ Sync!ServiceOf[a.q.req] = Sync!ServiceOf[sqCall.req]
        BY <2>2, <3>1, NoAnswerAssumption
      <3>4. \/ a.q = [req |-> sqCall.req, n |-> sqCall.n]
            \/ \E g \in sqGivenUp' : g <= a.q.n /\ a.q.n < sqCall.n
        BY <2>1, <2>2, <3>1 DEF SyncLate, SyncOwn
      <3> QED
        BY <3>2, <3>3, <3>4 DEF Sync!SuccessIsAnswered
    <2> QED
      BY <1>4, <2>4, <2>5 DEF Sync!SuccessIsAnswered
  <1> QED
    BY <1>5, <1>6

(* The cloud takes a request, and answers it or not. *)
LEMMA SyncTaken ==
    ASSUME SyncAnswers, NEW q \in sqUp, NEW answers \in BOOLEAN, NEW good \in BOOLEAN,
           Sync!CloudTakes(q, answers, good)
    PROVE  SyncWires' /\ SyncFlight' \subseteq SyncFlight
  <1> PICK new : new = [q |-> q, good |-> good]
    OBVIOUS
  <1>1. /\ sqUp' = sqUp \ {q} /\ sqDown' \subseteq sqDown \cup {new} /\ new.q = q
        /\ UNCHANGED <<sqCall, sqCalls, sqGivenUp>> /\ SyncWires
    BY DEF Sync!CloudTakes, SyncAnswers
  <1>2. new \in [q : Sync!Asked, good : BOOLEAN]
    BY <1>1 DEF SyncWires
  <1>3. SyncFlight' \subseteq SyncFlight
    BY <1>1 DEF SyncFlight
  <1>4. \A p \in SyncFlight' : (Sync!Waits /\ p = SyncOwn)' \/ SyncLate(p.n, SyncEnd)'
    BY <1>1, <1>3 DEF SyncWires, Sync!Waits, SyncOwn, SyncLate, SyncEnd
  <1>5. \A r, p \in sqUp' : r.n = p.n => r = p
    BY <1>1 DEF SyncWires
  <1>6. \A p \in sqUp', a \in sqDown' : p.n # a.q.n
    BY <1>1 DEF SyncWires
  <1>7. \A a, b \in sqDown' : a.q.n = b.q.n => a = b
    BY <1>1 DEF SyncWires
  <1> QED
    BY <1>1, <1>2, <1>3, <1>4, <1>5, <1>6, <1>7 DEF SyncWires

(* An answer writes the result of its service. *)
LEMMA SyncHandled ==
    ASSUME SyncAnswers, NEW a \in sqDown, Sync!HandleAnswer(a)
    PROVE  SyncWires' /\ SyncSlots'
  <1> PICK s : s = Sync!ServiceOf[a.q.req]
    OBVIOUS
  <1>1. /\ sqDown' = sqDown \ {a} /\ UNCHANGED <<sqUp, sqCall, sqCalls, sqGivenUp>>
        /\ sqResult' = [sqResult EXCEPT ![s] = Sync!ResultOf(a)]
        /\ sqTaken' = IF a.good THEN [sqTaken EXCEPT ![s] = a] ELSE sqTaken
    BY DEF Sync!HandleAnswer
  <1>2. SyncWires /\ SyncSlots /\ SyncCalls
    BY DEF SyncAnswers
  <1>3. SyncWires' /\ SyncFlight' \subseteq SyncFlight
    BY <1>1, <1>2, SyncThinned DEF SyncEnd, Sync!Waits, SyncOwn
  <1>4. a \in [q : Sync!Asked, good : BOOLEAN] /\ a.q \in SyncFlight /\ s \in Sync!Services
    BY <1>2, ServiceTypes, SyncFlightTypes DEF SyncWires
  <1>5. /\ sqResult \in [Sync!Services -> {"waiting", "ok", "error"}]
        /\ DOMAIN sqTaken = Sync!Services
    BY <1>2 DEF SyncSlots
  <1>6. /\ a.good => Sync!ResultOf(a) = "ok"
        /\ ~a.good => \/ Sync!ResultOf(a) \in {"waiting", "error"}
                      \/ Sync!ResultOf(a) = sqResult[s] /\ s = "unbind"
    BY DEF Sync!ResultOf
  <1>7. /\ sqResult' \in [Sync!Services -> {"waiting", "ok", "error"}]
        /\ DOMAIN sqTaken' = Sync!Services
    BY <1>1, <1>4, <1>5, <1>6
  <1>8. ASSUME NEW t \in Sync!Services, t # s
        PROVE  sqResult'[t] = sqResult[t] /\ sqTaken'[t] = sqTaken[t]
    BY <1>1, <1>4, <1>5, <1>8
  <1>9. sqResult'[s] = Sync!ResultOf(a) /\ (a.good => sqTaken'[s] = a)
        /\ (~a.good => sqTaken' = sqTaken)
    BY <1>1, <1>4, <1>5
  <1>10. ASSUME Sync!Waits, NEW t \in Sync!Services, WrittenInTurn(t),
                sqResult'[t] = sqResult[t], sqTaken'[t] = sqTaken[t]
         PROVE  WrittenInTurn(t)'
    BY <1>1, <1>3, <1>10 DEF WrittenInTurn, SyncLate, SyncOwn
  <1>11. ASSUME Sync!Waits PROVE WrittenInTurn(Sync!ServiceOf[sqCall.req])'
    <2> PICK t : t = Sync!ServiceOf[sqCall.req]
      OBVIOUS
    <2>1. t \in Sync!Services /\ WrittenInTurn(t) /\ sqCall.req \in Requests
          /\ sqCall.n \in 1 .. MaxCalls
      BY <1>2, <1>11, ServiceTypes DEF SyncSlots, Sync!Waits, SyncCalls
    <2>2. CASE t # s
      BY <1>1, <1>8, <1>10, <1>11, <2>1, <2>2
    <2>3. CASE t = s
      <3>1. (Sync!Waits /\ a.q = SyncOwn) \/ SyncLate(a.q.n, sqCall.n)
        <4>1. SyncEnd = sqCall.n
          BY <1>11 DEF SyncEnd, Sync!Waits
        <4> QED
          BY <1>2, <1>4, <4>1 DEF SyncWires
      <3>2. \/ \A q \in SyncFlight' : q.n # sqCall.n
            \/ \E g \in sqGivenUp : g <= sqCall.n
        <4>1. CASE SyncLate(a.q.n, sqCall.n)
          <5>1. PICK g \in sqGivenUp : g <= a.q.n /\ a.q.n < sqCall.n
            BY <4>1 DEF SyncLate
          <5>2. g \in 1 .. MaxCalls /\ a.q.n \in 1 .. MaxCalls
            BY <1>2, <1>4, SyncFlightTypes DEF SyncWires
          <5>3. g <= sqCall.n
            BY <2>1, <5>1, <5>2, BoundsAssumption
          <5> QED
            BY <5>3
        <4>2. CASE a.q = SyncOwn
          <5> SUFFICES ASSUME NEW q \in SyncFlight', q.n = sqCall.n PROVE FALSE
            OBVIOUS
          <5>1. a.q.n = sqCall.n
            BY <4>2 DEF SyncOwn
          <5>2. CASE q \in sqUp
            BY <1>2, <5>1, <5>2 DEF SyncWires
          <5>3. ASSUME NEW b \in sqDown', q = b.q PROVE FALSE
            BY <1>1, <1>2, <5>1, <5>3 DEF SyncWires
          <5> QED
            BY <1>1, <5>2, <5>3 DEF SyncFlight
        <4> QED
          BY <3>1, <4>1, <4>2
      <3>3. CASE a.good
        BY <1>1, <1>4, <1>9, <2>3, <3>1, <3>2, <3>3 DEF WrittenInTurn, SyncLate, SyncOwn
      <3>4. CASE ~a.good
        <4>1. CASE sqResult'[s] \in {"waiting", "error"}
          BY <1>1, <2>3, <3>2, <4>1 DEF WrittenInTurn
        <4>2. CASE sqResult'[s] = sqResult[s]
          BY <1>1, <1>9, <1>10, <1>11, <2>1, <2>3, <3>4, <4>2
        <4> QED
          BY <1>6, <1>9, <3>4, <4>1, <4>2
      <3> QED
        BY <3>3, <3>4
    <2> QED
      BY <2>2, <2>3
  <1>12. Sync!Waits' => Sync!Waits /\ sqCall' = sqCall
    BY <1>1 DEF Sync!Waits
  <1> QED
    BY <1>3, <1>7, <1>11, <1>12 DEF SyncSlots

LEMMA SyncAnswersNext == SyncAnswers /\ [Sync!Next]_syncVars => SyncAnswers'
  <1> SUFFICES ASSUME SyncAnswers, [Sync!Next]_syncVars PROVE SyncAnswers'
    OBVIOUS
  <1>1. /\ SyncCalls /\ SyncWires /\ SyncSlots /\ Sync!SuccessIsAnswered /\ SyncCalls'
    BY SyncCallsNext DEF SyncAnswers
  <1> SUFFICES SyncWires' /\ SyncSlots' /\ Sync!SuccessIsAnswered'
    BY <1>1 DEF SyncAnswers
  <1>2. ASSUME sqUp' \subseteq sqUp, sqDown' \subseteq sqDown, UNCHANGED <<sqGivenUp, sqLast>>,
               UNCHANGED <<sqResult, sqTaken>>, SyncEnd' = SyncEnd,
               Sync!Waits => sqCall' = sqCall, Sync!Waits' => sqCall' = sqCall
        PROVE  SyncWires' /\ SyncSlots' /\ Sync!SuccessIsAnswered'
    <2>1. (Sync!Waits => Sync!Waits' /\ SyncOwn' = SyncOwn) /\ (Sync!Waits' => Sync!Waits)
      BY <1>2 DEF Sync!Waits, SyncOwn
    <2>2. SyncWires' /\ SyncFlight' \subseteq SyncFlight
      BY <1>1, <1>2, <2>1, SyncThinned
    <2> QED
      BY <1>1, <1>2, <2>1, <2>2, SyncSlotKept, SyncLastKept
  <1>3. ASSUME NEW r \in Requests, Sync!Call(r)
        PROVE  SyncWires' /\ SyncSlots' /\ Sync!SuccessIsAnswered'
    <2>1. /\ sqCall = Null /\ sqCall'.n = sqCalls + 1 /\ sqCall'.phase \in {"subscribe", "ask"}
          /\ UNCHANGED <<sqUp, sqDown, sqGivenUp, sqLast, sqResult, sqTaken>>
          /\ sqCalls' = sqCalls + 1
      BY <1>3 DEF Sync!Call
    <2>2. sqCall' # Null
      <3>1. sqCall' = [req |-> r, n |-> sqCalls + 1, tries |-> 0,
                       phase |-> IF Sync!NeedsTopic(r) THEN "subscribe" ELSE "ask"]
        BY <1>3 DEF Sync!Call
      <3>2. sqCalls + 1 \in 1 .. MaxCalls
        BY <1>1, <1>3, BoundsAssumption DEF SyncCalls, Sync!Call
      <3> QED
        BY <3>1, <3>2, NoAnswerAssumption
    <2>3. SyncEnd' = SyncEnd
      BY <2>1, <2>2 DEF SyncEnd
    <2>4. ~Sync!Waits /\ ~Sync!Waits'
      BY <2>1 DEF Sync!Waits
    <2> QED
      BY <1>2, <2>1, <2>3, <2>4
  <1>4. CASE Sync!Subscribe \/ Sync!Subscribed
    <2>1. /\ sqCall # Null /\ sqCall.phase = "subscribe" /\ sqCalls' = sqCalls
          /\ UNCHANGED <<sqUp, sqDown, sqGivenUp, sqLast, sqResult, sqTaken>>
          /\ \/ sqCall' = [sqCall EXCEPT !.tries = @ + 1]
             \/ sqCall' = [sqCall EXCEPT !.phase = "ask"]
      BY <1>4 DEF Sync!Subscribe, Sync!Subscribed
    <2>2. /\ sqCall \in [req : Requests, n : 1 .. MaxCalls, tries : Nat,
                         phase : {"subscribe", "ask", "wait"}]
          /\ sqCall.n = sqCalls
      BY <1>1, <2>1 DEF SyncCalls
    <2>3. sqCall'.n = sqCall.n /\ sqCall'.phase # "wait"
      BY <2>1, <2>2
    <2>4. ~Sync!Waits /\ ~Sync!Waits'
      BY <2>1, <2>3 DEF Sync!Waits
    <2>5. sqCall' # Null
      <3>1. sqCall' \in [req : Requests, n : 1 .. MaxCalls, tries : Nat,
                         phase : {"subscribe", "ask", "wait"}]
        BY <2>1, <2>2
      <3> QED
        BY <3>1, NoAnswerAssumption
    <2>6. SyncEnd' = SyncEnd
      BY <2>1, <2>3, <2>5 DEF SyncEnd
    <2> QED
      BY <1>2, <2>1, <2>4, <2>6
  <1>5. CASE Sync!SubscribeFails
    <2>1. /\ sqCall # Null /\ sqCall' = Null /\ ~Sync!Waits /\ ~Sync!Waits' /\ ~sqLast'.ok
          /\ UNCHANGED <<sqUp, sqDown, sqCalls, sqGivenUp, sqResult, sqTaken>>
      BY <1>5 DEF Sync!SubscribeFails, Sync!Failed, Sync!Waits
    <2>2. sqGivenUp' \subseteq 1 .. MaxCalls /\ SyncFlight' = SyncFlight
      BY <1>1, <2>1 DEF SyncWires, SyncFlight
    <2>3. SyncWires'
      BY <1>1, <2>1, <2>2, SyncAllLate
    <2> QED
      BY <1>1, <2>1, <2>2, <2>3, SyncSlotKept, SyncLastKept
  <1>6. CASE Sync!Ask
    BY <1>1, <1>6, SyncAsks
  <1>7. CASE Sync!Answered \/ Sync!GiveUp
    BY <1>7, SyncReturns
  <1>8. ASSUME NEW q \in sqUp, NEW answers \in BOOLEAN, NEW good \in BOOLEAN,
               Sync!CloudTakes(q, answers, good)
        PROVE  SyncWires' /\ SyncSlots' /\ Sync!SuccessIsAnswered'
    <2>1. UNCHANGED <<sqGivenUp, sqLast, sqResult, sqTaken, sqCall>>
      BY <1>8 DEF Sync!CloudTakes
    <2>2. SyncWires' /\ SyncFlight' \subseteq SyncFlight
      BY <1>8, SyncTaken
    <2>3. Sync!Waits' => Sync!Waits
      BY <2>1 DEF Sync!Waits
    <2> QED
      BY <1>1, <2>1, <2>2, <2>3, SyncSlotKept, SyncLastKept
  <1>9. ASSUME NEW a \in sqDown, Sync!HandleAnswer(a)
        PROVE  SyncWires' /\ SyncSlots' /\ Sync!SuccessIsAnswered'
    <2>1. UNCHANGED <<sqGivenUp, sqLast>>
      BY <1>9 DEF Sync!HandleAnswer
    <2> QED
      BY <1>1, <1>9, <2>1, SyncHandled, SyncLastKept
  <1>10. CASE \/ Sync!Enable \/ UNCHANGED syncVars
              \/ \E t \in Sync!Topics : Sync!SubAck(t) \/ Sync!SubTimeout(t)
    <2>1. UNCHANGED <<sqUp, sqDown, sqCall, sqCalls, sqGivenUp, sqLast, sqResult, sqTaken>>
      BY <1>10 DEF Sync!Enable, Sync!SubAck, Sync!SubTimeout, syncVars
    <2> QED
      BY <1>2, <2>1 DEF SyncEnd
  <1> QED
    BY <1>3, <1>4, <1>5, <1>6, <1>7, <1>8, <1>9, <1>10 DEF Sync!Next, Sync!InCall

----------------------------------------------------------------------------
(* Resources. *)

LEMMA ResourceInit == Resource!Init => ResourceInv
  <1> SUFFICES ASSUME Resource!Init PROVE ResourceInv
    OBVIOUS
  <1>1. rsState \in [Resource!Kinds -> {"inited", "start", "end", "disconnected"}]
    BY DEF Resource!Init
  <1>2. [name |-> Null, url |-> Null] \in [name : Nat \cup {Null}, url : Nat \cup {Null}]
    OBVIOUS
  <1>3. rsInfo \in [Resource!Kinds -> [name : Nat \cup {Null}, url : Nat \cup {Null}]]
    BY <1>2 DEF Resource!Init
  <1>4. rsTasks \in Nat /\ rsDown = {} /\ \A k \in Resource!Kinds : rsState[k] # "start"
    BY DEF Resource!Init
  <1> QED
    BY <1>1, <1>3, <1>4 DEF ResourceInv

(* A started transfer keeps its task through this step, or its record is cleared. *)
TaskKept ==
    \A k \in Resource!Kinds : rsState[k] = "start" =>
        rsInfo'[k] = rsInfo[k] \/ rsInfo'[k].name = Null

(* Nothing is started, and no record is changed. *)
LEMMA NoneStarted ==
    ASSUME ResourceInv, rsInfo' = rsInfo, rsTasks' = rsTasks,
           rsState' = rsState \/ \E k \in Resource!Kinds, s \in {"inited", "end", "disconnected"} :
                                     rsState' = [rsState EXCEPT ![k] = s],
           \A m \in rsDown' : m.type = "task" => m \in rsDown
    PROVE  ResourceInv' /\ TaskKept
  <1>1. rsState \in [Resource!Kinds -> {"inited", "start", "end", "disconnected"}]
    BY DEF ResourceInv
  <1>2. /\ rsState' \in [Resource!Kinds -> {"inited", "start", "end", "disconnected"}]
        /\ \A k \in Resource!Kinds : rsState'[k] = "start" => rsState[k] = "start"
    BY <1>1
  <1> QED
    BY <1>2 DEF ResourceInv, TaskKept

(* The record of a transfer is cleared. *)
LEMMA RecordCleared ==
    ASSUME ResourceInv, NEW k \in Resource!Kinds, NEW s \in {"inited", "end"},
           rsState' = [rsState EXCEPT ![k] = s],
           rsInfo' = [rsInfo EXCEPT ![k] = [name |-> Null, url |-> Null]],
           rsDown' = rsDown, rsTasks' = rsTasks
    PROVE  ResourceInv' /\ TaskKept
  <1>1. /\ rsState \in [Resource!Kinds -> {"inited", "start", "end", "disconnected"}]
        /\ rsInfo \in [Resource!Kinds -> [name : Nat \cup {Null}, url : Nat \cup {Null}]]
    BY DEF ResourceInv
  <1>2. [name |-> Null, url |-> Null] \in [name : Nat \cup {Null}, url : Nat \cup {Null}]
    OBVIOUS
  <1>3. /\ rsState' \in [Resource!Kinds -> {"inited", "start", "end", "disconnected"}]
        /\ rsInfo' \in [Resource!Kinds -> [name : Nat \cup {Null}, url : Nat \cup {Null}]]
    BY <1>1, <1>2
  <1>4. /\ rsInfo'[k].name = Null /\ rsState'[k] # "start"
        /\ \A j \in Resource!Kinds \ {k} : rsState'[j] = rsState[j] /\ rsInfo'[j] = rsInfo[j]
    BY <1>1
  <1>5. TaskKept
    BY <1>4 DEF TaskKept
  <1> QED
    BY <1>3, <1>4, <1>5 DEF ResourceInv

LEMMA TaskHandled ==
    ASSUME ResourceInv, NEW m \in rsDown, Resource!HandleTask(m)
    PROVE  ResourceInv' /\ TaskKept
  <1>1. /\ rsState \in [Resource!Kinds -> {"inited", "start", "end", "disconnected"}]
        /\ rsInfo \in [Resource!Kinds -> [name : Nat \cup {Null}, url : Nat \cup {Null}]]
        /\ m.task \in Nat
    BY DEF ResourceInv, Resource!HandleTask
  <1>2. rsDown' \subseteq rsDown /\ rsTasks' = rsTasks
    BY DEF Resource!HandleTask, Resource!rsHistory
  <1>3. CASE Resource!Starts(m)
    <2>1. /\ rsState[m.kind] = "inited" /\ rsState' = [rsState EXCEPT ![m.kind] = "start"]
          /\ rsInfo' = [rsInfo EXCEPT ![m.kind] = [name |-> m.task, url |-> m.task]]
      BY <1>3 DEF Resource!HandleTask, Resource!Starts
    <2>2. [name |-> m.task, url |-> m.task] \in [name : Nat \cup {Null}, url : Nat \cup {Null}]
      BY <1>1
    <2>3. /\ rsState' \in [Resource!Kinds -> {"inited", "start", "end", "disconnected"}]
          /\ rsInfo' \in [Resource!Kinds -> [name : Nat \cup {Null}, url : Nat \cup {Null}]]
      BY <1>1, <2>1, <2>2
    <2>4. /\ m.kind \in Resource!Kinds => rsInfo'[m.kind] = [name |-> m.task, url |-> m.task]
          /\ \A j \in Resource!Kinds \ {m.kind} : rsState'[j] = rsState[j] /\ rsInfo'[j] = rsInfo[j]
      BY <1>1, <2>1
    <2>5. TaskKept
      BY <2>1, <2>4 DEF TaskKept
    <2>6. \A k \in Resource!Kinds : rsState'[k] = "start" =>
              rsInfo'[k].name \in Nat /\ rsInfo'[k].url = rsInfo'[k].name
      <3> TAKE k \in Resource!Kinds
      <3>1. CASE k = m.kind
        BY <1>1, <2>4, <3>1
      <3>2. CASE k # m.kind
        BY <2>4, <3>2 DEF ResourceInv
      <3> QED
        BY <3>1, <3>2
    <2> QED
      BY <1>2, <2>3, <2>5, <2>6 DEF ResourceInv
  <1>4. CASE ~Resource!Starts(m)
    <2>1. /\ rsState' = rsState
          /\ \/ rsInfo' = rsInfo
             \/ rsState[m.kind] = "inited" /\ rsInfo' = [rsInfo EXCEPT ![m.kind].name = m.task]
      BY <1>4 DEF Resource!HandleTask
    <2>2. CASE rsInfo' = rsInfo
      BY <1>2, <2>1, <2>2, NoneStarted
    <2>3. CASE rsState[m.kind] = "inited" /\ rsInfo' = [rsInfo EXCEPT ![m.kind].name = m.task]
      <3>1. \A j \in Resource!Kinds \ {m.kind} : rsInfo'[j] = rsInfo[j]
        BY <1>1, <2>3
      <3>2. m.kind \in Resource!Kinds =>
                [rsInfo[m.kind] EXCEPT !.name = m.task] \in [name : Nat \cup {Null}, url : Nat \cup {Null}]
        BY <1>1
      <3>3. rsInfo' \in [Resource!Kinds -> [name : Nat \cup {Null}, url : Nat \cup {Null}]]
        BY <1>1, <2>3, <3>2
      <3>4. TaskKept
        BY <2>3, <3>1 DEF TaskKept
      <3>5. \A k \in Resource!Kinds : rsState[k] = "start" => k # m.kind
        BY <2>3
      <3> QED
        BY <1>2, <2>1, <3>1, <3>3, <3>4, <3>5 DEF ResourceInv
    <2> QED
      BY <2>1, <2>2, <2>3
  <1> QED
    BY <1>3, <1>4

(* Every step keeps the invariant, and the task of a transfer that is started. *)
LEMMA ResourceNext == ResourceInv /\ [Resource!Next]_resourceVars => ResourceInv' /\ TaskKept
  <1> SUFFICES ASSUME ResourceInv, [Resource!Next]_resourceVars PROVE ResourceInv' /\ TaskKept
    OBVIOUS
  <1> DEFINE Kept == /\ rsInfo' = rsInfo /\ rsTasks' = rsTasks
                     /\ rsState' = rsState \/ \E k \in Resource!Kinds, s \in {"inited", "end", "disconnected"} :
                                                  rsState' = [rsState EXCEPT ![k] = s]
                     /\ \A m \in rsDown' : m.type = "task" => m \in rsDown
             Cleared == /\ rsDown' = rsDown /\ rsTasks' = rsTasks
                        /\ \E k \in Resource!Kinds, s \in {"inited", "end"} :
                               /\ rsState' = [rsState EXCEPT ![k] = s]
                               /\ rsInfo' = [rsInfo EXCEPT ![k] = [name |-> Null, url |-> Null]]
  <1>1. Kept => ResourceInv' /\ TaskKept
    BY NoneStarted
  <1>2. Cleared => ResourceInv' /\ TaskKept
    BY RecordCleared
  <1>3. "down" \in Resource!Kinds /\ "up" \in Resource!Kinds
    BY DEF Resource!Kinds
  <1>4. ASSUME NEW k \in Resource!Kinds, NEW whole \in BOOLEAN, Resource!CloudStarts(k, whole)
        PROVE  ResourceInv' /\ TaskKept
    <2> DEFINE n == [type |-> "task", kind |-> k, task |-> rsTasks + 1, whole |-> whole]
    <2>1. /\ rsTasks' = rsTasks + 1 /\ rsDown' = rsDown \cup {n}
          /\ rsState' = rsState /\ rsInfo' = rsInfo
      BY <1>4 DEF Resource!CloudStarts, Resource!rsTransfer
    <2>2. n.task = rsTasks + 1
      OBVIOUS
    <2> HIDE DEF n
    <2>3. rsTasks' \in Nat /\ n.task \in Nat \ {0}
      BY <2>1, <2>2 DEF ResourceInv
    <2> QED
      BY <2>1, <2>3 DEF ResourceInv, TaskKept
  <1>5. ASSUME NEW r \in rsUp, NEW code \in {"ok", "error"}, Resource!CloudAnswers(r, code)
        PROVE  ResourceInv' /\ TaskKept
    <2>1. Kept
      BY <1>5 DEF Resource!CloudAnswers, Resource!rsTransfer, Resource!rsHistory
    <2> QED
      BY <1>1, <2>1
  <1>6. ASSUME NEW m \in rsDown, Resource!HandleTask(m) PROVE ResourceInv' /\ TaskKept
    BY <1>6, TaskHandled
  <1>7. ASSUME NEW m \in rsDown, Resource!HandleAnswer(m) PROVE ResourceInv' /\ TaskKept
    <2>1. Kept
      BY <1>7 DEF Resource!HandleAnswer
    <2> QED
      BY <1>1, <2>1
  <1>8. ASSUME Resource!ReportDownloadResult \/ Resource!DownloadRefused \/ Resource!Md5CheckFails
        PROVE  ResourceInv' /\ TaskKept
    <2>1. Resource!ResetDownload /\ rsDown' = rsDown /\ rsTasks' = rsTasks
      BY <1>8 DEF Resource!ReportDownloadResult, Resource!DownloadRefused, Resource!Md5CheckFails,
                  Resource!ReportDownload
    <2>2. Cleared
      BY <1>3, <2>1 DEF Resource!ResetDownload
    <2> QED
      BY <1>2, <2>2
  <1>9. ASSUME Resource!ReportReturns PROVE ResourceInv' /\ TaskKept
    <2>1. /\ rsState' = [rsState EXCEPT !["up"] = IF rsReport.receive THEN "end" ELSE "inited"]
          /\ rsInfo' = [rsInfo EXCEPT !["up"] = [name |-> Null, url |-> Null]]
          /\ rsDown' = rsDown /\ rsTasks' = rsTasks
      BY <1>9 DEF Resource!ReportReturns
    <2>2. CASE rsReport.receive
      BY <1>2, <1>3, <2>1, <2>2
    <2>3. CASE ~rsReport.receive
      BY <1>2, <1>3, <2>1, <2>3
    <2> QED
      BY <2>2, <2>3
  <1>10. ASSUME Resource!ReportUploadResult \/ Resource!ReportWithoutName PROVE Kept
    BY <1>3, <1>10 DEF Resource!ReportUploadResult, Resource!ReportWithoutName, Resource!rsHistory
  <1>11. ASSUME \/ \E resume \in BOOLEAN : Resource!StartDownload(resume)
                \/ \E progress \in BOOLEAN : Resource!DownloadYield(progress) \/ Resource!UploadYield(progress)
         PROVE Kept
    BY <1>3, <1>11 DEF Resource!StartDownload, Resource!DownloadYield, Resource!UploadYield,
       Resource!rsHistory
  <1>12. ASSUME \/ Resource!DownloadFails \/ \E k \in Resource!Kinds : Resource!IsStart(k)
                \/ Resource!StartUpload
         PROVE Kept
    BY <1>3, <1>12 DEF Resource!DownloadFails, Resource!IsStart, Resource!StartUpload,
       Resource!rsHistory
  <1>13. ASSUME Resource!ReceiveFails \/ \E closed \in BOOLEAN : Resource!SendFails(closed)
         PROVE Kept
    BY <1>3, <1>13 DEF Resource!ReceiveFails, Resource!SendFails
  <1>14. ASSUME Resource!Restart PROVE ResourceInv' /\ TaskKept
    <2>1. /\ rsState' = [k \in Resource!Kinds |-> "inited"]
          /\ rsInfo' = [k \in Resource!Kinds |-> [name |-> Null, url |-> Null]]
          /\ rsDown' = rsDown /\ rsTasks' = rsTasks
      BY <1>14 DEF Resource!Restart
    <2>2. [name |-> Null, url |-> Null] \in [name : Nat \cup {Null}, url : Nat \cup {Null}]
      OBVIOUS
    <2>3. /\ rsState' \in [Resource!Kinds -> {"inited", "start", "end", "disconnected"}]
          /\ rsInfo' \in [Resource!Kinds -> [name : Nat \cup {Null}, url : Nat \cup {Null}]]
      BY <2>1, <2>2
    <2>4. \A k \in Resource!Kinds : rsState'[k] # "start" /\ rsInfo'[k].name = Null
      BY <2>1
    <2> QED
      BY <2>1, <2>3, <2>4 DEF ResourceInv, TaskKept
  <1>15. ASSUME UNCHANGED resourceVars PROVE Kept
    BY <1>15 DEF resourceVars
  <1> QED
    BY <1>1, <1>4, <1>5, <1>6, <1>7, <1>8, <1>9, <1>10, <1>11, <1>12, <1>13, <1>14, <1>15
       DEF Resource!Next

----------------------------------------------------------------------------
(* What resources store, and the answers to their reports: the proof. *)

LEMMA ResourceAllInit == Resource!Init => ResourceAll
  <1> SUFFICES ASSUME Resource!Init PROVE ResourceAll
    OBVIOUS
  <1>1. "down" \in Resource!Kinds /\ "up" \in Resource!Kinds
    BY DEF Resource!Kinds
  <1>2. <<>> \in Seq((Nat \cup {Null}) \X Nat) /\ Len(<<>>) = 0
    OBVIOUS
  <1>3. rsFile = [task |-> Null, units |-> <<>>]
    BY DEF Resource!Init
  <1>4. DownTypes
    BY <1>2, <1>3 DEF DownTypes, Resource!Init
  <1>5. StoredPart
    BY <1>2, <1>3, SizeAssumption DEF StoredPart
  <1>6. DigestGoesOn /\ Resource!ChecksumOfFile
    BY <1>1 DEF DigestGoesOn, Resource!ChecksumOfFile, Resource!Init
  <1>7. ResourceAnswers
    BY <1>1 DEF ResourceAnswers, Resource!SuccessIsAnswered, Resource!Init
  <1> QED
    BY <1>4, <1>5, <1>6, <1>7, ResourceInit DEF ResourceAll, ResourceStored

(* A step that leaves the download alone. *)
LEMMA DownKept ==
    ASSUME ResourceStored, UNCHANGED <<rsFile, rsDigest>>,
           rsChannel' \in [Resource!Kinds -> {Null, "open", "closed"}],
           \/ rsChannel'["down"] = rsChannel["down"]
           \/ rsChannel["down"] # Null /\ rsState["down"] = "start",
           rsState'["down"] = rsState["down"],
           rsState["down"] # "inited" => rsInfo'["down"] = rsInfo["down"]
    PROVE  ResourceStored'
  <1>1. DownTypes' /\ StoredPart'
    BY DEF ResourceStored, DownTypes, StoredPart
  <1>2. DigestGoesOn'
    BY DEF ResourceStored, DigestGoesOn
  <1>3. Resource!ChecksumOfFile'
    BY DEF ResourceStored, Resource!ChecksumOfFile
  <1> QED
    BY <1>1, <1>2, <1>3 DEF ResourceStored

(* The download is forgotten; what was stored stays. *)
LEMMA DownForgotten ==
    ASSUME ResourceStored, UNCHANGED rsFile,
           rsChannel' \in [Resource!Kinds -> {Null, "open", "closed"}],
           rsChannel'["down"] = Null, rsState'["down"] = "inited"
    PROVE  ResourceStored'
  BY DEF ResourceStored, DownTypes, StoredPart, DigestGoesOn, Resource!ChecksumOfFile

(* A download starts, from the begin or with what was stored of its task. *)
LEMMA DownStarts ==
    ASSUME ResourceInv, ResourceStored, NEW resume \in BOOLEAN, Resource!StartDownload(resume)
    PROVE  ResourceStored'
  <1>1. DownTypes /\ StoredPart /\ DigestGoesOn /\ "down" \in Resource!Kinds
    BY DEF ResourceStored, Resource!Kinds
  <1>2. /\ rsState["down"] = "start" /\ rsChannel["down"] # "open"
        /\ UNCHANGED <<rsState, rsInfo>>
        /\ rsFile' = IF resume THEN rsFile ELSE [task |-> rsInfo["down"].url, units |-> <<>>]
        /\ \E c \in {"open", "closed"} : rsChannel' = [rsChannel EXCEPT !["down"] = c]
        /\ resume => rsFile.task = rsInfo["down"].url /\ rsFile.units # <<>>
    BY DEF Resource!StartDownload, Resource!IsStarted
  <1>3. rsChannel' \in [Resource!Kinds -> {Null, "open", "closed"}]
    BY <1>1, <1>2 DEF DownTypes
  <1>4. CASE resume
    <2>1. rsFile' = rsFile /\ Len(rsFile.units) # 0 /\ rsFile.task = rsInfo["down"].url
      BY <1>1, <1>2, <1>4 DEF DownTypes
    <2>2. rsDigest' = IF rsChannel["down"] = Null THEN rsFile.units ELSE rsDigest
      BY <1>4, <2>1 DEF Resource!StartDownload, Resource!DigestAtStart
    <2>3. rsDigest' = rsFile.units
      BY <1>1, <1>2, <2>2 DEF DigestGoesOn
    <2> QED
      BY <1>1, <1>2, <1>3, <2>1, <2>3
         DEF ResourceStored, DownTypes, StoredPart, DigestGoesOn, Resource!ChecksumOfFile
  <1>5. CASE ~resume
    <2>1. rsFile' = [task |-> rsInfo["down"].url, units |-> <<>>]
      BY <1>2, <1>5
    <2>2. rsInfo["down"].url \in Nat \cup {Null}
      BY <1>1 DEF ResourceInv
    <2>3. <<>> \in Seq((Nat \cup {Null}) \X Nat) /\ Len(<<>>) = 0
      OBVIOUS
    <2>4. DownTypes'
      BY <1>3, <2>1, <2>2, <2>3 DEF DownTypes
    <2>5. StoredPart'
      BY <2>1, <2>3, SizeAssumption DEF StoredPart
    <2>6. rsDigest' = <<>>
      BY <1>5 DEF Resource!StartDownload, Resource!DigestAtStart
    <2>7. DigestGoesOn' /\ Resource!ChecksumOfFile'
      BY <1>2, <2>1, <2>6 DEF DigestGoesOn, Resource!ChecksumOfFile
    <2> QED
      BY <2>4, <2>5, <2>7 DEF ResourceStored
  <1> QED
    BY <1>4, <1>5

(* The next unit of a file that is a part of its task, from the begin. *)
LEMMA UnitAdded ==
    ASSUME NEW S, NEW order, NEW s \in Seq(S), s = [i \in 1 .. Len(s) |-> <<order, i - 1>>],
           <<order, Len(s)>> \in S
    PROVE  /\ Append(s, <<order, Len(s)>>) \in Seq(S)
           /\ Len(Append(s, <<order, Len(s)>>)) = Len(s) + 1
           /\ Append(s, <<order, Len(s)>>) = [i \in 1 .. Len(s) + 1 |-> <<order, i - 1>>]
  <1> DEFINE t == Append(s, <<order, Len(s)>>)
  <1>1. t \in Seq(S) /\ Len(t) = Len(s) + 1 /\ Len(s) \in Nat
    OBVIOUS
  <1>2. \A i \in 1 .. Len(s) : t[i] = s[i] /\ s[i] = <<order, i - 1>>
    OBVIOUS
  <1>3. t[Len(s) + 1] = <<order, Len(s)>>
    OBVIOUS
  <1>4. DOMAIN t = 1 .. Len(s) + 1
    BY <1>1
  <1>5. \A i \in 1 .. Len(s) + 1 : t[i] = <<order, i - 1>>
    <2> SUFFICES ASSUME NEW i \in 1 .. Len(s) + 1 PROVE t[i] = <<order, i - 1>>
      OBVIOUS
    <2>1. CASE i \in 1 .. Len(s)
      BY <1>2, <2>1
    <2>2. CASE i = Len(s) + 1
      <3>1. i - 1 = Len(s)
        BY <1>1, <2>2
      <3> QED
        BY <1>3, <2>2, <3>1
    <2> QED
      BY <1>1, <2>1, <2>2
  <1>6. t = [i \in 1 .. Len(s) + 1 |-> t[i]]
    BY <1>1, <1>4
  <1> QED
    BY <1>1, <1>5, <1>6

(* A unit comes: file and checksum grow by the same. *)
LEMMA DownGrows ==
    ASSUME ResourceInv, ResourceStored, NEW progress \in BOOLEAN, Resource!DownloadYield(progress)
    PROVE  ResourceStored'
  <1> PICK n : n = Len(rsFile.units)
    OBVIOUS
  <1> PICK unit : unit = <<rsInfo["down"].url, n>>
    OBVIOUS
  <1>1. DownTypes /\ StoredPart /\ DigestGoesOn /\ "down" \in Resource!Kinds
    BY DEF ResourceStored, Resource!Kinds
  <1>2. /\ rsState["down"] = "start" /\ rsChannel["down"] = "open" /\ n < Size
        /\ rsFile' = [rsFile EXCEPT !.units = Append(@, unit)]
        /\ rsDigest' = IF rsDigest = Null THEN Null ELSE Append(rsDigest, unit)
        /\ rsState' = IF n + 1 = Size THEN [rsState EXCEPT !["down"] = "end"] ELSE rsState
        /\ UNCHANGED <<rsInfo, rsChannel>>
    BY DEF Resource!DownloadYield, Resource!IsStarted
  <1>3. rsChannel["down"] # Null
    BY <1>2, NoAnswerAssumption
  <1>4. /\ rsFile.units \in Seq((Nat \cup {Null}) \X Nat) /\ n \in Nat
        /\ rsFile.task = rsInfo["down"].url /\ rsFile.task \in Nat /\ rsInfo["down"].name = rsFile.task
        /\ rsDigest = rsFile.units
    BY <1>1, <1>2, <1>3 DEF DownTypes, DigestGoesOn, ResourceInv
  <1>5. unit \in (Nat \cup {Null}) \X Nat /\ unit = <<rsFile.task, n>>
    BY <1>4
  <1>6. rsDigest' = Append(rsFile.units, unit)
    BY <1>2, <1>4, NoAnswerAssumption
  <1>7. rsFile' = [task |-> rsFile.task, units |-> Append(rsFile.units, unit)]
    BY <1>1, <1>2 DEF DownTypes
  <1>8. rsFile'.task = rsFile.task /\ rsFile'.units = Append(rsFile.units, unit)
    BY <1>7
  <1>9. /\ Append(rsFile.units, unit) \in Seq((Nat \cup {Null}) \X Nat)
        /\ Len(Append(rsFile.units, unit)) = n + 1
    BY <1>4, <1>5
  <1>10. Append(rsFile.units, unit) = [i \in 1 .. n + 1 |-> <<rsFile.task, i - 1>>]
    <2> DEFINE s == rsFile.units
    <2>1. /\ s \in Seq((Nat \cup {Null}) \X Nat) /\ s = [i \in 1 .. Len(s) |-> <<rsFile.task, i - 1>>]
          /\ <<rsFile.task, Len(s)>> \in (Nat \cup {Null}) \X Nat
      BY <1>1, <1>4, <1>5 DEF StoredPart
    <2> HIDE DEF s
    <2>2. /\ Append(s, <<rsFile.task, Len(s)>>) \in Seq((Nat \cup {Null}) \X Nat)
          /\ Len(Append(s, <<rsFile.task, Len(s)>>)) = Len(s) + 1
          /\ Append(s, <<rsFile.task, Len(s)>>) = [i \in 1 .. Len(s) + 1 |-> <<rsFile.task, i - 1>>]
      BY <2>1, UnitAdded
    <2> QED
      BY <1>5, <2>2 DEF s
  <1>11. DownTypes'
    BY <1>1, <1>2, <1>4, <1>7, <1>9 DEF DownTypes
  <1>12. StoredPart'
    <2>1. n + 1 <= Size
      BY <1>2, <1>4, SizeAssumption
    <2> QED
      BY <1>8, <1>9, <1>10, <2>1 DEF StoredPart
  <1>13. rsState'["down"] \in {"start", "end"} /\ (rsState'["down"] = "end" => n + 1 = Size)
    BY <1>1, <1>2 DEF ResourceInv
  <1>14. DigestGoesOn'
    BY <1>2, <1>4, <1>6, <1>8, <1>13 DEF DigestGoesOn
  <1>15. Resource!ChecksumOfFile'
    <2>1. n + 1 = Size => rsFile'.units = [i \in 1 .. Size |-> <<rsFile.task, i - 1>>]
      BY <1>8, <1>10
    <2> QED
      BY <1>2, <1>4, <1>6, <1>8, <1>13, <2>1 DEF Resource!ChecksumOfFile, Resource!Units
  <1> QED
    BY <1>11, <1>12, <1>14, <1>15 DEF ResourceStored

LEMMA StoredNext == ResourceInv /\ ResourceStored /\ [Resource!Next]_resourceVars => ResourceStored'
  <1> SUFFICES ASSUME ResourceInv, ResourceStored, [Resource!Next]_resourceVars
               PROVE  ResourceStored'
    OBVIOUS
  <1>1. /\ "down" \in Resource!Kinds /\ "up" \in Resource!Kinds
        /\ rsChannel \in [Resource!Kinds -> {Null, "open", "closed"}]
        /\ rsState \in [Resource!Kinds -> {"inited", "start", "end", "disconnected"}]
        /\ rsInfo \in [Resource!Kinds -> [name : Nat \cup {Null}, url : Nat \cup {Null}]]
    BY DEF Resource!Kinds, ResourceStored, DownTypes, ResourceInv
  <1>2. ASSUME UNCHANGED <<rsFile, rsDigest, rsInfo>>,
               rsChannel' = rsChannel \/ \E c \in {Null, "open", "closed"} :
                                             rsChannel' = [rsChannel EXCEPT !["up"] = c],
               rsState' = rsState \/ \E s \in {"inited", "start", "end", "disconnected"} :
                                         rsState' = [rsState EXCEPT !["up"] = s]
        PROVE  ResourceStored'
    BY <1>1, <1>2, DownKept
  <1>3. ASSUME NEW m \in rsDown, Resource!HandleTask(m) PROVE ResourceStored'
    <2>1. UNCHANGED <<rsFile, rsDigest, rsChannel>>
      BY <1>3 DEF Resource!HandleTask
    <2>2. CASE m.kind # "down"
      <3>1. rsState'["down"] = rsState["down"] /\ rsInfo'["down"] = rsInfo["down"]
        BY <1>1, <1>3, <2>2 DEF Resource!HandleTask
      <3> QED
        BY <1>1, <2>1, <3>1, DownKept
    <2>3. CASE m.kind = "down" /\ Resource!Starts(m)
      <3>1. rsState["down"] = "inited" /\ rsState'["down"] = "start"
        BY <1>1, <1>3, <2>3 DEF Resource!HandleTask, Resource!Starts
      <3>2. rsChannel'["down"] = Null
        BY <2>1, <3>1 DEF ResourceStored, DigestGoesOn
      <3> QED
        BY <2>1, <3>1, <3>2
           DEF ResourceStored, DownTypes, StoredPart, DigestGoesOn, Resource!ChecksumOfFile
    <2>4. CASE m.kind = "down" /\ ~Resource!Starts(m)
      <3>1. /\ rsState' = rsState
            /\ rsState["down"] # "inited" => rsInfo'["down"] = rsInfo["down"]
        BY <1>1, <1>3, <2>4 DEF Resource!HandleTask
      <3> QED
        BY <1>1, <2>1, <3>1, DownKept
    <2> QED
      BY <2>2, <2>3, <2>4
  <1>4. CASE Resource!ReportDownloadResult \/ Resource!DownloadRefused \/ Resource!Md5CheckFails
    <2>1. Resource!ResetDownload /\ rsFile' = rsFile
      BY <1>4 DEF Resource!ReportDownloadResult, Resource!DownloadRefused, Resource!Md5CheckFails,
                  Resource!ReportDownload
    <2>2. /\ rsChannel' = [rsChannel EXCEPT !["down"] = Null]
          /\ rsState' = [rsState EXCEPT !["down"] = "inited"]
      BY <2>1 DEF Resource!ResetDownload
    <2> QED
      BY <1>1, <2>1, <2>2, DownForgotten
  <1>5. CASE Resource!Restart
    <2>1. /\ rsFile' = rsFile /\ rsState' = [k \in Resource!Kinds |-> "inited"]
          /\ rsChannel' = [k \in Resource!Kinds |-> Null]
      BY <1>5 DEF Resource!Restart
    <2> QED
      BY <1>1, <2>1, DownForgotten
  <1>6. CASE Resource!DownloadFails
    <2>1. /\ rsChannel["down"] = "open" /\ rsState["down"] = "start"
          /\ rsChannel' = [rsChannel EXCEPT !["down"] = "closed"]
          /\ UNCHANGED <<rsFile, rsDigest, rsInfo, rsState>>
      BY <1>6 DEF Resource!DownloadFails, Resource!IsStarted
    <2> QED
      BY <1>1, <2>1, NoAnswerAssumption, DownKept
  <1>7. ASSUME NEW resume \in BOOLEAN, Resource!StartDownload(resume) PROVE ResourceStored'
    BY <1>7, DownStarts
  <1>8. ASSUME NEW progress \in BOOLEAN, Resource!DownloadYield(progress) PROVE ResourceStored'
    BY <1>8, DownGrows
  <1>9. CASE Resource!ReportReturns
    <2>1. UNCHANGED <<rsFile, rsDigest>>
      BY <1>9 DEF Resource!ReportReturns
    <2>2. /\ rsChannel' \in [Resource!Kinds -> {Null, "open", "closed"}]
          /\ rsChannel'["down"] = rsChannel["down"] /\ rsState'["down"] = rsState["down"]
          /\ rsInfo'["down"] = rsInfo["down"]
      BY <1>1, <1>9 DEF Resource!ReportReturns
    <2> QED
      BY <2>1, <2>2, DownKept
  <1>10. CASE \/ \E k \in Resource!Kinds, whole \in BOOLEAN : Resource!CloudStarts(k, whole)
              \/ \E r \in rsUp, code \in {"ok", "error"} : Resource!CloudAnswers(r, code)
              \/ \E m \in rsDown : Resource!HandleAnswer(m)
              \/ Resource!ReportUploadResult \/ Resource!ReportWithoutName
              \/ UNCHANGED resourceVars
    <2>1. /\ UNCHANGED <<rsFile, rsDigest, rsInfo, rsChannel>>
          /\ rsState' = rsState \/ rsState' = [rsState EXCEPT !["up"] = "inited"]
      BY <1>10 DEF Resource!CloudStarts, Resource!CloudAnswers, Resource!HandleAnswer,
         Resource!ReportUploadResult, Resource!ReportWithoutName, Resource!rsTransfer, resourceVars
    <2> QED
      BY <1>2, <2>1
  <1>11. CASE \/ \E progress \in BOOLEAN : Resource!UploadYield(progress)
              \/ \E k \in Resource!Kinds : Resource!IsStart(k)
              \/ Resource!ReceiveFails \/ \E closed \in BOOLEAN : Resource!SendFails(closed)
    <2>1. /\ UNCHANGED <<rsFile, rsDigest, rsInfo, rsChannel>>
          /\ rsState' = rsState \/ rsState' = [rsState EXCEPT !["up"] = "end"]
      BY <1>11 DEF Resource!UploadYield, Resource!IsStart, Resource!ReceiveFails, Resource!SendFails
    <2> QED
      BY <1>2, <2>1
  <1>12. CASE Resource!StartUpload
    <2>1. /\ UNCHANGED <<rsFile, rsDigest, rsInfo>>
          /\ \E c \in {"open", "closed"} : rsChannel' = [rsChannel EXCEPT !["up"] = c]
          /\ rsState' = rsState \/ rsState' = [rsState EXCEPT !["up"] = "disconnected"]
      BY <1>12 DEF Resource!StartUpload
    <2> QED
      BY <1>2, <2>1
  <1> QED
    BY <1>3, <1>4, <1>5, <1>6, <1>7, <1>8, <1>9, <1>10, <1>11, <1>12 DEF Resource!Next

(* Reports go up with the task of their record while none waits, and no answer comes down. *)
LEMMA ReportsKept ==
    ASSUME ResourceInv, ResourceAnswers, rsResult' \in [Resource!Kinds -> {"ok", "waiting", "error"}],
           \A m \in rsDown' : m.type = "answer" => m \in rsDown,
           UNCHANGED <<rsReport, rsTaken, rsLast>>,
           \/ rsUp' = rsUp /\ rsResult'["up"] = rsResult["up"]
           \/ /\ rsReport = Null
              /\ rsUp' = rsUp \/ \E k \in Resource!Kinds, what \in {"progress", "result"} :
                                     rsUp' = rsUp \cup {Resource!Report(k, what)}
    PROVE  ResourceAnswers'
  <1>1. \A m \in rsDown' : m.type = "answer" => m \in ReportAnswer /\ m.to.kind = m.kind
    BY DEF ResourceAnswers
  <1>2. rsUp' \subseteq Resource!Reports
    <2>1. ASSUME NEW k \in Resource!Kinds, NEW what \in {"progress", "result"}
          PROVE  Resource!Report(k, what) \in Resource!Reports
      BY DEF ResourceInv, Resource!Report, Resource!Reports
    <2> QED
      BY <2>1 DEF ResourceAnswers
  <1>3. Resource!SuccessIsAnswered'
    BY DEF ResourceAnswers, Resource!SuccessIsAnswered
  <1>4. CASE rsReport = Null
    BY <1>1, <1>2, <1>3, <1>4 DEF ResourceAnswers
  <1>5. CASE rsReport # Null
    <2>1. rsUp' = rsUp /\ rsResult'["up"] = rsResult["up"] /\ OwnReport' = OwnReport
      BY <1>5 DEF OwnReport
    <2>2. (rsReport # Null /\ rsResult["up"] # "waiting" =>
               rsTaken # Null /\ rsTaken.code = rsResult["up"])'
      BY <2>1 DEF ResourceAnswers
    <2>3. (rsReport # Null /\ ~rsReport.shared =>
              /\ \A r \in rsUp : r.kind = "up" => r = OwnReport
              /\ \A m \in rsDown : m.type = "answer" /\ m.kind = "up" => m.to = OwnReport
              /\ rsTaken # Null => rsTaken.to = OwnReport)'
      BY <2>1 DEF ResourceAnswers
    <2> QED
      BY <1>1, <1>2, <1>3, <1>5, <2>2, <2>3 DEF ResourceAnswers
  <1> QED
    BY <1>4, <1>5

(* A report begins: when no other is under way, what is is its own. *)
LEMMA ReportBegun ==
    ASSUME ResourceInv, ResourceAnswers, rsReport = Null,
           Resource!BeginReport(TRUE) \/ Resource!BeginReport(FALSE),
           UNCHANGED <<rsDown, rsTaken, rsLast>>
    PROVE  ResourceAnswers'
  <1>1. /\ "up" \in Resource!Kinds
        /\ rsResult \in [Resource!Kinds -> {"ok", "waiting", "error"}]
    BY DEF Resource!Kinds, ResourceAnswers
  <1>2. /\ rsResult' = [rsResult EXCEPT !["up"] = "waiting"]
        /\ rsUp' = rsUp \cup {Resource!Report("up", "result")}
        /\ rsReport'.task = rsInfo["up"].name /\ rsReport'.shared = Resource!OthersUnderWay
    BY DEF Resource!BeginReport, Resource!ResultCleared, Resource!Published
  <1>3. /\ rsResult' \in [Resource!Kinds -> {"ok", "waiting", "error"}]
        /\ rsResult'["up"] = "waiting"
    BY <1>1, <1>2
  <1>4. Resource!Report("up", "result") \in Resource!Reports
    BY <1>1 DEF ResourceInv, Resource!Report, Resource!Reports
  <1>5. Resource!Report("up", "result") = OwnReport'
    BY <1>2 DEF Resource!Report, OwnReport
  <1>6. rsTaken' = Null
    BY DEF ResourceAnswers
  <1>7. ASSUME ~rsReport'.shared
        PROVE  /\ \A r \in rsUp' : r.kind = "up" => r = OwnReport'
               /\ \A m \in rsDown' : m.type = "answer" /\ m.kind = "up" => m.to = OwnReport'
    BY <1>2, <1>5, <1>7 DEF Resource!OthersUnderWay
  <1>8. rsUp' \subseteq Resource!Reports
    BY <1>2, <1>4 DEF ResourceAnswers
  <1>9. Resource!SuccessIsAnswered'
    BY DEF ResourceAnswers, Resource!SuccessIsAnswered
  <1>10. \A m \in rsDown' : m.type = "answer" => m \in ReportAnswer /\ m.to.kind = m.kind
    BY DEF ResourceAnswers
  <1> QED
    BY <1>3, <1>6, <1>7, <1>8, <1>9, <1>10 DEF ResourceAnswers

LEMMA ReportAnswersNext == ResourceInv /\ ResourceAnswers /\ [Resource!Next]_resourceVars => ResourceAnswers'
  <1> SUFFICES ASSUME ResourceInv, ResourceAnswers, [Resource!Next]_resourceVars
               PROVE  ResourceAnswers'
    OBVIOUS
  <1>1. /\ "down" \in Resource!Kinds /\ "up" \in Resource!Kinds
        /\ rsResult \in [Resource!Kinds -> {"ok", "waiting", "error"}]
    BY DEF Resource!Kinds, ResourceAnswers
  <1>2. ASSUME NEW k \in Resource!Kinds, NEW whole \in BOOLEAN, Resource!CloudStarts(k, whole)
        PROVE  ResourceAnswers'
    <2>1. /\ UNCHANGED <<rsResult, rsUp, rsReport, rsTaken, rsLast>>
          /\ rsDown' = rsDown \cup {[type |-> "task", kind |-> k, task |-> rsTasks + 1, whole |-> whole]}
      BY <1>2 DEF Resource!CloudStarts, Resource!rsTransfer
    <2>2. \A m \in rsDown' : m.type = "answer" => m \in rsDown
      BY <2>1
    <2> QED
      BY <1>1, <2>1, <2>2, ReportsKept
  <1>3. ASSUME NEW r \in rsUp, NEW code \in {"ok", "error"}, Resource!CloudAnswers(r, code)
        PROVE  ResourceAnswers'
    <2> PICK new : new = [type |-> "answer", kind |-> r.kind, to |-> r, code |-> code]
      OBVIOUS
    <2>1. /\ UNCHANGED <<rsResult, rsReport, rsTaken, rsLast>>
          /\ rsUp' \subseteq rsUp /\ rsDown' = rsDown \cup {new}
      BY <1>3 DEF Resource!CloudAnswers, Resource!rsTransfer, Resource!rsHistory
    <2>2. r \in Resource!Reports /\ r.kind \in Resource!Kinds
      BY DEF ResourceAnswers, Resource!Reports
    <2>3. new \in ReportAnswer /\ new.to = r /\ new.kind = r.kind
      BY <2>2 DEF ReportAnswer
    <2>4. OwnReport' = OwnReport
      BY <2>1 DEF OwnReport
    <2>5. ASSUME rsReport' # Null, ~rsReport'.shared
          PROVE  /\ \A s \in rsUp' : s.kind = "up" => s = OwnReport'
                 /\ \A m \in rsDown' : m.type = "answer" /\ m.kind = "up" => m.to = OwnReport'
                 /\ rsTaken' # Null => rsTaken'.to = OwnReport'
      BY <2>1, <2>3, <2>4, <2>5 DEF ResourceAnswers
    <2>6. \A m \in rsDown' : m.type = "answer" => m \in ReportAnswer /\ m.to.kind = m.kind
      BY <2>1, <2>3 DEF ResourceAnswers
    <2>7. Resource!SuccessIsAnswered'
      BY <2>1 DEF ResourceAnswers, Resource!SuccessIsAnswered
    <2> QED
      BY <2>1, <2>5, <2>6, <2>7 DEF ResourceAnswers
  <1>4. ASSUME NEW m \in rsDown, Resource!HandleAnswer(m) PROVE ResourceAnswers'
    <2>1. /\ m.type = "answer" /\ rsDown' \subseteq rsDown /\ UNCHANGED <<rsUp, rsReport, rsLast>>
          /\ rsResult' = [rsResult EXCEPT ![m.kind] = m.code]
          /\ rsTaken' = IF m.kind = "up" /\ rsReport # Null THEN m ELSE rsTaken
      BY <1>4 DEF Resource!HandleAnswer, Resource!Idle
    <2>2. m \in ReportAnswer /\ m # Null
      BY <2>1, NoAnswerAssumption DEF ResourceAnswers, ReportAnswer
    <2>3. m.kind \in Resource!Kinds /\ m.code \in {"ok", "error"}
      BY <2>2 DEF ReportAnswer
    <2>4. rsResult' \in [Resource!Kinds -> {"ok", "waiting", "error"}]
      BY <1>1, <2>1, <2>3
    <2>5. \/ m.kind = "up" /\ rsResult'["up"] = m.code
          \/ m.kind # "up" /\ rsResult'["up"] = rsResult["up"] /\ rsTaken' = rsTaken
      BY <1>1, <2>1
    <2>6. OwnReport' = OwnReport
      BY <2>1 DEF OwnReport
    <2>7. (rsReport # Null /\ rsResult["up"] # "waiting" =>
               rsTaken # Null /\ rsTaken.code = rsResult["up"])'
      BY <2>1, <2>2, <2>5 DEF ResourceAnswers
    <2>8. ASSUME rsReport' # Null, ~rsReport'.shared
          PROVE  /\ \A s \in rsUp' : s.kind = "up" => s = OwnReport'
                 /\ \A a \in rsDown' : a.type = "answer" /\ a.kind = "up" => a.to = OwnReport'
                 /\ rsTaken' # Null => rsTaken'.to = OwnReport'
      BY <2>1, <2>6, <2>8 DEF ResourceAnswers
    <2>9. rsReport' = Null => rsTaken' = Null
      BY <2>1 DEF ResourceAnswers
    <2>10. \A a \in rsDown' : a.type = "answer" => a \in ReportAnswer /\ a.to.kind = a.kind
      BY <2>1 DEF ResourceAnswers
    <2>11. Resource!SuccessIsAnswered'
      BY <2>1 DEF ResourceAnswers, Resource!SuccessIsAnswered
    <2>12. rsUp' \subseteq Resource!Reports
      BY <2>1 DEF ResourceAnswers
    <2> QED
      BY <2>4, <2>7, <2>8, <2>9, <2>10, <2>11, <2>12 DEF ResourceAnswers
  <1>5. ASSUME NEW m \in rsDown, Resource!HandleTask(m) PROVE ResourceAnswers'
    <2>1. UNCHANGED <<rsResult, rsUp, rsReport, rsTaken, rsLast>> /\ rsDown' \subseteq rsDown
      BY <1>5 DEF Resource!HandleTask, Resource!rsHistory
    <2> QED
      BY <1>1, <2>1, ReportsKept
  <1>6. CASE Resource!ReportReturns
    <2>1. /\ UNCHANGED <<rsUp, rsDown>> /\ rsReport' = Null /\ rsReport # Null /\ rsTaken' = Null
          /\ rsResult' = [rsResult EXCEPT !["up"] = "ok"]
          /\ rsLast' = IF rsResult["up"] = "ok"
                       THEN [task |-> rsReport.task, shared |-> rsReport.shared, by |-> rsTaken]
                       ELSE Null
      BY <1>6 DEF Resource!ReportReturns, Resource!Succeeds
    <2>2. rsResult' \in [Resource!Kinds -> {"ok", "waiting", "error"}]
      BY <1>1, <2>1
    <2>3. ASSUME rsLast' # Null
          PROVE  /\ rsLast'.by # Null /\ rsLast'.by.code = "ok"
                 /\ \/ rsLast'.shared
                    \/ rsLast'.by.to = [kind |-> "up", task |-> rsLast'.task, what |-> "result"]
      <3>1. /\ rsResult["up"] = "ok" /\ rsLast'.by = rsTaken
            /\ rsLast'.shared = rsReport.shared /\ rsLast'.task = rsReport.task
        BY <2>1, <2>3
      <3>2. rsTaken # Null /\ rsTaken.code = "ok"
        BY <2>1, <3>1 DEF ResourceAnswers
      <3>3. ~rsReport.shared => rsTaken.to = OwnReport
        BY <2>1, <3>2 DEF ResourceAnswers
      <3> QED
        BY <3>1, <3>2, <3>3 DEF OwnReport
    <2>4. Resource!SuccessIsAnswered'
      BY <2>3 DEF Resource!SuccessIsAnswered
    <2> QED
      BY <2>1, <2>2, <2>4 DEF ResourceAnswers
  <1>7. CASE Resource!ReportDownloadResult \/ Resource!DownloadRefused \/ Resource!Md5CheckFails
    <2>1. Resource!ReportDownload /\ rsReport = Null /\ UNCHANGED <<rsReport, rsDown, rsTaken, rsLast>>
      BY <1>7 DEF Resource!ReportDownloadResult, Resource!DownloadRefused, Resource!Md5CheckFails,
         Resource!Idle, Resource!IsStarted
    <2>2. /\ rsResult' = [rsResult EXCEPT !["down"] = "ok"]
          /\ \/ rsUp' = rsUp \cup {Resource!Report("down", "result")}
             \/ rsUp' = rsUp
      BY <2>1 DEF Resource!ReportDownload, Resource!ResetDownload, Resource!Published
    <2>3. rsResult' \in [Resource!Kinds -> {"ok", "waiting", "error"}]
      BY <1>1, <2>2
    <2> QED
      BY <1>1, <2>1, <2>2, <2>3, ReportsKept
  <1>8. CASE \/ Resource!ReportUploadResult \/ Resource!ReceiveFails
             \/ \E closed \in BOOLEAN : Resource!SendFails(closed)
    <2>1. UNCHANGED <<rsDown, rsTaken, rsLast>> /\ rsReport = Null
      BY <1>8 DEF Resource!ReportUploadResult, Resource!ReceiveFails, Resource!SendFails,
         Resource!Sending, Resource!IsStarted, Resource!Idle
    <2>2. \/ Resource!BeginReport(TRUE) \/ Resource!BeginReport(FALSE)
          \/ UNCHANGED <<rsResult, rsReport, rsUp>>
      BY <1>8 DEF Resource!ReportUploadResult, Resource!ReceiveFails, Resource!SendFails
    <2>3. CASE UNCHANGED <<rsResult, rsReport, rsUp>>
      BY <1>1, <2>1, <2>3, ReportsKept
    <2> QED
      BY <2>1, <2>2, <2>3, ReportBegun
  <1>9. ASSUME rsReport = Null, UNCHANGED <<rsReport, rsUp, rsDown, rsTaken, rsLast>>,
               NEW k \in Resource!Kinds, rsResult' = [rsResult EXCEPT ![k] = "ok"]
         PROVE  ResourceAnswers'
    <2>1. rsResult' \in [Resource!Kinds -> {"ok", "waiting", "error"}]
      BY <1>1, <1>9
    <2> QED
      BY <1>9, <2>1, ReportsKept
  <1>10. CASE \/ Resource!ReportWithoutName \/ Resource!StartUpload
              \/ \E resume \in BOOLEAN : Resource!StartDownload(resume)
              \/ \E k \in Resource!Kinds : Resource!IsStart(k)
    <2>1. /\ rsReport = Null /\ UNCHANGED <<rsReport, rsUp, rsDown, rsTaken, rsLast>>
          /\ \E k \in Resource!Kinds : rsResult' = [rsResult EXCEPT ![k] = "ok"]
      BY <1>1, <1>10 DEF Resource!ReportWithoutName, Resource!StartUpload, Resource!StartDownload,
         Resource!IsStart, Resource!IsStarted, Resource!Idle, Resource!rsHistory
    <2> QED
      BY <1>9, <2>1
  <1>11. CASE \E progress \in BOOLEAN : Resource!DownloadYield(progress) \/ Resource!UploadYield(progress)
    <2>1. /\ rsReport = Null /\ UNCHANGED <<rsResult, rsReport, rsDown, rsTaken, rsLast>>
          /\ rsUp' = rsUp \/ \E k \in Resource!Kinds :
                                 rsUp' = rsUp \cup {Resource!Report(k, "progress")}
      BY <1>1, <1>11 DEF Resource!DownloadYield, Resource!UploadYield, Resource!Published,
         Resource!rsHistory, Resource!Sending, Resource!IsStarted, Resource!Idle
    <2> QED
      BY <1>1, <2>1, ReportsKept
  <1>12. CASE Resource!DownloadFails \/ UNCHANGED resourceVars
    <2>1. UNCHANGED <<rsResult, rsReport, rsUp, rsDown, rsTaken, rsLast>>
      BY <1>12 DEF Resource!DownloadFails, resourceVars
    <2> QED
      BY <1>1, <2>1, ReportsKept
  <1>13. CASE Resource!Restart
    <2>1. /\ rsReport = Null /\ UNCHANGED <<rsReport, rsUp, rsDown, rsTaken, rsLast>>
          /\ rsResult' = [k \in Resource!Kinds |-> "ok"]
      BY <1>13 DEF Resource!Restart, Resource!Idle
    <2>2. rsResult' \in [Resource!Kinds -> {"ok", "waiting", "error"}]
      BY <2>1
    <2> QED
      BY <2>1, <2>2, ReportsKept
  <1> QED
    BY <1>2, <1>3, <1>4, <1>5, <1>6, <1>7, <1>8, <1>10, <1>11, <1>12, <1>13 DEF Resource!Next

LEMMA ResourceAllNext == ResourceAll /\ [Resource!Next]_resourceVars => ResourceAll' /\ TaskKept
  BY ResourceNext, StoredNext, ReportAnswersNext DEF ResourceAll
-----------------------------------------------------------------------------
(* The list of nodes (LinkedList): its pointers are those of a sequence of      *)
(* items, which is the history the module keeps.                              *)

(* A set of numbers has a least one: what fails somewhere fails somewhere first. *)
LEMMA LeastOf == ASSUME NEW X \in SUBSET Nat, X # {} PROVE \E x \in X : \A y \in X : x <= y
  <1> DEFINE R == {ss \in Nat \X Nat : ss[1] < ss[2]}
  <1>1. IsWellFoundedOn(R, Nat)
    BY NatLessThanWellFounded DEF OpToRel
  <1>2. \A x, y \in Nat : x < y => <<x, y>> \in R
    OBVIOUS
  <1> HIDE DEF R
  <1>3. PICK x \in X : \A y \in X : ~(<<y, x>> \in R)
    BY <1>1, WFMin, Zenon
  <1>4. \A y \in X : ~(y < x)
    BY <1>2, <1>3
  <1> QED
    BY <1>4

\* What a pointer of a node may be, and a node.
Link == ListNodes \cup {Null}
Cell == [prev : Link, next : Link, val : Values]
\* The neighbours of an item.
After(s, i)  == IF i < Len(s) THEN s[i + 1] ELSE Null
Before(s, i) == IF i > 1 THEN s[i - 1] ELSE Null

\* No node is twice among the items.
Distinct(s) == \A i, j \in 1 .. Len(s) : s[i] = s[j] => i = j

\* The ranges of the variables.
ListTypes ==
    /\ llNode \in [ListNodes -> Cell \cup {Null}]
    /\ llItems \in Seq(ListNodes) /\ Distinct(llItems)
    /\ llList \in [head : Link, tail : Link, len : Nat] \cup {Null}
    /\ llIter \in [next : Link, direction : {"head", "tail"}] \cup {Null}

\* Both pointers of each item are those of its neighbours, and the list has its ends.
Chained(node, list, s) ==
    /\ list.len = Len(s) /\ list.head = After(s, 0) /\ list.tail = Before(s, Len(s) + 1)
    /\ \A i \in 1 .. Len(s) : /\ node[s[i]] # Null
                              /\ node[s[i]].next = After(s, i) /\ node[s[i]].prev = Before(s, i)

(* There are no more items than nodes. *)
LEMMA ItemsBounded ==
    ASSUME NEW w \in Seq(ListNodes), Distinct(w)
    PROVE  /\ Lists!Cardinality(ListNodes) \in Nat
           /\ Len(w) <= Lists!Cardinality(ListNodes)
  <1>1. Lists!Cardinality(ListNodes) = Cardinality(ListNodes)
    BY DEF Lists!Cardinality, Cardinality
  <1>2. w \in Injection(1 .. Len(w), ListNodes)
    BY DEF Injection, IsInjective, Distinct
  <1>3. Cardinality(1 .. Len(w)) = Len(w)
    <2>1. Len(w) \in Int /\ Len(w) >= 0 /\ 1 \in Int
      OBVIOUS
    <2>2. Cardinality(1 .. Len(w)) = IF 1 > Len(w) THEN 0 ELSE Len(w) - 1 + 1
      BY <2>1, FS_Interval
    <2> QED
      BY <2>1, <2>2
  <1> QED
    BY <1>1, <1>2, <1>3, FS_Injection, FS_CardinalityType, ListAssumption

(* A walk whose pointers lead from each node of w to the next is w. *)
LEMMA WalkIs ==
    ASSUME Null \notin ListNodes, NEW w \in Seq(ListNodes), Lists!Cardinality(ListNodes) \in Nat,
           Len(w) <= Lists!Cardinality(ListNodes), NEW d,
           \A i \in 1 .. Len(w) : llNode[w[i]] # Null /\ Lists!Behind(w[i], d) = After(w, i)
    PROVE  Lists!Walk(After(w, 0), d) = w
  <1> DEFINE C == Lists!Cardinality(ListNodes)
             Step(f) == [k \in 0 .. C |-> IF k = 0 THEN After(w, 0)
                            ELSE IF f[k - 1] = Null \/ llNode[f[k - 1]] = Null THEN Null
                            ELSE Lists!Behind(f[k - 1], d)]
             W[k \in 0 .. C] == IF k = 0 THEN After(w, 0)
                            ELSE IF W[k - 1] = Null \/ llNode[W[k - 1]] = Null THEN Null
                            ELSE Lists!Behind(W[k - 1], d)
             G == [k \in 0 .. C |-> After(w, k)]
             last == CHOOSE k \in 0 .. C : /\ W[k] = Null \/ k = C
                                           /\ \A j \in 0 .. k - 1 : W[j] # Null
  <1>1. Lists!Walk(After(w, 0), d) = [i \in 1 .. last |-> W[i - 1]]
    BY DEF Lists!Walk
  <1>2. G = Step(G)
    <2> SUFFICES ASSUME NEW k \in 0 .. C PROVE G[k] = Step(G)[k]
      OBVIOUS
    <2>1. CASE k = 0
      BY <2>1
    <2>2. CASE k > 0
      BY <2>2 DEF After
    <2> QED
      BY <2>1, <2>2
  <1>3. W = Step(W)
    BY <1>2
  <1> HIDE DEF W
  <1>4. W = G
    <2> DEFINE X == {k \in 0 .. C : W[k] # G[k]}
    <2>1. ASSUME X # {} PROVE FALSE
      <3>0. X \in SUBSET Nat
        OBVIOUS
      <3> HIDE DEF X
      <3>1. PICK k \in X : \A l \in X : k <= l
        BY <2>1, <3>0, LeastOf
      <3>2. k \in 0 .. C /\ W[k] # G[k]
        BY DEF X
      <3>3. W[k] = Step(W)[k] /\ G[k] = Step(G)[k]
        BY <1>2, <1>3
      <3>4. CASE k = 0
        BY <3>2, <3>3, <3>4
      <3>5. CASE k > 0
        <4>1. k - 1 \in 0 .. C /\ k - 1 \notin X
          BY <3>0, <3>1, <3>2, <3>5
        <4>2. W[k - 1] = G[k - 1]
          BY <4>1 DEF X
        <4> HIDE DEF G
        <4> QED
          BY <3>2, <3>3, <3>5, <4>2
      <3> QED
        BY <3>2, <3>4, <3>5
    <2>2. \A k \in 0 .. C : W[k] = G[k]
      BY <2>1
    <2>3. DOMAIN W = 0 .. C /\ W = [k \in 0 .. C |-> W[k]]
      BY <1>3
    <2> HIDE DEF G
    <2>4. G = [k \in 0 .. C |-> G[k]]
      BY DEF G
    <2> QED
      BY <2>2, <2>3, <2>4
  <1>5. last = Len(w)
    BY <1>4 DEF After
  <1>6. \A i \in 1 .. Len(w) : W[i - 1] = w[i]
    BY <1>4 DEF After
  <1> HIDE DEF last, G
  <1>7. [i \in 1 .. last |-> W[i - 1]] = [i \in 1 .. Len(w) |-> w[i]]
    BY <1>5, <1>6
  <1>8. w = [i \in 1 .. Len(w) |-> w[i]]
    OBVIOUS
  <1> QED
    BY <1>1, <1>7, <1>8

\* The pointers are those of the items until the list is destroyed, and its nodes with it.
ListChain ==
    IF llList # Null THEN Chained(llNode, llList, llItems)
    ELSE llIter = Null /\ \A i \in 1 .. Len(llItems) : llNode[llItems[i]] = Null

\* A scan has a place among the items: it has no more to return behind it, and has returned
\* none of those ahead of it.
ScanPlace ==
    IF llIter.direction = "head"
    THEN \E p \in 1 .. Len(llItems) + 1 :
            /\ llIter.next = After(llItems, p - 1)
            /\ \A i \in 1 .. Len(llItems) : i < p => llItems[i] \notin llMissed
            /\ \A i \in 1 .. Len(llItems) : i >= p => llItems[i] \notin llSeen
    ELSE \E p \in 0 .. Len(llItems) :
            /\ llIter.next = Before(llItems, p + 1)
            /\ \A i \in 1 .. Len(llItems) : i > p => llItems[i] \notin llMissed
            /\ \A i \in 1 .. Len(llItems) : i <= p => llItems[i] \notin llSeen

Scanning ==
    /\ llMissed \subseteq Lists!InList /\ llSeen \subseteq Lists!InList
    /\ llCurrent \in llSeen \cup {Null}
    /\ ScanPlace

ListInv == ListTypes /\ ListChain /\ (llIter # Null => Scanning)

(* From item p on the pointers lead through the rest of the items. *)
LEMMA WalkFromHead ==
    ASSUME ListInv, llList # Null, NEW p \in 1 .. Len(llItems) + 1
    PROVE  Lists!Walk(After(llItems, p - 1), "head")
             = [i \in 1 .. Len(llItems) + 1 - p |-> llItems[p - 1 + i]]
  <1> DEFINE n == Len(llItems) + 1 - p
             w == [i \in 1 .. n |-> llItems[p - 1 + i]]
  <1>1. llItems \in Seq(ListNodes) /\ Distinct(llItems) /\ Len(llItems) \in Nat /\ n \in Nat
    BY DEF ListInv, ListTypes
  <1>2. \A i \in 1 .. n : p - 1 + i \in 1 .. Len(llItems) /\ w[i] = llItems[p - 1 + i]
    BY <1>1
  <1>3. w \in Seq(ListNodes) /\ Len(w) = n
    BY <1>1
  <1> HIDE DEF w
  <1>4. Distinct(w)
    <2> SUFFICES ASSUME NEW i \in 1 .. Len(w), NEW j \in 1 .. Len(w), w[i] = w[j] PROVE i = j
      BY DEF Distinct
    <2>1. llItems[p - 1 + i] = llItems[p - 1 + j] /\ p - 1 + i \in 1 .. Len(llItems) /\ p - 1 + j \in 1 .. Len(llItems)
      BY <1>2, <1>3
    <2>2. p - 1 + i = p - 1 + j
      BY <1>1, <2>1 DEF Distinct
    <2> QED
      BY <1>1, <1>3, <2>2
  <1>5. \A i \in 1 .. Len(w) : llNode[w[i]] # Null /\ Lists!Behind(w[i], "head") = After(w, i)
    <2> SUFFICES ASSUME NEW i \in 1 .. n
                 PROVE  llNode[w[i]] # Null /\ Lists!Behind(w[i], "head") = After(w, i)
      BY <1>3
    <2> DEFINE k == p - 1 + i
    <2>1. k \in 1 .. Len(llItems) /\ w[i] = llItems[k]
      BY <1>2
    <2>2. llNode[llItems[k]] # Null /\ llNode[llItems[k]].next = After(llItems, k)
      BY <2>1 DEF ListInv, ListChain, Chained
    <2>3. After(llItems, k) = After(w, i)
      <3>1. CASE i = n
        <4>1. ~(i < Len(w)) /\ ~(k < Len(llItems))
          BY <1>1, <1>3, <3>1
        <4> QED
          BY <4>1 DEF After
      <3>2. CASE i < n
        <4>1. i < Len(w) /\ k < Len(llItems) /\ i + 1 \in 1 .. n /\ p - 1 + (i + 1) = k + 1
          BY <1>1, <1>3, <3>2
        <4>2. w[i + 1] = llItems[k + 1]
          BY <1>2, <4>1
        <4> QED
          BY <4>1, <4>2 DEF After
      <3> QED
        BY <1>1, <3>1, <3>2
    <2> QED
      BY <2>1, <2>2, <2>3 DEF Lists!Behind
  <1>6. After(w, 0) = After(llItems, p - 1)
    BY <1>1, <1>2, <1>3 DEF After
  <1>7. Lists!Walk(After(w, 0), "head") = w
    BY <1>3, <1>4, <1>5, ItemsBounded, WalkIs, ListAssumption
  <1> QED
    BY <1>6, <1>7 DEF w

LEMMA WalkFromTail ==
    ASSUME ListInv, llList # Null, NEW p \in 0 .. Len(llItems)
    PROVE  Lists!Walk(Before(llItems, p + 1), "tail") = [i \in 1 .. p |-> llItems[p + 1 - i]]
  <1> DEFINE w == [i \in 1 .. p |-> llItems[p + 1 - i]]
  <1>1. llItems \in Seq(ListNodes) /\ Distinct(llItems) /\ Len(llItems) \in Nat /\ p \in Nat
    BY DEF ListInv, ListTypes
  <1>2. \A i \in 1 .. p : p + 1 - i \in 1 .. Len(llItems) /\ w[i] = llItems[p + 1 - i]
    BY <1>1
  <1>3. w \in Seq(ListNodes) /\ Len(w) = p
    BY <1>1
  <1> HIDE DEF w
  <1>4. Distinct(w)
    <2> SUFFICES ASSUME NEW i \in 1 .. Len(w), NEW j \in 1 .. Len(w), w[i] = w[j] PROVE i = j
      BY DEF Distinct
    <2>1. llItems[p + 1 - i] = llItems[p + 1 - j] /\ p + 1 - i \in 1 .. Len(llItems) /\ p + 1 - j \in 1 .. Len(llItems)
      BY <1>2, <1>3
    <2>2. p + 1 - i = p + 1 - j
      BY <1>1, <2>1 DEF Distinct
    <2> QED
      BY <1>1, <1>3, <2>2
  <1>5. \A i \in 1 .. Len(w) : llNode[w[i]] # Null /\ Lists!Behind(w[i], "tail") = After(w, i)
    <2> SUFFICES ASSUME NEW i \in 1 .. p
                 PROVE  llNode[w[i]] # Null /\ Lists!Behind(w[i], "tail") = After(w, i)
      BY <1>3
    <2> DEFINE k == p + 1 - i
    <2>1. k \in 1 .. Len(llItems) /\ w[i] = llItems[k]
      BY <1>2
    <2>2. llNode[llItems[k]] # Null /\ llNode[llItems[k]].prev = Before(llItems, k)
      BY <2>1 DEF ListInv, ListChain, Chained
    <2>3. Before(llItems, k) = After(w, i)
      BY <1>1, <1>2, <1>3 DEF After, Before
    <2> QED
      BY <2>1, <2>2, <2>3 DEF Lists!Behind
  <1>6. After(w, 0) = Before(llItems, p + 1)
    BY <1>1, <1>2, <1>3 DEF After, Before
  <1>7. Lists!Walk(After(w, 0), "tail") = w
    BY <1>3, <1>4, <1>5, ItemsBounded, WalkIs, ListAssumption
  <1> QED
    BY <1>6, <1>7 DEF w

(* Read from either end the pointers give the items. *)
LEMMA ListWalks ==
    ASSUME ListInv, llList # Null
    PROVE  /\ Lists!Walk(llList.head, "head") = llItems
           /\ Lists!Walk(llList.tail, "tail") = Lists!Reverse(llItems)
           /\ llList.len = Len(llItems)
  <1>1. /\ llItems \in Seq(ListNodes) /\ Len(llItems) \in Nat /\ llList.len = Len(llItems)
        /\ llList.head = After(llItems, 0) /\ llList.tail = Before(llItems, Len(llItems) + 1)
    BY DEF ListInv, ListTypes, ListChain, Chained
  <1>2. Lists!Walk(llList.head, "head") = [i \in 1 .. Len(llItems) |-> llItems[i]]
    <2>1. Lists!Walk(After(llItems, 1 - 1), "head")
            = [i \in 1 .. Len(llItems) + 1 - 1 |-> llItems[1 - 1 + i]]
      BY <1>1, WalkFromHead
    <2>2. [i \in 1 .. Len(llItems) + 1 - 1 |-> llItems[1 - 1 + i]] = [i \in 1 .. Len(llItems) |-> llItems[i]]
      BY <1>1
    <2> QED
      BY <1>1, <2>1, <2>2
  <1>3. llItems = [i \in 1 .. Len(llItems) |-> llItems[i]]
    BY <1>1
  <1>4. Lists!Walk(llList.tail, "tail") = Lists!Reverse(llItems)
    BY <1>1, WalkFromTail DEF Lists!Reverse
  <1> QED
    BY <1>1, <1>2, <1>3, <1>4

(* What the invariant says of walks, searches and scans. *)
LEMMA ListMeans == ListInv => Lists!IsSequence /\ Lists!FindsItem /\ Lists!ScanWhole
  <1> SUFFICES ASSUME ListInv PROVE Lists!IsSequence /\ Lists!FindsItem /\ Lists!ScanWhole
    OBVIOUS
  <1>1. llItems \in Seq(ListNodes) /\ Len(llItems) \in Nat /\ DOMAIN llItems = 1 .. Len(llItems)
    BY DEF ListInv, ListTypes
  <1>2. Lists!IsSequence
    <2>1. CASE llList = Null
      BY <1>1, <2>1 DEF ListInv, ListChain, Lists!IsSequence, Lists!InList
    <2>2. CASE llList # Null
      BY <2>2, ListWalks DEF Lists!IsSequence
    <2> QED
      BY <2>1, <2>2
  <1>3. Lists!FindsItem
    <2> SUFFICES ASSUME llList # Null PROVE Lists!FindsItem
      BY DEF Lists!FindsItem
    <2>1. /\ Lists!Walk(llList.head, "head") = llItems
          /\ Lists!Walk(llList.tail, "tail") = Lists!Reverse(llItems)
          /\ llList.len = Len(llItems)
      BY ListWalks
    <2>2. ASSUME NEW v \in Values
          PROVE  LET hits == {i \in DOMAIN llItems : llNode[llItems[i]].val = v}
                 IN  Lists!Find(v) = IF hits = {} THEN Null
                                     ELSE llItems[CHOOSE i \in hits : \A j \in hits : i <= j]
      <3> DEFINE Hits(s) == {i \in DOMAIN s : llNode[s[i]].val = v}
                 First(s) == IF Hits(s) = {} THEN Null
                             ELSE s[CHOOSE i \in Hits(s) : \A j \in Hits(s) : i <= j]
      <3>1. Lists!Find(v) = First(Lists!Walk(llList.head, "head"))
        BY DEF Lists!Find
      <3>2. Lists!Find(v) = First(llItems)
        BY <2>1, <3>1
      <3> QED
        BY <3>2
    <2>3. ASSUME NEW k \in DOMAIN llItems
          PROVE  Lists!At(k - 1) = llItems[k] /\ Lists!At(-k) = llItems[Len(llItems) + 1 - k]
      <3>1. k \in 1 .. Len(llItems)
        BY <1>1
      <3>2. Lists!At(k - 1) = Lists!Walk(llList.head, "head")[(k - 1) + 1]
        BY <1>1, <2>1, <3>1 DEF Lists!At, Lists!End
      <3>3. Lists!At(-k) = Lists!Walk(llList.tail, "tail")[k]
        <4>1. -k < 0 /\ -(-k) - 1 = k - 1 /\ k - 1 < Len(llItems) /\ (k - 1) + 1 = k
          BY <1>1, <3>1
        <4> QED
          BY <2>1, <4>1 DEF Lists!At, Lists!End
      <3>4. (k - 1) + 1 = k /\ Lists!Reverse(llItems)[k] = llItems[Len(llItems) + 1 - k]
        BY <1>1, <3>1 DEF Lists!Reverse
      <3> QED
        BY <2>1, <3>2, <3>3, <3>4
    <2> QED
      BY <2>2, <2>3 DEF Lists!FindsItem
  <1>4. Lists!ScanWhole
    <2> SUFFICES ASSUME llIter # Null PROVE Lists!ScanWhole
      BY DEF Lists!ScanWhole
    <2>1. llList # Null /\ Scanning /\ llIter.direction \in {"head", "tail"} /\ Distinct(llItems)
      BY DEF ListInv, ListChain, ListTypes
    <2>2. CASE llIter.direction = "head"
      <3>1. PICK p \in 1 .. Len(llItems) + 1 :
              /\ llIter.next = After(llItems, p - 1)
              /\ \A i \in 1 .. Len(llItems) : i < p => llItems[i] \notin llMissed
              /\ \A i \in 1 .. Len(llItems) : i >= p => llItems[i] \notin llSeen
        BY <2>1, <2>2 DEF Scanning, ScanPlace
      <3> DEFINE n == Len(llItems) + 1 - p
                 w == [i \in 1 .. n |-> llItems[p - 1 + i]]
      <3>2. Lists!Walk(llIter.next, "head") = w
        BY <2>1, <3>1, WalkFromHead
      <3>3. Lists!ToSet(w) = {llItems[i] : i \in p .. Len(llItems)}
        <4>1. \A i \in 1 .. n : p - 1 + i \in p .. Len(llItems)
          BY <1>1
        <4>2. \A i \in p .. Len(llItems) : i + 1 - p \in 1 .. n /\ w[i + 1 - p] = llItems[i]
          BY <1>1
        <4> QED
          BY <4>1, <4>2 DEF Lists!ToSet
      <3> HIDE DEF w
      <3>4. llMissed \subseteq {llItems[i] : i \in p .. Len(llItems)}
        <4> SUFFICES ASSUME NEW m \in llMissed PROVE m \in {llItems[i] : i \in p .. Len(llItems)}
          OBVIOUS
        <4>1. PICK i \in 1 .. Len(llItems) : m = llItems[i]
          BY <1>1, <2>1 DEF Scanning, Lists!InList
        <4>2. ~(i < p)
          <5>1. \A q \in 1 .. Len(llItems) : q < p => llItems[q] \notin llMissed
            BY <3>1
          <5> QED
            BY <4>1, <5>1
        <4>3. i \in p .. Len(llItems)
          BY <1>1, <4>2
        <4> QED
          BY <4>1, <4>3
      <3>5. {llItems[i] : i \in p .. Len(llItems)} \subseteq Lists!InList \ llSeen
        BY <1>1, <3>1 DEF Lists!InList
      <3> QED
        BY <2>2, <3>2, <3>3, <3>4, <3>5 DEF Lists!ScanWhole
    <2>3. CASE llIter.direction = "tail"
      <3>1. PICK p \in 0 .. Len(llItems) :
              /\ llIter.next = Before(llItems, p + 1)
              /\ \A i \in 1 .. Len(llItems) : i > p => llItems[i] \notin llMissed
              /\ \A i \in 1 .. Len(llItems) : i <= p => llItems[i] \notin llSeen
        BY <2>1, <2>3 DEF Scanning, ScanPlace
      <3> DEFINE w == [i \in 1 .. p |-> llItems[p + 1 - i]]
      <3>2. Lists!Walk(llIter.next, "tail") = w
        BY <2>1, <3>1, WalkFromTail
      <3>3. Lists!ToSet(w) = {llItems[i] : i \in 1 .. p}
        <4>1. \A i \in 1 .. p : p + 1 - i \in 1 .. p /\ w[p + 1 - i] = llItems[i]
          BY <1>1
        <4> QED
          BY <4>1 DEF Lists!ToSet
      <3> HIDE DEF w
      <3>4. llMissed \subseteq {llItems[i] : i \in 1 .. p}
        <4> SUFFICES ASSUME NEW m \in llMissed PROVE m \in {llItems[i] : i \in 1 .. p}
          OBVIOUS
        <4>1. PICK i \in 1 .. Len(llItems) : m = llItems[i]
          BY <1>1, <2>1 DEF Scanning, Lists!InList
        <4>2. ~(i > p)
          <5>1. \A q \in 1 .. Len(llItems) : q > p => llItems[q] \notin llMissed
            BY <3>1
          <5> QED
            BY <4>1, <5>1
        <4>3. i \in 1 .. p
          BY <1>1, <4>2
        <4> QED
          BY <4>1, <4>3
      <3>5. {llItems[i] : i \in 1 .. p} \subseteq Lists!InList \ llSeen
        BY <1>1, <3>1 DEF Lists!InList
      <3> QED
        BY <2>3, <3>2, <3>3, <3>4, <3>5 DEF Lists!ScanWhole
    <2> QED
      BY <2>1, <2>2, <2>3
  <1> QED
    BY <1>2, <1>3, <1>4

\* The nodes as pointers are written.
Nodes == [ListNodes -> Cell \cup {Null}]

(* What writing a pointer of a node does, or both of them. *)
LEMMA NextSet ==
    ASSUME NEW node \in Nodes, NEW n \in ListNodes, node[n] # Null, NEW b \in Link
    PROVE  /\ [node EXCEPT ![n].next = b] \in Nodes
           /\ [node EXCEPT ![n].next = b][n] # Null
           /\ [node EXCEPT ![n].next = b][n].next = b
           /\ [node EXCEPT ![n].next = b][n].prev = node[n].prev
           /\ \A m \in ListNodes : m # n => [node EXCEPT ![n].next = b][m] = node[m]
  <1> DEFINE cell == [node[n] EXCEPT !.next = b]
             new == [node EXCEPT ![n] = cell]
  <1>1. node[n] \in Cell
    BY DEF Nodes
  <1>2. [node EXCEPT ![n].next = b] = new
    OBVIOUS
  <1>3. cell \in Cell /\ cell.prev = node[n].prev /\ cell.next = b /\ cell # Null
    BY <1>1, ListAssumption DEF Cell, Link
  <1> HIDE DEF cell
  <1>4. new \in Nodes /\ new[n] = cell /\ \A m \in ListNodes : m # n => new[m] = node[m]
    BY <1>3 DEF Nodes
  <1> QED
    BY <1>2, <1>3, <1>4

LEMMA PrevSet ==
    ASSUME NEW node \in Nodes, NEW n \in ListNodes, node[n] # Null, NEW a \in Link
    PROVE  /\ [node EXCEPT ![n].prev = a] \in Nodes
           /\ [node EXCEPT ![n].prev = a][n] # Null
           /\ [node EXCEPT ![n].prev = a][n].prev = a
           /\ [node EXCEPT ![n].prev = a][n].next = node[n].next
           /\ \A m \in ListNodes : m # n => [node EXCEPT ![n].prev = a][m] = node[m]
  <1> DEFINE cell == [node[n] EXCEPT !.prev = a]
             new == [node EXCEPT ![n] = cell]
  <1>1. node[n] \in Cell
    BY DEF Nodes
  <1>2. [node EXCEPT ![n].prev = a] = new
    OBVIOUS
  <1>3. cell \in Cell /\ cell.next = node[n].next /\ cell.prev = a /\ cell # Null
    BY <1>1, ListAssumption DEF Cell, Link
  <1> HIDE DEF cell
  <1>4. new \in Nodes /\ new[n] = cell /\ \A m \in ListNodes : m # n => new[m] = node[m]
    BY <1>3 DEF Nodes
  <1> QED
    BY <1>2, <1>3, <1>4

LEMMA NodeLinked ==
    ASSUME NEW node \in Nodes, NEW n \in ListNodes, node[n] # Null, NEW a \in Link, NEW b \in Link
    PROVE  /\ Lists!Linked(node, n, a, b) \in Nodes
           /\ Lists!Linked(node, n, a, b)[n] # Null
           /\ Lists!Linked(node, n, a, b)[n].prev = a /\ Lists!Linked(node, n, a, b)[n].next = b
           /\ \A m \in ListNodes : m # n => Lists!Linked(node, n, a, b)[m] = node[m]
  <1> DEFINE one == [node EXCEPT ![n].prev = a]
             two == [one EXCEPT ![n].next = b]
  <1>1. Lists!Linked(node, n, a, b) = two
    BY DEF Lists!Linked
  <1>2. /\ one \in Nodes /\ one[n] # Null /\ one[n].prev = a
        /\ \A m \in ListNodes : m # n => one[m] = node[m]
    BY PrevSet
  <1> HIDE DEF one
  <1>3. /\ two \in Nodes /\ two[n] # Null /\ two[n].next = b /\ two[n].prev = one[n].prev
        /\ \A m \in ListNodes : m # n => two[m] = one[m]
    BY <1>2, NextSet
  <1> HIDE DEF two
  <1> QED
    BY <1>1, <1>2, <1>3

(* The same where there may be no node to write to. *)
LEMMA NextMoved ==
    ASSUME NEW node \in Nodes, NEW a \in Link, NEW b \in Link,
           a # Null => a \in ListNodes /\ node[a] # Null
    PROVE  LET new == IF a = Null THEN node ELSE [node EXCEPT ![a].next = b]
           IN  /\ new \in Nodes
               /\ \A m \in ListNodes : node[m] # Null =>
                    /\ new[m] # Null /\ new[m].prev = node[m].prev
                    /\ new[m].next = IF m = a THEN b ELSE node[m].next
  <1>1. CASE a = Null
    BY <1>1, ListAssumption
  <1>2. CASE a # Null
    <2> DEFINE one == [node EXCEPT ![a].next = b]
    <2>1. /\ one \in Nodes /\ one[a] # Null /\ one[a].next = b /\ one[a].prev = node[a].prev
          /\ \A m \in ListNodes : m # a => one[m] = node[m]
      BY <1>2, NextSet
    <2> HIDE DEF one
    <2>2. one \in Nodes /\ \A m \in ListNodes : node[m] # Null =>
              /\ one[m] # Null /\ one[m].prev = node[m].prev
              /\ one[m].next = IF m = a THEN b ELSE node[m].next
      BY <2>1
    <2> QED
      BY <1>2, <2>2 DEF one
  <1> QED
    BY <1>1, <1>2

LEMMA PrevMoved ==
    ASSUME NEW node \in Nodes, NEW a \in Link, NEW b \in Link,
           b # Null => b \in ListNodes /\ node[b] # Null
    PROVE  LET new == IF b = Null THEN node ELSE [node EXCEPT ![b].prev = a]
           IN  /\ new \in Nodes
               /\ \A m \in ListNodes : node[m] # Null =>
                    /\ new[m] # Null /\ new[m].next = node[m].next
                    /\ new[m].prev = IF m = b THEN a ELSE node[m].prev
  <1>1. CASE b = Null
    BY <1>1, ListAssumption
  <1>2. CASE b # Null
    <2> DEFINE one == [node EXCEPT ![b].prev = a]
    <2>1. /\ one \in Nodes /\ one[b] # Null /\ one[b].prev = a /\ one[b].next = node[b].next
          /\ \A m \in ListNodes : m # b => one[m] = node[m]
      BY <1>2, PrevSet
    <2> HIDE DEF one
    <2>2. one \in Nodes /\ \A m \in ListNodes : node[m] # Null =>
              /\ one[m] # Null /\ one[m].next = node[m].next
              /\ one[m].prev = IF m = b THEN a ELSE node[m].prev
      BY <2>1
    <2> QED
      BY <1>2, <2>2 DEF one
  <1> QED
    BY <1>1, <1>2

(* A node that is loose is allocated, and none of the items. *)
LEMMA LooseNode ==
    ASSUME ListInv, NEW n \in Lists!Loose
    PROVE  n \in ListNodes /\ llNode[n] # Null /\ \A i \in 1 .. Len(llItems) : llItems[i] # n
  <1>1. DOMAIN llItems = 1 .. Len(llItems)
    BY DEF ListInv, ListTypes
  <1> QED
    BY <1>1 DEF Lists!Loose, Lists!InList

(* Pushed behind the tail, and in front of the head. *)
LEMMA AppendChained ==
    ASSUME ListInv, llList # Null, NEW n \in ListNodes, Lists!RPush(n)
    PROVE  llNode' \in Nodes /\ llList' \in [head : Link, tail : Link, len : Nat]
           /\ Chained(llNode', llList', llItems')
  <1> DEFINE s == llItems
             t == llItems'
             c == Len(s)
             old == llList.tail
  <1>1. /\ s \in Seq(ListNodes) /\ Distinct(s) /\ c \in Nat /\ llNode \in Nodes /\ Chained(llNode, llList, s)
        /\ llList \in [head : Link, tail : Link, len : Nat] /\ llList.len = c
    BY DEF ListInv, ListTypes, ListChain, Chained, Nodes
  <1>2. /\ n \in ListNodes /\ llNode[n] # Null /\ \A i \in 1 .. c : s[i] # n
    BY LooseNode DEF Lists!RPush
  <1>3. /\ t \in Seq(ListNodes) /\ Len(t) = c + 1 /\ t[c + 1] = n /\ \A i \in 1 .. c : t[i] = s[i]
    BY <1>1 DEF Lists!RPush
  <1>4. Null \in Link /\ n \in Link /\ \A i \in 1 .. c : s[i] \in ListNodes
    BY <1>1, <1>2 DEF Link
  <1> HIDE DEF t
  <1>5. CASE c > 0
    <2> DEFINE one == Lists!Linked(llNode, n, old, Null)
    <2>1. /\ llNode' = [one EXCEPT ![old].next = n]
          /\ llList' = [llList EXCEPT !.tail = n, !.len = @ + 1]
      BY <1>1, <1>5 DEF Lists!RPush
    <2>2. old = s[c] /\ old \in ListNodes /\ old \in Link /\ old # n /\ llNode[old] # Null
      BY <1>1, <1>2, <1>4, <1>5 DEF Chained, Before, Link
    <2>3. /\ one \in Nodes /\ one[n] # Null /\ one[n].prev = old /\ one[n].next = Null
          /\ \A m \in ListNodes : m # n => one[m] = llNode[m]
      BY <1>1, <1>2, <1>4, <2>2, NodeLinked
    <2> HIDE DEF one, old
    <2>4. /\ llNode' \in Nodes /\ llNode'[old] # Null /\ llNode'[old].next = n
          /\ llNode'[old].prev = one[old].prev
          /\ \A m \in ListNodes : m # old => llNode'[m] = one[m]
      <3>1. one[old] # Null
        BY <2>2, <2>3
      <3> DEFINE two == [one EXCEPT ![old].next = n]
      <3>2. /\ two \in Nodes /\ two[old] # Null /\ two[old].next = n /\ two[old].prev = one[old].prev
            /\ \A m \in ListNodes : m # old => two[m] = one[m]
        BY <1>4, <2>2, <2>3, <3>1, NextSet
      <3> HIDE DEF two
      <3>3. llNode' = two
        BY <2>1 DEF two
      <3> QED
        BY <3>2, <3>3
    <2>5. llList'.len = c + 1 /\ llList'.head = llList.head /\ llList'.tail = n
          /\ llList' \in [head : Link, tail : Link, len : Nat]
      <3>1. llList' = [head |-> llList.head, tail |-> n, len |-> llList.len + 1]
        BY <1>1, <2>1
      <3>2. llList.head \in Link /\ llList.len \in Nat
        BY <1>1
      <3> QED
        BY <1>1, <1>4, <3>1, <3>2
    <2>6. llList'.head = After(t, 0) /\ llList'.tail = Before(t, c + 2)
      BY <1>1, <1>3, <1>5, <2>5 DEF Chained, After, Before
    <2>7. ASSUME NEW i \in 1 .. c + 1
          PROVE  llNode'[t[i]] # Null /\ llNode'[t[i]].next = After(t, i) /\ llNode'[t[i]].prev = Before(t, i)
      <3>1. CASE i = c + 1
        <4>1. t[i] = n /\ After(t, i) = Null /\ Before(t, i) = old
          BY <1>1, <1>3, <1>5, <2>2, <3>1 DEF After, Before
        <4> QED
          BY <1>2, <2>2, <2>3, <2>4, <4>1
      <3>2. CASE i = c
        <4>1. t[i] = old /\ After(t, i) = n /\ Before(t, i) = Before(s, i)
          BY <1>1, <1>3, <1>5, <2>2, <3>2 DEF After, Before
        <4>2. llNode[old].prev = Before(s, i)
          BY <1>1, <1>5, <2>2, <3>2 DEF Chained
        <4> QED
          BY <1>2, <2>2, <2>3, <2>4, <4>1, <4>2
      <3>3. CASE i < c
        <4>1. i \in 1 .. c /\ t[i] = s[i] /\ After(t, i) = After(s, i) /\ Before(t, i) = Before(s, i)
          BY <1>1, <1>3, <3>3 DEF After, Before
        <4>2. s[i] # n /\ s[i] # old /\ s[i] \in ListNodes
          BY <1>1, <1>2, <1>4, <2>2, <3>3, <4>1 DEF Distinct
        <4>3. llNode[s[i]] # Null /\ llNode[s[i]].next = After(s, i) /\ llNode[s[i]].prev = Before(s, i)
          BY <1>1, <4>1 DEF Chained
        <4> QED
          BY <2>3, <2>4, <4>1, <4>2, <4>3
      <3> QED
        BY <1>1, <3>1, <3>2, <3>3
    <2> QED
      BY <1>1, <1>3, <2>4, <2>5, <2>6, <2>7 DEF Chained, t
  <1>6. CASE c = 0
    <2>1. /\ llNode' = Lists!Linked(llNode, n, Null, Null)
          /\ llList' = [head |-> n, tail |-> n, len |-> 1]
      BY <1>1, <1>6 DEF Lists!RPush
    <2>2. /\ llNode' \in Nodes /\ llNode'[n] # Null /\ llNode'[n].prev = Null /\ llNode'[n].next = Null
      BY <1>1, <1>2, <1>4, <2>1, NodeLinked
    <2>3. After(t, 0) = n /\ Before(t, 2) = n /\ After(t, 1) = Null /\ Before(t, 1) = Null /\ t[1] = n
      BY <1>3, <1>6 DEF After, Before
    <2> QED
      BY <1>3, <1>4, <1>6, <2>1, <2>2, <2>3 DEF Chained, t
  <1> QED
    BY <1>1, <1>5, <1>6

LEMMA PrependChained ==
    ASSUME ListInv, llList # Null, NEW n \in ListNodes, Lists!LPush(n)
    PROVE  llNode' \in Nodes /\ llList' \in [head : Link, tail : Link, len : Nat]
           /\ Chained(llNode', llList', llItems')
  <1> DEFINE s == llItems
             t == llItems'
             c == Len(s)
             old == llList.head
  <1>1. /\ s \in Seq(ListNodes) /\ Distinct(s) /\ c \in Nat /\ llNode \in Nodes /\ Chained(llNode, llList, s)
        /\ llList \in [head : Link, tail : Link, len : Nat] /\ llList.len = c
    BY DEF ListInv, ListTypes, ListChain, Chained, Nodes
  <1>2. /\ n \in ListNodes /\ llNode[n] # Null /\ \A i \in 1 .. c : s[i] # n
    BY LooseNode DEF Lists!LPush
  <1>3. /\ t \in Seq(ListNodes) /\ Len(t) = c + 1 /\ t[1] = n /\ \A i \in 1 .. c : t[i + 1] = s[i]
    BY <1>1 DEF Lists!LPush
  <1>4. Null \in Link /\ n \in Link /\ \A i \in 1 .. c : s[i] \in ListNodes
    BY <1>1, <1>2 DEF Link
  <1> HIDE DEF t
  <1>5. CASE c > 0
    <2> DEFINE one == Lists!Linked(llNode, n, Null, old)
               two == [one EXCEPT ![old].prev = n]
    <2>1. /\ llNode' = two
          /\ llList' = [llList EXCEPT !.head = n, !.len = @ + 1]
      BY <1>1, <1>5 DEF Lists!LPush
    <2>2. old = s[1] /\ old \in ListNodes /\ old \in Link /\ old # n /\ llNode[old] # Null
      BY <1>1, <1>2, <1>4, <1>5 DEF Chained, After, Link
    <2>3. /\ one \in Nodes /\ one[n] # Null /\ one[n].prev = Null /\ one[n].next = old
          /\ \A m \in ListNodes : m # n => one[m] = llNode[m]
      BY <1>1, <1>2, <1>4, <2>2, NodeLinked
    <2> HIDE DEF one, old
    <2>4. /\ two \in Nodes /\ two[old] # Null /\ two[old].prev = n /\ two[old].next = one[old].next
          /\ \A m \in ListNodes : m # old => two[m] = one[m]
      <3>1. one[old] # Null
        BY <2>2, <2>3
      <3> QED
        BY <1>4, <2>2, <2>3, <3>1, PrevSet
    <2> HIDE DEF two
    <2>5. llList'.len = c + 1 /\ llList'.head = n /\ llList'.tail = llList.tail
          /\ llList' \in [head : Link, tail : Link, len : Nat]
      <3>1. llList' = [head |-> n, tail |-> llList.tail, len |-> llList.len + 1]
        BY <1>1, <2>1
      <3>2. llList.tail \in Link /\ llList.len \in Nat
        BY <1>1
      <3> QED
        BY <1>1, <1>4, <3>1, <3>2
    <2>6. llList'.head = After(t, 0) /\ llList'.tail = Before(t, c + 2)
      BY <1>1, <1>3, <1>5, <2>5 DEF Chained, After, Before
    <2>7. ASSUME NEW i \in 1 .. c + 1
          PROVE  two[t[i]] # Null /\ two[t[i]].next = After(t, i) /\ two[t[i]].prev = Before(t, i)
      <3>1. CASE i = 1
        <4>1. t[i] = n /\ After(t, i) = old /\ Before(t, i) = Null
          BY <1>1, <1>3, <1>5, <2>2, <3>1 DEF After, Before
        <4> QED
          BY <1>2, <2>2, <2>3, <2>4, <4>1
      <3>2. CASE i = 2
        <4>1. t[i] = old /\ Before(t, i) = n /\ After(t, i) = After(s, 1)
          BY <1>1, <1>3, <1>5, <2>2, <3>2 DEF After, Before
        <4>2. llNode[old].next = After(s, 1)
          BY <1>1, <1>5, <2>2 DEF Chained
        <4> QED
          BY <1>2, <2>2, <2>3, <2>4, <4>1, <4>2
      <3>3. CASE i > 2
        <4>1. i - 1 \in 2 .. c /\ t[i] = s[i - 1] /\ After(t, i) = After(s, i - 1) /\ Before(t, i) = Before(s, i - 1)
          BY <1>1, <1>3, <3>3 DEF After, Before
        <4>2. s[i - 1] # n /\ s[i - 1] # old /\ s[i - 1] \in ListNodes
          BY <1>1, <1>2, <1>4, <2>2, <3>3, <4>1 DEF Distinct
        <4>3. llNode[s[i - 1]] # Null /\ llNode[s[i - 1]].next = After(s, i - 1) /\ llNode[s[i - 1]].prev = Before(s, i - 1)
          BY <1>1, <4>1 DEF Chained
        <4> QED
          BY <2>3, <2>4, <4>1, <4>2, <4>3
      <3> QED
        BY <1>1, <3>1, <3>2, <3>3
    <2> QED
      BY <1>1, <1>3, <2>1, <2>4, <2>5, <2>6, <2>7 DEF Chained, t
  <1>6. CASE c = 0
    <2>1. /\ llNode' = Lists!Linked(llNode, n, Null, Null)
          /\ llList' = [head |-> n, tail |-> n, len |-> 1]
      BY <1>1, <1>6 DEF Lists!LPush
    <2>2. /\ llNode' \in Nodes /\ llNode'[n] # Null /\ llNode'[n].prev = Null /\ llNode'[n].next = Null
      BY <1>1, <1>2, <1>4, <2>1, NodeLinked
    <2>3. After(t, 0) = n /\ Before(t, 2) = n /\ After(t, 1) = Null /\ Before(t, 1) = Null /\ t[1] = n
      BY <1>3, <1>6 DEF After, Before
    <2> QED
      BY <1>3, <1>4, <1>6, <2>1, <2>2, <2>3 DEF Chained, t
  <1> QED
    BY <1>1, <1>5, <1>6

(* Popped from either end. *)
LEMMA LastPopped ==
    ASSUME ListInv, llList # Null, Lists!RPop
    PROVE  llNode' \in Nodes /\ llList' \in [head : Link, tail : Link, len : Nat]
           /\ Chained(llNode', llList', llItems')
  <1> DEFINE s == llItems
             t == llItems'
             c == Len(s)
             n == llList.tail
  <1>1. /\ s \in Seq(ListNodes) /\ Distinct(s) /\ c \in Nat /\ llNode \in Nodes /\ Chained(llNode, llList, s)
        /\ llList \in [head : Link, tail : Link, len : Nat] /\ llList.len = c /\ c > 0
    BY DEF ListInv, ListTypes, ListChain, Chained, Nodes, Lists!RPop
  <1>2. n = s[c] /\ n \in ListNodes /\ llNode[n] # Null /\ llNode[n].prev = Before(s, c)
    BY <1>1 DEF Chained, Before
  <1>3. /\ t \in Seq(ListNodes) /\ Len(t) = c - 1 /\ \A i \in 1 .. c - 1 : t[i] = s[i]
    BY <1>1 DEF Lists!RPop, Lists!Front
  <1>4. Null \in Link /\ \A i \in 1 .. c : s[i] \in ListNodes
    BY <1>1 DEF Link
  <1> HIDE DEF t
  <1>5. CASE c > 1
    <2> DEFINE last == s[c - 1]
               one == [llNode EXCEPT ![last].next = Null]
               two == Lists!Linked(one, n, Null, Null)
    <2>1. llNode[n].prev = last
      BY <1>1, <1>2, <1>5 DEF Before
    <2>2. /\ llNode' = two
          /\ llList' = [llList EXCEPT !.tail = last, !.len = @ - 1]
      BY <1>1, <1>5, <2>1 DEF Lists!RPop
    <2>3. last \in ListNodes /\ last \in Link /\ last # n /\ llNode[last] # Null /\ llNode[last].prev = Before(s, c - 1)
      BY <1>1, <1>2, <1>4, <1>5 DEF Chained, Link, Distinct
    <2> HIDE DEF n
    <2>4. /\ one \in Nodes /\ one[last] # Null /\ one[last].next = Null /\ one[last].prev = llNode[last].prev
          /\ \A m \in ListNodes : m # last => one[m] = llNode[m]
      BY <1>1, <1>4, <2>3, NextSet
    <2> HIDE DEF one, last
    <2>5. two \in Nodes /\ \A m \in ListNodes : m # n => two[m] = one[m]
      <3>1. one[n] # Null
        BY <1>2, <2>3, <2>4
      <3> QED
        BY <1>2, <1>4, <2>4, <3>1, NodeLinked
    <2> HIDE DEF two
    <2>6. llList'.len = c - 1 /\ llList'.head = llList.head /\ llList'.tail = last
          /\ llList' \in [head : Link, tail : Link, len : Nat]
      <3>1. llList' = [head |-> llList.head, tail |-> last, len |-> llList.len - 1]
        BY <1>1, <2>2
      <3>2. llList.head \in Link
        BY <1>1
      <3> QED
        BY <1>1, <2>3, <3>1, <3>2
    <2>7. llList'.head = After(t, 0) /\ llList'.tail = Before(t, c)
      BY <1>1, <1>3, <1>5, <2>6 DEF Chained, After, Before, last
    <2>8. ASSUME NEW i \in 1 .. c - 1
          PROVE  two[t[i]] # Null /\ two[t[i]].next = After(t, i) /\ two[t[i]].prev = Before(t, i)
      <3>1. t[i] = s[i] /\ i \in 1 .. c /\ s[i] # n /\ Before(t, i) = Before(s, i) /\ s[i] \in ListNodes
        BY <1>1, <1>2, <1>3 DEF Before, Distinct
      <3>2. CASE i = c - 1
        <4>1. After(t, i) = Null /\ t[i] = last
          BY <1>1, <1>3, <3>2 DEF After, last
        <4> QED
          BY <2>3, <2>4, <2>5, <3>1, <3>2, <4>1
      <3>3. CASE i < c - 1
        <4>1. After(t, i) = After(s, i) /\ s[i] # last
          BY <1>1, <1>3, <3>3 DEF After, Distinct, last
        <4>2. llNode[s[i]] # Null /\ llNode[s[i]].next = After(s, i) /\ llNode[s[i]].prev = Before(s, i)
          BY <1>1, <3>1 DEF Chained
        <4> QED
          BY <2>4, <2>5, <3>1, <4>1, <4>2
      <3> QED
        BY <1>1, <3>2, <3>3
    <2> QED
      BY <1>1, <1>3, <2>2, <2>5, <2>6, <2>7, <2>8 DEF Chained, t
  <1>6. CASE c = 1
    <2>1. /\ llNode' = Lists!Linked(llNode, n, Null, Null)
          /\ llList' = [head |-> Null, tail |-> Null, len |-> 0]
      BY <1>1, <1>6 DEF Lists!RPop
    <2>2. llNode' \in Nodes
      BY <1>1, <1>2, <1>4, <2>1, NodeLinked
    <2>3. After(t, 0) = Null /\ Before(t, 1) = Null
      BY <1>3, <1>6 DEF After, Before
    <2> QED
      BY <1>3, <1>4, <1>6, <2>1, <2>2, <2>3 DEF Chained, t
  <1> QED
    BY <1>1, <1>5, <1>6

LEMMA FirstPopped ==
    ASSUME ListInv, llList # Null, Lists!LPop
    PROVE  llNode' \in Nodes /\ llList' \in [head : Link, tail : Link, len : Nat]
           /\ Chained(llNode', llList', llItems')
  <1> DEFINE s == llItems
             t == llItems'
             c == Len(s)
             n == llList.head
  <1>1. /\ s \in Seq(ListNodes) /\ Distinct(s) /\ c \in Nat /\ llNode \in Nodes /\ Chained(llNode, llList, s)
        /\ llList \in [head : Link, tail : Link, len : Nat] /\ llList.len = c /\ c > 0
    BY DEF ListInv, ListTypes, ListChain, Chained, Nodes, Lists!LPop
  <1>2. n = s[1] /\ n \in ListNodes /\ llNode[n] # Null /\ llNode[n].next = After(s, 1)
    BY <1>1 DEF Chained, After
  <1>3. /\ t \in Seq(ListNodes) /\ Len(t) = c - 1 /\ \A i \in 1 .. c - 1 : t[i] = s[i + 1]
    BY <1>1 DEF Lists!LPop
  <1>4. Null \in Link /\ \A i \in 1 .. c : s[i] \in ListNodes
    BY <1>1 DEF Link
  <1> HIDE DEF t
  <1>5. CASE c > 1
    <2> DEFINE first == s[2]
               one == [llNode EXCEPT ![first].prev = Null]
               two == Lists!Linked(one, n, Null, Null)
    <2>1. llNode[n].next = first
      BY <1>1, <1>2, <1>5 DEF After
    <2>2. /\ llNode' = two
          /\ llList' = [llList EXCEPT !.head = first, !.len = @ - 1]
      BY <1>1, <1>5, <2>1 DEF Lists!LPop
    <2>3. first \in ListNodes /\ first \in Link /\ first # n /\ llNode[first] # Null /\ llNode[first].next = After(s, 2)
      BY <1>1, <1>2, <1>4, <1>5 DEF Chained, Link, Distinct
    <2> HIDE DEF n
    <2>4. /\ one \in Nodes /\ one[first] # Null /\ one[first].prev = Null /\ one[first].next = llNode[first].next
          /\ \A m \in ListNodes : m # first => one[m] = llNode[m]
      BY <1>1, <1>4, <2>3, PrevSet
    <2> HIDE DEF one, first
    <2>5. two \in Nodes /\ \A m \in ListNodes : m # n => two[m] = one[m]
      <3>1. one[n] # Null
        BY <1>2, <2>3, <2>4
      <3> QED
        BY <1>2, <1>4, <2>4, <3>1, NodeLinked
    <2> HIDE DEF two
    <2>6. llList'.len = c - 1 /\ llList'.head = first /\ llList'.tail = llList.tail
          /\ llList' \in [head : Link, tail : Link, len : Nat]
      <3>1. llList' = [head |-> first, tail |-> llList.tail, len |-> llList.len - 1]
        BY <1>1, <2>2
      <3>2. llList.tail \in Link
        BY <1>1
      <3> QED
        BY <1>1, <2>3, <3>1, <3>2
    <2>7. llList'.head = After(t, 0) /\ llList'.tail = Before(t, c)
      BY <1>1, <1>3, <1>5, <2>6 DEF Chained, After, Before, first
    <2>8. ASSUME NEW i \in 1 .. c - 1
          PROVE  two[t[i]] # Null /\ two[t[i]].next = After(t, i) /\ two[t[i]].prev = Before(t, i)
      <3>1. t[i] = s[i + 1] /\ i + 1 \in 1 .. c /\ s[i + 1] # n /\ After(t, i) = After(s, i + 1) /\ s[i + 1] \in ListNodes
        BY SMTT(30), <1>1, <1>2, <1>3, <1>4 DEF After, Distinct
      <3>2. CASE i = 1
        <4>1. Before(t, i) = Null /\ t[i] = first /\ After(t, i) = After(s, 2)
          BY <1>1, <1>3, <3>1, <3>2 DEF Before, first
        <4> QED
          BY <2>3, <2>4, <2>5, <3>1, <3>2, <4>1
      <3>3. CASE i > 1
        <4>1. Before(t, i) = Before(s, i + 1) /\ s[i + 1] # first
          <5>1. i - 1 \in 1 .. c - 1 /\ (i - 1) + 1 = i /\ (i + 1) - 1 = i /\ i + 1 > 1
                /\ 2 \in 1 .. c /\ i + 1 # 2
            BY <1>1, <3>1, <3>3
          <5>2. Before(t, i) = t[i - 1] /\ t[i - 1] = s[i] /\ Before(s, i + 1) = s[i]
            BY <1>3, <3>3, <5>1 DEF Before
          <5>3. s[i + 1] # s[2]
            BY <1>1, <3>1, <5>1 DEF Distinct
          <5> QED
            BY <5>2, <5>3 DEF first
        <4>2. llNode[s[i + 1]] # Null /\ llNode[s[i + 1]].next = After(s, i + 1) /\ llNode[s[i + 1]].prev = Before(s, i + 1)
          BY <1>1, <3>1 DEF Chained
        <4> QED
          BY <2>4, <2>5, <3>1, <4>1, <4>2
      <3> QED
        BY <1>1, <3>2, <3>3
    <2> QED
      BY <1>1, <1>3, <2>2, <2>5, <2>6, <2>7, <2>8 DEF Chained, t
  <1>6. CASE c = 1
    <2>1. /\ llNode' = Lists!Linked(llNode, n, Null, Null)
          /\ llList' = [head |-> Null, tail |-> Null, len |-> 0]
      BY <1>1, <1>6 DEF Lists!LPop
    <2>2. llNode' \in Nodes
      BY <1>1, <1>2, <1>4, <2>1, NodeLinked
    <2>3. After(t, 0) = Null /\ Before(t, 1) = Null
      BY <1>3, <1>6 DEF After, Before
    <2> QED
      BY <1>3, <1>4, <1>6, <2>1, <2>2, <2>3 DEF Chained, t
  <1> QED
    BY <1>1, <1>5, <1>6

(* A sequence without its entry at c. *)
LEMMA RemovedAt ==
    ASSUME NEW S, NEW s \in Seq(S), NEW c \in 1 .. Len(s)
    PROVE  /\ Lists!RemoveAt(s, c) \in Seq(S) /\ Len(Lists!RemoveAt(s, c)) = Len(s) - 1
           /\ \A i \in 1 .. Len(s) - 1 :
                Lists!RemoveAt(s, c)[i] = IF i < c THEN s[i] ELSE s[i + 1]
  <1> DEFINE u == SubSeq(s, 1, c - 1)
             v == SubSeq(s, c + 1, Len(s))
  <1>1. u \in Seq(S) /\ Len(u) = c - 1 /\ \A i \in 1 .. c - 1 : u[i] = s[i]
    OBVIOUS
  <1>2. v \in Seq(S) /\ Len(v) = Len(s) - c /\ \A i \in 1 .. Len(s) - c : v[i] = s[c + i]
    OBVIOUS
  <1>3. Lists!RemoveAt(s, c) = u \o v
    BY DEF Lists!RemoveAt
  <1> HIDE DEF u, v
  <1>4. u \o v \in Seq(S) /\ Len(u \o v) = Len(s) - 1
    BY <1>1, <1>2
  <1>5. ASSUME NEW i \in 1 .. Len(s) - 1
        PROVE  (u \o v)[i] = IF i < c THEN s[i] ELSE s[i + 1]
    <2>1. CASE i < c
      BY <1>1, <1>2, <2>1
    <2>2. CASE i >= c
      <3>1. (u \o v)[i] = v[i - (c - 1)] /\ i - (c - 1) \in 1 .. Len(s) - c
        BY <1>1, <1>2, <2>2
      <3>2. c + (i - (c - 1)) = i + 1
        OBVIOUS
      <3> QED
        BY <1>2, <2>2, <3>1, <3>2
    <2>3. i \in Nat /\ c \in Nat
      OBVIOUS
    <2>4. i < c \/ i >= c
      BY <2>3
    <2> QED
      BY <2>1, <2>2, <2>4
  <1> QED
    BY <1>3, <1>4, <1>5

(* A node that is removed is bridged, wherever it is. *)
LEMMA ItemRemoved ==
    ASSUME ListInv, llList # Null, NEW n \in ListNodes, Lists!ListRemove(n)
    PROVE  /\ llNode' \in Nodes /\ llList' \in [head : Link, tail : Link, len : Nat]
           /\ Chained(llNode', llList', llItems')
  <1> DEFINE s == llItems
             t == llItems'
             k == Len(s)
             a == llNode[n].prev
             b == llNode[n].next
             left == IF a = Null THEN llNode ELSE [llNode EXCEPT ![a].next = b]
             right == IF b = Null THEN left ELSE [left EXCEPT ![b].prev = a]
  <1>1. /\ s \in Seq(ListNodes) /\ Distinct(s) /\ k \in Nat /\ llNode \in Nodes /\ Chained(llNode, llList, s)
        /\ llList \in [head : Link, tail : Link, len : Nat] /\ llList.len = k /\ DOMAIN s = 1 .. k
    BY DEF ListInv, ListTypes, ListChain, Chained, Nodes
  <1>2. PICK c \in 1 .. k : s[c] = n /\ t = Lists!RemoveAt(s, c)
    BY <1>1 DEF Lists!ListRemove
  <1>0. c \in Nat /\ k \in Nat /\ 1 <= c /\ c <= k
    BY <1>1, <1>2
  <1>3. /\ t \in Seq(ListNodes) /\ Len(t) = k - 1
        /\ \A i \in 1 .. k - 1 : t[i] = IF i < c THEN s[i] ELSE s[i + 1]
    BY <1>1, <1>2, RemovedAt
  <1> HIDE DEF t
  <1>4. llNode[n] # Null /\ a = Before(s, c) /\ b = After(s, c)
    BY <1>1, <1>2 DEF Chained
  <1>5. /\ a \in Link /\ (a = Null <=> c = 1) /\ (c > 1 => a = s[c - 1] /\ a \in ListNodes)
        /\ b \in Link /\ (b = Null <=> c = k) /\ (c < k => b = s[c + 1] /\ b \in ListNodes)
    BY <1>1, <1>2, <1>4, ListAssumption DEF Before, After, Link
  <1>6. /\ llNode' = [right EXCEPT ![n] = Null]
        /\ llList' = [head |-> IF a = Null THEN b ELSE llList.head,
                      tail |-> IF b = Null THEN a ELSE llList.tail,
                      len  |-> IF llList.len > 0 THEN llList.len - 1 ELSE 0]
    BY DEF Lists!ListRemove, Lists!Unlinked, Lists!Shortened
  <1> HIDE DEF a, b
  <1>7. llList' \in [head : Link, tail : Link, len : Nat] /\ llList'.len = k - 1
    BY <1>1, <1>2, <1>5, <1>6
  <1>8. llList'.head = After(t, 0)
    <2>1. CASE c = 1
      BY <1>1, <1>3, <1>4, <1>5, <1>6, <2>1 DEF After
    <2>2. CASE c > 1
      BY SMTT(30), <1>1, <1>2, <1>3, <1>5, <1>6, <2>2 DEF Chained, After
    <2> QED
      BY <1>2, <2>1, <2>2
  <1>9. llList'.tail = Before(t, k)
    <2>1. CASE c = k
      BY <1>1, <1>2, <1>3, <1>4, <1>5, <1>6, <2>1 DEF Before
    <2>2. CASE c < k
      <3>1. llList'.tail = s[k]
        BY <1>1, <1>2, <1>5, <1>6, <2>2 DEF Chained, Before
      <3>2. Before(t, k) = t[k - 1] /\ k - 1 \in 1 .. k - 1 /\ ~(k - 1 < c) /\ (k - 1) + 1 = k
        BY <1>1, <1>2, <2>2 DEF Before
      <3> QED
        BY <1>3, <3>1, <3>2
    <2> QED
      BY <1>0, <2>1, <2>2
  \* What each node but n holds then.
  <1>10. /\ a # Null => a \in ListNodes /\ llNode[a] # Null
         /\ b # Null => b \in ListNodes /\ llNode[b] # Null
    <2>1. c > 1 => c - 1 \in 1 .. k
      BY <1>1, <1>2
    <2>2. c < k => c + 1 \in 1 .. k
      BY <1>1, <1>2
    <2>3. c > 1 => a \in ListNodes /\ llNode[a] # Null
      BY <1>1, <1>5, <2>1 DEF Chained
    <2>4. c < k => b \in ListNodes /\ llNode[b] # Null
      BY <1>1, <1>5, <2>2 DEF Chained
    <2>5. (a # Null => c > 1) /\ (b # Null => c < k)
      BY <1>0, <1>5
    <2> QED
      BY <2>3, <2>4, <2>5
  <1>11. /\ left \in Nodes
         /\ \A m \in ListNodes : llNode[m] # Null =>
              /\ left[m] # Null /\ left[m].prev = llNode[m].prev
              /\ left[m].next = IF m = a THEN b ELSE llNode[m].next
    <2>1. llNode \in Nodes /\ a \in Link /\ b \in Link /\ (a # Null => a \in ListNodes /\ llNode[a] # Null)
      BY <1>1, <1>5, <1>10
    <2> QED
      BY <2>1, NextMoved
  <1> HIDE DEF left
  <1>12. /\ right \in Nodes
         /\ \A m \in ListNodes : left[m] # Null =>
              /\ right[m] # Null /\ right[m].next = left[m].next
              /\ right[m].prev = IF m = b THEN a ELSE left[m].prev
    <2>1. left \in Nodes /\ a \in Link /\ b \in Link /\ (b # Null => b \in ListNodes /\ left[b] # Null)
      BY <1>5, <1>10, <1>11
    <2> QED
      BY <2>1, PrevMoved
  <1> HIDE DEF right
  <1>13. /\ llNode' \in Nodes
         /\ \A m \in ListNodes : m # n => llNode'[m] = right[m]
    BY <1>6, <1>12 DEF Nodes
  <1>14. ASSUME NEW i \in 1 .. k - 1
         PROVE  /\ llNode'[t[i]] # Null
                /\ llNode'[t[i]].next = After(t, i) /\ llNode'[t[i]].prev = Before(t, i)
    <2> DEFINE j == IF i < c THEN i ELSE i + 1
               m == s[j]
    <2>1. j \in 1 .. k /\ j # c /\ t[i] = m /\ m \in ListNodes /\ m # n
      BY <1>1, <1>2, <1>3 DEF Distinct
    <2>2. llNode[m] # Null /\ llNode[m].next = After(s, j) /\ llNode[m].prev = Before(s, j)
      BY <1>1, <2>1 DEF Chained
    <2>3. m = a <=> j = c - 1
      <3>1. CASE c = 1
        BY <1>1, <1>5, <2>1, <3>1, ListAssumption
      <3>2. CASE c > 1
        <4>1. a = s[c - 1]
          BY <1>5, <3>2
        <4>2. c - 1 \in 1 .. k /\ j \in 1 .. k
          BY <1>0, <2>1, <3>2
        <4> QED
          BY <1>1, <2>1, <4>1, <4>2 DEF Distinct
      <3> QED
        BY <1>2, <3>1, <3>2
    <2>4. m = b <=> j = c + 1
      <3>1. CASE c = k
        <4>1. m # b /\ j # c + 1
          BY <1>0, <1>5, <2>1, <3>1, ListAssumption
        <4> QED
          BY <4>1
      <3>2. CASE c < k
        <4>1. b = s[c + 1] /\ c + 1 \in 1 .. k
          BY <1>0, <1>5, <3>2
        <4> QED
          BY <1>1, <2>1, <4>1 DEF Distinct
      <3> QED
        BY <1>0, <3>1, <3>2
    <2>5. llNode'[m] # Null /\ llNode'[m].next = (IF j = c - 1 THEN b ELSE After(s, j))
          /\ llNode'[m].prev = (IF j = c + 1 THEN a ELSE Before(s, j))
      BY <1>11, <1>12, <1>13, <2>1, <2>2, <2>3, <2>4
    <2> HIDE DEF m
    <2>6. After(t, i) = IF j = c - 1 THEN b ELSE After(s, j)
      BY SMTT(30), <1>0, <1>3, <1>4 DEF After
    <2>7. Before(t, i) = IF j = c + 1 THEN a ELSE Before(s, j)
      <3>1. CASE i < c
        <4>1. j = i /\ j # c + 1 /\ (i > 1 => i - 1 \in 1 .. k - 1 /\ i - 1 < c)
          BY <1>0, <3>1
        <4>2. i > 1 => t[i - 1] = s[i - 1]
          BY <1>3, <4>1
        <4> QED
          BY <4>1, <4>2 DEF Before
      <3>2. CASE i = c
        <4>1. j = c + 1 /\ (i > 1 => i - 1 \in 1 .. k - 1 /\ i - 1 < c)
          BY <1>0, <3>2
        <4>2. i > 1 => t[i - 1] = s[i - 1]
          BY <1>3, <4>1
        <4> QED
          BY <1>4, <3>2, <4>1, <4>2 DEF Before
      <3>3. CASE i > c
        <4>1. j = i + 1 /\ j # c + 1 /\ j > 1 /\ i > 1 /\ i - 1 \in 1 .. k - 1 /\ ~(i - 1 < c)
              /\ (i - 1) + 1 = i /\ j - 1 = i
          BY <1>0, <3>3
        <4>2. t[i - 1] = s[(i - 1) + 1]
          BY <1>3, <4>1
        <4> QED
          BY <4>1, <4>2 DEF Before
      <3> QED
        BY <1>0, <3>1, <3>2, <3>3
    <2> QED
      BY <2>1, <2>5, <2>6, <2>7
  <1> QED
    BY <1>1, <1>3, <1>7, <1>8, <1>9, <1>13, <1>14 DEF Chained, t

(* No list has a node twice. *)
LEMMA DistinctStays ==
    ASSUME ListInv, llList # Null, NEW n \in ListNodes,
           Lists!RPush(n) \/ Lists!LPush(n) \/ Lists!ListRemove(n) \/ Lists!RPop \/ Lists!LPop
    PROVE  llItems' \in Seq(ListNodes) /\ Distinct(llItems')
  <1> DEFINE s == llItems
             t == llItems'
             c == Len(s)
  <1>1. s \in Seq(ListNodes) /\ c \in Nat /\ DOMAIN s = 1 .. c /\ \A i, j \in 1 .. c : s[i] = s[j] => i = j
    BY DEF ListInv, ListTypes, Distinct
  <1> SUFFICES t \in Seq(ListNodes) /\ \A i, j \in 1 .. Len(t) : t[i] = t[j] => i = j
    BY DEF Distinct
  <1>2. CASE Lists!RPush(n)
    <2>1. \A i \in 1 .. c : s[i] # n
      BY <1>2, LooseNode DEF Lists!RPush
    <2>2. t \in Seq(ListNodes) /\ Len(t) = c + 1 /\ t[c + 1] = n /\ \A i \in 1 .. c : t[i] = s[i]
      BY <1>1, <1>2 DEF Lists!RPush
    <2> HIDE DEF t, s, c
    <2> QED
      BY <1>1, <2>1, <2>2
  <1>3. CASE Lists!LPush(n)
    <2>1. \A i \in 1 .. c : s[i] # n
      BY <1>3, LooseNode DEF Lists!LPush
    <2>2. t \in Seq(ListNodes) /\ Len(t) = c + 1 /\ t[1] = n /\ \A i \in 2 .. c + 1 : t[i] = s[i - 1]
      BY <1>1, <1>3 DEF Lists!LPush
    <2> HIDE DEF t, s, c
    <2>3. \A i \in 2 .. c + 1 : i - 1 \in 1 .. c
      BY <1>1
    <2> SUFFICES ASSUME NEW i \in 1 .. c + 1, NEW j \in 1 .. c + 1, t[i] = t[j] PROVE i = j
      BY <2>2
    <2>4. CASE i > 1 /\ j > 1
      BY <1>1, <2>2, <2>3, <2>4
    <2>5. CASE i = 1 \/ j = 1
      BY <1>1, <2>1, <2>2, <2>3, <2>5
    <2> QED
      BY <1>1, <2>4, <2>5
  <1>4. CASE Lists!ListRemove(n)
    <2>1. PICK k \in 1 .. c : t = Lists!RemoveAt(s, k)
      BY <1>1, <1>4 DEF Lists!ListRemove
    <2>2. t \in Seq(ListNodes) /\ Len(t) = c - 1 /\ \A i \in 1 .. c - 1 : t[i] = IF i < k THEN s[i] ELSE s[i + 1]
      BY <1>1, <2>1, RemovedAt
    <2> HIDE DEF t, s, c
    <2>3. \A i \in 1 .. c - 1 : i \in 1 .. c /\ i + 1 \in 1 .. c
      BY <1>1
    <2> SUFFICES ASSUME NEW i \in 1 .. c - 1, NEW j \in 1 .. c - 1, t[i] = t[j] PROVE i = j
      BY <2>2
    <2>4. (IF i < k THEN i ELSE i + 1) = (IF j < k THEN j ELSE j + 1)
      BY <1>1, <2>2, <2>3
    <2> QED
      BY <1>1, <2>1, <2>4
  <1>5. CASE Lists!RPop
    <2>1. c > 0
      BY <1>1, <1>5 DEF Lists!RPop, ListInv, ListChain, Chained
    <2>2. t \in Seq(ListNodes) /\ Len(t) = c - 1 /\ \A i \in 1 .. c - 1 : t[i] = s[i]
      BY <1>1, <1>5, <2>1 DEF Lists!RPop, Lists!Front
    <2> HIDE DEF t, s, c
    <2> QED
      BY <1>1, <2>2
  <1>6. CASE Lists!LPop
    <2>1. c > 0
      BY <1>1, <1>6 DEF Lists!LPop, ListInv, ListChain, Chained
    <2>2. t \in Seq(ListNodes) /\ Len(t) = c - 1 /\ \A i \in 1 .. c - 1 : t[i] = s[i + 1]
      BY <1>1, <1>6, <2>1 DEF Lists!LPop
    <2> HIDE DEF t, s, c
    <2> SUFFICES ASSUME NEW i \in 1 .. c - 1, NEW j \in 1 .. c - 1, t[i] = t[j] PROVE i = j
      BY <2>2
    <2>3. i + 1 \in 1 .. c /\ j + 1 \in 1 .. c /\ s[i + 1] = s[j + 1]
      BY <1>1, <2>2
    <2>4. i + 1 = j + 1
      BY <1>1, <2>3
    <2> QED
      BY <2>4
  <1> QED
    BY <1>2, <1>3, <1>4, <1>5, <1>6

(* A new list is empty. *)
LEMMA ListInit == Lists!Init => ListInv
  <1> SUFFICES ASSUME Lists!Init PROVE ListInv
    OBVIOUS
  <1>1. llItems = <<>> /\ llItems \in Seq(ListNodes) /\ Len(llItems) = 0
    BY DEF Lists!Init
  <1>2. llNode \in [ListNodes -> Cell \cup {Null}] /\ llIter = Null
    BY DEF Lists!Init
  <1>3. llList = [head |-> Null, tail |-> Null, len |-> 0]
    BY DEF Lists!Init
  <1>4. llList \in [head : Link, tail : Link, len : Nat]
    BY <1>3 DEF Link
  <1>5. Chained(llNode, llList, llItems)
    BY <1>1, <1>3 DEF Chained, After, Before
  <1>6. llList # Null
    BY <1>4, ListAssumption DEF Link
  <1> QED
    BY <1>1, <1>2, <1>4, <1>5, <1>6 DEF ListInv, ListTypes, ListChain, Distinct

(* What is known while a scan runs. *)
LEMMA ScanFacts ==
    ASSUME ListInv, llIter # Null
    PROVE  /\ llMissed \subseteq Lists!InList /\ llSeen \subseteq Lists!InList
           /\ llCurrent \in llSeen \cup {Null} /\ ScanPlace
           /\ llIter \in [next : Link, direction : {"head", "tail"}]
           /\ Lists!InList = {llItems[i] : i \in 1 .. Len(llItems)}
           /\ llList # Null
  <1>1. Scanning /\ llIter \in [next : Link, direction : {"head", "tail"}] /\ DOMAIN llItems = 1 .. Len(llItems)
        /\ llList # Null
    BY DEF ListInv, ListTypes, ListChain
  <1> QED
    BY <1>1 DEF Scanning, Lists!InList

(* A node that is pushed during a scan is ahead of it, or behind it and not missed. *)
LEMMA ScanGoesOnPushed ==
    ASSUME ListInv, llIter # Null, NEW n \in ListNodes, Lists!RPush(n) \/ Lists!LPush(n)
    PROVE  Scanning'
  <1> DEFINE s == llItems
             t == llItems'
             c == Len(s)
  <1>1. s \in Seq(ListNodes) /\ c \in Nat
    BY DEF ListInv, ListTypes
  <1>2. /\ llMissed \subseteq Lists!InList /\ llSeen \subseteq Lists!InList
        /\ llCurrent \in llSeen \cup {Null} /\ ScanPlace /\ Lists!InList = {s[i] : i \in 1 .. c}
    BY ScanFacts
  <1>3. UNCHANGED <<llIter, llCurrent, llSeen, llMissed>>
    BY DEF Lists!RPush, Lists!LPush
  <1>4. n \notin llMissed /\ n \notin llSeen
    BY <1>2 DEF Lists!RPush, Lists!LPush, Lists!Loose
  <1>5. CASE Lists!RPush(n)
    <2>1. t \in Seq(ListNodes) /\ Len(t) = c + 1 /\ t[c + 1] = n /\ \A i \in 1 .. c : t[i] = s[i]
      BY <1>1, <1>5 DEF Lists!RPush
    <2>2. Lists!InList' = {t[i] : i \in 1 .. c + 1}
      BY <2>1 DEF Lists!InList
    <2> HIDE DEF s, t, c
    <2>3. llMissed' \subseteq Lists!InList' /\ llSeen' \subseteq Lists!InList'
      BY <1>1, <1>2, <1>3, <2>1, <2>2
    <2>4. ScanPlace'
      <3>1. CASE llIter.direction = "head"
        <4>1. PICK p \in 1 .. c + 1 :
                 /\ llIter.next = After(s, p - 1)
                 /\ \A i \in 1 .. c : i < p => s[i] \notin llMissed
                 /\ \A i \in 1 .. c : i >= p => s[i] \notin llSeen
          BY <1>2, <3>1 DEF ScanPlace, s, c
        <4> DEFINE q == IF p = c + 1 THEN c + 2 ELSE p
        <4>2. q \in 1 .. Len(t) + 1
          BY <1>1, <2>1
        <4>3. llIter'.next = After(t, q - 1)
          <5>0. llIter'.next = After(s, p - 1) /\ p \in Nat /\ 1 <= p /\ p <= c + 1
            BY <1>1, <1>3, <4>1
          <5>1. CASE p = c + 1
            <6>1. ~(p - 1 < c) /\ q - 1 = c + 1 /\ ~(c + 1 < c + 1)
              BY <1>1, <5>1
            <6> QED
              BY <2>1, <5>0, <6>1 DEF After, c
          <5>2. CASE p # c + 1
            <6>1. p - 1 < c /\ p - 1 < c + 1 /\ (p - 1) + 1 = p /\ q - 1 = p - 1 /\ p \in 1 .. c
              BY <1>1, <5>0, <5>2
            <6>2. After(s, p - 1) = s[p] /\ After(t, p - 1) = t[p]
              BY <2>1, <6>1 DEF After, c
            <6> QED
              BY <2>1, <5>0, <6>1, <6>2
          <5> QED
            BY <5>1, <5>2
        <4>4. \A i \in 1 .. Len(t) : i < q => t[i] \notin llMissed'
          BY <1>1, <1>3, <1>4, <2>1, <4>1
        <4>5. \A i \in 1 .. Len(t) : i >= q => t[i] \notin llSeen'
          BY <1>1, <1>3, <1>4, <2>1, <4>1
        <4> HIDE DEF q
        <4> QED
          BY <1>3, <3>1, <4>2, <4>3, <4>4, <4>5 DEF ScanPlace, t
      <3>2. CASE llIter.direction # "head"
        <4>1. PICK p \in 0 .. c :
                 /\ llIter.next = Before(s, p + 1)
                 /\ \A i \in 1 .. c : i > p => s[i] \notin llMissed
                 /\ \A i \in 1 .. c : i <= p => s[i] \notin llSeen
          BY <1>2, <3>2 DEF ScanPlace, s, c
        <4>2. p \in 0 .. Len(t)
          BY <1>1, <2>1
        <4>3. llIter'.next = Before(t, p + 1)
          BY <1>1, <1>3, <2>1, <4>1 DEF Before
        <4>4. \A i \in 1 .. Len(t) : i > p => t[i] \notin llMissed'
          BY <1>1, <1>3, <1>4, <2>1, <4>1
        <4>5. \A i \in 1 .. Len(t) : i <= p => t[i] \notin llSeen'
          BY <1>1, <1>3, <1>4, <2>1, <4>1
        <4> QED
          BY <1>3, <3>2, <4>2, <4>3, <4>4, <4>5 DEF ScanPlace, t
      <3> QED
        BY <3>1, <3>2
    <2> QED
      BY <1>2, <1>3, <2>3, <2>4 DEF Scanning
  <1>6. CASE Lists!LPush(n)
    <2>1. t \in Seq(ListNodes) /\ Len(t) = c + 1 /\ t[1] = n /\ \A i \in 2 .. c + 1 : t[i] = s[i - 1]
      BY <1>1, <1>6 DEF Lists!LPush
    <2>2. Lists!InList' = {t[i] : i \in 1 .. c + 1}
      BY <2>1 DEF Lists!InList
    <2> HIDE DEF s, t, c
    <2>3. llMissed' \subseteq Lists!InList' /\ llSeen' \subseteq Lists!InList'
      <3>1. \A i \in 1 .. c : i + 1 \in 1 .. c + 1 /\ t[i + 1] = s[i]
        BY SMTT(30), <1>1, <2>1
      <3> QED
        BY <1>2, <1>3, <2>2, <3>1
    <2>5. \A i \in 2 .. c + 1 : i - 1 \in 1 .. c
      BY <1>1
    <2>4. ScanPlace'
      <3>1. CASE llIter.direction = "head"
        <4>1. PICK p \in 1 .. c + 1 :
                 /\ llIter.next = After(s, p - 1)
                 /\ \A i \in 1 .. c : i < p => s[i] \notin llMissed
                 /\ \A i \in 1 .. c : i >= p => s[i] \notin llSeen
          BY <1>2, <3>1 DEF ScanPlace, s, c
        <4>2. p + 1 \in 1 .. Len(t) + 1
          BY <1>1, <2>1
        <4>0. llIter'.next = After(s, p - 1) /\ p \in Nat /\ 1 <= p /\ p <= c + 1
          BY <1>1, <1>3, <4>1
        <4>3. llIter'.next = After(t, (p + 1) - 1)
          <5>1. CASE p = c + 1
            <6>1. ~(p - 1 < c) /\ (p + 1) - 1 = c + 1 /\ ~(c + 1 < c + 1)
              BY <1>1, <5>1
            <6> QED
              BY <2>1, <4>0, <6>1 DEF After, c
          <5>2. CASE p # c + 1
            <6>1. p - 1 < c /\ p < c + 1 /\ (p - 1) + 1 = p /\ (p + 1) - 1 = p /\ p + 1 \in 2 .. c + 1
              BY <1>1, <4>0, <5>2
            <6>2. After(s, p - 1) = s[p] /\ After(t, p) = t[p + 1] /\ t[p + 1] = s[p]
              BY <2>1, <6>1 DEF After, c
            <6> QED
              BY <4>0, <6>1, <6>2
          <5> QED
            BY <5>1, <5>2
        <4>4. \A i \in 1 .. Len(t) : i < p + 1 => t[i] \notin llMissed'
          <5> SUFFICES ASSUME NEW i \in 1 .. c + 1, i < p + 1 PROVE t[i] \notin llMissed
            BY <1>3, <2>1
          <5>1. CASE i = 1
            BY <1>4, <2>1, <5>1
          <5>2. CASE i # 1
            <6>1. i \in 2 .. c + 1 /\ i - 1 \in 1 .. c /\ i - 1 < p
              BY <1>1, <4>0, <5>2
            <6> QED
              BY <2>1, <4>1, <6>1
          <5> QED
            BY <5>1, <5>2
        <4>5. \A i \in 1 .. Len(t) : i >= p + 1 => t[i] \notin llSeen'
          <5> SUFFICES ASSUME NEW i \in 1 .. c + 1, i >= p + 1 PROVE t[i] \notin llSeen
            BY <1>3, <2>1
          <5>1. i \in 2 .. c + 1 /\ i - 1 \in 1 .. c /\ i - 1 >= p
            BY <1>1, <4>0
          <5> QED
            BY <2>1, <4>1, <5>1
        <4> QED
          BY <1>3, <3>1, <4>2, <4>3, <4>4, <4>5 DEF ScanPlace, t
      <3>2. CASE llIter.direction # "head"
        <4>1. PICK p \in 0 .. c :
                 /\ llIter.next = Before(s, p + 1)
                 /\ \A i \in 1 .. c : i > p => s[i] \notin llMissed
                 /\ \A i \in 1 .. c : i <= p => s[i] \notin llSeen
          BY <1>2, <3>2 DEF ScanPlace, s, c
        <4> DEFINE q == IF p = 0 THEN 0 ELSE p + 1
        <4>2. q \in 0 .. Len(t)
          BY <1>1, <2>1
        <4>3. llIter'.next = Before(t, q + 1)
          BY <1>1, <1>3, <2>1, <4>1 DEF Before
        <4>4. \A i \in 1 .. Len(t) : i > q => t[i] \notin llMissed'
          <5> SUFFICES ASSUME NEW i \in 1 .. c + 1, i > q PROVE t[i] \notin llMissed
            BY <1>3, <2>1
          <5>1. CASE i = 1
            BY <1>4, <2>1, <5>1
          <5>2. CASE i # 1
            <6>1. i \in 2 .. c + 1 /\ i - 1 \in 1 .. c /\ i - 1 > p
              BY <1>1, <4>1, <5>2
            <6> QED
              BY <2>1, <4>1, <6>1
          <5> QED
            BY <5>1, <5>2
        <4>5. \A i \in 1 .. Len(t) : i <= q => t[i] \notin llSeen'
          <5> SUFFICES ASSUME NEW i \in 1 .. c + 1, i <= q PROVE t[i] \notin llSeen
            BY <1>3, <2>1
          <5>1. CASE i = 1
            BY <1>4, <2>1, <5>1
          <5>2. CASE i # 1
            <6>1. i \in 2 .. c + 1 /\ i - 1 \in 1 .. c /\ i - 1 <= p
              BY <1>1, <4>1, <5>2
            <6> QED
              BY <2>1, <4>1, <6>1
          <5> QED
            BY <5>1, <5>2
        <4> HIDE DEF q
        <4> QED
          BY <1>3, <3>2, <4>2, <4>3, <4>4, <4>5 DEF ScanPlace, t
      <3> QED
        BY <3>1, <3>2
    <2> QED
      BY <1>2, <1>3, <2>3, <2>4 DEF Scanning
  <1> QED
    BY <1>5, <1>6

(* Removing the node that was returned last leaves the place between its neighbours. *)
LEMMA ScanGoesOnRemoved ==
    ASSUME ListInv, llIter # Null, NEW n \in ListNodes, Lists!ListRemove(n)
    PROVE  Scanning'
  <1> DEFINE s == llItems
             t == llItems'
             c == Len(s)
  <1>1. s \in Seq(ListNodes) /\ c \in Nat /\ DOMAIN s = 1 .. c /\ \A i, j \in 1 .. c : s[i] = s[j] => i = j
    BY DEF ListInv, ListTypes, Distinct
  <1>2. /\ llMissed \subseteq Lists!InList /\ llSeen \subseteq Lists!InList
        /\ llCurrent \in llSeen \cup {Null} /\ ScanPlace /\ Lists!InList = {s[i] : i \in 1 .. c}
    BY ScanFacts
  <1>3. llIter' = llIter /\ llMissed' = llMissed /\ llSeen' = llSeen \ {n} /\ llCurrent' = Null
    BY DEF Lists!ListRemove
  <1>4. n \in llSeen
    BY <1>2, ListAssumption DEF Lists!ListRemove, Lists!Removable
  <1>5. PICK k \in 1 .. c : s[k] = n /\ t = Lists!RemoveAt(s, k)
    BY <1>1 DEF Lists!ListRemove
  <1>6. t \in Seq(ListNodes) /\ Len(t) = c - 1 /\ \A i \in 1 .. c - 1 : t[i] = IF i < k THEN s[i] ELSE s[i + 1]
    BY <1>1, <1>5, RemovedAt
  <1>7. Lists!InList' = {t[i] : i \in 1 .. c - 1}
    BY <1>6 DEF Lists!InList
  <1> HIDE DEF s, t, c
  <1>8. k \in Nat /\ 1 <= k /\ k <= c
    BY <1>1, <1>5
  <1>9. \A i \in 1 .. c : i # k => s[i] \in Lists!InList'
    <2> SUFFICES ASSUME NEW i \in 1 .. c, i # k PROVE s[i] \in Lists!InList'
      OBVIOUS
    <2> DEFINE j == IF i < k THEN i ELSE i - 1
    <2>1. j \in 1 .. c - 1 /\ t[j] = s[i]
      <3>1. CASE i < k
        BY <1>1, <1>6, <1>8, <3>1
      <3>2. CASE i > k
        <4>1. i - 1 \in 1 .. c - 1 /\ ~(i - 1 < k) /\ (i - 1) + 1 = i /\ j = i - 1
          BY <1>1, <1>8, <3>2
        <4> QED
          BY <1>6, <4>1
      <3> QED
        BY <1>1, <1>8, <3>1, <3>2
    <2> QED
      BY <1>7, <2>1
  <1>10. \A i \in 1 .. c - 1 : i \in 1 .. c /\ i + 1 \in 1 .. c
    BY <1>1
  <1>11. ScanPlace' /\ n \notin llMissed
    <2>1. CASE llIter.direction = "head"
      <3>1. PICK p \in 1 .. c + 1 :
               /\ llIter.next = After(s, p - 1)
               /\ \A i \in 1 .. c : i < p => s[i] \notin llMissed
               /\ \A i \in 1 .. c : i >= p => s[i] \notin llSeen
        BY <1>2, <2>1 DEF ScanPlace, s, c
      <3>2. k < p
        BY <1>1, <1>4, <1>5, <3>1
      <3>3. p - 1 \in 1 .. Len(t) + 1
        BY <1>1, <1>6, <1>8, <3>2
      <3>4. llIter'.next = After(t, (p - 1) - 1)
        BY <1>1, <1>3, <1>6, <1>8, <3>1, <3>2 DEF After
      <3>5. \A i \in 1 .. Len(t) : i < p - 1 => t[i] \notin llMissed'
        BY <1>1, <1>3, <1>6, <1>8, <1>10, <3>1, <3>2
      <3>6. \A i \in 1 .. Len(t) : i >= p - 1 => t[i] \notin llSeen'
        BY <1>1, <1>3, <1>6, <1>8, <1>10, <3>1, <3>2
      <3>7. n \notin llMissed
        BY <1>5, <3>1, <3>2
      <3> QED
        BY <1>3, <2>1, <3>3, <3>4, <3>5, <3>6, <3>7 DEF ScanPlace, t
    <2>2. CASE llIter.direction # "head"
      <3>1. PICK p \in 0 .. c :
               /\ llIter.next = Before(s, p + 1)
               /\ \A i \in 1 .. c : i > p => s[i] \notin llMissed
               /\ \A i \in 1 .. c : i <= p => s[i] \notin llSeen
        BY <1>2, <2>2 DEF ScanPlace, s, c
      <3>2. k > p
        BY <1>1, <1>4, <1>5, <3>1
      <3>3. p \in 0 .. Len(t)
        BY <1>1, <1>6, <1>8, <3>2
      <3>4. llIter'.next = Before(t, p + 1)
        BY <1>1, <1>3, <1>6, <1>8, <3>1, <3>2 DEF Before
      <3>5. \A i \in 1 .. Len(t) : i > p => t[i] \notin llMissed'
        BY <1>1, <1>3, <1>6, <1>8, <1>10, <3>1, <3>2
      <3>6. \A i \in 1 .. Len(t) : i <= p => t[i] \notin llSeen'
        BY <1>1, <1>3, <1>6, <1>8, <1>10, <3>1, <3>2
      <3>7. n \notin llMissed
        BY <1>5, <3>1, <3>2
      <3> QED
        BY <1>3, <2>2, <3>3, <3>4, <3>5, <3>6, <3>7 DEF ScanPlace, t
    <2> QED
      BY <2>1, <2>2
  <1>12. llMissed' \subseteq Lists!InList' /\ llSeen' \subseteq Lists!InList' /\ llCurrent' \in llSeen' \cup {Null}
    BY <1>2, <1>3, <1>5, <1>9, <1>11
  <1> QED
    BY <1>11, <1>12 DEF Scanning

(* A scan begins with all items ahead, *)
LEMMA ScanBegins ==
    ASSUME ListInv, llList # Null, NEW direction \in {"head", "tail"}, Lists!IteratorNew(direction)
    PROVE  ListInv'
  <1> DEFINE s == llItems
             c == Len(s)
  <1>1. s \in Seq(ListNodes) /\ c \in Nat /\ llList.head = After(s, 0) /\ llList.tail = Before(s, c + 1)
        /\ llList \in [head : Link, tail : Link, len : Nat]
    BY DEF ListInv, ListTypes, ListChain, Chained
  <1>2. /\ llIter' = [next |-> Lists!End(direction), direction |-> direction]
        /\ llCurrent' = Null /\ llSeen' = {} /\ llMissed' = Lists!InList
        /\ llNode' = llNode /\ llList' = llList /\ llItems' = s
    BY DEF Lists!IteratorNew
  <1>3. Lists!InList' = Lists!InList
    BY <1>2 DEF Lists!InList
  <1>4. llIter' \in [next : Link, direction : {"head", "tail"}]
    BY <1>1, <1>2 DEF Lists!End
  <1>5. ScanPlace'
    <2>1. CASE direction = "head"
      <3>1. llIter'.direction = "head" /\ llIter'.next = After(s, 1 - 1)
        BY <1>1, <1>2, <2>1 DEF Lists!End
      <3>2. 1 \in 1 .. c + 1 /\ \A i \in 1 .. c : ~(i < 1)
        BY <1>1
      <3> QED
        BY <1>2, <3>1, <3>2 DEF ScanPlace
    <2>2. CASE direction = "tail"
      <3>1. llIter'.direction = "tail" /\ llIter'.next = Before(s, c + 1)
        BY <1>1, <1>2, <2>2 DEF Lists!End
      <3>2. c \in 0 .. c /\ \A i \in 1 .. c : ~(i > c)
        BY <1>1
      <3> QED
        BY <1>2, <3>1, <3>2 DEF ScanPlace
    <2> QED
      BY <2>1, <2>2
  <1>6. Scanning'
    BY <1>2, <1>3, <1>5 DEF Scanning
  <1>7. ListTypes'
    BY <1>2, <1>4 DEF ListInv, ListTypes
  <1>8. ListChain'
    BY <1>2 DEF ListInv, ListChain
  <1> QED
    BY <1>6, <1>7, <1>8 DEF ListInv

(* and each step returns the item it stood before. *)
LEMMA ScanSteps ==
    ASSUME ListInv, llList # Null, Lists!IteratorNext
    PROVE  ListInv'
  <1> DEFINE s == llItems
             c == Len(s)
             x == llIter.next
  <1>1. s \in Seq(ListNodes) /\ c \in Nat /\ Chained(llNode, llList, s)
        /\ \A i, j \in 1 .. c : s[i] = s[j] => i = j
    BY DEF ListInv, ListTypes, ListChain, Distinct
  <1>2. /\ llIter # Null /\ x # Null /\ llIter' = [llIter EXCEPT !.next = Lists!Behind(x, llIter.direction)]
        /\ llCurrent' = x /\ llSeen' = llSeen \cup {x} /\ llMissed' = llMissed \ {x}
        /\ llNode' = llNode /\ llList' = llList /\ llItems' = s
    BY DEF Lists!IteratorNext
  <1>3. /\ llMissed \subseteq Lists!InList /\ llSeen \subseteq Lists!InList
        /\ ScanPlace /\ Lists!InList = {s[i] : i \in 1 .. c}
        /\ llIter \in [next : Link, direction : {"head", "tail"}]
    BY <1>2, ScanFacts
  <1>4. Lists!InList' = Lists!InList
    BY <1>2 DEF Lists!InList
  <1>5. /\ llIter'.direction = llIter.direction /\ llIter'.next = Lists!Behind(x, llIter.direction)
        /\ Lists!Behind(x, llIter.direction) \in Link => llIter' \in [next : Link, direction : {"head", "tail"}]
    BY <1>2, <1>3
  <1> HIDE DEF x
  <1>6. x \in Lists!InList /\ ScanPlace' /\ Lists!Behind(x, llIter.direction) \in Link
    <2>1. CASE llIter.direction = "head"
      <3>1. PICK p \in 1 .. c + 1 :
               /\ llIter.next = After(s, p - 1)
               /\ \A i \in 1 .. c : i < p => s[i] \notin llMissed
               /\ \A i \in 1 .. c : i >= p => s[i] \notin llSeen
        BY <1>3, <2>1 DEF ScanPlace
      <3>2. p \in 1 .. c /\ x = s[p]
        BY <1>1, <1>2, <3>1 DEF After, x
      <3>3. Lists!Behind(x, llIter.direction) = After(s, p) /\ After(s, p) \in Link
        BY <1>1, <2>1, <3>2 DEF Lists!Behind, Chained, After, Link
      <3>4. p + 1 \in 1 .. c + 1 /\ llIter'.next = After(s, (p + 1) - 1)
        BY <1>1, <1>5, <3>2, <3>3
      <3>5. \A i \in 1 .. c : i < p + 1 => s[i] \notin llMissed'
        BY <1>1, <1>2, <3>1, <3>2
      <3>6. \A i \in 1 .. c : i >= p + 1 => s[i] \notin llSeen'
        BY <1>1, <1>2, <3>1, <3>2
      <3>7. ScanPlace'
        BY <1>2, <1>5, <2>1, <3>4, <3>5, <3>6 DEF ScanPlace
      <3> QED
        BY <1>3, <3>2, <3>3, <3>7
    <2>2. CASE llIter.direction # "head"
      <3>1. PICK p \in 0 .. c :
               /\ llIter.next = Before(s, p + 1)
               /\ \A i \in 1 .. c : i > p => s[i] \notin llMissed
               /\ \A i \in 1 .. c : i <= p => s[i] \notin llSeen
        BY <1>3, <2>2 DEF ScanPlace
      <3>2. p \in 1 .. c /\ x = s[p]
        BY <1>1, <1>2, <3>1 DEF Before, x
      <3>3. Lists!Behind(x, llIter.direction) = Before(s, p) /\ Before(s, p) \in Link
        BY <1>1, <2>2, <3>2 DEF Lists!Behind, Chained, Before, Link
      <3>4. p - 1 \in 0 .. c /\ llIter'.next = Before(s, (p - 1) + 1)
        BY <1>1, <1>5, <3>2, <3>3
      <3>5. \A i \in 1 .. c : i > p - 1 => s[i] \notin llMissed'
        BY <1>1, <1>2, <3>1, <3>2
      <3>6. \A i \in 1 .. c : i <= p - 1 => s[i] \notin llSeen'
        BY <1>1, <1>2, <3>1, <3>2
      <3>7. ScanPlace'
        BY <1>2, <1>5, <2>2, <3>4, <3>5, <3>6 DEF ScanPlace
      <3> QED
        BY <1>3, <3>2, <3>3, <3>7
    <2> QED
      BY <2>1, <2>2
  <1>7. Scanning'
    BY <1>2, <1>3, <1>4, <1>6 DEF Scanning
  <1>8. ListTypes'
    BY <1>2, <1>5, <1>6 DEF ListInv, ListTypes
  <1>9. ListChain'
    BY <1>2 DEF ListInv, ListChain
  <1> QED
    BY <1>7, <1>8, <1>9 DEF ListInv

(* The list goes together with all of its nodes. *)
LEMMA ListDestroyed ==
    ASSUME ListInv, llList # Null, Lists!Destroy
    PROVE  ListInv'
  <1> DEFINE s == llItems
             c == Len(s)
  <1>1. s \in Seq(ListNodes) /\ c \in Nat /\ DOMAIN s = 1 .. c /\ llNode \in [ListNodes -> Cell \cup {Null}]
    BY DEF ListInv, ListTypes
  <1>2. llList.len = c /\ Lists!Walk(llList.head, "head") = s
    BY ListWalks
  <1>3. /\ llIter = Null /\ llIter' = Null /\ llItems' = s /\ llList' = Null
        /\ llNode' = [n \in ListNodes |-> IF n \in {s[i] : i \in 1 .. c} THEN Null ELSE llNode[n]]
    BY <1>2 DEF Lists!Destroy
  <1>4. ListTypes'
    BY <1>1, <1>3 DEF ListInv, ListTypes, Cell
  <1>5. ListChain'
    <2>1. ASSUME NEW i \in 1 .. c PROVE llNode'[s[i]] = Null
      BY <1>1, <1>3
    <2> QED
      BY <1>3, <2>1 DEF ListChain
  <1> QED
    BY <1>3, <1>4, <1>5 DEF ListInv

(* A node that is allocated is none of the items. *)
LEMMA NodeAllocated ==
    ASSUME ListInv, llList # Null, NEW n \in ListNodes, NEW v \in Values, Lists!NodeNew(n, v)
    PROVE  ListInv'
  <1> DEFINE new == [prev |-> Null, next |-> Null, val |-> v]
             c == Len(llItems)
  <1>1. /\ llNode[n] = Null /\ llNode' = [llNode EXCEPT ![n] = new]
        /\ UNCHANGED <<llList, llIter, llItems, llCurrent, llSeen, llMissed>>
    BY DEF Lists!NodeNew
  <1>2. new \in Cell
    BY DEF Cell, Link
  <1>3. llNode' \in [ListNodes -> Cell \cup {Null}]
    BY <1>1, <1>2 DEF ListInv, ListTypes
  <1>4. ListTypes'
    BY <1>1, <1>3 DEF ListInv, ListTypes
  <1>5. /\ llItems \in Seq(ListNodes) /\ Chained(llNode, llList, llItems)
        /\ llNode \in [ListNodes -> Cell \cup {Null}]
    BY DEF ListInv, ListTypes, ListChain
  <1>6. ASSUME NEW i \in 1 .. c PROVE llNode'[llItems[i]] = llNode[llItems[i]]
    <2>1. llItems[i] \in ListNodes /\ llNode[llItems[i]] # Null
      BY <1>5 DEF Chained
    <2> QED
      BY <1>1, <1>5, <2>1
  <1>7. Chained(llNode', llList', llItems')
    BY <1>1, <1>5, <1>6 DEF Chained
  <1>8. ListChain'
    BY <1>1, <1>7 DEF ListChain
  <1>9. llIter' # Null => Scanning'
    BY <1>1 DEF ListInv, Scanning, ScanPlace, Lists!InList
  <1> QED
    BY <1>4, <1>8, <1>9 DEF ListInv

(* Every step of the list keeps its invariant. *)
LEMMA ListNext == ListInv /\ [Lists!Next]_listVars => ListInv'
  <1> SUFFICES ASSUME ListInv, [Lists!Next]_listVars PROVE ListInv'
    OBVIOUS
  <1>1. ASSUME NEW n \in ListNodes, llList # Null, Lists!RPush(n) \/ Lists!LPush(n) PROVE ListInv'
    <2>1. llNode' \in Nodes /\ llList' \in [head : Link, tail : Link, len : Nat]
          /\ Chained(llNode', llList', llItems')
      BY <1>1, AppendChained, PrependChained
    <2>2. llItems' \in Seq(ListNodes) /\ Distinct(llItems')
      BY <1>1, DistinctStays
    <2>3. llIter' = llIter
      BY <1>1 DEF Lists!RPush, Lists!LPush
    <2>4. ListTypes'
      BY <2>1, <2>2, <2>3 DEF ListInv, ListTypes, Nodes
    <2>5. llList' # Null
      BY <2>1, ListAssumption DEF Link
    <2>6. ListChain'
      BY <2>1, <2>5 DEF ListChain
    <2>7. llIter' # Null => Scanning'
      BY <1>1, <2>3, ScanGoesOnPushed
    <2> QED
      BY <2>4, <2>6, <2>7 DEF ListInv
  <1>2. ASSUME NEW n \in ListNodes, llList # Null, Lists!ListRemove(n) PROVE ListInv'
    <2>1. llNode' \in Nodes /\ llList' \in [head : Link, tail : Link, len : Nat]
          /\ Chained(llNode', llList', llItems')
      BY <1>2, ItemRemoved
    <2>2. llItems' \in Seq(ListNodes) /\ Distinct(llItems')
      BY <1>2, DistinctStays
    <2>3. llIter' = llIter
      BY <1>2 DEF Lists!ListRemove
    <2>4. ListTypes'
      BY <2>1, <2>2, <2>3 DEF ListInv, ListTypes, Nodes
    <2>5. llList' # Null
      BY <2>1, ListAssumption DEF Link
    <2>6. ListChain'
      BY <2>1, <2>5 DEF ListChain
    <2>7. llIter' # Null => Scanning'
      BY <1>2, <2>3, ScanGoesOnRemoved
    <2> QED
      BY <2>4, <2>6, <2>7 DEF ListInv
  <1>3. ASSUME llList # Null, Lists!RPop \/ Lists!LPop PROVE ListInv'
    <2>1. llNode' \in Nodes /\ llList' \in [head : Link, tail : Link, len : Nat]
          /\ Chained(llNode', llList', llItems')
      BY <1>3, LastPopped, FirstPopped
    <2>2. llItems' \in Seq(ListNodes) /\ Distinct(llItems')
      <3>1. llItems[1] \in ListNodes
        BY <1>3 DEF ListInv, ListTypes, ListChain, Chained, Lists!RPop, Lists!LPop
      <3> QED
        BY <1>3, <3>1, DistinctStays
    <2>3. llIter' = Null
      BY <1>3 DEF Lists!RPop, Lists!LPop
    <2>4. ListTypes'
      BY <2>1, <2>2, <2>3 DEF ListTypes, Nodes
    <2>5. llList' # Null
      BY <2>1, ListAssumption DEF Link
    <2>6. ListChain'
      BY <2>1, <2>5 DEF ListChain
    <2> QED
      BY <2>3, <2>4, <2>6 DEF ListInv
  <1>4. ASSUME Lists!IteratorDestroy PROVE ListInv'
    <2>1. llIter # Null /\ llIter' = Null /\ UNCHANGED <<llNode, llList, llItems>>
      BY <1>4 DEF Lists!IteratorDestroy
    <2>2. ListTypes'
      BY <2>1 DEF ListInv, ListTypes
    <2>3. ListChain'
      BY <2>1 DEF ListInv, ListChain
    <2> QED
      BY <2>1, <2>2, <2>3 DEF ListInv
  <1>5. CASE UNCHANGED listVars
    BY <1>5 DEF listVars, ListInv, ListTypes, ListChain, Scanning, ScanPlace, Lists!InList
  <1>6. CASE Lists!Next
    BY <1>1, <1>2, <1>3, <1>4, <1>6, NodeAllocated, ScanBegins, ScanSteps, ListDestroyed
       DEF Lists!Next
  <1> QED
    BY <1>5, <1>6
=============================================================================
