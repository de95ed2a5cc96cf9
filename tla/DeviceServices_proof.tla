------------------------ MODULE DeviceServices_proof ------------------------
(* The invariants of the services of DeviceServices, each proved inductive    *)
(* for its own initial states and steps; Services_proof makes theorems about  *)
(* the whole of them.                                                         *)
EXTENDS DeviceServices, Integers, Sequences, TLAPS

----------------------------------------------------------------------------
(* The digest of a message in pieces (MessageDigest): the context holds the     *)
(* blocks of what it was given, the bytes behind them and their number, in two  *)
(* words; what is given next comes behind them.                                 *)

(* Sequences with the same elements are the same. *)
LEMMA SameBytes ==
    ASSUME NEW S, NEW x \in Seq(S), NEW y \in Seq(S), Len(x) = Len(y),
           \A i \in 1 .. Len(x) : x[i] = y[i]
    PROVE  x = y
  OBVIOUS

(* Where the elements of two sequences are when one is put behind the other. *)
LEMMA BytesJoined ==
    ASSUME NEW S, NEW x \in Seq(S), NEW y \in Seq(S)
    PROVE  /\ x \o y \in Seq(S) /\ Len(x \o y) = Len(x) + Len(y)
           /\ \A i \in 1 .. Len(x) : (x \o y)[i] = x[i]
           /\ \A i \in 1 .. Len(y) : (x \o y)[Len(x) + i] = y[i]
  OBVIOUS

(* Division with remainder. *)
LEMMA Divides ==
    ASSUME NEW n \in Nat, NEW b \in Nat, b > 0
    PROVE  n \div b \in Nat /\ n % b \in 0 .. b - 1 /\ n = (n \div b) * b + (n % b)
  <1>1. n % b \in 0 .. b - 1
    OBVIOUS
  <1>2. n \div b \in Int
    OBVIOUS
  <1>3. \A m, c \in Int : c > 0 => (m % c) = m - c * (m \div c)
    BY SMTT(20)
  <1> DEFINE d == n \div b
             t == n % b
  <1>6. t = n - b * d /\ d \in Int /\ t \in Int
    BY <1>1, <1>2, <1>3
  <1> HIDE DEF d, t
  <1>4. n = d * b + t
    BY <1>6
  <1>5. ASSUME NEW q \in Int, NEW r \in 0 .. b - 1, n = q * b + r PROVE q >= 0
    <2>1. CASE q <= -1
      <3>1. q * b <= -b
        BY <2>1
      <3> QED
        BY <1>5, <3>1
    <2> QED
      BY <2>1
  <1>7. d >= 0
    BY <1>1, <1>4, <1>5, <1>6 DEF t
  <1>8. d = n \div b /\ t = n % b
    BY DEF d, t
  <1>9. n = (n \div b) * b + (n % b)
    BY <1>4, <1>8
  <1>10. n \div b \in Nat
    BY <1>6, <1>7, <1>8
  <1> QED
    BY <1>1, <1>9, <1>10

LEMMA DividesIs ==
    ASSUME NEW n \in Nat, NEW b \in Nat, b > 0, NEW q \in Nat, NEW r \in 0 .. b - 1, n = q * b + r
    PROVE  n \div b = q /\ n % b = r
  OBVIOUS

(* Remainders add up. *)
LEMMA RemainderAdds ==
    ASSUME NEW b \in Nat, b > 0, NEW x \in Nat, NEW y \in Nat, NEW n \in Nat, x % b = y % b
    PROVE  (x + n) % b = (y + n) % b
  <1> DEFINE r == x % b
             c == (r + n) \div b
             t == (r + n) % b
             p == x \div b
             q == y \div b
  <1>1. r \in Nat /\ r + n \in Nat
    BY Divides
  <1>2. x = p * b + r /\ y = q * b + r /\ p \in Nat /\ q \in Nat
    BY Divides
  <1>3. r + n = c * b + t /\ c \in Nat /\ t \in 0 .. b - 1
    BY <1>1, Divides
  <1> HIDE DEF r, c, t, p, q
  <1>4. x + n = (p + c) * b + t /\ p + c \in Nat
    <2>1. (p + c) * b = p * b + c * b
      BY <1>2, <1>3
    <2>2. p * b \in Nat /\ c * b \in Nat
      BY <1>2, <1>3
    <2> QED
      BY <1>1, <1>2, <1>3, <2>1, <2>2
  <1>5. y + n = (q + c) * b + t /\ q + c \in Nat
    <2>1. (q + c) * b = q * b + c * b
      BY <1>2, <1>3
    <2>2. q * b \in Nat /\ c * b \in Nat
      BY <1>2, <1>3
    <2> QED
      BY <1>1, <1>2, <1>3, <2>1, <2>2
  <1>6. (x + n) % b = t
    BY <1>3, <1>4, DividesIs
  <1>7. (y + n) % b = t
    <2>1. y + n \in Nat
      OBVIOUS
    <2> QED
      BY <1>3, <1>5, <2>1, DividesIs
  <1> QED
    BY <1>6, <1>7

(* A remainder by a multiple keeps the remainder. *)
LEMMA RemainderStays ==
    ASSUME NEW b \in Nat, b > 0, NEW w \in Nat, w > 0, w % b = 0, NEW x \in Nat
    PROVE  (x % w) % b = x % b
  <1> DEFINE e == w \div b
             a == x \div w
             y == x % w
             p == y \div b
             r == y % b
  <1>1. w = e * b /\ e \in Nat
    <2>1. w = e * b + (w % b) /\ e \in Nat
      BY Divides
    <2>2. e * b \in Nat
      BY <2>1
    <2> HIDE DEF e
    <2> QED
      BY <2>1, <2>2
  <1>2. x = a * w + y /\ a \in Nat /\ y \in Nat
    BY Divides
  <1>3. y = p * b + r /\ p \in Nat /\ r \in 0 .. b - 1
    BY <1>2, Divides
  <1> HIDE DEF e, a, p, r
  <1>4. x = (a * e + p) * b + r /\ a * e + p \in Nat
    <2> HIDE DEF y
    <2>1. a * w = (a * e) * b
      BY <1>1, <1>2
    <2>2. a * e \in Nat
      BY <1>1, <1>2
    <2>3. (a * e + p) * b = (a * e) * b + p * b
      BY <1>3, <2>2
    <2>4. (a * e) * b \in Nat /\ p * b \in Nat
      BY <1>3, <2>2
    <2> QED
      BY <1>2, <1>3, <2>1, <2>2, <2>3, <2>4
  <1>5. x % b = r
    BY <1>3, <1>4, DividesIs
  <1> QED
    BY <1>5 DEF r, y
-----------------------------------------------------------------------------
(* A part of two sequences that lies in one of them. *)
LEMMA PartOfLeft ==
    ASSUME NEW S, NEW x \in Seq(S), NEW y \in Seq(S), NEW a \in Nat, NEW b \in Nat, a > 0,
           b <= Len(x)
    PROVE  SubSeq(x \o y, a, b) = SubSeq(x, a, b)
  <1>1. CASE a <= b
    <2> DEFINE u == SubSeq(x \o y, a, b)
               v == SubSeq(x, a, b)
    <2>1. Len(x) \in Nat /\ Len(y) \in Nat
      OBVIOUS
    <2>2. x \o y \in Seq(S) /\ Len(x \o y) = Len(x) + Len(y)
              /\ \A i \in 1 .. Len(x) : (x \o y)[i] = x[i]
      BY BytesJoined
    <2>3. v \in Seq(S) /\ Len(v) = b - a + 1 /\ \A i \in 1 .. b - a + 1 : v[i] = x[a + i - 1]
      BY <1>1, <2>1
    <2>4. u \in Seq(S) /\ Len(u) = b - a + 1 /\ \A i \in 1 .. b - a + 1 : u[i] = (x \o y)[a + i - 1]
      BY <1>1, <2>1, <2>2
    <2> HIDE DEF u, v
    <2>5. \A i \in 1 .. b - a + 1 : a + i - 1 \in 1 .. Len(x)
      BY <1>1, <2>1
    <2>6. u = v
      BY <2>2, <2>3, <2>4, <2>5, SameBytes
    <2> QED
      BY <2>6 DEF u, v
  <1>2. CASE a > b
    <2>1. SubSeq(x \o y, a, b) = <<>> /\ SubSeq(x, a, b) = <<>>
      BY <1>2
    <2> QED
      BY <2>1
  <1> QED
    BY <1>1, <1>2

LEMMA PartOfRight ==
    ASSUME NEW S, NEW x \in Seq(S), NEW y \in Seq(S), NEW a \in Nat, NEW b \in Nat, a > 0,
           b <= Len(y)
    PROVE  SubSeq(x \o y, Len(x) + a, Len(x) + b) = SubSeq(y, a, b)
  <1> DEFINE n == Len(x)
  <1>0. n \in Nat /\ Len(y) \in Nat
    OBVIOUS
  <1>1. CASE a <= b
    <2> DEFINE z == x \o y
               u == SubSeq(z, n + a, n + b)
               v == SubSeq(y, a, b)
    <2>2. z \in Seq(S) /\ Len(z) = n + Len(y) /\ \A i \in 1 .. Len(y) : z[n + i] = y[i]
      BY BytesJoined
    <2> HIDE DEF n, z
    <2>3. v \in Seq(S) /\ Len(v) = b - a + 1 /\ \A i \in 1 .. b - a + 1 : v[i] = y[a + i - 1]
      BY <1>1, <1>0
    <2>4. u \in Seq(S) /\ Len(u) = b - a + 1 /\ \A i \in 1 .. b - a + 1 : u[i] = z[(n + a) + i - 1]
      BY <1>1, <1>0, <2>2
    <2> HIDE DEF u, v
    <2>5. \A i \in 1 .. b - a + 1 : a + i - 1 \in 1 .. Len(y) /\ (n + a) + i - 1 = n + (a + i - 1)
      BY <1>1, <1>0
    <2>6. u = v
      BY SMTT(30), <2>2, <2>3, <2>4, <2>5, SameBytes
    <2> QED
      BY <2>6 DEF u, v, z, n
  <1>2. CASE a > b
    <2>1. SubSeq(y, a, b) = <<>>
      BY <1>2
    <2>2. SubSeq(x \o y, n + a, n + b) = <<>>
      BY <1>0, <1>2
    <2> QED
      BY <2>1, <2>2
  <1> QED
    BY <1>1, <1>2

(* Sequences put together twice. *)
PutBehind(x, y) == x \o y

LEMMA Associates ==
    ASSUME NEW S, NEW x \in Seq(S), NEW y \in Seq(S), NEW z \in Seq(S)
    PROVE  PutBehind(PutBehind(x, y), z) = PutBehind(x, PutBehind(y, z))
  BY DEF PutBehind

LEMMA NothingJoined ==
    ASSUME NEW S, NEW x \in Seq(S)
    PROVE  x \o <<>> = x /\ <<>> \o x = x
  OBVIOUS

(* A sequence is its beginning and what comes behind it. *)
LEMMA CutInTwo ==
    ASSUME NEW S, NEW x \in Seq(S), NEW n \in 0 .. Len(x)
    PROVE  /\ SubSeq(x, 1, n) \in Seq(S) /\ Len(SubSeq(x, 1, n)) = n
           /\ SubSeq(x, n + 1, Len(x)) \in Seq(S) /\ Len(SubSeq(x, n + 1, Len(x))) = Len(x) - n
           /\ x = SubSeq(x, 1, n) \o SubSeq(x, n + 1, Len(x))
  <1> DEFINE u == SubSeq(x, 1, n)
             v == SubSeq(x, n + 1, Len(x))
  <1>0. Len(x) \in Nat
    OBVIOUS
  <1>1. u \in Seq(S) /\ Len(u) = n /\ \A i \in 1 .. n : u[i] = x[i]
    BY <1>0
  <1>2. v \in Seq(S) /\ Len(v) = Len(x) - n /\ \A i \in 1 .. Len(x) - n : v[i] = x[n + i]
    BY <1>0
  <1> HIDE DEF u, v
  <1>3. u \o v \in Seq(S) /\ Len(u \o v) = Len(x)
    BY <1>0, <1>1, <1>2, BytesJoined
  <1> DEFINE z == u \o v
  <1>4. ASSUME NEW i \in 1 .. Len(x) PROVE z[i] = x[i]
    <2>1. CASE i <= n
      <3>1. i \in 1 .. n
        BY <1>0, <2>1
      <3> QED
        BY <1>1, <1>2, <3>1, BytesJoined
    <2>2. CASE i > n
      <3>1. i - n \in 1 .. Len(x) - n /\ n + (i - n) = i
        BY <1>0, <2>2
      <3>2. z[Len(u) + (i - n)] = v[i - n]
        BY <1>1, <1>2, <3>1, BytesJoined
      <3> HIDE DEF z
      <3> QED
        BY <1>1, <1>2, <3>1, <3>2
    <2> HIDE DEF z
    <2> QED
      BY <1>0, <2>1, <2>2
  <1>5. u \o v = x
    BY <1>3, <1>4, SameBytes
  <1> QED
    BY <1>1, <1>2, <1>5 DEF u, v
-----------------------------------------------------------------------------
\* What is left of a message behind its whole blocks.
Unprocessed(m) == SubSeq(m, (Len(m) \div Block) * Block + 1, Len(m))

(* The blocks of a message. *)
LEMMA PartsTyped ==
    ASSUME NEW S, NEW m \in Seq(S)
    PROVE  /\ Digests!Parts(m) \in Seq(Seq(S)) /\ Len(Digests!Parts(m)) = Len(m) \div Block
           /\ Len(m) \div Block \in Nat /\ (Len(m) \div Block) * Block <= Len(m)
  <1> DEFINE q == Len(m) \div Block
             r == Len(m) % Block
  <1>0. Block \in Nat /\ Block > 0 /\ Len(m) \in Nat
    BY DigestAssumption
  <1>1. q \in Nat /\ Len(m) = q * Block + r /\ r \in 0 .. Block - 1
    BY <1>0, Divides
  <1> HIDE DEF q, r
  <1>2. q * Block \in Nat /\ q * Block <= Len(m)
    <2>1. q * Block \in Nat
      BY <1>0, <1>1
    <2> QED
      BY <1>0, <1>1, <2>1
  <1>3. \A i \in 1 .. q : SubSeq(m, (i - 1) * Block + 1, i * Block) \in Seq(S)
    <2> TAKE i \in 1 .. q
    <2>1. i * Block \in Nat /\ i * Block <= q * Block /\ (i - 1) * Block \in Nat
      BY <1>1, DigestAssumption
    <2>2. i * Block <= Len(m)
      BY <1>1, <1>2, <2>1
    <2> QED
      BY <2>1, <2>2
  <1>4. Digests!Parts(m) = [i \in 1 .. q |-> SubSeq(m, (i - 1) * Block + 1, i * Block)]
    BY DEF Digests!Parts, q
  <1>5. Digests!Parts(m) \in [1 .. q -> Seq(S)]
    BY <1>3, <1>4
  <1>6. Digests!Parts(m) \in Seq(Seq(S)) /\ Len(Digests!Parts(m)) = q
    BY <1>1, <1>5
  <1> QED
    BY <1>1, <1>2, <1>6 DEF q

(* Behind whole blocks, the blocks of what follows come next. *)
LEMMA PartsJoin ==
    ASSUME NEW S, NEW x \in Seq(S), NEW y \in Seq(S), NEW q \in Nat, Len(x) = q * Block
    PROVE  /\ Digests!Parts(x \o y) = Digests!Parts(x) \o Digests!Parts(y)
           /\ Unprocessed(x \o y) = Unprocessed(y)
  <1> DEFINE z == x \o y
             p == Len(y) \div Block
             r == Len(y) % Block
             n == q * Block
  <1>1. Block \in Nat /\ Block > 0
    BY DigestAssumption
  <1>2. Len(y) = p * Block + r /\ p \in Nat /\ r \in 0 .. Block - 1 /\ Len(y) \in Nat
    BY <1>1, Divides
  <1>3. z \in Seq(S) /\ Len(z) = n + Len(y) /\ n \in Nat
    <2>1. z \in Seq(S) /\ Len(z) = Len(x) + Len(y)
      BY BytesJoined
    <2>2. n \in Nat
      BY <1>1
    <2> QED
      BY <2>1, <2>2
  <1> HIDE DEF z, p, r, n
  <1>4. Len(z) = (q + p) * Block + r /\ q + p \in Nat /\ (q + p) * Block = n + p * Block
            /\ p * Block \in Nat
    <2>1. (q + p) * Block = q * Block + p * Block
      BY <1>1, <1>2
    <2>2. q * Block \in Nat /\ p * Block \in Nat
      BY <1>1, <1>2
    <2> QED
      BY <1>2, <1>3, <2>1, <2>2 DEF n
  <1>5. Len(z) \div Block = q + p
    BY <1>1, <1>2, <1>3, <1>4, DividesIs
  <1>6. Len(x) = n /\ n \div Block = q
    <2>1. n = q * Block + 0 /\ 0 \in 0 .. Block - 1
      BY <1>1 DEF n
    <2> QED
      BY <1>1, <1>3, <2>1, DividesIs DEF n
  <1>7. /\ Digests!Parts(x) \in Seq(Seq(S)) /\ Len(Digests!Parts(x)) = q
        /\ \A i \in 1 .. q : Digests!Parts(x)[i] = SubSeq(x, (i - 1) * Block + 1, i * Block)
    BY <1>6, PartsTyped DEF Digests!Parts
  <1>8. /\ Digests!Parts(y) \in Seq(Seq(S)) /\ Len(Digests!Parts(y)) = p
        /\ \A i \in 1 .. p : Digests!Parts(y)[i] = SubSeq(y, (i - 1) * Block + 1, i * Block)
    BY PartsTyped DEF Digests!Parts, p
  <1>9. /\ Digests!Parts(z) \in Seq(Seq(S)) /\ Len(Digests!Parts(z)) = q + p
        /\ \A i \in 1 .. q + p : Digests!Parts(z)[i] = SubSeq(z, (i - 1) * Block + 1, i * Block)
    BY <1>3, <1>5, PartsTyped DEF Digests!Parts
  <1>10. ASSUME NEW i \in 1 .. q PROVE Digests!Parts(z)[i] = Digests!Parts(x)[i]
    <2>1. i * Block \in Nat /\ i * Block <= n /\ (i - 1) * Block \in Nat
      BY <1>1 DEF n
    <2>2. SubSeq(z, (i - 1) * Block + 1, i * Block) = SubSeq(x, (i - 1) * Block + 1, i * Block)
      BY SMTT(30), <1>6, <2>1, PartOfLeft DEF z
    <2>3. i \in 1 .. q + p
      BY <1>2
    <2> QED
      BY <1>7, <1>9, <2>2, <2>3
  <1>11. ASSUME NEW i \in 1 .. p PROVE Digests!Parts(z)[q + i] = Digests!Parts(y)[i]
    <2>1. /\ i * Block \in Nat /\ i * Block <= p * Block /\ (i - 1) * Block \in Nat
          /\ (q + i) * Block = q * Block + i * Block
          /\ ((q + i) - 1) * Block = q * Block + (i - 1) * Block
      BY <1>1, <1>2
    <2>2. (q + i) * Block = n + i * Block /\ ((q + i) - 1) * Block + 1 = n + ((i - 1) * Block + 1)
      BY <1>3, <2>1 DEF n
    <2>3. i * Block <= Len(y)
      BY SMTT(30), <1>2, <1>4, <2>1
    <2>4. SubSeq(z, n + ((i - 1) * Block + 1), n + i * Block)
              = SubSeq(y, (i - 1) * Block + 1, i * Block)
      <3>1. (i - 1) * Block + 1 \in Nat /\ (i - 1) * Block + 1 > 0
        BY <2>1
      <3> DEFINE a == (i - 1) * Block + 1
                 b == i * Block
      <3>3. a \in Nat /\ a > 0 /\ b \in Nat /\ b <= Len(y)
        BY <2>1, <2>3, <3>1
      <3> HIDE DEF a, b
      <3>4. SubSeq(x \o y, Len(x) + a, Len(x) + b) = SubSeq(y, a, b)
        BY SMTT(30), <3>3, PartOfRight
      <3>2. SubSeq(z, Len(x) + ((i - 1) * Block + 1), Len(x) + i * Block)
                = SubSeq(y, (i - 1) * Block + 1, i * Block)
        BY <3>4 DEF z, a, b
      <3> QED
        BY <1>6, <3>2
    <2>5. q + i \in 1 .. q + p
      BY <1>2
    <2> QED
      BY <1>8, <1>9, <2>2, <2>4, <2>5
  <1>12. Digests!Parts(z) = Digests!Parts(x) \o Digests!Parts(y)
    <2> DEFINE u == Digests!Parts(x)
               v == Digests!Parts(y)
               w == Digests!Parts(z)
    <2>1. u \in Seq(Seq(S)) /\ v \in Seq(Seq(S)) /\ w \in Seq(Seq(S)) /\ Len(u) = q
              /\ Len(v) = p /\ Len(w) = q + p
      BY <1>7, <1>8, <1>9
    <2>2. \A i \in 1 .. q : w[i] = u[i]
      BY <1>10
    <2>3. \A i \in 1 .. p : w[q + i] = v[i]
      BY <1>11
    <2> HIDE DEF u, v, w
    <2>4. /\ u \o v \in Seq(Seq(S)) /\ Len(u \o v) = q + p
          /\ \A i \in 1 .. q : (u \o v)[i] = u[i]
          /\ \A i \in 1 .. p : (u \o v)[q + i] = v[i]
      <3>1. /\ u \o v \in Seq(Seq(S)) /\ Len(u \o v) = Len(u) + Len(v)
            /\ \A i \in 1 .. Len(u) : (u \o v)[i] = u[i]
            /\ \A i \in 1 .. Len(v) : (u \o v)[Len(u) + i] = v[i]
        <4> DEFINE T == Seq(S)
        <4>1. u \in Seq(T) /\ v \in Seq(T)
          BY <2>1
        <4> HIDE DEF T
        <4>2. /\ u \o v \in Seq(T) /\ Len(u \o v) = Len(u) + Len(v)
              /\ \A i \in 1 .. Len(u) : (u \o v)[i] = u[i]
              /\ \A i \in 1 .. Len(v) : (u \o v)[Len(u) + i] = v[i]
          BY <4>1, BytesJoined
        <4> QED
          BY <4>2 DEF T
      <3> QED
        BY <2>1, <3>1
    <2>5. \A i \in 1 .. q + p : i \in 1 .. q \/ \E j \in 1 .. p : i = q + j
      <3> TAKE i \in 1 .. q + p
      <3>1. i <= q \/ (i - q \in 1 .. p /\ i = q + (i - q))
        BY <1>2
      <3> QED
        BY <1>2, <3>1
    <2>6. \A i \in 1 .. q + p : w[i] = (u \o v)[i]
      BY ZenonT(60), <2>2, <2>3, <2>4, <2>5
    <2>7. w = u \o v
      BY <2>1, <2>4, <2>6, SameBytes
    <2> QED
      BY <2>7 DEF u, v, w
  <1>13. Unprocessed(z) = Unprocessed(y)
    <2>1. (q + p) * Block + 1 = n + (p * Block + 1) /\ p * Block + 1 \in Nat /\ p * Block + 1 > 0
      <3> DEFINE a == (q + p) * Block
                 b == p * Block
      <3>1. a = n + b /\ b \in Nat /\ n \in Nat
        BY <1>3, <1>4
      <3> HIDE DEF a, b
      <3>2. a + 1 = n + (b + 1) /\ b + 1 \in Nat /\ b + 1 > 0
        BY <3>1
      <3> QED
        BY <3>2 DEF a, b
    <2>2. SubSeq(z, n + (p * Block + 1), n + Len(y)) = SubSeq(y, p * Block + 1, Len(y))
      <3>1. SubSeq(z, Len(x) + (p * Block + 1), Len(x) + Len(y)) = SubSeq(y, p * Block + 1, Len(y))
        <4> DEFINE a == p * Block + 1
                   b == Len(y)
        <4>1. a \in Nat /\ a > 0 /\ b \in Nat /\ b <= Len(y)
          BY <1>2, <2>1
        <4> HIDE DEF a, b
        <4>2. SubSeq(x \o y, Len(x) + a, Len(x) + b) = SubSeq(y, a, b)
          BY SMTT(30), <4>1, PartOfRight
        <4> QED
          BY <4>2 DEF z, a, b
      <3> QED
        BY <1>6, <3>1
    <2>3. Unprocessed(z) = SubSeq(z, (q + p) * Block + 1, Len(z))
      BY <1>5 DEF Unprocessed
    <2>4. Unprocessed(y) = SubSeq(y, p * Block + 1, Len(y))
      BY DEF Unprocessed, p
    <2> QED
      BY <1>3, <2>1, <2>2, <2>3, <2>4
  <1> QED
    BY <1>12, <1>13 DEF z

(* Less than a block has none; a block is one. *)
LEMMA PartsOfLittle ==
    ASSUME NEW S, NEW x \in Seq(S), Len(x) < Block
    PROVE  Digests!Parts(x) = <<>> /\ Unprocessed(x) = x /\ Len(x) \div Block = 0
               /\ Len(x) % Block = Len(x)
  <1>1. Block \in Nat /\ Block > 0 /\ Len(x) \in Nat
    BY DigestAssumption
  <1>2. Len(x) = 0 * Block + Len(x) /\ Len(x) \in 0 .. Block - 1 /\ 0 * Block = 0
    BY <1>1
  <1>3. Len(x) \div Block = 0 /\ Len(x) % Block = Len(x)
    BY <1>1, <1>2, DividesIs
  <1>4. Digests!Parts(x) = <<>>
    <2>1. Digests!Parts(x) \in Seq(Seq(S)) /\ Len(Digests!Parts(x)) = 0
      BY <1>3, PartsTyped
    <2> QED
      BY <2>1
  <1>5. SubSeq(x, 0 + 1, Len(x)) = x
    OBVIOUS
  <1> QED
    BY <1>2, <1>3, <1>4, <1>5 DEF Unprocessed

LEMMA PartsOfBlock ==
    ASSUME NEW S, NEW x \in Seq(S), Len(x) = Block
    PROVE  Digests!Parts(x) = <<x>>
  <1>1. Block \in Nat /\ Block > 0
    BY DigestAssumption
  <1>2. Block = 1 * Block + 0 /\ 0 \in 0 .. Block - 1 /\ 1 * Block = Block /\ (1 - 1) * Block = 0
    BY <1>1
  <1>3. Len(x) \div Block = 1
    BY <1>1, <1>2, DividesIs
  <1>4. Digests!Parts(x) \in Seq(Seq(S)) /\ Len(Digests!Parts(x)) = 1
            /\ Digests!Parts(x)[1] = SubSeq(x, (1 - 1) * Block + 1, 1 * Block)
    <2>1. Digests!Parts(x) = [i \in 1 .. 1 |-> SubSeq(x, (i - 1) * Block + 1, i * Block)]
      BY <1>3 DEF Digests!Parts
    <2>2. Digests!Parts(x)[1] = SubSeq(x, (1 - 1) * Block + 1, 1 * Block)
      BY <2>1
    <2> QED
      BY <1>3, <2>2, PartsTyped
  <1>5. SubSeq(x, 0 + 1, Block) = x
    OBVIOUS
  <1>6. Digests!Parts(x)[1] = x
    BY <1>2, <1>4, <1>5
  <1>7. \A i \in 1 .. 1 : i = 1
    OBVIOUS
  <1>8. <<x>> \in Seq(Seq(S)) /\ Len(<<x>>) = 1 /\ <<x>>[1] = x
    OBVIOUS
  <1> DEFINE u == Digests!Parts(x)
             v == <<x>>
  <1>9. u \in Seq(Seq(S)) /\ Len(u) = 1 /\ u[1] = x /\ v \in Seq(Seq(S)) /\ Len(v) = 1 /\ v[1] = x
    BY <1>4, <1>6, <1>8
  <1> HIDE DEF u, v
  <1>10. u = v
    BY <1>7, <1>9, SameBytes
  <1> QED
    BY <1>10 DEF u, v

(* A message is its whole blocks and what is behind them. *)
LEMMA InBlocks ==
    ASSUME NEW S, NEW m \in Seq(S)
    PROVE  \E w \in Seq(S), q \in Nat :
               /\ Len(w) = q * Block /\ m = w \o Unprocessed(m)
                      /\ Digests!Parts(m) = Digests!Parts(w)
               /\ Unprocessed(m) \in Seq(S) /\ Len(Unprocessed(m)) = Len(m) % Block
                      /\ Len(Unprocessed(m)) < Block
  <1> DEFINE q == Len(m) \div Block
             n == q * Block
             w == SubSeq(m, 1, n)
             r == Unprocessed(m)
  <1>1. Block \in Nat /\ Block > 0
    BY DigestAssumption
  <1>0. Len(m) \in Nat
    OBVIOUS
  <1> DEFINE t == Len(m) % Block
  <1>2. Len(m) = n + t /\ q \in Nat /\ t \in 0 .. Block - 1 /\ Len(m) \in Nat
    BY <1>0, <1>1, Divides
  <1>3. n \in Nat
    BY <1>1, <1>2
  <1>4. r = SubSeq(m, n + 1, Len(m))
    BY DEF Unprocessed
  <1> HIDE DEF q, n, t
  <1>5. n \in 0 .. Len(m)
    BY <1>0, <1>1, <1>2, <1>3
  <1>6. w \in Seq(S) /\ Len(w) = n /\ r \in Seq(S) /\ Len(r) = Len(m) - n /\ m = w \o r
    BY ZenonT(60), <1>4, <1>5, CutInTwo
  <1>7. Len(r) = t /\ Len(r) < Block
    BY <1>1, <1>2, <1>3, <1>6
  <1> HIDE DEF w, r
  <1>8. Digests!Parts(m) = Digests!Parts(w)
    <2>1. Digests!Parts(w \o r) = Digests!Parts(w) \o Digests!Parts(r)
      BY <1>2, <1>6, PartsJoin DEF n
    <2>2. Digests!Parts(r) = <<>>
      BY <1>6, <1>7, PartsOfLittle
    <2>3. Digests!Parts(w) \o <<>> = Digests!Parts(w)
      BY <1>6, PartsTyped, NothingJoined
    <2> QED
      BY <1>6, <2>1, <2>2, <2>3
  <1>9. Len(w) = q * Block
    BY <1>6 DEF n
  <1> QED
    BY <1>2, <1>6, <1>7, <1>8, <1>9 DEF r, t
-----------------------------------------------------------------------------
(* What is copied into the buffer comes behind what was in it. *)
LEMMA CopiedIs ==
    ASSUME NEW S, NEW buffer \in Seq(S), Len(buffer) = Block, NEW at \in Nat, NEW s \in Seq(S),
           at + Len(s) <= Block
    PROVE  /\ Digests!Copied(buffer, at, s) \in Seq(S) /\ Len(Digests!Copied(buffer, at, s)) = Block
           /\ SubSeq(Digests!Copied(buffer, at, s), 1, at + Len(s))
                = PutBehind(SubSeq(buffer, 1, at), s)
  <1> DEFINE e == Digests!Copied(buffer, at, s)
             k == Len(s)
             u == SubSeq(e, 1, at + k)
             v == SubSeq(buffer, 1, at)
  <1>0. k \in Nat /\ Block \in Nat /\ Block > 2
    BY DigestAssumption
  <1> HIDE DEF k
  <1>1. \A i \in 1 .. Block : (IF i > at /\ i <= at + Len(s) THEN s[i - at] ELSE buffer[i]) \in S
    <2> TAKE i \in 1 .. Block
    <2>1. CASE i > at /\ i <= at + Len(s)
      <3>1. i - at \in 1 .. Len(s)
        BY <2>1
      <3> QED
        BY <2>1, <3>1
    <2>2. CASE ~(i > at /\ i <= at + Len(s))
      <3>1. buffer[i] \in S
        OBVIOUS
      <3> QED
        BY <2>2, <3>1
    <2> QED
      BY <2>1, <2>2
  <1>2. e = [i \in 1 .. Block |-> IF i > at /\ i <= at + Len(s) THEN s[i - at] ELSE buffer[i]]
    BY DEF Digests!Copied
  <1> HIDE DEF e
  <1>3. e \in [1 .. Block -> S]
    BY <1>1, <1>2
  <1>4. e \in Seq(S) /\ Len(e) = Block
    BY <1>0, <1>3
  <1>5. at + k <= Block /\ Len(s) = k
    BY DEF k
  <1>6. u \in Seq(S) /\ Len(u) = at + k /\ \A i \in 1 .. at + k : u[i] = e[i]
    BY <1>0, <1>4, <1>5
  <1>7. v \in Seq(S) /\ Len(v) = at /\ \A i \in 1 .. at : v[i] = buffer[i]
    BY <1>0, <1>5
  <1> HIDE DEF u, v
  <1> DEFINE z == v \o s
  <1>8. /\ z \in Seq(S) /\ Len(z) = at + k
        /\ \A i \in 1 .. at : z[i] = v[i]
        /\ \A i \in 1 .. k : z[at + i] = s[i]
    <2>1. /\ z \in Seq(S) /\ Len(z) = Len(v) + Len(s)
          /\ \A i \in 1 .. Len(v) : z[i] = v[i]
          /\ \A i \in 1 .. Len(s) : z[Len(v) + i] = s[i]
      <3>1. v \in Seq(S)
        BY <1>7
      <3> QED
        BY <3>1, BytesJoined
    <2> HIDE DEF z
    <2> QED
      BY <1>5, <1>7, <2>1
  <1> HIDE DEF z
  <1>9. \A i \in 1 .. at + k : u[i] = z[i]
    <2> TAKE i \in 1 .. at + k
    <2>1. i \in 1 .. Block
      BY <1>0, <1>5
    <2>2. CASE i <= at
      <3>1. i \in 1 .. at /\ ~(i > at)
        BY <1>0, <2>2
      <3>2. e[i] = buffer[i]
        BY <1>2, <2>1, <3>1
      <3> QED
        BY <1>6, <1>7, <1>8, <3>1, <3>2
    <2>3. CASE i > at
      <3>1. i - at \in 1 .. k /\ at + (i - at) = i /\ i <= at + Len(s)
        BY <1>0, <1>5, <2>3
      <3>2. e[i] = s[i - at]
        BY <1>2, <2>1, <2>3, <3>1
      <3>3. z[at + (i - at)] = s[i - at]
        BY <1>8, <3>1
      <3> QED
        BY <1>6, <3>1, <3>2, <3>3
    <2> QED
      BY <1>0, <2>2, <2>3
  <1>10. u = z
    BY <1>6, <1>8, <1>9, SameBytes
  <1> QED
    BY <1>4, <1>10 DEF e, u, v, z, k, PutBehind

\* The context holds a message: its blocks are processed, the rest is in the buffer.
DigestContext(S) ==
    [lo : 0 .. WordSize - 1, hi : 0 .. WordSize - 1, buffer : Seq(S), blocks : Seq(Seq(S))]

HoldsMessage(c, m, S) ==
    /\ c \in DigestContext(S)
    /\ Len(c.buffer) = Block
    /\ c.lo % Block = Len(m) % Block
    /\ c.blocks = Digests!Parts(m)
    /\ SubSeq(c.buffer, 1, Len(Unprocessed(m))) = Unprocessed(m)

CountsMessage(c, m) == c.lo + c.hi * WordSize = Len(m)

LEMMA HoldsNothing ==
    ASSUME NEW S, <<"zero", 0>> \in S
    PROVE  HoldsMessage(Digests!Start, <<>>, S) /\ CountsMessage(Digests!Start, <<>>)
  <1> DEFINE b == Digests!Zeros(Block)
             n == <<>>
  <1>0. Block \in Nat /\ Block > 2 /\ WordSize \in Nat /\ WordSize > 0
    BY DigestAssumption
  <1>1. b \in [1 .. Block -> S]
    BY DEF Digests!Zeros
  <1>2. b \in Seq(S) /\ Len(b) = Block
    BY <1>0, <1>1
  <1>3. n \in Seq(S) /\ Len(n) = 0 /\ n \in Seq(Seq(S))
    OBVIOUS
  <1>4. Digests!Parts(n) = <<>> /\ Unprocessed(n) = n /\ Len(n) % Block = Len(n)
    <2> HIDE DEF n
    <2>1. Len(n) < Block
      BY <1>0, <1>3
    <2> QED
      BY <1>3, <2>1, PartsOfLittle
  <1>5. SubSeq(b, 1, 0) = <<>>
    OBVIOUS
  <1> HIDE DEF b
  <1>6. /\ Digests!Start = [lo |-> 0, hi |-> 0, buffer |-> b, blocks |-> <<>>]
        /\ Digests!Start.lo = 0 /\ Digests!Start.hi = 0 /\ Digests!Start.buffer = b
               /\ Digests!Start.blocks = <<>>
    BY DEF Digests!Start, b
  <1>7. Digests!Start \in DigestContext(S)
    BY <1>0, <1>2, <1>3, <1>6 DEF DigestContext
  <1>8. 0 % Block = 0
    BY <1>3, <1>4
  <1>9. 0 + 0 * WordSize = 0
    BY <1>0
  <1> QED
    BY <1>2, <1>3, <1>4, <1>5, <1>6, <1>7, <1>8, <1>9 DEF HoldsMessage, CountsMessage

(* The count, in two words, of a message that grows by at most a word. *)
LEMMA CountGrows ==
    ASSUME NEW S, NEW c \in DigestContext(S), NEW m \in Seq(S), NEW n \in Nat,
           c.lo % Block = Len(m) % Block
    PROVE  /\ Digests!Counted(c, n) \in DigestContext(S)
           /\ Digests!Counted(c, n).buffer = c.buffer /\ Digests!Counted(c, n).blocks = c.blocks
           /\ Digests!Counted(c, n).lo % Block = (Len(m) + n) % Block
           /\ CountsMessage(c, m) /\ n <= WordSize /\ Len(m) + n < WordSize * WordSize
                  => Digests!Counted(c, n).lo + Digests!Counted(c, n).hi * WordSize = Len(m) + n
  <1> DEFINE W == WordSize
             d == Digests!Counted(c, n)
             lo == c.lo
             hi == c.hi
             l == (lo + n) % W
             h == IF l < n THEN (hi + 1) % W ELSE hi
             t == Len(m)
  <1>0. W \in Nat /\ W > 0 /\ Block \in Nat /\ Block > 0 /\ t \in Nat /\ W % Block = 0
    BY DigestAssumption
  <1>1. /\ lo \in 0 .. W - 1 /\ hi \in 0 .. W - 1 /\ c.buffer \in Seq(S) /\ c.blocks \in Seq(Seq(S))
        /\ c = [lo |-> lo, hi |-> hi, buffer |-> c.buffer, blocks |-> c.blocks]
    BY DEF DigestContext
  <1>2. d = [c EXCEPT !.lo = l, !.hi = h]
    BY DEF Digests!Counted
  <1>4. d.lo = l /\ d.hi = h /\ d.buffer = c.buffer /\ d.blocks = c.blocks
    <2> HIDE DEF d, l, h
    <2> QED
      BY <1>2 DEF DigestContext
  <1>5. l \in 0 .. W - 1 /\ (hi + 1) % W \in 0 .. W - 1
    <2>1. lo + n \in Nat /\ hi + 1 \in Nat
      BY <1>0, <1>1
    <2> HIDE DEF lo, hi, W
    <2> QED
      BY <1>0, <2>1, Divides
  <1>6. h \in 0 .. W - 1
    BY <1>1, <1>5
  <1>7. d \in DigestContext(S)
    <2> HIDE DEF d, l, h
    <2> QED
      BY <1>2, <1>5, <1>6 DEF DigestContext
  <1>8. l % Block = (t + n) % Block
    <2>1. lo % Block = t % Block /\ lo \in Nat
      BY <1>0, <1>1
    <2> HIDE DEF lo, t, W
    <2>2. lo + n \in Nat
      BY <2>1
    <2>3. ((lo + n) % W) % Block = (lo + n) % Block
      BY <1>0, <2>2, RemainderStays
    <2>4. (lo + n) % Block = (t + n) % Block
      <3>1. \A b \in Nat : b > 0 => \A x, y, k \in Nat : x % b = y % b => (x + k) % b = (y + k) % b
        BY RemainderAdds
      <3>2. Block \in Nat /\ Block > 0 /\ t \in Nat /\ lo \in Nat /\ lo % Block = t % Block
        BY <1>0, <2>1
      <3> QED
        BY <3>1, <3>2, ZenonT(60)
    <2> QED
      BY <2>3, <2>4
  <1>9. ASSUME lo + hi * W = t, n <= W, t + n < W * W
        PROVE  l + h * W = t + n
    <2> DEFINE p == hi * W
    <2>1. p \in Nat
      BY <1>0, <1>1
    <2>2. CASE lo + n < W
      <3>1. lo + n = 0 * W + (lo + n) /\ lo + n \in 0 .. W - 1 /\ lo + n \in Nat
        BY <1>0, <1>1, <2>2
      <3>2. l = lo + n
        <4> HIDE DEF lo, W
        <4> QED
          BY <1>0, <3>1, DividesIs
      <3>3. ~(l < n)
        <4> HIDE DEF l, lo
        <4> QED
          BY <1>1, <3>2
      <3>4. h = hi
        BY <3>3
      <3> HIDE DEF l, h, lo, hi, W, t
      <3> QED
        BY <1>0, <1>1, <1>9, <2>1, <3>2, <3>4
    <2>3. CASE lo + n >= W
      <3> DEFINE r == lo + n - W
      <3>1. lo + n = 1 * W + r /\ r \in 0 .. W - 1 /\ lo + n \in Nat
        <4>1. r \in 0 .. W - 1
          <5>1. n <= W
            BY <1>9
          <5> HIDE DEF lo, hi, W, t
          <5> QED
            BY SMTT(30), <1>0, <1>1, <2>3, <5>1
        <4>2. lo + n = 1 * W + r /\ lo + n \in Nat
          <5> HIDE DEF lo, hi, W, t
          <5> QED
            BY <1>0, <1>1
        <4> QED
          BY <4>1, <4>2
      <3>2. l = r
        <4> HIDE DEF lo, W, r
        <4> QED
          BY SMTT(30), <1>0, <3>1, DividesIs
      <3>3. l < n
        <4> HIDE DEF l, lo, W
        <4> QED
          BY <1>0, <1>1, <3>2
      <3>4. h = (hi + 1) % W
        BY <3>3
      <3>5. hi + 1 < W
        <4> HIDE DEF l, h, lo, hi, W, t
        <4>1. t + n = p + W + r
          <5>1. lo + p = t
            BY <1>9
          <5> HIDE DEF p
          <5> QED
            BY SMTT(30), <1>0, <1>1, <2>1, <5>1
        <4>2. CASE hi + 1 >= W
          <5>1. p >= (W - 1) * W
            BY <1>0, <1>1, <4>2
          <5>2. (W - 1) * W = W * W - W /\ W * W \in Nat
            BY <1>0
          <5> QED
            BY SMTT(30), <1>0, <1>9, <2>1, <3>1, <4>1, <5>1, <5>2
        <4> QED
          BY <1>0, <1>1, <4>2
      <3>6. (hi + 1) % W = hi + 1
        <4>1. hi + 1 = 0 * W + (hi + 1) /\ hi + 1 \in 0 .. W - 1 /\ hi + 1 \in Nat
          BY <1>0, <1>1, <3>5
        <4> HIDE DEF hi, W
        <4> QED
          BY <1>0, <4>1, DividesIs
      <3>7. h * W = p + W
        <4> HIDE DEF l, h, lo, hi, W, t
        <4> QED
          BY <1>0, <1>1, <3>4, <3>6
      <3>8. lo + p = t
        BY <1>9
      <3> DEFINE g == h * W
      <3>9. g = p + W
        BY <3>7
      <3> HIDE DEF l, h, lo, hi, W, t, p, g
      <3>10. l + g = t + n
        BY <1>0, <1>1, <2>1, <3>2, <3>8, <3>9 DEF r
      <3> QED
        BY <3>10 DEF g
    <2> QED
      BY <1>0, <1>1, <2>2, <2>3
  <1>10. /\ d.lo % Block = (Len(m) + n) % Block
         /\ CountsMessage(c, m) /\ n <= WordSize /\ Len(m) + n < WordSize * WordSize
                  => d.lo + d.hi * WordSize = Len(m) + n
    <2>1. CountsMessage(c, m) => lo + hi * W = t
      BY DEF CountsMessage
    <2> HIDE DEF d, l, h
    <2> QED
      BY <1>4, <1>8, <1>9, <2>1
  <1> HIDE DEF d
  <1> QED
    BY <1>4, <1>7, <1>10 DEF d
-----------------------------------------------------------------------------
\* The pieces of an update (the LET of Updated).
TopUp(c, s) ==
    LET fill == Block - Digests!Left(c)
    IN  IF Digests!Left(c) > 0 /\ Len(s) >= fill THEN fill ELSE 0
FullBlock(c, s) ==
    LET left == Digests!Left(c)
    IN  IF TopUp(c, s) > 0 THEN <<Digests!Copied(c.buffer, left, SubSeq(s, 1, Block - left))>>
        ELSE <<>>
RestOf(c, s) == SubSeq(s, TopUp(c, s) + 1, Len(s))
KeptBytes(c, s) ==
    Digests!Copied(IF TopUp(c, s) > 0 THEN FullBlock(c, s)[1] ELSE c.buffer,
           IF TopUp(c, s) > 0 THEN 0 ELSE Digests!Left(c), Unprocessed(RestOf(c, s)))

LEMMA UpdatedIs ==
    ASSUME NEW S, NEW c \in DigestContext(S), NEW s \in Seq(S)
    PROVE  Digests!Updated(c, s) =
               [Digests!Counted(c, Len(s)) EXCEPT
                    !.blocks = c.blocks \o FullBlock(c, s) \o Digests!Parts(RestOf(c, s)),
                    !.buffer = KeptBytes(c, s)]
  <1> DEFINE r == RestOf(c, s)
             d == Digests!Counted(c, Len(s))
  <1>0. Block \in Nat /\ Block > 0 /\ Len(s) \in Nat
    BY DigestAssumption
  <1>1. SubSeq(r, Len(Digests!Parts(r)) * Block + 1, Len(r)) = Unprocessed(r)
    <2>1. c.lo \in Nat
      <3>1. c.lo \in 0 .. WordSize - 1
        BY DEF DigestContext
      <3> QED
        BY <3>1
    <2>2. Digests!Left(c) \in 0 .. Block - 1
      <3> DEFINE l == c.lo
      <3> HIDE DEF l
      <3>1. l % Block \in 0 .. Block - 1
        BY <1>0, <2>1, Divides DEF l
      <3> QED
        BY <3>1 DEF l, Digests!Left
    <2>3. TopUp(c, s) \in 0 .. Len(s)
      <3> DEFINE l == Digests!Left(c)
      <3> HIDE DEF l
      <3>1. (IF l > 0 /\ Len(s) >= Block - l THEN Block - l ELSE 0) \in 0 .. Len(s)
        BY <1>0, <2>2 DEF l
      <3> QED
        BY <3>1 DEF TopUp, l
    <2>4. r \in Seq(S)
      BY <2>3, CutInTwo DEF RestOf
    <2> HIDE DEF r
    <2>5. Len(Digests!Parts(r)) = Len(r) \div Block
      BY <2>4, PartsTyped
    <2> QED
      BY <2>5 DEF Unprocessed
  <1>2. d.blocks = c.blocks /\ d.buffer = c.buffer
    <2> DEFINE l == (c.lo + Len(s)) % WordSize
               h == IF l < Len(s) THEN (c.hi + 1) % WordSize ELSE c.hi
    <2>1. d = [c EXCEPT !.lo = l, !.hi = h]
      BY DEF Digests!Counted
    <2> HIDE DEF l, h, d
    <2> QED
      BY <2>1 DEF DigestContext
  <1> QED
    BY <1>1, <1>2 DEF Digests!Updated, Digests!Left, TopUp, FullBlock, RestOf, KeptBytes

LEMMA CountedIs ==
    ASSUME NEW S, NEW c \in DigestContext(S), NEW m \in Seq(S), c.lo % Block = Len(m) % Block
    PROVE  \A n \in Nat : /\ Digests!Counted(c, n) \in DigestContext(S)
                          /\ Digests!Counted(c, n).lo % Block = (Len(m) + n) % Block
  <1> TAKE n \in Nat
  <1> QED
    BY CountGrows

(* What the context holds when the blocks and the buffer are as they should be. *)
LEMMA HoldsMore ==
    ASSUME NEW S, NEW c, NEW m \in Seq(S), NEW s \in Seq(S), HoldsMessage(c, m, S),
           KeptBytes(c, s) \in Seq(S), Len(KeptBytes(c, s)) = Block,
           c.blocks \o FullBlock(c, s) \o Digests!Parts(RestOf(c, s)) = Digests!Parts(m \o s),
           SubSeq(KeptBytes(c, s), 1, Len(Unprocessed(m \o s))) = Unprocessed(m \o s)
    PROVE  HoldsMessage(Digests!Updated(c, s), m \o s, S)
  <1> DEFINE u == Digests!Updated(c, s)
             d == Digests!Counted(c, Len(s))
             z == m \o s
             k == KeptBytes(c, s)
             b == c.blocks \o FullBlock(c, s) \o Digests!Parts(RestOf(c, s))
             n == Len(s)
  <1>1. c \in DigestContext(S) /\ c.lo % Block = Len(m) % Block /\ n \in Nat
    BY DEF HoldsMessage
  <1>2. d \in DigestContext(S) /\ d.lo % Block = (Len(m) + n) % Block
    <2> HIDE DEF n
    <2>1. \A j \in Nat : /\ Digests!Counted(c, j) \in DigestContext(S)
                         /\ Digests!Counted(c, j).lo % Block = (Len(m) + j) % Block
      <3>1. c \in DigestContext(S) /\ c.lo % Block = Len(m) % Block
        BY <1>1
      <3> QED
        BY <3>1, CountedIs, SMTT(30)
    <2> QED
      BY <1>1, <2>1 DEF n
  <1>3. u = [d EXCEPT !.blocks = b, !.buffer = k]
    BY <1>1, UpdatedIs
  <1>4. z \in Seq(S) /\ Len(z) = Len(m) + n
    BY BytesJoined
  <1>5. b = Digests!Parts(z) /\ Digests!Parts(z) \in Seq(Seq(S))
    BY <1>4, PartsTyped
  <1>6. k \in Seq(S) /\ Len(k) = Block /\ SubSeq(k, 1, Len(Unprocessed(z))) = Unprocessed(z)
    OBVIOUS
  <1> HIDE DEF u, d, z, k, b, n
  <1>7. u \in DigestContext(S) /\ u.lo = d.lo /\ u.blocks = b /\ u.buffer = k
    BY <1>2, <1>3, <1>5, <1>6 DEF DigestContext
  <1>8. HoldsMessage(u, z, S)
    BY <1>2, <1>4, <1>5, <1>6, <1>7 DEF HoldsMessage
  <1> QED
    BY <1>8 DEF u, z

(* Bytes that are given to it come behind the message the context holds. *)
LEMMA Feed ==
    ASSUME NEW S, NEW c, NEW m \in Seq(S), NEW s \in Seq(S), HoldsMessage(c, m, S)
    PROVE  HoldsMessage(Digests!Updated(c, s), m \o s, S)
  <1> DEFINE left == Digests!Left(c)
             fill == Block - left
             buf == c.buffer
  <1>0. Block \in Nat /\ Block > 2 /\ Len(s) \in Nat /\ Len(m) \in Nat
    BY DigestAssumption
  <1>1. PICK w \in Seq(S), q \in Nat :
            /\ Len(w) = q * Block /\ m = w \o Unprocessed(m) /\ Digests!Parts(m) = Digests!Parts(w)
            /\ Unprocessed(m) \in Seq(S) /\ Len(Unprocessed(m)) = Len(m) % Block
                   /\ Len(Unprocessed(m)) < Block
    BY InBlocks
  <1> DEFINE b == Unprocessed(m)
  <1>2. /\ c \in DigestContext(S) /\ c.blocks = Digests!Parts(m) /\ buf \in Seq(S)
               /\ Len(buf) = Block
        /\ left = Len(b) /\ b = SubSeq(buf, 1, left)
    BY <1>1 DEF HoldsMessage, DigestContext, Digests!Left
  <1>3. left \in Nat /\ left < Block /\ m = w \o b /\ b \in Seq(S)
            /\ c.blocks = Digests!Parts(w) /\ Len(w) = q * Block
    BY SMTT(30), <1>1, <1>2
  <1> HIDE DEF left, b, buf
  <1>4. Digests!Parts(w) \in Seq(Seq(S))
    BY PartsTyped
  <1>5. CASE left > 0 /\ Len(s) >= fill
    <2> DEFINE x == SubSeq(s, 1, fill)
               r == SubSeq(s, fill + 1, Len(s))
               f == b \o x
               e == Digests!Copied(buf, left, x)
    <2>1. fill \in 0 .. Len(s) /\ fill > 0
      BY <1>0, <1>3, <1>5
    <2> HIDE DEF fill
    <2>2. x \in Seq(S) /\ Len(x) = fill /\ r \in Seq(S) /\ s = x \o r
      BY ZenonT(60), <2>1, CutInTwo
    <2>3. TopUp(c, s) = fill
      BY <1>5 DEF TopUp, fill, left
    <2>4. FullBlock(c, s) = <<e>>
      BY <2>1, <2>3 DEF FullBlock, fill, left, buf
    <2>5. RestOf(c, s) = r
      BY <2>3 DEF RestOf
    <2> HIDE DEF x, r, f, e
    <2>6. left + Len(x) = Block
      BY <1>0, <1>3, <2>2 DEF fill
    <2>7. e \in Seq(S) /\ Len(e) = Block
              /\ SubSeq(e, 1, left + Len(x)) = PutBehind(SubSeq(buf, 1, left), x)
      <3>1. left + Len(x) <= Block
        BY <1>0, <2>6
      <3> QED
        <4>1. buf \in Seq(S) /\ Len(buf) = Block /\ left \in Nat /\ x \in Seq(S)
          BY <1>2, <1>3, <2>2
        <4>2. /\ Digests!Copied(buf, left, x) \in Seq(S)
                     /\ Len(Digests!Copied(buf, left, x)) = Block
              /\ SubSeq(Digests!Copied(buf, left, x), 1, left + Len(x))
                   = PutBehind(SubSeq(buf, 1, left), x)
          BY <3>1, <4>1, CopiedIs
        <4> QED
          BY <4>2 DEF e
    <2>8. e = f
      <3>1. SubSeq(e, 1, Len(e)) = e
        BY <2>7
      <3> QED
        BY <1>2, <2>6, <2>7, <3>1 DEF f, PutBehind
    <2>9. Digests!Parts(<<>>) = <<>>
      <3>1. <<>> \in Seq(S) /\ Len(<<>>) < Block
        BY <1>0
      <3> QED
        BY <3>1, PartsOfLittle
    <2>10. /\ Digests!Parts(w \o f) = Digests!Parts(w) \o <<f>> /\ Len(w \o f) = (q + 1) * Block
           /\ w \o f \in Seq(S)
      <3>1. f \in Seq(S) /\ Len(f) = Block
        BY <2>7, <2>8
      <3>2. Digests!Parts(w \o f) = Digests!Parts(w) \o Digests!Parts(f)
        BY <1>3, <3>1, PartsJoin
      <3>3. Digests!Parts(f) = <<f>>
        BY <3>1, PartsOfBlock
      <3>4. w \o f \in Seq(S) /\ Len(w \o f) = Len(w) + Len(f)
        BY <3>1, BytesJoined
      <3>5. (q + 1) * Block = q * Block + Block
        BY <1>0
      <3> QED
        BY <1>3, <3>1, <3>2, <3>3, <3>4, <3>5
    <2>11. m \o s = (w \o f) \o r
      <3>1. f \in Seq(S) /\ x \o r \in Seq(S)
        BY <2>2, <2>7, <2>8, BytesJoined
      <3>2. PutBehind(PutBehind(w, b), PutBehind(x, r))
                = PutBehind(w, PutBehind(b, PutBehind(x, r)))
        <4>1. PutBehind(x, r) \in Seq(S)
          BY <3>1 DEF PutBehind
        <4> QED
          BY <1>3, <4>1, Associates
      <3>3. PutBehind(b, PutBehind(x, r)) = PutBehind(PutBehind(b, x), r)
        BY <1>3, <2>2, Associates
      <3>4. PutBehind(w, PutBehind(f, r)) = PutBehind(PutBehind(w, f), r)
        BY <2>2, <3>1, Associates
      <3>5. m = PutBehind(w, b) /\ s = PutBehind(x, r) /\ f = PutBehind(b, x)
        BY <1>3, <2>2 DEF f, PutBehind
      <3>6. PutBehind(m, s) = PutBehind(PutBehind(w, f), r)
        BY <3>2, <3>3, <3>4, <3>5
      <3> QED
        BY <3>6 DEF PutBehind
    <2>12. Digests!Parts(m \o s) = (Digests!Parts(w) \o <<f>>) \o Digests!Parts(r)
               /\ Unprocessed(m \o s) = Unprocessed(r)
      <3> DEFINE y == w \o f
                 p == q + 1
      <3>1. y \in Seq(S) /\ p \in Nat /\ Len(y) = p * Block
        BY <2>10
      <3> HIDE DEF y, p
      <3>2. Digests!Parts(y \o r) = Digests!Parts(y) \o Digests!Parts(r)
                /\ Unprocessed(y \o r) = Unprocessed(r)
        BY <2>2, <3>1, PartsJoin
      <3> QED
        BY <2>10, <2>11, <3>2 DEF y
    <2> DEFINE g == Unprocessed(r)
               k == KeptBytes(c, s)
    <2>13. g \in Seq(S) /\ Len(g) <= Block
      <3>1. g \in Seq(S) /\ Len(g) < Block
        BY <2>2, InBlocks
      <3> QED
        BY <1>0, <3>1
    <2>14. k = Digests!Copied(e, 0, g)
      <3>1. <<e>>[1] = e
        OBVIOUS
      <3> QED
        BY <2>1, <2>3, <2>4, <2>5, <3>1 DEF KeptBytes
    <2> HIDE DEF g, k
    <2>15. /\ k \in Seq(S) /\ Len(k) = Block
                  /\ SubSeq(k, 1, 0 + Len(g)) = PutBehind(SubSeq(e, 1, 0), g)
      <3>1. 0 + Len(g) <= Block /\ 0 \in Nat
        BY <2>13
      <3> QED
        BY <2>7, <2>13, <2>14, <3>1, CopiedIs
    <2>16. SubSeq(k, 1, Len(g)) = g
      <3>1. SubSeq(e, 1, 0) = <<>> /\ 0 + Len(g) = Len(g)
        BY <2>7, <2>13
      <3>2. <<>> \o g = g
        BY <2>13, NothingJoined
      <3> QED
        BY <2>15, <3>1, <3>2 DEF PutBehind
    <2> QED
      BY <1>3, <2>4, <2>5, <2>8, <2>12, <2>15, <2>16, HoldsMore DEF g, k
  <1>6. CASE ~(left > 0 /\ Len(s) >= fill)
    <2>1. TopUp(c, s) = 0
      BY <1>6 DEF TopUp, left
    <2>2. FullBlock(c, s) = <<>>
      BY <2>1 DEF FullBlock
    <2>3. RestOf(c, s) = s
      BY <2>1 DEF RestOf
    <2> DEFINE g == Unprocessed(s)
               k == KeptBytes(c, s)
    <2>4. k = Digests!Copied(buf, left, g)
      BY <2>1, <2>3 DEF KeptBytes, left, buf
    <2>5. c.blocks \o FullBlock(c, s) \o Digests!Parts(RestOf(c, s))
              = Digests!Parts(w) \o Digests!Parts(s)
      <3>1. Digests!Parts(w) \o <<>> = Digests!Parts(w)
        BY <1>4, NothingJoined
      <3> QED
        BY <1>3, <2>2, <2>3, <3>1
    <2>6. g \in Seq(S) /\ Len(g) < Block
      BY InBlocks
    <2>7. CASE left = 0
      <3>1. b = <<>>
        BY <1>2, <1>3, <2>7
      <3>2. m = w
        BY <1>3, <3>1, NothingJoined
      <3>3. Digests!Parts(m \o s) = Digests!Parts(w) \o Digests!Parts(s) /\ Unprocessed(m \o s) = g
        BY ZenonT(60), <1>3, <3>2, PartsJoin
      <3> HIDE DEF g, k
      <3>4. /\ k \in Seq(S) /\ Len(k) = Block
                   /\ SubSeq(k, 1, left + Len(g)) = PutBehind(SubSeq(buf, 1, left), g)
        <4>1. left + Len(g) <= Block
          BY <1>0, <2>6, <2>7
        <4> QED
          BY <1>2, <1>3, <2>4, <2>6, <4>1, CopiedIs
      <3>5. SubSeq(k, 1, Len(g)) = g
        <4>1. left + Len(g) = Len(g)
          BY <2>6, <2>7
        <4>2. b \o g = g
          BY <2>6, <3>1, NothingJoined
        <4> QED
          BY <1>2, <3>4, <4>1, <4>2 DEF PutBehind
      <3> QED
        BY <2>5, <3>3, <3>4, <3>5, HoldsMore DEF k
    <2>8. CASE left > 0
      <3>1. Len(s) < fill
        BY <1>0, <1>3, <1>6, <2>8
      <3>2. Len(s) < Block /\ left + Len(s) < Block
        BY <1>0, <1>3, <3>1
      <3>3. Digests!Parts(s) = <<>> /\ g = s
        BY <3>2, PartsOfLittle
      <3> DEFINE f == b \o s
      <3>4. f \in Seq(S) /\ Len(f) = left + Len(s)
        <4>1. f \in Seq(S) /\ Len(f) = Len(b) + Len(s)
          BY <1>3, BytesJoined
        <4> QED
          BY <1>2, <4>1
      <3>5. m \o s = w \o f
        <4>1. PutBehind(PutBehind(w, b), s) = PutBehind(w, PutBehind(b, s))
          BY <1>3, Associates
        <4> QED
          BY <1>3, <4>1 DEF PutBehind
      <3> HIDE DEF f, k, g
      <3>6. Digests!Parts(f) = <<>> /\ Unprocessed(f) = f
        BY <3>2, <3>4, PartsOfLittle
      <3>7. Digests!Parts(m \o s) = Digests!Parts(w) \o <<>> /\ Unprocessed(m \o s) = f
        <4>1. Digests!Parts(w \o f) = Digests!Parts(w) \o Digests!Parts(f)
                  /\ Unprocessed(w \o f) = Unprocessed(f)
          BY <1>3, <3>4, PartsJoin
        <4> QED
          BY <3>5, <3>6, <4>1
      <3>8. /\ k \in Seq(S) /\ Len(k) = Block
                   /\ SubSeq(k, 1, left + Len(s)) = PutBehind(SubSeq(buf, 1, left), s)
        <4>1. left + Len(s) <= Block
          BY <1>0, <1>3, <3>2
        <4> QED
          BY ZenonT(60), <1>2, <1>3, <2>4, <3>3, <4>1, CopiedIs
      <3>9. SubSeq(k, 1, Len(f)) = f
        BY <1>2, <3>4, <3>8 DEF f, PutBehind
      <3> QED
        BY <2>5, <3>3, <3>7, <3>8, <3>9, HoldsMore DEF k
    <2> QED
      BY <1>3, <2>7, <2>8
  <1> QED
    BY <1>5, <1>6
-----------------------------------------------------------------------------
(* The words of the length, from the two words of the count. *)
LEMMA LengthIs ==
    ASSUME NEW S, NEW c \in DigestContext(S), NEW m \in Seq(S), CountsMessage(c, m), NEW order
    PROVE  Digests!Length(c, order) =
               Digests!Words(order, (Len(m) * Bits) % WordSize,
                             ((Len(m) * Bits) \div WordSize) % WordSize)
  <1> DEFINE W == WordSize
             B == Bits
             e == W \div B
             lo == c.lo
             hi == c.hi
             a == lo \div e
             r == lo % e
             t == Len(m)
             g == hi * B
  <1>0. W \in Nat /\ W > 0 /\ B \in Nat /\ B > 0 /\ t \in Nat /\ W % B = 0
    BY DigestAssumption
  <1>1. lo \in Nat /\ hi \in Nat /\ lo + hi * W = t
    <2>1. lo \in 0 .. W - 1 /\ hi \in 0 .. W - 1
      BY DEF DigestContext
    <2> QED
      BY <1>0, <2>1 DEF CountsMessage
  <1>2. W = e * B /\ e \in Nat /\ e > 0
    <2> HIDE DEF W, B
    <2>1. W = e * B + (W % B) /\ e \in Nat
      BY <1>0, Divides
    <2> HIDE DEF e
    <2>2. e * B \in Nat
      BY <1>0, <2>1
    <2>3. W = e * B
      BY <1>0, <2>1, <2>2
    <2>4. e # 0
      BY <1>0, <2>3
    <2> QED
      BY <2>1, <2>3, <2>4
  <1> HIDE DEF e
  <1>3. lo = a * e + r /\ a \in Nat /\ r \in 0 .. e - 1
    <2> HIDE DEF lo
    <2> QED
      BY <1>1, <1>2, Divides
  <1> HIDE DEF W, B, lo, hi, a, r, t
  <1>4. g \in Nat /\ a * e \in Nat /\ a * W \in Nat /\ r * B \in Nat
    BY <1>0, <1>1, <1>2, <1>3
  <1>5. r * B \in 0 .. W - 1
    <2>1. r <= e - 1
      BY <1>2, <1>3
    <2>2. r * B <= (e - 1) * B
      BY <1>0, <1>2, <1>3, <2>1
    <2>3. (e - 1) * B = W - B
      BY <1>0, <1>2
    <2> QED
      BY <1>0, <1>4, <2>2, <2>3
  <1>6. lo * B = a * W + r * B /\ lo * B \in Nat
    <2>1. (a * e + r) * B = a * (e * B) + r * B
      BY <1>0, <1>2, <1>3
    <2> QED
      BY <1>0, <1>1, <1>2, <1>3, <2>1
  <1>7. (lo * B) % W = r * B
    <2> DEFINE u == lo * B
               v == r * B
    <2>1. u = a * W + v /\ u \in Nat /\ v \in 0 .. W - 1
      BY <1>5, <1>6
    <2> HIDE DEF u, v
    <2>2. u % W = v
      BY <1>0, <1>3, <2>1, DividesIs
    <2> QED
      BY <2>2 DEF u, v
  <1>8. t * B = (a + g) * W + r * B /\ t * B \in Nat /\ a + g \in Nat
    <2>1. (lo + hi * W) * B = lo * B + g * W
      BY <1>0, <1>1
    <2>2. (a + g) * W = a * W + g * W
      BY <1>0, <1>3, <1>4
    <2>3. g * W \in Nat
      BY <1>0, <1>4
    <2>4. t * B = lo * B + g * W
      BY <1>1, <2>1
    <2>5. t * B \in Nat
      BY <1>0
    <2> HIDE DEF g
    <2> QED
      BY <1>3, <1>4, <1>6, <2>2, <2>3, <2>4, <2>5
  <1>9. (t * B) % W = r * B /\ (t * B) \div W = a + g
    <2> DEFINE u == t * B
               v == r * B
               k == a + g
    <2>1. u = k * W + v /\ u \in Nat /\ v \in 0 .. W - 1 /\ k \in Nat
      BY <1>5, <1>8
    <2> HIDE DEF u, v, k
    <2>2. u % W = v /\ u \div W = k
      BY <1>0, <2>1, DividesIs
    <2> QED
      BY <2>2 DEF u, v, k
  <1>10. Digests!Length(c, order) = Digests!Words(order, (lo * B) % W, (a + g) % W)
    BY DEF Digests!Length, lo, hi, B, W, a, e
  <1>11. Digests!Words(order, (lo * B) % W, (a + g) % W)
            = Digests!Words(order, (t * B) % W, ((t * B) \div W) % W)
    BY <1>7, <1>9
  <1> QED
    BY <1>10, <1>11 DEF t, B, W

\* The zeros behind a message of n bytes.
ZerosBehind(n) == CHOOSE z \in 0 .. Block - 1 : (n + 1 + z + 2) % Block = 0

(* The padding fills the block up to the length. *)
LEMMA PaddingIs ==
    ASSUME NEW c, NEW n \in Nat, Digests!Left(c) = n % Block
    PROVE  /\ ZerosBehind(n) \in 0 .. Block - 1
           /\ Digests!Padding(c) = <<Digests!One>> \o Digests!Zeros(ZerosBehind(n))
  <1> DEFINE l == n % Block
             q == n \div Block
             z == (IF l < Block - 2 THEN Block - 2 - l ELSE Block + (Block - 2) - l) - 1
             p == IF l < Block - 2 THEN q + 1 ELSE q + 2
  <1>0. Block \in Nat /\ Block > 2
    BY DigestAssumption
  <1>1. n = q * Block + l /\ q \in Nat /\ l \in 0 .. Block - 1
    BY <1>0, Divides
  <1>2. Digests!Padding(c) = <<Digests!One>> \o Digests!Zeros(z)
    BY DEF Digests!Padding
  <1> HIDE DEF l, q
  <1>3. z \in 0 .. Block - 1
    BY <1>0, <1>1
  <1>4. n + 1 + z + 2 = p * Block + 0 /\ p \in Nat /\ n + 1 + z + 2 \in Nat
    <2>1. (q + 1) * Block = q * Block + Block /\ (q + 2) * Block = q * Block + 2 * Block
              /\ q * Block \in Nat
      BY <1>0, <1>1
    <2>2. CASE l < Block - 2
      <3>1. p = q + 1 /\ z = Block - 3 - l
        BY <1>0, <1>1, <2>2
      <3> HIDE DEF p, z
      <3> DEFINE k == q * Block
      <3>2. n = k + l /\ k \in Nat /\ p * Block = k + Block
        BY <1>1, <2>1, <3>1
      <3> HIDE DEF k
      <3> QED
        BY <1>0, <1>1, <1>3, <3>1, <3>2
    <2>3. CASE ~(l < Block - 2)
      <3>1. p = q + 2 /\ z = 2 * Block - 3 - l
        BY <1>0, <1>1, <2>3
      <3> HIDE DEF p, z
      <3> DEFINE k == q * Block
      <3>2. n = k + l /\ k \in Nat /\ p * Block = k + 2 * Block
        BY <1>1, <2>1, <3>1
      <3> HIDE DEF k
      <3> QED
        BY <1>0, <1>1, <1>3, <3>1, <3>2
    <2> QED
      BY <2>2, <2>3
  <1> HIDE DEF z, p
  <1>5. (n + 1 + z + 2) % Block = 0
    <2> DEFINE k == n + 1 + z + 2
    <2>1. k = p * Block + 0 /\ k \in Nat /\ 0 \in 0 .. Block - 1
      BY <1>0, <1>4
    <2> HIDE DEF k
    <2>2. k % Block = 0
      BY SMTT(30), <1>0, <1>4, <2>1, DividesIs
    <2> QED
      BY <2>2 DEF k
  <1>6. ASSUME NEW y \in 0 .. Block - 1, (n + 1 + y + 2) % Block = 0
        PROVE  y = z
    <2> DEFINE k == n + 1 + y + 2
               d == k \div Block
    <2>1. k \in Nat
      BY <1>0
    <2>2. k = d * Block + (k % Block) /\ d \in Nat
      <3> HIDE DEF k
      <3> QED
        BY <1>0, <2>1, Divides
    <2>3. k % Block = 0
      BY <1>6
    <2> HIDE DEF d
    <2>4. k = d * Block
      <3> HIDE DEF k
      <3>1. d * Block \in Nat
        BY <1>0, <2>2
      <3> QED
        BY <2>2, <2>3, <3>1
    <2>5. y - z = d * Block - p * Block
      <3>1. d * Block \in Nat /\ p * Block \in Nat
        BY <1>0, <1>4, <2>2
      <3> DEFINE u == d * Block
                 v == p * Block
      <3>2. n + 1 + z + 2 = v /\ n + 1 + y + 2 = u /\ u \in Nat /\ v \in Nat
        BY <1>4, <2>4, <3>1
      <3> HIDE DEF u, v
      <3>3. y - z = u - v
        BY <1>0, <1>3, <3>2
      <3> QED
        BY <3>3 DEF u, v
    <2>6. y - z = (d - p) * Block
      <3>1. (d - p) * Block = d * Block - p * Block
        BY <1>0, <1>4, <2>2
      <3> QED
        BY <2>5, <3>1
    <2>7. CASE d - p >= 1
      <3>1. (d - p) * Block >= Block
        BY <1>0, <1>4, <2>2, <2>7
      <3> QED
        BY <1>0, <1>3, <2>6, <3>1
    <2>8. CASE d - p <= -1
      <3>1. (d - p) * Block <= -Block
        BY <1>0, <1>4, <2>2, <2>8
      <3> QED
        BY <1>0, <1>3, <2>6, <3>1
    <2>9. CASE d - p = 0
      <3>1. (d - p) * Block = 0
        BY <1>0, <2>9
      <3> QED
        BY <1>0, <1>3, <2>6, <3>1
    <2> QED
      BY <1>4, <2>2, <2>7, <2>8, <2>9
  <1>7. ZerosBehind(n) = z
    BY <1>3, <1>5, <1>6 DEF ZerosBehind
  <1> QED
    BY <1>2, <1>3, <1>7
-----------------------------------------------------------------------------
\* The bytes the digest adds to a message.
HasPadding(S) == <<"zero", 0>> \in S /\ Digests!One \in S /\ \A n \in Nat : <<"length", n>> \in S

(* What the context has when it is finished is the digest of the message it held. *)
LEMMA FinishedIs ==
    ASSUME NEW S, HasPadding(S), NEW c, NEW m \in Seq(S), HoldsMessage(c, m, S), CountsMessage(c, m), NEW order
    PROVE  Digests!Finished(c, order) = Digests!Digest(m, order)
  <1> DEFINE t == Len(m)
             z == ZerosBehind(t)
             p == Digests!Padding(c)
             low == (t * Bits) % WordSize
             high == ((t * Bits) \div WordSize) % WordSize
             w == Digests!Words(order, low, high)
             o == <<Digests!One>>
             f == Digests!Zeros(z)
  <1>0. Block \in Nat /\ Block > 2 /\ WordSize \in Nat /\ WordSize > 0 /\ Bits \in Nat /\ t \in Nat
    BY DigestAssumption
  <1>1. c \in DigestContext(S) /\ Digests!Left(c) = t % Block
    BY DEF HoldsMessage, Digests!Left
  <1>2. z \in 0 .. Block - 1 /\ p = o \o f
    <2> HIDE DEF t
    <2> QED
      BY <1>0, <1>1, PaddingIs DEF z
  <1>3. o \in Seq(S)
    BY DEF HasPadding
  <1>4. f \in Seq(S)
    <2> HIDE DEF z
    <2>1. Digests!Zeros(z) \in [1 .. z -> S]
      BY DEF Digests!Zeros, HasPadding
    <2> QED
      BY <1>0, <1>2, <2>1
  <1>5. low \in Nat /\ high \in Nat
    <2> DEFINE u == t * Bits
               v == u \div WordSize
    <2>1. u \in Nat
      BY <1>0
    <2> HIDE DEF u, t
    <2>2. v \in Nat /\ u % WordSize \in 0 .. WordSize - 1
      BY <1>0, <2>1, Divides
    <2> HIDE DEF v
    <2>3. v % WordSize \in 0 .. WordSize - 1
      BY <1>0, <2>2, Divides
    <2>4. u % WordSize \in Nat /\ v % WordSize \in Nat
      BY <2>2, <2>3
    <2> QED
      BY <2>4 DEF u, v
  <1>6. w \in Seq(S)
    <2> HIDE DEF low, high
    <2>1. <<"length", low>> \in S /\ <<"length", high>> \in S
      BY <1>5 DEF HasPadding
    <2> QED
      BY <2>1 DEF Digests!Words
  <1>7. Digests!Length(c, order) = w
    BY <1>1, LengthIs
  <1>8. Digests!Digest(m, order) = Digests!Parts(m \o o \o f \o w)
    BY DEF Digests!Digest, ZerosBehind
  <1> HIDE DEF t, z, p, w, o, f, low, high
  <1>9. p \in Seq(S)
    BY <1>2, <1>3, <1>4, BytesJoined
  <1>10. HoldsMessage(Digests!Updated(c, p), m \o p, S) /\ m \o p \in Seq(S)
    BY <1>9, Feed, BytesJoined
  <1>11. HoldsMessage(Digests!Updated(Digests!Updated(c, p), w), (m \o p) \o w, S)
    BY <1>6, <1>10, Feed
  <1>12. Digests!Finished(c, order) = Digests!Parts((m \o p) \o w)
    BY <1>7, <1>11 DEF Digests!Finished, HoldsMessage, p
  <1>13. m \o p = (m \o o) \o f
    <2>1. PutBehind(PutBehind(m, o), f) = PutBehind(m, PutBehind(o, f))
      BY <1>3, <1>4, Associates
    <2> QED
      BY <1>2, <2>1 DEF PutBehind
  <1> QED
    BY <1>8, <1>12, <1>13

(* A piece of at most a word is counted. *)
LEMMA CountsFed ==
    ASSUME NEW S, NEW c, NEW m \in Seq(S), NEW s \in Seq(S), HoldsMessage(c, m, S), CountsMessage(c, m),
           Len(s) <= WordSize, Len(m) + Len(s) < WordSize * WordSize
    PROVE  CountsMessage(Digests!Updated(c, s), m \o s)
  <1> DEFINE n == Len(s)
             d == Digests!Counted(c, n)
             u == Digests!Updated(c, s)
             b == c.blocks \o FullBlock(c, s) \o Digests!Parts(RestOf(c, s))
             k == KeptBytes(c, s)
  <1>1. c \in DigestContext(S) /\ c.lo % Block = Len(m) % Block /\ n \in Nat
    BY DEF HoldsMessage
  <1>2. Len(m \o s) = Len(m) + n
    BY BytesJoined
  <1>3. u = [d EXCEPT !.blocks = b, !.buffer = k]
    BY <1>1, UpdatedIs
  <1>4. n <= WordSize /\ Len(m) + n < WordSize * WordSize
    OBVIOUS
  <1> HIDE DEF n
  <1>5. d \in DigestContext(S) /\ d.lo + d.hi * WordSize = Len(m) + n
    BY <1>1, <1>4, CountGrows
  <1> HIDE DEF d, u, b, k
  <1>6. u.lo = d.lo /\ u.hi = d.hi
    BY <1>3, <1>5 DEF DigestContext
  <1>7. CountsMessage(u, m \o s)
    BY <1>2, <1>5, <1>6 DEF CountsMessage
  <1> QED
    BY <1>7 DEF u

(* The HMAC is the digest of two padded keys, as it is defined. *)
LEMMA MacIs ==
    ASSUME NEW S, HasPadding(S), NEW key \in Seq(Nat), NEW s \in Seq(S), NEW order,
           Len(key) <= Block, Len(s) < WordSize,
           \A n \in Nat : <<"in", n>> \in S /\ <<"out", n>> \in S
    PROVE  Digests!Mac(key, s, order) =
               Digests!Digest(Append(Digests!Pad(key, "out"),
                                     <<"digest", Digests!Digest(Digests!Pad(key, "in") \o s,
                                                                order)>>), order)
  <1> DEFINE i == Digests!Pad(key, "in")
             o == Digests!Pad(key, "out")
             j == Digests!Digest(i \o s, order)
             d == <<"digest", j>>
             T == S \cup {d}
             W == WordSize
  <1>0. Block \in Nat /\ Block > 2 /\ W \in Nat /\ W > 0 /\ W % Block = 0 /\ Len(s) \in Nat
    BY DigestAssumption
  <1>1. Block <= W /\ W * W > 2 * W
    <2> DEFINE e == W \div Block
    <2>1. W = e * Block + (W % Block) /\ e \in Nat
      BY <1>0, Divides
    <2> HIDE DEF e, W
    <2>2. W = e * Block
      <3>1. e * Block \in Nat
        BY <1>0, <2>1
      <3> QED
        BY <1>0, <2>1, <3>1
    <2>3. e >= 1
      BY <1>0, <2>1, <2>2
    <2>4. Block <= W
      BY <1>0, <2>1, <2>2, <2>3
    <2>5. W * W >= 3 * W
      BY <1>0, <2>4
    <2> QED
      BY <1>0, <2>4, <2>5
  <1>2. i \in Seq(S) /\ o \in Seq(S) /\ Len(i) = Block /\ Len(o) = Block
    <2>1. \A k \in 1 .. Block : (IF k <= Len(key) THEN key[k] ELSE 0) \in Nat
      OBVIOUS
    <2>2. i \in [1 .. Block -> S] /\ o \in [1 .. Block -> S]
      BY <2>1 DEF Digests!Pad
    <2> HIDE DEF i, o
    <2> QED
      BY <1>0, <2>2
  <1>9. Block <= W /\ Len(s) < W
    BY <1>1
  <1> HIDE DEF i, o, j, d, T, W
  <1>3. \A X, x : <<"zero", 0>> \in X /\ x \in Seq(X) /\ Len(x) = Block =>
            HoldsMessage(Digests!Updated(Digests!Start, x), x, X)
                /\ CountsMessage(Digests!Updated(Digests!Start, x), x)
    <2> TAKE X, x
    <2> HAVE <<"zero", 0>> \in X /\ x \in Seq(X) /\ Len(x) = Block
    <2> DEFINE e == <<>>
    <2>1. e \in Seq(X) /\ Len(e) = 0 /\ e \o x = x
      BY NothingJoined
    <2>2. HoldsMessage(Digests!Start, e, X) /\ CountsMessage(Digests!Start, e)
      BY HoldsNothing
    <2> HIDE DEF e
    <2>3. Len(x) <= W /\ Len(e) + Len(x) < W * W
      <3> DEFINE k == W * W
      <3>1. k > 2 * W /\ k \in Nat
        BY <1>0, <1>1
      <3> HIDE DEF k
      <3>2. Len(e) + Len(x) < k
        BY <1>0, <1>9, <2>1, <3>1
      <3> QED
        BY <1>1, <3>2 DEF k
    <2>4. HoldsMessage(Digests!Updated(Digests!Start, x), e \o x, X)
      BY <2>1, <2>2, Feed
    <2>5. CountsMessage(Digests!Updated(Digests!Start, x), e \o x)
      BY <2>1, <2>2, <2>3, CountsFed DEF W
    <2> QED
      BY <2>1, <2>4, <2>5
  <1>4. Digests!Finished(Digests!Updated(Digests!Updated(Digests!Start, i), s), order) = j
    <2>1. HoldsMessage(Digests!Updated(Digests!Start, i), i, S)
              /\ CountsMessage(Digests!Updated(Digests!Start, i), i)
      BY <1>2, <1>3 DEF HasPadding
    <2>2. Len(s) <= W /\ Len(i) + Len(s) < W * W
      <3> DEFINE k == W * W
      <3>1. k > 2 * W /\ k \in Nat
        BY <1>0, <1>1
      <3> HIDE DEF k
      <3>2. Len(i) + Len(s) < k /\ Len(s) <= W
        BY <1>0, <1>9, <1>2, <3>1
      <3> QED
        BY <3>2 DEF k
    <2>3. HoldsMessage(Digests!Updated(Digests!Updated(Digests!Start, i), s), i \o s, S)
      BY <1>2, <2>1, Feed
    <2>4. CountsMessage(Digests!Updated(Digests!Updated(Digests!Start, i), s), i \o s)
      BY <1>2, <2>1, <2>2, CountsFed DEF W
    <2>5. i \o s \in Seq(S)
      BY <1>2, BytesJoined
    <2> QED
      BY <2>3, <2>4, <2>5, FinishedIs DEF j
  <1>5. Digests!Finished(Digests!Updated(Digests!Updated(Digests!Start, o), <<d>>), order)
            = Digests!Digest(o \o <<d>>, order)
    <2> DEFINE y == <<d>>
    <2>1. o \in Seq(T) /\ y \in Seq(T) /\ Len(y) = 1 /\ HasPadding(T)
      BY <1>2 DEF T, HasPadding
    <2> HIDE DEF y
    <2>2. HoldsMessage(Digests!Updated(Digests!Start, o), o, T)
              /\ CountsMessage(Digests!Updated(Digests!Start, o), o)
      BY <1>2, <1>3, <2>1 DEF HasPadding
    <2>3. Len(y) <= W /\ Len(o) + Len(y) < W * W
      <3> DEFINE k == W * W
      <3>1. k > 2 * W /\ k \in Nat
        BY <1>0, <1>1
      <3> HIDE DEF k
      <3>2. Len(o) + Len(y) < k /\ Len(y) <= W
        BY <1>0, <1>9, <1>2, <2>1, <3>1
      <3> QED
        BY <3>2 DEF k
    <2>4. HoldsMessage(Digests!Updated(Digests!Updated(Digests!Start, o), y), o \o y, T)
      BY <2>1, <2>2, Feed
    <2>5. CountsMessage(Digests!Updated(Digests!Updated(Digests!Start, o), y), o \o y)
      BY <2>1, <2>2, <2>3, CountsFed DEF W
    <2>6. o \o y \in Seq(T)
      BY <2>1, BytesJoined
    <2>7. Digests!Finished(Digests!Updated(Digests!Updated(Digests!Start, o), y), order)
              = Digests!Digest(o \o y, order)
      BY <2>1, <2>4, <2>5, <2>6, FinishedIs
    <2> QED
      BY <2>7 DEF y
  <1>6. Append(o, d) = o \o <<d>>
    <2>1. o \in Seq(T) /\ d \in T
      BY <1>2 DEF T
    <2> QED
      BY <2>1
  <1>7. ~(Len(key) > Block)
    BY <1>0
  <1>8. Digests!Mac(key, s, order)
            = Digests!Finished(Digests!Updated(Digests!Updated(Digests!Start, o), <<d>>), order)
    BY <1>4, <1>7 DEF Digests!Mac, i, o, d
  <1> QED
    BY <1>5, <1>6, <1>8 DEF i, o, j, d
-----------------------------------------------------------------------------
\* The bytes there are.
DigestBytes == {"byte", "zero", "one", "length", "in", "out"} \X Nat

\* The inductive invariant: the context holds and counts what it was given.
DigestInv ==
    /\ dgFed \in Seq(DigestBytes) /\ Len(dgFed) <= MaxBytes
    /\ HoldsMessage(dgCtx, dgFed, DigestBytes) /\ CountsMessage(dgCtx, dgFed)
    /\ Digests!DigestOfWhole /\ Digests!MacOfKey
    /\ dgMac # Null => dgOut = Null

LEMMA BytesAre ==
    /\ HasPadding(DigestBytes)
    /\ \A n \in Nat : <<"in", n>> \in DigestBytes /\ <<"out", n>> \in DigestBytes
           /\ <<"byte", n>> \in DigestBytes
  BY DEF DigestBytes, HasPadding, Digests!One

LEMMA DigestInit ==
    ASSUME Digests!Init
    PROVE  DigestInv
  <1> DEFINE e == <<>>
  <1>1. dgCtx = Digests!Start /\ dgFed = e /\ dgOut = Null /\ dgMac = Null
    BY DEF Digests!Init
  <1>2. HoldsMessage(Digests!Start, e, DigestBytes) /\ CountsMessage(Digests!Start, e)
    BY HoldsNothing, BytesAre DEF HasPadding
  <1>3. e \in Seq(DigestBytes) /\ Len(e) <= MaxBytes
    BY DigestAssumption
  <1> HIDE DEF e
  <1> QED
    BY <1>1, <1>2, <1>3 DEF DigestInv, Digests!DigestOfWhole, Digests!MacOfKey

LEMMA DigestNext ==
    ASSUME DigestInv, [Digests!Next]_digestVars
    PROVE  DigestInv'
  <1>0. /\ dgFed \in Seq(DigestBytes) /\ Len(dgFed) \in Nat /\ Len(dgFed) <= MaxBytes
        /\ HoldsMessage(dgCtx, dgFed, DigestBytes) /\ CountsMessage(dgCtx, dgFed)
        /\ MaxBytes \in Nat /\ WordSize \in Nat /\ WordSize > 0 /\ Block \in Nat
        /\ Digests!DigestOfWhole /\ Digests!MacOfKey /\ (dgMac # Null => dgOut = Null)
    BY DigestAssumption DEF DigestInv
  <1>1. ASSUME NEW n \in 0 .. WordSize - 1, Digests!Update(n) PROVE DigestInv'
    <2> DEFINE p == Digests!Piece(n)
               f == dgFed \o p
               t == Len(dgFed)
    <2>1. /\ dgCtx' = Digests!Updated(dgCtx, p) /\ dgFed' = f /\ t + n <= MaxBytes
          /\ dgOut' = Null /\ dgMac' = Null
      BY <1>1 DEF Digests!Update
    <2>2. p \in Seq(DigestBytes) /\ Len(p) = n /\ n \in Nat
      <3>1. \A i \in 1 .. n : <<"byte", t + i>> \in DigestBytes
        <4> HIDE DEF t
        <4> TAKE i \in 1 .. n
        <4>1. t + i \in Nat
          BY <1>0 DEF t
        <4> QED
          BY <4>1, BytesAre
      <3>2. p \in [1 .. n -> DigestBytes]
        BY <3>1 DEF Digests!Piece
      <3> HIDE DEF p
      <3> QED
        BY <3>2
    <2> HIDE DEF p
    <2>3. f \in Seq(DigestBytes) /\ Len(f) = t + n
      <3>1. f \in Seq(DigestBytes) /\ Len(f) = Len(dgFed) + Len(p)
        BY <1>0, <2>2, BytesJoined
      <3> QED
        BY <2>2, <3>1
    <2>4. HoldsMessage(Digests!Updated(dgCtx, p), f, DigestBytes)
      BY <1>0, <2>2, Feed
    <2>5. CountsMessage(Digests!Updated(dgCtx, p), f)
      <3> DEFINE k == WordSize * WordSize
      <3>1. MaxBytes < k /\ k \in Nat
        BY <1>0, DigestAssumption
      <3> HIDE DEF k
      <3>2. Len(p) <= WordSize /\ Len(dgFed) + Len(p) < k
        BY <1>0, <2>1, <2>2, <3>1
      <3> QED
        BY <1>0, <2>2, <3>2, CountsFed DEF k
    <2> HIDE DEF f, t
    <2>6. Len(f) <= MaxBytes
      BY <2>1, <2>3
    <2> QED
      BY <2>1, <2>3, <2>4, <2>5, <2>6 DEF DigestInv, Digests!DigestOfWhole, Digests!MacOfKey
  <1>2. ASSUME Digests!Finish PROVE DigestInv'
    <2>1. /\ dgOut' = Digests!Finished(dgCtx, dgOrder) /\ dgMac' = Null
          /\ dgFed' = dgFed /\ dgOrder' = dgOrder /\ dgCtx' = dgCtx
      BY <1>2 DEF Digests!Finish
    <2>2. Digests!Finished(dgCtx, dgOrder) = Digests!Digest(dgFed, dgOrder)
      BY <1>0, BytesAre, FinishedIs
    <2> QED
      BY <1>0, <2>1, <2>2 DEF DigestInv, Digests!DigestOfWhole, Digests!MacOfKey
  <1>3. ASSUME Digests!Reset PROVE DigestInv'
    <2> DEFINE e == <<>>
    <2>1. dgCtx' = Digests!Start /\ dgFed' = e /\ dgOut' = Null /\ dgMac' = Null
      BY <1>0, <1>3 DEF Digests!Reset
    <2>2. HoldsMessage(Digests!Start, e, DigestBytes) /\ CountsMessage(Digests!Start, e)
      BY HoldsNothing, BytesAre DEF HasPadding
    <2>3. e \in Seq(DigestBytes) /\ Len(e) <= MaxBytes
      BY <1>0
    <2> HIDE DEF e
    <2> QED
      BY <2>1, <2>2, <2>3 DEF DigestInv, Digests!DigestOfWhole, Digests!MacOfKey
  <1>4. ASSUME NEW n \in 0 .. Block + 1, Digests!Sign(n) PROVE DigestInv'
    <2> DEFINE key == [i \in 1 .. n |-> i]
               out == Digests!Mac(key, dgFed, dgOrder)
    <2>1. /\ dgMac' = [key |-> key, out |-> out] /\ Len(dgFed) < WordSize
          /\ dgFed' = dgFed /\ dgOrder' = dgOrder /\ dgCtx' = dgCtx /\ dgOut' = Null
      BY <1>4 DEF Digests!Sign
    <2>2. key \in Seq(Nat) /\ Len(key) = n
      <3>1. key \in [1 .. n -> Nat] /\ n \in Nat
        BY <1>0
      <3> HIDE DEF key
      <3> QED
        BY <3>1
    <2> HIDE DEF key
    <2>3. out = IF Len(key) > Block THEN Null
                ELSE Digests!Digest(Append(Digests!Pad(key, "out"),
                                   <<"digest", Digests!Digest(Digests!Pad(key, "in") \o dgFed,
                                                               dgOrder)>>), dgOrder)
      <3>1. CASE Len(key) > Block
        BY <3>1 DEF Digests!Mac
      <3>2. CASE ~(Len(key) > Block)
        <4>1. Len(key) <= Block
          BY <1>0, <2>2, <3>2
        <4> QED
          BY <1>0, <2>1, <2>2, <3>2, <4>1, BytesAre, MacIs
      <3> QED
        BY <3>1, <3>2
    <2> HIDE DEF out
    <2>4. dgMac'.key = key /\ dgMac'.out = out
      BY <2>1
    <2>5. Digests!MacOfKey'
      BY <2>1, <2>3, <2>4 DEF Digests!MacOfKey
    <2> QED
      BY <1>0, <2>1, <2>5 DEF DigestInv, Digests!DigestOfWhole
  <1>5. CASE UNCHANGED digestVars
    BY <1>0, <1>5 DEF digestVars, DigestInv, Digests!DigestOfWhole, Digests!MacOfKey
  <1> QED
    BY <1>1, <1>2, <1>3, <1>4, <1>5 DEF Digests!Next

LEMMA DigestMeans ==
    ASSUME DigestInv
    PROVE  Digests!TypeOK /\ Digests!DigestOfWhole /\ Digests!MacOfKey
  <1>1. /\ dgFed \in Seq(DigestBytes) /\ Len(dgCtx.buffer) = Block
               /\ dgCtx.blocks = Digests!Parts(dgFed)
        /\ dgCtx.lo + dgCtx.hi * WordSize = Len(dgFed)
    BY DEF DigestInv, HoldsMessage, CountsMessage
  <1>2. Len(Digests!Parts(dgFed)) = Len(dgFed) \div Block
    BY <1>1, PartsTyped
  <1> QED
    BY <1>1, <1>2 DEF DigestInv, Digests!TypeOK

----------------------------------------------------------------------------
(* Files and posts. *)

(* The next unit of a file that is a part of its order, from the begin. *)
LEMMA FileUnitAdded ==
    ASSUME NEW S, NEW order, NEW s \in Seq(S), s = [i \in 1 .. Len(s) |-> <<order, i - 1>>],
           <<order, Len(s)>> \in S
    PROVE  /\ Append(s, <<order, Len(s)>>) \in Seq(S)
           /\ Len(Append(s, <<order, Len(s)>>)) = Len(s) + 1
           /\ Append(s, <<order, Len(s)>>) = [i \in 1 .. Len(s) + 1 |-> <<order, i - 1>>]
  <1> DEFINE t == Append(s, <<order, Len(s)>>)
  <1>1. t \in Seq(S) /\ Len(t) = Len(s) + 1 /\ Len(s) \in Nat
    OBVIOUS
  <1>2. \A i \in 1 .. Len(s) : t[i] = s[i] /\ s[i] = <<order, i - 1>>
    OBVIOUS
  <1>3. t[Len(s) + 1] = <<order, Len(s)>>
    OBVIOUS
  <1>4. DOMAIN t = 1 .. Len(s) + 1
    BY <1>1
  <1>5. \A i \in 1 .. Len(s) + 1 : t[i] = <<order, i - 1>>
    <2> SUFFICES ASSUME NEW i \in 1 .. Len(s) + 1 PROVE t[i] = <<order, i - 1>>
      OBVIOUS
    <2>1. CASE i \in 1 .. Len(s)
      BY <1>2, <2>1
    <2>2. CASE i = Len(s) + 1
      <3>1. i - 1 = Len(s)
        BY <1>1, <2>2
      <3> QED
        BY <1>3, <2>2, <3>1
    <2> QED
      BY <1>1, <2>1, <2>2
  <1>6. t = [i \in 1 .. Len(s) + 1 |-> t[i]]
    BY <1>1, <1>4
  <1> QED
    BY <1>1, <1>5, <1>6

Orders == Nat \cup {Null}

FetchTypes ==
    /\ fmState \in {"inited", "fetching", "fetched", "deleting", "disconnected"}
    /\ fmInfo \in [name : Orders, url : Orders]
    /\ fmFile \in [order : Orders, units : Seq(Orders \X Nat)]
    /\ fmOrders \in Nat
    /\ fmDown \subseteq [type : {"update", "delete", "url", "noversion"}, n : Nat]
    /\ fmUp \subseteq [type : {"url", "version"}, n : Nat]

(* An order is handled once: one that is under way is neither that of the  *)
(* handle nor that of the file.                                            *)
OrdersAreNew ==
    /\ \A m \in fmDown : m.type = "update" =>
           m.n <= fmOrders /\ m.n # fmInfo.url /\ m.n # fmFile.order
    /\ \A o \in {fmInfo.url, fmFile.order} : o = Null \/ o <= fmOrders

(* The name is that of a fetch; what is stored and the checksum grow       *)
(* together, also where the fetch is disconnected.                         *)
FetchIsOfOrder ==
    /\ fmState \in {"inited", "deleting"} => fmInfo.name = Null
    /\ fmState = "fetching" => fmInfo.name \in Nat /\ fmInfo.url = fmInfo.name
    /\ fmState = "fetching" /\ fmFile.order = fmInfo.url =>
           /\ fmDigest = fmFile.units
           /\ fmFile.units = [i \in 1 .. Len(fmFile.units) |-> <<fmFile.order, i - 1>>]
    /\ Files!ChecksumOfFile

PostTypes ==
    /\ fmPosts \in Nat
    /\ \A e \in fmWaiting : e \in [n : 1 .. fmPosts, expired : BOOLEAN]
    /\ fmPosted \in Seq(1 .. fmPosts)

(* What was posted waits no more. *)
PostsInTurn ==
    /\ \A i \in 1 .. Len(fmPosted), e \in fmWaiting : fmPosted[i] # e.n
    /\ Files!PostedOnce

FetchInv == FetchTypes /\ OrdersAreNew /\ FetchIsOfOrder
PostsInv == PostTypes /\ PostsInTurn
FilesInv == FetchInv /\ PostsInv

----------------------------------------------------------------------------
(* The configuration of the network. *)

WifiTypes ==
    /\ wcTurn \in 0 .. Len(Methods)
    /\ wcApp \in {"idle", "wait", "done"}
    /\ wcStarted \in [Wifi!Kinds -> BOOLEAN]
    /\ wcOutcome \in [Wifi!Kinds -> {"ing", "fail", "success"}]
    /\ wcTask \in [Wifi!Kinds -> {"none", "poll", "bind"}]
    /\ wcResults \in [1 .. Len(Methods) -> Seq({"success", "failed", "timeout"})]
    /\ \A k \in Wifi!Kinds : wcTask[k] = "bind" =>
           wcBind \in [sub : BOOLEAN, ready : BOOLEAN, tries : Nat, sent : BOOLEAN]

(* A task that was started and not stopped. *)
Active(k) == wcStarted[k] /\ wcTask[k] # "none"

(* Only the method of this turn has one, the application waits for it, and *)
(* it has reported nothing yet; one that binds was started.                *)
OneActive ==
    /\ \A k \in Wifi!Kinds : Active(k) =>
           /\ wcTurn > 0 /\ k = Methods[wcTurn] /\ wcApp = "wait"
           /\ wcResults[wcTurn] = <<>>
    /\ \A k \in Wifi!Kinds : wcTask[k] = "bind" => wcStarted[k]
    /\ Wifi!OneResult

(* Success of an active method came with the token of this turn. *)
TokenOfTurn ==
    \A k \in Wifi!Kinds :
        Active(k) /\ (wcOutcome[k] = "success" \/ wcTask[k] = "bind") => wcToken = wcTurn

Binding == \E k \in Wifi!Kinds : wcTask[k] = "bind"

(* What is under way, and what was taken of it, is of this token. *)
BindIsOfToken ==
    /\ wcBind # Null \/ wcUp # {} \/ wcDown # {} => Binding
    /\ wcUp \subseteq {wcTurn}
    /\ "zero" \in wcDown => wcTurn \in wcAccepted
    /\ Binding /\ wcBind.ready /\ wcCode = "zero" => wcTurn \in wcAccepted
    /\ Wifi!SuccessIsBound

WifiInv == WifiTypes /\ OneActive /\ TokenOfTurn /\ BindIsOfToken

----------------------------------------------------------------------------
(* The life cycle of the client. *)

LifecycleTypes ==
    /\ clMade \in BOOLEAN /\ clRunning \in BOOLEAN /\ clExit \in BOOLEAN
    /\ clLoop \in BOOLEAN /\ clGaveUp \in BOOLEAN /\ clTwice \in BOOLEAN
    /\ clApp \in {"idle", "yield", "stop"} /\ clLoops \in Nat
    /\ clThread \in [Threads -> {"none", "starting", "check", "yield", "sleep", "ending",
                                 "leaving", "ended"}]

(* The thread may yet begin to yield, or yields. *)
MayYield(t) == Lifecycle!Alive(t) /\ clThread[t] # "leaving"

(* The one loop of a client: its flags tell of its thread, and while the   *)
(* application yields itself the thread does not.                          *)
OneLoop ==
    /\ clLoops = 0 => ~clExit
    /\ \A t, u \in Threads : clThread[t] # "none" /\ clThread[u] # "none" => t = u
    /\ \A t \in Threads : Lifecycle!Alive(t) => clLoop /\ ~clExit
    /\ \A t \in Threads : MayYield(t) => clApp # "yield" /\ (clApp = "idle" => clRunning)

LifecycleInv ==
    /\ LifecycleTypes
    /\ clMade => clHeld = Lifecycle!All
    /\ ~clMade => ~clLoop /\ clApp = "idle"
    /\ Lifecycle!AllReleased
    /\ clLoops = 0 => \A t \in Threads : clThread[t] = "none"
    /\ ~clGaveUp /\ clLoops <= 1 => OneLoop

----------------------------------------------------------------------------
(* The connection below the client. *)
NetInv == Net!TypeOK /\ ntTls \in BOOLEAN /\ ntMemory \in BOOLEAN /\ ntLost \in BOOLEAN /\ Net!OneSocket

----------------------------------------------------------------------------
(* Speech. *)

SpeechTypes ==
    /\ asPosted \in Nat
    /\ asList \subseteq [id : 1 .. asPosted, type : {"record", "realtime"}, token : Nat \cup {Null},
                         late : BOOLEAN]
    /\ asFiles \subseteq 1 .. asPosted
    /\ asUp \subseteq Nat /\ asAsked \subseteq Nat

(* A request has its own token, and a file only as long as it has none. *)
RequestsApart ==
    /\ \A r, q \in asList : r.id = q.id => r = q
    /\ \A r \in asList : r.token \in {Null, r.id}
    /\ \A r \in asList : r.id \in asFiles => r.type = "realtime" /\ r.token = Null

SpeechInv ==
    SpeechTypes /\ RequestsApart /\ Speech!FilesOwned /\ Speech!ResultReachesRequest
-----------------------------------------------------------------------------
(* The proof for the connection. *)

(* The sockets of no handle are none, those of one are that socket. *)
LEMMA HandlesApart ==
    /\ {fd \in Sockets : 0 = Net!HandleOf(fd)} = {}
    /\ \A one \in Sockets :
         /\ Net!HandleOf(one) # 0 /\ Net!HandleOf(one) - Net!Shift = one
         /\ {fd \in Sockets : Net!HandleOf(one) = Net!HandleOf(fd)} = {one}
  <1>1. \A fd \in Sockets : Net!HandleOf(fd) # 0 /\ Net!HandleOf(fd) - Net!Shift = fd
    BY SocketsAssumption DEF Net!HandleOf, Net!Shift
  <1>2. \A one, fd \in Sockets : Net!HandleOf(one) = Net!HandleOf(fd) => fd = one
    BY SocketsAssumption DEF Net!HandleOf, Net!Shift
  <1>3. ASSUME NEW one \in Sockets
        PROVE  {fd \in Sockets : Net!HandleOf(one) = Net!HandleOf(fd)} = {one}
    BY <1>2
  <1> QED
    BY <1>1, <1>3

LEMMA NetInit == Net!Init => NetInv
  <1> SUFFICES ASSUME Net!Init PROVE NetInv
    OBVIOUS
  <1>1. ntSockets = {fd \in Sockets : ntHandle = Net!HandleOf(fd)}
    BY HandlesApart DEF Net!Init
  <1>2. ntMemory = (ntTls /\ ntHandle # 0)
    BY DEF Net!Init
  <1> QED
    BY <1>1, <1>2 DEF Net!Init, NetInv, Net!TypeOK, Net!OneSocket

(* A socket is opened only when there is none. *)
LEMMA NetOpened ==
    ASSUME NetInv, ntHandle = 0, Net!Opened, UNCHANGED <<ntTls, ntLost>>, ntMemory' = ntTls
    PROVE  NetInv'
  <1>1. PICK fd \in Sockets : /\ ntHandle' = Net!HandleOf(fd)
                              /\ ntSockets' = ntSockets \cup {fd}
    BY DEF Net!Opened, Net!Free
  <1>2. Net!TypeOK' /\ (ntMemory' = (ntTls' /\ ntHandle' # 0))
    BY <1>1, HandlesApart DEF NetInv, Net!TypeOK
  <1>3. ~ntLost' => ntSockets' = {g \in Sockets : ntHandle' = Net!HandleOf(g)}
    <2>1. ~ntLost => ntSockets = {}
      BY HandlesApart DEF NetInv, Net!OneSocket
    <2> QED
      BY <2>1, <1>1, HandlesApart
  <1> QED
    BY <1>2, <1>3 DEF NetInv, Net!OneSocket

(* Its socket is closed, or the handle lost. *)
LEMMA NetClosed ==
    ASSUME NetInv, ntHandle # 0, ntHandle' = 0, ntMemory' = FALSE,
           \/ ntSockets' = ntSockets \ {ntHandle - Net!Shift} /\ ntLost' = ntLost
           \/ ntSockets' = ntSockets /\ ntLost' = TRUE,
           UNCHANGED ntTls
    PROVE  NetInv'
  <1>1. PICK fd \in Sockets : ntHandle = Net!HandleOf(fd)
    BY DEF NetInv, Net!TypeOK
  <1>2. Net!TypeOK' /\ ntMemory' = (ntTls' /\ ntHandle' # 0) /\ ntLost' \in BOOLEAN
    BY DEF NetInv, Net!TypeOK
  <1>3. ~ntLost' => ntSockets' = {g \in Sockets : ntHandle' = Net!HandleOf(g)}
    BY <1>1, HandlesApart DEF NetInv, Net!OneSocket
  <1> QED
    BY <1>2, <1>3 DEF NetInv, Net!OneSocket

LEMMA NetNext == NetInv /\ [Net!Next]_netVars => NetInv'
  <1> SUFFICES ASSUME NetInv, [Net!Next]_netVars
               PROVE  NetInv'
    OBVIOUS
  <1> DEFINE Same == UNCHANGED <<ntTls, ntHandle, ntSockets, ntMemory, ntLost>>
  <1>1. ASSUME Same PROVE NetInv'
    BY <1>1 DEF NetInv, Net!TypeOK, Net!OneSocket
  <1>2. ASSUME NEW outcomes, Net!TcpConnect(outcomes) PROVE NetInv'
    <2>1. ntMemory' = ntMemory /\ ~ntTls /\ ~ntMemory
      BY <1>2 DEF Net!TcpConnect, NetInv, Net!OneSocket
    <2>2. CASE Net!Opened
        <3>1. ntMemory' = FALSE /\ ntTls' = FALSE
        BY <1>2, <2>1 DEF Net!TcpConnect, NetInv
      <3> QED
        BY <1>2, <2>2, <3>1, NetOpened DEF Net!TcpConnect
    <2>3. CASE UNCHANGED <<ntHandle, ntSockets>>
      BY <1>1, <1>2, <2>3 DEF Net!TcpConnect
    <2> QED
      BY <1>2, <2>2, <2>3 DEF Net!TcpConnect
  <1>3. ASSUME NEW works \in BOOLEAN, Net!TlsConnect(works) PROVE NetInv'
    <2>1. CASE works
      <3>1. Net!Opened /\ ntTls /\ ntMemory' = TRUE /\ ntHandle = 0 /\ UNCHANGED <<ntTls, ntLost>>
        BY <1>3, <2>1 DEF Net!TlsConnect
      <3> QED
        BY <3>1, NetOpened
    <2>2. CASE ~works
      BY <1>1, <1>3, <2>2 DEF Net!TlsConnect
    <2> QED
      BY <2>1, <2>2
  <1>4. ASSUME NEW shut \in BOOLEAN, Net!TcpDisconnect(shut) PROVE NetInv'
    <2>1. ntMemory' = FALSE /\ ntHandle # 0 /\ ntHandle' = 0 /\ UNCHANGED ntTls
      BY <1>4 DEF Net!TcpDisconnect, NetInv, Net!OneSocket
    <2>2. \/ ntSockets' = ntSockets \ {ntHandle - Net!Shift} /\ ntLost' = ntLost
          \/ ntSockets' = ntSockets /\ ntLost' = TRUE
      BY <1>4 DEF Net!TcpDisconnect, NetInv
    <2> QED
      BY <2>1, <2>2, NetClosed
  <1>5. CASE Net!TlsDisconnect
    BY <1>5, NetClosed DEF Net!TlsDisconnect
  <1>6. CASE Net!SendPacket
    BY <1>1, <1>6 DEF Net!SendPacket, Net!openVars
  <1>7. ASSUME NEW n, Net!WriteSome(n) PROVE NetInv'
    BY <1>1, <1>7 DEF Net!WriteSome, Net!openVars
  <1>8. CASE Net!WriteStops \/ Net!WriteCountsTwice
    BY <1>1, <1>8 DEF Net!WriteStops, Net!WriteCountsTwice, Net!openVars
  <1>9. CASE UNCHANGED netVars
    BY <1>1, <1>9 DEF netVars
  <1> QED
    BY <1>2, <1>3, <1>4, <1>5, <1>6, <1>7, <1>8, <1>9 DEF Net!Next
-----------------------------------------------------------------------------
(* The proof for the life cycle of the client. *)

LEMMA PartsNamed ==
    Lifecycle!ToSet(Lifecycle!Parts) =
        {"client", "lock_generic", "lock_write_buf", "lock_list_sub", "lock_list_pub", "list_pub",
         "list_sub"}
  <1>1. Lifecycle!ToSet(Lifecycle!Parts) = {Lifecycle!Parts[i] : i \in 1 .. 7}
    BY DEF Lifecycle!ToSet, Lifecycle!Parts
  <1>2. 1 .. 7 = {1, 2, 3, 4, 5, 6, 7}
    OBVIOUS
  <1> QED
    BY <1>1, <1>2 DEF Lifecycle!Parts

(* What is left where a construction fails: nothing, but for the client id. *)
LEMMA FailureLeavesNothing ==
    /\ Lifecycle!Left(Null) = Lifecycle!All
    /\ \A at \in Lifecycle!Failures : at # "client_id" => Lifecycle!Left(at) = {}
  <1>1. Lifecycle!Left(Null) = Lifecycle!All
    BY FailuresAssumption, PartsNamed DEF Lifecycle!Left, Lifecycle!Failures
  <1>2. ASSUME NEW at \in Lifecycle!Failures, at # "client_id"
        PROVE  Lifecycle!Left(at) = {}
    <2>0. at # Null
      BY FailuresAssumption
    <2>1. CASE at = "client"
      BY <2>0, <2>1 DEF Lifecycle!Left
    <2>2. CASE at \in {"device_secret", "connect"}
      BY <2>0, <2>2 DEF Lifecycle!Left, Lifecycle!Fini, Lifecycle!Inner, Lifecycle!All
    <2>3. CASE at \in {"device_info", "host_addr"}
      BY <2>0, <2>3 DEF Lifecycle!Left, Lifecycle!InitFailed
    <2>4. CASE at = "lock_generic"
      <3>1. Lifecycle!Left(at) = Lifecycle!Before(at) \ {"client"}
        BY <2>0, <2>4 DEF Lifecycle!Left, Lifecycle!InitFailed
      <3>2. Lifecycle!Before(at) \subseteq {"client"}
        <4>1. ASSUME NEW i \in DOMAIN Lifecycle!Parts,
                     \A k \in 1 .. i : Lifecycle!Parts[k] # "lock_generic"
              PROVE  i = 1
          <5>1. i \in 1 .. 7 /\ Lifecycle!Parts[2] = "lock_generic"
            BY DEF Lifecycle!Parts
          <5> QED
            BY <4>1, <5>1
        <4>2. Lifecycle!Parts[1] = "client"
          BY DEF Lifecycle!Parts
        <4> QED
          BY <4>1, <4>2, <2>4 DEF Lifecycle!Before
      <3> QED
        BY <3>1, <3>2
    <2>5. CASE at \in {"lock_write_buf", "lock_list_sub", "lock_list_pub", "list_pub", "list_sub"}
      <3>1. Lifecycle!Left(at) = (Lifecycle!Before(at) \ Lifecycle!Inner) \ {"client"}
        BY <2>0, <2>5 DEF Lifecycle!Left, Lifecycle!InitFailed, Lifecycle!Cleaned
      <3>2. Lifecycle!Before(at) \subseteq Lifecycle!ToSet(Lifecycle!Parts)
        BY DEF Lifecycle!Before, Lifecycle!ToSet
      <3> QED
        BY <3>1, <3>2 DEF Lifecycle!Inner
    <2>6. at \in {"client", "lock_generic", "lock_write_buf", "lock_list_sub", "lock_list_pub",
                  "list_pub", "list_sub", "device_info", "host_addr", "device_secret", "connect"}
      BY PartsNamed, <1>2 DEF Lifecycle!Failures
    <2> QED
      BY <2>1, <2>2, <2>3, <2>4, <2>5, <2>6
  <1> QED
    BY <1>1, <1>2

LEMMA LifecycleInit == Lifecycle!Init => LifecycleInv
  <1>1. Lifecycle!Init => LifecycleTypes
    <2> SUFFICES ASSUME Lifecycle!Init PROVE LifecycleTypes
      OBVIOUS
    <2>1. clThread \in [Threads -> {"none", "starting", "check", "yield", "sleep", "ending",
                                     "leaving", "ended"}]
      BY DEF Lifecycle!Init
    <2>2. clMade \in BOOLEAN /\ clRunning \in BOOLEAN /\ clExit \in BOOLEAN
      BY DEF Lifecycle!Init
    <2>3. clLoop \in BOOLEAN /\ clGaveUp \in BOOLEAN /\ clTwice \in BOOLEAN
      BY DEF Lifecycle!Init
    <2>4. clApp = "idle" /\ clLoops \in Nat
      BY DEF Lifecycle!Init
    <2> QED
      BY <2>1, <2>2, <2>3, <2>4 DEF LifecycleTypes
  <1> QED
    BY <1>1 DEF Lifecycle!Init, LifecycleInv, LifecycleTypes, Lifecycle!AllReleased, OneLoop,
         Lifecycle!Alive, MayYield

(* Which task yields follows from the loop. *)
LEMMA LoopYields == LifecycleInv => Lifecycle!AllReleased /\ Lifecycle!OneYield
  BY DEF LifecycleInv, OneLoop, Lifecycle!OneYield, MayYield, Lifecycle!Alive

LEMMA LifecycleConstruct ==
    ASSUME LifecycleInv, NEW at \in Lifecycle!Failures \cup {Null}, Lifecycle!Construct(at)
    PROVE  LifecycleInv'
  <1>1. LifecycleTypes'
    BY DEF Lifecycle!Construct, LifecycleInv, LifecycleTypes
  <1>2. ~clLoop' /\ clApp' = "idle"
    BY DEF Lifecycle!Construct, LifecycleInv
  <1>3. /\ clMade' => clHeld' = Lifecycle!All
        /\ ~clMade' => clHeld' = {} \/ clFailed' = "client_id"
    BY FailureLeavesNothing DEF Lifecycle!Construct
  <1>4. OneLoop' /\ (\A t \in Threads : clThread'[t] = "none") /\ ~clTwice'
    BY DEF Lifecycle!Construct, LifecycleInv, Lifecycle!AllReleased, OneLoop, Lifecycle!Alive, MayYield
  <1> QED
    BY <1>1, <1>2, <1>3, <1>4 DEF LifecycleInv, Lifecycle!AllReleased

(* The steps that leave what is allocated alone. *)
LEMMA LifecycleRuns ==
    ASSUME LifecycleInv, UNCHANGED Lifecycle!clientVars, LifecycleTypes',
           ~clMade' => ~clLoop' /\ clApp' = "idle",
           clLoops' = 0 => \A t \in Threads : clThread'[t] = "none",
           ~clGaveUp' /\ clLoops' <= 1 => OneLoop'
    PROVE  LifecycleInv'
  BY DEF LifecycleInv, Lifecycle!AllReleased, Lifecycle!clientVars

LEMMA LifecycleThread ==
    ASSUME LifecycleInv, NEW t \in Threads, Lifecycle!ThreadStep(t)
    PROVE  LifecycleInv'
  <1>0. UNCHANGED <<Lifecycle!clientVars, clApp, clCnt, clLoop, clGaveUp, clLoops>> /\ clMade' = clMade
    BY DEF Lifecycle!ThreadStep, Lifecycle!Goes, Lifecycle!ThreadBegins, Lifecycle!ThreadChecks,
           Lifecycle!ThreadYields, Lifecycle!ThreadSleeps, Lifecycle!ThreadStops, Lifecycle!ThreadEnds,
           Lifecycle!clientVars
  <1> DEFINE Places == {"starting", "check", "yield", "sleep", "ending", "leaving"}
  <1>1. PICK to \in Places \cup {"ended"} :
            /\ clThread[t] \in Places
            /\ clThread' = [clThread EXCEPT ![t] = to]
            /\ \/ clThread[t] # "leaving" /\ to \notin {"leaving", "ended"}
                  /\ clExit' \in {clExit, FALSE} /\ clRunning' = clRunning
               \/ to = "leaving" /\ clExit' = clExit /\ clRunning' = FALSE
               \/ to = "ended" /\ clExit' = TRUE /\ clRunning' = clRunning
    BY DEF Lifecycle!ThreadStep, Lifecycle!Goes, Lifecycle!ThreadBegins, Lifecycle!ThreadChecks,
           Lifecycle!ThreadYields, Lifecycle!ThreadSleeps, Lifecycle!ThreadStops, Lifecycle!ThreadEnds
  <1>2. LifecycleTypes'
    <2>1. clRunning' \in BOOLEAN /\ clExit' \in BOOLEAN
      BY <1>1 DEF LifecycleInv, LifecycleTypes
    <2> QED
      BY <1>0, <1>1, <2>1 DEF LifecycleInv, LifecycleTypes, Lifecycle!clientVars
  <1>3. clLoops # 0
    BY <1>1 DEF LifecycleInv
  <1>4. ASSUME ~clGaveUp', clLoops' <= 1
        PROVE  OneLoop'
    <2>1. OneLoop
      BY <1>0, <1>4 DEF LifecycleInv
    <2>2. \A u \in Threads : /\ u # t => clThread[u] = "none" /\ clThread'[u] = "none"
                             /\ u = t => clThread'[u] = to
      BY <1>1, <2>1 DEF OneLoop, LifecycleInv, LifecycleTypes
    <2>3. clLoop /\ ~clExit
      BY <1>1, <2>1 DEF OneLoop, Lifecycle!Alive
    <2>4. \A u \in Threads : Lifecycle!Alive(u)' => clLoop' /\ ~clExit'
      BY <1>0, <1>1, <2>2, <2>3 DEF Lifecycle!Alive
    <2>5. \A u \in Threads : MayYield(u)' => MayYield(u) /\ clRunning' = clRunning
      BY <1>1, <2>2 DEF MayYield, Lifecycle!Alive
    <2> QED
      BY <1>0, <1>3, <2>1, <2>2, <2>4, <2>5 DEF OneLoop
  <1> QED
    BY <1>0, <1>2, <1>3, <1>4, LifecycleRuns DEF LifecycleInv

LEMMA LifecycleNext == LifecycleInv /\ [Lifecycle!Next]_lifecycleVars => LifecycleInv'
  <1> SUFFICES ASSUME LifecycleInv, [Lifecycle!Next]_lifecycleVars
               PROVE  LifecycleInv'
    OBVIOUS
  <1>1. CASE Lifecycle!Destroy
    BY <1>1 DEF Lifecycle!Destroy, LifecycleInv, LifecycleTypes, OneLoop, Lifecycle!AllReleased,
                Lifecycle!Alive, MayYield
  <1>2. CASE Lifecycle!Yield
    <2>1. ~clGaveUp' /\ clLoops' <= 1 => OneLoop'
      BY <1>2 DEF Lifecycle!Yield, LifecycleInv, OneLoop, Lifecycle!Alive, MayYield
    <2> QED
      BY <1>2, <2>1, LifecycleRuns DEF Lifecycle!Yield, LifecycleInv, LifecycleTypes,
         Lifecycle!clientVars
  <1>3. CASE Lifecycle!YieldReturns
    <2>1. ~clGaveUp' /\ clLoops' <= 1 => OneLoop'
      BY <1>3 DEF Lifecycle!YieldReturns, LifecycleInv, OneLoop, Lifecycle!Alive, MayYield
    <2> QED
      BY <1>3, <2>1, LifecycleRuns DEF Lifecycle!YieldReturns, LifecycleInv, LifecycleTypes,
         Lifecycle!clientVars
  <1>4. CASE Lifecycle!StartLoop
    <2>0. clMade' /\ clApp' = "idle" /\ clRunning' = TRUE /\ ~clLoop
          /\ UNCHANGED <<Lifecycle!clientVars, clExit, clGaveUp>>
      BY <1>4 DEF Lifecycle!StartLoop, Lifecycle!clientVars
    <2>1. CASE UNCHANGED <<clThread, clLoop, clLoops>>
      <3>1. ~clGaveUp' /\ clLoops' <= 1 => OneLoop'
        BY <2>0, <2>1 DEF LifecycleInv, OneLoop, Lifecycle!Alive, MayYield
      <3> QED
        BY <2>0, <2>1, <3>1, LifecycleRuns DEF LifecycleInv, LifecycleTypes, Lifecycle!clientVars
    <2>2. ASSUME NEW t \in Threads, clThread[t] = "none",
                 clThread' = [clThread EXCEPT ![t] = "starting"],
                 clLoop' = TRUE, clLoops' = clLoops + 1
          PROVE  LifecycleInv'
      <3>1. LifecycleTypes' /\ clLoops' # 0
        BY <2>0, <2>2, <1>4 DEF LifecycleInv, LifecycleTypes, Lifecycle!StartLoop,
           Lifecycle!clientVars
      <3>2. ASSUME ~clGaveUp', clLoops' <= 1
            PROVE  OneLoop'
        <4>1. clLoops = 0
          BY <2>2, <3>2 DEF LifecycleInv, LifecycleTypes
        <4>2. ~clExit /\ ~clExit'
          BY <2>0, <3>2, <4>1 DEF LifecycleInv, OneLoop
        <4>3. \A u \in Threads : clThread'[u] # "none" => u = t
          BY <2>2, <4>1 DEF LifecycleInv, LifecycleTypes
        <4> QED
          BY <2>0, <2>2, <4>2, <4>3 DEF OneLoop, MayYield, Lifecycle!Alive
      <3> QED
        BY <2>0, <3>1, <3>2, LifecycleRuns
    <2> QED
      BY <1>4, <2>1, <2>2 DEF Lifecycle!StartLoop
  <1>5. CASE Lifecycle!StopLoop
    <2>1. ~clGaveUp' /\ clLoops' <= 1 => OneLoop'
      BY <1>5 DEF Lifecycle!StopLoop, LifecycleInv, OneLoop, Lifecycle!Alive, MayYield
    <2> QED
      BY <1>5, <2>1, LifecycleRuns DEF Lifecycle!StopLoop, LifecycleInv, LifecycleTypes,
         Lifecycle!clientVars
  <1>6. CASE Lifecycle!StopWaits
    <2>0. clMade /\ UNCHANGED <<Lifecycle!clientVars, clRunning, clExit, clThread, clLoops>>
      BY <1>6 DEF Lifecycle!StopWaits, LifecycleInv
    <2>1. CASE UNCHANGED <<clApp, clLoop, clGaveUp>>
      BY <2>0, <2>1, LifecycleRuns DEF LifecycleInv, LifecycleTypes, OneLoop, Lifecycle!Alive,
         MayYield, Lifecycle!clientVars
    <2>2. CASE clApp' = "idle" /\ clLoop' = FALSE /\ clGaveUp' = (clGaveUp \/ ~clExit)
      <3>1. LifecycleTypes'
        BY <2>0, <2>2 DEF LifecycleInv, LifecycleTypes, Lifecycle!clientVars
      <3>2. ~clGaveUp' /\ clLoops' <= 1 => OneLoop'
        BY <2>0, <2>2 DEF LifecycleInv, LifecycleTypes, OneLoop, Lifecycle!Alive, MayYield
      <3> QED
        BY <2>0, <2>2, <3>1, <3>2, LifecycleRuns DEF LifecycleInv
    <2> QED
      BY <1>6, <2>1, <2>2 DEF Lifecycle!StopWaits
  <1>7. CASE UNCHANGED lifecycleVars
    BY <1>7 DEF lifecycleVars, LifecycleInv, LifecycleTypes, OneLoop, Lifecycle!AllReleased,
                Lifecycle!Alive, MayYield
  <1> QED
    BY <1>1, <1>2, <1>3, <1>4, <1>5, <1>6, <1>7, LifecycleConstruct, LifecycleThread DEF Lifecycle!Next

-----------------------------------------------------------------------------
(* The proof for the configuration of the network. *)

LEMMA WifiInit == Wifi!Init => WifiInv
  <1> SUFFICES ASSUME Wifi!Init PROVE WifiInv
    OBVIOUS
  <1>1. Len(Methods) \in Nat
    BY MethodsAssumption
  <1>2. /\ wcTurn = 0 /\ wcApp = "idle" /\ wcBind = Null /\ wcUp = {} /\ wcDown = {}
        /\ wcStarted = [k \in Wifi!Kinds |-> FALSE] /\ wcTask = [k \in Wifi!Kinds |-> "none"]
        /\ wcOutcome = [k \in Wifi!Kinds |-> "ing"]
        /\ wcResults = [n \in 1 .. Len(Methods) |-> <<>>]
    BY DEF Wifi!Init
  <1>3. \A n \in 1 .. Len(Methods) : wcResults[n] = <<>>
    BY <1>2
  <1>4. WifiTypes
    <2>1. <<>> \in Seq({"success", "failed", "timeout"})
      OBVIOUS
    <2>2. wcResults \in [1 .. Len(Methods) -> Seq({"success", "failed", "timeout"})]
      BY <1>2, <2>1
    <2> QED
      BY <1>1, <1>2, <2>2 DEF WifiTypes
  <1>5. OneActive /\ TokenOfTurn
    BY <1>2, <1>3 DEF OneActive, Active, TokenOfTurn, Wifi!OneResult
  <1>6. BindIsOfToken
    BY <1>2, <1>3 DEF BindIsOfToken, Binding, Wifi!SuccessIsBound
  <1> QED
    BY <1>4, <1>5, <1>6 DEF WifiInv

LEMMA WifiBound ==
    WifiInv => Wifi!OneResult /\ Wifi!SuccessIsBound /\ Wifi!TokenIsFresh
  BY DEF WifiInv, OneActive, TokenOfTurn, BindIsOfToken, Binding, Active, Wifi!TokenIsFresh

(* What is between the active method and its binding. *)
LEMMA WifiActive ==
    ASSUME WifiInv
    PROVE  /\ \A k \in Wifi!Kinds : wcTask[k] = "bind" => Active(k)
           /\ \A k, j \in Wifi!Kinds : Active(k) /\ Active(j) => k = j
           /\ \A k \in Wifi!Kinds : Active(k) => wcTurn \in 1 .. Len(Methods)
           /\ ~Binding => wcBind = Null /\ wcUp = {} /\ wcDown = {}
           /\ Binding => wcToken = wcTurn /\ wcBind \in [sub : BOOLEAN, ready : BOOLEAN,
                                                         tries : Nat, sent : BOOLEAN]
  <1>0. Len(Methods) \in Nat
    BY MethodsAssumption
  <1> QED
    BY <1>0 DEF WifiInv, WifiTypes, OneActive, TokenOfTurn, BindIsOfToken, Binding, Active

(* Nothing is active, and nothing is under way. *)
LEMMA WifiIdle ==
    ASSUME WifiTypes', Wifi!OneResult', Wifi!SuccessIsBound',
           \A k \in Wifi!Kinds : ~Active(k)' /\ wcTask'[k] # "bind",
           wcBind' = Null, wcUp' = {}, wcDown' = {}
    PROVE  WifiInv'
  BY DEF WifiInv, OneActive, TokenOfTurn, BindIsOfToken, Binding

(* The task of the active method reports its result and ends. *)
LEMMA WifiReports ==
    ASSUME WifiInv, NEW k \in Wifi!Kinds, NEW r \in {"success", "failed", "timeout"},
           Active(k), Wifi!TaskEnds(k), Wifi!Result(r),
           UNCHANGED <<wcTurn, wcApp, wcToken, wcAccepted>>,
           r = "success" => wcTurn \in wcAccepted,
           \/ wcTask[k] # "bind" /\ UNCHANGED <<wcBind, wcUp, wcDown>>
           \/ wcBind' = Null /\ wcUp' = {} /\ wcDown' = {}
    PROVE  WifiInv'
  <1>0. Len(Methods) \in Nat /\ wcTurn \in 1 .. Len(Methods) /\ wcResults[wcTurn] = <<>>
    BY WifiActive, MethodsAssumption DEF WifiInv, OneActive
  <1>1. \A j \in Wifi!Kinds : j # k => ~Active(j) /\ wcTask[j] # "bind"
    BY WifiActive
  <1>2. wcTask' = [wcTask EXCEPT ![k] = "none"] /\ wcTask'[k] = "none"
    BY DEF Wifi!TaskEnds, WifiInv, WifiTypes
  <1>3. /\ wcStarted' \in [Wifi!Kinds -> BOOLEAN]
        /\ wcOutcome' \in [Wifi!Kinds -> {"ing", "fail", "success"}]
        /\ \A j \in Wifi!Kinds : j # k => wcStarted'[j] = wcStarted[j]
    BY DEF Wifi!TaskEnds, Wifi!StopMethod, WifiInv, WifiTypes
  <1>4. \A j \in Wifi!Kinds : ~Active(j)' /\ wcTask'[j] # "bind"
    BY <1>1, <1>2, <1>3 DEF Active, WifiInv, WifiTypes
  <1>5. wcBind' = Null /\ wcUp' = {} /\ wcDown' = {}
    <2>1. wcTask[k] # "bind" => ~Binding
      BY <1>1 DEF Binding
    <2> QED
      BY <2>1, WifiActive
  <1>6. /\ wcResults' \in [1 .. Len(Methods) -> Seq({"success", "failed", "timeout"})]
        /\ wcResults'[wcTurn] = <<r>>
        /\ \A n \in 1 .. Len(Methods) : n # wcTurn => wcResults'[n] = wcResults[n]
    <2>1. Append(wcResults[wcTurn], r) = <<r>>
      BY <1>0
    <2>2. <<r>> \in Seq({"success", "failed", "timeout"})
      OBVIOUS
    <2>3. wcResults' = [wcResults EXCEPT ![wcTurn] = <<r>>]
      BY <2>1 DEF Wifi!Result
    <2> QED
      BY <1>0, <2>2, <2>3 DEF WifiInv, WifiTypes
  <1>7. Wifi!OneResult'
    <2>1. Len(<<r>>) = 1
      OBVIOUS
    <2>2. Wifi!OneResult /\ wcTurn' = wcTurn
      BY DEF WifiInv, OneActive
    <2>3. ASSUME NEW n \in 1 .. Len(Methods)
          PROVE  Len(wcResults'[n]) <= 1 /\ (n > wcTurn => wcResults'[n] = <<>>)
      <3>1. CASE n = wcTurn
        <4>1. wcResults'[n] = <<r>>
          BY <1>6, <3>1
        <4>2. ~(n > wcTurn)
          BY <1>0, <3>1
        <4> QED
          BY <2>1, <4>1, <4>2
      <3>2. CASE n # wcTurn
        BY <1>6, <2>2, <3>2 DEF Wifi!OneResult
      <3> QED
        BY <3>1, <3>2
    <2> QED
      BY <2>2, <2>3 DEF Wifi!OneResult
  <1>8. Wifi!SuccessIsBound'
    <2>1. <<r>> = <<"success">> => r = "success"
      OBVIOUS
    <2> QED
      BY <1>0, <1>6, <2>1 DEF WifiInv, BindIsOfToken, Wifi!SuccessIsBound
  <1>9. WifiTypes'
    BY <1>2, <1>3, <1>4, <1>6 DEF WifiInv, WifiTypes
  <1> QED
    BY <1>4, <1>5, <1>7, <1>8, <1>9, WifiIdle

(* A method is started, or fails to: no other is active. *)
LEMMA WifiBegins ==
    ASSUME WifiInv, Wifi!StartConfig \/ Wifi!StartFails
    PROVE  WifiInv'
  <1> DEFINE k == Methods[wcTurn + 1]
  <1>0. Len(Methods) \in Nat /\ wcTurn \in Nat /\ wcTurn < Len(Methods) /\ wcTurn' = wcTurn + 1
        /\ wcApp = "idle" /\ k \in Wifi!Kinds
    BY MethodsAssumption DEF Wifi!StartConfig, Wifi!StartFails, Wifi!Begins, WifiInv, WifiTypes, Wifi!Kinds
  <1>1. \A j \in Wifi!Kinds : ~Active(j) /\ wcTask[j] # "bind"
    BY <1>0, WifiActive DEF WifiInv, OneActive
  <1>2. wcBind' = Null /\ wcUp' = {} /\ wcDown' = {}
    BY <1>1, WifiActive DEF Binding, Wifi!StartConfig, Wifi!StartFails, Wifi!wcCloud
  <1>3. wcTask' = [wcTask EXCEPT ![k] = "poll"] /\ UNCHANGED <<wcToken, wcAccepted, wcResults>>
    BY DEF Wifi!StartConfig, Wifi!StartFails, Wifi!wcCloud
  <1>4. /\ wcStarted' \in [Wifi!Kinds -> BOOLEAN]
        /\ wcOutcome' \in [Wifi!Kinds -> {"ing", "fail", "success"}]
        /\ \A j \in Wifi!Kinds : j # k => wcStarted'[j] = wcStarted[j]
    BY <1>0 DEF Wifi!StartConfig, Wifi!StartFails, Wifi!StopMethod, Wifi!OutcomeAtStart, WifiInv, WifiTypes
  <1>5. wcApp' \in {"idle", "wait", "done"}
    BY <1>0 DEF Wifi!StartConfig, Wifi!StartFails
  <1>6. \A j \in Wifi!Kinds : wcTask'[j] # "bind" /\ (j # k => ~Active(j)')
    BY <1>0, <1>1, <1>3, <1>4 DEF Active, WifiInv, WifiTypes
  <1>7. Wifi!OneResult' /\ Wifi!SuccessIsBound' /\ wcResults'[wcTurn'] = <<>>
    BY <1>0, <1>3 DEF WifiInv, OneActive, BindIsOfToken, Wifi!OneResult, Wifi!SuccessIsBound
  <1>8. WifiTypes'
    <2>1. wcTurn' \in 0 .. Len(Methods)
      BY <1>0
    <2>2. wcTask' \in [Wifi!Kinds -> {"none", "poll", "bind"}]
      BY <1>0, <1>3 DEF WifiInv, WifiTypes
    <2>3. wcResults' \in [1 .. Len(Methods) -> Seq({"success", "failed", "timeout"})]
      BY <1>3 DEF WifiInv, WifiTypes
    <2> QED
      BY <1>4, <1>5, <1>6, <2>1, <2>2, <2>3 DEF WifiTypes
  <1>9. CASE Wifi!StartConfig
    <2>1. wcApp' = "wait" /\ wcOutcome'[k] = "ing" /\ wcTurn' > 0 /\ k = Methods[wcTurn']
      BY <1>0, <1>9 DEF Wifi!StartConfig, Wifi!OutcomeAtStart, WifiInv, WifiTypes
    <2>2. OneActive'
      BY <1>6, <1>7, <2>1 DEF OneActive
    <2>3. TokenOfTurn'
      BY <1>6, <2>1 DEF TokenOfTurn
    <2>4. BindIsOfToken'
      BY <1>2, <1>6, <1>7 DEF BindIsOfToken, Binding
    <2> QED
      BY <1>8, <2>2, <2>3, <2>4 DEF WifiInv
  <1>10. CASE Wifi!StartFails
    <2>1. ~wcStarted'[k]
      BY <1>0, <1>10 DEF Wifi!StartFails, Wifi!StopMethod, WifiInv, WifiTypes
    <2>2. \A j \in Wifi!Kinds : ~Active(j)' /\ wcTask'[j] # "bind"
      BY <1>6, <2>1 DEF Active
    <2> QED
      BY <1>2, <1>7, <1>8, <2>2, WifiIdle
  <1> QED
    BY <1>9, <1>10

LEMMA WifiGoesOn == ASSUME WifiInv, Wifi!GoOn PROVE WifiInv'
  <1>1. \A k \in Wifi!Kinds : ~Active(k)
    <2> SUFFICES ASSUME NEW k \in Wifi!Kinds, Active(k) PROVE FALSE
      OBVIOUS
    <2>1. wcResults[wcTurn] = <<>> /\ k = Wifi!Kind /\ wcTask[k] # "none"
      BY DEF WifiInv, OneActive, Active, Wifi!Kind
    <2>2. <<"success">> # <<>>
      OBVIOUS
    <2> QED
      BY <2>1, <2>2 DEF Wifi!GoOn
  <1>2. UNCHANGED <<wcTurn, wcStarted, wcOutcome, wcTask, wcToken, wcBind, wcUp, wcDown, wcAccepted,
                    wcResults>>
    BY DEF Wifi!GoOn, Wifi!wcMethod, Wifi!wcCloud
  <1>3. \A k \in Wifi!Kinds : ~Active(k)' /\ wcTask'[k] # "bind"
    BY <1>1, <1>2, WifiActive DEF Active
  <1>4. WifiTypes'
    BY <1>2 DEF WifiInv, WifiTypes, Wifi!GoOn
  <1>5. wcBind' = Null /\ wcUp' = {} /\ wcDown' = {}
    BY <1>1, <1>2, WifiActive DEF Binding
  <1>6. Wifi!OneResult' /\ Wifi!SuccessIsBound'
    BY <1>2 DEF WifiInv, OneActive, BindIsOfToken, Wifi!OneResult, Wifi!SuccessIsBound
  <1> QED
    BY <1>3, <1>4, <1>5, <1>6, WifiIdle

(* What the binding, the cloud and the phone do while the methods are as they *)
(* are: the token is that of the turn, and so is what comes of it.            *)
LEMMA WifiTalks ==
    ASSUME WifiInv, UNCHANGED <<wcTurn, wcApp, wcStarted, wcTask, wcResults>>,
           wcOutcome' \in [Wifi!Kinds -> {"ing", "fail", "success"}],
           wcToken' = wcTurn \/ (wcToken' = wcToken /\ wcOutcome' = wcOutcome),
           ~Binding => UNCHANGED <<wcBind, wcUp, wcDown>>,
           Binding => wcBind' \in [sub : BOOLEAN, ready : BOOLEAN, tries : Nat, sent : BOOLEAN],
           wcUp' \subseteq {wcTurn}, wcAccepted \subseteq wcAccepted',
           "zero" \in wcDown' => wcTurn \in wcAccepted',
           Binding /\ wcBind'.ready /\ wcCode' = "zero" => wcTurn \in wcAccepted'
    PROVE  WifiInv'
  <1>1. Binding' <=> Binding
    BY DEF Binding
  <1>2. WifiTypes'
    <2>1. \A k \in Wifi!Kinds : wcTask'[k] = "bind" => Binding
      BY DEF Binding
    <2> QED
      BY <2>1 DEF WifiInv, WifiTypes
  <1>3. OneActive'
    BY DEF WifiInv, OneActive, Active, Wifi!OneResult
  <1>4. TokenOfTurn'
    BY DEF WifiInv, TokenOfTurn, Active
  <1>5. BindIsOfToken'
    BY <1>1 DEF WifiInv, BindIsOfToken, Wifi!SuccessIsBound
  <1> QED
    BY <1>2, <1>3, <1>4, <1>5 DEF WifiInv

LEMMA WifiTask ==
    ASSUME WifiInv, NEW k \in Wifi!Kinds, Wifi!TaskStep(k)
    PROVE  WifiInv'
  <1>1. ASSUME NEW r \in {"failed", "timeout"}, Wifi!Polls(k), Wifi!TaskEnds(k), Wifi!Result(r),
               UNCHANGED <<wcTurn, wcApp, wcToken, wcAccepted, wcBind, wcUp, wcDown>>
        PROVE  WifiInv'
    BY <1>1, WifiReports DEF Wifi!Polls, Active
  <1>2. CASE Wifi!PollFails(k)
    BY <1>1, <1>2 DEF Wifi!PollFails, Wifi!wcCloud
  <1>3. CASE Wifi!PollTimesOut(k)
    BY <1>1, <1>3 DEF Wifi!PollTimesOut, Wifi!wcCloud
  <1>4. CASE Wifi!BindImpossible(k)
    BY <1>1, <1>4 DEF Wifi!BindImpossible, Wifi!wcCloud
  <1>5. CASE Wifi!BindEnds(k)
    <2>0. Active(k) /\ Binding
      BY <1>5, WifiActive DEF Wifi!BindEnds, Binding
    <2>1. Wifi!BindSucceeds => wcTurn \in wcAccepted
      BY <2>0 DEF Wifi!BindSucceeds, WifiInv, BindIsOfToken
    <2>2. PICK r \in {"success", "failed"} : Wifi!Result(r) /\ (r = "success" => Wifi!BindSucceeds)
      BY <1>5 DEF Wifi!BindEnds
    <2> QED
      BY <1>5, <2>0, <2>1, <2>2, WifiReports DEF Wifi!BindEnds
  <1>6. CASE Wifi!PollStopped(k)
    <2>0. /\ ~Active(k) /\ wcTask[k] # "bind"
          /\ UNCHANGED <<wcTurn, wcApp, wcToken, wcBind, wcUp, wcDown, wcCode, wcAccepted, wcResults>>
      BY <1>6 DEF Wifi!PollStopped, Active, Wifi!wcCloud
    <2>1. wcTask' = [wcTask EXCEPT ![k] = "none"]
      BY <1>6 DEF Wifi!PollStopped, Wifi!TaskEnds
    <2>2. /\ wcStarted' \in [Wifi!Kinds -> BOOLEAN]
          /\ wcOutcome' \in [Wifi!Kinds -> {"ing", "fail", "success"}]
          /\ \A j \in Wifi!Kinds : j # k => wcStarted'[j] = wcStarted[j] /\ wcOutcome'[j] = wcOutcome[j]
      BY <1>6 DEF Wifi!PollStopped, Wifi!TaskEnds, Wifi!StopMethod, WifiInv, WifiTypes
    <2>3. \A j \in Wifi!Kinds : j # k => wcTask'[j] = wcTask[j]
      BY <2>1 DEF WifiInv, WifiTypes
    <2>4. wcTask'[k] = "none" /\ ~Active(k)' /\ wcTask' \in [Wifi!Kinds -> {"none", "poll", "bind"}]
      BY <2>1 DEF Active, WifiInv, WifiTypes
    <2>5. \A j \in Wifi!Kinds : Active(j)' => Active(j) /\ j # k
      BY <2>2, <2>3, <2>4 DEF Active
    <2>6. Binding' <=> Binding
      BY <2>0, <2>3, <2>4 DEF Binding
    <2>7. WifiTypes'
      BY <2>0, <2>2, <2>3, <2>4 DEF WifiInv, WifiTypes
    <2>8. OneActive'
      BY <2>0, <2>2, <2>3, <2>4, <2>5 DEF WifiInv, OneActive, Wifi!OneResult
    <2>9. TokenOfTurn'
      BY <2>0, <2>2, <2>3, <2>5 DEF WifiInv, TokenOfTurn
    <2>10. BindIsOfToken'
      BY <2>0, <2>6 DEF WifiInv, BindIsOfToken, Wifi!SuccessIsBound
    <2> QED
      BY <2>7, <2>8, <2>9, <2>10 DEF WifiInv
  <1>7. CASE Wifi!BindBegins(k)
    <2>0. /\ Active(k) /\ wcTask[k] = "poll" /\ wcToken = wcTurn
          /\ UNCHANGED <<wcTurn, wcApp, wcStarted, wcOutcome, wcToken, wcUp, wcDown, wcAccepted, wcResults>>
      BY <1>7 DEF Wifi!BindBegins, Wifi!Polls, Active, Wifi!wcCloud, WifiInv, TokenOfTurn
    <2>1. ~Binding /\ wcUp' = {} /\ wcDown' = {}
      BY <2>0, WifiActive DEF Binding
    <2>2. /\ wcTask' = [wcTask EXCEPT ![k] = "bind"] /\ wcCode' = "other"
          /\ wcBind' = [sub |-> FALSE, ready |-> FALSE, tries |-> 0, sent |-> FALSE]
      BY <1>7 DEF Wifi!BindBegins
    <2>3. /\ wcTask' \in [Wifi!Kinds -> {"none", "poll", "bind"}]
          /\ wcTask'[k] = "bind" /\ \A j \in Wifi!Kinds : j # k => wcTask'[j] = wcTask[j]
      BY <2>2 DEF WifiInv, WifiTypes
    <2>4. \A j \in Wifi!Kinds : Active(j)' <=> Active(j)
      BY <2>0, <2>3 DEF Active
    <2>5. wcBind' \in [sub : BOOLEAN, ready : BOOLEAN, tries : Nat, sent : BOOLEAN] /\ ~wcBind'.ready
      BY <2>2
    <2>6. WifiTypes'
      BY <2>0, <2>3, <2>5 DEF WifiInv, WifiTypes
    <2>7. OneActive'
      <3>1. \A j \in Wifi!Kinds : wcTask'[j] = "bind" => wcStarted'[j]
        BY <2>0, <2>1, <2>3 DEF Active, Binding
      <3>2. \A j \in Wifi!Kinds : Active(j)' =>
               /\ wcTurn' > 0 /\ j = Methods[wcTurn'] /\ wcApp' = "wait" /\ wcResults'[wcTurn'] = <<>>
        BY <2>0, <2>4 DEF WifiInv, OneActive
      <3>3. Wifi!OneResult'
        BY <2>0 DEF WifiInv, OneActive, Wifi!OneResult
      <3> QED
        BY <3>1, <3>2, <3>3 DEF OneActive
    <2>8. TokenOfTurn'
      BY <2>0 DEF TokenOfTurn
    <2>9. BindIsOfToken'
      <3>1. Binding' /\ Wifi!SuccessIsBound'
        BY <2>0, <2>3 DEF Binding, WifiInv, BindIsOfToken, Wifi!SuccessIsBound
      <3> QED
        BY <2>1, <2>5, <3>1 DEF BindIsOfToken
    <2> QED
      BY <2>6, <2>7, <2>8, <2>9 DEF WifiInv
  <1> QED
    BY <1>2, <1>3, <1>4, <1>5, <1>6, <1>7 DEF Wifi!TaskStep

LEMMA WifiNext == WifiInv /\ [Wifi!Next]_wifiVars => WifiInv'
  <1> SUFFICES ASSUME WifiInv, [Wifi!Next]_wifiVars
               PROVE  WifiInv'
    OBVIOUS
  <1> DEFINE Still  == UNCHANGED <<wcTurn, wcApp, wcStarted, wcTask, wcResults>>
             Record == [sub : BOOLEAN, ready : BOOLEAN, tries : Nat, sent : BOOLEAN]
  <1>0. /\ wcOutcome \in [Wifi!Kinds -> {"ing", "fail", "success"}]
        /\ wcUp \subseteq {wcTurn} /\ ("zero" \in wcDown => wcTurn \in wcAccepted)
        /\ (Binding /\ wcBind.ready /\ wcCode = "zero" => wcTurn \in wcAccepted)
        /\ (wcBind # Null \/ wcUp # {} \/ wcDown # {} => Binding)
        /\ (Binding => wcToken = wcTurn /\ wcBind \in Record)
    BY WifiActive DEF WifiInv, WifiTypes, BindIsOfToken
  <1>1. ASSUME Still, UNCHANGED <<wcOutcome, wcToken, wcBind, wcUp, wcDown, wcCode, wcAccepted>>
        PROVE  WifiInv'
    BY <1>0, <1>1, WifiTalks
  <1>2. CASE Wifi!LogTaskEnds \/ Wifi!Joins \/ Wifi!Leaves \/ Wifi!PhoneSendsNetwork
             \/ Wifi!ServingEnds \/ Wifi!CommEnds
    BY <1>1, <1>2 DEF Wifi!LogTaskEnds, Wifi!Joins, Wifi!Leaves, Wifi!PhoneSendsNetwork,
       Wifi!ServingEnds, Wifi!CommEnds, Wifi!wcMethod, Wifi!wcCloud
  <1>3. CASE Wifi!PublishToken
    <2>1. Binding /\ Still /\ UNCHANGED <<wcOutcome, wcToken, wcDown, wcCode, wcAccepted>>
      BY <1>0, <1>3 DEF Wifi!PublishToken, Wifi!wcMethod
    <2>2. wcUp' \subseteq {wcTurn}
      BY <1>0, <1>3, <2>1 DEF Wifi!PublishToken
    <2>3. wcBind' \in Record /\ wcBind'.ready = wcBind.ready
      <3>1. wcBind.tries \in Nat /\ wcBind.tries + 1 \in Nat
        BY <1>0, <2>1
      <3>2. CASE wcBind' = [wcBind EXCEPT !.sent = TRUE]
        BY <1>0, <2>1, <3>2
      <3>3. CASE wcBind' = [wcBind EXCEPT !.tries = @ + 1]
        BY <1>0, <2>1, <3>1, <3>3
      <3> QED
        BY <1>3, <3>2, <3>3 DEF Wifi!PublishToken
    <2> QED
      BY <1>0, <2>1, <2>2, <2>3, WifiTalks
  <1>4. CASE Wifi!ReplyTimesOut
    <2>1. Binding /\ Still /\ UNCHANGED <<wcOutcome, wcToken, wcUp, wcDown, wcCode, wcAccepted>>
      BY <1>0, <1>4 DEF Wifi!ReplyTimesOut, Wifi!wcMethod, Wifi!wcCloud
    <2>2. wcBind' \in Record /\ wcBind'.ready = wcBind.ready
      <3>1. wcBind.tries \in Nat /\ wcBind.tries + 1 \in Nat
        BY <1>0, <2>1
      <3>2. wcBind' = [wcBind EXCEPT !.sent = FALSE, !.tries = @ + 1]
        BY <1>4 DEF Wifi!ReplyTimesOut
      <3> QED
        BY <1>0, <2>1, <3>1, <3>2
    <2> QED
      BY <1>0, <2>1, <2>2, WifiTalks
  <1>5. CASE Wifi!SubAck
    <2>1. Binding /\ Still /\ UNCHANGED <<wcOutcome, wcToken, wcUp, wcDown, wcCode, wcAccepted>>
      BY <1>0, <1>5 DEF Wifi!SubAck, Wifi!wcMethod, Wifi!wcCloud
    <2>2. wcBind' \in Record /\ wcBind'.ready = wcBind.ready
      BY <1>0, <1>5, <2>1 DEF Wifi!SubAck
    <2> QED
      BY <1>0, <2>1, <2>2, WifiTalks
  <1>6. ASSUME NEW token \in wcUp, NEW code \in {"zero", "other"}, Wifi!CloudReplies(token, code)
        PROVE  WifiInv'
    <2>1. Binding /\ Still /\ UNCHANGED <<wcOutcome, wcToken, wcBind, wcCode>> /\ token = wcTurn
      BY <1>0, <1>6 DEF Wifi!CloudReplies, Wifi!wcMethod
    <2>2. wcUp' \subseteq {wcTurn} /\ wcAccepted \subseteq wcAccepted'
          /\ ("zero" \in wcDown' => wcTurn \in wcAccepted')
      BY <1>0, <1>6, <2>1 DEF Wifi!CloudReplies
    <2> QED
      BY <1>0, <2>1, <2>2, WifiTalks
  <1>7. ASSUME NEW code \in wcDown, Wifi!HandleReply(code)
        PROVE  WifiInv'
    <2>1. Binding /\ Still /\ UNCHANGED <<wcOutcome, wcToken, wcUp, wcAccepted>> /\ wcDown' \subseteq wcDown
      BY <1>0, <1>7 DEF Wifi!HandleReply, Wifi!wcMethod
    <2>2. wcBind' \in Record
      BY <1>0, <1>7, <2>1 DEF Wifi!HandleReply
    <2>3. wcBind'.ready /\ wcCode' = "zero" => wcTurn \in wcAccepted
      BY <1>0, <1>7, <2>1 DEF Wifi!HandleReply
    <2> QED
      BY <1>0, <2>1, <2>2, <2>3, WifiTalks
  <1>8. ASSUME NEW replied \in BOOLEAN, Wifi!CommandToken(replied)
        PROVE  WifiInv'
    <2>1. Still /\ UNCHANGED <<wcBind, wcUp, wcDown, wcCode, wcAccepted>> /\ wcToken' = wcTurn
          /\ wcOutcome' \in [Wifi!Kinds -> {"ing", "fail", "success"}]
      BY <1>0, <1>8 DEF Wifi!CommandToken, Wifi!wcCloud
    <2>2. /\ ~Binding => UNCHANGED <<wcBind, wcUp, wcDown>>
          /\ Binding => wcBind' \in Record
          /\ wcUp' \subseteq {wcTurn} /\ wcAccepted \subseteq wcAccepted'
          /\ "zero" \in wcDown' => wcTurn \in wcAccepted'
          /\ Binding /\ wcBind'.ready /\ wcCode' = "zero" => wcTurn \in wcAccepted'
      BY <1>0, <2>1
    <2>3. wcToken' = wcTurn \/ (wcToken' = wcToken /\ wcOutcome' = wcOutcome)
      BY <2>1
    <2> HIDE DEF Record
    <2> QED
      BY <2>1, <2>2, <2>3, WifiTalks DEF Record
  <1>9. ASSUME NEW joins \in BOOLEAN, Wifi!CommandNetwork(joins)
        PROVE  WifiInv'
    <2>1. Still /\ UNCHANGED <<wcBind, wcUp, wcDown, wcCode, wcAccepted>> /\ wcToken' = wcTurn
          /\ wcOutcome' \in [Wifi!Kinds -> {"ing", "fail", "success"}]
      BY <1>0, <1>9 DEF Wifi!CommandNetwork, Wifi!wcCloud
    <2>2. /\ ~Binding => UNCHANGED <<wcBind, wcUp, wcDown>>
          /\ Binding => wcBind' \in Record
          /\ wcUp' \subseteq {wcTurn} /\ wcAccepted \subseteq wcAccepted'
          /\ "zero" \in wcDown' => wcTurn \in wcAccepted'
          /\ Binding /\ wcBind'.ready /\ wcCode' = "zero" => wcTurn \in wcAccepted'
      BY <1>0, <2>1
    <2>3. wcToken' = wcTurn \/ (wcToken' = wcToken /\ wcOutcome' = wcOutcome)
      BY <2>1
    <2> HIDE DEF Record
    <2> QED
      BY <2>1, <2>2, <2>3, WifiTalks DEF Record
  <1>10. CASE UNCHANGED wifiVars
    BY <1>1, <1>10 DEF wifiVars
  <1> QED
    BY <1>2, <1>3, <1>4, <1>5, <1>6, <1>7, <1>8, <1>9, <1>10, WifiBegins, WifiGoesOn, WifiTask
       DEF Wifi!Next

-----------------------------------------------------------------------------
(* The proof for files and posts. *)

LEMMA FilesInit == Files!Init => FilesInv
  <1> SUFFICES ASSUME Files!Init PROVE FilesInv
    OBVIOUS
  <1>1. /\ fmState = "inited" /\ fmInfo = [name |-> Null, url |-> Null]
        /\ fmFile = [order |-> Null, units |-> <<>>] /\ fmOrders = 0 /\ fmPosts = 0
        /\ fmDown = {} /\ fmUp = {} /\ fmWaiting = {} /\ fmPosted = <<>>
    BY DEF Files!Init, Files!Nothing
  <1>2. <<>> \in Seq(Orders \X Nat) /\ <<>> \in Seq(1 .. fmPosts) /\ Len(<<>>) = 0
    OBVIOUS
  <1>3. FetchTypes
    BY <1>1, <1>2 DEF FetchTypes, Orders
  <1>4. OrdersAreNew
    BY <1>1 DEF OrdersAreNew
  <1>5. FetchIsOfOrder
    BY <1>1 DEF FetchIsOfOrder, Files!ChecksumOfFile
  <1>6. PostsInv
    BY <1>1, <1>2 DEF PostsInv, PostTypes, PostsInTurn, Files!PostedOnce
  <1> QED
    BY <1>3, <1>4, <1>5, <1>6 DEF FilesInv, FetchInv

LEMMA FilesApart == FilesInv => Files!OneOrder /\ Files!PostedOnce /\ Files!ChecksumOfFile
  BY NullIsNoNumber DEF FilesInv, FetchInv, PostsInv, FetchIsOfOrder, PostsInTurn, Files!OneOrder

(* Half of the steps leave the fetch alone, and half the posts. *)
LEMMA FetchKept ==
    ASSUME FetchInv, UNCHANGED <<fmState, fmInfo, fmDigest, fmFile, fmOrders>>,
           fmUp' \subseteq [type : {"url", "version"}, n : Nat],
           fmDown' \subseteq [type : {"update", "delete", "url", "noversion"}, n : Nat],
           \A m \in fmDown' : m.type = "update" => m \in fmDown
    PROVE  FetchInv'
  BY DEF FetchInv, FetchTypes, OrdersAreNew, FetchIsOfOrder, Files!ChecksumOfFile, Files!Units

LEMMA PostsKept ==
    ASSUME PostsInv, UNCHANGED <<fmPosts, fmPosted>>,
           \A e \in fmWaiting' : e \in [n : 1 .. fmPosts, expired : BOOLEAN]
                                 /\ \E f \in fmWaiting : f.n = e.n
    PROVE  PostsInv'
  BY DEF PostsInv, PostTypes, PostsInTurn, Files!PostedOnce

(* The client is reset, and messages have gone. *)
LEMMA FetchReset ==
    ASSUME FetchInv, Files!Reset, UNCHANGED <<fmFile, fmOrders>>, fmDown' \subseteq fmDown,
           fmUp' \subseteq [type : {"url", "version"}, n : Nat]
    PROVE  FetchInv'
  <1>1. fmState' = "inited" /\ fmInfo' = [name |-> Null, url |-> Null]
    BY DEF Files!Reset, Files!Nothing
  <1>2. FetchTypes'
    BY <1>1 DEF FetchInv, FetchTypes, Orders
  <1>3. OrdersAreNew'
    BY <1>1, NullIsNoNumber DEF FetchInv, FetchTypes, OrdersAreNew
  <1>4. FetchIsOfOrder'
    BY <1>1 DEF FetchIsOfOrder, Files!ChecksumOfFile
  <1> QED
    BY <1>2, <1>3, <1>4 DEF FetchInv

(* Without a name there is nothing to go on with. *)
LEMMA FetchNameless ==
    ASSUME FetchInv, fmInfo'.name = Null, fmState' \in {"inited", "fetched", "deleting"},
           fmInfo' \in [name : Orders, url : Orders], UNCHANGED <<fmFile, fmOrders, fmUp>>,
           fmDown' \subseteq fmDown, fmInfo'.url = Null \/ fmInfo'.url <= fmOrders,
           \A m \in fmDown' : m.type = "update" => m.n # fmInfo'.url
    PROVE  FetchInv'
  <1>1. FetchTypes'
    BY DEF FetchInv, FetchTypes
  <1>2. OrdersAreNew'
    BY DEF FetchInv, OrdersAreNew
  <1>3. FetchIsOfOrder'
    BY DEF FetchIsOfOrder, Files!ChecksumOfFile
  <1> QED
    BY <1>1, <1>2, <1>3 DEF FetchInv

(* What the messages left under way are, when one of them is handled. *)
LEMMA MessageHandled ==
    ASSUME FetchInv, NEW m, Files!HandleMessage(m)
    PROVE  /\ fmDown' \subseteq fmDown /\ m \in fmDown
           /\ m \in [type : {"update", "delete", "url", "noversion"}, n : Nat]
           /\ m.type = "update" => /\ m.n <= fmOrders /\ m.n # fmFile.order
                                   /\ \A o \in fmDown' : o.type = "update" => o.n # m.n
  <1>1. m \in fmDown /\ fmDown' = fmDown \ {m}
    BY DEF Files!HandleMessage
  <1>2. \A o \in fmDown : o \in [type : {"update", "delete", "url", "noversion"}, n : Nat]
    BY DEF FetchInv, FetchTypes
  <1>3. \A o \in fmDown' : o.type = m.type => o.n # m.n
    BY <1>1, <1>2
  <1>4. m.type = "update" => m.n <= fmOrders /\ m.n # fmFile.order
    BY <1>1 DEF FetchInv, OrdersAreNew
  <1> QED
    BY <1>1, <1>2, <1>3, <1>4

LEMMA FetchStarts ==
    ASSUME FetchInv, NEW resume \in BOOLEAN, Files!StartDownload(resume)
    PROVE  FetchInv'
  <1>1. /\ fmState = "fetching" /\ fmState' \in {"fetching", "disconnected"}
        /\ UNCHANGED <<fmInfo, fmUp, fmDown, fmOrders>>
    BY DEF Files!StartDownload
  <1>2. CASE resume
    <2>1. fmFile.order = fmInfo.url /\ fmFile' = fmFile /\ Len(fmFile.units) # 0
      <3>1. fmFile.units \in Seq(Orders \X Nat) /\ fmFile.units # <<>>
        BY <1>2 DEF Files!StartDownload, FetchInv, FetchTypes
      <3> QED
        BY <1>2, <3>1 DEF Files!StartDownload
    <2>2. fmDigest' = fmDigest
      BY <1>2, <2>1 DEF Files!StartDownload, Files!DigestAtStart
    <2>3. FetchTypes' /\ OrdersAreNew'
      BY <1>1, <2>1 DEF FetchInv, FetchTypes, OrdersAreNew
    <2>4. FetchIsOfOrder'
      BY <1>1, <2>1, <2>2 DEF FetchInv, FetchIsOfOrder, Files!ChecksumOfFile
    <2> QED
      BY <2>3, <2>4 DEF FetchInv
  <1>3. CASE ~resume
    <2>1. fmFile' = [order |-> fmInfo.url, units |-> <<>>] /\ fmDigest' = <<>>
      BY <1>3 DEF Files!StartDownload, Files!DigestAtStart
    <2>2. <<>> \in Seq(Orders \X Nat) /\ Len(<<>>) = 0
      OBVIOUS
    <2>3. FetchTypes'
      BY <1>1, <2>1, <2>2 DEF FetchInv, FetchTypes
    <2>4. OrdersAreNew'
      BY <1>1, <2>1 DEF FetchInv, OrdersAreNew
    <2>5. <<>> = [i \in 1 .. Len(<<>>) |-> <<fmInfo.url, i - 1>>]
      OBVIOUS
    <2>6. FetchIsOfOrder'
      BY <1>1, <2>1, <2>5 DEF FetchInv, FetchIsOfOrder, Files!ChecksumOfFile
    <2> QED
      BY <2>3, <2>4, <2>6 DEF FetchInv
  <1> QED
    BY <1>2, <1>3

LEMMA FetchGrows ==
    ASSUME FetchInv, Files!FetchYield
    PROVE  FetchInv'
  <1> DEFINE n    == Len(fmFile.units)
             unit == <<fmInfo.url, n>>
  <1>1. /\ fmState = "fetching" /\ fmFile.order = fmInfo.url /\ n < Size
        /\ fmFile' = [fmFile EXCEPT !.units = Append(@, unit)]
        /\ fmDigest' = Append(fmDigest, unit)
        /\ fmState' = IF n + 1 = Size THEN "fetched" ELSE fmState
        /\ UNCHANGED <<fmInfo, fmUp, fmDown, fmOrders>>
    BY DEF Files!FetchYield, Files!fmHistory
  <1>2. /\ fmInfo.name \in Nat /\ fmInfo.url = fmInfo.name /\ fmDigest = fmFile.units
        /\ fmFile.units = [i \in 1 .. n |-> <<fmInfo.url, i - 1>>]
        /\ fmFile.units \in Seq(Orders \X Nat) /\ n \in Nat
    BY <1>1 DEF FetchInv, FetchTypes, FetchIsOfOrder
  <1>3. unit \in Orders \X Nat
    BY <1>2 DEF Orders
  <1>4. /\ Append(fmFile.units, unit) \in Seq(Orders \X Nat)
        /\ Len(Append(fmFile.units, unit)) = n + 1
        /\ Append(fmFile.units, unit) = [i \in 1 .. n + 1 |-> <<fmInfo.url, i - 1>>]
    <2> DEFINE s == fmFile.units
    <2>1. s \in Seq(Orders \X Nat) /\ s = [i \in 1 .. Len(s) |-> <<fmInfo.url, i - 1>>]
          /\ <<fmInfo.url, Len(s)>> \in Orders \X Nat
      BY <1>2, <1>3
    <2> HIDE DEF s
    <2>2. /\ Append(s, <<fmInfo.url, Len(s)>>) \in Seq(Orders \X Nat)
          /\ Len(Append(s, <<fmInfo.url, Len(s)>>)) = Len(s) + 1
          /\ Append(s, <<fmInfo.url, Len(s)>>) = [i \in 1 .. Len(s) + 1 |-> <<fmInfo.url, i - 1>>]
      BY <2>1, FileUnitAdded
    <2> QED
      BY <2>2 DEF s
  <1>5. fmFile'.units = Append(fmFile.units, unit) /\ fmFile'.order = fmInfo.url
        /\ fmFile' \in [order : Orders, units : Seq(Orders \X Nat)]
    BY <1>1, <1>4 DEF FetchInv, FetchTypes
  <1>6. FetchTypes' /\ OrdersAreNew'
    BY <1>1, <1>5 DEF FetchInv, FetchTypes, OrdersAreNew
  <1>7. fmDigest' = fmFile'.units
    BY <1>1, <1>2, <1>5
  <1>8. fmFile'.units = [i \in 1 .. Len(fmFile'.units) |-> <<fmFile'.order, i - 1>>]
    BY <1>4, <1>5
  <1>9. fmState' = "fetched" => fmFile'.units = Files!Units(fmInfo'.name)
    BY <1>1, <1>2, <1>4, <1>5 DEF Files!Units
  <1>10. FetchIsOfOrder'
    BY <1>1, <1>2, <1>7, <1>8, <1>9 DEF FetchIsOfOrder, Files!ChecksumOfFile
  <1> QED
    BY <1>6, <1>10 DEF FetchInv

LEMMA FilesHandled ==
    ASSUME FilesInv, NEW m \in fmDown,
           \/ Files!HandleWhileBusy(m) \/ Files!HandleUpdate(m) \/ Files!HandleNoVersion(m)
           \/ Files!HandleUrl(m) \/ Files!HandleBadUrl(m)
           \/ \E version \in BOOLEAN : Files!HandlePartial(m, version) \/ Files!HandleDelete(m, version)
    PROVE  FilesInv'
  <1>0. FetchInv /\ PostsInv /\ Files!HandleMessage(m)
    BY DEF FilesInv, Files!HandleWhileBusy, Files!HandleUpdate, Files!HandleNoVersion,
       Files!HandleUrl, Files!HandleBadUrl, Files!HandlePartial, Files!HandleDelete
  <1>1. /\ fmDown' \subseteq fmDown
        /\ m \in [type : {"update", "delete", "url", "noversion"}, n : Nat]
        /\ m.type = "update" => /\ m.n <= fmOrders /\ m.n # fmFile.order
                                /\ \A o \in fmDown' : o.type = "update" => o.n # m.n
    BY <1>0, MessageHandled
  <1>2. /\ fmDown' \subseteq [type : {"update", "delete", "url", "noversion"}, n : Nat]
        /\ \A o \in fmDown' : o.type = "update" => o \in fmDown
        /\ fmUp \subseteq [type : {"url", "version"}, n : Nat]
        /\ fmInfo \in [name : Orders, url : Orders]
        /\ \A e \in fmWaiting : e \in [n : 1 .. fmPosts, expired : BOOLEAN]
        /\ fmInfo.url = Null \/ fmInfo.url <= fmOrders
        /\ \A o \in fmDown' : o.type = "update" => o.n # fmInfo.url
        /\ fmState = "inited" => fmInfo.name = Null
    BY <1>0, <1>1 DEF FetchInv, FetchTypes, PostsInv, PostTypes, OrdersAreNew, FetchIsOfOrder
  <1>3. ASSUME UNCHANGED <<fmWaiting, fmPosts, fmPosted>>
        PROVE  PostsInv'
    BY <1>0, <1>2, <1>3, PostsKept
  <1>4. ASSUME UNCHANGED <<fmState, fmInfo, fmDigest, fmFile, fmOrders, fmUp>>
        PROVE  FetchInv'
    BY <1>0, <1>2, <1>4, FetchKept
  <1>5. CASE Files!HandleWhileBusy(m)
    BY <1>3, <1>4, <1>5 DEF FilesInv, Files!HandleWhileBusy, Files!fmFetch, Files!fmHistory
  <1>6. CASE Files!HandleUpdate(m)
    <2>1. /\ fmInfo' = [name |-> m.n, url |-> m.n] /\ fmState' = "fetching" /\ m.type = "update"
          /\ UNCHANGED <<fmFile, fmOrders, fmUp, fmWaiting, fmPosts, fmPosted>>
      BY <1>6 DEF Files!HandleUpdate, Files!fmHistory
    <2>2. FetchTypes'
      BY <1>0, <1>1, <1>2, <2>1 DEF FetchInv, FetchTypes, Orders
    <2>3. OrdersAreNew'
      BY <1>0, <1>1, <2>1 DEF FetchInv, OrdersAreNew
    <2>4. FetchIsOfOrder'
      BY <1>1, <2>1 DEF FetchIsOfOrder, Files!ChecksumOfFile
    <2> QED
      BY <1>3, <2>1, <2>2, <2>3, <2>4 DEF FilesInv, FetchInv
  <1>7. CASE Files!HandleNoVersion(m)
    <2>1. /\ fmState' = "fetched" /\ fmState = "inited"
          /\ UNCHANGED <<fmInfo, fmFile, fmOrders, fmUp, fmWaiting, fmPosts, fmPosted>>
      BY <1>7 DEF Files!HandleNoVersion, Files!IsOpen, Files!fmHistory
    <2>2. FetchInv'
      BY <1>0, <1>1, <1>2, <2>1, FetchNameless
    <2> QED
      BY <1>3, <2>1, <2>2 DEF FilesInv
  <1>8. CASE Files!HandleUrl(m)
    <2>1. /\ fmPosted' = IF Files!Found(m.n) THEN Append(fmPosted, m.n) ELSE fmPosted
          /\ fmWaiting' \subseteq fmWaiting /\ \A e \in fmWaiting' : e.n # m.n
          /\ UNCHANGED <<fmState, fmInfo, fmDigest, fmFile, fmOrders, fmUp, fmPosts>>
      BY <1>8 DEF Files!HandleUrl, Files!ListAfter, Files!Kept, Files!fmFetch
    <2>2. CASE ~Files!Found(m.n)
      BY <1>0, <1>2, <1>4, <2>1, <2>2, PostsKept DEF FilesInv
    <2>3. CASE Files!Found(m.n)
      <3>1. PICK e \in fmWaiting : e.n = m.n
        BY <2>3 DEF Files!Found
      <3>2. /\ fmPosted \in Seq(1 .. fmPosts) /\ m.n \in 1 .. fmPosts
            /\ \A i \in 1 .. Len(fmPosted) : fmPosted[i] # m.n
            /\ \A i, j \in 1 .. Len(fmPosted) : fmPosted[i] = fmPosted[j] => i = j
        BY <1>0, <1>2, <3>1 DEF PostsInv, PostTypes, PostsInTurn, Files!PostedOnce
      <3>3. /\ fmPosted' \in Seq(1 .. fmPosts) /\ Len(fmPosted') = Len(fmPosted) + 1
            /\ Len(fmPosted) \in Nat /\ fmPosted'[Len(fmPosted) + 1] = m.n
            /\ \A i \in 1 .. Len(fmPosted) : fmPosted'[i] = fmPosted[i]
        BY <2>1, <2>3, <3>2
      <3>4. \A i \in 1 .. Len(fmPosted') : i \in 1 .. Len(fmPosted) \/ i = Len(fmPosted) + 1
        BY <3>3
      <3>5. Files!PostedOnce'
        BY <3>2, <3>3, <3>4 DEF Files!PostedOnce
      <3>6. \A i \in 1 .. Len(fmPosted'), f \in fmWaiting' : fmPosted'[i] # f.n
        BY <1>0, <2>1, <3>3, <3>4 DEF PostsInv, PostsInTurn
      <3>7. PostTypes'
        BY <1>0, <1>2, <2>1, <3>3 DEF PostsInv, PostTypes
      <3> QED
        BY <1>4, <2>1, <3>5, <3>6, <3>7 DEF FilesInv, PostsInv, PostsInTurn
    <2> QED
      BY <2>2, <2>3
  <1>9. CASE Files!HandleBadUrl(m)
    <2>1. /\ fmWaiting' \subseteq fmWaiting
          /\ UNCHANGED <<fmState, fmInfo, fmDigest, fmFile, fmOrders, fmUp, fmPosts, fmPosted>>
      BY <1>9 DEF Files!HandleBadUrl, Files!Kept, Files!fmFetch, Files!fmHistory
    <2> QED
      BY <1>0, <1>2, <1>4, <2>1, PostsKept DEF FilesInv
  <1>10. ASSUME NEW version \in BOOLEAN, Files!HandlePartial(m, version)
         PROVE  FilesInv'
    <2>1. UNCHANGED <<fmFile, fmOrders, fmUp, fmWaiting, fmPosts, fmPosted>> /\ m.type = "update"
          /\ fmState = "inited"
      BY <1>10 DEF Files!HandlePartial, Files!IsOpen, Files!fmHistory
    <2>2. CASE version
      BY <1>0, <1>1, <1>2, <1>3, <1>10, <2>1, <2>2, FetchReset DEF FilesInv, Files!HandlePartial
    <2>3. CASE ~version
      <3>1. fmInfo' = [name |-> Null, url |-> m.n] /\ fmState' = fmState
        BY <1>10, <2>3 DEF Files!HandlePartial
      <3>2. fmInfo' \in [name : Orders, url : Orders]
        BY <1>1, <3>1 DEF Orders
      <3>3. FetchInv'
        BY <1>0, <1>1, <2>1, <3>1, <3>2, FetchNameless
      <3> QED
        BY <1>3, <2>1, <3>3 DEF FilesInv
    <2> QED
      BY <2>2, <2>3
  <1>11. ASSUME NEW version \in BOOLEAN, Files!HandleDelete(m, version)
         PROVE  FilesInv'
    <2>1. UNCHANGED <<fmFile, fmOrders, fmUp, fmWaiting, fmPosts, fmPosted>> /\ fmState = "inited"
      BY <1>11 DEF Files!HandleDelete, Files!IsOpen, Files!fmHistory
    <2>2. CASE version
      BY <1>0, <1>1, <1>2, <1>3, <1>11, <2>1, <2>2, FetchReset DEF FilesInv, Files!HandleDelete
    <2>3. CASE ~version
      <3>1. fmInfo' = [fmInfo EXCEPT !.name = Null] /\ fmState' = "deleting"
        BY <1>11, <2>3 DEF Files!HandleDelete
      <3>2. fmInfo' \in [name : Orders, url : Orders] /\ fmInfo'.name = Null /\ fmInfo'.url = fmInfo.url
        BY <1>2, <3>1 DEF Orders
      <3>3. FetchInv'
        BY <1>0, <1>1, <1>2, <2>1, <3>1, <3>2, FetchNameless
      <3> QED
        BY <1>3, <2>1, <3>3 DEF FilesInv
    <2> QED
      BY <2>2, <2>3
  <1> QED
    BY <1>5, <1>6, <1>7, <1>8, <1>9, <1>10, <1>11

LEMMA FilesNext == FilesInv /\ [Files!Next]_filesVars => FilesInv'
  <1> SUFFICES ASSUME FilesInv, [Files!Next]_filesVars
               PROVE  FilesInv'
    OBVIOUS
  <1>0. /\ FetchInv /\ PostsInv
        /\ fmDown \subseteq [type : {"update", "delete", "url", "noversion"}, n : Nat]
        /\ fmUp \subseteq [type : {"url", "version"}, n : Nat]
        /\ fmOrders \in Nat /\ fmPosts \in Nat
        /\ \A e \in fmWaiting : e \in [n : 1 .. fmPosts, expired : BOOLEAN]
    BY DEF FilesInv, FetchInv, FetchTypes, PostsInv, PostTypes
  <1>1. ASSUME UNCHANGED <<fmWaiting, fmPosts, fmPosted>>
        PROVE  PostsInv'
    BY <1>0, <1>1, PostsKept
  <1>2. ASSUME UNCHANGED <<fmState, fmInfo, fmDigest, fmFile, fmOrders, fmUp, fmDown>>
        PROVE  FetchInv'
    BY <1>0, <1>2, FetchKept
  <1>3. ASSUME \/ Files!Reset
               \/ UNCHANGED <<fmState, fmInfo, fmDigest>>,
               UNCHANGED <<fmFile, fmUp, fmDown, fmOrders>>
        PROVE  FetchInv'
    BY <1>0, <1>2, <1>3, FetchReset
  <1>4. ASSUME NEW order \in {"update", "delete"}, Files!CloudOrders(order)
        PROVE  FilesInv'
    <2>1. /\ fmOrders' = fmOrders + 1
          /\ fmDown' = fmDown \cup {[type |-> order, n |-> fmOrders + 1]}
          /\ UNCHANGED <<fmState, fmInfo, fmDigest, fmFile, fmUp, fmWaiting, fmPosts, fmPosted>>
      BY <1>4 DEF Files!CloudOrders, Files!fmFetch
    <2>2. FetchTypes'
      BY <1>0, <2>1 DEF FetchInv, FetchTypes
    <2>3. OrdersAreNew'
      <3>1. \A o \in {fmInfo.url, fmFile.order} : o = Null \/ (o \in Nat /\ o <= fmOrders)
        BY <1>0 DEF FetchInv, FetchTypes, OrdersAreNew, Orders
      <3>2. \A o \in {fmInfo.url, fmFile.order} : fmOrders + 1 # o /\ (o = Null \/ o <= fmOrders + 1)
        BY <1>0, <3>1, NullIsNoNumber
      <3>3. \A m \in fmDown : m.type = "update" => m.n <= fmOrders + 1 /\ m.n # fmInfo.url
                                                   /\ m.n # fmFile.order
        BY <1>0 DEF FetchInv, OrdersAreNew
      <3> QED
        BY <1>0, <2>1, <3>2, <3>3 DEF OrdersAreNew
    <2>4. FetchIsOfOrder'
      BY <1>0, <2>1 DEF FetchInv, FetchIsOfOrder, Files!ChecksumOfFile, Files!Units
    <2> QED
      BY <1>1, <2>1, <2>2, <2>3, <2>4 DEF FilesInv, FetchInv
  <1>5. ASSUME NEW r \in fmUp, NEW again \in BOOLEAN, Files!CloudAnswers(r, again)
        PROVE  FilesInv'
    <2>1. /\ UNCHANGED <<fmState, fmInfo, fmDigest, fmFile, fmOrders, fmWaiting, fmPosts, fmPosted>>
          /\ fmUp' \subseteq fmUp
      BY <1>5 DEF Files!CloudAnswers, Files!fmFetch, Files!fmHistory
    <2>2. PICK t \in {"url", "noversion"} : fmDown' = fmDown \cup {[type |-> t, n |-> r.n]}
                                           \/ fmDown' = fmDown
      BY <1>5 DEF Files!CloudAnswers
    <2>3. [type |-> t, n |-> r.n] \in [type : {"update", "delete", "url", "noversion"}, n : Nat]
      BY <1>0
    <2>4. /\ fmDown' \subseteq [type : {"update", "delete", "url", "noversion"}, n : Nat]
          /\ \A m \in fmDown' : m.type = "update" => m \in fmDown
      BY <1>0, <2>2, <2>3
    <2> QED
      BY <1>0, <1>1, <2>1, <2>4, FetchKept DEF FilesInv
  <1>6. CASE Files!ReportVersion
    <2>1. /\ Files!Reset /\ UNCHANGED <<fmFile, fmOrders, fmDown, fmWaiting, fmPosts, fmPosted>>
          /\ fmUp' = fmUp \cup {[type |-> "version", n |-> 0]}
      BY <1>6 DEF Files!ReportVersion, Files!fmHistory
    <2> QED
      BY <1>0, <1>1, <2>1, FetchReset DEF FilesInv
  <1>7. CASE Files!ReportUpgrade \/ Files!CheckFails
    BY <1>1, <1>3, <1>7 DEF FilesInv, Files!ReportUpgrade, Files!CheckFails, Files!ReportResult, Files!fmHistory
  <1>8. ASSUME NEW published \in BOOLEAN, Files!PostRequest(published)
        PROVE  FilesInv'
    <2> DEFINE entry == [n |-> fmPosts + 1, expired |-> FALSE]
    <2>1. /\ fmPosts' = fmPosts + 1
          /\ fmWaiting' = fmWaiting \/ fmWaiting' = fmWaiting \cup {entry}
          /\ fmUp' = fmUp \/ fmUp' = fmUp \cup {[type |-> "url", n |-> fmPosts + 1]}
          /\ UNCHANGED <<fmState, fmInfo, fmDigest, fmFile, fmOrders, fmDown, fmPosted>>
      BY <1>8 DEF Files!PostRequest, Files!fmFetch
    <2>2. fmUp' \subseteq [type : {"url", "version"}, n : Nat]
      BY <1>0, <2>1
    <2>3. FetchInv'
      BY <1>0, <2>1, <2>2, FetchKept
    <2>4. entry \in [n : 1 .. fmPosts + 1, expired : BOOLEAN] /\ 1 .. fmPosts \subseteq 1 .. fmPosts + 1
      BY <1>0
    <2>5. \A e \in fmWaiting' : e \in [n : 1 .. fmPosts + 1, expired : BOOLEAN]
      <3>1. \A e \in fmWaiting : e \in [n : 1 .. fmPosts + 1, expired : BOOLEAN]
        <4> HIDE DEF entry
        <4> QED
          BY <1>0, <2>4
      <3> HIDE DEF entry
      <3> QED
        BY <2>1, <2>4, <3>1
    <2>6. fmPosted \in Seq(1 .. fmPosts) /\ fmPosted \in Seq(1 .. fmPosts + 1)
      BY <1>0, <2>4 DEF PostsInv, PostTypes
    <2>7. PostTypes'
      BY <1>0, <2>1, <2>5, <2>6 DEF PostTypes
    <2>8. \A i \in 1 .. Len(fmPosted) : fmPosted[i] # fmPosts + 1
      BY <1>0, <2>6
    <2>9. PostsInTurn'
      BY <1>0, <2>1, <2>8 DEF PostsInv, PostsInTurn, Files!PostedOnce
    <2> QED
      BY <2>3, <2>7, <2>9 DEF FilesInv, PostsInv
  <1>9. ASSUME NEW e \in fmWaiting, Files!TimerExpires(e)
        PROVE  FilesInv'
    <2>1. /\ fmWaiting' = (fmWaiting \ {e}) \cup {[e EXCEPT !.expired = TRUE]}
          /\ UNCHANGED <<fmState, fmInfo, fmDigest, fmFile, fmOrders, fmUp, fmDown, fmPosts, fmPosted>>
      BY <1>9 DEF Files!TimerExpires, Files!fmFetch, Files!fmHistory
    <2>2. \A f \in fmWaiting' : f \in [n : 1 .. fmPosts, expired : BOOLEAN]
                                /\ \E g \in fmWaiting : g.n = f.n
      BY <1>0, <2>1
    <2> QED
      BY <1>0, <1>2, <2>1, <2>2, PostsKept DEF FilesInv
  <1>10. ASSUME NEW resume \in BOOLEAN, Files!StartDownload(resume)
         PROVE  FilesInv'
    BY <1>0, <1>1, <1>10, FetchStarts DEF FilesInv, Files!StartDownload
  <1>11. CASE Files!FetchYield
    BY <1>0, <1>1, <1>11, FetchGrows DEF FilesInv, Files!FetchYield, Files!fmHistory
  <1>12. ASSUME NEW reported \in BOOLEAN, Files!FetchFails(reported)
         PROVE  FilesInv'
    BY <1>1, <1>3, <1>12 DEF FilesInv, Files!FetchFails, Files!ReportResult
  <1>13. CASE UNCHANGED filesVars
    BY <1>1, <1>2, <1>13 DEF FilesInv, filesVars
  <1> QED
    BY <1>4, <1>5, <1>6, <1>7, <1>8, <1>9, <1>10, <1>11, <1>12, <1>13, FilesHandled DEF Files!Next

-----------------------------------------------------------------------------
(* The proof for speech. *)

LEMMA SpeechInit == Speech!Init => SpeechInv
  BY DEF Speech!Init, SpeechInv, SpeechTypes, RequestsApart, Speech!FilesOwned, Speech!Slices,
         Speech!ResultReachesRequest

(* The invariant without the callback that runs. *)
SpeechStored == SpeechTypes /\ RequestsApart /\ Speech!FilesOwned

(* What a slice is, of a request or of its id. *)
LEMMA SliceOf ==
    ASSUME NEW list, NEW x
    PROVE  x \in Speech!Slices(list) <=>
               \E r \in list : r.id = x /\ r.type = "realtime" /\ r.token = Null
  BY DEF Speech!Slices

(* A file of a request of the list is that of a slice. *)
LEMMA FileOfSlice ==
    ASSUME RequestsApart, NEW r \in asList, r.id \in asFiles
    PROVE  r.id \in Speech!Slices(asList)
  BY SliceOf DEF RequestsApart

(* Requests leave the list, and where they are slices their files are lost. *)
LEMMA SpeechThinned ==
    ASSUME SpeechStored, NEW list \in SUBSET asList, Speech!Becomes(list),
           UNCHANGED <<asPosted, asFiles>>, asUp' \subseteq Nat, asAsked' \subseteq Nat
    PROVE  SpeechStored'
  <1>1. asList' = list /\ asStray' = asStray \cup ((Speech!Slices(asList) \ Speech!Slices(list)) \cap asFiles)
    BY DEF Speech!Becomes
  <1>2. SpeechTypes' /\ RequestsApart'
    BY <1>1 DEF SpeechStored, SpeechTypes, RequestsApart
  <1>3. Speech!Slices(list) \subseteq Speech!Slices(asList)
    BY DEF Speech!Slices
  <1>4. Speech!FilesOwned'
    BY <1>1, <1>3 DEF SpeechStored, Speech!FilesOwned, Speech!Slices
  <1> QED
    BY <1>2, <1>4 DEF SpeechStored

(* The list is full: its late requests leave it, their files with them. *)
LEMMA SpeechPurged ==
    ASSUME SpeechStored, asPosted' = asPosted + 1, asUp' \subseteq Nat, UNCHANGED <<asStray, asAsked>>,
           asList' = Speech!Walked({}, Speech!Late),
           asFiles' = asFiles \ {r.id : r \in {q \in Speech!Late : q.type = "realtime"}}
    PROVE  SpeechStored'
  <1>1. asList' = {r \in asList : ~r.late}
    BY DEF Speech!Walked, Speech!Late
  <1>2. asFiles' = {x \in asFiles : \A r \in asList : r.late /\ r.type = "realtime" => x # r.id}
    BY DEF Speech!Late
  <1>3. asPosted \in Nat /\ 1 .. asPosted \subseteq 1 .. asPosted'
    BY DEF SpeechStored, SpeechTypes
  <1>4. asList' \subseteq [id : 1 .. asPosted', type : {"record", "realtime"}, token : Nat \cup {Null},
                           late : BOOLEAN]
    <2>1. asList \subseteq [id : 1 .. asPosted, type : {"record", "realtime"}, token : Nat \cup {Null},
                            late : BOOLEAN]
      BY DEF SpeechStored, SpeechTypes
    <2> QED
      BY <1>1, <1>3, <2>1
  <1>5. SpeechTypes'
    <2>1. asPosted' \in Nat
      BY <1>3
    <2>2. asFiles' \subseteq 1 .. asPosted'
      BY <1>2, <1>3 DEF SpeechStored, SpeechTypes
    <2> QED
      BY <1>4, <2>1, <2>2 DEF SpeechStored, SpeechTypes
  <1>6. RequestsApart'
    BY <1>1, <1>2 DEF SpeechStored, RequestsApart
  <1>7. Speech!Slices(asList)' \subseteq asFiles'
    BY <1>1, <1>2 DEF SpeechStored, RequestsApart, Speech!FilesOwned, Speech!Slices
  <1>8. asFiles' \ Speech!Slices(asList)' = asStray'
    <2>1. ASSUME NEW x \in asFiles', x \notin Speech!Slices(asList)'
          PROVE  x \in asStray
      <3>1. x \notin Speech!Slices(asList)
        BY <1>1, <1>2, <2>1 DEF Speech!Slices
      <3> QED
        BY <1>2, <2>1, <3>1 DEF SpeechStored, Speech!FilesOwned
    <2>2. ASSUME NEW x \in asStray
          PROVE  x \in asFiles' /\ x \notin Speech!Slices(asList)'
      <3>1. x \in asFiles /\ x \notin Speech!Slices(asList)
        BY <2>2 DEF SpeechStored, Speech!FilesOwned
      <3>2. \A r \in asList : x # r.id
        BY <3>1, FileOfSlice DEF SpeechStored
      <3> QED
        BY <1>1, <1>2, <3>1, <3>2 DEF Speech!Slices
    <2> QED
      BY <2>1, <2>2
  <1> QED
    BY <1>5, <1>6, <1>7, <1>8 DEF SpeechStored, Speech!FilesOwned

(* A request is posted, or its slice cannot be written. *)
LEMMA SpeechPosted ==
    ASSUME SpeechStored, asPosted' = asPosted + 1, asUp' \subseteq Nat, UNCHANGED asAsked,
           NEW type \in {"record", "realtime"},
           \/ /\ asList' = asList \cup {[id |-> asPosted', type |-> type, token |-> Null, late |-> FALSE]}
              /\ asFiles' = asFiles \cup {id \in {asPosted'} : type = "realtime"}
              /\ asStray' = asStray
           \/ UNCHANGED <<asList, asFiles, asStray>>
           \/ /\ asList' = asList /\ asFiles' = asFiles \cup {asPosted'}
              /\ asStray' = asStray \cup {asPosted'}
    PROVE  SpeechStored'
  <1> DEFINE new == [id |-> asPosted', type |-> type, token |-> Null, late |-> FALSE]
  <1>1. asPosted \in Nat /\ 1 .. asPosted \subseteq 1 .. asPosted' /\ asPosted' \in 1 .. asPosted'
        /\ asPosted' \notin 1 .. asPosted /\ asPosted' \in Nat
    BY DEF SpeechStored, SpeechTypes
  <1>2. asList \subseteq [id : 1 .. asPosted, type : {"record", "realtime"}, token : Nat \cup {Null},
                          late : BOOLEAN]
        /\ asFiles \subseteq 1 .. asPosted
    BY DEF SpeechStored, SpeechTypes
  <1>3. new \in [id : 1 .. asPosted', type : {"record", "realtime"}, token : Nat \cup {Null},
                 late : BOOLEAN]
        /\ asList \subseteq [id : 1 .. asPosted', type : {"record", "realtime"}, token : Nat \cup {Null},
                             late : BOOLEAN]
    BY <1>1, <1>2
  <1>4. /\ new.id = asPosted' /\ new.type = type /\ new.token = Null
        /\ \A r \in asList : r.id # asPosted'
        /\ asPosted' \notin asFiles
    BY <1>1, <1>2
  <1>5. asList' = asList \/ asList' = asList \cup {new}
    OBVIOUS
  <1>6. asFiles' = asFiles \/ asFiles' = asFiles \cup {asPosted'}
    OBVIOUS
  <1>7. SpeechTypes'
    <2> HIDE DEF new
    <2> QED
      BY <1>1, <1>2, <1>3, <1>5, <1>6 DEF SpeechStored, SpeechTypes
  <1>8. RequestsApart'
    <2>1. new \in asList' /\ asPosted' \in asFiles' => new.type = "realtime"
      BY <1>4, <1>6
    <2> HIDE DEF new
    <2> QED
      BY <1>4, <1>5, <1>6, <2>1 DEF SpeechStored, RequestsApart
  <1>9. Speech!FilesOwned'
    <2>1. asPosted' \notin Speech!Slices(asList)
      BY <1>4, SliceOf
    <2>2. Speech!Slices(asList \cup {new}) = Speech!Slices(asList) \cup {id \in {asPosted'} : type = "realtime"}
      BY <1>4 DEF Speech!Slices
    <2>3. Speech!Slices(asList) \subseteq asFiles /\ asFiles \ Speech!Slices(asList) = asStray
      BY DEF SpeechStored, Speech!FilesOwned
    <2>4. CASE asList' = asList
      <3>1. Speech!Slices(asList)' = Speech!Slices(asList)
        BY <2>4 DEF Speech!Slices
      <3>2. (asFiles' = asFiles /\ asStray' = asStray)
            \/ (asFiles' = asFiles \cup {asPosted'} /\ asStray' = asStray \cup {asPosted'})
        BY <2>4, <1>4
      <3> QED
        BY <2>1, <2>3, <3>1, <3>2 DEF Speech!FilesOwned
    <2>5. CASE asList' # asList
      <3>1. /\ Speech!Slices(asList)' = Speech!Slices(asList \cup {new})
            /\ asFiles' = asFiles \cup {id \in {asPosted'} : type = "realtime"} /\ asStray' = asStray
        BY <2>5 DEF Speech!Slices
      <3> HIDE DEF new
      <3> QED
        BY <1>4, <2>2, <2>3, <3>1 DEF Speech!FilesOwned
    <2> QED
      BY <2>4, <2>5
  <1> QED
    BY <1>7, <1>8, <1>9 DEF SpeechStored

(* The audio of a request is uploaded: it gets its token, and loses its file. *)
LEMMA SpeechUploaded ==
    ASSUME SpeechStored, NEW id \in asUp, Speech!ById(id) # {},
           NEW walked \in SUBSET asList,
           Speech!Becomes({IF r.id = id THEN [r EXCEPT !.token = id] ELSE r : r \in walked}),
           asFiles' = asFiles \ {id}, asPosted' = asPosted, asUp' \subseteq Nat, asAsked' \subseteq Nat
    PROVE  SpeechStored'
  <1> DEFINE Given(r) == IF r.id = id THEN [r EXCEPT !.token = id] ELSE r
             list     == {Given(r) : r \in walked}
  <1>0. id \in Nat /\ id # Null
    BY NullIsNoNumber DEF SpeechStored, SpeechTypes
  <1>1. asList' = list /\ asStray' = asStray \cup ((Speech!Slices(asList) \ Speech!Slices(list)) \cap asFiles')
    BY DEF Speech!Becomes
  <1>2. ASSUME NEW r \in walked
        PROVE  /\ Given(r) \in [id : 1 .. asPosted, type : {"record", "realtime"},
                                token : Nat \cup {Null}, late : BOOLEAN]
               /\ Given(r).id = r.id /\ Given(r).type = r.type
               /\ r.id = id => Given(r).token = id
               /\ r.id # id => Given(r) = r
    <2>1. r \in [id : 1 .. asPosted, type : {"record", "realtime"}, token : Nat \cup {Null}, late : BOOLEAN]
      BY DEF SpeechStored, SpeechTypes
    <2> QED
      BY <1>0, <2>1
  <1> HIDE DEF Given
  <1>3. \A q \in asList' : \E r \in walked : q = Given(r)
    BY <1>1
  <1>4. SpeechTypes'
    BY <1>2, <1>3 DEF SpeechStored, SpeechTypes
  <1>5. RequestsApart'
    <2>1. ASSUME NEW q \in asList', NEW p \in asList', q.id = p.id PROVE q = p
      <3>1. PICK r \in walked, s \in walked : q = Given(r) /\ p = Given(s)
        BY <1>3
      <3> QED
        BY <1>2, <2>1, <3>1 DEF SpeechStored, RequestsApart
    <2>2. ASSUME NEW q \in asList'
          PROVE  q.token \in {Null, q.id} /\ (q.id \in asFiles' => q.type = "realtime" /\ q.token = Null)
      <3>1. PICK r \in walked : q = Given(r)
        BY <1>3
      <3>2. CASE r.id = id
        BY <1>2, <3>1, <3>2
      <3>3. CASE r.id # id
        BY <1>2, <3>1, <3>3 DEF SpeechStored, RequestsApart
      <3> QED
        BY <3>2, <3>3
    <2> QED
      BY <2>1, <2>2 DEF RequestsApart
  <1>6. /\ Speech!Slices(list) \subseteq Speech!Slices(asList) \ {id}
        /\ Speech!Slices(asList)' = Speech!Slices(list)
    <2>1. ASSUME NEW x \in Speech!Slices(list) PROVE x \in Speech!Slices(asList) /\ x # id
      <3>1. PICK q \in list : q.id = x /\ q.type = "realtime" /\ q.token = Null
        BY <2>1, SliceOf
      <3>2. PICK r \in walked : q = Given(r)
        BY <3>1
      <3>3. r.id # id /\ q = r
        BY <1>0, <1>2, <3>1, <3>2
      <3> QED
        BY <3>1, <3>3, SliceOf
    <2>2. Speech!Slices(asList)' = Speech!Slices(list)
      BY <1>1 DEF Speech!Slices
    <2> QED
      BY <2>1, <2>2
  <1>7. id \notin asStray
    <2>1. PICK r \in asList : r.id = id
      BY DEF Speech!ById
    <2> QED
      BY <2>1, FileOfSlice DEF SpeechStored, Speech!FilesOwned
  <1>8. Speech!FilesOwned'
    <2>1. Speech!Slices(asList) \subseteq asFiles /\ asFiles \ Speech!Slices(asList) = asStray
      BY DEF SpeechStored, Speech!FilesOwned
    <2> HIDE DEF list
    <2> QED
      BY <1>1, <1>6, <1>7, <2>1 DEF Speech!FilesOwned
  <1> QED
    BY <1>4, <1>5, <1>8 DEF SpeechStored

LEMMA SpeechNext == SpeechInv /\ [Speech!Next]_speechVars => SpeechInv'
  <1> SUFFICES ASSUME SpeechInv, [Speech!Next]_speechVars
               PROVE  SpeechInv'
    OBVIOUS
  <1>0. SpeechStored /\ asPosted \in Nat /\ asUp \subseteq Nat /\ asAsked \subseteq Nat
        /\ Speech!ResultReachesRequest
    BY DEF SpeechInv, SpeechStored, SpeechTypes
  <1>1. ASSUME SpeechStored', asNotify' = asNotify \/ asNotify' = Null
        PROVE  SpeechInv'
    BY <1>0, <1>1 DEF SpeechInv, SpeechStored, Speech!ResultReachesRequest
  <1>2. ASSUME NEW type \in {"record", "realtime"}, asPosted' = asPosted + 1, Speech!Added(type),
               UNCHANGED <<asStray, asAsked>>
        PROVE  SpeechStored'
    <2>1. asUp' \subseteq Nat
      BY <1>0, <1>2 DEF Speech!Added
    <2> QED
      BY <1>0, <1>2, <2>1, SpeechPosted, SpeechPurged DEF Speech!Added
  <1>3. CASE Speech!RecordRequest
    <2>1. asPosted' = asPosted + 1 /\ UNCHANGED <<asStray, asAsked, asNotify>>
      BY <1>3 DEF Speech!RecordRequest, Speech!Post
    <2>2. CASE Speech!Added("record")
      BY <1>1, <1>2, <2>1, <2>2
    <2>3. CASE UNCHANGED <<asList, asUp, asFiles>>
      BY <1>0, <1>1, <2>1, <2>3, SpeechPosted
    <2> QED
      BY <1>3, <2>2, <2>3 DEF Speech!RecordRequest
  <1>4. CASE Speech!RealtimeRequest
    <2>1. asPosted' = asPosted + 1 /\ UNCHANGED <<asAsked, asNotify>>
      BY <1>4 DEF Speech!RealtimeRequest, Speech!Post
    <2>2. CASE Speech!Added("realtime") /\ UNCHANGED asStray
      BY <1>1, <1>2, <2>1, <2>2
    <2>3. CASE \/ UNCHANGED <<asList, asUp, asFiles, asStray>>
               \/ /\ UNCHANGED <<asList, asUp>>
                  /\ asFiles' = asFiles \cup {asPosted'}
                  /\ asStray' = asStray \cup {asPosted'}
      <3>1. asUp' \subseteq Nat
        BY <1>0, <2>3
      <3> QED
        BY <1>0, <1>1, <2>1, <2>3, <3>1, SpeechPosted
    <2> QED
      BY <1>4, <2>2, <2>3 DEF Speech!RealtimeRequest
  <1>5. CASE Speech!Expire
    <2>1. PICK r \in asList : asList' = (asList \ {r}) \cup {[r EXCEPT !.late = TRUE]}
      BY <1>5 DEF Speech!Expire
    <2> DEFINE late == [r EXCEPT !.late = TRUE]
    <2>2. UNCHANGED <<asPosted, asFiles, asStray, asUp, asAsked, asNotify>>
      BY <1>5 DEF Speech!Expire
    <2>3. asList \subseteq [id : 1 .. asPosted, type : {"record", "realtime"}, token : Nat \cup {Null},
                            late : BOOLEAN]
      BY <1>0 DEF SpeechStored, SpeechTypes
    <2>4. /\ late \in [id : 1 .. asPosted, type : {"record", "realtime"}, token : Nat \cup {Null},
                       late : BOOLEAN]
          /\ late.id = r.id /\ late.type = r.type /\ late.token = r.token
      BY <2>3
    <2> HIDE DEF late
    <2>5. asList' = (asList \ {r}) \cup {late}
      BY <2>1 DEF late
    <2>6. SpeechTypes'
      BY <1>0, <2>2, <2>3, <2>4, <2>5 DEF SpeechStored, SpeechTypes
    <2>7. RequestsApart'
      BY <1>0, <2>2, <2>4, <2>5 DEF SpeechStored, RequestsApart
    <2>8. Speech!Slices(asList)' = Speech!Slices(asList)
      BY <2>4, <2>5 DEF Speech!Slices
    <2>9. Speech!FilesOwned'
      BY <1>0, <2>2, <2>8 DEF SpeechStored, Speech!FilesOwned
    <2> QED
      BY <1>1, <2>2, <2>6, <2>7, <2>9 DEF SpeechStored
  <1>6. ASSUME NEW id \in asUp, Speech!UploadEnds(id)
        PROVE  SpeechInv'
    <2>1. asPosted' = asPosted /\ asNotify' = asNotify /\ asUp' \subseteq Nat
      BY <1>0, <1>6 DEF Speech!UploadEnds
    <2>2. asAsked' \subseteq Nat
      BY <1>0, <1>6 DEF Speech!UploadEnds, Speech!Ask
    <2>3. \A found : Speech!Walked(found, Speech!Late) \in SUBSET asList
      BY DEF Speech!Walked
    <2>4. CASE UNCHANGED asFiles /\ \E found : Speech!Becomes(Speech!Walked(found, Speech!Late))
      BY <1>0, <1>1, <2>1, <2>2, <2>3, <2>4, SpeechThinned
    <2>5. CASE /\ Speech!ById(id) # {} /\ asFiles' = asFiles \ {id}
               /\ Speech!Becomes({IF r.id = id THEN [r EXCEPT !.token = id] ELSE r :
                                     r \in Speech!Walked(Speech!ById(id), Speech!Late)})
      BY <1>0, <1>1, <2>1, <2>2, <2>3, <2>5, SpeechUploaded
    <2> QED
      BY <1>6, <2>4, <2>5 DEF Speech!UploadEnds
  <1>7. ASSUME NEW token \in asAsked, NEW last \in BOOLEAN, Speech!Result(token, last)
        PROVE  SpeechInv'
    <2>1. /\ UNCHANGED <<asPosted, asFiles, asUp, asAsked>>
          /\ Speech!Becomes(Speech!Walked(Speech!ByToken(token), Speech!LateUnasked))
      BY <1>7 DEF Speech!Result
    <2>2. Speech!Walked(Speech!ByToken(token), Speech!LateUnasked) \in SUBSET asList
      BY DEF Speech!Walked
    <2>3. SpeechStored'
      BY <1>0, <2>1, <2>2, SpeechThinned
    <2>4. CASE asNotify' = asNotify
      BY <1>1, <2>3, <2>4
    <2>5. ASSUME NEW to \in Speech!Taker(token),
                 asNotify' = [id |-> to.id, last |-> last, since |-> asPosted,
                              token |-> token, listed |-> Speech!ByToken(token) # {}]
          PROVE  SpeechInv'
      <3>1. Speech!ByToken(token) # {} => to \in asList /\ to.token = token
        BY <2>5 DEF Speech!Taker, Speech!ByToken
      <3>2. token # Null
        BY <1>0, NullIsNoNumber
      <3>3. Speech!ByToken(token) # {} => to.id = token
        BY <1>0, <3>1, <3>2 DEF SpeechStored, RequestsApart
      <3>4. asNotify'.listed = (Speech!ByToken(token) # {}) /\ asNotify'.id = to.id /\ asNotify'.token = token
        BY <2>5
      <3>5. Speech!ResultReachesRequest'
        BY <3>3, <3>4 DEF Speech!ResultReachesRequest
      <3> QED
        BY <2>3, <3>5 DEF SpeechInv, SpeechStored
    <2> QED
      BY <1>7, <2>4, <2>5 DEF Speech!Result
  <1>8. ASSUME NEW token \in asAsked, NEW error \in BOOLEAN, Speech!BadResult(token, error)
        PROVE  SpeechInv'
    <2>1. PICK list \in SUBSET asList : Speech!Becomes(list)
      BY <1>8 DEF Speech!BadResult, Speech!Walked
    <2> QED
      BY <1>0, <1>1, <1>8, <2>1, SpeechThinned DEF Speech!BadResult
  <1>9. CASE Speech!NotifyReturns
    <2>1. UNCHANGED <<asPosted, asFiles, asUp, asAsked>> /\ asNotify' = Null
      BY <1>9 DEF Speech!NotifyReturns
    <2>2. CASE UNCHANGED <<asList, asStray>>
      <3>1. SpeechStored'
        BY <1>0, <2>1, <2>2 DEF SpeechStored, SpeechTypes, RequestsApart, Speech!FilesOwned, Speech!Slices
      <3> QED
        BY <1>1, <2>1, <3>1
    <2>3. ASSUME NEW id, Speech!Becomes(Speech!Without(asList, id)) PROVE SpeechInv'
      <3>1. Speech!Without(asList, id) \in SUBSET asList
        BY DEF Speech!Without
      <3> QED
        BY <1>0, <1>1, <2>1, <2>3, <3>1, SpeechThinned
    <2> QED
      BY <1>9, <2>2, <2>3 DEF Speech!NotifyReturns
  <1>10. CASE UNCHANGED speechVars
    BY <1>10 DEF speechVars, SpeechInv, SpeechTypes, RequestsApart, Speech!FilesOwned, Speech!Slices,
           Speech!ResultReachesRequest
  <1> QED
    BY <1>3, <1>4, <1>5, <1>6, <1>7, <1>8, <1>9, <1>10 DEF Speech!Next

-----------------------------------------------------------------------------
(* Sequences that are put together and cut. *)

LEMMA ConcatPlain ==
    ASSUME NEW S, NEW p \in Seq(S), NEW q \in Seq(S)
    PROVE  /\ p \o q \in Seq(S) /\ Len(p \o q) = Len(p) + Len(q)
           /\ \A i \in 1 .. Len(p) + Len(q) :
                (p \o q)[i] = IF i <= Len(p) THEN p[i] ELSE q[i - Len(p)]
  OBVIOUS

(* The same where the lengths have names. *)
LEMMA ConcatPoints ==
    ASSUME NEW S, NEW p \in Seq(S), NEW q \in Seq(S), NEW m, m = Len(p), NEW n, n = Len(q)
    PROVE  /\ p \o q \in Seq(S) /\ Len(p \o q) = m + n /\ DOMAIN (p \o q) = 1 .. m + n
           /\ \A i \in 1 .. m + n : (p \o q)[i] = IF i <= m THEN p[i] ELSE q[i - m]
  OBVIOUS

LEMMA SubSeqPoints ==
    ASSUME NEW S, NEW s \in Seq(S), NEW m \in Nat \ {0}, NEW n \in Nat, n <= Len(s), m <= n + 1
    PROVE  /\ SubSeq(s, m, n) \in Seq(S) /\ Len(SubSeq(s, m, n)) = n + 1 - m
           /\ \A i \in 1 .. n + 1 - m : SubSeq(s, m, n)[i] = s[m + i - 1]
  OBVIOUS

(* What is behind the k-th. *)
LEMMA RestPoints ==
    ASSUME NEW S, NEW s \in Seq(S), NEW k \in Nat, k <= Len(s)
    PROVE  /\ SubSeq(s, k + 1, Len(s)) \in Seq(S) /\ Len(SubSeq(s, k + 1, Len(s))) = Len(s) - k
           /\ \A i \in 1 .. Len(s) - k : SubSeq(s, k + 1, Len(s))[i] = s[k + i]
  OBVIOUS

-----------------------------------------------------------------------------
(* The bytes of a packet on the wire. *)

\* What is on the wire is what the write under way and those before it have sent.  The first
\* write of a packet begins at its front; over TLS there is no other.
WireIdle ==
    /\ ntCall = Null
    /\ ntResult = "success" /\ ~ntPartial => Len(ntWire) = PacketLength
    /\ ntTls /\ ntPartial => Len(ntWire) < PacketLength
WireCall ==
       /\ ntCall \in [sent : Nat, off : Nat, last : Nat]
       /\ ntCall.off < PacketLength \/ ntCall.off = 0
       /\ Len(ntWire) = ntCall.sent + ntCall.off
       /\ ntCall.sent > 0 => ntPartial
       /\ ntTls => ntCall.sent = 0 /\ ~ntPartial
       /\ ntResult # "success"

WireInv ==
    /\ ntTls \in BOOLEAN /\ ntPartial \in BOOLEAN
    /\ ntWire \in Seq(Nat)
    /\ \A i \in DOMAIN ntWire : ntWire[i] = i
    /\ WireIdle \/ WireCall

LEMMA WireInit == Net!Init => WireInv
  <1> SUFFICES ASSUME Net!Init PROVE WireInv
    OBVIOUS
  <1>1. ntWire = <<>> /\ ntCall = Null /\ ntPartial = FALSE /\ ntTls \in BOOLEAN /\ ntResult # "success"
    BY WireAssumption DEF Net!Init
  <1>2. ntWire \in Seq(Nat) /\ \A i \in DOMAIN ntWire : ntWire[i] = i
    BY <1>1
  <1> QED
    BY <1>1, <1>2 DEF WireInv, WireIdle, WireCall

\* The bytes that were taken follow those on the wire.
LEMMA WireGrows ==
    ASSUME WireInv, ntCall # Null, NEW n \in Nat, Net!Took(n)
    PROVE  /\ ntWire' \in Seq(Nat) /\ Len(ntWire') = ntCall.sent + ntCall.off + n
           /\ \A i \in DOMAIN ntWire' : ntWire'[i] = i
  <1> DEFINE at == ntCall.sent + ntCall.off
             new == [i \in 1 .. n |-> at + i]
  <1>1. at \in Nat /\ Len(ntWire) = at
    BY DEF WireInv, WireIdle, WireCall
  <1>2. new \in Seq(Nat) /\ Len(new) = n /\ \A i \in 1 .. n : new[i] = at + i
    BY <1>1
  <1>3. ntWire' = ntWire \o new
    BY DEF Net!Took
  <1> HIDE DEF new, at
  <1>4. /\ ntWire' \in Seq(Nat) /\ Len(ntWire') = at + n
        /\ \A i \in 1 .. at + n : ntWire'[i] = IF i <= at THEN ntWire[i] ELSE new[i - at]
    <2>1. ntWire \in Seq(Nat)
      BY DEF WireInv
    <2>2. /\ ntWire \o new \in Seq(Nat) /\ Len(ntWire \o new) = Len(ntWire) + Len(new)
          /\ \A i \in 1 .. Len(ntWire) + Len(new) :
               (ntWire \o new)[i] = IF i <= Len(ntWire) THEN ntWire[i] ELSE new[i - Len(ntWire)]
      BY <1>2, <2>1, ConcatPlain
    <2> QED
      BY <1>1, <1>2, <1>3, <2>2
  <1>5. \A i \in DOMAIN ntWire' : ntWire'[i] = i
    BY <1>1, <1>2, <1>4 DEF WireInv
  <1> QED
    BY <1>4, <1>5 DEF at

LEMMA WireNext == WireInv /\ [Net!Next]_netVars => WireInv'
  <1> SUFFICES ASSUME WireInv, [Net!Next]_netVars PROVE WireInv'
    OBVIOUS
  <1> USE WireAssumption
  <1>1. ASSUME UNCHANGED <<ntTls, ntCall, ntWire, ntResult, ntPartial>> PROVE WireInv'
    BY <1>1 DEF WireInv, WireIdle, WireCall
  <1>2. \/ \E outcomes \in Net!Outcomes : Net!TcpConnect(outcomes)
        \/ \E works \in BOOLEAN : Net!TlsConnect(works)
        \/ \E shut \in BOOLEAN : Net!TcpDisconnect(shut)
        \/ Net!TlsDisconnect \/ UNCHANGED netVars
        => UNCHANGED <<ntTls, ntCall, ntWire, ntResult, ntPartial>>
    BY DEF Net!TcpConnect, Net!TlsConnect, Net!TcpDisconnect, Net!TlsDisconnect, netVars
  <1>3. CASE Net!SendPacket
    <2>1. ntWire' = <<>> /\ ntPartial' = FALSE /\ ntTls' = ntTls
      BY <1>3 DEF Net!SendPacket, Net!openVars
    <2>5. ntWire' \in Seq(Nat) /\ Len(ntWire') = 0 /\ \A i \in DOMAIN ntWire' : ntWire'[i] = i
      BY <2>1
    <2>2. CASE ntCall' = Net!Begun(0) /\ ntResult' = Null
      
      <3>1. /\ ntCall' \in [sent : Nat, off : Nat, last : Nat]
            /\ ntCall'.sent = 0 /\ ntCall'.off = 0 /\ ntResult' # "success"
        BY <2>2, WireAssumption DEF Net!Begun
      <3> QED
        <4>1. Len(ntWire') = ntCall'.sent + ntCall'.off /\ ~ntPartial' /\ (ntTls' \in BOOLEAN)
          BY <2>1, <2>5, <3>1 DEF WireInv
        <4>2. WireCall'
          BY <3>1, <4>1 DEF WireCall
        <4> QED
          BY <2>1, <2>5, <4>1, <4>2 DEF WireInv
    <2>3. CASE ntCall' = Null /\ ntResult' = "failure"
      BY <2>1, <2>3, <2>5 DEF WireInv, WireIdle, WireCall
    <2> QED
      BY <1>3, <2>2, <2>3 DEF Net!SendPacket
  <1>4. ASSUME NEW n \in 1 .. PacketLength, Net!WriteSome(n) PROVE WireInv'
    <2>1. /\ ntCall # Null /\ Net!Took(n) /\ ntTls' = ntTls /\ n <= PacketLength - ntCall.off
          /\ n \in Nat /\ n > 0
      BY <1>4 DEF Net!WriteSome, Net!openVars, Net!Left
    <2>5. ntCall \in [sent : Nat, off : Nat, last : Nat] /\ WireCall
      BY <2>1 DEF WireInv, WireIdle, WireCall
    <2>2. /\ ntWire' \in Seq(Nat) /\ Len(ntWire') = ntCall.sent + ntCall.off + n
          /\ \A i \in DOMAIN ntWire' : ntWire'[i] = i
      BY <2>1, WireGrows
    <2>3. CASE n = Net!Left
      <3>1. Net!WriteReturns(PacketLength)
        BY <1>4, <2>3 DEF Net!WriteSome
      <3>2. ntPartial' = ntPartial /\ ntCall' = Null /\ ntResult' = "success"
        BY <3>1, <2>1 DEF Net!WriteReturns, WireInv, WireIdle, WireCall
      <3> QED
        <4>1. Len(ntWire') = ntCall.sent + PacketLength
          BY <2>2, <2>3, <2>5 DEF Net!Left
        <4>2. WireIdle'
          BY <2>1, <2>5, <3>2, <4>1 DEF WireIdle, WireCall
        <4> QED
          BY <2>1, <2>2, <3>2, <4>2 DEF WireInv
    <2>4. CASE n # Net!Left
      <3>1. ntCall' = [ntCall EXCEPT !.off = @ + n, !.last = n] /\ UNCHANGED <<ntResult, ntPartial>>
        BY <1>4, <2>4 DEF Net!WriteSome
      <3>2. /\ ntCall'.sent = ntCall.sent /\ ntCall'.off = ntCall.off + n /\ ntCall'.last = n
            /\ ntCall' \in [sent : Nat, off : Nat, last : Nat]
        <4>1. ntCall' = [ntCall EXCEPT !.off = ntCall.off + n, !.last = n]
          BY <3>1, Zenon
        <4>2. ntCall.off + n \in Nat
          BY <2>1, <2>5
        <4> QED
          BY <4>1, <4>2, <2>1, <2>5
      <3>3. /\ ntCall'.off < PacketLength
            /\ Len(ntWire') = ntCall'.sent + ntCall'.off
        <4>1. n < PacketLength - ntCall.off /\ ntCall.off \in Nat /\ ntCall.sent \in Nat
          BY <2>1, <2>4, <2>5 DEF Net!Left
        <4> QED
          BY <4>1, <2>1, <2>2, <3>2
      <3> QED
        BY <2>1, <2>2, <2>5, <3>1, <3>2, <3>3 DEF WireInv, WireCall
    <2> QED
      BY <2>3, <2>4
  <1>5. CASE Net!WriteStops
    <2>1. ntCall # Null /\ UNCHANGED <<ntTls, ntWire>>
      BY <1>5 DEF Net!WriteStops, Net!openVars
    <2>2. CASE ntCall.off > 0 /\ ~ntTls
      <3>1. Net!WriteReturns(ntCall.off)
        BY <1>5, <2>2 DEF Net!WriteStops
      <3>2. ntPartial' = TRUE
        <4>1. ntCall.off < PacketLength
          BY <2>1, <2>2 DEF WireInv, WireIdle, WireCall
        <4> QED
          BY <4>1, <3>1 DEF Net!WriteReturns
      <3>3. CASE ntCall' = Null /\ ntResult' = "success"
        BY <2>1, <2>2, <3>2, <3>3 DEF WireInv, WireIdle, WireCall
      <3>4. CASE ntCall' = Net!Begun(ntCall.sent + ntCall.off) /\ UNCHANGED ntResult
        BY <2>1, <2>2, <3>2, <3>4 DEF WireInv, WireIdle, WireCall, Net!Begun
      <3> QED
        BY <3>1, <3>3, <3>4 DEF Net!WriteReturns
    <2>3. CASE ~(ntCall.off > 0 /\ ~ntTls)
      <3>1. Net!WriteFails
        BY <1>5, <2>3 DEF Net!WriteStops
      <3> QED
        BY <2>1, <2>3, <3>1 DEF Net!WriteFails, WireInv, WireIdle, WireCall
    <2> QED
      BY <2>2, <2>3
  <1>6. CASE Net!WriteCountsTwice
    <2>1. ntCall # Null /\ ntTls /\ ntCall.last > 0 /\ UNCHANGED <<ntTls, ntWire>>
      BY <1>6 DEF Net!WriteCountsTwice, Net!openVars
    <2>2. CASE ntCall.off + ntCall.last = PacketLength
      BY <1>6, <2>1, <2>2 DEF Net!WriteCountsTwice, WireInv, WireIdle, WireCall
    <2>3. CASE ntCall.off + ntCall.last # PacketLength
      BY <1>6, <2>1, <2>3 DEF Net!WriteCountsTwice, Net!WriteFails, WireInv, WireIdle, WireCall
    <2> QED
      BY <2>2, <2>3
  <1> QED
    BY <1>1, <1>2, <1>3, <1>4, <1>5, <1>6 DEF Net!Next

LEMMA WireWhole == WireInv => Net!WireIsPacket
  <1> SUFFICES ASSUME WireInv PROVE Net!WireIsPacket
    OBVIOUS
  <1>1. ntWire = [i \in DOMAIN ntWire |-> i]
    BY DEF WireInv
  <1>2. ntTls /\ ntPartial => Len(ntWire) < PacketLength
    BY DEF WireInv, WireIdle, WireCall
  <1> QED
    BY <1>1, <1>2 DEF WireInv, WireIdle, WireCall, Net!WireIsPacket

-----------------------------------------------------------------------------
(* The lines of the log. *)

\* A line of the buffer is still to be sent.
Waits(i) ==
    \/ lgUpload = Null
    \/ lgUpload.stage \in {"saved", "save"}
    \/ i > lgUpload.size
    \/ lgUpload.stage = "buffer" /\ i <= lgUpload.size - lgUpload.sent

Cells == Nat \cup {Zero}

LogTypes ==
    /\ lgBuffer \in Seq(Cells) /\ Len(lgBuffer) <= LogCap
    /\ lgSaved \in Seq(Nat) /\ Len(lgSaved) <= SaveCap + LogCap
    /\ lgLogged \in Nat /\ lgFails \in Nat
    /\ \A i \in DOMAIN lgBuffer : lgBuffer[i] \in (1 .. lgLogged) \cup {Zero}
    /\ lgServer \subseteq 1 .. lgLogged /\ lgTwice \subseteq lgServer
    /\ \A i \in DOMAIN lgSaved : lgSaved[i] \in 1 .. lgLogged
    /\ lgUpload = Null \/ /\ lgUpload \in [stage : Log!Stages, size : Nat, sent : Nat]
                          /\ lgUpload.size <= Len(lgBuffer)
                          /\ lgUpload.stage = "buffer" => lgUpload.sent <= lgUpload.size
                          /\ lgUpload.stage = "save" => lgUpload.sent = 0
                          /\ lgUpload.stage = "saved" => lgUpload.sent <= Len(lgSaved)
                          /\ lgUpload.sent <= SaveCap + LogCap

LogKept ==
    /\ \A i \in DOMAIN lgBuffer : Waits(i) => lgBuffer[i] # Zero
    /\ \A l \in 1 .. lgLogged :
         \/ l \in lgGone \cup lgServer
         \/ \E i \in DOMAIN lgSaved : lgSaved[i] = l
         \/ \E i \in DOMAIN lgBuffer : Waits(i) /\ lgBuffer[i] = l
    /\ lgUpload # Null /\ lgUpload.stage = "saved" =>
         \A i \in DOMAIN lgSaved : i <= lgUpload.sent => lgSaved[i] \in lgServer

LogOrder ==
    lgFails = 0 =>
        /\ lgSaved = <<>> /\ lgTwice = {}
        /\ lgUpload = Null \/ lgUpload.stage \in {"buffer", "finish"}
        /\ \A i, j \in DOMAIN lgBuffer :
             i < j /\ Waits(i) /\ Waits(j) => lgBuffer[i] < lgBuffer[j]
        /\ \A i \in DOMAIN lgBuffer, line \in lgServer : Waits(i) => line < lgBuffer[i]

LogInv == LogTypes /\ LogKept /\ LogOrder

LEMMA LogInit == Log!Init => LogInv
  <1> SUFFICES ASSUME Log!Init PROVE LogInv
    OBVIOUS
  <1>1. lgBuffer = <<>> /\ lgSaved = <<>> /\ Len(lgBuffer) = 0 /\ Len(lgSaved) = 0 /\ DOMAIN lgBuffer = {}
        /\ DOMAIN lgSaved = {}
    BY DEF Log!Init
  <1>2. lgBuffer \in Seq(Cells) /\ lgSaved \in Seq(Nat)
    BY <1>1
  <1> QED
    BY <1>1, <1>2, LogAssumption DEF Log!Init, LogInv, LogTypes, LogKept, LogOrder

LEMMA LogMeans == LogInv => Log!TypeOK /\ Log!NoLineVanishes /\ Log!ServerInOrder
  <1> SUFFICES ASSUME LogInv PROVE Log!TypeOK /\ Log!NoLineVanishes /\ Log!ServerInOrder
    OBVIOUS
  <1>1. Log!TypeOK
    BY LogAssumption DEF LogInv, LogTypes, Log!Stages, Log!TypeOK, Log!LinesOf
  <1>2. \A l \in 1 .. lgLogged : l # Zero
    BY NoUploadAssumption DEF LogInv, LogTypes
  <1>3. Log!NoLineVanishes
    BY <1>2 DEF LogInv, LogKept, Log!NoLineVanishes, Log!LinesOf
  <1>4. Log!ServerInOrder
    <2> SUFFICES ASSUME lgFails = 0, NEW line \in lgServer, NEW k \in 1 .. line
                 PROVE  lgTwice = {} /\ k \in lgServer \cup lgGone
      BY DEF Log!ServerInOrder, LogInv, LogOrder
    <2>1. lgSaved = <<>> /\ lgTwice = {} /\ k \in 1 .. lgLogged /\ ~(line < k)
      BY DEF LogInv, LogTypes, LogOrder
    <2>2. ~\E i \in DOMAIN lgBuffer : Waits(i) /\ lgBuffer[i] = k
      BY <2>1 DEF LogInv, LogOrder
    <2>3. ~\E i \in DOMAIN lgSaved : lgSaved[i] = k
      BY <2>1
    <2> QED
      BY <2>1, <2>2, <2>3 DEF LogInv, LogKept
  <1> QED
    BY <1>1, <1>3, <1>4

\* Only the upload of the lines that are saved, or of no line of the buffer, changes.
LEMMA LogBufferKept ==
    ASSUME LogInv, LogTypes', UNCHANGED <<lgBuffer, lgLogged, lgFails>>,
           lgGone \subseteq lgGone',
           \A i \in DOMAIN lgBuffer : Waits(i)' <=> Waits(i),
           lgServer \subseteq lgServer',
           \A i \in DOMAIN lgSaved : lgSaved[i] \in lgServer' \/ \E j \in DOMAIN lgSaved' : lgSaved'[j] = lgSaved[i],
           lgFails = 0 => /\ lgSaved' = <<>> /\ lgTwice' = {} /\ lgServer' = lgServer
                          /\ lgUpload' = Null \/ lgUpload'.stage \in {"buffer", "finish"},
           lgUpload' # Null /\ lgUpload'.stage = "saved" =>
             \A i \in DOMAIN lgSaved' : i <= lgUpload'.sent => lgSaved'[i] \in lgServer'
    PROVE  LogInv'
  <1>1. LogKept'
    BY DEF LogInv, LogTypes, LogKept
  <1>2. LogOrder'
    BY DEF LogInv, LogTypes, LogOrder
  <1> QED
    BY <1>1, <1>2 DEF LogInv

LEMMA LogAppends == LogInv /\ Log!AppendLine => LogInv'
  <1> SUFFICES ASSUME LogInv, Log!AppendLine PROVE LogInv'
    OBVIOUS
  <1> DEFINE line == lgLogged + 1
  <1>1. /\ line \in Nat /\ line > 0 /\ line # Zero /\ lgLogged' = line /\ \A l \in 1 .. line : l \in 1 .. lgLogged \/ l = line
        /\ UNCHANGED <<lgSaved, lgUpload, lgServer, lgTwice, lgFails>>
    BY NoUploadAssumption DEF Log!AppendLine, Log!lgReceived, LogInv, LogTypes
  <1>2. CASE Len(lgBuffer) < LogCap
    <2>1. lgBuffer' = Append(lgBuffer, line) /\ lgGone' = lgGone
      BY <1>2 DEF Log!AppendLine
    <2>2. /\ lgBuffer' \in Seq(Cells) /\ Len(lgBuffer') = Len(lgBuffer) + 1
          /\ lgBuffer'[Len(lgBuffer) + 1] = line
          /\ \A i \in DOMAIN lgBuffer : i \in DOMAIN lgBuffer' /\ lgBuffer'[i] = lgBuffer[i]
          /\ \A i \in DOMAIN lgBuffer' : i \in DOMAIN lgBuffer \/ i = Len(lgBuffer) + 1
          /\ Len(lgBuffer) + 1 \in DOMAIN lgBuffer'
      BY <1>1, <2>1 DEF LogInv, LogTypes, Cells
    <2>3. LogTypes'
      <3>1. \A i \in DOMAIN lgBuffer' : lgBuffer'[i] \in (1 .. lgLogged') \cup {Zero}
        BY <1>1, <2>2 DEF LogInv, LogTypes
      <3>2. Len(lgBuffer') <= LogCap /\ Len(lgBuffer) <= Len(lgBuffer')
        BY <1>2, <2>2, LogAssumption DEF LogInv, LogTypes
      <3>3. lgUpload # Null => lgUpload.size <= Len(lgBuffer')
        BY <2>2, <3>2 DEF LogInv, LogTypes
      <3>4. 1 .. lgLogged \subseteq 1 .. lgLogged'
        BY <1>1 DEF LogInv, LogTypes
      <3> QED
        BY <1>1, <2>2, <3>1, <3>2, <3>3, <3>4 DEF LogInv, LogTypes
    <2>4. \A i : Waits(i)' <=> Waits(i)
      BY <1>1 DEF Waits
    <2>5. Waits(Len(lgBuffer) + 1)
      BY DEF Waits, LogInv, LogTypes
    <2>6. LogKept'
      BY <1>1, <2>1, <2>2, <2>4, <2>5 DEF LogInv, LogKept, LogTypes
    <2>7. LogOrder'
      <3> SUFFICES ASSUME lgFails' = 0 PROVE LogOrder'
        BY DEF LogOrder
      <3>1. ASSUME NEW i \in DOMAIN lgBuffer', NEW j \in DOMAIN lgBuffer', i < j, Waits(i)', Waits(j)'
            PROVE  lgBuffer'[i] < lgBuffer'[j]
        <4>1. CASE j \in DOMAIN lgBuffer
          <5>1. i \in DOMAIN lgBuffer
            BY <2>2, <3>1, <4>1 DEF LogInv, LogTypes
          <5> QED
            BY <1>1, <2>2, <2>4, <3>1, <4>1, <5>1 DEF LogInv, LogOrder
        <4>2. CASE j = Len(lgBuffer) + 1
          <5>1. i \in DOMAIN lgBuffer
            BY <2>2, <3>1, <4>2 DEF LogInv, LogTypes
          <5>2. lgBuffer[i] \in 1 .. lgLogged
            BY <5>1, <2>4, <3>1 DEF LogInv, LogKept, LogTypes
          <5> QED
            BY <2>2, <4>2, <5>1, <5>2 DEF LogInv, LogTypes
        <4> QED
          BY <2>2, <4>1, <4>2
      <3>2. ASSUME NEW i \in DOMAIN lgBuffer', NEW l \in lgServer', Waits(i)' PROVE l < lgBuffer'[i]
        BY <1>1, <2>2, <2>4, <3>2 DEF LogInv, LogOrder, LogTypes
      <3> QED
        BY <1>1, <3>1, <3>2 DEF LogInv, LogOrder
    <2> QED
      BY <2>3, <2>6, <2>7 DEF LogInv
  <1>3. CASE ~(Len(lgBuffer) < LogCap)
    <2>1. lgBuffer' = lgBuffer /\ lgGone' = lgGone \cup {line}
      BY <1>3 DEF Log!AppendLine
    <2>2. \A i : Waits(i)' <=> Waits(i)
      BY <1>1 DEF Waits
    <2>3. LogTypes'
      BY <1>1, <2>1 DEF LogInv, LogTypes
    <2>4. LogKept'
      BY <1>1, <2>1, <2>2 DEF LogInv, LogKept
    <2>5. LogOrder'
      BY <1>1, <2>1, <2>2 DEF LogInv, LogOrder
    <2> QED
      BY <2>3, <2>4, <2>5 DEF LogInv
  <1> QED
    BY <1>2, <1>3

\* The buffer is emptied between two uploads.
LEMMA LogEmptied ==
    ASSUME LogInv, lgUpload = Null, lgBuffer' = <<>>, lgGone' = lgGone \cup Log!LinesOf(lgBuffer),
           UNCHANGED <<lgSaved, lgUpload, lgServer, lgTwice, lgLogged, lgFails>>
    PROVE  LogInv'
  <1>1. lgBuffer' \in Seq(Cells) /\ Len(lgBuffer') = 0 /\ DOMAIN lgBuffer' = {}
    OBVIOUS
  <1>2. LogTypes'
    BY <1>1, LogAssumption DEF LogInv, LogTypes
  <1>3. \A i \in DOMAIN lgBuffer : lgBuffer[i] # Zero => lgBuffer[i] \in lgGone'
    BY DEF Log!LinesOf
  <1>4. LogKept'
    BY <1>1, <1>3 DEF LogInv, LogKept
  <1>5. LogOrder'
    BY <1>1 DEF LogInv, LogOrder
  <1> QED
    BY <1>2, <1>4, <1>5 DEF LogInv

LEMMA LogBegins == ASSUME LogInv, NEW forced, Log!BeginUpload(forced) PROVE LogInv'
  <1>1. /\ lgUpload = Null
        /\ lgUpload' = [stage |-> Log!StageFor(lgSaved), size |-> Len(lgBuffer), sent |-> 0]
        /\ UNCHANGED <<lgBuffer, lgSaved, lgServer, lgTwice, lgLogged, lgGone, lgFails>>
    BY DEF Log!BeginUpload, Log!lgReceived
  <1>2. Log!StageFor(lgSaved) \in {"saved", "buffer"} /\ (lgSaved = <<>> => Log!StageFor(lgSaved) = "buffer")
    BY DEF Log!StageFor
  <1>3. /\ lgUpload'.stage = Log!StageFor(lgSaved) /\ lgUpload'.size = Len(lgBuffer) /\ lgUpload'.sent = 0
        /\ lgUpload' \in [stage : Log!Stages, size : Nat, sent : Nat]
    BY <1>1, <1>2 DEF LogInv, LogTypes, Log!Stages
  <1>4. \A i \in DOMAIN lgBuffer : Waits(i)' /\ Waits(i)
    BY <1>1, <1>2, <1>3 DEF Waits, LogInv, LogTypes
  <1>5. LogTypes'
    BY <1>1, <1>2, <1>3, LogAssumption DEF LogInv, LogTypes
  <1>6. lgFails = 0 => lgSaved' = <<>> /\ lgTwice' = {} /\ lgUpload'.stage = "buffer"
    BY <1>1, <1>2, <1>3 DEF LogInv, LogOrder
  <1> QED
    BY <1>1, <1>3, <1>4, <1>5, <1>6, LogBufferKept DEF LogInv, LogTypes

\* The upload goes on with the buffer, or ends when there is nothing in it.
ToBuffer == lgUpload' = IF lgBuffer = <<>> THEN Null
                        ELSE [stage |-> "buffer", size |-> Len(lgBuffer), sent |-> 0]

LEMMA LogToBuffer ==
    ASSUME LogInv, lgUpload # Null, lgUpload.stage = "saved", ToBuffer
    PROVE  /\ \A i \in DOMAIN lgBuffer : Waits(i) /\ Waits(i)'
           /\ lgUpload' = Null \/ /\ lgUpload' \in [stage : Log!Stages, size : Nat, sent : Nat]
                                  /\ lgUpload'.size = Len(lgBuffer) /\ lgUpload'.sent = 0
                                  /\ lgUpload'.stage = "buffer"
  <1>1. CASE lgBuffer = <<>>
    BY <1>1 DEF ToBuffer, Waits
  <1>2. CASE lgBuffer # <<>>
    <2>1. /\ lgUpload' \in [stage : Log!Stages, size : Nat, sent : Nat]
          /\ lgUpload'.size = Len(lgBuffer) /\ lgUpload'.sent = 0
          /\ lgUpload'.stage = "buffer"
      BY <1>2 DEF ToBuffer, LogInv, LogTypes, Log!Stages
    <2> QED
      BY <2>1 DEF Waits, LogInv, LogTypes
  <1> QED
    BY <1>1, <1>2

\* The piece of the saved lines that is posted.
SavedLeft  == SubSeq(lgSaved, lgUpload.sent + 1, Len(lgSaved))
SavedPiece == Log!Piece(SavedLeft, Len(SavedLeft))

LEMMA LogSavedPiece ==
    ASSUME LogInv, lgUpload # Null, lgUpload.stage = "saved"
    PROVE  /\ Len(SavedPiece) \in Nat /\ lgUpload.sent + Len(SavedPiece) <= Len(lgSaved)
           /\ \A i \in DOMAIN lgSaved : lgUpload.sent < i /\ i <= lgUpload.sent + Len(SavedPiece)
                => lgSaved[i] \in Log!LinesOf(SavedPiece)
           /\ Log!LinesOf(SavedPiece) \subseteq 1 .. lgLogged
  <1> DEFINE n == Log!Lesser(PostCap, Len(SavedLeft))
             s == lgUpload.sent
  <1>1. s \in Nat /\ s <= Len(lgSaved) /\ lgSaved \in Seq(Nat) /\ Len(lgSaved) \in Nat
    BY DEF LogInv, LogTypes
  <1>2. /\ SavedLeft \in Seq(Nat) /\ Len(SavedLeft) = Len(lgSaved) - s
        /\ \A i \in 1 .. Len(lgSaved) - s : SavedLeft[i] = lgSaved[s + i]
    BY <1>1, RestPoints DEF SavedLeft
  <1>3. n \in Nat /\ n <= Len(SavedLeft)
    BY <1>1, <1>2, LogAssumption DEF Log!Lesser
  <1> HIDE DEF n
  <1>4. SavedPiece = SubSeq(SavedLeft, 1, n)
    BY DEF SavedPiece, Log!Piece, n
  <1>5. Len(SavedPiece) = n /\ SavedPiece \in Seq(Nat) /\ \A i \in 1 .. n : SavedPiece[i] = SavedLeft[i]
    BY <1>2, <1>3, <1>4, SubSeqPoints
  <1>6. \A i \in 1 .. n : SavedPiece[i] = lgSaved[s + i] /\ s + i \in DOMAIN lgSaved
    <2> TAKE i \in 1 .. n
    <2>1. n <= Len(lgSaved) - s
      BY <1>2, <1>3
    <2>2. i \in 1 .. Len(lgSaved) - s /\ s + i \in DOMAIN lgSaved
      BY <1>1, <1>3, <2>1
    <2> QED
      BY <1>2, <1>5, <2>2
  <1>7. \A i \in DOMAIN lgSaved : lgSaved[i] \in 1 .. lgLogged /\ lgSaved[i] # Zero
    BY NoUploadAssumption DEF LogInv, LogTypes
  <1>8. ASSUME NEW i \in DOMAIN lgSaved, s < i, i <= s + n PROVE lgSaved[i] \in Log!LinesOf(SavedPiece)
    <2>1. i - s \in 1 .. n /\ s + (i - s) = i
      BY <1>1, <1>3, <1>8
    <2>2. i - s \in DOMAIN SavedPiece /\ SavedPiece[i - s] = lgSaved[i]
      BY <1>5, <1>6, <2>1
    <2> QED
      BY <1>7, <2>2 DEF Log!LinesOf
  <1>9. Log!LinesOf(SavedPiece) \subseteq 1 .. lgLogged
    BY <1>5, <1>6, <1>7 DEF Log!LinesOf
  <1> QED
    BY <1>1, <1>2, <1>3, <1>5, <1>8, <1>9

LEMMA LogPostsSaved == ASSUME LogInv, Log!PostSaved PROVE LogInv'
  <1> DEFINE done == lgUpload.sent + Len(SavedPiece)
  <1>1. /\ lgUpload # Null /\ lgUpload.stage = "saved" /\ Log!Sent(SavedPiece)
        /\ UNCHANGED <<lgBuffer, lgLogged, lgGone, lgFails>>
        /\ IF done < Len(lgSaved) THEN lgUpload' = [lgUpload EXCEPT !.sent = done] /\ UNCHANGED lgSaved
           ELSE lgSaved' = <<>> /\ ToBuffer
    BY DEF Log!PostSaved, SavedPiece, SavedLeft, ToBuffer
  <1>2. lgFails # 0
    BY <1>1 DEF LogInv, LogOrder
  <1>3. done \in Nat /\ done <= Len(lgSaved)
    BY <1>1, LogSavedPiece DEF LogInv, LogTypes
  <1>4. \A i \in DOMAIN lgSaved : i <= done => lgSaved[i] \in lgServer'
    <2>1. lgServer \subseteq lgServer' /\ Log!LinesOf(SavedPiece) \subseteq lgServer'
      BY <1>1 DEF Log!Sent
    <2>2. \A i \in DOMAIN lgSaved : i \in Nat /\ (i <= lgUpload.sent \/ lgUpload.sent < i)
      BY <1>1 DEF LogInv, LogTypes
    <2> QED
      BY <1>1, <2>1, <2>2, LogSavedPiece DEF LogInv, LogKept
  <1>5. /\ lgServer \subseteq lgServer' /\ lgServer' \subseteq 1 .. lgLogged /\ lgTwice' \subseteq lgServer'
    BY <1>1, LogSavedPiece DEF Log!Sent, LogInv, LogTypes
  <1>6. CASE done < Len(lgSaved)
    <2>1. /\ lgUpload' # Null /\ lgUpload'.stage = "saved" /\ lgUpload'.sent = done /\ lgUpload'.size = lgUpload.size
          /\ lgUpload' \in [stage : Log!Stages, size : Nat, sent : Nat] /\ lgSaved' = lgSaved
      BY <1>1, <1>3, <1>6, NoUploadAssumption DEF LogInv, LogTypes
    <2>2. LogTypes'
      BY SMTT(30), <1>1, <1>3, <1>5, <2>1, LogAssumption DEF LogInv, LogTypes
    <2>3. \A i \in DOMAIN lgBuffer : Waits(i)' /\ Waits(i)
      BY <1>1, <2>1 DEF Waits
    <2> QED
      BY <1>1, <1>2, <1>4, <1>5, <2>1, <2>2, <2>3, LogBufferKept
  <1>7. CASE ~(done < Len(lgSaved))
    <2>1. lgSaved' = <<>> /\ ToBuffer /\ lgSaved' \in Seq(Nat) /\ Len(lgSaved') = 0 /\ DOMAIN lgSaved' = {}
      BY <1>1, <1>7
    <2>2. \A i \in DOMAIN lgSaved : lgSaved[i] \in lgServer'
      BY <1>3, <1>4, <1>7 DEF LogInv, LogTypes
    <2>3. LogTypes'
      <3>1. lgUpload' = Null \/ /\ lgUpload' \in [stage : Log!Stages, size : Nat, sent : Nat]
                                /\ lgUpload'.size = Len(lgBuffer) /\ lgUpload'.sent = 0
                                /\ lgUpload'.stage = "buffer"
        BY <1>1, <2>1, LogToBuffer
      <3>2. 0 <= SaveCap + LogCap
        BY LogAssumption
      <3> QED
        BY <1>1, <1>5, <2>1, <3>1, <3>2 DEF LogInv, LogTypes
    <2> QED
      BY <1>1, <1>2, <1>5, <2>1, <2>2, <2>3, LogToBuffer, LogBufferKept
  <1> QED
    BY <1>6, <1>7

LEMMA LogPostSavedFails == ASSUME LogInv, NEW reached, Log!PostSavedFails(reached) PROVE LogInv'
  <1>1. /\ lgUpload # Null /\ lgUpload.stage = "saved" /\ ToBuffer
        /\ Log!Sent(SavedPiece) \/ UNCHANGED <<lgServer, lgTwice>>
        /\ UNCHANGED <<lgBuffer, lgSaved, lgLogged, lgGone>>
        /\ lgFails' = lgFails + 1
    BY DEF Log!PostSavedFails, SavedPiece, SavedLeft, ToBuffer, Log!lgReceived, Log!Failed
  <1>2. lgServer \subseteq lgServer' /\ lgServer' \subseteq 1 .. lgLogged /\ lgTwice' \subseteq lgServer'
    BY <1>1, LogSavedPiece DEF Log!Sent, LogInv, LogTypes
  <1>3. LogTypes' /\ lgFails' # 0
    BY SMTT(30), <1>1, <1>2, LogToBuffer, LogAssumption DEF LogInv, LogTypes
  <1>4. LogKept'
    BY <1>1, <1>2, LogToBuffer DEF LogInv, LogTypes, LogKept
  <1> QED
    BY <1>3, <1>4 DEF LogInv, LogOrder


LEMMA LogSaves == ASSUME LogInv, NEW complete, Log!Save(complete) PROVE LogInv'
  <1> DEFINE z == lgUpload.size
             lines == SubSeq(lgBuffer, 1, z)
             kept == IF Len(lgSaved) + z > SaveCap THEN <<>> ELSE lgSaved
  <1>1. /\ lgUpload # Null /\ lgUpload.stage = "save" /\ z \in Nat /\ z <= Len(lgBuffer)
        /\ lgUpload' = [lgUpload EXCEPT !.stage = "finish"]
        /\ UNCHANGED <<lgBuffer, lgServer, lgTwice, lgLogged, lgFails>>
        /\ lgSaved' = IF complete THEN kept \o lines ELSE kept
        /\ lgGone' = lgGone \cup (IF Len(lgSaved) + z > SaveCap THEN Log!LinesOf(lgSaved) ELSE {})
                            \cup (IF complete THEN {} ELSE Log!LinesOf(lines))
    BY DEF Log!Save, Log!lgReceived, LogInv, LogTypes
  <1>2. lgFails # 0
    BY <1>1 DEF LogInv, LogOrder
  <1>3. \A i \in DOMAIN lgBuffer : Waits(i) /\ lgBuffer[i] \in 1 .. lgLogged /\ lgBuffer[i] # Zero
    BY <1>1 DEF Waits, LogInv, LogTypes, LogKept
  <1>4. /\ lines \in Seq(Cells) /\ Len(lines) = z /\ DOMAIN lines = 1 .. z
        /\ \A i \in 1 .. z : lines[i] = lgBuffer[i]
    BY <1>1, SubSeqPoints DEF LogInv, LogTypes
  <1>5. lines \in Seq(Nat)
    BY <1>1, <1>3, <1>4 DEF LogInv, LogTypes
  <1>6. /\ kept \in Seq(Nat) /\ Len(kept) + z <= SaveCap + LogCap
        /\ \A i \in DOMAIN kept : i \in DOMAIN lgSaved /\ kept[i] = lgSaved[i]
        /\ \A i \in DOMAIN lgSaved : i \in DOMAIN kept \/ lgSaved[i] \in lgGone'
    <2>1. \A i \in DOMAIN lgSaved : lgSaved[i] # Zero
      BY NoUploadAssumption DEF LogInv, LogTypes
    <2>2. CASE Len(lgSaved) + z > SaveCap
      <3>1. kept = <<>> /\ Log!LinesOf(lgSaved) \subseteq lgGone'
        BY <1>1, <2>2
      <3>2. \A i \in DOMAIN lgSaved : lgSaved[i] \in lgGone'
        BY <2>1, <3>1 DEF Log!LinesOf
      <3> HIDE DEF kept
      <3>3. kept \in Seq(Nat) /\ Len(kept) = 0 /\ DOMAIN kept = {}
        BY <3>1
      <3>4. z <= SaveCap + LogCap
        BY <1>1, LogAssumption DEF LogInv, LogTypes
      <3> QED
        BY <1>1, <3>2, <3>3, <3>4
    <2>3. CASE ~(Len(lgSaved) + z > SaveCap)
      <3>1. kept = lgSaved /\ Len(lgSaved) + z <= SaveCap
        BY <1>1, <2>3, LogAssumption DEF LogInv, LogTypes
      <3> HIDE DEF kept
      <3> QED
        BY <1>1, <3>1, LogAssumption DEF LogInv, LogTypes
    <2> QED
      BY <2>2, <2>3
  <1> HIDE DEF kept, lines
  <1>7. /\ lgSaved' \in Seq(Nat) /\ Len(lgSaved') <= SaveCap + LogCap
        /\ \A i \in DOMAIN lgSaved' : lgSaved'[i] \in 1 .. lgLogged
        /\ \A i \in DOMAIN kept : i \in DOMAIN lgSaved' /\ lgSaved'[i] = kept[i]
        /\ \A i \in 1 .. z : \/ lgBuffer[i] \in lgGone'
                             \/ \E j \in DOMAIN lgSaved' : lgSaved'[j] = lgBuffer[i]
    <2>0. /\ Len(kept) \in Nat /\ \A i \in DOMAIN kept : kept[i] \in 1 .. lgLogged
          /\ DOMAIN kept = 1 .. Len(kept)
      BY <1>6 DEF LogInv, LogTypes
    <2>1. CASE complete
      <3>1. lgSaved' = kept \o lines
        BY <1>1, <2>1
      <3>2. /\ lgSaved' \in Seq(Nat) /\ Len(lgSaved') = Len(kept) + z /\ DOMAIN lgSaved' = 1 .. Len(kept) + z
            /\ \A i \in 1 .. Len(kept) + z : lgSaved'[i] = IF i <= Len(kept) THEN kept[i] ELSE lines[i - Len(kept)]
        BY <1>4, <1>5, <1>6, <3>1, ConcatPoints
      <3>3. \A i \in DOMAIN kept : i \in DOMAIN lgSaved' /\ lgSaved'[i] = kept[i]
        BY <1>1, <2>0, <3>2
      <3>4. ASSUME NEW i \in 1 .. z
            PROVE  Len(kept) + i \in DOMAIN lgSaved' /\ lgSaved'[Len(kept) + i] = lgBuffer[i]
        <4>1. Len(kept) + i \in 1 .. Len(kept) + z /\ ~(Len(kept) + i <= Len(kept)) /\ (Len(kept) + i) - Len(kept) = i
          BY <1>1, <2>0
        <4> QED
          BY <1>4, <3>2, <4>1
      <3>5. ASSUME NEW i \in DOMAIN lgSaved' PROVE lgSaved'[i] \in 1 .. lgLogged
        <4>1. CASE i <= Len(kept)
          BY <2>0, <3>2, <4>1
        <4>2. CASE ~(i <= Len(kept))
          <5>1. i - Len(kept) \in 1 .. z /\ lgSaved'[i] = lines[i - Len(kept)]
            BY SMTT(30), <1>1, <2>0, <3>2, <4>2
          <5>2. i - Len(kept) \in DOMAIN lgBuffer
            BY <1>1, <5>1 DEF LogInv, LogTypes
          <5> QED
            BY <1>3, <1>4, <5>1, <5>2
        <4> QED
          BY <4>1, <4>2
      <3> QED
        BY <1>6, <3>2, <3>3, <3>4, <3>5
    <2>2. CASE ~complete
      <3>1. lgSaved' = kept /\ Log!LinesOf(lines) \subseteq lgGone'
        BY <1>1, <2>2
      <3>2. \A i \in 1 .. z : i \in DOMAIN lgBuffer
        BY <1>1 DEF LogInv, LogTypes
      <3>3. \A i \in 1 .. z : lgBuffer[i] \in lgGone'
        BY <1>3, <1>4, <3>1, <3>2 DEF Log!LinesOf
      <3>4. lgSaved' \in Seq(Nat) /\ Len(lgSaved') <= SaveCap + LogCap
        <4>1. z \in Nat /\ SaveCap + LogCap \in Nat /\ Len(kept) + z <= SaveCap + LogCap
          BY <1>1, <1>6, LogAssumption
        <4> HIDE DEF z
        <4> QED
          BY <1>6, <2>0, <3>1, <4>1
      <3>5. \A i \in DOMAIN kept : i \in DOMAIN lgSaved' /\ lgSaved'[i] = kept[i]
        BY <3>1
      <3>6. \A i \in DOMAIN lgSaved' : lgSaved'[i] \in 1 .. lgLogged
        BY <2>0, <3>1
      <3> QED
        BY <3>3, <3>4, <3>5, <3>6
    <2> QED
      BY <2>1, <2>2
  <1>8. /\ lgUpload' \in [stage : Log!Stages, size : Nat, sent : Nat]
        /\ lgUpload'.stage = "finish" /\ lgUpload'.size = z /\ lgUpload'.sent = lgUpload.sent
        /\ lgUpload' # Null
    BY <1>1, NoUploadAssumption DEF LogInv, LogTypes, Log!Stages
  <1>9. LogTypes'
    BY <1>1, <1>7, <1>8 DEF LogInv, LogTypes
  <1>10. \A i \in DOMAIN lgBuffer : (Waits(i)' <=> i > z) /\ i \in Nat /\ (i > z \/ i \in 1 .. z)
    BY <1>1, <1>8 DEF Waits, LogInv, LogTypes
  <1>11. lgGone \subseteq lgGone'
    BY <1>1
  <1>12. LogKept'
    <2>1. ASSUME NEW l \in 1 .. lgLogged
          PROVE  \/ l \in lgGone' \cup lgServer
                 \/ \E i \in DOMAIN lgSaved' : lgSaved'[i] = l
                 \/ \E i \in DOMAIN lgBuffer : Waits(i)' /\ lgBuffer[i] = l
      <3>1. CASE l \in lgGone \cup lgServer
        BY <1>11, <3>1
      <3>2. CASE \E i \in DOMAIN lgSaved : lgSaved[i] = l
        BY <1>6, <1>7, <3>2
      <3>3. ASSUME NEW i \in DOMAIN lgBuffer, lgBuffer[i] = l
            PROVE  \/ l \in lgGone'
                   \/ \E j \in DOMAIN lgSaved' : lgSaved'[j] = l
                   \/ \E j \in DOMAIN lgBuffer : Waits(j)' /\ lgBuffer[j] = l
        BY <1>7, <1>10, <3>3
      <3> QED
        BY <3>1, <3>2, <3>3 DEF LogInv, LogKept
    <2> QED
      BY <1>1, <1>3, <1>8, <2>1 DEF LogKept
  <1> QED
    BY <1>1, <1>2, <1>9, <1>12 DEF LogInv, LogOrder

LEMMA LogFinishes == ASSUME LogInv, Log!Finish PROVE LogInv'
  <1> DEFINE z == lgUpload.size
             n == Len(lgBuffer) - z
  <1>1. /\ lgUpload # Null /\ lgUpload.stage = "finish" /\ z \in Nat /\ z <= Len(lgBuffer)
        /\ lgBuffer' = SubSeq(lgBuffer, z + 1, Len(lgBuffer)) /\ lgUpload' = Null
        /\ UNCHANGED <<lgSaved, lgServer, lgTwice, lgLogged, lgGone, lgFails>>
    BY DEF Log!Finish, Log!NewLines, Log!lgReceived, LogInv, LogTypes
  <1>2. /\ lgBuffer' \in Seq(Cells) /\ Len(lgBuffer') = n /\ DOMAIN lgBuffer' = 1 .. n
        /\ \A i \in 1 .. n : lgBuffer'[i] = lgBuffer[z + i]
    BY <1>1, RestPoints DEF LogInv, LogTypes
  <1>3. n \in Nat /\ n <= Len(lgBuffer) /\ Len(lgBuffer) \in Nat /\ DOMAIN lgBuffer = 1 .. z + n
    BY <1>1 DEF LogInv, LogTypes
  <1> HIDE DEF z, n
  <1>4. \A i \in 1 .. n : /\ z + i \in DOMAIN lgBuffer /\ lgBuffer'[i] = lgBuffer[z + i]
                          /\ Waits(z + i) /\ Waits(i)'
    <2> TAKE i \in 1 .. n
    <2>1. z + i \in DOMAIN lgBuffer /\ z + i > z
      BY <1>1, <1>3
    <2> QED
      BY <1>1, <1>2, <2>1 DEF Waits, z
  <1>5. \A i \in DOMAIN lgBuffer : Waits(i) => i - z \in 1 .. n /\ z + (i - z) = i
    BY <1>1, <1>3 DEF Waits, z
  <1>6. LogTypes'
    <2>1. \A i \in DOMAIN lgBuffer' : lgBuffer'[i] \in (1 .. lgLogged) \cup {Zero}
      BY <1>2, <1>4 DEF LogInv, LogTypes
    <2>2. Len(lgBuffer') <= LogCap
      BY <1>2, <1>3, LogAssumption DEF LogInv, LogTypes
    <2> QED
      BY <1>1, <1>2, <2>1, <2>2 DEF LogInv, LogTypes
  <1>7. LogKept'
    <2>1. \A i \in DOMAIN lgBuffer : Waits(i) => \E j \in DOMAIN lgBuffer' : Waits(j)' /\ lgBuffer'[j] = lgBuffer[i]
      BY <1>2, <1>4, <1>5
    <2>2. \A i \in DOMAIN lgBuffer' : lgBuffer'[i] # Zero
      BY <1>2, <1>4 DEF LogInv, LogKept
    <2>3. ASSUME NEW l \in 1 .. lgLogged
          PROVE  \/ l \in lgGone \cup lgServer
                 \/ \E i \in DOMAIN lgSaved : lgSaved[i] = l
                 \/ \E i \in DOMAIN lgBuffer' : Waits(i)' /\ lgBuffer'[i] = l
      BY <2>1 DEF LogInv, LogKept
    <2> QED
      BY <1>1, <2>2, <2>3 DEF LogKept
  <1>8. LogOrder'
    <2>1. \A i, j \in 1 .. n : i < j => z + i < z + j
      BY <1>1, <1>3 DEF z
    <2> QED
      BY <1>1, <1>2, <1>4, <2>1 DEF LogInv, LogOrder
  <1> QED
    BY <1>6, <1>7, <1>8 DEF LogInv

\* Lines of the buffer were posted or given up, and those left moved to the front.
LEMMA LogShifts ==
    ASSUME LogInv, lgUpload # Null, lgUpload.stage = "buffer",
           NEW z, z = lgUpload.size, NEW left, left = z - lgUpload.sent,
           NEW n \in 0 .. left, UNCHANGED <<lgSaved, lgLogged>>,
           lgBuffer' \in Seq(Cells), Len(lgBuffer') = Len(lgBuffer),
           \A i \in DOMAIN lgBuffer : lgBuffer'[i] \in (1 .. lgLogged) \cup {Zero},
           \A i \in 1 .. left - n : lgBuffer'[i] = lgBuffer[n + i],
           \A i \in z + 1 .. Len(lgBuffer) : lgBuffer'[i] = lgBuffer[i],
           LogTypes',
           \A i \in DOMAIN lgBuffer : Waits(i)' <=> i <= left - n \/ i > z,
           lgUpload'.stage \in {"buffer", "finish"},
           lgServer \subseteq lgServer', lgGone \subseteq lgGone',
           \A i \in 1 .. n : lgBuffer[i] \in lgServer' \cup lgGone',
           lgFails' = 0 => /\ lgFails = 0
                           /\ lgServer' = lgServer \cup {lgBuffer[i] : i \in 1 .. n}
                           /\ lgTwice' = lgTwice \cup (lgServer \cap {lgBuffer[i] : i \in 1 .. n})
    PROVE  LogInv'
  <1>1. /\ z \in Nat /\ left \in Nat /\ left <= z /\ n \in Nat /\ n <= left /\ Len(lgBuffer) \in Nat
        /\ z <= Len(lgBuffer) /\ DOMAIN lgBuffer = 1 .. Len(lgBuffer) /\ DOMAIN lgBuffer' = DOMAIN lgBuffer
    BY DEF LogInv, LogTypes
  <1>2. \A i \in DOMAIN lgBuffer : Waits(i) <=> i <= left \/ i > z
    BY <1>1, NoUploadAssumption DEF Waits, LogInv, LogTypes
  <1> DEFINE from(i) == IF i > z THEN i ELSE n + i
  <1>3. \A i \in DOMAIN lgBuffer : Waits(i)' =>
            from(i) \in DOMAIN lgBuffer /\ Waits(from(i)) /\ lgBuffer'[i] = lgBuffer[from(i)] /\ from(i) > n
    <2> SUFFICES ASSUME NEW i \in DOMAIN lgBuffer, Waits(i)'
                 PROVE  from(i) \in DOMAIN lgBuffer /\ Waits(from(i)) /\ lgBuffer'[i] = lgBuffer[from(i)] /\ from(i) > n
      OBVIOUS
    <2>1. CASE i > z
      BY <1>1, <1>2, <2>1
    <2>2. CASE ~(i > z)
      <3>1. i \in 1 .. left - n /\ n + i \in DOMAIN lgBuffer /\ n + i <= left /\ n + i > n
        BY <1>1, <2>2
      <3> QED
        BY <1>2, <2>2, <3>1
    <2> QED
      BY <2>1, <2>2
  <1>4. \A i \in DOMAIN lgBuffer : Waits(i) /\ i > n => \E j \in DOMAIN lgBuffer : Waits(j)' /\ from(j) = i
    <2> SUFFICES ASSUME NEW i \in DOMAIN lgBuffer, Waits(i), i > n
                 PROVE  \E j \in DOMAIN lgBuffer : Waits(j)' /\ from(j) = i
      OBVIOUS
    <2>1. CASE i > z
      BY <1>1, <1>2, <2>1
    <2>2. CASE ~(i > z)
      <3>1. i - n \in DOMAIN lgBuffer /\ i - n <= left - n /\ n + (i - n) = i /\ ~(i - n > z)
        BY <1>1, <1>2, <2>2
      <3> QED
        BY <3>1
    <2> QED
      BY <2>1, <2>2
  <1>5. \A i, j \in DOMAIN lgBuffer : i < j /\ Waits(i)' /\ Waits(j)' => from(i) < from(j)
    BY <1>1
  <1> HIDE DEF from
  <1>6. LogKept'
    <2>1. \A i \in DOMAIN lgBuffer : Waits(i)' => lgBuffer'[i] # Zero
      BY <1>3 DEF LogInv, LogKept
    <2>2. \A i \in DOMAIN lgBuffer : Waits(i) => \/ lgBuffer[i] \in lgServer' \cup lgGone'
                                                 \/ \E j \in DOMAIN lgBuffer : Waits(j)' /\ lgBuffer'[j] = lgBuffer[i]
      <3> TAKE i \in DOMAIN lgBuffer
      <3>1. i \in 1 .. n \/ i > n
        BY <1>1
      <3> QED
        BY SMTT(30), <1>3, <1>4, <3>1
    <2>3. ASSUME NEW l \in 1 .. lgLogged
          PROVE  \/ l \in lgGone' \cup lgServer'
                 \/ \E i \in DOMAIN lgSaved : lgSaved[i] = l
                 \/ \E i \in DOMAIN lgBuffer : Waits(i)' /\ lgBuffer'[i] = l
      BY <2>2 DEF LogInv, LogKept
    <2> QED
      BY <1>1, <2>1, <2>3 DEF LogKept
  <1>7. LogOrder'
    <2> SUFFICES ASSUME lgFails' = 0 PROVE LogOrder'
      BY DEF LogOrder
    <2>0. \A i \in 1 .. n : i \in DOMAIN lgBuffer /\ Waits(i)
      BY SMTT(30), <1>1, <1>2
    <2>1. /\ lgSaved = <<>> /\ lgTwice = {} /\ lgServer \subseteq Nat
          /\ \A i, j \in DOMAIN lgBuffer :
               i < j /\ Waits(i) /\ Waits(j) => lgBuffer[i] < lgBuffer[j]
          /\ \A i \in DOMAIN lgBuffer, line \in lgServer : Waits(i) => line < lgBuffer[i]
      BY DEF LogInv, LogOrder, LogTypes
    <2>2. lgTwice' = {}
      <3>1. \A line \in lgServer, i \in 1 .. n : line \in Nat /\ line < lgBuffer[i]
        BY <2>0, <2>1
      <3>2. \A line \in lgServer, i \in 1 .. n : line # lgBuffer[i]
        BY <3>1
      <3>3. lgServer \cap {lgBuffer[i] : i \in 1 .. n} = {}
        BY <3>2
      <3> QED
        BY <2>1, <3>3
    <2>3. \A i, j \in DOMAIN lgBuffer : i < j /\ Waits(i)' /\ Waits(j)' => lgBuffer'[i] < lgBuffer'[j]
      BY <1>3, <1>5, <2>1
    <2>4. ASSUME NEW i \in DOMAIN lgBuffer, NEW line \in lgServer', Waits(i)' PROVE line < lgBuffer'[i]
      <3>1. CASE line \in lgServer
        BY <1>3, <2>1, <2>4, <3>1
      <3>2. CASE \E j \in 1 .. n : line = lgBuffer[j]
        <4>1. PICK j \in 1 .. n : line = lgBuffer[j]
          BY <3>2
        <4>2. from(i) \in DOMAIN lgBuffer /\ j < from(i)
          BY <1>1, <1>3, <2>4
        <4> QED
          BY <1>3, <2>0, <2>1, <2>4, <4>1, <4>2
      <3> QED
        BY <3>1, <3>2
    <2> QED
      BY <1>1, <2>1, <2>2, <2>3, <2>4 DEF LogOrder
  <1> QED
    BY <1>6, <1>7 DEF LogInv

\* The piece of the buffer that is posted.
BufferPiece == Log!Piece(lgBuffer, lgUpload.size - lgUpload.sent)

LEMMA LogBufferPiece ==
    ASSUME LogInv, lgUpload # Null, lgUpload.stage = "buffer"
    PROVE  /\ Len(BufferPiece) \in 0 .. lgUpload.size - lgUpload.sent
           /\ Len(BufferPiece) = Log!Lesser(PostCap, lgUpload.size - lgUpload.sent)
           /\ Log!LinesOf(BufferPiece) = {lgBuffer[i] : i \in 1 .. Len(BufferPiece)}
           /\ Log!LinesOf(BufferPiece) \subseteq 1 .. lgLogged
  <1> DEFINE left == lgUpload.size - lgUpload.sent
             n == Log!Lesser(PostCap, left)
  <1>1. left \in Nat /\ left <= Len(lgBuffer) /\ lgBuffer \in Seq(Cells) /\ Len(lgBuffer) \in Nat
    BY DEF LogInv, LogTypes
  <1>2. n \in Nat /\ n <= left
    BY <1>1, LogAssumption DEF Log!Lesser
  <1>3. BufferPiece = SubSeq(lgBuffer, 1, n)
    BY DEF BufferPiece, Log!Piece
  <1>4. \A i \in 1 .. left : i \in DOMAIN lgBuffer /\ lgBuffer[i] # Zero /\ lgBuffer[i] \in 1 .. lgLogged
    BY <1>1 DEF LogInv, LogTypes, LogKept, Waits
  <1> HIDE DEF n
  <1>5. Len(BufferPiece) = n /\ DOMAIN BufferPiece = 1 .. n /\ \A i \in 1 .. n : BufferPiece[i] = lgBuffer[i]
    BY <1>1, <1>2, <1>3, SubSeqPoints
  <1>6. \A i \in 1 .. n : BufferPiece[i] = lgBuffer[i] /\ BufferPiece[i] # Zero /\ BufferPiece[i] \in 1 .. lgLogged
    BY <1>1, <1>2, <1>4, <1>5
  <1>7. Log!LinesOf(BufferPiece) = {lgBuffer[i] : i \in 1 .. n}
    BY <1>5, <1>6 DEF Log!LinesOf
  <1>8. Log!LinesOf(BufferPiece) \subseteq 1 .. lgLogged
    BY <1>5, <1>6 DEF Log!LinesOf
  <1> QED
    BY <1>1, <1>2, <1>5, <1>7, <1>8 DEF n

LEMMA LogForward ==
    ASSUME LogInv, lgUpload # Null, lgUpload.stage = "buffer",
           NEW z, z = lgUpload.size, NEW left, left = z - lgUpload.sent, NEW n \in 0 .. left
    PROVE  /\ Log!Forward(n) \in Seq(Cells) /\ Len(Log!Forward(n)) = Len(lgBuffer)
           /\ \A i \in DOMAIN lgBuffer : Log!Forward(n)[i] \in (1 .. lgLogged) \cup {Zero}
           /\ \A i \in 1 .. left - n : Log!Forward(n)[i] = lgBuffer[n + i]
           /\ \A i \in z + 1 .. Len(lgBuffer) : Log!Forward(n)[i] = lgBuffer[i]
  <1> DEFINE k == left - n
             front == SubSeq(lgBuffer, n + 1, n + k)
             zeros == Log!Zeros(lgUpload.sent + n)
             rest == SubSeq(lgBuffer, z + 1, Len(lgBuffer))
             all == (front \o zeros) \o rest
             total == Len(lgBuffer)
  <1>1. /\ z \in Nat /\ left \in Nat /\ left <= z /\ n \in Nat /\ n <= left /\ total \in Nat /\ z <= total
        /\ k \in Nat /\ lgBuffer \in Seq(Cells) /\ lgUpload.sent + n = z - k /\ z - k \in Nat
        /\ n + k <= total /\ DOMAIN lgBuffer = 1 .. total
    BY SMTT(30) DEF LogInv, LogTypes
  <1>2. Log!Forward(n) = all
    <2>1. z - lgUpload.sent - n = k
      BY <1>1 DEF LogInv, LogTypes
    <2> QED
      BY <2>1 DEF Log!Forward
  <1> HIDE DEF k, total
  <1>3. /\ front \in Seq(Cells) /\ Len(front) = k /\ \A i \in 1 .. k : front[i] = lgBuffer[n + i]
    <2>4. n + 1 \in Nat \ {0} /\ n + k \in Nat /\ n + k <= Len(lgBuffer) /\ n + 1 <= (n + k) + 1
      BY <1>1 DEF total
    <2>1. /\ front \in Seq(Cells) /\ Len(front) = (n + k) + 1 - (n + 1)
          /\ \A i \in 1 .. (n + k) + 1 - (n + 1) : front[i] = lgBuffer[(n + 1) + i - 1]
      <3>1. lgBuffer \in Seq(Cells)
        BY <1>1
      <3> QED
        BY <3>1, <2>4, SubSeqPoints
    <2>2. (n + k) + 1 - (n + 1) = k
      BY <1>1
    <2>3. \A i \in 1 .. k : (n + 1) + i - 1 = n + i
      BY <1>1
    <2> HIDE DEF front
    <2> QED
      BY <2>1, <2>2, <2>3
  <1>4. /\ zeros \in Seq(Cells) /\ Len(zeros) = z - k /\ \A i \in 1 .. z - k : zeros[i] = Zero
    BY <1>1 DEF Log!Zeros, Cells
  <1>5. /\ rest \in Seq(Cells) /\ Len(rest) = total - z /\ \A i \in 1 .. total - z : rest[i] = lgBuffer[z + i]
    <2>1. lgBuffer \in Seq(Cells) /\ z \in Nat /\ z <= Len(lgBuffer)
      BY <1>1 DEF total
    <2> QED
      BY <2>1, RestPoints DEF total
  <1> HIDE DEF front, zeros, rest
  <1>6. /\ front \o zeros \in Seq(Cells) /\ Len(front \o zeros) = z
        /\ \A i \in 1 .. z : (front \o zeros)[i] = IF i <= k THEN front[i] ELSE zeros[i - k]
    <2>1. k + (z - k) = z
      BY <1>1
    <2>2. front \o zeros \in Seq(Cells) /\ Len(front \o zeros) = k + (z - k)
      BY <1>3, <1>4, ConcatPoints
    <2>3. \A i \in 1 .. k + (z - k) : (front \o zeros)[i] = IF i <= k THEN front[i] ELSE zeros[i - k]
      BY SMTT(30), <1>3, <1>4, ConcatPoints
    <2> QED
      BY <2>1, <2>2, <2>3
  <1> DEFINE cleared == front \o zeros
  <1> HIDE DEF cleared
  <1>12. all = cleared \o rest /\ cleared = front \o zeros
    BY DEF cleared
  <1>7. /\ all \in Seq(Cells) /\ Len(all) = total
        /\ \A i \in 1 .. total : all[i] = IF i <= z THEN (front \o zeros)[i] ELSE rest[i - z]
    <2>1. z + (total - z) = total
      BY <1>1
    <2>4. cleared \in Seq(Cells) /\ Len(cleared) = z
      BY <1>6, <1>12
    <2>2. cleared \o rest \in Seq(Cells) /\ Len(cleared \o rest) = z + (total - z)
      BY <1>5, <2>4, ConcatPoints
    <2>3. \A i \in 1 .. z + (total - z) : (cleared \o rest)[i] = IF i <= z THEN cleared[i] ELSE rest[i - z]
      BY SMTT(30), <1>5, <1>6, <1>12, ConcatPoints
    <2> HIDE DEF all
    <2> QED
      BY <1>12, <2>1, <2>2, <2>3
  <1> HIDE DEF all
  <1>8. \A i \in 1 .. k : all[i] = lgBuffer[n + i]
    <2> TAKE i \in 1 .. k
    <2>1. i \in 1 .. total /\ i <= z /\ i \in 1 .. z /\ i <= k
      BY <1>1
    <2> QED
      BY <1>3, <1>6, <1>7, <2>1
  <1>9. \A i \in z + 1 .. total : all[i] = lgBuffer[i]
    <2> TAKE i \in z + 1 .. total
    <2>1. i \in 1 .. total /\ ~(i <= z) /\ i - z \in 1 .. total - z /\ z + (i - z) = i
      BY <1>1
    <2> QED
      BY <1>5, <1>7, <2>1
  <1>10. \A i \in k + 1 .. z : all[i] = Zero
    <2> TAKE i \in k + 1 .. z
    <2>1. i \in 1 .. total /\ i <= z /\ i \in 1 .. z /\ ~(i <= k) /\ i - k \in 1 .. z - k
      BY <1>1
    <2> QED
      BY <1>4, <1>6, <1>7, <2>1
  <1>11. \A i \in 1 .. total : all[i] \in (1 .. lgLogged) \cup {Zero}
    <2> TAKE i \in 1 .. total
    <2>1. i \in 1 .. k \/ i \in k + 1 .. z \/ i \in z + 1 .. total
      BY <1>1
    <2>2. i \in 1 .. k => n + i \in DOMAIN lgBuffer
      BY <1>1
    <2> QED
      BY <1>1, <1>8, <1>9, <1>10, <2>1, <2>2 DEF LogInv, LogTypes
  <1> QED
    BY <1>1, <1>2, <1>7, <1>8, <1>9, <1>11 DEF k, total

LEMMA LogPosts == ASSUME LogInv, Log!PostBuffer PROVE LogInv'
  <1> DEFINE z == lgUpload.size
             left == z - lgUpload.sent
             n == Len(BufferPiece)
             oneShot == lgUpload.sent = 0 /\ left <= PostCap
  <1>1. /\ lgUpload # Null /\ lgUpload.stage = "buffer" /\ Log!Sent(BufferPiece)
        /\ lgBuffer' = IF oneShot THEN lgBuffer ELSE Log!Forward(n)
        /\ lgUpload' = IF n < left THEN [lgUpload EXCEPT !.sent = @ + n] ELSE [lgUpload EXCEPT !.stage = "finish"]
        /\ UNCHANGED <<lgSaved, lgLogged, lgGone, lgFails>>
    BY DEF Log!PostBuffer, BufferPiece
  <1>2. /\ n \in 0 .. left /\ n = Log!Lesser(PostCap, left)
        /\ Log!LinesOf(BufferPiece) = {lgBuffer[i] : i \in 1 .. n}
        /\ Log!LinesOf(BufferPiece) \subseteq 1 .. lgLogged
    BY <1>1, LogBufferPiece
  <1>3. /\ lgUpload \in [stage : Log!Stages, size : Nat, sent : Nat] /\ z \in Nat /\ left \in Nat /\ z <= Len(lgBuffer)
        /\ Len(lgBuffer) <= LogCap /\ lgUpload.sent \in Nat /\ lgUpload.sent <= z
    BY <1>1 DEF LogInv, LogTypes
  <1>4. /\ lgUpload' \in [stage : Log!Stages, size : Nat, sent : Nat] /\ lgUpload' # Null
        /\ lgUpload'.size = z /\ lgUpload'.sent <= z
        /\ IF n < left THEN lgUpload'.stage = "buffer" /\ lgUpload'.sent = lgUpload.sent + n
           ELSE lgUpload'.stage = "finish"
    BY <1>1, <1>2, <1>3, NoUploadAssumption DEF Log!Stages
  <1>5. oneShot => n = left
    BY <1>2, <1>3, LogAssumption DEF Log!Lesser
  <1>6. /\ lgServer' = lgServer \cup {lgBuffer[i] : i \in 1 .. n}
        /\ lgTwice' = lgTwice \cup (lgServer \cap {lgBuffer[i] : i \in 1 .. n})
    BY <1>1, <1>2 DEF Log!Sent
  <1>7. /\ lgBuffer' \in Seq(Cells) /\ Len(lgBuffer') = Len(lgBuffer) /\ DOMAIN lgBuffer' = DOMAIN lgBuffer
        /\ \A i \in DOMAIN lgBuffer : lgBuffer'[i] \in (1 .. lgLogged) \cup {Zero}
        /\ \A i \in 1 .. left - n : lgBuffer'[i] = lgBuffer[n + i]
        /\ \A i \in z + 1 .. Len(lgBuffer) : lgBuffer'[i] = lgBuffer[i]
    <2>1. CASE oneShot
      <3>1. lgBuffer' = lgBuffer /\ left - n = 0
        BY <1>1, <1>3, <1>5, <2>1
      <3> QED
        BY <3>1, <1>3 DEF LogInv, LogTypes
    <2>2. CASE ~oneShot
      <3>1. lgBuffer' = Log!Forward(n)
        BY <1>1, <2>2
      <3>2. Len(lgBuffer') = Len(lgBuffer) /\ lgBuffer' \in Seq(Cells)
        BY <1>1, <1>2, <3>1, LogForward
      <3>3. DOMAIN lgBuffer' = DOMAIN lgBuffer
        BY <3>2 DEF LogInv, LogTypes
      <3> QED
        BY <1>1, <1>2, <3>1, <3>2, <3>3, LogForward
    <2> QED
      BY <2>1, <2>2
  <1>8. LogTypes'
    <2>1. lgServer' \subseteq 1 .. lgLogged /\ lgTwice' \subseteq lgServer'
      BY <1>2, <1>6 DEF LogInv, LogTypes
    <2>2. lgUpload'.sent <= SaveCap + LogCap
      BY <1>3, <1>4, LogAssumption
    <2> HIDE DEF z, left, n
    <2>3. lgUpload'.size <= Len(lgBuffer') /\ lgUpload'.sent <= lgUpload'.size /\ lgUpload'.stage \notin {"save", "saved"}
      BY <1>3, <1>4, <1>7
    <2> QED
      BY <1>1, <1>3, <1>4, <1>7, <2>1, <2>2, <2>3 DEF LogInv, LogTypes
  <1>9. \A i \in DOMAIN lgBuffer : Waits(i)' <=> i <= left - n \/ i > z
    <2> SUFFICES ASSUME NEW i \in DOMAIN lgBuffer PROVE Waits(i)' <=> i <= left - n \/ i > z
      OBVIOUS
    <2>0. i \in Nat /\ i > 0
      BY DEF LogInv, LogTypes
    <2>1. CASE n < left
      <3>1. z - (lgUpload.sent + n) = left - n
        BY <1>2, <1>3
      <3>2. lgUpload'.stage = "buffer" /\ lgUpload'.sent = lgUpload.sent + n /\ lgUpload'.size = z /\ lgUpload' # Null
        BY <1>4, <2>1
      <3> QED
        BY <3>1, <3>2 DEF Waits
    <2>2. CASE ~(n < left)
      <3>1. left - n = 0
        BY <1>2, <1>3, <2>2
      <3>2. lgUpload'.stage = "finish" /\ lgUpload'.size = z /\ lgUpload' # Null
        BY <1>4, <2>2
      <3> QED
        BY <2>0, <3>1, <3>2 DEF Waits
    <2> QED
      BY <2>1, <2>2
  <1>10. lgUpload'.stage \in {"buffer", "finish"}
    BY <1>4
  <1> HIDE DEF z, left, n, oneShot
  <1>11. \A i \in 1 .. n : lgBuffer[i] \in lgServer' \cup lgGone'
    BY <1>6
  <1>12. lgServer \subseteq lgServer' /\ lgGone \subseteq lgGone' /\ UNCHANGED <<lgSaved, lgLogged, lgFails>>
    BY <1>1, <1>6
  <1>13. z = lgUpload.size /\ left = z - lgUpload.sent
    BY DEF z, left
  <1> QED
    BY <1>1, <1>2, <1>6, <1>7, <1>8, <1>9, <1>10, <1>11, <1>12, <1>13, LogShifts

LEMMA LogPostFails == ASSUME LogInv, NEW reached, Log!PostBufferFails(reached) PROVE LogInv'
  <1> DEFINE z == lgUpload.size
             left == z - lgUpload.sent
             rest == Len(lgBuffer) - z
  <1>1. /\ lgUpload # Null /\ lgUpload.stage = "buffer"
        /\ Log!Sent(BufferPiece) \/ UNCHANGED <<lgServer, lgTwice>>
        /\ UNCHANGED <<lgSaved, lgLogged>>
        /\ lgFails' = lgFails + 1
        /\ IF SaveEnabled
           THEN /\ lgBuffer' = SubSeq(lgBuffer, 1, left) \o SubSeq(lgBuffer, z + 1, Len(lgBuffer))
                /\ lgUpload' = [stage |-> "save", size |-> Len(lgBuffer'), sent |-> 0]
                /\ lgGone' = lgGone
           ELSE /\ lgUpload' = [lgUpload EXCEPT !.stage = "finish"]
                /\ lgGone' = lgGone \cup Log!LinesOf(SubSeq(lgBuffer, 1, left))
                /\ lgBuffer' = lgBuffer
    BY DEF Log!PostBufferFails, Log!Unsent, Log!NewLines, Log!Failed, Log!lgReceived, BufferPiece
  <1>2. /\ lgUpload \in [stage : Log!Stages, size : Nat, sent : Nat] /\ z \in Nat /\ left \in Nat /\ z <= Len(lgBuffer)
        /\ Len(lgBuffer) <= LogCap /\ lgUpload.sent \in Nat /\ left <= z /\ rest \in Nat /\ left + rest <= LogCap
        /\ DOMAIN lgBuffer = 1 .. Len(lgBuffer) /\ lgBuffer \in Seq(Cells) /\ z + rest = Len(lgBuffer)
    <2>1. /\ lgUpload \in [stage : Log!Stages, size : Nat, sent : Nat] /\ z <= Len(lgBuffer)
          /\ Len(lgBuffer) <= LogCap /\ lgUpload.sent <= z /\ lgBuffer \in Seq(Cells)
      BY <1>1 DEF LogInv, LogTypes
    <2>2. LogCap \in Nat /\ Len(lgBuffer) \in Nat /\ z \in Nat /\ lgUpload.sent \in Nat
      BY <2>1, LogAssumption
    <2> QED
      BY <2>1, <2>2
  <1>3. lgFails' \in Nat /\ lgFails' # 0
    BY SMTT(30), <1>1 DEF LogInv, LogTypes
  <1>4. lgServer \subseteq lgServer' /\ lgServer' \subseteq 1 .. lgLogged /\ lgTwice' \subseteq lgServer'
    BY <1>1, LogBufferPiece DEF Log!Sent, LogInv, LogTypes
  <1>5. \A i \in DOMAIN lgBuffer : Waits(i) <=> i <= left \/ i > z
    BY <1>1, <1>2, NoUploadAssumption DEF Waits
  <1> HIDE DEF z, left, rest
  <1>6. \A i \in 1 .. left : i \in DOMAIN lgBuffer /\ Waits(i) /\ lgBuffer[i] # Zero
    BY SMTT(30), <1>2, <1>5 DEF LogInv, LogKept
  <1>7. CASE SaveEnabled
    <2> DEFINE front == SubSeq(lgBuffer, 1, left)
               back == SubSeq(lgBuffer, z + 1, Len(lgBuffer))
    <2>1. front \in Seq(Cells) /\ Len(front) = left /\ \A i \in 1 .. left : front[i] = lgBuffer[i]
      BY <1>2, SubSeqPoints
    <2>2. back \in Seq(Cells) /\ Len(back) = rest /\ \A i \in 1 .. rest : back[i] = lgBuffer[z + i]
      BY <1>2, RestPoints DEF rest
    <2>3. lgBuffer' = front \o back
      BY <1>1, <1>7
    <2> HIDE DEF front, back
    <2>4. /\ lgBuffer' \in Seq(Cells) /\ Len(lgBuffer') = left + rest /\ DOMAIN lgBuffer' = 1 .. left + rest
          /\ \A i \in 1 .. left + rest : lgBuffer'[i] = IF i <= left THEN front[i] ELSE back[i - left]
      BY SMTT(30), <2>1, <2>2, <2>3, ConcatPoints
    <2>5. /\ lgUpload' \in [stage : Log!Stages, size : Nat, sent : Nat] /\ lgUpload'.stage = "save"
          /\ lgUpload'.size = Len(lgBuffer') /\ lgUpload'.sent = 0 /\ lgUpload' # Null
      <3>1. lgUpload' = [stage |-> "save", size |-> Len(lgBuffer'), sent |-> 0]
        BY <1>1, <1>7
      <3>2. Len(lgBuffer') \in Nat
        BY <2>4
      <3>3. lgUpload' \in [stage : Log!Stages, size : Nat, sent : Nat]
        BY <3>1, <3>2 DEF Log!Stages
      <3>4. lgUpload' # Null
        BY <3>3, NoUploadAssumption
      <3> QED
        BY <3>1, <3>3, <3>4
    <2>6. \A i \in DOMAIN lgBuffer' : Waits(i)'
      BY <2>5 DEF Waits
    <2>7. \A i \in 1 .. left + rest : \E j \in DOMAIN lgBuffer : Waits(j) /\ lgBuffer'[i] = lgBuffer[j]
      <3> TAKE i \in 1 .. left + rest
      <3>1. CASE i <= left
        <4>1. i \in 1 .. left
          BY <1>2, <3>1
        <4> QED
          BY <1>6, <2>1, <2>4, <3>1, <4>1
      <3>2. CASE ~(i <= left)
        <4>1. i - left \in 1 .. rest /\ z + (i - left) \in DOMAIN lgBuffer /\ z + (i - left) > z
          BY <1>2, <3>2
        <4> QED
          BY <1>5, <2>2, <2>4, <3>2, <4>1
      <3> QED
        BY <3>1, <3>2
    <2>8. \A j \in DOMAIN lgBuffer : Waits(j) => \E i \in DOMAIN lgBuffer' : lgBuffer'[i] = lgBuffer[j]
      <3> SUFFICES ASSUME NEW j \in DOMAIN lgBuffer, Waits(j) PROVE \E i \in DOMAIN lgBuffer' : lgBuffer'[i] = lgBuffer[j]
        OBVIOUS
      <3>1. CASE j <= left
        <4>1. j \in 1 .. left /\ j \in 1 .. left + rest
          BY <1>2, <3>1
        <4> QED
          BY <2>1, <2>4, <3>1, <4>1
      <3>2. CASE ~(j <= left)
        <4>1. j - z \in 1 .. rest /\ left + (j - z) \in 1 .. left + rest /\ ~(left + (j - z) <= left)
              /\ (left + (j - z)) - left = j - z /\ z + (j - z) = j
          BY SMTT(30), <1>2, <1>5, <3>2
        <4> QED
          BY <2>2, <2>4, <4>1
      <3> QED
        BY <3>1, <3>2
    <2>9. LogTypes'
      <3>1. \A i \in DOMAIN lgBuffer' : lgBuffer'[i] \in (1 .. lgLogged) \cup {Zero}
        BY <2>4, <2>7 DEF LogInv, LogTypes
      <3>2. Len(lgBuffer') <= LogCap /\ 0 <= SaveCap + LogCap
        BY <1>2, <2>4, LogAssumption
      <3> QED
        BY SMTT(30), <1>1, <1>3, <1>4, <2>4, <2>5, <3>1, <3>2 DEF LogInv, LogTypes
    <2>10. LogKept'
      <3>1. \A i \in DOMAIN lgBuffer' : lgBuffer'[i] # Zero
        BY <2>4, <2>7 DEF LogInv, LogKept
      <3>2. ASSUME NEW l \in 1 .. lgLogged
            PROVE  \/ l \in lgGone' \cup lgServer'
                   \/ \E i \in DOMAIN lgSaved : lgSaved[i] = l
                   \/ \E i \in DOMAIN lgBuffer' : Waits(i)' /\ lgBuffer'[i] = l
        <4>1. lgGone' = lgGone
          BY <1>1, <1>7
        <4> QED
          BY <1>4, <2>6, <2>8, <4>1 DEF LogInv, LogKept
      <3> QED
        BY <1>1, <2>5, <3>1, <3>2 DEF LogKept
    <2> QED
      BY <1>3, <2>9, <2>10 DEF LogInv, LogOrder
  <1>8. CASE ~SaveEnabled
    <2> DEFINE front == SubSeq(lgBuffer, 1, left)
    <2>1. DOMAIN front = 1 .. left /\ \A i \in 1 .. left : front[i] = lgBuffer[i]
      BY <1>2, SubSeqPoints
    <2>2. /\ lgUpload' = [lgUpload EXCEPT !.stage = "finish"] /\ lgBuffer' = lgBuffer
          /\ lgGone' = lgGone \cup Log!LinesOf(front)
      BY <1>1, <1>8
    <2> HIDE DEF front
    <2>3. \A i \in 1 .. left : lgBuffer[i] \in lgGone'
      BY <1>6, <2>1, <2>2 DEF Log!LinesOf
    <2>4. /\ lgUpload' \in [stage : Log!Stages, size : Nat, sent : Nat] /\ lgUpload' # Null
          /\ lgUpload'.stage = "finish" /\ lgUpload'.size = lgUpload.size /\ lgUpload'.sent = lgUpload.sent
      BY <1>2, <2>2, NoUploadAssumption DEF Log!Stages
    <2>5. LogTypes'
      BY <1>1, <1>3, <1>4, <2>2, <2>4 DEF LogInv, LogTypes
    <2>6. \A i \in DOMAIN lgBuffer : (Waits(i)' <=> i > z) /\ (i \in 1 .. left \/ i > left)
      BY <1>2, <2>4 DEF Waits, z
    <2>7. LogKept'
      <3>1. \A i \in DOMAIN lgBuffer : Waits(i)' => lgBuffer'[i] # Zero
        BY <1>5, <2>2, <2>6 DEF LogInv, LogKept
      <3>2. ASSUME NEW l \in 1 .. lgLogged
            PROVE  \/ l \in lgGone' \cup lgServer'
                   \/ \E i \in DOMAIN lgSaved : lgSaved[i] = l
                   \/ \E i \in DOMAIN lgBuffer : Waits(i)' /\ lgBuffer[i] = l
        <4>1. lgGone \subseteq lgGone'
          BY <2>2
        <4>2. \A i \in DOMAIN lgBuffer : Waits(i) => Waits(i)' \/ lgBuffer[i] \in lgGone'
          BY <1>2, <1>5, <2>3, <2>6
        <4> QED
          BY <1>4, <4>1, <4>2 DEF LogInv, LogKept
      <3> QED
        BY <1>1, <2>2, <2>4, <3>1, <3>2 DEF LogKept
    <2> QED
      BY <1>3, <2>5, <2>7 DEF LogInv, LogOrder
  <1> QED
    BY <1>7, <1>8

LEMMA LogNext == LogInv /\ [Log!Next]_logVars => LogInv'
  <1> SUFFICES ASSUME LogInv, [Log!Next]_logVars PROVE LogInv'
    OBVIOUS
  <1>1. CASE UNCHANGED logVars
    BY <1>1 DEF logVars, LogInv, LogTypes, LogKept, LogOrder, Waits
  <1>2. ASSUME NEW disable, NEW clears, Log!LevelChanged(disable, clears) PROVE LogInv'
    <2>1. /\ lgUpload = Null /\ UNCHANGED <<lgSaved, lgUpload, lgServer, lgTwice, lgLogged, lgFails>>
          /\ \/ lgBuffer' = <<>> /\ lgGone' = lgGone \cup Log!LinesOf(lgBuffer)
             \/ UNCHANGED <<lgBuffer, lgGone>>
      BY <1>2 DEF Log!LevelChanged, Log!lgReceived
    <2>2. CASE UNCHANGED <<lgBuffer, lgGone>>
      BY <2>1, <2>2 DEF LogInv, LogTypes, LogKept, LogOrder, Waits
    <2> QED
      BY <2>1, <2>2, LogEmptied
  <1>3. CASE Log!DropLowBuffer
    BY <1>3, LogEmptied DEF Log!DropLowBuffer, Log!lgReceived
  <1>4. CASE Log!Upload
    BY <1>4, LogPostsSaved, LogPosts, LogFinishes, LogPostSavedFails, LogPostFails, LogSaves DEF Log!Upload
  <1> QED
    BY <1>1, <1>2, <1>3, <1>4, LogAppends, LogBegins DEF Log!Next

-----------------------------------------------------------------------------
(* The units of a file. *)

\* Consecutive units of the file, the first of them `from'.
Units(s, from) == s \in Seq(Nat) /\ \A i \in 1 .. Len(s) : s[i] = from + i - 1

\* What is saved is what was fetched of the range and all that is before it.
UrlRange ==
    /\ udHandle \in [offset : Nat, size : Nat, fetched : Nat, open : BOOLEAN, more : BOOLEAN, left : Nat]
    /\ udHandle.offset <= FileSize /\ udHandle.size <= SegmentSize /\ udHandle.fetched <= udHandle.size
    /\ udHandle.offset + udHandle.fetched = Len(udSaved) + udHandle.size
    /\ udHandle.fetched = udHandle.size => udHandle.offset = FileSize
    /\ udWire = Null => ~udHandle.open

\* An answer goes on where the file that is saved ends, or is too short to be read on.
UrlAnswer ==
    /\ udWire \in [head : BOOLEAN, garbled : BOOLEAN, body : Seq(Nat)]
    /\ ~udWire.garbled
    /\ udWire.head =>
         udHandle.fetched = 0 /\ Len(udWire.body) = udHandle.size /\ Units(udWire.body, Len(udSaved))
    /\ ~udWire.head /\ udHandle.fetched < udHandle.size =>
         /\ udHandle.more /\ udHandle.left = udHandle.size - udHandle.fetched
         /\ \/ Len(udWire.body) = udHandle.left /\ Units(udWire.body, Len(udSaved))
            \/ Len(udWire.body) < udHandle.left /\ udHandle.left <= BufCap

UrlInv ==
    ~udPaged =>
        /\ Units(udSaved, 0)
        /\ (udHandle = Null /\ udWire = Null) \/ UrlRange
        /\ udWire = Null \/ UrlAnswer

LEMMA UnitsTaken ==
    ASSUME NEW s, NEW t, Units(s, 0), Units(t, Len(s)), NEW k \in Nat, k <= Len(t)
    PROVE  Units(s \o SubSeq(t, 1, k), 0) /\ Len(s \o SubSeq(t, 1, k)) = Len(s) + k
  <1> DEFINE part == SubSeq(t, 1, k)
  <1>1. s \in Seq(Nat) /\ t \in Seq(Nat) /\ Len(s) \in Nat /\ Len(t) \in Nat
    BY DEF Units
  <1>2. part \in Seq(Nat) /\ Len(part) = k /\ \A i \in 1 .. k : part[i] = t[i]
    BY <1>1, SubSeqPoints
  <1> HIDE DEF part
  <1>3. /\ s \o part \in Seq(Nat) /\ Len(s \o part) = Len(s) + k
        /\ \A i \in 1 .. Len(s) + k : (s \o part)[i] = IF i <= Len(s) THEN s[i] ELSE part[i - Len(s)]
    <2>1. s \o part \in Seq(Nat) /\ Len(s \o part) = Len(s) + k
      <3>1. s \o part \in Seq(Nat) /\ Len(s \o part) = Len(s) + Len(part)
        <4>1. s \in Seq(Nat)
          BY <1>1
        <4>2. part \in Seq(Nat)
          BY <1>2
        <4> QED
          BY <4>1, <4>2
      <3> QED
        BY <3>1, <1>2
    <2>2. \A i \in 1 .. Len(s) + k : (s \o part)[i] = IF i <= Len(s) THEN s[i] ELSE part[i - Len(s)]
      BY <1>1, <1>2, ConcatPoints
    <2> QED
      BY <2>1, <2>2
  <1>4. ASSUME NEW i \in 1 .. Len(s) + k PROVE (s \o part)[i] = i - 1
    <2>1. CASE i <= Len(s)
      BY <1>1, <1>3, <2>1 DEF Units
    <2>2. CASE ~(i <= Len(s))
      <3>1. i - Len(s) \in 1 .. k /\ i - Len(s) \in 1 .. Len(t)
        BY <1>1, <2>2
      <3>2. t[i - Len(s)] = Len(s) + (i - Len(s)) - 1
        BY <3>1 DEF Units
      <3> QED
        BY <1>1, <1>2, <1>3, <2>2, <3>1, <3>2
    <2> QED
      BY <2>1, <2>2
  <1>5. Units(s \o part, 0)
    BY SMTT(30), <1>1, <1>3, <1>4 DEF Units
  <1> QED
    BY <1>3, <1>5 DEF part

LEMMA UnitsLeft ==
    ASSUME NEW t, NEW from \in Nat, Units(t, from), NEW k \in Nat, k <= Len(t)
    PROVE  Units(SubSeq(t, k + 1, Len(t)), from + k)
  <1>1. t \in Seq(Nat) /\ Len(t) \in Nat
    BY DEF Units
  <1> DEFINE part == SubSeq(t, k + 1, Len(t))
  <1>2. /\ part \in Seq(Nat) /\ Len(part) = Len(t) - k
        /\ \A i \in 1 .. Len(t) - k : part[i] = t[k + i]
    BY <1>1, RestPoints
  <1> HIDE DEF part
  <1>3. ASSUME NEW i \in 1 .. Len(part) PROVE part[i] = from + k + i - 1
    <2>1. k + i \in 1 .. Len(t) /\ i \in 1 .. Len(t) - k
      BY <1>1, <1>2
    <2> QED
      BY <1>2, <2>1 DEF Units
  <1>4. Units(part, from + k)
    BY <1>2, <1>3 DEF Units
  <1> QED
    BY <1>4 DEF part

\* The next range begins where the file that is saved ends.
LEMMA RangeFollows ==
    ASSUME NEW h \in [offset : Nat, size : Nat, fetched : Nat, open : BOOLEAN, more : BOOLEAN, left : Nat],
           h.offset < FileSize
    PROVE  LET r == Url!Ranged(h)
               a == Url!Answer(r, FALSE)
           IN  /\ r \in [offset : Nat, size : Nat, fetched : Nat, open : BOOLEAN, more : BOOLEAN, left : Nat]
               /\ r.offset <= FileSize /\ r.size <= SegmentSize /\ r.size > 0 /\ r.fetched = 0
               /\ r.offset = h.offset + r.size /\ r.open = h.open
               /\ a \in [head : BOOLEAN, garbled : BOOLEAN, body : Seq(Nat)]
               /\ a.head /\ ~a.garbled /\ Len(a.body) = r.size /\ Units(a.body, h.offset)
  <1> DEFINE n == Url!Lesser(SegmentSize, FileSize - h.offset)
             r == Url!Ranged(h)
             a == Url!Answer(r, FALSE)
  <1>1. h.offset \in Nat /\ n \in Nat /\ n > 0 /\ n <= SegmentSize /\ h.offset + n <= FileSize
    BY UrlAssumption DEF Url!Lesser
  <1>2. r = [h EXCEPT !.offset = h.offset + n, !.size = n, !.fetched = 0, !.more = FALSE, !.left = 0]
    BY DEF Url!Ranged
  <1>9. h.offset + n \in Nat
    BY <1>1
  <1> HIDE DEF n, r
  <1>3. /\ r \in [offset : Nat, size : Nat, fetched : Nat, open : BOOLEAN, more : BOOLEAN, left : Nat]
        /\ r.offset = h.offset + n /\ r.size = n /\ r.fetched = 0 /\ r.open = h.open
    BY <1>1, <1>2, <1>9
  <1> DEFINE body == [i \in 1 .. n |-> h.offset + i - 1]
  <1>4. body \in Seq(Nat) /\ Len(body) = n /\ \A i \in 1 .. n : body[i] = h.offset + i - 1
    BY <1>1
  <1>5. a = [head |-> TRUE, garbled |-> FALSE, body |-> [i \in 1 .. n |-> (h.offset + n) - n + i - 1]]
    BY <1>3 DEF Url!Answer
  <1>6. \A i \in 1 .. n : (h.offset + n) - n + i - 1 = h.offset + i - 1
    BY <1>1
  <1>7. a = [head |-> TRUE, garbled |-> FALSE, body |-> body]
    BY <1>5, <1>6
  <1> HIDE DEF body, a
  <1>8. /\ a \in [head : BOOLEAN, garbled : BOOLEAN, body : Seq(Nat)]
        /\ a.head /\ ~a.garbled /\ Len(a.body) = n /\ Units(a.body, h.offset)
    BY <1>4, <1>7 DEF Units
  <1> QED
    BY <1>1, <1>3, <1>8 DEF r, a
-----------------------------------------------------------------------------
LEMMA UrlInit == Url!Init => UrlInv
  <1> SUFFICES ASSUME Url!Init PROVE UrlInv
    OBVIOUS
  <1>1. udSaved = <<>> /\ udHandle = Null /\ udWire = Null
    BY DEF Url!Init
  <1>2. Units(udSaved, 0)
    BY <1>1 DEF Units
  <1> QED
    BY <1>1, <1>2 DEF UrlInv

\* Where the handle and the answer stay, but for whether the connection is open.
LEMMA UrlCloses ==
    ASSUME UrlInv, udHandle # Null, UNCHANGED <<udWire, udSaved, udPaged>>,
           udHandle' = [udHandle EXCEPT !.open = FALSE]
    PROVE  UrlInv'
  <1> SUFFICES ASSUME ~udPaged PROVE UrlInv'
    BY DEF UrlInv
  <1>1. UrlRange /\ Units(udSaved, 0) /\ (udWire = Null \/ UrlAnswer)
    BY DEF UrlInv
  <1>2. /\ udHandle' \in [offset : Nat, size : Nat, fetched : Nat, open : BOOLEAN, more : BOOLEAN, left : Nat]
        /\ udHandle'.offset = udHandle.offset /\ udHandle'.size = udHandle.size /\ ~udHandle'.open
        /\ udHandle'.fetched = udHandle.fetched /\ udHandle'.left = udHandle.left
    BY <1>1 DEF UrlRange
  <1>3. udHandle'.more = udHandle.more
    BY <1>1 DEF UrlRange
  <1>4. UrlRange'
    BY <1>1, <1>2 DEF UrlRange
  <1>5. udWire = Null \/ UrlAnswer'
    BY <1>1, <1>2, <1>3 DEF UrlAnswer
  <1> QED
    BY <1>1, <1>4, <1>5 DEF UrlInv

\* Before an answer is read nothing depends on is_more and retrieve_len.
LEMMA UrlWaits ==
    ASSUME UrlInv, udHandle # Null, udWire # Null, ~udPaged => udWire.head,
           UNCHANGED <<udWire, udSaved, udPaged>>,
           NEW more \in BOOLEAN, NEW left \in Nat,
           udHandle' = [udHandle EXCEPT !.more = more, !.left = left]
    PROVE  UrlInv'
  <1> SUFFICES ASSUME ~udPaged PROVE UrlInv'
    BY DEF UrlInv
  <1>1. UrlRange /\ Units(udSaved, 0) /\ UrlAnswer
    BY DEF UrlInv
  <1>2. /\ udHandle' \in [offset : Nat, size : Nat, fetched : Nat, open : BOOLEAN, more : BOOLEAN, left : Nat]
        /\ udHandle'.offset = udHandle.offset /\ udHandle'.size = udHandle.size
        /\ udHandle'.fetched = udHandle.fetched
    BY <1>1 DEF UrlRange
  <1>3. UrlRange'
    BY <1>1, <1>2 DEF UrlRange
  <1>4. UrlAnswer'
    BY <1>1, <1>2 DEF UrlAnswer
  <1> QED
    BY <1>1, <1>3, <1>4 DEF UrlInv

\* A fresh range, asked for where the file that is saved ends.
LEMMA UrlAsks ==
    ASSUME NEW h \in [offset : Nat, size : Nat, fetched : Nat, open : BOOLEAN, more : BOOLEAN, left : Nat],
           h.offset < FileSize, h.offset = Len(udSaved'), Units(udSaved, 0)',
           udHandle' = Url!Ranged(h), udWire' = Url!Answer(Url!Ranged(h), FALSE)
    PROVE  UrlRange' /\ UrlAnswer'
  <1> DEFINE r == Url!Ranged(h)
             a == Url!Answer(r, FALSE)
  <1>1. /\ r \in [offset : Nat, size : Nat, fetched : Nat, open : BOOLEAN, more : BOOLEAN, left : Nat]
        /\ r.offset <= FileSize /\ r.size <= SegmentSize /\ r.size > 0 /\ r.fetched = 0
        /\ r.offset = h.offset + r.size
    BY RangeFollows
  <1>2. /\ a \in [head : BOOLEAN, garbled : BOOLEAN, body : Seq(Nat)]
        /\ a.head /\ ~a.garbled /\ Len(a.body) = r.size /\ Units(a.body, h.offset)
    BY RangeFollows
  <1>3. udHandle' = r /\ udWire' = a
    OBVIOUS
  <1> HIDE DEF r, a
  <1>4. udWire' # Null
    BY <1>2, <1>3, NoTransferAssumption
  <1>5. UrlRange'
    <2>1. r.offset + r.fetched = Len(udSaved') + r.size /\ r.fetched # r.size /\ r.fetched <= r.size
      BY <1>1
    <2> QED
      BY <1>1, <1>3, <1>4, <2>1 DEF UrlRange
  <1>6. UrlAnswer'
    BY <1>1, <1>2, <1>3 DEF UrlAnswer
  <1> QED
    BY <1>5, <1>6

\* The same, when the request cannot be sent.
LEMMA UrlAsksInVain ==
    ASSUME NEW h \in [offset : Nat, size : Nat, fetched : Nat, open : BOOLEAN, more : BOOLEAN, left : Nat],
           h.offset < FileSize, h.offset = Len(udSaved'), Units(udSaved, 0)',
           udHandle' = [Url!Ranged(h) EXCEPT !.open = FALSE], udWire' = Null
    PROVE  UrlRange'
  <1> DEFINE r == Url!Ranged(h)
  <1>1. /\ r \in [offset : Nat, size : Nat, fetched : Nat, open : BOOLEAN, more : BOOLEAN, left : Nat]
        /\ r.offset <= FileSize /\ r.size <= SegmentSize /\ r.size > 0 /\ r.fetched = 0
        /\ r.offset = h.offset + r.size
    BY RangeFollows
  <1>2. udHandle' = [r EXCEPT !.open = FALSE]
    OBVIOUS
  <1> HIDE DEF r
  <1>3. /\ udHandle' \in [offset : Nat, size : Nat, fetched : Nat, open : BOOLEAN, more : BOOLEAN, left : Nat]
        /\ udHandle'.offset = r.offset /\ udHandle'.size = r.size /\ ~udHandle'.open
        /\ udHandle'.fetched = r.fetched
    BY <1>1, <1>2
  <1> QED
    BY <1>1, <1>3 DEF UrlRange

LEMMA UrlMeans == UrlInv => Url!ContentInOrder /\ Url!AnswersSeparate
  <1> SUFFICES ASSUME UrlInv, ~udPaged PROVE Url!ContentInOrder /\ Url!AnswersSeparate
    BY DEF Url!ContentInOrder, Url!AnswersSeparate
  <1>1. Units(udSaved, 0)
    BY DEF UrlInv
  <1>2. \A i \in DOMAIN udSaved : udSaved[i] = i - 1
    BY <1>1 DEF Units
  <1>3. udWire # Null => ~udWire.garbled
    BY DEF UrlInv, UrlAnswer
  <1> QED
    BY <1>2, <1>3 DEF Url!ContentInOrder, Url!AnswersSeparate

Sums(o, s, f, n, c, l) ==
    /\ f + c = s => c = l /\ o = n + c
    /\ f + c # s => c < l
    /\ f + c <= s /\ o + (f + c) = (n + c) + s /\ l - c = s - (f + c)

LEMMA DeliveredSums ==
    ASSUME NEW o \in Nat, NEW s \in Nat, NEW f \in Nat, NEW n \in Nat, NEW c \in Nat,
           NEW l \in Nat, o + f = n + s, l = s - f, c <= l
    PROVE  Sums(o, s, f, n, c, l)
  BY DEF Sums

\* What is delivered continues the file, and what is left of the answer continues that.
LEMMA UrlDelivers ==
    ASSUME UrlInv, ~udPaged, udHandle # Null, udWire # Null, Len(udSaved) < FileSize,
           NEW count \in Nat, NEW read \in Nat, NEW left \in Nat, NEW paged \in BOOLEAN,
           count <= Len(udWire.body), count <= read, read <= Len(udWire.body),
           Units(udWire.body, Len(udSaved)),
           left = udHandle.size - udHandle.fetched, count = Url!Lesser(BufCap, left),
           read = count => Len(udWire.body) = left,
           read > count => left - count <= BufCap /\ Len(udWire.body) = left /\ count < left,
           udPaged' = (udPaged \/ paged) \/ UNCHANGED udPaged,
           Url!Deliver(count, read, left, paged)
    PROVE  UrlInv'
  <1> SUFFICES ASSUME ~udPaged' PROVE UrlInv'
    BY DEF UrlInv
  <1> DEFINE h == [udHandle EXCEPT !.fetched = udHandle.fetched + count, !.left = left - count,
                                   !.more = (left >= BufCap)]
             body == SubSeq(udWire.body, read + 1, Len(udWire.body))
             rest == [udWire EXCEPT !.head = FALSE, !.body = body]
  <1>1. /\ udSaved' = udSaved \o SubSeq(udWire.body, 1, count)
        /\ IF h.fetched = h.size THEN Url!NextRange(h, rest, paged)
           ELSE udHandle' = h /\ udWire' = rest
    BY DEF Url!Deliver, Url!RangeDone
  <1>2. UrlRange /\ UrlAnswer /\ Units(udSaved, 0)
    BY DEF UrlInv
  <1>3. /\ udHandle.offset \in Nat /\ udHandle.size \in Nat /\ udHandle.fetched \in Nat
        /\ udHandle.offset <= FileSize /\ udHandle.size <= SegmentSize
        /\ udHandle.offset + udHandle.fetched = Len(udSaved) + udHandle.size /\ Len(udSaved) \in Nat
        /\ Len(udWire.body) \in Nat
    BY <1>2 DEF UrlRange, UrlAnswer, Units
  <1>4. count <= left /\ (count < left => count = BufCap) /\ BufCap \in Nat \ {0}
    BY UrlAssumption DEF Url!Lesser
  <1>0. udHandle.fetched + count \in Nat /\ left - count \in Nat
    BY SMTT(30), <1>3, <1>4
  <1>12. h \in [offset : Nat, size : Nat, fetched : Nat, open : BOOLEAN, more : BOOLEAN, left : Nat]
    <2>1. (left >= BufCap) \in BOOLEAN
      BY <1>3
    <2> QED
      BY <1>0, <1>2, <2>1 DEF UrlRange
  <1>5. /\ h.offset = udHandle.offset /\ h.size = udHandle.size /\ h.fetched = udHandle.fetched + count
        /\ h.left = left - count
    BY <1>2, <1>0 DEF UrlRange
  <1>6. h.more = (left >= BufCap)
    BY <1>2 DEF UrlRange
  <1>7. Units(udSaved', 0) /\ Len(udSaved') = Len(udSaved) + count
    BY <1>1, <1>2, UnitsTaken
  <1>8. Units(body, Len(udSaved) + read) /\ Len(body) = Len(udWire.body) - read
    <2>1. udWire.body \in Seq(Nat)
      BY DEF Units
    <2>2. Len(body) = Len(udWire.body) - read
      BY <2>1, RestPoints
    <2> QED
      BY <1>3, <2>2, UnitsLeft
  <1>9. /\ rest \in [head : BOOLEAN, garbled : BOOLEAN, body : Seq(Nat)] /\ rest.body = body
        /\ ~rest.head /\ ~rest.garbled
    BY <1>2, <1>8 DEF UrlAnswer, Units
  <1> HIDE DEF h, body, rest
  <1>13. /\ h.fetched = h.size => count = left /\ h.offset = Len(udSaved')
         /\ h.fetched # h.size => count < left
         /\ h.fetched <= h.size /\ h.offset + h.fetched = Len(udSaved') + h.size
         /\ h.left = h.size - h.fetched
    <2>1. /\ udHandle.fetched + count = udHandle.size => count = left /\ udHandle.offset = Len(udSaved) + count
          /\ udHandle.fetched + count # udHandle.size => count < left
          /\ udHandle.fetched + count <= udHandle.size
          /\ udHandle.offset + (udHandle.fetched + count) = (Len(udSaved) + count) + udHandle.size
          /\ left - count = udHandle.size - (udHandle.fetched + count)
      <3> DEFINE o == udHandle.offset
                 s == udHandle.size
                 f == udHandle.fetched
                 n == Len(udSaved)
      <3>1. o \in Nat /\ s \in Nat /\ f \in Nat /\ n \in Nat /\ o + f = n + s /\ left = s - f /\ count <= left
        BY <1>3, <1>4
      <3> HIDE DEF o, s, f, n
      <3>2. /\ f + count = s => count = left /\ o = n + count
            /\ f + count # s => count < left
            /\ f + count <= s /\ o + (f + count) = (n + count) + s /\ left - count = s - (f + count)
        <4>1. o \in Nat /\ s \in Nat /\ f \in Nat /\ n \in Nat /\ count \in Nat /\ left \in Nat
          BY <3>1
        <4>2. o + f = n + s /\ left = s - f /\ count <= left
          BY <3>1
        <4>3. Sums(o, s, f, n, count, left)
          BY <4>1, <4>2, DeliveredSums, Zenon
        <4> QED
          BY <4>3 DEF Sums
      <3> QED
        BY <3>2 DEF o, s, f, n
    <2> QED
      BY <1>5, <1>7, <2>1
  <1>10. CASE h.fetched = h.size
    <2>1. Url!NextRange(h, rest, paged)
      BY <1>1, <1>10
    <2>2. count = left /\ read = count /\ body = <<>>
      <3>1. count = left
        BY <1>10, <1>13
      <3>2. Len(body) = 0 /\ body \in Seq(Nat)
        BY SMTT(30), <1>3, <1>4, <1>8, <3>1 DEF Units
      <3> QED
        BY <3>1, <3>2, <1>4
    <2>3. h.offset = Len(udSaved')
      BY <1>10, <1>13
    <2>4. CASE h.offset = FileSize
      <3>1. udHandle' = h /\ udWire' = rest
        BY <2>1, <2>4 DEF Url!NextRange
      <3>2. UrlRange'
        <4>1. h.offset + h.fetched = Len(udSaved') + h.size /\ h.fetched <= h.size
              /\ h.offset <= FileSize /\ h.size <= SegmentSize
          BY <1>3, <1>5, <1>13
        <4>2. rest # Null
          BY <1>9, NoTransferAssumption
        <4> QED
          BY <1>12, <2>4, <3>1, <4>1, <4>2 DEF UrlRange
      <3>3. UrlAnswer'
        <4>1. ~(h.fetched < h.size)
          BY <1>3, <1>5, <1>10
        <4> QED
          BY <1>9, <3>1, <4>1 DEF UrlAnswer
      <3> QED
        BY <1>7, <3>2, <3>3 DEF UrlInv
    <2>5. CASE h.offset # FileSize
      <3>1. h.offset < FileSize
        BY <1>3, <1>5, <2>5, UrlAssumption
      <3>2. CASE /\ udHandle' = Url!Ranged(h) /\ udPaged' = (udPaged \/ paged)
                 /\ udWire' = [Url!Answer(Url!Ranged(h), paged) EXCEPT !.garbled = rest.body # <<>>]
        <4>1. paged = FALSE
          BY <3>2
        <4>2. udWire' = Url!Answer(Url!Ranged(h), FALSE)
          <5> DEFINE a == Url!Answer(Url!Ranged(h), FALSE)
          <5>1. a \in [head : BOOLEAN, garbled : BOOLEAN, body : Seq(Nat)] /\ ~a.garbled
            BY <1>12, <3>1, RangeFollows
          <5>2. udWire' = [a EXCEPT !.garbled = FALSE]
            BY <1>9, <2>2, <3>2, <4>1
          <5> HIDE DEF a
          <5>3. udWire' = a
            BY <5>1, <5>2
          <5> QED
            BY <5>3 DEF a
        <4> QED
          BY <1>12, <1>7, <2>3, <3>1, <3>2, <4>2, UrlAsks DEF UrlInv
      <3>3. CASE udHandle' = [Url!Ranged(h) EXCEPT !.open = FALSE] /\ udWire' = Null
        BY <1>12, <1>7, <2>3, <3>1, <3>3, UrlAsksInVain DEF UrlInv
      <3> QED
        BY <2>1, <2>5, <3>2, <3>3 DEF Url!NextRange
    <2> QED
      BY <2>4, <2>5
  <1>11. CASE h.fetched # h.size
    <2>1. udHandle' = h /\ udWire' = rest
      BY <1>1, <1>11
    <2>2. count < left /\ count = BufCap /\ left >= BufCap
      BY <1>4, <1>11, <1>13
    <2>3. UrlRange'
      <3>1. h.fetched <= h.size /\ h.offset + h.fetched = Len(udSaved') + h.size
        BY <1>13
      <3> QED
        <4>1. h.offset <= FileSize /\ h.size <= SegmentSize /\ rest # Null
          BY <1>3, <1>5, <1>9, NoTransferAssumption
        <4> QED
          BY <1>11, <1>12, <2>1, <3>1, <4>1 DEF UrlRange
    <2>4. h.left = h.size - h.fetched
      BY <1>13
    <2>5. h.more
      BY <1>6, <2>2
    <2>6. CASE read = count
      <3>1. Len(body) = h.left /\ Units(body, Len(udSaved'))
        BY <1>5, <1>7, <1>8, <2>6
      <3>2. UrlAnswer'
        BY <1>9, <2>1, <2>4, <2>5, <3>1 DEF UrlAnswer
      <3> QED
        BY <1>7, <2>3, <3>2 DEF UrlInv
    <2>7. CASE read # count
      <3>1. Len(body) < h.left /\ h.left <= BufCap
        <4>1. read > count /\ Len(udWire.body) = left /\ left - count <= BufCap
          BY <2>7
        <4>2. Len(body) = left - read
          BY <1>8, <4>1
        <4> QED
          BY <1>5, <4>1, <4>2
      <3>2. UrlAnswer'
        BY <1>9, <2>1, <2>4, <2>5, <3>1 DEF UrlAnswer
      <3> QED
        BY <1>7, <2>3, <3>2 DEF UrlInv
    <2> QED
      BY <2>6, <2>7
  <1> QED
    BY <1>10, <1>11

LEMMA UrlNext == UrlInv /\ [Url!Next]_urlVars => UrlInv'
  <1> SUFFICES ASSUME UrlInv, [Url!Next]_urlVars PROVE UrlInv'
    OBVIOUS
  <1>1. CASE UNCHANGED urlVars
    BY <1>1 DEF urlVars, UrlInv, UrlRange, UrlAnswer, Units
  <1>2. ASSUME NEW paged \in BOOLEAN, Url!Connect(paged) PROVE UrlInv'
    <2> SUFFICES ASSUME ~udPaged' PROVE UrlInv'
      BY DEF UrlInv
    <2>1. /\ Len(udSaved) < FileSize /\ udSaved' = udSaved /\ ~udPaged /\ paged = FALSE
          /\ udHandle' = Url!Ranged(Url!Fresh) /\ udWire' = Url!Answer(Url!Ranged(Url!Fresh), FALSE)
      BY <1>2 DEF Url!Connect
    <2>2. Units(udSaved, 0) /\ Len(udSaved) \in Nat
      BY <2>1 DEF UrlInv, Units
    <2>3. /\ Url!Fresh \in [offset : Nat, size : Nat, fetched : Nat, open : BOOLEAN, more : BOOLEAN, left : Nat]
          /\ Url!Fresh.offset = Len(udSaved)
      BY <2>2 DEF Url!Fresh
    <2>4. Units(udSaved, 0)'
      BY <2>1, <2>2
    <2>5. UrlRange' /\ UrlAnswer'
      BY <2>1, <2>3, <2>4, UrlAsks
    <2> QED
      BY <2>4, <2>5 DEF UrlInv
  <1>3. CASE Url!ConnectFails
    BY <1>3 DEF Url!ConnectFails, UrlInv, UrlRange, UrlAnswer, Units
  <1>4. CASE Url!Disconnect
    BY <1>4 DEF Url!Disconnect, UrlInv, Units
  <1>5. ASSUME NEW paged \in BOOLEAN, Url!FetchMore(paged) PROVE UrlInv'
    <2>1. /\ udHandle # Null /\ Len(udSaved) < FileSize /\ udHandle.open /\ udHandle.more /\ ~udWire.head
          /\ Url!Lesser(BufCap, udHandle.left) <= Len(udWire.body)
          /\ Url!Deliver(Url!Lesser(BufCap, udHandle.left), Url!Lesser(BufCap, udHandle.left), udHandle.left, paged)
      BY <1>5 DEF Url!FetchMore, Url!Fetching
    <2> SUFFICES ASSUME ~udPaged PROVE UrlInv'
      BY <2>1 DEF UrlInv, Url!Deliver, Url!NextRange
    <2>2. UrlRange /\ UrlAnswer /\ udWire # Null
      BY <2>1 DEF UrlInv, UrlRange
    <2>3. udHandle.fetched < udHandle.size
      BY <2>1, <2>2, UrlAssumption DEF UrlRange, UrlInv, Units
    <2>4. udHandle.left = udHandle.size - udHandle.fetched /\ udHandle.left \in Nat
      BY <2>1, <2>2, <2>3 DEF UrlAnswer, UrlRange
    <2>5. Len(udWire.body) = udHandle.left /\ Units(udWire.body, Len(udSaved))
      BY <2>1, <2>2, <2>3, <2>4, UrlAssumption DEF UrlAnswer, Url!Lesser
    <2>6. Url!Lesser(BufCap, udHandle.left) \in Nat
      BY <2>4, UrlAssumption DEF Url!Lesser
    <2>7. udPaged' = (udPaged \/ paged) \/ UNCHANGED udPaged
      BY <2>1 DEF Url!Deliver, Url!NextRange
    <2> QED
      BY <2>1, <2>2, <2>4, <2>5, <2>6, <2>7, UrlDelivers
  <1>6. ASSUME NEW paged \in BOOLEAN, NEW n \in 0 .. HeadCap, Url!FetchFirst(n, paged) PROVE UrlInv'
    <2> DEFINE left == Len(udWire.body)
               count == Url!Lesser(BufCap, left)
               read == Url!Greater(n, count)
    <2>1. /\ udHandle # Null /\ Len(udSaved) < FileSize /\ udHandle.open /\ udWire.head
          /\ n <= Url!Lesser(HeadCap, left) /\ Url!Deliver(count, read, left, paged)
      BY <1>6 DEF Url!FetchFirst, Url!Fetching
    <2> SUFFICES ASSUME ~udPaged PROVE UrlInv'
      BY <2>1 DEF UrlInv, Url!Deliver, Url!NextRange
    <2>2. UrlRange /\ UrlAnswer /\ udWire # Null
      BY <2>1 DEF UrlInv, UrlRange
    <2>3. /\ left = udHandle.size /\ udHandle.fetched = 0 /\ left \in Nat /\ left <= SegmentSize
          /\ Units(udWire.body, Len(udSaved))
      BY <2>1, <2>2 DEF UrlAnswer, UrlRange
    <2>4. udPaged' = (udPaged \/ paged) \/ UNCHANGED udPaged
      BY <2>1 DEF Url!Deliver, Url!NextRange
    <2> HIDE DEF left
    <2>5. /\ count \in Nat /\ read \in Nat /\ count <= left /\ count <= read /\ read <= left
          /\ count < left => count = BufCap
          /\ read > count => read <= HeadCap /\ HeadCap <= HeadCap
      BY <2>1, <2>3, UrlAssumption DEF Url!Lesser, Url!Greater
    <2>6. read > count => left - count <= BufCap /\ count < left
      BY <2>3, <2>5, UrlAssumption
    <2>7. left = udHandle.size - udHandle.fetched
      BY <2>2, <2>3 DEF UrlRange
    <2>8. left = Len(udWire.body) /\ count = Url!Lesser(BufCap, left)
      BY DEF left
    <2> HIDE DEF count, read
    <2> QED
      BY <2>1, <2>2, <2>3, <2>4, <2>5, <2>6, <2>7, <2>8, UrlDelivers
  <1>7. CASE Url!FetchNothing
    <2>1. /\ udHandle # Null /\ Len(udSaved) < FileSize /\ udHandle.open /\ ~udHandle.more
          /\ udHandle' = [udHandle EXCEPT !.more = TRUE, !.left = 0]
          /\ UNCHANGED <<udWire, udSaved, udPaged>>
      BY <1>7 DEF Url!FetchNothing, Url!Fetching
    <2> SUFFICES ASSUME ~udPaged PROVE UrlInv'
      BY <2>1 DEF UrlInv
    <2>2. UrlRange /\ UrlAnswer /\ udWire # Null
      BY <2>1 DEF UrlInv, UrlRange
    <2>3. udHandle.fetched < udHandle.size
      BY <2>1, <2>2, UrlAssumption DEF UrlRange, UrlInv, Units
    <2>4. udWire.head
      BY <2>1, <2>2, <2>3 DEF UrlAnswer
    <2> QED
      BY <2>1, <2>2, <2>4, UrlWaits
  <1>8. CASE Url!FetchIdle
    <2>1. /\ udHandle # Null /\ udHandle.open /\ udWire.head /\ udHandle.left = 0
          /\ udHandle' = [udHandle EXCEPT !.more = FALSE]
          /\ UNCHANGED <<udWire, udSaved, udPaged>>
      BY <1>8 DEF Url!FetchIdle, Url!Fetching
    <2> SUFFICES ASSUME ~udPaged PROVE UrlInv'
      BY <2>1 DEF UrlInv
    <2>2. UrlRange /\ UrlAnswer /\ udWire # Null
      BY <2>1 DEF UrlInv, UrlRange
    <2>3. udHandle' = [udHandle EXCEPT !.more = FALSE, !.left = 0]
      BY <2>1, <2>2 DEF UrlRange
    <2> QED
      BY <2>1, <2>2, <2>3, UrlWaits
  <1>9. CASE Url!FetchFails
    BY <1>9, UrlCloses DEF Url!FetchFails, Url!Fetching
  <1> QED
    BY <1>1, <1>2, <1>3, <1>4, <1>5, <1>6, <1>7, <1>8, <1>9 DEF Url!Next, Url!Fetch

-----------------------------------------------------------------------------
(* The bytes of packets. *)

Bytes == [packet : Nat, at : Nat]

\* How many bytes of its packet are behind the k-th of w.
Behind(w, k) == pkSent[w[k].packet] + 2 - w[k].at

\* Packets one after the other, the first of them perhaps in part, the last to its end.
Stream(w) ==
    /\ w \in Seq(Bytes)
    /\ \A k \in 1 .. Len(w) :
         /\ w[k].packet \in 1 .. Len(pkSent)
         /\ w[k].at \in Nat /\ w[k].at > 0 /\ Behind(w, k) \in Nat
         /\ k + Behind(w, k) <= Len(w)
    /\ \A k, l \in 1 .. Len(w) : k <= l =>
         /\ l - k <= Behind(w, k) => w[l].packet = w[k].packet /\ w[l].at = w[k].at + (l - k)
         /\ l - k = Behind(w, k) + 1 => w[l].at = 1
         /\ l - k > Behind(w, k) => w[k].packet < w[l].packet

AtStart == Len(pkWire) > 0 => pkWire[1].at = 1

\* left bytes of the packet with this header are still to be read.
Within(left) ==
    LET n == pkHeader.packet
    IN  /\ pkHeader \in Bytes /\ pkHeader.at = 1 /\ n \in 1 .. Len(pkSent)
        /\ left \in Nat /\ left <= pkSent[n] + 1
        /\ left > 0 => Len(pkWire) > 0 /\ pkWire[1].packet = n /\ pkWire[1].at = pkSent[n] + 3 - left
        /\ left = 0 => AtStart
        /\ \A k \in 1 .. Len(pkWire) : k > left => n < pkWire[k].packet

\* Until a read has stalled the next byte is the one that the phase expects.
Position ==
    /\ pkPhase = "header" => AtStart
    /\ pkPhase = "length" => Within(pkSent[pkHeader.packet] + 1)
    /\ pkPhase \in {"rest", "drop"} => Within(pkLeft)
    /\ pkPhase = "rest" => pkLeft = pkSent[pkHeader.packet]

\* What was handled is older than what comes.
Older ==
    \A i \in DOMAIN pkHandled : ~pkHandled[i].torn =>
        /\ \A k \in 1 .. Len(pkWire) : pkHandled[i].header.packet < pkWire[k].packet
        /\ pkPhase \in {"length", "rest", "drop"} => pkHandled[i].header.packet < pkHeader.packet

PacketTypes ==
    /\ pkSent \in Seq(Nat)
    /\ pkWire \in Seq(Bytes) /\ \A k \in 1 .. Len(pkWire) : pkWire[k].packet \in 1 .. Len(pkSent)
    /\ pkHeader \in Bytes \cup {Null} /\ pkLeft \in Nat
    /\ pkTorn \in BOOLEAN
    /\ pkPhase \in {"header", "length", "rest", "drop", "down"}
    /\ pkPhase = "down" => pkWire = <<>>
    /\ pkHandled \in Seq([header : Bytes \cup {Null}, torn : BOOLEAN, rest : Seq(Bytes)])

HandledWhole ==
    \A i \in DOMAIN pkHandled : ~pkHandled[i].torn =>
        LET h == pkHandled[i].header
        IN  /\ h \in Bytes /\ h.packet \in 1 .. Len(pkSent)
            /\ <<h, [h EXCEPT !.at = 2]>> \o pkHandled[i].rest = Packets!Packet(h.packet, pkSent[h.packet])
            /\ \A j \in 1 .. i - 1 : ~pkHandled[j].torn => pkHandled[j].header.packet < h.packet

PacketInv ==
    /\ PacketTypes /\ HandledWhole
    /\ ~pkTorn => Stream(pkWire) /\ Position /\ Older

LEMMA PacketsInit == Packets!Init => PacketInv
  <1> SUFFICES ASSUME Packets!Init PROVE PacketInv
    OBVIOUS
  <1>1. /\ pkWire = <<>> /\ pkSent = <<>> /\ pkHandled = <<>> /\ Len(pkWire) = 0 /\ DOMAIN pkHandled = {}
        /\ pkPhase = "header" /\ pkHeader = Null /\ pkLeft = 0 /\ pkTorn = FALSE
    BY DEF Packets!Init
  <1>5. <<>> \in Seq(Nat) /\ <<>> \in Seq(Bytes)
    OBVIOUS
  <1>6. <<>> \in Seq([header : Bytes \cup {Null}, torn : BOOLEAN, rest : Seq(Bytes)])
    OBVIOUS
  <1>2. PacketTypes
    <2>1. \A k \in 1 .. Len(pkWire) : pkWire[k].packet \in 1 .. Len(pkSent)
      BY <1>1
    <2>2. pkLeft \in Nat /\ pkTorn \in BOOLEAN /\ pkHeader \in Bytes \cup {Null}
      BY <1>1
    <2> QED
      BY <1>1, <1>5, <1>6, <2>1, <2>2 DEF PacketTypes
  <1>3. Stream(pkWire)
    BY <1>1 DEF Stream
  <1>4. Position /\ Older /\ HandledWhole
    BY <1>1 DEF Position, Older, HandledWhole, AtStart
  <1> QED
    BY <1>2, <1>3, <1>4 DEF PacketInv

LEMMA PacketsMean == PacketInv => Packets!PacketsWhole
  BY DEF PacketInv, HandledWhole, Packets!PacketsWhole

\* Taking bytes from the front leaves a stream.
LEMMA StreamCut ==
    ASSUME NEW w, Stream(w), NEW r \in Nat, r <= Len(w), NEW v, v = SubSeq(w, r + 1, Len(w))
    PROVE  /\ Stream(v) /\ Len(v) = Len(w) - r
           /\ \A k \in 1 .. Len(v) : k + r \in 1 .. Len(w) /\ v[k] = w[k + r]
  <1>1. w \in Seq(Bytes) /\ Len(w) \in Nat
    BY DEF Stream
  <1>2. v \in Seq(Bytes) /\ Len(v) = Len(w) - r /\ \A i \in 1 .. Len(w) - r : v[i] = w[r + i]
    BY <1>1, RestPoints
  <1>3. \A k \in 1 .. Len(v) : k + r \in 1 .. Len(w) /\ v[k] = w[k + r] /\ Behind(v, k) = Behind(w, k + r)
    <2> TAKE k \in 1 .. Len(v)
    <2>1. k + r \in 1 .. Len(w) /\ k \in 1 .. Len(w) - r /\ r + k = k + r
      BY <1>1, <1>2
    <2>2. v[k] = w[k + r]
      BY <1>2, <2>1
    <2> QED
      BY <2>1, <2>2 DEF Behind
  <1>4. ASSUME NEW k \in 1 .. Len(v)
        PROVE  /\ v[k].packet \in 1 .. Len(pkSent)
               /\ v[k].at \in Nat /\ v[k].at > 0 /\ Behind(v, k) \in Nat
               /\ k + Behind(v, k) <= Len(v)
    <2>1. /\ w[k + r].packet \in 1 .. Len(pkSent)
          /\ w[k + r].at \in Nat /\ w[k + r].at > 0 /\ Behind(w, k + r) \in Nat
          /\ k + r + Behind(w, k + r) <= Len(w)
      BY <1>3 DEF Stream
    <2> QED
      BY SMTT(30), <1>1, <1>2, <1>3, <2>1
  <1>5. ASSUME NEW k \in 1 .. Len(v), NEW l \in 1 .. Len(v), k <= l
        PROVE  /\ l - k <= Behind(v, k) => v[l].packet = v[k].packet /\ v[l].at = v[k].at + (l - k)
               /\ l - k = Behind(v, k) + 1 => v[l].at = 1
               /\ l - k > Behind(v, k) => v[k].packet < v[l].packet
    <2> DEFINE a == k + r
               b == l + r
    <2>1. a \in 1 .. Len(w) /\ b \in 1 .. Len(w) /\ v[k] = w[a] /\ v[l] = w[b] /\ Behind(v, k) = Behind(w, a)
      BY <1>3
    <2>2. a <= b /\ b - a = l - k
      BY <1>5
    <2> HIDE DEF a, b
    <2>3. /\ b - a <= Behind(w, a) => w[b].packet = w[a].packet /\ w[b].at = w[a].at + (b - a)
          /\ b - a = Behind(w, a) + 1 => w[b].at = 1
          /\ b - a > Behind(w, a) => w[a].packet < w[b].packet
      BY <2>1, <2>2 DEF Stream
    <2> QED
      BY <2>1, <2>2, <2>3
  <1> QED
    BY <1>2, <1>3, <1>4, <1>5 DEF Stream

LEMMA StreamStays ==
    ASSUME Stream(pkWire'), pkSent' = pkSent
    PROVE  Stream(pkWire)'
  BY DEF Stream, Behind

\* Reading on within a packet.
LEMMA WithinCut ==
    ASSUME PacketTypes, Stream(pkWire), NEW left \in Nat, Within(left),
           NEW r \in Nat, r <= left, r <= Len(pkWire),
           pkWire' = SubSeq(pkWire, r + 1, Len(pkWire)), pkHeader' = pkHeader, pkSent' = pkSent
    PROVE  Stream(pkWire)' /\ Within(left - r)'
  <1> DEFINE n == pkHeader.packet
             size == pkSent[n]
  <1>1. /\ Stream(pkWire') /\ Len(pkWire') = Len(pkWire) - r
        /\ \A k \in 1 .. Len(pkWire') : k + r \in 1 .. Len(pkWire) /\ pkWire'[k] = pkWire[k + r]
    BY StreamCut
  <1>2. /\ n \in 1 .. Len(pkSent) /\ size \in Nat /\ left <= size + 1
        /\ left > 0 => Len(pkWire) > 0 /\ pkWire[1].packet = n /\ pkWire[1].at = size + 3 - left
        /\ left = 0 => AtStart
        /\ \A k \in 1 .. Len(pkWire) : k > left => n < pkWire[k].packet
        /\ pkHeader \in Bytes /\ pkHeader.at = 1 /\ Len(pkWire) \in Nat
    <2>1. n \in 1 .. Len(pkSent) /\ pkHeader \in Bytes /\ pkHeader.at = 1 /\ left <= size + 1
      BY DEF Within
    <2>2. left > 0 => Len(pkWire) > 0 /\ pkWire[1].packet = n /\ pkWire[1].at = size + 3 - left
      BY DEF Within
    <2>3. (left = 0 => AtStart) /\ \A k \in 1 .. Len(pkWire) : k > left => n < pkWire[k].packet
      BY DEF Within
    <2>4. pkSent \in Seq(Nat) /\ pkWire \in Seq(Bytes)
      BY DEF PacketTypes
    <2>5. size \in Nat /\ Len(pkWire) \in Nat
      BY <2>1, <2>4
    <2> QED
      BY <2>1, <2>2, <2>3, <2>5
  <1>3. ASSUME left > 0
        PROVE  /\ Behind(pkWire, 1) = left - 1 /\ left <= Len(pkWire)
               /\ \A l \in 1 .. Len(pkWire) :
                    /\ l <= left => pkWire[l].packet = n /\ pkWire[l].at = size + 2 - left + l
                    /\ l = left + 1 => pkWire[l].at = 1
    <2>1. Behind(pkWire, 1) = left - 1 /\ 1 \in 1 .. Len(pkWire)
      <3>1. /\ pkWire[1].packet = n /\ pkWire[1].at = size + 3 - left /\ 1 \in 1 .. Len(pkWire)
            /\ size \in Nat
        BY <1>2, <1>3
      <3>2. Behind(pkWire, 1) = size + 2 - (size + 3 - left)
        BY <3>1 DEF Behind
      <3> HIDE DEF size, n
      <3> QED
        BY <3>1, <3>2
    <2>2. left <= Len(pkWire)
      <3>1. 1 + Behind(pkWire, 1) <= Len(pkWire)
        BY <2>1 DEF Stream
      <3> QED
        BY <2>1, <3>1
    <2>3. ASSUME NEW l \in 1 .. Len(pkWire)
          PROVE  /\ l <= left => pkWire[l].packet = n /\ pkWire[l].at = size + 2 - left + l
                 /\ l = left + 1 => pkWire[l].at = 1
      <3>2. /\ pkWire[1].packet = n /\ pkWire[1].at = size + 3 - left /\ size \in Nat
        BY <1>2, <1>3
      <3> HIDE DEF size, n
      <3>0. 1 <= l
        OBVIOUS
      <3>5. /\ l - 1 <= Behind(pkWire, 1) =>
                 pkWire[l].packet = pkWire[1].packet /\ pkWire[l].at = pkWire[1].at + (l - 1)
            /\ l - 1 = Behind(pkWire, 1) + 1 => pkWire[l].at = 1
        BY <2>1, <3>0 DEF Stream
      <3>1. /\ l - 1 <= left - 1 => pkWire[l].packet = pkWire[1].packet /\ pkWire[l].at = pkWire[1].at + (l - 1)
            /\ l - 1 = (left - 1) + 1 => pkWire[l].at = 1
        BY <2>1, <3>5
      <3>3. size + 3 - left + (l - 1) = size + 2 - left + l
        BY <3>2
      <3>4. l <= left => pkWire[l].packet = n /\ pkWire[l].at = size + 2 - left + l
        BY <3>1, <3>2, <3>3
      <3> QED
        BY <3>1, <3>4
    <2> QED
      BY <2>1, <2>2, <2>3
  <1> HIDE DEF n, size
  <1>4. CASE left = r
    <2>1. Len(pkWire') > 0 => pkWire'[1].at = 1
      <3> SUFFICES ASSUME Len(pkWire') > 0 PROVE pkWire'[1].at = 1
        OBVIOUS
      <3>0. r \in Nat /\ 1 + r \in 1 .. Len(pkWire) /\ 1 \in 1 .. Len(pkWire')
        BY <1>1, <1>2
      <3>1. 1 + r \in 1 .. Len(pkWire) /\ pkWire'[1] = pkWire[1 + r]
        BY <1>2, <3>0
      <3>2. CASE left = 0
        BY <1>2, <1>4, <3>1, <3>2 DEF AtStart
      <3>3. CASE left > 0
        BY SMTT(30), <1>3, <1>4, <3>1, <3>3
      <3> QED
        BY <3>2, <3>3
    <2>2. \A k \in 1 .. Len(pkWire') : n < pkWire'[k].packet
      BY <1>1, <1>2, <1>4
    <2>3. left - r = 0
      BY <1>4
    <2>5. pkHeader.packet \in 1 .. Len(pkSent) /\ 0 <= pkSent[pkHeader.packet] + 1
      BY <1>2 DEF n, size
    <2>6. /\ pkHeader' \in Bytes /\ pkHeader'.at = 1 /\ pkHeader'.packet \in 1 .. Len(pkSent')
          /\ 0 <= pkSent'[pkHeader'.packet] + 1
      BY <1>2, <2>5
    <2>7. \A k \in 1 .. Len(pkWire') : k > 0 => pkHeader'.packet < pkWire'[k].packet
      BY <2>2 DEF n
    <2>8. AtStart' /\ 0 \in Nat /\ ~(0 > 0)
      BY <2>1 DEF AtStart
    <2>4. Within(0)'
      BY <2>6, <2>7, <2>8 DEF Within
    <2> QED
      BY <1>1, <2>3, <2>4, StreamStays
  <1>5. CASE r < left
    <2>1. 1 \in 1 .. Len(pkWire') /\ Len(pkWire') > 0
      BY SMTT(30), <1>1, <1>2, <1>3, <1>5
    <2>2. pkWire'[1] = pkWire[1 + r] /\ 1 + r \in 1 .. Len(pkWire)
      BY <1>1, <2>1
    <2>3. pkWire'[1].packet = n /\ pkWire'[1].at = size + 2 - left + (1 + r)
      BY <1>3, <1>5, <2>2
    <2>4. size + 2 - left + (1 + r) = size + 3 - (left - r)
      BY <1>2
    <2>5. \A k \in 1 .. Len(pkWire') : k > left - r => n < pkWire'[k].packet
      BY <1>1, <1>2
    <2>6. left - r \in Nat /\ left - r > 0 /\ left - r <= size + 1
      BY <1>2, <1>5
    <2>7. Within(left - r)'
      BY <1>2, <2>1, <2>3, <2>4, <2>5, <2>6 DEF Within, n, size
    <2> QED
      BY <1>1, <2>7, StreamStays
  <1> QED
    BY <1>4, <1>5

\* The header is the first byte of its packet, so all others follow.
LEMMA HeaderRead ==
    ASSUME PacketTypes, Stream(pkWire), AtStart, Len(pkWire) > 0,
           pkWire' = SubSeq(pkWire, 2, Len(pkWire)), pkHeader' = pkWire[1], pkSent' = pkSent
    PROVE  Stream(pkWire)' /\ Within(pkSent[pkHeader.packet] + 1)'
  <1> DEFINE n == pkWire[1].packet
             size == pkSent[n]
  <1>1. /\ Stream(pkWire') /\ Len(pkWire') = Len(pkWire) - 1
        /\ \A k \in 1 .. Len(pkWire') : k + 1 \in 1 .. Len(pkWire) /\ pkWire'[k] = pkWire[k + 1]
    <2>1. pkWire' = SubSeq(pkWire, 1 + 1, Len(pkWire)) /\ 1 \in Nat /\ 1 <= Len(pkWire)
      BY DEF PacketTypes
    <2> HIDE DEF n, size
    <2>2. Stream(pkWire') /\ Len(pkWire') = Len(pkWire) - 1
      BY <2>1, StreamCut
    <2>3. \A k \in 1 .. Len(pkWire') : k + 1 \in 1 .. Len(pkWire) /\ pkWire'[k] = pkWire[k + 1]
      BY <2>1, StreamCut
    <2> QED
      BY <2>2, <2>3
  <1>2. /\ pkWire[1] \in Bytes /\ n \in 1 .. Len(pkSent) /\ size \in Nat /\ pkWire[1].at = 1
        /\ Behind(pkWire, 1) = size + 1 /\ 1 \in 1 .. Len(pkWire) /\ Len(pkWire) \in Nat
    <2>1. pkSent \in Seq(Nat) /\ pkWire \in Seq(Bytes)
      BY DEF PacketTypes
    <2>2. 1 \in 1 .. Len(pkWire) /\ pkWire[1] \in Bytes /\ pkWire[1].at = 1 /\ Len(pkWire) \in Nat
      BY <2>1 DEF AtStart
    <2>3. n \in 1 .. Len(pkSent)
      BY <2>2 DEF PacketTypes
    <2>4. size \in Nat
      BY <2>1, <2>3
    <2>5. Behind(pkWire, 1) = size + 2 - 1
      BY <2>2 DEF Behind
    <2> HIDE DEF n, size
    <2>6. Behind(pkWire, 1) = size + 1
      BY <2>4, <2>5
    <2> QED
      BY <2>2, <2>3, <2>4, <2>6
  <1>3. 1 + (size + 1) <= Len(pkWire)
    BY <1>2 DEF Stream
  <1>4. \A l \in 1 .. Len(pkWire) :
          /\ l - 1 <= size + 1 => pkWire[l].packet = n /\ pkWire[l].at = 1 + (l - 1)
          /\ l - 1 > size + 1 => n < pkWire[l].packet
    <2> TAKE l \in 1 .. Len(pkWire)
    <2>1. 1 \in 1 .. Len(pkWire) /\ 1 <= l
      BY <1>2
    <2>2. /\ l - 1 <= Behind(pkWire, 1) => pkWire[l].packet = pkWire[1].packet /\ pkWire[l].at = pkWire[1].at + (l - 1)
          /\ l - 1 > Behind(pkWire, 1) => pkWire[1].packet < pkWire[l].packet
      BY <2>1 DEF Stream
    <2> HIDE DEF size
    <2> QED
      BY <1>2, <2>2
  <1> HIDE DEF n, size
  <1>5. 1 \in 1 .. Len(pkWire') /\ 1 + 1 \in 1 .. Len(pkWire) /\ pkWire'[1] = pkWire[1 + 1]
    BY <1>1, <1>2, <1>3
  <1>6. pkWire'[1].packet = n /\ pkWire'[1].at = 2
    BY <1>2, <1>4, <1>5
  <1>7. \A k \in 1 .. Len(pkWire') : k > size + 1 => n < pkWire'[k].packet
    BY <1>1, <1>4
  <1>8. size + 1 \in Nat /\ size + 1 > 0 /\ size + 3 - (size + 1) = 2 /\ Len(pkWire') > 0
    BY <1>2, <1>5
  <1>9. Within(pkSent[pkHeader.packet] + 1)'
    <2>1. /\ pkHeader' \in Bytes /\ pkHeader'.at = 1 /\ pkHeader'.packet = n /\ n \in 1 .. Len(pkSent')
          /\ pkSent'[n] = size
      BY <1>2 DEF n, size
    <2>2. size + 1 <= size + 1 /\ size + 1 # 0
      BY <1>2
    <2>3. pkWire'[1].at = size + 3 - (size + 1)
      BY <1>6, <1>8
    <2> QED
      BY <1>6, <1>7, <1>8, <2>1, <2>2, <2>3 DEF Within
  <1> QED
    BY <1>1, <1>9, StreamStays

LEMMA TwoFirst ==
    ASSUME NEW S, NEW p \in Seq(S), Len(p) = 2, NEW q \in Seq(S), NEW k, k = Len(q)
    PROVE  /\ p \o q \in Seq(S) /\ DOMAIN (p \o q) = 1 .. k + 2
           /\ (p \o q)[1] = p[1] /\ (p \o q)[2] = p[2]
           /\ \A i \in 1 .. k : (p \o q)[i + 2] = q[i]
  <1>1. /\ p \o q \in Seq(S) /\ Len(p \o q) = 2 + k /\ DOMAIN (p \o q) = 1 .. 2 + k
        /\ \A i \in 1 .. 2 + k : (p \o q)[i] = IF i <= 2 THEN p[i] ELSE q[i - 2]
    <2>1. p \o q \in Seq(S) /\ Len(p \o q) = Len(p) + Len(q)
      BY ConcatPlain
    <2>2. \A i \in 1 .. Len(p) + Len(q) : (p \o q)[i] = IF i <= Len(p) THEN p[i] ELSE q[i - Len(p)]
      BY ConcatPlain
    <2>3. Len(p \o q) = 2 + k
      BY <2>1
    <2>4. \A i \in 1 .. 2 + k : (p \o q)[i] = IF i <= 2 THEN p[i] ELSE q[i - 2]
      BY <2>2, Zenon
    <2>5. DOMAIN (p \o q) = 1 .. 2 + k
      BY <2>1, <2>3
    <2> QED
      BY <2>1, <2>3, <2>4, <2>5
  <1>2. k \in Nat
    OBVIOUS
  <1>3. 1 \in 1 .. 2 + k /\ 2 \in 1 .. 2 + k /\ 1 <= 2 /\ 2 <= 2 /\ 2 + k = k + 2
    BY <1>2
  <1>4. (p \o q)[1] = p[1] /\ (p \o q)[2] = p[2]
    BY <1>1, <1>3, Zenon
  <1>5. ASSUME NEW i \in 1 .. k PROVE (p \o q)[i + 2] = q[i]
    <2>1. i + 2 \in 1 .. 2 + k /\ ~(i + 2 <= 2) /\ (i + 2) - 2 = i
      BY <1>2
    <2> DEFINE j == i + 2
    <2>2. j \in 1 .. 2 + k /\ ~(j <= 2) /\ j - 2 = i
      BY <2>1
    <2> HIDE DEF j
    <2>3. (p \o q)[j] = q[i]
      BY <1>1, <2>2, Zenon
    <2> QED
      BY <2>3 DEF j
  <1> QED
    BY <1>1, <1>3, <1>4, <1>5

LEMMA TwoBefore ==
    ASSUME NEW S, NEW a \in S, NEW b \in S, NEW q \in Seq(S), NEW k, k = Len(q)
    PROVE  /\ <<a, b>> \o q \in Seq(S) /\ DOMAIN (<<a, b>> \o q) = 1 .. k + 2
           /\ (<<a, b>> \o q)[1] = a /\ (<<a, b>> \o q)[2] = b
           /\ \A i \in 1 .. k : (<<a, b>> \o q)[i + 2] = q[i]
  <1> DEFINE p == <<a, b>>
  <1>2. p \in Seq(S) /\ Len(p) = 2 /\ p[1] = a /\ p[2] = b
    OBVIOUS
  <1> HIDE DEF p
  <1>3. /\ p \o q \in Seq(S) /\ DOMAIN (p \o q) = 1 .. k + 2
        /\ (p \o q)[1] = p[1] /\ (p \o q)[2] = p[2]
    BY <1>2, TwoFirst
  <1>4. \A i \in 1 .. k : (p \o q)[i + 2] = q[i]
    BY <1>2, TwoFirst
  <1> QED
    BY <1>2, <1>3, <1>4, Zenon DEF p

\* The packet that was read is that which the broker sent.
LEMMA PacketRead ==
    ASSUME PacketTypes, Stream(pkWire), Within(pkLeft), pkLeft = pkSent[pkHeader.packet],
           NEW rest, rest = SubSeq(pkWire, 1, pkLeft), pkLeft <= Len(pkWire)
    PROVE  <<pkHeader, [pkHeader EXCEPT !.at = 2]>> \o rest
             = Packets!Packet(pkHeader.packet, pkSent[pkHeader.packet])
  <1> DEFINE n == pkHeader.packet
             two == <<pkHeader, [pkHeader EXCEPT !.at = 2]>>
  <1>1. pkLeft \in Nat /\ pkHeader \in Bytes /\ pkHeader.at = 1 /\ n \in Nat /\ Len(pkWire) \in Nat
        /\ pkWire \in Seq(Bytes)
    BY DEF Within, PacketTypes, Bytes
  <1>2. ASSUME pkLeft > 0, NEW l \in 1 .. pkLeft PROVE pkWire[l] = [packet |-> n, at |-> 2 + l]
    <2>1. pkWire[1].packet = n /\ pkWire[1].at = 3 /\ 1 \in 1 .. Len(pkWire) /\ l \in 1 .. Len(pkWire)
      BY SMTT(30), <1>1, <1>2 DEF Within
    <2>2. Behind(pkWire, 1) = pkLeft - 1
      BY <1>1, <2>1 DEF Behind
    <2>3. pkWire[l].packet = n /\ pkWire[l].at = 3 + (l - 1)
      <3>1. l - 1 <= Behind(pkWire, 1)
        BY <1>1, <1>2, <2>2
      <3> QED
        BY <1>1, <2>1, <3>1 DEF Stream
    <2>4. pkWire[l] \in Bytes /\ pkWire[l].at = 2 + l
      BY <1>1, <2>1, <2>3
    <2> QED
      BY <2>3, <2>4 DEF Bytes
  <1>3. rest \in Seq(Bytes) /\ Len(rest) = pkLeft /\ \A i \in 1 .. pkLeft : rest[i] = pkWire[i]
    BY <1>1, SubSeqPoints
  <1>4. two \in Seq(Bytes) /\ Len(two) = 2 /\ two[1] = pkHeader /\ two[2] = [pkHeader EXCEPT !.at = 2]
    <2>1. pkHeader \in Bytes /\ [pkHeader EXCEPT !.at = 2] \in Bytes
      BY <1>1 DEF Bytes
    <2> QED
      BY <2>1
  <1>5. two[1] = [packet |-> n, at |-> 1] /\ two[2] = [packet |-> n, at |-> 2]
    BY <1>1, <1>4 DEF Bytes
  <1>6. /\ two \o rest \in Seq(Bytes) /\ DOMAIN (two \o rest) = 1 .. pkLeft + 2
        /\ (two \o rest)[1] = pkHeader /\ (two \o rest)[2] = [pkHeader EXCEPT !.at = 2]
        /\ \A i \in 1 .. pkLeft : (two \o rest)[i + 2] = rest[i]
    <2>1. pkHeader \in Bytes /\ [pkHeader EXCEPT !.at = 2] \in Bytes
      BY <1>1 DEF Bytes
    <2> QED
      BY SMTT(30), <2>1, <1>3, TwoBefore
  <1> HIDE DEF two, n
  <1>8. ASSUME NEW i \in 1 .. pkLeft + 2 PROVE (two \o rest)[i] = [packet |-> n, at |-> i]
    <2>1. CASE i = 1
      BY <1>5, <1>6, <2>1, <1>4
    <2>2. CASE i = 2
      BY <1>5, <1>6, <2>2, <1>4
    <2>3. CASE i > 2
      <3> DEFINE j == i - 2
      <3>1. j \in 1 .. pkLeft /\ pkLeft > 0 /\ j + 2 = i /\ 2 + j = i
        BY <1>1, <2>3
      <3> HIDE DEF j
      <3>2. pkWire[j] = [packet |-> n, at |-> 2 + j]
        BY <1>2, <3>1
      <3>3. (two \o rest)[j + 2] = rest[j]
        BY <1>6, <1>3, <3>1
      <3> QED
        BY <1>3, <3>1, <3>2, <3>3
    <2>5. i = 1 \/ i = 2 \/ i > 2
      BY <1>1
    <2> QED
      BY <2>1, <2>2, <2>3, <2>5
  <1>9. two \o rest = [i \in 1 .. pkLeft + 2 |-> [packet |-> n, at |-> i]]
    <2> DEFINE s == two \o rest
    <2>1. s \in Seq(Bytes)
      BY <1>6
    <2> HIDE DEF s
    <2>2. s = [i \in DOMAIN s |-> s[i]]
      BY <2>1
    <2>3. DOMAIN s = 1 .. pkLeft + 2 /\ \A i \in 1 .. pkLeft + 2 : s[i] = [packet |-> n, at |-> i]
      BY <1>6, <1>8 DEF s
    <2>4. s = [i \in 1 .. pkLeft + 2 |-> [packet |-> n, at |-> i]]
      BY <2>2, <2>3
    <2> QED
      BY <2>4 DEF s
  <1> QED
    BY <1>9 DEF two, n, Packets!Packet

-----------------------------------------------------------------------------
\* The k-th of the bytes left when the first r of w are gone.
LEMMA TypesCut ==
    ASSUME PacketTypes, NEW r \in Nat, r <= Len(pkWire), pkSent' = pkSent,
           pkWire' = SubSeq(pkWire, r + 1, Len(pkWire))
    PROVE  /\ pkWire' \in Seq(Bytes) /\ Len(pkWire') = Len(pkWire) - r
           /\ \A k \in 1 .. Len(pkWire') : k + r \in 1 .. Len(pkWire) /\ pkWire'[k] = pkWire[k + r]
           /\ \A k \in 1 .. Len(pkWire') : pkWire'[k].packet \in 1 .. Len(pkSent')
  <1>1. pkWire \in Seq(Bytes) /\ Len(pkWire) \in Nat
    BY DEF PacketTypes
  <1>2. pkWire' \in Seq(Bytes) /\ Len(pkWire') = Len(pkWire) - r
        /\ \A i \in 1 .. Len(pkWire) - r : pkWire'[i] = pkWire[r + i]
    BY <1>1, RestPoints
  <1>3. ASSUME NEW k \in 1 .. Len(pkWire')
        PROVE  k + r \in 1 .. Len(pkWire) /\ pkWire'[k] = pkWire[k + r]
    <2>1. k + r \in 1 .. Len(pkWire) /\ k \in 1 .. Len(pkWire) - r /\ r + k = k + r
      BY <1>1, <1>2
    <2> QED
      BY <1>2, <2>1
  <1>4. \A k \in 1 .. Len(pkWire') : pkWire'[k].packet \in 1 .. Len(pkSent')
    BY <1>3 DEF PacketTypes
  <1> QED
    BY <1>2, <1>3, <1>4

\* What was handled stays whole and older when nothing is handled and bytes are taken.
LEMMA HandledStays ==
    ASSUME HandledWhole, pkHandled' = pkHandled, pkSent' = pkSent
    PROVE  HandledWhole'
  BY DEF HandledWhole

LEMMA TailCut ==
    ASSUME NEW S, NEW s \in Seq(S), s # <<>>
    PROVE  /\ Len(s) \in Nat /\ Len(s) > 0 /\ 1 <= Len(s)
           /\ Head(s) = s[1] /\ Tail(s) = SubSeq(s, 1 + 1, Len(s)) /\ Tail(s) = SubSeq(s, 2, Len(s))
  OBVIOUS

LEMMA PacketsReadHeader ==
    ASSUME PacketInv, Packets!ReadHeader
    PROVE  PacketInv'
  <1>1. /\ pkPhase = "header" /\ pkWire # <<>> /\ pkHeader' = Head(pkWire) /\ pkWire' = Tail(pkWire)
        /\ pkPhase' = "length" /\ pkSent' = pkSent /\ pkLeft' = pkLeft /\ pkHandled' = pkHandled
        /\ pkTorn' = pkTorn
    BY DEF Packets!ReadHeader
  <1>2. PacketTypes /\ HandledWhole
    BY DEF PacketInv
  <1>3. pkWire \in Seq(Bytes)
    BY <1>2 DEF PacketTypes
  <1>4. /\ Len(pkWire) \in Nat /\ Len(pkWire) > 0 /\ 1 <= Len(pkWire) /\ pkHeader' = pkWire[1]
        /\ pkWire' = SubSeq(pkWire, 1 + 1, Len(pkWire)) /\ pkWire' = SubSeq(pkWire, 2, Len(pkWire))
    BY <1>1, <1>3, TailCut
  <1>5. /\ pkWire' \in Seq(Bytes) /\ Len(pkWire') = Len(pkWire) - 1
        /\ \A k \in 1 .. Len(pkWire') : k + 1 \in 1 .. Len(pkWire) /\ pkWire'[k] = pkWire[k + 1]
        /\ \A k \in 1 .. Len(pkWire') : pkWire'[k].packet \in 1 .. Len(pkSent')
    <2>1. 1 \in Nat
      OBVIOUS
    <2> QED
      BY <1>1, <1>2, <1>4, <2>1, TypesCut
  <1>6. pkHeader' \in Bytes
    BY <1>3, <1>4
  <1>7. PacketTypes'
    BY <1>1, <1>2, <1>5, <1>6 DEF PacketTypes
  <1>8. HandledWhole'
    BY <1>1, <1>2, HandledStays
  <1>9. ASSUME ~pkTorn' PROVE Stream(pkWire)' /\ Position' /\ Older'
    <2>1. Stream(pkWire) /\ AtStart /\ Older
      BY <1>1, <1>9 DEF PacketInv, Position
    <2>2. Stream(pkWire)' /\ Within(pkSent[pkHeader.packet] + 1)'
      BY <1>1, <1>2, <1>4, <2>1, HeaderRead
    <2>3. Position'
      BY <1>1, <2>2 DEF Position
    <2>4. Older'
      BY <1>1, <1>4, <1>5, <2>1 DEF Older
    <2> QED
      BY <2>2, <2>3, <2>4
  <1> QED
    BY <1>7, <1>8, <1>9 DEF PacketInv

LEMMA PacketsReadLength ==
    ASSUME PacketInv, Packets!ReadLength
    PROVE  PacketInv'
  <1>1. PICK length \in Packets!LengthsOf(Head(pkWire)) :
        /\ pkPhase = "length" /\ pkWire # <<>> /\ pkLeft' = length /\ pkWire' = Tail(pkWire)
        /\ pkPhase' \in {"rest", "drop"} /\ pkSent' = pkSent /\ pkHeader' = pkHeader
        /\ pkHandled' = pkHandled /\ pkTorn' = pkTorn
    BY DEF Packets!ReadLength
  <1>2. PacketTypes /\ HandledWhole
    BY DEF PacketInv
  <1>3. pkWire \in Seq(Bytes) /\ pkSent \in Seq(Nat)
    BY <1>2 DEF PacketTypes
  <1>4. /\ Len(pkWire) \in Nat /\ Len(pkWire) > 0 /\ 1 <= Len(pkWire) /\ Head(pkWire) = pkWire[1]
        /\ pkWire' = SubSeq(pkWire, 1 + 1, Len(pkWire))
    BY <1>1, <1>3, TailCut
  <1>5. /\ pkWire' \in Seq(Bytes) /\ Len(pkWire') = Len(pkWire) - 1
        /\ \A k \in 1 .. Len(pkWire') : k + 1 \in 1 .. Len(pkWire) /\ pkWire'[k] = pkWire[k + 1]
        /\ \A k \in 1 .. Len(pkWire') : pkWire'[k].packet \in 1 .. Len(pkSent')
    <2>1. 1 \in Nat
      OBVIOUS
    <2> QED
      BY <1>1, <1>2, <1>4, <2>1, TypesCut
  <1>6. length \in Nat
    <2>1. CASE pkWire[1].at = 2
      <3>1. 1 \in 1 .. Len(pkWire)
        BY <1>4
      <3>2. pkWire[1].packet \in 1 .. Len(pkSent)
        BY <1>2, <3>1 DEF PacketTypes
      <3>3. length = pkSent[pkWire[1].packet]
        BY <1>1, <1>4, <2>1 DEF Packets!LengthsOf
      <3> QED
        BY <1>3, <3>2, <3>3
    <2>2. CASE pkWire[1].at # 2
      BY <1>1, <1>4, <2>2, PacketAssumption DEF Packets!LengthsOf
    <2> QED
      BY <2>1, <2>2
  <1>7. PacketTypes'
    <2>1. pkPhase' \in {"header", "length", "rest", "drop", "down"} /\ pkPhase' # "down"
      BY <1>1
    <2> QED
      BY <1>1, <1>2, <1>5, <1>6, <2>1 DEF PacketTypes
  <1>8. HandledWhole'
    BY <1>1, <1>2, HandledStays
  <1>9. ASSUME ~pkTorn' PROVE Stream(pkWire)' /\ Position' /\ Older'
    <2> DEFINE size == pkSent[pkHeader.packet]
    <2>1. Stream(pkWire) /\ Within(size + 1) /\ Older
      BY <1>1, <1>9 DEF PacketInv, Position
    <2>2. size \in Nat
      BY SMTT(30), <1>3, <2>1 DEF Within
    <2>3. pkWire[1].packet = pkHeader.packet /\ pkWire[1].at = size + 3 - (size + 1)
      <3>1. size + 1 > 0
        BY <2>2
      <3> QED
        BY <2>1, <3>1 DEF Within
    <2>4. length = size
      <3>1. pkWire[1].at = 2
        BY <2>2, <2>3
      <3> QED
        BY <1>1, <1>4, <2>3, <3>1 DEF Packets!LengthsOf
    <2> HIDE DEF size
    <2> PICK c \in Nat : c = size
      BY <2>2
    <2>5. c + 1 \in Nat /\ 1 \in Nat /\ 1 <= c + 1 /\ (c + 1) - 1 = c /\ Within(c + 1)
      BY <2>1, <2>2
    <2>9. Stream(pkWire)' /\ Within((c + 1) - 1)'
      BY <1>1, <1>2, <1>4, <2>1, <2>5, WithinCut
    <2>6. Stream(pkWire)' /\ Within(c)'
      BY <2>5, <2>9
    <2>7. Position'
      <3>1. Within(pkLeft)' /\ pkLeft' = pkSent'[pkHeader'.packet]
        BY <1>1, <2>4, <2>5, <2>6 DEF size
      <3> QED
        BY <1>1, <3>1 DEF Position
    <2>8. Older'
      BY <1>1, <1>5, <2>1 DEF Older
    <2> QED
      BY <2>6, <2>7, <2>8
  <1> QED
    BY <1>7, <1>8, <1>9 DEF PacketInv

LEMMA PacketsReadRest ==
    ASSUME PacketInv, Packets!ReadRest
    PROVE  PacketInv'
  <1> DEFINE rest == SubSeq(pkWire, 1, pkLeft)
             new == [header |-> pkHeader, torn |-> pkTorn, rest |-> rest]
  <1>1. /\ pkPhase = "rest" /\ Len(pkWire) >= pkLeft /\ pkHandled' = Append(pkHandled, new)
        /\ pkWire' = SubSeq(pkWire, pkLeft + 1, Len(pkWire)) /\ pkPhase' = "header"
        /\ pkSent' = pkSent /\ pkHeader' = pkHeader /\ pkLeft' = pkLeft /\ pkTorn' = pkTorn
    BY DEF Packets!ReadRest
  <1>2. PacketTypes /\ HandledWhole
    BY DEF PacketInv
  <1>3. /\ pkWire \in Seq(Bytes) /\ pkSent \in Seq(Nat) /\ pkLeft \in Nat /\ Len(pkWire) \in Nat
        /\ pkLeft <= Len(pkWire)
        /\ pkHandled \in Seq([header : Bytes \cup {Null}, torn : BOOLEAN, rest : Seq(Bytes)])
        /\ pkHeader \in Bytes \cup {Null} /\ pkTorn \in BOOLEAN
    BY <1>1, <1>2 DEF PacketTypes
  <1>4. rest \in Seq(Bytes)
    BY <1>3, SubSeqPoints
  <1>5. /\ pkWire' \in Seq(Bytes) /\ Len(pkWire') = Len(pkWire) - pkLeft
        /\ \A k \in 1 .. Len(pkWire') : k + pkLeft \in 1 .. Len(pkWire) /\ pkWire'[k] = pkWire[k + pkLeft]
        /\ \A k \in 1 .. Len(pkWire') : pkWire'[k].packet \in 1 .. Len(pkSent')
    BY <1>1, <1>2, <1>3, TypesCut
  <1> HIDE DEF rest
  <1>6. new \in [header : Bytes \cup {Null}, torn : BOOLEAN, rest : Seq(Bytes)]
    BY <1>3, <1>4
  <1>7. new.header = pkHeader /\ new.torn = pkTorn /\ new.rest = rest
    OBVIOUS
  <1> HIDE DEF new
  <1>8. /\ pkHandled' \in Seq([header : Bytes \cup {Null}, torn : BOOLEAN, rest : Seq(Bytes)])
        /\ DOMAIN pkHandled' = 1 .. Len(pkHandled) + 1 /\ DOMAIN pkHandled = 1 .. Len(pkHandled)
        /\ Len(pkHandled) \in Nat
        /\ pkHandled'[Len(pkHandled) + 1] = new
        /\ \A i \in 1 .. Len(pkHandled) : pkHandled'[i] = pkHandled[i]
    BY <1>1, <1>3, <1>6
  <1>9. PacketTypes'
    <2>1. pkPhase' \in {"header", "length", "rest", "drop", "down"} /\ pkPhase' # "down"
      BY <1>1
    <2>2. pkHeader' \in Bytes \cup {Null} /\ pkTorn' \in BOOLEAN /\ pkLeft' \in Nat /\ pkSent' \in Seq(Nat)
      BY <1>1, <1>3
    <2> QED
      BY <1>5, <1>8, <2>1, <2>2 DEF PacketTypes
  <1>10. ASSUME ~pkTorn
         PROVE  /\ Stream(pkWire) /\ Within(pkLeft) /\ pkLeft = pkSent[pkHeader.packet] /\ Older
                /\ pkHeader \in Bytes /\ pkHeader.packet \in 1 .. Len(pkSent)
                /\ <<pkHeader, [pkHeader EXCEPT !.at = 2]>> \o rest
                     = Packets!Packet(pkHeader.packet, pkSent[pkHeader.packet])
                /\ \A i \in 1 .. Len(pkHandled) : ~pkHandled[i].torn =>
                       pkHandled[i].header.packet < pkHeader.packet
    <2>1. Stream(pkWire) /\ Within(pkLeft) /\ pkLeft = pkSent[pkHeader.packet] /\ Older
      BY <1>1, <1>10 DEF PacketInv, Position
    <2>2. pkHeader \in Bytes /\ pkHeader.packet \in 1 .. Len(pkSent)
      BY <2>1 DEF Within
    <2>3. <<pkHeader, [pkHeader EXCEPT !.at = 2]>> \o rest
            = Packets!Packet(pkHeader.packet, pkSent[pkHeader.packet])
      BY <1>2, <1>3, <2>1, PacketRead DEF rest
    <2>4. \A i \in 1 .. Len(pkHandled) : ~pkHandled[i].torn => pkHandled[i].header.packet < pkHeader.packet
      BY <1>1, <1>8, <2>1 DEF Older
    <2> QED
      BY <2>1, <2>2, <2>3, <2>4
  <1>11. HandledWhole'
    <2> SUFFICES ASSUME NEW i \in DOMAIN pkHandled', ~pkHandled'[i].torn
                 PROVE  /\ pkHandled'[i].header \in Bytes /\ pkHandled'[i].header.packet \in 1 .. Len(pkSent)
                        /\ <<pkHandled'[i].header, [pkHandled'[i].header EXCEPT !.at = 2]>> \o pkHandled'[i].rest
                             = Packets!Packet(pkHandled'[i].header.packet, pkSent[pkHandled'[i].header.packet])
                        /\ \A j \in 1 .. i - 1 : ~pkHandled'[j].torn =>
                               pkHandled'[j].header.packet < pkHandled'[i].header.packet
      BY <1>1 DEF HandledWhole, Packets!Packet
    <2>1. CASE i \in 1 .. Len(pkHandled)
      <3>1. pkHandled'[i] = pkHandled[i] /\ i \in DOMAIN pkHandled /\ ~pkHandled[i].torn
        BY <1>8, <2>1
      <3>2. \A j \in 1 .. i - 1 : pkHandled'[j] = pkHandled[j]
        BY <1>8, <2>1
      <3>3. /\ pkHandled[i].header \in Bytes /\ pkHandled[i].header.packet \in 1 .. Len(pkSent)
            /\ <<pkHandled[i].header, [pkHandled[i].header EXCEPT !.at = 2]>> \o pkHandled[i].rest
                 = Packets!Packet(pkHandled[i].header.packet, pkSent[pkHandled[i].header.packet])
            /\ \A j \in 1 .. i - 1 : ~pkHandled[j].torn =>
                   pkHandled[j].header.packet < pkHandled[i].header.packet
        BY <1>2, <3>1 DEF HandledWhole
      <3> QED
        BY <3>1, <3>2, <3>3
    <2>2. CASE i = Len(pkHandled) + 1
      <3>1. pkHandled'[i] = new /\ ~pkTorn
        BY <1>7, <1>8, <2>2
      <3>2. \A j \in 1 .. i - 1 : j \in 1 .. Len(pkHandled) /\ pkHandled'[j] = pkHandled[j]
        BY <1>8, <2>2
      <3> QED
        BY <1>7, <1>10, <3>1, <3>2
    <2>3. i \in 1 .. Len(pkHandled) \/ i = Len(pkHandled) + 1
      BY <1>8
    <2> QED
      BY <2>1, <2>2, <2>3
  <1>12. ASSUME ~pkTorn' PROVE Stream(pkWire)' /\ Position' /\ Older'
    <2>1. ~pkTorn
      BY <1>1, <1>12
    <2> PICK c \in Nat : c = pkLeft
      BY <1>3
    <2>2. c <= Len(pkWire) /\ c <= c /\ Within(c) /\ Stream(pkWire) /\ c - c = 0
          /\ pkWire' = SubSeq(pkWire, c + 1, Len(pkWire))
      BY <1>1, <1>3, <1>10, <2>1
    <2>3. Stream(pkWire)' /\ Within(c - c)'
      BY <1>1, <1>2, <2>2, WithinCut
    <2>4. Within(0)'
      BY <2>2, <2>3
    <2>5. Position'
      <3>1. AtStart'
        BY <2>4 DEF Within
      <3> QED
        BY <1>1, <3>1 DEF Position
    <2>6. \A k \in 1 .. Len(pkWire') : pkHeader.packet < pkWire'[k].packet
      <3>1. \A k \in 1 .. Len(pkWire') : k > 0 => pkHeader'.packet < pkWire'[k].packet
        BY <2>4 DEF Within
      <3>2. \A k \in 1 .. Len(pkWire') : k > 0
        BY <1>3, <1>5
      <3> QED
        BY <1>1, <3>1, <3>2
    <2>7. Older'
      <3> SUFFICES ASSUME NEW i \in DOMAIN pkHandled', ~pkHandled'[i].torn, NEW k \in 1 .. Len(pkWire')
                   PROVE  pkHandled'[i].header.packet < pkWire'[k].packet
        BY <1>1 DEF Older
      <3>1. CASE i \in 1 .. Len(pkHandled)
        <4>1. pkHandled'[i] = pkHandled[i] /\ i \in DOMAIN pkHandled /\ ~pkHandled[i].torn
          BY <1>8, <3>1
        <4>2. k + pkLeft \in 1 .. Len(pkWire) /\ pkWire'[k] = pkWire[k + pkLeft]
          BY <1>5
        <4> QED
          BY <1>10, <2>1, <4>1, <4>2 DEF Older
      <3>2. CASE i = Len(pkHandled) + 1
        BY <1>7, <1>8, <2>6, <3>2
      <3> QED
        BY <1>8, <3>1, <3>2
    <2> QED
      BY <2>3, <2>5, <2>7
  <1> QED
    BY <1>9, <1>11, <1>12 DEF PacketInv

LEMMA PacketsReadPart ==
    ASSUME PacketInv, Packets!ReadPart
    PROVE  PacketInv'
  <1> DEFINE part == Packets!Part(pkLeft)
  <1>1. /\ pkPhase = "drop" /\ Len(pkWire) >= part
        /\ pkWire' = SubSeq(pkWire, part + 1, Len(pkWire))
        /\ pkLeft' = IF part < pkLeft THEN pkLeft - part ELSE 0
        /\ pkPhase' = IF part < pkLeft THEN "drop" ELSE "header"
        /\ pkSent' = pkSent /\ pkHeader' = pkHeader /\ pkTorn' = pkTorn /\ pkHandled' = pkHandled
    BY DEF Packets!ReadPart
  <1>2. PacketTypes /\ HandledWhole
    BY DEF PacketInv
  <1>3. /\ pkWire \in Seq(Bytes) /\ pkLeft \in Nat /\ Len(pkWire) \in Nat /\ pkSent \in Seq(Nat)
    BY <1>2 DEF PacketTypes
  <1>4. part \in Nat /\ part <= pkLeft
    BY <1>3, PacketAssumption DEF Packets!Part
  <1> HIDE DEF part
  <1>5. /\ pkWire' \in Seq(Bytes) /\ Len(pkWire') = Len(pkWire) - part
        /\ \A k \in 1 .. Len(pkWire') : k + part \in 1 .. Len(pkWire) /\ pkWire'[k] = pkWire[k + part]
        /\ \A k \in 1 .. Len(pkWire') : pkWire'[k].packet \in 1 .. Len(pkSent')
    <2> PICK r \in Nat : r = part
      BY <1>4
    <2>1. r <= Len(pkWire) /\ pkWire' = SubSeq(pkWire, r + 1, Len(pkWire))
      BY <1>1, <1>3
    <2>2. /\ pkWire' \in Seq(Bytes) /\ Len(pkWire') = Len(pkWire) - r
          /\ \A k \in 1 .. Len(pkWire') : k + r \in 1 .. Len(pkWire) /\ pkWire'[k] = pkWire[k + r]
          /\ \A k \in 1 .. Len(pkWire') : pkWire'[k].packet \in 1 .. Len(pkSent')
      BY <1>1, <1>2, <2>1, TypesCut
    <2> QED
      BY <2>2
  <1>6. pkLeft' \in Nat /\ pkLeft' = pkLeft - part
    BY <1>1, <1>3, <1>4
  <1>7. PacketTypes'
    <2>1. pkPhase' \in {"header", "length", "rest", "drop", "down"} /\ pkPhase' # "down"
      BY <1>1
    <2> QED
      BY <1>1, <1>2, <1>5, <1>6, <2>1 DEF PacketTypes
  <1>8. HandledWhole'
    BY <1>1, <1>2, HandledStays
  <1>9. ASSUME ~pkTorn' PROVE Stream(pkWire)' /\ Position' /\ Older'
    <2>1. Stream(pkWire) /\ Within(pkLeft) /\ Older
      BY <1>1, <1>9 DEF PacketInv, Position
    <2> PICK c \in Nat : c = pkLeft
      BY <1>3
    <2> PICK r \in Nat : r = part
      BY <1>4
    <2>2. r <= Len(pkWire) /\ r <= c /\ Within(c) /\ pkWire' = SubSeq(pkWire, r + 1, Len(pkWire))
      BY <1>1, <1>3, <1>4, <2>1
    <2>3. Stream(pkWire)' /\ Within(c - r)'
      BY <1>1, <1>2, <2>1, <2>2, WithinCut
    <2>4. c - r = pkLeft'
      BY <1>6
    <2>5. Within(pkLeft)'
      BY <2>3, <2>4
    <2>6. Position'
      <3>1. CASE part < pkLeft
        BY <1>1, <2>5, <3>1 DEF Position
      <3>2. CASE ~(part < pkLeft)
        <4>1. pkLeft' = 0 /\ pkPhase' = "header"
          BY <1>1, <3>2
        <4>2. AtStart'
          BY <2>5, <4>1 DEF Within
        <4> QED
          BY <4>1, <4>2 DEF Position
      <3> QED
        BY <3>1, <3>2
    <2>7. Older'
      BY <1>1, <1>5, <2>1 DEF Older
    <2> QED
      BY <2>3, <2>6, <2>7
  <1> QED
    BY <1>7, <1>8, <1>9 DEF PacketInv

LEMMA PacketsReadStalls ==
    ASSUME PacketInv, NEW n \in 0 .. Len(pkWire), Packets!ReadStalls(n)
    PROVE  PacketInv'
  <1>1. /\ pkWire' = SubSeq(pkWire, n + 1, Len(pkWire)) /\ pkPhase' = "header" /\ pkTorn' = TRUE
        /\ pkSent' = pkSent /\ pkHeader' = pkHeader /\ pkLeft' = pkLeft /\ pkHandled' = pkHandled
    BY DEF Packets!ReadStalls
  <1>2. PacketTypes /\ HandledWhole
    BY DEF PacketInv
  <1>3. n \in Nat /\ n <= Len(pkWire)
    <2>1. Len(pkWire) \in Nat
      BY <1>2 DEF PacketTypes
    <2> QED
      BY <2>1
  <1>4. /\ pkWire' \in Seq(Bytes)
        /\ \A k \in 1 .. Len(pkWire') : pkWire'[k].packet \in 1 .. Len(pkSent')
    BY <1>1, <1>2, <1>3, TypesCut
  <1>5. PacketTypes'
    <2>1. pkPhase' \in {"header", "length", "rest", "drop", "down"} /\ pkPhase' # "down"
      BY <1>1
    <2>2. pkTorn' \in BOOLEAN
      BY <1>1
    <2> QED
      BY <1>1, <1>2, <1>4, <2>1, <2>2 DEF PacketTypes
  <1>6. HandledWhole'
    BY <1>1, <1>2, HandledStays
  <1> QED
    BY <1>1, <1>5, <1>6 DEF PacketInv

LEMMA PacketsBreak ==
    ASSUME PacketInv, Packets!Breaks
    PROVE  PacketInv'
  <1>1. /\ pkWire' = <<>> /\ pkPhase' = "down" /\ pkTorn' = pkTorn
        /\ pkSent' = pkSent /\ pkHeader' = pkHeader /\ pkLeft' = pkLeft /\ pkHandled' = pkHandled
    BY DEF Packets!Breaks
  <1>2. PacketTypes /\ HandledWhole
    BY DEF PacketInv
  <1>3. pkWire' \in Seq(Bytes) /\ Len(pkWire') = 0 /\ 1 .. Len(pkWire') = {}
    BY <1>1
  <1>4. PacketTypes'
    <2>1. pkPhase' \in {"header", "length", "rest", "drop", "down"}
      BY <1>1
    <2> QED
      BY <1>1, <1>2, <1>3, <2>1 DEF PacketTypes
  <1>5. HandledWhole'
    BY <1>1, <1>2, HandledStays
  <1>6. Stream(pkWire')
    BY <1>3 DEF Stream
  <1>7. Stream(pkWire)' /\ Position' /\ Older'
    BY <1>1, <1>3, <1>6, StreamStays DEF Position, Older
  <1> QED
    BY <1>4, <1>5, <1>7 DEF PacketInv

LEMMA PacketsReconnect ==
    ASSUME PacketInv, Packets!Reconnect
    PROVE  PacketInv'
  <1>1. /\ pkPhase = "down" /\ pkPhase' = "header" /\ pkTorn' = FALSE /\ pkWire' = pkWire
        /\ pkSent' = pkSent /\ pkHeader' = pkHeader /\ pkLeft' = pkLeft /\ pkHandled' = pkHandled
    BY DEF Packets!Reconnect
  <1>2. PacketTypes /\ HandledWhole
    BY DEF PacketInv
  <1>3. pkWire' = <<>> /\ pkWire' \in Seq(Bytes) /\ Len(pkWire') = 0 /\ 1 .. Len(pkWire') = {}
    BY <1>1, <1>2 DEF PacketTypes
  <1>4. PacketTypes'
    <2>1. pkPhase' \in {"header", "length", "rest", "drop", "down"} /\ pkPhase' # "down"
      BY <1>1
    <2>2. pkTorn' \in BOOLEAN
      BY <1>1
    <2> QED
      BY <1>1, <1>2, <1>3, <2>1, <2>2 DEF PacketTypes
  <1>5. HandledWhole'
    BY <1>1, <1>2, HandledStays
  <1>6. Stream(pkWire')
    BY <1>3 DEF Stream
  <1>7. Stream(pkWire)' /\ Position' /\ Older'
    BY <1>1, <1>3, <1>6, StreamStays DEF Position, Older, AtStart
  <1> QED
    BY <1>4, <1>5, <1>7 DEF PacketInv

\* A packet behind the others.
Lengthened(v, w, n, c) ==
    /\ v \in Seq(Bytes) /\ Len(w) \in Nat /\ Len(v) = Len(w) + (c + 2)
    /\ \A k \in 1 .. Len(w) : v[k] = w[k]
    /\ \A k \in 1 .. Len(w) + (c + 2) : k > Len(w) => v[k] = [packet |-> n, at |-> k - Len(w)]

LEMMA PacketBehind ==
    ASSUME NEW w \in Seq(Bytes), NEW c \in Nat, NEW n \in Nat
    PROVE  Lengthened(w \o Packets!Packet(n, c), w, n, c)
  <1> DEFINE p == Packets!Packet(n, c)
             v == w \o p
  <1>1. p = [i \in 1 .. c + 2 |-> [packet |-> n, at |-> i]]
    BY DEF Packets!Packet
  <1>2. c + 2 \in Nat /\ \A i \in 1 .. c + 2 : [packet |-> n, at |-> i] \in Bytes
    BY DEF Bytes
  <1>3. p \in Seq(Bytes) /\ Len(p) = c + 2 /\ \A i \in 1 .. c + 2 : p[i] = [packet |-> n, at |-> i]
    BY <1>1, <1>2
  <1> HIDE DEF p
  <1>4. v = w \o p /\ Len(w) \in Nat
    OBVIOUS
  <1> HIDE DEF v
  <1>5. /\ v \in Seq(Bytes) /\ Len(v) = Len(w) + Len(p)
        /\ \A i \in 1 .. Len(w) + Len(p) : v[i] = IF i <= Len(w) THEN w[i] ELSE p[i - Len(w)]
    <2>1. p \in Seq(Bytes)
      BY <1>3
    <2>2. w \o p \in Seq(Bytes) /\ Len(w \o p) = Len(w) + Len(p)
      BY <2>1, ConcatPlain
    <2>3. \A i \in 1 .. Len(w) + Len(p) : (w \o p)[i] = IF i <= Len(w) THEN w[i] ELSE p[i - Len(w)]
      BY <2>1, ConcatPlain
    <2> QED
      BY <1>4, <2>2, <2>3
  <1>6. ASSUME NEW k \in 1 .. Len(w) PROVE v[k] = w[k]
    <2>1. k \in 1 .. Len(w) + Len(p) /\ k <= Len(w)
      BY <1>2, <1>3, <1>4
    <2> QED
      BY <1>5, <2>1
  <1>7. ASSUME NEW k \in 1 .. Len(w) + (c + 2), k > Len(w) PROVE v[k] = [packet |-> n, at |-> k - Len(w)]
    <2>1. k \in 1 .. Len(w) + Len(p) /\ ~(k <= Len(w)) /\ k - Len(w) \in 1 .. c + 2
      BY <1>2, <1>3, <1>4, <1>7
    <2>2. v[k] = p[k - Len(w)]
      BY <1>5, <2>1
    <2> QED
      BY <1>3, <2>1, <2>2
  <1>8. v \in Seq(Bytes) /\ Len(v) = Len(w) + (c + 2)
    BY <1>3, <1>5
  <1> QED
    BY <1>4, <1>6, <1>7, <1>8 DEF v, p, Lengthened

LEMMA PacketsSend ==
    ASSUME PacketInv, NEW length \in Lengths, Packets!BrokerSends(length)
    PROVE  PacketInv'
  <1> PICK n \in Nat : n = Len(pkSent) + 1
    BY DEF PacketInv, PacketTypes
  <1> PICK m \in Nat : m = Len(pkWire)
    BY DEF PacketInv, PacketTypes
  <1>1. /\ pkSent' = Append(pkSent, length) /\ pkWire' = pkWire \o Packets!Packet(Len(pkSent'), length)
        /\ pkPhase # "down"
        /\ pkPhase' = pkPhase /\ pkHeader' = pkHeader /\ pkLeft' = pkLeft /\ pkHandled' = pkHandled
        /\ pkTorn' = pkTorn
    BY DEF Packets!BrokerSends
  <1>2. PacketTypes /\ HandledWhole
    BY DEF PacketInv
  <1>3. pkWire \in Seq(Bytes) /\ pkSent \in Seq(Nat) /\ length \in Nat
    BY <1>2, PacketAssumption DEF PacketTypes
  <1>4. /\ pkSent' \in Seq(Nat) /\ Len(pkSent') = n /\ pkSent'[n] = length
        /\ \A k \in 1 .. Len(pkSent) : k < n /\ k \in 1 .. n /\ pkSent'[k] = pkSent[k]
        /\ n \in 1 .. n
    <2>1. Append(pkSent, length) \in Seq(Nat) /\ Len(Append(pkSent, length)) = Len(pkSent) + 1
          /\ Append(pkSent, length)[Len(pkSent) + 1] = length
          /\ \A k \in 1 .. Len(pkSent) : Append(pkSent, length)[k] = pkSent[k]
      BY <1>3
    <2>2. Len(pkSent) \in Nat
      BY <1>3
    <2> QED
      BY <1>1, <2>1, <2>2
  <1>5. /\ pkWire' \in Seq(Bytes) /\ Len(pkWire') = m + (length + 2)
        /\ \A k \in 1 .. m : pkWire'[k] = pkWire[k]
        /\ \A k \in 1 .. m + (length + 2) : k > m => pkWire'[k] = [packet |-> n, at |-> k - m]
    <2>1. pkWire' = pkWire \o Packets!Packet(n, length)
      BY <1>1, <1>4
    <2>2. Lengthened(pkWire \o Packets!Packet(n, length), pkWire, n, length)
      BY <1>3, PacketBehind, Zenon
    <2>3. Lengthened(pkWire', pkWire, n, length)
      BY <2>1, <2>2
    <2> QED
      BY <2>3 DEF Lengthened
  <1>6. \A k \in 1 .. m : pkWire[k].packet \in 1 .. Len(pkSent) /\ pkWire[k].packet < n
    BY <1>2, <1>4 DEF PacketTypes
  \* A byte of the new stream is one of the old or one of the new packet.
  <1>7. ASSUME NEW k \in 1 .. Len(pkWire')
        PROVE  \/ /\ k \in 1 .. m /\ pkWire'[k] = pkWire[k] /\ pkSent'[pkWire'[k].packet] = pkSent[pkWire[k].packet]
                  /\ pkWire'[k].packet < n /\ pkWire'[k].packet \in 1 .. Len(pkSent')
               \/ k \in Nat /\ k > m /\ k - m \in 1 .. length + 2 /\ pkWire'[k].packet = n /\ pkWire'[k].at = k - m
    <2>1. CASE k \in 1 .. m
      BY <1>4, <1>5, <1>6, <2>1
    <2>2. CASE k > m
      <3>1. k \in 1 .. m + (length + 2) /\ k - m \in 1 .. length + 2
        BY <1>3, <1>5, <2>2
      <3>2. pkWire'[k] = [packet |-> n, at |-> k - m]
        BY <1>5, <2>2, <3>1
      <3> QED
        BY <2>2, <3>1, <3>2
    <2>3. k \in 1 .. m \/ k > m
      BY <1>5
    <2> QED
      BY <2>1, <2>2, <2>3
  <1>8. PacketTypes'
    <2>1. \A k \in 1 .. Len(pkWire') : pkWire'[k].packet \in 1 .. Len(pkSent')
      BY <1>4, <1>7
    <2> QED
      BY <1>1, <1>2, <1>4, <1>5, <2>1 DEF PacketTypes
  <1>9. HandledWhole'
    <2> SUFFICES ASSUME NEW i \in DOMAIN pkHandled', ~pkHandled'[i].torn
                 PROVE  /\ pkHandled'[i].header \in Bytes /\ pkHandled'[i].header.packet \in 1 .. Len(pkSent')
                        /\ <<pkHandled'[i].header, [pkHandled'[i].header EXCEPT !.at = 2]>> \o pkHandled'[i].rest
                             = Packets!Packet(pkHandled'[i].header.packet, pkSent'[pkHandled'[i].header.packet])
                        /\ \A j \in 1 .. i - 1 : ~pkHandled'[j].torn =>
                               pkHandled'[j].header.packet < pkHandled'[i].header.packet
      BY DEF HandledWhole, Packets!Packet
    <2>4. pkHandled' = pkHandled
      BY <1>1
    <2>1. /\ pkHandled[i].header \in Bytes /\ pkHandled[i].header.packet \in 1 .. Len(pkSent)
          /\ <<pkHandled[i].header, [pkHandled[i].header EXCEPT !.at = 2]>> \o pkHandled[i].rest
               = Packets!Packet(pkHandled[i].header.packet, pkSent[pkHandled[i].header.packet])
          /\ \A j \in 1 .. i - 1 : ~pkHandled[j].torn =>
                 pkHandled[j].header.packet < pkHandled[i].header.packet
      BY <1>2, <2>4 DEF HandledWhole
    <2> DEFINE q == pkHandled[i].header.packet
    <2>2. q \in 1 .. Len(pkSent)
      BY <2>1
    <2> HIDE DEF q
    <2>3. pkSent'[q] = pkSent[q] /\ q \in 1 .. Len(pkSent')
      BY <1>4, <2>2
    <2> QED
      BY <2>1, <2>3, <2>4 DEF q
  <1>10. ASSUME Stream(pkWire) PROVE Stream(pkWire)'
    <2>1. ASSUME NEW k \in 1 .. Len(pkWire')
          PROVE  /\ pkWire'[k].packet \in 1 .. Len(pkSent')
                 /\ pkWire'[k].at \in Nat /\ pkWire'[k].at > 0 /\ Behind(pkWire, k)' \in Nat
                 /\ k + Behind(pkWire, k)' <= Len(pkWire')
                 /\ k \in 1 .. m => Behind(pkWire, k)' = Behind(pkWire, k) /\ k + Behind(pkWire, k) <= m
                 /\ k > m => Behind(pkWire, k)' = length + 2 - (k - m)
      <3>1. CASE k \in 1 .. m
        <4>1. /\ pkWire'[k] = pkWire[k] /\ pkSent'[pkWire'[k].packet] = pkSent[pkWire[k].packet]
              /\ pkWire'[k].packet \in 1 .. Len(pkSent') /\ ~(k > m)
          BY <1>7, <3>1
        <4>2. Behind(pkWire, k)' = Behind(pkWire, k)
          BY <4>1 DEF Behind
        <4>3. pkWire[k].at \in Nat /\ pkWire[k].at > 0 /\ Behind(pkWire, k) \in Nat /\ k + Behind(pkWire, k) <= m
          BY <1>10, <3>1 DEF Stream
        <4> QED
          BY SMTT(30), <1>3, <1>5, <4>1, <4>2, <4>3
      <3>2. CASE k > m
        <4>1. k - m \in 1 .. length + 2 /\ pkWire'[k].packet = n /\ pkWire'[k].at = k - m /\ ~(k \in 1 .. m)
          BY <1>7, <3>2
        <4>2. Behind(pkWire, k)' = length + 2 - (k - m)
          BY <1>4, <4>1 DEF Behind
        <4> QED
          BY <1>3, <1>4, <1>5, <3>2, <4>1, <4>2
      <3>3. k \in 1 .. m \/ k > m
        BY <1>5
      <3> QED
        BY <3>1, <3>2, <3>3
    <2>2. ASSUME NEW k \in 1 .. Len(pkWire'), NEW l \in 1 .. Len(pkWire'), k <= l
          PROVE  /\ l - k <= Behind(pkWire, k)' => pkWire'[l].packet = pkWire'[k].packet /\ pkWire'[l].at = pkWire'[k].at + (l - k)
                 /\ l - k = Behind(pkWire, k)' + 1 => pkWire'[l].at = 1
                 /\ l - k > Behind(pkWire, k)' => pkWire'[k].packet < pkWire'[l].packet
      <3>1. CASE l \in 1 .. m
        <4>1. k \in 1 .. m
          BY <2>2, <3>1
        <4>2. pkWire'[l] = pkWire[l] /\ pkWire'[k] = pkWire[k] /\ Behind(pkWire, k)' = Behind(pkWire, k)
          BY <1>5, <2>1, <3>1, <4>1
        <4>3. /\ l - k <= Behind(pkWire, k) => pkWire[l].packet = pkWire[k].packet /\ pkWire[l].at = pkWire[k].at + (l - k)
              /\ l - k = Behind(pkWire, k) + 1 => pkWire[l].at = 1
              /\ l - k > Behind(pkWire, k) => pkWire[k].packet < pkWire[l].packet
          BY <1>10, <2>2, <3>1, <4>1 DEF Stream
        <4> QED
          BY <4>2, <4>3
      <3>2. CASE l > m /\ k \in 1 .. m
        <4>1. Behind(pkWire, k)' \in Nat /\ k + Behind(pkWire, k)' <= m
          BY <2>1, <3>2
        <4>2. pkWire'[l].packet = n /\ pkWire'[l].at = l - m /\ pkWire'[k].packet < n
          BY <1>7, <3>2
        <4>3. l - k > Behind(pkWire, k)' /\ (l - k = Behind(pkWire, k)' + 1 => l - m = 1)
          BY <3>2, <4>1
        <4>4. ~(l - k <= Behind(pkWire, k)')
          BY <3>2, <4>1
        <4> QED
          BY <4>2, <4>3, <4>4
      <3>3. CASE l > m /\ k > m
        <4>1. Behind(pkWire, k)' = length + 2 - (k - m)
          BY <2>1, <3>3
        <4>2. /\ pkWire'[l].packet = n /\ pkWire'[l].at = l - m /\ l - m \in 1 .. length + 2
              /\ pkWire'[k].packet = n /\ pkWire'[k].at = k - m
          <5>1. ~(k \in 1 .. m) /\ ~(l \in 1 .. m)
            BY <3>3
          <5>2. pkWire'[k].packet = n /\ pkWire'[k].at = k - m
            BY <1>7, <5>1
          <5>3. pkWire'[l].packet = n /\ pkWire'[l].at = l - m /\ l - m \in 1 .. length + 2
            BY <1>7, <5>1
          <5> QED
            BY <5>2, <5>3
        <4>5. k \in Nat /\ l \in Nat /\ l - m <= length + 2
          BY <1>5, <3>3, <4>2
        <4>3. l - k <= length + 2 - (k - m) /\ ~(l - k = length + 2 - (k - m) + 1) /\ ~(l - k > length + 2 - (k - m))
          BY <1>3, <4>5
        <4>4. l - m = (k - m) + (l - k)
          BY <4>5
        <4> QED
          BY <4>1, <4>2, <4>3, <4>4
      <3>4. (l \in 1 .. m) \/ (l > m /\ k \in 1 .. m) \/ (l > m /\ k > m)
        BY <1>5
      <3> QED
        BY <3>1, <3>2, <3>3, <3>4
    <2> QED
      BY <1>5, <2>1, <2>2 DEF Stream
  <1>11. ASSUME AtStart PROVE AtStart'
    <2>1. CASE m > 0
      <3>1. 1 \in 1 .. m /\ pkWire[1].at = 1
        BY <1>11, <2>1 DEF AtStart
      <3> QED
        BY <1>5, <3>1 DEF AtStart
    <2>2. CASE m = 0
      <3>1. 1 \in 1 .. m + (length + 2) /\ 1 > m /\ 1 - m = 1
        BY <1>3, <2>2
      <3>2. pkWire'[1] = [packet |-> n, at |-> 1 - m]
        BY <1>5, <3>1
      <3>3. pkWire'[1].at = 1
        BY <3>1, <3>2
      <3> QED
        BY <3>3 DEF AtStart
    <2> QED
      BY <2>1, <2>2
  <1>12. ASSUME NEW left \in Nat, Within(left) PROVE Within(left)'
    <2> DEFINE h == pkHeader.packet
    <2>1. /\ pkHeader \in Bytes /\ pkHeader.at = 1 /\ h \in 1 .. Len(pkSent) /\ left <= pkSent[h] + 1
          /\ left > 0 => m > 0 /\ pkWire[1].packet = h /\ pkWire[1].at = pkSent[h] + 3 - left
          /\ left = 0 => AtStart
          /\ \A k \in 1 .. m : k > left => h < pkWire[k].packet
      BY <1>12 DEF Within
    <2> HIDE DEF h
    <2>2. h \in 1 .. Len(pkSent') /\ h < n /\ pkSent'[h] = pkSent[h]
      BY <1>4, <2>1
    <2>3. left > 0 => Len(pkWire') > 0 /\ pkWire'[1].packet = h /\ pkWire'[1].at = pkSent'[h] + 3 - left
      <3> SUFFICES ASSUME left > 0
                   PROVE  Len(pkWire') > 0 /\ pkWire'[1].packet = h /\ pkWire'[1].at = pkSent'[h] + 3 - left
        OBVIOUS
      <3>1. 1 \in 1 .. m
        BY <2>1
      <3>2. pkWire'[1] = pkWire[1] /\ Len(pkWire') > 0
        BY <1>3, <1>5, <3>1
      <3> QED
        BY <2>1, <2>2, <3>2
    <2>4. \A k \in 1 .. Len(pkWire') : k > left => h < pkWire'[k].packet
      BY <1>7, <2>1, <2>2
    <2>5. left = 0 => AtStart'
      BY <1>11, <2>1
    <2>6. h = pkHeader'.packet /\ pkHeader' = pkHeader
      BY <1>1 DEF h
    <2> QED
      BY <2>1, <2>2, <2>3, <2>4, <2>5, <2>6 DEF Within
  <1>13. ASSUME ~pkTorn' PROVE Stream(pkWire)' /\ Position' /\ Older'
    <2>1. Stream(pkWire) /\ Position /\ Older
      BY <1>1, <1>13 DEF PacketInv
    <2>2. Stream(pkWire)'
      BY <1>10, <2>1
    <2>3. ASSUME pkPhase = "length" PROVE Within(pkSent[pkHeader.packet] + 1)'
      <3>1. Within(pkSent[pkHeader.packet] + 1)
        BY <2>1, <2>3 DEF Position
      <3>2. pkHeader.packet \in 1 .. Len(pkSent) /\ pkSent[pkHeader.packet] + 1 \in Nat
        BY <3>1 DEF Within
      <3> PICK c \in Nat : c = pkSent[pkHeader.packet] + 1
        BY <3>2
      <3>3. Within(c)'
        BY <1>12, <3>1
      <3>4. pkSent'[pkHeader'.packet] + 1 = c
        BY <1>1, <1>4, <3>2
      <3> QED
        BY <3>3, <3>4
    <2>4. ASSUME pkPhase \in {"rest", "drop"} PROVE Within(pkLeft)' /\ pkHeader.packet \in 1 .. Len(pkSent)
      <3>1. Within(pkLeft)
        BY <2>1, <2>4 DEF Position
      <3> PICK c \in Nat : c = pkLeft
        BY <1>2 DEF PacketTypes
      <3>2. Within(c)'
        BY <1>12, <3>1
      <3>3. pkLeft' = c
        BY <1>1
      <3> QED
        BY <3>1, <3>2, <3>3 DEF Within
    <2>5. pkPhase = "rest" => pkLeft' = pkSent'[pkHeader'.packet]
      BY <1>1, <1>4, <2>1, <2>4 DEF Position
    <2>6. pkPhase = "header" => AtStart'
      BY <1>11, <2>1 DEF Position
    <2>7. Position'
      BY <1>1, <2>3, <2>4, <2>5, <2>6 DEF Position
    <2>8. \A i \in DOMAIN pkHandled : ~pkHandled[i].torn => pkHandled[i].header.packet \in 1 .. Len(pkSent)
      BY <1>2 DEF HandledWhole
    <2>9. Older'
      <3> SUFFICES ASSUME NEW i \in DOMAIN pkHandled, ~pkHandled[i].torn
                   PROVE  /\ \A k \in 1 .. Len(pkWire') : pkHandled[i].header.packet < pkWire'[k].packet
                          /\ pkPhase \in {"length", "rest", "drop"} => pkHandled[i].header.packet < pkHeader.packet
        BY <1>1 DEF Older
      <3>1. pkPhase \in {"length", "rest", "drop"} => pkHandled[i].header.packet < pkHeader.packet
        BY <2>1 DEF Older
      <3>2. \A k \in 1 .. m : pkHandled[i].header.packet < pkWire[k].packet
        BY <2>1 DEF Older
      <3>3. pkHandled[i].header.packet < n
        BY <1>4, <2>8
      <3>4. \A k \in 1 .. Len(pkWire') : pkHandled[i].header.packet < pkWire'[k].packet
        BY <1>7, <3>2, <3>3
      <3> QED
        BY <3>1, <3>4
    <2> QED
      BY <2>2, <2>7, <2>9
  <1> QED
    BY <1>8, <1>9, <1>13 DEF PacketInv

LEMMA PacketsNext == PacketInv /\ [Packets!Next]_packetsVars => PacketInv'
  <1> SUFFICES ASSUME PacketInv, [Packets!Next]_packetsVars PROVE PacketInv'
    OBVIOUS
  <1>1. CASE \E length \in Lengths : Packets!BrokerSends(length)
    BY <1>1, PacketsSend
  <1>2. CASE Packets!Breaks
    BY <1>2, PacketsBreak
  <1>3. CASE Packets!Reconnect
    BY <1>3, PacketsReconnect
  <1>4. CASE Packets!ReadHeader
    BY <1>4, PacketsReadHeader
  <1>5. CASE Packets!ReadLength
    BY <1>5, PacketsReadLength
  <1>6. CASE Packets!ReadRest
    BY <1>6, PacketsReadRest
  <1>7. CASE Packets!ReadPart
    BY <1>7, PacketsReadPart
  <1>8. CASE \E n \in 0 .. Len(pkWire) : Packets!ReadStalls(n)
    BY <1>8, PacketsReadStalls
  <1>9. CASE UNCHANGED packetsVars
    <2>1. /\ pkWire' = pkWire /\ pkSent' = pkSent /\ pkPhase' = pkPhase /\ pkHeader' = pkHeader
          /\ pkLeft' = pkLeft /\ pkHandled' = pkHandled /\ pkTorn' = pkTorn
      BY <1>9 DEF packetsVars
    <2>2. PacketTypes' <=> PacketTypes
      BY <2>1 DEF PacketTypes
    <2>3. HandledWhole => HandledWhole'
      BY <2>1, HandledStays
    <2>4. Stream(pkWire) => Stream(pkWire)'
      BY <2>1, StreamStays
    <2>5. Older' <=> Older
      BY <2>1 DEF Older
    <2>6. AtStart' <=> AtStart
      BY <2>1 DEF AtStart
    <2>7. Within(pkLeft)' <=> Within(pkLeft)
      BY <2>1, <2>6 DEF Within
    <2>8. Within(pkSent[pkHeader.packet] + 1)' <=> Within(pkSent[pkHeader.packet] + 1)
      BY <2>1, <2>6 DEF Within
    <2>9. Position' <=> Position
      BY <2>1, <2>6, <2>7, <2>8 DEF Position
    <2> QED
      BY <2>1, <2>2, <2>3, <2>4, <2>5, <2>9 DEF PacketInv
  <1> QED
    BY <1>1, <1>2, <1>3, <1>4, <1>5, <1>6, <1>7, <1>8, <1>9 DEF Packets!Next
=============================================================================
