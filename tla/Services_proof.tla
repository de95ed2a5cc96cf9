---------------------------- MODULE Services_proof ----------------------------
(* Theorems about the services, from the invariants of CloudServices_proof and  *)
(* DeviceServices_proof: whichever service runs, the variables of each of the  *)
(* others keep still, so an invariant that is inductive for a service alone    *)
(* holds of them all.  The topics, which Services adds, are proved about here. *)
EXTENDS Services, CloudServices_proof, DeviceServices_proof

(* A step of the services is a step of each of them, or it leaves it alone. *)
LEMMA StepOfEach ==
    ASSUME [Next]_allVars
    PROVE  /\ [Ota!Next]_otaVars /\ [Gw!Next]_gwVars /\ [Sync!Next]_syncVars
           /\ [Resource!Next]_resourceVars /\ [Commands!Next]_commandsVars
           /\ [Files!Next]_filesVars /\ [Wifi!Next]_wifiVars /\ [Net!Next]_netVars
           /\ [Lifecycle!Next]_lifecycleVars /\ [Speech!Next]_speechVars
           /\ [Log!Next]_logVars /\ [Url!Next]_urlVars /\ [Packets!Next]_packetsVars
           /\ [Lists!Next]_listVars /\ [Topics!Next]_topicsVars /\ [Digests!Next]_digestVars
           /\ [Codec!Next]_codecVars /\ [Documents!Next]_jsDone /\ [Register!Next]_registerVars
           /\ [Http!Next]_httpVars
  <1>1. CASE In("ota", Ota!Next)
    BY <1>1 DEF In
  <1>2. CASE In("gateway", Gw!Next)
    BY <1>2 DEF In
  <1>3. CASE In("sync", Sync!Next)
    BY <1>3 DEF In
  <1>4. CASE In("resource", Resource!Next)
    BY <1>4 DEF In
  <1>5. CASE In("commands", Commands!Next)
    BY <1>5 DEF In
  <1>6. CASE In("files", Files!Next)
    BY <1>6 DEF In
  <1>7. CASE In("wifi", Wifi!Next)
    BY <1>7 DEF In
  <1>8. CASE In("net", Net!Next)
    BY <1>8 DEF In
  <1>9. CASE In("lifecycle", Lifecycle!Next)
    BY <1>9 DEF In
  <1>10. CASE In("speech", Speech!Next)
    BY <1>10 DEF In
  <1>11. CASE In("topics", Topics!Next)
    BY <1>11 DEF In
  <1>12. CASE UNCHANGED allVars
    BY <1>12 DEF allVars
  <1>13. CASE In("log", Log!Next)
    BY <1>13 DEF In
  <1>14. CASE In("url", Url!Next)
    BY <1>14 DEF In
  <1>15. CASE In("packets", Packets!Next)
    BY <1>15 DEF In
  <1>16. CASE In("list", Lists!Next)
    BY <1>16 DEF In
  <1>17. CASE In("digest", Digests!Next)
    BY <1>17 DEF In
  <1>18. CASE In("codec", Codec!Next)
    BY <1>18 DEF In
  <1>19. CASE In("json", Documents!Next)
    BY <1>19 DEF In
  <1>20. CASE In("register", Register!Next)
    BY <1>20 DEF In
  <1>21. CASE In("http", Http!Next)
    BY <1>21 DEF In
  <1> QED
    BY <1>1, <1>2, <1>3, <1>4, <1>5, <1>6, <1>7, <1>8, <1>9, <1>10, <1>11, <1>12, <1>13,
       <1>14, <1>15, <1>16, <1>17, <1>18, <1>19, <1>20, <1>21 DEF Next

-----------------------------------------------------------------------------
(* Topics: the walk of _is_topic_matched along a filter and a name. *)

LEMMA TopicCards == \A S : Topics!Cardinality(S) = Cardinality(S)
  BY DEF Cardinality, Topics!Cardinality

\* No separator between these positions.
OneLevel(s, i, p) == \A k \in i .. p - 1 : s[k] # "/"

UpTo(s, p) == {j \in Topics!Begins(s) : j <= p}

(* The begins of the levels: the first position, and those behind a separator. *)
LEMMA BeginsAre ==
    ASSUME NEW S, NEW s \in Seq(S)
    PROVE  /\ Topics!Begins(s) \subseteq 1 .. Len(s) + 1 /\ 1 \in Topics!Begins(s)
           /\ \A i \in 1 .. Len(s) : i + 1 \in Topics!Begins(s) <=> s[i] = "/"
           /\ IsFiniteSet(Topics!Begins(s)) /\ Cardinality(Topics!Begins(s)) \in Nat
  <1>1. Len(s) \in Nat
    OBVIOUS
  <1>2. /\ Topics!Begins(s) \subseteq 1 .. Len(s) + 1 /\ 1 \in Topics!Begins(s)
        /\ \A i \in 1 .. Len(s) : i + 1 \in Topics!Begins(s) <=> s[i] = "/"
    BY <1>1 DEF Topics!Begins, Topics!Slash
  <1>3. IsFiniteSet(1 .. Len(s) + 1)
    BY <1>1, FS_Interval
  <1> QED
    BY <1>2, <1>3, FS_Subset, FS_CardinalityType

LEMMA NumberIs ==
    ASSUME NEW S, NEW s \in Seq(S), NEW p \in Topics!Begins(s)
    PROVE  /\ UpTo(s, p) \subseteq Topics!Begins(s) /\ IsFiniteSet(UpTo(s, p))
           /\ Topics!Number(s, p) = Cardinality(UpTo(s, p))
           /\ Topics!Number(s, p) \in 1 .. Cardinality(Topics!Begins(s))
  <1>1. UpTo(s, p) \in SUBSET Topics!Begins(s)
    BY DEF UpTo
  <1>2. /\ IsFiniteSet(UpTo(s, p)) /\ Cardinality(UpTo(s, p)) <= Cardinality(Topics!Begins(s))
        /\ Cardinality(UpTo(s, p)) \in Nat
    BY <1>1, BeginsAre, FS_Subset, FS_CardinalityType
  <1>3. UpTo(s, p) # {}
    BY BeginsAre DEF UpTo
  <1>4. Cardinality(UpTo(s, p)) # 0
    BY <1>2, <1>3, FS_EmptySet
  <1>5. Topics!Number(s, p) = Cardinality(UpTo(s, p))
    BY TopicCards DEF Topics!Number, UpTo
  <1> QED
    BY <1>1, <1>2, <1>4, <1>5, BeginsAre

(* Different begins have different numbers. *)
LEMMA NumbersDiffer ==
    ASSUME NEW S, NEW s \in Seq(S), NEW p \in Topics!Begins(s), NEW q \in Topics!Begins(s),
           Topics!Number(s, p) = Topics!Number(s, q)
    PROVE  p = q
  <1>1. ASSUME NEW a \in Topics!Begins(s), NEW b \in Topics!Begins(s), a < b,
               Topics!Number(s, a) = Topics!Number(s, b)
        PROVE  FALSE
    <2>1. a \in Int /\ b \in Int /\ Topics!Begins(s) \subseteq Int
      BY BeginsAre
    <2>2. UpTo(s, a) \in SUBSET UpTo(s, b)
      BY <1>1, <2>1 DEF UpTo
    <2>3. b \in UpTo(s, b) /\ b \notin UpTo(s, a)
      BY <1>1, <2>1 DEF UpTo
    <2>4. IsFiniteSet(UpTo(s, b)) /\ Cardinality(UpTo(s, a)) = Cardinality(UpTo(s, b))
      BY <1>1, NumberIs
    <2> QED
      BY <2>2, <2>3, <2>4, FS_Subset
  <1>2. p \in Int /\ q \in Int
    BY BeginsAre
  <1> QED
    BY <1>1, <1>2

(* The first level has number 1, the one behind a separator the next, the last *)
(* one that of them all.                                                       *)
LEMMA FirstNumber ==
    ASSUME NEW S, NEW s \in Seq(S)
    PROVE  Topics!Number(s, 1) = 1
  <1>1. UpTo(s, 1) = {1}
    BY BeginsAre DEF UpTo
  <1> QED
    BY <1>1, BeginsAre, NumberIs, FS_Singleton

LEMMA NextNumber ==
    ASSUME NEW S, NEW s \in Seq(S), NEW i \in Topics!Begins(s), NEW p \in i .. Len(s),
           OneLevel(s, i, p), s[p] = "/"
    PROVE  p + 1 \in Topics!Begins(s) /\ Topics!Number(s, p + 1) = Topics!Number(s, i) + 1
  <1>1. i \in 1 .. Len(s) + 1 /\ Len(s) \in Nat /\ p \in 1 .. Len(s)
    BY BeginsAre
  <1>2. p + 1 \in Topics!Begins(s)
    BY <1>1, BeginsAre
  <1>3. ASSUME NEW j \in Topics!Begins(s), j <= p + 1 PROVE j <= i \/ j = p + 1
    <2>1. j \in 1 .. Len(s) + 1
      BY BeginsAre
    <2>2. CASE j > i /\ j # p + 1
      <3>1. j - 1 \in i .. p - 1 /\ j - 1 \in 1 .. Len(s) /\ (j - 1) + 1 = j
        BY <1>1, <1>3, <2>1, <2>2
      <3>2. s[j - 1] = "/"
        BY <3>1, <1>3, BeginsAre
      <3> QED
        BY <3>1, <3>2 DEF OneLevel
    <2> QED
      BY <1>1, <2>1, <2>2
  <1>4. UpTo(s, p + 1) = UpTo(s, i) \cup {p + 1}
    <2>1. UpTo(s, p + 1) \subseteq UpTo(s, i) \cup {p + 1}
      BY <1>3 DEF UpTo
    <2>2. \A j \in Topics!Begins(s) : j <= i => j <= p + 1
      BY <1>1, BeginsAre
    <2>3. UpTo(s, i) \subseteq UpTo(s, p + 1)
      BY <2>2 DEF UpTo
    <2>4. p + 1 \in UpTo(s, p + 1)
      BY <1>1, <1>2 DEF UpTo
    <2> QED
      BY <2>1, <2>3, <2>4
  <1>5. p + 1 \notin UpTo(s, i)
    BY <1>1 DEF UpTo
  <1>6. Cardinality(UpTo(s, p + 1)) = Cardinality(UpTo(s, i)) + 1
    BY <1>4, <1>5, NumberIs, FS_AddElement
  <1> QED
    BY <1>2, <1>6, NumberIs

LEMMA LastNumber ==
    ASSUME NEW S, NEW s \in Seq(S), NEW i \in Topics!Begins(s), OneLevel(s, i, Len(s) + 1)
    PROVE  Topics!Number(s, i) = Cardinality(Topics!Begins(s))
  <1>1. i \in 1 .. Len(s) + 1 /\ Len(s) \in Nat
    BY BeginsAre
  <1>2. ASSUME NEW j \in Topics!Begins(s) PROVE j <= i
    <2>1. j \in 1 .. Len(s) + 1
      BY BeginsAre
    <2>2. CASE j > i
      <3>1. j - 1 \in i .. (Len(s) + 1) - 1 /\ j - 1 \in 1 .. Len(s) /\ (j - 1) + 1 = j
        BY <1>1, <2>1, <2>2
      <3>2. s[j - 1] = "/"
        BY <3>1, <1>2, BeginsAre
      <3> QED
        BY <3>1, <3>2 DEF OneLevel
    <2> QED
      BY <1>1, <2>1, <2>2
  <1>3. UpTo(s, i) = Topics!Begins(s)
    BY <1>2 DEF UpTo
  <1> QED
    BY <1>3, NumberIs

(* The level with a number is the one that begins there. *)
LEMMA LevelsAre ==
    ASSUME NEW S, NEW s \in Seq(S)
    PROVE  /\ DOMAIN Topics!Levels(s) = 1 .. Cardinality(Topics!Begins(s))
           /\ Len(Topics!Levels(s)) = Cardinality(Topics!Begins(s))
           /\ \A i \in Topics!Begins(s) :
                Topics!Levels(s)[Topics!Number(s, i)] = Topics!Level(s, i)
  <1> DEFINE At(n) == CHOOSE i \in Topics!Begins(s) : Topics!Number(s, i) = n
             count == Cardinality(Topics!Begins(s))
  <1>1. Topics!Levels(s) = [n \in 1 .. count |-> Topics!Level(s, At(n))] /\ count \in Nat
    BY TopicCards, BeginsAre DEF Topics!Levels
  <1>2. ASSUME NEW i \in Topics!Begins(s) PROVE At(Topics!Number(s, i)) = i
    <2>1. /\ At(Topics!Number(s, i)) \in Topics!Begins(s)
          /\ Topics!Number(s, At(Topics!Number(s, i))) = Topics!Number(s, i)
      BY <1>2
    <2> HIDE DEF At
    <2> QED
      BY <1>2, <2>1, NumbersDiffer
  <1> HIDE DEF At, count
  <1>3. \A i \in Topics!Begins(s) : Topics!Number(s, i) \in 1 .. count
    BY NumberIs DEF count
  <1>4. Len(Topics!Levels(s)) = count /\ DOMAIN Topics!Levels(s) = 1 .. count
    BY <1>1
  <1>5. \A i \in Topics!Begins(s) : Topics!Levels(s)[Topics!Number(s, i)] = Topics!Level(s, i)
    BY <1>1, <1>2, <1>3
  <1> QED
    BY <1>4, <1>5 DEF count

(* What a level holds: the characters up to the separator or the end. *)
LEMMA LevelIs ==
    ASSUME NEW S, NEW s \in Seq(S), NEW i \in Topics!Begins(s), NEW p \in i .. Len(s) + 1,
           OneLevel(s, i, p)
    PROVE  /\ Topics!Level(s, i) \in Seq(S)
           /\ p <= Len(s) /\ s[p] # "/" =>
                p - i + 1 \in 1 .. Len(Topics!Level(s, i)) /\ Topics!Level(s, i)[p - i + 1] = s[p]
           /\ p = Len(s) + 1 \/ s[p] = "/" => Len(Topics!Level(s, i)) = p - i
  <1> DEFINE ends == {j \in i .. Len(s) + 1 : j = Len(s) + 1 \/ s[j] = "/"}
             e == CHOOSE j \in ends : \A k \in ends : j <= k
  <1>1. i \in 1 .. Len(s) + 1 /\ Len(s) \in Nat /\ p \in 1 .. Len(s) + 1
    BY BeginsAre
  <1>2. ends \in SUBSET Nat /\ ends # {}
    <2>1. Len(s) + 1 \in ends
      BY <1>1
    <2> QED
      BY <1>1, <2>1
  <1>3. \E j \in ends : \A k \in ends : j <= k
    <2> HIDE DEF ends
    <2> QED
      BY <1>2, LeastOf
  <1>4. e \in ends /\ \A k \in ends : e <= k
    <2> HIDE DEF ends
    <2> QED
      BY <1>3
  <1>5. Topics!Level(s, i) = SubSeq(s, i, e - 1)
    BY DEF Topics!Level, Topics!Slash
  <1>6. e \in i .. Len(s) + 1 /\ (e = Len(s) + 1 \/ s[e] = "/")
    BY <1>4
  <1>7. \A k \in i .. Len(s) + 1 : k = Len(s) + 1 \/ s[k] = "/" => e <= k
    BY <1>4
  <1> HIDE DEF e, ends
  <1>8. p <= e
    <2>1. CASE e < p
      <3>1. e \in i .. p - 1 /\ e # Len(s) + 1
        BY <1>1, <1>6, <2>1
      <3> QED
        BY <3>1, <1>6 DEF OneLevel
    <2> QED
      BY <1>1, <1>6, <2>1
  <1>9. /\ i \in Nat \ {0} /\ e - 1 \in Nat /\ e - 1 <= Len(s) /\ i <= (e - 1) + 1
        /\ (e - 1) + 1 - i = e - i
    BY <1>1, <1>6
  <1>10. /\ Topics!Level(s, i) \in Seq(S) /\ Len(Topics!Level(s, i)) = e - i
         /\ \A k \in 1 .. e - i : Topics!Level(s, i)[k] = s[i + k - 1]
    BY <1>5, <1>9, SubSeqPoints
  <1>11. ASSUME p <= Len(s), s[p] # "/"
         PROVE  p - i + 1 \in 1 .. e - i /\ Topics!Level(s, i)[p - i + 1] = s[p]
    <2>1. p # e
      BY <1>1, <1>6, <1>11
    <2>2. p - i + 1 \in 1 .. e - i /\ i + (p - i + 1) - 1 = p
      BY <1>1, <1>6, <1>8, <2>1
    <2> QED
      BY <2>2, <1>10
  <1>12. ASSUME p = Len(s) + 1 \/ s[p] = "/" PROVE e = p
    BY <1>1, <1>6, <1>7, <1>8, <1>12
  <1> QED
    BY <1>10, <1>11, <1>12

-----------------------------------------------------------------------------
(* A filter and a name that it covers, level by level. *)

Wild == {<<"+">>, <<"#">>}

LEMMA FilterLevel ==
    ASSUME NEW S, NEW f \in Seq(S), Topics!IsFilter(f), NEW i \in Topics!Begins(f)
    PROVE  \/ Topics!Level(f, i) = <<"+">>
           \/ /\ Topics!Level(f, i) = <<"#">>
              /\ Topics!Number(f, i) = Cardinality(Topics!Begins(f))
           \/ \A k \in 1 .. Len(Topics!Level(f, i)) : Topics!Level(f, i)[k] \notin {"+", "#"}
  <1> DEFINE n == Topics!Number(f, i)
             t == Topics!Level(f, i)
  <1>1. n \in DOMAIN Topics!Levels(f) /\ Topics!Levels(f)[n] = t
    BY LevelsAre, NumberIs
  <1>2. Len(Topics!Levels(f)) = Cardinality(Topics!Begins(f))
    BY LevelsAre
  <1>3. \/ t = <<"+">>
        \/ t = <<"#">> /\ n = Len(Topics!Levels(f))
        \/ \A k \in DOMAIN t : t[k] \notin {"+", "#"}
    BY <1>1 DEF Topics!IsFilter, Topics!Plus, Topics!Hash
  <1>4. t \in Seq(S)
    <2>1. i \in i .. Len(f) + 1 /\ OneLevel(f, i, i)
      BY BeginsAre DEF OneLevel
    <2> QED
      BY <2>1, LevelIs
  <1>5. DOMAIN t = 1 .. Len(t)
    BY <1>4
  <1> QED
    BY <1>2, <1>3, <1>5

(* A wildcard is the only character of its level. *)
LEMMA WildLevel ==
    ASSUME NEW S, NEW f \in Seq(S), NEW i \in Topics!Begins(f), NEW c,
           Topics!Level(f, i) = <<c>>
    PROVE  /\ i \in 1 .. Len(f) /\ f[i] = c /\ f[i] # "/"
           /\ i + 1 = Len(f) + 1 \/ f[i + 1] = "/"
           /\ OneLevel(f, i, i + 1)
  <1>1. i \in 1 .. Len(f) + 1 /\ Len(f) \in Nat /\ Len(<<c>>) = 1 /\ <<c>>[1] = c
    BY BeginsAre
  <1>2. i \in i .. Len(f) + 1 /\ OneLevel(f, i, i) /\ i - i = 0 /\ i - i + 1 = 1
    BY <1>1 DEF OneLevel
  <1>3. i <= Len(f) /\ f[i] # "/" /\ f[i] = c
    <2> DEFINE t == Topics!Level(f, i)
    <2>1. /\ i <= Len(f) /\ f[i] # "/" => i - i + 1 \in 1 .. Len(t) /\ t[i - i + 1] = f[i]
          /\ i = Len(f) + 1 \/ f[i] = "/" => Len(t) = i - i
      <3>1. i <= Len(f) /\ f[i] # "/" => i - i + 1 \in 1 .. Len(t) /\ t[i - i + 1] = f[i]
        BY <1>2, LevelIs
      <3>2. i = Len(f) + 1 \/ f[i] = "/" => Len(t) = i - i
        BY <1>2, LevelIs
      <3> QED
        BY <3>1, <3>2
    <2>2. Len(t) = 1 /\ t[1] = c
      BY <1>1
    <2> HIDE DEF t
    <2> QED
      BY <1>1, <1>2, <2>1, <2>2
  <1>4. OneLevel(f, i, i + 1) /\ i + 1 \in i .. Len(f) + 1 /\ (i + 1) - i + 1 = 2
    BY <1>1, <1>3 DEF OneLevel
  <1>5. i + 1 <= Len(f) /\ f[i + 1] # "/" => 2 \in 1 .. 1
    BY <1>1, <1>4, LevelIs
  <1> QED
    BY <1>1, <1>3, <1>4, <1>5

(* Behind the wildcard for all that follows there is nothing. *)
LEMMA HashIsLast ==
    ASSUME NEW S, NEW f \in Seq(S), Topics!IsFilter(f), NEW i \in Topics!Begins(f),
           Topics!Level(f, i) = <<"#">>
    PROVE  i = Len(f)
  <1>1. i \in 1 .. Len(f) /\ OneLevel(f, i, i + 1) /\ (i + 1 = Len(f) + 1 \/ f[i + 1] = "/")
    BY WildLevel
  <1>2. Len(<<"#">>) = 1 /\ <<"#">>[1] = "#" /\ "#" # "+"
    OBVIOUS
  <1>3. Topics!Number(f, i) = Cardinality(Topics!Begins(f))
    BY <1>2, FilterLevel
  <1>4. CASE i # Len(f)
    <2>1. i + 1 \in i .. Len(f) /\ f[i + 1] = "/"
      BY <1>1, <1>4
    <2>2. (i + 1) + 1 \in Topics!Begins(f) /\ Topics!Number(f, (i + 1) + 1) = Topics!Number(f, i) + 1
      BY <1>1, <2>1, NextNumber
    <2>3. Topics!Number(f, (i + 1) + 1) <= Cardinality(Topics!Begins(f))
      BY <2>2, NumberIs
    <2> QED
      BY <1>3, <2>2, <2>3, BeginsAre
  <1> QED
    BY <1>4

(* Levels with the same number are the same where the filter has no wildcard; *)
(* the filter has as many as the name, or one more for all that follows.     *)
LEMMA CoveredIs ==
    ASSUME NEW S, NEW T, NEW f \in Seq(S), NEW s \in Seq(T), Topics!Covers(f, s)
    PROVE  /\ \A i \in Topics!Begins(f), j \in Topics!Begins(s) :
                Topics!Number(f, i) = Topics!Number(s, j) /\ Topics!Level(f, i) \notin Wild =>
                    Topics!Level(f, i) = Topics!Level(s, j)
           /\ \/ Cardinality(Topics!Begins(f)) = Cardinality(Topics!Begins(s))
              \/ /\ Cardinality(Topics!Begins(f)) <= Cardinality(Topics!Begins(s)) + 1
                 /\ \A i \in Topics!Begins(f) :
                      Topics!Number(f, i) = Cardinality(Topics!Begins(f)) =>
                          Topics!Level(f, i) = <<"#">>
  <1> DEFINE F == Topics!Levels(f)
             N == Topics!Levels(s)
             Same(n) == F[n] = <<"+">> \/ F[n] = N[n]
  <1>1. /\ Len(F) = Cardinality(Topics!Begins(f)) /\ Len(N) = Cardinality(Topics!Begins(s))
        /\ DOMAIN F = 1 .. Len(F) /\ Len(F) \in Nat /\ Len(N) \in Nat
    BY LevelsAre, BeginsAre
  <1>2. IF F[Len(F)] = <<"#">>
        THEN Len(F) - 1 <= Len(N) /\ \A n \in 1 .. Len(F) - 1 : Same(n)
        ELSE Len(F) = Len(N) /\ \A n \in DOMAIN F : Same(n)
    BY DEF Topics!Covers, Topics!Plus, Topics!Hash
  <1>3. /\ \A i \in Topics!Begins(f) : /\ F[Topics!Number(f, i)] = Topics!Level(f, i)
                                       /\ Topics!Number(f, i) \in 1 .. Len(F)
        /\ \A j \in Topics!Begins(s) : N[Topics!Number(s, j)] = Topics!Level(s, j)
    BY <1>1, LevelsAre, NumberIs
  <1> HIDE DEF F, N
  <1>4. ASSUME NEW i \in Topics!Begins(f), NEW j \in Topics!Begins(s),
               Topics!Number(f, i) = Topics!Number(s, j), Topics!Level(f, i) \notin Wild
        PROVE  Topics!Level(f, i) = Topics!Level(s, j)
    <2>1. Topics!Number(f, i) \in 1 .. Len(F) /\ F[Topics!Number(f, i)] = Topics!Level(f, i)
      BY <1>3
    <2>2. F[Topics!Number(f, i)] # <<"#">> /\ F[Topics!Number(f, i)] # <<"+">>
      BY <1>4, <2>1 DEF Wild
    <2>3. Same(Topics!Number(f, i))
      <3>1. CASE F[Len(F)] = <<"#">>
        <4>1. Topics!Number(f, i) # Len(F)
          BY <2>2, <3>1
        <4>2. Topics!Number(f, i) \in 1 .. Len(F) - 1
          BY <2>1, <4>1, <1>1
        <4> HIDE DEF Same
        <4> QED
          BY <1>2, <3>1, <4>2
      <3>2. CASE F[Len(F)] # <<"#">>
        <4> HIDE DEF Same
        <4> QED
          BY <1>1, <1>2, <2>1, <3>2
      <3> QED
        BY <3>1, <3>2
    <2> QED
      BY <1>3, <1>4, <2>1, <2>2, <2>3
  <1>5. CASE F[Len(F)] = <<"#">>
    <2>1. Len(F) <= Len(N) + 1
      BY <1>1, <1>2, <1>5
    <2> QED
      BY <1>1, <1>3, <1>4, <1>5, <2>1
  <1>6. CASE F[Len(F)] # <<"#">>
    BY <1>1, <1>2, <1>4, <1>6
  <1> QED
    BY <1>5, <1>6

-----------------------------------------------------------------------------
(* Where the two pointers are while the filter covers the name: in levels with  *)
(* the same number, at the same distance from their begins, or at a wildcard or *)
(* behind it.                                                                   *)
Together(f, s, p, q) ==
    \E i \in Topics!Begins(f), j \in Topics!Begins(s) :
        /\ p \in i .. Len(f) + 1 /\ q \in j .. Len(s) + 1
        /\ Topics!Number(f, i) = Topics!Number(s, j)
        /\ OneLevel(f, i, p) /\ OneLevel(s, j, q)
        /\ \/ Topics!Level(f, i) \notin Wild /\ p - i = q - j
           \/ Topics!Level(f, i) \in Wild /\ p = i /\ q = j
           \/ Topics!Level(f, i) = <<"+">> /\ p = i + 1 /\ (q = Len(s) + 1 \/ s[q] = "/")

Through(f, s, p, q) == p = Len(f) + 1 /\ q = Len(s) + 1

(* The places at which a round of the loop finds them, and where it leads. *)
AtLetter(f, s, p, q) ==
    /\ p \in 1 .. Len(f) /\ q \in 1 .. Len(s)
    /\ f[p] = s[q] /\ f[p] \notin {"/", "+", "#"}
    /\ Together(f, s, p + 1, q + 1)

AtSeparator(f, s, p, q) ==
    /\ p \in 1 .. Len(f) /\ f[p] = "/"
    /\ \/ q \in 1 .. Len(s) /\ s[q] = "/" /\ Together(f, s, p + 1, q + 1)
       \/ q = Len(s) + 1 /\ p < Len(f) /\ f[p + 1] = "#"

AtPlus(f, s, p, q) ==
    /\ p \in 1 .. Len(f) /\ q \in 1 .. Len(s) + 1 /\ f[p] = "+"
    /\ q = 1 \/ s[q - 1] = "/"
    /\ q <= Len(s) /\ s[q] = "/" => Together(f, s, p + 1, q)
    /\ \A e \in q .. Len(s) :
         OneLevel(s, q, e + 1) /\ (e = Len(s) \/ s[e + 1] = "/") => Together(f, s, p + 1, e + 1)

AtHash(f, s, p, q) == p = Len(f) /\ p > 0 /\ q \in 1 .. Len(s) + 1 /\ f[p] = "#"

Places(f, s, p, q) ==
    \/ AtLetter(f, s, p, q) \/ AtSeparator(f, s, p, q) \/ AtPlus(f, s, p, q)
    \/ AtHash(f, s, p, q) \/ Through(f, s, p, q)

(* Levels with the same number, from their begins. *)
LEMMA TogetherAgain ==
    ASSUME NEW S, NEW T, NEW f \in Seq(S), NEW s \in Seq(T),
           NEW i \in Topics!Begins(f), NEW j \in Topics!Begins(s),
           Topics!Number(f, i) = Topics!Number(s, j)
    PROVE  Together(f, s, i, j)
  <1>1. i \in 1 .. Len(f) + 1 /\ j \in 1 .. Len(s) + 1
    BY BeginsAre
  <1>2. OneLevel(f, i, i) /\ OneLevel(s, j, j) /\ i - i = j - j
    BY <1>1 DEF OneLevel
  <1>3. i \in i .. Len(f) + 1 /\ j \in j .. Len(s) + 1
    BY <1>1
  <1> QED
    BY <1>2, <1>3 DEF Together

(* A level ends in the filter and in the name. *)
LEMMA EndsMeet ==
    ASSUME NEW S, NEW T, NEW f \in Seq(S), NEW s \in Seq(T), Topics!Covers(f, s),
           NEW i \in Topics!Begins(f), NEW j \in Topics!Begins(s),
           NEW p \in i .. Len(f) + 1, NEW q \in j .. Len(s) + 1,
           Topics!Number(f, i) = Topics!Number(s, j), OneLevel(f, i, p), OneLevel(s, j, q),
           Topics!Level(f, i) # <<"#">>,
           p = Len(f) + 1 \/ f[p] = "/", q = Len(s) + 1 \/ s[q] = "/"
    PROVE  AtSeparator(f, s, p, q) \/ Through(f, s, p, q)
  <1> DEFINE F == Cardinality(Topics!Begins(f))
             N == Cardinality(Topics!Begins(s))
  <1>1. /\ i \in 1 .. Len(f) + 1 /\ j \in 1 .. Len(s) + 1 /\ Len(f) \in Nat /\ Len(s) \in Nat
        /\ F \in Nat /\ N \in Nat
    BY BeginsAre
  <1>2. /\ Topics!Number(f, i) \in 1 .. F
        /\ Topics!Number(s, j) \in 1 .. N
    BY NumberIs
  <1>3. \/ F = N
        \/ F <= N + 1 /\ \A k \in Topics!Begins(f) :
                           Topics!Number(f, k) = F => Topics!Level(f, k) = <<"#">>
    BY CoveredIs
  <1> HIDE DEF F, N
  <1>4. ASSUME p <= Len(f)
        PROVE  /\ p \in i .. Len(f) /\ p \in 1 .. Len(f) /\ f[p] = "/"
               /\ p + 1 \in Topics!Begins(f) /\ Topics!Number(f, p + 1) = Topics!Number(f, i) + 1
               /\ Topics!Number(f, p + 1) <= F
    <2>1. p \in i .. Len(f) /\ p \in 1 .. Len(f) /\ f[p] = "/"
      BY <1>1, <1>4
    <2>2. p + 1 \in Topics!Begins(f) /\ Topics!Number(f, p + 1) = Topics!Number(f, i) + 1
      BY <2>1, NextNumber
    <2>3. Topics!Number(f, p + 1) \in 1 .. F
      BY <2>2, NumberIs DEF F
    <2> QED
      BY <2>1, <2>2, <2>3
  <1>5. ASSUME q <= Len(s)
        PROVE  /\ q \in 1 .. Len(s) /\ s[q] = "/"
               /\ q + 1 \in Topics!Begins(s) /\ Topics!Number(s, q + 1) = Topics!Number(s, j) + 1
               /\ Topics!Number(s, q + 1) <= N
    <2>1. q \in j .. Len(s) /\ q \in 1 .. Len(s) /\ s[q] = "/"
      BY <1>1, <1>5
    <2>2. q + 1 \in Topics!Begins(s) /\ Topics!Number(s, q + 1) = Topics!Number(s, j) + 1
      BY <2>1, NextNumber
    <2>3. Topics!Number(s, q + 1) \in 1 .. N
      BY <2>2, NumberIs DEF N
    <2> QED
      BY <2>1, <2>2, <2>3
  <1>6. CASE p <= Len(f) /\ q <= Len(s)
    <2>1. Together(f, s, p + 1, q + 1)
      BY <1>4, <1>5, <1>6, TogetherAgain
    <2> QED
      BY <1>4, <1>5, <1>6, <2>1 DEF AtSeparator
  <1>7. CASE p <= Len(f) /\ q > Len(s)
    <2>1. q = Len(s) + 1
      BY <1>1, <1>7
    <2>2. Topics!Number(s, j) = N
      BY <2>1, LastNumber DEF N
    <2>3. F # N /\ Topics!Number(f, p + 1) = F
      BY <1>1, <1>2, <1>3, <1>4, <1>7, <2>2
    <2>4. Topics!Level(f, p + 1) = <<"#">>
      BY <1>3, <1>4, <1>7, <2>3
    <2>5. p + 1 \in 1 .. Len(f) /\ f[p + 1] = "#"
      BY <1>4, <1>7, <2>4, WildLevel
    <2>6. p < Len(f)
      BY <1>1, <1>4, <1>7, <2>5
    <2> QED
      BY <1>4, <1>7, <2>1, <2>5, <2>6 DEF AtSeparator
  <1>8. CASE p > Len(f) /\ q <= Len(s)
    <2>1. p = Len(f) + 1
      BY <1>1, <1>8
    <2>2. Topics!Number(f, i) = F
      BY <2>1, LastNumber DEF F
    <2>3. F = N
      BY <1>3, <2>2
    <2> QED
      BY <1>1, <1>2, <1>5, <1>8, <2>2, <2>3
  <1>9. CASE p > Len(f) /\ q > Len(s)
    BY <1>1, <1>9 DEF Through
  <1> QED
    BY <1>1, <1>6, <1>7, <1>8, <1>9

(* In levels without a wildcard the characters are the same. *)
LEMMA LettersMeet ==
    ASSUME NEW S, NEW T, NEW f \in Seq(S), NEW s \in Seq(T), Topics!IsFilter(f),
           Topics!Covers(f, s), NEW i \in Topics!Begins(f), NEW j \in Topics!Begins(s),
           NEW p \in i .. Len(f) + 1, NEW q \in j .. Len(s) + 1,
           Topics!Number(f, i) = Topics!Number(s, j), OneLevel(f, i, p), OneLevel(s, j, q),
           Topics!Level(f, i) \notin Wild, p - i = q - j
    PROVE  AtLetter(f, s, p, q) \/ AtSeparator(f, s, p, q) \/ Through(f, s, p, q)
  <1> DEFINE t == Topics!Level(f, i)
             d == p - i
  <1>1. i \in 1 .. Len(f) + 1 /\ j \in 1 .. Len(s) + 1 /\ Len(f) \in Nat /\ Len(s) \in Nat /\ d \in Nat
    BY BeginsAre
  <1>2. t = Topics!Level(s, j)
    BY CoveredIs
  <1>3. /\ p <= Len(f) /\ f[p] # "/" => d + 1 \in 1 .. Len(t) /\ t[d + 1] = f[p]
        /\ p = Len(f) + 1 \/ f[p] = "/" => Len(t) = d
    BY LevelIs
  <1>4. /\ q <= Len(s) /\ s[q] # "/" => d + 1 \in 1 .. Len(t) /\ t[d + 1] = s[q]
        /\ q = Len(s) + 1 \/ s[q] = "/" => Len(t) = d
    BY <1>2, LevelIs
  <1>5. \A k \in 1 .. Len(t) : t[k] \notin {"+", "#"}
    BY FilterLevel DEF Wild
  <1>6. t # <<"#">>
    BY DEF Wild
  <1>7. CASE p <= Len(f) /\ f[p] # "/"
    <2>1. p \in 1 .. Len(f) /\ q \in 1 .. Len(s) /\ s[q] # "/"
      <3> HIDE DEF t, d
      <3> QED
        BY <1>1, <1>3, <1>4, <1>7
    <2>2. f[p] = s[q] /\ f[p] \notin {"/", "+", "#"}
      <3> HIDE DEF t, d
      <3> QED
        BY <1>3, <1>4, <1>5, <1>7, <2>1
    <2>3. OneLevel(f, i, p + 1) /\ OneLevel(s, j, q + 1)
      BY <1>1, <1>7, <2>1 DEF OneLevel
    <2>4. p + 1 \in i .. Len(f) + 1 /\ q + 1 \in j .. Len(s) + 1 /\ (p + 1) - i = (q + 1) - j
      BY <1>1, <2>1
    <2>5. Together(f, s, p + 1, q + 1)
      BY <2>3, <2>4 DEF Together
    <2> QED
      BY <2>1, <2>2, <2>5 DEF AtLetter
  <1>8. CASE p = Len(f) + 1 \/ f[p] = "/"
    <2>1. q = Len(s) + 1 \/ s[q] = "/"
      <3> HIDE DEF t, d
      <3> QED
        BY <1>1, <1>3, <1>4, <1>8
    <2> QED
      BY <1>6, <1>8, <2>1, EndsMeet
  <1> QED
    BY <1>1, <1>7, <1>8

LEMMA PlacesAre ==
    ASSUME NEW S, NEW T, NEW f \in Seq(S), NEW s \in Seq(T), Topics!IsFilter(f),
           Topics!Covers(f, s), NEW p, NEW q, Together(f, s, p, q)
    PROVE  Places(f, s, p, q)
  <1> PICK i \in Topics!Begins(f), j \in Topics!Begins(s) :
        /\ p \in i .. Len(f) + 1 /\ q \in j .. Len(s) + 1
        /\ Topics!Number(f, i) = Topics!Number(s, j)
        /\ OneLevel(f, i, p) /\ OneLevel(s, j, q)
        /\ \/ Topics!Level(f, i) \notin Wild /\ p - i = q - j
           \/ Topics!Level(f, i) \in Wild /\ p = i /\ q = j
           \/ Topics!Level(f, i) = <<"+">> /\ p = i + 1 /\ (q = Len(s) + 1 \/ s[q] = "/")
    BY DEF Together
  <1>1. i \in 1 .. Len(f) + 1 /\ j \in 1 .. Len(s) + 1 /\ Len(f) \in Nat /\ Len(s) \in Nat
    BY BeginsAre
  <1>2. CASE Topics!Level(f, i) \notin Wild /\ p - i = q - j
    BY <1>2, LettersMeet DEF Places
  <1>3. CASE Topics!Level(f, i) = <<"+">> /\ p = i /\ q = j
    <2>1. i \in 1 .. Len(f) /\ f[i] = "+" /\ OneLevel(f, i, i + 1)
      BY <1>3, WildLevel
    <2>2. j = 1 \/ s[j - 1] = "/"
      BY DEF Topics!Begins, Topics!Slash
    <2>3. ASSUME NEW e \in j .. Len(s) + 1, OneLevel(s, j, e), e = Len(s) + 1 \/ s[e] = "/"
          PROVE  Together(f, s, i + 1, e)
      BY <1>1, <1>3, <2>1, <2>3 DEF Together
    <2>4. j <= Len(s) /\ s[j] = "/" => Together(f, s, i + 1, j)
      <3>1. j \in j .. Len(s) + 1
        BY <1>1
      <3> QED
        BY <1>3, <2>3, <3>1
    <2>5. ASSUME NEW e \in j .. Len(s), OneLevel(s, j, e + 1), e = Len(s) \/ s[e + 1] = "/"
          PROVE  Together(f, s, i + 1, e + 1)
      <3>1. e + 1 \in j .. Len(s) + 1 /\ (e + 1 = Len(s) + 1 \/ s[e + 1] = "/")
        BY <1>1, <2>5
      <3> QED
        BY <2>3, <2>5, <3>1
    <2>6. AtPlus(f, s, p, q)
      BY <1>1, <1>3, <2>1, <2>2, <2>4, <2>5 DEF AtPlus
    <2> QED
      BY <2>6 DEF Places
  <1>4. CASE Topics!Level(f, i) = <<"#">> /\ p = i /\ q = j
    BY <1>1, <1>4, WildLevel, HashIsLast DEF AtHash, Places
  <1>5. CASE Topics!Level(f, i) = <<"+">> /\ p = i + 1 /\ (q = Len(s) + 1 \/ s[q] = "/")
    <2>1. i + 1 = Len(f) + 1 \/ f[i + 1] = "/"
      BY <1>5, WildLevel
    <2>2. <<"+">> # <<"#">>
      <3>1. <<"+">>[1] = "+" /\ <<"#">>[1] = "#" /\ "+" # "#"
        OBVIOUS
      <3> QED
        BY <3>1
    <2> QED
      BY <1>5, <2>1, <2>2, EndsMeet DEF Places
  <1> QED
    BY <1>2, <1>3, <1>4, <1>5 DEF Wild

-----------------------------------------------------------------------------
(* The walk over a filter of the table. *)

TopicTypes ==
    /\ tmFilters \in Seq(Topics!Filters) /\ tmName \in Topics!Names
    /\ tmSlot \in 1 .. Len(tmFilters)
    /\ tmFilterAt \in 1 .. Len(Topics!Filter) + 1 /\ tmNameAt \in 1 .. Len(tmName) + 1
    /\ tmDone \in BOOLEAN
    /\ tmTaker = 0 \/ (tmTaker = tmSlot /\ tmDone)

\* No filter that was passed over covers the name; the pointers are where one that does
\* lets them be.
TopicsPassed ==
    /\ \A i \in 1 .. tmSlot - 1 : ~Topics!Covers(tmFilters[i], tmName)
    /\ tmDone /\ tmTaker = 0 =>
           tmSlot = Len(tmFilters) /\ ~Topics!Covers(Topics!Filter, tmName)
    /\ Topics!Covers(Topics!Filter, tmName) =>
           \/ Together(Topics!Filter, tmName, tmFilterAt, tmNameAt)
           \/ Through(Topics!Filter, tmName, tmFilterAt, tmNameAt)

\* A filter without a wildcard and the name are walked through side by side.
Exact(f) == \A k \in 1 .. Len(f) : f[k] \notin {"+", "#"}

TopicsExact ==
    Exact(Topics!Filter) =>
        /\ tmFilterAt = tmNameAt
        /\ \A k \in 1 .. tmFilterAt - 1 : Topics!Filter[k] = tmName[k]
        /\ tmTaker # 0 => Topics!Filter = tmName

TopicInv == TopicTypes /\ TopicsPassed /\ TopicsExact

TopicChars == Letters \cup {"/", "+", "#"}

(* Filters and names are not empty, and the zero that ends them is not in them. *)
LEMMA FiltersAre ==
    ASSUME NEW f \in Topics!Filters
    PROVE  /\ f \in Seq(TopicChars) /\ Len(f) > 0 /\ Topics!IsFilter(f)
           /\ \A k \in 1 .. Len(f) : f[k] # "0"
  <1>1. f \in Topics!Strings(Letters \cup {"/", "+", "#"}) /\ Topics!IsFilter(f)
    BY DEF Topics!Filters, Topics!Slash, Topics!Plus, Topics!Hash
  <1>2. PICK n \in 1 .. MaxLength : f \in [1 .. n -> TopicChars]
    BY <1>1 DEF Topics!Strings, TopicChars
  <1>3. f \in Seq(TopicChars) /\ Len(f) = n
    BY <1>2
  <1>4. "0" \notin TopicChars
    BY LettersAssumption DEF TopicChars
  <1> QED
    BY <1>1, <1>2, <1>3, <1>4

LEMMA NamesAre ==
    ASSUME NEW s \in Topics!Names
    PROVE  s \in Seq(TopicChars) /\ Len(s) > 0
  <1>1. s \in Topics!Strings(Letters \cup {"/"})
    BY DEF Topics!Names, Topics!Slash
  <1>2. PICK n \in 1 .. MaxLength : s \in [1 .. n -> Letters \cup {"/"}]
    BY <1>1 DEF Topics!Strings
  <1>3. s \in [1 .. n -> TopicChars]
    BY <1>2 DEF TopicChars
  <1> QED
    BY <1>2, <1>3

(* What the two pointers point at. *)
LEMMA PointersAre ==
    ASSUME TopicTypes
    PROVE  /\ Topics!Filter \in Topics!Filters /\ Topics!Filter \in Seq(TopicChars)
           /\ Topics!IsFilter(Topics!Filter) /\ Len(Topics!Filter) > 0
           /\ tmName \in Seq(TopicChars) /\ Len(tmName) > 0
           /\ tmFilterAt <= Len(Topics!Filter) =>
                /\ tmFilterAt \in 1 .. Len(Topics!Filter)
                /\ Topics!F = Topics!Filter[tmFilterAt] /\ Topics!F # "0"
           /\ tmFilterAt > Len(Topics!Filter) => Topics!F = "0"
           /\ tmNameAt <= Len(tmName) =>
                tmNameAt \in 1 .. Len(tmName) /\ Topics!N = tmName[tmNameAt]
           /\ Topics!InLoop <=> tmFilterAt <= Len(Topics!Filter) /\ tmNameAt <= Len(tmName)
  <1>1. Topics!Filter \in Topics!Filters
    BY DEF TopicTypes, Topics!Filter
  <1>2. /\ Topics!Filter \in Seq(TopicChars) /\ Len(Topics!Filter) > 0
        /\ Topics!IsFilter(Topics!Filter)
        /\ \A k \in 1 .. Len(Topics!Filter) : Topics!Filter[k] # "0"
    BY <1>1, FiltersAre
  <1>3. tmName \in Seq(TopicChars) /\ Len(tmName) > 0
    BY NamesAre DEF TopicTypes
  <1>4. /\ tmFilterAt \in 1 .. Len(Topics!Filter) + 1 /\ tmNameAt \in 1 .. Len(tmName) + 1
        /\ Len(Topics!Filter) \in Nat /\ Len(tmName) \in Nat
    BY <1>2, <1>3 DEF TopicTypes
  <1>5. tmFilterAt <= Len(Topics!Filter) =>
                /\ tmFilterAt \in 1 .. Len(Topics!Filter)
                /\ Topics!F = Topics!Filter[tmFilterAt] /\ Topics!F # "0"
    BY <1>2, <1>4 DEF Topics!F
  <1>6. tmFilterAt > Len(Topics!Filter) => Topics!F = "0"
    BY <1>4 DEF Topics!F
  <1>7. tmNameAt <= Len(tmName) =>
                tmNameAt \in 1 .. Len(tmName) /\ Topics!N = tmName[tmNameAt]
    BY <1>4 DEF Topics!N
  <1>8. Topics!InLoop <=> tmFilterAt <= Len(Topics!Filter) /\ tmNameAt <= Len(tmName)
    BY <1>4, <1>5, <1>6 DEF Topics!InLoop
  <1> QED
    BY <1>1, <1>2, <1>3, <1>5, <1>6, <1>7, <1>8

(* The characters that a wildcard for a level stands for. *)
LEMMA EndOfLevelIs ==
    ASSUME TopicTypes, tmNameAt <= Len(tmName)
    PROVE  /\ Topics!EndOfLevel \in tmNameAt .. Len(tmName)
           /\ Topics!EndOfLevel = Len(tmName) \/ tmName[Topics!EndOfLevel + 1] = "/"
           /\ tmName[tmNameAt] # "/" => OneLevel(tmName, tmNameAt, Topics!EndOfLevel + 1)
  <1> DEFINE ends == {j \in tmNameAt .. Len(tmName) : j = Len(tmName) \/ tmName[j + 1] = "/"}
             e == CHOOSE j \in ends : \A k \in ends : j <= k
  <1>1. tmNameAt \in 1 .. Len(tmName) /\ Len(tmName) \in Nat
    BY PointersAre
  <1>2. ends \in SUBSET Nat /\ ends # {}
    <2>1. Len(tmName) \in ends
      BY <1>1
    <2> QED
      BY <1>1, <2>1
  <1>3. \E j \in ends : \A k \in ends : j <= k
    <2> HIDE DEF ends
    <2> QED
      BY <1>2, LeastOf
  <1>4. e \in ends /\ \A k \in ends : e <= k
    <2> HIDE DEF ends
    <2> QED
      BY <1>3
  <1>5. Topics!EndOfLevel = e
    BY DEF Topics!EndOfLevel, Topics!Slash
  <1>6. e \in tmNameAt .. Len(tmName) /\ (e = Len(tmName) \/ tmName[e + 1] = "/")
    BY <1>4
  <1>7. \A k \in tmNameAt .. Len(tmName) : k = Len(tmName) \/ tmName[k + 1] = "/" => e <= k
    BY <1>4
  <1> HIDE DEF e, ends
  <1>8. ASSUME tmName[tmNameAt] # "/", NEW k \in tmNameAt .. e, tmName[k] = "/" PROVE FALSE
    <2>1. k # tmNameAt
      BY <1>8
    <2>2. k - 1 \in tmNameAt .. Len(tmName) /\ (k - 1) + 1 = k /\ k - 1 < e
      BY <1>1, <1>6, <1>8, <2>1
    <2>3. e <= k - 1
      BY <1>7, <1>8, <2>2
    <2> QED
      BY <1>1, <1>6, <2>2, <2>3
  <1>9. (e + 1) - 1 = e
    BY <1>1, <1>6
  <1> QED
    BY <1>5, <1>6, <1>8, <1>9 DEF OneLevel

(* A round of the loop, character by character. *)
LEMMA RoundIs ==
    ASSUME TopicTypes, Topics!Walk
    PROVE  /\ tmFilterAt \in 1 .. Len(Topics!Filter) /\ tmNameAt \in 1 .. Len(tmName)
           /\ tmFilterAt' = tmFilterAt + 1
           /\ tmNameAt' = CASE Topics!F = "+" /\ tmName[tmNameAt] = "/" -> tmNameAt
                            [] Topics!F = "+" /\ tmName[tmNameAt] # "/" -> Topics!EndOfLevel + 1
                            [] Topics!F = "#" -> Len(tmName) + 1
                            [] OTHER -> tmNameAt + 1
           /\ tmNameAt' \in 1 .. Len(tmName) + 1
           /\ Topics!F = Topics!Filter[tmFilterAt]
           /\ Topics!F \notin {"+", "#"} => Topics!F = tmName[tmNameAt]
           /\ ~tmDone /\ UNCHANGED <<tmFilters, tmName, tmSlot, tmDone, tmTaker>>
  <1>1. Topics!InLoop /\ tmFilterAt' = tmFilterAt + 1
    BY DEF Topics!Walk
  <1>2. /\ tmFilterAt \in 1 .. Len(Topics!Filter) /\ tmNameAt \in 1 .. Len(tmName)
        /\ Topics!F = Topics!Filter[tmFilterAt] /\ Topics!N = tmName[tmNameAt]
        /\ Len(tmName) \in Nat
    BY <1>1, PointersAre
  <1>3. Topics!EndOfLevel \in tmNameAt .. Len(tmName)
    BY <1>2, EndOfLevelIs
  <1>4. CASE Topics!EmptyLevel
    <2>1. tmNameAt' = tmNameAt /\ Topics!F = "+" /\ tmName[tmNameAt] = "/"
      BY <1>2, <1>4 DEF Topics!Walk, Topics!EmptyLevel, Topics!Plus, Topics!Slash
    <2> QED
      BY <1>1, <1>2, <2>1 DEF Topics!Walk
  <1>5. CASE ~Topics!EmptyLevel
    <2>1. tmNameAt' = Topics!LastOf + 1 /\ ~Topics!Differs
      BY <1>5 DEF Topics!Walk
    <2>2. ~(Topics!F = "+" /\ tmName[tmNameAt] = "/")
      BY <1>2, <1>5 DEF Topics!EmptyLevel, Topics!Plus, Topics!Slash
    <2>3. Topics!F \notin {"+", "#"} => Topics!F = tmName[tmNameAt]
      BY <1>2, <2>1 DEF Topics!Differs, Topics!Plus, Topics!Hash
    <2>4. Topics!LastOf = CASE Topics!F = "+" -> Topics!EndOfLevel
                            [] Topics!F = "#" -> Len(tmName)
                            [] OTHER -> tmNameAt
      BY DEF Topics!LastOf, Topics!Plus, Topics!Hash
    <2>5. "+" # "#"
      OBVIOUS
    <2>6. CASE Topics!F = "+"
      BY <1>1, <1>2, <1>3, <2>1, <2>2, <2>4, <2>5, <2>6 DEF Topics!Walk
    <2>7. CASE Topics!F = "#"
      BY <1>1, <1>2, <2>1, <2>4, <2>5, <2>7 DEF Topics!Walk
    <2>8. CASE Topics!F \notin {"+", "#"}
      BY <1>1, <1>2, <2>1, <2>3, <2>4, <2>8 DEF Topics!Walk
    <2> QED
      BY <2>6, <2>7, <2>8
  <1> QED
    BY <1>4, <1>5

(* A round leads on where the filter covers the name. *)
LEMMA WalkOn ==
    ASSUME TopicTypes, Topics!Walk, Places(Topics!Filter, tmName, tmFilterAt, tmNameAt)
    PROVE  \/ Together(Topics!Filter, tmName, tmFilterAt', tmNameAt')
           \/ Through(Topics!Filter, tmName, tmFilterAt', tmNameAt')
  <1> DEFINE f == Topics!Filter
  <1>1. /\ f \in Seq(TopicChars) /\ tmName \in Seq(TopicChars)
        /\ Len(f) \in Nat /\ Len(tmName) \in Nat
    BY PointersAre
  <1>2. /\ tmFilterAt \in 1 .. Len(f) /\ tmNameAt \in 1 .. Len(tmName)
        /\ tmFilterAt' = tmFilterAt + 1 /\ Topics!F = f[tmFilterAt]
    BY RoundIs
  <1>3. tmNameAt' = CASE Topics!F = "+" /\ tmName[tmNameAt] = "/" -> tmNameAt
                      [] Topics!F = "+" /\ tmName[tmNameAt] # "/" -> Topics!EndOfLevel + 1
                      [] Topics!F = "#" -> Len(tmName) + 1
                      [] OTHER -> tmNameAt + 1
    BY RoundIs
  <1> HIDE DEF f
  <1>4. CASE AtLetter(f, tmName, tmFilterAt, tmNameAt)
    <2>1. Topics!F \notin {"+", "#"}
      BY <1>2, <1>4 DEF AtLetter
    <2>2. tmNameAt' = tmNameAt + 1
      BY <1>3, <2>1
    <2> QED
      BY <1>2, <1>4, <2>2 DEF AtLetter, f
  <1>5. CASE AtSeparator(f, tmName, tmFilterAt, tmNameAt)
    <2>1. Topics!F = "/" /\ "/" # "+" /\ "/" # "#"
      BY <1>2, <1>5 DEF AtSeparator
    <2>2. tmNameAt' = tmNameAt + 1
      BY <1>3, <2>1
    <2>3. tmNameAt # Len(tmName) + 1
      BY <1>1, <1>2
    <2> QED
      BY <1>2, <1>5, <2>2, <2>3 DEF AtSeparator, f
  <1>6. CASE AtPlus(f, tmName, tmFilterAt, tmNameAt)
    <2>1. Topics!F = "+" /\ tmNameAt <= Len(tmName)
      BY <1>1, <1>2, <1>6 DEF AtPlus
    <2>2. CASE tmName[tmNameAt] = "/"
      <3>1. tmNameAt' = tmNameAt
        BY <1>3, <2>1, <2>2
      <3> QED
        BY <1>2, <1>6, <2>1, <2>2, <3>1 DEF AtPlus, f
    <2>3. CASE tmName[tmNameAt] # "/"
      <3>1. tmNameAt' = Topics!EndOfLevel + 1
        BY <1>3, <2>1, <2>3
      <3>2. /\ Topics!EndOfLevel \in tmNameAt .. Len(tmName)
            /\ Topics!EndOfLevel = Len(tmName) \/ tmName[Topics!EndOfLevel + 1] = "/"
            /\ OneLevel(tmName, tmNameAt, Topics!EndOfLevel + 1)
        BY <2>1, <2>3, EndOfLevelIs
      <3>3. Together(f, tmName, tmFilterAt + 1, Topics!EndOfLevel + 1)
        BY <1>6, <3>2 DEF AtPlus
      <3> QED
        BY <1>2, <3>1, <3>3 DEF f
    <2> QED
      BY <2>2, <2>3
  <1>7. CASE AtHash(f, tmName, tmFilterAt, tmNameAt)
    <2>1. Topics!F = "#" /\ "#" # "+" /\ tmFilterAt = Len(f)
      BY <1>2, <1>7 DEF AtHash
    <2>2. tmNameAt' = Len(tmName) + 1
      BY <1>3, <2>1
    <2> QED
      BY <1>2, <2>1, <2>2 DEF Through, f
  <1>8. CASE Through(f, tmName, tmFilterAt, tmNameAt)
    BY <1>1, <1>2, <1>8 DEF Through
  <1> QED
    BY <1>4, <1>5, <1>6, <1>7, <1>8 DEF Places, f

(* Where the loop ends in such a place the function finds a match. *)
LEMMA StopsAtMatch ==
    ASSUME TopicTypes, Topics!Stopped, Places(Topics!Filter, tmName, tmFilterAt, tmNameAt)
    PROVE  Topics!Matched
  <1> DEFINE f == Topics!Filter
  <1>1. /\ f \in Seq(TopicChars) /\ tmName \in Seq(TopicChars)
        /\ Len(f) \in Nat /\ Len(tmName) \in Nat /\ Len(tmName) > 0
        /\ tmFilterAt \in 1 .. Len(f) + 1 /\ tmNameAt \in 1 .. Len(tmName) + 1
    BY PointersAre DEF TopicTypes
  <1>2. /\ tmFilterAt <= Len(f) => Topics!F = f[tmFilterAt] /\ Topics!F # "0"
        /\ tmFilterAt > Len(f) => Topics!F = "0"
        /\ tmNameAt <= Len(tmName) => Topics!N = tmName[tmNameAt]
        /\ Topics!InLoop <=> tmFilterAt <= Len(f) /\ tmNameAt <= Len(tmName)
    BY PointersAre
  <1>3. \/ tmFilterAt > Len(f) \/ tmNameAt > Len(tmName)
        \/ /\ ~(Topics!F = "+" /\ tmName[tmNameAt] = "/")
           /\ \/ tmName[tmNameAt] = "/" /\ Topics!F # "/"
              \/ Topics!F \notin {"+", "#"} /\ Topics!F # tmName[tmNameAt]
    BY <1>1, <1>2 DEF Topics!Stopped, Topics!EmptyLevel, Topics!Differs, Topics!Plus,
       Topics!Hash, Topics!Slash
  <1>4. Topics!Matched <=>
          IF Topics!F = "0" THEN tmNameAt = Len(tmName) + 1
          ELSE \/ Topics!F = "#"
               \/ tmFilterAt < Len(f) /\ f[tmFilterAt + 1] = "#"
               \/ Topics!F = "+" /\ tmNameAt > 1 /\ tmName[tmNameAt - 1] = "/"
    BY DEF Topics!Matched, Topics!Plus, Topics!Hash, Topics!Slash
  <1> HIDE DEF f
  <1>5. CASE AtLetter(f, tmName, tmFilterAt, tmNameAt)
    BY <1>1, <1>2, <1>3, <1>5 DEF AtLetter
  <1>6. CASE AtSeparator(f, tmName, tmFilterAt, tmNameAt)
    BY <1>1, <1>2, <1>3, <1>4, <1>6 DEF AtSeparator
  <1>7. CASE AtPlus(f, tmName, tmFilterAt, tmNameAt)
    BY <1>1, <1>2, <1>3, <1>4, <1>7 DEF AtPlus
  <1>8. CASE AtHash(f, tmName, tmFilterAt, tmNameAt)
    BY <1>1, <1>2, <1>4, <1>8 DEF AtHash
  <1>9. CASE Through(f, tmName, tmFilterAt, tmNameAt)
    BY <1>1, <1>2, <1>4, <1>9 DEF Through
  <1> QED
    BY <1>5, <1>6, <1>7, <1>8, <1>9 DEF Places, f

LEMMA NoneCoveredStops ==
    ASSUME TopicTypes, TopicsPassed, Topics!Stopped, ~Topics!Matched
    PROVE  ~Topics!Covers(Topics!Filter, tmName)
  <1> SUFFICES ASSUME Topics!Covers(Topics!Filter, tmName) PROVE FALSE
    OBVIOUS
  <1>1. Places(Topics!Filter, tmName, tmFilterAt, tmNameAt)
    BY PointersAre, PlacesAre DEF TopicsPassed, Places
  <1> QED
    BY <1>1, StopsAtMatch

(* A filter without a wildcard matches only its own name. *)
LEMMA ExactMatches ==
    ASSUME TopicTypes, TopicsExact, Exact(Topics!Filter), Topics!Matched
    PROVE  Topics!Filter = tmName
  <1> DEFINE f == Topics!Filter
  <1>1. /\ f \in Seq(TopicChars) /\ tmName \in Seq(TopicChars)
        /\ Len(f) \in Nat /\ Len(tmName) \in Nat
        /\ tmFilterAt \in 1 .. Len(f) + 1 /\ tmNameAt \in 1 .. Len(tmName) + 1
    BY PointersAre DEF TopicTypes
  <1>2. /\ tmFilterAt <= Len(f) => tmFilterAt \in 1 .. Len(f) /\ Topics!F = f[tmFilterAt] /\ Topics!F # "0"
        /\ tmFilterAt > Len(f) => Topics!F = "0"
    BY PointersAre
  <1>3. /\ tmFilterAt = tmNameAt /\ \A k \in 1 .. tmFilterAt - 1 : f[k] = tmName[k]
        /\ \A k \in 1 .. Len(f) : f[k] \notin {"+", "#"}
    BY DEF TopicsExact, Exact
  <1>4. IF Topics!F = "0" THEN tmNameAt = Len(tmName) + 1
        ELSE \/ Topics!F = "#"
             \/ tmFilterAt < Len(f) /\ f[tmFilterAt + 1] = "#"
             \/ Topics!F = "+" /\ tmNameAt > 1 /\ tmName[tmNameAt - 1] = "/"
    BY DEF Topics!Matched, Topics!Plus, Topics!Hash, Topics!Slash
  <1> HIDE DEF f
  <1>5. tmFilterAt = Len(f) + 1 /\ tmNameAt = Len(tmName) + 1
    <2>1. CASE tmFilterAt <= Len(f)
      <3>1. Topics!F # "0" /\ Topics!F # "#" /\ Topics!F # "+"
        BY <1>2, <1>3, <2>1
      <3>2. tmFilterAt < Len(f) => tmFilterAt + 1 \in 1 .. Len(f)
        BY <1>1
      <3> QED
        BY <1>3, <1>4, <3>1, <3>2
    <2> QED
      BY <1>1, <1>2, <1>4, <2>1
  <1>6. Len(f) = Len(tmName) /\ \A k \in 1 .. Len(f) : f[k] = tmName[k]
    <2>1. Len(f) = Len(tmName) /\ tmFilterAt - 1 = Len(f)
      <3>1. tmFilterAt = tmNameAt
        BY <1>3
      <3> QED
        BY <1>1, <1>5, <3>1
    <2> QED
      BY <1>3, <2>1
  <1> QED
    BY <1>1, <1>6, SameBytes DEF f

LEMMA TopicsInit == Topics!Init => TopicInv
  <1> SUFFICES ASSUME Topics!Init PROVE TopicInv
    OBVIOUS
  <1>1. /\ tmName \in Topics!Names /\ tmSlot = 1 /\ tmFilterAt = 1 /\ tmNameAt = 1
        /\ tmDone = FALSE /\ tmTaker = 0
    BY DEF Topics!Init
  <1>2. tmFilters \in Seq(Topics!Filters) /\ Len(tmFilters) > 0
    <2>1. CASE tmFilters \in {<<f>> : f \in Topics!Filters}
      <3>1. PICK f \in Topics!Filters : tmFilters = <<f>>
        BY <2>1
      <3> QED
        BY <3>1
    <2>2. CASE tmFilters \in UNION {[1 .. n -> {f \in Topics!Filters : Len(f) <= SharedLength}] :
                                        n \in 2 .. MaxFilters}
      <3>1. PICK n \in 2 .. MaxFilters :
                tmFilters \in [1 .. n -> {f \in Topics!Filters : Len(f) <= SharedLength}]
        BY <2>2
      <3>2. tmFilters \in [1 .. n -> Topics!Filters]
        BY <3>1
      <3> QED
        BY <3>2
    <2> QED
      BY <2>1, <2>2 DEF Topics!Init, Topics!Tables
  <1>3. TopicTypes
    <2>1. 1 \in 1 .. Len(tmFilters) /\ Topics!Filter \in Topics!Filters
      BY <1>1, <1>2 DEF Topics!Filter
    <2>2. Topics!Filter \in Seq(TopicChars) /\ tmName \in Seq(TopicChars)
      BY <1>1, <2>1, FiltersAre, NamesAre
    <2>3. 1 \in 1 .. Len(Topics!Filter) + 1 /\ 1 \in 1 .. Len(tmName) + 1
      BY <2>2
    <2> QED
      BY <1>1, <1>2, <2>1, <2>3 DEF TopicTypes
  <1>4. Together(Topics!Filter, tmName, 1, 1)
    BY <1>3, PointersAre, BeginsAre, FirstNumber, TogetherAgain
  <1>5. TopicsPassed /\ TopicsExact
    BY <1>1, <1>4 DEF TopicsPassed, TopicsExact
  <1> QED
    BY <1>3, <1>5 DEF TopicInv

LEMMA WalkKeeps == TopicInv /\ Topics!Walk => TopicInv'
  <1> SUFFICES ASSUME TopicInv, Topics!Walk PROVE TopicInv'
    OBVIOUS
  <1>t. TopicTypes /\ TopicsPassed /\ TopicsExact
    BY DEF TopicInv
  <1>1. /\ tmFilterAt \in 1 .. Len(Topics!Filter) /\ tmNameAt \in 1 .. Len(tmName)
        /\ tmFilterAt' = tmFilterAt + 1 /\ tmNameAt' \in 1 .. Len(tmName) + 1
        /\ Topics!F = Topics!Filter[tmFilterAt]
        /\ Topics!F \notin {"+", "#"} => Topics!F = tmName[tmNameAt]
        /\ ~tmDone /\ UNCHANGED <<tmFilters, tmName, tmSlot, tmDone, tmTaker>>
    BY <1>t, RoundIs
  <1>2. Topics!Filter' = Topics!Filter
    BY <1>1 DEF Topics!Filter
  <1>3. Len(Topics!Filter) \in Nat /\ Len(tmName) \in Nat
    BY <1>t, PointersAre
  <1>4. TopicTypes'
    <2>1. tmFilterAt' \in 1 .. Len(Topics!Filter) + 1
      BY <1>1, <1>3
    <2> QED
      BY <1>t, <1>1, <1>2, <2>1 DEF TopicTypes
  <1>5. TopicsPassed'
    <2>1. ASSUME Topics!Covers(Topics!Filter, tmName)
          PROVE  Places(Topics!Filter, tmName, tmFilterAt, tmNameAt)
      BY <1>t, <2>1, PointersAre, PlacesAre DEF TopicsPassed, Places
    <2>2. Topics!Covers(Topics!Filter, tmName) =>
            \/ Together(Topics!Filter, tmName, tmFilterAt', tmNameAt')
            \/ Through(Topics!Filter, tmName, tmFilterAt', tmNameAt')
      BY <1>t, <2>1, WalkOn
    <2> QED
      BY <1>t, <1>1, <1>2, <2>2 DEF TopicsPassed
  <1>6. TopicsExact'
    <2> SUFFICES ASSUME Exact(Topics!Filter)
                 PROVE  /\ tmFilterAt' = tmNameAt'
                        /\ \A k \in 1 .. tmFilterAt' - 1 : Topics!Filter[k] = tmName[k]
                        /\ tmTaker' # 0 => Topics!Filter = tmName
      BY <1>1, <1>2 DEF TopicsExact
    <2>1. Topics!F \notin {"+", "#"} /\ Topics!F = tmName[tmNameAt]
      BY <1>1 DEF Exact
    <2>2. tmNameAt' = tmNameAt + 1
      BY <1>t, <2>1, RoundIs
    <2>3. tmFilterAt = tmNameAt /\ \A k \in 1 .. tmFilterAt - 1 : Topics!Filter[k] = tmName[k]
      BY <1>t DEF TopicsExact
    <2>4. \A k \in 1 .. tmFilterAt' - 1 : k = tmFilterAt \/ k \in 1 .. tmFilterAt - 1
      BY <1>1
    <2> QED
      BY <1>t, <1>1, <2>1, <2>2, <2>3, <2>4 DEF TopicsExact
  <1> QED
    BY <1>4, <1>5, <1>6 DEF TopicInv

LEMMA TopicsNext == TopicInv /\ [Topics!Next]_topicsVars => TopicInv'
  <1> SUFFICES ASSUME TopicInv, [Topics!Next]_topicsVars PROVE TopicInv'
    OBVIOUS
  <1>t. TopicTypes /\ TopicsPassed /\ TopicsExact
    BY DEF TopicInv
  <1>1. CASE UNCHANGED topicsVars
    BY <1>1 DEF topicsVars, TopicInv, TopicTypes, TopicsPassed, TopicsExact, Topics!Filter
  <1>2. CASE Topics!Deliver
    <2>1. /\ ~tmDone /\ Topics!Matched /\ tmDone' = TRUE /\ tmTaker' = tmSlot
          /\ UNCHANGED <<tmFilters, tmName, tmSlot, tmFilterAt, tmNameAt>>
      BY <1>2 DEF Topics!Deliver
    <2>2. Topics!Filter' = Topics!Filter
      BY <2>1 DEF Topics!Filter
    <2>3. TopicTypes'
      BY <1>t, <2>1, <2>2 DEF TopicTypes
    <2>4. TopicsPassed'
      BY <1>t, <2>1, <2>2 DEF TopicsPassed, TopicTypes
    <2>5. TopicsExact'
      BY <1>t, <2>1, <2>2, ExactMatches DEF TopicsExact
    <2> QED
      BY <2>3, <2>4, <2>5 DEF TopicInv
  <1>3. CASE Topics!TryNext
    <2>1. /\ ~tmDone /\ Topics!Stopped /\ ~Topics!Matched /\ tmSlot < Len(tmFilters)
          /\ tmSlot' = tmSlot + 1 /\ tmFilterAt' = 1 /\ tmNameAt' = 1
          /\ UNCHANGED <<tmFilters, tmName, tmDone, tmTaker>>
      BY <1>3 DEF Topics!TryNext
    <2>2. ~Topics!Covers(tmFilters[tmSlot], tmName)
      BY <1>t, <2>1, NoneCoveredStops DEF Topics!Filter
    <2>3. /\ tmSlot' \in 1 .. Len(tmFilters) /\ tmSlot \in 1 .. Len(tmFilters) /\ tmTaker = 0
          /\ Len(tmFilters) \in Nat /\ tmName \in Topics!Names
      BY <1>t, <2>1 DEF TopicTypes
    <2>4. Topics!Filter' = tmFilters[tmSlot'] /\ Topics!Filter' \in Topics!Filters
      BY <1>t, <2>1, <2>3 DEF Topics!Filter, TopicTypes
    <2>5. Topics!Filter' \in Seq(TopicChars) /\ tmName \in Seq(TopicChars)
      BY <2>3, <2>4, FiltersAre, NamesAre
    <2>6. 1 \in 1 .. Len(Topics!Filter') + 1 /\ 1 \in 1 .. Len(tmName) + 1
      BY <2>5
    <2>7. TopicTypes'
      BY <1>t, <2>1, <2>3, <2>6 DEF TopicTypes
    <2>8. Together(Topics!Filter', tmName, 1, 1)
      BY <2>5, BeginsAre, FirstNumber, TogetherAgain
    <2>9. \A i \in 1 .. tmSlot' - 1 : i = tmSlot \/ i \in 1 .. tmSlot - 1
      BY <2>1, <2>3
    <2>10. TopicsPassed'
      BY <1>t, <2>1, <2>2, <2>8, <2>9 DEF TopicsPassed
    <2>11. TopicsExact'
      BY <2>1, <2>3 DEF TopicsExact
    <2> QED
      BY <2>7, <2>10, <2>11 DEF TopicInv
  <1>4. CASE Topics!NoMatch
    <2>1. /\ ~tmDone /\ Topics!Stopped /\ ~Topics!Matched /\ tmSlot = Len(tmFilters)
          /\ tmDone' = TRUE
          /\ UNCHANGED <<tmFilters, tmName, tmSlot, tmFilterAt, tmNameAt, tmTaker>>
      BY <1>4 DEF Topics!NoMatch
    <2>2. ~Topics!Covers(Topics!Filter, tmName)
      BY <1>t, <2>1, NoneCoveredStops
    <2>3. Topics!Filter' = Topics!Filter
      BY <2>1 DEF Topics!Filter
    <2>4. TopicTypes'
      BY <1>t, <2>1, <2>3 DEF TopicTypes
    <2>5. TopicsPassed' /\ TopicsExact'
      BY <1>t, <2>1, <2>2, <2>3 DEF TopicsPassed, TopicsExact
    <2> QED
      BY <2>4, <2>5 DEF TopicInv
  <1> QED
    BY <1>1, <1>2, <1>3, <1>4, WalkKeeps DEF Topics!Next

LEMMA TopicsMean == TopicInv => Topics!TypeOK /\ Topics!NoneMissed /\ Topics!ExactWithoutWildcard
  <1> SUFFICES ASSUME TopicInv
               PROVE  Topics!TypeOK /\ Topics!NoneMissed /\ Topics!ExactWithoutWildcard
    OBVIOUS
  <1>t. TopicTypes /\ TopicsPassed /\ TopicsExact
    BY DEF TopicInv
  <1>1. /\ tmSlot \in 1 .. Len(tmFilters) /\ Len(tmFilters) \in Nat
        /\ DOMAIN tmFilters = 1 .. Len(tmFilters)
        /\ tmTaker = 0 \/ tmTaker = tmSlot
    BY <1>t DEF TopicTypes
  <1>2. Topics!TypeOK
    BY <1>t, <1>1 DEF TopicTypes, Topics!TypeOK
  <1>3. ASSUME tmDone, NEW i \in DOMAIN tmFilters, Topics!Covers(tmFilters[i], tmName)
        PROVE  tmTaker # 0 /\ tmTaker <= i
    <2>1. i \in 1 .. Len(tmFilters) /\ ~(i \in 1 .. tmSlot - 1)
      BY <1>t, <1>1, <1>3 DEF TopicsPassed
    <2>2. i >= tmSlot
      BY <1>1, <2>1
    <2>3. tmTaker # 0
      <3>1. CASE tmTaker = 0
        <4>1. tmSlot = Len(tmFilters) /\ ~Topics!Covers(Topics!Filter, tmName)
          BY <1>t, <1>3, <3>1 DEF TopicsPassed
        <4>2. i = tmSlot
          BY <1>1, <2>1, <2>2, <4>1
        <4> QED
          BY <1>3, <4>1, <4>2 DEF Topics!Filter
      <3> QED
        BY <3>1
    <2> QED
      BY <1>1, <2>2, <2>3
  <1>4. Topics!ExactWithoutWildcard
    <2> SUFFICES ASSUME tmTaker # 0,
                        \A i \in DOMAIN tmFilters[tmTaker] : tmFilters[tmTaker][i] \notin {"+", "#"}
                 PROVE  tmFilters[tmTaker] = tmName
      BY DEF Topics!ExactWithoutWildcard, Topics!Plus, Topics!Hash
    <2>1. tmFilters[tmTaker] = Topics!Filter /\ Topics!Filter \in Seq(TopicChars)
      BY <1>t, <1>1, PointersAre DEF Topics!Filter
    <2>2. Exact(Topics!Filter)
      BY <2>1 DEF Exact
    <2> QED
      BY <1>t, <2>1, <2>2 DEF TopicsExact
  <1> QED
    BY <1>2, <1>3, <1>4 DEF Topics!NoneMissed

-----------------------------------------------------------------------------
(* The boot partition is only ever set to a whole firmware of one version,     *)
(* whatever is retried, resumed, failed or offered meanwhile: _ota_update_task *)
(* and the client of ota_client.c, for any number of versions, segments,       *)
(* retries and lost connections.                                               *)
THEOREM FirmwareIsWhole == Spec => []BootIsFirmware
  <1>1. Init => OtaInv
    BY OtaInit DEF Init
  <1>2. OtaInv /\ [Next]_allVars => OtaInv'
    BY StepOfEach, OtaNext
  <1>3. OtaInv => BootIsFirmware
    BY DEF OtaInv, BootIsFirmware
  <1> QED
    BY <1>1, <1>2, <1>3, PTL DEF Spec

(* When the application waits for nothing, each control that reached a         *)
(* callback has a reply with its own token or with that of a control received  *)
(* later (the library keeps the token of the last one, also when that is for   *)
(* no property), and what was replied to has been acted on, for any number of  *)
(* properties, handlers, controls, actions and status requests, in any order   *)
(* in which they are lost or come (_handle_control, _set_control_clientToken,  *)
(* deal_down_stream_user_logic).                                               *)
THEOREM RepliesAreDue == Spec => []LatestIsAnswered
  <1>1. Init => CommandsInv /\ RepliesCover
    BY CommandsInit, RepliesInit DEF Init
  <1>2. CommandsInv /\ RepliesCover /\ [Next]_allVars => (CommandsInv /\ RepliesCover)'
    BY StepOfEach, CommandsNext, RepliesNext
  <1>3. CommandsInv /\ RepliesCover => LatestIsAnswered
    BY CommandsAnswered DEF LatestIsAnswered
  <1> QED
    BY <1>1, <1>2, <1>3, PTL DEF Spec

(* What is put together from pieces, and how far it stays whole.  No line of the *)
(* log vanishes while it is buffered, moved, saved and posted, and until a post  *)
(* fails the server gets each once and in order (log_upload.c); a file is put    *)
(* together from its ranges without gap or overlap, each answer read apart from  *)
(* the one before, whatever fails (utils_httpc.c, the download of OTA, resources *)
(* and files); until a read has stalled on a connection, and not after that, a   *)
(* packet is handled whole and in order (_read_mqtt_packet); the bytes of a      *)
(* packet go out in order, each once, and all have when the send succeeds, but   *)
(* for one of which a write took a part and returned success (send_mqtt_packet,  *)
(* HAL_TCP_Write, HAL_TLS_Write); a request of which no write was cut short      *)
(* reaches the peer whole when its head is shorter than the buffer, and begins   *)
(* as it should when it is not (_http_client_send_header); a digest is that of   *)
(* the whole message and an HMAC that of its key, however the message is cut and *)
(* wherever the count passes the end of its first word (utils_md5.c,             *)
(* utils_sha1.c, utils_hmac.c); a list is one sequence from either end, and a    *)
(* scan sees all of it while its nodes are removed (utils_list.c): for any sizes *)
(* of buffers, lines, files, ranges, packets, blocks and lists.                  *)
THEOREM StreamsStayWhole == Spec => []StreamsWhole
  <1> DEFINE Inv == LogInv /\ UrlInv /\ PacketInv /\ WireInv /\ HttpInv /\ DigestInv
                    /\ ListInv
  <1>1. Init => Inv
    BY LogInit, UrlInit, PacketsInit, WireInit, HttpInit, DigestInit, ListInit DEF Init
  <1>2. Inv /\ [Next]_allVars => Inv'
    BY StepOfEach, LogNext, UrlNext, PacketsNext, WireNext, HttpNext, DigestNext, ListNext
  <1>3. Inv => StreamsWhole
    BY LogMeans, UrlMeans, PacketsMean, WireWhole, HttpMeans, DigestMeans, ListMeans
    DEF StreamsWhole
  <1> QED
    BY <1>1, <1>2, <1>3, PTL DEF Spec

(* The task of a resource that is being transferred is not replaced by what    *)
(* the cloud starts meanwhile: only the report of its end, or a restart, may   *)
(* clear it (_qcloud_iot_resource_callback).                                   *)
THEOREM TaskIsKept == Spec => TaskStays
  <1>1. Init => ResourceInv
    BY ResourceInit DEF Init
  <1>2. ResourceInv /\ [Next]_allVars => ResourceInv'
    BY StepOfEach, ResourceNext
  <1>3. ResourceInv /\ [Next]_allVars =>
            [\A k \in Resource!Kinds : rsState[k] = "start" =>
                 rsInfo'[k] = rsInfo[k] \/ rsInfo'[k].name = Null]_Resource!rsVars
    BY StepOfEach, ResourceNext DEF TaskKept
  <1> QED
    BY <1>1, <1>2, <1>3, PTL DEF Spec, TaskStays, Resource!TaskStays

(* A download that is complete has the checksum of the bytes which were        *)
(* stored, and these are those of its task, after any mix of resumes, retries, *)
(* failures and restarts: the flash of an update (_ota_update_task), the file  *)
(* of a resource (IOT_Resource_DownloadYield) and that of the file management  *)
(* (IOT_FileManage_Down), for any sizes and any number of tasks and faults.    *)
THEOREM ChecksumIsOfStored == Spec => []ChecksumOfFile
  <1>1. Init => OtaInv /\ ResourceAll /\ FilesInv
    BY OtaInit, ResourceAllInit, FilesInit DEF Init
  <1>2. OtaInv /\ ResourceAll /\ FilesInv /\ [Next]_allVars => (OtaInv /\ ResourceAll /\ FilesInv)'
    BY StepOfEach, OtaNext, ResourceAllNext, FilesNext
  <1>3. OtaInv => Ota!Md5IsOfFlash
    BY DEF OtaInv, OtaStored, Ota!Md5IsOfFlash
  <1>4. OtaInv /\ ResourceAll /\ FilesInv => ChecksumOfFile
    BY <1>3, FilesApart DEF ResourceAll, ResourceStored, ChecksumOfFile
  <1> QED
    BY <1>1, <1>2, <1>4, PTL DEF Spec

(* A call that returns success was answered: by an answer to this very call,   *)
(* unless one before it was given up (gateway_publish_sync and the calls of    *)
(* device_bind.c, kgmusic_client.c, log_mqtt.c and system_mqtt.c), which the   *)
(* slots without tokens then allow.  The report of an upload was answered by   *)
(* its own answer if no other report of an upload, of its progress above all,  *)
(* waited for one as it began; otherwise by an answer that came while it       *)
(* waited, for the answers to both are the same message                        *)
(* (_iot_resource_upload_report).  Between the calls of a gateway no session   *)
(* of a sub-device is half way (IOT_Gateway_Subdev_Online), and a topic counts *)
(* as subscribed only when the broker holds it.  A device is bound with the    *)
(* token of this configuration, and a result of speech reaches its request.    *)
THEOREM SuccessHasAnswer == Spec => []SuccessIsAnswered
  <1> DEFINE Inv == /\ GatewayInv /\ GatewayAnswers /\ SyncInv /\ SyncAnswers
                    /\ ResourceAll /\ WifiInv /\ SpeechInv
  <1>1. Init => Inv
    BY GatewayInit, GatewayAnswersInit, SyncInit, SyncAnswersInit, ResourceAllInit, WifiInit,
       SpeechInit DEF Init
  <1>2. Inv /\ [Next]_allVars => Inv'
    BY StepOfEach, GatewayNext, GatewayAnswersNext, SyncNext, SyncAnswersNext, ResourceAllNext,
       WifiNext, SpeechNext
  <1>3. GatewayInv /\ GatewayAnswers => Gw!SuccessIsAnswered /\ Gw!IdleSessionsOnline
    BY GatewayIdle DEF GatewayAnswers
  <1>4. SyncInv /\ SyncAnswers => Sync!SuccessIsAnswered /\ Sync!OkIsGranted
    BY DEF SyncInv, SyncAnswers
  <1>5. Inv => SuccessIsAnswered
    BY <1>3, <1>4, WifiBound DEF ResourceAll, ResourceAnswers, SpeechInv, SuccessIsAnswered
  <1> QED
    BY <1>1, <1>2, <1>5, PTL DEF Spec

(* One thing at a time: a started transfer has the name and the URL of one     *)
(* task, a file is posted once, a turn of the configuration has one result, an *)
(* update is attempted a bounded number of times, the client is yielded by one *)
(* task and has nothing left when it is gone, a connection has one socket, and *)
(* a slice of speech keeps its file until it has been uploaded: for any number *)
(* of tasks, orders, posts, methods, threads, sockets and requests.            *)
THEOREM OneAtATime == Spec => []OneTask
  <1> DEFINE Inv == /\ ResourceInv /\ FilesInv /\ WifiInv /\ OtaInv
                    /\ LifecycleInv /\ NetInv /\ SpeechInv
  <1>1. Init => Inv
    BY ResourceInit, FilesInit, WifiInit, OtaInit, LifecycleInit, NetInit, SpeechInit DEF Init
  <1>2. Inv /\ [Next]_allVars => Inv'
    BY StepOfEach, ResourceNext, FilesNext, WifiNext, OtaNext, LifecycleNext, NetNext, SpeechNext
  <1>3. ResourceInv => Resource!OneTask
    BY NullIsNoNumber DEF ResourceInv, Resource!OneTask
  <1>4. OtaInv => Ota!AttemptsBounded
    BY DEF OtaInv, OtaTries, Ota!AttemptsBounded
  <1>5. Inv => OneTask
    BY <1>3, <1>4, FilesApart, WifiBound, LoopYields DEF NetInv, SpeechInv, OneTask
  <1> QED
    BY <1>1, <1>2, <1>5, PTL DEF Spec

(* No subscription misses a message: the walk of _is_topic_matched along a     *)
(* filter and a name stops with a match when the filter covers the name, so    *)
(* the message goes to the first handler it is for, or to the default one only *)
(* when no filter covers it (_deliver_message); a filter without wildcards     *)
(* takes the messages of its very name and no other.  For any number of        *)
(* subscriptions, and for filters and names of any length and any letters.     *)
THEOREM TopicsAreMatched == Spec => [](service = "topics" => DataAsMeant)
  <1>1. Init => TopicInv
    BY TopicsInit DEF Init
  <1>2. TopicInv /\ [Next]_allVars => TopicInv'
    BY StepOfEach, TopicsNext
  <1>3. TopicInv => (service = "topics" => DataAsMeant)
    BY TopicsMean DEF DataAsMeant
  <1> QED
    BY <1>1, <1>2, <1>3, PTL DEF Spec
=============================================================================
