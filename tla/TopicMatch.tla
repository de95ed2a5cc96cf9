------------------------------ MODULE TopicMatch ------------------------------
(***************************************************************************)
(* The delivery of a message by its topic (mqtt_client_common.c,           *)
(* _is_topic_equals, _is_topic_matched and _deliver_message): the loop     *)
(* walks through the filter and the name with two pointers, character by   *)
(* character, and the slots of the table are tried in order until one      *)
(* matches.  It is compared with the rule for topic filters, level by      *)
(* level.                                                                  *)
(***************************************************************************)
EXTENDS Naturals, Sequences, SequencesExt

CONSTANTS
    Letters,   \* characters of topic levels
    MaxLength, \* bound: characters of a filter and of a name
    MaxFilters,  \* bound: filters in the table
    SharedLength \* bound: characters of a filter that has others beside it

Slash == "/"
Plus  == "+"
Hash  == "#"

VARIABLES
    tmFilters, \* the filters in the table, in the order of their slots
    tmName,    \* topicName
    tmSlot,    \* the slot that is tried
    tmFilterAt, \* curf, as an index
    tmNameAt,   \* curn
    tmDone,     \* the message has been delivered
    tmTaker     \* the slot whose handler got it, or 0: the event handler

tmVars == <<tmFilters, tmName, tmSlot, tmFilterAt, tmNameAt, tmDone, tmTaker>>

-----------------------------------------------------------------------------
\* What a filter means.

Strings(alphabet) == UNION {[1 .. n -> alphabet] : n \in 1 .. MaxLength}

\* The positions where a level of the string begins.
Begins(s) == {i \in 1 .. Len(s) + 1 : i = 1 \/ s[i - 1] = Slash}

\* The level of the string that begins at a position.
Level(s, i) ==
    LET ends == {j \in i .. Len(s) + 1 : j = Len(s) + 1 \/ s[j] = Slash}
    IN  SubSeq(s, i, (CHOOSE j \in ends : \A k \in ends : j <= k) - 1)

\* The levels are numbered from the begin of the string.
Number(s, i) == Cardinality({j \in Begins(s) : j <= i})

Levels(s) ==
    [n \in 1 .. Cardinality(Begins(s)) |-> Level(s, CHOOSE i \in Begins(s) : Number(s, i) = n)]

\* "assume topic filter and name is in correct format: # can only be at end, + and # can
\* only be next to separator"
IsFilter(s) ==
    LET levels == Levels(s)
    IN  \A n \in DOMAIN levels :
            \/ levels[n] = <<Plus>>
            \/ levels[n] = <<Hash>> /\ n = Len(levels)
            \/ \A i \in DOMAIN levels[n] : levels[n][i] \notin {Plus, Hash}

Covers(filter, name) ==
    LET f == Levels(filter)
        n == Levels(name)
        same(i) == f[i] = <<Plus>> \/ f[i] = n[i]
    IN  IF f[Len(f)] = <<Hash>>
        THEN Len(f) - 1 <= Len(n) /\ \A i \in 1 .. Len(f) - 1 : same(i)
        ELSE Len(f) = Len(n) /\ \A i \in DOMAIN f : same(i)

-----------------------------------------------------------------------------
Filters == {s \in Strings(Letters \cup {Slash, Plus, Hash}) : IsFilter(s)}
Names   == Strings(Letters \cup {Slash})

\* The filters of the table in use: one of any length, or several shorter ones.
Tables ==
    {<<f>> : f \in Filters}
        \cup UNION {[1 .. n -> {f \in Filters : Len(f) <= SharedLength}] : n \in 2 .. MaxFilters}

Init ==
    /\ tmFilters \in Tables
    /\ tmName \in Names
    /\ tmSlot = 1
    /\ tmFilterAt = 1 /\ tmNameAt = 1
    /\ tmDone = FALSE
    /\ tmTaker = 0

Filter == tmFilters[tmSlot]

\* The character a pointer is at; a string ends with a zero.
F == IF tmFilterAt <= Len(Filter) THEN Filter[tmFilterAt] ELSE "0"
N == IF tmNameAt <= Len(tmName) THEN tmName[tmNameAt] ELSE "0"

InLoop == F # "0" /\ tmNameAt <= Len(tmName)

\* The two breaks of the loop.
Differs ==
    \/ N = Slash /\ F # Slash
    \/ F \notin {Plus, Hash} /\ F # N

\* A wildcard that stands for no character of this level.
EmptyLevel == F = Plus /\ N = Slash

\* Mutant: a wildcard for a level does not stop at the separator behind it.
EndOfName == Len(tmName)

\* The last character of the level, or of the name, that the wildcard stands for.
EndOfLevel ==
    LET ends == {j \in tmNameAt .. Len(tmName) : j = Len(tmName) \/ tmName[j + 1] = Slash}
    IN  CHOOSE j \in ends : \A k \in ends : j <= k

LastOf ==
    CASE F = Plus -> EndOfLevel
      [] F = Hash -> Len(tmName)
      [] OTHER    -> tmNameAt

Walk ==
    /\ ~tmDone /\ InLoop
    /\ \/ /\ EmptyLevel
          /\ tmFilterAt' = tmFilterAt + 1
          /\ tmNameAt' = tmNameAt
       \/ /\ ~EmptyLevel /\ ~Differs
          /\ tmFilterAt' = tmFilterAt + 1
          /\ tmNameAt' = LastOf + 1
    /\ UNCHANGED <<tmFilters, tmName, tmSlot, tmDone, tmTaker>>

\* What the function returns after its loop.
Matched ==
    IF F = "0" THEN tmNameAt = Len(tmName) + 1
    ELSE \/ F = Hash
         \/ tmFilterAt < Len(Filter) /\ Filter[tmFilterAt + 1] = Hash
         \/ F = Plus /\ tmNameAt > 1 /\ tmName[tmNameAt - 1] = Slash

Stopped == ~InLoop \/ (~EmptyLevel /\ Differs)

\* The first slot that matches gets the message.
Deliver ==
    /\ ~tmDone /\ Stopped
    /\ Matched
    /\ tmDone' = TRUE
    /\ tmTaker' = tmSlot
    /\ UNCHANGED <<tmFilters, tmName, tmSlot, tmFilterAt, tmNameAt>>

TryNext ==
    /\ ~tmDone /\ Stopped
    /\ ~Matched /\ tmSlot < Len(tmFilters)
    /\ tmSlot' = tmSlot + 1
    /\ tmFilterAt' = 1 /\ tmNameAt' = 1
    /\ UNCHANGED <<tmFilters, tmName, tmDone, tmTaker>>

NoMatch ==
    /\ ~tmDone /\ Stopped
    /\ ~Matched /\ tmSlot = Len(tmFilters)
    /\ tmDone' = TRUE
    /\ UNCHANGED <<tmFilters, tmName, tmSlot, tmFilterAt, tmNameAt, tmTaker>>

Next == Walk \/ Deliver \/ TryNext \/ NoMatch

Spec == Init /\ [][Next]_tmVars
-----------------------------------------------------------------------------
\* The ranges of the variables.
TypeOK ==
    /\ tmSlot \in 1 .. Len(tmFilters)
    /\ tmFilterAt \in 1 .. Len(Filter) + 1
    /\ tmNameAt \in 1 .. Len(tmName) + 1
    /\ tmTaker \in {0} \cup DOMAIN tmFilters

\* No subscription misses a message: a filter that covers the name is found, unless an
\* earlier slot has taken the message.
NoneMissed ==
    tmDone =>
        \A i \in DOMAIN tmFilters :
            Covers(tmFilters[i], tmName) => tmTaker # 0 /\ tmTaker <= i

\* A filter without a wildcard takes no message of another topic.
ExactWithoutWildcard ==
    tmTaker # 0 =>
        LET f == tmFilters[tmTaker]
        IN  (\A i \in DOMAIN f : f[i] \notin {Plus, Hash}) => f = tmName
=============================================================================
