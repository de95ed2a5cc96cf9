------------------------------ MODULE LinkedList ------------------------------
(***************************************************************************)
(* The doubly linked list of the SDK (utils_list.c): nodes with two        *)
(* pointers, a count that decides which ends are touched, and iterators    *)
(* that hold the node they return next.                                    *)
(***************************************************************************)
EXTENDS Integers, Sequences, SequencesExt, FiniteSets

CONSTANTS
    ListNodes, \* bound: the nodes that are ever allocated
    Values,    \* bound: what their val points to
    Null

VARIABLES
    llNode,    \* [ListNodes -> [prev, next, val]], or Null where the node is not allocated
    llList,    \* the list: [head, tail, len], Null when it was destroyed
    llIter,    \* the iterator of a scan: [next, direction], or Null
    llItems,   \* history: the nodes pushed and not yet removed, in their order
    llCurrent, \* the node the scan was last given, Null when it has freed it
    llSeen,    \* history: the nodes the scan has returned, without those it has freed
    llMissed   \* history: the nodes the scan still has to return

vars == <<llNode, llList, llIter, llItems, llCurrent, llSeen, llMissed>>
-----------------------------------------------------------------------------
InList == {llItems[i] : i \in DOMAIN llItems}
Loose  == {n \in ListNodes : llNode[n] # Null /\ n \notin InList}

(* qcloud_list_new *)
Init ==
    /\ llNode = [n \in ListNodes |-> Null]
    /\ llList = [head |-> Null, tail |-> Null, len |-> 0]
    /\ llIter = Null
    /\ llItems = <<>> /\ llCurrent = Null /\ llSeen = {} /\ llMissed = {}

(* list_node_new *)
NodeNew(n, v) ==
    /\ llNode[n] = Null
    /\ llNode' = [llNode EXCEPT ![n] = [prev |-> Null, next |-> Null, val |-> v]]
    /\ UNCHANGED <<llList, llIter, llItems, llCurrent, llSeen, llMissed>>

\* Node n linked behind node a and in front of node b.
Linked(node, n, a, b) == [node EXCEPT ![n].prev = a, ![n].next = b]

(* qcloud_list_rpush *)
RPush(n) ==
    /\ n \in Loose
    /\ LET old == llList.tail
       IN  IF llList.len > 0
           THEN /\ llNode' = [Linked(llNode, n, old, Null) EXCEPT ![old].next = n]
                /\ llList' = [llList EXCEPT !.tail = n, !.len = @ + 1]
           ELSE /\ llNode' = Linked(llNode, n, Null, Null)
                /\ llList' = [head |-> n, tail |-> n, len |-> 1]
    /\ llItems' = Append(llItems, n)
    /\ UNCHANGED <<llIter, llCurrent, llSeen, llMissed>>

(* qcloud_list_lpush *)
LPush(n) ==
    /\ n \in Loose
    /\ LET old == llList.head
       IN  IF llList.len > 0
           THEN /\ llNode' = [Linked(llNode, n, Null, old) EXCEPT ![old].prev = n]
                /\ llList' = [llList EXCEPT !.head = n, !.len = @ + 1]
           ELSE /\ llNode' = Linked(llNode, n, Null, Null)
                /\ llList' = [head |-> n, tail |-> n, len |-> 1]
    /\ llItems' = <<n>> \o llItems
    /\ UNCHANGED <<llIter, llCurrent, llSeen, llMissed>>

(* qcloud_list_rpop, qcloud_list_lpop: the node is detached and not freed. No *)
(* file of the SDK pops during a scan.                                       *)
RPop ==
    /\ llIter = Null /\ llList.len > 0
    /\ LET n == llList.tail
       IN  IF llList.len > 1
           THEN LET last == llNode[n].prev
                IN  /\ llNode' = Linked([llNode EXCEPT ![last].next = Null], n, Null, Null)
                    /\ llList' = [llList EXCEPT !.tail = last, !.len = @ - 1]
           ELSE /\ llNode' = Linked(llNode, n, Null, Null)
                /\ llList' = [head |-> Null, tail |-> Null, len |-> 0]
    /\ llItems' = Front(llItems)
    /\ UNCHANGED <<llIter, llCurrent, llSeen, llMissed>>

LPop ==
    /\ llIter = Null /\ llList.len > 0
    /\ LET n == llList.head
       IN  IF llList.len > 1
           THEN LET first == llNode[n].next
                IN  /\ llNode' = Linked([llNode EXCEPT ![first].prev = Null], n, Null, Null)
                    /\ llList' = [llList EXCEPT !.head = first, !.len = @ - 1]
           ELSE /\ llNode' = Linked(llNode, n, Null, Null)
                /\ llList' = [head |-> Null, tail |-> Null, len |-> 0]
    /\ llItems' = Tail(llItems)
    /\ UNCHANGED <<llIter, llCurrent, llSeen, llMissed>>

(* qcloud_list_remove: what it does to the nodes and to the list              *)
Unlinked(n) ==
    LET a    == llNode[n].prev
        b    == llNode[n].next
        left == IF a = Null THEN llNode ELSE [llNode EXCEPT ![a].next = b]
    IN  [(IF b = Null THEN left ELSE [left EXCEPT ![b].prev = a]) EXCEPT ![n] = Null]

Shortened(n) ==
    LET a == llNode[n].prev
        b == llNode[n].next
    IN  [head |-> IF a = Null THEN b ELSE llList.head,
         tail |-> IF b = Null THEN a ELSE llList.tail,
         len  |-> IF llList.len > 0 THEN llList.len - 1 ELSE 0]

\* During a scan a loop of the SDK removes no other node than the one it was last given.
Removable(n) == n \in InList /\ (llIter # Null => n = llCurrent)

ListRemove(n) ==
    /\ Removable(n)
    /\ llNode' = Unlinked(n)
    /\ llList' = Shortened(n)
    /\ \E i \in DOMAIN llItems : llItems[i] = n /\ llItems' = RemoveAt(llItems, i)
    /\ llCurrent' = Null
    /\ llSeen' = llSeen \ {n}
    /\ UNCHANGED <<llIter, llMissed>>
-----------------------------------------------------------------------------
(* qcloud_list_iterator_new *)
End(direction) == IF direction = "head" THEN llList.head ELSE llList.tail
IteratorNew(direction) ==
    /\ llIter = Null
    /\ llIter' = [next |-> End(direction), direction |-> direction]
    /\ llCurrent' = Null /\ llSeen' = {} /\ llMissed' = InList
    /\ UNCHANGED <<llNode, llList, llItems>>

(* qcloud_list_iterator_next *)
Behind(n, direction) == IF direction = "head" THEN llNode[n].next ELSE llNode[n].prev
IteratorNext ==
    /\ llIter # Null /\ llIter.next # Null
    /\ llIter' = [llIter EXCEPT !.next = Behind(@, llIter.direction)]
    /\ llCurrent' = llIter.next
    /\ llSeen' = llSeen \cup {llIter.next}
    /\ llMissed' = llMissed \ {llIter.next}
    /\ UNCHANGED <<llNode, llList, llItems>>

IteratorDestroy ==
    /\ llIter # Null
    /\ llIter' = Null
    /\ llCurrent' = Null /\ llSeen' = {} /\ llMissed' = {}
    /\ UNCHANGED <<llNode, llList, llItems>>

\* The nodes from n on in a direction, as their pointers lead; no more than there are.
Walk(n, direction) ==
    LET W[k \in 0 .. Cardinality(ListNodes)] ==
            IF k = 0 THEN n
            ELSE IF W[k - 1] = Null \/ llNode[W[k - 1]] = Null THEN Null
            ELSE Behind(W[k - 1], direction)
        last == CHOOSE k \in 0 .. Cardinality(ListNodes) :
                    /\ W[k] = Null \/ k = Cardinality(ListNodes)
                    /\ \A j \in 0 .. k - 1 : W[j] # Null
    IN  [i \in 1 .. last |-> W[i - 1]]

(* qcloud_list_find: the first node with the value, without a match function. *)
Find(v) ==
    LET walk == Walk(llList.head, "head")
        hits == {i \in DOMAIN walk : llNode[walk[i]].val = v}
    IN  IF hits = {} THEN Null ELSE walk[CHOOSE i \in hits : \A j \in hits : i <= j]

(* qcloud_list_at: a negative index counts from the tail, -1 being the last.  *)
At(index) ==
    LET direction == IF index < 0 THEN "tail" ELSE "head"
        steps     == IF index < 0 THEN -index - 1 ELSE index
    IN  IF steps < llList.len THEN Walk(End(direction), direction)[steps + 1] ELSE Null

(* qcloud_list_destroy: as many nodes as are counted, from the head.          *)
Destroy ==
    /\ llIter = Null
    /\ llNode' = [n \in ListNodes |->
           IF n \in {Walk(llList.head, "head")[i] : i \in 1 .. llList.len}
           THEN Null ELSE llNode[n]]
    /\ llList' = Null
    /\ UNCHANGED <<llIter, llItems, llCurrent, llSeen, llMissed>>

Next ==
    /\ llList # Null
    /\ \/ \E n \in ListNodes, v \in Values : NodeNew(n, v)
       \/ \E n \in ListNodes : RPush(n) \/ LPush(n) \/ ListRemove(n)
       \/ RPop \/ LPop
       \/ \E direction \in {"head", "tail"} : IteratorNew(direction)
       \/ IteratorNext \/ IteratorDestroy
       \/ Destroy

Spec == Init /\ [][Next]_vars
-----------------------------------------------------------------------------
TypeOK ==
    /\ \A n \in ListNodes : llNode[n] # Null => llNode[n].val \in Values
    /\ llIter # Null => llIter.direction \in {"head", "tail"}

\* The pointers and the count are those of one sequence, read from either end, after any
\* pushes, pops and removals; a list that is destroyed leaves none of its nodes behind.
IsSequence ==
    IF llList = Null THEN \A n \in InList : llNode[n] = Null
    ELSE
        /\ Walk(llList.head, "head") = llItems
        /\ Walk(llList.tail, "tail") = Reverse(llItems)
        /\ llList.len = Len(llItems)

\* Looking for a value or an index finds the node the sequence has there.
FindsItem ==
    llList # Null =>
        /\ \A v \in Values :
             LET hits == {i \in DOMAIN llItems : llNode[llItems[i]].val = v}
             IN  Find(v) = IF hits = {} THEN Null
                           ELSE llItems[CHOOSE i \in hits : \A j \in hits : i <= j]
        /\ \A k \in DOMAIN llItems :
             At(k - 1) = llItems[k] /\ At(-k) = llItems[Len(llItems) + 1 - k]

\* A scan whose loop removes the nodes it is given returns every node that was there when it
\* began, once, and never one that was freed.
ScanWhole ==
    llIter # Null =>
        LET ahead == Walk(llIter.next, llIter.direction)
        IN  /\ llMissed \subseteq ToSet(ahead)
            /\ ToSet(ahead) \subseteq InList \ llSeen
=============================================================================
