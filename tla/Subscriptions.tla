--------------------------- MODULE Subscriptions ---------------------------
(***************************************************************************)
(* The subscription side of the MQTT client: the table sub_handles, the    *)
(* list list_sub_wait_ack of requests that wait for a SUBACK or UNSUBACK,  *)
(* the heap blocks that hold the topic filters both of them point to, and  *)
(* the broker at the other end of the connection.                          *)
(*                                                                         *)
(* The client is single-threaded (HAL_Mutex* are no-ops in this build), so *)
(* an API call, the handling of one packet, one scan of the wait list and  *)
(* one step of the resubscribe loop are atomic; callbacks run inside them  *)
(* and may call the API again, which is an API action between two steps.   *)
(***************************************************************************)
EXTENDS Naturals, FiniteSets, Sequences

CONSTANTS
    Topics,        \* topic filters the application uses
    Wildcards,     \* those of Topics that contain "/#" or "/+"
    Callbacks,     \* pairs of message_handler and sub_event_handler
    MaxHandles,    \* MAX_MESSAGE_HANDLERS, the size of the table and of the list
    MaxPacketId,   \* MAX_PACKET_ID, after which packet ids start again at 1
    Watched,       \* packet ids whose reports are recorded in outcome
    StartIds,      \* what _get_random_start_packet_id may return
    Blocks,        \* heap blocks a topic filter can be stored in
    Null,          \* the NULL pointer, and the content of a free block
    CleanSession,  \* the clean_session connect option
    Garbage        \* what the uninitialized pointer of the UNSUBACK handler may hold

ASSUME MaxHandlesAssumption  == MaxHandles \in Nat \ {0}
ASSUME MaxPacketIdAssumption == MaxPacketId \in Nat \ {0}
ASSUME StartIdsAssumption    == StartIds \subseteq 0..MaxPacketId
ASSUME WatchedAssumption     == Watched \subseteq 1..MaxPacketId
ASSUME WildcardsAssumption   == Wildcards \subseteq Topics
ASSUME CleanAssumption       == CleanSession \in BOOLEAN
ASSUME GarbageAssumption     == Garbage \subseteq Blocks \cup {Null} /\ Garbage # {}
ASSUME NullAssumption        == Null \notin Blocks \cup Topics \cup Callbacks

VARIABLES
    heap,          \* topic filter stored in each block, Null when it is free
    subHandles,    \* the table: [filter, cb] per slot
    subWaitAck,    \* the wait list: nodes [id, type, filter, cb, valid]
    nextPacketId,  \* next_packet_id: the id given out last
    isConnected,   \* is_connected
    cursor,        \* slot the resubscribe loop is at, 0 when it is not running
    due,           \* a packet was read and the main loop owes the list scan
    toBroker,      \* SUBSCRIBE and UNSUBSCRIBE packets under way
    toClient,      \* SUBACK and UNSUBACK packets under way
    brokerSubs,    \* topic filters the broker's session holds
    outcome,       \* events reported for the request that last took a packet id
    alive          \* FALSE once IOT_MQTT_Destroy has run

vars == <<heap, subHandles, subWaitAck, nextPacketId, isConnected, cursor, due,
          toBroker, toClient, brokerSubs, outcome, alive>>

client == <<heap, subHandles, subWaitAck, nextPacketId>>
wires  == <<toBroker, toClient>>

----------------------------------------------------------------------------
Slots     == 1..MaxHandles
PacketIds == 1..MaxPacketId
Requests  == {"SUBSCRIBE", "UNSUBSCRIBE"}
Acks      == {"SUBACK", "SUBNACK", "UNSUBACK"}
Events    == {"SUB_SUCCESS", "SUB_NACK", "SUB_TIMEOUT", "UNSUB_SUCCESS", "UNSUB_TIMEOUT"}

Handle == [filter: Blocks \cup {Null}, cb: Callbacks \cup {Null}]
Node   == [id: PacketIds, type: Requests, filter: Blocks, cb: Callbacks \cup {Null},
           valid: BOOLEAN]
Packet == [id: PacketIds, type: Requests, topic: Topics]
Ack    == [id: PacketIds, type: Acks]

Ids(seq)     == {seq[i].id : i \in DOMAIN seq}
WaitIds      == {n.id : n \in subWaitAck}
Pending      == {n \in subWaitAck : n.valid}
Used(s)      == subHandles[s].filter # Null
TopicOf(s)   == heap[subHandles[s].filter]
FreeBlocksOf(h) == {b \in Blocks : h[b] = Null}

(* free() of a set of pointers: NULL is ignored *)
Freed(h, bs) == [b \in Blocks |-> IF b \in bs THEN Null ELSE h[b]]

(* Mutant: the id counter does not start again at 1. *)
NextPacketIdUnbounded == nextPacketId + 1

(* get_next_packet_id *)
NextPacketId == IF nextPacketId = MaxPacketId THEN 1 ELSE nextPacketId + 1

(* 65535 ids against at most 2 * MaxHandles requests under way: an id is   *)
(* not given out again while a node or a packet still carries it.          *)
FreshId(id) == id \notin WaitIds \cup Ids(toBroker) \cup Ids(toClient)

CanCall == alive /\ cursor = 0

----------------------------------------------------------------------------
Init ==
    /\ heap = [b \in Blocks |-> Null]
    /\ subHandles = [s \in Slots |-> [filter |-> Null, cb |-> Null]]
    /\ subWaitAck = {}
    /\ nextPacketId \in StartIds
    /\ isConnected = TRUE
    /\ cursor = 0
    /\ due = FALSE
    /\ toBroker = <<>> /\ toClient = <<>>
    /\ brokerSubs = {}
    /\ outcome = [i \in Watched |-> {}]
    /\ alive = TRUE

(* The common tail of subscribe and unsubscribe, over the heap h their     *)
(* first part leaves: store the filter, take an id, queue a wait node and  *)
(* send. It can be refused (no memory, list full, packet not sent), which  *)
(* leaves nothing behind but the packet id taken.                          *)
SendRequest(h, type, topic, cb) ==
    /\ Cardinality(subWaitAck) < MaxHandles
    /\ FreshId(NextPacketId)
    /\ \E f \in FreeBlocksOf(h) :
         /\ heap' = [h EXCEPT ![f] = topic]
         /\ subWaitAck' = subWaitAck \cup
              {[id |-> NextPacketId, type |-> type, filter |-> f, cb |-> cb,
                valid |-> TRUE]}
    /\ nextPacketId' = NextPacketId
    /\ toBroker' = Append(toBroker, [id |-> NextPacketId, type |-> type, topic |-> topic])
    /\ outcome' = [i \in Watched |-> IF i = NextPacketId THEN {} ELSE outcome[i]]

RequestFails(h) ==
    /\ heap' = h
    /\ nextPacketId' \in {nextPacketId, NextPacketId}
    /\ UNCHANGED <<subWaitAck, toBroker, outcome>>

Subscribe(topic, cb) ==
    /\ CanCall /\ isConnected
    /\ \/ SendRequest(heap, "SUBSCRIBE", topic, cb)
       \/ RequestFails(heap)
    /\ UNCHANGED <<subHandles, isConnected, cursor, due, toClient, brokerSubs, alive>>

(* A filter with a wildcard matches every slot of the table, also the      *)
(* empty ones; any other filter the slots that store exactly that filter.  *)
Matching(topic) ==
    {s \in Slots : topic \in Wildcards \/ (Used(s) /\ TopicOf(s) = topic)}

Unsubscribe(topic) ==
    LET matched == Matching(topic)
        h       == Freed(heap, {subHandles[s].filter : s \in matched})
    IN /\ CanCall
       /\ matched # {}
       /\ subHandles' = [s \in Slots |->
            IF s \in matched THEN [subHandles[s] EXCEPT !.filter = Null] ELSE subHandles[s]]
       /\ \/ isConnected /\ SendRequest(h, "UNSUBSCRIBE", topic, Null)
          \/ isConnected /\ RequestFails(h)
          \/ /\ ~isConnected
             /\ heap' = h
             /\ UNCHANGED <<subWaitAck, nextPacketId, toBroker, outcome>>
       /\ UNCHANGED <<isConnected, cursor, due, toClient, brokerSubs, alive>>

IsSubReady(topic) == \E s \in Slots : (Used(s) /\ TopicOf(s) = topic) \/ topic \in Wildcards
----------------------------------------------------------------------------
(* The broker answers the requests of a connection in order. *)
BrokerSubscribe ==
    /\ toBroker # <<>> /\ Head(toBroker).type = "SUBSCRIBE"
    /\ \/ /\ brokerSubs' = brokerSubs \cup {Head(toBroker).topic}
          /\ toClient' = Append(toClient, [id |-> Head(toBroker).id, type |-> "SUBACK"])
       \/ /\ UNCHANGED brokerSubs
          /\ toClient' = Append(toClient, [id |-> Head(toBroker).id, type |-> "SUBNACK"])
    /\ toBroker' = Tail(toBroker)
    /\ UNCHANGED <<client, isConnected, cursor, due, outcome, alive>>

BrokerUnsubscribe ==
    /\ toBroker # <<>> /\ Head(toBroker).type = "UNSUBSCRIBE"
    /\ brokerSubs' = brokerSubs \ {Head(toBroker).topic}
    /\ toClient' = Append(toClient, [id |-> Head(toBroker).id, type |-> "UNSUBACK"])
    /\ toBroker' = Tail(toBroker)
    /\ UNCHANGED <<client, isConnected, cursor, due, outcome, alive>>

----------------------------------------------------------------------------
Report(id, event) == [i \in Watched |-> IF i = id THEN outcome[i] \cup {event} ELSE outcome[i]]

(* Mutant: an answered request stays valid. *)
MaskedNothing(id) == subWaitAck

(* _mask_sub_info_from: mark every node with this id as invalid *)
Masked(id) == {IF n.id = id THEN [n EXCEPT !.valid = FALSE] ELSE n : n \in subWaitAck}

Reading(type) ==
    /\ CanCall /\ isConnected /\ ~due
    /\ toClient # <<>> /\ Head(toClient).type = type
    /\ toClient' = Tail(toClient)
    /\ UNCHANGED <<nextPacketId, isConnected, cursor, toBroker, brokerSubs, alive>>

(* Mutant: _check_handle_is_identical compares the pointers. *)
IdenticalPointer(s, n) == Used(s) /\ subHandles[s].filter = n.filter /\ subHandles[s].cb = n.cb

(* _check_handle_is_identical *)
Identical(s, n) == Used(s) /\ TopicOf(s) = heap[n.filter] /\ subHandles[s].cb = n.cb
FreeSlots       == {s \in Slots : ~Used(s)}

(* The wait node has gone, for instance after a timeout: nothing is        *)
(* installed, and the yield that read the packet returns an error.         *)
SubAckUnmatched(id) ==
    /\ id \notin WaitIds
    /\ due' = FALSE
    /\ UNCHANGED <<heap, subHandles, subWaitAck, outcome>>

(* Mutant: the second copy of the topic filter is kept. *)
SubAckDuplicateKeepsFilter(n) ==
    /\ \E s \in Slots : Identical(s, n)
    /\ outcome' = Report(n.id, "SUB_SUCCESS")
    /\ due' = TRUE
    /\ UNCHANGED <<heap, subHandles>>

SubAckDuplicate(n) ==
    /\ \E s \in Slots : Identical(s, n)
    /\ heap' = Freed(heap, {n.filter})
    /\ outcome' = Report(n.id, "SUB_SUCCESS")
    /\ due' = TRUE
    /\ UNCHANGED subHandles

SubAckInstall(n) ==
    /\ ~ \E s \in Slots : Identical(s, n)
    /\ \E s \in FreeSlots :
         /\ \A r \in FreeSlots : s <= r
         /\ subHandles' = [subHandles EXCEPT ![s] = [filter |-> n.filter, cb |-> n.cb]]
    /\ outcome' = Report(n.id, "SUB_SUCCESS")
    /\ due' = TRUE
    /\ UNCHANGED heap

SubAckTableFull(n) ==
    /\ ~ \E s \in Slots : Identical(s, n)
    /\ FreeSlots = {}
    /\ due' = FALSE
    /\ UNCHANGED <<heap, subHandles, outcome>>

HandleSubAck ==
    /\ Reading("SUBACK")
    /\ LET id == Head(toClient).id IN
         \/ SubAckUnmatched(id)
         \/ \E n \in subWaitAck :
              /\ n.id = id
              /\ SubAckDuplicate(n) \/ SubAckInstall(n) \/ SubAckTableFull(n)
              /\ subWaitAck' = Masked(id)

(* The refusal is reported before the wait node is looked up. *)
HandleSubNack ==
    /\ Reading("SUBNACK")
    /\ LET id == Head(toClient).id IN
         /\ outcome' = Report(id, "SUB_NACK")
         /\ heap' = Freed(heap, {n.filter : n \in {m \in subWaitAck : m.id = id}})
         /\ subWaitAck' = Masked(id)
    /\ due' = FALSE
    /\ UNCHANGED subHandles

(* Without a wait node messageHandler.topic_filter is never assigned: the  *)
(* handler frees whatever the stack holds there.                           *)
HandleUnsubAck ==
    /\ Reading("UNSUBACK")
    /\ LET id == Head(toClient).id IN
         /\ \/ /\ id \in WaitIds
               /\ heap' = Freed(heap, {n.filter : n \in {m \in subWaitAck : m.id = id}})
            \/ /\ id \notin WaitIds
               /\ \E p \in Garbage : heap' = Freed(heap, {p})
         /\ subWaitAck' = Masked(id)
         /\ outcome' = Report(id, "UNSUB_SUCCESS")
    /\ due' = TRUE
    /\ UNCHANGED subHandles

----------------------------------------------------------------------------
TimeoutEvent(n) == IF n.type = "SUBSCRIBE" THEN "SUB_TIMEOUT" ELSE "UNSUB_TIMEOUT"

(* Mutant: a request that has timed out stays in the list. *)
RemainingAll(timedOut) == Pending
Remaining(timedOut)    == Pending \ timedOut

(* Mutant: the filter of an answered request is freed with its node. *)
ReleasedAlsoAnswered(timedOut) == {n.filter : n \in timedOut \cup (subWaitAck \ Pending)}
Released(timedOut)             == {n.filter : n \in timedOut}

(* qcloud_iot_mqtt_sub_info_proc: drop the invalid nodes, and report, free *)
(* and drop the ones whose timer has run out, timedOut. It runs after      *)
(* every read that found nothing or a packet that could be handled.        *)
SubInfoProc(timedOut) ==
    /\ CanCall /\ (isConnected \/ due)
    /\ ~isConnected => timedOut = {}
    /\ outcome' = [i \in Watched |->
         outcome[i] \cup {TimeoutEvent(n) : n \in {m \in timedOut : m.id = i}}]
    /\ heap' = Freed(heap, Released(timedOut))
    /\ subWaitAck' = Remaining(timedOut)
    /\ due' = FALSE
    /\ UNCHANGED <<subHandles, nextPacketId, isConnected, cursor, wires, brokerSubs, alive>>

----------------------------------------------------------------------------
(* _handle_disconnect: the socket is closed, what was under way is lost *)
LoseConnection ==
    /\ CanCall /\ isConnected
    /\ isConnected' = FALSE
    /\ toBroker' = <<>> /\ toClient' = <<>>
    /\ UNCHANGED <<client, cursor, due, brokerSubs, outcome, alive>>

(* Mutant: the loop of qcloud_iot_mqtt_resubscribe skips a slot. *)
FirstSlotLate == MaxHandles
FirstSlot     == 1

(* qcloud_iot_mqtt_attempt_reconnect succeeds in connecting *)
Connect ==
    /\ CanCall /\ ~isConnected
    /\ isConnected' = TRUE
    /\ brokerSubs' = IF CleanSession THEN {} ELSE brokerSubs
    /\ cursor' = FirstSlot
    /\ UNCHANGED <<client, due, wires, outcome, alive>>

(* One round of the loop of qcloud_iot_mqtt_resubscribe: the first request *)
(* that is refused ends it.                                                *)
Resubscribe ==
    /\ alive /\ cursor # 0
    /\ \/ /\ ~Used(cursor)
          /\ cursor' = (cursor + 1) % (MaxHandles + 1)
          /\ UNCHANGED <<heap, subWaitAck, nextPacketId, toBroker, outcome>>
       \/ /\ Used(cursor)
          /\ SendRequest(heap, "SUBSCRIBE", TopicOf(cursor), subHandles[cursor].cb)
          /\ cursor' = (cursor + 1) % (MaxHandles + 1)
       \/ /\ Used(cursor)
          /\ RequestFails(heap)
          /\ cursor' = 0
    /\ UNCHANGED <<subHandles, isConnected, due, toClient, brokerSubs, alive>>

(* IOT_MQTT_Destroy: the filters of the table are freed, the wait list is  *)
(* dropped together with the pointers its nodes hold.                      *)
Destroy ==
    /\ CanCall
    /\ heap' = Freed(heap, {subHandles[s].filter : s \in Slots})
    /\ subHandles' = [s \in Slots |-> [subHandles[s] EXCEPT !.filter = Null]]
    /\ subWaitAck' = {}
    /\ isConnected' = FALSE
    /\ toBroker' = <<>> /\ toClient' = <<>>
    /\ due' = FALSE
    /\ alive' = FALSE
    /\ UNCHANGED <<nextPacketId, cursor, brokerSubs, outcome>>

Next ==
    \/ \E t \in Topics, c \in Callbacks : Subscribe(t, c)
    \/ \E t \in Topics : Unsubscribe(t)
    \/ BrokerSubscribe \/ BrokerUnsubscribe
    \/ HandleSubAck \/ HandleSubNack \/ HandleUnsubAck
    \/ \E timedOut \in SUBSET Pending : SubInfoProc(timedOut)
    \/ LoseConnection \/ Connect \/ Resubscribe
    \/ Destroy

(* The main loop finishes a resubscribe loop it has begun and keeps        *)
(* scanning while the client is connected. Time passes: a scan sooner or   *)
(* later finds the timer of a request run out.                             *)
TimesOut(i) ==
    \E timedOut \in SUBSET Pending : (\E n \in timedOut : n.id = i) /\ SubInfoProc(timedOut)

Fairness ==
    /\ WF_vars(Resubscribe)
    /\ WF_vars(SubInfoProc({}))
    /\ \A i \in PacketIds : WF_vars(TimesOut(i))

Spec == Init /\ [][Next]_vars /\ Fairness

----------------------------------------------------------------------------
(* Types of all state variables. *)
TypeOK ==
    /\ heap \in [Blocks -> Topics \cup {Null}]
    /\ subHandles \in [Slots -> Handle]
    /\ subWaitAck \subseteq Node
    /\ nextPacketId \in 0..MaxPacketId
    /\ isConnected \in BOOLEAN /\ due \in BOOLEAN /\ alive \in BOOLEAN
    /\ cursor \in 0..MaxHandles
    /\ toBroker \in Seq(Packet) /\ toClient \in Seq(Ack)
    /\ brokerSubs \subseteq Topics
    /\ outcome \in [Watched -> SUBSET Events]

(* The topic filter of every slot in use and of every request that waits   *)
(* is an allocated block, and no two of them share one: nothing is used    *)
(* after it is freed or freed twice.                                       *)
FilterOwnership ==
    /\ \A s \in Slots : Used(s) => TopicOf(s) # Null
    /\ \A n \in Pending : heap[n.filter] # Null
    /\ \A s, r \in Slots : Used(s) /\ s # r => subHandles[s].filter # subHandles[r].filter
    /\ \A n, m \in Pending : n # m => n.filter # m.filter
    /\ \A s \in Slots, n \in Pending : subHandles[s].filter # n.filter

(* However subscribes, resubscribes, refusals and late answers interleave, *)
(* the table never holds the same filter with the same callbacks twice, so *)
(* an unsubscribe and a delivery find one slot per subscriber.             *)
DistinctHandles ==
    \A s, r \in Slots :
      Used(s) /\ Used(r) /\ s # r => TopicOf(s) # TopicOf(r) \/ subHandles[s].cb # subHandles[r].cb

(* A subscribe is reported as successful to the application only if it is  *)
(* reported neither as timed out nor as refused, before or after.          *)
SubscribeOutcome ==
    \A i \in Watched :
      "SUB_SUCCESS" \in outcome[i] => outcome[i] \cap {"SUB_TIMEOUT", "SUB_NACK"} = {}

Owned(b)  == \/ \E s \in Slots : subHandles[s].filter = b
             \/ \E n \in Pending : n.filter = b
Orphans   == {b \in Blocks : heap[b] # Null /\ ~Owned(b)}
TableFull == toClient # <<>> /\ Head(toClient).type = "SUBACK" /\ FreeSlots = {}

(* A filter is never left allocated without an owner, except when a SUBACK *)
(* finds the table full and when the client is destroyed while requests    *)
(* wait for their answer.                                                  *)
LeaksOnlyWhenFull == [][Orphans' \subseteq Orphans \/ TableFull \/ ~alive']_vars

(* A resubscribe loop that is not cut short leaves a SUBSCRIBE waiting for *)
(* every slot in use.                                                      *)
Rerequested(s) == \E n \in Pending : n.type = "SUBSCRIBE" /\ n.cb = subHandles[s].cb
                                     /\ heap[n.filter] = TopicOf(s)
LoopEnds == cursor = MaxHandles /\ cursor' = 0 /\ (Used(cursor) => toBroker' # toBroker)
ResubscribeComplete ==
    [][LoopEnds => \A s \in Slots : Used(s) => Rerequested(s)']_vars

(* A request does not wait forever for its answer once the connection      *)
(* stays up, whatever the broker does.                                     *)
Waits(i) == \E n \in Pending : n.id = i
PendingResolved ==
    <>[](isConnected \/ ~alive) => \A i \in PacketIds : Waits(i) ~> ~Waits(i)
============================================================================
