---------------------------- MODULE DataTemplate ----------------------------
(***************************************************************************)
(* The data template client over the MQTT client: its construction, the    *)
(* list of requests that wait for a reply, the list of posted events, and  *)
(* the cloud. What the cloud commands is the subject of TemplateCommands.  *)
(*                                                                         *)
(* IOT_Template_Yield walks the request list from its tail, drops expired  *)
(* events, then lets the MQTT client deliver messages. A synchronous call  *)
(* yields in a loop until the callback of its request has written to a     *)
(* variable on its stack. at and pos are the place inside the yield.       *)
(* Callbacks may send requests (retry) but do not yield. The connection    *)
(* comes and goes inside the yield of the MQTT client (MqttConnection says *)
(* how): without it nothing is sent or received, and MQTT reports nothing, *)
(* for it looks for subscriptions that timed out while connected only.     *)
(***************************************************************************)
EXTENDS Naturals, SequencesExt

CONSTANTS
    MaxRequests,   \* MAX_APPENDING_REQUEST_AT_ANY_GIVEN_TIME
    MaxEvents,     \* MAX_EVENT_WAIT_REPLY
    MaxToken,      \* bound: client tokens are 1..MaxToken
    SharedClient,  \* the MQTT client and its event handler belong to a gateway
    Null

ASSUME MaxRequestsAssumption == MaxRequests \in Nat \ {0}
ASSUME MaxEventsAssumption   == MaxEvents \in Nat \ {0}
ASSUME MaxTokenAssumption    == MaxToken \in Nat
ASSUME SharedAssumption      == SharedClient \in BOOLEAN

VARIABLES
    phase,         \* how far IOT_Template_Construct has come, or how it ended
    syncStatus,    \* inner_data.sync_status
    tokenNum,      \* inner_data.token_num
    replyList,     \* reply_list: [token, sync]
    eventList,     \* event_list, a set of [token, callback]: every token is a new one
    call,          \* the synchronous call under way: [token, ack], or Null
    at,            \* "app", or the part of IOT_Template_Yield that runs
    pos,           \* position of the list iterator
    connected,     \* is_connected of the MQTT client
    up,            \* requests and events the cloud may still answer
    down,          \* replies for the device
    outcome        \* history: how each token ended

vars == <<phase, syncStatus, tokenNum, replyList, eventList,
          call, at, pos, connected, up, down, outcome>>

lists == <<replyList, eventList, tokenNum>>
setup == <<phase, syncStatus>>
place == <<at, pos>>
net   == <<connected, up, down>>

----------------------------------------------------------------------------
Tokens     == 1..MaxToken
Stages     == {"property", "event", "action"}
Acks       == {"none", "accepted", "rejected", "timeout"}
Codes      == {"accepted", "rejected", "unreadable"}
Request    == [token : Tokens, sync : BOOLEAN]
Event      == [token : Tokens, callback : BOOLEAN]
UpMessage  == [topic : {"property", "event"}, token : Tokens]
DownMessage == [topic : {"property", "event"}, token : Tokens, code : Codes]
Outcomes   == {"idle", "untracked", "waiting", "accepted", "rejected", "timeout",
               "dropped", "abandoned", "posted", "replied", "expired"}

ASSUME NullAssumption == Null \notin [token : Tokens, ack : Acks]

InReplies(t) == \E i \in DOMAIN replyList : replyList[i].token = t
InEvents(t)  == \E e \in eventList : e.token = t
Free         == at = "app" /\ call = Null /\ phase = "ready"

Init ==
    /\ phase = "property" /\ syncStatus = "unset"
    /\ tokenNum = 0
    /\ replyList = <<>> /\ eventList = {}
    /\ call = Null /\ at = "app" /\ pos = 0
    /\ connected = TRUE
    /\ up = {} /\ down = {}
    /\ outcome = [t \in Tokens |-> "idle"]

----------------------------------------------------------------------------
(* Construction: three topics are subscribed in turn. *)

(* IOT_MQTT_Subscribe returns the packet id, and _template_check_subscribe *)
(* begins to wait for its SUBACK.                                          *)
SubscribeTopic ==
    /\ phase \in Stages /\ syncStatus \in {"unset", "synced"} /\ at = "app"
    /\ connected
    /\ syncStatus' = "pending"
    /\ UNCHANGED <<phase, lists, call, place, net, outcome>>

(* The subscription cannot be sent. For the first topic the template is    *)
(* given up as it is, for the others it is destroyed.                      *)
SubscribeRefused ==
    /\ phase \in Stages /\ syncStatus \in {"unset", "synced"} /\ at = "app"
    /\ phase' = IF phase = "property" THEN "failed" ELSE "destroyed"
    /\ UNCHANGED <<syncStatus, lists, call, place, net, outcome>>

(* Mutant: only the first subscription is awaited. *)
AwaitedFirst == syncStatus = "pending" /\ ~SharedClient /\ phase = "property"

(* The handler is the one IOT_MQTT_Construct was given: never called for a *)
(* client that was made by somebody else.                                  *)
Awaited == syncStatus = "pending" /\ ~SharedClient

(* _template_mqtt_event_handler, for an event that the yield reports: from *)
(* a SUBACK it reads, or from its scan for timeouts. Both need a connection.*)
SubscribeEvent(event) ==
    /\ at = "mqtt" /\ connected /\ Awaited
    /\ syncStatus' = IF event = "SUB_SUCCESS" THEN "synced" ELSE "failed"
    /\ UNCHANGED <<phase, lists, call, place, net, outcome>>

StageAfter == [property |-> "event", event |-> "action", action |-> "ready"]

(* The loop of _template_check_subscribe ends. *)
CheckSubscribe ==
    /\ phase \in Stages /\ at = "mqtt" /\ syncStatus \in {"synced", "failed"}
    /\ phase' = IF syncStatus = "synced" THEN StageAfter[phase] ELSE "failed"
    /\ at' = "app"
    /\ UNCHANGED <<syncStatus, lists, call, pos, net, outcome>>

----------------------------------------------------------------------------
(* Requests. *)

(* Mutant: the list is not checked before it takes an entry. *)
HasRoomAlways == TRUE
HasRoom       == Len(replyList) < MaxRequests

(* Mutant: a call returns after one yield, with or without its ack. *)
AckedAnyway == call # Null
Acked       == call # Null /\ call.ack # "none"

(* Mutant: a timeout does not reach the ack variable. *)
AckWrittenByReply(node, ack) ==
    IF node.sync /\ ack # "timeout" THEN [call EXCEPT !.ack = ack] ELSE call
AckWritten(node, ack) == IF node.sync THEN [call EXCEPT !.ack = ack] ELSE call

(* Mutant: an entry is not removed after its callback. *)
KeptAfter(i) == replyList
LeftAfter(i) == RemoveAt(replyList, i)

(* Mutant: an event without a callback does not expire. *)
WithoutCallback(tokens) == {e \in eventList : e.token \notin tokens \/ ~e.callback}
Without(tokens)         == {e \in eventList : e.token \notin tokens}

(* send_template_request for a request with a callback: published first,   *)
(* then put into the list, unless that is full. n is a fresh token.        *)
Sent(sync, n) ==
    /\ connected
    /\ up' = up \cup {[topic |-> "property", token |-> n]}
    /\ tokenNum' = n
    /\ outcome' = [outcome EXCEPT ![n] = IF HasRoom THEN "waiting" ELSE "untracked"]
    /\ replyList' = IF HasRoom THEN Append(replyList, [token |-> n, sync |-> sync])
                    ELSE replyList

Report ==
    /\ Free /\ tokenNum < MaxToken
    /\ Sent(FALSE, tokenNum + 1)
    /\ UNCHANGED <<setup, eventList, call, place, connected, down>>

(* IOT_Template_Report_Sync, GetStatus_sync, Report_SysInfo_Sync: the call *)
(* fails at once, or waits with an ack variable on its stack.              *)
SyncBegin ==
    /\ Free /\ tokenNum < MaxToken
    /\ Sent(TRUE, tokenNum + 1)
    /\ call' = IF HasRoom THEN [token |-> tokenNum + 1, ack |-> "none"] ELSE Null
    /\ UNCHANGED <<setup, eventList, place, connected, down>>

SyncReturn ==
    /\ at = "app" /\ Acked
    /\ call' = Null
    /\ UNCHANGED <<setup, lists, place, net, outcome>>

(* IOT_Post_Event: the list entry is made first, so it stays there when    *)
(* the event does not fit its buffer or cannot be published.               *)
PostEvent(callback, published) ==
    /\ Free /\ tokenNum < MaxToken
    /\ published => connected
    /\ Cardinality(eventList) < MaxEvents
    /\ eventList' = eventList \cup {[token |-> tokenNum + 1, callback |-> callback]}
    /\ tokenNum' = tokenNum + 1
    /\ up' = IF published THEN up \cup {[topic |-> "event", token |-> tokenNum + 1]} ELSE up
    /\ outcome' = [outcome EXCEPT ![tokenNum + 1] = "posted"]
    /\ UNCHANGED <<setup, replyList, call, place, connected, down>>

----------------------------------------------------------------------------
(* IOT_Template_Yield. *)

Yielding == call # Null \/ phase = "ready" \/ (phase \in Stages /\ syncStatus = "pending")

YieldBegin ==
    /\ at = "app" /\ Yielding
    /\ call # Null => call.ack = "none"
    /\ at' = "replies" /\ pos' = Len(replyList)
    /\ UNCHANGED <<setup, lists, call, net, outcome>>

(* The callback of node, with the given ack: the one of a synchronous call *)
(* writes to its stack, the application's may send a request of its own.   *)
(* The node is still in the list then.                                     *)
CalledBack(i, ack, retry) ==
    LET node    == replyList[i]
        n       == tokenNum + 1
        tracked == retry /\ HasRoom
        new     == IF tracked THEN <<[token |-> n, sync |-> FALSE]>> ELSE <<>>
    IN
    /\ call' = AckWritten(node, ack)
    /\ retry => connected /\ ~node.sync /\ n <= MaxToken
    /\ tokenNum' = IF retry THEN n ELSE tokenNum
    /\ outcome' = [t \in Tokens |->
                      CASE t = node.token   -> ack
                        [] retry /\ t = n   -> IF tracked THEN "waiting" ELSE "untracked"
                        [] OTHER            -> outcome[t]]
    /\ replyList' = LeftAfter(i) \o new

(* _handle_template_expired_reply_callback *)
ReplyExpired(retry) ==
    /\ at = "replies" /\ pos > 0
    /\ CalledBack(pos, "timeout", retry)
    /\ up' = IF retry THEN up \cup {[topic |-> "property", token |-> tokenNum + 1]} ELSE up
    /\ pos' = pos - 1
    /\ UNCHANGED <<setup, eventList, at, connected, down>>

ReplyNotExpired ==
    /\ at = "replies" /\ pos > 0
    /\ pos' = pos - 1
    /\ UNCHANGED <<setup, lists, call, at, net, outcome>>

(* handle_template_expired_event: expired events leave without a word. *)
EventsExpired(tokens) ==
    /\ at = "replies" /\ pos = 0
    /\ tokens \subseteq {e.token : e \in eventList}
    /\ eventList' = Without(tokens)
    /\ outcome' = [t \in Tokens |-> IF t \in tokens THEN "expired" ELSE outcome[t]]
    /\ at' = "mqtt"
    /\ UNCHANGED <<setup, replyList, tokenNum, call, pos, net>>

YieldEnd ==
    /\ at = "mqtt"
    /\ phase \in Stages => syncStatus = "pending"
    /\ at' = "app"
    /\ UNCHANGED <<setup, lists, call, pos, net, outcome>>

(* _on_template_downstream_topic_handler for a reply: without a readable   *)
(* code the request is forgotten without its callback.                     *)
HandleReply(m, retry) ==
    /\ at = "mqtt" /\ connected /\ m \in down /\ m.topic = "property"
    /\ down' = down \ {m}
    /\ retry => InReplies(m.token) /\ m.code # "unreadable"
    /\ up' = IF retry THEN up \cup {[topic |-> "property", token |-> tokenNum + 1]} ELSE up
    /\ \/ /\ ~InReplies(m.token)
          /\ UNCHANGED <<replyList, outcome, call, tokenNum>>
       \/ \E i \in DOMAIN replyList :
            /\ replyList[i].token = m.token
            /\ IF m.code = "unreadable"
               THEN /\ replyList' = RemoveAt(replyList, i)
                    /\ outcome' = [outcome EXCEPT ![m.token] = "dropped"]
                    /\ UNCHANGED <<call, tokenNum>>
               ELSE CalledBack(i, m.code, retry)
    /\ UNCHANGED <<setup, eventList, place, connected>>

(* _on_event_reply_callback: an entry without a callback stays. *)
HandleEventReply(m) ==
    /\ at = "mqtt" /\ connected /\ m \in down /\ m.topic = "event"
    /\ down' = down \ {m}
    /\ LET taken == {e \in eventList : e.token = m.token /\ e.callback /\ m.code # "unreadable"}
       IN /\ eventList' = eventList \ taken
          /\ outcome' = [t \in Tokens |-> IF \E e \in taken : e.token = t THEN "replied" ELSE outcome[t]]
    /\ UNCHANGED <<setup, replyList, tokenNum, call, place, connected, up>>

----------------------------------------------------------------------------
(* The end of the client, and the world. *)

(* IOT_Template_Destroy: the lists are freed, nobody is called back. *)
Destroy ==
    /\ Free
    /\ phase' = "destroyed"
    /\ replyList' = <<>> /\ eventList' = {}
    /\ up' = {} /\ down' = {}
    /\ outcome' = [t \in Tokens |-> IF InReplies(t) THEN "abandoned" ELSE outcome[t]]
    /\ UNCHANGED <<syncStatus, tokenNum, call, place, connected>>

(* A message that is never answered and an answer that is never delivered  *)
(* stand for lost ones.                                                    *)
CloudReplies(m, code) ==
    /\ m \in up
    /\ up' = up \ {m}
    /\ down' = down \cup {[topic |-> m.topic, token |-> m.token, code |-> code]}
    /\ UNCHANGED <<setup, lists, call, place, connected, outcome>>

(* qcloud_iot_mqtt_yield loses the connection, or makes it anew.           *)
ConnectionChanges ==
    /\ at = "mqtt"
    /\ connected' = ~connected
    /\ UNCHANGED <<setup, lists, call, place, up, down, outcome>>

Next ==
    \/ SubscribeTopic \/ SubscribeRefused \/ CheckSubscribe
    \/ \E e \in {"SUB_SUCCESS", "SUB_TIMEOUT", "SUB_NACK"} : SubscribeEvent(e)
    \/ Report \/ SyncBegin \/ SyncReturn
    \/ \E c, p \in BOOLEAN : PostEvent(c, p)
    \/ YieldBegin \/ ReplyNotExpired \/ YieldEnd
    \/ \E r \in BOOLEAN : ReplyExpired(r)
    \/ \E ts \in SUBSET Tokens : EventsExpired(ts)
    \/ \E m \in down : HandleEventReply(m) \/ \E r \in BOOLEAN : HandleReply(m, r)
    \/ Destroy
    \/ \E m \in up, c \in Codes : CloudReplies(m, c)
    \/ ConnectionChanges

(* The application goes on yielding and takes the result of a call, and    *)
(* timers run out.  How a subscription went is reported for certain only   *)
(* over a connection that stays: every pass over the MQTT client then      *)
(* looks for timeouts.  Nothing makes the connection stay.                 *)
ThreadStep ==
    \/ SubscribeTopic \/ SubscribeRefused \/ CheckSubscribe
    \/ SyncReturn \/ YieldBegin \/ ReplyNotExpired \/ EventsExpired({}) \/ YieldEnd

RunsOut(t) ==
    \/ \E r \in BOOLEAN : ReplyExpired(r) /\ replyList[pos].token = t
    \/ \E ts \in SUBSET Tokens : t \in ts /\ EventsExpired(ts)

Fairness ==
    /\ WF_vars(ThreadStep)
    /\ <>[]connected =>
         SF_vars(\E e \in {"SUB_SUCCESS", "SUB_TIMEOUT", "SUB_NACK"} : SubscribeEvent(e))
    /\ \A t \in Tokens : SF_vars(RunsOut(t))

Spec == Init /\ [][Next]_vars /\ Fairness

----------------------------------------------------------------------------
TypeOK ==
    /\ phase \in Stages \cup {"ready", "failed", "destroyed"}
    /\ syncStatus \in {"unset", "pending", "synced", "failed"}
    /\ tokenNum \in 0..MaxToken
    /\ replyList \in Seq(Request) /\ Len(replyList) <= MaxRequests
    /\ eventList \subseteq Event /\ Cardinality(eventList) <= MaxEvents
    /\ call \in [token : Tokens, ack : Acks] \cup {Null}
    /\ at \in {"app", "replies", "mqtt"} /\ pos \in 0..Len(replyList)
    /\ connected \in BOOLEAN
    /\ up \subseteq UpMessage /\ down \subseteq DownMessage
    /\ outcome \in [Tokens -> Outcomes]

(* The callback of a synchronous request writes through a pointer into the *)
(* stack frame of its call: no such request stays in the list after the    *)
(* call has returned, and none is called back twice.                       *)
NoDanglingContext ==
    \A i \in DOMAIN replyList :
        replyList[i].sync => call # Null /\ call.token = replyList[i].token /\ call.ack = "none"

(* The request list is what TemplateContract promises of its requests.     *)
Contract == INSTANCE TemplateContract WITH
    Requests   <- Tokens,
    MaxPending <- MaxRequests,
    status     <- [t \in Tokens |->
                      IF outcome[t] \in {"untracked", "posted", "replied", "expired"}
                      THEN "idle" ELSE outcome[t]]
ImplementsContract == Contract!Spec

(* A synchronous call returns, unless the reply to it could not be read:   *)
(* then its request is forgotten and the call yields for ever.             *)
SyncReturns ==
    call # Null ~> \/ call = Null
                   \/ outcome[call.token] = "dropped"

(* A request or an event that waits for a reply leaves its list in the     *)
(* end: lists that are full refuse new entries.                            *)
ListsDrain ==
    \A t \in Tokens : (InReplies(t) \/ InEvents(t)) ~> ~(InReplies(t) \/ InEvents(t))

(* IOT_Template_Construct returns once the connection stays up: the wait   *)
(* for each subscription ends. One that is lost for good, or comes only to *)
(* go again, leaves it waiting: _template_check_subscribe does not look at *)
(* what the yield returns.                                                 *)
ConstructReturns == <>[]connected => (phase \in Stages ~> phase \notin Stages)
=============================================================================
