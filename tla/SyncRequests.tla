----------------------------- MODULE SyncRequests -----------------------------
(***************************************************************************)
(* The synchronous requests of the smaller services over the MQTT client:  *)
(* unbinding the device (device_bind.c), the two music queries             *)
(* (kgmusic_client.c), the log level (log_mqtt.c) and the system time      *)
(* (system_mqtt.c).  Each subscribes its topic when it has to, resets the  *)
(* result of its service, publishes at QoS 0 and yields until the message  *)
(* callback has written the result or the wait is over.  There is one      *)
(* result for each service and no comparison of tokens, so what comes too  *)
(* late for one request is seen by the next one of the same service.       *)
(***************************************************************************)
EXTENDS Naturals

CONSTANTS
    MaxTries,  \* subscribes within one call (SUB_RETRY_TIMES), and bound: those that wait at once
    MaxCalls,  \* bound: calls of the application
    Requests,  \* the requests made, of those below
    Null

\* The result that a request waits for, and the topic its answer comes on. Unbinding and
\* music share the service topic and its table of callbacks.
ServiceOf == [unbind |-> "unbind", song |-> "music", songlist |-> "music",
              level |-> "level", time |-> "time"]
Services == {"unbind", "music", "level", "time"}
TopicOf == [unbind |-> "service", song |-> "service", songlist |-> "service",
            level |-> "log", time |-> "sys"]
Topics == {"service", "log", "sys"}

VARIABLES
    sqOk,       \* per topic: topic_sub_ok; for the service topic, that its handle is in the table
    sqAsked,    \* per topic: SUBSCRIBEs that wait for their SUBACK
    sqGranted,  \* per topic: the broker holds the subscription
    sqResult,   \* per service: sg_unbind_device_reply, e_reply_result, result_recv_ok
    sqCall,     \* the running call
    sqUp,       \* requests on their way to the cloud
    sqDown,     \* answers on their way back
    sqCalls,    \* history: calls so far; the number of a request
    sqGivenUp,  \* history: numbers of the requests that were given up
    sqTaken,    \* history: the answer that wrote each result, since its last reset
    sqLast      \* history: what the last finished call returned, and on which answer

sqVars == <<sqOk, sqAsked, sqGranted, sqResult, sqCall, sqUp, sqDown, sqCalls, sqGivenUp,
            sqTaken, sqLast>>

Init ==
    /\ sqOk = [t \in Topics |-> FALSE]
    /\ sqAsked = [t \in Topics |-> 0]
    /\ sqGranted = [t \in Topics |-> FALSE]
    /\ sqResult = [s \in Services |-> "waiting"]
    /\ sqCall = Null
    /\ sqUp = {} /\ sqDown = {}
    /\ sqCalls = 0
    /\ sqGivenUp = {}
    /\ sqTaken = [s \in Services |-> Null]
    /\ sqLast = Null

-----------------------------------------------------------------------------
\* A call: subscribe when needed, then ask.

\* The music queries leave the subscription to IOT_KGMUSIC_enable.
NeedsTopic(r) == r \notin {"song", "songlist"} /\ ~sqOk[TopicOf[r]]

Call(r) ==
    /\ sqCall = Null /\ sqCalls < MaxCalls
    /\ sqCalls' = sqCalls + 1
    /\ sqCall' = [req |-> r, n |-> sqCalls + 1, tries |-> 0,
                  phase |-> IF NeedsTopic(r) THEN "subscribe" ELSE "ask"]
    /\ UNCHANGED <<sqOk, sqAsked, sqGranted, sqResult, sqUp, sqDown, sqGivenUp, sqTaken, sqLast>>

\* IOT_KGMUSIC_enable and the cloud's right to unbind the device subscribe the service topic too.
Enable ==
    /\ sqCall = Null /\ ~sqOk["service"] /\ sqAsked["service"] < MaxTries
    /\ sqAsked' = [sqAsked EXCEPT !["service"] = @ + 1]
    /\ UNCHANGED <<sqOk, sqGranted, sqResult, sqCall, sqUp, sqDown, sqCalls, sqGivenUp,
                   sqTaken, sqLast>>

Failed == sqLast' = [req |-> sqCall.req, n |-> sqCall.n, ok |-> FALSE, by |-> Null]

\* One more SUBSCRIBE; the service topic is tried once, with more yields.
Subscribe ==
    LET t == TopicOf[sqCall.req]
    IN  /\ sqCall # Null /\ sqCall.phase = "subscribe" /\ ~sqOk[t]
        /\ sqCall.tries < IF t = "service" THEN 1 ELSE MaxTries
        /\ sqCall' = [sqCall EXCEPT !.tries = @ + 1]
        /\ \/ sqAsked[t] < MaxTries /\ sqAsked' = [sqAsked EXCEPT ![t] = @ + 1]
           \/ UNCHANGED sqAsked
        /\ UNCHANGED <<sqOk, sqGranted, sqResult, sqUp, sqDown, sqCalls, sqGivenUp, sqTaken,
                       sqLast>>

\* The topic is subscribed after a yield. For the service topic the last yield counts as a
\* timeout even if it brought the SUBACK.
Subscribed ==
    /\ sqCall # Null /\ sqCall.phase = "subscribe"
    /\ sqOk[TopicOf[sqCall.req]]
    /\ sqCall' = [sqCall EXCEPT !.phase = "ask"]
    /\ UNCHANGED <<sqOk, sqAsked, sqGranted, sqResult, sqUp, sqDown, sqCalls, sqGivenUp,
                   sqTaken, sqLast>>

SubscribeFails ==
    LET t == TopicOf[sqCall.req]
    IN  /\ sqCall # Null /\ sqCall.phase = "subscribe" /\ sqCall.tries > 0
        /\ t = "service" \/ (~sqOk[t] /\ sqCall.tries = MaxTries)
        /\ Failed
        /\ sqCall' = Null
        /\ UNCHANGED <<sqOk, sqAsked, sqGranted, sqResult, sqUp, sqDown, sqCalls, sqGivenUp,
                       sqTaken>>

\* The result is reset around the publish, before anything can be received.
Reset(s) ==
    /\ sqResult' = [sqResult EXCEPT ![s] = "waiting"]
    /\ sqTaken' = [sqTaken EXCEPT ![s] = Null]

Ask ==
    /\ sqCall # Null /\ sqCall.phase = "ask"
    /\ Reset(ServiceOf[sqCall.req])
    /\ \/ /\ sqCall' = [sqCall EXCEPT !.phase = "wait"]
          /\ sqUp' = sqUp \cup {[req |-> sqCall.req, n |-> sqCall.n]}
          /\ UNCHANGED sqLast
       \/ sqCall' = Null /\ Failed /\ UNCHANGED sqUp
    /\ UNCHANGED <<sqOk, sqAsked, sqGranted, sqDown, sqCalls, sqGivenUp>>

Waits == sqCall # Null /\ sqCall.phase = "wait"

Answered ==
    LET s == ServiceOf[sqCall.req]
    IN  /\ Waits /\ sqResult[s] # "waiting"
        /\ sqLast' = [req |-> sqCall.req, n |-> sqCall.n, ok |-> sqResult[s] = "ok", by |-> sqTaken[s]]
        /\ sqCall' = Null
        /\ UNCHANGED <<sqOk, sqAsked, sqGranted, sqResult, sqUp, sqDown, sqCalls, sqGivenUp, sqTaken>>

\* The time is up, the yields are counted out, or a yield failed.
GiveUp ==
    /\ Waits /\ sqResult[ServiceOf[sqCall.req]] = "waiting"
    /\ Failed
    /\ sqCall' = Null
    /\ sqGivenUp' = sqGivenUp \cup {sqCall.n}
    /\ UNCHANGED <<sqOk, sqAsked, sqGranted, sqResult, sqUp, sqDown, sqCalls, sqTaken>>

-----------------------------------------------------------------------------
\* The broker and the cloud, and the handlers that run in a yield.

\* A SUBACK, or the timeout or refusal of one SUBSCRIBE: the event handlers of the log and the
\* system topic clear topic_sub_ok then, even if another SUBSCRIBE was granted before.
SubAck(t) ==
    /\ sqAsked[t] > 0
    /\ sqAsked' = [sqAsked EXCEPT ![t] = @ - 1]
    /\ sqGranted' = [sqGranted EXCEPT ![t] = TRUE]
    /\ sqOk' = [sqOk EXCEPT ![t] = TRUE]
    /\ UNCHANGED <<sqResult, sqCall, sqUp, sqDown, sqCalls, sqGivenUp, sqTaken, sqLast>>

SubTimeout(t) ==
    /\ sqAsked[t] > 0
    /\ sqAsked' = [sqAsked EXCEPT ![t] = @ - 1]
    /\ sqOk' = IF t = "service" THEN sqOk ELSE [sqOk EXCEPT ![t] = FALSE]
    /\ UNCHANGED <<sqGranted, sqResult, sqCall, sqUp, sqDown, sqCalls, sqGivenUp, sqTaken, sqLast>>

\* QoS 0: a request or an answer may be lost, also for want of a subscription.
CloudTakes(q, answers, good) ==
    /\ answers => sqGranted[TopicOf[q.req]]
    /\ sqUp' = sqUp \ {q}
    /\ sqDown' = IF answers THEN sqDown \cup {[q |-> q, good |-> good]} ELSE sqDown
    /\ UNCHANGED <<sqOk, sqAsked, sqGranted, sqResult, sqCall, sqCalls, sqGivenUp, sqTaken, sqLast>>

\* Unbinding keeps waiting after an answer with an error, and so do the level and the time
\* after one without a value; a music query fails.
ResultOf(a) ==
    CASE a.good -> "ok"
      [] ~a.good /\ ServiceOf[a.q.req] = "music" -> "error"
      [] ~a.good /\ ServiceOf[a.q.req] = "unbind" -> sqResult["unbind"]
      [] OTHER -> "waiting"

HandleAnswer(a) ==
    LET s == ServiceOf[a.q.req]
    IN  /\ sqDown' = sqDown \ {a}
        /\ sqResult' = [sqResult EXCEPT ![s] = ResultOf(a)]
        /\ sqTaken' = IF a.good THEN [sqTaken EXCEPT ![s] = a] ELSE sqTaken
        /\ UNCHANGED <<sqOk, sqAsked, sqGranted, sqCall, sqUp, sqCalls, sqGivenUp, sqLast>>

InCall == Subscribe \/ Subscribed \/ SubscribeFails \/ Ask \/ Answered \/ GiveUp

Next ==
    \/ \E r \in Requests : Call(r)
    \/ Enable
    \/ InCall
    \/ \E t \in Topics : SubAck(t) \/ SubTimeout(t)
    \/ \E q \in sqUp, answers, good \in BOOLEAN : CloudTakes(q, answers, good)
    \/ \E a \in sqDown : HandleAnswer(a)

\* Every wait of a call is counted or timed.
Fairness == WF_sqVars(InCall)

Spec == Init /\ [][Next]_sqVars /\ Fairness
-----------------------------------------------------------------------------
Asked == [req : Requests, n : 1 .. MaxCalls]

\* The ranges of the variables.
TypeOK ==
    /\ sqOk \in [Topics -> BOOLEAN] /\ sqGranted \in [Topics -> BOOLEAN]
    /\ sqResult \in [Services -> {"waiting", "ok", "error"}]
    /\ sqCall = Null \/ /\ sqCall.req \in Requests
                        /\ sqCall.phase \in {"subscribe", "ask", "wait"}
                        /\ sqCall.tries \in 0 .. MaxTries
    /\ sqUp \subseteq Asked /\ sqDown \subseteq [q : Asked, good : BOOLEAN]

\* A call that returns success was answered, without an error, by an answer of its own
\* service, and to this very request unless an earlier one was given up: from then on an
\* answer may be that of an earlier request, and of the other music query.
SuccessIsAnswered ==
    (sqLast # Null /\ sqLast.ok) =>
        LET a == sqLast.by
        IN  /\ a # Null /\ a.good
            /\ ServiceOf[a.q.req] = ServiceOf[sqLast.req]
            /\ \/ a.q = [req |-> sqLast.req, n |-> sqLast.n]
               \/ \E g \in sqGivenUp : g <= a.q.n /\ a.q.n < sqLast.n

\* A topic that is taken for subscribed has been granted by the broker.
OkIsGranted == \A t \in Topics : sqOk[t] => sqGranted[t]
=============================================================================
