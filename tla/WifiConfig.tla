------------------------------- MODULE WifiConfig -------------------------------
(***************************************************************************)
(* Getting the device onto a network: the application (the wifi_config     *)
(* sample) tries one method after the other.  A method starts a task that  *)
(* polls for the outcome (HAL_Soft_ap.c, HAL_Smart_config.c) and a service *)
(* that takes commands of a phone by UDP (qcloud_wifi_config_comm_         *)
(* service.c).  The command with the token of the phone sets the outcome;  *)
(* once the network is joined the task of the method sends that token to   *)
(* the cloud (qcloud_wifi_config_device_bind.c) and then reports the       *)
(* result.  Everything goes through global variables.                      *)
(*                                                                         *)
(* A token is the number of the configuration in which the phone sent it.  *)
(***************************************************************************)
EXTENDS Naturals, Sequences

CONSTANTS
    Methods,    \* the methods the application tries, in their order
    MaxTries,   \* attempts to get the token to the cloud, retry_cnt and the first
    Null

Kinds == {"softap", "smart"}

VARIABLES
    wcTurn,     \* configurations started so far, the number of the running one
    wcApp,      \* the application: idle, waiting for a result, or done
    wcStarted,  \* sg_soft_ap_start, sg_smart_config_start
    wcOutcome,  \* sg_soft_ap_done, ap_connect_state
    wcTask,     \* the task of each method: none, polling or binding
    wcComm,     \* the task of the service: none, taking commands or reporting
    wcCommRun,  \* sg_comm_task_run
    wcSta,      \* the station: down, joining or connected (sg_wifi_sta_connected)
    wcToken,    \* sg_publish_token_info, Null until the first token
    wcBind,     \* the MQTT session of the binding, Null outside it
    wcUp,       \* publishes of a token on their way
    wcDown,     \* replies on their way
    wcCode,     \* sg_bind_reply_code: none, zero or another
    wcLogs,     \* tasks of the log service
    wcResults,  \* history: the results reported for each configuration
    wcAccepted  \* history: the tokens the cloud accepted

wcService == <<wcComm, wcCommRun>>
wcMethod == <<wcStarted, wcOutcome, wcTask>>
wcCloud == <<wcUp, wcDown, wcAccepted>>
wcVars == <<wcTurn, wcApp, wcMethod, wcService, wcSta, wcToken, wcBind, wcCloud,
            wcCode, wcLogs, wcResults>>

Init ==
    /\ wcTurn = 0
    /\ wcApp = "idle"
    /\ wcStarted = [k \in Kinds |-> FALSE]
    /\ wcOutcome = [k \in Kinds |-> "ing"]
    /\ wcTask = [k \in Kinds |-> "none"]
    /\ wcComm = "none" /\ wcCommRun = FALSE
    /\ wcSta = "down"
    /\ wcToken = Null
    /\ wcBind = Null
    /\ wcUp = {} /\ wcDown = {}
    /\ wcCode = Null
    /\ wcLogs = 0
    /\ wcResults = [n \in 1 .. Len(Methods) |-> <<>>]
    /\ wcAccepted = {}

Kind == Methods[wcTurn]

-----------------------------------------------------------------------------
\* The application.

\* What a started method sets before its task runs, with the number of this turn.
OutcomeAtStart(k) == [wcOutcome EXCEPT ![k] = "ing"]

Begins == wcApp = "idle" /\ wcTurn < Len(Methods) /\ wcTurn' = wcTurn + 1

\* qiot_wifi_config_start: the method, then the service. The application runs at a higher
\* priority than the tasks, which see only what it leaves.
StartConfig ==
    LET k == Methods[wcTurn + 1]
    IN  /\ Begins
        /\ wcApp' = "wait"
        /\ wcStarted' = [wcStarted EXCEPT ![k] = TRUE]
        /\ wcOutcome' = OutcomeAtStart(k)
        /\ wcTask' = [wcTask EXCEPT ![k] = "poll"]
        /\ wcComm' = "serve" /\ wcCommRun' = TRUE
        /\ wcSta' = "down"
        /\ UNCHANGED <<wcToken, wcBind, wcCloud, wcCode, wcLogs, wcResults>>

\* The service cannot start: the method is stopped, and its task finds that it is.
StopMethod(k) ==
    /\ wcStarted' = [wcStarted EXCEPT ![k] = FALSE]
    /\ wcOutcome' = [wcOutcome EXCEPT ![k] = IF k = "softap" THEN "fail" ELSE "ing"]

StartFails ==
    LET k == Methods[wcTurn + 1]
    IN  /\ Begins
        /\ StopMethod(k)
        /\ wcTask' = [wcTask EXCEPT ![k] = "poll"]
        /\ wcCommRun' = FALSE
        /\ wcSta' = "down"
        /\ UNCHANGED <<wcApp, wcComm, wcToken, wcBind, wcCloud, wcCode, wcLogs, wcResults>>

\* The wait of 500 seconds is over without success, long after the 300 of the tasks: the
\* service is stopped and the next method is tried. After a success the wait is over at once.
GoOn ==
    /\ wcApp = "wait"
    /\ LET won == wcResults[wcTurn] = <<"success">>
       IN  /\ won \/ (wcTask[Kind] = "none" /\ wcComm = "none")
           /\ wcApp' = IF won THEN "done" ELSE "idle"
    /\ wcCommRun' = FALSE
    /\ UNCHANGED <<wcTurn, wcMethod, wcComm, wcSta, wcToken, wcBind, wcCloud, wcCode,
                   wcLogs, wcResults>>

\* The result callback stops the service. When it is no success the device becomes an
\* access point again, for the phone to fetch the log.
Result(r) ==
    /\ wcResults' = [wcResults EXCEPT ![wcTurn] = Append(@, r)]
    /\ wcCommRun' = FALSE
    /\ IF r = "success" THEN UNCHANGED <<wcSta, wcLogs>>
       ELSE wcSta' = "down" /\ wcLogs' = wcLogs + 1

\* Asked for the log, or six minutes are over.
LogTaskEnds ==
    /\ wcLogs > 0
    /\ wcLogs' = wcLogs - 1
    /\ UNCHANGED <<wcTurn, wcApp, wcMethod, wcService, wcSta, wcToken, wcBind, wcCloud,
                   wcCode, wcResults>>

-----------------------------------------------------------------------------
\* The task of a method.

\* The smart-config task stops its own method at its end, the soft-AP task does not.
TaskEnds(k) ==
    /\ wcTask' = [wcTask EXCEPT ![k] = "none"]
    /\ IF k = "smart" THEN StopMethod(k) ELSE UNCHANGED <<wcStarted, wcOutcome>>

Polls(k) == wcTask[k] = "poll" /\ wcStarted[k]

PollFails(k) ==
    /\ Polls(k) /\ wcOutcome[k] = "fail"
    /\ TaskEnds(k)
    /\ Result("failed")
    /\ UNCHANGED <<wcTurn, wcApp, wcComm, wcToken, wcBind, wcCloud, wcCode>>

PollTimesOut(k) ==
    /\ Polls(k) /\ wcOutcome[k] # "fail"
    /\ TaskEnds(k)
    /\ Result("timeout")
    /\ UNCHANGED <<wcTurn, wcApp, wcComm, wcToken, wcBind, wcCloud, wcCode>>

PollStopped(k) ==
    /\ wcTask[k] = "poll" /\ ~wcStarted[k]
    /\ TaskEnds(k)
    /\ UNCHANGED <<wcTurn, wcApp, wcService, wcSta, wcToken, wcBind, wcCloud, wcCode,
                   wcLogs, wcResults>>

\* The outcome is there and the station is connected: the MQTT session is set up.
BindBegins(k) ==
    /\ Polls(k) /\ wcOutcome[k] = "success" /\ wcSta = "up"
    /\ wcTask' = [wcTask EXCEPT ![k] = "bind"]
    /\ wcCode' = "other"
    /\ wcBind' = [sub |-> FALSE, ready |-> FALSE, tries |-> 0, sent |-> FALSE]
    /\ UNCHANGED <<wcTurn, wcApp, wcStarted, wcOutcome, wcService, wcSta, wcToken, wcCloud,
                   wcLogs, wcResults>>

\* No device info or no connection: the binding fails before a session exists.
BindImpossible(k) ==
    /\ Polls(k) /\ wcOutcome[k] = "success" /\ wcSta = "up"
    /\ wcCode' \in {wcCode, "other"}
    /\ TaskEnds(k)
    /\ Result("failed")
    /\ UNCHANGED <<wcTurn, wcApp, wcComm, wcToken, wcBind, wcCloud>>

\* An attempt: publish, with its own retries, and wait for the PUBACK without looking
\* at how that ended.
PublishToken ==
    /\ wcBind # Null /\ ~wcBind.sent /\ wcBind.tries < MaxTries
    /\ wcToken # Null
    /\ \/ wcUp' = wcUp \cup {wcToken} /\ wcBind' = [wcBind EXCEPT !.sent = TRUE]
       \/ UNCHANGED wcUp /\ wcBind' = [wcBind EXCEPT !.tries = @ + 1]
    /\ UNCHANGED <<wcTurn, wcApp, wcMethod, wcService, wcSta, wcToken, wcDown, wcAccepted,
                   wcCode, wcLogs, wcResults>>

\* Ten yields without a reply: the next attempt, when there is one.
ReplyTimesOut ==
    /\ wcBind # Null /\ wcBind.sent /\ ~wcBind.ready
    /\ wcBind' = [wcBind EXCEPT !.sent = FALSE, !.tries = @ + 1]
    /\ UNCHANGED <<wcTurn, wcApp, wcMethod, wcService, wcSta, wcToken, wcCloud, wcCode,
                   wcLogs, wcResults>>

\* A reply came and its code is zero.
BindSucceeds == wcBind.sent /\ wcBind.ready /\ wcCode = "zero"

\* An attempt had a reply, or none is left; after one more yield the session is destroyed.
BindEnds(k) ==
    /\ wcTask[k] = "bind"
    /\ (wcBind.sent /\ wcBind.ready) \/ wcBind.tries = MaxTries
    /\ wcBind' = Null
    /\ wcUp' = {} /\ wcDown' = {}
    /\ TaskEnds(k)
    /\ Result(IF BindSucceeds THEN "success" ELSE "failed")
    /\ UNCHANGED <<wcTurn, wcApp, wcComm, wcToken, wcCode, wcAccepted>>

-----------------------------------------------------------------------------
\* The cloud and the callbacks in the yields of the binding.

SubAck ==
    /\ wcBind # Null /\ ~wcBind.sub
    /\ wcBind' = [wcBind EXCEPT !.sub = TRUE]
    /\ UNCHANGED <<wcTurn, wcApp, wcMethod, wcService, wcSta, wcToken, wcCloud, wcCode,
                   wcLogs, wcResults>>

CloudReplies(token, code) ==
    /\ wcUp' = wcUp \ {token}
    /\ wcDown' = wcDown \cup {code}
    /\ wcAccepted' = IF code = "zero" THEN wcAccepted \cup {token} ELSE wcAccepted
    /\ UNCHANGED <<wcTurn, wcApp, wcMethod, wcService, wcSta, wcToken, wcBind, wcCode,
                   wcLogs, wcResults>>

\* Delivered only to a subscription that was granted; otherwise, or underway, it is lost.
HandleReply(code) ==
    /\ wcDown' = wcDown \ {code}
    /\ \/ /\ wcBind.sub
          /\ wcCode' = code
          /\ wcBind' = [wcBind EXCEPT !.ready = TRUE]
       \/ UNCHANGED <<wcCode, wcBind>>
    /\ UNCHANGED <<wcTurn, wcApp, wcMethod, wcService, wcSta, wcToken, wcUp, wcAccepted,
                   wcLogs, wcResults>>

-----------------------------------------------------------------------------
\* The station and the service, with what the phone does.

Joins ==
    /\ wcSta = "joining"
    /\ wcSta' = "up"
    /\ UNCHANGED <<wcTurn, wcApp, wcMethod, wcService, wcToken, wcBind, wcCloud, wcCode,
                   wcLogs, wcResults>>

Leaves ==
    /\ wcSta # "down"
    /\ wcSta' = "down"
    /\ UNCHANGED <<wcTurn, wcApp, wcMethod, wcService, wcToken, wcBind, wcCloud, wcCode,
                   wcLogs, wcResults>>

\* Smart config: the phone sends the network over the air.
PhoneSendsNetwork ==
    /\ wcStarted["smart"] /\ wcSta = "down"
    /\ wcSta' = "joining"
    /\ UNCHANGED <<wcTurn, wcApp, wcMethod, wcService, wcToken, wcBind, wcCloud, wcCode,
                   wcLogs, wcResults>>

\* A command that is read after the flag was cleared is handled all the same.
\* CMD_TOKEN_ONLY: the phone may be out of reach of the reply.
CommandToken(replied) ==
    /\ wcComm = "serve"
    /\ wcToken' = wcTurn
    /\ wcOutcome' = [wcOutcome EXCEPT !["smart"] = IF replied THEN "success" ELSE "fail"]
    /\ wcComm' = IF replied THEN "report" ELSE "serve"
    /\ UNCHANGED <<wcTurn, wcApp, wcStarted, wcTask, wcCommRun, wcSta, wcBind, wcCloud, wcCode,
                   wcLogs, wcResults>>

\* CMD_SSID_PW_TOKEN: the station starts to join, or cannot.
CommandNetwork(joins) ==
    /\ wcComm = "serve"
    /\ wcToken' = wcTurn
    /\ wcOutcome' = [wcOutcome EXCEPT !["softap"] = IF joins THEN "success" ELSE "fail"]
    /\ wcSta' = IF joins THEN "joining" ELSE "down"
    /\ wcComm' = IF joins THEN "report" ELSE "serve"
    /\ UNCHANGED <<wcTurn, wcApp, wcStarted, wcTask, wcCommRun, wcBind, wcCloud, wcCode,
                   wcLogs, wcResults>>

\* CMD_LOG_QUERY, or too many errors of the socket.
ServingEnds ==
    /\ wcComm = "serve"
    /\ wcComm' = "report"
    /\ UNCHANGED <<wcTurn, wcApp, wcMethod, wcCommRun, wcSta, wcToken, wcBind, wcCloud, wcCode,
                   wcLogs, wcResults>>

\* Stopped, or five minutes are over.
CommEnds ==
    /\ wcComm # "none"
    /\ wcComm' = "none" /\ wcCommRun' = FALSE
    /\ UNCHANGED <<wcTurn, wcApp, wcMethod, wcSta, wcToken, wcBind, wcCloud, wcCode,
                   wcLogs, wcResults>>

\* A round of the task of a method, soft_ap_task or smart_config_task.
TaskStep(k) ==
    \/ PollFails(k) \/ PollTimesOut(k) \/ PollStopped(k)
    \/ BindBegins(k) \/ BindImpossible(k) \/ BindEnds(k)

Next ==
    \/ StartConfig \/ StartFails \/ GoOn \/ LogTaskEnds
    \/ \E k \in Kinds : TaskStep(k)
    \/ PublishToken \/ ReplyTimesOut \/ SubAck
    \/ \E token \in wcUp, code \in {"zero", "other"} : CloudReplies(token, code)
    \/ \E code \in wcDown : HandleReply(code)
    \/ Joins \/ Leaves \/ PhoneSendsNetwork
    \/ \E replied \in BOOLEAN : CommandToken(replied)
    \/ \E joins \in BOOLEAN : CommandNetwork(joins)
    \/ ServingEnds \/ CommEnds

\* Both tasks and the binding count their rounds, and the application watches its timer.
Fairness ==
    /\ \A k \in Kinds : WF_wcVars(TaskStep(k))
    /\ WF_wcVars(PublishToken \/ ReplyTimesOut)
    /\ WF_wcVars(CommEnds) /\ WF_wcVars(GoOn)

Spec == Init /\ [][Next]_wcVars /\ Fairness
-----------------------------------------------------------------------------
\* The ranges of the variables.
TypeOK ==
    /\ wcTurn \in 0 .. Len(Methods)
    /\ wcApp \in {"idle", "wait", "done"}
    /\ wcOutcome \in [Kinds -> {"ing", "fail", "success"}]
    /\ wcTask \in [Kinds -> {"none", "poll", "bind"}]
    /\ wcComm \in {"none", "serve", "report"} /\ wcSta \in {"down", "joining", "up"}
    /\ wcToken \in {Null} \cup 1 .. Len(Methods)
    /\ wcCode \in {Null, "zero", "other"} /\ wcLogs \in 0 .. Len(Methods)

\* The token that is sent to the cloud came from the phone in this configuration: one that
\* an earlier method was given and could not use is not sent again.
TokenIsFresh == wcBind # Null => wcToken = wcTurn

\* A configuration reports success only when the cloud has accepted its own token.
SuccessIsBound ==
    \A n \in 1 .. Len(Methods) : (wcResults[n] = <<"success">>) => n \in wcAccepted

\* A configuration reports one result at most, and none before its wait or after it.
OneResult ==
    /\ \A n \in 1 .. Len(Methods) : Len(wcResults[n]) <= 1
    /\ \A n \in 1 .. Len(Methods) : n > wcTurn => wcResults[n] = <<>>
=============================================================================
