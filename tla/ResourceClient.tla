---------------------------- MODULE ResourceClient ----------------------------
(***************************************************************************)
(* The resource client of resource_client.c: one download and one upload   *)
(* that the cloud starts by a message with name, size, checksum and URL,   *)
(* that the application drives by calls, and that end with a report, after *)
(* which the whole record of the transfer is cleared.  An upload report    *)
(* yields on the MQTT client until its answer has come, so the message     *)
(* callback runs in the middle of it.  Progress and result reports have    *)
(* the same type, and so have their answers, which share one result code   *)
(* per direction: an answer does not say which report it is for.           *)
(*                                                                         *)
(* A unit of a resource is the pair of its task and its offset.  The       *)
(* progress reports of one task that are under way together count as one.  *)
(***************************************************************************)
EXTENDS Naturals, Sequences

CONSTANTS
    Size,       \* units of every resource
    MaxTasks,   \* bound: tasks the cloud starts
    MaxFaults,  \* bound: connects, fetches, sends and publishes that fail
    Null

Kinds == {"down", "up"}

VARIABLES
    rsState,    \* per direction: inited, start, end or disconnected
    rsInfo,     \* per direction: the task whose name, size and checksum, and whose URL it holds
    rsResult,   \* per direction: result_code: ok (0), waiting (-1) or error
    rsChannel,  \* the HTTP handle: per direction Null, or whether it is connected
    rsSent,     \* size_prepared of the upload
    rsDigest,   \* what the checksum of the download covers, Null after it was cleared
    rsFile,     \* what the application has stored, with its task
    rsReport,   \* the upload report that is waiting, and what follows it
    rsUp,       \* reports on their way to the cloud
    rsDown,     \* messages on their way back
    rsTasks,    \* history: tasks started so far; the number of a task
    rsFaults,   \* history: faults so far
    rsTaken,    \* history: the last answer that came while this upload report waits
    rsLast      \* history: the last upload report that returned, where it returned success

rsTransfer == <<rsState, rsInfo, rsResult, rsChannel, rsSent, rsDigest, rsFile>>
rsHistory == <<rsTasks, rsFaults, rsTaken, rsLast>>
rsVars == <<rsTransfer, rsReport, rsUp, rsDown, rsHistory>>

Init ==
    /\ rsState = [k \in Kinds |-> "inited"]
    /\ rsInfo = [k \in Kinds |-> [name |-> Null, url |-> Null]]
    /\ rsResult = [k \in Kinds |-> "ok"]
    /\ rsChannel = [k \in Kinds |-> Null]
    /\ rsSent = 0
    /\ rsDigest = <<>>
    /\ rsFile = [task |-> Null, units |-> <<>>]
    /\ rsReport = Null
    /\ rsUp = {} /\ rsDown = {}
    /\ rsTasks = 0 /\ rsFaults = 0
    /\ rsTaken = Null /\ rsLast = Null

Units(task) == [i \in 1 .. Size |-> <<task, i - 1>>]

Fault == rsFaults < MaxFaults /\ rsFaults' = rsFaults + 1

\* The application runs in one task: no call of its own while a report waits.
Idle == rsReport = Null

-----------------------------------------------------------------------------
\* The cloud, and the message callback, in any yield.

CloudStarts(k, whole) ==
    /\ rsTasks < MaxTasks
    /\ rsTasks' = rsTasks + 1
    /\ rsDown' = rsDown \cup {[type |-> "task", kind |-> k, task |-> rsTasks + 1, whole |-> whole]}
    /\ UNCHANGED <<rsTransfer, rsReport, rsUp, rsFaults, rsTaken, rsLast>>

CloudAnswers(r, code) ==
    /\ rsUp' = rsUp \ {r}
    /\ rsDown' = rsDown \cup {[type |-> "answer", kind |-> r.kind, to |-> r, code |-> code]}
    /\ UNCHANGED <<rsTransfer, rsReport, rsHistory>>

\* Mutant: a task starts also while another one runs.
StartsTwice(m) == m.whole

\* Only a message with all its fields starts a transfer, and only when none is started.
Starts(m) == m.whole /\ rsState[m.kind] = "inited"

\* The fields are stored one after the other, the URL last; one that is missing ends it.
HandleTask(m) ==
    /\ m \in rsDown /\ m.type = "task"
    /\ rsDown' = rsDown \ {m}
    /\ IF Starts(m)
         THEN /\ rsState' = [rsState EXCEPT ![m.kind] = "start"]
              /\ rsInfo' = [rsInfo EXCEPT ![m.kind] = [name |-> m.task, url |-> m.task]]
         ELSE /\ UNCHANGED rsState
              /\ rsInfo' = IF rsState[m.kind] = "inited" THEN [rsInfo EXCEPT ![m.kind].name = m.task]
                           ELSE rsInfo
    /\ UNCHANGED <<rsResult, rsChannel, rsSent, rsDigest, rsFile, rsReport, rsUp, rsHistory>>

\* The answer to a progress or a result report, whichever it is (upload_result, another
\* form of it, writes the same code).
HandleAnswer(m) ==
    /\ m \in rsDown /\ m.type = "answer"
    /\ rsDown' = rsDown \ {m}
    /\ rsResult' = [rsResult EXCEPT ![m.kind] = m.code]
    /\ rsTaken' = IF m.kind = "up" /\ ~Idle THEN m ELSE rsTaken
    /\ UNCHANGED <<rsState, rsInfo, rsChannel, rsSent, rsDigest, rsFile, rsReport, rsUp,
                   rsTasks, rsFaults, rsLast>>

-----------------------------------------------------------------------------
\* Reports.

\* _qcloud_iot_resource_info_reset clears the record without closing the HTTP handle and
\* without setting the checksum up again.
ResetDownload ==
    /\ rsState' = [rsState EXCEPT !["down"] = "inited"]
    /\ rsInfo' = [rsInfo EXCEPT !["down"] = [name |-> Null, url |-> Null]]
    /\ rsResult' = [rsResult EXCEPT !["down"] = "ok"]
    /\ rsChannel' = [rsChannel EXCEPT !["down"] = Null]
    /\ rsDigest' = Null

Reports == [kind : Kinds, task : Nat \cup {Null}, what : {"progress", "result"}]

Report(k, what) == [kind |-> k, task |-> rsInfo[k].name, what |-> what]

Published(k, what) == rsUp' = rsUp \cup {Report(k, what)}

ReportDownload ==
    /\ ResetDownload
    /\ \/ Published("down", "result") /\ UNCHANGED rsFaults
       \/ Fault /\ UNCHANGED rsUp

\* The application reports its verdict on the download, or gives it up.
ReportDownloadResult ==
    /\ Idle /\ rsState["down"] # "inited"
    /\ ReportDownload
    /\ UNCHANGED <<rsSent, rsFile, rsReport, rsDown, rsTasks, rsTaken, rsLast>>

\* result_code = -1 before the report of an upload is published.
ResultCleared == rsResult' = [rsResult EXCEPT !["up"] = "waiting"]

\* Another report of an upload has not been answered, or its answer is under way.
OthersUnderWay ==
    \/ \E r \in rsUp : r.kind = "up"
    \/ \E m \in rsDown : m.type = "answer" /\ m.kind = "up"

\* receive: the call goes on to read the answer of the HTTP server.
BeginReport(receive) ==
    /\ ResultCleared
    /\ rsReport' = [task |-> rsInfo["up"].name, receive |-> receive, shared |-> OthersUnderWay]
    /\ Published("up", "result")

ReportUploadResult ==
    /\ Idle /\ rsState["up"] # "inited" /\ rsInfo["up"].name # Null
    /\ BeginReport(FALSE)
    /\ UNCHANGED <<rsState, rsInfo, rsChannel, rsSent, rsDigest, rsFile, rsDown, rsTasks,
                   rsFaults, rsTaken, rsLast>>

\* Without a name the report fails and only clears the record.
ReportWithoutName ==
    /\ Idle /\ rsState["up"] # "inited" /\ rsInfo["up"].name = Null
    /\ rsState' = [rsState EXCEPT !["up"] = "inited"]
    /\ rsResult' = [rsResult EXCEPT !["up"] = "ok"]
    /\ rsSent' = 0
    /\ UNCHANGED <<rsInfo, rsChannel, rsDigest, rsFile, rsReport, rsUp, rsDown, rsHistory>>

\* The report of an upload returns success.
Succeeds == rsResult["up"] = "ok"

\* The result code was written, or five seconds are over, a yield or the publish failed. The
\* record is cleared; a read on the handle that is gone then ends the cleared transfer again.
ReportReturns ==
    /\ rsReport # Null
    /\ rsLast' = IF Succeeds THEN [task |-> rsReport.task, shared |-> rsReport.shared, by |-> rsTaken]
                 ELSE Null
    /\ rsState' = [rsState EXCEPT !["up"] = IF rsReport.receive THEN "end" ELSE "inited"]
    /\ rsInfo' = [rsInfo EXCEPT !["up"] = [name |-> Null, url |-> Null]]
    /\ rsResult' = [rsResult EXCEPT !["up"] = "ok"]
    /\ rsChannel' = [rsChannel EXCEPT !["up"] = Null]
    /\ rsSent' = 0
    /\ rsReport' = Null /\ rsTaken' = Null
    /\ UNCHANGED <<rsDigest, rsFile, rsUp, rsDown, rsTasks, rsFaults>>

-----------------------------------------------------------------------------
\* The download. An application that resumes what it stored of this task sets the checksum up
\* again from the stored part unless the transfer went on without a break.

\* StartDownload sets the checksum up for a download from the beginning.
DigestAtStart(offset) == IF offset = 0 THEN <<>> ELSE rsDigest

IsStarted(k) == Idle /\ rsState[k] = "start"

StartDownload(resume) ==
    LET same == rsFile.task = rsInfo["down"].url
        offset == IF resume THEN Len(rsFile.units) ELSE 0
    IN  /\ IsStarted("down") /\ rsChannel["down"] # "open"
        /\ resume => same /\ rsFile.units # <<>>
        /\ rsResult' = [rsResult EXCEPT !["down"] = "ok"]
        /\ rsDigest' = IF resume /\ rsChannel["down"] = Null THEN rsFile.units ELSE DigestAtStart(offset)
        /\ rsFile' = IF resume THEN rsFile ELSE [task |-> rsInfo["down"].url, units |-> <<>>]
        /\ \/ rsChannel' = [rsChannel EXCEPT !["down"] = "open"] /\ UNCHANGED rsFaults
           \/ Fault /\ rsChannel' = [rsChannel EXCEPT !["down"] = "closed"]
        /\ UNCHANGED <<rsState, rsInfo, rsSent, rsReport, rsUp, rsDown, rsTasks, rsTaken, rsLast>>

\* One fetch that brings the next units, the last one when that is all.
DownloadYield(progress) ==
    LET n == Len(rsFile.units)
        unit == <<rsInfo["down"].url, n>>
    IN  /\ IsStarted("down") /\ rsResult["down"] = "ok" /\ rsChannel["down"] = "open"
        /\ n < Size
        /\ rsFile' = [rsFile EXCEPT !.units = Append(@, unit)]
        /\ rsDigest' = IF rsDigest = Null THEN Null ELSE Append(rsDigest, unit)
        /\ rsState' = IF n + 1 = Size THEN [rsState EXCEPT !["down"] = "end"] ELSE rsState
        /\ n = 0 \/ n + 1 = Size => progress
        /\ IF progress THEN Published("down", "progress") ELSE UNCHANGED rsUp
        /\ UNCHANGED <<rsInfo, rsResult, rsChannel, rsSent, rsReport, rsDown, rsHistory>>

\* A fetch that fails; when the server refuses or does not know the URL, that is reported.
DownloadFails ==
    /\ IsStarted("down") /\ rsResult["down"] = "ok" /\ rsChannel["down"] = "open"
    /\ Fault
    /\ rsChannel' = [rsChannel EXCEPT !["down"] = "closed"]
    /\ UNCHANGED <<rsState, rsInfo, rsResult, rsSent, rsDigest, rsFile, rsReport, rsUp, rsDown,
                   rsTasks, rsTaken, rsLast>>

DownloadRefused ==
    /\ IsStarted("down") /\ rsResult["down"] = "ok" /\ rsChannel["down"] # Null
    /\ ReportDownload
    /\ UNCHANGED <<rsSent, rsFile, rsReport, rsDown, rsTasks, rsTaken, rsLast>>

\* An error in the answer to a progress report stops the transfer until the application asks
\* again whether it is started.
IsStart(k) ==
    /\ IsStarted(k) /\ rsResult[k] = "error"
    /\ rsResult' = [rsResult EXCEPT ![k] = "ok"]
    /\ UNCHANGED <<rsState, rsInfo, rsChannel, rsSent, rsDigest, rsFile, rsReport, rsUp, rsDown,
                   rsHistory>>

\* The checksum does not match: that is reported and the download forgotten.
Md5CheckFails ==
    /\ Idle /\ rsState["down"] = "end" /\ rsDigest # Units(rsInfo["down"].name)
    /\ ReportDownload
    /\ UNCHANGED <<rsSent, rsFile, rsReport, rsDown, rsTasks, rsTaken, rsLast>>

-----------------------------------------------------------------------------
\* The upload.

StartUpload ==
    /\ IsStarted("up") /\ rsChannel["up"] # "open"
    /\ rsResult' = [rsResult EXCEPT !["up"] = "ok"]
    /\ rsSent' = 0
    /\ \/ rsChannel' = [rsChannel EXCEPT !["up"] = "open"] /\ UNCHANGED <<rsState, rsFaults>>
       \/ /\ Fault
          /\ rsChannel' = [rsChannel EXCEPT !["up"] = "closed"]
          /\ rsState' = [rsState EXCEPT !["up"] = "disconnected"]
    /\ UNCHANGED <<rsInfo, rsDigest, rsFile, rsReport, rsUp, rsDown, rsTasks, rsTaken, rsLast>>

Sending == IsStarted("up") /\ rsResult["up"] = "ok" /\ rsChannel["up"] = "open"

\* A part goes out. After the last one the answer of the server is read, which ends the
\* upload, or fails it with a report for what the server says.
UploadYield(progress) ==
    LET last == rsSent + 1 = Size
    IN  /\ Sending
        /\ rsSent' = rsSent + 1
        /\ rsState' = IF last THEN [rsState EXCEPT !["up"] = "end"] ELSE rsState
        /\ rsSent = 0 \/ last => progress
        /\ IF progress THEN Published("up", "progress") ELSE UNCHANGED rsUp
        /\ UNCHANGED <<rsInfo, rsResult, rsChannel, rsDigest, rsFile, rsReport, rsDown, rsHistory>>

\* The answer cannot be read or is an error: refused, unknown and too late are reported.
ReceiveFails ==
    /\ Sending /\ rsSent + 1 = Size
    /\ Fault
    /\ rsSent' = Size
    /\ rsState' = [rsState EXCEPT !["up"] = "end"]
    /\ BeginReport(FALSE)
    /\ UNCHANGED <<rsInfo, rsChannel, rsDigest, rsFile, rsDown, rsTasks, rsTaken, rsLast>>

\* The part cannot be sent: the upload ends, with a report when the connection is gone.
SendFails(closed) ==
    /\ Sending
    /\ Fault
    /\ rsState' = [rsState EXCEPT !["up"] = "end"]
    /\ IF closed THEN BeginReport(TRUE) ELSE UNCHANGED <<rsResult, rsReport, rsUp>>
    /\ UNCHANGED <<rsInfo, rsChannel, rsSent, rsDigest, rsFile, rsDown, rsTasks, rsTaken, rsLast>>

-----------------------------------------------------------------------------
\* The device starts anew: a new handle, while the stored file stays.
Restart ==
    /\ Idle /\ rsFaults < MaxFaults
    /\ rsFaults' = rsFaults + 1
    /\ rsState' = [k \in Kinds |-> "inited"]
    /\ rsInfo' = [k \in Kinds |-> [name |-> Null, url |-> Null]]
    /\ rsResult' = [k \in Kinds |-> "ok"]
    /\ rsChannel' = [k \in Kinds |-> Null]
    /\ rsSent' = 0
    /\ rsDigest' = <<>>
    /\ UNCHANGED <<rsFile, rsReport, rsUp, rsDown, rsTasks, rsTaken, rsLast>>

Next ==
    \/ \E k \in Kinds, whole \in BOOLEAN : CloudStarts(k, whole)
    \/ \E r \in rsUp, code \in {"ok", "error"} : CloudAnswers(r, code)
    \/ \E m \in rsDown : HandleTask(m) \/ HandleAnswer(m)
    \/ ReportDownloadResult \/ ReportUploadResult \/ ReportWithoutName \/ ReportReturns
    \/ \E resume \in BOOLEAN : StartDownload(resume)
    \/ \E progress \in BOOLEAN : DownloadYield(progress) \/ UploadYield(progress)
    \/ DownloadFails \/ DownloadRefused \/ Md5CheckFails
    \/ \E k \in Kinds : IsStart(k)
    \/ StartUpload \/ ReceiveFails
    \/ \E closed \in BOOLEAN : SendFails(closed)
    \/ Restart

\* The wait of an upload report is timed.
Fairness == WF_rsVars(ReportReturns)

Spec == Init /\ [][Next]_rsVars /\ Fairness
-----------------------------------------------------------------------------
\* The ranges of the variables (QCLOUD_RESOURCE_INFO_T).
TypeOK ==
    /\ rsState \in [Kinds -> {"inited", "start", "end", "disconnected"}]
    /\ rsResult \in [Kinds -> {"ok", "waiting", "error"}]
    /\ rsChannel \in [Kinds -> {Null, "open", "closed"}]
    /\ rsSent \in 0 .. Size /\ Len(rsFile.units) <= Size

\* A transfer that was started belongs to one task: the URL that is fetched goes with the
\* name and the checksum it is reported and checked with.
OneTask ==
    \A k \in Kinds : rsState[k] = "start" =>
        rsInfo[k].name # Null /\ rsInfo[k].url = rsInfo[k].name

\* A task is not replaced while it runs: only the report of its end, or a restart, clears it.
TaskStays ==
    [][\A k \in Kinds : rsState[k] = "start" =>
         rsInfo'[k] = rsInfo[k] \/ rsInfo'[k].name = Null]_rsVars

\* When a download is complete, its checksum covers just what the application stored, and
\* that is the whole resource of this task: resuming neither skips nor repeats a part, and
\* no intact download is refused.
ChecksumOfFile ==
    rsState["down"] = "end" =>
        /\ rsDigest = rsFile.units
        /\ rsFile.units = Units(rsInfo["down"].name)

\* A report of an upload that returns success has had an answer with success while it waited:
\* its own, unless another report of an upload, most often of the progress of this one, had
\* not been answered when it began.  Then it may be the answer to that one, and what the
\* cloud says of the result is never seen.
SuccessIsAnswered ==
    rsLast # Null =>
        /\ rsLast.by # Null /\ rsLast.by.code = "ok"
        /\ \/ rsLast.shared
           \/ rsLast.by.to = [kind |-> "up", task |-> rsLast.task, what |-> "result"]
=============================================================================
