----------------------------- MODULE OtaUpdate ------------------------------
(***************************************************************************)
(* Firmware update: the OTA client (ota_client.c) with its MQTT channel,   *)
(* and the FreeRTOS task that downloads a firmware into flash, checks its  *)
(* MD5 and makes it the one to boot (qcloud_iot_ota_esp.c).                *)
(*                                                                         *)
(* The task interleaves with the main task, whose yields deliver the       *)
(* messages of the cloud and which enables and disables updates. A         *)
(* firmware is a sequence of segments, each fetched by one request.        *)
(***************************************************************************)
EXTENDS Naturals, Sequences, SequencesExt

CONSTANTS
    Versions,     \* firmwares the cloud may offer
    Segments,     \* segments of a firmware
    MaxRetry,     \* MAX_OTA_RETRY_CNT
    MaxDrops,     \* checks in a row that may find MQTT disconnected, 3 in the code
    Null

VARIABLES
    client,       \* OTA_Struct_t: [state, err, version, md5, sizeFetched], or Null
    ctx,          \* OTAContextData: [remote, downloading, downloaded, failCnt]
    pc,           \* where the task is
    success,      \* upgrade_fetch_success
    drops,        \* mqtt_disconnect_cnt
    downloading,  \* g_fw_downloading
    running,      \* g_ota_task_running
    disabling,    \* disable_ota_task is waiting
    flash,        \* segments written since esp_ota_begin
    behind,       \* history: the download is written behind an old part
    boot,         \* history: what the boot partition was set to
    attempts,     \* history: downloads begun by this task
    isConnected,  \* IOT_MQTT_IsConnected
    inbox         \* messages of the cloud on their way

vars == <<client, ctx, pc, success, drops, downloading, running, disabling,
          flash, behind, boot, attempts, isConnected, inbox>>
stored == <<flash, behind>>
main == <<running, disabling, isConnected>>

----------------------------------------------------------------------------
Firmware(v)  == [i \in 1..Segments |-> <<v, i>>]
Part(v, k)   == SubSeq(Firmware(v), 1, k)
Stored       == Seq(Versions \X (1..Segments))
States       == {"INITED", "FETCHING", "FETCHED"}
Client       == [state : States, err : BOOLEAN, version : Versions \cup {Null},
                 md5 : Stored, sizeFetched : 0..Segments]
NewClient    == [state |-> "INITED", err |-> FALSE, version |-> Null,
                 md5 |-> <<>>, sizeFetched |-> 0]
NewContext   == [remote |-> Null, downloading |-> Null, downloaded |-> 0, failCnt |-> 0]
Offers       == [type : {"update"}, version : Versions] \cup {[type |-> "report_failed"]}

(* IOT_OTA_ResetStatus *)
Reset(c) == [c EXCEPT !.state = "INITED", !.err = FALSE, !.version = Null]

Init ==
    /\ client = Null /\ ctx = NewContext
    /\ pc = "none" /\ success = TRUE /\ drops = 0
    /\ downloading = FALSE /\ running = FALSE /\ disabling = FALSE
    /\ flash = <<>> /\ behind = FALSE /\ boot = Null /\ attempts = 0
    /\ isConnected = TRUE /\ inbox = {}

----------------------------------------------------------------------------
(* The main task. *)

(* IOT_OTA_ReportVersion: the state is reset before the publish, which is  *)
(* what the cloud answers with an offer.                                   *)
Reported(c, published) == [Reset(c) EXCEPT !.err = ~published]

(* enable_ota_task, for a context without a handle. The subscription of    *)
(* the topic may time out; a version that cannot be published destroys the *)
(* new handle after the task has ended its first look at running.          *)
Enable(initialized, published) ==
    /\ client = Null /\ pc = "none" /\ ~disabling
    /\ (initialized /\ published) => isConnected
    /\ published => initialized
    /\ running' = (published \/ ~initialized)
    /\ client' = IF published THEN Reported(NewClient, TRUE) ELSE Null
    /\ pc' = IF published THEN "loop" ELSE "none"
    /\ ctx' = NewContext
    /\ success' = TRUE /\ drops' = 0 /\ attempts' = 0
    /\ UNCHANGED <<downloading, disabling, stored, boot, isConnected, inbox>>

(* disable_ota_task waits until no firmware is being downloaded. *)
DisableBegin ==
    /\ running /\ ~disabling
    /\ running' = FALSE /\ disabling' = TRUE
    /\ UNCHANGED <<client, ctx, pc, success, drops, downloading, stored, boot, attempts, isConnected, inbox>>

DisableEnd ==
    /\ disabling /\ ~downloading
    /\ disabling' = FALSE
    /\ UNCHANGED <<client, ctx, pc, success, drops, downloading, running, stored, boot, attempts, isConnected, inbox>>

(* _ota_callback, from a yield of the main task. *)
OtaCallback(m) ==
    /\ isConnected /\ m \in inbox /\ client # Null
    /\ inbox' = inbox \ {m}
    /\ client' = IF client.state # "INITED" THEN client
                 ELSE IF m.type = "update"
                      THEN [client EXCEPT !.state = "FETCHING", !.version = m.version]
                      ELSE [client EXCEPT !.state = "FETCHED", !.err = TRUE]
    /\ UNCHANGED <<ctx, pc, success, drops, downloading, main, stored, boot, attempts>>

LinkChanges ==
    /\ pc \notin {"none", "restarted"}
    /\ isConnected' = ~isConnected
    /\ UNCHANGED <<client, ctx, pc, success, drops, downloading, running, disabling, stored, boot, attempts, inbox>>

CloudOffers(m) ==
    /\ client # Null /\ m \in Offers /\ inbox = {}
    /\ inbox' = {m}
    /\ UNCHANGED <<client, ctx, pc, success, drops, downloading, main, stored, boot, attempts>>

----------------------------------------------------------------------------
(* The task: _ota_update_task. *)

ToEnd(ok) == pc' = "end" /\ success' = ok

TaskStops ==
    /\ pc = "loop" /\ ~running
    /\ ToEnd(success)
    /\ UNCHANGED <<client, ctx, drops, downloading, main, stored, boot, attempts, inbox>>

TaskBegins ==
    /\ pc = "loop" /\ running /\ client.state = "FETCHING"
    /\ downloading' = TRUE
    /\ ctx' = [ctx EXCEPT !.remote = client.version]
    /\ pc' = "pre" /\ attempts' = attempts + 1
    /\ UNCHANGED <<client, success, drops, main, stored, boot, inbox>>

TaskSeesError ==
    /\ pc = "loop" /\ running /\ client.state # "FETCHING" /\ client.err
    /\ ToEnd(FALSE)
    /\ UNCHANGED <<client, ctx, drops, downloading, main, stored, boot, attempts, inbox>>

Resumable == ctx.downloaded > 0 /\ ctx.remote = ctx.downloading

(* _pre_ota_download: resume, with the MD5 of what is stored. That fails   *)
(* when the flash cannot be read, or when the size is not a multiple of    *)
(* the word: then the download begins again, but behind what is stored,    *)
(* without the esp_ota_begin that erases it ...                            *)
Resume(readable) ==
    /\ pc = "pre" /\ Resumable
    /\ behind' = (behind \/ ~readable)
    /\ IF readable
       THEN client' = [client EXCEPT !.md5 = SubSeq(flash, 1, ctx.downloaded)] /\ UNCHANGED ctx
       ELSE ctx' = [ctx EXCEPT !.downloaded = 0] /\ UNCHANGED client
    /\ pc' = "start"
    /\ UNCHANGED <<success, drops, downloading, main, flash, boot, attempts, inbox>>

(* ... or a new download, on an erased partition. *)
NewDownload(begun) ==
    /\ pc = "pre" /\ ~Resumable
    /\ ctx' = [ctx EXCEPT !.downloaded = 0]
    /\ IF begun
       THEN flash' = <<>> /\ behind' = FALSE /\ pc' = "start" /\ UNCHANGED success
       ELSE ToEnd(FALSE) /\ UNCHANGED stored
    /\ UNCHANGED <<client, drops, downloading, main, boot, attempts, inbox>>

Md5AtStart(md5) == IF ctx.downloaded = 0 THEN <<>> ELSE md5

(* IOT_OTA_StartDownload. There is no request for an empty range. *)
StartDownload(connects) ==
    /\ pc = "start"
    /\ client' = [client EXCEPT !.sizeFetched = ctx.downloaded, !.md5 = Md5AtStart(client.md5)]
    /\ IF connects /\ ctx.downloaded < Segments
       THEN pc' = "fetch" /\ UNCHANGED success
       ELSE ToEnd(FALSE)
    /\ UNCHANGED <<ctx, drops, downloading, main, stored, boot, attempts, inbox>>

TaskDisabled ==
    /\ pc = "fetch" /\ client.state # "FETCHED" /\ ~running
    /\ ToEnd(FALSE)
    /\ UNCHANGED <<client, ctx, drops, downloading, main, stored, boot, attempts, inbox>>

(* IOT_OTA_FetchYield *)
Fetch ==
    /\ pc = "fetch" /\ client.state = "FETCHING" /\ running
    /\ LET n == client.sizeFetched + 1 IN
       client' = [client EXCEPT !.sizeFetched = n, !.md5 = Append(@, <<client.version, n>>),
                                !.state = IF n >= Segments THEN "FETCHED" ELSE @]
    /\ pc' = "save"
    /\ UNCHANGED <<ctx, success, drops, downloading, main, stored, boot, attempts, inbox>>

FetchFails(err) ==
    /\ pc = "fetch" /\ client.state # "FETCHED" /\ running
    /\ client' = [client EXCEPT !.err = err \/ @]
    /\ ToEnd(FALSE)
    /\ UNCHANGED <<ctx, drops, downloading, main, stored, boot, attempts, inbox>>

(* Mutants: the size is that of the last segment, or is added to the old. *)
SizeOfSegment == 1
SizeAddedUp   == ctx.downloaded + client.sizeFetched
SavedSize     == client.sizeFetched

(* _save_fw_data, the size fetched, and the look at the MQTT connection. *)
Save ==
    /\ pc = "save"
    /\ flash' = Append(flash, Last(client.md5)) /\ UNCHANGED behind
    /\ ctx' = [ctx EXCEPT !.downloaded = SavedSize]
    /\ drops' = IF isConnected THEN 0 ELSE drops + 1
    /\ IF drops' > MaxDrops THEN ToEnd(FALSE) ELSE pc' = "fetch" /\ UNCHANGED success
    /\ UNCHANGED <<client, downloading, main, boot, attempts, inbox>>

SaveFails ==
    /\ pc = "save"
    /\ ToEnd(FALSE)
    /\ UNCHANGED <<client, ctx, drops, downloading, main, stored, boot, attempts, inbox>>

Valid == client.md5 = Firmware(client.version)

(* The MD5 is checked. A mismatch is reported, which resets the state when *)
(* the report can be published, and is not retried.                        *)
Check(published) ==
    /\ pc = "fetch" /\ client.state = "FETCHED"
    /\ published => isConnected
    /\ IF Valid
       THEN pc' = "post" /\ ~published /\ UNCHANGED <<client, ctx, success>>
       ELSE /\ ctx' = [ctx EXCEPT !.downloaded = 0, !.failCnt = MaxRetry + 1]
            /\ client' = IF published THEN Reset(client) ELSE [client EXCEPT !.err = TRUE]
            /\ ToEnd(FALSE)
    /\ UNCHANGED <<drops, downloading, main, stored, boot, attempts, inbox>>

(* _post_ota_download: the ESP8266 may refuse the image. *)
Post(accepted) ==
    /\ pc = "post"
    /\ IF accepted
       THEN boot' = flash /\ UNCHANGED ctx
       ELSE ctx' = [ctx EXCEPT !.failCnt = MaxRetry + 1] /\ UNCHANGED boot
    /\ ToEnd(accepted)
    /\ UNCHANGED <<client, drops, downloading, main, stored, attempts, inbox>>

(* A failure is counted once a download had begun. *)
Failures == IF success \/ ~downloading THEN 0 ELSE 1

(* end_of_ota: a failed download is reported and counted. *)
EndReport(published) ==
    /\ pc = "end"
    /\ published => isConnected /\ Failures = 1 /\ client.version # Null
    /\ client' = IF published THEN Reset(client)
                 ELSE IF Failures = 1 /\ client.version # Null THEN [client EXCEPT !.err = TRUE]
                 ELSE client
    /\ ctx' = [ctx EXCEPT !.failCnt = @ + Failures]
    /\ pc' = "decide"
    /\ UNCHANGED <<success, drops, downloading, main, stored, boot, attempts, inbox>>

MayRetry == running /\ isConnected /\ ~success /\ ctx.failCnt <= MaxRetry

Retry ==
    /\ pc = "decide" /\ MayRetry
    /\ downloading' = FALSE /\ success' = TRUE
    /\ pc' = "report"
    /\ UNCHANGED <<client, ctx, drops, main, stored, boot, attempts, inbox>>

(* The version is reported again, and what is stored is kept for the next  *)
(* download of the same version.                                           *)
ReportAgain(published) ==
    /\ pc = "report"
    /\ published => isConnected
    /\ client' = Reported(client, published)
    /\ ctx' = IF ctx.downloaded > 0 THEN [ctx EXCEPT !.downloading = ctx.remote] ELSE ctx
    /\ pc' = "loop"
    /\ UNCHANGED <<success, drops, downloading, main, stored, boot, attempts, inbox>>

Restart ==
    /\ pc = "decide" /\ ~MayRetry /\ success /\ downloading
    /\ pc' = "restarted"
    /\ UNCHANGED <<client, ctx, success, drops, downloading, main, stored, boot, attempts, inbox>>

Quit ==
    /\ pc = "decide" /\ ~MayRetry /\ ~(success /\ downloading)
    /\ downloading' = FALSE
    /\ client' = Null /\ ctx' = NewContext
    /\ pc' = "none"
    /\ inbox' = {}
    /\ UNCHANGED <<success, drops, main, stored, boot, attempts>>

Task ==
    \/ TaskStops \/ TaskBegins \/ TaskSeesError
    \/ Save \/ SaveFails
    \/ TaskDisabled \/ Fetch \/ Retry \/ Restart \/ Quit
    \/ \E ok \in BOOLEAN : \/ Resume(ok) \/ NewDownload(ok) \/ StartDownload(ok) \/ FetchFails(ok)
                           \/ Check(ok) \/ Post(ok)
                           \/ EndReport(ok) \/ ReportAgain(ok)

Next ==
    \/ Task
    \/ \E i, p \in BOOLEAN : Enable(i, p)
    \/ DisableBegin \/ DisableEnd \/ LinkChanges
    \/ \E m \in Offers : OtaCallback(m) \/ CloudOffers(m)

(* FreeRTOS runs both tasks, and each call of the task returns. *)
Fairness == WF_vars(Task) /\ WF_vars(DisableEnd)

Spec == Init /\ [][Next]_vars /\ Fairness

----------------------------------------------------------------------------
TypeOK ==
    /\ client \in Client \cup {Null}
    /\ ctx \in [remote : Versions \cup {Null}, downloading : Versions \cup {Null},
                downloaded : 0..Segments, failCnt : 0..(MaxRetry + 2)]
    /\ pc \in {"none", "loop", "pre", "start", "fetch", "save", "post", "end",
               "decide", "report", "restarted"}
    /\ pc = "none" <=> client = Null
    /\ {success, downloading, running, disabling, isConnected} \subseteq BOOLEAN
    /\ drops \in Nat /\ attempts \in Nat
    /\ flash \in Stored /\ behind \in BOOLEAN
    /\ boot \in Stored \cup {Null}
    /\ inbox \subseteq Offers

(* The boot partition is only ever set to a whole firmware of one version, *)
(* however often its download was interrupted, resumed or replaced by that *)
(* of another version: unless a part that could not be read back was left  *)
(* in front of it, which only the ESP8266 may notice.                      *)
BootIsFirmware ==
    boot # Null => behind \/ \E v \in Versions : boot = Firmware(v)

(* While segments are fetched, the flash, the MD5 and the size agree: the  *)
(* MD5 that will be checked is that of what is stored, and only of that    *)
(* (a download that goes on behind an old part has the MD5 of its end).    *)
Md5IsOfFlash ==
    pc = "fetch" /\ ~behind =>
        /\ flash = client.md5
        /\ flash = Part(ctx.remote, client.sizeFetched)

(* A task begins no more downloads than its retries allow, also when a     *)
(* download fails before its first segment or in between versions.         *)
AttemptsBounded == attempts <= MaxRetry + 1

=============================================================================
