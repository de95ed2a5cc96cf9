------------------------------ MODULE Services ------------------------------
(* The clients of the SDK that stand on top of the MQTT and HTTP clients, and  *)
(* the pieces of the MQTT client below them that no other module has: its life  *)
(* cycle, its packets and its topics, its lists, the network, and the documents *)
(* and digests that all of them use.  Each has the module it is instantiated    *)
(* from; they share no variable with one another, the MQTT client being an      *)
(* environment that loses, delays and answers messages in each of them.  So     *)
(* their joint behaviours add nothing to those of each alone, and `service'     *)
(* fixes which one runs.  Most of them come from CloudServices and DeviceServices. *)
EXTENDS CloudServices, DeviceServices, Integers, Sequences

CONSTANTS
    Letters, MaxLength, MaxFilters, SharedLength,
    Base, TxSize, RxSize, TopicLens, DataLens, PasswordLens, MaxRead,
    Keys, StringValues, Sizes, Rooms,
    CipherBlock, DecodeCap, SignCap, SecretCap, SecretBytes, Products

VARIABLES
    service,  \* the one that runs
    tmFilters, tmName, tmSlot, tmFilterAt, tmNameAt, tmDone, tmTaker,
    cdWritten, cdReadBuf, cdRead, cdReads,
    jsDone,
    drProduct, drSecret, drReply, drResult, drWritten, drCalls

\* A string ends with a zero, which is no character of it.
ASSUME LettersAssumption == "0" \notin Letters

Topics    == INSTANCE TopicMatch
Codec     == INSTANCE PacketCodec
Documents == INSTANCE Json
Register  == INSTANCE DynReg

topicsVars == <<tmFilters, tmName, tmSlot, tmFilterAt, tmNameAt, tmDone, tmTaker>>
codecVars == <<cdWritten, cdReadBuf, cdRead, cdReads>>
registerVars == <<drProduct, drSecret, drReply, drResult, drWritten, drCalls>>

allVars == <<service, otaVars, gwVars, logVars, urlVars, syncVars, resourceVars, wifiVars,
             filesVars, commandsVars, topicsVars, packetsVars, digestVars, codecVars, jsDone,
             listVars, lifecycleVars, registerVars, netVars, speechVars, httpVars>>

\* Some start in any of several states, which only matters where they run.
Init ==
    /\ service \in {"ota", "gateway", "log", "url", "sync", "resource", "wifi", "files",
                   "commands", "topics", "packets", "digest", "codec", "json", "list",
                   "lifecycle", "register", "net", "speech", "http"}
    /\ Http!Init
    /\ service # "http" =>
           /\ hrTarget = CHOOSE t \in Targets : TRUE
           /\ hrHeader = CHOOSE n \in HeaderLens : TRUE
           /\ ~hrAuth /\ ~hrPost
    /\ Topics!Init
    /\ service # "topics" => tmName = <<CHOOSE l \in Letters : TRUE>> /\ tmFilters = <<tmName>>
    /\ Digests!Init
    /\ service # "digest" => dgOrder = "low"
    /\ Register!Init
    /\ service # "register" => drProduct = CHOOSE p \in Products : TRUE
    /\ Net!Init
    /\ service # "net" => ~ntTls
    /\ Ota!Init /\ Gw!Init /\ Log!Init /\ Url!Init /\ Sync!Init /\ Resource!Init
    /\ Wifi!Init /\ Files!Init /\ Commands!Init /\ Packets!Init /\ Codec!Init
    /\ Documents!Init /\ Lists!Init /\ Lifecycle!Init /\ Speech!Init

\* A step of service s.
In(s, A) ==
    /\ service = s
    /\ A
    /\ s # "ota"      => UNCHANGED otaVars
    /\ s # "gateway"  => UNCHANGED gwVars
    /\ s # "log"      => UNCHANGED logVars
    /\ s # "url"      => UNCHANGED urlVars
    /\ s # "sync"     => UNCHANGED syncVars
    /\ s # "resource" => UNCHANGED resourceVars
    /\ s # "wifi"     => UNCHANGED wifiVars
    /\ s # "files"    => UNCHANGED filesVars
    /\ s # "commands" => UNCHANGED commandsVars
    /\ s # "topics"   => UNCHANGED topicsVars
    /\ s # "packets"  => UNCHANGED packetsVars
    /\ s # "digest"   => UNCHANGED digestVars
    /\ s # "codec"    => UNCHANGED codecVars
    /\ s # "json"     => UNCHANGED jsDone
    /\ s # "list"     => UNCHANGED listVars
    /\ s # "lifecycle" => UNCHANGED lifecycleVars
    /\ s # "register" => UNCHANGED registerVars
    /\ s # "net"      => UNCHANGED netVars
    /\ s # "speech"   => UNCHANGED speechVars
    /\ s # "http"     => UNCHANGED httpVars
    /\ UNCHANGED service

Next ==
    \/ In("ota", Ota!Next)
    \/ In("gateway", Gw!Next)
    \/ In("log", Log!Next)
    \/ In("url", Url!Next)
    \/ In("sync", Sync!Next)
    \/ In("resource", Resource!Next)
    \/ In("wifi", Wifi!Next)
    \/ In("files", Files!Next)
    \/ In("commands", Commands!Next)
    \/ In("topics", Topics!Next)
    \/ In("packets", Packets!Next)
    \/ In("digest", Digests!Next)
    \/ In("codec", Codec!Next)
    \/ In("json", Documents!Next)
    \/ In("list", Lists!Next)
    \/ In("lifecycle", Lifecycle!Next)
    \/ In("register", Register!Next)
    \/ In("net", Net!Next)
    \/ In("speech", Speech!Next)
    \/ In("http", Http!Next)

\* The variables that a step of the service that runs may change.
activeVars ==
    CASE service = "ota"      -> otaVars
      [] service = "gateway"  -> gwVars
      [] service = "log"      -> logVars
      [] service = "url"      -> urlVars
      [] service = "sync"     -> syncVars
      [] service = "resource" -> resourceVars
      [] service = "wifi"     -> wifiVars
      [] service = "commands" -> commandsVars
      [] service = "lifecycle" -> lifecycleVars
      [] service = "net"      -> netVars
      [] OTHER                -> service

Of(s, A) == service = s /\ A /\ UNCHANGED service

\* The fairness of the services, one conjunct for the k-th of each: with `service'
\* fixed, it is that of the one that runs.
Fairness ==
    /\ WF_activeVars(\/ Of("ota", Ota!Task)
                     \/ Of("gateway", Gw!Answered \/ Gw!LoopedOut)
                     \/ Of("log", Log!Upload)
                     \/ Of("url", Url!Next)
                     \/ Of("sync", Sync!InCall)
                     \/ Of("resource", Resource!ReportReturns)
                     \/ Of("wifi", Wifi!TaskStep("softap"))
                     \/ Of("commands", Commands!Reply)
                     \/ Of("lifecycle", Lifecycle!StopWaits)
                     \/ Of("net", Net!WriteStops))
    /\ WF_activeVars(\/ Of("ota", Ota!DisableEnd)
                     \/ Of("wifi", Wifi!TaskStep("smart"))
                     \/ Of("commands", Commands!Wait))
    /\ WF_activeVars(\/ Of("wifi", Wifi!PublishToken \/ Wifi!ReplyTimesOut))
    /\ WF_activeVars(Of("wifi", Wifi!CommEnds))
    /\ WF_activeVars(Of("wifi", Wifi!GoOn))

Spec == Init /\ [][Next]_allVars /\ Fairness
-----------------------------------------------------------------------------
\* The ranges of the variables of the service that runs.
TypeOK ==
    CASE service = "ota"      -> Ota!TypeOK
      [] service = "gateway"  -> Gw!TypeOK
      [] service = "log"      -> Log!TypeOK
      [] service = "url"      -> Url!TypeOK
      [] service = "sync"     -> Sync!TypeOK
      [] service = "resource" -> Resource!TypeOK
      [] service = "wifi"     -> Wifi!TypeOK
      [] service = "files"    -> Files!TypeOK
      [] service = "commands" -> Commands!TypeOK
      [] service = "topics"   -> Topics!TypeOK
      [] service = "packets"  -> Packets!TypeOK
      [] service = "digest"   -> Digests!TypeOK
      [] service = "codec"    -> Codec!TypeOK
      [] service = "json"     -> Documents!TypeOK
      [] service = "list"     -> Lists!TypeOK
      [] service = "lifecycle" -> Lifecycle!TypeOK
      [] service = "register" -> Register!TypeOK
      [] service = "net"      -> Net!TypeOK
      [] service = "speech"   -> Speech!TypeOK
      [] service = "http"     -> Http!TypeOK

\* OTA: whatever is retried, resumed, failed or offered meanwhile, the boot partition is
\* only ever set to a whole firmware of one version (_ota_update_task), unless a part that
\* could not be read back was left in front of it (_pre_ota_download).
BootIsFirmware == service = "ota" => Ota!BootIsFirmware

\* Downloads that are resumed: the checksum that is compared in the end is that of the
\* bytes which were stored, after any mix of resumes, retries and failures (OTA, resources
\* and files).
ChecksumOfFile ==
    /\ service = "ota"      => Ota!Md5IsOfFlash
    /\ service = "resource" => Resource!ChecksumOfFile
    /\ service = "files"    => Files!ChecksumOfFile

\* Requests over MQTT: a call that returns success was answered, by an answer to this very
\* call unless an answer to an earlier one that had timed out came late, or, for the upload of
\* a resource, another report of an upload had not been answered when it began; what a client holds
\* of the cloud was said by it: a sub-device session is online between calls, a topic counts
\* as subscribed, only then; binding a device reports success only for a token the cloud
\* took, the one of this configuration; what the cloud recognised reaches the request that
\* it is of while the list has it.
SuccessIsAnswered ==
    /\ service = "gateway"  => Gw!SuccessIsAnswered /\ Gw!IdleSessionsOnline
    /\ service = "sync"     => Sync!SuccessIsAnswered /\ Sync!OkIsGranted
    /\ service = "resource" => Resource!SuccessIsAnswered
    /\ service = "wifi"     => Wifi!SuccessIsBound /\ Wifi!TokenIsFresh
    /\ service = "speech"   => Speech!ResultReachesRequest

\* Controls of a device: each control that reached a callback is covered by a reply, with its
\* own token or with that of a control received later, which takes the one place for a token
\* even when it is for none of the properties; and what was replied to has been acted on
\* (_handle_control, _set_control_clientToken, deal_down_stream_user_logic).
LatestIsAnswered == service = "commands" => Commands!LatestIsAnswered /\ Commands!AnsweredIsDone

\* What is put together from pieces: no line of the log vanishes, and until a post fails the
\* lines arrive once and in order; a file is put together from its ranges in order and each
\* answer read apart, whatever fails or is resumed; until a read stalls on a connection a packet
\* is handled whole and in order (after that it is not: HeaderIsHeader of PacketIO); the bytes of
\* a packet go out in order and each once, and all of them have when sending it succeeds, unless
\* a write that took a part of it was reported as a success; the same for a request of HTTP
\* whose head is shorter than its buffer, unless a write was cut short; a digest is that of the
\* whole message, however it is cut; a list is one sequence from either end, and a scan whose
\* nodes are removed meanwhile sees them all.
StreamsWhole ==
    /\ service = "log"     => Log!NoLineVanishes /\ Log!ServerInOrder
    /\ service = "url"     => Url!ContentInOrder /\ Url!AnswersSeparate
    /\ service = "packets" => Packets!PacketsWhole
    /\ service = "net"     => Net!WireIsPacket
    /\ service = "http"    => Http!RequestWhole
    /\ service = "digest"  => Digests!DigestOfWhole /\ Digests!MacOfKey
    /\ service = "list"    => Lists!IsSequence /\ Lists!FindsItem /\ Lists!ScanWhole

\* Data as it is meant: a message reaches every filter that matches it, a packet is written
\* and read as its fields, a document is that of its tree, and a device that registers holds
\* the secret that was issued, within the buffers there are.
DataAsMeant ==
    /\ service = "topics"  => Topics!NoneMissed /\ Topics!ExactWithoutWildcard
    /\ service = "codec"   => Codec!WrittenFits /\ Codec!ReadIsSent
    /\ service = "json"    => Documents!DocumentAsMeant /\ Documents!LookupFinds /\ Documents!ArrayEntries
    /\ service = "register" => Register!SecretIsIssued /\ Register!IssuedSucceeds
                               /\ Register!DecryptFits

\* One thing at a time: the name and the URL of a transfer belong to the same task, a file
\* is posted once if the callback for its URL does not yield, a configuration has one result,
\* an update is attempted a bounded number of times, one task yields, what a client or a
\* connection holds is released once, and a slice of speech has its file until it is uploaded.
OneTask ==
    /\ service = "resource" => Resource!OneTask
    /\ service = "files"    => Files!OneOrder /\ Files!PostedOnce
    /\ service = "wifi"     => Wifi!OneResult
    /\ service = "ota"      => Ota!AttemptsBounded
    /\ service = "lifecycle" => Lifecycle!AllReleased /\ Lifecycle!OneYield
    /\ service = "net"      => Net!OneSocket
    /\ service = "speech"   => Speech!FilesOwned

\* A resource that is being transferred keeps its task until the transfer ends, whatever
\* the cloud starts meanwhile (_qcloud_iot_resource_callback).
TaskStays == Resource!TaskStays

\* A caller waits for an answer, a task or a transfer, or the task of a method of
\* configuring Wi-Fi runs.
Waiting ==
    CASE service = "ota"      -> disabling /\ pc # "restarted"
      [] service = "gateway"  -> gwCall # Null
      [] service = "log"      -> lgUpload # Null
      [] service = "url"      -> ~udPaged /\ Len(udSaved) < FileSize
      [] service = "sync"     -> sqCall # Null
      [] service = "resource" -> rsReport # Null
      [] service = "wifi"     -> wcApp = "wait" \/ \E k \in {"softap", "smart"} : wcTask[k] # "none"
      [] service = "commands" -> tcArrived
      [] service = "lifecycle" -> clApp = "stop"
      [] service = "net"      -> ntCall # Null
      [] OTHER                -> FALSE

\* Whatever is lost, refused or never answered, every call returns, and so does the task
\* of each method.
CallsReturn == Waiting ~> ~Waiting
=============================================================================
