---------------------------- MODULE DeviceServices ----------------------------
(* What the device itself keeps and sends: files and the posts that wait for   *)
(* their URL, the configuration of the network, the MQTT client with its        *)
(* thread, the connection and the packets below it, the slices of speech, the   *)
(* lines of the log, the ranges of a download and the digests of what is stored. *)
(* Services adds the other clients, and says which of them runs.                *)
EXTENDS ServiceBounds, Naturals, Sequences

CONSTANTS
    WaitCap, MaxPosts, MaxFileOrders,    \* of FileManage
    Methods,                             \* of WifiConfig
    Threads, StopCap, MaxMade,           \* of ClientLifecycle
    Sockets, PacketLength, MaxSends,     \* of Transport
    ReqCap, MaxAsks,                     \* of AsrRequests
    LogCap, LowCap, PostCap, SaveCap, SaveEnabled, MaxLogs, MaxClears, MaxFails,
    Zero,                                \* of LogUpload
    FileSize, SegmentSize, BufCap, HeadCap, PageSize, MaxUrlFaults,
    Page,                                \* of UrlDownload
    Lengths, BufSize, MaxPackets, MaxStalls, \* of PacketIO
    Block, WordSize, Bits, MaxBytes          \* of MessageDigest

\* The application tries each method once at most.
ASSUME MethodsAssumption ==
    /\ Methods \in Seq({"softap", "smart"})
    /\ \A i, j \in DOMAIN Methods : Methods[i] = Methods[j] => i = j
ASSUME SocketsAssumption == Sockets \subseteq Nat
ASSUME WireAssumption == PacketLength \in Nat /\ Null \notin {"success", "sent"}
ASSUME LogAssumption ==
    LogCap \in Nat \ {0} /\ PostCap \in Nat \ {0} /\ LowCap \in Nat /\ SaveCap \in Nat
\* The units of an answer that come with its header fit the buffer of the caller, as they
\* do in that of the OTA task, or a range is at most two buffers long.
ASSUME UrlAssumption ==
    /\ FileSize \in Nat /\ SegmentSize \in Nat \ {0} /\ BufCap \in Nat \ {0} /\ HeadCap \in Nat
    /\ HeadCap <= BufCap \/ SegmentSize <= 2 * BufCap
ASSUME PacketAssumption == Lengths \subseteq Nat /\ BufSize \in Nat
\* A word counts whole blocks and whole bytes, and two words count every message.
ASSUME DigestAssumption ==
    /\ Block \in Nat /\ Block > 2 /\ Bits \in Nat \ {0}
    /\ WordSize \in Nat \ {0} /\ WordSize % Block = 0 /\ WordSize % Bits = 0
    /\ MaxBytes \in Nat /\ MaxBytes < WordSize * WordSize

VARIABLES
    fmState, fmInfo, fmLinked, fmDigest, fmFile, fmWaiting, fmUp, fmDown, fmOrders,
    fmPosts, fmFaults, fmPosted,
    wcTurn, wcApp, wcStarted, wcOutcome, wcTask, wcComm, wcCommRun, wcSta, wcToken,
    wcBind, wcUp, wcDown, wcCode, wcLogs, wcResults, wcAccepted,
    clHeld, clMade, clFailed, clMades, clRunning, clExit, clThread, clApp, clCnt, clLoop,
    clGaveUp, clLoops, clTwice,
    ntTls, ntHandle, ntSockets, ntMemory, ntCall, ntWire, ntResult, ntPartial, ntLost, ntSends,
    asList, asPosted, asFiles, asStray, asUp, asAsked, asNotify,
    lgBuffer, lgSaved, lgResend, lgErrOnly, lgUpload, lgServer, lgTwice, lgLogged,
    lgClears, lgGone, lgFails,
    udHandle, udWire, udSaved, udEmpty, udFaults, udPaged,
    pkWire, pkSent, pkPhase, pkHeader, pkLeft, pkHandled, pkStalls, pkTorn,
    dgOrder, dgCtx, dgFed, dgOut, dgMac

Files     == INSTANCE FileManage WITH MaxOrders <- MaxFileOrders
Wifi      == INSTANCE WifiConfig
Lifecycle == INSTANCE ClientLifecycle
Net       == INSTANCE Transport
Speech    == INSTANCE AsrRequests
Log       == INSTANCE LogUpload
Url       == INSTANCE UrlDownload WITH MaxFaults <- MaxUrlFaults
Packets   == INSTANCE PacketIO
Digests   == INSTANCE MessageDigest

\* NULL is no place where a construction fails.
ASSUME FailuresAssumption == Null \notin Lifecycle!Failures

\* A blank is no line; NULL is no upload, no handle and no answer.
ASSUME NoUploadAssumption ==
    Zero \notin Nat /\ Null \notin [stage : Log!Stages, size : Nat, sent : Nat]
ASSUME NoTransferAssumption ==
    /\ Null \notin [offset : Nat, size : Nat, fetched : Nat, open : BOOLEAN, more : BOOLEAN, left : Nat]
    /\ Null \notin [head : BOOLEAN, garbled : BOOLEAN, body : Seq(Nat)]

filesVars == <<fmState, fmInfo, fmLinked, fmDigest, fmFile, fmWaiting, fmUp, fmDown,
    fmOrders, fmPosts, fmFaults, fmPosted>>
wifiVars == <<wcTurn, wcApp, wcStarted, wcOutcome, wcTask, wcComm, wcCommRun, wcSta,
    wcToken, wcBind, wcUp, wcDown, wcCode, wcLogs, wcResults, wcAccepted>>
lifecycleVars == <<clHeld, clMade, clFailed, clMades, clRunning, clExit, clThread, clApp,
    clCnt, clLoop, clGaveUp, clLoops, clTwice>>
netVars == <<ntTls, ntHandle, ntSockets, ntMemory, ntCall, ntWire, ntResult, ntPartial,
    ntLost, ntSends>>
speechVars == <<asList, asPosted, asFiles, asStray, asUp, asAsked, asNotify>>
logVars == <<lgBuffer, lgSaved, lgResend, lgErrOnly, lgUpload, lgServer, lgTwice,
    lgLogged, lgClears, lgGone, lgFails>>
urlVars == <<udHandle, udWire, udSaved, udEmpty, udFaults, udPaged>>
packetsVars == <<pkWire, pkSent, pkPhase, pkHeader, pkLeft, pkHandled, pkStalls,
    pkTorn>>
digestVars == <<dgOrder, dgCtx, dgFed, dgOut, dgMac>>
=============================================================================
