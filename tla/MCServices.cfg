SPECIFICATION Spec
CONSTANTS
    Versions = {v1, v2}
    Segments = 2
    MaxRetry = 1
    MaxDrops = 1
    d1 = d1
    d2 = d2
    Devices = {d1, d2}
    BeginningOf <- MCBeginningOf
    MaxCalls = 2
    MaxOrders = 1
    LogCap = 3
    LowCap = 2
    PostCap = 1
    SaveCap = 3
    SaveEnabled = TRUE
    MaxLogs = 5
    MaxClears = 1
    MaxFails = 2
    Zero = Zero
    FileSize = 5
    SegmentSize = 3
    BufCap = 2
    HeadCap = 3
    PageSize = 4
    MaxUrlFaults = 2
    Page = Page
    MaxTries = 2
    Requests = {"unbind", "song", "songlist", "level"}
    Size = 2
    MaxTasks = 2
    MaxFaults = 1
    Methods <- MCMethods
    WaitCap = 1
    MaxPosts = 2
    MaxFileOrders = 2
    Properties = {p1}
    Actions = {a1}
    MaxHandlers = 1
    MaxTokens = 3
    Letters = {"a", "b"}
    MaxLength = 3
    MaxFilters = 2
    SharedLength = 1
    Lengths = {0, 1, 4}
    BufSize = 3
    MaxPackets = 2
    MaxStalls = 1
    Block = 4
    WordSize = 8
    Bits = 2
    MaxBytes = 13
    Base = 4
    TxSize = 24
    RxSize = 24
    TopicLens = {1, 9}
    DataLens = {0, 7, 11}
    PasswordLens = {0, 1}
    MaxRead = 2
    Keys = {"a", "b"}
    StringValues <- MCStringValues
    Sizes = {40, 50, 60, 70, 90, 140}
    Rooms = {1, 2}
    ListNodes = {n1, n2, n3}
    Values = {"u", "v"}
    Threads = {t1, t2}
    StopCap = 2
    MaxMade = 2
    CipherBlock = 2
    DecodeCap = 8
    SignCap = 64
    SecretCap = 2
    SecretBytes = {1, 255}
    Products <- MCProducts
    Sockets = {0, 1}
    PacketLength = 4
    MaxSends = 2
    ReqCap = 2
    MaxAsks = 4
    SendCap = 13
    HostCap = 3
    PathCap = 7
    Targets <- MCTargets
    HeaderLens = {0, 2, 3, 4, 5, 14}
    Null = Null
INVARIANTS
    TypeOK
    BootIsFirmware
    ChecksumOfFile
    SuccessIsAnswered
    LatestIsAnswered
    StreamsWhole
    DataAsMeant
    OneTask
PROPERTIES
    TaskStays
    CallsReturn
CHECK_DEADLOCK FALSE
