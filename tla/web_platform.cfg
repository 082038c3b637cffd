SPECIFICATION Spec
CONSTANTS
    na = na
    nb = nb
    nc = nc
    nd = nd
    CbSize <- MCSize
    CbFirst <- MCFirst
    CustomTexts <- MCTexts
    Charts <- MCCharts
    RunChart <- MCRunChart
    InsideOf <- MCInsideOf
    Manifests <- MCManifests
    DtKind <- MCKind
    Joined <- MCJoined
    Triggers = {t1, t2}
    Expressions = {0, 1}
    Passes = {p1, p2}
    MaxEdits = 1
    MaxPasses = 2
    MaxJobs = 1
    MaxJobAttempts = 2
    MaxCbTurns = 7
    Unmounted = Unmounted
    Nodes = {na, nb, nc, nd}
    NoNode = NoNode
    EdTriggers = {g1, g2}
    EdManual = {g2}
    EdTasks = {k1, k2}
    EdAsync = {k1}
    MaxChartEdits = 2
    RawIds = {x1, x2, x3}
    CloneIds = {y1, y2}
    BlockIds = {b1, b2}
    NoBlock = NoBlock
    MaxBlockEdits = 6
    RunIds = {"run1", "run2"}
    RsNodes = {"n1", "n12"}
    EditedChart = {"n12"}
    KeepsPolling = FALSE
    MaxRsTurns = 2
    MaxEngineTurns = 5
    NoRun = NoRun
    NoChart = NoChart
    NotFetched = NotFetched
    TriggerNodes = {m1, m2}
    PayloadSchemas = {v1, v2}
    MaxMtEdits = 2
    MaxMtTurns = 5
    NoSchema = NoSchema
    NoNodeId = NoNodeId
    NoPayload = NoPayload
    NoTrigger = NoTrigger
    Idling = Idling
    AcFactories = {f1, f2}
    AcDepartments = {dep1}
    AcDevices = {dev1}
    AcUsers = {u1}
    AcSlots = {1, 2}
    NoParent = NoParent
    MaxRequests = 2
    Sysadmin = Sysadmin
    Forbidden = Forbidden
    LbKeys = {"k1", "k2"}
    ReadOnlyNames = {"get"}
    MaxScripts = 2
    MaxHandMade = 1
    Servers = {s1, s2}
    FgaCallers = {1, 2}
    MaxFgaFaults = 2
    DtColumns = {"name", "level", "tag", "factoryId", "since"}
    HasId = {"name", "level", "tag", "since"}
    Texts = {"foo", "foo bar", "foo,bar"}
    Options = {1, 2}
    Highest = 1
    PageCount = 2
    PageSizes = {1, 2}
    MaxDtTurns = 3
    NoFilter = NoFilter
    MpRows = {row1, row2}
    MpSelf = row1
    MpPages = {"users", "devices", "apps"}
    Grantees = {u2}
    MaxMpCalls = 2
    NoDialog = NoDialog
    NotLoaded = NotLoaded
    NoRole = NoRole
    PsServers = {"s1", "s2"}
    Slots <- MCSlots
    PsProviders = {"MINIO", "S3"}
    PsDevices = {"d1", "d2", "d3"}
    ActiveDevices = {"d1", "d2"}
    ReleaseToken = TRUE
    DevicePaths <- MCDevicePaths
    PackagePaths <- MCPackagePaths
    ServiceNames <- MCServiceNames
    EarlierObjects <- MCEarlier
    Semver <- MCSemver
    Alphabet <- MCAlphabet
    ListLimit = 2
    MaxPsRequests = 2
    MaxPsFaults = 1
    NoAsk = NoAsk
    NoListing = NoListing
INVARIANTS
    WebPlatformTypeOK
    WorkflowIsKeptAsDrawn
    RunIsWhatTheChartSays
    AccessFollowsTheRows
    PagesShowWhatWasAsked
    AnswersAreExact
CHECK_DEADLOCK FALSE
