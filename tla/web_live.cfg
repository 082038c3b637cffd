SPECIFICATION Spec
CONSTANTS
    BrowserOf <- MCBrowserOf
    TabOf <- MCTabOf
    Capacity <- MCCapacity
    Reports <- MCReports
    Documents <- MCDocuments
    Containers <- MCContainers
    Aspects <- MCAspects
    w1 = w1
    w2 = w2
    w3 = w3
    r1 = r1
    r2 = r2
    c1 = c1
    Sockets = {w1, w2, w3}
    Devices = {d1}
    Requests = {r1, r2}
    Nil = Nil
    Settings = {0, 1, 2, 4}
    DefaultMessages = 3
    DefaultCommands = 2
    WindowMs = 2
    LastTick = 4
    Targets = {dA, dB}
    Calls = {q1, q2}
    Typed = {q1}
    MaxClients = 2
    MaxSockets = 3
    MaxQueueSize = 2
    None = None
    Asks = {a1, a2, a3}
    NoAsk = NoAsk
    Cameras = {1, 2, 3, 4, 5, 6}
    PtzCameras = {c1, c2}
    MaxCommands = 2
    MaxQueries = 2
    MaxPtzTurns = 4
    NoCamera = NoCamera
    Services = {s1, s2}
    Versions = {0, 1, 2}
    MaxRmTurns = 4
    NoService = NoService
    CallIds = {1, 2}
    MaxDeviceJobs = 1
    Filters = {1, 2}
    MaxPanelTurns = 4
    RoiCameras = {1, 2}
    NoDocument = NoDocument
    MaxRoiEdits = 2
    MaxRoiOps = 2
    MaxRoiTurns = 3
    MaxPixel = 4
    MinDrawSize = 1
SYMMETRY LiveSymmetry
INVARIANTS
    WebLiveTypeOK
    GatewayServesItsClients
    LivePagesKeepTrack
    DevicePagesShowTheDevice
CHECK_DEADLOCK FALSE
