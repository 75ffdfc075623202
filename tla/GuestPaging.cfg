CONSTANTS
    Recipients = {x1, x2}
    Sender = sender
    MaxReminders = 2
    Delay = 1
    Lookback = 3
    NoAck = NoAck
    Idle = Idle
    MaxTime = 4
    MaxAsks = 3
    MaxLost = 1
    MsOwners <- ThreeOwners
    SysAdmins = {3}
    MsAdmins = {1, 3}
    NetOf <- TwoNets
    RootOf <- TwoRoots
    PlusRoots = {1}
    HomeOf <- Homes
    MsZones = {"P1", "S1", "P2"}
    ZoneNet <- NetOfZone
    ZoneMaker <- MakerOfZone
    PrimaryZones = {"P1", "P2"}
    Places = {"both", "second", "out"}
    At <- ZonesAround
    Far <- Distance
    Nowhere = "Nw"
    Fanout = 1
    FirstRules <- RulesAtFirst
    MaxScan = 1
    MaxEvents = 2
    MaxChanges = 1
    GcGuests = {x1, x2}
    GcOwners <- ThreeOwners
    GcAdmins = {1, 3}
    GcNet <- TwoNets
    GcRoot <- OneRoot
    HomeNet = "n1"
    ZoneOwner = 3
    AdminScan = 4
    PageSize = 1
    MaxRows = 4
    MaxAside = 1
    v1 = v1
    v2 = v2
    DvOwners = {v1, v2}
    DvVisible <- AdminSeesAll
    Logins = {x1, x2}
    HubIds = {h1, h2}
    Urls = {u1, u2}
    MaxPlan = 2
    MaxSockets = 2
    NoDevice = NoDevice
    NoUrl = NoUrl
    DlOwners = {1, 2}
    DlSender = 1
    OwnerNet <- TwoOwnerNets
    Phones = {"e", "f", "a"}
    Platform <- PlatformOf
    Skipped = {"FCM"}
    DlHubs = {"h1", "h2"}
    HubOwner <- OwnerOfHub
    DlZones = {"z1", "z2"}
    ZoneNetwork <- NetOfDlZone
    MaxTries = 2
    Workers = {"w1", "w2"}
    MaxLedger = 2
    MaxMoves = 1
    Vacant = Vacant
CHECK_DEADLOCK FALSE
SPECIFICATION PagingSpec
INVARIANTS
    PagesCoverThread
