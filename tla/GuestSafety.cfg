CONSTANTS
    g1 = g1
    g2 = g2
    g3 = g3
    a1 = a1
    a2 = a2
    z1 = z1
    z2 = z2
    CallGuests = {g1, g2}
    Admins = {a1}
    Zones = {z1}
    ZoneOf <- OneZoneOf
    AdminOf <- SameAdmin
    AdminsOf <- OneZoneAdmins
    CallIds = {1, 2, 3, 4}
    MaxSuspended = 2
    AdminCalls = {}
    PendingIds = {p1}
    NoCaller = NoCaller
    NoId = NoId
    Escalations = {TRUE}
    Dropouts = TRUE
    Decisions = TRUE
    Guests = {g1, g2}
    Events = {e1, e2}
    Tokens = {e1, e2}
    NoGuest = NoGuest
    NoEvent = NoEvent
    NoToken = NoToken
    UseLimits = {0, 1}
    ExchangeTTL = 1
    MaxTime = 3
    UaPeople = {1, 2, 3}
    UaNetwork <- UaNet
    UaRequests = {q1}
    UaHubs = 2
    MaxDocs = 1
    NoOne = NoOne
    Removed = Removed
CHECK_DEADLOCK FALSE
SPECIFICATION GuestSpec
SYMMETRY GuestSymmetry
INVARIANTS
    TypesOK
    PassAndSessionAgree
    ExchangeOnce
    LiveBearerIsCleared
    TokenUsesHonest
    OneActiveToken
    KeyFollowsDecision
    OpeningWasAgreed
    NothingHidden
PROPERTIES
    PassAdmitsOnce
    AdmissionSpec
    TimeoutSparesAnswered
    AutoCloseSparesApproved
