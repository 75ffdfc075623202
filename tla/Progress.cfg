CONSTANTS
    g1 = g1
    g2 = g2
    g3 = g3
    a1 = a1
    a2 = a2
    z1 = z1
    z2 = z2
    CallGuests = {g1, g2, g3}
    Admins = {a1}
    Zones = {z1}
    ZoneOf <- OneZoneOf
    AdminOf <- SameAdmin
    AdminsOf <- OneZoneAdmins
    CallIds = {1, 2, 3, 4}
    MaxSuspended = 2
    AdminCalls <- OnlyG1
    PendingIds = {}
    NoCaller = NoCaller
    NoId = NoId
    Escalations = {FALSE}
    Dropouts = FALSE
    Decisions = FALSE
    Guests = {g1}
    Events = {e1, e2}
    Tokens = {t1}
    NoGuest = NoGuest
    NoEvent = NoEvent
    NoToken = NoToken
    UseLimits = {1}
    ExchangeTTL = 1
    MaxTime = 2
    MaxInitRetries = 2
    MaxStarts = 2
    NoSchedule = NoSchedule
CHECK_DEADLOCK FALSE
SPECIFICATION ProgressSpec
INVARIANTS
    NoStrandedQueue
PROPERTIES
    RingingEnds
    WaitingEnds
    ClearedGuestGetsIn
    QuietStartPatches
    StartSparesSchedules
