CONSTANTS
    g1 = g1
    g2 = g2
    g3 = g3
    a1 = a1
    a2 = a2
    z1 = z1
    z2 = z2
    CallGuests = {g1, g2}
    Admins = {a1}
    Zones = {z1}
    ZoneOf <- OneZoneOf
    AdminOf <- SameAdmin
    AdminsOf <- OneZoneAdmins
    CallIds = {1, 2, 3, 4, 5}
    MaxSuspended = 2
    AdminCalls <- Everybody
    PendingIds = {}
    NoCaller = NoCaller
    NoId = NoId
    Escalations = {FALSE}
    Dropouts = TRUE
    Decisions = FALSE
SPECIFICATION CallSpec
INVARIANTS
    NoStrandedQueue
