CONSTANTS
    g1 = g1
    g2 = g2
    g3 = g3
    a1 = a1
    a2 = a2
    z1 = z1
    z2 = z2
    CallGuests = {g1, g2, g3}
    Admins = {a1, a2}
    Zones = {z1, z2}
    ZoneOf <- TwoZoneOf
    AdminOf <- SharedAdmin
    AdminsOf <- OwnAdmins
    CallIds = {1, 2, 3, 4, 5, 6}
    MaxSuspended = 2
    AdminCalls <- AcrossZones
    PendingIds = {}
    NoCaller = NoCaller
    NoId = NoId
    Escalations = {FALSE}
    Dropouts = TRUE
    Decisions = TRUE
SPECIFICATION LinesSpec
INVARIANTS
    LineExclusive
    QueueSound
    OneCallPerGuest
PROPERTIES
    ServesLines
