CONSTANTS
    g1 = g1
    g2 = g2
    g3 = g3
    g4 = g4
    a1 = a1
    a2 = a2
    z1 = z1
    z2 = z2
    CallGuests = {g1, g2, g3, g4}
    Admins = {a1}
    Zones = {z1, z2}
    ZoneOf <- SharedZoneOf
    AdminOf <- SameAdmin
    AdminsOf <- SharedAdmins
    CallIds = {1, 2, 3}
    MaxSuspended = 1
    AdminCalls = {}
    PendingIds = {}
    NoCaller = NoCaller
    NoId = NoId
    Escalations = {FALSE}
    Dropouts = FALSE
    Decisions = FALSE
SPECIFICATION SharedSpec
PROPERTIES
    EverybodyIsServed
