CONSTANTS
    Owners = {p1, p2}
    Names = {m1, m2, m3}
    MaxAdmin = 2
    MaxPrimary = 1
    MaxRegraded = 1
    NoAccount = NoAccount
    Gone = Gone
    Emails = {m1, m2, m3}
    RegCodes = {c1}
    QrInvites = {i1}
    SeatLimit = 2
    Threads = {p1, p2}
    System = System
    NoOwner = NoOwner
    NoCode = NoCode
    NoInvite = NoInvite
    NoReg = NoReg
CHECK_DEADLOCK FALSE
SPECIFICATION AccountSpec
SYMMETRY Symmetry
INVARIANTS
    TypesOK
    WithinQuota
    NamesUnique
    AdmitsOnce
    SeatsOversoldByOverlap
PROPERTIES
    EvictionSparesTheOldest
