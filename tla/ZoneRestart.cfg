CONSTANTS
    Owners = {o1}
    Names = {n1, n2, n3}
    MaxAdmin = 3
    MaxPrimary = 2
    MaxRegraded = 1
    NoAccount = NoAccount
    Gone = Gone
SPECIFICATION ZnSpec
INVARIANTS PrimariesWithinLimit
