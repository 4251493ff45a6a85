SPECIFICATION Spec
CONSTANTS
    Callers = {p, q}
    p = p
    q = q
    Labels = {"a"}
    Cuts = {o1}
    o1 = o1
    Burdens = {"b"}
    Limitations = {"l"}
    MaxReceipts = 4
    Operations <- MCOperations
    Statuses <- MCStatuses
    None = None
    NoRef = NoRef
    PackageNA = PackageNA
    Unregistered = Unregistered
    Unused = Unused
SYMMETRY MCSymmetry
INVARIANTS
    TypeOK
    LineageIsAChain
    OriginPreserved
    RefusedByRivals
    VersionsInOrder
