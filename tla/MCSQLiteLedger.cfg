SPECIFICATION Spec
CONSTANTS
    Headers <- MCHeaders
    Receipts <- MCReceipts
    Requests <- MCRequests
    Objects = {obj1}
    Tokens = {t1}
    Decisions = {d1, d2}
    Clients = {p, q}
    None = None
    InitialTables = 4
    NoRef = NoRef
    PackageNA = PackageNA
    Unregistered = Unregistered
    Unused = Unused
    o1 = o1
    o2 = o2
    obj1 = obj1
    t1 = t1
    d1 = d1
    d2 = d2
INVARIANTS
    TypeOK
    SuccessIsDurable
    OneFirstUse
    CountsConsistent
PROPERTIES
    ReplayNeverRefused
    ImplementsLedger
