SPECIFICATION Spec
CONSTANTS
    Headers <- MCHeaders
    Receipts <- MCReceipts
    Objects = {obj1}
    Tokens = {t1}
    Decisions = {d1, d2}
    NoRef = NoRef
    PackageNA = PackageNA
    Unregistered = Unregistered
    Unused = Unused
    o1 = o1
    o2 = o2
    parentAccount = parentAccount
    parentReceipt = parentReceipt
    closing = closing
    claim = claim
    MaxOrder = 3
INVARIANTS
    TypeOK
    VersionChain
    OrdersContiguous
    OpenedByItsCut
    VersionsHaveTransitions
    VerifyFindsNothing
PROPERTIES
    TokenUsedOnce
    AppendOnly
