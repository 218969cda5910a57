SPECIFICATION Spec
CONSTANTS
    gems = gems
    cuda = cuda
    torch = torch
    AnyVendor = AnyVendor
    NoImpl = NoImpl
    NoThread = NoThread
    Impls <- MCImpls
    Kind <- MCKind
    Vendor <- MCVendor
    Priority <- MCPriority
    IdOrder <- MCIdOrder
    Threads = {t1, t2}
    Policies <- MCPolicies
    Builtins = {gems, torch}
    Core = {gems}
    Faulty = {gems}
    Faults = {"missing", "detection", "fork"}
    MaxEpoch = 1
SYMMETRY Symmetry
CONSTRAINT FewEntries
INVARIANTS PolicyRespected NeverGivesUp FailsOncePerThread CachesExact LockReleased
CHECK_DEADLOCK FALSE
