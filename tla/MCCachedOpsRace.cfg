SPECIFICATION Spec
CONSTANTS
    gems = gems
    cuda = cuda
    torch = torch
    AnyVendor = AnyVendor
    NoImpl = NoImpl
    NoPolicy = NoPolicy
    Impls <- MCImpls
    Kind <- MCKind
    Vendor <- MCVendor
    Priority <- MCPriority
    IdOrder <- MCIdOrder
    Threads = {t1, t2}
    Policies <- MCPolicies
    DefaultRank <- MCDefaultRank
    Workloads <- MCWorkloads
    Faulty = {}
    Contexts = FALSE
    Quiet = FALSE
    MaxEpoch = 2
INVARIANTS StaleAtMostOnce
