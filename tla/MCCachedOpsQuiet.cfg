SPECIFICATION Spec
CONSTANTS
    gems = gems
    cuda = cuda
    torch = torch
    AnyVendor = AnyVendor
    NoImpl = NoImpl
    NoPolicy = NoPolicy
    Impls <- MCImpls
    Kind <- MCKind
    Vendor <- MCVendor
    Priority <- MCPriority
    IdOrder <- MCIdOrder
    Threads = {t1, t2}
    Policies <- MCPolicies
    DefaultRank <- MCDefaultRank
    Workloads <- MCWorkloads
    Faulty = {gems}
    Contexts = TRUE
    Quiet = TRUE
    MaxEpoch = 2
SYMMETRY Symmetry
INVARIANTS BindingRunsOwnChoice OpRunsOwnChoice NoSecondTry
