SPECIFICATION RegistrySpec
CONSTANTS
    gems = gems
    cudaA = cudaA
    cudaB = cudaB
    npu = npu
    torch = torch
    AnyVendor = AnyVendor
    NoImpl = NoImpl
    Impls <- MCImpls
    Kind <- MCKind
    Vendor <- MCVendor
    Priority <- MCPriority
    IdOrder <- MCIdOrder
    RegistryPolicies <- MCPolicies
INVARIANTS CandidatesRanked PrimaryAgrees
