SPECIFICATION Spec
CONSTANTS
    gems = gems  cuda = cuda  torch = torch
    moe = moe  norm = norm  glm = glm  hy = hy  plain = plain  empty = empty  t1 = t1  t2 = t2

    Impls = {gems, cuda, torch}
    Kind <- MCKind
    Vendor <- MCVendor
    Priority <- MCPriority
    IdOrder <- MCIdOrder
    AnyVendor = AnyVendor
    NoImpl = NoImpl
    Threads = {t1, t2}
    Models = {glm, hy, plain}
    Ops = {moe, norm}
    Op = moe
    Plans = {glm, hy, empty}
    EmptyPlan = empty
    PlanOf <- MCPlanOf
    Defaults <- MCDefaults
    Patches <- MCPatches
    Attrs = {"mhc", "mla", "gemm"}
    Baseline = {"mhc"}
    TempAttr = "gemm"
    ForeignAttrs = {"mla"}
    Envs <- MCEnvs
    Policies <- MCPolicies
    None = None  Pristine = Pristine  Foreign = Foreign
    MaxBuilds = 1
INVARIANTS BatchAtomic PatchesOfThePlan PolicyFollowsPlan ValidatedIsEffective ServedAsRequired LocksOrdered
CHECK_DEADLOCK FALSE
