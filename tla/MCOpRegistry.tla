---------------------------- MODULE MCOpRegistry ----------------------------
\* Five implementations, two of one vendor and two of one priority,
\* and policies with every preference, filters and per-operator orders.
EXTENDS OpRegistry

CONSTANTS gems, cudaA, cudaB, npu, torch

MCImpls    == {gems, cudaA, cudaB, npu, torch}
MCKind     == (gems :> "flagos") @@ (cudaA :> "vendor")
              @@ (cudaB :> "vendor") @@ (npu :> "vendor") @@ (torch :> "reference")
MCVendor   == (cudaA :> "cuda") @@ (cudaB :> "cuda") @@ (npu :> "ascend")
MCPriority == (gems :> 150) @@ (cudaA :> 100) @@ (cudaB :> 120)
              @@ (npu :> 100) @@ (torch :> 50)
MCIdOrder  == (gems :> 1) @@ (cudaA :> 4) @@ (cudaB :> 3)
              @@ (npu :> 5) @@ (torch :> 6)

MCOrders == {<<>>,
             <<KindToken("vendor"), KindToken("reference")>>,
             <<[type |-> "vendor", name |-> "cuda"], KindToken("vendor")>>,
             <<[type |-> "impl", name |-> cudaA], [type |-> "impl", name |-> torch],
               KindToken("vendor")>>,
             <<[type |-> "unknown", name |-> "fastest"]>>}

MCPolicies == [prefer : Kinds, order : {<<>>},
               deny : {{}, {"ascend"}}, allow : {AnyVendor, {"cuda"}}]
              \cup [prefer : {"vendor"}, order : MCOrders,
                    deny : {{}, {"cuda"}}, allow : {AnyVendor}]
=============================================================================
