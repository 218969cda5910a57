---------------------------- MODULE MCOpDispatch ----------------------------
\* Three implementations; flagos is the default choice, cuda is registered at
\* run time, torch is the reference.
EXTENDS OpDispatch

CONSTANTS gems, cuda, torch

MCImpls    == {gems, cuda, torch}
MCKind     == (gems :> "flagos") @@ (cuda :> "vendor") @@ (torch :> "reference")
MCVendor   == (cuda :> "cuda")
MCPriority == (gems :> 150) @@ (cuda :> 100) @@ (torch :> 50)
MCIdOrder  == (gems :> 2) @@ (cuda :> 1) @@ (torch :> 3)

MCPolicy(prefer, strict, deny) ==
    [prefer |-> prefer, strict |-> strict, order |-> <<>>, deny |-> deny,
     allow |-> AnyVendor]

\* Fallback along everything, and strict mode without the vendor.
MCPolicies == {MCPolicy("vendor", FALSE, {}), MCPolicy("flagos", TRUE, {"cuda"})}

\* A bound: the two caches together keep at most so many entries.
FewEntries == Cardinality(dispatchCache) + Cardinality(candidatesCache) <= 2

Symmetry == Permutations(Threads)
=============================================================================
