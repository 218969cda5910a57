---------------------------- MODULE MCCachedOps ----------------------------
\* Three implementations, and policies that choose differently among them.
EXTENDS CachedOps

CONSTANTS gems, cuda, torch

MCImpls    == {gems, cuda, torch}
MCKind     == (gems :> "flagos") @@ (cuda :> "vendor") @@ (torch :> "reference")
MCVendor   == (cuda :> "cuda")
MCPriority == (gems :> 150) @@ (cuda :> 100) @@ (torch :> 50)
MCIdOrder  == (gems :> 2) @@ (cuda :> 1) @@ (torch :> 3)

\* As the adapter of a vendor's kernel has it, with torch left out.
MCDefaultRank == (cuda :> 0) @@ (gems :> 1) @@ (torch :> 2)

\* A shape every implementation takes, and one the vendor's kernel does not.
MCWorkloads == {MCImpls, MCImpls \ {cuda}}

\* The default policy, and a strict one that denies the vendor and names an
\* order for the operator that is neither its default nor the adapter's.
MCPolicies == {[prefer |-> "flagos", strict |-> FALSE, order |-> <<>>,
                explicit |-> FALSE, deny |-> {}, allow |-> AnyVendor],
               [prefer |-> "flagos", strict |-> TRUE,
                order |-> <<KindToken("reference"), KindToken("flagos")>>,
                explicit |-> TRUE, deny |-> {"cuda"}, allow |-> AnyVendor]}

Symmetry == Permutations(Threads)
=============================================================================
