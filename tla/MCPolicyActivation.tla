------------------------- MODULE MCPolicyActivation -------------------------
\* A model with a plan, another one and a plain one; an operator with an
\* implementation of every kind; users and platforms that agree with the
\* plan, override it and contradict it.
EXTENDS PolicyActivation
CONSTANTS gems, cuda, torch, moe, norm, glm, hy, plain, empty, t1, t2

flagos == KindToken("flagos")
vendor == KindToken("vendor")
reference == KindToken("reference")

MCKind == (gems :> "flagos") @@ (cuda :> "vendor") @@ (torch :> "reference")
MCVendor == cuda :> "cuda"
MCPriority == (gems :> 150) @@ (cuda :> 100) @@ (torch :> 50)
MCIdOrder == (gems :> 1) @@ (cuda :> 2) @@ (torch :> 3)

MCPlanOf == (glm :> glm) @@ (hy :> hy) @@ (plain :> empty)
MCPatches == (glm :> {"mhc", "mla"}) @@ (hy :> {"mla"}) @@ (empty :> {})
MCDefaults ==
    (glm :> [order |-> (moe :> <<flagos, reference>>),
             required |-> (moe :> {flagos, reference}), whitelist |-> {moe}])
    @@ (hy :> NoDefaults) @@ (empty :> NoDefaults)

MCBase == [prefer |-> "vendor", perOp |-> <<>>, deny |-> {}, allow |-> AnyVendor]
MCSilent == [prefer |-> None, deny |-> None, allow |-> None, perOp |-> <<>>]
MCEnv == [file |-> None, platform |-> None, said |-> MCSilent, whitelist |-> None]
MCPlatform(order) == [MCBase EXCEPT !.perOp = moe :> order]
MCEnvs == {MCEnv,
    [MCEnv EXCEPT !.platform = MCPlatform(<<vendor, flagos>>)],
    [MCEnv EXCEPT !.platform = MCPlatform(<<vendor>>), !.said.perOp = norm :> <<vendor>>],
    [MCEnv EXCEPT !.said.perOp = moe :> <<flagos, vendor>>],
    [MCEnv EXCEPT !.file = [MCBase EXCEPT !.perOp = moe :> <<>>],
                  !.platform = MCPlatform(<<vendor>>)],
    [MCEnv EXCEPT !.said.perOp = moe :> <<reference>>, !.said.prefer = "reference", !.said.deny = {"cuda"},
                  !.whitelist = {moe}],
    [MCEnv EXCEPT !.whitelist = {norm}]}
MCPolicies == {[MCBase EXCEPT !.perOp = moe :> <<flagos>>],
               [MCBase EXCEPT !.perOp = moe :> <<vendor>>]}
=============================================================================
