--------------------------- MODULE MCModelRunner ---------------------------
\* Two requests of two prompt tokens each under every mode of the engine.
EXTENDS ModelRunner

CONSTANTS a, b

\* Three tokens where drafts are verified, so that a step with drafts follows
\* another; two where the ranks of a pipeline interleave.
MCMaxTokens == [m \in AllModes |-> IF m \in {"sync", "spec", "grammar"} THEN 3 ELSE 2]

Symmetry == Permutations(Reqs)
=============================================================================
