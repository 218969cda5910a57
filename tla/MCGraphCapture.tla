--------------------------- MODULE MCGraphCapture ---------------------------
\* Two or three descriptors, of which two may have the same number of tokens
\* (as with LoRA variants of one size).
EXTENDS GraphCapture, TLC

CONSTANTS d1, d2, d3

MCShapes == (d1 :> 1) @@ (d2 :> 2) @@ (d3 :> 2)
=============================================================================
