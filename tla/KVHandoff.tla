----------------------------- MODULE KVHandoff -----------------------------
(***************************************************************************)
(* What the FlagCX connector promises of each request: prefill ranks copy  *)
(* its KV blocks to decode ranks only while the prefill engine holds them, *)
(* a decode rank receives the request only when every prefill rank it      *)
(* pulls from has made its copy, and blocks that were freed stay freed.    *)
(***************************************************************************)
CONSTANTS Transfers, PRanks, DRanks, Pairs

VARIABLES stage,    \* of the blocks on P: "none", then "held", then "freed"
          copies,   \* <<p, d, t>>: p has written t's blocks to d
          received  \* <<d, t>>: d has told its engine that t's blocks are there

vars == <<stage, copies, received>>

Init == /\ stage = [t \in Transfers |-> "none"]
        /\ copies = {}
        /\ received = {}

Hold(t) == /\ stage[t] = "none"
           /\ stage' = [stage EXCEPT ![t] = "held"]
           /\ UNCHANGED <<copies, received>>

(* One batch: p writes the blocks of the requests S to d.                  *)
Copy(p, d, S) == /\ <<p, d>> \in Pairs
                 /\ \A t \in S : stage[t] = "held"
                 /\ copies' = copies \cup {<<p, d, t>> : t \in S}
                 /\ UNCHANGED <<stage, received>>

Receive(d, S) == /\ \A t \in S, p \in PRanks : <<p, d>> \in Pairs => <<p, d, t>> \in copies
                 /\ received' = received \cup {<<d, t>> : t \in S}
                 /\ UNCHANGED <<stage, copies>>

(* Every copy has been made, or P gives up on the decode engine.           *)
Free(S) == /\ \A t \in S : stage[t] = "held"
           /\ stage' = [t \in Transfers |-> IF t \in S THEN "freed" ELSE stage[t]]
           /\ UNCHANGED <<copies, received>>

Next == \/ \E t \in Transfers : Hold(t)
        \/ \E p \in PRanks, d \in DRanks, S \in SUBSET Transfers : Copy(p, d, S)
        \/ \E d \in DRanks, S \in SUBSET Transfers : Receive(d, S)
        \/ \E S \in SUBSET Transfers : Free(S)

Spec == Init /\ [][Next]_vars
=============================================================================
