-------------------------- MODULE MCFlagCXTransfer --------------------------
EXTENDS FlagCXBytes, FlagCXHandOff, TLC
CONSTANTS p1, p2, d1, d2, t1, t2
\* The second rank of two feeds the last two of four, and the reverse.
Ranks12 == p1 :> 1 @@ d1 :> 2 @@ d2 :> 3
Ranks21 == p1 :> 2 @@ p2 :> 3 @@ d1 :> 1
Ranks11 == p1 :> 1 @@ d1 :> 1

\* P's blocks 3, 4, 7 against D's blocks 5, 6, 7: one run of two ends where
\* the source breaks, and D has cached the first of P's four.
Request(kernel) == [local |-> <<<<9, 3, 4, 7>>, <<0, 5, 0, 8>>>>,
                    remote |-> <<<<5, 6, 7>>, <<0, 2>>>>,
                    states |-> {2}, kernel |-> kernel]
\* Here the target breaks where the source goes on.
Attention(kernel) == [local |-> <<<<2, 3, 4>>>>, remote |-> <<<<6, 8, 9>>>>,
                      states |-> {}, kernel |-> kernel]
Model(heads, first, stride, req) ==
    [heads |-> heads, stride |-> stride, pOrder |-> <<1, 2>>, dOrder |-> <<2, 1>>,
     layers |-> <<[form |-> first, group |-> 1],
                  [form |-> IF Len(req.remote) = 1 THEN first ELSE "state",
                   group |-> Len(req.remote)]>>,
     req |-> req]
AllCases == {Model(heads, form, 1, Request(kernel)) : heads \in {4, 8},
                form \in {"apart", "packed"}, kernel \in {1, 2}}
            \cup {Model(heads, form, 1, Attention(kernel)) : heads \in {1, 2, 4, 8},
                     form \in {"apart", "packed"}, kernel \in {1, 2}}
            \cup {Model(1, "mla", stride, Attention(kernel)) :
                     stride \in {1, 2}, kernel \in {1, 2}}
Pairs11 == {<<p1, d1>>}
Pairs12 == {<<p1, d1>>, <<p1, d2>>}
Pairs21 == {<<p1, d1>>, <<p2, d1>>}
=============================================================================
