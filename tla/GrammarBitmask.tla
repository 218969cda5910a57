--------------------------- MODULE GrammarBitmask ---------------------------
(* The token masks of structured requests when one draft token per request *)
(* is verified (_MTPStructuredOutputManager.grammar_bitmask).  A matcher's *)
(* state is the number of tokens it has accepted; the mask it fills stands *)
(* for the tokens it would accept next.                                    *)
EXTENDS Integers, Sequences, FiniteSets

CONSTANTS GrammarLen,  \* tokens after which every matcher is terminated
          FullMask     \* _full_mask: every token is allowed

IsTerminated(accepted) == accepted >= GrammarLen

(* The rows of the i-th request: one for its draft, one for its bonus.     *)
Drafted(ids, draft, n) == Cardinality({k \in 1 .. n : draft[ids[k]] # "none"})
CurrentRow(ids, draft, i) == i + Drafted(ids, draft, i - 1)

(* Mutant: every request has two rows.                                     *)
BonusRowFixed(ids, draft, i) == 2 * i

BonusRow(ids, draft, i) == i + Drafted(ids, draft, i)
CumulativeIndex(ids, draft) == Len(ids) + Drafted(ids, draft, Len(ids))

(* batch_fill of the rows, given which request each row belongs to.        *)
Filled(matcher, r) == IF IsTerminated(matcher[r]) THEN FullMask ELSE <<r, matcher[r]>>
BatchFill(mask, rowOf, matcher) ==
    [k \in DOMAIN mask |-> IF k \in DOMAIN rowOf THEN Filled(matcher, rowOf[k]) ELSE mask[k]]
CurrentRows(ids, draft) ==
    LET K == {i \in DOMAIN ids : draft[ids[i]] # "none"}
    IN [k \in {CurrentRow(ids, draft, i) : i \in K} |->
            ids[CHOOSE i \in K : CurrentRow(ids, draft, i) = k]]
BonusRows(ids, draft) ==
    [k \in {BonusRow(ids, draft, i) : i \in DOMAIN ids} |->
            ids[CHOOSE i \in DOMAIN ids : BonusRow(ids, draft, i) = k]]

(* batch_fill gives up at a matcher the batch filler cannot drive.         *)
Fillable(rowOf, matcher, batchable) ==
    batchable \/ \A k \in DOMAIN rowOf : IsTerminated(matcher[rowOf[k]])

(* accept_tokens on each draft that is a token (not -1), and rollback(1).  *)
Advances(matcher, draft, r) == draft[r] = "token" /\ ~IsTerminated(matcher[r])
Accepted(ids, draft, matcher) == [r \in DOMAIN matcher |->
    IF r \in {ids[i] : i \in DOMAIN ids} /\ Advances(matcher, draft, r)
    THEN matcher[r] + 1 ELSE matcher[r]]
(* Mutant: the fallback forgets to roll back, and so does the end.         *)
NotRolledBack(ids, draft, before, now) == now

RolledBack(ids, draft, before, now) == [r \in DOMAIN now |->
    IF r \in {ids[i] : i \in DOMAIN ids} /\ Advances(before, draft, r)
    THEN now[r] - 1 ELSE now[r]]

(* What the rows are for, request by request: a draft is masked with what   *)
(* its request accepts now, the bonus token with what it accepts after it. *)
BaseMask(ids, draft, matcher) ==
    LET after == Accepted(ids, draft, matcher)
        rows[i \in 0 .. Len(ids)] ==
            IF i = 0 THEN <<>>
            ELSE rows[i - 1]
                 \o (IF draft[ids[i]] = "none" THEN <<>> ELSE <<Filled(matcher, ids[i])>>)
                 \o <<Filled(after, ids[i])>>
    IN rows[Len(ids)]

(* The whole call: [mask, matcher] afterwards.  One request, and a matcher *)
(* that cannot be batched, are left to the base manager.                   *)
GrammarMask(ids, draft, matcher, batchable) ==
    LET empty   == [k \in 1 .. CumulativeIndex(ids, draft) |-> FullMask]
        current == CurrentRows(ids, draft)
        bonus   == BonusRows(ids, draft)
        first   == BatchFill(empty, current, matcher)
        after   == Accepted(ids, draft, matcher)
        base(m) == [mask |-> BaseMask(ids, draft, m), matcher |-> m]
    IN IF Len(ids) <= 1 THEN base(matcher)
       ELSE IF ~Fillable(current, matcher, batchable) THEN base(matcher)
       ELSE IF ~Fillable(bonus, after, batchable)
            THEN base(RolledBack(ids, draft, matcher, after))
       ELSE [mask |-> BatchFill(first, bonus, after),
             matcher |-> RolledBack(ids, draft, matcher, after)]
=============================================================================
