------------------------- MODULE ModelRunnerProofs --------------------------
(***************************************************************************)
(* Proofs about the model runners of an engine and the grammar masks of    *)
(* its scheduler, for any requests, prompts and limits and in every mode:  *)
(* first the types and the masks (MaskInv), then where each step continues *)
(* and that no token is lost or counted twice (LineInv).                   *)
(***************************************************************************)
EXTENDS ModelRunner, FiniteSetTheorems, SequenceTheorems, NaturalsInduction, TLAPS

(* Induction over the natural numbers, for a set.                          *)
LEMMA NatSteps ==
    ASSUME NEW S, 0 \in S, \A n \in Nat : n \in S => n + 1 \in S
    PROVE  Nat \subseteq S
<1> DEFINE T == Nat \ S
<1>1. SUFFICES ASSUME T # {} PROVE FALSE
  OBVIOUS
<1>2. PICK n \in T : \A m \in T : <<m, n>> \notin OpToRel(<, Nat)
  <2>1. T \subseteq Nat
    OBVIOUS
  <2>2. \E n \in T : \A m \in T : ~(<<m, n>> \in OpToRel(<, Nat))
    BY <1>1, <2>1, NatLessThanWellFounded, WFMin
  <2> QED BY <2>2
<1>3. n \in Nat /\ n # 0 /\ n - 1 \in Nat /\ n - 1 < n
  OBVIOUS
<1>4. n - 1 \notin T
  BY <1>2, <1>3 DEF OpToRel
<1> QED BY <1>3, <1>4

-----------------------------------------------------------------------------
(* The fields of a runner after each update.                               *)

\* Types of the runner, as far as they are needed.
IsWorkerReq(x) == /\ x = [out |-> x.out, computed |-> x.computed, drafts |-> x.drafts]
                  /\ x.out \in Seq(Int) /\ x.drafts \in Nat

WorkerRec(w) == /\ w = [reqs |-> w.reqs, rows |-> w.rows, order |-> w.order, prev |-> w.prev]
                /\ \A r \in DOMAIN w.reqs : IsWorkerReq(w.reqs[r])

LEMMA OneMore ==
    ASSUME NEW f, NEW m \in Nat
    PROVE  [k \in 1 .. m |-> f[k]] \o <<f[m + 1]>> = [k \in 1 .. m + 1 |-> f[k]]
<1> DEFINE T == {f[k] : k \in Nat}
           s == [k \in 1 .. m |-> f[k]]
           t == [k \in 1 .. m + 1 |-> f[k]]
<1>1. s \in Seq(T) /\ Len(s) = m
  <2>1. s \in [1 .. m -> T]
    OBVIOUS
  <2> QED BY <2>1
<1>2. t \in Seq(T) /\ Len(t) = m + 1
  <2>1. t \in [1 .. m + 1 -> T]
    OBVIOUS
  <2> QED BY <2>1
<1>3. <<f[m + 1]>> \in Seq(T) /\ Len(<<f[m + 1]>>) = 1
  OBVIOUS
<1>4. /\ s \o <<f[m + 1]>> \in Seq(T) /\ Len(s \o <<f[m + 1]>>) = m + 1
      /\ \A k \in 1 .. m + 1 : (s \o <<f[m + 1]>>)[k] =
                                  IF k <= m THEN s[k] ELSE <<f[m + 1]>>[k - m]
  BY <1>1, <1>3, ConcatProperties
<1>5. \A k \in 1 .. m + 1 : (s \o <<f[m + 1]>>)[k] = t[k]
  BY <1>4
<1> HIDE DEF s, t
<1> QED BY <1>2, <1>4, <1>5, SeqEqual DEF s, t

LEMMA CorrectedFields ==
    ASSUME NEW x, NEW w, NEW so, NEW async,
           x = [reqs |-> x.reqs, rows |-> x.rows, order |-> x.order, prev |-> x.prev],
           \A r \in DOMAIN x.reqs : IsWorkerReq(x.reqs[r])
    PROVE  LET y == Corrected(x, w, so, async)
           IN  /\ y = [reqs |-> y.reqs, rows |-> y.rows, order |-> y.order, prev |-> y.prev]
               /\ y.rows = x.rows /\ y.order = x.order /\ y.prev = x.prev
               /\ DOMAIN y.reqs = DOMAIN x.reqs
               /\ \A r \in DOMAIN x.reqs :
                     /\ IsWorkerReq(y.reqs[r])
                     /\ y.reqs[r].out = x.reqs[r].out /\ y.reqs[r].drafts = x.reqs[r].drafts
<1> DEFINE y == Corrected(x, w, so, async)
           less(r) == [x.reqs[r] EXCEPT !.computed = @ - Correction(w, so, r, async)]
           reqs == [r \in DOMAIN x.reqs |->
                      IF r \in Scheduled(so) THEN less(r) ELSE x.reqs[r]]
<1>1. y = [x EXCEPT !.reqs = reqs]
  BY DEF Corrected
<1>2. ASSUME NEW r \in DOMAIN x.reqs
      PROVE  /\ IsWorkerReq(reqs[r])
             /\ reqs[r].out = x.reqs[r].out /\ reqs[r].drafts = x.reqs[r].drafts
  <2> DEFINE a == x.reqs[r]
             b == reqs[r]
             c == x.reqs[r].computed - Correction(w, so, r, async)
  <2>1. IsWorkerReq(a)
    OBVIOUS
  <2>2. b = a \/ b = [a EXCEPT !.computed = c]
    OBVIOUS
  <2> HIDE DEF a, b, c
  <2>3. b = [out |-> b.out, computed |-> b.computed, drafts |-> b.drafts]
    BY <2>1, <2>2 DEF IsWorkerReq
  <2>4. b.out = a.out /\ b.drafts = a.drafts
    BY <2>1, <2>2 DEF IsWorkerReq
  <2>5. IsWorkerReq(b)
    BY <2>1, <2>3, <2>4 DEF IsWorkerReq
  <2> QED BY <2>4, <2>5 DEF a, b
<1>3. DOMAIN reqs = DOMAIN x.reqs
  OBVIOUS
<1> HIDE DEF y, reqs
<1>4. y = [reqs |-> y.reqs, rows |-> y.rows, order |-> y.order, prev |-> y.prev]
  BY <1>1
<1>5. y.reqs = reqs /\ y.rows = x.rows /\ y.order = x.order /\ y.prev = x.prev
  BY <1>1
<1>6. \A r \in DOMAIN x.reqs :
         /\ IsWorkerReq(y.reqs[r])
         /\ y.reqs[r].out = x.reqs[r].out /\ y.reqs[r].drafts = x.reqs[r].drafts
  BY <1>2, <1>5
<1> QED BY <1>3, <1>4, <1>5, <1>6 DEF y

LEMMA PrefixLength ==
    ASSUME NEW s \in Seq(Int), NEW n \in Nat, n <= Len(s)
    PROVE  SubSeq(s, 1, n) \in Seq(Int) /\ Len(SubSeq(s, 1, n)) = n
<1>0. Len(s) \in Nat
  BY LenProperties
<1>1. \A i \in 1 .. n : i \in 1 .. Len(s)
  BY <1>0
<1>2. \A i \in 1 .. n : s[i] \in Int
  BY <1>1, ElementOfSeq
<1>3. /\ SubSeq(s, 1, n) \in Seq(Int)
      /\ Len(SubSeq(s, 1, n)) = IF 1 <= n THEN n - 1 + 1 ELSE 0
  BY <1>2, SubSeqProperties
<1> QED BY <1>3

LEMMA HolesLength ==
    ASSUME NEW n \in Nat
    PROVE  Holes(n) \in Seq(Int) /\ Len(Holes(n)) = n
<1>1. Holes(n) \in [1 .. n -> Int]
  BY DEF Holes, Hole
<1> QED BY <1>1

LEMMA RecoveredLength ==
    ASSUME NEW q, q.outputs \in Nat, q.known = q.outputs, PromptLen \in Nat \ {0}
    PROVE  Recovered(q) \in Seq(Int) /\ Len(Recovered(q)) = q.outputs
<1> DEFINE n == PromptLen + q.known
           m == q.outputs
           s == [p \in 1 .. n |-> p - 1]
<1>1. n \in Nat /\ m \in Nat /\ m < n
  OBVIOUS
<1>2. Recovered(q) = LastN(s, m)
  BY DEF Recovered
<1> HIDE DEF n, m
<1>3. s \in Seq(Int) /\ Len(s) = n
  <2>1. s \in [1 .. n -> Int]
    BY <1>1
  <2> QED BY <1>1, <2>1
<1> HIDE DEF s
<1>4. LastN(s, m) = SubSeq(s, n - m + 1, n)
  BY <1>1, <1>3 DEF LastN
<1>5. \A i \in n - m + 1 .. n : i \in 1 .. Len(s)
  BY <1>1, <1>3
<1>6. \A i \in n - m + 1 .. n : s[i] \in Int
  BY <1>3, <1>5, ElementOfSeq
<1>7. /\ SubSeq(s, n - m + 1, n) \in Seq(Int)
      /\ Len(SubSeq(s, n - m + 1, n)) =
            IF n - m + 1 <= n THEN n - (n - m + 1) + 1 ELSE 0
  <2>1. n - m + 1 \in Int /\ n \in Int
    BY <1>1
  <2> QED BY <1>6, <2>1, SubSeqProperties
<1>8. Len(SubSeq(s, n - m + 1, n)) = m
  BY <1>1, <1>7
<1> QED BY <1>2, <1>4, <1>7, <1>8 DEF m

LEMMA AddedTokens ==
    ASSUME NEW x, IsWorkerReq(x), NEW t \in Seq(Int)
    PROVE  LET y == [x EXCEPT !.out = @ \o t]
           IN  /\ IsWorkerReq(y) /\ y.drafts = x.drafts
               /\ y.out = x.out \o t /\ Len(y.out) = Len(x.out) + Len(t)
<1> DEFINE s == x.out \o t
           y == [x EXCEPT !.out = s]
<1>1. s \in Seq(Int) /\ Len(s) = Len(x.out) + Len(t)
  BY ConcatProperties DEF IsWorkerReq
<1> HIDE DEF s
<1>2. y = [out |-> s, computed |-> x.computed, drafts |-> x.drafts]
  <2>1. x = [out |-> x.out, computed |-> x.computed, drafts |-> x.drafts]
    BY DEF IsWorkerReq
  <2> QED BY <2>1
<1>3. y.out = s /\ y.drafts = x.drafts /\ x.drafts \in Nat
  BY <1>2 DEF IsWorkerReq
<1>4. IsWorkerReq(y)
  BY <1>1, <1>2, <1>3 DEF IsWorkerReq
<1> QED BY <1>1, <1>3, <1>4 DEF s

(* y is w once the tokens are cached.                                      *)
CachedTo(y, w, tokens) ==
    /\ WorkerRec(y) /\ y.order = w.order /\ y.prev = w.prev
    /\ DOMAIN y.reqs = DOMAIN w.reqs /\ DOMAIN y.rows = DOMAIN w.rows
    /\ \A r \in DOMAIN w.reqs :
          /\ y.reqs[r].drafts = w.reqs[r].drafts
          /\ Len(y.reqs[r].out) = Len(w.reqs[r].out)
                + (IF r \in DOMAIN tokens THEN Len(tokens[r]) ELSE 0)
          /\ y.reqs[r].out = IF r \in DOMAIN tokens THEN w.reqs[r].out \o tokens[r]
                                                   ELSE w.reqs[r].out
    /\ y.rows = [r \in DOMAIN w.rows |-> IF r \in DOMAIN tokens THEN w.rows[r] \o tokens[r]
                                                                ELSE w.rows[r]]

LEMMA CachedFields ==
    ASSUME NEW w, WorkerRec(w), NEW tokens, \A r \in DOMAIN tokens : tokens[r] \in Seq(Int)
    PROVE  CachedTo(Cached(w, tokens), w, tokens)
<1> DEFINE y == Cached(w, tokens)
           more(r) == [w.reqs[r] EXCEPT !.out = @ \o tokens[r]]
           reqs == [r \in DOMAIN w.reqs |-> IF r \in DOMAIN tokens THEN more(r) ELSE w.reqs[r]]
           rows == [r \in DOMAIN w.rows |-> IF r \in DOMAIN tokens THEN w.rows[r] \o tokens[r]
                                                                 ELSE w.rows[r]]
<1>1. y = [w EXCEPT !.reqs = reqs, !.rows = rows]
  BY DEF Cached
<1>2. ASSUME NEW r \in DOMAIN w.reqs
      PROVE  /\ IsWorkerReq(reqs[r]) /\ reqs[r].drafts = w.reqs[r].drafts
             /\ Len(reqs[r].out) = Len(w.reqs[r].out)
                   + (IF r \in DOMAIN tokens THEN Len(tokens[r]) ELSE 0)
             /\ reqs[r].out = IF r \in DOMAIN tokens THEN w.reqs[r].out \o tokens[r]
                                                     ELSE w.reqs[r].out
  <2>1. IsWorkerReq(w.reqs[r])
    BY DEF WorkerRec
  <2>2. CASE r \in DOMAIN tokens
    <3> DEFINE x == w.reqs[r]
               t == tokens[r]
               z == [x EXCEPT !.out = @ \o t]
    <3>1. reqs[r] = z
      BY <2>2
    <3>2. t \in Seq(Int)
      BY <2>2
    <3> HIDE DEF reqs
    <3>3. /\ IsWorkerReq(z) /\ z.drafts = x.drafts /\ Len(z.out) = Len(x.out) + Len(t)
          /\ z.out = x.out \o t
      <4> HIDE DEF x, t
      <4> QED BY <2>1, <3>2, AddedTokens DEF x
    <3> HIDE DEF z
    <3> QED BY <2>2, <3>1, <3>3
  <2>3. CASE r \notin DOMAIN tokens
    <3>1. reqs[r] = w.reqs[r]
      BY <2>3
    <3>2. Len(w.reqs[r].out) \in Nat
      BY <2>1, LenProperties DEF IsWorkerReq
    <3> HIDE DEF reqs
    <3> QED BY <2>1, <2>3, <3>1, <3>2
  <2> QED BY <2>2, <2>3
<1>3. DOMAIN reqs = DOMAIN w.reqs /\ DOMAIN rows = DOMAIN w.rows
  OBVIOUS
<1>30. rows = [r \in DOMAIN w.rows |-> IF r \in DOMAIN tokens THEN w.rows[r] \o tokens[r]
                                                             ELSE w.rows[r]]
  OBVIOUS
<1> HIDE DEF y, reqs, rows
<1>4. /\ y = [reqs |-> y.reqs, rows |-> y.rows, order |-> y.order, prev |-> y.prev]
      /\ y.reqs = reqs /\ y.rows = rows /\ y.order = w.order /\ y.prev = w.prev
  <2>1. w = [reqs |-> w.reqs, rows |-> w.rows, order |-> w.order, prev |-> w.prev]
    BY DEF WorkerRec
  <2>2. y = [reqs |-> y.reqs, rows |-> y.rows, order |-> y.order, prev |-> y.prev]
    BY <1>1, <2>1
  <2>3. y.reqs = reqs /\ y.rows = rows /\ y.order = w.order /\ y.prev = w.prev
    BY <1>1, <2>1
  <2> QED BY <2>2, <2>3
<1>5. WorkerRec(y)
  BY <1>2, <1>3, <1>4 DEF WorkerRec
<1>6. CachedTo(y, w, tokens)
  BY <1>2, <1>3, <1>30, <1>4, <1>5 DEF CachedTo
<1> QED BY <1>6 DEF y

LEMMA RememberedFields ==
    ASSUME NEW w, WorkerRec(w), NEW discard, NEW tokens, NEW valid
    PROVE  LET y == Remember(w, discard, tokens, valid)
           IN  /\ WorkerRec(y)
               /\ y.reqs = w.reqs /\ y.rows = w.rows /\ y.order = w.order
               /\ y.prev.index = IndexOf(w, discard) /\ y.prev.valid = valid
               /\ y.prev.sampled = tokens
<1> DEFINE y == Remember(w, discard, tokens, valid)
           prev == [index |-> IndexOf(w, discard), sampled |-> tokens, valid |-> valid]
<1>1. y = [w EXCEPT !.prev = prev]
  BY DEF Remember
<1>2. prev.index = IndexOf(w, discard) /\ prev.valid = valid /\ prev.sampled = tokens
  OBVIOUS
<1>3. w = [reqs |-> w.reqs, rows |-> w.rows, order |-> w.order, prev |-> w.prev]
  BY DEF WorkerRec
<1> HIDE DEF y, prev
<1>4. y = [reqs |-> y.reqs, rows |-> y.rows, order |-> y.order, prev |-> y.prev]
  BY <1>1, <1>3
<1>5. y.reqs = w.reqs /\ y.rows = w.rows /\ y.order = w.order /\ y.prev = prev
  BY <1>1, <1>3
<1>6. WorkerRec(y)
  BY <1>4, <1>5 DEF WorkerRec
<1> QED BY <1>2, <1>5, <1>6 DEF y

-----------------------------------------------------------------------------
(* The rows of the grammar mask.                                           *)

(* The instance's Cardinality is the one of FiniteSets.                    *)
LEMMA SameCardinality == \A S : G!Cardinality(S) = Cardinality(S)
BY DEF G!Cardinality, Cardinality

LEMMA DraftedStep ==
    ASSUME NEW ids, NEW draft, NEW n \in Nat
    PROVE  /\ G!Drafted(ids, draft, 0) = 0
           /\ G!Drafted(ids, draft, n) \in Nat
           /\ draft[ids[n + 1]] # "none" =>
                G!Drafted(ids, draft, n + 1) = G!Drafted(ids, draft, n) + 1
           /\ draft[ids[n + 1]] = "none" =>
                G!Drafted(ids, draft, n + 1) = G!Drafted(ids, draft, n)
<1> DEFINE D(m) == {k \in 1 .. m : draft[ids[k]] # "none"}
<1>1. D(0) = {}
  OBVIOUS
<1>2. IsFiniteSet(D(n)) /\ Cardinality(D(n)) \in Nat
  <2>1. IsFiniteSet(1 .. n)
    BY FS_Interval
  <2> QED BY <2>1, FS_Subset, FS_CardinalityType
<1>3. CASE draft[ids[n + 1]] # "none"
  <2>1. D(n + 1) = D(n) \cup {n + 1} /\ n + 1 \notin D(n)
    BY <1>3
  <2>2. Cardinality(D(n + 1)) = Cardinality(D(n)) + 1
    BY <2>1, <1>2, FS_AddElement
  <2> QED BY <1>1, <1>2, <1>3, <2>2, FS_EmptySet, SameCardinality DEF G!Drafted
<1>4. CASE draft[ids[n + 1]] = "none"
  <2>1. D(n + 1) = D(n)
    BY <1>4
  <2> QED BY <1>1, <1>2, <1>4, <2>1, FS_EmptySet, SameCardinality DEF G!Drafted
<1> QED BY <1>3, <1>4

LEMMA DraftedGrows ==
    ASSUME NEW ids, NEW draft, NEW m \in Nat, NEW n \in Nat, m <= n
    PROVE  G!Drafted(ids, draft, m) <= G!Drafted(ids, draft, n)
<1> DEFINE D(k) == {l \in 1 .. k : draft[ids[l]] # "none"}
<1>1. D(m) \subseteq D(n) /\ D(n) \subseteq 1 .. n
  OBVIOUS
<1>2. IsFiniteSet(1 .. n)
  BY FS_Interval
<1>3. IsFiniteSet(D(n))
  BY <1>1, <1>2, FS_Subset
<1>4. Cardinality(D(m)) <= Cardinality(D(n))
  BY <1>1, <1>3, FS_Subset
<1> QED BY <1>4, SameCardinality DEF G!Drafted

(* No two rows of the mask have the same number.                           *)
LEMMA RowsDistinct ==
    ASSUME NEW ids, NEW draft, NEW i \in Nat \ {0}, NEW j \in Nat \ {0}
    PROVE  /\ G!CurrentRow(ids, draft, i) \in Nat /\ G!BonusRow(ids, draft, i) \in Nat
           /\ G!BonusRow(ids, draft, i) = G!BonusRow(ids, draft, j) => i = j
           /\ G!CurrentRow(ids, draft, i) = G!CurrentRow(ids, draft, j) => i = j
           /\ draft[ids[i]] # "none" =>
                G!CurrentRow(ids, draft, i) # G!BonusRow(ids, draft, j)
<1> DEFINE D(k) == G!Drafted(ids, draft, k)
<1>1. i - 1 \in Nat /\ j - 1 \in Nat /\ (i - 1) + 1 = i /\ (j - 1) + 1 = j
  OBVIOUS
<1>2. D(i) \in Nat /\ D(j) \in Nat /\ D(i - 1) \in Nat /\ D(j - 1) \in Nat
  BY <1>1, DraftedStep
<1>3. draft[ids[i]] # "none" => D(i) = D(i - 1) + 1
  BY <1>1, DraftedStep
<1>4. /\ i < j => D(i) <= D(j - 1) /\ D(i) <= D(j) /\ D(i - 1) <= D(j - 1)
      /\ j < i => D(j) <= D(i - 1) /\ D(j) <= D(i) /\ D(j - 1) <= D(i - 1)
  BY <1>1, DraftedGrows
<1> HIDE DEF D
<1>5. /\ i + D(i) = j + D(j) => i = j
      /\ i + D(i - 1) = j + D(j - 1) => i = j
      /\ draft[ids[i]] # "none" => i + D(i - 1) # j + D(j)
  BY <1>2, <1>3, <1>4
<1>6. i + D(i - 1) \in Nat /\ i + D(i) \in Nat
  BY <1>2
<1> QED BY <1>5, <1>6 DEF D, G!CurrentRow, G!BonusRow

(* The request a row belongs to.                                           *)
LEMMA RowOwner ==
    ASSUME NEW ids, DOMAIN ids \subseteq Nat \ {0}, NEW draft, NEW i \in DOMAIN ids
    PROVE  /\ G!BonusRow(ids, draft, i) \in DOMAIN G!BonusRows(ids, draft)
           /\ G!BonusRows(ids, draft)[G!BonusRow(ids, draft, i)] = ids[i]
           /\ draft[ids[i]] # "none" =>
                /\ G!CurrentRow(ids, draft, i) \in DOMAIN G!CurrentRows(ids, draft)
                /\ G!CurrentRow(ids, draft, i) \notin DOMAIN G!BonusRows(ids, draft)
                /\ G!CurrentRows(ids, draft)[G!CurrentRow(ids, draft, i)] = ids[i]
<1> DEFINE K == {j \in DOMAIN ids : draft[ids[j]] # "none"}
           B(j) == G!BonusRow(ids, draft, j)
           C(j) == G!CurrentRow(ids, draft, j)
<1>1. /\ \A j \in DOMAIN ids : B(j) = B(i) => j = i
      /\ \A j \in K : C(j) = C(i) => j = i
      /\ i \in K => \A j \in DOMAIN ids : B(j) # C(i)
  BY RowsDistinct
<1> HIDE DEF B, C
<1>2. (CHOOSE j \in DOMAIN ids : B(j) = B(i)) = i
  BY <1>1
<1>3. i \in K => (CHOOSE j \in K : C(j) = C(i)) = i
  BY <1>1
<1>4. /\ B(i) \in {B(j) : j \in DOMAIN ids}
      /\ i \in K => C(i) \in {C(j) : j \in K} /\ C(i) \notin {B(j) : j \in DOMAIN ids}
  BY <1>1
<1>5. DOMAIN G!BonusRows(ids, draft) = {B(j) : j \in DOMAIN ids}
  BY DEF G!BonusRows, B
<1>6. DOMAIN G!CurrentRows(ids, draft) = {C(j) : j \in K}
  BY DEF G!CurrentRows, C
<1>7. G!BonusRows(ids, draft)[B(i)] = ids[i]
  BY <1>2, <1>4 DEF G!BonusRows, B
<1>8. i \in K => G!CurrentRows(ids, draft)[C(i)] = ids[i]
  BY <1>3, <1>4 DEF G!CurrentRows, C
<1> QED BY <1>4, <1>5, <1>6, <1>7, <1>8 DEF B, C

(* What BaseMask writes request by request, up to the n-th one.            *)
Rows(ids, draft, matcher) ==
    LET after == G!Accepted(ids, draft, matcher)
        rows[i \in 0 .. Len(ids)] ==
            IF i = 0 THEN <<>>
            ELSE rows[i - 1]
                 \o (IF draft[ids[i]] = "none" THEN <<>> ELSE <<G!Filled(matcher, ids[i])>>)
                 \o <<G!Filled(after, ids[i])>>
    IN rows

RowsOf(ids, draft, matcher, i, before) ==
    before \o (IF draft[ids[i]] = "none" THEN <<>> ELSE <<G!Filled(matcher, ids[i])>>)
           \o <<G!Filled(G!Accepted(ids, draft, matcher), ids[i])>>

LEMMA RowsExist ==
    ASSUME NEW ids, NEW draft, NEW matcher, Len(ids) \in Nat
    PROVE  Rows(ids, draft, matcher) =
             [i \in 0 .. Len(ids) |->
                IF i = 0 THEN <<>>
                ELSE RowsOf(ids, draft, matcher, i, Rows(ids, draft, matcher)[i - 1])]
<1> DEFINE next(i, before) == RowsOf(ids, draft, matcher, i, before)
           is(f, n) == f = [i \in 0 .. n |-> IF i = 0 THEN <<>> ELSE next(i, f[i - 1])]
           S == {n \in Nat : \E f : is(f, n)}
<1> HIDE DEF next
<1>1. 0 \in S
  <2>1. is([i \in {0} |-> <<>>], 0)
    OBVIOUS
  <2> QED BY <2>1
<1>2. \A n \in Nat : n \in S => n + 1 \in S
  <2> SUFFICES ASSUME NEW n \in Nat, n \in S PROVE n + 1 \in S
    OBVIOUS
  <2>1. PICK f : is(f, n)
    OBVIOUS
  <2> DEFINE g == [i \in 0 .. n + 1 |-> IF i = n + 1 THEN next(n + 1, f[n]) ELSE f[i]]
  <2>2. \A i \in 0 .. n : g[i] = f[i]
    OBVIOUS
  <2>3. \A i \in 0 .. n : f[i] = IF i = 0 THEN <<>> ELSE next(i, f[i - 1])
    BY <2>1
  <2>4. ASSUME NEW i \in 0 .. n + 1
        PROVE  g[i] = IF i = 0 THEN <<>> ELSE next(i, g[i - 1])
    <3>1. CASE i = n + 1
      <4>1. i # 0 /\ i - 1 = n /\ n \in 0 .. n /\ i \in 0 .. n + 1
        BY <3>1
      <4>2. g[i] = next(n + 1, f[n])
        BY <3>1
      <4> QED BY <3>1, <4>1, <4>2, <2>2
    <3>2. CASE i \in 1 .. n
      <4>1. i # 0 /\ i - 1 \in 0 .. n /\ i \in 0 .. n
        BY <3>2
      <4> HIDE DEF g
      <4> QED BY <4>1, <2>2, <2>3
    <3>3. CASE i = 0
      <4>1. i \in 0 .. n
        BY <3>3
      <4> HIDE DEF g
      <4> QED BY <4>1, <3>3, <2>2, <2>3
    <3> QED BY <3>1, <3>2, <3>3
  <2>5. g = [i \in 0 .. n + 1 |-> g[i]]
    OBVIOUS
  <2>6. is(g, n + 1)
    <3> HIDE DEF g
    <3> QED BY <2>4, <2>5
  <2> HIDE DEF g
  <2> QED BY <2>6
<1>3. Len(ids) \in S
  <2> HIDE DEF S
  <2> QED BY <1>1, <1>2, NatSteps
<1>4. PICK f : is(f, Len(ids))
  BY <1>3
<1>5. Rows(ids, draft, matcher) = CHOOSE g : is(g, Len(ids))
  BY DEF Rows, next, RowsOf
<1>6. is(Rows(ids, draft, matcher), Len(ids))
  <2> HIDE DEF is
  <2> QED BY <1>4, <1>5
<1> QED BY <1>6 DEF next

(* The k-th row after both calls of batch_fill.                            *)
FilledRow(ids, draft, matcher, k) ==
    LET current == G!CurrentRows(ids, draft)
        bonus   == G!BonusRows(ids, draft)
    IN CASE k \in DOMAIN bonus -> G!Filled(G!Accepted(ids, draft, matcher), bonus[k])
         [] k \notin DOMAIN bonus /\ k \in DOMAIN current -> G!Filled(matcher, current[k])
         [] k \notin DOMAIN bonus /\ k \notin DOMAIN current -> FullMask

(* The rows written request by request are those written by number.        *)
LEMMA RowsByNumber ==
    ASSUME NEW ids, NEW draft, NEW matcher, Len(ids) \in Nat, DOMAIN ids = 1 .. Len(ids)
    PROVE  G!BaseMask(ids, draft, matcher) =
             [k \in 1 .. G!CumulativeIndex(ids, draft) |-> FilledRow(ids, draft, matcher, k)]
<1> DEFINE rows == Rows(ids, draft, matcher)
           row(k) == FilledRow(ids, draft, matcher, k)
           D(n) == G!Drafted(ids, draft, n)
           all(n) == [k \in 1 .. n + D(n) |-> row(k)]
           S == {n \in Nat : n <= Len(ids) => rows[n] = all(n)}
<1>0. \A n \in Nat : D(n) \in Nat
  BY DraftedStep
<1>1. 0 \in S
  <2>1. rows[0] = <<>>
    BY RowsExist
  <2>2. D(0) = 0
    BY DraftedStep
  <2>3. all(0) = <<>>
    <3> HIDE DEF D, row
    <3> QED BY <2>2
  <2> QED BY <2>1, <2>3
<1>2. ASSUME NEW n \in Nat, n \in S PROVE n + 1 \in S
  <2>1. SUFFICES ASSUME n + 1 <= Len(ids) PROVE rows[n + 1] = all(n + 1)
    OBVIOUS
  <2> DEFINE i == n + 1
  <2>2. i \in DOMAIN ids /\ i \in 0 .. Len(ids) /\ i # 0 /\ i - 1 = n /\ n <= Len(ids)
    BY <2>1
  <2>3. rows[i] = RowsOf(ids, draft, matcher, i, rows[n])
    BY <2>2, RowsExist
  <2>4. rows[n] = all(n)
    BY <2>2, <1>2
  <2>5. DOMAIN ids \subseteq Nat \ {0}
    OBVIOUS
  <2>6. row(i + D(i)) = G!Filled(G!Accepted(ids, draft, matcher), ids[i])
    BY <2>2, <2>5, RowOwner DEF FilledRow, G!BonusRow
  <2>7. draft[ids[i]] # "none" => row(i + D(n)) = G!Filled(matcher, ids[i])
    BY <2>2, <2>5, RowOwner DEF FilledRow, G!CurrentRow
  <2> HIDE DEF row, rows
  <2>8. CASE draft[ids[i]] # "none"
    <3>1. D(i) = D(n) + 1
      BY <2>8, DraftedStep
    <3>2. RowsOf(ids, draft, matcher, i, rows[n]) =
             all(n) \o <<row(i + D(n))>> \o <<row(i + D(i))>>
      BY <2>4, <2>6, <2>7, <2>8 DEF RowsOf
    <3> DEFINE f == [k \in Nat |-> row(k)]
               m == n + D(n)
    <3>0. D(n) \in Nat
      BY <1>0
    <3>4. m \in Nat /\ i + D(n) = m + 1 /\ i + D(i) = m + 2
      <4> HIDE DEF D
      <4> QED BY <3>0, <3>1
    <3>5. all(n) = [k \in 1 .. m |-> f[k]] /\ all(i) = [k \in 1 .. m + 2 |-> f[k]]
      BY <3>4
    <3>6. f[m + 1] = row(i + D(n)) /\ f[m + 2] = row(i + D(i))
      BY <3>4
    <3> HIDE DEF f, m, all
    <3>7. [k \in 1 .. m |-> f[k]] \o <<f[m + 1]>> = [k \in 1 .. m + 1 |-> f[k]]
      BY <3>4, OneMore
    <3>8. [k \in 1 .. m + 1 |-> f[k]] \o <<f[m + 2]>> = [k \in 1 .. m + 2 |-> f[k]]
      <4>1. m + 1 \in Nat /\ (m + 1) + 1 = m + 2
        BY <3>4
      <4> QED BY <4>1, OneMore
    <3>3. all(n) \o <<row(i + D(n))>> \o <<row(i + D(i))>> = all(i)
      BY <3>5, <3>6, <3>7, <3>8
    <3> QED BY <2>3, <3>2, <3>3
  <2>9. CASE draft[ids[i]] = "none"
    <3>1. D(i) = D(n)
      BY <2>9, DraftedStep
    <3>2. RowsOf(ids, draft, matcher, i, rows[n]) = all(n) \o <<>> \o <<row(i + D(i))>>
      BY <2>4, <2>6, <2>9 DEF RowsOf
    <3> DEFINE f == [k \in Nat |-> row(k)]
               m == n + D(n)
    <3>0. D(n) \in Nat
      BY <1>0
    <3>4. m \in Nat /\ i + D(i) = m + 1
      <4> HIDE DEF D
      <4> QED BY <3>0, <3>1
    <3>5. all(n) = [k \in 1 .. m |-> f[k]] /\ all(i) = [k \in 1 .. m + 1 |-> f[k]]
      BY <3>4
    <3>6. f[m + 1] = row(i + D(i))
      BY <3>4
    <3>9. all(n) \in Seq({f[k] : k \in Nat})
      BY <3>4, <3>5
    <3>10. all(n) \o <<>> = all(n)
      BY <3>9, ConcatEmptySeq
    <3> HIDE DEF f, m, all
    <3>7. [k \in 1 .. m |-> f[k]] \o <<f[m + 1]>> = [k \in 1 .. m + 1 |-> f[k]]
      BY <3>4, OneMore
    <3>3. all(n) \o <<>> \o <<row(i + D(i))>> = all(i)
      BY <3>5, <3>6, <3>7, <3>10
    <3> QED BY <2>3, <3>2, <3>3
  <2> QED BY <2>8, <2>9
<1>3. Len(ids) \in S
  <2> HIDE DEF S
  <2> QED BY <1>1, <1>2, NatSteps
<1>4. G!BaseMask(ids, draft, matcher) = rows[Len(ids)]
  BY DEF G!BaseMask, Rows
<1> QED BY <1>3, <1>4 DEF G!CumulativeIndex

(* The advance over the drafts is undone.                                  *)
LEMMA AdvanceUndone ==
    ASSUME NEW ids, NEW draft, NEW matcher \in [Reqs -> Int]
    PROVE  G!RolledBack(ids, draft, matcher, G!Accepted(ids, draft, matcher)) = matcher
<1> DEFINE moves(r) == r \in {ids[i] : i \in DOMAIN ids} /\ G!Advances(matcher, draft, r)
           now == G!Accepted(ids, draft, matcher)
           back == G!RolledBack(ids, draft, matcher, now)
<1>1. now = [r \in Reqs |-> IF moves(r) THEN matcher[r] + 1 ELSE matcher[r]]
  BY DEF G!Accepted
<1>2. back = [r \in Reqs |-> IF moves(r) THEN now[r] - 1 ELSE now[r]]
  BY <1>1 DEF G!RolledBack
<1> HIDE DEF moves, now, back
<1>3. ASSUME NEW r \in Reqs PROVE back[r] = matcher[r]
  <2>1. matcher[r] \in Int
    OBVIOUS
  <2>2. CASE moves(r)
    <3>1. now[r] = matcher[r] + 1 /\ back[r] = now[r] - 1
      BY <1>1, <1>2, <2>2
    <3> QED BY <2>1, <3>1
  <2>3. CASE ~moves(r)
    BY <1>1, <1>2, <2>3
  <2> QED BY <2>2, <2>3
<1>4. back = [r \in Reqs |-> back[r]] /\ matcher = [r \in Reqs |-> matcher[r]]
  BY <1>2
<1>5. back = matcher
  BY <1>3, <1>4
<1> QED BY <1>5 DEF back, now

(* On every way out, the call gives the mask the base manager would, and   *)
(* leaves the matchers as it found them.                                   *)
LEMMA MaskIsBase ==
    ASSUME NEW ids, Len(ids) \in Nat, DOMAIN ids = 1 .. Len(ids), NEW draft,
           NEW matcher \in [Reqs -> Int], NEW batchable
    PROVE  G!GrammarMask(ids, draft, matcher, batchable) =
             [mask |-> G!BaseMask(ids, draft, matcher), matcher |-> matcher]
<1> DEFINE rows    == 1 .. G!CumulativeIndex(ids, draft)
           empty   == [k \in rows |-> FullMask]
           current == G!CurrentRows(ids, draft)
           bonus   == G!BonusRows(ids, draft)
           first   == G!BatchFill(empty, current, matcher)
           after   == G!Accepted(ids, draft, matcher)
           both    == G!BatchFill(first, bonus, after)
           base    == [mask |-> G!BaseMask(ids, draft, matcher), matcher |-> matcher]
<1>1. G!RolledBack(ids, draft, matcher, after) = matcher
  BY AdvanceUndone
<1>2. both = G!BaseMask(ids, draft, matcher)
  <2>1. first = [k \in rows |-> IF k \in DOMAIN current THEN G!Filled(matcher, current[k])
                                                      ELSE FullMask]
    BY DEF G!BatchFill
  <2>2. both = [k \in rows |-> IF k \in DOMAIN bonus THEN G!Filled(after, bonus[k])
                                                    ELSE first[k]]
    BY <2>1 DEF G!BatchFill
  <2>3. \A k \in rows : both[k] = FilledRow(ids, draft, matcher, k)
    <3> SUFFICES ASSUME NEW k \in rows PROVE both[k] = FilledRow(ids, draft, matcher, k)
      OBVIOUS
    <3>1. both[k] = IF k \in DOMAIN bonus THEN G!Filled(after, bonus[k]) ELSE first[k]
      BY <2>2
    <3>2. first[k] = IF k \in DOMAIN current THEN G!Filled(matcher, current[k]) ELSE FullMask
      BY <2>1
    <3> HIDE DEF first, both
    <3> QED BY <3>1, <3>2 DEF FilledRow
  <2>4. both = [k \in rows |-> both[k]]
    BY <2>2
  <2>5. both = [k \in rows |-> FilledRow(ids, draft, matcher, k)]
    <3> HIDE DEF both, rows
    <3> QED BY <2>3, <2>4
  <2> QED BY <2>5, RowsByNumber
<1>3. G!GrammarMask(ids, draft, matcher, batchable) =
        IF Len(ids) <= 1 THEN base
        ELSE IF ~G!Fillable(current, matcher, batchable) THEN base
        ELSE IF ~G!Fillable(bonus, after, batchable)
             THEN [mask |-> G!BaseMask(ids, draft, G!RolledBack(ids, draft, matcher, after)),
                   matcher |-> G!RolledBack(ids, draft, matcher, after)]
        ELSE [mask |-> both, matcher |-> G!RolledBack(ids, draft, matcher, after)]
  BY DEF G!GrammarMask
<1> HIDE DEF both, after, current, bonus
<1> QED BY <1>1, <1>2, <1>3

-----------------------------------------------------------------------------
(* Types.                                                                  *)

RequestRec == [state : {"waiting", "running", "preempted", "finished"}, computed : Int,
               out : Nat, placeholders : Int, drafts : Nat]
ScheduledRec == [n : Nat \ {0}, kind : {"new", "resumed", "run"}, computed : Int,
                 outputs : Int, drafts : Nat, known : Nat]
StepReqs == UNION {[S -> ScheduledRec] : S \in SUBSET Reqs}
SchedulerOutput == [req : StepReqs, ended : SUBSET Reqs, order : Seq(Reqs)]
OutputMap == UNION {[S -> [tokens : Nat, drafts : Nat]] : S \in SUBSET Reqs}

IsStep(step) ==
    /\ step = [phase |-> step.phase, req |-> step.req, pos |-> step.pos,
               inputs |-> step.inputs, discard |-> step.discard,
               mask |-> step.mask, rows |-> step.rows]
    /\ step.phase \in {"mask", "sample"}
    /\ step.req \in StepReqs
    /\ step.discard \subseteq DOMAIN step.req

RequestType == mode \in Modes /\ request \in [Reqs -> RequestRec] /\ finished \subseteq Reqs
InboxType == /\ inbox \in [Ranks -> Seq(SchedulerOutput)]
             /\ \A k \in Ranks : \A i \in 1 .. Len(inbox[k]) :
                   inbox[k][i].order \in SetToSeqs(DOMAIN inbox[k][i].req)
PendingType == /\ pending = [k \in Ranks |-> pending[k]]
               /\ \A k \in Ranks : pending[k] = NoStep \/ IsStep(pending[k])
OutputsType == outputs \in Seq(OutputMap)
TypeInv == RequestType /\ InboxType /\ PendingType /\ OutputsType

Req(s, c, o, h, d) == [state |-> s, computed |-> c, out |-> o, placeholders |-> h, drafts |-> d]

LEMMA ModeFacts ==
    ASSUME mode \in Modes
    PROVE  Limit \in Nat \ {0} /\ Specs \in {0, 1} /\ "last" \in Ranks
<1>1. mode \in AllModes
  BY EngineAssumption
<1>2. Limit \in Nat \ {0}
  BY <1>1, EngineAssumption DEF Limit
<1> QED BY <1>2 DEF Specs, Ranks

LEMMA OrderFacts ==
    ASSUME NEW S \in SUBSET Reqs, NEW order \in SetToSeqs(S)
    PROVE  /\ order \in Seq(S) /\ order \in Seq(Reqs)
           /\ Len(order) = Cardinality(S) /\ Len(order) \in Nat
           /\ DOMAIN order = 1 .. Len(order)
           /\ \A i, j \in DOMAIN order : order[i] = order[j] => i = j
<1>1. IsFiniteSet(S) /\ Cardinality(S) \in Nat
  BY EngineAssumption, FS_Subset, FS_CardinalityType
<1>2. order \in [1 .. Cardinality(S) -> S]
  BY DEF SetToSeqs
<1>3. \A i, j \in 1 .. Cardinality(S) : order[i] = order[j] => i = j
  BY DEF SetToSeqs
<1>4. order \in Seq(S)
  BY <1>1, <1>2
<1>5. Len(order) = Cardinality(S)
  BY <1>1, <1>2
<1> QED BY <1>1, <1>2, <1>3, <1>4, <1>5, SeqMonotonic

LEMMA ScheduleTypes ==
    ASSUME RequestType, NEW r \in Reqs, NEW n \in Nat \ {0}, n <= Left(r)
    PROVE  /\ Left(r) \in Int
           /\ DraftsOf(r, n) \in 0 .. request[r].drafts
           /\ ScheduledOf(r, n) \in ScheduledRec
           /\ AfterSchedule(r, n) \in RequestRec
<1>1. /\ request[r] \in RequestRec
      /\ request[r].computed \in Int /\ request[r].out \in Nat
      /\ request[r].placeholders \in Int /\ request[r].drafts \in Nat
  BY DEF RequestType, RequestRec
<1>2. Left(r) \in Int
  BY <1>1, RunnerAssumption DEF Left
<1>3. DraftsOf(r, n) \in 0 .. request[r].drafts
  BY <1>1, <1>2 DEF DraftsOf
<1>4. Kind(r) \in {"new", "resumed", "run"}
  BY DEF Kind
<1>5. ScheduledOf(r, n) \in ScheduledRec
  BY <1>1, <1>3, <1>4 DEF ScheduledOf, ScheduledRec
<1>6. Specs \in Nat
  BY ModeFacts DEF RequestType
<1>7. AfterSchedule(r, n) \in RequestRec
  <2> DEFINE held == IF Async /\ Reaches(r, n)
                     THEN request[r].placeholders + 1 + DraftsOf(r, n)
                     ELSE request[r].placeholders
             left == IF Reaches(r, n) THEN Specs ELSE request[r].drafts
  <2>1. held \in Int
    BY <1>1, <1>3
  <2>2. left \in Nat
    BY <1>1, <1>6
  <2>3. AfterSchedule(r, n) = [request[r] EXCEPT !.state = "running",
            !.computed = request[r].computed + n, !.placeholders = held, !.drafts = left]
    BY DEF AfterSchedule
  <2> HIDE DEF held, left
  <2>4. AfterSchedule(r, n) =
          Req("running", request[r].computed + n, request[r].out, held, left)
    <3> DEFINE x == AfterSchedule(r, n)
               q == request[r]
               c == request[r].computed + n
    <3>1. q \in RequestRec
      BY <1>1
    <3>2. x = [q EXCEPT !.state = "running", !.computed = c, !.placeholders = held,
                        !.drafts = left]
      BY <2>3
    <3> HIDE DEF x, q, c
    <3>4. x = Req(x.state, x.computed, x.out, x.placeholders, x.drafts)
      BY <3>1, <3>2 DEF RequestRec, Req
    <3>5. /\ x.state = "running" /\ x.computed = c /\ x.out = q.out
          /\ x.placeholders = held /\ x.drafts = left
      BY <3>1, <3>2 DEF RequestRec
    <3>3. x = Req("running", c, q.out, held, left)
      BY <3>4, <3>5
    <3> QED BY <3>3 DEF x, q, c
  <2> QED BY <1>1, <2>1, <2>2, <2>4 DEF RequestRec, Req
<1> QED BY <1>2, <1>3, <1>5, <1>7

LEMMA PreemptedType ==
    ASSUME RequestType, NEW r \in Reqs
    PROVE  Preempted(r) \in RequestRec
<1>1. /\ request[r] \in RequestRec
      /\ request[r].out \in Nat /\ request[r].placeholders \in Int
  BY DEF RequestType, RequestRec
<1>2. Preempted(r) = Req("preempted", 0, request[r].out, request[r].placeholders, 0)
  <2> DEFINE x == Preempted(r)
             q == request[r]
  <2>1. q \in RequestRec
    BY <1>1
  <2>2. x = [q EXCEPT !.state = "preempted", !.computed = 0, !.drafts = 0]
    BY DEF Preempted
  <2> HIDE DEF x, q
  <2>4. x = Req(x.state, x.computed, x.out, x.placeholders, x.drafts)
    BY <2>1, <2>2 DEF RequestRec, Req
  <2>5. /\ x.state = "preempted" /\ x.computed = 0 /\ x.out = q.out
        /\ x.placeholders = q.placeholders /\ x.drafts = 0
    BY <2>1, <2>2 DEF RequestRec
  <2>3. x = Req("preempted", 0, q.out, q.placeholders, 0)
    BY <2>4, <2>5
  <2> QED BY <2>3 DEF x, q
<1> QED BY <1>1, <1>2 DEF RequestRec, Req

LEMMA AppendedOutput ==
    ASSUME InboxType, NEW so \in SchedulerOutput, so.order \in SetToSeqs(DOMAIN so.req),
           inbox' = [k \in Ranks |-> Append(inbox[k], so)], UNCHANGED mode
    PROVE  InboxType'
<1>0. Ranks' = Ranks
  BY DEF Ranks
<1>1. inbox \in [Ranks -> Seq(SchedulerOutput)]
  BY DEF InboxType
<1>2. inbox' \in [Ranks -> Seq(SchedulerOutput)]
  BY <1>1, AppendProperties
<1>3. ASSUME NEW k \in Ranks, NEW i \in 1 .. Len(inbox'[k])
      PROVE  inbox'[k][i].order \in SetToSeqs(DOMAIN inbox'[k][i].req)
  <2>1. inbox[k] \in Seq(SchedulerOutput) /\ inbox'[k] = Append(inbox[k], so)
    BY <1>1
  <2>2. /\ Len(inbox'[k]) = Len(inbox[k]) + 1
        /\ \A l \in 1 .. Len(inbox[k]) : inbox'[k][l] = inbox[k][l]
        /\ inbox'[k][Len(inbox[k]) + 1] = so
    BY <2>1, AppendProperties
  <2>3. Len(inbox[k]) \in Nat
    BY <2>1, LenProperties
  <2>4. CASE i \in 1 .. Len(inbox[k])
    BY <2>2, <2>4 DEF InboxType
  <2>5. CASE i = Len(inbox[k]) + 1
    BY <2>2, <2>5
  <2> QED BY <2>2, <2>3, <2>4, <2>5
<1> QED BY <1>0, <1>2, <1>3 DEF InboxType

LEMMA InitTypes == Init => TypeInv
<1> SUFFICES ASSUME Init PROVE TypeInv
  OBVIOUS
<1>1. RequestType
  <2>1. Arrived \in RequestRec
    BY DEF Arrived, RequestRec
  <2> QED BY <2>1 DEF Init, RequestType
<1>2. InboxType
  BY DEF Init, InboxType
<1>3. PendingType
  BY DEF Init, PendingType
<1>4. OutputsType
  BY DEF Init, OutputsType
<1> QED BY <1>1, <1>2, <1>3, <1>4 DEF TypeInv

Scheduling(S, X, n, order) ==
    /\ S # {}
    /\ \A r \in X : request[r].state = "running"
    /\ \A r \in Candidates \ (S \cup X) : request[r].drafts = 0
    /\ \A r \in S : n[r] <= Left(r)
    /\ inbox' = [k \in Ranks |-> Append(inbox[k],
           [req |-> [r \in S |-> ScheduledOf(r, n[r])], ended |-> finished, order |-> order])]
    /\ request' = [r \in Reqs |-> CASE r \in S -> AfterSchedule(r, n[r])
                                    [] r \in X -> Preempted(r)
                                    [] OTHER -> request[r]]

LEMMA ScheduleFacts ==
    ASSUME Schedule
    PROVE  \E S \in SUBSET Candidates : \E X \in SUBSET (Reqs \ S) :
             \E n \in [S -> 1 .. PromptLen + Limit + 1], order \in SetToSeqs(S) :
               Scheduling(S, X, n, order)
<1>1. PICK S \in (SUBSET Candidates) \ {{}} : \E X \in SUBSET (Reqs \ S) :
          /\ \A r \in X : request[r].state = "running"
          /\ \A r \in Candidates \ (S \cup X) : request[r].drafts = 0
          /\ \E n \in [S -> 1 .. PromptLen + Limit + 1] :
                /\ \A r \in S : n[r] <= Left(r)
                /\ \E order \in SetToSeqs(S) :
                      inbox' = [k \in Ranks |-> Append(inbox[k],
                             [req |-> [r \in S |-> ScheduledOf(r, n[r])],
                              ended |-> finished, order |-> order])]
                /\ request' = [r \in Reqs |-> CASE r \in S -> AfterSchedule(r, n[r])
                                                [] r \in X -> Preempted(r)
                                                [] OTHER -> request[r]]
  BY DEF Schedule
<1>2. S # {}
  OBVIOUS
<1>3. PICK X \in SUBSET (Reqs \ S), n \in [S -> 1 .. PromptLen + Limit + 1],
           order \in SetToSeqs(S) : Scheduling(S, X, n, order)
  BY <1>1, <1>2 DEF Scheduling
<1> QED BY <1>3

LEMMA ScheduleTyped ==
    ASSUME TypeInv, Schedule
    PROVE  TypeInv'
<1>1. RequestType /\ InboxType
  BY DEF TypeInv
<1>2. PICK S \in SUBSET Candidates : \E X \in SUBSET (Reqs \ S) :
        \E n \in [S -> 1 .. PromptLen + Limit + 1], order \in SetToSeqs(S) :
          Scheduling(S, X, n, order)
  BY ScheduleFacts
<1>3. PICK X \in SUBSET (Reqs \ S), n \in [S -> 1 .. PromptLen + Limit + 1],
           order \in SetToSeqs(S) : Scheduling(S, X, n, order)
  BY <1>2
<1>13. /\ \A r \in S : n[r] <= Left(r)
       /\ inbox' = [k \in Ranks |-> Append(inbox[k],
              [req |-> [r \in S |-> ScheduledOf(r, n[r])],
               ended |-> finished, order |-> order])]
       /\ request' = [r \in Reqs |-> CASE r \in S -> AfterSchedule(r, n[r])
                                       [] r \in X -> Preempted(r)
                                       [] OTHER -> request[r]]
  BY <1>3 DEF Scheduling
<1>4. S \subseteq Reqs
  BY DEF Candidates
<1>5. Limit \in Nat \ {0}
  BY <1>1, ModeFacts DEF RequestType
<1>6. \A r \in S : n[r] \in Nat \ {0}
  BY <1>5, RunnerAssumption
<1>7. request' \in [Reqs -> RequestRec]
  <2>1. ASSUME NEW r \in Reqs PROVE request'[r] \in RequestRec
    <3>1. request[r] \in RequestRec
      BY <1>1 DEF RequestType
    <3>2. CASE r \in S
      BY <3>2, <1>1, <1>13, <1>6, ScheduleTypes
    <3>3. CASE r \notin S /\ r \in X
      <4>1. Preempted(r) \in RequestRec
        BY <1>1, PreemptedType
      <4> QED BY <3>3, <4>1, <1>13
    <3>4. CASE r \notin S /\ r \notin X
      BY <3>1, <3>4, <1>13
    <3> QED BY <3>2, <3>3, <3>4
  <2>2. request' = [r \in Reqs |-> request'[r]]
    BY <1>13
  <2> QED BY <2>1, <2>2
<1>8. mode' = mode /\ finished' = {} /\ pending' = pending /\ outputs' = outputs
  BY DEF Schedule
<1>9. RequestType'
  BY <1>1, <1>7, <1>8 DEF RequestType
<1>10. InboxType'
  <2> DEFINE req == [r \in S |-> ScheduledOf(r, n[r])]
             so == [req |-> req, ended |-> finished, order |-> order]
  <2>1. req \in StepReqs
    <3>1. \A r \in S : ScheduledOf(r, n[r]) \in ScheduledRec
      BY <1>1, <1>13, <1>4, <1>6, ScheduleTypes
    <3>2. req \in [S -> ScheduledRec]
      BY <3>1
    <3> QED BY <3>2, <1>4 DEF StepReqs
  <2>2. order \in Seq(Reqs) /\ DOMAIN req = S
    BY <1>4, OrderFacts
  <2>3. so \in SchedulerOutput
    BY <1>1, <2>1, <2>2 DEF SchedulerOutput, RequestType
  <2>4. so.order \in SetToSeqs(DOMAIN so.req)
    BY <2>2
  <2>5. inbox' = [k \in Ranks |-> Append(inbox[k], so)]
    BY <1>13
  <2> HIDE DEF so
  <2> QED BY <1>1, <1>8, <2>3, <2>4, <2>5, AppendedOutput
<1>11. PendingType'
  BY <1>8 DEF TypeInv, PendingType, Ranks
<1>12. OutputsType'
  BY <1>8 DEF TypeInv, OutputsType
<1> QED BY <1>9, <1>10, <1>11, <1>12 DEF TypeInv

LEMMA ScheduleNothingTyped ==
    ASSUME TypeInv, ScheduleNothing
    PROVE  TypeInv'
<1> DEFINE so == [req |-> <<>>, ended |-> finished, order |-> <<>>]
<1>1. /\ inbox' = [k \in Ranks |-> Append(inbox[k], so)] /\ finished' = {}
      /\ mode' = mode /\ request' = request /\ pending' = pending /\ outputs' = outputs
  BY DEF ScheduleNothing
<1>2. RequestType' /\ PendingType' /\ OutputsType'
  BY <1>1 DEF TypeInv, RequestType, PendingType, OutputsType, Ranks
<1>3. <<>> \in StepReqs
  <2>1. <<>> \in [{} -> ScheduledRec]
    OBVIOUS
  <2>2. {} \in SUBSET Reqs
    OBVIOUS
  <2> QED BY <2>1, <2>2 DEF StepReqs
<1>4. so \in SchedulerOutput
  BY <1>3 DEF SchedulerOutput, TypeInv, RequestType
<1>5. so.order \in SetToSeqs(DOMAIN so.req)
  <2>1. DOMAIN so.req = {} /\ so.order = <<>>
    OBVIOUS
  <2>2. Cardinality({}) = 0
    BY FS_EmptySet
  <2>3. <<>> \in SetToSeqs({})
    BY <2>2 DEF SetToSeqs
  <2> QED BY <2>1, <2>3
<1>6. InboxType /\ UNCHANGED mode
  BY <1>1 DEF TypeInv
<1> HIDE DEF so
<1>7. InboxType'
  BY <1>1, <1>4, <1>5, <1>6, AppendedOutput
<1> QED BY <1>2, <1>7 DEF TypeInv

LEMMA AbortTyped ==
    ASSUME TypeInv, NEW r \in Reqs, Abort(r)
    PROVE  TypeInv'
<1>1. /\ request' = [request EXCEPT ![r].state = "finished"]
      /\ finished' = finished \cup {r}
      /\ mode' = mode /\ inbox' = inbox /\ pending' = pending /\ outputs' = outputs
  BY DEF Abort
<1>2. request \in [Reqs -> RequestRec]
  BY DEF TypeInv, RequestType
<1>3. request' \in [Reqs -> RequestRec]
  BY <1>1, <1>2 DEF RequestRec
<1>4. RequestType'
  BY <1>1, <1>3 DEF TypeInv, RequestType
<1> QED BY <1>1, <1>4 DEF TypeInv, InboxType, PendingType, OutputsType, Ranks

LEMMA ProcessedType ==
    ASSUME RequestType, NEW r \in Reqs, NEW g \in Nat, NEW d \in Nat
    PROVE  /\ Processed(r, g, d) \in RequestRec
           /\ Processed(r, g, d).out =
                IF request[r].out + g > Limit THEN Limit ELSE request[r].out + g
           /\ Processed(r, g, d).placeholders =
                IF Async THEN request[r].placeholders - (d + 1) ELSE request[r].placeholders
           /\ Processed(r, g, d).computed =
                IF request[r].computed > 0 THEN request[r].computed - (d + 1 - g)
                                           ELSE request[r].computed
           /\ Processed(r, g, d).state =
                IF Processed(r, g, d).out = Limit THEN "finished" ELSE request[r].state
           /\ Processed(r, g, d).drafts = request[r].drafts
<1> DEFINE q == request[r]
           x == Processed(r, g, d)
           o == IF q.out + g > Limit THEN Limit ELSE q.out + g
           h == IF Async THEN q.placeholders - (d + 1) ELSE q.placeholders
           c == IF q.computed > 0 THEN q.computed - (d + 1 - g) ELSE q.computed
           s == IF o = Limit THEN "finished" ELSE q.state
<1>1. /\ q \in RequestRec /\ q.out \in Nat /\ q.placeholders \in Int /\ q.computed \in Int
      /\ q.drafts \in Nat
      /\ q.state \in {"waiting", "running", "preempted", "finished"}
  BY DEF RequestType, RequestRec
<1>2. Limit \in Nat \ {0}
  BY ModeFacts DEF RequestType
<1>3. x = [q EXCEPT !.out = o, !.placeholders = h, !.computed = c, !.state = s]
  BY DEF Processed
<1>4. o \in Nat
  BY <1>1, <1>2
<1>5. h \in Int /\ c \in Int
  BY <1>1
<1>6. s \in {"waiting", "running", "preempted", "finished"}
  BY <1>1
<1> HIDE DEF q, x, o, h, c, s
<1>7. x = Req(x.state, x.computed, x.out, x.placeholders, x.drafts)
  BY <1>1, <1>3 DEF RequestRec, Req
<1>8. /\ x.state = s /\ x.computed = c /\ x.out = o
      /\ x.placeholders = h /\ x.drafts = q.drafts
  BY <1>1, <1>3 DEF RequestRec
<1>9. x = Req(s, c, o, h, q.drafts)
  BY <1>7, <1>8
<1>10. x \in RequestRec
  BY <1>1, <1>4, <1>5, <1>6, <1>9 DEF RequestRec, Req
<1> QED BY <1>8, <1>10 DEF x, o, q, h, c, s

Got == {r \in DOMAIN Head(outputs) :
          Head(outputs)[r].tokens > 0 /\ request[r].state # "finished"}

LEMMA UpdateFacts ==
    ASSUME TypeInv, Update
    PROVE  /\ Got \subseteq Reqs
           /\ \A r \in Got : /\ Head(outputs)[r].tokens \in Nat
                             /\ Head(outputs)[r].drafts \in Nat
           /\ request' = [r \in Reqs |->
                 IF r \in Got
                 THEN Processed(r, Head(outputs)[r].tokens, Head(outputs)[r].drafts)
                 ELSE request[r]]
           /\ finished' = finished \cup {r \in Got : request'[r].state = "finished"}
           /\ accepted' = [r \in Reqs |-> IF mode = "grammar" /\ r \in Got
                                          THEN accepted[r] + request'[r].out - request[r].out
                                          ELSE accepted[r]]
           /\ outputs' = Tail(outputs) /\ outputs' \in Seq(OutputMap)
           /\ mode' = mode /\ inbox' = inbox /\ worker' = worker /\ pending' = pending
           /\ sent' = sent /\ sampled' = sampled /\ cached' = cached
<1>1. outputs # <<>> /\ outputs \in Seq(OutputMap)
  BY DEF Update, TypeInv, OutputsType
<1>2. Head(outputs) \in OutputMap /\ Tail(outputs) \in Seq(OutputMap)
  BY <1>1, HeadTailProperties
<1>3. PICK S \in SUBSET Reqs : Head(outputs) \in [S -> [tokens : Nat, drafts : Nat]]
  BY <1>2 DEF OutputMap
<1>4. /\ Got \subseteq S
      /\ \A r \in Got : Head(outputs)[r] \in [tokens : Nat, drafts : Nat]
  BY <1>3 DEF Got
<1>5. \A r \in Got : Head(outputs)[r].tokens \in Nat /\ Head(outputs)[r].drafts \in Nat
  BY <1>4
<1>6. /\ request' = [r \in Reqs |->
             IF r \in Got
             THEN Processed(r, Head(outputs)[r].tokens, Head(outputs)[r].drafts)
             ELSE request[r]]
      /\ finished' = finished \cup {r \in Got : request'[r].state = "finished"}
      /\ accepted' = [r \in Reqs |-> IF mode = "grammar" /\ r \in Got
                                      THEN accepted[r] + request'[r].out - request[r].out
                                      ELSE accepted[r]]
  BY DEF Update, Got
<1>7. /\ outputs' = Tail(outputs)
      /\ mode' = mode /\ inbox' = inbox /\ worker' = worker /\ pending' = pending
      /\ sent' = sent /\ sampled' = sampled /\ cached' = cached
  BY DEF Update
<1> QED BY <1>2, <1>4, <1>5, <1>6, <1>7

LEMMA UpdateTyped ==
    ASSUME TypeInv, Update
    PROVE  TypeInv'
<1>1. RequestType /\ request \in [Reqs -> RequestRec]
  BY DEF TypeInv, RequestType
<1>2. request' \in [Reqs -> RequestRec]
  <2>1. ASSUME NEW r \in Reqs PROVE request'[r] \in RequestRec
    <3>1. CASE r \in Got
      <4>1. request'[r] = Processed(r, Head(outputs)[r].tokens, Head(outputs)[r].drafts)
        BY <3>1, UpdateFacts
      <4> QED BY <4>1, <3>1, <1>1, UpdateFacts, ProcessedType
    <3>2. CASE r \notin Got
      BY <3>2, <1>1, UpdateFacts
    <3> QED BY <3>1, <3>2
  <2>2. request' = [r \in Reqs |-> request'[r]]
    BY UpdateFacts
  <2> QED BY <2>1, <2>2
<1>3. finished' \subseteq Reqs
  BY <1>1, UpdateFacts DEF RequestType
<1>4. mode' = mode /\ inbox' = inbox /\ pending' = pending /\ outputs' \in Seq(OutputMap)
  BY UpdateFacts
<1>5. RequestType'
  BY <1>1, <1>2, <1>3, <1>4 DEF RequestType
<1> QED BY <1>4, <1>5 DEF TypeInv, InboxType, PendingType, OutputsType, Ranks

LEMMA InboxHead ==
    ASSUME InboxType, NEW k \in Ranks, inbox[k] # <<>>
    PROVE  /\ Head(inbox[k]) \in SchedulerOutput
           /\ Head(inbox[k]).req \in StepReqs
           /\ Head(inbox[k]).order \in SetToSeqs(DOMAIN Head(inbox[k]).req)
           /\ Tail(inbox[k]) \in Seq(SchedulerOutput)
           /\ Len(Tail(inbox[k])) = Len(inbox[k]) - 1
           /\ \A i \in 1 .. Len(Tail(inbox[k])) : Tail(inbox[k])[i] = inbox[k][i + 1]
<1>1. inbox[k] \in Seq(SchedulerOutput)
  BY DEF InboxType
<1>2. /\ Head(inbox[k]) \in SchedulerOutput /\ Tail(inbox[k]) \in Seq(SchedulerOutput)
      /\ Len(Tail(inbox[k])) = Len(inbox[k]) - 1
      /\ \A i \in 1 .. Len(Tail(inbox[k])) : Tail(inbox[k])[i] = inbox[k][i + 1]
  BY <1>1, HeadTailProperties
<1>3. Head(inbox[k]) = inbox[k][1] /\ 1 \in 1 .. Len(inbox[k])
  BY <1>1, EmptySeq
<1>4. Head(inbox[k]).req \in StepReqs
  BY <1>2 DEF SchedulerOutput
<1> QED BY <1>2, <1>3, <1>4 DEF InboxType

LEMMA ExecuteModelTyped ==
    ASSUME TypeInv, NEW k \in Ranks, ExecuteModel(k)
    PROVE  TypeInv'
<1> DEFINE so  == Head(inbox[k])
           w   == worker[k]
           new == UpdateStates(w, so, Async, k = "last")
           step == [phase |-> IF mode = "grammar" THEN "mask" ELSE "sample",
                    req |-> so.req,
                    pos |-> [r \in Scheduled(so) |-> Position(w, so, r, Async)],
                    inputs |-> InputIds(w, new, so),
                    discard |-> Discarded(new, so),
                    mask |-> <<>>, rows |-> <<>>]
<1>1. inbox[k] # <<>> /\ InboxType /\ PendingType /\ OutputsType /\ RequestType
  BY DEF ExecuteModel, TypeInv
<1>2. /\ inbox' = [inbox EXCEPT ![k] = Tail(@)]
      /\ mode' = mode /\ request' = request /\ finished' = finished
  BY DEF ExecuteModel
<1>3. RequestType'
  BY <1>1, <1>2 DEF RequestType
<1>4. Ranks' = Ranks
  BY <1>2 DEF Ranks
<1>5. InboxType'
  <2>1. inbox \in [Ranks -> Seq(SchedulerOutput)]
    BY <1>1 DEF InboxType
  <2>2. inbox' \in [Ranks -> Seq(SchedulerOutput)]
    BY <1>1, <1>2, <2>1, InboxHead
  <2>3. ASSUME NEW l \in Ranks, NEW i \in 1 .. Len(inbox'[l])
        PROVE  inbox'[l][i].order \in SetToSeqs(DOMAIN inbox'[l][i].req)
    <3>1. CASE l = k
      <4>1. inbox'[l] = Tail(inbox[k])
        BY <1>2, <2>1, <3>1
      <4>2. inbox'[l][i] = inbox[k][i + 1] /\ i + 1 \in 1 .. Len(inbox[k])
        <5>1. Len(inbox[k]) \in Nat
          BY <2>1, LenProperties
        <5>2. Len(inbox'[l]) = Len(inbox[k]) - 1
          BY <4>1, <1>1, InboxHead
        <5> QED BY <5>1, <5>2, <4>1, <1>1, InboxHead
      <4> QED BY <4>2, <1>1 DEF InboxType
    <3>2. CASE l # k
      <4>1. inbox'[l] = inbox[l]
        BY <1>2, <2>1, <3>2
      <4> QED BY <4>1, <1>1 DEF InboxType
    <3> QED BY <3>1, <3>2
  <2> QED BY <1>4, <2>2, <2>3 DEF InboxType
<1>6. CASE Scheduled(so) = {}
  <2>1. pending' = pending /\ (outputs' = outputs \/ outputs' = Append(outputs, <<>>))
    BY <1>6 DEF ExecuteModel
  <2>2. PendingType'
    BY <1>1, <1>4, <2>1 DEF PendingType
  <2>3. <<>> \in OutputMap
    <3>1. <<>> \in [{} -> [tokens : Nat, drafts : Nat]] /\ {} \in SUBSET Reqs
      OBVIOUS
    <3> QED BY <3>1 DEF OutputMap
  <2>4. OutputsType'
    BY <1>1, <2>1, <2>3, AppendProperties DEF OutputsType
  <2> QED BY <1>3, <1>5, <2>2, <2>4 DEF TypeInv
<1>7. CASE Scheduled(so) # {}
  <2>1. pending' = [pending EXCEPT ![k] = step] /\ outputs' = outputs
    BY <1>7 DEF ExecuteModel
  <2>2. so.req \in StepReqs
    BY <1>1, InboxHead
  <2>3. Discarded(new, so) \subseteq DOMAIN so.req
    BY DEF Discarded, Scheduled
  <2>4. IsStep(step)
    BY <2>2, <2>3 DEF IsStep
  <2> HIDE DEF step
  <2>5. PendingType'
    BY <1>1, <1>4, <2>1, <2>4 DEF PendingType
  <2>6. OutputsType'
    BY <1>1, <2>1 DEF OutputsType
  <2> QED BY <1>3, <1>5, <2>5, <2>6 DEF TypeInv
<1> QED BY <1>6, <1>7

LEMMA StepReqsFacts ==
    ASSUME NEW req \in StepReqs
    PROVE  /\ DOMAIN req \subseteq Reqs
           /\ \A r \in DOMAIN req : req[r] \in ScheduledRec
<1>1. PICK S \in SUBSET Reqs : req \in [S -> ScheduledRec]
  BY DEF StepReqs
<1> QED BY <1>1

(* What the masked step is, and that the matchers stay as they are.        *)
LEMMA GrammarBitmaskFacts ==
    ASSUME TypeInv, accepted \in [Reqs -> Int], GrammarBitmask
    PROVE  /\ IsStep(pending["last"]) /\ accepted' = accepted
           /\ \E mask : pending' = [pending EXCEPT !["last"] =
                   [phase |-> "sample", req |-> pending["last"].req,
                    pos |-> pending["last"].pos, inputs |-> pending["last"].inputs,
                    discard |-> pending["last"].discard, mask |-> mask, rows |-> mask]]
           /\ UNCHANGED <<mode, request, finished, inbox, worker, sent, outputs, sampled, cached>>
<1> DEFINE step == pending["last"]
           drafted == {r \in DOMAIN step.req : step.req[r].drafts > 0}
           ruled == {r \in DOMAIN step.req \ step.discard : request[r].state # "finished"}
           draft(valid) == [r \in DOMAIN step.req |-> CASE r \notin drafted -> "none"
                                                         [] r \in valid -> "token"
                                                         [] OTHER -> "-1"]
<1>1. "last" \in Ranks /\ PendingType
  BY ModeFacts DEF TypeInv, RequestType
<1>2. IsStep(step)
  <2>1. step.phase = "mask"
    BY DEF GrammarBitmask
  <2>2. step # NoStep
    BY <2>1 DEF NoStep
  <2> QED BY <1>1, <2>2 DEF PendingType
<1>3. PICK ids \in SetToSeqs(ruled), valid \in SUBSET drafted, batchable \in BOOLEAN :
        LET call == G!GrammarMask(ids, draft(valid), accepted, batchable)
        IN  /\ pending' = [pending EXCEPT !["last"] =
                   [@ EXCEPT !.phase = "sample", !.mask = call.mask,
                             !.rows = G!BaseMask(ids, draft(valid), accepted)]]
            /\ accepted' = call.matcher
  BY Zenon DEF GrammarBitmask
<1> DEFINE base == G!BaseMask(ids, draft(valid), accepted)
           call == G!GrammarMask(ids, draft(valid), accepted, batchable)
           d == draft(valid)
<1>4. DOMAIN step.req \subseteq Reqs
  BY <1>2, StepReqsFacts DEF IsStep
<1>5. ruled \in SUBSET Reqs
  BY <1>4
<1>6. Len(ids) \in Nat /\ DOMAIN ids = 1 .. Len(ids)
  <2> HIDE DEF ruled
  <2> QED BY <1>5, OrderFacts
<1>7. call = [mask |-> base, matcher |-> accepted]
  <2>1. G!GrammarMask(ids, d, accepted, batchable) =
           [mask |-> G!BaseMask(ids, d, accepted), matcher |-> accepted]
    <3> HIDE DEF d
    <3> QED BY <1>6, MaskIsBase
  <2> QED BY <2>1
<1>8. /\ pending' = [pending EXCEPT !["last"] =
            [@ EXCEPT !.phase = "sample", !.mask = call.mask, !.rows = base]]
      /\ accepted' = call.matcher
  BY <1>3
<1> HIDE DEF call, base
<1>9. call.mask = base /\ call.matcher = accepted
  BY <1>7
<1>10. accepted' = accepted
  BY <1>8, <1>9
<1> DEFINE x == [step EXCEPT !.phase = "sample", !.mask = base, !.rows = base]
<1>11. pending' = [pending EXCEPT !["last"] = x]
  BY <1>8, <1>9
<1>12. x = [phase |-> "sample", req |-> step.req, pos |-> step.pos, inputs |-> step.inputs,
            discard |-> step.discard, mask |-> base, rows |-> base]
  <2> DEFINE y == x
             p == step
  <2>1. p = [phase |-> p.phase, req |-> p.req, pos |-> p.pos, inputs |-> p.inputs,
             discard |-> p.discard, mask |-> p.mask, rows |-> p.rows]
    BY <1>2 DEF IsStep
  <2>2. y = [p EXCEPT !.phase = "sample", !.mask = base, !.rows = base]
    OBVIOUS
  <2> HIDE DEF y, p
  <2>3. y = [phase |-> y.phase, req |-> y.req, pos |-> y.pos, inputs |-> y.inputs,
             discard |-> y.discard, mask |-> y.mask, rows |-> y.rows]
    BY <2>1, <2>2
  <2>4. /\ y.phase = "sample" /\ y.req = p.req /\ y.pos = p.pos /\ y.inputs = p.inputs
        /\ y.discard = p.discard /\ y.mask = base /\ y.rows = base
    BY <2>1, <2>2
  <2>5. y = [phase |-> "sample", req |-> p.req, pos |-> p.pos, inputs |-> p.inputs,
             discard |-> p.discard, mask |-> base, rows |-> base]
    BY <2>3, <2>4
  <2> QED BY <2>5 DEF y, p
<1>13. UNCHANGED <<mode, request, finished, inbox, worker, sent, outputs, sampled, cached>>
  BY DEF GrammarBitmask
<1> HIDE DEF x
<1> QED BY <1>2, <1>10, <1>11, <1>12, <1>13

LEMMA GrammarBitmaskTyped ==
    ASSUME TypeInv, accepted \in [Reqs -> Int], GrammarBitmask
    PROVE  TypeInv'
<1>1. PICK mask : pending' = [pending EXCEPT !["last"] =
                   [phase |-> "sample", req |-> pending["last"].req,
                    pos |-> pending["last"].pos, inputs |-> pending["last"].inputs,
                    discard |-> pending["last"].discard, mask |-> mask, rows |-> mask]]
  BY GrammarBitmaskFacts
<1> DEFINE x == [phase |-> "sample", req |-> pending["last"].req,
                 pos |-> pending["last"].pos, inputs |-> pending["last"].inputs,
                 discard |-> pending["last"].discard, mask |-> mask, rows |-> mask]
<1>2. /\ mode' = mode /\ request' = request /\ finished' = finished /\ inbox' = inbox
      /\ outputs' = outputs /\ IsStep(pending["last"])
  BY GrammarBitmaskFacts
<1>3. IsStep(x)
  BY <1>2 DEF IsStep
<1>4. pending' = [pending EXCEPT !["last"] = x]
  BY <1>1
<1> HIDE DEF x
<1>5. PendingType'
  BY <1>2, <1>3, <1>4 DEF TypeInv, PendingType, Ranks
<1> QED BY <1>2, <1>5 DEF TypeInv, RequestType, InboxType, OutputsType, Ranks

LEMMA SampleTokensTyped ==
    ASSUME TypeInv, SampleTokens
    PROVE  TypeInv'
<1> DEFINE step == pending["last"]
           rows == DOMAIN step.req
<1>1. /\ pending' = [pending EXCEPT !["last"] = NoStep]
      /\ mode' = mode /\ request' = request /\ finished' = finished /\ inbox' = inbox
  BY DEF SampleTokens
<1>2. IsStep(step)
  <2>1. step.phase = "sample"
    BY DEF SampleTokens
  <2>2. step # NoStep
    BY <2>1 DEF NoStep
  <2> QED BY <2>2, ModeFacts DEF TypeInv, RequestType, PendingType
<1>3. PICK g \in [rows -> 0 .. 1 + Specs] :
        outputs' = Append(outputs, [r \in rows |->
                                      [tokens |-> g[r], drafts |-> step.req[r].drafts]])
  BY DEF SampleTokens
<1>4. \A r \in rows : step.req[r].drafts \in Nat /\ g[r] \in Nat
  BY <1>2, StepReqsFacts, ModeFacts DEF IsStep, ScheduledRec, TypeInv, RequestType
<1> DEFINE out == [r \in rows |-> [tokens |-> g[r], drafts |-> step.req[r].drafts]]
<1>5. out \in OutputMap
  <2>1. out \in [rows -> [tokens : Nat, drafts : Nat]]
    BY <1>4
  <2>2. rows \in SUBSET Reqs
    BY <1>2, StepReqsFacts DEF IsStep
  <2> QED BY <2>1, <2>2 DEF OutputMap
<1> HIDE DEF out
<1>6. OutputsType'
  <2>1. outputs' = Append(outputs, out)
    BY <1>3 DEF out
  <2> QED BY <1>5, <2>1, AppendProperties DEF TypeInv, OutputsType
<1>7. PendingType'
  BY <1>1 DEF TypeInv, PendingType, Ranks
<1> QED BY <1>1, <1>6, <1>7 DEF TypeInv, RequestType, InboxType, Ranks

LEMMA ReceiveTokensTyped ==
    ASSUME TypeInv, ReceiveTokens
    PROVE  TypeInv'
<1>1. /\ pending' = [pending EXCEPT !["first"] = NoStep]
      /\ mode' = mode /\ request' = request /\ finished' = finished /\ inbox' = inbox
      /\ outputs' = outputs
  BY DEF ReceiveTokens
<1>2. PendingType'
  BY <1>1 DEF TypeInv, PendingType, Ranks
<1> QED BY <1>1, <1>2 DEF TypeInv, RequestType, InboxType, OutputsType, Ranks

-----------------------------------------------------------------------------
(* The grammar matchers and the masks they fill.                           *)

MatchInv == accepted \in [Reqs -> Int] /\ MatchersFollowOutput
MaskInv == TypeInv /\ MatchInv /\ MasksAreOwn

(* What leaves requests' outputs and the matchers alone keeps them equal.  *)
LEMMA MatchKept ==
    ASSUME MatchInv, accepted' = accepted, mode' = mode,
           \A r \in Reqs : request'[r].out = request[r].out
    PROVE  MatchInv'
BY DEF MatchInv, MatchersFollowOutput

LEMMA MasksKept ==
    ASSUME MasksAreOwn, pending'["last"] = pending["last"] \/ pending'["last"] = NoStep
    PROVE  MasksAreOwn'
BY DEF MasksAreOwn, NoStep

LEMMA ScheduleMatches ==
    ASSUME TypeInv, MatchInv, Schedule
    PROVE  MatchInv'
<1>0. PICK S \in SUBSET Candidates : \E X \in SUBSET (Reqs \ S) :
        \E n \in [S -> 1 .. PromptLen + Limit + 1], order \in SetToSeqs(S) :
          Scheduling(S, X, n, order)
  BY ScheduleFacts
<1>4. PICK X \in SUBSET (Reqs \ S), n \in [S -> 1 .. PromptLen + Limit + 1],
           order \in SetToSeqs(S) : Scheduling(S, X, n, order)
  BY <1>0
<1>1. request' = [r \in Reqs |-> CASE r \in S -> AfterSchedule(r, n[r])
                                  [] r \in X -> Preempted(r)
                                  [] OTHER -> request[r]]
  BY <1>4 DEF Scheduling
<1>2. ASSUME NEW r \in Reqs PROVE request'[r].out = request[r].out
  <2>1. request[r] \in RequestRec
    BY DEF TypeInv, RequestType
  <2>2. Preempted(r).out = request[r].out
    BY <2>1 DEF Preempted, RequestRec
  <2>3. AfterSchedule(r, n[r]).out = request[r].out
    BY <2>1 DEF AfterSchedule, RequestRec
  <2>4. request'[r] = CASE r \in S -> AfterSchedule(r, n[r])
                        [] r \in X -> Preempted(r)
                        [] OTHER -> request[r]
    BY <1>1
  <2>5. CASE r \in S
    <3>1. request'[r] = AfterSchedule(r, n[r])
      BY <2>4, <2>5
    <3> QED BY <3>1, <2>3
  <2>6. CASE r \notin S /\ r \in X
    BY <2>2, <2>4, <2>6
  <2>7. CASE r \notin S /\ r \notin X
    BY <2>4, <2>7
  <2> QED BY <2>5, <2>6, <2>7
<1>3. accepted' = accepted /\ mode' = mode
  BY DEF Schedule
<1> QED BY <1>2, <1>3, MatchKept

LEMMA UpdateMatches ==
    ASSUME TypeInv, MatchInv, Update
    PROVE  MatchInv'
<1>1. /\ request' = [r \in Reqs |->
             IF r \in Got
             THEN Processed(r, Head(outputs)[r].tokens, Head(outputs)[r].drafts)
             ELSE request[r]]
      /\ accepted' = [r \in Reqs |-> IF mode = "grammar" /\ r \in Got
                                      THEN accepted[r] + request'[r].out - request[r].out
                                      ELSE accepted[r]]
      /\ mode' = mode
  BY UpdateFacts
<1>2. ASSUME NEW r \in Reqs PROVE request[r].out \in Nat /\ request'[r].out \in Nat
  BY UpdateTyped DEF TypeInv, RequestType, RequestRec
<1>3. accepted' \in [Reqs -> Int]
  BY <1>1, <1>2 DEF MatchInv
<1>4. ASSUME mode = "grammar", NEW r \in Reqs PROVE accepted'[r] = request'[r].out
  <2>1. accepted[r] = request[r].out
    BY <1>4 DEF MatchInv, MatchersFollowOutput
  <2>2. CASE r \in Got
    BY <1>1, <1>2, <1>4, <2>1, <2>2
  <2>3. CASE r \notin Got
    BY <1>1, <2>1, <2>3
  <2> QED BY <2>2, <2>3
<1> QED BY <1>1, <1>3, <1>4 DEF MatchInv, MatchersFollowOutput

LEMMA ExecuteModelMasks ==
    ASSUME TypeInv, MasksAreOwn, NEW k \in Ranks, ExecuteModel(k)
    PROVE  MasksAreOwn'
<1>1. CASE Scheduled(Head(inbox[k])) = {}
  <2>1. pending' = pending
    BY <1>1 DEF ExecuteModel
  <2> QED BY <2>1, MasksKept
<1>2. CASE Scheduled(Head(inbox[k])) # {}
  <2> DEFINE so   == Head(inbox[k])
             new  == UpdateStates(worker[k], so, Async, k = "last")
             step == [phase |-> IF mode = "grammar" THEN "mask" ELSE "sample",
                      req |-> so.req,
                      pos |-> [r \in Scheduled(so) |-> Position(worker[k], so, r, Async)],
                      inputs |-> InputIds(worker[k], new, so),
                      discard |-> Discarded(new, so),
                      mask |-> <<>>, rows |-> <<>>]
  <2>1. /\ pending' = [pending EXCEPT ![k] = step]
        /\ step.mask = <<>> /\ step.rows = <<>>
    BY <1>2 DEF ExecuteModel
  <2> HIDE DEF step
  <2>2. pending = [l \in Ranks |-> pending[l]] /\ "last" \in Ranks
    BY ModeFacts DEF TypeInv, PendingType, RequestType
  <2>3. CASE k = "last"
    BY <2>1, <2>2, <2>3 DEF MasksAreOwn
  <2>4. CASE k # "last"
    <3>1. pending'["last"] = pending["last"]
      BY <2>1, <2>2, <2>4
    <3> QED BY <3>1, MasksKept
  <2> QED BY <2>3, <2>4
<1> QED BY <1>1, <1>2

LEMMA MaskInvStep == MaskInv /\ [Next]_vars => MaskInv'
<1> SUFFICES ASSUME MaskInv, [Next]_vars PROVE MaskInv'
  OBVIOUS
<1>0. TypeInv /\ MatchInv /\ MasksAreOwn /\ accepted \in [Reqs -> Int]
  BY DEF MaskInv, MatchInv
<1>1. "last" \in Ranks /\ DOMAIN pending = Ranks
  BY <1>0, ModeFacts DEF TypeInv, RequestType, PendingType
<1>2. CASE Schedule
  <2>1. pending' = pending
    BY <1>2 DEF Schedule
  <2> QED BY <1>0, <1>2, <2>1, ScheduleTyped, ScheduleMatches, MasksKept DEF MaskInv
<1>3. CASE ScheduleNothing
  <2>1. pending' = pending /\ accepted' = accepted /\ mode' = mode /\ request' = request
    BY <1>3 DEF ScheduleNothing
  <2> QED BY <1>0, <1>3, <2>1, ScheduleNothingTyped, MatchKept, MasksKept DEF MaskInv
<1>4. CASE Update
  <2>1. pending' = pending
    BY <1>4 DEF Update
  <2> QED BY <1>0, <1>4, <2>1, UpdateTyped, UpdateMatches, MasksKept DEF MaskInv
<1>5. ASSUME NEW r \in Reqs, Abort(r) PROVE MaskInv'
  <2>1. /\ pending' = pending /\ accepted' = accepted /\ mode' = mode
        /\ request' = [request EXCEPT ![r].state = "finished"]
    BY <1>5 DEF Abort
  <2>2. \A q \in Reqs : request'[q].out = request[q].out
    BY <1>0, <2>1 DEF TypeInv, RequestType, RequestRec
  <2> QED BY <1>0, <1>5, <2>1, <2>2, AbortTyped, MatchKept, MasksKept DEF MaskInv
<1>6. ASSUME NEW k \in Ranks, ExecuteModel(k) PROVE MaskInv'
  <2>1. accepted' = accepted /\ mode' = mode /\ request' = request
    BY <1>6 DEF ExecuteModel
  <2> QED BY <1>0, <1>6, <2>1, ExecuteModelTyped, ExecuteModelMasks, MatchKept DEF MaskInv
<1>7. CASE GrammarBitmask
  <2>1. accepted' = accepted /\ mode' = mode /\ request' = request
    BY <1>0, <1>7, GrammarBitmaskFacts
  <2>2. MasksAreOwn'
    <3>1. PICK mask : pending' = [pending EXCEPT !["last"] =
                   [phase |-> "sample", req |-> pending["last"].req,
                    pos |-> pending["last"].pos, inputs |-> pending["last"].inputs,
                    discard |-> pending["last"].discard, mask |-> mask, rows |-> mask]]
      BY <1>0, <1>7, GrammarBitmaskFacts
    <3> QED BY <1>1, <3>1 DEF MasksAreOwn
  <2> QED BY <1>0, <1>7, <2>1, <2>2, GrammarBitmaskTyped, MatchKept DEF MaskInv
<1>8. CASE SampleTokens
  <2>1. /\ pending' = [pending EXCEPT !["last"] = NoStep]
        /\ accepted' = accepted /\ mode' = mode /\ request' = request
    BY <1>8 DEF SampleTokens
  <2>2. pending'["last"] = NoStep
    BY <1>1, <2>1
  <2> QED BY <1>0, <1>8, <2>1, <2>2, SampleTokensTyped, MatchKept, MasksKept DEF MaskInv
<1>9. CASE ReceiveTokens
  <2>1. /\ pending' = [pending EXCEPT !["first"] = NoStep]
        /\ accepted' = accepted /\ mode' = mode /\ request' = request
    BY <1>9 DEF ReceiveTokens
  <2>2. pending'["last"] = pending["last"]
    BY <1>1, <2>1
  <2> QED BY <1>0, <1>9, <2>1, <2>2, ReceiveTokensTyped, MatchKept, MasksKept DEF MaskInv
<1>10. CASE UNCHANGED vars
  <2>1. /\ pending' = pending /\ accepted' = accepted /\ mode' = mode /\ request' = request
        /\ finished' = finished /\ inbox' = inbox /\ outputs' = outputs
    BY <1>10 DEF vars
  <2>2. TypeInv'
    BY <1>0, <2>1 DEF TypeInv, RequestType, InboxType, PendingType, OutputsType, Ranks
  <2> QED BY <1>0, <2>1, <2>2, MatchKept, MasksKept DEF MaskInv
<1>11. CASE Quiet
  BY <1>10, <1>11 DEF Quiet
<1> QED BY <1>2, <1>3, <1>4, <1>5, <1>6, <1>7, <1>8, <1>9, <1>10, <1>11 DEF Next

LEMMA MaskInvInit == Init => MaskInv
<1> SUFFICES ASSUME Init PROVE MaskInv
  OBVIOUS
<1>1. MatchInv
  BY DEF Init, MatchInv, MatchersFollowOutput, Arrived
<1>2. "last" \in Ranks
  BY ModeFacts DEF Init
<1>3. pending["last"] = NoStep
  BY <1>2 DEF Init
<1>4. MasksAreOwn
  BY <1>3 DEF MasksAreOwn, NoStep
<1> QED BY <1>1, <1>4, InitTypes DEF MaskInv

LEMMA MaskInvHolds == Spec => []MaskInv
BY MaskInvInit, MaskInvStep, PTL DEF Spec

(* Between two calls every grammar matcher has accepted exactly its        *)
(* request's output: whatever way out _MTPStructuredOutputManager's        *)
(* grammar_bitmask takes, its advances over drafts are rolled back.        *)
THEOREM MatchersAlwaysFollow == Spec => []MatchersFollowOutput
<1>1. MaskInv => MatchersFollowOutput
  BY DEF MaskInv, MatchInv
<1> QED BY <1>1, MaskInvHolds, PTL

(* Every row of the bitmask grammar_bitmask fills in batches, two rows for *)
(* a request with a draft and one for a request without, is the row the    *)
(* base manager fills request by request.                                  *)
THEOREM MasksAlwaysOwn == Spec => []MasksAreOwn
<1>1. MaskInv => MasksAreOwn
  BY DEF MaskInv
<1> QED BY <1>1, MaskInvHolds, PTL
-----------------------------------------------------------------------------
(* A request's place in the line of steps under way, on the last rank: at  *)
(* most two of its steps are sampled (outputs), executed (pending) or      *)
(* scheduled (inbox).                                                      *)

Line == inbox["last"]
Step == pending["last"]
Runner == worker["last"]

InBox(i, r) == i \in 1 .. Len(Line) /\ r \in DOMAIN Line[i].req
Boxed(i, r) == Line[i].req[r]
EndsBox(i, r) == i \in 1 .. Len(Line) /\ r \in Line[i].ended
InStep(r) == Step # NoStep /\ r \in DOMAIN Step.req
InOut(i, r) == i \in 1 .. Len(outputs) /\ r \in DOMAIN outputs[i]

InWorker(r) == r \in DOMAIN Runner.reqs
InRows(r) == r \in DOMAIN Runner.rows
OutLen(r) == Len(Runner.reqs[r].out)
Drafted(r) == Runner.reqs[r].drafts
InPrev(r) == r \in DOMAIN Runner.prev.index
Counted(r) == Runner.prev.valid[Runner.prev.index[r]]

(* What a step does to a request's counts once it is processed: the tokens *)
(* it produced, those it may produce, and those it computes.               *)
Reach(q) == q.computed + q.n >= PromptLen + q.outputs
Owes(q) == IF Reach(q) THEN q.drafts + 1 ELSE 0

GotOut(i, r) == IF InOut(i, r) THEN outputs[i][r].tokens ELSE 0
OwedOut(i, r) == IF InOut(i, r) /\ outputs[i][r].tokens > 0
                 THEN outputs[i][r].drafts + 1 ELSE 0
OwedBox(i, r) == IF InBox(i, r) THEN Owes(Boxed(i, r)) ELSE 0
AheadBox(i, r) == IF InBox(i, r) THEN Boxed(i, r).n ELSE 0
OwedStep(r) == IF InStep(r) THEN Owes(Step.req[r]) ELSE 0
AheadStep(r) == IF InStep(r) THEN Step.req[r].n ELSE 0

Got2(r) == GotOut(1, r) + GotOut(2, r)
Owed2(r) == OwedOut(1, r) + OwedOut(2, r)
Owed(r) == Owed2(r) + OwedStep(r) + OwedBox(1, r) + OwedBox(2, r)
Ahead(r) == AheadStep(r) + AheadBox(1, r) + AheadBox(2, r)

(* A request that has to start again does so without a cache.              *)
Afresh(r) == \/ InBox(1, r) /\ Boxed(1, r).kind # "run"
             \/ InBox(2, r) /\ Boxed(2, r).kind # "run"
Base(r) == IF Afresh(r) THEN 0 ELSE cached[r]

InNewest(r) == IF Line # <<>> THEN InBox(Len(Line), r)
               ELSE IF Step # NoStep THEN InStep(r)
               ELSE InOut(Len(outputs), r)

Live(r) == request[r].state # "finished"
Running(r) == request[r].state = "running"

\* What the scheduler may ask for.
GoodReq(q) ==
    /\ q.drafts < q.n /\ q.drafts <= Specs /\ q.outputs >= 0
    /\ q.drafts > 0 => Reach(q)
    /\ q.kind # "run" => q.computed = 0
    /\ q.kind = "new" => q.outputs = 0

\* The steps of a request are well-formed wherever they are in the line.
GoodSteps(r) ==
    /\ \A i \in {1, 2} : InBox(i, r) => GoodReq(Boxed(i, r))
    /\ InStep(r) => GoodReq(Step.req[r])
    /\ \A i \in {1, 2} : InOut(i, r) =>
          /\ outputs[i][r].tokens <= outputs[i][r].drafts + 1
          /\ outputs[i][r].tokens = 0 => outputs[i][r].drafts = 0
          /\ outputs[i][r].drafts <= Specs

\* A request that has ended is not scheduled again.
EndedInv(r) ==
    /\ r \in finished \/ EndsBox(1, r) \/ EndsBox(2, r) => ~Live(r)
    /\ \A i, j \in {1, 2} : j <= i /\ EndsBox(j, r) => ~InBox(i, r)

(* The request is nowhere in the line.                                     *)
Idle(r) == /\ ~InBox(1, r) /\ ~InBox(2, r) /\ ~InStep(r)
           /\ ~InOut(1, r) /\ ~InOut(2, r)

\* Where a request in each state may be.
StateInv(r) ==
    /\ request[r].state = "waiting" =>
          /\ request[r].out = 0 /\ request[r].computed = 0
          /\ request[r].placeholders = 0 /\ request[r].drafts = 0
          /\ sampled[r] = 0 /\ ~InWorker(r) /\ Idle(r)
    /\ request[r].state = "preempted" => ~InNewest(r)
    /\ request[r].state \in {"running", "preempted"} =>
          InWorker(r) \/ InBox(1, r) \/ InBox(2, r)

\* The scheduler's counts, when all that is under way is taken into account:
\* the tokens that wait in outputs, those that steps owe, and the positions
\* ahead of the cache, less the drafts that were refused.
CountInv(r) == Live(r) =>
    /\ request[r].out + Got2(r) = sampled[r]
    /\ request[r].placeholders = IF Async THEN Owed(r) ELSE 0
    /\ Running(r) => request[r].computed = Base(r) + Owed2(r) - Got2(r) + Ahead(r)
    /\ ~Running(r) => request[r].computed = 0 /\ request[r].drafts = 0
    /\ request[r].drafts <= Specs

\* More is scheduled only while something is left to compute.
LeftInv(r) == Running(r) =>
    /\ Async => PromptLen + request[r].out + request[r].placeholders
                   > request[r].computed
    /\ ~Async => Left(r) >= 0 /\ Owed(r) <= 1 /\ (Owed(r) > 0 => Left(r) <= 0)
    /\ ~InStep(r) /\ ~InBox(1, r) /\ ~InBox(2, r) => cached[r] > 0

\* A request has drafts only while its newest step is the newest of the line,
\* or when that step is its last: no step is skipped between a step with
\* drafts and the one that corrects it.
DraftInv(r) == Running(r) =>
    /\ request[r].drafts > 0 =>
          InNewest(r) \/ (request[r].placeholders > 0 /\ request[r].out + 1 >= Limit)
    /\ ~InBox(1, r) /\ ~InBox(2, r) /\ InWorker(r) /\ Drafted(r) > 0
          => request[r].drafts > 0
    /\ \A i \in {1, 2} : InBox(i, r) /\ Boxed(i, r).drafts > 0 => request[r].drafts > 0

(* The runner has room for the outputs the scheduler expects.              *)
RoomInv(r) == Running(r) /\ Async =>
    LET expects == request[r].out + request[r].placeholders
    IN  /\ Step = NoStep /\ InRows(r) /\ ~InBox(1, r) /\ ~InBox(2, r)
              => expects <= OutLen(r) + Drafted(r)
        /\ InStep(r) /\ ~InBox(1, r) /\ ~InBox(2, r)
              => expects <= Step.req[r].outputs + OwedStep(r)
        /\ InBox(1, r) /\ ~InBox(2, r) => expects <= Boxed(1, r).outputs + OwedBox(1, r)
        /\ InBox(2, r) => expects <= Boxed(2, r).outputs + OwedBox(2, r)

(* What the runner takes off the count of computed tokens.                 *)
Shift(r) == IF Async /\ InRows(r) /\ Boxed(1, r).kind = "run" /\ Drafted(r) > 0 /\ InPrev(r)
            THEN Drafted(r) + 1 - Counted(r) ELSE 0

(* The request was not in the step before: nothing is in doubt.            *)
Settled(r, q) == /\ q.computed = Base(r)
                 /\ Async => q.outputs = q.known
                 /\ q.kind = "new" \/ InWorker(r)

\* Where a scheduled step will continue, once the ones before it have run.
AimInv(r) ==
    /\ Step = NoStep /\ InBox(1, r) =>
          /\ Boxed(1, r).computed - Shift(r) = Base(r)
          /\ Boxed(1, r).kind = "new" \/ InWorker(r)
          /\ Async => IF InRows(r) /\ Boxed(1, r).kind = "run"
                      THEN Boxed(1, r).outputs <= OutLen(r) + Drafted(r)
                      ELSE Boxed(1, r).outputs = Boxed(1, r).known
    /\ Step # NoStep /\ InBox(1, r) =>
          IF InStep(r)
          THEN /\ Boxed(1, r).kind = "run"
               /\ Boxed(1, r).computed = Step.pos[r] + Step.req[r].n
               /\ Async => Boxed(1, r).outputs <= Step.req[r].outputs + OwedStep(r)
          ELSE Settled(r, Boxed(1, r))
    /\ InBox(2, r) =>
          IF InBox(1, r)
          THEN /\ Boxed(2, r).kind = "run"
               /\ Boxed(2, r).computed = Base(r) + Boxed(1, r).n
               /\ Async => Boxed(2, r).outputs <= Boxed(1, r).outputs + OwedBox(1, r)
          ELSE Settled(r, Boxed(2, r))
    /\ \A i \in {1, 2} : InBox(i, r) /\ Boxed(i, r).kind = "new" => ~InWorker(r)

(* A runner that waits for its tokens knows them all.                      *)
PlainInv(r) == ~Async =>
    /\ InWorker(r) => OutLen(r) = sampled[r]
    /\ InStep(r) => Step.req[r].outputs = sampled[r]
    /\ \A i \in {1, 2} : InBox(i, r) => Boxed(i, r).outputs = sampled[r]
    /\ InStep(r) /\ (InBox(1, r) \/ InBox(2, r)) => ~Reach(Step.req[r])
    /\ InBox(1, r) /\ InBox(2, r) => ~Reach(Boxed(1, r))

\* What the runner holds agrees with the step or the output it last had.
WorkerInv(r) ==
    /\ InRows(r) => InWorker(r)
    /\ Step # NoStep => (InRows(r) <=> InStep(r))
    /\ InStep(r) =>
          /\ OutLen(r) = Step.req[r].outputs /\ Drafted(r) = Step.req[r].drafts
          /\ Step.pos[r] = cached[r]
          /\ r \in Step.discard <=> ~Reach(Step.req[r])
    /\ Step = NoStep /\ outputs # <<>> =>
          /\ InRows(r) <=> InOut(Len(outputs), r)
          /\ InRows(r) => Drafted(r) = outputs[Len(outputs)][r].drafts
          /\ InRows(r) /\ Async /\ outputs[Len(outputs)][r].tokens > 0 =>
                InPrev(r) /\ Counted(r) = outputs[Len(outputs)][r].tokens

WorkerType ==
    /\ worker = [k \in Ranks |-> worker[k]]
    /\ Runner = [reqs |-> Runner.reqs, rows |-> Runner.rows, order |-> Runner.order,
               prev |-> Runner.prev]
    /\ \A r \in DOMAIN Runner.reqs : IsWorkerReq(Runner.reqs[r])
    /\ Step # NoStep => Runner.order \in SetToSeqs(DOMAIN Step.req)

LineType == /\ TypeInv /\ WorkerType /\ InFlight <= Depth
            /\ sampled \in [Reqs -> Nat] /\ cached \in [Reqs -> Nat]

RequestInv(r) == /\ GoodSteps(r) /\ EndedInv(r) /\ StateInv(r) /\ CountInv(r) /\ LeftInv(r)
                 /\ DraftInv(r) /\ RoomInv(r) /\ AimInv(r) /\ PlainInv(r) /\ WorkerInv(r)

LineInv == LineType /\ \A r \in Reqs : RequestInv(r)

LEMMA Sizes ==
    ASSUME LineType
    PROVE  /\ Line \in Seq(SchedulerOutput) /\ Len(Line) \in 0 .. 2 /\ Len(outputs) \in 0 .. 2
           /\ Line = <<>> <=> Len(Line) = 0
           /\ outputs = <<>> <=> Len(outputs) = 0
           /\ Depth \in {1, 2}
           /\ InFlight = Len(Line) + Len(outputs) + (IF Step = NoStep THEN 0 ELSE 1)
           /\ Step = NoStep => Len(Line) + Len(outputs) <= Depth
           /\ Step # NoStep => Len(Line) + Len(outputs) + 1 <= Depth
           /\ DOMAIN Line = 1 .. Len(Line) /\ DOMAIN outputs = 1 .. Len(outputs)
           /\ "last" \in Ranks /\ Specs \in {0, 1} /\ Limit \in Nat \ {0}
           /\ Specs > 0 => Async
           /\ Async => Depth = 2
<1>1. "last" \in Ranks /\ Specs \in {0, 1} /\ Limit \in Nat \ {0}
  BY ModeFacts DEF LineType, TypeInv, RequestType
<1>2. Line \in Seq(SchedulerOutput) /\ outputs \in Seq(OutputMap)
  BY <1>1 DEF LineType, TypeInv, InboxType, OutputsType, Line
<1>3. Len(Line) \in Nat /\ Len(outputs) \in Nat
  BY <1>2, LenProperties
<1>4. /\ DOMAIN Line = 1 .. Len(Line) /\ DOMAIN outputs = 1 .. Len(outputs)
      /\ Line = <<>> <=> Len(Line) = 0
      /\ outputs = <<>> <=> Len(outputs) = 0
  BY <1>2, EmptySeq, LenProperties
<1>5. Depth \in {1, 2} /\ (Async => Depth = 2) /\ (Specs > 0 => Async)
  BY DEF Depth, Async, Specs
<1>6. /\ InFlight = Len(Line) + Len(outputs) + (IF Step = NoStep THEN 0 ELSE 1)
      /\ InFlight <= Depth
  BY DEF InFlight, LineType, Line, Step
<1> QED BY <1>1, <1>2, <1>3, <1>4, <1>5, <1>6

(* The types of what a request has in the line.                            *)
LEMMA PlaceTypes ==
    ASSUME LineType, NEW r
    PROVE  /\ \A i \in {1, 2} : InBox(i, r) => r \in Reqs /\ Boxed(i, r) \in ScheduledRec
           /\ InStep(r) => r \in Reqs /\ Step.req[r] \in ScheduledRec
           /\ \A i \in {1, 2} : InOut(i, r) =>
                 /\ r \in Reqs
                 /\ outputs[i][r].tokens \in Nat /\ outputs[i][r].drafts \in Nat
           /\ r \in Reqs => request[r] \in RequestRec
<1>1. ASSUME NEW i \in {1, 2}, InBox(i, r)
      PROVE  r \in Reqs /\ Boxed(i, r) \in ScheduledRec
  <2>1. Line[i] \in SchedulerOutput
    BY <1>1, Sizes, ElementOfSeq DEF InBox
  <2>2. Line[i].req \in StepReqs
    BY <2>1 DEF SchedulerOutput
  <2> QED BY <1>1, <2>2, StepReqsFacts DEF InBox, Boxed
<1>2. ASSUME InStep(r) PROVE r \in Reqs /\ Step.req[r] \in ScheduledRec
  <2>1. IsStep(Step)
    BY <1>2, Sizes DEF InStep, Step, LineType, TypeInv, PendingType
  <2> QED BY <1>2, <2>1, StepReqsFacts DEF InStep, IsStep
<1>3. ASSUME NEW i \in {1, 2}, InOut(i, r)
      PROVE  /\ r \in Reqs
             /\ outputs[i][r].tokens \in Nat /\ outputs[i][r].drafts \in Nat
  <2>1. outputs[i] \in OutputMap
    BY <1>3, ElementOfSeq DEF InOut, LineType, TypeInv, OutputsType
  <2>2. PICK S \in SUBSET Reqs : outputs[i] \in [S -> [tokens : Nat, drafts : Nat]]
    BY <2>1 DEF OutputMap
  <2>3. r \in S /\ outputs[i][r] \in [tokens : Nat, drafts : Nat]
    BY <1>3, <2>2 DEF InOut
  <2> QED BY <2>3
<1>4. r \in Reqs => request[r] \in RequestRec
  BY DEF LineType, TypeInv, RequestType
<1> QED BY <1>1, <1>2, <1>3, <1>4

LEMMA RecordTypes ==
    /\ \A q \in ScheduledRec :
          /\ q.n \in Nat \ {0} /\ q.kind \in {"new", "resumed", "run"} /\ q.computed \in Int
          /\ q.outputs \in Int /\ q.drafts \in Nat /\ q.known \in Nat
          /\ Owes(q) \in Nat /\ (Owes(q) > 0 <=> Reach(q))
    /\ \A q \in RequestRec :
          /\ q.state \in {"waiting", "running", "preempted", "finished"} /\ q.computed \in Int
          /\ q.out \in Nat /\ q.placeholders \in Int /\ q.drafts \in Nat
<1>1. ASSUME NEW q \in ScheduledRec
      PROVE  /\ q.n \in Nat \ {0} /\ q.kind \in {"new", "resumed", "run"} /\ q.computed \in Int
             /\ q.outputs \in Int /\ q.drafts \in Nat /\ q.known \in Nat
  BY DEF ScheduledRec
<1>2. ASSUME NEW q \in ScheduledRec
      PROVE  Owes(q) \in Nat /\ (Owes(q) > 0 <=> Reach(q))
  BY <1>1 DEF Owes
<1>3. ASSUME NEW q \in RequestRec
      PROVE  /\ q.state \in {"waiting", "running", "preempted", "finished"} /\ q.computed \in Int
             /\ q.out \in Nat /\ q.placeholders \in Int /\ q.drafts \in Nat
  BY DEF RequestRec
<1> QED BY <1>1, <1>2, <1>3

LEMMA CountTypes ==
    ASSUME LineType, NEW r
    PROVE  /\ \A i \in {1, 2} : GotOut(i, r) \in Nat /\ OwedOut(i, r) \in Nat
           /\ \A i \in {1, 2} : OwedBox(i, r) \in Nat /\ AheadBox(i, r) \in Nat
           /\ OwedStep(r) \in Nat /\ AheadStep(r) \in Nat
<1>1. ASSUME NEW i \in {1, 2} PROVE GotOut(i, r) \in Nat /\ OwedOut(i, r) \in Nat
  BY PlaceTypes DEF GotOut, OwedOut
<1>2. ASSUME NEW i \in {1, 2} PROVE OwedBox(i, r) \in Nat /\ AheadBox(i, r) \in Nat
  <2>1. CASE InBox(i, r)
    <3>1. Boxed(i, r) \in ScheduledRec
      BY <2>1, PlaceTypes
    <3>2. Owes(Boxed(i, r)) \in Nat /\ Boxed(i, r).n \in Nat
      BY <3>1, RecordTypes
    <3> QED BY <3>2, <2>1 DEF OwedBox, AheadBox
  <2>2. CASE ~InBox(i, r)
    BY <2>2 DEF OwedBox, AheadBox
  <2> QED BY <2>1, <2>2
<1>3. OwedStep(r) \in Nat /\ AheadStep(r) \in Nat
  <2>1. CASE InStep(r)
    <3>1. Step.req[r] \in ScheduledRec
      BY <2>1, PlaceTypes
    <3>2. Owes(Step.req[r]) \in Nat /\ Step.req[r].n \in Nat
      BY <3>1, RecordTypes
    <3> QED BY <3>2, <2>1 DEF OwedStep, AheadStep
  <2>2. CASE ~InStep(r)
    BY <2>2 DEF OwedStep, AheadStep
  <2> QED BY <2>1, <2>2
<1> QED BY <1>1, <1>2, <1>3

-----------------------------------------------------------------------------
(* How each action moves the steps along the line.                         *)

(* One step more is scheduled: another one may be under way.               *)
LEMMA Appended ==
    ASSUME LineType, InFlight < Depth, NEW so \in SchedulerOutput, Line' = Append(Line, so),
           NEW r
    PROVE  /\ Line = <<>> =>
                /\ ~InBox(1, r) /\ ~InBox(2, r) /\ ~EndsBox(1, r) /\ ~EndsBox(2, r)
                /\ InBox(1, r)' <=> r \in DOMAIN so.req
                /\ Boxed(1, r)' = so.req[r]
                /\ ~InBox(2, r)'
                /\ EndsBox(1, r)' <=> r \in so.ended
                /\ ~EndsBox(2, r)'
           /\ Line # <<>> =>
                /\ Step = NoStep /\ outputs = <<>>
                /\ ~InBox(2, r) /\ ~EndsBox(2, r)
                /\ InBox(1, r)' <=> InBox(1, r)
                /\ Boxed(1, r)' = Boxed(1, r)
                /\ EndsBox(1, r)' <=> EndsBox(1, r)
                /\ InBox(2, r)' <=> r \in DOMAIN so.req
                /\ Boxed(2, r)' = so.req[r]
                /\ EndsBox(2, r)' <=> r \in so.ended
           /\ Step # NoStep => outputs = <<>>
           /\ ~InOut(2, r)
           /\ Line' # <<>> /\ Len(Line') = Len(Line) + 1
           /\ InNewest(r)' <=> r \in DOMAIN so.req
           /\ ~InNewest(r) => Idle(r)
<1>1. /\ Line \in Seq(SchedulerOutput) /\ Len(Line) \in 0 .. 2
      /\ Len(Line) = 0 <=> Line = <<>>
      /\ Len(Line) + Len(outputs) < 2
      /\ Step # NoStep => Len(Line) + Len(outputs) < 1
      /\ Len(outputs) \in 0 .. 2 /\ (Len(outputs) = 0 <=> outputs = <<>>)
  BY Sizes
<1>2. /\ Line' \in Seq(SchedulerOutput) /\ Len(Line') = Len(Line) + 1
      /\ \A i \in 1 .. Len(Line) : Line'[i] = Line[i]
      /\ Line'[Len(Line) + 1] = so
  BY <1>1, AppendProperties
<1>3. Line' # <<>>
  BY <1>1, <1>2, EmptySeq
<1>4. /\ Step # NoStep => outputs = <<>>
      /\ ~InOut(2, r)
      /\ ~InBox(2, r) /\ ~EndsBox(2, r)
  BY <1>1 DEF InOut, InBox, EndsBox
<1>5. CASE Line = <<>>
  <2>1. Len(Line') = 1 /\ Line'[1] = so
    BY <1>1, <1>2, <1>5
  <2>2. /\ ~InBox(1, r) /\ ~EndsBox(1, r)
        /\ InBox(1, r)' <=> r \in DOMAIN so.req
        /\ Boxed(1, r)' = so.req[r]
        /\ ~InBox(2, r)' /\ ~EndsBox(2, r)'
        /\ EndsBox(1, r)' <=> r \in so.ended
        /\ InNewest(r)' <=> r \in DOMAIN so.req
    BY <1>1, <1>3, <1>5, <2>1 DEF InBox, Boxed, EndsBox, InNewest
  <2>3. ~InNewest(r) => ~InStep(r) /\ ~InOut(1, r)
    BY <1>1, <1>5 DEF InNewest, InStep, InOut
  <2> QED BY <1>2, <1>3, <1>4, <1>5, <2>2, <2>3 DEF Idle
<1>6. CASE Line # <<>>
  <2>0. Len(Line) > 0
    BY <1>1, <1>6
  <2>6. Step = NoStep
    BY <1>1, <2>0
  <2>7. Len(Line) = 1 /\ Len(outputs) = 0
    BY <1>1, <2>0
  <2>1. Len(Line) = 1 /\ Step = NoStep /\ outputs = <<>>
    BY <1>1, <2>6, <2>7
  <2>2. Len(Line') = 2 /\ Line'[1] = Line[1] /\ Line'[2] = so
    BY <1>2, <2>1
  <2>3. /\ InBox(1, r)' <=> InBox(1, r)
        /\ Boxed(1, r)' = Boxed(1, r)
        /\ EndsBox(1, r)' <=> EndsBox(1, r)
        /\ InBox(2, r)' <=> r \in DOMAIN so.req
        /\ Boxed(2, r)' = so.req[r]
        /\ EndsBox(2, r)' <=> r \in so.ended
        /\ InNewest(r)' <=> r \in DOMAIN so.req
    BY <1>3, <2>1, <2>2 DEF InBox, Boxed, EndsBox, InNewest
  <2>4. ~InNewest(r) => ~InBox(1, r)
    BY <1>6, <2>1 DEF InNewest
  <2>5. ~InStep(r) /\ ~InOut(1, r)
    BY <2>1, <1>1 DEF InStep, InOut
  <2> QED BY <1>2, <1>3, <1>4, <1>6, <2>1, <2>3, <2>4, <2>5 DEF Idle
<1> QED BY <1>5, <1>6

(* What else a scheduling step leaves alone.                               *)
LEMMA Rested ==
    ASSUME UNCHANGED <<mode, worker, pending, outputs, sampled, cached>>, NEW r
    PROVE  /\ Runner' = Runner /\ Step' = Step /\ sampled' = sampled /\ cached' = cached
           /\ InStep(r)' <=> InStep(r)
           /\ OwedStep(r)' = OwedStep(r) /\ AheadStep(r)' = AheadStep(r)
           /\ \A i \in {1, 2} :
                /\ InOut(i, r)' <=> InOut(i, r)
                /\ GotOut(i, r)' = GotOut(i, r) /\ OwedOut(i, r)' = OwedOut(i, r)
           /\ Got2(r)' = Got2(r) /\ Owed2(r)' = Owed2(r)
           /\ InWorker(r)' <=> InWorker(r)
           /\ InRows(r)' <=> InRows(r)
           /\ OutLen(r)' = OutLen(r) /\ Drafted(r)' = Drafted(r)
           /\ InPrev(r)' <=> InPrev(r)
           /\ Counted(r)' = Counted(r)
           /\ Async' = Async /\ Specs' = Specs /\ Limit' = Limit /\ Depth' = Depth
           /\ Ranks' = Ranks
<1>1. Runner' = Runner /\ Step' = Step /\ sampled' = sampled /\ cached' = cached
  BY DEF Runner, Step
<1>2. Async' = Async /\ Specs' = Specs /\ Limit' = Limit /\ Depth' = Depth /\ Ranks' = Ranks
  BY DEF Async, Specs, Limit, Depth, Ranks
<1>3. /\ InStep(r)' <=> InStep(r)
      /\ OwedStep(r)' = OwedStep(r) /\ AheadStep(r)' = AheadStep(r)
  BY <1>1 DEF InStep, OwedStep, AheadStep, Owes, Reach
<1>4. /\ \A i \in {1, 2} :
           /\ InOut(i, r)' <=> InOut(i, r)
           /\ GotOut(i, r)' = GotOut(i, r) /\ OwedOut(i, r)' = OwedOut(i, r)
      /\ Got2(r)' = Got2(r) /\ Owed2(r)' = Owed2(r)
  BY DEF InOut, GotOut, OwedOut, Got2, Owed2
<1>5. /\ InWorker(r)' <=> InWorker(r)
      /\ InRows(r)' <=> InRows(r)
      /\ OutLen(r)' = OutLen(r) /\ Drafted(r)' = Drafted(r)
      /\ InPrev(r)' <=> InPrev(r)
      /\ Counted(r)' = Counted(r)
  BY <1>1 DEF InWorker, InRows, OutLen, Drafted, InPrev, Counted
<1> QED BY <1>1, <1>2, <1>3, <1>4, <1>5

-----------------------------------------------------------------------------
(* Scheduling: a request is in the new step, or is preempted, or waits.    *)

Planned(so, r) ==
    \/ /\ r \in DOMAIN so.req /\ Schedulable(r)
       /\ \E n \in Nat \ {0} : /\ n <= Left(r) /\ so.req[r] = ScheduledOf(r, n)
                               /\ request'[r] = AfterSchedule(r, n)
    \/ /\ r \notin DOMAIN so.req /\ request'[r] = request[r]
       /\ Schedulable(r) => request[r].drafts = 0
    \/ /\ r \notin DOMAIN so.req /\ Running(r) /\ so.order # <<>>
       /\ request'[r] = Preempted(r)

Plan(so) ==
    /\ InFlight < Depth /\ so \in SchedulerOutput /\ Line' = Append(Line, so)
    /\ so.ended = finished /\ finished' = {}
    /\ \A r \in Reqs : Planned(so, r)
    /\ UNCHANGED <<mode, worker, pending, outputs, sampled, cached>>

LEMMA SchedulePlans ==
    ASSUME LineType, Schedule \/ ScheduleNothing
    PROVE  \E so : Plan(so)
<1>0. TypeInv /\ RequestType /\ InboxType /\ "last" \in Ranks
  BY Sizes DEF LineType, TypeInv
<1>9. UNCHANGED <<mode, worker, pending, outputs, sampled, cached>> /\ finished' = {}
      /\ InFlight < Depth
  BY DEF Schedule, ScheduleNothing
<1>1. CASE Schedule
  <2>0. PICK S \in SUBSET Candidates : \E X \in SUBSET (Reqs \ S) :
          \E n \in [S -> 1 .. PromptLen + Limit + 1], order \in SetToSeqs(S) :
            Scheduling(S, X, n, order)
    BY <1>1, ScheduleFacts
  <2>1. PICK X \in SUBSET (Reqs \ S), n \in [S -> 1 .. PromptLen + Limit + 1],
             order \in SetToSeqs(S) : Scheduling(S, X, n, order)
    BY <2>0
  <2> DEFINE req == [r \in S |-> ScheduledOf(r, n[r])]
             so == [req |-> req, ended |-> finished, order |-> order]
  <2>2. /\ \A r \in X : request[r].state = "running"
        /\ \A r \in Candidates \ (S \cup X) : request[r].drafts = 0
        /\ \A r \in S : n[r] <= Left(r)
        /\ inbox' = [k \in Ranks |-> Append(inbox[k], so)]
        /\ request' = [r \in Reqs |-> CASE r \in S -> AfterSchedule(r, n[r])
                                        [] r \in X -> Preempted(r)
                                        [] OTHER -> request[r]]
    BY <2>1 DEF Scheduling
  <2>3. S \subseteq Reqs /\ \A r \in S : n[r] \in Nat \ {0}
    BY RunnerAssumption, Sizes DEF Candidates
  <2>4. req \in StepReqs
    <3>1. \A r \in S : ScheduledOf(r, n[r]) \in ScheduledRec
      BY <1>0, <2>2, <2>3, ScheduleTypes
    <3>2. req \in [S -> ScheduledRec]
      BY <3>1
    <3> QED BY <3>2, <2>3 DEF StepReqs
  <2>5. so \in SchedulerOutput
    <3>1. order \in Seq(Reqs)
      BY <2>3, OrderFacts
    <3> QED BY <1>0, <2>4, <3>1 DEF SchedulerOutput, RequestType
  <2>6. Line' = Append(Line, so)
    <3> HIDE DEF so
    <3> QED BY <1>0, <2>2 DEF Line
  <2>7. DOMAIN so.req = S /\ so.ended = finished /\ \A r \in S : so.req[r] = ScheduledOf(r, n[r])
    OBVIOUS
  <2>70. so.order # <<>>
    <3>1. Len(order) = Cardinality(S) /\ S # {} /\ S \in SUBSET Reqs
      BY <2>1, <2>3, OrderFacts DEF Scheduling
    <3>2. IsFiniteSet(S)
      BY <3>1, EngineAssumption, FS_Subset
    <3>3. Cardinality(S) # 0
      BY <3>1, <3>2, FS_EmptySet
    <3> QED BY <3>1, <3>3
  <2> HIDE DEF so
  <2>8. ASSUME NEW r \in Reqs PROVE Planned(so, r)
    <3>1. request'[r] = CASE r \in S -> AfterSchedule(r, n[r])
                          [] r \in X -> Preempted(r)
                          [] OTHER -> request[r]
      BY <2>2
    <3>2. CASE r \in S
      <4>1. request'[r] = AfterSchedule(r, n[r]) /\ Schedulable(r)
        BY <3>1, <3>2 DEF Candidates
      <4> QED BY <3>2, <4>1, <2>2, <2>3, <2>7 DEF Planned
    <3>3. CASE r \notin S /\ r \in X
      <4>1. request'[r] = Preempted(r)
        BY <3>1, <3>3
      <4> QED BY <3>3, <4>1, <2>2, <2>7, <2>70 DEF Planned, Running
    <3>4. CASE r \notin S /\ r \notin X
      <4>1. request'[r] = request[r]
        BY <3>1, <3>4
      <4>2. Schedulable(r) => r \in Candidates \ (S \cup X)
        BY <3>4 DEF Candidates
      <4> QED BY <3>4, <4>1, <4>2, <2>2, <2>7 DEF Planned
    <3> QED BY <3>2, <3>3, <3>4
  <2>9. Plan(so)
    BY <1>9, <2>5, <2>6, <2>7, <2>8 DEF Plan
  <2> QED BY <2>9
<1>2. CASE ScheduleNothing
  <2> DEFINE so == [req |-> <<>>, ended |-> finished, order |-> <<>>]
  <2>1. inbox' = [k \in Ranks |-> Append(inbox[k], so)] /\ request' = request /\ Candidates = {}
    BY <1>2 DEF ScheduleNothing
  <2>2. <<>> \in StepReqs
    <3>1. <<>> \in [{} -> ScheduledRec] /\ {} \in SUBSET Reqs
      OBVIOUS
    <3> QED BY <3>1 DEF StepReqs
  <2>3. so \in SchedulerOutput
    BY <1>0, <2>2 DEF SchedulerOutput, RequestType
  <2>4. DOMAIN so.req = {} /\ so.ended = finished
    OBVIOUS
  <2> HIDE DEF so
  <2>5. Line' = Append(Line, so)
    BY <1>0, <2>1 DEF Line
  <2>6. \A r \in Reqs : Planned(so, r)
    BY <2>1, <2>4 DEF Planned, Candidates
  <2>7. Plan(so)
    BY <1>9, <2>3, <2>4, <2>5, <2>6 DEF Plan
  <2> QED BY <2>7
<1> QED BY <1>1, <1>2

(* What is scheduled for a request, and what the scheduler notes of it.    *)
Chosen(r, q) ==
    /\ Live(r) /\ Left(r) > 0 /\ q.n \in Nat \ {0} /\ q.n <= Left(r)
    /\ ~(request[r].placeholders > 0 /\ request[r].out + 1 >= Limit)
    /\ q.kind = Kind(r) /\ q.computed = request[r].computed
    /\ q.outputs = request[r].out + request[r].placeholders /\ q.known = request[r].out
    /\ q.drafts \in Nat /\ q.drafts <= request[r].drafts
    /\ q.drafts = (IF Left(r) - q.n < request[r].drafts
                   THEN request[r].drafts - (Left(r) - q.n) ELSE 0)
    /\ Reach(q) <=> Left(r) - q.n <= request[r].drafts
    /\ request'[r].state = "running" /\ request'[r].computed = request[r].computed + q.n
    /\ request'[r].out = request[r].out
    /\ request'[r].placeholders = request[r].placeholders
                                     + (IF Async THEN Owes(q) ELSE 0)
    /\ request'[r].drafts = IF Reach(q) THEN Specs ELSE request[r].drafts

LEMMA ChosenFields ==
    ASSUME LineType, NEW r \in Reqs, NEW n \in Nat \ {0}, n <= Left(r), Schedulable(r),
           NEW q, q = ScheduledOf(r, n), request'[r] = AfterSchedule(r, n)
    PROVE  Chosen(r, q)
<1> DEFINE f == request[r]
           x == AfterSchedule(r, n)
<1>1. /\ f \in RequestRec /\ f.computed \in Int /\ f.out \in Nat
      /\ f.placeholders \in Int /\ f.drafts \in Nat
  BY PlaceTypes, RecordTypes
<1>2. RequestType
  BY DEF LineType, TypeInv
<1>3. /\ q.n = n /\ q.kind = Kind(r) /\ q.computed = f.computed
      /\ q.outputs = f.out + f.placeholders /\ q.known = f.out /\ q.drafts = DraftsOf(r, n)
  BY DEF ScheduledOf
<1>4. Left(r) \in Int /\ Left(r) = PromptLen + f.out + f.placeholders + f.drafts - f.computed
  BY <1>1, <1>2, ScheduleTypes DEF Left
<1>5. q.drafts \in Nat /\ q.drafts <= f.drafts
  BY <1>1, <1>2, <1>3, ScheduleTypes
<1>6. q.drafts = IF Left(r) - n < f.drafts THEN f.drafts - (Left(r) - n) ELSE 0
  BY <1>3 DEF DraftsOf
<1>7. Reaches(r, n) <=> Left(r) - n <= f.drafts
  BY DEF Reaches
<1>8. Reach(q) <=> Left(r) - n <= f.drafts
  BY <1>1, <1>3, <1>4, RunnerAssumption DEF Reach
<1> DEFINE h == IF Async /\ Reaches(r, n) THEN f.placeholders + 1 + DraftsOf(r, n)
                ELSE f.placeholders
           left == IF Reaches(r, n) THEN Specs ELSE f.drafts
           c == f.computed + n
<1>9. x = [f EXCEPT !.state = "running", !.computed = c, !.placeholders = h, !.drafts = left]
  BY DEF AfterSchedule
<1>10. Live(r) /\ Left(r) > 0 /\ ~(f.placeholders > 0 /\ f.out + 1 >= Limit)
  BY DEF Schedulable, Live
<1>11. h = f.placeholders + (IF Async THEN Owes(q) ELSE 0)
  BY <1>1, <1>3, <1>5, <1>7, <1>8 DEF Owes
<1>12. left = IF Reach(q) THEN Specs ELSE f.drafts
  BY <1>7, <1>8
<1> HIDE DEF f, x, h, left, c
<1>13. /\ x.state = "running" /\ x.computed = c /\ x.out = f.out
       /\ x.placeholders = h /\ x.drafts = left
  BY <1>1, <1>9 DEF RequestRec
<1>14. /\ request'[r].state = "running" /\ request'[r].computed = f.computed + q.n
       /\ request'[r].out = f.out /\ request'[r].placeholders = h /\ request'[r].drafts = left
  BY <1>3, <1>13 DEF x, c
<1> QED BY <1>3, <1>5, <1>6, <1>8, <1>10, <1>11, <1>12, <1>14 DEF Chosen, f

LEMMA PreemptedFields ==
    ASSUME LineType, NEW r \in Reqs, request'[r] = Preempted(r)
    PROVE  /\ request'[r].state = "preempted" /\ request'[r].computed = 0
           /\ request'[r].out = request[r].out /\ request'[r].drafts = 0
           /\ request'[r].placeholders = request[r].placeholders
<1> DEFINE f == request[r]
           x == Preempted(r)
<1>1. f \in RequestRec
  BY PlaceTypes
<1>2. x = [f EXCEPT !.state = "preempted", !.computed = 0, !.drafts = 0]
  BY DEF Preempted
<1> HIDE DEF f, x
<1>3. /\ x.state = "preempted" /\ x.computed = 0 /\ x.out = f.out
      /\ x.placeholders = f.placeholders /\ x.drafts = 0
  BY <1>1, <1>2 DEF RequestRec
<1> QED BY <1>3 DEF f, x

(* The three ways a scheduling step may treat a request.                   *)
LEMMA PlanCases ==
    ASSUME LineType, NEW so, Plan(so), NEW r \in Reqs
    PROVE  \/ r \in DOMAIN so.req /\ Chosen(r, so.req[r])
           \/ /\ r \notin DOMAIN so.req /\ request'[r] = request[r]
              /\ Schedulable(r) => request[r].drafts = 0
           \/ /\ r \notin DOMAIN so.req /\ Running(r) /\ so.order # <<>>
              /\ request'[r].state = "preempted" /\ request'[r].computed = 0
              /\ request'[r].out = request[r].out /\ request'[r].drafts = 0
              /\ request'[r].placeholders = request[r].placeholders
<1>1. Planned(so, r)
  BY DEF Plan
<1>2. ASSUME r \in DOMAIN so.req, Schedulable(r), NEW n \in Nat \ {0}, n <= Left(r),
             so.req[r] = ScheduledOf(r, n), request'[r] = AfterSchedule(r, n)
      PROVE  Chosen(r, so.req[r])
  BY <1>2, ChosenFields
<1>3. CASE /\ r \notin DOMAIN so.req /\ Running(r) /\ so.order # <<>>
           /\ request'[r] = Preempted(r)
  BY <1>3, PreemptedFields
<1> QED BY <1>1, <1>2, <1>3 DEF Planned

LEMMA PlanCounts ==
    ASSUME LineType, NEW so, Plan(so), NEW r \in Reqs
    PROVE  LET q == so.req[r]
           IN  /\ r \in DOMAIN so.req =>
                    /\ Owed(r)' = Owed(r) + Owes(q) /\ Ahead(r)' = Ahead(r) + q.n
                    /\ Owes(q) \in Nat
                    /\ Afresh(r)' <=> Afresh(r) \/ q.kind # "run"
               /\ r \notin DOMAIN so.req =>
                    /\ Owed(r)' = Owed(r) /\ Ahead(r)' = Ahead(r)
                    /\ Afresh(r)' <=> Afresh(r)
                    /\ Base(r)' = Base(r)
<1> DEFINE q == so.req[r]
<1>1. InFlight < Depth /\ so \in SchedulerOutput /\ Line' = Append(Line, so)
  BY DEF Plan
<1>2. UNCHANGED <<mode, worker, pending, outputs, sampled, cached>>
  BY DEF Plan
<1>3. /\ OwedStep(r)' = OwedStep(r) /\ AheadStep(r)' = AheadStep(r) /\ Owed2(r)' = Owed2(r)
      /\ cached' = cached
  BY <1>2, Rested
<1>4. /\ OwedBox(1, r) \in Nat /\ AheadBox(1, r) \in Nat /\ OwedStep(r) \in Nat
      /\ AheadStep(r) \in Nat /\ GotOut(1, r) \in Nat /\ Owed2(r) \in Nat
  BY CountTypes DEF Owed2
<1>5. r \in DOMAIN so.req => q \in ScheduledRec /\ Owes(q) \in Nat /\ q.n \in Nat
  <2>1. so.req \in StepReqs
    BY <1>1 DEF SchedulerOutput
  <2> QED BY <2>1, StepReqsFacts, RecordTypes
<1>6. \A p : Owes(p)' = Owes(p)
  BY DEF Owes, Reach
<1>7. CASE Line = <<>>
  <2>1. /\ ~InBox(1, r) /\ ~InBox(2, r)
        /\ InBox(1, r)' <=> r \in DOMAIN so.req
        /\ Boxed(1, r)' = q
        /\ ~InBox(2, r)'
    BY <1>1, <1>7, Appended
  <2>2. /\ OwedBox(1, r) = 0 /\ OwedBox(2, r) = 0 /\ AheadBox(1, r) = 0 /\ AheadBox(2, r) = 0
        /\ OwedBox(2, r)' = 0 /\ AheadBox(2, r)' = 0
        /\ OwedBox(1, r)' = IF r \in DOMAIN so.req THEN Owes(q) ELSE 0
        /\ AheadBox(1, r)' = IF r \in DOMAIN so.req THEN q.n ELSE 0
    BY <2>1, <1>6 DEF OwedBox, AheadBox
  <2>3. /\ ~Afresh(r)
        /\ Afresh(r)' <=> r \in DOMAIN so.req /\ q.kind # "run"
    BY <2>1 DEF Afresh
  <2> HIDE DEF q
  <2> QED BY <2>2, <2>3, <1>3, <1>4, <1>5 DEF Owed, Ahead, Base, q
<1>8. CASE Line # <<>>
  <2>1. /\ ~InBox(2, r)
        /\ InBox(1, r)' <=> InBox(1, r)
        /\ Boxed(1, r)' = Boxed(1, r)
        /\ InBox(2, r)' <=> r \in DOMAIN so.req
        /\ Boxed(2, r)' = q
    BY <1>1, <1>8, Appended
  <2>2. /\ OwedBox(1, r)' = OwedBox(1, r) /\ AheadBox(1, r)' = AheadBox(1, r)
        /\ OwedBox(2, r) = 0 /\ AheadBox(2, r) = 0
        /\ OwedBox(2, r)' = IF r \in DOMAIN so.req THEN Owes(q) ELSE 0
        /\ AheadBox(2, r)' = IF r \in DOMAIN so.req THEN q.n ELSE 0
    BY <2>1, <1>6 DEF OwedBox, AheadBox
  <2>3. Afresh(r)' <=> Afresh(r) \/ (r \in DOMAIN so.req /\ q.kind # "run")
    BY <2>1 DEF Afresh
  <2> HIDE DEF q
  <2> QED BY <2>2, <2>3, <1>3, <1>4, <1>5 DEF Owed, Ahead, Base, q
<1> QED BY <1>7, <1>8

(* A request that has to start again is nowhere in the line.               *)
LEMMA NotRunningIdle ==
    ASSUME LineType, NEW so, Plan(so), NEW r \in Reqs, RequestInv(r), Live(r), ~Running(r)
    PROVE  /\ Idle(r) /\ Owed(r) = 0 /\ Owed2(r) = 0 /\ Got2(r) = 0 /\ Ahead(r) = 0
           /\ request[r].computed = 0 /\ request[r].drafts = 0 /\ request[r].placeholders = 0
           /\ Kind(r) \in {"new", "resumed"}
<1>1. request[r].state \in {"waiting", "preempted"}
  BY PlaceTypes, RecordTypes DEF Live, Running
<1>2. ~InNewest(r) => Idle(r)
  BY Appended DEF Plan
<1>3. Idle(r)
  BY <1>1, <1>2 DEF RequestInv, StateInv
<1>4. Owed(r) = 0 /\ Owed2(r) = 0 /\ Got2(r) = 0 /\ Ahead(r) = 0
  BY <1>3 DEF Idle, Owed, Owed2, Got2, Ahead, GotOut, OwedOut, OwedStep, OwedBox, AheadBox,
              AheadStep
<1>5. request[r].computed = 0 /\ request[r].drafts = 0 /\ request[r].placeholders = 0
  BY <1>4 DEF RequestInv, CountInv
<1> QED BY <1>1, <1>3, <1>4, <1>5 DEF Kind

LEMMA RunningKind ==
    ASSUME NEW r, Running(r)
    PROVE  Kind(r) = "run" /\ Live(r)
BY DEF Running, Kind, Live

LEMMA WaitingKind ==
    ASSUME NEW r, Kind(r) = "new"
    PROVE  request[r].state = "waiting"
BY DEF Kind

(* The numbers of a request.                                               *)
LEMMA Numbers ==
    ASSUME LineType, NEW r \in Reqs
    PROVE  /\ request[r].computed \in Int /\ request[r].out \in Nat
           /\ request[r].placeholders \in Int /\ request[r].drafts \in Nat
           /\ Left(r) = PromptLen + request[r].out + request[r].placeholders
                           + request[r].drafts - request[r].computed
           /\ Left(r) \in Int /\ PromptLen \in Nat \ {0}
           /\ cached[r] \in Nat /\ sampled[r] \in Nat /\ Base(r) \in Nat
           /\ Owed(r) \in Nat /\ Owed2(r) \in Nat /\ Got2(r) \in Nat /\ Ahead(r) \in Nat
<1>1. /\ request[r].computed \in Int /\ request[r].out \in Nat
      /\ request[r].placeholders \in Int /\ request[r].drafts \in Nat
  BY PlaceTypes, RecordTypes
<1>2. PromptLen \in Nat \ {0}
  BY RunnerAssumption
<1>3. cached[r] \in Nat /\ sampled[r] \in Nat /\ Base(r) \in Nat
  BY DEF LineType, Base
<1>4. Owed(r) \in Nat /\ Owed2(r) \in Nat /\ Got2(r) \in Nat /\ Ahead(r) \in Nat
  BY CountTypes DEF Owed, Owed2, Got2, Ahead
<1> QED BY <1>1, <1>2, <1>3, <1>4 DEF Left

LEMMA ChosenGood ==
    ASSUME LineType, NEW so, Plan(so), NEW r \in Reqs, RequestInv(r), NEW q, Chosen(r, q)
    PROVE  GoodReq(q)
<1>0. /\ q.n \in Nat \ {0} /\ q.drafts \in Nat /\ q.drafts <= request[r].drafts
      /\ q.kind = Kind(r)
      /\ q.outputs = request[r].out + request[r].placeholders
      /\ q.drafts = (IF Left(r) - q.n < request[r].drafts
                     THEN request[r].drafts - (Left(r) - q.n) ELSE 0)
      /\ Reach(q) <=> Left(r) - q.n <= request[r].drafts
  BY DEF Chosen
<1>9. /\ request[r].drafts \in Nat /\ request[r].out \in Nat /\ Specs \in Nat
      /\ request[r].placeholders \in Int /\ request[r].computed \in Int /\ PromptLen \in Nat
      /\ Left(r) = PromptLen + request[r].out + request[r].placeholders
                      + request[r].drafts - request[r].computed
      /\ Left(r) \in Int
  BY Numbers, Sizes
<1>1. request[r].drafts <= Specs /\ request[r].placeholders >= 0
  BY Numbers DEF RequestInv, CountInv, Chosen
<1>2. q.drafts < q.n
  <2>1. CASE q.drafts > 0
    <3>1. request[r].drafts > 0 /\ Specs > 0
      BY SMTT(30), <2>1, <1>1, Numbers, Sizes DEF Chosen
    <3>2. Running(r)
      BY <3>1, NotRunningIdle DEF Chosen
    <3>4. PromptLen + request[r].out + request[r].placeholders > request[r].computed
      BY <3>1, <3>2, Sizes DEF RequestInv, LeftInv
    <3>3. Left(r) > request[r].drafts
      BY <3>4, <1>9
    <3> QED BY <2>1, <3>3, <1>0, <1>9
  <2>2. CASE q.drafts = 0
    BY <2>2, <1>0
  <2> QED BY <2>1, <2>2, <1>0
<1>3. q.drafts <= Specs /\ q.outputs >= 0 /\ (q.drafts > 0 => Reach(q))
  BY <1>0, <1>1, <1>9
<1>4. q.kind # "run" => q.computed = 0
  BY RunningKind, NotRunningIdle DEF Chosen
<1>5. q.kind = "new" => q.outputs = 0
  <2>1. ASSUME Kind(r) = "new"
        PROVE  request[r].out = 0 /\ request[r].placeholders = 0
    BY <2>1, WaitingKind DEF RequestInv, StateInv
  <2> QED BY <2>1, <1>0
<1> QED BY <1>2, <1>3, <1>4, <1>5 DEF GoodReq

LEMMA PlanGood ==
    ASSUME LineType, NEW so, Plan(so), NEW r \in Reqs, RequestInv(r)
    PROVE  GoodSteps(r)'
<1>1. r \in DOMAIN so.req => GoodReq(so.req[r])
  BY PlanCases, ChosenGood
<1>2. /\ InFlight < Depth /\ so \in SchedulerOutput /\ Line' = Append(Line, so)
      /\ UNCHANGED <<mode, worker, pending, outputs, sampled, cached>>
  BY DEF Plan
<1>3. \A q : GoodReq(q)' <=> GoodReq(q)
  BY <1>2, Rested DEF GoodReq, Reach
<1>4. GoodSteps(r)
  BY DEF RequestInv
<1>5. \A i \in {1, 2} : InBox(i, r)' => GoodReq(Boxed(i, r))'
  <2>1. CASE Line = <<>>
    <3>1. /\ InBox(1, r)' <=> r \in DOMAIN so.req
          /\ Boxed(1, r)' = so.req[r] /\ ~InBox(2, r)'
      BY <1>2, <2>1, Appended
    <3> QED BY <3>1, <1>1, <1>3
  <2>2. CASE Line # <<>>
    <3>1. /\ InBox(1, r)' <=> InBox(1, r)
          /\ Boxed(1, r)' = Boxed(1, r)
          /\ InBox(2, r)' <=> r \in DOMAIN so.req
          /\ Boxed(2, r)' = so.req[r]
      BY <1>2, <2>2, Appended
    <3> QED BY <3>1, <1>1, <1>3, <1>4 DEF GoodSteps
  <2> QED BY <2>1, <2>2
<1>6. InStep(r)' => GoodReq(Step.req[r])'
  BY <1>2, <1>3, <1>4, Rested DEF GoodSteps
<1>7. outputs' = outputs /\ Specs' = Specs /\ \A i \in {1, 2} : InOut(i, r)' <=> InOut(i, r)
  BY <1>2, Rested
<1> QED BY <1>4, <1>5, <1>6, <1>7 DEF GoodSteps

LEMMA PlanEnded ==
    ASSUME LineType, NEW so, Plan(so), NEW r \in Reqs, RequestInv(r)
    PROVE  EndedInv(r)'
<1>1. /\ InFlight < Depth /\ so \in SchedulerOutput /\ Line' = Append(Line, so)
      /\ so.ended = finished /\ finished' = {}
  BY DEF Plan
<1>2. ~Live(r) => ~Live(r)' /\ r \notin DOMAIN so.req
  BY PlanCases, RunningKind DEF Live, Chosen
<1>3. EndedInv(r)
  BY DEF RequestInv
<1>4. CASE Line = <<>>
  <2>1. /\ EndsBox(1, r)' <=> r \in finished
        /\ InBox(1, r)' <=> r \in DOMAIN so.req
        /\ ~EndsBox(2, r)' /\ ~InBox(2, r)'
    BY <1>1, <1>4, Appended
  <2> QED BY <2>1, <1>1, <1>2, <1>3 DEF EndedInv
<1>5. CASE Line # <<>>
  <2>1. /\ EndsBox(1, r)' <=> EndsBox(1, r)
        /\ InBox(1, r)' <=> InBox(1, r)
        /\ EndsBox(2, r)' <=> r \in finished
        /\ InBox(2, r)' <=> r \in DOMAIN so.req
    BY <1>1, <1>5, Appended
  <2> QED BY <2>1, <1>1, <1>2, <1>3 DEF EndedInv
<1> QED BY <1>4, <1>5

LEMMA PlanState ==
    ASSUME LineType, NEW so, Plan(so), NEW r \in Reqs, RequestInv(r)
    PROVE  StateInv(r)'
<1>1. /\ InFlight < Depth /\ so \in SchedulerOutput /\ Line' = Append(Line, so)
      /\ UNCHANGED <<mode, worker, pending, outputs, sampled, cached>>
  BY DEF Plan
<1>2. InNewest(r)' <=> r \in DOMAIN so.req
  BY <1>1, Appended
<1>3. /\ InWorker(r)' <=> InWorker(r)
      /\ InStep(r)' <=> InStep(r)
      /\ InOut(1, r)' <=> InOut(1, r)
      /\ InOut(2, r)' <=> InOut(2, r)
      /\ sampled' = sampled
  BY <1>1, Rested
<1>4. /\ r \in DOMAIN so.req => InBox(1, r)' \/ InBox(2, r)'
      /\ r \notin DOMAIN so.req => (InBox(1, r)' <=> InBox(1, r)) /\ (InBox(2, r)' <=> InBox(2, r))
  BY <1>1, Appended
<1>5. StateInv(r)
  BY DEF RequestInv
<1>6. CASE r \in DOMAIN so.req
  BY <1>4, <1>6, PlanCases DEF StateInv, Chosen
<1>7. CASE r \notin DOMAIN so.req /\ request'[r] = request[r]
  BY <1>2, <1>3, <1>4, <1>5, <1>7 DEF StateInv, Idle
<1>8. CASE r \notin DOMAIN so.req /\ Running(r) /\ request'[r].state = "preempted"
  BY <1>2, <1>3, <1>4, <1>5, <1>8 DEF StateInv, Running
<1> QED BY <1>6, <1>7, <1>8, PlanCases

LEMMA PlanCount ==
    ASSUME LineType, NEW so, Plan(so), NEW r \in Reqs, RequestInv(r)
    PROVE  CountInv(r)'
<1> DEFINE q == so.req[r]
<1>1. UNCHANGED <<mode, worker, pending, outputs, sampled, cached>>
  BY DEF Plan
<1>2. /\ Owed2(r)' = Owed2(r) /\ Got2(r)' = Got2(r) /\ sampled' = sampled /\ cached' = cached
      /\ Async' = Async /\ Specs' = Specs
  BY <1>1, Rested
<1>3. CountInv(r)
  BY DEF RequestInv
<1>4. /\ Specs \in Nat /\ request[r].drafts \in Nat
  BY Sizes, Numbers
<1>5. CASE r \in DOMAIN so.req
  <2>1. Chosen(r, q)
    BY <1>5, PlanCases
  <2>2. /\ Owed(r)' = Owed(r) + Owes(q) /\ Ahead(r)' = Ahead(r) + q.n /\ Owes(q) \in Nat
        /\ Afresh(r)' <=> Afresh(r) \/ q.kind # "run"
    BY <1>5, PlanCounts
  <2>3. Live(r)' /\ Running(r)' /\ Live(r)
    BY <2>1 DEF Chosen, Live, Running
  <2>4. /\ request'[r].out + Got2(r)' = sampled'[r]
        /\ request'[r].drafts <= Specs
    BY <1>2, <1>3, <2>1, <2>3, <1>4 DEF CountInv, Chosen
  <2>5. request'[r].placeholders = IF Async THEN Owed(r)' ELSE 0
    BY <1>3, <2>1, <2>2, <2>3, Numbers DEF CountInv, Chosen
  <2>6. request'[r].computed = Base(r)' + Owed2(r) - Got2(r) + Ahead(r)'
    <3>1. CASE Running(r)
      <4>1. q.kind = "run"
        BY <2>1, <3>1, RunningKind DEF Chosen
      <4>2. Base(r)' = Base(r)
        BY <1>2, <2>2, <4>1 DEF Base
      <4>3. request'[r].computed = request[r].computed + q.n /\ q.n \in Nat
        BY <2>1 DEF Chosen
      <4>4. request[r].computed = Base(r) + Owed2(r) - Got2(r) + Ahead(r)
        BY <1>3, <2>3, <3>1 DEF CountInv
      <4> HIDE DEF q
      <4> QED BY <2>2, <4>2, <4>3, <4>4, Numbers
    <3>2. CASE ~Running(r)
      <4>1. /\ Owed2(r) = 0 /\ Got2(r) = 0 /\ Ahead(r) = 0 /\ request[r].computed = 0
            /\ q.kind # "run"
        BY <2>1, <2>3, <3>2, NotRunningIdle DEF Chosen
      <4>2. Base(r)' = 0
        BY <2>2, <4>1 DEF Base
      <4>3. request'[r].computed = request[r].computed + q.n /\ q.n \in Nat
        BY <2>1 DEF Chosen
      <4> HIDE DEF q
      <4> QED BY <2>2, <4>1, <4>2, <4>3
    <3> QED BY <3>1, <3>2
  <2> QED BY <1>2, <2>3, <2>4, <2>5, <2>6 DEF CountInv
<1>6. CASE r \notin DOMAIN so.req
  <2>1. Owed(r)' = Owed(r) /\ Ahead(r)' = Ahead(r) /\ Base(r)' = Base(r)
    BY <1>6, PlanCounts
  <2>2. CASE request'[r] = request[r]
    BY <1>2, <1>3, <2>1, <2>2 DEF CountInv, Live, Running
  <2>3. CASE /\ Running(r) /\ request'[r].state = "preempted" /\ request'[r].computed = 0
             /\ request'[r].out = request[r].out /\ request'[r].drafts = 0
             /\ request'[r].placeholders = request[r].placeholders
    BY <1>2, <1>3, <1>4, <2>1, <2>3 DEF CountInv, Live, Running
  <2> QED BY <1>6, <2>2, <2>3, PlanCases
<1> QED BY <1>5, <1>6

LEMMA PlanBoxes ==
    ASSUME LineType, NEW so, Plan(so), NEW r \in Reqs
    PROVE  /\ r \in DOMAIN so.req => InBox(1, r)' \/ InBox(2, r)'
           /\ r \notin DOMAIN so.req =>
                \A i \in {1, 2} : /\ InBox(i, r)' <=> InBox(i, r)
                                  /\ InBox(i, r) => Boxed(i, r)' = Boxed(i, r)
                                  /\ OwedBox(i, r)' = OwedBox(i, r)
<1>1. InFlight < Depth /\ so \in SchedulerOutput /\ Line' = Append(Line, so)
  BY DEF Plan
<1>2. r \in DOMAIN so.req => InBox(1, r)' \/ InBox(2, r)'
  BY <1>1, Appended
<1>3. ASSUME r \notin DOMAIN so.req, NEW i \in {1, 2}
      PROVE  /\ InBox(i, r)' <=> InBox(i, r)
             /\ InBox(i, r) => Boxed(i, r)' = Boxed(i, r)
  BY <1>1, <1>3, Appended
<1>4. \A p : Owes(p)' = Owes(p)
  BY DEF Owes, Reach
<1>5. ASSUME r \notin DOMAIN so.req, NEW i \in {1, 2}
      PROVE  OwedBox(i, r)' = OwedBox(i, r)
  BY <1>3, <1>4, <1>5 DEF OwedBox
<1> QED BY <1>2, <1>3, <1>5

LEMMA PlanLeft ==
    ASSUME LineType, NEW so, Plan(so), NEW r \in Reqs, RequestInv(r)
    PROVE  LeftInv(r)'
<1>1. UNCHANGED <<mode, worker, pending, outputs, sampled, cached>>
  BY DEF Plan
<1>2. /\ Async' = Async /\ Specs' = Specs /\ cached' = cached
      /\ InStep(r)' <=> InStep(r)
  BY <1>1, Rested
<1>3. CASE r \in DOMAIN so.req
  <2> DEFINE q == so.req[r]
             L == Left(r)
             c == request[r].computed
             o == request[r].out
             p == request[r].placeholders
             d == request[r].drafts
             w == Owes(q)
  <2>1. Chosen(r, q)
    BY <1>3, PlanCases
  <2>2. /\ L \in Int /\ c \in Int /\ o \in Nat /\ p \in Int /\ d \in Nat
        /\ L = PromptLen + o + p + d - c /\ PromptLen \in Nat
        /\ Specs \in Nat
    BY Numbers, Sizes
  <2>3. /\ q.n \in Nat \ {0} /\ q.n <= L /\ q.drafts \in Nat
        /\ q.drafts = (IF L - q.n < d THEN d - (L - q.n) ELSE 0)
        /\ Reach(q) <=> L - q.n <= d
        /\ request'[r].computed = c + q.n /\ request'[r].out = o
        /\ request'[r].placeholders = p + (IF Async THEN w ELSE 0)
        /\ request'[r].drafts = IF Reach(q) THEN Specs ELSE d
    BY <2>1 DEF Chosen
  <2>4. w = IF Reach(q) THEN q.drafts + 1 ELSE 0
    BY DEF Owes
  <2> HIDE DEF L, c, o, p, d, w
  <2>5. Async => PromptLen + request'[r].out + request'[r].placeholders > request'[r].computed
    <3>1. CASE Reach(q)
      BY <3>1, <2>2, <2>3, <2>4
    <3>2. CASE ~Reach(q)
      BY <3>2, <2>2, <2>3, <2>4
    <3> QED BY <3>1, <3>2
  <2>6. ASSUME ~Async
        PROVE  Left(r)' >= 0 /\ Owed(r)' <= 1 /\ (Owed(r)' > 0 => Left(r)' <= 0)
    <3>1. Specs = 0 /\ d = 0
      <4>1. Specs = 0 /\ request[r].drafts \in Nat
        BY <2>6, Sizes, Numbers
      <4>2. Live(r)
        BY <2>1 DEF Chosen
      <4> QED BY <4>1, <4>2 DEF RequestInv, CountInv, d
    <3>2. Owed(r) = 0
      <4>1. CASE Running(r)
        <5>1. Owed(r) > 0 => L <= 0
          BY <2>6, <4>1 DEF RequestInv, LeftInv, L
        <5>2. L > 0
          BY <2>2, <2>3
        <5>3. Owed(r) \in Nat
          BY Numbers
        <5> QED BY <5>1, <5>2, <5>3, <2>2
      <4>2. CASE ~Running(r)
        BY <4>2, <2>1, NotRunningIdle DEF Chosen
      <4> QED BY <4>1, <4>2
    <3>3. Owed(r)' = w
      <4>1. Owed(r)' = Owed(r) + Owes(q) /\ Owes(q) \in Nat
        BY <1>3, PlanCounts
      <4> QED BY <4>1, <3>2 DEF w
    <3>4. Left(r)' = PromptLen + request'[r].out + request'[r].placeholders
                        + request'[r].drafts - request'[r].computed
      BY DEF Left
    <3>5. Left(r)' = L - q.n
      BY <3>1, <3>4, <2>2, <2>3, <2>6
    <3> QED BY <3>1, <3>3, <3>5, <2>2, <2>3, <2>4
  <2>7. InBox(1, r)' \/ InBox(2, r)'
    BY <1>3, PlanBoxes
  <2> QED BY <1>2, <2>5, <2>6, <2>7 DEF LeftInv
<1>4. CASE r \notin DOMAIN so.req
  <2>1. CASE request'[r] = request[r]
    <3>1. LeftInv(r)
      BY DEF RequestInv
    <3>2. Left(r)' = Left(r) /\ (Running(r)' <=> Running(r))
      BY <2>1 DEF Left, Running
    <3>3. Owed(r)' = Owed(r)
      BY <1>4, PlanCounts
    <3>4. /\ InBox(1, r)' <=> InBox(1, r)
          /\ InBox(2, r)' <=> InBox(2, r)
      BY <1>4, PlanBoxes
    <3> QED BY <1>2, <2>1, <3>1, <3>2, <3>3, <3>4 DEF LeftInv
  <2>2. CASE request'[r].state = "preempted"
    BY <2>2 DEF LeftInv, Running
  <2> QED BY <1>4, <2>1, <2>2, PlanCases
<1> QED BY <1>3, <1>4

LEMMA PlanDraft ==
    ASSUME LineType, NEW so, Plan(so), NEW r \in Reqs, RequestInv(r)
    PROVE  DraftInv(r)'
<1>1. /\ InFlight < Depth /\ so \in SchedulerOutput /\ Line' = Append(Line, so)
      /\ UNCHANGED <<mode, worker, pending, outputs, sampled, cached>>
  BY DEF Plan
<1>2. InNewest(r)' <=> r \in DOMAIN so.req
  BY <1>1, Appended
<1>3. /\ Limit' = Limit /\ (InWorker(r)' <=> InWorker(r)) /\ Drafted(r)' = Drafted(r)
  BY <1>1, Rested
<1>4. /\ request[r].drafts <= Specs \/ ~Live(r)
      /\ request[r].drafts \in Nat /\ Specs \in Nat
  BY Numbers, Sizes DEF RequestInv, CountInv
<1>5. CASE r \in DOMAIN so.req
  <2> DEFINE q == so.req[r]
  <2>1. Chosen(r, q)
    BY <1>5, PlanCases
  <2>2. /\ request'[r].drafts = (IF Reach(q) THEN Specs ELSE request[r].drafts)
        /\ Live(r) /\ q.drafts \in Nat /\ q.drafts <= request[r].drafts
    BY <2>1 DEF Chosen
  <2>3. request[r].drafts > 0 => request'[r].drafts > 0
    BY <1>4, <2>2
  <2>4. q.drafts > 0 => request'[r].drafts > 0
    BY <1>4, <2>2, <2>3
  <2>5. InBox(1, r) /\ Boxed(1, r).drafts > 0 => request'[r].drafts > 0
    <3>1. ~Running(r) => ~InBox(1, r)
      BY <2>2, NotRunningIdle DEF Idle
    <3>2. Running(r) /\ InBox(1, r) /\ Boxed(1, r).drafts > 0 => request[r].drafts > 0
      BY DEF RequestInv, DraftInv
    <3> QED BY <3>1, <3>2, <2>3
  <2>6. InBox(1, r)' \/ InBox(2, r)'
    BY <1>5, PlanBoxes
  <2>7. ASSUME NEW i \in {1, 2}, InBox(i, r)', Boxed(i, r)'.drafts > 0
        PROVE  request'[r].drafts > 0
    <3>1. Boxed(i, r)' = q \/ (InBox(1, r) /\ Boxed(i, r)' = Boxed(1, r))
      BY <1>1, <2>7, Appended
    <3> HIDE DEF q
    <3> QED BY <2>4, <2>5, <2>7, <3>1
  <2> QED BY <1>2, <1>5, <2>6, <2>7 DEF DraftInv
<1>6. CASE r \notin DOMAIN so.req
  <2>1. CASE request'[r] = request[r] /\ (Schedulable(r) => request[r].drafts = 0)
    <3>1. DraftInv(r)
      BY DEF RequestInv
    <3>2. Running(r)' <=> Running(r)
      BY <2>1 DEF Running
    <3>3. \A i \in {1, 2} : /\ InBox(i, r)' <=> InBox(i, r)
                            /\ InBox(i, r) => Boxed(i, r)' = Boxed(i, r)
      BY <1>6, PlanBoxes
    <3>4. ASSUME Running(r), request[r].drafts > 0
          PROVE  request[r].placeholders > 0 /\ request[r].out + 1 >= Limit
      <4>1. Live(r)
        BY <3>4 DEF Running, Live
      <4>2. Async
        BY <1>4, <3>4, <4>1, Sizes
      <4>3. PromptLen + request[r].out + request[r].placeholders > request[r].computed
        BY <3>4, <4>2 DEF RequestInv, LeftInv
      <4>4. Left(r) > 0
        BY <3>4, <4>3, Numbers
      <4>5. ~Schedulable(r)
        BY <2>1, <3>4
      <4> QED BY <4>1, <4>4, <4>5 DEF Schedulable, Live
    <3> QED BY <1>3, <2>1, <3>1, <3>2, <3>3, <3>4 DEF DraftInv
  <2>2. CASE request'[r].state = "preempted"
    BY <2>2 DEF DraftInv, Running
  <2> QED BY <1>6, <2>1, <2>2, PlanCases
<1> QED BY <1>5, <1>6

LEMMA PlanRoom ==
    ASSUME LineType, NEW so, Plan(so), NEW r \in Reqs, RequestInv(r)
    PROVE  RoomInv(r)'
<1>1. /\ InFlight < Depth /\ so \in SchedulerOutput /\ Line' = Append(Line, so)
      /\ UNCHANGED <<mode, worker, pending, outputs, sampled, cached>>
  BY DEF Plan
<1>2. /\ Step' = Step /\ (InRows(r)' <=> InRows(r)) /\ (InStep(r)' <=> InStep(r))
      /\ OutLen(r)' = OutLen(r) /\ Drafted(r)' = Drafted(r) /\ OwedStep(r)' = OwedStep(r)
      /\ Async' = Async
  BY <1>1, Rested
<1>3. CASE r \in DOMAIN so.req
  <2> DEFINE q == so.req[r]
  <2>1. Chosen(r, q)
    BY <1>3, PlanCases
  <2>2. Async => request'[r].out + request'[r].placeholders = q.outputs + Owes(q)
    <3>1. /\ request'[r].out = request[r].out
          /\ Async => request'[r].placeholders = request[r].placeholders + Owes(q)
          /\ q.outputs = request[r].out + request[r].placeholders
      BY <2>1 DEF Chosen
    <3>2. Owes(q) \in Nat
      BY <1>3, PlanCounts
    <3> QED BY <3>1, <3>2, Numbers
  <2>3. q.outputs \in Int /\ Owes(q) \in Nat
    <3>1. Owes(q) \in Nat
      BY <1>3, PlanCounts
    <3> QED BY <3>1, <2>1, Numbers DEF Chosen
  <2>4. \A p : Owes(p)' = Owes(p)
    BY DEF Owes, Reach
  <2>5. \/ InBox(1, r)' /\ ~InBox(2, r)' /\ Boxed(1, r)' = q /\ OwedBox(1, r)' = Owes(q)
        \/ InBox(2, r)' /\ Boxed(2, r)' = q /\ OwedBox(2, r)' = Owes(q)
    BY <1>1, <1>3, <2>4, Appended DEF OwedBox
  <2> HIDE DEF q
  <2>6. CASE InBox(1, r)' /\ ~InBox(2, r)' /\ Boxed(1, r)' = q /\ OwedBox(1, r)' = Owes(q)
    BY <1>2, <2>2, <2>3, <2>6 DEF RoomInv
  <2>7. CASE InBox(2, r)' /\ Boxed(2, r)' = q /\ OwedBox(2, r)' = Owes(q)
    BY <1>2, <2>2, <2>3, <2>7 DEF RoomInv
  <2> QED BY <2>5, <2>6, <2>7
<1>4. CASE r \notin DOMAIN so.req
  <2>1. CASE request'[r] = request[r]
    <3>1. RoomInv(r)
      BY DEF RequestInv
    <3>2. Running(r)' <=> Running(r)
      BY <2>1 DEF Running
    <3>3. \A i \in {1, 2} : /\ InBox(i, r)' <=> InBox(i, r)
                            /\ InBox(i, r) => Boxed(i, r)' = Boxed(i, r)
                            /\ OwedBox(i, r)' = OwedBox(i, r)
      BY <1>4, PlanBoxes
    <3> QED BY <1>2, <2>1, <3>1, <3>2, <3>3 DEF RoomInv
  <2>2. CASE request'[r].state = "preempted"
    BY <2>2 DEF RoomInv, Running
  <2> QED BY <1>4, <2>1, <2>2, PlanCases
<1> QED BY <1>3, <1>4

(* Where a scheduled request stands.                                       *)
LEMMA ChosenStands ==
    ASSUME LineType, NEW so, Plan(so), NEW r \in Reqs, RequestInv(r), r \in DOMAIN so.req
    PROVE  LET q == so.req[r]
           IN  /\ q.kind = "run" =>
                    /\ Running(r) /\ Base(r)' = Base(r)
                    /\ q.computed = Base(r) + Owed2(r) - Got2(r) + Ahead(r)
               /\ q.kind # "run" => Idle(r) /\ Base(r)' = 0 /\ q.computed = 0
               /\ q.kind = "new" => ~InWorker(r)
               /\ q.kind = "new" \/ InWorker(r) \/ InBox(1, r)
               /\ Async /\ Owed(r) = 0 => q.outputs = q.known
               /\ Async /\ Running(r) => q.outputs = request[r].out + request[r].placeholders
               /\ Idle(r) => q.computed = Base(r)' /\ Owed(r) = 0
               /\ q.computed \in Int /\ q.outputs \in Int
<1> DEFINE q == so.req[r]
<1>1. Chosen(r, q)
  BY PlanCases
<1>2. /\ q.kind = Kind(r) /\ q.computed = request[r].computed /\ Live(r)
      /\ q.outputs = request[r].out + request[r].placeholders /\ q.known = request[r].out
  BY <1>1 DEF Chosen
<1>3. /\ Afresh(r)' <=> Afresh(r) \/ q.kind # "run"
      /\ cached' = cached
  BY PlanCounts DEF Plan
<1>4. StateInv(r) /\ CountInv(r)
  BY DEF RequestInv
<1>5. q.kind = "run" =>
        /\ Running(r) /\ Base(r)' = Base(r)
        /\ q.computed = Base(r) + Owed2(r) - Got2(r) + Ahead(r)
  <2>1. q.kind = "run" => Running(r)
    BY <1>2, NotRunningIdle
  <2>2. q.kind = "run" => Base(r)' = Base(r)
    BY <1>3 DEF Base
  <2> QED BY <2>1, <2>2, <1>2, <1>4 DEF CountInv
<1>6. q.kind # "run" => Idle(r) /\ Base(r)' = 0 /\ q.computed = 0
  <2>1. q.kind # "run" => ~Running(r)
    BY <1>2, RunningKind
  <2>2. q.kind # "run" => Base(r)' = 0
    BY <1>3 DEF Base
  <2> QED BY <2>1, <2>2, <1>2, NotRunningIdle
<1>7. q.kind = "new" => ~InWorker(r)
  BY <1>2, <1>4, WaitingKind DEF StateInv
<1>8. q.kind = "new" \/ InWorker(r) \/ InBox(1, r)
  <2>1. ~InBox(2, r)
    BY Appended DEF Plan
  <2>2. CASE Running(r)
    BY <2>1, <2>2, <1>4 DEF StateInv, Running
  <2>3. CASE ~Running(r)
    <3>1. request[r].state \in {"waiting", "preempted"}
      BY <1>2, <2>3, PlaceTypes, RecordTypes DEF Live, Running
    <3> QED BY <3>1, <2>1, <1>2, <1>4 DEF StateInv, Kind
  <2> QED BY <2>2, <2>3
<1>9. Async /\ Owed(r) = 0 => q.outputs = q.known
  BY <1>2, <1>4, Numbers DEF CountInv
<1>10. Idle(r) => q.computed = Base(r)' /\ Owed(r) = 0
  <2>1. Idle(r) => Owed(r) = 0 /\ Owed2(r) = 0 /\ Got2(r) = 0 /\ Ahead(r) = 0
    BY DEF Idle, Owed, Owed2, Got2, Ahead, GotOut, OwedOut, OwedStep, OwedBox, AheadBox, AheadStep
  <2> HIDE DEF q
  <2> QED BY <2>1, <1>5, <1>6, Numbers
<1>11. q.computed \in Int /\ q.outputs \in Int
  BY <1>2, Numbers
<1> QED BY <1>2, <1>5, <1>6, <1>7, <1>8, <1>9, <1>10, <1>11

LEMMA PlanAimNext ==
    ASSUME LineType, NEW so, Plan(so), NEW r \in Reqs, RequestInv(r), Line # <<>>
    PROVE  AimInv(r)'
<1> DEFINE q == so.req[r]
<1>1. /\ InFlight < Depth /\ so \in SchedulerOutput /\ Line' = Append(Line, so)
      /\ UNCHANGED <<mode, worker, pending, outputs, sampled, cached>>
  BY DEF Plan
<1>2. /\ Step' = Step /\ (InRows(r)' <=> InRows(r)) /\ (InWorker(r)' <=> InWorker(r))
      /\ OutLen(r)' = OutLen(r) /\ Drafted(r)' = Drafted(r) /\ (InPrev(r)' <=> InPrev(r))
      /\ Counted(r)' = Counted(r) /\ Async' = Async
  BY <1>1, Rested
<1>3. /\ Step = NoStep /\ outputs = <<>> /\ ~InBox(2, r)
      /\ InBox(1, r)' <=> InBox(1, r)
      /\ Boxed(1, r)' = Boxed(1, r)
      /\ InBox(2, r)' <=> r \in DOMAIN so.req
      /\ Boxed(2, r)' = q
  BY <1>1, Appended
<1>4. ~InStep(r) /\ ~InOut(1, r) /\ ~InOut(2, r)
  <2>1. Len(outputs) = 0
    BY <1>3, Sizes
  <2> QED BY <1>3, <2>1 DEF InStep, InOut
<1>5. Shift(r)' = Shift(r)
  BY <1>2, <1>3 DEF Shift
<1>6. InBox(1, r) => Base(r)' = Base(r)
  <2>1. CASE r \in DOMAIN so.req
    <3>1. q.kind # "run" => Idle(r)
      BY <2>1, ChosenStands
    <3>2. q.kind = "run" => Base(r)' = Base(r)
      BY <2>1, ChosenStands
    <3> QED BY <3>1, <3>2 DEF Idle
  <2>2. CASE r \notin DOMAIN so.req
    BY <2>2, PlanCounts
  <2> QED BY <2>1, <2>2
<1>7. AimInv(r)
  BY DEF RequestInv
<1>8. InBox(2, r)' /\ InBox(1, r) =>
        /\ q.kind = "run" /\ q.computed = Base(r)' + Boxed(1, r).n
        /\ Async => q.outputs <= Boxed(1, r).outputs + OwedBox(1, r)
  <2> SUFFICES ASSUME r \in DOMAIN so.req, InBox(1, r)
               PROVE  /\ q.kind = "run" /\ q.computed = Base(r)' + Boxed(1, r).n
                      /\ Async => q.outputs <= Boxed(1, r).outputs + OwedBox(1, r)
    BY <1>3
  <2>1. q.kind = "run"
    BY ChosenStands DEF Idle
  <2>2. /\ Running(r) /\ Base(r)' = Base(r)
        /\ q.computed = Base(r) + Owed2(r) - Got2(r) + Ahead(r)
        /\ Async => q.outputs = request[r].out + request[r].placeholders
    BY <2>1, ChosenStands
  <2>3. Owed2(r) = 0 /\ Got2(r) = 0
    BY <1>4 DEF Owed2, Got2, GotOut, OwedOut
  <2>4. Ahead(r) = Boxed(1, r).n
    <3>1. AheadStep(r) = 0 /\ AheadBox(2, r) = 0 /\ AheadBox(1, r) = Boxed(1, r).n
      BY <1>3, <1>4 DEF AheadStep, AheadBox
    <3>2. AheadBox(1, r) \in Nat
      BY CountTypes
    <3> QED BY <3>1, <3>2 DEF Ahead
  <2>5. q.computed = Base(r)' + Boxed(1, r).n
    <3>1. Ahead(r) \in Nat /\ Base(r) \in Nat
      BY Numbers
    <3> QED BY <2>2, <2>3, <2>4, <3>1
  <2>6. Async => q.outputs <= Boxed(1, r).outputs + OwedBox(1, r)
    <3>1. RoomInv(r)
      BY DEF RequestInv
    <3> QED BY <3>1, <2>2, <1>3 DEF RoomInv
  <2> QED BY <2>1, <2>5, <2>6
<1>9. InBox(2, r)' /\ ~InBox(1, r) => Settled(r, q)'
  <2> SUFFICES ASSUME r \in DOMAIN so.req, ~InBox(1, r)
               PROVE  Settled(r, q)'
    BY <1>3
  <2>1. Idle(r)
    BY <1>3, <1>4 DEF Idle
  <2>2. q.computed = Base(r)' /\ Owed(r) = 0 /\ (q.kind = "new" \/ InWorker(r))
    BY <2>1, ChosenStands
  <2>3. Async => q.outputs = q.known
    BY <2>2, ChosenStands
  <2>4. q' = q
    <3>1. so' = so /\ r' = r
      OBVIOUS
    <3> QED BY <3>1
  <2> HIDE DEF q
  <2> QED BY <1>2, <2>2, <2>3, <2>4 DEF Settled
<1>10. r \in DOMAIN so.req /\ q.kind = "new" => ~InWorker(r)
  BY ChosenStands
<1>11. OwedBox(1, r)' = OwedBox(1, r)
  <2>1. \A p : Owes(p)' = Owes(p)
    BY DEF Owes, Reach
  <2> QED BY <1>3, <2>1 DEF OwedBox
<1>12. ~(Step # NoStep)' /\ (Step = NoStep)'
  BY <1>2, <1>3 DEF NoStep
<1>13. (InBox(2, r) => IF InBox(1, r)
          THEN /\ Boxed(2, r).kind = "run"
               /\ Boxed(2, r).computed = Base(r) + Boxed(1, r).n
               /\ Async => Boxed(2, r).outputs <= Boxed(1, r).outputs + OwedBox(1, r)
          ELSE Settled(r, Boxed(2, r)))'
  <2>1. InBox(2, r)' /\ ~InBox(1, r)' => Settled(r, Boxed(2, r))'
    <3>1. ASSUME InBox(2, r)', ~InBox(1, r)' PROVE Settled(r, Boxed(2, r))'
      <4>1. Settled(r, q)'
        BY <3>1, <1>3, <1>9
      <4> QED BY <4>1, <1>3 DEF Settled
    <3> QED BY <3>1
  <2>2. InBox(2, r)' /\ InBox(1, r)' =>
          /\ Boxed(2, r)'.kind = "run"
          /\ Boxed(2, r)'.computed = Base(r)' + Boxed(1, r)'.n
          /\ Async' => Boxed(2, r)'.outputs <= Boxed(1, r)'.outputs + OwedBox(1, r)'
    BY <1>2, <1>3, <1>8, <1>11
  <2> QED BY <2>1, <2>2
<1> HIDE DEF q
<1>14. (Step = NoStep /\ InBox(1, r) =>
          /\ Boxed(1, r).computed - Shift(r) = Base(r)
          /\ Boxed(1, r).kind = "new" \/ InWorker(r)
          /\ Async => IF InRows(r) /\ Boxed(1, r).kind = "run"
                      THEN Boxed(1, r).outputs <= OutLen(r) + Drafted(r)
                      ELSE Boxed(1, r).outputs = Boxed(1, r).known)'
  BY <1>2, <1>3, <1>5, <1>6, <1>7 DEF AimInv
<1>15. \A i \in {1, 2} : InBox(i, r)' /\ Boxed(i, r)'.kind = "new" => ~InWorker(r)'
  BY <1>2, <1>3, <1>7, <1>10 DEF AimInv
<1> QED BY <1>12, <1>13, <1>14, <1>15 DEF AimInv

LEMMA PlanAimFirst ==
    ASSUME LineType, NEW so, Plan(so), NEW r \in Reqs, RequestInv(r), Line = <<>>
    PROVE  AimInv(r)'
<1> DEFINE q == so.req[r]
<1>1. /\ InFlight < Depth /\ so \in SchedulerOutput /\ Line' = Append(Line, so)
      /\ UNCHANGED <<mode, worker, pending, outputs, sampled, cached>>
  BY DEF Plan
<1>2. /\ Step' = Step /\ (InRows(r)' <=> InRows(r)) /\ (InWorker(r)' <=> InWorker(r))
      /\ OutLen(r)' = OutLen(r) /\ Drafted(r)' = Drafted(r) /\ (InPrev(r)' <=> InPrev(r))
      /\ Counted(r)' = Counted(r) /\ Async' = Async /\ (InStep(r)' <=> InStep(r))
      /\ OwedStep(r)' = OwedStep(r)
  BY <1>1, Rested
<1>3. /\ ~InBox(1, r) /\ ~InBox(2, r) /\ ~InOut(2, r) /\ ~InBox(2, r)'
      /\ InBox(1, r)' <=> r \in DOMAIN so.req
      /\ Boxed(1, r)' = q
      /\ Step # NoStep => outputs = <<>>
      /\ ~InNewest(r) => Idle(r)
  BY <1>1, Appended
<1>4. CASE r \notin DOMAIN so.req
  <2>1. ~InBox(1, r)' /\ ~InBox(2, r)'
    BY <1>3, <1>4
  <2> QED BY <2>1 DEF AimInv
<1>5. CASE r \in DOMAIN so.req
  <2>1. q.kind = "new" \/ InWorker(r)
    BY <1>3, <1>5, ChosenStands
  <2>2. q.kind = "new" => ~InWorker(r)
    BY <1>5, ChosenStands
  <2>3. /\ q.kind = "run" =>
             /\ Running(r) /\ Base(r)' = Base(r)
             /\ q.computed = Base(r) + Owed2(r) - Got2(r) + Ahead(r)
        /\ q.kind # "run" => Idle(r) /\ Base(r)' = 0 /\ q.computed = 0
        /\ Async /\ Owed(r) = 0 => q.outputs = q.known
        /\ Async /\ Running(r) => q.outputs = request[r].out + request[r].placeholders
        /\ Idle(r) => q.computed = Base(r)' /\ Owed(r) = 0
    BY <1>5, ChosenStands
  <2>4. Base(r) = cached[r] /\ Base(r) \in Nat /\ q.computed \in Int /\ q.outputs \in Int
    BY <1>3, <1>5, ChosenStands, Numbers DEF Base, Afresh
  <2>5. AheadBox(1, r) = 0 /\ AheadBox(2, r) = 0 /\ OwedBox(1, r) = 0 /\ OwedBox(2, r) = 0
        /\ GotOut(2, r) = 0 /\ OwedOut(2, r) = 0
    BY <1>3 DEF AheadBox, OwedBox, GotOut, OwedOut
  <2>6. GotOut(1, r) \in Nat /\ OwedOut(1, r) \in Nat /\ AheadStep(r) \in Nat /\ OwedStep(r) \in Nat
    BY CountTypes
  <2>7. RoomInv(r) /\ DraftInv(r) /\ WorkerInv(r) /\ GoodSteps(r)
    BY DEF RequestInv
  <2>8. CASE Step = NoStep
    <3>1. ~InStep(r) /\ AheadStep(r) = 0 /\ OwedStep(r) = 0
      BY <2>8 DEF InStep, AheadStep, OwedStep
    <3>2. /\ Owed2(r) = OwedOut(1, r) /\ Got2(r) = GotOut(1, r) /\ Ahead(r) = 0
          /\ Owed(r) = OwedOut(1, r)
      BY <2>5, <2>6, <3>1 DEF Owed2, Got2, Ahead, Owed
    <3> DEFINE s == IF Async /\ InRows(r) /\ q.kind = "run" /\ Drafted(r) > 0 /\ InPrev(r)
                    THEN Drafted(r) + 1 - Counted(r) ELSE 0
    <3>3. Shift(r)' = s
      BY <1>2, <1>3 DEF Shift
    <3>4. q.kind = "run" => s = OwedOut(1, r) - GotOut(1, r)
      <4> SUFFICES ASSUME q.kind = "run" PROVE s = OwedOut(1, r) - GotOut(1, r)
        OBVIOUS
      <4>1. CASE outputs = <<>>
        <5>1. Len(outputs) = 0
          BY <4>1, Sizes
        <5>2. ~InOut(1, r) /\ ~InNewest(r)
          BY <1>3, <2>8, <5>1 DEF InOut, InNewest
        <5>3. OwedOut(1, r) = 0 /\ GotOut(1, r) = 0
          BY <5>2 DEF OwedOut, GotOut
        <5>4. ~(request[r].placeholders > 0 /\ request[r].out + 1 >= Limit)
          BY <1>5, PlanCases DEF Chosen
        <5>5. ~(request[r].drafts > 0)
          BY <2>3, <2>7, <5>2, <5>4 DEF DraftInv
        <5>6. InRows(r) => ~(Drafted(r) > 0)
          BY <1>3, <2>3, <2>7, <5>5 DEF DraftInv, WorkerInv
        <5> QED BY <5>3, <5>6
      <4>2. CASE outputs # <<>>
        <5>1. Len(outputs) = 1
          BY <4>2, <1>1, <2>8, Sizes
        <5>2. InRows(r) <=> InOut(1, r)
          BY <2>7, <2>8, <4>2, <5>1 DEF WorkerInv
        <5>3. CASE ~InOut(1, r)
          BY <5>2, <5>3 DEF OwedOut, GotOut
        <5>4. CASE InOut(1, r)
          <6> DEFINE t == outputs[1][r].tokens
                     d == outputs[1][r].drafts
          <6>1. t \in Nat /\ d \in Nat
            BY <5>4, PlaceTypes
          <6>2. t <= d + 1 /\ (t = 0 => d = 0) /\ d <= Specs
            BY <2>7, <5>4 DEF GoodSteps
          <6>3. /\ Drafted(r) = d
                /\ Async /\ t > 0 => InPrev(r) /\ Counted(r) = t
            BY <2>7, <2>8, <4>2, <5>1, <5>2, <5>4 DEF WorkerInv
          <6>4. GotOut(1, r) = t /\ OwedOut(1, r) = IF t > 0 THEN d + 1 ELSE 0
            BY <5>4 DEF OwedOut, GotOut
          <6>5. ~Async => d = 0
            BY <6>1, <6>2, Sizes
          <6> HIDE DEF t, d
          <6> QED BY <5>2, <5>4, <6>1, <6>2, <6>3, <6>4, <6>5
        <5> QED BY <5>3, <5>4
      <4> QED BY <4>1, <4>2
    <3>5. q.computed - s = Base(r)'
      <4>1. CASE q.kind = "run"
        <5> HIDE DEF q, s
        <5> QED BY <4>1, <2>3, <2>4, <2>6, <3>2, <3>4
      <4>2. CASE q.kind # "run"
        <5>1. s = 0
          BY <4>2
        <5> HIDE DEF q, s
        <5> QED BY <4>2, <5>1, <2>3, <2>4
      <4> QED BY <4>1, <4>2
    <3>6. Async => IF InRows(r) /\ q.kind = "run" THEN q.outputs <= OutLen(r) + Drafted(r)
                   ELSE q.outputs = q.known
      <4>1. CASE Async /\ InRows(r) /\ q.kind = "run"
        BY <4>1, <1>3, <2>3, <2>7, <2>8 DEF RoomInv
      <4>2. CASE q.kind # "run"
        BY <4>2, <2>3
      <4>3. CASE ~InRows(r)
        <5>1. ~InOut(1, r)
          <6>1. CASE outputs = <<>>
            <7>1. Len(outputs) = 0
              BY <6>1, Sizes
            <7> QED BY <7>1 DEF InOut
          <6>2. CASE outputs # <<>>
            <7>1. Len(outputs) = 1
              BY <6>2, <1>1, <2>8, Sizes
            <7> QED BY <2>7, <2>8, <4>3, <6>2, <7>1 DEF WorkerInv
          <6> QED BY <6>1, <6>2
        <5>2. Owed(r) = 0
          BY <3>2, <5>1 DEF OwedOut
        <5> QED BY <4>3, <5>2, <2>3
      <4> QED BY <4>1, <4>2, <4>3
    <3>7. (Step = NoStep)' /\ ~(Step # NoStep)'
      BY <1>2, <2>8 DEF NoStep
    <3> HIDE DEF q, s
    <3>8. (Step = NoStep /\ InBox(1, r) =>
          /\ Boxed(1, r).computed - Shift(r) = Base(r)
          /\ Boxed(1, r).kind = "new" \/ InWorker(r)
          /\ Async => IF InRows(r) /\ Boxed(1, r).kind = "run"
                      THEN Boxed(1, r).outputs <= OutLen(r) + Drafted(r)
                      ELSE Boxed(1, r).outputs = Boxed(1, r).known)'
      BY <1>2, <1>3, <2>1, <3>3, <3>5, <3>6
    <3>9. \A i \in {1, 2} : InBox(i, r)' /\ Boxed(i, r)'.kind = "new" => ~InWorker(r)'
      BY <1>2, <1>3, <2>2
    <3> QED BY <1>3, <3>7, <3>8, <3>9 DEF AimInv
  <2>9. CASE Step # NoStep
    <3>1. ~InOut(1, r)
      <4>1. Len(outputs) = 0
        BY <1>3, <2>9, Sizes
      <4> QED BY <4>1 DEF InOut
    <3>2. GotOut(1, r) = 0 /\ OwedOut(1, r) = 0
      BY <3>1 DEF GotOut, OwedOut
    <3>3. Owed2(r) = 0 /\ Got2(r) = 0 /\ Ahead(r) = AheadStep(r)
      BY <2>5, <2>6, <3>2 DEF Owed2, Got2, Ahead
    <3>4. ASSUME InStep(r)
          PROVE  /\ q.kind = "run" /\ q.computed = Step.pos[r] + Step.req[r].n
                 /\ Async => q.outputs <= Step.req[r].outputs + OwedStep(r)
      <4>1. q.kind = "run"
        BY <2>3, <3>4 DEF Idle
      <4>2. Step.pos[r] = cached[r] /\ AheadStep(r) = Step.req[r].n
        BY <2>7, <3>4 DEF WorkerInv, AheadStep
      <4>3. q.computed = Base(r) + AheadStep(r)
        <5> HIDE DEF q
        <5> QED BY <4>1, <2>3, <2>4, <2>6, <3>3
      <4>4. Async => q.outputs <= Step.req[r].outputs + OwedStep(r)
        BY <1>3, <2>3, <2>7, <3>4, <4>1 DEF RoomInv
      <4> QED BY <4>1, <4>2, <4>3, <4>4, <2>4
    <3>5. ASSUME ~InStep(r) PROVE Settled(r, q)'
      <4>1. Idle(r)
        BY <1>3, <3>1, <3>5 DEF Idle
      <4>2. q' = q
        <5>1. so' = so /\ r' = r
          OBVIOUS
        <5> QED BY <5>1
      <4> HIDE DEF q
      <4> QED BY <1>2, <2>1, <2>3, <4>1, <4>2 DEF Settled
    <3>6. ~(Step = NoStep)' /\ (Step # NoStep)'
      BY <1>2, <2>9 DEF NoStep
    <3>7. InStep(r)' => /\ Boxed(1, r)'.kind = "run"
                        /\ Boxed(1, r)'.computed = Step'.pos[r] + Step'.req[r].n
                        /\ Async' => Boxed(1, r)'.outputs <= Step'.req[r].outputs + OwedStep(r)'
      <4> HIDE DEF q
      <4> QED BY <1>2, <1>3, <3>4
    <3>8. ~InStep(r)' => Settled(r, Boxed(1, r))'
      <4>1. ASSUME ~InStep(r)' PROVE Settled(r, Boxed(1, r))'
        <5>1. Settled(r, q)'
          BY <1>2, <3>5, <4>1
        <5> QED BY <5>1, <1>3 DEF Settled
      <4> QED BY <4>1
    <3>9. \A i \in {1, 2} : InBox(i, r)' /\ Boxed(i, r)'.kind = "new" => ~InWorker(r)'
      <4> HIDE DEF q
      <4> QED BY <1>2, <1>3, <2>2
    <3> HIDE DEF q
    <3> QED BY <1>3, <3>6, <3>7, <3>8, <3>9 DEF AimInv
  <2> QED BY <2>8, <2>9
<1> QED BY <1>4, <1>5

LEMMA PlanPlain ==
    ASSUME LineType, NEW so, Plan(so), NEW r \in Reqs, RequestInv(r)
    PROVE  PlainInv(r)'
<1> DEFINE q == so.req[r]
<1>1. /\ InFlight < Depth /\ so \in SchedulerOutput /\ Line' = Append(Line, so)
      /\ UNCHANGED <<mode, worker, pending, outputs, sampled, cached>>
  BY DEF Plan
<1>2. /\ Step' = Step /\ (InWorker(r)' <=> InWorker(r)) /\ sampled' = sampled
      /\ OutLen(r)' = OutLen(r) /\ Async' = Async /\ (InStep(r)' <=> InStep(r))
  BY <1>1, Rested
<1>3. PlainInv(r)
  BY DEF RequestInv
<1>4. \A p : Reach(p)' <=> Reach(p)
  BY DEF Reach
<1>5. CASE r \in DOMAIN so.req
  <2> SUFFICES ASSUME ~Async PROVE PlainInv(r)'
    BY <1>2 DEF PlainInv
  <2>1. Chosen(r, q)
    BY <1>5, PlanCases
  <2>2. /\ Live(r) /\ Left(r) > 0 /\ q.outputs = request[r].out + request[r].placeholders
    BY <2>1 DEF Chosen
  <2>3. Owed(r) = 0
    <3>1. CASE Running(r)
      <4>1. Owed(r) > 0 => Left(r) <= 0
        BY <3>1 DEF RequestInv, LeftInv
      <4> QED BY <4>1, <2>2, Numbers
    <3>2. CASE ~Running(r)
      BY <2>2, <3>2, NotRunningIdle
    <3> QED BY <3>1, <3>2
  <2>4. /\ OwedOut(1, r) = 0 /\ OwedOut(2, r) = 0 /\ OwedStep(r) = 0
        /\ OwedBox(1, r) = 0 /\ OwedBox(2, r) = 0
    BY <2>3, CountTypes DEF Owed, Owed2
  <2>5. GotOut(1, r) = 0 /\ GotOut(2, r) = 0
    <3>1. ASSUME NEW i \in {1, 2}, OwedOut(i, r) = 0 PROVE GotOut(i, r) = 0
      <4>1. CASE InOut(i, r)
        <5>1. outputs[i][r].tokens \in Nat /\ outputs[i][r].drafts \in Nat
          BY <4>1, PlaceTypes
        <5> QED BY <3>1, <4>1, <5>1 DEF OwedOut, GotOut
      <4>2. CASE ~InOut(i, r)
        BY <4>2 DEF GotOut
      <4> QED BY <4>1, <4>2
    <3> QED BY <2>4, <3>1
  <2>6. q.outputs = sampled[r]
    <3>1. CountInv(r)
      BY DEF RequestInv
    <3>2. Got2(r) = 0
      BY <2>5 DEF Got2
    <3>3. request[r].placeholders = 0 /\ request[r].out + Got2(r) = sampled[r]
      BY <2>2, <3>1 DEF CountInv
    <3> HIDE DEF q
    <3> QED BY <2>2, <3>2, <3>3, Numbers
  <2>7. InStep(r) => ~Reach(Step.req[r])
    <3>1. InStep(r) => Step.req[r] \in ScheduledRec
      BY PlaceTypes
    <3>2. InStep(r) => Owes(Step.req[r]) = 0
      BY <2>4 DEF OwedStep
    <3> QED BY <3>1, <3>2, RecordTypes
  <2>8. InBox(1, r) => ~Reach(Boxed(1, r))
    <3>1. InBox(1, r) => Boxed(1, r) \in ScheduledRec
      BY PlaceTypes
    <3>2. InBox(1, r) => Owes(Boxed(1, r)) = 0
      BY <2>4 DEF OwedBox
    <3> QED BY <3>1, <3>2, RecordTypes
  <2> HIDE DEF q
  <2>9. CASE Line = <<>>
    <3>1. Boxed(1, r)' = so.req[r] /\ ~InBox(2, r)'
      BY <1>1, <2>9, Appended
    <3> QED BY <1>2, <1>3, <1>4, <2>6, <2>7, <3>1 DEF PlainInv, q
  <2>10. CASE Line # <<>>
    <3>1. /\ InBox(1, r)' <=> InBox(1, r)
          /\ Boxed(1, r)' = Boxed(1, r) /\ Boxed(2, r)' = so.req[r]
      BY <1>1, <2>10, Appended
    <3> QED BY <1>2, <1>3, <1>4, <2>6, <2>7, <2>8, <3>1 DEF PlainInv, q
  <2> QED BY <2>9, <2>10
<1>6. CASE r \notin DOMAIN so.req
  <2>1. \A i \in {1, 2} : /\ InBox(i, r)' <=> InBox(i, r)
                          /\ InBox(i, r) => Boxed(i, r)' = Boxed(i, r)
    BY <1>6, PlanBoxes
  <2> QED BY <1>2, <1>3, <1>4, <2>1 DEF PlainInv
<1> QED BY <1>5, <1>6

LEMMA PlanWorker ==
    ASSUME LineType, NEW so, Plan(so), NEW r \in Reqs, RequestInv(r)
    PROVE  WorkerInv(r)'
<1>1. UNCHANGED <<mode, worker, pending, outputs, sampled, cached>>
  BY DEF Plan
<1>2. WorkerInv(r)
  BY DEF RequestInv
<1>3. \A p : Reach(p)' <=> Reach(p)
  BY DEF Reach
<1>4. /\ Step' = Step /\ (InWorker(r)' <=> InWorker(r)) /\ (InRows(r)' <=> InRows(r))
      /\ OutLen(r)' = OutLen(r) /\ Async' = Async /\ (InStep(r)' <=> InStep(r))
      /\ Drafted(r)' = Drafted(r) /\ (InPrev(r)' <=> InPrev(r)) /\ Counted(r)' = Counted(r)
      /\ cached' = cached
  BY <1>1, Rested
<1>5. outputs' = outputs /\ Len(outputs)' = Len(outputs)
  BY <1>1
<1>6. InOut(Len(outputs), r)' <=> InOut(Len(outputs), r)
  BY <1>5 DEF InOut
<1>7. (Step = NoStep)' <=> Step = NoStep
  BY <1>4 DEF NoStep
<1> QED BY <1>2, <1>3, <1>4, <1>5, <1>6, <1>7 DEF WorkerInv

LEMMA PlanTypes ==
    ASSUME LineType, NEW so, Plan(so), TypeInv'
    PROVE  LineType'
<1>1. /\ InFlight < Depth /\ so \in SchedulerOutput /\ Line' = Append(Line, so)
      /\ UNCHANGED <<mode, worker, pending, outputs, sampled, cached>>
  BY DEF Plan
<1>2. Step' = Step /\ Runner' = Runner /\ Ranks' = Ranks /\ Depth' = Depth /\ NoStep' = NoStep
  BY <1>1 DEF Step, Runner, Ranks, Depth, NoStep
<1>3. Len(Line') = Len(Line) + 1
  BY <1>1, Sizes, AppendProperties
<1>4. InFlight' = InFlight + 1
  <2>1. InFlight = Len(Line) + Len(outputs) + (IF Step = NoStep THEN 0 ELSE 1)
    BY Sizes
  <2>2. InFlight' = Len(Line') + Len(outputs) + (IF Step = NoStep THEN 0 ELSE 1)
    BY <1>1, <1>2 DEF InFlight, Line, Step
  <2> QED BY <1>3, <2>1, <2>2, Sizes
<1>5. InFlight' <= Depth'
  <2>1. InFlight \in Int /\ Depth \in Int
    BY Sizes
  <2> QED BY <1>1, <1>2, <1>4, <2>1
<1> QED BY <1>1, <1>2, <1>5 DEF LineType, WorkerType, IsWorkerReq

LEMMA PlanInv ==
    ASSUME LineInv, Schedule \/ ScheduleNothing
    PROVE  LineInv'
<1>1. LineType /\ TypeInv /\ \A r \in Reqs : RequestInv(r)
  BY DEF LineInv, LineType
<1>2. PICK so : Plan(so)
  BY <1>1, SchedulePlans
<1>3. TypeInv'
  BY <1>1, ScheduleTyped, ScheduleNothingTyped
<1>4. ASSUME NEW r \in Reqs PROVE RequestInv(r)'
  <2>1. RequestInv(r)
    BY <1>1
  <2>2. AimInv(r)'
    BY <1>1, <1>2, <2>1, PlanAimFirst, PlanAimNext
  <2>3. GoodSteps(r)' /\ EndedInv(r)' /\ StateInv(r)' /\ CountInv(r)' /\ LeftInv(r)'
    BY <1>1, <1>2, <2>1, PlanGood, PlanEnded, PlanState, PlanCount, PlanLeft
  <2>4. DraftInv(r)' /\ RoomInv(r)' /\ PlainInv(r)' /\ WorkerInv(r)'
    BY <1>1, <1>2, <2>1, PlanDraft, PlanRoom, PlanPlain, PlanWorker
  <2> QED BY <2>2, <2>3, <2>4 DEF RequestInv
<1>5. LineType'
  BY <1>1, <1>2, <1>3, PlanTypes
<1> QED BY <1>4, <1>5 DEF LineInv

-----------------------------------------------------------------------------
(* What the runner's bookkeeping does to the requests it knows.            *)

Updated(x, w, so) ==
    /\ x = [reqs |-> x.reqs, rows |-> x.rows, order |-> x.order, prev |-> x.prev]
    /\ x.order = so.order /\ x.prev = w.prev
    /\ DOMAIN x.rows = Scheduled(so)
    /\ DOMAIN x.reqs = Kept(w, so)
    /\ \A r \in Scheduled(so) :
          x.reqs[r] = [out |-> Outputs(w, so, r, Async, TRUE),
                       computed |-> so.req[r].computed, drafts |-> so.req[r].drafts]
    /\ \A r \in Kept(w, so) \ Scheduled(so) : x.reqs[r] = w.reqs[r]
    /\ x.rows = [r \in Scheduled(so) |-> IF InBatch(w, so, r)
                                          THEN KeptRow(w, so, r, Async, TRUE)
                                          ELSE Outputs(w, so, r, Async, TRUE)]

LEMMA UpdateStatesFields ==
    ASSUME NEW w, NEW so,
           w = [reqs |-> w.reqs, rows |-> w.rows, order |-> w.order, prev |-> w.prev]
    PROVE  Updated(UpdateStates(w, so, Async, TRUE), w, so)
<1> DEFINE x == UpdateStates(w, so, Async, TRUE)
           out == [r \in Scheduled(so) |-> Outputs(w, so, r, Async, TRUE)]
           reqs == [r \in Kept(w, so) |->
                      IF r \in Scheduled(so)
                      THEN [out |-> out[r], computed |-> so.req[r].computed,
                            drafts |-> so.req[r].drafts]
                      ELSE w.reqs[r]]
           rows == [r \in Scheduled(so) |->
                      IF InBatch(w, so, r) THEN KeptRow(w, so, r, Async, TRUE) ELSE out[r]]
<1>1. x = [w EXCEPT !.reqs = reqs, !.rows = rows, !.order = so.order]
  BY DEF UpdateStates
<1>2. Scheduled(so) \subseteq Kept(w, so)
  BY DEF Kept
<1>3. /\ DOMAIN reqs = Kept(w, so) /\ DOMAIN rows = Scheduled(so)
      /\ \A r \in Scheduled(so) :
            reqs[r] = [out |-> Outputs(w, so, r, Async, TRUE),
                       computed |-> so.req[r].computed, drafts |-> so.req[r].drafts]
      /\ \A r \in Kept(w, so) \ Scheduled(so) : reqs[r] = w.reqs[r]
  BY <1>2
<1>30. rows = [r \in Scheduled(so) |-> IF InBatch(w, so, r)
                                       THEN KeptRow(w, so, r, Async, TRUE)
                                       ELSE Outputs(w, so, r, Async, TRUE)]
  OBVIOUS
<1> HIDE DEF x, reqs, rows, out
<1>4. x = [reqs |-> x.reqs, rows |-> x.rows, order |-> x.order, prev |-> x.prev]
  BY <1>1
<1>5. x.reqs = reqs /\ x.rows = rows /\ x.order = so.order /\ x.prev = w.prev
  BY <1>1
<1>6. Updated(x, w, so)
  <2>1. x = [reqs |-> x.reqs, rows |-> x.rows, order |-> x.order, prev |-> x.prev]
    BY <1>4
  <2>2. DOMAIN x.rows = Scheduled(so) /\ DOMAIN x.reqs = Kept(w, so)
    BY <1>3, <1>5
  <2>3. \A r \in Scheduled(so) :
            x.reqs[r] = [out |-> Outputs(w, so, r, Async, TRUE),
                         computed |-> so.req[r].computed, drafts |-> so.req[r].drafts]
    BY <1>3, <1>5
  <2>4. \A r \in Kept(w, so) \ Scheduled(so) : x.reqs[r] = w.reqs[r]
    BY <1>3, <1>5
  <2>5. x.rows = [r \in Scheduled(so) |-> IF InBatch(w, so, r)
                                          THEN KeptRow(w, so, r, Async, TRUE)
                                          ELSE Outputs(w, so, r, Async, TRUE)]
    BY <1>5, <1>30
  <2> QED BY <2>1, <2>2, <2>3, <2>4, <2>5, <1>5 DEF Updated
<1> QED BY <1>6 DEF x

(* A scheduled request whose output tokens the runner has, or is sent.     *)
Supplied(w, so, r) ==
    LET q == so.req[r]
    IN  /\ q \in ScheduledRec /\ q.outputs >= 0 /\ r \notin so.ended /\ r \in Scheduled(so)
        /\ q.kind = "new" => q.outputs = 0 /\ r \notin DOMAIN w.rows
        /\ q.kind # "new" => r \in DOMAIN w.reqs /\ IsWorkerReq(w.reqs[r])
        /\ Async => IF r \in DOMAIN w.rows /\ q.kind = "run"
                    THEN q.outputs <= Len(w.reqs[r].out) + w.reqs[r].drafts
                    ELSE q.outputs = q.known
        /\ ~Async /\ q.kind # "new" => q.outputs = Len(w.reqs[r].out)

(* The runner ends up with the output tokens the scheduler counted.        *)
LEMMA OutputsLength ==
    ASSUME NEW w, NEW so, NEW r, Supplied(w, so, r)
    PROVE  /\ Outputs(w, so, r, Async, TRUE) \in Seq(Int)
           /\ Len(Outputs(w, so, r, Async, TRUE)) = so.req[r].outputs
<1> DEFINE q == so.req[r]
<1> DEFINE k == Optimistic(w, so, r, Async)
           all == w.reqs[r].out \o Holes(k)
<1>0. /\ q \in ScheduledRec /\ q.outputs >= 0 /\ r \notin so.ended /\ r \in Scheduled(so)
      /\ q.kind = "new" => q.outputs = 0 /\ r \notin DOMAIN w.rows
      /\ q.kind # "new" => r \in DOMAIN w.reqs /\ IsWorkerReq(w.reqs[r])
      /\ Async => IF r \in DOMAIN w.rows /\ q.kind = "run"
                  THEN q.outputs <= Len(w.reqs[r].out) + w.reqs[r].drafts
                  ELSE q.outputs = q.known
      /\ ~Async /\ q.kind # "new" => q.outputs = Len(w.reqs[r].out)
  BY DEF Supplied
<1>1. /\ q.outputs \in Nat /\ q.known \in Nat /\ q.kind \in {"new", "resumed", "run"}
      /\ PromptLen \in Nat \ {0}
  BY <1>0, RecordTypes, RunnerAssumption
<1>2. InBatch(w, so, r) <=> r \in DOMAIN w.rows /\ q.kind = "run"
  BY <1>0, <1>1 DEF InBatch
<1>3. CASE q.kind = "new"
  <2>1. Outputs(w, so, r, Async, TRUE) = <<>>
    BY <1>3 DEF Outputs
  <2>2. <<>> \in Seq(Int) /\ Len(<<>>) = 0
    OBVIOUS
  <2>3. q.outputs = 0
    BY <1>0, <1>3
  <2> QED BY <2>1, <2>2, <2>3
<1>4. CASE q.kind # "new" /\ Async /\ ~InBatch(w, so, r) /\ q.outputs > 0
  <2>1. Outputs(w, so, r, Async, TRUE) = Recovered(q)
    BY <1>4 DEF Outputs
  <2>2. q.outputs = q.known
    BY <1>0, <1>2, <1>4
  <2> QED BY <1>1, <2>1, <2>2, RecoveredLength
<1>5. CASE q.kind # "new" /\ ~(Async /\ ~InBatch(w, so, r) /\ q.outputs > 0)
  <2>0. w.reqs[r].out \in Seq(Int) /\ w.reqs[r].drafts \in Nat
    BY <1>0, <1>5 DEF IsWorkerReq
  <2>1. Outputs(w, so, r, Async, TRUE) = Aligned(w, so, r, Async, TRUE)
    BY <1>5 DEF Outputs
  <2>2. Aligned(w, so, r, Async, TRUE) =
          IF q.outputs < Len(all) THEN SubSeq(all, 1, q.outputs) ELSE all
    BY DEF Aligned
  <2>3. k \in Nat /\ (Async /\ InBatch(w, so, r) => k = w.reqs[r].drafts)
        /\ (~(Async /\ InBatch(w, so, r)) => k = 0)
    BY <2>0 DEF Optimistic
  <2>4. Holes(k) \in Seq(Int) /\ Len(Holes(k)) = k
    <3> HIDE DEF k
    <3> QED BY <2>3, HolesLength
  <2>5. all \in Seq(Int) /\ Len(all) = Len(w.reqs[r].out) + k /\ Len(w.reqs[r].out) >= 0
    <3> HIDE DEF k
    <3>1. w.reqs[r].out \o Holes(k) \in Seq(Int)
          /\ Len(w.reqs[r].out \o Holes(k)) = Len(w.reqs[r].out) + Len(Holes(k))
      BY <2>0, <2>4, ConcatProperties
    <3>2. Len(w.reqs[r].out) >= 0
      BY <2>0, LenProperties
    <3> QED BY <2>4, <3>1, <3>2
  <2>6. q.outputs <= Len(w.reqs[r].out) + k
    <3>0. Len(w.reqs[r].out) \in Nat
      BY <2>0, LenProperties
    <3> HIDE DEF k
    <3>1. CASE Async /\ InBatch(w, so, r)
      BY <1>0, <1>2, <2>3, <3>1
    <3>2. CASE Async /\ ~InBatch(w, so, r)
      <4>1. ~(q.outputs > 0)
        BY <1>5, <3>2
      <4> QED BY <4>1, <1>1, <2>3, <2>5, <3>0
    <3>3. CASE ~Async
      BY <1>0, <1>5, <2>3, <3>3, <3>0
    <3> QED BY <3>1, <3>2, <3>3
  <2> HIDE DEF all, k
  <2>7. CASE q.outputs < Len(all)
    <3>1. SubSeq(all, 1, q.outputs) \in Seq(Int) /\ Len(SubSeq(all, 1, q.outputs)) = q.outputs
      BY <1>1, <2>5, <2>7, PrefixLength
    <3> QED BY <2>1, <2>2, <2>7, <3>1
  <2>8. CASE ~(q.outputs < Len(all))
    <3>1. Len(all) \in Nat
      BY <2>5, LenProperties
    <3>2. Len(all) = q.outputs
      BY <2>5, <2>6, <2>8, <3>1, <1>1
    <3> QED BY <2>1, <2>2, <2>5, <2>8, <3>2
  <2> QED BY <2>7, <2>8
<1> QED BY <1>3, <1>4, <1>5

-----------------------------------------------------------------------------
(* The last rank executes the first scheduler output of the line.          *)

LEMMA ExecutedLine ==
    ASSUME LineType, ExecuteModel("last"), NEW r \in Reqs
    PROVE  LET so == Head(Line)
           IN  /\ Step = NoStep /\ Line # <<>> /\ so = Line[1] /\ so \in SchedulerOutput
               /\ so.req \in StepReqs /\ so.order \in SetToSeqs(DOMAIN so.req)
               /\ r \in Scheduled(so) <=> InBox(1, r)
               /\ InBox(1, r) => so.req[r] = Boxed(1, r)
               /\ r \in so.ended <=> EndsBox(1, r)
               /\ Len(Line') = Len(Line) - 1 /\ Len(Line) \in {1, 2}
               /\ InBox(1, r)' <=> InBox(2, r)
               /\ InBox(2, r) => Boxed(1, r)' = Boxed(2, r)
               /\ EndsBox(1, r)' <=> EndsBox(2, r)
               /\ ~InBox(2, r)' /\ ~EndsBox(2, r)'
               /\ Len(Line) = 2 <=> Line' # <<>>
               /\ outputs # <<>> => Line' = <<>>
<1>1. Step = NoStep /\ Line # <<>> /\ inbox' = [inbox EXCEPT !["last"] = Tail(@)]
  BY DEF ExecuteModel, Step, Line
<1>2. inbox \in [Ranks -> Seq(SchedulerOutput)] /\ InboxType /\ "last" \in Ranks
  BY Sizes DEF LineType, TypeInv, InboxType
<1>3. Line' = Tail(Line)
  BY <1>1, <1>2 DEF Line
<1>4. /\ Head(Line) \in SchedulerOutput /\ Head(Line).req \in StepReqs
      /\ Head(Line).order \in SetToSeqs(DOMAIN Head(Line).req)
      /\ Tail(Line) \in Seq(SchedulerOutput)
      /\ Len(Tail(Line)) = Len(Line) - 1
      /\ \A i \in 1 .. Len(Tail(Line)) : Tail(Line)[i] = Line[i + 1]
  BY <1>1, <1>2, InboxHead DEF Line
<1>5. Line \in Seq(SchedulerOutput) /\ Len(Line) \in {1, 2} /\ Len(outputs) \in 0 .. 2
      /\ (Len(outputs) = 0 <=> outputs = <<>>) /\ Len(Line) + Len(outputs) <= 2
  BY <1>1, Sizes
<1>6. Head(Line) = Line[1] /\ 1 \in 1 .. Len(Line)
  BY <1>1, <1>5, HeadTailProperties
<1>7. /\ r \in Scheduled(Head(Line)) <=> InBox(1, r)
      /\ Head(Line).req[r] = Boxed(1, r)
      /\ r \in Head(Line).ended <=> EndsBox(1, r)
  BY <1>6 DEF Scheduled, InBox, Boxed, EndsBox
<1>8. Len(Line') = Len(Line) - 1 /\ Line' \in Seq(SchedulerOutput)
  BY <1>3, <1>4
<1>9. Line' = <<>> <=> Len(Line') = 0
  BY <1>8, EmptySeq
<1>10. ~InBox(2, r)' /\ ~EndsBox(2, r)'
  BY <1>5, <1>8 DEF InBox, EndsBox
<1>11. CASE Len(Line) = 1
  <2>1. Len(Line') = 0
    BY <1>8, <1>11
  <2>2. ~InBox(1, r)' /\ ~EndsBox(1, r)' /\ ~InBox(2, r) /\ ~EndsBox(2, r)
    BY <1>11, <2>1 DEF InBox, EndsBox
  <2> QED BY <1>1, <1>4, <1>5, <1>6, <1>7, <1>8, <1>9, <1>10, <1>11, <2>1, <2>2
<1>12. CASE Len(Line) = 2
  <2>1. Len(Line') = 1 /\ Line'[1] = Line[2]
    <3>1. Len(Tail(Line)) = 1 /\ 1 \in 1 .. Len(Tail(Line))
      BY <1>4, <1>12
    <3>2. Tail(Line)[1] = Line[1 + 1]
      BY <1>4, <3>1
    <3> QED BY <1>3, <3>1, <3>2
  <2>2. /\ InBox(1, r)' <=> InBox(2, r)
        /\ Boxed(1, r)' = Boxed(2, r)
        /\ EndsBox(1, r)' <=> EndsBox(2, r)
    BY <1>12, <2>1 DEF InBox, EndsBox, Boxed
  <2>3. outputs = <<>>
    BY <1>5, <1>12
  <2> QED BY <1>1, <1>4, <1>5, <1>6, <1>7, <1>8, <1>9, <1>10, <1>12, <2>1, <2>2, <2>3
<1> QED BY <1>5, <1>11, <1>12

(* A request in the scheduler output has the outputs that are counted.     *)
LEMMA ExecutedOutputs ==
    ASSUME LineType, ExecuteModel("last"), NEW r \in Reqs, RequestInv(r), InBox(1, r)
    PROVE  LET out == Outputs(Runner, Head(Line), r, Async, TRUE)
           IN  out \in Seq(Int) /\ Len(out) = Boxed(1, r).outputs
<1> DEFINE so == Head(Line)
           q == Boxed(1, r)
<1>1. Step = NoStep /\ r \in Scheduled(so) /\ so.req[r] = q /\ (r \in so.ended <=> EndsBox(1, r))
  BY ExecutedLine
<1>2. q \in ScheduledRec
  BY PlaceTypes
<1>3. q.outputs >= 0 /\ (q.kind = "new" => q.outputs = 0)
  BY DEF RequestInv, GoodSteps, GoodReq
<1>4. q.kind # "new" => r \in DOMAIN Runner.reqs
  BY <1>1 DEF RequestInv, AimInv, InWorker
<1>5. q.kind # "new" => IsWorkerReq(Runner.reqs[r])
  BY <1>4 DEF LineType, WorkerType
<1>6. r \notin so.ended
  <2>1. EndedInv(r)
    BY DEF RequestInv
  <2>2. 1 \in {1, 2} /\ 1 <= 1
    OBVIOUS
  <2>3. ~EndsBox(1, r)
    BY <2>1, <2>2 DEF EndedInv
  <2> QED BY <1>1, <2>3
<1>7. q.kind = "new" => r \notin DOMAIN Runner.rows
  BY DEF RequestInv, AimInv, WorkerInv, InRows
<1>8. Async => IF r \in DOMAIN Runner.rows /\ q.kind = "run"
               THEN q.outputs <= Len(Runner.reqs[r].out) + Runner.reqs[r].drafts
               ELSE q.outputs = q.known
  BY <1>1 DEF RequestInv, AimInv, InRows, OutLen, Drafted
<1>9. ~Async /\ q.kind # "new" => q.outputs = Len(Runner.reqs[r].out)
  BY <1>4 DEF RequestInv, PlainInv, InWorker, OutLen
<1>10. Supplied(Runner, so, r)
  <2>1. so.req[r] = q /\ r \in Scheduled(so)
    BY <1>1
  <2> HIDE DEF so, q
  <2> QED BY <2>1, <1>2, <1>3, <1>4, <1>5, <1>6, <1>7, <1>8, <1>9 DEF Supplied
<1>11. /\ Outputs(Runner, so, r, Async, TRUE) \in Seq(Int)
       /\ Len(Outputs(Runner, so, r, Async, TRUE)) = so.req[r].outputs
  <2> HIDE DEF so
  <2> QED BY <1>10, OutputsLength
<1>12. so.req[r].outputs = q.outputs
  BY <1>1
<1> HIDE DEF so, q
<1> QED BY <1>11, <1>12 DEF so, q

(* What is taken off the count of computed tokens.                         *)
LEMMA ExecutedShift ==
    ASSUME LineType, ExecuteModel("last"), NEW r \in Reqs, RequestInv(r), InBox(1, r)
    PROVE  /\ Correction(Runner, Head(Line), r, Async) = Shift(r)
           /\ Position(Runner, Head(Line), r, Async) = Base(r)
<1> DEFINE so == Head(Line)
           q == Boxed(1, r)
<1>1. Step = NoStep /\ r \in Scheduled(so) /\ so.req[r] = q /\ (r \in so.ended <=> EndsBox(1, r))
  BY ExecutedLine
<1>2. q \in ScheduledRec
  BY PlaceTypes
<1>3. ~EndsBox(1, r)
  <2>1. EndedInv(r)
    BY DEF RequestInv
  <2>2. 1 \in {1, 2} /\ 1 <= 1
    OBVIOUS
  <2> QED BY <2>1, <2>2 DEF EndedInv
<1>4. q.kind = "new" => ~InRows(r)
  BY DEF RequestInv, AimInv, WorkerInv
<1>5. InBatch(Runner, so, r) <=> InRows(r) /\ q.kind = "run"
  <2>1. q.kind \in {"new", "resumed", "run"}
    BY <1>2, RecordTypes
  <2> QED BY <1>1, <1>3, <1>4, <2>1 DEF InBatch, InRows
<1>6. Correction(Runner, so, r, Async) = Shift(r)
  <2>1. Optimistic(Runner, so, r, Async) =
          IF Async /\ InRows(r) /\ q.kind = "run" THEN Drafted(r) ELSE 0
    BY <1>5 DEF Optimistic, Drafted
  <2>2. Shift(r) = IF Async /\ InRows(r) /\ q.kind = "run" /\ Drafted(r) > 0 /\ InPrev(r)
                   THEN Drafted(r) + 1 - Counted(r) ELSE 0
    BY DEF Shift
  <2>3. Correction(Runner, so, r, Async) =
          IF Optimistic(Runner, so, r, Async) > 0 /\ InPrev(r)
          THEN Optimistic(Runner, so, r, Async) + 1 - Counted(r) ELSE 0
    BY DEF Correction, InPrev, Counted
  <2> HIDE DEF so, q
  <2>4. CASE Async /\ InRows(r) /\ q.kind = "run"
    BY <2>1, <2>2, <2>3, <2>4
  <2>5. CASE ~(Async /\ InRows(r) /\ q.kind = "run")
    <3>1. Optimistic(Runner, so, r, Async) = 0
      BY <2>1, <2>5
    <3> QED BY <2>2, <2>3, <2>5, <3>1
  <2> QED BY <2>4, <2>5
<1>7. q.computed - Shift(r) = Base(r)
  BY <1>1 DEF RequestInv, AimInv
<1>8. Position(Runner, so, r, Async) = q.computed - Correction(Runner, so, r, Async)
  BY <1>1 DEF Position
<1> HIDE DEF so
<1> QED BY <1>6, <1>7, <1>8 DEF so

(* The runner afterwards, before and after the correction.                 *)
LEMMA ExecutedRunner ==
    ASSUME LineInv, ExecuteModel("last")
    PROVE  LET so == Head(Line)
           IN  /\ WorkerType'
               /\ Runner'.prev = Runner.prev /\ Runner'.order = so.order
               /\ Runner'.rows = UpdateStates(Runner, so, Async, TRUE).rows
               /\ DOMAIN Runner'.rows = Scheduled(so)
               /\ DOMAIN Runner'.reqs = Kept(Runner, so)
               /\ \A r \in Scheduled(so) :
                     /\ Runner'.reqs[r].out = Outputs(Runner, so, r, Async, TRUE)
                     /\ Runner'.reqs[r].drafts = so.req[r].drafts
               /\ \A r \in Kept(Runner, so) \ Scheduled(so) :
                     /\ Runner'.reqs[r].out = Runner.reqs[r].out
                     /\ Runner'.reqs[r].drafts = Runner.reqs[r].drafts
<1> DEFINE so == Head(Line)
           x == UpdateStates(Runner, so, Async, TRUE)
           y == Corrected(x, Runner, so, Async)
           w == Runner
           v == Runner'
<1>1. LineType /\ WorkerType /\ \A r \in Reqs : RequestInv(r)
  BY DEF LineInv, LineType
<1>2. /\ worker = [k \in Ranks |-> worker[k]] /\ "last" \in Ranks
      /\ w = [reqs |-> w.reqs, rows |-> w.rows, order |-> w.order, prev |-> w.prev]
      /\ \A r \in DOMAIN w.reqs : IsWorkerReq(w.reqs[r])
  BY <1>1, Sizes DEF WorkerType
<1>3. so.req \in StepReqs /\ so.order \in SetToSeqs(DOMAIN so.req) /\ Scheduled(so) \subseteq Reqs
  <2>1. inbox["last"] # <<>> /\ InboxType
    BY <1>1 DEF ExecuteModel, LineType, TypeInv
  <2>2. so.req \in StepReqs /\ so.order \in SetToSeqs(DOMAIN so.req)
    BY <1>2, <2>1, InboxHead DEF Line
  <2> QED BY <2>2, StepReqsFacts DEF Scheduled
<1>4. /\ x = [reqs |-> x.reqs, rows |-> x.rows, order |-> x.order, prev |-> x.prev]
      /\ x.order = so.order /\ x.prev = w.prev
      /\ DOMAIN x.rows = Scheduled(so) /\ DOMAIN x.reqs = Kept(w, so)
      /\ \A r \in Scheduled(so) :
            x.reqs[r] = [out |-> Outputs(w, so, r, Async, TRUE),
                         computed |-> so.req[r].computed, drafts |-> so.req[r].drafts]
      /\ \A r \in Kept(w, so) \ Scheduled(so) : x.reqs[r] = w.reqs[r]
  <2>1. w = [reqs |-> w.reqs, rows |-> w.rows, order |-> w.order, prev |-> w.prev]
    BY <1>2
  <2>2. Updated(x, w, so)
    <3> HIDE DEF so
    <3> QED BY <2>1, UpdateStatesFields
  <2> HIDE DEF so, w, x
  <2> QED BY <2>2 DEF Updated
<1>5. \A r \in DOMAIN x.reqs : IsWorkerReq(x.reqs[r])
  <2> SUFFICES ASSUME NEW r \in DOMAIN x.reqs PROVE IsWorkerReq(x.reqs[r])
    OBVIOUS
  <2>1. CASE r \in Scheduled(so)
    <3>1. r \in Reqs /\ InBox(1, r)
      BY <1>1, <1>3, <2>1, ExecutedLine
    <3>2. Outputs(w, so, r, Async, TRUE) \in Seq(Int)
      BY <1>1, <3>1, ExecutedOutputs
    <3>3. so.req[r].drafts \in Nat
      BY <1>3, <2>1, StepReqsFacts, RecordTypes DEF Scheduled
    <3> DEFINE o == Outputs(w, so, r, Async, TRUE)
               c == so.req[r].computed
               d == so.req[r].drafts
    <3>4. x.reqs[r] = [out |-> o, computed |-> c, drafts |-> d]
      <4> HIDE DEF so, w, x
      <4> QED BY <1>4, <2>1
    <3> HIDE DEF so, w, x, o, c, d
    <3>5. o \in Seq(Int) /\ d \in Nat
      BY <3>2, <3>3 DEF o, d
    <3> QED BY <3>4, <3>5 DEF IsWorkerReq
  <2>2. CASE r \notin Scheduled(so)
    <3>1. r \in Kept(w, so) \ Scheduled(so) /\ r \in DOMAIN w.reqs
      BY <1>4, <2>2 DEF Kept
    <3> HIDE DEF so, w, x
    <3> QED BY <1>2, <1>4, <3>1
  <2> QED BY <2>1, <2>2
<1>6. /\ y = [reqs |-> y.reqs, rows |-> y.rows, order |-> y.order, prev |-> y.prev]
      /\ y.rows = x.rows /\ y.order = x.order /\ y.prev = x.prev
      /\ DOMAIN y.reqs = DOMAIN x.reqs
      /\ \A r \in DOMAIN x.reqs :
            /\ IsWorkerReq(y.reqs[r])
            /\ y.reqs[r].out = x.reqs[r].out /\ y.reqs[r].drafts = x.reqs[r].drafts
  <2> HIDE DEF so, w, x, y
  <2>1. y = Corrected(x, w, so, Async)
    BY DEF y, w
  <2>2. x = [reqs |-> x.reqs, rows |-> x.rows, order |-> x.order, prev |-> x.prev]
    BY <1>4
  <2> QED BY <1>5, <2>1, <2>2, CorrectedFields
<1>7. worker' = [worker EXCEPT !["last"] = x] \/ worker' = [worker EXCEPT !["last"] = y]
  BY DEF ExecuteModel, Line, Runner
<1>8. v = x \/ v = y
  <2> HIDE DEF x, y
  <2> QED BY <1>2, <1>7 DEF Runner
<1>9. /\ v = [reqs |-> v.reqs, rows |-> v.rows, order |-> v.order, prev |-> v.prev]
      /\ v.rows = x.rows /\ v.order = x.order /\ v.prev = x.prev
      /\ DOMAIN v.reqs = DOMAIN x.reqs
      /\ \A r \in DOMAIN x.reqs :
            /\ IsWorkerReq(v.reqs[r])
            /\ v.reqs[r].out = x.reqs[r].out /\ v.reqs[r].drafts = x.reqs[r].drafts
  <2> HIDE DEF so, w, x, y, v
  <2>1. CASE v = x
    BY <1>4, <1>5, <2>1
  <2>2. CASE v = y
    BY <1>6, <2>2
  <2> QED BY <1>8, <2>1, <2>2
<1>10. WorkerType'
  <2>1. Ranks' = Ranks
    BY DEF ExecuteModel, Ranks
  <2>2. worker' = [k \in Ranks' |-> worker'[k]]
    <3> HIDE DEF x, y
    <3> QED BY <1>2, <1>7, <2>1
  <2>3. Step' # NoStep' => DOMAIN Step'.req = DOMAIN so.req
    <3>1. pending = [k \in Ranks |-> pending[k]] /\ Step = NoStep
      BY <1>1 DEF LineType, TypeInv, PendingType, ExecuteModel, Step
    <3>2. CASE Scheduled(so) = {}
      <4>1. Step' = Step
        BY <3>2 DEF ExecuteModel, Step, Line
      <4> QED BY <3>1, <4>1 DEF NoStep
    <3>3. CASE Scheduled(so) # {}
      <4>1. Step'.req = so.req
        BY <1>2, <3>1, <3>3 DEF ExecuteModel, Step, Line
      <4> QED BY <4>1
    <3> QED BY <3>2, <3>3
  <2> HIDE DEF so, w, x, y, v
  <2>4. v.order = so.order
    BY <1>4, <1>9
  <2>5. Step' # NoStep' => v.order \in SetToSeqs(DOMAIN Step'.req)
    BY <1>3, <2>3, <2>4
  <2>6. /\ v = [reqs |-> v.reqs, rows |-> v.rows, order |-> v.order, prev |-> v.prev]
        /\ \A r \in DOMAIN v.reqs : IsWorkerReq(v.reqs[r])
    BY <1>9
  <2> QED BY <2>2, <2>5, <2>6 DEF WorkerType, v, IsWorkerReq
<1>11. /\ v.prev = w.prev /\ DOMAIN v.rows = Scheduled(so) /\ DOMAIN v.reqs = Kept(w, so)
       /\ \A r \in Scheduled(so) :
             /\ v.reqs[r].out = Outputs(w, so, r, Async, TRUE)
             /\ v.reqs[r].drafts = so.req[r].drafts
       /\ \A r \in Kept(w, so) \ Scheduled(so) :
             v.reqs[r].out = w.reqs[r].out /\ v.reqs[r].drafts = w.reqs[r].drafts
  <2>1. Scheduled(so) \subseteq Kept(w, so)
    BY DEF Kept
  <2> HIDE DEF so, w, x, y, v
  <2>2. v.prev = w.prev /\ DOMAIN v.rows = Scheduled(so) /\ DOMAIN v.reqs = Kept(w, so)
    BY <1>4, <1>9
  <2>3. ASSUME NEW r \in Scheduled(so)
        PROVE  /\ v.reqs[r].out = Outputs(w, so, r, Async, TRUE)
               /\ v.reqs[r].drafts = so.req[r].drafts
    <3>1. v.reqs[r].out = x.reqs[r].out /\ v.reqs[r].drafts = x.reqs[r].drafts
      BY <1>4, <1>9, <2>1
    <3>2. x.reqs[r] = [out |-> Outputs(w, so, r, Async, TRUE),
                       computed |-> so.req[r].computed, drafts |-> so.req[r].drafts]
      BY <1>4
    <3> QED BY <3>1, <3>2
  <2>4. ASSUME NEW r \in Kept(w, so) \ Scheduled(so)
        PROVE  v.reqs[r].out = w.reqs[r].out /\ v.reqs[r].drafts = w.reqs[r].drafts
    BY <1>4, <1>9
  <2> QED BY <2>2, <2>3, <2>4
<1>12. v.rows = x.rows /\ v.order = so.order
  <2> HIDE DEF so, w, x, y, v
  <2> QED BY <1>4, <1>9
<1> QED BY <1>10, <1>11, <1>12

LEMMA ExecutedStep ==
    ASSUME LineInv, ExecuteModel("last")
    PROVE  LET so == Head(Line)
               new == UpdateStates(Runner, so, Async, TRUE)
           IN  /\ UNCHANGED <<mode, request, finished, sampled>>
               /\ Scheduled(so) = {} =>
                    /\ Step' = NoStep /\ outputs' = Append(outputs, <<>>) /\ cached' = cached
               /\ Scheduled(so) # {} =>
                    /\ Step' # NoStep /\ outputs' = outputs
                    /\ Step'.req = so.req /\ Step'.discard = Discarded(new, so)
                    /\ Step'.inputs = InputIds(Runner, new, so)
                    /\ Step'.pos = [r \in Scheduled(so) |-> Position(Runner, so, r, Async)]
                    /\ cached' = [r \in Reqs |->
                          IF r \in Scheduled(so) /\ so.req[r].kind # "run"
                          THEN so.req[r].computed ELSE cached[r]]
<1> DEFINE so == Head(Line)
           new == UpdateStates(Runner, so, Async, TRUE)
<1>1. pending = [k \in Ranks |-> pending[k]] /\ Step = NoStep /\ "last" \in Ranks
  BY Sizes DEF LineInv, LineType, TypeInv, PendingType, ExecuteModel, Step
<1>2. UNCHANGED <<mode, request, finished, sampled>>
  BY DEF ExecuteModel
<1>3. CASE Scheduled(so) = {}
  BY <1>1, <1>2, <1>3 DEF ExecuteModel, Step, Line
<1>4. CASE Scheduled(so) # {}
  <2> DEFINE step == [phase |-> IF mode = "grammar" THEN "mask" ELSE "sample",
                      req |-> so.req,
                      pos |-> [r \in Scheduled(so) |-> Position(Runner, so, r, Async)],
                      inputs |-> InputIds(Runner, new, so),
                      discard |-> Discarded(new, so),
                      mask |-> <<>>, rows |-> <<>>]
  <2>1. /\ pending' = [pending EXCEPT !["last"] = step] /\ outputs' = outputs
        /\ cached' = [r \in Reqs |->
              IF r \in Scheduled(so) /\ so.req[r].kind # "run"
              THEN so.req[r].computed ELSE cached[r]]
    BY <1>4 DEF ExecuteModel, Line, Runner
  <2>2. /\ step.req = so.req /\ step.discard = Discarded(new, so)
        /\ step.inputs = InputIds(Runner, new, so)
        /\ step.pos = [r \in Scheduled(so) |-> Position(Runner, so, r, Async)]
        /\ step # NoStep
    <3>1. step.phase # NoStep.phase
      BY DEF NoStep
    <3> QED BY <3>1
  <2>3. Step' = step
    <3> HIDE DEF step
    <3> QED BY <1>1, <2>1 DEF Step
  <2> HIDE DEF step
  <2> QED BY <1>2, <1>4, <2>1, <2>2, <2>3
<1> QED BY <1>3, <1>4

(* What that does to a request's place in the line.                        *)
Execution(r) ==
    /\ Step = NoStep
    /\ UNCHANGED <<mode, request, finished, sampled>>
    /\ InBox(1, r)' <=> InBox(2, r)
    /\ InBox(2, r) => Boxed(1, r)' = Boxed(2, r)
    /\ ~InBox(2, r)'
    /\ EndsBox(1, r)' <=> EndsBox(2, r)
    /\ ~EndsBox(2, r)'
    /\ InWorker(r)' <=> (InWorker(r) /\ ~EndsBox(1, r)) \/ InBox(1, r)
    /\ InRows(r)' <=> InBox(1, r)
    /\ InBox(1, r) => OutLen(r)' = Boxed(1, r).outputs /\ Drafted(r)' = Boxed(1, r).drafts
    /\ ~InBox(1, r) /\ InWorker(r)' => OutLen(r)' = OutLen(r) /\ Drafted(r)' = Drafted(r)
    /\ InStep(r)' <=> InBox(1, r)
    /\ InBox(1, r) =>
         /\ Step' # NoStep /\ Step'.req[r] = Boxed(1, r)
         /\ Step'.pos[r] = Base(r) /\ cached'[r] = Base(r)
         /\ r \in Step'.discard <=> ~Reach(Boxed(1, r))
         /\ (Boxed(1, r).kind = "run" => Base(r) = cached[r])
    /\ ~InBox(1, r) => cached'[r] = cached[r]
    /\ Step' # NoStep => outputs' = outputs
    /\ Step' = NoStep => outputs' = Append(outputs, <<>>)
    /\ \A i \in {1, 2} : /\ InOut(i, r)' <=> InOut(i, r)
                         /\ InOut(i, r) => outputs'[i] = outputs[i]
    /\ Step' = NoStep => outputs' # <<>> /\ ~InOut(Len(outputs), r)'
    /\ InNewest(r)' <=> InNewest(r)

LEMMA Executed ==
    ASSUME LineInv, ExecuteModel("last"), NEW r \in Reqs
    PROVE  Execution(r)
<1> DEFINE so == Head(Line)
           new == UpdateStates(Runner, so, Async, TRUE)
<1>0. LineType /\ RequestInv(r)
  BY DEF LineInv
<1>1. /\ Step = NoStep /\ Line # <<>> /\ so = Line[1] /\ so \in SchedulerOutput
      /\ so.req \in StepReqs /\ so.order \in SetToSeqs(DOMAIN so.req)
      /\ r \in Scheduled(so) <=> InBox(1, r)
      /\ InBox(1, r) => so.req[r] = Boxed(1, r)
      /\ r \in so.ended <=> EndsBox(1, r)
      /\ Len(Line') = Len(Line) - 1 /\ Len(Line) \in {1, 2}
      /\ InBox(1, r)' <=> InBox(2, r)
      /\ InBox(2, r) => Boxed(1, r)' = Boxed(2, r)
      /\ EndsBox(1, r)' <=> EndsBox(2, r)
      /\ ~InBox(2, r)' /\ ~EndsBox(2, r)'
      /\ Len(Line) = 2 <=> Line' # <<>>
      /\ outputs # <<>> => Line' = <<>>
  BY <1>0, ExecutedLine
<1>2. /\ UNCHANGED <<mode, request, finished, sampled>>
      /\ Scheduled(so) = {} =>
           /\ Step' = NoStep /\ outputs' = Append(outputs, <<>>) /\ cached' = cached
      /\ Scheduled(so) # {} =>
           /\ Step' # NoStep /\ outputs' = outputs
           /\ Step'.req = so.req /\ Step'.discard = Discarded(new, so)
           /\ Step'.pos = [s \in Scheduled(so) |-> Position(Runner, so, s, Async)]
           /\ cached' = [s \in Reqs |->
                 IF s \in Scheduled(so) /\ so.req[s].kind # "run"
                 THEN so.req[s].computed ELSE cached[s]]
  BY ExecutedStep
<1>3. /\ DOMAIN Runner'.rows = Scheduled(so)
      /\ DOMAIN Runner'.reqs = Kept(Runner, so)
      /\ r \in Scheduled(so) =>
            /\ Runner'.reqs[r].out = Outputs(Runner, so, r, Async, TRUE)
            /\ Runner'.reqs[r].drafts = so.req[r].drafts
      /\ r \in Kept(Runner, so) \ Scheduled(so) =>
            /\ Runner'.reqs[r].out = Runner.reqs[r].out
            /\ Runner'.reqs[r].drafts = Runner.reqs[r].drafts
  BY ExecutedRunner
<1>4. InBox(1, r) => /\ Len(Outputs(Runner, so, r, Async, TRUE)) = Boxed(1, r).outputs
                     /\ Position(Runner, so, r, Async) = Base(r)
  BY <1>0, ExecutedOutputs, ExecutedShift
<1>5. Updated(new, Runner, so)
  <2>1. Runner = [reqs |-> Runner.reqs, rows |-> Runner.rows, order |-> Runner.order,
                  prev |-> Runner.prev]
    BY <1>0 DEF LineType, WorkerType
  <2> HIDE DEF so
  <2> QED BY <2>1, UpdateStatesFields
<1> HIDE DEF so, new
<1>6. InBox(1, r) => new.reqs[r].out = Outputs(Runner, so, r, Async, TRUE)
  <2>1. \A s \in Scheduled(so) :
           new.reqs[s] = [out |-> Outputs(Runner, so, s, Async, TRUE),
                          computed |-> so.req[s].computed, drafts |-> so.req[s].drafts]
    BY <1>5 DEF Updated
  <2>2. ASSUME InBox(1, r) PROVE new.reqs[r].out = Outputs(Runner, so, r, Async, TRUE)
    <3> DEFINE x == new.reqs[r]
               o == Outputs(Runner, so, r, Async, TRUE)
               c == so.req[r].computed
               d == so.req[r].drafts
    <3>1. x = [out |-> o, computed |-> c, drafts |-> d]
      BY <1>1, <2>1, <2>2
    <3> HIDE DEF x, o, c, d
    <3>2. x.out = o
      BY <3>1
    <3> QED BY <3>2 DEF x, o
  <2> QED BY <2>2
<1>7. /\ InWorker(r)' <=> (InWorker(r) /\ ~EndsBox(1, r)) \/ InBox(1, r)
      /\ InRows(r)' <=> InBox(1, r)
  BY <1>1, <1>3 DEF InWorker, InRows, Kept
<1>8. InBox(1, r) => OutLen(r)' = Boxed(1, r).outputs /\ Drafted(r)' = Boxed(1, r).drafts
  BY <1>1, <1>3, <1>4 DEF OutLen, Drafted
<1>9. ~InBox(1, r) /\ InWorker(r)' => OutLen(r)' = OutLen(r) /\ Drafted(r)' = Drafted(r)
  BY <1>1, <1>3 DEF OutLen, Drafted, InWorker
<1>10. /\ Step' # NoStep <=> Scheduled(so) # {}
       /\ InStep(r)' <=> InBox(1, r)
  <2>1. InStep(r)' <=> Step' # NoStep /\ r \in DOMAIN Step'.req
    BY DEF InStep, NoStep
  <2> QED BY <1>1, <1>2, <2>1 DEF Scheduled
<1>11. InBox(1, r) /\ Boxed(1, r).kind = "run" => Base(r) = cached[r]
  <2>1. InBox(1, r) /\ InBox(2, r) => Boxed(2, r).kind = "run"
    BY <1>0 DEF RequestInv, AimInv
  <2> QED BY <2>1 DEF Base, Afresh
<1>12. InBox(1, r) /\ Boxed(1, r).kind # "run" => Base(r) = 0 /\ Boxed(1, r).computed = 0
  BY <1>0 DEF Base, Afresh, RequestInv, GoodSteps, GoodReq
<1>13. ASSUME InBox(1, r)
       PROVE  /\ Step' # NoStep /\ Step'.req[r] = Boxed(1, r)
              /\ Step'.pos[r] = Base(r) /\ cached'[r] = Base(r)
              /\ r \in Step'.discard <=> ~Reach(Boxed(1, r))
  <2>1. r \in Scheduled(so) /\ Scheduled(so) # {}
    BY <1>1, <1>13
  <2>2. Step' # NoStep /\ Step'.req[r] = Boxed(1, r) /\ Step'.pos[r] = Base(r)
    BY <1>1, <1>2, <1>4, <1>13, <2>1
  <2>3. cached'[r] = Base(r)
    BY <1>1, <1>2, <1>11, <1>12, <1>13, <2>1
  <2>4. r \in Step'.discard <=>
          Boxed(1, r).computed + Boxed(1, r).n < PromptLen + Len(new.reqs[r].out)
    BY <1>1, <1>2, <1>13, <2>1 DEF Discarded
  <2>5. Len(new.reqs[r].out) = Boxed(1, r).outputs
    BY <1>4, <1>6, <1>13
  <2>6. Boxed(1, r) \in ScheduledRec
    BY <1>0, <1>13, PlaceTypes
  <2>7. r \in Step'.discard <=> ~Reach(Boxed(1, r))
    <3>1. /\ Boxed(1, r).computed \in Int /\ Boxed(1, r).n \in Int
          /\ Boxed(1, r).outputs \in Int /\ PromptLen \in Int
      BY <2>6, RecordTypes, RunnerAssumption
    <3> QED BY <2>4, <2>5, <3>1 DEF Reach
  <2> QED BY <2>2, <2>3, <2>7
<1>14. ~InBox(1, r) => cached'[r] = cached[r]
  BY <1>1, <1>2
<1>15. /\ Step' # NoStep => outputs' = outputs
       /\ Step' = NoStep => outputs' = Append(outputs, <<>>)
  BY <1>2, <1>10
<1>16. /\ \A i \in {1, 2} : /\ InOut(i, r)' <=> InOut(i, r)
                            /\ InOut(i, r) => outputs'[i] = outputs[i]
       /\ Step' = NoStep => outputs' # <<>> /\ ~InOut(Len(outputs), r)'
  <2>1. CASE Step' # NoStep
    <3>1. outputs' = outputs
      BY <1>15, <2>1
    <3> QED BY <2>1, <3>1 DEF InOut
  <2>2. CASE Step' = NoStep
    <3>1. outputs' = Append(outputs, <<>>) /\ outputs \in Seq(OutputMap) /\ <<>> \in OutputMap
      <4>1. <<>> \in [{} -> [tokens : Nat, drafts : Nat]] /\ {} \in SUBSET Reqs
        OBVIOUS
      <4>2. <<>> \in OutputMap
        BY <4>1 DEF OutputMap
      <4> QED BY <1>0, <1>15, <2>2, <4>2 DEF LineType, TypeInv, OutputsType
    <3>2. /\ outputs' \in Seq(OutputMap) /\ outputs' # <<>>
          /\ Len(outputs') = Len(outputs) + 1
          /\ \A i \in 1 .. Len(outputs) : outputs'[i] = outputs[i]
          /\ outputs'[Len(outputs) + 1] = <<>>
      BY <3>1, AppendProperties
    <3>3. Len(outputs) \in 0 .. 2
      BY <1>0, Sizes
    <3>4. DOMAIN <<>> = {}
      OBVIOUS
    <3>5. ASSUME NEW i \in {1, 2}
          PROVE  /\ InOut(i, r)' <=> InOut(i, r)
                 /\ InOut(i, r) => outputs'[i] = outputs[i]
      <4>1. CASE i \in 1 .. Len(outputs)
        <5>1. i \in 1 .. Len(outputs') /\ outputs'[i] = outputs[i]
          BY <3>2, <3>3, <4>1
        <5> QED BY <4>1, <5>1 DEF InOut
      <4>2. CASE i \notin 1 .. Len(outputs)
        <5>1. i \in 1 .. Len(outputs') => outputs'[i] = <<>>
          BY <3>2, <3>3, <4>2
        <5> QED BY <4>2, <5>1, <3>4 DEF InOut
      <4> QED BY <4>1, <4>2
    <3>6. ~InOut(Len(outputs), r)'
      BY <3>2, <3>3, <3>4 DEF InOut
    <3> QED BY <3>2, <3>5, <3>6
  <2> QED BY <2>1, <2>2
<1>17. InNewest(r)' <=> InNewest(r)
  <2>1. InNewest(r) <=> InBox(Len(Line), r)
    BY <1>1 DEF InNewest
  <2>2. CASE Line' # <<>>
    <3>1. Len(Line) = 2 /\ Len(Line') = 1
      BY <1>1, <2>2
    <3>2. InNewest(r)' <=> InBox(1, r)'
      BY <2>2, <3>1 DEF InNewest
    <3> QED BY <1>1, <2>1, <3>1, <3>2
  <2>3. CASE Line' = <<>>
    <3>1. Len(Line) = 1
      BY <1>1, <2>3
    <3>2. InNewest(r)' <=> IF Step' # NoStep THEN InStep(r)' ELSE InOut(Len(outputs), r)'
      BY <2>3 DEF InNewest, NoStep
    <3>3. Step' = NoStep => ~InBox(1, r)
      BY <1>13
    <3> QED BY <1>10, <1>16, <2>1, <3>1, <3>2, <3>3
  <2> QED BY <2>2, <2>3
<1>18. InBox(1, r) => 
         /\ Step' # NoStep /\ Step'.req[r] = Boxed(1, r)
         /\ Step'.pos[r] = Base(r) /\ cached'[r] = Base(r)
         /\ r \in Step'.discard <=> ~Reach(Boxed(1, r))
         /\ (Boxed(1, r).kind = "run" => Base(r) = cached[r])
  BY <1>11, <1>13
<1>19. InStep(r)' <=> InBox(1, r)
  BY <1>10
<1> QED BY <1>1, <1>2, <1>7, <1>8, <1>9, <1>14, <1>15, <1>16, <1>17, <1>18, <1>19 DEF Execution

LEMMA ExecutedCounts ==
    ASSUME LineInv, ExecuteModel("last"), NEW r \in Reqs
    PROVE  /\ Base(r)' = Base(r)
           /\ OwedStep(r)' = OwedBox(1, r) /\ OwedBox(1, r)' = OwedBox(2, r)
           /\ Got2(r)' = Got2(r) /\ Owed2(r)' = Owed2(r)
           /\ Owed(r)' = Owed(r) /\ Ahead(r)' = Ahead(r)
           /\ \A q : Reach(q)' <=> Reach(q)
           /\ \A q : Owes(q)' = Owes(q)
           /\ Async' = Async /\ Specs' = Specs /\ Limit' = Limit
<1>1. LineType /\ RequestInv(r)
  BY DEF LineInv
<1>2. Execution(r)
  BY Executed
<1>3. /\ \A q : Reach(q)' <=> Reach(q)
      /\ \A q : Owes(q)' = Owes(q)
  BY DEF Reach, Owes
<1>4. Async' = Async /\ Specs' = Specs /\ Limit' = Limit
  BY <1>2 DEF Execution, Async, Specs, Limit
<1>5. Base(r)' = Base(r)
  <2>1. CASE InBox(1, r)
    <3>1. InBox(2, r) => Boxed(2, r).kind = "run"
      BY <1>1, <2>1 DEF RequestInv, AimInv
    <3>2. ~Afresh(r)'
      BY <1>2, <3>1 DEF Execution, Afresh
    <3>3. cached'[r] = Base(r)
      BY <1>2, <2>1 DEF Execution
    <3> QED BY <3>2, <3>3 DEF Base
  <2>2. CASE ~InBox(1, r)
    <3>1. Afresh(r)' <=> Afresh(r)
      BY <1>2, <2>2 DEF Execution, Afresh
    <3>2. cached'[r] = cached[r]
      BY <1>2, <2>2 DEF Execution
    <3> QED BY <3>1, <3>2 DEF Base
  <2> QED BY <2>1, <2>2
<1>6. /\ OwedStep(r)' = OwedBox(1, r) /\ OwedBox(1, r)' = OwedBox(2, r) /\ OwedBox(2, r)' = 0
      /\ AheadStep(r)' = AheadBox(1, r) /\ AheadBox(1, r)' = AheadBox(2, r)
      /\ AheadBox(2, r)' = 0
  <2>1. CASE InBox(1, r)
    BY <1>2, <1>3, <2>1 DEF Execution, OwedStep, OwedBox, AheadStep, AheadBox
  <2>2. CASE ~InBox(1, r)
    BY <1>2, <1>3, <2>2 DEF Execution, OwedStep, OwedBox, AheadStep, AheadBox
  <2> QED BY <2>1, <2>2
<1>7. \A i \in {1, 2} : GotOut(i, r)' = GotOut(i, r) /\ OwedOut(i, r)' = OwedOut(i, r)
  BY <1>2 DEF Execution, GotOut, OwedOut
<1>8. Got2(r)' = Got2(r) /\ Owed2(r)' = Owed2(r)
  BY <1>7 DEF Got2, Owed2
<1>9. OwedStep(r) = 0 /\ AheadStep(r) = 0
  BY <1>2 DEF Execution, OwedStep, AheadStep, InStep
<1>10. Owed2(r) \in Nat /\ \A i \in {1, 2} : OwedBox(i, r) \in Nat /\ AheadBox(i, r) \in Nat
  BY <1>1, CountTypes, Numbers
<1>11. /\ Owed(r) = Owed2(r) + OwedStep(r) + OwedBox(1, r) + OwedBox(2, r)
       /\ Owed(r)' = Owed2(r)' + OwedStep(r)' + OwedBox(1, r)' + OwedBox(2, r)'
       /\ Ahead(r) = AheadStep(r) + AheadBox(1, r) + AheadBox(2, r)
       /\ Ahead(r)' = AheadStep(r)' + AheadBox(1, r)' + AheadBox(2, r)'
  BY DEF Owed, Ahead
<1>12. Owed(r)' = Owed(r) /\ Ahead(r)' = Ahead(r)
  BY <1>6, <1>8, <1>9, <1>10, <1>11
<1> QED BY <1>3, <1>4, <1>5, <1>6, <1>8, <1>12

LEMMA ExecutedEasy ==
    ASSUME LineInv, ExecuteModel("last"), NEW r \in Reqs
    PROVE  GoodSteps(r)' /\ EndedInv(r)' /\ StateInv(r)' /\ CountInv(r)' /\ LeftInv(r)'
<1>1. LineType /\ RequestInv(r)
  BY DEF LineInv
<1>2. Execution(r)
  BY Executed
<1>3. /\ Base(r)' = Base(r)
      /\ Got2(r)' = Got2(r) /\ Owed2(r)' = Owed2(r)
      /\ Owed(r)' = Owed(r) /\ Ahead(r)' = Ahead(r)
      /\ \A q : Reach(q)' <=> Reach(q)
      /\ Async' = Async /\ Specs' = Specs
  BY ExecutedCounts
<1>4. request' = request /\ finished' = finished /\ sampled' = sampled
  BY <1>2 DEF Execution
<1>5. /\ Live(r)' <=> Live(r)
      /\ Running(r)' <=> Running(r)
      /\ Left(r)' = Left(r)
  BY <1>4 DEF Live, Running, Left
<1>6. GoodSteps(r)'
  <2>1. \A q : GoodReq(q)' <=> GoodReq(q)
    BY <1>3 DEF GoodReq
  <2> QED BY <1>1, <1>2, <1>3, <2>1 DEF RequestInv, Execution, GoodSteps
<1>7. EndedInv(r)'
  BY <1>1, <1>2, <1>4, <1>5 DEF RequestInv, Execution, EndedInv
<1>8. StateInv(r)'
  <2>1. StateInv(r) /\ EndedInv(r)
    BY <1>1 DEF RequestInv
  <2>2. /\ InBox(1, r)' <=> InBox(2, r)
        /\ InStep(r)' <=> InBox(1, r)
        /\ \A i \in {1, 2} : InOut(i, r)' <=> InOut(i, r)
        /\ ~InBox(2, r)' /\ (InNewest(r)' <=> InNewest(r))
        /\ InWorker(r)' <=> (InWorker(r) /\ ~EndsBox(1, r)) \/ InBox(1, r)
    BY <1>2 DEF Execution
  <2>3. Idle(r) => Idle(r)'
    BY <2>2 DEF Idle
  <2>4. request[r].state = "waiting" => ~InWorker(r)'
    BY <2>1, <2>2 DEF StateInv, Idle
  <2>5. request[r].state \in {"running", "preempted"} => InWorker(r)' \/ InBox(1, r)'
    BY <2>1, <2>2 DEF StateInv, EndedInv, Live
  <2> QED BY <1>4, <2>1, <2>2, <2>3, <2>4, <2>5 DEF StateInv
<1>9. CountInv(r)'
  BY <1>1, <1>3, <1>4, <1>5 DEF RequestInv, CountInv
<1>10. LeftInv(r)'
  <2>1. LeftInv(r)
    BY <1>1 DEF RequestInv
  <2>2. /\ InBox(1, r)' <=> InBox(2, r)
        /\ InStep(r)' <=> InBox(1, r)
        /\ ~InBox(1, r) => cached'[r] = cached[r]
        /\ ~InStep(r)
    BY <1>2 DEF Execution, InStep
  <2> QED BY <1>3, <1>4, <1>5, <2>1, <2>2 DEF LeftInv
<1> QED BY <1>6, <1>7, <1>8, <1>9, <1>10

LEMMA ExecutedAim ==
    ASSUME LineInv, ExecuteModel("last"), NEW r \in Reqs
    PROVE  DraftInv(r)' /\ RoomInv(r)' /\ AimInv(r)' /\ PlainInv(r)' /\ WorkerInv(r)'
<1>1. LineType /\ RequestInv(r)
  BY DEF LineInv
<1>2. Execution(r)
  BY Executed
<1>3. /\ Base(r)' = Base(r)
      /\ OwedStep(r)' = OwedBox(1, r) /\ OwedBox(1, r)' = OwedBox(2, r)
      /\ \A q : Reach(q)' <=> Reach(q)
      /\ Async' = Async /\ Limit' = Limit
  BY ExecutedCounts
<1>4. request' = request /\ sampled' = sampled
  BY <1>2 DEF Execution
<1>5. Running(r)' <=> Running(r)
  BY <1>4 DEF Running
<1>6. /\ InBox(1, r)' <=> InBox(2, r)
      /\ InBox(2, r) => Boxed(1, r)' = Boxed(2, r)
      /\ ~InBox(2, r)' /\ Step = NoStep /\ ~InStep(r)
      /\ InWorker(r)' <=> (InWorker(r) /\ ~EndsBox(1, r)) \/ InBox(1, r)
      /\ InRows(r)' <=> InBox(1, r)
      /\ InBox(1, r) => OutLen(r)' = Boxed(1, r).outputs /\ Drafted(r)' = Boxed(1, r).drafts
      /\ ~InBox(1, r) /\ InWorker(r)' => OutLen(r)' = OutLen(r) /\ Drafted(r)' = Drafted(r)
      /\ InStep(r)' <=> InBox(1, r)
      /\ InBox(1, r) => /\ Step' # NoStep /\ Step'.req[r] = Boxed(1, r)
                        /\ Step'.pos[r] = Base(r) /\ cached'[r] = Base(r)
                        /\ r \in Step'.discard <=> ~Reach(Boxed(1, r))
      /\ Step' = NoStep => outputs' # <<>> /\ ~InOut(Len(outputs), r)'
      /\ InNewest(r)' <=> InNewest(r)
  BY <1>2 DEF Execution, InStep
<1>7. DraftInv(r)'
  <2>1. DraftInv(r)
    BY <1>1 DEF RequestInv
  <2>2. Running(r) /\ ~InBox(2, r) /\ InWorker(r)' /\ Drafted(r)' > 0 => request[r].drafts > 0
    BY <1>6, <2>1 DEF DraftInv
  <2>3. Running(r) /\ InBox(2, r) /\ Boxed(2, r).drafts > 0 => request[r].drafts > 0
    BY <2>1 DEF DraftInv
  <2> QED BY <1>3, <1>4, <1>5, <1>6, <2>1, <2>2, <2>3 DEF DraftInv
<1>8. RoomInv(r)'
  <2>1. RoomInv(r)
    BY <1>1 DEF RequestInv
  <2>2. (Step = NoStep)' => ~InBox(1, r)
    BY <1>6 DEF NoStep
  <2> QED BY <1>3, <1>4, <1>5, <1>6, <2>1, <2>2 DEF RoomInv
<1>9. AimInv(r)'
  <2>1. AimInv(r) /\ EndedInv(r)
    BY <1>1 DEF RequestInv
  <2>2. InBox(2, r) => ~EndsBox(1, r)
    <3>1. 1 \in {1, 2} /\ 2 \in {1, 2} /\ 1 <= 2
      OBVIOUS
    <3> QED BY <2>1, <3>1 DEF EndedInv
  <2>3. InBox(2, r) /\ ~InBox(1, r) =>
          /\ Boxed(2, r).computed = Base(r)
          /\ Async => Boxed(2, r).outputs = Boxed(2, r).known
          /\ Boxed(2, r).kind = "new" \/ InWorker(r)'
    BY <1>6, <2>1, <2>2 DEF AimInv, Settled
  <2>4. InBox(2, r) /\ InBox(1, r) =>
          /\ Boxed(2, r).kind = "run"
          /\ Boxed(2, r).computed = Base(r) + Boxed(1, r).n
          /\ Async => Boxed(2, r).outputs <= Boxed(1, r).outputs + OwedBox(1, r)
    BY <2>1 DEF AimInv
  <2>5. (Step = NoStep /\ InBox(1, r) =>
          /\ Boxed(1, r).computed - Shift(r) = Base(r)
          /\ Boxed(1, r).kind = "new" \/ InWorker(r)
          /\ Async => IF InRows(r) /\ Boxed(1, r).kind = "run"
                      THEN Boxed(1, r).outputs <= OutLen(r) + Drafted(r)
                      ELSE Boxed(1, r).outputs = Boxed(1, r).known)'
    <3> SUFFICES ASSUME (Step = NoStep)', InBox(1, r)'
                 PROVE  (/\ Boxed(1, r).computed - Shift(r) = Base(r)
                         /\ Boxed(1, r).kind = "new" \/ InWorker(r)
                         /\ Async => IF InRows(r) /\ Boxed(1, r).kind = "run"
                                     THEN Boxed(1, r).outputs <= OutLen(r) + Drafted(r)
                                     ELSE Boxed(1, r).outputs = Boxed(1, r).known)'
      OBVIOUS
    <3>1. InBox(2, r) /\ ~InBox(1, r) /\ ~InRows(r)'
      BY <1>6 DEF NoStep
    <3>2. Shift(r)' = 0
      BY <3>1 DEF Shift
    <3>3. Boxed(2, r).computed \in Int
      BY <1>1, <3>1, PlaceTypes, RecordTypes
    <3> QED BY <1>3, <1>6, <2>3, <3>1, <3>2, <3>3
  <2>6. InStep(r)' /\ InBox(1, r)' =>
          /\ Boxed(1, r)'.kind = "run"
          /\ Boxed(1, r)'.computed = Step'.pos[r] + Step'.req[r].n
          /\ Async' => Boxed(1, r)'.outputs <= Step'.req[r].outputs + OwedStep(r)'
    BY <1>3, <1>6, <2>4
  <2>7. ASSUME ~InStep(r)', InBox(1, r)' PROVE Settled(r, Boxed(1, r))'
    BY <1>3, <1>6, <2>3, <2>7 DEF Settled
  <2>8. InBox(1, r)' /\ Boxed(1, r)'.kind = "new" => ~InWorker(r)'
    BY <1>6, <2>1, <2>4 DEF AimInv
  <2>9. \A i \in {1, 2} : InBox(i, r)' /\ Boxed(i, r)'.kind = "new" => ~InWorker(r)'
    BY <1>6, <2>8
  <2> QED BY <1>6, <2>5, <2>6, <2>7, <2>9 DEF AimInv
<1>10. PlainInv(r)'
  <2>1. PlainInv(r)
    BY <1>1 DEF RequestInv
  <2> QED BY <1>3, <1>4, <1>6, <2>1 DEF PlainInv
<1>11. WorkerInv(r)'
  <2>1. (Step = NoStep)' => ~InBox(1, r) /\ outputs' # <<>> /\ ~InOut(Len(outputs), r)'
    BY <1>6 DEF NoStep
  <2> QED BY <1>3, <1>6, <2>1 DEF WorkerInv
<1> QED BY <1>7, <1>8, <1>9, <1>10, <1>11

LEMMA ExecutedInv ==
    ASSUME LineInv, ExecuteModel("last")
    PROVE  LineInv'
<1>1. LineType
  BY DEF LineInv
<1>2. ASSUME NEW r \in Reqs PROVE RequestInv(r)'
  BY ExecutedEasy, ExecutedAim DEF RequestInv
<1>3. TypeInv' /\ WorkerType'
  <2>1. TypeInv /\ "last" \in Ranks
    BY <1>1, Sizes DEF LineType
  <2> QED BY <2>1, ExecutedRunner, ExecuteModelTyped
<1>4. sampled' \in [Reqs -> Nat] /\ cached' \in [Reqs -> Nat]
  <2>1. sampled' = sampled /\ cached' = [r \in Reqs |-> cached'[r]]
    <3>1. CASE Scheduled(Head(Line)) = {}
      BY <1>1, <3>1, ExecutedStep DEF LineType
    <3>2. CASE Scheduled(Head(Line)) # {}
      BY <3>2, ExecutedStep
    <3> QED BY <3>1, <3>2
  <2>2. ASSUME NEW r \in Reqs PROVE cached'[r] \in Nat
    <3>1. Execution(r)
      BY Executed
    <3>2. cached[r] \in Nat /\ Base(r) \in Nat
      BY <1>1, Numbers
    <3> QED BY <3>1, <3>2 DEF Execution
  <2> QED BY <1>1, <2>1, <2>2 DEF LineType
<1>5. (InFlight <= Depth)'
  <2>1. Step = NoStep /\ Depth' = Depth
    BY DEF ExecuteModel, Step, Depth
  <2>2. Len(Line') = Len(Line) - 1 /\ Line # <<>>
    <3>1. Line # <<>> /\ inbox' = [inbox EXCEPT !["last"] = Tail(@)]
      BY DEF ExecuteModel, Line
    <3>2. inbox \in [Ranks -> Seq(SchedulerOutput)] /\ InboxType /\ "last" \in Ranks
      BY <1>1, Sizes DEF LineType, TypeInv, InboxType
    <3>3. Line' = Tail(Line)
      BY <3>1, <3>2 DEF Line
    <3> QED BY <3>1, <3>2, <3>3, InboxHead DEF Line
  <2>3. \/ Step' = NoStep /\ Len(outputs') = Len(outputs) + 1
        \/ Step' # NoStep /\ outputs' = outputs
    <3>1. outputs' = Append(outputs, <<>>) => Len(outputs') = Len(outputs) + 1
      BY <1>1, AppendProperties DEF LineType, TypeInv, OutputsType
    <3> QED BY <3>1, ExecutedStep
  <2>4. InFlight' = Len(Line') + Len(outputs') + (IF Step' = NoStep THEN 0 ELSE 1)
    BY DEF InFlight, Line, Step, NoStep
  <2>5. InFlight' <= Depth
    BY <1>1, <2>1, <2>2, <2>3, <2>4, Sizes
  <2> QED BY <2>1, <2>5
<1>6. LineType'
  BY <1>3, <1>4, <1>5 DEF LineType
<1> QED BY <1>2, <1>6 DEF LineInv

-----------------------------------------------------------------------------
(* What the runner's bookkeeping adds to the requests of a step.           *)

(* The batch has a row for each request of a step.                         *)
LEMMA OrderCovers ==
    ASSUME NEW S \in SUBSET Reqs, NEW order \in SetToSeqs(S)
    PROVE  Range(order) = S /\ \A r \in S : \E i \in DOMAIN order : order[i] = r
<1> DEFINE D == 1 .. Cardinality(S)
<1>1. IsFiniteSet(S) /\ Cardinality(S) \in Nat
  BY EngineAssumption, FS_Subset, FS_CardinalityType
<1>2. order \in [D -> S] /\ \A i, j \in D : order[i] = order[j] => i = j
  BY DEF SetToSeqs
<1>3. IsFiniteSet(D) /\ Cardinality(D) = Cardinality(S)
  BY <1>1, FS_Interval
<1> HIDE DEF D
<1>4. order \in Injection(D, S)
  BY <1>2 DEF Injection, IsInjective
<1>5. order \in Surjection(D, S)
  BY <1>1, <1>3, <1>4, FS_Injection
<1>6. \A r \in S : \E i \in DOMAIN order : order[i] = r
  BY <1>2, <1>5 DEF Surjection
<1>7. Range(order) = S
  BY SMTT(30), <1>2, <1>6 DEF Range
<1> QED BY <1>6, <1>7

-----------------------------------------------------------------------------
(* The last rank samples the tokens of its step.                           *)

Sampling(r, g) ==
    LET q == Step.req[r]
    IN  /\ Step # NoStep /\ Step' = NoStep
        /\ UNCHANGED <<mode, request, finished, inbox>>
        /\ InStep(r) => /\ g[r] \in Nat /\ g[r] <= q.drafts + 1
                        /\ g[r] > 0 <=> Reach(q)
        /\ Len(outputs') = Len(outputs) + 1
        /\ \A i \in 1 .. Len(outputs) : outputs'[i] = outputs[i]
        /\ InOut(Len(outputs), r)' <=> InStep(r)
        /\ InStep(r) => /\ outputs'[Len(outputs')][r].tokens = g[r]
                        /\ outputs'[Len(outputs')][r].drafts = q.drafts
        /\ sampled'[r] = sampled[r] + (IF InStep(r) THEN g[r] ELSE 0)
        /\ ~InStep(r) => cached'[r] = cached[r]
        /\ InStep(r) => cached'[r] = cached[r] + q.n - q.drafts
                                       + (IF g[r] > 0 THEN g[r] - 1 ELSE 0)
        /\ InWorker(r)' <=> InWorker(r)
        /\ InRows(r)' <=> InRows(r)
        /\ InWorker(r) =>
             /\ Drafted(r)' = Drafted(r)
             /\ OutLen(r)' = OutLen(r)
                   + (IF InStep(r) /\ Reach(q) THEN (IF Async THEN 1 ELSE g[r]) ELSE 0)
        /\ Async /\ InStep(r) /\ Reach(q) => InPrev(r)' /\ Counted(r)' = g[r]

(* The parts of a step's sampling, named.                                  *)
SampledTokens(g) ==
    [r \in DOMAIN Step.req \ Step.discard |->
        IF Async THEN <<Hole>>
        ELSE [j \in 1 .. g[r] |-> PromptLen + sampled[r] + j - 1]]

SampledOutput(g) ==
    [r \in DOMAIN Step.req |-> [tokens |-> g[r], drafts |-> Step.req[r].drafts]]

SampledWorker(g) == Cached(Runner, SampledTokens(g))

SampledValid(g) == [i \in DOMAIN Runner.order |-> g[Runner.order[i]]]

SampledLast(g) == [i \in DOMAIN Runner.order |->
    IF Runner.order[i] \in Step.discard THEN NoToken
    ELSE <<Runner.order[i], PromptLen + sampled[Runner.order[i]] + g[Runner.order[i]] - 1>>]

SampledBy(g) ==
    /\ g \in [DOMAIN Step.req -> 0 .. 1 + Specs]
    /\ Runner' = IF Async THEN Remember(SampledWorker(g), Step.discard, SampledLast(g),
                                        SampledValid(g))
                           ELSE SampledWorker(g)

LEMMA SampleFacts ==
    ASSUME LineType, SampleTokens
    PROVE  /\ Step # NoStep /\ Step' = NoStep /\ "last" \in Ranks
           /\ UNCHANGED <<mode, request, finished, inbox>>
           /\ \E g \in [DOMAIN Step.req -> 0 .. 1 + Specs] :
                /\ \A r \in DOMAIN Step.req :
                      IF r \in Step.discard THEN g[r] = 0
                      ELSE 1 <= g[r] /\ g[r] <= 1 + Step.req[r].drafts
                /\ SampledBy(g)
                /\ worker' = [k \in Ranks |-> worker'[k]]
                /\ outputs' = Append(outputs, SampledOutput(g))
                /\ sampled' = [r \in Reqs |-> IF r \in DOMAIN Step.req THEN sampled[r] + g[r]
                                                                       ELSE sampled[r]]
                /\ cached' = [r \in Reqs |->
                      IF r \notin DOMAIN Step.req THEN cached[r]
                      ELSE Step.pos[r] + Step.req[r].n - Step.req[r].drafts
                             + (IF g[r] > 0 THEN g[r] - 1 ELSE 0)]
<1>1. "last" \in Ranks /\ pending = [k \in Ranks |-> pending[k]]
      /\ worker = [k \in Ranks |-> worker[k]]
  BY Sizes DEF LineType, TypeInv, PendingType, WorkerType
<1>2. UNCHANGED <<mode, request, finished, inbox>>
  BY DEF SampleTokens
<1>3. Step # NoStep
  <2>1. Step.phase = "sample"
    BY DEF SampleTokens, Step
  <2> QED BY <2>1 DEF NoStep
<1>4. Step' = NoStep
  <2>1. pending' = [pending EXCEPT !["last"] = NoStep]
    BY SMTT(30) DEF SampleTokens
  <2> QED BY <1>1, <2>1 DEF Step
<1>5. PICK g \in [DOMAIN Step.req -> 0 .. 1 + Specs] :
        /\ \A r \in DOMAIN Step.req :
              IF r \in Step.discard THEN g[r] = 0
              ELSE 1 <= g[r] /\ g[r] <= 1 + Step.req[r].drafts
        /\ LET real   == [r \in DOMAIN Step.req |->
                            [j \in 1 .. g[r] |-> PromptLen + sampled[r] + j - 1]]
               tokens == [r \in DOMAIN Step.req \ Step.discard |->
                            IF Async THEN <<Hole>> ELSE real[r]]
               last   == [i \in DOMAIN Runner.order |->
                            IF Runner.order[i] \in Step.discard THEN NoToken
                            ELSE <<Runner.order[i],
                                   PromptLen + sampled[Runner.order[i]] + g[Runner.order[i]] - 1>>]
               valid  == [i \in DOMAIN Runner.order |-> g[Runner.order[i]]]
               new    == Cached(Runner, tokens)
           IN  /\ worker' = [worker EXCEPT !["last"] =
                     IF Async THEN Remember(new, Step.discard, last, valid) ELSE new]
               /\ outputs' = Append(outputs, [r \in DOMAIN Step.req |->
                                 [tokens |-> g[r], drafts |-> Step.req[r].drafts]])
               /\ sampled' = [r \in Reqs |-> IF r \in DOMAIN Step.req THEN sampled[r] + g[r]
                                                                      ELSE sampled[r]]
               /\ cached' = [r \in Reqs |->
                     IF r \notin DOMAIN Step.req THEN cached[r]
                     ELSE Step.pos[r] + Step.req[r].n - Step.req[r].drafts
                            + (IF g[r] > 0 THEN g[r] - 1 ELSE 0)]
  BY DEF SampleTokens, Step, Runner
<1> DEFINE real == [r \in DOMAIN Step.req |->
                      [j \in 1 .. g[r] |-> PromptLen + sampled[r] + j - 1]]
           tokens == [r \in DOMAIN Step.req \ Step.discard |->
                        IF Async THEN <<Hole>> ELSE real[r]]
           last == [i \in DOMAIN Runner.order |->
                      IF Runner.order[i] \in Step.discard THEN NoToken
                      ELSE <<Runner.order[i],
                             PromptLen + sampled[Runner.order[i]] + g[Runner.order[i]] - 1>>]
           v == IF Async
                THEN Remember(SampledWorker(g), Step.discard, last, SampledValid(g))
                ELSE SampledWorker(g)
<1>6. tokens = SampledTokens(g)
  <2>1. \A r \in DOMAIN Step.req \ Step.discard :
           real[r] = [j \in 1 .. g[r] |-> PromptLen + sampled[r] + j - 1]
    OBVIOUS
  <2> QED BY <2>1 DEF SampledTokens
<1>7. worker' = [worker EXCEPT !["last"] = v]
  BY <1>5, <1>6 DEF SampledWorker, SampledValid
<1>8. Ranks' = Ranks
  BY <1>2 DEF Ranks
<1> HIDE DEF v
<1>9. Runner' = v /\ worker' = [k \in Ranks |-> worker'[k]]
  BY <1>1, <1>7 DEF Runner
<1>10. outputs' = Append(outputs, SampledOutput(g))
  BY <1>5 DEF SampledOutput
<1>11. SampledBy(g)
  BY <1>5, <1>9 DEF v, SampledBy, SampledLast
<1> HIDE DEF tokens, last, real
<1> QED BY <1>1, <1>2, <1>3, <1>4, <1>5, <1>9, <1>10, <1>11

\* What w has more than the runner of the step's tokens, of which v are the last.
SampledTo(w, g, v) ==
    LET tokens == SampledTokens(g)
    IN  /\ w.rows = [r \in DOMAIN Runner.rows |-> IF r \in DOMAIN tokens
                                                 THEN Runner.rows[r] \o tokens[r]
                                                 ELSE Runner.rows[r]]
        /\ \A r \in DOMAIN Runner.reqs :
              w.reqs[r].out = IF r \in DOMAIN tokens THEN Runner.reqs[r].out \o tokens[r]
                                                     ELSE Runner.reqs[r].out
        /\ ~Async => w.prev = Runner.prev
        /\ Async =>
              /\ w.prev.sampled = v
              /\ DOMAIN w.prev.index = DOMAIN Step.req \ Step.discard
              /\ \A r \in DOMAIN Step.req \ Step.discard :
                    /\ w.prev.index[r] \in DOMAIN Runner.order
                    /\ Runner.order[w.prev.index[r]] = r

LEMMA SampledRunner ==
    ASSUME LineType, Step # NoStep, NEW g \in [DOMAIN Step.req -> 0 .. 1 + Specs], NEW v,
           NEW w, w = IF Async THEN Remember(SampledWorker(g), Step.discard, v, SampledValid(g))
                      ELSE SampledWorker(g)
    PROVE  /\ WorkerRec(w)
           /\ DOMAIN w.reqs = DOMAIN Runner.reqs /\ DOMAIN w.rows = DOMAIN Runner.rows
           /\ \A r \in DOMAIN Runner.reqs :
                 /\ w.reqs[r].drafts = Runner.reqs[r].drafts
                 /\ Len(w.reqs[r].out) = Len(Runner.reqs[r].out)
                       + (IF r \in DOMAIN Step.req \ Step.discard
                          THEN (IF Async THEN 1 ELSE g[r]) ELSE 0)
           /\ Async => \A r \in DOMAIN Step.req \ Step.discard :
                         /\ r \in DOMAIN w.prev.index
                         /\ w.prev.valid[w.prev.index[r]] = g[r]
           /\ SampledTo(w, g, v)
<1> DEFINE t == SampledTokens(g)
           s == SampledWorker(g)
           u == Remember(s, Step.discard, v, SampledValid(g))
           order == Runner.order
<1>1. WorkerRec(Runner) /\ order \in SetToSeqs(DOMAIN Step.req) /\ DOMAIN Step.req \in SUBSET Reqs
  <2>1. IsStep(Step)
    BY Sizes DEF LineType, TypeInv, PendingType, Step
  <2>2. DOMAIN Step.req \subseteq Reqs
    BY <2>1, StepReqsFacts DEF IsStep
  <2> QED BY <2>2 DEF LineType, WorkerType, WorkerRec
<1>2. DOMAIN t = DOMAIN Step.req \ Step.discard
  BY DEF SampledTokens
<1>3. \A r \in DOMAIN t : t[r] \in Seq(Int) /\ Len(t[r]) = IF Async THEN 1 ELSE g[r]
  <2> SUFFICES ASSUME NEW r \in DOMAIN t
               PROVE  t[r] \in Seq(Int) /\ Len(t[r]) = IF Async THEN 1 ELSE g[r]
    OBVIOUS
  <2>1. r \in DOMAIN Step.req \ Step.discard
    BY <1>2
  <2>2. CASE Async
    <3>1. t[r] = <<Hole>>
      BY <2>1, <2>2 DEF SampledTokens
    <3>2. <<Hole>> \in Seq(Int) /\ Len(<<Hole>>) = 1
      BY DEF Hole
    <3> HIDE DEF t
    <3> QED BY <2>2, <3>1, <3>2
  <2>3. CASE ~Async
    <3> DEFINE n == g[r]
               f == [j \in 1 .. n |-> PromptLen + sampled[r] + j - 1]
    <3>1. t[r] = f
      BY <2>1, <2>3 DEF SampledTokens
    <3>2. n \in Nat
      BY <2>1, Sizes
    <3>3. PromptLen \in Int /\ sampled[r] \in Int
      BY <1>1, <2>1, RunnerAssumption DEF LineType
    <3> HIDE DEF n
    <3>4. f \in [1 .. n -> Int]
      BY <3>3
    <3>5. f \in Seq(Int) /\ Len(f) = n
      BY <3>2, <3>4
    <3> HIDE DEF t, f
    <3> QED BY <2>3, <3>1, <3>5 DEF n
  <2> QED BY <2>2, <2>3
<1>4. CachedTo(s, Runner, t)
  <2>1. \A r \in DOMAIN t : t[r] \in Seq(Int)
    BY <1>3
  <2> HIDE DEF t
  <2>2. CachedTo(Cached(Runner, t), Runner, t)
    BY <1>1, <2>1, CachedFields
  <2> QED BY <2>2 DEF t, SampledWorker
<1>5. WorkerRec(s) /\ s.order = order
  <2> HIDE DEF s, t, order
  <2> QED BY <1>4 DEF CachedTo, order
<1>6. /\ WorkerRec(u) /\ u.reqs = s.reqs /\ u.rows = s.rows
      /\ u.prev.index = IndexOf(s, Step.discard) /\ u.prev.valid = SampledValid(g)
      /\ u.prev.sampled = v
  <2> HIDE DEF s
  <2> QED BY <1>5, RememberedFields
<1>7. w = IF Async THEN u ELSE s
  OBVIOUS
<1> HIDE DEF u, s, t, order
<1>8. WorkerRec(w) /\ w.reqs = s.reqs /\ w.rows = s.rows
  BY <1>5, <1>6, <1>7
<1>9. /\ DOMAIN w.reqs = DOMAIN Runner.reqs /\ DOMAIN w.rows = DOMAIN Runner.rows
      /\ \A r \in DOMAIN Runner.reqs :
            /\ w.reqs[r].drafts = Runner.reqs[r].drafts
            /\ Len(w.reqs[r].out) = Len(Runner.reqs[r].out)
                  + (IF r \in DOMAIN t THEN Len(t[r]) ELSE 0)
  BY <1>4, <1>8 DEF CachedTo
<1>10. \A r \in DOMAIN Runner.reqs :
          Len(w.reqs[r].out) = Len(Runner.reqs[r].out)
                + (IF r \in DOMAIN Step.req \ Step.discard
                   THEN (IF Async THEN 1 ELSE g[r]) ELSE 0)
  BY <1>2, <1>3, <1>9
<1>11. ASSUME Async, NEW r \in DOMAIN Step.req \ Step.discard
       PROVE  r \in DOMAIN w.prev.index /\ w.prev.valid[w.prev.index[r]] = g[r]
  <2>1. w.prev.index = IndexOf(s, Step.discard) /\ w.prev.valid = SampledValid(g)
    BY <1>6, <1>7, <1>11
  <2>2. Range(order) = DOMAIN Step.req /\ \E i \in DOMAIN order : order[i] = r
    BY <1>1, <1>11, OrderCovers
  <2>3. /\ r \in DOMAIN IndexOf(s, Step.discard)
        /\ IndexOf(s, Step.discard)[r] = CHOOSE i \in DOMAIN order : order[i] = r
    BY <1>5, <1>11, <2>2 DEF IndexOf
  <2> DEFINE k == CHOOSE i \in DOMAIN order : order[i] = r
  <2>4. k \in DOMAIN order /\ order[k] = r
    BY <2>2
  <2> HIDE DEF k
  <2>5. SampledValid(g)[k] = g[r]
    BY <2>4 DEF SampledValid, order
  <2> QED BY <2>1, <2>3, <2>5 DEF k
<1>12. ASSUME Async
       PROVE  /\ w.prev.sampled = v
              /\ DOMAIN w.prev.index = DOMAIN Step.req \ Step.discard
              /\ \A r \in DOMAIN Step.req \ Step.discard :
                    w.prev.index[r] \in DOMAIN order /\ order[w.prev.index[r]] = r
  <2>1. w.prev.index = IndexOf(s, Step.discard) /\ w.prev.sampled = v
    BY <1>6, <1>7, <1>12
  <2>2. /\ Range(order) = DOMAIN Step.req
        /\ \A r \in DOMAIN Step.req : \E i \in DOMAIN order : order[i] = r
    BY <1>1, OrderCovers
  <2>3. IndexOf(s, Step.discard) =
          [r \in DOMAIN Step.req \ Step.discard |-> CHOOSE i \in DOMAIN order : order[i] = r]
    BY <1>5, <2>2 DEF IndexOf
  <2> QED BY <2>1, <2>2, <2>3
<1>13. SampledTo(w, g, v)
  <2>1. s.prev = Runner.prev /\ CachedTo(s, Runner, SampledTokens(g))
    BY <1>4 DEF CachedTo, t
  <2>2. ~Async => w.prev = Runner.prev
    BY <1>7, <2>1
  <2> QED BY ZenonT(40), <1>8, <1>12, <2>1, <2>2 DEF SampledTo, CachedTo, order
<1> QED BY <1>8, <1>9, <1>10, <1>11, <1>13

LEMMA Sampled ==
    ASSUME LineInv, SampleTokens
    PROVE  /\ WorkerType'
           /\ sampled' \in [Reqs -> Nat]
           /\ cached' = [r \in Reqs |-> cached'[r]]
           /\ \E g : (\A r \in Reqs : Sampling(r, g)) /\ SampledBy(g)
<1>1. LineType /\ \A r \in Reqs : RequestInv(r)
  BY DEF LineInv
<1>2. /\ Step # NoStep /\ Step' = NoStep /\ "last" \in Ranks
      /\ UNCHANGED <<mode, request, finished, inbox>>
  BY <1>1, SampleFacts
<1>3. PICK g \in [DOMAIN Step.req -> 0 .. 1 + Specs] :
        /\ \A r \in DOMAIN Step.req :
              IF r \in Step.discard THEN g[r] = 0
              ELSE 1 <= g[r] /\ g[r] <= 1 + Step.req[r].drafts
        /\ SampledBy(g)
        /\ worker' = [k \in Ranks |-> worker'[k]]
        /\ outputs' = Append(outputs, SampledOutput(g))
        /\ sampled' = [r \in Reqs |-> IF r \in DOMAIN Step.req THEN sampled[r] + g[r]
                                                               ELSE sampled[r]]
        /\ cached' = [r \in Reqs |->
              IF r \notin DOMAIN Step.req THEN cached[r]
              ELSE Step.pos[r] + Step.req[r].n - Step.req[r].drafts
                     + (IF g[r] > 0 THEN g[r] - 1 ELSE 0)]
  BY <1>1, SampleFacts
<1>4. Runner' = IF Async THEN Remember(SampledWorker(g), Step.discard, SampledLast(g),
                                       SampledValid(g))
                         ELSE SampledWorker(g)
  BY <1>3 DEF SampledBy
<1>5. /\ WorkerRec(Runner')
      /\ DOMAIN Runner'.reqs = DOMAIN Runner.reqs /\ DOMAIN Runner'.rows = DOMAIN Runner.rows
      /\ \A r \in DOMAIN Runner.reqs :
            /\ Runner'.reqs[r].drafts = Runner.reqs[r].drafts
            /\ Len(Runner'.reqs[r].out) = Len(Runner.reqs[r].out)
                  + (IF r \in DOMAIN Step.req \ Step.discard
                     THEN (IF Async THEN 1 ELSE g[r]) ELSE 0)
      /\ Async => \A r \in DOMAIN Step.req \ Step.discard :
                    /\ r \in DOMAIN Runner'.prev.index
                    /\ Runner'.prev.valid[Runner'.prev.index[r]] = g[r]
  BY <1>1, <1>2, <1>4, SampledRunner
<1>6. WorkerType'
  <2>1. Ranks' = Ranks
    BY <1>2 DEF Ranks
  <2>2. ~(Step # NoStep)'
    BY <1>2 DEF NoStep
  <2> QED BY <1>3, <1>5, <2>1, <2>2 DEF WorkerType, WorkerRec, IsWorkerReq
<1>7. sampled' \in [Reqs -> Nat]
  <2>1. sampled \in [Reqs -> Nat] /\ Specs \in Nat
    BY <1>1, Sizes DEF LineType
  <2>2. \A r \in DOMAIN Step.req : g[r] \in Nat
    BY <2>1
  <2> QED BY <1>3, <2>1, <2>2
<1>8. cached' = [r \in Reqs |-> cached'[r]]
  BY <1>3
<1>9. /\ Len(outputs') = Len(outputs) + 1
      /\ \A i \in 1 .. Len(outputs) : outputs'[i] = outputs[i]
      /\ Len(outputs') \in 1 .. Len(outputs') /\ outputs'[Len(outputs')] = SampledOutput(g)
  <2>1. outputs \in Seq(OutputMap) /\ outputs' \in Seq(OutputMap) /\ Len(outputs) \in Nat
    <3>1. TypeInv /\ TypeInv'
      BY <1>1, SampleTokensTyped DEF LineType
    <3> QED BY <3>1, LenProperties DEF TypeInv, OutputsType
  <2>2. SampledOutput(g) \in OutputMap
    <3>1. ASSUME NEW r \in DOMAIN Step.req
          PROVE  r \in Reqs /\ g[r] \in Nat /\ Step.req[r].drafts \in Nat
      <4>1. InStep(r)
        BY <1>2 DEF InStep
      <4>2. r \in Reqs /\ Step.req[r] \in ScheduledRec
        BY <1>1, <4>1, PlaceTypes
      <4> QED BY <1>1, <4>2, RecordTypes, Sizes
    <3>2. SampledOutput(g) \in [DOMAIN Step.req -> [tokens : Nat, drafts : Nat]]
      BY <3>1 DEF SampledOutput
    <3> QED BY <3>1, <3>2 DEF OutputMap
  <2>3. /\ Len(outputs') = Len(outputs) + 1
        /\ \A i \in 1 .. Len(outputs) : outputs'[i] = outputs[i]
        /\ outputs'[Len(outputs) + 1] = SampledOutput(g)
    BY <1>3, <2>1, <2>2, AppendProperties
  <2> QED BY <2>1, <2>3
<1>10. ASSUME NEW r \in Reqs PROVE Sampling(r, g)
  <2> DEFINE q == Step.req[r]
  <2>1. InStep(r) <=> r \in DOMAIN Step.req
    BY <1>2 DEF InStep
  <2>2. WorkerInv(r) /\ GoodSteps(r)
    BY <1>1, <1>10 DEF RequestInv
  <2>3. InStep(r) => (r \in Step.discard <=> ~Reach(q)) /\ Step.pos[r] = cached[r]
    BY <2>2 DEF WorkerInv
  <2>4. InStep(r) => /\ g[r] \in Nat /\ g[r] <= q.drafts + 1
                     /\ g[r] > 0 <=> Reach(q)
    <3>1. ASSUME InStep(r) PROVE g[r] \in Nat /\ q.drafts \in Nat
      BY <1>1, <2>1, <3>1, Sizes, PlaceTypes, RecordTypes
    <3>2. CASE InStep(r) /\ r \in Step.discard
      <4>1. g[r] = 0
        BY <1>3, <2>1, <3>2
      <4> HIDE DEF q
      <4> QED BY <2>3, <3>1, <3>2, <4>1
    <3>3. CASE InStep(r) /\ r \notin Step.discard
      <4>1. 1 <= g[r] /\ g[r] <= 1 + q.drafts
        BY <1>3, <2>1, <3>3
      <4> HIDE DEF q
      <4> QED BY <2>3, <3>1, <3>3, <4>1
    <3> QED BY <3>2, <3>3
  <2>5. /\ InOut(Len(outputs), r)' <=> InStep(r)
        /\ InStep(r) => /\ outputs'[Len(outputs')][r].tokens = g[r]
                        /\ outputs'[Len(outputs')][r].drafts = q.drafts
    <3>1. DOMAIN SampledOutput(g) = DOMAIN Step.req
      BY DEF SampledOutput
    <3>2. r \in DOMAIN Step.req =>
            SampledOutput(g)[r].tokens = g[r] /\ SampledOutput(g)[r].drafts = q.drafts
      BY DEF SampledOutput
    <3>3. InOut(Len(outputs), r)' <=> r \in DOMAIN outputs'[Len(outputs')]
      BY <1>9 DEF InOut
    <3> QED BY <1>9, <2>1, <3>1, <3>2, <3>3
  <2>6. /\ sampled'[r] = sampled[r] + (IF InStep(r) THEN g[r] ELSE 0)
        /\ ~InStep(r) => cached'[r] = cached[r]
        /\ InStep(r) => cached'[r] = cached[r] + q.n - q.drafts
                                       + (IF g[r] > 0 THEN g[r] - 1 ELSE 0)
    <3>1. sampled[r] \in Nat
      BY <1>1 DEF LineType
    <3> QED BY <1>3, <2>1, <2>3, <3>1
  <2>7. /\ InWorker(r)' <=> InWorker(r)
        /\ InRows(r)' <=> InRows(r)
    BY <1>5 DEF InWorker, InRows
  <2>8. InWorker(r) =>
          /\ Drafted(r)' = Drafted(r)
          /\ OutLen(r)' = OutLen(r)
                + (IF InStep(r) /\ Reach(q) THEN (IF Async THEN 1 ELSE g[r]) ELSE 0)
    <3>1. r \in DOMAIN Step.req \ Step.discard <=> InStep(r) /\ Reach(q)
      BY <2>1, <2>3
    <3> QED BY <1>5, <3>1 DEF InWorker, Drafted, OutLen
  <2>9. Async /\ InStep(r) /\ Reach(q) => InPrev(r)' /\ Counted(r)' = g[r]
    BY <1>5, <2>1, <2>3 DEF InPrev, Counted
  <2> QED BY <1>2, <1>9, <2>4, <2>5, <2>6, <2>7, <2>8, <2>9 DEF Sampling
<1> QED BY <1>3, <1>6, <1>7, <1>8, <1>10

LEMMA SampledPlace ==
    ASSUME LineInv, NEW r \in Reqs, NEW g, Sampling(r, g)
    PROVE  /\ Step # NoStep /\ (Step = NoStep)' /\ ~InStep(r)'
           /\ Len(Line) + Len(outputs) <= 1 /\ ~InBox(2, r) /\ ~EndsBox(2, r)
           /\ \A i \in {1, 2} :
                /\ InBox(i, r)' <=> InBox(i, r)
                /\ Boxed(i, r)' = Boxed(i, r)
                /\ EndsBox(i, r)' <=> EndsBox(i, r)
                /\ OwedBox(i, r)' = OwedBox(i, r) /\ AheadBox(i, r)' = AheadBox(i, r)
           /\ OwedBox(2, r) = 0 /\ AheadBox(2, r) = 0
           /\ OwedStep(r)' = 0 /\ AheadStep(r)' = 0
           /\ Got2(r)' = Got2(r) + (IF InStep(r) THEN g[r] ELSE 0)
           /\ Owed2(r)' = Owed2(r) + OwedStep(r)
           /\ InNewest(r)' <=> InNewest(r)
           /\ ~InOut(1, r) /\ ~InStep(r) => \A i \in {1, 2} : ~InOut(i, r)'
           /\ outputs' # <<>>
           /\ \A q : Reach(q)' <=> Reach(q)
           /\ Async' = Async /\ Specs' = Specs /\ Limit' = Limit /\ Depth' = Depth
           /\ request' = request /\ finished' = finished
<1> DEFINE q == Step.req[r]
<1>1. LineType /\ RequestInv(r)
  BY DEF LineInv
<1>2. /\ Step # NoStep /\ Step' = NoStep
      /\ mode' = mode /\ request' = request /\ finished' = finished /\ inbox' = inbox
      /\ Len(outputs') = Len(outputs) + 1
      /\ \A i \in 1 .. Len(outputs) : outputs'[i] = outputs[i]
      /\ InOut(Len(outputs), r)' <=> InStep(r)
      /\ InStep(r) => /\ outputs'[Len(outputs')][r].tokens = g[r]
                      /\ outputs'[Len(outputs')][r].drafts = q.drafts
                      /\ g[r] \in Nat /\ g[r] <= q.drafts + 1
                      /\ g[r] > 0 <=> Reach(q)
  BY DEF Sampling
<1>3. (Step = NoStep)' /\ ~InStep(r)' /\ OwedStep(r)' = 0 /\ AheadStep(r)' = 0
  BY <1>2 DEF InStep, OwedStep, AheadStep, NoStep
<1>4. \A p : (Reach(p)' <=> Reach(p)) /\ Owes(p)' = Owes(p)
  BY DEF Reach, Owes
<1>5. Async' = Async /\ Specs' = Specs /\ Limit' = Limit /\ Depth' = Depth
  BY <1>2 DEF Async, Specs, Limit, Depth
<1>6. Line' = Line
  BY <1>2 DEF Line
<1>7. \A i \in {1, 2} :
        /\ InBox(i, r)' <=> InBox(i, r)
        /\ Boxed(i, r)' = Boxed(i, r)
        /\ EndsBox(i, r)' <=> EndsBox(i, r)
        /\ OwedBox(i, r)' = OwedBox(i, r) /\ AheadBox(i, r)' = AheadBox(i, r)
  BY <1>4, <1>6 DEF InBox, Boxed, EndsBox, OwedBox, AheadBox
<1>8. /\ Len(Line) + Len(outputs) <= 1 /\ Len(Line) \in 0 .. 1 /\ Len(outputs) \in 0 .. 1
      /\ Line # <<>> => Len(Line) = 1
  BY <1>1, <1>2, Sizes
<1>9. ~InBox(2, r) /\ ~EndsBox(2, r)
  BY <1>8 DEF InBox, EndsBox
<1>10. OwedBox(2, r) = 0 /\ AheadBox(2, r) = 0
  BY <1>9 DEF OwedBox, AheadBox
<1>11. /\ GotOut(1, r) \in Nat /\ OwedOut(1, r) \in Nat
       /\ InStep(r) => q.drafts \in Nat
  BY <1>1, CountTypes, PlaceTypes, RecordTypes
<1>12. InStep(r) => OwedStep(r) = (IF g[r] > 0 THEN q.drafts + 1 ELSE 0)
  BY <1>2 DEF OwedStep, Owes
<1>13. ~InStep(r) => OwedStep(r) = 0
  BY DEF OwedStep
<1>14. InOut(Len(outputs), r)' <=> r \in DOMAIN outputs'[Len(outputs')]
  BY <1>2, <1>8 DEF InOut
<1>15. CASE Len(outputs) = 0
  <2>1. Len(outputs') = 1
    BY <1>2, <1>15
  <2>2. ~InOut(1, r) /\ ~InOut(2, r) /\ ~InOut(2, r)'
    BY <1>15, <2>1 DEF InOut
  <2>3. InOut(1, r)' <=> InStep(r)
    BY <1>2, <1>14, <2>1 DEF InOut
  <2>4. GotOut(1, r)' = (IF InStep(r) THEN g[r] ELSE 0) /\ OwedOut(1, r)' = OwedStep(r)
    <3>1. InStep(r) => outputs'[1][r].tokens = g[r] /\ outputs'[1][r].drafts = q.drafts
      BY <1>2, <2>1
    <3> HIDE DEF q
    <3> QED BY <1>12, <1>13, <2>3, <3>1 DEF GotOut, OwedOut
  <2>5. /\ GotOut(1, r) = 0 /\ GotOut(2, r) = 0 /\ GotOut(2, r)' = 0
        /\ OwedOut(1, r) = 0 /\ OwedOut(2, r) = 0 /\ OwedOut(2, r)' = 0
    BY <2>2 DEF GotOut, OwedOut
  <2>6. /\ Got2(r)' = Got2(r) + (IF InStep(r) THEN g[r] ELSE 0)
        /\ Owed2(r)' = Owed2(r) + OwedStep(r)
    <3>1. OwedStep(r) \in Nat
      BY <1>1, CountTypes
    <3> QED BY <1>2, <2>4, <2>5, <3>1 DEF Got2, Owed2
  <2>7. ~InOut(1, r) /\ ~InStep(r) => \A i \in {1, 2} : ~InOut(i, r)'
    BY <2>2, <2>3
  <2>8. InNewest(r)' <=> InNewest(r)
    <3>1. CASE Line # <<>>
      <4>1. Len(Line) = 1
        BY <1>8, <3>1
      <4> QED BY <1>6, <1>7, <3>1, <4>1 DEF InNewest
    <3>2. CASE Line = <<>>
      BY <1>2, <1>3, <1>6, <3>2 DEF InNewest
    <3> QED BY <3>1, <3>2
  <2>9. outputs' # <<>>
    BY <2>1
  <2> QED BY <1>2, <1>3, <1>4, <1>5, <1>7, <1>8, <1>9, <1>10, <2>6, <2>7, <2>8, <2>9
<1>16. CASE Len(outputs) = 1
  <2>1. Len(outputs') = 2 /\ Line = <<>>
    BY <1>2, <1>8, <1>16
  <2>2. ~InOut(2, r)
    BY <1>16 DEF InOut
  <2>3. (InOut(2, r)' <=> InStep(r)) /\ (InOut(1, r)' <=> InOut(1, r)) /\ outputs'[1] = outputs[1]
    BY <1>2, <1>14, <1>16, <2>1 DEF InOut
  <2>4. GotOut(2, r)' = (IF InStep(r) THEN g[r] ELSE 0) /\ OwedOut(2, r)' = OwedStep(r)
    <3>1. InStep(r) => outputs'[2][r].tokens = g[r] /\ outputs'[2][r].drafts = q.drafts
      BY <1>2, <2>1
    <3> HIDE DEF q
    <3> QED BY <1>12, <1>13, <2>3, <3>1 DEF GotOut, OwedOut
  <2>5. /\ GotOut(2, r) = 0 /\ GotOut(1, r)' = GotOut(1, r)
        /\ OwedOut(2, r) = 0 /\ OwedOut(1, r)' = OwedOut(1, r)
    BY <2>2, <2>3 DEF GotOut, OwedOut
  <2>6. /\ Got2(r)' = Got2(r) + (IF InStep(r) THEN g[r] ELSE 0)
        /\ Owed2(r)' = Owed2(r) + OwedStep(r)
    <3>1. OwedStep(r) \in Nat
      BY <1>1, CountTypes
    <3> QED BY <1>2, <1>11, <2>4, <2>5, <3>1 DEF Got2, Owed2
  <2>7. ~InOut(1, r) /\ ~InStep(r) => \A i \in {1, 2} : ~InOut(i, r)'
    BY <2>3
  <2>8. InNewest(r)' <=> InNewest(r)
    BY <1>2, <1>3, <1>6, <2>1 DEF InNewest
  <2>9. outputs' # <<>>
    BY <2>1
  <2> QED BY <1>2, <1>3, <1>4, <1>5, <1>7, <1>8, <1>9, <1>10, <2>6, <2>7, <2>8, <2>9
<1> QED BY <1>8, <1>15, <1>16

LEMMA SampledCounts ==
    ASSUME LineInv, NEW r \in Reqs, NEW g, Sampling(r, g)
    PROVE  /\ Owed(r)' = Owed(r)
           /\ Base(r)' + Owed2(r)' - Got2(r)' + Ahead(r)' = Base(r) + Owed2(r) - Got2(r) + Ahead(r)
           /\ sampled'[r] - Got2(r)' = sampled[r] - Got2(r)
           /\ cached'[r] \in Nat /\ sampled'[r] \in Nat
           /\ InStep(r) => cached'[r] > 0
           /\ ~InStep(r) => Base(r)' = Base(r)
           /\ InStep(r) => ~Afresh(r)' /\ ~Afresh(r)
           /\ Got2(r)' \in Nat
<1> DEFINE q == Step.req[r]
           k == IF g[r] > 0 THEN g[r] - 1 ELSE 0
<1>1. LineType /\ RequestInv(r)
  BY DEF LineInv
<1>2. /\ Step # NoStep /\ ~InBox(2, r)
      /\ \A i \in {1, 2} :
           /\ InBox(i, r)' <=> InBox(i, r)
           /\ Boxed(i, r)' = Boxed(i, r)
           /\ OwedBox(i, r)' = OwedBox(i, r) /\ AheadBox(i, r)' = AheadBox(i, r)
      /\ OwedStep(r)' = 0 /\ AheadStep(r)' = 0
      /\ OwedBox(2, r) = 0 /\ AheadBox(2, r) = 0
      /\ Got2(r)' = Got2(r) + (IF InStep(r) THEN g[r] ELSE 0)
      /\ Owed2(r)' = Owed2(r) + OwedStep(r)
  BY SampledPlace
<1>3. /\ InStep(r) => /\ g[r] \in Nat /\ g[r] <= q.drafts + 1
                      /\ g[r] > 0 <=> Reach(q)
                      /\ cached'[r] = cached[r] + q.n - q.drafts + k
      /\ sampled'[r] = sampled[r] + (IF InStep(r) THEN g[r] ELSE 0)
      /\ ~InStep(r) => cached'[r] = cached[r]
  BY DEF Sampling
<1>4. /\ Base(r) \in Nat /\ cached[r] \in Nat /\ sampled[r] \in Nat
      /\ Owed2(r) \in Nat /\ Got2(r) \in Nat
      /\ OwedStep(r) \in Nat /\ AheadStep(r) \in Nat
      /\ OwedBox(1, r) \in Nat /\ AheadBox(1, r) \in Nat
  BY <1>1, Numbers, CountTypes
<1>5. Afresh(r)' <=> Afresh(r)
  BY <1>2 DEF Afresh
<1>6. /\ Owed(r) = Owed2(r) + OwedStep(r) + OwedBox(1, r) + OwedBox(2, r)
      /\ Owed(r)' = Owed2(r)' + OwedStep(r)' + OwedBox(1, r)' + OwedBox(2, r)'
      /\ Ahead(r) = AheadStep(r) + AheadBox(1, r) + AheadBox(2, r)
      /\ Ahead(r)' = AheadStep(r)' + AheadBox(1, r)' + AheadBox(2, r)'
  BY DEF Owed, Ahead
<1>7. Owed(r)' = Owed(r)
  BY <1>2, <1>4, <1>6
<1>8. CASE InStep(r)
  <2>1. ~Afresh(r)
    BY <1>1, <1>2, <1>8 DEF RequestInv, AimInv, Afresh
  <2>2. Base(r) = cached[r] /\ Base(r)' = cached'[r]
    BY <1>5, <2>1 DEF Base
  <2>3. q.n \in Nat \ {0} /\ q.drafts \in Nat
    BY <1>1, <1>8, PlaceTypes, RecordTypes
  <2>4. q.drafts < q.n /\ (q.drafts > 0 => Reach(q))
    BY <1>1, <1>8 DEF RequestInv, GoodSteps, GoodReq
  <2>5. OwedStep(r) = (IF Reach(q) THEN q.drafts + 1 ELSE 0) /\ AheadStep(r) = q.n
    BY <1>8 DEF OwedStep, Owes, AheadStep
  <2> HIDE DEF q
  <2>6. k \in Nat /\ cached'[r] \in Nat /\ cached'[r] > 0 /\ sampled'[r] \in Nat
    BY <1>3, <1>4, <1>8, <2>3, <2>4
  <2>7. Base(r)' + Owed2(r)' - Got2(r)' + Ahead(r)' = Base(r) + Owed2(r) - Got2(r) + Ahead(r)
    <3>1. Ahead(r)' = AheadBox(1, r) /\ Ahead(r) = q.n + AheadBox(1, r)
      BY <1>2, <1>4, <1>6, <2>3, <2>5
    <3>2. CASE g[r] > 0
      <4>1. OwedStep(r) = q.drafts + 1 /\ k = g[r] - 1
        BY <1>3, <1>8, <2>5, <3>2
      <4> HIDE DEF k
      <4> QED BY <1>2, <1>3, <1>4, <1>8, <2>2, <2>3, <3>1, <4>1
    <3>3. CASE ~(g[r] > 0)
      <4>1. OwedStep(r) = 0 /\ k = 0 /\ q.drafts = 0 /\ g[r] = 0
        BY <1>3, <1>8, <2>3, <2>4, <2>5, <3>3
      <4> HIDE DEF k
      <4> QED BY <1>2, <1>3, <1>4, <1>8, <2>2, <2>3, <3>1, <4>1
    <3> QED BY <3>2, <3>3
  <2>8. sampled'[r] - Got2(r)' = sampled[r] - Got2(r) /\ Got2(r)' \in Nat
    BY <1>2, <1>3, <1>4, <1>8
  <2> QED BY <1>5, <1>7, <1>8, <2>1, <2>6, <2>7, <2>8
<1>9. CASE ~InStep(r)
  <2>1. OwedStep(r) = 0 /\ AheadStep(r) = 0
    BY <1>9 DEF OwedStep, AheadStep
  <2>2. Base(r)' = Base(r)
    BY <1>3, <1>5, <1>9 DEF Base
  <2> QED BY <1>2, <1>3, <1>4, <1>6, <1>7, <1>9, <2>1, <2>2
<1> QED BY <1>8, <1>9

LEMMA SampledEasy ==
    ASSUME LineInv, NEW r \in Reqs, NEW g, Sampling(r, g)
    PROVE  GoodSteps(r)' /\ EndedInv(r)' /\ StateInv(r)' /\ CountInv(r)' /\ LeftInv(r)'
<1>1. LineType /\ RequestInv(r)
  BY DEF LineInv
<1>2. /\ Step # NoStep /\ ~InStep(r)' /\ ~InBox(2, r)
      /\ \A i \in {1, 2} :
           /\ InBox(i, r)' <=> InBox(i, r)
           /\ Boxed(i, r)' = Boxed(i, r)
           /\ EndsBox(i, r)' <=> EndsBox(i, r)
      /\ InNewest(r)' <=> InNewest(r)
      /\ ~InOut(1, r) /\ ~InStep(r) => \A i \in {1, 2} : ~InOut(i, r)'
      /\ \A q : Reach(q)' <=> Reach(q)
      /\ Async' = Async /\ Specs' = Specs
      /\ request' = request /\ finished' = finished
  BY SampledPlace
<1>3. /\ Owed(r)' = Owed(r)
      /\ Base(r)' + Owed2(r)' - Got2(r)' + Ahead(r)' = Base(r) + Owed2(r) - Got2(r) + Ahead(r)
      /\ sampled'[r] - Got2(r)' = sampled[r] - Got2(r)
      /\ cached'[r] \in Nat /\ sampled'[r] \in Nat
      /\ InStep(r) => cached'[r] > 0
      /\ Got2(r)' \in Nat
  BY SampledCounts
<1>4. /\ Live(r)' <=> Live(r)
      /\ Running(r)' <=> Running(r)
      /\ Left(r)' = Left(r)
  BY <1>2 DEF Live, Running, Left
<1>5. GoodSteps(r)'
  <2>1. \A q : GoodReq(q)' <=> GoodReq(q)
    BY <1>2 DEF GoodReq
  <2>2. GoodSteps(r)
    BY <1>1 DEF RequestInv
  <2>3. \A i \in {1, 2} : InOut(i, r)' =>
          \/ InOut(i, r) /\ outputs'[i] = outputs[i]
          \/ /\ InStep(r) /\ outputs'[i][r].tokens = g[r]
             /\ outputs'[i][r].drafts = Step.req[r].drafts
    <3> SUFFICES ASSUME NEW i \in {1, 2}, InOut(i, r)'
                 PROVE  \/ InOut(i, r) /\ outputs'[i] = outputs[i]
                        \/ /\ InStep(r) /\ outputs'[i][r].tokens = g[r]
                           /\ outputs'[i][r].drafts = Step.req[r].drafts
      OBVIOUS
    <3>1. /\ Len(outputs') = Len(outputs) + 1 /\ Len(outputs) \in 0 .. 2
          /\ \A j \in 1 .. Len(outputs) : outputs'[j] = outputs[j]
          /\ InOut(Len(outputs), r)' <=> InStep(r)
          /\ InStep(r) => /\ outputs'[Len(outputs')][r].tokens = g[r]
                          /\ outputs'[Len(outputs')][r].drafts = Step.req[r].drafts
      BY <1>1, Sizes DEF Sampling
    <3>2. i \in 1 .. Len(outputs') /\ r \in DOMAIN outputs'[i]
      BY DEF InOut
    <3>3. CASE i = Len(outputs')
      BY <3>1, <3>2, <3>3 DEF InOut
    <3>4. CASE i # Len(outputs')
      BY <3>1, <3>2, <3>4 DEF InOut
    <3> QED BY <3>3, <3>4
  <2>4. InStep(r) => /\ g[r] \in Nat /\ g[r] <= Step.req[r].drafts + 1
                     /\ g[r] > 0 <=> Reach(Step.req[r])
                     /\ Step.req[r].drafts <= Specs /\ Step.req[r].drafts \in Nat
                     /\ Step.req[r].drafts > 0 => Reach(Step.req[r])
    <3>1. InStep(r) => GoodReq(Step.req[r])
      BY <2>2 DEF GoodSteps
    <3>2. InStep(r) => Step.req[r].drafts \in Nat
      BY <1>1, PlaceTypes, RecordTypes
    <3> QED BY <3>1, <3>2 DEF Sampling, GoodReq
  <2>5. \A i \in {1, 2} : InOut(i, r)' =>
          /\ outputs'[i][r].tokens <= outputs'[i][r].drafts + 1
          /\ outputs'[i][r].tokens = 0 => outputs'[i][r].drafts = 0
          /\ outputs'[i][r].drafts <= Specs
    BY <2>2, <2>3, <2>4 DEF GoodSteps
  <2>6. \A i \in {1, 2} : InBox(i, r)' => GoodReq(Boxed(i, r))'
    BY <1>2, <2>1, <2>2 DEF GoodSteps
  <2> QED BY <1>2, <2>5, <2>6 DEF GoodSteps
<1>6. EndedInv(r)'
  BY <1>1, <1>2, <1>4 DEF RequestInv, EndedInv
<1>7. StateInv(r)'
  <2>1. StateInv(r)
    BY <1>1 DEF RequestInv
  <2>2. InWorker(r)' <=> InWorker(r)
    BY DEF Sampling
  <2>3. Idle(r) => Idle(r)'
    BY <1>2 DEF Idle
  <2>4. Idle(r) => sampled'[r] = sampled[r]
    <3>1. sampled[r] \in Nat
      BY <1>1, Numbers
    <3> QED BY <3>1 DEF Sampling, Idle
  <2> QED BY <1>2, <2>1, <2>2, <2>3, <2>4 DEF StateInv
<1>8. CountInv(r)'
  <2>1. CountInv(r)
    BY <1>1 DEF RequestInv
  <2>2. Live(r) => request[r].out + Got2(r)' = sampled'[r]
    <3>1. request[r].out \in Nat /\ sampled[r] \in Nat /\ Got2(r) \in Nat
      BY <1>1, Numbers
    <3> QED BY <1>3, <2>1, <3>1 DEF CountInv
  <2> QED BY <1>2, <1>3, <1>4, <2>1, <2>2 DEF CountInv
<1>9. LeftInv(r)'
  <2>1. LeftInv(r)
    BY <1>1 DEF RequestInv
  <2>2. ~InStep(r) => cached'[r] = cached[r]
    BY DEF Sampling
  <2> QED BY <1>2, <1>3, <1>4, <2>1, <2>2 DEF LeftInv
<1> QED BY <1>5, <1>6, <1>7, <1>8, <1>9

LEMMA SampledAim ==
    ASSUME LineInv, NEW r \in Reqs, NEW g, Sampling(r, g)
    PROVE  DraftInv(r)' /\ RoomInv(r)' /\ AimInv(r)' /\ PlainInv(r)' /\ WorkerInv(r)'
<1> DEFINE q == Step.req[r]
           b == Boxed(1, r)
           k == IF g[r] > 0 THEN g[r] - 1 ELSE 0
<1>1. LineType /\ RequestInv(r)
  BY DEF LineInv
<1>2. /\ Step # NoStep /\ (Step = NoStep)' /\ ~InStep(r)' /\ ~InBox(2, r)
      /\ InBox(1, r)' <=> InBox(1, r)
      /\ ~InBox(2, r)'
      /\ Boxed(1, r)' = b
      /\ OwedBox(1, r)' = OwedBox(1, r)
      /\ InNewest(r)' <=> InNewest(r)
      /\ outputs' # <<>>
      /\ Async' = Async /\ Specs' = Specs /\ Limit' = Limit
      /\ request' = request
  BY SampledPlace
<1>3. ~(Step # NoStep)'
  BY <1>2
<1>4. /\ InStep(r) => /\ g[r] \in Nat /\ g[r] <= q.drafts + 1
                      /\ g[r] > 0 <=> Reach(q)
                      /\ cached'[r] = cached[r] + q.n - q.drafts + k
      /\ sampled'[r] = sampled[r] + (IF InStep(r) THEN g[r] ELSE 0)
      /\ InWorker(r)' <=> InWorker(r)
      /\ InRows(r)' <=> InRows(r)
      /\ InWorker(r) =>
           /\ Drafted(r)' = Drafted(r)
           /\ OutLen(r)' = OutLen(r)
                 + (IF InStep(r) /\ Reach(q) THEN (IF Async THEN 1 ELSE g[r]) ELSE 0)
      /\ Async /\ InStep(r) /\ Reach(q) => InPrev(r)' /\ Counted(r)' = g[r]
  BY DEF Sampling
<1>5. /\ ~InStep(r) => Base(r)' = Base(r)
      /\ InStep(r) => Base(r)' = cached'[r]
  BY SampledCounts DEF Base
<1>6. Running(r)' <=> Running(r)
  BY <1>2 DEF Running
<1>7. WorkerInv(r)
  BY <1>1 DEF RequestInv
<1>8. /\ InRows(r) <=> InStep(r)
      /\ InRows(r) => InWorker(r)
      /\ InStep(r) => OutLen(r) = q.outputs /\ Drafted(r) = q.drafts /\ Step.pos[r] = cached[r]
  BY <1>2, <1>7 DEF WorkerInv
<1>9. /\ InStep(r) => /\ q.n \in Nat /\ q.drafts \in Nat /\ q.outputs \in Int
                      /\ OwedStep(r) = (IF Reach(q) THEN q.drafts + 1 ELSE 0)
      /\ cached[r] \in Nat /\ sampled[r] \in Nat
  <2>1. InStep(r) => q \in ScheduledRec
    BY <1>1, PlaceTypes
  <2> QED BY <1>1, <2>1, RecordTypes, Numbers DEF OwedStep, Owes
<1>10. /\ InStep(r) => (q.drafts > 0 => Reach(q)) /\ q.drafts <= Specs
       /\ Specs \in {0, 1} /\ (Specs > 0 => Async)
  BY <1>1, Sizes DEF RequestInv, GoodSteps, GoodReq
<1>11. InStep(r) /\ Async => q.outputs + OwedStep(r) <= OutLen(r)' + Drafted(r)'
  <2> HIDE DEF q
  <2> QED BY <1>4, <1>8, <1>9, <1>10
<1>12. DraftInv(r)'
  BY <1>1, <1>2, <1>4, <1>6 DEF RequestInv, DraftInv
<1>13. RoomInv(r)'
  <2>1. RoomInv(r)
    BY <1>1 DEF RequestInv
  <2> DEFINE e == request[r].out + request[r].placeholders
  <2>2. Running(r) /\ Async /\ InStep(r) /\ ~InBox(1, r) => e <= q.outputs + OwedStep(r)
    BY <1>2, <2>1 DEF RoomInv
  <2>3. Running(r) /\ Async /\ InBox(1, r) => e <= b.outputs + OwedBox(1, r)
    BY <1>2, <2>1 DEF RoomInv
  <2>4. Running(r) /\ Async /\ InStep(r) /\ ~InBox(1, r) => e <= OutLen(r)' + Drafted(r)'
    <3>1. e \in Int
      BY <1>1, Numbers
    <3>2. Running(r) /\ Async /\ InStep(r) =>
             OutLen(r)' \in Int /\ Drafted(r)' \in Int /\ OwedStep(r) \in Int
      <4> HIDE DEF q
      <4> QED BY <1>4, <1>8, <1>9
    <3> HIDE DEF q, e
    <3> QED BY <1>9, <1>11, <2>2, <3>1, <3>2
  <2>5. e' = e
    BY <1>2
  <2> HIDE DEF q, b
  <2> QED BY <1>2, <1>3, <1>4, <1>6, <1>8, <2>3, <2>4, <2>5 DEF RoomInv
<1>14. AimInv(r)'
  <2>1. AimInv(r)
    BY <1>1 DEF RequestInv
  <2>2. ASSUME InBox(1, r), InStep(r)
        PROVE  /\ b.computed - Shift(r)' = Base(r)'
               /\ InWorker(r)'
               /\ b.kind = "run"
               /\ Async => b.outputs <= OutLen(r)' + Drafted(r)'
    <3>1. /\ b.kind = "run" /\ b.computed = cached[r] + q.n
          /\ Async => b.outputs <= q.outputs + OwedStep(r)
      BY <1>2, <1>8, <2>1, <2>2 DEF AimInv
    <3>2. InRows(r)' /\ InWorker(r)' /\ Drafted(r)' = q.drafts
      BY <1>4, <1>8, <2>2
    <3>3. Shift(r)' = IF Async /\ q.drafts > 0 /\ InPrev(r)'
                      THEN q.drafts + 1 - Counted(r)' ELSE 0
      <4> HIDE DEF q
      <4> QED BY <1>2, <3>1, <3>2 DEF Shift
    <3>4. Shift(r)' = q.drafts - k
      <4> HIDE DEF q
      <4>1. CASE q.drafts > 0
        <5>1. Async /\ Reach(q) /\ g[r] > 0 /\ g[r] \in Nat
          BY <1>4, <1>9, <1>10, <2>2, <4>1
        <5>2. InPrev(r)' /\ Counted(r)' = g[r]
          BY <1>4, <2>2, <5>1 DEF q
        <5> QED BY <1>9, <2>2, <3>3, <4>1, <5>1, <5>2
      <4>2. CASE ~(q.drafts > 0)
        <5>1. q.drafts = 0 /\ k = 0
          BY <1>4, <1>9, <2>2, <4>2 DEF q
        <5> HIDE DEF k
        <5> QED BY <3>3, <4>2, <5>1
      <4> QED BY <4>1, <4>2
    <3>5. k \in Int
      BY <1>4, <2>2
    <3>6. b.outputs \in Int
      BY <1>1, <2>2, PlaceTypes, RecordTypes
    <3>7. b.computed - Shift(r)' = Base(r)'
      <4> HIDE DEF q, k, b
      <4> QED BY <1>4, <1>5, <1>9, <2>2, <3>1, <3>4, <3>5 DEF q, k
    <3>8. Async => b.outputs <= OutLen(r)' + Drafted(r)'
      <4>1. OutLen(r)' \in Int /\ Drafted(r)' \in Int /\ OwedStep(r) \in Int
        <5> HIDE DEF q
        <5> QED BY <1>4, <1>8, <1>9, <2>2
      <4> HIDE DEF q, b
      <4> QED BY <1>9, <1>11, <2>2, <3>1, <3>6, <4>1
    <3> QED BY <3>1, <3>2, <3>7, <3>8
  <2>3. ASSUME InBox(1, r), ~InStep(r)
        PROVE  /\ b.computed - Shift(r)' = Base(r)'
               /\ b.kind = "new" \/ InWorker(r)'
               /\ ~InRows(r)'
               /\ Async => b.outputs = b.known
    <3>1. Settled(r, b)
      BY <1>2, <2>1, <2>3 DEF AimInv
    <3>2. ~InRows(r)'
      BY <1>4, <1>8, <2>3
    <3>3. Shift(r)' = 0
      BY <3>2 DEF Shift
    <3>4. b.computed \in Int
      BY <1>1, <2>3, PlaceTypes, RecordTypes
    <3> HIDE DEF b
    <3> QED BY <1>4, <1>5, <2>3, <3>1, <3>2, <3>3, <3>4 DEF Settled
  <2>4. InBox(1, r) /\ b.kind = "new" => ~InWorker(r)'
    BY <1>4, <2>1 DEF AimInv
  <2> HIDE DEF b
  <2>5. (Step = NoStep /\ InBox(1, r) =>
          /\ Boxed(1, r).computed - Shift(r) = Base(r)
          /\ Boxed(1, r).kind = "new" \/ InWorker(r)
          /\ Async => IF InRows(r) /\ Boxed(1, r).kind = "run"
                      THEN Boxed(1, r).outputs <= OutLen(r) + Drafted(r)
                      ELSE Boxed(1, r).outputs = Boxed(1, r).known)'
    <3>1. CASE InStep(r)
      <4>1. InRows(r)'
        BY <1>4, <1>8, <3>1
      <4> QED BY <1>2, <2>2, <3>1, <4>1
    <3>2. CASE ~InStep(r)
      BY <1>2, <2>3, <3>2
    <3> QED BY <3>1, <3>2
  <2>6. \A i \in {1, 2} : InBox(i, r)' /\ Boxed(i, r)'.kind = "new" => ~InWorker(r)'
    BY <1>2, <2>4
  <2> QED BY <1>2, <1>3, <2>5, <2>6 DEF AimInv
<1>15. PlainInv(r)'
  <2>1. PlainInv(r)
    BY <1>1 DEF RequestInv
  <2> SUFFICES ASSUME ~Async PROVE PlainInv(r)'
    BY <1>2 DEF PlainInv
  <2>2. InWorker(r) => OutLen(r)' = sampled'[r]
    <3> HIDE DEF q
    <3>1. InWorker(r) => OutLen(r) = sampled[r]
      BY <2>1 DEF PlainInv
    <3> QED BY <1>4, <1>9, <3>1 DEF q
  <2>3. InBox(1, r) => b.outputs = sampled'[r]
    <3>1. InBox(1, r) => b.outputs = sampled[r]
      BY <2>1 DEF PlainInv
    <3>2. InBox(1, r) /\ InStep(r) => ~Reach(q)
      BY <2>1 DEF PlainInv
    <3> HIDE DEF b, q
    <3> QED BY <1>4, <1>9, <3>1, <3>2 DEF q
  <2> HIDE DEF b
  <2> QED BY <1>2, <1>4, <2>2, <2>3 DEF PlainInv
<1>16. WorkerInv(r)'
  <2>1. /\ InOut(Len(outputs), r)' <=> InStep(r)
        /\ InStep(r) => /\ outputs'[Len(outputs')][r].tokens = g[r]
                        /\ outputs'[Len(outputs')][r].drafts = q.drafts
    BY DEF Sampling
  <2> HIDE DEF q
  <2> QED BY <1>2, <1>3, <1>4, <1>8, <2>1 DEF WorkerInv, q
<1> QED BY <1>12, <1>13, <1>14, <1>15, <1>16

LEMMA SampledInv ==
    ASSUME LineInv, SampleTokens
    PROVE  LineInv'
<1>1. LineType
  BY DEF LineInv
<1>2. /\ WorkerType' /\ sampled' \in [Reqs -> Nat]
      /\ cached' = [r \in Reqs |-> cached'[r]]
  BY Sampled
<1>3. PICK g : (\A r \in Reqs : Sampling(r, g)) /\ SampledBy(g)
  BY Sampled
<1>4. ASSUME NEW r \in Reqs PROVE RequestInv(r)'
  <2>1. Sampling(r, g)
    BY <1>3
  <2> QED BY <2>1, SampledEasy, SampledAim DEF RequestInv
<1>5. cached' \in [Reqs -> Nat]
  <2>1. \A r \in Reqs : cached'[r] \in Nat
    BY <1>3, SampledCounts
  <2> QED BY <1>2, <2>1
<1>6. TypeInv'
  BY <1>1, SampleTokensTyped DEF LineType
<1>7. (InFlight <= Depth)'
  <2>1. Step # NoStep /\ Step' = NoStep /\ mode' = mode /\ inbox' = inbox
    BY <1>1, SampleFacts
  <2>2. outputs \in Seq(OutputMap) /\ Len(outputs') = Len(outputs) + 1
    <3>1. \E m : outputs' = Append(outputs, m)
      BY <1>1, SampleFacts
    <3> QED BY <1>1, <3>1, AppendProperties DEF LineType, TypeInv, OutputsType
  <2>3. Depth' = Depth /\ Line' = Line
    BY <2>1 DEF Depth, Line
  <2>4. InFlight' = Len(Line') + Len(outputs') + (IF Step' = NoStep THEN 0 ELSE 1)
    BY DEF InFlight, Line, Step, NoStep
  <2>5. InFlight' <= Depth
    BY <1>1, <2>1, <2>2, <2>3, <2>4, Sizes
  <2> QED BY <2>3, <2>5
<1>8. LineType'
  BY <1>2, <1>5, <1>6, <1>7 DEF LineType
<1> QED BY <1>4, <1>8 DEF LineInv

-----------------------------------------------------------------------------
(* A step that leaves the last rank's line, step and runner alone.         *)

Steady ==
    /\ mode' = mode /\ Line' = Line /\ Runner' = Runner
    /\ sampled' = sampled /\ cached' = cached
    /\ Step' = NoStep <=> Step = NoStep
    /\ Step # NoStep => /\ Step'.req = Step.req /\ Step'.pos = Step.pos
                        /\ Step'.discard = Step.discard /\ Step'.inputs = Step.inputs

LEMMA SteadyPlace ==
    ASSUME Steady, NEW r
    PROVE  /\ \A i \in {1, 2} :
                /\ InBox(i, r)' <=> InBox(i, r)
                /\ Boxed(i, r)' = Boxed(i, r)
                /\ EndsBox(i, r)' <=> EndsBox(i, r)
                /\ OwedBox(i, r)' = OwedBox(i, r) /\ AheadBox(i, r)' = AheadBox(i, r)
           /\ InStep(r)' <=> InStep(r)
           /\ InStep(r) => Step'.req[r] = Step.req[r] /\ Step'.pos[r] = Step.pos[r]
                           /\ (r \in Step'.discard <=> r \in Step.discard)
           /\ OwedStep(r)' = OwedStep(r) /\ AheadStep(r)' = AheadStep(r)
           /\ (Step = NoStep)' <=> Step = NoStep
           /\ Afresh(r)' <=> Afresh(r)
           /\ Base(r)' = Base(r) /\ Ahead(r)' = Ahead(r)
           /\ InWorker(r)' <=> InWorker(r)
           /\ InRows(r)' <=> InRows(r)
           /\ OutLen(r)' = OutLen(r) /\ Drafted(r)' = Drafted(r)
           /\ InPrev(r)' <=> InPrev(r)
           /\ Counted(r)' = Counted(r)
           /\ sampled' = sampled /\ cached' = cached
           /\ \A q : (Reach(q)' <=> Reach(q)) /\ (GoodReq(q)' <=> GoodReq(q))
           /\ Async' = Async /\ Specs' = Specs /\ Limit' = Limit /\ Depth' = Depth
<1>1. /\ mode' = mode /\ Line' = Line /\ Runner' = Runner
      /\ sampled' = sampled /\ cached' = cached
      /\ Step' = NoStep <=> Step = NoStep
      /\ Step # NoStep => /\ Step'.req = Step.req /\ Step'.pos = Step.pos
                          /\ Step'.discard = Step.discard
  BY DEF Steady
<1>2. Async' = Async /\ Specs' = Specs /\ Limit' = Limit /\ Depth' = Depth
  BY <1>1 DEF Async, Specs, Limit, Depth
<1>3. \A q : (Reach(q)' <=> Reach(q)) /\ Owes(q)' = Owes(q) /\ (GoodReq(q)' <=> GoodReq(q))
  BY <1>2 DEF Reach, Owes, GoodReq
<1>4. \A i \in {1, 2} :
        /\ InBox(i, r)' <=> InBox(i, r)
        /\ Boxed(i, r)' = Boxed(i, r)
        /\ EndsBox(i, r)' <=> EndsBox(i, r)
        /\ OwedBox(i, r)' = OwedBox(i, r) /\ AheadBox(i, r)' = AheadBox(i, r)
  BY <1>1, <1>3 DEF InBox, Boxed, EndsBox, OwedBox, AheadBox
<1>5. (Step = NoStep)' <=> Step = NoStep
  BY <1>1 DEF NoStep
<1>6. /\ InStep(r)' <=> InStep(r)
      /\ InStep(r) => Step'.req[r] = Step.req[r] /\ Step'.pos[r] = Step.pos[r]
                      /\ (r \in Step'.discard <=> r \in Step.discard)
  BY <1>1, <1>5 DEF InStep
<1>7. OwedStep(r)' = OwedStep(r) /\ AheadStep(r)' = AheadStep(r)
  BY <1>3, <1>6 DEF OwedStep, AheadStep
<1>8. Afresh(r)' <=> Afresh(r)
  BY <1>4 DEF Afresh
<1>9. Base(r)' = Base(r) /\ Ahead(r)' = Ahead(r)
  BY <1>1, <1>4, <1>7, <1>8 DEF Base, Ahead
<1>10. /\ InWorker(r)' <=> InWorker(r)
       /\ InRows(r)' <=> InRows(r)
       /\ OutLen(r)' = OutLen(r) /\ Drafted(r)' = Drafted(r)
       /\ InPrev(r)' <=> InPrev(r)
       /\ Counted(r)' = Counted(r)
  BY <1>1 DEF InWorker, InRows, OutLen, Drafted, InPrev, Counted
<1> QED BY <1>1, <1>2, <1>3, <1>4, <1>5, <1>6, <1>7, <1>8, <1>9, <1>10

\* What is said of the line and the runner alone, whatever the scheduler does.
LEMMA SteadyAim ==
    ASSUME Steady, NEW r, AimInv(r), PlainInv(r)
    PROVE  AimInv(r)' /\ PlainInv(r)'
<1>1. /\ \A i \in {1, 2} : /\ InBox(i, r)' <=> InBox(i, r)
                           /\ Boxed(i, r)' = Boxed(i, r)
                           /\ OwedBox(i, r)' = OwedBox(i, r)
      /\ InStep(r)' <=> InStep(r)
      /\ InStep(r) => Step'.req[r] = Step.req[r] /\ Step'.pos[r] = Step.pos[r]
      /\ OwedStep(r)' = OwedStep(r)
      /\ (Step = NoStep)' <=> Step = NoStep
      /\ Base(r)' = Base(r)
      /\ InWorker(r)' <=> InWorker(r)
      /\ InRows(r)' <=> InRows(r)
      /\ OutLen(r)' = OutLen(r) /\ Drafted(r)' = Drafted(r)
      /\ InPrev(r)' <=> InPrev(r)
      /\ Counted(r)' = Counted(r)
      /\ sampled' = sampled
      /\ \A q : Reach(q)' <=> Reach(q)
      /\ Async' = Async
  BY SteadyPlace
<1>2. Shift(r)' = Shift(r)
  BY <1>1 DEF Shift
<1>3. \A i \in {1, 2} : Settled(r, Boxed(i, r))' <=> Settled(r, Boxed(i, r))
  BY <1>1 DEF Settled
<1>4. AimInv(r)'
  BY <1>1, <1>2, <1>3 DEF AimInv
<1>5. PlainInv(r)'
  BY <1>1 DEF PlainInv
<1> QED BY <1>4, <1>5

LEMMA SteadyTypes ==
    ASSUME LineType, Steady, TypeInv', worker' = [k \in Ranks |-> worker'[k]],
           Len(outputs') <= Len(outputs), Len(outputs') \in Nat
    PROVE  LineType'
<1>1. /\ mode' = mode /\ Line' = Line /\ Runner' = Runner
      /\ sampled' = sampled /\ cached' = cached
      /\ Step' = NoStep <=> Step = NoStep
      /\ Step # NoStep => Step'.req = Step.req
  BY DEF Steady
<1>2. Ranks' = Ranks /\ Depth' = Depth
  BY <1>1 DEF Ranks, Depth
<1>3. (Step = NoStep)' <=> Step = NoStep
  BY <1>1 DEF NoStep
<1>4. WorkerType'
  <2>1. WorkerType
    BY DEF LineType
  <2> QED BY <1>1, <1>2, <1>3, <2>1 DEF WorkerType, IsWorkerReq
<1>5. InFlight' <= Depth'
  <2>1. InFlight' = Len(Line') + Len(outputs') + (IF Step' = NoStep THEN 0 ELSE 1)
    BY DEF InFlight, Line, Step, NoStep
  <2>2. InFlight = Len(Line) + Len(outputs) + (IF Step = NoStep THEN 0 ELSE 1)
        /\ Len(Line) \in Nat /\ Len(outputs) \in Nat /\ Depth \in Nat /\ InFlight <= Depth
    BY Sizes DEF LineType
  <2>3. CASE Step = NoStep
    BY <1>1, <1>2, <2>1, <2>2, <2>3
  <2>4. CASE Step # NoStep
    BY <1>1, <1>2, <2>1, <2>2, <2>4
  <2> QED BY <2>3, <2>4
<1> QED BY <1>1, <1>4, <1>5 DEF LineType

\* A request the scheduler sees as before.
LEMMA SteadyRequest ==
    ASSUME Steady, NEW r, RequestInv(r), outputs' = outputs, request'[r] = request[r],
           r \in finished' <=> r \in finished
    PROVE  RequestInv(r)'
<1>1. RequestInv(r)
  OBVIOUS
<1>2. AimInv(r)' /\ PlainInv(r)'
  BY <1>1, SteadyAim DEF RequestInv
<1>3. /\ \A i \in {1, 2} : /\ InBox(i, r)' <=> InBox(i, r)
                           /\ Boxed(i, r)' = Boxed(i, r)
                           /\ EndsBox(i, r)' <=> EndsBox(i, r)
                           /\ OwedBox(i, r)' = OwedBox(i, r)
      /\ InStep(r)' <=> InStep(r)
      /\ InStep(r) => Step'.req[r] = Step.req[r] /\ Step'.pos[r] = Step.pos[r]
                      /\ (r \in Step'.discard <=> r \in Step.discard)
      /\ OwedStep(r)' = OwedStep(r)
      /\ (Step = NoStep)' <=> Step = NoStep
      /\ Base(r)' = Base(r) /\ Ahead(r)' = Ahead(r)
      /\ InWorker(r)' <=> InWorker(r)
      /\ InRows(r)' <=> InRows(r)
      /\ OutLen(r)' = OutLen(r) /\ Drafted(r)' = Drafted(r)
      /\ InPrev(r)' <=> InPrev(r)
      /\ Counted(r)' = Counted(r)
      /\ sampled' = sampled /\ cached' = cached
      /\ \A q : (Reach(q)' <=> Reach(q)) /\ (GoodReq(q)' <=> GoodReq(q))
      /\ Async' = Async /\ Specs' = Specs /\ Limit' = Limit
  BY SteadyPlace
<1>4. /\ \A i \in {1, 2} : /\ InOut(i, r)' <=> InOut(i, r)
                           /\ GotOut(i, r)' = GotOut(i, r) /\ OwedOut(i, r)' = OwedOut(i, r)
      /\ InOut(Len(outputs), r)' <=> InOut(Len(outputs), r)
  BY DEF InOut, GotOut, OwedOut
<1>5. Got2(r)' = Got2(r) /\ Owed2(r)' = Owed2(r)
  BY <1>4 DEF Got2, Owed2
<1>6. Owed(r)' = Owed(r)
  BY <1>3, <1>5 DEF Owed
<1>7. Line' = Line
  BY DEF Steady
<1>8. InNewest(r)' <=> InNewest(r)
  <2>1. InBox(Len(Line), r)' <=> InBox(Len(Line), r)
    BY <1>7 DEF InBox
  <2> QED BY <1>3, <1>4, <1>7, <2>1 DEF InNewest
<1>9. /\ Running(r)' <=> Running(r)
      /\ Live(r)' <=> Live(r)
      /\ Left(r)' = Left(r)
  BY DEF Running, Live, Left
<1>10. Idle(r)' <=> Idle(r)
  BY <1>3, <1>4 DEF Idle
<1>11. GoodSteps(r)'
  BY <1>1, <1>3, <1>4 DEF RequestInv, GoodSteps
<1>12. EndedInv(r)'
  BY <1>1, <1>3, <1>9 DEF RequestInv, EndedInv
<1>13. StateInv(r)'
  BY <1>1, <1>3, <1>8, <1>10 DEF RequestInv, StateInv
<1>14. CountInv(r)'
  BY <1>1, <1>3, <1>5, <1>6, <1>9 DEF RequestInv, CountInv
<1>15. LeftInv(r)'
  BY <1>1, <1>3, <1>6, <1>9 DEF RequestInv, LeftInv
<1>16. DraftInv(r)'
  BY <1>1, <1>3, <1>8, <1>9 DEF RequestInv, DraftInv
<1>17. RoomInv(r)'
  BY <1>1, <1>3, <1>9 DEF RequestInv, RoomInv
<1>18. WorkerInv(r)'
  BY <1>1, <1>3, <1>4 DEF RequestInv, WorkerInv
<1> QED BY <1>2, <1>11, <1>12, <1>13, <1>14, <1>15, <1>16, <1>17, <1>18 DEF RequestInv

\* A request that is done with.
LEMMA SteadyDone ==
    ASSUME Steady, NEW r, RequestInv(r), outputs' = outputs, request'[r].state = "finished"
    PROVE  RequestInv(r)'
<1>1. RequestInv(r)
  OBVIOUS
<1>2. AimInv(r)' /\ PlainInv(r)'
  BY <1>1, SteadyAim DEF RequestInv
<1>3. /\ \A i \in {1, 2} : /\ InBox(i, r)' <=> InBox(i, r)
                           /\ Boxed(i, r)' = Boxed(i, r)
                           /\ EndsBox(i, r)' <=> EndsBox(i, r)
      /\ InStep(r)' <=> InStep(r)
      /\ InStep(r) => Step'.req[r] = Step.req[r] /\ Step'.pos[r] = Step.pos[r]
                      /\ (r \in Step'.discard <=> r \in Step.discard)
      /\ (Step = NoStep)' <=> Step = NoStep
      /\ InWorker(r)' <=> InWorker(r)
      /\ InRows(r)' <=> InRows(r)
      /\ OutLen(r)' = OutLen(r) /\ Drafted(r)' = Drafted(r)
      /\ InPrev(r)' <=> InPrev(r)
      /\ Counted(r)' = Counted(r)
      /\ cached' = cached
      /\ \A q : (Reach(q)' <=> Reach(q)) /\ (GoodReq(q)' <=> GoodReq(q))
      /\ Async' = Async /\ Specs' = Specs
  BY SteadyPlace
<1>4. /\ \A i \in {1, 2} : InOut(i, r)' <=> InOut(i, r)
      /\ InOut(Len(outputs), r)' <=> InOut(Len(outputs), r)
  BY DEF InOut
<1>5. ~Live(r)' /\ ~Running(r)'
  BY DEF Live, Running
<1>6. GoodSteps(r)'
  BY <1>1, <1>3, <1>4 DEF RequestInv, GoodSteps
<1>7. EndedInv(r)'
  BY <1>1, <1>3, <1>5 DEF RequestInv, EndedInv
<1>8. WorkerInv(r)'
  BY <1>1, <1>3, <1>4 DEF RequestInv, WorkerInv
<1>9. StateInv(r)' /\ CountInv(r)'
  BY <1>5 DEF StateInv, CountInv, Live
<1>10. LeftInv(r)' /\ DraftInv(r)' /\ RoomInv(r)'
  BY <1>5 DEF LeftInv, DraftInv, RoomInv
<1> QED BY <1>2, <1>6, <1>7, <1>8, <1>9, <1>10 DEF RequestInv

LEMMA SteadyInv ==
    ASSUME LineInv, Steady, TypeInv', worker' = [k \in Ranks |-> worker'[k]],
           finished' = finished, outputs' = outputs, request' = request
    PROVE  LineInv'
<1>1. LineType'
  BY SteadyTypes, Sizes DEF LineInv
<1>2. ASSUME NEW r \in Reqs PROVE RequestInv(r)'
  BY SteadyRequest DEF LineInv
<1> QED BY <1>1, <1>2 DEF LineInv

LEMMA AbortedInv ==
    ASSUME LineInv, NEW x \in Reqs, Abort(x)
    PROVE  /\ LineInv' /\ Steady /\ outputs' = outputs
           /\ \A r \in Reqs : request'[r] = request[r] \/ request'[r].state = "finished"
<1>1. LineType /\ TypeInv
  BY DEF LineInv, LineType
<1>2. /\ request' = [request EXCEPT ![x].state = "finished"]
      /\ finished' = finished \cup {x} /\ outputs' = outputs /\ worker' = worker
      /\ UNCHANGED <<mode, inbox, pending, sampled, cached>>
  BY DEF Abort
<1>3. Steady
  BY <1>2 DEF Steady, Line, Runner, Step, NoStep
<1>4. LineType'
  <2>1. TypeInv'
    BY <1>1, AbortTyped
  <2>2. Ranks' = Ranks /\ worker = [k \in Ranks |-> worker[k]]
    BY <1>1, <1>2 DEF Ranks, LineType, WorkerType
  <2> QED BY <1>1, <1>2, <1>3, <2>1, <2>2, SteadyTypes, Sizes
<1>5. ASSUME NEW r \in Reqs PROVE RequestInv(r)'
  <2>1. request[x] \in RequestRec /\ request \in [Reqs -> RequestRec]
    BY <1>1 DEF TypeInv, RequestType
  <2>2. RequestInv(r)
    BY DEF LineInv
  <2>3. CASE r = x
    <3>1. request'[x].state = "finished"
      BY <1>2, <2>1 DEF RequestRec
    <3> QED BY <1>2, <1>3, <2>2, <2>3, <3>1, SteadyDone
  <2>4. CASE r # x
    <3>1. request'[r] = request[r] /\ (r \in finished' <=> r \in finished)
      BY <1>2, <2>1, <2>4
    <3> QED BY <1>2, <1>3, <2>2, <3>1, SteadyRequest
  <2> QED BY <2>3, <2>4
<1>6. \A r \in Reqs : request'[r] = request[r] \/ request'[r].state = "finished"
  <2>1. request[x] \in RequestRec /\ request \in [Reqs -> RequestRec]
    BY <1>1 DEF TypeInv, RequestType
  <2> QED BY <1>2, <2>1 DEF RequestRec
<1> QED BY <1>2, <1>3, <1>4, <1>5, <1>6 DEF LineInv

-----------------------------------------------------------------------------
(* The scheduler processes the output of the oldest step.                  *)

Token(r) == outputs[1][r].tokens
Drafts(r) == outputs[1][r].drafts

\* What became of a request: it is given its tokens, or nothing.
Given(r) ==
    /\ InOut(1, r) /\ Token(r) > 0 /\ Live(r)
    /\ request'[r].out = IF request[r].out + Token(r) > Limit THEN Limit
                                                              ELSE request[r].out + Token(r)
    /\ request'[r].placeholders = IF Async THEN request[r].placeholders - (Drafts(r) + 1)
                                           ELSE request[r].placeholders
    /\ request'[r].computed = IF request[r].computed > 0
                              THEN request[r].computed - (Drafts(r) + 1 - Token(r))
                              ELSE request[r].computed
    /\ request'[r].state = IF request'[r].out = Limit THEN "finished" ELSE request[r].state
    /\ request'[r].drafts = request[r].drafts
    /\ r \in finished' => r \in finished \/ request'[r].state = "finished"

NotGiven(r) ==
    /\ request'[r] = request[r] /\ (r \in finished' => r \in finished)
    /\ InOut(1, r) /\ Live(r) => ~(Token(r) > 0)

LEMMA UpdatedPlace ==
    ASSUME LineType, Update, NEW r \in Reqs
    PROVE  /\ Steady /\ worker' = [k \in Ranks |-> worker'[k]]
           /\ outputs # <<>> /\ Len(outputs) \in {1, 2} /\ Len(outputs') = Len(outputs) - 1
           /\ InOut(1, r)' <=> InOut(2, r)
           /\ ~InOut(2, r)'
           /\ Len(outputs) = 2 => outputs'[1] = outputs[2]
           /\ Given(r) \/ NotGiven(r)
<1>1. TypeInv /\ RequestType /\ outputs \in Seq(OutputMap)
  BY DEF LineType, TypeInv, RequestType, OutputsType
<1>2. /\ outputs # <<>> /\ outputs' = Tail(outputs)
      /\ UNCHANGED <<mode, inbox, worker, pending, sampled, cached>>
  BY DEF Update
<1>3. Steady
  BY <1>2 DEF Steady, Line, Runner, Step, NoStep
<1>4. worker' = [k \in Ranks |-> worker'[k]]
  BY <1>2 DEF LineType, WorkerType
<1>5. /\ Head(outputs) = outputs[1] /\ Len(outputs') = Len(outputs) - 1
      /\ \A i \in 1 .. Len(outputs) - 1 : outputs'[i] = outputs[i + 1]
  BY <1>1, <1>2, HeadTailProperties
<1>6. Len(outputs) \in {1, 2}
  BY <1>2, Sizes
<1>7. /\ InOut(1, r)' <=> InOut(2, r)
      /\ ~InOut(2, r)'
      /\ Len(outputs) = 2 => outputs'[1] = outputs[2]
  <2>1. CASE Len(outputs) = 1
    <3>1. Len(outputs') = 0
      BY <1>5, <2>1
    <3> QED BY <2>1, <3>1 DEF InOut
  <2>2. CASE Len(outputs) = 2
    <3>1. Len(outputs') = 1 /\ outputs'[1] = outputs[2]
      BY <1>5, <2>2
    <3> QED BY <2>2, <3>1 DEF InOut
  <2> QED BY <1>6, <2>1, <2>2
<1>8. r \in Got <=> InOut(1, r) /\ Token(r) > 0 /\ Live(r)
  <2>1. 1 \in 1 .. Len(outputs)
    BY <1>6
  <2> QED BY <1>5, <2>1 DEF Got, InOut, Token, Live
<1>9. CASE r \in Got
  <2>1. /\ Token(r) \in Nat /\ Drafts(r) \in Nat
        /\ request'[r] = Processed(r, Token(r), Drafts(r))
        /\ finished' = finished \cup {x \in Got : request'[x].state = "finished"}
    BY <1>1, <1>5, <1>9, UpdateFacts DEF Token, Drafts
  <2>2. r \in finished' => r \in finished \/ request'[r].state = "finished"
    BY <2>1
  <2> DEFINE t == Token(r)
             d == Drafts(r)
  <2>3. /\ Processed(r, t, d).out = IF request[r].out + t > Limit THEN Limit ELSE request[r].out + t
        /\ Processed(r, t, d).placeholders =
             IF Async THEN request[r].placeholders - (d + 1) ELSE request[r].placeholders
        /\ Processed(r, t, d).computed =
             IF request[r].computed > 0 THEN request[r].computed - (d + 1 - t)
                                        ELSE request[r].computed
        /\ Processed(r, t, d).state =
             IF Processed(r, t, d).out = Limit THEN "finished" ELSE request[r].state
        /\ Processed(r, t, d).drafts = request[r].drafts
    <3>1. t \in Nat /\ d \in Nat
      BY <2>1
    <3> HIDE DEF t, d
    <3> QED BY <1>1, <3>1, ProcessedType
  <2> QED BY <1>2, <1>3, <1>4, <1>5, <1>6, <1>7, <1>8, <1>9, <2>1, <2>2, <2>3 DEF Given
<1>10. CASE r \notin Got
  <2>1. /\ request' = [x \in Reqs |->
             IF x \in Got THEN Processed(x, Head(outputs)[x].tokens, Head(outputs)[x].drafts)
                          ELSE request[x]]
        /\ finished' = finished \cup {x \in Got : request'[x].state = "finished"}
    BY <1>1, UpdateFacts
  <2>2. request'[r] = request[r] /\ (r \in finished' => r \in finished)
    BY <1>10, <2>1
  <2> QED BY <1>2, <1>3, <1>4, <1>5, <1>6, <1>7, <1>8, <1>10, <2>2 DEF NotGiven
<1> QED BY <1>9, <1>10

LEMMA UpdatedCounts ==
    ASSUME LineInv, Update, NEW r \in Reqs
    PROVE  /\ Got2(r)' = Got2(r) - GotOut(1, r)
           /\ Owed2(r)' = Owed2(r) - OwedOut(1, r)
           /\ Owed(r)' = Owed(r) - OwedOut(1, r)
           /\ Got2(r)' \in Nat /\ Owed(r)' \in Nat /\ Owed2(r)' \in Nat
           /\ GotOut(1, r) \in Nat /\ OwedOut(1, r) \in Nat
           /\ OwedOut(1, r) - GotOut(1, r) \in Nat
           /\ Owed2(r) - Got2(r) \in Nat
           /\ Given(r) => /\ Token(r) \in Nat /\ Drafts(r) \in Nat
                          /\ Token(r) > 0 /\ Token(r) <= Drafts(r) + 1 /\ Drafts(r) <= Specs
                          /\ GotOut(1, r) = Token(r) /\ OwedOut(1, r) = Drafts(r) + 1
           /\ NotGiven(r) /\ Live(r) => GotOut(1, r) = 0 /\ OwedOut(1, r) = 0
<1>1. LineType /\ RequestInv(r)
  BY DEF LineInv
<1>2. /\ Steady /\ (InOut(1, r)' <=> InOut(2, r)) /\ ~InOut(2, r)'
      /\ Len(outputs) = 2 => outputs'[1] = outputs[2]
      /\ Len(outputs) \in {1, 2}
  BY <1>1, UpdatedPlace
<1>3. InOut(2, r) => Len(outputs) = 2
  BY <1>2 DEF InOut
<1>4. /\ GotOut(1, r)' = GotOut(2, r) /\ OwedOut(1, r)' = OwedOut(2, r)
      /\ GotOut(2, r)' = 0 /\ OwedOut(2, r)' = 0
  BY <1>2, <1>3 DEF GotOut, OwedOut
<1>5. /\ OwedStep(r)' = OwedStep(r)
      /\ OwedBox(1, r)' = OwedBox(1, r) /\ OwedBox(2, r)' = OwedBox(2, r)
  BY <1>2, SteadyPlace
<1>6. /\ \A i \in {1, 2} : GotOut(i, r) \in Nat /\ OwedOut(i, r) \in Nat
      /\ \A i \in {1, 2} : OwedBox(i, r) \in Nat
      /\ OwedStep(r) \in Nat
  BY <1>1, CountTypes
<1>7. /\ Got2(r)' = GotOut(1, r)' + GotOut(2, r)' /\ Got2(r) = GotOut(1, r) + GotOut(2, r)
      /\ Owed2(r)' = OwedOut(1, r)' + OwedOut(2, r)' /\ Owed2(r) = OwedOut(1, r) + OwedOut(2, r)
      /\ Owed(r) = Owed2(r) + OwedStep(r) + OwedBox(1, r) + OwedBox(2, r)
      /\ Owed(r)' = Owed2(r)' + OwedStep(r)' + OwedBox(1, r)' + OwedBox(2, r)'
  BY DEF Got2, Owed2, Owed
<1>8. /\ Got2(r)' = Got2(r) - GotOut(1, r)
      /\ Owed2(r)' = Owed2(r) - OwedOut(1, r)
      /\ Owed(r)' = Owed(r) - OwedOut(1, r)
      /\ Got2(r)' \in Nat /\ Owed(r)' \in Nat /\ Owed2(r)' \in Nat
  BY <1>4, <1>5, <1>6, <1>7
<1>9. \A i \in {1, 2} : OwedOut(i, r) - GotOut(i, r) \in Nat
  <2> SUFFICES ASSUME NEW i \in {1, 2} PROVE OwedOut(i, r) - GotOut(i, r) \in Nat
    OBVIOUS
  <2>1. CASE InOut(i, r)
    <3>1. /\ outputs[i][r].tokens \in Nat /\ outputs[i][r].drafts \in Nat
          /\ outputs[i][r].tokens <= outputs[i][r].drafts + 1
      BY <1>1, <2>1, PlaceTypes DEF RequestInv, GoodSteps
    <3> QED BY <2>1, <3>1 DEF OwedOut, GotOut
  <2>2. CASE ~InOut(i, r)
    BY <2>2 DEF OwedOut, GotOut
  <2> QED BY <2>1, <2>2
<1>10. Owed2(r) - Got2(r) \in Nat
  <2>1. /\ OwedOut(1, r) - GotOut(1, r) \in Nat /\ OwedOut(2, r) - GotOut(2, r) \in Nat
        /\ OwedOut(1, r) \in Nat /\ GotOut(1, r) \in Nat
        /\ OwedOut(2, r) \in Nat /\ GotOut(2, r) \in Nat
    BY <1>6, <1>9
  <2> QED BY <1>7, <2>1
<1>11. ASSUME Given(r)
       PROVE  /\ Token(r) \in Nat /\ Drafts(r) \in Nat
              /\ Token(r) > 0 /\ Token(r) <= Drafts(r) + 1 /\ Drafts(r) <= Specs
              /\ GotOut(1, r) = Token(r) /\ OwedOut(1, r) = Drafts(r) + 1
  <2>1. InOut(1, r) /\ Token(r) > 0
    BY <1>11 DEF Given
  <2> QED BY <1>1, <2>1, PlaceTypes
        DEF RequestInv, GoodSteps, Token, Drafts, GotOut, OwedOut
<1>12. ASSUME NotGiven(r), Live(r) PROVE GotOut(1, r) = 0 /\ OwedOut(1, r) = 0
  <2>1. CASE InOut(1, r)
    <3>1. ~(Token(r) > 0) /\ Token(r) \in Nat
      BY <1>1, <1>12, <2>1, PlaceTypes DEF NotGiven, Token
    <3>2. Token(r) = 0
      BY <3>1
    <3> QED BY <3>1, <3>2 DEF GotOut, OwedOut, Token
  <2>2. CASE ~InOut(1, r)
    BY <2>2 DEF GotOut, OwedOut
  <2> QED BY <2>1, <2>2
<1> QED BY <1>6, <1>8, <1>9, <1>10, <1>11, <1>12

\* The step that is processed is the newest one only if nothing is left to
\* schedule after it.
LEMMA UpdatedNewest ==
    ASSUME LineInv, Update, NEW r \in Reqs
    PROVE  /\ InNewest(r)' => InNewest(r)
           /\ InNewest(r)' \/ Candidates = {} \/ Specs = 0 \/ ~InNewest(r)
<1>1. LineType
  BY DEF LineInv
<1>2. /\ Steady /\ (InOut(1, r)' <=> InOut(2, r)) /\ ~InOut(2, r)'
      /\ Len(outputs) \in {1, 2} /\ Len(outputs') = Len(outputs) - 1
  BY <1>1, UpdatedPlace
<1>3. Line' = Line /\ (Step' = NoStep <=> Step = NoStep) /\ (InStep(r)' <=> InStep(r))
  BY <1>2, SteadyPlace DEF Steady
<1>4. (Step = NoStep)' <=> Step = NoStep
  BY <1>2, SteadyPlace
<1>5. CASE Line # <<>>
  <2>1. InBox(Len(Line), r)' <=> InBox(Len(Line), r)
    BY <1>3 DEF InBox
  <2> QED BY <1>3, <1>5, <2>1 DEF InNewest
<1>6. CASE Line = <<>> /\ Step # NoStep
  BY <1>3, <1>4, <1>6 DEF InNewest
<1>7. CASE Line = <<>> /\ Step = NoStep
  <2>1. /\ InNewest(r) <=> InOut(Len(outputs), r)
        /\ InNewest(r)' <=> InOut(Len(outputs), r)'
    BY <1>3, <1>4, <1>7 DEF InNewest
  <2>2. CASE Len(outputs) = 2
    <3>1. InOut(Len(outputs), r)' <=> InOut(1, r)'
      BY <1>2, <2>2 DEF InOut
    <3> QED BY <1>2, <2>1, <2>2, <3>1
  <2>3. CASE Len(outputs) = 1
    <3>1. ~InOut(Len(outputs), r)'
      BY <1>2, <2>3 DEF InOut
    <3>2. Candidates = {} \/ Specs = 0
      <4>1. Specs > 0 => InFlight = Depth \/ Candidates = {}
        BY DEF Update
      <4>2. Len(Line) = 0
        BY <1>1, <1>7, Sizes
      <4>3. InFlight = 1
        BY <1>1, <1>7, <2>3, <4>2, Sizes
      <4>4. Specs > 0 => Depth = 2
        BY <1>1, Sizes
      <4>5. Specs \in {0, 1}
        BY <1>1, Sizes
      <4> QED BY <4>1, <4>3, <4>4, <4>5
    <3> QED BY <2>1, <3>1, <3>2
  <2> QED BY <1>2, <2>2, <2>3
<1> QED BY <1>5, <1>6, <1>7

LEMMA UpdatedPlain ==
    ASSUME LineInv, Update, NEW r \in Reqs
    PROVE  /\ GoodSteps(r)' /\ EndedInv(r)' /\ AimInv(r)' /\ PlainInv(r)' /\ WorkerInv(r)'
           /\ Live(r)' => Live(r) /\ request'[r].state = request[r].state
<1>1. LineType /\ RequestInv(r)
  BY DEF LineInv
<1>2. /\ Steady /\ (InOut(1, r)' <=> InOut(2, r)) /\ ~InOut(2, r)'
      /\ Len(outputs) \in {1, 2} /\ Len(outputs') = Len(outputs) - 1
      /\ Len(outputs) = 2 => outputs'[1] = outputs[2]
      /\ Given(r) \/ NotGiven(r)
  BY <1>1, UpdatedPlace
<1>3. AimInv(r)' /\ PlainInv(r)'
  BY <1>1, <1>2, SteadyAim DEF RequestInv
<1>4. /\ \A i \in {1, 2} : /\ InBox(i, r)' <=> InBox(i, r)
                           /\ Boxed(i, r)' = Boxed(i, r)
                           /\ EndsBox(i, r)' <=> EndsBox(i, r)
      /\ InStep(r)' <=> InStep(r)
      /\ InStep(r) => Step'.req[r] = Step.req[r] /\ Step'.pos[r] = Step.pos[r]
                      /\ (r \in Step'.discard <=> r \in Step.discard)
      /\ (Step = NoStep)' <=> Step = NoStep
      /\ InWorker(r)' <=> InWorker(r)
      /\ InRows(r)' <=> InRows(r)
      /\ OutLen(r)' = OutLen(r) /\ Drafted(r)' = Drafted(r)
      /\ InPrev(r)' <=> InPrev(r)
      /\ Counted(r)' = Counted(r)
      /\ cached' = cached
      /\ \A q : (Reach(q)' <=> Reach(q)) /\ (GoodReq(q)' <=> GoodReq(q))
      /\ Async' = Async /\ Specs' = Specs
  BY <1>2, SteadyPlace
<1>5. InOut(2, r) => Len(outputs) = 2
  BY <1>2 DEF InOut
<1>6. Live(r)' => Live(r) /\ request'[r].state = request[r].state
  <2>1. CASE Given(r)
    BY <2>1 DEF Given, Live
  <2>2. CASE NotGiven(r)
    BY <2>2 DEF NotGiven, Live
  <2> QED BY <1>2, <2>1, <2>2
<1>7. GoodSteps(r)'
  <2>1. InOut(1, r)' => /\ outputs'[1][r].tokens <= outputs'[1][r].drafts + 1
                        /\ outputs'[1][r].tokens = 0 => outputs'[1][r].drafts = 0
                        /\ outputs'[1][r].drafts <= Specs
    BY <1>1, <1>2, <1>5 DEF RequestInv, GoodSteps
  <2> QED BY <1>1, <1>2, <1>4, <2>1 DEF RequestInv, GoodSteps
<1>8. EndedInv(r)'
  <2>1. r \in finished' => r \in finished \/ ~Live(r)'
    BY <1>2 DEF Given, NotGiven, Live
  <2> QED BY <1>1, <1>4, <1>6, <2>1 DEF RequestInv, EndedInv
<1>9. WorkerInv(r)'
  <2>1. WorkerInv(r)
    BY <1>1 DEF RequestInv
  <2>2. outputs' # <<>> => Len(outputs) = 2 /\ Len(outputs') = 1
    <3>1. Len(outputs') = 0 => outputs' = <<>>
      <4>1. outputs' \in Seq(OutputMap)
        <5>1. TypeInv'
          BY <1>1, UpdateTyped DEF LineType
        <5> QED BY <5>1 DEF TypeInv, OutputsType
      <4> QED BY <4>1, EmptySeq
    <3> QED BY <1>2, <3>1
  <2>3. outputs' # <<>> => /\ outputs # <<>> /\ outputs'[Len(outputs')] = outputs[Len(outputs)]
                           /\ (InOut(Len(outputs), r)' <=> InOut(Len(outputs), r))
    <3> SUFFICES ASSUME outputs' # <<>>
                 PROVE  /\ outputs # <<>> /\ outputs'[Len(outputs')] = outputs[Len(outputs)]
                        /\ (InOut(Len(outputs), r)' <=> InOut(Len(outputs), r))
      OBVIOUS
    <3>1. Len(outputs) = 2 /\ Len(outputs') = 1 /\ outputs'[1] = outputs[2]
      BY <1>2, <2>2
    <3>2. InOut(Len(outputs), r)' <=> r \in DOMAIN outputs'[1]
      BY <3>1 DEF InOut
    <3>3. InOut(Len(outputs), r) <=> r \in DOMAIN outputs[2]
      BY <3>1 DEF InOut
    <3> QED BY <1>1, <3>1, <3>2, <3>3, Sizes
  <2> QED BY <1>4, <2>1, <2>3 DEF WorkerInv
<1> QED BY <1>3, <1>6, <1>7, <1>8, <1>9

LEMMA UpdatedNumbers ==
    ASSUME LineInv, Update, NEW r \in Reqs
    PROVE  Live(r)' =>
             /\ Live(r) /\ (Running(r)' <=> Running(r))
             /\ request'[r].state = request[r].state
             /\ request'[r].out = request[r].out + GotOut(1, r)
             /\ request'[r].drafts = request[r].drafts
             /\ request'[r].placeholders = IF Async THEN request[r].placeholders - OwedOut(1, r)
                                                    ELSE request[r].placeholders
             /\ request'[r].computed = IF Running(r)
                  THEN request[r].computed - (OwedOut(1, r) - GotOut(1, r))
                  ELSE request[r].computed
             /\ OwedOut(1, r) = 0 \/ request[r].out + 1 < Limit
<1> SUFFICES ASSUME Live(r)'
             PROVE  /\ Live(r) /\ (Running(r)' <=> Running(r))
                    /\ request'[r].state = request[r].state
                    /\ request'[r].out = request[r].out + GotOut(1, r)
                    /\ request'[r].drafts = request[r].drafts
                    /\ request'[r].placeholders =
                         IF Async THEN request[r].placeholders - OwedOut(1, r)
                                  ELSE request[r].placeholders
                    /\ request'[r].computed = IF Running(r)
                         THEN request[r].computed - (OwedOut(1, r) - GotOut(1, r))
                         ELSE request[r].computed
                    /\ OwedOut(1, r) = 0 \/ request[r].out + 1 < Limit
  OBVIOUS
<1>1. LineType /\ RequestInv(r)
  BY DEF LineInv
<1>2. Live(r) /\ request'[r].state = request[r].state
  BY UpdatedPlain
<1>3. Running(r)' <=> Running(r)
  BY <1>2 DEF Running
<1>4. /\ request[r].computed \in Int /\ request[r].out \in Nat
      /\ request[r].placeholders \in Int /\ request[r].drafts \in Nat
      /\ cached[r] \in Nat /\ Owed2(r) \in Nat /\ Got2(r) \in Nat /\ Ahead(r) \in Nat
      /\ Base(r) \in Nat /\ Limit \in Nat
  BY <1>1, Numbers, Sizes
<1>5. Given(r) \/ NotGiven(r)
  BY <1>1, UpdatedPlace
<1>6. CASE NotGiven(r)
  <2>1. GotOut(1, r) = 0 /\ OwedOut(1, r) = 0
    BY <1>2, <1>6, UpdatedCounts
  <2>2. request'[r] = request[r]
    BY <1>6 DEF NotGiven
  <2> QED BY <1>2, <1>3, <1>4, <2>1, <2>2
<1>7. CASE Given(r)
  <2>1. /\ Token(r) \in Nat /\ Drafts(r) \in Nat
        /\ Token(r) > 0 /\ Token(r) <= Drafts(r) + 1
        /\ GotOut(1, r) = Token(r) /\ OwedOut(1, r) = Drafts(r) + 1
        /\ Owed2(r) - Got2(r) \in Nat
    BY <1>7, UpdatedCounts
  <2>2. /\ InOut(1, r)
        /\ request'[r].out = IF request[r].out + Token(r) > Limit THEN Limit
                                                              ELSE request[r].out + Token(r)
        /\ request'[r].placeholders = IF Async THEN request[r].placeholders - (Drafts(r) + 1)
                                               ELSE request[r].placeholders
        /\ request'[r].computed = IF request[r].computed > 0
                                  THEN request[r].computed - (Drafts(r) + 1 - Token(r))
                                  ELSE request[r].computed
        /\ request'[r].state = IF request'[r].out = Limit THEN "finished" ELSE request[r].state
        /\ request'[r].drafts = request[r].drafts
    BY <1>7 DEF Given
  <2>3. request'[r].out # Limit
    BY <2>2 DEF Live
  <2>4. request'[r].out = request[r].out + Token(r) /\ request[r].out + Token(r) < Limit
    BY <1>4, <2>1, <2>2, <2>3
  <2>5. request[r].out + 1 < Limit
    BY <1>4, <2>1, <2>4
  <2>6. Running(r) => request[r].computed > 0
    <3> SUFFICES ASSUME Running(r) PROVE request[r].computed > 0
      OBVIOUS
    <3>1. request[r].computed = Base(r) + Owed2(r) - Got2(r) + Ahead(r)
      BY <1>1, <1>2 DEF RequestInv, CountInv
    <3>2. Ahead(r) > 0 \/ Base(r) > 0
      <4>1. CASE InStep(r) \/ InBox(1, r) \/ InBox(2, r)
        <5>1. /\ InStep(r) => Step.req[r].n \in Nat \ {0}
              /\ \A i \in {1, 2} : InBox(i, r) => Boxed(i, r).n \in Nat \ {0}
          BY <1>1, PlaceTypes, RecordTypes
        <5>2. /\ AheadStep(r) \in Nat /\ AheadBox(1, r) \in Nat /\ AheadBox(2, r) \in Nat
              /\ Ahead(r) = AheadStep(r) + AheadBox(1, r) + AheadBox(2, r)
          BY <1>1, CountTypes DEF Ahead
        <5>3. AheadStep(r) > 0 \/ AheadBox(1, r) > 0 \/ AheadBox(2, r) > 0
          BY <4>1, <5>1 DEF AheadStep, AheadBox
        <5> QED BY <5>2, <5>3
      <4>2. CASE ~InStep(r) /\ ~InBox(1, r) /\ ~InBox(2, r)
        <5>1. cached[r] > 0
          BY <1>1, <4>2 DEF RequestInv, LeftInv
        <5> QED BY <4>2, <5>1 DEF Base, Afresh
      <4> QED BY <4>1, <4>2
    <3> QED BY <1>4, <2>1, <3>1, <3>2
  <2>7. ~Running(r) => request[r].computed = 0
    BY <1>1, <1>2 DEF RequestInv, CountInv
  <2>8. request'[r].computed = IF Running(r)
          THEN request[r].computed - (OwedOut(1, r) - GotOut(1, r))
          ELSE request[r].computed
    <3>1. OwedOut(1, r) - GotOut(1, r) = Drafts(r) + 1 - Token(r)
      BY <2>1
    <3>2. CASE Running(r)
      BY <2>2, <2>6, <3>1, <3>2
    <3>3. CASE ~Running(r)
      BY <2>2, <2>7, <3>3
    <3> QED BY <3>2, <3>3
  <2>9. request'[r].placeholders = IF Async THEN request[r].placeholders - OwedOut(1, r)
                                            ELSE request[r].placeholders
    BY <2>1, <2>2
  <2> QED BY <1>2, <1>3, <2>1, <2>2, <2>4, <2>5, <2>8, <2>9
<1> QED BY <1>5, <1>6, <1>7

LEMMA UpdatedRest ==
    ASSUME LineInv, Update, NEW r \in Reqs
    PROVE  StateInv(r)' /\ CountInv(r)' /\ LeftInv(r)' /\ DraftInv(r)' /\ RoomInv(r)'
<1>1. LineType /\ RequestInv(r)
  BY DEF LineInv
<1>2. CASE ~Live(r)'
  <2>1. request'[r].state = "finished" /\ ~Running(r)'
    BY <1>2 DEF Live, Running
  <2> QED BY <1>2, <2>1 DEF StateInv, CountInv, LeftInv, DraftInv, RoomInv
<1>3. CASE Live(r)'
  <2>1. /\ Steady /\ (InOut(1, r)' <=> InOut(2, r)) /\ ~InOut(2, r)'
        /\ Given(r) \/ NotGiven(r)
    BY <1>1, UpdatedPlace
  <2>2. /\ \A i \in {1, 2} : /\ InBox(i, r)' <=> InBox(i, r)
                             /\ Boxed(i, r)' = Boxed(i, r)
                             /\ OwedBox(i, r)' = OwedBox(i, r)
        /\ InStep(r)' <=> InStep(r)
        /\ InStep(r) => Step'.req[r] = Step.req[r]
        /\ OwedStep(r)' = OwedStep(r)
        /\ (Step = NoStep)' <=> Step = NoStep
        /\ Base(r)' = Base(r) /\ Ahead(r)' = Ahead(r)
        /\ InWorker(r)' <=> InWorker(r)
        /\ InRows(r)' <=> InRows(r)
        /\ OutLen(r)' = OutLen(r) /\ Drafted(r)' = Drafted(r)
        /\ sampled' = sampled /\ cached' = cached
        /\ Async' = Async /\ Specs' = Specs /\ Limit' = Limit
    BY <2>1, SteadyPlace
  <2> DEFINE t == GotOut(1, r)
             o == OwedOut(1, r)
             p == request'[r].placeholders
             c == request'[r].computed
  <2>3. /\ Live(r) /\ (Running(r)' <=> Running(r))
        /\ request'[r].state = request[r].state
        /\ request'[r].out = request[r].out + t
        /\ request'[r].drafts = request[r].drafts
        /\ p = IF Async THEN request[r].placeholders - o ELSE request[r].placeholders
        /\ c = IF Running(r) THEN request[r].computed - (o - t) ELSE request[r].computed
        /\ o = 0 \/ request[r].out + 1 < Limit
    BY <1>3, UpdatedNumbers
  <2>4. /\ Got2(r)' = Got2(r) - t
        /\ Owed2(r)' = Owed2(r) - o
        /\ Owed(r)' = Owed(r) - o
        /\ Got2(r)' \in Nat /\ Owed(r)' \in Nat /\ Owed2(r)' \in Nat
        /\ t \in Nat /\ o \in Nat /\ o - t \in Nat
    BY UpdatedCounts
  <2>5. /\ request[r].computed \in Int /\ request[r].out \in Nat
        /\ request[r].placeholders \in Int /\ request[r].drafts \in Nat
        /\ Left(r) = PromptLen + request[r].out + request[r].placeholders
                        + request[r].drafts - request[r].computed
        /\ PromptLen \in Nat
        /\ cached[r] \in Nat /\ sampled[r] \in Nat /\ Base(r) \in Nat
        /\ Owed(r) \in Nat /\ Owed2(r) \in Nat /\ Got2(r) \in Nat /\ Ahead(r) \in Nat
        /\ Limit \in Nat
    BY <1>1, Numbers, Sizes
  <2>6. /\ request[r].out + Got2(r) = sampled[r]
        /\ request[r].placeholders = IF Async THEN Owed(r) ELSE 0
        /\ Running(r) => request[r].computed = Base(r) + Owed2(r) - Got2(r) + Ahead(r)
        /\ ~Running(r) => request[r].computed = 0 /\ request[r].drafts = 0
        /\ request[r].drafts <= Specs
    BY <1>1, <2>3 DEF RequestInv, CountInv
  <2> HIDE DEF t, o
  <2>7. CountInv(r)'
    <3>1. request'[r].out + Got2(r)' = sampled[r]
      BY <2>3, <2>4, <2>5, <2>6
    <3>2. p = IF Async THEN Owed(r)' ELSE 0
      BY <2>3, <2>4, <2>5, <2>6
    <3>3. Running(r) => c = Base(r) + Owed2(r)' - Got2(r)' + Ahead(r)
      BY <2>3, <2>4, <2>5, <2>6
    <3>4. ~Running(r) => c = 0 /\ request'[r].drafts = 0
      BY <2>3, <2>6
    <3> QED BY <2>2, <2>3, <2>6, <3>1, <3>2, <3>3, <3>4 DEF CountInv
  <2>8. StateInv(r)'
    <3>1. StateInv(r)
      BY <1>1 DEF RequestInv
    <3>2. request[r].state = "waiting" => Idle(r)' /\ t = 0 /\ o = 0 /\ ~Running(r)
      <4>1. ASSUME request[r].state = "waiting" PROVE Idle(r)' /\ ~InOut(1, r)
        BY <2>1, <2>2, <3>1, <4>1 DEF StateInv, Idle
      <4> QED BY <4>1 DEF GotOut, OwedOut, Running, t, o
    <3>3. InNewest(r)' => InNewest(r)
      BY UpdatedNewest
    <3> QED BY <2>2, <2>3, <2>5, <3>1, <3>2, <3>3 DEF StateInv
  <2>9. LeftInv(r)'
    <3> SUFFICES ASSUME Running(r) PROVE LeftInv(r)'
      BY <2>3 DEF LeftInv
    <3>1. LeftInv(r)
      BY <1>1 DEF RequestInv
    <3>2. Async => PromptLen + request'[r].out + p > c
      <4>1. Async => PromptLen + request[r].out + request[r].placeholders > request[r].computed
        BY <3>1 DEF LeftInv
      <4> QED BY <2>3, <2>4, <2>5, <4>1
    <3>3. ASSUME ~Async
          PROVE  Left(r)' >= 0 /\ Owed(r)' <= 1 /\ (Owed(r)' > 0 => Left(r)' <= 0)
      <4>1. Left(r) >= 0 /\ Owed(r) <= 1 /\ (Owed(r) > 0 => Left(r) <= 0)
        BY <3>1, <3>3 DEF LeftInv
      <4>2. Left(r)' = PromptLen + request'[r].out + p + request'[r].drafts - c
        BY DEF Left
      <4>3. Left(r)' = Left(r) + o
        BY <2>3, <2>4, <2>5, <3>3, <4>2
      <4>4. Left(r) \in Int
        BY <2>5
      <4> QED BY <2>4, <2>5, <4>1, <4>3, <4>4
    <3>4. ~InStep(r) /\ ~InBox(1, r) /\ ~InBox(2, r) => cached[r] > 0
      BY <3>1 DEF LeftInv
    <3> QED BY <2>2, <3>2, <3>3, <3>4 DEF LeftInv
  <2>10. DraftInv(r)'
    <3> SUFFICES ASSUME Running(r) PROVE DraftInv(r)'
      BY <2>3 DEF DraftInv
    <3>1. DraftInv(r)
      BY <1>1 DEF RequestInv
    <3>2. ASSUME request[r].drafts > 0
          PROVE  InNewest(r)' \/ (p > 0 /\ request'[r].out + 1 >= Limit)
      <4>1. Specs > 0 /\ Async /\ Specs \in {0, 1}
        BY <1>1, <2>5, <2>6, <3>2, Sizes
      <4>2. ASSUME request[r].placeholders > 0, request[r].out + 1 >= Limit
            PROVE  p > 0 /\ request'[r].out + 1 >= Limit
        <5>1. o = 0 /\ t = 0
          BY <2>3, <2>4, <2>5, <4>2
        <5> QED BY <2>3, <2>5, <4>2, <5>1
      <4>3. CASE InNewest(r)
        <5>1. InNewest(r)' \/ Candidates = {}
          BY <4>1, <4>3, UpdatedNewest
        <5>2. ASSUME Candidates = {}
              PROVE  request[r].placeholders > 0 /\ request[r].out + 1 >= Limit
          <6>1. ~Schedulable(r)
            BY <5>2 DEF Candidates
          <6>2. Left(r) > 0
            <7>1. PromptLen + request[r].out + request[r].placeholders > request[r].computed
              BY <1>1, <4>1 DEF RequestInv, LeftInv
            <7> QED BY <2>5, <3>2, <7>1
          <6> QED BY <2>3, <6>1, <6>2 DEF Schedulable, Live
        <5> QED BY <4>2, <5>1, <5>2
      <4>4. CASE ~InNewest(r)
        BY <3>1, <3>2, <4>2, <4>4 DEF DraftInv
      <4> QED BY <4>3, <4>4
    <3> QED BY <2>2, <2>3, <3>1, <3>2 DEF DraftInv
  <2>11. RoomInv(r)'
    <3> SUFFICES ASSUME Running(r), Async PROVE RoomInv(r)'
      BY <2>2, <2>3 DEF RoomInv
    <3>1. RoomInv(r)
      BY <1>1 DEF RequestInv
    <3> DEFINE e == request[r].out + request[r].placeholders
               f == request'[r].out + p
    <3>2. f <= e /\ e \in Int /\ f \in Int
      <4>1. request'[r].out = request[r].out + t /\ p = request[r].placeholders - o
        BY <2>3
      <4>2. t <= o
        BY <2>4
      <4> HIDE DEF p
      <4> QED BY <2>4, <2>5, <4>1, <4>2
    <3>3. /\ OwedStep(r) \in Int /\ OwedBox(1, r) \in Int /\ OwedBox(2, r) \in Int
          /\ InStep(r) => Step.req[r].outputs \in Int
          /\ InBox(1, r) => Boxed(1, r).outputs \in Int
          /\ InBox(2, r) => Boxed(2, r).outputs \in Int
      BY <1>1, CountTypes, PlaceTypes, RecordTypes
    <3>4. InRows(r) => OutLen(r) \in Int /\ Drafted(r) \in Int
      <4>1. InRows(r) => InWorker(r)
        BY <1>1 DEF RequestInv, WorkerInv
      <4>2. InWorker(r) => IsWorkerReq(Runner.reqs[r])
        BY <1>1 DEF LineType, WorkerType, InWorker
      <4>3. IsWorkerReq(Runner.reqs[r]) => OutLen(r) \in Int /\ Drafted(r) \in Int
        BY LenProperties DEF IsWorkerReq, OutLen, Drafted
      <4> QED BY <4>1, <4>2, <4>3
    <3>5. /\ Step = NoStep /\ InRows(r) /\ ~InBox(1, r) /\ ~InBox(2, r)
                => e <= OutLen(r) + Drafted(r)
          /\ InStep(r) /\ ~InBox(1, r) /\ ~InBox(2, r)
                => e <= Step.req[r].outputs + OwedStep(r)
          /\ InBox(1, r) /\ ~InBox(2, r) => e <= Boxed(1, r).outputs + OwedBox(1, r)
          /\ InBox(2, r) => e <= Boxed(2, r).outputs + OwedBox(2, r)
      BY <3>1 DEF RoomInv
    <3> HIDE DEF e, f
    <3>6. /\ Step = NoStep /\ InRows(r) /\ ~InBox(1, r) /\ ~InBox(2, r)
                => f <= OutLen(r) + Drafted(r)
          /\ InStep(r) /\ ~InBox(1, r) /\ ~InBox(2, r)
                => f <= Step.req[r].outputs + OwedStep(r)
          /\ InBox(1, r) /\ ~InBox(2, r) => f <= Boxed(1, r).outputs + OwedBox(1, r)
          /\ InBox(2, r) => f <= Boxed(2, r).outputs + OwedBox(2, r)
      BY <3>2, <3>3, <3>4, <3>5
    <3> QED BY <2>2, <3>6 DEF RoomInv, f
  <2> QED BY <2>7, <2>8, <2>9, <2>10, <2>11
<1> QED BY <1>2, <1>3

LEMMA UpdatedInv ==
    ASSUME LineInv, Update
    PROVE  LineInv'
<1>1. LineType /\ TypeInv
  BY DEF LineInv, LineType
<1>2. LineType'
  <2>1. TypeInv' /\ outputs \in Seq(OutputMap)
    BY <1>1, UpdateTyped DEF TypeInv, OutputsType
  <2>2. /\ outputs # <<>> /\ outputs' = Tail(outputs)
        /\ UNCHANGED <<mode, inbox, worker, pending, sampled, cached>>
    BY DEF Update
  <2>3. Steady
    BY <2>2 DEF Steady, Line, Runner, Step, NoStep
  <2>4. worker' = [k \in Ranks |-> worker'[k]]
    BY <1>1, <2>2 DEF LineType, WorkerType
  <2>5. Len(outputs') = Len(outputs) - 1 /\ Len(outputs) \in {1, 2}
    BY <1>1, <2>1, <2>2, HeadTailProperties, Sizes
  <2>6. Len(outputs') <= Len(outputs) /\ Len(outputs') \in Nat
    BY <2>5
  <2> QED BY <1>1, <2>1, <2>3, <2>4, <2>6, SteadyTypes
<1>3. ASSUME NEW r \in Reqs PROVE RequestInv(r)'
  BY UpdatedPlain, UpdatedRest DEF RequestInv
<1> QED BY <1>2, <1>3 DEF LineInv

-----------------------------------------------------------------------------
(* The steps of the first rank, of the scheduler's bitmask, and the rest.  *)

LEMMA MaskedInv ==
    ASSUME LineInv, MaskInv, GrammarBitmask
    PROVE  LineInv' /\ Steady /\ request' = request /\ outputs' = outputs
<1>1. LineType /\ TypeInv /\ accepted \in [Reqs -> Int]
  BY DEF LineInv, LineType, MaskInv, MatchInv
<1>2. /\ IsStep(Step) /\ accepted' = accepted
      /\ UNCHANGED <<mode, request, finished, inbox, worker, sent, outputs, sampled, cached>>
  BY <1>1, GrammarBitmaskFacts DEF Step
<1>3. PICK mask : pending' = [pending EXCEPT !["last"] =
                   [phase |-> "sample", req |-> Step.req, pos |-> Step.pos,
                    inputs |-> Step.inputs, discard |-> Step.discard,
                    mask |-> mask, rows |-> mask]]
  BY <1>1, GrammarBitmaskFacts DEF Step
<1>4. pending = [k \in Ranks |-> pending[k]] /\ "last" \in Ranks
  BY <1>1, Sizes DEF TypeInv, PendingType
<1>5. Step' = [phase |-> "sample", req |-> Step.req, pos |-> Step.pos,
               inputs |-> Step.inputs, discard |-> Step.discard,
               mask |-> mask, rows |-> mask]
  BY <1>3, <1>4 DEF Step
<1>6. /\ Step'.req = Step.req /\ Step'.pos = Step.pos /\ Step'.discard = Step.discard
      /\ Step'.phase = "sample" /\ Step'.inputs = Step.inputs
  BY <1>5
<1>7. Step # NoStep /\ Step' # NoStep
  <2>1. Step.phase # "none"
    BY <1>2 DEF IsStep
  <2> QED BY <1>6, <2>1 DEF NoStep
<1>8. Steady
  BY <1>2, <1>6, <1>7 DEF Steady, Line, Runner
<1>9. worker' = [k \in Ranks |-> worker'[k]]
  BY <1>1, <1>2 DEF LineType, WorkerType
<1>10. TypeInv'
  BY <1>1, GrammarBitmaskTyped
<1> QED BY <1>2, <1>8, <1>9, <1>10, SteadyInv

LEMMA FirstRankInv ==
    ASSUME LineInv, ExecuteModel("first"), "first" \in Ranks
    PROVE  LineInv' /\ Steady /\ request' = request /\ outputs' = outputs
<1>1. LineType /\ TypeInv /\ WorkerType
  BY DEF LineInv, LineType
<1>2. /\ UNCHANGED <<mode, request, finished, sampled>>
      /\ inbox' = [inbox EXCEPT !["first"] = Tail(@)]
  BY DEF ExecuteModel
<1>3. /\ \E v : worker' = [worker EXCEPT !["first"] = v]
      /\ pending' = pending \/ \E v : pending' = [pending EXCEPT !["first"] = v]
      /\ outputs' = outputs
  <2>1. CASE Scheduled(Head(inbox["first"])) = {}
    BY <2>1 DEF ExecuteModel
  <2>2. CASE Scheduled(Head(inbox["first"])) # {}
    BY <2>2 DEF ExecuteModel
  <2> QED BY <2>1, <2>2
<1>4. cached' = cached
  <2>1. cached = [r \in Reqs |-> cached[r]]
    BY <1>1 DEF LineType
  <2>2. CASE Scheduled(Head(inbox["first"])) = {}
    BY <2>2 DEF ExecuteModel
  <2>3. CASE Scheduled(Head(inbox["first"])) # {}
    <3>1. cached' = [r \in Reqs |->
             IF "first" = "last" /\ r \in Scheduled(Head(inbox["first"]))
                  /\ Head(inbox["first"]).req[r].kind # "run"
             THEN Head(inbox["first"]).req[r].computed ELSE cached[r]]
      BY <2>3 DEF ExecuteModel
    <3>2. cached' = [r \in Reqs |-> cached[r]]
      BY <3>1
    <3> QED BY <2>1, <3>2
  <2> QED BY <2>2, <2>3
<1>5. /\ worker = [k \in Ranks |-> worker[k]] /\ pending = [k \in Ranks |-> pending[k]]
      /\ inbox = [k \in Ranks |-> inbox[k]] /\ "last" \in Ranks
  BY <1>1, Sizes DEF TypeInv, PendingType, InboxType, WorkerType
<1>6. Line' = Line /\ Runner' = Runner /\ Step' = Step
  BY <1>2, <1>3, <1>5 DEF Line, Runner, Step
<1>7. Steady
  BY <1>2, <1>4, <1>6 DEF Steady
<1>8. worker' = [k \in Ranks |-> worker'[k]]
  BY <1>3, <1>5
<1>9. TypeInv'
  BY <1>1, ExecuteModelTyped
<1> QED BY <1>2, <1>3, <1>7, <1>8, <1>9, SteadyInv

LEMMA ReceivedInv ==
    ASSUME LineInv, ReceiveTokens
    PROVE  LineInv' /\ Steady /\ request' = request /\ outputs' = outputs
<1>1. LineType /\ TypeInv /\ WorkerType
  BY DEF LineInv, LineType
<1>2. /\ "first" \in Ranks
      /\ UNCHANGED <<mode, request, finished, inbox, outputs, accepted, sampled, cached>>
      /\ pending' = [pending EXCEPT !["first"] = NoStep]
  BY DEF ReceiveTokens
<1>3. worker' = worker \/ \E v : worker' = [worker EXCEPT !["first"] = v]
  BY DEF ReceiveTokens
<1>4. /\ worker = [k \in Ranks |-> worker[k]] /\ pending = [k \in Ranks |-> pending[k]]
      /\ "last" \in Ranks
  BY <1>1, Sizes DEF TypeInv, PendingType, WorkerType
<1>5. Line' = Line /\ Runner' = Runner /\ Step' = Step
  BY <1>2, <1>3, <1>4 DEF Line, Runner, Step
<1>6. Steady
  BY <1>2, <1>5 DEF Steady
<1>7. worker' = [k \in Ranks |-> worker'[k]]
  BY <1>3, <1>4
<1>8. TypeInv'
  BY <1>1, ReceiveTokensTyped
<1> QED BY <1>2, <1>6, <1>7, <1>8, SteadyInv

LEMMA StutterInv ==
    ASSUME LineInv, UNCHANGED vars
    PROVE  LineInv' /\ Steady /\ request' = request /\ outputs' = outputs
<1>1. /\ mode' = mode /\ request' = request /\ finished' = finished /\ inbox' = inbox
      /\ worker' = worker /\ pending' = pending /\ outputs' = outputs
      /\ sampled' = sampled /\ cached' = cached
  BY DEF vars
<1>2. Steady
  BY <1>1 DEF Steady, Line, Runner, Step
<1>3. worker' = [k \in Ranks |-> worker'[k]]
  BY <1>1 DEF LineInv, LineType, WorkerType
<1>4. TypeInv'
  BY <1>1 DEF LineInv, LineType, TypeInv, RequestType, InboxType, PendingType, OutputsType, Ranks
<1> QED BY <1>1, <1>2, <1>3, <1>4, SteadyInv

LEMMA LineInvInit == Init => LineInv
<1> SUFFICES ASSUME Init PROVE LineInv
  OBVIOUS
<1>1. TypeInv /\ "last" \in Ranks
  BY InitTypes, ModeFacts DEF Init
<1>2. /\ Line = <<>> /\ Runner = NewWorker /\ Step = NoStep /\ outputs = <<>>
      /\ finished = {}
  BY <1>1 DEF Init, Line, Runner, Step
<1>3. /\ worker = [k \in Ranks |-> worker[k]]
      /\ sampled \in [Reqs -> Nat] /\ cached \in [Reqs -> Nat]
  BY DEF Init
<1>4. DOMAIN Runner.reqs = {} /\ DOMAIN Runner.rows = {}
  BY <1>2 DEF NewWorker
<1>5. WorkerType
  BY <1>2, <1>3, <1>4 DEF WorkerType, NewWorker
<1>6. InFlight <= Depth
  BY <1>2 DEF InFlight, Line, Step, Depth
<1>7. LineType
  BY <1>1, <1>3, <1>5, <1>6 DEF LineType
<1>8. ASSUME NEW r \in Reqs PROVE RequestInv(r)
  <2>1. request[r] = Arrived /\ sampled[r] = 0
    BY DEF Init
  <2>2. /\ request[r].state = "waiting" /\ request[r].computed = 0 /\ request[r].out = 0
        /\ request[r].placeholders = 0 /\ request[r].drafts = 0
    BY <2>1 DEF Arrived
  <2>3. /\ \A i \in {1, 2} : ~InBox(i, r) /\ ~EndsBox(i, r) /\ ~InOut(i, r)
        /\ ~InStep(r) /\ ~InWorker(r) /\ ~InRows(r)
    BY <1>2, <1>4 DEF InBox, EndsBox, InOut, InStep, InWorker, InRows
  <2>4. Idle(r) /\ ~Running(r)
    BY <2>2, <2>3 DEF Idle, Running
  <2>5. /\ Got2(r) = 0 /\ Owed(r) = 0
    BY <2>3 DEF Got2, GotOut, Owed, Owed2, OwedOut, OwedStep, OwedBox
  <2>6. GoodSteps(r) /\ EndedInv(r)
    BY <1>2, <2>3 DEF GoodSteps, EndedInv
  <2>7. StateInv(r)
    BY <2>1, <2>2, <2>3, <2>4 DEF StateInv
  <2>8. CountInv(r)
    <3>1. Specs \in {0, 1}
      BY <1>7, Sizes
    <3> QED BY <2>1, <2>2, <2>4, <2>5, <3>1 DEF CountInv
  <2>9. LeftInv(r) /\ DraftInv(r) /\ RoomInv(r)
    BY <2>4 DEF LeftInv, DraftInv, RoomInv
  <2>10. AimInv(r) /\ PlainInv(r)
    BY <2>3 DEF AimInv, PlainInv
  <2>11. WorkerInv(r)
    BY <1>2, <2>3 DEF WorkerInv
  <2> QED BY <2>6, <2>7, <2>8, <2>9, <2>10, <2>11 DEF RequestInv
<1> QED BY <1>7, <1>8 DEF LineInv

LEMMA LineInvStep == LineInv /\ MaskInv /\ [Next]_vars => LineInv'
<1> SUFFICES ASSUME LineInv, MaskInv, [Next]_vars PROVE LineInv'
  OBVIOUS
<1>1. CASE Schedule \/ ScheduleNothing
  BY <1>1, PlanInv
<1>2. CASE Update
  BY <1>2, UpdatedInv
<1>3. ASSUME NEW r \in Reqs, Abort(r) PROVE LineInv'
  BY <1>3, AbortedInv
<1>4. ASSUME NEW k \in Ranks, ExecuteModel(k) PROVE LineInv'
  <2>1. k = "first" \/ k = "last"
    BY DEF Ranks
  <2> QED BY <1>4, <2>1, ExecutedInv, FirstRankInv
<1>5. CASE GrammarBitmask
  BY <1>5, MaskedInv
<1>6. CASE SampleTokens
  BY <1>6, SampledInv
<1>7. CASE ReceiveTokens
  BY <1>7, ReceivedInv
<1>8. CASE UNCHANGED vars
  BY <1>8, StutterInv
<1>9. CASE Quiet
  BY <1>8, <1>9 DEF Quiet
<1> QED BY <1>1, <1>2, <1>3, <1>4, <1>5, <1>6, <1>7, <1>8, <1>9 DEF Next

LEMMA LineInvHolds == Spec => []LineInv
BY LineInvInit, LineInvStep, MaskInvHolds, PTL DEF Spec

(* A step of the last rank continues each request exactly where its KV     *)
(* cache ends: whatever the scheduler took for accepted when it scheduled  *)
(* the step, what execute_model takes off num_computed_tokens is what the  *)
(* rejection sampler refused, for requests that stay in the batch, leave   *)
(* it, return to it or start again.                                        *)
THEOREM StepsAlwaysContinue == Spec => []StepsContinue
<1>1. LineInv => StepsContinue
  <2> SUFFICES ASSUME LineInv, Step # NoStep, NEW r \in DOMAIN Step.req
               PROVE  Step.pos[r] = cached[r]
    BY DEF StepsContinue, Step
  <2>1. InStep(r)
    BY DEF InStep
  <2>2. r \in Reqs
    BY <2>1, PlaceTypes DEF LineInv
  <2>3. WorkerInv(r)
    BY <2>2 DEF LineInv, RequestInv
  <2> QED BY <2>1, <2>3 DEF WorkerInv
<1> QED BY <1>1, LineInvHolds, PTL

(* When no step of a request is under way, nothing of it was lost on the   *)
(* way: the scheduler has all that was sampled, expects nothing more, and  *)
(* counts as computed what the KV cache holds, although it counted steps   *)
(* before they ran and drafts before they were refused.                    *)
THEOREM OutputsAlwaysComplete == Spec => []OutputsComplete
<1>1. LineInv => OutputsComplete
  <2> SUFFICES ASSUME LineInv, NEW r \in Reqs,
                      request[r].state \in {"running", "preempted"},
                      \A i \in DOMAIN Line : r \notin Scheduled(Line[i]),
                      Step # NoStep => r \notin DOMAIN Step.req,
                      \A i \in DOMAIN outputs : r \notin DOMAIN outputs[i]
               PROVE  /\ request[r].out = sampled[r]
                      /\ request[r].placeholders = 0
                      /\ request[r].computed = IF request[r].state = "running" THEN cached[r] ELSE 0
    BY DEF OutputsComplete, Line, Step
  <2>1. LineType /\ RequestInv(r)
    BY DEF LineInv
  <2>2. /\ \A i \in {1, 2} : ~InBox(i, r) /\ ~InOut(i, r)
        /\ ~InStep(r)
    BY <2>1, Sizes DEF InBox, InOut, InStep, Scheduled
  <2>3. /\ Got2(r) = 0 /\ Owed(r) = 0 /\ Owed2(r) = 0 /\ Ahead(r) = 0
    BY <2>2 DEF Got2, GotOut, Owed, Owed2, OwedOut, OwedStep, OwedBox, Ahead, AheadStep, AheadBox
  <2>4. Base(r) = cached[r]
    BY <2>2 DEF Base, Afresh
  <2>5. request[r].out \in Nat /\ sampled[r] \in Nat /\ cached[r] \in Nat
    BY <2>1, Numbers
  <2>6. Live(r) /\ CountInv(r)
    BY <2>1 DEF Live, RequestInv
  <2>7. request[r].out = sampled[r] /\ request[r].placeholders = 0
    BY <2>3, <2>5, <2>6 DEF CountInv
  <2>8. request[r].computed = IF request[r].state = "running" THEN cached[r] ELSE 0
    BY <2>3, <2>4, <2>5, <2>6 DEF CountInv, Running
  <2> QED BY <2>7, <2>8
<1> QED BY <1>1, LineInvHolds, PTL
=============================================================================
