---------------------------- MODULE OpSelection ----------------------------
(***************************************************************************)
(* How the dispatch manager chooses among the implementations of one       *)
(* operator (dispatch/types.py, the selection half of policy.py and the    *)
(* pure part of manager.py).  An implementation is a member of Impls with  *)
(* the attributes of an OpImpl; a policy is a record with the fields of a  *)
(* SelectionPolicy, its per-operator order reduced to this operator's.     *)
(*                                                                         *)
(* resolve() and resolve_candidates() are two loops of the code.  Both are *)
(* translated here, and beside them stands what they should compute: the   *)
(* selectable implementations under one strict order.                      *)
(***************************************************************************)
EXTENDS Integers, FiniteSetsExt, SequencesExt

CONSTANTS Impls,        \* the implementations (OpImpl) of the operator
          Kind,         \* Kind[i] \in {"flagos", "vendor", "reference"}
          Vendor,       \* Vendor[i], the vendor's name, if Kind[i] = "vendor"
          Priority,     \* Priority[i], higher is preferred
          IdOrder,      \* IdOrder[i], the place of impl_id among the ids, sorted
          AnyVendor,    \* allow_vendors = None
          NoImpl        \* nothing selected

Kinds == {"flagos", "vendor", "reference"}

ASSUME ImplsAssumption ==
    /\ IsFiniteSet(Impls)
    /\ Kind \in [Impls -> Kinds]
    /\ Priority \in [Impls -> Int]
    /\ IdOrder \in [Impls -> Int]
    /\ \A i, j \in Impls : IdOrder[i] = IdOrder[j] => i = j
    /\ NoImpl \notin Impls

\* A token is [type, name]: a bare kind, "vendor:name" or "impl:id".
MatchToken(i, token) ==
    \/ token.type = "kind"   /\ Kind[i] = token.name
    \/ token.type = "vendor" /\ Kind[i] = "vendor" /\ Vendor[i] = token.name
    \/ token.type = "impl"   /\ i = token.name

KindToken(k) == [type |-> "kind", name |-> k]

DefaultOrder(policy) ==
    CASE policy.prefer = "reference" -> <<"reference", "flagos", "vendor">>
      [] policy.prefer = "vendor"    -> <<"vendor", "flagos", "reference">>
      [] policy.prefer = "flagos"    -> <<"flagos", "vendor", "reference">>

\* An empty per-operator order is falsy, so it means the default order too.
Order(policy) ==
    IF policy.order # <<>>
    THEN policy.order
    ELSE [k \in 1..3 |-> KindToken(DefaultOrder(policy)[k])]

MatchesVendorFilters(i, policy) ==
    Kind[i] = "vendor" =>
        /\ Vendor[i] \notin policy.deny
        /\ policy.allow # AnyVendor => Vendor[i] \in policy.allow

\* registered and available: the snapshot of the registry, and those of its
\* implementations whose is_available() holds.
ComputeCandidates(policy, registered, available) ==
    {i \in registered \cap available : MatchesVendorFilters(i, policy)}

----------------------------------------------------------------------------
\* The loops of the code.

\* The sort key (priority, impl_id), in descending order.
Higher(i, j) == \/ Priority[i] > Priority[j]
                \/ Priority[i] = Priority[j] /\ IdOrder[i] > IdOrder[j]

\* sorted(): each implementation at its rank.
Sorted(S) ==
    [k \in 1 .. Cardinality(S) |->
        CHOOSE i \in S : Cardinality({j \in S : Higher(j, i)}) = k - 1]

Matches(candidates, token) == {i \in candidates : MatchToken(i, token)}

\* Mutant: the matches are sorted in ascending order.
ResolveLowest(policy, candidates) ==
    LET order == Order(policy)
        hits  == {k \in DOMAIN order : Matches(candidates, order[k]) # {}}
        list  == Sorted(Matches(candidates, order[Min(hits)]))
    IN  IF hits = {} THEN NoImpl ELSE list[Len(list)]

\* _resolve_impl: the first token that any candidate matches decides.
ResolveImpl(policy, candidates) ==
    LET order == Order(policy)
        hits  == {k \in DOMAIN order : Matches(candidates, order[k]) # {}}
    IN  IF hits = {} THEN NoImpl
                     ELSE Sorted(Matches(candidates, order[Min(hits)]))[1]

\* Mutant: an implementation stays where it came last.
KeepLast(seq, i) == Append(SelectSeq(seq, LAMBDA j : j # i), i)

\* Each implementation once, where it came first.
KeepFirst(seq, i) == IF Contains(seq, i) THEN seq ELSE Append(seq, i)

\* resolve_candidates: the sorted matches of every token, without duplicates.
ResolveCandidates(policy, candidates) ==
    LET perToken == [k \in DOMAIN Order(policy) |->
                        Sorted(Matches(candidates, Order(policy)[k]))]
    IN  FoldLeft(KeepFirst, <<>>, FlattenSeq(perToken))

----------------------------------------------------------------------------
\* What they should compute.

Selectable(policy, candidates) ==
    {i \in candidates : \E k \in DOMAIN Order(policy) :
                            MatchToken(i, Order(policy)[k])}

\* The place of the first token of the order that implementation i matches.
Place(policy, i) == CHOOSE k \in DOMAIN Order(policy) :
                        /\ MatchToken(i, Order(policy)[k])
                        /\ \A l \in 1..(k - 1) : ~MatchToken(i, Order(policy)[l])

\* Implementation i is tried before implementation j.
Before(policy, i, j) ==
    \/ Place(policy, i) < Place(policy, j)
    \/ Place(policy, i) = Place(policy, j) /\ Higher(i, j)

\* What is tried before the rest of a set: one implementation, or none if the
\* set is empty.
Foremost(policy, S) == {i \in S : \A j \in S \ {i} : Before(policy, i, j)}
============================================================================
