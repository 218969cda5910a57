----------------------------- MODULE OpRegistry -----------------------------
(***************************************************************************)
(* The registry of one operator (dispatch/registry.py) under a policy that *)
(* changes: implementations are registered one by one or many at a time,   *)
(* come and go with the hardware, and the registry can be cleared.  The    *)
(* manager of OpDispatch uses it with every implementation available.      *)
(***************************************************************************)
EXTENDS OpSelection

CONSTANT RegistryPolicies   \* the policies a process goes through

ASSUME PoliciesAssumption ==
    \A p \in RegistryPolicies : Len(p.order) \in Nat /\ DOMAIN p.order = 1 .. Len(p.order)

VARIABLES implsByOp,    \* OpRegistry._impls_by_op[op], as a set
          available,    \* whose is_available() holds now
          activePolicy  \* what get_policy() returns

registryVars == <<implsByOp, available, activePolicy>>

RegistryTypeOK == /\ implsByOp \subseteq Impls
                  /\ available \subseteq Impls
                  /\ activePolicy \in RegistryPolicies

RegistryInit == /\ implsByOp = {}
                /\ available = Impls
                /\ activePolicy \in RegistryPolicies

\* register_impl refuses an impl_id it already has (ValueError).
Register(i) ==
    /\ i \notin implsByOp
    /\ implsByOp' = implsByOp \cup {i}
    /\ UNCHANGED <<available, activePolicy>>

\* register_many stops at the first duplicate: what stands before it stays.
RegisterMany(impls) ==
    LET fresh == {n \in 0..Len(impls) :
                    \A k \in 1..n : /\ impls[k] \notin implsByOp
                                    /\ \A l \in 1..(k - 1) : impls[l] # impls[k]}
    IN  /\ implsByOp' = implsByOp \cup {impls[k] : k \in 1..Max(fresh)}
        /\ UNCHANGED <<available, activePolicy>>

Clear == /\ implsByOp' = {}
         /\ UNCHANGED <<available, activePolicy>>

AvailabilityChanges(i) ==
    /\ available' = IF i \in available THEN available \ {i} ELSE available \cup {i}
    /\ UNCHANGED <<implsByOp, activePolicy>>

ChangePolicy(p) == /\ activePolicy' = p
                   /\ UNCHANGED <<implsByOp, available>>

RegistryNext == \/ \E i \in Impls : Register(i) \/ AvailabilityChanges(i)
                \/ \E i, j \in Impls : RegisterMany(<<i, j>>)
                \/ Clear
                \/ \E p \in RegistryPolicies : ChangePolicy(p)

RegistrySpec == RegistryInit /\ [][RegistryNext]_registryVars

----------------------------------------------------------------------------
RegistryCandidates == ComputeCandidates(activePolicy, implsByOp, available)

\* The list a call falls back along holds every selectable implementation
\* once, in the order Before and its Foremost first: the loop over tokens, the
\* two sorts and the removal of duplicates lose and repeat nothing
\* (resolve_candidates).
CandidatesRanked ==
    LET list == ResolveCandidates(activePolicy, RegistryCandidates)
    IN  /\ ToSet(list) = Selectable(activePolicy, RegistryCandidates)
        /\ \A k, l \in DOMAIN list : k < l => Before(activePolicy, list[k], list[l])
        /\ Foremost(activePolicy, ToSet(list)) = {list[k] : k \in DOMAIN list \cap {1}}

\* resolve() and resolve_candidates() are written twice but agree: strict
\* mode and fallback mode run the same primary implementation, and one finds
\* nothing exactly when the other does.
PrimaryAgrees ==
    LET list == ResolveCandidates(activePolicy, RegistryCandidates)
    IN  ResolveImpl(activePolicy, RegistryCandidates) = IF list = <<>> THEN NoImpl ELSE list[1]

============================================================================
