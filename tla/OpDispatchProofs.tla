-------------------------- MODULE OpDispatchProofs --------------------------
(***************************************************************************)
(* Proofs about the operator manager for any implementations and policies: *)
(* OpDispatch with any number of threads, any set of faults and any bound  *)
(* on the epochs, and the registry that it selects from, whose loops       *)
(* compute the order that OpDispatch selects by.                           *)
(***************************************************************************)
EXTENDS OpDispatch, OpRegistry, FiniteSetTheorems, SequenceTheorems, NaturalsInduction, TLAPS

(* What a call can choose from is registered.                              *)
LEMMA CandidatesRegistered ==
    ASSUME NEW p PROVE Candidates(p) \subseteq registered
BY DEF Candidates, Selectable, ComputeCandidates

(* The foremost of a set is taken from it.                                 *)
LEMMA ForemostSubset ==
    ASSUME NEW p, NEW S PROVE Foremost(p, S) \subseteq S
BY DEF Foremost

LEMMA IdleType == Idle \in Call
<1>1. (CHOOSE p \in Policies : TRUE) \in Policies
  BY DispatchAssumption
<1> QED BY <1>1 DEF Idle, Call, PCs

(* A step of thread t changes its own call only.                           *)
LEMMA SetCall ==
    ASSUME TypeOK, NEW t \in Threads, NEW c \in Call, Set(t, c)
    PROVE  /\ calls' \in [Threads -> Call]
           /\ calls'[t] = c
           /\ \A u \in Threads \ {t} : calls'[u] = calls[u]
BY DEF TypeOK, Set

(* A call that ends, in either way, leaves a well-formed record.           *)
LEMMA RaisedType ==
    ASSUME TypeOK, NEW t \in Threads
    PROVE  [Idle EXCEPT !.strict = calls[t].strict, !.chosen = calls[t].chosen,
                        !.error = TRUE] \in Call
BY IdleType DEF TypeOK, Call

(* A call may go on to another step.                                       *)
LEMMA GotoType ==
    ASSUME TypeOK, NEW t \in Threads, NEW pc \in PCs
    PROVE  [calls[t] EXCEPT !.pc = pc] \in Call
BY DEF TypeOK, Call

(* Storing what a call has chosen keeps a cache well formed, and every     *)
(* entry is an old one or the new one.                                     *)
LEMMA PutType ==
    ASSUME NEW cache \in SUBSET Entries, NEW p \in Policies, NEW e \in Nat,
           NEW chosen \in SUBSET Impls
    PROVE  Put(cache, p, e, chosen) \in SUBSET Entries
BY DEF Put, Hits, Entries

LEMMA InitType == Init => TypeOK
<1> SUFFICES ASSUME Init PROVE TypeOK
  OBVIOUS
<1>1. calls \in [Threads -> Call]
  BY IdleType DEF Init
<1>2. failures \in [Impls -> Nat]
  BY DEF Init
<1>3. dirty \in BOOLEAN
  BY DEF Init
<1> QED BY <1>1, <1>2, <1>3 DEF Init, TypeOK

----------------------------------------------------------------------------
(* Type correctness, one lemma per group of actions.                       *)

LEMMA ReadingType ==
    ASSUME TypeOK, NEW t \in Threads,
           StartCall(t) \/ EnsureInitialized(t) \/ GetPolicy(t) \/ ReadEpoch(t)
    PROVE  TypeOK'
<1>1. CASE StartCall(t)
  <2>1. [Idle EXCEPT !.pc = "init", !.strict = policy.strict] \in Call
    BY IdleType, DispatchAssumption DEF TypeOK, Call, PCs
  <2>2. calls' \in [Threads -> Call]
    BY <1>1, <2>1, SetCall DEF StartCall
  <2> QED BY <1>1, <2>2 DEF StartCall, TypeOK, StateUnchanged, ManagerUnchanged,
                            CachesUnchanged, OthersUnchanged
<1>2. CASE EnsureInitialized(t)
  <2>1. \A pc \in {"policy", "register"} : [calls[t] EXCEPT !.pc = pc] \in Call
    BY GotoType DEF PCs
  <2>2. calls' \in [Threads -> Call]
    BY <1>2, <2>1, SetCall DEF EnsureInitialized, Goto
  <2>3. initIn' \in {"none", "parent", "child"} /\ lock' \in Threads \cup {NoThread}
    BY <1>2 DEF EnsureInitialized, TypeOK
  <2> QED BY <1>2, <2>2, <2>3 DEF EnsureInitialized, TypeOK, CachesUnchanged,
                                  OthersUnchanged
<1>3. CASE GetPolicy(t)
  <2>1. [calls[t] EXCEPT !.pc = "epoch", !.policy = policy] \in Call
    BY DEF TypeOK, Call, PCs
  <2>2. calls' \in [Threads -> Call]
    BY <1>3, <2>1, SetCall DEF GetPolicy
  <2> QED BY <1>3, <2>2 DEF GetPolicy, TypeOK, StateUnchanged, ManagerUnchanged,
                            CachesUnchanged, OthersUnchanged
<1>4. CASE ReadEpoch(t)
  <2>1. [calls[t] EXCEPT !.pc = "lookup", !.epoch = epoch] \in Call
    BY DEF TypeOK, Call, PCs
  <2>2. calls' \in [Threads -> Call]
    BY <1>4, <2>1, SetCall DEF ReadEpoch
  <2> QED BY <1>4, <2>2 DEF ReadEpoch, TypeOK, StateUnchanged, ManagerUnchanged,
                            CachesUnchanged, OthersUnchanged
<1> QED BY <1>1, <1>2, <1>3, <1>4

LEMMA RegisteringType ==
    ASSUME TypeOK, NEW t \in Threads, RegisterBuiltins(t) \/ RegistrationRaises(t)
    PROVE  TypeOK'
<1>1. CASE RegisterBuiltins(t)
  <2>1. [calls[t] EXCEPT !.pc = "policy"] \in Call
    BY GotoType DEF PCs
  <2>2. calls' \in [Threads -> Call]
    BY <1>1, <2>1, SetCall DEF RegisterBuiltins, Goto
  <2>3. registered' \subseteq Impls
    BY <1>1, DispatchAssumption DEF RegisterBuiltins, TypeOK
  <2>4. epoch' \in Nat
    BY <1>1 DEF RegisterBuiltins, TypeOK
  <2>5. dirty' \in BOOLEAN
    BY <1>1 DEF RegisterBuiltins
  <2> QED BY <1>1, <2>2, <2>3, <2>4, <2>5 DEF RegisterBuiltins, TypeOK, ClearCaches
<1>2. CASE RegistrationRaises(t)
  <2>1. calls' \in [Threads -> Call]
    BY <1>2, RaisedType, SetCall DEF RegistrationRaises, Raise
  <2>2. registered' \subseteq Impls
    BY <1>2, DispatchAssumption DEF RegistrationRaises, TypeOK
  <2> QED BY <1>2, <2>1, <2>2 DEF RegistrationRaises, TypeOK, CachesUnchanged
<1> QED BY <1>1, <1>2

(* What a lookup finds or computes is a set of implementations.            *)
LEMMA ChoosingType ==
    ASSUME TypeOK, NEW t \in Threads, CacheHit(t) \/ CacheMiss(t)
    PROVE  TypeOK'
<1> DEFINE found(pc, S) == [calls[t] EXCEPT !.pc = pc, !.chosen = S, !.left = S]
<1>1. \A pc \in PCs, S \in SUBSET Impls : found(pc, S) \in Call
  BY DEF TypeOK, Call
<1>2. CASE CacheHit(t)
  <2>1. PICK c \in dispatchCache \cup candidatesCache :
            Set(t, found(Selected(t), c.chosen))
    BY <1>2 DEF CacheHit, Hits
  <2>2. c.chosen \in SUBSET Impls /\ Selected(t) \in PCs
    BY DEF TypeOK, Entries, Selected, PCs
  <2>3. found(Selected(t), c.chosen) \in Call
    BY <1>1, <2>2
  <2>4. calls' \in [Threads -> Call]
    BY <2>1, <2>3, SetCall
  <2> QED BY <1>2, <2>4 DEF CacheHit, TypeOK, StateUnchanged, ManagerUnchanged,
                            CachesUnchanged, OthersUnchanged
<1>3. CASE CacheMiss(t)
  <2> DEFINE p == calls[t].policy
  <2>1. Candidates(p) \subseteq Impls /\ Primary(p) \subseteq Impls
    BY CandidatesRegistered, ForemostSubset DEF Primary, TypeOK
  <2>2. PICK S \in SUBSET Impls : Raise(t) \/ Set(t, found("store", S))
    BY <1>3, <2>1 DEF CacheMiss
  <2>3. found("store", S) \in Call
    BY <1>1, <2>2 DEF PCs
  <2>4. calls' \in [Threads -> Call]
    BY <2>2, <2>3, RaisedType, SetCall DEF Raise
  <2> QED BY <1>3, <2>4 DEF CacheMiss, TypeOK, StateUnchanged, ManagerUnchanged,
                            CachesUnchanged, OthersUnchanged
<1> QED BY <1>2, <1>3

LEMMA StoringType ==
    ASSUME TypeOK, NEW t \in Threads, Store(t)
    PROVE  TypeOK'
<1>1. Selected(t) \in PCs
  BY DEF Selected, PCs
<1>2. calls' \in [Threads -> Call]
  BY <1>1, GotoType, SetCall DEF Store, Goto
<1>3. /\ calls[t].policy \in Policies /\ calls[t].epoch \in Nat
      /\ calls[t].chosen \in SUBSET Impls
  BY DEF TypeOK, Call
<1>4. dispatchCache' \subseteq Entries /\ candidatesCache' \subseteq Entries
  BY <1>3, PutType DEF Store, TypeOK
<1> QED BY <1>2, <1>4 DEF Store, TypeOK, ManagerUnchanged, OthersUnchanged

LEMMA RunningType ==
    ASSUME TypeOK, NEW t \in Threads,
           Filter(t) \/ RunReturns(t) \/ RunRaises(t) \/ MarkFailed(t)
    PROVE  TypeOK'
<1> DEFINE again(S) == [calls[t] EXCEPT !.pc = "run", !.left = S]
<1>1. /\ calls[t].chosen \subseteq Impls /\ calls[t].left \subseteq Impls
      /\ Turn(t) \subseteq calls[t].left
  BY ForemostSubset DEF TypeOK, Call, Turn
<1>2. \A S \in SUBSET Impls : again(S) \in Call
  BY DEF TypeOK, Call, PCs
<1>3. CASE Filter(t)
  <2>1. again(calls[t].chosen \ failed) \in Call
    BY <1>1, <1>2
  <2>2. calls' \in [Threads -> Call]
    BY <1>3, <2>1, RaisedType, SetCall DEF Filter, Raise
  <2> QED BY <1>3, <2>2 DEF Filter, TypeOK, StateUnchanged, ManagerUnchanged,
                            CachesUnchanged, OthersUnchanged
<1>4. CASE RunReturns(t)
  <2>1. calls' \in [Threads -> Call]
    BY <1>4, IdleType, SetCall DEF RunReturns, Return
  <2> QED BY <1>4, <2>1 DEF RunReturns, TypeOK, StateUnchanged, ManagerUnchanged,
                            CachesUnchanged, OthersUnchanged
<1>5. CASE RunRaises(t)
  <2>1. [calls[t] EXCEPT !.pc = "mark"] \in Call
    BY GotoType DEF PCs
  <2>2. calls' \in [Threads -> Call]
    BY <1>5, <2>1, RaisedType, SetCall DEF RunRaises, Raise, Goto
  <2>3. failures' \in [Impls -> Nat]
    BY <1>5 DEF RunRaises, TypeOK
  <2> QED BY <1>5, <2>2, <2>3 DEF RunRaises, TypeOK, ManagerUnchanged, CachesUnchanged
<1>6. CASE MarkFailed(t)
  <2>1. again(calls[t].left \ Turn(t)) \in Call
    BY <1>1, <1>2
  <2>2. calls' \in [Threads -> Call]
    BY <1>6, <2>1, RaisedType, SetCall DEF MarkFailed, Raise
  <2>3. failed' \subseteq Impls
    BY <1>1, <1>6 DEF MarkFailed, TypeOK
  <2> QED BY <1>6, <2>2, <2>3 DEF MarkFailed, TypeOK, ManagerUnchanged, CachesUnchanged
<1> QED BY <1>3, <1>4, <1>5, <1>6

LEMMA ForgottenType ==
    ASSUME ForgetFailures PROVE failed' \subseteq Impls /\ failures' \in [Impls -> Nat]
BY DEF ForgetFailures

LEMMA ApplicationType ==
    ASSUME TypeOK, Application PROVE TypeOK'
<1>1. ASSUME NEW p \in Policies, SetGlobalPolicy(p) PROVE TypeOK'
  BY <1>1 DEF SetGlobalPolicy, TypeOK, ManagerUnchanged, CachesUnchanged
<1>2. ASSUME NEW i \in Impls, RegisterImpl(i) PROVE TypeOK'
  <2>1. registered' \subseteq Impls
    BY <1>2 DEF RegisterImpl, TypeOK
  <2>2. dirty' \in BOOLEAN
    BY <1>2 DEF RegisterImpl
  <2> QED BY <1>2, <2>1, <2>2 DEF RegisterImpl, TypeOK, ManagerUnchanged, CachesUnchanged
<1>3. CASE BumpPolicyEpoch
  <2>1. epoch' \in Nat
    BY <1>3 DEF BumpPolicyEpoch, TypeOK
  <2>2. failed' \subseteq Impls /\ failures' \in [Impls -> Nat]
    BY <1>3, ForgottenType DEF BumpPolicyEpoch
  <2>3. dirty' \in BOOLEAN
    BY <1>3 DEF BumpPolicyEpoch
  <2> QED BY <1>3, <2>1, <2>2, <2>3 DEF BumpPolicyEpoch, TypeOK, ClearCaches
<1>4. CASE ClearFailedImpls
  <2>1. failed' \subseteq Impls /\ failures' \in [Impls -> Nat]
    BY <1>4, ForgottenType DEF ClearFailedImpls
  <2> QED BY <1>4, <2>1 DEF ClearFailedImpls, TypeOK, ManagerUnchanged, CachesUnchanged
<1> QED BY <1>1, <1>2, <1>3, <1>4 DEF Application

LEMMA ForkingType ==
    ASSUME TypeOK, NEW t \in Threads, Fork(t) \/ ResetAfterFork(t)
    PROVE  TypeOK'
<1>1. CASE Fork(t)
  <2>1. \A pc \in {"atfork", "gone"} : [Idle EXCEPT !.pc = pc] \in Call
    BY IdleType DEF Call, PCs
  <2>2. calls' \in [Threads -> Call]
    BY <1>1, <2>1 DEF Fork
  <2> QED BY <1>1, <2>2 DEF Fork, TypeOK, CachesUnchanged, OthersUnchanged
<1>2. CASE ResetAfterFork(t)
  <2>1. calls' \in [Threads -> Call]
    BY <1>2, IdleType, SetCall DEF ResetAfterFork, Return
  <2>2. epoch' \in Nat
    BY <1>2 DEF ResetAfterFork, TypeOK
  <2>3. failed' \subseteq Impls /\ failures' \in [Impls -> Nat]
    BY <1>2, ForgottenType DEF ResetAfterFork
  <2> QED BY <1>2, <2>1, <2>2, <2>3 DEF ResetAfterFork, TypeOK, ClearCaches
<1> QED BY <1>1, <1>2

(* Every step keeps the types.                                             *)
LEMMA StepType ==
    ASSUME TypeOK, [Next]_vars PROVE TypeOK'
<1>1. CASE UNCHANGED vars
  BY <1>1 DEF vars, TypeOK
<1>2. CASE Application
  BY <1>2, ApplicationType
<1>3. ASSUME NEW t \in Threads, StartCall(t) \/ Step(t) \/ Fork(t) PROVE TypeOK'
  BY <1>3, ReadingType, RegisteringType, ChoosingType, StoringType, RunningType,
     ForkingType DEF Step, Resolve
<1> QED BY <1>1, <1>2, <1>3 DEF Next

(* The step of a thread changes no other call.                             *)
LEMMA OwnCall ==
    ASSUME TypeOK, NEW t \in Threads, StartCall(t) \/ Step(t)
    PROVE  /\ calls'[t] \in Call
           /\ \A u \in Threads \ {t} : calls'[u] = calls[u]
<1>1. calls'[t] \in Call
  BY StepType DEF Next, TypeOK
<1>2. PICK c : Set(t, c)
  <2>1. CASE StartCall(t) \/ GetPolicy(t) \/ ReadEpoch(t)
    BY <2>1 DEF StartCall, GetPolicy, ReadEpoch
  <2>2. CASE \/ EnsureInitialized(t) \/ RegisterBuiltins(t)
             \/ RegistrationRaises(t) \/ Store(t)
    BY <2>2 DEF EnsureInitialized, RegisterBuiltins, RegistrationRaises, Store,
                Goto, Raise
  <2>3. CASE CacheHit(t) \/ CacheMiss(t)
    BY <2>3 DEF CacheHit, CacheMiss, Raise
  <2>4. CASE \/ Filter(t) \/ RunReturns(t) \/ RunRaises(t) \/ MarkFailed(t)
             \/ ResetAfterFork(t)
    BY <2>4 DEF Filter, RunReturns, RunRaises, MarkFailed, ResetAfterFork, Goto,
                Raise, Return
  <2> QED BY <2>1, <2>2, <2>3, <2>4 DEF Step, Resolve
<1> QED BY <1>1, <1>2 DEF Set, TypeOK

(* The variables of the manager and the calls keep their types: epochs     *)
(* stay natural numbers, and caches, calls and the failed set hold only    *)
(* implementations that exist.                                             *)
THEOREM TypeCorrect == Spec => []TypeOK
BY InitType, StepType, PTL DEF Spec

----------------------------------------------------------------------------
(* PolicyRespected holds because the caches only ever hold what a call was *)
(* permitted to choose, and because the registry only grows.               *)

CachesPermitted == \A c \in dispatchCache \cup candidatesCache :
                        c.chosen \subseteq Candidates(c.policy)

SelectionInv == TypeOK /\ CachesPermitted /\ PolicyRespected

(* A larger registry never takes a candidate away.                         *)
LEMMA MoreToChooseFrom ==
    ASSUME NEW p, NEW R, NEW S, R \subseteq S
    PROVE  Selectable(p, ComputeCandidates(p, R, Impls))
                \subseteq Selectable(p, ComputeCandidates(p, S, Impls))
BY DEF Selectable, ComputeCandidates

LEMMA RegistryGrows ==
    ASSUME [Next]_vars PROVE registered \subseteq registered'
<1>1. ASSUME NEW t \in Threads, Step(t) PROVE registered \subseteq registered'
  BY <1>1 DEF Step, Resolve, EnsureInitialized, RegisterBuiltins,
     RegistrationRaises, GetPolicy, ReadEpoch, CacheHit, CacheMiss, Store, Filter,
     RunReturns, RunRaises, MarkFailed, ResetAfterFork, StateUnchanged,
     OthersUnchanged
<1>2. ASSUME NEW t \in Threads, StartCall(t) \/ Fork(t)
      PROVE  registered \subseteq registered'
  BY <1>2 DEF StartCall, Fork, StateUnchanged, OthersUnchanged
<1>3. CASE Application
  BY <1>3 DEF Application, SetGlobalPolicy, RegisterImpl, BumpPolicyEpoch,
     ClearFailedImpls
<1> QED BY <1>1, <1>2, <1>3 DEF Next, vars

(* Only Store puts anything into a cache.                                  *)
LEMMA OnlyStoreAdds ==
    ASSUME [Next]_vars, \A t \in Threads : ~Store(t)
    PROVE  /\ dispatchCache' \subseteq dispatchCache
           /\ candidatesCache' \subseteq candidatesCache
<1>1. ASSUME NEW t \in Threads, StartCall(t) \/ Fork(t) \/ Step(t)
      PROVE  /\ dispatchCache' \subseteq dispatchCache
             /\ candidatesCache' \subseteq candidatesCache
  BY <1>1 DEF StartCall, Fork, Step, Resolve, EnsureInitialized,
     RegisterBuiltins, RegistrationRaises, GetPolicy, ReadEpoch, CacheHit,
     CacheMiss, Filter, RunReturns, RunRaises, MarkFailed, ResetAfterFork,
     StateUnchanged, CachesUnchanged, ClearCaches
<1>2. ASSUME Application \/ UNCHANGED vars
      PROVE  /\ dispatchCache' \subseteq dispatchCache
             /\ candidatesCache' \subseteq candidatesCache
  BY <1>2 DEF Application, SetGlobalPolicy, RegisterImpl, BumpPolicyEpoch,
     ClearFailedImpls, CachesUnchanged, ClearCaches, vars
<1> QED BY <1>1, <1>2 DEF Next

(* A thread's step respects the policy if the call it leaves behind does.  *)
LEMMA OneCallRespects ==
    ASSUME SelectionInv, registered \subseteq registered',
           NEW t \in Threads, NEW c \in Call, Set(t, c),
           c.pc \in Chosen => /\ c.left \subseteq c.chosen
                             /\ c.chosen \subseteq Candidates(c.policy)
    PROVE  PolicyRespected'
<1>1. /\ calls'[t] = c
      /\ \A u \in Threads \ {t} : calls'[u] = calls[u]
  BY SetCall DEF SelectionInv
<1> SUFFICES ASSUME NEW u \in Threads, calls'[u].pc \in Chosen
             PROVE  /\ calls'[u].left \subseteq calls'[u].chosen
                    /\ calls'[u].chosen \subseteq
                         Selectable(calls'[u].policy, ComputeCandidates(
                                        calls'[u].policy, registered', Impls))
  BY DEF PolicyRespected, Candidates, Chosen
<1>2. /\ calls'[u].left \subseteq calls'[u].chosen
      /\ calls'[u].chosen \subseteq
           Selectable(calls'[u].policy, ComputeCandidates(
                          calls'[u].policy, registered, Impls))
  BY <1>1 DEF SelectionInv, PolicyRespected, Candidates
<1> QED BY <1>2, MoreToChooseFrom

(* Entries that were permitted stay so.                                    *)
LEMMA OldEntriesPermitted ==
    ASSUME SelectionInv, registered \subseteq registered',
           dispatchCache' \cup candidatesCache'
                \subseteq dispatchCache \cup candidatesCache
    PROVE  CachesPermitted'
<1> SUFFICES ASSUME NEW c \in dispatchCache' \cup candidatesCache'
             PROVE  c.chosen \subseteq Selectable(c.policy,
                        ComputeCandidates(c.policy, registered', Impls))
  BY DEF CachesPermitted, Candidates
<1>1. c.chosen \subseteq Selectable(c.policy,
                        ComputeCandidates(c.policy, registered, Impls))
  BY DEF SelectionInv, CachesPermitted, Candidates
<1> QED BY <1>1, MoreToChooseFrom

(* A lookup, whether it hits or misses, leaves the call with a choice its  *)
(* policy permits.                                                         *)
LEMMA ChoosingRespects ==
    ASSUME SelectionInv, NEW t \in Threads, CacheHit(t) \/ CacheMiss(t)
    PROVE  PolicyRespected'
<1> DEFINE p == calls[t].policy
           found(pc, S) == [calls[t] EXCEPT !.pc = pc, !.chosen = S, !.left = S]
<1>1. \A pc \in PCs, S \in SUBSET Impls :
          /\ found(pc, S) \in Call
          /\ found(pc, S).chosen = S /\ found(pc, S).left = S
          /\ found(pc, S).policy = p
  BY DEF SelectionInv, TypeOK, Call
<1>2. registered \subseteq registered'
  BY DEF CacheHit, CacheMiss, StateUnchanged, OthersUnchanged
<1>3. CASE CacheHit(t)
  <2>1. PICK c \in dispatchCache \cup candidatesCache :
            c.policy = p /\ Set(t, found(Selected(t), c.chosen))
    BY <1>3 DEF CacheHit, Hits, Key
  <2>2. c.chosen \in SUBSET Impls /\ Selected(t) \in PCs
    BY DEF SelectionInv, TypeOK, Entries, Selected, PCs
  <2>3. c.chosen \subseteq Candidates(p)
    BY <2>1 DEF SelectionInv, CachesPermitted
  <2> QED BY <1>1, <1>2, <2>1, <2>2, <2>3, OneCallRespects
<1>4. CASE CacheMiss(t)
  <2>1. Candidates(p) \subseteq Impls /\ Primary(p) \subseteq Candidates(p)
    BY CandidatesRegistered, ForemostSubset DEF Primary, SelectionInv, TypeOK
  <2>2. CASE Raise(t)
    <3> DEFINE c == [Idle EXCEPT !.strict = calls[t].strict,
                                 !.chosen = calls[t].chosen, !.error = TRUE]
    <3>1. c \in Call /\ c.pc \notin Chosen
      BY RaisedType DEF SelectionInv, Idle, Chosen
    <3>2. Set(t, c)
      BY <2>2 DEF Raise
    <3> QED BY <1>2, <3>1, <3>2, OneCallRespects
  <2>3. ASSUME NEW S \in SUBSET Candidates(p), Set(t, found("store", S))
        PROVE  PolicyRespected'
    <3>1. "store" \in PCs /\ S \in SUBSET Impls
      BY <2>1 DEF PCs
    <3> QED BY <1>1, <1>2, <2>3, <3>1, OneCallRespects
  <2> QED BY <1>4, <2>1, <2>2, <2>3 DEF CacheMiss
<1> QED BY <1>3, <1>4

(* What a call stores is what it was permitted to choose.                  *)
LEMMA StoringRespects ==
    ASSUME SelectionInv, NEW t \in Threads, Store(t)
    PROVE  CachesPermitted' /\ PolicyRespected'
<1> DEFINE c == [calls[t] EXCEPT !.pc = Selected(t)]
<1>1. /\ calls[t].left \subseteq calls[t].chosen
      /\ calls[t].chosen \subseteq Candidates(calls[t].policy)
  BY DEF Store, At, SelectionInv, PolicyRespected, Chosen
<1>2. registered' = registered
  BY DEF Store, OthersUnchanged
<1>3. PolicyRespected'
  <2>1. c \in Call /\ Set(t, c)
    BY GotoType DEF SelectionInv, Store, Goto, Selected, PCs
  <2>2. /\ c.left = calls[t].left /\ c.chosen = calls[t].chosen
        /\ c.policy = calls[t].policy
    BY DEF SelectionInv, TypeOK, Call
  <2> HIDE DEF c
  <2> QED BY <1>1, <1>2, <2>1, <2>2, OneCallRespects
<1>4. \A e \in dispatchCache' \cup candidatesCache' :
          \/ e \in dispatchCache \cup candidatesCache
          \/ e = [policy |-> calls[t].policy, epoch |-> calls[t].epoch,
                  chosen |-> calls[t].chosen]
  BY DEF Store, Put
<1>5. \A e \in dispatchCache' \cup candidatesCache' :
          e.chosen \subseteq Candidates(e.policy)
  BY <1>1, <1>4 DEF SelectionInv, CachesPermitted
<1>6. CachesPermitted'
  BY <1>2, <1>5 DEF CachesPermitted, Candidates
<1> QED BY <1>3, <1>6

(* The steps of a call in fallback mode only leave candidates out.         *)
LEMMA RunningRespects ==
    ASSUME SelectionInv, NEW t \in Threads,
           Filter(t) \/ RunRaises(t) \/ MarkFailed(t)
    PROVE  PolicyRespected'
<1> DEFINE again(S) == [calls[t] EXCEPT !.pc = "run", !.left = S]
           marking  == [calls[t] EXCEPT !.pc = "mark"]
           raised   == [Idle EXCEPT !.strict = calls[t].strict,
                                    !.chosen = calls[t].chosen, !.error = TRUE]
<1>1. /\ calls[t].left \subseteq calls[t].chosen
      /\ calls[t].chosen \subseteq Candidates(calls[t].policy)
      /\ calls[t].chosen \subseteq Impls
  BY DEF Filter, RunRaises, MarkFailed, At, SelectionInv, PolicyRespected, Chosen,
         TypeOK, Call
<1>2. registered \subseteq registered'
  BY DEF Filter, RunRaises, MarkFailed, StateUnchanged, OthersUnchanged
<1>3. CASE Raise(t)
  <2>1. raised \in Call /\ raised.pc \notin Chosen /\ Set(t, raised)
    BY <1>3, RaisedType DEF SelectionInv, Raise, Idle, Chosen
  <2> HIDE DEF raised
  <2> QED BY <1>2, <2>1, OneCallRespects
<1>4. CASE Goto(t, "mark")
  <2>1. marking \in Call /\ Set(t, marking)
    BY <1>4, GotoType DEF SelectionInv, Goto, PCs
  <2>2. /\ marking.left = calls[t].left /\ marking.chosen = calls[t].chosen
        /\ marking.policy = calls[t].policy
    BY DEF SelectionInv, TypeOK, Call
  <2> HIDE DEF marking
  <2> QED BY <1>1, <1>2, <2>1, <2>2, OneCallRespects
<1>5. ASSUME NEW S \in SUBSET calls[t].chosen, Set(t, again(S))
      PROVE  PolicyRespected'
  <2>1. /\ again(S) \in Call
        /\ again(S).left = S /\ again(S).chosen = calls[t].chosen
        /\ again(S).policy = calls[t].policy
    BY <1>1 DEF SelectionInv, TypeOK, Call, PCs
  <2> HIDE DEF again
  <2> QED BY <1>1, <1>2, <1>5, <2>1, OneCallRespects
<1> QED BY <1>1, <1>3, <1>4, <1>5 DEF Filter, RunRaises, MarkFailed

(* Every other step of a thread leaves its call where nothing is chosen.   *)
LEMMA UnchosenRespects ==
    ASSUME SelectionInv, registered \subseteq registered', NEW t \in Threads,
           \/ StartCall(t) \/ EnsureInitialized(t) \/ RegisterBuiltins(t)
           \/ RegistrationRaises(t) \/ GetPolicy(t) \/ ReadEpoch(t)
           \/ RunReturns(t) \/ ResetAfterFork(t)
    PROVE  PolicyRespected'
<1>1. calls' \in [Threads -> Call]
  BY ReadingType, RegisteringType, RunningType, ForkingType DEF SelectionInv, TypeOK
<1>2. PICK c : Set(t, c) /\ c.pc \notin Chosen
  <2> DEFINE moved(pc)  == [calls[t] EXCEPT !.pc = pc]
             withPolicy == [calls[t] EXCEPT !.pc = "epoch", !.policy = policy]
             withEpoch  == [calls[t] EXCEPT !.pc = "lookup", !.epoch = epoch]
             started    == [Idle EXCEPT !.pc = "init", !.strict = policy.strict]
             raised     == [Idle EXCEPT !.strict = calls[t].strict,
                                        !.chosen = calls[t].chosen, !.error = TRUE]
  <2>0. /\ \A pc \in {"policy", "register"} : moved(pc).pc \notin Chosen
        /\ withPolicy.pc \notin Chosen /\ withEpoch.pc \notin Chosen
        /\ started.pc \notin Chosen /\ raised.pc \notin Chosen
    BY DEF Chosen, SelectionInv, TypeOK, Call, Idle
  <2>1. CASE StartCall(t)
    <3>1. Set(t, started)
      BY <2>1 DEF StartCall
    <3> HIDE DEF started
    <3> QED BY <2>0, <3>1
  <2>2. CASE EnsureInitialized(t)
    <3>1. Set(t, moved("policy")) \/ Set(t, moved("register"))
      BY <2>2 DEF EnsureInitialized, Goto
    <3> HIDE DEF moved
    <3> QED BY <2>0, <3>1
  <2>3. CASE RegisterBuiltins(t)
    <3>1. Set(t, moved("policy"))
      BY <2>3 DEF RegisterBuiltins, Goto
    <3> HIDE DEF moved
    <3> QED BY <2>0, <3>1
  <2>4. CASE RegistrationRaises(t)
    <3>1. Set(t, raised)
      BY <2>4 DEF RegistrationRaises, Raise
    <3> HIDE DEF raised
    <3> QED BY <2>0, <3>1
  <2>5. CASE GetPolicy(t)
    <3>1. Set(t, withPolicy)
      BY <2>5 DEF GetPolicy
    <3> HIDE DEF withPolicy
    <3> QED BY <2>0, <3>1
  <2>6. CASE ReadEpoch(t)
    <3>1. Set(t, withEpoch)
      BY <2>6 DEF ReadEpoch
    <3> HIDE DEF withEpoch
    <3> QED BY <2>0, <3>1
  <2>7. CASE RunReturns(t) \/ ResetAfterFork(t)
    BY <2>7 DEF RunReturns, ResetAfterFork, Return, Idle, Chosen
  <2> QED BY <2>1, <2>2, <2>3, <2>4, <2>5, <2>6, <2>7
<1>3. c \in Call
  BY <1>1, <1>2 DEF Set, SelectionInv, TypeOK
<1> QED BY <1>2, <1>3, OneCallRespects

LEMMA SelectionInit == Init => SelectionInv
<1> SUFFICES ASSUME Init PROVE CachesPermitted /\ PolicyRespected
  BY InitType DEF SelectionInv
<1>1. CachesPermitted
  BY DEF Init, CachesPermitted
<1>2. PolicyRespected
  BY DEF Init, PolicyRespected, Idle, Chosen
<1> QED BY <1>1, <1>2

LEMMA SelectionStep ==
    ASSUME SelectionInv, [Next]_vars PROVE SelectionInv'
<1>1. TypeOK' /\ registered \subseteq registered'
  BY StepType, RegistryGrows DEF SelectionInv
<1>2. CachesPermitted'
  <2>1. ASSUME NEW t \in Threads, Store(t) PROVE CachesPermitted'
    BY <2>1, StoringRespects
  <2> QED BY <1>1, <2>1, OnlyStoreAdds, OldEntriesPermitted
<1>3. PolicyRespected'
  <2>1. ASSUME NEW t \in Threads, StartCall(t) \/ Step(t) PROVE PolicyRespected'
    BY <1>1, <2>1, ChoosingRespects, StoringRespects, RunningRespects,
       UnchosenRespects DEF Step, Resolve
  <2>2. ASSUME NEW t \in Threads, Fork(t) PROVE PolicyRespected'
    BY <2>2 DEF Fork, PolicyRespected, Idle, Chosen
  <2>3. CASE Application \/ UNCHANGED vars
    <3>1. calls' = calls
      BY <2>3 DEF Application, SetGlobalPolicy, RegisterImpl, BumpPolicyEpoch,
         ClearFailedImpls, vars
    <3> QED BY <1>1, <3>1, MoreToChooseFrom DEF SelectionInv, PolicyRespected,
               Candidates
  <2> QED BY <2>1, <2>2, <2>3 DEF Next
<1> QED BY <1>1, <1>2, <1>3 DEF SelectionInv

(* What a call is about to run is registered, allowed by the vendor        *)
(* filters and named in the order of the policy the call has read, however *)
(* many threads share the caches and whatever changes under them.          *)
THEOREM PolicyAlwaysRespected == Spec => []PolicyRespected
<1>1. SelectionInv => PolicyRespected
  BY DEF SelectionInv
<1> QED BY <1>1, SelectionInit, SelectionStep, PTL DEF Spec

----------------------------------------------------------------------------
(* NeverGivesUp holds because a call in fallback mode gives up a candidate *)
(* only when it has failed, in this call or in another.                    *)

Hopeful(c) ==
    /\ c.pc = "mark" => ~c.strict /\ Foremost(c.policy, c.left) \subseteq Faulty
    /\ ~c.strict =>
        /\ c.pc \in {"init", "register", "policy", "epoch", "lookup"} => c.chosen = {}
        /\ c.pc \in {"run", "mark"} => c.chosen \ c.left \subseteq Faulty
        /\ c.error => c.pc = "idle" /\ c.chosen \subseteq Faulty

HopeInv == TypeOK /\ failed \subseteq Faulty /\ \A t \in Threads : Hopeful(calls[t])

(* The record of a call that has raised, from a record that gives up only  *)
(* what may fail.                                                          *)
LEMMA RaisedHopeful ==
    ASSUME HopeInv, NEW t \in Threads, Raise(t),
           ~calls[t].strict => calls[t].chosen \subseteq Faulty
    PROVE  Hopeful(calls'[t])
<1> DEFINE raised == [Idle EXCEPT !.strict = calls[t].strict,
                                  !.chosen = calls[t].chosen, !.error = TRUE]
<1>1. calls'[t] = raised
  BY RaisedType, SetCall DEF HopeInv, Raise
<1>2. /\ raised.pc = "idle" /\ raised.strict = calls[t].strict
      /\ raised.chosen = calls[t].chosen
  BY DEF Idle
<1> HIDE DEF raised
<1> QED BY <1>1, <1>2 DEF Hopeful

(* Only what runs next may raise, so nothing sound is ever given up.       *)
LEMMA StepHopeful ==
    ASSUME HopeInv, NEW t \in Threads, StartCall(t) \/ Step(t)
    PROVE  Hopeful(calls'[t])
<1>0. /\ calls[t] \in Call /\ Hopeful(calls[t])
      /\ Idle \in Call /\ Hopeful(Idle)
  BY IdleType DEF HopeInv, TypeOK, Hopeful, Idle
<1>1. ASSUME NEW c \in Call, Set(t, c) PROVE calls'[t] = c
  BY <1>1, SetCall DEF HopeInv
<1>2. CASE StartCall(t)
  <2> DEFINE c == [Idle EXCEPT !.pc = "init", !.strict = policy.strict]
  <2>1. c \in Call
    BY <1>0, DispatchAssumption DEF HopeInv, TypeOK, Call, PCs
  <2>2. calls'[t] = c
    BY <1>1, <1>2, <2>1 DEF StartCall
  <2> QED BY <2>2 DEF Hopeful, Idle
<1>3. CASE EnsureInitialized(t)
  <2> DEFINE c(pc) == [calls[t] EXCEPT !.pc = pc]
  <2>1. \A pc \in {"policy", "register"} :
            c(pc) \in Call /\ (Hopeful(calls[t]) /\ At(t, "init") => Hopeful(c(pc)))
    BY <1>0 DEF Call, PCs, Hopeful, At
  <2>2. calls'[t] = c("policy") \/ calls'[t] = c("register")
    BY <1>1, <1>3, <2>1 DEF EnsureInitialized, Goto
  <2> QED BY <1>0, <1>3, <2>1, <2>2 DEF EnsureInitialized
<1>4. CASE RegisterBuiltins(t) \/ RegistrationRaises(t)
  <2> DEFINE c == [calls[t] EXCEPT !.pc = "policy"]
  <2>1. c \in Call /\ (Hopeful(calls[t]) /\ At(t, "register") => Hopeful(c))
    BY <1>0 DEF Call, PCs, Hopeful, At
  <2>2. CASE RegisterBuiltins(t)
    BY <1>0, <1>1, <2>1, <2>2 DEF RegisterBuiltins, Goto
  <2>3. CASE RegistrationRaises(t)
    BY <1>0, <2>3, RaisedHopeful DEF RegistrationRaises, At, Hopeful
  <2> QED BY <1>4, <2>2, <2>3
<1>5. CASE GetPolicy(t)
  <2> DEFINE c == [calls[t] EXCEPT !.pc = "epoch", !.policy = policy]
  <2>1. c \in Call /\ (Hopeful(calls[t]) /\ At(t, "policy") => Hopeful(c))
    BY <1>0 DEF HopeInv, TypeOK, Call, PCs, Hopeful, At
  <2> QED BY <1>0, <1>1, <1>5, <2>1 DEF GetPolicy
<1>6. CASE ReadEpoch(t)
  <2> DEFINE c == [calls[t] EXCEPT !.pc = "lookup", !.epoch = epoch]
  <2>1. c \in Call /\ (Hopeful(calls[t]) /\ At(t, "epoch") => Hopeful(c))
    BY <1>0 DEF HopeInv, TypeOK, Call, PCs, Hopeful, At
  <2> QED BY <1>0, <1>1, <1>6, <2>1 DEF ReadEpoch
<1>7. CASE CacheHit(t) \/ CacheMiss(t)
  <2> DEFINE c(pc, S) == [calls[t] EXCEPT !.pc = pc, !.chosen = S, !.left = S]
  <2>1. \A S \in SUBSET Impls :
            /\ c("store", S) \in Call /\ c(Selected(t), S) \in Call
            /\ Hopeful(calls[t]) /\ At(t, "lookup") =>
                 Hopeful(c("store", S)) /\ Hopeful(c(Selected(t), S))
    BY <1>0 DEF Call, PCs, Hopeful, Selected, At
  <2>2. CASE CacheHit(t)
    <3>1. PICK e \in dispatchCache \cup candidatesCache :
              Set(t, c(Selected(t), e.chosen))
      BY <2>2 DEF CacheHit, Hits
    <3>2. e.chosen \in SUBSET Impls
      BY DEF HopeInv, TypeOK, Entries
    <3>3. calls'[t] = c(Selected(t), e.chosen)
      BY <1>1, <2>1, <3>1, <3>2
    <3> HIDE DEF c
    <3> QED BY <1>0, <2>1, <2>2, <3>2, <3>3 DEF CacheHit
  <2>3. CASE CacheMiss(t)
    <3>1. /\ Candidates(calls[t].policy) \subseteq Impls
          /\ Primary(calls[t].policy) \subseteq Impls
      BY CandidatesRegistered, ForemostSubset DEF Primary, HopeInv, TypeOK
    <3>2. PICK S \in SUBSET Impls : Raise(t) \/ Set(t, c("store", S))
      BY <2>3, <3>1 DEF CacheMiss
    <3>3. CASE Raise(t)
      BY <1>0, <2>3, <3>3, RaisedHopeful DEF CacheMiss, At, Hopeful
    <3>4. CASE Set(t, c("store", S))
      <4>1. calls'[t] = c("store", S)
        BY <1>1, <2>1, <3>4
      <4> HIDE DEF c
      <4> QED BY <1>0, <2>1, <2>3, <4>1 DEF CacheMiss
    <3> QED BY <3>2, <3>3, <3>4
  <2> QED BY <1>7, <2>2, <2>3
<1>8. CASE Store(t)
  <2> DEFINE c == [calls[t] EXCEPT !.pc = Selected(t)]
  <2>1. c \in Call /\ (Hopeful(calls[t]) /\ At(t, "store") => Hopeful(c))
    BY <1>0 DEF Call, PCs, Hopeful, Selected, At
  <2> QED BY <1>0, <1>1, <1>8, <2>1 DEF Store, Goto
<1>9. CASE Filter(t)
  <2> DEFINE left == calls[t].chosen \ failed
             c    == [calls[t] EXCEPT !.pc = "run", !.left = left]
  <2>1. c \in Call /\ (Hopeful(calls[t]) /\ At(t, "filter") => Hopeful(c))
    BY <1>0 DEF Call, PCs, Hopeful, At, HopeInv
  <2>2. CASE left = {} /\ Raise(t)
    BY <2>2, RaisedHopeful DEF HopeInv
  <2>3. CASE Set(t, c)
    BY <1>0, <1>1, <1>9, <2>1, <2>3 DEF Filter
  <2> QED BY <1>9, <2>2, <2>3 DEF Filter
<1>10. CASE RunReturns(t) \/ ResetAfterFork(t)
  BY <1>0, <1>1, <1>10 DEF RunReturns, ResetAfterFork, Return
<1>11. CASE RunRaises(t)
  <2> DEFINE c == [calls[t] EXCEPT !.pc = "mark"]
  <2>1. c \in Call /\ (Hopeful(calls[t]) /\ At(t, "run")
                          /\ ~calls[t].strict /\ Turn(t) \subseteq Faulty
                          => Hopeful(c))
    BY <1>0 DEF Call, PCs, Hopeful, At, Turn
  <2>2. CASE calls[t].strict /\ Raise(t)
    BY <2>2, RaisedHopeful
  <2>3. CASE ~calls[t].strict /\ Goto(t, "mark")
    BY <1>0, <1>1, <1>11, <2>1, <2>3 DEF RunRaises, Goto
  <2> QED BY <1>11, <2>2, <2>3 DEF RunRaises
<1>12. CASE MarkFailed(t)
  <2> DEFINE left == calls[t].left \ Turn(t)
             c    == [calls[t] EXCEPT !.pc = "run", !.left = left]
  <2>1. ~calls[t].strict => /\ calls[t].chosen \ left \subseteq Faulty
                            /\ ~calls[t].error
    BY <1>0, <1>12 DEF MarkFailed, At, Hopeful, Turn
  <2>2. c \in Call /\ Hopeful(c)
    BY <1>0, <2>1 DEF Call, PCs, Hopeful
  <2>3. CASE left = {} /\ Raise(t)
    BY <2>1, <2>3, RaisedHopeful
  <2>4. CASE Set(t, c)
    BY <1>1, <2>2, <2>4
  <2> QED BY <1>12, <2>3, <2>4 DEF MarkFailed
<1> QED BY <1>2, <1>3, <1>4, <1>5, <1>6, <1>7, <1>8, <1>9, <1>10, <1>11, <1>12
        DEF Step, Resolve

(* Nothing is marked as failed that cannot fail.                           *)
LEMMA FailedStep ==
    ASSUME HopeInv, [Next]_vars
    PROVE  failed' \subseteq Faulty
<1>1. ASSUME NEW t \in Threads, MarkFailed(t) PROVE failed' \subseteq Faulty
  BY <1>1 DEF HopeInv, MarkFailed, Hopeful, Turn, At
<1>2. ASSUME NEW t \in Threads, StartCall(t) \/ Fork(t) \/ Step(t), ~MarkFailed(t)
      PROVE  failed' \subseteq failed
  BY <1>2 DEF StartCall, Fork, Step, Resolve, EnsureInitialized,
     RegisterBuiltins, RegistrationRaises, GetPolicy, ReadEpoch, CacheHit,
     CacheMiss, Store, Filter, RunReturns, RunRaises, ResetAfterFork,
     StateUnchanged, OthersUnchanged, ForgetFailures
<1>3. ASSUME Application \/ UNCHANGED vars PROVE failed' \subseteq failed
  BY <1>3 DEF Application, SetGlobalPolicy, RegisterImpl, BumpPolicyEpoch,
     ClearFailedImpls, ForgetFailures, vars
<1> QED BY <1>1, <1>2, <1>3 DEF Next, HopeInv

LEMMA HopeInit == Init => HopeInv
<1> SUFFICES ASSUME Init PROVE failed \subseteq Faulty /\ \A t \in Threads : Hopeful(calls[t])
  BY InitType DEF HopeInv
<1> QED BY DEF Init, Hopeful, Idle

LEMMA HopeStep ==
    ASSUME HopeInv, [Next]_vars PROVE HopeInv'
<1>1. TypeOK' /\ failed' \subseteq Faulty
  BY StepType, FailedStep DEF HopeInv
<1>2. ASSUME NEW u \in Threads PROVE Hopeful(calls'[u])
  <2>1. ASSUME NEW t \in Threads, StartCall(t) \/ Step(t) PROVE Hopeful(calls'[u])
    <3>1. CASE u = t
      BY <2>1, <3>1, StepHopeful
    <3>2. CASE u # t
      <4>1. calls'[u] = calls[u]
        BY <2>1, <3>2, OwnCall DEF HopeInv
      <4> QED BY <4>1 DEF HopeInv
    <3> QED BY <3>1, <3>2
  <2>2. ASSUME NEW t \in Threads, Fork(t) PROVE Hopeful(calls'[u])
    BY <2>2 DEF Fork, Hopeful, Idle
  <2>3. CASE Application \/ UNCHANGED vars
    <3>1. calls' = calls
      BY <2>3 DEF Application, SetGlobalPolicy, RegisterImpl, BumpPolicyEpoch,
         ClearFailedImpls, vars
    <3> QED BY <3>1 DEF HopeInv
  <2> QED BY <2>1, <2>2, <2>3 DEF Next
<1>3. (\A t \in Threads : Hopeful(calls[t]))'
  BY <1>2
<1> QED BY <1>1, <1>3 DEF HopeInv

(* A call in fallback mode that ends with an error had only candidates     *)
(* that may fail: no other thread's failures, and no clearing of them,     *)
(* makes it give up one that never fails.                                  *)
THEOREM NeverGivesUpSound == Spec => []NeverGivesUp
<1>1. HopeInv => NeverGivesUp
  BY DEF HopeInv, Hopeful, NeverGivesUp
<1> QED BY <1>1, HopeInit, HopeStep, PTL DEF Spec

----------------------------------------------------------------------------
(* CachesExact holds because whatever changes the registry either bumps    *)
(* the epoch, or is dirty, or happens before any call has stored anything. *)

Early == {"idle", "init", "register", "gone"}

NotReady == \/ \E t \in Threads : At(t, "register")
            \/ initIn # process /\ \A t \in Threads : ~At(t, "atfork")

(* The lock of a thread that registers is its own, a forking thread is     *)
(* alone, and before the registration is over nobody is past it.           *)
ReadyInv ==
    /\ \A t \in Threads : At(t, "register") => lock = t /\ initIn = process
    /\ \A t \in Threads : At(t, "atfork") =>
            \A u \in Threads \ {t} : At(u, "gone")
    /\ NotReady => /\ dispatchCache = {} /\ candidatesCache = {}
                   /\ \A t \in Threads : calls[t].pc \in Early

EpochsPast == /\ \A c \in dispatchCache \cup candidatesCache : c.epoch <= epoch
              /\ \A t \in Threads : calls[t].epoch <= epoch

StoresExact ==
    ~dirty => \A t \in Threads :
        At(t, "store") /\ calls[t].epoch = epoch =>
            calls[t].chosen = IF calls[t].strict THEN Primary(calls[t].policy)
                                                 ELSE Candidates(calls[t].policy)

ExactInv == TypeOK /\ ReadyInv /\ EpochsPast /\ StoresExact /\ CachesExact

(* Where the step of a thread leads its call, and which epoch it knows.    *)
LEMMA Moves ==
    ASSUME TypeOK, NEW t \in Threads, StartCall(t) \/ Step(t)
    PROVE  /\ calls'[t].epoch \in {0, calls[t].epoch, epoch}
           /\ calls'[t].pc \notin {"atfork", "gone"}
           /\ calls'[t].pc = "register" => EnsureInitialized(t) /\ initIn # process
           /\ calls'[t].pc = "store" => CacheMiss(t)
           /\ \/ calls'[t].pc \in Early
              \/ EnsureInitialized(t) /\ initIn = process
              \/ RegisterBuiltins(t)
              \/ calls[t].pc \notin Early \cup {"atfork"}
<1> DEFINE goto(pc)     == [calls[t] EXCEPT !.pc = pc]
           found(pc, S) == [calls[t] EXCEPT !.pc = pc, !.chosen = S, !.left = S]
           again(S)     == [calls[t] EXCEPT !.pc = "run", !.left = S]
           raised       == [Idle EXCEPT !.strict = calls[t].strict,
                                        !.chosen = calls[t].chosen, !.error = TRUE]
           started      == [Idle EXCEPT !.pc = "init", !.strict = policy.strict]
           withPolicy   == [calls[t] EXCEPT !.pc = "epoch", !.policy = policy]
           withEpoch    == [calls[t] EXCEPT !.pc = "lookup", !.epoch = epoch]
           To(c, pc)    == c.pc = pc /\ c.epoch \in {0, calls[t].epoch, epoch}
<1>1. \A pc \in PCs, S \in SUBSET Impls :
          /\ To(goto(pc), pc)
          /\ To(found(pc, S), pc)
          /\ To(again(S), "run")
  BY DEF TypeOK, Call
<1>2. /\ To(raised, "idle") /\ To(started, "init") /\ To(Idle, "idle")
      /\ To(withPolicy, "epoch") /\ To(withEpoch, "lookup")
  BY DEF TypeOK, Call, Idle
<1>3. ASSUME NEW c, Set(t, c) PROVE calls'[t] = c
  BY <1>3 DEF Set, TypeOK
<1> HIDE DEF goto, found, again, raised, started, withPolicy, withEpoch
<1>4. CASE StartCall(t)
  <2>1. calls'[t] = started
    BY <1>3, <1>4 DEF StartCall, started
  <2> QED BY <1>2, <2>1 DEF Early
<1>5. CASE EnsureInitialized(t)
  <2>1. \/ initIn = process /\ calls'[t] = goto("policy")
        \/ initIn # process /\ calls'[t] = goto("register")
    BY <1>3, <1>5 DEF EnsureInitialized, Goto, goto
  <2>2. "policy" \in PCs /\ "register" \in PCs
    BY DEF PCs
  <2> QED BY <1>1, <1>5, <2>1, <2>2 DEF Early
<1>6. CASE RegisterBuiltins(t)
  <2>1. calls'[t] = goto("policy") /\ "policy" \in PCs
    BY <1>3, <1>6 DEF RegisterBuiltins, Goto, goto, PCs
  <2> QED BY <1>1, <1>6, <2>1
<1>7. CASE Raise(t)
  <2>1. calls'[t] = raised
    BY <1>3, <1>7 DEF Raise, raised
  <2> QED BY <1>2, <2>1 DEF Early
<1>8. CASE GetPolicy(t)
  <2>1. calls'[t] = withPolicy /\ calls[t].pc = "policy"
    BY <1>3, <1>8 DEF GetPolicy, At, withPolicy
  <2> QED BY <1>2, <2>1 DEF Early
<1>9. CASE ReadEpoch(t)
  <2>1. calls'[t] = withEpoch /\ calls[t].pc = "epoch"
    BY <1>3, <1>9 DEF ReadEpoch, At, withEpoch
  <2> QED BY <1>2, <2>1 DEF Early
<1>10. CASE CacheHit(t)
  <2>1. PICK c \in dispatchCache \cup candidatesCache :
            calls'[t] = found(Selected(t), c.chosen)
    BY <1>3, <1>10 DEF CacheHit, Hits, found
  <2>2. c.chosen \in SUBSET Impls /\ Selected(t) \in {"run", "filter"}
        /\ {"run", "filter"} \subseteq PCs /\ calls[t].pc = "lookup"
    BY <1>10 DEF TypeOK, Entries, Selected, PCs, CacheHit, At
  <2> QED BY <1>1, <2>1, <2>2 DEF Early
<1>11. CASE CacheMiss(t) /\ ~Raise(t)
  <2>1. /\ Candidates(calls[t].policy) \subseteq Impls
        /\ Primary(calls[t].policy) \subseteq Impls
    BY CandidatesRegistered, ForemostSubset DEF Primary, TypeOK
  <2>2. PICK S \in SUBSET Impls : calls'[t] = found("store", S)
    BY <1>3, <1>11, <2>1 DEF CacheMiss, found
  <2>3. "store" \in PCs /\ calls[t].pc = "lookup"
    BY <1>11 DEF PCs, CacheMiss, At
  <2> QED BY <1>1, <1>11, <2>2, <2>3 DEF Early
<1>12. CASE Store(t)
  <2>1. calls'[t] = goto(Selected(t)) /\ calls[t].pc = "store"
    BY <1>3, <1>12 DEF Store, Goto, goto, At
  <2>2. Selected(t) \in {"run", "filter"} /\ {"run", "filter"} \subseteq PCs
    BY DEF Selected, PCs
  <2> QED BY <1>1, <2>1, <2>2 DEF Early
<1>13. CASE (Filter(t) \/ MarkFailed(t)) /\ ~Raise(t)
  <2>1. calls[t].chosen \subseteq Impls /\ calls[t].left \subseteq Impls
    BY DEF TypeOK, Call
  <2>2. PICK S \in SUBSET Impls : calls'[t] = again(S)
    BY <1>3, <1>13, <2>1 DEF Filter, MarkFailed, again
  <2>3. calls[t].pc \in {"filter", "mark"} /\ "run" \in PCs
    BY <1>13 DEF Filter, MarkFailed, At, PCs
  <2> QED BY <1>1, <2>2, <2>3 DEF Early
<1>14. CASE RunRaises(t) /\ ~Raise(t)
  <2>1. calls'[t] = goto("mark") /\ calls[t].pc = "run" /\ "mark" \in PCs
    BY <1>3, <1>14 DEF RunRaises, Goto, goto, At, PCs
  <2> QED BY <1>1, <2>1 DEF Early
<1>15. CASE RunReturns(t) \/ ResetAfterFork(t)
  <2>1. calls'[t] = Idle
    BY <1>3, <1>15 DEF RunReturns, ResetAfterFork, Return
  <2> QED BY <1>2, <2>1 DEF Early
<1>16. RegistrationRaises(t) => Raise(t)
  BY DEF RegistrationRaises
<1> QED BY <1>4, <1>5, <1>6, <1>7, <1>8, <1>9, <1>10, <1>11, <1>12, <1>13, <1>14,
           <1>15, <1>16 DEF Step, Resolve

(* The epoch never goes back, so no key is ahead of it.                    *)
LEMMA EpochGrows ==
    ASSUME TypeOK, [Next]_vars PROVE epoch <= epoch'
<1>1. ASSUME NEW t \in Threads, StartCall(t) \/ Fork(t) \/ Step(t)
      PROVE  epoch' \in {epoch, epoch + 1}
  BY <1>1 DEF StartCall, Fork, Step, Resolve, EnsureInitialized,
     RegisterBuiltins, RegistrationRaises, GetPolicy, ReadEpoch, CacheHit,
     CacheMiss, Store, Filter, RunReturns, RunRaises, MarkFailed,
     ResetAfterFork, StateUnchanged, ManagerUnchanged
<1>2. ASSUME Application \/ UNCHANGED vars PROVE epoch' \in {epoch, epoch + 1}
  BY <1>2 DEF Application, SetGlobalPolicy, RegisterImpl, BumpPolicyEpoch,
     ClearFailedImpls, ManagerUnchanged, vars
<1>3. epoch' \in {epoch, epoch + 1}
  BY <1>1, <1>2 DEF Next
<1> QED BY <1>3 DEF TypeOK

LEMMA EpochsStep ==
    ASSUME ExactInv, [Next]_vars PROVE EpochsPast'
<1>1. epoch' \in Nat /\ epoch \in Nat /\ epoch <= epoch'
  BY EpochGrows, StepType DEF ExactInv, TypeOK
<1>2. ASSUME NEW u \in Threads PROVE calls'[u].epoch <= epoch'
  <2>1. calls[u].epoch <= epoch /\ calls[u].epoch \in Nat
    BY DEF ExactInv, EpochsPast, TypeOK, Call
  <2>2. ASSUME NEW t \in Threads, StartCall(t) \/ Step(t)
        PROVE  calls'[u].epoch \in {0, calls[u].epoch, epoch}
    BY <2>2, Moves, OwnCall DEF ExactInv
  <2>3. ASSUME NEW t \in Threads, Fork(t) PROVE calls'[u].epoch = 0
    BY <2>3 DEF Fork, Idle
  <2>4. ASSUME Application \/ UNCHANGED vars PROVE calls' = calls
    BY <2>4 DEF Application, SetGlobalPolicy, RegisterImpl, BumpPolicyEpoch,
       ClearFailedImpls, vars
  <2>5. calls'[u].epoch \in {0, calls[u].epoch, epoch}
    BY <2>2, <2>3, <2>4 DEF Next
  <2> QED BY <1>1, <2>1, <2>5
<1>3. ASSUME NEW c \in dispatchCache' \cup candidatesCache' PROVE c.epoch <= epoch'
  <2>1. \A e \in dispatchCache \cup candidatesCache : e.epoch <= epoch /\ e.epoch \in Nat
    BY DEF ExactInv, EpochsPast, TypeOK, Entries
  <2>2. CASE c \in dispatchCache \cup candidatesCache
    BY <1>1, <2>1, <2>2
  <2>3. ASSUME NEW t \in Threads, Store(t),
               c \notin dispatchCache \cup candidatesCache
        PROVE  c.epoch <= epoch'
    <3>1. c.epoch = calls[t].epoch
      BY <2>3 DEF Store, Put
    <3>2. calls[t].epoch <= epoch /\ calls[t].epoch \in Nat
      BY DEF ExactInv, EpochsPast, TypeOK, Call
    <3> QED BY <1>1, <3>1, <3>2
  <2> QED BY <2>2, <2>3, OnlyStoreAdds
<1> QED BY <1>1, <1>2, <1>3 DEF EpochsPast

(* One step of a thread keeps what ReadyInv says of locks, forks and early *)
(* calls.                                                                  *)
LEMMA ReadyThreadStep ==
    ASSUME ExactInv, NEW t \in Threads, StartCall(t) \/ Step(t)
    PROVE  ReadyInv'
<1>1. /\ calls'[t].pc \notin {"atfork", "gone"}
      /\ calls'[t].pc = "register" => EnsureInitialized(t) /\ initIn # process
      /\ \/ calls'[t].pc \in Early
         \/ EnsureInitialized(t) /\ initIn = process
         \/ RegisterBuiltins(t)
         \/ calls[t].pc \notin Early \cup {"atfork"}
  BY Moves DEF ExactInv
<1>2. \A u \in Threads \ {t} : calls'[u] = calls[u]
  BY OwnCall DEF ExactInv
<1>3. process' = process /\ calls[t].pc # "gone"
  BY DEF StartCall, Step, Resolve, EnsureInitialized, RegisterBuiltins,
     RegistrationRaises, GetPolicy, ReadEpoch, CacheHit, CacheMiss, Store, Filter,
     RunReturns, RunRaises, MarkFailed, ResetAfterFork, StateUnchanged,
     ManagerUnchanged, At
<1>4. lock' = lock \/ EnsureInitialized(t) \/ At(t, "register")
  BY DEF StartCall, Step, Resolve, EnsureInitialized, RegisterBuiltins,
     RegistrationRaises, GetPolicy, ReadEpoch, CacheHit, CacheMiss, Store, Filter,
     RunReturns, RunRaises, MarkFailed, ResetAfterFork, StateUnchanged,
     ManagerUnchanged
<1>5. initIn' = initIn \/ EnsureInitialized(t) \/ ResetAfterFork(t)
  BY DEF StartCall, Step, Resolve, EnsureInitialized, RegisterBuiltins,
     RegistrationRaises, GetPolicy, ReadEpoch, CacheHit, CacheMiss, Store, Filter,
     RunReturns, RunRaises, MarkFailed, ResetAfterFork, StateUnchanged,
     ManagerUnchanged
<1>6. ASSUME NEW u \in Threads, calls'[u].pc = "register"
      PROVE  lock' = u /\ initIn' = process'
  <2>1. CASE u = t
    BY <1>1, <1>3, <1>6, <2>1 DEF EnsureInitialized, ExactInv, TypeOK, At, Goto, Set,
       Call
  <2>2. CASE u # t
    <3>1. At(u, "register") /\ lock = u /\ initIn = process
      BY <1>2, <1>6, <2>2 DEF ExactInv, ReadyInv, At
    <3>2. ~EnsureInitialized(t) /\ ~At(t, "register") /\ ~ResetAfterFork(t)
      BY <2>2, <3>1, DispatchAssumption DEF EnsureInitialized, ResetAfterFork,
         ExactInv, ReadyInv
    <3> QED BY <1>3, <1>4, <1>5, <3>1, <3>2
  <2> QED BY <2>1, <2>2
<1>7. ASSUME NEW u \in Threads, calls'[u].pc = "atfork", NEW v \in Threads \ {u}
      PROVE  calls'[v].pc = "gone"
  BY <1>1, <1>2, <1>3, <1>7 DEF ExactInv, ReadyInv, At
<1>8. ASSUME NotReady, ~EnsureInitialized(t) \/ initIn # process, ~RegisterBuiltins(t)
      PROVE  /\ dispatchCache' = {} /\ candidatesCache' = {}
             /\ \A u \in Threads : calls'[u].pc \in Early
  <2>1. /\ dispatchCache = {} /\ candidatesCache = {}
        /\ \A u \in Threads : calls[u].pc \in Early
    BY <1>8 DEF ExactInv, ReadyInv
  <2>2. \A u \in Threads : ~Store(u)
    BY <2>1 DEF Store, At, Early
  <2>3. dispatchCache' = {} /\ candidatesCache' = {}
    BY <2>1, <2>2, OnlyStoreAdds DEF Next
  <2> QED BY <1>1, <1>2, <1>8, <2>1, <2>3
<1>9. ASSUME NEW u \in Threads, calls'[u].pc = "register"
      PROVE  NotReady /\ (~EnsureInitialized(t) \/ initIn # process) /\ ~RegisterBuiltins(t)
  <2>1. CASE u = t
    <3>1. EnsureInitialized(t) /\ initIn # process /\ At(t, "init")
      BY <1>1, <1>9, <2>1 DEF EnsureInitialized
    <3>2. \A v \in Threads : ~At(v, "atfork")
      BY <3>1 DEF ExactInv, ReadyInv, At
    <3> QED BY <3>1, <3>2 DEF NotReady, RegisterBuiltins, At
  <2>2. CASE u # t
    <3>1. At(u, "register") /\ lock = u
      BY <1>2, <1>9, <2>2 DEF ExactInv, ReadyInv, At
    <3>2. ~EnsureInitialized(t) /\ ~RegisterBuiltins(t)
      BY <2>2, <3>1, DispatchAssumption DEF EnsureInitialized, RegisterBuiltins,
         ExactInv, ReadyInv
    <3> QED BY <3>1, <3>2 DEF NotReady
  <2> QED BY <2>1, <2>2
<1>10. ASSUME initIn' # process', \A u \in Threads : calls'[u].pc # "atfork",
              ~ResetAfterFork(t)
       PROVE  NotReady /\ (~EnsureInitialized(t) \/ initIn # process) /\ ~RegisterBuiltins(t)
  <2>1. ~EnsureInitialized(t)
    BY <1>3, <1>10 DEF EnsureInitialized
  <2>2. initIn # process
    BY <1>3, <1>5, <1>10, <2>1
  <2>3. ~At(t, "atfork")
    BY <1>10 DEF StartCall, Step, Resolve, EnsureInitialized, RegisterBuiltins,
       RegistrationRaises, GetPolicy, ReadEpoch, CacheHit, CacheMiss, Store, Filter,
       RunReturns, RunRaises, MarkFailed, At
  <2>4. \A u \in Threads : ~At(u, "atfork")
    BY <1>2, <1>10, <2>3 DEF At
  <2> QED BY <2>1, <2>2, <2>4 DEF NotReady, RegisterBuiltins, ExactInv, ReadyInv
<1>11. CASE ResetAfterFork(t)
  <2>1. dispatchCache' = {} /\ candidatesCache' = {}
    BY <1>11 DEF ResetAfterFork, ClearCaches
  <2>2. \A u \in Threads : calls'[u].pc \in Early
    <3>1. \A u \in Threads \ {t} : calls'[u].pc = "gone"
      BY <1>2, <1>11 DEF ResetAfterFork, ExactInv, ReadyInv, At
    <3>2. calls'[t].pc = "idle"
      BY <1>11 DEF ResetAfterFork, Return, Set, Idle, ExactInv, TypeOK
    <3> QED BY <3>1, <3>2 DEF Early
  <2> QED BY <1>6, <1>7, <2>1, <2>2 DEF ReadyInv, NotReady, At
<1>12. CASE ~ResetAfterFork(t)
  <2>1. NotReady' => /\ dispatchCache' = {} /\ candidatesCache' = {}
                     /\ \A u \in Threads : calls'[u].pc \in Early
    BY <1>8, <1>9, <1>10, <1>12 DEF NotReady, At
  <2> QED BY <1>6, <1>7, <2>1 DEF ReadyInv, At
<1> QED BY <1>11, <1>12

LEMMA ReadyStep ==
    ASSUME ExactInv, [Next]_vars PROVE ReadyInv'
<1>1. ASSUME NEW t \in Threads, StartCall(t) \/ Step(t) PROVE ReadyInv'
  BY <1>1, ReadyThreadStep
<1>2. ASSUME NEW t \in Threads, Fork(t) PROVE ReadyInv'
  <2>1. calls'[t].pc = "atfork" /\ \A u \in Threads \ {t} : calls'[u].pc = "gone"
    BY <1>2 DEF Fork, Idle
  <2>2. ~NotReady'
    BY <2>1 DEF NotReady, At
  <2> QED BY <2>1, <2>2 DEF ReadyInv, At
<1>3. CASE Application \/ UNCHANGED vars
  <2>1. calls' = calls /\ lock' = lock /\ initIn' = initIn /\ process' = process
    BY <1>3 DEF Application, SetGlobalPolicy, RegisterImpl, BumpPolicyEpoch,
       ClearFailedImpls, ManagerUnchanged, vars
  <2>2. dispatchCache' \cup candidatesCache' \subseteq dispatchCache \cup candidatesCache
    BY <1>3 DEF Application, SetGlobalPolicy, RegisterImpl, BumpPolicyEpoch,
       ClearFailedImpls, CachesUnchanged, ManagerUnchanged, ClearCaches, vars
  <2> QED BY <2>1, <2>2 DEF ExactInv, ReadyInv, NotReady, At
<1> QED BY <1>1, <1>2, <1>3 DEF Next

(* While builtins are being registered nothing is stored anywhere.         *)
LEMMA RegistrationExact ==
    ASSUME ExactInv, NEW t \in Threads, RegisterBuiltins(t) \/ RegistrationRaises(t)
    PROVE  StoresExact' /\ CachesExact'
<1>1. /\ dispatchCache = {} /\ candidatesCache = {}
      /\ \A u \in Threads : calls[u].pc \in Early
  BY DEF RegisterBuiltins, RegistrationRaises, ExactInv, ReadyInv, NotReady
<1>2. dispatchCache' = {} /\ candidatesCache' = {}
  BY <1>1 DEF RegisterBuiltins, RegistrationRaises, ClearCaches, CachesUnchanged
<1>3. \A u \in Threads : calls'[u].pc # "store"
  <2>1. \A u \in Threads \ {t} : calls'[u] = calls[u]
    BY OwnCall DEF ExactInv, Step, Resolve
  <2>2. calls'[t].pc = "store" => CacheMiss(t)
    BY Moves DEF ExactInv, Step, Resolve
  <2>3. ~CacheMiss(t)
    BY DEF RegisterBuiltins, RegistrationRaises, CacheMiss, At
  <2> QED BY <1>1, <2>1, <2>2, <2>3 DEF Early
<1> QED BY <1>2, <1>3 DEF StoresExact, CachesExact, At

(* With a new epoch every key in use becomes an old one.                   *)
LEMMA NewEpochExact ==
    ASSUME ExactInv, NEW t \in Threads, BumpPolicyEpoch \/ ResetAfterFork(t)
    PROVE  StoresExact' /\ CachesExact'
<1>1. dispatchCache' = {} /\ candidatesCache' = {} /\ epoch' = epoch + 1
  BY DEF BumpPolicyEpoch, ResetAfterFork, ClearCaches
<1>2. \A u \in Threads : calls'[u] = calls[u] \/ calls'[u] = Idle
  BY DEF BumpPolicyEpoch, ResetAfterFork, Return, Set, ExactInv, TypeOK
<1>3. \A u \in Threads : calls[u].epoch <= epoch /\ calls[u].epoch \in Nat /\ epoch \in Nat
  BY DEF ExactInv, EpochsPast, TypeOK, Call
<1>4. \A u \in Threads : calls'[u].pc = "store" => calls'[u].epoch # epoch'
  <2>1. ASSUME NEW u \in Threads, calls'[u] = calls[u] PROVE calls'[u].epoch # epoch'
    <3>1. calls'[u].epoch = calls[u].epoch
      BY <2>1
    <3> QED BY <1>1, <1>3, <3>1
  <2>2. Idle.pc # "store"
    BY DEF Idle
  <2> QED BY <1>2, <2>1, <2>2
<1> QED BY <1>1, <1>4 DEF StoresExact, CachesExact, At

(* A call that misses chooses exactly what the registry offers.            *)
LEMMA MissExact ==
    ASSUME ExactInv, NEW t \in Threads, CacheMiss(t), calls'[t].pc = "store"
    PROVE  /\ calls'[t].strict = calls[t].strict
           /\ calls'[t].policy = calls[t].policy
           /\ calls'[t].chosen = IF calls[t].strict THEN Primary(calls[t].policy)
                                                    ELSE Candidates(calls[t].policy)
<1> DEFINE S == IF calls[t].strict THEN Primary(calls[t].policy)
                                   ELSE Candidates(calls[t].policy)
           found == [calls[t] EXCEPT !.pc = "store", !.chosen = S, !.left = S]
<1>1. ~Raise(t)
  BY DEF Raise, Set, Idle, ExactInv, TypeOK
<1>2. Set(t, found)
  BY <1>1 DEF CacheMiss
<1>3. calls'[t] = found
  BY <1>2 DEF Set, ExactInv, TypeOK
<1>4. /\ found.strict = calls[t].strict /\ found.policy = calls[t].policy
      /\ found.chosen = S
  BY DEF ExactInv, TypeOK, Call
<1> HIDE DEF found
<1> QED BY <1>3, <1>4

(* A step that changes neither registry, epoch nor dirty.                  *)
LEMMA OtherExact ==
    ASSUME ExactInv, [Next]_vars, registered' = registered, epoch' = epoch,
           dirty' = dirty
    PROVE  StoresExact' /\ CachesExact'
<1> DEFINE chosenBy(c) == IF c.strict
                          THEN Foremost(c.policy, Selectable(c.policy,
                                   ComputeCandidates(c.policy, registered, Impls)))
                          ELSE Selectable(c.policy,
                                   ComputeCandidates(c.policy, registered, Impls))
<1> SUFFICES ASSUME ~dirty PROVE StoresExact' /\ CachesExact'
  BY DEF StoresExact, CachesExact
<1>1. \A u \in Threads : calls[u].pc = "store" /\ calls[u].epoch = epoch =>
          calls[u].chosen = chosenBy(calls[u])
  BY DEF ExactInv, StoresExact, Primary, Candidates, At
<1>2. ASSUME NEW u \in Threads, calls'[u].pc = "store", calls'[u].epoch = epoch
      PROVE  calls'[u].chosen = chosenBy(calls'[u])
  <2>1. ASSUME NEW t \in Threads, StartCall(t) \/ Step(t)
        PROVE  calls'[u].chosen = chosenBy(calls'[u])
    <3>1. CASE u = t
      <4>1. CacheMiss(t)
        BY <1>2, <2>1, <3>1, Moves DEF ExactInv
      <4>2. /\ calls'[t].strict = calls[t].strict
            /\ calls'[t].policy = calls[t].policy
            /\ calls'[t].chosen = chosenBy(calls[t])
        BY <1>2, <3>1, <4>1, MissExact DEF Primary, Candidates
      <4> QED BY <3>1, <4>2
    <3>2. CASE u # t
      BY <1>1, <1>2, <2>1, <3>2, OwnCall DEF ExactInv
    <3> QED BY <3>1, <3>2
  <2>2. ASSUME NEW t \in Threads, Fork(t) PROVE FALSE
    BY <1>2, <2>2 DEF Fork, Idle
  <2>3. ASSUME Application \/ UNCHANGED vars PROVE calls' = calls
    BY <2>3 DEF Application, SetGlobalPolicy, RegisterImpl, BumpPolicyEpoch,
       ClearFailedImpls, vars
  <2> QED BY <1>1, <1>2, <2>1, <2>2, <2>3 DEF Next
<1>3. StoresExact'
  BY <1>2 DEF StoresExact, Primary, Candidates, At
<1> DEFINE listed(p) == Selectable(p, ComputeCandidates(p, registered, Impls))
           Listing(cache) == \A c \in cache : c.epoch = epoch => c.chosen = listed(c.policy)
           Firsts(cache)  == \A c \in cache : c.epoch = epoch =>
                                 c.chosen = Foremost(c.policy, listed(c.policy))
<1>4. Listing(candidatesCache) /\ Firsts(dispatchCache)
  BY DEF ExactInv, CachesExact, Primary, Candidates
<1>5. Listing(candidatesCache') /\ Firsts(dispatchCache')
  <2>1. ASSUME NEW t \in Threads, Store(t)
        PROVE  Listing(candidatesCache') /\ Firsts(dispatchCache')
    <3> DEFINE entry == [policy |-> calls[t].policy, epoch |-> calls[t].epoch,
                         chosen |-> calls[t].chosen]
    <3>1. \/ /\ calls[t].strict
             /\ \A c \in dispatchCache' : c \in dispatchCache \/ c = entry
             /\ candidatesCache' = candidatesCache
          \/ /\ ~calls[t].strict
             /\ \A c \in candidatesCache' : c \in candidatesCache \/ c = entry
             /\ dispatchCache' = dispatchCache
      BY <2>1 DEF Store, Put
    <3>2. entry.epoch = epoch => entry.chosen = chosenBy(calls[t])
      BY <1>1, <2>1 DEF Store, At
    <3>3. entry.policy = calls[t].policy
      OBVIOUS
    <3> HIDE DEF entry
    <3> QED BY <1>4, <3>1, <3>2, <3>3
  <2>2. ASSUME \A t \in Threads : ~Store(t)
        PROVE  Listing(candidatesCache') /\ Firsts(dispatchCache')
    BY <1>4, <2>2, OnlyStoreAdds
  <2> QED BY <2>1, <2>2
<1>6. CachesExact'
  BY <1>5 DEF CachesExact, Primary, Candidates
<1> QED BY <1>3, <1>6

LEMMA ExactStep ==
    ASSUME ExactInv, [Next]_vars PROVE StoresExact' /\ CachesExact'
<1>1. ASSUME NEW t \in Threads, RegisterBuiltins(t) \/ RegistrationRaises(t)
      PROVE  StoresExact' /\ CachesExact'
  BY <1>1, RegistrationExact
<1>2. ASSUME NEW t \in Threads, ResetAfterFork(t) PROVE StoresExact' /\ CachesExact'
  BY <1>2, NewEpochExact
<1>3. ASSUME NEW t \in Threads, StartCall(t) \/ Fork(t) \/ Step(t),
             ~RegisterBuiltins(t), ~RegistrationRaises(t), ~ResetAfterFork(t)
      PROVE  StoresExact' /\ CachesExact'
  <2>1. registered' = registered /\ epoch' = epoch /\ dirty' = dirty
    BY <1>3 DEF StartCall, Fork, Step, Resolve, EnsureInitialized, GetPolicy,
       ReadEpoch, CacheHit, CacheMiss, Store, Filter, RunReturns, RunRaises,
       MarkFailed, StateUnchanged, ManagerUnchanged, OthersUnchanged
  <2> QED BY <2>1, OtherExact
<1>4. ASSUME NEW i \in Impls, RegisterImpl(i) PROVE StoresExact' /\ CachesExact'
  BY <1>4 DEF RegisterImpl, StoresExact, CachesExact
<1>5. CASE BumpPolicyEpoch
  <2>1. CASE Threads = {}
    BY <1>5, <2>1 DEF BumpPolicyEpoch, ClearCaches, StoresExact, CachesExact
  <2> QED BY <1>5, <2>1, NewEpochExact
<1>6. ASSUME \/ \E p \in Policies : SetGlobalPolicy(p)
             \/ ClearFailedImpls
             \/ UNCHANGED vars
      PROVE  StoresExact' /\ CachesExact'
  <2>1. registered' = registered /\ epoch' = epoch /\ dirty' = dirty
    BY <1>6 DEF SetGlobalPolicy, ClearFailedImpls, ManagerUnchanged, vars
  <2> QED BY <2>1, OtherExact
<1> QED BY <1>1, <1>2, <1>3, <1>4, <1>5, <1>6 DEF Next, Application

LEMMA ExactInit == Init => ExactInv
<1> SUFFICES ASSUME Init
             PROVE  ReadyInv /\ EpochsPast /\ StoresExact /\ CachesExact
  BY InitType DEF ExactInv
<1>1. \A t \in Threads : calls[t].pc = "idle" /\ calls[t].epoch = 0
  BY DEF Init, Idle
<1>2. dispatchCache = {} /\ candidatesCache = {} /\ epoch = 0
  BY DEF Init
<1> QED BY <1>1, <1>2 DEF ReadyInv, EpochsPast, StoresExact, CachesExact, At, Early

(* Once what was registered at run time is followed by a bump of the       *)
(* epoch, every entry a new call can hit is what it would compute itself,  *)
(* through initialization, failing detection and forks.                    *)
THEOREM CachesAlwaysExact == Spec => []CachesExact
<1>1. ExactInv /\ [Next]_vars => ExactInv'
  BY StepType, ReadyStep, EpochsStep, ExactStep DEF ExactInv
<1>2. ExactInv => CachesExact
  BY DEF ExactInv
<1> QED BY <1>1, <1>2, ExactInit, PTL DEF Spec

----------------------------------------------------------------------------
(* LockReleased is inductive with the types alone.                         *)

LockInv == TypeOK /\ LockReleased

(* A step that begins elsewhere than in a registration leaves the lock with*)
(* its owner.                                                              *)
LEMMA LockKept ==
    ASSUME LockInv, NEW t \in Threads, StartCall(t) \/ Step(t), lock' = lock,
           ~At(t, "register"), ~At(t, "gone")
    PROVE  LockReleased'
<1>1. lock # NoThread => calls'[lock] = calls[lock]
  BY OwnCall DEF LockInv, LockReleased, TypeOK
<1> QED BY <1>1 DEF LockInv, LockReleased, At

LEMMA LockStep ==
    ASSUME LockInv, [Next]_vars PROVE LockInv'
<1>1. TypeOK'
  BY StepType DEF LockInv
<1>2. ASSUME NEW t \in Threads, StartCall(t) PROVE LockReleased'
  <2>1. lock' = lock /\ At(t, "idle")
    BY <1>2 DEF StartCall, StateUnchanged, ManagerUnchanged
  <2> QED BY <1>2, <2>1, LockKept DEF At
<1>3. ASSUME NEW t \in Threads, Step(t) PROVE LockReleased'
  <2>1. CASE EnsureInitialized(t)
    <3>1. lock = NoThread /\ t \in DOMAIN calls
      BY <2>1 DEF EnsureInitialized, LockInv, TypeOK
    <3>2. CASE lock' = lock
      BY <3>1, <3>2 DEF LockReleased
    <3>3. CASE lock' = t /\ Goto(t, "register")
      <4>1. calls'[t].pc = "register"
        BY <3>3 DEF Goto, Set, LockInv, TypeOK, Call
      <4> QED BY <3>3, <4>1 DEF LockReleased, At
    <3> QED BY <2>1, <3>2, <3>3 DEF EnsureInitialized
  <2>2. CASE RegisterBuiltins(t) \/ RegistrationRaises(t)
    BY <2>2 DEF RegisterBuiltins, RegistrationRaises, LockReleased
  <2>3. CASE GetPolicy(t) \/ ReadEpoch(t) \/ CacheHit(t) \/ CacheMiss(t) \/ Store(t)
    <3>1. lock' = lock /\ ~At(t, "register") /\ ~At(t, "gone")
      BY <2>3 DEF GetPolicy, ReadEpoch, CacheHit, CacheMiss, Store, At,
                  StateUnchanged, ManagerUnchanged
    <3> QED BY <1>3, <3>1, LockKept
  <2>4. CASE \/ Filter(t) \/ RunReturns(t) \/ RunRaises(t) \/ MarkFailed(t)
             \/ ResetAfterFork(t)
    <3>1. lock' = lock /\ ~At(t, "register") /\ ~At(t, "gone")
      BY <2>4 DEF Filter, RunReturns, RunRaises, MarkFailed, ResetAfterFork, At,
                  StateUnchanged, ManagerUnchanged
    <3> QED BY <1>3, <3>1, LockKept
  <2> QED BY <1>3, <2>1, <2>2, <2>3, <2>4 DEF Step, Resolve
<1>4. ASSUME NEW t \in Threads, Fork(t) PROVE LockReleased'
  <2>1. lock' = lock /\ lock # t
    BY <1>4, DispatchAssumption DEF Fork, LockInv, LockReleased, At, TypeOK
  <2>2. \A u \in Threads \ {t} : calls'[u].pc = "gone"
    BY <1>4, IdleType DEF Fork, Call
  <2> QED BY <2>1, <2>2 DEF LockInv, LockReleased, TypeOK, At
<1>5. ASSUME Application \/ UNCHANGED vars PROVE LockReleased'
  <2>1. lock' = lock /\ calls' = calls
    BY <1>5 DEF Application, SetGlobalPolicy, RegisterImpl, BumpPolicyEpoch,
       ClearFailedImpls, ManagerUnchanged, vars
  <2> QED BY <2>1 DEF LockInv, LockReleased, At
<1> QED BY <1>1, <1>2, <1>3, <1>4, <1>5 DEF Next, LockInv

(* The manager's lock stays with a thread only while that thread registers *)
(* the implementations; the exception is the child of a fork that happened *)
(* meanwhile, in which nobody owns it any more.                            *)
THEOREM LockAlwaysReleased == Spec => []LockReleased
<1>1. Init => LockInv
  BY InitType DEF LockInv, LockReleased, Init
<1>2. LockInv => LockReleased
  BY DEF LockInv
<1> QED BY <1>1, <1>2, LockStep, PTL DEF Spec

----------------------------------------------------------------------------
(* FailsOncePerThread holds because of a count: the failures of an          *)
(* implementation and the threads that can still add one to them before the *)
(* next clearing are together no more than all threads.  A thread that      *)
(* failed is not among them until it has marked what failed, and then       *)
(* only those are that have already left the filter behind them.            *)

CanStillFail(i) ==
    {t \in Threads :
        /\ calls[t].pc \notin {"atfork", "gone"}
        /\ ~(At(t, "mark") /\ i \in Turn(t))
        /\ i \in failed => /\ calls[t].pc \in {"run", "mark"} /\ ~calls[t].strict
                           /\ i \in calls[t].left}

FailureInv ==
    /\ TypeOK
    /\ \A i \in Impls :
          failures[i] + Cardinality(CanStillFail(i)) <= Cardinality(Threads)

(* Fewer threads that can fail, with the same failures, keep the count.     *)
LEMMA CountKept ==
    ASSUME FailureInv, TypeOK', failures' = failures,
           \A i \in Impls : CanStillFail(i)' \subseteq CanStillFail(i)
    PROVE  FailureInv'
<1> SUFFICES ASSUME NEW i \in Impls
             PROVE  failures'[i] + Cardinality(CanStillFail(i)')
                        <= Cardinality(Threads)
  BY DEF FailureInv
<1>1. IsFiniteSet(CanStillFail(i))
  BY FS_Subset, DispatchAssumption DEF CanStillFail
<1>2. /\ Cardinality(CanStillFail(i)') <= Cardinality(CanStillFail(i))
      /\ IsFiniteSet(CanStillFail(i)')
  BY <1>1, FS_Subset
<1>3. /\ Cardinality(CanStillFail(i)) \in Nat /\ Cardinality(CanStillFail(i)') \in Nat
      /\ Cardinality(Threads) \in Nat /\ failures[i] \in Nat
  BY <1>1, <1>2, FS_CardinalityType, DispatchAssumption DEF FailureInv, TypeOK
<1>4. failures[i] + Cardinality(CanStillFail(i)) <= Cardinality(Threads)
  BY DEF FailureInv
<1> QED BY <1>2, <1>3, <1>4

(* After a clearing every thread may fail once more.                        *)
LEMMA CountForgotten ==
    ASSUME TypeOK', failures' = [i \in Impls |-> 0] PROVE FailureInv'
<1> SUFFICES ASSUME NEW i \in Impls
             PROVE  failures'[i] + Cardinality(CanStillFail(i)')
                        <= Cardinality(Threads)
  BY DEF FailureInv
<1>1. CanStillFail(i)' \subseteq Threads
  BY DEF CanStillFail
<1>2. /\ Cardinality(CanStillFail(i)') <= Cardinality(Threads)
      /\ IsFiniteSet(CanStillFail(i)')
  BY <1>1, FS_Subset, DispatchAssumption
<1>3. Cardinality(CanStillFail(i)') \in Nat /\ Cardinality(Threads) \in Nat
  BY <1>2, FS_CardinalityType, DispatchAssumption
<1> QED BY <1>2, <1>3

(* A step of t that is not about a failure: t can fail afterwards only where *)
(* it could before.                                                         *)
LEMMA OwnStepCounts ==
    ASSUME FailureInv, NEW t \in Threads, StartCall(t) \/ Step(t),
           failures' = failures, failed \subseteq failed',
           \A i \in Impls : t \in CanStillFail(i)' => t \in CanStillFail(i)
    PROVE  FailureInv'
<1>1. TypeOK'
  BY StepType DEF FailureInv, Next
<1>2. \A u \in Threads \ {t} : calls'[u] = calls[u]
  BY OwnCall DEF FailureInv
<1>3. ASSUME NEW i \in Impls, NEW u \in CanStillFail(i)'
      PROVE  u \in CanStillFail(i)
  <2>1. CASE u = t
    BY <1>3, <2>1
  <2>2. CASE u # t
    BY <1>2, <1>3, <2>2 DEF CanStillFail, At, Turn
  <2> QED BY <2>1, <2>2
<1> QED BY <1>1, <1>3, CountKept

(* Before the candidates are tried: t can fail only what nobody marked.     *)
LEMMA ResolvingCounts ==
    ASSUME FailureInv, NEW t \in Threads, StartCall(t) \/ Resolve(t)
    PROVE  FailureInv'
<1>1. failures' = failures /\ failed' = failed
  BY DEF Resolve, StartCall, EnsureInitialized, RegisterBuiltins, RegistrationRaises,
         GetPolicy, ReadEpoch, CacheHit, CacheMiss, Store, StateUnchanged,
         OthersUnchanged
<1>2. calls[t].pc \notin {"run", "mark", "atfork", "gone"}
  BY DEF Resolve, StartCall, EnsureInitialized, RegisterBuiltins, RegistrationRaises,
         GetPolicy, ReadEpoch, CacheHit, CacheMiss, Store, At
<1>3. /\ calls'[t].pc # "mark"
      /\ calls'[t].pc = "run" => calls'[t].strict
  <2>0. t \in DOMAIN calls /\ calls[t] \in Call /\ Idle \in Call
    BY IdleType DEF FailureInv, TypeOK
  <2> DEFINE raised == [Idle EXCEPT !.strict = calls[t].strict,
                                    !.chosen = calls[t].chosen, !.error = TRUE]
  <2>1. raised.pc = "idle"
    BY <2>0 DEF Idle
  <2>2. CASE StartCall(t) \/ GetPolicy(t) \/ ReadEpoch(t)
    <3>1. CASE StartCall(t)
      <4> DEFINE started == [Idle EXCEPT !.pc = "init", !.strict = policy.strict]
      <4>1. started.pc = "init"
        BY <2>0 DEF Call
      <4>2. calls'[t] = started
        BY <2>0, <3>1 DEF StartCall, Set
      <4> QED BY <4>1, <4>2
    <3>2. CASE GetPolicy(t)
      BY <2>0, <3>2 DEF GetPolicy, Set, Call
    <3>3. CASE ReadEpoch(t)
      BY <2>0, <3>3 DEF ReadEpoch, Set, Call
    <3> QED BY <2>2, <3>1, <3>2, <3>3
  <2>3. CASE EnsureInitialized(t) \/ RegisterBuiltins(t)
    BY <2>0, <2>3 DEF EnsureInitialized, RegisterBuiltins, Goto, Set, Call
  <2>4. CASE RegistrationRaises(t)
    BY <2>0, <2>1, <2>4 DEF RegistrationRaises, Raise, Set
  <2>5. CASE CacheHit(t)
    <3>1. PICK S : Set(t, [calls[t] EXCEPT !.pc = Selected(t), !.chosen = S,
                                           !.left = S])
      BY <2>5 DEF CacheHit
    <3>2. calls'[t].pc = Selected(t) /\ calls'[t].strict = calls[t].strict
      BY <2>0, <3>1 DEF Set, Call
    <3> QED BY <3>2 DEF Selected
  <2>6. CASE CacheMiss(t)
    <3>1. CASE Raise(t)
      BY <2>0, <2>1, <3>1 DEF Raise, Set
    <3>2. ASSUME NEW S, Set(t, [calls[t] EXCEPT !.pc = "store", !.chosen = S,
                                                 !.left = S])
          PROVE  calls'[t].pc = "store"
      BY <2>0, <3>2 DEF Set, Call
    <3> QED BY <2>6, <3>1, <3>2, <2>0, <2>1 DEF CacheMiss, Raise, Set
  <2>7. CASE Store(t)
    BY <2>0, <2>7 DEF Store, Goto, Set, Selected, Call
  <2> QED BY <2>2, <2>3, <2>4, <2>5, <2>6, <2>7 DEF Resolve
<1>4. \A i \in Impls : t \in CanStillFail(i)' => t \in CanStillFail(i)
  BY <1>1, <1>2, <1>3 DEF CanStillFail, At
<1> QED BY <1>1, <1>4, OwnStepCounts DEF Step

(* A call that returns, and one that leaves out what is marked.             *)
LEMMA FilteringCounts ==
    ASSUME FailureInv, NEW t \in Threads, Filter(t) \/ RunReturns(t)
    PROVE  FailureInv'
<1> DEFINE raised == [Idle EXCEPT !.strict = calls[t].strict,
                                  !.chosen = calls[t].chosen, !.error = TRUE]
<1>0. t \in DOMAIN calls /\ calls[t] \in Call /\ Idle \in Call
  BY IdleType DEF FailureInv, TypeOK
<1>1. failures' = failures /\ failed' = failed
  BY DEF Filter, RunReturns, StateUnchanged, OthersUnchanged
<1>2. calls[t].pc \in {"filter", "run"}
  BY DEF Filter, RunReturns, At
<1>3. \/ calls'[t].pc = "idle"
      \/ calls'[t].pc = "run" /\ calls'[t].left \cap failed = {}
  <2>1. raised.pc = "idle" /\ Idle.pc = "idle"
    BY <1>0 DEF Idle
  <2>2. CASE RunReturns(t)
    BY <1>0, <2>1, <2>2 DEF RunReturns, Return, Set
  <2>3. CASE Filter(t)
    <3>1. CASE Raise(t)
      BY <1>0, <2>1, <3>1 DEF Raise, Set
    <3>2. CASE Set(t, [calls[t] EXCEPT !.pc = "run",
                                       !.left = calls[t].chosen \ failed])
      BY <1>0, <3>2 DEF Set, Call
    <3> QED BY <2>3, <3>1, <3>2 DEF Filter
  <2> QED BY <2>2, <2>3
<1>4. \A i \in Impls : t \in CanStillFail(i)' => t \in CanStillFail(i)
  BY <1>1, <1>2, <1>3 DEF CanStillFail, At
<1> QED BY <1>1, <1>4, OwnStepCounts DEF Step

(* A failure is counted once, and takes its thread out of those that can    *)
(* still fail.                                                              *)
LEMMA RaisingCounts ==
    ASSUME FailureInv, NEW t \in Threads, RunRaises(t) PROVE FailureInv'
<1>0. t \in DOMAIN calls /\ calls[t] \in Call /\ Idle \in Call
  BY IdleType DEF FailureInv, TypeOK
<1>1. failed' = failed /\ calls[t].pc = "run"
  BY DEF RunRaises, At
<1>2. CASE calls[t].strict
  <2>1. Raise(t) /\ failures' = failures
    BY <1>2 DEF RunRaises
  <2>2. calls'[t].pc = "idle"
    BY <1>0, <2>1 DEF Raise, Set, Idle
  <2>3. \A i \in Impls : t \in CanStillFail(i)' => t \in CanStillFail(i)
    BY <1>1, <2>2 DEF CanStillFail, At
  <2> QED BY <1>1, <2>1, <2>3, OwnStepCounts DEF Step
<1>3. CASE ~calls[t].strict
  <2>1. /\ Goto(t, "mark")
        /\ failures' = [i \in Impls |-> IF i \in Turn(t) THEN failures[i] + 1
                                                    ELSE failures[i]]
    BY <1>3 DEF RunRaises
  <2>2. /\ calls'[t].pc = "mark" /\ calls'[t].left = calls[t].left
        /\ calls'[t].policy = calls[t].policy /\ calls'[t].strict = calls[t].strict
    BY <1>0, <2>1 DEF Goto, Set, Call
  <2>3. Turn(t)' = Turn(t) /\ Turn(t) \subseteq calls[t].left
    BY <2>2, ForemostSubset DEF Turn
  <2>4. \A u \in Threads \ {t} : calls'[u] = calls[u]
    BY OwnCall DEF FailureInv, Step
  <2>5. TypeOK'
    BY StepType DEF FailureInv, Next, Step
  <2>6. ASSUME NEW i \in Impls
        PROVE  failures'[i] + Cardinality(CanStillFail(i)') <= Cardinality(Threads)
    <3>1. CanStillFail(i)' = IF i \in Turn(t) THEN CanStillFail(i) \ {t}
                                              ELSE CanStillFail(i)
      <4>1. ASSUME NEW u \in Threads \ {t}
            PROVE  u \in CanStillFail(i)' <=> u \in CanStillFail(i)
        BY <1>1, <2>4 DEF CanStillFail, At, Turn
      <4>2. t \in CanStillFail(i)' <=> t \in CanStillFail(i) /\ i \notin Turn(t)
        BY <1>1, <1>3, <2>2, <2>3 DEF CanStillFail, At
      <4>3. CanStillFail(i) \subseteq Threads /\ CanStillFail(i)' \subseteq Threads
        BY DEF CanStillFail
      <4> QED BY <4>1, <4>2, <4>3
    <3>2. i \in Turn(t) => t \in CanStillFail(i)
      BY <1>1, <1>3, <2>3 DEF CanStillFail, At
    <3>3. IsFiniteSet(CanStillFail(i))
      BY FS_Subset, DispatchAssumption DEF CanStillFail
    <3>4. Cardinality(CanStillFail(i)')
            = IF i \in Turn(t) THEN Cardinality(CanStillFail(i)) - 1
                               ELSE Cardinality(CanStillFail(i))
      BY <3>1, <3>2, <3>3, FS_RemoveElement
    <3>5. /\ Cardinality(CanStillFail(i)) \in Nat
          /\ Cardinality(Threads) \in Nat /\ failures[i] \in Nat
      BY <3>3, FS_CardinalityType, DispatchAssumption DEF FailureInv, TypeOK
    <3>6. failures[i] + Cardinality(CanStillFail(i)) <= Cardinality(Threads)
      BY DEF FailureInv
    <3>7. failures'[i] = IF i \in Turn(t) THEN failures[i] + 1 ELSE failures[i]
      BY <2>1
    <3> QED BY <3>4, <3>5, <3>6, <3>7
  <2> QED BY <2>5, <2>6 DEF FailureInv
<1> QED BY <1>2, <1>3

(* Marking: what a thread has just marked is not left for it, and those     *)
(* that have it left had it before.                                         *)
LEMMA MarkingCounts ==
    ASSUME FailureInv, NEW t \in Threads, MarkFailed(t) PROVE FailureInv'
<1> DEFINE left == calls[t].left \ Turn(t)
<1>0. t \in DOMAIN calls /\ calls[t] \in Call /\ Idle \in Call
  BY IdleType DEF FailureInv, TypeOK
<1>1. /\ failures' = failures /\ failed' = failed \cup Turn(t)
      /\ calls[t].pc = "mark"
  BY DEF MarkFailed, At
<1>2. \/ calls'[t].pc = "idle"
      \/ /\ calls'[t].pc = "run" /\ calls'[t].left = left
         /\ calls'[t].strict = calls[t].strict
  <2>1. CASE Raise(t)
    BY <1>0, <2>1 DEF Raise, Set, Idle
  <2>2. CASE Set(t, [calls[t] EXCEPT !.pc = "run", !.left = left])
    BY <1>0, <2>2 DEF Set, Call
  <2> QED BY <2>1, <2>2 DEF MarkFailed
<1>3. \A i \in Impls : t \in CanStillFail(i)' => t \in CanStillFail(i)
  BY <1>1, <1>2 DEF CanStillFail, At
<1> QED BY <1>1, <1>3, OwnStepCounts DEF Step

(* Every step keeps the count.                                              *)
LEMMA FailureStep ==
    ASSUME FailureInv, [Next]_vars PROVE FailureInv'
<1>1. TypeOK'
  BY StepType DEF FailureInv
<1>2. CASE UNCHANGED vars
  BY <1>2 DEF vars, FailureInv, TypeOK, CanStillFail, At, Turn
<1>3. CASE Application
  <2>1. CASE ForgetFailures
    BY <1>1, <2>1, CountForgotten DEF ForgetFailures
  <2>2. CASE UNCHANGED <<failed, failures, calls>>
    <3>1. \A i \in Impls : CanStillFail(i)' = CanStillFail(i)
      BY <2>2 DEF CanStillFail, At, Turn
    <3> QED BY <1>1, <2>2, <3>1, CountKept
  <2> QED BY <1>3, <2>1, <2>2 DEF Application, SetGlobalPolicy, RegisterImpl,
                                  BumpPolicyEpoch, ClearFailedImpls
<1>4. ASSUME NEW t \in Threads, StartCall(t) \/ Step(t) PROVE FailureInv'
  <2>1. CASE ResetAfterFork(t)
    BY <1>1, <2>1, CountForgotten DEF ResetAfterFork, ForgetFailures
  <2> QED BY <1>4, <2>1, ResolvingCounts, FilteringCounts, RaisingCounts,
             MarkingCounts DEF Step
<1>5. ASSUME NEW t \in Threads, Fork(t) PROVE FailureInv'
  <2>1. \A u \in Threads : calls'[u].pc \in {"atfork", "gone"}
    BY <1>5, IdleType DEF Fork, Call
  <2>2. \A i \in Impls : CanStillFail(i)' = {}
    BY <2>1 DEF CanStillFail
  <2>3. failures' = failures
    BY <1>5 DEF Fork, OthersUnchanged
  <2> QED BY <1>1, <2>2, <2>3, CountKept
<1> QED BY <1>2, <1>3, <1>4, <1>5 DEF Next

(* Between two clearings of the failed set an implementation fails at most  *)
(* once in every thread, however the threads' filters and marks interleave, *)
(* also if the set is cleared or the process forks between a failure and    *)
(* its mark.                                                                *)
THEOREM FailsAtMostOncePerThread == Spec => []FailsOncePerThread
<1>1. Init => FailureInv
  <2> SUFFICES ASSUME Init PROVE FailureInv
    OBVIOUS
  <2> SUFFICES ASSUME NEW i \in Impls
               PROVE  failures[i] + Cardinality(CanStillFail(i))
                          <= Cardinality(Threads)
    BY InitType DEF FailureInv
  <2>1. failures[i] = 0 /\ CanStillFail(i) \subseteq Threads
    BY DEF Init, CanStillFail
  <2>2. /\ Cardinality(CanStillFail(i)) <= Cardinality(Threads)
        /\ IsFiniteSet(CanStillFail(i))
    BY <2>1, FS_Subset, DispatchAssumption
  <2>3. Cardinality(CanStillFail(i)) \in Nat /\ Cardinality(Threads) \in Nat
    BY <2>2, FS_CardinalityType, DispatchAssumption
  <2> QED BY <2>1, <2>2, <2>3
<1>2. FailureInv => FailsOncePerThread
  <2> SUFFICES ASSUME FailureInv, NEW i \in Impls
               PROVE  failures[i] <= Cardinality(Threads)
    BY DEF FailsOncePerThread
  <2>1. IsFiniteSet(CanStillFail(i))
    BY FS_Subset, DispatchAssumption DEF CanStillFail
  <2>2. /\ Cardinality(CanStillFail(i)) \in Nat
        /\ Cardinality(Threads) \in Nat /\ failures[i] \in Nat
    BY <2>1, FS_CardinalityType, DispatchAssumption DEF FailureInv, TypeOK
  <2> QED BY <2>2 DEF FailureInv
<1> QED BY <1>1, <1>2, FailureStep, PTL DEF Spec

-----------------------------------------------------------------------------
(***************************************************************************)
(* The registry: the two selection loops compute what OpSelection says     *)
(* they should, for any implementations, policies and registrations.       *)
(***************************************************************************)

(* Induction over the natural numbers, for a set.                          *)
LEMMA NatSteps ==
    ASSUME NEW S, 0 \in S, \A n \in Nat : n \in S => n + 1 \in S
    PROVE  Nat \subseteq S
<1> DEFINE T == Nat \ S
<1>1. SUFFICES ASSUME T # {} PROVE FALSE
  OBVIOUS
<1>2. PICK n \in T : \A m \in T : <<m, n>> \notin OpToRel(<, Nat)
  <2>1. T \subseteq Nat
    OBVIOUS
  <2>2. \E n \in T : \A m \in T : ~(<<m, n>> \in OpToRel(<, Nat))
    BY <1>1, <2>1, NatLessThanWellFounded, WFMin
  <2> QED BY <2>2
<1>3. n \in Nat /\ n # 0 /\ n - 1 \in Nat /\ n - 1 < n
  OBVIOUS
<1>4. n - 1 \notin T
  BY <1>2, <1>3 DEF OpToRel
<1> QED BY <1>3, <1>4

-----------------------------------------------------------------------------
(* The order of implementations, and a set sorted by it.                   *)

LEMMA HigherTotal ==
    ASSUME NEW i \in Impls, NEW j \in Impls, NEW k \in Impls
    PROVE  /\ ~Higher(i, i)
           /\ ~(Higher(i, j) /\ Higher(j, i))
           /\ i # j => Higher(i, j) \/ Higher(j, i)
           /\ Higher(i, j) /\ Higher(j, k) => Higher(i, k)
<1>1. /\ Priority[i] \in Int /\ Priority[j] \in Int /\ Priority[k] \in Int
      /\ IdOrder[i] \in Int /\ IdOrder[j] \in Int /\ IdOrder[k] \in Int
  BY ImplsAssumption
<1>2. i # j => IdOrder[i] # IdOrder[j]
  BY ImplsAssumption
<1> QED BY <1>1, <1>2 DEF Higher

Rank(S, i) == Cardinality({j \in S : Higher(j, i)})

LEMMA RankRises ==
    ASSUME NEW S \in SUBSET Impls, NEW i \in S, NEW j \in S
    PROVE  /\ Rank(S, i) \in 0 .. Cardinality(S) - 1
           /\ Higher(i, j) => Rank(S, i) < Rank(S, j)
<1> DEFINE A(x) == {y \in S : Higher(y, x)}
<1>1. IsFiniteSet(S) /\ Cardinality(S) \in Nat
  BY ImplsAssumption, FS_Subset, FS_CardinalityType
<1>2. IsFiniteSet(A(i)) /\ IsFiniteSet(A(j))
  BY <1>1, FS_Subset
<1>3. Cardinality(A(i)) \in Nat /\ Cardinality(A(j)) \in Nat
  BY <1>2, FS_CardinalityType
<1>4. i \notin A(i)
  BY HigherTotal
<1>5. Cardinality(A(i) \cup {i}) = Cardinality(A(i)) + 1
  BY <1>2, <1>4, FS_AddElement
<1>6. Cardinality(A(i)) + 1 <= Cardinality(S)
  <2>1. A(i) \cup {i} \in SUBSET S
    OBVIOUS
  <2> QED BY <1>1, <1>5, <2>1, FS_Subset
<1>7. ASSUME Higher(i, j) PROVE Cardinality(A(i)) < Cardinality(A(j))
  <2>1. A(i) \cup {i} \in SUBSET A(j)
    <3>1. \A y \in A(i) : y \in S /\ y \in Impls /\ Higher(y, i)
      OBVIOUS
    <3>2. \A y \in A(i) : Higher(y, j)
      BY <3>1, <1>7, HigherTotal
    <3> QED BY <3>1, <3>2, <1>7
  <2>2. Cardinality(A(i) \cup {i}) <= Cardinality(A(j))
    BY <1>2, <2>1, FS_Subset
  <2> QED BY <1>3, <1>5, <2>2
<1> QED BY <1>1, <1>3, <1>6, <1>7 DEF Rank

LEMMA SortedFacts ==
    ASSUME NEW S \in SUBSET Impls
    PROVE  /\ Cardinality(S) \in Nat
           /\ Sorted(S) \in Seq(S)
           /\ Len(Sorted(S)) = Cardinality(S) /\ DOMAIN Sorted(S) = 1 .. Cardinality(S)
           /\ ToSet(Sorted(S)) = S
           /\ \A k, l \in DOMAIN Sorted(S) : k < l => Higher(Sorted(S)[k], Sorted(S)[l])
<1> DEFINE n == Cardinality(S)
           f == [i \in S |-> Rank(S, i)]
           s == Sorted(S)
<1>1. IsFiniteSet(S) /\ n \in Nat
  BY ImplsAssumption, FS_Subset, FS_CardinalityType
<1>2. f \in Injection(S, 0 .. n - 1)
  <2>1. f \in [S -> 0 .. n - 1]
    BY RankRises
  <2>2. ASSUME NEW i \in S, NEW j \in S, f[i] = f[j] PROVE i = j
    <3>1. f[i] = Rank(S, i) /\ f[j] = Rank(S, j)
      OBVIOUS
    <3>2. Rank(S, i) \in Int /\ Rank(S, j) \in Int
      BY <1>1, RankRises
    <3>3. ~Higher(i, j) /\ ~Higher(j, i)
      BY <2>2, <3>1, <3>2, RankRises
    <3> QED BY <3>3, HigherTotal
  <2> QED BY <2>1, <2>2 DEF Injection, IsInjective
<1>3. f \in Surjection(S, 0 .. n - 1)
  <2>1. IsFiniteSet(0 .. n - 1) /\ Cardinality(0 .. n - 1) = n
    BY <1>1, FS_Interval
  <2> HIDE DEF f
  <2> QED BY <1>1, <1>2, <2>1, FS_Injection
<1>4. \A k \in 1 .. n : \E i \in S : Rank(S, i) = k - 1
  <2> SUFFICES ASSUME NEW k \in 1 .. n PROVE \E i \in S : Rank(S, i) = k - 1
    OBVIOUS
  <2>1. k - 1 \in 0 .. n - 1
    BY <1>1
  <2>2. \E i \in S : f[i] = k - 1
    BY <1>3, <2>1 DEF Surjection
  <2> QED BY <2>2
<1>5. s = [k \in 1 .. n |-> CHOOSE i \in S : Rank(S, i) = k - 1]
  BY DEF Sorted, Rank
<1>6. \A k \in 1 .. n : s[k] \in S /\ Rank(S, s[k]) = k - 1
  BY <1>4, <1>5
<1>7. s \in Seq(S) /\ Len(s) = n /\ DOMAIN s = 1 .. n
  <2>1. s \in [1 .. n -> S]
    BY <1>5, <1>6
  <2> QED BY <1>1, <2>1
<1>8. ASSUME NEW i \in S PROVE i \in ToSet(s)
  <2>1. Rank(S, i) + 1 \in 1 .. n /\ Rank(S, i) \in Int
    BY <1>1, RankRises
  <2>2. s[Rank(S, i) + 1] \in S /\ Rank(S, s[Rank(S, i) + 1]) = Rank(S, i)
    BY <1>6, <2>1
  <2>3. s[Rank(S, i) + 1] = i
    <3>1. ~Higher(i, s[Rank(S, i) + 1]) /\ ~Higher(s[Rank(S, i) + 1], i)
      BY <2>1, <2>2, RankRises
    <3> QED BY <2>2, <3>1, HigherTotal
  <2> QED BY <1>7, <2>1, <2>3 DEF ToSet
<1>9. ToSet(s) = S
  BY <1>6, <1>7, <1>8 DEF ToSet
<1>10. ASSUME NEW k \in 1 .. n, NEW l \in 1 .. n, k < l PROVE Higher(s[k], s[l])
  <2>1. /\ s[k] \in S /\ s[l] \in S
        /\ Rank(S, s[k]) = k - 1 /\ Rank(S, s[l]) = l - 1
    BY <1>6
  <2>2. ~Higher(s[l], s[k])
    BY <1>1, <1>10, <2>1, RankRises
  <2>3. s[k] # s[l]
    BY <1>1, <1>10, <2>1
  <2> QED BY <2>1, <2>2, <2>3, HigherTotal
<1> QED BY <1>1, <1>7, <1>9, <1>10

-----------------------------------------------------------------------------
(* The matches of the tokens, one after the other.                         *)

(* F holds the entries of q[1], ..., q[m] in this order: tok and pos say   *)
(* which entry of which of them stands where.                              *)
Laid(F, q, m, tok, pos) ==
    /\ tok \in [1 .. Len(F) -> 1 .. m] /\ pos \in [1 .. Len(F) -> Nat]
    /\ \A a \in 1 .. Len(F) : /\ pos[a] \in 1 .. Len(q[tok[a]])
                              /\ F[a] = q[tok[a]][pos[a]]
    /\ \A a, b \in 1 .. Len(F) :
            a < b => tok[a] < tok[b] \/ (tok[a] = tok[b] /\ pos[a] < pos[b])
    /\ \A l \in 1 .. m : \A c \in 1 .. Len(q[l]) :
            \E a \in 1 .. Len(F) : tok[a] = l /\ pos[a] = c

IsLaid(F, q, m) == \E tok, pos : Laid(F, q, m, tok, pos)

LEMMA LaidFirst ==
    ASSUME NEW T, NEW q, q[1] \in Seq(T)
    PROVE  IsLaid(q[1], q, 1)
<1> DEFINE F == q[1]
           tok == [a \in 1 .. Len(F) |-> 1]
           pos == [a \in 1 .. Len(F) |-> a]
<1>1. Len(F) \in Nat
  OBVIOUS
<1>2. Laid(F, q, 1, tok, pos)
  BY <1>1 DEF Laid
<1> QED BY <1>2 DEF IsLaid

LEMMA LaidNext ==
    ASSUME NEW T, NEW n \in Nat, NEW q \in [1 .. n -> Seq(T)], NEW m \in 1 .. n, m + 1 <= n,
           NEW F \in Seq(T), IsLaid(F, q, m)
    PROVE  /\ F \o q[m + 1] \in Seq(T)
           /\ IsLaid(F \o q[m + 1], q, m + 1)
<1>1. PICK tok, pos : Laid(F, q, m, tok, pos)
  BY DEF IsLaid
<1> DEFINE s == q[m + 1]
           f == Len(F)
           G == F \o s
           tok2 == [a \in 1 .. f + Len(s) |-> IF a <= f THEN tok[a] ELSE m + 1]
           pos2 == [a \in 1 .. f + Len(s) |-> IF a <= f THEN pos[a] ELSE a - f]
<1>2. s \in Seq(T) /\ Len(s) \in Nat /\ f \in Nat
  OBVIOUS
<1>3. /\ G \in Seq(T) /\ Len(G) = f + Len(s)
      /\ \A a \in 1 .. f + Len(s) : G[a] = IF a <= f THEN F[a] ELSE s[a - f]
  <2> HIDE DEF s
  <2> QED BY <1>2, ConcatProperties
<1>4. /\ tok \in [1 .. f -> 1 .. m] /\ pos \in [1 .. f -> Nat]
      /\ \A a \in 1 .. f : pos[a] \in 1 .. Len(q[tok[a]]) /\ F[a] = q[tok[a]][pos[a]]
      /\ \A a, b \in 1 .. f :
            a < b => tok[a] < tok[b] \/ (tok[a] = tok[b] /\ pos[a] < pos[b])
      /\ \A l \in 1 .. m : \A c \in 1 .. Len(q[l]) : \E a \in 1 .. f : tok[a] = l /\ pos[a] = c
  BY <1>1 DEF Laid
<1> DEFINE N == f + Len(s)
<1>5. \A a \in 1 .. f : a \in 1 .. N /\ tok2[a] = tok[a] /\ pos2[a] = pos[a]
  <2> HIDE DEF s, f
  <2> QED BY <1>2
<1>6. \A a \in 1 .. N : a \notin 1 .. f =>
          tok2[a] = m + 1 /\ pos2[a] = a - f /\ a - f \in 1 .. Len(s) /\ G[a] = s[a - f]
  <2> HIDE DEF s, f, G
  <2> QED BY <1>2, <1>3
<1>7. tok2 \in [1 .. N -> 1 .. m + 1] /\ pos2 \in [1 .. N -> Nat]
  <2>1. ASSUME NEW a \in 1 .. N PROVE tok2[a] \in 1 .. m + 1 /\ pos2[a] \in Nat
    <3> HIDE DEF s, f, tok2, pos2
    <3>1. CASE a \in 1 .. f
      <4>1. tok[a] \in 1 .. m /\ pos[a] \in Nat
        BY <1>4, <3>1
      <4> QED BY <4>1, <3>1, <1>5
    <3>2. CASE a \notin 1 .. f
      <4>1. m + 1 \in 1 .. m + 1 /\ a - f \in Nat
        BY <1>2, <1>6, <3>2
      <4> QED BY <4>1, <3>2, <1>6
    <3> QED BY <3>1, <3>2
  <2>2. tok2 = [a \in 1 .. N |-> tok2[a]] /\ pos2 = [a \in 1 .. N |-> pos2[a]]
    OBVIOUS
  <2> HIDE DEF tok2, pos2, N
  <2> QED BY <2>1, <2>2
<1> HIDE DEF tok2, pos2, G, f
<1>8. ASSUME NEW a \in 1 .. N
      PROVE  pos2[a] \in 1 .. Len(q[tok2[a]]) /\ G[a] = q[tok2[a]][pos2[a]]
  <2>1. CASE a \in 1 .. f
    <3>1. G[a] = F[a]
      BY <1>3, <2>1, <1>2
    <3> QED BY <2>1, <3>1, <1>4, <1>5
  <2>2. CASE a \notin 1 .. f
    BY <2>2, <1>6
  <2> QED BY <2>1, <2>2
<1>9. ASSUME NEW a \in 1 .. N, NEW b \in 1 .. N, a < b
      PROVE  tok2[a] < tok2[b] \/ (tok2[a] = tok2[b] /\ pos2[a] < pos2[b])
  <2> HIDE DEF s
  <2>1. CASE b \in 1 .. f
    <3>1. a \in 1 .. f
      BY <1>2, <1>9, <2>1
    <3> QED BY <1>4, <1>5, <1>9, <2>1, <3>1
  <2>2. CASE a \in 1 .. f /\ b \notin 1 .. f
    <3>1. tok2[a] \in 1 .. m /\ tok2[b] = m + 1
      BY <1>4, <1>5, <1>6, <2>2
    <3> QED BY <3>1
  <2>3. CASE a \notin 1 .. f /\ b \notin 1 .. f
    <3>1. tok2[a] = tok2[b] /\ pos2[a] = a - f /\ pos2[b] = b - f
      BY <1>6, <2>3
    <3>2. a - f < b - f
      BY <1>2, <1>9
    <3> QED BY <3>1, <3>2
  <2> QED BY <1>2, <1>9, <2>1, <2>2, <2>3
<1>10. ASSUME NEW l \in 1 .. m + 1, NEW c \in 1 .. Len(q[l])
       PROVE  \E a \in 1 .. N : tok2[a] = l /\ pos2[a] = c
  <2>1. CASE l \in 1 .. m
    <3>1. PICK a \in 1 .. f : tok[a] = l /\ pos[a] = c
      BY <1>4, <2>1
    <3>2. a \in 1 .. N /\ tok2[a] = l /\ pos2[a] = c
      <4> HIDE DEF s
      <4> QED BY <3>1, <1>5
    <3> QED BY <3>2
  <2>2. CASE l = m + 1
    <3>1. f + c \in 1 .. N /\ f + c \notin 1 .. f /\ (f + c) - f = c
      BY <1>2, <2>2
    <3>2. tok2[f + c] = l /\ pos2[f + c] = c
      BY <3>1, <2>2, <1>6
    <3> QED BY <3>1, <3>2
  <2> QED BY <2>1, <2>2
<1>11. Laid(G, q, m + 1, tok2, pos2)
  <2>1. Len(G) = N
    BY <1>3 DEF f
  <2> HIDE DEF s
  <2> QED BY <2>1, <1>7, <1>8, <1>9, <1>10 DEF Laid
<1> QED BY <1>3, <1>11 DEF IsLaid, G

(* The running concatenation of FlattenSeq.                                *)
Flat(q) == CHOOSE g : g = [i \in 1 .. Len(q) |-> IF i = 1 THEN q[i] ELSE g[i - 1] \o q[i]]

LEMMA FlatExists ==
    ASSUME NEW q, Len(q) \in Nat
    PROVE  Flat(q) = [i \in 1 .. Len(q) |-> IF i = 1 THEN q[i] ELSE Flat(q)[i - 1] \o q[i]]
<1> DEFINE next(i, before) == IF i = 1 THEN q[i] ELSE before \o q[i]
           is(g, n) == g = [i \in 1 .. n |-> next(i, g[i - 1])]
           S == {n \in Nat : \E g : is(g, n)}
<1> HIDE DEF next
<1>1. 0 \in S
  <2>1. is([i \in {} |-> q], 0)
    OBVIOUS
  <2> QED BY <2>1
<1>2. \A n \in Nat : n \in S => n + 1 \in S
  <2> SUFFICES ASSUME NEW n \in Nat, n \in S PROVE n + 1 \in S
    OBVIOUS
  <2>1. PICK g : is(g, n)
    OBVIOUS
  <2> DEFINE h == [i \in 1 .. n + 1 |-> IF i = n + 1 THEN next(n + 1, g[n]) ELSE g[i]]
  <2>2. \A i \in 1 .. n : h[i] = g[i]
    OBVIOUS
  <2>3. \A i \in 1 .. n : g[i] = next(i, g[i - 1])
    BY <2>1
  <2>4. ASSUME NEW i \in 1 .. n + 1 PROVE h[i] = next(i, h[i - 1])
    <3>1. CASE i = 1
      <4>1. \A x, y : next(1, x) = next(1, y)
        BY DEF next
      <4>2. CASE n = 0
        BY <3>1, <4>1, <4>2
      <4>3. CASE n # 0
        <5>1. 1 \in 1 .. n
          BY <4>3
        <5> HIDE DEF h
        <5> QED BY <3>1, <4>1, <5>1, <2>2, <2>3
      <4> QED BY <4>2, <4>3
    <3>2. CASE i = n + 1 /\ i # 1
      <4>1. i - 1 = n /\ n \in 1 .. n
        BY <3>2
      <4>2. h[i] = next(n + 1, g[n])
        BY <3>2
      <4> QED BY <3>2, <4>1, <4>2, <2>2
    <3>3. CASE i # n + 1 /\ i # 1
      <4>1. i \in 1 .. n /\ i - 1 \in 1 .. n
        BY <3>3
      <4> HIDE DEF h
      <4> QED BY <4>1, <2>2, <2>3
    <3> QED BY <3>1, <3>2, <3>3
  <2>5. h = [i \in 1 .. n + 1 |-> h[i]]
    OBVIOUS
  <2>6. is(h, n + 1)
    <3> HIDE DEF h
    <3> QED BY <2>4, <2>5
  <2> HIDE DEF h
  <2> QED BY <2>6
<1>3. Len(q) \in S
  <2> HIDE DEF S
  <2> QED BY <1>1, <1>2, NatSteps
<1>4. PICK g : is(g, Len(q))
  BY <1>3
<1>5. Flat(q) = CHOOSE h : is(h, Len(q))
  BY DEF Flat, next
<1>6. is(Flat(q), Len(q))
  <2> HIDE DEF is
  <2> QED BY <1>4, <1>5
<1> QED BY <1>6 DEF next

LEMMA FlattenLays ==
    ASSUME NEW T, NEW n \in Nat, NEW q \in [1 .. n -> Seq(T)]
    PROVE  FlattenSeq(q) \in Seq(T) /\ IsLaid(FlattenSeq(q), q, n)
<1>1. q \in Seq(Seq(T)) /\ Len(q) = n
  OBVIOUS
<1>2. CASE n = 0
  <2>1. FlattenSeq(q) = q /\ q = <<>>
    BY <1>1, <1>2 DEF FlattenSeq
  <2>2. Laid(<<>>, q, 0, <<>>, <<>>)
    BY DEF Laid
  <2> QED BY <1>2, <2>1, <2>2 DEF IsLaid
<1>3. CASE n # 0
  <2> DEFINE flat == Flat(q)
  <2>0. flat = [i \in 1 .. n |-> IF i = 1 THEN q[i] ELSE flat[i - 1] \o q[i]]
    <3>1. flat = [i \in 1 .. Len(q) |-> IF i = 1 THEN q[i] ELSE flat[i - 1] \o q[i]]
      BY <1>1, FlatExists
    <3> HIDE DEF flat
    <3> QED BY <1>1, <3>1
  <2>1. \A i \in 1 .. n : flat[i] = IF i = 1 THEN q[i] ELSE flat[i - 1] \o q[i]
    <3> HIDE DEF flat
    <3> QED BY <2>0
  <2> DEFINE S == {m \in Nat : m + 1 <= n =>
                      Flat(q)[m + 1] \in Seq(T) /\ IsLaid(Flat(q)[m + 1], q, m + 1)}
  <2>2. 0 \in S
    <3>1. Flat(q)[1] = q[1] /\ q[1] \in Seq(T)
      BY <1>3, <2>1
    <3> QED BY <3>1, LaidFirst
  <2>3. ASSUME NEW m \in Nat, m \in S PROVE m + 1 \in S
    <3> SUFFICES ASSUME m + 2 <= n
                 PROVE  Flat(q)[m + 2] \in Seq(T) /\ IsLaid(Flat(q)[m + 2], q, m + 2)
      <4>1. (m + 1) + 1 = m + 2
        OBVIOUS
      <4> QED BY <4>1
    <3> DEFINE k == m + 1
    <3>1. k \in 1 .. n /\ k + 1 \in 1 .. n /\ k + 1 # 1 /\ (k + 1) - 1 = k /\ k + 1 = m + 2
      OBVIOUS
    <3>2. Flat(q)[k] \in Seq(T) /\ IsLaid(Flat(q)[k], q, k)
      BY <2>3
    <3> HIDE DEF k
    <3>3. Flat(q)[k + 1] = Flat(q)[k] \o q[k + 1]
      BY <2>1, <3>1
    <3>4. k + 1 <= n
      BY <3>1
    <3> QED BY <3>1, <3>2, <3>3, <3>4, LaidNext
  <2>4. n - 1 \in Nat /\ (n - 1) + 1 = n
    BY <1>3
  <2>5. n - 1 \in S
    <3> HIDE DEF S
    <3> QED BY <2>2, <2>3, <2>4, NatSteps
  <2>6. FlattenSeq(q) = Flat(q)[n]
    BY <1>1, <1>3 DEF FlattenSeq, Flat
  <2> QED BY <2>4, <2>5, <2>6
<1> QED BY <1>2, <1>3

-----------------------------------------------------------------------------
(* The removal of duplicates.                                              *)

(* The running fold of FoldLeft, over sets of positions.                   *)
Kept(F) ==
    CHOOSE g : g = [s \in SUBSET DOMAIN F |->
                      IF s = {} THEN <<>> ELSE KeepFirst(g[s \ {Max(s)}], F[Max(s)])]

LEMMA LastIsMax ==
    ASSUME NEW n \in Nat, NEW s \in SUBSET (1 .. n), n \in s
    PROVE  Max(s) = n
<1>1. \A y \in s : n >= y
  OBVIOUS
<1>2. \A x \in s : (\A y \in s : x >= y) => x = n
  OBVIOUS
<1> QED BY <1>1, <1>2 DEF Max

LEMMA KeptExists ==
    ASSUME NEW F, NEW n \in Nat, DOMAIN F = 1 .. n
    PROVE  Kept(F) = [s \in SUBSET (1 .. n) |->
                        IF s = {} THEN <<>> ELSE KeepFirst(Kept(F)[s \ {Max(s)}], F[Max(s)])]
<1> DEFINE next(x, k) == KeepFirst(x, F[k])
           is(g, m) == g = [s \in SUBSET (1 .. m) |->
                              IF s = {} THEN <<>> ELSE next(g[s \ {Max(s)}], Max(s))]
           S == {m \in Nat : \E g : is(g, m)}
<1> HIDE DEF next
<1>1. 0 \in S
  <2>1. SUBSET (1 .. 0) = {{}}
    OBVIOUS
  <2>2. is([s \in {{}} |-> <<>>], 0)
    BY <2>1
  <2> QED BY <2>2
<1>2. \A m \in Nat : m \in S => m + 1 \in S
  <2> SUFFICES ASSUME NEW m \in Nat, m \in S PROVE m + 1 \in S
    OBVIOUS
  <2>1. PICK g : is(g, m)
    OBVIOUS
  <2> DEFINE h == [s \in SUBSET (1 .. m + 1) |->
                     IF m + 1 \in s THEN next(g[s \ {m + 1}], m + 1) ELSE g[s]]
  <2>2. \A s \in SUBSET (1 .. m) : h[s] = g[s]
    <3>1. ASSUME NEW s \in SUBSET (1 .. m) PROVE s \in SUBSET (1 .. m + 1) /\ m + 1 \notin s
      OBVIOUS
    <3> QED BY <3>1
  <2>3. \A s \in SUBSET (1 .. m) : g[s] = IF s = {} THEN <<>> ELSE next(g[s \ {Max(s)}], Max(s))
    BY <2>1
  <2>4. ASSUME NEW s \in SUBSET (1 .. m + 1)
        PROVE  h[s] = IF s = {} THEN <<>> ELSE next(h[s \ {Max(s)}], Max(s))
    <3>1. CASE m + 1 \in s
      <4>1. Max(s) = m + 1 /\ s # {}
        BY <3>1, LastIsMax
      <4>2. s \ {m + 1} \in SUBSET (1 .. m)
        OBVIOUS
      <4>3. h[s] = next(g[s \ {m + 1}], m + 1)
        BY <3>1
      <4> HIDE DEF h
      <4> QED BY <4>1, <4>2, <4>3, <2>2
    <3>2. CASE m + 1 \notin s
      <4>1. \A e \in s : e \in 1 .. m + 1 /\ e # m + 1
        BY <3>2
      <4>2. \A e \in s : e \in 1 .. m
        BY <4>1
      <4>3. s \in SUBSET (1 .. m) /\ s \ {Max(s)} \in SUBSET (1 .. m)
        BY <4>2
      <4> HIDE DEF h
      <4> QED BY <4>3, <2>2, <2>3
    <3> QED BY <3>1, <3>2
  <2>5. h = [s \in SUBSET (1 .. m + 1) |-> h[s]]
    OBVIOUS
  <2>6. is(h, m + 1)
    <3> HIDE DEF h
    <3> QED BY <2>4, <2>5
  <2> HIDE DEF h, is
  <2> QED BY <2>6
<1>3. n \in S
  <2> HIDE DEF S
  <2> QED BY <1>1, <1>2, NatSteps
<1>4. PICK g : is(g, n)
  BY <1>3
<1>5. Kept(F) = CHOOSE h : is(h, n)
  BY DEF Kept, next
<1>6. is(Kept(F), n)
  <2> HIDE DEF is
  <2> QED BY <1>4, <1>5
<1> QED BY <1>6 DEF next

LEMMA KeptSteps ==
    ASSUME NEW F, NEW n \in Nat, DOMAIN F = 1 .. n
    PROVE  /\ FoldLeft(KeepFirst, <<>>, F) = Kept(F)[1 .. n]
           /\ Kept(F)[1 .. 0] = <<>>
           /\ \A m \in Nat : m + 1 <= n =>
                Kept(F)[1 .. m + 1] = KeepFirst(Kept(F)[1 .. m], F[m + 1])
<1>1. FoldLeft(KeepFirst, <<>>, F) = Kept(F)[1 .. n]
  BY DEF FoldLeft, MapThenFoldSet, Kept
<1>2. \A s \in SUBSET (1 .. n) :
        Kept(F)[s] = IF s = {} THEN <<>> ELSE KeepFirst(Kept(F)[s \ {Max(s)}], F[Max(s)])
  BY KeptExists
<1>3. Kept(F)[1 .. 0] = <<>>
  <2>1. 1 .. 0 = {} /\ 1 .. 0 \in SUBSET (1 .. n)
    OBVIOUS
  <2> QED BY <2>1, <1>2
<1>4. ASSUME NEW m \in Nat, m + 1 <= n
      PROVE  Kept(F)[1 .. m + 1] = KeepFirst(Kept(F)[1 .. m], F[m + 1])
  <2>1. /\ 1 .. m + 1 \in SUBSET (1 .. n) /\ 1 .. m + 1 # {}
        /\ (1 .. m + 1) \ {m + 1} = 1 .. m
    BY <1>4
  <2>2. Max(1 .. m + 1) = m + 1
    <3>1. m + 1 \in Nat /\ m + 1 \in 1 .. m + 1
      OBVIOUS
    <3> QED BY <3>1, LastIsMax
  <2> QED BY <2>1, <2>2, <1>2
<1> QED BY <1>1, <1>3, <1>4

(* A sequence of implementations in the order Before.                      *)
Ranked(p, s) == \A k, l \in DOMAIN s : k < l => Before(p, s[k], s[l])

(* An implementation that comes for the first time follows those before it. *)
Follows(p, F) ==
    \A b \in DOMAIN F : (\A a \in 1 .. b - 1 : F[a] # F[b]) =>
                            \A a \in 1 .. b - 1 : Before(p, F[a], F[b])

LEMMA KeptRanked ==
    ASSUME NEW p, NEW F \in Seq(Impls), Follows(p, F), NEW m \in Nat, m <= Len(F)
    PROVE  /\ Kept(F)[1 .. m] \in Seq(Impls)
           /\ ToSet(Kept(F)[1 .. m]) = {F[a] : a \in 1 .. m}
           /\ Ranked(p, Kept(F)[1 .. m])
<1> DEFINE n == Len(F)
           good(L, k) == /\ L \in Seq(Impls)
                         /\ ToSet(L) = {F[a] : a \in 1 .. k}
                         /\ Ranked(p, L)
           S == {k \in Nat : k <= n => good(Kept(F)[1 .. k], k)}
<1>1. n \in Nat /\ DOMAIN F = 1 .. n
  OBVIOUS
<1>2. /\ Kept(F)[1 .. 0] = <<>>
      /\ \A k \in Nat : k + 1 <= n =>
            Kept(F)[1 .. k + 1] = KeepFirst(Kept(F)[1 .. k], F[k + 1])
  <2> HIDE DEF n
  <2> QED BY <1>1, KeptSteps
<1>3. 0 \in S
  <2>1. <<>> \in Seq(Impls) /\ DOMAIN <<>> = {} /\ 1 .. 0 = {}
    OBVIOUS
  <2>2. ToSet(<<>>) = {F[a] : a \in 1 .. 0} /\ Ranked(p, <<>>)
    BY <2>1 DEF Ranked, ToSet
  <2>3. good(Kept(F)[1 .. 0], 0)
    BY <1>2, <2>1, <2>2
  <2> HIDE DEF good
  <2> QED BY <2>3
<1>4. ASSUME NEW k \in Nat, k \in S PROVE k + 1 \in S
  <2> SUFFICES ASSUME k + 1 <= n PROVE good(Kept(F)[1 .. k + 1], k + 1)
    OBVIOUS
  <2> DEFINE L == Kept(F)[1 .. k]
             x == F[k + 1]
  <2>1. L \in Seq(Impls) /\ ToSet(L) = {F[a] : a \in 1 .. k} /\ Ranked(p, L)
    BY <1>1, <1>4
  <2>2. Kept(F)[1 .. k + 1] = KeepFirst(L, x)
    BY <1>2
  <2>3. k + 1 \in 1 .. n /\ x \in Impls
    BY <1>1
  <2>4. {F[a] : a \in 1 .. k + 1} = {F[a] : a \in 1 .. k} \cup {x}
    <3>1. 1 .. k + 1 = (1 .. k) \cup {k + 1}
      OBVIOUS
    <3> QED BY <3>1
  <2> HIDE DEF L, x, n
  <2>5. Len(L) \in Nat /\ DOMAIN L = 1 .. Len(L)
    BY <2>1
  <2>6. CASE Contains(L, x)
    <3>1. KeepFirst(L, x) = L /\ x \in ToSet(L)
      BY <2>5, <2>6 DEF KeepFirst, Contains, ToSet
    <3> QED BY <2>1, <2>2, <2>4, <3>1
  <2>7. CASE ~Contains(L, x)
    <3>1. KeepFirst(L, x) = Append(L, x) /\ x \notin ToSet(L)
      BY <2>5, <2>7 DEF KeepFirst, Contains, ToSet
    <3>2. /\ Append(L, x) \in Seq(Impls) /\ DOMAIN Append(L, x) = 1 .. Len(L) + 1
          /\ \A l \in 1 .. Len(L) : Append(L, x)[l] = L[l]
          /\ Append(L, x)[Len(L) + 1] = x
      BY <2>1, <2>3
    <3>3. ToSet(Append(L, x)) = ToSet(L) \cup {x}
      <4>1. 1 .. Len(L) + 1 = (1 .. Len(L)) \cup {Len(L) + 1}
        BY <2>5
      <4> QED BY <2>5, <3>2, <4>1 DEF ToSet
    <3>4. \A y \in ToSet(L) : Before(p, y, x)
      <4>1. k + 1 \in DOMAIN F /\ (k + 1) - 1 = k
        BY <1>1, <2>3
      <4>2. \A a \in 1 .. k : F[a] # F[k + 1]
        BY <2>1, <3>1 DEF x
      <4>3. \A a \in 1 .. k : Before(p, F[a], F[k + 1])
        BY <4>1, <4>2 DEF Follows
      <4> QED BY <2>1, <4>3 DEF x
    <3>5. Ranked(p, Append(L, x))
      <4>1. SUFFICES ASSUME NEW i \in 1 .. Len(L) + 1, NEW j \in 1 .. Len(L) + 1, i < j
                     PROVE  Before(p, Append(L, x)[i], Append(L, x)[j])
        BY <3>2 DEF Ranked
      <4>2. i \in 1 .. Len(L) /\ L[i] \in ToSet(L) /\ Append(L, x)[i] = L[i]
        BY <2>5, <3>2, <4>1 DEF ToSet
      <4>3. CASE j = Len(L) + 1
        BY <3>2, <3>4, <4>2, <4>3
      <4>4. CASE j # Len(L) + 1
        <5>1. j \in 1 .. Len(L)
          BY <2>5, <4>4
        <5>2. Before(p, L[i], L[j])
          BY <2>1, <2>5, <4>1, <4>2, <5>1 DEF Ranked
        <5> QED BY <3>2, <4>2, <5>1, <5>2
      <4> QED BY <4>3, <4>4
    <3> QED BY <2>1, <2>2, <2>4, <3>1, <3>2, <3>3, <3>5
  <2> QED BY <2>6, <2>7
<1>5. m \in S
  <2> HIDE DEF S
  <2> QED BY <1>3, <1>4, NatSteps
<1> QED BY <1>5

-----------------------------------------------------------------------------
(* The place of an implementation in the order of a policy.                *)

LEMMA OrderType ==
    ASSUME NEW p \in RegistryPolicies
    PROVE  Len(Order(p)) \in Nat /\ DOMAIN Order(p) = 1 .. Len(Order(p))
<1>1. CASE p.order # <<>>
  BY <1>1, PoliciesAssumption DEF Order
<1>2. CASE p.order = <<>>
  <2> DEFINE s == [k \in 1 .. 3 |-> KindToken(DefaultOrder(p)[k])]
  <2>1. Order(p) = s
    BY <1>2 DEF Order
  <2>2. s \in Seq({KindToken(DefaultOrder(p)[k]) : k \in 1 .. 3})
    OBVIOUS
  <2> HIDE DEF s
  <2> QED BY <2>1, <2>2
<1> QED BY <1>1, <1>2

LEMMA PlaceLeast ==
    ASSUME NEW p \in RegistryPolicies, NEW i, NEW n \in DOMAIN Order(p), MatchToken(i, Order(p)[n])
    PROVE  /\ Place(p, i) \in DOMAIN Order(p) /\ Place(p, i) \in Nat
           /\ MatchToken(i, Order(p)[Place(p, i)])
           /\ Place(p, i) <= n
<1>1. DOMAIN Order(p) = 1 .. Len(Order(p)) /\ Len(Order(p)) \in Nat
  BY OrderType
<1> DEFINE K == {k \in DOMAIN Order(p) : MatchToken(i, Order(p)[k])}
<1>2. K \subseteq Nat /\ n \in K
  BY <1>1
<1>3. PICK k \in K : \A l \in K : <<l, k>> \notin OpToRel(<, Nat)
  <2> HIDE DEF K
  <2>1. \E k \in K : \A l \in K : ~(<<l, k>> \in OpToRel(<, Nat))
    BY <1>2, NatLessThanWellFounded, WFMin
  <2> QED BY <2>1
<1>4. k \in Nat /\ \A l \in K : ~(l < k)
  BY <1>2, <1>3 DEF OpToRel
<1>5. \A l \in 1 .. k - 1 : ~MatchToken(i, Order(p)[l])
  <2>1. \A l \in 1 .. k - 1 : l \in DOMAIN Order(p) /\ l < k
    BY <1>1, <1>4
  <2> QED BY <2>1, <1>4
<1>6. /\ Place(p, i) \in DOMAIN Order(p) /\ MatchToken(i, Order(p)[Place(p, i)])
      /\ \A l \in 1 .. Place(p, i) - 1 : ~MatchToken(i, Order(p)[l])
  <2>1. \E x \in DOMAIN Order(p) : /\ MatchToken(i, Order(p)[x])
                                   /\ \A l \in 1 .. (x - 1) : ~MatchToken(i, Order(p)[l])
    BY <1>5
  <2> QED BY <2>1 DEF Place
<1>7. Place(p, i) \in Nat /\ n \in Nat /\ n >= 1
  BY <1>1, <1>6
<1>8. ~(n \in 1 .. Place(p, i) - 1)
  BY <1>6
<1> QED BY <1>6, <1>7, <1>8

LEMMA BeforeOrders ==
    ASSUME NEW p \in RegistryPolicies, NEW i \in Impls, NEW j \in Impls,
           Place(p, i) \in Nat, Place(p, j) \in Nat
    PROVE  ~(Before(p, i, j) /\ Before(p, j, i)) /\ ~Before(p, i, i)
BY HigherTotal DEF Before

(* The matches of every token, sorted, as resolve_candidates collects them. *)
PerToken(p, C) == [k \in DOMAIN Order(p) |-> Sorted(Matches(C, Order(p)[k]))]

LEMMA PerTokenFacts ==
    ASSUME NEW p \in RegistryPolicies, NEW C \in SUBSET Impls
    PROVE  /\ PerToken(p, C) \in [1 .. Len(Order(p)) -> Seq(Impls)]
           /\ FlattenSeq(PerToken(p, C)) \in Seq(Impls)
           /\ IsLaid(FlattenSeq(PerToken(p, C)), PerToken(p, C), Len(Order(p)))
           /\ \A k \in 1 .. Len(Order(p)) :
                /\ DOMAIN PerToken(p, C)[k] = 1 .. Len(PerToken(p, C)[k])
                /\ ToSet(PerToken(p, C)[k]) = Matches(C, Order(p)[k])
                /\ \A c, d \in 1 .. Len(PerToken(p, C)[k]) :
                     c < d => Higher(PerToken(p, C)[k][c], PerToken(p, C)[k][d])
<1> DEFINE q == PerToken(p, C)
           n == Len(Order(p))
<1>1. n \in Nat /\ DOMAIN Order(p) = 1 .. n
  BY OrderType
<1>2. ASSUME NEW k \in 1 .. n
      PROVE  /\ q[k] \in Seq(Impls) /\ DOMAIN q[k] = 1 .. Len(q[k])
             /\ ToSet(q[k]) = Matches(C, Order(p)[k])
             /\ \A c, d \in 1 .. Len(q[k]) : c < d => Higher(q[k][c], q[k][d])
  <2> DEFINE M == Matches(C, Order(p)[k])
  <2>1. q[k] = Sorted(M)
    BY <1>1 DEF PerToken
  <2>2. M \in SUBSET Impls
    BY DEF Matches
  <2> HIDE DEF M
  <2>3. /\ Sorted(M) \in Seq(M) /\ Len(Sorted(M)) = Cardinality(M)
        /\ DOMAIN Sorted(M) = 1 .. Len(Sorted(M)) /\ ToSet(Sorted(M)) = M
        /\ \A c, d \in 1 .. Len(Sorted(M)) : c < d => Higher(Sorted(M)[c], Sorted(M)[d])
    BY <2>2, SortedFacts
  <2>4. Sorted(M) \in Seq(Impls)
    BY <2>2, <2>3, SeqMonotonic
  <2> USE DEF M
  <2> QED BY <2>1, <2>3, <2>4
<1>3. q \in [1 .. n -> Seq(Impls)]
  BY <1>1, <1>2 DEF PerToken
<1>4. FlattenSeq(q) \in Seq(Impls) /\ IsLaid(FlattenSeq(q), q, n)
  <2> HIDE DEF q, n
  <2> QED BY <1>1, <1>3, FlattenLays
<1> QED BY <1>2, <1>3, <1>4

LEMMA FlattenedFollows ==
    ASSUME NEW p \in RegistryPolicies, NEW C \in SUBSET Impls
    PROVE  /\ FlattenSeq(PerToken(p, C)) \in Seq(Impls)
           /\ ToSet(FlattenSeq(PerToken(p, C))) = Selectable(p, C)
           /\ Follows(p, FlattenSeq(PerToken(p, C)))
<1> DEFINE q == PerToken(p, C)
           F == FlattenSeq(q)
           n == Len(Order(p))
           order == Order(p)
<1>1. n \in Nat /\ DOMAIN order = 1 .. n
  BY OrderType
<1>2. F \in Seq(Impls) /\ IsLaid(F, q, n)
  BY PerTokenFacts
<1>3. ASSUME NEW k \in 1 .. n
      PROVE  /\ DOMAIN q[k] = 1 .. Len(q[k]) /\ ToSet(q[k]) = Matches(C, order[k])
             /\ \A c, d \in 1 .. Len(q[k]) : c < d => Higher(q[k][c], q[k][d])
  BY PerTokenFacts
<1> HIDE DEF q, F, n, order
<1>4. PICK tok, pos : Laid(F, q, n, tok, pos)
  BY <1>2 DEF IsLaid
<1> DEFINE N == Len(F)
<1>5. /\ N \in Nat /\ DOMAIN F = 1 .. N
      /\ tok \in [1 .. N -> 1 .. n] /\ pos \in [1 .. N -> Nat]
      /\ \A a \in 1 .. N : pos[a] \in 1 .. Len(q[tok[a]]) /\ F[a] = q[tok[a]][pos[a]]
      /\ \A a, b \in 1 .. N : a < b => tok[a] < tok[b] \/ (tok[a] = tok[b] /\ pos[a] < pos[b])
      /\ \A l \in 1 .. n : \A c \in 1 .. Len(q[l]) : \E a \in 1 .. N : tok[a] = l /\ pos[a] = c
  BY <1>2, <1>4 DEF Laid
<1> HIDE DEF N
<1>6. ASSUME NEW a \in 1 .. N
      PROVE  /\ tok[a] \in 1 .. n /\ F[a] \in C /\ F[a] \in Impls /\ MatchToken(F[a], order[tok[a]])
             /\ Place(p, F[a]) \in 1 .. n /\ MatchToken(F[a], order[Place(p, F[a])])
             /\ Place(p, F[a]) <= tok[a]
  <2>1. tok[a] \in 1 .. n /\ pos[a] \in 1 .. Len(q[tok[a]]) /\ F[a] = q[tok[a]][pos[a]]
    BY <1>5
  <2>2. F[a] \in ToSet(q[tok[a]])
    BY <2>1, <1>3 DEF ToSet
  <2>3. F[a] \in C /\ MatchToken(F[a], order[tok[a]])
    BY <2>1, <2>2, <1>3 DEF Matches
  <2>4. tok[a] \in DOMAIN Order(p) /\ MatchToken(F[a], Order(p)[tok[a]])
    BY <2>1, <2>3, <1>1 DEF order
  <2>5. /\ Place(p, F[a]) \in DOMAIN Order(p) /\ Place(p, F[a]) <= tok[a]
        /\ MatchToken(F[a], Order(p)[Place(p, F[a])])
    BY <2>4, PlaceLeast
  <2> QED BY <2>1, <2>3, <2>5, <1>1 DEF order
<1>7. ASSUME NEW i \in C, NEW l \in 1 .. n, MatchToken(i, order[l])
      PROVE  \E a \in 1 .. N : tok[a] = l /\ F[a] = i
  <2>1. i \in ToSet(q[l])
    BY <1>3, <1>7 DEF Matches
  <2>2. PICK c \in 1 .. Len(q[l]) : q[l][c] = i
    BY <2>1, <1>3 DEF ToSet
  <2>3. PICK a \in 1 .. N : tok[a] = l /\ pos[a] = c
    BY <1>5
  <2> QED BY <2>2, <2>3, <1>5
<1>8. ToSet(F) = Selectable(p, C)
  <2>1. ASSUME NEW i \in ToSet(F) PROVE i \in Selectable(p, C)
    <3>1. PICK a \in 1 .. N : i = F[a]
      BY <1>5 DEF ToSet
    <3> QED BY <3>1, <1>1, <1>6 DEF Selectable, order
  <2>2. ASSUME NEW i \in Selectable(p, C) PROVE i \in ToSet(F)
    <3>1. i \in C /\ \E l \in 1 .. n : MatchToken(i, order[l])
      BY <1>1 DEF Selectable, order
    <3>2. \E a \in 1 .. N : F[a] = i
      BY <3>1, <1>7
    <3> QED BY <3>2, <1>5 DEF ToSet
  <2> QED BY <2>1, <2>2
<1>9. ASSUME NEW b \in 1 .. N, \A a \in 1 .. b - 1 : F[a] # F[b], NEW c \in 1 .. b - 1
      PROVE  Before(p, F[c], F[b])
  <2>1. b \in Nat /\ c \in 1 .. N /\ c < b
    BY <1>5
  <2>2. /\ tok[b] \in 1 .. n /\ tok[c] \in 1 .. n
        /\ Place(p, F[b]) \in 1 .. n /\ Place(p, F[c]) \in 1 .. n
    BY <2>1, <1>6
  <2>3. Place(p, F[b]) = tok[b]
    <3>1. SUFFICES ASSUME Place(p, F[b]) < tok[b] PROVE FALSE
      <4>1. Place(p, F[b]) <= tok[b]
        BY <1>6
      <4> QED BY <4>1, <2>2
    <3>2. PICK a \in 1 .. N : tok[a] = Place(p, F[b]) /\ F[a] = F[b]
      BY <1>6, <1>7
    <3>3. ~(a < b)
      <4>1. a < b => a \in 1 .. b - 1
        BY <2>1, <1>5
      <4> QED BY <4>1, <3>2, <1>9
    <3>4. a # b
      BY <3>1, <3>2, <2>2
    <3>5. b < a
      BY <3>3, <3>4, <2>1, <1>5
    <3>6. tok[b] <= tok[a]
      <4>1. tok[b] < tok[a] \/ tok[b] = tok[a]
        BY <3>5, <1>5
      <4>2. tok[a] \in 1 .. n
        BY <1>5
      <4> QED BY <4>1, <4>2, <2>2
    <3> QED BY <3>1, <3>2, <3>6, <2>2
  <2>4. tok[c] < tok[b] \/ (tok[c] = tok[b] /\ pos[c] < pos[b])
    BY <2>1, <1>5
  <2>5. Place(p, F[c]) <= tok[c]
    BY <2>1, <1>6
  <2>6. CASE Place(p, F[c]) < Place(p, F[b])
    BY <2>6 DEF Before
  <2>7. CASE ~(Place(p, F[c]) < Place(p, F[b]))
    <3>1. /\ tok[c] = tok[b] /\ Place(p, F[c]) = Place(p, F[b]) /\ pos[c] < pos[b]
      BY <2>2, <2>3, <2>4, <2>5, <2>7
    <3>2. /\ pos[c] \in 1 .. Len(q[tok[b]]) /\ F[c] = q[tok[b]][pos[c]]
          /\ pos[b] \in 1 .. Len(q[tok[b]]) /\ F[b] = q[tok[b]][pos[b]]
      BY <3>1, <2>1, <1>5
    <3>3. Higher(F[c], F[b])
      BY <3>1, <3>2, <2>2, <1>3
    <3> QED BY <3>1, <3>3 DEF Before
  <2> QED BY <2>6, <2>7
<1>10. Follows(p, F)
  BY <1>5, <1>9 DEF Follows
<1> QED BY <1>2, <1>8, <1>10 DEF F, q

-----------------------------------------------------------------------------
(* The two loops.                                                          *)

LEMMA CandidatesFacts ==
    ASSUME NEW p \in RegistryPolicies, NEW C \in SUBSET Impls
    PROVE  /\ ResolveCandidates(p, C) \in Seq(Impls)
           /\ ToSet(ResolveCandidates(p, C)) = Selectable(p, C)
           /\ Ranked(p, ResolveCandidates(p, C))
<1> DEFINE F == FlattenSeq(PerToken(p, C))
<1>1. F \in Seq(Impls) /\ ToSet(F) = Selectable(p, C) /\ Follows(p, F)
  BY FlattenedFollows
<1>2. ResolveCandidates(p, C) = FoldLeft(KeepFirst, <<>>, F)
  BY DEF ResolveCandidates, PerToken
<1> HIDE DEF F
<1>3. Len(F) \in Nat /\ DOMAIN F = 1 .. Len(F)
  BY <1>1
<1>4. FoldLeft(KeepFirst, <<>>, F) = Kept(F)[1 .. Len(F)]
  BY <1>3, KeptSteps
<1>5. /\ Kept(F)[1 .. Len(F)] \in Seq(Impls)
      /\ ToSet(Kept(F)[1 .. Len(F)]) = {F[a] : a \in 1 .. Len(F)}
      /\ Ranked(p, Kept(F)[1 .. Len(F)])
  <2>1. Len(F) <= Len(F)
    BY <1>3
  <2> QED BY <1>1, <1>3, <2>1, KeptRanked
<1>6. {F[a] : a \in 1 .. Len(F)} = ToSet(F)
  BY <1>3 DEF ToSet
<1> QED BY <1>1, <1>2, <1>4, <1>5, <1>6

LEMMA SelectablePlaced ==
    ASSUME NEW p \in RegistryPolicies, NEW C \in SUBSET Impls, NEW i \in Selectable(p, C)
    PROVE  /\ i \in C /\ i \in Impls
           /\ Place(p, i) \in DOMAIN Order(p) /\ Place(p, i) \in Nat
           /\ MatchToken(i, Order(p)[Place(p, i)])
<1>1. PICK k \in DOMAIN Order(p) : MatchToken(i, Order(p)[k])
  BY DEF Selectable
<1>2. i \in C
  BY DEF Selectable
<1> QED BY <1>1, <1>2, PlaceLeast

(* The first of the candidates is before every other one.                  *)
LEMMA FirstIsForemost ==
    ASSUME NEW p \in RegistryPolicies, NEW C \in SUBSET Impls
    PROVE  /\ Foremost(p, Selectable(p, C)) =
                {ResolveCandidates(p, C)[k] : k \in DOMAIN ResolveCandidates(p, C) \cap {1}}
           /\ ResolveCandidates(p, C) # <<>> =>
                ResolveCandidates(p, C)[1] \in Foremost(p, Selectable(p, C))
           /\ ResolveCandidates(p, C) = <<>> => Selectable(p, C) = {}
<1> DEFINE L == ResolveCandidates(p, C)
           S == Selectable(p, C)
<1>1. L \in Seq(Impls) /\ ToSet(L) = S /\ Ranked(p, L)
  BY CandidatesFacts
<1>2. \A i \in S : i \in Impls /\ Place(p, i) \in Nat
  BY SelectablePlaced
<1> HIDE DEF L, S
<1>3. Len(L) \in Nat /\ DOMAIN L = 1 .. Len(L)
  BY <1>1
<1>4. CASE L = <<>>
  <2>1. DOMAIN L = {}
    BY <1>4
  <2>2. S = {}
    BY <1>1, <2>1 DEF ToSet
  <2> QED BY <1>4, <2>1, <2>2 DEF Foremost, L, S
<1>5. CASE L # <<>>
  <2>1. 1 \in DOMAIN L
    BY <1>1, <1>3, <1>5, EmptySeq
  <2>2. L[1] \in S
    BY <1>1, <2>1 DEF ToSet
  <2>3. ASSUME NEW j \in S \ {L[1]} PROVE Before(p, L[1], j)
    <3>1. PICK k \in DOMAIN L : j = L[k]
      BY <1>1 DEF ToSet
    <3>2. 1 < k
      BY <1>3, <3>1, <2>3
    <3> QED BY <1>1, <2>1, <3>1, <3>2 DEF Ranked
  <2>4. L[1] \in Foremost(p, S)
    BY <2>2, <2>3 DEF Foremost
  <2>5. ASSUME NEW j \in Foremost(p, S) PROVE j = L[1]
    <3>1. SUFFICES ASSUME j # L[1] PROVE FALSE
      OBVIOUS
    <3>2. j \in S /\ Before(p, j, L[1]) /\ Before(p, L[1], j)
      BY <2>2, <2>3, <3>1 DEF Foremost
    <3> QED BY <1>2, <2>2, <3>2, BeforeOrders
  <2>6. {L[k] : k \in DOMAIN L \cap {1}} = {L[1]}
    BY <2>1
  <2> QED BY <1>5, <2>4, <2>5, <2>6 DEF L, S
<1> QED BY <1>4, <1>5

(* The first token that any candidate matches is the place of the foremost *)
(* one, which is the highest of the candidates that match it.              *)
LEMMA ResolveFacts ==
    ASSUME NEW p \in RegistryPolicies, NEW C \in SUBSET Impls
    PROVE  /\ Selectable(p, C) = {} => ResolveImpl(p, C) = NoImpl
           /\ \A x \in Foremost(p, Selectable(p, C)) : ResolveImpl(p, C) = x
<1> DEFINE S == Selectable(p, C)
           order == Order(p)
           hits == {k \in DOMAIN order : Matches(C, order[k]) # {}}
<1>1. ResolveImpl(p, C) = IF hits = {} THEN NoImpl
                          ELSE Sorted(Matches(C, order[Min(hits)]))[1]
  BY DEF ResolveImpl
<1>2. \A k \in DOMAIN order : \A i \in Matches(C, order[k]) : i \in S /\ MatchToken(i, order[k])
  BY DEF Matches, Selectable
<1>3. S = {} => hits = {}
  BY <1>2
<1>4. ASSUME NEW x \in Foremost(p, S) PROVE ResolveImpl(p, C) = x
  <2>1. x \in S /\ \A j \in S \ {x} : Before(p, x, j)
    BY DEF Foremost
  <2> DEFINE h == Place(p, x)
  <2>2. x \in C /\ x \in Impls /\ h \in DOMAIN order /\ h \in Nat /\ MatchToken(x, order[h])
    BY <2>1, SelectablePlaced
  <2>3. h \in hits /\ x \in Matches(C, order[h])
    BY <2>2 DEF Matches
  <2>4. ASSUME NEW j \in S
        PROVE  /\ j \in Impls /\ Place(p, j) \in Nat /\ h <= Place(p, j)
               /\ j # x /\ Place(p, j) <= h => Higher(x, j)
    <3>1. j \in Impls /\ Place(p, j) \in Nat
      BY SelectablePlaced
    <3>2. j = x \/ Before(p, x, j)
      BY <2>1
    <3> QED BY <3>1, <3>2, <2>2 DEF Before
  <2>5. ASSUME NEW k \in hits PROVE h <= k /\ k \in Nat
    <3>1. k \in DOMAIN Order(p) /\ k \in Nat
      BY OrderType
    <3>2. PICK j \in Matches(C, order[k]) : TRUE
      OBVIOUS
    <3>3. j \in S /\ MatchToken(j, Order(p)[k])
      BY <3>1, <3>2, <1>2
    <3>4. Place(p, j) <= k /\ Place(p, j) \in Nat
      BY <3>1, <3>3, PlaceLeast
    <3>5. h <= Place(p, j)
      BY <3>3, <2>4
    <3> HIDE DEF h
    <3> QED BY <3>1, <3>4, <3>5, <2>2
  <2> HIDE DEF hits, h, S, order
  <2>6. Min(hits) = h
    <3>1. \A k \in hits : (\A l \in hits : k =< l) => k = h
      BY <2>2, <2>3, <2>5
    <3> QED BY <2>3, <2>5, <3>1 DEF Min
  <2> DEFINE M == Matches(C, order[h])
  <2>7. M \in SUBSET Impls /\ x \in M
    BY <2>3 DEF Matches
  <2>8. \A j \in M : j # x => Higher(x, j)
    <3>1. SUFFICES ASSUME NEW j \in M, j # x PROVE Higher(x, j)
      OBVIOUS
    <3>2. j \in S /\ MatchToken(j, order[h]) /\ j \in Impls
      BY <2>2, <1>2, <2>7
    <3>3. Place(p, j) <= h
      BY <2>2, <3>2, PlaceLeast DEF order
    <3> QED BY <3>1, <3>2, <3>3, <2>4
  <2> HIDE DEF M
  <2>9. Sorted(M)[1] = x
    <3>1. /\ ToSet(Sorted(M)) = M
          /\ Cardinality(M) \in Nat /\ DOMAIN Sorted(M) = 1 .. Cardinality(M)
          /\ \A k, l \in DOMAIN Sorted(M) : k < l => Higher(Sorted(M)[k], Sorted(M)[l])
      BY <2>7, SortedFacts
    <3>2. PICK k \in DOMAIN Sorted(M) : Sorted(M)[k] = x
      BY <2>7, <3>1 DEF ToSet
    <3>3. 1 \in DOMAIN Sorted(M) /\ Sorted(M)[1] \in M
      BY <3>1, <3>2 DEF ToSet
    <3>4. SUFFICES ASSUME Sorted(M)[1] # x PROVE FALSE
      OBVIOUS
    <3>5. Higher(Sorted(M)[1], x)
      <4>1. 1 < k
        BY <3>1, <3>2, <3>4
      <4> QED BY <4>1, <3>1, <3>2, <3>3
    <3>6. Higher(x, Sorted(M)[1])
      BY <2>8, <3>3, <3>4
    <3> QED BY <2>7, <3>3, <3>5, <3>6, HigherTotal
  <2> QED BY <1>1, <2>3, <2>6, <2>9 DEF M
<1> QED BY <1>1, <1>3, <1>4

-----------------------------------------------------------------------------
(* The registry of one operator: what is registered and available are      *)
(* implementations.                                                        *)
LEMMA RegistryTypeInit == RegistryInit => RegistryTypeOK
BY DEF RegistryInit, RegistryTypeOK

LEMMA RegistryTypeNext == RegistryTypeOK /\ [RegistryNext]_registryVars => RegistryTypeOK'
<1> SUFFICES ASSUME RegistryTypeOK, [RegistryNext]_registryVars PROVE RegistryTypeOK'
  OBVIOUS
<1>1. ASSUME NEW i \in Impls, Register(i) PROVE RegistryTypeOK'
  BY <1>1 DEF Register, RegistryTypeOK
<1>2. ASSUME NEW i \in Impls, AvailabilityChanges(i) PROVE RegistryTypeOK'
  BY <1>2 DEF AvailabilityChanges, RegistryTypeOK
<1>3. ASSUME NEW i \in Impls, NEW j \in Impls, RegisterMany(<<i, j>>) PROVE RegistryTypeOK'
  <2> DEFINE impls == <<i, j>>
             fresh == {n \in 0 .. Len(impls) :
                         \A k \in 1 .. n : /\ impls[k] \notin implsByOp
                                           /\ \A l \in 1 .. (k - 1) : impls[l] # impls[k]}
  <2>1. Max(fresh) \in fresh
    <3>1. fresh \subseteq 0 .. 2 /\ 0 \in fresh
      OBVIOUS
    <3> HIDE DEF fresh
    <3>2. \E x \in fresh : \A y \in fresh : x >= y
      BY <3>1
    <3> QED BY <3>2 DEF Max
  <2>2. Max(fresh) \in 0 .. 2
    BY <2>1
  <2>3. implsByOp' = implsByOp \cup {impls[k] : k \in 1 .. Max(fresh)}
    BY <1>3 DEF RegisterMany
  <2>4. \A k \in 1 .. 2 : impls[k] \in Impls
    OBVIOUS
  <2> HIDE DEF fresh, impls
  <2>5. implsByOp' \subseteq Impls
    BY <2>2, <2>3, <2>4 DEF RegistryTypeOK
  <2> QED BY <1>3, <2>5 DEF RegisterMany, RegistryTypeOK
<1>4. CASE Clear
  BY <1>4 DEF Clear, RegistryTypeOK
<1>5. ASSUME NEW p \in RegistryPolicies, ChangePolicy(p) PROVE RegistryTypeOK'
  BY <1>5 DEF ChangePolicy, RegistryTypeOK
<1>6. CASE UNCHANGED registryVars
  BY <1>6 DEF registryVars, RegistryTypeOK
<1> QED BY <1>1, <1>2, <1>3, <1>4, <1>5, <1>6 DEF RegistryNext

(* What is registered, what is available and the policy in force are       *)
(* always of their types.                                                  *)
THEOREM RegistryTypeCorrect == RegistrySpec => []RegistryTypeOK
BY RegistryTypeInit, RegistryTypeNext, PTL DEF RegistrySpec

LEMMA CandidatesType == RegistryTypeOK => RegistryCandidates \in SUBSET Impls
BY DEF RegistryTypeOK, RegistryCandidates, ComputeCandidates

(* The list that fallback walks along always holds every selectable        *)
(* implementation once and in the order of tokens, priorities and ids:     *)
(* what resolve_candidates collects token by token, sorts and relieves of  *)
(* duplicates is that order, for any implementations and any policy.       *)
THEOREM CandidatesAlwaysRanked == RegistrySpec => []CandidatesRanked
<1>1. RegistryTypeOK => CandidatesRanked
  <2> SUFFICES ASSUME RegistryTypeOK PROVE CandidatesRanked
    OBVIOUS
  <2>1. activePolicy \in RegistryPolicies /\ RegistryCandidates \in SUBSET Impls
    BY CandidatesType DEF RegistryTypeOK
  <2> QED BY <2>1, CandidatesFacts, FirstIsForemost DEF CandidatesRanked, Ranked
<1> QED BY <1>1, RegistryTypeCorrect, PTL

(* The two loops always agree: resolve() chooses the first of what         *)
(* resolve_candidates() lists, and finds nothing exactly when that is      *)
(* empty, so turning fallback on never changes which implementation is the *)
(* primary one.                                                            *)
THEOREM PrimaryAlwaysAgrees == RegistrySpec => []PrimaryAgrees
<1>1. RegistryTypeOK => PrimaryAgrees
  <2> SUFFICES ASSUME RegistryTypeOK PROVE PrimaryAgrees
    OBVIOUS
  <2>1. activePolicy \in RegistryPolicies /\ RegistryCandidates \in SUBSET Impls
    BY CandidatesType DEF RegistryTypeOK
  <2> QED BY <2>1, FirstIsForemost, ResolveFacts DEF PrimaryAgrees
<1> QED BY <1>1, RegistryTypeCorrect, PTL
=============================================================================
