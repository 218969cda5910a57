----------------------------- MODULE CachedOps -----------------------------
(***************************************************************************)
(* The two caches above OpManager: CachedOp (dispatch/__init__.py), which  *)
(* a layer calls on its hot path, and OperatorBinding (dispatch/binding.py)*)
(* of the model adapters.  Both keep what they resolved until an epoch     *)
(* changes; CachedOp looks at the epochs only, OperatorBinding at the      *)
(* policy as well.  Threads share one of each, for the same operator.      *)
(*                                                                         *)
(* A policy is global or, inside policy_context, of one thread.  Beside    *)
(* the fields OpSelection reads it has "explicit", whether per_op_order    *)
(* names the operator at all, be it with an empty order.  Resolving        *)
(* is one step here: the run of OpDispatch shows that the manager's own    *)
(* caches answer as if they were not there.                                *)
(***************************************************************************)
EXTENDS OpSelection

CONSTANTS Threads,
          Policies,
          NoPolicy,     \* the context variable is not set
          Faulty,       \* implementations that may raise
          DefaultRank,  \* DefaultRank[i], the place of i in the binding's
                        \* default_order, which has all it leaves out at its end
          Workloads,    \* each as the implementations whose guard supports it
          Contexts,     \* whether threads use policy_context
          Quiet,        \* whether policies change only while no call runs
          MaxEpoch      \* bound on both epochs

ASSUME CachedAssumption ==
    /\ NoPolicy \notin Policies
    /\ \A p \in Policies : Len(p.order) \in Nat /\ DOMAIN p.order = 1 .. Len(p.order)
    /\ \A p \in Policies : p.explicit \in BOOLEAN /\ (p.order # <<>> => p.explicit)
    /\ Faulty \subseteq Impls
    /\ DefaultRank \in [Impls -> Nat]
    /\ Workloads \subseteq SUBSET Impls
    /\ Contexts \in BOOLEAN /\ Quiet \in BOOLEAN
    /\ MaxEpoch \in Nat

VARIABLES global,       \* the global policy
          context,      \* context[t], the context-local policy of thread t
          policyEpoch,  \* PolicyManager._policy_epoch
          epoch,        \* the manager's policy_epoch
          initialized,  \* whether the manager has registered the built-ins
          failed,       \* the manager's _failed_impls[op]
          op,           \* the CachedOp
          binding,      \* the OperatorBinding's _cache
          calls,        \* the call each thread is in
          stale         \* history: calls in a row of each thread that started
                        \* after the last change and ran an old choice

vars == <<global, context, policyEpoch, epoch, initialized, failed, op, binding,
          calls, stale>>

PCs == {"idle", "check", "read", "resolve", "publish", "run", "failed", "manager",
        "lookup", "preflight", "bind", "launch", "launched"}

Epochs == 0..(MaxEpoch + 1)

\* calls[t].impls are the candidates of a binding's call in the order of
\* policy "by", then the one it launches; of a CachedOp's call, the one
\* implementation.  "workload" is what a binding has been called with, and
\* "changed" whether a policy or an epoch has changed since the call started.
Call == [pc : PCs, epoch : Epochs, policyEpoch : Epochs, policy : Policies,
         by : Policies, impls : SUBSET Impls, workload : SUBSET Impls,
         changed : BOOLEAN]

Idle == [pc |-> "idle", epoch |-> 0, policyEpoch |-> 0,
         policy |-> CHOOSE p \in Policies : TRUE,
         by |-> CHOOSE p \in Policies : TRUE,
         impls |-> {}, workload |-> {}, changed |-> FALSE]

TypeOK ==
    /\ global \in Policies
    /\ context \in [Threads -> Policies \cup {NoPolicy}]
    /\ policyEpoch \in Epochs /\ epoch \in Epochs
    /\ initialized \in BOOLEAN
    /\ failed \subseteq Impls
    /\ op \in [impl : Impls \cup {NoImpl}, frozen : BOOLEAN, viaManager : BOOLEAN,
               epoch : {-1} \cup Epochs, policyEpoch : {-1} \cup Epochs]
    /\ binding \in [epoch : {-1} \cup Epochs, policyEpoch : {-1} \cup Epochs,
                    policy : Policies, by : Policies, impls : SUBSET Impls]
    /\ calls \in [Threads -> Call]
    /\ stale \in [Threads -> 0..2]

Init ==
    /\ global \in Policies
    /\ context = [t \in Threads |-> NoPolicy]
    /\ policyEpoch = 0 /\ epoch = 0
    /\ initialized = FALSE
    /\ failed = {}
    /\ op = [impl |-> NoImpl, frozen |-> FALSE, viaManager |-> FALSE,
             epoch |-> -1, policyEpoch |-> -1]
    /\ binding = [epoch |-> -1, policyEpoch |-> -1, policy |-> Idle.policy,
                  by |-> Idle.by, impls |-> {}]
    /\ calls = [t \in Threads |-> Idle]
    /\ stale = [t \in Threads |-> 0]

----------------------------------------------------------------------------
\* get_policy() of thread t, and what the manager resolves under a policy.

Policy(t) == IF context[t] # NoPolicy THEN context[t] ELSE global

Candidates(p) == Selectable(p, ComputeCandidates(p, Impls, Impls))

The(S) == CHOOSE x \in S : TRUE

At(t, pc) == calls[t].pc = pc

Set(t, call) == calls' = [calls EXCEPT ![t] = call]

Goto(t, pc) == Set(t, [calls[t] EXCEPT !.pc = pc])

\* The first resolve initializes the manager, which bumps its epoch.
Initialize == /\ initialized' = TRUE
              /\ epoch' = IF initialized THEN epoch ELSE epoch + 1

PoliciesUnchanged == UNCHANGED <<global, context, policyEpoch>>
ManagerUnchanged  == UNCHANGED <<epoch, initialized, failed>>
CachesUnchanged   == UNCHANGED <<op, binding>>

----------------------------------------------------------------------------
\* CachedOp.__call__.

\* Mutant: only the manager's epoch is compared.
FreshManager(t) == op.epoch = calls[t].epoch

\* The op's implementation was kept under the epochs this call has read.
Fresh(t) == /\ op.epoch = calls[t].epoch
            /\ op.policyEpoch = calls[t].policyEpoch

StartOp(t) ==
    /\ At(t, "idle")
    /\ Set(t, [Idle EXCEPT !.pc = "check", !.epoch = epoch,
                           !.policyEpoch = policyEpoch])
    /\ PoliciesUnchanged /\ ManagerUnchanged /\ CachesUnchanged /\ UNCHANGED stale

\* An epoch has moved: drop the implementation and what froze or banned it.
Check(t) ==
    /\ At(t, "check")
    /\ op' = IF Fresh(t) THEN op ELSE [op EXCEPT !.impl = NoImpl, !.frozen = FALSE,
                                                 !.viaManager = FALSE]
    /\ Goto(t, "read")
    /\ PoliciesUnchanged /\ ManagerUnchanged /\ UNCHANGED <<binding, stale>>

Read(t) ==
    /\ At(t, "read")
    /\ \/ op.viaManager /\ Goto(t, "manager")
       \/ /\ ~op.viaManager
          /\ op.impl = NoImpl \/ ~Fresh(t)
          /\ Goto(t, "resolve")
       \/ /\ ~op.viaManager
          /\ op.impl # NoImpl /\ Fresh(t)
          /\ Set(t, [calls[t] EXCEPT !.pc = "run", !.impls = {op.impl}])
    /\ PoliciesUnchanged /\ ManagerUnchanged /\ CachesUnchanged /\ UNCHANGED stale

\* _resolve_impl does not look at the failed set.
Resolve(t) ==
    /\ At(t, "resolve")
    /\ Initialize
    /\ LET p == Policy(t)
       IN  IF Candidates(p) = {}
           THEN Set(t, Idle)
           ELSE Set(t, [calls[t] EXCEPT !.pc = "publish",
                                        !.impls = Foremost(p, Candidates(p))])
    /\ PoliciesUnchanged /\ CachesUnchanged /\ UNCHANGED <<failed, stale>>

\* The epochs kept with the implementation are those of now.
Publish(t) ==
    /\ At(t, "publish")
    /\ op' = [op EXCEPT !.impl = The(calls[t].impls),
                        !.epoch = epoch, !.policyEpoch = policyEpoch]
    /\ Goto(t, "run")
    /\ PoliciesUnchanged /\ ManagerUnchanged /\ UNCHANGED <<binding, stale>>

OwnChoice(t) == /\ Candidates(Policy(t)) # {}
                /\ calls[t].impls = Foremost(Policy(t), Candidates(Policy(t)))

\* A call that has seen every change and still runs another choice is stale.
CountStale(t) ==
    stale' = [stale EXCEPT ![t] = IF calls[t].changed THEN @
                                  ELSE IF OwnChoice(t) THEN 0
                                  ELSE IF @ = 2 THEN 2 ELSE @ + 1]

RunReturns(t) ==
    /\ At(t, "run")
    /\ CountStale(t)
    /\ Set(t, Idle)
    /\ PoliciesUnchanged /\ ManagerUnchanged /\ CachesUnchanged

RunRaises(t) ==
    /\ At(t, "run")
    /\ calls[t].impls \subseteq Faulty
    /\ CountStale(t)
    /\ Goto(t, "failed")
    /\ PoliciesUnchanged /\ ManagerUnchanged /\ CachesUnchanged

\* Mutant: the failure is not recorded with the manager.
FallBackUnmarked(t) ==
    /\ At(t, "failed")
    /\ op' = [op EXCEPT !.impl = NoImpl, !.frozen = FALSE,
                        !.viaManager = @ \/ ~Policy(t).strict]
    /\ IF Policy(t).strict THEN Set(t, Idle) ELSE Goto(t, "manager")
    /\ PoliciesUnchanged /\ ManagerUnchanged /\ UNCHANGED <<binding, stale>>

\* The exception handler: strict mode raises, otherwise the implementation is
\* marked and this call and later ones go through OpManager.call.
FallBack(t) ==
    /\ At(t, "failed")
    /\ \/ /\ Policy(t).strict
          /\ op' = [op EXCEPT !.impl = NoImpl, !.frozen = FALSE]
          /\ Set(t, Idle)
          /\ UNCHANGED failed
       \/ /\ ~Policy(t).strict
          /\ op' = [op EXCEPT !.impl = NoImpl, !.frozen = FALSE, !.viaManager = TRUE]
          /\ failed' = failed \cup calls[t].impls
          /\ Goto(t, "manager")
    /\ PoliciesUnchanged /\ UNCHANGED <<epoch, initialized, binding, stale>>

\* What OpManager.call may run and mark: in fallback mode the candidates not
\* failed so far, in strict mode the first one, which it does not mark.
Tried(t) == LET p == Policy(t)
            IN  IF p.strict THEN Foremost(p, Candidates(p))
                            ELSE Candidates(p) \ failed

ManagerCall(t) ==
    /\ At(t, "manager")
    /\ Initialize
    /\ \E raised \in SUBSET (Tried(t) \cap Faulty) :
          failed' = IF Policy(t).strict THEN failed ELSE failed \cup raised
    /\ Set(t, Idle)
    /\ PoliciesUnchanged /\ CachesUnchanged /\ UNCHANGED stale

\* prewarm_cached_ops, which takes the policy epoch before it resolves.
Prewarm(t) ==
    /\ At(t, "idle")
    /\ Candidates(Policy(t)) # {}
    /\ Initialize
    /\ op' = [impl |-> The(Foremost(Policy(t), Candidates(Policy(t)))), frozen |-> TRUE,
              viaManager |-> FALSE, epoch |-> epoch', policyEpoch |-> policyEpoch]
    /\ PoliciesUnchanged /\ UNCHANGED <<failed, binding, calls, stale>>

----------------------------------------------------------------------------
\* OperatorBinding.__call__.

\* Mutant: the policy is not part of the key.
HitEpochs(t) == /\ binding.epoch = calls[t].epoch
                /\ binding.policyEpoch = calls[t].policyEpoch

\* Whether the cached candidates carry the key the call has read.
Hit(t) == /\ binding.epoch = calls[t].epoch
          /\ binding.policyEpoch = calls[t].policyEpoch
          /\ binding.policy = calls[t].policy

StartBinding(t) ==
    /\ At(t, "idle")
    /\ Set(t, [Idle EXCEPT !.pc = "lookup", !.policy = Policy(t), !.epoch = epoch,
                           !.policyEpoch = policyEpoch])
    /\ PoliciesUnchanged /\ ManagerUnchanged /\ CachesUnchanged /\ UNCHANGED stale

Lookup(t) ==
    /\ At(t, "lookup")
    /\ IF Hit(t)
       THEN Set(t, [calls[t] EXCEPT !.pc = "launch", !.by = binding.by,
                                    !.impls = binding.impls])
       ELSE Goto(t, "preflight")
    /\ PoliciesUnchanged /\ ManagerUnchanged /\ CachesUnchanged /\ UNCHANGED stale

\* resolve_candidates reads the policy itself.
Preflight(t) ==
    /\ At(t, "preflight")
    /\ Initialize
    /\ LET p == Policy(t)
       IN  IF Candidates(p) = {}
           THEN Set(t, Idle)
           ELSE Set(t, [calls[t] EXCEPT !.pc = "bind", !.by = p,
                                        !.impls = Candidates(p) \ failed])
    /\ PoliciesUnchanged /\ CachesUnchanged /\ UNCHANGED <<failed, stale>>

\* The key is made of the epochs of now and the policy of before.
Bind(t) ==
    /\ At(t, "bind")
    /\ binding' = [epoch |-> epoch, policyEpoch |-> policyEpoch,
                   policy |-> calls[t].policy, by |-> calls[t].by,
                   impls |-> calls[t].impls]
    /\ Goto(t, "launch")
    /\ PoliciesUnchanged /\ ManagerUnchanged /\ UNCHANGED <<op, stale>>

\* The binding's default order replaces the policy's.
OwnOrder(p) == p.prefer = "flagos" /\ ~p.explicit

\* Sorting is stable: where the default order says nothing, implementations
\* stay in the order of policy "by" they were resolved in.
Ahead(p, by, i, j) ==
    IF OwnOrder(p) /\ DefaultRank[i] # DefaultRank[j]
    THEN DefaultRank[i] < DefaultRank[j]
    ELSE Before(by, i, j)

First(p, by, S) == {i \in S : \A j \in S \ {i} : Ahead(p, by, i, j)}

\* The workload's guards and the default order are applied to a copy of the
\* candidates, under the policy of now.
Launch(t) ==
    /\ At(t, "launch")
    /\ \E w \in Workloads :
          LET supported == calls[t].impls \cap w
          IN  IF supported = {}
              THEN Set(t, Idle)
              ELSE Set(t, [calls[t] EXCEPT !.pc = "launched", !.workload = w,
                                 !.impls = First(Policy(t), calls[t].by, supported)])
    /\ PoliciesUnchanged /\ ManagerUnchanged /\ CachesUnchanged /\ UNCHANGED stale

\* Every error propagates and none is marked: the end is the same.
LaunchEnds(t) ==
    /\ At(t, "launched")
    /\ Set(t, Idle)
    /\ PoliciesUnchanged /\ ManagerUnchanged /\ CachesUnchanged /\ UNCHANGED stale

----------------------------------------------------------------------------
\* Changes.

MayChange == Quiet => \A t \in Threads : At(t, "idle")

NoteChange ==
    /\ calls' = [t \in Threads |-> IF At(t, "idle") THEN calls[t]
                                   ELSE [calls[t] EXCEPT !.changed = TRUE]]
    /\ stale' = [t \in Threads |-> 0]

BumpPolicyEpoch == policyEpoch < MaxEpoch /\ policyEpoch' = policyEpoch + 1

SetGlobalPolicy(p) ==
    /\ MayChange
    /\ p # global
    /\ global' = p
    /\ BumpPolicyEpoch
    /\ NoteChange
    /\ ManagerUnchanged /\ CachesUnchanged /\ UNCHANGED context

EnterContext(t, p) ==
    /\ Contexts /\ MayChange
    /\ At(t, "idle") /\ context[t] = NoPolicy
    /\ context' = [context EXCEPT ![t] = p]
    /\ BumpPolicyEpoch
    /\ NoteChange
    /\ ManagerUnchanged /\ CachesUnchanged /\ UNCHANGED global

ExitContext(t) ==
    /\ Contexts /\ MayChange
    /\ At(t, "idle") /\ context[t] # NoPolicy
    /\ context' = [context EXCEPT ![t] = NoPolicy]
    /\ BumpPolicyEpoch
    /\ NoteChange
    /\ ManagerUnchanged /\ CachesUnchanged /\ UNCHANGED global

\* OpManager.bump_policy_epoch, which also forgets the failures.
BumpManagerEpoch ==
    /\ MayChange
    /\ epoch < MaxEpoch /\ epoch' = epoch + 1
    /\ failed' = {}
    /\ NoteChange
    /\ PoliciesUnchanged /\ CachesUnchanged /\ UNCHANGED initialized

CachedOpNext(t) == \/ StartOp(t) \/ Check(t) \/ Read(t) \/ Resolve(t) \/ Publish(t)
                   \/ RunReturns(t) \/ RunRaises(t) \/ FallBack(t) \/ ManagerCall(t)
                   \/ Prewarm(t)

BindingNext(t) == \/ StartBinding(t) \/ Lookup(t) \/ Preflight(t) \/ Bind(t)
                  \/ Launch(t) \/ LaunchEnds(t)

Change == \/ \E p \in Policies : SetGlobalPolicy(p)
          \/ \E t \in Threads, p \in Policies : EnterContext(t, p)
          \/ \E t \in Threads : ExitContext(t)
          \/ BumpManagerEpoch

Next == \/ \E t \in Threads : CachedOpNext(t) \/ BindingNext(t)
        \/ Change

Spec == Init /\ [][Next]_vars

----------------------------------------------------------------------------
\* The fast path runs what the manager would choose for this thread now,
\* unless something changed under the call: no sequence of contexts, policy
\* changes, failures and warm-ups leaves an old choice behind.  Where threads
\* have different policies this fails: the cache has no policy in its key, and
\* what one thread resolves inside policy_context is run by the others.
OpRunsOwnChoice ==
    (\A t, u \in Threads : Policy(t) = Policy(u)) =>
        \A t \in Threads : At(t, "run") /\ ~calls[t].changed => OwnChoice(t)

\* A binding launches an implementation that this thread's policy admits now
\* and that supports the workload, and passes over a better one only if that
\* one has failed: better by the adapter's default order, or by the policy's
\* where it names an order for the operator or prefers another kind ("refreshed
\* when public policy changes"; "unsupported shapes do not disable an
\* implementation for later calls").  Except where something changed under the
\* call.
BindingRunsOwnChoice ==
    \A t \in Threads : At(t, "launched") /\ ~calls[t].changed =>
        LET p         == Policy(t)
            supported == Candidates(p) \cap calls[t].workload
        IN  \E i \in supported :
               /\ calls[t].impls = {i}
               /\ \A j \in supported \ {i} : Ahead(p, p, j, i) => j \in failed

\* A call whose fast path failed does not run the same implementation again
\* when it goes through the manager, unless the failures were forgotten.
NoSecondTry ==
    \A t \in Threads :
        At(t, "manager") /\ ~calls[t].changed /\ ~Policy(t).strict =>
            calls[t].impls \cap Tried(t) = {}

\* "A call may observe the previous impl once before the next epoch check
\* refreshes it": no thread runs an old choice twice after the last change.
StaleAtMostOnce == \A t \in Threads : stale[t] <= 1
=============================================================================
