----------------------------- MODULE OpDispatch -----------------------------
(***************************************************************************)
(* OpManager (dispatch/manager.py): threads call one operator while the    *)
(* policy changes, implementations are registered and fail, and the        *)
(* process forks.                                                          *)
(*                                                                         *)
(* A call reads the strict flag, makes sure the manager is initialized,    *)
(* reads the policy, reads the epoch, looks its cache up, computes and     *)
(* stores on a miss, all without the manager's lock; in fallback mode it   *)
(* then tries one implementation after another.  Every such read is a step *)
(* of its own.  The lock is a variable because only ensure_initialized     *)
(* keeps it from one step to the next; the other critical sections are one *)
(* step each and need it to be free.                                       *)
(*                                                                         *)
(* A candidate list is the set of its members: which of them is tried      *)
(* first is Foremost of OpSelection, and the run of OpRegistry shows that  *)
(* the lists of the code are ordered that way.                             *)
(***************************************************************************)
EXTENDS OpSelection

CONSTANTS Threads,      \* threads of the process that call the operator
          NoThread,     \* the manager's lock is free
          Policies,     \* policies the process goes through
          Builtins,     \* what register_builtins registers
          Core,         \* those of them registered before vendor detection
          Faulty,       \* implementations that may raise; the others never do
          Faults,       \* what may go wrong, a subset of AllFaults
          MaxEpoch      \* bump_policy_epoch is not called from there on

\* missing: a backend cannot be imported, which is logged.  detection: vendor
\* detection raises.  fork: one thread forks and the child is followed.
AllFaults == {"missing", "detection", "fork"}

ASSUME DispatchAssumption ==
    /\ IsFiniteSet(Threads) /\ NoThread \notin Threads
    /\ Builtins \subseteq Impls
    /\ Core \subseteq Builtins
    /\ Faulty \subseteq Impls
    /\ Faults \subseteq AllFaults
    /\ Policies # {} /\ \A p \in Policies : p.strict \in BOOLEAN
    /\ MaxEpoch \in Nat

VARIABLES policy,       \* what get_policy() returns
          registered,   \* the registry's implementations of the operator
          process,      \* "parent", or "child" after the fork
          initIn,       \* the process that set initialized and init_pid, or "none"
          lock,         \* owner of OpManager._lock
          epoch,        \* _state.policy_epoch
          dispatchCache,   \* _dispatch_cache: {[policy, epoch, chosen]}
          candidatesCache, \* _candidates_cache: {[policy, epoch, chosen]}
          failed,       \* _failed_impls[op]
          calls,        \* the call each thread is in
          dirty,        \* history: registered since the last epoch bump
          failures      \* history: failures of each implementation in
                        \* fallback mode since the failed set was last cleared

vars == <<policy, registered, process, initIn, lock, epoch, dispatchCache,
          candidatesCache, failed, calls, dirty, failures>>

PCs == {"idle", "init", "register", "policy", "epoch", "lookup", "store",
        "filter", "run", "mark", "atfork", "gone"}

\* A thread's call: where it is, what it has read (enable_fallback negated,
\* policy, epoch, candidates), which candidates it has not tried yet, and
\* whether the last call ended with an error.
Call == [pc : PCs, strict : BOOLEAN, policy : Policies, epoch : Nat,
         chosen : SUBSET Impls, left : SUBSET Impls, error : BOOLEAN]

Entries == [policy : Policies, epoch : Nat, chosen : SUBSET Impls]

Idle == [pc |-> "idle", strict |-> FALSE, policy |-> CHOOSE p \in Policies : TRUE,
         epoch |-> 0, chosen |-> {}, left |-> {}, error |-> FALSE]

TypeOK ==
    /\ policy \in Policies
    /\ registered \subseteq Impls
    /\ process \in {"parent", "child"}
    /\ initIn \in {"none", "parent", "child"}
    /\ lock \in Threads \cup {NoThread}
    /\ epoch \in Nat
    /\ dispatchCache \subseteq Entries
    /\ candidatesCache \subseteq Entries
    /\ failed \subseteq Impls
    /\ calls \in [Threads -> Call]
    /\ dirty \in BOOLEAN
    /\ failures \in [Impls -> Nat]

Init ==
    /\ policy \in Policies
    /\ registered = {}
    /\ process = "parent" /\ initIn = "none"
    /\ lock = NoThread
    /\ epoch = 0
    /\ dispatchCache = {} /\ candidatesCache = {}
    /\ failed = {}
    /\ calls = [t \in Threads |-> Idle]
    /\ dirty = FALSE
    /\ failures = [i \in Impls |-> 0]

----------------------------------------------------------------------------
\* What a call selects, in strict mode the first candidate alone.

Candidates(p) == Selectable(p, ComputeCandidates(p, registered, Impls))

Primary(p) == Foremost(p, Candidates(p))

\* Mutant: the caches are keyed by the epoch alone.
KeyEpoch(p, e) == [policy |-> Idle.policy, epoch |-> e]
Key(p, e) == [policy |-> p, epoch |-> e]

Hits(cache, p, e) == {c \in cache : Key(c.policy, c.epoch) = Key(p, e)}

Put(cache, p, e, chosen) ==
    (cache \ Hits(cache, p, e)) \cup {[policy |-> p, epoch |-> e, chosen |-> chosen]}

At(t, pc) == calls[t].pc = pc

Set(t, call) == calls' = [calls EXCEPT ![t] = call]

Goto(t, pc) == Set(t, [calls[t] EXCEPT !.pc = pc])

Return(t) == Set(t, Idle)

\* The call raises; what it had to choose from stays visible.
Raise(t) == Set(t, [Idle EXCEPT !.strict = calls[t].strict,
                                !.chosen = calls[t].chosen, !.error = TRUE])

ClearCaches == dispatchCache' = {} /\ candidatesCache' = {}

ForgetFailures == failed' = {} /\ failures' = [i \in Impls |-> 0]

ManagerUnchanged == UNCHANGED <<process, initIn, lock, epoch>>
CachesUnchanged  == UNCHANGED <<dispatchCache, candidatesCache>>
OthersUnchanged  == UNCHANGED <<policy, registered, failed, dirty, failures>>
StateUnchanged   == ManagerUnchanged /\ CachesUnchanged /\ OthersUnchanged

----------------------------------------------------------------------------
\* One call.

StartCall(t) ==
    /\ At(t, "idle")
    /\ Set(t, [Idle EXCEPT !.pc = "init", !.strict = policy.strict])
    /\ StateUnchanged

\* ensure_initialized: the state is set first, the registration follows, both
\* under the lock.
EnsureInitialized(t) ==
    /\ At(t, "init")
    /\ lock = NoThread
    /\ \/ /\ initIn = process
          /\ Goto(t, "policy")
          /\ UNCHANGED <<initIn, lock>>
       \/ /\ initIn # process
          /\ initIn' = process
          /\ lock' = t
          /\ Goto(t, "register")
    /\ UNCHANGED <<process, epoch>> /\ CachesUnchanged /\ OthersUnchanged

RegisterBuiltins(t) ==
    /\ At(t, "register")
    /\ \E found \in SUBSET Builtins :
          /\ "missing" \notin Faults => found = Builtins
          /\ registered' = registered \cup found
    /\ epoch' = epoch + 1
    /\ ClearCaches
    /\ dirty' = FALSE
    /\ lock' = NoThread
    /\ Goto(t, "policy")
    /\ UNCHANGED <<policy, process, initIn, failed, failures>>

\* Mutant: the exception leaves the lock taken.
RegistrationKeepsLock(t) ==
    /\ "detection" \in Faults
    /\ At(t, "register")
    /\ Raise(t)
    /\ UNCHANGED <<process, initIn, epoch, lock>>
    /\ CachesUnchanged /\ OthersUnchanged

\* _get_current_vendor_backend_dirs raises out of register_builtins and out of
\* the with statement: initialized stays set, the epoch is not bumped.
RegistrationRaises(t) ==
    /\ "detection" \in Faults
    /\ At(t, "register")
    /\ \E found \in SUBSET Core :
          /\ "missing" \notin Faults => found = Core
          /\ registered' = registered \cup found
    /\ lock' = NoThread
    /\ Raise(t)
    /\ UNCHANGED <<policy, process, initIn, epoch, failed, dirty, failures>>
    /\ CachesUnchanged

GetPolicy(t) ==
    /\ At(t, "policy")
    /\ Set(t, [calls[t] EXCEPT !.pc = "epoch", !.policy = policy])
    /\ StateUnchanged

ReadEpoch(t) ==
    /\ At(t, "epoch")
    /\ Set(t, [calls[t] EXCEPT !.pc = "lookup", !.epoch = epoch])
    /\ StateUnchanged

\* Where the call goes on when it knows its candidates.
Selected(t) == IF calls[t].strict THEN "run" ELSE "filter"

CacheHit(t) ==
    /\ At(t, "lookup")
    /\ LET cache == IF calls[t].strict THEN dispatchCache ELSE candidatesCache
       IN  \E c \in Hits(cache, calls[t].policy, calls[t].epoch) :
             Set(t, [calls[t] EXCEPT !.pc = Selected(t), !.chosen = c.chosen,
                                     !.left = c.chosen])
    /\ StateUnchanged

CacheMiss(t) ==
    /\ At(t, "lookup")
    /\ LET cache == IF calls[t].strict THEN dispatchCache ELSE candidatesCache
       IN  Hits(cache, calls[t].policy, calls[t].epoch) = {}
    /\ LET chosen == IF calls[t].strict THEN Primary(calls[t].policy)
                                        ELSE Candidates(calls[t].policy)
       IN  \/ /\ chosen = {}
              /\ Raise(t)
           \/ /\ chosen # {}
              /\ Set(t, [calls[t] EXCEPT !.pc = "store", !.chosen = chosen,
                                         !.left = chosen])
    /\ StateUnchanged

\* Mutant: the epoch of the key is read when the entry is stored.
StoreNow(t) ==
    /\ At(t, "store")
    /\ ~calls[t].strict
    /\ candidatesCache' = Put(candidatesCache, calls[t].policy, epoch, calls[t].chosen)
    /\ UNCHANGED dispatchCache
    /\ Goto(t, Selected(t))
    /\ ManagerUnchanged /\ OthersUnchanged

Store(t) ==
    /\ At(t, "store")
    /\ LET c == calls[t]
       IN  \/ /\ c.strict
              /\ dispatchCache' = Put(dispatchCache, c.policy, c.epoch, c.chosen)
              /\ UNCHANGED candidatesCache
           \/ /\ ~c.strict
              /\ candidatesCache' = Put(candidatesCache, c.policy, c.epoch, c.chosen)
              /\ UNCHANGED dispatchCache
    /\ Goto(t, Selected(t))
    /\ ManagerUnchanged /\ OthersUnchanged

\* Mutant: nothing is left out.
FilterNothing(t) == /\ At(t, "filter")
                    /\ Goto(t, "run")
                    /\ StateUnchanged

\* Those that failed before are left out, read without the lock.
Filter(t) ==
    /\ At(t, "filter")
    /\ LET left == calls[t].chosen \ failed
       IN  \/ left = {} /\ Raise(t)
           \/ left # {} /\ Set(t, [calls[t] EXCEPT !.pc = "run", !.left = left])
    /\ StateUnchanged

\* The implementation that runs next, as a set.
Turn(t) == Foremost(calls[t].policy, calls[t].left)

RunReturns(t) ==
    /\ At(t, "run")
    /\ Return(t)
    /\ StateUnchanged

RunRaises(t) ==
    /\ At(t, "run")
    /\ Turn(t) \subseteq Faulty
    /\ \/ /\ calls[t].strict
          /\ Raise(t)
          /\ UNCHANGED failures
       \/ /\ ~calls[t].strict
          /\ Goto(t, "mark")
          /\ failures' = [i \in Impls |-> IF i \in Turn(t) THEN failures[i] + 1
                                                      ELSE failures[i]]
    /\ UNCHANGED <<policy, registered, failed, dirty>>
    /\ ManagerUnchanged /\ CachesUnchanged

\* Mutant: the loop advances before it marks.
MarkNext(t) ==
    /\ At(t, "mark")
    /\ lock = NoThread
    /\ LET left == calls[t].left \ Turn(t)
       IN  \/ left = {} /\ Raise(t) /\ UNCHANGED failed
           \/ /\ left # {}
              /\ failed' = failed \cup Foremost(calls[t].policy, left)
              /\ Set(t, [calls[t] EXCEPT !.pc = "run", !.left = left])
    /\ UNCHANGED <<policy, registered, dirty, failures>>
    /\ ManagerUnchanged /\ CachesUnchanged

\* _mark_failed_impl, then the next candidate, or the error after the last.
MarkFailed(t) ==
    /\ At(t, "mark")
    /\ lock = NoThread
    /\ failed' = failed \cup Turn(t)
    /\ LET left == calls[t].left \ Turn(t)
       IN  \/ left = {} /\ Raise(t)
           \/ left # {} /\ Set(t, [calls[t] EXCEPT !.pc = "run", !.left = left])
    /\ UNCHANGED <<policy, registered, dirty, failures>>
    /\ ManagerUnchanged /\ CachesUnchanged

----------------------------------------------------------------------------
\* The application around the calls; in the child not before its handler ends.

Running == \A t \in Threads : ~At(t, "atfork")

SetGlobalPolicy(p) ==
    /\ Running
    /\ policy' = p
    /\ UNCHANGED <<registered, failed, calls, dirty, failures>>
    /\ ManagerUnchanged /\ CachesUnchanged

\* registry.register_impl at run time, as glm5/indexer_backend.py does, which
\* then calls bump_policy_epoch.
RegisterImpl(i) ==
    /\ Running
    /\ i \notin Builtins \cup registered
    /\ registered' = registered \cup {i}
    /\ dirty' = TRUE
    /\ UNCHANGED <<policy, failed, calls, failures>>
    /\ ManagerUnchanged /\ CachesUnchanged

BumpPolicyEpoch ==
    /\ Running
    /\ lock = NoThread
    /\ epoch < MaxEpoch
    /\ epoch' = epoch + 1
    /\ ClearCaches
    /\ ForgetFailures
    /\ dirty' = FALSE
    /\ UNCHANGED <<policy, registered, process, initIn, lock, calls>>

ClearFailedImpls ==
    /\ Running
    /\ lock = NoThread
    /\ failed # {}
    /\ ForgetFailures
    /\ UNCHANGED <<policy, registered, calls, dirty>>
    /\ ManagerUnchanged /\ CachesUnchanged

\* os.fork() in a thread that is in no call: the child has this thread only,
\* and the lock as it was.
Fork(t) ==
    /\ "fork" \in Faults
    /\ process = "parent"
    /\ At(t, "idle")
    /\ process' = "child"
    /\ calls' = [u \in Threads |-> [Idle EXCEPT !.pc = IF u = t THEN "atfork"
                                                               ELSE "gone"]]
    /\ UNCHANGED <<initIn, lock, epoch>> /\ CachesUnchanged /\ OthersUnchanged

ResetAfterFork(t) ==
    /\ At(t, "atfork")
    /\ lock = NoThread
    /\ initIn' = "none"
    /\ epoch' = epoch + 1
    /\ ClearCaches
    /\ ForgetFailures
    /\ Return(t)
    /\ UNCHANGED <<policy, registered, process, lock, dirty>>

----------------------------------------------------------------------------
Resolve(t) == \/ EnsureInitialized(t) \/ RegisterBuiltins(t) \/ RegistrationRaises(t)
              \/ GetPolicy(t) \/ ReadEpoch(t) \/ CacheHit(t) \/ CacheMiss(t)
              \/ Store(t)

Step(t) == \/ Resolve(t) \/ Filter(t) \/ RunReturns(t) \/ RunRaises(t)
           \/ MarkFailed(t) \/ ResetAfterFork(t)

Application == \/ \E p \in Policies : SetGlobalPolicy(p)
               \/ \E i \in Impls : RegisterImpl(i)
               \/ BumpPolicyEpoch
               \/ ClearFailedImpls

Next == \/ \E t \in Threads : StartCall(t) \/ Step(t) \/ Fork(t)
        \/ Application

Spec == Init /\ [][Next]_vars

----------------------------------------------------------------------------
Chosen == {"store", "filter", "run", "mark"}

\* What a call is about to run is registered, permitted and selectable under
\* a policy that was in force during this very call, whoever filled the cache
\* it came from and whatever changed in the meantime.
PolicyRespected ==
    \A t \in Threads : calls[t].pc \in Chosen =>
        /\ calls[t].left \subseteq calls[t].chosen
        /\ calls[t].chosen \subseteq Candidates(calls[t].policy)

\* Once what was registered at run time is followed by bump_policy_epoch, the
\* entries a new call can hit are what it would compute itself: no call that
\* computed from the older registry can still store under the new epoch.
CachesExact ==
    ~dirty =>
        /\ \A c \in candidatesCache : c.epoch = epoch =>
                c.chosen = Candidates(c.policy)
        /\ \A c \in dispatchCache : c.epoch = epoch =>
                c.chosen = Primary(c.policy)

\* As long as one candidate never fails, a call in fallback mode does not end
\* with an error, whatever other calls have marked as failed.
NeverGivesUp ==
    \A t \in Threads :
        calls[t].error /\ ~calls[t].strict => calls[t].chosen \subseteq Faulty

\* A failing implementation is remembered: between two clearings every thread
\* runs into it at most once, so it fails at most once per thread.
FailsOncePerThread ==
    \A i \in Impls : failures[i] <= Cardinality(Threads)

\* Only a thread that is registering keeps the manager's lock, so every way out
\* of the registration gives it back; the exception is a child whose parent
\* forked while another thread held it, which nobody in the child can release.
LockReleased ==
    lock # NoThread => At(lock, "register") \/ At(lock, "gone")
=============
