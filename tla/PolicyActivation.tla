-------------------------- MODULE PolicyActivation --------------------------
(***************************************************************************)
(* A worker process binds itself to one model (vllm_fl/activation.py,      *)
(* models/glm5/worker.py): the model's plan patches class attributes and   *)
(* contributes defaults to the dispatch policy (dispatch/policy.py), below *)
(* what the user said and above what the platform's file says.             *)
(*                                                                         *)
(* Threads start models, and build layers under patches that last as long  *)
(* as a constructor; meanwhile the policy is read, set and reset, and code *)
(* that does not take the lock may replace an attribute.  What is selected *)
(* for the operator Op comes from OpSelection; Ops are the operators an    *)
(* order may name.                                                         *)
(***************************************************************************)
EXTENDS OpSelection

CONSTANTS
    Threads, Models, Ops, Op,
    Plans,       \* plans, by fingerprint
    EmptyPlan,   \* _EMPTY_PLAN, of a model that needs none
    PlanOf,      \* what the providers answer for a model
    Defaults,    \* moe_defaults of a plan: order, required, whitelist
    Patches,     \* the attributes a plan patches
    Attrs,
    Baseline,    \* those whose pristine value was read at import
    TempAttr,    \* patched while a layer is built
    ForeignAttrs,\* those other code may replace
    Envs,        \* what the environment and the platform's file may say
    Policies,    \* what set_global_policy may be given
    None, Pristine, Foreign,
    MaxBuilds    \* bound: layers built by a thread

ASSUME PlansAssumption ==
    /\ EmptyPlan \in Plans /\ PlanOf \in [Models -> Plans]
    /\ Patches \in [Plans -> SUBSET (Attrs \ {TempAttr})]
    /\ Patches[EmptyPlan] = {}
    /\ TempAttr \in Attrs
    /\ None \notin Plans \cup Threads /\ Plans \cap Threads = {}
    /\ MaxBuilds \in Nat

VARIABLES
    env,       \* the environment and the platform's file of this process
    explicit,  \* _explicit_policy
    cached,    \* _global_policy
    active,    \* _active_plan
    planLock, patchLock,
    attr,      \* the value of an attribute: pristine, foreign, or a patch
    record,    \* _patch_records: who owns it
    pc, model,
    seen,      \* the pristine values of a batch, as its patches give them
    todo, batch, \* of the running bind_patches: not yet installed, all
    builds,
    validated, \* the policy a thread has validated
    changed,   \* the policy was set or reset after this validation
    window,    \* the cached policy was built between refresh and publish
    halfway    \* an activation has failed at its refresh

policyVars == <<env, explicit, cached, window, changed>>
patchVars == <<patchLock, attr, record, seen, todo, batch>>
threadVars == <<pc, model, builds, validated>>
vars == <<policyVars, patchVars, threadVars, active, planLock, halfway>>

Free == None
NoDefaults == [order |-> <<>>, required |-> <<>>, whitelist |-> {}]
IsEmpty(d) == d.order = <<>> /\ d.required = <<>> /\ d.whitelist = {}

(* get_active_moe_defaults.                                                *)
ActiveDefaults == IF active = None THEN NoDefaults ELSE Defaults[active]

-----------------------------------------------------------------------------
(* The layers of a policy.  perOp maps the operators an order was given    *)
(* for to that order.                                                      *)

(* merge_per_op_defaults.                                                  *)
MergePerOp(d, given, fallback) == given @@ d.order @@ fallback

(* _raise_on_capability_conflict: the first token of an explicit order     *)
(* does not satisfy the plan.                                              *)
Conflicting(d, given) ==
    \E o \in DOMAIN d.required \cap DOMAIN given :
        given[o] # <<>> /\ given[o][1] \notin d.required[o]

(* The environment's layers: a file of the user's replaces all others; else*)
(* what a variable says goes before the platform's file.  _env_explicit_   *)
(* per_op and _env_fallback_per_op are the orders of the two.              *)
Said(said, platform, default) ==
    IF said # None THEN said ELSE IF env.platform # None THEN platform ELSE default
EnvBase == IF env.file # None THEN env.file ELSE
    [prefer |-> Said(env.said.prefer, env.platform.prefer, "flagos"),
     deny   |-> Said(env.said.deny, env.platform.deny, {}),
     allow  |-> Said(env.said.allow, env.platform.allow, AnyVendor),
     perOp  |-> <<>>]
EnvGiven == IF env.file # None THEN env.file.perOp ELSE env.said.perOp
EnvFallback == IF env.file = None /\ env.platform # None THEN env.platform.perOp
               ELSE <<>>

(* _policy_from_env and _merge_plan_defaults.  Without a plan an explicit  *)
(* order for any operator sets the platform's orders of all aside.         *)
PolicyFromEnv(d) == [EnvBase EXCEPT !.perOp =
    IF ~IsEmpty(d) THEN MergePerOp(d, EnvGiven, EnvFallback)
    ELSE IF EnvGiven # <<>> THEN EnvGiven ELSE EnvFallback]

(* _merged_explicit_policy.                                                *)
MergedExplicit(d) == IF IsEmpty(d) THEN explicit
    ELSE [explicit EXCEPT !.perOp = MergePerOp(d, @, <<>>)]

(* get_policy raises, or what it returns.                                  *)
GetPolicyRaises ==
    IF explicit # None THEN Conflicting(ActiveDefaults, explicit.perOp)
    ELSE cached = None /\ Conflicting(ActiveDefaults, EnvGiven)
EffectivePolicy ==
    IF explicit # None THEN MergedExplicit(ActiveDefaults)
    ELSE IF cached # None THEN cached ELSE PolicyFromEnv(ActiveDefaults)

(* policy_for_plan: the policy there will be, from the layers below it.    *)
Base == IF explicit # None THEN explicit
        ELSE IF cached # None THEN cached ELSE PolicyFromEnv(ActiveDefaults)
Given == IF explicit # None THEN explicit.perOp ELSE EnvGiven
Fallback == IF explicit # None THEN <<>> ELSE EnvFallback

(* Mutant: the policy of before the activation.                            *)
PolicyForPlanStale(d) == Base

PolicyForPlan(d) == IF IsEmpty(d) THEN Base
    ELSE [Base EXCEPT !.perOp = MergePerOp(d, Given, Fallback)]
PolicyForPlanRaises(d) ==
    \/ explicit = None /\ cached = None /\ Conflicting(ActiveDefaults, EnvGiven)
    \/ ~IsEmpty(d) /\ Conflicting(d, Given)

(* The cache a call of get_policy or policy_for_plan leaves.               *)
InWindow == \E t \in Threads : pc[t] = "publish"
FillCache ==
    IF explicit = None /\ cached = None /\ ~Conflicting(ActiveDefaults, EnvGiven)
    THEN cached' = PolicyFromEnv(ActiveDefaults) /\ window' = InWindow
    ELSE UNCHANGED <<cached, window>>

-----------------------------------------------------------------------------
(* What a policy selects for Op, and whether a plan accepts it.            *)

OrderOf(policy, o) == IF o \in DOMAIN policy.perOp THEN policy.perOp[o] ELSE <<>>
OpPolicy(policy) == [prefer |-> policy.prefer, order |-> OrderOf(policy, Op),
                     deny |-> policy.deny, allow |-> policy.allow]
Candidates(policy) == LET p == OpPolicy(policy)
    IN Selectable(p, ComputeCandidates(p, Impls, Impls))

(* _impl_token.                                                            *)
ImplToken(i) == IF Kind[i] = "vendor" THEN [type |-> "vendor", name |-> Vendor[i]]
                ELSE KindToken(Kind[i])

Reachable(candidates, order) ==
    {i \in candidates : \E k \in DOMAIN order : MatchToken(i, order[k])}

(* The orders under which validate_plan_capability asks: the policy's, and *)
(* the plan's, as far as they say anything.                                *)
OrdersAsked(d, policy) ==
    {OrderOf(policy, Op), IF Op \in DOMAIN d.order THEN d.order[Op] ELSE <<>>} \ {<<>>}

(* Mutant: one acceptable implementation is enough.                        *)
CapableOfSome(d, policy) ==
    Op \in DOMAIN d.required =>
        \E i \in Candidates(policy) : ImplToken(i) \in d.required[Op]

(* validate_plan_capability.                                               *)
Capable(d, policy) == Op \in DOMAIN d.required =>
    LET candidates == Candidates(policy)
        orders == OrdersAsked(d, policy)
        Accepts(S) == S # {} /\ \A i \in S : ImplToken(i) \in d.required[Op]
    IN /\ candidates # {}
       /\ IF orders = {} THEN Accepts(candidates)
          ELSE \A order \in orders : Accepts(Reachable(candidates, order))

-----------------------------------------------------------------------------
Init ==
    /\ env \in Envs
    /\ explicit = None /\ cached = None /\ active = None
    /\ planLock = Free /\ patchLock = Free
    /\ attr = [a \in Attrs |-> Pristine]
    /\ record = [a \in Attrs |-> None]
    /\ pc = [t \in Threads |-> "idle"]
    /\ model \in [Threads -> Models]
    /\ seen = [t \in Threads |-> <<>>]
    /\ todo = [t \in Threads |-> {}]
    /\ batch = [t \in Threads |-> {}]
    /\ builds = [t \in Threads |-> 0]
    /\ validated = [t \in Threads |-> None]
    /\ changed = [t \in Threads |-> FALSE]
    /\ window = FALSE /\ halfway = FALSE

Plan(t) == PlanOf[model[t]]
Goto(t, place) == pc' = [pc EXCEPT ![t] = place]
Continue(t, place) == Goto(t, place) /\ UNCHANGED <<model, builds, validated>>

(* The policy of the process, at any time and from any thread.             *)
GetPolicy ==
    /\ explicit = None /\ cached = None /\ ~GetPolicyRaises
    /\ FillCache
    /\ UNCHANGED <<env, explicit, changed, patchVars, threadVars, active, planLock,
                   halfway>>

ReplacePolicy(p) ==
    /\ explicit' = p /\ cached' = None /\ window' = FALSE
    /\ changed' = [t \in Threads |-> TRUE]
    /\ UNCHANGED <<env, patchVars, threadVars, active, planLock, halfway>>

(* set_global_policy asks for the old policy first, and raises with it.    *)
SetGlobalPolicy(p) == ~GetPolicyRaises /\ ReplacePolicy(p)

ResetGlobalPolicy == ReplacePolicy(None)

ForeignPatch(a) ==
    /\ attr[a] # Foreign
    /\ attr' = [attr EXCEPT ![a] = Foreign]
    /\ UNCHANGED <<policyVars, patchLock, record, seen, todo, batch, threadVars,
                   active, planLock, halfway>>

-----------------------------------------------------------------------------
(* initialize_glm5_worker.                                                 *)

(* preflight_activation_config: the plan is resolved, and a whitelist must *)
(* hold all it needs; without a plan, all the active one needs.            *)
Preflight(t) ==
    /\ pc[t] = "idle"
    /\ LET d == IF Plan(t) = EmptyPlan THEN ActiveDefaults ELSE Defaults[Plan(t)]
       IN IF env.whitelist # None /\ ~(d.whitelist \subseteq env.whitelist)
          THEN Continue(t, "raised")
          ELSE IF Plan(t) = EmptyPlan THEN Continue(t, "activate")
          ELSE Continue(t, "validate")
    /\ UNCHANGED <<policyVars, patchVars, active, planLock, halfway>>

(* policy_for_plan and, in its context, validate_plan_capability.          *)
ValidateCapability(t) ==
    LET d == Defaults[Plan(t)]
        raises == PolicyForPlanRaises(d)
    IN /\ pc[t] = "validate"
       /\ FillCache
       /\ IF ~raises /\ Capable(d, PolicyForPlan(d))
          THEN /\ Goto(t, "activate")
               /\ validated' = [validated EXCEPT ![t] = PolicyForPlan(d)]
          ELSE Goto(t, "raised") /\ UNCHANGED validated
       /\ changed' = [changed EXCEPT ![t] = FALSE]
       /\ UNCHANGED <<env, explicit, patchVars, model, builds, active, planLock,
                      halfway>>

ActiveGoes(t) ==
    Continue(t, IF active = Plan(t) THEN "done" ELSE "raised")

BeginActivation(t) ==
    /\ planLock' = t
    /\ Continue(t, IF Patches[Plan(t)] = {} THEN "refresh" ELSE "stage")

(* Mutant: a plan that is active does not stop another.                    *)
ActivateAnyway(t) ==
    /\ pc[t] = "activate" /\ planLock = Free
    /\ BeginActivation(t)
    /\ UNCHANGED <<policyVars, patchVars, active, halfway>>

(* activate: at most one plan, under the lock.                             *)
Activate(t) ==
    /\ pc[t] = "activate" /\ planLock = Free
    /\ IF active # None THEN ActiveGoes(t) /\ UNCHANGED planLock ELSE BeginActivation(t)
    /\ UNCHANGED <<policyVars, patchVars, active, halfway>>

(* plan.apply makes its patches: each has the value to be found and to be  *)
(* restored, of the import or of now.                                      *)
Stage(t) ==
    /\ pc[t] = "stage"
    /\ seen' = [seen EXCEPT ![t] = [a \in Patches[Plan(t)] |->
                    IF a \in Baseline THEN Pristine ELSE attr[a]]]
    /\ Continue(t, "bind")
    /\ UNCHANGED <<policyVars, patchLock, attr, record, todo, batch, active, planLock,
                   halfway>>

(* preflight_patches for patches of owner.                                 *)
Refused(t, owner, installed) == \E a \in DOMAIN seen[t] :
    \/ record[a] = owner /\ attr[a] # installed
    \/ record[a] \notin {None, owner}
    \/ record[a] = None /\ attr[a] # seen[t][a]
ToApply(t) == {a \in DOMAIN seen[t] : record[a] = None}

(* bind_patches: preflight, install and roll back under one lock.          *)
BindPatches(t) ==
    /\ pc[t] = "bind" /\ patchLock = Free
    /\ IF Refused(t, Plan(t), Plan(t))
       THEN /\ planLock' = Free
            /\ Continue(t, "raised")
            /\ UNCHANGED <<patchLock, todo, batch>>
       ELSE /\ patchLock' = t
            /\ todo' = [todo EXCEPT ![t] = ToApply(t)]
            /\ batch' = [batch EXCEPT ![t] = ToApply(t)]
            /\ Continue(t, "install")
            /\ UNCHANGED planLock
    /\ UNCHANGED <<policyVars, attr, record, seen, active, halfway>>

Install(t) ==
    /\ pc[t] = "install"
    /\ \E a \in todo[t] :
        /\ attr' = [attr EXCEPT ![a] = Plan(t)]
        /\ record' = [record EXCEPT ![a] = Plan(t)]
        /\ todo' = [todo EXCEPT ![t] = @ \ {a}]
    /\ UNCHANGED <<policyVars, patchLock, seen, batch, threadVars, active, planLock,
                   halfway>>

Installed(t) ==
    /\ pc[t] = "install" /\ todo[t] = {}
    /\ patchLock' = Free
    /\ Continue(t, "refresh")
    /\ UNCHANGED <<policyVars, attr, record, seen, todo, batch, active, planLock,
                   halfway>>

Restored(t, S) ==
    /\ attr' = [a \in Attrs |-> IF a \in S THEN seen[t][a] ELSE attr[a]]
    /\ record' = [a \in Attrs |-> IF a \in S THEN None ELSE record[a]]

(* Mutant: what was installed before stays.                                *)
InstallFailsAlone(t) ==
    /\ pc[t] = "install" /\ todo[t] # {}
    /\ patchLock' = Free /\ planLock' = Free
    /\ Continue(t, "raised")
    /\ UNCHANGED <<policyVars, attr, record, seen, todo, batch, active, halfway>>

(* A patch cannot be set: the others are taken back.                       *)
InstallFails(t) ==
    /\ pc[t] = "install" /\ todo[t] # {}
    /\ Restored(t, batch[t] \ todo[t])
    /\ patchLock' = Free /\ planLock' = Free
    /\ Continue(t, "raised")
    /\ UNCHANGED <<policyVars, seen, todo, batch, active, halfway>>

(* Mutant: the environment's policy stays cached.                          *)
RefreshNothing(t) ==
    /\ pc[t] = "refresh"
    /\ Continue(t, "publish")
    /\ UNCHANGED <<policyVars, patchVars, active, planLock, halfway>>

(* _invalidate_dispatch_policy.                                            *)
Refresh(t) ==
    /\ pc[t] = "refresh"
    /\ cached' = None /\ window' = FALSE
    /\ Continue(t, "publish")
    /\ UNCHANGED <<env, explicit, changed, patchVars, active, planLock, halfway>>

(* Mutant: the lock stays taken.                                           *)
RefreshKeepsLock(t) ==
    /\ pc[t] = "refresh"
    /\ halfway' = TRUE
    /\ Continue(t, "raised")
    /\ UNCHANGED <<policyVars, patchVars, active, planLock>>

(* It fails: the plan is not active, its patches stay.                     *)
RefreshFails(t) ==
    /\ pc[t] = "refresh"
    /\ planLock' = Free
    /\ halfway' = TRUE
    /\ Continue(t, "raised")
    /\ UNCHANGED <<policyVars, patchVars, active>>

Publish(t) ==
    /\ pc[t] = "publish"
    /\ active' = Plan(t)
    /\ planLock' = Free
    /\ Continue(t, "done")
    /\ UNCHANGED <<policyVars, patchVars, halfway>>

-----------------------------------------------------------------------------
(* temporary_patches around a constructor.  The value to be restored is    *)
(* read before the lock is taken.                                          *)
StageTemporary(t) ==
    /\ pc[t] = "done" /\ active # EmptyPlan /\ builds[t] < MaxBuilds
    /\ seen' = [seen EXCEPT ![t] = [a \in {TempAttr} |-> attr[a]]]
    /\ builds' = [builds EXCEPT ![t] = @ + 1]
    /\ Goto(t, "enter")
    /\ UNCHANGED <<policyVars, patchLock, attr, record, todo, batch, model, validated,
                   active, planLock, halfway>>

EnterTemporary(t) ==
    /\ pc[t] = "enter" /\ patchLock = Free
    /\ IF Refused(t, t, t)
       THEN Continue(t, "raised") /\ UNCHANGED <<patchLock, attr, record>>
       ELSE /\ patchLock' = t
            /\ attr' = [attr EXCEPT ![TempAttr] = t]
            /\ record' = [record EXCEPT ![TempAttr] = t]
            /\ Continue(t, "body")
    /\ UNCHANGED <<policyVars, seen, todo, batch, active, planLock, halfway>>

(* The constructor returns or raises.                                      *)
ExitTemporary(t) ==
    /\ pc[t] = "body"
    /\ Restored(t, {TempAttr})
    /\ patchLock' = Free
    /\ \E end \in {"done", "raised"} : Continue(t, end)
    /\ UNCHANGED <<policyVars, seen, todo, batch, active, planLock, halfway>>

-----------------------------------------------------------------------------
Step(t) ==
    \/ Preflight(t) \/ ValidateCapability(t) \/ Activate(t)
    \/ Stage(t) \/ BindPatches(t) \/ Install(t) \/ Installed(t) \/ InstallFails(t)
    \/ Refresh(t) \/ RefreshFails(t) \/ Publish(t)
    \/ EnterTemporary(t) \/ ExitTemporary(t)

Next ==
    \/ \E t \in Threads : Step(t) \/ StageTemporary(t)
    \/ GetPolicy \/ ResetGlobalPolicy
    \/ \E p \in Policies : SetGlobalPolicy(p)
    \/ \E a \in ForeignAttrs : ForeignPatch(a)

Spec == Init /\ [][Next]_vars

-----------------------------------------------------------------------------
(* Every variable has its type.                                            *)
TypeOK ==
    /\ env \in Envs
    /\ active \in Plans \cup {None}
    /\ planLock \in Threads \cup {Free} /\ patchLock \in Threads \cup {Free}
    /\ attr \in [Attrs -> Plans \cup Threads \cup {Pristine, Foreign}]
    /\ record \in [Attrs -> Plans \cup Threads \cup {None}]
    /\ pc \in [Threads -> {"idle", "validate", "activate", "stage", "bind", "install",
               "refresh", "publish", "done", "enter", "body", "raised"}]
    /\ model \in [Threads -> Models]
    /\ todo \in [Threads -> SUBSET Attrs] /\ batch \in [Threads -> SUBSET Attrs]
    /\ builds \in [Threads -> 0 .. MaxBuilds]
    /\ changed \in [Threads -> BOOLEAN]
    /\ window \in BOOLEAN /\ halfway \in BOOLEAN

(* While nobody patches, a plan's attributes are all patched and recorded  *)
(* or none is, and no attribute keeps a temporary patch: failures roll     *)
(* back all they did, whatever other code replaced meanwhile.              *)
BatchAtomic == patchLock = Free =>
    /\ \A p \in Plans : {a \in Patches[p] : record[a] = p} \in {{}, Patches[p]}
    /\ \A a \in Attrs :
        /\ record[a] = None => attr[a] \in {Pristine, Foreign}
        /\ record[a] # None => attr[a] \in {record[a], Foreign}
    /\ record[TempAttr] = None

(* The patches in place are those of the active plan or of the activation  *)
(* under way: a plain model runs without any plan's.  (A failed refresh    *)
(* leaves its patches.)                                                    *)
PatchesOfThePlan == ~halfway =>
    \A p \in Plans, a \in Attrs : record[a] = p =>
        active = p \/ (active = None /\ planLock # Free /\ PlanOf[model[planLock]] = p)

(* The active plan stays for the life of the process.                      *)
PlanForLife == [][active # None => active' = active]_vars

(* Once a plan is active the policy has its defaults, unless the cache was *)
(* filled between the refresh and the publication.                         *)
PolicyFollowsPlan == (active # None /\ explicit = None /\ cached # None /\ ~window) =>
    cached = PolicyFromEnv(ActiveDefaults)

(* t has started the active plan's model, and the policy is the one it     *)
(* started with.                                                           *)
Started(t) ==
    /\ pc[t] \in {"done", "enter", "body"} /\ validated[t] # None
    /\ ~changed[t] /\ ~window /\ active = Plan(t)

(* The policy that was validated before the activation is the one that is  *)
(* used after it, as long as nobody sets or resets it.                     *)
ValidatedIsEffective == \A t \in Threads : Started(t)
    => ~GetPolicyRaises /\ EffectivePolicy = validated[t]

(* Every implementation that may then run satisfies the plan, unless the   *)
(* user gave Op an empty order, which validation takes for no order and    *)
(* the resolver for the default one.                                       *)
ServedAsRequired == \A t \in Threads :
    (Started(t) /\ Op \in DOMAIN Defaults[active].required)
    => LET policy == EffectivePolicy
       IN OrderOf(policy, Op) # <<>> =>
            \A i \in Candidates(policy) :
                ImplToken(i) \in Defaults[active].required[Op]

(* Nobody waits for ever: the holder of the plan's lock waits at most for  *)
(* the patches' lock, and whoever holds that waits for nobody.             *)
LocksOrdered == \A t \in Threads :
    /\ planLock = t => pc[t] \in {"stage", "bind", "install", "refresh", "publish"}
    /\ patchLock = t => pc[t] \in {"install", "body"}
=============================================================================
