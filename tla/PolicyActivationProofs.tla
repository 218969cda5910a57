----------------------- MODULE PolicyActivationProofs -----------------------
(***************************************************************************)
(* Proofs about PolicyActivation for any threads, models, plans, patches   *)
(* and policies, whatever other code replaces and whatever fails.          *)
(***************************************************************************)
EXTENDS PolicyActivation, TLAPS

(* Where a thread holds each lock.                                         *)
Activating == {"stage", "bind", "install", "refresh", "publish"}
Patching == {"install", "body"}
LockInv == \A t \in Threads :
    /\ planLock = t <=> pc[t] \in Activating
    /\ patchLock = t <=> pc[t] \in Patching

(* While a plan is activated no plan is active.                            *)
AloneInv == \A t \in Threads : pc[t] \in Activating => active = None

(* A record belongs to a plan that patches the attribute, or to a thread   *)
(* inside of its constructor; an attribute without one was never patched   *)
(* or was given back.                                                      *)
Unpatched == {Pristine, Foreign}
RecordInv == \A a \in Attrs :
    /\ record[a] = None => attr[a] \in Unpatched
    /\ record[a] # None => attr[a] \in {record[a], Foreign}
    /\ record[a] \in Plans => a \in Patches[record[a]]
    /\ record[a] \in Threads => a = TempAttr /\ pc[record[a]] = "body"

(* How far a batch is, and that what it restores is not a patch.           *)
InstallInv(t) ==
    /\ batch[t] \in {{}, Patches[Plan(t)]} /\ todo[t] \subseteq batch[t]
    /\ \A a \in Patches[Plan(t)] : record[a] = IF a \in todo[t] THEN None ELSE Plan(t)
    /\ \A a \in batch[t] : seen[t][a] \in Unpatched
BatchInv == \A t \in Threads :
    /\ pc[t] = "bind" => DOMAIN seen[t] = Patches[Plan(t)]
    /\ pc[t] = "install" => InstallInv(t)
    /\ pc[t] = "enter" => DOMAIN seen[t] = {TempAttr}
    /\ pc[t] = "body" => seen[t][TempAttr] \in Unpatched

(* All attributes of a plan that is not being installed, or none.          *)
Whole(p) == \/ \A a \in Patches[p] : record[a] = p
            \/ \A a \in Patches[p] : record[a] # p
WholeInv == \A p \in Plans :
    Whole(p) \/ \E t \in Threads : pc[t] = "install" /\ Plan(t) = p

(* Whose patches there are, if no activation has failed at its refresh.    *)
Installing(p) == \E t \in Threads :
    pc[t] \in {"install", "refresh", "publish"} /\ Plan(t) = p
OwnInv == ~halfway => \A a \in Attrs : record[a] \in Plans =>
    active = record[a] \/ Installing(record[a])

PatchInv == LockInv /\ AloneInv /\ RecordInv /\ BatchInv /\ WholeInv /\ OwnInv

Seen == UNION {[S -> Plans \cup Threads \cup Unpatched] : S \in SUBSET Attrs}
Types == TypeOK /\ seen \in [Threads -> Seen]
Inv == Types /\ PatchInv

-----------------------------------------------------------------------------
LEMMA PlanType == ASSUME TypeOK, NEW t \in Threads PROVE Plan(t) \in Plans
BY PlansAssumption DEF TypeOK, Plan

LEMMA PatchesType ==
    ASSUME NEW p \in Plans PROVE Patches[p] \subseteq Attrs /\ TempAttr \notin Patches[p]
BY PlansAssumption

(* A thread that goes on, and the others.                                  *)
Moved(t, place) == \A u \in Threads : pc'[u] = IF u = t THEN place ELSE pc[u]

LEMMA ContinueMoves ==
    ASSUME TypeOK, NEW t \in Threads, NEW place, Continue(t, place)
    PROVE  Moved(t, place) /\ model' = model
BY DEF TypeOK, Continue, Goto, Moved

(* Steps that touch no patch and no lock.                                  *)
Elsewhere == {"idle", "validate", "activate", "done", "raised"}
LEMMA QuietHeld ==
    ASSUME PatchInv, UNCHANGED <<patchVars, model, active, planLock, halfway>>,
           \A u \in Threads : \/ pc'[u] = pc[u]
                              \/ pc[u] \in Elsewhere \cup {"enter"} /\ pc'[u] \in Elsewhere
    PROVE  PatchInv'
<1> USE DEF patchVars
<1>1. LockInv' /\ AloneInv'
  BY DEF PatchInv, LockInv, AloneInv, Activating, Patching, Elsewhere
<1>2. RecordInv'
  BY DEF PatchInv, RecordInv, Elsewhere
<1>3. BatchInv'
  BY DEF PatchInv, BatchInv, InstallInv, Plan, Elsewhere
<1>4. WholeInv' /\ OwnInv'
  BY DEF PatchInv, WholeInv, Whole, OwnInv, Installing, Plan, Elsewhere
<1> QED BY <1>1, <1>2, <1>3, <1>4 DEF PatchInv

(* Other code replaces an attribute.                                       *)
LEMMA SetAsideHeld ==
    ASSUME PatchInv, NEW a, attr' = [attr EXCEPT ![a] = Foreign], Types,
           UNCHANGED <<patchLock, record, seen, todo, batch, threadVars, active,
                       planLock, halfway>>
    PROVE  PatchInv'
<1> USE DEF threadVars
<1>1. LockInv' /\ AloneInv'
  BY DEF PatchInv, LockInv, AloneInv
<1>2. RecordInv'
  BY DEF PatchInv, RecordInv, Unpatched, Types, TypeOK
<1>3. BatchInv'
  BY DEF PatchInv, BatchInv, InstallInv, Plan
<1>4. WholeInv' /\ OwnInv'
  BY DEF PatchInv, WholeInv, Whole, OwnInv, Installing, Plan
<1> QED BY <1>1, <1>2, <1>3, <1>4 DEF PatchInv

-----------------------------------------------------------------------------
(* An activation.                                                          *)

LEMMA BeginHeld ==
    ASSUME Inv, NEW t \in Threads, pc[t] = "activate", planLock = Free, active = None,
           BeginActivation(t), UNCHANGED <<patchVars, active, halfway>>
    PROVE  PatchInv'
<1> USE DEF patchVars
<1>1. PICK place \in {"refresh", "stage"} : Moved(t, place)
  BY ContinueMoves DEF Inv, Types, BeginActivation
<1>2. model' = model /\ planLock' = t
  BY DEF BeginActivation, Continue
<1>3. \A u \in Threads : pc[u] \notin Activating
  BY PlansAssumption DEF Inv, PatchInv, LockInv, Free
<1>4. LockInv' /\ AloneInv'
  BY <1>1, <1>2, <1>3 DEF Inv, PatchInv, LockInv, AloneInv, Moved, Activating, Patching
<1>5. RecordInv'
  BY <1>1 DEF Inv, PatchInv, RecordInv, Moved
<1>6. BatchInv'
  BY <1>1, <1>2 DEF Inv, PatchInv, BatchInv, InstallInv, Plan, Moved
<1>7. WholeInv' /\ OwnInv'
  BY <1>1, <1>2 DEF Inv, PatchInv, WholeInv, Whole, OwnInv, Installing, Plan, Moved
<1> QED BY <1>4, <1>5, <1>6, <1>7 DEF PatchInv

LEMMA StageHeld == ASSUME Inv, NEW t \in Threads, Stage(t) PROVE PatchInv'
<1>1. Moved(t, "bind") /\ model' = model /\ pc[t] = "stage"
  BY ContinueMoves DEF Inv, Types, Stage
<1>2. UNCHANGED <<patchLock, attr, record, todo, batch, active, planLock, halfway>>
  BY DEF Stage
<1>3. /\ DOMAIN seen'[t] = Patches[Plan(t)]
      /\ \A u \in Threads \ {t} : seen'[u] = seen[u]
  BY DEF Stage, Inv, Types
<1>4. LockInv' /\ AloneInv'
  BY <1>1, <1>2 DEF Inv, PatchInv, LockInv, AloneInv, Moved, Activating, Patching
<1>5. RecordInv'
  BY <1>1, <1>2 DEF Inv, PatchInv, RecordInv, Moved
<1>6. BatchInv'
  BY <1>1, <1>2, <1>3 DEF Inv, PatchInv, BatchInv, InstallInv, Plan, Moved
<1>7. WholeInv' /\ OwnInv'
  BY <1>1, <1>2 DEF Inv, PatchInv, WholeInv, Whole, OwnInv, Installing, Plan, Moved
<1> QED BY <1>4, <1>5, <1>6, <1>7 DEF PatchInv

(* An installation meets a plan that is patched as a whole or not at all.  *)
LEMMA BindHeld == ASSUME Inv, NEW t \in Threads, BindPatches(t) PROVE PatchInv'
<1>1. UNCHANGED <<attr, record, seen, active, halfway>> /\ pc[t] = "bind"
  BY DEF BindPatches
<1>2. /\ Plan(t) \in Plans
      /\ Patches[Plan(t)] \subseteq Attrs /\ TempAttr \notin Patches[Plan(t)]
  BY PlanType, PatchesType DEF Inv, Types
<1>3. planLock = t /\ patchLock = Free /\ DOMAIN seen[t] = Patches[Plan(t)]
  BY <1>1 DEF BindPatches, Inv, PatchInv, LockInv, BatchInv, Activating
<1>4. \A u \in Threads : pc[u] \notin Patching /\ (u # t => pc[u] \notin Activating)
  BY <1>3, PlansAssumption DEF Inv, PatchInv, LockInv, Free
<1>5. CASE Refused(t, Plan(t), Plan(t))
  <2>1. /\ Moved(t, "raised") /\ model' = model /\ planLock' = Free
        /\ UNCHANGED <<patchLock, todo, batch>>
    BY <1>5, ContinueMoves DEF Inv, Types, BindPatches
  <2>2. LockInv' /\ AloneInv'
    BY <1>1, <1>4, <2>1, PlansAssumption
       DEF Inv, PatchInv, LockInv, AloneInv, Moved, Activating, Patching, Free
  <2>3. RecordInv'
    BY <1>1, <2>1 DEF Inv, PatchInv, RecordInv, Moved
  <2>4. BatchInv'
    BY <1>1, <2>1 DEF Inv, PatchInv, BatchInv, InstallInv, Plan, Moved
  <2>5. WholeInv' /\ OwnInv'
    BY <1>1, <2>1 DEF Inv, PatchInv, WholeInv, Whole, OwnInv, Installing, Plan, Moved
  <2> QED BY <2>2, <2>3, <2>4, <2>5 DEF PatchInv
<1>6. CASE ~Refused(t, Plan(t), Plan(t))
  <2>1. /\ Moved(t, "install") /\ model' = model /\ patchLock' = t /\ planLock' = planLock
        /\ todo'[t] = ToApply(t) /\ batch'[t] = ToApply(t)
    BY <1>6, ContinueMoves DEF Inv, Types, TypeOK, BindPatches
  <2>2. LockInv' /\ AloneInv'
    BY <1>1, <1>3, <1>4, <2>1, PlansAssumption
       DEF Inv, PatchInv, LockInv, AloneInv, Moved, Activating, Patching
  <2>3. RecordInv'
    BY <1>1, <2>1 DEF Inv, PatchInv, RecordInv, Moved
  <2>4. \A a \in Patches[Plan(t)] : \/ record[a] = Plan(t)
                                    \/ record[a] = None /\ seen[t][a] \in Unpatched
    BY <1>2, <1>3, <1>6 DEF Refused, Inv, PatchInv, RecordInv
  <2>5. ToApply(t) \in {{}, Patches[Plan(t)]}
    <3>1. Whole(Plan(t))
      BY <1>2, <1>4 DEF Inv, PatchInv, WholeInv, Patching
    <3> QED BY <1>2, <1>3, <2>4, <3>1, PlansAssumption DEF Whole, ToApply
  <2>6. InstallInv(t)'
    BY <1>1, <1>2, <1>3, <2>1, <2>4, <2>5, PlansAssumption DEF InstallInv, ToApply, Plan
  <2>7. BatchInv'
    BY <1>1, <1>4, <2>1, <2>6 DEF Inv, PatchInv, BatchInv, Plan, Moved, Patching
  <2>8. WholeInv' /\ OwnInv'
    BY <1>1, <1>4, <2>1
       DEF Inv, PatchInv, WholeInv, Whole, OwnInv, Installing, Plan, Moved, Activating
  <2> QED BY <2>2, <2>3, <2>7, <2>8 DEF PatchInv
<1> QED BY <1>5, <1>6

LEMMA Installer ==
    ASSUME Inv, NEW t \in Threads, pc[t] = "install"
    PROVE  /\ planLock = t /\ patchLock = t
           /\ Plan(t) \in Plans /\ Patches[Plan(t)] \subseteq Attrs
           /\ TempAttr \notin Patches[Plan(t)]
           /\ InstallInv(t) /\ active = None
           /\ \A u \in Threads \ {t} : pc[u] \notin Activating \cup Patching
<1>1. planLock = t /\ patchLock = t
  BY DEF Inv, PatchInv, LockInv, Activating, Patching
<1>2. \A u \in Threads \ {t} : pc[u] \notin Activating \cup Patching
  BY <1>1 DEF Inv, PatchInv, LockInv
<1> QED BY <1>1, <1>2, PlanType, PatchesType
        DEF Inv, Types, PatchInv, BatchInv, AloneInv, Activating

LEMMA InstallHeld == ASSUME Inv, NEW t \in Threads, Install(t) PROVE PatchInv'
<1>1. UNCHANGED <<patchLock, seen, batch, pc, model, active, planLock, halfway>>
      /\ pc[t] = "install"
  BY DEF Install, threadVars
<1>2. /\ Plan(t) \in Plans /\ Patches[Plan(t)] \subseteq Attrs
      /\ TempAttr \notin Patches[Plan(t)] /\ InstallInv(t)
      /\ \A u \in Threads \ {t} : pc[u] \notin Activating \cup Patching
  BY <1>1, Installer
<1>3. PICK a \in todo[t] :
         /\ \A x \in Attrs : /\ attr'[x] = IF x = a THEN Plan(t) ELSE attr[x]
                             /\ record'[x] = IF x = a THEN Plan(t) ELSE record[x]
         /\ todo'[t] = todo[t] \ {a}
  BY DEF Install, Inv, Types, TypeOK
<1>4. a \in Patches[Plan(t)] /\ a \in Attrs /\ record[a] = None
  BY <1>2 DEF InstallInv
<1>5. LockInv' /\ AloneInv'
  BY <1>1 DEF Inv, PatchInv, LockInv, AloneInv
<1>6. RecordInv'
  BY <1>1, <1>2, <1>3, <1>4, PlansAssumption DEF Inv, PatchInv, RecordInv
<1>7. InstallInv(t)'
  BY <1>1, <1>2, <1>3, <1>4 DEF InstallInv, Plan
<1>8. BatchInv'
  BY <1>1, <1>2, <1>7 DEF Inv, PatchInv, BatchInv, Plan, Activating, Patching
<1>9. WholeInv'
  <2> SUFFICES ASSUME NEW p \in Plans, p # Plan(t) PROVE Whole(p)'
    BY <1>1 DEF WholeInv, Plan
  <2>1. Whole(p)
    BY <1>2 DEF Inv, PatchInv, WholeInv, Patching
  <2>2. \A x \in Patches[p] : record'[x] = p <=> record[x] = p
    BY <1>3, <1>4, PatchesType, PlansAssumption
  <2> QED BY <2>1, <2>2 DEF Whole
<1>10. OwnInv'
  BY <1>1, <1>3, <1>4 DEF Inv, PatchInv, OwnInv, Installing, Plan
<1> QED BY <1>5, <1>6, <1>8, <1>9, <1>10 DEF PatchInv

LEMMA InstalledHeld == ASSUME Inv, NEW t \in Threads, Installed(t) PROVE PatchInv'
<1>1. /\ UNCHANGED <<attr, record, seen, todo, batch, active, planLock, halfway>>
      /\ pc[t] = "install" /\ todo[t] = {} /\ patchLock' = Free
      /\ Moved(t, "refresh") /\ model' = model
  BY ContinueMoves DEF Installed, Inv, Types
<1>2. /\ planLock = t /\ Plan(t) \in Plans /\ InstallInv(t)
      /\ \A u \in Threads \ {t} : pc[u] \notin Activating \cup Patching
  BY <1>1, Installer
<1>3. LockInv' /\ AloneInv'
  BY <1>1, <1>2, PlansAssumption
     DEF Inv, PatchInv, LockInv, AloneInv, Moved, Activating, Patching, Free
<1>4. RecordInv'
  BY <1>1 DEF Inv, PatchInv, RecordInv, Moved
<1>5. BatchInv'
  BY <1>1 DEF Inv, PatchInv, BatchInv, InstallInv, Plan, Moved
<1>6. WholeInv'
  <2>1. Whole(Plan(t))
    BY <1>1, <1>2 DEF InstallInv, Whole
  <2> QED BY <1>1, <2>1 DEF Inv, PatchInv, WholeInv, Whole, Plan, Moved
<1>7. OwnInv'
  BY <1>1 DEF Inv, PatchInv, OwnInv, Installing, Plan, Moved
<1> QED BY <1>3, <1>4, <1>5, <1>6, <1>7 DEF PatchInv

(* A batch that fails has restored all it installed, and there was nothing *)
(* of the plan before.                                                     *)
LEMMA InstallFailsHeld == ASSUME Inv, NEW t \in Threads, InstallFails(t) PROVE PatchInv'
<1>1. /\ UNCHANGED <<seen, todo, batch, active, halfway>>
      /\ pc[t] = "install" /\ todo[t] # {} /\ patchLock' = Free /\ planLock' = Free
      /\ Moved(t, "raised") /\ model' = model
  BY ContinueMoves DEF InstallFails, Inv, Types
<1>2. /\ planLock = t /\ Plan(t) \in Plans /\ InstallInv(t)
      /\ Patches[Plan(t)] \subseteq Attrs /\ TempAttr \notin Patches[Plan(t)]
      /\ \A u \in Threads \ {t} : pc[u] \notin Activating \cup Patching
  BY <1>1, Installer
<1> DEFINE done == batch[t] \ todo[t]
<1>3. \A a \in Attrs : /\ attr'[a] = IF a \in done THEN seen[t][a] ELSE attr[a]
                       /\ record'[a] = IF a \in done THEN None ELSE record[a]
  BY DEF InstallFails, Restored
<1>4. batch[t] = Patches[Plan(t)] /\ \A a \in done : seen[t][a] \in Unpatched
  BY <1>1, <1>2 DEF InstallInv
<1>5. \A a \in Patches[Plan(t)] : record'[a] = None
  BY <1>2, <1>3, <1>4 DEF InstallInv
<1>6. \A a \in done : record[a] = Plan(t)
  BY <1>2, <1>4 DEF InstallInv
<1> HIDE DEF done
<1>7. LockInv' /\ AloneInv'
  BY <1>1, <1>2, PlansAssumption
     DEF Inv, PatchInv, LockInv, AloneInv, Moved, Activating, Patching, Free
<1>8. RecordInv'
  BY <1>1, <1>3, <1>4, PlansAssumption DEF Inv, PatchInv, RecordInv, Moved
<1>9. BatchInv'
  BY <1>1, <1>2 DEF Inv, PatchInv, BatchInv, Plan, Moved, Activating, Patching
<1>10. WholeInv'
  <2> SUFFICES ASSUME NEW p \in Plans PROVE Whole(p)'
    BY DEF WholeInv
  <2>1. CASE p = Plan(t)
    BY <1>5, <2>1, PlansAssumption DEF Whole
  <2>2. CASE p # Plan(t)
    <3>1. Whole(p)
      BY <1>2, <2>2 DEF Inv, PatchInv, WholeInv, Patching
    <3>2. \A x \in Patches[p] : record'[x] = p <=> record[x] = p
      BY <1>3, <1>6, <2>2, PatchesType, PlansAssumption
    <3> QED BY <3>1, <3>2 DEF Whole
  <2> QED BY <2>1, <2>2
<1>11. OwnInv'
  <2> SUFFICES ASSUME ~halfway, NEW a \in Attrs, NEW p \in Plans, record'[a] = p
               PROVE  active = p \/ Installing(p)'
    BY <1>1 DEF OwnInv
  <2>1. record[a] = p
    BY <1>3, PlansAssumption
  <2>2. p # Plan(t)
    BY <1>5, <2>1, PlansAssumption DEF Inv, PatchInv, RecordInv
  <2> QED BY <1>1, <2>1, <2>2 DEF Inv, PatchInv, OwnInv, Installing, Plan, Moved
<1> QED BY <1>7, <1>8, <1>9, <1>10, <1>11 DEF PatchInv

LEMMA EndHeld ==
    ASSUME Inv, NEW t \in Threads, Refresh(t) \/ RefreshFails(t) \/ Publish(t)
    PROVE  PatchInv'
<1>1. /\ UNCHANGED patchVars /\ model' = model
      /\ \/ /\ pc[t] = "refresh" /\ Moved(t, "publish")
            /\ UNCHANGED <<active, planLock, halfway>>
         \/ /\ pc[t] = "refresh" /\ Moved(t, "raised") /\ planLock' = Free
            /\ active' = active /\ halfway'
         \/ /\ pc[t] = "publish" /\ Moved(t, "done") /\ planLock' = Free
            /\ active' = Plan(t) /\ halfway' = halfway
  BY ContinueMoves DEF Refresh, RefreshFails, Publish, Inv, Types
<1> USE DEF patchVars
<1>2. planLock = t /\ \A u \in Threads \ {t} : pc[u] \notin Activating
  BY <1>1 DEF Inv, PatchInv, LockInv, Activating
<1>3. active = None
  BY <1>1 DEF Inv, PatchInv, AloneInv, Activating
<1>4. LockInv' /\ AloneInv'
  BY <1>1, <1>2, <1>3, PlansAssumption
     DEF Inv, PatchInv, LockInv, AloneInv, Moved, Activating, Patching, Free
<1>5. RecordInv'
  BY <1>1 DEF Inv, PatchInv, RecordInv, Moved
<1>6. BatchInv'
  BY <1>1 DEF Inv, PatchInv, BatchInv, InstallInv, Plan, Moved
<1>7. WholeInv'
  BY <1>1 DEF Inv, PatchInv, WholeInv, Whole, Plan, Moved
<1>8. OwnInv'
  BY <1>1, <1>2, <1>3, PlansAssumption
     DEF Inv, PatchInv, OwnInv, Installing, Plan, Moved, Activating
<1> QED BY <1>4, <1>5, <1>6, <1>7, <1>8 DEF PatchInv

-----------------------------------------------------------------------------
(* A constructor under a temporary patch.                                  *)

LEMMA StageTemporaryHeld ==
    ASSUME Inv, NEW t \in Threads, StageTemporary(t) PROVE PatchInv'
<1>1. /\ UNCHANGED <<patchLock, attr, record, todo, batch, model, active, planLock, halfway>>
      /\ pc[t] = "done" /\ Moved(t, "enter")
  BY DEF StageTemporary, Goto, Moved, Inv, Types, TypeOK
<1>2. DOMAIN seen'[t] = {TempAttr} /\ \A u \in Threads \ {t} : seen'[u] = seen[u]
  BY DEF StageTemporary, Inv, Types
<1>3. LockInv' /\ AloneInv'
  BY <1>1 DEF Inv, PatchInv, LockInv, AloneInv, Moved, Activating, Patching
<1>4. RecordInv'
  BY <1>1 DEF Inv, PatchInv, RecordInv, Moved
<1>5. BatchInv'
  BY <1>1, <1>2 DEF Inv, PatchInv, BatchInv, InstallInv, Plan, Moved
<1>6. WholeInv' /\ OwnInv'
  BY <1>1 DEF Inv, PatchInv, WholeInv, Whole, OwnInv, Installing, Plan, Moved
<1> QED BY <1>3, <1>4, <1>5, <1>6 DEF PatchInv

LEMMA TemporaryOther ==
    ASSUME Inv, NEW t \in Threads, UNCHANGED <<seen, todo, batch, model, halfway, active>>,
           NEW place \in {"body", "done", "raised"}, Moved(t, place), pc[t] \in {"enter", "body"},
           \A u \in Threads : pc[u] # "install",
           \A a \in Attrs \ {TempAttr} : record'[a] = record[a],
           record'[TempAttr] \notin Plans
    PROVE  AloneInv' /\ WholeInv' /\ OwnInv'
<1>1. AloneInv'
  BY DEF Inv, PatchInv, AloneInv, Moved, Activating
<1>2. WholeInv'
  BY PatchesType DEF Inv, PatchInv, WholeInv, Whole
<1>3. OwnInv'
  BY DEF Inv, PatchInv, OwnInv, Installing, Plan, Moved
<1> QED BY <1>1, <1>2, <1>3

LEMMA EnterHeld == ASSUME Inv, NEW t \in Threads, EnterTemporary(t) PROVE PatchInv'
<1>1. /\ pc[t] = "enter" /\ patchLock = Free
      /\ UNCHANGED <<seen, todo, batch, active, planLock, halfway>>
  BY DEF EnterTemporary
<1>2. CASE Refused(t, t, t)
  <2>1. Moved(t, "raised") /\ model' = model /\ UNCHANGED <<patchLock, attr, record>>
    BY <1>2, ContinueMoves DEF EnterTemporary, Inv, Types
  <2> QED BY <1>1, <2>1, QuietHeld DEF Inv, Moved, Elsewhere, patchVars
<1>3. CASE ~Refused(t, t, t)
  <2>1. /\ Moved(t, "body") /\ model' = model /\ patchLock' = t
        /\ \A a \in Attrs : /\ attr'[a] = IF a = TempAttr THEN t ELSE attr[a]
                            /\ record'[a] = IF a = TempAttr THEN t ELSE record[a]
    BY <1>3, ContinueMoves DEF EnterTemporary, Inv, Types, TypeOK
  <2>2. \A u \in Threads : pc[u] \notin Patching
    BY <1>1, PlansAssumption DEF Inv, PatchInv, LockInv, Free
  <2>3. TempAttr \in Attrs /\ record[TempAttr] = None
    BY <2>2, PlansAssumption, PatchesType
       DEF Inv, Types, TypeOK, PatchInv, RecordInv, Patching
  <2>4. seen[t][TempAttr] \in Unpatched
    BY <1>1, <1>3, <2>3, PlansAssumption DEF Refused, Inv, PatchInv, RecordInv, BatchInv
  <2>5. LockInv'
    BY <1>1, <2>1, <2>2 DEF Inv, PatchInv, LockInv, Moved, Activating, Patching
  <2>6. AloneInv' /\ WholeInv' /\ OwnInv'
    BY <1>1, <2>1, <2>2, <2>3, PlansAssumption, TemporaryOther DEF Patching
  <2>7. RecordInv'
    BY <1>1, <2>1, <2>2, PlansAssumption DEF Inv, PatchInv, RecordInv, Moved, Patching
  <2>8. BatchInv'
    BY <1>1, <2>1, <2>2, <2>4 DEF Inv, PatchInv, BatchInv, Plan, Moved, Patching
  <2> QED BY <2>5, <2>6, <2>7, <2>8 DEF PatchInv
<1> QED BY <1>2, <1>3

LEMMA ExitHeld == ASSUME Inv, NEW t \in Threads, ExitTemporary(t) PROVE PatchInv'
<1>1. /\ pc[t] = "body" /\ patchLock' = Free
      /\ UNCHANGED <<seen, todo, batch, active, planLock, halfway>>
  BY DEF ExitTemporary
<1>2. PICK place \in {"done", "raised"} : Moved(t, place) /\ model' = model
  BY ContinueMoves DEF ExitTemporary, Inv, Types
<1>3. \A a \in Attrs : /\ attr'[a] = IF a = TempAttr THEN seen[t][TempAttr] ELSE attr[a]
                       /\ record'[a] = IF a = TempAttr THEN None ELSE record[a]
  BY DEF ExitTemporary, Restored
<1>4. patchLock = t /\ \A u \in Threads \ {t} : pc[u] \notin Patching
  BY <1>1 DEF Inv, PatchInv, LockInv, Patching
<1>5. seen[t][TempAttr] \in Unpatched /\ TempAttr \in Attrs
  BY <1>1, PlansAssumption DEF Inv, PatchInv, BatchInv
<1>6. LockInv'
  BY <1>1, <1>2, <1>4, PlansAssumption
     DEF Inv, PatchInv, LockInv, Moved, Activating, Patching, Free
<1>7. AloneInv' /\ WholeInv' /\ OwnInv'
  BY <1>1, <1>2, <1>3, <1>4, <1>5, PlansAssumption, TemporaryOther DEF Patching
<1>8. RecordInv'
  BY <1>1, <1>2, <1>3, <1>4, <1>5, PlansAssumption
     DEF Inv, PatchInv, RecordInv, Moved, Patching
<1>9. BatchInv'
  BY <1>1, <1>2, <1>4 DEF Inv, PatchInv, BatchInv, Plan, Moved, Patching
<1> QED BY <1>6, <1>7, <1>8, <1>9 DEF PatchInv

-----------------------------------------------------------------------------
(* Types, and all steps.                                                   *)

LEMMA WindowType == TypeOK /\ FillCache => window' \in BOOLEAN
<1>1. InWindow \in BOOLEAN
  BY DEF InWindow
<1> QED BY <1>1 DEF TypeOK, FillCache

(* What a thread has seen is typed, and what it gives back was no patch.   *)
LEMMA RestoredTypes ==
    ASSUME Inv, NEW t \in Threads, NEW S \in SUBSET Attrs, Restored(t, S),
           \A a \in S : seen[t][a] \in Unpatched
    PROVE  /\ attr' \in [Attrs -> Plans \cup Threads \cup Unpatched]
           /\ record' \in [Attrs -> Plans \cup Threads \cup {None}]
BY DEF Inv, Types, TypeOK, Unpatched, Restored

LEMMA PolicyTypes ==
    ASSUME Types, GetPolicy \/ ResetGlobalPolicy \/ (\E p \in Policies : SetGlobalPolicy(p))
    PROVE  Types'
<1>1. /\ UNCHANGED <<env, patchVars, threadVars, active, planLock, halfway>>
      /\ window' \in BOOLEAN /\ changed' \in [Threads -> BOOLEAN]
  BY WindowType DEF Types, TypeOK, GetPolicy, ResetGlobalPolicy, SetGlobalPolicy, ReplacePolicy
<1> QED BY <1>1 DEF Types, TypeOK, patchVars, threadVars, Seen

LEMMA ActivationTypes ==
    ASSUME Inv, NEW t \in Threads,
           \/ Preflight(t) \/ ValidateCapability(t) \/ Activate(t) \/ Stage(t)
           \/ BindPatches(t) \/ Install(t) \/ Installed(t) \/ InstallFails(t)
           \/ Refresh(t) \/ RefreshFails(t) \/ Publish(t)
    PROVE  Types'
<1> USE DEF Inv, Types, TypeOK, policyVars, patchVars, threadVars, Continue, Goto
<1>0. Plan(t) \in Plans /\ Patches[Plan(t)] \subseteq Attrs
  BY PlanType, PatchesType
<1>1. CASE Preflight(t)
  BY <1>1 DEF Preflight, Seen
<1>2. CASE ValidateCapability(t)
  BY <1>2, WindowType DEF ValidateCapability, Seen
<1>3. CASE Activate(t)
  BY <1>3 DEF Activate, ActiveGoes, BeginActivation, Seen
<1>4. CASE Stage(t)
  <2>1. [a \in Patches[Plan(t)] |-> IF a \in Baseline THEN Pristine ELSE attr[a]] \in Seen
    BY <1>0 DEF Seen, Unpatched
  <2> QED BY <1>4, <2>1 DEF Stage
<1>5. CASE BindPatches(t)
  <2>1. ToApply(t) \subseteq Attrs
    <3>1. DOMAIN seen[t] \subseteq Attrs
      BY DEF Seen
    <3> QED BY <3>1 DEF ToApply
  <2> QED BY <1>5, <2>1 DEF BindPatches, Free
<1>6. CASE Install(t)
  BY <1>0, <1>6 DEF Install
<1>7. CASE Installed(t)
  BY <1>7 DEF Installed, Free
<1>8. CASE InstallFails(t)
  <2>1. /\ attr' \in [Attrs -> Plans \cup Threads \cup Unpatched]
        /\ record' \in [Attrs -> Plans \cup Threads \cup {None}]
    BY <1>8, Installer, RestoredTypes DEF InstallFails, InstallInv
  <2> QED BY <1>8, <2>1 DEF InstallFails, Free, Unpatched
<1>9. CASE Refresh(t) \/ RefreshFails(t)
  BY <1>9 DEF Refresh, RefreshFails, Free
<1>10. CASE Publish(t)
  BY <1>0, <1>10 DEF Publish, Free
<1> QED BY <1>1, <1>2, <1>3, <1>4, <1>5, <1>6, <1>7, <1>8, <1>9, <1>10

LEMMA TemporaryTypes ==
    ASSUME Inv, NEW t \in Threads,
           StageTemporary(t) \/ EnterTemporary(t) \/ ExitTemporary(t)
    PROVE  Types'
<1> USE DEF Inv, Types, TypeOK, policyVars, Continue, Goto
<1>0. TempAttr \in Attrs /\ MaxBuilds \in Nat
  BY PlansAssumption
<1>1. CASE StageTemporary(t)
  <2>1. [a \in {TempAttr} |-> attr[a]] \in Seen
    <3>1. {TempAttr} \in SUBSET Attrs
      BY <1>0
    <3>2. [a \in {TempAttr} |-> attr[a]] \in [{TempAttr} -> Plans \cup Threads \cup Unpatched]
      BY <1>0 DEF Unpatched
    <3> QED BY <3>1, <3>2 DEF Seen
  <2> QED BY <1>0, <1>1, <2>1 DEF StageTemporary
<1>2. CASE EnterTemporary(t)
  BY <1>2 DEF EnterTemporary
<1>3. CASE ExitTemporary(t)
  <2>1. /\ attr' \in [Attrs -> Plans \cup Threads \cup Unpatched]
        /\ record' \in [Attrs -> Plans \cup Threads \cup {None}]
    BY <1>0, <1>3, RestoredTypes DEF ExitTemporary, PatchInv, BatchInv
  <2> QED BY <1>3, <2>1 DEF ExitTemporary, Free, Unpatched
<1> QED BY <1>1, <1>2, <1>3

LEMMA InvStep == Inv /\ [Next]_vars => Inv'
<1> SUFFICES ASSUME Inv, [Next]_vars PROVE Inv'
  OBVIOUS
<1>1. ASSUME NEW t \in Threads, Step(t) PROVE Inv'
  <2>1. CASE Preflight(t) \/ ValidateCapability(t) \/ (Activate(t) /\ active # None)
    <3>1. UNCHANGED <<patchVars, model, active, planLock, halfway>>
      BY <2>1 DEF Preflight, ValidateCapability, Activate, ActiveGoes, Continue, Goto
    <3>2. pc[t] \in Elsewhere /\ \E place \in Elsewhere : Goto(t, place)
      BY <2>1 DEF Preflight, ValidateCapability, Activate, ActiveGoes, Continue, Elsewhere
    <3>3. PatchInv'
      BY <3>1, <3>2, QuietHeld DEF Inv, Types, TypeOK, Goto
    <3> QED BY <2>1, <3>3, ActivationTypes DEF Inv
  <2>2. CASE Activate(t) /\ active = None
    <3>1. PatchInv'
      BY <2>2, BeginHeld DEF Activate, policyVars
    <3> QED BY <2>2, <3>1, ActivationTypes DEF Inv
  <2>3. CASE \/ Stage(t) \/ BindPatches(t) \/ Install(t) \/ Installed(t) \/ InstallFails(t)
             \/ Refresh(t) \/ RefreshFails(t) \/ Publish(t)
    BY <2>3, ActivationTypes, StageHeld, BindHeld, InstallHeld, InstalledHeld,
       InstallFailsHeld, EndHeld DEF Inv
  <2>4. CASE EnterTemporary(t) \/ ExitTemporary(t)
    BY <2>4, TemporaryTypes, EnterHeld, ExitHeld DEF Inv
  <2> QED BY <1>1, <2>1, <2>2, <2>3, <2>4 DEF Step
<1>2. ASSUME NEW t \in Threads, StageTemporary(t) PROVE Inv'
  BY <1>2, TemporaryTypes, StageTemporaryHeld DEF Inv
<1>3. CASE GetPolicy \/ ResetGlobalPolicy \/ \E p \in Policies : SetGlobalPolicy(p)
  <2>1. UNCHANGED <<patchVars, threadVars, active, planLock, halfway>>
    BY <1>3 DEF GetPolicy, ResetGlobalPolicy, SetGlobalPolicy, ReplacePolicy
  <2>2. PatchInv'
    BY <2>1, QuietHeld DEF threadVars, Inv
  <2> QED BY <1>3, <2>2, PolicyTypes DEF Inv
<1>4. ASSUME NEW a \in ForeignAttrs, ForeignPatch(a) PROVE Inv'
  <2>1. PatchInv'
    BY <1>4, SetAsideHeld DEF ForeignPatch, Inv
  <2>2. Types'
    BY <1>4 DEF ForeignPatch, Inv, Types, TypeOK, policyVars, threadVars, Seen
  <2> QED BY <2>1, <2>2 DEF Inv
<1>5. CASE UNCHANGED vars
  <2>1. PatchInv'
    BY <1>5, QuietHeld DEF vars, threadVars, Inv
  <2>2. Types'
    BY <1>5 DEF vars, policyVars, patchVars, threadVars, Inv, Types, TypeOK, Seen
  <2> QED BY <2>1, <2>2 DEF Inv
<1> QED BY <1>1, <1>2, <1>3, <1>4, <1>5 DEF Next

LEMMA InvInit == Init => Inv
<1> SUFFICES ASSUME Init PROVE Inv
  OBVIOUS
<1>1. TypeOK
  <2>1. builds \in [Threads -> 0 .. MaxBuilds]
    BY PlansAssumption DEF Init
  <2>2. changed \in [Threads -> BOOLEAN]
    BY DEF Init
  <2> QED BY <2>1, <2>2 DEF Init, TypeOK, Free
<1>2. seen \in [Threads -> Seen]
  <2>1. <<>> \in Seen
    <3>1. <<>> \in [{} -> Plans \cup Threads \cup Unpatched]
      OBVIOUS
    <3> QED BY <3>1 DEF Seen
  <2> QED BY <2>1 DEF Init
<1>3. LockInv /\ AloneInv
  BY PlansAssumption DEF Init, LockInv, AloneInv, Activating, Patching, Free
<1>4. RecordInv /\ BatchInv
  BY PlansAssumption DEF Init, RecordInv, BatchInv, Unpatched
<1>5. WholeInv /\ OwnInv
  BY PlansAssumption, PatchesType DEF Init, WholeInv, Whole, OwnInv
<1> QED BY <1>1, <1>2, <1>3, <1>4, <1>5 DEF Inv, Types, PatchInv

-----------------------------------------------------------------------------
(* Every variable keeps its type, what a thread has seen of an attribute   *)
(* included.                                                               *)
THEOREM TypeCorrect == Spec => []TypeOK
<1>1. Inv => TypeOK
  BY DEF Inv, Types
<1> QED BY <1>1, InvInit, InvStep, PTL DEF Spec

(* The two locks are taken in one order and given back on every path, also *)
(* by activations and constructors that fail.                              *)
THEOREM LocksAlwaysOrdered == Spec => []LocksOrdered
<1>1. Inv => LocksOrdered
  BY DEF Inv, PatchInv, LockInv, LocksOrdered, Activating, Patching
<1> QED BY <1>1, InvInit, InvStep, PTL DEF Spec

(* A plan's attributes are patched together or not at all, and a temporary *)
(* patch is gone with its constructor, for any threads that start models   *)
(* and build layers, any failures, and whatever other code replaces.       *)
THEOREM BatchesAreAtomic == Spec => []BatchAtomic
<1>1. ASSUME Inv, patchLock = Free
      PROVE  /\ \A p \in Plans : {a \in Patches[p] : record[a] = p} \in {{}, Patches[p]}
             /\ \A a \in Attrs : record[a] \notin Threads
  <2>1. \A t \in Threads : pc[t] \notin Patching
    BY <1>1, PlansAssumption DEF Inv, PatchInv, LockInv, Free
  <2>2. \A p \in Plans : Whole(p)
    BY <1>1, <2>1 DEF Inv, PatchInv, WholeInv, Patching
  <2>3. \A a \in Attrs : record[a] \notin Threads
    BY <1>1, <2>1 DEF Inv, PatchInv, RecordInv, Patching
  <2> QED BY <2>2, <2>3 DEF Whole
<1>2. Inv => BatchAtomic
  <2> SUFFICES ASSUME Inv, patchLock = Free PROVE BatchAtomic
    BY DEF BatchAtomic
  <2>1. record[TempAttr] = None
    BY <1>1, PlansAssumption, PatchesType DEF Inv, Types, TypeOK, PatchInv, RecordInv
  <2> QED BY <1>1, <2>1 DEF BatchAtomic, Inv, PatchInv, RecordInv, Unpatched
<1> QED BY <1>2, InvInit, InvStep, PTL DEF Spec

(* As long as no activation fails at its refresh, there are no patches but *)
(* those of the active plan and of the activation under way.               *)
THEOREM PatchesAreOfThePlan == Spec => []PatchesOfThePlan
<1>1. Inv => PatchesOfThePlan
  <2> SUFFICES ASSUME Inv, ~halfway, NEW p \in Plans, NEW a \in Attrs, record[a] = p,
                      active # p
               PROVE  active = None /\ planLock # Free /\ PlanOf[model[planLock]] = p
    BY DEF PatchesOfThePlan
  <2>1. PICK t \in Threads : pc[t] \in Activating /\ Plan(t) = p
    BY DEF Inv, PatchInv, OwnInv, Installing, Activating
  <2>2. active = None /\ planLock = t
    BY <2>1 DEF Inv, PatchInv, AloneInv, LockInv
  <2> QED BY <2>1, <2>2, PlansAssumption DEF Plan, Free
<1> QED BY <1>1, InvInit, InvStep, PTL DEF Spec

(* A process that has a plan keeps it: another model's start leaves it.    *)
THEOREM OnePlanForLife == Spec => PlanForLife
<1>1. Inv /\ [Next]_vars => (active # None => active' = active)
  <2> SUFFICES ASSUME Inv, [Next]_vars, active # None PROVE active' = active
    OBVIOUS
  <2>1. \A t \in Threads : ~Publish(t)
    BY DEF Publish, Inv, PatchInv, AloneInv, Activating
  <2> QED BY <2>1
     DEF Next, Step, vars, GetPolicy, ResetGlobalPolicy, SetGlobalPolicy, ReplacePolicy,
         ForeignPatch, Preflight, ValidateCapability, Activate, Stage, BindPatches, Install,
         Installed, InstallFails, Refresh, RefreshFails, StageTemporary, EnterTemporary,
         ExitTemporary
<1>2. Inv /\ [Next]_vars => [active # None => active' = active]_vars
  BY <1>1
<1> QED BY <1>2, InvInit, InvStep, PTL DEF Spec, PlanForLife

-----------------------------------------------------------------------------
(* The cached policy.                                                      *)

(* What was cached since the refresh is known to have been.                *)
CacheInv == /\ PolicyFollowsPlan
            /\ \A t \in Threads : pc[t] = "publish" /\ cached # None => window

LEMMA SameLayers ==
    ASSUME UNCHANGED <<env, active>>
    PROVE  PolicyFromEnv(ActiveDefaults)' = PolicyFromEnv(ActiveDefaults)
BY DEF PolicyFromEnv, EnvBase, Said, EnvGiven, EnvFallback, ActiveDefaults, MergePerOp,
       IsEmpty, NoDefaults

(* Steps after which nobody is at the publication who was not before.      *)
LEMMA CacheKept ==
    ASSUME CacheInv, UNCHANGED <<env, active>>,
           \A u \in Threads : pc'[u] = "publish" => pc[u] = "publish",
           \/ UNCHANGED <<explicit, cached, window>>
           \/ FillCache /\ explicit' = explicit
           \/ cached' = None
    PROVE  CacheInv'
<1>1. CASE UNCHANGED <<explicit, cached, window>>
  BY <1>1, SameLayers DEF CacheInv, PolicyFollowsPlan
<1>2. CASE /\ cached' = PolicyFromEnv(ActiveDefaults) /\ window' = InWindow
           /\ explicit' = explicit
  BY <1>2, SameLayers DEF CacheInv, PolicyFollowsPlan, InWindow
<1>3. CASE cached' = None
  BY <1>3 DEF CacheInv, PolicyFollowsPlan
<1> QED BY <1>1, <1>2, <1>3 DEF FillCache

LEMMA CacheStep == Inv /\ CacheInv /\ [Next]_vars => CacheInv'
<1> SUFFICES ASSUME Inv, CacheInv, [Next]_vars PROVE CacheInv'
  OBVIOUS
<1>0. TypeOK
  BY DEF Inv, Types
<1> USE DEF policyVars, threadVars
<1>1. ASSUME NEW t \in Threads, Step(t) \/ StageTemporary(t) PROVE CacheInv'
  <2>1. CASE Publish(t)
    <3>1. /\ UNCHANGED <<env, explicit, cached, window>> /\ pc[t] = "publish"
          /\ Moved(t, "done")
      BY <1>0, <2>1, ContinueMoves DEF Publish
    <3> QED BY <3>1 DEF CacheInv, PolicyFollowsPlan, Moved
  <2>2. CASE Refresh(t)
    BY <2>2 DEF Refresh, CacheInv, PolicyFollowsPlan
  <2>3. CASE ValidateCapability(t)
    <3>1. UNCHANGED <<env, active, explicit>> /\ FillCache
      BY <2>3 DEF ValidateCapability
    <3>2. \A u \in Threads : pc'[u] = "publish" => pc[u] = "publish"
      BY <1>0, <2>3 DEF ValidateCapability, Goto, TypeOK
    <3> QED BY <3>1, <3>2, CacheKept
  <2>4. CASE \/ Preflight(t) \/ Activate(t) \/ Stage(t) \/ BindPatches(t) \/ Install(t)
             \/ Installed(t) \/ InstallFails(t) \/ RefreshFails(t)
             \/ StageTemporary(t) \/ EnterTemporary(t) \/ ExitTemporary(t)
    <3>1. UNCHANGED <<env, active, explicit, cached, window>>
      BY <2>4 DEF Preflight, Activate, Stage, BindPatches, Install, Installed, InstallFails,
                  RefreshFails, StageTemporary, EnterTemporary, ExitTemporary
    <3>2. pc' = pc \/ \E place : place # "publish" /\ Goto(t, place)
      BY <2>4 DEF Preflight, Activate, ActiveGoes, BeginActivation, Stage, BindPatches,
                  Install, Installed, InstallFails, RefreshFails, StageTemporary,
                  EnterTemporary, ExitTemporary, Continue
    <3>3. \A u \in Threads : pc'[u] = "publish" => pc[u] = "publish"
      BY <1>0, <3>2 DEF Goto, TypeOK
    <3> QED BY <3>1, <3>3, CacheKept
  <2> QED BY <1>1, <2>1, <2>2, <2>3, <2>4 DEF Step
<1>2. CASE GetPolicy
  BY <1>2, CacheKept DEF GetPolicy
<1>3. CASE ResetGlobalPolicy \/ \E p \in Policies : SetGlobalPolicy(p)
  BY <1>3, CacheKept DEF ResetGlobalPolicy, SetGlobalPolicy, ReplacePolicy
<1>4. ASSUME NEW a \in ForeignAttrs, ForeignPatch(a) PROVE CacheInv'
  BY <1>4, CacheKept DEF ForeignPatch
<1>5. CASE UNCHANGED vars
  BY <1>5, CacheKept DEF vars
<1> QED BY <1>1, <1>2, <1>3, <1>4, <1>5 DEF Next

(* A policy cached without regard to the active plan can only come from the*)
(* window between refresh and publication of its activation.               *)
THEOREM PolicyAlwaysFollowsPlan == Spec => []PolicyFollowsPlan
<1>1. Init => CacheInv
  BY DEF Init, CacheInv, PolicyFollowsPlan
<1>2. CacheInv => PolicyFollowsPlan
  BY DEF CacheInv
<1> QED BY <1>1, <1>2, InvInit, InvStep, CacheStep, PTL DEF Spec
-----------------------------------------------------------------------------
(* What a thread has validated.                                            *)

(* The policy there is once d are the active plan's defaults.              *)
PolicyWith(d) == IF explicit # None THEN MergedExplicit(d) ELSE PolicyFromEnv(d)

Valid(t) == LET d == Defaults[Plan(t)]
            IN  /\ validated[t] = PolicyWith(d)
                /\ ~Conflicting(d, Given)
                /\ Capable(d, validated[t])

(* Validation looks ahead: as long as no other plan becomes active, what a *)
(* thread has validated is the policy of its own plan.                     *)
ValidInv ==
    /\ validated = [t \in Threads |-> validated[t]]
    /\ \A t \in Threads :
          /\ pc[t] \in {"idle", "validate"} => validated[t] = None
          /\ (validated[t] # None /\ ~changed[t] /\ active \in {None, Plan(t)}) => Valid(t)

(* Only the environment's policy is cached, and that of before a plan stays*)
(* no longer than the window.                                              *)
LayerInv == cached # None =>
    /\ explicit = None
    /\ active = None \/ window => cached = PolicyFromEnv(NoDefaults)

ServedInv == CacheInv /\ LayerInv /\ ValidInv

LEMMA SamePolicy ==
    ASSUME UNCHANGED <<env, explicit>>, NEW d
    PROVE  /\ PolicyFromEnv(d)' = PolicyFromEnv(d) /\ PolicyWith(d)' = PolicyWith(d)
           /\ Given' = Given /\ EnvGiven' = EnvGiven
BY DEF PolicyFromEnv, EnvBase, Said, EnvGiven, EnvFallback, PolicyWith, MergedExplicit,
       Given, MergePerOp, IsEmpty

(* Defaults that say nothing leave no trace.                               *)
LEMMA EmptyDefaults ==
    ASSUME NEW d, IsEmpty(d)
    PROVE  /\ PolicyFromEnv(d) = PolicyFromEnv(NoDefaults)
           /\ \A given : ~Conflicting(d, given)
<1>1. IsEmpty(NoDefaults)
  BY DEF IsEmpty, NoDefaults
<1>2. DOMAIN d.required = {}
  BY DEF IsEmpty
<1> QED BY <1>1, <1>2 DEF PolicyFromEnv, Conflicting

(* What policy_for_plan computes from the cached policy is what the plan's *)
(* defaults give from scratch.                                             *)
LEMMA ForPlanFromScratch ==
    ASSUME CacheInv, LayerInv, NEW t \in Threads, active \in {None, Plan(t)},
           Plan(t) # None,
           NEW d, d = Defaults[Plan(t)], ~PolicyForPlanRaises(d)
    PROVE  PolicyForPlan(d) = PolicyWith(d) /\ ~Conflicting(d, Given)
<1>1. ~Conflicting(d, Given)
  BY EmptyDefaults DEF PolicyForPlanRaises
<1>2. CASE explicit # None
  BY <1>1, <1>2 DEF PolicyForPlan, Base, Given, Fallback, PolicyWith, MergedExplicit
<1>3. CASE explicit = None
  <2>1. Base = PolicyFromEnv(NoDefaults) \/ (active = Plan(t) /\ Base = PolicyFromEnv(d))
    BY <1>3 DEF Base, CacheInv, PolicyFollowsPlan, LayerInv, ActiveDefaults
  <2>2. CASE IsEmpty(d)
    BY <1>3, <2>1, <2>2, EmptyDefaults DEF PolicyForPlan, PolicyWith
  <2>3. CASE ~IsEmpty(d)
    <3>1. \E e : Base = PolicyFromEnv(e)
      BY <2>1
    <3> DEFINE m == MergePerOp(d, EnvGiven, EnvFallback)
    <3>2. PICK x : Base = [EnvBase EXCEPT !.perOp = x]
      BY <3>1 DEF PolicyFromEnv
    <3>3. PolicyForPlan(d) = [Base EXCEPT !.perOp = m]
      BY <1>3, <2>3 DEF PolicyForPlan, Given, Fallback
    <3>4. PolicyWith(d) = [EnvBase EXCEPT !.perOp = m]
      BY <1>3, <2>3 DEF PolicyWith, PolicyFromEnv
    <3> HIDE DEF m
    <3> QED BY <1>1, <3>2, <3>3, <3>4
  <2> QED BY <1>1, <2>2, <2>3
<1> QED BY <1>2, <1>3

(* Steps that validate nothing and do not replace the policy.              *)
LEMMA ValidKept ==
    ASSUME ValidInv, UNCHANGED <<env, explicit, model, validated, changed>>,
           active' = active \/ active = None,
           \A u \in Threads : pc'[u] \in {"idle", "validate"} => pc[u] \in {"idle", "validate"}
    PROVE  ValidInv'
<1> SUFFICES ASSUME NEW u \in Threads
             PROVE  /\ pc'[u] \in {"idle", "validate"} => validated'[u] = None
                    /\ (validated'[u] # None /\ ~changed'[u] /\ active' \in {None, Plan(u)'})
                           => Valid(u)'
  <2>1. validated' = [t \in Threads |-> validated'[t]]
    BY DEF ValidInv
  <2> QED BY <2>1 DEF ValidInv
<1>1. PICK d : d = Defaults[Plan(u)]
  OBVIOUS
<1>2. Plan(u)' = Plan(u) /\ Defaults[Plan(u)]' = d
  BY <1>1 DEF Plan
<1>3. PolicyWith(d)' = PolicyWith(d) /\ Given' = Given
  BY SamePolicy
<1>4. Valid(u) => Valid(u)'
  BY <1>1, <1>2, <1>3 DEF Valid
<1> QED BY <1>2, <1>4 DEF ValidInv

(* Steps that leave the cache, fill it, or empty it, and publish nothing.  *)
LEMMA LayerKept ==
    ASSUME Inv, LayerInv, UNCHANGED <<env, active>>,
           \/ UNCHANGED <<explicit, cached, window>>
           \/ FillCache /\ explicit' = explicit
           \/ cached' = None
    PROVE  LayerInv'
<1>1. CASE UNCHANGED <<explicit, cached, window>>
  BY <1>1, SamePolicy DEF LayerInv
<1>2. CASE /\ cached' = PolicyFromEnv(ActiveDefaults) /\ window' = InWindow
           /\ explicit' = explicit /\ explicit = None
  <2>1. InWindow => active = None
    BY DEF InWindow, Inv, PatchInv, AloneInv, Activating
  <2>2. active = None \/ window' => cached' = PolicyFromEnv(NoDefaults)
    BY <1>2, <2>1 DEF ActiveDefaults
  <2> QED BY <1>2, <2>2, SamePolicy DEF LayerInv
<1>3. CASE cached' = None
  BY <1>3 DEF LayerInv
<1> QED BY <1>1, <1>2, <1>3 DEF FillCache

LEMMA ValidateHeld ==
    ASSUME Inv, ServedInv, NEW t \in Threads, ValidateCapability(t)
    PROVE  LayerInv' /\ ValidInv'
<1> DEFINE d == Defaults[Plan(t)]
<1>1. /\ UNCHANGED <<env, explicit, model, active>> /\ FillCache /\ pc[t] = "validate"
      /\ changed' = [changed EXCEPT ![t] = FALSE]
      /\ \/ /\ ~PolicyForPlanRaises(d) /\ Capable(d, PolicyForPlan(d))
            /\ Goto(t, "activate") /\ validated' = [validated EXCEPT ![t] = PolicyForPlan(d)]
         \/ Goto(t, "raised") /\ UNCHANGED validated
  BY DEF ValidateCapability
<1>2. LayerInv'
  BY <1>1, LayerKept DEF ServedInv
<1>3. ASSUME NEW u \in Threads \ {t}
      PROVE  /\ pc'[u] = pc[u] /\ validated'[u] = validated[u] /\ changed'[u] = changed[u]
             /\ Plan(u)' = Plan(u) /\ (Valid(u) => Valid(u)')
  <2>1. pc'[u] = pc[u] /\ validated'[u] = validated[u] /\ changed'[u] = changed[u]
    BY <1>1 DEF Inv, Types, TypeOK, Goto, ServedInv, ValidInv
  <2>2. PICK e : e = Defaults[Plan(u)]
    OBVIOUS
  <2>3. Plan(u)' = Plan(u) /\ Defaults[Plan(u)]' = e
    BY <1>1, <2>2 DEF Plan
  <2>4. PolicyWith(e)' = PolicyWith(e) /\ Given' = Given
    BY <1>1, SamePolicy
  <2> QED BY <2>1, <2>2, <2>3, <2>4 DEF Valid
<1>4. PICK e : e = d
  OBVIOUS
<1>5. Plan(t)' = Plan(t) /\ Defaults[Plan(t)]' = e /\ pc'[t] \in {"activate", "raised"}
  BY <1>1, <1>4 DEF Plan, Goto, Inv, Types, TypeOK
<1>6. ASSUME validated'[t] # None, active \in {None, Plan(t)} PROVE Valid(t)'
  <2>1. validated[t] = None
    BY <1>1 DEF ServedInv, ValidInv
  <2>2. ~PolicyForPlanRaises(e) /\ Capable(e, PolicyForPlan(e)) /\ validated'[t] = PolicyForPlan(e)
    BY <1>1, <1>4, <1>6, <2>1 DEF ServedInv, ValidInv
  <2>3. Plan(t) # None
    BY PlanType, PlansAssumption DEF Inv, Types
  <2>4. PolicyForPlan(e) = PolicyWith(e) /\ ~Conflicting(e, Given)
    BY <1>4, <1>6, <2>2, <2>3, ForPlanFromScratch DEF ServedInv
  <2>5. PolicyWith(e)' = PolicyWith(e) /\ Given' = Given
    BY <1>1, SamePolicy
  <2> QED BY <1>5, <2>2, <2>4, <2>5 DEF Valid
<1>7. ValidInv'
  <2>0. validated' = [u \in Threads |-> validated'[u]]
    BY <1>1 DEF ServedInv, ValidInv
  <2> SUFFICES ASSUME NEW u \in Threads
               PROVE  /\ pc'[u] \in {"idle", "validate"} => validated'[u] = None
                      /\ (validated'[u] # None /\ ~changed'[u] /\ active' \in {None, Plan(u)'})
                             => Valid(u)'
    BY <2>0 DEF ValidInv
  <2>1. CASE u = t
    BY <1>1, <1>5, <1>6, <2>1
  <2>2. CASE u # t
    BY <1>1, <1>3, <2>2 DEF ServedInv, ValidInv
  <2> QED BY <2>1, <2>2
<1> QED BY <1>2, <1>7

LEMMA ServedStep == Inv /\ ServedInv /\ [Next]_vars => ServedInv'
<1> SUFFICES ASSUME Inv, ServedInv, [Next]_vars PROVE LayerInv' /\ ValidInv'
  BY CacheStep DEF ServedInv
<1> USE DEF policyVars, threadVars
<1>1. ASSUME NEW t \in Threads, Step(t) \/ StageTemporary(t) PROVE LayerInv' /\ ValidInv'
  <2>1. CASE Publish(t)
    <3>1. UNCHANGED <<env, explicit, cached, window, model, validated, changed>>
      BY <2>1 DEF Publish, Continue
    <3>2. active = None /\ active' # None /\ (cached # None => window)
      BY <2>1, PlanType, PlansAssumption
         DEF Publish, Inv, Types, PatchInv, AloneInv, Activating, ServedInv, CacheInv
    <3>3. Moved(t, "done")
      BY <2>1, ContinueMoves DEF Inv, Types, Publish
    <3>4. ValidInv'
      BY <3>1, <3>2, <3>3, ValidKept DEF ServedInv, Moved
    <3>5. LayerInv'
      BY <3>1, <3>2, SamePolicy DEF ServedInv, LayerInv
    <3> QED BY <3>4, <3>5
  <2>2. CASE ValidateCapability(t)
    BY <2>2, ValidateHeld
  <2>3. CASE \/ Preflight(t) \/ Activate(t) \/ Stage(t) \/ BindPatches(t) \/ Install(t)
             \/ Installed(t) \/ InstallFails(t) \/ Refresh(t) \/ RefreshFails(t)
             \/ StageTemporary(t) \/ EnterTemporary(t) \/ ExitTemporary(t)
    <3>1. /\ UNCHANGED <<env, active, explicit, model, validated, changed>>
          /\ UNCHANGED <<cached, window>> \/ cached' = None
      BY <2>3 DEF Preflight, Activate, ActiveGoes, BeginActivation, Stage, BindPatches,
                  Install, Installed, InstallFails, Refresh, RefreshFails, StageTemporary,
                  EnterTemporary, ExitTemporary, Continue
    <3>2. pc' = pc \/ \E place : (place = "validate" => pc[t] = "idle") /\ place # "idle"
                                 /\ Goto(t, place)
      BY <2>3 DEF Preflight, Activate, ActiveGoes, BeginActivation, Stage, BindPatches,
                  Install, Installed, InstallFails, Refresh, RefreshFails, StageTemporary,
                  EnterTemporary, ExitTemporary, Continue
    <3>3. \A u \in Threads : pc'[u] \in {"idle", "validate"} => pc[u] \in {"idle", "validate"}
      BY <3>2 DEF Goto, Inv, Types, TypeOK
    <3> QED BY <3>1, <3>3, ValidKept, LayerKept DEF ServedInv
  <2> QED BY <1>1, <2>1, <2>2, <2>3 DEF Step
<1>2. CASE GetPolicy
  BY <1>2, ValidKept, LayerKept DEF GetPolicy, ServedInv
<1>3. CASE ResetGlobalPolicy \/ \E p \in Policies : SetGlobalPolicy(p)
  <2>1. UNCHANGED <<env, active, pc, validated>> /\ cached' = None
        /\ \A u \in Threads : changed'[u]
    BY <1>3 DEF ResetGlobalPolicy, SetGlobalPolicy, ReplacePolicy
  <2> QED BY <2>1 DEF ServedInv, LayerInv, ValidInv
<1>4. ASSUME NEW a \in ForeignAttrs, ForeignPatch(a) PROVE LayerInv' /\ ValidInv'
  BY <1>4, ValidKept, LayerKept DEF ForeignPatch, ServedInv
<1>5. CASE UNCHANGED vars
  BY <1>5, ValidKept, LayerKept DEF vars, ServedInv
<1> QED BY <1>1, <1>2, <1>3, <1>4, <1>5 DEF Next

LEMMA ServedInit == Init => ServedInv
BY DEF Init, ServedInv, CacheInv, PolicyFollowsPlan, LayerInv, ValidInv

(* What it means for a thread that has started its model.                  *)
LEMMA StartedValid ==
    ASSUME ServedInv, NEW t \in Threads, Started(t), Inv
    PROVE  /\ ~GetPolicyRaises /\ EffectivePolicy = validated[t]
           /\ ActiveDefaults = Defaults[Plan(t)] /\ Capable(Defaults[Plan(t)], validated[t])
<1>1. /\ validated[t] # None /\ ~changed[t] /\ ~window /\ active = Plan(t)
      /\ Plan(t) # None
  BY PlanType, PlansAssumption DEF Started, Inv, Types
<1>2. Valid(t) /\ ActiveDefaults = Defaults[Plan(t)]
  BY <1>1 DEF ServedInv, ValidInv, ActiveDefaults
<1>3. CASE explicit # None
  BY <1>2, <1>3 DEF Valid, PolicyWith, Given, GetPolicyRaises, EffectivePolicy
<1>4. CASE explicit = None
  <2>1. cached # None => cached = PolicyFromEnv(ActiveDefaults)
    BY <1>1, <1>4 DEF ServedInv, CacheInv, PolicyFollowsPlan
  <2> QED BY <1>2, <1>4, <2>1 DEF Valid, PolicyWith, Given, GetPolicyRaises, EffectivePolicy
<1> QED BY <1>2, <1>3, <1>4 DEF Valid

(* The policy a model's capability was validated with, computed before its *)
(* plan was active and with whatever was cached then, is the one in force  *)
(* afterwards, unless somebody replaced the policy or the cache was filled *)
(* in the window.                                                          *)
THEOREM ValidatedStaysEffective == Spec => []ValidatedIsEffective
<1>1. Inv /\ ServedInv => ValidatedIsEffective
  BY StartedValid DEF ValidatedIsEffective
<1> QED BY <1>1, InvInit, InvStep, ServedInit, ServedStep, PTL DEF Spec

(* Under that policy whatever may be selected satisfies the plan, for any  *)
(* implementations and any orders but an empty one of the user's.          *)
THEOREM AlwaysServedAsRequired == Spec => []ServedAsRequired
<1>1. ASSUME NEW policy, NEW d, Capable(d, policy), Op \in DOMAIN d.required,
             OrderOf(policy, Op) # <<>>, NEW i \in Candidates(policy)
      PROVE  ImplToken(i) \in d.required[Op]
  <2> DEFINE order == OrderOf(policy, Op)
  <2>1. order \in OrdersAsked(d, policy)
    BY <1>1 DEF OrdersAsked
  <2>2. \A j \in Reachable(Candidates(policy), order) : ImplToken(j) \in d.required[Op]
    BY <1>1, <2>1 DEF Capable
  <2>3. \E k \in DOMAIN order : MatchToken(i, order[k])
    BY <1>1 DEF Candidates, Selectable, Order, OpPolicy
  <2> QED BY <2>2, <2>3 DEF Reachable
<1>2. Inv /\ ServedInv => ServedAsRequired
  <2> SUFFICES ASSUME Inv, ServedInv, NEW t \in Threads, Started(t),
                      Op \in DOMAIN Defaults[active].required,
                      OrderOf(EffectivePolicy, Op) # <<>>, NEW i \in Candidates(EffectivePolicy)
               PROVE  ImplToken(i) \in Defaults[active].required[Op]
    BY DEF ServedAsRequired
  <2>1. active = Plan(t)
    BY DEF Started
  <2> QED BY <1>1, <2>1, StartedValid
<1> QED BY <1>2, InvInit, InvStep, ServedInit, ServedStep, PTL DEF Spec
=============================================================================
