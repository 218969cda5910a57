---------------------------- MODULE FlagCXProofs ----------------------------
(***************************************************************************)
(* Proofs about FlagCXTransfer for any number of ranks, transfers and      *)
(* threads and any pool size, in five parts: the types and the owner of an *)
(* entry, under any set of faults; that a P worker writes only from blocks *)
(* that are held and reports each request once, if no write outlasts the   *)
(* timer ("slow" is not among the faults); under the same assumption, that *)
(* FlagCXTransfer implements KVHandoff, and that what either side reports  *)
(* as complete has been copied by every rank it concerns; and, of          *)
(* TransferPlan alone, what the plans and the writes of any layout copy.   *)
(***************************************************************************)
EXTENDS FlagCXBytes, FlagCXHandOff, FiniteSetTheorems, WellFoundedInduction, TLAPS

(***************************************************************************)
(* Part 1: types, and the owner of an entry.                               *)
(***************************************************************************)

(* What WorkerTypes says of one transfer's entries on one rank.            *)
LEMMA EntriesType ==
    ASSUME WorkerTypes, NEW q \in PRanks, NEW t \in Transfers
    PROVE  /\ objs[q][t] \in Seq(SendBlockMeta) /\ Len(objs[q][t]) \in Nat
           /\ cur[q][t] \in Nat /\ cur[q][t] <= Len(objs[q][t])
BY DEF WorkerTypes

(* No step shortens a worker's list of entries or takes back the ready     *)
(* event or the P request of an entry a sender thread may hold.            *)
EntriesKept == \A p \in PRanks, t \in Transfers :
    /\ Len(objs[p][t]) <= Len(objs'[p][t])
    /\ \A k \in 1..Len(objs[p][t]) :
        /\ objs[p][t][k].ready => objs'[p][t][k].ready
        /\ objs[p][t][k].owned => objs'[p][t][k].owned

LEMMA PlaceholderType == Placeholder \in SendBlockMeta
BY DEF Placeholder, SendBlockMeta

LEMMA CurrentEntryType ==
    ASSUME WorkerTypes, NEW p \in PRanks, NEW t \in Transfers, cur[p][t] # 0
    PROVE  objs[p][t][cur[p][t]] \in SendBlockMeta
<1>1. cur[p][t] \in 1..Len(objs[p][t]) /\ objs[p][t] \in Seq(SendBlockMeta)
  BY DEF WorkerTypes
<1> QED BY <1>1

LEMMA NeedType == \A p \in PRanks : Cardinality(DTargets(p)) \in Nat
BY TransferAssumption, FS_Subset, FS_CardinalityType DEF DTargets

LEMMA PendingType == \A d \in DRanks : Cardinality(PTargets(d)) \in Nat
BY TransferAssumption, FS_Subset, FS_CardinalityType DEF PTargets

LEMMA InitType == Init => TypeOK
BY TransferAssumption
DEF Init, TypeOK, PTypes, WorkerTypes, DTypes, PullTypes, CopyTypes, NotPolling

(* Store keeps the types of the table it writes, whatever entries it is    *)
(* given, and leaves a current entry for each of its transfers.            *)
LEMMA StoreType ==
    ASSUME WorkerTypes, NEW p \in PRanks, NEW S \in SUBSET Transfers,
           NEW o \in [Transfers -> SendBlockMeta], Store(p, S, o)
    PROVE  /\ objs' \in [PRanks -> [Transfers -> Seq(SendBlockMeta)]]
           /\ cur' \in [PRanks -> [Transfers -> Nat]]
           /\ \A q \in PRanks, t \in Transfers :
                /\ Len(objs[q][t]) <= Len(objs'[q][t])
                /\ cur'[q][t] <= Len(objs'[q][t])
           /\ \A t \in S : cur'[p][t] >= 1
<1> DEFINE new(t) == IF t \notin S THEN objs[p][t]
                     ELSE IF cur[p][t] = 0 THEN Append(objs[p][t], o[t])
                     ELSE [objs[p][t] EXCEPT ![cur[p][t]] = o[t]]
<1>1. objs' = [objs EXCEPT ![p] = [t \in Transfers |-> new(t)]]
  BY DEF Store, WorkerTypes
<1>2. \A t \in Transfers : /\ new(t) \in Seq(SendBlockMeta)
                           /\ Len(new(t)) >= Len(objs[p][t])
                           /\ (t \in S /\ cur[p][t] = 0)
                                => Len(new(t)) = Len(objs[p][t]) + 1
  BY DEF WorkerTypes
<1>3. /\ cur' \in [PRanks -> [Transfers -> Nat]]
      /\ \A q \in PRanks, t \in Transfers : cur'[q][t] =
            IF q = p /\ t \in S /\ cur[p][t] = 0 THEN Len(objs[p][t]) + 1
            ELSE cur[q][t]
  BY DEF Store, WorkerTypes
<1>4. objs' \in [PRanks -> [Transfers -> Seq(SendBlockMeta)]]
  BY <1>1, <1>2 DEF WorkerTypes
<1>5. \A q \in PRanks, t \in Transfers : objs'[q][t] = IF q = p THEN new(t) ELSE objs[q][t]
  BY <1>1 DEF WorkerTypes
<1> HIDE DEF new
<1>6. \A q \in PRanks, t \in Transfers : /\ Len(objs[q][t]) \in Nat
                                         /\ cur[q][t] \in Nat
                                         /\ cur[q][t] <= Len(objs[q][t])
  BY DEF WorkerTypes
<1>7. \A q \in PRanks, t \in Transfers : Len(objs[q][t]) <= Len(objs'[q][t])
  BY <1>2, <1>5, <1>6
<1>8. \A q \in PRanks, t \in Transfers : cur'[q][t] <= Len(objs'[q][t])
  <2> SUFFICES ASSUME NEW q \in PRanks, NEW t \in Transfers
               PROVE  cur'[q][t] <= Len(objs'[q][t])
    OBVIOUS
  <2>1. CASE q = p /\ t \in S /\ cur[p][t] = 0
    BY <2>1, <1>2, <1>3, <1>5, <1>6
  <2>2. CASE ~(q = p /\ t \in S /\ cur[p][t] = 0)
    <3>1. cur'[q][t] = cur[q][t]
      BY <2>2, <1>3
    <3>2. Len(objs'[q][t]) \in Nat
      BY <1>4
    <3> QED BY <3>1, <3>2, <1>6, <1>7
  <2> QED BY <2>1, <2>2
<1>9. \A t \in S : cur'[p][t] >= 1
  BY <1>3, <1>6
<1> QED BY <1>3, <1>4, <1>7, <1>8, <1>9

(* Lists of entries only grow.                                             *)
Grown == \A q \in PRanks, t \in Transfers :
            /\ Len(objs[q][t]) \in Nat /\ Len(objs'[q][t]) \in Nat
            /\ Len(objs[q][t]) <= Len(objs'[q][t])

(* Pulls keep their types while lists grow, pulls leave, and new or moved  *)
(* pulls come with references in range.                                    *)
LEMMA PullsType ==
    ASSUME PullTypes, Grown,
           \A k \in pulls' : k \in pulls \/ (k \in Pull /\ RefInRange(k)')
    PROVE  PullTypes'
<1>1. pulls' \in SUBSET Pull
  BY DEF PullTypes
<1>2. ASSUME NEW j \in pulls PROVE RefInRange(j)'
  <2> SUFFICES ASSUME NEW t \in Transfers
               PROVE  /\ j.ref[t] <= Len(objs'[j.p][t])
                      /\ (j.pc # "queued" /\ t \in j.reqs) => j.ref[t] >= 1
    BY DEF RefInRange
  <2>1. j.p \in PRanks /\ j.ref[t] \in Nat
    BY DEF PullTypes, Pull
  <2>2. /\ j.ref[t] <= Len(objs[j.p][t])
        /\ (j.pc # "queued" /\ t \in j.reqs) => j.ref[t] >= 1
    BY DEF PullTypes, RefInRange
  <2> QED BY <2>1, <2>2 DEF Grown
<1> QED BY <1>1, <1>2 DEF PullTypes

LEMMA SameGrown == WorkerTypes /\ objs' = objs => Grown
BY DEF WorkerTypes, Grown

LEMMA PSchedulerType == ASSUME TypeOK, PSchedulerNext PROVE TypeOK'
<1>1. ASSUME NEW A \in SUBSET Transfers, PSchedule(A) PROVE PTypes'
  <2>1. [alloc |-> A, commit |-> needSend] \in Msgs
    BY DEF TypeOK, PTypes, Msgs
  <2> QED BY <1>1, <2>1 DEF PSchedule, TypeOK, PTypes
<1>2. ASSUME NEW t \in Transfers, PFinishCapped(t) PROVE PTypes'
  BY <1>2 DEF PFinishCapped, TypeOK, PTypes
<1>3. ASSUME NEW t \in Transfers, PDrop(t) PROVE PTypes'
  BY <1>3 DEF PDrop, TypeOK, PTypes
<1>4. UNCHANGED <<workerVars, dVars, pulls, copied, torn>>
  BY DEF PSchedulerNext, PSchedule, PFinishCapped, PDrop
<1>5. WorkerTypes' /\ DTypes' /\ PullTypes' /\ CopyTypes'
  BY <1>4 DEF workerVars, dVars, TypeOK, WorkerTypes, DTypes, PullTypes,
              CopyTypes, RefInRange
<1> QED BY <1>1, <1>2, <1>3, <1>5 DEF PSchedulerNext, TypeOK

LEMMA StartLoadType ==
    ASSUME TypeOK, NEW p \in PRanks, StartLoadKVProducer(p) PROVE TypeOK'
<1> DEFINE m == Head(pInbox[p])
           o == [t \in Transfers |-> Loaded(p, t, m)]
<1>1. m \in Msgs /\ pInbox' \in [PRanks -> Seq(Msgs)]
  BY DEF StartLoadKVProducer, TypeOK, PTypes
<1>2. o \in [Transfers -> SendBlockMeta]
  <2> SUFFICES ASSUME NEW t \in Transfers PROVE Loaded(p, t, m) \in SendBlockMeta
    OBVIOUS
  <2>1. Owned(p, t) \in SendBlockMeta
    BY PlaceholderType, CurrentEntryType DEF Owned, TypeOK, SendBlockMeta
  <2> QED BY <2>1 DEF Loaded, SendBlockMeta
<1>3. m.alloc \cup m.commit \in SUBSET Transfers
  BY <1>1 DEF Msgs
<1>4. Store(p, m.alloc \cup m.commit, o)
  BY DEF StartLoadKVProducer
<1> HIDE DEF m, o
<1>5. /\ objs' \in [PRanks -> [Transfers -> Seq(SendBlockMeta)]]
      /\ cur' \in [PRanks -> [Transfers -> Nat]]
      /\ \A q \in PRanks, t \in Transfers : /\ Len(objs[q][t]) <= Len(objs'[q][t])
                                            /\ cur'[q][t] <= Len(objs'[q][t])
  BY <1>2, <1>3, <1>4, StoreType DEF TypeOK
<1>6. Grown
  BY <1>5 DEF Grown, TypeOK, WorkerTypes
<1>7. PTypes' /\ DTypes' /\ CopyTypes'
  BY <1>1 DEF StartLoadKVProducer, dVars, TypeOK, PTypes, DTypes, CopyTypes
<1>8. WorkerTypes'
  BY <1>5 DEF StartLoadKVProducer, TypeOK, WorkerTypes
<1>9. PullTypes'
  BY <1>6, PullsType DEF StartLoadKVProducer, TypeOK
<1> QED BY <1>7, <1>8, <1>9 DEF TypeOK

LEMMA PollType ==
    ASSUME TypeOK, NEW p \in PRanks,
           PollFinished(p) \/ \E E \in SUBSET Transfers : PollExpired(p, E)
    PROVE  TypeOK'
<1>1. UNCHANGED <<pVars, dVars, pulls, objs, copied, torn>>
  BY DEF PollFinished, PollExpired
<1>2. PTypes' /\ DTypes' /\ PullTypes' /\ CopyTypes'
  BY <1>1 DEF pVars, dVars, TypeOK, PTypes, DTypes, PullTypes, RefInRange, CopyTypes
<1>3. CASE PollFinished(p)
  <2>1. UNCHANGED <<objs, cur, reports>>
    BY <1>3 DEF PollFinished
  <2>2. /\ finishedSend' \in [PRanks -> SUBSET Transfers]
        /\ polled' \in [PRanks -> [in : BOOLEAN, fin : SUBSET Transfers]]
    BY <1>3 DEF PollFinished, TypeOK, WorkerTypes
  <2>3. WorkerTypes'
    BY SMTT(30), <2>1, <2>2 DEF TypeOK, WorkerTypes
  <2> QED BY <1>2, <2>3 DEF TypeOK
<1>4. ASSUME NEW E \in SUBSET Transfers, PollExpired(p, E) PROVE WorkerTypes'
  <2>1. /\ cur' \in [PRanks -> [Transfers -> Nat]]
        /\ \A q \in PRanks, t \in Transfers : cur'[q][t] = 0 \/ cur'[q][t] = cur[q][t]
    <3>1. cur' = [cur EXCEPT ![p] =
                    [t \in Transfers |-> IF t \in E THEN 0 ELSE cur[p][t]]]
      BY <1>4 DEF PollExpired
    <3>2. cur \in [PRanks -> [Transfers -> Nat]]
      BY DEF TypeOK, WorkerTypes
    <3> QED BY SMTT(30), <3>1, <3>2
  <2>2. \A q \in PRanks, t \in Transfers : cur'[q][t] <= Len(objs'[q][t])
    <3> SUFFICES ASSUME NEW q \in PRanks, NEW t \in Transfers
                 PROVE  cur'[q][t] <= Len(objs[q][t])
      BY <1>1
    <3>1. /\ Len(objs[q][t]) \in Nat /\ cur[q][t] <= Len(objs[q][t])
          /\ cur[q][t] \in Nat
      BY EntriesType DEF TypeOK
    <3>2. cur'[q][t] = 0 \/ cur'[q][t] = cur[q][t]
      BY <2>1
    <3> QED BY <3>1, <3>2
  <2>3. reports' \in [PRanks -> [Transfers -> Nat]]
    <3>1. PICK L : reports' = [reports EXCEPT ![p] =
                      [t \in Transfers |-> IF t \in L THEN reports[p][t] + 1
                                           ELSE reports[p][t]]]
      BY <1>4 DEF PollExpired
    <3>2. reports \in [PRanks -> [Transfers -> Nat]]
      BY DEF TypeOK, WorkerTypes
    <3> QED BY SMTT(30), <3>1, <3>2
  <2> QED BY <1>1, <1>4, <2>1, <2>2, <2>3
          DEF PollExpired, NotPolling, TypeOK, WorkerTypes
<1> QED BY <1>2, <1>3, <1>4 DEF TypeOK

(* The reads a job makes through its references.                           *)
LEMMA ObjType ==
    ASSUME WorkerTypes, PullTypes, NEW j \in pulls, NEW t \in j.reqs, j.pc # "queued"
    PROVE  /\ j.p \in PRanks /\ t \in Transfers
           /\ j.ref[t] \in 1..Len(objs[j.p][t])
           /\ Obj(j, t) \in SendBlockMeta
<1>1. j.p \in PRanks /\ t \in Transfers /\ j.ref[t] \in Nat
  BY DEF PullTypes, Pull
<1>2. j.ref[t] <= Len(objs[j.p][t]) /\ j.ref[t] >= 1
  BY <1>1 DEF PullTypes, RefInRange
<1>3. objs[j.p][t] \in Seq(SendBlockMeta)
  BY <1>1 DEF WorkerTypes
<1> QED BY <1>1, <1>2, <1>3 DEF Obj

LEMMA SenderStartType == ASSUME TypeOK, NEW j \in pulls, SenderStart(j) PROVE TypeOK'
<1> DEFINE o == [t \in Transfers |->
            [(IF cur[j.p][t] = 0 THEN Placeholder ELSE objs[j.p][t][cur[j.p][t]])
             EXCEPT !.armed = FALSE, !.need = Cardinality(DTargets(j.p))]]
           r == [t \in Transfers |-> IF t \in j.reqs THEN cur'[j.p][t] ELSE 0]
<1>1. j.p \in PRanks /\ j.reqs \in SUBSET Transfers /\ j \in Pull
  BY DEF TypeOK, PullTypes, Pull
<1>2. o \in [Transfers -> SendBlockMeta]
  <2> SUFFICES ASSUME NEW t \in Transfers PROVE o[t] \in SendBlockMeta
    OBVIOUS
  <2>1. (IF cur[j.p][t] = 0 THEN Placeholder ELSE objs[j.p][t][cur[j.p][t]])
          \in SendBlockMeta
    BY <1>1, PlaceholderType, CurrentEntryType DEF TypeOK
  <2> QED BY <1>1, <2>1, NeedType DEF SendBlockMeta
<1>3. Store(j.p, j.reqs, o) /\ Become(j, [j EXCEPT !.pc = "wait", !.ref = r])
  BY DEF SenderStart
<1> HIDE DEF o
<1>4. /\ objs' \in [PRanks -> [Transfers -> Seq(SendBlockMeta)]]
      /\ cur' \in [PRanks -> [Transfers -> Nat]]
      /\ \A q \in PRanks, t \in Transfers : /\ Len(objs[q][t]) <= Len(objs'[q][t])
                                            /\ cur'[q][t] <= Len(objs'[q][t])
      /\ \A t \in j.reqs : cur'[j.p][t] >= 1
  BY <1>1, <1>2, <1>3, StoreType DEF TypeOK
<1>5. Grown
  BY <1>4 DEF Grown, TypeOK, WorkerTypes
<1>6. r \in [Transfers -> Nat]
  BY <1>1, <1>4
<1>7. PICK k \in Pull : /\ k = [j EXCEPT !.pc = "wait", !.ref = r]
                       /\ k.p = j.p /\ k.reqs = j.reqs /\ k.ref = r
  <2> HIDE DEF r
  <2> DEFINE k0 == [j EXCEPT !.pc = "wait", !.ref = r]
  <2>1. k0 \in Pull /\ k0.p = j.p /\ k0.reqs = j.reqs /\ k0.ref = r
    BY <1>1, <1>6 DEF Pull, JobPCs
  <2>2. k0 = [j EXCEPT !.pc = "wait", !.ref = r]
    OBVIOUS
  <2> HIDE DEF k0
  <2> QED BY <2>1, <2>2
<1>8. RefInRange(k)'
  <2> SUFFICES ASSUME NEW t \in Transfers
               PROVE  /\ k.ref[t] <= Len(objs'[k.p][t])
                      /\ t \in k.reqs => k.ref[t] >= 1
    BY DEF RefInRange
  <2>1. Len(objs'[j.p][t]) \in Nat /\ Len(objs'[j.p][t]) >= 0
    BY <1>1, <1>5 DEF Grown
  <2>2. k.ref[t] = IF t \in j.reqs THEN cur'[j.p][t] ELSE 0
    BY <1>7
  <2> QED BY <1>1, <1>4, <1>7, <2>1, <2>2
<1>11. PullTypes'
  <2>1. \A x \in pulls' : x \in pulls \/ x = k
    BY <1>3, <1>7 DEF Become
  <2> QED BY <2>1, <1>5, <1>8, PullsType DEF TypeOK
<1>9. PTypes' /\ DTypes' /\ CopyTypes'
  BY DEF SenderStart, pVars, dVars, TypeOK, PTypes, DTypes, CopyTypes
<1>10. WorkerTypes'
  BY <1>4 DEF SenderStart, TypeOK, WorkerTypes
<1> QED BY <1>9, <1>10, <1>11 DEF TypeOK

(* A job that only moves on, with nothing changed on its worker.           *)
LEMMA MoveType ==
    ASSUME TypeOK, NEW j \in pulls, NEW pc \in JobPCs, NEW open \in BOOLEAN,
           j.pc # "queued" \/ pc = "queued",
           Become(j, [j EXCEPT !.pc = pc, !.open = open]),
           UNCHANGED <<pVars, dVars, workerVars>>
    PROVE  PTypes' /\ WorkerTypes' /\ DTypes' /\ PullTypes'
<1> DEFINE k == [j EXCEPT !.pc = pc, !.open = open]
<1>1. /\ j \in Pull /\ k \in Pull
      /\ k.p = j.p /\ k.reqs = j.reqs /\ k.ref = j.ref /\ k.pc = pc
  BY DEF TypeOK, PullTypes, Pull
<1>2. RefInRange(k)'
  BY <1>1 DEF TypeOK, PullTypes, RefInRange, workerVars
<1>3. Grown
  BY SameGrown DEF workerVars, TypeOK
<1>4. PullTypes'
  BY <1>1, <1>2, <1>3, PullsType DEF Become, TypeOK
<1> QED BY <1>4 DEF pVars, dVars, workerVars, TypeOK, PTypes, WorkerTypes, DTypes

LEMMA SenderMoveType ==
    ASSUME TypeOK, NEW j \in pulls,
           SenderReady(j) \/ SenderTimeout(j) \/ SenderWrite(j) \/ SenderFail(j)
             \/ ReceiveTimeout(j)
    PROVE  TypeOK'
<1>1. j \in Pull /\ j.open \in BOOLEAN /\ j.pc \in JobPCs
  BY DEF TypeOK, PullTypes, Pull
<1>2. UNCHANGED <<pVars, dVars, workerVars>>
  BY DEF SenderReady, SenderTimeout, SenderWrite, SenderFail, ReceiveTimeout
<1>3. CopyTypes'
  <2>1. CASE UNCHANGED <<copied, torn>>
    BY <2>1 DEF TypeOK, CopyTypes
  <2>2. CASE SenderWrite(j)
    <3>1. {<<j.p, j.d, t>> : t \in Written(j)} \subseteq PRanks \X DRanks \X Transfers
      BY <1>1 DEF Written, Pull
    <3> QED BY <2>2, <3>1 DEF SenderWrite, TypeOK, CopyTypes
  <2> QED BY <2>1, <2>2 DEF SenderReady, SenderTimeout, SenderFail, ReceiveTimeout
<1>4. ASSUME NEW pc \in JobPCs \ {"queued"}, j.pc # "queued",
             Become(j, [j EXCEPT !.pc = pc])
      PROVE  PTypes' /\ WorkerTypes' /\ DTypes' /\ PullTypes'
  <2>1. [j EXCEPT !.pc = pc] = [j EXCEPT !.pc = pc, !.open = j.open]
    BY <1>1 DEF Pull
  <2> QED BY <1>1, <1>2, <1>4, <2>1, MoveType
<1>5. CASE ReceiveTimeout(j)
  <2>1. [j EXCEPT !.open = FALSE] = [j EXCEPT !.pc = j.pc, !.open = FALSE]
    BY <1>1 DEF Pull
  <2> QED BY <1>1, <1>2, <1>3, <1>5, <2>1, MoveType DEF ReceiveTimeout, TypeOK
<1>6. CASE SenderReady(j) \/ SenderTimeout(j) \/ SenderWrite(j) \/ SenderFail(j)
  BY <1>3, <1>4, <1>6
  DEF SenderReady, SenderTimeout, SenderWrite, SenderFail, JobPCs, TypeOK
<1> QED BY <1>5, <1>6

LEMMA ReplaceEntry ==
    ASSUME NEW s \in Seq(SendBlockMeta), NEW i \in 1..Len(s), NEW x \in SendBlockMeta
    PROVE  /\ [s EXCEPT ![i] = x] \in Seq(SendBlockMeta)
           /\ Len([s EXCEPT ![i] = x]) = Len(s)
           /\ \A k \in 1..Len(s) : [s EXCEPT ![i] = x][k] = IF k = i THEN x ELSE s[k]
OBVIOUS

(* Counting a D rank changes no other field.                               *)
LEMMA CountEntry ==
    ASSUME NEW e \in SendBlockMeta
    PROVE  \E x \in SendBlockMeta : /\ x = [e EXCEPT !.sent = e.sent + 1]
                                    /\ x.ready = e.ready /\ x.owned = e.owned
<1>1. e.sent + 1 \in Nat
  BY DEF SendBlockMeta
<1>2. [e EXCEPT !.sent = e.sent + 1] \in SendBlockMeta
  BY <1>1 DEF SendBlockMeta
<1>3. /\ [e EXCEPT !.sent = e.sent + 1].ready = e.ready
      /\ [e EXCEPT !.sent = e.sent + 1].owned = e.owned
  BY DEF SendBlockMeta
<1> QED BY <1>2, <1>3

LEMMA AppendEntry ==
    ASSUME NEW s \in Seq(SendBlockMeta), NEW x \in SendBlockMeta
    PROVE  /\ Len(Append(s, x)) = Len(s) + 1
           /\ \A k \in 1..Len(s) + 1 :
                Append(s, x)[k] = IF k = Len(s) + 1 THEN x ELSE s[k]
OBVIOUS

LEMMA SenderCommitType == ASSUME TypeOK, NEW j \in pulls, SenderCommit(j) PROVE TypeOK'
<1> DEFINE new(t) == IF t \in j.reqs THEN Counted(j, t) ELSE objs[j.p][t]
<1>1. j.p \in PRanks /\ j.pc = "commit" /\ j \in Pull
  BY DEF SenderCommit, TypeOK, PullTypes, Pull
<1>2. \A t \in Transfers : /\ new(t) \in Seq(SendBlockMeta)
                           /\ Len(new(t)) = Len(objs[j.p][t])
  <2> SUFFICES ASSUME NEW t \in Transfers
               PROVE  /\ new(t) \in Seq(SendBlockMeta)
                      /\ Len(new(t)) = Len(objs[j.p][t])
    OBVIOUS
  <2>0. objs[j.p][t] \in Seq(SendBlockMeta)
    BY <1>1, EntriesType DEF TypeOK
  <2>1. CASE t \in j.reqs
    <3>1. /\ j.ref[t] \in 1..Len(objs[j.p][t])
          /\ objs[j.p][t][j.ref[t]] \in SendBlockMeta
      BY <1>1, <2>1, ObjType DEF TypeOK, Obj
    <3>2. new(t) = [objs[j.p][t] EXCEPT ![j.ref[t]] =
                      [objs[j.p][t][j.ref[t]] EXCEPT !.sent = @ + 1]]
      BY <2>1 DEF Counted, Obj
    <3>3. PICK x \in SendBlockMeta :
                x = [objs[j.p][t][j.ref[t]] EXCEPT !.sent = @ + 1]
      BY SMTT(30), <3>1, CountEntry
    <3>4. new(t) = [objs[j.p][t] EXCEPT ![j.ref[t]] = x]
      BY <3>2, <3>3
    <3> HIDE DEF new
    <3> QED BY <2>0, <3>1, <3>4, ReplaceEntry
  <2>2. CASE t \notin j.reqs
    BY <2>0, <2>2
  <2> QED BY <2>1, <2>2
<1>3. objs' = [objs EXCEPT ![j.p] = [t \in Transfers |-> new(t)]]
  BY DEF SenderCommit
<1> HIDE DEF new
<1>4. /\ objs' \in [PRanks -> [Transfers -> Seq(SendBlockMeta)]]
      /\ \A q \in PRanks, t \in Transfers : Len(objs'[q][t]) = Len(objs[q][t])
  BY <1>1, <1>2, <1>3 DEF TypeOK, WorkerTypes
<1>5. /\ cur' \in [PRanks -> [Transfers -> Nat]]
      /\ \A q \in PRanks, t \in Transfers : cur'[q][t] = 0 \/ cur'[q][t] = cur[q][t]
  BY DEF SenderCommit, TypeOK, WorkerTypes
<1>6. \A q \in PRanks, t \in Transfers :
         Len(objs[q][t]) \in Nat /\ cur[q][t] \in Nat /\ cur[q][t] <= Len(objs[q][t])
  BY DEF TypeOK, WorkerTypes
<1>7. \A q \in PRanks, t \in Transfers : cur'[q][t] <= Len(objs'[q][t])
  <2> SUFFICES ASSUME NEW q \in PRanks, NEW t \in Transfers
               PROVE  cur'[q][t] <= Len(objs'[q][t])
    OBVIOUS
  <2>1. cur'[q][t] = 0 \/ cur'[q][t] = cur[q][t]
    BY <1>5
  <2>2. Len(objs'[q][t]) = Len(objs[q][t])
    BY <1>4
  <2> QED BY <1>6, <2>1, <2>2
<1>8. WorkerTypes'
  BY <1>4, <1>5, <1>7 DEF SenderCommit, TypeOK, WorkerTypes
<1>9. PullTypes'
  <2>1. Completed(j) \in SUBSET Transfers
    BY <1>1 DEF Completed, Pull
  <2>2. PICK k \in Pull : /\ k = [j EXCEPT !.pc = "publish", !.fin = Completed(j)]
                         /\ k.p = j.p /\ k.reqs = j.reqs /\ k.ref = j.ref
    <3> DEFINE k0 == [j EXCEPT !.pc = "publish", !.fin = Completed(j)]
    <3>1. k0 \in Pull /\ k0.p = j.p /\ k0.reqs = j.reqs /\ k0.ref = j.ref
      BY <1>1, <2>1 DEF Pull, JobPCs
    <3>2. k0 = [j EXCEPT !.pc = "publish", !.fin = Completed(j)]
      OBVIOUS
    <3> HIDE DEF k0
    <3> QED BY <3>1, <3>2
  <2>3. RefInRange(k)'
    BY <1>1, <1>4, <2>2 DEF TypeOK, PullTypes, RefInRange, Pull
  <2>4. \A x \in pulls' : x \in pulls \/ x = k
    BY <2>2 DEF SenderCommit, Become
  <2>5. Grown
    BY <1>4, <1>6 DEF Grown
  <2> QED BY <2>3, <2>4, <2>5, PullsType DEF TypeOK
<1>10. PTypes' /\ DTypes' /\ CopyTypes'
  BY DEF SenderCommit, pVars, dVars, TypeOK, PTypes, DTypes, CopyTypes
<1> QED BY <1>8, <1>9, <1>10 DEF TypeOK

LEMMA SenderPublishType == ASSUME TypeOK, NEW j \in pulls, SenderPublish(j) PROVE TypeOK'
<1>1. j \in Pull /\ j.pc = "publish" /\ j.fin \in SUBSET Transfers
  BY DEF SenderPublish, TypeOK, PullTypes, Pull
<1>2. WorkerTypes'
  BY <1>1 DEF SenderPublish, TypeOK, WorkerTypes
<1>3. PullTypes'
  <2> DEFINE k == [j EXCEPT !.pc = "done"]
  <2>1. k \in Pull /\ k.p = j.p /\ k.reqs = j.reqs /\ k.ref = j.ref
    BY <1>1 DEF Pull, JobPCs
  <2>2. RefInRange(k)'
    BY <1>1, <2>1 DEF SenderPublish, TypeOK, PullTypes, RefInRange
  <2>3. Grown
    BY SameGrown DEF SenderPublish, TypeOK
  <2> QED BY <2>1, <2>2, <2>3, PullsType DEF SenderPublish, Become, TypeOK
<1>4. PTypes' /\ DTypes' /\ CopyTypes'
  BY DEF SenderPublish, pVars, dVars, TypeOK, PTypes, DTypes, CopyTypes
<1> QED BY <1>2, <1>3, <1>4 DEF TypeOK

LEMMA DSchedulerType == ASSUME TypeOK, DSchedulerNext PROVE TypeOK'
<1>1. ASSUME NEW B \in SUBSET Transfers, NEW kind \in [B -> Kinds], DSchedule(B, kind)
      PROVE  DTypes'
  <2>1. B \cup needRecv \in SUBSET Transfers
    BY DEF TypeOK, DTypes
  <2> QED BY <1>1, <2>1 DEF DSchedule, TypeOK, DTypes
<1>2. ASSUME NEW t \in Transfers, DAbort(t) PROVE DTypes'
  BY <1>2 DEF DAbort, TypeOK, DTypes
<1>3. UNCHANGED <<pVars, workerVars, pulls, copied, torn>>
  BY DEF DSchedulerNext, DSchedule, DAbort
<1>4. PTypes' /\ WorkerTypes' /\ PullTypes' /\ CopyTypes'
  BY <1>3 DEF pVars, workerVars, TypeOK, PTypes, WorkerTypes, PullTypes,
              RefInRange, CopyTypes
<1> QED BY <1>1, <1>2, <1>4 DEF DSchedulerNext, TypeOK

LEMMA DWorkerType == ASSUME TypeOK, NEW d \in DRanks, DWorkerNext(d) PROVE TypeOK'
<1>1. UNCHANGED <<pVars, workerVars, copied, torn>>
  BY DEF DWorkerNext, GroupKVPull, FetchFinishedRecving
<1>2. PTypes' /\ WorkerTypes' /\ CopyTypes'
  BY <1>1 DEF pVars, workerVars, TypeOK, PTypes, WorkerTypes, CopyTypes
<1>3. Grown
  BY <1>1, SameGrown DEF workerVars, TypeOK
<1>4. CASE GroupKVPull(d)
  <2> DEFINE S == Head(dInbox[d])
  <2>1. S \in SUBSET Transfers /\ dInbox' \in [DRanks -> Seq(SUBSET Transfers)]
    BY <1>4 DEF GroupKVPull, TypeOK, DTypes
  <2>2. DTypes'
    BY <1>4, <2>1, PendingType DEF GroupKVPull, TypeOK, DTypes
  <2>3. \A k \in pulls' : k \in pulls \/ \E p \in PTargets(d) : k = NewPull(p, d, S)
    BY <1>4 DEF GroupKVPull
  <2> HIDE DEF S
  <2>4. PullTypes'
    <3>1. SUFFICES ASSUME NEW k \in pulls', k \notin pulls
                   PROVE  k \in Pull /\ RefInRange(k)'
      BY <1>3, PullsType DEF TypeOK
    <3>2. PICK p \in PTargets(d) : k = NewPull(p, d, S)
      BY <2>3, <3>1
    <3>3. k \in Pull
      BY <2>1, <3>2 DEF NewPull, Pull, JobPCs, PTargets
    <3>4. k.p \in PRanks /\ k.pc = "queued" /\ \A t \in Transfers : k.ref[t] = 0
      BY <3>2 DEF NewPull, PTargets
    <3> QED BY <1>3, <3>3, <3>4 DEF RefInRange, Grown
  <2> QED BY <1>2, <2>2, <2>4 DEF TypeOK
<1>5. CASE FetchFinishedRecving(d)
  <2>1. DTypes'
    BY <1>5 DEF FetchFinishedRecving, TypeOK, DTypes
  <2>2. PullTypes'
    BY <1>3, <1>5, PullsType DEF FetchFinishedRecving, TypeOK
  <2> QED BY <1>2, <2>1, <2>2 DEF TypeOK
<1> QED BY <1>4, <1>5 DEF DWorkerNext

LEMMA ReceiveType ==
    ASSUME TypeOK, NEW j \in pulls, ReceiveDone(j) \/ ReceiveError(j) PROVE TypeOK'
<1>1. UNCHANGED <<pVars, workerVars, copied, torn>> /\ pulls' \subseteq pulls
  BY DEF ReceiveDone, ReceiveError
<1>2. PTypes' /\ WorkerTypes' /\ CopyTypes'
  BY <1>1 DEF pVars, workerVars, TypeOK, PTypes, WorkerTypes, CopyTypes
<1>3. Grown
  BY <1>1, SameGrown DEF workerVars, TypeOK
<1>4. PullTypes'
  BY <1>1, <1>3, PullsType DEF TypeOK
<1>5. DTypes'
  <2>1. CASE ReceiveDone(j)
    <3>1. j.d \in DRanks /\ LastReply(j) \in SUBSET Transfers
      BY DEF TypeOK, PullTypes, Pull, LastReply
    <3>2. \A t \in Transfers : pullPending[j.d][t] \in Nat
      BY <3>1 DEF TypeOK, DTypes
    <3>3. \A t \in j.reqs \ LastReply(j) : pullPending[j.d][t] - 1 \in Nat
      BY <3>1, <3>2 DEF TypeOK, PullTypes, Pull, LastReply
    <3> QED BY <2>1, <3>1, <3>2, <3>3 DEF ReceiveDone, TypeOK, DTypes
  <2>2. CASE ReceiveError(j)
    BY <2>2 DEF ReceiveError, dVars, TypeOK, DTypes
  <2> QED BY <2>1, <2>2
<1> QED BY <1>2, <1>4, <1>5 DEF TypeOK

(* No step, of either engine or of any thread, breaks a type or leaves a   *)
(* dangling reference to an entry.                                         *)
LEMMA TypeStep == TypeOK /\ [Next]_vars => TypeOK'
<1> SUFFICES ASSUME TypeOK, [Next]_vars PROVE TypeOK'
  OBVIOUS
<1>1. CASE PSchedulerNext
  BY <1>1, PSchedulerType
<1>2. CASE DSchedulerNext
  BY <1>2, DSchedulerType
<1>3. ASSUME NEW p \in PRanks, PWorkerNext(p) PROVE TypeOK'
  BY <1>3, StartLoadType, PollType DEF PWorkerNext
<1>4. ASSUME NEW d \in DRanks, DWorkerNext(d) PROVE TypeOK'
  BY <1>4, DWorkerType
<1>5. ASSUME NEW j \in pulls, SenderNext(j) \/ ReceiveNext(j) PROVE TypeOK'
  BY <1>5, SenderStartType, SenderMoveType, SenderCommitType, SenderPublishType,
     ReceiveType DEF SenderNext, ReceiveNext
<1>6. CASE UNCHANGED vars
  BY <1>6 DEF vars, pVars, workerVars, dVars, TypeOK, PTypes, WorkerTypes, DTypes,
              PullTypes, RefInRange, CopyTypes
<1> QED BY <1>1, <1>2, <1>3, <1>4, <1>5, <1>6 DEF Next

(* Type correctness of every reachable state.                              *)
THEOREM TypeCorrect == Spec => []TypeOK
BY InitType, TypeStep, PTL DEF Spec

-----------------------------------------------------------------------------
(* The invariant behind OwnerKnown: entries become ready together with     *)
(* their P request and never lose either, so a job that has seen its       *)
(* entries ready may rely on them after the lock is released.              *)
OwnerInv == TypeOK /\ ReadyIsOwned /\ WritersAreReady

LEMMA StoreKeeps ==
    ASSUME WorkerTypes, ReadyIsOwned, NEW p \in PRanks, NEW S \in SUBSET Transfers,
           NEW o \in [Transfers -> SendBlockMeta], Store(p, S, o),
           \A t \in S : o[t].ready => o[t].owned,
           \A t \in S : cur[p][t] # 0 =>
                /\ objs[p][t][cur[p][t]].ready => o[t].ready
                /\ objs[p][t][cur[p][t]].owned => o[t].owned
    PROVE  EntriesKept /\ ReadyIsOwned'
<1>1. ASSUME NEW q \in PRanks, NEW t \in Transfers, q # p \/ t \notin S
      PROVE  objs'[q][t] = objs[q][t]
  BY <1>1 DEF Store, WorkerTypes
<1>2. ASSUME NEW t \in S, cur[p][t] = 0
      PROVE  objs'[p][t] = Append(objs[p][t], o[t])
  BY <1>2 DEF Store, WorkerTypes
<1>3. ASSUME NEW t \in S, cur[p][t] # 0
      PROVE  /\ Len(objs'[p][t]) = Len(objs[p][t])
             /\ \A k \in 1..Len(objs[p][t]) :
                  objs'[p][t][k] = IF k = cur[p][t] THEN o[t] ELSE objs[p][t][k]
  <2>1. objs'[p][t] = [objs[p][t] EXCEPT ![cur[p][t]] = o[t]]
    BY <1>3 DEF Store, WorkerTypes
  <2>2. objs[p][t] \in Seq(SendBlockMeta) /\ cur[p][t] \in 1..Len(objs[p][t])
    BY <1>3 DEF WorkerTypes
  <2> QED BY <2>1, <2>2, ReplaceEntry
<1>4. \A q \in PRanks, t \in Transfers :
         objs[q][t] \in Seq(SendBlockMeta) /\ Len(objs[q][t]) \in Nat
  BY EntriesType
<1>5. \A q \in PRanks, t \in Transfers : Len(objs[q][t]) <= Len(objs'[q][t])
  BY StoreType
<1>6. ASSUME NEW q \in PRanks, NEW t \in Transfers, NEW k \in 1..Len(objs[q][t])
      PROVE  /\ objs[q][t][k].ready => objs'[q][t][k].ready
             /\ objs[q][t][k].owned => objs'[q][t][k].owned
  <2>1. CASE q # p \/ t \notin S
    BY <1>1, <2>1
  <2>2. CASE q = p /\ t \in S /\ cur[p][t] = 0
    <3>1. k \in 1..Len(objs[p][t]) + 1 /\ k # Len(objs[p][t]) + 1
      BY <1>4, <1>6, <2>2
    <3>2. objs'[p][t][k] = objs[p][t][k]
      BY <1>2, <1>4, <2>2, <3>1, AppendEntry
    <3> QED BY <2>2, <3>2
  <2>3. CASE q = p /\ t \in S /\ cur[p][t] # 0
    <3>1. objs'[p][t][k] = IF k = cur[p][t] THEN o[t] ELSE objs[p][t][k]
      BY <1>3, <1>4, <1>6, <2>3
    <3> QED BY <2>3, <3>1
  <2> QED BY <2>1, <2>2, <2>3
<1>7. ASSUME NEW q \in PRanks, NEW t \in Transfers, NEW k \in 1..Len(objs'[q][t]),
             objs'[q][t][k].ready
      PROVE  objs'[q][t][k].owned
  <2>1. CASE q # p \/ t \notin S
    BY <1>1, <1>7, <2>1 DEF ReadyIsOwned
  <2>2. CASE q = p /\ t \in S /\ cur[p][t] = 0
    <3>0. /\ objs'[p][t] = Append(objs[p][t], o[t]) /\ o[t] \in SendBlockMeta
          /\ objs[p][t] \in Seq(SendBlockMeta)
      BY <1>2, <1>4, <2>2
    <3>1. k \in 1..Len(objs[p][t]) + 1
      BY <1>7, <2>2, <3>0, AppendEntry
    <3>2. objs'[p][t][k] = IF k = Len(objs[p][t]) + 1 THEN o[t] ELSE objs[p][t][k]
      BY <3>0, <3>1, AppendEntry
    <3>3. CASE k = Len(objs[p][t]) + 1
      BY <1>7, <2>2, <3>2, <3>3
    <3>4. CASE k # Len(objs[p][t]) + 1
      <4>1. k \in 1..Len(objs[p][t])
        BY <1>4, <3>1, <3>4
      <4> QED BY <1>7, <2>2, <3>2, <3>4, <4>1 DEF ReadyIsOwned
    <3> QED BY <3>3, <3>4
  <2>3. CASE q = p /\ t \in S /\ cur[p][t] # 0
    <3>1. k \in 1..Len(objs[p][t])
      BY <1>3, <1>4, <1>7, <2>3
    <3>2. objs'[p][t][k] = IF k = cur[p][t] THEN o[t] ELSE objs[p][t][k]
      BY <1>3, <1>4, <2>3, <3>1
    <3> QED BY <1>7, <2>3, <3>1, <3>2 DEF ReadyIsOwned
  <2> QED BY <2>1, <2>2, <2>3
<1> QED BY <1>5, <1>6, <1>7 DEF EntriesKept, ReadyIsOwned

(* A job in its write or commit after the step held ready entries before.  *)
LEMMA ReadyKept ==
    ASSUME TypeOK, EntriesKept,
           \A k \in pulls' : k.pc \in {"write", "commit"} =>
             \E j \in pulls : /\ j.pc # "queued"
                              /\ k.p = j.p /\ k.reqs = j.reqs /\ k.ref = j.ref
                              /\ \A t \in j.reqs : Obj(j, t).ready
    PROVE  WritersAreReady'
<1> SUFFICES ASSUME NEW k \in pulls', k.pc \in {"write", "commit"}, NEW t \in k.reqs
             PROVE  objs'[k.p][t][k.ref[t]].ready
  BY DEF WritersAreReady, Obj
<1>1. PICK j \in pulls : /\ j.pc # "queued"
                         /\ k.p = j.p /\ k.reqs = j.reqs /\ k.ref = j.ref
                         /\ \A u \in j.reqs : Obj(j, u).ready
  OBVIOUS
<1>2. /\ j.p \in PRanks /\ t \in Transfers
      /\ j.ref[t] \in 1..Len(objs[j.p][t])
      /\ objs[j.p][t][j.ref[t]].ready
  BY <1>1, ObjType DEF TypeOK, Obj
<1> QED BY <1>1, <1>2 DEF EntriesKept

LEMMA SameKept == objs' = objs => EntriesKept /\ (ReadyIsOwned => ReadyIsOwned')
<1> SUFFICES ASSUME objs' = objs PROVE EntriesKept /\ (ReadyIsOwned => ReadyIsOwned')
  OBVIOUS
<1> QED BY DEF EntriesKept, ReadyIsOwned

(* The steps that write entries.                                           *)
LEMMA StartLoadOwner ==
    ASSUME OwnerInv, NEW p \in PRanks, StartLoadKVProducer(p)
    PROVE  EntriesKept /\ ReadyIsOwned'
<1> DEFINE m == Head(pInbox[p])
           o == [t \in Transfers |-> Loaded(p, t, m)]
<1>1. m.alloc \cup m.commit \in SUBSET Transfers
  <2>1. pInbox[p] \in Seq(Msgs) /\ pInbox[p] # <<>>
    BY DEF StartLoadKVProducer, OwnerInv, TypeOK, PTypes
  <2>2. m \in Msgs
    BY <2>1
  <2> QED BY <2>2 DEF Msgs
<1>2. \A t \in Transfers :
        /\ Owned(p, t) \in SendBlockMeta /\ Owned(p, t).owned
        /\ cur[p][t] # 0 => Owned(p, t).ready = objs[p][t][cur[p][t]].ready
  BY PlaceholderType, CurrentEntryType DEF Owned, OwnerInv, TypeOK, SendBlockMeta
<1>3. \A t \in Transfers :
        /\ Loaded(p, t, m) \in SendBlockMeta /\ Loaded(p, t, m).owned
        /\ Owned(p, t).ready => Loaded(p, t, m).ready
  BY <1>2 DEF Loaded, SendBlockMeta
<1>4. Store(p, m.alloc \cup m.commit, o)
  BY DEF StartLoadKVProducer
<1>5. /\ o \in [Transfers -> SendBlockMeta]
      /\ \A t \in Transfers : o[t].owned /\ (Owned(p, t).ready => o[t].ready)
  BY <1>3
<1> HIDE DEF m, o
<1>6. \A t \in m.alloc \cup m.commit :
        /\ o[t].ready => o[t].owned
        /\ cur[p][t] # 0 =>
             /\ objs[p][t][cur[p][t]].ready => o[t].ready
             /\ objs[p][t][cur[p][t]].owned => o[t].owned
  BY <1>1, <1>2, <1>5
<1> QED BY <1>1, <1>4, <1>5, <1>6, StoreKeeps DEF OwnerInv, TypeOK

LEMMA SenderStartOwner ==
    ASSUME OwnerInv, NEW j \in pulls, SenderStart(j)
    PROVE  EntriesKept /\ ReadyIsOwned'
<1> DEFINE e(t) == IF cur[j.p][t] = 0 THEN Placeholder ELSE objs[j.p][t][cur[j.p][t]]
           o == [t \in Transfers |->
                   [e(t) EXCEPT !.armed = FALSE, !.need = Cardinality(DTargets(j.p))]]
<1>1. j.p \in PRanks /\ j.reqs \in SUBSET Transfers
  BY SMTT(30) DEF OwnerInv, TypeOK, PullTypes, Pull
<1>2. \A t \in Transfers : e(t) \in SendBlockMeta /\ (e(t).ready => e(t).owned)
  <2> SUFFICES ASSUME NEW t \in Transfers
               PROVE  e(t) \in SendBlockMeta /\ (e(t).ready => e(t).owned)
    OBVIOUS
  <2>1. CASE cur[j.p][t] = 0
    BY <2>1, PlaceholderType DEF Placeholder
  <2>2. CASE cur[j.p][t] # 0
    <3>1. cur[j.p][t] \in 1..Len(objs[j.p][t])
      BY <1>1, <2>2 DEF OwnerInv, TypeOK, WorkerTypes
    <3> QED BY <1>1, <2>2, <3>1, CurrentEntryType DEF OwnerInv, TypeOK, ReadyIsOwned
  <2> QED BY <2>1, <2>2
<1>3. Store(j.p, j.reqs, o)
  BY DEF SenderStart
<1>4. \A t \in Transfers : cur[j.p][t] # 0 => e(t) = objs[j.p][t][cur[j.p][t]]
  OBVIOUS
<1> HIDE DEF e
<1>5. /\ o \in [Transfers -> SendBlockMeta]
      /\ \A t \in Transfers : o[t].ready = e(t).ready /\ o[t].owned = e(t).owned
  BY <1>1, <1>2, NeedType DEF SendBlockMeta
<1> HIDE DEF o
<1>6. \A t \in j.reqs :
        /\ o[t].ready => o[t].owned
        /\ cur[j.p][t] # 0 =>
             /\ objs[j.p][t][cur[j.p][t]].ready => o[t].ready
             /\ objs[j.p][t][cur[j.p][t]].owned => o[t].owned
  BY <1>1, <1>2, <1>4, <1>5
<1> QED BY <1>1, <1>3, <1>5, <1>6, StoreKeeps DEF OwnerInv, TypeOK

LEMMA SenderCommitOwner ==
    ASSUME OwnerInv, NEW j \in pulls, SenderCommit(j)
    PROVE  EntriesKept /\ ReadyIsOwned'
<1>1. ASSUME NEW q \in PRanks, NEW t \in Transfers
      PROVE  /\ Len(objs'[q][t]) = Len(objs[q][t])
             /\ \A k \in 1..Len(objs[q][t]) :
                  /\ objs'[q][t][k].ready = objs[q][t][k].ready
                  /\ objs'[q][t][k].owned = objs[q][t][k].owned
  <2>1. CASE q = j.p /\ t \in j.reqs
    <3>1. /\ j.ref[t] \in 1..Len(objs[q][t])
          /\ Obj(j, t) = objs[q][t][j.ref[t]] /\ Obj(j, t) \in SendBlockMeta
      BY <2>1, ObjType DEF SenderCommit, OwnerInv, TypeOK, Obj
    <3>2. objs'[q][t] = [objs[q][t] EXCEPT ![j.ref[t]] = [Obj(j, t) EXCEPT !.sent = @ + 1]]
      BY <1>1, <2>1 DEF SenderCommit, Counted, OwnerInv, TypeOK, WorkerTypes
    <3>3. objs[q][t] \in Seq(SendBlockMeta)
      BY <1>1 DEF OwnerInv, TypeOK, WorkerTypes
    <3>4. PICK x \in SendBlockMeta :
                /\ x = [Obj(j, t) EXCEPT !.sent = @ + 1]
                /\ x.ready = Obj(j, t).ready /\ x.owned = Obj(j, t).owned
      BY <3>1, CountEntry
    <3>5. objs'[q][t] = [objs[q][t] EXCEPT ![j.ref[t]] = x]
      BY <3>2, <3>4
    <3>6. /\ Len(objs'[q][t]) = Len(objs[q][t])
          /\ \A k \in 1..Len(objs[q][t]) :
               objs'[q][t][k] = IF k = j.ref[t] THEN x ELSE objs[q][t][k]
      BY <3>1, <3>3, <3>5, ReplaceEntry
    <3> QED BY <3>1, <3>4, <3>6
  <2>2. CASE ~(q = j.p /\ t \in j.reqs)
    <3>1. objs'[q][t] = objs[q][t]
      BY <1>1, <2>2 DEF SenderCommit, OwnerInv, TypeOK, WorkerTypes
    <3> QED BY <3>1
  <2> QED BY SMTT(30), <2>1, <2>2
<1>2. \A q \in PRanks, t \in Transfers : Len(objs[q][t]) \in Nat
  BY DEF OwnerInv, TypeOK, WorkerTypes
<1>3. EntriesKept
  BY SMTT(30), <1>1, <1>2 DEF EntriesKept
<1>4. ReadyIsOwned'
  BY <1>1 DEF ReadyIsOwned, OwnerInv
<1> QED BY <1>3, <1>4

(* The step from one job state to the next, for the job that makes it.     *)
LEMMA OwnerStep == OwnerInv /\ [Next]_vars => OwnerInv'
<1> SUFFICES ASSUME OwnerInv, [Next]_vars PROVE OwnerInv'
  OBVIOUS
<1>1. TypeOK /\ TypeOK'
  BY TypeStep DEF OwnerInv
<1> DEFINE Writing(k) == k.pc \in {"write", "commit"}
           SameEntries(j, k) == k.p = j.p /\ k.reqs = j.reqs /\ k.ref = j.ref
<1>2. \A j \in pulls : Writing(j) => \A t \in j.reqs : Obj(j, t).ready
  BY DEF OwnerInv, WritersAreReady
<1>3. ASSUME \A k \in pulls' : Writing(k) => k \in pulls, EntriesKept
      PROVE  WritersAreReady'
  BY <1>1, <1>2, <1>3, ReadyKept
<1>4. CASE PSchedulerNext \/ DSchedulerNext
  <2>1. UNCHANGED <<objs, pulls>>
    BY <1>4 DEF PSchedulerNext, DSchedulerNext, PSchedule, PFinishCapped, PDrop,
                DSchedule, DAbort, workerVars
  <2> QED BY <1>1, <1>3, <2>1, SameKept DEF OwnerInv
<1>5. ASSUME NEW p \in PRanks, PWorkerNext(p) PROVE OwnerInv'
  <2>1. CASE StartLoadKVProducer(p)
    <3>1. pulls' = pulls
      BY <2>1 DEF StartLoadKVProducer
    <3> QED BY <1>1, <1>3, <2>1, <3>1, StartLoadOwner DEF OwnerInv
  <2>2. CASE PollFinished(p) \/ \E E \in SUBSET Transfers : PollExpired(p, E)
    <3>1. UNCHANGED <<objs, pulls>>
      BY <2>2 DEF PollFinished, PollExpired
    <3> QED BY <1>1, <1>3, <3>1, SameKept DEF OwnerInv
  <2> QED BY <1>5, <2>1, <2>2 DEF PWorkerNext
<1>6. ASSUME NEW d \in DRanks, DWorkerNext(d) PROVE OwnerInv'
  <2>1. objs' = objs /\ \A k \in pulls' : Writing(k) => k \in pulls
    BY <1>6 DEF DWorkerNext, GroupKVPull, FetchFinishedRecving, NewPull, workerVars
  <2> QED BY <1>1, <1>3, <2>1, SameKept DEF OwnerInv
<1>7. ASSUME NEW j \in pulls, SenderNext(j) PROVE OwnerInv'
  <2>0. j \in Pull
    BY <1>1 DEF TypeOK, PullTypes
  <2>1. CASE SenderStart(j)
    <3>1. \A k \in pulls' : k \in pulls \/ k.pc = "wait"
      BY <2>0, <2>1 DEF SenderStart, Become, Pull
    <3> QED BY <1>1, <1>3, <2>1, <3>1, SenderStartOwner DEF OwnerInv
  <2>2. CASE SenderReady(j)
    <3>1. objs' = objs
      BY <2>2 DEF SenderReady, workerVars
    <3>2. \A k \in pulls' : k \in pulls \/ SameEntries(j, k)
      BY <2>0, <2>2 DEF SenderReady, Become, Pull
    <3>3. j.pc # "queued" /\ \A t \in j.reqs : Obj(j, t).ready
      BY <2>2 DEF SenderReady
    <3>4. WritersAreReady'
      BY <1>1, <1>2, <3>1, <3>2, <3>3, SameKept, ReadyKept
    <3> QED BY <1>1, <3>1, <3>4, SameKept DEF OwnerInv
  <2>3. CASE SenderWrite(j)
    <3>1. objs' = objs
      BY <2>3 DEF SenderWrite, workerVars
    <3>2. \A k \in pulls' : k \in pulls \/ SameEntries(j, k)
      BY <2>0, <2>3 DEF SenderWrite, Become, Pull
    <3>3. j.pc # "queued" /\ \A t \in j.reqs : Obj(j, t).ready
      BY <1>2, <2>3 DEF SenderWrite
    <3>4. WritersAreReady'
      BY <1>1, <1>2, <3>1, <3>2, <3>3, SameKept, ReadyKept
    <3> QED BY <1>1, <3>1, <3>4, SameKept DEF OwnerInv
  <2>4. CASE SenderTimeout(j) \/ SenderFail(j) \/ SenderPublish(j)
    <3>1. objs' = objs
      BY <2>4 DEF SenderTimeout, SenderFail, SenderPublish, workerVars
    <3>2. \A k \in pulls' : k \in pulls \/ k.pc \in {"error", "done"}
      BY <2>0, <2>4 DEF SenderTimeout, SenderFail, SenderPublish, Become, Pull
    <3> QED BY <1>1, <1>3, <3>1, <3>2, SameKept DEF OwnerInv
  <2>5. CASE SenderCommit(j)
    <3>1. \A k \in pulls' : k \in pulls \/ k.pc = "publish"
      BY <2>0, <2>5 DEF SenderCommit, Become, Pull
    <3> QED BY <1>1, <1>3, <2>5, <3>1, SenderCommitOwner DEF OwnerInv
  <2> QED BY <1>7, <2>1, <2>2, <2>3, <2>4, <2>5 DEF SenderNext
<1>8. ASSUME NEW j \in pulls, ReceiveNext(j) PROVE OwnerInv'
  <2>1. objs' = objs
    BY <1>8 DEF ReceiveNext, ReceiveDone, ReceiveError, ReceiveTimeout, workerVars
  <2>2. CASE ReceiveDone(j) \/ ReceiveError(j)
    <3>1. pulls' \subseteq pulls
      BY <2>2 DEF ReceiveDone, ReceiveError
    <3> QED BY <1>1, <1>3, <2>1, <3>1, SameKept DEF OwnerInv
  <2>3. CASE ReceiveTimeout(j)
    <3>0. j \in Pull
      BY <1>1 DEF TypeOK, PullTypes
    <3>1. \A k \in pulls' : k \in pulls \/ (k.pc = j.pc /\ SameEntries(j, k))
      BY <2>3, <3>0 DEF ReceiveTimeout, Become, Pull
    <3>2. WritersAreReady'
      BY <1>1, <1>2, <2>1, <3>1, SameKept, ReadyKept
    <3> QED BY <1>1, <2>1, <3>2, SameKept DEF OwnerInv
  <2> QED BY <1>8, <2>2, <2>3 DEF ReceiveNext
<1>9. CASE UNCHANGED vars
  <2>1. UNCHANGED <<objs, pulls>>
    BY <1>9 DEF vars, workerVars
  <2> QED BY <1>1, <1>3, <2>1, SameKept DEF OwnerInv
<1> QED BY <1>4, <1>5, <1>6, <1>7, <1>8, <1>9 DEF Next

LEMMA OwnerInit == Init => OwnerInv
<1> SUFFICES ASSUME Init PROVE OwnerInv
  OBVIOUS
<1>1. ReadyIsOwned /\ WritersAreReady
  BY DEF Init, ReadyIsOwned, WritersAreReady
<1> QED BY <1>1, InitType DEF OwnerInv

(* Whatever the interleaving of pulls, allocations, commits and expiries, a*)
(* sender thread that reaches its commit knows the P request it completes. *)
THEOREM OwnerAlwaysKnown == Spec => []OwnerKnown
<1>1. OwnerInv => OwnerKnown
  <2> SUFFICES ASSUME OwnerInv, NEW j \in pulls, j.pc \in {"write", "commit"},
                      NEW t \in j.reqs
               PROVE  Obj(j, t).owned
    BY DEF OwnerKnown
  <2>1. /\ j.p \in PRanks /\ t \in Transfers
        /\ j.ref[t] \in 1..Len(objs[j.p][t])
    BY ObjType DEF OwnerInv, TypeOK
  <2> QED BY <2>1 DEF OwnerInv, ReadyIsOwned, WritersAreReady, Obj
<1> QED BY <1>1, OwnerInit, OwnerStep, PTL DEF Spec

-----------------------------------------------------------------------------
(***************************************************************************)
(* Part 2: writing from held blocks, reporting once.                       *)
(***************************************************************************)

(* A transfer's entries on a rank, those that are ready, those with a      *)
(* running timer.                                                          *)
Index(p, t) == 1 .. Len(objs[p][t])
Ready(p, t) == {k \in Index(p, t) : objs[p][t][k].ready}
Armed(p, t) == {k \in Index(p, t) : objs[p][t][k].armed}

(* The commit of a transfer reaches a worker once and makes an entry ready *)
(* there; from it on the scheduler holds the blocks.                       *)
InBox(p, t) == \E i \in 1 .. Len(pInbox[p]) : t \in pInbox[p][i].commit
CommitInv == \A p \in PRanks, t \in Transfers :
    /\ (t \in needSend \/ InBox(p, t) \/ Ready(p, t) # {}) => pReq[t] = "held"
    /\ t \in needSend => ~InBox(p, t) /\ Ready(p, t) = {}
    /\ InBox(p, t) => Ready(p, t) = {}
    /\ \A i, k \in 1 .. Len(pInbox[p]) :
          (t \in pInbox[p][i].commit /\ t \in pInbox[p][k].commit) => i = k

(* The timer runs only for entries that are ready.                         *)
ArmedInv == \A p \in PRanks, t \in Transfers : Armed(p, t) \subseteq Ready(p, t)

(* A decode rank pulls a transfer from a prefill rank once.                *)
Waits(d, t) == t \in needRecv \/ \E i \in 1 .. Len(dInbox[d]) : t \in dInbox[d][i]
SamePull(i, j) == i.p = j.p /\ i.d = j.d /\ i.reqs = j.reqs
PullInv ==
    /\ \A j \in pulls : j.d \in DTargets(j.p)
    /\ \A t \in Transfers : dReq[t] = "absent" =>
          /\ \A d \in DRanks : ~Waits(d, t)
          /\ \A j \in pulls : t \notin j.reqs
    /\ \A t \in Transfers, d \in DRanks : Waits(d, t) =>
          \A j \in pulls : j.d = d => t \notin j.reqs
    /\ \A t \in needRecv, d \in DRanks : \A i \in 1 .. Len(dInbox[d]) : t \notin dInbox[d][i]
    /\ \A t \in Transfers, d \in DRanks : \A i, k \in 1 .. Len(dInbox[d]) :
          (t \in dInbox[d][i] /\ t \in dInbox[d][k]) => i = k
    /\ \A i, j \in pulls : (i.p = j.p /\ i.d = j.d /\ i.reqs \cap j.reqs # {}) => i = j

(* A job that uses an entry has told it how many ranks to expect, and a    *)
(* ready one is the transfer's current one.                                *)
Before == {"queued", "wait", "write", "commit"}
Using == {"wait", "write", "commit"}
UseInv == \A j \in pulls : j.pc \in Using => \A t \in j.reqs :
    /\ Obj(j, t).need = Cardinality(DTargets(j.p))
    /\ j.ref[t] \in Ready(j.p, t) => cur[j.p][t] = j.ref[t]

(* The D ranks that may still be counted on an entry of t: together with   *)
(* those that were counted on any one, they are at most all of them.       *)
Left(p, t) == {d \in DTargets(p) :
    \/ dReq[t] = "absent" \/ Waits(d, t)
    \/ \E j \in pulls : j.p = p /\ j.d = d /\ t \in j.reqs /\ j.pc \in Before}
CountInv == \A p \in PRanks, t \in Transfers : \A k \in Index(p, t) :
    objs[p][t][k].sent + Cardinality(Left(p, t)) <= Cardinality(DTargets(p))

(* A rank is through with a transfer in one place only, and from then on   *)
(* no ready entry of it is in the dictionary.                              *)
Publishing(j, p, t) == j.p = p /\ j.pc = "publish" /\ t \in j.fin
Through(p, t) == \/ reports[p][t] > 0
                 \/ t \in finishedSend[p] \/ t \in polled[p].fin
                 \/ \E j \in pulls : Publishing(j, p, t)
OnePlace(p, t) ==
    /\ reports[p][t] <= 1
    /\ reports[p][t] = 1 => t \notin finishedSend[p] \cup polled[p].fin
    /\ t \in finishedSend[p] => t \notin polled[p].fin
    /\ \A j \in pulls : Publishing(j, p, t) =>
          /\ reports[p][t] = 0 /\ t \notin finishedSend[p] \cup polled[p].fin
          /\ \A i \in pulls : Publishing(i, p, t) => i = j
ThroughInv == \A p \in PRanks, t \in Transfers :
    /\ Through(p, t) => Ready(p, t) # {} /\ cur[p][t] \notin Ready(p, t)
    /\ OnePlace(p, t)

WorkInv == CommitInv /\ ArmedInv /\ UseInv /\ CountInv /\ ThroughInv
StateInv == PullInv /\ WorkInv /\ torn = {}
HeldInv == OwnerInv /\ StateInv

-----------------------------------------------------------------------------
(* What the steps do to the table of entries.                              *)

Stored(p, S, o, q, t) ==
    IF q = p /\ t \in S
    THEN /\ cur'[q][t] = IF cur[q][t] = 0 THEN Len(objs[q][t]) + 1 ELSE cur[q][t]
         /\ Index(q, t)' = Index(q, t) \cup {cur'[q][t]}
         /\ objs'[q][t][cur'[q][t]] = o[t]
         /\ \A k \in Index(q, t) : k # cur'[q][t] => objs'[q][t][k] = objs[q][t][k]
    ELSE objs'[q][t] = objs[q][t] /\ cur'[q][t] = cur[q][t]

LEMMA StoreEffect ==
    ASSUME WorkerTypes, NEW p \in PRanks, NEW S \in SUBSET Transfers,
           NEW o \in [Transfers -> SendBlockMeta], Store(p, S, o),
           NEW q \in PRanks, NEW t \in Transfers
    PROVE  Stored(p, S, o, q, t)
<1>1. /\ objs[q][t] \in Seq(SendBlockMeta) /\ Len(objs[q][t]) \in Nat
      /\ cur[q][t] \in Nat /\ cur[q][t] <= Len(objs[q][t])
  BY EntriesType
<1>2. cur'[q][t] = IF q = p /\ t \in S /\ cur[q][t] = 0 THEN Len(objs[q][t]) + 1
                   ELSE cur[q][t]
  BY DEF Store, WorkerTypes
<1>3. CASE ~(q = p /\ t \in S)
  <2>1. objs'[q][t] = objs[q][t]
    BY <1>3 DEF Store, WorkerTypes
  <2> QED BY <1>2, <1>3, <2>1 DEF Stored
<1>4. CASE q = p /\ t \in S /\ cur[q][t] = 0
  <2>1. objs'[q][t] = Append(objs[q][t], o[t]) /\ o[t] \in SendBlockMeta
    BY <1>4 DEF Store, WorkerTypes
  <2>2. /\ Len(objs'[q][t]) = Len(objs[q][t]) + 1
        /\ objs'[q][t][Len(objs[q][t]) + 1] = o[t]
        /\ \A k \in Index(q, t) : objs'[q][t][k] = objs[q][t][k]
    BY <1>1, <2>1 DEF Index
  <2>3. Index(q, t)' = Index(q, t) \cup {Len(objs[q][t]) + 1}
    BY <1>1, <2>2 DEF Index
  <2> QED BY <1>2, <1>4, <2>2, <2>3 DEF Stored
<1>5. CASE q = p /\ t \in S /\ cur[q][t] # 0
  <2>1. /\ objs'[q][t] = [objs[q][t] EXCEPT ![cur[q][t]] = o[t]] /\ o[t] \in SendBlockMeta
        /\ cur[q][t] \in 1 .. Len(objs[q][t])
    BY <1>1, <1>5 DEF Store, WorkerTypes
  <2>2. /\ Len(objs'[q][t]) = Len(objs[q][t])
        /\ \A k \in Index(q, t) :
              objs'[q][t][k] = IF k = cur[q][t] THEN o[t] ELSE objs[q][t][k]
    BY <1>1, <2>1, ReplaceEntry DEF Index
  <2> QED BY <1>2, <1>5, <2>1, <2>2 DEF Index, Stored
<1> QED BY <1>3, <1>4, <1>5

(* What a commit, an allocation or a new pull may change of t's entries.   *)
Grows(q, t) ==
    /\ Index(q, t) \subseteq Index(q, t)'
    /\ cur'[q][t] = cur[q][t] \/ (cur[q][t] = 0 /\ cur'[q][t] \notin Index(q, t))
    /\ Armed(q, t) \subseteq Ready(q, t) => Armed(q, t)' \subseteq Ready(q, t)'
    /\ \A k \in Index(q, t) : objs'[q][t][k].sent = objs[q][t][k].sent
    /\ \A k \in Index(q, t)' \ Index(q, t) : objs'[q][t][k].sent = 0

LEMMA SameGrows ==
    ASSUME NEW q, NEW t, objs'[q][t] = objs[q][t], cur'[q][t] = cur[q][t]
    PROVE  Grows(q, t) /\ Index(q, t)' = Index(q, t) /\ Ready(q, t)' = Ready(q, t)
<1>1. Index(q, t)' = Index(q, t)
  BY DEF Index
<1>2. Ready(q, t)' = Ready(q, t) /\ Armed(q, t)' = Armed(q, t)
  BY <1>1 DEF Ready, Armed
<1> QED BY <1>1, <1>2 DEF Grows

LEMMA StartLoadEffect ==
    ASSUME TypeOK, NEW p \in PRanks, StartLoadKVProducer(p),
           NEW q \in PRanks, NEW t \in Transfers
    PROVE  /\ Grows(q, t)
           /\ Ready(q, t)' = Ready(q, t) \cup
                 (IF q = p /\ t \in Head(pInbox[p]).commit THEN {cur'[q][t]} ELSE {})
           /\ \A k \in Index(q, t) : objs'[q][t][k].need = objs[q][t][k].need
<1> DEFINE m == Head(pInbox[p])
           S == m.alloc \cup m.commit
           o == [u \in Transfers |-> Loaded(p, u, m)]
<1>1. S \in SUBSET Transfers
  <2>1. pInbox[p] \in Seq(Msgs) /\ pInbox[p] # <<>>
    BY DEF StartLoadKVProducer, TypeOK, PTypes
  <2>2. m \in Msgs
    BY <2>1
  <2> QED BY <2>2 DEF Msgs
<1>2. \A u \in Transfers :
        /\ Owned(p, u) \in SendBlockMeta
        /\ cur[p][u] # 0 => LET e == objs[p][u][cur[p][u]] IN
             /\ Owned(p, u).ready = e.ready /\ Owned(p, u).armed = e.armed
             /\ Owned(p, u).need = e.need /\ Owned(p, u).sent = e.sent
        /\ cur[p][u] = 0 => ~Owned(p, u).ready /\ ~Owned(p, u).armed /\ Owned(p, u).sent = 0
  BY PlaceholderType, CurrentEntryType DEF Owned, TypeOK, SendBlockMeta, Placeholder
<1>3. \A u \in Transfers :
        /\ Loaded(p, u, m) \in SendBlockMeta
        /\ Loaded(p, u, m).need = Owned(p, u).need /\ Loaded(p, u, m).sent = Owned(p, u).sent
        /\ u \in m.commit => Loaded(p, u, m).ready
        /\ u \notin m.commit => Loaded(p, u, m) = Owned(p, u)
  BY <1>2 DEF Loaded, SendBlockMeta
<1>4. o \in [Transfers -> SendBlockMeta] /\ Store(p, S, o)
  BY <1>3 DEF StartLoadKVProducer
<1>5. o[t] = Loaded(p, t, m)
  OBVIOUS
<1>6. m.commit \subseteq S
  OBVIOUS
<1>7. cur[q][t] # 0 => cur[q][t] \in Index(q, t)
  BY EntriesType DEF Index, TypeOK
<1>8. Len(objs[q][t]) \in Nat
  BY EntriesType DEF TypeOK
<1> HIDE DEF o
<1>11. Stored(p, S, o, q, t)
  <2> HIDE DEF S
  <2> QED BY <1>1, <1>4, StoreEffect DEF TypeOK
<1>9. CASE q = p /\ t \in S
  <2>1. /\ cur'[q][t] = IF cur[q][t] = 0 THEN Len(objs[q][t]) + 1 ELSE cur[q][t]
        /\ Index(q, t)' = Index(q, t) \cup {cur'[q][t]}
        /\ objs'[q][t][cur'[q][t]] = Loaded(p, t, m)
        /\ \A k \in Index(q, t) : k # cur'[q][t] => objs'[q][t][k] = objs[q][t][k]
    <3> HIDE DEF S, m
    <3> QED BY <1>5, <1>9, <1>11 DEF Stored
  <2> HIDE DEF S, m
  <2>2. cur[q][t] = 0 => cur'[q][t] \notin Index(q, t)
    BY <1>8, <2>1 DEF Index
  <2>3. Ready(q, t)' = Ready(q, t) \cup (IF t \in m.commit THEN {cur'[q][t]} ELSE {})
    BY <1>2, <1>3, <1>7, <1>9, <2>1, <2>2 DEF Ready
  <2>4. Armed(q, t) \subseteq Ready(q, t) => Armed(q, t)' \subseteq Ready(q, t)'
    BY <1>2, <1>3, <1>7, <1>9, <2>1, <2>2 DEF Ready, Armed
  <2>5. \A k \in Index(q, t) : /\ objs'[q][t][k].need = objs[q][t][k].need
                               /\ objs'[q][t][k].sent = objs[q][t][k].sent
    BY <1>2, <1>3, <1>7, <1>9, <2>1, <2>2
  <2>6. \A k \in Index(q, t)' \ Index(q, t) : objs'[q][t][k].sent = 0
    BY <1>2, <1>3, <1>7, <1>9, <2>1, <2>2
  <2> QED BY <1>9, <2>1, <2>2, <2>3, <2>4, <2>5, <2>6 DEF Grows, m
<1>10. CASE ~(q = p /\ t \in S)
  <2>1. objs'[q][t] = objs[q][t] /\ cur'[q][t] = cur[q][t]
    <3> HIDE DEF S
    <3> QED BY <1>10, <1>11 DEF Stored
  <2> QED BY <1>6, <1>10, <2>1, SameGrows
<1> QED BY <1>9, <1>10

LEMMA SenderStartEffect ==
    ASSUME TypeOK, NEW j \in pulls, SenderStart(j), NEW q \in PRanks, NEW t \in Transfers
    PROVE  /\ Grows(q, t)
           /\ Ready(q, t)' = Ready(q, t)
           /\ \A k \in Index(q, t) :
                 \/ objs'[q][t][k].need = objs[q][t][k].need
                 \/ objs'[q][t][k].need = Cardinality(DTargets(q))
           /\ (q = j.p /\ t \in j.reqs) =>
                 objs'[q][t][cur'[q][t]].need = Cardinality(DTargets(q))
<1> DEFINE e(u) == IF cur[j.p][u] = 0 THEN Placeholder ELSE objs[j.p][u][cur[j.p][u]]
           o == [u \in Transfers |->
                   [e(u) EXCEPT !.armed = FALSE, !.need = Cardinality(DTargets(j.p))]]
<1>1. j.p \in PRanks /\ j.reqs \in SUBSET Transfers
  BY DEF TypeOK, PullTypes, Pull
<1>2. \A u \in Transfers : e(u) \in SendBlockMeta
  BY <1>1, PlaceholderType, CurrentEntryType DEF TypeOK
<1>3. Store(j.p, j.reqs, o)
  BY DEF SenderStart
<1>4. /\ cur[j.p][t] # 0 => e(t) = objs[j.p][t][cur[j.p][t]]
      /\ cur[j.p][t] = 0 => ~e(t).ready /\ e(t).sent = 0
  BY DEF Placeholder
<1> HIDE DEF e
<1>5. /\ o \in [Transfers -> SendBlockMeta]
      /\ o[t].ready = e(t).ready /\ o[t].sent = e(t).sent /\ ~o[t].armed
      /\ o[t].need = Cardinality(DTargets(j.p))
  BY <1>1, <1>2, NeedType DEF SendBlockMeta
<1> HIDE DEF o
<1>6. cur[q][t] # 0 => cur[q][t] \in Index(q, t)
  BY EntriesType DEF Index, TypeOK
<1>7. Len(objs[q][t]) \in Nat
  BY EntriesType DEF TypeOK
<1>10. Stored(j.p, j.reqs, o, q, t)
  BY SMTT(30), <1>1, <1>3, <1>5, StoreEffect DEF TypeOK
<1>8. CASE q = j.p /\ t \in j.reqs
  <2>1. /\ cur'[q][t] = IF cur[q][t] = 0 THEN Len(objs[q][t]) + 1 ELSE cur[q][t]
        /\ Index(q, t)' = Index(q, t) \cup {cur'[q][t]}
        /\ objs'[q][t][cur'[q][t]] = o[t]
        /\ \A k \in Index(q, t) : k # cur'[q][t] => objs'[q][t][k] = objs[q][t][k]
    BY <1>8, <1>10 DEF Stored
  <2>2. cur[q][t] = 0 => cur'[q][t] \notin Index(q, t)
    BY SMTT(30), <1>7, <2>1 DEF Index
  <2>3. Ready(q, t)' = Ready(q, t)
    BY SMTT(30), <1>4, <1>5, <1>6, <1>8, <2>1, <2>2 DEF Ready
  <2>4. Armed(q, t) \subseteq Ready(q, t) => Armed(q, t)' \subseteq Ready(q, t)'
    BY <1>4, <1>5, <1>6, <1>8, <2>1, <2>2 DEF Ready, Armed
  <2>5. \A k \in Index(q, t) : /\ objs'[q][t][k].sent = objs[q][t][k].sent
                               /\ \/ objs'[q][t][k].need = objs[q][t][k].need
                                  \/ objs'[q][t][k].need = Cardinality(DTargets(q))
    BY SMTT(30), <1>4, <1>5, <1>6, <1>8, <2>1, <2>2
  <2>6. \A k \in Index(q, t)' \ Index(q, t) : objs'[q][t][k].sent = 0
    BY <1>4, <1>5, <1>6, <1>8, <2>1, <2>2
  <2> QED BY <1>5, <1>8, <2>1, <2>2, <2>3, <2>4, <2>5, <2>6 DEF Grows
<1>9. CASE ~(q = j.p /\ t \in j.reqs)
  <2>1. objs'[q][t] = objs[q][t] /\ cur'[q][t] = cur[q][t]
    BY <1>9, <1>10 DEF Stored
  <2> QED BY <1>9, <2>1, SameGrows
<1> QED BY <1>8, <1>9

LEMMA SenderCommitEffect ==
    ASSUME TypeOK, NEW j \in pulls, SenderCommit(j), NEW q \in PRanks, NEW t \in Transfers
    PROVE  /\ Index(q, t)' = Index(q, t)
           /\ Ready(q, t)' = Ready(q, t) /\ Armed(q, t)' = Armed(q, t)
           /\ \A k \in Index(q, t) :
                /\ objs'[q][t][k].need = objs[q][t][k].need
                /\ objs'[q][t][k].sent = IF q = j.p /\ t \in j.reqs /\ k = j.ref[t]
                                         THEN objs[q][t][k].sent + 1 ELSE objs[q][t][k].sent
           /\ cur'[q][t] = IF q = j.p /\ t \in Completed(j) THEN 0 ELSE cur[q][t]
<1>1. cur'[q][t] = IF q = j.p /\ t \in Completed(j) THEN 0 ELSE cur[q][t]
  BY DEF SenderCommit, TypeOK, WorkerTypes
<1>2. CASE q = j.p /\ t \in j.reqs
  <2>1. /\ j.ref[t] \in 1 .. Len(objs[q][t])
        /\ Obj(j, t) = objs[q][t][j.ref[t]] /\ Obj(j, t) \in SendBlockMeta
    BY <1>2, ObjType DEF SenderCommit, TypeOK, Obj
  <2>2. objs'[q][t] = [objs[q][t] EXCEPT ![j.ref[t]] = [Obj(j, t) EXCEPT !.sent = @ + 1]]
    BY <1>2 DEF SenderCommit, Counted, TypeOK, WorkerTypes
  <2>3. objs[q][t] \in Seq(SendBlockMeta)
    BY EntriesType DEF TypeOK
  <2>4. PICK x \in SendBlockMeta :
          /\ x = [Obj(j, t) EXCEPT !.sent = @ + 1]
          /\ x.ready = Obj(j, t).ready /\ x.armed = Obj(j, t).armed
          /\ x.need = Obj(j, t).need /\ x.sent = Obj(j, t).sent + 1
    <3> DEFINE x == [Obj(j, t) EXCEPT !.sent = @ + 1]
    <3>1. Obj(j, t).sent + 1 \in Nat
      BY <2>1 DEF SendBlockMeta
    <3>2. x \in SendBlockMeta
      BY <2>1, <3>1 DEF SendBlockMeta
    <3>3. /\ x.ready = Obj(j, t).ready /\ x.armed = Obj(j, t).armed
          /\ x.need = Obj(j, t).need /\ x.sent = Obj(j, t).sent + 1
      BY <2>1 DEF SendBlockMeta
    <3> QED BY <3>2, <3>3
  <2>5. /\ Len(objs'[q][t]) = Len(objs[q][t])
        /\ \A k \in 1 .. Len(objs[q][t]) :
              objs'[q][t][k] = IF k = j.ref[t] THEN x ELSE objs[q][t][k]
    <3>1. objs'[q][t] = [objs[q][t] EXCEPT ![j.ref[t]] = x]
      BY <2>2, <2>4
    <3> QED BY <2>1, <2>3, <3>1, ReplaceEntry
  <2>6. Index(q, t)' = Index(q, t)
    BY SMTT(30), <2>5 DEF Index
  <2>7. \A k \in Index(q, t) :
          /\ objs'[q][t][k].ready = objs[q][t][k].ready
          /\ objs'[q][t][k].armed = objs[q][t][k].armed
          /\ objs'[q][t][k].need = objs[q][t][k].need
          /\ objs'[q][t][k].sent = IF k = j.ref[t] THEN objs[q][t][k].sent + 1
                                   ELSE objs[q][t][k].sent
    BY <2>1, <2>4, <2>5 DEF Index
  <2>8. Ready(q, t)' = Ready(q, t) /\ Armed(q, t)' = Armed(q, t)
    BY <2>6, <2>7 DEF Ready, Armed
  <2> QED BY <1>1, <1>2, <2>6, <2>7, <2>8
<1>3. CASE ~(q = j.p /\ t \in j.reqs)
  <2>1. objs'[q][t] = objs[q][t]
    BY <1>3 DEF SenderCommit, TypeOK, WorkerTypes
  <2> QED BY <1>1, <1>3, <2>1 DEF Index, Ready, Armed
<1> QED BY <1>2, <1>3

-----------------------------------------------------------------------------
(* What the parts of the invariant depend on.                              *)

LEMMA CommitSame ==
    ASSUME CommitInv, UNCHANGED <<pReq, needSend, pInbox>>,
           \A q \in PRanks, t \in Transfers : Ready(q, t)' = Ready(q, t)
    PROVE  CommitInv'
<1>1. \A q \in PRanks, t \in Transfers : InBox(q, t)' = InBox(q, t)
  BY DEF InBox
<1> QED BY <1>1 DEF CommitInv

LEMMA ArmedGrows ==
    ASSUME ArmedInv, \A q \in PRanks, t \in Transfers : Grows(q, t)
    PROVE  ArmedInv'
BY DEF ArmedInv, Grows

LEMMA SameTable ==
    ASSUME UNCHANGED <<objs, cur>>
    PROVE  \A q \in PRanks, t \in Transfers :
              /\ Grows(q, t) /\ Index(q, t)' = Index(q, t)
              /\ Ready(q, t)' = Ready(q, t) /\ Armed(q, t)' = Armed(q, t)
<1> SUFFICES ASSUME NEW q \in PRanks, NEW t \in Transfers
             PROVE  /\ Grows(q, t) /\ Index(q, t)' = Index(q, t)
                    /\ Ready(q, t)' = Ready(q, t) /\ Armed(q, t)' = Armed(q, t)
  OBVIOUS
<1>1. Index(q, t)' = Index(q, t) /\ Armed(q, t)' = Armed(q, t)
  BY DEF Armed, Index
<1> QED BY <1>1, SameGrows

(* A job that moves, or pulls that leave.                                  *)
LEMMA PullMoved ==
    ASSUME PullInv, UNCHANGED <<dReq, needRecv, dInbox>>,
           NEW j \in pulls, NEW k, SamePull(k, j), Become(j, k)
    PROVE  PullInv'
<1>1. \A x \in pulls' : \E y \in pulls : SamePull(x, y) /\ (x = y \/ (x = k /\ y = j))
  BY DEF Become, SamePull
<1>2. \A t \in Transfers, d \in DRanks : Waits(d, t)' = Waits(d, t)
  BY DEF Waits
<1>3. \A x \in pulls' : x.d \in DTargets(x.p)
  BY <1>1 DEF PullInv, SamePull
<1>4. \A t \in Transfers : dReq'[t] = "absent" =>
          /\ \A d \in DRanks : ~Waits(d, t)'
          /\ \A x \in pulls' : t \notin x.reqs
  BY <1>1, <1>2 DEF PullInv, SamePull
<1>5. \A t \in Transfers, d \in DRanks : Waits(d, t)' =>
          \A x \in pulls' : x.d = d => t \notin x.reqs
  BY <1>1, <1>2 DEF PullInv, SamePull
<1>6. ASSUME NEW x \in pulls', NEW y \in pulls', x.p = y.p, x.d = y.d,
             x.reqs \cap y.reqs # {}
      PROVE  x = y
  <2>1. PICK a \in pulls : SamePull(x, a) /\ (x = a \/ (x = k /\ a = j))
    BY <1>1
  <2>2. PICK b \in pulls : SamePull(y, b) /\ (y = b \/ (y = k /\ b = j))
    BY <1>1
  <2>3. a = b
    BY <1>6, <2>1, <2>2 DEF PullInv, SamePull
  <2>4. j \notin pulls' \/ k = j
    BY DEF Become
  <2> QED BY <2>1, <2>2, <2>3, <2>4
<1>7. /\ \A t \in needRecv', d \in DRanks :
           \A i \in 1 .. Len(dInbox'[d]) : t \notin dInbox'[d][i]
      /\ \A t \in Transfers, d \in DRanks : \A i, n \in 1 .. Len(dInbox'[d]) :
           (t \in dInbox'[d][i] /\ t \in dInbox'[d][n]) => i = n
  BY DEF PullInv
<1> QED BY <1>3, <1>4, <1>5, <1>6, <1>7 DEF PullInv

LEMMA PullsFewer ==
    ASSUME PullInv, UNCHANGED <<dReq, needRecv, dInbox>>, pulls' \subseteq pulls
    PROVE  PullInv'
<1>1. \A t \in Transfers, d \in DRanks : Waits(d, t)' = Waits(d, t)
  BY DEF Waits
<1> QED BY <1>1 DEF PullInv

(* No step adds a rank to those that are left.                             *)
LEMMA LeftFewer ==
    ASSUME NEW q, NEW t, UNCHANGED <<dReq, needRecv, dInbox>>,
           \A x \in pulls' : x.pc \in Before =>
              \E y \in pulls : SamePull(x, y) /\ y.pc \in Before
    PROVE  Left(q, t)' \subseteq Left(q, t)
BY DEF Left, Waits, SamePull

LEMMA LeftSize ==
    ASSUME NEW q \in PRanks, NEW t
    PROVE  /\ IsFiniteSet(Left(q, t)) /\ Cardinality(Left(q, t)) \in Nat
           /\ \A S \in SUBSET Left(q, t) : /\ Cardinality(S) \in Nat
                                           /\ Cardinality(S) <= Cardinality(Left(q, t))
<1>1. IsFiniteSet(DTargets(q)) /\ Left(q, t) \subseteq DTargets(q)
  BY TransferAssumption, FS_Subset DEF DTargets, Left
<1>2. IsFiniteSet(Left(q, t))
  BY <1>1, FS_Subset
<1> QED BY <1>2, FS_Subset, FS_CardinalityType

LEMMA CountGrows ==
    ASSUME TypeOK, CountInv,
           \A q \in PRanks, t \in Transfers : Grows(q, t) /\ Left(q, t)' \subseteq Left(q, t)
    PROVE  CountInv'
<1> SUFFICES ASSUME NEW q \in PRanks, NEW t \in Transfers, NEW k \in Index(q, t)'
             PROVE  objs'[q][t][k].sent + Cardinality(Left(q, t)')
                       <= Cardinality(DTargets(q))
  BY DEF CountInv
<1>1. /\ Cardinality(Left(q, t)') \in Nat /\ Cardinality(Left(q, t)) \in Nat
      /\ Cardinality(Left(q, t)') <= Cardinality(Left(q, t))
      /\ Cardinality(DTargets(q)) \in Nat
  BY LeftSize, NeedType
<1>2. CASE k \in Index(q, t)
  <2>1. objs[q][t][k].sent \in Nat
    <3>1. objs[q][t] \in Seq(SendBlockMeta) /\ k \in 1 .. Len(objs[q][t])
      BY <1>2, EntriesType DEF TypeOK, Index
    <3>2. objs[q][t][k] \in SendBlockMeta
      BY <3>1
    <3> QED BY <3>2 DEF SendBlockMeta
  <2> QED BY <1>1, <1>2, <2>1 DEF CountInv, Grows
<1>3. CASE k \notin Index(q, t)
  <2>1. Left(q, t)' \subseteq DTargets(q)
    BY DEF Left
  <2>2. IsFiniteSet(DTargets(q))
    BY TransferAssumption, FS_Subset DEF DTargets
  <2>3. Cardinality(Left(q, t)') <= Cardinality(DTargets(q))
    BY <2>1, <2>2, FS_Subset
  <2>4. objs'[q][t][k].sent = 0
    BY <1>3 DEF Grows
  <2> QED BY <1>1, <2>3, <2>4
<1> QED BY <1>2, <1>3

(* A job in use was so before, with the same entries, and these are as     *)
(* they were.                                                              *)
LEMMA UseSame ==
    ASSUME TypeOK, UseInv,
           \A x \in pulls' : x.pc \in Using =>
              \E y \in pulls : y.pc \in Using /\ SamePull(x, y) /\ x.ref = y.ref,
           UNCHANGED <<objs, cur>>
    PROVE  UseInv'
<1> SUFFICES ASSUME NEW x \in pulls', x.pc \in Using, NEW t \in x.reqs
             PROVE  /\ objs'[x.p][t][x.ref[t]].need = Cardinality(DTargets(x.p))
                    /\ x.ref[t] \in Ready(x.p, t)' => cur'[x.p][t] = x.ref[t]
  BY DEF UseInv, Obj
<1>1. PICK y \in pulls : y.pc \in Using /\ SamePull(x, y) /\ x.ref = y.ref
  OBVIOUS
<1>2. y.p \in PRanks /\ t \in Transfers
  BY <1>1 DEF SamePull, TypeOK, PullTypes, Pull
<1>3. Ready(x.p, t)' = Ready(x.p, t)
  BY <1>1, <1>2, SameTable DEF SamePull
<1> QED BY <1>1, <1>3 DEF UseInv, Obj, SamePull

(* Nobody publishes who did not, and the other places are as they were.    *)
LEMMA PlacesSame ==
    ASSUME UNCHANGED <<reports, finishedSend, polled>>,
           \A x : x.pc = "publish" => (x \in pulls' <=> x \in pulls),
           NEW q, NEW t
    PROVE  /\ Through(q, t)' <=> Through(q, t)
           /\ OnePlace(q, t) => OnePlace(q, t)'
<1>1. \A x : (x \in pulls' /\ Publishing(x, q, t)) <=> (x \in pulls /\ Publishing(x, q, t))
  BY DEF Publishing
<1> QED BY <1>1 DEF Through, OnePlace

LEMMA ThroughSame ==
    ASSUME ThroughInv, UNCHANGED <<objs, cur, reports, finishedSend, polled>>,
           \A x : x.pc = "publish" => (x \in pulls' <=> x \in pulls)
    PROVE  ThroughInv'
BY PlacesSame, SameTable DEF ThroughInv

-----------------------------------------------------------------------------
(* The steps that tell a worker of a commit.                               *)

LEMMA PSchedulerHeld == ASSUME TypeOK, StateInv, PSchedulerNext PROVE StateInv'
<1>1. UNCHANGED <<workerVars, dVars, pulls, torn>>
  BY DEF PSchedulerNext, PSchedule, PFinishCapped, PDrop
<1>2. PullInv' /\ UseInv' /\ CountInv' /\ ArmedInv' /\ ThroughInv'
  <2>1. UNCHANGED <<objs, cur, reports, finishedSend, polled, dReq, needRecv, dInbox>>
    BY <1>1 DEF workerVars, dVars
  <2>2. \A q \in PRanks, t \in Transfers : Left(q, t)' \subseteq Left(q, t)
    BY <1>1, <2>1 DEF Left, Waits
  <2>3. PullInv' /\ UseInv'
    BY <1>1, <2>1, PullsFewer, UseSame DEF SamePull, StateInv, WorkInv
  <2> QED BY <1>1, <2>1, <2>2, <2>3, SameTable, CountGrows, ArmedGrows, ThroughSame
          DEF StateInv, WorkInv
<1>3. \A q \in PRanks, t \in Transfers : Ready(q, t)' = Ready(q, t)
  BY <1>1, SameTable DEF workerVars
<1>4. ASSUME NEW A \in SUBSET Transfers, PSchedule(A) PROVE CommitInv'
  <2> DEFINE m == [alloc |-> A, commit |-> needSend]
  <2>1. needSend' = {}
    BY <1>4 DEF PSchedule
  <2>2. \A t \in Transfers : pReq[t] = "held" => pReq'[t] = "held"
    BY <1>4 DEF PSchedule
  <2>3. ASSUME NEW q \in PRanks
        PROVE  /\ pInbox[q] \in Seq(Msgs) /\ Len(pInbox[q]) \in Nat
               /\ Len(pInbox'[q]) = Len(pInbox[q]) + 1
               /\ \A i \in 1 .. Len(pInbox[q]) : pInbox'[q][i] = pInbox[q][i]
               /\ pInbox'[q][Len(pInbox[q]) + 1].commit = needSend
    <3>1. pInbox'[q] = Append(pInbox[q], m) /\ m \in Msgs /\ pInbox[q] \in Seq(Msgs)
      BY <1>4 DEF PSchedule, TypeOK, PTypes, Msgs
    <3> QED BY <3>1
  <2>4. ASSUME NEW q \in PRanks, NEW t \in Transfers
        PROVE  InBox(q, t)' <=> InBox(q, t) \/ t \in needSend
    <3>1. \A i : i \in 1 .. Len(pInbox'[q]) <=>
                 i \in 1 .. Len(pInbox[q]) \/ i = Len(pInbox[q]) + 1
      BY <2>3
    <3> QED BY <2>3, <3>1 DEF InBox
  <2>5. ASSUME NEW q \in PRanks, NEW t \in Transfers,
               NEW i \in 1 .. Len(pInbox'[q]), NEW k \in 1 .. Len(pInbox'[q]),
               t \in pInbox'[q][i].commit, t \in pInbox'[q][k].commit
        PROVE  i = k
    <3>1. t \in needSend => ~InBox(q, t)
      BY DEF StateInv, WorkInv, CommitInv
    <3>2. CASE i \in 1 .. Len(pInbox[q]) /\ k \in 1 .. Len(pInbox[q])
      BY <2>3, <2>5, <3>2 DEF StateInv, WorkInv, CommitInv
    <3>3. i \in 1 .. Len(pInbox[q]) \/ i = Len(pInbox[q]) + 1
      BY <2>3
    <3>4. k \in 1 .. Len(pInbox[q]) \/ k = Len(pInbox[q]) + 1
      BY <2>3
    <3> QED BY <2>3, <2>5, <3>1, <3>2, <3>3, <3>4 DEF InBox
  <2> QED BY <1>3, <2>1, <2>2, <2>4, <2>5 DEF StateInv, WorkInv, CommitInv
<1>5. ASSUME NEW u \in Transfers, PFinishCapped(u) \/ PDrop(u) PROVE CommitInv'
  <2>1. \A q \in PRanks, t \in Transfers : InBox(q, t)' = InBox(q, t)
    BY <1>5 DEF PFinishCapped, PDrop, InBox
  <2>2. /\ pReq[u] # "held" /\ pInbox' = pInbox
        /\ \A t \in Transfers : t # u => pReq'[t] = pReq[t]
        /\ needSend' \subseteq needSend \cup {u}
        /\ u \in needSend' => u \in needSend \/ pReq'[u] = "held"
    BY <1>5 DEF PFinishCapped, PDrop, TypeOK, PTypes
  <2>3. \A q \in PRanks : u \notin needSend /\ ~InBox(q, u) /\ Ready(q, u) = {}
    BY <2>2 DEF StateInv, WorkInv, CommitInv
  <2> QED BY <1>3, <2>1, <2>2, <2>3 DEF StateInv, WorkInv, CommitInv
<1> QED BY <1>1, <1>2, <1>4, <1>5 DEF PSchedulerNext, StateInv, WorkInv

LEMMA StartLoadHeld ==
    ASSUME TypeOK, StateInv, NEW p \in PRanks, StartLoadKVProducer(p) PROVE StateInv'
<1> DEFINE m == Head(pInbox[p])
<1>1. UNCHANGED <<pReq, needSend, dReq, needRecv, dInbox, pulls, finishedSend, polled,
                  reports, torn>>
  BY DEF StartLoadKVProducer, dVars
<1>2. /\ Len(pInbox[p]) \in Nat \ {0} /\ m = pInbox[p][1]
      /\ Len(pInbox'[p]) = Len(pInbox[p]) - 1
      /\ \A i \in 1 .. Len(pInbox'[p]) : pInbox'[p][i] = pInbox[p][i + 1]
      /\ \A q \in PRanks : q # p => pInbox'[q] = pInbox[q]
  <2>1. /\ pInbox[p] \in Seq(Msgs) /\ pInbox[p] # <<>>
        /\ pInbox' = [pInbox EXCEPT ![p] = Tail(pInbox[p])]
        /\ pInbox \in [PRanks -> Seq(Msgs)]
    BY DEF StartLoadKVProducer, TypeOK, PTypes
  <2>2. pInbox'[p] = Tail(pInbox[p]) /\ \A q \in PRanks : q # p => pInbox'[q] = pInbox[q]
    BY <2>1
  <2> QED BY <2>1, <2>2
<1>3. \A q \in PRanks, t \in Transfers :
         /\ Grows(q, t)
         /\ Ready(q, t)' = Ready(q, t) \cup
               (IF q = p /\ t \in m.commit THEN {cur'[q][t]} ELSE {})
         /\ \A k \in Index(q, t) : objs'[q][t][k].need = objs[q][t][k].need
  BY StartLoadEffect
<1> HIDE DEF m
<1>4. \A t \in Transfers : t \in m.commit =>
         InBox(p, t) /\ pReq[t] = "held" /\ t \notin needSend /\ Ready(p, t) = {}
  BY <1>2 DEF InBox, StateInv, WorkInv, CommitInv
<1>5. \A q \in PRanks, t \in Transfers :
         InBox(q, t)' => InBox(q, t) /\ ~(q = p /\ t \in m.commit)
  <2> SUFFICES ASSUME NEW q \in PRanks, NEW t \in Transfers, InBox(q, t)'
               PROVE  InBox(q, t) /\ ~(q = p /\ t \in m.commit)
    OBVIOUS
  <2>1. CASE q # p
    BY <1>2, <2>1 DEF InBox
  <2>2. CASE q = p
    <3>1. PICK i \in 1 .. Len(pInbox'[p]) : t \in pInbox'[p][i].commit
      BY <2>2 DEF InBox
    <3>2. /\ i + 1 \in 1 .. Len(pInbox[p]) /\ 1 \in 1 .. Len(pInbox[p]) /\ i + 1 # 1
          /\ t \in pInbox[p][i + 1].commit
      BY <1>2, <3>1
    <3> QED BY <1>2, <2>2, <3>2 DEF InBox, StateInv, WorkInv, CommitInv
  <2> QED BY <2>1, <2>2
<1>6. ASSUME NEW q \in PRanks, NEW t \in Transfers,
             NEW i \in 1 .. Len(pInbox'[q]), NEW k \in 1 .. Len(pInbox'[q]),
             t \in pInbox'[q][i].commit, t \in pInbox'[q][k].commit
      PROVE  i = k
  <2>1. CASE q # p
    BY <1>2, <1>6, <2>1 DEF StateInv, WorkInv, CommitInv
  <2>2. CASE q = p
    <3>0. i \in 1 .. Len(pInbox'[p]) /\ k \in 1 .. Len(pInbox'[p])
      BY <1>6, <2>2
    <3>3. i + 1 \in 1 .. Len(pInbox[p]) /\ k + 1 \in 1 .. Len(pInbox[p])
      BY <1>2, <3>0
    <3>1. /\ i + 1 \in 1 .. Len(pInbox[p]) /\ k + 1 \in 1 .. Len(pInbox[p])
          /\ t \in pInbox[p][i + 1].commit /\ t \in pInbox[p][k + 1].commit
      BY <1>2, <1>6, <2>2, <3>0, <3>3
    <3>2. i + 1 = k + 1
      BY <3>1 DEF StateInv, WorkInv, CommitInv
    <3> QED BY <3>2
  <2> QED BY <2>1, <2>2
<1>7. CommitInv'
  BY <1>1, <1>3, <1>4, <1>5, <1>6 DEF StateInv, WorkInv, CommitInv
<1>8. PullInv'
  BY <1>1, PullsFewer DEF StateInv
<1>9. ArmedInv' /\ CountInv'
  <2>1. \A q \in PRanks, t \in Transfers : Left(q, t)' \subseteq Left(q, t)
    BY <1>1 DEF Left, Waits
  <2> QED BY <1>3, <2>1, ArmedGrows, CountGrows DEF StateInv, WorkInv
<1>10. UseInv'
  <2> SUFFICES ASSUME NEW j \in pulls, j.pc \in Using, NEW t \in j.reqs
               PROVE  /\ objs'[j.p][t][j.ref[t]].need = Cardinality(DTargets(j.p))
                      /\ j.ref[t] \in Ready(j.p, t)' => cur'[j.p][t] = j.ref[t]
    BY <1>1 DEF UseInv, Obj
  <2>1. j.p \in PRanks /\ t \in Transfers /\ j.ref[t] \in Index(j.p, t)
    BY ObjType DEF TypeOK, Using, Index
  <2>2. objs[j.p][t][j.ref[t]].need = Cardinality(DTargets(j.p))
    BY DEF StateInv, WorkInv, UseInv, Obj
  <2>3. j.ref[t] \in Ready(j.p, t) => cur[j.p][t] = j.ref[t]
    BY DEF StateInv, WorkInv, UseInv
  <2>4. j.ref[t] # 0
    BY <2>1, EntriesType DEF TypeOK, Index
  <2>5. j.ref[t] \in Ready(j.p, t)' => cur'[j.p][t] = j.ref[t]
    BY <1>3, <2>1, <2>3, <2>4 DEF Grows
  <2> QED BY <1>3, <2>1, <2>2, <2>5
<1>11. ThroughInv'
  <2> SUFFICES ASSUME NEW q \in PRanks, NEW t \in Transfers
               PROVE  /\ Through(q, t)' => Ready(q, t)' # {} /\ cur'[q][t] \notin Ready(q, t)'
                      /\ OnePlace(q, t)'
    BY DEF ThroughInv
  <2>1. (Through(q, t)' <=> Through(q, t)) /\ OnePlace(q, t)'
    BY <1>1, PlacesSame DEF StateInv, WorkInv, ThroughInv
  <2>2. Through(q, t) => Ready(q, t) # {} /\ cur[q][t] \notin Ready(q, t)
    BY DEF StateInv, WorkInv, ThroughInv
  <2>3. Ready(q, t) \subseteq Index(q, t)
    BY DEF Ready
  <2> QED BY <1>3, <1>4, <2>1, <2>2, <2>3 DEF Grows
<1> QED BY <1>1, <1>7, <1>8, <1>9, <1>10, <1>11 DEF StateInv, WorkInv

-----------------------------------------------------------------------------
(* get_finished on a P worker.                                             *)

LEMMA PollSame ==
    ASSUME StateInv, UNCHANGED <<pVars, dVars, pulls, objs, torn>>
    PROVE  PullInv' /\ CommitInv' /\ ArmedInv' /\ CountInv' /\ torn' = {}
<1>1. \A q \in PRanks, t \in Transfers :
         /\ Index(q, t)' = Index(q, t) /\ Left(q, t)' = Left(q, t)
         /\ Ready(q, t)' = Ready(q, t) /\ Armed(q, t)' = Armed(q, t)
  BY DEF Index, Ready, Armed, Left, Waits, dVars
<1>2. PullInv'
  BY PullsFewer DEF StateInv, dVars
<1>3. CommitInv'
  BY <1>1, CommitSame DEF StateInv, WorkInv, pVars
<1> QED BY <1>1, <1>2, <1>3 DEF StateInv, WorkInv, ArmedInv, CountInv

LEMMA PollFinishedHeld ==
    ASSUME TypeOK, StateInv, NEW p \in PRanks, PollFinished(p) PROVE StateInv'
<1>1. UNCHANGED <<pVars, dVars, pulls, objs, cur, reports, torn>>
  BY DEF PollFinished
<1>2. UseInv'
  BY <1>1, UseSame DEF StateInv, WorkInv, SamePull
<1>3. \A q \in PRanks :
         /\ q # p => finishedSend'[q] = finishedSend[q] /\ polled'[q] = polled[q]
         /\ q = p => finishedSend'[q] = {} /\ polled'[q].fin = finishedSend[q]
  BY DEF PollFinished, TypeOK, WorkerTypes
<1>4. ASSUME NEW q \in PRanks, NEW t \in Transfers
      PROVE  (Through(q, t)' => Through(q, t)) /\ OnePlace(q, t)'
  <2>1. OnePlace(q, t)
    BY DEF StateInv, WorkInv, ThroughInv
  <2>2. \A j : Publishing(j, q, t)' <=> Publishing(j, q, t)
    BY DEF Publishing
  <2> QED BY <1>1, <1>3, <2>1, <2>2 DEF Through, OnePlace
<1>5. ThroughInv'
  BY <1>1, <1>4, SameTable DEF StateInv, WorkInv, ThroughInv
<1> QED BY <1>1, <1>2, <1>5, PollSame DEF StateInv, WorkInv

(* An entry expires only while no job is using it, and it was ready: the   *)
(* rank was not through with the transfer.                                 *)
LEMMA PollExpiredHeld ==
    ASSUME TypeOK, StateInv, "slow" \notin Faults,
           NEW p \in PRanks, NEW E \in SUBSET Transfers, PollExpired(p, E)
    PROVE  StateInv'
<1> DEFINE L == polled[p].fin \cup {t \in E : objs[p][t][cur[p][t]].owned}
<1>1. UNCHANGED <<pVars, dVars, pulls, objs, finishedSend, torn>>
  BY DEF PollExpired
<1>2. \A q \in PRanks, t \in Transfers :
         cur'[q][t] = IF q = p /\ t \in E THEN 0 ELSE cur[q][t]
  BY DEF PollExpired, TypeOK, WorkerTypes
<1>3. \A q \in PRanks, t \in Transfers :
         reports'[q][t] = IF q = p /\ t \in L THEN reports[q][t] + 1 ELSE reports[q][t]
  BY DEF PollExpired, TypeOK, WorkerTypes
<1>4. \A q \in PRanks : polled'[q].fin = IF q = p THEN {} ELSE polled[q].fin
  BY DEF PollExpired, NotPolling, TypeOK, WorkerTypes
<1>5. \A t \in E : /\ cur[p][t] # 0 /\ cur[p][t] \in Armed(p, t) /\ ~InUse(p, t)
  <2> SUFFICES ASSUME NEW t \in E
               PROVE  cur[p][t] # 0 /\ cur[p][t] \in Armed(p, t) /\ ~InUse(p, t)
    OBVIOUS
  <2>1. t \in Expirable(p)
    BY DEF PollExpired
  <2>2. cur[p][t] # 0 => cur[p][t] \in 1 .. Len(objs[p][t])
    BY EntriesType DEF TypeOK
  <2> QED BY <2>1, <2>2 DEF Expirable, Armed, Index
<1>6. \A t \in E : cur[p][t] \in Ready(p, t) /\ ~Through(p, t)
  BY <1>5 DEF StateInv, WorkInv, ArmedInv, ThroughInv
<1>7. \A q \in PRanks, t \in Transfers :
         /\ Ready(q, t)' = Ready(q, t) /\ 0 \notin Ready(q, t)
         /\ reports[q][t] \in Nat
  <2>1. \A q \in PRanks, t \in Transfers : Len(objs[q][t]) \in Nat
    BY EntriesType DEF TypeOK
  <2> QED BY <1>1, <2>1 DEF Ready, Index, TypeOK, WorkerTypes
<1>8. UseInv'
  <2> SUFFICES ASSUME NEW j \in pulls, j.pc \in Using, NEW t \in j.reqs
               PROVE  /\ objs[j.p][t][j.ref[t]].need = Cardinality(DTargets(j.p))
                      /\ j.ref[t] \in Ready(j.p, t)' => cur'[j.p][t] = j.ref[t]
    BY <1>1 DEF UseInv, Obj
  <2>1. j.p \in PRanks /\ t \in Transfers
    BY ObjType DEF TypeOK, Using
  <2>2. /\ objs[j.p][t][j.ref[t]].need = Cardinality(DTargets(j.p))
        /\ j.ref[t] \in Ready(j.p, t) => cur[j.p][t] = j.ref[t]
    BY DEF StateInv, WorkInv, UseInv, Obj
  <2>3. (j.p = p /\ t \in E) => cur[j.p][t] # j.ref[t]
    BY <1>5 DEF InUse, Uses, Using
  <2> QED BY <1>2, <1>7, <2>1, <2>2, <2>3
<1>9. ThroughInv'
  <2> HIDE DEF L
  <2> SUFFICES ASSUME NEW q \in PRanks, NEW t \in Transfers
               PROVE  /\ Through(q, t)' => Ready(q, t)' # {} /\ cur'[q][t] \notin Ready(q, t)'
                      /\ OnePlace(q, t)'
    BY DEF ThroughInv
  <2>1. \A j : Publishing(j, q, t)' <=> Publishing(j, q, t)
    BY DEF Publishing
  <2>2. /\ Through(q, t) => Ready(q, t) # {} /\ cur[q][t] \notin Ready(q, t)
        /\ OnePlace(q, t)
    BY DEF StateInv, WorkInv, ThroughInv
  <2>3. t \in L => t \in polled[p].fin \/ t \in E
    BY DEF L
  <2>4. CASE q = p /\ t \in L
    <3>1. /\ reports[q][t] = 0 /\ t \notin finishedSend[q]
          /\ \A j \in pulls : ~Publishing(j, q, t)
      BY <1>6, <1>7, <2>2, <2>3, <2>4 DEF Through, OnePlace
    <3>2. OnePlace(q, t)'
      BY <1>1, <1>3, <1>4, <2>1, <2>4, <3>1 DEF OnePlace
    <3>3. Ready(q, t)' # {} /\ cur'[q][t] \notin Ready(q, t)'
      BY <1>2, <1>6, <1>7, <2>2, <2>3, <2>4 DEF Through
    <3> QED BY <3>2, <3>3
  <2>5. CASE ~(q = p /\ t \in L)
    <3>1. reports'[q][t] = reports[q][t]
      BY <1>3, <2>5
    <3>2. polled'[q].fin \subseteq polled[q].fin
      BY <1>4
    <3>3. OnePlace(q, t)' /\ (Through(q, t)' => Through(q, t))
      BY <1>1, <2>1, <2>2, <3>1, <3>2 DEF OnePlace, Through
    <3> QED BY <1>2, <1>7, <2>2, <3>3
  <2> QED BY <2>4, <2>5
<1> QED BY <1>1, <1>8, <1>9, PollSame DEF StateInv, WorkInv

-----------------------------------------------------------------------------
(* The sender threads.                                                     *)

LEMMA SenderStartHeld ==
    ASSUME TypeOK, StateInv, NEW j \in pulls, SenderStart(j) PROVE StateInv'
<1>1. UNCHANGED <<pVars, dVars, finishedSend, polled, reports, torn>>
  BY DEF SenderStart
<1>2. j \in Pull /\ j.pc = "queued"
  BY DEF SenderStart, TypeOK, PullTypes
<1>3. PICK k : /\ Become(j, k) /\ SamePull(k, j) /\ k.pc = "wait"
               /\ \A t \in j.reqs : k.ref[t] = cur'[j.p][t]
  <2> DEFINE r == [t \in Transfers |-> IF t \in j.reqs THEN cur'[j.p][t] ELSE 0]
             k == [j EXCEPT !.pc = "wait", !.ref = r]
  <2>1. Become(j, k)
    BY DEF SenderStart
  <2>2. \A t \in j.reqs : r[t] = cur'[j.p][t]
    BY <1>2 DEF Pull
  <2> HIDE DEF r
  <2>3. SamePull(k, j) /\ k.pc = "wait" /\ k.ref = r
    BY <1>2 DEF SamePull, Pull
  <2> QED BY ZenonT(40), <2>1, <2>2, <2>3
<1>4. \A q \in PRanks, t \in Transfers :
         /\ Grows(q, t)
         /\ Ready(q, t)' = Ready(q, t)
         /\ \A i \in Index(q, t) :
               \/ objs'[q][t][i].need = objs[q][t][i].need
               \/ objs'[q][t][i].need = Cardinality(DTargets(q))
         /\ (q = j.p /\ t \in j.reqs) =>
               objs'[q][t][cur'[q][t]].need = Cardinality(DTargets(q))
  BY SenderStartEffect
<1>5. j.p \in PRanks /\ j.reqs \subseteq Transfers
  BY <1>2 DEF Pull
<1>6. PullInv'
  BY <1>1, <1>3, PullMoved DEF dVars, StateInv
<1>7. CommitInv' /\ ArmedInv'
  BY <1>1, <1>4, CommitSame, ArmedGrows DEF pVars, StateInv, WorkInv
<1>8. CountInv'
  <2>1. \A q \in PRanks, t \in Transfers : Left(q, t)' \subseteq Left(q, t)
    <3>1. \A x \in pulls' : x.pc \in Before =>
             \E y \in pulls : SamePull(x, y) /\ y.pc \in Before
      BY <1>2, <1>3 DEF Become, SamePull, Before
    <3> QED BY <1>1, <3>1, LeftFewer DEF dVars
  <2> QED BY <1>4, <2>1, CountGrows DEF StateInv, WorkInv
<1>9. UseInv'
  <2> SUFFICES ASSUME NEW x \in pulls', x.pc \in Using, NEW t \in x.reqs
               PROVE  /\ objs'[x.p][t][x.ref[t]].need = Cardinality(DTargets(x.p))
                      /\ x.ref[t] \in Ready(x.p, t)' => cur'[x.p][t] = x.ref[t]
    BY DEF UseInv, Obj
  <2>1. CASE x = k
    BY <1>3, <1>4, <1>5, <2>1 DEF SamePull
  <2>2. CASE x \in pulls
    <3>1. x.p \in PRanks /\ t \in Transfers /\ x.ref[t] \in Index(x.p, t)
      BY <2>2, ObjType DEF TypeOK, Using, Index
    <3>2. /\ objs[x.p][t][x.ref[t]].need = Cardinality(DTargets(x.p))
          /\ x.ref[t] \in Ready(x.p, t) => cur[x.p][t] = x.ref[t]
      BY <2>2 DEF StateInv, WorkInv, UseInv, Obj
    <3>3. x.ref[t] # 0
      BY <3>1, EntriesType DEF TypeOK, Index
    <3> QED BY <1>4, <3>1, <3>2, <3>3 DEF Grows
  <2> QED BY <1>3, <2>1, <2>2 DEF Become
<1>10. ThroughInv'
  <2> SUFFICES ASSUME NEW q \in PRanks, NEW t \in Transfers
               PROVE  /\ Through(q, t)' => Ready(q, t)' # {} /\ cur'[q][t] \notin Ready(q, t)'
                      /\ OnePlace(q, t)'
    BY DEF ThroughInv
  <2>1. \A x : x.pc = "publish" => (x \in pulls' <=> x \in pulls)
    BY <1>2, <1>3 DEF Become
  <2>2. (Through(q, t)' <=> Through(q, t)) /\ OnePlace(q, t)'
    BY <1>1, <2>1, PlacesSame DEF StateInv, WorkInv, ThroughInv
  <2>3. Through(q, t) => Ready(q, t) # {} /\ cur[q][t] \notin Ready(q, t)
    BY DEF StateInv, WorkInv, ThroughInv
  <2>4. Ready(q, t) \subseteq Index(q, t)
    BY DEF Ready
  <2> QED BY <1>4, <2>2, <2>3, <2>4 DEF Grows
<1> QED BY <1>1, <1>6, <1>7, <1>8, <1>9, <1>10 DEF StateInv, WorkInv

(* A job that moves on, or whose socket is closed.                         *)
LEMMA MoveHeld ==
    ASSUME TypeOK, StateInv, NEW j \in pulls, NEW k, Become(j, k),
           SamePull(k, j), k.ref = j.ref, k.fin = j.fin,
           k.pc \in Before => j.pc \in Before, k.pc \in Using => j.pc \in Using,
           k.pc = "publish" <=> j.pc = "publish",
           UNCHANGED <<pVars, dVars, workerVars>>
    PROVE  PullInv' /\ WorkInv'
<1>1. UNCHANGED <<pReq, needSend, pInbox, dReq, needRecv, dInbox, objs, cur,
                  finishedSend, polled, reports>>
  BY DEF pVars, dVars, workerVars
<1>2. PullInv'
  BY <1>1, PullMoved DEF StateInv
<1>3. CommitInv' /\ ArmedInv'
  BY <1>1, SameTable, CommitSame, ArmedGrows DEF StateInv, WorkInv
<1>4. CountInv'
  <2>1. \A x \in pulls' : x.pc \in Before =>
           \E y \in pulls : SamePull(x, y) /\ y.pc \in Before
    BY DEF Become, SamePull
  <2>2. \A q \in PRanks, t \in Transfers : Left(q, t)' \subseteq Left(q, t)
    BY <1>1, <2>1, LeftFewer
  <2> QED BY <1>1, <2>2, SameTable, CountGrows DEF StateInv, WorkInv
<1>5. UseInv'
  <2>1. \A x \in pulls' : x.pc \in Using =>
           \E y \in pulls : y.pc \in Using /\ SamePull(x, y) /\ x.ref = y.ref
    BY DEF Become, SamePull
  <2> QED BY <1>1, <2>1, UseSame DEF StateInv, WorkInv
<1>6. ASSUME NEW q \in PRanks, NEW t \in Transfers
      PROVE  (Through(q, t)' => Through(q, t)) /\ OnePlace(q, t)'
  <2>1. OnePlace(q, t)
    BY DEF StateInv, WorkInv, ThroughInv
  <2>2. Publishing(k, q, t) <=> Publishing(j, q, t)
    BY DEF Publishing, SamePull
  <2>3. \A x \in pulls' : Publishing(x, q, t) =>
           \E y \in pulls : Publishing(y, q, t) /\ (x = y \/ (x = k /\ y = j))
    BY <2>2 DEF Become
  <2>4. j \notin pulls' \/ j = k
    BY DEF Become
  <2>5. ASSUME NEW x \in pulls', Publishing(x, q, t)
        PROVE  /\ reports[q][t] = 0 /\ t \notin finishedSend[q] \cup polled[q].fin
               /\ \A i \in pulls' : Publishing(i, q, t) => i = x
    BY <2>1, <2>3, <2>4, <2>5 DEF OnePlace
  <2>6. OnePlace(q, t)'
    <3>1. \A x \in pulls' : Publishing(x, q, t)' <=> Publishing(x, q, t)
      BY DEF Publishing
    <3> QED BY <1>1, <2>1, <2>5, <3>1 DEF OnePlace
  <2>7. Through(q, t)' => Through(q, t)
    BY <1>1, <2>3 DEF Through, Publishing
  <2> QED BY <2>6, <2>7
<1>7. ThroughInv'
  BY <1>1, <1>6, SameTable DEF StateInv, WorkInv, ThroughInv
<1> QED BY <1>2, <1>3, <1>4, <1>5, <1>7 DEF WorkInv

(* A job that writes holds ready entries, which are current ones: its rank *)
(* is not through with any of its transfers, and the scheduler holds them. *)
LEMMA WriteHeld ==
    ASSUME OwnerInv, StateInv, NEW j \in pulls, j.pc = "write", NEW t \in j.reqs
    PROVE  Holding(t)
<1>1. j.p \in PRanks /\ t \in Transfers /\ j.ref[t] \in Index(j.p, t)
  BY ObjType DEF OwnerInv, TypeOK, Index
<1>2. j.ref[t] \in Ready(j.p, t)
  BY <1>1 DEF Ready, OwnerInv, WritersAreReady, Obj
<1>3. cur[j.p][t] \in Ready(j.p, t)
  BY <1>2 DEF StateInv, WorkInv, UseInv, Using
<1>4. ~Through(j.p, t)
  BY <1>1, <1>3 DEF StateInv, WorkInv, ThroughInv
<1>5. pReq[t] = "held"
  BY <1>1, <1>2 DEF StateInv, WorkInv, CommitInv
<1> QED BY <1>1, <1>4, <1>5 DEF Holding, Freed, Through

LEMMA SenderMoveHeld ==
    ASSUME OwnerInv, StateInv, NEW j \in pulls,
           SenderReady(j) \/ SenderTimeout(j) \/ SenderWrite(j) \/ SenderFail(j)
             \/ ReceiveTimeout(j)
    PROVE  StateInv'
<1>1. j \in Pull /\ TypeOK
  BY DEF OwnerInv, TypeOK, PullTypes
<1>2. UNCHANGED <<pVars, dVars, workerVars>>
  BY DEF SenderReady, SenderTimeout, SenderWrite, SenderFail, ReceiveTimeout
<1>3. torn' = {}
  <2>1. CASE SenderWrite(j)
    <3>1. \A t \in Written(j) : Holding(t)
      BY <2>1, WriteHeld DEF SenderWrite, Written
    <3> QED BY <2>1, <3>1 DEF SenderWrite, StateInv
  <2>2. CASE ~SenderWrite(j)
    BY <2>2 DEF SenderReady, SenderTimeout, SenderFail, ReceiveTimeout, StateInv
  <2> QED BY <2>1, <2>2
<1>4. ASSUME NEW pc \in JobPCs, j.pc \in Using, pc \in {"write", "commit", "error"},
             Become(j, [j EXCEPT !.pc = pc])
      PROVE  PullInv' /\ WorkInv'
  <2> DEFINE k == [j EXCEPT !.pc = pc]
  <2>1. SamePull(k, j) /\ k.ref = j.ref /\ k.fin = j.fin /\ k.pc = pc
    BY <1>1 DEF SamePull, Pull
  <2> QED BY <1>1, <1>2, <1>4, <2>1, MoveHeld DEF Before, Using
<1>5. CASE SenderReady(j) \/ SenderTimeout(j) \/ SenderWrite(j) \/ SenderFail(j)
  <2>1. /\ j.pc \in Using
        /\ \E pc \in {"write", "commit", "error"} : Become(j, [j EXCEPT !.pc = pc])
    BY <1>5 DEF SenderReady, SenderTimeout, SenderWrite, SenderFail, Using
  <2> QED BY <1>3, <1>4, <2>1 DEF StateInv, JobPCs
<1>6. CASE ReceiveTimeout(j)
  <2> DEFINE k == [j EXCEPT !.open = FALSE]
  <2>1. SamePull(k, j) /\ k.ref = j.ref /\ k.fin = j.fin /\ k.pc = j.pc
    BY <1>1 DEF SamePull, Pull
  <2>2. Become(j, k)
    BY <1>6 DEF ReceiveTimeout
  <2> QED BY <1>1, <1>2, <1>3, <2>1, <2>2, MoveHeld DEF StateInv
<1> QED BY <1>5, <1>6

(* The rank a job counts was still to be counted, and it is no longer.     *)
LEMMA CommitLeft ==
    ASSUME TypeOK, StateInv, NEW j \in pulls, SenderCommit(j), NEW t \in j.reqs
    PROVE  /\ j.d \in Left(j.p, t)
           /\ Left(j.p, t)' \subseteq Left(j.p, t) \ {j.d}
<1>1. UNCHANGED <<dReq, needRecv, dInbox>> /\ j.pc = "commit"
  BY DEF SenderCommit, dVars
<1>2. j \in Pull
  BY DEF TypeOK, PullTypes
<1>3. j.d \in Left(j.p, t)
  BY <1>1 DEF StateInv, PullInv, Left, Before
<1>4. \A x \in pulls' : x.pc \in Before => x \in pulls /\ x # j
  BY <1>2 DEF SenderCommit, Become, Pull, Before
<1>5. Left(j.p, t)' \subseteq Left(j.p, t)
  BY <1>1, <1>4, LeftFewer DEF SamePull
<1>6. j.d \notin Left(j.p, t)'
  <2>1. t \in Transfers /\ j.d \in DRanks
    BY <1>2 DEF Pull
  <2>2. dReq[t] # "absent" /\ ~Waits(j.d, t)
    BY <2>1 DEF StateInv, PullInv
  <2>3. ~\E x \in pulls' : x.p = j.p /\ x.d = j.d /\ t \in x.reqs /\ x.pc \in Before
    BY <1>4 DEF StateInv, PullInv
  <2>4. Waits(j.d, t)' = Waits(j.d, t)
    BY <1>1 DEF Waits
  <2> QED BY <1>1, <2>2, <2>3, <2>4 DEF Left
<1> QED BY <1>3, <1>5, <1>6

(* The job that completes a transfer is the last one that used it.         *)
LEMMA CompletedAlone ==
    ASSUME TypeOK, StateInv, NEW j \in pulls, SenderCommit(j), NEW t \in Completed(j),
           NEW i \in pulls, i.pc \in Using, i.p = j.p, t \in i.reqs
    PROVE  i = j
<1>1. t \in j.reqs /\ j.pc \in Using
  BY DEF Completed, SenderCommit, Using
<1>2. j.p \in PRanks /\ t \in Transfers /\ j.ref[t] \in Index(j.p, t) /\ Obj(j, t).sent \in Nat
  BY <1>1, ObjType DEF TypeOK, Index, Using, SendBlockMeta
<1>3. Obj(j, t).need = Cardinality(DTargets(j.p))
  BY <1>1 DEF StateInv, WorkInv, UseInv
<1>4. Obj(j, t).sent + Cardinality(Left(j.p, t)) <= Cardinality(DTargets(j.p))
  BY <1>2 DEF StateInv, WorkInv, CountInv, Obj
<1>5. IsFiniteSet(Left(j.p, t)) /\ Cardinality(Left(j.p, t)) \in Nat
  BY <1>2, LeftSize
<1>6. j.d \in Left(j.p, t) /\ i.d \in Left(j.p, t)
  BY <1>1 DEF Left, StateInv, PullInv, Using, Before
<1>7. Cardinality(Left(j.p, t)) <= 1
  <2>1. Cardinality(DTargets(j.p)) \in Nat /\ Cardinality(Left(j.p, t)) # 0
    BY <1>2, <1>5, <1>6, NeedType, FS_EmptySet
  <2>2. Obj(j, t).sent + 1 >= AtLeastOne(Cardinality(DTargets(j.p)))
    BY <1>3 DEF Completed
  <2> QED BY <1>2, <1>4, <1>5, <2>1, <2>2 DEF AtLeastOne
<1>8. i.d = j.d
  <2>1. Cardinality(Left(j.p, t)) = 1
    BY <1>5, <1>6, <1>7, FS_EmptySet
  <2>2. PICK x : Left(j.p, t) = {x}
    BY <1>5, <2>1, FS_Singleton
  <2> QED BY <1>6, <2>2
<1> QED BY <1>1, <1>8 DEF StateInv, PullInv

LEMMA SenderCommitHeld ==
    ASSUME OwnerInv, StateInv, NEW j \in pulls, SenderCommit(j) PROVE StateInv'
<1>1. UNCHANGED <<pVars, dVars, finishedSend, polled, reports, torn>> /\ j.pc = "commit"
  BY DEF SenderCommit
<1>2. j \in Pull /\ j.p \in PRanks /\ j.reqs \subseteq Transfers /\ TypeOK
  BY DEF OwnerInv, TypeOK, PullTypes, Pull
<1>3. PICK k : /\ Become(j, k) /\ SamePull(k, j)
               /\ k.pc = "publish" /\ k.fin = Completed(j)
  <2> DEFINE k == [j EXCEPT !.pc = "publish", !.fin = Completed(j)]
  <2>1. Become(j, k)
    BY DEF SenderCommit
  <2>2. SamePull(k, j) /\ k.pc = "publish" /\ k.fin = Completed(j)
    <3> HIDE DEF Completed
    <3> QED BY <1>2 DEF SamePull, Pull
  <2> QED BY <2>1, <2>2
<1>4. \A q \in PRanks, t \in Transfers :
         /\ Index(q, t)' = Index(q, t)
         /\ Ready(q, t)' = Ready(q, t) /\ Armed(q, t)' = Armed(q, t)
         /\ \A i \in Index(q, t) :
              /\ objs'[q][t][i].need = objs[q][t][i].need
              /\ objs'[q][t][i].sent = IF q = j.p /\ t \in j.reqs /\ i = j.ref[t]
                                       THEN objs[q][t][i].sent + 1 ELSE objs[q][t][i].sent
         /\ cur'[q][t] = IF q = j.p /\ t \in Completed(j) THEN 0 ELSE cur[q][t]
  BY <1>2, SenderCommitEffect
<1>5. PullInv'
  BY <1>1, <1>3, PullMoved DEF dVars, StateInv
<1>6. CommitInv' /\ ArmedInv'
  BY <1>1, <1>4, CommitSame DEF pVars, StateInv, WorkInv, ArmedInv
<1>7. CountInv'
  <2> SUFFICES ASSUME NEW q \in PRanks, NEW t \in Transfers, NEW i \in Index(q, t)
               PROVE  objs'[q][t][i].sent + Cardinality(Left(q, t)')
                         <= Cardinality(DTargets(q))
    BY <1>4 DEF CountInv
  <2>1. Left(q, t)' \subseteq Left(q, t)
    <3>1. \A x \in pulls' : x.pc \in Before =>
             \E y \in pulls : SamePull(x, y) /\ y.pc \in Before
      BY <1>3 DEF Become, SamePull, Before
    <3> QED BY <1>1, <3>1, LeftFewer DEF dVars
  <2>2. /\ objs[q][t][i].sent \in Nat /\ Cardinality(DTargets(q)) \in Nat
        /\ Cardinality(Left(q, t)) \in Nat
        /\ objs[q][t][i].sent + Cardinality(Left(q, t)) <= Cardinality(DTargets(q))
    <3>1. objs[q][t] \in Seq(SendBlockMeta) /\ i \in 1 .. Len(objs[q][t])
      BY <1>2, EntriesType DEF TypeOK, Index
    <3>2. objs[q][t][i] \in SendBlockMeta
      BY <3>1
    <3> QED BY <3>2, NeedType, LeftSize DEF SendBlockMeta, StateInv, WorkInv, CountInv
  <2>3. CASE q = j.p /\ t \in j.reqs
    <3>1. j.d \in Left(q, t) /\ Left(q, t)' \subseteq Left(q, t) \ {j.d}
      BY <1>2, <2>3, CommitLeft
    <3>2. /\ IsFiniteSet(Left(q, t) \ {j.d})
          /\ Cardinality(Left(q, t) \ {j.d}) = Cardinality(Left(q, t)) - 1
      BY <3>1, LeftSize, FS_RemoveElement
    <3>3. /\ Cardinality(Left(q, t)') <= Cardinality(Left(q, t)) - 1
          /\ Cardinality(Left(q, t)') \in Nat
      BY <2>1, <3>1, <3>2, LeftSize, FS_Subset
    <3>4. objs'[q][t][i].sent \in {objs[q][t][i].sent, objs[q][t][i].sent + 1}
      BY <1>4
    <3> QED BY <2>2, <3>3, <3>4
  <2>4. CASE ~(q = j.p /\ t \in j.reqs)
    <3>1. Cardinality(Left(q, t)') \in Nat /\ Cardinality(Left(q, t)') <= Cardinality(Left(q, t))
      BY <2>1, LeftSize
    <3>2. objs'[q][t][i].sent = objs[q][t][i].sent
      BY <1>4, <2>4
    <3> QED BY <2>2, <3>1, <3>2
  <2> QED BY <2>3, <2>4
<1>8. UseInv'
  <2> SUFFICES ASSUME NEW x \in pulls', x.pc \in Using, NEW t \in x.reqs
               PROVE  /\ objs'[x.p][t][x.ref[t]].need = Cardinality(DTargets(x.p))
                      /\ x.ref[t] \in Ready(x.p, t)' => cur'[x.p][t] = x.ref[t]
    BY DEF UseInv, Obj
  <2>1. x \in pulls /\ x # j
    BY <1>1, <1>3 DEF Become, Using
  <2>2. x.p \in PRanks /\ t \in Transfers /\ x.ref[t] \in Index(x.p, t)
    BY <1>2, <2>1, ObjType DEF TypeOK, Using, Index
  <2>3. /\ objs[x.p][t][x.ref[t]].need = Cardinality(DTargets(x.p))
        /\ x.ref[t] \in Ready(x.p, t) => cur[x.p][t] = x.ref[t]
    BY <2>1 DEF StateInv, WorkInv, UseInv, Obj
  <2>4. ~(x.p = j.p /\ t \in Completed(j))
    BY <1>2, <2>1, CompletedAlone
  <2> QED BY <1>4, <2>2, <2>3, <2>4
<1>9. ASSUME NEW t \in Completed(j) PROVE ~Through(j.p, t) /\ Ready(j.p, t) # {}
  <2>1. t \in j.reqs /\ t \in Transfers
    BY <1>2 DEF Completed
  <2>2. j.ref[t] \in Index(j.p, t)
    BY <1>1, <1>2, <2>1, ObjType DEF TypeOK, Index
  <2>3. j.ref[t] \in Ready(j.p, t)
    BY <1>1, <2>1, <2>2 DEF Ready, OwnerInv, WritersAreReady, Obj
  <2>4. cur[j.p][t] \in Ready(j.p, t)
    BY <1>1, <2>1, <2>3 DEF StateInv, WorkInv, UseInv, Using
  <2> QED BY <1>2, <2>1, <2>4 DEF StateInv, WorkInv, ThroughInv
<1>10. ASSUME NEW q \in PRanks, NEW t \in Transfers
       PROVE  /\ Through(q, t)' => Ready(q, t)' # {} /\ cur'[q][t] \notin Ready(q, t)'
              /\ OnePlace(q, t)'
  <2>1. /\ Through(q, t) => Ready(q, t) # {} /\ cur[q][t] \notin Ready(q, t)
        /\ OnePlace(q, t)
    BY DEF StateInv, WorkInv, ThroughInv
  <2>2. 0 \notin Ready(q, t)
    <3>1. Len(objs[q][t]) \in Nat
      BY <1>2, EntriesType DEF TypeOK
    <3> QED BY <3>1 DEF Ready, Index
  <2>3. \A x : Publishing(x, q, t)' <=> Publishing(x, q, t)
    BY DEF Publishing
  <2>4. \A x \in pulls' : Publishing(x, q, t) => x \in pulls \/ x = k
    BY <1>3 DEF Become
  <2>5. k \in pulls' /\ (Publishing(k, q, t) <=> q = j.p /\ t \in Completed(j))
    BY <1>3 DEF Become, Publishing, SamePull
  <2>6. CASE q = j.p /\ t \in Completed(j)
    <3>1. /\ reports[q][t] = 0 /\ t \notin finishedSend[q] \cup polled[q].fin
          /\ \A x \in pulls : ~Publishing(x, q, t)
      <4>1. ~Through(q, t) /\ reports[q][t] \in Nat
        BY <1>2, <1>9, <2>6 DEF TypeOK, WorkerTypes
      <4> QED BY <4>1 DEF Through
    <3>2. OnePlace(q, t)'
      BY <1>1, <2>3, <2>4, <3>1 DEF OnePlace
    <3> QED BY <1>4, <1>9, <2>2, <2>6, <3>2
  <2>7. CASE ~(q = j.p /\ t \in Completed(j))
    <3>1. \A x \in pulls' : Publishing(x, q, t) => x \in pulls
      BY <2>4, <2>5, <2>7
    <3>2. OnePlace(q, t)' /\ (Through(q, t)' => Through(q, t))
      BY <1>1, <2>1, <2>3, <3>1 DEF OnePlace, Through
    <3> QED BY <1>4, <2>1, <2>7, <3>2
  <2> QED BY <2>6, <2>7
<1>11. ThroughInv'
  BY <1>10 DEF ThroughInv
<1> QED BY <1>1, <1>5, <1>6, <1>7, <1>8, <1>11 DEF StateInv, WorkInv

LEMMA SenderPublishHeld ==
    ASSUME TypeOK, StateInv, NEW j \in pulls, SenderPublish(j) PROVE StateInv'
<1>1. UNCHANGED <<pVars, dVars, objs, cur, polled, reports, torn>> /\ j.pc = "publish"
  BY DEF SenderPublish
<1>2. j \in Pull
  BY DEF TypeOK, PullTypes
<1>3. PICK k : Become(j, k) /\ SamePull(k, j) /\ k.pc = "done"
  <2> DEFINE k == [j EXCEPT !.pc = "done"]
  <2>1. Become(j, k) /\ SamePull(k, j) /\ k.pc = "done"
    BY <1>2 DEF SenderPublish, SamePull, Pull
  <2> QED BY <2>1
<1>4. \A x \in pulls' : x.pc # "done" => x \in pulls /\ x # j
  BY <1>3 DEF Become
<1>5. PullInv'
  BY <1>1, <1>3, PullMoved DEF dVars, StateInv
<1>6. CommitInv' /\ ArmedInv'
  BY <1>1, SameTable, CommitSame, ArmedGrows DEF pVars, StateInv, WorkInv
<1>7. CountInv'
  <2>1. \A q \in PRanks, t \in Transfers : Left(q, t)' \subseteq Left(q, t)
    BY <1>1, <1>4, LeftFewer DEF SamePull, Before, dVars
  <2> QED BY <1>1, <2>1, SameTable, CountGrows DEF StateInv, WorkInv
<1>8. UseInv'
  BY <1>1, <1>4, UseSame DEF SamePull, Using, StateInv, WorkInv
<1>9. ASSUME NEW q \in PRanks, NEW t \in Transfers
      PROVE  (Through(q, t)' => Through(q, t)) /\ OnePlace(q, t)'
  <2>1. OnePlace(q, t)
    BY DEF StateInv, WorkInv, ThroughInv
  <2>2. \A x : Publishing(x, q, t)' <=> Publishing(x, q, t)
    BY DEF Publishing
  <2>3. \A x \in pulls' : Publishing(x, q, t) => x \in pulls /\ x # j
    BY <1>4 DEF Publishing
  <2>4. finishedSend'[q] = IF q = j.p THEN finishedSend[q] \cup j.fin ELSE finishedSend[q]
    BY DEF SenderPublish, TypeOK, WorkerTypes
  <2>5. Publishing(j, q, t) <=> q = j.p /\ t \in j.fin
    BY <1>1 DEF Publishing
  <2> QED BY <1>1, <2>1, <2>2, <2>3, <2>4, <2>5 DEF OnePlace, Through
<1>10. ThroughInv'
  BY <1>1, <1>9, SameTable DEF StateInv, WorkInv, ThroughInv
<1> QED BY <1>1, <1>5, <1>6, <1>7, <1>8, <1>10 DEF StateInv, WorkInv

-----------------------------------------------------------------------------
(* The D engine.                                                           *)

(* What D does to its own variables and the pulls matters to the workers   *)
(* of P only by who is left.                                               *)
LEMMA DHeld ==
    ASSUME TypeOK, StateInv, UNCHANGED <<pVars, workerVars, torn>>,
           \A x \in pulls' : x \in pulls \/ x.pc = "queued",
           \A x \in pulls : x.pc = "publish" => x \in pulls',
           \A q \in PRanks, t \in Transfers : Left(q, t)' \subseteq Left(q, t)
    PROVE  WorkInv' /\ torn' = {}
<1>1. UNCHANGED <<pReq, needSend, pInbox, objs, cur, finishedSend, polled, reports>>
  BY DEF pVars, workerVars
<1>2. CommitInv' /\ ArmedInv' /\ CountInv'
  BY <1>1, SameTable, CommitSame, ArmedGrows, CountGrows DEF StateInv, WorkInv
<1>3. UseInv'
  BY <1>1, UseSame DEF StateInv, WorkInv, Using, SamePull
<1>4. ThroughInv'
  BY <1>1, ThroughSame DEF StateInv, WorkInv
<1> QED BY <1>2, <1>3, <1>4 DEF WorkInv, StateInv

LEMMA DSchedulerHeld == ASSUME TypeOK, StateInv, DSchedulerNext PROVE StateInv'
<1>1. UNCHANGED <<pVars, workerVars, pulls, torn>>
  BY DEF DSchedulerNext, DSchedule, DAbort
<1>2. ASSUME NEW B \in SUBSET Transfers, NEW kind \in [B -> Kinds], DSchedule(B, kind)
      PROVE  StateInv'
  <2>1. /\ needRecv' = {} /\ \A t \in B : dReq[t] = "absent"
        /\ \A t \in Transfers : dReq'[t] = IF t \in B THEN kind[t] ELSE dReq[t]
        /\ \A t \in B : dReq'[t] # "absent"
    BY <1>2, TransferAssumption DEF DSchedule
  <2>2. ASSUME NEW d \in DRanks
        PROVE  /\ Len(dInbox[d]) \in Nat
               /\ \A i : i \in 1 .. Len(dInbox'[d]) <=>
                           i \in 1 .. Len(dInbox[d]) \/ i = Len(dInbox[d]) + 1
               /\ \A i \in 1 .. Len(dInbox[d]) : dInbox'[d][i] = dInbox[d][i]
               /\ dInbox'[d][Len(dInbox[d]) + 1] = B \cup needRecv
    <3>1. /\ dInbox'[d] = Append(dInbox[d], B \cup needRecv)
          /\ dInbox[d] \in Seq(SUBSET Transfers) /\ B \cup needRecv \in SUBSET Transfers
      BY <1>2 DEF DSchedule, TypeOK, DTypes
    <3> QED BY <3>1
  <2>3. ASSUME NEW t \in Transfers, NEW d \in DRanks
        PROVE  Waits(d, t)' <=> Waits(d, t) \/ t \in B
    BY <2>1, <2>2 DEF Waits
  <2>4. ASSUME NEW t \in Transfers, NEW d \in DRanks, NEW i \in 1 .. Len(dInbox'[d]),
               NEW k \in 1 .. Len(dInbox'[d]), t \in dInbox'[d][i], t \in dInbox'[d][k]
        PROVE  i = k
    <3>1. t \in B \cup needRecv => \A n \in 1 .. Len(dInbox[d]) : t \notin dInbox[d][n]
      BY <2>1 DEF StateInv, PullInv, Waits
    <3>2. CASE i \in 1 .. Len(dInbox[d]) /\ k \in 1 .. Len(dInbox[d])
      BY <2>2, <2>4, <3>2 DEF StateInv, PullInv
    <3> QED BY <2>2, <2>4, <3>1, <3>2
  <2>5. \A t \in B : \A j \in pulls : t \notin j.reqs
    BY <2>1 DEF StateInv, PullInv
  <2>6. PullInv'
    BY <1>1, <2>1, <2>3, <2>4, <2>5 DEF StateInv, PullInv
  <2>7. \A q \in PRanks, t \in Transfers : Left(q, t)' \subseteq Left(q, t)
    BY <1>1, <2>1, <2>3 DEF Left, DTargets
  <2> QED BY <1>1, <2>6, <2>7, DHeld DEF StateInv
<1>3. ASSUME NEW u \in Transfers, DAbort(u) PROVE StateInv'
  <2>1. /\ dReq[u] = "absent" /\ dReq'[u] # "absent" /\ dInbox' = dInbox
        /\ \A t \in Transfers : t # u => dReq'[t] = dReq[t]
        /\ needRecv' = needRecv \cup {u}
    BY <1>3 DEF DAbort, TypeOK, DTypes
  <2>2. \A t \in Transfers, d \in DRanks : Waits(d, t)' <=> Waits(d, t) \/ t = u
    BY <2>1 DEF Waits
  <2>3. /\ \A d \in DRanks : \A i \in 1 .. Len(dInbox[d]) : u \notin dInbox[d][i]
        /\ \A j \in pulls : u \notin j.reqs
    BY <2>1 DEF StateInv, PullInv, Waits
  <2>4. PullInv'
    BY <1>1, <2>1, <2>2, <2>3 DEF StateInv, PullInv
  <2>5. \A q \in PRanks, t \in Transfers : Left(q, t)' \subseteq Left(q, t)
    BY <1>1, <2>1, <2>2 DEF Left, DTargets
  <2> QED BY <1>1, <2>4, <2>5, DHeld DEF StateInv
<1> QED BY <1>2, <1>3 DEF DSchedulerNext

(* The pulls of one metadata message are the first of their transfers.     *)
LEMMA GroupKVPullHeld ==
    ASSUME TypeOK, StateInv, NEW d \in DRanks, GroupKVPull(d) PROVE StateInv'
<1> DEFINE S == Head(dInbox[d])
<1>1. UNCHANGED <<pVars, workerVars, dReq, needRecv, torn>>
  BY DEF GroupKVPull
<1>2. /\ pulls' = pulls \cup {NewPull(p, d, S) : p \in PTargets(d)}
      /\ \A p : LET n == NewPull(p, d, S) IN
            n.p = p /\ n.d = d /\ n.reqs = S /\ n.pc = "queued"
  BY DEF GroupKVPull, NewPull
<1>3. /\ dInbox[d] \in Seq(SUBSET Transfers) /\ dInbox[d] # <<>>
      /\ dInbox'[d] = Tail(dInbox[d])
      /\ \A e \in DRanks : e # d => dInbox'[e] = dInbox[e]
  BY DEF GroupKVPull, TypeOK, DTypes
<1>4. /\ S = dInbox[d][1] /\ 1 \in 1 .. Len(dInbox[d])
      /\ \A i \in 1 .. Len(dInbox'[d]) :
            i \in Nat /\ i + 1 \in 1 .. Len(dInbox[d]) /\ dInbox'[d][i] = dInbox[d][i + 1]
  BY <1>3
<1> HIDE DEF S
<1>5. \A t \in S : Waits(d, t) /\ \A j \in pulls : j.d = d => t \notin j.reqs
  <2>1. \A t \in S : Waits(d, t) /\ t \in Transfers
    BY <1>3, <1>4 DEF Waits
  <2> QED BY <2>1 DEF StateInv, PullInv
<1>6. ASSUME NEW t \in Transfers, NEW e \in DRanks, Waits(e, t)'
      PROVE  Waits(e, t) /\ (e = d => t \notin S)
  <2>1. CASE e # d
    BY <1>1, <1>3, <1>6, <2>1 DEF Waits
  <2>2. CASE e = d /\ t \in needRecv
    BY <1>4, <2>2 DEF Waits, StateInv, PullInv
  <2>3. CASE e = d /\ t \notin needRecv
    <3>1. PICK i \in 1 .. Len(dInbox'[d]) : t \in dInbox'[d][i]
      BY <1>1, <1>6, <2>3 DEF Waits
    <3>2. i \in Nat /\ i + 1 \in 1 .. Len(dInbox[d]) /\ t \in dInbox[d][i + 1]
      BY <1>4, <3>1
    <3>3. t \in S => i + 1 = 1
      BY <1>4, <3>2 DEF StateInv, PullInv
    <3> QED BY <2>3, <3>2, <3>3 DEF Waits
  <2> QED BY <2>1, <2>2, <2>3
<1>7. ASSUME NEW j \in pulls'
      PROVE  j \in pulls \/ (/\ j.d = d /\ j.p \in PTargets(d) /\ j.reqs = S
                            /\ j.pc = "queued" /\ j = NewPull(j.p, d, S))
  BY <1>2
<1>8. PullInv'
  <2>1. \A j \in pulls' : j.d \in DTargets(j.p)
    BY <1>7 DEF StateInv, PullInv, PTargets, DTargets
  <2>2. \A t \in Transfers : dReq'[t] = "absent" =>
          /\ \A e \in DRanks : ~Waits(e, t)'
          /\ \A j \in pulls' : t \notin j.reqs
    BY <1>1, <1>5, <1>6, <1>7 DEF StateInv, PullInv
  <2>3. \A t \in Transfers, e \in DRanks : Waits(e, t)' =>
          \A j \in pulls' : j.d = e => t \notin j.reqs
    BY <1>6, <1>7 DEF StateInv, PullInv
  <2>4. ASSUME NEW t \in needRecv, NEW e \in DRanks, NEW i \in 1 .. Len(dInbox'[e])
        PROVE  t \notin dInbox'[e][i]
    <3>1. \A k \in 1 .. Len(dInbox[e]) : t \notin dInbox[e][k]
      BY DEF StateInv, PullInv
    <3>2. CASE e # d
      BY <1>3, <3>1, <3>2
    <3>3. CASE e = d
      <4>1. i + 1 \in 1 .. Len(dInbox[d]) /\ dInbox'[d][i] = dInbox[d][i + 1]
        BY <1>4, <3>3
      <4> QED BY <3>1, <3>3, <4>1
    <3> QED BY <3>2, <3>3
  <2>5. ASSUME NEW t \in Transfers, NEW e \in DRanks,
               NEW i \in 1 .. Len(dInbox'[e]), NEW k \in 1 .. Len(dInbox'[e]),
               t \in dInbox'[e][i], t \in dInbox'[e][k]
        PROVE  i = k
    <3>1. CASE e # d
      BY <1>3, <2>5, <3>1 DEF StateInv, PullInv
    <3>2. CASE e = d
      <4>1. /\ i \in Nat /\ i + 1 \in 1 .. Len(dInbox[d]) /\ t \in dInbox[d][i + 1]
            /\ k \in Nat /\ k + 1 \in 1 .. Len(dInbox[d]) /\ t \in dInbox[d][k + 1]
        BY <1>4, <2>5, <3>2
      <4>2. i + 1 = k + 1
        BY <4>1 DEF StateInv, PullInv
      <4> QED BY <4>1, <4>2
    <3> QED BY <3>1, <3>2
  <2>6. ASSUME NEW i \in pulls', NEW j \in pulls', i.p = j.p, i.d = j.d,
               i.reqs \cap j.reqs # {}
        PROVE  i = j
    <3>1. CASE i \in pulls /\ j \in pulls
      BY <2>6, <3>1 DEF StateInv, PullInv
    <3>2. CASE i \notin pulls \/ j \notin pulls
      BY <1>5, <1>7, <2>6, <3>2
    <3> QED BY <3>1, <3>2
  <2> QED BY <1>1, <2>1, <2>2, <2>3, <2>4, <2>5, <2>6 DEF PullInv
<1>9. ASSUME NEW q \in PRanks, NEW t \in Transfers PROVE Left(q, t)' \subseteq Left(q, t)
  <2> SUFFICES ASSUME NEW e \in Left(q, t)' PROVE e \in Left(q, t)
    OBVIOUS
  <2>1. e \in DTargets(q) /\ e \in DRanks
    BY DEF Left, DTargets
  <2>2. CASE dReq'[t] = "absent" \/ Waits(e, t)'
    BY <1>1, <1>6, <2>1, <2>2 DEF Left
  <2>3. ASSUME NEW j \in pulls', j.p = q, j.d = e, t \in j.reqs, j.pc \in Before
        PROVE  e \in Left(q, t)
    BY <1>5, <1>7, <2>1, <2>3 DEF Left
  <2> QED BY <2>2, <2>3 DEF Left
<1>10. WorkInv' /\ torn' = {}
  BY <1>1, <1>2, <1>7, <1>9, DHeld
<1> QED BY <1>8, <1>10 DEF StateInv

LEMMA ReplyHeld ==
    ASSUME TypeOK, StateInv, UNCHANGED <<pVars, workerVars, torn, dReq, needRecv, dInbox>>,
           pulls' \subseteq pulls, \A x \in pulls : x.pc = "publish" => x \in pulls'
    PROVE  StateInv'
<1>1. PullInv'
  BY PullsFewer DEF StateInv
<1>2. \A q \in PRanks, t \in Transfers : Left(q, t)' \subseteq Left(q, t)
  BY LeftFewer DEF SamePull
<1>3. WorkInv' /\ torn' = {}
  BY <1>2, DHeld
<1> QED BY <1>1, <1>3 DEF StateInv

-----------------------------------------------------------------------------
(* All of it, and the two properties.                                      *)

LEMMA StateStep ==
    ASSUME "slow" \notin Faults, HeldInv, [Next]_vars PROVE StateInv'
<1>1. OwnerInv /\ StateInv /\ TypeOK
  BY DEF HeldInv, OwnerInv
<1>2. CASE PSchedulerNext
  BY <1>1, <1>2, PSchedulerHeld
<1>3. CASE DSchedulerNext
  BY <1>1, <1>3, DSchedulerHeld
<1>4. ASSUME NEW p \in PRanks, PWorkerNext(p) PROVE StateInv'
  BY <1>1, <1>4, StartLoadHeld, PollFinishedHeld, PollExpiredHeld DEF PWorkerNext
<1>5. ASSUME NEW d \in DRanks, DWorkerNext(d) PROVE StateInv'
  <2>1. CASE GroupKVPull(d)
    BY <1>1, <2>1, GroupKVPullHeld
  <2>2. CASE FetchFinishedRecving(d)
    BY <1>1, <2>2, ReplyHeld DEF FetchFinishedRecving
  <2> QED BY <1>5, <2>1, <2>2 DEF DWorkerNext
<1>6. ASSUME NEW j \in pulls, SenderNext(j) PROVE StateInv'
  BY <1>1, <1>6, SenderStartHeld, SenderMoveHeld, SenderCommitHeld, SenderPublishHeld
     DEF SenderNext
<1>7. ASSUME NEW j \in pulls, ReceiveNext(j) PROVE StateInv'
  <2>1. CASE ReceiveDone(j) \/ ReceiveError(j)
    <3>1. /\ UNCHANGED <<pVars, workerVars, torn, dReq, needRecv, dInbox>>
          /\ pulls' = pulls \ {j} /\ j.pc # "publish"
      BY <2>1 DEF ReceiveDone, ReceiveError, dVars
    <3> QED BY <1>1, <3>1, ReplyHeld
  <2>2. CASE ReceiveTimeout(j)
    BY <1>1, <2>2, SenderMoveHeld
  <2> QED BY <1>7, <2>1, <2>2 DEF ReceiveNext
<1>8. CASE UNCHANGED vars
  BY <1>1, <1>8, ReplyHeld DEF vars, dVars
<1> QED BY <1>2, <1>3, <1>4, <1>5, <1>6, <1>7, <1>8 DEF Next

LEMMA HeldStep == ASSUME "slow" \notin Faults PROVE HeldInv /\ [Next]_vars => HeldInv'
<1> SUFFICES ASSUME HeldInv, [Next]_vars PROVE HeldInv'
  OBVIOUS
<1>1. OwnerInv'
  BY OwnerStep DEF HeldInv
<1> QED BY <1>1, StateStep DEF HeldInv

LEMMA HeldInit == Init => HeldInv
<1> SUFFICES ASSUME Init PROVE HeldInv
  OBVIOUS
<1>1. PullInv
  BY DEF Init, PullInv, Waits
<1>2. \A p \in PRanks, t \in Transfers :
        Index(p, t) = {} /\ Ready(p, t) = {} /\ Armed(p, t) = {} /\ ~InBox(p, t)
  BY DEF Init, Index, Ready, Armed, InBox
<1>3. CommitInv /\ ArmedInv /\ CountInv
  BY <1>2 DEF Init, CommitInv, ArmedInv, CountInv
<1>4. UseInv /\ ThroughInv
  BY DEF Init, UseInv, ThroughInv, Through, OnePlace, NotPolling
<1>5. torn = {}
  BY DEF Init
<1> QED BY <1>1, <1>3, <1>4, <1>5, OwnerInit DEF HeldInv, StateInv, WorkInv

(* Where no RDMA write outlasts the timer, a sender thread writes only from*)
(* blocks that P still holds, whichever pulls, commits and polls interleave*)
(* with it and however many D ranks share the entry.                       *)
THEOREM HeldWhileWriting ==
    ASSUME "slow" \notin Faults PROVE Spec => []WritesFromHeldBlocks
<1>1. HeldInv /\ [Next]_vars => HeldInv'
  BY HeldStep
<1>2. HeldInv => WritesFromHeldBlocks
  BY DEF HeldInv, StateInv, WritesFromHeldBlocks
<1> QED BY <1>1, <1>2, HeldInit, PTL DEF Spec

(* ... and each P worker reports a request to its engine at most once, by  *)
(* the thread that served the last D rank or by the poll that expired it.  *)
THEOREM ReportedAtMostOnce ==
    ASSUME "slow" \notin Faults PROVE Spec => []ReportedOnce
<1>1. HeldInv /\ [Next]_vars => HeldInv'
  BY HeldStep
<1>2. HeldInv => ReportedOnce
  BY DEF HeldInv, StateInv, WorkInv, ThroughInv, OnePlace, ReportedOnce
<1> QED BY <1>1, <1>2, HeldInit, PTL DEF Spec

-----------------------------------------------------------------------------
(***************************************************************************)
(* Part 3: the refinement of KVHandoff.                                    *)
(***************************************************************************)

(* The P ranks whose part of t has yet to reach d or to be answered.       *)
Unserved(d, t) == {p \in PTargets(d) :
    \/ <<p, d, t>> \notin Copies
    \/ \E j \in pulls : j.p = p /\ j.d = d /\ t \in j.reqs}

(* A D rank counts at least as many replies as it lacks; what a pull has   *)
(* written is copied; and only requests D has asked for are received.      *)
AskedInv == \A d \in DRanks : \A t \in finishedRecv[d] \cup loaded[d] : dReq[t] # "absent"
WrittenInv == \A j \in pulls : j.pc \in {"commit", "publish", "done"} =>
    \A t \in Written(j) : <<j.p, j.d, t>> \in Copies
PendingInv == \A d \in DRanks, t \in Transfers : dReq[t] = "blocks" /\ ~Waits(d, t) =>
    Cardinality(Unserved(d, t)) <= pullPending[d][t]
ReplyInv == AskedInv /\ WrittenInv /\ PendingInv
HandOffInv == HeldInv /\ ReplyInv

-----------------------------------------------------------------------------
(* The replies a D rank waits for.                                         *)

LEMMA UnservedSize ==
    ASSUME NEW d \in DRanks, NEW S \in SUBSET PTargets(d)
    PROVE  /\ IsFiniteSet(S) /\ Cardinality(S) \in Nat
           /\ \A U \in SUBSET S : /\ Cardinality(U) \in Nat
                                  /\ Cardinality(U) <= Cardinality(S)
           /\ \A x \in S : Cardinality(S \ {x}) = Cardinality(S) - 1
           /\ Cardinality(S) <= 1 => \A x \in S : S = {x}
<1>1. IsFiniteSet(S)
  BY TransferAssumption, FS_Subset DEF PTargets
<1>2. Cardinality(S) \in Nat
  BY <1>1, FS_CardinalityType
<1>3. \A U \in SUBSET S : Cardinality(U) \in Nat /\ Cardinality(U) <= Cardinality(S)
  BY <1>1, FS_Subset, FS_CardinalityType
<1>4. \A x \in S : Cardinality(S \ {x}) = Cardinality(S) - 1
  BY <1>1, FS_RemoveElement
<1>5. ASSUME Cardinality(S) <= 1, NEW x \in S PROVE S = {x}
  <2>1. Cardinality(S \ {x}) = Cardinality(S) - 1 /\ Cardinality(S \ {x}) \in Nat
    BY <1>3, <1>4
  <2>2. Cardinality(S \ {x}) = 0
    BY <1>2, <1>5, <2>1
  <2>3. IsFiniteSet(S \ {x})
    BY <1>1, FS_Subset
  <2>4. S \ {x} = {}
    BY <2>2, <2>3, FS_EmptySet
  <2> QED BY <2>4
<1> QED BY <1>1, <1>2, <1>3, <1>4, <1>5

LEMMA UnservedOf == \A d, t : Unserved(d, t) \subseteq PTargets(d)
BY DEF Unserved

(* Steps that leave D alone and at most serve more.                        *)
LEMMA PendingKept ==
    ASSUME TypeOK, PendingInv,
           UNCHANGED <<dReq, needRecv, dInbox, pullPending>>,
           Copies \subseteq Copies',
           \A x \in pulls' : \E y \in pulls : SamePull(x, y)
    PROVE  PendingInv'
<1> SUFFICES ASSUME NEW d \in DRanks, NEW t \in Transfers, dReq[t] = "blocks", ~Waits(d, t)
             PROVE  Cardinality(Unserved(d, t)') <= pullPending[d][t]
  BY DEF PendingInv, Waits
<1>1. Unserved(d, t)' \subseteq Unserved(d, t)
  BY DEF Unserved, SamePull, PTargets
<1>2. Cardinality(Unserved(d, t)) <= pullPending[d][t] /\ pullPending[d][t] \in Nat
  BY DEF PendingInv, TypeOK, DTypes
<1>3. /\ Cardinality(Unserved(d, t)) \in Nat /\ Cardinality(Unserved(d, t)') \in Nat
      /\ Cardinality(Unserved(d, t)') <= Cardinality(Unserved(d, t))
  BY <1>1, UnservedOf, UnservedSize
<1> QED BY <1>2, <1>3

(* A job or its socket moves on.                                           *)
LEMMA MoveReply ==
    ASSUME TypeOK, ReplyInv, UNCHANGED dVars, Copies \subseteq Copies',
           NEW j \in pulls, NEW k, Become(j, k), SamePull(k, j),
           k.pc \in {"commit", "publish", "done"} =>
              \/ j.pc \in {"commit", "publish", "done"}
              \/ \A t \in Written(j) : <<j.p, j.d, t>> \in Copies'
    PROVE  ReplyInv'
<1>1. PendingInv'
  BY PendingKept DEF ReplyInv, dVars, Become, SamePull
<1>2. AskedInv'
  BY DEF ReplyInv, AskedInv, dVars
<1>3. WrittenInv'
  BY DEF ReplyInv, WrittenInv, Written, Become, SamePull, dVars
<1> QED BY <1>1, <1>2, <1>3 DEF ReplyInv

LEMMA SenderReply ==
    ASSUME TypeOK, ReplyInv, NEW j \in pulls, SenderNext(j) \/ ReceiveTimeout(j)
    PROVE  ReplyInv'
<1>1. j \in Pull
  BY DEF TypeOK, PullTypes
<1>2. UNCHANGED dVars /\ Copies \subseteq Copies'
  BY DEF SenderNext, SenderStart, SenderReady, SenderTimeout, SenderWrite, SenderFail,
         SenderCommit, SenderPublish, ReceiveTimeout, Copies
<1>3. CASE SenderStart(j)
  <2>1. PICK r : Become(j, [j EXCEPT !.pc = "wait", !.ref = r])
    BY <1>3 DEF SenderStart
  <2> DEFINE k == [j EXCEPT !.pc = "wait", !.ref = r]
  <2>2. SamePull(k, j) /\ k.pc = "wait"
    BY <1>1 DEF Pull, SamePull
  <2> QED BY <1>2, <2>1, <2>2, MoveReply
<1>4. CASE SenderReady(j) \/ SenderTimeout(j) \/ SenderFail(j)
  <2>1. PICK pc \in {"write", "error"} : Become(j, [j EXCEPT !.pc = pc])
    BY <1>4 DEF SenderReady, SenderTimeout, SenderFail
  <2> DEFINE k == [j EXCEPT !.pc = pc]
  <2>2. SamePull(k, j) /\ k.pc = pc
    BY <1>1 DEF Pull, SamePull
  <2> QED BY <1>2, <2>1, <2>2, MoveReply
<1>5. CASE SenderWrite(j)
  <2>1. \A t \in Written(j) : <<j.p, j.d, t>> \in Copies'
    BY <1>5 DEF SenderWrite, Copies
  <2> DEFINE k == [j EXCEPT !.pc = "commit"]
  <2>2. SamePull(k, j) /\ Become(j, k)
    BY <1>1, <1>5 DEF Pull, SamePull, SenderWrite
  <2> QED BY <1>2, <2>1, <2>2, MoveReply
<1>6. CASE SenderCommit(j)
  <2> DEFINE k == [j EXCEPT !.pc = "publish", !.fin = Completed(j)]
  <2>1. SamePull(k, j) /\ Become(j, k) /\ j.pc = "commit"
    BY <1>1, <1>6 DEF Pull, SamePull, SenderCommit
  <2> QED BY <1>2, <2>1, MoveReply
<1>7. CASE SenderPublish(j)
  <2> DEFINE k == [j EXCEPT !.pc = "done"]
  <2>1. SamePull(k, j) /\ Become(j, k) /\ j.pc = "publish"
    BY <1>1, <1>7 DEF Pull, SamePull, SenderPublish
  <2> QED BY <1>2, <2>1, MoveReply
<1>8. CASE ReceiveTimeout(j)
  <2> DEFINE k == [j EXCEPT !.open = FALSE]
  <2>1. SamePull(k, j) /\ Become(j, k) /\ k.pc = j.pc
    BY <1>1, <1>8 DEF Pull, SamePull, ReceiveTimeout
  <2> QED BY <1>2, <2>1, MoveReply
<1> QED BY <1>3, <1>4, <1>5, <1>6, <1>7, <1>8 DEF SenderNext

-----------------------------------------------------------------------------
(* D asks, pulls, counts the replies and reports.                          *)

(* What D has just asked for waits for its pull.                           *)
AsksMore ==
    /\ \A t \in Transfers : dReq[t] # "absent" => dReq'[t] = dReq[t]
    /\ \A d \in DRanks, t \in Transfers :
          dReq'[t] = "blocks" /\ ~Waits(d, t)' => dReq[t] = "blocks" /\ ~Waits(d, t)

LEMMA DSchedulerReply == ASSUME TypeOK, PullInv, ReplyInv, DSchedulerNext PROVE ReplyInv'
<1>1. UNCHANGED <<pulls, pullPending, finishedRecv, loaded>> /\ Copies' = Copies
  BY DEF DSchedulerNext, DSchedule, DAbort, Copies
<1>2. AsksMore
  <2>1. ASSUME NEW B \in SUBSET Transfers, NEW kind \in [B -> Kinds], DSchedule(B, kind)
        PROVE  AsksMore
    <3>1. /\ \A t \in B : dReq[t] = "absent" /\ kind[t] # "absent"
          /\ \A t \in Transfers : dReq'[t] = IF t \in B THEN kind[t] ELSE dReq[t]
          /\ needRecv' = {}
      BY <2>1, TransferAssumption DEF DSchedule
    <3>2. ASSUME NEW d \in DRanks
          PROVE  /\ \A i \in 1 .. Len(dInbox[d]) :
                       i \in 1 .. Len(dInbox'[d]) /\ dInbox'[d][i] = dInbox[d][i]
                 /\ \E i \in 1 .. Len(dInbox'[d]) : dInbox'[d][i] = B \cup needRecv
      <4>1. /\ dInbox'[d] = Append(dInbox[d], B \cup needRecv)
            /\ dInbox[d] \in Seq(SUBSET Transfers) /\ B \cup needRecv \in SUBSET Transfers
        BY <2>1 DEF DSchedule, TypeOK, DTypes
      <4> DEFINE n == Len(dInbox[d]) + 1
      <4>2. n \in 1 .. Len(dInbox'[d]) /\ dInbox'[d][n] = B \cup needRecv
        BY <4>1
      <4> QED BY <4>1, <4>2
    <3>3. \A d \in DRanks, t \in Transfers : Waits(d, t) \/ t \in B => Waits(d, t)'
      BY <3>1, <3>2 DEF Waits
    <3> QED BY <3>1, <3>3 DEF AsksMore
  <2>2. ASSUME NEW u \in Transfers, DAbort(u) PROVE AsksMore
    <3>1. /\ dReq[u] = "absent" /\ dInbox' = dInbox /\ needRecv' = needRecv \cup {u}
          /\ \A t \in Transfers : dReq'[t] = IF t = u THEN "empty" ELSE dReq[t]
      BY <2>2 DEF DAbort, TypeOK, DTypes
    <3>2. \A d \in DRanks, t \in Transfers : Waits(d, t) => Waits(d, t)'
      BY <3>1 DEF Waits
    <3> QED BY <3>1, <3>2 DEF AsksMore
  <2> QED BY <2>1, <2>2 DEF DSchedulerNext
<1>3. AskedInv'
  BY <1>1, <1>2 DEF AsksMore, ReplyInv, AskedInv, TypeOK, DTypes
<1>4. WrittenInv'
  <2>1. \A j \in pulls : \A t \in j.reqs : t \in Transfers /\ dReq[t] # "absent"
    BY DEF PullInv, TypeOK, PullTypes, Pull
  <2>2. \A j \in pulls : Written(j)' \subseteq Written(j)
    BY <1>2, <2>1 DEF Written, AsksMore
  <2> QED BY <1>1, <2>2 DEF ReplyInv, WrittenInv
<1>5. PendingInv'
  <2>1. \A d, t : Unserved(d, t)' = Unserved(d, t)
    BY <1>1 DEF Unserved
  <2> QED BY <1>1, <1>2, <2>1 DEF AsksMore, ReplyInv, PendingInv
<1> QED BY <1>3, <1>4, <1>5 DEF ReplyInv

(* A pull adds what it asks for to what d waits for, and nothing else.     *)
LEMMA GroupKVPullReply ==
    ASSUME TypeOK, PullInv, ReplyInv, NEW d \in DRanks, GroupKVPull(d) PROVE ReplyInv'
<1> DEFINE S == Head(dInbox[d])
<1>1. UNCHANGED <<dReq, needRecv, finishedRecv, loaded>> /\ Copies' = Copies
  BY DEF GroupKVPull, Copies
<1>2. /\ dInbox[d] \in Seq(SUBSET Transfers) /\ dInbox[d] # <<>>
      /\ dInbox'[d] = Tail(dInbox[d])
      /\ \A e \in DRanks : e # d => dInbox'[e] = dInbox[e]
  BY DEF GroupKVPull, TypeOK, DTypes
<1>3. /\ \A e \in DRanks, t \in Transfers : pullPending'[e][t] =
            IF e = d /\ t \in S THEN Cardinality(PTargets(d)) ELSE pullPending[e][t]
      /\ pulls' = pulls \cup {NewPull(p, d, S) : p \in PTargets(d)}
  BY DEF GroupKVPull, TypeOK, DTypes
<1>4. \A i \in 1 .. Len(dInbox[d]) :
         \/ dInbox[d][i] = S
         \/ \E k \in 1 .. Len(dInbox'[d]) : dInbox'[d][k] = dInbox[d][i]
  <2> SUFFICES ASSUME NEW i \in 1 .. Len(dInbox[d]), i # 1
               PROVE  \E k \in 1 .. Len(dInbox'[d]) : dInbox'[d][k] = dInbox[d][i]
    BY <1>2
  <2>1. i - 1 \in 1 .. Len(dInbox'[d]) /\ dInbox'[d][i - 1] = dInbox[d][i]
    BY <1>2
  <2> QED BY <2>1
<1> HIDE DEF S
<1>5. \A j \in pulls' : j \in pulls \/ (j.d = d /\ j.reqs = S /\ j.pc = "queued")
  BY <1>3 DEF NewPull
<1>6. AskedInv'
  BY <1>1 DEF ReplyInv, AskedInv
<1>7. WrittenInv'
  BY <1>1, <1>5 DEF ReplyInv, WrittenInv, Written
<1>8. ASSUME NEW e \in DRanks, NEW t \in Transfers, dReq[t] = "blocks", ~Waits(e, t)'
      PROVE  Cardinality(Unserved(e, t)') <= pullPending'[e][t]
  <2>1. CASE e = d /\ t \in S
    <3>1. Unserved(e, t)' \subseteq PTargets(d)
      BY <2>1 DEF Unserved, PTargets
    <3> QED BY <1>3, <2>1, <3>1, UnservedSize
  <2>2. CASE ~(e = d /\ t \in S)
    <3>1. ~Waits(e, t)
      BY <1>1, <1>2, <1>4, <1>8, <2>2 DEF Waits
    <3>2. Unserved(e, t)' = Unserved(e, t)
      BY <1>1, <1>3, <1>5, <2>2 DEF Unserved, PTargets
    <3> QED BY <1>3, <1>8, <2>2, <3>1, <3>2 DEF ReplyInv, PendingInv
  <2> QED BY <2>1, <2>2
<1> QED BY <1>1, <1>6, <1>7, <1>8 DEF ReplyInv, PendingInv

LEMMA FetchReply ==
    ASSUME TypeOK, ReplyInv, NEW d \in DRanks, FetchFinishedRecving(d)
    PROVE  ReplyInv' /\ \A e \in DRanks : Got(e)' = Got(e)
<1>1. UNCHANGED <<pulls, dReq, needRecv, dInbox, pullPending>> /\ Copies' = Copies
  BY DEF FetchFinishedRecving, Copies
<1>2. \A e \in DRanks : finishedRecv'[e] \cup loaded'[e] = finishedRecv[e] \cup loaded[e]
  BY DEF FetchFinishedRecving, TypeOK, DTypes
<1>3. AskedInv' /\ WrittenInv'
  BY <1>1, <1>2 DEF ReplyInv, AskedInv, WrittenInv, Written
<1>4. PendingInv'
  BY <1>1, PendingKept DEF ReplyInv, SamePull
<1> QED BY <1>1, <1>2, <1>3, <1>4 DEF ReplyInv, Got

(* The last reply that d counts for a request comes after all the copies.  *)
LEMMA LastCopied ==
    ASSUME TypeOK, PullInv, ReplyInv, NEW j \in pulls, ReceiveDone(j),
           NEW t \in LastReply(j), dReq[t] = "blocks"
    PROVE  /\ Unserved(j.d, t)' = {}
           /\ \A p \in PTargets(j.d) : <<p, j.d, t>> \in Copies
<1>1. /\ j.d \in DRanks /\ j.p \in PTargets(j.d) /\ t \in j.reqs /\ t \in Transfers
      /\ pullPending[j.d][t] <= 1 /\ j.pc = "done"
  BY DEF ReceiveDone, LastReply, PullInv, TypeOK, PullTypes, Pull, DTargets, PTargets
<1>2. ~Waits(j.d, t)
  BY <1>1 DEF PullInv
<1>3. Cardinality(Unserved(j.d, t)) <= 1
  <2>1. /\ Cardinality(Unserved(j.d, t)) <= pullPending[j.d][t]
        /\ pullPending[j.d][t] \in Nat
    BY <1>1, <1>2 DEF ReplyInv, PendingInv, TypeOK, DTypes
  <2>2. Cardinality(Unserved(j.d, t)) \in Nat
    BY <1>1, UnservedOf, UnservedSize
  <2> QED BY <1>1, <2>1, <2>2
<1>4. j.p \in Unserved(j.d, t)
  BY <1>1 DEF Unserved
<1>5. Unserved(j.d, t) = {j.p}
  BY <1>1, <1>3, <1>4, UnservedOf, UnservedSize
<1>6. <<j.p, j.d, t>> \in Copies
  BY <1>1 DEF ReplyInv, WrittenInv, Written
<1>7. \A p \in PTargets(j.d) : <<p, j.d, t>> \in Copies
  BY <1>5, <1>6 DEF Unserved
<1>8. Copies' = Copies /\ pulls' = pulls \ {j}
  BY DEF ReceiveDone, Copies
<1>9. \A i \in pulls' : ~(i.p = j.p /\ i.d = j.d /\ t \in i.reqs)
  BY <1>1, <1>8 DEF PullInv
<1>10. Unserved(j.d, t)' = {}
  BY <1>5, <1>7, <1>8, <1>9 DEF Unserved, PTargets
<1> QED BY <1>7, <1>10

LEMMA ReceiveDoneReply ==
    ASSUME TypeOK, PullInv, ReplyInv, NEW j \in pulls, ReceiveDone(j) PROVE ReplyInv'
<1>1. /\ UNCHANGED <<dReq, needRecv, dInbox, loaded>> /\ Copies' = Copies
      /\ pulls' = pulls \ {j}
  BY DEF ReceiveDone, Copies
<1>2. j \in Pull /\ j.d \in DRanks /\ j.pc = "done" /\ j.p \in PTargets(j.d)
  BY DEF ReceiveDone, TypeOK, PullTypes, Pull, PullInv, DTargets, PTargets
<1>3. \A e \in DRanks : finishedRecv'[e] \subseteq
         finishedRecv[e] \cup (IF e = j.d THEN j.reqs ELSE {})
  BY DEF ReceiveDone, LastReply, TypeOK, DTypes
<1>4. AskedInv'
  <2>1. \A t \in j.reqs : t \in Transfers /\ dReq[t] # "absent"
    BY <1>2 DEF PullInv, Pull
  <2> QED BY <1>1, <1>3, <2>1 DEF ReplyInv, AskedInv
<1>5. WrittenInv'
  BY <1>1 DEF ReplyInv, WrittenInv, Written
<1>6. ASSUME NEW e \in DRanks, NEW t \in Transfers, dReq[t] = "blocks", ~Waits(e, t)
      PROVE  Cardinality(Unserved(e, t)') <= pullPending'[e][t]
  <2>1. /\ Cardinality(Unserved(e, t)) <= pullPending[e][t] /\ pullPending[e][t] \in Nat
        /\ pullPending'[e][t] = IF e = j.d /\ t \in LastReply(j) THEN 0
                                ELSE IF e = j.d /\ t \in j.reqs THEN pullPending[e][t] - 1
                                ELSE pullPending[e][t]
    BY <1>6 DEF ReplyInv, PendingInv, TypeOK, DTypes, ReceiveDone, LastReply
  <2>2. Unserved(e, t)' \subseteq Unserved(e, t)
    BY <1>1 DEF Unserved, PTargets
  <2>3. /\ Cardinality(Unserved(e, t)) \in Nat /\ Cardinality(Unserved(e, t)') \in Nat
        /\ Cardinality(Unserved(e, t)') <= Cardinality(Unserved(e, t))
    BY <2>2, UnservedOf, UnservedSize
  <2>4. CASE e = j.d /\ t \in LastReply(j)
    <3>1. Unserved(e, t)' = {}
      BY <1>6, <2>4, LastCopied
    <3> QED BY <2>1, <2>4, <3>1, FS_EmptySet
  <2>5. CASE e = j.d /\ t \in j.reqs /\ t \notin LastReply(j)
    <3>1. j.p \in Unserved(e, t)
      BY <1>2, <2>5 DEF Unserved
    <3>2. <<j.p, j.d, t>> \in Copies
      BY <1>2, <1>6, <2>5 DEF ReplyInv, WrittenInv, Written
    <3>3. \A i \in pulls' : ~(i.p = j.p /\ i.d = j.d /\ t \in i.reqs)
      BY <1>1, <2>5 DEF PullInv
    <3>4. Unserved(e, t)' \subseteq Unserved(e, t) \ {j.p}
      BY <1>1, <2>2, <2>5, <3>2, <3>3 DEF Unserved
    <3>5. Cardinality(Unserved(e, t) \ {j.p}) = Cardinality(Unserved(e, t)) - 1
      BY <3>1, UnservedOf, UnservedSize
    <3>6. Cardinality(Unserved(e, t)') <= Cardinality(Unserved(e, t) \ {j.p})
      <4>1. Unserved(e, t) \ {j.p} \subseteq PTargets(e)
        BY UnservedOf
      <4> QED BY <3>4, <4>1, UnservedSize
    <3> QED BY <2>1, <2>3, <2>5, <3>5, <3>6
  <2>6. CASE ~(e = j.d /\ t \in j.reqs)
    <3>1. ~(e = j.d /\ t \in LastReply(j))
      BY <2>6 DEF LastReply
    <3> QED BY <2>1, <2>3, <2>6, <3>1
  <2> QED BY <2>4, <2>5, <2>6
<1>7. PendingInv'
  BY <1>1, <1>6 DEF PendingInv, Waits
<1> QED BY <1>4, <1>5, <1>7 DEF ReplyInv

LEMMA ReceiveErrorReply ==
    ASSUME TypeOK, ReplyInv, NEW j \in pulls, ReceiveError(j) PROVE ReplyInv'
<1>1. UNCHANGED dVars /\ Copies' = Copies /\ pulls' \subseteq pulls
  BY DEF ReceiveError, Copies
<1>2. PendingInv'
  BY <1>1, PendingKept DEF ReplyInv, dVars, SamePull
<1> QED BY <1>1, <1>2 DEF ReplyInv, AskedInv, WrittenInv, Written, dVars

LEMMA ReplyStep == ASSUME HandOffInv, [Next]_vars PROVE ReplyInv'
<1>1. TypeOK /\ PullInv /\ ReplyInv
  BY DEF HandOffInv, HeldInv, OwnerInv, StateInv
<1>2. ASSUME UNCHANGED <<dVars, pulls, copied, torn>> PROVE ReplyInv'
  <2>1. PendingInv'
    BY <1>1, <1>2, PendingKept DEF ReplyInv, dVars, SamePull, Copies
  <2> QED BY <1>1, <1>2, <2>1 DEF ReplyInv, AskedInv, WrittenInv, Written, dVars, Copies
<1>3. CASE PSchedulerNext
  BY <1>2, <1>3 DEF PSchedulerNext, PSchedule, PFinishCapped, PDrop
<1>4. CASE DSchedulerNext
  BY <1>1, <1>4, DSchedulerReply
<1>5. ASSUME NEW p \in PRanks, PWorkerNext(p) PROVE ReplyInv'
  BY <1>2, <1>5 DEF PWorkerNext, StartLoadKVProducer, PollFinished, PollExpired
<1>6. ASSUME NEW d \in DRanks, DWorkerNext(d) PROVE ReplyInv'
  BY <1>1, <1>6, GroupKVPullReply, FetchReply DEF DWorkerNext
<1>7. ASSUME NEW j \in pulls, SenderNext(j) \/ ReceiveNext(j) PROVE ReplyInv'
  BY <1>1, <1>7, SenderReply, ReceiveDoneReply, ReceiveErrorReply DEF ReceiveNext
<1>8. CASE UNCHANGED vars
  BY <1>2, <1>8 DEF vars
<1> QED BY <1>3, <1>4, <1>5, <1>6, <1>7, <1>8 DEF Next

LEMMA ReplyInit == Init => ReplyInv
<1> SUFFICES ASSUME Init PROVE ReplyInv
  OBVIOUS
<1>1. AskedInv /\ WrittenInv /\ PendingInv
  BY DEF Init, AskedInv, WrittenInv, PendingInv
<1> QED BY <1>1 DEF ReplyInv

-----------------------------------------------------------------------------
(* Every step is one of the abstract specification, or none.               *)

Stages == [t \in Transfers |-> Stage(t)]

LEMMA AbstractStutter ==
    ASSUME \A t \in Transfers : Stage(t)' = Stage(t), Copies' = Copies, Received' = Received
    PROVE  UNCHANGED Abstract!vars
BY DEF Abstract!vars

LEMMA StageSame ==
    ASSUME UNCHANGED <<pReq, reports>> PROVE \A t \in Transfers : Stage(t)' = Stage(t)
BY DEF Stage, Freed

LEMMA ReceivedSame ==
    ASSUME UNCHANGED <<finishedRecv, loaded, dReq>> PROVE Received' = Received
BY DEF Received, Got

(* Blocks of a request that is not held were reported by nobody.           *)
LEMMA NotFreed ==
    ASSUME HeldInv, PRanks # {}, NEW t \in Transfers, pReq[t] # "held"
    PROVE  ~Freed(t)
<1>1. PICK p \in PRanks : TRUE
  OBVIOUS
<1>2. Ready(p, t) = {}
  BY DEF HeldInv, StateInv, WorkInv, CommitInv
<1>3. ~Through(p, t)
  BY <1>2 DEF HeldInv, StateInv, WorkInv, ThroughInv
<1> QED BY <1>3 DEF Through, Freed

LEMMA PSchedulerStep ==
    ASSUME HandOffInv, PRanks # {}, PSchedulerNext PROVE [Abstract!Next]_(Abstract!vars)
<1>1. TypeOK
  BY DEF HandOffInv, HeldInv, OwnerInv
<1>2. UNCHANGED <<reports, dVars, copied, torn>>
  BY DEF PSchedulerNext, PSchedule, PFinishCapped, PDrop, workerVars
<1>3. Copies' = Copies /\ Received' = Received
  BY <1>2, ReceivedSame DEF Copies, dVars
<1>4. ASSUME NEW t \in Transfers, PFinishCapped(t) PROVE Abstract!Hold(t)
  <2>1. pReq[t] = "running" /\ pReq'[t] = "held"
        /\ \A u \in Transfers \ {t} : pReq'[u] = pReq[u]
    BY <1>1, <1>4 DEF PFinishCapped, TypeOK, PTypes
  <2>2. ~Freed(t) /\ \A u : Freed(u)' = Freed(u)
    BY <1>2, <2>1, NotFreed DEF HandOffInv, Freed
  <2>3. Stage(t) = "none" /\ Stage(t)' = "held"
        /\ \A u \in Transfers \ {t} : Stage(u)' = Stage(u)
    BY <2>1, <2>2 DEF Stage
  <2>4. Stages' = [Stages EXCEPT ![t] = "held"]
    BY <2>3 DEF Stages
  <2> QED BY <1>3, <2>3, <2>4 DEF Abstract!Hold, Stages
<1>5. ASSUME NEW A \in SUBSET Transfers, PSchedule(A) PROVE UNCHANGED Abstract!vars
  <2>1. \A t \in Transfers : pReq'[t] = pReq[t] \/ (pReq[t] # "held" /\ pReq'[t] # "held")
    BY <1>5 DEF PSchedule
  <2>2. \A t \in Transfers : Stage(t)' = Stage(t)
    BY <1>2, <2>1 DEF Stage, Freed
  <2> QED BY <1>3, <2>2, AbstractStutter
<1>6. ASSUME NEW u \in Transfers, PDrop(u) PROVE UNCHANGED Abstract!vars
  <2>1. \A t \in Transfers : pReq'[t] = pReq[t] \/ (pReq[t] # "held" /\ pReq'[t] # "held")
    BY <1>1, <1>6 DEF PDrop, TypeOK, PTypes
  <2>2. \A t \in Transfers : Stage(t)' = Stage(t)
    BY <1>2, <2>1 DEF Stage, Freed
  <2> QED BY <1>3, <2>2, AbstractStutter
<1> QED BY <1>4, <1>5, <1>6 DEF PSchedulerNext, Abstract!Next

(* The last report of a request frees its blocks.                          *)
LEMMA PWorkerStep ==
    ASSUME HandOffInv, HeldInv', PRanks # {}, NEW p \in PRanks, PWorkerNext(p)
    PROVE  [Abstract!Next]_(Abstract!vars)
<1>1. UNCHANGED <<pReq, dVars, copied, torn>>
  BY DEF PWorkerNext, StartLoadKVProducer, PollFinished, PollExpired, pVars
<1>2. Copies' = Copies /\ Received' = Received
  BY <1>1, ReceivedSame DEF Copies, dVars
<1>3. CASE UNCHANGED reports
  BY <1>1, <1>2, <1>3, StageSame, AbstractStutter
<1>4. ASSUME NEW E \in SUBSET Transfers, PollExpired(p, E) PROVE Abstract!Next
  <2>1. \A q \in PRanks, t \in Transfers : reports[q][t] > 0 => reports'[q][t] > 0
    BY <1>4 DEF PollExpired, HandOffInv, HeldInv, OwnerInv, TypeOK, WorkerTypes
  <2>2. \A t \in Transfers : Freed(t) => Freed(t)'
    BY <2>1 DEF Freed
  <2>3. \A t \in Transfers : pReq[t] # "held" => ~Freed(t)'
    <3>1. ASSUME NEW t \in Transfers, pReq[t] # "held" PROVE ~Freed(t)'
      <4>1. PICK q \in PRanks : TRUE
        OBVIOUS
      <4>2. Ready(q, t)' = {}
        BY <1>1, <3>1 DEF HeldInv, StateInv, WorkInv, CommitInv
      <4>3. ~Through(q, t)'
        BY <4>2 DEF HeldInv, StateInv, WorkInv, ThroughInv
      <4> QED BY <4>3 DEF Through, Freed
    <3> QED BY <3>1
  <2> DEFINE S == {t \in Transfers : Stage(t) = "held" /\ Freed(t)'}
  <2>4. \A t \in Transfers : Stage(t)' = IF t \in S THEN "freed" ELSE Stage(t)
    BY <1>1, <2>2, <2>3 DEF Stage
  <2>5. Stages' = [t \in Transfers |-> IF t \in S THEN "freed" ELSE Stages[t]]
    BY <2>4 DEF Stages
  <2>6. Abstract!Free(S)
    BY <1>2, <2>5 DEF Abstract!Free, Stages
  <2> QED BY <2>6 DEF Abstract!Next
<1> QED BY <1>3, <1>4 DEF PWorkerNext, StartLoadKVProducer, PollFinished

LEMMA SenderStep ==
    ASSUME HandOffInv, NEW j \in pulls, SenderNext(j) PROVE [Abstract!Next]_(Abstract!vars)
<1>1. UNCHANGED <<pReq, reports, dVars>>
  BY DEF SenderNext, SenderStart, SenderReady, SenderTimeout, SenderWrite, SenderFail,
         SenderCommit, SenderPublish, pVars, workerVars
<1>2. Received' = Received /\ \A t \in Transfers : Stage(t)' = Stage(t)
  BY <1>1, ReceivedSame, StageSame DEF dVars
<1>3. CASE SenderWrite(j)
  <2>1. j.p \in PRanks /\ j.d \in DRanks /\ <<j.p, j.d>> \in Pairs /\ j.pc = "write"
        /\ Written(j) \subseteq Transfers
    BY <1>3 DEF SenderWrite, HandOffInv, HeldInv, OwnerInv, StateInv, PullInv, TypeOK,
                PullTypes, Pull, DTargets, Written
  <2>2. \A t \in Written(j) : Stage(t) = "held"
    BY <2>1, WriteHeld DEF HandOffInv, HeldInv, Written, Holding, Stage
  <2>3. Copies' = Copies \cup {<<j.p, j.d, t>> : t \in Written(j)}
    BY <1>3 DEF SenderWrite, Copies
  <2>4. Stages' = Stages
    BY <1>2 DEF Stages
  <2>5. Abstract!Copy(j.p, j.d, Written(j))
    BY <1>2, <2>1, <2>2, <2>3, <2>4 DEF Abstract!Copy, Stages
  <2> QED BY <2>1, <2>5 DEF Abstract!Next
<1>4. CASE ~SenderWrite(j)
  <2>1. Copies' = Copies
    BY <1>4 DEF SenderNext, SenderStart, SenderReady, SenderTimeout, SenderFail,
                SenderCommit, SenderPublish, Copies
  <2> QED BY <1>2, <2>1, AbstractStutter
<1> QED BY <1>3, <1>4

LEMMA DStep ==
    ASSUME HandOffInv, DSchedulerNext \/ \E d \in DRanks : DWorkerNext(d)
    PROVE  UNCHANGED Abstract!vars
<1>1. TypeOK /\ PullInv /\ ReplyInv
  BY DEF HandOffInv, HeldInv, OwnerInv, StateInv
<1>2. UNCHANGED <<pReq, reports, copied, torn>>
  BY DEF DSchedulerNext, DSchedule, DAbort, DWorkerNext, GroupKVPull, FetchFinishedRecving,
         pVars, workerVars
<1>3. Received' = Received
  <2>1. CASE DSchedulerNext
    <3>1. UNCHANGED <<finishedRecv, loaded>>
      BY <2>1 DEF DSchedulerNext, DSchedule, DAbort
    <3>2. \A t \in Transfers : dReq[t] # "absent" => dReq'[t] = dReq[t]
      BY <1>1, <2>1 DEF DSchedulerNext, DSchedule, DAbort, TypeOK, DTypes
    <3>3. \A d \in DRanks : Got(d)' = Got(d)
      BY <1>1, <3>1, <3>2 DEF Got, ReplyInv, AskedInv, TypeOK, DTypes
    <3> QED BY <3>3 DEF Received
  <2>2. ASSUME NEW d \in DRanks, DWorkerNext(d) PROVE Received' = Received
    <3>1. CASE GroupKVPull(d)
      BY <3>1, ReceivedSame DEF GroupKVPull
    <3>2. CASE FetchFinishedRecving(d)
      BY <1>1, <3>2, FetchReply DEF Received
    <3> QED BY <2>2, <3>1, <3>2 DEF DWorkerNext
  <2> QED BY <2>1, <2>2
<1> QED BY <1>2, <1>3, StageSame, AbstractStutter DEF Copies

(* The last reply is a Receive of the requests that have their blocks.     *)
LEMMA ReceiveStep ==
    ASSUME HandOffInv, NEW j \in pulls, ReceiveNext(j)
    PROVE  [Abstract!Next]_(Abstract!vars)
<1>1. TypeOK /\ PullInv /\ ReplyInv
  BY DEF HandOffInv, HeldInv, OwnerInv, StateInv
<1>2. UNCHANGED <<pReq, reports, copied, torn, dReq, loaded>>
  BY DEF ReceiveNext, ReceiveDone, ReceiveError, ReceiveTimeout, pVars, workerVars, dVars
<1>3. Copies' = Copies /\ \A t \in Transfers : Stage(t)' = Stage(t)
  BY <1>2, StageSame DEF Copies
<1>4. CASE ReceiveDone(j)
  <2> DEFINE S == {t \in LastReply(j) : dReq[t] = "blocks"}
  <2>1. j.d \in DRanks /\ j.reqs \subseteq Transfers /\ S \subseteq Transfers
    BY <1>1 DEF TypeOK, PullTypes, Pull, LastReply
  <2>2. \A t \in S, p \in PRanks : <<p, j.d>> \in Pairs => <<p, j.d, t>> \in Copies
    BY <1>1, <1>4, LastCopied DEF PTargets
  <2>3. \A e \in DRanks : finishedRecv'[e] =
           finishedRecv[e] \cup (IF e = j.d THEN LastReply(j) ELSE {})
    BY <1>1, <1>4 DEF ReceiveDone, TypeOK, DTypes
  <2>4. \A e \in DRanks : Got(e)' = Got(e) \cup (IF e = j.d THEN S ELSE {})
    BY <1>2, <2>3 DEF Got
  <2>5. Received' = Received \cup {<<j.d, t>> : t \in S}
    BY <2>1, <2>4 DEF Received
  <2>6. Stages' = Stages
    BY <1>3 DEF Stages
  <2>7. Abstract!Receive(j.d, S)
    BY <1>3, <2>2, <2>5, <2>6 DEF Abstract!Receive, Stages
  <2> QED BY <2>1, <2>7 DEF Abstract!Next
<1>5. CASE ReceiveError(j) \/ ReceiveTimeout(j)
  <2>1. UNCHANGED <<finishedRecv, loaded, dReq>>
    BY <1>5 DEF ReceiveError, ReceiveTimeout, dVars
  <2> QED BY <1>3, <2>1, ReceivedSame, AbstractStutter
<1> QED BY <1>4, <1>5 DEF ReceiveNext

(* With at least one P rank, and no write that outlasts the timer, the     *)
(* connector keeps the promise of KVHandoff through every interleaving and *)
(* every failure it is modelled with.                                      *)
THEOREM ImplementsHandOff ==
    ASSUME "slow" \notin Faults, PRanks # {} PROVE Spec => HandOff
<1>1. Init => HandOffInv
  BY HeldInit, ReplyInit DEF HandOffInv
<1>2. HandOffInv /\ [Next]_vars => HandOffInv'
  BY HeldStep, ReplyStep DEF HandOffInv
<1>3. Init => Abstract!Init
  <2> SUFFICES ASSUME Init PROVE Abstract!Init
    OBVIOUS
  <2>1. \A t \in Transfers : Stage(t) = "none"
    BY DEF Init, Stage
  <2>2. Copies = {} /\ Received = {}
    BY DEF Init, Copies, Received, Got
  <2> QED BY <2>1, <2>2 DEF Abstract!Init
<1>4. HandOffInv /\ HandOffInv' /\ [Next]_vars => [Abstract!Next]_(Abstract!vars)
  <2> SUFFICES ASSUME HandOffInv, HandOffInv', [Next]_vars
               PROVE  [Abstract!Next]_(Abstract!vars)
    OBVIOUS
  <2>1. CASE UNCHANGED vars
    <3>1. UNCHANGED <<pReq, reports, finishedRecv, loaded, dReq, copied, torn>>
      BY <2>1 DEF vars, pVars, workerVars, dVars
    <3> QED BY <3>1, StageSame, ReceivedSame, AbstractStutter DEF Copies
  <2> QED
    BY <2>1, PSchedulerStep, PWorkerStep, SenderStep, DStep, ReceiveStep
       DEF Next, HandOffInv
<1> QED BY <1>1, <1>2, <1>3, <1>4, PTL DEF Spec, HandOff, Abstract!Spec

-----------------------------------------------------------------------------
(***************************************************************************)
(* Part 4: every unit of KV is there when a rank says so.                  *)
(***************************************************************************)

(* The D ranks that are through with p and have t's copy from it.          *)
Answered(p, t) == {d \in DTargets(p) \ Left(p, t) : <<p, d, t>> \in Copies}
Copying(t) == dReq[t] \in {"absent", "blocks"}

(* No entry counts more ranks than have a copy; a transfer that some rank  *)
(* of P is through with, or that D has received, is copied to every rank   *)
(* that the one in question has to serve or to hear from.                  *)
SentInv == \A p \in PRanks, t \in Transfers : Copying(t) =>
    \A k \in Index(p, t) : objs[p][t][k].sent <= Cardinality(Answered(p, t))
Served(p, t) == t \in finishedSend[p] \cup polled[p].fin
                  \/ \E j \in pulls : Publishing(j, p, t)
ServedInv == \A p \in PRanks, t \in Transfers :
    Copying(t) /\ Served(p, t) => \A d \in DTargets(p) : <<p, d, t>> \in Copies
ReceivedInv == \A d \in DRanks : \A t \in Got(d) :
    \A p \in PTargets(d) : <<p, d, t>> \in Copies
PairsInv == \A x \in Copies : x[2] \in DTargets(x[1])
CopyInv == SentInv /\ ServedInv /\ ReceivedInv /\ PairsInv
WholeInv == HandOffInv /\ CopyInv

LEMMA HandOffFacts ==
    HandOffInv => TypeOK /\ OwnerInv /\ StateInv /\ PullInv /\ ReplyInv
BY DEF HandOffInv, HeldInv, OwnerInv, StateInv

(* Nobody comes back to those that are left.                               *)
LEMMA LeftShrinks ==
    ASSUME TypeOK, StateInv, [Next]_vars, NEW q \in PRanks, NEW t \in Transfers
    PROVE  Left(q, t)' \subseteq Left(q, t)
<1>1. ASSUME UNCHANGED <<dReq, needRecv, dInbox>>,
             \A x \in pulls' : x.pc \in Before =>
                \E y \in pulls : SamePull(x, y) /\ y.pc \in Before
      PROVE  Left(q, t)' \subseteq Left(q, t)
  BY <1>1, LeftFewer
<1>2. CASE PSchedulerNext \/ \E p \in PRanks : PWorkerNext(p)
  <2>1. UNCHANGED <<dVars, pulls>>
    BY <1>2 DEF PSchedulerNext, PSchedule, PFinishCapped, PDrop, PWorkerNext,
                StartLoadKVProducer, PollFinished, PollExpired
  <2> QED BY <1>1, <2>1 DEF SamePull, dVars
<1>3. CASE DSchedulerNext
  <2>1. pulls' = pulls
    BY <1>3 DEF DSchedulerNext, DSchedule, DAbort
  <2>2. ASSUME NEW d \in DRanks, Waits(d, t)' PROVE Waits(d, t) \/ dReq[t] = "absent"
    <3>1. ASSUME NEW B \in SUBSET Transfers, NEW kind \in [B -> Kinds], DSchedule(B, kind)
          PROVE  Waits(d, t) \/ dReq[t] = "absent"
      <4>1. /\ dInbox'[d] = Append(dInbox[d], B \cup needRecv) /\ needRecv' = {}
            /\ dInbox[d] \in Seq(SUBSET Transfers) /\ B \cup needRecv \in SUBSET Transfers
            /\ \A u \in B : dReq[u] = "absent"
        BY <3>1 DEF DSchedule, TypeOK, DTypes
      <4>2. PICK i \in 1 .. Len(dInbox'[d]) : t \in dInbox'[d][i]
        BY <2>2, <4>1 DEF Waits
      <4>3. \/ i \in 1 .. Len(dInbox[d]) /\ dInbox'[d][i] = dInbox[d][i]
            \/ dInbox'[d][i] = B \cup needRecv
        BY <4>1
      <4> QED BY <4>1, <4>2, <4>3 DEF Waits
    <3>2. ASSUME NEW u \in Transfers, DAbort(u) PROVE Waits(d, t) \/ dReq[t] = "absent"
      BY <2>2, <3>2 DEF DAbort, Waits
    <3> QED BY <1>3, <3>1, <3>2 DEF DSchedulerNext
  <2>3. dReq'[t] = "absent" => dReq[t] = "absent"
    BY <1>3, TransferAssumption DEF DSchedulerNext, DSchedule, DAbort, TypeOK, DTypes
  <2> QED BY <2>1, <2>2, <2>3 DEF Left, DTargets
<1>4. ASSUME NEW d \in DRanks, DWorkerNext(d) PROVE Left(q, t)' \subseteq Left(q, t)
  <2>1. CASE GroupKVPull(d)
    <3> DEFINE S == Head(dInbox[d])
    <3>1. /\ UNCHANGED <<dReq, needRecv>>
          /\ pulls' = pulls \cup {NewPull(p, d, S) : p \in PTargets(d)}
          /\ \A p : LET n == NewPull(p, d, S) IN n.d = d /\ n.reqs = S
      BY <2>1 DEF GroupKVPull, NewPull
    <3>2. /\ dInbox[d] \in Seq(SUBSET Transfers) /\ dInbox[d] # <<>>
          /\ dInbox'[d] = Tail(dInbox[d])
          /\ \A e \in DRanks : e # d => dInbox'[e] = dInbox[e]
      BY <2>1 DEF GroupKVPull, TypeOK, DTypes
    <3>3. S = dInbox[d][1] /\ 1 \in 1 .. Len(dInbox[d])
      BY <3>2
    <3>4. \A i \in 1 .. Len(dInbox'[d]) :
             i + 1 \in 1 .. Len(dInbox[d]) /\ dInbox'[d][i] = dInbox[d][i + 1]
      BY <3>2
    <3> HIDE DEF S
    <3>5. ASSUME NEW e \in DRanks, Waits(e, t)' PROVE Waits(e, t)
      BY ZenonT(40), <3>1, <3>2, <3>4, <3>5 DEF Waits
    <3>6. \A x \in pulls' : x \in pulls \/ (x.d = d /\ x.reqs = S)
      BY <3>1
    <3>7. t \in S => Waits(d, t)
      BY <3>3 DEF Waits
    <3> QED BY <3>1, <3>5, <3>6, <3>7 DEF Left, DTargets
  <2>2. CASE FetchFinishedRecving(d)
    BY <1>1, <2>2 DEF FetchFinishedRecving, SamePull
  <2> QED BY <1>4, <2>1, <2>2 DEF DWorkerNext
<1>5. ASSUME NEW j \in pulls, SenderNext(j) \/ ReceiveNext(j)
      PROVE  Left(q, t)' \subseteq Left(q, t)
  <2>1. j \in Pull /\ UNCHANGED <<dReq, needRecv, dInbox>>
    BY <1>5 DEF TypeOK, PullTypes, SenderNext, SenderStart, SenderReady, SenderTimeout,
       SenderWrite, SenderFail, SenderCommit, SenderPublish, ReceiveNext, ReceiveDone,
       ReceiveError, ReceiveTimeout, dVars
  <2>2. \A x \in pulls' : x.pc \in Before =>
           \E y \in pulls : SamePull(x, y) /\ y.pc \in Before
    <3>1. CASE SenderStart(j)
      <4>1. PICK r : Become(j, [j EXCEPT !.pc = "wait", !.ref = r]) /\ j.pc = "queued"
        BY <3>1 DEF SenderStart
      <4> DEFINE k == [j EXCEPT !.pc = "wait", !.ref = r]
      <4>2. SamePull(k, j)
        BY <2>1 DEF SamePull, Pull
      <4> QED BY <4>1, <4>2 DEF Become, Before, SamePull
    <3>2. CASE \/ SenderReady(j) \/ SenderTimeout(j) \/ SenderWrite(j) \/ SenderFail(j)
               \/ SenderPublish(j)
      <4>1. PICK pc \in JobPCs :
               Become(j, [j EXCEPT !.pc = pc]) /\ (pc \in Before => j.pc \in Before)
        BY <3>2 DEF SenderReady, SenderTimeout, SenderWrite, SenderFail, SenderPublish,
                    JobPCs, Before
      <4> DEFINE k == [j EXCEPT !.pc = pc]
      <4>2. SamePull(k, j) /\ k.pc = pc
        BY <2>1 DEF SamePull, Pull
      <4> QED BY <4>1, <4>2 DEF Become, SamePull
    <3>3. CASE SenderCommit(j)
      <4> DEFINE k == [j EXCEPT !.pc = "publish", !.fin = Completed(j)]
      <4>1. k.pc = "publish"
        <5> HIDE DEF Completed
        <5> QED BY <2>1 DEF Pull
      <4>2. Become(j, k)
        BY <3>3 DEF SenderCommit
      <4> QED BY <4>1, <4>2 DEF Become, SamePull, Before
    <3>4. CASE ReceiveTimeout(j)
      <4> DEFINE k == [j EXCEPT !.open = FALSE]
      <4>1. SamePull(k, j) /\ k.pc = j.pc
        BY <2>1 DEF SamePull, Pull
      <4> QED BY <3>4, <4>1 DEF ReceiveTimeout, Become, SamePull
    <3>5. CASE ReceiveDone(j) \/ ReceiveError(j)
      BY <3>5 DEF ReceiveDone, ReceiveError, SamePull
    <3> QED BY <1>5, <3>1, <3>2, <3>3, <3>4, <3>5 DEF SenderNext, ReceiveNext
  <2> QED BY <1>1, <2>1, <2>2
<1>6. CASE UNCHANGED vars
  BY <1>1, <1>6 DEF vars, dVars, SamePull
<1> QED BY <1>2, <1>3, <1>4, <1>5, <1>6 DEF Next

LEMMA CopiesGrow == ASSUME [Next]_vars PROVE Copies \subseteq Copies'
BY ZenonT(40) DEF Next, vars, PSchedulerNext, PSchedule, PFinishCapped, PDrop, PWorkerNext,
   StartLoadKVProducer, PollFinished, PollExpired, DSchedulerNext, DSchedule, DAbort,
   DWorkerNext, GroupKVPull, FetchFinishedRecving, SenderNext, SenderStart, SenderReady,
   SenderTimeout, SenderWrite, SenderFail, SenderCommit, SenderPublish, ReceiveNext,
   ReceiveDone, ReceiveError, ReceiveTimeout, Copies

LEMMA CopyingKept ==
    ASSUME TypeOK, [Next]_vars, NEW t \in Transfers, Copying(t)' PROVE Copying(t)
<1>1. CASE DSchedulerNext
  BY <1>1 DEF DSchedulerNext, DSchedule, DAbort, Copying, TypeOK, DTypes
<1>2. CASE ~DSchedulerNext
  <2>1. dReq' = dReq
    BY <1>2 DEF Next, vars, PSchedulerNext, PSchedule, PFinishCapped, PDrop, PWorkerNext,
       StartLoadKVProducer, PollFinished, PollExpired, DWorkerNext, GroupKVPull,
       FetchFinishedRecving, SenderNext, SenderStart, SenderReady, SenderTimeout,
       SenderWrite, SenderFail, SenderCommit, SenderPublish, ReceiveNext, ReceiveDone,
       ReceiveError, ReceiveTimeout, dVars
  <2> QED BY <2>1 DEF Copying
<1> QED BY <1>1, <1>2

(* The ranks that are answered only become more.                           *)
LEMMA AnsweredGrows ==
    ASSUME TypeOK, StateInv, [Next]_vars, NEW p \in PRanks, NEW t \in Transfers
    PROVE  /\ Answered(p, t) \subseteq Answered(p, t)'
           /\ Cardinality(Answered(p, t)) \in Nat /\ Cardinality(Answered(p, t)') \in Nat
           /\ Cardinality(Answered(p, t)) <= Cardinality(Answered(p, t)')
<1>1. Left(p, t)' \subseteq Left(p, t) /\ Copies \subseteq Copies'
  BY LeftShrinks, CopiesGrow
<1>2. Answered(p, t) \subseteq Answered(p, t)'
  BY <1>1 DEF Answered, DTargets
<1>3. IsFiniteSet(DTargets(p)) /\ Answered(p, t)' \subseteq DTargets(p)
  BY TransferAssumption, FS_Subset DEF DTargets, Answered
<1>4. IsFiniteSet(Answered(p, t)') /\ IsFiniteSet(Answered(p, t))
  BY <1>2, <1>3, FS_Subset
<1> QED BY <1>2, <1>4, FS_Subset, FS_CardinalityType

(* An entry is new and counts nobody, or it counts whom it counted; only a *)
(* commit counts one more.                                                 *)
SentKept(p, t) == \A k \in Index(p, t)' :
    \/ objs'[p][t][k].sent = 0
    \/ k \in Index(p, t) /\ objs'[p][t][k].sent = objs[p][t][k].sent

LEMMA EntriesKeepCount ==
    ASSUME TypeOK, StateInv, [Next]_vars, NEW p \in PRanks, NEW t \in Transfers
    PROVE  \/ SentKept(p, t)
           \/ \E j \in pulls : SenderCommit(j) /\ p = j.p /\ t \in j.reqs
<1>1. ASSUME Grows(p, t) PROVE SentKept(p, t)
  BY <1>1 DEF Grows, SentKept
<1>2. ASSUME objs' = objs PROVE SentKept(p, t)
  BY <1>2 DEF SentKept, Index
<1>3. CASE PSchedulerNext \/ DSchedulerNext \/ UNCHANGED vars \/ \E d \in DRanks : DWorkerNext(d)
  BY <1>2, <1>3 DEF PSchedulerNext, PSchedule, PFinishCapped, PDrop, DSchedulerNext,
     DSchedule, DAbort, vars, DWorkerNext, GroupKVPull, FetchFinishedRecving, workerVars
<1>4. ASSUME NEW q \in PRanks, PWorkerNext(q) PROVE SentKept(p, t)
  <2>1. CASE StartLoadKVProducer(q)
    BY <1>1, <2>1, StartLoadEffect
  <2>2. CASE ~StartLoadKVProducer(q)
    BY <1>2, <1>4, <2>2 DEF PWorkerNext, PollFinished, PollExpired
  <2> QED BY <2>1, <2>2
<1>5. ASSUME NEW j \in pulls, SenderNext(j) \/ ReceiveNext(j)
      PROVE  SentKept(p, t) \/ (SenderCommit(j) /\ p = j.p /\ t \in j.reqs)
  <2>1. CASE SenderStart(j)
    BY <1>1, <2>1, SenderStartEffect
  <2>2. CASE SenderCommit(j) /\ ~(p = j.p /\ t \in j.reqs)
    BY <2>2, SenderCommitEffect DEF SentKept
  <2>3. CASE ~SenderStart(j) /\ ~SenderCommit(j)
    <3>1. objs' = objs
      BY <1>5, <2>3 DEF SenderNext, SenderReady, SenderTimeout, SenderWrite, SenderFail,
         SenderPublish, ReceiveNext, ReceiveDone, ReceiveError, ReceiveTimeout, workerVars
    <3> QED BY <1>2, <3>1
  <2> QED BY <2>1, <2>2, <2>3
<1> QED BY <1>3, <1>4, <1>5 DEF Next

(* The commit of a copy answers one rank more.                             *)
LEMMA CommitAnswers ==
    ASSUME HandOffInv, CopyInv, NEW j \in pulls, SenderCommit(j), NEW t \in j.reqs, Copying(t)
    PROVE  /\ <<j.p, j.d, t>> \in Copies /\ j.p \in PRanks /\ t \in Transfers
           /\ j.d \in DTargets(j.p) /\ j.d \notin Answered(j.p, t)
           /\ Answered(j.p, t) \cup {j.d} \subseteq Answered(j.p, t)'
<1>1. /\ TypeOK /\ StateInv /\ ReplyInv /\ j.pc = "commit"
      /\ j.p \in PRanks /\ t \in Transfers /\ j.d \in DTargets(j.p)
  BY HandOffFacts DEF SenderCommit, TypeOK, PullTypes, Pull, StateInv, PullInv
<1>2. dReq[t] = "blocks"
  BY <1>1 DEF Copying, StateInv, PullInv
<1>3. <<j.p, j.d, t>> \in Copies
  BY SMTT(30), <1>1, <1>2 DEF ReplyInv, WrittenInv, Written
<1>4. /\ j.d \in Left(j.p, t) /\ Left(j.p, t)' \subseteq Left(j.p, t) \ {j.d}
      /\ Copies' = Copies
  BY <1>1, CommitLeft DEF SenderCommit, Copies
<1> QED BY <1>1, <1>3, <1>4 DEF Answered, DTargets

LEMMA SentStep == ASSUME HandOffInv, CopyInv, [Next]_vars PROVE SentInv'
<1> SUFFICES ASSUME NEW p \in PRanks, NEW t \in Transfers, Copying(t)', NEW k \in Index(p, t)'
             PROVE  objs'[p][t][k].sent <= Cardinality(Answered(p, t)')
  BY DEF SentInv
<1>1. TypeOK /\ StateInv /\ Copying(t)
  BY HandOffFacts, CopyingKept
<1>2. /\ Cardinality(Answered(p, t)) \in Nat /\ Cardinality(Answered(p, t)') \in Nat
      /\ Cardinality(Answered(p, t)) <= Cardinality(Answered(p, t)')
  BY <1>1, AnsweredGrows
<1>3. \A i \in Index(p, t) : /\ objs[p][t][i].sent \in Nat
                             /\ objs[p][t][i].sent <= Cardinality(Answered(p, t))
  <2>1. ASSUME NEW i \in Index(p, t) PROVE objs[p][t][i].sent \in Nat
    <3>1. objs[p][t] \in Seq(SendBlockMeta) /\ i \in 1 .. Len(objs[p][t])
      BY <1>1, EntriesType DEF TypeOK, Index
    <3>2. objs[p][t][i] \in SendBlockMeta
      BY <3>1
    <3> QED BY <3>2 DEF SendBlockMeta
  <2> QED BY <1>1, <2>1 DEF CopyInv, SentInv
<1>4. CASE SentKept(p, t)
  BY <1>2, <1>3, <1>4 DEF SentKept
<1>5. ASSUME NEW j \in pulls, SenderCommit(j), p = j.p, t \in j.reqs
      PROVE  objs'[p][t][k].sent <= Cardinality(Answered(p, t)')
  <2>1. /\ j.d \notin Answered(p, t) /\ Answered(p, t) \cup {j.d} \subseteq Answered(p, t)'
    BY <1>1, <1>5, CommitAnswers
  <2>2. IsFiniteSet(Answered(p, t)')
    <3>1. IsFiniteSet(DTargets(p)) /\ Answered(p, t)' \subseteq DTargets(p)
      BY TransferAssumption, FS_Subset DEF DTargets, Answered
    <3> QED BY <3>1, FS_Subset
  <2>3. IsFiniteSet(Answered(p, t))
    BY <2>1, <2>2, FS_Subset
  <2>4. Cardinality(Answered(p, t) \cup {j.d}) = Cardinality(Answered(p, t)) + 1
    BY <2>1, <2>3, FS_AddElement
  <2>5. Cardinality(Answered(p, t) \cup {j.d}) <= Cardinality(Answered(p, t)')
    BY <2>1, <2>2, FS_Subset
  <2>6. /\ k \in Index(p, t)
        /\ \/ objs'[p][t][k].sent = objs[p][t][k].sent
           \/ objs'[p][t][k].sent = objs[p][t][k].sent + 1
    BY <1>1, <1>5, SenderCommitEffect
  <2> QED BY <1>2, <1>3, <2>4, <2>5, <2>6
<1> QED BY <1>1, <1>4, <1>5, EntriesKeepCount

LEMMA ServedStep == ASSUME HandOffInv, CopyInv, [Next]_vars PROVE ServedInv'
<1> SUFFICES ASSUME NEW p \in PRanks, NEW t \in Transfers, Copying(t)', Served(p, t)',
                    NEW d \in DTargets(p)
             PROVE  <<p, d, t>> \in Copies'
  BY DEF ServedInv, DTargets
<1>1. TypeOK /\ OwnerInv /\ StateInv /\ Copying(t) /\ Copies \subseteq Copies'
  BY HandOffFacts, CopyingKept, CopiesGrow
<1>2. CASE Served(p, t)
  BY <1>1, <1>2 DEF CopyInv, ServedInv
<1>3. ASSUME UNCHANGED <<finishedSend, polled>>,
             \A x \in pulls' : x.pc = "publish" => x \in pulls
      PROVE  Served(p, t)
  BY <1>3 DEF Served, Publishing
<1>4. CASE PSchedulerNext \/ DSchedulerNext \/ UNCHANGED vars
  BY <1>2, <1>3, <1>4 DEF PSchedulerNext, PSchedule, PFinishCapped, PDrop, DSchedulerNext,
     DSchedule, DAbort, vars, workerVars
<1>5. ASSUME NEW q \in PRanks, PWorkerNext(q) PROVE <<p, d, t>> \in Copies'
  <2>1. pulls' = pulls
    BY <1>5 DEF PWorkerNext, StartLoadKVProducer, PollFinished, PollExpired
  <2>2. finishedSend'[p] \cup polled'[p].fin \subseteq finishedSend[p] \cup polled[p].fin
    <3>1. CASE StartLoadKVProducer(q)
      BY <3>1 DEF StartLoadKVProducer
    <3>2. CASE PollFinished(q)
      BY <1>1, <3>2 DEF PollFinished, TypeOK, WorkerTypes
    <3>3. ASSUME NEW E \in SUBSET Transfers, PollExpired(q, E)
          PROVE  finishedSend'[p] \cup polled'[p].fin \subseteq finishedSend[p] \cup polled[p].fin
      <4>1. finishedSend' = finishedSend /\ polled' = [polled EXCEPT ![q] = NotPolling]
        BY <3>3 DEF PollExpired
      <4>2. NotPolling.fin = {}
        BY DEF NotPolling
      <4> QED BY <1>1, <4>1, <4>2 DEF TypeOK, WorkerTypes
    <3> QED BY <1>5, <3>1, <3>2, <3>3 DEF PWorkerNext
  <2> QED BY <1>2, <2>1, <2>2 DEF Served, Publishing
<1>6. ASSUME NEW e \in DRanks, DWorkerNext(e) PROVE <<p, d, t>> \in Copies'
  BY <1>2, <1>3, <1>6 DEF DWorkerNext, GroupKVPull, FetchFinishedRecving, workerVars, NewPull
<1>7. ASSUME NEW j \in pulls, SenderNext(j) \/ ReceiveNext(j) PROVE <<p, d, t>> \in Copies'
  <2>1. j \in Pull /\ j.p \in PRanks /\ j.reqs \subseteq Transfers
    BY <1>1 DEF TypeOK, PullTypes, Pull
  <2>2. CASE SenderStart(j) \/ SenderReady(j) \/ SenderTimeout(j) \/ SenderWrite(j)
               \/ SenderFail(j) \/ ReceiveDone(j) \/ ReceiveError(j) \/ ReceiveTimeout(j)
    <3>1. UNCHANGED <<finishedSend, polled>>
      BY <2>2 DEF SenderStart, SenderReady, SenderTimeout, SenderWrite, SenderFail,
         ReceiveDone, ReceiveError, ReceiveTimeout, workerVars
    <3>2. ASSUME NEW x \in pulls', x.pc = "publish", x \notin pulls PROVE Served(p, t)
      <4>1. ReceiveTimeout(j) /\ x = [j EXCEPT !.open = FALSE]
        <5>1. ~SenderStart(j)
          <6> SUFFICES ASSUME SenderStart(j) PROVE FALSE
            OBVIOUS
          <6>1. PICK r : Become(j, [j EXCEPT !.pc = "wait", !.ref = r])
            BY DEF SenderStart
          <6> QED BY <2>1, <3>2, <6>1 DEF Become, Pull
        <5> QED BY <2>1, <2>2, <3>2, <5>1 DEF SenderReady, SenderTimeout, SenderWrite,
             SenderFail, ReceiveDone, ReceiveError, ReceiveTimeout, Become, Pull
      <4>2. x.p = j.p /\ x.fin = j.fin /\ j.pc = "publish"
        BY <2>1, <3>2, <4>1 DEF Pull
      <4>3. \A y \in pulls' : y \in pulls \/ y = x
        BY <4>1 DEF ReceiveTimeout, Become
      <4> QED BY <3>1, <4>2, <4>3 DEF Served, Publishing
    <3> QED BY SMTT(30), <1>2, <1>3, <3>1, <3>2
  <2>3. CASE SenderPublish(j)
    <3>1. /\ polled' = polled /\ j.pc = "publish"
          /\ finishedSend'[p] \subseteq finishedSend[p] \cup (IF p = j.p THEN j.fin ELSE {})
      BY <1>1, <2>3 DEF SenderPublish, TypeOK, WorkerTypes
    <3>2. \A x \in pulls' : x.pc = "publish" => x \in pulls
      BY <2>1, <2>3 DEF SenderPublish, Become, Pull
    <3> QED BY <1>2, <3>1, <3>2 DEF Served, Publishing
  <2>4. CASE SenderCommit(j)
    <3> DEFINE k == [j EXCEPT !.pc = "publish", !.fin = Completed(j)]
    <3>1. k.p = j.p /\ k.fin = Completed(j)
      <4> HIDE DEF Completed
      <4> QED BY <2>1 DEF Pull
    <3>2. UNCHANGED <<finishedSend, polled>> /\ \A x \in pulls' : x \in pulls \/ x = k
      BY <2>4 DEF SenderCommit, Become
    <3>3. Served(p, t) \/ (p = j.p /\ t \in Completed(j))
      <4> HIDE DEF k
      <4> QED BY <3>1, <3>2 DEF Served, Publishing
    <3>4. ASSUME p = j.p, t \in Completed(j) PROVE <<p, d, t>> \in Copies
      <4>1. t \in j.reqs
        BY <3>4 DEF Completed
      <4>2. /\ <<j.p, j.d, t>> \in Copies /\ j.d \in DTargets(p)
            /\ j.d \notin Answered(p, t)
        BY <1>1, <2>4, <3>4, <4>1, CommitAnswers
      <4>3. j.ref[t] \in Index(p, t) /\ Obj(j, t).sent \in Nat
        BY <1>1, <2>4, <3>4, <4>1, ObjType DEF TypeOK, Index, SendBlockMeta, SenderCommit
      <4>4. Obj(j, t).sent <= Cardinality(Answered(p, t))
        BY <1>1, <3>4, <4>3 DEF CopyInv, SentInv, Obj
      <4>5. Obj(j, t).need = Cardinality(DTargets(p))
        BY <2>4, <3>4, <4>1, <1>1 DEF StateInv, WorkInv, UseInv, Using, SenderCommit
      <4>6. /\ IsFiniteSet(DTargets(p)) /\ Cardinality(DTargets(p)) \in Nat
            /\ IsFiniteSet(DTargets(p) \ {j.d})
            /\ Cardinality(DTargets(p) \ {j.d}) = Cardinality(DTargets(p)) - 1
        <5>1. IsFiniteSet(DTargets(p))
          BY TransferAssumption, FS_Subset DEF DTargets
        <5> QED BY <4>2, <5>1, FS_RemoveElement, FS_CardinalityType
      <4>7. Answered(p, t) \subseteq DTargets(p) \ {j.d}
        BY <4>2 DEF Answered
      <4>8. /\ Cardinality(Answered(p, t)) \in Nat
            /\ Cardinality(Answered(p, t)) <= Cardinality(DTargets(p)) - 1
        BY <4>6, <4>7, FS_Subset, FS_CardinalityType
      <4>9. Obj(j, t).sent + 1 >= Cardinality(DTargets(p))
        <5>1. Obj(j, t).sent + 1 >= AtLeastOne(Cardinality(DTargets(p)))
          BY <3>4, <4>5 DEF Completed
        <5> QED BY <4>3, <4>6, <5>1 DEF AtLeastOne
      <4>10. Cardinality(Answered(p, t)) = Cardinality(DTargets(p) \ {j.d})
        BY <4>3, <4>4, <4>6, <4>8, <4>9
      <4>11. Answered(p, t) = DTargets(p) \ {j.d}
        BY <4>6, <4>7, <4>10, FS_Subset
      <4> QED BY <3>4, <4>2, <4>11 DEF Answered
    <3> QED BY <1>1, <1>2, <3>3, <3>4
  <2> QED BY <1>7, <2>2, <2>3, <2>4 DEF SenderNext, ReceiveNext
<1> QED BY <1>4, <1>5, <1>6, <1>7 DEF Next

LEMMA ReceivedStep == ASSUME HandOffInv, CopyInv, [Next]_vars PROVE ReceivedInv'
<1> SUFFICES ASSUME NEW d \in DRanks, NEW t \in Got(d)', NEW p \in PTargets(d)
             PROVE  <<p, d, t>> \in Copies'
  BY DEF ReceivedInv, PTargets
<1>1. TypeOK /\ PullInv /\ ReplyInv /\ Copies \subseteq Copies'
  BY HandOffFacts, CopiesGrow
<1>2. CASE t \in Got(d)
  BY <1>1, <1>2 DEF CopyInv, ReceivedInv
<1>3. ASSUME NEW j \in pulls, ReceiveDone(j) PROVE <<p, d, t>> \in Copies'
  <2>1. /\ dReq' = dReq /\ loaded' = loaded
        /\ \A e \in DRanks : finishedRecv'[e] =
              IF e = j.d THEN finishedRecv[e] \cup LastReply(j) ELSE finishedRecv[e]
    BY <1>1, <1>3 DEF ReceiveDone, TypeOK, DTypes
  <2>2. dReq[t] = "blocks" /\ (t \in Got(d) \/ (d = j.d /\ t \in LastReply(j)))
    BY <2>1 DEF Got
  <2>3. CASE d = j.d /\ t \in LastReply(j)
    BY <1>1, <1>3, <2>2, <2>3, LastCopied
  <2> QED BY <1>2, <2>2, <2>3
<1>4. CASE ~\E j \in pulls : ReceiveDone(j)
  <2>1. finishedRecv'[d] \cup loaded'[d] = finishedRecv[d] \cup loaded[d]
    <3>1. CASE \E e \in DRanks : FetchFinishedRecving(e)
      BY <1>1, <3>1 DEF FetchFinishedRecving, TypeOK, DTypes
    <3>2. CASE ~\E e \in DRanks : FetchFinishedRecving(e)
      <4>1. UNCHANGED <<finishedRecv, loaded>>
        BY <1>4, <3>2 DEF Next, vars, PSchedulerNext, PSchedule, PFinishCapped, PDrop, PWorkerNext,
       StartLoadKVProducer, PollFinished, PollExpired, DSchedulerNext, DSchedule, DAbort,
           DWorkerNext, GroupKVPull, SenderNext, SenderStart, SenderReady, SenderTimeout,
           SenderWrite, SenderFail, SenderCommit, SenderPublish, ReceiveNext, ReceiveError,
           ReceiveTimeout, dVars
      <4> QED BY SMTT(30), <4>1
    <3> QED BY <3>1, <3>2
  <2>2. t \in Transfers /\ dReq'[t] = "blocks" /\ t \in finishedRecv[d] \cup loaded[d]
    BY <1>1, <2>1 DEF Got, TypeOK, DTypes
  <2>3. dReq[t] # "absent"
    BY <1>1, <2>2 DEF ReplyInv, AskedInv
  <2>4. Copying(t)
    BY <1>1, <2>2, CopyingKept DEF Copying
  <2> QED BY <1>2, <2>2, <2>3, <2>4 DEF Got, Copying
<1> QED BY <1>3, <1>4

LEMMA PairsStep == ASSUME HandOffInv, CopyInv, [Next]_vars PROVE PairsInv'
<1>1. TypeOK /\ PullInv /\ PairsInv
  BY HandOffFacts DEF CopyInv
<1>2. ASSUME NEW j \in pulls, SenderWrite(j) PROVE PairsInv'
  <2>1. \A x \in Copies' : x \in Copies \/ x \in {<<j.p, j.d, t>> : t \in Written(j)}
    BY <1>2 DEF SenderWrite, Copies
  <2>2. j.d \in DTargets(j.p)
    BY <1>1 DEF PullInv
  <2> SUFFICES ASSUME NEW x \in Copies' PROVE x[2] \in DTargets(x[1])
    BY DEF PairsInv, DTargets
  <2>3. CASE x \in Copies
    BY <1>1, <2>3 DEF PairsInv
  <2>4. ASSUME NEW t, x = <<j.p, j.d, t>> PROVE x[2] \in DTargets(x[1])
    BY <2>2, <2>4
  <2> QED BY <2>1, <2>3, <2>4
<1>3. CASE ~\E j \in pulls : SenderWrite(j)
  <2>1. Copies' = Copies
    BY <1>3 DEF Next, vars, PSchedulerNext, PSchedule, PFinishCapped, PDrop, PWorkerNext,
       StartLoadKVProducer, PollFinished, PollExpired, DSchedulerNext, DSchedule, DAbort,
       DWorkerNext, GroupKVPull, FetchFinishedRecving, SenderNext, SenderStart, SenderReady,
       SenderTimeout, SenderFail, SenderCommit, SenderPublish, ReceiveNext,
       ReceiveDone, ReceiveError, ReceiveTimeout, Copies
  <2> QED BY ZenonT(40), <1>1, <2>1 DEF PairsInv, DTargets
<1> QED BY <1>2, <1>3

LEMMA WholeStep == ASSUME "slow" \notin Faults PROVE WholeInv /\ [Next]_vars => WholeInv'
<1> SUFFICES ASSUME WholeInv, [Next]_vars PROVE WholeInv'
  OBVIOUS
<1>1. HandOffInv'
  BY HeldStep, ReplyStep DEF WholeInv, HandOffInv
<1> QED BY <1>1, SentStep, ServedStep, ReceivedStep, PairsStep DEF WholeInv, CopyInv

LEMMA WholeInit == Init => WholeInv
<1> SUFFICES ASSUME Init PROVE WholeInv
  OBVIOUS
<1>1. HandOffInv
  BY HeldInit, ReplyInit DEF HandOffInv
<1>2. SentInv /\ ServedInv /\ ReceivedInv /\ PairsInv
  BY DEF Init, SentInv, ServedInv, ReceivedInv, PairsInv, Index, Served, Publishing, Got,
         Copies, NotPolling
<1> QED BY <1>1, <1>2 DEF WholeInv, CopyInv

(* Whom a D rank has heard from when it has heard from all.                *)
LEMMA AllWrote ==
    ASSUME WholeInv, NEW d \in DRanks, NEW t \in Transfers,
           \A p \in PTargets(d) : <<p, d, t>> \in Copies
    PROVE  Wrote(d, t) = PTargets(d)
<1>1. /\ Copies = copied /\ Copies \subseteq PRanks \X DRanks \X Transfers
      /\ \A x \in Copies : x[2] \in DTargets(x[1])
  BY HandOffFacts DEF WholeInv, HandOffInv, HeldInv, StateInv, Copies, CopyInv, PairsInv,
     TypeOK, CopyTypes
<1> QED BY <1>1 DEF Wrote, PTargets, DTargets

(* D rank d has t's KV from every P rank it pulls from.                    *)
HasAll(d, t) == Wrote(d, t) = PTargets(d)
ReceivedFromAll == \A d \in DRanks, t \in Transfers :
    (t \in finishedRecv[d] \cup loaded[d] /\ dReq[t] = "blocks") => HasAll(d, t)
SentToAll == \A p \in PRanks, t \in Transfers :
    (t \in finishedSend[p] \cup polled[p].fin /\ dReq[t] = "blocks")
        => \A d \in DTargets(p) : PTargets(d) = {p} => HasAll(d, t)

LEMMA WholeFromAll ==
    ASSUME WholeInv
    PROVE  ReceivedFromAll /\ SentToAll
<1>1. ASSUME NEW d \in DRanks, NEW t \in Transfers,
             t \in finishedRecv[d] \cup loaded[d], dReq[t] = "blocks"
      PROVE  HasAll(d, t)
  <2>1. \A p \in PTargets(d) : <<p, d, t>> \in Copies
    BY <1>1 DEF WholeInv, CopyInv, ReceivedInv, Got
  <2> QED BY <2>1, AllWrote DEF HasAll
<1>2. ASSUME NEW p \in PRanks, NEW t \in Transfers,
             t \in finishedSend[p] \cup polled[p].fin, dReq[t] = "blocks",
             NEW d \in DTargets(p), PTargets(d) = {p}
      PROVE  HasAll(d, t)
  <2>1. d \in DRanks /\ <<p, d, t>> \in Copies
    BY <1>2 DEF WholeInv, CopyInv, ServedInv, Served, Copying, DTargets
  <2>2. \A q \in PTargets(d) : <<q, d, t>> \in Copies
    BY <1>2, <2>1
  <2> QED BY <2>1, <2>2, AllWrote DEF HasAll
<1> QED BY <1>1, <1>2 DEF ReceivedFromAll, SentToAll

(* While nobody is late ("slow", the fault of the run that refutes the     *)
(* promise), a D rank that reports a request as received has a copy from   *)
(* every P rank it pulls from, and a P rank that hands one over as sent has*)
(* served every D rank: at every moment and for every number of both.      *)
THEOREM CopiesFromAll ==
    ASSUME "slow" \notin Faults PROVE Spec => [](ReceivedFromAll /\ SentToAll)
<1>1. Init => WholeInv
  BY WholeInit
<1>2. WholeInv /\ [Next]_vars => WholeInv'
  BY WholeStep
<1>3. WholeInv => ReceivedFromAll /\ SentToAll
  BY WholeFromAll
<1> QED BY <1>1, <1>2, <1>3, PTL DEF Spec

(* The plans do their part when the writes of all the P ranks of a D rank  *)
(* bring it all it asks for: a fact about the layouts and the cases.       *)
PlansTile == \A d \in DRanks : <<PTargets(d), d>> \notin NotWhole

(* What is reported as received is there to the last unit of KV, wherever  *)
(* the plans of the ranks together cover what was asked for.               *)
THEOREM ReceivedIsWhole ==
    ASSUME "slow" \notin Faults, PlansTile PROVE Spec => []ReceivedWhole
<1>1. ReceivedFromAll => ReceivedWhole
  BY DEF ReceivedFromAll, HasAll, PlansTile, ReceivedWhole
<1> QED BY <1>1, CopiesFromAll, PTL

(* What a P rank hands over as sent is whole on every D rank it serves     *)
(* alone, under the same plans.                                            *)
THEOREM SentIsWhole ==
    ASSUME "slow" \notin Faults, PlansTile PROVE Spec => []SentWhole
<1>1. SentToAll => SentWhole
  BY DEF SentToAll, HasAll, PlansTile, SentWhole, DTargets
<1> QED BY <1>1, CopiesFromAll, PTL

(***************************************************************************)
(* Part 5: the plans, for every layout, every pair of ranks and every list *)
(* of blocks.                                                              *)
(***************************************************************************)
LEMMA LeastNumber ==
    ASSUME NEW T, T \subseteq Nat, T # {}
    PROVE  \E x \in T : \A y \in T : x <= y
<1>1. PICK x \in T : \A y \in T : ~(<<y, x>> \in OpToRel(<, Nat))
  BY NatLessThanWellFounded, WFMin
<1>2. \A y \in T : ~(y < x)
  BY <1>1 DEF OpToRel
<1> QED BY <1>2

(* The runs of two lists of blocks: each place is in one, and only one.    *)
LEMMA RunsCover ==
    ASSUME NEW src \in Seq(Nat), NEW dst \in Seq(Nat), NEW i \in 1 .. Len(src)
    PROVE  \E r \in Runs(src, dst) : r[1] <= i /\ i <= r[2]
<1> DEFINE n == Len(src)
           brk(k) == Break(src, dst, k)
           starts == {k \in 1 .. i : \A m \in k .. i - 1 : ~brk(m)}
           ends == {k \in Nat : n - k \in i .. n /\ \A m \in i .. n - k - 1 : ~brk(m)}
<1>1. n \in Nat
  OBVIOUS
<1> HIDE DEF n, brk
<1>2. i \in 1 .. n
  BY DEF n
<1>3. PICK a \in starts : \A y \in starts : a <= y
  <2>1. i \in starts /\ starts \subseteq Nat
    BY <1>1, <1>2
  <2> HIDE DEF starts
  <2> QED BY <2>1, LeastNumber
<1>4. PICK e \in ends : \A y \in ends : e <= y
  <2>1. n - i \in ends
    BY <1>1, <1>2
  <2> QED BY <2>1, LeastNumber
<1> DEFINE b == n - e
<1>5. /\ a \in 1 .. i /\ b \in i .. n
      /\ \A m \in a .. b - 1 : ~brk(m)
  <2>1. a \in 1 .. i /\ \A m \in a .. i - 1 : ~brk(m)
    BY <1>3
  <2>2. e \in Nat /\ n - e \in i .. n /\ \A m \in i .. n - e - 1 : ~brk(m)
    BY <1>4
  <2> QED BY <1>1, <1>2, <2>1, <2>2
<1>6. a = 1 \/ brk(a - 1)
  <2> SUFFICES ASSUME a # 1, ~brk(a - 1) PROVE FALSE
    OBVIOUS
  <2>1. a - 1 \in starts
    <3>1. ASSUME NEW m \in a - 1 .. i - 1 PROVE ~brk(m)
      <4>1. m = a - 1 \/ m \in a .. b - 1
        BY <1>1, <1>2, <1>5
      <4> QED BY <4>1, <1>5
    <3> QED BY <1>2, <1>5, <3>1
  <2> HIDE DEF starts
  <2>2. a <= a - 1 /\ a \in Nat
    BY <1>2, <1>3, <1>5, <2>1
  <2> QED BY <2>2
<1>7. b = n \/ brk(b)
  <2> SUFFICES ASSUME b # n, ~brk(b) PROVE FALSE
    OBVIOUS
  <2>1. e - 1 \in ends
    <3>1. ASSUME NEW m \in i .. n - (e - 1) - 1 PROVE ~brk(m)
      <4>1. m = b \/ m \in a .. b - 1
        BY <1>1, <1>2, <1>4, <1>5
      <4> QED BY <4>1, <1>5
    <3>2. e - 1 \in Nat /\ n - (e - 1) \in i .. n
      BY <1>1, <1>2, <1>4, <1>5
    <3> QED BY <3>1, <3>2
  <2> QED BY <1>4, <2>1
<1>8. /\ <<a, b>> \in (1 .. n) \X (1 .. n) /\ a <= b /\ a <= i /\ i <= b
      /\ <<a, b>>[1] = a /\ <<a, b>>[2] = b
  BY <1>1, <1>2, <1>5
<1>9. <<a, b>> \in Runs(src, dst)
  <2> HIDE DEF starts, ends, b
  <2> QED BY <1>5, <1>6, <1>7, <1>8 DEF Runs, n, brk
<1> HIDE DEF b
<1> QED BY <1>8, <1>9

LEMMA RunsApart ==
    ASSUME NEW src \in Seq(Nat), NEW dst \in Seq(Nat), NEW i \in 1 .. Len(src),
           NEW r \in Runs(src, dst), NEW q \in Runs(src, dst),
           r[1] <= i, i <= r[2], q[1] <= i, i <= q[2]
    PROVE  r = q
<1> DEFINE a == r[1]
           b == r[2]
           c == q[1]
           d == q[2]
           n == Len(src)
<1>1. /\ r = <<a, b>> /\ a \in 1 .. n /\ b \in 1 .. n
      /\ a = 1 \/ Break(src, dst, a - 1)
      /\ b = n \/ Break(src, dst, b)
      /\ \A m \in a .. b - 1 : ~Break(src, dst, m)
  BY DEF Runs
<1>2. /\ q = <<c, d>> /\ c \in 1 .. n /\ d \in 1 .. n
      /\ c = 1 \/ Break(src, dst, c - 1)
      /\ d = n \/ Break(src, dst, d)
      /\ \A m \in c .. d - 1 : ~Break(src, dst, m)
  BY DEF Runs
<1>3. n \in Nat /\ a <= i /\ i <= b /\ c <= i /\ i <= d
  OBVIOUS
<1> HIDE DEF a, b, c, d, n
<1>4. a = c
  <2>1. ~(a < c)
    <3> SUFFICES ASSUME a < c PROVE FALSE
      OBVIOUS
    <3>1. c - 1 \in a .. b - 1 /\ c # 1
      BY <1>1, <1>2, <1>3
    <3> QED BY <1>1, <1>2, <3>1
  <2>2. ~(c < a)
    <3> SUFFICES ASSUME c < a PROVE FALSE
      OBVIOUS
    <3>1. a - 1 \in c .. d - 1 /\ a # 1
      BY <1>1, <1>2, <1>3
    <3> QED BY <1>1, <1>2, <3>1
  <2> QED BY <1>1, <1>2, <2>1, <2>2
<1>5. b = d
  <2>1. ~(b < d)
    <3> SUFFICES ASSUME b < d PROVE FALSE
      OBVIOUS
    <3>1. b \in c .. d - 1 /\ b # n
      BY <1>1, <1>2, <1>3
    <3> QED BY <1>1, <1>2, <3>1
  <2>2. ~(d < b)
    <3> SUFFICES ASSUME d < b PROVE FALSE
      OBVIOUS
    <3>1. d \in a .. b - 1 /\ d # n
      BY <1>1, <1>2, <1>3
    <3> QED BY <1>1, <1>2, <3>1
  <2> QED BY <1>1, <1>2, <2>1, <2>2
<1> QED BY <1>1, <1>2, <1>4, <1>5

(* Along a run the blocks are contiguous on both sides.                    *)
LEMMA RunsContiguous ==
    ASSUME NEW src \in Seq(Nat), NEW dst \in Seq(Nat), Len(src) = Len(dst),
           NEW r \in Runs(src, dst), NEW i \in r[1] .. r[2]
    PROVE  src[i] = src[r[1]] + (i - r[1]) /\ dst[i] = dst[r[1]] + (i - r[1])
<1> DEFINE a == r[1]
           b == r[2]
           n == Len(src)
           ok(k) == src[k] = src[a] + (k - a) /\ dst[k] = dst[a] + (k - a)
           bad == {k \in a .. b : ~ok(k)}
<1>1. /\ a \in 1 .. n /\ b \in 1 .. n /\ n \in Nat
      /\ \A m \in a .. b - 1 : ~Break(src, dst, m)
  BY DEF Runs
<1>2. \A k \in 1 .. n : src[k] \in Nat /\ dst[k] \in Nat
  OBVIOUS
<1>3. bad = {}
  <2> SUFFICES ASSUME bad # {} PROVE FALSE
    OBVIOUS
  <2>0. bad \subseteq Nat
    BY <1>1
  <2>1. PICK x \in bad : \A y \in bad : x <= y
    <3> HIDE DEF bad
    <3> QED BY <2>0, LeastNumber
  <2> HIDE DEF a, b, n
  <2>2. x \in a .. b /\ ~ok(x)
    BY <2>1
  <2>3. x # a
    BY <1>1, <1>2, <2>2
  <2>4. x - 1 \in a .. b - 1 /\ x - 1 \in a .. b /\ x - 1 \in 1 .. n /\ x \in 1 .. n
    BY <1>1, <2>2, <2>3
  <2>5. src[x - 1] = src[a] + ((x - 1) - a) /\ dst[x - 1] = dst[a] + ((x - 1) - a)
    <3> SUFFICES ASSUME ~ok(x - 1) PROVE FALSE
      OBVIOUS
    <3>1. x - 1 \in bad
      BY <2>4
    <3> QED BY <1>1, <2>1, <2>2, <3>1
  <2>6. src[x] = src[x - 1] + 1 /\ dst[x] = dst[x - 1] + 1
    <3>1. ~Break(src, dst, x - 1) /\ (x - 1) + 1 = x
      BY <1>1, <2>4
    <3> QED BY <3>1 DEF Break
  <2> DEFINE s0 == src[a]
             d0 == dst[a]
  <2>7. s0 \in Nat /\ d0 \in Nat /\ a \in Nat /\ x \in Nat
    BY <1>1, <1>2, <2>4
  <2> HIDE DEF s0, d0
  <2>8. (s0 + ((x - 1) - a)) + 1 = s0 + (x - a) /\ (d0 + ((x - 1) - a)) + 1 = d0 + (x - a)
    BY <2>7
  <2> QED BY <2>2, <2>5, <2>6, <2>8 DEF s0, d0
<1> QED BY <1>3

(* w carries the unit at one address to the other.                         *)
Carries(w, from, to) ==
    w.dst <= to /\ to < w.dst + w.len /\ from = w.src + (to - w.dst)

(* The x-th unit of the plan in the i-th block, on both sides.             *)
UnitOf(local, remote, plan, src, dst, i, x, from, to) ==
    /\ from = local.base + src[i] * local.blockLen + plan.src + x
    /\ to = remote.base + dst[i] * remote.blockLen + plan.dst + x

LEMMA BlockOf ==
    ASSUME NEW y \in Nat, NEW len \in Nat \ {0}, NEW m \in Nat, y < len * m
    PROVE  \E k \in 0 .. m - 1, x \in 0 .. len - 1 : y = k * len + x
<1> DEFINE k == y \div len
           x == y % len
<1>1. k \in Int /\ x \in 0 .. len - 1 /\ y = len * k + x
  OBVIOUS
<1> HIDE DEF k, x
<1>2. len * k + x = k * len + x
  BY <1>1
<1>3. k >= 0
  <2> SUFFICES ASSUME k <= -1 PROVE FALSE
    BY <1>1
  <2>1. len * k <= len * (-1)
    BY <1>1
  <2> QED BY <1>1, <2>1
<1>4. k < m
  <2> SUFFICES ASSUME m <= k PROVE FALSE
    BY <1>1
  <2>1. len * m <= len * k
    BY <1>1
  <2> QED BY <1>1, <2>1
<1> QED BY <1>1, <1>2, <1>3, <1>4

LEMMA Products == \A a, b \in Nat : a * b \in Nat
<1> SUFFICES ASSUME NEW a \in Nat, NEW b \in Nat PROVE a * b \in Nat
  OBVIOUS
<1>1. a * b \in Int
  OBVIOUS
<1>2. a * b >= 0
  OBVIOUS
<1> QED BY <1>1, <1>2

LEMMA RunsWithin ==
    ASSUME NEW src \in Seq(Nat), NEW dst, NEW r \in Runs(src, dst)
    PROVE  /\ r[1] \in 1 .. Len(src) /\ r[2] \in 1 .. Len(src) /\ r[1] <= r[2]
           /\ r[1] .. r[2] \subseteq 1 .. Len(src)
<1> DEFINE a == r[1]
           b == r[2]
           n == Len(src)
<1>1. a \in 1 .. n /\ b \in 1 .. n /\ a <= b /\ n \in Nat
  BY DEF Runs
<1> HIDE DEF a, b, n
<1>2. a .. b \subseteq 1 .. n
  BY <1>1
<1> QED BY <1>1, <1>2 DEF a, b, n

(* A write for each run of blocks that are contiguous on both sides carries*)
(* the units that a write for each block would: _build_transfer_params     *)
(* copies of every block what the plan says, to the block of the same      *)
(* place, and nothing else, coalesced or not.                              *)
THEOREM WritesCarryThePlan ==
    ASSUME NEW src \in Seq(Nat), NEW dst \in Seq(Nat), Len(src) = Len(dst),
           NEW local, NEW remote, NEW plan, plan.send,
           local.base \in Nat, local.blockLen \in Nat \ {0}, remote.base \in Nat,
           remote.blockLen \in Nat \ {0}, plan.src \in Nat, plan.dst \in Nat, plan.len \in Nat,
           NEW from \in Nat, NEW to \in Nat
    PROVE  (\E w \in RegionWrites(local, remote, plan, src, dst) : Carries(w, from, to))
             <=> (\E i \in 1 .. Len(src), x \in 0 .. plan.len - 1 :
                     UnitOf(local, remote, plan, src, dst, i, x, from, to))
<1> DEFINE n == Len(src)
           writes == RegionWrites(local, remote, plan, src, dst)
           lb == local.base
           rb == remote.base
           lB == local.blockLen
           rB == remote.blockLen
           ps == plan.src
           pd == plan.dst
           len == plan.len
<1>1. /\ n \in Nat /\ DOMAIN src = 1 .. n
      /\ \A i \in 1 .. n : src[i] \in Nat /\ dst[i] \in Nat
  OBVIOUS
<1>2. /\ lb \in Nat /\ rb \in Nat /\ lB \in Nat \ {0} /\ rB \in Nat \ {0}
      /\ ps \in Nat /\ pd \in Nat /\ len \in Nat
  OBVIOUS
<1>3. ASSUME NEW k, NEW s, NEW d, NEW m
      PROVE  Carries(WriteAt(local, remote, plan, k, s, d, m), from, to)
               <=> /\ rb + d * rB + pd <= to /\ to < rb + d * rB + pd + m
                   /\ from = lb + s * lB + ps + (to - (rb + d * rB + pd))
  BY DEF Carries, WriteAt
<1>4. ASSUME NEW i \in 1 .. n, NEW x
      PROVE  UnitOf(local, remote, plan, src, dst, i, x, from, to)
               <=> from = lb + src[i] * lB + ps + x /\ to = rb + dst[i] * rB + pd + x
  BY DEF UnitOf
<1>5. CASE ~CanCoalesce(local, remote, plan)
  <2>1. writes = {WriteAt(local, remote, plan, <<local, i>>, src[i], dst[i], len) : i \in 1 .. n}
    BY <1>1, <1>5 DEF RegionWrites
  <2>2. ASSUME NEW i \in 1 .. n
        PROVE  Carries(WriteAt(local, remote, plan, <<local, i>>, src[i], dst[i], len), from, to)
                 <=> \E x \in 0 .. len - 1 : UnitOf(local, remote, plan, src, dst, i, x, from, to)
    <3> DEFINE D == rb + dst[i] * rB + pd
               S == lb + src[i] * lB + ps
    <3>1. D \in Nat /\ S \in Nat
      <4>1. dst[i] * rB \in Nat /\ src[i] * lB \in Nat
        BY <1>1, <1>2, Products
      <4> DEFINE u == dst[i] * rB
                 v == src[i] * lB
      <4>2. u \in Nat /\ v \in Nat
        BY <4>1
      <4> HIDE DEF u, v, rb, lb, pd, ps
      <4>3. rb + u + pd \in Nat /\ lb + v + ps \in Nat
        BY <1>2, <4>2
      <4> QED BY <4>3 DEF u, v
    <3>2. Carries(WriteAt(local, remote, plan, <<local, i>>, src[i], dst[i], len), from, to)
            <=> D <= to /\ to < D + len /\ from = S + (to - D)
      BY <1>3
    <3>3. \A x : UnitOf(local, remote, plan, src, dst, i, x, from, to)
                   <=> from = S + x /\ to = D + x
      BY <1>4
    <3> HIDE DEF D, S, len
    <3>4. (D <= to /\ to < D + len /\ from = S + (to - D))
            <=> \E x \in 0 .. len - 1 : from = S + x /\ to = D + x
      <4>1. ASSUME D <= to, to < D + len, from = S + (to - D)
            PROVE  \E x \in 0 .. len - 1 : from = S + x /\ to = D + x
        <5>1. to - D \in 0 .. len - 1 /\ to = D + (to - D)
          BY <1>2, <3>1, <4>1
        <5> QED BY <4>1, <5>1
      <4>2. ASSUME NEW x \in 0 .. len - 1, from = S + x, to = D + x
            PROVE  D <= to /\ to < D + len /\ from = S + (to - D)
        BY <1>2, <3>1, <4>2
      <4> QED BY <4>1, <4>2
    <3> QED BY <3>2, <3>3, <3>4
  <2> HIDE DEF n, writes, len
  <2> QED BY <2>1, <2>2 DEF n, len, writes
<1>6. CASE CanCoalesce(local, remote, plan)
  <2>1. /\ writes = {WriteAt(local, remote, plan, <<local, r[1]>>, src[r[1]], dst[r[1]],
                             len * (r[2] - r[1] + 1)) : r \in Runs(src, dst)}
        /\ ps = 0 /\ pd = 0 /\ lB = len /\ rB = len
    BY <1>6 DEF RegionWrites, CanCoalesce
  <2>2. ASSUME NEW r \in Runs(src, dst)
        PROVE  Carries(WriteAt(local, remote, plan, <<local, r[1]>>, src[r[1]], dst[r[1]],
                               len * (r[2] - r[1] + 1)), from, to)
                 <=> \E i \in r[1] .. r[2], x \in 0 .. len - 1 :
                        UnitOf(local, remote, plan, src, dst, i, x, from, to)
    <3> DEFINE a == r[1]
               b == r[2]
               s == src[a]
               d == dst[a]
               D == rb + d * len
               S == lb + s * len
               m == b - a + 1
    <3>1. a \in 1 .. n /\ b \in 1 .. n /\ a <= b /\ a .. b \subseteq 1 .. n
      BY RunsWithin
    <3>2. s \in Nat /\ d \in Nat /\ D \in Nat /\ S \in Nat /\ m \in Nat /\ a \in Nat /\ b \in Nat
      <4>1. s \in Nat /\ d \in Nat
        BY <1>1, <3>1
      <4>2. d * len \in Nat /\ s * len \in Nat
        BY <1>2, <4>1, Products
      <4>3. D \in Nat /\ S \in Nat
        <5> DEFINE u == d * len
                   v == s * len
        <5>1. u \in Nat /\ v \in Nat
          BY <4>2
        <5> HIDE DEF u, v, rb, lb
        <5>2. rb + u \in Nat /\ lb + v \in Nat
          BY <1>2, <5>1
        <5> QED BY <5>2 DEF u, v
      <4>4. m \in Nat /\ a \in Nat /\ b \in Nat
        <5> HIDE DEF a, b, n
        <5> QED BY <1>1, <3>1
      <4> QED BY <4>1, <4>3, <4>4
    <3>3. Carries(WriteAt(local, remote, plan, <<local, r[1]>>, src[r[1]], dst[r[1]],
                          len * (r[2] - r[1] + 1)), from, to)
            <=> D <= to /\ to < D + len * m /\ from = S + (to - D)
      <4>1. rb + d * rB + pd = D /\ lb + s * lB + ps = S
        <5> DEFINE u == d * len
                   v == s * len
        <5>1. d * rB = u /\ s * lB = v /\ D = rb + u /\ S = lb + v
          BY <2>1
        <5>2. u \in Nat /\ v \in Nat
          BY <1>2, <3>2, Products
        <5> HIDE DEF u, v, D, S, rb, lb, ps, pd, rB, lB, s, d
        <5> QED BY <1>2, <2>1, <5>1, <5>2
      <4> HIDE DEF D, S, s, d, rb, lb, rB, lB, ps, pd, len, a, b
      <4>2. Carries(WriteAt(local, remote, plan, <<local, a>>, s, d, len * m), from, to)
              <=> /\ rb + d * rB + pd <= to /\ to < rb + d * rB + pd + len * m
                  /\ from = lb + s * lB + ps + (to - (rb + d * rB + pd))
        BY <1>3
      <4> QED BY <4>1, <4>2 DEF s, d, a, b, len
    <3>4. ASSUME NEW i \in a .. b, NEW x
          PROVE  UnitOf(local, remote, plan, src, dst, i, x, from, to)
                   <=> from = S + (i - a) * len + x /\ to = D + (i - a) * len + x
      <4>1. src[i] = s + (i - a) /\ dst[i] = d + (i - a) /\ i \in 1 .. n /\ i - a \in Nat
        <5>1. src[i] = s + (i - a) /\ dst[i] = d + (i - a)
          BY ZenonT(40), RunsContiguous
        <5> HIDE DEF a, b, n
        <5>2. i \in 1 .. n /\ i - a \in Nat
          BY <3>1, <3>2
        <5> QED BY <5>1, <5>2
      <4>2. UnitOf(local, remote, plan, src, dst, i, x, from, to)
              <=> from = lb + src[i] * lB + ps + x /\ to = rb + dst[i] * rB + pd + x
        BY <1>4, <4>1
      <4> DEFINE k == i - a
      <4>3. (s + k) * len = s * len + k * len /\ (d + k) * len = d * len + k * len
        <5>0. k \in Nat
          BY <4>1
        <5> HIDE DEF k, s, d, len
        <5>1. k \in Int /\ s \in Int /\ d \in Int /\ len \in Int
          BY <1>2, <3>2, <5>0 DEF len
        <5> HIDE DEF k, s, d, len
        <5> QED BY <5>1
      <4>4. lb + src[i] * lB + ps = S + k * len /\ rb + dst[i] * rB + pd = D + k * len
        <5>1. src[i] * lB = s * len + k * len /\ dst[i] * rB = d * len + k * len
          BY <2>1, <4>1, <4>3
        <5>2. s * len \in Nat /\ k * len \in Nat /\ d * len \in Nat
          <6>1. k \in Nat
            BY <4>1
          <6> HIDE DEF k
          <6> QED BY <1>2, <3>2, <6>1, Products
        <5> DEFINE sl == s * len
                   dl == d * len
                   kl == k * len
        <5>3. src[i] * lB = sl + kl /\ dst[i] * rB = dl + kl /\ S = lb + sl /\ D = rb + dl
          BY <5>1
        <5>4. sl \in Nat /\ dl \in Nat /\ kl \in Nat /\ lb \in Nat /\ rb \in Nat
          BY <1>2, <5>2
        <5> HIDE DEF sl, dl, kl, lb, rb, lB, rB, S, D, ps, pd
        <5> QED BY <2>1, <5>3, <5>4 DEF kl
      <4> HIDE DEF lb, rb, lB, rB, S, D, ps, pd
      <4> QED BY <4>2, <4>4 DEF k
    <3> HIDE DEF D, S, m, len, a, b
    <3>5. (D <= to /\ to < D + len * m /\ from = S + (to - D))
            <=> \E i \in a .. b, x \in 0 .. len - 1 :
                   from = S + (i - a) * len + x /\ to = D + (i - a) * len + x
      <4>1. ASSUME D <= to, to < D + len * m, from = S + (to - D)
            PROVE  \E i \in a .. b, x \in 0 .. len - 1 :
                      from = S + (i - a) * len + x /\ to = D + (i - a) * len + x
        <5>1. to - D \in Nat /\ to - D < len * m /\ len \in Nat \ {0}
          <6>1. len * m \in Int
            BY <1>2, <3>2
          <6>2. len = 0 => len * m = 0
            BY <3>2
          <6> QED BY <1>2, <3>2, <4>1, <6>1, <6>2
        <5>2. PICK k \in 0 .. m - 1, x \in 0 .. len - 1 : to - D = k * len + x
          BY <3>2, <5>1, BlockOf
        <5>3. a + k \in a .. b /\ (a + k) - a = k
          BY <3>2, <5>2 DEF m
        <5>4. k * len \in Int
          BY <1>2, <5>2
        <5>5. from = S + k * len + x /\ to = D + k * len + x
          <6> DEFINE y == k * len
          <6>1. to - D = y + x /\ y \in Int
            BY <5>2, <5>4
          <6> HIDE DEF y
          <6>2. from = S + y + x /\ to = D + y + x
            BY <1>2, <3>2, <4>1, <5>2, <6>1
          <6> QED BY <6>2 DEF y
        <5> QED BY <5>2, <5>3, <5>5
      <4>2. ASSUME NEW i \in a .. b, NEW x \in 0 .. len - 1,
                   from = S + (i - a) * len + x, to = D + (i - a) * len + x
            PROVE  D <= to /\ to < D + len * m /\ from = S + (to - D)
        <5> DEFINE k == i - a
        <5>1. k \in 0 .. m - 1 /\ len \in Nat
          BY <1>2, <3>2 DEF m
        <5>2. from = S + k * len + x /\ to = D + k * len + x
          BY <4>2
        <5> HIDE DEF k
        <5>3. k * len >= 0 /\ k * len \in Int
          BY <5>1
        <5>4. (k + 1) * len <= len * m /\ (k + 1) * len = k * len + len /\ len * m \in Int
          <6>1. k + 1 <= m
            BY <3>2, <5>1
          <6>2. m - (k + 1) \in Nat
            BY <3>2, <5>1, <6>1
          <6>3. len * (m - (k + 1)) >= 0
            BY <5>1, <6>2
          <6>4. len * (m - (k + 1)) = len * m - (k + 1) * len
            BY <3>2, <5>1
          <6> QED BY <3>2, <5>1, <6>3, <6>4
        <5> DEFINE y == k * len
                   z == len * m
        <5>5. /\ y >= 0 /\ y \in Int /\ z \in Int /\ y + len <= z
              /\ from = S + y + x /\ to = D + y + x
          BY <5>2, <5>3, <5>4
        <5> HIDE DEF y, z
        <5>6. D <= to /\ to < D + z /\ from = S + (to - D)
          BY <3>2, <5>1, <5>5
        <5> QED BY <5>6 DEF z
      <4> QED BY <4>1, <4>2
    <3> QED BY <3>3, <3>4, <3>5 DEF a, b, len
  <2>3. \A i \in 1 .. n : \E r \in Runs(src, dst) : i \in r[1] .. r[2]
    <3> SUFFICES ASSUME NEW i \in 1 .. n PROVE \E r \in Runs(src, dst) : i \in r[1] .. r[2]
      OBVIOUS
    <3>1. PICK r \in Runs(src, dst) : r[1] <= i /\ i <= r[2]
      BY RunsCover
    <3>2. r[1] \in Int /\ r[2] \in Int
      BY <1>1 DEF Runs
    <3> QED BY <3>1, <3>2
  <2>4. \A r \in Runs(src, dst) : r[1] .. r[2] \subseteq 1 .. n
    BY RunsWithin
  <2> HIDE DEF n, writes, len
  <2>5. ASSUME NEW w \in writes, Carries(w, from, to)
        PROVE  \E i \in 1 .. n, x \in 0 .. len - 1 :
                  UnitOf(local, remote, plan, src, dst, i, x, from, to)
    BY <2>1, <2>2, <2>4, <2>5
  <2>6. ASSUME NEW i \in 1 .. n, NEW x \in 0 .. len - 1,
               UnitOf(local, remote, plan, src, dst, i, x, from, to)
        PROVE  \E w \in writes : Carries(w, from, to)
    <3>1. PICK r \in Runs(src, dst) : i \in r[1] .. r[2]
      BY <2>3
    <3>2. Carries(WriteAt(local, remote, plan, <<local, r[1]>>, src[r[1]], dst[r[1]],
                          len * (r[2] - r[1] + 1)), from, to)
      BY <2>2, <2>6, <3>1
    <3> QED BY <2>1, <3>2
  <2> QED BY <2>5, <2>6 DEF n, len, writes
<1> QED BY <1>5, <1>6

(* A head is in the block of one rank only.                                *)
LEMMA OneBlock ==
    ASSUME NEW a \in Nat, NEW b \in Nat, NEW L \in Nat \ {0}, NEW h \in Int,
           a * L <= h, h < a * L + L, b * L <= h, h < b * L + L
    PROVE  a = b
<1>1. ASSUME NEW x \in Nat, NEW y \in Nat, x < y PROVE x * L + L <= y * L
  <2>1. y - (x + 1) \in Nat
    BY <1>1
  <2>2. (y - (x + 1)) * L \in Nat
    BY <2>1, Products
  <2>3. (y - (x + 1)) * L = y * L - (x * L + L)
    BY <1>1
  <2>4. x * L \in Nat /\ y * L \in Nat
    BY <1>1, Products
  <2> DEFINE u == x * L
             v == y * L
  <2>5. v - (u + L) \in Nat /\ u \in Nat /\ v \in Nat
    BY <2>2, <2>3, <2>4
  <2> HIDE DEF u, v
  <2>6. u + L <= v
    BY <2>5
  <2> QED BY <2>6 DEF u, v
<1>2. a * L \in Nat /\ b * L \in Nat
  BY Products
<1>3. ~(a < b) /\ ~(b < a)
  BY <1>1, <1>2
<1> QED BY <1>3

LEMMA Dividing ==
    ASSUME NEW k \in Nat, NEW r \in Nat \ {0}
    PROVE  /\ k % r \in 0 .. r - 1 /\ k \div r \in Nat
           /\ k = (k \div r) * r + (k % r)
<1> DEFINE q == k \div r
           m == k % r
<1>1. q \in Int /\ m \in 0 .. r - 1 /\ k = r * q + m
  OBVIOUS
<1> HIDE DEF q, m
<1>2. r * q = q * r
  BY <1>1
<1>3. q >= 0
  <2> SUFFICES ASSUME q <= -1 PROVE FALSE
    BY <1>1
  <2>1. r * q <= r * (-1)
    BY <1>1
  <2> QED BY <1>1, <2>1
<1>4. k = q * r + m /\ q \in Nat /\ m \in 0 .. r - 1
  BY <1>1, <1>2, <1>3
<1> QED BY <1>4 DEF q, m

(* The heads of a rank, so many in each of its blocks.                     *)
OfRank(h, rank, len) == rank * len <= h /\ h < rank * len + len

(* The x-th block of U lies in the y-th of V, r times larger.              *)
Within(x, y, r, U, V) == /\ y * V + (x % r) * U = x * U
                         /\ (x % r) * U \in Nat /\ (x % r) * U + U <= V
Times(V, U, r) == V = U * r

(* Where the block of one rank lies in the r times larger block of another.*)
LEMMA BlockWithin ==
    ASSUME NEW x \in Nat, NEW y \in Nat, NEW r \in Nat \ {0}, NEW U \in Nat \ {0}, NEW V,
           Times(V, U, r), NEW h \in Int,
           OfRank(h, x, U), OfRank(h, y, V)
    PROVE  Within(x, y, r, U, V)
<1> DEFINE m == x % r
           c == x \div r
<1>1. x * U <= h /\ h < x * U + U /\ y * V <= h /\ h < y * V + V
  BY DEF OfRank
<1>2. V = U * r
  BY DEF Times
<1>3. m \in 0 .. r - 1 /\ c \in Nat /\ x = c * r + m
  BY Dividing
<1> HIDE DEF m, c
<1>4. V \in Nat \ {0} /\ V \in Nat
  <2>1. V \in Nat
    BY <1>2, Products
  <2>2. V # 0
    BY <1>2
  <2> QED BY <2>1, <2>2
<1>5. x * U = c * V + m * U
  <2>1. (c * r + m) * U = c * (U * r) + m * U
    BY <1>3
  <2> QED BY <1>3, <1>2, <2>1
<1>6. m * U \in Nat /\ m * U + U <= V
  <2>1. m \in Nat /\ r - (m + 1) \in Nat
    BY <1>3
  <2>2. m * U \in Nat /\ (r - (m + 1)) * U \in Nat
    BY <2>1, Products
  <2>3. (r - (m + 1)) * U = U * r - (m * U + U)
    BY <1>3
  <2> DEFINE u == m * U
  <2>4. u \in Nat /\ V - (u + U) \in Nat
    BY <1>2, <2>2, <2>3
  <2> HIDE DEF u
  <2>5. u + U <= V
    BY <1>4, <2>4
  <2> QED BY <2>2, <2>5 DEF u
<1>7. y = c
  <2> DEFINE u == m * U
             v == c * V
             w == x * U
  <2>1. u \in Nat /\ v \in Nat /\ w = v + u /\ u + U <= V /\ w <= h /\ h < w + U
    BY <1>1, <1>3, <1>4, <1>5, <1>6, Products
  <2>2. v <= h /\ h < v + V
    <3> HIDE DEF u, v, w
    <3> QED BY <1>4, <2>1
  <2> QED BY <1>1, <1>3, <1>4, <2>2, OneBlock
<1>8. y * V + m * U = x * U
  BY <1>5, <1>7
<1> QED BY <1>6, <1>8 DEF m, Within

(* Where no heads are replicated, _compute_sender_transfer_plan copies of a*)
(* block exactly the heads that the two ranks share, each to its place in  *)
(* the block of the D rank, inside the blocks of both (nothing overruns),  *)
(* for any sizes and any lengths that _validate_asymmetric_region_lengths  *)
(* lets through. So the P ranks that share heads with a D rank together    *)
(* bring it all its heads, each one once.                                  *)
THEOREM PlanCopiesSharedHeads ==
    ASSUME NEW p, NEW d, p.size \in Nat \ {0}, d.size \in Nat \ {0},
           p.rank \in Nat, d.rank \in Nat,
           NEW local, NEW remote, local.kvLen \in Nat \ {0}, remote.kvLen \in Nat \ {0},
           LengthsFit(<<local>>, <<remote>>, Ratio(p.size, d.size)),
           \E h \in Int : OfRank(h, p.rank, local.kvLen) /\ OfRank(h, d.rank, remote.kvLen)
    PROVE  LET plan == SenderPlan(p, d, local.kvLen, remote.kvLen, FALSE)
               first == p.rank * local.kvLen + plan.src
           IN  /\ plan.send /\ ~Overruns(p, d, local, remote, FALSE)
               /\ d.rank * remote.kvLen + plan.dst = first
               /\ \A h \in Int :
                    OfRank(h, p.rank, local.kvLen) /\ OfRank(h, d.rank, remote.kvLen)
                      <=> first <= h /\ h < first + plan.len
<1> DEFINE k == p.rank
           q == d.rank
           L == local.kvLen
           R == remote.kvLen
           plan == SenderPlan(p, d, L, R, FALSE)
           ratio == Ratio(p.size, d.size)
<1>1. /\ k \in Nat /\ q \in Nat /\ L \in Nat \ {0} /\ R \in Nat \ {0}
      /\ k * L \in Nat /\ q * R \in Nat
  BY Products
<1>2. PICK g \in Int : k * L <= g /\ g < k * L + L /\ q * R <= g /\ g < q * R + R
  BY DEF OfRank
<1>3. ratio \in Int /\ ratio # 0
  <2> DEFINE a == p.size
             b == d.size
  <2>1. a \in Nat \ {0} /\ b \in Nat \ {0} /\ ratio = IF a >= b THEN a \div b ELSE -(b \div a)
    BY DEF Ratio
  <2> HIDE DEF a, b, ratio
  <2>2. ASSUME NEW x \in Nat \ {0}, NEW y \in Nat \ {0}, x >= y
        PROVE  x \div y \in Nat \ {0}
    <3>1. x % y \in 0 .. y - 1 /\ x \div y \in Nat /\ x = (x \div y) * y + (x % y)
      BY Dividing
    <3> DEFINE c == x \div y
               m == x % y
    <3> HIDE DEF c, m
    <3>2. c = 0 => c * y = 0
      OBVIOUS
    <3>3. c \in Nat /\ m \in 0 .. y - 1 /\ x = c * y + m
      BY <3>1 DEF c, m
    <3>4. c # 0
      BY <2>2, <3>2, <3>3
    <3> QED BY <3>3, <3>4 DEF c
  <2>3. a >= b => a \div b \in Nat \ {0}
    BY <2>1, <2>2
  <2>4. ~(a >= b) => b \div a \in Nat \ {0}
    <3>1. ~(a >= b) => b >= a
      BY <2>1
    <3> QED BY <2>1, <2>2, <3>1
  <2> DEFINE x == a \div b
             y == b \div a
  <2>5. ratio = IF a >= b THEN x ELSE -y
    BY <2>1
  <2> HIDE DEF x, y
  <2> QED BY <2>3, <2>4, <2>5 DEF x, y
<1>4. IF ratio > 0 THEN R = L * ratio ELSE L = R * (-ratio)
  <2>1. 1 \in DOMAIN <<local>> /\ <<local>>[1] = local /\ <<remote>>[1] = remote
    OBVIOUS
  <2> HIDE DEF ratio
  <2> QED BY <2>1 DEF LengthsFit, ratio
<1> DEFINE At(s, t, n) == /\ plan.send /\ plan.src = s /\ plan.dst = t /\ plan.len = n
<1>5. ASSUME NEW s \in Nat, NEW t \in Nat, NEW n \in Nat, At(s, t, n),
             s + n <= L, t + n <= R, q * R + t = k * L + s,
             n = L \/ n = R
      PROVE  /\ plan.send /\ ~Overruns(p, d, local, remote, FALSE)
             /\ q * R + plan.dst = k * L + plan.src
             /\ \A h \in Int : OfRank(h, k, L) /\ OfRank(h, q, R)
                   <=> k * L + plan.src <= h /\ h < (k * L + plan.src) + plan.len
  <2>1. ~Overruns(p, d, local, remote, FALSE)
    <3>1. ~(s + n > L) /\ ~(t + n > R)
      <4> HIDE DEF L, R
      <4> QED BY <1>1, <1>5
    <3> QED BY <1>5, <3>1 DEF Overruns
  <2> DEFINE u == k * L
             v == q * R
  <2>2. u \in Nat /\ v \in Nat /\ v + t = u + s
    BY <1>1, <1>5
  <2>3. ASSUME NEW h \in Int
        PROVE  OfRank(h, k, L) /\ OfRank(h, q, R)
                 <=> k * L + plan.src <= h /\ h < (k * L + plan.src) + plan.len
    <3>1. OfRank(h, k, L) /\ OfRank(h, q, R) <=> u <= h /\ h < u + L /\ v <= h /\ h < v + R
      BY DEF OfRank
    <3> HIDE DEF u, v, L, R
    <3>2. (u <= h /\ h < u + L /\ v <= h /\ h < v + R) <=> (u + s <= h /\ h < (u + s) + n)
      BY <1>1, <1>5, <2>2
    <3>3. k * L + plan.src <= h /\ h < (k * L + plan.src) + plan.len
            <=> u + s <= h /\ h < (u + s) + n
      BY <1>5 DEF u
    <3> HIDE DEF plan
    <3> QED BY <3>1, <3>2, <3>3
  <2>4. q * R + plan.dst = k * L + plan.src
    BY <1>5
  <2> HIDE DEF plan
  <2> QED BY <1>5, <2>1, <2>3, <2>4
<1>6. CASE ratio = 1
  <2>1. At(0, 0, L)
    BY <1>6 DEF SenderPlan, Slice
  <2>2. R = L
    <3> HIDE DEF ratio, L, R
    <3> QED BY <1>1, <1>4, <1>6
  <2>3. k = q
    <3> HIDE DEF k, q, L, R
    <3> QED BY <1>1, <1>2, <2>2, OneBlock
  <2>4. 0 \in Nat /\ L \in Nat /\ 0 + L <= L /\ 0 + L <= R /\ q * R + 0 = k * L + 0
    <3> HIDE DEF k, q, L, R
    <3> QED BY <1>1, <2>2, <2>3
  <2> HIDE DEF plan, k, q, L, R, At
  <2>5. L = L \/ L = R
    OBVIOUS
  <2> QED BY <1>5, <2>1, <2>4, <2>5 DEF plan, k, q, L, R
<1>7. CASE ratio > 1
  <2> DEFINE m == k % ratio
  <2>1. At(0, m * L, L)
    BY <1>3, <1>7 DEF SenderPlan, Slice
  <2>2. q * R + m * L = k * L /\ m * L \in Nat /\ m * L + L <= R
    <3> HIDE DEF k, q, L, R, ratio
    <3>1. ratio \in Nat \ {0} /\ Times(R, L, ratio)
      BY <1>3, <1>4, <1>7 DEF Times
    <3>2. OfRank(g, k, L) /\ OfRank(g, q, R)
      BY <1>2 DEF OfRank
    <3>3. Within(k, q, ratio, L, R)
      BY <1>1, <3>1, <3>2, BlockWithin
    <3> QED BY <3>3 DEF Within, m
  <2>3. 0 \in Nat /\ L \in Nat /\ 0 + L <= L /\ q * R + m * L = k * L + 0
    <3> HIDE DEF k, q, L, R, m
    <3> QED BY <1>1, <2>2
  <2>4. L = L \/ L = R
    OBVIOUS
  <2> HIDE DEF plan, k, q, L, R, At, m
  <2> QED BY <1>5, <2>1, <2>2, <2>3, <2>4 DEF plan, k, q, L, R
<1>8. CASE ratio < 0
  <2> DEFINE c == -ratio
             m == q % c
  <2>1. At(m * R, 0, R)
    BY <1>3, <1>8 DEF SenderPlan, Slice
  <2>2. k * L + m * R = q * R /\ m * R \in Nat /\ m * R + R <= L
    <3> HIDE DEF k, q, L, R, ratio
    <3>1. c \in Nat \ {0} /\ Times(L, R, c)
      BY <1>3, <1>4, <1>8 DEF Times
    <3> HIDE DEF c
    <3>2. OfRank(g, k, L) /\ OfRank(g, q, R)
      BY <1>2 DEF OfRank
    <3>3. Within(q, k, c, R, L)
      BY <1>1, <3>1, <3>2, BlockWithin
    <3> QED BY <3>3 DEF Within, m
  <2>3. 0 \in Nat /\ R \in Nat /\ 0 + R <= R /\ q * R + 0 = k * L + m * R
    <3> HIDE DEF k, q, L, R, m
    <3> QED BY <1>1, <2>2
  <2>4. R = L \/ R = R
    OBVIOUS
  <2> HIDE DEF plan, k, q, L, R, At, m
  <2> QED BY <1>5, <2>1, <2>2, <2>3, <2>4 DEF plan, k, q, L, R
<1>9. ratio = 1 \/ ratio > 1 \/ ratio < 0
  <2> HIDE DEF ratio
  <2> QED BY <1>3
<1> QED BY <1>6, <1>7, <1>8, <1>9
=============================================================================
