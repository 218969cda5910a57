--------------------------- MODULE FlagCXTransfer ---------------------------
(***************************************************************************)
(* The prefill/decode KV hand-off of the FlagCX connector                  *)
(* (vllm_fl/distributed/kv_transfer/flagcx_connector.py).                  *)
(*                                                                         *)
(* A prefill (P) engine computes the KV blocks of a request and keeps them *)
(* until every decode (D) rank has got its part; the workers of the D      *)
(* engine ask the workers of the P engine for the blocks over a ZMQ side   *)
(* channel, a pool of sender threads on each P worker writes them with     *)
(* one-sided RDMA and replies.  The router starts both engines at once, so *)
(* a pull may reach a P worker before, between or after the two messages   *)
(* (allocated, committed) by which the P scheduler tells it of the request.*)
(***************************************************************************)
EXTENDS Naturals, Sequences, FiniteSets

CONSTANTS
    Transfers,   \* transfer ids, one per request: the router mints them
    PRanks,      \* tensor-parallel ranks of the P engine
    DRanks,      \* tensor-parallel ranks of the D engine
    Pairs,       \* <<p, d>>: d pulls from p (handshake_target_ranks)
    NumWorkers,  \* threads of the sender pool of a P worker
    Kinds,       \* what D may ask for: see DSchedule
    Faults       \* what may go wrong: a subset of AllFaults

AllFaults == {"drop",         \* a prefill is aborted, rejected or stops early
              "expire",       \* the timer of committed blocks runs out
              "slow",         \* ... while a sender thread is using them
              "wait_timeout", \* a sender thread gives up waiting for a commit
              "write",        \* connection, region checks or RDMA write fail
              "recv_timeout"} \* D gives up waiting for the reply

ASSUME TransferAssumption ==
    /\ IsFiniteSet(Transfers) /\ IsFiniteSet(PRanks) /\ IsFiniteSet(DRanks)
    /\ Pairs \subseteq PRanks \X DRanks
    /\ NumWorkers \in Nat \ {0}
    /\ Kinds \subseteq {"blocks", "empty", "short"}
    /\ Faults \subseteq AllFaults

VARIABLES
    pReq,         \* life of the prefill request at the P scheduler
    needSend,     \* _reqs_need_send between two scheduler steps: the committed
    pInbox,       \* connector metadata each P worker has yet to load
    objs,         \* every SendBlockMeta a P worker made for a transfer, in order
    cur,          \* reqs_need_send.reqs: the current one's index, 0 if none
    pulls,        \* _receive_kv calls with their sender_worker job
    finishedSend, \* finished_sending_reqs.set of a P worker
    polled,       \* the set get_finished has taken, NotPolling outside of it
    reports,      \* times a P worker reported a transfer's request finished
    dReq,         \* life of the decode request
    needRecv,     \* _reqs_need_recv between two D scheduler steps
    dInbox,       \* metadata each D worker's receiver loop has yet to load
    pullPending,  \* _pull_pending of a D worker, 0 where the dict has no key
    finishedRecv, \* finished_recving_reqs.set of a D worker
    loaded,       \* transfers a D worker has reported as received
    copied,       \* <<p, d, t>>: p wrote t's blocks to d while P still held them
    torn          \* <<p, d, t>>: P had freed the blocks before the write ended

pVars == <<pReq, needSend, pInbox>>
workerVars == <<objs, cur, finishedSend, polled, reports>>
dVars == <<dReq, needRecv, dInbox, pullPending, finishedRecv, loaded>>
vars == <<pVars, workerVars, dVars, pulls, copied, torn>>

DTargets(p) == {d \in DRanks : <<p, d>> \in Pairs}
PTargets(d) == {p \in PRanks : <<p, d>> \in Pairs}

(* A SendBlockMeta: owned iff p_req_id is not "", ready iff the event is   *)
(* set and local_block_ids filled, armed iff expire_time is not infinity.  *)
SendBlockMeta == [owned : BOOLEAN, ready : BOOLEAN, armed : BOOLEAN,
                  need : Nat, sent : Nat]
Placeholder == [owned |-> FALSE, ready |-> FALSE, armed |-> FALSE,
                need |-> 0, sent |-> 0]

(* A pull: the transfers D rank d asks of P rank p in one message, where   *)
(* its job stands, the SendBlockMeta it holds for each of them (0: none),  *)
(* the requests it has yet to publish, and whether D's socket is open.     *)
JobPCs == {"queued", "wait", "write", "commit", "publish", "done", "error"}
Pull == [p : PRanks, d : DRanks, reqs : SUBSET Transfers, pc : JobPCs,
         ref : [Transfers -> Nat], fin : SUBSET Transfers, open : BOOLEAN]
Active == {"wait", "write", "commit", "publish"}

Msgs == [alloc : SUBSET Transfers, commit : SUBSET Transfers]
NotPolling == [in |-> FALSE, fin |-> {}]

(* P's blocks are released when every P rank has reported the request.     *)
Freed(t) == \A p \in PRanks : reports[p][t] > 0
Holding(t) == pReq[t] = "held" /\ ~Freed(t)

(* The job j holds t's current entry on its rank.                          *)
Uses(j, p, t) == j.p = p /\ t \in j.reqs /\ j.ref[t] = cur[p][t]
InUse(p, t) == \E j \in pulls : j.pc \in {"wait", "write", "commit"} /\ Uses(j, p, t)

Init ==
    /\ pReq = [t \in Transfers |-> "absent"]
    /\ needSend = {}
    /\ pInbox = [p \in PRanks |-> <<>>]
    /\ objs = [p \in PRanks |-> [t \in Transfers |-> <<>>]]
    /\ cur = [p \in PRanks |-> [t \in Transfers |-> 0]]
    /\ pulls = {}
    /\ finishedSend = [p \in PRanks |-> {}]
    /\ polled = [p \in PRanks |-> NotPolling]
    /\ reports = [p \in PRanks |-> [t \in Transfers |-> 0]]
    /\ dReq = [t \in Transfers |-> "absent"]
    /\ needRecv = {}
    /\ dInbox = [d \in DRanks |-> <<>>]
    /\ pullPending = [d \in DRanks |-> [t \in Transfers |-> 0]]
    /\ finishedRecv = [d \in DRanks |-> {}]
    /\ loaded = [d \in DRanks |-> {}]
    /\ copied = {}
    /\ torn = {}

-----------------------------------------------------------------------------
(* The P scheduler.                                                        *)

(* One schedule(): update_state_after_alloc for the admitted requests A,   *)
(* then build_connector_meta drains _reqs_need_send to every worker.       *)
PSchedule(A) ==
    /\ \A t \in A : pReq[t] = "absent"
    /\ A \cup needSend # {}
    /\ pReq' = [t \in Transfers |-> IF t \in A THEN "running" ELSE pReq[t]]
    /\ pInbox' = [p \in PRanks |->
                    Append(pInbox[p], [alloc |-> A, commit |-> needSend])]
    /\ needSend' = {}
    /\ UNCHANGED <<workerVars, dVars, pulls, copied, torn>>

(* request_finished of a prefill that ran to its one token: its blocks are *)
(* committed and their release is delayed.                                 *)
PFinishCapped(t) ==
    /\ pReq[t] = "running"
    /\ pReq' = [pReq EXCEPT ![t] = "held"]
    /\ needSend' = needSend \cup {t}
    /\ UNCHANGED <<pInbox, workerVars, dVars, pulls, copied, torn>>

(* request_finished with any other status (or with no blocks): returns     *)
(* False, the blocks are freed at once and the workers hear nothing.  A    *)
(* prefill the P engine never admits has the same effect.                  *)
PDrop(t) ==
    /\ "drop" \in Faults
    /\ pReq[t] \in {"absent", "running"}
    /\ pReq' = [pReq EXCEPT ![t] = "dropped"]
    /\ UNCHANGED <<needSend, pInbox, workerVars, dVars, pulls, copied, torn>>

-----------------------------------------------------------------------------
(* The main thread of P worker p.                                          *)

(* Mutant: an entry a pull has created never learns its P request.         *)
OwnedNewOnly(p, t) == IF cur[p][t] = 0 THEN [Placeholder EXCEPT !.owned = TRUE]
                      ELSE objs[p][t][cur[p][t]]
(* What start_load_kv leaves of t's entry.                                 *)
Owned(p, t) == IF cur[p][t] = 0 THEN [Placeholder EXCEPT !.owned = TRUE]
               ELSE [objs[p][t][cur[p][t]] EXCEPT !.owned = TRUE]
Loaded(p, t, m) == IF t \in m.commit
                   THEN [Owned(p, t) EXCEPT !.ready = TRUE, !.armed = TRUE]
                   ELSE Owned(p, t)

(* Put o[t] in the place of the current entry of each t in S, or as a new  *)
(* entry where there is none.                                              *)
Store(p, S, o) ==
    /\ objs' = [objs EXCEPT ![p] = [t \in Transfers |->
          IF t \notin S THEN @[t]
          ELSE IF cur[p][t] = 0 THEN Append(@[t], o[t])
          ELSE [@[t] EXCEPT ![cur[p][t]] = o[t]]]]
    /\ cur' = [cur EXCEPT ![p] = [t \in Transfers |->
          IF t \in S /\ @[t] = 0 THEN Len(objs[p][t]) + 1 ELSE @[t]]]

StartLoadKVProducer(p) ==
    /\ pInbox[p] # <<>> /\ ~polled[p].in
    /\ LET m == Head(pInbox[p])
       IN Store(p, m.alloc \cup m.commit, [t \in Transfers |-> Loaded(p, t, m)])
    /\ pInbox' = [pInbox EXCEPT ![p] = Tail(@)]
    /\ UNCHANGED <<pReq, needSend, dVars, pulls, finishedSend, polled, reports,
                   copied, torn>>

(* Mutant: the finished set is read and not emptied.                       *)
PollFinishedNoReset(p) ==
    /\ ~polled[p].in
    /\ polled' = [polled EXCEPT ![p] = [in |-> TRUE, fin |-> finishedSend[p]]]
    /\ UNCHANGED <<pVars, dVars, pulls, objs, cur, finishedSend, reports, copied, torn>>

(* get_finished, first half: swap finished_sending_reqs under its lock.    *)
PollFinished(p) ==
    /\ ~polled[p].in
    /\ polled' = [polled EXCEPT ![p] = [in |-> TRUE, fin |-> finishedSend[p]]]
    /\ finishedSend' = [finishedSend EXCEPT ![p] = {}]
    /\ UNCHANGED <<pVars, dVars, pulls, objs, cur, reports, copied, torn>>

Expirable(p) == {t \in Transfers :
    /\ cur[p][t] # 0
    /\ objs[p][t][cur[p][t]].armed
    /\ "slow" \in Faults \/ ~InUse(p, t)}

(* get_finished, second half: under reqs_need_send.lock drop the entries E *)
(* whose timer has run out, and report them with the swapped set.          *)
PollExpired(p, E) ==
    /\ polled[p].in
    /\ E \subseteq Expirable(p)
    /\ E # {} => "expire" \in Faults
    /\ cur' = [cur EXCEPT ![p] = [t \in Transfers |-> IF t \in E THEN 0 ELSE @[t]]]
    /\ LET lost == {t \in E : objs[p][t][cur[p][t]].owned}
       IN reports' = [reports EXCEPT ![p] = [t \in Transfers |->
              IF t \in polled[p].fin \cup lost THEN @[t] + 1 ELSE @[t]]]
    /\ polled' = [polled EXCEPT ![p] = NotPolling]
    /\ UNCHANGED <<pVars, dVars, pulls, objs, finishedSend, copied, torn>>

-----------------------------------------------------------------------------
(* A thread of the sender pool of P worker j.p: _sender_worker and         *)
(* _send_kv_to_decode on the pull j.                                       *)

Become(j, k) == pulls' = (pulls \ {j}) \cup {k}
Busy(p) == {j \in pulls : j.p = p /\ j.pc \in Active}

(* Lines under the first lock: find or create each entry, stop its timer.  *)
SenderStart(j) ==
    LET asked == [t \in Transfers |->
            [(IF cur[j.p][t] = 0 THEN Placeholder ELSE objs[j.p][t][cur[j.p][t]])
             EXCEPT !.armed = FALSE, !.need = Cardinality(DTargets(j.p))]]
    IN /\ j.pc = "queued"
       /\ Cardinality(Busy(j.p)) < NumWorkers
       /\ Store(j.p, j.reqs, asked)
       /\ Become(j, [j EXCEPT !.pc = "wait",
             !.ref = [t \in Transfers |-> IF t \in j.reqs THEN cur'[j.p][t] ELSE 0]])
       /\ UNCHANGED <<pVars, dVars, finishedSend, polled, reports, copied, torn>>

Obj(j, t) == objs[j.p][t][j.ref[t]]

(* Every ready event of the batch has been waited for.                     *)
SenderReady(j) ==
    /\ j.pc = "wait"
    /\ \A t \in j.reqs : Obj(j, t).ready
    /\ Become(j, [j EXCEPT !.pc = "write"])
    /\ UNCHANGED <<pVars, dVars, workerVars, copied, torn>>

(* Mutant: the wait may fail before the job has looked its entries up.     *)
SenderTimeoutEarly(j) ==
    /\ "wait_timeout" \in Faults
    /\ j.pc \in {"queued", "wait"}
    /\ Become(j, [j EXCEPT !.pc = "error"])
    /\ UNCHANGED <<pVars, dVars, workerVars, copied, torn>>

(* Mutant: the wait has no deadline.                                       *)
SenderTimeoutNever(j) == FALSE

(* The deadline the batch shares has passed: the job fails as a whole.     *)
SenderTimeout(j) ==
    /\ "wait_timeout" \in Faults
    /\ j.pc = "wait"
    /\ Become(j, [j EXCEPT !.pc = "error"])
    /\ UNCHANGED <<pVars, dVars, workerVars, copied, torn>>

(* What _build_transfer_params puts in the batch: it skips a request that  *)
(* asks for no blocks or for more than P has, and goes on.                 *)
Written(j) == {t \in j.reqs : dReq[t] = "blocks"}

(* flagcxP2pBatchWriteSync returns: the blocks of the batch are on D.      *)
SenderWrite(j) ==
    LET dest == {<<j.p, j.d, t>> : t \in Written(j)}
        bad == {x \in dest : ~Holding(x[3])}
    IN /\ j.pc = "write"
       /\ copied' = copied \cup (dest \ bad)
       /\ torn' = torn \cup bad
       /\ Become(j, [j EXCEPT !.pc = "commit"])
       /\ UNCHANGED <<pVars, dVars, workerVars>>

SenderFail(j) ==
    /\ "write" \in Faults
    /\ j.pc = "write"
    /\ Become(j, [j EXCEPT !.pc = "error"])
    /\ UNCHANGED <<pVars, dVars, workerVars, copied, torn>>

AtLeastOne(n) == IF n = 0 THEN 1 ELSE n

(* Mutants: need_send is ignored; the count is compared before this rank.  *)
CompletedAll(j) == j.reqs
CompletedLate(j) == {t \in j.reqs : Obj(j, t).sent >= AtLeastOne(Obj(j, t).need)}

(* The transfers whose last D rank this job was.                           *)
Completed(j) == {t \in j.reqs : Obj(j, t).sent + 1 >= AtLeastOne(Obj(j, t).need)}

(* t's entries when this D rank is counted on the one the job holds.       *)
Counted(j, t) ==
    [objs[j.p][t] EXCEPT ![j.ref[t]] = [Obj(j, t) EXCEPT !.sent = @ + 1]]

(* Lines under the second lock: count this D rank; when it was the last    *)
(* one, drop whatever entry the transfer has now.                          *)
SenderCommit(j) ==
    /\ j.pc = "commit"
    /\ objs' = [objs EXCEPT ![j.p] = [t \in Transfers |->
          IF t \in j.reqs THEN Counted(j, t) ELSE objs[j.p][t]]]
    /\ cur' = [cur EXCEPT ![j.p] = [t \in Transfers |->
          IF t \in Completed(j) THEN 0 ELSE @[t]]]
    /\ Become(j, [j EXCEPT !.pc = "publish", !.fin = Completed(j)])
    /\ UNCHANGED <<pVars, dVars, finishedSend, polled, reports, copied, torn>>

(* finished_sending_reqs.set.update under its own lock, then the reply.    *)
SenderPublish(j) ==
    /\ j.pc = "publish"
    /\ finishedSend' = [finishedSend EXCEPT ![j.p] = @ \cup j.fin]
    /\ Become(j, [j EXCEPT !.pc = "done"])
    /\ UNCHANGED <<pVars, dVars, objs, cur, polled, reports, copied, torn>>

-----------------------------------------------------------------------------
(* The D engine.                                                           *)

(* One schedule() of the D scheduler.  update_state_after_alloc queues the *)
(* admitted requests B, each asking for its unhashed blocks ("blocks"), for*)
(* none ("empty": all of them are cached) or for more groups or blocks     *)
(* than P will have ("short"); build_connector_meta drains the dict.       *)
DSchedule(B, kind) ==
    /\ \A t \in B : dReq[t] = "absent"
    /\ B \cup needRecv # {}
    /\ dReq' = [t \in Transfers |-> IF t \in B THEN kind[t] ELSE dReq[t]]
    /\ dInbox' = [d \in DRanks |-> Append(dInbox[d], B \cup needRecv)]
    /\ needRecv' = {}
    /\ UNCHANGED <<pVars, workerVars, pulls, pullPending, finishedRecv, loaded,
                   copied, torn>>

(* request_finished of a request aborted before it was allocated: a pull   *)
(* for no blocks, so that P releases its own.                              *)
DAbort(t) ==
    /\ "empty" \in Kinds
    /\ dReq[t] = "absent"
    /\ dReq' = [dReq EXCEPT ![t] = "empty"]
    /\ needRecv' = needRecv \cup {t}
    /\ UNCHANGED <<pVars, workerVars, pulls, dInbox, pullPending, finishedRecv,
                   loaded, copied, torn>>

NewPull(p, d, S) == [p |-> p, d |-> d, reqs |-> S, pc |-> "queued",
                     ref |-> [t \in Transfers |-> 0], fin |-> {}, open |-> TRUE]

(* _group_kv_pull on the receiver loop: one pull per target P rank.        *)
GroupKVPull(d) ==
    /\ dInbox[d] # <<>>
    /\ LET S == Head(dInbox[d])
       IN /\ pullPending' = [pullPending EXCEPT ![d] = [t \in Transfers |->
                IF t \in S THEN Cardinality(PTargets(d)) ELSE @[t]]]
          /\ pulls' = pulls \cup {NewPull(p, d, S) : p \in PTargets(d)}
    /\ dInbox' = [dInbox EXCEPT ![d] = Tail(@)]
    /\ UNCHANGED <<pVars, workerVars, dReq, needRecv, finishedRecv, loaded,
                   copied, torn>>

(* Mutant: the count is compared before this reply is taken off it.        *)
LastReplyLate(j) == {t \in j.reqs : pullPending[j.d][t] < 1}

(* The requests of the pull that wait for no other P rank.                 *)
LastReply(j) == {t \in j.reqs : pullPending[j.d][t] <= 1}

(* Mutant: the status of the reply is not looked at.                       *)
ReceiveAnyStatus(j) ==
    /\ j.pc \in {"done", "error"} /\ j.open
    /\ pullPending' = [pullPending EXCEPT ![j.d] = [t \in Transfers |->
          IF t \in LastReply(j) THEN 0
          ELSE IF t \in j.reqs THEN @[t] - 1 ELSE @[t]]]
    /\ finishedRecv' = [finishedRecv EXCEPT ![j.d] = @ \cup LastReply(j)]
    /\ pulls' = pulls \ {j}
    /\ UNCHANGED <<pVars, workerVars, dReq, needRecv, dInbox, loaded, copied, torn>>

(* The reply TRANS_DONE: count it for each request of the pull.            *)
ReceiveDone(j) ==
    /\ j.pc = "done" /\ j.open
    /\ pullPending' = [pullPending EXCEPT ![j.d] = [t \in Transfers |->
          IF t \in LastReply(j) THEN 0
          ELSE IF t \in j.reqs THEN @[t] - 1 ELSE @[t]]]
    /\ finishedRecv' = [finishedRecv EXCEPT ![j.d] = @ \cup LastReply(j)]
    /\ pulls' = pulls \ {j}
    /\ UNCHANGED <<pVars, workerVars, dReq, needRecv, dInbox, loaded, copied, torn>>

(* The reply TRANS_ERROR, or any reply to a closed socket: nothing more.   *)
ReceiveError(j) ==
    /\ j.pc = "error" \/ (j.pc = "done" /\ ~j.open)
    /\ pulls' = pulls \ {j}
    /\ UNCHANGED <<pVars, workerVars, dVars, copied, torn>>

(* RCVTIMEO runs out: the socket is closed, the job on P goes on.          *)
ReceiveTimeout(j) ==
    /\ "recv_timeout" \in Faults
    /\ j.open
    /\ Become(j, [j EXCEPT !.open = FALSE])
    /\ UNCHANGED <<pVars, workerVars, dVars, copied, torn>>

(* get_finished on a D worker: take the finished set and report it.        *)
FetchFinishedRecving(d) ==
    /\ finishedRecv[d] # {}
    /\ loaded' = [loaded EXCEPT ![d] = @ \cup finishedRecv[d]]
    /\ finishedRecv' = [finishedRecv EXCEPT ![d] = {}]
    /\ UNCHANGED <<pVars, workerVars, pulls, dReq, needRecv, dInbox, pullPending,
                   copied, torn>>

-----------------------------------------------------------------------------
PSchedulerNext == \/ \E A \in SUBSET Transfers : PSchedule(A)
                  \/ \E t \in Transfers : PFinishCapped(t) \/ PDrop(t)
PWorkerNext(p) == \/ StartLoadKVProducer(p)
                  \/ PollFinished(p)
                  \/ \E E \in SUBSET Transfers : PollExpired(p, E)
SenderNext(j) == \/ SenderStart(j) \/ SenderReady(j) \/ SenderTimeout(j)
                 \/ SenderWrite(j) \/ SenderFail(j) \/ SenderCommit(j)
                 \/ SenderPublish(j)
DSchedulerNext == \/ \E B \in SUBSET Transfers : \E kind \in [B -> Kinds] :
                        DSchedule(B, kind)
                  \/ \E t \in Transfers : DAbort(t)
DWorkerNext(d) == GroupKVPull(d) \/ FetchFinishedRecving(d)
ReceiveNext(j) == ReceiveDone(j) \/ ReceiveError(j) \/ ReceiveTimeout(j)

Next == \/ PSchedulerNext \/ DSchedulerNext
        \/ \E p \in PRanks : PWorkerNext(p)
        \/ \E d \in DRanks : DWorkerNext(d)
        \/ \E j \in pulls : SenderNext(j) \/ ReceiveNext(j)

Spec == Init /\ [][Next]_vars

(* Every thread and loop goes on while it has something to do.  The engines*)
(* admit what the router sent and run a prefill to its end; the clock goes *)
(* on, so a running timer is found expired by some get_finished.           *)
Answering(p, d, t) == \E j \in pulls :
    /\ j.p = p /\ j.d = d /\ t \in j.reqs
    /\ SenderNext(j) \/ ReceiveDone(j) \/ ReceiveError(j)
ThreadFairness ==
    /\ \A p \in PRanks :
        /\ SF_vars(StartLoadKVProducer(p))
        /\ WF_vars(PollFinished(p))
        /\ WF_vars(\E E \in SUBSET Transfers : PollExpired(p, E))
        /\ \A t \in Transfers :
            SF_vars(\E E \in SUBSET Transfers : t \in E /\ PollExpired(p, E))
    /\ \A d \in DRanks : WF_vars(DWorkerNext(d))
    /\ \A p \in PRanks, d \in DRanks, t \in Transfers : WF_vars(Answering(p, d, t))
EngineFairness ==
    /\ \A t \in Transfers :
        /\ WF_vars(\E A \in SUBSET Transfers : t \in A /\ PSchedule(A))
        /\ WF_vars(PFinishCapped(t))
    /\ WF_vars(\E A \in SUBSET Transfers : PSchedule(A))
    /\ WF_vars(DSchedulerNext)
FairSpec == Spec /\ ThreadFairness /\ EngineFairness

-----------------------------------------------------------------------------
PTypes ==
    /\ pReq \in [Transfers -> {"absent", "running", "held", "dropped"}]
    /\ needSend \in SUBSET Transfers
    /\ pInbox \in [PRanks -> Seq(Msgs)]
WorkerTypes ==
    /\ objs \in [PRanks -> [Transfers -> Seq(SendBlockMeta)]]
    /\ cur \in [PRanks -> [Transfers -> Nat]]
    /\ \A p \in PRanks, t \in Transfers : cur[p][t] <= Len(objs[p][t])
    /\ finishedSend \in [PRanks -> SUBSET Transfers]
    /\ polled \in [PRanks -> [in : BOOLEAN, fin : SUBSET Transfers]]
    /\ reports \in [PRanks -> [Transfers -> Nat]]
DTypes ==
    /\ dReq \in [Transfers -> {"absent", "empty"} \cup Kinds]
    /\ needRecv \in SUBSET Transfers
    /\ dInbox \in [DRanks -> Seq(SUBSET Transfers)]
    /\ pullPending \in [DRanks -> [Transfers -> Nat]]
    /\ finishedRecv \in [DRanks -> SUBSET Transfers]
    /\ loaded \in [DRanks -> SUBSET Transfers]
RefInRange(j) == \A t \in Transfers :
    /\ j.ref[t] <= Len(objs[j.p][t])
    /\ (j.pc # "queued" /\ t \in j.reqs) => j.ref[t] >= 1
PullTypes ==
    /\ pulls \in SUBSET Pull
    /\ \A j \in pulls : RefInRange(j)
CopyTypes ==
    /\ copied \in SUBSET (PRanks \X DRanks \X Transfers)
    /\ torn \in SUBSET (PRanks \X DRanks \X Transfers)

(* Every field has its type, and every index names an entry that exists.   *)
TypeOK == PTypes /\ WorkerTypes /\ DTypes /\ PullTypes /\ CopyTypes

(* What OwnerKnown rests on: an entry becomes ready only in the step that  *)
(* gives it its P request, and a job passes its wait only on ready entries.*)
ReadyIsOwned == \A p \in PRanks, t \in Transfers : \A k \in 1..Len(objs[p][t]) :
    objs[p][t][k].ready => objs[p][t][k].owned
WritersAreReady == \A j \in pulls : j.pc \in {"write", "commit"} =>
    \A t \in j.reqs : Obj(j, t).ready

(* A job past its wait knows the P request of every entry it holds, however*)
(* the pull, the allocation and the commit were interleaved: the raise     *)
(* "Missing Prefill request ID" of _send_kv_to_decode is unreachable.      *)
OwnerKnown == \A j \in pulls : j.pc \in {"write", "commit"} =>
    \A t \in j.reqs : Obj(j, t).owned

(* No block is written to D after P has freed it: every P rank must report *)
(* a request before its blocks go, and a rank reports it only when no      *)
(* sender thread of its own has yet to write it.                           *)
WritesFromHeldBlocks == torn = {}

(* A P worker reports a request at most once, by completion or by expiry:  *)
(* the engine counts reports, one per rank, before it frees the blocks.    *)
ReportedOnce == \A p \in PRanks, t \in Transfers :
    /\ reports[p][t] <= 1
    /\ reports[p][t] = 1 => t \notin finishedSend[p] \cup polled[p].fin

(* "Mark it as not expired. We will send it now.": a transfer a sender     *)
(* thread has marked does not expire until that thread is through with it. *)
NoExpiryWhileSending ==
    [][\A p \in PRanks, t \in Transfers :
         (InUse(p, t) /\ cur'[p][t] = 0)
            => \E j \in pulls : j.p = p /\ j.pc = "commit" /\ j \notin pulls']_vars

(* Every pull is answered, whatever fails: a sender thread ends in a reply *)
(* or the shared deadline ends its wait, and the pool moves on.            *)
PullOutstanding(p, d, t) == \E j \in pulls : j.p = p /\ j.d = d /\ t \in j.reqs
EveryPullEnds == \A p \in PRanks, d \in DRanks, t \in Transfers :
    PullOutstanding(p, d, t) ~> ~PullOutstanding(p, d, t)

(* No pull of t fails, and none is given up by D before it is answered.    *)
NoFailure(t) == \A j \in pulls : t \in j.reqs => j.pc # "error"
Undisturbed(t) == NoFailure(t) /\ \A j \in pulls : t \in j.reqs => j.open

(* Once both engines have a request, the D engine gets its blocks on every *)
(* rank, unless one of its pulls fails or is given up.                     *)
HandOffCompletes == \A t \in Transfers :
    []Undisturbed(t) =>
        ((pReq[t] = "held" /\ dReq[t] # "absent") ~> (\A d \in DRanks : t \in loaded[d]))

(* P releases the blocks it holds, even if D never asks or stops waiting:  *)
(* only a pull that fails, its timer stopped, can keep them for ever.      *)
BlocksReleased == \A t \in Transfers :
    []NoFailure(t) => ((pReq[t] = "held") ~> Freed(t))
=============================================================================
