# Verification of vllm-plugin-FL

TLA+ models, TLC runs and TLAPS proofs about the FlagOS plugin for vLLM
(`vllm_fl`). Paths below are relative to `src/vllm_fl/` unless they say otherwise.

## 1. Inventory: parts, state, operations, interaction

| part | state | operations | what is hard |
|---|---|---|---|
| **A. FlagCX KV connector** `distributed/kv_transfer/flagcx_connector.py` | schedulers' `_reqs_need_send/_reqs_need_recv`; P worker's `reqs_need_send.reqs` (one `SendBlockMeta` per transfer), `finished_sending_reqs`; D worker's `_pull_pending`, `finished_recving_reqs` | `update_state_after_alloc`, `build_connector_meta`, `request_finished`, `start_load_kv`, `get_finished`, `_send_kv_to_decode` (thread pool), `_group_kv_pull`, `_receive_kv` (event loop) | two engines, several ranks, a thread pool and an event loop; messages in any relative order; timers; partial failure |
| **B. Operator dispatch** `dispatch/manager.py`, `registry.py`, `types.py`, `__init__.py`, `binding.py`, `builtin_ops.py`, `discovery.py` | registry, two caches keyed by (op, policy, epoch), failed set, epoch, `initialized/init_pid`; the caches of each `CachedOp` and `OperatorBinding` | `call`, `resolve`, `resolve_candidates`, `ensure_initialized`, `bump_policy_epoch`, `clear_failed_impls`, fork handler | calls of several threads without the lock, policy changes and forks in the middle of them |
| **C. Policy and model activation** `dispatch/policy.py`, `activation.py`, `models/glm5/worker.py` | explicit, cached and context-local policy, policy epoch; active plan, patched attributes and their records | `get_policy`, `set_global_policy`, `policy_context`, `activate`, `bind_patches`, `temporary_patches` | layers of policy cached from a plan that another thread activates; a batch of patches that fails half-way |
| **D. IO dump modes** `dispatch/io_common.py`, `io_dumper.py` | four layers of settings, step and call counters, per-thread pairing stacks, a pool's tasks, reorder buffers of open files | `enable_io_dump`, `disable_io_dump`, `advance_step`, `dump_before/after/cleanup`, `_bg_compute_and_write` | pairing when operators nest or raise; order of a pool's output; settings that a child process resolves again |
| **E. Graph capture** `compilation/graph*.py`, the Ascend `attention.py` | one graph per batch descriptor, a process-wide registry of attention tasks per shape, two device streams | `GraphWrapper.__call__`, `prepare_shape`, `update_full_graph_params`, `clear_*` | tasks rewritten on one stream while another replays them; failures between enqueue and update; what one runner leaves to the next |
| **F. Grammar bitmask** `worker/scheduler_fl.py` | structured-output grammars' cursors | `grammar_bitmask` | a speculative path is advanced and must be rolled back exactly |
| **G. TP transfer planning** pure functions at the end of `flagcx_connector.py` | none | `_expand_transfer_regions`, `_compute_sender_transfer_plan`, `_align_transfer_regions`, `group_concurrent_contiguous` | asymmetric TP sizes, replicated heads, coalescing: every unit exactly once |
| **H. Model runner** `worker/model_runner.py`, `worker/worker.py` | cached requests, persistent batch, what the previous step left on the device | `_update_states`, `_prepare_inputs`, `_prepare_input_ids`, `_bookkeeping_sync`, `execute_model`, `sample_tokens`, capture and shutdown | a step is prepared before the previous one's tokens and accepted drafts are known; requests come, go, move and come back meanwhile |
| **I. Models, kernels, vendor backends, communicators, platform** | tensors, device state, configuration | | numeric code and thin calls into libraries: no protocol of their own |

Interaction. The router (`examples/disaggregated_serving_xpyd/router.py`, outside
of `vllm_fl`) gives a request a transfer id and starts it on a prefill (P) and a
decode (D) engine *at the same time*. In each engine the vLLM scheduler calls the
scheduler half of A and sends its metadata to every worker with the next step;
the workers of D ask the workers of P for the blocks over ZMQ; P's sender threads
write them, at the addresses G computes, into D's memory and reply. The scheduler
also drives H, and F between the two halves of H's step; H calls the captured
graphs of E, which share one registry per process. A worker binds itself to a
model through C before H loads it. Every operator a model uses is called through
B, whose choice depends on the policy of C, and D's hooks wrap the calls of B.

What makes each part correct:

* A: blocks are read only while P holds them; D uses blocks only after every P rank
  has written them; each request is reported once; every pull is answered and
  every held block released.
* B: a call runs only implementations its policy allows, caches never outlive
  the policy or registry they were computed from, a failed implementation is
  skipped until it is cleared, the lock is given back.
* C: the policy is the layering *explicit > user > plan > platform* of what is
  active now, and the one that was validated; a process serves one plan, with all
  of its patches or none.
* D: each file holds the calls of its step in their order, each output under its
  own input's number; a child process dumps what its parent does.
* E: a replay runs its own tasks with its own step's metadata, and ends; a
  descriptor can be captured unless another one of its size is.
* F: each row of the mask is that of the token it constrains, and afterwards the
  grammars stand where they stood.
* G: each unit of KV that D asked for is written once, in its place.
* H: each position of a step is computed from the request's own token, where its
  KV cache ends; no token is lost or counted twice.

PROJECT.json lists the components with their status and, under "hazards", what
could go wrong at which line.

## 2. Plan

| order | module | what | status |
|---|---|---|---|
| 1 | `KVHandoff` | abstract promise of A: hold, copy, receive, free | done |
| 2 | `FlagCXTransfer`, `FlagCXHandOff`, `MCFlagCXTransfer` | A in full detail, and the mapping by which it implements `KVHandoff` | done |
| 3 | `TransferPlan`, `FlagCXBytes` | G, and A with the bytes it moves | done |
| 4 | `FlagCXProofs` | type correctness, `OwnerKnown`; `WritesFromHeldBlocks`, `ReportedOnce`; the refinement | done |
| 5 | `OpSelection`, `OpRegistry`, `MCOpRegistry`, proofs in `OpDispatchProofs` | selection as operators, the registry that feeds it | done |
| 6 | `OpDispatch`, `MCOpDispatch`, `OpDispatchProofs` | B: threads, caches, failures, initialization, fork | done |
| 7 | `CachedOps`, `MCCachedOps`, `CachedOpsProofs` | the fast paths above the manager, with contexts | done |
| 8 | `PolicyActivation`, `MCPolicyActivation`, `PolicyActivationProofs` | C: plans, patches with rollback, layers of policy | done |
| 9 | `IODumpConfig`, `IODump`, `MCIODump`, `IODumpProofs` | D: settings and their inheritance, hooks, pool, files | done |
| 10 | `RunnerBatch`, `GrammarBitmask`, `ModelRunner`, `MCModelRunner`, `ModelRunnerProofs`, `RunnerInputsProofs` | H and F under the engine | done |
| 11 | `GraphCapture`, `MCGraphCapture`, `GraphCaptureProofs` | E from start-up to shutdown | done |

What is left for the theorems: `PlansTile`, the hypothesis of the
two theorems about the bytes of `FlagCXBytes`: it speaks of concatenations over
the regions of a block, and holds of a layout, case by case. What the plan copies of
one block and what the writes carry of a list of blocks is proved for all of them.

## 3. Modules and how they correspond to the code

### FlagCX hand-off

`FlagCXTransfer` has one action per handler: `PSchedule`/`DSchedule` are a
scheduler step (`update_state_after_alloc` for the admitted requests, then
`build_connector_meta`, which drains the dicts into every worker's inbox),
`PFinishCapped`, `PDrop`, `DAbort` are the outcomes of `request_finished`,
`StartLoadKVProducer` is `start_load_kv` on P, `PollFinished` and `PollExpired` the
two critical sections of `get_finished`, which lie under different locks.
A job of the sender pool is a member of `pulls` with a program counter:
`SenderStart` (first lock: find or create the entry, stop its timer), `SenderReady` or
`SenderTimeout` (the wait with its shared deadline), `SenderWrite` or `SenderFail`,
`SenderCommit` (second lock: count the rank, drop the entry after the last one),
`SenderPublish` (finished set and reply). `objs` keeps *every* `SendBlockMeta` ever
made for a transfer and `cur` which of them is in the dict, because a job keeps its
reference while the dictionary moves on. On D, `GroupKVPull` makes one pull per P
rank, `ReceiveDone`, `ReceiveError` and `ReceiveTimeout` are the ends of `_receive_kv`.

Abstractions: a request's blocks are one unit per (P rank, D rank), and region
checks are in the outcome of `SenderWrite`/`SenderFail`; a request that D
asks for with more blocks than P has ("short") is skipped, as the code does, and
one with none ("empty") only counts. Time is a fault that may happen
(`expire`, `wait_timeout`, `recv_timeout`); entries in use expire only under `slow`,
that is when the write lasts longer than the timer.

`TransferPlan` is the code between a pull and its RDMA write, as operators: from the
registered tensors to regions, their pairing, the refusal of lengths that do
not fit, the slice of a block for two TP sizes, the trimming of block lists, null
states, kernel blocks and coalescing. Lengths count units, the KV of one head in
one block; whether an engine replicates heads is vLLM's `TransferTopology`, modelled
as "more ranks than heads, or MLA". `FlagCXBytes` says, from the layouts alone,
which unit an address means, and states `SentWhole` and `ReceivedWhole` over every
case of the instance (forms of cache, head counts, orders of registration, block
lists) in the states of `FlagCXTransfer` where a transfer counts as sent or received.

`KVHandoff` is what the engines rely on; `FlagCXHandOff` has the refinement mapping:
`stage` from the P request and the reports, `copies` from the writes done, `received` from the
set a D worker will report and what it has reported.

### Dispatch

`OpSelection` translates `match_token`, `get_default_order`, the vendor filters,
`_resolve_impl` and `resolve_candidates`, and beside them defines what they should
compute: `Selectable` and the strict order `Before` with its `Foremost`. `OpRegistry` drives
both over every registry, availability and policy of an instance.

`OpDispatch` follows threads through `OpManager.call`. A call is a record with a
program counter; reading the strict flag, `ensure_initialized`, reading the
policy, reading the epoch, the lookup, the computation and the store are separate
steps, because none of them holds the lock and all of them use what an earlier one
has read. `EnsureInitialized` takes the lock and sets `initialized` and `init_pid`
*before* the registration, in the code's order; `RegisterBuiltins` and
`RegistrationRaises` end it. The other critical sections are one step that needs
the lock free. `Fork` leaves the forking thread only, with the lock as it was, and
`ResetAfterFork` is the handler. A candidate list is the set of its members here;
what is run next is `Foremost` of the policy the call has read. That this is the
list's order is what `CandidatesRanked` and `PrimaryAgrees` of `OpRegistry` check.
Adjacent attribute writes with no call between them are one step, and `Filter` reads
the failed set at once (the code reads it once per candidate, in one expression).
One operator is modelled: operators share only the lock and the epoch.

`CachedOps` puts both caches above it: `CachedOp.__call__` step by step (read epochs,
invalidate, read the implementation, resolve, publish, run, fall back) and
`OperatorBinding` (read the key, look up, preflight, bind, launch), over a manager
whose resolve is one step. The latter is justified by `CachesExact`: the manager's own
caches answer as if they were not there. `Launch` is what a call does with the candidates
it has, bound a moment ago or long before: it drops those whose guard refuses the workload,
and where the policy prefers flagos and names no order for the operator, not even an empty
one, it sorts the rest by the adapter's `default_order` instead (binding.py:69-78,
`OwnOrder` and `Ahead`). `Workloads` and `DefaultRank` are the guards and that order.
Policies are global or of one thread's context.

### Activation

`PolicyActivation` follows threads that start a model: `Preflight` and
`ValidateCapability` (validation of the policy against the plan's requirements),
`Activate` (the plan's lock, the refusal of a second plan), `Stage` (the patches'
pristine values, read without the patches' lock), `BindPatches` (the preflight of
the whole batch under it), `Install` one attribute at a time or `InstallFails`
with its rollback, `Refresh` or `RefreshFails`, and `Publish`. The order is the
code's: patches, refresh of the cached policy, then the active plan. `GetPolicy`,
`SetGlobalPolicy`, `ResetGlobalPolicy` and `ForeignPatch` (code outside that replaces an
attribute) come between any two of them; `StageTemporary`, `EnterTemporary` and
`ExitTemporary` are `temporary_patches` around a constructor. The layers of the policy
are operators: `PolicyFromEnv` merges what the user said, the file, the platform's
file and the plan's defaults; the operator's candidates come from `OpSelection`.
`window` and `halfway` record the two states the properties except (section 5).

### IO dumper

`IODumpConfig` is the resolution of settings: `Over` overlays layers, `EnableConfig` and
`InitFromEnv` are the two ways to turn dumping on, `SetEnvVars` what is written back.
`IODump` has the hooks of both kinds of operator: a frame on a thread's
stack says by which calls it was filed, so `CallManaged`, `CallAten`, `Return` and
`Raise` are `dump_before`, `dump_after` and `dump_cleanup` in their nesting;
`BgComputeAndWrite` is one task of the pool with the reorder buffer of
`_WipHandle` (any of the first `Workers` tasks may finish next); `AdvanceStep` and
`FlushStep`, `Disable` and `FlushDisable` are the two halves of the waits.

Failures are part of it, because the code logs them and goes on. `DumpInput` may fail after it has
numbered the call, before it remembers it for the output or after that (io_dumper.py:691);
`DumpOutput` may fail once it has taken the pairing; a task may raise before its line is queued
(`BgComputeRaises`) or in writing the line of any call that could be written then
(`BgWriteRaises`), and the flush that meets its exception closes the file with whatever it
has (636). `lost` remembers the calls whose line went that way. A hook that failed before it
remembered its call makes the calls of that operator the thread is in `astray`: their outputs may be
taken for one another's. A pairing of an earlier step, left by a filtered output, files its
output in a directory of that step (`Elsewhere`); such a file is not followed further.

### Model runner

`RunnerBatch` holds the runner's bookkeeping as operators on a worker's state, each
named for the method it translates; `ModelRunner` is the engine around it: `Schedule`,
`Update` and `Abort` are vLLM's scheduler and engine core by what they send and take
(external), `ExecuteModel`, `SampleTokens` and `ReceiveTokens` the two halves of a step on
each rank, `GrammarBitmask` the call of the scheduler between them. A token is the
pair of its request and position, so that one in a wrong place is told from the
right one. The order of a batch after condensing and reordering is vLLM's: any
permutation. `sampled` and `cached` are history variables: the tokens each request
was given and the positions with a valid KV entry.

Where the scheduler's behaviour matters to the result, the model follows vLLM's:
with drafts a request under way is in every step (model_runner.py:1543 and 1826 would
correct a request that skipped one by the counts of a step it was not in), and the
oldest output is processed when the queue is full or nothing can be scheduled.

### Graphs

`GraphCapture` is a process that starts runners one after another: profiling
(which captures into a pool of its own and clears), `capture_model`, replays and
shutdown. A call of a wrapper is `host`: `BeginCapture`, `CaptureAttention` once per
attention layer, `EndCapture`; or `Replay` (enqueue), `UpdateTask` once per task,
`ReplayReturns`; with `CaptureRaises`, `ReplayRaises` and `UpdateRaises` on the way. The
registry `params` outlives wrappers and runners, as `_GRAPH_PARAMS` does, and is
keyed by size. The device is two queues: `RunUpdate` performs the oldest task
update and records its event, `RunTask` runs the oldest replay's next attention
task, which waits for that event and resets it.

## 4. Runs

| run | instance | what it shows |
|---|---|---|
| `pulls` | 1 P, 1 D rank, 2 transfers, 1 sender thread, all faults but `slow` | every pull is answered (`EveryPullEnds`: the pool has one thread and a waiting job blocks the others until the deadline); a request nothing disturbs reaches D whatever the order of pull, allocation and commit; a sender past its wait knows the P request |
| `fanout` | 1 P, 2 D ranks, 1 transfer, 2 sender threads | blocks are only read while held; sent means every unit is in its place on both D ranks, for 28 layouts and block lists; one report per rank; held blocks are released unless a pull fails |
| `gather` | 2 P, 1 D rank, 1 transfer, all kinds of requests | received means written once and in place by every P rank; `HandOff`: the protocol implements `KVHandoff` |
| `slow_send` | violation | a commit that arrives after the pull re-arms the timer that the sender has stopped |
| `registry` | 5 implementations, 2 of one vendor, 2 of one priority, policies with every preference, filter, overlapping and unknown tokens | the list is the strict order, both selection loops agree |
| `filters` | 2 threads, 3 implementations of which one is registered at run time, a fallback and a strict policy, failing and missing backends, failing detection, one fork | `PolicyRespected`, `CachesExact`, `NeverGivesUp`, `FailsOncePerThread`, and who may keep the lock |
| `quiet_changes` | 2 threads, 2 policies, contexts, failures, up to two epochs of each kind, changes between calls only | ops run what this thread's policy selects now, and bindings what it admits, the workload's guards let through and the adapter's default order or the policy puts first; a failed implementation is not run twice by a call |
| `stale_op` | violation | a change between resolve and publish leaves the old implementation under the new epochs for good |
| `activation` | 2 threads, 3 models (two plans that share an attribute, one plain), 7 environments, 2 explicit policies | one plan per process, all its patches or none; the policy follows the plan and is the one that was validated; the locks are ordered |
| `io_dump` | 1 thread, a managed and an ATen operator nested to depth 2, 2 pool threads, every pair of 2 environments and 2 files, 4 calls of `enable`, 3 steps, 1 failure of a hook or a task | order and completeness of each file, pairing, inheritance, every flush ends |
| `engine` | 2 requests of 2 prompt and 2 or 3 output tokens, six modes | inputs, positions, outputs, masks and matchers are each request's own |
| `graphs` | 3 descriptors of which 2 have one size, 2 tasks per graph, 2 runners, 3 replays | each replay updates and runs its own tasks and ends; only a captured twin refuses a capture |

### Bounds

Every FlagCX property speaks of one transfer and the ranks it touches; two
transfers are needed only where one pull batches two or two compete for a
thread, two ranks on a side only where the count of ranks decides. `NumWorkers`
is 1 where queueing matters and 2 where two jobs on one entry do. The cases of
`FlagCXBytes` put the run's ranks away from rank 0 of TP sizes 2 and 4, so that a
slice taken from the wrong end is seen; they have heads that divide, heads that
are replicated on one side or both, MLA, packed and separate K and V, Mamba states,
two orders of registration, and block lists of unequal length with null blocks.
Four cases of `fanout` must be refused.

In `OpDispatch` the hazards are between a slow call and one change, so two threads
suffice: one slow, one that notices. One epoch beyond that of the initialization
makes entries of two epochs coexist; the constraint `FewEntries` keeps two of
them at a time. Three implementations give a first, a second and a last choice.
`CachedOps` needs an initialization, a context entered and left, and a bump of the
manager's epoch after a failure: two bumps of each epoch allow each of these. Its two
policies are the default, under which the adapter's order puts the vendor's kernel first
although the policy prefers flagos, and a strict one that denies this vendor and names an
order. With a workload the kernel takes and one it refuses, these are the cases of
`tests/unit_tests/dispatch/test_binding.py`, in every order and under two threads.

In `PolicyActivation` one thread activates and the other reads, sets, resets, starts
another model or builds a layer; two plans over one attribute are the least that
conflict, two attributes the least that can fail half-way. In `IODump` two pool
threads are the least that reorder, depth 2 nests an ATen operator in a managed one
and an operator in itself, number 2 passes a limit of 1, and one failure leaves a hole, or two calls of an
operator with one pairing. In `ModelRunner` two
requests are the least that can be swapped, take each other's row or be preempted
by one another; a chunked prompt of two tokens has a step that samples nothing,
and three output tokens let a step with drafts follow another one with drafts. In
`GraphCapture` two runners, three descriptors and a profile fit in seven graphs;
three replays allow one graph to run twice with another between.

The theorems of section 6 have no bounds.

Deadlock is checked in `registry`, `quiet_changes`, `stale_op` and `engine`. The FlagCX
runs, `activation`, `io_dump` and `graphs` end when all is done or a bound is reached; in
`filters` a process forked while another thread registers stops (section 5).

### Fairness

`FlagCXTransfer`: threads, the receiver loop and the schedulers are weakly fair: each
is a loop the process runs as long as it lives. Strong fairness is assumed where
a step competes for the worker's main thread: `start_load_kv` and
`get_finished` run in every engine step, so neither can be put off for ever by the
other; and a running timer is found expired by one of the infinitely many polls. Nothing
forces a fault. `GraphCapture`: a call that does not raise goes on, and each stream of
the device runs what it can (weak fairness of `Wrapper`, `RunUpdate`, `RunTask`); nobody has to
capture or replay. `IODump`: the pool runs what it was given and the thread that waits for it
goes on; operators need not be called and need not return. The other specifications
are checked for safety only.

## 5. Findings and behaviour a reader should know

Two runs end in a counterexample on purpose; PROJECT.json quotes the sentence of the
code that each contradicts: `slow_send` (flagcx_connector.py:1339), `stale_op`
(dispatch/__init__.py:234).

Found while modelling, and visible in the models, but not given a run of their own:

*FlagCX.*
* After a failed write nobody starts the timer again that `SenderStart` stopped
  (flagcx_connector.py:1026): the blocks stay held. `BlocksReleased` excepts it.
* The entry that a pull makes for a prefill that was dropped is never armed (1024).
* After an error reply D waits for the request for ever (1303), and a request with
  fewer blocks than D asks for is skipped and still answered TRANS_DONE (1155).
* Layers that only D has are not noticed: alignment looks at P's layers only.

*Dispatch.*
* `CachedOp`'s cache is keyed by the epochs and not by the policy: what one thread resolves
  inside `policy_context` is run by threads outside of it until an epoch moves.
  `OpRunsOwnChoice` is therefore stated for threads with equal policies.
* `preflight` of a binding joins the epochs read after the resolve with the policy read
  before; a policy that is replaced and restored meanwhile leaves the other one's
  candidates under the restored key. `BindingRunsOwnChoice` is checked with
  changes between calls only (`Quiet`).
* `initialized` is set before `register_builtins` (manager.py:203); when vendor detection
  raises, later calls go on with what was registered until then.
* A child forked while another thread holds the lock waits for it for ever in its
  fork handler (manager.py:127); `LockReleased` names this state.
* A binding reads the failed set only when it refreshes (binding.py:37): until then it may
  launch what has failed meanwhile. `BindingRunsOwnChoice` lets it pass over a failed
  implementation and does not oblige it to.
* No binding of the repository is made with a `default_order` or with guards
  (models/glm5/runtime.py:236, indexer_backend.py:138, vision_attention.py:86,
  backends/flaggems/impl/mla.py:386): only its tests do. Where all ranks are equal and every
  workload is supported, `Launch` is the first candidate of the policy.

*Activation.*
* `activate` drops the cached policy before it sets the plan (activation.py:386): a
  `get_policy` in between caches a policy without the plan's defaults (`window`).
* A refresh that fails leaves all patches of a plan that is not active (`halfway`).
* Validation takes an empty user order for no order, the resolver for the default one
  (activation.py:491); `ServedAsRequired` excepts it.
* `set_global_policy` cannot replace an explicit policy that conflicts (policy.py:274).
* `temporary_patches` says "only during single-model worker construction", but
  glm5/cache.py:241 enters it at every metadata build; and the value it will restore is
  read before the lock (glm5/model.py:634), so two threads at once meet a spurious
  `ActivationConflict`.
* An order of the user for any operator drops the platform's orders of all operators when
  no plan is active, and is merged with them when one is.
* A platform file's `strict` is used only when `VLLM_FL_STRICT` is set and empty; all
  shipped files say false.

*IO dumper.*
* An operator that raises, or whose output passes `max_calls` only in `dump_after`
  (io_dumper.py:824), leaves a hole: all later outputs of the step stay behind it and
  are dropped when the file is closed. A failed task or hook does the same to its own file,
  the input's included: its future is logged at the flush (636) and every later line of that
  operator's step is lost with it, where the docstring promises the calls of the step (75).
  `CompleteUpToHole` states what is kept: the lines up to the first call that was not to
  have one or whose line a failure has swallowed; all calls, in an input file that lost none.
* An input hook that fails between numbering and pairing (691) lets the output of its call take
  the pairing of an outer call of the same operator, whose own output then finds none.
  `OutputsFiledWithInputs` leaves out the calls this touches (`astray`).
* Enabling inside a range that starts after step 0 defers interception (1534).
* `_on_step_advance` speaks of deactivation and never deactivates.
* A file's section without `with_values` switches values off although the environment
  asked for them; with such a section a child resolves other settings than its
  parent, as it does for `ops=set()` (nothing in the parent, everything in the child).
  `ChildInherits` excludes both.
* Disabling removes the variables the user himself had set.

*Graphs.*
* An update that raises after the enqueue (vendor/ascend/impl/attention.py:636) leaves the
  device waiting for its event, and the next step or the shutdown waiting for the device.
  `ReplaysEnd` excepts it.
* Shutdown clears the graphs before it synchronizes: the comment at model_runner.py:6694
  speaks of `torch.accelerator.synchronize()`, which only `_cleanup_profiling_kv_cache` calls.
* A failed `capture_model` leaves capturing enabled and half a shape's tasks until shutdown.
* Two FULL descriptors of one size make start-up fail (`RefusedOnlyForSameShape` says
  that nothing else does).

## 6. Proofs

For every value of the constants that satisfies the named assumptions
(`TransferAssumption`, `ImplsAssumption`, `DispatchAssumption`, `CachedAssumption`,
`PoliciesAssumption`, `PlansAssumption`, `GraphAssumption`, `DumpAssumption`,
`UnsetAssumption`, `RunnerAssumption`, `EngineAssumption`), tlapm checks:

* `FlagCXProofs!TypeCorrect`, `Spec => []TypeOK`. `TypeOK` is inductive because it
  says that each reference a job holds is within its transfer's list of entries and
  that no list is shortened (`EntriesKept`).
* `FlagCXProofs!OwnerAlwaysKnown`, `Spec => []OwnerKnown`. `OwnerKnown` speaks of
  jobs past their wait and is not inductive; `OwnerInv` adds that an entry is made
  ready only together with its owner (`ReadyIsOwned`) and that jobs past their
  wait hold ready entries only (`WritersAreReady`).
* `FlagCXProofs!HeldWhileWriting` and `ReportedAtMostOnce`,
  `Spec => []WritesFromHeldBlocks` and `Spec => []ReportedOnce` if no write outlasts
  the timer (`"slow" \notin Faults`; the run `slow_send` shows why this is needed).
  The invariant `HeldInv` adds to `OwnerInv`: a commit reaches a worker once, makes an
  entry ready there, and from then on the blocks are held (`CommitInv`); only ready
  entries have a running timer (`ArmedInv`); a D rank pulls a transfer from a P rank
  once (`PullInv`); a job in use has told its entry how many ranks to expect, and a
  ready entry it holds is the current one (`UseInv`); the ranks counted on an entry and
  those left to count are together at most all of them (`CountInv`), so the job that
  completes a transfer is the last one that uses it (`CompletedAlone`); and a worker is
  through with a transfer in one place at a time, after which no ready entry of it is
  in the dictionary (`ThroughInv`).
* `FlagCXProofs!ImplementsHandOff`, `Spec => HandOff` under the same assumption and
  with at least one P rank (with none, nobody would ever hold a block back): each step of
  `FlagCXTransfer` is one of `KVHandoff` or a stutter. A write is a `Copy` because
  `WriteHeld` finds its blocks held; the report that completes the P ranks is a `Free`,
  since `ThroughInv` and `CommitInv` leave no report of a request that is not held; the last
  reply is a `Receive` because of `PendingInv`: a D rank still counts at least as many
  replies as there are P ranks that have not written the request or whose pull is open, so the
  reply that takes the count to zero comes after all copies (`LastCopied`), also when
  other replies were errors or came too late.
* `FlagCXProofs!CopiesFromAll`, and from it `ReceivedIsWhole` and `SentIsWhole`, again if no
  write outlasts the timer. `WholeInv` adds to `HandOffInv` that no entry counts more D ranks
  than are through with it and have a copy (`SentInv`). A commit counts one that was not
  among them (`CommitAnswers`), so the commit that completes an entry leaves no D rank
  without a copy (`ServedStep`); on the other side `LastCopied` says the same of the last reply.
  `ReceivedWhole` and `SentWhole` follow for every number of ranks and transfers if the plans of
  the ranks together cover what was asked for (`PlansTile`). That is a property of the layouts
  alone, without a step in it: the runs `gather` and `fanout` evaluate it on every case
  they have, and it is not proved as a whole.
* `FlagCXProofs!PlanCopiesSharedHeads` and `WritesCarryThePlan` are what is proved of it, for every
  layout: the slice of `_compute_sender_transfer_plan` is exactly the heads that the two
  ranks share, at their place in both blocks, whenever the lengths pass
  `_validate_asymmetric_region_lengths` (a larger block is tiled by the smaller ones,
  `BlockWithin`); and the writes carry what the plan says of each block and nothing else,
  coalesced or not. The latter rests on the runs of
  `group_concurrent_contiguous`: each block is in exactly one (`RunsCover`, `RunsApart`), along which
  both sides advance by one (`RunsContiguous`).
* `OpDispatchProofs!RegistryTypeCorrect`, `CandidatesAlwaysRanked` and
  `PrimaryAlwaysAgrees`: `RegistrySpec => []` of `RegistryTypeOK`, `CandidatesRanked` and
  `PrimaryAgrees`. The module extends the manager and the registry it uses.
  The state matters little here, the loops are everything. A sorted set puts each
  member at its rank, which is a bijection because priorities with ids are a strict
  total order (`SortedFacts`). The matches of all tokens one after the other are laid
  out by token and rank (`Laid`, `FlattenLays`). An implementation that comes for the
  first time comes with the token of its place, so it follows all that stand before
  it (`Follows`); hence the fold that drops repetitions leaves a list in the order
  `Before` (`KeptRanked`). Its first entry is the `Foremost` candidate, whose place is the
  first token that matches anything, and it is the highest of what matches there
  (`ResolveFacts`), which is what `resolve()` takes.
* `OpDispatchProofs!TypeCorrect`, `Spec => []TypeOK`, from a lemma per group of actions.
* `OpDispatchProofs!PolicyAlwaysRespected`, `Spec => []PolicyRespected`. Added
  (`SelectionInv`): every entry of both caches holds only what its policy
  permits. A step can only lose a candidate by shrinking the registry, and no action
  does (`RegistryGrows`, `MoreToChooseFrom`).
* `OpDispatchProofs!NeverGivesUpSound`, `Spec => []NeverGivesUp`. Added (`HopeInv`): only
  implementations that may fail are marked, and a call in fallback mode has given up
  only such ones; before its lookup it has chosen nothing.
* `OpDispatchProofs!CachesAlwaysExact`, `Spec => []CachesExact`. Added (`ExactInv`): no key
  is ahead of the epoch; a call about to store under the current epoch holds exactly what
  it should; and while a registration runs, or none has run yet in this process
  (`NotReady`), nobody is past initialization and both caches are empty. The last part is
  why a detection that raises halfway, without a new epoch, does no harm.
* `OpDispatchProofs!LockAlwaysReleased`, `Spec => []LockReleased`: the lock stays with a
  thread only while it registers, or in a child forked meanwhile.
* `OpDispatchProofs!FailsAtMostOncePerThread`, `Spec => []FailsOncePerThread`, for finitely
  many threads. Added (`FailureInv`): the failures of an implementation and the threads
  that can still add one before the next clearing (`CanStillFail`) are together no more
  than all threads. Until the implementation is marked these are the threads that have no
  failure of it waiting to be marked; afterwards only those that were past the filter.
* `CachedOpsProofs!TypeCorrect`, `Spec => []TypeOK`. That a CachedOp publishes an
  implementation needs `ForemostOne`: a nonempty set of selectable candidates has exactly one
  foremost member. `Before` is a strict total order on it because every candidate has a
  first token (`PlaceFirst`) and ids differ; the least element comes from the
  well-foundedness of finite sets under inclusion.
* `CachedOpsProofs!NeverTriedTwice`, `Spec => []NoSecondTry`. Added (`MarkInv`): a call
  that has yet to choose holds nothing, and one that goes to the manager has marked what it
  holds, unless something changed under it.
* `CachedOpsProofs!BindingAlwaysOwn` and `OpAlwaysOwn`, `Spec => []BindingRunsOwnChoice`
  and `Spec => []OpRunsOwnChoice` if policies change between calls only (`Quiet`; what
  happens otherwise is in section 5). `BindInv` says that the key's policy is the one the
  candidates were resolved for, although `Bind` takes them from two reads, and that what a
  current key or call holds is that policy's candidates less some that have failed; as the
  policy of the launch is then the one of the resolve, the first of these by `Ahead` (a strict
  total order: `DefaultRank`, and `Before` among equals) is the best that supports the
  workload except for failed ones, for every default order and every guard. `OpInv` that the op
  is never of a later policy epoch and, if of this one while the threads agree, it is
  their choice; every change of a policy takes a new epoch, which empties that condition.
* `PolicyActivationProofs!TypeCorrect`, `LocksAlwaysOrdered`, `BatchesAreAtomic`,
  `PatchesAreOfThePlan`, `OnePlanForLife`: `Spec => []` of `TypeOK`, `LocksOrdered`,
  `BatchAtomic` and `PatchesOfThePlan`, and that an active plan never changes. One
  invariant gives them all: where each lock is held (`LockInv`), no plan is active
  while one is being activated (`AloneInv`), a record belongs to a plan that patches the
  attribute or to a thread inside a constructor, and an attribute without one has its
  pristine or a foreign value (`RecordInv`), the batch under way is all of the plan or
  nothing, and what it would restore is no patch (`BatchInv`), and outside of it a plan's
  records are all there or none (`WholeInv`), and only its own activation or its being active
  puts them there (`OwnInv`).
* `PolicyActivationProofs!PolicyAlwaysFollowsPlan`, `Spec => []PolicyFollowsPlan`, with
  `CacheInv`: a policy cached between refresh and publication has flagged the window.
* `PolicyActivationProofs!ValidatedStaysEffective` and `AlwaysServedAsRequired`,
  `Spec => []ValidatedIsEffective` and `Spec => []ServedAsRequired`. Validation computes
  the policy before the plan is active, from whatever is cached then. `ValidInv`: what
  a thread has validated is `PolicyWith` its plan's defaults as long as no other plan is
  active and nobody has changed the explicit policy. `LayerInv`: only the policy of the
  environment is cached, and that of before a plan not beyond the window. The
  key lemma (`ForPlanFromScratch`) is that merging a plan's defaults under a policy that
  was merged without them gives what merging all layers at once gives. The second
  theorem follows without induction: the capability check has gone through
  every order that the effective policy can have for a required operator.
* `GraphCaptureProofs!TypeCorrect`, `UpdatesOwn`, `RefusalsJustified`, `TasksRunOwn`:
  `Spec => []` of `TypeOK`, `UpdatesOwnGraph`, `RefusedOnlyForSameShape` and
  `TasksRunWithOwnStep`, from one invariant. Its parts: the registry is empty outside of a
  phase that captures (`CleanInv`); an entry's graph is of the right pool, and its shape's
  registered tasks are exactly that graph's (`EntryInv`); a capture under way has
  registered a prefix of its own (`CaptureInv`); an update rebinds the graph it has
  enqueued (`UpdateInv`); what is still to be captured has no entry (`TodoInv`); and the
  device: one replay at most is under way, the host has enqueued some number m of its
  updates, of which the first `done` have run; the recorded events are exactly those of
  the tasks from the replay's current one up to `done`, each bound to this step
  (`DeviceInv`, `Progress`). The last part rules out that an event which one replay left
  recorded lets a task of the next one run with what it was bound to before.
* `IODumpProofs!TypeCorrect` and `LinesAlwaysInOrder`, `Spec => []TypeOK` and
  `Spec => []LinesInOrder`. `TypeInv` adds that what waits in a handle is finite
  and that jobs and pairings have numbers of their own, not 0; so `RunEnd` exists, by the
  cardinality of what waits. `LineInv`: an open file's lines are those its handle counted past.
* `IODumpProofs!OutputsAlwaysFiled`, `Spec => []OutputsFiledWithInputs`. Calls whose output is
  filtered leave a pairing behind, so stack and pairings do not simply agree. `PairInv` says
  what does hold: while limits let the output of a call through that is not astray, they have let through
  the inputs of all calls of that operator the thread is in (counters only grow and a
  step does not change while calls run), and the newest pairings are theirs, in the
  order of the stack.
* `IODumpProofs!FilesAlwaysComplete`, `Spec => []CompleteUpToHole`, with any number of failures.
  Added: a call handed over is queued, waits in its file's handle, has been counted past or is
  lost, nothing else is in one of these places, and a handle never stops at a call that has
  come (`Accounted`); the inputs handed over in a step, lost ones included, are numbered 1
  to the operator's counter (`InputsCounted`).
* `IODumpProofs!ChildrenAlwaysInherit`, `Spec => []ChildInherits`: for any environment and
  any arguments whose layers are of the settings' types (`Layer`, `TextLayer`), what
  `_set_env_vars` writes resolves to the settings it was written from. It needs no
  invariant but itself and the types; the work is in showing, field by field, that
  writing a setting as text and parsing it again gives it back, that what is not written
  is the default, and that the later steps of the process leave both alone.
* `ModelRunnerProofs!MatchersAlwaysFollow` and `MasksAlwaysOwn`,
  `Spec => []MatchersFollowOutput` and `Spec => []MasksAreOwn`. The advance over drafts and its
  rollback are inverse for each request that is ruled by a grammar (`AdvanceUndone`). The
  fill in batches puts the row of a position before its draft at `CurrentRow` and the bonus row
  after it at `BonusRow`; these rows are distinct and cover the mask (`RowsDistinct`,
  `RowsExist`, by counting the requests with drafts before each one), so row by row the
  result is that of the base manager (`RowsByNumber`, `MaskIsBase`). The invariant
  `MaskInv` adds types of the requests, of what the ranks still have to execute, of
  steps under way and of outputs (`TypeInv`): a mask is only asked for a request in a
  step that is under way, whose drafts are those it was scheduled with.
* `ModelRunnerProofs!StepsAlwaysContinue` and `OutputsAlwaysComplete`,
  `Spec => []StepsContinue` and `Spec => []OutputsComplete`. Neither is inductive: a step is
  scheduled before the one ahead of it has run, with a guess of where that one
  ends, and is corrected when it is executed itself. `LineInv` accounts for each request over
  all that is under way on the last rank, at most two steps, each of which is scheduled, executed
  or sampled. Its centre is `CountInv`: what the scheduler counts as computed is the
  length of the cache (0 for a request that starts again, `Base`), plus the positions of steps
  still to be sampled, plus the drafts in outputs that were refused and not yet taken back;
  its placeholders are what these steps owe; its output and what waits in `outputs` are
  what was sampled. `AimInv` says of each scheduled step where it will continue once the
  ones before it have run: less what the runner is going to correct (`Shift`), this is the end of
  the cache. It needs `DraftInv`: no step passes between one that has drafts and the one that corrects
  them, since the scheduler does not process an output with drafts before the next step is
  scheduled, if one can be. `RoomInv` and `PlainInv` relate the output tokens the runner
  holds to those the scheduler counts, with and without asynchronous scheduling, so that
  `Discarded` is exactly the steps that do not reach the last token (`WorkerInv`). TLC had
  found every part true in all states of the run `engine`. There is one lemma per
  action and part; `Steady` is for the steps that leave the last rank alone, and the
  mode `pp`'s first rank is one of them: these two theorems are about the last rank.
* `RunnerInputsProofs!LastRankInputsAreOwn`, `Spec => []LastInputs`: in every mode
  the rank that samples computes each position from the request's own token; and
  `InputsAlwaysOwn`, `Spec => []InputsAreOwnTokens`: so does every rank. The
  inputs depend on state that four actions leave behind at different times, so `LastInv`
  adds to `LineInv`, for each request: a step that reaches the last token computes
  it and the drafts, no more (`ExactInv`); how many of the outputs a scheduled step counts are
  real (`TokensInv`); what is left on the device is the request's newest token, in the row
  the previous step had it in (`PrevInv`), and a request that starts again has left
  the device by then (`AgainInv`); drafts follow the token they are drafted after (`AfterInv`); what is
  not on the device is in the CPU's row (`RowInv`). From these `FittingInputs`, a
  lemma about `RunnerBatch` alone, computes the flattened batch: the rows' slices tile it
  (`Ends`), each scattered index lies in the slice of the row it is meant for and in no other, and the
  shortcut for an unchanged batch copies the same tokens.
  The first rank of a pipeline (modes `pp` and `syncpp`) does not sample: it runs the same
  scheduler outputs, up to two ahead of the last rank or behind it on empty ones (`Lead`,
  `FrontBoxes`), and `FrontInv` relates the two. Its batch is the one of the last step it executed
  (`FrontRows`); it knows every request that it may be asked to go on with (`FrontKnows`). With
  asynchronous scheduling only the step it has under way can be one that samples, all others that
  wait for the last rank are chunks of a prompt (`FrontMatch`): this is why what it
  receives (`FrontSent`) is for its own batch, in its own order, although the last rank is not in step
  with it; what it has on the device is then what the last rank has there (`FrontPrev`), and it
  counts exactly the tokens sampled (`FrontTokens`). Without asynchronous scheduling it has the
  tokens up to where any step continues (`FrontPlain`), since each output brings those
  that were sampled since the last one. TLC had found `FrontInv` true in all states of the run
  `engine`.

Induction over data is done with sets here (`NatSteps`: a set with 0 and the successor of each
of its members holds every number, by well-foundedness), since the library's
induction theorems take an operator as parameter; that a recursive function exists
is proved for each function by an induction over its prefixes.

Only model-checked: the liveness properties (`EveryPullEnds`, `BlocksReleased` and the
others of section 4), which are out of the prover's reach; and `PlansTile`, an arithmetic over
lists of regions, case by case of the instance. The temporal ones are the only properties of a
passing run that no theorem states.

## 7. Not modelled, and why

Most of the repository's lines are models, kernels, quantization, vendor backends and
processors (part I): numeric code and device calls that keep no state other parts
read. They are the reason why the models map a small share of all lines; a
definition for them would be a transliteration of tensor code with nothing to check.

Left out of the parts that are modelled:

* A: registration and handshake of memory regions, shutdown, statistics, the
  truncation of a preempted prefill's prompt (439) and the clipping of sliding windows (412).
* G: partially replicated heads where a consumer rank holds several heads (2 heads, P TP 4,
  D TP 1, of which only rank 0's would be sent), and a replicating producer with a Mamba
  state sharded per rank: the code does not support them and does not refuse them.
* B: capability predicates, the text of environment and files, discovery's import
  machinery (its outcomes are modelled), several operators at once.
* C: the signature check of a patch, `reset_activation_for_tests`.
* D: failures of the manager's hooks outside of `_dump_input` and `_dump_output` (filters, tags,
  printing; manager.py:485 passes over them) and of flushing or closing a file, after which
  `lines` are those handed to the file object; `torch_funcs` and `bg_workers` among the settings
  (`ChildInherits` does not cover them); console printing, summary.json, `.pt` files, layer and rank filters (merged as those
  that are modelled), the torch-function mode (which has the shape of the dispatch mode),
  `pause/resume_dispatch_modes` (without callers).
* E: wrappers without a controller, `BreakableCUDAGraphWrapper`, encoder graphs, workspaces,
  capture-size limits of single vendors, several attention implementations bound at once.
* H: multimodal inputs, LoRA, pooling, ngram drafts and Mamba states, KV connectors inside
  the runner, prompt log-probabilities, data parallelism, prefix-cache hits, reuse of a
  request's id, and all numeric work.
