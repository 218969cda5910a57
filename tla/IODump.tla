------------------------------- MODULE IODump -------------------------------
(***************************************************************************)
(* The IO dumper (vllm_fl/dispatch/io_dumper.py): what operators take and  *)
(* give is queued by the threads that run them, measured by a pool in the  *)
(* background and written to one JSON-lines file per operator, direction   *)
(* and step, in the order of the calls.                                    *)
(*                                                                         *)
(* Two ways lead to it.  Managed operators are wrapped by _call_with_hooks *)
(* (dispatch/manager.py): dump_before, the operator, dump_after or, when it*)
(* raises, dump_cleanup.  ATen operators, called by themselves or inside a *)
(* managed one, are caught by a torch dispatch mode, which is entered only *)
(* while dumping is on and, with a step range, from its first step.        *)
(*                                                                         *)
(* A hook that fails and a task that raises are logged and passed over:    *)
(* the operator runs on, and what they should have written is missing.     *)
(***************************************************************************)
EXTENDS IODumpConfig, SequencesExt

CONSTANTS
    Ops,       \* operators
    Managed,   \* those called through the manager, the others are ATen's
    ModuleOf,  \* the module class around each operator
    Threads,   \* threads that run managed operators
    Main,      \* the one the runner uses: the dispatch mode is its own
    Workers,   \* _bg_workers
    Envs, Yamls, Apis, \* what the environment, the file, the caller may say
    MaxStep, MaxDepth, MaxNum, MaxSessions, MaxFaults
               \* bounds: steps, nesting, calls of a step, enables, failures

ASSUME DumpAssumption ==
    /\ IsFiniteSet(Ops) /\ Managed \subseteq Ops
    /\ Main \in Threads
    /\ Workers \in Nat \ {0}
    /\ \A l \in Envs \cup (Yamls \ {NoFile}) : TextLayer(l)
    /\ \A l \in Apis : Layer(l)

VARIABLES
    env,      \* VLLM_FL_IO_DUMP* of this process
    yaml,     \* the io_dump section of the file VLLM_FL_CONFIG names
    cfg,      \* _enabled and the resolved settings
    entered,  \* dispatch_mode_mgr.is_entered("dump")
    step,     \* _step_counter
    counters, \* _call_counters
    stack,    \* the operators each thread is in, outermost first
    pairing,  \* _dump_pairing of a thread: per operator what dump_before left
    jobs,     \* _pending_futures that are not done, oldest first
    handles,  \* _open_file_handles of this step: absent or pending/next_write
    lines,    \* the calls whose lines are in the files of this step
    phase,    \* "run", or the main thread waits for the jobs of a step or
              \* of a disable
    sessions, \* enables so far (bound)
    dumped,   \* history: per file of this step, the calls it was to have
    lost,     \* history: those of them whose line a failure has swallowed
    faults    \* failures so far (bound)

configVars == <<env, yaml, cfg, sessions>>
fileVars == <<handles, lines>>
callVars == <<stack, pairing, counters>>
faultVars == <<lost, faults>>
vars == <<configVars, fileVars, callVars, faultVars, entered, step, jobs, phase, dumped>>

Files == Ops \X {"in", "out"}
Elsewhere == <<>>  \* any file of an earlier step

(* The step and number of a call, under which it is paired and filed.      *)
Call == [step : Nat, num : Nat]
NoCall == [step |-> 0, num |-> 0]

(* An operator on a stack.  own is the call its dump_before was given,     *)
(* NoCall if it was filtered; it is astray once its hook, or that of a     *)
(* call of the same operator inside, has failed to remember the call: its  *)
(* output may then be filed as another's.                                  *)
Frame == [op : Ops, own : Call, astray : BOOLEAN]

(* A queued _bg_compute_and_write: where it writes, and whose data it has. *)
Job == [file : Files \cup {Elsewhere}, call : Call, own : Call, astray : BOOLEAN]

Handle == [pending : SUBSET (Nat \ {0}), next : Nat \ {0}]

NewHandle == [pending |-> {}, next |-> 1]

Empty(S) == [x \in S |-> <<>>]

Init ==
    /\ env \in Envs
    /\ yaml \in Yamls
    /\ cfg = Off
    /\ entered = FALSE
    /\ step = 0
    /\ counters = [o \in Ops |-> 0]
    /\ stack = Empty(Threads)
    /\ pairing = [t \in Threads |-> Empty(Ops)]
    /\ jobs = <<>>
    /\ handles = [f \in Files |-> {}]
    /\ lines = Empty(Files)
    /\ phase = "run"
    /\ sessions = 0
    /\ dumped = [f \in Files |-> {}]
    /\ lost = [f \in Files |-> {}]
    /\ faults = 0

Idle == phase = "run" /\ \A t \in Threads : stack[t] = <<>>

-----------------------------------------------------------------------------
(* Filters.                                                                *)

InRange(s) == cfg.range = None \/ (cfg.range[1] <= s /\ s < cfg.range[2])
CheckLimits(o) == InRange(step) /\ (cfg.max > 0 => counters[o] < cfg.max)

ShouldDump(o) ==
    /\ CheckLimits(o)
    /\ \/ cfg.all
       \/ /\ cfg.modules # {} => ModuleOf[o] \in cfg.modules
          /\ cfg.ops # {} => o \in cfg.ops
          /\ cfg.ops # {} \/ cfg.modules # {}

(* __torch_dispatch__ asks the same in another order.  With neither a      *)
(* module nor an operator named it lets everything through.                *)
ShouldIntercept(o) ==
    /\ CheckLimits(o)
    /\ cfg.ops # {} => o \in cfg.ops
    /\ (cfg.modules # {} /\ ~cfg.all) => ModuleOf[o] \in cfg.modules

(* Per-call files are wanted at all.                                       *)
Writing == cfg.metas /\ cfg.dir # ""

-----------------------------------------------------------------------------
(* Calls.                                                                  *)

Fault == faults < MaxFaults /\ faults' = faults + 1

HandOver(f, num) == dumped' = [dumped EXCEPT ![f] = @ \cup {num}]
Lose(f, num) == lost' = [lost EXCEPT ![f] = @ \cup {num}]

(* The directory of a call is that of its step.                            *)
Submit(io, call, f) ==
    LET file == IF call.step = step THEN <<f.op, io>> ELSE Elsewhere
    IN /\ jobs' = Append(jobs, [file |-> file, call |-> call, own |-> f.own,
                                astray |-> f.astray])
       /\ IF file = Elsewhere THEN UNCHANGED dumped ELSE HandOver(file, call.num)

Push(t, f) == stack' = [stack EXCEPT ![t] = Append(@, f)]

(* The calls of o in the stack s may take each other's pairings.           *)
Astray(s, o) == [d \in DOMAIN s |->
                   [s[d] EXCEPT !.astray = @ \/ s[d].op = o]]

(* _dump_input: number the call, remember it for its output, queue it.  It *)
(* may fail on the way (the directory, the event, the pool), before or     *)
(* after the call is remembered.                                           *)
DumpInput(t, o) ==
    LET call == [step |-> step, num |-> counters[o] + 1]
        f    == [op |-> o, own |-> call, astray |-> FALSE]
        Remember == pairing' = [pairing EXCEPT ![t][o] = Append(@, call)]
        Fails    == /\ Fault
                    /\ HandOver(<<o, "in">>, call.num) /\ Lose(<<o, "in">>, call.num)
                    /\ UNCHANGED jobs
    IN /\ counters' = [counters EXCEPT ![o] = call.num]
       /\ \/ Push(t, f) /\ Remember /\ Submit("in", call, f) /\ UNCHANGED faultVars
          \/ Push(t, f) /\ Remember /\ Fails
          \/ /\ stack' = [stack EXCEPT ![t] = Astray(Append(@, f), o)]
             /\ UNCHANGED pairing
             /\ Fails

Filtered(t, o) ==
    /\ Push(t, [op |-> o, own |-> NoCall, astray |-> FALSE])
    /\ UNCHANGED <<counters, pairing, jobs, dumped, faultVars>>

Enter(t, o, wanted) ==
    /\ IF wanted /\ Writing THEN DumpInput(t, o) ELSE Filtered(t, o)
    /\ UNCHANGED <<configVars, fileVars, entered, step, phase>>

(* MaxNum, MaxDepth: bounds of an instance.                                *)
MayEnter(t, o) ==
    /\ phase = "run" /\ cfg.on
    /\ counters[o] < MaxNum /\ Len(stack[t]) < MaxDepth
    /\ stack[t] # <<>> => Last(stack[t]).op \in Managed

(* OpManager._call_with_hooks up to the operator: dump_before.             *)
CallManaged(t, o) ==
    /\ o \in Managed
    /\ MayEnter(t, o)
    /\ Enter(t, o, ShouldDump(o))

(* __torch_dispatch__ up to the operator.                                  *)
CallAten(o) ==
    /\ o \notin Managed
    /\ entered
    /\ MayEnter(Main, o)
    /\ Enter(Main, o, ShouldIntercept(o))

PopPairing(t, o) ==
    pairing' = [pairing EXCEPT ![t][o] = IF @ = <<>> THEN @ ELSE Front(@)]

(* Mutant: pairs with the oldest call.                                     *)
DumpOutputOldest(t, f) ==
    /\ pairing' = [pairing EXCEPT ![t][f.op] = IF @ = <<>> THEN @ ELSE Tail(@)]
    /\ IF pairing[t][f.op] = <<>> THEN UNCHANGED <<jobs, dumped>>
       ELSE Submit("out", Head(pairing[t][f.op]), f)
    /\ UNCHANGED faultVars

(* _dump_output: file the result under the newest call of this operator    *)
(* that has no output yet; with none, do nothing.  It may fail once the    *)
(* call is taken.                                                          *)
DumpOutput(t, f) ==
    /\ PopPairing(t, f.op)
    /\ \/ /\ pairing[t][f.op] = <<>>
          /\ UNCHANGED <<jobs, dumped, faultVars>>
       \/ /\ pairing[t][f.op] # <<>>
          /\ Submit("out", Last(pairing[t][f.op]), f)
          /\ UNCHANGED faultVars
       \/ /\ pairing[t][f.op] # <<>>
          /\ Fault
          /\ UNCHANGED <<jobs, dumped, lost>>

(* dump_after evaluates every filter again, the count of calls included;   *)
(* the dispatch mode does not.                                             *)
WantsOutput(f) == IF f.op \in Managed THEN ShouldDump(f.op) ELSE f.own # NoCall

(* The operator returns.                                                   *)
Return(t) ==
    /\ phase = "run" /\ stack[t] # <<>>
    /\ LET f == Last(stack[t])
       IN IF WantsOutput(f) /\ Writing THEN DumpOutput(t, f)
          ELSE UNCHANGED <<pairing, jobs, dumped, faultVars>>
    /\ stack' = [stack EXCEPT ![t] = Front(@)]
    /\ UNCHANGED <<configVars, fileVars, counters, entered, step, phase>>

(* The operator raises: dump_cleanup pops, whether or not dump_before      *)
(* pushed; the dispatch mode pops only behind its own filters.             *)
Raise(t) ==
    /\ phase = "run" /\ stack[t] # <<>>
    /\ LET f == Last(stack[t])
       IN IF f.op \in Managed \/ f.own # NoCall THEN PopPairing(t, f.op)
          ELSE UNCHANGED pairing
    /\ stack' = [stack EXCEPT ![t] = Front(@)]
    /\ UNCHANGED <<configVars, fileVars, faultVars, counters, entered, step, jobs, phase,
                   dumped>>

-----------------------------------------------------------------------------
(* The background pool.                                                    *)

(* The lines that can be written once S waits: S from n without a gap.     *)
RunEnd(S, n) == CHOOSE m \in n .. n + Cardinality(S) :
    n .. m - 1 \subseteq S /\ m \notin S

Counted(n, m) == [i \in 1 .. m - n |-> n + i - 1]

(* Mutant: a line is written when it comes.                                *)
WrittenAtOnce(h, num) ==
    [handle |-> [h EXCEPT !.next = num + 1], out |-> <<num>>]

(* The handle h after the line of call num has come, and the lines written.*)
Written(h, num) ==
    LET S == h.pending \cup {num}
        m == RunEnd(S, h.next)
    IN [handle |-> [pending |-> S \ (h.next .. m - 1), next |-> m],
        out |-> Counted(h.next, m)]

(* The same if writing line k of them raises: the line is gone, and the    *)
(* handle goes on waiting for it.                                          *)
Broken(h, num, k) ==
    [handle |-> [pending |-> (h.pending \cup {num}) \ (h.next .. k), next |-> k],
     out |-> Counted(h.next, k)]

HandleOf(f) == IF handles[f] = {} THEN NewHandle ELSE CHOOSE h \in handles[f] : TRUE

Keep(f, w) == /\ handles' = [handles EXCEPT ![f] = {w.handle}]
              /\ lines' = [lines EXCEPT ![f] = @ \o w.out]

(* One of the tasks that the pool has started ends.                        *)
TaskEnds(i) ==
    /\ i \in 1 .. Len(jobs) /\ i <= Workers
    /\ jobs' = RemoveAt(jobs, i)
    /\ UNCHANGED <<configVars, callVars, entered, step, phase, dumped>>

(* Mutant: a task whose file is not open fails and its future stays.       *)
BgOpenFilesOnly(i) ==
    /\ TaskEnds(i)
    /\ jobs[i].file # Elsewhere => handles[jobs[i].file] # {}
    /\ UNCHANGED <<fileVars, faultVars>>

(* ... with its line queued and what can be written written.  Files of     *)
(* earlier steps are not followed.                                         *)
BgComputeAndWrite(i) ==
    /\ TaskEnds(i)
    /\ LET f == jobs[i].file
       IN IF f = Elsewhere THEN UNCHANGED fileVars
          ELSE Keep(f, Written(HandleOf(f), jobs[i].call.num))
    /\ UNCHANGED faultVars

(* ... with an exception, which its future keeps: before the line is       *)
(* queued (waiting for the device, measuring, opening the file) ...        *)
BgComputeRaises(i) ==
    /\ TaskEnds(i)
    /\ jobs[i].file # Elsewhere
    /\ Fault
    /\ Lose(jobs[i].file, jobs[i].call.num)
    /\ UNCHANGED fileVars

(* ... or while lines are written, its own or those that waited for it.    *)
BgWriteRaises(i) ==
    /\ TaskEnds(i)
    /\ jobs[i].file # Elsewhere
    /\ Fault
    /\ LET f   == jobs[i].file
           num == jobs[i].call.num
           h   == HandleOf(f)
       IN \E k \in h.next .. Written(h, num).handle.next - 1 :
             Keep(f, Broken(h, num, k)) /\ Lose(f, k)

BgTask(i) == BgComputeAndWrite(i) \/ BgComputeRaises(i) \/ BgWriteRaises(i)

-----------------------------------------------------------------------------
(* The runner's step, and switching the dumper on and off.                 *)

(* _on_step_advance enters the mode if the range begins with step s.       *)
StepEnters(s) == cfg.range # None /\ InRange(s)

(* advance_io_step, after forward and sampling.                            *)
AdvanceStep ==
    /\ Idle /\ cfg.on /\ step < MaxStep
    /\ step' = step + 1
    /\ entered' = (entered \/ StepEnters(step + 1))
    /\ counters' = [o \in Ops |-> 0]
    /\ phase' = "step"
    /\ UNCHANGED <<configVars, fileVars, faultVars, stack, pairing, jobs, dumped>>

(* An error of closing is passed over.                                     *)
CloseOpenFiles ==
    /\ handles' = [f \in Files |-> {}]
    /\ lines' = Empty(Files)
    /\ dumped' = [f \in Files |-> {}]
    /\ lost' = [f \in Files |-> {}]
    /\ UNCHANGED faults

(* Mutant: the files are closed under jobs that still run.                 *)
FlushStepAtOnce ==
    /\ phase = "step"
    /\ CloseOpenFiles
    /\ phase' = "run"
    /\ UNCHANGED <<configVars, callVars, entered, step, jobs>>

(* _wait_and_flush: all jobs are done, those that have raised are logged,  *)
(* the files are closed with whatever they have.                           *)
FlushStep ==
    /\ phase = "step" /\ jobs = <<>>
    /\ CloseOpenFiles
    /\ phase' = "run"
    /\ UNCHANGED <<configVars, callVars, entered, step, jobs>>

(* _activate_hooks: with a range that starts later the mode is left to the *)
(* step callback.                                                          *)
ActivateHooks(c) ==
    entered' = (entered \/ c.range = None \/ c.range[1] = 0)

(* enable_io_dump.  It is called with dumping off and between steps.       *)
Enable(api) ==
    /\ Idle /\ ~cfg.on /\ sessions < MaxSessions
    /\ LET c == EnableConfig(env, yaml, api)
       IN /\ cfg' = c
          /\ ActivateHooks(c)
          /\ env' = SetEnvVars(c)
    /\ sessions' = sessions + 1
    /\ UNCHANGED <<yaml, fileVars, callVars, faultVars, step, jobs, phase, dumped>>

(* init_io_dump_from_env, when a worker has loaded its model.              *)
InitIODumpFromEnv ==
    /\ Idle /\ ~cfg.on /\ sessions < MaxSessions
    /\ InitFromEnv(env, yaml).on
    /\ cfg' = InitFromEnv(env, yaml)
    /\ ActivateHooks(cfg')
    /\ sessions' = sessions + 1
    /\ UNCHANGED <<env, yaml, fileVars, callVars, faultVars, step, jobs, phase, dumped>>

(* disable_io_dump: no new jobs, the mode is left.                         *)
Disable ==
    /\ Idle /\ cfg.on
    /\ cfg' = [cfg EXCEPT !.on = FALSE]
    /\ entered' = FALSE
    /\ phase' = "disable"
    /\ UNCHANGED <<env, yaml, sessions, fileVars, callVars, faultVars, step, jobs, dumped>>

(* ... wait, _reset_state and _clear_env_vars.  Pairings stay: they are    *)
(* the threads' own.                                                       *)
FlushDisable ==
    /\ phase = "disable" /\ jobs = <<>>
    /\ CloseOpenFiles
    /\ cfg' = Off
    /\ env' = Silent
    /\ counters' = [o \in Ops |-> 0]
    /\ phase' = "run"
    /\ UNCHANGED <<yaml, sessions, stack, pairing, entered, step, jobs>>

-----------------------------------------------------------------------------
Next ==
    \/ \E t \in Threads : \/ \E o \in Ops : CallManaged(t, o)
                          \/ Return(t) \/ Raise(t)
    \/ \E o \in Ops : CallAten(o)
    \/ \E i \in 1 .. Workers : BgTask(i)
    \/ AdvanceStep \/ FlushStep
    \/ \E api \in Apis : Enable(api)
    \/ InitIODumpFromEnv
    \/ Disable \/ FlushDisable

Spec == Init /\ [][Next]_vars

(* The pool ends what it was given, one way or the other, and the main     *)
(* thread goes on when it may.                                             *)
FairSpec ==
    /\ Spec
    /\ WF_vars(\E i \in 1 .. Workers : BgTask(i))
    /\ WF_vars(FlushStep) /\ WF_vars(FlushDisable)

-----------------------------------------------------------------------------
(* Every variable has its type.                                            *)
TypeOK ==
    /\ cfg.on \in BOOLEAN
    /\ entered \in BOOLEAN
    /\ step \in Nat /\ sessions \in Nat
    /\ counters \in [Ops -> Nat]
    /\ stack \in [Threads -> Seq(Frame)]
    /\ pairing \in [Threads -> [Ops -> Seq(Call)]]
    /\ jobs \in Seq(Job)
    /\ handles \in [Files -> SUBSET Handle]
    /\ lines \in [Files -> Seq(Nat)]
    /\ phase \in {"run", "step", "disable"}
    /\ dumped \in [Files -> SUBSET Nat] /\ lost \in [Files -> SUBSET Nat]
    /\ faults \in Nat

(* A file's lines are those of the calls 1, 2, ... in this order and none  *)
(* twice, in whatever order the pool completes them (_WipHandle).          *)
LinesInOrder == \A f \in Files : lines[f] = Counted(1, Len(lines[f]) + 1)

(* When a step or a session is closed, a file has its lines up to a call   *)
(* that left none: it was not to have one, or a failure of a hook or of a  *)
(* task, which the flush passes over, has swallowed it.  An input file     *)
(* that lost no line has all its calls.                                    *)
Closing == phase # "run" /\ jobs = <<>>
CompleteUpToHole == Closing =>
    /\ \A f \in Files :
          /\ 1 .. Len(lines[f]) \subseteq dumped[f]
          /\ Len(lines[f]) + 1 \notin dumped[f] \ lost[f]
    /\ \A o \in Ops : LET f == <<o, "in">> IN
          lost[f] = {} => Len(lines[f]) = Cardinality(dumped[f])

(* An output is filed under the step and the number of its own input,      *)
(* through nested calls, calls that raise, and calls that a limit filters  *)
(* before or after the operator; except while calls are under way in which *)
(* a hook of the same operator has failed to remember its call.            *)
OutputsFiledWithInputs ==
    \A i \in 1 .. Len(jobs) : jobs[i].astray \/ jobs[i].call = jobs[i].own

(* A process started now resolves the settings this one has, if no file    *)
(* has an io_dump section, the filters are not empty by request and the    *)
(* directory has none of the names that mean something else.               *)
Inheritable == /\ yaml = NoFile /\ cfg.dir \notin {"0", "1"}
               /\ cfg.all \/ cfg.ops # {} \/ cfg.modules # {}
ChildInherits == (cfg.on /\ Inheritable) => InitFromEnv(env, yaml) = cfg

(* Every step and every disable is completed.                              *)
FlushEnds == phase # "run" ~> phase = "run"
=============================================================================
