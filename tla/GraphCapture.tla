---------------------------- MODULE GraphCapture ----------------------------
(***************************************************************************)
(* Full graphs on a device whose attention tasks are rebound at every      *)
(* replay: GraphWrapper (compilation/graph.py), the registry of captured   *)
(* tasks (compilation/graph_params.py), the controller around capture and  *)
(* replay (compilation/graph_runtime.py), the tasks of the Ascend backend, *)
(* and the runner that profiles, captures, serves and shuts down           *)
(* (worker/model_runner.py).                                               *)
(*                                                                         *)
(* The host only enqueues.  A replay runs on the main stream and stops at  *)
(* each attention task until the task's event is recorded; the updates of  *)
(* the tasks and the records run on a stream of their own.                 *)
(***************************************************************************)
EXTENDS Integers, Sequences, FiniteSets

CONSTANTS
    Descs,      \* batch descriptors that are captured
    ShapeOf,    \* num_tokens of a descriptor
    Tasks,      \* attention layers of the model
    Faults,     \* what may raise, a subset of {"capture", "enqueue", "update"}
    MaxGraphs,  \* bound: graphs captured in all
    MaxSteps,   \* bound: replays in all
    MaxStarts   \* bound: runners started one after another

ASSUME GraphAssumption ==
    /\ Descs # {}
    /\ Tasks \in Nat \ {0}
    /\ ShapeOf \in [Descs -> Nat \ {0}]
    /\ Faults \subseteq {"capture", "enqueue", "update"}
    /\ MaxGraphs \in Nat /\ MaxSteps \in Nat /\ MaxStarts \in Nat

VARIABLES
    phase,     \* of the runner
    starts,    \* runners so far
    todo,      \* descriptors still to be captured in this phase
    enabled,   \* set_cudagraph_capturing_enabled
    pool,      \* the wrapper's graph_pool
    entries,   \* concrete_graph_entries: descriptor -> its graph, 0 for none
    params,    \* _GRAPH_PARAMS: shape -> attn_params and handles
    graphs,    \* the pool of each graph ever captured, in order
    host,      \* the call of the wrapper that is under way
    error,     \* what the last call that raised has raised with
    step,      \* replays so far
    stream,    \* the main stream: replays not yet through
    updates,   \* the update stream: task updates, each with its record
    recorded,  \* tasks whose event is recorded
    bound      \* the step whose metadata a task was last given

runnerVars == <<phase, starts, todo, enabled, pool>>
deviceVars == <<stream, updates, recorded, bound>>
vars == <<runnerVars, entries, params, graphs, host, error, step, deviceVars>>

Shapes == {ShapeOf[d] : d \in Descs}

\* A task of a graph is known by the graph and its place in it.
Task == (1 .. MaxGraphs) \X (1 .. Tasks)
TasksOf(g) == [i \in 1 .. Tasks |-> <<g, i>>]

\* What the registry knows of a shape.  A shape that was never prepared and
\* one that was prepared anew are treated alike.
Captured == [params : Seq(Task), handles : Seq(Task)]
Fresh == [params |-> <<>>, handles |-> <<>>]

Out == [pc |-> "out", desc |-> CHOOSE d \in Descs : TRUE, graph |-> 0, task |-> 1]
Enter(place, d, g) == host' = [pc |-> place, desc |-> d, graph |-> g, task |-> 1]
Shape == ShapeOf[host.desc]

Init ==
    /\ phase = "started" /\ starts = 1
    /\ todo = {} /\ enabled = FALSE /\ pool = "runtime"
    /\ entries = [d \in Descs |-> 0]
    /\ params = [s \in Shapes |-> Fresh]
    /\ graphs = <<>>
    /\ host = Out /\ error = "none" /\ step = 0
    /\ stream = <<>> /\ updates = <<>> /\ recorded = {}
    /\ bound = [t \in Task |-> 0]

-----------------------------------------------------------------------------
(* The runner.                                                             *)

(* Mutant: the wrappers alone are cleared.                                 *)
ClearWrappersOnly ==
    /\ entries' = [d \in Descs |-> 0]
    /\ UNCHANGED params

(* clear_decoder_graphs: the wrappers' graphs and the registry.            *)
ClearDecoderGraphs ==
    /\ entries' = [d \in Descs |-> 0]
    /\ params' = [s \in Shapes |-> Fresh]

(* profile_cudagraph_memory captures the first two descriptors into a pool *)
(* of its own.                                                             *)
BeginProfile ==
    /\ phase = "started"
    /\ phase' = "profile"
    /\ \E S \in SUBSET Descs : Cardinality(S) \in 1 .. 2 /\ todo' = S
    /\ enabled' = TRUE /\ pool' = "profile"
    /\ UNCHANGED <<starts, entries, params, graphs, host, error, step, deviceVars>>

(* Its finally clause.                                                     *)
ProfileCleanup ==
    /\ enabled' = FALSE /\ pool' = "runtime" /\ todo' = {}
    /\ ClearDecoderGraphs

ProfileDone ==
    /\ phase = "profile" /\ todo = {} /\ host.pc = "out"
    /\ phase' = "profiled"
    /\ ProfileCleanup
    /\ UNCHANGED <<starts, graphs, host, error, step, deviceVars>>

(* capture_model: whatever descriptors the dispatcher has.                 *)
BeginCaptureModel ==
    /\ phase \in {"started", "profiled"}
    /\ phase' = "capture" /\ enabled' = TRUE
    /\ todo' \in SUBSET Descs \ {{}}
    /\ UNCHANGED <<starts, pool, entries, params, graphs, host, error, step, deviceVars>>

CaptureModelDone ==
    /\ phase = "capture" /\ todo = {} /\ host.pc = "out"
    /\ phase' = "serve" /\ enabled' = FALSE
    /\ UNCHANGED <<starts, todo, pool, entries, params, graphs, host, error, step,
                   deviceVars>>

(* shutdown drops the graphs, then waits for the device.                   *)
Shutdown ==
    /\ phase \in {"serve", "failed"} /\ host.pc = "out"
    /\ phase' = "closing"
    /\ ClearDecoderGraphs
    /\ UNCHANGED <<starts, todo, enabled, pool, graphs, host, error, step, deviceVars>>

ShutdownDone ==
    /\ phase = "closing" /\ stream = <<>>
    /\ phase' = "down"
    /\ UNCHANGED <<starts, todo, enabled, pool, entries, params, graphs, host, error,
                   step, deviceVars>>

(* A new runner in the same process: its wrapper is new, the registry and  *)
(* the switch are the process's.                                           *)
Restart ==
    /\ phase = "down" /\ starts < MaxStarts
    /\ phase' = "started" /\ starts' = starts + 1
    /\ todo' = {} /\ pool' = "runtime"
    /\ entries' = [d \in Descs |-> 0]
    /\ UNCHANGED <<enabled, params, graphs, host, error, step, deviceVars>>

-----------------------------------------------------------------------------
(* A call of the wrapper that captures.                                    *)

(* prepare_shape refuses a shape that holds captured state.                *)
HoldsState(s) == params[s].params # <<>>

(* An exception ends the start of the engine: the profile has a finally    *)
(* clause, capture_model has none.                                         *)
StartFails(what, d) ==
    /\ error' = what
    /\ host' = [Out EXCEPT !.desc = d]
    /\ phase' = "failed"
    /\ UNCHANGED starts

CaptureRefused(d) ==
    /\ phase \in {"profile", "capture"} /\ host.pc = "out" /\ d \in todo
    /\ entries[d] = 0 /\ HoldsState(ShapeOf[d])
    /\ StartFails("shape", d)
    /\ IF phase = "profile" THEN ProfileCleanup
       ELSE UNCHANGED <<todo, enabled, pool, entries, params>>
    /\ UNCHANGED <<graphs, step, deviceVars>>

(* Mutant: what the shape holds is replaced.                               *)
BeginCaptureAnyway(d) ==
    /\ phase \in {"profile", "capture"} /\ host.pc = "out" /\ d \in todo
    /\ enabled /\ entries[d] = 0
    /\ Len(graphs) < MaxGraphs
    /\ params' = [params EXCEPT ![ShapeOf[d]] = Fresh]
    /\ graphs' = Append(graphs, pool)
    /\ Enter("capture", d, Len(graphs) + 1)
    /\ UNCHANGED <<runnerVars, entries, error, step, deviceVars>>

BeginCapture(d) ==
    /\ phase \in {"profile", "capture"} /\ host.pc = "out" /\ d \in todo
    /\ enabled /\ entries[d] = 0 /\ ~HoldsState(ShapeOf[d])
    /\ Len(graphs) < MaxGraphs
    /\ params' = [params EXCEPT ![ShapeOf[d]] = Fresh]
    /\ graphs' = Append(graphs, pool)
    /\ Enter("capture", d, Len(graphs) + 1)
    /\ UNCHANGED <<runnerVars, entries, error, step, deviceVars>>

(* An attention layer under capture: its event and its parameters, then    *)
(* the task itself and its handle.                                         *)
WithParams(g, i) == [params EXCEPT ![Shape].params = Append(@, <<g, i>>)]
CaptureAttention ==
    /\ host.pc = "capture" /\ host.task <= Tasks
    /\ params' = [WithParams(host.graph, host.task) EXCEPT
                    ![Shape].handles = Append(@, <<host.graph, host.task>>)]
    /\ host' = [host EXCEPT !.task = @ + 1]
    /\ UNCHANGED <<runnerVars, entries, graphs, error, step, deviceVars>>

(* It raises before anything is noted, or at the task itself.              *)
CaptureRaises ==
    /\ "capture" \in Faults
    /\ host.pc = "capture"
    /\ StartFails("capture", host.desc)
    /\ IF phase = "profile" THEN ProfileCleanup
       ELSE /\ \/ UNCHANGED params
               \/ /\ host.task <= Tasks
                  /\ params' = WithParams(host.graph, host.task)
            /\ UNCHANGED <<todo, enabled, pool, entries>>
    /\ UNCHANGED <<graphs, step, deviceVars>>

EndCapture ==
    /\ host.pc = "capture" /\ host.task > Tasks
    /\ entries' = [entries EXCEPT ![host.desc] = host.graph]
    /\ todo' = todo \ {host.desc}
    /\ host' = Out
    /\ UNCHANGED <<phase, starts, enabled, pool, params, graphs, error, step,
                   deviceVars>>

-----------------------------------------------------------------------------
(* A call that replays.                                                    *)

Enqueue(d) ==
    /\ phase = "serve" /\ host.pc = "out" /\ entries[d] # 0
    /\ step < MaxSteps
    /\ step' = step + 1
    /\ stream' = Append(stream, [graph |-> entries[d], step |-> step + 1, task |-> 1])
    /\ UNCHANGED <<runnerVars, entries, params, graphs, error, updates, recorded, bound>>

(* Mutant: the scope does not wait for the previous replay.                *)
ReplayAtOnce(d) == Enqueue(d) /\ Enter("update", d, entries[d])

(* replay_scope: wait for the main stream, enqueue the graph.              *)
Replay(d) == stream = <<>> /\ Enqueue(d) /\ Enter("update", d, entries[d])

(* The graph cannot be enqueued: no event is released.                     *)
ReplayRaises(d) ==
    /\ "enqueue" \in Faults
    /\ phase = "serve" /\ host.pc = "out" /\ entries[d] # 0 /\ stream = <<>>
    /\ error' = "enqueue"
    /\ UNCHANGED <<runnerVars, entries, params, graphs, host, step, deviceVars>>

(* update_graph_params: the tasks of the shape, one after another.         *)
Registered == params[Shape]
Complete == /\ Registered.params # <<>>
            /\ Len(Registered.params) = Len(Registered.handles)

(* Mutant: the wait for the main stream stands behind the replay.          *)
UpdateTaskWaits ==
    /\ host.pc = "update" /\ Complete /\ host.task <= Len(Registered.params)
    /\ stream = <<>>
    /\ host' = [host EXCEPT !.task = @ + 1]
    /\ UNCHANGED <<runnerVars, entries, params, graphs, error, step, deviceVars>>

UpdateTask ==
    /\ host.pc = "update" /\ Complete /\ host.task <= Len(Registered.params)
    /\ updates' = Append(updates, [task |-> Registered.handles[host.task],
                                   event |-> Registered.params[host.task],
                                   step |-> step])
    /\ host' = [host EXCEPT !.task = @ + 1]
    /\ UNCHANGED <<runnerVars, entries, params, graphs, error, step, stream, recorded,
                   bound>>

UpdateRaises ==
    /\ host.pc = "update"
    /\ ~Complete \/ ("update" \in Faults /\ host.task <= Len(Registered.params))
    /\ error' = "update" /\ host' = Out
    /\ UNCHANGED <<runnerVars, entries, params, graphs, step, deviceVars>>

ReplayReturns ==
    /\ host.pc = "update" /\ Complete /\ host.task > Len(Registered.params)
    /\ host' = Out
    /\ UNCHANGED <<runnerVars, entries, params, graphs, error, step, deviceVars>>

-----------------------------------------------------------------------------
(* The device.                                                             *)

RunUpdate ==
    /\ updates # <<>>
    /\ LET u == Head(updates)
       IN /\ bound' = [bound EXCEPT ![u.task] = u.step]
          /\ recorded' = recorded \cup {u.event}
    /\ updates' = Tail(updates)
    /\ UNCHANGED <<runnerVars, entries, params, graphs, host, error, step, stream>>

(* The next attention task of the replay: its event is awaited and reset.  *)
Waiting == LET r == Head(stream) IN <<r.graph, r.task>>
RunTask ==
    /\ stream # <<>> /\ Waiting \in recorded
    /\ recorded' = recorded \ {Waiting}
    /\ stream' = IF Head(stream).task = Tasks THEN Tail(stream)
                 ELSE [stream EXCEPT ![1].task = @ + 1]
    /\ UNCHANGED <<runnerVars, entries, params, graphs, host, error, step, updates,
                   bound>>

-----------------------------------------------------------------------------
Runner ==
    \/ BeginProfile \/ ProfileDone \/ BeginCaptureModel \/ CaptureModelDone
    \/ Shutdown \/ ShutdownDone \/ Restart
    \/ \E d \in Descs : \/ BeginCapture(d) \/ CaptureRefused(d)
                        \/ Replay(d) \/ ReplayRaises(d)

Wrapper == CaptureAttention \/ EndCapture \/ UpdateTask \/ ReplayReturns

Raises == CaptureRaises \/ UpdateRaises

Device == RunUpdate \/ RunTask

Next == Runner \/ Wrapper \/ Raises \/ Device

Spec == Init /\ [][Next]_vars

(* A call that has begun goes on if it does not raise, and the device runs.*)
FairSpec == Spec /\ WF_vars(Wrapper) /\ WF_vars(RunUpdate) /\ WF_vars(RunTask)

-----------------------------------------------------------------------------
TypeOK ==
    /\ phase \in {"started", "profile", "profiled", "capture", "serve", "failed",
                  "closing", "down"}
    /\ starts \in Nat /\ step \in Nat
    /\ todo \subseteq Descs /\ enabled \in BOOLEAN
    /\ pool \in {"runtime", "profile"}
    /\ entries \in [Descs -> 0 .. MaxGraphs]
    /\ params \in [Shapes -> Captured]
    /\ graphs \in Seq({"runtime", "profile"})
    /\ host \in [pc : {"out", "capture", "update"}, desc : Descs,
                graph : 0 .. MaxGraphs, task : Nat \ {0}]
    /\ error \in {"none", "shape", "capture", "enqueue", "update"}
    /\ stream \in Seq([graph : 1 .. MaxGraphs, step : Nat, task : 1 .. Tasks])
    /\ updates \in Seq([task : Task, event : Task, step : Nat])
    /\ recorded \subseteq Task
    /\ bound \in [Task -> Nat]

(* A replay rebinds the tasks of the very graph it has enqueued, each one, *)
(* though the registry knows them by their number of tokens only.          *)
UpdatesOwnGraph == host.pc = "update" =>
    /\ params[Shape] = [params |-> TasksOf(host.graph), handles |-> TasksOf(host.graph)]
    /\ graphs[host.graph] = "runtime"

(* A capture is refused only for another descriptor of the same shape that *)
(* is captured now: what a profile, a failed start or an earlier runner    *)
(* left behind is gone when the next capture begins.                       *)
RefusedOnlyForSameShape ==
    (phase \in {"profile", "capture"} /\ host.pc = "out") =>
        \A d \in todo : HoldsState(ShapeOf[d]) =>
            \E e \in Descs \ {d} : ShapeOf[e] = ShapeOf[d] /\ entries[e] # 0

(* A task runs with the metadata of its own step: no event that a replay   *)
(* finds recorded belongs to another step.                                 *)
TasksRunWithOwnStep ==
    (stream # <<>> /\ Waiting \in recorded) => bound[Waiting] = Head(stream).step

(* A replay comes to its end, unless one of its updates raised; the device *)
(* then waits for ever, and so does whoever waits for the device.          *)
ReplaysEnd == [](error # "update") => (stream # <<>> ~> stream = <<>>)
=============================================================================
