------------------------- MODULE GraphCaptureProofs -------------------------
(***************************************************************************)
(* Proofs about GraphCapture for any descriptors, shapes and numbers of    *)
(* tasks, any faults and any bounds.                                       *)
(***************************************************************************)
EXTENDS GraphCapture, SequenceTheorems, TLAPS

\* The first k tasks of graph g, and what the registry then has of them.
PartOf(g, k) == [i \in 1 .. k |-> <<g, i>>]
Part(g, k) == [params |-> PartOf(g, k), handles |-> PartOf(g, k)]

Empty == /\ \A d \in Descs : entries[d] = 0
         /\ \A s \in Shapes : params[s] = Fresh

(* The phases before and after captured graphs hold nothing.               *)
CleanInv ==
    /\ phase \in {"started", "profiled", "closing", "down"} => Empty
    /\ pool = "profile" <=> phase = "profile"

(* A captured graph owns the registry's entry of its shape.                *)
EntryInv == \A d \in Descs : entries[d] # 0 =>
    /\ entries[d] <= Len(graphs)
    /\ graphs[entries[d]] = pool
    /\ params[ShapeOf[d]] = Part(entries[d], Tasks)
    /\ \A e \in Descs \ {d} : ShapeOf[e] = ShapeOf[d] => entries[e] = 0

(* A capture under way has the shape for itself.                           *)
CaptureInv == host.pc = "capture" =>
    /\ phase \in {"profile", "capture"}
    /\ host.graph \in 1 .. Len(graphs) /\ graphs[host.graph] = pool
    /\ host.task \in 1 .. Tasks + 1
    /\ params[Shape] = Part(host.graph, host.task - 1)
    /\ \A e \in Descs : ShapeOf[e] = Shape => entries[e] = 0

UpdateInv == host.pc = "update" =>
    /\ phase = "serve"
    /\ host.graph # 0 /\ entries[host.desc] = host.graph

(* While graphs are captured, state that is in nobody's hands has an owner.*)
TodoInv == phase \in {"profile", "capture"} =>
    /\ \A d \in todo : entries[d] = 0
    /\ \A s \in Shapes : HoldsState(s) =>
          \/ host.pc = "capture" /\ Shape = s
          \/ \E d \in Descs : ShapeOf[d] = s /\ entries[d] # 0

(* The device.  Of the replay that is enqueued, m updates were enqueued    *)
(* and some of them have run.                                              *)
Progress(m) ==
    LET r == stream[1]
        done == m - Len(updates)
    IN /\ Len(stream) = 1 /\ r.step = step
       /\ Len(updates) <= m /\ r.task <= done + 1
       /\ \A j \in 1 .. Len(updates) :
             updates[j] = [task |-> <<r.graph, done + j>>,
                           event |-> <<r.graph, done + j>>, step |-> step]
       /\ \A t \in Task : t \in recorded <=> t[1] = r.graph /\ t[2] \in r.task .. done
       /\ \A i \in 1 .. done : bound[<<r.graph, i>>] = step
       /\ host.pc = "update" => host.graph = r.graph /\ host.task = m + 1
Idle == /\ updates = <<>> /\ recorded = {}
        /\ host.pc = "update" => host.task = Tasks + 1
DeviceInv == /\ stream = <<>> => Idle
             /\ stream # <<>> => \E m \in 0 .. Tasks : Progress(m)

IInv == TypeOK /\ CleanInv /\ EntryInv /\ CaptureInv /\ UpdateInv /\ TodoInv /\ DeviceInv

-----------------------------------------------------------------------------
(* Type correctness.                                                       *)

LEMMA OutType == Out \in [pc : {"out"}, desc : Descs, graph : 0 .. MaxGraphs, task : Nat \ {0}]
BY GraphAssumption DEF Out

LEMMA ShapeType == \A d \in Descs : ShapeOf[d] \in Shapes
BY DEF Shapes

LEMMA FreshType == Fresh \in Captured /\ [s \in Shapes |-> Fresh] \in [Shapes -> Captured]
BY DEF Fresh, Captured

LEMMA InitType == Init => TypeOK
<1> SUFFICES ASSUME Init PROVE TypeOK
  OBVIOUS
<1>1. entries \in [Descs -> 0 .. MaxGraphs] /\ bound \in [Task -> Nat]
  BY GraphAssumption DEF Init
<1>2. params \in [Shapes -> Captured]
  BY FreshType DEF Init
<1>3. host \in [pc : {"out", "capture", "update"}, desc : Descs,
                graph : 0 .. MaxGraphs, task : Nat \ {0}]
  BY OutType DEF Init
<1>4. /\ graphs \in Seq({"runtime", "profile"})
      /\ stream \in Seq([graph : 1 .. MaxGraphs, step : Nat, task : 1 .. Tasks])
      /\ updates \in Seq([task : Task, event : Task, step : Nat])
  BY DEF Init
<1> QED BY <1>1, <1>2, <1>3, <1>4 DEF Init, TypeOK

(* Nothing that is cleared has a wrong type.                               *)
LEMMA ClearType ==
    ASSUME ClearDecoderGraphs
    PROVE  entries' \in [Descs -> 0 .. MaxGraphs] /\ params' \in [Shapes -> Captured]
BY FreshType, GraphAssumption DEF ClearDecoderGraphs

LEMMA RunnerType ==
    ASSUME TypeOK,
           \/ BeginProfile \/ ProfileDone \/ BeginCaptureModel \/ CaptureModelDone
           \/ Shutdown \/ ShutdownDone \/ Restart
    PROVE  TypeOK'
<1>1. CASE BeginProfile
  BY <1>1 DEF BeginProfile, TypeOK, deviceVars
<1>2. CASE ProfileDone
  BY <1>2, ClearType DEF ProfileDone, ProfileCleanup, TypeOK, deviceVars
<1>3. CASE BeginCaptureModel
  BY <1>3 DEF BeginCaptureModel, TypeOK, deviceVars
<1>4. CASE CaptureModelDone
  BY <1>4 DEF CaptureModelDone, TypeOK, deviceVars
<1>5. CASE Shutdown
  BY <1>5, ClearType DEF Shutdown, TypeOK, deviceVars
<1>6. CASE ShutdownDone
  BY <1>6 DEF ShutdownDone, TypeOK, deviceVars
<1>7. CASE Restart
  BY <1>7, GraphAssumption DEF Restart, TypeOK, deviceVars
<1> QED BY <1>1, <1>2, <1>3, <1>4, <1>5, <1>6, <1>7

LEMMA WithParamsType ==
    ASSUME TypeOK, NEW g \in 1 .. MaxGraphs, NEW i \in 1 .. Tasks
    PROVE  WithParams(g, i) \in [Shapes -> Captured]
<1>1. <<g, i>> \in Task
  BY DEF Task
<1>2. params[Shape] \in Captured
  BY ShapeType DEF TypeOK, Shape
<1>3. Append(params[Shape].params, <<g, i>>) \in Seq(Task)
  BY <1>1, <1>2 DEF Captured
<1>4. [params[Shape] EXCEPT !.params = Append(@, <<g, i>>)] \in Captured
  BY <1>2, <1>3 DEF Captured
<1> QED BY <1>4 DEF WithParams, TypeOK

LEMMA CaptureType ==
    ASSUME TypeOK, CaptureInv,
           \/ \E d \in Descs : BeginCapture(d) \/ CaptureRefused(d)
           \/ CaptureAttention \/ CaptureRaises \/ EndCapture
    PROVE  TypeOK'
<1>1. ASSUME NEW d \in Descs, BeginCapture(d) PROVE TypeOK'
  <2>1. pool \in {"runtime", "profile"} /\ graphs' \in Seq({"runtime", "profile"})
    BY <1>1 DEF BeginCapture, TypeOK
  <2>2. host' \in [pc : {"capture"}, desc : Descs, graph : 0 .. MaxGraphs, task : Nat \ {0}]
    <3>1. Len(graphs) + 1 \in 0 .. MaxGraphs
      BY <1>1, GraphAssumption DEF BeginCapture, TypeOK
    <3>2. host' = [pc |-> "capture", desc |-> d, graph |-> Len(graphs) + 1, task |-> 1]
      BY <1>1 DEF BeginCapture, Enter
    <3> QED BY <3>1, <3>2
  <2>3. params' \in [Shapes -> Captured]
    BY <1>1, FreshType DEF BeginCapture, TypeOK
  <2> QED BY <1>1, <2>1, <2>2, <2>3 DEF BeginCapture, TypeOK, deviceVars, runnerVars
<1>2. ASSUME NEW d \in Descs, CaptureRefused(d) PROVE TypeOK'
  <2>1. host' \in [pc : {"out"}, desc : Descs, graph : 0 .. MaxGraphs, task : Nat \ {0}]
    BY <1>2, OutType DEF CaptureRefused, StartFails
  <2> QED BY <1>2, <2>1, ClearType
          DEF CaptureRefused, StartFails, ProfileCleanup, TypeOK, deviceVars
<1>3. CASE CaptureAttention
  <2>1. host.task \in 1 .. Tasks /\ host.graph \in 1 .. MaxGraphs
    BY <1>3, GraphAssumption DEF CaptureAttention, CaptureInv, TypeOK
  <2>2. params' \in [Shapes -> Captured]
    <3> DEFINE q == WithParams(host.graph, host.task)
    <3>1. q \in [Shapes -> Captured] /\ Shape \in Shapes
      BY <2>1, WithParamsType, ShapeType DEF TypeOK, Shape
    <3>2. <<host.graph, host.task>> \in Task
      BY <2>1 DEF Task
    <3> HIDE DEF q
    <3>5. q[Shape] \in Captured /\ Append(q[Shape].handles, <<host.graph, host.task>>) \in Seq(Task)
      BY <3>1, <3>2 DEF Captured
    <3>3. [q[Shape] EXCEPT !.handles = Append(@, <<host.graph, host.task>>)] \in Captured
      BY <3>5 DEF Captured
    <3>4. params' = [q EXCEPT ![Shape].handles = Append(@, <<host.graph, host.task>>)]
      BY <1>3 DEF CaptureAttention, q
    <3> QED BY <3>1, <3>3, <3>4
  <2>3. host' \in [pc : {"out", "capture", "update"}, desc : Descs,
                   graph : 0 .. MaxGraphs, task : Nat \ {0}]
    <3>1. host.task + 1 \in Nat \ {0} /\ host' = [host EXCEPT !.task = host.task + 1]
      BY <1>3 DEF CaptureAttention, TypeOK
    <3> QED BY <3>1 DEF TypeOK
  <2> QED BY <1>3, <2>2, <2>3 DEF CaptureAttention, TypeOK, deviceVars, runnerVars
<1>4. CASE CaptureRaises
  <2>1. host' \in [pc : {"out"}, desc : Descs, graph : 0 .. MaxGraphs, task : Nat \ {0}]
    BY <1>4, OutType DEF CaptureRaises, StartFails, TypeOK
  <2>2. params' \in [Shapes -> Captured] /\ entries' \in [Descs -> 0 .. MaxGraphs]
    <3>1. CASE phase = "profile"
      BY <1>4, <3>1, ClearType DEF CaptureRaises, ProfileCleanup
    <3>2. CASE phase # "profile" /\ UNCHANGED params
      BY <1>4, <3>2 DEF CaptureRaises, TypeOK
    <3>3. CASE phase # "profile" /\ host.task <= Tasks
               /\ params' = WithParams(host.graph, host.task)
      <4>1. host.task \in 1 .. Tasks /\ host.graph \in 1 .. MaxGraphs
        BY <1>4, <3>3, GraphAssumption DEF CaptureRaises, CaptureInv, TypeOK
      <4> QED BY <1>4, <3>3, <4>1, WithParamsType DEF CaptureRaises, TypeOK
    <3> QED BY <1>4, <3>1, <3>2, <3>3 DEF CaptureRaises
  <2> QED BY <1>4, <2>1, <2>2
          DEF CaptureRaises, StartFails, ProfileCleanup, TypeOK, deviceVars
<1>5. CASE EndCapture
  <2>1. host.graph \in 0 .. MaxGraphs
    BY <1>5 DEF EndCapture, CaptureInv, TypeOK
  <2>2. entries' \in [Descs -> 0 .. MaxGraphs] /\ todo' \subseteq Descs
    BY <1>5, <2>1 DEF EndCapture, TypeOK
  <2> QED BY <1>5, <2>2, OutType DEF EndCapture, TypeOK, deviceVars
<1> QED BY <1>1, <1>2, <1>3, <1>4, <1>5

(* The record of a task update is built from the registry of the shape.    *)
LEMMA UpdateEntryType ==
    ASSUME TypeOK, Complete
    PROVE  /\ Len(Registered.params) \in Nat
           /\ \A i \in 1 .. Len(Registered.params) :
                 Registered.handles[i] \in Task /\ Registered.params[i] \in Task
<1>1. params[Shape] \in Captured
  BY ShapeType DEF TypeOK, Shape
<1>2. Registered.params \in Seq(Task) /\ Registered.handles \in Seq(Task)
  BY <1>1 DEF Captured, Registered
<1> QED BY <1>2 DEF Complete

LEMMA ReplayType ==
    ASSUME TypeOK,
           \/ \E d \in Descs : Replay(d) \/ ReplayRaises(d)
           \/ UpdateTask \/ UpdateRaises \/ ReplayReturns
    PROVE  TypeOK'
<1>1. ASSUME NEW d \in Descs, Replay(d) PROVE TypeOK'
  <2>1. entries[d] \in 1 .. MaxGraphs /\ step + 1 \in Nat
    BY <1>1, GraphAssumption DEF Replay, Enqueue, TypeOK
  <2>2. host' \in [pc : {"out", "capture", "update"}, desc : Descs,
                   graph : 0 .. MaxGraphs, task : Nat \ {0}]
    <3>1. host' = [pc |-> "update", desc |-> d, graph |-> entries[d], task |-> 1]
      BY <1>1 DEF Replay, Enter
    <3> QED BY <2>1, <3>1
  <2>3. [graph |-> entries[d], step |-> step + 1, task |-> 1]
          \in [graph : 1 .. MaxGraphs, step : Nat, task : 1 .. Tasks]
    BY <2>1, GraphAssumption
  <2>4. stream' \in Seq([graph : 1 .. MaxGraphs, step : Nat, task : 1 .. Tasks])
    BY <1>1, <2>3 DEF Replay, Enqueue, TypeOK
  <2> QED BY <1>1, <2>1, <2>2, <2>4 DEF Replay, Enqueue, TypeOK, runnerVars
<1>2. ASSUME NEW d \in Descs, ReplayRaises(d) PROVE TypeOK'
  BY <1>2 DEF ReplayRaises, TypeOK, runnerVars, deviceVars
<1>3. CASE UpdateTask
  <2>1. Registered.handles[host.task] \in Task /\ Registered.params[host.task] \in Task
    <3>1. Complete /\ host.task \in Nat \ {0} /\ host.task <= Len(Registered.params)
      BY <1>3 DEF UpdateTask, TypeOK
    <3> QED BY <3>1, UpdateEntryType
  <2>3. updates' \in Seq([task : Task, event : Task, step : Nat])
    <3>1. [task |-> Registered.handles[host.task], event |-> Registered.params[host.task],
           step |-> step] \in [task : Task, event : Task, step : Nat]
      BY <2>1 DEF TypeOK
    <3> QED BY <1>3, <3>1 DEF UpdateTask, TypeOK
  <2>2. host' \in [pc : {"out", "capture", "update"}, desc : Descs,
                   graph : 0 .. MaxGraphs, task : Nat \ {0}]
    <3>1. host.task + 1 \in Nat \ {0} /\ host' = [host EXCEPT !.task = host.task + 1]
      BY <1>3 DEF UpdateTask, TypeOK
    <3> QED BY <3>1 DEF TypeOK
  <2> QED BY <1>3, <2>2, <2>3 DEF UpdateTask, TypeOK, runnerVars
<1>4. CASE UpdateRaises
  BY <1>4, OutType DEF UpdateRaises, TypeOK, runnerVars, deviceVars
<1>5. CASE ReplayReturns
  BY <1>5, OutType DEF ReplayReturns, TypeOK, runnerVars, deviceVars
<1> QED BY <1>1, <1>2, <1>3, <1>4, <1>5

LEMMA DeviceType ==
    ASSUME TypeOK, RunUpdate \/ RunTask
    PROVE  TypeOK'
<1>1. CASE RunUpdate
  <2>1. Head(updates) \in [task : Task, event : Task, step : Nat]
    BY <1>1, HeadTailProperties DEF RunUpdate, TypeOK
  <2>2. updates' \in Seq([task : Task, event : Task, step : Nat])
    BY <1>1 DEF RunUpdate, TypeOK
  <2>3. bound' \in [Task -> Nat] /\ recorded' \subseteq Task
    BY <1>1, <2>1 DEF RunUpdate, TypeOK
  <2> QED BY <1>1, <2>2, <2>3 DEF RunUpdate, TypeOK, runnerVars
<1>2. CASE RunTask
  <2>1. stream' \in Seq([graph : 1 .. MaxGraphs, step : Nat, task : 1 .. Tasks])
    <3> DEFINE R == [graph : 1 .. MaxGraphs, step : Nat, task : 1 .. Tasks]
    <3>0. stream \in Seq(R) /\ stream # <<>>
      BY <1>2 DEF RunTask, TypeOK
    <3>1. stream[1] \in R /\ Head(stream) = stream[1] /\ Len(stream) \in Nat \ {0}
      <4> HIDE DEF R
      <4>1. Len(stream) \in Nat \ {0}
        BY <3>0, EmptySeq
      <4> QED BY <3>0, <4>1, ElementOfSeq
    <3>2. CASE Head(stream).task = Tasks
      BY <1>2, <3>2 DEF RunTask, TypeOK
    <3>3. CASE Head(stream).task # Tasks
      <4>1. [stream[1] EXCEPT !.task = @ + 1] \in R
        BY <3>1, <3>3, GraphAssumption
      <4>2. stream' = [stream EXCEPT ![1] = [stream[1] EXCEPT !.task = @ + 1]]
        BY <1>2, <3>3 DEF RunTask
      <4> HIDE DEF R
      <4> QED BY <3>1, <4>1, <4>2, ExceptSeq DEF TypeOK, R
    <3> QED BY <3>2, <3>3
  <2> QED BY <1>2, <2>1 DEF RunTask, TypeOK, runnerVars
<1> QED BY <1>1, <1>2

LEMMA StepType ==
    ASSUME TypeOK, CaptureInv, [Next]_vars
    PROVE  TypeOK'
<1>1. CASE UNCHANGED vars
  BY <1>1 DEF vars, runnerVars, deviceVars, TypeOK
<1> QED BY <1>1, RunnerType, CaptureType, ReplayType, DeviceType
        DEF Next, Runner, Wrapper, Raises, Device

-----------------------------------------------------------------------------
(* The runner: what is clean, and what has an owner.                       *)

HostInv == CleanInv /\ EntryInv /\ CaptureInv /\ UpdateInv /\ TodoInv

(* After everything is cleared there is nothing to say of the entries.     *)
LEMMA Cleared ==
    ASSUME ClearDecoderGraphs
    PROVE  Empty' /\ EntryInv'
<1>1. \A d \in Descs : entries'[d] = 0
  BY DEF ClearDecoderGraphs
<1>2. \A s \in Shapes : params'[s] = Fresh
  BY DEF ClearDecoderGraphs
<1> QED BY <1>1, <1>2 DEF Empty, EntryInv

LEMMA NothingHeld ==
    ASSUME Empty PROVE \A s \in Shapes : ~HoldsState(s)
BY DEF Empty, HoldsState, Fresh

LEMMA RunnerHost ==
    ASSUME TypeOK, HostInv,
           \/ BeginProfile \/ ProfileDone \/ BeginCaptureModel \/ CaptureModelDone
           \/ Shutdown \/ ShutdownDone \/ Restart
    PROVE  HostInv'
<1>1. CASE BeginProfile
  <2>1. Empty /\ Empty'
    BY <1>1 DEF HostInv, CleanInv, BeginProfile, Empty
  <2>2. EntryInv' /\ TodoInv'
    BY <1>1, <2>1, NothingHeld DEF BeginProfile, Empty, EntryInv, TodoInv, HoldsState, TypeOK
  <2> QED BY <1>1, <2>1, <2>2
          DEF BeginProfile, HostInv, CleanInv, CaptureInv, UpdateInv
<1>2. CASE ProfileDone
  <2>1. Empty' /\ EntryInv'
    BY <1>2, Cleared DEF ProfileDone, ProfileCleanup
  <2> QED BY <1>2, <2>1
          DEF ProfileDone, ProfileCleanup, HostInv, CleanInv, CaptureInv, UpdateInv, TodoInv
<1>3. CASE BeginCaptureModel
  <2>1. Empty /\ Empty'
    BY <1>3 DEF HostInv, CleanInv, BeginCaptureModel, Empty
  <2>2. EntryInv' /\ TodoInv'
    BY <1>3, <2>1, NothingHeld
       DEF BeginCaptureModel, Empty, EntryInv, TodoInv, HoldsState, TypeOK
  <2> QED BY <1>3, <2>1, <2>2
          DEF BeginCaptureModel, HostInv, CleanInv, CaptureInv, UpdateInv
<1>4. CASE CaptureModelDone
  BY <1>4 DEF CaptureModelDone, HostInv, CleanInv, EntryInv, CaptureInv, UpdateInv, TodoInv
<1>5. CASE Shutdown
  <2>1. Empty' /\ EntryInv'
    BY <1>5, Cleared DEF Shutdown
  <2> QED BY <1>5, <2>1 DEF Shutdown, HostInv, CleanInv, CaptureInv, UpdateInv, TodoInv
<1>6. CASE ShutdownDone
  BY <1>6 DEF ShutdownDone, HostInv, CleanInv, Empty, EntryInv, CaptureInv, UpdateInv, TodoInv
<1>7. CASE Restart
  <2>1. Empty' /\ EntryInv'
    BY <1>7 DEF Restart, HostInv, CleanInv, Empty, EntryInv
  <2> QED BY <1>7, <2>1 DEF Restart, HostInv, CleanInv, CaptureInv, UpdateInv, TodoInv
<1> QED BY <1>1, <1>2, <1>3, <1>4, <1>5, <1>6, <1>7

(* Tasks are noted one after another, and never none.                      *)
LEMMA PartGrows ==
    ASSUME NEW g, NEW k \in Nat \ {0}
    PROVE  /\ Append(PartOf(g, k - 1), <<g, k>>) = PartOf(g, k)
           /\ PartOf(g, k) # <<>>
<1> DEFINE s == PartOf(g, k - 1)
<1>1. s \in Seq({g} \X Nat) /\ Len(s) = k - 1
  BY DEF PartOf
<1>2. PartOf(g, k) \in Seq({g} \X Nat) /\ Len(PartOf(g, k)) = k
  BY DEF PartOf
<1>3. Append(s, <<g, k>>) = PartOf(g, k)
  <2>1. \A i \in 1 .. k - 1 : s[i] = <<g, i>> /\ PartOf(g, k)[i] = <<g, i>>
    BY DEF PartOf
  <2>2. PartOf(g, k)[k] = <<g, k>> /\ <<g, k>> \in {g} \X Nat
    BY DEF PartOf
  <2> HIDE DEF s
  <2>3. /\ Append(s, <<g, k>>) \in Seq({g} \X Nat)
        /\ Len(Append(s, <<g, k>>)) = k
        /\ \A i \in 1 .. k - 1 : Append(s, <<g, k>>)[i] = s[i]
        /\ Append(s, <<g, k>>)[k] = <<g, k>>
    BY <1>1, <2>2, AppendProperties
  <2>4. \A i \in 1 .. k : Append(s, <<g, k>>)[i] = PartOf(g, k)[i]
    <3> SUFFICES ASSUME NEW i \in 1 .. k PROVE Append(s, <<g, k>>)[i] = PartOf(g, k)[i]
      OBVIOUS
    <3>1. CASE i = k
      BY <3>1, <2>2, <2>3
    <3>2. CASE i \in 1 .. k - 1
      BY <3>2, <2>1, <2>3
    <3>3. i = k \/ i \in 1 .. k - 1
      OBVIOUS
    <3> QED BY <3>1, <3>2, <3>3
  <2> QED BY <1>2, <2>3, <2>4, SeqEqual
<1>4. PartOf(g, k) # <<>>
  BY <1>2
<1> QED BY <1>3, <1>4

LEMMA PartZero == ASSUME NEW g PROVE Part(g, 0) = Fresh
<1>1. PartOf(g, 0) = <<>>
  BY DEF PartOf
<1> QED BY <1>1 DEF Part, Fresh

(* A shape that holds nothing belongs to no captured graph.                *)
LEMMA OwnersHold ==
    ASSUME TypeOK, EntryInv, NEW d \in Descs, ~HoldsState(ShapeOf[d])
    PROVE  \A e \in Descs : ShapeOf[e] = ShapeOf[d] => entries[e] = 0
<1> SUFFICES ASSUME NEW e \in Descs, ShapeOf[e] = ShapeOf[d], entries[e] # 0 PROVE FALSE
  OBVIOUS
<1>1. params[ShapeOf[d]].params = PartOf(entries[e], Tasks)
  <2>1. params[ShapeOf[e]] = Part(entries[e], Tasks)
    BY DEF EntryInv
  <2> QED BY <2>1 DEF Part
<1>2. PartOf(entries[e], Tasks) # <<>>
  BY PartGrows, GraphAssumption
<1> QED BY <1>1, <1>2 DEF HoldsState

LEMMA BeginHost ==
    ASSUME TypeOK, HostInv, NEW d \in Descs, BeginCapture(d)
    PROVE  HostInv'
<1> DEFINE g == Len(graphs) + 1
<1>1. /\ host' = [pc |-> "capture", desc |-> d, graph |-> g, task |-> 1]
      /\ graphs' = Append(graphs, pool) /\ params' = [params EXCEPT ![ShapeOf[d]] = Fresh]
      /\ UNCHANGED runnerVars /\ entries' = entries
      /\ phase \in {"profile", "capture"} /\ host.pc = "out" /\ ~HoldsState(ShapeOf[d])
  BY DEF BeginCapture, Enter
<1>2. \A e \in Descs : ShapeOf[e] = ShapeOf[d] => entries[e] = 0
  BY <1>1, OwnersHold DEF HostInv
<1>3. /\ Len(graphs) \in Nat /\ Len(graphs') = g
      /\ \A i \in 1 .. Len(graphs) : graphs'[i] = graphs[i]
      /\ graphs'[g] = pool
  BY <1>1, AppendProperties DEF TypeOK
<1>4. \A s \in Shapes : params'[s] = IF s = ShapeOf[d] THEN Fresh ELSE params[s]
  BY <1>1 DEF TypeOK
<1>5. EntryInv'
  BY <1>1, <1>2, <1>3, <1>4, ShapeType DEF EntryInv, HostInv, runnerVars, TypeOK
<1>6. CaptureInv'
  <2>1. Part(g, 0) = Fresh
    BY PartZero
  <2>2. Shape' = ShapeOf[d]
    BY <1>1 DEF Shape
  <2> HIDE DEF g
  <2>3. g \in 1 .. Len(graphs')
    BY <1>3 DEF g
  <2> QED BY <1>1, <1>2, <1>3, <1>4, <2>1, <2>2, <2>3, ShapeType, GraphAssumption
          DEF CaptureInv, runnerVars
<1>7. TodoInv'
  BY <1>1, <1>4 DEF TodoInv, HostInv, HoldsState, Shape, runnerVars
<1> QED BY <1>1, <1>5, <1>6, <1>7 DEF HostInv, CleanInv, UpdateInv, runnerVars

LEMMA AttentionHost ==
    ASSUME TypeOK, HostInv, CaptureAttention
    PROVE  HostInv'
<1> DEFINE t == <<host.graph, host.task>>
<1>1. /\ host.pc = "capture" /\ host.task \in 1 .. Tasks
      /\ host' = [host EXCEPT !.task = host.task + 1]
      /\ UNCHANGED <<runnerVars, entries, graphs>>
  BY GraphAssumption DEF CaptureAttention, HostInv, CaptureInv
<1>2. Shape \in Shapes /\ Shape' = Shape
  BY <1>1, ShapeType DEF Shape, TypeOK
<1>3. /\ params'[Shape] = [params |-> Append(params[Shape].params, t),
                          handles |-> Append(params[Shape].handles, t)]
      /\ \A s \in Shapes \ {Shape} : params'[s] = params[s]
  BY <1>2 DEF CaptureAttention, WithParams, TypeOK, Captured
<1>4. params'[Shape] = Part(host.graph, host.task)
  <2>1. params[Shape] = Part(host.graph, host.task - 1)
    BY <1>1 DEF HostInv, CaptureInv
  <2>2. Append(PartOf(host.graph, host.task - 1), t) = PartOf(host.graph, host.task)
    BY <1>1, PartGrows
  <2>3. /\ params[Shape].params = PartOf(host.graph, host.task - 1)
        /\ params[Shape].handles = PartOf(host.graph, host.task - 1)
    BY <2>1 DEF Part
  <2> QED BY <1>3, <2>2, <2>3 DEF Part
<1>5. EntryInv'
  BY <1>1, <1>2, <1>3, ShapeType DEF EntryInv, HostInv, CaptureInv, runnerVars
<1>6. CaptureInv'
  <2>1. /\ host'.graph = host.graph /\ host'.task = host.task + 1
        /\ host'.task - 1 = host.task /\ host'.task \in 1 .. Tasks + 1
    BY <1>1, GraphAssumption DEF TypeOK
  <2> QED BY <1>1, <1>2, <1>4, <2>1 DEF HostInv, CaptureInv, runnerVars
<1>7. TodoInv'
  BY <1>1, <1>2, <1>3 DEF TodoInv, HostInv, HoldsState, runnerVars, TypeOK
<1> QED BY <1>1, <1>5, <1>6, <1>7
        DEF HostInv, CleanInv, CaptureInv, UpdateInv, runnerVars, TypeOK

LEMMA EndHost ==
    ASSUME TypeOK, HostInv, EndCapture
    PROVE  HostInv'
<1>1. /\ host.pc = "capture" /\ host.desc \in Descs /\ host.graph \in 1 .. Len(graphs)
      /\ host.task = Tasks + 1
      /\ host'.pc = "out" /\ todo' = todo \ {host.desc}
      /\ entries' = [entries EXCEPT ![host.desc] = host.graph]
      /\ UNCHANGED <<phase, pool, params, graphs>>
  BY GraphAssumption DEF EndCapture, HostInv, CaptureInv, TypeOK, Out
<1>2. /\ entries'[host.desc] = host.graph
      /\ \A e \in Descs \ {host.desc} : entries'[e] = entries[e]
  BY <1>1 DEF TypeOK
<1>3. /\ params[Shape] = Part(host.graph, Tasks) /\ graphs[host.graph] = pool
      /\ \A e \in Descs : ShapeOf[e] = Shape => entries[e] = 0
  <2>1. host.task - 1 = Tasks
    BY <1>1, GraphAssumption
  <2> QED BY <1>1, <2>1 DEF HostInv, CaptureInv
<1>4. EntryInv'
  BY <1>1, <1>2, <1>3 DEF EntryInv, HostInv, Shape
<1>5. TodoInv'
  BY <1>1, <1>2, <1>3 DEF TodoInv, HostInv, HoldsState, Shape
<1> QED BY <1>1, <1>4, <1>5 DEF HostInv, CleanInv, CaptureInv, UpdateInv

(* An exception ends the start: everything is cleared, or nothing is       *)
(* captured any more until it is.                                          *)
LEMMA FailHost ==
    ASSUME TypeOK, HostInv,
           CaptureRaises \/ \E d \in Descs : CaptureRefused(d)
    PROVE  HostInv'
<1>1. host'.pc = "out" /\ phase' = "failed" /\ graphs' = graphs
  BY DEF CaptureRaises, CaptureRefused, StartFails, Out
<1>2. CASE phase = "profile"
  <2>1. ProfileCleanup
    BY <1>2 DEF CaptureRaises, CaptureRefused
  <2>2. Empty' /\ EntryInv' /\ pool' = "runtime"
    BY <2>1, Cleared DEF ProfileCleanup
  <2> QED BY <1>1, <2>2 DEF HostInv, CleanInv, CaptureInv, UpdateInv, TodoInv
<1>3. CASE phase # "profile"
  <2>1. /\ UNCHANGED <<pool, entries>> /\ pool # "profile"
        /\ \/ params' = params
           \/ host.pc = "capture" /\ params' = WithParams(host.graph, host.task)
    BY <1>3 DEF CaptureRaises, CaptureRefused, HostInv, CleanInv
  <2>2. \A d \in Descs : entries[d] # 0 => params'[ShapeOf[d]] = params[ShapeOf[d]]
    <3>1. CASE params' = params
      BY <3>1
    <3>2. CASE host.pc = "capture" /\ params' = WithParams(host.graph, host.task)
      <4>1. \A s \in Shapes \ {Shape} : params'[s] = params[s]
        BY <3>2 DEF WithParams, TypeOK
      <4>2. \A d \in Descs : entries[d] # 0 => ShapeOf[d] # Shape
        BY <3>2 DEF HostInv, CaptureInv
      <4> QED BY <4>1, <4>2, ShapeType
    <3> QED BY <2>1, <3>1, <3>2
  <2>3. EntryInv'
    BY <1>1, <2>1, <2>2 DEF EntryInv, HostInv
  <2> QED BY <1>1, <2>1, <2>3 DEF HostInv, CleanInv, CaptureInv, UpdateInv, TodoInv
<1> QED BY <1>2, <1>3

(* A call that goes on to its next task stays where it is.                 *)
LEMMA HostType ==
    ASSUME TypeOK
    PROVE  host \in [pc : {"out", "capture", "update"}, desc : Descs,
                    graph : 0 .. MaxGraphs, task : Nat \ {0}]
BY DEF TypeOK

LEMMA NextTask ==
    ASSUME TypeOK, host' = [host EXCEPT !.task = @ + 1]
    PROVE  /\ host'.pc = host.pc /\ host'.graph = host.graph
           /\ host'.desc = host.desc
           /\ host'.task = host.task + 1 /\ host.task \in Nat \ {0}
BY HostType

(* A replay changes neither what is captured nor who owns it.              *)
LEMMA ReplayHost ==
    ASSUME TypeOK, HostInv,
           \/ \E d \in Descs : Replay(d) \/ ReplayRaises(d)
           \/ UpdateTask \/ UpdateRaises \/ ReplayReturns
           \/ RunUpdate \/ RunTask \/ UNCHANGED vars
    PROVE  HostInv'
<1>1. UNCHANGED <<runnerVars, entries, params, graphs>>
  BY DEF Replay, Enqueue, ReplayRaises, UpdateTask, UpdateRaises, ReplayReturns,
         RunUpdate, RunTask, vars
<1>2. (host'.pc = "capture" \/ host.pc = "capture") => host' = host
  <2>1. CASE UpdateTask
    <3>1. host.pc = "update" /\ host' = [host EXCEPT !.task = @ + 1]
      BY <2>1 DEF UpdateTask
    <3>2. host.pc = "update" /\ host'.pc = "update"
      BY <3>1, NextTask
    <3> QED BY <3>2
  <2>4. ASSUME NEW d \in Descs, Replay(d) PROVE host.pc = "out" /\ host'.pc = "update"
    BY <2>4 DEF Replay, Enqueue, Enter
  <2>2. CASE UpdateRaises \/ ReplayReturns
    <3>1. host.pc = "update" /\ host'.pc = "out"
      BY <2>2 DEF UpdateRaises, ReplayReturns, Out
    <3> QED BY <3>1
  <2>3. CASE (\E d \in Descs : ReplayRaises(d)) \/ RunUpdate \/ RunTask \/ UNCHANGED vars
    BY <2>3 DEF ReplayRaises, RunUpdate, RunTask, vars
  <2> QED BY <2>1, <2>2, <2>3, <2>4
<1>3. CleanInv' /\ EntryInv'
  BY <1>1 DEF HostInv, CleanInv, Empty, EntryInv, runnerVars
<1>4. CaptureInv' /\ TodoInv'
  BY <1>1, <1>2 DEF HostInv, CaptureInv, TodoInv, HoldsState, Shape, runnerVars
<1>5. UpdateInv'
  <2>1. ASSUME NEW d \in Descs, Replay(d) PROVE UpdateInv'
    BY <2>1 DEF Replay, Enqueue, Enter, UpdateInv, runnerVars
  <2>2. CASE UpdateTask
    BY <1>1, <2>2 DEF UpdateTask, UpdateInv, HostInv, runnerVars, TypeOK
  <2>3. CASE UpdateRaises \/ ReplayReturns
    BY <2>3 DEF UpdateRaises, ReplayReturns, UpdateInv, Out
  <2>4. CASE (\E d \in Descs : ReplayRaises(d)) \/ RunUpdate \/ RunTask \/ UNCHANGED vars
    BY <1>1, <2>4 DEF ReplayRaises, RunUpdate, RunTask, vars, UpdateInv, HostInv, runnerVars
  <2> QED BY <2>1, <2>2, <2>3, <2>4
<1> QED BY <1>3, <1>4, <1>5 DEF HostInv

LEMMA HostStep ==
    ASSUME TypeOK, HostInv, [Next]_vars
    PROVE  HostInv'
BY RunnerHost, BeginHost, AttentionHost, EndHost, FailHost, ReplayHost
   DEF Next, Runner, Wrapper, Raises, Device

-----------------------------------------------------------------------------
(* The device.                                                             *)

(* Whatever leaves the device alone and begins no update.                  *)
LEMMA DeviceKept ==
    ASSUME DeviceInv, UNCHANGED <<deviceVars, step>>, host'.pc # "update" \/ host' = host
    PROVE  DeviceInv'
BY DEF DeviceInv, Idle, Progress, deviceVars

LEMMA QuietDevice ==
    ASSUME TypeOK, DeviceInv, [Next]_vars,
           ~RunUpdate, ~RunTask, ~UpdateTask, \A d \in Descs : ~Replay(d)
    PROVE  DeviceInv'
<1>1. UNCHANGED <<deviceVars, step>>
  BY DEF Next, Runner, Wrapper, Raises, Device, BeginProfile, ProfileDone,
     BeginCaptureModel, CaptureModelDone, Shutdown, ShutdownDone, Restart,
     BeginCapture, CaptureRefused, CaptureAttention, CaptureRaises, EndCapture,
     ReplayRaises, UpdateRaises, ReplayReturns, vars
<1>2. host'.pc # "update" \/ host' = host
  <2>1. ASSUME NEW d \in Descs, BeginCapture(d) PROVE host'.pc = "capture"
    BY <2>1 DEF BeginCapture, Enter
  <2>6. ASSUME NEW d \in Descs, CaptureRefused(d) PROVE host'.pc = "out"
    BY <2>6 DEF CaptureRefused, StartFails, Out
  <2>2. CASE CaptureAttention
    <3>1. host.pc = "capture" /\ host' = [host EXCEPT !.task = @ + 1]
      BY <2>2 DEF CaptureAttention
    <3>2. host'.pc = "capture"
      BY <3>1, NextTask
    <3> QED BY <3>2
  <2>3. CASE EndCapture \/ UpdateRaises \/ ReplayReturns
    BY <2>3 DEF EndCapture, UpdateRaises, ReplayReturns, Out
  <2>5. CASE CaptureRaises
    BY <2>5 DEF CaptureRaises, StartFails, Out
  <2>4. CASE \/ BeginProfile \/ ProfileDone \/ BeginCaptureModel \/ CaptureModelDone
             \/ Shutdown \/ ShutdownDone \/ Restart \/ UNCHANGED vars
             \/ \E d \in Descs : ReplayRaises(d)
    BY <2>4 DEF BeginProfile, ProfileDone, BeginCaptureModel, CaptureModelDone,
       Shutdown, ShutdownDone, Restart, ReplayRaises, vars
  <2> QED BY <2>1, <2>2, <2>3, <2>4, <2>5, <2>6 DEF Next, Runner, Wrapper, Raises, Device
<1> QED BY <1>1, <1>2, DeviceKept

LEMMA ReplayDevice ==
    ASSUME TypeOK, DeviceInv, NEW d \in Descs, Replay(d)
    PROVE  DeviceInv'
<1>1. /\ updates' = <<>> /\ recorded' = {}
      /\ stream' = <<[graph |-> entries[d], step |-> step + 1, task |-> 1]>>
      /\ step' = step + 1
      /\ host' = [pc |-> "update", desc |-> d, graph |-> entries[d], task |-> 1]
  BY DEF Replay, Enqueue, Enter, DeviceInv, Idle
<1>2. Progress(0)'
  BY <1>1 DEF Progress
<1> QED BY <1>1, <1>2, GraphAssumption DEF DeviceInv

(* The replay the device is at.                                            *)
LEMMA StreamHead ==
    ASSUME TypeOK, stream # <<>>
    PROVE  /\ Head(stream) = stream[1] /\ Len(stream) \in Nat \ {0}
           /\ stream[1] \in [graph : 1 .. MaxGraphs, step : Nat, task : 1 .. Tasks]
           /\ stream[1].graph \in 1 .. MaxGraphs /\ stream[1].step \in Nat
           /\ stream[1].task \in 1 .. Tasks
<1> DEFINE R == [graph : 1 .. MaxGraphs, step : Nat, task : 1 .. Tasks]
<1>1. stream \in Seq(R)
  BY DEF TypeOK
<1>2. stream[1] \in R /\ Head(stream) = stream[1] /\ Len(stream) \in Nat \ {0}
  <2> HIDE DEF R
  <2>1. Len(stream) \in Nat \ {0}
    BY <1>1, EmptySeq
  <2> QED BY <1>1, <2>1, ElementOfSeq, HeadTailProperties
<1> QED BY <1>2

(* What an update finds in the registry.                                   *)
LEMMA RegisteredOwn ==
    ASSUME TypeOK, HostInv, host.pc = "update"
    PROVE  /\ Registered = Part(host.graph, Tasks)
           /\ Len(Registered.params) = Tasks
           /\ \A i \in 1 .. Tasks : /\ Registered.params[i] = <<host.graph, i>>
                                    /\ Registered.handles[i] = <<host.graph, i>>
<1>1. Registered = Part(host.graph, Tasks)
  BY DEF HostInv, UpdateInv, EntryInv, Registered, Shape, TypeOK
<1>2. /\ Registered.params = PartOf(host.graph, Tasks)
      /\ Registered.handles = PartOf(host.graph, Tasks)
  BY <1>1 DEF Part
<1>3. Len(PartOf(host.graph, Tasks)) = Tasks
  BY GraphAssumption DEF PartOf
<1> QED BY <1>1, <1>2, <1>3 DEF PartOf

LEMMA UpdateDevice ==
    ASSUME TypeOK, HostInv, DeviceInv, UpdateTask
    PROVE  DeviceInv'
<1>1. /\ host.pc = "update" /\ host.task \in 1 .. Tasks
      /\ UNCHANGED <<stream, recorded, bound, step>>
      /\ updates' = Append(updates, [task |-> <<host.graph, host.task>>,
                                     event |-> <<host.graph, host.task>>, step |-> step])
      /\ host'.pc = "update" /\ host'.graph = host.graph /\ host'.task = host.task + 1
  <2>1. host.pc = "update" /\ host' = [host EXCEPT !.task = @ + 1]
        /\ host.task <= Len(Registered.params)
    BY DEF UpdateTask
  <2>2. host.task \in 1 .. Tasks
    BY <2>1, NextTask, RegisteredOwn, GraphAssumption
  <2> QED BY <2>1, <2>2, NextTask, RegisteredOwn DEF UpdateTask
<1>2. stream # <<>>
  BY <1>1, GraphAssumption DEF DeviceInv, Idle
<1>3. PICK m \in 0 .. Tasks : Progress(m)
  BY <1>2 DEF DeviceInv
<1>4. m + 1 \in 0 .. Tasks /\ host.graph = stream[1].graph /\ host.task = m + 1
  BY <1>1, <1>3, GraphAssumption DEF Progress
<1> DEFINE u == [task |-> <<host.graph, m + 1>>, event |-> <<host.graph, m + 1>>,
                 step |-> step]
           n == Len(updates)
<1>5. /\ n \in Nat /\ updates' = Append(updates, u) /\ Len(updates') = n + 1
      /\ \A j \in 1 .. n : updates'[j] = updates[j]
      /\ updates'[n + 1] = u
  <2> DEFINE U == [task : Task, event : Task, step : Nat]
  <2>1. updates \in Seq(U) /\ n \in Nat
    BY DEF TypeOK
  <2>2. stream[1].graph \in 1 .. MaxGraphs
    BY <1>2, StreamHead
  <2>3. u \in U
    BY <1>4, <2>2 DEF TypeOK, Task
  <2>4. updates' = Append(updates, u)
    BY <1>1, <1>4
  <2> HIDE DEF U, u
  <2> QED BY <2>1, <2>3, <2>4, AppendProperties
<1>6. Progress(m + 1)'
  <2>1. (m + 1) - (n + 1) = m - n /\ (m - n) + (n + 1) = m + 1
    BY <1>5, GraphAssumption
  <2>2. \A j \in 1 .. n + 1 : updates'[j] = [task |-> <<stream[1].graph, m - n + j>>,
                       event |-> <<stream[1].graph, m - n + j>>, step |-> step]
    <3> SUFFICES ASSUME NEW j \in 1 .. n + 1
                 PROVE  updates'[j] = [task |-> <<stream[1].graph, m - n + j>>,
                           event |-> <<stream[1].graph, m - n + j>>, step |-> step]
      OBVIOUS
    <3>1. CASE j = n + 1
      BY <3>1, <2>1, <1>4, <1>5
    <3>2. CASE j \in 1 .. n
      BY <3>2, <1>3, <1>5 DEF Progress
    <3>3. j = n + 1 \/ j \in 1 .. n
      BY <1>5
    <3> QED BY <3>1, <3>2, <3>3
  <2>3. host'.graph = host.graph /\ host'.task = (m + 1) + 1
    BY <1>1, <1>4
  <2>4. (m + 1) - Len(updates') = m - n
    BY <1>5, <2>1
  <2> HIDE DEF n, u
  <2>5. Len(updates) = n
    BY DEF n
  <2> QED BY <1>1, <1>3, <1>4, <1>5, <2>1, <2>2, <2>3, <2>4, <2>5 DEF Progress
<1> QED BY <1>1, <1>2, <1>4, <1>6 DEF DeviceInv

LEMMA UpdateRuns ==
    ASSUME TypeOK, DeviceInv, RunUpdate
    PROVE  DeviceInv'
<1> DEFINE U == [task : Task, event : Task, step : Nat]
           n == Len(updates)
<1>1. /\ updates # <<>> /\ stream # <<>> /\ updates' = Tail(updates)
      /\ bound' = [bound EXCEPT ![Head(updates).task] = Head(updates).step]
      /\ recorded' = recorded \cup {Head(updates).event}
      /\ UNCHANGED <<host, step, stream>>
  BY DEF RunUpdate, DeviceInv, Idle
<1>2. PICK m \in 0 .. Tasks : Progress(m)
  BY <1>1 DEF DeviceInv
<1>3. /\ n \in Nat \ {0} /\ Len(updates') = n - 1 /\ Head(updates) = updates[1]
      /\ \A j \in 1 .. n - 1 : updates'[j] = updates[j + 1]
  <2>1. updates \in Seq(U)
    BY DEF TypeOK
  <2> HIDE DEF U
  <2> QED BY <1>1, <2>1, EmptySeq, HeadTailProperties
<1> DEFINE g == stream[1].graph
           done == m - n
<1>4. /\ Len(stream) = 1 /\ stream[1].step = step
      /\ n <= m /\ stream[1].task <= done + 1 /\ done \in Nat
      /\ m - (n - 1) = done + 1
  BY <1>2, <1>3, GraphAssumption DEF Progress
<1>5. \A j \in 1 .. n : updates[j] = [task |-> <<g, done + j>>,
                                    event |-> <<g, done + j>>, step |-> step]
  BY <1>2 DEF Progress
<1>6. /\ <<g, done + 1>> \in Task
      /\ bound' = [bound EXCEPT ![<<g, done + 1>>] = step]
      /\ recorded' = recorded \cup {<<g, done + 1>>}
  <2>1. Head(updates) = [task |-> <<g, done + 1>>, event |-> <<g, done + 1>>, step |-> step]
    <3>1. 1 \in 1 .. n
      BY <1>3
    <3> HIDE DEF g, done, n
    <3> QED BY <3>1, <1>3, <1>5
  <2>2. Head(updates) \in U
    <3>1. updates \in Seq(U)
      BY DEF TypeOK
    <3> HIDE DEF U
    <3> QED BY <3>1, <1>1, HeadTailProperties
  <2> HIDE DEF g, done, n
  <2>3. <<g, done + 1>> \in Task
    BY <2>1, <2>2
  <2>4. Head(updates).task = <<g, done + 1>> /\ Head(updates).event = <<g, done + 1>>
        /\ Head(updates).step = step
    BY <2>1
  <2> QED BY <1>1, <2>3, <2>4
<1> HIDE DEF done, g
<1>7. \A j \in 1 .. n - 1 : updates'[j] = [task |-> <<g, done + 1 + j>>,
                                     event |-> <<g, done + 1 + j>>, step |-> step]
  <2> SUFFICES ASSUME NEW j \in 1 .. n - 1
               PROVE  updates'[j] = [task |-> <<g, done + 1 + j>>,
                                     event |-> <<g, done + 1 + j>>, step |-> step]
    OBVIOUS
  <2>1. j + 1 \in 1 .. n /\ done + (j + 1) = done + 1 + j
    BY <1>3, <1>4
  <2> QED BY <1>3, <1>5, <2>1
<1>8. \A t \in Task : t \in recorded' <=> t[1] = g /\ t[2] \in stream[1].task .. done + 1
  <2>1. \A t \in Task : t \in recorded <=> t[1] = g /\ t[2] \in stream[1].task .. done
    BY <1>2 DEF Progress, g, done
  <2>2. \A t \in Task : t = <<g, done + 1>> <=> t[1] = g /\ t[2] = done + 1
    BY <1>6 DEF Task
  <2>3. \A t \in Task : t[2] \in stream[1].task .. done + 1
                          <=> t[2] \in stream[1].task .. done \/ t[2] = done + 1
    BY <1>4 DEF Task
  <2> QED BY <1>6, <2>1, <2>2, <2>3
<1>9. \A i \in 1 .. done + 1 : bound'[<<g, i>>] = step
  <2>1. \A i \in 1 .. done : bound[<<g, i>>] = step
    BY <1>2 DEF Progress, g, done
  <2>2. \A i \in 1 .. done + 1 : <<g, i>> \in Task
    <3> SUFFICES ASSUME NEW i \in 1 .. done + 1 PROVE <<g, i>> \in Task
      OBVIOUS
    <3>1. g \in 1 .. MaxGraphs /\ done + 1 \in 1 .. Tasks
      BY <1>6 DEF Task
    <3>2. i \in 1 .. Tasks
      BY <1>4, <3>1, GraphAssumption
    <3> QED BY <3>1, <3>2 DEF Task
  <2>3. \A t \in Task : bound'[t] = IF t = <<g, done + 1>> THEN step ELSE bound[t]
    BY <1>6 DEF TypeOK
  <2> QED BY <1>4, <2>1, <2>2, <2>3
<1>10. Progress(m)'
  <2>1. m - Len(updates') = done + 1 /\ Len(updates') = n - 1 /\ n - 1 <= m
    BY <1>3, <1>4
  <2>2. host.pc = "update" => host.graph = g /\ host.task = m + 1
    BY <1>2 DEF Progress, g
  <2>3. stream[1].task <= done + 1 + 1
    BY <1>1, <1>4, StreamHead
  <2> HIDE DEF n
  <2> QED BY <1>1, <1>4, <1>7, <1>8, <1>9, <2>1, <2>2, <2>3 DEF Progress, g
<1> QED BY <1>1, <1>10 DEF DeviceInv

LEMMA TaskRuns ==
    ASSUME TypeOK, HostInv, DeviceInv, RunTask
    PROVE  DeviceInv'
<1>1. /\ stream # <<>> /\ Waiting \in recorded
      /\ recorded' = recorded \ {Waiting}
      /\ UNCHANGED <<host, step, updates, bound>>
  BY DEF RunTask
<1>2. PICK m \in 0 .. Tasks : Progress(m)
  BY <1>1 DEF DeviceInv
<1> DEFINE g == stream[1].graph
           k == stream[1].task
           done == m - Len(updates)
<1>3. /\ Head(stream) = stream[1] /\ g \in 1 .. MaxGraphs /\ k \in 1 .. Tasks
      /\ stream[1] \in [graph : 1 .. MaxGraphs, step : Nat, task : 1 .. Tasks]
  BY <1>1, StreamHead
<1>4. Len(stream) = 1 /\ Len(updates) \in Nat /\ Len(updates) <= m /\ done \in Nat
  BY <1>2, GraphAssumption DEF Progress, TypeOK
<1>5. Waiting = <<g, k>> /\ <<g, k>> \in Task /\ k <= done
  <2>1. Waiting = <<g, k>> /\ <<g, k>> \in Task
    BY <1>3 DEF Waiting, Task
  <2>2. <<g, k>> \in recorded <=> k \in k .. done
    BY <2>1, <1>2 DEF Progress
  <2> QED BY <1>1, <1>3, <1>4, <2>1, <2>2
<1>6. \A t \in Task : t \in recorded' <=> t[1] = g /\ t[2] \in k + 1 .. done
  <2>1. \A t \in Task : t \in recorded <=> t[1] = g /\ t[2] \in k .. done
    BY <1>2 DEF Progress
  <2>2. \A t \in Task : t = <<g, k>> <=> t[1] = g /\ t[2] = k
    BY <1>5 DEF Task
  <2>3. \A t \in Task : t[2] \in k + 1 .. done <=> t[2] \in k .. done /\ t[2] # k
    BY <1>3, <1>4 DEF Task
  <2> HIDE DEF g, k, done
  <2> QED BY <1>1, <1>5, <2>1, <2>2, <2>3
<1>7. CASE k # Tasks
  <2>1. stream' = [stream EXCEPT ![1].task = @ + 1]
    BY <1>3, <1>7 DEF RunTask
  <2>2. /\ Len(stream') = 1 /\ stream'[1] = [stream[1] EXCEPT !.task = @ + 1]
    <3>1. stream \in Seq([graph : 1 .. MaxGraphs, step : Nat, task : 1 .. Tasks])
      BY DEF TypeOK
    <3> QED BY <1>4, <2>1, <3>1
  <2>3. stream'[1].graph = g /\ stream'[1].step = stream[1].step /\ stream'[1].task = k + 1
    BY <1>3, <2>2
  <2>4. stream' # <<>>
    BY <2>2
  <2> HIDE DEF g, k, done
  <2>5. Progress(m)'
    <3>1. /\ stream[1].step = step
          /\ \A j \in 1 .. Len(updates) :
                updates[j] = [task |-> <<g, done + j>>,
                              event |-> <<g, done + j>>, step |-> step]
          /\ \A i \in 1 .. done : bound[<<g, i>>] = step
          /\ host.pc = "update" => host.graph = g /\ host.task = m + 1
      BY <1>2 DEF Progress, g, done
    <3>2. k + 1 <= done + 1
      BY <1>3, <1>4, <1>5
    <3> QED BY <1>1, <1>4, <1>6, <2>2, <2>3, <3>1, <3>2 DEF Progress, done
  <2> QED BY <2>4, <2>5 DEF DeviceInv
<1>8. CASE k = Tasks
  <2>1. m = Tasks /\ Len(updates) = 0 /\ done = Tasks
    BY <1>3, <1>4, <1>5, <1>8, GraphAssumption
  <2>2. updates = <<>>
    <3> DEFINE U == [task : Task, event : Task, step : Nat]
    <3>1. updates \in Seq(U)
      BY DEF TypeOK
    <3> HIDE DEF U
    <3> QED BY <2>1, <3>1, EmptySeq
  <2>3. stream' = <<>>
    <3> DEFINE R == [graph : 1 .. MaxGraphs, step : Nat, task : 1 .. Tasks]
    <3>1. stream \in Seq(R) /\ stream' = Tail(stream)
      BY <1>3, <1>8 DEF TypeOK, RunTask
    <3> HIDE DEF R
    <3>2. Tail(stream) \in Seq(R) /\ Len(Tail(stream)) = 0
      BY <1>1, <1>4, <3>1, HeadTailProperties
    <3> QED BY <3>1, <3>2, EmptySeq
  <2>4. recorded' = {}
    <3>1. \A t \in Task : ~(t[2] \in k + 1 .. done)
      BY <1>8, <2>1, GraphAssumption DEF Task
    <3>2. recorded' \subseteq Task
      BY <1>1 DEF TypeOK
    <3> QED BY <1>6, <3>1, <3>2
  <2>5. host.pc = "update" => host.task = Tasks + 1
    BY <1>2, <2>1 DEF Progress
  <2> QED BY <1>1, <2>2, <2>3, <2>4, <2>5 DEF DeviceInv, Idle
<1> QED BY <1>7, <1>8

LEMMA DeviceStep ==
    ASSUME TypeOK, HostInv, DeviceInv, [Next]_vars
    PROVE  DeviceInv'
<1>1. CASE UpdateTask
  BY <1>1, UpdateDevice
<1>2. CASE RunUpdate
  BY <1>2, UpdateRuns
<1>3. CASE RunTask
  BY <1>3, TaskRuns
<1>4. ASSUME NEW d \in Descs, Replay(d) PROVE DeviceInv'
  BY <1>4, ReplayDevice
<1> QED BY <1>1, <1>2, <1>3, <1>4, QuietDevice

-----------------------------------------------------------------------------
(* The theorems.                                                           *)

LEMMA InitInv == Init => IInv
<1> SUFFICES ASSUME Init PROVE IInv
  OBVIOUS
<1>1. TypeOK
  BY InitType
<1>2. host.pc = "out" /\ phase = "started" /\ pool = "runtime" /\ stream = <<>>
      /\ updates = <<>> /\ recorded = {}
  BY DEF Init, Out
<1>3. Empty
  BY DEF Init, Empty
<1>4. CleanInv /\ EntryInv /\ CaptureInv /\ UpdateInv /\ TodoInv
  BY <1>2, <1>3 DEF CleanInv, EntryInv, CaptureInv, UpdateInv, TodoInv, Empty
<1>5. DeviceInv
  BY <1>2 DEF DeviceInv, Idle
<1> QED BY <1>1, <1>4, <1>5 DEF IInv

LEMMA StepInv == IInv /\ [Next]_vars => IInv'
<1> SUFFICES ASSUME IInv, [Next]_vars PROVE IInv'
  OBVIOUS
<1>1. TypeOK /\ HostInv /\ DeviceInv
  BY DEF IInv, HostInv
<1>2. TypeOK'
  BY <1>1, StepType DEF HostInv
<1>3. HostInv'
  BY <1>1, HostStep
<1>4. DeviceInv'
  BY <1>1, DeviceStep
<1> QED BY <1>2, <1>3, <1>4 DEF IInv, HostInv

(* Through profiles, captures, failures, replays and restarts every        *)
(* variable keeps its type: the registry of graph_params.py holds tasks of *)
(* captured graphs only, the streams what was enqueued on them.            *)
THEOREM TypeCorrect == Spec => []TypeOK
<1>1. IInv => TypeOK
  BY DEF IInv
<1> QED BY InitInv, StepInv, <1>1, PTL DEF Spec

(* update_graph_params finds under the number of tokens of the batch the   *)
(* tasks of the graph that GraphWrapper has just enqueued, each one and in *)
(* order, and that graph is of the runtime pool: whatever was profiled,    *)
(* refused, raised or captured by an earlier runner.                       *)
THEOREM UpdatesOwn == Spec => []UpdatesOwnGraph
<1>1. IInv => UpdatesOwnGraph
  <2> SUFFICES ASSUME IInv, host.pc = "update" PROVE UpdatesOwnGraph
    BY DEF UpdatesOwnGraph
  <2>1. TypeOK /\ HostInv
    BY DEF IInv, HostInv
  <2>2. params[Shape] = [params |-> TasksOf(host.graph), handles |-> TasksOf(host.graph)]
    BY <2>1, RegisteredOwn DEF Registered, Part, PartOf, TasksOf
  <2>3. graphs[host.graph] = "runtime"
    BY <2>1 DEF HostInv, UpdateInv, EntryInv, CleanInv, TypeOK
  <2> QED BY <2>2, <2>3 DEF UpdatesOwnGraph
<1> QED BY InitInv, StepInv, <1>1, PTL DEF Spec

(* prepare_shape raises only when two descriptors of one size are captured *)
(* in one phase: never for what a profile, a failed start or an earlier    *)
(* runner has left.                                                        *)
THEOREM RefusalsJustified == Spec => []RefusedOnlyForSameShape
<1>1. IInv => RefusedOnlyForSameShape
  <2> SUFFICES ASSUME IInv, phase \in {"profile", "capture"}, host.pc = "out",
                      NEW d \in todo, HoldsState(ShapeOf[d])
               PROVE  \E e \in Descs \ {d} : ShapeOf[e] = ShapeOf[d] /\ entries[e] # 0
    BY DEF RefusedOnlyForSameShape
  <2>1. d \in Descs /\ entries[d] = 0
    BY DEF IInv, TypeOK, TodoInv
  <2>2. PICK e \in Descs : ShapeOf[e] = ShapeOf[d] /\ entries[e] # 0
    BY <2>1, ShapeType DEF IInv, TodoInv
  <2> QED BY <2>1, <2>2
<1> QED BY InitInv, StepInv, <1>1, PTL DEF Spec

(* A replayed attention task runs only after the update of its own step:   *)
(* the events are reset as they are awaited, so none that an earlier       *)
(* replay recorded is left to be found, a replay that could not be         *)
(* enqueued and an update that raised included.                            *)
THEOREM TasksRunOwn == Spec => []TasksRunWithOwnStep
<1>1. IInv => TasksRunWithOwnStep
  <2> SUFFICES ASSUME IInv, stream # <<>>, Waiting \in recorded
               PROVE  bound[Waiting] = Head(stream).step
    BY DEF TasksRunWithOwnStep
  <2> DEFINE g == stream[1].graph
             k == stream[1].task
  <2>1. TypeOK /\ DeviceInv
    BY DEF IInv
  <2>2. PICK m \in 0 .. Tasks : Progress(m)
    BY <2>1 DEF DeviceInv
  <2>3. /\ Head(stream) = stream[1] /\ g \in 1 .. MaxGraphs /\ k \in 1 .. Tasks
    BY <2>1, StreamHead
  <2>4. Waiting = <<g, k>> /\ <<g, k>> \in Task
    BY <2>3 DEF Waiting, Task
  <2>5. k \in k .. m - Len(updates)
    BY <2>2, <2>4 DEF Progress
  <2>6. k \in 1 .. m - Len(updates)
    BY <2>3, <2>5
  <2>7. bound[<<g, k>>] = step /\ stream[1].step = step
    BY <2>2, <2>6 DEF Progress
  <2> QED BY <2>3, <2>4, <2>7
<1> QED BY InitInv, StepInv, <1>1, PTL DEF Spec
=============================================================================
