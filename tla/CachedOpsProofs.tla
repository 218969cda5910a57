-------------------------- MODULE CachedOpsProofs --------------------------
(***************************************************************************)
(* Proofs about CachedOps for any number of threads, implementations and   *)
(* policies, any faults and any bound on the epochs.                       *)
(***************************************************************************)
EXTENDS CachedOps, FiniteSetTheorems, TLAPS

----------------------------------------------------------------------------
(* A policy chooses one implementation.                                    *)

(* The first token that i matches.                                         *)
LEMMA PlaceFirst ==
    ASSUME NEW p \in Policies, NEW i, \E k \in DOMAIN Order(p) : MatchToken(i, Order(p)[k])
    PROVE  /\ Place(p, i) \in Nat
           /\ Place(p, i) \in DOMAIN Order(p) /\ MatchToken(i, Order(p)[Place(p, i)])
<1>1. PICK n \in Nat : DOMAIN Order(p) = 1 .. n
  BY CachedAssumption DEF Order
<1> DEFINE K == {k \in 1 .. n : MatchToken(i, Order(p)[k])}
           T == {1 .. k : k \in K}
<1>2. T \subseteq FiniteSubsetsOf(Nat) /\ T # {}
  BY <1>1, FS_Interval DEF FiniteSubsetsOf
<1> HIDE DEF T
<1>3. PICK x \in T : \A y \in T : <<y, x>> \notin StrictSubsetOrdering(Nat)
  BY <1>2, FS_StrictSubsetOrderingWellFounded, WFMin
<1> USE DEF T
<1>4. PICK k \in K : x = 1 .. k
  OBVIOUS
<1>5. ASSUME NEW l \in 1 .. k - 1, l \in K PROVE FALSE
  <2>1. 1 .. l \in T /\ 1 .. l \subseteq x /\ 1 .. l # x /\ x \subseteq Nat
    BY <1>4, <1>5
  <2>2. <<1 .. l, x>> \in StrictSubsetOrdering(Nat)
    BY <2>1 DEF StrictSubsetOrdering
  <2> QED BY <1>3, <2>1, <2>2
<1>6. /\ k \in DOMAIN Order(p) /\ MatchToken(i, Order(p)[k])
      /\ \A l \in 1 .. k - 1 : ~MatchToken(i, Order(p)[l])
  BY <1>1, <1>5
<1>7. Place(p, i) \in DOMAIN Order(p) /\ MatchToken(i, Order(p)[Place(p, i)])
  BY <1>6 DEF Place
<1> QED BY <1>1, <1>7

LEMMA BeforeTotal ==
    ASSUME NEW p \in Policies, NEW S \in SUBSET Impls, Selectable(p, S) = S,
           NEW i \in S, NEW j \in S, NEW k \in S
    PROVE  /\ i # j => Before(p, i, j) \/ Before(p, j, i)
           /\ ~(Before(p, i, j) /\ Before(p, j, i))
           /\ Before(p, i, j) /\ Before(p, j, k) => Before(p, i, k)
<1>1. Place(p, i) \in Nat /\ Place(p, j) \in Nat /\ Place(p, k) \in Nat
  BY PlaceFirst DEF Selectable
<1>2. \A x \in S : Priority[x] \in Int /\ IdOrder[x] \in Int
  BY ImplsAssumption
<1>3. i # j => IdOrder[i] # IdOrder[j]
  BY ImplsAssumption
<1> QED BY <1>1, <1>2, <1>3 DEF Before, Higher

(* In a strict total order a finite set has one least member: by well-     *)
(* foundedness of the finite sets there is no smallest set without.        *)
Orders(R, S) ==
    /\ \A i, j \in S : i # j => <<i, j>> \in R \/ <<j, i>> \in R
    /\ \A i, j \in S : ~(<<i, j>> \in R /\ <<j, i>> \in R)
    /\ \A i, j, k \in S : <<i, j>> \in R /\ <<j, k>> \in R => <<i, k>> \in R

LeastBy(R, S) == {k \in S : \A j \in S \ {k} : <<k, j>> \in R}

LEMMA LeastOne ==
    ASSUME NEW S, IsFiniteSet(S), S # {}, NEW R, Orders(R, S)
    PROVE  \E i \in S : LeastBy(R, S) = {i}
<1> USE DEF Orders
<1> DEFINE Least(A) == {k \in A : \A j \in A \ {k} : <<k, j>> \in R}
           Bad == {A \in SUBSET S : A # {} /\ Least(A) = {}}
<1>1. Bad = {}
  <2> SUFFICES ASSUME Bad # {} PROVE FALSE
    OBVIOUS
  <2>1. Bad \subseteq FiniteSubsetsOf(S)
    BY FS_Subset DEF FiniteSubsetsOf
  <2> HIDE DEF Bad
  <2>2. PICK A \in Bad : \A B \in Bad : <<B, A>> \notin StrictSubsetOrdering(S)
    BY <2>1, FS_StrictSubsetOrderingWellFounded, WFMin
  <2> USE DEF Bad
  <2>3. PICK x \in A : TRUE
    OBVIOUS
  <2>4. <<A \ {x}, A>> \in StrictSubsetOrdering(S)
    BY <2>3 DEF StrictSubsetOrdering
  <2>5. A \ {x} \notin Bad
    BY <2>2, <2>4
  <2>6. A \ {x} # {}
    <3>1. A = {x} => x \in Least(A)
      OBVIOUS
    <3> QED BY <2>3, <3>1
  <2>7. PICK y \in A \ {x} : \A j \in (A \ {x}) \ {y} : <<y, j>> \in R
    BY <2>5, <2>6
  <2>8. CASE <<y, x>> \in R
    <3>1. y \in Least(A)
      BY <2>7, <2>8
    <3> QED BY <3>1
  <2>9. CASE <<x, y>> \in R
    <3>1. \A j \in A \ {x} : <<x, j>> \in R
      BY <2>3, <2>7, <2>9
    <3>2. x \in Least(A)
      BY <2>3, <3>1
    <3> QED BY <3>2
  <2> QED BY <2>3, <2>7, <2>8, <2>9
<1>2. PICK i : i \in Least(S)
  BY <1>1
<1>3. i \in S /\ \A j \in S \ {i} : <<i, j>> \in R
  BY <1>2
<1>4. \A j \in Least(S) : j = i
  BY <1>3
<1> QED BY <1>2, <1>3, <1>4 DEF LeastBy

LEMMA ForemostOne ==
    ASSUME NEW p \in Policies, NEW S \in SUBSET Impls, Selectable(p, S) = S, S # {}
    PROVE  \E i \in S : Foremost(p, S) = {i}
<1> DEFINE R == {d \in S \X S : Before(p, d[1], d[2])}
<1>1. \A i, j \in S : <<i, j>> \in R <=> Before(p, i, j)
  OBVIOUS
<1> HIDE DEF R
<1>2. Orders(R, S)
  BY <1>1, BeforeTotal DEF Orders
<1>3. IsFiniteSet(S)
  BY ImplsAssumption, FS_Subset
<1>4. \E i \in S : LeastBy(R, S) = {i}
  BY <1>2, <1>3, LeastOne
<1>5. Foremost(p, S) = LeastBy(R, S)
  BY <1>1 DEF Foremost, LeastBy
<1> QED BY <1>4, <1>5

(* Likewise in the order a binding launches them in.                       *)
LEMMA AheadTotal ==
    ASSUME NEW p \in Policies, NEW S \in SUBSET Impls, Selectable(p, S) = S,
           NEW i \in S, NEW j \in S, NEW k \in S
    PROVE  /\ i # j => Ahead(p, p, i, j) \/ Ahead(p, p, j, i)
           /\ ~(Ahead(p, p, i, j) /\ Ahead(p, p, j, i))
           /\ Ahead(p, p, i, j) /\ Ahead(p, p, j, k) => Ahead(p, p, i, k)
<1>1. DefaultRank[i] \in Nat /\ DefaultRank[j] \in Nat /\ DefaultRank[k] \in Nat
  BY CachedAssumption
<1>2. CASE OwnOrder(p)
  BY <1>1, <1>2, BeforeTotal DEF Ahead
<1>3. CASE ~OwnOrder(p)
  BY <1>3, BeforeTotal DEF Ahead
<1> QED BY <1>2, <1>3

LEMMA FirstOne ==
    ASSUME NEW p \in Policies, NEW S \in SUBSET Impls, Selectable(p, S) = S, S # {}
    PROVE  \E i \in S : /\ First(p, p, S) = {i}
                        /\ \A j \in S \ {i} : ~Ahead(p, p, j, i)
<1> DEFINE R == {d \in S \X S : Ahead(p, p, d[1], d[2])}
<1>1. \A i, j \in S : <<i, j>> \in R <=> Ahead(p, p, i, j)
  OBVIOUS
<1> HIDE DEF R
<1>2. Orders(R, S)
  BY <1>1, AheadTotal DEF Orders
<1>3. IsFiniteSet(S)
  BY ImplsAssumption, FS_Subset
<1>4. PICK i \in S : LeastBy(R, S) = {i}
  BY <1>2, <1>3, LeastOne
<1>5. First(p, p, S) = LeastBy(R, S)
  BY <1>1 DEF First, LeastBy
<1>6. \A j \in S \ {i} : Ahead(p, p, i, j)
  BY <1>4, <1>5 DEF First
<1>7. \A j \in S \ {i} : ~Ahead(p, p, j, i)
  BY <1>6, AheadTotal
<1> QED BY <1>4, <1>5, <1>7

LEMMA Choice ==
    ASSUME NEW p \in Policies
    PROVE  /\ Candidates(p) \subseteq Impls /\ Foremost(p, Candidates(p)) \subseteq Impls
           /\ Candidates(p) # {} => \E i \in Impls : Foremost(p, Candidates(p)) = {i}
<1>1. Candidates(p) \subseteq Impls
  BY DEF Candidates, Selectable, ComputeCandidates
<1>2. Selectable(p, Candidates(p)) = Candidates(p)
  BY DEF Candidates, Selectable
<1> QED BY <1>1, <1>2, ForemostOne DEF Foremost

----------------------------------------------------------------------------
(* Types.                                                                  *)

(* The epoch is bumped by MaxEpoch changes and by the initialization; what *)
(* a call is about to keep is one implementation.                          *)
TypeInv == /\ TypeOK
           /\ ~initialized => epoch <= MaxEpoch
           /\ policyEpoch <= MaxEpoch
           /\ \A t \in Threads : At(t, "publish") => \E i \in Impls : calls[t].impls = {i}

LEMMA PolicyType == ASSUME TypeOK, NEW t \in Threads PROVE Policy(t) \in Policies
BY DEF TypeOK, Policy

LEMMA IdleType == TypeOK => Idle \in Call
<1> SUFFICES ASSUME TypeOK PROVE Idle \in Call
  OBVIOUS
<1>1. (CHOOSE p \in Policies : TRUE) \in Policies
  BY DEF TypeOK
<1>2. 0 \in Epochs
  BY CachedAssumption DEF Epochs
<1> QED BY <1>1, <1>2 DEF Idle, Call, PCs

LEMMA InitializeType ==
    ASSUME TypeInv, Initialize
    PROVE  initialized' = TRUE /\ epoch' \in Epochs
BY CachedAssumption DEF TypeInv, TypeOK, Initialize, Epochs

LEMMA TypeInit == Init => TypeInv
<1> SUFFICES ASSUME Init PROVE TypeInv
  OBVIOUS
<1>1. Idle.policy \in Policies /\ Idle.by \in Policies
  BY DEF Init, Idle
<1>2. Idle \in Call /\ 0 \in Epochs
  BY <1>1, CachedAssumption DEF Idle, Call, PCs, Epochs
<1>3. op \in [impl : Impls \cup {NoImpl}, frozen : BOOLEAN, viaManager : BOOLEAN,
              epoch : {-1} \cup Epochs, policyEpoch : {-1} \cup Epochs]
  BY DEF Init
<1>4. binding \in [epoch : {-1} \cup Epochs, policyEpoch : {-1} \cup Epochs,
                  policy : Policies, by : Policies, impls : SUBSET Impls]
  <2>1. {} \in SUBSET Impls
    OBVIOUS
  <2> QED BY <1>1, <2>1 DEF Init
<1>5. /\ calls \in [Threads -> Call] /\ stale \in [Threads -> 0 .. 2]
      /\ context \in [Threads -> Policies \cup {NoPolicy}]
      /\ global \in Policies /\ policyEpoch \in Epochs /\ epoch \in Epochs
      /\ failed \subseteq Impls /\ initialized \in BOOLEAN
  <2>1. calls \in [Threads -> Call]
    BY <1>2 DEF Init
  <2>2. stale \in [Threads -> 0 .. 2]
    BY DEF Init
  <2>3. context \in [Threads -> Policies \cup {NoPolicy}]
    BY DEF Init
  <2>4. /\ global \in Policies /\ policyEpoch \in Epochs /\ epoch \in Epochs
        /\ failed \subseteq Impls /\ initialized \in BOOLEAN
    BY <1>2 DEF Init
  <2> QED BY <2>1, <2>2, <2>3, <2>4
<1>6. TypeOK
  BY <1>3, <1>4, <1>5 DEF TypeOK
<1> QED BY <1>6, CachedAssumption DEF Init, TypeInv, At, Idle

(* A call at another place.                                                *)
LEMMA GotoCall ==
    ASSUME NEW c \in Call, NEW x \in PCs
    PROVE  LET k == [c EXCEPT !.pc = x] IN
             /\ k \in Call /\ k.pc = x
             /\ k.epoch = c.epoch /\ k.policyEpoch = c.policyEpoch
             /\ k.policy = c.policy /\ k.by = c.by /\ k.impls = c.impls
             /\ k.changed = c.changed
BY DEF Call

(* A call that has chosen.                                                 *)
LEMMA ChooseCall ==
    ASSUME NEW c \in Call, NEW x \in PCs, NEW S \in SUBSET Impls
    PROVE  LET k == [c EXCEPT !.pc = x, !.impls = S] IN
             /\ k \in Call /\ k.pc = x /\ k.impls = S
             /\ k.epoch = c.epoch /\ k.policyEpoch = c.policyEpoch
             /\ k.policy = c.policy /\ k.by = c.by /\ k.changed = c.changed
BY DEF Call

LEMMA BindCall ==
    ASSUME NEW c \in Call, NEW x \in PCs, NEW b \in Policies, NEW S \in SUBSET Impls
    PROVE  LET k == [c EXCEPT !.pc = x, !.by = b, !.impls = S] IN
             /\ k \in Call /\ k.pc = x /\ k.by = b /\ k.impls = S
             /\ k.epoch = c.epoch /\ k.policyEpoch = c.policyEpoch
             /\ k.policy = c.policy /\ k.changed = c.changed
BY DEF Call

(* What a binding's call becomes when it launches.                         *)
LEMMA LaunchCall ==
    ASSUME TypeOK, NEW t \in Threads, Launch(t), ~Set(t, Idle)
    PROVE  \E w \in Workloads, c \in Call :
              /\ Set(t, c) /\ c.pc = "launched" /\ c.workload = w
              /\ calls[t].impls \cap w # {}
              /\ c.impls = First(Policy(t), calls[t].by, calls[t].impls \cap w)
<1>1. PICK w \in Workloads :
         /\ calls[t].impls \cap w # {}
         /\ Set(t, [calls[t] EXCEPT !.pc = "launched", !.workload = w,
                 !.impls = First(Policy(t), calls[t].by, calls[t].impls \cap w)])
  BY DEF Launch
<1> DEFINE S == First(Policy(t), calls[t].by, calls[t].impls \cap w)
           c == [calls[t] EXCEPT !.pc = "launched", !.workload = w, !.impls = S]
<1>2. calls[t] \in Call /\ w \in SUBSET Impls /\ "launched" \in PCs
  BY CachedAssumption DEF TypeOK, PCs
<1>3. S \in SUBSET Impls
  BY <1>2 DEF First, Call
<1>4. Set(t, c)
  BY <1>1
<1> HIDE DEF S
<1>5. c \in Call /\ c.pc = "launched" /\ c.workload = w /\ c.impls = S
  BY <1>2, <1>3 DEF Call
<1> HIDE DEF c
<1> QED BY <1>1, <1>4, <1>5 DEF S

LEMMA StartCalls ==
    ASSUME TypeOK, NEW t \in Threads
    PROVE  /\ LET k == [Idle EXCEPT !.pc = "check", !.epoch = epoch,
                                   !.policyEpoch = policyEpoch]
              IN /\ k \in Call /\ k.pc = "check" /\ k.policyEpoch = policyEpoch
                 /\ k.impls = {}
           /\ LET k == [Idle EXCEPT !.pc = "lookup", !.policy = Policy(t), !.epoch = epoch,
                                   !.policyEpoch = policyEpoch]
              IN k \in Call /\ k.pc = "lookup" /\ k.policy = Policy(t) /\ k.impls = {}
           /\ Idle.pc = "idle"
<1>1. Policy(t) \in Policies /\ Idle \in Call
  BY PolicyType, IdleType
<1> QED BY <1>1 DEF Idle, Call, PCs, TypeOK

(* A step of one thread: what it makes of its call.                        *)
LEMMA SetType ==
    ASSUME TypeInv, NEW t \in Threads, NEW c \in Call, Set(t, c),
           c.pc = "publish" => \E i \in Impls : c.impls = {i}
    PROVE  /\ calls' \in [Threads -> Call]
           /\ \A u \in Threads : At(u, "publish")' => \E i \in Impls : calls'[u].impls = {i}
BY DEF TypeInv, TypeOK, Set, At

LEMMA TypeStep == TypeInv /\ [Next]_vars => TypeInv'
<1> SUFFICES ASSUME TypeInv, [Next]_vars PROVE TypeInv'
  OBVIOUS
<1> USE DEF PoliciesUnchanged, ManagerUnchanged, CachesUnchanged
<1>1. TypeOK /\ Idle \in Call /\ \A t \in Threads : Policy(t) \in Policies
  BY PolicyType, IdleType DEF TypeInv
<1>2. ASSUME NEW t \in Threads,
             StartOp(t) \/ Read(t) \/ RunReturns(t) \/ RunRaises(t) \/ StartBinding(t)
               \/ Lookup(t) \/ Launch(t) \/ LaunchEnds(t)
      PROVE  TypeInv'
  <2>1. \E c \in Call : Set(t, c) /\ c.pc # "publish"
    <3>1. calls[t] \in Call /\ Idle.pc = "idle"
      BY <1>1, StartCalls DEF TypeOK
    <3>2. CASE StartOp(t) \/ StartBinding(t)
      BY <1>1, <3>2, StartCalls DEF StartOp, StartBinding
    <3>3. CASE Read(t)
      <4>1. CASE Goto(t, "manager") \/ Goto(t, "resolve")
        BY <3>1, <4>1, GotoCall, ZenonT(60) DEF Goto, PCs
      <4>2. CASE /\ op.impl # NoImpl
                 /\ Set(t, [calls[t] EXCEPT !.pc = "run", !.impls = {op.impl}])
        <5>1. {op.impl} \in SUBSET Impls
          BY <1>1, <4>2 DEF TypeOK
        <5>2. "run" \in PCs
          BY DEF PCs
        <5>3. LET k == [calls[t] EXCEPT !.pc = "run", !.impls = {op.impl}]
              IN k \in Call /\ k.pc = "run"
          BY <3>1, <5>1, <5>2 DEF Call
        <5> QED BY <4>2, <5>3
      <4> QED BY <3>3, <4>1, <4>2 DEF Read
    <3>4. CASE RunReturns(t) \/ LaunchEnds(t) \/ Set(t, Idle)
      BY <1>1, <3>1, <3>4 DEF RunReturns, LaunchEnds
    <3>7. CASE Launch(t) /\ ~Set(t, Idle)
      BY <1>1, <3>7, LaunchCall
    <3>5. CASE RunRaises(t)
      BY <3>1, <3>5, GotoCall DEF RunRaises, Goto, PCs
    <3>6. CASE Lookup(t)
      <4>1. binding.by \in Policies /\ binding.impls \in SUBSET Impls
        BY <1>1 DEF TypeOK
      <4>2. CASE Goto(t, "preflight")
        BY <3>1, <4>2, GotoCall DEF Goto, PCs
      <4>3. CASE Set(t, [calls[t] EXCEPT !.pc = "launch", !.by = binding.by,
                                         !.impls = binding.impls])
        <5>1. "launch" \in PCs
          BY DEF PCs
        <5>2. LET k == [calls[t] EXCEPT !.pc = "launch", !.by = binding.by,
                                        !.impls = binding.impls]
              IN k \in Call /\ k.pc = "launch"
          BY <3>1, <4>1, <5>1 DEF Call
        <5> QED BY <4>3, <5>2
      <4> QED BY <3>6, <4>2, <4>3 DEF Lookup
    <3> QED BY <1>2, <3>2, <3>3, <3>4, <3>5, <3>6, <3>7
  <2>2. stale' \in [Threads -> 0 .. 2]
    <3>1. UNCHANGED stale \/ CountStale(t)
      BY <1>2 DEF StartOp, Read, RunReturns, RunRaises, StartBinding, Lookup, Launch,
                  LaunchEnds
    <3> QED BY <1>1, <3>1 DEF CountStale, TypeOK
  <2>3. UNCHANGED <<global, context, policyEpoch, epoch, initialized, failed, op, binding>>
    BY <1>2 DEF StartOp, Read, RunReturns, RunRaises, StartBinding, Lookup, Launch,
                LaunchEnds
  <2> QED BY <2>1, <2>2, <2>3, SetType DEF TypeInv, TypeOK
<1>3. ASSUME NEW t \in Threads,
             Check(t) \/ Publish(t) \/ FallBack(t) \/ Bind(t) \/ Prewarm(t)
      PROVE  TypeInv'
  <2>1. /\ calls' \in [Threads -> Call]
        /\ \A u \in Threads : At(u, "publish")' => \E i \in Impls : calls'[u].impls = {i}
    <3>1. CASE Prewarm(t)
      BY <3>1 DEF Prewarm, TypeInv, TypeOK, At
    <3>2. CASE ~Prewarm(t)
      <4>1. \E c \in Call : Set(t, c) /\ c.pc # "publish"
        <5>1. calls[t] \in Call /\ Idle.pc = "idle"
          BY <1>1, StartCalls DEF TypeOK
        <5>2. Set(t, Idle) \/ Goto(t, "read") \/ Goto(t, "run") \/ Goto(t, "manager")
                \/ Goto(t, "launch")
          BY <1>3, <3>2 DEF Check, Publish, FallBack, Bind
        <5> QED BY <1>1, <5>1, <5>2, GotoCall, ZenonT(60) DEF Goto, PCs
      <4> QED BY <4>1, SetType
    <3> QED BY <3>1, <3>2
  <2>2. /\ op' \in [impl : Impls \cup {NoImpl}, frozen : BOOLEAN, viaManager : BOOLEAN,
                    epoch : {-1} \cup Epochs, policyEpoch : {-1} \cup Epochs]
        /\ epoch' \in Epochs /\ initialized' \in BOOLEAN
        /\ ~initialized' => epoch' <= MaxEpoch
    <3>1. CASE Check(t) \/ FallBack(t) \/ Bind(t)
      BY <1>1, <3>1 DEF Check, FallBack, Bind, TypeInv, TypeOK
    <3>2. CASE Publish(t)
      <4>1. The(calls[t].impls) \in Impls
        BY <3>2 DEF Publish, TypeInv, The
      <4> QED BY <3>2, <4>1 DEF Publish, TypeInv, TypeOK
    <3>3. CASE Prewarm(t)
      <4>1. The(Foremost(Policy(t), Candidates(Policy(t)))) \in Impls
        BY <1>1, <3>3, Choice DEF Prewarm, The
      <4> QED BY <3>3, <4>1, InitializeType DEF Prewarm, TypeInv, TypeOK
    <3> QED BY <1>3, <3>1, <3>2, <3>3
  <2>3. binding' \in [epoch : {-1} \cup Epochs, policyEpoch : {-1} \cup Epochs,
                     policy : Policies, by : Policies, impls : SUBSET Impls]
    BY <1>1, <1>3 DEF Check, Publish, FallBack, Bind, Prewarm, TypeOK, Call
  <2>4. failed' \subseteq Impls
    BY <1>1, <1>3 DEF Check, Publish, FallBack, Bind, Prewarm, TypeOK, Call
  <2>5. UNCHANGED <<global, context, policyEpoch, stale>>
    BY <1>3 DEF Check, Publish, FallBack, Bind, Prewarm
  <2> QED BY <2>1, <2>2, <2>3, <2>4, <2>5 DEF TypeInv, TypeOK
<1>4. ASSUME NEW t \in Threads, Resolve(t) \/ ManagerCall(t) \/ Preflight(t)
      PROVE  TypeInv'
  <2>1. \E c \in Call : Set(t, c) /\ (c.pc = "publish" => \E i \in Impls : c.impls = {i})
    <3>1. /\ calls[t] \in Call /\ Idle.pc = "idle" /\ Policy(t) \in Policies
          /\ Candidates(Policy(t)) \subseteq Impls
      BY <1>1, StartCalls, Choice DEF TypeOK
    <3>2. CASE Set(t, Idle)
      BY <1>1, <3>1, <3>2
    <3>3. CASE Resolve(t) /\ ~Set(t, Idle)
      <4> DEFINE S == Foremost(Policy(t), Candidates(Policy(t)))
      <4>1. S \in SUBSET Impls /\ \E i \in Impls : S = {i}
        BY <3>1, <3>3, Choice DEF Resolve
      <4>2. Set(t, [calls[t] EXCEPT !.pc = "publish", !.impls = S])
        BY <3>3 DEF Resolve
      <4> HIDE DEF S
      <4>3. "publish" \in PCs
        BY DEF PCs
      <4>4. LET k == [calls[t] EXCEPT !.pc = "publish", !.impls = S]
            IN k \in Call /\ k.impls = S
        BY <3>1, <4>1, <4>3 DEF Call
      <4> QED BY <4>1, <4>2, <4>4
    <3>4. CASE Preflight(t) /\ ~Set(t, Idle)
      <4> DEFINE S == Candidates(Policy(t)) \ failed
      <4>1. S \in SUBSET Impls
        BY <3>1
      <4>2. Set(t, [calls[t] EXCEPT !.pc = "bind", !.by = Policy(t), !.impls = S])
        BY <3>4 DEF Preflight
      <4> HIDE DEF S
      <4>3. "bind" \in PCs
        BY DEF PCs
      <4>4. LET k == [calls[t] EXCEPT !.pc = "bind", !.by = Policy(t), !.impls = S]
            IN k \in Call /\ k.pc = "bind"
        BY <3>1, <4>1, <4>3 DEF Call
      <4> QED BY <4>2, <4>4
    <3> QED BY <1>4, <3>2, <3>3, <3>4 DEF ManagerCall
  <2>2. initialized' = TRUE /\ epoch' \in Epochs
    BY <1>4, InitializeType DEF Resolve, ManagerCall, Preflight
  <2>3. failed' \subseteq Impls
    <3>1. Tried(t) \subseteq Impls
      BY <1>1, Choice DEF Tried
    <3> QED BY <1>1, <1>4, <3>1 DEF Resolve, ManagerCall, Preflight, TypeOK
  <2>4. UNCHANGED <<global, context, policyEpoch, op, binding, stale>>
    BY <1>4 DEF Resolve, ManagerCall, Preflight
  <2> QED BY <2>1, <2>2, <2>3, <2>4, SetType DEF TypeInv, TypeOK
<1>5. CASE Change
  <2>1. /\ calls' \in [Threads -> Call] /\ stale' \in [Threads -> 0 .. 2]
        /\ \A u \in Threads : At(u, "publish")' => \E i \in Impls : calls'[u].impls = {i}
    <3>1. NoteChange
      BY <1>5 DEF Change, SetGlobalPolicy, EnterContext, ExitContext, BumpManagerEpoch
    <3>2. stale' \in [Threads -> 0 .. 2]
      BY <3>1 DEF NoteChange
    <3>3. \A c \in Call : LET k == [c EXCEPT !.changed = TRUE]
                          IN k \in Call /\ k.pc = c.pc /\ k.impls = c.impls
      BY DEF Call
    <3>4. \A u \in Threads : /\ calls'[u] \in Call /\ calls'[u].pc = calls[u].pc
                             /\ calls'[u].impls = calls[u].impls
      BY <1>1, <3>1, <3>3 DEF NoteChange, TypeOK
    <3>5. calls' \in [Threads -> Call]
      BY <3>1, <3>4 DEF NoteChange
    <3> QED BY <3>2, <3>4, <3>5 DEF TypeInv, At
  <2>2. /\ global' \in Policies /\ context' \in [Threads -> Policies \cup {NoPolicy}]
        /\ failed' \subseteq Impls
    BY <1>1, <1>5 DEF Change, SetGlobalPolicy, EnterContext, ExitContext, BumpManagerEpoch,
                      TypeOK
  <2>3. /\ policyEpoch' \in Epochs /\ epoch' \in Epochs /\ policyEpoch' <= MaxEpoch
        /\ ~initialized' => epoch' <= MaxEpoch
    BY <1>5, CachedAssumption
       DEF Change, SetGlobalPolicy, EnterContext, ExitContext, BumpManagerEpoch,
           BumpPolicyEpoch, TypeInv, TypeOK, Epochs
  <2>4. UNCHANGED <<op, binding, initialized>>
    BY <1>5 DEF Change, SetGlobalPolicy, EnterContext, ExitContext, BumpManagerEpoch
  <2> QED BY <2>1, <2>2, <2>3, <2>4 DEF TypeInv, TypeOK
<1>6. CASE UNCHANGED vars
  BY <1>6 DEF vars, TypeInv, TypeOK, At
<1> QED BY <1>2, <1>3, <1>4, <1>5, <1>6 DEF Next, CachedOpNext, BindingNext

(* The variables keep their types; in particular a CachedOp never keeps    *)
(* something that is not an implementation.                                *)
THEOREM TypeCorrect == Spec => []TypeOK
<1>1. TypeInv => TypeOK
  BY DEF TypeInv
<1> QED BY <1>1, TypeInit, TypeStep, PTL DEF Spec

----------------------------------------------------------------------------
(* No implementation is run again after it failed.                         *)

(* A call on its way to the manager has marked what it has tried.          *)
MarkedCall(c, marked) == /\ c.pc \in {"check", "read"} => c.impls = {}
                         /\ c.pc = "manager" /\ ~c.changed => c.impls \subseteq marked

MarkInv == \A t \in Threads : MarkedCall(calls[t], failed)

LEMMA SetCall ==
    ASSUME TypeOK, NEW t \in Threads, NEW c, Set(t, c)
    PROVE  calls'[t] = c /\ \A u \in Threads \ {t} : calls'[u] = calls[u]
BY DEF TypeOK, Set

LEMMA MarkStep == TypeInv /\ MarkInv /\ [Next]_vars => MarkInv'
<1> SUFFICES ASSUME TypeInv, MarkInv, [Next]_vars PROVE MarkInv'
  OBVIOUS
<1> USE DEF PoliciesUnchanged, ManagerUnchanged, CachesUnchanged
<1>1. TypeOK /\ Idle.pc = "idle" /\ \A t \in Threads : calls[t] \in Call
  BY DEF TypeInv, TypeOK, Idle
<1>2. ASSUME NEW t \in Threads, CachedOpNext(t) \/ BindingNext(t), ~Prewarm(t)
      PROVE  MarkInv'
  <2>1. failed \subseteq failed'
    BY <1>2 DEF CachedOpNext, BindingNext, StartOp, Check, Read, Resolve, Publish, RunReturns,
                RunRaises, FallBack, ManagerCall, StartBinding, Lookup, Preflight, Bind, Launch,
                LaunchEnds
  <2>2. \E c : Set(t, c) /\ MarkedCall(c, failed')
    <3>1. CASE StartOp(t) \/ StartBinding(t)
      BY <1>1, <3>1, StartCalls DEF StartOp, StartBinding, MarkedCall
    <3>2. CASE Check(t)
      <4>1. calls[t].impls = {} /\ Goto(t, "read") /\ "read" \in PCs
        BY <3>2 DEF Check, At, MarkInv, MarkedCall, PCs
      <4>2. [calls[t] EXCEPT !.pc = "read"].impls = {}
        BY <1>1, <4>1, GotoCall
      <4>3. MarkedCall([calls[t] EXCEPT !.pc = "read"], failed')
        BY <4>2 DEF MarkedCall
      <4> QED BY <4>1, <4>3 DEF Goto
    <3>3. CASE Read(t)
      <4>1. calls[t].impls = {}
        BY <3>3 DEF Read, At, MarkInv, MarkedCall
      <4>2. CASE \E x \in {"manager", "resolve"} : Goto(t, x)
        <5>1. PICK x \in {"manager", "resolve"} : Goto(t, x)
          BY <4>2
        <5>2. x \in PCs
          BY DEF PCs
        <5>3. [calls[t] EXCEPT !.pc = x].impls = {}
          BY <1>1, <4>1, <5>2, GotoCall
        <5>4. MarkedCall([calls[t] EXCEPT !.pc = x], failed')
          BY <5>3 DEF MarkedCall
        <5> QED BY <5>1, <5>4 DEF Goto
      <4>3. CASE Set(t, [calls[t] EXCEPT !.pc = "run", !.impls = {op.impl}])
        <5>1. [calls[t] EXCEPT !.pc = "run", !.impls = {op.impl}].pc = "run"
          BY <1>1 DEF Call
        <5> QED BY <4>3, <5>1 DEF MarkedCall
      <4> QED BY <3>3, <4>2, <4>3 DEF Read
    <3>4. CASE Set(t, Idle)
      BY <1>1, <3>4 DEF MarkedCall
    <3>5. CASE FallBack(t) /\ ~Set(t, Idle)
      <4>1. calls[t].impls \subseteq failed' /\ Goto(t, "manager") /\ "manager" \in PCs
        BY <3>5 DEF FallBack, PCs
      <4>2. /\ [calls[t] EXCEPT !.pc = "manager"].impls = calls[t].impls
            /\ [calls[t] EXCEPT !.pc = "manager"].pc = "manager"
        BY <1>1, <4>1, GotoCall
      <4>3. MarkedCall([calls[t] EXCEPT !.pc = "manager"], failed')
        BY <4>1, <4>2 DEF MarkedCall
      <4> QED BY <4>1, <4>3 DEF Goto
    <3>6. CASE \/ Goto(t, "run") \/ Goto(t, "failed")
               \/ Goto(t, "preflight") \/ Goto(t, "launch")
      BY <1>1, <3>6, GotoCall, ZenonT(60) DEF Goto, MarkedCall, PCs
    <3>7. CASE Resolve(t) /\ ~Set(t, Idle)
      <4> DEFINE S == Foremost(Policy(t), Candidates(Policy(t)))
      <4>1. Set(t, [calls[t] EXCEPT !.pc = "publish", !.impls = S])
        BY <3>7 DEF Resolve
      <4> HIDE DEF S
      <4>2. [calls[t] EXCEPT !.pc = "publish", !.impls = S].pc = "publish"
        BY <1>1 DEF Call
      <4> QED BY <4>1, <4>2 DEF MarkedCall
    <3>8. CASE Lookup(t) /\ ~Goto(t, "preflight")
      <4>1. Set(t, [calls[t] EXCEPT !.pc = "launch", !.by = binding.by,
                                    !.impls = binding.impls])
        BY <3>8 DEF Lookup
      <4>2. [calls[t] EXCEPT !.pc = "launch", !.by = binding.by,
                             !.impls = binding.impls].pc = "launch"
        BY <1>1 DEF Call
      <4> QED BY <4>1, <4>2 DEF MarkedCall
    <3>9. CASE Preflight(t) /\ ~Set(t, Idle)
      <4> DEFINE S == Candidates(Policy(t)) \ failed
      <4>1. Set(t, [calls[t] EXCEPT !.pc = "bind", !.by = Policy(t), !.impls = S])
        BY <3>9 DEF Preflight
      <4> HIDE DEF S
      <4>2. [calls[t] EXCEPT !.pc = "bind", !.by = Policy(t), !.impls = S].pc = "bind"
        BY <1>1 DEF Call
      <4> QED BY <4>1, <4>2 DEF MarkedCall
    <3>10. CASE Launch(t) /\ ~Set(t, Idle)
      <4>1. \E c \in Call : Set(t, c) /\ c.pc = "launched"
        BY <1>1, <3>10, LaunchCall
      <4> QED BY <4>1 DEF MarkedCall
    <3> QED
      BY <1>2, <3>1, <3>2, <3>3, <3>4, <3>5, <3>6, <3>7, <3>8, <3>9, <3>10
         DEF CachedOpNext, BindingNext, Publish, RunReturns, RunRaises, ManagerCall, Bind,
             LaunchEnds
  <2> QED BY <1>1, <2>1, <2>2, SetCall DEF MarkInv, MarkedCall
<1>3. ASSUME NEW t \in Threads, Prewarm(t) PROVE MarkInv'
  BY <1>3 DEF Prewarm, MarkInv
<1>4. CASE Change
  <2>1. NoteChange /\ (failed' = failed \/ failed' = {})
    BY <1>4 DEF Change, SetGlobalPolicy, EnterContext, ExitContext, BumpManagerEpoch
  <2>2. ASSUME NEW u \in Threads PROVE MarkedCall(calls'[u], failed')
    <3>1. CASE At(u, "idle")
      BY <2>1, <3>1 DEF NoteChange, At, MarkedCall
    <3>2. CASE ~At(u, "idle")
      <4>1. calls'[u] = [calls[u] EXCEPT !.changed = TRUE]
        BY <2>1, <3>2 DEF NoteChange
      <4>2. /\ calls'[u].changed = TRUE /\ calls'[u].pc = calls[u].pc
            /\ calls'[u].impls = calls[u].impls
        BY <1>1, <4>1 DEF Call
      <4> QED BY <4>2 DEF MarkInv, MarkedCall
    <3> QED BY <3>1, <3>2
  <2> QED BY <2>2 DEF MarkInv
<1>5. CASE UNCHANGED vars
  BY <1>5 DEF vars, MarkInv
<1> QED BY <1>2, <1>3, <1>4, <1>5 DEF Next

(* What the fast path saw fail is marked before the manager is asked, so   *)
(* the manager does not try it again, unless the failures were forgotten.  *)
THEOREM NeverTriedTwice == Spec => []NoSecondTry
<1>1. Init => MarkInv
  BY DEF Init, MarkInv, MarkedCall, Idle
<1>2. MarkInv => NoSecondTry
  BY DEF MarkInv, MarkedCall, NoSecondTry, At, Tried
<1> QED BY <1>1, <1>2, TypeInit, TypeStep, MarkStep, PTL DEF Spec

----------------------------------------------------------------------------
(* Bindings, when policies change between calls only.                      *)

(* S are the candidates of policy p without some that have failed.         *)
Kept(S, p, bad) == S \subseteq Candidates(p) /\ Candidates(p) \ S \subseteq bad

(* What a binding may launch for workload w under policy p.                *)
Best(S, w, p, bad) ==
    \E i \in Candidates(p) \cap w :
        /\ S = {i}
        /\ \A j \in (Candidates(p) \cap w) \ {i} : Ahead(p, p, j, i) => j \in bad

(* What the call of a thread with policy p has read and bound.             *)
BoundCall(c, p, bad) ==
    /\ c.pc \in {"lookup", "preflight", "bind"} => c.policy = p
    /\ c.pc \in {"bind", "launch"} => c.by = p /\ Kept(c.impls, p, bad)
    /\ c.pc = "launched" => Best(c.impls, c.workload, p, bad)

(* A call that has read an older epoch than the one of now does not find   *)
(* the binding under it: only the initialization comes during a call, and  *)
(* nothing has been bound before.                                          *)
KeyCall(c, now, key, registered) ==
    /\ c.pc = "lookup" => c.epoch = now \/ c.epoch # key
    /\ c.pc = "bind" => registered

(* The policy in the key of a binding is the one its candidates are of,    *)
(* and in its epoch all it has left out have failed.                       *)
BindInv == /\ binding.by = binding.policy
           /\ binding.epoch <= epoch
           /\ binding.epoch # -1 => initialized
           /\ binding.epoch = epoch => Kept(binding.impls, binding.by, failed)
           /\ \A t \in Threads : /\ BoundCall(calls[t], Policy(t), failed)
                                 /\ KeyCall(calls[t], epoch, binding.epoch, initialized)

LEMMA PolicyFrame ==
    ASSUME UNCHANGED <<global, context>>, NEW t PROVE Policy(t)' = Policy(t)
BY DEF Policy

(* More failures leave what holds of a call as it is.                      *)
LEMMA MoreFailures ==
    ASSUME NEW c, NEW p, NEW bad, NEW worse, bad \subseteq worse, BoundCall(c, p, bad)
    PROVE  BoundCall(c, p, worse)
BY DEF BoundCall, Kept, Best

(* A change comes between calls and leaves them alone.                     *)
LEMMA QuietChange ==
    ASSUME Quiet, TypeInv, Change
    PROVE  /\ \A t \in Threads : calls'[t].pc = "idle"
           /\ UNCHANGED <<op, binding>>
           /\ policyEpoch' = policyEpoch + 1 \/ UNCHANGED <<global, context, policyEpoch>>
<1>1. MayChange /\ NoteChange /\ UNCHANGED <<op, binding>>
  BY DEF Change, SetGlobalPolicy, EnterContext, ExitContext, BumpManagerEpoch, CachesUnchanged
<1>2. \A t \in Threads : calls'[t].pc = "idle"
  BY <1>1 DEF MayChange, NoteChange, At
<1>3. policyEpoch' = policyEpoch + 1 \/ UNCHANGED <<global, context, policyEpoch>>
  BY DEF Change, SetGlobalPolicy, EnterContext, ExitContext, BumpManagerEpoch,
         BumpPolicyEpoch, PoliciesUnchanged
<1> QED BY <1>1, <1>2, <1>3

(* The call of a CachedOp stays within its own places.                     *)
LEMMA OpCall ==
    ASSUME TypeInv, NEW t \in Threads, CachedOpNext(t), ~Prewarm(t)
    PROVE  \E c : /\ Set(t, c)
                  /\ c.pc \in {"idle", "check", "read", "resolve", "publish", "run",
                               "failed", "manager"}
<1>1. TypeOK /\ Idle.pc = "idle" /\ calls[t] \in Call
  BY DEF TypeInv, TypeOK, Idle
<1>2. CASE StartOp(t)
  BY <1>1, <1>2, StartCalls DEF StartOp
<1>3. CASE Read(t) /\ ~Goto(t, "manager") /\ ~Goto(t, "resolve")
  <2>1. Set(t, [calls[t] EXCEPT !.pc = "run", !.impls = {op.impl}])
    BY <1>3 DEF Read
  <2>2. [calls[t] EXCEPT !.pc = "run", !.impls = {op.impl}].pc = "run"
    BY <1>1 DEF Call
  <2> QED BY <2>1, <2>2
<1>4. CASE Resolve(t) /\ ~Set(t, Idle)
  <2> DEFINE S == Foremost(Policy(t), Candidates(Policy(t)))
  <2>1. Set(t, [calls[t] EXCEPT !.pc = "publish", !.impls = S])
    BY <1>4 DEF Resolve
  <2> HIDE DEF S
  <2>2. [calls[t] EXCEPT !.pc = "publish", !.impls = S].pc = "publish"
    BY <1>1 DEF Call
  <2> QED BY <2>1, <2>2
<1>5. CASE \E x \in {"read", "resolve", "run", "failed", "manager"} : Goto(t, x)
  <2>1. PICK x \in {"read", "resolve", "run", "failed", "manager"} : Goto(t, x)
    BY <1>5
  <2>2. [calls[t] EXCEPT !.pc = x].pc = x
    BY <1>1 DEF Call
  <2> QED BY <2>1, <2>2 DEF Goto
<1>6. CASE Set(t, Idle)
  BY <1>1, <1>6
<1> QED
  BY <1>2, <1>3, <1>4, <1>5, <1>6
     DEF CachedOpNext, Check, Read, Publish, RunReturns, RunRaises, FallBack, ManagerCall

(* The call of a binding likewise.                                         *)
LEMMA BindingCall ==
    ASSUME TypeInv, NEW t \in Threads, BindingNext(t)
    PROVE  \E c : /\ Set(t, c)
                  /\ c.pc \in {"idle", "lookup", "preflight", "bind", "launch", "launched"}
<1>1. TypeOK /\ Idle.pc = "idle" /\ calls[t] \in Call
  BY DEF TypeInv, TypeOK, Idle
<1>2. CASE StartBinding(t)
  BY <1>1, <1>2, StartCalls DEF StartBinding
<1>3. CASE Lookup(t) /\ Hit(t)
  <2>1. Set(t, [calls[t] EXCEPT !.pc = "launch", !.by = binding.by,
                                !.impls = binding.impls])
    BY <1>3 DEF Lookup
  <2>2. [calls[t] EXCEPT !.pc = "launch", !.by = binding.by,
                         !.impls = binding.impls].pc = "launch"
    BY <1>1 DEF Call
  <2> QED BY <2>1, <2>2
<1>4. CASE Preflight(t) /\ ~Set(t, Idle)
  <2> DEFINE S == Candidates(Policy(t)) \ failed
  <2>1. Set(t, [calls[t] EXCEPT !.pc = "bind", !.by = Policy(t), !.impls = S])
    BY <1>4 DEF Preflight
  <2> HIDE DEF S
  <2>2. [calls[t] EXCEPT !.pc = "bind", !.by = Policy(t), !.impls = S].pc = "bind"
    BY <1>1 DEF Call
  <2> QED BY <2>1, <2>2
<1>5. CASE \E x \in {"preflight", "launch"} : Goto(t, x)
  <2>1. PICK x \in {"preflight", "launch"} : Goto(t, x)
    BY <1>5
  <2>2. [calls[t] EXCEPT !.pc = x].pc = x
    BY <1>1 DEF Call
  <2> QED BY <2>1, <2>2 DEF Goto
<1>6. CASE Set(t, Idle)
  BY <1>1, <1>6
<1>7. CASE Launch(t) /\ ~Set(t, Idle)
  BY <1>1, <1>7, LaunchCall
<1> QED
  BY <1>2, <1>3, <1>4, <1>5, <1>6, <1>7 DEF BindingNext, Lookup, Bind, LaunchEnds

(* Launching from the candidates kept for a policy.                        *)
LEMMA LaunchBest ==
    ASSUME NEW p \in Policies, NEW S, NEW w, NEW bad, Kept(S, p, bad), S \cap w # {}
    PROVE  Best(First(p, p, S \cap w), w, p, bad)
<1>1. Candidates(p) \subseteq Impls /\ Selectable(p, Candidates(p)) = Candidates(p)
  BY DEF Candidates, Selectable, ComputeCandidates
<1>2. S \cap w \in SUBSET Impls /\ Selectable(p, S \cap w) = S \cap w
  BY <1>1 DEF Kept, Selectable
<1>3. PICK i \in S \cap w : /\ First(p, p, S \cap w) = {i}
                            /\ \A j \in (S \cap w) \ {i} : ~Ahead(p, p, j, i)
  BY <1>2, FirstOne
<1>4. i \in Candidates(p) \cap w
  BY <1>3 DEF Kept
<1>5. ASSUME NEW j \in (Candidates(p) \cap w) \ {i}, Ahead(p, p, j, i) PROVE j \in bad
  BY <1>3, <1>5 DEF Kept
<1> QED BY <1>3, <1>4, <1>5 DEF Best

LEMMA BindStep ==
    ASSUME Quiet, TypeInv, BindInv, [Next]_vars
    PROVE  BindInv'
<1> USE DEF PoliciesUnchanged, ManagerUnchanged, CachesUnchanged
<1>1. TypeOK /\ Idle.pc = "idle" /\ \A t \in Threads : calls[t] \in Call
  BY DEF TypeInv, TypeOK, Idle
(* A step that leaves the binding and one that sets it.  The manager may   *)
(* be initialized on the way.                                              *)
<1>2. ASSUME NEW t \in Threads, UNCHANGED <<global, context>>, failed \subseteq failed',
             NEW c, Set(t, c), BoundCall(c, Policy(t), failed'),
             c.pc = "lookup" => c.epoch = epoch', c.pc = "bind" => initialized',
             \/ binding' = binding
             \/ /\ initialized /\ binding'.by = binding'.policy /\ binding'.epoch = epoch
                /\ Kept(binding'.impls, binding'.by, failed'),
             UNCHANGED <<epoch, initialized>> \/ (Initialize /\ binding' = binding)
      PROVE  BindInv'
  <2>1. \A u \in Threads : Policy(u)' = Policy(u)
    BY <1>2, PolicyFrame
  <2>2. calls'[t] = c /\ \A u \in Threads \ {t} : calls'[u] = calls[u]
    BY <1>1, <1>2, SetCall
  <2>3. \A u \in Threads : BoundCall(calls'[u], Policy(u)', failed')
    BY <1>2, <2>1, <2>2, MoreFailures DEF BindInv
  <2>4. /\ epoch' = epoch \/ (binding.epoch = -1 /\ binding' = binding)
        /\ epoch \in Nat /\ epoch' \in Nat /\ epoch' >= epoch /\ (initialized => initialized')
    <3>1. epoch \in Nat
      BY <1>1 DEF TypeOK, Epochs
    <3> QED BY <1>2, <3>1 DEF BindInv, Initialize
  <2>5. \A u \in Threads : KeyCall(calls'[u], epoch', binding'.epoch, initialized')
    <3>1. KeyCall(calls'[t], epoch', binding'.epoch, initialized')
      BY <1>2, <2>2 DEF KeyCall
    <3>2. ASSUME NEW u \in Threads \ {t}
          PROVE  KeyCall(calls'[u], epoch', binding'.epoch, initialized')
      <4>1. KeyCall(calls[u], epoch, binding.epoch, initialized) /\ calls'[u] = calls[u]
        BY <2>2, <3>2 DEF BindInv
      <4>2. calls[u].epoch \in Nat
        BY <1>1 DEF Call, Epochs
      <4>3. binding'.epoch = binding.epoch \/ binding'.epoch = epoch
        BY <1>2
      <4>4. calls[u].pc = "lookup" => calls[u].epoch = epoch' \/ calls[u].epoch # binding'.epoch
        <5>1. CASE epoch' = epoch
          BY <4>1, <4>3, <5>1 DEF KeyCall
        <5>2. CASE binding.epoch = -1 /\ binding' = binding
          BY <4>2, <5>2
        <5> QED BY <2>4, <5>1, <5>2
      <4> QED BY <2>4, <4>1, <4>4 DEF KeyCall
    <3> QED BY <3>1, <3>2
  <2>6. /\ binding'.by = binding'.policy /\ binding'.epoch <= epoch'
        /\ binding'.epoch # -1 => initialized'
        /\ binding'.epoch = epoch' => Kept(binding'.impls, binding'.by, failed')
    <3>1. CASE binding' = binding
      <4>1. binding.epoch <= epoch'
        <5>1. binding.epoch \in Int
          BY <1>1 DEF TypeOK, Epochs
        <5> QED BY <2>4, <5>1 DEF BindInv
      <4>2. binding.epoch = epoch' => Kept(binding.impls, binding.by, failed')
        <5>1. binding.epoch = epoch' => binding.epoch = epoch
          BY <2>4
        <5> QED BY <1>2, <5>1 DEF BindInv, Kept
      <4> QED BY <2>4, <3>1, <4>1, <4>2 DEF BindInv
    <3>2. CASE binding' # binding
      BY <1>2, <2>4, <3>2
    <3> QED BY <3>1, <3>2
  <2> QED BY <2>3, <2>5, <2>6 DEF BindInv
<1>3. ASSUME NEW t \in Threads, CachedOpNext(t), ~Prewarm(t) PROVE BindInv'
  <2>1. UNCHANGED <<global, context, binding>> /\ failed \subseteq failed'
    BY <1>3 DEF CachedOpNext, StartOp, Check, Read, Resolve, Publish, RunReturns, RunRaises,
                FallBack, ManagerCall
  <2>2. UNCHANGED <<epoch, initialized>> \/ Initialize
    BY <1>3 DEF CachedOpNext, StartOp, Check, Read, Resolve, Publish, RunReturns, RunRaises,
                FallBack, ManagerCall
  <2>3. PICK c : Set(t, c) /\ c.pc \in {"idle", "check", "read", "resolve", "publish", "run",
                                       "failed", "manager"}
    BY <1>3, OpCall
  <2>4. BoundCall(c, Policy(t), failed') /\ c.pc # "lookup" /\ c.pc # "bind"
    BY <2>3 DEF BoundCall
  <2> QED BY <1>2, <2>1, <2>2, <2>3, <2>4
<1>4. ASSUME NEW t \in Threads, Prewarm(t) PROVE BindInv'
  <2>1. UNCHANGED <<global, context, failed, binding, calls>> /\ Initialize
    BY <1>4 DEF Prewarm
  <2>2. Set(t, calls[t])
    BY <1>1, <2>1 DEF Set, TypeOK
  <2>3. BoundCall(calls[t], Policy(t), failed')
    BY <2>1 DEF BindInv
  <2>4. At(t, "idle")
    BY <1>4 DEF Prewarm
  <2> QED BY <1>2, <2>1, <2>2, <2>3, <2>4 DEF At
<1>5. ASSUME NEW t \in Threads, StartBinding(t) \/ LaunchEnds(t) PROVE BindInv'
  <2>1. UNCHANGED <<global, context, failed, epoch, initialized, binding>>
    BY <1>5 DEF StartBinding, LaunchEnds
  <2>2. CASE StartBinding(t)
    <3> DEFINE c == [Idle EXCEPT !.pc = "lookup", !.policy = Policy(t), !.epoch = epoch,
                                 !.policyEpoch = policyEpoch]
    <3>1. Set(t, c)
      BY <2>2 DEF StartBinding
    <3>2. c.pc = "lookup" /\ c.policy = Policy(t) /\ c.epoch = epoch
      BY DEF Idle
    <3> HIDE DEF c
    <3>3. BoundCall(c, Policy(t), failed')
      BY <3>2 DEF BoundCall
    <3> QED BY <1>2, <2>1, <3>1, <3>2, <3>3
  <2>3. CASE LaunchEnds(t)
    BY <1>1, <1>2, <2>1, <2>3 DEF LaunchEnds, BoundCall
  <2> QED BY <1>5, <2>2, <2>3
<1>6. ASSUME NEW t \in Threads, Lookup(t) PROVE BindInv'
  <2>1. /\ UNCHANGED <<global, context, failed, epoch, initialized, binding>>
        /\ calls[t].policy = Policy(t)
        /\ calls[t].epoch = epoch \/ calls[t].epoch # binding.epoch
    BY <1>6 DEF Lookup, At, BindInv, BoundCall, KeyCall
  <2>2. CASE Hit(t)
    <3> DEFINE c == [calls[t] EXCEPT !.pc = "launch", !.by = binding.by,
                                     !.impls = binding.impls]
    <3>1. Set(t, c)
      BY <1>6, <2>2 DEF Lookup
    <3>2. c.pc = "launch" /\ c.by = binding.by /\ c.impls = binding.impls
      BY <1>1 DEF Call
    <3> HIDE DEF c
    <3>3. binding.by = Policy(t) /\ Kept(binding.impls, binding.by, failed)
      BY <2>1, <2>2 DEF BindInv, Hit
    <3>4. BoundCall(c, Policy(t), failed')
      BY <2>1, <3>2, <3>3 DEF BoundCall
    <3> QED BY <1>2, <2>1, <3>1, <3>2, <3>4
  <2>3. CASE ~Hit(t)
    <3> DEFINE c == [calls[t] EXCEPT !.pc = "preflight"]
    <3>1. Set(t, c)
      BY <1>6, <2>3 DEF Lookup, Goto
    <3>2. c.pc = "preflight" /\ c.policy = calls[t].policy
      BY <1>1 DEF Call
    <3> HIDE DEF c
    <3>3. BoundCall(c, Policy(t), failed')
      BY <2>1, <3>2 DEF BoundCall
    <3> QED BY <1>2, <2>1, <3>1, <3>2, <3>3
  <2> QED BY <2>2, <2>3
<1>7. ASSUME NEW t \in Threads, Preflight(t) PROVE BindInv'
  <2>1. /\ UNCHANGED <<global, context, failed, binding>> /\ Initialize
        /\ calls[t].policy = Policy(t) /\ initialized' = TRUE
    BY <1>7 DEF Preflight, At, BindInv, BoundCall, Initialize
  <2>2. CASE Set(t, Idle)
    <3>1. BoundCall(Idle, Policy(t), failed')
      BY <1>1 DEF BoundCall
    <3> QED BY <1>1, <1>2, <2>1, <2>2, <3>1
  <2>3. CASE ~Set(t, Idle)
    <3> DEFINE S == Candidates(Policy(t)) \ failed
               c == [calls[t] EXCEPT !.pc = "bind", !.by = Policy(t), !.impls = S]
    <3>1. Set(t, c)
      BY <1>7, <2>3 DEF Preflight
    <3>2. Kept(S, Policy(t), failed)
      BY DEF Kept
    <3> HIDE DEF S
    <3>3. c.pc = "bind" /\ c.by = Policy(t) /\ c.impls = S /\ c.policy = calls[t].policy
      BY <1>1 DEF Call
    <3> HIDE DEF c
    <3>4. BoundCall(c, Policy(t), failed')
      BY <2>1, <3>2, <3>3 DEF BoundCall
    <3> QED BY <1>2, <2>1, <3>1, <3>3, <3>4
  <2> QED BY <2>2, <2>3
<1>8. ASSUME NEW t \in Threads, Bind(t) PROVE BindInv'
  <2>1. /\ calls[t].policy = Policy(t) /\ calls[t].by = Policy(t) /\ initialized
        /\ Kept(calls[t].impls, Policy(t), failed)
    BY <1>8 DEF Bind, At, BindInv, BoundCall, KeyCall
  <2>2. /\ UNCHANGED <<global, context, failed, epoch, initialized>>
        /\ binding'.policy = calls[t].policy /\ binding'.by = calls[t].by
        /\ binding'.impls = calls[t].impls /\ binding'.epoch = epoch
    BY <1>8 DEF Bind
  <2> DEFINE c == [calls[t] EXCEPT !.pc = "launch"]
  <2>3. Set(t, c)
    BY <1>8 DEF Bind, Goto
  <2>4. c.pc = "launch" /\ c.by = calls[t].by /\ c.impls = calls[t].impls
    BY <1>1 DEF Call
  <2> HIDE DEF c
  <2>5. BoundCall(c, Policy(t), failed')
    BY <2>1, <2>2, <2>4 DEF BoundCall
  <2>6. Kept(binding'.impls, binding'.by, failed') /\ binding'.by = binding'.policy
    BY <2>1, <2>2
  <2> QED BY <1>2, <2>1, <2>2, <2>3, <2>4, <2>5, <2>6
<1>9. ASSUME NEW t \in Threads, Launch(t) PROVE BindInv'
  <2>1. /\ UNCHANGED <<global, context, failed, epoch, initialized, binding>>
        /\ calls[t].by = Policy(t) /\ Kept(calls[t].impls, Policy(t), failed)
    BY <1>9 DEF Launch, At, BindInv, BoundCall
  <2>2. CASE Set(t, Idle)
    <3>1. BoundCall(Idle, Policy(t), failed')
      BY <1>1 DEF BoundCall
    <3> QED BY <1>1, <1>2, <2>1, <2>2, <3>1
  <2>3. CASE ~Set(t, Idle)
    <3>1. PICK w \in Workloads, c \in Call :
             /\ Set(t, c) /\ c.pc = "launched" /\ c.workload = w
             /\ calls[t].impls \cap w # {}
             /\ c.impls = First(Policy(t), calls[t].by, calls[t].impls \cap w)
      BY <1>1, <1>9, <2>3, LaunchCall
    <3>2. Best(c.impls, c.workload, Policy(t), failed)
      BY <1>1, <2>1, <3>1, LaunchBest, PolicyType
    <3>3. BoundCall(c, Policy(t), failed')
      BY <2>1, <3>1, <3>2 DEF BoundCall
    <3> QED BY <1>2, <2>1, <3>1, <3>3
  <2> QED BY <2>2, <2>3
<1>10. CASE Change
  <2>1. \A t \in Threads : calls'[t].pc = "idle"
    BY <1>10, QuietChange
  <2>2. binding' = binding /\ initialized' = initialized
    BY <1>10 DEF Change, SetGlobalPolicy, EnterContext, ExitContext, BumpManagerEpoch
  <2>3. UNCHANGED <<epoch, failed>> \/ epoch' = epoch + 1
    BY <1>10 DEF Change, SetGlobalPolicy, EnterContext, ExitContext, BumpManagerEpoch
  <2>4. epoch \in Int /\ binding.epoch \in Int
    BY <1>1 DEF TypeOK, Epochs
  <2>5. /\ binding'.epoch <= epoch'
        /\ binding'.epoch = epoch' => UNCHANGED <<epoch, failed>>
    BY <2>2, <2>3, <2>4 DEF BindInv
  <2>6. \A t \in Threads : /\ BoundCall(calls'[t], Policy(t)', failed')
                           /\ KeyCall(calls'[t], epoch', binding'.epoch, initialized')
    BY <2>1 DEF BoundCall, KeyCall
  <2> QED BY <2>2, <2>5, <2>6 DEF BindInv
<1>11. CASE UNCHANGED vars
  <2>1. \A u \in Threads : Policy(u)' = Policy(u)
    BY <1>11, PolicyFrame DEF vars
  <2> QED BY <1>11, <2>1 DEF vars, BindInv
<1> QED
  BY <1>3, <1>4, <1>5, <1>6, <1>7, <1>8, <1>9, <1>10, <1>11 DEF Next, BindingNext

(* If policies change between calls only, a binding launches the best      *)
(* implementation that the calling thread's policy admits and that         *)
(* supports the workload, the failed ones aside: best by the adapter's     *)
(* default order where the policy leaves the choice to it.                 *)
THEOREM BindingAlwaysOwn ==
    ASSUME Quiet PROVE Spec => []BindingRunsOwnChoice
<1>1. Init => BindInv
  <2> SUFFICES ASSUME Init PROVE BindInv
    OBVIOUS
  <2>1. Idle.policy = Idle.by
    BY DEF Idle
  <2>2. binding.by = binding.policy /\ binding.epoch = -1 /\ epoch = 0
    BY <2>1 DEF Init
  <2>3. \A t \in Threads : calls[t].pc = "idle"
    BY DEF Init, Idle
  <2>4. \A t \in Threads : /\ BoundCall(calls[t], Policy(t), failed)
                           /\ KeyCall(calls[t], epoch, binding.epoch, initialized)
    BY <2>3 DEF BoundCall, KeyCall
  <2> QED BY <2>2, <2>4 DEF BindInv
<1>2. BindInv => BindingRunsOwnChoice
  BY DEF BindInv, BoundCall, Best, BindingRunsOwnChoice, At
<1>3. TypeInv /\ BindInv /\ [Next]_vars => BindInv'
  BY BindStep
<1> QED BY <1>1, <1>2, <1>3, TypeInit, TypeStep, PTL DEF Spec

----------------------------------------------------------------------------
(* CachedOps, when policies change between calls only.                     *)

(* What the manager would choose under policy p.                           *)
Chosen(S, p) == Candidates(p) # {} /\ S = Foremost(p, Candidates(p))

Agreed == \A t, u \in Threads : Policy(t) = Policy(u)

(* A call reads the op under the policy epoch of now, and what it is about *)
(* to keep or to run is a choice of its policy.                            *)
KeptCall(c, now, p, agreed) ==
    /\ c.pc \in {"check", "read"} => c.policyEpoch = now
    /\ c.pc = "publish" => Chosen(c.impls, p)
    /\ c.pc = "run" /\ agreed => Chosen(c.impls, p)

(* The op never is of a later policy epoch; if it is of this one and the   *)
(* threads agree on a policy, it is that policy's choice.                  *)
OpInv ==
    /\ op.policyEpoch <= policyEpoch
    /\ op.impl # NoImpl /\ op.policyEpoch = policyEpoch /\ Agreed =>
          \A t \in Threads : Chosen({op.impl}, Policy(t))
    /\ \A t \in Threads : KeptCall(calls[t], policyEpoch, Policy(t), Agreed)

LEMMA AgreedFrame ==
    ASSUME UNCHANGED <<global, context>>
    PROVE  Agreed' = Agreed /\ \A t \in Threads : Policy(t)' = Policy(t)
<1>1. \A t \in Threads : Policy(t)' = Policy(t)
  BY PolicyFrame
<1> QED BY <1>1 DEF Agreed

LEMMA OpStep ==
    ASSUME Quiet, TypeInv, OpInv, [Next]_vars
    PROVE  OpInv'
<1> USE DEF PoliciesUnchanged, ManagerUnchanged, CachesUnchanged
<1>1. TypeOK /\ Idle.pc = "idle" /\ \A t \in Threads : calls[t] \in Call
  BY DEF TypeInv, TypeOK, Idle
(* A step that keeps the op, one that invalidates it and one that sets it. *)
<1>2. ASSUME NEW t \in Threads, UNCHANGED <<global, context, policyEpoch>>,
             NEW c, Set(t, c), KeptCall(c, policyEpoch, Policy(t), Agreed),
             \/ op' = op
             \/ op'.impl = NoImpl /\ op'.policyEpoch = op.policyEpoch
             \/ op'.policyEpoch = policyEpoch /\ Chosen({op'.impl}, Policy(t))
      PROVE  OpInv'
  <2>1. Agreed' = Agreed /\ \A u \in Threads : Policy(u)' = Policy(u)
    BY <1>2, AgreedFrame
  <2>2. \A u \in Threads : KeptCall(calls'[u], policyEpoch', Policy(u)', Agreed')
    BY <1>1, <1>2, <2>1, SetCall DEF OpInv
  <2>3. op'.policyEpoch <= policyEpoch'
    BY <1>1, <1>2 DEF OpInv, TypeOK, Epochs
  <2>4. ASSUME op'.impl # NoImpl, op'.policyEpoch = policyEpoch', Agreed'
        PROVE  \A u \in Threads : Chosen({op'.impl}, Policy(u)')
    <3>1. CASE op' = op
      BY <1>2, <2>1, <2>4, <3>1 DEF OpInv
    <3>2. CASE Chosen({op'.impl}, Policy(t))
      <4>1. \A u \in Threads : Policy(u)' = Policy(t)
        BY <2>1, <2>4 DEF Agreed
      <4> QED BY <3>2, <4>1
    <3> QED BY <1>2, <2>4, <3>1, <3>2
  <2> QED BY <2>2, <2>3, <2>4 DEF OpInv
<1>3. ASSUME NEW t \in Threads, BindingNext(t) PROVE OpInv'
  <2>1. UNCHANGED <<global, context, policyEpoch, op>>
    BY <1>3 DEF BindingNext, StartBinding, Lookup, Preflight, Bind, Launch, LaunchEnds
  <2>2. PICK c : /\ Set(t, c)
                 /\ c.pc \in {"idle", "lookup", "preflight", "bind", "launch", "launched"}
    BY <1>3, BindingCall
  <2>3. KeptCall(c, policyEpoch, Policy(t), Agreed)
    BY <2>2 DEF KeptCall
  <2> QED BY <1>2, <2>1, <2>2, <2>3
<1>4. ASSUME NEW t \in Threads, StartOp(t) PROVE OpInv'
  <2>1. UNCHANGED <<global, context, policyEpoch, op>>
    BY <1>4 DEF StartOp
  <2>2. \E c : Set(t, c) /\ c.pc = "check" /\ c.policyEpoch = policyEpoch
    BY <1>1, <1>4, StartCalls DEF StartOp
  <2>3. \E c : Set(t, c) /\ KeptCall(c, policyEpoch, Policy(t), Agreed)
    BY <2>2 DEF KeptCall
  <2> QED BY <1>2, <2>1, <2>3
<1>5. ASSUME NEW t \in Threads, Check(t) PROVE OpInv'
  <2>1. UNCHANGED <<global, context, policyEpoch>> /\ calls[t].policyEpoch = policyEpoch
    BY <1>5 DEF Check, At, OpInv, KeptCall
  <2>2. op' = op \/ (op'.impl = NoImpl /\ op'.policyEpoch = op.policyEpoch)
    BY <1>1, <1>5 DEF Check, TypeOK
  <2> DEFINE c == [calls[t] EXCEPT !.pc = "read"]
  <2>3. Set(t, c)
    BY <1>5 DEF Check, Goto
  <2>4. c.pc = "read" /\ c.policyEpoch = calls[t].policyEpoch
    BY <1>1 DEF Call
  <2> HIDE DEF c
  <2>5. KeptCall(c, policyEpoch, Policy(t), Agreed)
    BY <2>1, <2>4 DEF KeptCall
  <2> QED BY <1>2, <2>1, <2>2, <2>3, <2>5
<1>6. ASSUME NEW t \in Threads, Read(t) PROVE OpInv'
  <2>1. UNCHANGED <<global, context, policyEpoch, op>> /\ calls[t].policyEpoch = policyEpoch
    BY <1>6 DEF Read, At, OpInv, KeptCall
  <2>2. CASE \E x \in {"manager", "resolve"} : Goto(t, x)
    <3>1. PICK x \in {"manager", "resolve"} : Set(t, [calls[t] EXCEPT !.pc = x])
      BY <2>2 DEF Goto
    <3>2. [calls[t] EXCEPT !.pc = x].pc = x
      BY <1>1 DEF Call
    <3>3. KeptCall([calls[t] EXCEPT !.pc = x], policyEpoch, Policy(t), Agreed)
      BY <3>2 DEF KeptCall
    <3> QED BY <1>2, <2>1, <3>1, <3>3
  <2>3. CASE ~\E x \in {"manager", "resolve"} : Goto(t, x)
    <3> DEFINE c == [calls[t] EXCEPT !.pc = "run", !.impls = {op.impl}]
    <3>1. Set(t, c) /\ op.impl # NoImpl /\ op.policyEpoch = policyEpoch
      BY <1>6, <2>1, <2>3 DEF Read, Fresh
    <3>2. c.pc = "run" /\ c.impls = {op.impl}
      BY <1>1 DEF Call
    <3> HIDE DEF c
    <3>3. KeptCall(c, policyEpoch, Policy(t), Agreed)
      BY <3>1, <3>2 DEF KeptCall, OpInv
    <3> QED BY <1>2, <2>1, <3>1, <3>3
  <2> QED BY <2>2, <2>3
<1>7. ASSUME NEW t \in Threads, Resolve(t) PROVE OpInv'
  <2>1. UNCHANGED <<global, context, policyEpoch, op>>
    BY <1>7 DEF Resolve
  <2>2. CASE Set(t, Idle)
    <3>1. KeptCall(Idle, policyEpoch, Policy(t), Agreed)
      BY <1>1 DEF KeptCall
    <3> QED BY <1>2, <2>1, <2>2, <3>1
  <2>3. CASE ~Set(t, Idle)
    <3> DEFINE S == Foremost(Policy(t), Candidates(Policy(t)))
               c == [calls[t] EXCEPT !.pc = "publish", !.impls = S]
    <3>1. Set(t, c) /\ Chosen(S, Policy(t))
      BY <1>7, <2>3 DEF Resolve, Chosen
    <3> HIDE DEF S
    <3>2. c.pc = "publish" /\ c.impls = S
      BY <1>1 DEF Call
    <3> HIDE DEF c
    <3>3. KeptCall(c, policyEpoch, Policy(t), Agreed)
      BY <3>1, <3>2 DEF KeptCall
    <3> QED BY <1>2, <2>1, <3>1, <3>3
  <2> QED BY <2>2, <2>3
<1>8. ASSUME NEW t \in Threads, Publish(t) PROVE OpInv'
  <2>1. /\ UNCHANGED <<global, context, policyEpoch>>
        /\ Chosen(calls[t].impls, Policy(t))
    BY <1>8 DEF Publish, At, OpInv, KeptCall
  <2>2. PICK i \in Impls : calls[t].impls = {i}
    BY <1>8 DEF Publish, TypeInv
  <2>3. op'.policyEpoch = policyEpoch /\ {op'.impl} = calls[t].impls
    BY <1>1, <1>8, <2>2 DEF Publish, The, TypeOK
  <2> DEFINE c == [calls[t] EXCEPT !.pc = "run"]
  <2>4. Set(t, c)
    BY <1>8 DEF Publish, Goto
  <2>5. c.pc = "run" /\ c.impls = calls[t].impls
    BY <1>1 DEF Call
  <2> HIDE DEF c
  <2>6. KeptCall(c, policyEpoch, Policy(t), Agreed)
    BY <2>1, <2>5 DEF KeptCall
  <2> QED BY <1>2, <2>1, <2>3, <2>4, <2>6
<1>9. ASSUME NEW t \in Threads,
             RunReturns(t) \/ RunRaises(t) \/ FallBack(t) \/ ManagerCall(t)
      PROVE  OpInv'
  <2>1. UNCHANGED <<global, context, policyEpoch>>
    BY <1>9 DEF RunReturns, RunRaises, FallBack, ManagerCall
  <2>2. op' = op \/ (op'.impl = NoImpl /\ op'.policyEpoch = op.policyEpoch)
    BY <1>1, <1>9 DEF RunReturns, RunRaises, FallBack, ManagerCall, TypeOK
  <2>3. \E c : Set(t, c) /\ c.pc \in {"idle", "failed", "manager"}
    <3>1. CASE Set(t, Idle)
      BY <1>1, <3>1
    <3>2. CASE ~Set(t, Idle)
      <4>1. PICK x \in {"failed", "manager"} : Set(t, [calls[t] EXCEPT !.pc = x])
        BY <1>9, <3>2 DEF RunReturns, RunRaises, FallBack, ManagerCall, Goto
      <4>2. [calls[t] EXCEPT !.pc = x].pc = x
        BY <1>1 DEF Call
      <4> QED BY <4>1, <4>2
    <3> QED BY <3>1, <3>2
  <2>4. \E c : Set(t, c) /\ KeptCall(c, policyEpoch, Policy(t), Agreed)
    BY <2>3 DEF KeptCall
  <2> QED BY <1>2, <2>1, <2>2, <2>4
<1>10. ASSUME NEW t \in Threads, Prewarm(t) PROVE OpInv'
  <2>1. UNCHANGED <<global, context, policyEpoch, calls>>
    BY <1>10 DEF Prewarm
  <2>2. PICK i \in Impls : Foremost(Policy(t), Candidates(Policy(t))) = {i}
    BY <1>1, <1>10, Choice, PolicyType DEF Prewarm
  <2>3. op'.policyEpoch = policyEpoch /\ Chosen({op'.impl}, Policy(t))
    BY <1>10, <2>2 DEF Prewarm, The, Chosen
  <2>4. Set(t, calls[t])
    BY <1>1, <2>1 DEF Set, TypeOK
  <2>5. KeptCall(calls[t], policyEpoch, Policy(t), Agreed)
    BY DEF OpInv
  <2> QED BY <1>2, <2>1, <2>3, <2>4, <2>5
<1>11. CASE Change
  <2>1. \A t \in Threads : KeptCall(calls'[t], policyEpoch', Policy(t)', Agreed')
    BY <1>11, QuietChange DEF KeptCall
  <2>2. op' = op
    BY <1>11, QuietChange
  <2>3. CASE policyEpoch' = policyEpoch + 1
    <3>1. op.policyEpoch < policyEpoch'
      BY <1>1, <2>3 DEF OpInv, TypeOK, Epochs
    <3>2. op'.policyEpoch <= policyEpoch' /\ op'.policyEpoch # policyEpoch'
      BY <1>1, <2>2, <2>3, <3>1 DEF TypeOK, Epochs
    <3> QED BY <2>1, <3>2 DEF OpInv
  <2>4. CASE UNCHANGED <<global, context, policyEpoch>>
    <3>1. Agreed' = Agreed /\ \A u \in Threads : Policy(u)' = Policy(u)
      BY <2>4, AgreedFrame
    <3> QED BY <2>1, <2>2, <2>4, <3>1 DEF OpInv
  <2> QED BY <1>11, <2>3, <2>4, QuietChange
<1>12. CASE UNCHANGED vars
  <2>1. Agreed' = Agreed /\ \A u \in Threads : Policy(u)' = Policy(u)
    BY <1>12, AgreedFrame DEF vars
  <2> QED BY <1>12, <2>1 DEF vars, OpInv
<1> QED
  BY <1>3, <1>4, <1>5, <1>6, <1>7, <1>8, <1>9, <1>10, <1>11, <1>12 DEF Next, CachedOpNext

(* If policies change between calls only and the threads have the same     *)
(* policy, the fast path of a CachedOp runs what the manager would choose. *)
THEOREM OpAlwaysOwn ==
    ASSUME Quiet PROVE Spec => []OpRunsOwnChoice
<1>1. Init => OpInv
  BY DEF Init, OpInv, KeptCall, Idle
<1>2. OpInv => OpRunsOwnChoice
  BY DEF OpInv, KeptCall, Chosen, Agreed, OpRunsOwnChoice, OwnChoice, At
<1>3. TypeInv /\ OpInv /\ [Next]_vars => OpInv'
  BY OpStep
<1> QED BY <1>1, <1>2, <1>3, TypeInit, TypeStep, PTL DEF Spec

============================================================================
