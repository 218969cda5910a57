---------------------------- MODULE IODumpProofs ----------------------------
(***************************************************************************)
(* Proofs about IODump for any operators, threads, workers, settings and   *)
(* bounds.                                                                 *)
(***************************************************************************)
EXTENDS IODump, FiniteSetTheorems, SequenceTheorems, TLAPS

(* What is appended, dropped at the end, and removed in the middle.        *)
LEMMA FrontFacts ==
    ASSUME NEW S, NEW s \in Seq(S), s # <<>>
    PROVE  /\ Len(s) \in Nat \ {0} /\ Last(s) \in S
           /\ Front(s) \in Seq(S) /\ Len(Front(s)) = Len(s) - 1
           /\ \A i \in 1 .. Len(s) - 1 : Front(s)[i] = s[i]
<1>1. Len(s) \in Nat \ {0} /\ \A i \in 1 .. Len(s) : s[i] \in S
  BY EmptySeq, ElementOfSeq
<1>2. \A i \in 1 .. Len(s) - 1 : s[i] \in S
  BY <1>1
<1>3. Len(s) - 1 \in Int /\ 1 \in Int
  BY <1>1
<1>4. /\ SubSeq(s, 1, Len(s) - 1) \in Seq(S)
      /\ Len(SubSeq(s, 1, Len(s) - 1))
            = IF 1 <= Len(s) - 1 THEN Len(s) - 1 - 1 + 1 ELSE 0
      /\ \A i \in 1 .. Len(s) - 1 - 1 + 1 : SubSeq(s, 1, Len(s) - 1)[i] = s[1 + i - 1]
  BY <1>2, <1>3, SubSeqProperties
<1> DEFINE f == SubSeq(s, 1, Len(s) - 1)
<1>5. f \in Seq(S) /\ Len(f) = Len(s) - 1 /\ \A i \in 1 .. Len(s) - 1 : f[i] = s[i]
  <2> DEFINE n == Len(s)
  <2>1. /\ n \in Nat \ {0} /\ f \in Seq(S)
        /\ Len(f) = IF 1 <= n - 1 THEN n - 1 - 1 + 1 ELSE 0
        /\ \A i \in 1 .. n - 1 - 1 + 1 : f[i] = s[1 + i - 1]
    BY <1>1, <1>4
  <2> HIDE DEF n, f
  <2>2. Len(f) = n - 1
    BY <2>1
  <2>3. \A i \in 1 .. n - 1 : f[i] = s[i]
    BY <2>1
  <2> QED BY <2>1, <2>2, <2>3 DEF n
<1>6. Last(s) \in S
  BY <1>1 DEF Last
<1> QED BY <1>1, <1>5, <1>6 DEF Front

LEMMA RemoveFacts ==
    ASSUME NEW S, NEW s \in Seq(S), NEW i \in 1 .. Len(s)
    PROVE  /\ RemoveAt(s, i) \in Seq(S)
           /\ \A j \in 1 .. Len(RemoveAt(s, i)) :
                 \E k \in 1 .. Len(s) : RemoveAt(s, i)[j] = s[k]
           /\ \A k \in 1 .. Len(s) : k = i \/
                 \E j \in 1 .. Len(RemoveAt(s, i)) : RemoveAt(s, i)[j] = s[k]
<1> DEFINE a == SubSeq(s, 1, i - 1)
           b == SubSeq(s, i + 1, Len(s))
           r == RemoveAt(s, i)
<1>1. Len(s) \in Nat /\ \A j \in 1 .. Len(s) : s[j] \in S
  BY LenProperties, ElementOfSeq
<1>2. /\ a \in Seq(S) /\ Len(a) = i - 1
      /\ \A j \in 1 .. i - 1 : a[j] = s[j]
  <2>1. \A j \in 1 .. i - 1 : s[j] \in S
    BY <1>1
  <2> QED BY <1>1, <2>1, SubSeqProperties, i - 1 \in Int
<1>3. /\ b \in Seq(S) /\ Len(b) = Len(s) - i
      /\ \A j \in 1 .. Len(s) - i : b[j] = s[i + j]
  <2>1. \A j \in i + 1 .. Len(s) : s[j] \in S
    BY <1>1
  <2>2. i + 1 \in Int /\ Len(s) \in Int
    BY <1>1
  <2>3. /\ b \in Seq(S)
        /\ Len(b) = IF i + 1 <= Len(s) THEN Len(s) - (i + 1) + 1 ELSE 0
        /\ \A j \in 1 .. Len(s) - (i + 1) + 1 : b[j] = s[i + 1 + j - 1]
    BY <2>1, <2>2, SubSeqProperties
  <2> QED BY <1>1, <2>3
<1>4. r = a \o b
  BY DEF RemoveAt
<1> HIDE DEF a, b, r
<1>9. /\ a \o b \in Seq(S) /\ Len(a \o b) = Len(a) + Len(b)
      /\ \A j \in 1 .. Len(a) + Len(b) :
            (a \o b)[j] = IF j <= Len(a) THEN a[j] ELSE b[j - Len(a)]
  BY <1>2, <1>3, ConcatProperties
<1>5. /\ r \in Seq(S) /\ Len(r) = Len(s) - 1
      /\ \A j \in 1 .. Len(s) - 1 : r[j] = IF j <= i - 1 THEN a[j] ELSE b[j - (i - 1)]
  BY <1>1, <1>2, <1>3, <1>4, <1>9
<1>6. \A j \in 1 .. Len(s) - 1 : r[j] = IF j <= i - 1 THEN s[j] ELSE s[j + 1]
  <2> SUFFICES ASSUME NEW j \in 1 .. Len(s) - 1
               PROVE  r[j] = IF j <= i - 1 THEN s[j] ELSE s[j + 1]
    OBVIOUS
  <2>1. CASE j <= i - 1
    BY <1>2, <1>5, <2>1
  <2>2. CASE ~(j <= i - 1)
    <3>1. j - (i - 1) \in 1 .. Len(s) - i /\ i + (j - (i - 1)) = j + 1
      BY <1>1, <2>2
    <3>2. b[j - (i - 1)] = s[j + 1]
      BY <1>3, <3>1
    <3> QED BY <1>5, <2>2, <3>2
  <2> QED BY <2>1, <2>2
<1>7. ASSUME NEW j \in 1 .. Len(r) PROVE \E k \in 1 .. Len(s) : r[j] = s[k]
  BY <1>1, <1>5, <1>6
<1>8. ASSUME NEW k \in 1 .. Len(s), k # i PROVE \E j \in 1 .. Len(r) : r[j] = s[k]
  <2>1. CASE k < i
    BY <1>1, <1>5, <1>6, <2>1
  <2>2. CASE k > i
    <3>1. k - 1 \in 1 .. Len(s) - 1 /\ ~(k - 1 <= i - 1) /\ (k - 1) + 1 = k
      BY <1>1, <2>2
    <3> QED BY <1>5, <1>6, <3>1
  <2> QED BY <1>8, <2>1, <2>2
<1> QED BY <1>5, <1>7, <1>8 DEF r

(* A finite set leaves out a number from n on, and there is a first one.   *)
LEMMA RunEndFacts ==
    ASSUME NEW S, IsFiniteSet(S), NEW n \in Nat
    PROVE  /\ RunEnd(S, n) \in n .. n + Cardinality(S)
           /\ n .. RunEnd(S, n) - 1 \subseteq S /\ RunEnd(S, n) \notin S
<1> DEFINE c == Cardinality(S)
           Out == {k \in n .. n + c : k \notin S}
           T == {n .. k : k \in Out}
<1>1. c \in Nat
  BY FS_CardinalityType
<1>2. Out # {}
  <2>1. IsFiniteSet(n .. n + c) /\ Cardinality(n .. n + c) = c + 1
    BY <1>1, FS_Interval
  <2>2. ~(n .. n + c \subseteq S)
    BY <1>1, <2>1, FS_Subset
  <2> QED BY <2>2
<1>3. T \subseteq FiniteSubsetsOf(Nat) /\ T # {}
  <2>1. \A k \in Out : IsFiniteSet(n .. k) /\ n .. k \subseteq Nat
    <3> SUFFICES ASSUME NEW k \in Out PROVE IsFiniteSet(n .. k) /\ n .. k \subseteq Nat
      OBVIOUS
    <3>1. n \in Int /\ k \in Int
      BY <1>1
    <3> QED BY <3>1, FS_Interval
  <2> QED BY <1>2, <2>1 DEF FiniteSubsetsOf
<1> HIDE DEF T
<1>4. PICK x \in T : \A y \in T : <<y, x>> \notin StrictSubsetOrdering(Nat)
  BY <1>3, FS_StrictSubsetOrderingWellFounded, WFMin
<1> USE DEF T
<1>5. PICK k \in Out : x = n .. k
  BY <1>4
<1>6. ASSUME NEW l \in n .. k - 1, l \notin S PROVE FALSE
  <2>1. l \in Out /\ n .. l \in T
    BY <1>1, <1>5, <1>6
  <2>2. n .. l \subseteq x /\ n .. l # x /\ x \subseteq Nat
    BY <1>1, <1>5, <1>6
  <2>3. <<n .. l, x>> \in StrictSubsetOrdering(Nat)
    BY <2>2 DEF StrictSubsetOrdering
  <2> QED BY <1>4, <2>1, <2>3
<1>7. k \in n .. n + c /\ n .. k - 1 \subseteq S /\ k \notin S
  BY <1>5, <1>6
<1> QED BY <1>7 DEF RunEnd

-----------------------------------------------------------------------------
(* Types.                                                                  *)

(* What a layer says once it is parsed, with the end of a range behind it, *)
(* and settings that are all there.                                        *)
Ranges == Nat \X (Nat \ {0})
Flags == {"values", "metas", "print"}
Saying(l) ==
    /\ l.dir # "" /\ l.max \in Nat \cup {Unset} /\ l.range \in Ranges \cup {Unset, None}
    /\ \A f \in Flags : l[f] \in BOOLEAN \cup {Unset}
Settled(c) ==
    /\ c.max \in Nat /\ c.range \in Ranges \cup {None}
    /\ \A f \in Flags : c[f] \in BOOLEAN

(* Settings that can be resolved again; calls are numbered from 1, and a   *)
(* handle waits for finitely many of them.                                 *)
SettingsInv == /\ TextLayer(env) /\ (yaml # NoFile => TextLayer(yaml))
               /\ Settled(cfg)
NumberedInv ==
    /\ \A t \in Threads, o \in Ops :
          \A i \in 1 .. Len(pairing[t][o]) : pairing[t][o][i].num # 0
    /\ \A i \in 1 .. Len(jobs) : jobs[i].call.num # 0
    /\ \A f \in Files : \A h \in handles[f] : IsFiniteSet(h.pending)

TypeInv == TypeOK /\ SettingsInv /\ NumberedInv

LEMMA ParsedRange ==
    ASSUME NEW r, r \in Nat \X Nat \cup {Unset}
    PROVE  Parsed(r) \in Ranges \cup {Unset}
<1>1. CASE r = Unset
  BY <1>1 DEF Parsed
<1>2. CASE r \in Nat \X Nat
  <2>1. PICK x \in Nat, y \in Nat : r = <<x, y>>
    BY <1>2
  <2>2. r # Unset
    BY <1>2, UnsetAssumption
  <2>3. Parsed(r) = <<x, y + 1>>
    BY <2>1, <2>2 DEF Parsed
  <2> QED BY <2>3 DEF Ranges
<1> QED BY <1>1, <1>2

LEMMA SilentText == TextLayer(Silent)
BY UnsetAssumption DEF TextLayer, Layer, Silent, Fields

LEMMA LayersSay ==
    /\ \A e : TextLayer(e) => Saying(EnvLayer(e)) /\ EnvLayer(e).dir \notin {"0", "1"}
    /\ \A y : (y # NoFile => TextLayer(y)) => Saying(YamlLayer(y))
    /\ \A a : Layer(a) => Saying(ApiLayer(a))
<1>1. ASSUME NEW e, TextLayer(e)
      PROVE  Saying(EnvLayer(e)) /\ EnvLayer(e).dir \notin {"0", "1"}
  <2>1. DOMAIN e = Fields /\ e.range \in Nat \X Nat \cup {Unset}
    BY <1>1 DEF TextLayer, Layer
  <2>2. /\ EnvLayer(e).dir = IF e.dir \in {"0", "1"} THEN Unset ELSE e.dir
        /\ EnvLayer(e).range = Parsed(e.range)
        /\ \A f \in Flags \cup {"max"} : EnvLayer(e)[f] = e[f]
    BY <2>1 DEF EnvLayer, Fields, Flags
  <2>3. EnvLayer(e).dir \notin {"", "0", "1"}
    BY <1>1, <2>2, UnsetAssumption DEF TextLayer, Layer
  <2>4. EnvLayer(e).range \in Ranges \cup {Unset}
    BY <2>1, <2>2, ParsedRange
  <2>5. EnvLayer(e).max \in Nat \cup {Unset}
    BY <1>1, <2>2 DEF TextLayer, Layer
  <2>6. \A f \in Flags : EnvLayer(e)[f] \in BOOLEAN \cup {Unset}
    BY <1>1, <2>2, Zenon DEF TextLayer, Layer, Flags
  <2> QED BY <2>3, <2>4, <2>5, <2>6 DEF Saying
<1>2. ASSUME NEW y, y # NoFile => TextLayer(y) PROVE Saying(YamlLayer(y))
  <2>1. CASE y = NoFile
    BY <2>1, UnsetAssumption DEF YamlLayer, Silent, Saying, Fields, Flags
  <2>2. CASE y # NoFile
    <3>1. DOMAIN y = Fields /\ y.range \in Nat \X Nat \cup {Unset}
      BY <1>2, <2>2 DEF TextLayer, Layer
    <3>2. /\ YamlLayer(y).max = IF y.max = 0 THEN Unset ELSE y.max
          /\ YamlLayer(y).values = IF y.values = Unset THEN FALSE ELSE y.values
          /\ YamlLayer(y).range = Parsed(y.range)
          /\ \A f \in {"dir", "metas", "print"} : YamlLayer(y)[f] = y[f]
      BY <2>2, <3>1 DEF YamlLayer, Fields
    <3> QED BY <1>2, <2>2, <3>1, <3>2, ParsedRange DEF Saying, TextLayer, Layer, Flags
  <2> QED BY <2>1, <2>2
<1>3. ASSUME NEW a, Layer(a) PROVE Saying(ApiLayer(a))
  <2>1. DOMAIN a = Fields /\ a.range \in Nat \X Nat \cup {Unset, None}
    BY <1>3 DEF Layer
  <2>2. /\ ApiLayer(a).dir = IF a.dir = None THEN "cwd" ELSE a.dir
        /\ ApiLayer(a).range = IF a.range = None THEN None ELSE Parsed(a.range)
        /\ \A f \in Flags \cup {"max"} : ApiLayer(a)[f] = a[f]
    BY <2>1 DEF ApiLayer, Fields, Flags
  <2> QED BY <1>3, <2>1, <2>2, ParsedRange DEF Saying, Layer, Flags
<1> QED BY <1>1, <1>2, <1>3

(* A layer laid over settings that are all there leaves them so.           *)
Full(r) == Settled(r) /\ r.dir # "" /\ \A f \in Fields : r[f] # Unset

LEMMA OverFull ==
    ASSUME NEW b, NEW l, Full(b), Saying(l) PROVE Full(Over(b, l))
<1>1. \A f \in Fields : Over(b, l)[f] = IF l[f] = Unset THEN b[f] ELSE l[f]
  BY DEF Over
<1>2. {"dir", "max", "range"} \cup Flags \subseteq Fields
  BY DEF Fields, Flags
<1> QED BY <1>1, <1>2 DEF Full, Settled, Saying

LEMMA DefaultsFacts ==
    /\ Defaults.dir = "cwd" /\ Defaults.ops = None /\ Defaults.modules = None
    /\ Defaults.max = 0 /\ Defaults.range = None
BY DEF Defaults

LEMMA DefaultsFlags == \A f \in Flags : Defaults[f] = FALSE
<1>2. Defaults.values = FALSE
  BY DEF Defaults
<1>3. Defaults.metas = FALSE
  BY DEF Defaults
<1>4. Defaults.print = FALSE
  BY DEF Defaults
<1> QED BY <1>2, <1>3, <1>4, Zenon DEF Flags

LEMMA DefaultsFull == Full(Defaults)
<1>1. \A f \in Flags : Defaults[f] \in BOOLEAN
  BY DefaultsFlags, Zenon
<1>3. Settled(Defaults) /\ Defaults.dir # ""
  BY <1>1, DefaultsFacts DEF Settled
<1>2. ASSUME NEW f \in Fields PROVE Defaults[f] # Unset
  <2>1. f \in {"dir", "ops", "modules", "max", "range"} \/ f \in Flags
    BY DEF Fields, Flags
  <2>2. CASE f \in Flags
    <3>1. Unset # FALSE
      BY UnsetAssumption
    <3> QED BY <2>2, <3>1, DefaultsFlags, Zenon
  <2>3. CASE f \in {"dir", "ops", "modules", "max", "range"}
    <3>1. Unset # "cwd"
      BY UnsetAssumption
    <3>2. Unset # None
      BY UnsetAssumption
    <3>3. Unset # 0
      <4>1. 0 \in Nat
        OBVIOUS
      <4> QED BY <4>1, UnsetAssumption, Zenon
    <3> QED BY <2>3, <3>1, <3>2, <3>3, DefaultsFacts, Zenon
  <2> QED BY <2>1, <2>2, <2>3
<1> QED BY <1>2, <1>3 DEF Full

LEMMA ApplyFacts ==
    ASSUME NEW r, NEW d
    PROVE  /\ Apply(r, d).dir = d
           /\ Apply(r, d).ops = IF r.ops = None THEN {} ELSE r.ops
           /\ Apply(r, d).modules = IF r.modules = None THEN {} ELSE r.modules
           /\ Apply(r, d).max = r.max /\ Apply(r, d).range = r.range
           /\ \A f \in Flags : Apply(r, d)[f] = r[f]
<1>1. Apply(r, d).dir = d /\ Apply(r, d).max = r.max /\ Apply(r, d).range = r.range
  BY Zenon DEF Apply
<1>2. Apply(r, d).ops = IF r.ops = None THEN {} ELSE r.ops
  BY Zenon DEF Apply
<1>3. Apply(r, d).modules = IF r.modules = None THEN {} ELSE r.modules
  BY Zenon DEF Apply
<1>4. Apply(r, d).values = r.values /\ Apply(r, d).metas = r.metas /\ Apply(r, d).print = r.print
  BY Zenon DEF Apply
<1>5. \A f \in Flags : Apply(r, d)[f] = r[f]
  BY <1>4 DEF Flags
<1> QED BY <1>1, <1>2, <1>3, <1>5

LEMMA ApplyOn ==
    ASSUME NEW r, NEW d
    PROVE  Apply(r, d).on = TRUE /\ Apply(r, d).all = (r.ops = None /\ r.modules = None)
BY DEF Apply

LEMMA OnThere ==
    /\ \A r, d : "on" \in DOMAIN Apply(r, d)
    /\ \A e, y, a : "on" \in DOMAIN EnableConfig(e, y, a)
    /\ \A e, y : "on" \in DOMAIN InitFromEnv(e, y)
    /\ "on" \in DOMAIN Off
<1>1. \A r, d : "on" \in DOMAIN Apply(r, d)
  BY DEF Apply
<1>2. "on" \in DOMAIN Off
  BY DEF Off
<1>3. \A e, y, a : "on" \in DOMAIN EnableConfig(e, y, a)
  BY <1>1 DEF EnableConfig
<1>4. \A e, y : "on" \in DOMAIN InitFromEnv(e, y)
  BY <1>1, <1>2 DEF InitFromEnv
<1> QED BY <1>1, <1>2, <1>3, <1>4

LEMMA ApplySettled ==
    ASSUME NEW r, Full(r), NEW d PROVE Apply(r, d).on = TRUE /\ Settled(Apply(r, d))
<1>1. Apply(r, d).max = r.max /\ Apply(r, d).range = r.range
  BY ApplyFacts, Zenon
<1>2. \A f \in Flags : Apply(r, d)[f] = r[f]
  BY ApplyFacts
<1>3. Settled(Apply(r, d))
  BY <1>1, <1>2, Zenon DEF Full, Settled
<1> QED BY <1>3, ApplyOn

LEMMA OffSettled == Off.on = FALSE /\ Settled(Off)
<1>1. Off.max = 0 /\ Off.range = None
  BY DEF Off
<1>2. Off.on = FALSE
  BY DEF Off
<1>3. Off.values = FALSE
  BY DEF Off
<1>4. Off.metas = FALSE
  BY DEF Off
<1>5. Off.print = FALSE
  BY DEF Off
<1>6. \A f \in Flags : Off[f] \in BOOLEAN
  BY <1>3, <1>4, <1>5, Zenon DEF Flags
<1>7. Settled(Off)
  BY <1>1, <1>6 DEF Settled
<1> QED BY <1>2, <1>7

LEMMA Resolved ==
    ASSUME NEW e, NEW y, TextLayer(e), y # NoFile => TextLayer(y)
    PROVE  /\ \A a : Layer(a) => LET c == EnableConfig(e, y, a) IN c.on = TRUE /\ Settled(c)
           /\ LET c == InitFromEnv(e, y) IN c.on \in BOOLEAN /\ Settled(c)
<1> DEFINE r == Over(Over(Defaults, EnvLayer(e)), YamlLayer(y))
<1>1. Full(r)
  BY OverFull, DefaultsFull, LayersSay
<1>2. ASSUME NEW a, Layer(a)
      PROVE  EnableConfig(e, y, a).on = TRUE /\ Settled(EnableConfig(e, y, a))
  <2> DEFINE q == Over(r, ApiLayer(a))
  <2>1. Full(q)
    BY <1>1, <1>2, OverFull, LayersSay
  <2>2. \E d : EnableConfig(e, y, a) = Apply(q, d)
    BY DEF EnableConfig
  <2> QED BY <2>1, <2>2, ApplySettled
<1>3. InitFromEnv(e, y) = Off \/ \E d : InitFromEnv(e, y) = Apply(r, d)
  BY DEF InitFromEnv
<1>4. Off.on = FALSE /\ Settled(Off)
  BY OffSettled
<1> HIDE DEF r
<1>5. InitFromEnv(e, y).on \in BOOLEAN /\ Settled(InitFromEnv(e, y))
  BY <1>1, <1>3, <1>4, ApplySettled
<1> QED BY <1>2, <1>5

(* What is written back, setting by setting.                               *)
LEMMA WriteBackFacts ==
    ASSUME NEW c, Settled(c), NEW s, s = SetEnvVars(c)
    PROVE  /\ DOMAIN s = Fields
           /\ s.dir = IF c.dir = "" THEN Unset ELSE c.dir
           /\ s.ops = IF c.ops = {} THEN Unset ELSE c.ops
           /\ s.modules = IF c.modules = {} THEN Unset ELSE c.modules
           /\ s.max = IF c.max > 0 THEN c.max ELSE Unset
           /\ s.range \in Nat \X Nat \cup {Unset}
           /\ Parsed(s.range) = IF c.range = None THEN Unset ELSE c.range
<1> DEFINE e == SetEnvVars(c)
<1>1. /\ DOMAIN e = Fields
      /\ e.dir = IF c.dir = "" THEN Unset ELSE c.dir
      /\ e.ops = IF c.ops = {} THEN Unset ELSE c.ops
      /\ e.modules = IF c.modules = {} THEN Unset ELSE c.modules
      /\ e.max = IF c.max > 0 THEN c.max ELSE Unset
  BY DEF SetEnvVars, Fields
<1>2. e.range = IF c.range = None THEN Unset ELSE <<c.range[1], c.range[2] - 1>>
  BY DEF SetEnvVars
<1> HIDE DEF e
<1>5. e.range \in Nat \X Nat \cup {Unset}
      /\ Parsed(e.range) = IF c.range = None THEN Unset ELSE c.range
  <2>1. CASE c.range = None
    BY <1>2, <2>1 DEF Parsed
  <2>2. CASE c.range # None
    <3>1. PICK x \in Nat, y \in Nat \ {0} : c.range = <<x, y>>
      BY <2>2 DEF Settled, Ranges
    <3>2. e.range = <<x, y - 1>>
      BY <1>2, <2>2, <3>1
    <3>3. e.range \in Nat \X Nat
      <4>1. y - 1 \in Nat
        BY <3>1
      <4> QED BY <3>2, <4>1
    <3>4. e.range # Unset
      BY <3>3, UnsetAssumption
    <3>5. Parsed(e.range) = <<x, y - 1 + 1>>
      BY <3>2, <3>4 DEF Parsed
    <3>6. y - 1 + 1 = y
      BY <3>1
    <3> QED BY <2>2, <3>1, <3>3, <3>5, <3>6
  <2> QED BY <2>1, <2>2
<1> QED BY <1>1, <1>5 DEF e

LEMMA WriteBackFlags ==
    ASSUME NEW c, Settled(c), NEW s, s = SetEnvVars(c)
    PROVE  \A f \in Flags : s[f] = IF c[f] = TRUE THEN TRUE ELSE Unset
<1> DEFINE e == SetEnvVars(c)
<1>3. /\ e.values = IF c.values THEN TRUE ELSE Unset
      /\ e.metas = IF c.metas THEN TRUE ELSE Unset
      /\ e.print = IF c.print THEN TRUE ELSE Unset
  BY DEF SetEnvVars
<1>4. \A f \in Flags : e[f] = IF c[f] = TRUE THEN TRUE ELSE Unset
  <2>1. c.values \in BOOLEAN /\ c.metas \in BOOLEAN /\ c.print \in BOOLEAN
    BY DEF Settled, Flags
  <2> QED BY <1>3, <2>1, Zenon DEF Flags
<1> QED BY <1>4

(* What is written back is text again.                                     *)
LEMMA WrittenBack ==
    ASSUME NEW c, Settled(c) PROVE TextLayer(SetEnvVars(c))
<1> DEFINE s == SetEnvVars(c)
<1>1. /\ DOMAIN s = Fields
      /\ s.dir = IF c.dir = "" THEN Unset ELSE c.dir
      /\ s.max = IF c.max > 0 THEN c.max ELSE Unset
      /\ s.range \in Nat \X Nat \cup {Unset}
  BY WriteBackFacts
<1>4. \A f \in Flags : s[f] \in BOOLEAN \cup {Unset}
  BY WriteBackFlags, Zenon
<1> HIDE DEF s
<1>2. s.range # None
  BY <1>1, UnsetAssumption
<1>3. s.dir # "" /\ s.max \in Nat \cup {Unset}
  BY <1>1, UnsetAssumption DEF Settled
<1> QED BY <1>1, <1>2, <1>3, <1>4 DEF TextLayer, Layer, Flags, s

LEMMA CallType ==
    ASSUME TypeInv, NEW o \in Ops
    PROVE  [step |-> step, num |-> counters[o] + 1] \in Call
BY DEF TypeInv, TypeOK, Call

LEMMA InitTypes == Init => TypeInv
<1> SUFFICES ASSUME Init PROVE TypeInv
  OBVIOUS
<1>1. TextLayer(env) /\ (yaml # NoFile => TextLayer(yaml))
  BY DumpAssumption DEF Init
<1>2. cfg.on = FALSE /\ Settled(cfg)
  BY OffSettled DEF Init
<1>3. \A S : <<>> \in Seq(S) /\ Len(<<>>) = 0
  BY EmptySeq
<1>4. TypeOK
  BY <1>2, <1>3 DEF Init, TypeOK, Empty
<1>5. NumberedInv
  BY <1>3 DEF Init, NumberedInv, Empty
<1> QED BY <1>1, <1>2, <1>4, <1>5 DEF TypeInv, SettingsInv

LEMMA NotElsewhere == \A o \in Ops, io \in {"in", "out"} : <<o, io>> # Elsewhere
<1> SUFFICES ASSUME NEW o \in Ops, NEW io \in {"in", "out"} PROVE <<o, io>> # Elsewhere
  OBVIOUS
<1>1. Len(<<o, io>>) = 2
  OBVIOUS
<1> QED BY <1>1, EmptySeq DEF Elsewhere

(* Two frames of the same call: one may have gone astray.                  *)
SameCall(f, g) == f.op = g.op /\ f.own = g.own /\ (g.astray => f.astray)

LEMMA AstrayFacts ==
    ASSUME NEW s \in Seq(Frame), NEW o
    PROVE  /\ Astray(s, o) \in Seq(Frame) /\ Len(Astray(s, o)) = Len(s)
           /\ \A d \in 1 .. Len(s) : /\ SameCall(Astray(s, o)[d], s[d])
                                     /\ s[d].op = o => Astray(s, o)[d].astray
<1> DEFINE n == Len(s)
           A(f) == [f EXCEPT !.astray = @ \/ f.op = o]
<1>1. n \in Nat /\ DOMAIN s = 1 .. n /\ \A d \in 1 .. n : s[d] \in Frame
  BY LenProperties, ElementOfSeq
<1>2. ASSUME NEW f \in Frame
      PROVE  A(f) \in Frame /\ SameCall(A(f), f) /\ (f.op = o => A(f).astray)
  <2>1. f = [op |-> f.op, own |-> f.own, astray |-> f.astray]
    BY DEF Frame
  <2>2. A(f).op = f.op /\ A(f).own = f.own
    BY DEF Frame
  <2>3. A(f).astray = (f.astray \/ f.op = o)
    BY DEF Frame
  <2>4. A(f) \in Frame
    BY DEF Frame
  <2> QED BY <2>2, <2>3, <2>4, Zenon DEF SameCall
<1>3. Astray(s, o) = [d \in 1 .. n |-> A(s[d])]
  BY <1>1 DEF Astray
<1> HIDE DEF A
<1>4. Astray(s, o) \in [1 .. n -> Frame]
  BY <1>1, <1>2, <1>3
<1>5. Astray(s, o) \in Seq(Frame) /\ Len(Astray(s, o)) = n
  BY <1>1, <1>4
<1> QED BY <1>1, <1>2, <1>3, <1>5

(* Handing over a call puts one job at the end of the queue.               *)
LEMMA SubmitType ==
    ASSUME TypeInv, NEW io \in {"in", "out"}, NEW call \in Call, NEW f \in Frame,
           call.num # 0, Submit(io, call, f)
    PROVE  /\ jobs' \in Seq(Job) /\ Len(jobs') = Len(jobs) + 1
           /\ \A i \in 1 .. Len(jobs) : jobs'[i] = jobs[i]
           /\ LET job == jobs'[Len(jobs) + 1]
              IN /\ job.file = IF call.step = step THEN <<f.op, io>> ELSE Elsewhere
                 /\ job.call = call /\ job.own = f.own
                 /\ (f.astray => job.astray)
           /\ \A i \in 1 .. Len(jobs') : jobs'[i].call.num # 0
           /\ dumped' \in [Files -> SUBSET Nat]
           /\ IF call.step = step THEN HandOver(<<f.op, io>>, call.num)
                                  ELSE dumped' = dumped
<1> DEFINE file == IF call.step = step THEN <<f.op, io>> ELSE Elsewhere
           job == [file |-> file, call |-> call, own |-> f.own, astray |-> f.astray]
<1>1. file \in Files \cup {Elsewhere} /\ (call.step = step => file # Elsewhere)
  BY NotElsewhere DEF Files, Frame
<1>2. jobs' = Append(jobs, job)
      /\ IF file = Elsewhere THEN UNCHANGED dumped ELSE HandOver(file, call.num)
  BY DEF Submit
<1>3. f.own \in Call /\ f.astray \in BOOLEAN /\ call.num \in Nat
  BY DEF Frame, Call
<1>4. file = IF call.step = step THEN <<f.op, io>> ELSE Elsewhere
  OBVIOUS
<1> HIDE DEF file
<1>5. /\ job \in Job /\ job.call = call /\ job.file = file /\ job.own = f.own
      /\ (f.astray => job.astray)
  BY <1>1, <1>3 DEF Job
<1>6. jobs \in Seq(Job)
  BY DEF TypeInv, TypeOK
<1> HIDE DEF job
<1>7. /\ jobs' \in Seq(Job) /\ Len(jobs') = Len(jobs) + 1
      /\ \A i \in 1 .. Len(jobs) : jobs'[i] = jobs[i]
      /\ jobs'[Len(jobs) + 1] = job /\ Len(jobs) \in Nat
  BY <1>2, <1>5, <1>6, AppendProperties, LenProperties
<1>8. \A i \in 1 .. Len(jobs) : jobs[i].call.num # 0
  BY DEF TypeInv, NumberedInv
<1>9. \A i \in 1 .. Len(jobs') : jobs'[i].call.num # 0
  BY <1>5, <1>7, <1>8
<1>10. dumped' \in [Files -> SUBSET Nat]
  <2>1. dumped \in [Files -> SUBSET Nat]
    BY DEF TypeInv, TypeOK
  <2>2. CASE file = Elsewhere
    BY <1>2, <2>1, <2>2
  <2>3. CASE file # Elsewhere
    <3>1. file \in Files /\ dumped' = [dumped EXCEPT ![file] = @ \cup {call.num}]
      BY <1>1, <1>2, <2>3 DEF HandOver
    <3>2. dumped[file] \cup {call.num} \in SUBSET Nat
      BY <1>3, <2>1, <3>1
    <3> QED BY <2>1, <3>1, <3>2
  <2> QED BY <2>2, <2>3
<1>11. IF call.step = step THEN HandOver(<<f.op, io>>, call.num) ELSE dumped' = dumped
  BY <1>1, <1>2, <1>4
<1> QED BY <1>4, <1>5, <1>7, <1>9, <1>10, <1>11

(* The call of o is entered, and all calls of o there are go astray.       *)
Strays(t, f, o) == stack' = [stack EXCEPT ![t] = Astray(Append(@, f), o)]

LEMMA PushType ==
    ASSUME TypeInv, NEW t \in Threads, NEW f \in Frame, NEW o,
           Push(t, f) \/ Strays(t, f, o)
    PROVE  /\ stack' \in [Threads -> Seq(Frame)]
           /\ \A u \in Threads \ {t} : stack'[u] = stack[u]
           /\ Len(stack[t]) \in Nat /\ Len(stack'[t]) = Len(stack[t]) + 1
           /\ \A d \in 1 .. Len(stack[t]) : SameCall(stack'[t][d], stack[t][d])
           /\ SameCall(stack'[t][Len(stack[t]) + 1], f)
           /\ Strays(t, f, o) => \A d \in 1 .. Len(stack'[t]) :
                 stack'[t][d].op = o => stack'[t][d].astray
<1> DEFINE s == stack[t]
           r == Append(s, f)
<1>1. s \in Seq(Frame) /\ (stack'[t] = r \/ stack'[t] = Astray(r, o))
  BY DEF Push, Strays, TypeInv, TypeOK
<1>2. /\ r \in Seq(Frame) /\ Len(r) = Len(s) + 1 /\ Len(s) \in Nat
      /\ \A d \in 1 .. Len(s) : r[d] = s[d]
      /\ r[Len(s) + 1] = f
  BY <1>1, AppendProperties, LenProperties
<1>3. /\ \A u \in Threads \ {t} : stack'[u] = stack[u]
      /\ (stack'[t] \in Seq(Frame) => stack' \in [Threads -> Seq(Frame)])
  BY DEF Push, Strays, TypeInv, TypeOK
<1>4. Strays(t, f, o) => stack'[t] = Astray(r, o)
  BY DEF Strays, TypeInv, TypeOK
<1> HIDE DEF s, r
<1>5. /\ Astray(r, o) \in Seq(Frame) /\ Len(Astray(r, o)) = Len(r)
      /\ \A d \in 1 .. Len(r) : /\ SameCall(Astray(r, o)[d], r[d])
                                /\ r[d].op = o => Astray(r, o)[d].astray
  <2>1. r \in Seq(Frame)
    BY <1>2
  <2> QED BY <2>1, AstrayFacts, Zenon
<1>6. CASE stack'[t] = r
  <2>1. \A d \in 1 .. Len(s) + 1 : SameCall(r[d], r[d])
    BY DEF SameCall
  <2>2. /\ \A d \in 1 .. Len(s) : SameCall(r[d], s[d])
        /\ SameCall(r[Len(s) + 1], f)
    BY <1>2, <2>1
  <2>3. ~Strays(t, f, o) \/ \A d \in 1 .. Len(stack'[t]) :
            stack'[t][d].op = o => stack'[t][d].astray
    <3>1. CASE ~Strays(t, f, o)
      BY <3>1
    <3>2. CASE Strays(t, f, o)
      <4>1. \A d \in 1 .. Len(r) : SameCall(r[d], r[d]) /\ (r[d].op = o => r[d].astray)
        BY <1>4, <1>5, <1>6, <3>2
      <4> QED BY <1>6, <4>1
    <3> QED BY <3>1, <3>2
  <2> QED BY <1>2, <1>3, <1>6, <2>2, <2>3 DEF s
<1>7. CASE stack'[t] = Astray(r, o)
  <2> DEFINE q == stack'[t]
  <2>1. /\ q \in Seq(Frame) /\ Len(q) = Len(s) + 1
        /\ \A d \in 1 .. Len(s) + 1 : SameCall(q[d], r[d])
        /\ \A d \in 1 .. Len(q) : q[d].op = o => q[d].astray
    <3>1. Len(r) = Len(s) + 1 /\ Len(Astray(r, o)) = Len(r)
      BY <1>2, <1>5
    <3>2. \A d \in 1 .. Len(r) : /\ SameCall(q[d], r[d])
                                 /\ r[d].op = o => q[d].astray
      BY <1>5, <1>7
    <3>3. \A d \in 1 .. Len(r) : q[d].op = r[d].op
      BY <3>2 DEF SameCall
    <3> QED BY <1>5, <1>7, <3>1, <3>2, <3>3
  <2> HIDE DEF q
  <2>2. /\ \A d \in 1 .. Len(s) : d \in 1 .. Len(s) + 1
        /\ Len(s) + 1 \in 1 .. Len(s) + 1
    BY <1>2
  <2>3. /\ \A d \in 1 .. Len(s) : SameCall(q[d], s[d])
        /\ SameCall(q[Len(s) + 1], f)
    BY <1>2, <2>1, <2>2
  <2> QED BY <1>2, <1>3, <2>1, <2>3 DEF s, q
<1> QED BY <1>1, <1>6, <1>7 DEF s, r

LEMMA PopType ==
    ASSUME TypeInv, NEW t \in Threads, stack[t] # <<>>,
           stack' = [stack EXCEPT ![t] = Front(@)]
    PROVE  /\ stack' \in [Threads -> Seq(Frame)]
           /\ \A u \in Threads \ {t} : stack'[u] = stack[u]
           /\ Len(stack[t]) \in Nat \ {0} /\ Len(stack'[t]) = Len(stack[t]) - 1
           /\ \A d \in 1 .. Len(stack[t]) - 1 : stack'[t][d] = stack[t][d]
           /\ Last(stack[t]) \in Frame
<1>1. stack[t] \in Seq(Frame) /\ stack'[t] = Front(stack[t])
  BY DEF TypeInv, TypeOK
<1> QED BY <1>1, FrontFacts, ZenonT(60) DEF TypeInv, TypeOK

Remembers(t, o, c) == pairing' = [pairing EXCEPT ![t][o] = Append(@, c)]

LEMMA PairType ==
    ASSUME TypeInv, NEW t \in Threads, NEW o \in Ops, NEW c \in Call, c.num # 0,
           Remembers(t, o, c)
    PROVE  /\ pairing' \in [Threads -> [Ops -> Seq(Call)]]
           /\ \A u \in Threads, p \in Ops :
                 <<u, p>> # <<t, o>> => pairing'[u][p] = pairing[u][p]
           /\ Len(pairing[t][o]) \in Nat
           /\ Len(pairing'[t][o]) = Len(pairing[t][o]) + 1
           /\ \A i \in 1 .. Len(pairing[t][o]) : pairing'[t][o][i] = pairing[t][o][i]
           /\ pairing'[t][o][Len(pairing[t][o]) + 1] = c
           /\ \A u \in Threads, p \in Ops :
                 \A i \in 1 .. Len(pairing'[u][p]) : pairing'[u][p][i].num # 0
<1> DEFINE s == pairing[t][o]
<1>1. s \in Seq(Call) /\ pairing'[t][o] = Append(s, c)
  BY DEF Remembers, TypeInv, TypeOK
<1>2. /\ Append(s, c) \in Seq(Call) /\ Len(Append(s, c)) = Len(s) + 1
      /\ Len(s) \in Nat
      /\ \A i \in 1 .. Len(s) : Append(s, c)[i] = s[i]
      /\ Append(s, c)[Len(s) + 1] = c
  BY <1>1, AppendProperties, LenProperties
<1>3. \A u \in Threads, p \in Ops : <<u, p>> # <<t, o>> => pairing'[u][p] = pairing[u][p]
  BY DEF Remembers, TypeInv, TypeOK
<1>4. pairing' \in [Threads -> [Ops -> Seq(Call)]]
  BY <1>1, <1>2 DEF Remembers, TypeInv, TypeOK
<1>5. ASSUME NEW u \in Threads, NEW p \in Ops, NEW i \in 1 .. Len(pairing'[u][p])
      PROVE  pairing'[u][p][i].num # 0
  <2>1. CASE <<u, p>> # <<t, o>>
    BY <1>3, <1>5, <2>1 DEF TypeInv, NumberedInv
  <2>2. CASE u = t /\ p = o
    <3>1. i \in 1 .. Len(s) \/ i = Len(s) + 1
      BY <1>1, <1>2, <1>5, <2>2
    <3>2. \A k \in 1 .. Len(s) : s[k].num # 0
      BY DEF TypeInv, NumberedInv
    <3> QED BY <1>1, <1>2, <2>2, <3>1, <3>2
  <2> QED BY <2>1, <2>2
<1> QED BY <1>1, <1>2, <1>3, <1>4, <1>5

LEMMA PopPairingType ==
    ASSUME TypeInv, NEW t \in Threads, NEW o \in Ops, PopPairing(t, o)
    PROVE  /\ pairing' \in [Threads -> [Ops -> Seq(Call)]]
           /\ \A u \in Threads, p \in Ops :
                 <<u, p>> # <<t, o>> => pairing'[u][p] = pairing[u][p]
           /\ pairing[t][o] = <<>> => pairing'[t][o] = <<>>
           /\ pairing[t][o] # <<>> =>
                 /\ Len(pairing[t][o]) \in Nat \ {0} /\ Last(pairing[t][o]) \in Call
                 /\ Last(pairing[t][o]).num # 0
                 /\ Len(pairing'[t][o]) = Len(pairing[t][o]) - 1
                 /\ \A i \in 1 .. Len(pairing[t][o]) - 1 :
                       pairing'[t][o][i] = pairing[t][o][i]
           /\ \A u \in Threads, p \in Ops :
                 \A i \in 1 .. Len(pairing'[u][p]) : pairing'[u][p][i].num # 0
<1> DEFINE s == pairing[t][o]
<1>1. s \in Seq(Call) /\ pairing'[t][o] = IF s = <<>> THEN s ELSE Front(s)
  BY DEF PopPairing, TypeInv, TypeOK
<1>2. s # <<>> => /\ Front(s) \in Seq(Call) /\ Len(Front(s)) = Len(s) - 1
                  /\ Len(s) \in Nat \ {0} /\ Last(s) \in Call
                  /\ \A i \in 1 .. Len(s) - 1 : Front(s)[i] = s[i]
  BY <1>1, FrontFacts
<1>3. \A u \in Threads, p \in Ops : <<u, p>> # <<t, o>> => pairing'[u][p] = pairing[u][p]
  BY DEF PopPairing, TypeInv, TypeOK
<1>4. pairing' \in [Threads -> [Ops -> Seq(Call)]]
  BY <1>1, <1>2 DEF PopPairing, TypeInv, TypeOK
<1>5. \A k \in 1 .. Len(s) : s[k].num # 0
  BY DEF TypeInv, NumberedInv
<1>6. ASSUME NEW u \in Threads, NEW p \in Ops, NEW i \in 1 .. Len(pairing'[u][p])
      PROVE  pairing'[u][p][i].num # 0
  <2>1. CASE <<u, p>> # <<t, o>>
    BY <1>3, <1>6, <2>1 DEF TypeInv, NumberedInv
  <2>2. CASE u = t /\ p = o
    <3>1. CASE s = <<>>
      <4>1. pairing'[u][p] = s
        BY <1>1, <2>2, <3>1
      <4> HIDE DEF s
      <4> QED BY <1>5, <1>6, <4>1
    <3>2. CASE s # <<>>
      <4>1. pairing'[u][p] = Front(s)
        BY <1>1, <2>2, <3>2
      <4> HIDE DEF s
      <4>2. i \in 1 .. Len(s) - 1 /\ i \in 1 .. Len(s)
        BY <1>2, <1>6, <3>2, <4>1
      <4> QED BY <1>2, <1>5, <3>2, <4>1, <4>2
    <3> QED BY <3>1, <3>2
  <2> QED BY <2>1, <2>2
<1>7. s # <<>> => Last(s).num # 0
  BY <1>2, <1>5 DEF Last
<1> QED BY <1>1, <1>2, <1>3, <1>4, <1>6, <1>7

LEMMA FrameType ==
    ASSUME NEW o \in Ops, NEW c \in Call
    PROVE  [op |-> o, own |-> c, astray |-> FALSE] \in Frame
BY DEF Frame

LEMMA EnterType ==
    ASSUME TypeInv, NEW t \in Threads, NEW o \in Ops,
           CallManaged(t, o) \/ (t = Main /\ CallAten(o))
    PROVE  TypeInv'
<1> DEFINE call == [step |-> step, num |-> counters[o] + 1]
           f == [op |-> o, own |-> call, astray |-> FALSE]
<1>1. /\ call \in Call /\ call.num = counters[o] + 1 /\ call.num # 0
      /\ call.num \in Nat
  BY CallType DEF TypeInv, TypeOK
<1>2. NoCall \in Call
  BY DEF NoCall, Call
<1>3. /\ DumpInput(t, o) \/ Filtered(t, o)
      /\ UNCHANGED <<configVars, fileVars, entered, step, phase>>
  BY DEF CallManaged, CallAten, Enter
<1>4. CASE DumpInput(t, o)
  <2>1. /\ counters' = [counters EXCEPT ![o] = call.num]
        /\ Remembers(t, o, call) \/ pairing' = pairing
        /\ Push(t, f) \/ Strays(t, f, o)
        /\ \/ Submit("in", call, f) /\ UNCHANGED faultVars
           \/ /\ HandOver(<<o, "in">>, call.num) /\ Lose(<<o, "in">>, call.num)
              /\ jobs' = jobs /\ faults' = faults + 1
    BY <1>4 DEF DumpInput, Fault, Strays, Remembers
  <2>2. f \in Frame
    BY <1>1, FrameType
  <2> HIDE DEF call, f
  <2>3. counters' \in [Ops -> Nat]
    BY <1>1, <2>1 DEF TypeInv, TypeOK
  <2>4. stack' \in [Threads -> Seq(Frame)]
    BY <2>1, <2>2, PushType
  <2>5. /\ pairing' \in [Threads -> [Ops -> Seq(Call)]]
        /\ \A u \in Threads, p \in Ops :
              \A i \in 1 .. Len(pairing'[u][p]) : pairing'[u][p][i].num # 0
    <3>1. CASE Remembers(t, o, call)
      BY <1>1, <3>1, PairType
    <3>2. CASE pairing' = pairing
      BY <3>2 DEF TypeInv, TypeOK, NumberedInv
    <3> QED BY <2>1, <3>1, <3>2
  <2>6. /\ jobs' \in Seq(Job) /\ \A i \in 1 .. Len(jobs') : jobs'[i].call.num # 0
        /\ dumped' \in [Files -> SUBSET Nat] /\ lost' \in [Files -> SUBSET Nat]
        /\ faults' \in Nat
    <3>1. CASE Submit("in", call, f) /\ UNCHANGED faultVars
      <4>1. lost' = lost /\ faults' = faults
        BY <3>1 DEF faultVars
      <4>2. /\ jobs' \in Seq(Job) /\ \A i \in 1 .. Len(jobs') : jobs'[i].call.num # 0
            /\ dumped' \in [Files -> SUBSET Nat]
        BY <1>1, <2>2, <3>1, SubmitType
      <4> QED BY <4>1, <4>2 DEF TypeInv, TypeOK
    <3>2. CASE /\ HandOver(<<o, "in">>, call.num) /\ Lose(<<o, "in">>, call.num)
               /\ jobs' = jobs /\ faults' = faults + 1
      <4>1. /\ dumped \in [Files -> SUBSET Nat] /\ lost \in [Files -> SUBSET Nat]
            /\ faults \in Nat /\ jobs \in Seq(Job)
            /\ \A i \in 1 .. Len(jobs) : jobs[i].call.num # 0
        BY DEF TypeInv, TypeOK, NumberedInv
      <4>2. call.num \in Nat
        BY <1>1 DEF Call
      <4>3. dumped' \in [Files -> SUBSET Nat]
        BY <3>2, <4>1, <4>2 DEF HandOver
      <4>4. lost' \in [Files -> SUBSET Nat]
        BY <3>2, <4>1, <4>2 DEF Lose
      <4> QED BY <3>2, <4>1, <4>3, <4>4
    <3> QED BY <2>1, <3>1, <3>2
  <2>7. TypeOK'
    BY <1>3, <2>3, <2>4, <2>5, <2>6 DEF TypeInv, TypeOK, configVars, fileVars
  <2>8. SettingsInv' /\ NumberedInv'
    BY <1>3, <2>5, <2>6 DEF TypeInv, SettingsInv, NumberedInv, configVars, fileVars
  <2> QED BY <2>7, <2>8 DEF TypeInv
<1>5. CASE Filtered(t, o)
  <2>1. stack' \in [Threads -> Seq(Frame)]
    BY <1>2, <1>5, FrameType, PushType DEF Filtered
  <2>2. UNCHANGED <<counters, pairing, jobs, dumped, lost, faults>>
    BY <1>5 DEF Filtered, faultVars
  <2>3. TypeOK'
    BY <1>3, <2>1, <2>2 DEF TypeInv, TypeOK, configVars, fileVars
  <2>4. SettingsInv' /\ NumberedInv'
    BY <1>3, <2>2 DEF TypeInv, SettingsInv, NumberedInv, configVars, fileVars
  <2> QED BY <2>3, <2>4 DEF TypeInv
<1> QED BY <1>3, <1>4, <1>5

LEMMA LeaveType ==
    ASSUME TypeInv, NEW t \in Threads, Return(t) \/ Raise(t)
    PROVE  TypeInv'
<1> DEFINE f == Last(stack[t])
<1>1. /\ stack[t] # <<>> /\ stack' = [stack EXCEPT ![t] = Front(@)]
      /\ UNCHANGED <<configVars, fileVars, counters, entered, step, phase>>
  BY DEF Return, Raise
<1>2. stack' \in [Threads -> Seq(Frame)] /\ f \in Frame
  BY <1>1, PopType
<1>3. f.op \in Ops /\ f.own \in Call
  BY <1>2 DEF Frame
<1>4. /\ PopPairing(t, f.op) \/ pairing' = pairing
      /\ \/ UNCHANGED <<jobs, dumped>>
         \/ /\ PopPairing(t, f.op) /\ pairing[t][f.op] # <<>>
            /\ Submit("out", Last(pairing[t][f.op]), f)
      /\ lost' = lost /\ (faults' = faults \/ faults' = faults + 1)
  <2>1. CASE DumpOutput(t, f)
    BY <2>1 DEF DumpOutput, Fault, faultVars
  <2>2. CASE ~DumpOutput(t, f)
    BY <2>2 DEF Return, Raise, faultVars
  <2> QED BY <2>1, <2>2
<1> HIDE DEF f
<1>5. /\ pairing' \in [Threads -> [Ops -> Seq(Call)]]
      /\ \A u \in Threads, p \in Ops :
            \A i \in 1 .. Len(pairing'[u][p]) : pairing'[u][p][i].num # 0
  <2>1. CASE PopPairing(t, f.op)
    BY <1>3, <2>1, PopPairingType
  <2>2. CASE pairing' = pairing
    BY <2>2 DEF TypeInv, TypeOK, NumberedInv
  <2> QED BY <1>4, <2>1, <2>2
<1>6. /\ jobs' \in Seq(Job) /\ \A i \in 1 .. Len(jobs') : jobs'[i].call.num # 0
      /\ dumped' \in [Files -> SUBSET Nat]
  <2>1. CASE UNCHANGED <<jobs, dumped>>
    BY <2>1 DEF TypeInv, TypeOK, NumberedInv
  <2>2. CASE /\ PopPairing(t, f.op) /\ pairing[t][f.op] # <<>>
             /\ Submit("out", Last(pairing[t][f.op]), f)
    <3>1. Last(pairing[t][f.op]) \in Call /\ Last(pairing[t][f.op]).num # 0
      BY <1>3, <2>2, PopPairingType
    <3> QED BY <1>2, <2>2, <3>1, SubmitType
  <2> QED BY <1>4, <2>1, <2>2
<1>7. TypeOK'
  BY <1>1, <1>2, <1>4, <1>5, <1>6, SMTT(30) DEF TypeInv, TypeOK, configVars, fileVars
<1>8. SettingsInv' /\ NumberedInv'
  BY <1>1, <1>5, <1>6 DEF TypeInv, SettingsInv, NumberedInv, configVars, fileVars
<1> QED BY <1>7, <1>8 DEF TypeInv

(* What a completed job leaves: the handle counts on to the first number   *)
(* still missing.                                                          *)
LEMMA WrittenFacts ==
    ASSUME NEW h \in Handle, IsFiniteSet(h.pending), NEW num \in Nat \ {0}
    PROVE  LET w == Written(h, num)
               S == h.pending \cup {num}
           IN  /\ w.handle \in Handle /\ IsFiniteSet(w.handle.pending)
               /\ w.handle.next >= h.next /\ w.handle.next \notin w.handle.pending
               /\ w.handle.pending = S \ (h.next .. w.handle.next - 1)
               /\ h.next .. w.handle.next - 1 \subseteq S
               /\ w.handle.next \notin S
               /\ w.out = Counted(h.next, w.handle.next)
<1> DEFINE S == h.pending \cup {num}
           m == RunEnd(S, h.next)
<1>1. IsFiniteSet(S) /\ h.next \in Nat \ {0} /\ S \subseteq Nat \ {0}
  BY FS_AddElement DEF Handle
<1>2. Cardinality(S) \in Nat
  BY <1>1, FS_CardinalityType
<1>3. /\ m \in h.next .. h.next + Cardinality(S)
      /\ h.next .. m - 1 \subseteq S /\ m \notin S
  BY <1>1, RunEndFacts
<1>4. m \in Nat \ {0} /\ m >= h.next
  BY <1>1, <1>2, <1>3
<1>5. IsFiniteSet(S \ (h.next .. m - 1))
  BY <1>1, FS_Subset
<1>6. /\ Written(h, num).handle = [pending |-> S \ (h.next .. m - 1), next |-> m]
      /\ Written(h, num).out = Counted(h.next, m)
  BY DEF Written
<1> HIDE DEF S, m
<1>7. /\ [pending |-> S \ (h.next .. m - 1), next |-> m] \in Handle
  BY <1>1, <1>4 DEF Handle
<1> QED BY <1>3, <1>4, <1>5, <1>6, <1>7 DEF S

(* What a task leaves of the handle h it finds for its file: it has counted*)
(* on, and has only lost the lines of L.                                   *)
Leaves(h, num, w, L) ==
    /\ w.handle \in Handle /\ IsFiniteSet(w.handle.pending)
    /\ w.handle.next >= h.next /\ w.handle.next \notin w.handle.pending
    /\ w.out = Counted(h.next, w.handle.next)
    /\ h.next .. w.handle.next - 1 \subseteq h.pending \cup {num}
    /\ w.handle.pending \subseteq h.pending \cup {num}
    /\ (h.pending \cup {num}) \ L \subseteq w.handle.pending \cup h.next .. w.handle.next - 1

LEMMA WrittenLeaves ==
    ASSUME NEW h \in Handle, IsFiniteSet(h.pending), NEW num \in Nat \ {0}
    PROVE  Leaves(h, num, Written(h, num), {})
<1> DEFINE w == Written(h, num)
<1>1. /\ w.handle \in Handle /\ IsFiniteSet(w.handle.pending)
      /\ w.handle.next >= h.next /\ w.handle.next \notin w.handle.pending
      /\ w.handle.pending = (h.pending \cup {num}) \ (h.next .. w.handle.next - 1)
      /\ h.next .. w.handle.next - 1 \subseteq h.pending \cup {num}
      /\ w.out = Counted(h.next, w.handle.next)
  BY WrittenFacts
<1> HIDE DEF w
<1>2. Leaves(h, num, w, {})
  BY <1>1 DEF Leaves
<1> QED BY <1>2 DEF w

LEMMA BrokenLeaves ==
    ASSUME NEW h \in Handle, IsFiniteSet(h.pending), NEW num \in Nat \ {0},
           NEW k \in h.next .. Written(h, num).handle.next - 1
    PROVE  k \in Nat /\ Leaves(h, num, Broken(h, num, k), {k})
<1> DEFINE S == h.pending \cup {num}
           w == Broken(h, num, k)
           m == Written(h, num).handle.next
<1>1. /\ h.next \in Nat \ {0} /\ m \in Nat \ {0} /\ h.next .. m - 1 \subseteq S
  BY WrittenFacts DEF Handle
<1>2. k \in h.next .. m - 1
  OBVIOUS
<1>3. /\ w.handle = [pending |-> S \ (h.next .. k), next |-> k]
      /\ w.out = Counted(h.next, k)
  BY DEF Broken
<1>4. IsFiniteSet(S) /\ S \subseteq Nat \ {0}
  BY FS_AddElement DEF Handle
<1>5. IsFiniteSet(S \ (h.next .. k))
  BY <1>4, FS_Subset
<1> HIDE DEF S, w, m
<1>6. k \in Nat \ {0} /\ k >= h.next /\ h.next .. k - 1 \subseteq S
  <2>1. k \in Nat \ {0} /\ k >= h.next /\ k <= m - 1
    BY <1>1, <1>2
  <2>2. h.next .. k - 1 \subseteq h.next .. m - 1
    BY <1>1, <2>1
  <2> QED BY <1>1, <2>1, <2>2
<1>7. w.handle \in Handle /\ w.handle.next = k /\ w.handle.pending = S \ (h.next .. k)
  <2>1. S \ (h.next .. k) \in SUBSET (Nat \ {0})
    BY <1>4
  <2>2. [pending |-> S \ (h.next .. k), next |-> k] \in Handle
    BY <1>6, <2>1 DEF Handle
  <2> QED BY <1>3, <2>2
<1>8. k \notin w.handle.pending /\ S \ {k} \subseteq w.handle.pending \cup h.next .. k - 1
  BY <1>1, <1>6, <1>7
<1>9. Leaves(h, num, w, {k})
  BY <1>3, <1>5, <1>6, <1>7, <1>8 DEF Leaves, S
<1> QED BY <1>6, <1>9 DEF w

(* A task that writes nothing: its file is one of an earlier step, or it   *)
(* has raised before its line was queued.                                  *)
BgSilent(i) ==
    LET f == jobs[i].file
    IN  /\ UNCHANGED fileVars
        /\ \/ f = Elsewhere /\ lost' = lost
           \/ f \in Files /\ lost' = [lost EXCEPT ![f] = @ \cup {jobs[i].call.num}]

BgWrites(i, h, w, L) ==
    LET f == jobs[i].file
    IN  /\ f \in Files /\ IsFiniteSet(h.pending)
        /\ IF handles[f] = {} THEN h = NewHandle ELSE h \in handles[f]
        /\ Keep(f, w) /\ Leaves(h, jobs[i].call.num, w, L)
        /\ lost' = [lost EXCEPT ![f] = @ \cup L]

(* The job that completes, the handle it finds, and what it leaves.        *)
LEMMA HandleFound ==
    ASSUME TypeInv, NEW f \in Files
    PROVE  /\ HandleOf(f) \in Handle /\ IsFiniteSet(HandleOf(f).pending)
           /\ IF handles[f] = {} THEN HandleOf(f) = NewHandle ELSE HandleOf(f) \in handles[f]
<1>1. CASE handles[f] = {}
  <2>1. NewHandle \in Handle /\ NewHandle.pending = {} /\ HandleOf(f) = NewHandle
    BY <1>1 DEF NewHandle, Handle, HandleOf
  <2> QED BY <1>1, <2>1, FS_EmptySet
<1>2. CASE handles[f] # {}
  <2>1. HandleOf(f) \in handles[f]
    BY <1>2 DEF HandleOf
  <2>2. handles[f] \subseteq Handle
    BY DEF TypeInv, TypeOK
  <2>3. \A x \in handles[f] : IsFiniteSet(x.pending)
    BY DEF TypeInv, NumberedInv
  <2> QED BY <1>2, <2>1, <2>2, <2>3
<1> QED BY <1>1, <1>2

LEMMA BgLeaves ==
    ASSUME TypeInv, NEW i \in 1 .. Workers, BgTask(i), i \in 1 .. Len(jobs),
           NEW num \in Nat \ {0}, num = jobs[i].call.num,
           NEW f \in Files \cup {Elsewhere}, f = jobs[i].file
    PROVE  BgSilent(i) \/ \E h \in Handle, L \in SUBSET Nat : \E w : BgWrites(i, h, w, L)
<1> DEFINE h == HandleOf(f)
<1>1. f # Elsewhere => /\ f \in Files /\ h \in Handle /\ IsFiniteSet(h.pending)
                       /\ IF handles[f] = {} THEN h = NewHandle ELSE h \in handles[f]
  BY HandleFound
<1>2. CASE BgComputeAndWrite(i) /\ f = Elsewhere
  BY <1>2 DEF BgComputeAndWrite, BgSilent, fileVars, faultVars
<1>3. CASE BgComputeAndWrite(i) /\ f # Elsewhere
  <2>1. Keep(f, Written(h, num)) /\ lost' = lost
    BY <1>3 DEF BgComputeAndWrite, faultVars
  <2> HIDE DEF h
  <2>2. Leaves(h, num, Written(h, num), {})
    BY <1>1, <1>3, WrittenLeaves
  <2>3. lost' = [lost EXCEPT ![f] = @ \cup {}]
    <3>1. lost \in [Files -> SUBSET Nat]
      BY DEF TypeInv, TypeOK
    <3> QED BY <2>1, <3>1
  <2>4. BgWrites(i, h, Written(h, num), {})
    BY <1>1, <1>3, <2>1, <2>2, <2>3 DEF BgWrites
  <2>5. {} \in SUBSET Nat
    OBVIOUS
  <2> QED BY <1>1, <1>3, <2>4, <2>5
<1>4. CASE BgComputeRaises(i)
  <2>1. f \in Files /\ Lose(f, num) /\ UNCHANGED fileVars
    BY <1>4 DEF BgComputeRaises
  <2> QED BY <2>1 DEF BgSilent, Lose
<1>5. CASE BgWriteRaises(i)
  <2>1. PICK k \in h.next .. Written(h, num).handle.next - 1 :
           f \in Files /\ Keep(f, Broken(h, num, k)) /\ Lose(f, k)
    BY <1>5 DEF BgWriteRaises
  <2>2. f # Elsewhere
    BY <1>5 DEF BgWriteRaises
  <2> HIDE DEF h
  <2>3. Leaves(h, num, Broken(h, num, k), {k}) /\ k \in Nat
    BY <1>1, <2>2, BrokenLeaves
  <2>4. BgWrites(i, h, Broken(h, num, k), {k})
    BY <1>1, <2>1, <2>2, <2>3 DEF BgWrites, Lose
  <2>5. {k} \in SUBSET Nat
    BY <2>3
  <2> QED BY <1>1, <2>2, <2>4, <2>5
<1> QED BY <1>2, <1>3, <1>4, <1>5 DEF BgTask

LEMMA BgFacts ==
    ASSUME TypeInv, NEW i \in 1 .. Workers, BgTask(i)
    PROVE  /\ i \in 1 .. Len(jobs) /\ jobs[i] \in Job /\ jobs[i].call.num \in Nat \ {0}
           /\ jobs' = RemoveAt(jobs, i) /\ jobs \in Seq(Job)
           /\ UNCHANGED <<configVars, callVars, entered, step, phase, dumped>>
           /\ faults' \in Nat
           /\ BgSilent(i) \/ \E h \in Handle, L \in SUBSET Nat : \E w : BgWrites(i, h, w, L)
<1>1. /\ i \in 1 .. Len(jobs) /\ jobs' = RemoveAt(jobs, i)
      /\ UNCHANGED <<configVars, callVars, entered, step, phase, dumped>>
      /\ faults' = faults \/ faults' = faults + 1
  BY DEF BgTask, BgComputeAndWrite, BgComputeRaises, BgWriteRaises, TaskEnds, Fault, faultVars
<1>2. jobs \in Seq(Job) /\ jobs[i] \in Job
  BY <1>1, ElementOfSeq DEF TypeInv, TypeOK
<1>3. jobs[i].file \in Files \cup {Elsewhere} /\ jobs[i].call.num \in Nat \ {0}
  BY <1>1, <1>2 DEF Job, Call, TypeInv, NumberedInv
<1>4. BgSilent(i) \/ \E h \in Handle, L \in SUBSET Nat : \E w : BgWrites(i, h, w, L)
  BY <1>1, <1>3, BgLeaves
<1>5. faults' \in Nat
  BY <1>1 DEF TypeInv, TypeOK
<1> QED BY <1>1, <1>2, <1>3, <1>4, <1>5

LEMMA CountedFacts ==
    ASSUME NEW n \in Nat, NEW m \in Nat, n <= m
    PROVE  /\ Counted(n, m) \in Seq(Nat) /\ Len(Counted(n, m)) = m - n
           /\ \A i \in 1 .. m - n : Counted(n, m)[i] = n + i - 1
<1>1. m - n \in Nat
  OBVIOUS
<1>2. Counted(n, m) \in [1 .. m - n -> Nat]
  BY DEF Counted
<1> QED BY <1>1, <1>2 DEF Counted

LEMMA BgType ==
    ASSUME TypeInv, NEW i \in 1 .. Workers, BgTask(i)
    PROVE  TypeInv'
<1>1. /\ i \in 1 .. Len(jobs) /\ jobs[i] \in Job /\ jobs[i].call.num \in Nat \ {0}
      /\ jobs' = RemoveAt(jobs, i) /\ jobs \in Seq(Job)
      /\ UNCHANGED <<configVars, callVars, entered, step, phase, dumped>>
      /\ faults' \in Nat
      /\ BgSilent(i) \/ \E h \in Handle, L \in SUBSET Nat : \E w : BgWrites(i, h, w, L)
  BY BgFacts
<1>2. /\ lines' \in [Files -> Seq(Nat)] /\ handles' \in [Files -> SUBSET Handle]
      /\ lost' \in [Files -> SUBSET Nat]
      /\ \A g \in Files : \A x \in handles'[g] : IsFiniteSet(x.pending)
  <2>1. CASE BgSilent(i)
    <3>1. handles' = handles /\ lines' = lines
      BY <2>1 DEF BgSilent, fileVars
    <3>2. /\ lines \in [Files -> Seq(Nat)] /\ handles \in [Files -> SUBSET Handle]
          /\ lost \in [Files -> SUBSET Nat]
      BY DEF TypeInv, TypeOK
    <3>3. \A g \in Files : \A x \in handles[g] : IsFiniteSet(x.pending)
      BY DEF TypeInv, NumberedInv
    <3>4. lost' \in [Files -> SUBSET Nat]
      <4> DEFINE num == jobs[i].call.num
                 f == jobs[i].file
      <4>1. lost' = lost \/ (f \in Files /\ lost' = [lost EXCEPT ![f] = @ \cup {num}])
        BY <2>1 DEF BgSilent
      <4>2. num \in Nat
        BY <1>1
      <4> HIDE DEF num, f
      <4> QED BY <3>2, <4>1, <4>2
    <3> QED BY <3>1, <3>2, <3>3, <3>4
  <2>2. ASSUME NEW h \in Handle, NEW w, NEW L \in SUBSET Nat, BgWrites(i, h, w, L)
        PROVE  /\ lines' \in [Files -> Seq(Nat)] /\ handles' \in [Files -> SUBSET Handle]
               /\ lost' \in [Files -> SUBSET Nat]
               /\ \A g \in Files : \A x \in handles'[g] : IsFiniteSet(x.pending)
    <3> DEFINE f == jobs[i].file
    <3>1. /\ f \in Files
          /\ handles' = [handles EXCEPT ![f] = {w.handle}]
          /\ lines' = [lines EXCEPT ![f] = @ \o w.out]
          /\ lost' = [lost EXCEPT ![f] = @ \cup L]
          /\ w.handle \in Handle /\ IsFiniteSet(w.handle.pending)
          /\ w.handle.next >= h.next /\ w.out = Counted(h.next, w.handle.next)
      <4>1. /\ f \in Files /\ Keep(f, w) /\ lost' = [lost EXCEPT ![f] = @ \cup L]
            /\ Leaves(h, jobs[i].call.num, w, L)
        BY <2>2, Zenon DEF BgWrites
      <4> HIDE DEF f
      <4> QED BY <4>1, Zenon DEF Keep, Leaves
    <3>2. w.out \in Seq(Nat)
      <4>1. h.next \in Nat /\ w.handle.next \in Nat /\ h.next <= w.handle.next
        BY <3>1 DEF Handle
      <4>2. Counted(h.next, w.handle.next) \in Seq(Nat)
        BY <4>1, CountedFacts
      <4> QED BY <3>1, <4>2
    <3>3. lines[f] \o w.out \in Seq(Nat)
      <4>1. lines[f] \in Seq(Nat)
        BY <3>1 DEF TypeInv, TypeOK
      <4> HIDE DEF f
      <4> QED BY <3>2, <4>1, ConcatProperties
    <3>4. /\ lines \in [Files -> Seq(Nat)] /\ handles \in [Files -> SUBSET Handle]
          /\ lost \in [Files -> SUBSET Nat]
      BY DEF TypeInv, TypeOK
    <3>5. \A g \in Files : \A x \in handles[g] : IsFiniteSet(x.pending)
      BY DEF TypeInv, NumberedInv
    <3> HIDE DEF f
    <3>6. lines' \in [Files -> Seq(Nat)]
      BY <3>1, <3>3, <3>4
    <3>7. handles' \in [Files -> SUBSET Handle]
      BY <3>1, <3>4
    <3>8. lost' \in [Files -> SUBSET Nat]
      BY <3>1, <3>4
    <3>9. \A g \in Files : \A x \in handles'[g] : IsFiniteSet(x.pending)
      BY <3>1, <3>4, <3>5
    <3> QED BY <3>6, <3>7, <3>8, <3>9
  <2> QED BY <1>1, <2>1, <2>2
<1>3. /\ jobs' \in Seq(Job)
      /\ \A j \in 1 .. Len(jobs') : \E k \in 1 .. Len(jobs) : jobs'[j] = jobs[k]
  <2> DEFINE r == RemoveAt(jobs, i)
  <2>1. /\ r \in Seq(Job)
        /\ \A j \in 1 .. Len(r) : \E k \in 1 .. Len(jobs) : r[j] = jobs[k]
    BY <1>1, RemoveFacts
  <2>2. jobs' = r
    BY <1>1
  <2> HIDE DEF r
  <2> QED BY <2>1, <2>2
<1>4. \A j \in 1 .. Len(jobs') : jobs'[j].call.num # 0
  BY <1>3 DEF TypeInv, NumberedInv
<1>5. TypeOK'
  BY <1>1, <1>2, <1>3 DEF TypeInv, TypeOK, configVars, callVars
<1>6. SettingsInv' /\ NumberedInv'
  BY <1>1, <1>2, <1>4 DEF TypeInv, SettingsInv, NumberedInv, configVars, callVars
<1> QED BY <1>5, <1>6 DEF TypeInv

LEMMA ClosedType ==
    ASSUME CloseOpenFiles
    PROVE  /\ handles' \in [Files -> SUBSET Handle] /\ \A f \in Files : handles'[f] = {}
           /\ lines' \in [Files -> Seq(Nat)] /\ \A f \in Files : lines'[f] = <<>>
           /\ dumped' \in [Files -> SUBSET Nat] /\ \A f \in Files : dumped'[f] = {}
           /\ lost' \in [Files -> SUBSET Nat] /\ faults' = faults
<1>1. <<>> \in Seq(Nat)
  BY EmptySeq
<1> QED BY <1>1 DEF CloseOpenFiles, Empty

LEMMA SteppingType ==
    ASSUME TypeInv, AdvanceStep \/ FlushStep \/ FlushDisable PROVE TypeInv'
<1>1. CASE AdvanceStep
  <2>1. /\ step' = step + 1 /\ counters' = [o \in Ops |-> 0] /\ phase' = "step"
        /\ entered' \in BOOLEAN
        /\ UNCHANGED <<configVars, fileVars, faultVars, stack, pairing, jobs, dumped>>
    BY <1>1 DEF AdvanceStep, TypeInv, TypeOK
  <2>2. TypeOK'
    BY <2>1 DEF TypeInv, TypeOK, configVars, fileVars, faultVars
  <2> QED BY <2>1, <2>2 DEF TypeInv, SettingsInv, NumberedInv, configVars, fileVars
<1>2. CASE FlushStep
  <2>1. /\ CloseOpenFiles /\ phase' = "run"
        /\ UNCHANGED <<configVars, callVars, entered, step, jobs>>
    BY <1>2 DEF FlushStep
  <2>2. TypeOK'
    BY <2>1, ClosedType DEF TypeInv, TypeOK, configVars, callVars
  <2> QED BY <2>1, <2>2, ClosedType DEF TypeInv, SettingsInv, NumberedInv, configVars,
                                        callVars
<1>3. CASE FlushDisable
  <2>1. /\ CloseOpenFiles /\ phase' = "run" /\ cfg' = Off /\ env' = Silent
        /\ counters' = [o \in Ops |-> 0]
        /\ UNCHANGED <<yaml, sessions, stack, pairing, entered, step, jobs>>
    BY <1>3 DEF FlushDisable
  <2>2. cfg'.on \in BOOLEAN /\ Settled(cfg')
    BY <2>1, OffSettled
  <2>3. TypeOK'
    BY <2>1, <2>2, ClosedType DEF TypeInv, TypeOK
  <2>4. SettingsInv'
    BY <2>1, <2>2, SilentText DEF TypeInv, SettingsInv
  <2> QED BY <2>1, <2>3, <2>4, ClosedType DEF TypeInv, NumberedInv
<1> QED BY <1>1, <1>2, <1>3

LEMMA SwitchingType ==
    ASSUME TypeInv,
           \/ \E api \in Apis : Enable(api)
           \/ InitIODumpFromEnv \/ Disable
    PROVE  TypeInv'
<1>1. ASSUME NEW api \in Apis, Enable(api) PROVE TypeInv'
  <2> DEFINE c == EnableConfig(env, yaml, api)
  <2>1. Layer(api)
    BY DumpAssumption
  <2>2. c.on = TRUE /\ Settled(c)
    BY <2>1, Resolved DEF TypeInv, SettingsInv
  <2>3. /\ cfg' = c /\ entered' = (entered \/ c.range = None \/ c.range[1] = 0)
        /\ env' = SetEnvVars(c) /\ sessions' = sessions + 1
        /\ UNCHANGED <<yaml, fileVars, callVars, faultVars, step, jobs, phase, dumped>>
    BY <1>1 DEF Enable, ActivateHooks
  <2> HIDE DEF c
  <2>4. entered' \in BOOLEAN
    BY <2>3, Zenon
  <2>5. cfg'.on \in BOOLEAN
    BY <2>2, <2>3
  <2>6. TypeOK'
    BY <2>3, <2>4, <2>5 DEF TypeInv, TypeOK, fileVars, callVars, faultVars
  <2>7. SettingsInv'
    BY <2>2, <2>3, WrittenBack DEF TypeInv, SettingsInv
  <2> QED BY <2>3, <2>6, <2>7 DEF TypeInv, NumberedInv, fileVars, callVars
<1>2. CASE InitIODumpFromEnv
  <2> DEFINE c == InitFromEnv(env, yaml)
  <2>2. c.on \in BOOLEAN /\ Settled(c)
    BY Resolved DEF TypeInv, SettingsInv
  <2>3. /\ cfg' = c /\ sessions' = sessions + 1
        /\ UNCHANGED <<env, yaml, fileVars, callVars, faultVars, step, jobs, phase, dumped>>
        /\ entered' = (entered \/ cfg'.range = None \/ cfg'.range[1] = 0)
    BY <1>2 DEF InitIODumpFromEnv, ActivateHooks
  <2> HIDE DEF c
  <2>4. entered' \in BOOLEAN
    BY <2>3, Zenon
  <2>5. TypeOK'
    BY <2>2, <2>3, <2>4 DEF TypeInv, TypeOK, fileVars, callVars, faultVars
  <2>6. SettingsInv'
    BY <2>2, <2>3 DEF TypeInv, SettingsInv
  <2> QED BY <2>3, <2>5, <2>6 DEF TypeInv, NumberedInv, fileVars, callVars
<1>3. CASE Disable
  <2>1. /\ cfg' = [cfg EXCEPT !.on = FALSE] /\ entered' = FALSE /\ phase' = "disable"
        /\ UNCHANGED <<env, yaml, sessions, fileVars, callVars, faultVars, step, jobs, dumped>>
    BY <1>3 DEF Disable
  <2>2. cfg'.on \in BOOLEAN /\ Settled(cfg')
    BY <2>1 DEF TypeInv, TypeOK, SettingsInv, Settled, Flags
  <2>3. TypeOK'
    BY <2>1, <2>2 DEF TypeInv, TypeOK, fileVars, callVars, faultVars
  <2>4. SettingsInv'
    BY <2>1, <2>2 DEF TypeInv, SettingsInv
  <2> QED BY <2>1, <2>3, <2>4 DEF TypeInv, NumberedInv, fileVars, callVars
<1> QED BY <1>1, <1>2, <1>3

LEMMA StepTypes ==
    ASSUME TypeInv, [Next]_vars PROVE TypeInv'
<1>1. CASE UNCHANGED vars
  BY <1>1 DEF vars, configVars, fileVars, callVars, faultVars, TypeInv, TypeOK, SettingsInv,
              NumberedInv
<1>2. ASSUME NEW o \in Ops, CallAten(o) PROVE TypeInv'
  BY <1>2, DumpAssumption, EnterType
<1> QED BY <1>1, <1>2, EnterType, LeaveType, BgType, SteppingType, SwitchingType DEF Next

(* The variables keep their types: whatever is nested, raises or is        *)
(* completed out of order, pairings and jobs hold calls, and handles and   *)
(* files numbers.                                                          *)
THEOREM TypeCorrect == Spec => []TypeOK
<1>1. TypeInv => TypeOK
  BY DEF TypeInv
<1> QED BY <1>1, InitTypes, StepTypes, PTL DEF Spec

-----------------------------------------------------------------------------
(* LinesInOrder holds because the lines of an open file always are the     *)
(* numbers its handle has counted past.                                    *)

LineInv == \A f \in Files :
    /\ handles[f] = {} => lines[f] = <<>>
    /\ \A h \in handles[f] : lines[f] = Counted(1, h.next)

(* Counting goes on where it stopped.                                      *)
LEMMA CountedOn ==
    ASSUME NEW n \in Nat \ {0}, NEW m \in Nat \ {0}, n <= m
    PROVE  Counted(1, n) \o Counted(n, m) = Counted(1, m)
<1> DEFINE a == Counted(1, n)
           b == Counted(n, m)
           c == Counted(1, m)
<1>1. /\ a \in Seq(Nat) /\ Len(a) = n - 1
      /\ \A i \in 1 .. n - 1 : a[i] = i
  BY CountedFacts
<1>2. /\ b \in Seq(Nat) /\ Len(b) = m - n
      /\ \A i \in 1 .. m - n : b[i] = n + i - 1
  BY CountedFacts
<1>3. /\ c \in Seq(Nat) /\ Len(c) = m - 1
      /\ \A i \in 1 .. m - 1 : c[i] = i
  BY CountedFacts
<1> HIDE DEF a, b, c
<1>4. /\ a \o b \in Seq(Nat) /\ Len(a \o b) = Len(a) + Len(b)
      /\ \A i \in 1 .. Len(a) + Len(b) :
            (a \o b)[i] = IF i <= Len(a) THEN a[i] ELSE b[i - Len(a)]
  BY <1>1, <1>2, ConcatProperties
<1>5. Len(a \o b) = m - 1
  BY <1>1, <1>2, <1>4
<1>6. \A i \in 1 .. m - 1 : (a \o b)[i] = i
  <2> SUFFICES ASSUME NEW i \in 1 .. m - 1 PROVE (a \o b)[i] = i
    OBVIOUS
  <2>1. (a \o b)[i] = IF i <= n - 1 THEN a[i] ELSE b[i - (n - 1)]
    <3>1. i \in 1 .. Len(a) + Len(b)
      BY <1>1, <1>2
    <3> QED BY <1>1, <1>4, <3>1
  <2>2. CASE i <= n - 1
    BY <1>1, <2>1, <2>2
  <2>3. CASE ~(i <= n - 1)
    <3>1. i - (n - 1) \in 1 .. m - n /\ n + (i - (n - 1)) - 1 = i
      BY <2>3
    <3> QED BY <1>2, <2>1, <2>3, <3>1
  <2> QED BY <2>2, <2>3
<1>7. a \o b = c
  BY <1>3, <1>4, <1>5, <1>6, SeqEqual
<1> QED BY <1>7 DEF a, b, c

LEMMA NothingCounted == Counted(1, 1) = <<>>
<1>1. Counted(1, 1) \in Seq(Nat) /\ Len(Counted(1, 1)) = 0
  BY CountedFacts
<1> QED BY <1>1, EmptySeq

LEMMA LineStep ==
    ASSUME TypeInv, LineInv, [Next]_vars PROVE LineInv'
<1>1. CASE UNCHANGED <<handles, lines>>
  BY <1>1 DEF LineInv
<1>2. CASE CloseOpenFiles
  BY <1>2, ClosedType DEF LineInv
<1>9. ASSUME NEW i \in 1 .. Workers, NEW h \in Handle, NEW w, NEW L, BgWrites(i, h, w, L)
      PROVE  LineInv'
  <2> DEFINE f == jobs[i].file
  <2>1. /\ f \in Files
        /\ IF handles[f] = {} THEN h = NewHandle ELSE h \in handles[f]
        /\ handles' = [handles EXCEPT ![f] = {w.handle}]
        /\ lines' = [lines EXCEPT ![f] = @ \o w.out]
        /\ w.handle \in Handle /\ w.handle.next >= h.next
        /\ w.out = Counted(h.next, w.handle.next)
    BY <1>9 DEF BgWrites, Keep, Leaves
  <2>3. lines[f] = Counted(1, h.next)
    <3>1. CASE handles[f] = {}
      <4>1. h.next = 1 /\ lines[f] = <<>>
        BY <2>1, <3>1 DEF NewHandle, LineInv
      <4> QED BY <4>1, NothingCounted
    <3>2. CASE handles[f] # {}
      BY <2>1, <3>2 DEF LineInv
    <3> QED BY <3>1, <3>2
  <2>4. lines[f] \o w.out = Counted(1, w.handle.next)
    BY <2>1, <2>3, CountedOn DEF Handle
  <2>5. handles'[f] = {w.handle} /\ lines'[f] = Counted(1, w.handle.next)
    BY <2>1, <2>4 DEF TypeInv, TypeOK
  <2>6. \A g \in Files \ {f} : handles'[g] = handles[g] /\ lines'[g] = lines[g]
    BY <2>1 DEF TypeInv, TypeOK
  <2> QED BY <2>5, <2>6 DEF LineInv
<1>3. ASSUME NEW i \in 1 .. Workers, BgTask(i) PROVE LineInv'
  <2>1. BgSilent(i) \/ \E h \in Handle, L \in SUBSET Nat : \E w : BgWrites(i, h, w, L)
    BY <1>3, BgFacts
  <2>2. BgSilent(i) => UNCHANGED <<handles, lines>>
    BY DEF BgSilent, fileVars
  <2> QED BY <1>1, <1>9, <2>1, <2>2
<1>4. ASSUME NEW t \in Threads, NEW o \in Ops,
             CallManaged(t, o) \/ (t = Main /\ CallAten(o))
      PROVE  UNCHANGED <<handles, lines>>
  BY <1>4 DEF CallManaged, CallAten, Enter, fileVars
<1>5. ASSUME NEW t \in Threads, Return(t) \/ Raise(t) PROVE UNCHANGED <<handles, lines>>
  BY <1>5 DEF Return, Raise, fileVars
<1>6. CASE AdvanceStep \/ FlushStep \/ FlushDisable
  BY <1>1, <1>2, <1>6 DEF AdvanceStep, FlushStep, FlushDisable, fileVars
<1>7. CASE (\E api \in Apis : Enable(api)) \/ InitIODumpFromEnv \/ Disable
  BY <1>1, <1>7 DEF Enable, InitIODumpFromEnv, Disable, fileVars
<1>8. CASE UNCHANGED vars
  BY <1>1, <1>8 DEF vars, fileVars
<1> QED BY <1>1, <1>3, <1>4, <1>5, <1>6, <1>7, <1>8, DumpAssumption DEF Next

LEMMA CountedInOrder ==
    ASSUME TypeInv, LineInv PROVE LinesInOrder
<1> SUFFICES ASSUME NEW f \in Files PROVE lines[f] = Counted(1, Len(lines[f]) + 1)
  BY DEF LinesInOrder
<1>1. CASE handles[f] = {}
  <2>1. lines[f] = <<>> /\ Len(lines[f]) = 0
    BY <1>1, EmptySeq DEF LineInv
  <2> QED BY <2>1, NothingCounted
<1>2. ASSUME NEW h \in handles[f] PROVE lines[f] = Counted(1, Len(lines[f]) + 1)
  <2>1. h.next \in Nat \ {0} /\ lines[f] = Counted(1, h.next)
    BY <1>2 DEF TypeInv, TypeOK, Handle, LineInv
  <2>2. Len(lines[f]) = h.next - 1
    <3>1. 1 \in Nat /\ h.next \in Nat /\ 1 <= h.next
      BY <2>1
    <3>2. Len(Counted(1, h.next)) = h.next - 1
      BY <3>1, CountedFacts
    <3> QED BY <2>1, <3>2
  <2>3. Len(lines[f]) + 1 = h.next
    BY <2>1, <2>2
  <2> QED BY <2>1, <2>3
<1> QED BY <1>1, <1>2

(* The lines of a file are those of the calls 1, 2, ..., in this order and *)
(* none twice, in whatever order the pool's workers complete them.         *)
THEOREM LinesAlwaysInOrder == Spec => []LinesInOrder
<1>1. Init => LineInv
  BY DEF Init, LineInv, Empty
<1> QED BY <1>1, InitTypes, StepTypes, LineStep, CountedInOrder, PTL DEF Spec

-----------------------------------------------------------------------------
(* An output finds its own input on top of its operator's pairings,        *)
(* although pairings of earlier calls may lie below: as long as a limit    *)
(* lets outputs through, it has let through the inputs of all calls of the *)
(* operator that this thread is in, and these are the newest pairings, one *)
(* for each, in the order of the stack.  Only a hook that fails before it  *)
(* has remembered its call leaves none; the calls of this operator are     *)
(* astray then.                                                            *)

(* The calls of o in the stack s inside the one at depth d.                *)
Inside(s, o, d) == {e \in d + 1 .. Len(s) : s[e].op = o}

(* The call at depth d of the stack s finds itself among the pairings p.   *)
Paired(s, p, d) ==
    LET o == s[d].op
        k == Len(p[o]) - Cardinality(Inside(s, o, d))
    IN  k >= 1 /\ p[o][k] = s[d].own

Wants(f) == WantsOutput(f) /\ Writing
Tracks(f) == Wants(f) /\ ~f.astray

PairInv ==
    /\ \A t \in Threads : \A d \in 1 .. Len(stack[t]) :
          /\ stack[t][d].op \notin Managed => d = Len(stack[t])
          /\ Tracks(stack[t][d]) => Paired(stack[t], pairing[t], d)
    /\ phase # "run" => \A t \in Threads : stack[t] = <<>>

FiledInv == TypeInv /\ PairInv /\ OutputsFiledWithInputs

LEMMA InsideFinite ==
    ASSUME NEW s, NEW o, NEW d \in Nat, Len(s) \in Nat
    PROVE  IsFiniteSet(Inside(s, o, d)) /\ Cardinality(Inside(s, o, d)) \in Nat
<1>1. IsFiniteSet(d + 1 .. Len(s))
  BY FS_Interval
<1>2. IsFiniteSet(Inside(s, o, d))
  BY <1>1, FS_Subset DEF Inside
<1> QED BY <1>2, FS_CardinalityType

(* One more call on the stack.                                             *)
LEMMA InsideMore ==
    ASSUME NEW s, NEW r, Len(s) \in Nat, Len(r) = Len(s) + 1,
           \A i \in 1 .. Len(s) : r[i].op = s[i].op,
           NEW d \in 1 .. Len(s), NEW o
    PROVE  Cardinality(Inside(r, o, d))
             = IF r[Len(r)].op = o THEN Cardinality(Inside(s, o, d)) + 1
                                   ELSE Cardinality(Inside(s, o, d))
<1>1. Inside(r, o, d) = IF r[Len(r)].op = o THEN Inside(s, o, d) \cup {Len(r)}
                                            ELSE Inside(s, o, d)
  <2>1. d + 1 .. Len(r) = (d + 1 .. Len(s)) \cup {Len(r)}
    OBVIOUS
  <2>2. \A i \in d + 1 .. Len(s) : r[i].op = s[i].op
    OBVIOUS
  <2> QED BY <2>1, <2>2 DEF Inside
<1>2. Len(r) \notin Inside(s, o, d)
  BY DEF Inside
<1>3. IsFiniteSet(Inside(s, o, d)) /\ Cardinality(Inside(s, o, d)) \in Nat
  BY InsideFinite
<1>4. Cardinality(Inside(s, o, d) \cup {Len(r)}) = Cardinality(Inside(s, o, d)) + 1
  BY <1>2, <1>3, FS_AddElement
<1> QED BY <1>1, <1>4

LEMMA NothingInside ==
    ASSUME NEW s, NEW o, Len(s) \in Nat PROVE Cardinality(Inside(s, o, Len(s))) = 0
<1>1. Inside(s, o, Len(s)) = {}
  BY DEF Inside
<1> QED BY <1>1, FS_EmptySet

(* Within a step more calls never let through what was filtered.           *)
LEMMA TracksLess ==
    ASSUME TypeInv, UNCHANGED <<cfg, step>>, counters' \in [Ops -> Nat],
           \A o \in Ops : counters'[o] >= counters[o]
    PROVE  \A f \in Frame : Tracks(f)' => Tracks(f)
<1> SUFFICES ASSUME NEW f \in Frame, Tracks(f)' PROVE Tracks(f)
  OBVIOUS
<1>1. f.op \in Ops /\ counters[f.op] \in Nat /\ cfg.max \in Nat
  BY DEF Frame, TypeInv, TypeOK, SettingsInv, Settled
<1>2. Writing
  BY DEF Tracks, Wants, Writing
<1>3. CASE f.op \notin Managed
  BY <1>2, <1>3 DEF Tracks, Wants, WantsOutput
<1>4. CASE f.op \in Managed
  <2>1. ShouldDump(f.op)'
    BY <1>4 DEF Tracks, Wants, WantsOutput
  <2>2. CheckLimits(f.op)
    <3>1. InRange(step)
      BY <2>1 DEF ShouldDump, CheckLimits, InRange
    <3>2. cfg.max > 0 => counters'[f.op] < cfg.max
      BY <2>1 DEF ShouldDump, CheckLimits
    <3>3. cfg.max > 0 => counters[f.op] < cfg.max
      BY <1>1, <3>2
    <3> QED BY <3>1, <3>3 DEF CheckLimits
  <2>3. ShouldDump(f.op)
    BY <2>1, <2>2 DEF ShouldDump
  <2> QED BY <1>2, <1>4, <2>3 DEF Tracks, Wants, WantsOutput
<1> QED BY <1>3, <1>4

(* The thread u is in order.                                               *)
ThreadPaired(u) == \A d \in 1 .. Len(stack[u]) :
    /\ stack[u][d].op \notin Managed => d = Len(stack[u])
    /\ Tracks(stack[u][d]) => Paired(stack[u], pairing[u], d)

LEMMA TrackedBefore ==
    ASSUME TypeInv, UNCHANGED <<cfg, step>>, counters' \in [Ops -> Nat],
           \A o \in Ops : counters'[o] >= counters[o],
           NEW u \in Threads, NEW d, stack'[u][d] \in Frame, Tracks(stack[u][d])',
           NEW f, f = stack'[u][d]
    PROVE  Tracks(f)
<1>1. Tracks(f)'
  BY DEF Tracks, Wants, WantsOutput, Writing, ShouldDump, CheckLimits, InRange
<1> QED BY <1>1, TracksLess

LEMMA SameTracks ==
    ASSUME NEW f, NEW g, SameCall(f, g), Tracks(f) PROVE Tracks(g)
BY DEF SameCall, Tracks, Wants, WantsOutput

(* A thread whose calls and pairings stay as they are.                     *)
LEMMA OthersPaired ==
    ASSUME FiledInv, UNCHANGED <<cfg, step>>, counters' \in [Ops -> Nat],
           \A o \in Ops : counters'[o] >= counters[o],
           NEW u \in Threads, stack'[u] = stack[u], pairing'[u] = pairing[u]
    PROVE  ThreadPaired(u)'
<1> SUFFICES ASSUME NEW d \in 1 .. Len(stack'[u])
             PROVE  /\ stack'[u][d].op \notin Managed => d = Len(stack'[u])
                    /\ Tracks(stack[u][d])' => Paired(stack'[u], pairing'[u], d)
  BY DEF ThreadPaired, Paired, Inside
<1>1. stack[u][d] \in Frame
  BY ElementOfSeq DEF FiledInv, TypeInv, TypeOK
<1>2. Tracks(stack[u][d])' => Tracks(stack[u][d])
  BY <1>1, TrackedBefore DEF FiledInv
<1> QED BY <1>2 DEF FiledInv, PairInv

LEMMA EnterFiled ==
    ASSUME FiledInv, NEW t \in Threads, NEW o \in Ops,
           CallManaged(t, o) \/ (t = Main /\ CallAten(o))
    PROVE  PairInv' /\ OutputsFiledWithInputs'
<1> DEFINE call == [step |-> step, num |-> counters[o] + 1]
           s == stack[t]
           n == Len(stack[t])
<1>1. /\ call \in Call /\ call.num = counters[o] + 1 /\ call.num # 0
      /\ NoCall \in Call
  BY CallType DEF FiledInv, TypeInv, TypeOK, NoCall, Call
<1>2. /\ DumpInput(t, o) \/ Filtered(t, o)
      /\ UNCHANGED <<configVars, fileVars, entered, step, phase>>
      /\ phase = "run" /\ (s # <<>> => Last(s).op \in Managed)
  BY DEF CallManaged, CallAten, Enter, MayEnter
<1>3. /\ n \in Nat /\ s \in Seq(Frame) /\ (n # 0 => s[n].op \in Managed)
  <2>1. s \in Seq(Frame) /\ n \in Nat
    BY LenProperties DEF FiledInv, TypeInv, TypeOK
  <2> QED BY <1>2, <2>1 DEF Last
<1>4. \A d \in 1 .. n : s[d].op \in Managed /\ s[d] \in Frame
  <2>1. \A d \in 1 .. n : s[d].op \notin Managed => d = n
    BY DEF FiledInv, PairInv
  <2> QED BY <1>3, <2>1, ElementOfSeq
<1>5. \A o1 \in Ops : counters'[o1] >= counters[o1] /\ counters' \in [Ops -> Nat]
  <2>1. counters' \in [Ops -> Nat] /\ counters \in [Ops -> Nat]
    BY EnterType DEF FiledInv, TypeInv, TypeOK
  <2>2. CASE DumpInput(t, o)
    BY <1>1, <2>1, <2>2 DEF DumpInput
  <2>3. CASE Filtered(t, o)
    BY <2>1, <2>3 DEF Filtered
  <2> QED BY <1>2, <2>2, <2>3
<1>6. UNCHANGED <<cfg, step>>
  BY <1>2 DEF configVars
<1>7. \A u \in Threads \ {t} : ThreadPaired(u)'
  <2> SUFFICES ASSUME NEW u \in Threads \ {t} PROVE ThreadPaired(u)'
    OBVIOUS
  <2>1. stack'[u] = stack[u] /\ pairing'[u] = pairing[u]
    BY <1>2 DEF DumpInput, Filtered, Push, FiledInv, TypeInv, TypeOK
  <2> QED BY <1>5, <1>6, <2>1, OthersPaired
<1>8. PICK c \in Call :
         LET f == [op |-> o, own |-> c, astray |-> FALSE]
         IN  \/ Push(t, f) /\ c = call /\ Remembers(t, o, c)
             \/ Strays(t, f, o) /\ pairing' = pairing
             \/ Push(t, f) /\ Filtered(t, o) /\ c = NoCall
  <2>1. CASE DumpInput(t, o)
    <3> DEFINE f == [op |-> o, own |-> call, astray |-> FALSE]
    <3>1. \/ Push(t, f) /\ Remembers(t, o, call)
          \/ Strays(t, f, o) /\ pairing' = pairing
      BY <2>1 DEF DumpInput, Strays, Remembers
    <3> HIDE DEF call
    <3> QED BY <1>1, <3>1
  <2>2. CASE Filtered(t, o)
    <3>1. Push(t, [op |-> o, own |-> NoCall, astray |-> FALSE])
      BY <2>2 DEF Filtered
    <3> QED BY <1>1, <2>2, <3>1
  <2> QED BY <1>2, <2>1, <2>2
<1> DEFINE f == [op |-> o, own |-> c, astray |-> FALSE]
<1>9. /\ Len(stack'[t]) = n + 1
      /\ stack'[t][n + 1].op = o /\ stack'[t][n + 1].own = c
      /\ \A d \in 1 .. n : SameCall(stack'[t][d], s[d])
      /\ \A d \in 1 .. n + 1 : stack'[t][d] \in Frame
      /\ Strays(t, f, o) => \A d \in 1 .. n + 1 :
            stack'[t][d].op = o => stack'[t][d].astray
  <2>1. f \in Frame /\ f.op = o /\ f.own = c
    BY FrameType
  <2>2. Push(t, f) \/ Strays(t, f, o)
    BY <1>8
  <2> HIDE DEF f
  <2>3. /\ stack' \in [Threads -> Seq(Frame)] /\ Len(stack'[t]) = n + 1
        /\ \A d \in 1 .. n : SameCall(stack'[t][d], s[d])
        /\ SameCall(stack'[t][n + 1], f)
        /\ Strays(t, f, o) => \A d \in 1 .. Len(stack'[t]) :
              stack'[t][d].op = o => stack'[t][d].astray
    BY <2>1, <2>2, PushType DEF FiledInv
  <2>4. stack'[t][n + 1].op = o /\ stack'[t][n + 1].own = c
    BY <2>1, <2>3 DEF SameCall
  <2> QED BY <2>3, <2>4, ElementOfSeq
<1>10. ASSUME NEW d \in 1 .. n, Tracks(stack[t][d])'
       PROVE  Tracks(s[d]) /\ Paired(s, pairing[t], d)
  <2>1. stack'[t][d] \in Frame /\ SameCall(stack'[t][d], s[d])
    BY <1>3, <1>9
  <2> DEFINE g == stack'[t][d]
  <2>2. Tracks(g)
    BY <1>5, <1>6, <1>10, <2>1, TrackedBefore DEF FiledInv
  <2> HIDE DEF g
  <2>3. SameCall(g, s[d])
    BY <2>1 DEF g
  <2>4. Tracks(s[d])
    BY <2>2, <2>3, SameTracks
  <2> QED BY <2>4 DEF FiledInv, PairInv
<1>11. \A d \in 1 .. n : \A p \in Ops :
          Cardinality(Inside(stack'[t], p, d))
             = IF p = o THEN Cardinality(Inside(s, p, d)) + 1
                        ELSE Cardinality(Inside(s, p, d))
  <2> SUFFICES ASSUME NEW d \in 1 .. n, NEW p \in Ops
               PROVE  Cardinality(Inside(stack'[t], p, d))
                        = IF p = o THEN Cardinality(Inside(s, p, d)) + 1
                                   ELSE Cardinality(Inside(s, p, d))
    OBVIOUS
  <2> DEFINE q == stack'[t]
  <2>1. /\ Len(s) \in Nat /\ Len(q) = Len(s) + 1 /\ q[Len(q)].op = o
        /\ \A i \in 1 .. Len(s) : q[i].op = s[i].op
    BY <1>3, <1>9 DEF SameCall
  <2> HIDE DEF q, s
  <2>2. Cardinality(Inside(q, p, d))
          = IF q[Len(q)].op = p THEN Cardinality(Inside(s, p, d)) + 1
                                ELSE Cardinality(Inside(s, p, d))
    <3>1. d \in 1 .. Len(s)
      BY DEF s
    <3> QED BY <2>1, <3>1, InsideMore, ZenonT(60)
  <2>3. Cardinality(Inside(q, p, d)) = IF p = o THEN Cardinality(Inside(s, p, d)) + 1
                                                ELSE Cardinality(Inside(s, p, d))
    BY <2>1, <2>2
  <2> QED BY <2>3 DEF q
<1>12. \A d \in 1 .. n : \A p \in Ops : Cardinality(Inside(s, p, d)) \in Nat
  BY <1>3, InsideFinite
<1>13. \A d \in 1 .. n : stack'[t][d].op \in Ops /\ stack'[t][d].op = s[d].op
                         /\ stack'[t][d].own = s[d].own
  BY <1>3, <1>9, SMTT(30) DEF Frame, SameCall
<1>14. ASSUME NEW d \in 1 .. n + 1, Tracks(stack[t][d])'
       PROVE  Paired(stack'[t], pairing'[t], d)
  <2>1. CASE c = call /\ Remembers(t, o, c)
    <3> DEFINE m == Len(pairing[t][o])
    <3>1. Remembers(t, o, c) /\ c.num # 0
      BY <1>1, <2>1
    <3>2. /\ \A u \in Threads, p \in Ops :
                 <<u, p>> # <<t, o>> => pairing'[u][p] = pairing[u][p]
          /\ m \in Nat /\ Len(pairing'[t][o]) = m + 1
          /\ \A i \in 1 .. m : pairing'[t][o][i] = pairing[t][o][i]
          /\ pairing'[t][o][m + 1] = c
      <4>1. TypeInv
        BY DEF FiledInv
      <4> HIDE DEF call, s, n, m
      <4>2. /\ \A u \in Threads, p \in Ops :
                  <<u, p>> # <<t, o>> => pairing'[u][p] = pairing[u][p]
            /\ Len(pairing[t][o]) \in Nat
            /\ Len(pairing'[t][o]) = Len(pairing[t][o]) + 1
            /\ \A i \in 1 .. Len(pairing[t][o]) :
                  pairing'[t][o][i] = pairing[t][o][i]
            /\ pairing'[t][o][Len(pairing[t][o]) + 1] = c
        BY <3>1, <4>1, PairType
      <4> QED BY <4>2 DEF m
    <3>3. CASE d = n + 1
      <4>1. Cardinality(Inside(stack'[t], o, d)) = 0
        BY <1>3, <1>9, <3>3, NothingInside
      <4>2. Len(pairing'[t][o]) - Cardinality(Inside(stack'[t], o, d)) = m + 1
        BY <3>2, <4>1
      <4>3. m + 1 >= 1 /\ stack'[t][d].op = o /\ stack'[t][d].own = c
        BY <1>9, <3>2, <3>3
      <4> QED BY <3>2, <4>2, <4>3 DEF Paired
    <3>4. CASE d \in 1 .. n /\ s[d].op = o
      <4> DEFINE k == m - Cardinality(Inside(s, o, d))
      <4>1. k >= 1 /\ pairing[t][o][k] = s[d].own
        BY <1>10, <1>14, <3>4 DEF Paired
      <4>2. k \in 1 .. m
        BY <1>12, <3>2, <3>4, <4>1
      <4>3. (m + 1) - Cardinality(Inside(stack'[t], o, d)) = k
        <5> DEFINE in == Cardinality(Inside(s, o, d))
        <5>1. Cardinality(Inside(stack'[t], o, d)) = in + 1 /\ in \in Nat /\ m \in Nat
          BY <1>11, <1>12, <3>2, <3>4
        <5> HIDE DEF in, m
        <5>2. (m + 1) - (in + 1) = m - in
          BY <5>1
        <5> QED BY <5>1, <5>2 DEF in
      <4>4. pairing'[t][o][k] = stack'[t][d].own /\ stack'[t][d].op = o
        BY <1>13, <3>2, <3>4, <4>1, <4>2
      <4> QED BY <3>2, <4>1, <4>3, <4>4 DEF Paired
    <3>5. CASE d \in 1 .. n /\ s[d].op # o
      <4> DEFINE p == s[d].op
      <4>1. p \in Ops /\ p # o /\ stack'[t][d].op = p /\ stack'[t][d].own = s[d].own
        BY <1>13, <3>5
      <4>2. pairing'[t][p] = pairing[t][p]
        BY <3>2, <4>1
      <4>3. Cardinality(Inside(stack'[t], p, d)) = Cardinality(Inside(s, p, d))
        BY <1>11, <3>5, <4>1
      <4>4. Paired(s, pairing[t], d)
        BY <1>10, <1>14, <3>5
      <4> QED BY <4>1, <4>2, <4>3, <4>4 DEF Paired
    <3> QED BY <1>3, <3>3, <3>4, <3>5
  <2>2. ASSUME pairing' = pairing, stack'[t][d].op = o => ~Tracks(stack[t][d])'
        PROVE  Paired(stack'[t], pairing'[t], d)
    <3>1. d \in 1 .. n /\ s[d].op # o /\ stack'[t][d].op = s[d].op
      BY <1>3, <1>9, <1>13, <1>14, <2>2
    <3> DEFINE p == s[d].op
    <3>2. Cardinality(Inside(stack'[t], p, d)) = Cardinality(Inside(s, p, d))
      BY <1>11, <1>13, <3>1
    <3>3. Paired(s, pairing[t], d)
      BY <1>10, <1>14, <3>1
    <3> QED BY <1>13, <2>2, <3>1, <3>2, <3>3 DEF Paired
  <2>3. CASE Strays(t, f, o) /\ pairing' = pairing
    <3>1. stack'[t][d].op = o => stack'[t][d].astray
      BY <1>9, <2>3
    <3>2. stack'[t][d].op = o => ~Tracks(stack[t][d])'
      BY <3>1 DEF Tracks
    <3> QED BY <2>2, <2>3, <3>2
  <2>4. CASE Filtered(t, o) /\ c = NoCall
    <3>1. UNCHANGED <<counters, pairing, jobs, dumped>>
      BY <2>4 DEF Filtered
    <3>2. o \in Managed => ~(ShouldDump(o) /\ Writing)
      <4>1. o \in Managed => (DumpInput(t, o) \/ ~(ShouldDump(o) /\ Writing))
        BY DumpAssumption DEF CallManaged, CallAten, Enter
      <4>2. ~DumpInput(t, o)
        BY <1>1, <2>4, <3>1 DEF DumpInput, FiledInv, TypeInv, TypeOK
      <4> QED BY <4>1, <4>2
    <3>3. stack'[t][d].op = o => ~Tracks(stack[t][d])'
      <4>1. CASE o \in Managed
        <5>1. ~(ShouldDump(o)' /\ Writing')
          BY <1>6, <3>1, <3>2, <4>1 DEF ShouldDump, CheckLimits, InRange, Writing
        <5> QED BY <4>1, <5>1 DEF Tracks, Wants, WantsOutput, Writing, ShouldDump,
                                  CheckLimits, InRange
      <4>2. CASE o \notin Managed
        <5>1. stack'[t][d].op = o => d = n + 1
          BY <1>3, <1>4, <1>13, <4>2
        <5> QED BY <1>9, <2>4, <4>2, <5>1 DEF Tracks, Wants, WantsOutput
      <4> QED BY <4>1, <4>2
    <3> QED BY <2>2, <3>1, <3>3
  <2> QED BY <1>8, <2>1, <2>3, <2>4
<1>15. ThreadPaired(t)'
  <2>1. ASSUME NEW d \in 1 .. n + 1 PROVE stack'[t][d].op \notin Managed => d = n + 1
    <3>1. CASE d \in 1 .. n
      <4>1. stack'[t][d].op = s[d].op
        BY <1>9, <3>1 DEF SameCall
      <4> QED BY <1>4, <3>1, <4>1
    <3>2. CASE d = n + 1
      BY <3>2
    <3> QED BY <1>3, <3>1, <3>2
  <2> QED BY <1>9, <1>14, <2>1 DEF ThreadPaired, Paired, Inside
<1>16. PairInv'
  <2>1. \A u \in Threads : ThreadPaired(u)'
    BY <1>7, <1>15
  <2> QED BY <1>2, <2>1 DEF PairInv, ThreadPaired
<1>17. OutputsFiledWithInputs'
  <2> DEFINE g == [op |-> o, own |-> call, astray |-> FALSE]
  <2>1. CASE UNCHANGED jobs
    BY <2>1 DEF FiledInv, OutputsFiledWithInputs
  <2>2. CASE Submit("in", call, g)
    <3>1. g \in Frame /\ g.own = call
      BY <1>1, FrameType
    <3> HIDE DEF call, g
    <3>2. /\ Len(jobs') = Len(jobs) + 1
          /\ jobs'[Len(jobs) + 1].call = call /\ jobs'[Len(jobs) + 1].own = call
          /\ \A i \in 1 .. Len(jobs) : jobs'[i] = jobs[i]
      BY <1>1, <2>2, <3>1, SubmitType DEF FiledInv
    <3>3. Len(jobs) \in Nat
      BY LenProperties DEF FiledInv, TypeInv, TypeOK
    <3> QED BY <3>2, <3>3 DEF FiledInv, OutputsFiledWithInputs
  <2> QED BY <1>2, <2>1, <2>2 DEF DumpInput, Filtered
<1> QED BY <1>16, <1>17

LEMMA LeaveFiled ==
    ASSUME FiledInv, NEW t \in Threads, Return(t) \/ Raise(t)
    PROVE  PairInv' /\ OutputsFiledWithInputs'
<1> DEFINE s == stack[t]
           n == Len(stack[t])
           f == Last(stack[t])
<1>1. /\ s # <<>> /\ stack' = [stack EXCEPT ![t] = Front(@)]
      /\ UNCHANGED <<configVars, fileVars, counters, entered, step, phase>>
      /\ phase = "run"
  BY DEF Return, Raise
<1>2. /\ n \in Nat \ {0} /\ Len(stack'[t]) = n - 1 /\ f \in Frame
      /\ \A d \in 1 .. n - 1 : stack'[t][d] = s[d]
      /\ \A u \in Threads \ {t} : stack'[u] = stack[u]
  BY <1>1, PopType DEF FiledInv
<1>3. \A d \in 1 .. n : s[d] \in Frame /\ (s[d].op \notin Managed => d = n)
  BY ElementOfSeq DEF FiledInv, PairInv, TypeInv, TypeOK
<1>4. f = s[n] /\ f.op \in Ops
  BY <1>2 DEF Last, Frame
<1>5. UNCHANGED <<cfg, step>> /\ counters' = counters
  BY <1>1 DEF configVars
<1>6. /\ counters' \in [Ops -> Nat] /\ \A o \in Ops : counters'[o] >= counters[o]
  BY <1>5 DEF FiledInv, TypeInv, TypeOK
<1>7. /\ \/ PopPairing(t, f.op)
         \/ pairing' = pairing /\ (f.op \in Managed => ~Wants(f))
  <2>1. CASE Return(t)
    BY <2>1 DEF Return, DumpOutput, Wants
  <2>2. CASE Raise(t)
    BY <2>2 DEF Raise
  <2> QED BY <2>1, <2>2
<1>8. /\ \A u \in Threads, p \in Ops :
            <<u, p>> # <<t, f.op>> => pairing'[u][p] = pairing[u][p]
      /\ pairing' \in [Threads -> [Ops -> Seq(Call)]]
  <2>1. CASE PopPairing(t, f.op)
    BY <1>4, <2>1, PopPairingType, ZenonT(60) DEF FiledInv
  <2>2. CASE pairing' = pairing
    BY <2>2 DEF FiledInv, TypeInv, TypeOK
  <2> QED BY <1>7, <2>1, <2>2
<1>9. \A u \in Threads \ {t} : ThreadPaired(u)'
  <2> SUFFICES ASSUME NEW u \in Threads \ {t} PROVE ThreadPaired(u)'
    OBVIOUS
  <2>1. \A p \in Ops : pairing'[u][p] = pairing[u][p]
    BY <1>8
  <2>2. pairing'[u] = pairing[u]
    BY <1>8, <2>1 DEF FiledInv, TypeInv, TypeOK
  <2> QED BY <1>2, <1>5, <1>6, <2>2, OthersPaired
<1>10. ASSUME NEW d \in 1 .. n - 1, Tracks(stack[t][d])'
       PROVE  Paired(stack'[t], pairing'[t], d)
  <2> DEFINE o == s[d].op
             m == Len(pairing[t][o])
             out == Cardinality(Inside(stack'[t], o, d))
             k == m - Cardinality(Inside(s, o, d))
  <2>1. d \in 1 .. n /\ d # n
    BY <1>2
  <2>2. stack'[t][d] = s[d] /\ s[d] \in Frame /\ o \in Managed /\ o \in Ops
    BY <1>2, <1>3, <2>1 DEF Frame
  <2>3. Tracks(s[d])
    BY <1>5, <1>6, <1>10, <2>2, TrackedBefore DEF FiledInv
  <2>4. k >= 1 /\ pairing[t][o][k] = s[d].own
    BY <2>1, <2>3 DEF FiledInv, PairInv, Paired
  <2>5. /\ out \in Nat
        /\ Cardinality(Inside(s, o, d)) = IF f.op = o THEN out + 1 ELSE out
    <3> DEFINE q == stack'[t]
    <3>1. /\ Len(q) \in Nat /\ Len(s) = Len(q) + 1
          /\ \A i \in 1 .. Len(q) : s[i].op = q[i].op
          /\ s[Len(s)] = f /\ d \in 1 .. Len(q)
      BY <1>2, <1>4
    <3> HIDE DEF q, s, f, o
    <3>2. Cardinality(Inside(s, o, d)) = IF s[Len(s)].op = o
             THEN Cardinality(Inside(q, o, d)) + 1 ELSE Cardinality(Inside(q, o, d))
      BY <3>1, InsideMore
    <3>3. Cardinality(Inside(q, o, d)) \in Nat
      BY <3>1, InsideFinite
    <3> QED BY <3>1, <3>2, <3>3 DEF q
  <2>6. CASE f.op # o
    <3>1. pairing'[t][o] = pairing[t][o]
      BY <1>8, <2>2, <2>6
    <3> QED BY <2>2, <2>4, <2>5, <2>6, <3>1 DEF Paired
  <2>7. CASE f.op = o
    <3>1. Wants(f)
      BY <2>2, <2>3, <2>7 DEF Tracks, Wants, WantsOutput
    <3>2. PopPairing(t, o)
      BY <1>7, <2>2, <2>7, <3>1
    <3>3. pairing[t][o] # <<>>
      <4>1. pairing[t][o] = <<>> => m = 0
        BY EmptySeq
      <4> QED BY <2>4, <2>5, <2>7, <4>1
    <3>4. /\ m \in Nat \ {0} /\ Len(pairing'[t][o]) = m - 1
          /\ \A i \in 1 .. m - 1 : pairing'[t][o][i] = pairing[t][o][i]
      <4> HIDE DEF o, s, n, f
      <4>1. /\ Len(pairing[t][o]) \in Nat \ {0}
            /\ Len(pairing'[t][o]) = Len(pairing[t][o]) - 1
            /\ \A i \in 1 .. Len(pairing[t][o]) - 1 :
                  pairing'[t][o][i] = pairing[t][o][i]
        BY <2>2, <3>2, <3>3, PopPairingType, ZenonT(60) DEF FiledInv
      <4> QED BY <4>1
    <3>5. k = (m - 1) - out /\ k \in 1 .. m - 1
      <4>1. Cardinality(Inside(s, o, d)) = out + 1
        BY <2>5, <2>7
      <4> HIDE DEF m, out
      <4>2. k = m - (out + 1)
        BY <4>1, ZenonT(60)
      <4> HIDE DEF k
      <4> QED BY <2>4, <2>5, <3>4, <4>2
    <3>6. pairing'[t][o][k] = s[d].own
      BY <2>4, <3>4, <3>5
    <3>7. Len(pairing'[t][o]) - out = k
      BY <3>4, <3>5
    <3> HIDE DEF k
    <3> QED BY <2>2, <2>4, <3>6, <3>7 DEF Paired
  <2> QED BY <2>6, <2>7
<1>11. ThreadPaired(t)'
  <2>1. ASSUME NEW d \in 1 .. n - 1 PROVE stack'[t][d].op \in Managed
    BY <1>2, <1>3
  <2> QED BY <1>2, <1>10, <2>1 DEF ThreadPaired, Paired, Inside
<1>12. PairInv'
  <2>1. \A u \in Threads : ThreadPaired(u)'
    BY <1>9, <1>11
  <2> QED BY <1>1, <2>1 DEF PairInv, ThreadPaired
<1>13. OutputsFiledWithInputs'
  <2>1. CASE UNCHANGED jobs
    BY <2>1 DEF FiledInv, OutputsFiledWithInputs
  <2>2. CASE /\ Wants(f) /\ pairing[t][f.op] # <<>> /\ PopPairing(t, f.op)
             /\ Submit("out", Last(pairing[t][f.op]), f)
    <3> DEFINE call == Last(pairing[t][f.op])
    <3>1. Cardinality(Inside(s, f.op, n)) = 0
      BY <1>2, NothingInside
    <3>2. call \in Call /\ call.num # 0 /\ Len(pairing[t][f.op]) \in Nat
      BY <1>4, <2>2, PopPairingType, ZenonT(60) DEF FiledInv
    <3>3. f.astray \/ call = f.own
      <4>1. CASE ~f.astray
        <5>1. Paired(s, pairing[t], n)
          BY <1>2, <1>4, <2>2, <4>1 DEF FiledInv, PairInv, Tracks
        <5> QED BY <1>4, <3>1, <3>2, <5>1 DEF Paired, Last
      <4> QED BY <4>1
    <3> HIDE DEF call, f
    <3>4. /\ Len(jobs') = Len(jobs) + 1
          /\ \A i \in 1 .. Len(jobs) : jobs'[i] = jobs[i]
          /\ jobs'[Len(jobs) + 1].call = call /\ jobs'[Len(jobs) + 1].own = f.own
          /\ (f.astray => jobs'[Len(jobs) + 1].astray)
      BY <1>2, <2>2, <3>2, SubmitType DEF FiledInv, call
    <3>5. Len(jobs) \in Nat
      BY LenProperties DEF FiledInv, TypeInv, TypeOK
    <3> QED BY <3>3, <3>4, <3>5 DEF FiledInv, OutputsFiledWithInputs
  <2>3. CASE Return(t)
    BY <2>1, <2>2, <2>3 DEF Return, DumpOutput, Wants
  <2>4. CASE Raise(t)
    BY <2>1, <2>4 DEF Raise
  <2> QED BY <2>3, <2>4
<1> QED BY <1>12, <1>13

LEMMA PairKept ==
    ASSUME FiledInv, UNCHANGED <<cfg, step, counters, stack, pairing, phase>>
    PROVE  PairInv'
<1>1. /\ counters' \in [Ops -> Nat] /\ \A o \in Ops : counters'[o] >= counters[o]
  BY DEF FiledInv, TypeInv, TypeOK
<1>2. \A u \in Threads : ThreadPaired(u)'
  BY <1>1, OthersPaired
<1> QED BY <1>2 DEF FiledInv, PairInv, ThreadPaired

LEMMA FiledStep ==
    ASSUME FiledInv, [Next]_vars PROVE FiledInv'
<1>1. TypeInv'
  BY StepTypes DEF FiledInv
<1>2. ASSUME NEW t \in Threads, NEW o \in Ops,
             CallManaged(t, o) \/ (t = Main /\ CallAten(o))
      PROVE  FiledInv'
  BY <1>1, <1>2, EnterFiled DEF FiledInv
<1>3. ASSUME NEW t \in Threads, Return(t) \/ Raise(t) PROVE FiledInv'
  BY <1>1, <1>3, LeaveFiled DEF FiledInv
<1>4. ASSUME NEW i \in 1 .. Workers, BgTask(i) PROVE FiledInv'
  <2>1. /\ i \in 1 .. Len(jobs) /\ jobs' = RemoveAt(jobs, i)
        /\ UNCHANGED <<configVars, callVars, entered, step, phase, dumped>>
    BY <1>4, BgFacts DEF FiledInv
  <2>2. \A j \in 1 .. Len(jobs') : \E k \in 1 .. Len(jobs) : jobs'[j] = jobs[k]
    BY <2>1, RemoveFacts DEF FiledInv, TypeInv, TypeOK
  <2>3. OutputsFiledWithInputs'
    BY <2>2 DEF FiledInv, OutputsFiledWithInputs
  <2>4. PairInv'
    BY <2>1, PairKept DEF configVars, callVars
  <2> QED BY <1>1, <2>3, <2>4 DEF FiledInv
<1>5. ASSUME UNCHANGED jobs, stack' = stack, \A t \in Threads : stack[t] = <<>>
      PROVE  FiledInv'
  <2>1. \A t \in Threads : Len(stack[t]) = 0
    BY <1>5, EmptySeq
  <2>2. PairInv'
    BY <1>5, <2>1 DEF PairInv
  <2> QED BY <1>1, <1>5, <2>2 DEF FiledInv, OutputsFiledWithInputs
<1>6. CASE AdvanceStep
  BY <1>5, <1>6 DEF AdvanceStep, Idle
<1>7. CASE FlushStep \/ FlushDisable
  BY <1>5, <1>7 DEF FlushStep, FlushDisable, FiledInv, PairInv, callVars
<1>8. CASE (\E api \in Apis : Enable(api)) \/ InitIODumpFromEnv
  BY <1>5, <1>8 DEF Enable, InitIODumpFromEnv, Idle, callVars
<1>9. CASE Disable
  BY <1>5, <1>9 DEF Disable, Idle, callVars
<1>10. CASE UNCHANGED vars
  BY <1>1, <1>10, PairKept DEF FiledInv, OutputsFiledWithInputs, vars, configVars,
                               callVars
<1> QED BY <1>2, <1>3, <1>4, <1>6, <1>7, <1>8, <1>9, <1>10, DumpAssumption DEF Next

LEMMA FiledInit == Init => FiledInv
<1> SUFFICES ASSUME Init PROVE FiledInv
  OBVIOUS
<1>1. Len(jobs) = 0 /\ \A t \in Threads : Len(stack[t]) = 0 /\ stack[t] = <<>>
  BY EmptySeq DEF Init, Empty
<1> QED BY <1>1, InitTypes DEF FiledInv, PairInv, OutputsFiledWithInputs

(* An output is filed under the step and the number of its own input,      *)
(* through nested calls, calls that raise, and limits that filter a call   *)
(* before or after the operator, in every thread, unless a hook of the     *)
(* same operator has failed to remember its call meanwhile.                *)
THEOREM OutputsAlwaysFiled == Spec => []OutputsFiledWithInputs
<1>1. FiledInv => OutputsFiledWithInputs
  BY DEF FiledInv
<1> QED BY <1>1, FiledInit, FiledStep, PTL DEF Spec

-----------------------------------------------------------------------------
(* CompleteUpToHole holds because every call that was handed over is in    *)
(* the queue, waits in its file's handle, has been counted past or has lost*)
(* its line, and because the handle never stops at a call that has come.   *)

Queued(f) == {jobs[i].call.num : i \in {j \in 1 .. Len(jobs) : jobs[j].file = f}}

Accounted(f) ==
    /\ handles[f] = {} => /\ dumped[f] \ lost[f] \subseteq Queued(f)
                          /\ Queued(f) \subseteq dumped[f]
    /\ \A h \in handles[f] :
          /\ h.next \notin h.pending
          /\ dumped[f] \ lost[f] \subseteq Queued(f) \cup h.pending \cup 1 .. h.next - 1
          /\ Queued(f) \cup h.pending \cup 1 .. h.next - 1 \subseteq dumped[f]

InputsCounted == \A o \in Ops :
    /\ \E k \in Nat : dumped[<<o, "in">>] = 1 .. k
    /\ phase # "step" => dumped[<<o, "in">>] = 1 .. counters[o]
    /\ phase = "step" => counters[o] = 0

FileInv == (\A f \in Files : Accounted(f)) /\ InputsCounted

CompleteInv == FiledInv /\ LineInv /\ FileInv

LEMMA AccountedKept ==
    ASSUME UNCHANGED <<handles, jobs, dumped, lost>>, NEW f, Accounted(f)
    PROVE  Accounted(f)'
<1>1. Queued(f)' = Queued(f)
  BY DEF Queued
<1> QED BY <1>1 DEF Accounted

LEMMA FilesKept ==
    ASSUME FileInv, UNCHANGED <<handles, jobs, dumped, lost, phase, counters>>
    PROVE  FileInv'
<1>1. \A f \in Files : Accounted(f)'
  BY AccountedKept DEF FileInv
<1>2. InputsCounted' <=> InputsCounted
  <2>1. dumped' = dumped /\ phase' = phase /\ counters' = counters
    OBVIOUS
  <2> QED BY <2>1 DEF InputsCounted
<1> QED BY <1>1, <1>2 DEF FileInv

(* Whatever is handed over is queued.                                      *)
LEMMA SubmitAccounted ==
    ASSUME FileInv, TypeInv, handles' = handles, lost' = lost, NEW io \in {"in", "out"},
           NEW call \in Call, NEW f \in Frame, call.num # 0, Submit(io, call, f)
    PROVE  \A g \in Files : Accounted(g)'
<1> DEFINE n == Len(jobs) + 1
           file == <<f.op, io>>
<1>1. /\ Len(jobs') = n /\ n - 1 = Len(jobs) /\ n \in Nat
      /\ \A i \in 1 .. Len(jobs) : jobs'[i] = jobs[i]
      /\ jobs'[n].file = IF call.step = step THEN file ELSE Elsewhere
      /\ jobs'[n].call = call
      /\ IF call.step = step THEN HandOver(file, call.num) ELSE dumped' = dumped
  BY SubmitType, LenProperties DEF TypeInv, TypeOK
<1>2. file \in Files /\ \A g \in Files : g # Elsewhere
  BY NotElsewhere DEF Files, Frame
<1>3. /\ \A i \in 1 .. Len(jobs') : i \in 1 .. Len(jobs) \/ i = n
      /\ \A i \in 1 .. Len(jobs) : i \in 1 .. Len(jobs')
      /\ n \in 1 .. Len(jobs')
  BY <1>1
<1> HIDE DEF file, n
<1>4. ASSUME NEW g \in Files PROVE Accounted(g)'
  <2>1. Accounted(g) /\ dumped \in [Files -> SUBSET Nat]
    BY DEF FileInv, TypeInv, TypeOK
  <2>2. ASSUME jobs'[n].file # g PROVE Queued(g)' = Queued(g)
    <3>1. \A x : x \in Queued(g)' <=> x \in Queued(g)
      BY <1>1, <1>3, <2>2 DEF Queued
    <3> QED BY <3>1
  <2>3. CASE call.step = step /\ g = file
    <3>1. Queued(g)' = Queued(g) \cup {call.num}
      <4>1. jobs'[n].file = g
        BY <1>1, <2>3
      <4>2. \A x : x \in Queued(g)' <=> x \in Queued(g) \cup {call.num}
        BY <1>1, <1>3, <4>1 DEF Queued
      <4> QED BY <4>2
    <3>2. dumped'[g] = dumped[g] \cup {call.num}
      BY <1>1, <2>1, <2>3 DEF HandOver
    <3> QED BY <2>1, <3>1, <3>2 DEF Accounted
  <2>4. CASE ~(call.step = step /\ g = file)
    <3>1. jobs'[n].file # g
      BY <1>1, <1>2, <2>4
    <3>2. dumped'[g] = dumped[g]
      BY <1>1, <2>1, <2>4 DEF HandOver
    <3> QED BY <2>1, <2>2, <3>1, <3>2 DEF Accounted
  <2> QED BY <2>3, <2>4
<1> QED BY <1>4

(* Handing over an output, and handing over the next input.                *)
LEMMA OutputHandedOver ==
    ASSUME FileInv, TypeInv, UNCHANGED <<handles, lost, phase, counters>>,
           NEW call \in Call, NEW f \in Frame, call.num # 0, Submit("out", call, f)
    PROVE  FileInv'
<1>1. dumped' = dumped \/ HandOver(<<f.op, "out">>, call.num)
  BY SubmitType
<1>2. \A p \in Ops : dumped'[<<p, "in">>] = dumped[<<p, "in">>]
  BY <1>1 DEF HandOver, TypeInv, TypeOK, Files
<1>3. InputsCounted' <=> InputsCounted
  <2>1. phase' = phase /\ counters' = counters
    OBVIOUS
  <2> QED BY <1>2, <2>1 DEF InputsCounted
<1>4. \A g \in Files : Accounted(g)'
  BY SubmitAccounted
<1> QED BY <1>3, <1>4 DEF FileInv

LEMMA InputHandedOver ==
    ASSUME FileInv, TypeInv, UNCHANGED <<handles, phase>>, phase = "run",
           NEW o \in Ops, NEW call \in Call, NEW f \in Frame,
           f.op = o, call.num = counters[o] + 1, call.step = step,
           \/ Submit("in", call, f) /\ lost' = lost
           \/ HandOver(<<o, "in">>, call.num) /\ Lose(<<o, "in">>, call.num) /\ jobs' = jobs,
           counters' = [counters EXCEPT ![o] = call.num]
    PROVE  FileInv'
<1>1. counters \in [Ops -> Nat] /\ call.num # 0
  BY DEF TypeInv, TypeOK
<1>2. HandOver(<<o, "in">>, call.num)
  BY <1>1, SubmitType
<1>3. /\ \A p \in Ops \ {o} : dumped'[<<p, "in">>] = dumped[<<p, "in">>]
      /\ dumped'[<<o, "in">>] = dumped[<<o, "in">>] \cup {call.num}
  BY <1>2 DEF HandOver, TypeInv, TypeOK, Files
<1>4. ASSUME NEW p \in Ops
      PROVE  dumped'[<<p, "in">>] = 1 .. counters'[p] /\ counters'[p] \in Nat
  <2>1. dumped[<<p, "in">>] = 1 .. counters[p]
    BY DEF FileInv, InputsCounted
  <2>2. CASE p # o
    BY <1>1, <1>3, <2>1, <2>2
  <2>3. CASE p = o
    <3> DEFINE n == counters[o]
    <3>1. n \in Nat /\ counters'[p] = n + 1 /\ call.num = n + 1
      BY <1>1, <2>3
    <3>2. dumped'[<<p, "in">>] = 1 .. n \cup {n + 1}
      BY <1>3, <2>1, <2>3, <3>1
    <3> HIDE DEF n
    <3>3. 1 .. n + 1 = 1 .. n \cup {n + 1}
      BY <3>1
    <3> QED BY <3>1, <3>2, <3>3
  <2> QED BY <2>2, <2>3
<1>5. InputsCounted'
  BY <1>4 DEF InputsCounted
<1>6. \A g \in Files : Accounted(g)'
  <2>1. CASE Submit("in", call, f) /\ lost' = lost
    BY <1>1, <2>1, SubmitAccounted
  <2>2. CASE /\ HandOver(<<o, "in">>, call.num) /\ Lose(<<o, "in">>, call.num)
             /\ jobs' = jobs
    <3> SUFFICES ASSUME NEW g \in Files PROVE Accounted(g)'
      OBVIOUS
    <3>1. Accounted(g) /\ handles' = handles /\ Queued(g)' = Queued(g)
      BY <2>2 DEF FileInv, Queued
    <3>2. \/ dumped'[g] = dumped[g] /\ lost'[g] = lost[g]
          \/ /\ dumped'[g] = dumped[g] \cup {call.num}
             /\ lost'[g] = lost[g] \cup {call.num}
      BY <2>2 DEF HandOver, Lose, TypeInv, TypeOK
    <3> QED BY <3>1, <3>2 DEF Accounted
  <2> QED BY <2>1, <2>2
<1> QED BY <1>5, <1>6 DEF FileInv

LEMMA BgCompletes ==
    ASSUME CompleteInv, NEW i \in 1 .. Workers, BgTask(i),
           NEW f, NEW num, f = jobs[i].file, num = jobs[i].call.num
    PROVE  FileInv'
<1>1. /\ i \in 1 .. Len(jobs) /\ jobs[i] \in Job /\ num \in Nat \ {0}
      /\ jobs' = RemoveAt(jobs, i) /\ jobs \in Seq(Job)
      /\ dumped' = dumped /\ phase' = phase /\ counters' = counters
      /\ BgSilent(i) \/ \E h \in Handle, L \in SUBSET Nat : \E w : BgWrites(i, h, w, L)
  BY BgFacts DEF CompleteInv, FiledInv, callVars
<1>2. /\ \A j \in 1 .. Len(jobs') : \E k \in 1 .. Len(jobs) : jobs'[j] = jobs[k]
      /\ \A k \in 1 .. Len(jobs) : k = i \/ \E j \in 1 .. Len(jobs') : jobs'[j] = jobs[k]
  <2> DEFINE r == RemoveAt(jobs, i)
  <2>1. /\ \A j \in 1 .. Len(r) : \E k \in 1 .. Len(jobs) : r[j] = jobs[k]
        /\ \A k \in 1 .. Len(jobs) : k = i \/ \E j \in 1 .. Len(r) : r[j] = jobs[k]
    BY <1>1, RemoveFacts
  <2>2. jobs' = r
    BY <1>1
  <2> HIDE DEF r
  <2> QED BY <2>1, <2>2
<1>3. ASSUME NEW g PROVE Queued(g)' \subseteq Queued(g)
  <2> SUFFICES ASSUME NEW x \in Queued(g)' PROVE x \in Queued(g)
    OBVIOUS
  <2>1. PICK j \in 1 .. Len(jobs') : jobs'[j].file = g /\ x = jobs'[j].call.num
    BY DEF Queued
  <2>2. PICK k \in 1 .. Len(jobs) : jobs'[j] = jobs[k]
    BY <1>2
  <2> QED BY <2>1, <2>2 DEF Queued
<1>4. ASSUME NEW g PROVE Queued(g) \subseteq Queued(g)' \cup (IF g = f THEN {num} ELSE {})
  <2> SUFFICES ASSUME NEW x \in Queued(g), x # num \/ g # f PROVE x \in Queued(g)'
    OBVIOUS
  <2>1. PICK k \in 1 .. Len(jobs) : jobs[k].file = g /\ x = jobs[k].call.num
    BY DEF Queued
  <2>2. k # i
    BY <2>1
  <2>3. PICK j \in 1 .. Len(jobs') : jobs'[j] = jobs[k]
    BY <1>2, <2>2
  <2>4. jobs'[j].file = g /\ jobs'[j].call.num = x
    BY <2>1, <2>3
  <2> QED BY <2>4 DEF Queued
<1>5. num \in Queued(f)
  BY <1>1 DEF Queued
<1>6. ASSUME NEW g \in Files, g # f, handles'[g] = handles[g], lost'[g] = lost[g]
      PROVE  Accounted(g)'
  <2>1. Queued(g)' = Queued(g) /\ dumped'[g] = dumped[g] /\ Accounted(g)
    <3>1. Queued(g)' \subseteq Queued(g)
      BY <1>3
    <3>2. Queued(g) \subseteq Queued(g)'
      BY <1>4, <1>6
    <3>3. Accounted(g)
      BY <1>6 DEF CompleteInv, FileInv
    <3> QED BY <1>1, <3>1, <3>2, <3>3
  <2> QED BY <1>6, <2>1 DEF Accounted
<1>7. CASE BgSilent(i)
  <2>1. \A g \in Files \ {f} : Accounted(g)'
    BY <1>6, <1>7 DEF BgSilent, fileVars, CompleteInv, FiledInv, TypeInv, TypeOK
  <2>2. ASSUME f \in Files PROVE Accounted(f)'
    <3>1. handles' = handles /\ lost'[f] = lost[f] \cup {num} /\ Accounted(f)
      BY <1>7, <2>2, NotElsewhere
         DEF BgSilent, fileVars, CompleteInv, FileInv, FiledInv, TypeInv, TypeOK, Files
    <3>2. Queued(f)' \subseteq Queued(f) /\ Queued(f) \subseteq Queued(f)' \cup {num}
      BY <1>3, <1>4
    <3> QED BY <1>1, <3>1, <3>2 DEF Accounted
  <2> QED BY <1>1, <2>1, <2>2 DEF FileInv, CompleteInv, InputsCounted
<1>8. ASSUME NEW h \in Handle, NEW w, NEW L \in SUBSET Nat, BgWrites(i, h, w, L)
      PROVE  FileInv'
  <2> DEFINE v == w.handle
             S == h.pending \cup {num}
  <2>1. /\ f \in Files
        /\ IF handles[f] = {} THEN h = NewHandle ELSE h \in handles[f]
        /\ handles' = [handles EXCEPT ![f] = {v}]
        /\ lost' = [lost EXCEPT ![f] = @ \cup L]
        /\ v \in Handle /\ v.next >= h.next /\ v.next \notin v.pending
        /\ h.next .. v.next - 1 \subseteq S /\ v.pending \subseteq S
        /\ S \ L \subseteq v.pending \cup h.next .. v.next - 1
    BY <1>8 DEF BgWrites, Keep, Leaves
  <2> HIDE DEF v
  <2>2. /\ handles'[f] = {v} /\ lost'[f] = lost[f] \cup L
        /\ \A g \in Files \ {f} : handles'[g] = handles[g] /\ lost'[g] = lost[g]
    BY <2>1 DEF CompleteInv, FiledInv, TypeInv, TypeOK
  <2>3. \A g \in Files \ {f} : Accounted(g)'
    BY <1>6, <2>2
  <2>4. /\ dumped[f] \ lost[f] \subseteq Queued(f) \cup h.pending \cup 1 .. h.next - 1
        /\ Queued(f) \cup h.pending \cup 1 .. h.next - 1 \subseteq dumped[f]
    <3>1. Accounted(f)
      BY <2>1 DEF CompleteInv, FileInv
    <3>2. CASE handles[f] = {}
      <4>1. h.pending = {} /\ 1 .. h.next - 1 = {}
        BY <2>1, <3>2 DEF NewHandle
      <4> QED BY <3>1, <3>2, <4>1 DEF Accounted
    <3>3. CASE handles[f] # {}
      BY <2>1, <3>1, <3>3 DEF Accounted
    <3> QED BY <3>2, <3>3
  <2>5. 1 .. v.next - 1 = 1 .. h.next - 1 \cup h.next .. v.next - 1
    <3>1. h.next \in Nat \ {0} /\ v.next \in Nat \ {0} /\ v.next >= h.next
      BY <2>1 DEF Handle
    <3> QED BY <3>1
  <2>6. Queued(f)' \subseteq Queued(f) /\ Queued(f) \subseteq Queued(f)' \cup {num}
    BY <1>3, <1>4
  <2>7. /\ dumped[f] \ (lost[f] \cup L) \subseteq Queued(f)' \cup v.pending \cup 1 .. v.next - 1
        /\ Queued(f)' \cup v.pending \cup 1 .. v.next - 1 \subseteq dumped[f]
    BY <1>5, <2>1, <2>4, <2>5, <2>6
  <2>8. Accounted(f)'
    BY <1>1, <2>1, <2>2, <2>7 DEF Accounted
  <2> QED BY <1>1, <2>3, <2>8 DEF FileInv, CompleteInv, InputsCounted
<1> QED BY <1>1, <1>7, <1>8

LEMMA CompleteStep ==
    ASSUME CompleteInv, [Next]_vars PROVE CompleteInv'
<1>1. FiledInv' /\ LineInv' /\ TypeInv /\ FileInv
  BY FiledStep, LineStep DEF CompleteInv, FiledInv
<1>2. ASSUME NEW t \in Threads, NEW o \in Ops,
             CallManaged(t, o) \/ (t = Main /\ CallAten(o))
      PROVE  FileInv'
  <2> DEFINE call == [step |-> step, num |-> counters[o] + 1]
             f == [op |-> o, own |-> call, astray |-> FALSE]
  <2>1. call \in Call /\ call.num = counters[o] + 1 /\ call.step = step
    BY <1>1, CallType
  <2>2. f \in Frame /\ f.op = o
    BY <2>1, FrameType
  <2>3. /\ UNCHANGED <<handles, phase>> /\ phase = "run"
        /\ \/ UNCHANGED <<jobs, dumped, lost, counters>>
           \/ /\ \/ Submit("in", call, f) /\ lost' = lost
                 \/ /\ HandOver(<<o, "in">>, call.num) /\ Lose(<<o, "in">>, call.num)
                    /\ jobs' = jobs
              /\ counters' = [counters EXCEPT ![o] = call.num]
    <3>1. CASE DumpInput(t, o)
      BY <1>2, <3>1 DEF CallManaged, CallAten, MayEnter, Enter, DumpInput, fileVars, faultVars
    <3>2. CASE Filtered(t, o)
      BY <1>2, <3>2 DEF CallManaged, CallAten, MayEnter, Enter, Filtered, fileVars, faultVars
    <3> QED BY <1>2, <3>1, <3>2 DEF CallManaged, CallAten, Enter
  <2> HIDE DEF call, f
  <2> QED BY <1>1, <2>1, <2>2, <2>3, FilesKept, InputHandedOver
<1>3. ASSUME NEW t \in Threads, Return(t) \/ Raise(t) PROVE FileInv'
  <2> DEFINE f == Last(stack[t])
  <2>1. f \in Frame /\ f.op \in Ops
    BY <1>1, <1>3, PopType DEF Return, Raise, Frame
  <2>2. /\ UNCHANGED <<handles, lost, phase, counters>>
        /\ \/ UNCHANGED <<jobs, dumped>>
           \/ /\ pairing[t][f.op] # <<>> /\ PopPairing(t, f.op)
              /\ Submit("out", Last(pairing[t][f.op]), f)
    BY <1>3 DEF Return, Raise, DumpOutput, fileVars, faultVars
  <2> HIDE DEF f
  <2>3. CASE UNCHANGED <<jobs, dumped>>
    BY <1>1, <2>2, <2>3, FilesKept
  <2>4. CASE /\ pairing[t][f.op] # <<>> /\ PopPairing(t, f.op)
             /\ Submit("out", Last(pairing[t][f.op]), f)
    <3>1. Last(pairing[t][f.op]) \in Call /\ Last(pairing[t][f.op]).num # 0
      BY <1>1, <2>1, <2>4, PopPairingType, ZenonT(60)
    <3> QED BY <1>1, <2>1, <2>2, <2>4, <3>1, OutputHandedOver
  <2> QED BY <2>2, <2>3, <2>4
<1>4. ASSUME NEW i \in 1 .. Workers, BgTask(i) PROVE FileInv'
  <2>1. PICK f, num : f = jobs[i].file /\ num = jobs[i].call.num
    OBVIOUS
  <2> QED BY <1>4, <2>1, BgCompletes
<1>5. ASSUME AdvanceStep PROVE FileInv'
  <2>1. /\ phase = "run" /\ phase' = "step" /\ counters' = [o \in Ops |-> 0]
        /\ UNCHANGED <<handles, jobs, dumped, lost>>
    BY <1>5 DEF AdvanceStep, Idle, fileVars, faultVars
  <2>2. InputsCounted'
    BY <1>1, <2>1 DEF FileInv, InputsCounted
  <2>3. \A f \in Files : Accounted(f)'
    BY <1>1, <2>1, AccountedKept DEF FileInv
  <2> QED BY <2>2, <2>3 DEF FileInv
<1>6. ASSUME FlushStep \/ FlushDisable PROVE FileInv'
  <2>1. /\ CloseOpenFiles /\ phase' = "run" /\ jobs = <<>> /\ jobs' = jobs
        /\ \A o \in Ops : counters'[o] = 0
    <3>1. CASE FlushStep
      BY <1>1, <3>1 DEF FlushStep, FileInv, InputsCounted, callVars
    <3>2. CASE FlushDisable
      BY <3>2 DEF FlushDisable
    <3> QED BY <1>6, <3>1, <3>2
  <2>2. /\ \A f \in Files : handles'[f] = {} /\ dumped'[f] = {}
        /\ \A o \in Ops : <<o, "in">> \in Files
    BY <2>1, ClosedType DEF Files
  <2>3. \A f \in Files : Queued(f)' = {}
    BY <2>1, EmptySeq DEF Queued
  <2>4. 1 .. 0 = {} /\ 0 \in Nat
    OBVIOUS
  <2>5. \A f \in Files : Accounted(f)'
    BY <2>2, <2>3 DEF Accounted
  <2>6. InputsCounted'
    BY <2>1, <2>2, <2>4 DEF InputsCounted
  <2> QED BY <2>5, <2>6 DEF FileInv
<1>7. ASSUME (\E api \in Apis : Enable(api)) \/ InitIODumpFromEnv \/ UNCHANGED vars
      PROVE  FileInv'
  <2>1. UNCHANGED <<handles, jobs, dumped, lost, phase, counters>>
    BY <1>7 DEF Enable, InitIODumpFromEnv, vars, fileVars, callVars, faultVars
  <2> QED BY <1>1, <2>1, FilesKept
<1>8. ASSUME Disable PROVE FileInv'
  <2>1. /\ UNCHANGED <<handles, jobs, dumped, lost, counters>>
        /\ phase = "run" /\ phase' = "disable"
    BY <1>8 DEF Disable, Idle, fileVars, callVars, faultVars
  <2>2. InputsCounted'
    BY <1>1, <2>1 DEF FileInv, InputsCounted
  <2>3. \A f \in Files : Accounted(f)'
    BY <1>1, <2>1, AccountedKept DEF FileInv
  <2> QED BY <2>2, <2>3 DEF FileInv
<1> QED BY <1>1, <1>2, <1>3, <1>4, <1>5, <1>6, <1>7, <1>8, DumpAssumption
        DEF Next, CompleteInv

LEMMA ClosedComplete ==
    ASSUME CompleteInv, Closing
    PROVE  /\ \A f \in Files :
                 /\ 1 .. Len(lines[f]) \subseteq dumped[f]
                 /\ Len(lines[f]) + 1 \notin dumped[f] \ lost[f]
           /\ \A o \in Ops : LET f == <<o, "in">> IN
                 lost[f] = {} => Len(lines[f]) = Cardinality(dumped[f])
<1>1. \A f \in Files : Queued(f) = {}
  BY EmptySeq DEF Closing, Queued
<1>2. ASSUME NEW f \in Files
      PROVE  /\ Len(lines[f]) \in Nat /\ 1 .. Len(lines[f]) \subseteq dumped[f]
             /\ Len(lines[f]) + 1 \notin dumped[f] \ lost[f]
  <2>0. Accounted(f) /\ Queued(f) = {}
    BY <1>1 DEF CompleteInv, FileInv
  <2>1. CASE handles[f] = {}
    <3>1. dumped[f] \ lost[f] = {} /\ Len(lines[f]) = 0
      BY <2>0, <2>1, EmptySeq DEF CompleteInv, Accounted, LineInv
    <3>2. 1 .. 0 = {}
      OBVIOUS
    <3> QED BY <3>1, <3>2
  <2>2. CASE handles[f] # {}
    <3>1. PICK h \in handles[f] : TRUE
      BY <2>2
    <3>2. h.next \in Nat \ {0} /\ h.pending \subseteq Nat \ {0}
      BY <3>1 DEF CompleteInv, FiledInv, TypeInv, TypeOK, Handle
    <3>3. /\ h.next \notin h.pending /\ lines[f] = Counted(1, h.next)
          /\ dumped[f] \ lost[f] \subseteq h.pending \cup 1 .. h.next - 1
          /\ 1 .. h.next - 1 \subseteq dumped[f]
      BY <2>0, <3>1 DEF CompleteInv, Accounted, LineInv
    <3>4. Len(lines[f]) = h.next - 1
      <4>1. 1 \in Nat /\ h.next \in Nat /\ 1 <= h.next
        BY <3>2
      <4>2. Len(Counted(1, h.next)) = h.next - 1
        BY <4>1, CountedFacts
      <4> QED BY <3>3, <4>2
    <3>5. Len(lines[f]) \in Nat /\ Len(lines[f]) + 1 = h.next
      BY <3>2, <3>4
    <3>6. h.next \notin 1 .. h.next - 1
      BY <3>2
    <3> QED BY <3>3, <3>4, <3>5, <3>6
  <2> QED BY <2>1, <2>2
<1>3. ASSUME NEW o \in Ops, NEW f, f = <<o, "in">>, lost[f] = {}
      PROVE  Len(lines[f]) = Cardinality(dumped[f])
  <2>1. PICK k \in Nat : dumped[f] = 1 .. k
    BY <1>3 DEF CompleteInv, FileInv, InputsCounted
  <2>2. f \in Files
    BY <1>3 DEF Files
  <2> DEFINE n == Len(lines[f])
  <2>3. n \in Nat /\ 1 .. n \subseteq 1 .. k /\ n + 1 \notin 1 .. k
    BY <1>2, <1>3, <2>1, <2>2
  <2> HIDE DEF n
  <2>4. n = k
    <3>1. n <= k
      <4>1. n = 0 \/ n \in 1 .. n
        BY <2>3
      <4> QED BY <2>3, <4>1
    <3>2. n >= k
      BY <2>3
    <3> QED BY <2>3, <3>1, <3>2
  <2>5. Cardinality(1 .. k) = k
    BY FS_Interval
  <2> QED BY <2>1, <2>4, <2>5 DEF n
<1> QED BY <1>2, <1>3

LEMMA CompleteInit == Init => CompleteInv
<1> SUFFICES ASSUME Init PROVE CompleteInv
  OBVIOUS
<1>1. LineInv
  BY DEF Init, LineInv, Empty
<1>2. Len(jobs) = 0
  BY EmptySeq DEF Init
<1>3. \A f \in Files : handles[f] = {} /\ dumped[f] = {} /\ Queued(f) = {}
  BY <1>2 DEF Init, Queued
<1>4. \A o \in Ops : <<o, "in">> \in Files /\ counters[o] = 0
  BY DEF Init, Files
<1>5. {} = 1 .. 0
  OBVIOUS
<1>6. FileInv
  <2>1. \A o \in Ops : dumped[<<o, "in">>] = 1 .. 0 /\ 0 = counters[o] /\ 0 \in Nat
    BY <1>3, <1>4, <1>5
  <2>2. phase = "run"
    BY DEF Init
  <2> QED BY <1>3, <2>1, <2>2 DEF FileInv, Accounted, InputsCounted
<1> QED BY <1>1, <1>6, FiledInit DEF CompleteInv

(* When a step or a session is closed, a file holds every line up to one   *)
(* that never came: the call was not to have one, or a failing hook or     *)
(* task, which the flush passes over, has swallowed it.  An input file that*)
(* lost no line holds every call.                                          *)
THEOREM FilesAlwaysComplete == Spec => []CompleteUpToHole
<1>1. CompleteInv => CompleteUpToHole
  BY ClosedComplete DEF CompleteUpToHole
<1> QED BY <1>1, CompleteInit, CompleteStep, PTL DEF Spec

-----------------------------------------------------------------------------
(* What a child process resolves.                                          *)

(* A child resolves what its parent wrote back to what it is from.         *)
LEMMA ReadBack ==
    ASSUME NEW e, TextLayer(e), NEW a, Layer(a),
           NEW c, c = EnableConfig(e, NoFile, a), c.dir \notin {"0", "1"},
           c.all \/ c.ops # {} \/ c.modules # {}
    PROVE  InitFromEnv(SetEnvVars(c), NoFile) = c
<1>1. PICK q, d : Full(q) /\ c = Apply(q, d) /\ ((d = "" /\ q.print) \/ d = q.dir)
  <2> DEFINE q == Over(Over(Over(Defaults, EnvLayer(e)), YamlLayer(NoFile)), ApiLayer(a))
  <2>1. Full(q)
    BY OverFull, DefaultsFull, LayersSay
  <2>2. \E d : EnableConfig(e, NoFile, a) = Apply(q, d) /\ ((d = "" /\ q.print) \/ d = q.dir)
    BY DEF EnableConfig
  <2> QED BY <2>1, <2>2
<1>0. c.all <=> q.ops = None /\ q.modules = None
  <2>1. Apply(q, d).all = (q.ops = None /\ q.modules = None)
    BY ApplyOn
  <2>2. c = Apply(q, d)
    BY <1>1
  <2> QED BY <2>1, <2>2, Zenon
<1>2. /\ c.dir = d
      /\ c.ops = IF q.ops = None THEN {} ELSE q.ops
      /\ c.modules = IF q.modules = None THEN {} ELSE q.modules
      /\ c.max = q.max /\ c.range = q.range
      /\ \A f \in Flags : c[f] = q[f]
  <2>1. c = Apply(q, d)
    BY <1>1
  <2>2. \A f \in Flags : Apply(q, d)[f] = q[f]
    BY ApplyFacts
  <2>3. \A f \in Flags : c[f] = q[f]
    BY <2>1, <2>2, Zenon
  <2>4. Apply(q, d).max = q.max /\ Apply(q, d).range = q.range
    BY ApplyFacts, Zenon
  <2>7. Apply(q, d).dir = d
    BY ApplyFacts
  <2>5. Apply(q, d).ops = IF q.ops = None THEN {} ELSE q.ops
    BY ApplyFacts
  <2>6. Apply(q, d).modules = IF q.modules = None THEN {} ELSE q.modules
    BY ApplyFacts
  <2> QED BY <2>1, <2>3, <2>4, <2>5, <2>6, <2>7, Zenon
<1>3. /\ q.dir # Unset /\ q.ops # Unset /\ q.modules # Unset /\ q.dir # ""
      /\ Settled(q) /\ Settled(c)
  BY <1>1, ApplySettled DEF Full, Fields
<1>4. PICK s : s = SetEnvVars(c)
  OBVIOUS
<1>5. /\ DOMAIN s = Fields
      /\ s.dir = IF c.dir = "" THEN Unset ELSE c.dir
      /\ s.ops = IF c.ops = {} THEN Unset ELSE c.ops
      /\ s.modules = IF c.modules = {} THEN Unset ELSE c.modules
      /\ s.max = IF c.max > 0 THEN c.max ELSE Unset
      /\ Parsed(s.range) = IF c.range = None THEN Unset ELSE c.range
  BY <1>3, <1>4, WriteBackFacts
<1>19. \A f \in Flags : s[f] = IF c[f] = TRUE THEN TRUE ELSE Unset
  BY <1>3, <1>4, WriteBackFlags
<1>6. s.dir \notin {"0", "1"}
  BY <1>5, UnsetAssumption
<1>7. /\ EnvLayer(s).dir = s.dir /\ EnvLayer(s).range = Parsed(s.range)
      /\ \A f \in {"ops", "modules", "max"} \cup Flags : EnvLayer(s)[f] = s[f]
  BY <1>5, <1>6 DEF EnvLayer, Fields, Flags
<1>8. PICK r : r = Over(Over(Defaults, EnvLayer(s)), YamlLayer(NoFile))
  OBVIOUS
<1>9. \A f \in Fields : r[f] = IF EnvLayer(s)[f] = Unset THEN Defaults[f] ELSE EnvLayer(s)[f]
  BY <1>8 DEF Over, YamlLayer, Silent
<1>10. r.ops = (IF c.ops = {} THEN None ELSE c.ops)
       /\ r.modules = (IF c.modules = {} THEN None ELSE c.modules)
  <2>1. Defaults.ops = None /\ Defaults.modules = None
    BY DEF Defaults
  <2>2. c.ops # {} => c.ops # Unset
    BY <1>2, <1>3
  <2>3. c.modules # {} => c.modules # Unset
    BY <1>2, <1>3
  <2> QED BY <1>5, <1>7, <1>9, <2>1, <2>2, <2>3 DEF Fields
<1>11. r.max = c.max /\ r.range = c.range
  <2>1. Defaults.max = 0 /\ Defaults.range = None
    BY DEF Defaults
  <2>2. c.max \in Nat /\ c.max # Unset
    BY <1>3, UnsetAssumption DEF Settled
  <2>3. c.range # None => c.range # Unset
    BY <1>1, <1>2 DEF Full, Fields
  <2>4. r.max = c.max
    <3>1. r.max = IF s.max = Unset THEN 0 ELSE s.max
      BY <1>7, <1>9, <2>1 DEF Fields
    <3>2. s.max = IF c.max > 0 THEN c.max ELSE Unset
      BY <1>5
    <3> QED BY <2>2, <3>1, <3>2
  <2>5. r.range = c.range
    BY <1>5, <1>7, <1>9, <2>1, <2>3 DEF Fields
  <2> QED BY <2>4, <2>5
<1>12. r.dir = (IF c.dir = "" THEN "cwd" ELSE c.dir)
  <2>1. Defaults.dir = "cwd"
    BY DEF Defaults
  <2>2. c.dir # Unset
    BY <1>1, <1>2, <1>3, UnsetAssumption
  <2> QED BY <1>5, <1>7, <1>9, <2>1, <2>2 DEF Fields
<1>13. \A f \in Flags : r[f] = c[f]
  <2> SUFFICES ASSUME NEW f \in Flags PROVE r[f] = c[f]
    OBVIOUS
  <2>1. Defaults[f] = FALSE
    BY DefaultsFlags
  <2>2. c[f] \in BOOLEAN
    BY <1>3 DEF Settled
  <2>3. r[f] = IF s[f] = Unset THEN FALSE ELSE s[f]
    <3>1. f \in Fields /\ f \in {"ops", "modules", "max"} \cup Flags
      BY DEF Fields, Flags
    <3> QED BY <1>7, <1>9, <2>1, <3>1, Zenon
  <2>4. s[f] = IF c[f] = TRUE THEN TRUE ELSE Unset
    BY <1>19
  <2>5. Unset # TRUE
    BY UnsetAssumption
  <2> QED BY <2>2, <2>3, <2>4, <2>5, Zenon
<1>14. c.dir = "" => s.print = TRUE /\ r.print = TRUE
  <2>1. "print" \in Flags
    BY DEF Flags
  <2>2. c.dir = "" => c.print = TRUE
    <3>1. c.dir = "" => q.print
      BY <1>1, <1>2, <1>3
    <3>2. c.print = q.print /\ q.print \in BOOLEAN
      BY <1>2, <1>3, <2>1 DEF Settled
    <3> QED BY <3>1, <3>2, Zenon
  <2> QED BY <1>13, <1>19, <2>1, <2>2, Zenon
<1>15. s.dir # "0" /\ Requested(s, NoFile)
  BY <1>1, <1>2, <1>3, <1>5, <1>6, <1>14, UnsetAssumption DEF Requested
<1>16. InitFromEnv(s, NoFile) = Apply(r, c.dir)
  <2> DEFINE named == s.dir # Unset \/ YamlDir(NoFile) \/ s.print # TRUE
  <2>1. InitFromEnv(s, NoFile) = Apply(r, IF r.print /\ ~named THEN "" ELSE r.dir)
    BY <1>8, <1>15 DEF InitFromEnv
  <2>2. CASE c.dir = ""
    <3>1. r.print /\ ~named
      BY <1>5, <1>14, <2>2 DEF YamlDir
    <3> QED BY <2>1, <2>2, <3>1
  <2>3. CASE c.dir # ""
    <3>1. named /\ r.dir = c.dir
      BY <1>1, <1>2, <1>3, <1>5, <1>12, <2>3, UnsetAssumption
    <3> QED BY <2>1, <3>1
  <2> QED BY <2>2, <2>3
<1>17. /\ (IF r.ops = None THEN {} ELSE r.ops) = c.ops
       /\ (IF r.modules = None THEN {} ELSE r.modules) = c.modules
       /\ (q.ops = None /\ q.modules = None) <=> (r.ops = None /\ r.modules = None)
  <2>1. c.ops # {} => c.ops # None
    BY <1>2
  <2>2. c.modules # {} => c.modules # None
    BY <1>2
  <2> QED BY <1>0, <1>2, <1>10, <2>1, <2>2
<1>18. Apply(r, c.dir) = c
  <2>1. c = [on |-> TRUE, dir |-> c.dir, all |-> q.ops = None /\ q.modules = None,
             ops |-> c.ops, modules |-> c.modules, max |-> c.max, range |-> c.range,
             values |-> c.values, metas |-> c.metas, print |-> c.print]
    BY <1>1, <1>2 DEF Apply, Flags
  <2>2. Apply(r, c.dir) = [on |-> TRUE, dir |-> c.dir, all |-> r.ops = None /\ r.modules = None,
             ops |-> c.ops, modules |-> c.modules, max |-> c.max, range |-> c.range,
             values |-> c.values, metas |-> c.metas, print |-> c.print]
    BY <1>11, <1>13, <1>17 DEF Apply, Flags
  <2>3. (q.ops = None /\ q.modules = None) = (r.ops = None /\ r.modules = None)
    BY <1>2, <1>17
  <2> QED BY <2>1, <2>2, <2>3, Zenon
<1> QED BY <1>4, <1>16, <1>18

(* What a step does to the settings.                                       *)
LEMMA SettingsStep ==
    ASSUME [Next]_vars
    PROVE  \/ UNCHANGED <<env, yaml, cfg>>
           \/ \E a \in Apis : Enable(a)
           \/ InitIODumpFromEnv \/ Disable \/ FlushDisable
<1>1. ASSUME NEW t \in Threads, NEW o \in Ops, CallManaged(t, o) \/ CallAten(o)
      PROVE  UNCHANGED <<env, yaml, cfg>>
  BY <1>1 DEF CallManaged, CallAten, Enter, configVars
<1>2. ASSUME NEW t \in Threads, Return(t) \/ Raise(t) PROVE UNCHANGED <<env, yaml, cfg>>
  BY <1>2 DEF Return, Raise, configVars
<1>3. ASSUME NEW i \in 1 .. Workers, BgTask(i) PROVE UNCHANGED <<env, yaml, cfg>>
  BY <1>3 DEF BgTask, BgComputeAndWrite, BgComputeRaises, BgWriteRaises, TaskEnds, configVars
<1>4. CASE AdvanceStep \/ FlushStep \/ UNCHANGED vars
  BY <1>4 DEF AdvanceStep, FlushStep, configVars, vars
<1> QED BY <1>1, <1>2, <1>3, <1>4, DumpAssumption DEF Next

InheritInv == TypeInv /\ "on" \in DOMAIN cfg /\ ChildInherits

LEMMA InheritStep ==
    ASSUME InheritInv, [Next]_vars PROVE InheritInv'
<1>1. TypeInv' /\ TypeInv
  BY StepTypes DEF InheritInv
<1>2. ASSUME UNCHANGED <<env, yaml, cfg>> PROVE ChildInherits'
  <2>1. env' = env /\ yaml' = yaml /\ cfg' = cfg
    BY <1>2
  <2> QED BY <2>1, Zenon DEF InheritInv, ChildInherits, Inheritable
<1>3. ASSUME NEW a \in Apis, Enable(a) PROVE ChildInherits'
  <2> SUFFICES ASSUME (cfg.on /\ Inheritable)' PROVE (InitFromEnv(env, yaml) = cfg)'
    BY Zenon DEF ChildInherits
  <2>1. yaml' = yaml /\ cfg' = EnableConfig(env, yaml, a) /\ env' = SetEnvVars(cfg')
    BY <1>3 DEF Enable
  <2>2. PICK c : c = cfg'
    OBVIOUS
  <2>3. yaml = NoFile
    BY <2>1 DEF Inheritable
  <2>4. c = EnableConfig(env, NoFile, a) /\ c.dir \notin {"0", "1"}
        /\ (c.all \/ c.ops # {} \/ c.modules # {})
    BY <2>1, <2>2, <2>3, Zenon DEF Inheritable
  <2>5. TextLayer(env) /\ Layer(a)
    BY <1>1, DumpAssumption DEF TypeInv, SettingsInv
  <2>6. InitFromEnv(SetEnvVars(c), NoFile) = c
    BY <2>4, <2>5, ReadBack
  <2> QED BY <2>1, <2>2, <2>3, <2>6, Zenon
<1>4. ASSUME InitIODumpFromEnv PROVE ChildInherits'
  <2>1. env' = env /\ yaml' = yaml /\ cfg' = InitFromEnv(env, yaml)
    BY <1>4 DEF InitIODumpFromEnv
  <2> QED BY <2>1, Zenon DEF ChildInherits
<1>5. ASSUME Disable \/ FlushDisable PROVE ChildInherits'
  <2>1. cfg' = [cfg EXCEPT !.on = FALSE] \/ cfg' = Off
    BY <1>5 DEF Disable, FlushDisable
  <2>3. ~cfg'.on
    BY <2>1, OffSettled DEF InheritInv
  <2> QED BY <2>3, Zenon DEF ChildInherits
<1>6. ChildInherits'
  BY <1>2, <1>3, <1>4, <1>5, SettingsStep
<1>7. ("on" \in DOMAIN cfg)'
  BY SettingsStep, OnThere DEF InheritInv, Enable, InitIODumpFromEnv, Disable, FlushDisable
<1> QED BY <1>1, <1>6, <1>7 DEF InheritInv

(* Whatever the environment said and the caller asked for, what a process  *)
(* writes back to the environment resolves, in the processes it starts, to *)
(* the settings it has itself.                                             *)
THEOREM ChildrenAlwaysInherit == Spec => []ChildInherits
<1>1. Init => InheritInv
  <2>1. Init => ~cfg.on /\ "on" \in DOMAIN cfg
    BY OffSettled, OnThere DEF Init
  <2> QED BY <2>1, InitTypes, Zenon DEF InheritInv, ChildInherits
<1>2. InheritInv => ChildInherits
  BY DEF InheritInv
<1> QED BY <1>1, <1>2, InheritStep, PTL DEF Spec
=============================================================================
