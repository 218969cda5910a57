------------------------ MODULE RunnerInputsProofs --------------------------
(***************************************************************************)
(* Proofs about what the runners of an engine compute from: the flattened  *)
(* inputs of any batch, that the inputs of the last rank are the requests' *)
(* own tokens (LastInv), in every mode, and that those of the first rank   *)
(* of a pipeline are (FrontInv).                                           *)
(***************************************************************************)
EXTENDS ModelRunnerProofs

-----------------------------------------------------------------------------
(* What the inputs of a step are, for any runner and any batch.            *)

\* The j-th token of a request as the CPU has it.
CpuToken(new, so, r, j) ==
    LET p   == so.req[r].computed + j - 1
        row == new.rows[r]
    IN CASE p < PromptLen -> <<r, p>>
         [] p >= PromptLen + Len(row) -> NoToken
         [] OTHER -> IF row[p - PromptLen + 1] = Hole THEN NoToken
                                                      ELSE <<r, row[p - PromptLen + 1]>>

LEMMA CpuTokensOf ==
    ASSUME NEW new, NEW so, NEW r
    PROVE  CpuTokens(new, so, r) = [j \in 1 .. so.req[r].n |-> CpuToken(new, so, r, j)]
BY DEF CpuTokens, CpuToken

(* A recursive function along 1 .. n exists.                               *)
Recursive(f, n, D, b, step) == /\ f \in [0 .. n -> D] /\ f[0] = b
                               /\ \A i \in 1 .. n : f[i] = step[<<i, f[i - 1]>>]

LEMMA RecursionExists ==
    ASSUME NEW n \in Nat, NEW D, NEW b \in D, NEW step \in [Nat \X D -> D]
    PROVE  \E f : Recursive(f, n, D, b, step)
<1> DEFINE is(f, m) == /\ f \in [0 .. m -> D] /\ f[0] = b
                       /\ \A i \in 1 .. m : f[i] = step[<<i, f[i - 1]>>]
           S == {m \in Nat : \E f : is(f, m)}
<1>1. 0 \in S
  <2>1. is([i \in {0} |-> b], 0)
    OBVIOUS
  <2> QED BY <2>1
<1>2. ASSUME NEW m \in Nat, m \in S PROVE m + 1 \in S
  <2>1. PICK f : is(f, m)
    BY <1>2
  <2> DEFINE v == step[<<m + 1, f[m]>>]
             g == [i \in 0 .. m + 1 |-> IF i = m + 1 THEN v ELSE f[i]]
  <2>2. v \in D
    <3>1. <<m + 1, f[m]>> \in Nat \X D
      BY <2>1
    <3> QED BY <3>1
  <2>3. g \in [0 .. m + 1 -> D] /\ g[0] = b /\ g[m + 1] = v /\ \A i \in 0 .. m : g[i] = f[i]
    BY <2>1, <2>2
  <2>4. ASSUME NEW i \in 1 .. m + 1 PROVE g[i] = step[<<i, g[i - 1]>>]
    <3> HIDE DEF g
    <3>1. i - 1 \in 0 .. m /\ (i = m + 1 \/ i \in 1 .. m)
      OBVIOUS
    <3>2. g[i - 1] = f[i - 1]
      BY <2>3, <3>1
    <3>3. CASE i = m + 1
      BY <2>3, <3>2, <3>3
    <3>4. CASE i \in 1 .. m
      <4>1. i \in 0 .. m
        BY <3>4
      <4> QED BY <2>1, <2>3, <3>2, <3>4, <4>1
    <3> QED BY <3>1, <3>3, <3>4
  <2> HIDE DEF g
  <2> QED BY <2>3, <2>4
<1> HIDE DEF S
<1>3. n \in S
  BY <1>1, <1>2, NatSteps
<1> QED BY <1>3 DEF S, Recursive

LEMMA CumSumFacts ==
    ASSUME NEW n \in Nat, NEW s \in [1 .. n -> Nat]
    PROVE  /\ CumSum(s)[0] = 0
           /\ \A i \in 0 .. n : CumSum(s)[i] \in Nat
           /\ \A i \in 1 .. n : CumSum(s)[i] = CumSum(s)[i - 1] + s[i]
<1> DEFINE step == [x \in Nat \X Nat |-> IF x[1] \in 1 .. n THEN x[2] + s[x[1]] ELSE 0]
           is(f) == f = [i \in 0 .. n |-> IF i = 0 THEN 0 ELSE f[i - 1] + s[i]]
<1>1. step \in [Nat \X Nat -> Nat]
  OBVIOUS
<1>2. PICK f \in [0 .. n -> Nat] :
         f[0] = 0 /\ \A i \in 1 .. n : f[i] = step[<<i, f[i - 1]>>]
  <2>1. \E f : Recursive(f, n, Nat, 0, step)
    <3> HIDE DEF step
    <3> QED BY <1>1, RecursionExists
  <2> QED BY <2>1 DEF Recursive
<1>3. is(f)
  <2>1. ASSUME NEW i \in 1 .. n PROVE f[i] = f[i - 1] + s[i]
    <3>1. <<i, f[i - 1]>> \in Nat \X Nat
      BY <1>2
    <3> QED BY <1>2, <3>1
  <2> QED BY <1>2, <2>1
<1>4. CumSum(s) = CHOOSE g : is(g)
  <2>1. Len(s) = n
    OBVIOUS
  <2> QED BY <2>1 DEF CumSum
<1>5. is(CumSum(s))
  <2> HIDE DEF is
  <2> QED BY <1>3, <1>4
<1> DEFINE c == CumSum(s)
<1>6. c[0] = 0 /\ \A i \in 1 .. n : c[i] = c[i - 1] + s[i]
  <2> HIDE DEF c
  <2>1. c = [i \in 0 .. n |-> IF i = 0 THEN 0 ELSE c[i - 1] + s[i]]
    BY <1>5 DEF c
  <2> QED BY <2>1
<1> HIDE DEF c
<1> DEFINE S == {m \in Nat : m <= n => c[m] \in Nat}
<1>7. 0 \in S
  BY <1>6
<1>8. ASSUME NEW m \in Nat, m \in S PROVE m + 1 \in S
  <2> SUFFICES ASSUME m + 1 <= n PROVE c[m + 1] \in Nat
    OBVIOUS
  <2>1. c[m] \in Nat /\ m + 1 \in 1 .. n /\ (m + 1) - 1 = m
    BY <1>8
  <2> QED BY <1>6, <2>1
<1>9. \A m \in Nat : m \in S
  <2> HIDE DEF S
  <2> QED BY <1>7, <1>8, NatSteps
<1> QED BY <1>6, <1>9 DEF c

(* The ends of the rows of a batch, and what lies between them.            *)
Ascending(e, n) == /\ e[0] = 0
                   /\ \A i \in 0 .. n : e[i] \in Nat
                   /\ \A i \in 1 .. n : e[i - 1] + 1 <= e[i]

LEMMA Ascends ==
    ASSUME NEW n \in Nat, NEW e, Ascending(e, n), NEW k \in 0 .. n, NEW l \in 0 .. n, k <= l
    PROVE  e[k] + (l - k) <= e[l]
<1> DEFINE S == {m \in Nat : k + m <= n => e[k] + m <= e[k + m]}
<1>1. 0 \in S
  BY DEF Ascending
<1>2. ASSUME NEW m \in Nat, m \in S PROVE m + 1 \in S
  <2> SUFFICES ASSUME k + (m + 1) <= n PROVE e[k] + (m + 1) <= e[k + (m + 1)]
    OBVIOUS
  <2>1. /\ e[k] + m <= e[k + m] /\ k + (m + 1) \in 1 .. n /\ (k + (m + 1)) - 1 = k + m
        /\ k + m \in 0 .. n /\ k + (m + 1) \in 0 .. n
    BY <1>2
  <2>2. e[k + m] + 1 <= e[k + (m + 1)] /\ e[k] \in Nat /\ e[k + m] \in Nat
        /\ e[k + (m + 1)] \in Nat
    BY <2>1 DEF Ascending
  <2> QED BY <2>1, <2>2
<1>3. l - k \in S /\ l - k \in Nat /\ k + (l - k) = l
  <2>1. l - k \in Nat /\ k + (l - k) = l
    OBVIOUS
  <2> HIDE DEF S
  <2> QED BY <1>1, <1>2, <2>1, NatSteps
<1> QED BY <1>3

LEMMA RowOfPlace ==
    ASSUME NEW n \in Nat, NEW e, Ascending(e, n), NEW f \in 1 .. e[n]
    PROVE  \E i \in 1 .. n : e[i - 1] < f /\ f <= e[i]
<1> DEFINE S == {m \in Nat : m <= n /\ f <= e[m]
                               => \E i \in 1 .. n : e[i - 1] < f /\ f <= e[i]}
<1>0. f \in Nat /\ f > 0 /\ e[n] \in Nat
  BY DEF Ascending
<1>1. 0 \in S
  BY <1>0 DEF Ascending
<1>2. ASSUME NEW m \in Nat, m \in S PROVE m + 1 \in S
  <2> SUFFICES ASSUME m + 1 <= n, f <= e[m + 1]
               PROVE  \E i \in 1 .. n : e[i - 1] < f /\ f <= e[i]
    OBVIOUS
  <2>1. m + 1 \in 1 .. n /\ (m + 1) - 1 = m /\ e[m] \in Nat
    BY DEF Ascending
  <2>2. CASE f <= e[m]
    BY <1>2, <2>2
  <2>3. CASE e[m] < f
    BY <2>1, <2>3
  <2> QED BY <1>0, <2>1, <2>2, <2>3
<1>3. n \in S
  <2> HIDE DEF S
  <2> QED BY <1>1, <1>2, NatSteps
<1> QED BY <1>0, <1>3

(* A concatenation has each part where the parts before it end.            *)
LaidUpTo(q, s, e, k) == /\ Len(q) = e[k]
                        /\ \A i \in 1 .. k : \A j \in 1 .. Len(s[i]) : q[e[i - 1] + j] = s[i][j]

LEMMA OnePartMore ==
    ASSUME NEW n \in Nat, NEW V, NEW s \in [1 .. n -> Seq(V)], NEW e, NEW q \in Seq(V),
           NEW k \in 1 .. n, LaidUpTo(q, s, e, k - 1), e[k] = e[k - 1] + Len(s[k]),
           \A i \in 1 .. k : e[i - 1] \in Nat /\ e[i - 1] + Len(s[i]) <= e[k]
                             /\ (i < k => e[i - 1] + Len(s[i]) <= e[k - 1])
    PROVE  q \o s[k] \in Seq(V) /\ LaidUpTo(q \o s[k], s, e, k)
<1>1. s[k] \in Seq(V) /\ Len(s[k]) \in Nat /\ Len(q) \in Nat /\ Len(q) = e[k - 1]
  BY DEF LaidUpTo
<1>2. /\ q \o s[k] \in Seq(V) /\ Len(q \o s[k]) = Len(q) + Len(s[k])
      /\ \A j \in 1 .. Len(q) : (q \o s[k])[j] = q[j]
      /\ \A j \in 1 .. Len(s[k]) : (q \o s[k])[Len(q) + j] = s[k][j]
  <2>1. /\ q \o s[k] \in Seq(V) /\ Len(q \o s[k]) = Len(q) + Len(s[k])
        /\ \A j \in 1 .. Len(q) + Len(s[k]) :
              (q \o s[k])[j] = IF j <= Len(q) THEN q[j] ELSE s[k][j - Len(q)]
    BY <1>1, ConcatProperties
  <2>2. \A j \in 1 .. Len(s[k]) : /\ Len(q) + j \in 1 .. Len(q) + Len(s[k])
                                  /\ ~(Len(q) + j <= Len(q)) /\ (Len(q) + j) - Len(q) = j
    BY <1>1, LenProperties
  <2>3. \A j \in 1 .. Len(q) : j \in 1 .. Len(q) + Len(s[k]) /\ j <= Len(q)
    BY <1>1, LenProperties
  <2> QED BY <2>1, <2>2, <2>3
<1> DEFINE z == q \o s[k]
<1> HIDE DEF z
<1>3. ASSUME NEW i \in 1 .. k, NEW j \in 1 .. Len(s[i]) PROVE z[e[i - 1] + j] = s[i][j]
  <2>1. i \in 1 .. n /\ s[i] \in Seq(V) /\ Len(s[i]) \in Nat /\ e[i - 1] \in Nat
    OBVIOUS
  <2>2. CASE i = k
    BY <1>1, <1>2, <2>2 DEF z
  <2>3. CASE i < k
    <3>0. e[i - 1] + Len(s[i]) <= Len(q) /\ e[i - 1] >= 0
      BY <1>1, <2>1, <2>3
    <3>1. i \in 1 .. k - 1 /\ e[i - 1] + j \in 1 .. Len(q)
      <4>1. i \in 1 .. k - 1
        BY <2>3
      <4>2. e[i - 1] + j \in Nat /\ e[i - 1] + j <= Len(q) /\ 1 <= e[i - 1] + j
        <5> DEFINE x == e[i - 1]
                   l == Len(s[i])
                   m == Len(q)
        <5>1. x \in Nat /\ l \in Nat /\ m \in Nat /\ j \in 1 .. l /\ x + l <= m
          BY <1>1, <2>1, <3>0
        <5> HIDE DEF x, l, m
        <5>2. x + j \in Nat /\ x + j <= m /\ 1 <= x + j
          BY <5>1
        <5> QED BY <5>2 DEF x, m
      <4> QED BY <1>1, <4>1, <4>2
    <3>2. q[e[i - 1] + j] = s[i][j]
      BY <3>1 DEF LaidUpTo
    <3> QED BY <1>2, <3>1, <3>2 DEF z
  <2> QED BY <2>2, <2>3
<1> QED BY <1>1, <1>2, <1>3 DEF z, LaidUpTo

LEMMA FlattenFacts ==
    ASSUME NEW n \in Nat, NEW V, NEW s \in [1 .. n -> Seq(V)], NEW e,
           e[0] = 0, \A i \in 0 .. n : e[i] \in Nat,
           \A i \in 1 .. n : e[i] = e[i - 1] + Len(s[i])
    PROVE  FlattenSeq(s) \in Seq(V) /\ LaidUpTo(FlattenSeq(s), s, e, n)
<1>1. Len(s) = n /\ \A i \in 1 .. n : s[i] \in Seq(V) /\ Len(s[i]) \in Nat /\ Len(s[i]) >= 0
  OBVIOUS
<1>2. CASE n = 0
  <2>1. FlattenSeq(s) = s /\ s = <<>>
    BY <1>1, <1>2 DEF FlattenSeq
  <2> QED BY <1>2, <2>1 DEF LaidUpTo
<1>3. CASE n > 0
  <2> DEFINE step == [x \in Nat \X Seq(V) |-> IF x[1] \in 1 .. n THEN x[2] \o s[x[1]] ELSE x[2]]
             is(g) == g = [i \in 1 .. n |-> IF i = 1 THEN s[i] ELSE g[i - 1] \o s[i]]
  <2>1. step \in [Nat \X Seq(V) -> Seq(V)]
    BY <1>1
  <2>2. PICK f : Recursive(f, n, Seq(V), <<>>, step)
    <3>1. <<>> \in Seq(V)
      OBVIOUS
    <3> HIDE DEF step
    <3> QED BY <2>1, <3>1, RecursionExists
  <2>3. /\ \A i \in 0 .. n : f[i] \in Seq(V)
        /\ f[0] = <<>> /\ \A i \in 1 .. n : f[i] = f[i - 1] \o s[i]
    <3>1. \A i \in 0 .. n : f[i] \in Seq(V)
      BY <2>2 DEF Recursive
    <3>2. ASSUME NEW i \in 1 .. n PROVE f[i] = f[i - 1] \o s[i]
      <4>1. <<i, f[i - 1]>> \in Nat \X Seq(V)
        BY <3>1
      <4> QED BY <2>2, <4>1 DEF Recursive
    <3> QED BY <2>2, <3>1, <3>2 DEF Recursive
  <2>4. is([i \in 1 .. n |-> f[i]])
    <3> DEFINE g == [i \in 1 .. n |-> f[i]]
    <3>1. ASSUME NEW i \in 1 .. n PROVE g[i] = IF i = 1 THEN s[i] ELSE g[i - 1] \o s[i]
      <4>1. CASE i = 1
        <5>1. 1 \in 1 .. n /\ 1 - 1 = 0
          BY <1>3
        <5>2. f[1] = <<>> \o s[1] /\ s[1] \in Seq(V)
          BY <1>1, <2>3, <5>1
        <5> QED BY <4>1, <5>1, <5>2
      <4>2. CASE i # 1
        <5>1. i - 1 \in 1 .. n
          BY <4>2
        <5> QED BY <2>3, <4>2, <5>1
      <4> QED BY <4>1, <4>2
    <3> QED BY <3>1
  <2> DEFINE g == CHOOSE g : is(g)
  <2>5. is(g)
    <3> HIDE DEF is
    <3> QED BY <2>4
  <2>6. FlattenSeq(s) = g[n]
    BY <1>1, <1>3 DEF FlattenSeq
  <2>7. g[1] = s[1] /\ \A i \in 2 .. n : g[i] = g[i - 1] \o s[i]
    <3> HIDE DEF g
    <3>1. g = [i \in 1 .. n |-> IF i = 1 THEN s[i] ELSE g[i - 1] \o s[i]]
      BY <2>5
    <3>2. 1 \in 1 .. n /\ \A i \in 2 .. n : i \in 1 .. n /\ i # 1
      BY <1>3
    <3> QED BY <3>1, <3>2
  <2> HIDE DEF g
  <2>8. ASSUME NEW i \in 0 .. n, NEW k \in 0 .. n, i <= k PROVE e[i] <= e[k]
    <3> DEFINE S == {m \in Nat : i + m <= n => e[i] <= e[i + m]}
    <3>1. 0 \in S
      OBVIOUS
    <3>2. ASSUME NEW m \in Nat, m \in S PROVE m + 1 \in S
      <4> SUFFICES ASSUME i + (m + 1) <= n PROVE e[i] <= e[i + (m + 1)]
        OBVIOUS
      <4>1. /\ e[i] <= e[i + m] /\ i + (m + 1) \in 1 .. n /\ (i + (m + 1)) - 1 = i + m
            /\ i + m \in 0 .. n /\ i + (m + 1) \in 0 .. n
        BY <3>2
      <4>2. e[i + (m + 1)] = e[i + m] + Len(s[i + (m + 1)])
        BY <4>1
      <4> QED BY <1>1, <4>1, <4>2
    <3>3. k - i \in S /\ k - i \in Nat /\ i + (k - i) = k
      <4>1. k - i \in Nat /\ i + (k - i) = k
        BY <2>8
      <4> HIDE DEF S
      <4> QED BY <3>1, <3>2, <4>1, NatSteps
    <3> QED BY <3>3
  <2>9. ASSUME NEW k \in 1 .. n, NEW i \in 1 .. k
        PROVE  e[i - 1] \in Nat /\ e[i - 1] + Len(s[i]) <= e[k]
               /\ (i < k => e[i - 1] + Len(s[i]) <= e[k - 1])
    <3>1. /\ i \in 1 .. n /\ i \in 0 .. n /\ i - 1 \in 0 .. n /\ k \in 0 .. n /\ i <= k
          /\ k - 1 \in 0 .. n
      OBVIOUS
    <3>2. e[i] = e[i - 1] + Len(s[i]) /\ e[i] <= e[k] /\ (i <= k - 1 => e[i] <= e[k - 1])
      BY <2>8, <3>1
    <3> QED BY <3>1, <3>2
  <2> DEFINE S == {m \in Nat : m + 1 <= n => g[m + 1] \in Seq(V) /\ LaidUpTo(g[m + 1], s, e, m + 1)}
  <2>10. 0 \in S
    <3>1. 1 \in 1 .. n /\ e[1] = e[0] + Len(s[1]) /\ s[1] \in Seq(V)
      BY <1>1, <1>3
    <3>2. LaidUpTo(s[1], s, e, 1)
      BY <1>1, <3>1 DEF LaidUpTo
    <3> QED BY <2>7, <3>1, <3>2
  <2>11. ASSUME NEW m \in Nat, m \in S PROVE m + 1 \in S
    <3> SUFFICES ASSUME (m + 1) + 1 <= n
                 PROVE  g[(m + 1) + 1] \in Seq(V) /\ LaidUpTo(g[(m + 1) + 1], s, e, (m + 1) + 1)
      OBVIOUS
    <3> DEFINE k == (m + 1) + 1
    <3>1. k \in 2 .. n /\ k \in 1 .. n /\ k - 1 = m + 1 /\ m + 1 <= n
      OBVIOUS
    <3>2. g[k - 1] \in Seq(V) /\ LaidUpTo(g[k - 1], s, e, k - 1)
      BY <2>11, <3>1
    <3>3. g[k] = g[k - 1] \o s[k] /\ e[k] = e[k - 1] + Len(s[k])
      BY <2>7, <3>1
    <3>4. \A i \in 1 .. k : e[i - 1] \in Nat /\ e[i - 1] + Len(s[i]) <= e[k]
                            /\ (i < k => e[i - 1] + Len(s[i]) <= e[k - 1])
      BY <2>9, <3>1
    <3> HIDE DEF k
    <3>5. g[k - 1] \o s[k] \in Seq(V) /\ LaidUpTo(g[k - 1] \o s[k], s, e, k)
      BY <3>1, <3>2, <3>3, <3>4, OnePartMore
    <3> QED BY <3>3, <3>5 DEF k
  <2>12. n - 1 \in S /\ n - 1 \in Nat /\ (n - 1) + 1 = n
    <3>1. n - 1 \in Nat /\ (n - 1) + 1 = n
      BY <1>3
    <3> HIDE DEF S
    <3> QED BY <2>10, <2>11, <3>1, NatSteps
  <2> QED BY <2>6, <2>12
<1> QED BY <1>2, <1>3

(* Rows of given lengths, one after the other.                             *)
RowsOfSize(s, l, n) == /\ l \in [1 .. n -> Nat] /\ s = [i \in 1 .. n |-> s[i]]
                       /\ \A i \in 1 .. n : s[i] = [j \in 1 .. l[i] |-> s[i][j]]
SumsOf(e, l, n) == /\ e[0] = 0 /\ \A i \in 0 .. n : e[i] \in Nat
                   /\ \A i \in 1 .. n : e[i] = e[i - 1] + l[i]
LaidOut(q, s, l, e, n) ==
    /\ q = [f \in 1 .. e[n] |-> q[f]]
    /\ \A i \in 1 .. n : \A j \in 1 .. l[i] : q[e[i - 1] + j] = s[i][j]

LEMMA FlattenedRows ==
    ASSUME NEW n \in Nat, NEW l, NEW s, NEW e, RowsOfSize(s, l, n), SumsOf(e, l, n)
    PROVE  LaidOut(FlattenSeq(s), s, l, e, n)
<1> DEFINE V == UNION {{s[i][j] : j \in 1 .. l[i]} : i \in 1 .. n}
<1>1. ASSUME NEW i \in 1 .. n PROVE s[i] \in Seq(V) /\ Len(s[i]) = l[i]
  <2>1. l[i] \in Nat /\ s[i] = [j \in 1 .. l[i] |-> s[i][j]]
    BY DEF RowsOfSize
  <2>2. \A j \in 1 .. l[i] : s[i][j] \in V
    OBVIOUS
  <2> HIDE DEF V
  <2>3. s[i] \in [1 .. l[i] -> V]
    BY <2>1, <2>2
  <2> QED BY <2>1, <2>3
<1>2. s \in [1 .. n -> Seq(V)]
  <2> HIDE DEF V
  <2> QED BY <1>1 DEF RowsOfSize
<1>3. /\ \A i \in 1 .. n : e[i] = e[i - 1] + Len(s[i])
      /\ e[0] = 0 /\ \A i \in 0 .. n : e[i] \in Nat
  BY <1>1 DEF SumsOf
<1> HIDE DEF V
<1>4. FlattenSeq(s) \in Seq(V) /\ LaidUpTo(FlattenSeq(s), s, e, n)
  BY <1>2, <1>3, FlattenFacts
<1> DEFINE q == FlattenSeq(s)
<1> HIDE DEF q
<1>5. q \in Seq(V) /\ Len(q) = e[n]
  BY <1>4 DEF q, LaidUpTo
<1>6. q = [f \in 1 .. e[n] |-> q[f]]
  <2> DEFINE m == e[n]
  <2>1. q \in Seq(V) /\ Len(q) = m
    BY <1>5
  <2> HIDE DEF m
  <2>2. q = [f \in 1 .. m |-> q[f]]
    BY <2>1
  <2> QED BY Zenon, <2>2 DEF m
<1> QED BY <1>1, <1>4, <1>6 DEF q, LaidUpTo, LaidOut

(* What a scheduler output says of the rows of a batch.                    *)
Batch(so) ==
    /\ so.order \in Seq(Scheduled(so))
    /\ \A r \in Scheduled(so) : /\ so.req[r].n \in Nat /\ so.req[r].drafts \in Nat
                                /\ so.req[r].drafts < so.req[r].n

LEMMA BatchEnds ==
    ASSUME NEW so, Batch(so)
    PROVE  /\ Len(so.order) \in Nat /\ DOMAIN so.order = 1 .. Len(so.order)
           /\ Ascending(Ends(so), Len(so.order))
           /\ \A i \in 1 .. Len(so.order) : /\ so.order[i] \in Scheduled(so)
                                            /\ Ends(so)[i] = Ends(so)[i - 1] + so.req[so.order[i]].n
<1> DEFINE n == Len(so.order)
           l == [i \in 1 .. n |-> so.req[so.order[i]].n]
<1>1. n \in Nat /\ DOMAIN so.order = 1 .. n /\ \A i \in 1 .. n : so.order[i] \in Scheduled(so)
  BY DEF Batch
<1> HIDE DEF n
<1>2. l \in [1 .. n -> Nat] /\ \A i \in 1 .. n : l[i] >= 1
  BY <1>1 DEF Batch
<1>3. Ends(so) = CumSum(l)
  BY <1>1 DEF Ends
<1>4. /\ CumSum(l)[0] = 0 /\ \A i \in 0 .. n : CumSum(l)[i] \in Nat
      /\ \A i \in 1 .. n : CumSum(l)[i] = CumSum(l)[i - 1] + l[i]
  <2> HIDE DEF l
  <2> QED BY <1>1, <1>2, CumSumFacts
<1> DEFINE e == CumSum(l)
<1>5. \A i \in 1 .. n : e[i - 1] + 1 <= e[i]
  <2> SUFFICES ASSUME NEW i \in 1 .. n PROVE e[i - 1] + 1 <= e[i]
    OBVIOUS
  <2>1. l[i] \in Nat /\ l[i] >= 1 /\ i - 1 \in 0 .. n
    BY <1>1, <1>2
  <2> HIDE DEF l
  <2> QED BY <1>4, <2>1
<1> QED BY <1>1, <1>3, <1>4, <1>5 DEF Ascending, n

(* At least one token of each row is no draft.                             *)
LEMMA BatchWithoutDrafts ==
    ASSUME NEW w, NEW so, Batch(so)
    PROVE  LET d == CumSum([i \in DOMAIN so.order |-> IF i \in Common(w, so)
                              THEN so.req[so.order[i]].drafts ELSE 0])[Len(so.order)]
           IN  Ends(so)[Len(so.order)] - d \in Int /\ Len(so.order) <= Ends(so)[Len(so.order)] - d
<1> DEFINE n == Len(so.order)
           e == Ends(so)
           h == [i \in DOMAIN so.order |-> IF i \in Common(w, so)
                              THEN so.req[so.order[i]].drafts ELSE 0]
           c == CumSum(h)
<1>1. /\ n \in Nat /\ DOMAIN so.order = 1 .. n
      /\ e[0] = 0 /\ \A i \in 0 .. n : e[i] \in Nat
      /\ \A i \in 1 .. n : /\ so.order[i] \in Scheduled(so)
                           /\ e[i] = e[i - 1] + so.req[so.order[i]].n
  BY BatchEnds DEF Ascending
<1> HIDE DEF n, e
<1>2. h \in [1 .. n -> Nat]
      /\ \A i \in 1 .. n : so.req[so.order[i]].n \in Nat /\ h[i] + 1 <= so.req[so.order[i]].n
  <2>1. h = [i \in 1 .. n |-> h[i]]
    BY <1>1
  <2>2. ASSUME NEW i \in 1 .. n
        PROVE  h[i] \in Nat /\ so.req[so.order[i]].n \in Nat
               /\ h[i] + 1 <= so.req[so.order[i]].n
    <3>1. h[i] = IF i \in Common(w, so) THEN so.req[so.order[i]].drafts ELSE 0
      BY <1>1
    <3>2. /\ so.req[so.order[i]].n \in Nat /\ so.req[so.order[i]].drafts \in Nat
          /\ so.req[so.order[i]].drafts < so.req[so.order[i]].n
      BY <1>1 DEF Batch
    <3> HIDE DEF h
    <3> QED BY <3>1, <3>2
  <2> HIDE DEF h
  <2> QED BY <2>1, <2>2
<1> HIDE DEF h
<1>3. /\ c[0] = 0 /\ \A i \in 0 .. n : c[i] \in Nat
      /\ \A i \in 1 .. n : c[i] = c[i - 1] + h[i]
  BY <1>1, <1>2, CumSumFacts
<1> HIDE DEF c
<1> DEFINE S == {m \in Nat : m <= n => m <= e[m] - c[m]}
<1>4. 0 \in S
  BY <1>1, <1>3
<1>5. ASSUME NEW m \in Nat, m \in S PROVE m + 1 \in S
  <2> SUFFICES ASSUME m + 1 <= n PROVE m + 1 <= e[m + 1] - c[m + 1]
    OBVIOUS
  <2>1. m <= e[m] - c[m] /\ m + 1 \in 1 .. n /\ (m + 1) - 1 = m /\ m \in 0 .. n
    BY <1>1, <1>5
  <2>2. /\ e[m + 1] = e[m] + so.req[so.order[m + 1]].n /\ c[m + 1] = c[m] + h[m + 1]
        /\ h[m + 1] \in Nat /\ so.req[so.order[m + 1]].n \in Nat
        /\ h[m + 1] + 1 <= so.req[so.order[m + 1]].n /\ e[m] \in Nat /\ c[m] \in Nat
    BY <1>1, <1>2, <1>3, <2>1
  <2> QED BY <2>1, <2>2
<1>6. n \in S
  <2> HIDE DEF S
  <2> QED BY <1>1, <1>4, <1>5, NatSteps
<1>7. n <= e[n] - c[n] /\ e[n] - c[n] \in Int
  <2>1. n \in 0 .. n
    BY <1>1
  <2> QED BY <1>1, <1>3, <1>6, <2>1
<1> QED BY <1>7 DEF n, e, c, h

(* A set of places has a last one.                                         *)
LEMMA LastPlace ==
    ASSUME NEW n \in Nat, NEW C \in SUBSET (1 .. n), C # {}
    PROVE  \E k \in C : \A i \in C : i <= k
<1> DEFINE S == {m \in Nat : (\E i \in C : i <= m) =>
                   \E k \in C : k <= m /\ \A i \in C : i <= m => i <= k}
<1>0. \A i \in C : i \in Nat /\ i <= n /\ i > 0
  OBVIOUS
<1>1. 0 \in S
  BY <1>0
<1>2. ASSUME NEW m \in Nat, m \in S PROVE m + 1 \in S
  <2> SUFFICES ASSUME \E i \in C : i <= m + 1
               PROVE  \E k \in C : k <= m + 1 /\ \A i \in C : i <= m + 1 => i <= k
    OBVIOUS
  <2>1. CASE m + 1 \in C
    BY <2>1
  <2>2. CASE m + 1 \notin C
    <3>1. \A i \in C : i \in Nat /\ (i <= m + 1 => i <= m)
      <4> SUFFICES ASSUME NEW i \in C PROVE i \in Nat /\ (i <= m + 1 => i <= m)
        OBVIOUS
      <4>1. i \in Nat /\ i # m + 1
        BY <1>0, <2>2
      <4> QED BY <4>1
    <3>2. PICK k \in C : k <= m /\ \A i \in C : i <= m => i <= k
      BY <1>2, <3>1
    <3> QED BY <3>1, <3>2
  <2> QED BY <2>1, <2>2
<1>3. n \in S
  <2> HIDE DEF S
  <2> QED BY <1>1, <1>2, NatSteps
<1> QED BY <1>0, <1>3

(* What makes the inputs of a batch the tokens from pos on: a row of the   *)
(* step before has its newest token on the device, and asks for that one   *)
(* and its drafts; of any other row the CPU has every token.               *)
Fits(w, new, so, pos) ==
    /\ Batch(so)
    /\ \A r \in Scheduled(so) : pos[r] \in Int
    /\ \A r \in Scheduled(so) :
          IF r \in DOMAIN w.prev.index
          THEN /\ so.req[r].n = so.req[r].drafts + 1
               /\ w.prev.sampled[w.prev.index[r]] = <<r, pos[r]>>
          ELSE CpuTokens(new, so, r) = [j \in 1 .. so.req[r].n |-> <<r, pos[r] + j - 1>>]

Size(so, i) == so.req[so.order[i]].n
Own(so, pos, i, j) == <<so.order[i], pos[so.order[i]] + j - 1>>
CpuInputs(new, so) == FlattenSeq([i \in DOMAIN so.order |-> CpuTokens(new, so, so.order[i])])

(* The rows of a batch and the places of their tokens.                     *)
LEMMA BatchPlaces ==
    ASSUME NEW so, Batch(so)
    PROVE  LET n == Len(so.order)
               e == Ends(so)
           IN  /\ n \in Nat /\ DOMAIN so.order = 1 .. n /\ e[n] \in Nat
               /\ \A i \in 1 .. n :
                     /\ so.order[i] \in Scheduled(so) /\ Size(so, i) \in Nat /\ Size(so, i) >= 1
                     /\ e[i - 1] \in Nat /\ e[i] \in Nat /\ e[i] = e[i - 1] + Size(so, i)
                     /\ e[i] <= e[n] /\ i <= e[i]
               /\ \A f \in 1 .. e[n] : \E i \in 1 .. n : \E j \in 1 .. Size(so, i) :
                     f = e[i - 1] + j
               /\ \A i, k \in 1 .. n : k < i => e[k] <= e[i - 1] /\ e[k] + (i - k) <= e[i]
<1> DEFINE n == Len(so.order)
           e == Ends(so)
<1>1. /\ n \in Nat /\ DOMAIN so.order = 1 .. n /\ Ascending(e, n)
      /\ \A i \in 1 .. n : /\ so.order[i] \in Scheduled(so)
                           /\ e[i] = e[i - 1] + Size(so, i)
  BY BatchEnds DEF Size
<1> HIDE DEF n, e
<1>2. \A i \in 0 .. n : e[i] \in Nat
  BY <1>1 DEF Ascending
<1>3. n \in 0 .. n /\ 0 \in 0 .. n /\ \A i \in 1 .. n : i - 1 \in 0 .. n /\ i \in 0 .. n
  BY <1>1
<1>4. ASSUME NEW i \in 1 .. n
      PROVE  /\ Size(so, i) \in Nat /\ Size(so, i) >= 1
             /\ e[i] <= e[n] /\ i <= e[i]
  <2>1. Size(so, i) \in Nat /\ Size(so, i) >= 1
    <3> DEFINE q == so.req[so.order[i]]
    <3>1. so.order[i] \in Scheduled(so)
      BY <1>1
    <3>2. q.n \in Nat /\ q.drafts \in Nat /\ q.drafts < q.n
      BY <3>1 DEF Batch
    <3>3. Size(so, i) = q.n
      BY DEF Size
    <3> DEFINE a == q.n
               b == q.drafts
    <3>4. a \in Nat /\ b \in Nat /\ b < a
      BY <3>2
    <3> HIDE DEF a, b
    <3>5. a >= 1
      BY <3>4
    <3> QED BY <3>3, <3>4, <3>5 DEF a
  <2>2. e[i] + (n - i) <= e[n] /\ e[0] + (i - 0) <= e[i] /\ e[0] = 0
    <3>1. e[i] + (n - i) <= e[n]
      BY <1>1, <1>3, Ascends
    <3>2. e[0] + (i - 0) <= e[i]
      BY <1>1, <1>3, Ascends
    <3> QED BY <1>1, <3>1, <3>2 DEF Ascending
  <2> QED BY <1>1, <1>2, <1>3, <2>1, <2>2
<1>5. ASSUME NEW f \in 1 .. e[n]
      PROVE  \E i \in 1 .. n : \E j \in 1 .. Size(so, i) : f = e[i - 1] + j
  <2>1. PICK i \in 1 .. n : e[i - 1] < f /\ f <= e[i]
    BY <1>1, RowOfPlace
  <2>2. /\ e[i - 1] \in Nat /\ e[i] \in Nat /\ e[n] \in Nat
        /\ e[i] = e[i - 1] + Size(so, i) /\ Size(so, i) \in Nat
    BY <1>1, <1>2, <1>3, <1>4
  <2>3. f - e[i - 1] \in 1 .. Size(so, i) /\ f = e[i - 1] + (f - e[i - 1])
    BY <2>1, <2>2
  <2> QED BY <2>3
<1>6. ASSUME NEW i \in 1 .. n, NEW k \in 1 .. n, k < i
      PROVE  e[k] <= e[i - 1] /\ e[k] + (i - k) <= e[i]
  <2>1. k <= i - 1 /\ k <= i
    BY <1>6
  <2>2. e[k] + ((i - 1) - k) <= e[i - 1] /\ e[k] + (i - k) <= e[i]
    BY <1>1, <1>3, <2>1, Ascends
  <2>3. e[k] \in Nat /\ e[i - 1] \in Nat
    BY <1>2, <1>3
  <2> QED BY <1>1, <2>1, <2>2, <2>3
<1>7. \A i \in 1 .. n : e[i - 1] \in Nat /\ e[i] \in Nat
  BY <1>2, <1>3
<1> QED BY <1>1, <1>2, <1>3, <1>4, <1>5, <1>6, <1>7 DEF n, e

LEMMA OwnPlaces ==
    ASSUME NEW so, NEW pos, Batch(so)
    PROVE  /\ OwnTokens(so, pos) = [f \in 1 .. Ends(so)[Len(so.order)] |-> OwnTokens(so, pos)[f]]
           /\ \A i \in 1 .. Len(so.order) : \A j \in 1 .. Size(so, i) :
                 OwnTokens(so, pos)[Ends(so)[i - 1] + j] = Own(so, pos, i, j)
<1> DEFINE n == Len(so.order)
           e == Ends(so)
           l == [i \in 1 .. n |-> Size(so, i)]
           s == [i \in 1 .. n |-> [j \in 1 .. Size(so, i) |-> Own(so, pos, i, j)]]
<1>1. OwnTokens(so, pos) = FlattenSeq(s)
  <2>1. DOMAIN so.order = 1 .. n
    BY BatchPlaces
  <2> QED BY <2>1 DEF OwnTokens, Own, Size
<1>2. /\ n \in Nat /\ l \in [1 .. n -> Nat] /\ SumsOf(e, l, n)
  BY BatchPlaces, BatchEnds DEF Ascending, SumsOf
<1>3. RowsOfSize(s, l, n)
  BY <1>2 DEF RowsOfSize
<1>4. \A i \in 1 .. n : l[i] = Size(so, i)
                        /\ \A j \in 1 .. l[i] : s[i][j] = Own(so, pos, i, j)
  OBVIOUS
<1> HIDE DEF n, e, l, s
<1>5. LaidOut(FlattenSeq(s), s, l, e, n)
  BY <1>2, <1>3, FlattenedRows
<1> QED BY <1>1, <1>4, <1>5 DEF n, e, LaidOut

LEMMA CpuPlaces ==
    ASSUME NEW new, NEW so, Batch(so)
    PROVE  /\ CpuInputs(new, so) = [f \in 1 .. Ends(so)[Len(so.order)] |-> CpuInputs(new, so)[f]]
           /\ \A i \in 1 .. Len(so.order) : \A j \in 1 .. Size(so, i) :
                 CpuInputs(new, so)[Ends(so)[i - 1] + j] = CpuTokens(new, so, so.order[i])[j]
<1> DEFINE n == Len(so.order)
           e == Ends(so)
           l == [i \in 1 .. n |-> Size(so, i)]
           s == [i \in 1 .. n |-> CpuTokens(new, so, so.order[i])]
<1>1. CpuInputs(new, so) = FlattenSeq(s)
  <2>1. DOMAIN so.order = 1 .. n
    BY BatchPlaces
  <2> QED BY <2>1 DEF CpuInputs
<1>2. /\ n \in Nat /\ l \in [1 .. n -> Nat] /\ SumsOf(e, l, n)
  BY BatchPlaces, BatchEnds DEF Ascending, SumsOf
<1>3. RowsOfSize(s, l, n)
  <2>1. s = [i \in 1 .. n |-> s[i]]
    OBVIOUS
  <2>2. ASSUME NEW i \in 1 .. n PROVE s[i] = [j \in 1 .. l[i] |-> s[i][j]]
    <3>1. \E g : CpuTokens(new, so, so.order[i]) = [j \in 1 .. Size(so, i) |-> g[j]]
      <4> DEFINE g == CpuTokens(new, so, so.order[i])
      <4>1. g = [j \in 1 .. Size(so, i) |-> g[j]]
        BY CpuTokensOf DEF Size
      <4> QED BY <4>1
    <3> QED BY <3>1
  <2> QED BY <1>2, <2>1, <2>2 DEF RowsOfSize
<1>4. \A i \in 1 .. n : l[i] = Size(so, i) /\ s[i] = CpuTokens(new, so, so.order[i])
  OBVIOUS
<1> HIDE DEF n, e, l, s
<1>5. LaidOut(FlattenSeq(s), s, l, e, n)
  BY <1>2, <1>3, FlattenedRows
<1> QED BY <1>1, <1>4, <1>5 DEF n, e, LaidOut

LEMMA CommonFacts ==
    ASSUME NEW w, NEW so, Batch(so)
    PROVE  /\ Common(w, so) \subseteq 1 .. Len(so.order) /\ Cardinality(Common(w, so)) \in Nat
           /\ Cardinality(Common(w, so)) = 0 <=> Common(w, so) = {}
           /\ \A i \in 1 .. Len(so.order) :
                 i \notin Common(w, so) => Cardinality(Common(w, so)) < Len(so.order)
           /\ \A k \in 1 .. Len(so.order) : Common(w, so) \subseteq 1 .. k =>
                 /\ Cardinality(Common(w, so)) <= k
                 /\ Cardinality(Common(w, so)) = k => Common(w, so) = 1 .. k
<1> DEFINE n == Len(so.order)
           C == Common(w, so)
<1>1. n \in Nat /\ C \subseteq 1 .. n
  BY BatchPlaces DEF Common
<1>2. \A k \in Nat : IsFiniteSet(1 .. k) /\ Cardinality(1 .. k) = k
  <2> SUFFICES ASSUME NEW k \in Nat PROVE IsFiniteSet(1 .. k) /\ Cardinality(1 .. k) = k
    OBVIOUS
  <2>1. IsFiniteSet(1 .. k) /\ Cardinality(1 .. k) = IF 1 > k THEN 0 ELSE k - 1 + 1
    BY FS_Interval
  <2> QED BY <2>1
<1> HIDE DEF n, C
<1>3. IsFiniteSet(C) /\ Cardinality(C) \in Nat
  BY <1>1, <1>2, FS_Subset, FS_CardinalityType
<1>4. Cardinality(C) = 0 <=> C = {}
  BY <1>3, FS_EmptySet
<1>5. ASSUME NEW k \in 1 .. n, C \subseteq 1 .. k
      PROVE  Cardinality(C) <= k /\ (Cardinality(C) = k => C = 1 .. k)
  <2>1. k \in Nat
    OBVIOUS
  <2> DEFINE T == 1 .. k
  <2>2. IsFiniteSet(T) /\ Cardinality(T) = k /\ C \subseteq T
    BY <1>2, <1>5, <2>1
  <2> HIDE DEF T
  <2>3. Cardinality(C) <= Cardinality(T) /\ (Cardinality(T) = Cardinality(C) => T = C)
    BY <2>2, FS_Subset
  <2> QED BY <2>2, <2>3 DEF T
<1>6. ASSUME NEW i \in 1 .. n, i \notin C PROVE Cardinality(C) < n
  <2>1. n \in 1 .. n
    BY <1>1
  <2>2. Cardinality(C) <= n /\ Cardinality(C) # n
    BY <1>1, <1>5, <1>6, <2>1
  <2> QED BY <1>1, <1>3, <2>2
<1> QED BY <1>1, <1>3, <1>4, <1>5, <1>6 DEF n, C

(* The inputs of a batch that fits: where each of them comes from.         *)
LEMMA FittingInput ==
    ASSUME NEW w, NEW new, NEW so, NEW pos, Fits(w, new, so, pos),
           NEW i \in 1 .. Len(so.order), NEW j \in 1 .. Size(so, i),
           i \notin Common(w, so)
    PROVE  CpuInputs(new, so)[Ends(so)[i - 1] + j] = Own(so, pos, i, j)
<1>1. Batch(so) /\ so.order[i] \in Scheduled(so)
  BY BatchPlaces DEF Fits
<1>2. CpuInputs(new, so)[Ends(so)[i - 1] + j] = CpuTokens(new, so, so.order[i])[j]
  BY <1>1, CpuPlaces
<1>3. so.order[i] \notin DOMAIN w.prev.index
  BY <1>1, BatchPlaces DEF Common
<1>4. CpuTokens(new, so, so.order[i]) =
        [k \in 1 .. Size(so, i) |-> <<so.order[i], pos[so.order[i]] + k - 1>>]
  BY <1>1, <1>3 DEF Fits, Size
<1> QED BY <1>2, <1>4 DEF Own

LEMMA FittingCommon ==
    ASSUME NEW w, NEW new, NEW so, NEW pos, Fits(w, new, so, pos), NEW i \in Common(w, so)
    PROVE  /\ i \in 1 .. Len(so.order)
           /\ Size(so, i) = so.req[so.order[i]].drafts + 1
           /\ so.req[so.order[i]].drafts \in Nat
           /\ Place(so, i, 0) = Ends(so)[i - 1] + 1
           /\ w.prev.sampled[PrevRow(w, so, i)] = Own(so, pos, i, 1)
           /\ \A j \in 1 .. Size(so, i) :
                 Draft(w.prev.sampled[PrevRow(w, so, i)], j - 1) = Own(so, pos, i, j)
<1>1. Batch(so)
  BY DEF Fits
<1>2. /\ i \in 1 .. Len(so.order) /\ so.order[i] \in Scheduled(so)
      /\ so.order[i] \in DOMAIN w.prev.index
  BY <1>1, BatchPlaces DEF Common
<1> DEFINE r == so.order[i]
<1>3. /\ so.req[r].n = so.req[r].drafts + 1 /\ pos[r] \in Int
      /\ w.prev.sampled[w.prev.index[r]] = <<r, pos[r]>>
      /\ so.req[r].drafts \in Nat
  BY <1>1, <1>2 DEF Fits, Batch
<1>4. /\ Ends(so)[i - 1] \in Nat /\ Ends(so)[i] \in Nat
      /\ Ends(so)[i] = Ends(so)[i - 1] + Size(so, i)
  BY <1>1, <1>2, BatchPlaces
<1>5. Place(so, i, 0) = Ends(so)[i - 1] + 1
  <2> DEFINE d == so.req[r].drafts
             a == Ends(so)[i - 1]
             b == Ends(so)[i]
  <2>1. d \in Nat /\ a \in Nat /\ b = a + (d + 1) /\ Place(so, i, 0) = b - d + 0
    BY <1>3, <1>4 DEF Size, Place
  <2> HIDE DEF d, a, b
  <2>2. Place(so, i, 0) = a + 1
    BY <2>1
  <2> QED BY Zenon, <2>2 DEF a
<1>6. Own(so, pos, i, 1) = <<r, pos[r]>>
  <2> DEFINE p == pos[r]
  <2>1. p \in Int
    BY <1>3
  <2>2. p + 1 - 1 = p
    <3> HIDE DEF p
    <3> QED BY <2>1
  <2>3. Own(so, pos, i, 1) = <<r, p + 1 - 1>>
    BY Zenon DEF Own
  <2> QED BY Zenon, <2>2, <2>3
<1>7. ASSUME NEW j \in 1 .. Size(so, i)
      PROVE  Draft(w.prev.sampled[PrevRow(w, so, i)], j - 1) = Own(so, pos, i, j)
  <2>1. w.prev.sampled[PrevRow(w, so, i)] = <<r, pos[r]>>
    BY <1>3 DEF PrevRow
  <2>2. j \in Int
    OBVIOUS
  <2>3. pos[r] + (j - 1) = pos[r] + j - 1
    <3> DEFINE p == pos[r]
    <3>1. p \in Int
      BY <1>3
    <3>2. p + (j - 1) = p + j - 1
      <4> HIDE DEF p
      <4> QED BY <2>2, <3>1
    <3> QED BY Zenon, <3>2
  <2> DEFINE v == w.prev.sampled[PrevRow(w, so, i)]
  <2>4. v[1] = r /\ v[2] = pos[r]
    BY <2>1
  <2>5. Draft(v, j - 1) = <<v[1], v[2] + (j - 1)>>
    BY Zenon DEF Draft
  <2>6. Own(so, pos, i, j) = <<r, pos[r] + j - 1>>
    BY Zenon DEF Own
  <2> QED BY Zenon, <2>3, <2>4, <2>5, <2>6
<1> QED BY <1>2, <1>3, <1>5, <1>6, <1>7 DEF Size, PrevRow

(* A row has no other row's places.                                        *)
LEMMA OneRowHits ==
    ASSUME NEW w, NEW new, NEW so, NEW pos, Fits(w, new, so, pos), NEW rest,
           NEW i \in 1 .. Len(so.order), NEW j \in 1 .. Size(so, i)
    PROVE  /\ i \in Common(w, so) =>
                Scattered(w, so, Ends(so)[i - 1] + j, rest) = Own(so, pos, i, j)
           /\ i \notin Common(w, so) => Scattered(w, so, Ends(so)[i - 1] + j, rest) = rest
<1> DEFINE f == Ends(so)[i - 1] + j
           C == Common(w, so)
           hits == {k \in C : Place(so, k, 0) <= f /\ f <= Ends(so)[k]}
<1>1. /\ Batch(so) /\ j \in Nat /\ 1 <= j /\ j <= Size(so, i) /\ i \in Nat
      /\ Ends(so)[i - 1] \in Nat /\ Ends(so)[i] \in Nat
      /\ Ends(so)[i] = Ends(so)[i - 1] + Size(so, i) /\ Size(so, i) \in Nat
  BY BatchPlaces DEF Fits
<1>2. ASSUME NEW k \in C
      PROVE  /\ k \in 1 .. Len(so.order) /\ Place(so, k, 0) = Ends(so)[k - 1] + 1
             /\ Ends(so)[k - 1] \in Nat /\ Ends(so)[k] \in Nat
             /\ k < i => Ends(so)[k] <= Ends(so)[i - 1]
             /\ i < k => Ends(so)[i] <= Ends(so)[k - 1]
  <2>1. k \in 1 .. Len(so.order) /\ Place(so, k, 0) = Ends(so)[k - 1] + 1
    BY FittingCommon
  <2> QED BY <1>1, <2>1, BatchPlaces
<1>3. hits = IF i \in C THEN {i} ELSE {}
  <2>1. ASSUME NEW k \in C PROVE (Place(so, k, 0) <= f /\ f <= Ends(so)[k]) <=> k = i
    <3> DEFINE a == Ends(so)[i - 1]
               b == Ends(so)[i]
               c == Ends(so)[k - 1]
               d == Ends(so)[k]
               p == Place(so, k, 0)
               z == Size(so, i)
               n == Len(so.order)
    <3>1. /\ a \in Nat /\ b \in Nat /\ c \in Nat /\ d \in Nat /\ p = c + 1 /\ b = a + z
          /\ j \in Nat /\ 1 <= j /\ j <= z /\ z \in Nat /\ f = a + j
          /\ (k < i => d <= a) /\ (i < k => b <= c) /\ k \in Nat /\ i \in Nat
          /\ (k = i => a = c /\ b = d)
      BY <1>1, <1>2
    <3> HIDE DEF a, b, c, d, p, z, f
    <3>2. (p <= f /\ f <= d) <=> k = i
      BY <3>1
    <3> QED BY <3>2 DEF p, d
  <2> HIDE DEF f, C
  <2> QED BY <2>1
<1>4. CASE i \in C
  <2>1. hits = {i}
    BY <1>3, <1>4
  <2>2. f - Place(so, i, 0) = j - 1
    <3>1. Place(so, i, 0) = Ends(so)[i - 1] + 1
      BY <1>2, <1>4
    <3> DEFINE a == Ends(so)[i - 1]
    <3>2. a \in Nat /\ f = a + j /\ Place(so, i, 0) = a + 1
      BY <1>1, <3>1
    <3> HIDE DEF a, f
    <3> QED BY <1>1, <3>2
  <2>3. Scattered(w, so, f, rest) = Draft(w.prev.sampled[PrevRow(w, so, i)], j - 1)
    <3>1. Scattered(w, so, f, rest) =
            LET k == CHOOSE k \in hits : TRUE
            IN Draft(w.prev.sampled[PrevRow(w, so, k)], f - Place(so, k, 0))
      <4>1. hits # {}
        BY <2>1
      <4> QED BY <4>1 DEF Scattered
    <3>2. (CHOOSE k \in hits : TRUE) = i
      <4> HIDE DEF hits
      <4> QED BY <2>1
    <3> HIDE DEF hits, f
    <3> QED BY <2>2, <3>1, <3>2
  <2> QED BY <1>4, <2>3, FittingCommon
<1>5. CASE i \notin C
  <2>1. hits = {}
    BY <1>3, <1>5
  <2>2. Scattered(w, so, f, rest) = rest
    BY <2>1 DEF Scattered
  <2> QED BY <1>5, <2>2
<1> QED BY <1>4, <1>5

(* If the batch is unchanged, the sampled tokens are in the common rows.   *)
LEMMA UnchangedRows ==
    ASSUME NEW w, NEW new, NEW so, NEW pos, Fits(w, new, so, pos), Common(w, so) # {},
           Unchanged(w, so), NEW i \in 1 .. Len(so.order), NEW j \in 1 .. Size(so, i)
    PROVE  IF Ends(so)[i - 1] + j <= Cardinality(Common(w, so))
           THEN w.prev.sampled[Ends(so)[i - 1] + j] = Own(so, pos, i, j)
           ELSE i \notin Common(w, so)
<1> DEFINE n == Len(so.order)
           e == Ends(so)
           C == Common(w, so)
           c == Cardinality(C)
<1>0. Batch(so)
  BY DEF Fits
<1>1. n \in Nat /\ C \subseteq 1 .. n /\ c \in Nat /\ C # {}
  BY <1>0, BatchPlaces, CommonFacts
<1>2. PICK k \in C : \A m \in C : m <= k
  <2> HIDE DEF n, C
  <2> QED BY <1>1, LastPlace
<1>3. k \in 1 .. n /\ C \subseteq 1 .. k
  <2> HIDE DEF n, C
  <2>1. \A m \in C : m \in 1 .. k
    BY <1>1, <1>2
  <2> QED BY <1>1, <1>2, <2>1
<1>4. \A m \in 1 .. n : m \in Nat /\ e[m - 1] \in Nat /\ e[m] \in Nat /\ m <= e[m]
                        /\ Size(so, m) \in Nat /\ Size(so, m) >= 1
                        /\ e[m] = e[m - 1] + Size(so, m)
  BY <1>0, BatchPlaces
<1>5. \A m, l \in 1 .. n : l < m => e[l] <= e[m - 1] /\ e[l] + (m - l) <= e[m]
  BY <1>0, BatchPlaces
<1>6. e[k] = c
  <2> DEFINE S == {e[m] : m \in C}
  <2>1. Max(S) = c
    BY DEF Unchanged
  <2>2. e[k] \in S /\ \A x \in S : e[k] >= x /\ x \in Nat
    <3>1. ASSUME NEW m \in C PROVE e[k] >= e[m] /\ e[m] \in Nat
      <4>1. m \in 1 .. n /\ k \in 1 .. n /\ m <= k /\ m \in Nat /\ k \in Nat
        BY <1>1, <1>2, <1>4
      <4>2. e[k] \in Nat /\ e[m] \in Nat /\ (m < k => e[m] + (k - m) <= e[k])
        BY <1>4, <1>5, <4>1
      <4> HIDE DEF e
      <4>3. CASE m = k
        BY <4>2, <4>3
      <4>4. CASE m < k
        BY <4>1, <4>2, <4>4
      <4> QED BY <4>1, <4>3, <4>4
    <3> HIDE DEF e, C
    <3> QED BY <3>1
  <2> DEFINE x == e[k]
  <2>3. x \in S /\ \A y \in S : x >= y /\ y \in Nat
    BY <2>2
  <2> HIDE DEF S, x
  <2>4. \A z \in S : (\A y \in S : z >= y) => z = x
    BY <2>3
  <2>5. Max(S) = x
    BY <2>3, <2>4 DEF Max
  <2> QED BY <2>1, <2>5 DEF x
<1>7. c = k /\ C = 1 .. k
  <2>1. k <= e[k] /\ e[k] \in Nat
    BY <1>3, <1>4
  <2>2. C \subseteq 1 .. k => c <= k /\ (c = k => C = 1 .. k)
    BY <1>0, <1>3, CommonFacts
  <2> HIDE DEF c, e, C
  <2>3. k \in Nat
    BY <1>1, <1>3
  <2>4. c <= k /\ k <= c
    BY <1>3, <1>6, <2>1, <2>2
  <2>5. c = k
    BY <1>1, <2>3, <2>4
  <2> QED BY <1>3, <2>2, <2>5
<1>8. ASSUME i \in C PROVE e[i] = i /\ e[i - 1] = i - 1 /\ Size(so, i) = 1
  <2>1. i \in 1 .. n /\ i <= k /\ i \in Nat /\ k \in Nat
    BY <1>2, <1>3, <1>4, <1>8
  <2>2. i <= e[i] /\ e[k] = k /\ e[i] \in Nat /\ (i < k => e[i] + (k - i) <= e[k])
    BY <1>3, <1>4, <1>5, <1>6, <1>7, <2>1
  <2>3. e[i] = i
    <3> HIDE DEF e
    <3>1. CASE i = k
      BY <2>2, <3>1
    <3>2. CASE i < k
      BY <2>1, <2>2, <3>2
    <3> QED BY <2>1, <3>1, <3>2
  <2>4. i - 1 <= e[i - 1]
    <3>1. CASE i = 1
      BY <1>4, <2>1, <3>1
    <3>2. CASE i > 1
      <4>1. i - 1 \in 1 .. n /\ i - 1 \in Nat
        BY <1>1, <2>1, <3>2
      <4> QED BY <1>4, <4>1
    <3> QED BY <2>1, <3>1, <3>2
  <2>5. e[i - 1] \in Nat /\ Size(so, i) \in Nat /\ Size(so, i) >= 1
        /\ e[i] = e[i - 1] + Size(so, i)
    BY <1>4
  <2> DEFINE a == e[i - 1]
             b == e[i]
             z == Size(so, i)
  <2>6. b = i /\ i - 1 <= a /\ a \in Nat /\ z \in Nat /\ z >= 1 /\ b = a + z
    BY <2>3, <2>4, <2>5
  <2> HIDE DEF a, b, z, e
  <2>7. b = i /\ a = i - 1 /\ z = 1
    BY <2>1, <2>6
  <2> QED BY <2>7 DEF a, b, z
<1>9. CASE i \in C
  <2>1. e[i] = i /\ e[i - 1] = i - 1 /\ Size(so, i) = 1
    BY <1>8, <1>9
  <2>2. j = 1 /\ e[i - 1] + j = i /\ i <= k
    <3>1. j \in 1 .. 1 /\ i \in Nat
      BY <2>1, <1>4
    <3> QED BY <1>2, <1>9, <2>1, <3>1
  <2>3. w.prev.sampled[PrevRow(w, so, i)] = Own(so, pos, i, 1)
    BY <1>9, FittingCommon
  <2>4. PrevRow(w, so, i) = i
    BY <1>9, <2>1 DEF Unchanged
  <2>5. i <= c
    BY <1>7, <2>2
  <2> HIDE DEF e, c, C
  <2>6. w.prev.sampled[e[i - 1] + j] = Own(so, pos, i, j)
    BY <2>2, <2>3, <2>4
  <2>7. e[i - 1] + j <= c
    BY <2>2, <2>5
  <2> QED BY <2>6, <2>7 DEF e, c, C
<1>10. CASE i \notin C
  <2>1. k < i
    BY <1>3, <1>4, <1>7, <1>10
  <2>2. e[k] <= e[i - 1] /\ e[i - 1] \in Nat /\ e[k] \in Nat
    BY <1>3, <1>4, <1>5, <2>1
  <2>3. e[i - 1] + j > c
    <3> DEFINE a == e[i - 1]
    <3>1. a \in Nat /\ c <= a /\ c \in Nat /\ j \in Nat /\ 1 <= j
      BY <1>1, <1>4, <1>6, <2>2
    <3> HIDE DEF a, c
    <3>2. a + j > c
      BY <3>1
    <3> QED BY <3>2 DEF a
  <2>4. e[i - 1] + j \in Nat
    BY <2>2
  <2> HIDE DEF e, c
  <2>5. ~(e[i - 1] + j <= c)
    BY <1>1, <2>3, <2>4
  <2> QED BY <1>10, <2>5 DEF e, c
<1> QED BY <1>9, <1>10

(* Whichever way the inputs are put together, they are the tokens from pos *)
(* on: the slice, the scattered rows and the copy from the CPU.            *)
LEMMA FittingInputs ==
    ASSUME NEW w, NEW new, NEW so, NEW pos, Fits(w, new, so, pos)
    PROVE  InputIds(w, new, so) = OwnTokens(so, pos)
<1> DEFINE n == Len(so.order)
           e == Ends(so)
           C == Common(w, so)
           c == Cardinality(C)
           d == CumSum([i \in DOMAIN so.order |-> IF i \in C
                              THEN so.req[so.order[i]].drafts ELSE 0])[n]
           cpu == CpuInputs(new, so)
           base == IF c < e[n] - d THEN cpu ELSE [f \in 1 .. e[n] |-> NoToken]
           own == OwnTokens(so, pos)
           ids == InputIds(w, new, so)
<1>0. Batch(so)
  BY DEF Fits
<1>1. n \in Nat /\ e[n] \in Nat /\ c \in Nat
      /\ \A f \in 1 .. e[n] : \E i \in 1 .. n : \E j \in 1 .. Size(so, i) : f = e[i - 1] + j
  BY <1>0, BatchPlaces, CommonFacts
<1>2. own = [f \in 1 .. e[n] |-> own[f]] /\ cpu = [f \in 1 .. e[n] |-> cpu[f]]
  BY <1>0, OwnPlaces, CpuPlaces
<1>3. \A i \in 1 .. n : \A j \in 1 .. Size(so, i) : own[e[i - 1] + j] = Own(so, pos, i, j)
  BY <1>0, OwnPlaces
<1>4. ASSUME NEW i \in 1 .. n, i \notin C PROVE base = cpu
  <2>1. e[n] - d \in Int /\ n <= e[n] - d
    BY <1>0, BatchWithoutDrafts
  <2>2. c < n
    BY <1>0, <1>4, CommonFacts
  <2> DEFINE x == e[n] - d
  <2> HIDE DEF x, c, n
  <2>3. c < x
    BY <1>1, <2>1, <2>2 DEF x
  <2> QED BY <2>3 DEF x
<1>5. ids = CASE c = 0 -> cpu
             [] c > 0 /\ Unchanged(w, so) ->
                  [f \in 1 .. e[n] |-> IF f <= c THEN w.prev.sampled[f] ELSE base[f]]
             [] OTHER -> [f \in 1 .. e[n] |-> Scattered(w, so, f, base[f])]
  BY DEF InputIds, CpuInputs
<1>6. C = {} <=> c = 0
  BY <1>0, CommonFacts
<1>7. ids = [f \in 1 .. e[n] |-> ids[f]]
  <2> HIDE DEF ids, cpu, base, c, e, n
  <2>1. CASE c = 0
    BY <1>2, <1>5, <2>1
  <2>2. CASE c > 0 /\ Unchanged(w, so)
    <3>1. c # 0
      BY <1>1, <2>2
    <3>2. ids = [f \in 1 .. e[n] |-> IF f <= c THEN w.prev.sampled[f] ELSE base[f]]
      BY <1>5, <2>2, <3>1
    <3> QED BY <3>2
  <2>3. CASE c # 0 /\ ~(c > 0 /\ Unchanged(w, so))
    <3>1. ids = [f \in 1 .. e[n] |-> Scattered(w, so, f, base[f])]
      BY <1>5, <2>3
    <3> QED BY <3>1
  <2> QED BY <2>1, <2>2, <2>3
<1>8. ASSUME NEW f \in 1 .. e[n] PROVE ids[f] = own[f]
  <2>1. PICK i \in 1 .. n : \E j \in 1 .. Size(so, i) : f = e[i - 1] + j
    BY <1>1
  <2>2. PICK j \in 1 .. Size(so, i) : f = e[i - 1] + j
    BY <2>1
  <2>3. own[f] = Own(so, pos, i, j)
    BY <1>3, <2>2
  <2>4. i \notin C => cpu[f] = Own(so, pos, i, j)
    BY <2>2, FittingInput
  <2>5. CASE c = 0
    <3>1. ids = cpu /\ i \notin C
      <4> HIDE DEF ids, cpu, base, c, e, n, C
      <4> QED BY <1>5, <1>6, <2>5
    <3> QED BY <2>3, <2>4, <3>1
  <2>6. CASE c > 0 /\ Unchanged(w, so)
    <3>1. IF f <= c THEN w.prev.sampled[f] = Own(so, pos, i, j) ELSE i \notin C
      <4>1. C # {}
        <5> HIDE DEF c, C
        <5> QED BY <1>1, <1>6, <2>6
      <4> QED BY <2>2, <2>6, <4>1, UnchangedRows
    <3>2. ids[f] = IF f <= c THEN w.prev.sampled[f] ELSE base[f]
      <4> HIDE DEF ids, cpu, base, c, e, n, C
      <4>1. c # 0
        BY <1>1, <2>6
      <4>2. ids = [g \in 1 .. e[n] |-> IF g <= c THEN w.prev.sampled[g] ELSE base[g]]
        BY <1>5, <2>6, <4>1
      <4> QED BY <4>2
    <3>3. i \notin C => base[f] = Own(so, pos, i, j)
      BY <1>4, <2>4
    <3> HIDE DEF ids, base, c, C, own
    <3> QED BY <2>3, <3>1, <3>2, <3>3
  <2>7. CASE c # 0 /\ ~(c > 0 /\ Unchanged(w, so))
    <3>1. ids[f] = Scattered(w, so, f, base[f])
      <4> HIDE DEF ids, cpu, base, c, e, n, C
      <4>1. ids = [g \in 1 .. e[n] |-> Scattered(w, so, g, base[g])]
        BY <1>5, <2>7
      <4> QED BY <4>1
    <3>2. Scattered(w, so, f, base[f]) = IF i \in C THEN Own(so, pos, i, j) ELSE base[f]
      <4>1. ASSUME NEW b
            PROVE  /\ i \in Common(w, so) =>
                        Scattered(w, so, Ends(so)[i - 1] + j, b) = Own(so, pos, i, j)
                   /\ i \notin Common(w, so) => Scattered(w, so, Ends(so)[i - 1] + j, b) = b
        <5>1. i \in 1 .. Len(so.order) /\ j \in 1 .. Size(so, i)
          OBVIOUS
        <5> HIDE DEF n, C, c, d, cpu, base, own, ids, e
        <5> QED BY <5>1, OneRowHits
      <4> HIDE DEF base
      <4> QED BY <2>2, <4>1
    <3>3. i \notin C => base[f] = Own(so, pos, i, j)
      BY <1>4, <2>4
    <3> HIDE DEF ids, base, c, C, own
    <3> QED BY <2>3, <3>1, <3>2, <3>3
  <2> QED BY <2>5, <2>6, <2>7
<1> HIDE DEF ids, own, e, n
<1>9. ids = own
  BY <1>2, <1>7, <1>8
<1> QED BY <1>9 DEF ids, own

-----------------------------------------------------------------------------
(* What the CPU holds of a request.                                        *)

Holds(row, n) == n <= Len(row) /\ \A m \in 1 .. n : row[m] = PromptLen + m - 1
LEMMA RecoveredHolds ==
    ASSUME NEW q, q.outputs \in Nat, q.known = q.outputs, PromptLen \in Nat \ {0}
    PROVE  Holds(Recovered(q), q.outputs)
<1> DEFINE n == q.outputs
           s == [p \in 1 .. PromptLen + n |-> p - 1]
<1>1. n \in Nat
  OBVIOUS
<1>2. Recovered(q) = SubSeq(s, PromptLen + n - n + 1, Len(s))
  <2>1. Recovered(q) = LastN(s, n)
    BY DEF Recovered
  <2>2. Len(s) = PromptLen + n
    BY <1>1
  <2> HIDE DEF s, n
  <2> QED BY <1>1, <2>1, <2>2 DEF LastN
<1>3. Recovered(q) = [m \in 1 .. n |-> PromptLen + m - 1]
  <2> HIDE DEF n
  <2>1. s \in Seq(Int) /\ Len(s) = PromptLen + n
    BY <1>1
  <2>2. SubSeq(s, PromptLen + 1, PromptLen + n) = [m \in 1 .. n |-> s[m + PromptLen]]
    <3>1. SubSeq(s, PromptLen + 1, PromptLen + n) =
            [m \in 1 .. 1 + PromptLen + n - (PromptLen + 1) |-> s[PromptLen + 1 + m - 1]]
      BY <1>1, <2>1
    <3> QED BY <1>1, <3>1
  <2>3. \A m \in 1 .. n : s[m + PromptLen] = PromptLen + m - 1
    BY <1>1
  <2>4. PromptLen + n - n + 1 = PromptLen + 1
    BY <1>1
  <2> HIDE DEF s
  <2> QED BY <1>2, <2>1, <2>2, <2>3, <2>4
<1> HIDE DEF n
<1> QED BY <1>1, <1>3 DEF Holds, n

LEMMA ResizedHolds ==
    ASSUME NEW row, NEW n \in Nat, Holds(row, n)
    PROVE  Holds(Resized(row, n), n)
<1>1. Resized(row, n) = [k \in 1 .. n |-> IF k <= Len(row) THEN row[k] ELSE Hole]
  BY DEF Resized
<1>2. Len(Resized(row, n)) = n
  BY <1>1
<1>3. n <= Len(row) /\ \A m \in 1 .. n : row[m] = PromptLen + m - 1
  BY DEF Holds
<1>4. \A m \in 1 .. n : Resized(row, n)[m] = PromptLen + m - 1
  BY <1>1, <1>3
<1> QED BY <1>2, <1>4 DEF Holds

LEMMA HoldsMore ==
    ASSUME NEW s \in Seq(Int), Holds(s, Len(s)), NEW n \in Nat, NEW o,
           o = Len(s), PromptLen \in Nat,
           NEW t, t = s \o [j \in 1 .. n |-> PromptLen + o + j - 1]
    PROVE  Holds(t, Len(t))
<1> DEFINE more == [j \in 1 .. n |-> PromptLen + o + j - 1]
<1>1. o \in Nat
  BY LenProperties
<1>2. more \in Seq(Int) /\ Len(more) = n /\ \A j \in 1 .. n : more[j] = PromptLen + o + j - 1
  BY <1>1
<1> HIDE DEF more
<1>3. /\ t = s \o more /\ Len(t) = o + n
      /\ \A m \in 1 .. o + n : t[m] = IF m <= o THEN s[m] ELSE more[m - o]
  BY <1>1, <1>2, ConcatProperties DEF more
<1>4. ASSUME NEW m \in 1 .. o + n PROVE t[m] = PromptLen + m - 1
  <2>1. CASE m <= o
    BY <1>1, <1>3, <2>1 DEF Holds
  <2>2. CASE ~(m <= o)
    <3>1. m - o \in 1 .. n /\ t[m] = more[m - o]
      BY <1>1, <1>3, <2>2
    <3> QED BY <1>1, <1>2, <3>1
  <2> QED BY <2>1, <2>2
<1> QED BY <1>1, <1>3, <1>4 DEF Holds

(* The CPU's tokens of a step's positions, if it holds them all.           *)
LEMMA CpuHolds ==
    ASSUME NEW new, NEW so, NEW r, NEW n \in Nat, NEW c \in Nat, NEW o \in Nat,
           so.req[r].n = n, so.req[r].computed = c, c + n <= PromptLen + o,
           Holds(new.rows[r], o), PromptLen \in Nat
    PROVE  CpuTokens(new, so, r) = [j \in 1 .. n |-> <<r, c + j - 1>>]
<1> DEFINE row == new.rows[r]
<1>1. CpuTokens(new, so, r) = [j \in 1 .. n |-> CpuToken(new, so, r, j)]
  BY CpuTokensOf
<1>2. ASSUME NEW j \in 1 .. n PROVE CpuToken(new, so, r, j) = <<r, c + j - 1>>
  <2> DEFINE p == c + j - 1
             m == p - PromptLen + 1
  <2>1. p \in Nat /\ p < PromptLen + o /\ o <= Len(row) /\ m \in Int
    BY DEF Holds
  <2>2. ~(p < PromptLen) => m \in 1 .. o /\ PromptLen + m - 1 = p
    <3> HIDE DEF p
    <3> QED BY <2>1
  <2>3. m \in 1 .. o => row[m] = PromptLen + m - 1
    BY DEF Holds
  <2>4. ~(p >= PromptLen + Len(row)) /\ p # Hole
    <3> HIDE DEF row, p
    <3> QED BY <2>1 DEF Hole
  <2>5. CpuToken(new, so, r, j) =
          CASE p < PromptLen -> <<r, p>>
            [] p >= PromptLen + Len(row) -> NoToken
            [] OTHER -> IF row[m] = Hole THEN NoToken ELSE <<r, row[m]>>
    BY DEF CpuToken
  <2> HIDE DEF p, m, row
  <2>6. CpuToken(new, so, r, j) = <<r, p>>
    BY <2>2, <2>3, <2>4, <2>5
  <2> QED BY <2>6 DEF p
<1> QED BY <1>1, <1>2

-----------------------------------------------------------------------------
(***************************************************************************)
(* Every input is the request's own token, on the last rank.               *)
(***************************************************************************)

(* The newest token of a request, and what the CPU holds of the request.   *)
Newest(r) == PromptLen + sampled[r] - 1
Filled(i) == i \in 1 .. Len(Line) /\ Line[i].order # <<>>

\* A step that reaches the last token computes it and the drafts, no more.
ExactReq(q) == Reach(q) => q.computed + q.n - q.drafts = PromptLen + q.outputs
ExactInv(r) ==
    /\ \A i \in {1, 2} : InBox(i, r) => ExactReq(Boxed(i, r))
    /\ InStep(r) => ExactReq(Step.req[r])

\* How many of the outputs a step was scheduled with are real.
TokensInv(r) ==
    /\ Async => /\ Step = NoStep /\ InBox(1, r) =>
                      Boxed(1, r).outputs = sampled[r] + Boxed(1, r).computed - Base(r)
                /\ Step # NoStep /\ InBox(1, r) => Boxed(1, r).outputs = sampled[r] + OwedStep(r)
                /\ InBox(2, r) => Boxed(2, r).outputs = sampled[r] + OwedBox(1, r)
    /\ InStep(r) => Step.req[r].outputs - (Step.req[r].computed - Step.pos[r]) = sampled[r]

\* What is on the device is the newest token of the request.
PrevInv(r) ==
    /\ ~Async => ~InPrev(r)
    /\ Step = NoStep /\ InPrev(r) =>
          /\ sampled[r] > 0 /\ cached[r] = Newest(r)
          /\ Runner.prev.sampled[Runner.prev.index[r]] = <<r, Newest(r)>>

\* A request that starts again has left the device before it does.
AgainInv(r) ==
    /\ Step = NoStep /\ InPrev(r) =>
          /\ request[r].state \in {"waiting", "preempted"} => Filled(1) \/ Filled(2)
          /\ InBox(1, r) => Boxed(1, r).kind = "run"
          /\ InBox(2, r) /\ Boxed(2, r).kind # "run" => Filled(1)
    /\ request[r].state = "preempted" =>
          /\ InStep(r) => Filled(1)
          /\ InBox(1, r) => Filled(2)

\* Drafts follow the token they are drafted after.
AfterInv(r) ==
    /\ Running(r) /\ request[r].drafts > 0 =>
          /\ PromptLen + request[r].out + request[r].placeholders = request[r].computed + 1
          /\ InNewest(r) =>
                IF Line # <<>> THEN Reach(Boxed(Len(Line), r))
                ELSE IF Step # NoStep THEN Reach(Step.req[r])
                ELSE InPrev(r)
    /\ InBox(1, r) /\ Boxed(1, r).drafts > 0 =>
          IF Step = NoStep THEN InPrev(r) ELSE InStep(r) /\ Reach(Step.req[r])
    /\ InBox(2, r) /\ Boxed(2, r).drafts > 0 => InBox(1, r) /\ Reach(Boxed(1, r))

\* What is not on the device is in the CPU's row.
RowInv(r) ==
    /\ Async /\ InRows(r) /\ (IF Step = NoStep THEN ~InPrev(r) ELSE ~Reach(Step.req[r]))
          => Holds(Runner.rows[r], sampled[r])
    /\ ~Async => /\ InWorker(r) => Holds(Runner.reqs[r].out, OutLen(r))
                 /\ InRows(r) => Runner.rows[r] = Runner.reqs[r].out

OwnInv(r) == /\ ExactInv(r) /\ TokensInv(r) /\ PrevInv(r) /\ AgainInv(r)
             /\ AfterInv(r) /\ RowInv(r)

LastInputs == Step # NoStep =>
    Step.inputs = OwnTokens([req |-> Step.req, order |-> Runner.order], Step.pos)

LEMMA ReachSame ==
    \A q : (Reach(q)' <=> Reach(q)) /\ (ExactReq(q)' <=> ExactReq(q))
BY DEF Reach, ExactReq

(* The types of the first step of the line.                                *)
LEMMA FirstTypes ==
    ASSUME LineInv, NEW r \in Reqs, InBox(1, r)
    PROVE  LET q == Boxed(1, r)
           IN  /\ q \in ScheduledRec /\ q.n \in Nat \ {0} /\ q.computed \in Int
               /\ q.outputs \in Nat /\ q.drafts \in Nat /\ q.known \in Nat
               /\ q.kind \in {"new", "resumed", "run"}
               /\ GoodReq(q) /\ PromptLen \in Nat \ {0}
               /\ sampled[r] \in Nat /\ cached[r] \in Nat /\ Base(r) \in Nat
<1> DEFINE q == Boxed(1, r)
<1>1. q \in ScheduledRec /\ GoodReq(q)
  BY PlaceTypes DEF LineInv, RequestInv, GoodSteps
<1>2. /\ PromptLen \in Nat \ {0} /\ sampled[r] \in Nat /\ cached[r] \in Nat /\ Base(r) \in Nat
  BY Numbers DEF LineInv
<1> HIDE DEF q
<1>3. /\ q.n \in Nat \ {0} /\ q.computed \in Int /\ q.outputs \in Int /\ q.drafts \in Nat
      /\ q.known \in Nat /\ q.kind \in {"new", "resumed", "run"}
  BY <1>1, RecordTypes
<1>4. q.outputs >= 0
  BY <1>1 DEF GoodReq
<1> QED BY <1>1, <1>2, <1>3, <1>4 DEF q

(* A step whose request is on the device computes its newest token and its *)
(* drafts.                                                                 *)
LEMMA OnDevice ==
    ASSUME LineInv, NEW r \in Reqs, OwnInv(r), Step = NoStep, InBox(1, r), InPrev(r)
    PROVE  LET q == Boxed(1, r)
           IN  /\ Async /\ q.kind = "run" /\ Reach(q) /\ q.n = q.drafts + 1
               /\ Base(r) = Newest(r)
<1> DEFINE q == Boxed(1, r)
           n == q.n
           c == q.computed
           o == q.outputs
           d == q.drafts
<1>1. /\ n \in Nat \ {0} /\ c \in Int /\ o \in Nat /\ d \in Nat
      /\ PromptLen \in Nat /\ sampled[r] \in Nat /\ cached[r] \in Nat
  BY FirstTypes
<1>2. Async /\ q.kind = "run" /\ cached[r] = Newest(r)
  BY DEF OwnInv, PrevInv, AgainInv
<1>3. Base(r) = Newest(r)
  <2>1. AimInv(r)
    BY DEF LineInv, RequestInv
  <2>2. ~Afresh(r)
    BY <1>2, <2>1 DEF AimInv, Afresh
  <2> QED BY <1>2, <2>2 DEF Base
<1>4. o = sampled[r] + c - Base(r)
  BY <1>2 DEF OwnInv, TokensInv
<1>6. ExactReq(q)
  BY DEF OwnInv, ExactInv
<1>7. Reach(q) <=> c + n >= PromptLen + o
  BY DEF Reach
<1>8. Reach(q) => c + n - d = PromptLen + o
  BY <1>6 DEF ExactReq
<1> HIDE DEF q, n, c, o, d
<1>9. c = PromptLen + o - 1
  BY <1>1, <1>3, <1>4 DEF Newest
<1>10. Reach(q) /\ n = d + 1
  BY <1>1, <1>7, <1>8, <1>9
<1> QED BY <1>2, <1>3, <1>10 DEF q, n, d

(* A step whose request is not on the device computes what the CPU knows.  *)
LEMMA OnHost ==
    ASSUME LineInv, NEW r \in Reqs, OwnInv(r), Step = NoStep, InBox(1, r), ~InPrev(r)
    PROVE  LET q == Boxed(1, r)
           IN  /\ q.outputs = sampled[r] /\ q.computed = Base(r)
               /\ q.computed + q.n <= PromptLen + sampled[r]
<1> DEFINE q == Boxed(1, r)
           n == q.n
           c == q.computed
           o == q.outputs
           d == q.drafts
<1>1. /\ n \in Nat \ {0} /\ c \in Int /\ o \in Nat /\ d \in Nat /\ Base(r) \in Nat
      /\ PromptLen \in Nat /\ sampled[r] \in Nat
  BY FirstTypes
<1>2. Shift(r) = 0
  BY DEF Shift
<1>3. c = Base(r)
  <2>1. c - Shift(r) = Base(r)
    BY DEF LineInv, RequestInv, AimInv
  <2> HIDE DEF c
  <2> QED BY <1>1, <1>2, <2>1
<1>4. o = sampled[r]
  <2>1. CASE Async
    <3>1. o = sampled[r] + c - Base(r)
      BY <2>1 DEF OwnInv, TokensInv
    <3> HIDE DEF o, c
    <3> QED BY <1>1, <1>3, <3>1
  <2>2. CASE ~Async
    BY <2>2 DEF LineInv, RequestInv, PlainInv
  <2> QED BY <2>1, <2>2
<1>5. d = 0
  <2>1. ~(d > 0)
    BY DEF OwnInv, AfterInv
  <2> HIDE DEF d
  <2> QED BY <1>1, <2>1
<1>6. ExactReq(q)
  BY DEF OwnInv, ExactInv
<1>7. Reach(q) <=> c + n >= PromptLen + o
  BY DEF Reach
<1>8. Reach(q) => c + n - d = PromptLen + o
  BY <1>6 DEF ExactReq
<1> HIDE DEF q, n, c, o, d
<1>9. c + n <= PromptLen + sampled[r]
  BY <1>1, <1>3, <1>4, <1>5, <1>7, <1>8
<1> QED BY <1>3, <1>4, <1>9 DEF q, n, c, o

NewRow(r) == UpdateStates(Runner, Head(Line), Async, TRUE).rows[r]
NewOut(r) == Outputs(Runner, Head(Line), r, Async, TRUE)

(* The row of a request of the step that is executed, and its outputs.     *)
LEMMA NewRowFields ==
    ASSUME LineInv, ExecuteModel("last"), NEW r \in Reqs, InBox(1, r)
    PROVE  LET so == Head(Line)
               q == Boxed(1, r)
           IN  /\ so.req[r] = q /\ r \in Scheduled(so) /\ Step = NoStep
               /\ InBatch(Runner, so, r) <=> InRows(r) /\ q.kind = "run"
               /\ NewRow(r) = IF InBatch(Runner, so, r) THEN KeptRow(Runner, so, r, Async, TRUE)
                                                        ELSE NewOut(r)
               /\ NewOut(r) \in Seq(Int) /\ Len(NewOut(r)) = q.outputs
               /\ q.kind = "new" => ~InRows(r) /\ q.outputs = 0
<1> DEFINE so == Head(Line)
           q == Boxed(1, r)
<1>1. LineType /\ RequestInv(r)
  BY DEF LineInv
<1>2. so.req[r] = q /\ r \in Scheduled(so) /\ Step = NoStep /\ (r \in so.ended <=> EndsBox(1, r))
  BY <1>1, ExecutedLine
<1>3. NewOut(r) \in Seq(Int) /\ Len(NewOut(r)) = q.outputs
  BY <1>1, ExecutedOutputs DEF NewOut
<1>4. ~EndsBox(1, r)
  <2>1. EndedInv(r) /\ 1 \in {1, 2} /\ 1 <= 1
    BY <1>1 DEF RequestInv
  <2> QED BY <2>1 DEF EndedInv
<1>5. q.kind = "new" => ~InRows(r) /\ q.outputs = 0
  <2>1. GoodReq(q) /\ AimInv(r) /\ WorkerInv(r)
    BY <1>1, FirstTypes DEF RequestInv
  <2> QED BY <1>2, <2>1 DEF GoodReq, AimInv, WorkerInv
<1>6. q.kind \in {"new", "resumed", "run"}
  BY FirstTypes
<1>7. InBatch(Runner, so, r) <=> InRows(r) /\ q.kind = "run"
  BY <1>2, <1>4, <1>5, <1>6 DEF InBatch, InRows
<1>8. NewRow(r) = IF InBatch(Runner, so, r) THEN KeptRow(Runner, so, r, Async, TRUE)
                                           ELSE NewOut(r)
  <2>1. Runner = [reqs |-> Runner.reqs, rows |-> Runner.rows, order |-> Runner.order,
                  prev |-> Runner.prev]
    BY <1>1 DEF LineType, WorkerType
  <2> HIDE DEF so
  <2>2. Updated(UpdateStates(Runner, so, Async, TRUE), Runner, so)
    BY <2>1, UpdateStatesFields
  <2> QED BY <1>2, <2>2 DEF Updated, NewRow, NewOut, so
<1> QED BY <1>2, <1>3, <1>5, <1>7, <1>8

(* A request that is not on the device has its tokens in its row.          *)
LEMMA NewRowHolds ==
    ASSUME LineInv, ExecuteModel("last"), NEW r \in Reqs, OwnInv(r), InBox(1, r), ~InPrev(r), Async
    PROVE  Holds(NewRow(r), sampled[r])
<1> DEFINE so == Head(Line)
           q == Boxed(1, r)
<1>1. /\ so.req[r] = q /\ r \in Scheduled(so) /\ Step = NoStep
      /\ InBatch(Runner, so, r) <=> InRows(r) /\ q.kind = "run"
      /\ NewRow(r) = IF InBatch(Runner, so, r) THEN KeptRow(Runner, so, r, Async, TRUE)
                                               ELSE NewOut(r)
      /\ NewOut(r) \in Seq(Int) /\ Len(NewOut(r)) = q.outputs
      /\ q.kind = "new" => ~InRows(r) /\ q.outputs = 0
  BY NewRowFields
<1>2. q.outputs = sampled[r] /\ sampled[r] \in Nat /\ PromptLen \in Nat \ {0}
  BY <1>1, OnHost, FirstTypes
<1>3. CASE InBatch(Runner, so, r)
  <2> DEFINE row == Runner.rows[r]
  <2>1. Holds(row, sampled[r])
    BY <1>1, <1>3 DEF OwnInv, RowInv
  <2>2. KeptRow(Runner, so, r, Async, TRUE) = Resized(row, q.outputs)
        \/ KeptRow(Runner, so, r, Async, TRUE) = row
    BY <1>1 DEF KeptRow
  <2> HIDE DEF row, q, so
  <2>3. Holds(Resized(row, q.outputs), sampled[r])
    BY <1>2, <2>1, ResizedHolds
  <2> QED BY <1>1, <1>3, <2>1, <2>2, <2>3
<1>4. CASE ~InBatch(Runner, so, r) /\ q.outputs = 0
  <2>1. Len(NewOut(r)) = 0 /\ sampled[r] = 0
    BY <1>1, <1>2, <1>4
  <2>2. Holds(NewOut(r), 0)
    BY <2>1 DEF Holds
  <2> QED BY <1>1, <1>4, <2>1, <2>2
<1>5. CASE ~InBatch(Runner, so, r) /\ q.outputs # 0
  <2>1. q.kind # "new" /\ q.outputs > 0
    BY <1>1, <1>2, <1>5
  <2>2. NewOut(r) = Recovered(q)
    BY <1>1, <1>5, <2>1 DEF NewOut, Outputs
  <2>3. q.outputs = q.known
    BY <1>1, <1>5 DEF LineInv, RequestInv, AimInv
  <2> HIDE DEF q, so
  <2>4. Holds(Recovered(q), q.outputs)
    BY <1>2, <2>3, RecoveredHolds
  <2> QED BY <1>1, <1>2, <1>5, <2>2, <2>4
<1> QED BY <1>3, <1>4, <1>5

(* A runner that waits for its tokens has them in every list and row.      *)
LEMMA PlainRow ==
    ASSUME LineInv, ExecuteModel("last"), NEW r \in Reqs, OwnInv(r), InBox(1, r), ~Async
    PROVE  Holds(NewOut(r), Len(NewOut(r))) /\ NewRow(r) = NewOut(r)
<1> DEFINE so == Head(Line)
           q == Boxed(1, r)
           out == Runner.reqs[r].out
<1>1. /\ so.req[r] = q /\ r \in Scheduled(so) /\ Step = NoStep
      /\ InBatch(Runner, so, r) <=> InRows(r) /\ q.kind = "run"
      /\ NewRow(r) = IF InBatch(Runner, so, r) THEN KeptRow(Runner, so, r, Async, TRUE)
                                               ELSE NewOut(r)
      /\ NewOut(r) \in Seq(Int) /\ Len(NewOut(r)) = q.outputs
      /\ q.kind = "new" => ~InRows(r) /\ q.outputs = 0
  BY NewRowFields
<1>2. CASE q.kind = "new"
  <2>1. NewRow(r) = NewOut(r) /\ Len(NewOut(r)) = 0
    BY <1>1, <1>2
  <2> QED BY <2>1 DEF Holds
<1>3. CASE q.kind # "new"
  <2>1. InWorker(r) /\ q.outputs = Len(out)
    <3>1. AimInv(r) /\ PlainInv(r)
      BY DEF LineInv, RequestInv
    <3>2. InWorker(r)
      BY <1>1, <1>3, <3>1 DEF AimInv
    <3> QED BY <3>1, <3>2 DEF PlainInv, OutLen
  <2>2. out \in Seq(Int)
    BY <2>1 DEF LineInv, LineType, WorkerType, InWorker, IsWorkerReq
  <2>3. Holds(out, Len(out)) /\ (InRows(r) => Runner.rows[r] = out)
    BY <2>1 DEF OwnInv, RowInv, OutLen
  <2>4. Optimistic(Runner, so, r, Async) = 0
    BY DEF Optimistic
  <2>5. Holes(0) = <<>>
    BY DEF Holes
  <2>6. out \o Holes(Optimistic(Runner, so, r, Async)) = out
    <3> HIDE DEF out, so
    <3> QED BY <2>2, <2>4, <2>5
  <2>7. NewOut(r) = out
    <3>1. NewOut(r) = Aligned(Runner, so, r, Async, TRUE)
      BY <1>1, <1>3 DEF NewOut, Outputs
    <3>2. ~(so.req[r].outputs < Len(out))
      <4> HIDE DEF out, so, q
      <4> QED BY <1>1, <2>1, <2>2
    <3>3. Aligned(Runner, so, r, Async, TRUE) = out
      BY <2>6, <3>2 DEF Aligned
    <3> QED BY <3>1, <3>3
  <2>8. InBatch(Runner, so, r) => KeptRow(Runner, so, r, Async, TRUE) = out
    <3> HIDE DEF so
    <3>1. ~(so.req[r].outputs < Len(Runner.reqs[r].out) + Optimistic(Runner, so, r, Async))
      <4> HIDE DEF q
      <4>1. Len(Runner.reqs[r].out) + Optimistic(Runner, so, r, Async) = q.outputs
        BY <2>1, <2>2, <2>4
      <4>2. q.outputs \in Nat
        BY <2>1, <2>2
      <4> QED BY <1>1, <4>1, <4>2
    <3>2. KeptRow(Runner, so, r, Async, TRUE) = Runner.rows[r]
      BY <3>1 DEF KeptRow
    <3> QED BY <1>1, <2>3, <3>2
  <2> HIDE DEF out, so, q
  <2> QED BY <1>1, <2>3, <2>7, <2>8
<1> QED BY <1>2, <1>3

(* Every request of the step that is executed fits in.                     *)
LEMMA FitsNow ==
    ASSUME LineInv, \A r \in Reqs : OwnInv(r), ExecuteModel("last")
    PROVE  LET so == Head(Line)
           IN  Fits(Runner, UpdateStates(Runner, so, Async, TRUE), so,
                    [r \in Scheduled(so) |-> Position(Runner, so, r, Async)])
<1> DEFINE so == Head(Line)
           new == UpdateStates(Runner, so, Async, TRUE)
           pos == [r \in Scheduled(so) |-> Position(Runner, so, r, Async)]
<1>1. LineType /\ InboxType /\ "last" \in Ranks /\ inbox["last"] # <<>>
  BY Sizes DEF LineInv, LineType, TypeInv, ExecuteModel
<1>2. so.req \in StepReqs /\ so.order \in SetToSeqs(DOMAIN so.req)
  BY <1>1, InboxHead DEF Line
<1>3. Scheduled(so) \subseteq Reqs /\ so.order \in Seq(Scheduled(so))
  <2> HIDE DEF so
  <2> QED BY <1>2, StepReqsFacts, OrderFacts DEF Scheduled
<1>4. ASSUME NEW r \in Scheduled(so)
      PROVE  /\ r \in Reqs /\ InBox(1, r) /\ so.req[r] = Boxed(1, r) /\ Step = NoStep
             /\ pos[r] = Base(r) /\ RequestInv(r) /\ OwnInv(r)
  <2>1. r \in Reqs /\ RequestInv(r) /\ OwnInv(r)
    BY <1>3 DEF LineInv
  <2>2. InBox(1, r) /\ so.req[r] = Boxed(1, r) /\ Step = NoStep
    BY <1>1, <2>1, ExecutedLine
  <2>3. Position(Runner, so, r, Async) = Base(r)
    BY <1>1, <2>1, <2>2, ExecutedShift
  <2> QED BY <2>1, <2>2, <2>3
<1>5. Batch(so)
  <2>1. \A r \in Scheduled(so) : /\ so.req[r].n \in Nat /\ so.req[r].drafts \in Nat
                                 /\ so.req[r].drafts < so.req[r].n
    BY <1>4, FirstTypes DEF GoodReq
  <2> QED BY <1>3, <2>1 DEF Batch
<1>6. \A r \in Scheduled(so) : pos[r] \in Int
  BY <1>4, FirstTypes
<1>7. ASSUME NEW r \in Scheduled(so)
      PROVE  IF r \in DOMAIN Runner.prev.index
             THEN /\ so.req[r].n = so.req[r].drafts + 1
                  /\ Runner.prev.sampled[Runner.prev.index[r]] = <<r, pos[r]>>
             ELSE CpuTokens(new, so, r) = [j \in 1 .. so.req[r].n |-> <<r, pos[r] + j - 1>>]
  <2>1. /\ r \in Reqs /\ InBox(1, r) /\ so.req[r] = Boxed(1, r) /\ Step = NoStep
        /\ pos[r] = Base(r) /\ OwnInv(r)
    BY <1>4
  <2>2. CASE InPrev(r)
    <3>1. so.req[r].n = so.req[r].drafts + 1 /\ Base(r) = Newest(r)
      BY <2>1, <2>2, OnDevice
    <3>2. Runner.prev.sampled[Runner.prev.index[r]] = <<r, Newest(r)>>
      BY <2>1, <2>2 DEF OwnInv, PrevInv
    <3> QED BY <2>1, <2>2, <3>1, <3>2 DEF InPrev
  <2>3. CASE ~InPrev(r)
    <3> DEFINE n == so.req[r].n
               c == so.req[r].computed
               o == sampled[r]
    <3>1. c = Base(r) /\ c + n <= PromptLen + o /\ so.req[r].outputs = o
      BY <2>1, <2>3, OnHost
    <3>2. n \in Nat /\ c \in Nat /\ o \in Nat /\ PromptLen \in Nat
      BY <2>1, <3>1, FirstTypes
    <3>3. Holds(new.rows[r], o)
      <4>1. CASE Async
        BY <2>1, <2>3, <4>1, NewRowHolds DEF NewRow
      <4>2. CASE ~Async
        <5>1. Holds(NewOut(r), Len(NewOut(r))) /\ NewRow(r) = NewOut(r)
          BY <2>1, <4>2, PlainRow
        <5>2. Len(NewOut(r)) = Boxed(1, r).outputs
          BY <2>1, NewRowFields
        <5> QED BY <2>1, <3>1, <5>1, <5>2 DEF NewRow
      <4> QED BY <4>1, <4>2
    <3>4. CpuTokens(new, so, r) = [j \in 1 .. n |-> <<r, c + j - 1>>]
      <4>1. so.req[r].n = n /\ so.req[r].computed = c
        OBVIOUS
      <4> HIDE DEF so, new, n, c, o
      <4> QED BY <3>1, <3>2, <3>3, <4>1, CpuHolds
    <3> QED BY <2>1, <2>3, <3>1, <3>4 DEF InPrev
  <2> QED BY <2>2, <2>3
<1> HIDE DEF so, new, pos
<1>8. Fits(Runner, new, so, pos)
  BY <1>5, <1>6, <1>7 DEF Fits
<1> QED BY <1>8 DEF so, new, pos

(* So the inputs of a step are its requests' own tokens.                   *)
LEMMA ExecutedInputs ==
    ASSUME LineInv, \A r \in Reqs : OwnInv(r), ExecuteModel("last")
    PROVE  LastInputs'
<1> DEFINE so == Head(Line)
           new == UpdateStates(Runner, so, Async, TRUE)
           pos == [r \in Scheduled(so) |-> Position(Runner, so, r, Async)]
<1>1. InputIds(Runner, new, so) = OwnTokens(so, pos)
  <2>1. Fits(Runner, new, so, pos)
    BY FitsNow
  <2> HIDE DEF so, new, pos
  <2> QED BY <2>1, FittingInputs
<1>2. Runner'.order = so.order
  BY ExecutedRunner
<1>3. CASE Scheduled(so) = {}
  <2>1. Step' = NoStep
    BY <1>3, ExecutedStep
  <2> QED BY <2>1 DEF LastInputs, NoStep
<1>4. CASE Scheduled(so) # {}
  <2>1. Step'.req = so.req /\ Step'.pos = pos /\ Step'.inputs = InputIds(Runner, new, so)
    BY <1>4, ExecutedStep
  <2> DEFINE so2 == [req |-> Step'.req, order |-> Runner'.order]
  <2>2. so2.req = so.req /\ so2.order = so.order
    BY <1>2, <2>1
  <2> HIDE DEF so, new, pos, so2
  <2>3. OwnTokens(so2, Step'.pos) = OwnTokens(so, pos)
    BY <2>1, <2>2 DEF OwnTokens
  <2>4. Step'.inputs = OwnTokens(so2, Step'.pos)
    BY <1>1, <2>1, <2>3
  <2> QED BY <2>4 DEF LastInputs, so2
<1> QED BY <1>3, <1>4

(* Where the other steps of the line are after one is executed.            *)
LEMMA ExecutedFilled ==
    ASSUME LineInv, ExecuteModel("last"), NEW r \in Reqs
    PROVE  /\ Filled(1)' <=> Filled(2)
           /\ Step' = NoStep => ~Filled(1)
           /\ Len(Line) \in {1, 2}
           /\ Line' # <<>> <=> Len(Line) = 2
           /\ Line' # <<>> => Len(Line') = 1
           /\ InBox(1, r) => Step' # NoStep
<1> DEFINE so == Head(Line)
<1>1. LineType /\ InboxType /\ "last" \in Ranks /\ inbox["last"] # <<>> /\ Line = inbox["last"]
  BY Sizes DEF LineInv, LineType, TypeInv, ExecuteModel, Line
<1>2. /\ so = Line[1] /\ so.order \in SetToSeqs(DOMAIN so.req) /\ so.req \in StepReqs
      /\ Len(Line') = Len(Line) - 1 /\ Len(Line) \in {1, 2}
      /\ Len(Line) = 2 <=> Line' # <<>>
  BY <1>1, ExecutedLine
<1>3. Len(Tail(Line)) = Len(Line) - 1 /\ \A i \in 1 .. Len(Tail(Line)) : Tail(Line)[i] = Line[i + 1]
  BY <1>1, InboxHead
<1>4. Line' = Tail(Line)
  <2>1. inbox' = [inbox EXCEPT !["last"] = Tail(@)]
    BY DEF ExecuteModel
  <2> QED BY <1>1, <2>1 DEF InboxType, Line
<1>5. Filled(1)' <=> Filled(2)
  <2>1. CASE Len(Line) = 2
    <3>1. Line'[1] = Line[2] /\ 1 \in 1 .. Len(Line') /\ 2 \in 1 .. Len(Line)
      BY <1>2, <1>3, <1>4, <2>1
    <3> QED BY <3>1 DEF Filled
  <2>2. CASE Len(Line) = 1
    <3>1. 1 \notin 1 .. Len(Line') /\ 2 \notin 1 .. Len(Line)
      BY <1>2, <2>2
    <3> QED BY <3>1 DEF Filled
  <2> QED BY <1>2, <2>1, <2>2
<1>6. Step' = NoStep => ~Filled(1)
  <2>1. Step' = NoStep => Scheduled(so) = {}
    BY ExecutedStep
  <2>2. Scheduled(so) = {} => so.order = <<>>
    <3> HIDE DEF so
    <3>1. DOMAIN so.req \in SUBSET Reqs
      BY <1>2, StepReqsFacts
    <3>2. so.order \in Seq(Reqs) /\ Len(so.order) = Cardinality(DOMAIN so.req)
      BY <1>2, <3>1, OrderFacts
    <3>3. Cardinality({}) = 0
      BY FS_EmptySet
    <3> QED BY <3>2, <3>3 DEF Scheduled
  <2> QED BY <1>2, <2>1, <2>2 DEF Filled
<1>7. InBox(1, r) => Step' # NoStep
  BY Executed DEF Execution
<1> QED BY <1>2, <1>5, <1>6, <1>7

LEMMA ExecutedTokens ==
    ASSUME LineInv, ExecuteModel("last"), NEW r \in Reqs, OwnInv(r)
    PROVE  ExactInv(r)' /\ TokensInv(r)' /\ PrevInv(r)'
<1>1. /\ Step = NoStep /\ sampled' = sampled
      /\ InBox(1, r)' <=> InBox(2, r)
      /\ InBox(2, r) => Boxed(1, r)' = Boxed(2, r)
      /\ ~InBox(2, r)'
      /\ InStep(r)' <=> InBox(1, r)
      /\ InBox(1, r) => Step' # NoStep /\ Step'.req[r] = Boxed(1, r) /\ Step'.pos[r] = Base(r)
      /\ ~InBox(1, r) => cached'[r] = cached[r]
  BY Executed DEF Execution
<1>2. /\ Base(r)' = Base(r) /\ OwedStep(r)' = OwedBox(1, r) /\ Async' = Async
  BY ExecutedCounts
<1>3. InPrev(r)' <=> InPrev(r)
  BY ExecutedRunner DEF InPrev
<1>4. ExactInv(r)'
  BY <1>1, ReachSame DEF OwnInv, ExactInv
<1>5. TokensInv(r)'
  <2>1. ASSUME Async, Step' = NoStep, InBox(1, r)'
        PROVE  Boxed(1, r)'.outputs = sampled[r] + Boxed(1, r)'.computed - Base(r)'
    <3> DEFINE o == Boxed(2, r).outputs
               c == Boxed(2, r).computed
    <3>1. ~InBox(1, r) /\ InBox(2, r) /\ OwedBox(1, r) = 0
      BY <1>1, <2>1 DEF OwedBox
    <3>2. o = sampled[r] + OwedBox(1, r)
      BY <2>1, <3>1 DEF OwnInv, TokensInv
    <3>3. c = Base(r)
      BY <3>1 DEF LineInv, RequestInv, AimInv, Settled
    <3>4. sampled[r] \in Nat /\ Base(r) \in Nat
      BY Numbers DEF LineInv
    <3>5. o = sampled[r] + c - Base(r)
      <4> HIDE DEF o, c
      <4> QED BY <3>1, <3>2, <3>3, <3>4
    <3> QED BY <1>1, <1>2, <3>1, <3>5
  <2>2. ASSUME Async, Step' # NoStep, InBox(1, r)'
        PROVE  Boxed(1, r)'.outputs = sampled[r] + OwedStep(r)'
    BY <1>1, <1>2, <2>2 DEF OwnInv, TokensInv
  <2>3. ASSUME InBox(1, r)
        PROVE  Boxed(1, r).outputs - (Boxed(1, r).computed - Base(r)) = sampled[r]
    <3> DEFINE o == Boxed(1, r).outputs
               c == Boxed(1, r).computed
    <3>1. o \in Nat /\ c \in Int /\ Base(r) \in Nat /\ sampled[r] \in Nat
      BY <2>3, FirstTypes
    <3>2. CASE Async
      <4>1. o = sampled[r] + c - Base(r)
        BY <1>1, <2>3, <3>2 DEF OwnInv, TokensInv
      <4> HIDE DEF o, c
      <4>2. o - (c - Base(r)) = sampled[r]
        BY <3>1, <4>1
      <4> QED BY <4>2 DEF o, c
    <3>3. CASE ~Async
      <4>1. o = sampled[r] /\ c - Shift(r) = Base(r) /\ Shift(r) = 0
        BY <1>1, <2>3, <3>3 DEF LineInv, RequestInv, PlainInv, AimInv, Shift
      <4> HIDE DEF o, c
      <4>2. o - (c - Base(r)) = sampled[r]
        BY <3>1, <4>1
      <4> QED BY <4>2 DEF o, c
    <3> QED BY <3>2, <3>3
  <2>4. (Step = NoStep)' <=> Step' = NoStep
    BY DEF NoStep
  <2> QED BY <1>1, <1>2, <2>1, <2>2, <2>3, <2>4 DEF TokensInv
<1>6. PrevInv(r)'
  <2>1. Runner'.prev = Runner.prev
    BY ExecutedRunner
  <2>2. Step' = NoStep => cached'[r] = cached[r]
    BY <1>1
  <2>3. Newest(r)' = Newest(r)
    BY <1>1 DEF Newest
  <2>4. (Step = NoStep)' <=> Step' = NoStep
    BY DEF NoStep
  <2> QED BY <1>1, <1>2, <1>3, <2>1, <2>2, <2>3, <2>4 DEF OwnInv, PrevInv
<1> QED BY <1>4, <1>5, <1>6

LEMMA ExecutedAfter ==
    ASSUME LineInv, ExecuteModel("last"), NEW r \in Reqs, OwnInv(r)
    PROVE  AgainInv(r)' /\ AfterInv(r)'
<1>1. /\ Step = NoStep /\ request' = request
      /\ InBox(1, r)' <=> InBox(2, r)
      /\ InBox(2, r) => Boxed(1, r)' = Boxed(2, r)
      /\ ~InBox(2, r)'
      /\ InStep(r)' <=> InBox(1, r)
      /\ InBox(1, r) => Step' # NoStep /\ Step'.req[r] = Boxed(1, r)
      /\ InNewest(r)' <=> InNewest(r)
  BY Executed DEF Execution
<1>2. InPrev(r)' <=> InPrev(r)
  BY ExecutedRunner DEF InPrev
<1>3. /\ Filled(1)' <=> Filled(2)
      /\ Step' = NoStep => ~Filled(1)
      /\ Len(Line) \in {1, 2}
      /\ Line' # <<>> <=> Len(Line) = 2
      /\ Line' # <<>> => Len(Line') = 1
  BY ExecutedFilled
<1>4. (Step = NoStep)' <=> Step' = NoStep
  BY DEF NoStep
<1>5. AgainInv(r)'
  <2>1. request[r].state = "preempted" => ~InBox(2, r)
    <3>1. StateInv(r)
      BY DEF LineInv, RequestInv
    <3>2. InBox(2, r) => Len(Line) = 2 /\ Line # <<>>
      BY <1>3 DEF InBox
    <3> QED BY <3>1, <3>2 DEF StateInv, InNewest
  <2> QED BY <1>1, <1>2, <1>3, <1>4, <2>1 DEF OwnInv, AgainInv
<1>6. AfterInv(r)'
  <2>1. /\ Running(r)' <=> Running(r)
        /\ request'[r] = request[r]
    BY <1>1 DEF Running
  <2>2. ASSUME Running(r), request[r].drafts > 0
        PROVE  /\ PromptLen + request[r].out + request[r].placeholders = request[r].computed + 1
               /\ InNewest(r) => Line # <<>> /\ InBox(Len(Line), r) /\ Reach(Boxed(Len(Line), r))
    <3>1. Line # <<>>
      BY <1>3
    <3> QED BY <2>2, <3>1 DEF OwnInv, AfterInv, InNewest
  <2>3. Line' # <<>> => Boxed(Len(Line), r)' = Boxed(1, r)' /\ Len(Line) = 2
    BY <1>3
  <2>4. Line' = <<>> => Len(Line) = 1
    BY <1>3
  <2>5. ASSUME Running(r), request[r].drafts > 0, InNewest(r)
        PROVE  (IF Line # <<>> THEN Reach(Boxed(Len(Line), r))
                ELSE IF Step # NoStep THEN Reach(Step.req[r])
                ELSE InPrev(r))'
    <3>1. InBox(Len(Line), r) /\ Reach(Boxed(Len(Line), r))
      BY <2>2, <2>5
    <3>2. CASE Line' # <<>>
      <4>1. Boxed(Len(Line), r)' = Boxed(2, r) /\ Reach(Boxed(2, r))
        BY <1>1, <2>3, <3>1, <3>2
      <4>3. Reach(Boxed(Len(Line), r))'
        BY <4>1 DEF Reach
      <4> QED BY <3>2, <4>3
    <3>3. CASE Line' = <<>>
      <4>1. InBox(1, r) /\ Reach(Boxed(1, r))
        BY <2>4, <3>1, <3>3
      <4>2. Reach(Step.req[r])'
        BY <1>1, <4>1 DEF Reach
      <4> QED BY <1>1, <1>4, <3>3, <4>1, <4>2
    <3> QED BY <3>2, <3>3
  <2>6. ASSUME InBox(1, r)', Boxed(1, r)'.drafts > 0
        PROVE  Step' # NoStep /\ InStep(r)' /\ Reach(Step.req[r])'
    <3>1. InBox(1, r) /\ Reach(Boxed(1, r))
      BY <1>1, <2>6 DEF OwnInv, AfterInv
    <3> QED BY <1>1, <3>1 DEF Reach
  <2> QED BY <1>1, <1>4, <2>1, <2>2, <2>5, <2>6 DEF AfterInv
<1> QED BY <1>5, <1>6

LEMMA ExecutedRows ==
    ASSUME LineInv, ExecuteModel("last"), NEW r \in Reqs, OwnInv(r)
    PROVE  RowInv(r)'
<1>1. /\ Step = NoStep /\ sampled' = sampled
      /\ InWorker(r)' <=> (InWorker(r) /\ ~EndsBox(1, r)) \/ InBox(1, r)
      /\ InRows(r)' <=> InBox(1, r)
      /\ InBox(1, r) => Step' # NoStep /\ Step'.req[r] = Boxed(1, r)
  BY Executed DEF Execution
<1>2. Async' = Async
  BY ExecutedCounts
<1>3. r \in Scheduled(Head(Line)) <=> InBox(1, r)
  BY ExecutedLine DEF LineInv
<1>4. /\ Runner'.rows[r] = NewRow(r)
      /\ InBox(1, r) => Runner'.reqs[r].out = NewOut(r)
      /\ ~InBox(1, r) /\ InWorker(r)' => Runner'.reqs[r].out = Runner.reqs[r].out
  <2>1. Runner'.rows[r] = NewRow(r)
    BY ExecutedRunner DEF NewRow
  <2>2. InBox(1, r) => Runner'.reqs[r].out = NewOut(r)
    BY <1>3, ExecutedRunner DEF NewOut
  <2>3. InWorker(r)' => r \in Kept(Runner, Head(Line))
    BY ExecutedRunner DEF InWorker
  <2> QED BY <1>3, <2>1, <2>2, <2>3, ExecutedRunner
<1>5. ASSUME Async, InBox(1, r), ~Reach(Boxed(1, r))
      PROVE  Holds(NewRow(r), sampled[r])
  <2>1. ~InPrev(r)
    BY <1>1, <1>5, OnDevice
  <2> QED BY <1>5, <2>1, NewRowHolds
<1>6. ASSUME ~Async, InBox(1, r)
      PROVE  Holds(NewOut(r), Len(NewOut(r))) /\ NewRow(r) = NewOut(r)
  BY <1>6, PlainRow
<1>7. ASSUME ~Async, ~InBox(1, r), InWorker(r)'
      PROVE  Holds(Runner.reqs[r].out, Len(Runner.reqs[r].out))
  BY <1>1, <1>7 DEF OwnInv, RowInv, OutLen
<1>8. (Step = NoStep)' <=> Step' = NoStep
  BY DEF NoStep
<1>9. \A row, n : Holds(row, n)' <=> Holds(row, n)
  BY DEF Holds
<1>10. ASSUME Async, InRows(r)', IF Step' = NoStep THEN ~InPrev(r)' ELSE ~Reach(Step'.req[r])
       PROVE  Holds(Runner'.rows[r], sampled'[r])
  BY <1>1, <1>4, <1>5, <1>10
<1>11. ASSUME ~Async
       PROVE  /\ InWorker(r)' => Holds(Runner'.reqs[r].out, Len(Runner'.reqs[r].out))
              /\ InRows(r)' => Runner'.rows[r] = Runner'.reqs[r].out
  BY <1>1, <1>4, <1>6, <1>7, <1>11
<1> QED BY <1>2, <1>8, <1>10, <1>11, ReachSame DEF RowInv, OutLen, Holds

(* What the runner holds of a request when its tokens are sampled.         *)
LEMMA SampledContents ==
    ASSUME LineInv, NEW r \in Reqs, NEW g, Sampling(r, g), SampledBy(g)
    PROVE  LET q == Step.req[r]
               t == SampledTokens(g)[r]
           IN  /\ ~Async => (InPrev(r)' <=> InPrev(r))
               /\ Async => (InPrev(r)' <=> InStep(r) /\ Reach(q))
               /\ Async /\ InPrev(r)' =>
                    Runner'.prev.sampled[Runner'.prev.index[r]] = <<r, Newest(r)'>>
               /\ InRows(r) => Runner'.rows[r] = IF Reach(q) THEN Runner.rows[r] \o t
                                                             ELSE Runner.rows[r]
               /\ InWorker(r) => Runner'.reqs[r].out =
                    IF InStep(r) /\ Reach(q) THEN Runner.reqs[r].out \o t ELSE Runner.reqs[r].out
               /\ InStep(r) /\ Reach(q) /\ ~Async =>
                    t = [j \in 1 .. g[r] |-> PromptLen + sampled[r] + j - 1]
               /\ InRows(r) <=> InStep(r)
<1> DEFINE q == Step.req[r]
           t == SampledTokens(g)
<1>1. Step # NoStep /\ LineType /\ WorkerInv(r)
  BY DEF Sampling, LineInv, RequestInv
<1>2. /\ g \in [DOMAIN Step.req -> 0 .. 1 + Specs]
      /\ Runner' = IF Async THEN Remember(SampledWorker(g), Step.discard, SampledLast(g),
                                          SampledValid(g))
                             ELSE SampledWorker(g)
  BY DEF SampledBy
<1>3. SampledTo(Runner', g, SampledLast(g))
  BY <1>1, <1>2, SampledRunner
<1>4. r \in DOMAIN Step.req \ Step.discard <=> InStep(r) /\ Reach(q)
  BY <1>1 DEF WorkerInv, InStep
<1>5. DOMAIN t = DOMAIN Step.req \ Step.discard
  BY DEF SampledTokens
<1>6. InRows(r) <=> InStep(r)
  BY <1>1 DEF WorkerInv
<1>7. /\ ~Async => Runner'.prev = Runner.prev
      /\ Async =>
            /\ Runner'.prev.sampled = SampledLast(g)
            /\ DOMAIN Runner'.prev.index = DOMAIN Step.req \ Step.discard
            /\ InStep(r) /\ Reach(q) =>
                  /\ Runner'.prev.index[r] \in DOMAIN Runner.order
                  /\ Runner.order[Runner'.prev.index[r]] = r
  BY <1>3, <1>4 DEF SampledTo
<1>8. Async => (InPrev(r)' <=> InStep(r) /\ Reach(q))
  BY <1>4, <1>7 DEF InPrev
<1>9. ASSUME Async, InPrev(r)'
      PROVE  Runner'.prev.sampled[Runner'.prev.index[r]] = <<r, Newest(r)'>>
  <2> DEFINE i == Runner'.prev.index[r]
  <2>1. InStep(r) /\ Reach(q) /\ r \notin Step.discard
    BY <1>4, <1>8, <1>9
  <2>2. i \in DOMAIN Runner.order /\ Runner.order[i] = r
    BY <1>7, <1>9, <2>1
  <2>3. SampledLast(g)[i] = <<r, PromptLen + sampled[r] + g[r] - 1>>
    <3> HIDE DEF i
    <3> QED BY <2>1, <2>2 DEF SampledLast
  <2>4. Newest(r)' = PromptLen + sampled[r] + g[r] - 1
    <3>1. sampled'[r] = sampled[r] + g[r] /\ g[r] \in Nat
      BY <2>1 DEF Sampling
    <3>2. sampled[r] \in Nat /\ PromptLen \in Nat
      BY <1>1, Numbers
    <3> QED BY <3>1, <3>2 DEF Newest
  <2> QED BY <1>7, <1>9, <2>3, <2>4
<1>10. InRows(r) => Runner'.rows[r] = IF Reach(q) THEN Runner.rows[r] \o t[r] ELSE Runner.rows[r]
  BY <1>3, <1>4, <1>5, <1>6 DEF SampledTo, InRows
<1>11. InWorker(r) => Runner'.reqs[r].out =
         IF InStep(r) /\ Reach(q) THEN Runner.reqs[r].out \o t[r] ELSE Runner.reqs[r].out
  BY <1>3, <1>4, <1>5 DEF SampledTo, InWorker
<1>12. InStep(r) /\ Reach(q) /\ ~Async =>
         t[r] = [j \in 1 .. g[r] |-> PromptLen + sampled[r] + j - 1]
  BY <1>4 DEF SampledTokens
<1>13. ~Async => (InPrev(r)' <=> InPrev(r))
  BY <1>7 DEF InPrev
<1> HIDE DEF t, q
<1> QED BY <1>6, <1>8, <1>9, <1>10, <1>11, <1>12, <1>13 DEF t, q

LEMMA SampledTokensInv ==
    ASSUME LineInv, NEW r \in Reqs, NEW g, Sampling(r, g), SampledBy(g), OwnInv(r)
    PROVE  ExactInv(r)' /\ TokensInv(r)' /\ PrevInv(r)'
<1> DEFINE q == Step.req[r]
<1>1. /\ Step # NoStep /\ Step' = NoStep /\ ~InStep(r)'
      /\ ~InBox(2, r) /\ ~InBox(2, r)'
      /\ InBox(1, r)' <=> InBox(1, r)
      /\ Boxed(1, r)' = Boxed(1, r)
      /\ Async' = Async
  BY SampledPlace DEF Sampling
<1>2. ExactInv(r)'
  BY <1>1, ReachSame DEF OwnInv, ExactInv
<1>3. ASSUME InStep(r)
      PROVE  /\ q.n \in Nat \ {0} /\ q.computed \in Int /\ q.outputs \in Int /\ q.drafts \in Nat
             /\ GoodReq(q) /\ g[r] \in Nat /\ (g[r] > 0 <=> Reach(q))
             /\ sampled'[r] = sampled[r] + g[r]
             /\ cached'[r] = cached[r] + q.n - q.drafts + (IF g[r] > 0 THEN g[r] - 1 ELSE 0)
             /\ Step.pos[r] = cached[r] /\ Base(r)' = cached'[r]
  <2>1. q \in ScheduledRec
    BY <1>3, PlaceTypes DEF LineInv
  <2>2. GoodReq(q) /\ Step.pos[r] = cached[r]
    BY <1>3 DEF LineInv, RequestInv, GoodSteps, WorkerInv
  <2>3. Base(r)' = cached'[r]
    BY <1>3, SampledCounts DEF Base
  <2> HIDE DEF q
  <2>4. q.n \in Nat \ {0} /\ q.computed \in Int /\ q.outputs \in Int /\ q.drafts \in Nat
    BY <2>1, RecordTypes
  <2> QED BY <1>3, <2>2, <2>3, <2>4 DEF Sampling, q
<1>4. sampled[r] \in Nat /\ cached[r] \in Nat /\ PromptLen \in Nat /\ Base(r) \in Nat
  BY Numbers DEF LineInv
<1>5. ASSUME Async, InBox(1, r)
      PROVE  Boxed(1, r).outputs = sampled'[r] + Boxed(1, r).computed - Base(r)'
  <2> DEFINE o == Boxed(1, r).outputs
             c == Boxed(1, r).computed
             n == q.n
             d == q.drafts
             k == g[r]
  <2>1. o = sampled[r] + OwedStep(r)
    BY <1>1, <1>5 DEF OwnInv, TokensInv
  <2>2. CASE InStep(r)
    <3>1. c = Step.pos[r] + n
      BY <1>1, <1>5, <2>2 DEF LineInv, RequestInv, AimInv
    <3>2. OwedStep(r) = IF Reach(q) THEN d + 1 ELSE 0
      BY <2>2 DEF OwedStep, Owes
    <3>3. d > 0 => Reach(q)
      BY <1>3, <2>2 DEF GoodReq
    <3>4. /\ n \in Nat /\ d \in Nat /\ k \in Nat /\ (k > 0 <=> Reach(q))
          /\ sampled'[r] = sampled[r] + k /\ Step.pos[r] = cached[r]
          /\ Base(r)' = cached[r] + n - d + (IF k > 0 THEN k - 1 ELSE 0)
      BY <1>3, <2>2
    <3> DEFINE b == Base(r)'
    <3>5. b = cached[r] + n - d + (IF k > 0 THEN k - 1 ELSE 0)
      BY <3>4
    <3> HIDE DEF o, c, n, d, k, q, b
    <3>6. o = sampled'[r] + c - b
      BY <1>4, <2>1, <3>1, <3>2, <3>3, <3>4, <3>5
    <3> QED BY <3>6 DEF o, c, b
  <2>3. CASE ~InStep(r)
    <3>1. c = Base(r) /\ OwedStep(r) = 0
      BY <1>1, <1>5, <2>3 DEF LineInv, RequestInv, AimInv, Settled, OwedStep
    <3>2. Base(r)' = Base(r) /\ sampled'[r] = sampled[r]
      BY <1>4, <2>3, SampledCounts DEF Sampling
    <3> HIDE DEF o, c
    <3>3. o = sampled'[r] + c - Base(r)
      BY <1>4, <2>1, <3>1, <3>2
    <3> QED BY <3>2, <3>3 DEF o, c
  <2> QED BY <2>2, <2>3
<1>6. (Step = NoStep)'
  BY <1>1 DEF NoStep
<1>7. TokensInv(r)'
  BY <1>1, <1>5, <1>6 DEF TokensInv
<1>8. PrevInv(r)'
  <2>1. ~Async => ~InPrev(r)'
    BY SampledContents DEF OwnInv, PrevInv
  <2>2. ASSUME InPrev(r)', Async
        PROVE  /\ sampled'[r] > 0 /\ cached'[r] = Newest(r)'
               /\ Runner'.prev.sampled[Runner'.prev.index[r]] = <<r, Newest(r)'>>
    <3>1. /\ InStep(r) /\ Reach(q)
          /\ Runner'.prev.sampled[Runner'.prev.index[r]] = <<r, Newest(r)'>>
      BY <2>2, SampledContents
    <3>2. q.computed + q.n - q.drafts = PromptLen + q.outputs
      BY <3>1 DEF OwnInv, ExactInv, ExactReq
    <3>3. q.outputs - (q.computed - cached[r]) = sampled[r]
      BY <1>3, <3>1 DEF OwnInv, TokensInv
    <3> DEFINE o == q.outputs
               c == q.computed
               n == q.n
               d == q.drafts
               k == g[r]
    <3>4. /\ n \in Nat /\ c \in Int /\ o \in Int /\ d \in Nat /\ k \in Nat /\ k > 0
          /\ sampled'[r] = sampled[r] + k
          /\ cached'[r] = cached[r] + n - d + (k - 1)
      BY <1>3, <3>1
    <3>5. c + n - d = PromptLen + o /\ o - (c - cached[r]) = sampled[r]
      BY <3>2, <3>3
    <3> HIDE DEF o, c, n, d, k
    <3>6. sampled'[r] > 0 /\ cached'[r] = PromptLen + sampled'[r] - 1
      BY <1>4, <3>4, <3>5
    <3> QED BY <3>1, <3>6 DEF Newest
  <2> QED BY <1>1, <2>1, <2>2 DEF PrevInv
<1> QED BY <1>2, <1>7, <1>8

LEMMA SampledAfter ==
    ASSUME LineInv, NEW r \in Reqs, NEW g, Sampling(r, g), SampledBy(g), OwnInv(r)
    PROVE  AgainInv(r)' /\ AfterInv(r)'
<1>1. /\ Step # NoStep /\ Step' = NoStep /\ ~InStep(r)'
      /\ ~InBox(2, r) /\ ~InBox(2, r)'
      /\ InBox(1, r)' <=> InBox(1, r)
      /\ Boxed(1, r)' = Boxed(1, r)
      /\ request' = request
      /\ InNewest(r)' <=> InNewest(r)
  BY SampledPlace DEF Sampling
<1>2. (Step = NoStep)' /\ Line' = Line
  BY <1>1 DEF NoStep, Sampling, Line
<1>3. \A i \in {1, 2} : Filled(i)' <=> Filled(i)
  BY <1>2 DEF Filled
<1>4. /\ InPrev(r)' => Async /\ InStep(r)
      /\ Async /\ InStep(r) /\ Reach(Step.req[r]) => InPrev(r)'
  BY SampledContents DEF OwnInv, PrevInv
<1>5. StateInv(r) /\ AimInv(r) /\ CountInv(r) /\ GoodSteps(r)
  BY DEF LineInv, RequestInv
<1>6. AgainInv(r)'
  <2>1. InPrev(r)' => /\ request[r].state # "waiting"
                      /\ request[r].state = "preempted" => Filled(1)
                      /\ InBox(1, r) => Boxed(1, r).kind = "run"
    BY <1>1, <1>4, <1>5 DEF StateInv, Idle, AimInv, OwnInv, AgainInv
  <2>2. request[r].state = "preempted" /\ InBox(1, r) => Filled(2)
    BY DEF OwnInv, AgainInv
  <2> QED BY <1>1, <1>2, <1>3, <2>1, <2>2 DEF AgainInv
<1>7. AfterInv(r)'
  <2>1. /\ Running(r) /\ request[r].drafts > 0 => Async
        /\ InBox(1, r) /\ Boxed(1, r).drafts > 0 => Async
    <3>1. Specs \in {0, 1} /\ (Specs > 0 => Async)
      BY Sizes DEF LineInv
    <3>2. Running(r) => request[r].drafts <= Specs /\ request[r].drafts \in Nat
      BY <1>5, Numbers DEF CountInv, Live, Running, LineInv
    <3>3. InBox(1, r) => Boxed(1, r).drafts <= Specs /\ Boxed(1, r).drafts \in Nat
      BY FirstTypes DEF GoodReq
    <3> QED BY <3>1, <3>2, <3>3
  <2>2. ASSUME Running(r), request[r].drafts > 0, InNewest(r)
        PROVE  IF Line # <<>> THEN Reach(Boxed(Len(Line), r)) ELSE InPrev(r)'
    BY <1>1, <1>4, <2>1, <2>2 DEF OwnInv, AfterInv, InNewest
  <2>3. InBox(1, r) /\ Boxed(1, r).drafts > 0 => InPrev(r)'
    BY <1>1, <1>4, <2>1 DEF OwnInv, AfterInv
  <2>4. Boxed(Len(Line), r)' = Boxed(Len(Line), r)
    BY <1>2 DEF Boxed
  <2>5. (Running(r)' <=> Running(r)) /\ request'[r] = request[r]
    BY <1>1 DEF Running
  <2>6. Running(r) /\ request[r].drafts > 0 =>
          PromptLen + request[r].out + request[r].placeholders = request[r].computed + 1
    BY DEF OwnInv, AfterInv
  <2> QED BY <1>1, <1>2, <2>2, <2>3, <2>4, <2>5, <2>6, ReachSame DEF AfterInv, Reach
<1> QED BY <1>6, <1>7

LEMMA SampledRows ==
    ASSUME LineInv, NEW r \in Reqs, NEW g, Sampling(r, g), SampledBy(g), OwnInv(r)
    PROVE  RowInv(r)'
<1> DEFINE q == Step.req[r]
           t == SampledTokens(g)[r]
           out == Runner.reqs[r].out
<1>1. /\ Step # NoStep /\ Step' = NoStep /\ (Step = NoStep)' /\ Async' = Async
  BY SampledPlace DEF Sampling
<1>2. /\ ~Async => (InPrev(r)' <=> InPrev(r))
      /\ Async => (InPrev(r)' <=> InStep(r) /\ Reach(q))
      /\ InRows(r) => Runner'.rows[r] = IF Reach(q) THEN Runner.rows[r] \o t ELSE Runner.rows[r]
      /\ InWorker(r) => Runner'.reqs[r].out = IF InStep(r) /\ Reach(q) THEN out \o t ELSE out
      /\ InStep(r) /\ Reach(q) /\ ~Async =>
           t = [j \in 1 .. g[r] |-> PromptLen + sampled[r] + j - 1]
      /\ InRows(r) <=> InStep(r)
  BY SampledContents
<1>3. (InWorker(r)' <=> InWorker(r)) /\ (InRows(r)' <=> InRows(r)) /\ (InRows(r) => InWorker(r))
  BY DEF Sampling, LineInv, RequestInv, WorkerInv
<1>4. ASSUME Async, InRows(r), ~InPrev(r)'
      PROVE  Holds(Runner'.rows[r], sampled'[r])
  <2>1. InStep(r) /\ ~Reach(q) /\ Runner'.rows[r] = Runner.rows[r]
    BY <1>2, <1>4
  <2>2. sampled'[r] = sampled[r]
    <3>1. sampled'[r] = sampled[r] + g[r] /\ g[r] \in Nat /\ ~(g[r] > 0) /\ sampled[r] \in Nat
      BY <2>1, Numbers DEF Sampling, LineInv
    <3> QED BY <3>1
  <2>3. Holds(Runner.rows[r], sampled[r])
    BY <1>1, <1>4, <2>1 DEF OwnInv, RowInv
  <2> QED BY <2>1, <2>2, <2>3
<1>5. ASSUME ~Async, InWorker(r)
      PROVE  Holds(Runner'.reqs[r].out, Len(Runner'.reqs[r].out))
  <2>1. Holds(out, Len(out)) /\ Len(out) = sampled[r] /\ PromptLen \in Nat
    BY <1>5, RunnerAssumption DEF OwnInv, RowInv, OutLen, LineInv, RequestInv, PlainInv
  <2>2. out \in Seq(Int)
    BY <1>5 DEF LineInv, LineType, WorkerType, InWorker, IsWorkerReq
  <2>3. CASE InStep(r) /\ Reach(q)
    <3>1. g[r] \in Nat
      BY <2>3 DEF Sampling
    <3>2. Runner'.reqs[r].out = out \o [j \in 1 .. g[r] |-> PromptLen + sampled[r] + j - 1]
      BY <1>2, <1>5, <2>3
    <3> HIDE DEF out
    <3> QED BY <2>1, <2>2, <3>1, <3>2, HoldsMore
  <2>4. CASE ~(InStep(r) /\ Reach(q))
    BY <1>2, <1>5, <2>1, <2>4
  <2> QED BY <2>3, <2>4
<1>6. ~Async /\ InRows(r) => Runner'.rows[r] = Runner'.reqs[r].out
  <2>1. ~Async /\ InRows(r) => Runner.rows[r] = out
    BY DEF OwnInv, RowInv
  <2> QED BY <1>2, <1>3, <2>1
<1> HIDE DEF q, t, out
<1> QED BY <1>1, <1>3, <1>4, <1>5, <1>6 DEF RowInv, OutLen, Holds

-----------------------------------------------------------------------------
(* Scheduling leaves the runner alone.                                     *)

\* A step that is scheduled takes all that is left of a request, or stops
\* before its last token.
LEMMA ChosenExact ==
    ASSUME LineType, NEW r \in Reqs, NEW q, Chosen(r, q)
    PROVE  ExactReq(q)
<1> DEFINE L == Left(r)
           c == request[r].computed
           o == request[r].out
           p == request[r].placeholders
           d == request[r].drafts
<1>1. /\ L \in Int /\ c \in Int /\ o \in Nat /\ p \in Int /\ d \in Nat
      /\ L = PromptLen + o + p + d - c /\ PromptLen \in Nat
  BY Numbers
<1>2. /\ q.n \in Nat \ {0} /\ q.computed = c /\ q.outputs = o + p
      /\ q.drafts = (IF L - q.n < d THEN d - (L - q.n) ELSE 0)
      /\ Reach(q) <=> L - q.n <= d
  BY DEF Chosen
<1> HIDE DEF L, c, o, p, d
<1>3. Reach(q) => q.computed + q.n - q.drafts = PromptLen + q.outputs
  BY <1>1, <1>2
<1> QED BY <1>3 DEF ExactReq

LEMMA PlanExact ==
    ASSUME LineType, NEW so, Plan(so), NEW r \in Reqs, RequestInv(r), ExactInv(r)
    PROVE  ExactInv(r)'
<1>1. /\ InFlight < Depth /\ so \in SchedulerOutput /\ Line' = Append(Line, so)
      /\ UNCHANGED <<mode, worker, pending, outputs, sampled, cached>>
  BY DEF Plan
<1>2. Step' = Step /\ (InStep(r)' <=> InStep(r))
  BY <1>1, Rested
<1>3. r \in DOMAIN so.req => ExactReq(so.req[r])
  <2>1. r \in DOMAIN so.req => Chosen(r, so.req[r])
    BY PlanCases
  <2> QED BY <2>1, ChosenExact
<1>4. CASE Line = <<>>
  <2>1. (InBox(1, r)' <=> r \in DOMAIN so.req) /\ Boxed(1, r)' = so.req[r] /\ ~InBox(2, r)'
    BY <1>1, <1>4, Appended
  <2> QED BY <1>2, <1>3, <2>1, ReachSame DEF ExactInv
<1>5. CASE Line # <<>>
  <2>1. /\ InBox(1, r)' <=> InBox(1, r)
        /\ Boxed(1, r)' = Boxed(1, r)
        /\ InBox(2, r)' <=> r \in DOMAIN so.req
        /\ Boxed(2, r)' = so.req[r]
    BY <1>1, <1>5, Appended
  <2> QED BY <1>2, <1>3, <2>1, ReachSame DEF ExactInv
<1> QED BY <1>4, <1>5

\* What a step is scheduled with, beyond what has been sampled.
LEMMA ChosenOutputs ==
    ASSUME LineType, NEW so, Plan(so), NEW r \in Reqs, RequestInv(r), r \in DOMAIN so.req, Async
    PROVE  /\ so.req[r].outputs = sampled[r] + Owed(r) - Got2(r)
           /\ Step = NoStep /\ Line = <<>> =>
                 so.req[r].outputs = sampled[r] + so.req[r].computed - Base(r)'
<1> DEFINE q == so.req[r]
           s == sampled[r]
           b == Base(r)'
<1>1. Chosen(r, q)
  BY PlanCases
<1>2. /\ Live(r) /\ q.outputs = request[r].out + request[r].placeholders
      /\ request[r].out + Got2(r) = s /\ request[r].placeholders = Owed(r)
  BY <1>1 DEF Chosen, RequestInv, CountInv
<1>3. /\ request[r].out \in Nat /\ Owed(r) \in Nat /\ Owed2(r) \in Nat /\ Got2(r) \in Nat
      /\ s \in Nat /\ Base(r) \in Nat
  BY Numbers
<1> HIDE DEF q, s, b
<1>4. q.outputs = s + Owed(r) - Got2(r)
  BY <1>2, <1>3
<1>5. ASSUME Step = NoStep, Line = <<>>
      PROVE  q.outputs = s + q.computed - b
  <2>1. Owed(r) = Owed2(r) /\ Ahead(r) = 0
    <3>1. ~InBox(1, r) /\ ~InBox(2, r)
      BY <1>5, Appended DEF Plan
    <3>2. ~InStep(r)
      BY <1>5 DEF InStep
    <3>3. OwedStep(r) = 0 /\ OwedBox(1, r) = 0 /\ OwedBox(2, r) = 0
      BY <3>1, <3>2 DEF OwedStep, OwedBox
    <3>4. AheadStep(r) = 0 /\ AheadBox(1, r) = 0 /\ AheadBox(2, r) = 0
      BY <3>1, <3>2 DEF AheadStep, AheadBox
    <3> QED BY <1>3, <3>3, <3>4 DEF Owed, Ahead
  <2>2. CASE q.kind = "run"
    <3>1. b = Base(r) /\ q.computed = Base(r) + Owed2(r) - Got2(r) + Ahead(r)
      BY <2>2, ChosenStands DEF q, b
    <3> QED BY <1>3, <1>4, <2>1, <3>1
  <2>3. CASE q.kind # "run"
    <3>1. Idle(r) /\ b = 0 /\ q.computed = 0
      BY <2>3, ChosenStands DEF q, b
    <3>2. Owed2(r) = 0 /\ Got2(r) = 0
      BY <3>1 DEF Idle, Owed2, Got2, GotOut, OwedOut
    <3> QED BY <1>3, <1>4, <2>1, <3>1, <3>2
  <2> QED BY <2>2, <2>3
<1> QED BY <1>4, <1>5 DEF q, s, b

LEMMA PlanTokens ==
    ASSUME LineType, NEW so, Plan(so), NEW r \in Reqs, RequestInv(r), TokensInv(r), PrevInv(r)
    PROVE  TokensInv(r)' /\ PrevInv(r)'
<1> DEFINE q == so.req[r]
<1>1. /\ InFlight < Depth /\ so \in SchedulerOutput /\ Line' = Append(Line, so)
      /\ UNCHANGED <<mode, worker, pending, outputs, sampled, cached>>
  BY DEF Plan
<1>2. /\ Step' = Step /\ (InStep(r)' <=> InStep(r)) /\ sampled' = sampled /\ cached' = cached
      /\ OwedStep(r)' = OwedStep(r) /\ Async' = Async /\ (InPrev(r)' <=> InPrev(r))
      /\ Runner' = Runner
  BY <1>1, Rested
<1>3. (Step = NoStep)' <=> Step = NoStep
  BY <1>2 DEF NoStep
<1>4. PrevInv(r)'
  BY <1>2, <1>3 DEF PrevInv, Newest
<1>5. InStep(r)' => Step'.req[r].outputs - (Step'.req[r].computed - Step'.pos[r]) = sampled'[r]
  BY <1>2 DEF TokensInv
<1>6. /\ OwedStep(r) \in Nat /\ OwedBox(1, r) \in Nat /\ Owed2(r) \in Nat /\ sampled[r] \in Nat
  BY CountTypes, Numbers
<1>7. \A p : Owes(p)' = Owes(p)
  BY DEF Owes, Reach
<1>8. CASE Line = <<>>
  <2>1. /\ ~InBox(1, r) /\ ~InBox(2, r)
        /\ InBox(1, r)' <=> r \in DOMAIN so.req
        /\ Boxed(1, r)' = q /\ ~InBox(2, r)'
        /\ Step # NoStep => outputs = <<>>
    BY <1>1, <1>8, Appended
  <2>2. ASSUME Async, r \in DOMAIN so.req, Step # NoStep
        PROVE  q.outputs = sampled[r] + OwedStep(r)
    <3>1. Len(outputs) = 0
      BY <2>1, <2>2, Sizes
    <3>2. Owed2(r) = 0 /\ Got2(r) = 0
      BY <3>1 DEF Owed2, Got2, GotOut, OwedOut, InOut
    <3>3. OwedBox(1, r) = 0 /\ OwedBox(2, r) = 0
      BY <2>1 DEF OwedBox
    <3>4. Owed(r) = OwedStep(r)
      BY <1>6, <3>2, <3>3 DEF Owed
    <3>5. q.outputs = sampled[r] + Owed(r) - Got2(r)
      BY <2>2, ChosenOutputs
    <3> HIDE DEF q
    <3> QED BY <1>6, <3>2, <3>4, <3>5
  <2>3. ASSUME Async, r \in DOMAIN so.req, Step = NoStep
        PROVE  q.outputs = sampled[r] + q.computed - Base(r)'
    BY <1>8, <2>3, ChosenOutputs
  <2> HIDE DEF q
  <2> QED BY <1>2, <1>3, <1>4, <1>5, <2>1, <2>2, <2>3 DEF TokensInv
<1>9. CASE Line # <<>>
  <2>1. /\ Step = NoStep /\ outputs = <<>> /\ ~InBox(2, r)
        /\ InBox(1, r)' <=> InBox(1, r)
        /\ Boxed(1, r)' = Boxed(1, r)
        /\ InBox(2, r)' <=> r \in DOMAIN so.req
        /\ Boxed(2, r)' = q
    BY <1>1, <1>9, Appended
  <2>2. OwedBox(1, r)' = OwedBox(1, r)
    BY <1>7, <2>1 DEF OwedBox
  <2>3. ASSUME Async, r \in DOMAIN so.req
        PROVE  q.outputs = sampled[r] + OwedBox(1, r)
    <3>1. Len(outputs) = 0
      BY <2>1, Sizes
    <3>2. Owed2(r) = 0 /\ Got2(r) = 0
      BY <3>1 DEF Owed2, Got2, GotOut, OwedOut, InOut
    <3>3. OwedStep(r) = 0 /\ OwedBox(2, r) = 0
      BY <2>1 DEF OwedStep, OwedBox, InStep
    <3>4. Owed(r) = OwedBox(1, r)
      BY <1>6, <3>2, <3>3 DEF Owed
    <3>5. q.outputs = sampled[r] + Owed(r) - Got2(r)
      BY <2>3, ChosenOutputs
    <3> HIDE DEF q
    <3> QED BY <1>6, <3>2, <3>4, <3>5
  <2>4. InBox(1, r) => Base(r)' = Base(r)
    <3>1. CASE r \in DOMAIN so.req
      <4>1. q.kind # "run" => Idle(r)
        BY <3>1, ChosenStands
      <4>2. q.kind = "run" => Base(r)' = Base(r)
        BY <3>1, ChosenStands
      <4> QED BY <4>1, <4>2 DEF Idle
    <3>2. CASE r \notin DOMAIN so.req
      BY <3>2, PlanCounts
    <3> QED BY <3>1, <3>2
  <2> HIDE DEF q
  <2> QED BY <1>2, <1>3, <1>4, <1>5, <2>1, <2>2, <2>3, <2>4 DEF TokensInv
<1> QED BY <1>8, <1>9

LEMMA PlanFilled ==
    ASSUME LineType, NEW so, Plan(so)
    PROVE  /\ Line = <<>> => ~Filled(1) /\ ~Filled(2) /\ (Filled(1)' <=> so.order # <<>>)
           /\ Line # <<>> => /\ Len(Line) = 1 /\ ~Filled(2)
                             /\ Filled(1)' <=> Filled(1)
                             /\ Filled(2)' <=> so.order # <<>>
           /\ Line' # <<>> /\ Line'[Len(Line')] = so
<1>1. /\ InFlight < Depth /\ so \in SchedulerOutput /\ Line' = Append(Line, so)
  BY DEF Plan
<1>2. /\ Line \in Seq(SchedulerOutput) /\ Len(Line) \in 0 .. 2
      /\ Len(Line) = 0 <=> Line = <<>>
      /\ Len(Line) + Len(outputs) < 2 /\ Len(outputs) \in 0 .. 2
  BY <1>1, Sizes
<1>3. /\ Line' \in Seq(SchedulerOutput) /\ Len(Line') = Len(Line) + 1
      /\ \A i \in 1 .. Len(Line) : Line'[i] = Line[i]
      /\ Line'[Len(Line) + 1] = so
  BY <1>1, <1>2, AppendProperties
<1>4. Line' # <<>> /\ Line'[Len(Line')] = so
  BY <1>2, <1>3, EmptySeq
<1>5. CASE Line = <<>>
  <2>1. Len(Line) = 0 /\ Len(Line') = 1 /\ Line'[1] = so
    BY <1>2, <1>3, <1>5
  <2> QED BY <1>4, <1>5, <2>1 DEF Filled
<1>6. CASE Line # <<>>
  <2>1. Len(Line) = 1
    BY <1>2, <1>6
  <2>2. Len(Line') = 2 /\ Line'[1] = Line[1] /\ Line'[2] = so
    BY <1>3, <2>1
  <2> QED BY <1>4, <1>6, <2>1, <2>2 DEF Filled
<1> QED BY <1>5, <1>6

LEMMA PlanAgain ==
    ASSUME LineType, NEW so, Plan(so), NEW r \in Reqs, RequestInv(r), AgainInv(r)
    PROVE  AgainInv(r)'
<1> DEFINE q == so.req[r]
           again == request[r].state \in {"waiting", "preempted"}
<1>1. /\ InFlight < Depth /\ so \in SchedulerOutput /\ Line' = Append(Line, so)
      /\ UNCHANGED <<mode, worker, pending, outputs, sampled, cached>>
  BY DEF Plan
<1>2. /\ InStep(r)' <=> InStep(r)
      /\ InPrev(r)' <=> InPrev(r)
  BY <1>1, Rested
<1>3. (Step = NoStep)' <=> Step = NoStep
  BY <1>1, Rested DEF NoStep
<1>4. /\ Line = <<>> => ~Filled(1) /\ ~Filled(2) /\ (Filled(1)' <=> so.order # <<>>)
      /\ Line # <<>> => /\ Len(Line) = 1 /\ ~Filled(2)
                        /\ Filled(1)' <=> Filled(1)
                        /\ Filled(2)' <=> so.order # <<>>
  BY PlanFilled
<1>5. /\ Line = <<>> =>
           /\ ~InBox(1, r) /\ ~InBox(2, r)
           /\ InBox(1, r)' <=> r \in DOMAIN so.req
           /\ Boxed(1, r)' = q /\ ~InBox(2, r)'
      /\ Line # <<>> =>
           /\ Step = NoStep /\ ~InBox(2, r)
           /\ InBox(1, r)' <=> InBox(1, r)
           /\ Boxed(1, r)' = Boxed(1, r)
           /\ InBox(2, r)' <=> r \in DOMAIN so.req
           /\ Boxed(2, r)' = q
      /\ ~InNewest(r) => Idle(r)
  BY <1>1, Appended
<1>6. r \in DOMAIN so.req /\ q.kind # "run" => again
  <2>1. r \in DOMAIN so.req => Chosen(r, q)
    BY PlanCases
  <2>2. Chosen(r, q) => Live(r) /\ q.kind = Kind(r)
    BY DEF Chosen
  <2>3. Running(r) => Kind(r) = "run"
    BY RunningKind
  <2>4. Live(r) /\ ~Running(r) => again
    BY PlaceTypes, RecordTypes DEF Live, Running
  <2> HIDE DEF q, again
  <2> QED BY <2>1, <2>2, <2>3, <2>4
<1>7. Step = NoStep /\ InPrev(r) /\ again => Filled(1) /\ Line # <<>>
  BY <1>4 DEF AgainInv
<1>8. request'[r].state \in {"waiting", "preempted"} =>
        /\ r \notin DOMAIN so.req
        /\ (again /\ request'[r] = request[r]) \/ (so.order # <<>> /\ Running(r))
  BY PlanCases DEF Chosen
<1>9. (Step = NoStep /\ InPrev(r) =>
          /\ request[r].state \in {"waiting", "preempted"} => Filled(1) \/ Filled(2)
          /\ InBox(1, r) => Boxed(1, r).kind = "run"
          /\ InBox(2, r) /\ Boxed(2, r).kind # "run" => Filled(1))'
  <2> SUFFICES ASSUME Step = NoStep, InPrev(r)
               PROVE  /\ request'[r].state \in {"waiting", "preempted"} => Filled(1)' \/ Filled(2)'
                      /\ InBox(1, r)' => Boxed(1, r)'.kind = "run"
                      /\ InBox(2, r)' /\ Boxed(2, r)'.kind # "run" => Filled(1)'
    BY <1>2, <1>3
  <2>1. request'[r].state \in {"waiting", "preempted"} => Filled(1)' \/ Filled(2)'
    BY <1>4, <1>7, <1>8
  <2>2. InBox(1, r)' => Boxed(1, r)'.kind = "run"
    <3>1. CASE Line = <<>>
      <4> HIDE DEF q
      <4> QED BY <1>5, <1>6, <1>7, <3>1
    <3>2. CASE Line # <<>>
      BY <1>5, <3>2 DEF AgainInv
    <3> QED BY <3>1, <3>2
  <2>3. InBox(2, r)' /\ Boxed(2, r)'.kind # "run" => Filled(1)'
    <3> HIDE DEF q
    <3> QED BY <1>4, <1>5, <1>6, <1>7
  <2> QED BY <2>1, <2>2, <2>3
<1>10. (request[r].state = "preempted" =>
          /\ InStep(r) => Filled(1)
          /\ InBox(1, r) => Filled(2))'
  <2> SUFFICES ASSUME request'[r].state = "preempted"
               PROVE  (InStep(r) => Filled(1)') /\ (InBox(1, r)' => Filled(2)')
    BY <1>2
  <2>1. CASE again /\ request'[r] = request[r]
    <3>1. Idle(r)
      <4>1. request[r].state = "preempted"
        BY <2>1
      <4> QED BY <4>1, <1>5 DEF RequestInv, StateInv
    <3>2. ~InBox(1, r)'
      <4>1. r \notin DOMAIN so.req
        BY <1>8
      <4> QED BY <3>1, <4>1, <1>5 DEF Idle
    <3> QED BY <3>1, <3>2 DEF Idle
  <2>2. CASE so.order # <<>>
    <3>1. InStep(r) => Step # NoStep
      BY DEF InStep
    <3>2. r \notin DOMAIN so.req
      BY <1>8
    <3> QED BY <1>4, <1>5, <2>2, <3>1, <3>2
  <2> QED BY <1>8, <2>1, <2>2
<1> QED BY <1>9, <1>10 DEF AgainInv

LEMMA PlanAfter ==
    ASSUME LineType, NEW so, Plan(so), NEW r \in Reqs, RequestInv(r), AfterInv(r)
    PROVE  AfterInv(r)'
<1> DEFINE q == so.req[r]
           f == request[r]
           f1 == request'[r]
<1>1. /\ InFlight < Depth /\ so \in SchedulerOutput /\ Line' = Append(Line, so)
      /\ UNCHANGED <<mode, worker, pending, outputs, sampled, cached>>
  BY DEF Plan
<1>2. /\ InStep(r)' <=> InStep(r)
      /\ InPrev(r)' <=> InPrev(r)
      /\ Step' = Step
  BY <1>1, Rested
<1>3. (Step = NoStep)' <=> Step = NoStep
  BY <1>2 DEF NoStep
<1>4. /\ Line # <<>> => Len(Line) = 1
      /\ Line' # <<>> /\ Line'[Len(Line')] = so
  BY PlanFilled
<1>5. /\ Line = <<>> =>
           /\ InBox(1, r)' <=> r \in DOMAIN so.req
           /\ Boxed(1, r)' = q /\ ~InBox(2, r)'
      /\ Line # <<>> =>
           /\ Step = NoStep
           /\ InBox(1, r)' <=> InBox(1, r)
           /\ Boxed(1, r)' = Boxed(1, r)
           /\ InBox(2, r)' <=> r \in DOMAIN so.req
           /\ Boxed(2, r)' = q
      /\ InNewest(r)' <=> r \in DOMAIN so.req
  BY <1>1, Appended
<1>6. /\ f.out \in Nat /\ f.placeholders \in Int /\ f.computed \in Int /\ f.drafts \in Nat
      /\ PromptLen \in Nat /\ Specs \in {0, 1} /\ (Specs > 0 => Async)
      /\ Left(r) = PromptLen + f.out + f.placeholders + f.drafts - f.computed /\ Left(r) \in Int
  BY Numbers, Sizes
<1>7. Live(r) => f.drafts <= Specs /\ (~Running(r) => f.drafts = 0)
  BY DEF RequestInv, CountInv
\* A request that has drafts and is scheduled was in the newest step.
<1>8. ASSUME r \in DOMAIN so.req, f.drafts > 0
      PROVE  /\ InNewest(r) /\ Running(r)
             /\ PromptLen + f.out + f.placeholders = f.computed + 1
  <2>1. Chosen(r, q)
    BY <1>8, PlanCases
  <2>2. Running(r)
    BY <1>7, <1>8, <2>1 DEF Chosen
  <2>3. InNewest(r)
    BY <1>8, <2>1, <2>2 DEF Chosen, RequestInv, DraftInv
  <2> QED BY <1>8, <2>2, <2>3 DEF AfterInv
<1>9. r \in DOMAIN so.req /\ q.drafts > 0 => f.drafts > 0
  <2>1. r \in DOMAIN so.req => q.drafts \in Nat /\ q.drafts <= f.drafts
    BY PlanCases DEF Chosen
  <2> HIDE DEF q, f
  <2> QED BY <1>6, <2>1
<1>10. ASSUME Running(r)', f1.drafts > 0
       PROVE  /\ PromptLen + f1.out + f1.placeholders = f1.computed + 1
              /\ InNewest(r)' => Reach(Boxed(Len(Line), r))'
  <2>1. CASE r \in DOMAIN so.req
    <3>1. Chosen(r, q)
      BY <2>1, PlanCases
    <3>2. /\ Live(r) /\ q.n \in Nat \ {0} /\ q.n <= Left(r) /\ q.drafts \in Nat
          /\ q.computed = f.computed /\ q.outputs = f.out + f.placeholders
          /\ Reach(q) <=> Left(r) - q.n <= f.drafts
          /\ f1.computed = f.computed + q.n /\ f1.out = f.out
          /\ f1.placeholders = f.placeholders + (IF Async THEN Owes(q) ELSE 0)
          /\ f1.drafts = IF Reach(q) THEN Specs ELSE f.drafts
      BY <3>1 DEF Chosen
    <3>3. Reach(q) => q.computed + q.n - q.drafts = PromptLen + q.outputs
      BY <3>1, ChosenExact DEF ExactReq
    <3>4. Reach(q)
      <4>1. ASSUME ~Reach(q) PROVE FALSE
        <5>1. f.drafts > 0
          BY <1>10, <3>2, <4>1
        <5>2. PromptLen + f.out + f.placeholders = f.computed + 1
          BY <1>8, <2>1, <5>1
        <5> HIDE DEF f, f1, q
        <5> QED BY <1>6, <3>2, <4>1, <5>2
      <4> QED BY <4>1
    <3>5. Owes(q) = q.drafts + 1 /\ Async
      <4>1. Specs > 0
        BY <1>10, <3>2, <3>4
      <4> QED BY <1>6, <3>4, <4>1 DEF Owes
    <3>6. PromptLen + f1.out + f1.placeholders = f1.computed + 1
      <4> HIDE DEF f, f1, q
      <4> QED BY <1>6, <3>2, <3>3, <3>4, <3>5
    <3>7. Boxed(Len(Line), r)' = q
      BY <1>4 DEF Boxed
    <3>8. Reach(Boxed(Len(Line), r))'
      BY <3>4, <3>7 DEF Reach
    <3> QED BY <3>6, <3>8
  <2>2. CASE r \notin DOMAIN so.req
    <3>1. f1 = f
      BY <1>10, <2>2, PlanCases DEF Running
    <3>2. Running(r)
      BY <1>10, <3>1 DEF Running
    <3> QED BY <1>5, <1>10, <2>2, <3>1, <3>2 DEF AfterInv
  <2> QED BY <2>1, <2>2
<1>11. ASSUME InBox(1, r)', Boxed(1, r)'.drafts > 0
       PROVE  IF Step = NoStep THEN InPrev(r) ELSE InStep(r) /\ Reach(Step.req[r])
  <2>1. CASE Line = <<>>
    <3>1. /\ InNewest(r) /\ Running(r) /\ f.drafts > 0
      BY <1>5, <1>8, <1>9, <1>11, <2>1
    <3> QED BY <2>1, <3>1 DEF AfterInv, InNewest
  <2>2. CASE Line # <<>>
    BY <1>5, <1>11, <2>2 DEF AfterInv
  <2> QED BY <2>1, <2>2
<1>12. ASSUME InBox(2, r)', Boxed(2, r)'.drafts > 0
       PROVE  InBox(1, r)' /\ Reach(Boxed(1, r))'
  <2>1. Line # <<>>
    BY <1>5, <1>12
  <2>2. /\ InNewest(r) /\ Running(r) /\ f.drafts > 0
    BY <1>5, <1>8, <1>9, <1>12, <2>1
  <2>3. InBox(1, r) /\ Reach(Boxed(1, r))
    BY <1>4, <2>1, <2>2 DEF AfterInv, InNewest
  <2> QED BY <1>5, <2>1, <2>3 DEF Reach
<1>13. (IF Step = NoStep THEN InPrev(r) ELSE InStep(r) /\ Reach(Step.req[r])) =>
         (IF Step = NoStep THEN InPrev(r) ELSE InStep(r) /\ Reach(Step.req[r]))'
  BY <1>2, <1>3, ReachSame
<1> HIDE DEF q, f
<1> QED BY <1>4, <1>10, <1>11, <1>12, <1>13 DEF AfterInv, f1

LEMMA PlanRows ==
    ASSUME LineType, NEW so, Plan(so), NEW r \in Reqs, RowInv(r)
    PROVE  RowInv(r)'
<1>1. UNCHANGED <<mode, worker, pending, outputs, sampled, cached>>
  BY DEF Plan
<1>2. /\ Step' = Step /\ Runner' = Runner /\ sampled' = sampled /\ Async' = Async
      /\ InRows(r)' <=> InRows(r)
      /\ InWorker(r)' <=> InWorker(r)
      /\ InPrev(r)' <=> InPrev(r)
      /\ OutLen(r)' = OutLen(r)
  BY <1>1, Rested
<1>3. (Step = NoStep)' <=> Step = NoStep
  BY <1>2 DEF NoStep
<1> QED BY <1>2, <1>3, ReachSame DEF RowInv, Holds

LEMMA PlanOwn ==
    ASSUME LineInv, Schedule \/ ScheduleNothing, NEW r \in Reqs, OwnInv(r)
    PROVE  OwnInv(r)'
<1>1. LineType /\ RequestInv(r)
  BY DEF LineInv
<1>2. PICK so : Plan(so)
  BY <1>1, SchedulePlans
<1>3. ExactInv(r)' /\ TokensInv(r)' /\ PrevInv(r)'
  BY <1>1, <1>2, PlanExact, PlanTokens DEF OwnInv
<1>4. AgainInv(r)' /\ AfterInv(r)' /\ RowInv(r)'
  BY <1>1, <1>2, PlanAgain, PlanAfter, PlanRows DEF OwnInv
<1> QED BY <1>3, <1>4 DEF OwnInv

-----------------------------------------------------------------------------
(* The steps that leave the last rank alone.                               *)

\* The scheduler gives no request drafts and starts none again.
Follows(r) ==
    /\ request'[r].state \in {"waiting", "preempted"} => request'[r].state = request[r].state
    /\ Running(r)' /\ request'[r].drafts > 0 =>
          /\ Running(r) /\ request[r].drafts > 0
          /\ PromptLen + request[r].out + request[r].placeholders = request[r].computed + 1 =>
                PromptLen + request'[r].out + request'[r].placeholders = request'[r].computed + 1
    /\ InNewest(r)' => InNewest(r)

LEMMA SteadyOwn ==
    ASSUME LineInv, Steady, NEW r \in Reqs, OwnInv(r), Follows(r)
    PROVE  OwnInv(r)'
<1>1. /\ \A i \in {1, 2} : /\ InBox(i, r)' <=> InBox(i, r)
                           /\ Boxed(i, r)' = Boxed(i, r)
                           /\ OwedBox(i, r)' = OwedBox(i, r)
      /\ InStep(r)' <=> InStep(r)
      /\ InStep(r) => Step'.req[r] = Step.req[r] /\ Step'.pos[r] = Step.pos[r]
      /\ OwedStep(r)' = OwedStep(r)
      /\ (Step = NoStep)' <=> Step = NoStep
      /\ Base(r)' = Base(r)
      /\ InWorker(r)' <=> InWorker(r)
      /\ InRows(r)' <=> InRows(r)
      /\ InPrev(r)' <=> InPrev(r)
      /\ OutLen(r)' = OutLen(r)
      /\ sampled' = sampled /\ cached' = cached /\ Async' = Async
  BY SteadyPlace
<1>2. Line' = Line /\ Runner' = Runner /\ (Step # NoStep => Step'.req = Step.req)
  BY DEF Steady
<1>3. \A i \in {1, 2} : Filled(i)' <=> Filled(i)
  BY <1>2 DEF Filled
<1>4. ExactInv(r)' /\ TokensInv(r)'
  BY <1>1, ReachSame DEF OwnInv, ExactInv, TokensInv
<1>5. PrevInv(r)'
  BY <1>1, <1>2 DEF OwnInv, PrevInv, Newest
<1>6. RowInv(r)'
  BY <1>1, <1>2, ReachSame DEF OwnInv, RowInv, Holds
<1>7. AgainInv(r)'
  BY <1>1, <1>3 DEF OwnInv, AgainInv, Follows
<1>8. AfterInv(r)'
  <2>1. ASSUME Running(r)', request'[r].drafts > 0
        PROVE  /\ PromptLen + request'[r].out + request'[r].placeholders = request'[r].computed + 1
               /\ InNewest(r)' => (IF Line # <<>> THEN Reach(Boxed(Len(Line), r))
                                   ELSE IF Step # NoStep THEN Reach(Step.req[r]) ELSE InPrev(r))
    BY <2>1 DEF Follows, OwnInv, AfterInv
  <2>2. (IF Line # <<>> THEN Reach(Boxed(Len(Line), r))
         ELSE IF Step # NoStep THEN Reach(Step.req[r]) ELSE InPrev(r)) =>
           (IF Line # <<>> THEN Reach(Boxed(Len(Line), r))
            ELSE IF Step # NoStep THEN Reach(Step.req[r]) ELSE InPrev(r))'
    <3>1. Boxed(Len(Line), r)' = Boxed(Len(Line), r)
      BY <1>2 DEF Boxed
    <3> QED BY <1>1, <1>2, <3>1 DEF Reach
  <2>3. InBox(1, r)' /\ Boxed(1, r)'.drafts > 0 =>
          (IF Step = NoStep THEN InPrev(r) ELSE InStep(r) /\ Reach(Step.req[r]))'
    BY <1>1, ReachSame DEF OwnInv, AfterInv
  <2>4. InBox(2, r)' /\ Boxed(2, r)'.drafts > 0 => InBox(1, r)' /\ Reach(Boxed(1, r))'
    BY <1>1, ReachSame DEF OwnInv, AfterInv, Reach
  <2> QED BY <2>1, <2>2, <2>3, <2>4 DEF AfterInv
<1> QED BY <1>4, <1>5, <1>6, <1>7, <1>8 DEF OwnInv

LEMMA SteadyNewest ==
    ASSUME Steady, outputs' = outputs, NEW r
    PROVE  InNewest(r)' <=> InNewest(r)
<1>1. /\ InStep(r)' <=> InStep(r)
      /\ (Step = NoStep)' <=> Step = NoStep
  BY SteadyPlace
<1>2. Line' = Line
  BY DEF Steady
<1>3. /\ InBox(Len(Line), r)' <=> InBox(Len(Line), r)
      /\ InOut(Len(outputs), r)' <=> InOut(Len(outputs), r)
  BY <1>2 DEF InBox, InOut
<1> QED BY <1>1, <1>2, <1>3 DEF InNewest

LEMMA UpdateFollows ==
    ASSUME LineInv, Update, NEW r \in Reqs
    PROVE  Steady /\ Follows(r)
<1>1. Steady
  BY UpdatedPlace DEF LineInv
<1>2. InNewest(r)' => InNewest(r)
  BY UpdatedNewest
<1>3. Live(r)' =>
         /\ Live(r) /\ (Running(r)' <=> Running(r))
         /\ request'[r].state = request[r].state
         /\ request'[r].out = request[r].out + GotOut(1, r)
         /\ request'[r].drafts = request[r].drafts
         /\ request'[r].placeholders = IF Async THEN request[r].placeholders - OwedOut(1, r)
                                                ELSE request[r].placeholders
         /\ request'[r].computed = IF Running(r)
              THEN request[r].computed - (OwedOut(1, r) - GotOut(1, r))
              ELSE request[r].computed
  BY UpdatedNumbers
<1>4. /\ request[r].computed \in Int /\ request[r].out \in Nat /\ request[r].placeholders \in Int
      /\ PromptLen \in Nat /\ GotOut(1, r) \in Nat /\ OwedOut(1, r) \in Nat
  BY Numbers, CountTypes DEF LineInv
<1>5. request'[r].state \in {"waiting", "preempted"} => request'[r].state = request[r].state
  BY <1>3 DEF Live
<1>6. ASSUME Running(r)', request'[r].drafts > 0
      PROVE  /\ Running(r) /\ request[r].drafts > 0
             /\ PromptLen + request[r].out + request[r].placeholders = request[r].computed + 1 =>
                  PromptLen + request'[r].out + request'[r].placeholders = request'[r].computed + 1
  <2>1. Live(r)'
    BY <1>6 DEF Running, Live
  <2>2. Running(r) /\ request[r].drafts > 0
    BY <1>3, <1>6, <2>1
  <2>3. Async
    <3>1. request[r].drafts <= Specs /\ Specs \in {0, 1} /\ (Specs > 0 => Async)
      BY <1>3, <2>1, Sizes DEF LineInv, RequestInv, CountInv
    <3>2. request[r].drafts \in Nat
      BY Numbers DEF LineInv
    <3> QED BY <2>2, <3>1, <3>2
  <2> DEFINE c == request[r].computed
             o == request[r].out
             p == request[r].placeholders
             c1 == request'[r].computed
             o1 == request'[r].out
             p1 == request'[r].placeholders
             got == GotOut(1, r)
             owed == OwedOut(1, r)
  <2>4. o1 = o + got /\ p1 = p - owed /\ c1 = c - (owed - got)
    BY <1>3, <2>1, <2>2, <2>3
  <2> HIDE DEF c, o, p, c1, o1, p1, got, owed
  <2>5. PromptLen + o + p = c + 1 => PromptLen + o1 + p1 = c1 + 1
    <3>1. /\ c \in Int /\ o \in Int /\ p \in Int /\ got \in Int /\ owed \in Int
          /\ PromptLen \in Int
      BY <1>4 DEF c, o, p, got, owed
    <3> QED BY <2>4, <3>1
  <2> QED BY <2>2, <2>5 DEF c, o, p, c1, o1, p1
<1> QED BY <1>1, <1>2, <1>5, <1>6 DEF Follows

LEMMA InitOwn ==
    ASSUME Init
    PROVE  LastInputs /\ \A r \in Reqs : OwnInv(r)
<1>1. "last" \in Ranks
  BY ModeFacts DEF Init
<1>2. Line = <<>> /\ Runner = NewWorker /\ Step = NoStep
  BY <1>1 DEF Init, Line, Runner, Step
<1>3. ASSUME NEW r \in Reqs PROVE OwnInv(r)
  <2>1. request[r].state = "waiting" /\ request[r].drafts = 0
    BY DEF Init, Arrived
  <2>2. /\ \A i \in {1, 2} : ~InBox(i, r)
        /\ ~InStep(r) /\ ~InWorker(r) /\ ~InRows(r)
    BY <1>2 DEF InBox, InStep, InWorker, InRows, NewWorker
  <2>3. ~InPrev(r)
    BY <1>2 DEF InPrev, NewWorker, NoPrev
  <2> QED BY <2>1, <2>2, <2>3
          DEF OwnInv, ExactInv, TokensInv, PrevInv, AgainInv, AfterInv, RowInv, Running
<1>4. LastInputs
  BY <1>2 DEF LastInputs
<1> QED BY <1>3, <1>4

LEMMA SteadyInputs ==
    ASSUME LastInputs, Steady
    PROVE  LastInputs'
<1>1. /\ Step' = NoStep <=> Step = NoStep
      /\ Step # NoStep => /\ Step'.req = Step.req /\ Step'.pos = Step.pos
                          /\ Step'.inputs = Step.inputs
      /\ Runner'.order = Runner.order
  BY DEF Steady
<1>2. (Step = NoStep)' <=> Step' = NoStep
  BY DEF NoStep
<1> QED BY <1>1, <1>2 DEF LastInputs

(* The invariant, and every step.                                          *)
LastInv == LastInputs /\ \A r \in Reqs : OwnInv(r)

LEMMA LastInvStep == LineInv /\ MaskInv /\ LastInv /\ [Next]_vars => LastInv'
<1> SUFFICES ASSUME LineInv, MaskInv, LastInv, [Next]_vars PROVE LastInv'
  OBVIOUS
<1>0. LastInputs /\ \A r \in Reqs : OwnInv(r)
  BY DEF LastInv
<1>1. CASE Schedule \/ ScheduleNothing
  <2>1. \A r \in Reqs : OwnInv(r)'
    BY <1>0, <1>1, PlanOwn
  <2>2. pending' = pending /\ worker' = worker
    BY <1>1 DEF Schedule, ScheduleNothing
  <2>3. LastInputs'
    BY <1>0, <2>2 DEF LastInputs, Step, Runner, NoStep
  <2> QED BY <2>1, <2>3 DEF LastInv
<1>2. CASE Update
  <2>1. \A r \in Reqs : Steady /\ Follows(r)
    BY <1>2, UpdateFollows
  <2>2. Steady
    BY <1>2 DEF Update, Steady, Line, Runner, Step, NoStep
  <2> QED BY <1>0, <2>1, <2>2, SteadyOwn, SteadyInputs DEF LastInv
<1>3. ASSUME NEW x \in Reqs, Abort(x) PROVE LastInv'
  <2>1. /\ Steady /\ outputs' = outputs
        /\ \A r \in Reqs : request'[r] = request[r] \/ request'[r].state = "finished"
    BY <1>3, AbortedInv
  <2>2. \A r \in Reqs : Follows(r)
    BY <2>1, SteadyNewest DEF Follows, Running
  <2> QED BY <1>0, <2>1, <2>2, SteadyOwn, SteadyInputs DEF LastInv
<1>4. ASSUME Steady, request' = request, outputs' = outputs PROVE LastInv'
  <2>1. \A r \in Reqs : Follows(r)
    BY <1>4, SteadyNewest DEF Follows, Running
  <2> QED BY <1>0, <1>4, <2>1, SteadyOwn, SteadyInputs DEF LastInv
<1>5. CASE ExecuteModel("last")
  <2>1. LastInputs'
    BY <1>0, <1>5, ExecutedInputs
  <2>2. ASSUME NEW r \in Reqs PROVE OwnInv(r)'
    BY <1>0, <1>5, ExecutedTokens, ExecutedAfter, ExecutedRows DEF OwnInv
  <2> QED BY <2>1, <2>2 DEF LastInv
<1>6. CASE SampleTokens
  <2>1. PICK g : (\A r \in Reqs : Sampling(r, g)) /\ SampledBy(g)
    BY <1>6, Sampled DEF LineInv
  <2>2. ASSUME NEW r \in Reqs PROVE OwnInv(r)'
    <3>1. Sampling(r, g) /\ OwnInv(r)
      BY <1>0, <2>1
    <3>2. ExactInv(r)' /\ TokensInv(r)' /\ PrevInv(r)'
      BY <2>1, <3>1, SampledTokensInv
    <3>3. AgainInv(r)' /\ AfterInv(r)'
      BY <2>1, <3>1, SampledAfter
    <3>4. RowInv(r)'
      BY <2>1, <3>1, SampledRows
    <3> QED BY <3>2, <3>3, <3>4 DEF OwnInv
  <2>3. (Step = NoStep)'
    <3>1. Step' = NoStep
      BY <1>6, SampleFacts DEF LineInv
    <3> QED BY <3>1 DEF NoStep
  <2> QED BY <2>2, <2>3 DEF LastInv, LastInputs
<1>7. ASSUME NEW k \in Ranks, ExecuteModel(k) PROVE LastInv'
  <2>1. k = "first" \/ k = "last"
    BY DEF Ranks
  <2> QED BY <1>4, <1>5, <1>7, <2>1, FirstRankInv
<1>8. CASE GrammarBitmask
  BY <1>4, <1>8, MaskedInv
<1>9. CASE ReceiveTokens
  BY <1>4, <1>9, ReceivedInv
<1>10. CASE UNCHANGED vars
  BY <1>4, <1>10, StutterInv
<1>11. CASE Quiet
  BY <1>10, <1>11 DEF Quiet
<1> QED BY <1>1, <1>2, <1>3, <1>6, <1>7, <1>8, <1>9, <1>10, <1>11 DEF Next

LEMMA LastInvHolds == Spec => []LastInv
<1>1. Init => LastInv
  BY InitOwn DEF LastInv
<1> QED BY <1>1, LastInvStep, LineInvHolds, MaskInvHolds, PTL DEF Spec

(* The rank that samples computes every position of a step from the        *)
(* request's own token of that position, in every mode of the engine: be   *)
(* it a prompt token, one in the CPU's rows, a draft, or one that          *)
(* _prepare_input_ids scatters from the device by the previous step's rows.*)
THEOREM LastRankInputsAreOwn == Spec => []LastInputs
<1>1. LastInv => LastInputs
  BY DEF LastInv
<1> QED BY <1>1, LastInvHolds, PTL

-----------------------------------------------------------------------------
(***************************************************************************)
(* Every input is the request's own token, on the first rank of a pipeline.*)
(* It executes each scheduler output before the last rank does, and learns *)
(* of the tokens from the last rank or from the scheduler.                 *)
(***************************************************************************)
FrontLine == inbox["first"]
FrontStep == pending["first"]
FrontRunner == worker["first"]

\* How many scheduler outputs it is ahead of the last rank.
Lead == Len(Line) - Len(FrontLine)

Known(r) == r \in DOMAIN FrontRunner.reqs
InFront(r) == r \in DOMAIN FrontRunner.rows
FrontLen(r) == Len(FrontRunner.reqs[r].out)
FrontEnd(r) == PromptLen + FrontLen(r)
Taken(i, r) == i <= Lead /\ InBox(i, r)
Waits(i, r) == i > Lead /\ InBox(i, r)
Idles(req) == \A r \in DOMAIN req : ~Reach(req[r])
Done == Step = NoStep /\ Lead <= 0

\* Its scheduler outputs are the last ones of the last rank's, and empty when
\* the last rank is ahead.
FrontBoxes ==
    \A j \in 1 .. Len(FrontLine) :
        IF j + Lead > 0 THEN FrontLine[j] = Line[j + Lead] ELSE DOMAIN FrontLine[j].req = {}

FrontEnded(r) ==
    \A j \in 1 .. Len(FrontLine) : j + Lead <= 0 /\ r \in FrontLine[j].ended =>
        ~Live(r) /\ ~InBox(1, r) /\ ~InBox(2, r)

\* It knows of every request that it may be asked to go on with.
FrontKnows(r) ==
    /\ Live(r) \/ Waits(1, r) \/ Waits(2, r)
    /\ InWorker(r) \/ Taken(1, r) \/ Taken(2, r)
    => Known(r)

\* Its batch is the one of the last step it executed.
FrontRows ==
    /\ Lead >= 1 => DOMAIN FrontRunner.rows = DOMAIN Line[Lead].req
    /\ Lead = 0  => DOMAIN FrontRunner.rows = DOMAIN Runner.rows
    /\ Lead < 0  => DOMAIN Runner.rows = {}
    /\ FrontStep # NoStep => DOMAIN FrontRunner.rows = DOMAIN FrontStep.req

FrontType ==
    /\ WorkerRec(FrontRunner)
    /\ \A r \in DOMAIN FrontRunner.reqs : FrontRunner.reqs[r].drafts = 0
    /\ \A r \in DOMAIN Runner.reqs : Runner.reqs[r].drafts = 0
    /\ DOMAIN FrontRunner.rows \subseteq DOMAIN FrontRunner.reqs
    /\ FrontStep # NoStep => /\ FrontRunner.order \in SetToSeqs(DOMAIN FrontStep.req)
                             /\ DOMAIN FrontStep.req # {}

FrontInputs == FrontStep # NoStep =>
    FrontStep.inputs = OwnTokens([req |-> FrontStep.req, order |-> FrontRunner.order],
                                 FrontStep.pos)

\* Of the steps the last rank has not sampled, only the one the first rank has
\* under way samples anything.
FrontMatch == Async =>
    /\ Step # NoStep =>
          /\ Lead >= 0
          /\ IF Lead = 0 /\ FrontStep # NoStep
             THEN FrontStep.req = Step.req /\ FrontRunner.order = Runner.order
             ELSE Idles(Step.req)
    /\ \A i \in {1, 2} : i <= Len(Line) /\ i <= Lead =>
          IF i = Lead /\ FrontStep # NoStep
          THEN FrontStep.req = Line[i].req /\ FrontRunner.order = Line[i].order
          ELSE Idles(Line[i].req)
    /\ FrontStep # NoStep =>
          FrontStep.discard = {r \in DOMAIN FrontStep.req : ~Reach(FrontStep.req[r])}

\* Tokens that were sent and not received are those the last rank keeps.
FrontSent ==
    IF Async THEN sent # <<>> =>
        /\ FrontStep # NoStep /\ Done /\ ~Idles(FrontStep.req)
        /\ sent = <<Runner.prev.sampled>>
        /\ Runner.prev.index = IndexOf(FrontRunner, FrontStep.discard)
    ELSE sent = <<>>

\* What the first rank has on the device is what the last rank has.
FrontPrev ==
    IF Async THEN FrontStep = NoStep /\ DOMAIN FrontRunner.prev.index # {} =>
        /\ Step = NoStep
        /\ \A i \in {1, 2} : i <= Lead => ~Filled(i)
        /\ Runner.prev.index = FrontRunner.prev.index
        /\ Runner.prev.sampled = FrontRunner.prev.sampled
    ELSE FrontRunner.prev = NoPrev

\* How many tokens it counts for a request, and which ones the CPU holds.
FrontTokens(r) == Async =>
    /\ Known(r) => FrontLen(r) <= sampled[r]
    /\ InFront(r) => FrontLen(r) = IF FrontStep = NoStep THEN sampled[r]
                                                         ELSE FrontStep.req[r].outputs
    /\ FrontStep # NoStep /\ r \in DOMAIN FrontStep.req =>
          sampled[r] = FrontStep.req[r].outputs
                         + (IF Done /\ Reach(FrontStep.req[r]) THEN 1 ELSE 0)
    /\ /\ InFront(r)
       /\ IF FrontStep = NoStep THEN r \notin DOMAIN FrontRunner.prev.index
                                ELSE ~Reach(FrontStep.req[r])
       => Holds(FrontRunner.rows[r], sampled[r])

\* Without asynchronous scheduling it knows the tokens up to where it computes.
FrontPlain(r) == ~Async /\ Known(r) =>
    /\ Holds(FrontRunner.reqs[r].out, FrontLen(r))
    /\ InFront(r) => FrontRunner.rows[r] = FrontRunner.reqs[r].out
    /\ InWorker(r) => cached[r] <= FrontEnd(r)
    /\ InStep(r) => Step.req[r].computed + Step.req[r].n <= FrontEnd(r)
    /\ \A i \in {1, 2} : Taken(i, r) => Boxed(i, r).computed + Boxed(i, r).n <= FrontEnd(r)

FrontOf(r) == FrontEnded(r) /\ FrontKnows(r) /\ FrontTokens(r) /\ FrontPlain(r)
FrontAll == /\ FrontBoxes /\ FrontRows /\ FrontType /\ FrontInputs /\ FrontMatch /\ FrontSent
            /\ FrontPrev /\ \A r \in Reqs : FrontOf(r)
FrontInv == "first" \in Ranks => FrontAll

LEMMA FrontSizes ==
    ASSUME LineType, "first" \in Ranks
    PROVE  /\ FrontLine \in Seq(SchedulerOutput) /\ Len(FrontLine) \in Nat
           /\ FrontLine = <<>> <=> Len(FrontLine) = 0
           /\ Lead \in Int /\ Lead = Len(Line) - Len(FrontLine) /\ Lead <= Len(Line)
           /\ Line \in Seq(SchedulerOutput)
           /\ Len(Line) \in {0, 1, 2} /\ (Step # NoStep => Len(Line) <= 1)
           /\ Specs = 0 /\ (Async <=> mode = "pp")
           /\ Ranks = {"first", "last"}
           /\ FrontStep = NoStep \/ IsStep(FrontStep)
<1>1. mode \in {"pp", "syncpp"} /\ Ranks = {"first", "last"}
  BY DEF Ranks
<1>2. Specs = 0 /\ (Async <=> mode = "pp") /\ Depth = 2
  BY <1>1 DEF Specs, Async, Depth
<1>3. FrontLine \in Seq(SchedulerOutput)
  BY <1>1 DEF LineType, TypeInv, InboxType, FrontLine
<1>4. Len(FrontLine) \in Nat /\ Len(FrontLine) >= 0 /\ (FrontLine = <<>> <=> Len(FrontLine) = 0)
  BY <1>3, EmptySeq, LenProperties
<1>5. FrontStep = NoStep \/ IsStep(FrontStep)
  BY <1>1 DEF LineType, TypeInv, PendingType, FrontStep
<1>6. Len(Line) \in {0, 1, 2} /\ (Step # NoStep => Len(Line) <= 1) /\ Line \in Seq(SchedulerOutput)
  BY <1>2, Sizes
<1> QED BY <1>1, <1>2, <1>3, <1>4, <1>5, <1>6 DEF Lead

\* A step that touches neither rank.
FrontStill == /\ FrontLine' = FrontLine /\ FrontStep' = FrontStep /\ FrontRunner' = FrontRunner
              /\ sent' = sent

LEMMA IdlesSame ==
    \A req : Idles(req)' <=> Idles(req)
BY ReachSame DEF Idles

LEMMA StillFront ==
    ASSUME Steady, FrontStill, FrontAll, \A r \in Reqs : Live(r)' => Live(r)
    PROVE  FrontAll'
<1>1. /\ Lead' = Lead /\ (Done' <=> Done) /\ (Async' <=> Async)
      /\ (Step = NoStep)' <=> Step = NoStep
      /\ (FrontStep = NoStep)' <=> FrontStep = NoStep
  BY DEF Steady, FrontStill, Lead, Done, Async, NoStep
<1>2. \A r : /\ Known(r)' <=> Known(r)
             /\ InFront(r)' <=> InFront(r)
             /\ FrontLen(r)' = FrontLen(r) /\ FrontEnd(r)' = FrontEnd(r)
  BY DEF FrontStill, Known, InFront, FrontLen, FrontEnd
<1>3. \A r, i : /\ Taken(i, r)' <=> Taken(i, r)
                /\ Waits(i, r)' <=> Waits(i, r)
                /\ Boxed(i, r)' = Boxed(i, r)
                /\ InBox(i, r)' <=> InBox(i, r)
                /\ InWorker(r)' <=> InWorker(r)
                /\ InStep(r)' <=> InStep(r)
                /\ InStep(r) => Step'.req[r] = Step.req[r]
  BY <1>1 DEF Steady, Taken, Waits, InBox, Boxed, InWorker, InStep
<1>4. FrontBoxes' /\ FrontRows' /\ FrontType' /\ FrontInputs'
  <2>1. FrontBoxes'
    BY <1>1 DEF FrontAll, FrontBoxes, FrontStill, Steady
  <2>2. FrontRows'
    BY <1>1 DEF FrontAll, FrontRows, FrontStill, Steady
  <2>3. FrontType'
    BY <1>1 DEF FrontAll, FrontType, FrontStill, Steady, WorkerRec, IsWorkerReq
  <2>4. FrontInputs'
    BY <1>1 DEF FrontAll, FrontInputs, FrontStill
  <2> QED BY <2>1, <2>2, <2>3, <2>4
<1>5. FrontMatch'
  BY <1>1, IdlesSame, ReachSame DEF FrontAll, FrontMatch, FrontStill, Steady
<1>6. FrontSent' /\ FrontPrev'
  <2>1. FrontSent'
    BY <1>1, IdlesSame DEF FrontAll, FrontSent, FrontStill, Steady
  <2>2. \A i : Filled(i)' <=> Filled(i)
    BY DEF Filled, Steady
  <2>3. FrontPrev'
    BY <1>1, <2>2 DEF FrontAll, FrontPrev, FrontStill, Steady
  <2> QED BY <2>1, <2>3
<1>7. ASSUME NEW r \in Reqs PROVE FrontOf(r)'
  <2>0. FrontOf(r)
    BY DEF FrontAll
  <2>1. FrontEnded(r)'
    BY <1>1, <1>3, <2>0 DEF FrontOf, FrontEnded, FrontStill
  <2>2. FrontKnows(r)'
    BY <1>2, <1>3, <2>0 DEF FrontOf, FrontKnows
  <2>3. FrontTokens(r)'
    BY <1>1, <1>2, <2>0, ReachSame DEF FrontOf, FrontTokens, FrontStill, Steady, Holds
  <2>4. FrontPlain(r)'
    BY <1>1, <1>2, <1>3, <2>0 DEF FrontOf, FrontPlain, FrontStill, Steady, Holds
  <2> QED BY <2>1, <2>2, <2>3, <2>4 DEF FrontOf
<1> QED BY <1>4, <1>5, <1>6, <1>7 DEF FrontAll

(* A step is scheduled for both ranks.                                     *)
FrontPlan(so) == /\ Plan(so) /\ FrontLine' = Append(FrontLine, so) /\ FrontStep' = FrontStep
                 /\ FrontRunner' = FrontRunner /\ sent' = sent

LEMMA FrontPlans ==
    ASSUME "first" \in Ranks, LineType, Schedule \/ ScheduleNothing
    PROVE  \E so : FrontPlan(so)
<1>1. PICK so : Plan(so)
  BY SchedulePlans
<1>2. \E out : inbox' = [k \in Ranks |-> Append(inbox[k], out)]
  <2>1. CASE Schedule
    BY <2>1 DEF Schedule
  <2>2. CASE ScheduleNothing
    BY <2>2 DEF ScheduleNothing
  <2> QED BY <2>1, <2>2
<1>3. PICK out : inbox' = [k \in Ranks |-> Append(inbox[k], out)]
  BY <1>2
<1>4. Line' = Append(Line, out) /\ FrontLine' = Append(FrontLine, out)
  BY <1>3, FrontSizes DEF Line, FrontLine
<1>5. out = so
  <2>1. Append(Line, out) = Append(Line, so)
    BY <1>1, <1>4 DEF Plan
  <2>2. Line \in Seq(SchedulerOutput) /\ Len(Line) \in Nat
    BY Sizes
  <2>3. Append(Line, out)[Len(Line) + 1] = out /\ Append(Line, so)[Len(Line) + 1] = so
    BY <2>2
  <2> QED BY <2>1, <2>3
<1>6. UNCHANGED <<worker, pending, sent>>
  BY DEF Schedule, ScheduleNothing
<1>7. FrontStep' = FrontStep /\ FrontRunner' = FrontRunner /\ sent' = sent
  BY <1>6 DEF FrontStep, FrontRunner
<1> QED BY <1>1, <1>4, <1>5, <1>7 DEF FrontPlan

LEMMA FrontPlanPlaces ==
    ASSUME "first" \in Ranks, LineInv, NEW so, FrontPlan(so)
    PROVE  /\ Lead' = Lead /\ (Done' <=> Done) /\ (Async' <=> Async)
           /\ (Step = NoStep)' <=> Step = NoStep
           /\ (FrontStep = NoStep)' <=> FrontStep = NoStep
           /\ Len(Line') = Len(Line) + 1 /\ Len(FrontLine') = Len(FrontLine) + 1
           /\ Line'[Len(Line')] = so /\ FrontLine'[Len(FrontLine')] = so
           /\ \A i \in 1 .. Len(Line) : Line'[i] = Line[i]
           /\ \A j \in 1 .. Len(FrontLine) : FrontLine'[j] = FrontLine[j]
           /\ \A r : /\ Known(r)' <=> Known(r)
                     /\ InFront(r)' <=> InFront(r)
                     /\ FrontLen(r)' = FrontLen(r) /\ FrontEnd(r)' = FrontEnd(r)
           /\ Step' = Step /\ Runner' = Runner /\ sampled' = sampled /\ cached' = cached
<1>1. /\ Line' = Append(Line, so) /\ UNCHANGED <<mode, worker, pending, sampled, cached>>
      /\ FrontLine' = Append(FrontLine, so) /\ FrontStep' = FrontStep
      /\ FrontRunner' = FrontRunner /\ so \in SchedulerOutput
  BY DEF FrontPlan, Plan
<1>2. /\ Line \in Seq(SchedulerOutput) /\ FrontLine \in Seq(SchedulerOutput)
      /\ Len(Line) \in Nat /\ Len(FrontLine) \in Nat
  BY FrontSizes DEF LineInv
<1>3. /\ Len(Line') = Len(Line) + 1 /\ Len(FrontLine') = Len(FrontLine) + 1
      /\ Line'[Len(Line')] = so /\ FrontLine'[Len(FrontLine')] = so
      /\ \A i \in 1 .. Len(Line) : Line'[i] = Line[i]
      /\ \A j \in 1 .. Len(FrontLine) : FrontLine'[j] = FrontLine[j]
  BY <1>1, <1>2
<1>4. Lead' = Lead
  BY <1>2, <1>3 DEF Lead
<1>5. Step' = Step /\ Runner' = Runner /\ (Async' <=> Async)
  BY <1>1 DEF Step, Runner, Async
<1>6. (Step = NoStep)' <=> Step = NoStep
  BY <1>5 DEF NoStep
<1>7. (FrontStep = NoStep)' <=> FrontStep = NoStep
  BY <1>1 DEF NoStep
<1>8. Done' <=> Done
  BY <1>4, <1>6 DEF Done
<1>9. \A r : /\ Known(r)' <=> Known(r)
             /\ InFront(r)' <=> InFront(r)
             /\ FrontLen(r)' = FrontLen(r) /\ FrontEnd(r)' = FrontEnd(r)
  BY <1>1 DEF Known, InFront, FrontLen, FrontEnd
<1> QED BY <1>1, <1>3, <1>4, <1>5, <1>6, <1>7, <1>8, <1>9

LEMMA FrontPlanRequest ==
    ASSUME "first" \in Ranks, LineInv, NEW so, FrontPlan(so), NEW r \in Reqs
    PROVE  /\ Live(r)' => Live(r)
           /\ \A i : Taken(i, r)' <=> Taken(i, r)
           /\ \A i : Taken(i, r) => Boxed(i, r)' = Boxed(i, r)
           /\ \A i \in {1, 2} : InBox(i, r)' => InBox(i, r) \/ (Live(r) /\ r \in DOMAIN so.req)
           /\ \A i \in {1, 2} : Waits(i, r)' => Waits(i, r) \/ Live(r)
           /\ InStep(r)' <=> InStep(r)
           /\ InWorker(r)' <=> InWorker(r)
<1>1. /\ Lead' = Lead
      /\ (Step = NoStep)' <=> Step = NoStep
      /\ Len(Line') = Len(Line) + 1 /\ Line'[Len(Line')] = so
      /\ \A i \in 1 .. Len(Line) : Line'[i] = Line[i]
      /\ Step' = Step /\ Runner' = Runner
  BY FrontPlanPlaces
<1>2. Lead \in Int /\ Lead <= Len(Line) /\ Len(Line) \in Nat
  BY FrontSizes DEF LineInv
<1>3. (Live(r)' => Live(r)) /\ (r \in DOMAIN so.req => Live(r))
  <2>1. \/ r \in DOMAIN so.req /\ Chosen(r, so.req[r])
        \/ /\ r \notin DOMAIN so.req /\ request'[r] = request[r]
        \/ /\ r \notin DOMAIN so.req /\ Running(r)
    BY PlanCases DEF FrontPlan, LineInv
  <2> QED BY <2>1 DEF Live, Chosen, Running
<1>4. \A i : InBox(i, r)' <=> InBox(i, r) \/ (i = Len(Line) + 1 /\ r \in DOMAIN so.req)
  BY <1>1, <1>2 DEF InBox
<1>5. \A i : Taken(i, r)' <=> Taken(i, r)
  BY <1>1, <1>2, <1>4 DEF Taken
<1>6. \A i : Taken(i, r) => Boxed(i, r)' = Boxed(i, r)
  BY <1>1 DEF Taken, Boxed, InBox
<1>7. \A i : Waits(i, r)' => Waits(i, r) \/ Live(r)
  BY <1>1, <1>3, <1>4 DEF Waits
<1>8. (InStep(r)' <=> InStep(r)) /\ (InWorker(r)' <=> InWorker(r))
  BY <1>1 DEF InStep, InWorker
<1> QED BY <1>3, <1>4, <1>5, <1>6, <1>7, <1>8

LEMMA FrontPlanned ==
    ASSUME "first" \in Ranks, LineInv, FrontAll, Schedule \/ ScheduleNothing
    PROVE  FrontAll'
<1>1. PICK so : FrontPlan(so)
  BY FrontPlans DEF LineInv
<1>2. /\ Lead' = Lead /\ (Done' <=> Done) /\ (Async' <=> Async)
      /\ (Step = NoStep)' <=> Step = NoStep
      /\ (FrontStep = NoStep)' <=> FrontStep = NoStep
      /\ Len(Line') = Len(Line) + 1 /\ Len(FrontLine') = Len(FrontLine) + 1
      /\ Line'[Len(Line')] = so /\ FrontLine'[Len(FrontLine')] = so
      /\ \A i \in 1 .. Len(Line) : Line'[i] = Line[i]
      /\ \A j \in 1 .. Len(FrontLine) : FrontLine'[j] = FrontLine[j]
      /\ \A r : /\ Known(r)' <=> Known(r)
                /\ InFront(r)' <=> InFront(r)
                /\ FrontLen(r)' = FrontLen(r) /\ FrontEnd(r)' = FrontEnd(r)
      /\ Step' = Step /\ Runner' = Runner /\ sampled' = sampled /\ cached' = cached
  BY <1>1, FrontPlanPlaces
<1>3. /\ FrontStep' = FrontStep /\ FrontRunner' = FrontRunner /\ sent' = sent
  BY <1>1 DEF FrontPlan
<1>4. /\ Lead \in Int /\ Lead <= Len(Line) /\ Len(Line) \in Nat /\ Len(FrontLine) \in Nat
      /\ Lead = Len(Line) - Len(FrontLine)
  BY FrontSizes DEF LineInv
<1>5. FrontBoxes' /\ FrontRows' /\ FrontType' /\ FrontInputs'
  <2>1. FrontBoxes'
    <3> SUFFICES ASSUME NEW j \in 1 .. Len(FrontLine')
                 PROVE  IF j + Lead > 0 THEN FrontLine'[j] = Line'[j + Lead]
                                        ELSE DOMAIN FrontLine'[j].req = {}
      BY <1>2 DEF FrontBoxes
    <3>1. CASE j = Len(FrontLine) + 1
      <4>1. j + Lead = Len(Line') /\ j + Lead > 0 /\ j = Len(FrontLine')
        BY <1>2, <1>4, <3>1
      <4> QED BY <4>1, <1>2
    <3>2. CASE j # Len(FrontLine) + 1
      <4>1. j \in 1 .. Len(FrontLine) /\ (j + Lead > 0 => j + Lead \in 1 .. Len(Line))
        BY <1>2, <1>4, <3>2
      <4> QED BY <4>1, <1>2 DEF FrontAll, FrontBoxes
    <3> QED BY <3>1, <3>2
  <2>2. FrontRows'
    <3>1. Lead >= 1 => Lead \in 1 .. Len(Line)
      BY <1>4
    <3> QED BY <1>2, <1>3, <3>1 DEF FrontAll, FrontRows
  <2>3. FrontType'
    BY <1>2, <1>3 DEF FrontAll, FrontType, WorkerRec, IsWorkerReq
  <2>4. FrontInputs'
    BY <1>2, <1>3 DEF FrontAll, FrontInputs
  <2> QED BY <2>1, <2>2, <2>3, <2>4
<1>6. FrontMatch'
  <2>1. \A i \in {1, 2} : i <= Lead => i \in 1 .. Len(Line)
    BY <1>4
  <2> QED BY <1>2, <1>3, <2>1, IdlesSame, ReachSame DEF FrontAll, FrontMatch
<1>7. FrontSent' /\ FrontPrev'
  <2>1. FrontSent'
    BY <1>2, <1>3, IdlesSame DEF FrontAll, FrontSent
  <2>2. \A i \in {1, 2} : i <= Lead => (Filled(i)' <=> Filled(i))
    BY <1>2, <1>4 DEF Filled
  <2>3. FrontPrev'
    BY <1>2, <1>3, <2>2 DEF FrontAll, FrontPrev
  <2> QED BY <2>1, <2>3
<1>8. ASSUME NEW r \in Reqs PROVE FrontOf(r)'
  <2>0. FrontOf(r)
    BY DEF FrontAll
  <2>9. /\ Live(r)' => Live(r)
        /\ \A i : Taken(i, r)' <=> Taken(i, r)
        /\ \A i : Taken(i, r) => Boxed(i, r)' = Boxed(i, r)
        /\ \A i \in {1, 2} : InBox(i, r)' => InBox(i, r) \/ (Live(r) /\ r \in DOMAIN so.req)
        /\ \A i \in {1, 2} : Waits(i, r)' => Waits(i, r) \/ Live(r)
        /\ InStep(r)' <=> InStep(r)
        /\ InWorker(r)' <=> InWorker(r)
    BY <1>1, FrontPlanRequest
  <2>1. FrontEnded(r)'
    <3> SUFFICES ASSUME NEW j \in 1 .. Len(FrontLine'), j + Lead <= 0, r \in FrontLine'[j].ended
                 PROVE  ~Live(r)' /\ ~InBox(1, r)' /\ ~InBox(2, r)'
      BY <1>2 DEF FrontEnded
    <3>1. j \in 1 .. Len(FrontLine)
      BY <1>2, <1>4
    <3>2. ~Live(r) /\ ~InBox(1, r) /\ ~InBox(2, r)
      BY <3>1, <1>2, <2>0 DEF FrontOf, FrontEnded
    <3> QED BY <3>2, <2>9
  <2>2. FrontKnows(r)'
    BY <1>2, <2>9, <2>0 DEF FrontOf, FrontKnows
  <2>3. FrontTokens(r)'
    BY <1>2, <1>3, <2>0, ReachSame DEF FrontOf, FrontTokens, Holds
  <2>4. FrontPlain(r)'
    BY <1>2, <1>3, <2>9, <2>0 DEF FrontOf, FrontPlain, Holds
  <2> QED BY <2>1, <2>2, <2>3, <2>4 DEF FrontOf
<1> QED BY <1>5, <1>6, <1>7, <1>8 DEF FrontAll

(* The last rank executes a step: the first rank has executed it before,   *)
(* unless nothing is scheduled in it.                                      *)
LEMMA LastExecutes ==
    ASSUME "first" \in Ranks, LineInv, ExecuteModel("last")
    PROVE  /\ FrontStill /\ (Async' <=> Async) /\ Lead' = Lead - 1
           /\ Step = NoStep /\ Len(Line) \in {1, 2} /\ Len(Line') = Len(Line) - 1
           /\ \A i \in 1 .. Len(Line') : Line'[i] = Line[i + 1]
           /\ (FrontStep = NoStep)' <=> FrontStep = NoStep
           /\ DOMAIN Line[1].req # {} =>
                /\ Lead >= 1 /\ Step' # NoStep /\ Line[1].order # <<>>
                /\ Step'.req = Line[1].req /\ Runner'.order = Line[1].order
           /\ DOMAIN Line[1].req = {} => Step' = NoStep
           /\ Runner'.prev = Runner.prev /\ sampled' = sampled
           /\ DOMAIN Runner'.rows = DOMAIN Line[1].req
           /\ \A r : /\ Known(r)' <=> Known(r)
                     /\ InFront(r)' <=> InFront(r)
                     /\ FrontLen(r)' = FrontLen(r) /\ FrontEnd(r)' = FrontEnd(r)
<1>1. LineType /\ Ranks = {"first", "last"} /\ "last" \in Ranks
  BY FrontSizes DEF LineInv
<1>2. /\ Step = NoStep /\ Line # <<>> /\ Head(Line) = Line[1] /\ Head(Line) \in SchedulerOutput
      /\ Head(Line).order \in SetToSeqs(DOMAIN Head(Line).req) /\ Head(Line).req \in StepReqs
  BY <1>1, InboxHead DEF ExecuteModel, LineType, TypeInv, Line, Step
<1>3. /\ Len(Tail(Line)) = Len(Line) - 1
      /\ \A i \in 1 .. Len(Tail(Line)) : Tail(Line)[i] = Line[i + 1]
  BY <1>1, <1>2, InboxHead DEF LineType, TypeInv, Line
<1>4. Line' = Tail(Line) /\ FrontLine' = FrontLine
  <2>1. inbox' = [inbox EXCEPT !["last"] = Tail(@)]
    BY DEF ExecuteModel
  <2>2. inbox = [k \in Ranks |-> inbox[k]]
    BY <1>1 DEF LineType, TypeInv, InboxType
  <2> QED BY <1>1, <2>1, <2>2 DEF Line, FrontLine
<1>5. Len(Line) \in {1, 2}
  BY <1>2, FrontSizes, Sizes DEF LineInv
<1>6. Lead' = Lead - 1
  BY <1>3, <1>4, <1>5, FrontSizes DEF Lead, LineInv
<1>7. mode' = mode /\ sent' = sent /\ sampled' = sampled
  BY DEF ExecuteModel
<1>8. FrontStep' = FrontStep /\ FrontRunner' = FrontRunner
  <2>1. worker = [k \in Ranks |-> worker[k]] /\ pending = [k \in Ranks |-> pending[k]]
    BY <1>1 DEF LineType, WorkerType, TypeInv, PendingType
  <2>2. \E x : worker' = [worker EXCEPT !["last"] = x]
    BY DEF ExecuteModel
  <2>3. pending' = pending \/ \E x : pending' = [pending EXCEPT !["last"] = x]
    BY DEF ExecuteModel
  <2> QED BY <1>1, <2>1, <2>2, <2>3 DEF FrontStep, FrontRunner
<1>9. (FrontStep = NoStep)' <=> FrontStep = NoStep
  BY <1>8 DEF NoStep
<1>10. DOMAIN Line[1].req # {} => Lead >= 1
  <2>1. DOMAIN Line[1].req # {} => TensorsArrived("last")
    BY <1>2 DEF ExecuteModel, Scheduled, Line
  <2>2. TensorsArrived("last") => Len(FrontLine) < Len(Line)
    BY DEF TensorsArrived, FrontLine, Line
  <2> QED BY <2>1, <2>2, FrontSizes DEF LineInv
<1>11. DOMAIN Line[1].req # {} => Line[1].order # <<>>
  <2>1. Line[1].order \in Seq(DOMAIN Line[1].req) /\ Range(Line[1].order) = DOMAIN Line[1].req
    BY <1>2, OrderFacts, OrderCovers, StepReqsFacts
  <2> QED BY <2>1 DEF Range
<1>12. /\ DOMAIN Line[1].req # {} => Step' # NoStep /\ Step'.req = Line[1].req
       /\ DOMAIN Line[1].req = {} => Step' = NoStep
  BY <1>2, ExecutedStep DEF Scheduled
<1>13. /\ Runner'.prev = Runner.prev /\ Runner'.order = Line[1].order
       /\ DOMAIN Runner'.rows = DOMAIN Line[1].req
  BY <1>2, ExecutedRunner DEF Scheduled
<1>14. \A r : /\ Known(r)' <=> Known(r)
              /\ InFront(r)' <=> InFront(r)
              /\ FrontLen(r)' = FrontLen(r) /\ FrontEnd(r)' = FrontEnd(r)
  BY <1>8 DEF Known, InFront, FrontLen, FrontEnd
<1>15. FrontStill /\ (Async' <=> Async)
  BY <1>4, <1>7, <1>8 DEF FrontStill, Async
<1> HIDE DEF Lead
<1> QED BY <1>2, <1>3, <1>4, <1>5, <1>6, <1>7, <1>9, <1>10, <1>11, <1>12, <1>13, <1>14, <1>15

LEMMA LastExecutesRequest ==
    ASSUME "first" \in Ranks, LineInv, ExecuteModel("last"), NEW r \in Reqs
    PROVE  /\ Live(r)' <=> Live(r)
           /\ Taken(1, r)' => Taken(2, r) /\ Boxed(1, r)' = Boxed(2, r)
           /\ Waits(1, r)' => Waits(2, r)
           /\ ~InBox(2, r)' /\ ~Taken(2, r)' /\ ~Waits(2, r)'
           /\ InBox(1, r)' <=> InBox(2, r)
           /\ InBox(1, r) => Taken(1, r)
           /\ InWorker(r)' => InWorker(r) \/ InBox(1, r)
           /\ InStep(r)' <=> InBox(1, r)
           /\ InBox(1, r) => Step'.req[r] = Boxed(1, r) /\ cached'[r] = Base(r)
           /\ ~InBox(1, r) => cached'[r] = cached[r]
<1>1. Execution(r)
  BY Executed
<1>2. /\ Lead' = Lead - 1 /\ Lead \in Int
      /\ DOMAIN Line[1].req # {} => Lead >= 1
  BY LastExecutes, FrontSizes DEF LineInv
<1>3. InBox(1, r) => Taken(1, r)
  BY <1>2 DEF Taken, InBox
<1>4. /\ Taken(1, r)' => Taken(2, r) /\ Boxed(1, r)' = Boxed(2, r)
      /\ Waits(1, r)' => Waits(2, r)
      /\ ~InBox(2, r)' /\ ~Taken(2, r)' /\ ~Waits(2, r)'
  BY <1>1, <1>2 DEF Execution, Taken, Waits
<1>5. Live(r)' <=> Live(r)
  BY <1>1 DEF Execution, Live
<1> QED BY <1>1, <1>3, <1>4, <1>5 DEF Execution

LEMMA LastExecutedBoxes ==
    ASSUME "first" \in Ranks, LineInv, FrontAll, ExecuteModel("last")
    PROVE  FrontBoxes' /\ FrontRows' /\ FrontType' /\ FrontInputs'
<1>1. /\ FrontStill /\ Lead' = Lead - 1
      /\ Step = NoStep /\ Len(Line) \in {1, 2} /\ Len(Line') = Len(Line) - 1
      /\ \A i \in 1 .. Len(Line') : Line'[i] = Line[i + 1]
      /\ (FrontStep = NoStep)' <=> FrontStep = NoStep
      /\ DOMAIN Line[1].req # {} => Lead >= 1
      /\ DOMAIN Runner'.rows = DOMAIN Line[1].req
  BY LastExecutes
<1>2. /\ Lead \in Int /\ Lead <= Len(Line) /\ Len(FrontLine) \in Nat
      /\ Lead = Len(Line) - Len(FrontLine)
  BY FrontSizes DEF LineInv
<1>3. FrontBoxes'
  <2> SUFFICES ASSUME NEW j \in 1 .. Len(FrontLine)
               PROVE  IF j + (Lead - 1) > 0 THEN FrontLine[j] = Line'[j + (Lead - 1)]
                                            ELSE DOMAIN FrontLine[j].req = {}
    BY <1>1 DEF FrontBoxes, FrontStill
  <2>1. CASE j + Lead > 1
    <3>1. j + (Lead - 1) \in 1 .. Len(Line') /\ (j + (Lead - 1)) + 1 = j + Lead
      BY <1>1, <1>2, <2>1
    <3>2. Line'[j + (Lead - 1)] = Line[j + Lead]
      BY <3>1, <1>1
    <3>3. FrontLine[j] = Line[j + Lead]
      BY <1>2, <2>1 DEF FrontAll, FrontBoxes
    <3> QED BY <3>1, <3>2, <3>3
  <2>2. CASE j + Lead = 1
    <3>1. FrontLine[j] = Line[1] /\ ~(Lead >= 1) /\ ~(j + (Lead - 1) > 0)
      BY <1>2, <2>2 DEF FrontAll, FrontBoxes
    <3> QED BY <3>1, <1>1
  <2>3. CASE j + Lead < 1
    BY <1>2, <2>3 DEF FrontAll, FrontBoxes
  <2> QED BY <1>2, <2>1, <2>2, <2>3
<1>4. FrontRows'
  <2>1. /\ Lead - 1 >= 1 => DOMAIN FrontRunner.rows = DOMAIN Line'[Lead - 1].req
        /\ Lead - 1 = 0  => DOMAIN FrontRunner.rows = DOMAIN Runner'.rows
        /\ Lead - 1 < 0  => DOMAIN Runner'.rows = {}
    <3>1. CASE Lead - 1 >= 1
      <4>1. /\ Lead - 1 \in 1 .. Len(Line') /\ (Lead - 1) + 1 = Lead /\ Lead >= 1
            /\ ~(Lead - 1 = 0) /\ ~(Lead - 1 < 0)
        BY <1>1, <1>2, <3>1
      <4>2. Line'[Lead - 1] = Line[(Lead - 1) + 1]
        BY <4>1, <1>1
      <4>3. DOMAIN FrontRunner.rows = DOMAIN Line[Lead].req
        BY <4>1 DEF FrontAll, FrontRows
      <4> QED BY <4>1, <4>2, <4>3
    <3>2. CASE Lead - 1 = 0
      <4>1. Lead = 1
        BY <1>2, <3>2
      <4> QED BY <4>1, <1>1, <3>2, <1>2 DEF FrontAll, FrontRows
    <3>3. CASE Lead - 1 < 0
      BY <3>3, <1>1, <1>2
    <3> QED BY <1>2, <3>1, <3>2, <3>3
  <2>2. FrontStep # NoStep => DOMAIN FrontRunner.rows = DOMAIN FrontStep.req
    BY DEF FrontAll, FrontRows
  <2> QED BY <1>1, <2>1, <2>2 DEF FrontRows, FrontStill
<1>5. FrontType'
  <2>1. \A r \in DOMAIN Runner'.reqs : Runner'.reqs[r].drafts = 0
    <3>1. LET so == Head(Line)
          IN  /\ DOMAIN Runner'.reqs = Kept(Runner, so)
              /\ \A r \in Scheduled(so) : Runner'.reqs[r].drafts = so.req[r].drafts
              /\ \A r \in Kept(Runner, so) \ Scheduled(so) :
                     Runner'.reqs[r].drafts = Runner.reqs[r].drafts
      BY ExecutedRunner
    <3>2. \A r \in Kept(Runner, Head(Line)) \ Scheduled(Head(Line)) : r \in DOMAIN Runner.reqs
      BY DEF Kept
    <3>3. ASSUME NEW r \in Scheduled(Head(Line)) PROVE Head(Line).req[r].drafts = 0
      <4>1. Head(Line) = Line[1] /\ Head(Line).req \in StepReqs
        BY <1>1, InboxHead, FrontSizes DEF LineInv, LineType, TypeInv, Line
      <4>2. r \in Reqs /\ InBox(1, r) /\ Boxed(1, r) = Head(Line).req[r]
        BY <4>1, <1>1, StepReqsFacts DEF Scheduled, InBox, Boxed
      <4>3. GoodReq(Boxed(1, r)) /\ Boxed(1, r) \in ScheduledRec
        BY <4>2, PlaceTypes DEF LineInv, RequestInv, GoodSteps
      <4> QED BY <4>2, <4>3, FrontSizes, RecordTypes DEF GoodReq, LineInv
    <3> QED BY <3>1, <3>2, <3>3 DEF FrontAll, FrontType
  <2> QED BY <1>1, <2>1 DEF FrontAll, FrontType, FrontStill, WorkerRec, IsWorkerReq
<1>6. FrontInputs'
  BY <1>1 DEF FrontAll, FrontInputs, FrontStill
<1> QED BY <1>3, <1>4, <1>5, <1>6

LEMMA LastExecutedMatch ==
    ASSUME "first" \in Ranks, LineInv, FrontAll, ExecuteModel("last")
    PROVE  FrontMatch' /\ FrontSent' /\ FrontPrev'
<1>1. /\ FrontStill /\ (Async' <=> Async) /\ Lead' = Lead - 1
      /\ Step = NoStep /\ Len(Line) \in {1, 2} /\ Len(Line') = Len(Line) - 1
      /\ \A i \in 1 .. Len(Line') : Line'[i] = Line[i + 1]
      /\ (FrontStep = NoStep)' <=> FrontStep = NoStep
      /\ DOMAIN Line[1].req # {} =>
           /\ Lead >= 1 /\ Step' # NoStep /\ Line[1].order # <<>>
           /\ Step'.req = Line[1].req /\ Runner'.order = Line[1].order
      /\ DOMAIN Line[1].req = {} => Step' = NoStep
      /\ Runner'.prev = Runner.prev
  BY LastExecutes
<1>2. Lead \in Int /\ Lead <= Len(Line)
  BY FrontSizes DEF LineInv
<1>3. FrontMatch'
  <2> SUFFICES ASSUME Async PROVE FrontMatch'
    BY <1>1 DEF FrontMatch
  <2>1. \A i \in {1, 2} : i <= Len(Line) /\ i <= Lead =>
          IF i = Lead /\ FrontStep # NoStep
          THEN FrontStep.req = Line[i].req /\ FrontRunner.order = Line[i].order
          ELSE Idles(Line[i].req)
    BY DEF FrontAll, FrontMatch
  <2>2. Step' # NoStep =>
          /\ Lead - 1 >= 0
          /\ IF Lead - 1 = 0 /\ FrontStep # NoStep
             THEN FrontStep.req = Step'.req /\ FrontRunner.order = Runner'.order
             ELSE Idles(Step'.req)
    <3> SUFFICES ASSUME Step' # NoStep
                 PROVE  /\ Lead - 1 >= 0
                        /\ IF Lead - 1 = 0 /\ FrontStep # NoStep
                           THEN FrontStep.req = Step'.req /\ FrontRunner.order = Runner'.order
                           ELSE Idles(Step'.req)
      OBVIOUS
    <3>1. /\ Lead >= 1 /\ Step'.req = Line[1].req /\ Runner'.order = Line[1].order
          /\ 1 <= Len(Line) /\ 1 <= Lead
      BY <1>1, <1>2
    <3>2. Lead - 1 = 0 <=> 1 = Lead
      BY <1>2
    <3>3. Lead - 1 >= 0
      BY <1>2, <3>1
    <3> QED BY <3>1, <3>2, <3>3, <2>1
  <2>3. ASSUME NEW i \in {1, 2}, i <= Len(Line'), i <= Lead - 1
        PROVE  IF i = Lead - 1 /\ FrontStep # NoStep
               THEN FrontStep.req = Line'[i].req /\ FrontRunner.order = Line'[i].order
               ELSE Idles(Line'[i].req)
    <3>1. /\ i + 1 \in {1, 2} /\ i + 1 <= Len(Line) /\ i + 1 <= Lead
          /\ i + 1 = Lead <=> i = Lead - 1
      BY <2>3, <1>1, <1>2
    <3>2. Line'[i] = Line[i + 1]
      BY <2>3, <1>1
    <3> QED BY <3>1, <3>2, <2>1
  <2>4. FrontStep # NoStep =>
          FrontStep.discard = {r \in DOMAIN FrontStep.req : ~Reach(FrontStep.req[r])}
    BY DEF FrontAll, FrontMatch
  <2>5. (Step = NoStep)' <=> Step' = NoStep
    BY DEF NoStep
  <2> QED BY <1>1, <2>2, <2>3, <2>4, <2>5, IdlesSame, ReachSame DEF FrontMatch, FrontStill
<1>4. FrontSent'
  <2>1. Done => Done'
    <3>1. (Step = NoStep)' <=> Step' = NoStep
      BY DEF NoStep
    <3> QED BY <3>1, <1>1, <1>2 DEF Done
  <2> QED BY <1>1, <2>1, IdlesSame DEF FrontAll, FrontSent, FrontStill
<1>5. FrontPrev'
  <2>1. CASE ~Async
    BY <1>1, <2>1 DEF FrontAll, FrontPrev, FrontStill
  <2>2. CASE Async
    <3> SUFFICES ASSUME FrontStep = NoStep, DOMAIN FrontRunner.prev.index # {}
                 PROVE  /\ (Step = NoStep)'
                        /\ \A i \in {1, 2} : i <= Lead - 1 => ~Filled(i)'
      BY <1>1, <2>2 DEF FrontAll, FrontPrev, FrontStill
    <3>1. \A i \in {1, 2} : i <= Lead => ~Filled(i)
      BY <2>2 DEF FrontAll, FrontPrev
    <3>2. (Step = NoStep)' <=> Step' = NoStep
      BY DEF NoStep
    <3>3. DOMAIN Line[1].req # {} => Filled(1) /\ 1 <= Lead
      BY <1>1 DEF Filled
    <3>4. (Step = NoStep)'
      BY <3>1, <3>2, <3>3, <1>1
    <3>5. \A i \in {1, 2} : Filled(i)' => i = 1 /\ Filled(2)
      BY <1>1 DEF Filled
    <3> QED BY <1>2, <3>1, <3>4, <3>5
  <2> QED BY <2>1, <2>2
<1> QED BY <1>3, <1>4, <1>5

LEMMA LastExecutedOf ==
    ASSUME "first" \in Ranks, LineInv, FrontAll, ExecuteModel("last"), NEW r \in Reqs
    PROVE  FrontOf(r)'
<1>1. /\ FrontStill /\ (Async' <=> Async) /\ Lead' = Lead - 1
      /\ Step = NoStep /\ Len(Line) \in {1, 2}
      /\ (FrontStep = NoStep)' <=> FrontStep = NoStep
      /\ DOMAIN Line[1].req # {} => Lead >= 1 /\ Step' # NoStep
      /\ DOMAIN Line[1].req = {} => Step' = NoStep
      /\ sampled' = sampled
      /\ Known(r)' <=> Known(r)
      /\ InFront(r)' <=> InFront(r)
      /\ FrontLen(r)' = FrontLen(r) /\ FrontEnd(r)' = FrontEnd(r)
  BY LastExecutes
<1>2. /\ Lead \in Int /\ Lead <= Len(Line) /\ Len(FrontLine) \in Nat
      /\ Lead = Len(Line) - Len(FrontLine)
  BY FrontSizes DEF LineInv
<1>3. /\ Live(r)' <=> Live(r)
      /\ Taken(1, r)' => Taken(2, r) /\ Boxed(1, r)' = Boxed(2, r)
      /\ Waits(1, r)' => Waits(2, r)
      /\ ~InBox(2, r)' /\ ~Taken(2, r)' /\ ~Waits(2, r)'
      /\ InBox(1, r)' <=> InBox(2, r)
      /\ InBox(1, r) => Taken(1, r)
      /\ InWorker(r)' => InWorker(r) \/ InBox(1, r)
      /\ InStep(r)' <=> InBox(1, r)
      /\ InBox(1, r) => Step'.req[r] = Boxed(1, r) /\ cached'[r] = Base(r)
      /\ ~InBox(1, r) => cached'[r] = cached[r]
  BY LastExecutesRequest
<1>4. FrontOf(r) /\ RequestInv(r)
  BY DEF FrontAll, LineInv
<1>5. FrontEnded(r)'
  <2> SUFFICES ASSUME NEW j \in 1 .. Len(FrontLine), j + (Lead - 1) <= 0,
                      r \in FrontLine[j].ended
               PROVE  ~Live(r) /\ ~InBox(2, r)
    BY <1>1, <1>3 DEF FrontEnded, FrontStill
  <2>1. CASE j + Lead <= 0
    BY <2>1, <1>4 DEF FrontOf, FrontEnded
  <2>2. CASE j + Lead = 1
    <3>1. FrontLine[j] = Line[1]
      BY <2>2 DEF FrontAll, FrontBoxes
    <3>2. EndsBox(1, r)
      BY <3>1, <1>1 DEF EndsBox
    <3> QED BY <3>2, <1>4 DEF RequestInv, EndedInv
  <2> QED BY <1>2, <2>1, <2>2
<1>6. FrontKnows(r)'
  BY <1>1, <1>3, <1>4 DEF FrontOf, FrontKnows
<1>7. FrontTokens(r)'
  <2> SUFFICES ASSUME Async PROVE FrontTokens(r)'
    BY <1>1 DEF FrontTokens
  <2>1. FrontStep # NoStep => (Done' <=> Done)
    <3> SUFFICES ASSUME FrontStep # NoStep PROVE Done' <=> Done
      OBVIOUS
    <3>1. (Step = NoStep)' <=> Step' = NoStep
      BY DEF NoStep
    <3>2. Lead = 1 => DOMAIN Line[1].req # {}
      BY <1>1 DEF FrontAll, FrontMatch, FrontType
    <3> QED BY <3>1, <3>2, <1>1, <1>2 DEF Done
  <2> QED BY <1>1, <1>4, <2>1, ReachSame DEF FrontOf, FrontTokens, FrontStill, Holds
<1>8. FrontPlain(r)'
  <2> SUFFICES ASSUME ~Async, Known(r) PROVE FrontPlain(r)'
    BY <1>1 DEF FrontPlain
  <2>1. /\ Holds(FrontRunner.reqs[r].out, FrontLen(r))
        /\ InFront(r) => FrontRunner.rows[r] = FrontRunner.reqs[r].out
        /\ InWorker(r) => cached[r] <= FrontEnd(r)
        /\ \A i \in {1, 2} : Taken(i, r) => Boxed(i, r).computed + Boxed(i, r).n <= FrontEnd(r)
    BY <1>4 DEF FrontOf, FrontPlain
  <2>2. InBox(1, r) => cached'[r] <= FrontEnd(r)
    <3> SUFFICES ASSUME InBox(1, r) PROVE cached'[r] <= FrontEnd(r)
      OBVIOUS
    <3>1. cached'[r] = Base(r) /\ Taken(1, r)
      BY <1>3
    <3>2. Shift(r) = 0
      BY DEF Shift
    <3>3. Boxed(1, r) \in ScheduledRec
      BY PlaceTypes DEF LineInv
    <3>4. Boxed(1, r).computed \in Int /\ Boxed(1, r).n \in Nat /\ Boxed(1, r).n > 0
      BY <3>3, RecordTypes
    <3>5. Boxed(1, r).computed - Shift(r) = Base(r)
      BY <1>1, <1>4 DEF RequestInv, AimInv
    <3>6. FrontEnd(r) \in Int
      <4>1. IsWorkerReq(FrontRunner.reqs[r])
        BY DEF FrontAll, FrontType, WorkerRec, Known
      <4>2. Len(FrontRunner.reqs[r].out) \in Nat
        BY <4>1 DEF IsWorkerReq
      <4> QED BY <4>2, RunnerAssumption DEF FrontEnd, FrontLen
    <3> QED BY <2>1, <3>1, <3>2, <3>4, <3>5, <3>6
  <2>3. InWorker(r)' => cached'[r] <= FrontEnd(r)
    BY <2>1, <2>2, <1>3
  <2>4. InStep(r)' => Step'.req[r].computed + Step'.req[r].n <= FrontEnd(r)
    BY <2>1, <1>3
  <2>5. \A i \in {1, 2} : Taken(i, r)' =>
            Boxed(i, r)'.computed + Boxed(i, r)'.n <= FrontEnd(r)
    BY <2>1, <1>3
  <2> QED BY <1>1, <2>1, <2>3, <2>4, <2>5 DEF FrontPlain, FrontStill, Holds
<1> QED BY <1>5, <1>6, <1>7, <1>8 DEF FrontOf

LEMMA LastExecutedFront ==
    ASSUME "first" \in Ranks, LineInv, FrontAll, ExecuteModel("last")
    PROVE  FrontAll'
<1>1. \A r \in Reqs : FrontOf(r)'
  BY LastExecutedOf
<1>2. Reqs' = Reqs
  OBVIOUS
<1> QED BY <1>1, LastExecutedBoxes, LastExecutedMatch DEF FrontAll

(* The last rank samples: what it sends is what it keeps on the device.    *)
LEMMA KeptTokens ==
    ASSUME NEW w, w = [reqs |-> w.reqs, rows |-> w.rows, order |-> w.order, prev |-> w.prev],
           NEW tokens, NEW discard, NEW last, NEW valid
    PROVE  LET y == Remember(Cached(w, tokens), discard, last, valid)
           IN  y.prev.sampled = last /\ y.prev.index = IndexOf(w, discard)
<1> DEFINE x == Cached(w, tokens)
           y == Remember(x, discard, last, valid)
           prev == [index |-> IndexOf(x, discard), sampled |-> last, valid |-> valid]
<1>1. x.order = w.order /\ "prev" \in DOMAIN x
  BY DEF Cached
<1>2. IndexOf(x, discard) = IndexOf(w, discard)
  <2> HIDE DEF x
  <2> QED BY <1>1 DEF IndexOf
<1>3. y = [x EXCEPT !.prev = prev]
  BY DEF Remember
<1>4. y.prev = prev
  <2> HIDE DEF x, prev, y
  <2> QED BY <1>1, <1>3
<1>5. prev.sampled = last /\ prev.index = IndexOf(x, discard)
  OBVIOUS
<1> HIDE DEF x, prev, y
<1>6. y.prev.sampled = last /\ y.prev.index = IndexOf(w, discard)
  BY <1>2, <1>4, <1>5
<1> QED BY <1>6 DEF y, x

LEMMA SentTokens ==
    ASSUME "first" \in Ranks, LineInv, SampleTokens
    PROVE  /\ FrontLine' = FrontLine /\ FrontStep' = FrontStep /\ FrontRunner' = FrontRunner
           /\ Line' = Line /\ (Async' <=> Async) /\ Lead' = Lead
           /\ Step # NoStep /\ Step' = NoStep /\ (Step = NoStep)'
           /\ (FrontStep = NoStep)' <=> FrontStep = NoStep
           /\ Async => /\ Runner'.prev.index = IndexOf(Runner, Step.discard)
                       /\ sent' = IF Step.discard # DOMAIN Step.req
                                  THEN Append(sent, Runner'.prev.sampled) ELSE sent
           /\ ~Async => sent' = sent
           /\ \A r : /\ Known(r)' <=> Known(r)
                     /\ InFront(r)' <=> InFront(r)
                     /\ FrontLen(r)' = FrontLen(r) /\ FrontEnd(r)' = FrontEnd(r)
<1>1. /\ Ranks = {"first", "last"} /\ (Async <=> mode = "pp")
      /\ pending = [k \in Ranks |-> pending[k]] /\ worker = [k \in Ranks |-> worker[k]]
      /\ Runner = [reqs |-> Runner.reqs, rows |-> Runner.rows, order |-> Runner.order,
                   prev |-> Runner.prev]
  BY FrontSizes DEF LineInv, LineType, TypeInv, PendingType, WorkerType
<1>2. UNCHANGED <<mode, inbox>> /\ Step # NoStep /\ Step' = NoStep
  BY SampleFacts DEF LineInv
<1>3. /\ FrontStep' = FrontStep /\ FrontRunner' = FrontRunner
  <2>1. \E x : worker' = [worker EXCEPT !["last"] = x]
    BY DEF SampleTokens
  <2>2. \E x : pending' = [pending EXCEPT !["last"] = x]
    BY DEF SampleTokens
  <2> QED BY <1>1, <2>1, <2>2 DEF FrontStep, FrontRunner
<1>4. /\ FrontLine' = FrontLine /\ Line' = Line /\ (Async' <=> Async) /\ Lead' = Lead
  BY <1>2 DEF FrontLine, Line, Lead, Async
<1>5. (Step = NoStep)' /\ ((FrontStep = NoStep)' <=> FrontStep = NoStep)
  BY <1>2, <1>3 DEF NoStep
<1>6. \E tokens, last, valid :
        /\ worker' = [worker EXCEPT !["last"] =
               IF Async THEN Remember(Cached(Runner, tokens), Step.discard, last, valid)
                        ELSE Cached(Runner, tokens)]
        /\ sent' = IF mode = "pp" /\ Step.discard # DOMAIN Step.req
                   THEN Append(sent, last) ELSE sent
  <2>1. PICK g \in [DOMAIN Step.req -> 0 .. 1 + Specs] :
          LET real   == [r \in DOMAIN Step.req |->
                            [j \in 1 .. g[r] |-> PromptLen + sampled[r] + j - 1]]
              tokens == [r \in DOMAIN Step.req \ Step.discard |->
                            IF Async THEN <<Hole>> ELSE real[r]]
              last   == [i \in DOMAIN Runner.order |->
                            IF Runner.order[i] \in Step.discard THEN NoToken
                            ELSE <<Runner.order[i],
                                   PromptLen + sampled[Runner.order[i]] + g[Runner.order[i]] - 1>>]
              valid  == [i \in DOMAIN Runner.order |-> g[Runner.order[i]]]
              new    == Cached(Runner, tokens)
          IN  /\ worker' = [worker EXCEPT !["last"] =
                    IF Async THEN Remember(new, Step.discard, last, valid) ELSE new]
              /\ sent' = IF mode = "pp" /\ Step.discard # DOMAIN Step.req
                         THEN Append(sent, last) ELSE sent
    BY DEF SampleTokens, Step, Runner
  <2> DEFINE real == [r \in DOMAIN Step.req |->
                            [j \in 1 .. g[r] |-> PromptLen + sampled[r] + j - 1]]
             tokens == [r \in DOMAIN Step.req \ Step.discard |->
                            IF Async THEN <<Hole>> ELSE real[r]]
             last == [i \in DOMAIN Runner.order |->
                            IF Runner.order[i] \in Step.discard THEN NoToken
                            ELSE <<Runner.order[i],
                                   PromptLen + sampled[Runner.order[i]] + g[Runner.order[i]] - 1>>]
             valid == [i \in DOMAIN Runner.order |-> g[Runner.order[i]]]
  <2>2. /\ worker' = [worker EXCEPT !["last"] =
               IF Async THEN Remember(Cached(Runner, tokens), Step.discard, last, valid)
                        ELSE Cached(Runner, tokens)]
        /\ sent' = IF mode = "pp" /\ Step.discard # DOMAIN Step.req
                   THEN Append(sent, last) ELSE sent
    BY <2>1
  <2> HIDE DEF tokens, last, valid
  <2> QED BY <2>2
<1>7. ASSUME Async
      PROVE  /\ Runner'.prev.index = IndexOf(Runner, Step.discard)
             /\ sent' = IF Step.discard # DOMAIN Step.req
                        THEN Append(sent, Runner'.prev.sampled) ELSE sent
  <2>1. PICK tokens, last, valid :
          /\ worker' = [worker EXCEPT !["last"] =
                 Remember(Cached(Runner, tokens), Step.discard, last, valid)]
          /\ sent' = IF Step.discard # DOMAIN Step.req THEN Append(sent, last) ELSE sent
    BY <1>1, <1>6, <1>7
  <2>2. Runner' = Remember(Cached(Runner, tokens), Step.discard, last, valid)
    BY <1>1, <2>1 DEF Runner
  <2>3. Runner'.prev.sampled = last /\ Runner'.prev.index = IndexOf(Runner, Step.discard)
    BY <1>1, <2>2, KeptTokens
  <2> QED BY <2>1, <2>3
<1>8. ~Async => sent' = sent
  BY <1>1, <1>6
<1>9. \A r : /\ Known(r)' <=> Known(r)
             /\ InFront(r)' <=> InFront(r)
             /\ FrontLen(r)' = FrontLen(r) /\ FrontEnd(r)' = FrontEnd(r)
  BY <1>3 DEF Known, InFront, FrontLen, FrontEnd
<1> QED BY <1>2, <1>3, <1>4, <1>5, <1>7, <1>8, <1>9

LEMMA SampledFrontLine ==
    ASSUME "first" \in Ranks, LineInv, FrontAll, SampleTokens
    PROVE  FrontBoxes' /\ FrontRows' /\ FrontType' /\ FrontInputs'
<1>1. /\ FrontLine' = FrontLine /\ FrontStep' = FrontStep /\ FrontRunner' = FrontRunner
      /\ Line' = Line /\ Lead' = Lead
      /\ (FrontStep = NoStep)' <=> FrontStep = NoStep
  BY SentTokens
<1>2. /\ DOMAIN Runner'.reqs = DOMAIN Runner.reqs /\ DOMAIN Runner'.rows = DOMAIN Runner.rows
      /\ \A r \in DOMAIN Runner.reqs : Runner'.reqs[r].drafts = Runner.reqs[r].drafts
  <2>1. PICK g : SampledBy(g)
    BY Sampled
  <2>2. Step # NoStep /\ LineType
    BY SentTokens DEF LineInv
  <2>3. /\ g \in [DOMAIN Step.req -> 0 .. 1 + Specs]
        /\ Runner' = IF Async THEN Remember(SampledWorker(g), Step.discard, SampledLast(g),
                                            SampledValid(g))
                              ELSE SampledWorker(g)
    BY <2>1 DEF SampledBy
  <2> QED BY <2>2, <2>3, SampledRunner
<1>3. FrontBoxes'
  BY <1>1 DEF FrontAll, FrontBoxes
<1>4. FrontRows'
  BY <1>1, <1>2 DEF FrontAll, FrontRows
<1>5. FrontType'
  BY <1>1, <1>2 DEF FrontAll, FrontType, WorkerRec, IsWorkerReq
<1>6. FrontInputs'
  BY <1>1 DEF FrontAll, FrontInputs
<1> QED BY <1>3, <1>4, <1>5, <1>6

(* Either both ranks have the same step under way, or the last rank's one  *)
(* has nothing to sample.                                                  *)
LEMMA SampledPairs ==
    ASSUME "first" \in Ranks, LineInv, FrontAll, SampleTokens, Async
    PROVE  /\ Lead \in Int /\ Lead >= 0 /\ sent = <<>>
           /\ Step.discard = {r \in DOMAIN Step.req : ~Reach(Step.req[r])}
           /\ Lead = 0 /\ FrontStep # NoStep =>
                /\ FrontStep.req = Step.req /\ FrontRunner.order = Runner.order
                /\ FrontStep.discard = Step.discard
           /\ ~(Lead = 0 /\ FrontStep # NoStep) => Idles(Step.req)
           /\ Idles(Step.req) <=> Step.discard = DOMAIN Step.req
<1>1. Step # NoStep
  BY SentTokens
<1>2. IsStep(Step) /\ DOMAIN Step.req \subseteq Reqs
  BY <1>1, FrontSizes, StepReqsFacts DEF LineInv, LineType, TypeInv, PendingType, Step, IsStep
<1>3. \A r \in DOMAIN Step.req : r \in Step.discard <=> ~Reach(Step.req[r])
  <2> SUFFICES ASSUME NEW r \in DOMAIN Step.req
               PROVE  r \in Step.discard <=> ~Reach(Step.req[r])
    OBVIOUS
  <2>1. InStep(r) /\ r \in Reqs
    BY <1>1, <1>2 DEF InStep
  <2> QED BY <2>1 DEF LineInv, RequestInv, WorkerInv
<1>4. Step.discard = {r \in DOMAIN Step.req : ~Reach(Step.req[r])}
  BY <1>2, <1>3 DEF IsStep
<1>5. Idles(Step.req) <=> Step.discard = DOMAIN Step.req
  BY <1>4 DEF Idles
<1>6. sent = <<>>
  BY <1>1 DEF FrontAll, FrontSent, Done
<1>7. Lead \in Int
  BY FrontSizes DEF LineInv
<1> QED BY <1>1, <1>4, <1>5, <1>6, <1>7 DEF FrontAll, FrontMatch

LEMMA SampledFrontMatch ==
    ASSUME "first" \in Ranks, LineInv, FrontAll, SampleTokens
    PROVE  FrontMatch' /\ FrontSent' /\ FrontPrev'
<1>1. /\ FrontLine' = FrontLine /\ FrontStep' = FrontStep /\ FrontRunner' = FrontRunner
      /\ Line' = Line /\ (Async' <=> Async) /\ Lead' = Lead
      /\ Step # NoStep /\ (Step = NoStep)'
      /\ (FrontStep = NoStep)' <=> FrontStep = NoStep
      /\ Async => /\ Runner'.prev.index = IndexOf(Runner, Step.discard)
                  /\ sent' = IF Step.discard # DOMAIN Step.req
                             THEN Append(sent, Runner'.prev.sampled) ELSE sent
      /\ ~Async => sent' = sent
  BY SentTokens
<1>2. FrontMatch'
  BY <1>1, IdlesSame, ReachSame DEF FrontAll, FrontMatch
<1>3. FrontSent'
  <2>1. CASE ~Async
    BY <1>1, <2>1 DEF FrontAll, FrontSent
  <2>2. CASE Async
    <3>1. /\ Lead \in Int /\ Lead >= 0 /\ sent = <<>>
          /\ Lead = 0 /\ FrontStep # NoStep =>
               /\ FrontStep.req = Step.req /\ FrontRunner.order = Runner.order
               /\ FrontStep.discard = Step.discard
          /\ ~(Lead = 0 /\ FrontStep # NoStep) => Idles(Step.req)
          /\ Idles(Step.req) <=> Step.discard = DOMAIN Step.req
      BY <2>2, SampledPairs
    <3>2. CASE Idles(Step.req)
      <4>1. sent' = <<>>
        BY <1>1, <2>2, <3>1, <3>2
      <4> QED BY <1>1, <2>2, <4>1 DEF FrontSent
    <3>3. CASE ~Idles(Step.req)
      <4>1. /\ Lead = 0 /\ FrontStep # NoStep /\ sent' = Append(sent, Runner'.prev.sampled)
        BY <1>1, <2>2, <3>1, <3>3
      <4>2. sent' = <<Runner'.prev.sampled>>
        BY <4>1, <3>1
      <4>4. Done'
        BY <1>1, <4>1 DEF Done
      <4>5. /\ FrontStep.req = Step.req /\ FrontRunner.order = Runner.order
            /\ FrontStep.discard = Step.discard
        BY <3>1, <4>1
      <4>6. Runner'.prev.index = IndexOf(FrontRunner, FrontStep.discard)
        BY <1>1, <2>2, <4>5 DEF IndexOf
      <4>7. ~Idles(FrontStep.req)
        BY <3>3, <4>5
      <4> QED BY <1>1, <2>2, <4>1, <4>2, <4>4, <4>6, <4>7, IdlesSame DEF FrontSent, IndexOf
    <3> QED BY <3>2, <3>3
  <2> QED BY <2>1, <2>2
<1>4. FrontPrev'
  BY <1>1 DEF FrontAll, FrontPrev
<1> QED BY <1>2, <1>3, <1>4

LEMMA SampledFrontOf ==
    ASSUME "first" \in Ranks, LineInv, LastInv, FrontAll, SampleTokens, NEW r \in Reqs
    PROVE  FrontOf(r)'
<1>1. /\ FrontLine' = FrontLine /\ FrontStep' = FrontStep /\ FrontRunner' = FrontRunner
      /\ Line' = Line /\ (Async' <=> Async) /\ Lead' = Lead
      /\ Step # NoStep /\ (Step = NoStep)' /\ Step' = NoStep
      /\ (FrontStep = NoStep)' <=> FrontStep = NoStep
      /\ Known(r)' <=> Known(r)
      /\ InFront(r)' <=> InFront(r)
      /\ FrontLen(r)' = FrontLen(r) /\ FrontEnd(r)' = FrontEnd(r)
  BY SentTokens
<1>2. PICK g : Sampling(r, g)
  BY Sampled
<1>3. FrontOf(r) /\ RequestInv(r) /\ OwnInv(r)
  BY DEF FrontAll, LineInv, LastInv
<1>4. /\ Live(r)' <=> Live(r)
      /\ InWorker(r)' <=> InWorker(r)
      /\ ~InStep(r)'
      /\ \A i : /\ Taken(i, r)' <=> Taken(i, r)
                /\ Waits(i, r)' <=> Waits(i, r)
                /\ InBox(i, r)' <=> InBox(i, r)
                /\ Boxed(i, r)' = Boxed(i, r)
  BY <1>1, <1>2 DEF Sampling, Live, Taken, Waits, InBox, Boxed, InStep
<1>5. InStep(r) =>
         /\ Step.req[r].drafts = 0 /\ Step.req[r].n \in Nat /\ Step.req[r].computed \in Int
         /\ Step.req[r].outputs \in Int
         /\ g[r] \in Nat /\ g[r] <= 1
         /\ g[r] > 0 <=> Reach(Step.req[r])
  <2> SUFFICES ASSUME InStep(r)
               PROVE  /\ Step.req[r].drafts = 0 /\ Step.req[r].n \in Nat
                      /\ Step.req[r].computed \in Int /\ Step.req[r].outputs \in Int
                      /\ g[r] \in Nat /\ g[r] <= 1
                      /\ g[r] > 0 <=> Reach(Step.req[r])
    OBVIOUS
  <2>1. Step.req[r] \in ScheduledRec /\ GoodReq(Step.req[r]) /\ Specs = 0
    BY <1>3, PlaceTypes, FrontSizes DEF LineInv, RequestInv, GoodSteps
  <2>2. Step.req[r].drafts \in Nat /\ Step.req[r].n \in Nat /\ Step.req[r].computed \in Int
        /\ Step.req[r].outputs \in Int
    BY <2>1, RecordTypes
  <2>3. Step.req[r].drafts = 0
    BY <2>1, <2>2 DEF GoodReq
  <2> QED BY <1>2, <2>2, <2>3 DEF Sampling
<1>6. sampled[r] \in Nat /\ cached[r] \in Nat
  BY Numbers DEF LineInv
<1>7. FrontEnded(r)'
  BY <1>1, <1>3, <1>4 DEF FrontOf, FrontEnded
<1>8. FrontKnows(r)'
  BY <1>1, <1>3, <1>4 DEF FrontOf, FrontKnows
<1>9. FrontTokens(r)'
  <2> SUFFICES ASSUME Async PROVE FrontTokens(r)'
    BY <1>1 DEF FrontTokens
  <2>1. /\ Lead \in Int /\ Lead >= 0
        /\ Lead = 0 /\ FrontStep # NoStep => FrontStep.req = Step.req
        /\ ~(Lead = 0 /\ FrontStep # NoStep) => Idles(Step.req)
    BY SampledPairs
  <2>2. /\ Known(r) => FrontLen(r) <= sampled[r]
        /\ InFront(r) => FrontLen(r) = IF FrontStep = NoStep THEN sampled[r]
                                                             ELSE FrontStep.req[r].outputs
        /\ FrontStep # NoStep /\ r \in DOMAIN FrontStep.req =>
              sampled[r] = FrontStep.req[r].outputs
        /\ /\ InFront(r)
           /\ IF FrontStep = NoStep THEN r \notin DOMAIN FrontRunner.prev.index
                                    ELSE ~Reach(FrontStep.req[r])
           => Holds(FrontRunner.rows[r], sampled[r])
    <3>1. FrontTokens(r)
      BY <1>3 DEF FrontOf
    <3>2. FrontStep # NoStep /\ r \in DOMAIN FrontStep.req =>
              FrontStep.req[r].outputs \in Int
      <4> SUFFICES ASSUME FrontStep # NoStep, r \in DOMAIN FrontStep.req
                   PROVE  FrontStep.req[r].outputs \in Int
        OBVIOUS
      <4>1. FrontStep.req \in StepReqs
        BY FrontSizes DEF LineInv, IsStep
      <4> QED BY <4>1, StepReqsFacts, RecordTypes
    <3> QED BY <3>1, <3>2, <1>1 DEF FrontTokens, Done
  <2>3. \/ sampled'[r] = sampled[r]
        \/ sampled'[r] = sampled[r] + 1
    BY <1>2, <1>5, <1>6 DEF Sampling
  <2>4. CASE Lead = 0 /\ FrontStep # NoStep
    <3>1. Done'
      BY <1>1, <2>4 DEF Done
    <3>2. FrontStep.req = Step.req
      BY <2>1, <2>4
    <3>3. r \in DOMAIN FrontStep.req =>
             sampled'[r] = sampled[r] + (IF Reach(FrontStep.req[r]) THEN 1 ELSE 0)
      <4> SUFFICES ASSUME r \in DOMAIN FrontStep.req
                   PROVE  sampled'[r] = sampled[r] + (IF Reach(FrontStep.req[r]) THEN 1 ELSE 0)
        OBVIOUS
      <4>1. InStep(r)
        BY <1>1, <3>2 DEF InStep
      <4> QED BY <4>1, <3>2, <1>2, <1>5, <1>6 DEF Sampling
    <3>4. InFront(r) => r \in DOMAIN FrontStep.req
      BY <2>4 DEF FrontAll, FrontRows, InFront
    <3>5. /\ Known(r) => FrontLen(r) <= sampled'[r]
          /\ InFront(r) => FrontLen(r) = FrontStep.req[r].outputs
          /\ r \in DOMAIN FrontStep.req =>
                sampled'[r] = FrontStep.req[r].outputs
                                 + (IF Reach(FrontStep.req[r]) THEN 1 ELSE 0)
      <4>1. Known(r) => FrontLen(r) \in Int
        BY DEF FrontAll, FrontType, WorkerRec, IsWorkerReq, Known, FrontLen
      <4> QED BY <4>1, <2>2, <2>3, <2>4, <3>3, <1>6
    <3>6. InFront(r) /\ ~Reach(FrontStep.req[r]) => Holds(FrontRunner.rows[r], sampled'[r])
      <4> SUFFICES ASSUME InFront(r), ~Reach(FrontStep.req[r])
                   PROVE  Holds(FrontRunner.rows[r], sampled'[r])
        OBVIOUS
      <4>1. sampled'[r] = sampled[r]
        BY <3>3, <3>4, <1>6
      <4> QED BY <4>1, <2>2, <2>4
    <3> QED BY <1>1, <2>4, <3>1, <3>5, <3>6, ReachSame DEF FrontTokens, Holds
  <2>5. CASE ~(Lead = 0 /\ FrontStep # NoStep)
    <3>1. InStep(r) => g[r] = 0
      BY <2>1, <2>5, <1>5 DEF Idles, InStep
    <3>2. sampled'[r] = sampled[r]
      BY <3>1, <1>2, <1>6 DEF Sampling
    <3>3. FrontStep # NoStep => ~Done'
      BY <1>1, <2>1, <2>5 DEF Done
    <3>4. FrontStep # NoStep /\ r \in DOMAIN FrontStep.req =>
            /\ FrontStep.req[r].outputs \in Int
            /\ sampled[r] = FrontStep.req[r].outputs + 0
      BY <2>2, <1>6
    <3> QED BY <1>1, <2>2, <3>2, <3>3, <3>4, ReachSame DEF FrontTokens, Holds
  <2> QED BY <2>4, <2>5
<1>10. FrontPlain(r)'
  <2> SUFFICES ASSUME ~Async, Known(r) PROVE FrontPlain(r)'
    BY <1>1 DEF FrontPlain
  <2>1. /\ Holds(FrontRunner.reqs[r].out, FrontLen(r))
        /\ InFront(r) => FrontRunner.rows[r] = FrontRunner.reqs[r].out
        /\ InWorker(r) => cached[r] <= FrontEnd(r)
        /\ InStep(r) => Step.req[r].computed + Step.req[r].n <= FrontEnd(r)
        /\ \A i \in {1, 2} : Taken(i, r) => Boxed(i, r).computed + Boxed(i, r).n <= FrontEnd(r)
    BY <1>3 DEF FrontOf, FrontPlain
  <2>2. InStep(r) => cached'[r] = Step.req[r].computed + Step.req[r].n
    <3> SUFFICES ASSUME InStep(r) PROVE cached'[r] = Step.req[r].computed + Step.req[r].n
      OBVIOUS
    <3>1. Step.req[r].outputs - (Step.req[r].computed - Step.pos[r]) = sampled[r]
      BY <1>3 DEF OwnInv, TokensInv
    <3>2. Step.req[r].outputs = sampled[r] /\ Step.pos[r] = cached[r]
      BY <1>3 DEF RequestInv, PlainInv, WorkerInv
    <3>3. cached'[r] = cached[r] + Step.req[r].n - Step.req[r].drafts
                          + (IF g[r] > 0 THEN g[r] - 1 ELSE 0)
      BY <1>2 DEF Sampling
    <3>4. cached'[r] = cached[r] + Step.req[r].n
      BY <3>3, <1>5, <1>6
    <3> QED BY <3>1, <3>2, <3>4, <1>5, <1>6
  <2>3. InWorker(r) => cached'[r] <= FrontEnd(r)
    BY <2>1, <2>2, <1>2 DEF Sampling
  <2> QED BY <1>1, <1>4, <2>1, <2>3 DEF FrontPlain, Holds
<1> QED BY <1>7, <1>8, <1>9, <1>10 DEF FrontOf

LEMMA SampledFront ==
    ASSUME "first" \in Ranks, LineInv, LastInv, FrontAll, SampleTokens
    PROVE  FrontAll'
<1>1. \A r \in Reqs : FrontOf(r)'
  BY SampledFrontOf
<1> QED BY <1>1, SampledFrontLine, SampledFrontMatch DEF FrontAll

(* The first rank receives what the last rank has sampled.                 *)
FrontGiven == DOMAIN FrontStep.req \ FrontStep.discard

LEMMA ReceivedPlaces ==
    ASSUME "first" \in Ranks, LineInv, FrontAll, ReceiveTokens
    PROVE  /\ Line' = Line /\ Step' = Step /\ Runner' = Runner /\ FrontLine' = FrontLine
           /\ (Step = NoStep)' <=> Step = NoStep
           /\ Lead' = Lead /\ (Done' <=> Done) /\ (Async' <=> Async)
           /\ sampled' = sampled /\ cached' = cached /\ request' = request
           /\ FrontStep # NoStep /\ FrontStep' = NoStep /\ (FrontStep = NoStep)'
           /\ \A r : /\ Live(r)' <=> Live(r)
                     /\ InWorker(r)' <=> InWorker(r)
                     /\ InStep(r)' <=> InStep(r)
                     /\ \A i : /\ Taken(i, r)' <=> Taken(i, r)
                               /\ Waits(i, r)' <=> Waits(i, r)
                               /\ InBox(i, r)' <=> InBox(i, r)
                               /\ Boxed(i, r)' = Boxed(i, r)
<1>1. /\ Ranks = {"first", "last"}
      /\ pending = [k \in Ranks |-> pending[k]] /\ worker = [k \in Ranks |-> worker[k]]
  BY FrontSizes DEF LineInv, LineType, TypeInv, PendingType, WorkerType
<1>2. /\ UNCHANGED <<mode, request, inbox, sampled, cached>>
      /\ FrontStep # NoStep
      /\ pending' = [pending EXCEPT !["first"] = NoStep]
  BY DEF ReceiveTokens, FrontStep
<1>3. Step' = Step /\ FrontStep' = NoStep
  BY <1>1, <1>2 DEF Step, FrontStep
<1>4. Runner' = Runner
  <2>1. worker' = worker \/ \E x : worker' = [worker EXCEPT !["first"] = x]
    BY DEF ReceiveTokens
  <2> QED BY <1>1, <2>1 DEF Runner
<1>5. Line' = Line /\ FrontLine' = FrontLine /\ Lead' = Lead /\ (Async' <=> Async)
  BY <1>2 DEF Line, FrontLine, Lead, Async
<1>6. ((Step = NoStep)' <=> Step = NoStep) /\ (FrontStep = NoStep)'
  BY <1>3 DEF NoStep
<1>7. Done' <=> Done
  BY <1>5, <1>6 DEF Done
<1>8. \A r : /\ Live(r)' <=> Live(r)
             /\ InWorker(r)' <=> InWorker(r)
             /\ InStep(r)' <=> InStep(r)
             /\ \A i : /\ Taken(i, r)' <=> Taken(i, r)
                       /\ Waits(i, r)' <=> Waits(i, r)
                       /\ InBox(i, r)' <=> InBox(i, r)
                       /\ Boxed(i, r)' = Boxed(i, r)
  BY <1>2, <1>3, <1>4, <1>5, <1>6 DEF Live, InWorker, InStep, Taken, Waits, InBox, Boxed
<1> QED BY <1>2, <1>3, <1>4, <1>5, <1>6, <1>7, <1>8

LEMMA ReceivedPlain ==
    ASSUME "first" \in Ranks, LineInv, FrontAll, ReceiveTokens, ~Async
    PROVE  FrontRunner' = FrontRunner /\ sent' = sent
BY DEF ReceiveTokens, FrontRunner

(* What is received is what the last rank has on the device.               *)
LEMMA ReceivedTokens ==
    ASSUME "first" \in Ranks, LineInv, FrontAll, ReceiveTokens, Async
    PROVE  /\ sent' = <<>>
           /\ FrontGiven # {} => Done /\ ~Idles(FrontStep.req)
           /\ FrontGiven = {r \in DOMAIN FrontStep.req : Reach(FrontStep.req[r])}
           /\ WorkerRec(FrontRunner') /\ FrontRunner'.order = FrontRunner.order
           /\ DOMAIN FrontRunner'.reqs = DOMAIN FrontRunner.reqs
           /\ DOMAIN FrontRunner'.rows = DOMAIN FrontRunner.rows
           /\ \A r \in DOMAIN FrontRunner.reqs :
                 /\ FrontRunner'.reqs[r].drafts = 0
                 /\ Len(FrontRunner'.reqs[r].out) = Len(FrontRunner.reqs[r].out)
                                                     + (IF r \in FrontGiven THEN 1 ELSE 0)
           /\ \A r \in DOMAIN FrontRunner.rows \ FrontGiven :
                 FrontRunner'.rows[r] = FrontRunner.rows[r]
           /\ DOMAIN FrontRunner'.prev.index = FrontGiven
           /\ FrontGiven # {} => /\ FrontRunner'.prev.index = Runner.prev.index
                                 /\ FrontRunner'.prev.sampled = Runner.prev.sampled
<1> DEFINE t == [r \in FrontGiven |-> <<Hole>>]
           s == Cached(FrontRunner, t)
           last == IF DOMAIN FrontStep.req = FrontStep.discard THEN <<>> ELSE Head(sent)
           u == Remember(s, FrontStep.discard, last, <<>>)
<1>1. /\ Ranks = {"first", "last"} /\ worker = [k \in Ranks |-> worker[k]]
      /\ FrontStep # NoStep
  BY FrontSizes, ReceivedPlaces DEF LineInv, LineType, WorkerType
<1>2. /\ DOMAIN FrontStep.req # FrontStep.discard => sent # <<>>
      /\ FrontRunner' = u
      /\ sent' = IF DOMAIN FrontStep.req = FrontStep.discard THEN sent ELSE Tail(sent)
  <2>1. /\ ~(DOMAIN FrontStep.req = FrontStep.discard) => sent # <<>>
        /\ worker' = [worker EXCEPT !["first"] =
              Remember(Cached(FrontRunner,
                              [r \in DOMAIN FrontStep.req \ FrontStep.discard |-> <<Hole>>]),
                       FrontStep.discard,
                       IF DOMAIN FrontStep.req = FrontStep.discard THEN <<>> ELSE Head(sent),
                       <<>>)]
        /\ sent' = IF DOMAIN FrontStep.req = FrontStep.discard THEN sent ELSE Tail(sent)
    BY DEF ReceiveTokens, FrontStep, FrontRunner
  <2>2. worker' = [worker EXCEPT !["first"] = u]
    BY <2>1 DEF FrontGiven
  <2> HIDE DEF u
  <2>3. FrontRunner' = u
    BY <1>1, <2>2 DEF FrontRunner
  <2> QED BY <2>1, <2>3
<1>3. /\ FrontStep.discard = {r \in DOMAIN FrontStep.req : ~Reach(FrontStep.req[r])}
      /\ FrontRunner.order \in SetToSeqs(DOMAIN FrontStep.req)
      /\ DOMAIN FrontStep.req \in SUBSET Reqs
      /\ WorkerRec(FrontRunner)
  <2>1. DOMAIN FrontStep.req \in SUBSET Reqs
    BY <1>1, FrontSizes, StepReqsFacts DEF LineInv, IsStep
  <2> QED BY <1>1, <2>1 DEF FrontAll, FrontMatch, FrontType
<1>4. FrontGiven = {r \in DOMAIN FrontStep.req : Reach(FrontStep.req[r])}
  BY <1>3 DEF FrontGiven
<1>5. Idles(FrontStep.req) <=> FrontGiven = {}
  BY <1>4 DEF Idles
<1>6. DOMAIN FrontStep.req = FrontStep.discard <=> FrontGiven = {}
  BY <1>3 DEF FrontGiven
<1>7. sent # <<>> => /\ sent = <<Runner.prev.sampled>> /\ Done /\ ~Idles(FrontStep.req)
                     /\ Runner.prev.index = IndexOf(FrontRunner, FrontStep.discard)
  BY DEF FrontAll, FrontSent
<1>8. sent' = <<>> /\ (FrontGiven # {} => Done /\ ~Idles(FrontStep.req))
  <2>1. CASE FrontGiven = {}
    BY <2>1, <1>2, <1>5, <1>6, <1>7
  <2>2. CASE FrontGiven # {}
    <3>1. sent # <<>> /\ sent' = Tail(sent) /\ sent = <<Runner.prev.sampled>>
      BY <2>2, <1>2, <1>6, <1>7
    <3>2. Tail(sent) = <<>>
      BY <3>1
    <3> QED BY <3>1, <3>2, <1>7
  <2> QED BY <2>1, <2>2
<1>9. CachedTo(s, FrontRunner, t)
  <2>1. \A r \in DOMAIN t : t[r] \in Seq(Int)
    BY DEF Hole
  <2> HIDE DEF t
  <2> QED BY <1>3, <2>1, CachedFields
<1>10. \A r \in DOMAIN t : Len(t[r]) = 1
  OBVIOUS
<1>11. DOMAIN t = FrontGiven
  OBVIOUS
<1>12. /\ WorkerRec(u) /\ u.reqs = s.reqs /\ u.rows = s.rows /\ u.order = s.order
       /\ u.prev.index = IndexOf(s, FrontStep.discard)
       /\ u.prev.sampled = last
  <2>1. WorkerRec(s)
    BY <1>9 DEF CachedTo
  <2> HIDE DEF s, last
  <2> QED BY <2>1, RememberedFields
<1>13. u.prev.index = IndexOf(FrontRunner, FrontStep.discard)
  <2>1. s.order = FrontRunner.order
    BY <1>9 DEF CachedTo
  <2> HIDE DEF s, u
  <2> QED BY <2>1, <1>12 DEF IndexOf
<1>14. DOMAIN u.prev.index = FrontGiven
  <2>1. Range(FrontRunner.order) = DOMAIN FrontStep.req
    BY <1>3, OrderCovers
  <2> HIDE DEF u
  <2> QED BY <2>1, <1>13 DEF IndexOf, FrontGiven
<1>15. FrontGiven # {} => last = Runner.prev.sampled /\ sent # <<>>
  <2> SUFFICES ASSUME FrontGiven # {}
               PROVE  last = Runner.prev.sampled /\ sent # <<>>
    OBVIOUS
  <2>1. sent # <<>> /\ sent = <<Runner.prev.sampled>>
    BY <1>2, <1>6, <1>7
  <2>2. Head(sent) = Runner.prev.sampled
    BY <2>1
  <2> QED BY <2>1, <2>2, <1>6
<1> HIDE DEF t, s, u, last
<1>16. /\ WorkerRec(u) /\ u.order = FrontRunner.order
       /\ DOMAIN u.reqs = DOMAIN FrontRunner.reqs /\ DOMAIN u.rows = DOMAIN FrontRunner.rows
       /\ \A r \in DOMAIN FrontRunner.reqs :
             /\ u.reqs[r].drafts = FrontRunner.reqs[r].drafts
             /\ Len(u.reqs[r].out) = Len(FrontRunner.reqs[r].out)
                   + (IF r \in DOMAIN t THEN Len(t[r]) ELSE 0)
       /\ u.rows = [r \in DOMAIN FrontRunner.rows |-> IF r \in DOMAIN t
                                                     THEN FrontRunner.rows[r] \o t[r]
                                                     ELSE FrontRunner.rows[r]]
  BY <1>9, <1>12 DEF CachedTo
<1>17. \A r \in DOMAIN FrontRunner.reqs :
          /\ u.reqs[r].drafts = 0
          /\ Len(u.reqs[r].out) = Len(FrontRunner.reqs[r].out)
                                     + (IF r \in FrontGiven THEN 1 ELSE 0)
  BY <1>10, <1>11, <1>16 DEF FrontAll, FrontType
<1>18. \A r \in DOMAIN FrontRunner.rows \ FrontGiven : u.rows[r] = FrontRunner.rows[r]
  BY <1>11, <1>16
<1>19. FrontGiven # {} => /\ u.prev.index = Runner.prev.index
                          /\ u.prev.sampled = Runner.prev.sampled
  BY <1>7, <1>12, <1>13, <1>15
<1> QED BY <1>2, <1>4, <1>8, <1>14, <1>16, <1>17, <1>18, <1>19

LEMMA ReceivedLine ==
    ASSUME "first" \in Ranks, LineInv, FrontAll, ReceiveTokens
    PROVE  FrontBoxes' /\ FrontRows' /\ FrontType' /\ FrontInputs'
<1>1. /\ Line' = Line /\ Step' = Step /\ Runner' = Runner /\ FrontLine' = FrontLine
      /\ Lead' = Lead /\ (Async' <=> Async) /\ (FrontStep = NoStep)'
  BY ReceivedPlaces
<1>2. DOMAIN FrontRunner'.rows = DOMAIN FrontRunner.rows
  BY ReceivedPlain, ReceivedTokens
<1>3. FrontBoxes'
  BY <1>1 DEF FrontAll, FrontBoxes
<1>4. FrontRows'
  BY <1>1, <1>2 DEF FrontAll, FrontRows
<1>5. FrontType'
  <2>1. CASE Async
    <3>1. /\ WorkerRec(FrontRunner')
          /\ DOMAIN FrontRunner'.reqs = DOMAIN FrontRunner.reqs
          /\ \A r \in DOMAIN FrontRunner.reqs : FrontRunner'.reqs[r].drafts = 0
      BY <2>1, ReceivedTokens
    <3>2. WorkerRec(FrontRunner)'
      BY <3>1 DEF WorkerRec, IsWorkerReq
    <3> QED BY <1>1, <1>2, <3>1, <3>2 DEF FrontAll, FrontType
  <2>2. CASE ~Async
    BY <1>1, <2>2, ReceivedPlain DEF FrontAll, FrontType, WorkerRec, IsWorkerReq
  <2> QED BY <2>1, <2>2
<1>6. FrontInputs'
  BY <1>1 DEF FrontInputs
<1> QED BY <1>3, <1>4, <1>5, <1>6

LEMMA ReceivedMatch ==
    ASSUME "first" \in Ranks, LineInv, FrontAll, ReceiveTokens
    PROVE  FrontMatch' /\ FrontSent' /\ FrontPrev'
<1>1. /\ Line' = Line /\ Step' = Step /\ Runner' = Runner
      /\ (Step = NoStep)' <=> Step = NoStep
      /\ Lead' = Lead /\ (Done' <=> Done) /\ (Async' <=> Async)
      /\ FrontStep # NoStep /\ (FrontStep = NoStep)'
  BY ReceivedPlaces
<1>2. CASE ~Async
  <2>1. FrontRunner' = FrontRunner /\ sent' = sent
    BY <1>2, ReceivedPlain
  <2> QED BY <1>1, <1>2, <2>1 DEF FrontAll, FrontMatch, FrontSent, FrontPrev
<1>3. CASE Async
  <2>1. /\ sent' = <<>>
        /\ FrontGiven # {} => Done /\ ~Idles(FrontStep.req)
        /\ FrontGiven = {r \in DOMAIN FrontStep.req : Reach(FrontStep.req[r])}
        /\ DOMAIN FrontRunner'.prev.index = FrontGiven
        /\ FrontGiven # {} => /\ FrontRunner'.prev.index = Runner.prev.index
                              /\ FrontRunner'.prev.sampled = Runner.prev.sampled
    BY <1>3, ReceivedTokens
  <2>2. FrontGiven = {} => Idles(FrontStep.req)
    BY <2>1 DEF Idles
  <2>3. Lead \in Int
    BY FrontSizes DEF LineInv
  <2>4. FrontMatch'
    <3>1. Step # NoStep => Lead >= 0 /\ Idles(Step.req)
      BY <1>1, <1>3, <2>1, <2>2 DEF FrontAll, FrontMatch, Done
    <3>2. \A i \in {1, 2} : i <= Len(Line) /\ i <= Lead => Idles(Line[i].req)
      <4>1. CASE FrontGiven = {}
        BY <1>3, <2>2, <4>1 DEF FrontAll, FrontMatch
      <4>2. CASE FrontGiven # {}
        BY <2>1, <2>3, <4>2 DEF Done
      <4> QED BY <4>1, <4>2
    <3> QED BY <1>1, <3>1, <3>2, IdlesSame DEF FrontMatch
  <2>5. FrontSent'
    BY <1>1, <1>3, <2>1 DEF FrontSent
  <2>6. FrontPrev'
    <3> SUFFICES ASSUME DOMAIN FrontRunner'.prev.index # {}
                 PROVE  /\ Step = NoStep /\ \A i \in {1, 2} : ~(i <= Lead)
                        /\ Runner.prev.index = FrontRunner'.prev.index
                        /\ Runner.prev.sampled = FrontRunner'.prev.sampled
      BY <1>1, <1>3 DEF FrontPrev
    <3>1. FrontGiven # {}
      BY <2>1
    <3>2. Done
      BY <2>1, <3>1
    <3>3. \A i \in {1, 2} : ~(i <= Lead)
      BY <2>3, <3>2 DEF Done
    <3> QED BY <2>1, <3>1, <3>2, <3>3 DEF Done
  <2> QED BY <2>4, <2>5, <2>6
<1> QED BY <1>2, <1>3

LEMMA ReceivedOf ==
    ASSUME "first" \in Ranks, LineInv, FrontAll, ReceiveTokens, NEW r \in Reqs
    PROVE  FrontOf(r)'
<1>1. /\ Line' = Line /\ Step' = Step /\ Runner' = Runner /\ FrontLine' = FrontLine
      /\ Lead' = Lead /\ (Done' <=> Done) /\ (Async' <=> Async)
      /\ sampled' = sampled /\ cached' = cached
      /\ FrontStep # NoStep /\ (FrontStep = NoStep)'
      /\ Live(r)' <=> Live(r)
      /\ InWorker(r)' <=> InWorker(r)
      /\ InStep(r)' <=> InStep(r)
      /\ \A i : /\ Taken(i, r)' <=> Taken(i, r)
                /\ Waits(i, r)' <=> Waits(i, r)
                /\ InBox(i, r)' <=> InBox(i, r)
                /\ Boxed(i, r)' = Boxed(i, r)
  BY ReceivedPlaces
<1>2. FrontOf(r)
  BY DEF FrontAll
<1>3. FrontEnded(r)'
  BY <1>1, <1>2 DEF FrontOf, FrontEnded
<1>4. /\ Known(r)' <=> Known(r)
      /\ InFront(r)' <=> InFront(r)
  BY ReceivedPlain, ReceivedTokens DEF Known, InFront
<1>5. FrontKnows(r)'
  BY <1>1, <1>2, <1>4 DEF FrontOf, FrontKnows
<1>6. FrontPlain(r)'
  <2> SUFFICES ASSUME ~Async PROVE FrontPlain(r)'
    BY <1>1 DEF FrontPlain
  <2>1. FrontRunner' = FrontRunner
    BY ReceivedPlain
  <2> QED BY <1>1, <1>2, <1>4, <2>1 DEF FrontOf, FrontPlain, FrontLen, FrontEnd, Holds
<1>7. FrontTokens(r)'
  <2> SUFFICES ASSUME Async PROVE FrontTokens(r)'
    BY <1>1 DEF FrontTokens
  <2>1. /\ FrontGiven # {} => Done
        /\ FrontGiven = {x \in DOMAIN FrontStep.req : Reach(FrontStep.req[x])}
        /\ Known(r) => FrontLen(r)' = FrontLen(r) + (IF r \in FrontGiven THEN 1 ELSE 0)
        /\ InFront(r) /\ r \notin FrontGiven => FrontRunner'.rows[r] = FrontRunner.rows[r]
        /\ DOMAIN FrontRunner'.prev.index = FrontGiven
    BY ReceivedTokens DEF Known, InFront, FrontLen
  <2>2. InFront(r) => Known(r) /\ r \in DOMAIN FrontStep.req
    BY <1>1 DEF FrontAll, FrontType, FrontRows, InFront, Known
  <2>3. r \in DOMAIN FrontStep.req => InFront(r)
    BY <1>1 DEF FrontAll, FrontRows, InFront
  <2>4. /\ Known(r) => FrontLen(r) <= sampled[r]
        /\ InFront(r) => FrontLen(r) = FrontStep.req[r].outputs
        /\ r \in DOMAIN FrontStep.req =>
              sampled[r] = FrontStep.req[r].outputs
                             + (IF Done /\ Reach(FrontStep.req[r]) THEN 1 ELSE 0)
        /\ InFront(r) /\ ~Reach(FrontStep.req[r]) => Holds(FrontRunner.rows[r], sampled[r])
    BY <1>1, <1>2 DEF FrontOf, FrontTokens
  <2>5. Known(r) => FrontLen(r) \in Int
    BY DEF FrontAll, FrontType, WorkerRec, IsWorkerReq, Known, FrontLen
  <2>6. r \in FrontGiven => FrontLen(r)' = sampled[r]
    BY <2>1, <2>2, <2>3, <2>4, <2>5
  <2>7. r \notin FrontGiven /\ Known(r) => FrontLen(r)' = FrontLen(r)
    BY <2>1, <2>5
  <2>8. Known(r) => FrontLen(r)' <= sampled[r]
    <3>1. sampled[r] \in Nat
      BY Numbers DEF LineInv
    <3> QED BY <2>4, <2>6, <2>7, <3>1
  <2>9. InFront(r) /\ r \notin FrontGiven => FrontLen(r)' = sampled[r]
    <3> SUFFICES ASSUME InFront(r), r \notin FrontGiven PROVE FrontLen(r)' = sampled[r]
      OBVIOUS
    <3>1. r \in DOMAIN FrontStep.req /\ ~Reach(FrontStep.req[r]) /\ Known(r)
      BY <2>1, <2>2
    <3>2. sampled[r] = FrontStep.req[r].outputs + 0
      BY <2>4, <3>1
    <3>3. FrontStep.req[r].outputs = FrontLen(r) /\ FrontLen(r)' = FrontLen(r)
      BY <2>4, <2>7, <3>1
    <3> QED BY <2>5, <3>1, <3>2, <3>3
  <2>10. InFront(r) => FrontLen(r)' = sampled[r]
    BY <2>6, <2>9
  <2>11. InFront(r) /\ r \notin FrontGiven => Holds(FrontRunner'.rows[r], sampled[r])
    BY <2>1, <2>2, <2>4
  <2> QED BY <1>1, <1>4, <2>1, <2>8, <2>10, <2>11 DEF FrontTokens, Holds
<1> QED BY <1>3, <1>5, <1>6, <1>7 DEF FrontOf

LEMMA ReceivedFront ==
    ASSUME "first" \in Ranks, LineInv, FrontAll, ReceiveTokens
    PROVE  FrontAll'
<1>1. \A r \in Reqs : FrontOf(r)'
  BY ReceivedOf
<1> QED BY <1>1, ReceivedLine, ReceivedMatch DEF FrontAll

-----------------------------------------------------------------------------
(* The first rank executes its next scheduler output.                      *)
Coming == Head(FrontLine)
ComingWorker == UpdateStates(FrontRunner, Coming, Async, FALSE)
ComingOut(r) == Outputs(FrontRunner, Coming, r, Async, FALSE)

LEMMA FirstExecutes ==
    ASSUME "first" \in Ranks, LineInv, FrontAll, ExecuteModel("first")
    PROVE  /\ Line' = Line /\ Step' = Step /\ Runner' = Runner /\ sent' = sent
           /\ sampled' = sampled /\ cached' = cached /\ request' = request
           /\ (Async' <=> Async) /\ FrontStep = NoStep
           /\ Coming = FrontLine[1] /\ 1 \in 1 .. Len(FrontLine)
           /\ Coming.req \in StepReqs /\ Coming.order \in SetToSeqs(DOMAIN Coming.req)
           /\ Len(FrontLine') = Len(FrontLine) - 1
           /\ \A j \in 1 .. Len(FrontLine') : FrontLine'[j] = FrontLine[j + 1]
           /\ Lead' = Lead + 1 /\ Lead \in Int /\ Lead + 1 <= Len(Line) /\ Len(Line) \in {0, 1, 2}
           /\ Lead + 1 > 0 => Coming = Line[Lead + 1]
           /\ Lead + 1 <= 0 => DOMAIN Coming.req = {}
<1>1. LineType /\ Ranks = {"first", "last"} /\ "last" \in Ranks
  BY FrontSizes DEF LineInv
<1>2. Line' = Line /\ Step' = Step /\ Runner' = Runner /\ sampled' = sampled /\ cached' = cached
  <2>1. Line' = Line /\ Runner' = Runner /\ sampled' = sampled /\ cached' = cached
    BY FirstRankInv DEF Steady
  <2>2. pending = [k \in Ranks |-> pending[k]]
    BY <1>1 DEF LineType, TypeInv, PendingType
  <2>3. pending' = pending \/ \E v : pending' = [pending EXCEPT !["first"] = v]
    BY DEF ExecuteModel
  <2>4. Step' = Step
    BY <1>1, <2>2, <2>3 DEF Step
  <2> QED BY <2>1, <2>4
<1>3. request' = request /\ sent' = sent /\ (Async' <=> Async)
  BY DEF ExecuteModel, Async
<1>4. /\ FrontStep = NoStep /\ FrontLine # <<>>
      /\ inbox' = [inbox EXCEPT !["first"] = Tail(@)]
  BY DEF ExecuteModel, FrontStep, FrontLine
<1>5. FrontLine' = Tail(FrontLine)
  <2>1. inbox = [k \in Ranks |-> inbox[k]]
    BY <1>1 DEF LineType, TypeInv, InboxType
  <2> QED BY <1>1, <1>4, <2>1 DEF FrontLine
<1>6. /\ Coming.req \in StepReqs /\ Coming.order \in SetToSeqs(DOMAIN Coming.req)
      /\ Len(Tail(FrontLine)) = Len(FrontLine) - 1
      /\ \A j \in 1 .. Len(Tail(FrontLine)) : Tail(FrontLine)[j] = FrontLine[j + 1]
  BY <1>1, <1>4, InboxHead DEF LineType, TypeInv, FrontLine, Coming
<1>7. /\ FrontLine \in Seq(SchedulerOutput) /\ Len(FrontLine) \in Nat /\ Len(FrontLine) # 0
      /\ Lead \in Int /\ Lead = Len(Line) - Len(FrontLine) /\ Len(Line) \in {0, 1, 2}
  BY <1>1, <1>4, FrontSizes
<1>8. Coming = FrontLine[1] /\ 1 \in 1 .. Len(FrontLine)
  BY <1>7 DEF Coming
<1>9. Lead' = Lead + 1 /\ Lead + 1 <= Len(Line)
  BY <1>2, <1>5, <1>6, <1>7 DEF Lead
<1>10. /\ Lead + 1 > 0 => Coming = Line[Lead + 1]
       /\ Lead + 1 <= 0 => DOMAIN Coming.req = {}
  <2>1. IF 1 + Lead > 0 THEN FrontLine[1] = Line[1 + Lead] ELSE DOMAIN FrontLine[1].req = {}
    BY <1>8 DEF FrontAll, FrontBoxes
  <2>2. 1 + Lead = Lead + 1
    BY <1>7
  <2> HIDE DEF Lead, Coming
  <2> QED BY <1>7, <1>8, <2>1, <2>2
<1> HIDE DEF Lead, Coming
<1> QED BY <1>2, <1>3, <1>4, <1>5, <1>6, <1>7, <1>8, <1>9, <1>10

(* What becomes of its step.                                               *)
LEMMA FirstExecutedStep ==
    ASSUME "first" \in Ranks, LineInv, FrontAll, ExecuteModel("first")
    PROVE  /\ Scheduled(Coming) = {} => FrontStep' = NoStep
           /\ Scheduled(Coming) # {} =>
                /\ FrontStep' # NoStep
                /\ FrontStep'.req = Coming.req
                /\ FrontStep'.discard = Discarded(ComingWorker, Coming)
                /\ FrontStep'.inputs = InputIds(FrontRunner, ComingWorker, Coming)
                /\ FrontStep'.pos = [r \in Scheduled(Coming) |->
                                        Position(FrontRunner, Coming, r, Async)]
<1>1. pending = [k \in Ranks |-> pending[k]] /\ "first" \in Ranks /\ FrontStep = NoStep
  BY FirstExecutes DEF LineInv, LineType, TypeInv, PendingType
<1>2. CASE Scheduled(Coming) = {}
  BY <1>1, <1>2 DEF ExecuteModel, FrontStep, FrontLine, Coming
<1>3. CASE Scheduled(Coming) # {}
  <2> DEFINE new == UpdateStates(FrontRunner, Coming, Async, FALSE)
             step == [phase |-> IF mode = "grammar" THEN "mask" ELSE "sample",
                      req |-> Coming.req,
                      pos |-> [r \in Scheduled(Coming) |-> Position(FrontRunner, Coming, r, Async)],
                      inputs |-> InputIds(FrontRunner, new, Coming),
                      discard |-> Discarded(new, Coming),
                      mask |-> <<>>, rows |-> <<>>]
  <2>1. pending' = [pending EXCEPT !["first"] = step]
    <3>1. ("first" = "last") = FALSE
      OBVIOUS
    <3> QED BY <1>3, <3>1 DEF ExecuteModel, FrontLine, FrontRunner, Coming
  <2>2. /\ step.req = Coming.req /\ step.discard = Discarded(new, Coming)
        /\ step.inputs = InputIds(FrontRunner, new, Coming)
        /\ step.pos = [r \in Scheduled(Coming) |-> Position(FrontRunner, Coming, r, Async)]
        /\ step # NoStep
    <3>1. step.phase # NoStep.phase
      BY DEF NoStep
    <3> QED BY <3>1
  <2>3. FrontStep' = step
    <3> HIDE DEF step
    <3> QED BY <1>1, <2>1 DEF FrontStep
  <2> HIDE DEF step
  <2> QED BY <1>3, <2>2, <2>3 DEF ComingWorker
<1> QED BY <1>2, <1>3

(* What the first rank's bookkeeping does to the requests it knows.        *)
UpdatedFirst(x, w, so) ==
    /\ x = [reqs |-> x.reqs, rows |-> x.rows, order |-> x.order, prev |-> x.prev]
    /\ x.order = so.order /\ x.prev = w.prev
    /\ DOMAIN x.rows = Scheduled(so)
    /\ DOMAIN x.reqs = Kept(w, so)
    /\ \A r \in Scheduled(so) :
          x.reqs[r] = [out |-> Outputs(w, so, r, Async, FALSE),
                       computed |-> so.req[r].computed, drafts |-> so.req[r].drafts]
    /\ \A r \in Kept(w, so) \ Scheduled(so) : x.reqs[r] = w.reqs[r]
    /\ x.rows = [r \in Scheduled(so) |-> IF InBatch(w, so, r)
                                          THEN KeptRow(w, so, r, Async, FALSE)
                                          ELSE Outputs(w, so, r, Async, FALSE)]

LEMMA UpdateFirstFields ==
    ASSUME NEW w, NEW so,
           w = [reqs |-> w.reqs, rows |-> w.rows, order |-> w.order, prev |-> w.prev]
    PROVE  UpdatedFirst(UpdateStates(w, so, Async, FALSE), w, so)
<1> DEFINE x == UpdateStates(w, so, Async, FALSE)
           out == [r \in Scheduled(so) |-> Outputs(w, so, r, Async, FALSE)]
           reqs == [r \in Kept(w, so) |->
                      IF r \in Scheduled(so)
                      THEN [out |-> out[r], computed |-> so.req[r].computed,
                            drafts |-> so.req[r].drafts]
                      ELSE w.reqs[r]]
           rows == [r \in Scheduled(so) |->
                      IF InBatch(w, so, r) THEN KeptRow(w, so, r, Async, FALSE) ELSE out[r]]
<1>1. x = [w EXCEPT !.reqs = reqs, !.rows = rows, !.order = so.order]
  BY DEF UpdateStates
<1>2. Scheduled(so) \subseteq Kept(w, so)
  BY DEF Kept
<1>3. /\ DOMAIN reqs = Kept(w, so) /\ DOMAIN rows = Scheduled(so)
      /\ \A r \in Scheduled(so) :
            reqs[r] = [out |-> Outputs(w, so, r, Async, FALSE),
                       computed |-> so.req[r].computed, drafts |-> so.req[r].drafts]
      /\ \A r \in Kept(w, so) \ Scheduled(so) : reqs[r] = w.reqs[r]
  BY <1>2
<1>4. rows = [r \in Scheduled(so) |-> IF InBatch(w, so, r)
                                      THEN KeptRow(w, so, r, Async, FALSE)
                                      ELSE Outputs(w, so, r, Async, FALSE)]
  OBVIOUS
<1> HIDE DEF x, reqs, rows, out
<1>5. x = [reqs |-> x.reqs, rows |-> x.rows, order |-> x.order, prev |-> x.prev]
  BY <1>1
<1>6. x.reqs = reqs /\ x.rows = rows /\ x.order = so.order /\ x.prev = w.prev
  BY <1>1
<1>7. UpdatedFirst(x, w, so)
  <2>1. DOMAIN x.rows = Scheduled(so) /\ DOMAIN x.reqs = Kept(w, so)
    BY <1>3, <1>6
  <2>2. \A r \in Scheduled(so) :
            x.reqs[r] = [out |-> Outputs(w, so, r, Async, FALSE),
                         computed |-> so.req[r].computed, drafts |-> so.req[r].drafts]
    BY <1>3, <1>6
  <2>3. \A r \in Kept(w, so) \ Scheduled(so) : x.reqs[r] = w.reqs[r]
    BY <1>3, <1>6
  <2>4. x.rows = [r \in Scheduled(so) |-> IF InBatch(w, so, r)
                                          THEN KeptRow(w, so, r, Async, FALSE)
                                          ELSE Outputs(w, so, r, Async, FALSE)]
    BY <1>4, <1>6
  <2> QED BY <1>5, <2>1, <2>2, <2>3, <2>4, <1>6 DEF UpdatedFirst
<1> QED BY <1>7 DEF x

(* What it is asked to compute of a request, and what it knows of it.      *)
AskedTypes(r) ==
    LET q == Coming.req[r]
    IN  /\ r \in Reqs /\ Lead \in {0, 1} /\ InBox(Lead + 1, r) /\ Boxed(Lead + 1, r) = q
        /\ Coming = Line[Lead + 1] /\ Len(Line) \in {1, 2} /\ Lead + 1 <= Len(Line)
        /\ q.n \in Nat \ {0} /\ q.computed \in Int /\ q.outputs \in Nat /\ q.drafts = 0
        /\ q.kind \in {"new", "resumed", "run"} /\ q.known \in Nat
        /\ q.kind # "run" => q.computed = 0
        /\ q.kind = "new" => q.outputs = 0
        /\ r \notin Coming.ended
        /\ PromptLen \in Nat \ {0} /\ sampled[r] \in Nat /\ Base(r) \in Nat

AskedNext(r) ==
    LET q == Coming.req[r]
    IN  /\ q.outputs = sampled[r] /\ q.computed \in Nat
        /\ q.kind = "new" => ~InFront(r) /\ ~InWorker(r)
        /\ q.kind # "new" => Known(r)
        /\ Async /\ ~(InFront(r) /\ q.kind = "run") => q.outputs = q.known

LEMMA AskedTyped ==
    ASSUME "first" \in Ranks, LineInv, FrontAll, ExecuteModel("first"),
           NEW r \in DOMAIN Coming.req
    PROVE  AskedTypes(r)
<1> DEFINE q == Coming.req[r]
           i == Lead + 1
<1>1. /\ Coming.req \in StepReqs /\ Lead \in Int /\ Lead + 1 <= Len(Line)
      /\ Len(Line) \in {0, 1, 2}
      /\ Lead + 1 > 0 => Coming = Line[Lead + 1]
      /\ Lead + 1 <= 0 => DOMAIN Coming.req = {}
  BY FirstExecutes
<1>2. /\ Lead \in {0, 1} /\ i \in {1, 2} /\ i \in 1 .. Len(Line) /\ Coming = Line[i]
      /\ Len(Line) \in {1, 2}
  <2>1. Lead + 1 > 0
    BY <1>1
  <2> HIDE DEF Lead, Coming
  <2> QED BY <1>1, <2>1
<1>3. r \in Reqs
  BY <1>1, StepReqsFacts
<1>4. InBox(i, r) /\ Boxed(i, r) = q
  <2>1. r \in DOMAIN Line[i].req /\ Line[i].req[r] = q
    BY <1>2
  <2> QED BY <1>2, <2>1 DEF InBox, Boxed
<1>5. RequestInv(r) /\ LineType
  BY <1>3 DEF LineInv
<1>6. q \in ScheduledRec /\ GoodReq(q)
  BY <1>2, <1>4, <1>5, PlaceTypes DEF RequestInv, GoodSteps
<1>7. Specs = 0 /\ PromptLen \in Nat \ {0} /\ sampled[r] \in Nat /\ Base(r) \in Nat
  BY <1>3, <1>5, FrontSizes, Numbers
<1> HIDE DEF q, i, Lead
<1>8. /\ q.n \in Nat \ {0} /\ q.computed \in Int /\ q.outputs \in Int /\ q.drafts \in Nat
      /\ q.kind \in {"new", "resumed", "run"} /\ q.known \in Nat
  BY <1>6, RecordTypes
<1>9. /\ q.drafts = 0 /\ q.outputs \in Nat
      /\ q.kind # "run" => q.computed = 0
      /\ q.kind = "new" => q.outputs = 0
  BY <1>6, <1>7, <1>8 DEF GoodReq
<1>10. r \notin Coming.ended
  <2>1. r \in Coming.ended => EndsBox(i, r)
    BY <1>2 DEF EndsBox
  <2>2. EndsBox(i, r) => ~InBox(i, r)
    BY <1>2, <1>5 DEF RequestInv, EndedInv
  <2> QED BY <1>4, <2>1, <2>2
<1>11. i <= Len(Line)
  BY <1>2
<1> QED BY <1>2, <1>3, <1>4, <1>7, <1>8, <1>9, <1>10, <1>11 DEF AskedTypes, q, i

(* The last rank has executed everything else.                             *)
LEMMA AskedIdle ==
    ASSUME "first" \in Ranks, LineInv, LastInv, FrontAll, FrontStep = NoStep,
           NEW r, AskedTypes(r), Lead = 0, Step = NoStep
    PROVE  AskedNext(r) /\ Coming.req[r].computed = Base(r)
<1> DEFINE q == Coming.req[r]
<1>1. /\ r \in Reqs /\ InBox(1, r) /\ Boxed(1, r) = q /\ q.computed \in Int /\ q.outputs \in Nat
      /\ sampled[r] \in Nat /\ Base(r) \in Nat
  BY DEF AskedTypes
<1>2. RequestInv(r) /\ OwnInv(r) /\ FrontOf(r)
  BY <1>1 DEF LineInv, LastInv, FrontAll
<1>3. InFront(r) <=> InRows(r)
  BY DEF FrontAll, FrontRows, InFront, InRows
<1>4. InRows(r) => InWorker(r) /\ Drafted(r) = 0
  BY <1>2 DEF RequestInv, WorkerInv, FrontAll, FrontType, InWorker, Drafted
<1>5. Shift(r) = 0
  BY <1>4 DEF Shift
<1>6. /\ q.computed - Shift(r) = Base(r)
      /\ q.kind = "new" \/ InWorker(r)
      /\ Async => IF InRows(r) /\ q.kind = "run" THEN q.outputs <= OutLen(r) + Drafted(r)
                                                 ELSE q.outputs = q.known
      /\ q.kind = "new" => ~InWorker(r)
  BY <1>1, <1>2 DEF RequestInv, AimInv
<1>7. /\ Async => q.outputs = sampled[r] + q.computed - Base(r)
      /\ ~Async => q.outputs = sampled[r]
  BY <1>1, <1>2 DEF OwnInv, TokensInv, RequestInv, PlainInv
<1>8. InWorker(r) => Known(r)
  BY <1>1, <1>2 DEF FrontOf, FrontKnows, Waits
<1> HIDE DEF q
<1>9. q.computed = Base(r)
  BY <1>1, <1>5, <1>6
<1>10. q.outputs = sampled[r]
  BY <1>1, <1>7, <1>9
<1> QED BY <1>1, <1>3, <1>4, <1>6, <1>8, <1>9, <1>10 DEF AskedNext, q

(* The last rank has yet to sample the step before.                        *)
LEMMA AskedBehind ==
    ASSUME "first" \in Ranks, LineInv, LastInv, FrontAll, FrontStep = NoStep,
           NEW r, AskedTypes(r), Lead = 0, Step # NoStep
    PROVE  /\ AskedNext(r)
           /\ IF InStep(r) THEN /\ Coming.req[r].kind = "run"
                                /\ Coming.req[r].computed = Step.pos[r] + Step.req[r].n
              ELSE /\ Coming.req[r].computed = Base(r)
                   /\ Coming.req[r].kind = "new" \/ InWorker(r)
<1> DEFINE q == Coming.req[r]
<1>1. /\ r \in Reqs /\ InBox(1, r) /\ Boxed(1, r) = q /\ q.computed \in Int /\ q.outputs \in Nat
      /\ sampled[r] \in Nat /\ Base(r) \in Nat
  BY DEF AskedTypes
<1>2. RequestInv(r) /\ OwnInv(r) /\ FrontOf(r) /\ LineType
  BY <1>1 DEF LineInv, LastInv, FrontAll
<1>3. InFront(r) <=> InRows(r)
  BY DEF FrontAll, FrontRows, InFront, InRows
<1>4. /\ InRows(r) => InWorker(r)
      /\ InRows(r) <=> InStep(r)
      /\ InStep(r) => Step.pos[r] = cached[r]
  BY <1>2 DEF RequestInv, WorkerInv
<1>5. /\ InStep(r) => q.kind = "run" /\ q.computed = Step.pos[r] + Step.req[r].n
      /\ ~InStep(r) => Settled(r, q)
      /\ q.kind = "new" => ~InWorker(r)
  BY <1>1, <1>2 DEF RequestInv, AimInv
<1>6. /\ Async => q.outputs = sampled[r] + OwedStep(r)
      /\ ~Async => q.outputs = sampled[r]
  BY <1>1, <1>2 DEF OwnInv, TokensInv, RequestInv, PlainInv
<1>7. Async => OwedStep(r) = 0
  <2>1. Async => Idles(Step.req)
    BY DEF FrontAll, FrontMatch
  <2> QED BY <2>1 DEF Idles, OwedStep, Owes, InStep
<1>8. InWorker(r) => Known(r)
  BY <1>1, <1>2 DEF FrontOf, FrontKnows, Waits
<1>9. cached[r] \in Nat /\ (InStep(r) => Step.req[r].n \in Nat)
  <2>1. cached[r] \in Nat
    BY <1>1, <1>2, Numbers
  <2>2. InStep(r) => Step.req[r] \in ScheduledRec
    BY <1>2, PlaceTypes
  <2> QED BY <2>1, <2>2, RecordTypes
<1> HIDE DEF q
<1>10. q.outputs = sampled[r]
  BY <1>1, <1>6, <1>7
<1>11. /\ ~InStep(r) => /\ q.computed = Base(r) /\ (q.kind = "new" \/ InWorker(r))
                        /\ Async => q.outputs = q.known
  BY <1>5 DEF Settled
<1>12. q.computed \in Nat
  BY <1>1, <1>4, <1>5, <1>9, <1>11
<1>13. q.kind = "new" => ~InFront(r) /\ ~InWorker(r)
  BY <1>3, <1>4, <1>5
<1>14. q.kind # "new" => Known(r)
  BY <1>4, <1>8, <1>11
<1>15. Async /\ ~(InFront(r) /\ q.kind = "run") => q.outputs = q.known
  BY <1>3, <1>4, <1>5, <1>11
<1> QED BY <1>5, <1>10, <1>11, <1>12, <1>13, <1>14, <1>15 DEF AskedNext, q

(* The last rank has yet to execute the step before.                       *)
LEMMA AskedAhead ==
    ASSUME "first" \in Ranks, LineInv, LastInv, FrontAll, FrontStep = NoStep,
           NEW r, AskedTypes(r), Lead = 1
    PROVE  /\ AskedNext(r) /\ Step = NoStep
           /\ IF InBox(1, r) THEN /\ Coming.req[r].kind = "run"
                                  /\ Coming.req[r].computed = Base(r) + Boxed(1, r).n
              ELSE /\ Coming.req[r].computed = Base(r)
                   /\ Coming.req[r].kind = "new" \/ InWorker(r)
<1> DEFINE q == Coming.req[r]
<1>1. /\ r \in Reqs /\ InBox(2, r) /\ Boxed(2, r) = q /\ q.computed \in Int /\ q.outputs \in Nat
      /\ sampled[r] \in Nat /\ Base(r) \in Nat /\ Len(Line) = 2
  BY DEF AskedTypes
<1>2. RequestInv(r) /\ OwnInv(r) /\ FrontOf(r) /\ LineType
  BY <1>1 DEF LineInv, LastInv, FrontAll
<1>3. Step = NoStep
  BY <1>1, <1>2, FrontSizes
<1>4. InFront(r) <=> InBox(1, r)
  BY <1>1 DEF FrontAll, FrontRows, InFront, InBox
<1>5. /\ InBox(1, r) => q.kind = "run" /\ q.computed = Base(r) + Boxed(1, r).n
      /\ ~InBox(1, r) => Settled(r, q)
      /\ q.kind = "new" => ~InWorker(r)
  BY <1>1, <1>2 DEF RequestInv, AimInv
<1>6. /\ Async => q.outputs = sampled[r] + OwedBox(1, r)
      /\ ~Async => q.outputs = sampled[r]
  BY <1>1, <1>2 DEF OwnInv, TokensInv, RequestInv, PlainInv
<1>7. Async => OwedBox(1, r) = 0
  <2>1. Async => Idles(Line[1].req)
    BY <1>1 DEF FrontAll, FrontMatch
  <2> QED BY <2>1 DEF Idles, OwedBox, Owes, InBox, Boxed
<1>8. InWorker(r) \/ InBox(1, r) => Known(r)
  BY <1>1, <1>2 DEF FrontOf, FrontKnows, Waits, Taken
<1>9. InBox(1, r) => Boxed(1, r).n \in Nat
  <2>1. InBox(1, r) => Boxed(1, r) \in ScheduledRec
    BY <1>2, PlaceTypes
  <2> QED BY <2>1, RecordTypes
<1> HIDE DEF q
<1>10. q.outputs = sampled[r]
  BY <1>1, <1>6, <1>7
<1>11. /\ ~InBox(1, r) => /\ q.computed = Base(r) /\ (q.kind = "new" \/ InWorker(r))
                          /\ Async => q.outputs = q.known
  BY <1>5 DEF Settled
<1>12. q.computed \in Nat
  BY <1>1, <1>5, <1>9, <1>11
<1>13. q.kind = "new" => ~InFront(r) /\ ~InWorker(r)
  BY <1>4, <1>5
<1>14. q.kind # "new" => Known(r)
  BY <1>8, <1>11
<1>15. Async /\ ~(InFront(r) /\ q.kind = "run") => q.outputs = q.known
  BY <1>4, <1>5, <1>11
<1> QED BY <1>3, <1>5, <1>10, <1>11, <1>12, <1>13, <1>14, <1>15 DEF AskedNext, q

(* Of a request without drafts, no step goes beyond the tokens there are.  *)
LEMMA Asked ==
    ASSUME "first" \in Ranks, LineInv, LastInv, FrontAll, ExecuteModel("first"),
           NEW r \in DOMAIN Coming.req
    PROVE  /\ AskedTypes(r) /\ AskedNext(r)
           /\ Coming.req[r].computed + Coming.req[r].n <= PromptLen + sampled[r]
<1> DEFINE q == Coming.req[r]
           n == q.n
           c == q.computed
           o == q.outputs
           d == q.drafts
           i == Lead + 1
<1>1. AskedTypes(r) /\ FrontStep = NoStep
  BY AskedTyped, FirstExecutes
<1>2. Lead \in {0, 1} /\ i \in {1, 2} /\ InBox(i, r) /\ Boxed(i, r) = q /\ r \in Reqs
  BY <1>1 DEF AskedTypes
<1>3. AskedNext(r)
  <2>1. CASE Lead = 0 /\ Step = NoStep
    BY <1>1, <2>1, AskedIdle
  <2>2. CASE Lead = 0 /\ Step # NoStep
    BY <1>1, <2>2, AskedBehind
  <2>3. CASE Lead = 1
    BY <1>1, <2>3, AskedAhead
  <2> QED BY <1>2, <2>1, <2>2, <2>3
<1>4. ExactReq(q)
  BY <1>2 DEF LastInv, OwnInv, ExactInv
<1>5. /\ Reach(q) <=> c + n >= PromptLen + o
      /\ Reach(q) => c + n - d = PromptLen + o
  BY <1>4 DEF Reach, ExactReq
<1>6. /\ n \in Nat \ {0} /\ c \in Int /\ o = sampled[r] /\ d = 0 /\ PromptLen \in Nat
      /\ sampled[r] \in Nat
  BY <1>1, <1>3 DEF AskedTypes, AskedNext
<1> HIDE DEF q, n, c, o, d
<1>7. c + n <= PromptLen + sampled[r]
  BY <1>5, <1>6
<1> QED BY <1>1, <1>3, <1>7 DEF q, c, n

(* A request whose newest token it has on the device goes on with that one.*)
LEMMA AskedOnDevice ==
    ASSUME "first" \in Ranks, LineInv, LastInv, FrontAll, ExecuteModel("first"),
           NEW r \in DOMAIN Coming.req, r \in DOMAIN FrontRunner.prev.index
    PROVE  LET q == Coming.req[r]
           IN  /\ Async /\ q.n = 1 /\ Reach(q)
               /\ FrontRunner.prev.sampled[FrontRunner.prev.index[r]] = <<r, q.computed>>
<1> DEFINE q == Coming.req[r]
           n == q.n
           c == q.computed
           o == q.outputs
<1>1. AskedTypes(r) /\ AskedNext(r) /\ c + n <= PromptLen + sampled[r] /\ FrontStep = NoStep
  BY Asked, FirstExecutes
<1>2. /\ Async /\ Step = NoStep
      /\ \A i \in {1, 2} : i <= Lead => ~Filled(i)
      /\ Runner.prev.index = FrontRunner.prev.index
      /\ Runner.prev.sampled = FrontRunner.prev.sampled
  BY <1>1 DEF FrontAll, FrontPrev, NoPrev
<1>3. r \in Reqs /\ RequestInv(r) /\ OwnInv(r) /\ InPrev(r) /\ LineType
  BY <1>1, <1>2 DEF AskedTypes, LineInv, LastInv, InPrev
<1>4. /\ sampled[r] > 0 /\ cached[r] = Newest(r)
      /\ Runner.prev.sampled[Runner.prev.index[r]] = <<r, Newest(r)>>
  BY <1>2, <1>3 DEF OwnInv, PrevInv
<1>5. c = Newest(r)
  <2>1. CASE Lead = 0
    <3>1. Base(r) = Newest(r)
      BY <1>1, <1>2, <1>3, <2>1, OnDevice DEF AskedTypes
    <3> QED BY <1>1, <1>2, <2>1, <3>1, AskedIdle
  <2>2. CASE Lead = 1
    <3>1. InBox(2, r) /\ Boxed(2, r) = q /\ Len(Line) = 2
      BY <1>1, <2>2 DEF AskedTypes
    <3>2. ~Filled(1)
      BY <1>2, <2>2
    <3>3. ~InBox(1, r)
      <4>1. 1 \in 1 .. Len(Line) /\ Line[1].order = <<>>
        BY <3>1, <3>2 DEF Filled
      <4>2. Line[1] \in SchedulerOutput /\ Line[1].order \in SetToSeqs(DOMAIN Line[1].req)
        <5>1. InboxType /\ "last" \in Ranks /\ Line \in Seq(SchedulerOutput)
          BY <1>3, Sizes DEF LineType, TypeInv
        <5>2. Line[1].order \in SetToSeqs(DOMAIN Line[1].req)
          BY <4>1, <5>1 DEF InboxType, Line
        <5> QED BY <4>1, <5>1, <5>2
      <4>3. DOMAIN Line[1].req \subseteq Reqs
        BY <4>2, StepReqsFacts DEF SchedulerOutput
      <4>4. Range(Line[1].order) = DOMAIN Line[1].req
        BY <4>2, <4>3, OrderCovers
      <4> QED BY <4>1, <4>4 DEF Range, InBox
    <3>4. q.kind = "run"
      BY <1>2, <1>3, <3>1, <3>2 DEF OwnInv, AgainInv
    <3>5. Base(r) = cached[r]
      BY <3>1, <3>3, <3>4 DEF Base, Afresh
    <3>6. c = Base(r)
      BY <1>1, <2>2, <3>3, AskedAhead
    <3> QED BY <1>4, <3>5, <3>6
  <2> QED BY <1>1, <2>1, <2>2 DEF AskedTypes
<1>6. /\ n \in Nat \ {0} /\ c \in Nat /\ o = sampled[r] /\ PromptLen \in Nat
      /\ sampled[r] \in Nat
  BY <1>1 DEF AskedTypes, AskedNext
<1>7. Reach(q) <=> c + n >= PromptLen + o
  BY DEF Reach
<1> HIDE DEF q, n, c, o
<1>8. n = 1 /\ Reach(q)
  BY <1>1, <1>5, <1>6, <1>7 DEF Newest
<1> QED BY <1>2, <1>4, <1>5, <1>8 DEF q, n, c

ComingRow(r) == IF InBatch(FrontRunner, Coming, r)
                THEN KeptRow(FrontRunner, Coming, r, Async, FALSE)
                ELSE ComingOut(r)

(* What the first rank has of a request that it is to go on with.          *)
LEMMA AskedKnown ==
    ASSUME "first" \in Ranks, LineInv, LastInv, FrontAll, ExecuteModel("first"),
           NEW r \in DOMAIN Coming.req
    PROVE  LET q == Coming.req[r]
               out == FrontRunner.reqs[r].out
           IN  /\ InBatch(FrontRunner, Coming, r) <=> InFront(r) /\ q.kind = "run"
               /\ InBatch(FrontRunner, Coming, r) => q.kind # "new"
               /\ q.kind # "new" => /\ out \in Seq(Int) /\ Len(out) >= 0 /\ FrontLen(r) = Len(out)
                                    /\ out \o Holes(Optimistic(FrontRunner, Coming, r, Async)) = out
<1> DEFINE q == Coming.req[r]
           out == FrontRunner.reqs[r].out
<1>1. AskedTypes(r) /\ AskedNext(r)
  BY Asked
<1>2. InBatch(FrontRunner, Coming, r) <=> InFront(r) /\ q.kind = "run"
  BY <1>1 DEF InBatch, InFront, AskedTypes, AskedNext, Scheduled
<1>3. ASSUME q.kind # "new"
      PROVE  /\ out \in Seq(Int) /\ Len(out) >= 0 /\ FrontLen(r) = Len(out)
             /\ out \o Holes(Optimistic(FrontRunner, Coming, r, Async)) = out
  <2>1. r \in DOMAIN FrontRunner.reqs
    BY <1>1, <1>3 DEF AskedNext, Known
  <2>2. IsWorkerReq(FrontRunner.reqs[r]) /\ FrontRunner.reqs[r].drafts = 0
    BY <2>1 DEF FrontAll, FrontType, WorkerRec
  <2>3. out \in Seq(Int)
    BY <2>2 DEF IsWorkerReq
  <2>4. Optimistic(FrontRunner, Coming, r, Async) = 0
    BY <2>2 DEF Optimistic
  <2>5. Holes(0) = <<>>
    BY DEF Holes
  <2>6. out \o Holes(Optimistic(FrontRunner, Coming, r, Async)) = out
    <3> HIDE DEF out
    <3> QED BY <2>3, <2>4, <2>5
  <2>7. Len(out) >= 0
    <3> HIDE DEF out
    <3> QED BY <2>3, LenProperties
  <2> QED BY <2>3, <2>6, <2>7 DEF FrontLen
<1> QED BY <1>2, <1>3

(* With asynchronous scheduling the tokens are on the device or recovered. *)
LEMMA AskedRow ==
    ASSUME "first" \in Ranks, LineInv, LastInv, FrontAll, ExecuteModel("first"),
           NEW r \in DOMAIN Coming.req, Async
    PROVE  /\ ComingOut(r) \in Seq(Int) /\ Len(ComingOut(r)) = sampled[r]
           /\ r \notin DOMAIN FrontRunner.prev.index => Holds(ComingRow(r), sampled[r])
<1> DEFINE q == Coming.req[r]
           n == q.n
           c == q.computed
           out == FrontRunner.reqs[r].out
           row == FrontRunner.rows[r]
<1>1. /\ AskedTypes(r) /\ AskedNext(r) /\ c + n <= PromptLen + sampled[r] /\ FrontStep = NoStep
  BY Asked, FirstExecutes
<1>2. /\ n \in Nat \ {0} /\ c \in Nat /\ q.outputs = sampled[r] /\ PromptLen \in Nat \ {0}
      /\ sampled[r] \in Nat /\ q.kind \in {"new", "resumed", "run"} /\ r \in Reqs
      /\ q.kind = "new" => sampled[r] = 0
      /\ q.kind # "new" => Known(r)
      /\ ~(InFront(r) /\ q.kind = "run") => q.outputs = q.known
  BY <1>1 DEF AskedTypes, AskedNext
<1>3. FrontOf(r)
  BY <1>2 DEF FrontAll
<1>4. /\ InBatch(FrontRunner, Coming, r) <=> InFront(r) /\ q.kind = "run"
      /\ q.kind # "new" => /\ out \in Seq(Int) /\ Len(out) >= 0 /\ FrontLen(r) = Len(out)
                           /\ out \o Holes(Optimistic(FrontRunner, Coming, r, Async)) = out
  BY AskedKnown
<1>5. NewTokens(q, Async) = <<>> /\ Len(<<>>) = 0
  BY DEF NewTokens
<1>6. ASSUME q.kind # "new", Len(out) = sampled[r]
      PROVE  Aligned(FrontRunner, Coming, r, Async, FALSE) = out
  <2> DEFINE more == c + 0 - PromptLen - Len(out)
  <2>1. ~(more > 0)
    <3> HIDE DEF out, c, n
    <3> QED BY <1>1, <1>2, <1>6
  <2>2. Aligned(FrontRunner, Coming, r, Async, FALSE) =
          CASE ~FALSE /\ more > 0 -> out \o LastN(<<>>, more)
            [] FALSE /\ q.outputs < Len(out) -> SubSeq(out, 1, q.outputs)
            [] OTHER -> out
    BY <1>4, <1>5, <1>6 DEF Aligned
  <2> HIDE DEF more, out, q
  <2> QED BY <2>1, <2>2
<1>7. CASE q.kind = "new"
  <2>1. ComingOut(r) = <<>> /\ ComingRow(r) = <<>>
    BY <1>4, <1>7 DEF ComingOut, ComingRow, Outputs
  <2> QED BY <1>2, <1>7, <2>1 DEF Holds
<1>8. CASE q.kind = "run" /\ InFront(r)
  <2>1. Len(out) = sampled[r]
    BY <1>1, <1>3, <1>4, <1>8 DEF FrontOf, FrontTokens
  <2>2. ComingOut(r) = Aligned(FrontRunner, Coming, r, Async, FALSE)
    BY <1>4, <1>8 DEF ComingOut, Outputs
  <2>3. ComingOut(r) = out
    BY <1>6, <1>8, <2>1, <2>2
  <2>4. ASSUME r \notin DOMAIN FrontRunner.prev.index
        PROVE  Holds(row, sampled[r]) /\ KeptRow(FrontRunner, Coming, r, Async, FALSE) = row
    <3>1. Holds(row, sampled[r])
      BY <1>1, <1>3, <1>8, <2>4 DEF FrontOf, FrontTokens
    <3>2. ~(c + 0 - PromptLen > Len(row))
      <4>1. sampled[r] <= Len(row)
        BY <3>1 DEF Holds
      <4>2. c + 0 - PromptLen < sampled[r]
        <5> HIDE DEF c, n
        <5> QED BY <1>1, <1>2
      <4>3. ASSUME c + 0 - PromptLen > Len(row) PROVE FALSE
        <5>1. Len(row) \in Nat
          OBVIOUS
        <5> HIDE DEF c, row
        <5> QED BY <4>1, <4>2, <4>3, <5>1, <1>2
      <4> QED BY <4>3
    <3>3. KeptRow(FrontRunner, Coming, r, Async, FALSE) =
            CASE FALSE /\ q.outputs < Len(out) + Optimistic(FrontRunner, Coming, r, Async)
                   -> Resized(row, q.outputs)
              [] ~FALSE /\ c + 0 - PromptLen > Len(row)
                   -> row \o Holes(c + 0 - PromptLen - Len(row))
              [] OTHER -> row
      BY <1>5 DEF KeptRow
    <3> HIDE DEF row, out, q, c
    <3>4. KeptRow(FrontRunner, Coming, r, Async, FALSE) = row
      BY <3>2, <3>3
    <3> QED BY <3>1, <3>4
  <2> QED BY <1>4, <1>8, <2>1, <2>3, <2>4 DEF ComingRow
<1>9. CASE q.kind # "new" /\ ~(q.kind = "run" /\ InFront(r)) /\ sampled[r] = 0
  <2>1. Len(out) = 0
    <3>1. FrontLen(r) <= sampled[r]
      BY <1>2, <1>3, <1>9 DEF FrontOf, FrontTokens
    <3>2. out \in Seq(Int) /\ Len(out) >= 0 /\ FrontLen(r) = Len(out) /\ sampled[r] = 0
      BY <1>4, <1>9
    <3>3. Len(out) \in Int
      BY <3>2
    <3> HIDE DEF out
    <3> QED BY <3>1, <3>2, <3>3
  <2>2. ComingOut(r) = Aligned(FrontRunner, Coming, r, Async, FALSE)
    BY <1>2, <1>4, <1>9 DEF ComingOut, Outputs
  <2>3. ComingOut(r) = out /\ ComingRow(r) = out
    BY <1>4, <1>6, <1>9, <2>1, <2>2 DEF ComingRow
  <2>4. Holds(out, 0)
    <3> HIDE DEF out
    <3> QED BY <2>1 DEF Holds
  <2> QED BY <1>4, <1>9, <2>1, <2>3, <2>4
<1>10. CASE q.kind # "new" /\ ~(q.kind = "run" /\ InFront(r)) /\ sampled[r] # 0
  <2>1. q.outputs > 0
    BY <1>2, <1>10
  <2>2. ComingOut(r) = Recovered(q) /\ ComingRow(r) = Recovered(q)
    BY <1>4, <1>10, <2>1 DEF ComingOut, ComingRow, Outputs
  <2> HIDE DEF q
  <2>3. /\ Holds(Recovered(q), q.outputs)
        /\ Recovered(q) \in Seq(Int) /\ Len(Recovered(q)) = q.outputs
    BY <1>2, <1>10, RecoveredHolds, RecoveredLength
  <2> QED BY <1>2, <2>2, <2>3
<1> QED BY <1>7, <1>8, <1>9, <1>10

(* Without it, a step starts where the first rank has the tokens before.   *)
LEMMA AskedStart ==
    ASSUME "first" \in Ranks, LineInv, LastInv, FrontAll, ExecuteModel("first"),
           NEW r \in DOMAIN Coming.req, ~Async
    PROVE  /\ Coming.req[r].kind # "new" => Coming.req[r].computed <= FrontEnd(r)
           /\ Coming.req[r].kind = "new" => ~InStep(r) /\ ~Taken(1, r)
<1> DEFINE q == Coming.req[r]
<1>1. AskedTypes(r) /\ AskedNext(r) /\ FrontStep = NoStep
  BY Asked, FirstExecutes
<1>2. /\ Lead \in {0, 1} /\ r \in Reqs /\ Base(r) \in Nat
      /\ q.kind = "new" => ~InWorker(r)
      /\ q.kind # "new" => Known(r)
  BY <1>1 DEF AskedTypes, AskedNext
<1>3. RequestInv(r) /\ OwnInv(r) /\ FrontOf(r) /\ LineType
  BY <1>2 DEF LineInv, LastInv, FrontAll
<1>4. InStep(r) => InWorker(r)
  BY <1>3 DEF RequestInv, WorkerInv, InStep
<1>5. ASSUME q.kind # "new"
      PROVE  /\ InWorker(r) => cached[r] <= FrontEnd(r)
             /\ InStep(r) => Step.req[r].computed + Step.req[r].n <= FrontEnd(r)
             /\ Taken(1, r) => Boxed(1, r).computed + Boxed(1, r).n <= FrontEnd(r)
             /\ 0 <= FrontEnd(r)
  <2>1. /\ FrontRunner.reqs[r].out \in Seq(Int) /\ Len(FrontRunner.reqs[r].out) >= 0
        /\ FrontLen(r) = Len(FrontRunner.reqs[r].out)
    BY <1>5, AskedKnown
  <2>2. 0 <= FrontEnd(r)
    <3>1. FrontLen(r) \in Int /\ FrontLen(r) >= 0
      BY <2>1
    <3> QED BY <3>1, RunnerAssumption DEF FrontEnd
  <2> QED BY <1>2, <1>3, <1>5, <2>2 DEF FrontOf, FrontPlain
<1>6. Base(r) = 0 \/ Base(r) = cached[r]
  BY DEF Base
<1>7. CASE Lead = 0 /\ Step = NoStep
  <2>1. q.computed = Base(r) /\ ~InStep(r) /\ ~Taken(1, r)
    BY <1>1, <1>7, AskedIdle DEF InStep, Taken
  <2>2. q.kind # "new" => InWorker(r)
    BY <1>1, <1>3, <1>7 DEF AskedTypes, RequestInv, AimInv
  <2> HIDE DEF q
  <2> QED BY <1>5, <1>6, <2>1, <2>2 DEF q
<1>8. CASE Lead = 0 /\ Step # NoStep
  <2>1. /\ IF InStep(r) THEN /\ q.kind = "run"
                             /\ q.computed = Step.pos[r] + Step.req[r].n
           ELSE q.computed = Base(r) /\ (q.kind = "new" \/ InWorker(r))
        /\ ~Taken(1, r)
    BY <1>1, <1>8, AskedBehind DEF Taken
  <2>2. InStep(r) => Step.pos[r] = Step.req[r].computed
    <3> SUFFICES ASSUME InStep(r) PROVE Step.pos[r] = Step.req[r].computed
      OBVIOUS
    <3>1. /\ Step.req[r].outputs - (Step.req[r].computed - Step.pos[r]) = sampled[r]
          /\ Step.req[r].outputs = sampled[r] /\ Step.pos[r] = cached[r]
      BY <1>3 DEF OwnInv, TokensInv, RequestInv, PlainInv, WorkerInv
    <3>2. Step.req[r].computed \in Int /\ cached[r] \in Nat /\ sampled[r] \in Nat
      BY <1>2, <1>3, PlaceTypes, RecordTypes, Numbers
    <3> QED BY <3>1, <3>2
  <2> HIDE DEF q
  <2> QED BY <1>2, <1>4, <1>5, <1>6, <2>1, <2>2 DEF q
<1>9. CASE Lead = 1
  <2>1. /\ Step = NoStep
        /\ IF InBox(1, r) THEN q.kind = "run" /\ q.computed = Base(r) + Boxed(1, r).n
           ELSE q.computed = Base(r) /\ (q.kind = "new" \/ InWorker(r))
    BY <1>1, <1>9, AskedAhead
  <2>2. InBox(1, r) => Taken(1, r) /\ Boxed(1, r).computed = Base(r)
    <3> SUFFICES ASSUME InBox(1, r) PROVE Taken(1, r) /\ Boxed(1, r).computed = Base(r)
      OBVIOUS
    <3>1. Boxed(1, r).computed - Shift(r) = Base(r)
      BY <1>3, <2>1 DEF RequestInv, AimInv
    <3>2. Shift(r) = 0
      BY DEF Shift
    <3>3. Boxed(1, r).computed \in Int
      BY <1>3, PlaceTypes, RecordTypes
    <3> QED BY <1>2, <1>9, <3>1, <3>2, <3>3 DEF Taken
  <2>3. ~InStep(r) /\ (Taken(1, r) => InBox(1, r))
    BY <2>1 DEF InStep, Taken
  <2> HIDE DEF q
  <2> QED BY <1>5, <1>6, <2>1, <2>2, <2>3 DEF q
<1> QED BY <1>2, <1>7, <1>8, <1>9

(* The last tokens that are sent, to a request that has those before.      *)
Counts(s, n, c) == s \in Seq(Int) /\ Len(s) = n /\ \A j \in 1 .. n : s[j] = c + j - 1

LEMMA LastCounted ==
    ASSUME NEW c \in Nat, NEW n \in Nat, NEW more \in Nat, more > 0, more <= n,
           NEW new, Counts(new, n, c)
    PROVE  Counts(LastN(new, more), more, c + n - more)
<1>0. new \in Seq(Int) /\ Len(new) = n /\ \A k \in 1 .. n : new[k] = c + k - 1
  BY DEF Counts
<1>1. LastN(new, more) = SubSeq(new, n - more + 1, n)
  <2>1. CASE more < n
    BY <1>0, <2>1 DEF LastN
  <2>2. CASE more = n
    <3>1. ~(more < Len(new)) /\ n - more + 1 = 1
      BY <1>0, <2>2
    <3>2. LastN(new, more) = SubSeq(new, 1, Len(new))
      BY <3>1 DEF LastN
    <3> QED BY <1>0, <3>1, <3>2
  <2> QED BY <2>1, <2>2
<1> DEFINE m == n - more + 1
           t == SubSeq(new, m, n)
<1>2. m \in Int /\ m >= 1 /\ m <= n /\ n - m + 1 = more
  OBVIOUS
<1> HIDE DEF m
<1>3. /\ t \in Seq(Int) /\ Len(t) = more
      /\ \A i \in 1 .. more : t[i] = new[m + i - 1]
  <2>1. \A i \in m .. n : new[i] \in Int
    BY <1>0, <1>2
  <2> QED BY <1>2, <2>1, SubSeqProperties
<1>4. ASSUME NEW i \in 1 .. more PROVE t[i] = (c + n - more) + i - 1
  <2>1. m + i - 1 \in 1 .. n /\ c + (m + i - 1) - 1 = (c + n - more) + i - 1
    BY <1>2 DEF m
  <2> HIDE DEF t
  <2> QED BY <1>0, <1>3, <2>1
<1> HIDE DEF t
<1>5. Counts(t, more, c + n - more)
  BY <1>3, <1>4 DEF Counts
<1> QED BY <1>1, <1>5 DEF t, m

LEMMA SentHold ==
    ASSUME NEW s \in Seq(Int), Holds(s, Len(s)), NEW more \in Nat, PromptLen \in Nat,
           NEW add, Counts(add, more, PromptLen + Len(s))
    PROVE  s \o add \in Seq(Int) /\ Holds(s \o add, Len(s) + more) /\ Len(s \o add) = Len(s) + more
<1> DEFINE o == Len(s)
           t == s \o add
<1>1. o \in Nat /\ o >= 0
  BY LenProperties
<1>2. add \in Seq(Int) /\ Len(add) = more /\ \A j \in 1 .. more : add[j] = PromptLen + o + j - 1
  BY DEF Counts
<1>3. /\ t \in Seq(Int) /\ Len(t) = o + more
      /\ \A m \in 1 .. o + more : t[m] = IF m <= o THEN s[m] ELSE add[m - o]
  BY <1>2, ConcatProperties
<1>4. \A m \in 1 .. o : s[m] = PromptLen + m - 1
  BY DEF Holds
<1> HIDE DEF o, t
<1>5. ASSUME NEW m \in 1 .. o + more PROVE t[m] = PromptLen + m - 1
  <2>1. CASE m <= o
    <3>1. m \in 1 .. o
      BY <1>1, <2>1
    <3>2. t[m] = s[m]
      BY <1>3, <2>1
    <3> QED BY <1>4, <3>1, <3>2
  <2>2. CASE ~(m <= o)
    <3>1. m - o \in 1 .. more /\ t[m] = add[m - o]
      BY <1>1, <1>3, <2>2
    <3> QED BY <1>1, <1>2, <3>1
  <2> QED BY <2>1, <2>2
<1>6. Holds(t, o + more)
  BY <1>1, <1>3, <1>5 DEF Holds
<1> QED BY <1>3, <1>6 DEF o, t

LEMMA AskedPlain ==
    ASSUME "first" \in Ranks, LineInv, LastInv, FrontAll, ExecuteModel("first"),
           NEW r \in DOMAIN Coming.req, ~Async
    PROVE  LET q == Coming.req[r]
           IN  /\ ComingOut(r) \in Seq(Int) /\ Len(ComingOut(r)) >= 0
               /\ Holds(ComingOut(r), Len(ComingOut(r)))
               /\ ComingRow(r) = ComingOut(r)
               /\ q.computed + q.n <= PromptLen + Len(ComingOut(r))
               /\ q.kind # "new" => FrontLen(r) <= Len(ComingOut(r))
<1> DEFINE q == Coming.req[r]
           n == q.n
           c == q.computed
           out == FrontRunner.reqs[r].out
           row == FrontRunner.rows[r]
           o == Len(out)
           more == c + n - PromptLen - o
           new == NewTokens(q, Async)
<1>1. /\ AskedTypes(r) /\ AskedNext(r) /\ c + n <= PromptLen + sampled[r]
  BY Asked
<1>2. /\ n \in Nat \ {0} /\ c \in Nat /\ q.outputs = sampled[r] /\ PromptLen \in Nat \ {0}
      /\ q.drafts = 0 /\ sampled[r] \in Nat /\ r \in Reqs
      /\ q.kind = "new" => sampled[r] = 0
      /\ q.kind # "new" => Known(r)
  BY <1>1 DEF AskedTypes, AskedNext
<1>3. FrontOf(r)
  BY <1>2 DEF FrontAll
<1>4. /\ InBatch(FrontRunner, Coming, r) <=> InFront(r) /\ q.kind = "run"
      /\ InBatch(FrontRunner, Coming, r) => q.kind # "new"
      /\ q.kind # "new" => /\ out \in Seq(Int) /\ Len(out) >= 0 /\ FrontLen(r) = Len(out)
                           /\ out \o Holes(Optimistic(FrontRunner, Coming, r, Async)) = out
  BY AskedKnown
<1>5. CASE q.kind = "new"
  <2>1. ComingOut(r) = <<>> /\ ComingRow(r) = <<>>
    BY <1>4, <1>5 DEF ComingOut, ComingRow, Outputs
  <2>2. /\ ComingOut(r) \in Seq(Int) /\ Len(ComingOut(r)) = 0
        /\ Holds(ComingOut(r), Len(ComingOut(r))) /\ ComingRow(r) = ComingOut(r)
    BY <2>1 DEF Holds
  <2> HIDE DEF n, c
  <2>3. c + n <= PromptLen + Len(ComingOut(r))
    BY <1>1, <1>2, <1>5, <2>2
  <2> QED BY <1>5, <2>2, <2>3 DEF n, c
<1>6. CASE q.kind # "new"
  <2>1. /\ Holds(out, o) /\ (InFront(r) => row = out)
        /\ c <= PromptLen + o
    <3>1. FrontEnd(r) = PromptLen + o
      BY <1>4, <1>6 DEF FrontEnd
    <3> QED BY <1>2, <1>3, <1>4, <1>6, <3>1, AskedStart DEF FrontOf, FrontPlain
  <2>2. Counts(new, n, c) /\ new \in Seq(Int) /\ Len(new) = n
    <3>1. new = [k \in 1 .. n - q.drafts |-> c + k - 1] /\ n - q.drafts = n
      BY <1>2 DEF NewTokens
    <3> HIDE DEF new, n, c
    <3>2. new = [k \in 1 .. n |-> c + k - 1]
      BY <3>1
    <3> QED BY <1>2, <3>2 DEF Counts
  <2>3. ComingOut(r) = Aligned(FrontRunner, Coming, r, Async, FALSE)
    BY <1>6 DEF ComingOut, Outputs
  <2>4. Aligned(FrontRunner, Coming, r, Async, FALSE) =
           IF more > 0 THEN out \o LastN(new, more) ELSE out
    <3>1. Aligned(FrontRunner, Coming, r, Async, FALSE) =
            CASE ~FALSE /\ c + Len(new) - PromptLen - Len(out) > 0
                   -> out \o LastN(new, c + Len(new) - PromptLen - Len(out))
              [] FALSE /\ q.outputs < Len(out) -> SubSeq(out, 1, q.outputs)
              [] OTHER -> out
      BY <1>4, <1>6 DEF Aligned
    <3> HIDE DEF new, n, c, out, q
    <3>2. c + Len(new) - PromptLen - Len(out) = more
      BY <2>2
    <3> HIDE DEF more, o
    <3> QED BY <3>1, <3>2
  <2>5. InBatch(FrontRunner, Coming, r) =>
           KeptRow(FrontRunner, Coming, r, Async, FALSE) =
             IF more > 0 THEN out \o LastN(new, more) ELSE out
    <3> SUFFICES ASSUME InBatch(FrontRunner, Coming, r)
                 PROVE  KeptRow(FrontRunner, Coming, r, Async, FALSE) =
                          IF more > 0 THEN out \o LastN(new, more) ELSE out
      OBVIOUS
    <3>1. KeptRow(FrontRunner, Coming, r, Async, FALSE) =
            CASE FALSE /\ q.outputs < Len(out) + Optimistic(FrontRunner, Coming, r, Async)
                   -> Resized(row, q.outputs)
              [] ~FALSE /\ c + Len(new) - PromptLen > Len(row)
                   -> row \o LastN(new, c + Len(new) - PromptLen - Len(row))
              [] OTHER -> row
      BY DEF KeptRow
    <3>2. row = out /\ out \in Seq(Int) /\ Len(out) >= 0
      BY <1>4, <1>6, <2>1
    <3> HIDE DEF new, n, c, out, q, row
    <3>3. /\ c + Len(new) - PromptLen - Len(row) = more
          /\ c + Len(new) - PromptLen > Len(row) <=> more > 0
      <4>1. Len(out) \in Int /\ Len(row) = Len(out)
        BY <3>2
      <4> QED BY <1>2, <2>2, <4>1
    <3> HIDE DEF more, o
    <3> QED BY <3>1, <3>2, <3>3
  <2>6. /\ ComingOut(r) = IF more > 0 THEN out \o LastN(new, more) ELSE out
        /\ ComingRow(r) = ComingOut(r)
    <3> HIDE DEF more, new, out, q
    <3> QED BY <2>3, <2>4, <2>5 DEF ComingRow
  <2>7. o \in Int /\ o >= 0 /\ out \in Seq(Int) /\ FrontLen(r) = o
    BY <1>4, <1>6
  <2>8. CASE more > 0
    <3>1. more \in Nat /\ more <= n /\ c + n - more = PromptLen + o
      <4> HIDE DEF n, c, o
      <4> QED BY <1>2, <2>1, <2>7, <2>8
    <3> HIDE DEF more, new, out, q, n, c, o
    <3>2. Counts(LastN(new, more), more, PromptLen + o)
      <4>1. Counts(LastN(new, more), more, c + n - more)
        BY <1>2, <2>2, <2>8, <3>1, LastCounted
      <4> QED BY <3>1, <4>1
    <3> DEFINE add == LastN(new, more)
    <3> HIDE DEF add
    <3>3. out \o add \in Seq(Int) /\ Holds(out \o add, o + more) /\ Len(out \o add) = o + more
      <4>1. Counts(add, more, PromptLen + o) /\ o = Len(out)
        BY <3>2 DEF add, o
      <4> QED BY <1>2, <2>1, <2>7, <3>1, <4>1, SentHold
    <3>4. ComingOut(r) = out \o add
      BY <2>6, <2>8 DEF add
    <3>5. Len(ComingOut(r)) = o + more /\ ComingOut(r) \in Seq(Int) /\ Holds(ComingOut(r), o + more)
      BY <3>3, <3>4
    <3>6. o + more >= 0 /\ c + n <= PromptLen + (o + more) /\ FrontLen(r) <= o + more
      BY <1>2, <2>7, <3>1
    <3> QED BY <2>6, <3>5, <3>6 DEF n, c, q
  <2>9. CASE ~(more > 0)
    <3>1. ComingOut(r) = out /\ c + n <= PromptLen + o
      <4>1. ComingOut(r) = out
        <5> HIDE DEF more, out
        <5> QED BY <2>6, <2>9
      <4> HIDE DEF n, c, o
      <4> QED BY <1>2, <2>7, <2>9, <4>1
    <3>2. ComingOut(r) \in Seq(Int) /\ Len(ComingOut(r)) = o
      BY <2>7, <3>1
    <3> HIDE DEF o
    <3>3. FrontLen(r) <= o
      BY <2>7
    <3> HIDE DEF more, new, out, q, n, c
    <3>4. Holds(ComingOut(r), o)
      BY <2>1, <3>1
    <3> QED BY <2>6, <2>7, <3>1, <3>2, <3>3, <3>4 DEF n, c, q
  <2> QED BY <2>8, <2>9
<1> QED BY <1>5, <1>6

(* The first rank afterwards.                                              *)
LEMMA FirstExecutedRunner ==
    ASSUME "first" \in Ranks, LineInv, LastInv, FrontAll, ExecuteModel("first")
    PROVE  /\ WorkerRec(FrontRunner') /\ FrontRunner'.prev = FrontRunner.prev
           /\ FrontRunner'.order = Coming.order
           /\ DOMAIN FrontRunner'.rows = Scheduled(Coming)
           /\ DOMAIN FrontRunner'.reqs = Kept(FrontRunner, Coming)
           /\ \A r \in Scheduled(Coming) :
                 /\ FrontRunner'.rows[r] = ComingRow(r) /\ ComingWorker.rows[r] = ComingRow(r)
                 /\ FrontRunner'.reqs[r].out = ComingOut(r) /\ FrontRunner'.reqs[r].drafts = 0
                 /\ ComingWorker.reqs[r].out = ComingOut(r)
           /\ \A r \in Kept(FrontRunner, Coming) \ Scheduled(Coming) :
                 /\ FrontRunner'.reqs[r].out = FrontRunner.reqs[r].out
                 /\ FrontRunner'.reqs[r].drafts = 0
<1> DEFINE so == Coming
           x == ComingWorker
           y == Corrected(x, FrontRunner, so, Async)
           w == FrontRunner
           v == FrontRunner'
<1>1. /\ worker = [k \in Ranks |-> worker[k]] /\ "first" \in Ranks
      /\ w = [reqs |-> w.reqs, rows |-> w.rows, order |-> w.order, prev |-> w.prev]
      /\ \A r \in DOMAIN w.reqs : IsWorkerReq(w.reqs[r]) /\ w.reqs[r].drafts = 0
  BY DEF FrontAll, FrontType, WorkerRec, LineInv, LineType, WorkerType
<1>2. /\ x = [reqs |-> x.reqs, rows |-> x.rows, order |-> x.order, prev |-> x.prev]
      /\ x.order = so.order /\ x.prev = w.prev
      /\ DOMAIN x.rows = Scheduled(so) /\ DOMAIN x.reqs = Kept(w, so)
      /\ \A r \in Scheduled(so) :
            x.reqs[r] = [out |-> ComingOut(r),
                         computed |-> so.req[r].computed, drafts |-> so.req[r].drafts]
      /\ \A r \in Kept(w, so) \ Scheduled(so) : x.reqs[r] = w.reqs[r]
      /\ \A r \in Scheduled(so) : x.rows[r] = ComingRow(r)
  <2>1. w = [reqs |-> w.reqs, rows |-> w.rows, order |-> w.order, prev |-> w.prev]
    BY <1>1
  <2>2. UpdatedFirst(x, w, so)
    BY <2>1, UpdateFirstFields DEF ComingWorker
  <2> HIDE DEF so, w, x
  <2> QED BY <2>2 DEF UpdatedFirst, ComingOut, ComingRow, so, w
<1>3. \A r \in Scheduled(so) : ComingOut(r) \in Seq(Int) /\ so.req[r].drafts = 0
  <2> SUFFICES ASSUME NEW r \in DOMAIN Coming.req
               PROVE  ComingOut(r) \in Seq(Int) /\ Coming.req[r].drafts = 0
    BY DEF Scheduled
  <2>1. ComingOut(r) \in Seq(Int)
    BY AskedRow, AskedPlain
  <2>2. AskedTypes(r)
    BY Asked
  <2> QED BY <2>1, <2>2 DEF AskedTypes
<1>4. \A r \in DOMAIN x.reqs : IsWorkerReq(x.reqs[r]) /\ x.reqs[r].drafts = 0
  <2> SUFFICES ASSUME NEW r \in DOMAIN x.reqs
               PROVE  IsWorkerReq(x.reqs[r]) /\ x.reqs[r].drafts = 0
    OBVIOUS
  <2>1. CASE r \in Scheduled(so)
    <3> DEFINE o == ComingOut(r)
               c == so.req[r].computed
               d == so.req[r].drafts
    <3>1. x.reqs[r] = [out |-> o, computed |-> c, drafts |-> d]
      BY <1>2, <2>1
    <3>2. o \in Seq(Int) /\ d = 0
      BY <1>3, <2>1
    <3> HIDE DEF so, w, x, o, c, d
    <3> QED BY <3>1, <3>2 DEF IsWorkerReq
  <2>2. CASE r \notin Scheduled(so)
    <3>1. r \in Kept(w, so) \ Scheduled(so) /\ r \in DOMAIN w.reqs
      BY <1>2, <2>2 DEF Kept
    <3> HIDE DEF so, w, x
    <3> QED BY <1>1, <1>2, <3>1
  <2> QED BY <2>1, <2>2
<1>5. /\ y = [reqs |-> y.reqs, rows |-> y.rows, order |-> y.order, prev |-> y.prev]
      /\ y.rows = x.rows /\ y.order = x.order /\ y.prev = x.prev
      /\ DOMAIN y.reqs = DOMAIN x.reqs
      /\ \A r \in DOMAIN x.reqs :
            /\ IsWorkerReq(y.reqs[r])
            /\ y.reqs[r].out = x.reqs[r].out /\ y.reqs[r].drafts = x.reqs[r].drafts
  <2> HIDE DEF so, w, x, y
  <2>1. y = Corrected(x, w, so, Async)
    BY DEF y, w
  <2>2. x = [reqs |-> x.reqs, rows |-> x.rows, order |-> x.order, prev |-> x.prev]
    BY <1>2
  <2> QED BY <1>4, <2>1, <2>2, CorrectedFields
<1>6. v = x \/ v = y
  <2>1. ("first" = "last") = FALSE
    OBVIOUS
  <2>2. worker' = [worker EXCEPT !["first"] = x] \/ worker' = [worker EXCEPT !["first"] = y]
    BY <2>1 DEF ExecuteModel, FrontLine, FrontRunner, ComingWorker, Coming
  <2> HIDE DEF x, y
  <2> QED BY <1>1, <2>2 DEF FrontRunner
<1>7. /\ v = [reqs |-> v.reqs, rows |-> v.rows, order |-> v.order, prev |-> v.prev]
      /\ v.rows = x.rows /\ v.order = x.order /\ v.prev = x.prev
      /\ DOMAIN v.reqs = DOMAIN x.reqs
      /\ \A r \in DOMAIN x.reqs :
            /\ IsWorkerReq(v.reqs[r])
            /\ v.reqs[r].out = x.reqs[r].out /\ v.reqs[r].drafts = 0
  <2> HIDE DEF so, w, x, y, v
  <2>1. CASE v = x
    BY <1>2, <1>4, <2>1
  <2>2. CASE v = y
    BY <1>4, <1>5, <2>2
  <2> QED BY <1>6, <2>1, <2>2
<1>8. Scheduled(so) \subseteq Kept(w, so)
  BY DEF Kept
<1> HIDE DEF so, w, x, y, v
<1>9. \A r \in Scheduled(so) :
         /\ v.rows[r] = ComingRow(r) /\ x.rows[r] = ComingRow(r)
         /\ v.reqs[r].out = ComingOut(r) /\ v.reqs[r].drafts = 0
         /\ x.reqs[r].out = ComingOut(r)
  <2> SUFFICES ASSUME NEW r \in Scheduled(so)
               PROVE  /\ v.rows[r] = ComingRow(r) /\ x.rows[r] = ComingRow(r)
                      /\ v.reqs[r].out = ComingOut(r) /\ v.reqs[r].drafts = 0
                      /\ x.reqs[r].out = ComingOut(r)
    OBVIOUS
  <2>1. x.reqs[r].out = ComingOut(r)
    <3>1. x.reqs[r] = [out |-> ComingOut(r),
                       computed |-> so.req[r].computed, drafts |-> so.req[r].drafts]
      BY <1>2
    <3> QED BY <3>1
  <2> QED BY <1>2, <1>7, <1>8, <2>1
<1>10. \A r \in Kept(w, so) \ Scheduled(so) :
          v.reqs[r].out = w.reqs[r].out /\ v.reqs[r].drafts = 0
  BY <1>2, <1>7
<1>11. WorkerRec(v)
  BY <1>7 DEF WorkerRec
<1> QED BY <1>2, <1>7, <1>9, <1>10, <1>11 DEF so, w, x, v

(* Every request of the step it executes fits in.                          *)
LEMMA FirstPosition ==
    ASSUME "first" \in Ranks, FrontAll, NEW r, r \in DOMAIN Coming.req,
           Coming.req[r].computed \in Int
    PROVE  Position(FrontRunner, Coming, r, Async) = Coming.req[r].computed
<1>1. InBatch(FrontRunner, Coming, r) => FrontRunner.reqs[r].drafts = 0
  BY DEF InBatch, FrontAll, FrontType
<1>2. Optimistic(FrontRunner, Coming, r, Async) = 0
  BY <1>1 DEF Optimistic
<1>3. Correction(FrontRunner, Coming, r, Async) = 0
  BY <1>2 DEF Correction
<1> QED BY <1>3 DEF Position

LEMMA FirstFits ==
    ASSUME "first" \in Ranks, LineInv, LastInv, FrontAll, ExecuteModel("first")
    PROVE  Fits(FrontRunner, ComingWorker, Coming,
                [r \in Scheduled(Coming) |-> Position(FrontRunner, Coming, r, Async)])
<1> DEFINE so == Coming
           pos == [r \in Scheduled(so) |-> Position(FrontRunner, so, r, Async)]
<1>1. so.req \in StepReqs /\ so.order \in SetToSeqs(DOMAIN so.req)
  BY FirstExecutes
<1>2. so.order \in Seq(Scheduled(so))
  <2> HIDE DEF so
  <2> QED BY <1>1, StepReqsFacts, OrderFacts DEF Scheduled
<1>3. ASSUME NEW r \in Scheduled(so)
      PROVE  /\ r \in DOMAIN Coming.req /\ AskedTypes(r) /\ AskedNext(r)
             /\ so.req[r].computed + so.req[r].n <= PromptLen + sampled[r]
             /\ pos[r] = so.req[r].computed
  <2>1. r \in DOMAIN Coming.req
    BY DEF Scheduled
  <2>2. /\ AskedTypes(r) /\ AskedNext(r)
        /\ so.req[r].computed + so.req[r].n <= PromptLen + sampled[r]
    BY <2>1, Asked
  <2>3. pos[r] = so.req[r].computed
    BY <2>1, <2>2, FirstPosition DEF AskedTypes
  <2> QED BY <2>1, <2>2, <2>3
<1>4. Batch(so)
  <2>1. \A r \in Scheduled(so) : /\ so.req[r].n \in Nat /\ so.req[r].drafts \in Nat
                                 /\ so.req[r].drafts < so.req[r].n
    BY <1>3 DEF AskedTypes
  <2> QED BY <1>2, <2>1 DEF Batch
<1>5. \A r \in Scheduled(so) : pos[r] \in Int
  BY <1>3 DEF AskedTypes
<1>6. ASSUME NEW r \in Scheduled(so)
      PROVE  IF r \in DOMAIN FrontRunner.prev.index
             THEN /\ so.req[r].n = so.req[r].drafts + 1
                  /\ FrontRunner.prev.sampled[FrontRunner.prev.index[r]] = <<r, pos[r]>>
             ELSE CpuTokens(ComingWorker, so, r) =
                    [j \in 1 .. so.req[r].n |-> <<r, pos[r] + j - 1>>]
  <2>1. CASE r \in DOMAIN FrontRunner.prev.index
    <3>1. /\ so.req[r].n = 1 /\ so.req[r].drafts = 0
          /\ FrontRunner.prev.sampled[FrontRunner.prev.index[r]] = <<r, so.req[r].computed>>
      BY <1>3, <2>1, AskedOnDevice DEF AskedTypes
    <3> QED BY <1>3, <2>1, <3>1
  <2>2. CASE r \notin DOMAIN FrontRunner.prev.index
    <3> DEFINE n == so.req[r].n
               c == so.req[r].computed
               o == IF Async THEN sampled[r] ELSE Len(ComingOut(r))
    <3>1. n \in Nat /\ c \in Nat /\ PromptLen \in Nat /\ sampled[r] \in Nat
      BY <1>3 DEF AskedTypes, AskedNext
    <3>2. Holds(ComingRow(r), o) /\ c + n <= PromptLen + o /\ o \in Nat
      <4>1. CASE Async
        BY <1>3, <2>2, <3>1, <4>1, AskedRow
      <4>2. CASE ~Async
        BY <1>3, <4>2, AskedPlain
      <4> QED BY <4>1, <4>2
    <3>3. ComingWorker.rows[r] = ComingRow(r)
      BY FirstExecutedRunner
    <3>4. CpuTokens(ComingWorker, so, r) = [j \in 1 .. n |-> <<r, c + j - 1>>]
      <4>1. so.req[r].n = n /\ so.req[r].computed = c
        OBVIOUS
      <4> HIDE DEF so, n, c, o
      <4> QED BY <3>1, <3>2, <3>3, <4>1, CpuHolds
    <3> QED BY <1>3, <2>2, <3>4
  <2> QED BY <2>1, <2>2
<1> HIDE DEF so, pos
<1>7. Fits(FrontRunner, ComingWorker, so, pos)
  BY <1>4, <1>5, <1>6 DEF Fits
<1> QED BY <1>7 DEF so, pos

LEMMA FirstExecutedInputs ==
    ASSUME "first" \in Ranks, LineInv, LastInv, FrontAll, ExecuteModel("first")
    PROVE  FrontInputs'
<1> DEFINE so == Coming
           new == ComingWorker
           pos == [r \in Scheduled(so) |-> Position(FrontRunner, so, r, Async)]
<1>1. InputIds(FrontRunner, new, so) = OwnTokens(so, pos)
  <2>1. Fits(FrontRunner, new, so, pos)
    BY FirstFits
  <2> HIDE DEF so, new, pos
  <2> QED BY <2>1, FittingInputs
<1>2. FrontRunner'.order = so.order
  BY FirstExecutedRunner
<1>3. CASE Scheduled(so) = {}
  <2>1. FrontStep' = NoStep
    BY <1>3, FirstExecutedStep
  <2> QED BY <2>1 DEF FrontInputs, NoStep
<1>4. CASE Scheduled(so) # {}
  <2>1. /\ FrontStep'.req = so.req /\ FrontStep'.pos = pos
        /\ FrontStep'.inputs = InputIds(FrontRunner, new, so)
    BY <1>4, FirstExecutedStep
  <2> DEFINE so2 == [req |-> FrontStep'.req, order |-> FrontRunner'.order]
  <2>2. so2.req = so.req /\ so2.order = so.order
    BY <1>2, <2>1
  <2> HIDE DEF so, new, pos, so2
  <2>3. OwnTokens(so2, FrontStep'.pos) = OwnTokens(so, pos)
    BY <2>1, <2>2 DEF OwnTokens
  <2>4. FrontStep'.inputs = OwnTokens(so2, FrontStep'.pos)
    BY <1>1, <2>1, <2>3
  <2> QED BY <2>4 DEF FrontInputs, so2
<1> QED BY <1>3, <1>4

LEMMA FirstExecutedBoxes ==
    ASSUME "first" \in Ranks, LineInv, LastInv, FrontAll, ExecuteModel("first")
    PROVE  FrontBoxes' /\ FrontRows' /\ FrontType'
<1>1. /\ Line' = Line /\ Step' = Step /\ Runner' = Runner
      /\ Len(FrontLine') = Len(FrontLine) - 1
      /\ \A j \in 1 .. Len(FrontLine') : FrontLine'[j] = FrontLine[j + 1]
      /\ Lead' = Lead + 1 /\ Lead \in Int
      /\ Lead + 1 > 0 => Coming = Line[Lead + 1]
      /\ Lead + 1 <= 0 => DOMAIN Coming.req = {}
      /\ Coming.order \in SetToSeqs(DOMAIN Coming.req)
  BY FirstExecutes
<1>2. Len(FrontLine) \in Nat
  BY FrontSizes DEF LineInv
<1>3. FrontBoxes'
  <2> SUFFICES ASSUME NEW j \in 1 .. Len(FrontLine')
               PROVE  IF j + (Lead + 1) > 0 THEN FrontLine'[j] = Line[j + (Lead + 1)]
                                            ELSE DOMAIN FrontLine'[j].req = {}
    BY <1>1 DEF FrontBoxes
  <2>1. j + 1 \in 1 .. Len(FrontLine) /\ FrontLine'[j] = FrontLine[j + 1]
    BY <1>1, <1>2
  <2>2. (j + 1) + Lead = j + (Lead + 1)
    BY <1>1, <1>2
  <2>3. IF (j + 1) + Lead > 0 THEN FrontLine[j + 1] = Line[(j + 1) + Lead]
                              ELSE DOMAIN FrontLine[j + 1].req = {}
    BY <2>1 DEF FrontAll, FrontBoxes
  <2> HIDE DEF Lead
  <2> QED BY <2>1, <2>2, <2>3
<1>4. /\ WorkerRec(FrontRunner') /\ FrontRunner'.order = Coming.order
      /\ DOMAIN FrontRunner'.rows = Scheduled(Coming)
      /\ DOMAIN FrontRunner'.reqs = Kept(FrontRunner, Coming)
      /\ \A r \in Kept(FrontRunner, Coming) : FrontRunner'.reqs[r].drafts = 0
  BY FirstExecutedRunner
<1>5. FrontStep' # NoStep => FrontStep'.req = Coming.req /\ Scheduled(Coming) # {}
  BY FirstExecutedStep
<1>6. (FrontStep = NoStep)' <=> FrontStep' = NoStep
  BY DEF NoStep
<1>7. FrontRows'
  <2>1. Lead + 1 >= 1 => DOMAIN FrontRunner'.rows = DOMAIN Line[Lead + 1].req
    BY <1>1, <1>4 DEF Scheduled
  <2>2. Lead + 1 <= 0 => DOMAIN FrontRunner'.rows = {} /\ DOMAIN Runner.rows = {}
    BY <1>1, <1>4 DEF Scheduled, FrontAll, FrontRows
  <2>3. FrontStep' # NoStep => DOMAIN FrontRunner'.rows = DOMAIN FrontStep'.req
    BY <1>4, <1>5 DEF Scheduled
  <2> HIDE DEF Lead
  <2>4. Lead' >= 1 => DOMAIN FrontRunner'.rows = DOMAIN Line'[Lead'].req
    BY <1>1, <2>1
  <2>5. Lead' <= 0 => DOMAIN FrontRunner'.rows = {} /\ DOMAIN Runner'.rows = {}
    BY <1>1, <2>2
  <2>6. Lead' \in Int
    BY <1>1
  <2>7. /\ Lead' = 0 => DOMAIN FrontRunner'.rows = DOMAIN Runner'.rows
        /\ Lead' < 0 => DOMAIN Runner'.rows = {}
    BY <2>5, <2>6
  <2> QED BY <1>6, <2>3, <2>4, <2>7 DEF FrontRows
<1>8. FrontType'
  <2>1. \A r \in DOMAIN Runner.reqs : Runner.reqs[r].drafts = 0
    BY DEF FrontAll, FrontType
  <2>2. DOMAIN FrontRunner'.rows \subseteq DOMAIN FrontRunner'.reqs
    BY <1>4 DEF Kept
  <2>3. FrontStep' # NoStep => /\ FrontRunner'.order \in SetToSeqs(DOMAIN FrontStep'.req)
                               /\ DOMAIN FrontStep'.req # {}
    BY <1>1, <1>4, <1>5 DEF Scheduled
  <2>4. WorkerRec(FrontRunner)'
    BY <1>4 DEF WorkerRec, IsWorkerReq
  <2> QED BY <1>1, <1>4, <1>6, <2>1, <2>2, <2>3, <2>4 DEF FrontType
<1> QED BY <1>3, <1>7, <1>8

LEMMA FirstExecutedMatch ==
    ASSUME "first" \in Ranks, LineInv, LastInv, FrontAll, ExecuteModel("first")
    PROVE  FrontMatch' /\ FrontSent' /\ FrontPrev'
<1>1. /\ Line' = Line /\ Step' = Step /\ Runner' = Runner /\ sent' = sent
      /\ (Async' <=> Async) /\ FrontStep = NoStep
      /\ Lead' = Lead + 1 /\ Lead \in Int /\ Lead + 1 <= Len(Line) /\ Len(Line) \in {0, 1, 2}
      /\ Lead + 1 > 0 => Coming = Line[Lead + 1]
  BY FirstExecutes
<1>2. /\ FrontRunner'.prev = FrontRunner.prev /\ FrontRunner'.order = Coming.order
  BY FirstExecutedRunner
<1>3. /\ FrontStep' # NoStep => /\ FrontStep'.req = Coming.req /\ Scheduled(Coming) # {}
                                /\ FrontStep'.discard = Discarded(ComingWorker, Coming)
      /\ FrontStep' = NoStep => Scheduled(Coming) = {}
  BY FirstExecutedStep
<1>4. /\ (FrontStep = NoStep)' <=> FrontStep' = NoStep
      /\ (Step = NoStep)' <=> Step = NoStep
  BY <1>1 DEF NoStep
<1>5. FrontMatch'
  <2> SUFFICES ASSUME Async PROVE FrontMatch'
    BY <1>1 DEF FrontMatch
  <2>1. /\ Step # NoStep => Lead >= 0 /\ Idles(Step.req)
        /\ \A i \in {1, 2} : i <= Len(Line) /\ i <= Lead => Idles(Line[i].req)
    BY <1>1 DEF FrontAll, FrontMatch
  <2>2. Step # NoStep => Lead + 1 >= 0 /\ ~(Lead + 1 = 0) /\ Idles(Step.req)
    <3> HIDE DEF Lead
    <3> QED BY <1>1, <2>1
  <2>3. ASSUME NEW i \in {1, 2}, i <= Len(Line), i <= Lead + 1
        PROVE  IF i = Lead + 1 /\ FrontStep' # NoStep
               THEN FrontStep'.req = Line[i].req /\ FrontRunner'.order = Line[i].order
               ELSE Idles(Line[i].req)
    <3>1. CASE i = Lead + 1
      <4>1. Coming = Line[i]
        BY <1>1, <3>1
      <4>2. FrontStep' = NoStep => Idles(Line[i].req)
        BY <1>3, <4>1 DEF Scheduled, Idles
      <4> QED BY <1>2, <1>3, <3>1, <4>1, <4>2
    <3>2. CASE i # Lead + 1
      <4>1. i <= Lead
        <5> HIDE DEF Lead
        <5> QED BY <1>1, <2>3, <3>2
      <4> QED BY <2>1, <2>3, <3>2, <4>1
    <3> QED BY <3>1, <3>2
  <2>4. FrontStep' # NoStep =>
          FrontStep'.discard = {r \in DOMAIN FrontStep'.req : ~Reach(FrontStep'.req[r])}
    <3>1. ASSUME NEW r \in DOMAIN Coming.req
          PROVE  Coming.req[r].computed + Coming.req[r].n
                   < PromptLen + Len(ComingWorker.reqs[r].out) <=> ~Reach(Coming.req[r])
      <4> DEFINE q == Coming.req[r]
                 n == q.n
                 c == q.computed
                 o == q.outputs
      <4>1. AskedTypes(r) /\ AskedNext(r)
        BY Asked
      <4>2. ComingWorker.reqs[r].out = ComingOut(r) /\ Len(ComingOut(r)) = sampled[r]
        BY FirstExecutedRunner, AskedRow DEF Scheduled
      <4>3. o = sampled[r] /\ n \in Nat /\ c \in Nat /\ o \in Nat /\ PromptLen \in Nat
        BY <4>1 DEF AskedTypes, AskedNext
      <4>4. Reach(q) <=> c + n >= PromptLen + o
        BY DEF Reach
      <4> HIDE DEF q, n, c, o
      <4>5. c + n < PromptLen + o <=> ~Reach(q)
        BY <4>3, <4>4
      <4> QED BY <4>2, <4>3, <4>5 DEF q, n, c
    <3> QED BY <1>3, <3>1 DEF Discarded, Scheduled
  <2> HIDE DEF Lead
  <2> QED BY <1>1, <1>4, <2>2, <2>3, <2>4, IdlesSame, ReachSame DEF FrontMatch
<1>6. FrontSent'
  <2>1. sent = <<>>
    BY <1>1 DEF FrontAll, FrontSent
  <2> QED BY <1>1, <2>1 DEF FrontSent
<1>7. FrontPrev'
  <2>1. CASE ~Async
    BY <1>1, <1>2, <2>1 DEF FrontAll, FrontPrev, NoPrev
  <2>2. CASE Async
    <3> SUFFICES ASSUME FrontStep' = NoStep, DOMAIN FrontRunner.prev.index # {}
                 PROVE  /\ Step = NoStep
                        /\ \A i \in {1, 2} : i <= Lead + 1 => ~Filled(i)'
                        /\ Runner.prev.index = FrontRunner.prev.index
                        /\ Runner.prev.sampled = FrontRunner.prev.sampled
      BY <1>1, <1>2, <1>4, <2>2 DEF FrontPrev
    <3>1. /\ Step = NoStep
          /\ \A i \in {1, 2} : i <= Lead => ~Filled(i)
          /\ Runner.prev.index = FrontRunner.prev.index
          /\ Runner.prev.sampled = FrontRunner.prev.sampled
      BY <1>1, <2>2 DEF FrontAll, FrontPrev
    <3>2. Coming.order = <<>>
      <4>1. DOMAIN Coming.req = {} /\ Coming.order \in SetToSeqs(DOMAIN Coming.req)
        BY <1>3, FirstExecutes DEF Scheduled
      <4>2. Range(Coming.order) = {} /\ Coming.order \in Seq(Reqs)
        BY <4>1, OrderCovers, OrderFacts
      <4> DEFINE s == Coming.order
      <4>3. s \in Seq(Reqs) /\ Range(s) = {}
        BY <4>2
      <4> HIDE DEF s
      <4>4. Len(s) \in Nat /\ DOMAIN s = 1 .. Len(s)
        BY <4>3, LenProperties
      <4>5. Len(s) = 0
        <5>1. ~(1 \in DOMAIN s)
          BY <4>3 DEF Range
        <5> QED BY <4>4, <5>1
      <4>6. s = <<>>
        BY <4>3, <4>5, EmptySeq
      <4> QED BY <4>6 DEF s
    <3>3. \A i : Filled(i)' <=> Filled(i)
      BY <1>1 DEF Filled
    <3>4. ASSUME NEW i \in {1, 2}, i <= Lead + 1 PROVE ~Filled(i)
      <4>1. CASE i = Lead + 1
        BY <1>1, <3>2, <4>1 DEF Filled
      <4>2. CASE i # Lead + 1
        <5>1. i <= Lead
          <6> HIDE DEF Lead
          <6> QED BY <1>1, <3>4, <4>2
        <5> QED BY <3>1, <5>1
      <4> QED BY <4>1, <4>2
    <3> QED BY <3>1, <3>3, <3>4
  <2> QED BY <2>1, <2>2
<1> QED BY <1>5, <1>6, <1>7

(* Where the request is, for a rank that is one output further.            *)
LEMMA FirstExecutesRequest ==
    ASSUME "first" \in Ranks, LineInv, FrontAll, ExecuteModel("first"), NEW r \in Reqs
    PROVE  /\ Live(r)' <=> Live(r)
           /\ InWorker(r)' <=> InWorker(r)
           /\ InStep(r)' <=> InStep(r)
           /\ \A i \in {1, 2} :
                 /\ InBox(i, r)' <=> InBox(i, r)
                 /\ Boxed(i, r)' = Boxed(i, r)
                 /\ Taken(i, r)' => Taken(i, r) \/ (i = Lead + 1 /\ r \in DOMAIN Coming.req)
                 /\ Waits(i, r)' => Waits(i, r) /\ i > Lead + 1
<1>1. /\ Line' = Line /\ Step' = Step /\ Runner' = Runner /\ request' = request
      /\ Lead' = Lead + 1 /\ Lead \in Int
      /\ Lead + 1 > 0 => Coming = Line[Lead + 1]
  BY FirstExecutes
<1>2. \A i : /\ InBox(i, r)' <=> InBox(i, r)
             /\ Boxed(i, r)' = Boxed(i, r)
  BY <1>1 DEF InBox, Boxed
<1>3. /\ Live(r)' <=> Live(r)
      /\ InWorker(r)' <=> InWorker(r)
      /\ InStep(r)' <=> InStep(r)
  BY <1>1 DEF Live, InWorker, InStep, NoStep
<1>4. ASSUME NEW i \in {1, 2}
      PROVE  /\ Taken(i, r)' => Taken(i, r) \/ (i = Lead + 1 /\ r \in DOMAIN Coming.req)
             /\ Waits(i, r)' => Waits(i, r) /\ i > Lead + 1
  <2>1. /\ Taken(i, r)' <=> i <= Lead + 1 /\ InBox(i, r)
        /\ Waits(i, r)' <=> i > Lead + 1 /\ InBox(i, r)
    BY <1>1, <1>2 DEF Taken, Waits
  <2>2. i = Lead + 1 /\ InBox(i, r) => r \in DOMAIN Coming.req
    <3>1. i = Lead + 1 => Coming = Line[i]
      BY <1>1
    <3> QED BY <3>1 DEF InBox
  <2> HIDE DEF Lead
  <2> QED BY <1>1, <2>1, <2>2 DEF Taken, Waits
<1> QED BY <1>2, <1>3, <1>4

LEMMA FirstExecutedEnded ==
    ASSUME "first" \in Ranks, LineInv, LastInv, FrontAll, ExecuteModel("first"), NEW r \in Reqs
    PROVE  FrontEnded(r)' /\ FrontKnows(r)'
<1>1. /\ Len(FrontLine') = Len(FrontLine) - 1
      /\ \A j \in 1 .. Len(FrontLine') : FrontLine'[j] = FrontLine[j + 1]
      /\ Lead' = Lead + 1 /\ Lead \in Int /\ Lead + 1 <= Len(Line) /\ Len(Line) \in {0, 1, 2}
      /\ Coming = FrontLine[1] /\ 1 \in 1 .. Len(FrontLine)
      /\ Lead + 1 > 0 => Coming = Line[Lead + 1]
  BY FirstExecutes
<1>2. Len(FrontLine) \in Nat
  BY FrontSizes DEF LineInv
<1>3. FrontOf(r) /\ RequestInv(r)
  BY DEF FrontAll, LineInv
<1>4. /\ Live(r)' <=> Live(r)
      /\ InWorker(r)' <=> InWorker(r)
      /\ \A i \in {1, 2} :
            /\ InBox(i, r)' <=> InBox(i, r)
            /\ Taken(i, r)' => Taken(i, r) \/ (i = Lead + 1 /\ r \in DOMAIN Coming.req)
            /\ Waits(i, r)' => Waits(i, r) /\ i > Lead + 1
  BY FirstExecutesRequest
<1>5. FrontEnded(r)'
  <2> SUFFICES ASSUME NEW j \in 1 .. Len(FrontLine'), j + (Lead + 1) <= 0,
                      r \in FrontLine'[j].ended
               PROVE  ~Live(r) /\ ~InBox(1, r) /\ ~InBox(2, r)
    BY <1>1, <1>4 DEF FrontEnded
  <2>1. j + 1 \in 1 .. Len(FrontLine) /\ FrontLine'[j] = FrontLine[j + 1]
    BY <1>1, <1>2
  <2>2. (j + 1) + Lead <= 0
    <3> HIDE DEF Lead
    <3> QED BY <1>1, <1>2
  <2> QED BY <2>1, <2>2, <1>3 DEF FrontOf, FrontEnded
<1>6. FrontKnows(r)'
  <2> SUFFICES ASSUME Live(r) \/ Waits(1, r)' \/ Waits(2, r)',
                      InWorker(r) \/ Taken(1, r)' \/ Taken(2, r)'
               PROVE  Known(r)'
    BY <1>4 DEF FrontKnows
  <2>1. DOMAIN FrontRunner'.reqs = Kept(FrontRunner, Coming)
    BY FirstExecutedRunner
  <2>2. CASE r \in Scheduled(Coming)
    BY <2>1, <2>2 DEF Known, Kept
  <2>3. CASE r \notin Scheduled(Coming)
    <3>1. /\ InWorker(r) \/ Taken(1, r) \/ Taken(2, r)
          /\ Live(r) \/ Waits(1, r) \/ Waits(2, r)
      BY <1>4, <2>3 DEF Scheduled
    <3>2. Known(r)
      BY <3>1, <1>3 DEF FrontOf, FrontKnows
    <3>3. r \notin Coming.ended
      <4> SUFFICES ASSUME r \in Coming.ended PROVE FALSE
        OBVIOUS
      <4>1. CASE Lead + 1 <= 0
        <5>1. 1 + Lead <= 0
          <6> HIDE DEF Lead
          <6> QED BY <4>1, <1>1
        <5>2. ~Live(r) /\ ~InBox(1, r) /\ ~InBox(2, r)
          BY <5>1, <1>1, <1>3 DEF FrontOf, FrontEnded
        <5> QED BY <5>2, <3>1 DEF Waits
      <4>2. CASE Lead + 1 > 0
        <5> DEFINE k == Lead + 1
        <5>1. k \in {1, 2} /\ k \in 1 .. Len(Line) /\ Coming = Line[k]
          <6>1. Lead + 1 > 0 => Coming = Line[k]
            BY <1>1
          <6> HIDE DEF Lead
          <6> QED BY <4>2, <1>1, <6>1
        <5>2. EndsBox(k, r)
          BY <5>1 DEF EndsBox
        <5>3. ~Live(r) /\ \A i \in {1, 2} : k <= i => ~InBox(i, r)
          BY <5>1, <5>2, <1>3 DEF RequestInv, EndedInv
        <5>4. \A i \in {1, 2} : Waits(i, r)' => InBox(i, r) /\ i > k
          BY <1>4 DEF Waits
        <5>5. \A i \in {1, 2} : i > k => k <= i
          <6> HIDE DEF k
          <6> QED BY <5>1
        <5> QED BY <5>3, <5>4, <5>5
      <4> QED BY <4>1, <4>2, <1>1
    <3> QED BY <2>1, <3>2, <3>3 DEF Known, Kept
  <2> QED BY <2>2, <2>3
<1> QED BY <1>5, <1>6

LEMMA FirstExecutedTokens ==
    ASSUME "first" \in Ranks, LineInv, LastInv, FrontAll, ExecuteModel("first"), NEW r \in Reqs
    PROVE  FrontTokens(r)'
<1> SUFFICES ASSUME Async PROVE FrontTokens(r)'
  BY FirstExecutes DEF FrontTokens
<1>1. /\ Step' = Step /\ sampled' = sampled /\ Lead' = Lead + 1 /\ Lead \in Int
  BY FirstExecutes
<1>2. /\ FrontRunner'.prev = FrontRunner.prev
      /\ DOMAIN FrontRunner'.rows = Scheduled(Coming)
      /\ DOMAIN FrontRunner'.reqs = Kept(FrontRunner, Coming)
      /\ \A x \in Scheduled(Coming) : /\ FrontRunner'.rows[x] = ComingRow(x)
                                      /\ FrontRunner'.reqs[x].out = ComingOut(x)
      /\ \A x \in Kept(FrontRunner, Coming) \ Scheduled(Coming) :
            FrontRunner'.reqs[x].out = FrontRunner.reqs[x].out
  BY FirstExecutedRunner
<1>3. /\ FrontStep' = NoStep => Scheduled(Coming) = {}
      /\ FrontStep' # NoStep => FrontStep'.req = Coming.req
  BY FirstExecutedStep
<1>4. (FrontStep = NoStep)' <=> FrontStep' = NoStep
  BY DEF NoStep
<1>5. FrontOf(r)
  BY DEF FrontAll
<1>6. CASE r \in Scheduled(Coming)
  <2>1. /\ AskedTypes(r) /\ AskedNext(r)
        /\ Len(ComingOut(r)) = sampled[r]
        /\ r \notin DOMAIN FrontRunner.prev.index => Holds(ComingRow(r), sampled[r])
    BY <1>6, Asked, AskedRow DEF Scheduled
  <2>2. r \in DOMAIN FrontRunner.prev.index => Reach(Coming.req[r])
    BY <1>6, AskedOnDevice DEF Scheduled
  <2>3. FrontStep' # NoStep /\ FrontStep'.req = Coming.req
    BY <1>3, <1>6
  <2>4. ~Done'
    <3>1. Lead + 1 >= 1
      BY <2>1 DEF AskedTypes
    <3> HIDE DEF Lead
    <3> QED BY <1>1, <3>1 DEF Done
  <2>5. Coming.req[r].outputs = sampled[r] /\ sampled[r] \in Nat
    BY <2>1 DEF AskedNext, AskedTypes
  <2>6. FrontLen(r)' = sampled[r] /\ FrontRunner'.rows[r] = ComingRow(r)
    BY <1>2, <1>6, <2>1 DEF FrontLen
  <2>7. /\ Reach(FrontStep'.req[r]) <=> Reach(Coming.req[r])
        /\ Reach(FrontStep.req[r])' <=> Reach(FrontStep'.req[r])
        /\ Holds(FrontRunner.rows[r], sampled[r])' <=> Holds(ComingRow(r), sampled[r])
    BY <1>1, <2>3, <2>6, ReachSame DEF Holds
  <2>8. r \notin DOMAIN FrontRunner.prev.index \/ Reach(Coming.req[r])
    BY <2>2
  <2>9. ~Reach(Coming.req[r]) => Holds(ComingRow(r), sampled[r])
    BY <2>1, <2>2
  <2>10. sampled[r] = Coming.req[r].outputs + 0 /\ sampled[r] <= sampled[r]
    BY <2>5
  <2> HIDE DEF FrontLen, Coming, ComingRow
  <2> QED BY <1>1, <1>4, <2>3, <2>4, <2>5, <2>6, <2>7, <2>9, <2>10 DEF FrontTokens
<1>7. CASE r \notin Scheduled(Coming)
  <2>1. ~InFront(r)'
    BY <1>2, <1>7 DEF InFront
  <2>2. Known(r)' => Known(r) /\ FrontLen(r)' = FrontLen(r)
    BY <1>2, <1>7 DEF Known, Kept, FrontLen
  <2>3. FrontStep' # NoStep => r \notin DOMAIN FrontStep'.req
    BY <1>3, <1>7 DEF Scheduled
  <2> QED BY <1>1, <1>4, <1>5, <2>1, <2>2, <2>3 DEF FrontOf, FrontTokens
<1> QED BY <1>6, <1>7

LEMMA FirstExecutedPlain ==
    ASSUME "first" \in Ranks, LineInv, LastInv, FrontAll, ExecuteModel("first"), NEW r \in Reqs
    PROVE  FrontPlain(r)'
<1> SUFFICES ASSUME ~Async, Known(r)' PROVE FrontPlain(r)'
  BY FirstExecutes DEF FrontPlain
<1>1. Step' = Step /\ cached' = cached
  BY FirstExecutes
<1>2. /\ DOMAIN FrontRunner'.rows = Scheduled(Coming)
      /\ DOMAIN FrontRunner'.reqs = Kept(FrontRunner, Coming)
      /\ \A x \in Scheduled(Coming) : /\ FrontRunner'.rows[x] = ComingRow(x)
                                      /\ FrontRunner'.reqs[x].out = ComingOut(x)
      /\ \A x \in Kept(FrontRunner, Coming) \ Scheduled(Coming) :
            FrontRunner'.reqs[x].out = FrontRunner.reqs[x].out
  BY FirstExecutedRunner
<1>3. /\ InWorker(r)' <=> InWorker(r)
      /\ InStep(r)' <=> InStep(r)
      /\ \A i \in {1, 2} :
            /\ Boxed(i, r)' = Boxed(i, r)
            /\ Taken(i, r)' => Taken(i, r) \/ (i = Lead + 1 /\ r \in DOMAIN Coming.req)
  BY FirstExecutesRequest
<1>4. Known(r) =>
        /\ Holds(FrontRunner.reqs[r].out, FrontLen(r))
        /\ InFront(r) => FrontRunner.rows[r] = FrontRunner.reqs[r].out
        /\ InWorker(r) => cached[r] <= FrontEnd(r)
        /\ InStep(r) => Step.req[r].computed + Step.req[r].n <= FrontEnd(r)
        /\ \A i \in {1, 2} : Taken(i, r) => Boxed(i, r).computed + Boxed(i, r).n <= FrontEnd(r)
  BY DEF FrontAll, FrontOf, FrontPlain
<1>5. CASE r \in Scheduled(Coming)
  <2> DEFINE q == Coming.req[r]
             out == ComingOut(r)
             old == FrontEnd(r)
             end == PromptLen + Len(out)
             c == cached[r]
  <2>1. AskedTypes(r) /\ AskedNext(r)
    BY <1>5, Asked DEF Scheduled
  <2>2. /\ out \in Seq(Int) /\ Len(out) >= 0 /\ Holds(out, Len(out)) /\ ComingRow(r) = out
        /\ q.computed + q.n <= end
        /\ q.kind # "new" => FrontLen(r) <= Len(out)
    BY <1>5, AskedPlain DEF Scheduled
  <2>3. q.kind = "new" => ~InStep(r) /\ ~Taken(1, r) /\ ~InWorker(r)
    BY <1>5, <2>1, AskedStart DEF Scheduled, AskedNext
  <2>4. q.kind # "new" => Known(r)
    BY <2>1 DEF AskedNext
  <2>5. q.kind # "new" => old <= end /\ old \in Int /\ end \in Int
    <3>1. PromptLen \in Nat /\ Len(out) \in Int
      BY <2>1, <2>2 DEF AskedTypes
    <3>2. q.kind # "new" => FrontLen(r) \in Int
      BY <2>4 DEF FrontAll, FrontType, WorkerRec, IsWorkerReq, Known, FrontLen
    <3>3. old = PromptLen + FrontLen(r)
      BY DEF FrontEnd
    <3> HIDE DEF old, out, q
    <3> QED BY <2>2, <3>1, <3>2, <3>3
  <2>6. FrontRunner'.reqs[r].out = out /\ FrontRunner'.rows[r] = out
    BY <1>2, <1>5, <2>2
  <2>7. FrontLen(r)' = Len(out) /\ FrontEnd(r)' = end
    BY <2>6 DEF FrontLen, FrontEnd
  <2>8. InWorker(r) => c \in Int /\ c <= end
    <3>1. c \in Int
      BY Numbers DEF LineInv
    <3>2. InWorker(r) => c <= old /\ q.kind # "new"
      BY <1>4, <2>3, <2>4
    <3> HIDE DEF q, c, old, end, out
    <3> QED BY <2>5, <3>1, <3>2
  <2>9. InStep(r) => Step.req[r].computed + Step.req[r].n <= end
    <3> DEFINE s == Step.req[r]
               m == s.computed
               n == s.n
    <3>1. InStep(r) => m \in Int /\ n \in Int
      <4>1. InStep(r) => Step.req[r] \in ScheduledRec
        BY PlaceTypes DEF LineInv
      <4> QED BY <4>1, RecordTypes
    <3>2. InStep(r) => m + n <= old /\ q.kind # "new"
      BY <1>4, <2>3, <2>4
    <3> HIDE DEF s, m, n, q, old, end, out
    <3>3. InStep(r) => m + n <= end
      BY <2>5, <3>1, <3>2
    <3> QED BY <3>3 DEF m, n, s
  <2>10. ASSUME NEW i \in {1, 2}, Taken(i, r)'
         PROVE  Boxed(i, r).computed + Boxed(i, r).n <= end
    <3>1. CASE i = Lead + 1
      <4>1. Boxed(i, r) = q
        BY <2>1, <3>1 DEF AskedTypes
      <4> QED BY <2>2, <4>1
    <3>2. CASE i # Lead + 1
      <4> DEFINE b == Boxed(i, r)
                 m == b.computed
                 n == b.n
      <4>1. Taken(i, r)
        BY <1>3, <2>10, <3>2
      <4>2. i = 1
        <5>1. Lead \in {0, 1} /\ i <= Lead
          BY <2>1, <4>1 DEF AskedTypes, Taken
        <5> HIDE DEF Lead
        <5> QED BY <5>1
      <4>3. q.kind # "new" /\ m + n <= old
        BY <1>4, <2>3, <2>4, <4>1, <4>2
      <4>4. m \in Int /\ n \in Int
        <5>1. Boxed(i, r) \in ScheduledRec
          BY <4>1, PlaceTypes DEF LineInv, Taken
        <5> QED BY <5>1, RecordTypes
      <4> HIDE DEF b, m, n, q, old, end, out
      <4>5. m + n <= end
        BY <2>5, <4>3, <4>4
      <4> QED BY <4>5 DEF m, n, b
    <3> QED BY <3>1, <3>2
  <2>11. /\ Holds(FrontRunner.reqs[r].out, FrontLen(r))'
         /\ FrontRunner'.rows[r] = FrontRunner'.reqs[r].out
    BY <2>2, <2>6, <2>7 DEF Holds
  <2> HIDE DEF out, q, old, end, c, FrontEnd
  <2>12. /\ InWorker(r)' => cached'[r] <= FrontEnd(r)'
         /\ InStep(r)' => Step'.req[r].computed + Step'.req[r].n <= FrontEnd(r)'
    BY <1>1, <1>3, <2>7, <2>8, <2>9 DEF c
  <2>13. \A i \in {1, 2} : Taken(i, r)' =>
            Boxed(i, r)'.computed + Boxed(i, r)'.n <= FrontEnd(r)'
    BY <1>3, <2>7, <2>10
  <2> QED BY <2>11, <2>12, <2>13 DEF FrontPlain
<1>6. CASE r \notin Scheduled(Coming)
  <2>1. ~InFront(r)'
    BY <1>2, <1>6 DEF InFront
  <2>2. Known(r) /\ FrontRunner'.reqs[r].out = FrontRunner.reqs[r].out
    BY <1>2, <1>6 DEF Known, Kept
  <2>3. FrontLen(r)' = FrontLen(r) /\ FrontEnd(r)' = FrontEnd(r)
    BY <2>2 DEF FrontLen, FrontEnd
  <2>4. \A i \in {1, 2} : Taken(i, r)' => Taken(i, r)
    BY <1>3, <1>6 DEF Scheduled
  <2>5. Holds(FrontRunner.reqs[r].out, FrontLen(r))'
    BY <1>4, <2>2, <2>3 DEF Holds
  <2> QED BY <1>1, <1>3, <1>4, <2>1, <2>2, <2>3, <2>4, <2>5 DEF FrontPlain
<1> QED BY <1>5, <1>6

LEMMA FirstExecutedFront ==
    ASSUME "first" \in Ranks, LineInv, LastInv, FrontAll, ExecuteModel("first")
    PROVE  FrontAll'
<1>1. \A r \in Reqs : FrontOf(r)'
  BY FirstExecutedEnded, FirstExecutedTokens, FirstExecutedPlain DEF FrontOf
<1>2. Reqs' = Reqs
  OBVIOUS
<1> QED BY <1>1, FirstExecutedInputs, FirstExecutedBoxes, FirstExecutedMatch DEF FrontAll

(* The first rank has nothing yet, and what leaves it alone.               *)
LEMMA InitFront ==
    ASSUME Init
    PROVE  FrontInv
<1> SUFFICES ASSUME "first" \in Ranks PROVE FrontAll
  BY DEF FrontInv
<1>1. "last" \in Ranks
  BY ModeFacts DEF Init
<1>2. /\ Line = <<>> /\ Runner = NewWorker /\ Step = NoStep
      /\ FrontLine = <<>> /\ FrontRunner = NewWorker /\ FrontStep = NoStep /\ sent = <<>>
  BY <1>1 DEF Init, Line, Runner, Step, FrontLine, FrontRunner, FrontStep
<1>3. /\ NewWorker.prev = NoPrev /\ NoPrev.index = <<>>
      /\ NewWorker.reqs = <<>> /\ NewWorker.rows = <<>>
      /\ WorkerRec(NewWorker)
  BY DEF NewWorker, NoPrev, WorkerRec
<1>4. Lead = 0
  BY <1>2 DEF Lead
<1>5. FrontBoxes /\ FrontSent
  BY <1>2 DEF FrontBoxes, FrontSent
<1>6. FrontRows /\ FrontType /\ FrontInputs
  BY <1>2, <1>3, <1>4 DEF FrontRows, FrontType, FrontInputs
<1>7. FrontMatch
  <2>1. \A i \in {1, 2} : ~(i <= Len(Line))
    BY <1>2
  <2> QED BY <1>2, <2>1 DEF FrontMatch
<1>8. FrontPrev
  <2>1. DOMAIN FrontRunner.prev.index = {} /\ FrontRunner.prev = NoPrev
    BY <1>2, <1>3
  <2> QED BY <2>1 DEF FrontPrev
<1>9. ASSUME NEW r \in Reqs PROVE FrontOf(r)
  <2>1. /\ ~Known(r) /\ ~InFront(r) /\ ~InWorker(r)
        /\ \A i \in {1, 2} : ~InBox(i, r)
    BY <1>2, <1>3 DEF Known, InFront, InWorker, InBox
  <2>2. FrontEnded(r)
    BY <1>2 DEF FrontEnded
  <2>3. FrontKnows(r)
    BY <2>1 DEF FrontKnows, Taken
  <2>4. FrontTokens(r) /\ FrontPlain(r)
    BY <1>2, <2>1 DEF FrontTokens, FrontPlain
  <2> QED BY <2>2, <2>3, <2>4 DEF FrontOf
<1> QED BY <1>5, <1>6, <1>7, <1>8, <1>9 DEF FrontAll

LEMMA MaskedStill ==
    ASSUME "first" \in Ranks, LineInv, GrammarBitmask
    PROVE  FrontStill
<1>1. UNCHANGED <<inbox, worker, sent>>
  BY Zenon DEF GrammarBitmask
<1>2. \E v : pending' = [pending EXCEPT !["last"] = v]
  BY DEF GrammarBitmask
<1>3. pending = [k \in Ranks |-> pending[k]]
  BY DEF LineInv, LineType, TypeInv, PendingType
<1>4. FrontStep' = FrontStep
  BY <1>2, <1>3 DEF FrontStep
<1> QED BY <1>1, <1>4 DEF FrontStill, FrontLine, FrontRunner

(* Every step.                                                             *)
LEMMA FrontInvStep == LineInv /\ MaskInv /\ LastInv /\ FrontInv /\ [Next]_vars => FrontInv'
<1> SUFFICES ASSUME LineInv, MaskInv, LastInv, FrontInv, [Next]_vars, ("first" \in Ranks)'
             PROVE  FrontAll'
  BY Zenon DEF FrontInv
<1>1. mode' = mode
  BY DEF Next, vars, Schedule, ScheduleNothing, Update, Abort, ExecuteModel, GrammarBitmask,
         SampleTokens, ReceiveTokens, Quiet
<1>2. "first" \in Ranks /\ FrontAll
  BY <1>1 DEF Ranks, FrontInv
<1>3. CASE Schedule \/ ScheduleNothing
  BY <1>2, <1>3, FrontPlanned
<1>4. CASE Update
  <2>1. Steady
    BY <1>4 DEF Update, Steady, Line, Runner, Step, NoStep
  <2>2. FrontStill
    BY <1>4 DEF Update, FrontStill, FrontLine, FrontRunner, FrontStep
  <2>3. \A r \in Reqs : Live(r)' => Live(r)
    BY <1>4, UpdatedPlain
  <2> QED BY <1>2, <2>1, <2>2, <2>3, StillFront
<1>5. ASSUME NEW x \in Reqs, Abort(x) PROVE FrontAll'
  <2>1. /\ Steady
        /\ \A r \in Reqs : request'[r] = request[r] \/ request'[r].state = "finished"
    BY <1>5, AbortedInv
  <2>2. FrontStill
    BY <1>5 DEF Abort, FrontStill, FrontLine, FrontRunner, FrontStep
  <2>3. \A r \in Reqs : Live(r)' => Live(r)
    BY <2>1 DEF Live
  <2> QED BY <1>2, <2>1, <2>2, <2>3, StillFront
<1>6. ASSUME NEW k \in Ranks, ExecuteModel(k) PROVE FrontAll'
  <2>1. k = "first" \/ k = "last"
    BY DEF Ranks
  <2>2. CASE k = "first"
    BY <1>2, <1>6, <2>2, FirstExecutedFront
  <2>3. CASE k = "last"
    BY <1>2, <1>6, <2>3, LastExecutedFront
  <2> QED BY <2>1, <2>2, <2>3
<1>7. CASE GrammarBitmask
  <2>1. Steady /\ request' = request
    BY <1>7, MaskedInv
  <2>2. FrontStill
    BY <1>2, <1>7, MaskedStill
  <2>3. \A r \in Reqs : Live(r)' => Live(r)
    BY <2>1 DEF Live
  <2> QED BY <1>2, <2>1, <2>2, <2>3, StillFront
<1>8. CASE SampleTokens
  BY <1>2, <1>8, SampledFront
<1>9. CASE ReceiveTokens
  BY <1>2, <1>9, ReceivedFront
<1>10. CASE UNCHANGED vars
  <2>1. Steady /\ request' = request
    BY <1>10, StutterInv
  <2>2. FrontStill
    BY <1>10 DEF vars, FrontStill, FrontLine, FrontRunner, FrontStep
  <2>3. \A r \in Reqs : Live(r)' => Live(r)
    BY <2>1 DEF Live
  <2> QED BY <1>2, <2>1, <2>2, <2>3, StillFront
<1>11. CASE Quiet
  BY <1>10, <1>11 DEF Quiet
<1> QED BY <1>3, <1>4, <1>5, <1>6, <1>7, <1>8, <1>9, <1>10, <1>11 DEF Next

LEMMA FrontInvHolds == Spec => []FrontInv
BY InitFront, FrontInvStep, LineInvHolds, MaskInvHolds, LastInvHolds, PTL DEF Spec

(* Every input of every rank is the request's own token, in every mode and *)
(* whoever else is in the batch, in whatever order, and whoever left, was  *)
(* preempted or came back meanwhile: the last rank has the tokens it       *)
(* sampled, on the CPU or on the device, and the first rank of a pipeline  *)
(* those it received (_receive_sampled_token_ids) or was sent.             *)
THEOREM InputsAlwaysOwn == Spec => []InputsAreOwnTokens
<1>1. ASSUME LineInv, LastInv, FrontInv PROVE InputsAreOwnTokens
  <2> SUFFICES ASSUME NEW k \in Ranks, pending[k] # NoStep
               PROVE  pending[k].inputs =
                        OwnTokens([req |-> pending[k].req, order |-> worker[k].order],
                                  pending[k].pos)
    BY DEF InputsAreOwnTokens
  <2>1. CASE k = "last"
    BY <1>1, <2>1 DEF LastInv, LastInputs, Step, Runner
  <2>2. CASE k = "first"
    BY <1>1, <2>2 DEF FrontInv, FrontAll, FrontInputs, FrontStep, FrontRunner
  <2>3. k = "first" \/ k = "last"
    BY DEF Ranks
  <2> QED BY <2>1, <2>2, <2>3
<1> QED BY <1>1, LastInvHolds, LineInvHolds, FrontInvHolds, PTL
=============================================================================
