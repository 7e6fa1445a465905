-------------------------- MODULE ProgressBarProofs --------------------------
(***************************************************************************)
(* Proofs about ProgressBar, for output of any length.  What the scan and  *)
(* the parser of numbers compute is defined by recursion; that there are   *)
(* such functions, and what they return, is shown by induction on a        *)
(* measure of their arguments.                                             *)
(***************************************************************************)
EXTENDS ProgressBar, WellFoundedInduction, TLAPS

-----------------------------------------------------------------------------
\* Recursion and induction over a set with a measure

LEMMA LeastNumber ==
    ASSUME NEW T, T \subseteq Nat, T # {}
    PROVE  \E k \in T : \A j \in T : ~(j < k)
<1>1. \E k \in T : \A j \in T : <<j, k>> \notin OpToRel(<, Nat)
  BY WFMin, NatLessThanWellFounded
<1> QED BY <1>1 DEF OpToRel

\* i is in S when all of I that measure less are
Inherits(I, m, S, i) == (\A j \in I : m[j] < m[i] => j \in S) => i \in S

LEMMA MeasureInduction ==
    ASSUME NEW I, NEW m \in [I -> Nat], NEW S, \A i \in I : Inherits(I, m, S, i)
    PROVE  I \subseteq S
<1> SUFFICES ASSUME ~(I \subseteq S) PROVE FALSE
  OBVIOUS
<1> DEFINE T == {m[i] : i \in I \ S}
<1>1. PICK k \in T : \A j \in T : ~(j < k)
  <2>1. T \subseteq Nat /\ T # {}
    OBVIOUS
  <2> HIDE DEF T
  <2> QED BY <2>1, LeastNumber
<1>2. PICK i \in I \ S : m[i] = k
  OBVIOUS
<1>3. \A j \in I : m[j] < m[i] => j \in S
  BY <1>1, <1>2
<1> QED BY <1>2, <1>3 DEF Inherits

\* f is defined by recursion: by base where it stops, and elsewhere by a step from
\* its value at the next argument
Recursive(f, I, V, stop, base, next, step) ==
    /\ f \in [I -> V]
    /\ \A i \in I : f[i] = IF i \in stop THEN base[i] ELSE step[i][f[next[i]]]

\* The arguments that measure less than k
Below(I, m, k) == {i \in I : m[i] < k}

LEMMA RecursionGrows ==
    ASSUME NEW I, NEW m \in [I -> Nat], NEW V, NEW stop, NEW base \in [I -> V],
           NEW next, NEW step \in [I -> [V -> V]],
           \A i \in I \ stop : next[i] \in I /\ m[next[i]] < m[i],
           NEW k \in Nat, NEW f, Recursive(f, Below(I, m, k), V, stop, base, next, step)
    PROVE  \E g : Recursive(g, Below(I, m, k + 1), V, stop, base, next, step)
<1> DEFINE g == [i \in Below(I, m, k + 1) |->
                   IF i \in stop THEN base[i] ELSE step[i][f[next[i]]]]
<1>1. \A i \in Below(I, m, k + 1) \ stop : next[i] \in Below(I, m, k)
  BY DEF Below
<1>2. g \in [Below(I, m, k + 1) -> V]
  <2> SUFFICES ASSUME NEW i \in Below(I, m, k + 1)
               PROVE  (IF i \in stop THEN base[i] ELSE step[i][f[next[i]]]) \in V
    OBVIOUS
  <2>1. i \in I
    BY DEF Below
  <2> QED BY <1>1, <2>1 DEF Recursive
<1>3. \A i \in Below(I, m, k) : i \in Below(I, m, k + 1) /\ g[i] = f[i]
  BY DEF Below, Recursive
<1>4. \A i \in Below(I, m, k + 1) : g[i] = IF i \in stop THEN base[i] ELSE step[i][g[next[i]]]
  BY <1>1, <1>3
<1> QED BY <1>2, <1>4 DEF Recursive

LEMMA Recursion ==
    ASSUME NEW I, NEW m \in [I -> Nat], NEW V, NEW stop, NEW base \in [I -> V],
           NEW next, NEW step \in [I -> [V -> V]],
           \A i \in I \ stop : next[i] \in I /\ m[next[i]] < m[i],
           NEW n \in Nat, \A i \in I : m[i] < n
    PROVE  \E f : Recursive(f, I, V, stop, base, next, step)
<1> DEFINE R(f, k) == Recursive(f, Below(I, m, k), V, stop, base, next, step)
           T == {k \in Nat : ~\E f : R(f, k)}
<1>1. T = {}
  <2> SUFFICES ASSUME T # {} PROVE FALSE
    OBVIOUS
  <2>1. PICK k \in T : \A j \in T : ~(j < k)
    <3>1. T \subseteq Nat
      OBVIOUS
    <3> HIDE DEF T
    <3> QED BY <3>1, LeastNumber
  <2>2. CASE k = 0
    <3>1. Below(I, m, 0) = {}
      BY DEF Below
    <3>2. R([i \in {} |-> 0], 0)
      BY <3>1 DEF Recursive
    <3> QED BY <2>2, <3>2
  <2>3. CASE k # 0
    <3>1. k - 1 \in Nat /\ k - 1 \notin T /\ (k - 1) + 1 = k
      BY <2>1, <2>3
    <3>2. PICK f : R(f, k - 1)
      BY <3>1
    <3> QED BY <3>1, <3>2, RecursionGrows
  <2> QED BY <2>2, <2>3
<1>2. Below(I, m, n) = I
  BY DEF Below
<1> QED BY <1>1, <1>2

-----------------------------------------------------------------------------
\* parseDigits: what the loop adds up from the left is the sum of the digits by
\* their places

DigitAt(d, i) == d[i] \in Digit

LEMMA ValueType == \A c \in Digit : Value(c) \in Nat
BY DEF Digit, Value

\* v[i] is the value of the digits from a to i
ValTable(v, d, a, b) ==
    /\ v \in [a - 1..b -> Nat]
    /\ v[a - 1] = 0
    /\ \A i \in a..b : v[i] = 10 * v[i - 1] + Value(d[i])

LEMMA ValExists ==
    ASSUME NEW d, NEW a \in Nat \ {0}, NEW b \in Nat, b >= a - 1,
           \A i \in a..b : DigitAt(d, i)
    PROVE  \E v : /\ v = [i \in a - 1..b |-> IF i < a THEN 0 ELSE 10 * v[i - 1] + Value(d[i])]
                  /\ Parsed(d, a, b) = v[b]
<1> DEFINE I == a - 1..b
           m == [i \in I |-> i]
           stop == {a - 1}
           base == [i \in I |-> 0]
           next == [i \in I |-> i - 1]
           step == [i \in I |-> [w \in Nat |-> IF i < a THEN 0 ELSE 10 * w + Value(d[i])]]
           P(f) == f = [i \in a - 1..b |-> IF i < a THEN 0 ELSE 10 * f[i - 1] + Value(d[i])]
<1>1. \E f : Recursive(f, I, Nat, stop, base, next, step)
  <2>1. m \in [I -> Nat] /\ base \in [I -> Nat] /\ b + 1 \in Nat /\ \A i \in I : m[i] < b + 1
    OBVIOUS
  <2>2. step \in [I -> [Nat -> Nat]]
    <3> SUFFICES ASSUME NEW i \in I, NEW w \in Nat
                 PROVE  (IF i < a THEN 0 ELSE 10 * w + Value(d[i])) \in Nat
      OBVIOUS
    <3>1. CASE i < a
      BY <3>1
    <3>2. CASE ~(i < a)
      <4>1. Value(d[i]) \in Nat
        BY <3>2, ValueType DEF DigitAt
      <4> QED BY <3>2, <4>1
    <3> QED BY <3>1, <3>2
  <2>3. \A i \in I \ stop : next[i] \in I /\ m[next[i]] < m[i]
    OBVIOUS
  <2> HIDE DEF I, m, stop, base, next, step
  <2> QED BY <2>1, <2>2, <2>3, Recursion
<1>2. PICK f : Recursive(f, I, Nat, stop, base, next, step)
  BY <1>1
<1>3. P(f)
  <2>1. f \in [I -> Nat]
    BY <1>2 DEF Recursive
  <2>2. ASSUME NEW i \in I
        PROVE  f[i] = IF i < a THEN 0 ELSE 10 * f[i - 1] + Value(d[i])
    <3>1. f[i] = IF i \in stop THEN base[i] ELSE step[i][f[next[i]]]
      BY <1>2 DEF Recursive
    <3>2. CASE i < a
      BY <3>1, <3>2
    <3>3. CASE ~(i < a)
      <4>1. i \notin stop /\ next[i] = i - 1 /\ f[i - 1] \in Nat
        BY <2>1, <3>3
      <4>2. f[i] = step[i][f[i - 1]]
        BY <3>1, <4>1
      <4> QED BY <3>3, <4>1, <4>2
    <3> QED BY <3>2, <3>3
  <2> QED BY <2>1, <2>2
<1>4. P(CHOOSE f_1 : P(f_1))
  BY <1>3, Zenon
<1>5. Parsed(d, a, b) = (CHOOSE f_1 : P(f_1))[b]
  BY DEF Parsed
<1> QED BY Zenon, <1>4, <1>5

LEMMA ValTableOf ==
    ASSUME NEW d, NEW a \in Nat \ {0}, NEW b \in Nat, b >= a - 1,
           \A i \in a..b : DigitAt(d, i)
    PROVE  \E v : ValTable(v, d, a, b) /\ Parsed(d, a, b) = v[b]
<1>1. PICK v : /\ v = [i \in a - 1..b |-> IF i < a THEN 0 ELSE 10 * v[i - 1] + Value(d[i])]
               /\ Parsed(d, a, b) = v[b]
  BY ValExists
<1> DEFINE I == a - 1..b
           m == [i \in I |-> i]
           S == {i \in I : v[i] \in Nat}
<1>2. \A i \in I : v[i] = IF i < a THEN 0 ELSE 10 * v[i - 1] + Value(d[i])
  BY <1>1
<1>3. I \subseteq S
  <2>1. ASSUME NEW i \in I PROVE Inherits(I, m, S, i)
    <3> SUFFICES ASSUME \A j \in I : m[j] < m[i] => j \in S PROVE v[i] \in Nat
      BY DEF Inherits
    <3>1. CASE i < a
      BY <1>2, <3>1
    <3>2. CASE ~(i < a)
      <4>1. v[i - 1] \in Nat /\ Value(d[i]) \in Nat
        BY <3>2, ValueType DEF DigitAt
      <4> QED BY <1>2, <3>2, <4>1
    <3> QED BY <3>1, <3>2
  <2>2. m \in [I -> Nat]
    OBVIOUS
  <2> HIDE DEF I, m, S
  <2> QED BY <2>1, <2>2, MeasureInduction
<1>4. v \in [I -> Nat]
  <2>1. v = [i \in I |-> v[i]]
    BY <1>1
  <2> QED BY <1>3, <2>1
<1>5. v[a - 1] = 0 /\ \A i \in a..b : v[i] = 10 * v[i - 1] + Value(d[i])
  BY <1>2
<1> QED BY <1>1, <1>4, <1>5 DEF ValTable

\* u[i] is the sum of the digits from i on, and the value of the place before
Added(u, d, i) == <<u[1] + Value(d[i]) * u[2], 10 * u[2]>>
SumTable(u, d, a, b) ==
    /\ u \in [a..b + 1 -> Nat \X Nat]
    /\ u[b + 1] = <<0, 1>>
    /\ \A i \in a..b : u[i] = Added(u[i + 1], d, i)

LEMMA AddedType ==
    ASSUME NEW d, NEW i, DigitAt(d, i), NEW w \in Nat \X Nat
    PROVE  Added(w, d, i) \in Nat \X Nat
<1>1. PICK x \in Nat, y \in Nat : w = <<x, y>>
  OBVIOUS
<1>2. PICK c \in Nat : Value(d[i]) = c
  BY ValueType DEF DigitAt
<1>3. c * y \in Nat
  OBVIOUS
<1> QED BY <1>1, <1>2, <1>3 DEF Added

\* What the recursive definition in Number says of its function
SumEquation(u, d, a, b) ==
    u = [i \in a..b + 1 |-> IF i > b THEN <<0, 1>> ELSE Added(u[i + 1], d, i)]

LEMMA SumExists ==
    ASSUME NEW d, NEW a \in Nat \ {0}, NEW b \in Nat, b >= a - 1,
           \A i \in a..b : DigitAt(d, i)
    PROVE  \E u : SumEquation(u, d, a, b) /\ Number(d, a, b) = u[a][1]
<1> DEFINE I == a..b + 1
           V == Nat \X Nat
           m == [i \in I |-> b + 1 - i]
           stop == {b + 1}
           base == [i \in I |-> <<0, 1>>]
           next == [i \in I |-> i + 1]
           step == [i \in I |-> [w \in V |-> IF i > b THEN <<0, 1>> ELSE Added(w, d, i)]]
           P(f) == f = [i \in a..b + 1 |->
                          IF i > b THEN <<0, 1>>
                          ELSE <<f[i + 1][1] + Value(d[i]) * f[i + 1][2], 10 * f[i + 1][2]>>]
<1>1. \E f : Recursive(f, I, V, stop, base, next, step)
  <2>1. m \in [I -> Nat] /\ base \in [I -> V] /\ b + 2 \in Nat /\ \A i \in I : m[i] < b + 2
    OBVIOUS
  <2>2. step \in [I -> [V -> V]]
    <3> SUFFICES ASSUME NEW i \in I, NEW w \in V
                 PROVE  (IF i > b THEN <<0, 1>> ELSE Added(w, d, i)) \in V
      OBVIOUS
    <3> QED BY AddedType
  <2>3. \A i \in I \ stop : next[i] \in I /\ m[next[i]] < m[i]
    OBVIOUS
  <2> HIDE DEF I, V, m, stop, base, next, step
  <2> QED BY <2>1, <2>2, <2>3, Recursion
<1>2. PICK f : Recursive(f, I, V, stop, base, next, step)
  BY <1>1
<1>3. P(f)
  <2>1. f \in [I -> V]
    BY <1>2 DEF Recursive
  <2>2. ASSUME NEW i \in I
        PROVE  f[i] = IF i > b THEN <<0, 1>> ELSE Added(f[i + 1], d, i)
    <3>1. f[i] = IF i \in stop THEN base[i] ELSE step[i][f[next[i]]]
      BY <1>2 DEF Recursive
    <3>2. CASE i > b
      BY <3>1, <3>2
    <3>3. CASE ~(i > b)
      <4>1. i \notin stop /\ next[i] = i + 1 /\ f[i + 1] \in V
        BY <2>1, <3>3
      <4>2. f[i] = step[i][f[i + 1]]
        BY <3>1, <4>1
      <4> QED BY <3>3, <4>1, <4>2
    <3> QED BY <3>2, <3>3
  <2> QED BY <2>1, <2>2 DEF Added
<1>4. P(CHOOSE f_1 : P(f_1))
  BY <1>3, Zenon
<1>5. Number(d, a, b) = (CHOOSE f_1 : P(f_1))[a][1]
  BY DEF Number
<1> QED BY Zenon, <1>4, <1>5 DEF SumEquation, Added

LEMMA SumTableOf ==
    ASSUME NEW d, NEW a \in Nat \ {0}, NEW b \in Nat, b >= a - 1,
           \A i \in a..b : DigitAt(d, i)
    PROVE  \E u : SumTable(u, d, a, b) /\ Number(d, a, b) = u[a][1]
<1>1. PICK u : SumEquation(u, d, a, b) /\ Number(d, a, b) = u[a][1]
  BY SumExists
<1> DEFINE I == a..b + 1
           m == [i \in I |-> b + 1 - i]
           S == {i \in I : u[i] \in Nat \X Nat}
<1>2. \A i \in I : u[i] = IF i > b THEN <<0, 1>> ELSE Added(u[i + 1], d, i)
  BY <1>1 DEF SumEquation
<1>3. I \subseteq S
  <2>1. ASSUME NEW i \in I PROVE Inherits(I, m, S, i)
    <3> SUFFICES ASSUME \A j \in I : m[j] < m[i] => j \in S PROVE u[i] \in Nat \X Nat
      BY DEF Inherits
    <3>1. CASE i > b
      BY <1>2, <3>1
    <3>2. CASE ~(i > b)
      <4>1. u[i + 1] \in Nat \X Nat
        BY <3>2
      <4>2. Added(u[i + 1], d, i) \in Nat \X Nat
        BY <3>2, <4>1, AddedType
      <4> QED BY <1>2, <3>2, <4>2
    <3> QED BY <3>1, <3>2
  <2>2. m \in [I -> Nat]
    OBVIOUS
  <2> HIDE DEF I, m, S
  <2> QED BY <2>1, <2>2, MeasureInduction
<1>4. u \in [I -> Nat \X Nat]
  <2>1. u = [i \in I |-> u[i]]
    BY <1>1 DEF SumEquation
  <2> QED BY <1>3, <2>1
<1>5. u[b + 1] = <<0, 1>> /\ \A i \in a..b : u[i] = Added(u[i + 1], d, i)
  BY <1>2
<1> QED BY <1>1, <1>4, <1>5 DEF SumTable

LEMMA HornerStep ==
    ASSUME NEW v \in Nat, NEW c \in Nat, NEW x \in Nat, NEW y \in Nat
    PROVE  (10 * v + c) * y + x = v * (10 * y) + (x + c * y)
OBVIOUS

\* Both count the same number
LEMMA ParsedIsNumber ==
    ASSUME NEW d, NEW a \in Nat \ {0}, NEW b \in Nat, b >= a - 1,
           \A i \in a..b : DigitAt(d, i)
    PROVE  Parsed(d, a, b) = Number(d, a, b) /\ Parsed(d, a, b) \in Nat
<1>1. PICK v : ValTable(v, d, a, b) /\ Parsed(d, a, b) = v[b]
  BY ValTableOf
<1>2. PICK u : SumTable(u, d, a, b) /\ Number(d, a, b) = u[a][1]
  BY SumTableOf
<1> DEFINE I == a - 1..b
           m == [i \in I |-> i]
           S == {i \in I : v[i] * u[i + 1][2] + u[i + 1][1] = u[a][1]}
<1>3. I \subseteq S
  <2>1. ASSUME NEW i \in I PROVE Inherits(I, m, S, i)
    <3> SUFFICES ASSUME \A j \in I : m[j] < m[i] => j \in S
                 PROVE  v[i] * u[i + 1][2] + u[i + 1][1] = u[a][1]
      BY DEF Inherits
    <3>1. PICK x \in Nat, y \in Nat : u[i + 1] = <<x, y>>
      <4>1. i + 1 \in a..b + 1
        OBVIOUS
      <4> QED BY <1>2, <4>1 DEF SumTable
    <3>2. CASE i = a - 1
      <4>1. v[i] = 0 /\ i + 1 = a
        BY <1>1, <3>2 DEF ValTable
      <4> QED BY <3>1, <4>1
    <3>3. CASE i # a - 1
      <4>1. i \in a..b /\ i - 1 \in I /\ (i - 1) + 1 = i
        BY <3>3
      <4>2. PICK w \in Nat, c \in Nat : v[i - 1] = w /\ Value(d[i]) = c
        BY <1>1, <4>1, ValueType DEF ValTable, DigitAt
      <4>3. v[i] = 10 * w + c
        BY <1>1, <4>1, <4>2 DEF ValTable
      <4>4. u[i] = <<x + c * y, 10 * y>>
        <5>1. u[i] = Added(u[i + 1], d, i)
          BY <1>2, <4>1 DEF SumTable
        <5> QED BY <3>1, <4>2, <5>1 DEF Added
      <4>5. w * (10 * y) + (x + c * y) = u[a][1]
        <5>1. i - 1 \in S
          BY <4>1
        <5> QED BY <4>1, <4>2, <4>4, <5>1
      <4> QED BY <3>1, <4>3, <4>5, HornerStep
    <3> QED BY <3>2, <3>3
  <2>2. m \in [I -> Nat]
    OBVIOUS
  <2> HIDE DEF I, m, S
  <2> QED BY <2>1, <2>2, MeasureInduction
<1>4. v[b] \in Nat /\ u[b + 1] = <<0, 1>> /\ b \in S
  BY <1>1, <1>2, <1>3 DEF ValTable, SumTable
<1> QED BY <1>1, <1>2, <1>4

-----------------------------------------------------------------------------
\* Where the digits end

LEMMA Within == \A d \in Seq(Bytes) : Len(d) \in Nat
OBVIOUS

LEMMA AtDigit ==
    ASSUME NEW d, NEW i
    PROVE  /\ At(d, i) \in Digit => i <= Len(d) /\ DigitAt(d, i)
           /\ i <= Len(d) /\ DigitAt(d, i) => At(d, i) \in Digit
BY DEF At, Digit, DigitAt

LEMMA AtOther ==
    ASSUME NEW d, NEW i, At(d, i) # ""
    PROVE  i <= Len(d) /\ d[i] = At(d, i)
BY DEF At

LEMMA NoDigitAfter == ASSUME NEW d \in Seq(Bytes), NEW i \in Nat, i > Len(d) PROVE At(d, i) \notin Digit
BY DEF At, Digit

LEMMA NoDigitIs ==
    ASSUME NEW d \in Seq(Bytes), NEW a \in 1..Len(d) + 1
    PROVE  /\ NoDigit(d, a) \in a..Len(d) + 1
           /\ At(d, NoDigit(d, a)) \notin Digit
           /\ \A i \in a..NoDigit(d, a) - 1 : i \in 1..Len(d) /\ DigitAt(d, i)
<1> DEFINE T == {i \in a..Len(d) + 1 : At(d, i) \notin Digit}
<1>1. T \subseteq Nat /\ T # {}
  <2>1. Len(d) + 1 \in T
    BY NoDigitAfter
  <2> QED BY <2>1
<1>2. PICK k \in T : \A j \in T : ~(j < k)
  <2> HIDE DEF T
  <2> QED BY <1>1, LeastNumber
<1>3. \A j \in T : k <= j
  BY <1>1, <1>2
<1>4. Min(T) \in T /\ \A j \in T : Min(T) <= j
  <2> HIDE DEF T
  <2> QED BY <1>3 DEF Min
<1>5. NoDigit(d, a) = Min(T)
  BY DEF NoDigit
<1>6. ASSUME NEW i \in a..NoDigit(d, a) - 1
      PROVE  i \in 1..Len(d) /\ DigitAt(d, i)
  <2>1. PICK n, m : n = Len(d) /\ m = NoDigit(d, a) /\ n \in Nat /\ m \in a..n + 1
    BY <1>4, <1>5, Within
  <2>2. i \in 1..n /\ i \in a..n + 1 /\ ~(m <= i)
    BY <2>1
  <2>3. At(d, i) \in Digit
    BY <1>4, <1>5, <2>1, <2>2
  <2> QED BY <2>1, <2>2, <2>3, AtDigit
<1> QED BY <1>4, <1>5, <1>6

LEMMA NoDigitOnly ==
    ASSUME NEW d \in Seq(Bytes), NEW a \in 1..Len(d) + 1, NEW e \in a..Len(d) + 1,
           At(d, e) \notin Digit, \A i \in a..e - 1 : DigitAt(d, i)
    PROVE  NoDigit(d, a) = e
<1>1. PICK n \in a..Len(d) + 1 : n = NoDigit(d, a)
  BY NoDigitIs
<1>2. At(d, n) \notin Digit /\ \A i \in a..n - 1 : DigitAt(d, i)
  BY <1>1, NoDigitIs
<1>3. PICK k : k = Len(d) /\ k \in Nat /\ a \in 1..k + 1 /\ n \in a..k + 1 /\ e \in a..k + 1
  BY Within
<1>4. ASSUME n < e PROVE FALSE
  <2>1. n <= k /\ n \in a..e - 1
    BY <1>3, <1>4
  <2> QED BY <1>2, <1>3, <2>1, AtDigit
<1>5. ASSUME e < n PROVE FALSE
  <2>1. e <= k /\ e \in a..n - 1
    BY <1>3, <1>5
  <2> QED BY <1>2, <1>3, <2>1, AtDigit
<1>6. n = e
  BY <1>3, <1>4, <1>5
<1> QED BY <1>1, <1>6

-----------------------------------------------------------------------------
\* What is read at a position is a well-formed sequence there

\* The last position of the end of a sequence at t
EndAt(d, i, t) ==
    IF At(d, t) = "BEL" THEN t
    ELSE IF At(d, t) = "ESC" /\ At(d, t + 1) = "\\" THEN t + 1 ELSE i

Reported(d, i, s, t) ==
    [state |-> Number(d, i + 6, s - 1), value |-> Min({100, Number(d, s + 1, t - 1)})]

WellFormedAt(d, i, s, t) == s \in i..Len(d) /\ t \in i..Len(d) /\ WellFormed(d, i, s, t)

\* The conditions of the code, with where the digits end
ReadAt(d, i, s, t) ==
    /\ HasPrefix(d, i)
    /\ At(d, i + 6) \in Digit /\ Parsed(d, i + 6, s - 1) <= 4
    /\ At(d, s) = ";" /\ At(d, s + 1) \in Digit
    /\ EndAt(d, i, t) # i

LEMMA SequenceIs ==
    ASSUME NEW d, NEW i, NEW s, NEW t, s = NoDigit(d, i + 6), t = NoDigit(d, s + 1)
    PROVE  Sequence(d, i) =
             IF ReadAt(d, i, s, t)
             THEN <<[state |-> Parsed(d, i + 6, s - 1),
                     value |-> IF Parsed(d, s + 1, t - 1) > 100 THEN 100
                               ELSE Parsed(d, s + 1, t - 1)], EndAt(d, i, t)>>
             ELSE <<NoInfo, i>>
BY DEF Sequence, Digits, ReadAt, EndAt

LEMMA MinOfTwo == \A n \in Nat : Min({100, n}) = IF n > 100 THEN 100 ELSE n
<1> SUFFICES ASSUME NEW n \in Nat PROVE Min({100, n}) = IF n > 100 THEN 100 ELSE n
  OBVIOUS
<1>1. PICK k \in {100, n} : k = IF n > 100 THEN 100 ELSE n
  OBVIOUS
<1>2. \A y \in {100, n} : k <= y
  BY <1>1
<1>3. \A x \in {100, n} : (\A y \in {100, n} : x <= y) => x = k
  BY <1>1
<1> QED BY <1>1, <1>2, <1>3 DEF Min

LEMMA MinAtMost100 == \A n \in Nat : Min({100, n}) \in 0..100
<1> SUFFICES ASSUME NEW n \in Nat PROVE Min({100, n}) \in 0..100
  OBVIOUS
<1>1. Min({100, n}) = IF n > 100 THEN 100 ELSE n
  BY MinOfTwo
<1>2. CASE n > 100
  BY <1>1, <1>2
<1>3. CASE n <= 100
  BY <1>1, <1>3
<1> QED BY <1>2, <1>3

\* The positions of a well-formed sequence, and where its digits end
LEMMA WellFormedEnds ==
    ASSUME NEW d \in Seq(Bytes), NEW i \in Nat \ {0}, NEW s, NEW t, WellFormedAt(d, i, s, t)
    PROVE  /\ s \in Nat /\ t \in Nat /\ i + 6 < s /\ s + 1 < t /\ t <= Len(d)
           /\ s = NoDigit(d, i + 6) /\ t = NoDigit(d, s + 1)
           /\ \A j \in i + 6..s - 1 : DigitAt(d, j)
           /\ \A j \in s + 1..t - 1 : DigitAt(d, j)
<1>1. PICK n : n = Len(d) /\ n \in Nat
  BY Within
<1>2. s \in i..n /\ t \in i..n /\ s > i + 6 /\ t > s + 1
  BY <1>1 DEF WellFormedAt, WellFormed
<1>3. s \in Nat /\ t \in Nat /\ i + 6 < s /\ s + 1 < t /\ t <= n
  BY <1>1, <1>2
<1>4. \A j \in (i + 6..t - 1) \ {s} : DigitAt(d, j)
  BY DEF WellFormedAt, WellFormed, DigitAt
<1>5. /\ \A j \in i + 6..s - 1 : DigitAt(d, j)
      /\ \A j \in s + 1..t - 1 : DigitAt(d, j)
  BY <1>3, <1>4
<1>6. At(d, s) \notin Digit
  BY <1>1, <1>3 DEF WellFormedAt, WellFormed, At, Digit
<1>7. At(d, t) \notin Digit
  BY DEF WellFormedAt, WellFormed, Digit
<1>8. /\ i + 6 \in 1..n + 1 /\ s \in i + 6..n + 1
      /\ s + 1 \in 1..n + 1 /\ t \in s + 1..n + 1
  BY <1>1, <1>3
<1>9. s = NoDigit(d, i + 6)
  BY <1>1, <1>5, <1>6, <1>8, NoDigitOnly
<1>10. t = NoDigit(d, s + 1)
  BY <1>1, <1>5, <1>7, <1>8, NoDigitOnly
<1> QED BY <1>1, <1>3, <1>5, <1>9, <1>10

LEMMA WellFormedIsRead ==
    ASSUME NEW d \in Seq(Bytes), NEW i \in Nat \ {0}, NEW s, NEW t, WellFormedAt(d, i, s, t)
    PROVE  /\ ReadAt(d, i, s, t)
           /\ Sequence(d, i) = <<Reported(d, i, s, t), EndAt(d, i, t)>>
           /\ EndAt(d, i, t) \in t..Len(d)
<1>1. /\ s \in Nat /\ t \in Nat /\ i + 6 < s /\ s + 1 < t /\ t <= Len(d)
      /\ s = NoDigit(d, i + 6) /\ t = NoDigit(d, s + 1)
      /\ \A j \in i + 6..s - 1 : DigitAt(d, j)
      /\ \A j \in s + 1..t - 1 : DigitAt(d, j)
  BY WellFormedEnds
<1>2. PICK n : n = Len(d) /\ n \in Nat /\ t <= n
  BY <1>1, Within
<1>3. /\ Parsed(d, i + 6, s - 1) = Number(d, i + 6, s - 1)
      /\ Parsed(d, s + 1, t - 1) = Number(d, s + 1, t - 1) /\ Parsed(d, s + 1, t - 1) \in Nat
  <2>1. i + 6 \in Nat \ {0} /\ s - 1 \in Nat /\ s - 1 >= (i + 6) - 1
    BY <1>1
  <2>2. s + 1 \in Nat \ {0} /\ t - 1 \in Nat /\ t - 1 >= (s + 1) - 1
    BY <1>1
  <2> QED BY <1>1, <2>1, <2>2, ParsedIsNumber
<1>4. \/ At(d, t) = "BEL" /\ EndAt(d, i, t) = t
      \/ At(d, t + 1) # "" /\ EndAt(d, i, t) = t + 1
  BY DEF WellFormedAt, WellFormed, EndAt
<1>5. EndAt(d, i, t) \in t..n /\ EndAt(d, i, t) # i
  <2>1. At(d, t + 1) # "" => t + 1 <= n
    BY <1>2, AtOther
  <2>2. PICK e : e = EndAt(d, i, t) /\ (e = t \/ (e = t + 1 /\ t + 1 <= n))
    BY <1>4, <2>1
  <2>3. i \in Nat /\ s \in Nat /\ t \in Nat /\ i + 6 < s /\ s + 1 < t /\ t <= n
    BY <1>1, <1>2
  <2>4. e \in t..n /\ e # i
    BY <1>2, <2>2, <2>3
  <2> QED BY <2>2, <2>4
<1>6. At(d, i + 6) \in Digit /\ At(d, s + 1) \in Digit /\ At(d, s) = ";"
  <2>1. i + 6 \in i + 6..s - 1 /\ s + 1 \in s + 1..t - 1 /\ i + 6 <= n /\ s + 1 <= n /\ s <= n
    BY <1>1, <1>2
  <2>2. d[s] = ";"
    BY DEF WellFormedAt, WellFormed
  <2>3. At(d, s) = ";"
    BY <1>2, <2>1, <2>2 DEF At
  <2> QED BY <1>1, <1>2, <2>1, <2>3, AtDigit
<1>7. ReadAt(d, i, s, t)
  BY <1>3, <1>5, <1>6 DEF WellFormedAt, WellFormed, ReadAt
<1>8. Sequence(d, i) = <<Reported(d, i, s, t), EndAt(d, i, t)>>
  BY <1>1, <1>3, <1>7, SequenceIs, MinOfTwo DEF Reported
<1> QED BY <1>2, <1>5, <1>7, <1>8

LEMMA ReadIsWellFormed ==
    ASSUME NEW d \in Seq(Bytes), NEW i \in Nat \ {0}, NEW s, NEW t,
           s = NoDigit(d, i + 6), t = NoDigit(d, s + 1), ReadAt(d, i, s, t)
    PROVE  WellFormedAt(d, i, s, t)
<1>1. PICK n : n = Len(d) /\ n \in Nat
  BY Within
<1>2. i + 5 <= n /\ i + 6 \in 1..n + 1
  <2>1. HasPrefix(d, i)
    BY DEF ReadAt
  <2>2. i + 5 <= n
    BY <1>1, <2>1 DEF HasPrefix
  <2> QED BY <1>1, <2>2
<1>3. /\ s \in i + 6..n + 1 /\ \A j \in i + 6..s - 1 : DigitAt(d, j)
      /\ At(d, s) \notin Digit
  BY <1>1, <1>2, NoDigitIs
<1>4. s # i + 6 /\ s <= n /\ d[s] = ";"
  BY <1>1, <1>3, AtOther DEF ReadAt
<1>5. s + 1 \in 1..n + 1
  <2>1. s \in i + 6..n + 1 /\ s <= n
    BY <1>3, <1>4
  <2> QED BY <1>1, <2>1
<1>6. /\ t \in s + 1..n + 1 /\ \A j \in s + 1..t - 1 : DigitAt(d, j)
      /\ At(d, t) \notin Digit
  BY <1>1, <1>5, NoDigitIs
<1>7. t # s + 1
  BY <1>6 DEF ReadAt
<1>8. At(d, t) = "BEL" \/ (At(d, t) = "ESC" /\ At(d, t + 1) = "\\")
  BY DEF ReadAt, EndAt
<1>9. t <= n
  BY <1>1, <1>8, AtOther
<1>10. s \in Nat /\ t \in Nat /\ s > i + 6 /\ t > s + 1 /\ s \in i..n /\ t \in i..n
  <2>1. s \in i + 6..n + 1 /\ s # i + 6 /\ s <= n /\ t \in s + 1..n + 1 /\ t # s + 1 /\ t <= n
    BY <1>3, <1>4, <1>6, <1>7, <1>9
  <2> QED BY <1>1, <2>1
<1>11. Number(d, i + 6, s - 1) <= 4
  <2>1. i + 6 \in Nat \ {0} /\ s - 1 \in Nat /\ s - 1 >= (i + 6) - 1
    BY <1>10
  <2>2. Parsed(d, i + 6, s - 1) = Number(d, i + 6, s - 1)
    BY <1>3, <2>1, ParsedIsNumber
  <2> QED BY <2>2 DEF ReadAt
<1>12. \A j \in (i + 6..t - 1) \ {s} : j \in i + 6..s - 1 \/ j \in s + 1..t - 1
  BY <1>10
<1>13. \A j \in (i + 6..t - 1) \ {s} : d[j] \in Digit
  BY <1>3, <1>6, <1>12 DEF DigitAt
<1>14. HasPrefix(d, i)
  BY DEF ReadAt
<1> QED BY <1>1, <1>4, <1>8, <1>10, <1>11, <1>13, <1>14 DEF WellFormedAt, WellFormed

-----------------------------------------------------------------------------
\* The scan, from each position on

LEMMA PrefixIs ==
    ASSUME NEW d \in Seq(Bytes), NEW i \in Nat \ {0}, HasPrefix(d, i)
    PROVE  /\ i + 5 <= Len(d) /\ d[i] = "ESC" /\ d[i + 1] = "]"
           /\ \A j \in i + 1..i + 5 : d[j] # "ESC"
<1> DEFINE p == SubSeq(d, i, i + 5)
<1>1. i + 5 <= Len(d) /\ p = Prefix
  BY DEF HasPrefix
<1>2. \A k \in 1..6 : p[k] = d[i + k - 1]
  BY <1>1
<1> HIDE DEF p
<1>3. /\ p[1] = "ESC" /\ p[2] = "]" /\ p[3] = "9" /\ p[4] = ";" /\ p[5] = "4" /\ p[6] = ";"
  BY <1>1 DEF Prefix
<1>4. /\ p[1] = d[i] /\ p[2] = d[i + 1] /\ p[3] = d[i + 2]
      /\ p[4] = d[i + 3] /\ p[5] = d[i + 4] /\ p[6] = d[i + 5]
  BY <1>2
<1>5. \A j \in i + 1..i + 5 : j = i + 1 \/ j = i + 2 \/ j = i + 3 \/ j = i + 4 \/ j = i + 5
  OBVIOUS
<1> QED BY <1>1, <1>3, <1>4, <1>5

LEMMA InfosIs ==
    ASSUME NEW d, NEW i, NEW x
    PROVE  x \in Infos(d, i) <=> \E s, t : WellFormedAt(d, i, s, t) /\ x = Reported(d, i, s, t)
<1>1. ASSUME x \in Infos(d, i)
      PROVE  \E s, t : WellFormedAt(d, i, s, t) /\ x = Reported(d, i, s, t)
  <2>1. PICK p \in (i..Len(d)) \X (i..Len(d)) :
               WellFormed(d, i, p[1], p[2]) /\ x = Reported(d, i, p[1], p[2])
    BY <1>1 DEF Infos, Reported
  <2> QED BY <2>1 DEF WellFormedAt
<1>2. ASSUME NEW s, NEW t, WellFormedAt(d, i, s, t), x = Reported(d, i, s, t)
      PROVE  x \in Infos(d, i)
  <2>1. PICK p : /\ p \in (i..Len(d)) \X (i..Len(d)) /\ p[1] = s /\ p[2] = t
                 /\ WellFormed(d, i, p[1], p[2])
    <3>1. <<s, t>> \in (i..Len(d)) \X (i..Len(d)) /\ WellFormed(d, i, s, t)
      BY <1>2 DEF WellFormedAt
    <3> QED BY <3>1
  <2> QED BY <1>2, <2>1 DEF Infos, Reported
<1> QED BY <1>1, <1>2

\* Somewhere a well-formed sequence starts
Starts(d, i) == \E s, t : WellFormedAt(d, i, s, t)

LEMMA StartIs ==
    ASSUME NEW d \in Seq(Bytes), NEW i \in Nat \ {0}, Starts(d, i)
    PROVE  i + 9 <= Len(d) /\ d[i] = "ESC" /\ d[i + 1] = "]"
<1>1. PICK s, t : WellFormedAt(d, i, s, t)
  BY DEF Starts
<1>2. s \in Nat /\ t \in Nat /\ i + 6 < s /\ s + 1 < t /\ t <= Len(d)
  BY <1>1, WellFormedEnds
<1>3. HasPrefix(d, i)
  BY <1>1 DEF WellFormedAt, WellFormed
<1>4. i + 9 <= Len(d)
  <2>1. PICK n : n = Len(d) /\ n \in Nat
    BY Within
  <2> QED BY <1>2, <2>1
<1> QED BY <1>3, <1>4, PrefixIs

\* A sequence that is read hides no other
LEMMA NothingHidden ==
    ASSUME NEW d \in Seq(Bytes), NEW i \in Nat \ {0}, NEW s, NEW t, WellFormedAt(d, i, s, t),
           NEW j \in i + 1..EndAt(d, i, t)
    PROVE  ~Starts(d, j)
<1>1. /\ s \in Nat /\ t \in Nat /\ i + 6 < s /\ s + 1 < t /\ t <= Len(d)
      /\ \A k \in i + 6..s - 1 : DigitAt(d, k)
      /\ \A k \in s + 1..t - 1 : DigitAt(d, k)
  BY WellFormedEnds
<1>2. HasPrefix(d, i) /\ d[s] = ";"
  BY DEF WellFormedAt, WellFormed
<1>3. /\ At(d, t) = "BEL" \/ (At(d, t) = "ESC" /\ At(d, t + 1) = "\\")
      /\ EndAt(d, i, t) = IF At(d, t) = "BEL" THEN t ELSE t + 1
  BY DEF WellFormedAt, WellFormed, EndAt
<1>4. \/ j \in i + 1..i + 5 \/ j \in i + 6..s - 1 \/ j = s \/ j \in s + 1..t - 1
      \/ j = t \/ (j = t + 1 /\ At(d, t) # "BEL")
  <2>1. PICK e : e = EndAt(d, i, t) /\ (e = t \/ (e = t + 1 /\ At(d, t) # "BEL"))
    BY <1>3
  <2>2. s \in Nat /\ t \in Nat /\ i + 6 < s /\ s + 1 < t
    BY <1>1
  <2>3. j \in i + 1..e
    BY <2>1
  <2> QED BY <2>1, <2>2, <2>3
<1> SUFFICES ASSUME Starts(d, j) PROVE FALSE
  OBVIOUS
<1>5. j \in Nat \ {0}
  <2>1. PICK e : e = EndAt(d, i, t) /\ j \in i + 1..e
    OBVIOUS
  <2> QED BY <2>1
<1>6. d[j] = "ESC" /\ d[j + 1] = "]"
  BY <1>5, StartIs
<1>7. CASE j \in i + 1..i + 5
  BY <1>2, <1>6, <1>7, PrefixIs
<1>8. CASE j \in i + 6..s - 1 \/ j = s \/ j \in s + 1..t - 1
  BY <1>1, <1>2, <1>6, <1>8 DEF DigitAt, Digit
<1>9. CASE j = t
  <2>1. CASE At(d, t) = "BEL"
    BY <1>6, <1>9, <2>1, AtOther
  <2>2. CASE At(d, t + 1) = "\\"
    BY <1>6, <1>9, <2>2, AtOther
  <2> QED BY <1>3, <2>1, <2>2
<1>10. CASE j = t + 1 /\ At(d, t) # "BEL"
  <2>1. At(d, t + 1) = "\\"
    BY <1>3, <1>10
  <2> QED BY <1>6, <1>10, <2>1, AtOther
<1> QED BY <1>4, <1>7, <1>8, <1>9, <1>10

\* x is what is to be returned of the output from i on
LastFrom(d, i, x) ==
    \/ x = NoInfo /\ \A j \in i..Len(d) : ~Starts(d, j)
    \/ \E k \in i..Len(d) : x \in Infos(d, k) /\ \A j \in k + 1..Len(d) : ~Starts(d, j)

LEMMA InfosType ==
    ASSUME NEW d \in Seq(Bytes), NEW i \in Nat \ {0}
    PROVE  Infos(d, i) \subseteq Info
<1> SUFFICES ASSUME NEW s, NEW t, WellFormedAt(d, i, s, t)
             PROVE  Reported(d, i, s, t) \in Info
  BY InfosIs
<1>1. /\ s \in Nat /\ t \in Nat /\ i + 6 < s /\ s + 1 < t
      /\ \A j \in i + 6..s - 1 : DigitAt(d, j)
      /\ \A j \in s + 1..t - 1 : DigitAt(d, j)
  BY WellFormedEnds
<1>2. Number(d, i + 6, s - 1) \in Nat /\ Number(d, s + 1, t - 1) \in Nat
  <2>1. i + 6 \in Nat \ {0} /\ s - 1 \in Nat /\ s - 1 >= (i + 6) - 1
    BY <1>1
  <2>2. s + 1 \in Nat \ {0} /\ t - 1 \in Nat /\ t - 1 >= (s + 1) - 1
    BY <1>1
  <2> QED BY <1>1, <2>1, <2>2, ParsedIsNumber
<1>3. Number(d, i + 6, s - 1) \in 0..4
  <2>1. PICK n : n = Number(d, i + 6, s - 1) /\ n \in Nat
    BY <1>2
  <2>2. n <= 4
    BY <2>1 DEF WellFormedAt, WellFormed
  <2> QED BY <2>1, <2>2
<1>4. Min({100, Number(d, s + 1, t - 1)}) \in 0..100
  BY <1>2, MinAtMost100
<1> QED BY <1>3, <1>4 DEF Reported, Info

\* A sequence is read where one starts, and only there
LEMMA SequenceCases ==
    ASSUME NEW d \in Seq(Bytes), NEW i \in 1..Len(d)
    PROVE  \/ ~Starts(d, i) /\ Sequence(d, i) = <<NoInfo, i>>
           \/ \E x \in Infos(d, i), e \in i + 1..Len(d) :
                /\ Sequence(d, i) = <<x, e>>
                /\ \A j \in i + 1..e : ~Starts(d, j)
<1>1. i \in Nat \ {0}
  OBVIOUS
<1>2. CASE Starts(d, i)
  <2>1. PICK s, t : WellFormedAt(d, i, s, t)
    BY <1>2 DEF Starts
  <2>2. /\ Sequence(d, i) = <<Reported(d, i, s, t), EndAt(d, i, t)>>
        /\ EndAt(d, i, t) \in t..Len(d)
    BY <1>1, <2>1, WellFormedIsRead
  <2>3. Reported(d, i, s, t) \in Infos(d, i)
    BY <2>1, InfosIs
  <2>4. \A j \in i + 1..EndAt(d, i, t) : ~Starts(d, j)
    BY <1>1, <2>1, NothingHidden
  <2>5. EndAt(d, i, t) \in i + 1..Len(d)
    <3>1. PICK e, n : e = EndAt(d, i, t) /\ n = Len(d) /\ n \in Nat
      BY Within
    <3>2. s \in Nat /\ t \in Nat /\ i + 6 < s /\ s + 1 < t
      BY <1>1, <2>1, WellFormedEnds
    <3>3. e \in t..n
      BY <2>2, <3>1
    <3>4. e \in i + 1..n
      BY <1>1, <3>1, <3>2, <3>3
    <3> QED BY <3>1, <3>4
  <2> QED BY <2>2, <2>3, <2>4, <2>5
<1>3. CASE ~Starts(d, i)
  <2>1. PICK s, t : s = NoDigit(d, i + 6) /\ t = NoDigit(d, s + 1)
    OBVIOUS
  <2>2. ~ReadAt(d, i, s, t)
    BY <1>1, <1>3, <2>1, ReadIsWellFormed DEF Starts
  <2> QED BY <1>3, <2>1, <2>2, SequenceIs
<1> QED BY <1>2, <1>3

\* What the recursive definition in ParseOsc9_4 says of its function
ScanAt(f, d, i) ==
    IF i > Len(d) THEN NoInfo
    ELSE IF d[i] # "ESC" THEN f[i + 1]
    ELSE IF TooShort(d, i) THEN NoInfo
    ELSE IF f[Sequence(d, i)[2] + 1] = NoInfo THEN Sequence(d, i)[1]
    ELSE f[Sequence(d, i)[2] + 1]
Scan(f, d) == f = [i \in 1..Len(d) + 1 |-> ScanAt(f, d, i)]

LEMMA NextOf ==
    ASSUME NEW d \in Seq(Bytes), NEW i \in 1..Len(d)
    PROVE  /\ Sequence(d, i)[1] \in Info \union {NoInfo}
           /\ Sequence(d, i)[2] \in i..Len(d)
<1>1. CASE Sequence(d, i) = <<NoInfo, i>>
  BY <1>1
<1>2. ASSUME NEW x \in Infos(d, i), NEW e \in i + 1..Len(d), Sequence(d, i) = <<x, e>>
      PROVE  x \in Info /\ e \in i..Len(d)
  <2>1. x \in Info
    BY InfosType
  <2> QED BY <2>1
<1> QED BY <1>1, <1>2, SequenceCases

LEMMA ScanExists ==
    ASSUME NEW d \in Seq(Bytes)
    PROVE  \E f : Scan(f, d) /\ ParseOsc9_4(d) = f[1]
<1>1. PICK n : n = Len(d) /\ n \in Nat
  BY Within
<1> DEFINE I == 1..n + 1
           V == Info \union {NoInfo}
           m == [i \in I |-> n + 1 - i]
           Stops(i) == i > n \/ (d[i] = "ESC" /\ TooShort(d, i))
           After(i) == IF d[i] = "ESC" THEN Sequence(d, i)[2] + 1 ELSE i + 1
           Take(i, w) == IF i <= n /\ d[i] = "ESC" /\ w = NoInfo THEN Sequence(d, i)[1] ELSE w
           stop == {i \in I : Stops(i)}
           base == [i \in I |-> NoInfo]
           next == [i \in I |-> After(i)]
           step == [i \in I |-> [w \in V |-> Take(i, w)]]
<1>2. ASSUME NEW i \in I, i \notin stop
      PROVE  i \in 1..n /\ After(i) \in i + 1..n + 1
  <2>1. i \in 1..n
    BY <1>1, <1>2
  <2>2. Sequence(d, i)[2] \in i..n
    BY <1>1, <2>1, NextOf
  <2>3. PICK e : e = Sequence(d, i)[2] /\ e \in i..n
    BY <2>2
  <2>4. After(i) = e + 1 \/ After(i) = i + 1
    BY <2>3
  <2> HIDE DEF After
  <2> QED BY <1>1, <2>1, <2>3, <2>4
<1>3. \E f : Recursive(f, I, V, stop, base, next, step)
  <2>1. m \in [I -> Nat] /\ base \in [I -> V] /\ n + 1 \in Nat /\ \A i \in I : m[i] < n + 1
    BY <1>1
  <2>2. step \in [I -> [V -> V]]
    <3> SUFFICES ASSUME NEW i \in I, NEW w \in V PROVE Take(i, w) \in V
      OBVIOUS
    <3>1. i <= n => i \in 1..Len(d)
      BY <1>1
    <3> QED BY <3>1, NextOf
  <2>3. \A i \in I \ stop : next[i] \in I /\ m[next[i]] < m[i]
    <3> SUFFICES ASSUME NEW i \in I, i \notin stop PROVE next[i] \in I /\ m[next[i]] < m[i]
      OBVIOUS
    <3>1. PICK j : j = After(i) /\ i \in 1..n /\ j \in i + 1..n + 1
      BY <1>2
    <3>2. next[i] = j
      BY <3>1
    <3>3. j \in I /\ m[j] < m[i]
      BY <1>1, <3>1
    <3> QED BY <3>2, <3>3
  <2> HIDE DEF I, V, m, stop, base, next, step
  <2> QED BY <2>1, <2>2, <2>3, Recursion
<1>4. PICK f : Recursive(f, I, V, stop, base, next, step)
  BY <1>3
<1>5. Scan(f, d)
  <2>1. f \in [I -> V]
    BY <1>4 DEF Recursive
  <2>2. ASSUME NEW i \in I PROVE f[i] = ScanAt(f, d, i)
    <3>1. f[i] = IF i \in stop THEN base[i] ELSE step[i][f[next[i]]]
      BY <1>4 DEF Recursive
    <3>2. CASE i \in stop
      <4>1. f[i] = NoInfo
        BY <3>1, <3>2
      <4>2. i > n \/ (d[i] = "ESC" /\ TooShort(d, i))
        BY <3>2
      <4> QED BY <1>1, <4>1, <4>2 DEF ScanAt
    <3>3. CASE i \notin stop
      <4>1. i \in 1..n /\ After(i) \in I
        BY <1>1, <1>2, <3>3
      <4>2. f[i] = Take(i, f[After(i)])
        BY <2>1, <3>1, <3>3, <4>1
      <4>3. ~(i > Len(d)) /\ ~(d[i] = "ESC" /\ TooShort(d, i))
        BY <1>1, <3>3
      <4>4. ScanAt(f, d, i) = Take(i, f[After(i)])
        BY <1>1, <4>1, <4>3 DEF ScanAt
      <4> QED BY <4>2, <4>4
    <3> QED BY <3>2, <3>3
  <2>3. f = [i \in I |-> ScanAt(f, d, i)]
    <3> HIDE DEF I, V
    <3> QED BY <2>1, <2>2
  <2> QED BY <1>1, <2>3 DEF Scan
<1>6. Scan(CHOOSE f_1 : Scan(f_1, d), d)
  BY <1>5, Zenon
<1>7. ParseOsc9_4(d) = (CHOOSE f_1 : Scan(f_1, d))[1]
  BY DEF ParseOsc9_4, Scan, ScanAt
<1> QED BY Zenon, <1>6, <1>7

LEMMA TooShortIsOver ==
    ASSUME NEW d \in Seq(Bytes), NEW i \in 1..Len(d), TooShort(d, i), NEW j \in i..Len(d)
    PROVE  ~Starts(d, j)
<1>1. PICK n : n = Len(d) /\ n \in Nat
  BY Within
<1>2. j \in Nat \ {0} /\ ~(j + 9 <= n)
  BY <1>1 DEF TooShort
<1> QED BY <1>1, <1>2, StartIs

\* What the rest of the output has is what it has from here on
LEMMA LastFromNext ==
    ASSUME NEW d \in Seq(Bytes), NEW i \in 1..Len(d), NEW e \in i..Len(d), NEW x,
           \A j \in i..e : ~Starts(d, j), LastFrom(d, e + 1, x)
    PROVE  LastFrom(d, i, x)
<1>1. PICK n : n = Len(d) /\ n \in Nat
  BY Within
<1>2. i \in Nat /\ e \in Nat /\ i <= e /\ e <= n
  BY <1>1
<1>3. /\ \A j \in i..n : j \in i..e \/ j \in e + 1..n
      /\ \A k \in e + 1..n : k \in i..n
  BY <1>1, <1>2
<1> QED BY <1>1, <1>3 DEF LastFrom

LEMMA LastFromFound ==
    ASSUME NoInfo \notin Info,
           NEW d \in Seq(Bytes), NEW i \in 1..Len(d), NEW e \in i + 1..Len(d),
           NEW x \in Infos(d, i), \A j \in i + 1..e : ~Starts(d, j),
           NEW r, LastFrom(d, e + 1, r)
    PROVE  LastFrom(d, i, IF r = NoInfo THEN x ELSE r)
<1>1. PICK n : n = Len(d) /\ n \in Nat
  BY Within
<1>2. i \in Nat \ {0} /\ e \in Nat /\ i < e /\ e <= n
  BY <1>1
<1>3. /\ \A j \in i + 1..n : j \in i + 1..e \/ j \in e + 1..n
      /\ \A k \in e + 1..n : k \in i..n /\ k \in Nat \ {0}
      /\ i \in i..n
  BY <1>1, <1>2
<1>4. CASE r = NoInfo
  <2>1. \A j \in e + 1..n : ~Starts(d, j)
    <3>1. ASSUME NEW k \in e + 1..n PROVE r \notin Infos(d, k)
      BY <1>3, <1>4, InfosType
    <3> QED BY <1>1, <3>1 DEF LastFrom
  <2> QED BY <1>1, <1>3, <1>4, <2>1 DEF LastFrom
<1>5. CASE r # NoInfo
  <2>1. PICK k \in e + 1..n : r \in Infos(d, k) /\ \A j \in k + 1..n : ~Starts(d, j)
    BY <1>1, <1>5 DEF LastFrom
  <2> QED BY <1>1, <1>3, <1>5, <2>1 DEF LastFrom
<1> QED BY <1>4, <1>5

LEMMA ScanIsLast ==
    ASSUME NoInfo \notin Info, NEW d \in Seq(Bytes)
    PROVE  LastFrom(d, 1, ParseOsc9_4(d))
<1>1. PICK f : Scan(f, d) /\ ParseOsc9_4(d) = f[1]
  BY ScanExists
<1>2. PICK n : n = Len(d) /\ n \in Nat
  BY Within
<1> DEFINE I == 1..n + 1
           m == [i \in I |-> n + 1 - i]
           S == {i \in I : LastFrom(d, i, f[i])}
<1>3. ASSUME NEW i \in I PROVE Inherits(I, m, S, i)
  <2> SUFFICES ASSUME \A j \in I : m[j] < m[i] => j \in S PROVE LastFrom(d, i, f[i])
    BY DEF Inherits
  <2>1. f[i] = ScanAt(f, d, i)
    BY <1>1, <1>2 DEF Scan
  <2>2. ASSUME NEW e \in i..n PROVE LastFrom(d, e + 1, f[e + 1])
    <3>1. e + 1 \in I /\ m[e + 1] < m[i]
      BY <1>2
    <3> QED BY <3>1
  <2>3. CASE i > n
    <3>1. f[i] = NoInfo /\ \A j : j \notin i..n
      BY <1>2, <2>1, <2>3 DEF ScanAt
    <3> QED BY <1>2, <3>1 DEF LastFrom
  <2>4. CASE i <= n /\ d[i] # "ESC"
    <3>1. f[i] = f[i + 1] /\ i \in 1..n /\ i \in Nat \ {0} /\ i \in i..n
      BY <1>2, <2>1, <2>4 DEF ScanAt
    <3>2. \A j \in i..i : ~Starts(d, j)
      BY <2>4, <3>1, StartIs
    <3> QED BY <1>2, <2>2, <3>1, <3>2, LastFromNext
  <2>5. CASE i <= n /\ d[i] = "ESC" /\ TooShort(d, i)
    <3>1. f[i] = NoInfo /\ i \in 1..n
      BY <1>2, <2>1, <2>5 DEF ScanAt
    <3> QED BY <1>2, <2>5, <3>1, TooShortIsOver DEF LastFrom
  <2>6. CASE i <= n /\ d[i] = "ESC" /\ ~TooShort(d, i)
    <3>1. i \in 1..n /\ i \in i..n
      BY <1>2, <2>6
    <3>2. PICK q : q = Sequence(d, i)
      OBVIOUS
    <3>3. f[i] = IF f[q[2] + 1] = NoInfo THEN q[1] ELSE f[q[2] + 1]
      BY <1>2, <2>1, <2>6, <3>1, <3>2 DEF ScanAt
    <3>4. CASE ~Starts(d, i) /\ q = <<NoInfo, i>>
      <4>1. f[i] = f[i + 1]
        BY <3>3, <3>4
      <4>2. \A j \in i..i : ~Starts(d, j)
        BY <3>4
      <4> QED BY <1>2, <2>2, <3>1, <4>1, <4>2, LastFromNext
    <3>5. ASSUME NEW x \in Infos(d, i), NEW e \in i + 1..n, q = <<x, e>>,
                 \A j \in i + 1..e : ~Starts(d, j)
          PROVE  LastFrom(d, i, f[i])
      <4>1. PICK r : r = f[e + 1] /\ f[i] = IF r = NoInfo THEN x ELSE r
        BY <3>3, <3>5
      <4>2. e \in i..n
        BY <1>2
      <4>3. LastFrom(d, e + 1, r)
        BY <2>2, <4>1, <4>2
      <4>4. LastFrom(d, i, IF r = NoInfo THEN x ELSE r)
        BY <1>2, <3>1, <3>5, <4>3, LastFromFound
      <4> QED BY <4>1, <4>4
    <3> QED BY <1>2, <3>1, <3>2, <3>4, <3>5, SequenceCases
  <2>7. i > n \/ i <= n
    BY <1>2
  <2> QED BY <2>3, <2>4, <2>5, <2>6, <2>7
<1>4. m \in [I -> Nat]
  BY <1>2
<1>5. I \subseteq S
  <2> HIDE DEF I, m, S
  <2> QED BY <1>3, <1>4, MeasureInduction
<1>6. 1 \in I
  BY <1>2
<1> QED BY <1>1, <1>5, <1>6

LEMMA ScanType ==
    ASSUME NoInfo \notin Info, NEW d \in Seq(Bytes)
    PROVE  ParseOsc9_4(d) \in Info \union {NoInfo}
<1>1. LastFrom(d, 1, ParseOsc9_4(d))
  BY ScanIsLast
<1>2. \A k \in 1..Len(d) : k \in Nat \ {0}
  OBVIOUS
<1> QED BY <1>1, <1>2, InfosType DEF LastFrom

LEMMA LastIsFound ==
    ASSUME NoInfo \notin Info, data \in Seq(Bytes)
    PROVE  LastSequenceFound
<1>1. PICK x : x = ParseOsc9_4(data) /\ LastFrom(data, 1, x)
  BY ScanIsLast
<1>2. PICK n : n = Len(data) /\ n \in Nat /\ DOMAIN data = 1..n
  BY Within
<1> DEFINE starts == {i \in Escapes(data) : Infos(data, i) # {}}
<1>3. ASSUME NEW i PROVE i \in starts <=> i \in 1..n /\ Starts(data, i)
  <2>1. Infos(data, i) # {} <=> Starts(data, i)
    BY InfosIs DEF Starts
  <2>2. i \in 1..n /\ Starts(data, i) => data[i] = "ESC"
    BY StartIs
  <2> QED BY <1>2, <2>1, <2>2 DEF Escapes
<1>4. CASE x = NoInfo /\ \A j \in 1..n : ~Starts(data, j)
  <2>1. starts = {}
    BY <1>3, <1>4
  <2> QED BY <1>1, <1>4, <2>1 DEF LastSequenceFound
<1>5. ASSUME NEW k \in 1..n, x \in Infos(data, k), \A j \in k + 1..n : ~Starts(data, j)
      PROVE  LastSequenceFound
  <2>1. Starts(data, k)
    BY <1>5, InfosIs DEF Starts
  <2>2. k \in starts /\ \A i \in starts : k >= i /\ i \in 1..n
    BY <1>2, <1>3, <1>5, <2>1
  <2>3. Max(starts) = k
    <3>1. \A i \in starts : i \in Nat /\ k >= i
      BY <2>2
    <3>2. \A i \in starts : i >= k => i = k
      BY <3>1, <2>2
    <3> HIDE DEF starts
    <3> QED BY <2>2, <3>1, <3>2 DEF Max
  <2> QED BY <1>1, <1>5, <2>2, <2>3 DEF LastSequenceFound
<1> QED BY <1>1, <1>2, <1>4, <1>5 DEF LastFrom

-----------------------------------------------------------------------------
\* The bar

ProgressInv == TypeOK /\ BarWillHide

LEMMA ProgressInit ==
    ASSUME MaxPieces \in Nat, Init
    PROVE  ProgressInv
<1>1. data \in Seq(Bytes) /\ pieces \in 0..MaxPieces
  BY DEF Init
<1>2. timer \in BOOLEAN /\ progress \in Info \union {NoInfo} /\ (timer <=> progress # NoInfo)
  BY Zenon DEF Init
<1> QED BY <1>1, <1>2 DEF ProgressInv, TypeOK, BarWillHide

LEMMA PieceType == Piece \subseteq Seq(Bytes)
<1>1. \A b \in Bytes : <<b>> \in Seq(Bytes)
  OBVIOUS
<1>2. Prefix \in Seq(Bytes) /\ <<";", "9">> \in Seq(Bytes) /\ <<"ESC", "\\">> \in Seq(Bytes)
  BY DEF Prefix, Bytes, Digit
<1>3. <<"4", ";", "9", "BEL">> \in Seq(Bytes) /\ <<"0", ";", "0", "BEL">> \in Seq(Bytes)
  BY DEF Bytes, Digit
<1>4. \A p, q \in Seq(Bytes) : p \o q \in Seq(Bytes)
  OBVIOUS
<1>5. Digit \union {";", "BEL", "ESC"} \subseteq Bytes
  BY DEF Bytes
<1>6. /\ Prefix \o <<"4", ";", "9", "BEL">> \in Seq(Bytes)
      /\ Prefix \o <<"0", ";", "0", "BEL">> \in Seq(Bytes)
  BY <1>2, <1>3, <1>4
<1> QED BY Zenon, <1>1, <1>2, <1>5, <1>6 DEF Piece

LEMMA ProgressNext ==
    ASSUME NoInfo \notin Info, MaxPieces \in Nat, ProgressInv, [Next]_vars
    PROVE  ProgressInv'
<1>1. ASSUME NEW p \in Piece, Output(p) PROVE ProgressInv'
  <2>1. data' \in Seq(Bytes)
    BY <1>1, PieceType DEF ProgressInv, TypeOK, Output
  <2>2. pieces' \in 0..MaxPieces
    BY <1>1 DEF ProgressInv, TypeOK, Output
  <2> QED BY <1>1, <2>1, <2>2 DEF ProgressInv, TypeOK, BarWillHide, Output
<1>2. CASE Feed
  <2>1. PICK info : info = ParseOsc9_4(data) /\ info \in Info \union {NoInfo}
    BY ScanType DEF ProgressInv, TypeOK
  <2>2. data' \in Seq(Bytes) /\ pieces' \in 0..MaxPieces
    BY <1>2 DEF Feed
  <2>3. /\ progress' \in Info \union {NoInfo}
        /\ timer' \in BOOLEAN /\ (timer' <=> progress' # NoInfo)
    BY <1>2, <2>1 DEF Feed, Running, ProgressInv, TypeOK, BarWillHide
  <2> QED BY <2>2, <2>3 DEF ProgressInv, TypeOK, BarWillHide
<1>3. CASE AutoHide
  <2>1. data' = data /\ pieces' = pieces
    BY <1>3 DEF AutoHide
  <2>2. timer' \in BOOLEAN /\ progress' \in Info \union {NoInfo} /\ (timer' <=> progress' # NoInfo)
    BY Zenon, <1>3 DEF AutoHide
  <2> QED BY <2>1, <2>2 DEF ProgressInv, TypeOK, BarWillHide
<1>4. CASE UNCHANGED vars
  BY <1>4 DEF vars, ProgressInv, TypeOK, BarWillHide
<1> QED BY <1>1, <1>2, <1>3, <1>4 DEF Next

LEMMA ProgressSafe ==
    ASSUME NoInfo \notin Info, ProgressInv
    PROVE  ProgressIsTrue
BY LastIsFound DEF ProgressInv, TypeOK, ProgressIsTrue
=============================================================================
