---------------------------- MODULE AuditLogProofs ----------------------------
(***************************************************************************)
(* Proofs about AuditLog, for any number of rows, pages and calls.         *)
(***************************************************************************)
EXTENDS AuditLog, FunctionTheorems, SequenceTheorems, FiniteSetTheorems, TLAPS

\* What the proofs assume of the limits
AuditConstants == PageSize \in Nat /\ MaxLogs \in Nat \ {0} /\ MaxCalls \in Nat \ {0}

-----------------------------------------------------------------------------
\* Lists in an order

\* The elements of a finite set, ranked by how many come before them in a strict order
LEMMA RanksInOrder ==
    ASSUME NEW I, IsFiniteSet(I), NEW R,
           \A i \in I : <<i, i>> \notin R,
           \A i, j, k \in I : <<i, j>> \in R /\ <<j, k>> \in R => <<i, k>> \in R,
           \A i, j \in I : i = j \/ <<i, j>> \in R \/ <<j, i>> \in R
    PROVE  /\ \A i \in I : Cardinality({j \in I : <<j, i>> \in R}) + 1 \in 1..Cardinality(I)
           /\ \A i, k \in I : <<i, k>> \in R =>
                Cardinality({j \in I : <<j, i>> \in R}) < Cardinality({j \in I : <<j, k>> \in R})
           /\ \A n \in 1..Cardinality(I) :
                \E i \in I : Cardinality({j \in I : <<j, i>> \in R}) = n - 1
<1> DEFINE before(i) == {j \in I : <<j, i>> \in R}
           rank(i) == Cardinality(before(i))
<1>1. PICK N \in Nat : N = Cardinality(I)
  BY FS_CardinalityType
<1>2. ASSUME NEW i \in I
      PROVE  IsFiniteSet(before(i)) /\ rank(i) \in Nat /\ rank(i) < N
  <2>1. before(i) \subseteq I \ {i}
    OBVIOUS
  <2>2. IsFiniteSet(I \ {i}) /\ Cardinality(I \ {i}) = N - 1
    BY <1>1, FS_RemoveElement
  <2>3. IsFiniteSet(before(i)) /\ rank(i) <= N - 1
    <3>1. PICK A, B : A = before(i) /\ B = I \ {i}
      OBVIOUS
    <3>2. A \subseteq B /\ IsFiniteSet(B) /\ Cardinality(B) = N - 1
      BY <2>1, <2>2, <3>1
    <3> HIDE DEF before
    <3>3. IsFiniteSet(A) /\ Cardinality(A) <= Cardinality(B)
      BY <3>2, FS_Subset
    <3> QED BY <3>1, <3>2, <3>3
  <2>4. rank(i) \in Nat
    BY <2>3, FS_CardinalityType
  <2> QED BY <1>1, <2>3, <2>4
<1>3. ASSUME NEW i \in I, NEW k \in I, <<i, k>> \in R PROVE rank(i) < rank(k)
  <2>1. before(i) \union {i} \subseteq before(k) /\ i \notin before(i)
    BY <1>3
  <2>2. Cardinality(before(i) \union {i}) = rank(i) + 1
    BY <1>2, <2>1, FS_AddElement
  <2>3. Cardinality(before(i) \union {i}) <= rank(k)
    BY <1>2, <2>1, FS_Subset
  <2>4. PICK a, b : a = rank(i) /\ b = rank(k) /\ a \in Nat /\ b \in Nat
    BY <1>2
  <2> HIDE DEF rank, before
  <2>5. a + 1 <= b
    BY <2>2, <2>3, <2>4
  <2> QED BY <2>4, <2>5
<1>4. \A i, k \in I : rank(i) = rank(k) => i = k
  <2> SUFFICES ASSUME NEW i \in I, NEW k \in I, rank(i) = rank(k), i # k PROVE FALSE
    OBVIOUS
  <2>1. <<i, k>> \in R \/ <<k, i>> \in R
    OBVIOUS
  <2>2. rank(i) < rank(k) \/ rank(k) < rank(i)
    BY <1>3, <2>1
  <2> QED BY <1>2, <2>2
<1>5. PICK f : f = [i \in I |-> rank(i)]
  OBVIOUS
<1>6. f \in Injection(I, 0..(N - 1))
  <2>1. \A i \in I : rank(i) \in 0..(N - 1)
    BY <1>2
  <2> HIDE DEF rank
  <2>2. f \in [I -> 0..(N - 1)] /\ \A i, k \in I : f[i] = f[k] => i = k
    BY <1>4, <1>5, <2>1
  <2> QED BY <2>2 DEF Injection, IsInjective
<1>7. IsFiniteSet(0..(N - 1)) /\ Cardinality(0..(N - 1)) = N
  BY FS_Interval
<1>8. f \in Surjection(I, 0..(N - 1))
  BY <1>1, <1>6, <1>7, FS_Injection
<1>9. ASSUME NEW n \in 1..N PROVE \E i \in I : rank(i) = n - 1
  <2>1. n - 1 \in 0..(N - 1)
    OBVIOUS
  <2>2. PICK i \in I : f[i] = n - 1
    BY <1>8, <2>1 DEF Surjection
  <2> QED BY <1>5, <2>2
<1>10. \A i \in I : rank(i) + 1 \in 1..N
  <2> SUFFICES ASSUME NEW i \in I PROVE rank(i) + 1 \in 1..N
    OBVIOUS
  <2>1. PICK m : m = rank(i) /\ m \in Nat /\ m < N
    BY <1>2
  <2> QED BY <2>1
<1> QED BY <1>1, <1>3, <1>9, <1>10

\* q has the elements of S in descending order
Lists(q, S) == q \in Seq(S) /\ ToSet(q) = S /\ Descending(q)

\* What a query orders by is every row that it found, the newest first
LEMMA NewestFacts ==
    ASSUME NEW S, S \subseteq Nat, IsFiniteSet(S), NEW q, q = NewestFirst(S)
    PROVE  Lists(q, S) /\ Len(q) = Cardinality(S)
<1> DEFINE rank(i) == Cardinality({j \in S : j > i})
           at(n) == CHOOSE i \in S : rank(i) = n - 1
<1>1. PICK N \in Nat : N = Cardinality(S)
  BY FS_CardinalityType
<1>2. q = [n \in 1..N |-> at(n)]
  BY <1>1 DEF NewestFirst, Cardinality
<1>3. /\ \A i \in S : rank(i) + 1 \in 1..N
      /\ \A i, k \in S : i > k => rank(i) < rank(k)
      /\ \A n \in 1..N : \E i \in S : rank(i) = n - 1
  <2>1. PICK R : R = {p \in S \X S : p[1] > p[2]}
    OBVIOUS
  <2>2. \A i, j \in S : <<i, j>> \in R <=> i > j
    BY <2>1
  <2>3. \A i \in S : {j \in S : <<j, i>> \in R} = {j \in S : j > i}
    BY <2>2
  <2>4. /\ \A i \in S : <<i, i>> \notin R
        /\ \A i, j, k \in S : <<i, j>> \in R /\ <<j, k>> \in R => <<i, k>> \in R
        /\ \A i, j \in S : i = j \/ <<i, j>> \in R \/ <<j, i>> \in R
    <3>1. \A i, j, k \in S : ~(i > i) /\ (i > j /\ j > k => i > k) /\ (i = j \/ i > j \/ j > i)
      OBVIOUS
    <3> QED BY <2>2, <3>1
  <2>5. /\ \A i \in S : Cardinality({j \in S : <<j, i>> \in R}) + 1 \in 1..Cardinality(S)
        /\ \A i, k \in S : <<i, k>> \in R =>
             Cardinality({j \in S : <<j, i>> \in R}) < Cardinality({j \in S : <<j, k>> \in R})
        /\ \A n \in 1..Cardinality(S) :
             \E i \in S : Cardinality({j \in S : <<j, i>> \in R}) = n - 1
    BY <2>4, RanksInOrder
  <2>6. \A i \in S : Cardinality({j \in S : <<j, i>> \in R}) = rank(i)
    BY <2>3
  <2> HIDE DEF rank
  <2>7. \A i \in S : rank(i) + 1 \in 1..N
    BY <1>1, <2>5, <2>6
  <2>8. \A i, k \in S : i > k => rank(i) < rank(k)
    <3> SUFFICES ASSUME NEW i \in S, NEW k \in S, i > k PROVE rank(i) < rank(k)
      OBVIOUS
    <3>1. <<i, k>> \in R
      BY <2>2
    <3>2. Cardinality({j \in S : <<j, i>> \in R}) < Cardinality({j \in S : <<j, k>> \in R})
      BY <2>5, <3>1
    <3> QED BY <2>6, <3>2
  <2>9. \A n \in 1..N : \E i \in S : rank(i) = n - 1
    BY <1>1, <2>5, <2>6
  <2> QED BY <2>7, <2>8, <2>9
<1>4. \A n \in 1..N : at(n) \in S /\ rank(at(n)) = n - 1
  <2> HIDE DEF rank
  <2> QED BY <1>3
<1> HIDE DEF at
<1>5. q \in [1..N -> S]
  BY <1>2, <1>4
<1>6. q \in Seq(S) /\ Len(q) = N /\ DOMAIN q = 1..N
  BY <1>5
<1>7. ASSUME NEW i \in DOMAIN q, NEW j \in DOMAIN q, i < j PROVE q[i] > q[j]
  <2>1. PICK m, n, a, b : /\ m = q[i] /\ n = q[j] /\ a = rank(m) /\ b = rank(n)
    OBVIOUS
  <2>2. i \in 1..N /\ j \in 1..N
    BY <1>6
  <2>3. m = at(i) /\ n = at(j) /\ m \in S /\ n \in S
    BY <1>2, <1>4, <2>1, <2>2
  <2>4. a = i - 1 /\ b = j - 1
    BY <1>4, <2>1, <2>2, <2>3
  <2>5. a < b
    BY <1>7, <2>2, <2>4
  <2>6. m # n /\ ~(n > m)
    <3>1. ~(a = b) /\ ~(b < a)
      BY <2>2, <2>4, <2>5
    <3> HIDE DEF rank
    <3> QED BY <1>3, <2>1, <2>3, <3>1
  <2>7. m \in Nat /\ n \in Nat
    BY <2>3
  <2> HIDE DEF rank
  <2> QED BY <2>1, <2>6, <2>7
<1>8. ASSUME NEW x \in S PROVE \E n \in DOMAIN q : q[n] = x
  <2>1. PICK r, n : r = rank(x) /\ n = r + 1
    OBVIOUS
  <2>2. r \in Nat
    BY <2>1, FS_Subset, FS_CardinalityType
  <2>3. n \in 1..N /\ r = n - 1
    <3>1. rank(x) + 1 \in 1..N
      BY <1>3
    <3> HIDE DEF rank
    <3> QED BY <2>1, <2>2, <3>1
  <2>4. PICK y : y = q[n] /\ y = at(n) /\ y \in S /\ rank(y) = r
    BY <1>2, <1>4, <2>3
  <2>5. ~(rank(x) < rank(y)) /\ ~(rank(y) < rank(x))
    <3>1. ~(r < r)
      BY <2>2
    <3> HIDE DEF rank
    <3> QED BY <2>1, <2>4, <3>1
  <2>6. ~(x > y) /\ ~(y > x)
    <3> HIDE DEF rank
    <3> QED BY <1>3, <2>4, <2>5
  <2>7. x \in Nat /\ y \in Nat
    BY <2>4
  <2>8. x = y
    BY <2>6, <2>7
  <2> QED BY <1>6, <2>3, <2>4, <2>8
<1>9. ToSet(q) = S
  BY <1>5, <1>8 DEF ToSet
<1>10. Descending(q)
  BY <1>7 DEF Descending
<1> QED BY <1>1, <1>6, <1>9, <1>10 DEF Lists

\* A slice of it has what lies between its ends
Slice(p, q, S, a, b) ==
    /\ p \in Seq(S) /\ Len(p) = b - a + 1 /\ p # <<>>
    /\ p[1] = q[a] /\ p[b - a + 1] = q[b]
    /\ Descending(p)
    /\ \A i : i \in ToSet(p) <=> i \in S /\ q[b] <= i /\ i <= q[a]

LEMMA SliceFacts ==
    ASSUME NEW S, S \subseteq Nat, NEW q, Lists(q, S),
           NEW a, a \in DOMAIN q, NEW b, b \in DOMAIN q, a <= b, NEW p, p = SubSeq(q, a, b)
    PROVE  Slice(p, q, S, a, b)
<1>1. PICK N \in Nat : N = Len(q) /\ DOMAIN q = 1..N
  BY LenProperties DEF Lists
<1>2. a \in 1..N /\ b \in 1..N /\ q \in Seq(S)
  BY <1>1 DEF Lists
<1>3. PICK n : n = b - a + 1 /\ n \in Nat \ {0}
  BY <1>2
<1>4. p \in Seq(S) /\ Len(p) = n /\ \A i \in 1..n : p[i] = q[a + i - 1]
  BY <1>1, <1>2, <1>3, SubSeqProperties
<1>5. p # <<>> /\ DOMAIN p = 1..n
  BY <1>3, <1>4
<1>6. p[1] = q[a] /\ p[n] = q[b]
  BY SMTT(30), <1>2, <1>3, <1>4
<1>7. \A i \in 1..N : q[i] \in Nat /\ q[i] \in S
  <2>1. \A i \in DOMAIN q : q[i] \in S
    BY <1>2
  <2> QED BY <1>1, <2>1
<1>8. \A i, j \in 1..N : i < j => q[i] > q[j]
  BY <1>1 DEF Lists, Descending
<1>9. Descending(p)
  <2> SUFFICES ASSUME NEW i \in 1..n, NEW j \in 1..n, i < j PROVE p[i] > p[j]
    BY <1>5 DEF Descending
  <2>1. a + i - 1 \in 1..N /\ a + j - 1 \in 1..N /\ a + i - 1 < a + j - 1
    BY SMTT(30), <1>2, <1>3
  <2> QED BY <1>4, <1>8, <2>1
<1>10. ASSUME NEW i \in 1..n
       PROVE  p[i] \in S /\ q[b] <= p[i] /\ p[i] <= q[a]
  <2>1. PICK k : k = a + i - 1 /\ k \in 1..N /\ a <= k /\ k <= b
    BY SMTT(30), <1>2, <1>3
  <2>2. p[i] = q[k] /\ q[k] \in S /\ q[k] \in Nat /\ q[a] \in Nat /\ q[b] \in Nat
    BY <1>2, <1>4, <1>7, <2>1
  <2>3. a = k \/ q[a] > q[k]
    BY <1>2, <1>8, <2>1
  <2>4. k = b \/ q[k] > q[b]
    BY <1>2, <1>8, <2>1
  <2> QED BY <2>2, <2>3, <2>4
<1>11. ASSUME NEW x \in S, q[b] <= x, x <= q[a] PROVE \E i \in 1..n : p[i] = x
  <2>1. PICK k \in 1..N : q[k] = x
    BY <1>1 DEF Lists, ToSet
  <2>2. q[k] \in Nat /\ q[a] \in Nat /\ q[b] \in Nat /\ k \in 1..N
    BY <1>2, <1>7
  <2>3. ~(k < a)
    <3>1. k < a => q[k] > q[a]
      BY <1>2, <1>8
    <3> QED BY <1>11, <2>1, <2>2, <3>1
  <2>4. ~(b < k)
    <3>1. b < k => q[b] > q[k]
      BY <1>2, <1>8
    <3> QED BY <1>11, <2>1, <2>2, <3>1
  <2>5. PICK i : i = k - a + 1 /\ i \in 1..n /\ a + i - 1 = k
    <3>1. a \in Nat /\ b \in Nat /\ k \in Nat /\ a <= k /\ k <= b
      BY <1>2, <2>2, <2>3, <2>4
    <3> QED BY <1>3, <3>1
  <2> QED BY <1>4, <2>1, <2>5
<1>12. \A i : i \in ToSet(p) <=> i \in S /\ q[b] <= i /\ i <= q[a]
  BY <1>5, <1>10, <1>11 DEF ToSet
<1>13. Len(p) = b - a + 1 /\ p[b - a + 1] = q[b]
  BY <1>3, <1>4, <1>6
<1> QED BY <1>4, <1>5, <1>6, <1>9, <1>12, <1>13 DEF Slice

LEMMA EmptyList == ASSUME NEW S, S = {}, NEW q, q = NewestFirst(S) PROVE q = <<>>
<1>1. Cardinality(S) = 0
  BY FS_EmptySet
<1>2. q = [n \in 1..0 |-> CHOOSE i \in S : Cardinality({j \in S : j > i}) = n - 1]
  BY <1>1 DEF NewestFirst, Cardinality
<1>3. DOMAIN q = {}
  BY <1>2
<1> QED BY <1>2, <1>3

\* A sequence is no shorter than the set of what is in it
LEMMA SetOfSeq ==
    ASSUME NEW T, NEW q \in Seq(T)
    PROVE  /\ IsFiniteSet(ToSet(q)) /\ Cardinality(ToSet(q)) <= Len(q)
           /\ ToSet(q) \subseteq T
<1>1. PICK n \in Nat : n = Len(q) /\ DOMAIN q = 1..n
  BY LenProperties
<1>2. PICK U : U = ToSet(q)
  OBVIOUS
<1>3. q \in [1..n -> U] /\ \A x \in U : \E i \in 1..n : q[i] = x
  <2>1. q = [i \in 1..n |-> q[i]] /\ \A i \in 1..n : q[i] \in U
    BY <1>1, <1>2 DEF ToSet
  <2> QED BY <1>1, <1>2, <2>1 DEF ToSet
<1>4. q \in Surjection(1..n, U)
  BY <1>3 DEF Surjection
<1>5. IsFiniteSet(1..n) /\ Cardinality(1..n) = n
  BY FS_Interval
<1>6. IsFiniteSet(U) /\ Cardinality(U) <= n
  BY <1>4, <1>5, FS_Surjection
<1>7. U \subseteq T
  BY <1>1, <1>2 DEF ToSet
<1> QED BY <1>1, <1>2, <1>6, <1>7

\* The rows that a page may show: numbers, and finitely many
LEMMA VisibleFacts ==
    ASSUME NEW T, log \in Seq(T), NEW f
    PROVE  /\ Visible(f) \subseteq Nat /\ IsFiniteSet(Visible(f))
           /\ \A i \in Visible(f) : i <= Len(log)
<1>1. PICK n \in Nat : n = Len(log) /\ DOMAIN log = 1..n
  BY LenProperties
<1>2. PICK V : V = Visible(f)
  OBVIOUS
<1>3. V \subseteq 1..n
  BY <1>1, <1>2 DEF Visible, Matching
<1>4. IsFiniteSet(1..n)
  BY FS_Interval
<1>5. IsFiniteSet(V)
  BY <1>3, <1>4, FS_Subset
<1> QED BY <1>1, <1>2, <1>3, <1>5

\* p lists those from lo to hi of the found rows W, next to which there is no other
\* of the visible rows V
Between(V, W, p, lo, hi) ==
    /\ V \subseteq Nat /\ W \subseteq V /\ lo \in Nat /\ hi \in Nat
    /\ \A i \in V \ W : \A j \in W : i > hi \/ i < j
    /\ p \in Seq(ToSet(p)) /\ p # <<>> /\ Descending(p)
    /\ \A i : i \in ToSet(p) <=> i \in W /\ lo <= i /\ i <= hi

LEMMA FoundRows ==
    ASSUME NEW V, NEW W, NEW p, NEW lo, NEW hi, Between(V, W, p, lo, hi)
    PROVE  \A i : i \in ToSet(p) <=> i \in V /\ p[Len(p)] <= i /\ i <= p[1]
<1> USE DEF Between
<1>0. PICK U : /\ U = ToSet(p) /\ Lists(p, U) /\ U \subseteq W
               /\ \A i : i \in U <=> i \in W /\ lo <= i /\ i <= hi
  BY DEF Lists
<1>1. PICK n : n = Len(p) /\ n \in Nat /\ DOMAIN p = 1..n /\ p \in Seq(U)
  BY <1>0, LenProperties DEF Lists
<1>2. n # 0
  BY <1>1
<1>3. 1 \in DOMAIN p /\ n \in DOMAIN p
  BY <1>1, <1>2
<1>4. PICK first, last : first = p[1] /\ last = p[n]
  OBVIOUS
<1>5. first \in U /\ last \in U
  BY <1>1, <1>3, <1>4
<1>6. /\ U \subseteq Nat /\ lo <= last /\ first <= hi
      /\ last \in W /\ first \in Nat /\ last \in Nat
  BY <1>0, <1>5
<1>7. ASSUME NEW x \in U PROVE last <= x /\ x <= first
  <2>1. PICK i \in 1..n : p[i] = x
    BY <1>0, <1>1 DEF Lists, ToSet
  <2>2. i = 1 \/ first > x
    BY <1>0, <1>1, <1>3, <1>4, <2>1 DEF Lists, Descending
  <2>3. i = n \/ x > last
    BY <1>0, <1>1, <1>3, <1>4, <2>1 DEF Lists, Descending
  <2> QED BY <1>4, <1>6, <2>1, <2>2, <2>3
<1>8. ASSUME NEW x \in V, last <= x, x <= first PROVE x \in U
  <2>1. x \in Nat /\ x <= hi /\ lo <= x
    BY <1>6, <1>8
  <2>2. ~(x > hi) /\ ~(x < last)
    BY <1>6, <1>8, <2>1
  <2>3. x \in W
    BY <1>6, <2>2
  <2> QED BY <1>0, <2>1, <2>3
<1>9. ToSet(p) = U /\ p[Len(p)] = last
  BY <1>0, <1>1, <1>4
<1>10. \A i : i \in U <=> i \in V /\ last <= i /\ i <= first
  BY <1>0, <1>7, <1>8
<1> QED BY <1>4, <1>9, <1>10

LEMMA SeqOfMore == ASSUME NEW S, NEW T, S \subseteq T, NEW q \in Seq(S) PROVE q \in Seq(T)
<1>1. PICK n \in Nat : q \in [1..n -> S]
  BY LenProperties
<1>2. q \in [1..n -> T]
  BY <1>1
<1> QED BY <1>2

LEMMA SeqOfFunction == ASSUME NEW n \in Nat, NEW T, NEW q \in [1..n -> T] PROVE q \in Seq(T)
OBVIOUS

\* p are numbers next to each other in V
InRow(V, p) ==
    /\ p \in Seq(Nat) /\ Descending(p)
    /\ \A i : i \in ToSet(p) <=> i \in V /\ p[Len(p)] <= i /\ i <= p[1]
\* The query lists the rows W of the visible V, which are the older or the newer ones
Found(V, W, ends) == V \subseteq Nat /\ W \subseteq V /\ Lists(ends, W)
OlderFound(V, W) == \A i \in V \ W : \A j \in W : i > j
NewerFound(V, W) == \A i \in V \ W : \A j \in W : i < j

\* A page from the newest of the rows found
LEMMA FirstPage ==
    ASSUME NEW V, NEW W, NEW ends, Found(V, W, ends), OlderFound(V, W),
           NEW N, N = Len(ends), NEW n \in 1..N, NEW p, p = SubSeq(ends, 1, n)
    PROVE  /\ InRow(V, p) /\ Len(p) = n
           /\ n = N => \A i \in V : p[Len(p)] <= i
<1> USE DEF Found, OlderFound
<1>1. N \in Nat /\ DOMAIN ends = 1..N /\ ends \in Seq(W) /\ W \subseteq Nat
  BY LenProperties DEF Lists
<1>2. 1 \in 1..N /\ 1 <= n /\ n - 1 + 1 = n /\ N \in 1..N
  BY <1>1
<1>3. PICK lo, hi : lo = ends[n] /\ hi = ends[1]
  OBVIOUS
<1>4. PICK U : U = ToSet(p)
  OBVIOUS
<1>5. /\ p \in Seq(W) /\ Len(p) = n /\ p # <<>> /\ p[Len(p)] = lo /\ p[1] = hi
      /\ Descending(p) /\ \A i : i \in U <=> i \in W /\ lo <= i /\ i <= hi
  <2>1. ends[n] = lo /\ ends[1] = hi /\ 1 \in DOMAIN ends /\ n \in DOMAIN ends
    BY <1>1, <1>2, <1>3
  <2>2. Slice(p, ends, W, 1, n)
    BY <1>1, <1>2, <2>1, SliceFacts
  <2>3. /\ p \in Seq(W) /\ Len(p) = n /\ p # <<>> /\ p[1] = ends[1] /\ p[n] = ends[n]
        /\ Descending(p)
    BY <1>2, <2>2 DEF Slice
  <2>4. \A i : i \in ToSet(p) <=> i \in W /\ ends[n] <= i /\ i <= ends[1]
    BY <2>2 DEF Slice
  <2> QED BY <1>4, <2>1, <2>3, <2>4
<1>6. DOMAIN p = 1..n
  BY <1>5, LenProperties
<1>7. p \in Seq(U)
  <2>1. \A i \in 1..n : p[i] \in U
    BY <1>4, <1>5, <1>6 DEF ToSet
  <2>2. p \in [1..n -> W]
    BY <1>5, LenProperties
  <2>3. p \in [1..n -> U]
    BY <2>1, <2>2
  <2>4. n \in Nat
    BY <1>1
  <2> QED BY <2>3, <2>4, SeqOfFunction
<1>8. lo \in W /\ hi \in W
  BY <1>1, <1>2, <1>3
<1>9. lo \in Nat /\ hi \in Nat
  BY <1>1, <1>8
<1>10. \A i \in V \ W : \A j \in W : i > hi \/ i < j
  BY <1>8
<1>11. \A i : i \in ToSet(p) <=> i \in V /\ p[Len(p)] <= i /\ i <= p[1]
  <2>1. Between(V, W, p, lo, hi)
    BY <1>4, <1>5, <1>7, <1>9, <1>10 DEF Between
  <2> QED BY <2>1, FoundRows
<1>12. ASSUME n = N, NEW i \in V PROVE lo <= i
  <2>1. i \in Nat
    OBVIOUS
  <2>2. CASE i \in W
    <3>1. PICK k \in 1..N : ends[k] = i
      BY <1>1, <2>2 DEF Lists, ToSet
    <3>2. k < N => ends[k] > ends[N]
      BY <1>1, <1>2 DEF Lists, Descending
    <3>3. k = N \/ k < N
      BY <1>1
    <3> QED BY <1>3, <1>9, <1>12, <2>1, <3>1, <3>2, <3>3
  <2>3. CASE i \notin W
    <3>1. i > lo
      BY <1>8, <2>3
    <3> QED BY <1>9, <2>1, <3>1
  <2> QED BY <2>2, <2>3
<1>13. p \in Seq(Nat)
  BY <1>1, <1>5, SeqOfMore
<1> QED BY <1>5, <1>11, <1>12, <1>13 DEF InRow

\* A page to the oldest of the rows found, put in order again
LEMMA LastPage ==
    ASSUME NEW V, NEW W, NEW ends, Found(V, W, ends), NewerFound(V, W),
           NEW N, N = Len(ends), NEW k \in 1..N, NEW s, s = SubSeq(ends, k, N),
           NEW p, p = NewestFirst(ToSet(s)), p # <<>>
    PROVE  InRow(V, p) /\ Len(p) <= N - k + 1
<1> USE DEF Found, NewerFound
<1>1. N \in Nat /\ DOMAIN ends = 1..N /\ ends \in Seq(W) /\ W \subseteq Nat
  BY LenProperties DEF Lists
<1>2. k <= N /\ N \in 1..N
  BY <1>1
<1>3. PICK lo, hi : lo = ends[N] /\ hi = ends[k]
  OBVIOUS
<1>4. PICK U : U = ToSet(s)
  OBVIOUS
<1>5. s \in Seq(W) /\ Len(s) = N - k + 1 /\ \A i : i \in U <=> i \in W /\ lo <= i /\ i <= hi
  <2>1. ends[N] = lo /\ ends[k] = hi /\ k \in DOMAIN ends /\ N \in DOMAIN ends
    BY <1>1, <1>2, <1>3
  <2>2. Slice(s, ends, W, k, N)
    BY <1>1, <1>2, <2>1, SliceFacts
  <2>3. s \in Seq(W) /\ Len(s) = N - k + 1
    BY <2>2 DEF Slice
  <2>4. \A i : i \in ToSet(s) <=> i \in W /\ ends[N] <= i /\ i <= ends[k]
    BY <2>2 DEF Slice
  <2> QED BY <1>4, <2>1, <2>3, <2>4
<1>6. IsFiniteSet(U) /\ Cardinality(U) <= N - k + 1 /\ U \subseteq W
  <2>1. IsFiniteSet(U) /\ Cardinality(U) <= Len(s) /\ U \subseteq W
    BY <1>4, <1>5, SetOfSeq
  <2> QED BY <1>5, <2>1
<1>7. U \subseteq Nat
  BY <1>1, <1>6
<1>8. Lists(p, U) /\ Len(p) = Cardinality(U)
  BY <1>4, <1>6, <1>7, NewestFacts
<1>9. lo \in Nat /\ hi \in Nat
  <2>1. lo \in W /\ hi \in W
    BY <1>1, <1>2, <1>3
  <2> QED BY <1>1, <2>1
<1>10. \A i \in V \ W : \A j \in W : i > hi \/ i < j
  OBVIOUS
<1>11. \A i : i \in ToSet(p) <=> i \in V /\ p[Len(p)] <= i /\ i <= p[1]
  <2>1. Between(V, W, p, lo, hi)
    BY <1>5, <1>8, <1>9, <1>10 DEF Between, Lists
  <2> QED BY <2>1, FoundRows
<1>12. p \in Seq(Nat) /\ Descending(p)
  BY <1>7, <1>8, SeqOfMore DEF Lists
<1> QED BY <1>6, <1>8, <1>11, <1>12 DEF InRow

\* A query finds rows next to each other, and says of the oldest page that it is
LEMMA QueryFacts ==
    ASSUME AuditConstants, NEW f, NEW before \in Nat \union {All}, NEW after \in Nat \union {All},
           NEW V, V = Matching(f), V \subseteq Nat, IsFiniteSet(V),
           NEW a, a = QueryAuditLogs(f, before, after)
    PROVE  /\ a.logs \in Seq(Nat)
           /\ a.logs # <<>> =>
                /\ Len(a.logs) <= PageSize /\ InRow(V, a.logs)
                /\ after = All /\ ~a.hasMore => \A i \in V : a.logs[Len(a.logs)] <= i
<1>1. PICK W : W = IF before # All THEN {i \in V : i < before}
                   ELSE IF after # All THEN {i \in V : i > after} ELSE V
  OBVIOUS
<1>2. W \subseteq V /\ W \subseteq Nat /\ IsFiniteSet(W)
  BY <1>1, FS_Subset
<1>3. PICK N : N \in Nat /\ N = Cardinality(W)
  BY <1>2, FS_CardinalityType
<1>4. PICK ends : ends = NewestFirst(W)
  OBVIOUS
<1>5. Lists(ends, W) /\ Len(ends) = N /\ ends \in Seq(W)
  BY <1>2, <1>3, <1>4, NewestFacts DEF Lists
<1>6. PICK n : n = IF N < PageSize THEN N ELSE PageSize
  OBVIOUS
<1>7. n \in 0..N /\ n <= PageSize /\ (~(N > PageSize) => n = N)
  BY <1>3, <1>6 DEF AuditConstants
<1>8. PICK s : s = SubSeq(ends, N - n + 1, N)
  OBVIOUS
<1>9. PICK p : p = IF before = All /\ after # All
                   THEN NewestFirst(ToSet(s)) ELSE SubSeq(ends, 1, n)
  OBVIOUS
<1>10. a.logs = p /\ a.hasMore = (N > PageSize)
  <2>1. Cardinality(W) = Cardinality(W)
    BY DEF Cardinality
  <2> QED BY <1>1, <1>3, <1>4, <1>5, <1>6, <1>8, <1>9, <2>1
       DEF QueryAuditLogs, Reversed, MoreThan
<1>11. CASE n = 0
  <2>1. p = <<>>
    <3>1. N - n + 1 = N + 1
      BY <1>3, <1>11
    <3>2. s = <<>> /\ SubSeq(ends, 1, n) = <<>>
      BY <1>3, <1>5, <1>8, <1>11, <3>1
    <3>3. ToSet(s) = {}
      BY <3>2 DEF ToSet
    <3> QED BY <1>9, <3>2, <3>3, EmptyList
  <2> QED BY <1>10, <2>1
<1>12. CASE n # 0 /\ before = All /\ after # All
  <2>1. PICK k : k = N - n + 1 /\ k \in 1..N /\ N - k + 1 = n
    BY <1>3, <1>7, <1>12
  <2>2. after \in Nat /\ W = {i \in V : i > after}
    BY <1>1, <1>12
  <2>3. NewerFound(V, W) /\ Found(V, W, ends)
    BY <1>2, <1>5, <2>2 DEF NewerFound, Found
  <2>4. p = NewestFirst(ToSet(s)) /\ s = SubSeq(ends, k, N)
    BY <1>8, <1>9, <1>12, <2>1
  <2>5. CASE p = <<>>
    BY <1>10, <2>5
  <2>6. CASE p # <<>>
    <3>1. InRow(V, p) /\ Len(p) <= N - k + 1
      BY <1>5, <2>1, <2>3, <2>4, <2>6, LastPage
    <3>2. p \in Seq(Nat) /\ Len(p) \in Nat
      BY <3>1, LenProperties DEF InRow
    <3>3. Len(p) <= PageSize
      BY <1>7, <2>1, <3>1, <3>2 DEF AuditConstants
    <3> QED BY <1>10, <1>12, <3>1, <3>2, <3>3
  <2> QED BY <2>5, <2>6
<1>13. CASE n # 0 /\ ~(before = All /\ after # All)
  <2>1. n \in 1..N
    BY <1>7, <1>13
  <2>2. OlderFound(V, W)
    <3> SUFFICES ASSUME NEW i \in V \ W, NEW j \in W PROVE i > j
      BY DEF OlderFound
    <3>1. before \in Nat /\ W = {x \in V : x < before}
      BY <1>1, <1>13
    <3>2. i \in Nat /\ j \in Nat /\ ~(i < before) /\ j < before
      BY <3>1
    <3> QED BY <3>1, <3>2
  <2>3. p = SubSeq(ends, 1, n)
    BY <1>9, <1>13
  <2>4. Found(V, W, ends)
    BY <1>2, <1>5 DEF Found
  <2>5. InRow(V, p) /\ Len(p) = n /\ (n = N => \A i \in V : p[Len(p)] <= i)
    <3>1. InRow(V, p)
      BY <1>5, <2>1, <2>2, <2>3, <2>4, FirstPage
    <3>2. Len(p) = n
      BY <1>5, <2>1, <2>2, <2>3, <2>4, FirstPage
    <3>3. n = N => \A i \in V : p[Len(p)] <= i
      BY <1>5, <2>1, <2>2, <2>3, <2>4, FirstPage
    <3> QED BY <3>1, <3>2, <3>3
  <2>6. p \in Seq(Nat)
    BY <2>5 DEF InRow
  <2> QED BY <1>7, <1>10, <2>5, <2>6
<1> QED BY <1>11, <1>12, <1>13

LEMMA PageIs ==
    ASSUME NEW V, NEW p \in Seq(Nat), NEW oldest \in BOOLEAN
    PROVE  IsPage(V, p, oldest) <=>
             (p # <<>> => /\ Len(p) <= PageSize /\ InRow(V, p)
                          /\ oldest => \A i \in V : p[Len(p)] <= i)
<1>1. PICK last : last = p[Len(p)] /\ last = Last(p)
  BY DEF Last
<1>2. ToSet(p) = {i \in V : last <= i /\ i <= p[1]} <=>
        \A i : i \in ToSet(p) <=> i \in V /\ last <= i /\ i <= p[1]
  OBVIOUS
<1> QED BY <1>1, <1>2 DEF IsPage, InRow

\* A new row has the largest id, and is older than none
LEMMA RowAdded ==
    ASSUME log \in Seq({Me, Other}), NEW user \in {Me, Other}, AuditRow(user),
           NEW f, NEW p \in Seq(Nat), NEW oldest \in BOOLEAN, IsPage(Visible(f), p, oldest)
    PROVE  IsPage(Visible(f)', p, oldest)
<1>1. log' = Append(log, user) /\ isAdmin' = isAdmin
  BY DEF AuditRow
<1>2. PICK n : n = Len(log) /\ n \in Nat /\ DOMAIN log = 1..n
  BY LenProperties
<1>3. DOMAIN log' = 1..(n + 1) /\ \A i \in 1..n : log'[i] = log[i]
  BY <1>1, <1>2, AppendProperties
<1>4. PICK V, W : V = Visible(f) /\ W = Visible(f)'
  OBVIOUS
<1>5. V \subseteq 1..n /\ W \subseteq 1..(n + 1) /\ \A i \in 1..n : i \in V <=> i \in W
  BY <1>1, <1>2, <1>3, <1>4 DEF Visible, Matching
<1>6. CASE p # <<>>
  <2>1. /\ InRow(V, p) /\ Len(p) <= PageSize
        /\ oldest => \A i \in V : p[Len(p)] <= i
    BY <1>4, <1>6, PageIs
  <2>2. PICK l : l = Len(p) /\ l \in Nat /\ DOMAIN p = 1..l
    BY LenProperties
  <2>3. l # 0
    BY <1>6, <2>2
  <2>4. PICK first, last : first = p[1] /\ last = p[l]
    OBVIOUS
  <2>5. first \in V /\ last \in V
    <3>1. 1 \in DOMAIN p /\ l \in DOMAIN p
      BY <2>2, <2>3
    <3>2. first \in ToSet(p) /\ last \in ToSet(p)
      BY <2>4, <3>1 DEF ToSet
    <3> QED BY <2>1, <3>2 DEF InRow
  <2>6. first \in 1..n /\ last \in 1..n
    BY <1>5, <2>5
  <2>7. \A i \in W : i <= first => i \in V
    BY <1>2, <1>5, <2>6
  <2>8. \A i \in W \ V : last <= i
    <3> SUFFICES ASSUME NEW i \in W \ V PROVE last <= i
      OBVIOUS
    <3>1. i = n + 1
      BY <1>2, <1>5
    <3> QED BY <1>2, <2>6, <3>1
  <2>9. InRow(W, p)
    <3>1. p \in Seq(Nat) /\ Descending(p)
      BY <2>1 DEF InRow
    <3>2. \A i : i \in ToSet(p) <=> i \in V /\ last <= i /\ i <= first
      BY <2>1, <2>2, <2>4 DEF InRow
    <3>3. \A i : i \in ToSet(p) <=> i \in W /\ last <= i /\ i <= first
      BY <1>5, <2>7, <3>2
    <3> QED BY <2>2, <2>4, <3>1, <3>3 DEF InRow
  <2>10. oldest => \A i \in W : last <= i
    BY <2>1, <2>2, <2>4, <2>8
  <2> QED BY <1>4, <2>1, <2>2, <2>4, <2>9, <2>10, PageIs
<1> QED BY <1>6 DEF IsPage

LEMMA SamePage ==
    ASSUME log' = log, isAdmin' = isAdmin, NEW c, NEW p, NEW more, Consecutive(c, p, more)
    PROVE  Consecutive(c, p, more)'
<1>1. \A f : Visible(f)' = Visible(f)
  BY DEF Visible, Matching
<1> QED BY <1>1 DEF Consecutive

LEMMA LogInit ==
    ASSUME AuditConstants, Init
    PROVE  LogInv
<1> USE DEF Init
<1>1. log \in Seq(Users)
  <2>1. PICK n : n = MaxLogs - 1 /\ log \in [1..n -> Users]
    OBVIOUS
  <2>2. n \in Nat
    BY <2>1 DEF AuditConstants
  <2> QED BY <2>1, <2>2
<1>2. logs = <<>> /\ cursorStack = <<>>
  OBVIOUS
<1>3. Consecutive(shown, logs, hasMore)
  BY <1>2 DEF Consecutive, IsPage
<1>4. ASSUME NEW c \in calls
      PROVE  /\ c \in [number : Nat, filter : Filter, before : Nat \union {All},
                        after : Nat \union {All}, answer : {c.answer}]
             /\ c.answer = All
  BY DEF Filter
<1> QED BY <1>1, <1>2, <1>3, <1>4 DEF LogInv

\* A call that is made has no answer yet
LEMMA FetchStep ==
    ASSUME AuditConstants, LogInv, log' = log, isAdmin' = isAdmin, NEW f \in Filter,
           NEW before \in Nat \union {All}, NEW after \in Nat \union {All},
           FetchLogs(f, before, after), UNCHANGED <<logs, hasMore, shown>>,
           filters' \in Filter, cursorStack' \in Seq(Nat)
    PROVE  LogInv'
<1>1. PICK g : g \in Filter /\ g = IF isAdmin THEN f ELSE All
  BY DEF Filter
<1>6. PICK n \in 1..MaxCalls :
        calls' = calls \union {[number |-> n, filter |-> g, before |-> before,
                                after |-> after, answer |-> All]}
  BY <1>1 DEF FetchLogs
<1>7. n \in Nat
  BY <1>6 DEF AuditConstants
<1>2. PICK d : /\ d = [number |-> n, filter |-> g, before |-> before, after |-> after,
                        answer |-> All]
               /\ n \in Nat /\ calls' = calls \union {d}
  BY <1>6, <1>7
<1>3. Consecutive(shown, logs, hasMore)'
  BY SamePage DEF LogInv
<1>4. ASSUME NEW c \in calls'
      PROVE  /\ c \in [number : Nat, filter : Filter, before : Nat \union {All},
                        after : Nat \union {All}, answer : {c.answer}]
             /\ c.answer # All =>
                  /\ c.answer.logs \in Seq(Nat)
                  /\ Consecutive(c, c.answer.logs, c.answer.hasMore)'
  <2>1. CASE c \in calls
    BY <2>1, SamePage DEF LogInv
  <2>2. CASE c = d
    BY <1>1, <1>2, <2>2
  <2> QED BY <1>2, <2>1, <2>2
<1> QED BY <1>3, <1>4 DEF LogInv, Users, Filter

LEMMA RowStep ==
    ASSUME LogInv, NEW user \in Users, AuditRow(user)
    PROVE  LogInv'
<1>1. /\ log' = Append(log, user) /\ UNCHANGED <<isAdmin, filters, logs, hasMore, total, cursorStack, calls, shown>>
      /\ log \in Seq({Me, Other}) /\ user \in {Me, Other}
  BY DEF AuditRow, LogInv, Users, page
<1>2. ASSUME NEW c, NEW p \in Seq(Nat), NEW more, Consecutive(c, p, more)
      PROVE  Consecutive(c, p, more)'
  <2>1. PICK V, W : V = Visible(c.filter) /\ W = Visible(c.filter)'
    OBVIOUS
  <2>2. PICK oldest : oldest \in BOOLEAN /\ oldest = (c.after = All /\ ~more)
    OBVIOUS
  <2>3. IsPage(V, p, oldest)
    BY <1>2, <2>1, <2>2 DEF Consecutive
  <2>4. IsPage(W, p, oldest)
    BY <1>1, <2>1, <2>2, <2>3, RowAdded
  <2> QED BY <2>1, <2>2, <2>4 DEF Consecutive
<1>3. Consecutive(shown, logs, hasMore)'
  BY <1>1, <1>2 DEF LogInv
<1>4. ASSUME NEW c \in calls, c.answer # All
      PROVE  Consecutive(c, c.answer.logs, c.answer.hasMore)'
  BY <1>2, <1>4 DEF LogInv
<1>5. log' \in Seq(Users)
  BY <1>1 DEF Users
<1> QED BY <1>1, <1>3, <1>4, <1>5 DEF LogInv, Filter

LEMMA AuditStep ==
    ASSUME AuditConstants, LogInv, NEW c \in calls, GetAudit(c)
    PROVE  LogInv'
<1>1. /\ UNCHANGED <<log, isAdmin, filters, logs, hasMore, total, cursorStack, shown>> /\ log \in Seq({Me, Other})
  BY DEF GetAudit, page, LogInv, Users
<1>2. PICK k, f, before, after :
                              /\ c.number = k /\ k \in Nat
                              /\ c.before = before /\ c.after = after /\ c.filter = f
                              /\ before \in Nat \union {All} /\ after \in Nat \union {All}
                              /\ f \in Filter
                              /\ c = [number |-> k, filter |-> f, before |-> before,
                                      after |-> after, answer |-> c.answer]
  BY DEF LogInv
<1>3. PICK u, a : u = UserOf(c) /\ a = QueryAuditLogs(u, before, after)
  OBVIOUS
<1>4. PICK d : /\ d = [number |-> k, filter |-> f, before |-> before, after |-> after, answer |-> a]
               /\ calls' = (calls \ {c}) \union {d}
  <2>1. calls' = (calls \ {c}) \union {[c EXCEPT !.answer = a]}
    BY <1>2, <1>3 DEF GetAudit
  <2>2. [c EXCEPT !.answer = a] =
          [number |-> k, filter |-> f, before |-> before, after |-> after, answer |-> a]
    BY <1>2
  <2> QED BY <2>1, <2>2
<1>5. PICK V : V = Matching(u) /\ V = Visible(f)
  BY <1>2, <1>3 DEF Visible, UserOf
<1>6. V \subseteq Nat /\ IsFiniteSet(V)
  BY <1>1, <1>5, VisibleFacts
<1>7. PICK oldest : oldest \in BOOLEAN /\ oldest = (after = All /\ ~a.hasMore)
  OBVIOUS
<1>8. a.logs \in Seq(Nat) /\ IsPage(V, a.logs, oldest)
  <2>1. PICK p : p = a.logs
    OBVIOUS
  <2>2. /\ p \in Seq(Nat)
        /\ p # <<>> => /\ Len(p) <= PageSize /\ InRow(V, p)
                       /\ oldest => \A i \in V : p[Len(p)] <= i
    <3>1. /\ before \in Nat \union {All} /\ after \in Nat \union {All}
          /\ V = Matching(u) /\ V \subseteq Nat /\ IsFiniteSet(V)
          /\ a = QueryAuditLogs(u, before, after)
      BY <1>2, <1>3, <1>5, <1>6
    <3>2. a.logs \in Seq(Nat)
      BY <3>1, QueryFacts
    <3>3. a.logs # <<>> => Len(a.logs) <= PageSize /\ InRow(V, a.logs)
      BY <3>1, QueryFacts
    <3>4. a.logs # <<>> /\ after = All /\ ~a.hasMore => \A i \in V : a.logs[Len(a.logs)] <= i
      BY <3>1, QueryFacts
    <3> QED BY <1>7, <2>1, <3>2, <3>3, <3>4
  <2>3. IsPage(V, p, oldest)
    BY <1>7, <2>2, PageIs
  <2> QED BY <2>1, <2>2, <2>3
<1>9. Consecutive(d, a.logs, a.hasMore)
  <2>1. Visible(d.filter) = V /\ oldest = (d.after = All /\ ~a.hasMore)
    BY <1>4, <1>5, <1>7
  <2>2. PICK p : p = a.logs /\ p \in Seq(Nat) /\ IsPage(V, p, oldest)
    BY <1>8
  <2> QED BY <1>7, <2>1, <2>2 DEF Consecutive
<1>10. ASSUME NEW e \in calls'
       PROVE  /\ e \in [number : Nat, filter : Filter, before : Nat \union {All},
                         after : Nat \union {All}, answer : {e.answer}]
              /\ e.answer # All =>
                   /\ e.answer.logs \in Seq(Nat)
                   /\ Consecutive(e, e.answer.logs, e.answer.hasMore)'
  <2>1. CASE e \in calls
    BY <1>1, <2>1, SamePage DEF LogInv
  <2>2. CASE e = d
    <3>1. e.answer = a
      BY <1>4, <2>2
    <3>2. Consecutive(d, a.logs, a.hasMore)'
      BY <1>1, <1>9, SamePage
    <3> QED BY <1>2, <1>4, <1>8, <2>2, <3>1, <3>2
  <2> QED BY <1>4, <2>1, <2>2
<1>11. Consecutive(shown, logs, hasMore)'
  BY <1>1, SamePage DEF LogInv
<1> QED BY <1>1, <1>10, <1>11 DEF LogInv, Filter

\* Steps that make no call; an answer is shown as it is
LEMMA PageStep ==
    ASSUME LogInv, UNCHANGED <<log, isAdmin, filters, cursorStack>>, calls' \subseteq calls,
           \/ UNCHANGED <<logs, hasMore, shown>>
           \/ \E c \in calls : Answered(c)
    PROVE  LogInv'
<1>1. ASSUME NEW c \in calls'
      PROVE  /\ c \in [number : Nat, filter : Filter, before : Nat \union {All},
                        after : Nat \union {All}, answer : {c.answer}]
             /\ c.answer # All =>
                  /\ c.answer.logs \in Seq(Nat)
                  /\ Consecutive(c, c.answer.logs, c.answer.hasMore)'
  BY SamePage DEF LogInv
<1>2. logs' \in Seq(Nat) /\ Consecutive(shown, logs, hasMore)'
  <2>1. CASE UNCHANGED <<logs, hasMore, shown>>
    BY <2>1, SamePage DEF LogInv
  <2>2. ASSUME NEW c \in calls, Answered(c)
        PROVE  logs' \in Seq(Nat) /\ Consecutive(shown, logs, hasMore)'
    <3>1. PICK p, m, d : /\ p = c.answer.logs /\ m = c.answer.hasMore
                         /\ d = Asks(c)
      OBVIOUS
    <3>2. logs' = p /\ hasMore' = m /\ shown' = d /\ c.answer # All
      BY <2>2, <3>1 DEF Answered
    <3>3. d.filter = c.filter /\ d.after = c.after
      BY <3>1 DEF Asks
    <3>4. p \in Seq(Nat) /\ Consecutive(c, p, m)
      BY <3>1, <3>2 DEF LogInv
    <3>5. Consecutive(d, p, m)
      BY <3>3, <3>4 DEF Consecutive
    <3>6. Consecutive(d, p, m)'
      BY <3>5, SamePage
    <3> QED BY <3>2, <3>4, <3>6
  <2> QED BY <2>1, <2>2
<1> QED BY <1>1, <1>2 DEF LogInv, Filter, Users

LEMMA LogNext ==
    ASSUME AuditConstants, LogInv, [Next]_vars
    PROVE  LogInv'
<1>0. logs \in Seq(Nat) /\ cursorStack \in Seq(Nat) /\ filters \in Filter
  BY DEF LogInv
<1>1. ASSUME NEW f \in Filter, SetFilters(f) PROVE LogInv'
  <2>1. /\ UNCHANGED <<log, isAdmin, logs, hasMore, shown>> /\ filters' = f /\ cursorStack' = <<>>
        /\ FetchLogs(f, All, All)
    BY <1>1 DEF SetFilters
  <2>2. cursorStack' \in Seq(Nat)
    BY <2>1
  <2> QED BY <2>1, <2>2, FetchStep
<1>2. CASE Refresh
  <2>1. /\ UNCHANGED <<log, isAdmin, filters, logs, hasMore, cursorStack, shown>>
        /\ FetchLogs(filters, All, All)
    BY <1>2 DEF Refresh
  <2> QED BY <1>0, <2>1, FetchStep
<1>3. CASE HandleNextPage
  <2>1. PICK first, last : first = logs[1] /\ last = Last(logs)
    OBVIOUS
  <2>2. first \in Nat /\ last \in Nat
    <3>1. PICK n : n = Len(logs) /\ n \in Nat /\ n # 0 /\ DOMAIN logs = 1..n
      <4>1. logs # <<>>
        BY <1>3 DEF HandleNextPage
      <4>2. Len(logs) \in Nat /\ DOMAIN logs = 1..Len(logs) /\ Len(logs) # 0
        BY <1>0, <4>1, LenProperties
      <4> QED BY <4>2
    <3>2. 1 \in DOMAIN logs /\ n \in DOMAIN logs /\ last = logs[n]
      BY <2>1, <3>1 DEF Last
    <3> QED BY <1>0, <2>1, <3>2
  <2>3. /\ UNCHANGED <<log, isAdmin, filters, logs, hasMore, shown>> /\ cursorStack' = Append(cursorStack, first)
        /\ FetchLogs(filters, last, All)
    BY <1>3, <2>1 DEF HandleNextPage
  <2>4. cursorStack' \in Seq(Nat)
    BY <1>0, <2>2, <2>3, AppendProperties
  <2> QED BY <1>0, <2>2, <2>3, <2>4, FetchStep
<1>4. CASE HandlePrevPage
  <2>1. PICK n : n = Len(cursorStack) /\ n \in Nat /\ n # 0 /\ DOMAIN cursorStack = 1..n
    BY <1>0, <1>4, LenProperties DEF HandlePrevPage
  <2>2. PICK after : after = IF Len(cursorStack) = 1 THEN All ELSE Last(cursorStack)
    OBVIOUS
  <2>3. after \in Nat \union {All}
    <3>1. Last(cursorStack) = cursorStack[n] /\ cursorStack[n] \in Nat
      BY <1>0, <2>1 DEF Last
    <3> QED BY <2>2, <3>1
  <2>4. /\ UNCHANGED <<log, isAdmin, filters, logs, hasMore, shown>> /\ cursorStack' = Front(cursorStack)
        /\ FetchLogs(filters, All, after)
    BY <1>4, <2>2 DEF HandlePrevPage
  <2>5. cursorStack' \in Seq(Nat)
    <3>1. \A i \in 1..(n - 1) : cursorStack[i] \in Nat
      BY <1>0, <2>1
    <3>2. PICK m : m = n - 1 /\ m \in Int /\ cursorStack' = SubSeq(cursorStack, 1, m)
      BY <2>1, <2>4 DEF Front
    <3> QED BY <3>1, <3>2, SubSeqProperties
  <2> QED BY <1>0, <2>3, <2>4, <2>5, FetchStep
<1>5. ASSUME NEW c \in calls, Answered(c) \/ CallFails(c) PROVE LogInv'
  <2>1. UNCHANGED <<log, isAdmin, filters, cursorStack>> /\ calls' \subseteq calls
    BY <1>5 DEF Answered, CallFails, page
  <2>2. CallFails(c) => UNCHANGED <<logs, hasMore, shown>>
    BY DEF CallFails, page
  <2> QED BY <1>5, <2>1, <2>2, PageStep
<1>6. CASE UNCHANGED vars
  <2>1. calls' \subseteq calls /\ UNCHANGED <<log, isAdmin, filters, logs, hasMore, cursorStack, shown>>
    BY <1>6 DEF vars, page
  <2> QED BY <2>1, PageStep
<1> QED BY <1>1, <1>2, <1>3, <1>4, <1>5, <1>6, RowStep, AuditStep DEF Next

-----------------------------------------------------------------------------
\* Types
LEMMA LogTypesInit ==
    ASSUME AuditConstants, Init
    PROVE  LogBounded
<1> USE DEF AuditConstants
<1>1. PICK n : n = MaxLogs - 1 /\ log \in [1..n -> Users]
  BY DEF Init
<1>2. n \in Nat /\ n <= MaxLogs /\ 0 \in 0..MaxLogs
  BY <1>1
<1>3. log \in Seq(Users) /\ Len(log) <= MaxLogs
  <2>1. log \in Seq(Users)
    BY <1>1, <1>2, SeqOfFunction
  <2>2. Len(log) = n
    BY <1>1, <1>2, <2>1, LenProperties
  <2> QED BY <1>2, <2>1, <2>2
<1>4. /\ isAdmin \in BOOLEAN /\ filters \in Filter /\ logs \in Seq(Ids) /\ cursorStack \in Seq(Ids)
      /\ hasMore \in BOOLEAN /\ total = 0 /\ shown = All /\ loading \in BOOLEAN
  <2>1. isAdmin \in BOOLEAN /\ hasMore \in BOOLEAN /\ loading \in BOOLEAN
    BY DEF Init
  <2>2. <<>> \in Seq(Ids)
    OBVIOUS
  <2>3. logs = <<>> /\ cursorStack = <<>> /\ total = 0 /\ shown = All /\ filters = All
    BY DEF Init
  <2> QED BY <2>1, <2>2, <2>3 DEF Filter
<1>5. \A c \in calls : c \in Call
  BY DEF Init, Call, Filter, AuditConstants
<1> QED BY <1>2, <1>3, <1>4, <1>5 DEF LogBounded, TypeOK

\* The answer of a query has the rows of the log
LEMMA AnswerTyped ==
    ASSUME AuditConstants, LogBounded, NEW c \in calls, c.answer = All
    PROVE  QueryAuditLogs(UserOf(c), c.before, c.after) \in Answer
<1>1. PICK a, f : f = UserOf(c) /\ a = QueryAuditLogs(f, c.before, c.after)
  OBVIOUS
<1>2. PICK n : n = Len(log) /\ n \in Nat /\ DOMAIN log = 1..n /\ n <= MaxLogs
  BY LenProperties DEF LogBounded, TypeOK
<1>3. PICK V : V = Matching(f) /\ V \subseteq 1..n
  BY <1>2 DEF Matching
<1>4. V \subseteq Nat /\ IsFiniteSet(V) /\ V \subseteq Ids
  <2>1. IsFiniteSet(1..n)
    BY <1>2, FS_Interval
  <2> QED BY <1>2, <1>3, <2>1, FS_Subset DEF AuditConstants, Ids
<1>5. c.before \in Nat \union {All} /\ c.after \in Nat \union {All}
  BY DEF LogBounded, TypeOK, Call, Ids
<1>6. a.logs \in Seq(Ids)
  <2>1. PICK p : p = a.logs
    OBVIOUS
  <2>0. PICK before, after : /\ before = c.before /\ after = c.after
                             /\ before \in Nat \union {All} /\ after \in Nat \union {All}
    BY <1>5
  <2>00. /\ V = Matching(f) /\ V \subseteq Nat /\ IsFiniteSet(V)
         /\ a = QueryAuditLogs(f, before, after)
    BY <1>1, <1>3, <1>4, <2>0
  <2>02. a.logs \in Seq(Nat)
    BY <2>0, <2>00, QueryFacts
  <2>03. a.logs # <<>> => InRow(V, a.logs)
    BY <2>0, <2>00, QueryFacts
  <2>2. p \in Seq(Nat)
    BY <2>1, <2>02
  <2>3. p # <<>> => InRow(V, p)
    BY <2>1, <2>03
  <2>4. \A i \in DOMAIN p : p[i] \in V
    <3>1. p # <<>> => \A i \in DOMAIN p : p[i] \in V
      BY <2>3 DEF InRow, ToSet
    <3>2. p = <<>> => \A i \in DOMAIN p : p[i] \in V
      OBVIOUS
    <3> QED BY <3>1, <3>2
  <2>5. PICK m : m = Len(p) /\ m \in Nat /\ p = [i \in 1..m |-> p[i]] /\ DOMAIN p = 1..m
    BY <2>2, LenProperties
  <2>6. p \in [1..m -> Ids]
    BY <1>4, <2>4, <2>5
  <2> QED BY <2>1, <2>5, <2>6, SeqOfFunction
<1>7. PICK k : k = Cardinality(V) /\ k \in 0..MaxLogs
  <2>1. Cardinality(V) <= n
    <3>1. n \in Nat
      BY <1>2
    <3>2. IsFiniteSet(1..n) /\ Cardinality(1..n) = n
      BY <3>1, FS_Interval
    <3>3. Cardinality(V) <= Cardinality(1..n)
      BY <1>3, <3>2, FS_Subset
    <3> QED BY <3>2, <3>3
  <2>2. Cardinality(V) \in Nat
    BY <1>4, FS_CardinalityType
  <2>3. PICK k : k = Cardinality(V) /\ k \in Nat /\ k <= n
    BY <2>1, <2>2
  <2> QED BY <1>2, <2>3 DEF AuditConstants
<1>8. PICK logs_, more : a = [logs |-> logs_, hasMore |-> more,
                              total |-> IF c.before = All /\ c.after = All THEN k ELSE 0]
                         /\ more \in BOOLEAN
  <2>1. PICK rows : rows = IF c.before # All THEN {i \in V : i < c.before}
                           ELSE IF c.after # All THEN {i \in V : i > c.after} ELSE V
    OBVIOUS
  <2>2. PICK l : a = [logs |-> l, hasMore |-> Cardinality(rows) > PageSize,
                      total |-> IF c.before = All /\ c.after = All THEN k ELSE 0]
    BY <1>1, <1>3, <1>7, <2>1 DEF QueryAuditLogs, MoreThan
  <2>3. PICK r : r = Cardinality(rows) /\ r \in Nat
    <3>1. rows \subseteq V
      BY <2>1
    <3> QED BY <1>4, <3>1, FS_Subset, FS_CardinalityType
  <2>4. CASE r > PageSize
    <3>1. (r > PageSize) = TRUE
      BY <2>3, <2>4 DEF AuditConstants
    <3> QED BY <2>2, <2>3, <3>1
  <2>5. CASE ~(r > PageSize)
    <3>1. (r > PageSize) = FALSE
      BY <2>3, <2>5 DEF AuditConstants
    <3> QED BY <2>2, <2>3, <3>1
  <2> QED BY <2>4, <2>5
<1>9. 0 \in 0..MaxLogs
  BY DEF AuditConstants
<1> QED BY <1>1, <1>6, <1>7, <1>8, <1>9 DEF Answer

\* So is a call that is made
LEMMA CallTyped ==
    ASSUME LogBounded, NEW f \in Filter, NEW before \in Ids \union {All}, NEW after \in Ids \union {All},
           FetchLogs(f, before, after)
    PROVE  (\A c \in calls' : c \in Call) /\ loading' = TRUE
<1>1. PICK n \in 1..MaxCalls :
        calls' = calls \union
          {[number |-> n, filter |-> IF isAdmin THEN f ELSE All, before |-> before,
            after |-> after, answer |-> All]}
  BY DEF FetchLogs
<1>2. [number |-> n, filter |-> IF isAdmin THEN f ELSE All, before |-> before, after |-> after,
       answer |-> All] \in Call
  BY DEF Call, Filter
<1> QED BY <1>1, <1>2 DEF FetchLogs, LogBounded, TypeOK

LEMMA LogTypes ==
    ASSUME AuditConstants, LogBounded, [Next]_vars
    PROVE  LogBounded'
<1> USE DEF LogBounded, TypeOK
<1>0. Ids' = Ids /\ Filter' = Filter /\ Call' = Call /\ Asked' = Asked /\ Users' = Users
  BY DEF Ids, Filter, Call, Asked, Users, Answer
<1>1. ASSUME NEW user \in Users, AuditRow(user)
      PROVE  LogBounded'
  <2>1. PICK n : n = Len(log) /\ n \in Nat
    BY LenProperties
  <2>2. /\ log' = Append(log, user) /\ n < MaxLogs
        /\ UNCHANGED <<isAdmin, filters, loading, logs, hasMore, total, cursorStack, shown, calls>>
    BY <1>1, <2>1 DEF AuditRow, page
  <2>3. log' \in Seq(Users) /\ Len(log') = n + 1
    BY <2>1, <2>2, AppendProperties
  <2>4. Len(log') <= MaxLogs
    BY <2>1, <2>2, <2>3 DEF AuditConstants
  <2> QED BY <1>0, <2>2, <2>3, <2>4
<1>2. ASSUME NEW c \in calls, GetAudit(c)
      PROVE  LogBounded'
  <2>1. PICK a \in Answer : calls' = (calls \ {c}) \union {[c EXCEPT !.answer = a]}
    BY <1>2, AnswerTyped DEF GetAudit
  <2>2. [c EXCEPT !.answer = a] \in Call
    BY DEF Call
  <2>3. UNCHANGED <<log, isAdmin, filters, loading, logs, hasMore, total, cursorStack, shown>>
    BY <1>2 DEF GetAudit, page
  <2> QED BY <1>0, <2>1, <2>2, <2>3
<1>3. ASSUME NEW c \in calls, Answered(c)
      PROVE  LogBounded'
  <2>1. c.answer \in Answer /\ Asks(c) \in Asked
    BY <1>3 DEF Answered, Call, Asks, Asked
  <2>2. /\ calls' = calls \ {c} /\ logs' \in Seq(Ids) /\ hasMore' \in BOOLEAN /\ total' \in 0..MaxLogs
        /\ shown' \in Asked /\ loading' = FALSE
    BY <1>3, <2>1 DEF Answered, Answer
  <2>3. UNCHANGED <<log, isAdmin, filters, cursorStack>>
    BY <1>3 DEF Answered
  <2> QED BY <1>0, <2>2, <2>3
<1>4. ASSUME NEW c \in calls, CallFails(c)
      PROVE  LogBounded'
  <2>1. /\ calls' = calls \ {c} /\ loading' = FALSE
        /\ UNCHANGED <<log, isAdmin, filters, logs, hasMore, total, cursorStack, shown>>
    BY <1>4 DEF CallFails
  <2> QED BY <1>0, <2>1
<1>5. ASSUME NEW f \in Filter, SetFilters(f)
      PROVE  LogBounded'
  <2>1. (\A c \in calls' : c \in Call) /\ loading' = TRUE
    BY <1>5, CallTyped DEF SetFilters
  <2>2. filters' = f /\ cursorStack' = <<>> /\ UNCHANGED <<log, isAdmin, logs, hasMore, total, shown>>
    BY <1>5 DEF SetFilters
  <2>3. cursorStack' \in Seq(Ids)
    BY <2>2
  <2> QED BY <1>0, <2>1, <2>2, <2>3
<1>6. CASE Refresh
  <2>1. (\A c \in calls' : c \in Call) /\ loading' = TRUE
    BY <1>6, CallTyped DEF Refresh
  <2>2. UNCHANGED <<log, isAdmin, filters, logs, hasMore, total, cursorStack, shown>>
    BY <1>6 DEF Refresh
  <2> QED BY <1>0, <2>1, <2>2
<1>7. CASE HandleNextPage
  <2>0. logs # <<>>
    BY <1>7 DEF HandleNextPage
  <2>1. PICK n : n = Len(logs) /\ n \in Nat /\ n # 0 /\ DOMAIN logs = 1..n
    BY <2>0, LenProperties
  <2>2. Last(logs) \in Ids /\ logs[1] \in Ids
    <3>1. 1 \in DOMAIN logs /\ n \in DOMAIN logs
      BY <2>1
    <3> QED BY <2>1, <3>1 DEF Last
  <2>3. (\A c \in calls' : c \in Call) /\ loading' = TRUE
    BY <1>7, <2>2, CallTyped DEF HandleNextPage
  <2>4. /\ UNCHANGED <<log, isAdmin, filters, logs, hasMore, total, shown>>
        /\ cursorStack' = Append(cursorStack, logs[1])
    BY <1>7 DEF HandleNextPage
  <2>5. cursorStack' \in Seq(Ids)
    BY <2>2, <2>4, AppendProperties
  <2> QED BY <1>0, <2>3, <2>4, <2>5
<1>8. CASE HandlePrevPage
  <2>1. PICK n : n = Len(cursorStack) /\ n \in Nat /\ n # 0 /\ DOMAIN cursorStack = 1..n
    BY <1>8, LenProperties DEF HandlePrevPage
  <2>2. Last(cursorStack) \in Ids
    <3>1. n \in DOMAIN cursorStack
      BY <2>1
    <3> QED BY <2>1, <3>1 DEF Last
  <2>3. PICK after \in Ids \union {All} : FetchLogs(filters, All, after)
    BY <1>8, <2>2 DEF HandlePrevPage
  <2>4. (\A c \in calls' : c \in Call) /\ loading' = TRUE
    BY <2>3, CallTyped
  <2>5. UNCHANGED <<log, isAdmin, filters, logs, hasMore, total, shown>> /\ cursorStack' = Front(cursorStack)
    BY <1>8 DEF HandlePrevPage
  <2>6. cursorStack' \in Seq(Ids)
    <3>1. PICK m : m = n - 1 /\ m \in Int /\ cursorStack' = SubSeq(cursorStack, 1, m)
      BY <2>1, <2>5 DEF Front
    <3>2. \A i \in 1..m : cursorStack[i] \in Ids
      BY <2>1, <3>1
    <3> QED BY <3>1, <3>2, SubSeqProperties
  <2> QED BY <1>0, <2>4, <2>5, <2>6
<1>9. CASE UNCHANGED vars
  BY <1>0, <1>9 DEF vars, page
<1> QED BY <1>1, <1>2, <1>3, <1>4, <1>5, <1>6, <1>7, <1>8, <1>9 DEF Next
=============================================================================
