-------------------------- MODULE SupervisorProofs --------------------------
(***************************************************************************)
(* Proofs about the supervisor and the distributors it uses, in five       *)
(* parts: induction over sets that are values, folds and sums as the runs  *)
(* of their steps, what each distributor hands out, the invariants of the  *)
(* supervisor, and its least load and gap.                                 *)
(***************************************************************************)
EXTENDS Supervisor, TLAPS, FiniteSetTheorems, SequenceTheorems, WellFoundedInduction

-----------------------------------------------------------------------------
(* Induction.  The sets of good subsets and good numbers are values here,  *)
(* not operators, so that the provers can be given one.                    *)

LEMMA SubsetInduction ==
    ASSUME NEW S, IsFiniteSet(S), NEW Good,
           \A T \in SUBSET S : (\A U \in SUBSET T : U # T => U \in Good) => T \in Good
    PROVE  \A T \in SUBSET S : T \in Good
<1> DEFINE Bad == {T \in SUBSET S : T \notin Good}
<1>1. IsWellFoundedOn(StrictSubsetOrdering(S), SUBSET S)
  BY FS_StrictSubsetOrderingWellFounded, FS_FiniteSubsetsOfFinite
<1>2. SUFFICES ASSUME Bad # {} PROVE FALSE
  OBVIOUS
<1>3. PICK T \in Bad : \A U \in Bad : <<U, T>> \notin StrictSubsetOrdering(S)
  <2>1. Bad \subseteq SUBSET S
    OBVIOUS
  <2> HIDE DEF Bad
  <2>. QED BY <1>1, <1>2, <2>1, WFMin
<1>4. \A U \in SUBSET T : U # T => U \in Good
  BY <1>3 DEF StrictSubsetOrdering
<1>. QED BY <1>3, <1>4

\* The positions of a sequence are finitely many.
LEMMA PositionsAreFinite ==
    ASSUME NEW n \in Nat
    PROVE  IsFiniteSet(1..n)
<1>1. 1 \in Int /\ n \in Int
  OBVIOUS
<1>. QED BY ONLY <1>1, FS_Interval

\* What holds of 0 and is passed on from one number to the next holds up to n.
LEMMA CountInduction ==
    ASSUME NEW n \in Nat, NEW Good, 0 \in Good, \A i \in 1..n : i - 1 \in Good => i \in Good
    PROVE  \A i \in 0..n : i \in Good
<1> DEFINE Fine == {T \in SUBSET (1..n) : \A i \in 0..n : T = 1..i => i \in Good}
<1>1. IsFiniteSet(1..n)
  BY ONLY n \in Nat, PositionsAreFinite
<1>2. ASSUME NEW T \in SUBSET (1..n), \A U \in SUBSET T : U # T => U \in Fine
      PROVE  T \in Fine
  <2> SUFFICES ASSUME NEW i \in 0..n, T = 1..i PROVE i \in Good
    OBVIOUS
  <2>1. CASE i = 0
    BY <2>1
  <2>2. CASE i # 0
    <3>1. i \in 1..n /\ i - 1 \in 0..n
      BY <2>2
    <3>2. 1..(i - 1) \in SUBSET T /\ i \in T /\ i \notin 1..(i - 1)
      BY <3>1
    <3>3. 1..(i - 1) \in Fine
      BY <1>2, <3>2
    <3>. QED BY <3>1, <3>3
  <2>. QED BY <2>1, <2>2
<1>3. \A T \in SUBSET (1..n) : T \in Fine
  <2> HIDE DEF Fine
  <2>. QED BY <1>1, <1>2, SubsetInduction
<1>4. \A i \in 0..n : 1..i \in SUBSET (1..n)
  OBVIOUS
<1>. QED BY <1>3, <1>4

\* The largest element that Max chooses is one, whatever the finite set of numbers.
LEMMA MaxIsLargest ==
    ASSUME NEW n \in Nat, NEW s \in SUBSET (1..n), s # {}
    PROVE  Max(s) \in s /\ \A i \in s : Max(s) >= i
<1> DEFINE Good == {k \in 0..n : \A r \in SUBSET (1..k) : r # {} =>
                                    \E m \in r : \A i \in r : m >= i}
<1>1. 0 \in Good
  <2>1. \A r \in SUBSET (1..0) : r = {}
    OBVIOUS
  <2>2. \A r \in SUBSET (1..0) : r # {} => \E m \in r : \A i \in r : m >= i
    BY <2>1, Zenon
  <2>3. 0 \in 0..n
    OBVIOUS
  <2>. QED BY <2>2, <2>3, Zenon
<1>2. ASSUME NEW k \in 1..n, k - 1 \in Good PROVE k \in Good
  <2> SUFFICES ASSUME NEW r \in SUBSET (1..k), r # {}
               PROVE  \E m \in r : \A i \in r : m >= i
    OBVIOUS
  <2>1. CASE k \in r
    BY <2>1
  <2>2. CASE k \notin r
    <3>1. r \in SUBSET (1..(k - 1))
      BY <2>2
    <3>. QED BY <1>2, <3>1
  <2>. QED BY <2>1, <2>2
<1>3. n \in Good
  <2>1. \A k \in 0..n : k \in Good
    <3> HIDE DEF Good
    <3>. QED BY <1>1, <1>2, CountInduction
  <2> HIDE DEF Good
  <2>. QED BY <2>1
<1>4. \E m \in s : \A i \in s : m >= i
  BY <1>3
<1>. QED BY <1>4 DEF Max

-----------------------------------------------------------------------------
(* Folds.  A fold of the library is a recursive function on the subsets of *)
(* a finite set; this says that there is one.                              *)

\* g unwinds the subsets of S element by element.
Recurses(g, S, base, pick, step) ==
    \A s \in SUBSET S : g[s] = IF s = {} THEN base ELSE step[s][g[s \ {pick[s]}]]

LEMMA RecursionOnSubsets ==
    ASSUME NEW S, IsFiniteSet(S), NEW V, NEW base \in V,
           NEW pick, \A s \in SUBSET S : s # {} => pick[s] \in s,
           NEW step, \A s \in SUBSET S, v \in V : step[s][v] \in V
    PROVE  \E g \in [SUBSET S -> V] : Recurses(g, S, base, pick, step)
<1> DEFINE Small(k) == {s \in SUBSET S : Cardinality(s) <= k}
           n == Cardinality(S)
           Solves(g, k) == \A s \in Small(k) :
                              g[s] = IF s = {} THEN base ELSE step[s][g[s \ {pick[s]}]]
           Good == {k \in 0..n : \E g \in [Small(k) -> V] : Solves(g, k)}
<1>0. /\ n \in Nat
      /\ \A s \in SUBSET S : IsFiniteSet(s) /\ Cardinality(s) \in 0..n
  <2>1. n \in Nat
    BY FS_CardinalityType
  <2>2. ASSUME NEW s \in SUBSET S PROVE IsFiniteSet(s) /\ Cardinality(s) \in 0..n
    <3>1. IsFiniteSet(s) /\ Cardinality(s) <= n
      BY FS_Subset
    <3>2. Cardinality(s) \in Nat
      BY <3>1, FS_CardinalityType
    <3>. QED BY <2>1, <3>1, <3>2
  <2>. QED BY <2>1, <2>2
<1>1. 0 \in Good
  <2> DEFINE g == [s \in Small(0) |-> base]
  <2>1. \A s \in Small(0) : s = {}
    <3> SUFFICES ASSUME NEW s \in SUBSET S, Cardinality(s) <= 0 PROVE s = {}
      OBVIOUS
    <3>1. IsFiniteSet(s) /\ Cardinality(s) = 0
      BY <1>0
    <3>. QED BY <3>1, FS_EmptySet
  <2>2. g \in [Small(0) -> V] /\ Solves(g, 0)
    BY <2>1
  <2>3. 0 \in 0..n
    BY <1>0
  <2> HIDE DEF g, Small, Solves, n
  <2>. QED BY <2>2, <2>3, Zenon
<1>2. ASSUME NEW k \in 1..n, k - 1 \in Good PROVE k \in Good
  <2>1. PICK g \in [Small(k - 1) -> V] : Solves(g, k - 1)
    BY <1>2
  <2> DEFINE h == [s \in Small(k) |->
                      IF s = {} THEN base ELSE step[s][g[s \ {pick[s]}]]]
  <2>2. ASSUME NEW s \in Small(k), s # {} PROVE s \ {pick[s]} \in Small(k - 1)
    <3>1. pick[s] \in s
      BY <2>2
    <3>2. Cardinality(s \ {pick[s]}) = Cardinality(s) - 1
      BY <1>0, <3>1, FS_RemoveElement
    <3>. QED BY <1>0, <3>2
  <2>3. h \in [Small(k) -> V]
    BY <2>2
  <2>4. Small(k - 1) \subseteq Small(k)
    BY <1>0
  <2>5. \A s \in Small(k - 1) : h[s] = g[s]
    BY <2>1, <2>4
  <2>6. Solves(h, k)
    BY <2>2, <2>5
  <2>7. k \in 0..n
    BY <1>0
  <2> HIDE DEF h, Small, Solves, n
  <2>. QED BY <2>3, <2>6, <2>7, Zenon
<1>3. n \in Good
  <2>1. \A k \in 0..n : k \in Good
    <3> HIDE DEF Good
    <3>. QED BY <1>0, <1>1, <1>2, CountInduction
  <2> HIDE DEF Good
  <2>. QED BY <1>0, <2>1
<1>4. Small(n) = SUBSET S
  BY <1>0
<1>. QED BY <1>3, <1>4 DEF Recurses

\* g unwinds a sequence of n elements, the last one first.
Unwinds(g, n, base, step) ==
    \A s \in SUBSET (1..n) :
       g[s] = IF s = {} THEN base ELSE step[Max(s)][g[s \ {Max(s)}]]

\* The same where the values it unwinds are known to be in V.
UnwindsIn(V, g, n, base, step) ==
    /\ g[{}] = base
    /\ \A s \in SUBSET (1..n) :
          s # {} /\ g[s \ {Max(s)}] \in V => g[s] = step[Max(s)][g[s \ {Max(s)}]]

\* run holds what a fold has made of the first elements, at last the whole of it.
Runs(run, n, base, step, whole) ==
    /\ run[0] = base /\ \A i \in 1..n : run[i] = step[i][run[i - 1]]
    /\ run[n] = whole

\* A fold over a sequence of n elements takes the elements one by one, in order: fold
\* is the recursive function of FoldLeft, step what it does with element i.
LEMMA SequenceFold ==
    ASSUME NEW n \in Nat, NEW V, NEW base \in V,
           NEW step, \A i \in 1..n, v \in V : step[i][v] \in V
    PROVE  \E g \in [SUBSET (1..n) -> V] : Unwinds(g, n, base, step)
<1> DEFINE S == 1..n
           pick == [s \in SUBSET S |-> Max(s)]
           stepOf == [s \in SUBSET S |-> [v \in V |-> IF s = {} THEN base ELSE step[Max(s)][v]]]
<1>1. IsFiniteSet(S)
  BY ONLY n \in Nat, PositionsAreFinite
<1>2. \A s \in SUBSET S : s # {} => pick[s] \in s
  BY MaxIsLargest
<1>3. \A s \in SUBSET S, v \in V : stepOf[s][v] \in V
  BY <1>2
<1>4. PICK g \in [SUBSET S -> V] : Recurses(g, S, base, pick, stepOf)
  <2>1. base \in V
    OBVIOUS
  <2> HIDE DEF S, pick, stepOf
  <2>. QED BY <1>1, <1>2, <1>3, <2>1, RecursionOnSubsets
<1>5. ASSUME NEW s \in SUBSET S
      PROVE  g[s] = IF s = {} THEN base ELSE step[Max(s)][g[s \ {Max(s)}]]
  <2>1. CASE s = {}
    BY <1>4, <2>1 DEF Recurses
  <2>2. CASE s # {}
    <3>1. s \ {Max(s)} \in SUBSET S /\ g[s \ {Max(s)}] \in V
      BY <1>4
    <3>2. g[s] = stepOf[s][g[s \ {Max(s)}]]
      BY <1>4, <2>2 DEF Recurses
    <3>. QED BY <2>2, <3>1, <3>2
  <2>. QED BY <2>1, <2>2
<1>. QED BY <1>4, <1>5 DEF Unwinds

\* What a solution of that recursion says of the prefixes.
LEMMA FoldPrefixes ==
    ASSUME NEW n \in Nat, NEW V, NEW i \in 0..n
    PROVE  /\ 1..i \in SUBSET (1..n)
           /\ i = 0 => 1..i = {}
           /\ i > 0 => 1..i # {} /\ Max(1..i) = i /\ (1..i) \ {Max(1..i)} = 1..(i - 1)
<1>1. 1..i \in SUBSET (1..n)
  OBVIOUS
<1>2. CASE i > 0
  <2>0. 1..i # {}
    BY <1>2
  <2>1. Max(1..i) \in 1..i /\ \A k \in 1..i : Max(1..i) >= k
    BY <1>1, <2>0, MaxIsLargest
  <2>2. Max(1..i) = i
    BY <1>2, <2>1
  <2>3. (1..i) \ {i} = 1..(i - 1)
    OBVIOUS
  <2>. QED BY <1>1, <1>2, <2>0, <2>2, <2>3
<1>3. CASE i = 0
  BY <1>1, <1>3
<1>. QED BY <1>2, <1>3

\* The results of a fold's steps on 1..n: it unwinds the prefixes wherever it is in V.
LEMMA FoldRun ==
    ASSUME NEW n \in Nat, NEW V, NEW base \in V,
           NEW step, \A i \in 1..n, v \in V : step[i][v] \in V,
           NEW it, UnwindsIn(V, it, n, base, step)
    PROVE  \E run \in [0..n -> V] : Runs(run, n, base, step, it[1..n])
<1> DEFINE Good == {i \in 0..n : it[1..i] \in V}
           run == [i \in 0..n |-> it[1..i]]
<1>1. it[1..0] = base
  <2>1. 1..0 = {}
    OBVIOUS
  <2>. QED BY <2>1 DEF UnwindsIn
<1>2. ASSUME NEW i \in 1..n, it[1..(i - 1)] \in V
      PROVE  it[1..i] = step[i][it[1..(i - 1)]] /\ it[1..i] \in V
  <2>1. 1..i \in SUBSET (1..n) /\ 1..i # {} /\ Max(1..i) = i /\ (1..i) \ {Max(1..i)} = 1..(i - 1)
    BY FoldPrefixes
  <2>2. it[1..i] = step[Max(1..i)][it[(1..i) \ {Max(1..i)}]]
    BY <1>2, <2>1 DEF UnwindsIn
  <2>3. it[1..i] = step[i][it[1..(i - 1)]]
    BY <2>1, <2>2
  <2>. QED BY <1>2, <2>3
<1>3. \A i \in 0..n : it[1..i] \in V
  <2>1. 0 \in Good
    BY <1>1
  <2>2. \A i \in 1..n : i - 1 \in Good => i \in Good
    BY <1>2
  <2>3. \A i \in 0..n : i \in Good
    <3> HIDE DEF Good
    <3>. QED BY <2>1, <2>2, CountInduction
  <2>. QED BY <2>3
<1>4. run \in [0..n -> V] /\ run[n] = it[1..n]
  BY <1>3
<1>5. run[0] = base
  BY <1>1
<1>6. ASSUME NEW i \in 1..n PROVE run[i] = step[i][run[i - 1]]
  <2>1. i \in 0..n /\ i - 1 \in 0..n
    OBVIOUS
  <2>2. it[1..(i - 1)] \in V
    BY <1>3, <2>1
  <2>. QED BY <1>2, <2>1, <2>2
<1> HIDE DEF run
<1>. QED BY <1>4, <1>5, <1>6 DEF Runs

-----------------------------------------------------------------------------
(* Sums of functions with finitely many arguments.                         *)

IsSum(it, f, S) ==
    it = [s \in SUBSET S |-> IF s = {} THEN 0
                             ELSE f[CHOOSE x \in s : TRUE] + it[s \ {CHOOSE x \in s : TRUE}]]

SumIt(f, S) == CHOOSE it : IsSum(it, f, S)

LEMMA SumUnwinds ==
    ASSUME NEW S, IsFiniteSet(S), NEW f, \A x \in S : f[x] \in Nat
    PROVE  /\ IsSum(SumIt(f, S), f, S)
           /\ SumFunctionOnSet(f, S) = SumIt(f, S)[S]
<1> DEFINE pick == [s \in SUBSET S |-> CHOOSE x \in s : TRUE]
           step == [s \in SUBSET S |-> [v \in Nat |-> IF s = {} THEN 0 ELSE f[pick[s]] + v]]
<1>1. \A s \in SUBSET S : s # {} => pick[s] \in s
  OBVIOUS
<1>2. \A s \in SUBSET S, v \in Nat : step[s][v] \in Nat
  BY <1>1
<1>3. PICK g \in [SUBSET S -> Nat] : Recurses(g, S, 0, pick, step)
  <2>1. 0 \in Nat
    OBVIOUS
  <2> HIDE DEF pick, step
  <2>. QED BY <1>1, <1>2, <2>1, RecursionOnSubsets
<1>4. IsSum(g, f, S)
  <2> SUFFICES ASSUME NEW s \in SUBSET S
               PROVE  g[s] = IF s = {} THEN 0
                             ELSE f[CHOOSE x \in s : TRUE] + g[s \ {CHOOSE x \in s : TRUE}]
    BY <1>3 DEF IsSum
  <2>1. CASE s = {}
    BY <1>3, <2>1 DEF Recurses
  <2>2. CASE s # {}
    <3>1. g[s] = step[s][g[s \ {pick[s]}]]
      BY <1>3, <2>2 DEF Recurses
    <3>2. s \ {pick[s]} \in SUBSET S
      OBVIOUS
    <3>3. g[s \ {pick[s]}] \in Nat
      BY <1>3, <3>2
    <3>. QED BY <2>2, <3>1, <3>3
  <2>. QED BY <2>1, <2>2
<1>5. IsSum(SumIt(f, S), f, S)
  BY <1>4 DEF SumIt
<1>6. SumFunctionOnSet(f, S) = SumIt(f, S)[S]
  BY DEF SumFunctionOnSet, FoldFunctionOnSet, MapThenFoldSet, SumIt, IsSum
<1>. QED BY <1>5, <1>6

\* One recursion serves every subset of its set.
LEMMA SumOnSubsets ==
    ASSUME NEW S, IsFiniteSet(S), NEW f, \A x \in S : f[x] \in Nat, NEW T \in SUBSET S
    PROVE  SumFunctionOnSet(f, T) = SumIt(f, S)[T]
<1> DEFINE a == SumIt(f, S)
           b == SumIt(f, T)
           Good == {s \in SUBSET T : a[s] = b[s]}
<1>1. IsFiniteSet(T)
  BY FS_Subset
<1>2. IsSum(a, f, S) /\ IsSum(b, f, T) /\ SumFunctionOnSet(f, T) = b[T]
  BY <1>1, SumUnwinds
<1>3. ASSUME NEW s \in SUBSET T, \A u \in SUBSET s : u # s => u \in Good
      PROVE  s \in Good
  <2> HIDE DEF a, b
  <2>1. s \in SUBSET S
    OBVIOUS
  <2>2. CASE s = {}
    BY <1>2, <2>1, <2>2 DEF IsSum
  <2>3. CASE s # {}
    <3> DEFINE x == CHOOSE y \in s : TRUE
    <3>1. x \in s
      BY <2>3
    <3> HIDE DEF x
    <3>2. a[s \ {x}] = b[s \ {x}]
      BY <1>3, <3>1
    <3>3. a[s] = f[x] + a[s \ {x}]
      BY <1>2, <2>1, <2>3 DEF IsSum, x
    <3>4. b[s] = f[x] + b[s \ {x}]
      BY <1>2, <2>3 DEF IsSum, x
    <3>. QED BY <3>2, <3>3, <3>4
  <2>. QED BY <2>2, <2>3
<1>4. \A s \in SUBSET T : s \in Good
  <2> HIDE DEF Good
  <2>. QED BY <1>1, <1>3, SubsetInduction
<1>. QED BY <1>2, <1>4

\* A sum is a natural number, and any of its terms may be taken out first.
LEMMA SumTerm ==
    ASSUME NEW S, IsFiniteSet(S), NEW f, \A x \in S : f[x] \in Nat
    PROVE  /\ SumFunctionOnSet(f, {}) = 0
           /\ \A T \in SUBSET S : SumFunctionOnSet(f, T) \in Nat
           /\ \A T \in SUBSET S : \A x \in T :
                 SumFunctionOnSet(f, T) = f[x] + SumFunctionOnSet(f, T \ {x})
<1> DEFINE a == SumIt(f, S)
           Good == {T \in SUBSET S : /\ a[T] \in Nat
                                     /\ \A x \in T : a[T] = f[x] + a[T \ {x}]}
<1>1. IsSum(a, f, S)
  BY SumUnwinds
<1>2. \A T \in SUBSET S : SumFunctionOnSet(f, T) = a[T]
  BY SumOnSubsets
<1> HIDE DEF a
<1>3. a[{}] = 0
  BY <1>1 DEF IsSum
<1>4. ASSUME NEW T \in SUBSET S, \A U \in SUBSET T : U # T => U \in Good
      PROVE  T \in Good
  <2>1. CASE T = {}
    BY <1>3, <2>1
  <2>2. CASE T # {}
    <3> DEFINE c == CHOOSE y \in T : TRUE
    <3>1. c \in T
      BY <2>2
    <3>2. a[T] = f[c] + a[T \ {c}]
      BY <1>1, <2>2 DEF IsSum
    <3> HIDE DEF c
    <3>3. T \ {c} \in Good
      BY <1>4, <3>1
    <3>4. a[T] \in Nat
      BY <3>1, <3>2, <3>3
    <3>5. ASSUME NEW x \in T PROVE a[T] = f[x] + a[T \ {x}]
      <4>1. CASE x = c
        BY <3>2, <4>1
      <4>2. CASE x # c
        <5>1. T \ {x} \in Good
          BY <1>4
        <5>2. a[T \ {c}] = f[x] + a[(T \ {c}) \ {x}]
          BY <3>3, <4>2
        <5>3. a[T \ {x}] = f[c] + a[(T \ {x}) \ {c}]
          BY <3>1, <4>2, <5>1
        <5>4. (T \ {c}) \ {x} = T \ {c, x} /\ (T \ {x}) \ {c} = T \ {c, x}
          OBVIOUS
        <5>5. T \ {c, x} \in Good
          BY <1>4, <3>1
        <5>6. f[x] \in Nat /\ f[c] \in Nat /\ a[T \ {c, x}] \in Nat
          BY <3>1, <5>5
        <5>7. /\ a[T \ {c}] = f[x] + a[T \ {c, x}]
              /\ a[T \ {x}] = f[c] + a[T \ {c, x}]
          BY <5>2, <5>3, <5>4
        <5>. QED BY <3>2, <5>6, <5>7
      <4>. QED BY <4>1, <4>2
    <3>. QED BY <3>4, <3>5
  <2>. QED BY <2>1, <2>2
<1>5. \A T \in SUBSET S : T \in Good
  <2> HIDE DEF Good
  <2>. QED BY <1>4, SubsetInduction
<1>6. \A T \in SUBSET S : \A x \in T : T \ {x} \in SUBSET S
  OBVIOUS
<1>. QED BY <1>2, <1>3, <1>5, <1>6

\* Sums compare as their terms do.
LEMMA SumCompare ==
    ASSUME NEW S, IsFiniteSet(S), NEW f, NEW g,
           \A x \in S : f[x] \in Nat /\ g[x] \in Nat,
           NEW A \in SUBSET S, \A x \in A : g[x] = f[x] + 1, \A x \in S \ A : g[x] = f[x]
    PROVE  SumFunctionOnSet(g, S) = SumFunctionOnSet(f, S) + Cardinality(A)
<1> DEFINE F(T) == SumFunctionOnSet(f, T)
           G(T) == SumFunctionOnSet(g, T)
           Good == {T \in SUBSET S : G(T) = F(T) + Cardinality(T \cap A)}
<1>1. /\ F({}) = 0 /\ G({}) = 0
      /\ \A T \in SUBSET S : F(T) \in Nat /\ G(T) \in Nat
      /\ \A T \in SUBSET S : \A x \in T :
            F(T) = f[x] + F(T \ {x}) /\ G(T) = g[x] + G(T \ {x})
  BY SumTerm
<1>2. \A T \in SUBSET S : IsFiniteSet(T) /\ Cardinality(T) \in Nat
  BY FS_Subset, FS_CardinalityType
<1> HIDE DEF F, G
<1>3. ASSUME NEW T \in SUBSET S, \A U \in SUBSET T : U # T => U \in Good
      PROVE  T \in Good
  <2>1. CASE T = {}
    <3>1. T \cap A = {} /\ Cardinality(T \cap A) = 0
      BY <2>1, FS_EmptySet
    <3>. QED BY <1>1, <2>1, <3>1
  <2>2. CASE T # {}
    <3>1. PICK x \in T : TRUE
      BY <2>2
    <3>2. T \ {x} \in Good /\ T \cap A \in SUBSET S /\ (T \ {x}) \cap A \in SUBSET S
      BY <1>3
    <3>3. CASE x \in A
      <4>1. (T \ {x}) \cap A = (T \cap A) \ {x} /\ x \in T \cap A
        BY <3>3
      <4>2. Cardinality((T \ {x}) \cap A) = Cardinality(T \cap A) - 1
        <5>1. IsFiniteSet(T \cap A)
          BY <1>2, <3>2
        <5>2. Cardinality((T \cap A) \ {x}) = Cardinality(T \cap A) - 1
          BY <4>1, <5>1, FS_RemoveElement
        <5>. QED BY <4>1, <5>2
      <4>3. F(T) = f[x] + F(T \ {x}) /\ G(T) = g[x] + G(T \ {x}) /\ g[x] = f[x] + 1
        BY <1>1, <3>3
      <4>4. /\ G(T \ {x}) = F(T \ {x}) + Cardinality((T \ {x}) \cap A)
            /\ f[x] \in Nat /\ F(T \ {x}) \in Nat /\ Cardinality(T \cap A) \in Nat
        BY <1>1, <1>2, <3>2
      <4>. QED BY <4>2, <4>3, <4>4
    <3>4. CASE x \notin A
      <4>1. (T \ {x}) \cap A = T \cap A
        BY <3>4
      <4>2. F(T) = f[x] + F(T \ {x}) /\ G(T) = g[x] + G(T \ {x}) /\ g[x] = f[x]
        BY <1>1, <3>4
      <4>3. /\ G(T \ {x}) = F(T \ {x}) + Cardinality((T \ {x}) \cap A)
            /\ f[x] \in Nat /\ F(T \ {x}) \in Nat /\ Cardinality(T \cap A) \in Nat
        BY <1>1, <1>2, <3>2
      <4>4. G(T) = F(T) + Cardinality(T \cap A)
        <5>1. G(T \ {x}) = F(T \ {x}) + Cardinality(T \cap A)
          BY <4>1, <4>3
        <5>. QED BY <4>2, <4>3, <5>1
      <4>. QED BY <4>4
    <3>. QED BY <3>3, <3>4
  <2>. QED BY <2>1, <2>2
<1>4. S \in Good
  <2> HIDE DEF Good
  <2>1. S \in SUBSET S
    OBVIOUS
  <2>. QED BY <1>3, <2>1, SubsetInduction
<1>5. S \cap A = A
  OBVIOUS
<1>. QED BY <1>4, <1>5 DEF F, G

-----------------------------------------------------------------------------
(* Sets as sequences.                                                      *)

Lists(seq, S) ==
    /\ seq \in [1..Cardinality(S) -> S]
    /\ \A i, k \in 1..Cardinality(S) : seq[i] = seq[k] => i = k
    /\ \A x \in S : \E i \in 1..Cardinality(S) : seq[i] = x

\* SetToSeqs are the ways to list the set, and SetToSeq is one of them.
LEMMA ListsOfASet ==
    ASSUME NEW S, IsFiniteSet(S)
    PROVE  Lists(SetToSeq(S), S) /\ \A order \in SetToSeqs(S) : Lists(order, S)
<1> DEFINE D == 1..Cardinality(S)
<1>1. Cardinality(S) \in Nat /\ ExistsBijection(D, S)
  BY FS_CardinalityType
<1>2. IsFiniteSet(D) /\ Cardinality(D) = Cardinality(S)
  BY <1>1, FS_Interval
<1> HIDE DEF D
<1>3. ASSUME NEW f \in [D -> S], \A i, k \in D : f[i] = f[k] => i = k
      PROVE  \A x \in S : \E i \in D : f[i] = x
  <2>1. f \in Injection(D, S)
    BY <1>3 DEF Injection, IsInjective
  <2>2. f \in Surjection(D, S)
    BY <1>2, <2>1, FS_Injection
  <2>. QED BY <2>2 DEF Surjection
<1>5. SetToSeq(S) \in [D -> S] /\ \A i, k \in D : SetToSeq(S)[i] = SetToSeq(S)[k] => i = k
  <2>1. \E f \in [D -> S] : IsInjective(f)
    BY <1>1 DEF ExistsBijection, Bijection, Injection
  <2>2. SetToSeq(S) \in [D -> S] /\ IsInjective(SetToSeq(S))
    BY <2>1 DEF SetToSeq, D
  <2>. QED BY <2>2 DEF IsInjective
<1>6. Lists(SetToSeq(S), S)
  BY <1>3, <1>5 DEF Lists, D
<1>7. ASSUME NEW order \in SetToSeqs(S) PROVE Lists(order, S)
  <2>1. order \in [D -> S] /\ \A i, k \in D : order[i] = order[k] => i = k
    BY DEF SetToSeqs, D
  <2>. QED BY <1>3, <2>1 DEF Lists, D
<1>. QED BY <1>6, <1>7

-----------------------------------------------------------------------------
(* The monitor's loads.                                                    *)

Loads == UNION {[W -> Nat] : W \in SUBSET Worker}

\* TrackTask adds one load in all.
LEMMA TrackAddsOne ==
    ASSUME NEW loads \in Loads, NEW t, NEW w \in Worker
    PROVE  /\ LoadAfterTrack(loads, t, w) \in Loads
           /\ SumFunction(loads) \in Nat
           /\ SumFunction(LoadAfterTrack(loads, t, w)) = SumFunction(loads) + 1
<1> DEFINE D == DOMAIN loads
           new == LoadAfterTrack(loads, t, w)
<1>1. D \subseteq Worker /\ loads \in [D -> Nat]
  BY DEF Loads
<1>2. new = [v \in D \cup {w} |-> IF v = w THEN IF w \in D THEN loads[w] + 1 ELSE 1 ELSE loads[v]]
  BY DEF LoadAfterTrack, With, Known
<1>3. new \in [D \cup {w} -> Nat]
  BY <1>1, <1>2
<1>4. new \in Loads
  BY <1>1, <1>3 DEF Loads
<1>5. IsFiniteSet(D) /\ IsFiniteSet(D \cup {w})
  BY <1>1, FS_Subset, DistributorAssumption
<1> DEFINE F(S) == SumFunctionOnSet(loads, S)
           G(S) == SumFunctionOnSet(new, S)
<1>6. SumFunction(loads) = F(D) /\ SumFunction(new) = G(D \cup {w})
  <2>1. DOMAIN new = D \cup {w}
    BY <1>2
  <2> HIDE DEF new
  <2>. QED BY <2>1 DEF SumFunction
<1> HIDE DEF D, new
<1>7. F(D) \in Nat
  BY <1>1, <1>5, SumTerm
<1>8. CASE w \in D
  <2>1. D \cup {w} = D
    BY <1>8
  <2>2. \A x \in D : loads[x] \in Nat /\ new[x] \in Nat
    BY <1>1, <1>3
  <2>3. \A x \in {w} : new[x] = loads[x] + 1
    BY <1>2, <1>8
  <2>4. \A x \in D \ {w} : new[x] = loads[x]
    BY <1>2
  <2>5. {w} \in SUBSET D /\ Cardinality({w}) = 1
    BY <1>8, FS_Singleton
  <2>6. G(D) = F(D) + Cardinality({w})
    BY <1>5, <2>2, <2>3, <2>4, <2>5, SumCompare
  <2>. QED BY <1>4, <1>6, <1>7, <2>1, <2>5, <2>6 DEF new
<1>9. CASE w \notin D
  <2>1. \A x \in D \cup {w} : new[x] \in Nat
    BY <1>3
  <2>2. D \cup {w} \in SUBSET (D \cup {w}) /\ w \in D \cup {w} /\ (D \cup {w}) \ {w} = D
    BY <1>9
  <2>3. G(D \cup {w}) = new[w] + G((D \cup {w}) \ {w})
    BY <1>5, <2>1, <2>2, SumTerm
  <2>4. new[w] = 1
    BY <1>2, <1>9
  <2>5. G(D) = F(D) + Cardinality({})
    <3>1. \A x \in D : loads[x] \in Nat /\ new[x] \in Nat
      BY <1>1, <2>1
    <3>2. \A x \in D \ {} : new[x] = loads[x]
      BY <1>2, <1>9
    <3>3. {} \in SUBSET D /\ \A x \in {} : new[x] = loads[x] + 1
      OBVIOUS
    <3>. QED BY <1>5, <3>1, <3>2, <3>3, SumCompare
  <2>6. Cardinality({}) = 0
    BY FS_EmptySet
  <2>7. G((D \cup {w}) \ {w}) = G(D)
    BY <2>2
  <2>. QED BY <1>4, <1>6, <1>7, <2>3, <2>4, <2>5, <2>6, <2>7 DEF new
<1>. QED BY <1>8, <1>9

\* One TrackTask after the other adds one load for each of the tasks.
LEMMA TrackingAddsAll ==
    ASSUME workerLoads \in Loads, NEW n \in Nat, NEW T, NEW tasks \in [1..n -> T],
           NEW to, \A t \in T : to[t] \in Worker
    PROVE  /\ LoadsAfterTracking(tasks, to) \in Loads
           /\ SumFunction(LoadsAfterTracking(tasks, to)) = SumFunction(workerLoads) + n
<1> DEFINE Op(loads, t) == LoadAfterTrack(loads, t, to[t])
           step == [i \in 1..n |-> [v \in Loads |-> Op(v, tasks[i])]]
           it == CHOOSE it : it = [s \in SUBSET (1..n) |-> IF s = {} THEN workerLoads
                                      ELSE Op(it[s \ {Max(s)}], tasks[Max(s)])]
<1>1. \A v \in Loads, i \in 1..n : Op(v, tasks[i]) \in Loads
  BY TrackAddsOne
<1>2. \A i \in 1..n, v \in Loads : step[i][v] = Op(v, tasks[i]) /\ step[i][v] \in Loads
  BY <1>1
<1>3. PICK g \in [SUBSET (1..n) -> Loads] : Unwinds(g, n, workerLoads, step)
  <2> HIDE DEF step
  <2>. QED BY <1>2, SequenceFold
<1> HIDE DEF step
<1>4. g = [s \in SUBSET (1..n) |-> IF s = {} THEN workerLoads
                                   ELSE Op(g[s \ {Max(s)}], tasks[Max(s)])]
  <2> HIDE DEF Op
  <2>1. ASSUME NEW s \in SUBSET (1..n), s # {}
        PROVE  step[Max(s)][g[s \ {Max(s)}]] = Op(g[s \ {Max(s)}], tasks[Max(s)])
    <3>1. Max(s) \in 1..n
      BY <2>1, MaxIsLargest
    <3>2. s \ {Max(s)} \in SUBSET (1..n)
      OBVIOUS
    <3>3. g[s \ {Max(s)}] \in Loads
      BY <1>3, <3>2
    <3>. QED BY <1>2, <3>1, <3>3
  <2>. QED BY <1>3, <2>1 DEF Unwinds
<1>5. it = [s \in SUBSET (1..n) |-> IF s = {} THEN workerLoads
                                    ELSE Op(it[s \ {Max(s)}], tasks[Max(s)])]
  <2> HIDE DEF Op
  <2>. QED BY <1>4
<1>6. LoadsAfterTracking(tasks, to) = it[1..n]
  BY DEF LoadsAfterTracking, FoldLeft, MapThenFoldSet
<1> HIDE DEF it, Op
<1>7. UnwindsIn(Loads, it, n, workerLoads, step)
  <2>1. it[{}] = workerLoads
    BY <1>5
  <2>2. ASSUME NEW s \in SUBSET (1..n), s # {}, it[s \ {Max(s)}] \in Loads
        PROVE  it[s] = step[Max(s)][it[s \ {Max(s)}]]
    <3>1. it[s] = Op(it[s \ {Max(s)}], tasks[Max(s)])
      BY <1>5, <2>2
    <3>2. Max(s) \in 1..n
      BY <2>2, MaxIsLargest
    <3>. QED BY <1>2, <2>2, <3>1, <3>2
  <2>. QED BY <2>1, <2>2 DEF UnwindsIn
<1>8. PICK run \in [0..n -> Loads] : Runs(run, n, workerLoads, step, it[1..n])
  BY <1>2, <1>7, FoldRun
<1> DEFINE Good == {i \in 0..n : SumFunction(run[i]) = SumFunction(workerLoads) + i}
<1>9. SumFunction(workerLoads) \in Nat
  <2>1. PICK w : w \in Worker
    BY SupervisorAssumption
  <2>. QED BY <2>1, TrackAddsOne
<1>10. 0 \in Good
  BY <1>8, <1>9 DEF Runs
<1>11. ASSUME NEW i \in 1..n, i - 1 \in Good PROVE i \in Good
  <2>1. i \in 0..n /\ i - 1 \in 0..n
    OBVIOUS
  <2>2. run[i - 1] \in Loads /\ run[i] = Op(run[i - 1], tasks[i])
    BY <1>2, <1>8, <2>1 DEF Runs
  <2>3. SumFunction(run[i]) = SumFunction(run[i - 1]) + 1
    BY <2>2, TrackAddsOne DEF Op
  <2>. QED BY <1>9, <1>11, <2>1, <2>3
<1>12. \A i \in 0..n : i \in Good
  <2> HIDE DEF Good
  <2>. QED BY <1>10, <1>11, CountInduction
<1>. QED BY <1>6, <1>8, <1>12 DEF Runs

-----------------------------------------------------------------------------
(* What the distributors hand out.                                         *)

\* Only tasks of T are given away, and the distributor keeps its kind.
Outcomes(strategy, T) ==
    {r \in [to : [Task -> Worker \cup {NoWorker}], dist : Distributor] :
        r.dist.strategy = strategy /\ \A t \in Task : r.to[t] # NoWorker => t \in T}

\* The loads of the workers ws differ by at most m.
Level(loads, ws, m) == \A a, b \in ToSet(ws) : loads[a] - loads[b] <= m

LEMMA NothingGiven ==
    ASSUME NEW d \in Distributor, NEW T
    PROVE  [to |-> Unassigned, dist |-> d] \in Outcomes(d.strategy, T)
BY DEF Outcomes, Unassigned

\* The worker that a load-balanced task goes to is in the pool and has the least load.
LEMMA LeastLoadedIsLeast ==
    ASSUME NEW ws \in Seq(Worker), ws # <<>>, NEW loads \in [Worker -> Nat]
    PROVE  /\ LeastLoaded(ws, loads) \in ToSet(ws) \cap Worker
           /\ \A w \in ToSet(ws) : loads[LeastLoaded(ws, loads)] <= loads[w]
<1> DEFINE n == Len(ws)
           Beats(i, k) == loads[ws[i]] < loads[ws[k]]
                          \/ (loads[ws[i]] = loads[ws[k]] /\ i <= k)
           Good == {j \in 0..n : j = 0 \/ \E i \in 1..j : \A k \in 1..j : Beats(i, k)}
           c == CHOOSE i \in DOMAIN ws : \A k \in DOMAIN ws : Beats(i, k)
<1>1. n \in Nat /\ n # 0 /\ DOMAIN ws = 1..n /\ \A i \in 1..n : ws[i] \in Worker
  OBVIOUS
<1>2. \A i \in 1..n : loads[ws[i]] \in Nat
  BY <1>1
<1> HIDE DEF n
<1>3. 0 \in Good
  BY <1>1
<1>4. ASSUME NEW j \in 1..n, j - 1 \in Good PROVE j \in Good
  <2>1. j \in 0..n
    BY <1>1
  <2>2. CASE j = 1
    <3>1. \A k \in 1..j : Beats(1, k)
      BY <2>2
    <3>. QED BY <2>1, <2>2, <3>1
  <2>3. CASE j # 1
    <3>1. PICK i \in 1..(j - 1) : \A k \in 1..(j - 1) : Beats(i, k)
      BY <1>1, <1>4, <2>3
    <3>2. i \in 1..j /\ i \in 1..n /\ i < j /\ j \in 1..j
      BY <1>1
    <3>3. loads[ws[i]] \in Nat /\ loads[ws[j]] \in Nat
      BY <1>2, <3>2
    <3>4. CASE loads[ws[i]] <= loads[ws[j]]
      <4>1. Beats(i, j)
        BY <3>2, <3>3, <3>4
      <4>2. \A k \in 1..j : Beats(i, k)
        BY <1>1, <3>1, <4>1
      <4>. QED BY <2>1, <3>2, <4>2
    <3>5. CASE ~(loads[ws[i]] <= loads[ws[j]])
      <4>1. ASSUME NEW k \in 1..j PROVE Beats(j, k)
        <5>1. CASE k = j
          BY <1>1, <5>1
        <5>2. CASE k # j
          <6>1. k \in 1..(j - 1) /\ k \in 1..n
            BY <1>1, <5>2
          <6>2. Beats(i, k) /\ loads[ws[k]] \in Nat
            BY <1>2, <3>1, <6>1
          <6>. QED BY <3>3, <3>5, <6>2
        <5>. QED BY <5>1, <5>2
      <4>. QED BY <2>1, <3>2, <4>1
    <3>. QED BY <3>4, <3>5
  <2>. QED BY <2>2, <2>3
<1>5. n \in Good
  <2>1. \A j \in 0..n : j \in Good
    <3> HIDE DEF Good
    <3>. QED BY <1>1, <1>3, <1>4, CountInduction
  <2>2. n \in 0..n
    BY <1>1
  <2> HIDE DEF Good
  <2>. QED BY <2>1, <2>2
<1>6. \E i \in DOMAIN ws : \A k \in DOMAIN ws : Beats(i, k)
  BY <1>1, <1>5
<1>7. c \in DOMAIN ws /\ \A k \in DOMAIN ws : Beats(c, k)
  BY <1>6
<1>8. LeastLoaded(ws, loads) = ws[c]
  BY DEF LeastLoaded
<1> HIDE DEF c
<1>9. ws[c] \in ToSet(ws) \cap Worker
  BY <1>1, <1>7 DEF ToSet
<1>10. ASSUME NEW w \in ToSet(ws) PROVE loads[ws[c]] <= loads[w]
  <2>1. PICK k \in DOMAIN ws : w = ws[k]
    BY DEF ToSet
  <2>2. Beats(c, k) /\ loads[ws[c]] \in Nat /\ loads[ws[k]] \in Nat
    BY <1>1, <1>2, <1>7
  <2>. QED BY <2>1, <2>2
<1>. QED BY <1>8, <1>9, <1>10

\* One more task for the least loaded worker: two loads that were at most m apart still are.
LEMMA GiveToLeastLoaded ==
    ASSUME NEW ws \in Seq(Worker), ws # <<>>, NEW T \in SUBSET Task, NEW t \in T,
           NEW m \in Nat \ {0}, NEW acc \in Outcomes("load-balanced", T),
           Level(acc.dist.loads, ws, m), NEW w, w = LeastLoaded(ws, acc.dist.loads),
           NEW next, next = [to   |-> [acc.to EXCEPT ![t] = w],
                             dist |-> [acc.dist EXCEPT !.loads[w] = @ + 1]]
    PROVE  next \in Outcomes("load-balanced", T) /\ Level(next.dist.loads, ws, m)
<1> DEFINE loads == acc.dist.loads
           loads2 == next.dist.loads
<1>1. /\ acc.dist \in Distributor /\ acc.dist.strategy = "load-balanced"
      /\ acc.to \in [Task -> Worker \cup {NoWorker}]
      /\ \A u \in Task : acc.to[u] # NoWorker => u \in T
  BY DEF Outcomes
<1>2. loads \in [Worker -> Nat]
  BY <1>1 DEF Distributor
<1>3. w \in ToSet(ws) /\ w \in Worker /\ \A v \in ToSet(ws) : loads[w] <= loads[v]
  BY <1>2, LeastLoadedIsLeast
<1>4. loads2 = [loads EXCEPT ![w] = @ + 1] /\ next.dist = [acc.dist EXCEPT !.loads = loads2]
  BY <1>1, <1>2, <1>3 DEF Distributor
<1>5. next.dist \in Distributor /\ next.dist.strategy = "load-balanced"
  <2> HIDE DEF loads, loads2
  <2>1. loads2 \in [Worker -> Nat]
    BY <1>2, <1>3, <1>4
  <2>. QED BY <1>1, <1>4, <2>1 DEF Distributor
<1>6. next.to = [acc.to EXCEPT ![t] = w]
  OBVIOUS
<1>7. /\ next.to \in [Task -> Worker \cup {NoWorker}]
      /\ \A u \in Task : next.to[u] # NoWorker => u \in T
  BY <1>1, <1>3, <1>6
<1>8. next \in Outcomes("load-balanced", T)
  BY <1>5, <1>7 DEF Outcomes
<1>9. ASSUME NEW a \in ToSet(ws), NEW b \in ToSet(ws) PROVE loads2[a] - loads2[b] <= m
  <2>1. a \in Worker /\ b \in Worker
    BY DEF ToSet
  <2> HIDE DEF loads, loads2
  <2>2. /\ loads[a] \in Nat /\ loads[b] \in Nat /\ loads[w] \in Nat
        /\ loads[w] <= loads[a] /\ loads[w] <= loads[b]
    BY <1>2, <1>3, <2>1
  <2>3. loads[a] - loads[b] <= m
    BY DEF Level, loads
  <2>4. /\ loads2[a] = IF a = w THEN loads[w] + 1 ELSE loads[a]
        /\ loads2[b] = IF b = w THEN loads[w] + 1 ELSE loads[b]
    BY <1>2, <1>3, <1>4, <2>1
  <2>5. CASE a = w /\ b = w
    BY <2>2, <2>4, <2>5
  <2>6. CASE a = w /\ b # w
    BY <2>2, <2>4, <2>6
  <2>7. CASE a # w /\ b = w
    BY <2>2, <2>3, <2>4, <2>7
  <2>8. CASE a # w /\ b # w
    BY <2>3, <2>4, <2>8
  <2>. QED BY <2>5, <2>6, <2>7, <2>8
<1>. QED BY <1>8, <1>9 DEF Level

\* A whole batch keeps every gap between two loads of the pool's workers within any
\* bound m of at least one that held before it.
LEMMA LoadBalancedOutcome ==
    ASSUME NEW d \in Distributor, d.strategy = "load-balanced",
           NEW ws \in Seq(Worker), ws # <<>>,
           NEW T \in SUBSET Task, NEW n \in Nat, NEW order \in [1..n -> T],
           NEW m \in Nat \ {0}, Level(d.loads, ws, m)
    PROVE  \A r \in LoadBalanced(d, order, ws) :
              r \in Outcomes("load-balanced", T) /\ Level(r.dist.loads, ws, m)
<1> DEFINE V == {r \in Outcomes("load-balanced", T) : Level(r.dist.loads, ws, m)}
           base == [to |-> Unassigned, dist |-> d]
           Give(acc, t) ==
              LET w == LeastLoaded(ws, acc.dist.loads) IN
              [to |-> [acc.to EXCEPT ![t] = w], dist |-> [acc.dist EXCEPT !.loads[w] = @ + 1]]
           step == [i \in 1..n |-> [v \in V |-> Give(v, order[i])]]
           it == CHOOSE it : it = [s \in SUBSET (1..n) |-> IF s = {} THEN base
                                      ELSE Give(it[s \ {Max(s)}], order[Max(s)])]
<1>1. LoadBalanced(d, order, ws) = {it[1..n]}
  BY DEF LoadBalanced, FoldLeft, MapThenFoldSet
<1>2. base \in V
  BY NothingGiven
<1>3. ASSUME NEW v \in V, NEW t \in T PROVE Give(v, t) \in V
  BY GiveToLeastLoaded
<1> HIDE DEF V, base, Give
<1>4. \A i \in 1..n, v \in V : step[i][v] = Give(v, order[i]) /\ step[i][v] \in V
  BY <1>3
<1>5. PICK g \in [SUBSET (1..n) -> V] : Unwinds(g, n, base, step)
  <2> HIDE DEF step
  <2>. QED BY <1>2, <1>4, SequenceFold
<1> HIDE DEF step
<1>6. g = [s \in SUBSET (1..n) |-> IF s = {} THEN base ELSE Give(g[s \ {Max(s)}], order[Max(s)])]
  <2>1. ASSUME NEW s \in SUBSET (1..n), s # {}
        PROVE  step[Max(s)][g[s \ {Max(s)}]] = Give(g[s \ {Max(s)}], order[Max(s)])
    <3>1. Max(s) \in 1..n
      BY <2>1, MaxIsLargest
    <3>2. s \ {Max(s)} \in SUBSET (1..n)
      OBVIOUS
    <3>3. g[s \ {Max(s)}] \in V
      BY <1>5, <3>2
    <3>. QED BY <1>4, <3>1, <3>3
  <2>. QED BY <1>5, <2>1 DEF Unwinds
<1>7. it = [s \in SUBSET (1..n) |-> IF s = {} THEN base
                                    ELSE Give(it[s \ {Max(s)}], order[Max(s)])]
  BY <1>6
<1> HIDE DEF it
<1>8. UnwindsIn(V, it, n, base, step)
  <2>1. it[{}] = base
    BY <1>7
  <2>2. ASSUME NEW s \in SUBSET (1..n), s # {}, it[s \ {Max(s)}] \in V
        PROVE  it[s] = step[Max(s)][it[s \ {Max(s)}]]
    <3>1. it[s] = Give(it[s \ {Max(s)}], order[Max(s)])
      BY <1>7, <2>2
    <3>2. Max(s) \in 1..n
      BY <2>2, MaxIsLargest
    <3>. QED BY <1>4, <2>2, <3>1, <3>2
  <2>. QED BY <2>1, <2>2 DEF UnwindsIn
<1>9. PICK run \in [0..n -> V] : Runs(run, n, base, step, it[1..n])
  BY <1>2, <1>4, <1>8, FoldRun
<1>10. it[1..n] \in V
  BY <1>9 DEF Runs
<1>. QED BY <1>1, <1>10 DEF V

\* What the round-robin distributor makes of what it has when it gives t away.
NextWorker(acc, ws) ==
    LET k == GoRemainder(NextIndex(acc.dist.index), Len(ws)) + 1 IN
    IF k \in DOMAIN ws THEN ws[k] ELSE NoWorker

GiveNext(acc, t, ws) ==
    [to   |-> [acc.to EXCEPT ![t] = NextWorker(acc, ws)],
     dist |-> [acc.dist EXCEPT !.index = NextIndex(acc.dist.index)]]

\* The states a round-robin batch goes through, and what becomes of the last of them.
InTurn(run, d, order, ws, n) ==
    /\ run[0] = [to |-> Unassigned, dist |-> d]
    /\ \A i \in 1..n : run[i] = GiveNext(run[i - 1], order[i], ws)
    /\ RoundRobin(d, order, ws) = {r \in {run[n]} : \A t \in ToSet(order) : r.to[t] # NoWorker}

\* A round-robin batch is given away one task after the other.
LEMMA RoundRobinRun ==
    ASSUME NEW d \in Distributor, d.strategy = "round-robin",
           NEW ws \in Seq(Worker), NEW T \in SUBSET Task,
           NEW n \in Nat, NEW order \in [1..n -> T]
    PROVE  \E run \in [0..n -> Outcomes("round-robin", T)] : InTurn(run, d, order, ws, n)
<1> DEFINE V == Outcomes("round-robin", T)
           base == [to |-> Unassigned, dist |-> d]
           Give(acc, t) ==
              LET next == NextIndex(acc.dist.index)
                  k    == GoRemainder(next, Len(ws)) + 1
              IN  [to   |-> [acc.to EXCEPT ![t] = IF k \in DOMAIN ws THEN ws[k] ELSE NoWorker],
                   dist |-> [acc.dist EXCEPT !.index = next]]
           step == [i \in 1..n |-> [v \in V |-> Give(v, order[i])]]
           it == CHOOSE it : it = [s \in SUBSET (1..n) |-> IF s = {} THEN base
                                      ELSE Give(it[s \ {Max(s)}], order[Max(s)])]
<1>1. RoundRobin(d, order, ws) =
         {r \in {it[1..n]} : \A t \in ToSet(order) : r.to[t] # NoWorker}
  BY DEF RoundRobin, FoldLeft, MapThenFoldSet
<1>2. base \in V
  BY NothingGiven
<1>3. ASSUME NEW acc \in V, NEW t \in T PROVE Give(acc, t) \in V
  <2> DEFINE next == NextIndex(acc.dist.index)
             k    == GoRemainder(next, Len(ws)) + 1
             w    == IF k \in DOMAIN ws THEN ws[k] ELSE NoWorker
             to2   == [acc.to EXCEPT ![t] = w]
             dist2 == [acc.dist EXCEPT !.index = next]
  <2>1. /\ acc.dist \in Distributor /\ acc.dist.strategy = "round-robin"
        /\ acc.to \in [Task -> Worker \cup {NoWorker}]
        /\ \A u \in Task : acc.to[u] # NoWorker => u \in T
    BY DEF Outcomes
  <2>2. next \in Int
    <3>1. acc.dist.index \in Int
      BY <2>1 DEF Distributor
    <3>. QED BY <3>1, DistributorAssumption DEF NextIndex
  <2>3. w \in Worker \cup {NoWorker}
    OBVIOUS
  <2> HIDE DEF next, k, w
  <2>4. dist2 \in Distributor /\ dist2.strategy = "round-robin"
    BY <2>1, <2>2 DEF Distributor
  <2>5. to2 \in [Task -> Worker \cup {NoWorker}] /\ \A u \in Task : to2[u] # NoWorker => u \in T
    BY <2>1, <2>3
  <2> HIDE DEF to2, dist2
  <2>6. [to |-> to2, dist |-> dist2] \in V
    BY <2>4, <2>5 DEF Outcomes
  <2>. QED BY <2>6 DEF to2, dist2, w, k, next
<1> HIDE DEF V, base, Give
<1>4. \A i \in 1..n, v \in V : step[i][v] = Give(v, order[i]) /\ step[i][v] \in V
  BY <1>3
<1>5. PICK g \in [SUBSET (1..n) -> V] : Unwinds(g, n, base, step)
  <2> HIDE DEF step
  <2>. QED BY <1>2, <1>4, SequenceFold
<1> HIDE DEF step
<1>6. g = [s \in SUBSET (1..n) |-> IF s = {} THEN base ELSE Give(g[s \ {Max(s)}], order[Max(s)])]
  <2>1. ASSUME NEW s \in SUBSET (1..n), s # {}
        PROVE  step[Max(s)][g[s \ {Max(s)}]] = Give(g[s \ {Max(s)}], order[Max(s)])
    <3>1. Max(s) \in 1..n
      BY <2>1, MaxIsLargest
    <3>2. s \ {Max(s)} \in SUBSET (1..n)
      OBVIOUS
    <3>3. g[s \ {Max(s)}] \in V
      BY <1>5, <3>2
    <3>. QED BY <1>4, <3>1, <3>3
  <2>. QED BY <1>5, <2>1 DEF Unwinds
<1>7. it = [s \in SUBSET (1..n) |-> IF s = {} THEN base
                                    ELSE Give(it[s \ {Max(s)}], order[Max(s)])]
  BY <1>6
<1> HIDE DEF it
<1>8. UnwindsIn(V, it, n, base, step)
  <2>1. it[{}] = base
    BY <1>7
  <2>2. ASSUME NEW s \in SUBSET (1..n), s # {}, it[s \ {Max(s)}] \in V
        PROVE  it[s] = step[Max(s)][it[s \ {Max(s)}]]
    <3>1. it[s] = Give(it[s \ {Max(s)}], order[Max(s)])
      BY <1>7, <2>2
    <3>2. Max(s) \in 1..n
      BY <2>2, MaxIsLargest
    <3>. QED BY <1>4, <2>2, <3>1, <3>2
  <2>. QED BY <2>1, <2>2 DEF UnwindsIn
<1>9. PICK run \in [0..n -> V] : Runs(run, n, base, step, it[1..n])
  BY <1>2, <1>4, <1>8, FoldRun
<1>10. \A i \in 1..n : run[i] = Give(run[i - 1], order[i])
  <2>1. \A i \in 1..n : i - 1 \in 0..n
    OBVIOUS
  <2>2. \A i \in 1..n : run[i - 1] \in V
    BY <1>9, <2>1
  <2>. QED BY <1>4, <1>9, <2>2 DEF Runs
<1>11. run[0] = base /\ run[n] = it[1..n]
  BY <1>9 DEF Runs
<1>. QED BY <1>1, <1>9, <1>10, <1>11 DEF V, base, Give, GiveNext, NextWorker, InTurn

\* A round-robin batch gives only its own tasks away, also where its index wraps.
LEMMA RoundRobinOutcome ==
    ASSUME NEW d \in Distributor, d.strategy = "round-robin",
           NEW ws \in Seq(Worker), NEW T \in SUBSET Task,
           NEW n \in Nat, NEW order \in [1..n -> T]
    PROVE  RoundRobin(d, order, ws) \subseteq Outcomes("round-robin", T)
<1>1. PICK run \in [0..n -> Outcomes("round-robin", T)] : InTurn(run, d, order, ws, n)
  BY RoundRobinRun
<1>2. run[n] \in Outcomes("round-robin", T)
  OBVIOUS
<1>. QED BY <1>1, <1>2 DEF InTurn

\* RoundRobinDistributor, for every pool and every batch: as long as the int32 does not
\* wrap, each task goes to the worker after the one that got the task before it, counting
\* on across batches, and the batch leaves the index where the next one goes on.
THEOREM RoundRobinTakesTurns ==
    ASSUME NEW d \in Distributor, d.strategy = "round-robin",
           NEW ws \in Seq(Worker), ws # <<>>,
           NEW n \in Nat, NEW order \in [1..n -> Task],
           \A i, k \in 1..n : order[i] = order[k] => i = k,
           d.index \in Nat, d.index + n <= IndexMax
    PROVE  \E r : /\ RoundRobin(d, order, ws) = {r}
                  /\ r.dist = [d EXCEPT !.index = d.index + n]
                  /\ \A i \in 1..n : r.to[order[i]] = ws[((d.index + i) % Len(ws)) + 1]
<1> DEFINE Turn(i) == ws[((d.index + i) % Len(ws)) + 1]
<1>1. PICK run \in [0..n -> Outcomes("round-robin", Task)] : InTurn(run, d, order, ws, n)
  <2>1. n \in Nat /\ Task \in SUBSET Task
    OBVIOUS
  <2>. QED BY <2>1, RoundRobinRun
<1>2. \A i \in 0..n : run[i].to \in [Task -> Worker \cup {NoWorker}] /\ run[i].dist \in Distributor
  BY DEF Outcomes
<1>3. Len(ws) \in Nat \ {0} /\ DOMAIN ws = 1..Len(ws)
  OBVIOUS
<1>4. ASSUME NEW i \in 1..n
      PROVE  ((d.index + i) % Len(ws)) + 1 \in DOMAIN ws /\ Turn(i) \in Worker
  <2>1. (d.index + i) % Len(ws) \in 0..(Len(ws) - 1)
    BY <1>3
  <2>2. ((d.index + i) % Len(ws)) + 1 \in DOMAIN ws
    BY <1>3, <2>1
  <2>. QED BY <2>2
<1> DEFINE Good == {i \in 0..n : /\ run[i].dist = [d EXCEPT !.index = d.index + i]
                                /\ \A k \in 1..i : run[i].to[order[k]] = Turn(k)}
<1>5. 0 \in Good
  BY <1>1 DEF InTurn, Distributor
<1>6. ASSUME NEW i \in 1..n, i - 1 \in Good PROVE i \in Good
  <2> DEFINE acc == run[i - 1]
             x   == ((d.index + i) % Len(ws)) + 1
  <2>1. /\ i - 1 \in 0..n /\ acc.dist = [d EXCEPT !.index = d.index + (i - 1)]
        /\ \A k \in 1..(i - 1) : acc.to[order[k]] = Turn(k)
    BY <1>6
  <2>2. acc.dist.index = d.index + (i - 1)
    BY <2>1 DEF Distributor
  <2>3. NextIndex(acc.dist.index) = d.index + i
    BY <2>2, DistributorAssumption DEF NextIndex
  <2>4. GoRemainder(NextIndex(acc.dist.index), Len(ws)) + 1 = x
    BY <2>3 DEF GoRemainder
  <2>5. /\ run[i].to = [acc.to EXCEPT ![order[i]] = ws[x]]
        /\ run[i].dist = [acc.dist EXCEPT !.index = d.index + i]
    <3>1. run[i] = GiveNext(acc, order[i], ws) /\ x \in DOMAIN ws
      BY <1>1, <1>4 DEF InTurn
    <3>2. NextWorker(acc, ws) = ws[x]
      BY <3>1, <2>4 DEF NextWorker
    <3> DEFINE r == run[i]
               t == order[i]
               w == ws[x]
               next == d.index + i
    <3>3. r = GiveNext(acc, t, ws) /\ w = NextWorker(acc, ws) /\ next = NextIndex(acc.dist.index)
      BY <3>1, <3>2, <2>3
    <3>4. r.to = [acc.to EXCEPT ![t] = w] /\ r.dist = [acc.dist EXCEPT !.index = next]
      <4> HIDE DEF r, acc, t, w, next
      <4>. QED BY <3>3 DEF GiveNext
    <3>. QED BY <3>4
  <2>6. run[i].dist = [d EXCEPT !.index = d.index + i]
    BY <2>1, <2>5 DEF Distributor
  <2>7. ASSUME NEW k \in 1..i PROVE run[i].to[order[k]] = Turn(k)
    <3>1. acc.to \in [Task -> Worker \cup {NoWorker}] /\ k \in 1..n /\ order[k] \in Task
      BY <1>2, <2>1
    <3>2. CASE k = i
      BY <2>5, <3>1, <3>2
    <3>3. CASE k # i
      <4>1. k \in 1..(i - 1) /\ order[k] # order[i]
        BY <3>1, <3>3
      <4>2. run[i].to[order[k]] = acc.to[order[k]]
        BY <2>5, <3>1, <4>1
      <4>. QED BY <2>1, <4>1, <4>2
    <3>. QED BY <3>2, <3>3
  <2>. QED BY <2>6, <2>7
<1>7. n \in Good
  <2> HIDE DEF Good
  <2>1. \A i \in 0..n : i \in Good
    BY <1>5, <1>6, CountInduction
  <2>. QED BY <2>1
<1>8. \A t \in ToSet(order) : run[n].to[t] # NoWorker
  <2>1. \A i \in 1..n : run[n].to[order[i]] = Turn(i)
    BY <1>7
  <2>2. \A i \in 1..n : Turn(i) # NoWorker
    BY <1>4, DistributorAssumption
  <2> HIDE DEF Turn
  <2>. QED BY <2>1, <2>2 DEF ToSet
<1>9. RoundRobin(d, order, ws) = {run[n]}
  BY <1>1, <1>8 DEF InTurn
<1>. QED BY <1>7, <1>9

\* RoundRobinDistributor at the edge of its int32: the task after the last index gets a
\* negative one, and unless the number of workers divides 2^31 the slice is indexed with
\* a negative number, so the call panics and the batch has no outcome.
THEOREM RoundRobinPanicsAtWrap ==
    ASSUME NEW d \in Distributor, d.strategy = "round-robin", d.index = IndexMax,
           NEW ws \in Seq(Worker), ws # <<>>, (IndexMax + 1) % Len(ws) # 0,
           NEW n \in Nat \ {0}, NEW order \in [1..n -> Task],
           \A i, k \in 1..n : order[i] = order[k] => i = k
    PROVE  RoundRobin(d, order, ws) = {}
<1>1. PICK run \in [0..n -> Outcomes("round-robin", Task)] : InTurn(run, d, order, ws, n)
  <2>1. n \in Nat /\ Task \in SUBSET Task
    OBVIOUS
  <2>. QED BY <2>1, RoundRobinRun
<1>2. \A i \in 0..n : run[i].to \in [Task -> Worker \cup {NoWorker}]
  BY DEF Outcomes
<1>3. n \in Nat /\ 1 \in 1..n /\ order[1] \in Task
  OBVIOUS
<1> DEFINE Good == {i \in 0..n : i > 0 => run[i].to[order[1]] = NoWorker}
<1>4. 0 \in Good
  OBVIOUS
<1>5. ASSUME NEW i \in 1..n, i - 1 \in Good PROVE i \in Good
  <2> DEFINE acc == run[i - 1]
             k   == GoRemainder(NextIndex(acc.dist.index), Len(ws)) + 1
             w   == IF k \in DOMAIN ws THEN ws[k] ELSE NoWorker
  <2>1. i - 1 \in 0..n /\ acc.to \in [Task -> Worker \cup {NoWorker}]
    BY <1>2
  <2>2. run[i].to = [acc.to EXCEPT ![order[i]] = w]
    <3>1. run[i] = GiveNext(acc, order[i], ws)
      BY <1>1 DEF InTurn
    <3>2. w = NextWorker(acc, ws)
      BY DEF NextWorker
    <3> DEFINE r == run[i]
               t == order[i]
    <3>3. r = GiveNext(acc, t, ws)
      BY <3>1
    <3>4. r.to = [acc.to EXCEPT ![t] = w]
      <4> HIDE DEF r, acc, t, w
      <4>. QED BY <3>2, <3>3 DEF GiveNext
    <3>. QED BY <3>4
  <2>3. CASE i = 1
    <3>1. acc.dist.index = IndexMax
      BY <1>1, <2>3 DEF InTurn
    <3>2. NextIndex(acc.dist.index) = -IndexMax - 1
      BY <3>1 DEF NextIndex
    <3>3. Len(ws) \in Nat \ {0} /\ DOMAIN ws = 1..Len(ws) /\ IndexMax \in Nat
      BY DistributorAssumption
    <3>4. -(-IndexMax - 1) = IndexMax + 1 /\ ~(-IndexMax - 1 >= 0)
      BY <3>3
    <3>5. k = -((IndexMax + 1) % Len(ws)) + 1
      BY <3>2, <3>4 DEF GoRemainder
    <3>6. (IndexMax + 1) % Len(ws) \in Nat \ {0}
      BY <3>3
    <3>7. k \notin DOMAIN ws
      <4> HIDE DEF k
      <4>. QED BY <3>3, <3>5, <3>6
    <3>8. w = NoWorker
      BY <3>7
    <3> HIDE DEF w, acc
    <3>9. run[i].to[order[1]] = NoWorker
      BY <1>3, <2>1, <2>2, <2>3, <3>8
    <3>. QED BY <3>9
  <2>4. CASE i # 1
    <3>1. i - 1 > 0 /\ order[1] # order[i]
      BY <1>3, <2>4
    <3>2. acc.to[order[1]] = NoWorker
      BY <1>5, <3>1
    <3> HIDE DEF w, acc
    <3>3. run[i].to[order[1]] = NoWorker
      BY <1>3, <2>1, <2>2, <3>1, <3>2
    <3>. QED BY <3>3
  <2>. QED BY <2>3, <2>4
<1>6. n \in Good
  <2> HIDE DEF Good
  <2>1. \A i \in 0..n : i \in Good
    BY <1>3, <1>4, <1>5, CountInduction
  <2>. QED BY <1>3, <2>1
<1>7. run[n].to[order[1]] = NoWorker /\ order[1] \in ToSet(order)
  BY <1>3, <1>6 DEF ToSet
<1>. QED BY <1>1, <1>7 DEF InTurn

\* What the cost-based distributor keeps while it hands out the tasks of T.
Filled(T, ws) ==
    {r \in Outcomes("cost-based", T) :
        /\ \A w \in Worker : Given(r.to, w) <= Capacity
        /\ \A t \in Task : r.to[t] # NoWorker => r.to[t] \in ToSet(ws)}

Assigned(to) == {t \in Task : to[t] # NoWorker}

Fit(T, ws, to) == {pair \in [task : T, worker : ToSet(ws)] : PairFits(to, pair)}

\* One pair that fits gives one task more, to a worker that had room for it.
LEMMA GivePair ==
    ASSUME NEW ws \in Seq(Worker), NEW T \in SUBSET Task, NEW acc \in Filled(T, ws),
           NEW p \in Fit(T, ws, acc.to), NEW cost \in Nat,
           NEW to2, to2 = [acc.to EXCEPT ![p.task] = p.worker],
           NEW dist2, dist2 = [acc.dist EXCEPT !.costs[p.worker] = cost]
    PROVE  /\ [to |-> to2, dist |-> dist2] \in Filled(T, ws)
           /\ Cardinality(Assigned(to2)) = Cardinality(Assigned(acc.to)) + 1
<1> DEFINE t == p.task
           w == p.worker
<1>1. /\ t \in T /\ t \in Task /\ w \in ToSet(ws)
      /\ acc.to[t] = NoWorker /\ Given(acc.to, w) < Capacity
  BY DEF Fit, PairFits
<1>2. w \in Worker /\ w # NoWorker
  BY <1>1, DistributorAssumption DEF ToSet
<1>3. /\ acc.dist \in Distributor /\ acc.dist.strategy = "cost-based"
      /\ acc.to \in [Task -> Worker \cup {NoWorker}]
      /\ \A u \in Task : acc.to[u] # NoWorker => u \in T
      /\ \A v \in Worker : Given(acc.to, v) <= Capacity
      /\ \A u \in Task : acc.to[u] # NoWorker => acc.to[u] \in ToSet(ws)
  BY DEF Filled, Outcomes
<1> HIDE DEF t, w
<1>4. dist2 \in Distributor /\ dist2.strategy = "cost-based"
  <2>1. acc.dist.costs \in [Worker -> Nat]
    BY <1>3 DEF Distributor
  <2> DEFINE costs2 == [acc.dist.costs EXCEPT ![w] = cost]
  <2>2. costs2 \in [Worker -> Nat]
    BY <1>2, <2>1
  <2>3. dist2 = [acc.dist EXCEPT !.costs = costs2]
    BY <1>3 DEF Distributor, w
  <2> HIDE DEF costs2
  <2>. QED BY <1>3, <2>2, <2>3 DEF Distributor
<1>5. to2 = [acc.to EXCEPT ![t] = w]
  BY DEF t, w
<1>6. /\ to2 \in [Task -> Worker \cup {NoWorker}]
      /\ \A u \in Task : to2[u] # NoWorker => u \in T
      /\ \A u \in Task : to2[u] # NoWorker => to2[u] \in ToSet(ws)
  BY <1>1, <1>2, <1>3, <1>5
<1>7. \A S \in SUBSET Task : IsFiniteSet(S) /\ Cardinality(S) \in Nat
  BY DistributorAssumption, FS_Subset, FS_CardinalityType
<1>8. ASSUME NEW v \in Worker PROVE Given(to2, v) <= Capacity
  <2> DEFINE before == {u \in Task : acc.to[u] = v}
  <2>1. CASE v = w
    <3>1. {u \in Task : to2[u] = v} = before \cup {t}
      BY <1>1, <1>2, <1>3, <1>5, <2>1
    <3>2. t \notin before /\ before \in SUBSET Task
      BY <1>1, <1>2, <2>1
    <3> HIDE DEF before
    <3>3. Cardinality(before \cup {t}) = Cardinality(before) + 1
      BY <1>7, <3>2, FS_AddElement
    <3>4. Cardinality(before) < Capacity /\ Cardinality(before) \in Nat /\ Capacity \in Nat
      BY <1>1, <1>7, <2>1, <3>2, DistributorAssumption DEF Given, before
    <3>5. Given(to2, v) = Cardinality(before \cup {t})
      BY <3>1 DEF Given
    <3>. QED BY <3>3, <3>4, <3>5
  <2>2. CASE v # w
    <3>1. {u \in Task : to2[u] = v} = before
      BY <1>1, <1>2, <1>3, <1>5, <2>2, DistributorAssumption
    <3>. QED BY <1>3, <3>1 DEF Given
  <2>. QED BY <2>1, <2>2
<1>9. Cardinality(Assigned(to2)) = Cardinality(Assigned(acc.to)) + 1
  <2>1. Assigned(to2) = Assigned(acc.to) \cup {t} /\ t \notin Assigned(acc.to)
    BY <1>1, <1>2, <1>3, <1>5 DEF Assigned
  <2>2. Assigned(acc.to) \in SUBSET Task
    BY DEF Assigned
  <2>. QED BY <1>7, <2>1, <2>2, FS_AddElement
<1>10. [to |-> to2, dist |-> dist2] \in Filled(T, ws)
  BY <1>4, <1>6, <1>8 DEF Filled, Outcomes
<1>. QED BY <1>9, <1>10

LEMMA EstimateIsNatural == \A t \in Task : EstimateTaskCost(t) \in Nat
<1> SUFFICES ASSUME NEW t \in Task PROVE EstimateTaskCost(t) \in Nat
  OBVIOUS
<1> DEFINE base == IF Priority[t] <= 2 THEN 6 ELSE IF Priority[t] <= 5 THEN 4 ELSE 2
<1>1. base \in {2, 4, 6}
  OBVIOUS
<1>2. EstimateTaskCost(t) = IF t \in Child THEN (base * 3) \div 2 ELSE base
  BY DEF EstimateTaskCost
<1> HIDE DEF base
<1>. QED BY <1>1, <1>2

\* A set of natural numbers has a least one.
LEMMA LeastNumber ==
    ASSUME NEW C \in SUBSET Nat, C # {}
    PROVE  \E m \in C : \A x \in C : m <= x
<1>1. PICK c \in C : TRUE
  OBVIOUS
<1> DEFINE Found == \E m \in C : \A x \in C : m <= x
           Good == {k \in 0..c : (\E x \in C : x <= k) => Found}
<1>2. 0 \in Good
  <2>1. ASSUME NEW x \in C, x <= 0 PROVE \A y \in C : x <= y
    BY <2>1
  <2>2. (\E x \in C : x <= 0) => Found
    BY <2>1
  <2>3. 0 \in 0..c
    BY <1>1
  <2> HIDE DEF Found
  <2>. QED BY <2>2, <2>3
<1>3. ASSUME NEW k \in 1..c, k - 1 \in Good PROVE k \in Good
  <2>1. k \in 0..c /\ c \in Nat
    OBVIOUS
  <2>2. CASE \E x \in C : x <= k - 1
    <3> HIDE DEF Found
    <3>. QED BY <1>3, <2>1, <2>2
  <2>3. CASE ~ \E x \in C : x <= k - 1
    <3>1. ASSUME NEW x \in C, x <= k PROVE \A y \in C : x <= y
      <4> SUFFICES ASSUME NEW y \in C PROVE x <= y
        OBVIOUS
      <4>1. y \in Nat /\ x \in Nat /\ ~(y <= k - 1)
        BY <2>3
      <4>. QED BY <2>1, <3>1, <4>1
    <3>2. (\E x \in C : x <= k) => Found
      BY <3>1
    <3> HIDE DEF Found
    <3>. QED BY <2>1, <3>2
  <2>. QED BY <2>2, <2>3
<1>4. c \in Good
  <2>1. c \in Nat /\ c \in 0..c
    OBVIOUS
  <2>2. \A k \in 0..c : k \in Good
    <3> HIDE DEF Good
    <3>. QED BY <1>2, <1>3, <2>1, CountInduction
  <2> HIDE DEF Good
  <2>. QED BY <2>1, <2>2
<1>5. c <= c
  OBVIOUS
<1> HIDE DEF Found
<1>6. Found
  BY <1>1, <1>4, <1>5
<1>. QED BY <1>6 DEF Found

\* The cost-based distributor fills its workers up: it always has an outcome, nobody gets
\* more than its capacity, and a task is left out only when every worker has that many.
LEMMA CostBasedOutcome ==
    ASSUME NEW d \in Distributor, d.strategy = "cost-based",
           NEW ws \in Seq(Worker), NEW T \in SUBSET Task, NEW order, Lists(order, T)
    PROVE  /\ CostBased(d, order, ws) # {}
           /\ \A r \in CostBased(d, order, ws) :
                 r \in Filled(T, ws) /\ (Fit(T, ws, r.to) = {} \/ Assigned(r.to) = T)
<1> DEFINE n == Cardinality(T)
           V == {accs \in SUBSET Filled(T, ws) : accs # {}}
           pairs == [task : ToSet(order), worker : ToSet(ws)]
           Cost(pair) == EstimateTaskCost(pair.task) + d.costs[pair.worker]
           Fitting(acc)  == {pair \in pairs : PairFits(acc.to, pair)}
           Cheapest(acc) == {p \in Fitting(acc) : \A q \in Fitting(acc) : Cost(p) <= Cost(q)}
           Give(acc) ==
              IF Fitting(acc) = {} THEN {acc}
              ELSE {[to   |-> [acc.to EXCEPT ![p.task] = p.worker],
                     dist |-> [acc.dist EXCEPT !.costs[p.worker] = Cost(p)]] : p \in Cheapest(acc)}
           GiveAll(accs) == UNION {Give(acc) : acc \in accs}
           base == {[to |-> Unassigned, dist |-> d]}
           step == [i \in 1..n |-> [v \in V |-> GiveAll(v)]]
           it == CHOOSE it : it = [s \in SUBSET (1..n) |-> IF s = {} THEN base
                                                           ELSE GiveAll(it[s \ {Max(s)}])]
           Amount(to) == Cardinality(Assigned(to))
<1>1. \A S \in SUBSET Task : IsFiniteSet(S) /\ Cardinality(S) \in Nat
  BY DistributorAssumption, FS_Subset, FS_CardinalityType
<1>2. n \in Nat /\ order \in [1..n -> T] /\ ToSet(order) = T
  BY <1>1 DEF Lists, ToSet
<1>3. CostBased(d, order, ws) = it[1..n]
  <2>1. DOMAIN order = 1..n
    BY <1>2
  <2> HIDE DEF n
  <2>. QED BY <2>1 DEF CostBased, FoldLeft, MapThenFoldSet
<1>cost. ASSUME NEW acc, NEW p \in Fit(T, ws, acc.to) PROVE Cost(p) \in Nat
  <2>1. p.task \in Task /\ p.worker \in Worker
    BY DEF Fit, ToSet
  <2>2. d.costs[p.worker] \in Nat
    BY <2>1 DEF Distributor
  <2>. QED BY <2>1, <2>2, EstimateIsNatural
<1>some. ASSUME NEW acc PROVE Give(acc) # {}
  <2>1. CASE Fitting(acc) = {}
    BY <2>1
  <2>2. CASE Fitting(acc) # {}
    <3>1. Fitting(acc) = Fit(T, ws, acc.to)
      BY <1>2 DEF Fit
    <3> DEFINE C == {Cost(p) : p \in Fitting(acc)}
    <3>2. C \in SUBSET Nat /\ C # {}
      BY <1>cost, <2>2, <3>1
    <3>3. PICK m \in C : \A x \in C : m <= x
      <4> HIDE DEF C
      <4>. QED BY <3>2, LeastNumber
    <3> HIDE DEF Cost
    <3>4. PICK p \in Fitting(acc) : m = Cost(p)
      OBVIOUS
    <3>5. p \in Cheapest(acc)
      BY <3>3, <3>4
    <3> DEFINE next == [to   |-> [acc.to EXCEPT ![p.task] = p.worker],
                        dist |-> [acc.dist EXCEPT !.costs[p.worker] = Cost(p)]]
    <3> HIDE DEF Cheapest, Fitting
    <3>6. next \in Give(acc)
      BY <2>2, <3>5
    <3>. QED BY <3>6
  <2>. QED BY <2>1, <2>2
<1>4. ASSUME NEW acc \in Filled(T, ws), NEW next \in Give(acc)
      PROVE  /\ next \in Filled(T, ws)
             /\ Fit(T, ws, acc.to) = {} => next = acc
             /\ Fit(T, ws, acc.to) # {} => Amount(next.to) = Amount(acc.to) + 1
  <2>1. Fitting(acc) = Fit(T, ws, acc.to)
    BY <1>2 DEF Fit
  <2>2. CASE Fit(T, ws, acc.to) = {}
    BY <1>4, <2>1, <2>2
  <2>3. CASE Fit(T, ws, acc.to) # {}
    <3>1. PICK p \in Fit(T, ws, acc.to) :
              next = [to   |-> [acc.to EXCEPT ![p.task] = p.worker],
                      dist |-> [acc.dist EXCEPT !.costs[p.worker] = Cost(p)]]
      BY <1>4, <2>1, <2>3
    <3>2. Cost(p) \in Nat
      BY <1>cost
    <3> DEFINE to2 == [acc.to EXCEPT ![p.task] = p.worker]
               dist2 == [acc.dist EXCEPT !.costs[p.worker] = Cost(p)]
    <3>3. next = [to |-> to2, dist |-> dist2]
      BY <3>1
    <3> HIDE DEF Cost
    <3>4. /\ [to |-> to2, dist |-> dist2] \in Filled(T, ws)
          /\ Amount(to2) = Amount(acc.to) + 1
      BY <3>2, GivePair
    <3> HIDE DEF to2, dist2, Amount
    <3>5. next.to = to2
      BY <3>3
    <3>. QED BY <2>3, <3>3, <3>4, <3>5
  <2>. QED BY <2>2, <2>3
<1>5. base \in V /\ \A r \in base : Amount(r.to) = 0
  <2>1. Assigned(Unassigned) = {}
    BY DEF Assigned, Unassigned
  <2>2. Amount(Unassigned) = 0
    BY <2>1, FS_EmptySet
  <2>3. ASSUME NEW w \in Worker PROVE Given(Unassigned, w) <= Capacity
    <3>1. {t \in Task : Unassigned[t] = w} = {}
      BY DistributorAssumption DEF Unassigned
    <3>2. Given(Unassigned, w) = 0
      BY <3>1, FS_EmptySet DEF Given
    <3>. QED BY <3>2, DistributorAssumption
  <2>4. [to |-> Unassigned, dist |-> d] \in Filled(T, ws)
    BY <2>1, <2>3, NothingGiven DEF Filled, Assigned
  <2> HIDE DEF Amount
  <2>. QED BY <2>2, <2>4
<1> HIDE DEF Give, base, n, Amount
<1>6. ASSUME NEW v \in V PROVE GiveAll(v) \in V
  <2>1. GiveAll(v) \subseteq Filled(T, ws)
    BY <1>4
  <2>2. PICK acc \in v : TRUE
    OBVIOUS
  <2>3. PICK next \in Give(acc) : TRUE
    BY <1>some
  <2>4. next \in GiveAll(v)
    OBVIOUS
  <2> HIDE DEF GiveAll
  <2>. QED BY <2>1, <2>4
<1> HIDE DEF GiveAll, V
<1>7. \A i \in 1..n, v \in V : step[i][v] = GiveAll(v) /\ step[i][v] \in V
  BY <1>6
<1>8. PICK g \in [SUBSET (1..n) -> V] : Unwinds(g, n, base, step)
  <2> HIDE DEF step
  <2>. QED BY <1>2, <1>5, <1>7, SequenceFold
<1> HIDE DEF step
<1>9. g = [s \in SUBSET (1..n) |-> IF s = {} THEN base ELSE GiveAll(g[s \ {Max(s)}])]
  <2>1. ASSUME NEW s \in SUBSET (1..n), s # {}
        PROVE  step[Max(s)][g[s \ {Max(s)}]] = GiveAll(g[s \ {Max(s)}])
    <3>1. Max(s) \in 1..n
      BY <1>2, <2>1, MaxIsLargest
    <3>2. s \ {Max(s)} \in SUBSET (1..n)
      OBVIOUS
    <3>3. g[s \ {Max(s)}] \in V
      BY <1>8, <3>2
    <3>. QED BY <1>7, <3>1, <3>3
  <2>. QED BY <1>8, <2>1 DEF Unwinds
<1>10. it = [s \in SUBSET (1..n) |-> IF s = {} THEN base ELSE GiveAll(it[s \ {Max(s)}])]
  BY <1>9
<1> HIDE DEF it
<1>11. UnwindsIn(V, it, n, base, step)
  <2>1. it[{}] = base
    BY <1>10
  <2>2. ASSUME NEW s \in SUBSET (1..n), s # {}, it[s \ {Max(s)}] \in V
        PROVE  it[s] = step[Max(s)][it[s \ {Max(s)}]]
    <3>1. it[s] = GiveAll(it[s \ {Max(s)}])
      BY <1>10, <2>2
    <3>2. Max(s) \in 1..n
      BY <1>2, <2>2, MaxIsLargest
    <3>. QED BY <1>7, <2>2, <3>1, <3>2
  <2>. QED BY <2>1, <2>2 DEF UnwindsIn
<1>12. PICK run \in [0..n -> V] : Runs(run, n, base, step, it[1..n])
  BY <1>2, <1>5, <1>7, <1>11, FoldRun
<1> DEFINE Good == {i \in 0..n :
                       \A r \in run[i] : Fit(T, ws, r.to) = {} \/ Amount(r.to) = i}
<1>13. 0 \in Good
  <2>1. 0 \in 0..n
    BY <1>2
  <2>. QED BY <1>5, <1>12, <2>1 DEF Runs
<1>14. ASSUME NEW i \in 1..n, i - 1 \in Good PROVE i \in Good
  <2>1. i \in 0..n /\ i - 1 \in 0..n
    BY <1>2
  <2>2. run[i - 1] \in V /\ run[i] = GiveAll(run[i - 1])
    BY <1>7, <1>12, <2>1 DEF Runs
  <2>3. ASSUME NEW r \in run[i] PROVE Fit(T, ws, r.to) = {} \/ Amount(r.to) = i
    <3>1. PICK acc \in run[i - 1] : r \in Give(acc)
      BY <2>2 DEF GiveAll
    <3>2. acc \in Filled(T, ws)
      BY <2>2 DEF V
    <3>3. Fit(T, ws, acc.to) = {} \/ Amount(acc.to) = i - 1
      BY <1>14
    <3>4. CASE Fit(T, ws, acc.to) = {}
      BY <1>4, <3>1, <3>2, <3>4
    <3>5. CASE Fit(T, ws, acc.to) # {}
      <4>1. Amount(r.to) = Amount(acc.to) + 1
        BY <1>4, <3>1, <3>2, <3>5
      <4>. QED BY <1>2, <3>3, <3>5, <4>1
    <3>. QED BY <3>4, <3>5
  <2>. QED BY <2>1, <2>3
<1>15. n \in Good
  <2>1. \A i \in 0..n : i \in Good
    <3> HIDE DEF Good
    <3>. QED BY <1>2, <1>13, <1>14, CountInduction
  <2>2. n \in 0..n
    BY <1>2
  <2> HIDE DEF Good
  <2>. QED BY <2>1, <2>2
<1>16. ASSUME NEW r \in it[1..n]
       PROVE  r \in Filled(T, ws) /\ (Fit(T, ws, r.to) = {} \/ Assigned(r.to) = T)
  <2>1. n \in 0..n /\ run[n] = it[1..n]
    BY <1>2, <1>12 DEF Runs
  <2>2. it[1..n] \in V
    BY <1>12, <2>1
  <2>3. r \in Filled(T, ws)
    BY <2>2 DEF V
  <2>4. CASE Amount(r.to) = n
    <3>1. Assigned(r.to) \in SUBSET T
      BY <2>3 DEF Filled, Outcomes, Assigned
    <3>. QED BY <1>1, <2>3, <2>4, <3>1, FS_Subset DEF Amount, n
  <2>5. CASE Amount(r.to) # n
    BY <1>15, <2>1, <2>3, <2>5
  <2>. QED BY <2>4, <2>5
<1>17. it[1..n] # {}
  <2>1. it[1..n] \in V
    BY <1>2, <1>12 DEF Runs
  <2>. QED BY <2>1 DEF V
<1>. QED BY <1>3, <1>16, <1>17

\* The loads of the workers of a sequence have a largest one.
LEMMA LargestLoad ==
    ASSUME NEW ws \in Seq(Worker), ws # <<>>, NEW loads \in [Worker -> Nat]
    PROVE  \E top \in ToSet(ws) : \A w \in ToSet(ws) : loads[w] <= loads[top]
<1> DEFINE n == Len(ws)
           Good == {j \in 0..n :
                       j = 0 \/ \E i \in 1..j : \A k \in 1..j : loads[ws[k]] <= loads[ws[i]]}
<1>1. n \in Nat /\ n # 0 /\ DOMAIN ws = 1..n /\ \A i \in 1..n : ws[i] \in Worker
  OBVIOUS
<1>2. \A i \in 1..n : loads[ws[i]] \in Nat
  BY <1>1
<1> HIDE DEF n
<1>3. 0 \in Good
  BY <1>1
<1>4. ASSUME NEW j \in 1..n, j - 1 \in Good PROVE j \in Good
  <2>1. j \in 0..n /\ j \in 1..j
    BY <1>1
  <2>2. CASE j = 1
    <3>1. \A k \in 1..j : loads[ws[k]] <= loads[ws[1]]
      BY <1>2, <2>2
    <3>. QED BY <2>1, <2>2, <3>1
  <2>3. CASE j # 1
    <3>1. PICK i \in 1..(j - 1) : \A k \in 1..(j - 1) : loads[ws[k]] <= loads[ws[i]]
      BY <1>1, <1>4, <2>3
    <3>2. i \in 1..j /\ i \in 1..n
      BY <1>1
    <3>3. loads[ws[i]] \in Nat /\ loads[ws[j]] \in Nat
      BY <1>2, <3>2
    <3> DEFINE l == IF loads[ws[j]] <= loads[ws[i]] THEN i ELSE j
    <3>4. l \in 1..j /\ loads[ws[i]] <= loads[ws[l]] /\ loads[ws[j]] <= loads[ws[l]]
          /\ loads[ws[l]] \in Nat
      BY <2>1, <3>2, <3>3
    <3> HIDE DEF l
    <3>5. ASSUME NEW k \in 1..j PROVE loads[ws[k]] <= loads[ws[l]]
      <4>1. k = j \/ k \in 1..(j - 1)
        BY <1>1
      <4>2. k \in 1..n
        BY <1>1
      <4>3. loads[ws[k]] \in Nat
        BY <1>2, <4>2
      <4>. QED BY <3>1, <3>3, <3>4, <4>1, <4>3
    <3>. QED BY <2>1, <3>4, <3>5
  <2>. QED BY <2>2, <2>3
<1>5. n \in Good
  <2>1. \A j \in 0..n : j \in Good
    <3> HIDE DEF Good
    <3>. QED BY <1>1, <1>3, <1>4, CountInduction
  <2>2. n \in 0..n
    BY <1>1
  <2> HIDE DEF Good
  <2>. QED BY <2>1, <2>2
<1>6. PICK i \in 1..n : \A k \in 1..n : loads[ws[k]] <= loads[ws[i]]
  BY <1>1, <1>5
<1>7. ws[i] \in ToSet(ws) /\ \A w \in ToSet(ws) : \E k \in 1..n : w = ws[k]
  BY <1>1 DEF ToSet
<1>. QED BY <1>6, <1>7

\* Whatever the strategy, only tasks of the batch are given away and the strategy stays.
\* With load balancing, loads that were at most m apart before still are.
LEMMA DistributeOutcome ==
    ASSUME NEW d \in Distributor, NEW batch \in SUBSET Task, NEW ws \in Seq(Worker), ws # <<>>,
           NEW r \in Distribute(d, batch, ws)
    PROVE  /\ r \in Outcomes(d.strategy, batch)
           /\ d.strategy = "load-balanced" =>
                 \A m \in Nat \ {0} : Level(d.loads, ws, m) => Level(r.dist.loads, ws, m)
<1>1. PICK order \in Prioritized(batch) :
          r \in CASE d.strategy = "load-balanced" -> LoadBalanced(d, order, ws)
                  [] d.strategy = "round-robin"   -> RoundRobin(d, order, ws)
                  [] d.strategy = "cost-based"    -> CostBased(d, order, ws)
  BY DEF Distribute
<1>2. IsFiniteSet(batch) /\ Cardinality(batch) \in Nat
  BY DistributorAssumption, FS_Subset, FS_CardinalityType
<1>3. Lists(order, batch) /\ order \in [1..Cardinality(batch) -> batch]
  <2>1. order \in SetToSeqs(batch)
    BY DEF Prioritized
  <2>2. Lists(order, batch)
    BY <1>2, <2>1, ListsOfASet
  <2>. QED BY <2>2 DEF Lists
<1>4. CASE d.strategy = "load-balanced"
  <2>1. r \in LoadBalanced(d, order, ws)
    BY <1>1, <1>4
  <2>2. \E m \in Nat \ {0} : Level(d.loads, ws, m)
    <3>1. d.loads \in [Worker -> Nat]
      BY DEF Distributor
    <3>2. PICK w \in ToSet(ws) : \A v \in ToSet(ws) : d.loads[v] <= d.loads[w]
      BY <3>1, LargestLoad
    <3> DEFINE top == d.loads[w] + 1
    <3>4. top \in Nat \ {0} /\ \A v \in ToSet(ws) : d.loads[v] <= top
      <4>1. \A v \in ToSet(ws) : v \in Worker
        BY DEF ToSet
      <4>. QED BY <3>1, <3>2, <4>1
    <3> HIDE DEF top
    <3>3. ASSUME NEW a \in ToSet(ws), NEW b \in ToSet(ws) PROVE d.loads[a] - d.loads[b] <= top
      <4>1. a \in Worker /\ b \in Worker
        BY DEF ToSet
      <4>2. d.loads[a] \in Nat /\ d.loads[b] \in Nat /\ d.loads[a] <= top
        BY <3>1, <3>4, <4>1
      <4>. QED BY <3>4, <4>2
    <3>. QED BY <3>3, <3>4 DEF Level
  <2>3. ASSUME NEW m \in Nat \ {0}, Level(d.loads, ws, m)
        PROVE  r \in Outcomes("load-balanced", batch) /\ Level(r.dist.loads, ws, m)
    BY <1>2, <1>3, <1>4, <2>1, <2>3, LoadBalancedOutcome
  <2>. QED BY <1>4, <2>2, <2>3
<1>5. CASE d.strategy = "round-robin"
  <2>1. r \in RoundRobin(d, order, ws)
    BY <1>1, <1>5
  <2>. QED BY <1>2, <1>3, <1>5, <2>1, RoundRobinOutcome
<1>6. CASE d.strategy = "cost-based"
  <2>1. r \in CostBased(d, order, ws)
    BY <1>1, <1>6
  <2>. QED BY <1>3, <1>6, <2>1, CostBasedOutcome DEF Filled
<1>7. d.strategy \in Strategy
  BY DEF Distributor
<1>. QED BY <1>4, <1>5, <1>6, <1>7 DEF Strategy

-----------------------------------------------------------------------------
(* Types.                                                                  *)

\* What one call of DistributeTasks with workers does to the loads, the history and
\* the monitor.
LEMMA AssignEffect ==
    ASSUME TypeOK, workers # <<>>, NEW batch \in SUBSET Task,
           NEW d \in Distribute(distributor, batch, workers),
           NEW accepted \in SUBSET batch, Assign(d, accepted)
    PROVE  LET assigned == {t \in Task : d.to[t] # NoWorker} IN
           /\ d.to \in [Task -> Worker \cup {NoWorker}]
           /\ distributor' = d.dist /\ d.dist \in Distributor
           /\ d.dist.strategy = distributor.strategy
           /\ workerLoads' \in Loads
           /\ SumFunction(workerLoads') = SumFunction(workerLoads) + Cardinality(assigned)
<1> DEFINE assigned == {t \in Task : d.to[t] # NoWorker}
<1>1. d \in Outcomes(distributor.strategy, batch)
  BY DistributeOutcome DEF TypeOK
<1>2. /\ d.to \in [Task -> Worker \cup {NoWorker}]
      /\ d.dist \in Distributor /\ d.dist.strategy = distributor.strategy
  BY <1>1 DEF Outcomes
<1>3. /\ distributor' = d.dist
      /\ workerLoads' = LoadsAfterTracking(SetToSeq(assigned), d.to)
  BY DEF Assign
<1>4. workerLoads \in Loads
  BY DEF TypeOK, Loads
<1>5. assigned \in SUBSET Task /\ \A t \in assigned : d.to[t] \in Worker
  BY <1>2
<1> HIDE DEF assigned
<1>6. IsFiniteSet(assigned) /\ Cardinality(assigned) \in Nat
  BY <1>5, DistributorAssumption, FS_Subset, FS_CardinalityType
<1>7. SetToSeq(assigned) \in [1..Cardinality(assigned) -> assigned]
  BY <1>6, ListsOfASet DEF Lists
<1>8. /\ LoadsAfterTracking(SetToSeq(assigned), d.to) \in Loads
      /\ SumFunction(LoadsAfterTracking(SetToSeq(assigned), d.to))
            = SumFunction(workerLoads) + Cardinality(assigned)
  BY <1>4, <1>5, <1>6, <1>7, TrackingAddsAll
<1>. QED BY <1>2, <1>3, <1>8 DEF assigned

\* RebalanceTasks moves its tasks to workers and adds loads only.
LEMMA RebalanceEffect ==
    ASSUME TypeOK, RebalanceTasks
    PROVE  /\ Movable \subseteq DOMAIN history
           /\ \E new \in [Movable -> Worker] :
              /\ history' = [t \in DOMAIN history |->
                                IF t \in Movable THEN [history[t] EXCEPT !.worker = new[t]]
                                                 ELSE history[t]]
              /\ tracked' = [t \in DOMAIN tracked |->
                                IF t \in Movable THEN [worker |-> new[t], status |-> "pending"]
                                                 ELSE tracked[t]]
           /\ workerLoads' \in Loads
           /\ \E k \in Nat : SumFunction(workerLoads') = SumFunction(workerLoads) + k
<1>1. PICK tasks \in SetToSeqs(Movable), targets \in SetToSeqs(Underloaded) :
          LET To(i) == targets[((i - 1) % Len(targets)) + 1]
              new   == [t \in Movable |-> To(CHOOSE i \in DOMAIN tasks : tasks[i] = t)]
          IN  /\ history' = [t \in DOMAIN history |->
                                IF t \in Movable THEN [history[t] EXCEPT !.worker = new[t]]
                                                 ELSE history[t]]
              /\ tracked' = [t \in DOMAIN tracked |->
                                IF t \in Movable THEN [worker |-> new[t], status |-> "pending"]
                                                 ELSE tracked[t]]
              /\ workerLoads' = LoadsAfterTracking(tasks, new)
  BY DEF RebalanceTasks
<1> DEFINE To(i) == targets[((i - 1) % Len(targets)) + 1]
           at(t) == CHOOSE i \in DOMAIN tasks : tasks[i] = t
           new   == [t \in Movable |-> To(at(t))]
<1>2. /\ Movable \in SUBSET Task /\ Movable \subseteq DOMAIN history
      /\ Underloaded \in SUBSET Worker /\ Underloaded # {}
  BY DEF Movable, Underloaded, TypeOK, RebalanceTasks
<1>3. IsFiniteSet(Movable) /\ IsFiniteSet(Underloaded)
  BY <1>2, DistributorAssumption, FS_Subset
<1>4. Cardinality(Movable) \in Nat /\ Cardinality(Underloaded) \in Nat \ {0}
  BY <1>2, <1>3, FS_CardinalityType, FS_EmptySet
<1>5. Lists(tasks, Movable) /\ Lists(targets, Underloaded)
  BY <1>3, ListsOfASet
<1>6. Len(targets) = Cardinality(Underloaded)
  BY <1>4, <1>5 DEF Lists
<1>7. new \in [Movable -> Worker]
  <2> SUFFICES ASSUME NEW t \in Movable PROVE To(at(t)) \in Worker
    OBVIOUS
  <2>1. at(t) \in 1..Cardinality(Movable)
    BY <1>5 DEF Lists
  <2> HIDE DEF at
  <2> DEFINE i == at(t) - 1
             L == Cardinality(Underloaded)
  <2>2. i \in Nat /\ L \in Nat \ {0}
    BY <1>4, <2>1
  <2>3. To(at(t)) = targets[(i % L) + 1]
    BY <1>6
  <2> HIDE DEF i, L
  <2>4. i % L \in 0..(L - 1)
    BY <2>2
  <2>5. (i % L) + 1 \in 1..L
    BY <2>2, <2>4
  <2>6. targets[(i % L) + 1] \in Underloaded
    BY <1>5, <2>5 DEF Lists, L
  <2>. QED BY <1>2, <2>3, <2>6
<1>8. /\ history' = [t \in DOMAIN history |->
                        IF t \in Movable THEN [history[t] EXCEPT !.worker = new[t]]
                                         ELSE history[t]]
      /\ tracked' = [t \in DOMAIN tracked |->
                        IF t \in Movable THEN [worker |-> new[t], status |-> "pending"]
                                         ELSE tracked[t]]
      /\ workerLoads' = LoadsAfterTracking(tasks, new)
  BY <1>1
<1> HIDE DEF new
<1>9. workerLoads \in Loads
  BY DEF TypeOK, Loads
<1>10. \A t \in Movable : new[t] \in Worker
  BY <1>7
<1>11. tasks \in [1..Cardinality(Movable) -> Movable]
  BY <1>5 DEF Lists
<1>12. /\ workerLoads' \in Loads
       /\ SumFunction(workerLoads') = SumFunction(workerLoads) + Cardinality(Movable)
  <2>1. /\ LoadsAfterTracking(tasks, new) \in Loads
        /\ SumFunction(LoadsAfterTracking(tasks, new))
              = SumFunction(workerLoads) + Cardinality(Movable)
    BY <1>4, <1>9, <1>10, <1>11, TrackingAddsAll
  <2>. QED BY <1>8, <2>1
<1>. QED BY <1>2, <1>4, <1>7, <1>8, <1>12

LEMMA TypeOKInitially == Init => TypeOK
<1> SUFFICES ASSUME Init PROVE TypeOK
  OBVIOUS
<1>1. NewDistributor("load-balanced") \in Distributor
  BY DEF NewDistributor, Distributor, Strategy
<1>2. workers \in Seq(Worker)
  BY DEF Init
<1>3. DOMAIN history = {} /\ DOMAIN tracked = {} /\ DOMAIN workerLoads = {}
  BY DEF Init
<1>4. /\ history \in [{} -> TaskExecutionHistory] /\ tracked \in [{} -> TaskProgress]
      /\ workerLoads \in [{} -> Nat]
  BY <1>3 DEF Init
<1>5. distributions \in 0..MaxDistributions /\ rebalances \in 0..MaxRebalances
  BY SupervisorAssumption DEF Init
<1>6. inPool \in [Task -> Nat] /\ queue \subseteq Task
  BY DEF Init
<1>. QED BY <1>1, <1>2, <1>3, <1>4, <1>5, <1>6 DEF TypeOK, Init

\* What a report writes: one entry of each book, and a load that stays natural.
LEMMA ReportEffect ==
    ASSUME TypeOK, NEW t \in Task, NEW ok \in BOOLEAN, HandleTaskCompletion(t, ok)
    PROVE  LET st == IF ok THEN "completed" ELSE "failed" IN
           /\ t \in DOMAIN history
           /\ \E h \in TaskExecutionHistory :
                 /\ h.worker = history[t].worker /\ h.status = st
                 /\ history' = [history EXCEPT ![t] = h]
           /\ DOMAIN tracked' = DOMAIN tracked
           /\ \A u \in DOMAIN tracked : u # t => tracked'[u] = tracked[u]
           /\ t \in DOMAIN tracked => tracked'[t] = [tracked[t] EXCEPT !.status = st]
           /\ tracked' \in [DOMAIN tracked -> TaskProgress]
           /\ inPool' = [inPool EXCEPT ![t] = @ - 1] /\ inPool[t] \in Nat \ {0}
           /\ workerLoads' = LoadAfterEnd(workerLoads, t)
           /\ workerLoads' \in [DOMAIN workerLoads -> Nat]
<1> DEFINE st == IF ok THEN "completed" ELSE "failed"
           h == [attempts |-> IF ok THEN history[t].attempts
                              ELSE Min2(history[t].attempts + 1, MaxRetries),
                 worker   |-> history[t].worker,
                 status   |-> st,
                 errors   |-> IF ok THEN history[t].errors ELSE history[t].errors + 1]
<1>1. t \in DOMAIN history /\ inPool[t] > 0
  BY DEF HandleTaskCompletion, Known
<1>2. history[t] \in TaskExecutionHistory
  BY <1>1 DEF TypeOK
<1>3. st \in TaskStatus
  BY DEF TaskStatus
<1>4. Min2(history[t].attempts + 1, MaxRetries) \in Nat
  BY <1>2, SupervisorAssumption DEF Min2, TaskExecutionHistory
<1>5. h \in TaskExecutionHistory
  BY <1>2, <1>3, <1>4 DEF TaskExecutionHistory
<1>6. history' = [history EXCEPT ![t] = h]
  <2>1. history' = [history EXCEPT
                       ![t].status = st,
                       ![t].errors = IF ok THEN @ ELSE @ + 1,
                       ![t].attempts = IF ok THEN @ ELSE Min2(@ + 1, MaxRetries)]
    BY DEF HandleTaskCompletion
  <2> DEFINE D == DOMAIN history
  <2>2. history \in [D -> TaskExecutionHistory] /\ t \in D
    BY <1>1 DEF TypeOK
  <2> HIDE DEF D, st
  <2>3. history' = [u \in D |-> history'[u]] /\ \A u \in D : u # t => history'[u] = history[u]
    BY <2>1, <2>2
  <2>4. history'[t] = [history[t] EXCEPT
                          !.status = st,
                          !.errors = IF ok THEN @ ELSE @ + 1,
                          !.attempts = IF ok THEN @ ELSE Min2(@ + 1, MaxRetries)]
    BY <2>1, <2>2 DEF TaskExecutionHistory
  <2>5. history'[t] = h
    BY <1>2, <2>4 DEF TaskExecutionHistory
  <2> HIDE DEF h
  <2>. QED BY <2>2, <2>3, <2>5
<1>7. tracked' = [tracked EXCEPT ![t].status = st]
  BY DEF HandleTaskCompletion
<1>8. /\ DOMAIN tracked' = DOMAIN tracked
      /\ \A u \in DOMAIN tracked : u # t => tracked'[u] = tracked[u]
      /\ t \in DOMAIN tracked => tracked'[t] = [tracked[t] EXCEPT !.status = st]
  BY <1>7 DEF TypeOK
<1>9. tracked' \in [DOMAIN tracked -> TaskProgress]
  BY <1>3, <1>7 DEF TypeOK, TaskProgress
<1>10. workerLoads' = LoadAfterEnd(workerLoads, t)
  BY DEF HandleTaskCompletion
<1>11. workerLoads' \in [DOMAIN workerLoads -> Nat]
  <2> DEFINE w == tracked[t].worker
  <2>1. workerLoads' = [workerLoads EXCEPT ![w] = IF @ > 0 THEN @ - 1 ELSE 0]
    BY <1>10 DEF LoadAfterEnd
  <2> DEFINE D == DOMAIN workerLoads
  <2>2. workerLoads \in [D -> Nat]
    BY DEF TypeOK
  <2> HIDE DEF w, D
  <2>3. CASE w \in D
    BY <2>1, <2>2, <2>3
  <2>4. CASE w \notin D
    BY <2>1, <2>2, <2>4
  <2>. QED BY <2>3, <2>4 DEF D
<1>12. inPool' = [inPool EXCEPT ![t] = @ - 1]
  BY DEF HandleTaskCompletion
<1>13. inPool[t] \in Nat \ {0}
  BY <1>1 DEF TypeOK
<1> HIDE DEF h
<1>14. h.worker = history[t].worker /\ h.status = st
  BY DEF h
<1> HIDE DEF st
<1>. QED BY <1>1, <1>5, <1>6, <1>8, <1>9, <1>10, <1>11, <1>12, <1>13, <1>14 DEF st

LEMMA DistributeTyped ==
    ASSUME TypeOK, NEW batch \in SUBSET Task, DistributeTasks(batch)
    PROVE  TypeOK'
<1>1. /\ queue' \subseteq Task /\ distributions' \in 0..MaxDistributions
      /\ UNCHANGED <<workers, rebalances>>
  BY SupervisorAssumption DEF DistributeTasks, TypeOK
<1>2. CASE workers = <<>>
  <2>1. UNCHANGED <<distributor, history, tracked, workerLoads, inPool>>
    BY <1>2 DEF DistributeTasks
  <2>. QED BY <1>1, <2>1 DEF TypeOK
<1>3. CASE workers # <<>>
  <2>1. PICK d \in Distribute(distributor, batch, workers), accepted \in SUBSET batch :
            Assign(d, accepted)
    BY <1>3 DEF DistributeTasks
  <2> DEFINE assigned == {t \in Task : d.to[t] # NoWorker}
  <2>2. /\ d.to \in [Task -> Worker \cup {NoWorker}]
        /\ distributor' \in Distributor /\ workerLoads' \in Loads
    BY <1>3, <2>1, AssignEffect
  <2>3. \A t \in assigned : t \in Task /\ d.to[t] \in Worker
    BY <2>2
  <2>4. /\ tracked' = [t \in DOMAIN tracked \cup assigned |->
                          IF t \in assigned THEN [worker |-> d.to[t], status |-> "pending"]
                                            ELSE tracked[t]]
        /\ history' = [t \in DOMAIN history \cup assigned |->
                          IF t \in assigned
                             THEN [attempts |-> 0, worker |-> d.to[t], status |-> "pending",
                                   errors |-> 0]
                             ELSE history[t]]
        /\ inPool' = [t \in Task |-> IF t \in accepted THEN inPool[t] + 1 ELSE inPool[t]]
    BY <2>1 DEF Assign
  <2> HIDE DEF assigned
  <2>5. DOMAIN tracked' \subseteq Task /\ tracked' \in [DOMAIN tracked' -> TaskProgress]
    BY <2>3, <2>4 DEF TypeOK, TaskProgress, TaskStatus
  <2>6. DOMAIN history' \subseteq Task /\ history' \in [DOMAIN history' -> TaskExecutionHistory]
    BY <2>3, <2>4 DEF TypeOK, TaskExecutionHistory, TaskStatus
  <2>7. inPool' \in [Task -> Nat]
    BY <2>4 DEF TypeOK
  <2>8. DOMAIN workerLoads' \subseteq Worker /\ workerLoads' \in [DOMAIN workerLoads' -> Nat]
    BY <2>2 DEF Loads
  <2>. QED BY <1>1, <2>2, <2>5, <2>6, <2>7, <2>8 DEF TypeOK
<1>. QED BY <1>2, <1>3

LEMMA ReportTyped ==
    ASSUME TypeOK, NEW t \in Task, NEW ok \in BOOLEAN, HandleTaskCompletion(t, ok)
    PROVE  TypeOK'
<1>1. PICK h \in TaskExecutionHistory : history' = [history EXCEPT ![t] = h]
  BY ReportEffect, ZenonT(30)
<1>2. /\ t \in DOMAIN history
      /\ tracked' \in [DOMAIN tracked -> TaskProgress]
      /\ inPool' = [inPool EXCEPT ![t] = @ - 1] /\ inPool[t] \in Nat \ {0}
      /\ workerLoads' \in [DOMAIN workerLoads -> Nat]
  BY ReportEffect
<1>3. UNCHANGED <<workers, queue, distributor, distributions, rebalances>>
  BY DEF HandleTaskCompletion
<1>4. DOMAIN history' \subseteq Task /\ history' \in [DOMAIN history' -> TaskExecutionHistory]
  BY <1>1 DEF TypeOK
<1>5. DOMAIN tracked' \subseteq Task /\ tracked' \in [DOMAIN tracked' -> TaskProgress]
  BY <1>2 DEF TypeOK
<1>6. DOMAIN workerLoads' \subseteq Worker /\ workerLoads' \in [DOMAIN workerLoads' -> Nat]
  BY <1>2 DEF TypeOK
<1>7. inPool' \in [Task -> Nat]
  BY <1>2 DEF TypeOK
<1>. QED BY <1>3, <1>4, <1>5, <1>6, <1>7 DEF TypeOK

LEMMA RebalanceTyped ==
    ASSUME TypeOK, RebalanceTasks
    PROVE  TypeOK'
<1>1. PICK new \in [Movable -> Worker] :
              /\ history' = [t \in DOMAIN history |->
                                IF t \in Movable THEN [history[t] EXCEPT !.worker = new[t]]
                                                 ELSE history[t]]
              /\ tracked' = [t \in DOMAIN tracked |->
                                IF t \in Movable THEN [worker |-> new[t], status |-> "pending"]
                                                 ELSE tracked[t]]
  BY RebalanceEffect
<1>2. workerLoads' \in Loads
  BY RebalanceEffect
<1>3. UNCHANGED <<workers, queue, distributor, inPool, distributions>>
  BY DEF RebalanceTasks
<1>4. rebalances' \in 0..MaxRebalances
  <2>1. rebalances' = rebalances + 1 /\ rebalances < MaxRebalances
    BY DEF RebalanceTasks
  <2>. QED BY <2>1, SupervisorAssumption DEF TypeOK
<1>5. DOMAIN history' \subseteq Task /\ history' \in [DOMAIN history' -> TaskExecutionHistory]
  BY <1>1 DEF TypeOK, TaskExecutionHistory
<1>6. DOMAIN tracked' \subseteq Task /\ tracked' \in [DOMAIN tracked' -> TaskProgress]
  BY <1>1 DEF TypeOK, TaskProgress, TaskStatus
<1>7. DOMAIN workerLoads' \subseteq Worker /\ workerLoads' \in [DOMAIN workerLoads' -> Nat]
  BY <1>2 DEF Loads
<1>. QED BY <1>3, <1>4, <1>5, <1>6, <1>7 DEF TypeOK

LEMMA NewDistributorTyped ==
    \A st \in Strategy : NewDistributor(st) \in Distributor /\ NewDistributor(st).strategy = st
BY DEF NewDistributor, Distributor

LEMMA TypeOKInductive == TypeOK /\ [Next]_vars => TypeOK'
<1> SUFFICES ASSUME TypeOK, [Next]_vars PROVE TypeOK'
  OBVIOUS
<1>1. CASE PoolStarts
  BY <1>1, SupervisorAssumption DEF PoolStarts, TypeOK
<1>2. CASE PoolRestartsWorker
  <2>1. PICK w \in Worker : workers' = Append(workers, w)
    BY <1>2 DEF PoolRestartsWorker
  <2>2. workers' \in Seq(Worker)
    BY <2>1 DEF TypeOK
  <2>. QED BY <1>2, <2>2 DEF PoolRestartsWorker, TypeOK
<1>3. ASSUME NEW batch \in SUBSET Task, DistributeTasks(batch) PROVE TypeOK'
  BY <1>3, DistributeTyped
<1>4. ASSUME NEW t \in Task, NEW ok \in BOOLEAN, HandleTaskCompletion(t, ok) PROVE TypeOK'
  BY <1>4, ReportTyped
<1>5. CASE RebalanceTasks
  BY <1>5, RebalanceTyped
<1>6. CASE AdaptStrategy
  <2>1. distributor' \in Distributor
    BY <1>6, NewDistributorTyped DEF AdaptStrategy, TypeOK, Strategy
  <2>. QED BY <1>6, <2>1 DEF AdaptStrategy, TypeOK
<1>7. CASE UNCHANGED vars
  BY <1>7 DEF vars, TypeOK
<1>. QED BY <1>1, <1>2, <1>3, <1>4, <1>5, <1>6, <1>7 DEF Next

\* Every state is typed: the fold over the batch gives tasks to workers of the pool only,
\* and no report takes a load below zero.
THEOREM SupervisorTyped == Spec => []TypeOK
<1>. QED BY TypeOKInitially, TypeOKInductive, PTL DEF Spec

-----------------------------------------------------------------------------
(* The two books.                                                          *)

LEMMA BooksAgreeInductive == TypeOK /\ BooksAgree /\ [Next]_vars => BooksAgree'
<1> SUFFICES ASSUME TypeOK, BooksAgree, [Next]_vars PROVE BooksAgree'
  OBVIOUS
<1>1. ASSUME NEW batch \in SUBSET Task, DistributeTasks(batch) PROVE BooksAgree'
  <2>1. CASE workers = <<>>
    BY <1>1, <2>1 DEF DistributeTasks, BooksAgree
  <2>2. CASE workers # <<>>
    <3>1. PICK d \in Distribute(distributor, batch, workers), accepted \in SUBSET batch :
              Assign(d, accepted)
      BY <1>1, <2>2 DEF DistributeTasks
    <3> DEFINE assigned == {t \in Task : d.to[t] # NoWorker}
    <3>2. /\ tracked' = [t \in DOMAIN tracked \cup assigned |->
                            IF t \in assigned THEN [worker |-> d.to[t], status |-> "pending"]
                                              ELSE tracked[t]]
          /\ history' = [t \in DOMAIN history \cup assigned |->
                            IF t \in assigned
                               THEN [attempts |-> 0, worker |-> d.to[t], status |-> "pending",
                                     errors |-> 0]
                               ELSE history[t]]
      BY <3>1 DEF Assign
    <3> HIDE DEF assigned
    <3>. QED BY <3>2 DEF BooksAgree
  <2>. QED BY <2>1, <2>2
<1>2. ASSUME NEW t \in Task, NEW ok \in BOOLEAN, HandleTaskCompletion(t, ok) PROVE BooksAgree'
  <2> DEFINE st == IF ok THEN "completed" ELSE "failed"
  <2>1. PICK h \in TaskExecutionHistory :
            /\ h.worker = history[t].worker /\ h.status = st
            /\ history' = [history EXCEPT ![t] = h]
    BY <1>2, ReportEffect
  <2>2. /\ t \in DOMAIN history /\ t \in DOMAIN tracked
        /\ DOMAIN tracked' = DOMAIN tracked
        /\ \A u \in DOMAIN tracked : u # t => tracked'[u] = tracked[u]
        /\ tracked'[t] = [tracked[t] EXCEPT !.status = st]
    BY <1>2, ReportEffect DEF BooksAgree
  <2>3. tracked'[t].worker = history'[t].worker /\ tracked'[t].status = history'[t].status
    <3>1. tracked[t] \in TaskProgress
      BY <2>2 DEF TypeOK
    <3>2. tracked'[t].worker = tracked[t].worker /\ tracked'[t].status = st
      BY <2>2, <3>1 DEF TaskProgress
    <3>3. history'[t] = h
      BY <2>1, <2>2 DEF TypeOK
    <3>. QED BY <2>1, <2>2, <3>2, <3>3 DEF BooksAgree
  <2>4. ASSUME NEW u \in DOMAIN history, u # t
        PROVE  tracked'[u].worker = history'[u].worker /\ tracked'[u].status = history'[u].status
    <3>1. history'[u] = history[u] /\ tracked'[u] = tracked[u]
      BY <2>1, <2>2, <2>4 DEF TypeOK, BooksAgree
    <3>. QED BY <2>4, <3>1 DEF BooksAgree
  <2>5. DOMAIN history' = DOMAIN history /\ DOMAIN history' = DOMAIN tracked'
    BY <2>1, <2>2 DEF BooksAgree
  <2>. QED BY <2>3, <2>4, <2>5 DEF BooksAgree
<1>3. CASE RebalanceTasks
  <2>1. PICK new \in [Movable -> Worker] :
              /\ history' = [t \in DOMAIN history |->
                                IF t \in Movable THEN [history[t] EXCEPT !.worker = new[t]]
                                                 ELSE history[t]]
              /\ tracked' = [t \in DOMAIN tracked |->
                                IF t \in Movable THEN [worker |-> new[t], status |-> "pending"]
                                                 ELSE tracked[t]]
    BY <1>3, RebalanceEffect
  <2>2. ASSUME NEW t \in DOMAIN history, t \in Movable
        PROVE  /\ [history[t] EXCEPT !.worker = new[t]].worker = new[t]
               /\ [history[t] EXCEPT !.worker = new[t]].status = "pending"
    <3>1. history[t] \in TaskExecutionHistory /\ history[t].status = "pending"
      BY <2>2 DEF TypeOK, Movable
    <3>. QED BY <3>1 DEF TaskExecutionHistory
  <2>. QED BY <2>1, <2>2 DEF BooksAgree
<1>4. CASE PoolStarts \/ PoolRestartsWorker \/ AdaptStrategy \/ UNCHANGED vars
  <2>1. UNCHANGED <<history, tracked>>
    BY <1>4 DEF PoolStarts, PoolRestartsWorker, AdaptStrategy, vars
  <2>. QED BY <2>1 DEF BooksAgree
<1>. QED BY <1>1, <1>2, <1>3, <1>4 DEF Next

\* The history and the monitor never disagree about a task, its worker or its status,
\* through distributions, repeated ones, reports and moves.
THEOREM BooksAlwaysAgree == Spec => []BooksAgree
<1>1. Init => BooksAgree
  BY DEF Init, BooksAgree
<1>. QED BY <1>1, SupervisorTyped, BooksAgreeInductive, PTL DEF Spec

-----------------------------------------------------------------------------
(* The loads cover the work.                                               *)

LEMMA SumsAreNatural ==
    ASSUME TypeOK
    PROVE  SumFunction(workerLoads) \in Nat /\ SumFunction(inPool) \in Nat
<1>1. \A W \in SUBSET Worker : IsFiniteSet(W)
  BY DistributorAssumption, FS_Subset
<1>2. SumFunction(workerLoads) \in Nat
  <2> DEFINE D == DOMAIN workerLoads
  <2>1. IsFiniteSet(D) /\ \A x \in D : workerLoads[x] \in Nat
    BY <1>1 DEF TypeOK
  <2>2. D \in SUBSET D
    OBVIOUS
  <2> HIDE DEF D
  <2>3. SumFunctionOnSet(workerLoads, D) \in Nat
    BY <2>1, <2>2, SumTerm
  <2>. QED BY <2>3 DEF SumFunction, D
<1>3. SumFunction(inPool) \in Nat
  <2>1. IsFiniteSet(Task) /\ \A x \in Task : inPool[x] \in Nat
    BY DistributorAssumption DEF TypeOK
  <2>2. Task \in SUBSET Task
    OBVIOUS
  <2>3. SumFunctionOnSet(inPool, Task) \in Nat
    BY <2>1, <2>2, SumTerm
  <2>4. DOMAIN inPool = Task
    BY DEF TypeOK
  <2>. QED BY <2>3, <2>4 DEF SumFunction
<1>. QED BY <1>2, <1>3

\* A batch adds a load for every task it gives away and a run for those accepted.
LEMMA DistributeCovers ==
    ASSUME TypeOK, LoadsCoverWork, workers # <<>>, NEW batch \in SUBSET Task,
           NEW d \in Distribute(distributor, batch, workers),
           NEW accepted \in SUBSET batch, Assign(d, accepted)
    PROVE  LoadsCoverWork'
<1> DEFINE assigned == {t \in Task : d.to[t] # NoWorker}
<1>1. SumFunction(workerLoads') = SumFunction(workerLoads) + Cardinality(assigned)
  BY AssignEffect
<1>2. /\ accepted \subseteq assigned
      /\ inPool' = [t \in Task |-> IF t \in accepted THEN inPool[t] + 1 ELSE inPool[t]]
  BY DEF Assign
<1>3. assigned \subseteq Task
  OBVIOUS
<1> HIDE DEF assigned
<1>4. /\ IsFiniteSet(Task) /\ IsFiniteSet(assigned)
      /\ Cardinality(assigned) \in Nat /\ Cardinality(accepted) \in Nat
      /\ Cardinality(accepted) <= Cardinality(assigned)
  <2>1. IsFiniteSet(Task) /\ IsFiniteSet(assigned)
    BY <1>3, DistributorAssumption, FS_Subset
  <2>2. IsFiniteSet(accepted) /\ Cardinality(accepted) <= Cardinality(assigned)
    BY <1>2, <2>1, FS_Subset
  <2>. QED BY <2>1, <2>2, FS_CardinalityType
<1>5. SumFunction(inPool') = SumFunction(inPool) + Cardinality(accepted)
  <2>1. /\ accepted \in SUBSET Task
        /\ \A x \in Task : inPool[x] \in Nat /\ inPool'[x] \in Nat
        /\ \A x \in accepted : inPool'[x] = inPool[x] + 1
        /\ \A x \in Task \ accepted : inPool'[x] = inPool[x]
    BY <1>2, <1>3 DEF TypeOK
  <2>2. SumFunctionOnSet(inPool', Task) = SumFunctionOnSet(inPool, Task) + Cardinality(accepted)
    BY <1>4, <2>1, SumCompare
  <2>3. DOMAIN inPool = Task /\ DOMAIN inPool' = Task
    BY <1>2 DEF TypeOK
  <2>. QED BY <2>2, <2>3 DEF SumFunction
<1>6. /\ SumFunction(workerLoads) \in Nat /\ SumFunction(inPool) \in Nat
      /\ SumFunction(workerLoads) >= SumFunction(inPool)
  BY SumsAreNatural DEF LoadsCoverWork
<1>7. SumFunction(workerLoads') >= SumFunction(inPool')
  BY <1>1, <1>4, <1>5, <1>6
<1>. QED BY <1>7 DEF LoadsCoverWork

\* A report takes one run off, and one load or, at a worker without any, none.
LEMMA ReportCovers ==
    ASSUME TypeOK, LoadsCoverWork, NEW t \in Task, NEW ok \in BOOLEAN, HandleTaskCompletion(t, ok)
    PROVE  LoadsCoverWork'
<1> DEFINE D == DOMAIN workerLoads
           w == tracked[t].worker
<1>1. /\ inPool' = [inPool EXCEPT ![t] = @ - 1] /\ inPool[t] \in Nat \ {0}
      /\ workerLoads' = [workerLoads EXCEPT ![w] = IF @ > 0 THEN @ - 1 ELSE 0]
      /\ workerLoads' \in [D -> Nat]
  BY ReportEffect DEF LoadAfterEnd
<1>2. SumFunction(inPool) = SumFunction(inPool') + 1
  <2>1. /\ {t} \in SUBSET Task
        /\ \A x \in Task : inPool'[x] \in Nat /\ inPool[x] \in Nat
        /\ \A x \in {t} : inPool[x] = inPool'[x] + 1
        /\ \A x \in Task \ {t} : inPool[x] = inPool'[x]
    <3>1. inPool \in [Task -> Nat]
      BY DEF TypeOK
    <3>2. inPool'[t] = inPool[t] - 1 /\ \A x \in Task \ {t} : inPool'[x] = inPool[x]
      BY <1>1, <3>1
    <3>3. inPool'[t] \in Nat /\ inPool[t] = inPool'[t] + 1
      BY <1>1, <3>2
    <3>4. \A x \in Task : inPool'[x] \in Nat
      BY <3>1, <3>2, <3>3
    <3>. QED BY <3>1, <3>2, <3>3, <3>4
  <2>2. SumFunctionOnSet(inPool, Task) = SumFunctionOnSet(inPool', Task) + Cardinality({t})
    BY <2>1, DistributorAssumption, SumCompare
  <2>3. DOMAIN inPool = Task /\ DOMAIN inPool' = Task /\ Cardinality({t}) = 1
    BY <1>1, FS_Singleton DEF TypeOK
  <2>. QED BY <2>2, <2>3 DEF SumFunction
<1>3. IsFiniteSet(D) /\ workerLoads \in [D -> Nat] /\ DOMAIN workerLoads' = D
  BY <1>1, DistributorAssumption, FS_Subset DEF TypeOK
<1>4. /\ SumFunction(workerLoads) \in Nat /\ SumFunction(inPool) \in Nat
      /\ SumFunction(workerLoads) >= SumFunction(inPool)
  BY SumsAreNatural DEF LoadsCoverWork
<1> DEFINE F == SumFunctionOnSet(workerLoads, D)
           G == SumFunctionOnSet(workerLoads', D)
<1>5. SumFunction(workerLoads) = F /\ SumFunction(workerLoads') = G
  BY <1>3 DEF SumFunction
<1> HIDE DEF D, w
<1>6. G \in Nat
  <2>1. D \in SUBSET D /\ \A x \in D : workerLoads'[x] \in Nat
    BY <1>1
  <2>. QED BY <1>3, <2>1, SumTerm
<1>7. F = G \/ F = G + 1
  <2>1. CASE w \in D /\ workerLoads[w] > 0
    <3>1. /\ {w} \in SUBSET D
          /\ \A x \in D : workerLoads'[x] \in Nat /\ workerLoads[x] \in Nat
          /\ \A x \in {w} : workerLoads[x] = workerLoads'[x] + 1
          /\ \A x \in D \ {w} : workerLoads[x] = workerLoads'[x]
      BY <1>1, <1>3, <2>1
    <3>2. F = G + Cardinality({w})
      BY <1>3, <3>1, SumCompare
    <3>. QED BY <3>2, FS_Singleton
  <2>2. CASE ~(w \in D /\ workerLoads[w] > 0)
    <3>1. workerLoads' = workerLoads
      BY <1>1, <1>3, <2>2
    <3>. QED BY <3>1
  <2>. QED BY <2>1, <2>2
<1> HIDE DEF F, G
<1>8. SumFunction(inPool') \in Nat
  <2>1. IsFiniteSet(Task) /\ Task \in SUBSET Task /\ \A x \in Task : inPool'[x] \in Nat
    BY <1>1, DistributorAssumption DEF TypeOK
  <2>2. SumFunctionOnSet(inPool', Task) \in Nat
    BY <2>1, SumTerm
  <2>3. DOMAIN inPool' = Task
    BY <1>1 DEF TypeOK
  <2>. QED BY <2>2, <2>3 DEF SumFunction
<1>9. SumFunction(workerLoads') >= SumFunction(inPool')
  BY <1>2, <1>4, <1>5, <1>6, <1>7, <1>8
<1>. QED BY <1>9 DEF LoadsCoverWork

LEMMA LoadsCoverInductive == TypeOK /\ LoadsCoverWork /\ [Next]_vars => LoadsCoverWork'
<1> SUFFICES ASSUME TypeOK, LoadsCoverWork, [Next]_vars PROVE LoadsCoverWork'
  OBVIOUS
<1>1. ASSUME NEW batch \in SUBSET Task, DistributeTasks(batch) PROVE LoadsCoverWork'
  <2>1. CASE workers = <<>>
    BY <1>1, <2>1 DEF DistributeTasks, LoadsCoverWork
  <2>2. CASE workers # <<>>
    BY <1>1, <2>2, DistributeCovers DEF DistributeTasks
  <2>. QED BY <2>1, <2>2
<1>2. ASSUME NEW t \in Task, NEW ok \in BOOLEAN, HandleTaskCompletion(t, ok) PROVE LoadsCoverWork'
  BY <1>2, ReportCovers
<1>3. CASE RebalanceTasks
  <2>1. PICK k \in Nat : SumFunction(workerLoads') = SumFunction(workerLoads) + k
    BY <1>3, RebalanceEffect
  <2>2. inPool' = inPool
    BY <1>3 DEF RebalanceTasks
  <2>. QED BY <2>1, <2>2, SumsAreNatural DEF LoadsCoverWork
<1>4. CASE PoolStarts \/ PoolRestartsWorker \/ AdaptStrategy \/ UNCHANGED vars
  <2>1. UNCHANGED <<workerLoads, inPool>>
    BY <1>4 DEF PoolStarts, PoolRestartsWorker, AdaptStrategy, vars
  <2>. QED BY <2>1 DEF LoadsCoverWork
<1>. QED BY <1>1, <1>2, <1>3, <1>4 DEF Next

LEMMA LoadsCoverInitially == Init => LoadsCoverWork
<1> SUFFICES ASSUME Init PROVE LoadsCoverWork
  OBVIOUS
<1>1. IsFiniteSet(Task) /\ \A x \in Task : inPool[x] \in Nat
  BY DistributorAssumption DEF Init
<1> DEFINE Good == {S \in SUBSET Task : SumFunctionOnSet(inPool, S) = 0}
<1>2. ASSUME NEW S \in SUBSET Task, \A U \in SUBSET S : U # S => U \in Good PROVE S \in Good
  <2>1. CASE S = {}
    BY <1>1, <2>1, SumTerm
  <2>2. CASE S # {}
    <3>1. PICK x \in S : TRUE
      BY <2>2
    <3>2. SumFunctionOnSet(inPool, S) = inPool[x] + SumFunctionOnSet(inPool, S \ {x})
      BY <1>1, SumTerm
    <3>3. S \ {x} \in Good
      BY <1>2
    <3>. QED BY <3>2, <3>3 DEF Init
  <2>. QED BY <2>1, <2>2
<1>3. \A S \in SUBSET Task : S \in Good
  <2> HIDE DEF Good
  <2>. QED BY <1>1, <1>2, SubsetInduction
<1>4. SumFunction(inPool) = 0
  BY <1>3 DEF SumFunction, Init
<1>5. SumFunction(workerLoads) \in Nat
  BY TypeOKInitially, SumsAreNatural
<1>. QED BY <1>4, <1>5 DEF LoadsCoverWork

\* The monitor never believes there is less work than the pool owes: all loads together are
\* at least the runs accepted and not reported.
THEOREM LoadsAlwaysCoverWork == Spec => []LoadsCoverWork
<1>. QED BY LoadsCoverInitially, SupervisorTyped, LoadsCoverInductive, PTL DEF Spec

-----------------------------------------------------------------------------
(* The cost-based distributor on the supervisor's queue.                   *)

\* In every state, what the cost-based distributor would make of the whole queue gives no
\* worker more than its capacity and leaves nothing out that fits.
THEOREM CostBasedAlwaysFillsUp == Spec => []CostBasedFillsUp
<1>1. ASSUME TypeOK PROVE CostBasedFillsUp
  <2> SUFFICES ASSUME NEW d \in CostBased(NewDistributor("cost-based"), SetToSeq(queue), workers)
               PROVE  /\ \A w \in Worker : Given(d.to, w) <= Capacity
                      /\ (\E t \in queue : d.to[t] = NoWorker) =>
                            \A w \in ToSet(workers) : Given(d.to, w) = Capacity
    BY DEF CostBasedFillsUp
  <2>1. queue \in SUBSET Task /\ workers \in Seq(Worker)
    BY <1>1 DEF TypeOK
  <2>2. Lists(SetToSeq(queue), queue)
    BY <2>1, DistributorAssumption, FS_Subset, ListsOfASet
  <2>3. /\ NewDistributor("cost-based") \in Distributor
        /\ NewDistributor("cost-based").strategy = "cost-based"
    BY NewDistributorTyped DEF Strategy
  <2>4. d \in Filled(queue, workers) /\ (Fit(queue, workers, d.to) = {} \/ Assigned(d.to) = queue)
    <3> DEFINE new == NewDistributor("cost-based")
               order == SetToSeq(queue)
    <3>1. new \in Distributor /\ new.strategy = "cost-based" /\ Lists(order, queue)
      BY <2>2, <2>3
    <3>2. d \in CostBased(new, order, workers)
      OBVIOUS
    <3> HIDE DEF new, order
    <3>3. \A r \in CostBased(new, order, workers) :
             /\ r \in Filled(queue, workers)
             /\ Fit(queue, workers, r.to) = {} \/ Assigned(r.to) = queue
      BY <2>1, <3>1, CostBasedOutcome, ZenonT(30)
    <3>. QED BY <3>2, <3>3
  <2>5. \A w \in Worker : Given(d.to, w) <= Capacity
    BY <2>4 DEF Filled
  <2>6. ASSUME NEW t \in queue, d.to[t] = NoWorker, NEW w \in ToSet(workers)
        PROVE  Given(d.to, w) = Capacity
    <3>1. Fit(queue, workers, d.to) = {}
      BY <2>4, <2>6 DEF Assigned
    <3> DEFINE pair == [task |-> t, worker |-> w]
    <3>2. pair \in [task : queue, worker : ToSet(workers)] /\ pair.task = t /\ pair.worker = w
      OBVIOUS
    <3>3. ~ PairFits(d.to, pair)
      BY <3>1, <3>2 DEF Fit
    <3>4. ~(Given(d.to, w) < Capacity)
      BY <2>6, <3>2, <3>3 DEF PairFits
    <3>5. w \in Worker
      BY <2>1 DEF ToSet
    <3>6. Given(d.to, w) \in Nat
      <4>1. {u \in Task : d.to[u] = w} \in SUBSET Task
        OBVIOUS
      <4>. QED BY <4>1, DistributorAssumption, FS_Subset, FS_CardinalityType DEF Given
    <3>7. Given(d.to, w) <= Capacity /\ Capacity \in Nat
      BY <2>5, <3>5, DistributorAssumption
    <3>. QED BY <3>4, <3>6, <3>7
  <2>. QED BY <2>5, <2>6
<1>. QED BY <1>1, SupervisorTyped, PTL

-----------------------------------------------------------------------------
(* The least load.                                                         *)

\* Over positive numbers the fold of FoldMin finds the least, in every order.
LEMMA FoldMinFindsLeast ==
    ASSUME NEW D, NEW loads \in [D -> Nat \ {0}], NEW n \in Nat \ {0}, NEW order \in [1..n -> D],
           \A w \in D : \E i \in 1..n : order[i] = w
    PROVE  /\ \E w \in D : MinLoadSeen(loads, order) = loads[w]
           /\ \A w \in D : MinLoadSeen(loads, order) <= loads[w]
<1> DEFINE Op(m, w) == FoldMin(m, loads[w])
           step == [i \in 1..n |-> [m \in Nat |-> Op(m, order[i])]]
           it == CHOOSE it : it = [s \in SUBSET (1..n) |-> IF s = {} THEN 0
                                      ELSE Op(it[s \ {Max(s)}], order[Max(s)])]
<1>1. MinLoadSeen(loads, order) = it[1..n]
  BY DEF MinLoadSeen, FoldLeft, MapThenFoldSet
<1>2. \A m \in Nat, i \in 1..n : Op(m, order[i]) \in Nat
  BY DEF FoldMin
<1>3. \A i \in 1..n, m \in Nat : step[i][m] = Op(m, order[i]) /\ step[i][m] \in Nat
  BY <1>2
<1>4. n \in Nat /\ 0 \in Nat
  OBVIOUS
<1>5. PICK g \in [SUBSET (1..n) -> Nat] : Unwinds(g, n, 0, step)
  <2> HIDE DEF step
  <2>. QED BY <1>3, <1>4, SequenceFold
<1> HIDE DEF step, Op
<1>6. g = [s \in SUBSET (1..n) |-> IF s = {} THEN 0 ELSE Op(g[s \ {Max(s)}], order[Max(s)])]
  <2>1. ASSUME NEW s \in SUBSET (1..n), s # {}
        PROVE  step[Max(s)][g[s \ {Max(s)}]] = Op(g[s \ {Max(s)}], order[Max(s)])
    <3>1. Max(s) \in 1..n
      BY <1>4, <2>1, MaxIsLargest
    <3>2. s \ {Max(s)} \in SUBSET (1..n)
      OBVIOUS
    <3>3. g[s \ {Max(s)}] \in Nat
      BY <1>5, <3>2
    <3>. QED BY <1>3, <3>1, <3>3
  <2>2. \A s \in SUBSET (1..n) :
           g[s] = IF s = {} THEN 0 ELSE Op(g[s \ {Max(s)}], order[Max(s)])
    <3>1. \A s \in SUBSET (1..n) :
             g[s] = IF s = {} THEN 0 ELSE step[Max(s)][g[s \ {Max(s)}]]
      BY <1>5 DEF Unwinds
    <3>. QED BY <2>1, <3>1
  <2>. QED BY <2>2
<1>7. it = [s \in SUBSET (1..n) |-> IF s = {} THEN 0
                                    ELSE Op(it[s \ {Max(s)}], order[Max(s)])]
  BY <1>6
<1> HIDE DEF it
<1>8. UnwindsIn(Nat, it, n, 0, step)
  <2>1. it[{}] = 0
    BY <1>7
  <2>2. ASSUME NEW s \in SUBSET (1..n), s # {}, it[s \ {Max(s)}] \in Nat
        PROVE  it[s] = step[Max(s)][it[s \ {Max(s)}]]
    <3>1. it[s] = Op(it[s \ {Max(s)}], order[Max(s)])
      BY <1>7, <2>2
    <3>2. Max(s) \in 1..n
      BY <1>4, <2>2, MaxIsLargest
    <3>. QED BY <1>3, <2>2, <3>1, <3>2
  <2>. QED BY <2>1, <2>2 DEF UnwindsIn
<1>9. PICK run \in [0..n -> Nat] : Runs(run, n, 0, step, it[1..n])
  BY <1>3, <1>4, <1>8, FoldRun
<1> DEFINE Least(i) == /\ \E k \in 1..i : run[i] = loads[order[k]]
                       /\ \A k \in 1..i : run[i] <= loads[order[k]]
           Good == {i \in 0..n : i = 0 \/ Least(i)}
<1>10. 0 \in Good
  BY <1>4
<1>11. ASSUME NEW i \in 1..n, i - 1 \in Good PROVE i \in Good
  <2>1. i \in 0..n /\ i - 1 \in 0..n /\ i \in 1..i
    OBVIOUS
  <2>2. /\ run[i] = FoldMin(run[i - 1], loads[order[i]])
        /\ run[i - 1] \in Nat /\ loads[order[i]] \in Nat \ {0}
    BY <1>3, <1>9, <2>1 DEF Runs, Op
  <2>3. CASE i = 1
    <3>1. run[0] = 0
      BY <1>9 DEF Runs
    <3>2. run[i] = loads[order[i]]
      BY <2>2, <2>3, <3>1 DEF FoldMin
    <3>3. \A k \in 1..i : k = i
      BY <2>3
    <3>4. \E k \in 1..i : run[i] = loads[order[k]]
      BY <2>1, <3>2
    <3>5. ASSUME NEW k \in 1..i PROVE run[i] <= loads[order[k]]
      <4> DEFINE y == loads[order[i]]
      <4>1. y \in Nat /\ run[i] = y
        BY <2>2, <3>2
      <4> HIDE DEF y
      <4>2. run[i] <= y
        BY <4>1
      <4>. QED BY <3>3, <4>2 DEF y
    <3>. QED BY <2>1, <3>4, <3>5
  <2>4. CASE i # 1
    <3>1. Least(i - 1)
      BY <1>11, <2>1, <2>4
    <3>2. PICK k \in 1..(i - 1) : run[i - 1] = loads[order[k]]
      BY <3>1
    <3>3. k \in 1..n /\ k \in 1..i
      OBVIOUS
    <3>4. run[i - 1] # 0
      BY <3>2, <3>3
    <3>5. run[i] = IF loads[order[i]] < run[i - 1] THEN loads[order[i]] ELSE run[i - 1]
      BY <2>2, <3>4 DEF FoldMin
    <3>6. \E j \in 1..i : run[i] = loads[order[j]]
      BY <2>1, <3>2, <3>3, <3>5
    <3>7. ASSUME NEW j \in 1..i PROVE run[i] <= loads[order[j]]
      <4>1. j = i \/ j \in 1..(i - 1)
        OBVIOUS
      <4>2. j \in 1..n
        OBVIOUS
      <4>3. loads[order[j]] \in Nat
        BY <4>2
      <4>4. CASE j = i
        BY <2>2, <3>5, <4>4, SMTT(20)
      <4>5. CASE j \in 1..(i - 1)
        <5>1. run[i - 1] <= loads[order[j]]
          BY <3>1, <4>5
        <5> DEFINE x == run[i - 1]
                   y == loads[order[i]]
                   z == loads[order[j]]
        <5>2. x \in Nat /\ y \in Nat /\ z \in Nat /\ x <= z /\ run[i] = IF y < x THEN y ELSE x
          BY <2>2, <3>5, <4>3, <5>1
        <5> HIDE DEF x, y
        <5>3. run[i] <= z
          <6> HIDE DEF z
          <6>. QED BY <5>2
        <5>. QED BY <5>3
      <4>. QED BY <4>1, <4>4, <4>5
    <3>8. Least(i)
      BY <3>6, <3>7
    <3> HIDE DEF Least
    <3>. QED BY <2>1, <3>8
  <2>. QED BY <2>3, <2>4
<1>12. Least(n)
  <2>1. \A i \in 0..n : i \in Good
    <3> HIDE DEF Good
    <3>. QED BY <1>4, <1>10, <1>11, CountInduction
  <2>2. n \in 0..n /\ n # 0
    OBVIOUS
  <2> HIDE DEF Least
  <2>. QED BY <2>1, <2>2
<1>13. run[n] = it[1..n]
  BY <1>9 DEF Runs
<1>14. \E w \in D : it[1..n] = loads[w]
  <2>1. PICK k \in 1..n : run[n] = loads[order[k]]
    BY <1>12
  <2>. QED BY <1>13, <2>1
<1>15. ASSUME NEW w \in D PROVE it[1..n] <= loads[w]
  <2>1. PICK i \in 1..n : order[i] = w
    OBVIOUS
  <2>. QED BY <1>12, <1>13, <2>1
<1>. QED BY <1>1, <1>14, <1>15

\* When no worker is idle, the least load RebalanceTasks works with is the least load,
\* whatever the order in which Go ranges over the map.
THEOREM MinLoadAlwaysExactUnlessIdle == Spec => []MinLoadExactUnlessIdle
<1>1. ASSUME TypeOK PROVE MinLoadExactUnlessIdle
  <2> DEFINE D == DOMAIN workerLoads
             n == Cardinality(D)
  <2> SUFFICES ASSUME 0 \notin Range(workerLoads), workerLoads # <<>>,
                      NEW min \in MinLoads(workerLoads)
               PROVE  min \in Range(workerLoads) /\ \A l \in Range(workerLoads) : min <= l
    BY DEF MinLoadExactUnlessIdle
  <2>1. D \in SUBSET Worker /\ workerLoads \in [D -> Nat]
    BY <1>1 DEF TypeOK
  <2>2. IsFiniteSet(D) /\ n \in Nat
    BY <2>1, DistributorAssumption, FS_Subset, FS_CardinalityType
  <2>3. D # {}
    <3> SUFFICES ASSUME D = {} PROVE workerLoads = <<>>
      OBVIOUS
    <3>1. 1..0 = {}
      OBVIOUS
    <3>2. workerLoads \in [1..0 -> Nat]
      BY <2>1, <3>1
    <3>3. workerLoads \in Seq(Nat) /\ Len(workerLoads) = 0
      BY <3>2
    <3>. QED BY <3>3
  <2> HIDE DEF D
  <2>4. n \in Nat \ {0}
    BY <2>2, <2>3, FS_EmptySet
  <2>5. workerLoads \in [D -> Nat \ {0}]
    BY <2>1 DEF Range
  <2>6. PICK order \in SetToSeqs(D) :
            min = MinLoadSeen(workerLoads, order)
    BY DEF MinLoads, D
  <2>7. order \in [1..n -> D] /\ \A w \in D : \E i \in 1..n : order[i] = w
    BY <2>2, <2>6, ListsOfASet DEF Lists
  <2> HIDE DEF n
  <2>8. (\E w \in D : min = workerLoads[w]) /\ \A w \in D : min <= workerLoads[w]
    <3>1. /\ \E w \in D : MinLoadSeen(workerLoads, order) = workerLoads[w]
          /\ \A w \in D : MinLoadSeen(workerLoads, order) <= workerLoads[w]
      BY <2>4, <2>5, <2>7, FoldMinFindsLeast, Zenon
    <3>. QED BY <2>6, <3>1
  <2>. QED BY <2>1, <2>8 DEF Range
<1>. QED BY <1>1, SupervisorTyped, PTL

-----------------------------------------------------------------------------
(* Load balancing levels the pool's workers.                               *)

\* The gap is the least bound on the differences of two loads of the pool's workers.
LEMMA GapIsTight ==
    ASSUME NEW loads \in [Worker -> Nat], workers \in Seq(Worker), workers # <<>>
    PROVE  /\ Gap(loads) \in Nat
           /\ Level(loads, workers, Gap(loads))
           /\ \A m \in Nat : Level(loads, workers, m) => Gap(loads) <= m
<1> DEFINE ls == {loads[w] : w \in ToSet(workers)}
           diffs == {a - b : a, b \in ls}
<1>1. \A w \in ToSet(workers) : w \in Worker
  BY DEF ToSet
<1>2. ls \subseteq Nat
  BY <1>1
<1>3. PICK hi \in ls : \A a \in ls : a <= hi
  BY LargestLoad
<1>4. PICK lo \in ls : \A b \in ls : lo <= b
  <2>1. LeastLoaded(workers, loads) \in ToSet(workers)
    BY LeastLoadedIsLeast
  <2>2. \A w \in ToSet(workers) : loads[LeastLoaded(workers, loads)] <= loads[w]
    BY LeastLoadedIsLeast
  <2>. QED BY <2>1, <2>2
<1> HIDE DEF ls
<1>5. hi - lo \in diffs /\ \A a, b \in ls : a - b <= hi - lo
  <2>1. \A a, b \in ls : a - b <= hi - lo
    BY <1>2, <1>3, <1>4
  <2>. QED BY <2>1
<1>6. \E g \in diffs : \A a, b \in ls : a - b <= g
  BY <1>5
<1>7. Gap(loads) \in diffs /\ \A a, b \in ls : a - b <= Gap(loads)
  <2>1. Gap(loads) = CHOOSE g \in diffs : \A a, b \in ls : a - b <= g
    BY DEF Gap, ls
  <2> HIDE DEF diffs
  <2>. QED BY <1>6, <2>1
<1>8. PICK a \in ls, b \in ls : Gap(loads) = a - b
  BY <1>7
<1>9. Gap(loads) \in Nat
  <2>1. a - a <= Gap(loads) /\ a \in Nat /\ b \in Nat
    BY <1>2, <1>7
  <2>. QED BY <1>8, <2>1
<1>10. Level(loads, workers, Gap(loads))
  BY <1>7 DEF Level, ls
<1>11. ASSUME NEW m \in Nat, Level(loads, workers, m) PROVE Gap(loads) <= m
  BY <1>8, <1>11 DEF Level, ls
<1>. QED BY <1>9, <1>10, <1>11

LEMMA LevelsInductive ==
    TypeOK /\ [Next]_vars =>
        [distributor'.strategy = "load-balanced" /\ distributor' # distributor =>
            LET before == Gap(distributor.loads) IN
            Gap(distributor'.loads) <= IF before > 1 THEN before ELSE 1]_vars
<1> SUFFICES ASSUME TypeOK, Next, distributor'.strategy = "load-balanced",
                    distributor' # distributor
             PROVE  LET before == Gap(distributor.loads) IN
                    Gap(distributor'.loads) <= IF before > 1 THEN before ELSE 1
  OBVIOUS
<1>1. CASE AdaptStrategy
  <2>1. distributor'.strategy \in {"round-robin", "cost-based"}
    BY <1>1, NewDistributorTyped DEF AdaptStrategy, Strategy
  <2>. QED BY <2>1
<1>2. ASSUME NEW batch \in SUBSET Task, DistributeTasks(batch)
      PROVE  LET before == Gap(distributor.loads) IN
             Gap(distributor'.loads) <= IF before > 1 THEN before ELSE 1
  <2> DEFINE before == Gap(distributor.loads)
             m == IF before > 1 THEN before ELSE 1
  <2>1. workers # <<>>
    BY <1>2 DEF DistributeTasks
  <2>2. PICK d \in Distribute(distributor, batch, workers), accepted \in SUBSET batch :
            Assign(d, accepted)
    BY <1>2, <2>1 DEF DistributeTasks
  <2>3. distributor' = d.dist /\ d.dist \in Distributor /\ d.dist.strategy = distributor.strategy
    BY <2>1, <2>2, AssignEffect
  <2>4. distributor.loads \in [Worker -> Nat] /\ d.dist.loads \in [Worker -> Nat]
    BY <2>3 DEF TypeOK, Distributor
  <2>5. before \in Nat /\ Level(distributor.loads, workers, before) /\ workers \in Seq(Worker)
    BY <2>1, <2>4, GapIsTight DEF TypeOK
  <2> HIDE DEF before
  <2>6. m \in Nat \ {0} /\ before <= m
    BY <2>5
  <2> HIDE DEF m
  <2>7. Level(distributor.loads, workers, m)
    <3> SUFFICES ASSUME NEW a \in ToSet(workers), NEW b \in ToSet(workers)
                 PROVE  distributor.loads[a] - distributor.loads[b] <= m
      BY DEF Level
    <3>1. distributor.loads[a] - distributor.loads[b] <= before
      BY <2>5 DEF Level
    <3>2. a \in Worker /\ b \in Worker
      BY <2>5 DEF ToSet
    <3>3. distributor.loads[a] \in Nat /\ distributor.loads[b] \in Nat
      BY <2>4, <3>2
    <3>. QED BY <2>5, <2>6, <3>1, <3>3
  <2>8. Level(d.dist.loads, workers, m)
    <3>1. distributor \in Distributor /\ distributor.strategy = "load-balanced"
      BY <2>3 DEF TypeOK
    <3>. QED BY <2>1, <2>2, <2>5, <2>6, <2>7, <3>1, DistributeOutcome
  <2>9. Gap(d.dist.loads) <= m
    BY <2>1, <2>4, <2>5, <2>6, <2>8, GapIsTight
  <2>. QED BY <2>3, <2>9 DEF m, before
<1>3. CASE PoolStarts \/ PoolRestartsWorker \/ RebalanceTasks
           \/ \E t \in Task, ok \in BOOLEAN : HandleTaskCompletion(t, ok)
  BY <1>3 DEF PoolStarts, PoolRestartsWorker, RebalanceTasks, HandleTaskCompletion
<1>. QED BY <1>1, <1>2, <1>3 DEF Next

\* However many workers the health monitor has added, a load-balanced distribution never
\* widens the gap between two workers of the pool beyond the one task that cannot be split.
THEOREM DistributionAlwaysLevels == Spec => DistributionLevels
<1>. QED BY SupervisorTyped, LevelsInductive, PTL DEF Spec, DistributionLevels
=============================================================================
