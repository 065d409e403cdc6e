-------------------------- MODULE EvaluatorProofs --------------------------
(***************************************************************************)
(* What the proofs about timetables, their moves and their scores have in  *)
(* common; it holds for any problem whose catalogue is in order.           *)
(*                                                                         *)
(* Sums first: the recursion a sum is defined by has a solution over every *)
(* finite set, and the order in which it takes the elements does not       *)
(* matter.                                                                 *)
(***************************************************************************)
EXTENDS Evaluator, TLAPS, FiniteSetTheorems, SequenceTheorems, WellFoundedInduction

-----------------------------------------------------------------------------
(* Induction, said of sets of naturals and of subsets of a finite set. *)

\* A nonempty set of naturals has a least element.
LEMMA Least ==
  ASSUME NEW T \in SUBSET Nat, T # {}
  PROVE  \E n \in T : \A m \in T : n <= m
<1> DEFINE R == {ss \in Nat \X Nat : ss[1] < ss[2]}
<1>1. IsWellFoundedOn(R, Nat)
  BY NatLessThanWellFounded DEF OpToRel
<1>2. PICK n \in T : \A m \in T : <<m, n>> \notin R
  BY <1>1, WFMin
<1>3. \A m \in T : ~(m < n)
  BY <1>2
<1>4. \A m \in T : n <= m
  BY <1>3
<1> QED
  BY <1>4

\* A set of subsets that contains each one whose smaller ones it contains, contains them all.
LEMMA BySize ==
  ASSUME NEW U, IsFiniteSet(U), NEW Good,
         \A T \in SUBSET U :
           (\A V \in SUBSET U : Cardinality(V) < Cardinality(T) => V \in Good) => T \in Good
  PROVE  \A T \in SUBSET U : T \in Good
<1> SUFFICES ASSUME NEW W \in SUBSET U, W \notin Good PROVE FALSE
  OBVIOUS
<1> DEFINE Bad   == {T \in SUBSET U : T \notin Good}
           Sizes == {Cardinality(T) : T \in Bad}
<1>1. \A T \in SUBSET U : Cardinality(T) \in Nat
  BY FS_Subset, FS_CardinalityType
<1>2. Sizes \in SUBSET Nat /\ Sizes # {}
  BY <1>1
<1>3. PICK n \in Sizes : \A m \in Sizes : n <= m
  <2> HIDE DEF Sizes
  <2> QED
    BY <1>2, Least
<1>4. PICK T \in Bad : n = Cardinality(T)
  BY <1>3
<1>5. \A V \in SUBSET U : Cardinality(V) < Cardinality(T) => V \in Good
  <2> TAKE V \in SUBSET U
  <2>1. V \notin Good => Cardinality(V) \in Sizes
    OBVIOUS
  <2>2. Cardinality(V) \in Nat /\ Cardinality(T) \in Nat
    BY <1>1
  <2> HIDE DEF Sizes
  <2> QED
    BY <1>3, <1>4, <2>1, <2>2
<1> QED
  BY <1>4, <1>5

-----------------------------------------------------------------------------
(* Sums. *)

\* The recursion by which SumFunctionOnSet is defined, over a set of sets.
SumsOver(f, D, h) ==
  h = [s \in D |->
         IF s = {} THEN 0 ELSE f[CHOOSE x \in s : TRUE] + h[s \ {CHOOSE x \in s : TRUE}]]

Sums(f, S, h) == SumsOver(f, SUBSET S, h)

SubsetsUpTo(S, n) == {t \in SUBSET S : Cardinality(t) <= n}

\* What a sum is: the value at the set of a function on its subsets.
LEMMA SumChosen ==
  ASSUME NEW f, NEW S
  PROVE  SumFunctionOnSet(f, S) = (CHOOSE h : Sums(f, S, h))[S]
BY DEF SumFunctionOnSet, FoldFunctionOnSet, MapThenFoldSet, Sums, SumsOver

\* An element less makes a finite set smaller.
LEMMA OneLess ==
  ASSUME NEW S, IsFiniteSet(S), NEW x \in S
  PROVE  /\ IsFiniteSet(S \ {x}) /\ Cardinality(S) \in Nat /\ Cardinality(S \ {x}) \in Nat
         /\ Cardinality(S \ {x}) < Cardinality(S)
<1> DEFINE T == S \ {x}
<1>1. IsFiniteSet(T) /\ Cardinality(T) = Cardinality(S) - 1
  BY FS_RemoveElement
<1> HIDE DEF T
<1>2. Cardinality(S) \in Nat /\ Cardinality(T) \in Nat
  BY <1>1, FS_CardinalityType
<1> QED
  BY <1>1, <1>2 DEF T

\* The recursion can be solved for the subsets up to any size.
LEMMA SumsUpTo ==
  ASSUME NEW f, NEW S, IsFiniteSet(S), NEW n \in Nat
  PROVE  \E h : SumsOver(f, SubsetsUpTo(S, n), h)
<1> DEFINE D(m) == {t \in SUBSET S : Cardinality(t) <= m}
           Step(h, s) == IF s = {} THEN 0
                         ELSE f[CHOOSE x \in s : TRUE] + h[s \ {CHOOSE x \in s : TRUE}]
           Bad == {m \in Nat : ~ \E h : h = [s \in D(m) |-> Step(h, s)]}
<1> SUFFICES ASSUME n \in Bad PROVE FALSE
  BY DEF SumsOver, SubsetsUpTo
<1>1. PICK m \in Bad : \A k \in Bad : m <= k
  <2>1. Bad \in SUBSET Nat /\ Bad # {}
    OBVIOUS
  <2> HIDE DEF Bad
  <2> QED
    BY <2>1, Least
<1>2. \A t \in SUBSET S : IsFiniteSet(t) /\ Cardinality(t) \in Nat
  BY FS_Subset, FS_CardinalityType
<1>3. CASE m = 0
  <2> DEFINE h == [s \in D(0) |-> 0]
  <2>1. \A t \in D(0) : t = {}
    BY <1>2, FS_EmptySet
  <2>2. \A s \in D(0) : Step(h, s) = 0
    BY <2>1
  <2>3. h = [s \in D(0) |-> Step(h, s)]
    BY <2>2
  <2> QED
    BY <1>1, <1>3, <2>3
<1>4. CASE m # 0
  <2>1. m - 1 \in Nat /\ m \in Nat /\ ~(m <= m - 1)
    BY <1>1, <1>4
  <2>2. m - 1 \notin Bad
    <3> HIDE DEF Bad
    <3> QED
      BY <1>1, <2>1
  <2>3. PICK g : g = [s \in D(m - 1) |-> Step(g, s)]
    BY <2>1, <2>2
  <2> DEFINE h == [s \in D(m) |-> Step(g, s)]
  <2>4. ASSUME NEW s \in D(m), s # {}, NEW x \in s
        PROVE  g[s \ {x}] = h[s \ {x}]
    <3>1. s \ {x} \in D(m - 1) /\ s \ {x} \in D(m)
      BY <1>2, <2>1, <2>4, OneLess
    <3> HIDE DEF Step, D
    <3> QED
      BY <2>3, <3>1
  <2>5. ASSUME NEW s \in D(m) PROVE Step(g, s) = Step(h, s)
    <3> HIDE DEF h, D
    <3>1. CASE s = {}
      BY <3>1
    <3>2. CASE s # {}
      <4> DEFINE x == CHOOSE y \in s : TRUE
      <4>1. x \in s
        BY <3>2
      <4>2. g[s \ {x}] = h[s \ {x}]
        BY <2>4, <3>2, <4>1
      <4> QED
        BY <3>2, <4>2
    <3> QED
      BY <3>1, <3>2
  <2>6. h = [s \in D(m) |-> Step(h, s)]
    <3> HIDE DEF Step, D
    <3> QED
      BY <2>5
  <2> QED
    BY <1>1, <2>6
<1> QED
  BY <1>3, <1>4

\* Hence for all of them.
LEMMA SumsExist ==
  ASSUME NEW f, NEW S, IsFiniteSet(S)
  PROVE  \E h : Sums(f, S, h)
<1>1. \A t \in SUBSET S : Cardinality(t) \in Nat /\ Cardinality(t) <= Cardinality(S)
  BY FS_Subset, FS_CardinalityType
<1>2. SubsetsUpTo(S, Cardinality(S)) = SUBSET S
  BY <1>1 DEF SubsetsUpTo
<1>3. Cardinality(S) \in Nat
  BY FS_CardinalityType
<1>4. PICK h : SumsOver(f, SubsetsUpTo(S, Cardinality(S)), h)
  BY <1>3, SumsUpTo
<1>5. Sums(f, S, h)
  BY <1>2, <1>4 DEF Sums
<1> QED
  BY <1>5

\* Where two solutions are both defined, they agree.
LEMMA SumsAgree ==
  ASSUME NEW f, NEW S, IsFiniteSet(S), NEW T \in SUBSET S, NEW h, Sums(f, S, h), NEW g, Sums(f, T, g)
  PROVE  \A s \in SUBSET T : h[s] = g[s]
<1> DEFINE Good == {s \in SUBSET T : h[s] = g[s]}
<1>1. IsFiniteSet(T)
  BY FS_Subset
<1>2. ASSUME NEW s \in SUBSET T,
             \A t \in SUBSET T : Cardinality(t) < Cardinality(s) => t \in Good
      PROVE  s \in Good
  <2>1. CASE s = {}
    BY <2>1 DEF Sums, SumsOver
  <2>2. CASE s # {}
    <3> DEFINE x == CHOOSE y \in s : TRUE
    <3>1. x \in s
      BY <2>2
    <3> HIDE DEF x
    <3>2. IsFiniteSet(s)
      BY <1>1, FS_Subset
    <3>3. s \ {x} \in Good
      BY <1>2, <3>1, <3>2, OneLess
    <3>4. h[s] = f[x] + h[s \ {x}] /\ g[s] = f[x] + g[s \ {x}]
      BY <2>2 DEF Sums, SumsOver, x
    <3> QED
      BY <3>3, <3>4
  <2> QED
    BY <2>1, <2>2
<1> HIDE DEF Good
<1>3. \A s \in SUBSET T : s \in Good
  BY <1>1, <1>2, BySize
<1> QED
  BY <1>3 DEF Good

\* The sum over nothing.
LEMMA SumEmpty ==
  ASSUME NEW f
  PROVE  SumFunctionOnSet(f, {}) = 0
<1> DEFINE h == CHOOSE g : Sums(f, {}, g)
<1>1. Sums(f, {}, h)
  BY SumsExist, FS_EmptySet
<1> HIDE DEF h
<1>2. h[{}] = 0
  BY <1>1 DEF Sums, SumsOver
<1> QED
  BY <1>2, SumChosen DEF h

\* The element the recursion takes.
LEMMA SumFirst ==
  ASSUME NEW f, NEW S, IsFiniteSet(S), S # {}
  PROVE  \E x \in S : SumFunctionOnSet(f, S) = f[x] + SumFunctionOnSet(f, S \ {x})
<1> DEFINE x == CHOOSE y \in S : TRUE
           T == S \ {x}
           h == CHOOSE k : Sums(f, S, k)
           g == CHOOSE k : Sums(f, T, k)
<1>1. x \in S
  OBVIOUS
<1>2. IsFiniteSet(T)
  BY FS_Subset
<1>3. Sums(f, S, h)
  BY SumsExist
<1>4. Sums(f, T, g)
  <2> HIDE DEF T
  <2> QED
    BY <1>2, SumsExist
<1>5. SumFunctionOnSet(f, S) = h[S] /\ SumFunctionOnSet(f, T) = g[T]
  BY SumChosen
<1> HIDE DEF h, g
<1>6. h[S] = f[x] + h[T]
  BY <1>3 DEF Sums, SumsOver
<1>7. h[T] = g[T]
  <2>1. T \in SUBSET S
    OBVIOUS
  <2> HIDE DEF T
  <2> QED
    BY <1>3, <1>4, <2>1, SumsAgree
<1> QED
  BY <1>1, <1>5, <1>6, <1>7

\* A sum of integers is an integer, and any element may be taken first.
LEMMA SumTaken ==
  ASSUME NEW f, NEW S, IsFiniteSet(S), \A x \in S : f[x] \in Int
  PROVE  /\ SumFunctionOnSet(f, S) \in Int
         /\ \A x \in S : SumFunctionOnSet(f, S) = f[x] + SumFunctionOnSet(f, S \ {x})
<1> DEFINE Good == {T \in SUBSET S :
                      /\ SumFunctionOnSet(f, T) \in Int
                      /\ \A x \in T : SumFunctionOnSet(f, T) = f[x] + SumFunctionOnSet(f, T \ {x})}
<1>1. ASSUME NEW T \in SUBSET S,
             \A V \in SUBSET S : Cardinality(V) < Cardinality(T) => V \in Good
      PROVE  T \in Good
  <2>1. IsFiniteSet(T)
    BY FS_Subset
  <2>2. CASE T = {}
    BY <2>2, SumEmpty
  <2>3. CASE T # {}
    <3>1. \A x \in T : T \ {x} \in Good
      BY <1>1, <2>1, OneLess
    <3>2. PICK y \in T : SumFunctionOnSet(f, T) = f[y] + SumFunctionOnSet(f, T \ {y})
      BY <2>1, <2>3, SumFirst
    <3>3. \A x \in T : /\ f[x] \in Int /\ SumFunctionOnSet(f, T \ {x}) \in Int
                       /\ \A z \in T \ {x} : SumFunctionOnSet(f, T \ {x})
                                               = f[z] + SumFunctionOnSet(f, (T \ {x}) \ {z})
      BY <3>1
    <3>4. SumFunctionOnSet(f, T) \in Int
      BY <3>2, <3>3
    <3>5. ASSUME NEW x \in T
          PROVE  SumFunctionOnSet(f, T) = f[x] + SumFunctionOnSet(f, T \ {x})
      <4>1. CASE x = y
        BY <3>2, <4>1
      <4>2. CASE x # y
        <5> DEFINE W == (T \ {x}) \ {y}
        <5>1. (T \ {y}) \ {x} = W
          OBVIOUS
        <5>2. /\ SumFunctionOnSet(f, T \ {y}) = f[x] + SumFunctionOnSet(f, W)
              /\ SumFunctionOnSet(f, T \ {x}) = f[y] + SumFunctionOnSet(f, W)
          BY <3>3, <4>2, <5>1
        <5>3. SumFunctionOnSet(f, W) \in Int
          <6>1. W \in SUBSET S /\ Cardinality(W) < Cardinality(T)
            <7>1. /\ IsFiniteSet(T \ {x}) /\ Cardinality(T) \in Nat /\ Cardinality(T \ {x}) \in Nat
                  /\ Cardinality(T \ {x}) < Cardinality(T)
              BY <2>1, OneLess
            <7>2. Cardinality(W) \in Nat /\ Cardinality(W) < Cardinality(T \ {x})
              BY <4>2, <7>1, OneLess
            <7> QED
              BY <7>1, <7>2
          <6>2. W \in Good
            BY <1>1, <6>1
          <6> QED
            BY <6>2
        <5> HIDE DEF W
        <5> QED
          BY <3>2, <3>3, <5>2, <5>3
      <4> QED
        BY <4>1, <4>2
    <3> QED
      BY <3>4, <3>5
  <2> QED
    BY <2>2, <2>3
<1> HIDE DEF Good
<1>2. S \in Good
  BY <1>1, BySize
<1> QED
  BY <1>2 DEF Good

\* Induction by taking elements away.
LEMMA ByTaking ==
  ASSUME NEW U, IsFiniteSet(U), NEW Good, {} \in Good,
         \A T \in SUBSET U : \A x \in T : T \ {x} \in Good => T \in Good
  PROVE  U \in Good
<1>1. ASSUME NEW T \in SUBSET U,
             \A V \in SUBSET U : Cardinality(V) < Cardinality(T) => V \in Good
      PROVE  T \in Good
  <2>1. IsFiniteSet(T)
    BY FS_Subset
  <2>2. CASE T # {}
    <3>1. PICK x \in T : TRUE
      BY <2>2
    <3>2. T \ {x} \in SUBSET U /\ Cardinality(T \ {x}) < Cardinality(T)
      BY <2>1, OneLess
    <3> QED
      BY <1>1, <3>2
  <2> QED
    BY <2>2
<1> QED
  BY <1>1, BySize

\* A sum of naturals is one, and none of them is greater.
LEMMA SumNat ==
  ASSUME NEW f, NEW S, IsFiniteSet(S), \A x \in S : f[x] \in Nat
  PROVE  /\ SumFunctionOnSet(f, S) \in Nat
         /\ \A x \in S : f[x] <= SumFunctionOnSet(f, S)
<1> DEFINE Good == {T \in SUBSET S : SumFunctionOnSet(f, T) \in Nat}
<1>1. {} \in Good
  BY SumEmpty
<1>2. ASSUME NEW T \in SUBSET S, NEW x \in T, T \ {x} \in Good
      PROVE  T \in Good
  <2>1. IsFiniteSet(T) /\ \A y \in T : f[y] \in Int
    BY FS_Subset
  <2>2. SumFunctionOnSet(f, T) = f[x] + SumFunctionOnSet(f, T \ {x})
    BY <2>1, SumTaken
  <2> QED
    BY <1>2, <2>2
<1>3. \A T \in SUBSET S : T \in Good
  <2> TAKE T \in SUBSET S
  <2>1. IsFiniteSet(T)
    BY FS_Subset
  <2> HIDE DEF Good
  <2> QED
    BY <1>1, <1>2, <2>1, ByTaking
<1>4. ASSUME NEW x \in S PROVE f[x] <= SumFunctionOnSet(f, S)
  <2>1. SumFunctionOnSet(f, S) = f[x] + SumFunctionOnSet(f, S \ {x})
    BY SumTaken
  <2>2. SumFunctionOnSet(f, S \ {x}) \in Nat
    BY <1>3
  <2> QED
    BY <2>1, <2>2
<1> QED
  BY <1>3, <1>4

\* The sum of the sums of two functions.
LEMMA SumPlus ==
  ASSUME NEW f, NEW g, NEW h, NEW S, IsFiniteSet(S),
         \A x \in S : f[x] \in Int /\ g[x] \in Int /\ h[x] = f[x] + g[x]
  PROVE  SumFunctionOnSet(h, S) = SumFunctionOnSet(f, S) + SumFunctionOnSet(g, S)
<1> DEFINE Good == {T \in SUBSET S :
             SumFunctionOnSet(h, T) = SumFunctionOnSet(f, T) + SumFunctionOnSet(g, T)}
<1>1. {} \in Good
  BY SumEmpty
<1>2. ASSUME NEW T \in SUBSET S, NEW x \in T, T \ {x} \in Good
      PROVE  T \in Good
  <2>1. IsFiniteSet(T) /\ IsFiniteSet(T \ {x})
    BY FS_Subset
  <2>2. \A y \in T : f[y] \in Int /\ g[y] \in Int /\ h[y] \in Int
    OBVIOUS
  <2>3. /\ SumFunctionOnSet(f, T) = f[x] + SumFunctionOnSet(f, T \ {x})
        /\ SumFunctionOnSet(g, T) = g[x] + SumFunctionOnSet(g, T \ {x})
        /\ SumFunctionOnSet(h, T) = h[x] + SumFunctionOnSet(h, T \ {x})
    BY <2>1, <2>2, SumTaken
  <2>4. SumFunctionOnSet(f, T \ {x}) \in Int /\ SumFunctionOnSet(g, T \ {x}) \in Int
    BY <2>1, <2>2, SumTaken
  <2> QED
    BY <1>2, <2>2, <2>3, <2>4
<1> HIDE DEF Good
<1>3. S \in Good
  BY <1>1, <1>2, ByTaking
<1> QED
  BY <1>3 DEF Good

\* What is zero does not count.
LEMMA SumPart ==
  ASSUME NEW f, NEW S, IsFiniteSet(S), NEW T \in SUBSET S,
         \A x \in T : f[x] \in Int, \A x \in S \ T : f[x] = 0
  PROVE  SumFunctionOnSet(f, S) = SumFunctionOnSet(f, T)
<1> DEFINE Good == {V \in SUBSET S : SumFunctionOnSet(f, V) = SumFunctionOnSet(f, V \cap T)}
<1>1. {} \in Good
  <2>1. {} \cap T = {}
    OBVIOUS
  <2> QED
    BY <2>1
<1>2. ASSUME NEW V \in SUBSET S, NEW x \in V, V \ {x} \in Good
      PROVE  V \in Good
  <2>1. IsFiniteSet(V) /\ IsFiniteSet(V \cap T) /\ IsFiniteSet(V \ {x})
    BY FS_Subset
  <2>2. \A y \in V : f[y] \in Int
    OBVIOUS
  <2>3. /\ SumFunctionOnSet(f, V) = f[x] + SumFunctionOnSet(f, V \ {x})
        /\ SumFunctionOnSet(f, V \ {x}) \in Int
    BY <2>1, <2>2, SumTaken
  <2>4. CASE x \in T
    <3>1. SumFunctionOnSet(f, V \cap T) = f[x] + SumFunctionOnSet(f, (V \cap T) \ {x})
      BY <2>1, <2>2, <2>4, SumTaken
    <3>2. (V \cap T) \ {x} = (V \ {x}) \cap T
      OBVIOUS
    <3> QED
      BY <1>2, <2>3, <3>1, <3>2
  <2>5. CASE x \notin T
    <3>1. V \cap T = (V \ {x}) \cap T
      BY <2>5
    <3>2. f[x] = 0
      BY <2>5
    <3>3. SumFunctionOnSet(f, V) = SumFunctionOnSet(f, V \ {x})
      BY <2>3, <3>2
    <3>4. SumFunctionOnSet(f, V \ {x}) = SumFunctionOnSet(f, (V \ {x}) \cap T)
      BY <1>2
    <3> QED
      BY <3>1, <3>3, <3>4
  <2> QED
    BY <2>4, <2>5
<1> HIDE DEF Good
<1>3. S \in Good
  BY <1>1, <1>2, ByTaking
<1>4. S \cap T = T
  OBVIOUS
<1> QED
  BY <1>3, <1>4 DEF Good

\* A sum depends on the values that are summed only.
LEMMA SumSame ==
  ASSUME NEW f, NEW g, NEW S, IsFiniteSet(S), \A x \in S : f[x] \in Int /\ f[x] = g[x]
  PROVE  SumFunctionOnSet(f, S) = SumFunctionOnSet(g, S)
<1> DEFINE z == [x \in S |-> 0]
<1>1. SumFunctionOnSet(z, S) = SumFunctionOnSet(z, {})
  BY SumPart
<1>2. SumFunctionOnSet(z, S) = 0
  BY <1>1, SumEmpty
<1>3. \A x \in S : f[x] \in Int /\ z[x] \in Int /\ g[x] = f[x] + z[x]
  OBVIOUS
<1> HIDE DEF z
<1>4. SumFunctionOnSet(g, S) = SumFunctionOnSet(f, S) + SumFunctionOnSet(z, S)
  BY <1>3, SumPlus
<1>5. SumFunctionOnSet(f, S) \in Int
  BY SumTaken
<1> QED
  BY <1>2, <1>4, <1>5

\* Where two functions differ on few elements, the sum of the differences there is the
\* difference of the sums.
LEMMA SumDelta ==
  ASSUME NEW f, NEW g, NEW S, IsFiniteSet(S), NEW K \in SUBSET S, NEW d,
         \A x \in S : f[x] \in Int /\ g[x] \in Int,
         \A x \in K : d[x] = g[x] - f[x],
         \A x \in S \ K : g[x] = f[x]
  PROVE  SumFunctionOnSet(g, S) = SumFunctionOnSet(f, S) + SumFunctionOnSet(d, K)
<1> DEFINE e == [x \in S |-> IF x \in K THEN d[x] ELSE 0]
<1>1. \A x \in S : f[x] \in Int /\ e[x] \in Int /\ g[x] = f[x] + e[x]
  OBVIOUS
<1>2. (\A x \in K : e[x] \in Int /\ e[x] = d[x]) /\ \A x \in S \ K : e[x] = 0
  OBVIOUS
<1> HIDE DEF e
<1>3. SumFunctionOnSet(g, S) = SumFunctionOnSet(f, S) + SumFunctionOnSet(e, S)
  BY <1>1, SumPlus
<1>4. SumFunctionOnSet(e, S) = SumFunctionOnSet(e, K)
  BY <1>2, SumPart
<1>5. IsFiniteSet(K)
  BY FS_Subset
<1>6. SumFunctionOnSet(e, K) = SumFunctionOnSet(d, K)
  BY <1>2, <1>5, SumSame
<1> QED
  BY <1>3, <1>4, <1>6

\* The sum over one element, and over two.
LEMMA SumOfOne ==
  ASSUME NEW f, NEW x, f[x] \in Int
  PROVE  SumFunctionOnSet(f, {x}) = f[x]
<1>1. IsFiniteSet({x})
  BY FS_Singleton
<1>2. SumFunctionOnSet(f, {x}) = f[x] + SumFunctionOnSet(f, {x} \ {x})
  BY <1>1, SumTaken
<1>3. {x} \ {x} = {}
  OBVIOUS
<1> QED
  BY <1>2, <1>3, SumEmpty

-----------------------------------------------------------------------------
(* Lists, positions and places. *)

Listed(p, l) == /\ l \in Seq(Assignment(p))
                /\ \A k, j \in DOMAIN l : k # j => l[k].id # l[j].id

HeldFaculty(p, a) == {FacultyOf(p, a)} \X Held(p, a)
HeldRoom(p, a)    == {a.room} \X Held(p, a)
HeldGroup(p, a)   == {GroupOf(p, a)} \X Held(p, a)

\* With distinct ids, an id leads back to its place in the list.
LEMMA PositionIs ==
  ASSUME NEW p, NEW l, Listed(p, l), NEW k \in DOMAIN l
  PROVE  Position(l, l[k].id) = k /\ Present(l, l[k].id)
<1>1. DOMAIN l \subseteq Nat
  BY DEF Listed
<1>2. \A j \in 1 .. k - 1 : j \in DOMAIN l
  BY DEF Listed
<1>3. \A j \in DOMAIN l : l[j].id = l[k].id => j = k
  BY DEF Listed
<1>4. l[k].id = l[k].id /\ \A j \in 1 .. k - 1 : l[j].id # l[k].id
  BY <1>1, <1>2, <1>3
<1> QED
  BY <1>3, <1>4 DEF Position, Present

\* A session in another place, field by field.
LEMMA Replaced ==
  \A i, r, m, t, x, y : PlacedAt([id |-> i, req |-> r, room |-> m, slot |-> t], <<x, y>>)
                          = [id |-> i, req |-> r, room |-> x, slot |-> y]
<1> TAKE i, r, m, t, x, y
<1> DEFINE b == PlacedAt([id |-> i, req |-> r, room |-> m, slot |-> t], <<x, y>>)
<1>1. b \in [id : {i}, req : {r}, room : {x}, slot : {y}]
  BY DEF PlacedAt
<1> HIDE DEF b
<1>2. b = [id |-> i, req |-> r, room |-> x, slot |-> y]
  BY <1>1
<1> QED
  BY <1>2 DEF b

\* A session moved is still one, and moved back it is the same.
LEMMA Placing ==
  ASSUME NEW p, NEW a \in Assignment(p), NEW w \in Candidates
  PROVE  /\ PlacedAt(a, w) \in Assignment(p)
         /\ PlacedAt(a, w).id = a.id /\ PlacedAt(a, w).req = a.req
         /\ Placement(PlacedAt(a, w)) = w
         /\ Placement(a) \in Candidates
         /\ PlacedAt(PlacedAt(a, w), Placement(a)) = a
         /\ PlacedAt(a, Placement(a)) = a
<1>1. PICK w1 \in Rooms, w2 \in Slots : w = <<w1, w2>>
  BY DEF Candidates
<1>2. a = [id |-> a.id, req |-> a.req, room |-> a.room, slot |-> a.slot]
      /\ a.id \in AssignmentIDs /\ a.req \in DOMAIN p.reqs /\ a.room \in Rooms /\ a.slot \in Slots
  BY DEF Assignment
<1>3. PlacedAt(a, w) = [id |-> a.id, req |-> a.req, room |-> w1, slot |-> w2]
  BY <1>1, <1>2, Replaced
<1>4. Placement(a) = <<a.room, a.slot>> /\ Placement(PlacedAt(a, w)) = w
  BY <1>1, <1>3 DEF Placement
<1>5. PlacedAt(PlacedAt(a, w), Placement(a)) = a
  BY <1>2, <1>3, <1>4, Replaced
<1>6. PlacedAt(a, Placement(a)) = a
  BY <1>2, <1>4, Replaced
<1>7. PlacedAt(a, w) \in Assignment(p)
  BY <1>1, <1>2, <1>3 DEF Assignment
<1>8. Placement(a) \in Candidates
  BY <1>2, <1>4 DEF Candidates
<1> QED
  BY <1>3, <1>4, <1>5, <1>6, <1>7, <1>8

\* Moving a session keeps the list one of distinct sessions.
LEMMA Relisted ==
  ASSUME NEW p, NEW l, Listed(p, l), NEW k \in DOMAIN l, NEW w \in Candidates
  PROVE  Listed(p, [l EXCEPT ![k] = PlacedAt(l[k], w)])
<1> DEFINE m == [l EXCEPT ![k] = PlacedAt(l[k], w)]
<1>1. l[k] \in Assignment(p) /\ l \in Seq(Assignment(p))
  BY DEF Listed
<1>2. PlacedAt(l[k], w) \in Assignment(p) /\ PlacedAt(l[k], w).id = l[k].id
  BY <1>1, Placing
<1>3. m \in Seq(Assignment(p)) /\ DOMAIN m = DOMAIN l
  BY <1>1, <1>2
<1>4. \A j \in DOMAIN l : m[j].id = l[j].id
  BY <1>1, <1>2
<1> QED
  BY <1>3, <1>4 DEF Listed

\* An assignment leaves the index, one enters it.
LEMMA Unindexed ==
  ASSUME NEW p, NEW l, NEW F, NEW R, NEW G, NEW a
  PROVE  UnindexAssignment(p, [list |-> l, faculty |-> F, room |-> R, group |-> G], a)
           = [list    |-> l,
              faculty |-> Unmark(F, HeldFaculty(p, a), a.id),
              room    |-> Unmark(R, HeldRoom(p, a), a.id),
              group   |-> Unmark(G, HeldGroup(p, a), a.id)]
<1> DEFINE e == UnindexAssignment(p, [list |-> l, faculty |-> F, room |-> R, group |-> G], a)
<1>1. e \in [list : {l}, faculty : {Unmark(F, HeldFaculty(p, a), a.id)},
             room : {Unmark(R, HeldRoom(p, a), a.id)}, group : {Unmark(G, HeldGroup(p, a), a.id)}]
  BY DEF UnindexAssignment, HeldFaculty, HeldRoom, HeldGroup
<1> HIDE DEF e
<1>2. e = [list |-> l, faculty |-> Unmark(F, HeldFaculty(p, a), a.id),
           room |-> Unmark(R, HeldRoom(p, a), a.id), group |-> Unmark(G, HeldGroup(p, a), a.id)]
  BY <1>1
<1> QED
  BY <1>2 DEF e

\* The other half: it takes only cells that are free.
LEMMA Indexed ==
  ASSUME NEW p, NEW l, NEW F, NEW R, NEW G, NEW a
  PROVE  IndexAssignment(p, [list |-> l, faculty |-> F, room |-> R, group |-> G], a)
           = [list    |-> l,
              faculty |-> MarkFree(F, HeldFaculty(p, a), a.id),
              room    |-> MarkFree(R, HeldRoom(p, a), a.id),
              group   |-> MarkFree(G, HeldGroup(p, a), a.id)]
<1> DEFINE e == IndexAssignment(p, [list |-> l, faculty |-> F, room |-> R, group |-> G], a)
<1>1. e \in [list : {l}, faculty : {MarkFree(F, HeldFaculty(p, a), a.id)},
             room : {MarkFree(R, HeldRoom(p, a), a.id)}, group : {MarkFree(G, HeldGroup(p, a), a.id)}]
  BY DEF IndexAssignment, HeldFaculty, HeldRoom, HeldGroup
<1> HIDE DEF e
<1>2. e = [list |-> l, faculty |-> MarkFree(F, HeldFaculty(p, a), a.id),
           room |-> MarkFree(R, HeldRoom(p, a), a.id), group |-> MarkFree(G, HeldGroup(p, a), a.id)]
  BY <1>1
<1> QED
  BY <1>2 DEF e

\* Replacing the list of a solution touches no table.
LEMMA Listing ==
  ASSUME NEW l, NEW F, NEW R, NEW G, NEW m
  PROVE  [[list |-> l, faculty |-> F, room |-> R, group |-> G] EXCEPT !.list = m]
           = [list |-> m, faculty |-> F, room |-> R, group |-> G]
OBVIOUS

\* A move of one assignment, spelt out.
LEMMA RelocateOne ==
  ASSUME NEW p, NEW l, Listed(p, l), NEW F, NEW R, NEW G, NEW k \in DOMAIN l,
         NEW c, c.id = l[k].id, NEW w, NEW where, where[1] = w
  PROVE  LET a == l[k]
             b == PlacedAt(a, w)
         IN Relocate(p, [list |-> l, faculty |-> F, room |-> R, group |-> G], <<c>>, where) =
              [list    |-> [l EXCEPT ![k] = b],
               faculty |-> MarkFree(Unmark(F, HeldFaculty(p, a), a.id), HeldFaculty(p, b), b.id),
               room    |-> MarkFree(Unmark(R, HeldRoom(p, a), a.id), HeldRoom(p, b), b.id),
               group   |-> MarkFree(Unmark(G, HeldGroup(p, a), a.id), HeldGroup(p, b), b.id)]
<1> DEFINE s == [list |-> l, faculty |-> F, room |-> R, group |-> G]
           a == l[k]
           b == PlacedAt(a, w)
           cleared == UnindexAssignment(p, s, a)
           listed == [j \in DOMAIN l |-> IF k = j THEN b ELSE l[j]]
<1>1. Position(s.list, <<c>>[1].id) = k
  BY PositionIs
<1>2. Relocate(p, s, <<c>>, where)
        = IndexAssignment(p, [cleared EXCEPT !.list = listed], b)
  <2>1. DOMAIN <<c>> = {1} /\ Len(<<c>>) = 1
    OBVIOUS
  <2>2. \A j \in DOMAIN s.list : (\E i \in DOMAIN <<c>> : Position(s.list, <<c>>[i].id) = j) <=> k = j
    BY <1>1, <2>1
  <2>3. \A j : k = j => (CHOOSE i \in DOMAIN <<c>> : Position(s.list, <<c>>[i].id) = j) = 1
    BY <1>1, <2>1
  <2>4. [j \in DOMAIN s.list |->
           IF \E i \in DOMAIN <<c>> : Position(s.list, <<c>>[i].id) = j
           THEN [i \in DOMAIN <<c>> |-> PlacedAt([n \in DOMAIN <<c>> |-> s.list[Position(s.list, <<c>>[n].id)]][i], where[i])]
                  [CHOOSE i \in DOMAIN <<c>> : Position(s.list, <<c>>[i].id) = j]
           ELSE s.list[j]] = listed
    BY <1>1, <2>1, <2>2, <2>3
  <2> QED
    BY <1>1, <2>1, <2>4 DEF Relocate
<1>3. listed = [l EXCEPT ![k] = b]
  BY DEF Listed
<1> DEFINE F1 == Unmark(F, HeldFaculty(p, a), a.id)
           R1 == Unmark(R, HeldRoom(p, a), a.id)
           G1 == Unmark(G, HeldGroup(p, a), a.id)
<1>4. cleared = [list |-> l, faculty |-> F1, room |-> R1, group |-> G1]
  BY Unindexed
<1> HIDE DEF listed, cleared, F1, R1, G1
<1>5. [cleared EXCEPT !.list = listed] = [list |-> listed, faculty |-> F1, room |-> R1, group |-> G1]
  BY <1>4, Listing
<1> HIDE DEF a, b
<1>6. IndexAssignment(p, [list |-> listed, faculty |-> F1, room |-> R1, group |-> G1], b)
        = [list    |-> listed,
           faculty |-> MarkFree(F1, HeldFaculty(p, b), b.id),
           room    |-> MarkFree(R1, HeldRoom(p, b), b.id),
           group   |-> MarkFree(G1, HeldGroup(p, b), b.id)]
  BY Indexed
<1> QED
  BY <1>2, <1>3, <1>5, <1>6 DEF F1, R1, G1, a, b

\* A swap of two, spelt out.
LEMMA RelocateTwo ==
  ASSUME NEW p, NEW l, Listed(p, l), NEW F, NEW R, NEW G,
         NEW k \in DOMAIN l, NEW m \in DOMAIN l, k # m,
         NEW c, c.id = l[k].id, NEW d, d.id = l[m].id,
         NEW v, NEW w, NEW where, where[1] = v, where[2] = w
  PROVE  LET a == l[k]
             e == l[m]
             b == PlacedAt(a, v)
             f == PlacedAt(e, w)
         IN Relocate(p, [list |-> l, faculty |-> F, room |-> R, group |-> G], <<c, d>>, where) =
              [list    |-> [[l EXCEPT ![k] = b] EXCEPT ![m] = f],
               faculty |-> MarkFree(MarkFree(Unmark(Unmark(F,
                             HeldFaculty(p, a), a.id), HeldFaculty(p, e), e.id),
                             HeldFaculty(p, b), b.id), HeldFaculty(p, f), f.id),
               room    |-> MarkFree(MarkFree(Unmark(Unmark(R,
                             HeldRoom(p, a), a.id), HeldRoom(p, e), e.id),
                             HeldRoom(p, b), b.id), HeldRoom(p, f), f.id),
               group   |-> MarkFree(MarkFree(Unmark(Unmark(G,
                             HeldGroup(p, a), a.id), HeldGroup(p, e), e.id),
                             HeldGroup(p, b), b.id), HeldGroup(p, f), f.id)]
<1> DEFINE s == [list |-> l, faculty |-> F, room |-> R, group |-> G]
           a == l[k]
           e == l[m]
           b == PlacedAt(a, v)
           f == PlacedAt(e, w)
           cleared == UnindexAssignment(p, UnindexAssignment(p, s, a), e)
           listed == [j \in DOMAIN l |-> IF k = j THEN b ELSE IF m = j THEN f ELSE l[j]]
           pos(i) == Position(s.list, <<c, d>>[i].id)
<1>1. pos(1) = k /\ pos(2) = m
  BY PositionIs
<1>2. Relocate(p, s, <<c, d>>, where)
        = IndexAssignment(p, IndexAssignment(p, [cleared EXCEPT !.list = listed], b), f)
  <2>1. DOMAIN <<c, d>> = {1, 2} /\ Len(<<c, d>>) = 2
    OBVIOUS
  <2>2. \A j \in DOMAIN s.list : (\E i \in DOMAIN <<c, d>> : pos(i) = j) <=> k = j \/ m = j
    BY <1>1, <2>1
  <2>3. (CHOOSE i \in DOMAIN <<c, d>> : pos(i) = k) = 1
    BY <1>1, <2>1
  <2>4. (CHOOSE i \in DOMAIN <<c, d>> : pos(i) = m) = 2
    BY <1>1, <2>1
  <2>5. [j \in DOMAIN s.list |->
           IF \E i \in DOMAIN <<c, d>> : pos(i) = j
           THEN [i \in DOMAIN <<c, d>> |-> PlacedAt([n \in DOMAIN <<c, d>> |-> s.list[pos(n)]][i], where[i])]
                  [CHOOSE i \in DOMAIN <<c, d>> : pos(i) = j]
           ELSE s.list[j]] = listed
    BY <1>1, <2>1, <2>2, <2>3, <2>4
  <2> QED
    BY <1>1, <2>1, <2>5 DEF Relocate
<1>3. listed = [[l EXCEPT ![k] = b] EXCEPT ![m] = f]
  BY DEF Listed
<1> DEFINE F1 == Unmark(F, HeldFaculty(p, a), a.id)
           R1 == Unmark(R, HeldRoom(p, a), a.id)
           G1 == Unmark(G, HeldGroup(p, a), a.id)
           F2 == Unmark(F1, HeldFaculty(p, e), e.id)
           R2 == Unmark(R1, HeldRoom(p, e), e.id)
           G2 == Unmark(G1, HeldGroup(p, e), e.id)
           F3 == MarkFree(F2, HeldFaculty(p, b), b.id)
           R3 == MarkFree(R2, HeldRoom(p, b), b.id)
           G3 == MarkFree(G2, HeldGroup(p, b), b.id)
<1>4. UnindexAssignment(p, s, a) = [list |-> l, faculty |-> F1, room |-> R1, group |-> G1]
  BY Unindexed
<1> HIDE DEF F1, R1, G1
<1>5. cleared = [list |-> l, faculty |-> F2, room |-> R2, group |-> G2]
  BY <1>4, Unindexed
<1> HIDE DEF listed, cleared, F2, R2, G2
<1>6. [cleared EXCEPT !.list = listed] = [list |-> listed, faculty |-> F2, room |-> R2, group |-> G2]
  BY <1>5, Listing
<1> HIDE DEF a, b, e, f
<1>7. IndexAssignment(p, [list |-> listed, faculty |-> F2, room |-> R2, group |-> G2], b)
        = [list |-> listed, faculty |-> F3, room |-> R3, group |-> G3]
  BY Indexed
<1> HIDE DEF F3, R3, G3
<1>8. IndexAssignment(p, [list |-> listed, faculty |-> F3, room |-> R3, group |-> G3], f)
        = [list    |-> listed,
           faculty |-> MarkFree(F3, HeldFaculty(p, f), f.id),
           room    |-> MarkFree(R3, HeldRoom(p, f), f.id),
           group   |-> MarkFree(G3, HeldGroup(p, f), f.id)]
  BY Indexed
<1> QED
  BY <1>2, <1>3, <1>6, <1>7, <1>8 DEF F1, R1, G1, F2, R2, G2, F3, R3, G3, a, b, e, f

\* What a change says.
LEMMA ChangeFields ==
  \A a, w : /\ ChangeOf(a, w).id = a.id /\ ChangeOf(a, w).from = Placement(a)
            /\ ChangeOf(a, w).to = w /\ ChangeOf(a, w).req = a.req
BY DEF ChangeOf

-----------------------------------------------------------------------------
(* The numbers of a timetable are naturals. *)

Formed(p) == WellFormed(p) /\ SoftFormed(p)

\* The values of a function on a finite set.
LEMMA FiniteImage ==
  ASSUME NEW S, IsFiniteSet(S), NEW f, DOMAIN f = S
  PROVE  IsFiniteSet({f[x] : x \in S}) /\ Cardinality({f[x] : x \in S}) <= Cardinality(S)
<1> DEFINE T == {f[x] : x \in S}
           g == [x \in S |-> f[x]]
<1>1. g \in Surjection(S, T)
  BY DEF Surjection
<1> HIDE DEF T, g
<1> QED
  BY <1>1, FS_Surjection DEF T

\* The least and the greatest of a finite set of naturals.
LEMMA Extremes ==
  ASSUME NEW P \in SUBSET Nat, IsFiniteSet(P), P # {}
  PROVE  /\ Min(P) \in P /\ Max(P) \in P
         /\ \A x \in P : Min(P) <= x /\ x <= Max(P)
<1>1. \E m \in P : \A x \in P : m <= x
  BY Least
<1> DEFINE Good == {T \in SUBSET P : \E n \in Nat : \A x \in T : x <= n}
<1>2. {} \in Good
  OBVIOUS
<1>3. ASSUME NEW T \in SUBSET P, NEW y \in T, T \ {y} \in Good
      PROVE  T \in Good
  <2>1. PICK n \in Nat : \A x \in T \ {y} : x <= n
    BY <1>3
  <2>2. n + y \in Nat /\ \A x \in T : x <= n + y
    BY <2>1
  <2> QED
    BY <2>2
<1>4. P \in Good
  <2> HIDE DEF Good
  <2> QED
    BY <1>2, <1>3, ByTaking
<1> DEFINE Bounds == {n \in Nat : \A x \in P : x <= n}
<1>5. PICK n \in Bounds : \A m \in Bounds : n <= m
  <2>1. Bounds \in SUBSET Nat /\ Bounds # {}
    BY <1>4
  <2> HIDE DEF Bounds
  <2> QED
    BY <2>1, Least
<1>6. n \in P
  <2> SUFFICES ASSUME n \notin P PROVE FALSE
    OBVIOUS
  <2>1. \A x \in P : x \in Nat /\ x <= n /\ x # n
    BY <1>5
  <2>2. \A x \in P : x <= n - 1
    BY <1>5, <2>1
  <2>3. PICK x \in P : TRUE
    OBVIOUS
  <2>4. n - 1 \in Nat
    BY <1>5, <2>1, <2>3
  <2>5. n - 1 \in Bounds
    BY <2>2, <2>4
  <2> QED
    BY <1>5, <2>5
<1>7. \A x \in P : n >= x
  BY <1>5
<1>8. Min(P) \in P /\ \A x \in P : Min(P) <= x
  BY <1>1 DEF Min
<1>9. Max(P) \in P /\ \A x \in P : Max(P) >= x
  BY <1>6, <1>7 DEF Max
<1> QED
  BY <1>8, <1>9

\* The gaps of a day are counted in naturals.
LEMMA GapsNat ==
  ASSUME NEW P \in SUBSET Nat, IsFiniteSet(P)
  PROVE  Gaps(P) \in Nat
<1>1. Cardinality(P) \in Nat
  BY FS_CardinalityType
<1>2. CASE Cardinality(P) < 2
  BY <1>2 DEF Gaps
<1>3. CASE ~(Cardinality(P) < 2)
  <2>1. P # {}
    BY <1>1, <1>3, FS_EmptySet
  <2>2. Min(P) \in Nat /\ Max(P) \in Nat /\ Min(P) <= Max(P) /\ P \subseteq Min(P) .. Max(P)
    <3>1. Min(P) \in P /\ Max(P) \in P /\ \A x \in P : Min(P) <= x /\ x <= Max(P)
      BY <2>1, Extremes
    <3>2. Min(P) \in Nat /\ Max(P) \in Nat /\ Min(P) <= Max(P)
      BY <3>1
    <3>3. ASSUME NEW x \in P PROVE x \in Min(P) .. Max(P)
      BY <3>1, <3>2
    <3> QED
      BY <3>2, <3>3
  <2>3. /\ IsFiniteSet(Min(P) .. Max(P))
        /\ Cardinality(Min(P) .. Max(P)) = Max(P) - Min(P) + 1
    BY <2>2, FS_Interval
  <2>4. Cardinality(P) <= Max(P) - Min(P) + 1
    BY <2>2, <2>3, FS_Subset
  <2> QED
    BY <1>1, <1>3, <2>2, <2>4 DEF Gaps
<1> QED
  BY <1>2, <1>3

\* The periods of some slots.
LEMMA PeriodsFinite ==
  ASSUME NEW S \in SUBSET Slots
  PROVE  {slot[2] : slot \in S} \in SUBSET Nat /\ IsFiniteSet({slot[2] : slot \in S})
<1>1. IsFiniteSet(S) /\ \A slot \in S : slot[2] \in Nat
  BY GridAssumption, FS_Subset
<1> DEFINE f == [slot \in S |-> slot[2]]
<1>2. {slot[2] : slot \in S} = {f[slot] : slot \in S}
  OBVIOUS
<1>3. IsFiniteSet({f[slot] : slot \in S})
  <2> HIDE DEF f
  <2>1. DOMAIN f = S
    BY DEF f
  <2> QED
    BY <1>1, <2>1, FiniteImage
<1> QED
  BY <1>1, <1>2, <1>3

\* There are finitely many groups and days.
LEMMA KeysFinite == IsFiniteSet(Groups \X Days)
<1> DEFINE f == [slot \in Slots |-> slot[1]]
<1>1. Days = {f[slot] : slot \in Slots}
  BY DEF Days
<1>2. IsFiniteSet(Days)
  <2> HIDE DEF f
  <2>1. DOMAIN f = Slots
    BY DEF f
  <2> QED
    BY <1>1, <2>1, GridAssumption, FiniteImage
<1> QED
  BY <1>2, GridAssumption, FS_Product

\* A list has finitely many places.
LEMMA PlacesFinite ==
  ASSUME NEW p, NEW l \in Seq(Assignment(p))
  PROVE  IsFiniteSet(DOMAIN l) /\ DOMAIN l \in SUBSET (Nat \ {0})
<1>1. Len(l) \in Nat /\ DOMAIN l = 1 .. Len(l)
  BY LenProperties
<1>2. IsFiniteSet(1 .. Len(l))
  BY <1>1, FS_Interval
<1> QED
  BY <1>1, <1>2

\* What an assignment costs its teacher is a natural number.
LEMMA DispleasureNat ==
  ASSUME NEW p, Formed(p), NEW a \in Assignment(p)
  PROVE  Displeasure(p, a) \in Nat
<1> DEFINE S == Occupied(p, a) \cap Slots
           f == [slot \in S |-> p.dislikes[<<FacultyOf(p, a), slot>>]]
<1>1. IsFiniteSet(S)
  BY GridAssumption, FS_Subset
<1>2. a.req \in DOMAIN p.reqs /\ p.reqs \in Seq(Requirement) /\ p.dislikes \in [Faculty \X Slots -> Nat]
  BY DEF Assignment, Formed, WellFormed, SoftFormed
<1>3. FacultyOf(p, a) \in Faculty
  <2>1. p.reqs[a.req] \in Requirement
    BY <1>2
  <2> QED
    BY <2>1 DEF FacultyOf, Requirement
<1>4. \A slot \in S : f[slot] \in Nat
  BY <1>2, <1>3
<1>5. DOMAIN f = S
  OBVIOUS
<1>6. Displeasure(p, a) = SumFunctionOnSet(f, S)
  BY <1>5 DEF Displeasure, SumFunction
<1> HIDE DEF f, S
<1> QED
  BY <1>1, <1>4, <1>6, SumNat

-----------------------------------------------------------------------------
(* The tallies of a list, named one by one. *)

Attending(p, l, gs) ==
  {k \in DOMAIN l : GroupOf(p, l[k]) = gs[1] /\ gs[2] \in Occupied(p, l[k])}

CountOf(p, l)    == [gs \in Groups \X Slots |-> Cardinality(Attending(p, l, gs))]
GapsOf(p, l)     == [gd \in Groups \X Days |-> CountedGaps(CountOf(p, l), gd[1], gd[2])]
SittingsOf(p, l) == [gd \in Groups \X Days |-> Sittings(p, l, gd[1], gd[2])]
ChangesOf(p, l)  == [gd \in Groups \X Days |-> RoomChanges(SittingsOf(p, l)[gd])]
DislikesOf(p, l) == [k \in DOMAIN l |-> Displeasure(p, l[k])]

TotalsOf(p, l) ==
  [gap        |-> SumFunctionOnSet(GapsOf(p, l), Groups \X Days),
   preference |-> SumFunctionOnSet(DislikesOf(p, l), DOMAIN l),
   room       |-> SumFunctionOnSet(ChangesOf(p, l), Groups \X Days)]

\* The evaluator counts these.
LEMMA Rebuilt ==
  ASSUME NEW p, NEW l
  PROVE  Rebuild(p, l) = [count |-> CountOf(p, l), gaps |-> GapsOf(p, l),
                          sittings |-> SittingsOf(p, l), totals |-> TotalsOf(p, l)]
<1>1. [gs \in Groups \X Slots |->
         Cardinality({k \in DOMAIN l : GroupOf(p, l[k]) = gs[1] /\ gs[2] \in Occupied(p, l[k])})]
        = CountOf(p, l)
  BY DEF CountOf, Attending
<1>2. /\ DOMAIN GapsOf(p, l) = Groups \X Days
      /\ DOMAIN DislikesOf(p, l) = DOMAIN l
      /\ DOMAIN ChangesOf(p, l) = Groups \X Days
  BY DEF GapsOf, DislikesOf, ChangesOf
<1>3. FacultyPreferencePenalty(p, l) = SumFunctionOnSet(DislikesOf(p, l), DOMAIN l)
  BY <1>2 DEF FacultyPreferencePenalty, DislikesOf, SumFunction
<1>4. SumFunction(GapsOf(p, l)) = SumFunctionOnSet(GapsOf(p, l), Groups \X Days)
  BY <1>2 DEF SumFunction
<1>5. SumFunction(ChangesOf(p, l)) = SumFunctionOnSet(ChangesOf(p, l), Groups \X Days)
  BY <1>2 DEF SumFunction
<1> QED
  BY <1>1, <1>3, <1>4, <1>5 DEF Rebuild, GapsOf, SittingsOf, ChangesOf, TotalsOf

\* Some session attends a slot exactly if their number is not zero.
LEMMA Attended ==
  ASSUME NEW p, NEW l \in Seq(Assignment(p)), NEW gs \in Groups \X Slots
  PROVE  /\ IsFiniteSet(Attending(p, l, gs)) /\ CountOf(p, l)[gs] = Cardinality(Attending(p, l, gs))
         /\ CountOf(p, l)[gs] \in Nat
         /\ CountOf(p, l)[gs] > 0 <=> Attending(p, l, gs) # {}
<1>1. IsFiniteSet(Attending(p, l, gs))
  BY PlacesFinite, FS_Subset DEF Attending
<1>2. CountOf(p, l)[gs] = Cardinality(Attending(p, l, gs))
  BY DEF CountOf
<1>3. Cardinality(Attending(p, l, gs)) \in Nat
  BY <1>1, FS_CardinalityType
<1>4. Cardinality(Attending(p, l, gs)) = 0 <=> Attending(p, l, gs) = {}
  BY <1>1, FS_EmptySet
<1> QED
  BY <1>1, <1>2, <1>3, <1>4

\* The gaps of the counts are the gaps of the timetable.
LEMMA GapsCounted ==
  ASSUME NEW p, NEW l \in Seq(Assignment(p)), NEW g \in Groups, NEW day \in Days
  PROVE  CountedGaps(CountOf(p, l), g, day) = Gaps(DayPeriods(p, l, g, day))
<1>1. ASSUME NEW c \in Slots
      PROVE  CountOf(p, l)[<<g, c>>] > 0
               <=> \E k \in DOMAIN l : GroupOf(p, l[k]) = g /\ c \in Occupied(p, l[k])
  <2>1. CountOf(p, l)[<<g, c>>] > 0 <=> Attending(p, l, <<g, c>>) # {}
    BY Attended
  <2> QED
    BY <2>1 DEF Attending
<1>2. {c \in Slots : c[1] = day /\ CountOf(p, l)[<<g, c>>] > 0}
        = {c \in Slots : c[1] = day /\ \E k \in DOMAIN l : GroupOf(p, l[k]) = g /\ c \in Occupied(p, l[k])}
  BY <1>1
<1> QED
  BY <1>2 DEF CountedGaps, DayPeriods

\* Hence the totals of the evaluator are the breakdown of the scorer.
LEMMA TotalsAreTheScore ==
  ASSUME NEW p, NEW l \in Seq(Assignment(p))
  PROVE  TotalsOf(p, l) = CalculateScore(p, l)
<1>1. GapsOf(p, l) = [gd \in Groups \X Days |-> Gaps(DayPeriods(p, l, gd[1], gd[2]))]
  BY GapsCounted DEF GapsOf
<1>2. DOMAIN GapsOf(p, l) = Groups \X Days
  BY DEF GapsOf
<1>3. StudentGapPenalty(p, l) = SumFunctionOnSet(GapsOf(p, l), Groups \X Days)
  BY <1>1, <1>2 DEF StudentGapPenalty, SumFunction
<1>4. ChangesOf(p, l) = [gd \in Groups \X Days |-> RoomChanges(Sittings(p, l, gd[1], gd[2]))]
  BY DEF ChangesOf, SittingsOf
<1>5. DOMAIN ChangesOf(p, l) = Groups \X Days
  BY DEF ChangesOf
<1>6. RoomChangePenalty(p, l) = SumFunctionOnSet(ChangesOf(p, l), Groups \X Days)
  BY <1>4, <1>5 DEF RoomChangePenalty, SumFunction
<1>7. DOMAIN DislikesOf(p, l) = DOMAIN l
  BY DEF DislikesOf
<1>8. FacultyPreferencePenalty(p, l) = SumFunctionOnSet(DislikesOf(p, l), DOMAIN l)
  BY <1>7 DEF FacultyPreferencePenalty, DislikesOf, SumFunction
<1> QED
  BY <1>3, <1>6, <1>8 DEF TotalsOf, CalculateScore

\* A group's day has finitely many sittings, and their changes of room are counted in naturals.
LEMMA SittingsFinite ==
  ASSUME NEW p, NEW l \in Seq(Assignment(p)), NEW g, NEW day
  PROVE  IsFiniteSet(Sittings(p, l, g, day)) /\ RoomChanges(Sittings(p, l, g, day)) \in Nat
<1> DEFINE S == {j \in DOMAIN l : GroupOf(p, l[j]) = g /\ l[j].slot[1] = day}
           f == [k \in S |-> Sitting(p, l[k])]
           X == Sittings(p, l, g, day)
<1>1. IsFiniteSet(S)
  BY PlacesFinite, FS_Subset
<1>2. X = {f[k] : k \in S}
  BY DEF Sittings
<1>3. IsFiniteSet(X)
  <2>1. DOMAIN f = S
    OBVIOUS
  <2> HIDE DEF S, f, X
  <2> QED
    BY <1>1, <1>2, <2>1, FiniteImage
<1> HIDE DEF X
<1>4. IsFiniteSet(X \X X)
  BY <1>3, FS_Product
<1>5. {xy \in Adjacent(X) : xy[1].room # xy[2].room} \in SUBSET (X \X X)
  BY DEF Adjacent
<1>6. IsFiniteSet({xy \in Adjacent(X) : xy[1].room # xy[2].room})
  BY <1>4, <1>5, FS_Subset
<1>7. RoomChanges(X) \in Nat
  BY <1>6, FS_CardinalityType DEF RoomChanges
<1> QED
  BY <1>3, <1>7 DEF X

\* The tallies have their types.
LEMMA TalliesTyped ==
  ASSUME NEW p, Formed(p), NEW l \in Seq(Assignment(p))
  PROVE  /\ CountOf(p, l) \in [Groups \X Slots -> Nat]
         /\ GapsOf(p, l) \in [Groups \X Days -> Nat]
         /\ SittingsOf(p, l) \in [Groups \X Days -> SUBSET SittingRecord]
         /\ ChangesOf(p, l) \in [Groups \X Days -> Nat]
         /\ DislikesOf(p, l) \in [DOMAIN l -> Nat]
         /\ TotalsOf(p, l) \in Breakdown
<1>1. CountOf(p, l) \in [Groups \X Slots -> Nat]
  <2>1. \A gs \in Groups \X Slots : CountOf(p, l)[gs] \in Nat
    BY Attended
  <2> QED
    BY <2>1 DEF CountOf
<1>2. \A gd \in Groups \X Days : CountedGaps(CountOf(p, l), gd[1], gd[2]) \in Nat
  <2> TAKE gd \in Groups \X Days
  <2> DEFINE S == {c \in Slots : c[1] = gd[2] /\ CountOf(p, l)[<<gd[1], c>>] > 0}
             P == {slot[2] : slot \in S}
  <2>1. S \in SUBSET Slots
    OBVIOUS
  <2>2. P \in SUBSET Nat /\ IsFiniteSet(P)
    <3> HIDE DEF S
    <3> QED
      BY <2>1, PeriodsFinite
  <2>3. CountedGaps(CountOf(p, l), gd[1], gd[2]) = Gaps(P)
    BY DEF CountedGaps
  <2> HIDE DEF P
  <2> QED
    BY <2>2, <2>3, GapsNat
<1>3. GapsOf(p, l) \in [Groups \X Days -> Nat]
  BY <1>2 DEF GapsOf
<1>4. ASSUME NEW k \in DOMAIN l PROVE Sitting(p, l[k]) \in SittingRecord
  <2>1. l[k] \in Assignment(p)
    OBVIOUS
  <2>2. p.reqs[l[k].req] \in Requirement
    BY <2>1 DEF Assignment, Formed, WellFormed
  <2>3. p.reqs[l[k].req].duration \in Nat
    BY <2>2 DEF Requirement
  <2>4. l[k].id \in AssignmentIDs /\ l[k].room \in Rooms /\ l[k].slot \in Slots
    BY <2>1 DEF Assignment
  <2>5. l[k].slot[2] \in Nat
    BY <2>4, GridAssumption
  <2> QED
    BY <2>3, <2>4, <2>5 DEF Sitting, SittingRecord
<1>5. SittingsOf(p, l) \in [Groups \X Days -> SUBSET SittingRecord]
  BY <1>4 DEF SittingsOf, Sittings
<1>6. ChangesOf(p, l) \in [Groups \X Days -> Nat]
  <2>1. \A gd \in Groups \X Days : ChangesOf(p, l)[gd] = RoomChanges(Sittings(p, l, gd[1], gd[2]))
    BY DEF ChangesOf, SittingsOf
  <2>2. \A gd \in Groups \X Days : ChangesOf(p, l)[gd] \in Nat
    BY <2>1, SittingsFinite
  <2> QED
    BY <2>2 DEF ChangesOf
<1>7. DislikesOf(p, l) \in [DOMAIN l -> Nat]
  BY DispleasureNat DEF DislikesOf
<1>8. SumFunctionOnSet(GapsOf(p, l), Groups \X Days) \in Nat
  BY <1>3, KeysFinite, SumNat
<1>9. SumFunctionOnSet(ChangesOf(p, l), Groups \X Days) \in Nat
  BY <1>6, KeysFinite, SumNat
<1>10. SumFunctionOnSet(DislikesOf(p, l), DOMAIN l) \in Nat
  BY <1>7, PlacesFinite, SumNat
<1>11. TotalsOf(p, l) \in Breakdown
  BY <1>8, <1>9, <1>10 DEF TotalsOf, Breakdown
<1> QED
  BY <1>1, <1>3, <1>5, <1>6, <1>7, <1>11

-----------------------------------------------------------------------------
(* What a move makes of the tallies. *)

\* The values summed may be named otherwise.
LEMMA SumRenamed ==
  ASSUME NEW S, IsFiniteSet(S), NEW pos, DOMAIN pos = S, NEW d, NEW h,
         \A x, y \in S : pos[x] = pos[y] => x = y,
         \A x \in S : d[pos[x]] \in Int /\ h[x] = d[pos[x]]
  PROVE  SumFunctionOnSet(h, S) = SumFunctionOnSet(d, {pos[x] : x \in S})
<1> DEFINE Named(T) == {pos[x] : x \in T}
           Good == {T \in SUBSET S : SumFunctionOnSet(h, T) = SumFunctionOnSet(d, Named(T))}
<1>1. IsFiniteSet(Named(S))
  BY FiniteImage
<1>2. {} \in Good
  <2>1. Named({}) = {}
    OBVIOUS
  <2> QED
    BY <2>1, SumEmpty
<1>3. ASSUME NEW T \in SUBSET S, NEW x \in T, T \ {x} \in Good
      PROVE  T \in Good
  <2>1. Named(T) \in SUBSET Named(S) /\ pos[x] \in Named(T)
    OBVIOUS
  <2>2. Named(T) \ {pos[x]} = Named(T \ {x})
    OBVIOUS
  <2>3. IsFiniteSet(T)
    BY FS_Subset
  <2>4. \A y \in T : h[y] \in Int
    OBVIOUS
  <2>5. \A v \in Named(T) : d[v] \in Int
    OBVIOUS
  <2> HIDE DEF Named
  <2>6. IsFiniteSet(Named(T))
    BY <1>1, <2>1, FS_Subset
  <2>7. SumFunctionOnSet(d, Named(T)) = d[pos[x]] + SumFunctionOnSet(d, Named(T) \ {pos[x]})
    BY <2>1, <2>5, <2>6, SumTaken
  <2>8. SumFunctionOnSet(h, T) = h[x] + SumFunctionOnSet(h, T \ {x})
    BY <2>3, <2>4, SumTaken
  <2> QED
    BY <1>3, <2>2, <2>7, <2>8
<1> HIDE DEF Good
<1>4. S \in Good
  BY <1>2, <1>3, ByTaking
<1> QED
  BY <1>4 DEF Good

\* A change and the session it moves, before and after, say the same.
Reads(p, a, b, c) ==
  /\ c.id = a.id /\ b.id = a.id
  /\ GroupOfChange(p, c) = GroupOf(p, a) /\ GroupOf(p, b) = GroupOf(p, a)
  /\ c.from[2][1] = a.slot[1] /\ c.to[2][1] = b.slot[1]
  /\ SlotsAt(p, c, c.from) = Occupied(p, a) /\ SlotsAt(p, c, c.to) = Occupied(p, b)
  /\ PreferenceAt(p, c, c.from) = Displeasure(p, a)
  /\ PreferenceAt(p, c, c.to) = Displeasure(p, b)
  /\ [id |-> c.id, room |-> c.to[1], start |-> c.to[2][2],
      length |-> p.reqs[c.req].duration] = Sitting(p, b)

\* That of a change made of a session and a place.
LEMMA ChangeRead ==
  ASSUME NEW p, NEW a \in Assignment(p), NEW w \in Candidates
  PROVE  Reads(p, a, PlacedAt(a, w), ChangeOf(a, w))
<1> DEFINE c == ChangeOf(a, w)
           b == PlacedAt(a, w)
<1>1. c.id = a.id /\ c.req = a.req /\ c.from = Placement(a) /\ c.to = w
  BY ChangeFields
<1>2. b.id = a.id /\ b.req = a.req /\ Placement(b) = w
  BY Placing
<1>3. c.from = <<a.room, a.slot>> /\ c.to = <<b.room, b.slot>>
  BY <1>1, <1>2 DEF Placement
<1> HIDE DEF c, b
<1>4. GroupOfChange(p, c) = GroupOf(p, a) /\ GroupOf(p, b) = GroupOf(p, a)
  BY <1>1, <1>2 DEF GroupOfChange, GroupOf
<1>5. SlotsAt(p, c, c.from) = Occupied(p, a) /\ SlotsAt(p, c, c.to) = Occupied(p, b)
  BY <1>1, <1>2, <1>3 DEF SlotsAt, Occupied
<1>6. PreferenceAt(p, c, c.from) = Displeasure(p, a) /\ PreferenceAt(p, c, c.to) = Displeasure(p, b)
  BY <1>1, <1>2, <1>5 DEF PreferenceAt, Displeasure, FacultyOf
<1>7. [id |-> c.id, room |-> c.to[1], start |-> c.to[2][2],
       length |-> p.reqs[c.req].duration] = Sitting(p, b)
  BY <1>1, <1>2, <1>3 DEF Sitting
<1>8. c.from[2][1] = a.slot[1] /\ c.to[2][1] = b.slot[1]
  BY <1>3
<1>9. Reads(p, a, b, c)
  BY <1>1, <1>2, <1>4, <1>5, <1>6, <1>7, <1>8 DEF Reads
<1> QED
  BY <1>9 DEF c, b

\* One change shifts the counts from where the session was to where it is.
LEMMA ShiftCounts ==
  ASSUME NEW p, NEW l, Listed(p, l), NEW k \in DOMAIN l, NEW w \in Candidates
  PROVE  Shift(p, CountOf(p, l), ChangeOf(l[k], w)) = CountOf(p, [l EXCEPT ![k] = PlacedAt(l[k], w)])
<1> DEFINE a == l[k]
           b == PlacedAt(a, w)
           c == ChangeOf(a, w)
           n == [l EXCEPT ![k] = b]
           before == CountOf(p, l)
<1>1. l \in Seq(Assignment(p)) /\ a \in Assignment(p)
  BY DEF Listed
<1>2. /\ GroupOfChange(p, c) = GroupOf(p, a) /\ GroupOf(p, b) = GroupOf(p, a)
      /\ SlotsAt(p, c, c.from) = Occupied(p, a) /\ SlotsAt(p, c, c.to) = Occupied(p, b)
  <2> HIDE DEF a
  <2>1. Reads(p, a, b, c)
    BY <1>1, ChangeRead
  <2> HIDE DEF b, c
  <2> QED
    BY <2>1 DEF Reads
<1>3. n \in Seq(Assignment(p))
  BY Relisted DEF Listed
<1>4. DOMAIN n = DOMAIN l /\ n[k] = b /\ \A j \in DOMAIN l : j # k => n[j] = l[j]
  BY <1>1
<1> HIDE DEF n, c, b
<1>5. DOMAIN before = Groups \X Slots /\ DOMAIN CountOf(p, n) = Groups \X Slots
  BY DEF CountOf
<1>6. ASSUME NEW gs \in Groups \X Slots
      PROVE  LET left == IF gs[1] = GroupOf(p, a) /\ gs[2] \in Occupied(p, a) /\ before[gs] > 0
                         THEN before[gs] - 1 ELSE before[gs]
             IN CountOf(p, n)[gs]
                  = IF gs[1] = GroupOf(p, a) /\ gs[2] \in Occupied(p, b) THEN left + 1 ELSE left
  <2> DEFINE A == Attending(p, l, gs) \ {k}
             was == gs[1] = GroupOf(p, a) /\ gs[2] \in Occupied(p, a)
             is  == gs[1] = GroupOf(p, a) /\ gs[2] \in Occupied(p, b)
  <2>1. Attending(p, l, gs) = IF was THEN A \cup {k} ELSE A
    BY DEF Attending
  <2>2. Attending(p, n, gs) = IF is THEN A \cup {k} ELSE A
    BY <1>2, <1>4 DEF Attending
  <2>3. before[gs] = Cardinality(Attending(p, l, gs)) /\ IsFiniteSet(Attending(p, l, gs))
    BY <1>1, Attended
  <2>4. CountOf(p, n)[gs] = Cardinality(Attending(p, n, gs))
    BY <1>3, Attended
  <2>5. IsFiniteSet(A) /\ k \notin A
    BY <2>3, FS_Subset
  <2> HIDE DEF A, was, is
  <2>6. Cardinality(A) \in Nat /\ Cardinality(A \cup {k}) = Cardinality(A) + 1
    BY <2>5, FS_CardinalityType, FS_AddElement
  <2>7. before[gs] = (IF was THEN Cardinality(A) + 1 ELSE Cardinality(A))
    BY <2>1, <2>3, <2>6
  <2>8. CountOf(p, n)[gs] = (IF is THEN Cardinality(A) + 1 ELSE Cardinality(A))
    BY <2>2, <2>4, <2>6
  <2>9. (IF was /\ before[gs] > 0 THEN before[gs] - 1 ELSE before[gs]) = Cardinality(A)
    BY <2>6, <2>7
  <2> QED
    BY <2>8, <2>9 DEF was, is
<1>7. Shift(p, before, c) = CountOf(p, n)
  BY <1>2, <1>5, <1>6 DEF Shift, CountOf
<1> QED
  BY <1>7 DEF n, c, b

\* A move takes sessions of the list, each at its own place pos[i], and puts them elsewhere.
Moved(p, l, n, move, pos) ==
  /\ Listed(p, l) /\ Listed(p, n) /\ DOMAIN n = DOMAIN l
  /\ IsFiniteSet(DOMAIN move) /\ pos \in [DOMAIN move -> DOMAIN l]
  /\ \A i, j \in DOMAIN move : pos[i] = pos[j] => i = j
  /\ \A i \in DOMAIN move : \E w \in Candidates :
       move[i] = ChangeOf(l[pos[i]], w) /\ n[pos[i]] = PlacedAt(l[pos[i]], w)
  /\ \A k \in DOMAIN l : k \notin {pos[i] : i \in DOMAIN move} => n[k] = l[k]

\* What is said of a change, of a change of such a move.
LEMMA MovedRead ==
  ASSUME NEW p, NEW l, NEW n, NEW move, NEW pos, Moved(p, l, n, move, pos), NEW i \in DOMAIN move
  PROVE  /\ pos[i] \in DOMAIN l /\ l[pos[i]] \in Assignment(p) /\ n[pos[i]] \in Assignment(p)
         /\ Reads(p, l[pos[i]], n[pos[i]], move[i])
<1>1. pos[i] \in DOMAIN l /\ pos[i] \in DOMAIN n
  BY DEF Moved
<1>2. l[pos[i]] \in Assignment(p) /\ n[pos[i]] \in Assignment(p)
  BY <1>1 DEF Moved, Listed
<1>3. PICK w \in Candidates : move[i] = ChangeOf(l[pos[i]], w) /\ n[pos[i]] = PlacedAt(l[pos[i]], w)
  BY DEF Moved
<1>4. Reads(p, l[pos[i]], PlacedAt(l[pos[i]], w), ChangeOf(l[pos[i]], w))
  BY <1>2, ChangeRead
<1> QED
  BY <1>1, <1>2, <1>3, <1>4

\* The keys of a move are groups and days.
LEMMA KeysOfMove ==
  ASSUME NEW p, Formed(p), NEW l, NEW n, NEW move, NEW pos, Moved(p, l, n, move, pos)
  PROVE  /\ AffectedKeys(p, move) \in SUBSET (Groups \X Days)
         /\ \A i \in DOMAIN move :
              /\ <<GroupOf(p, l[pos[i]]), l[pos[i]].slot[1]>> \in AffectedKeys(p, move)
              /\ <<GroupOf(p, n[pos[i]]), n[pos[i]].slot[1]>> \in AffectedKeys(p, move)
<1> DEFINE Key(a) == <<GroupOf(p, a), a.slot[1]>>
<1>1. ASSUME NEW a \in Assignment(p) PROVE Key(a) \in Groups \X Days
  <2>1. p.reqs[a.req] \in Requirement /\ a.slot \in Slots
    BY DEF Assignment, Formed, WellFormed
  <2> QED
    BY <2>1 DEF Requirement, GroupOf, Days
<1>2. AffectedKeys(p, move) = UNION {{Key(l[pos[i]]), Key(n[pos[i]])} : i \in DOMAIN move}
  <2>1. \A i \in DOMAIN move :
          {<<GroupOfChange(p, move[i]), move[i].from[2][1]>>,
           <<GroupOfChange(p, move[i]), move[i].to[2][1]>>} = {Key(l[pos[i]]), Key(n[pos[i]])}
    <3> TAKE i \in DOMAIN move
    <3>1. Reads(p, l[pos[i]], n[pos[i]], move[i])
      BY MovedRead
    <3>2. /\ GroupOfChange(p, move[i]) = GroupOf(p, l[pos[i]])
          /\ GroupOf(p, n[pos[i]]) = GroupOf(p, l[pos[i]])
          /\ move[i].from[2][1] = l[pos[i]].slot[1] /\ move[i].to[2][1] = n[pos[i]].slot[1]
      BY <3>1 DEF Reads
    <3> QED
      BY <3>2
  <2> HIDE DEF Key
  <2> QED
    BY <2>1 DEF AffectedKeys
<1>3. \A i \in DOMAIN move : l[pos[i]] \in Assignment(p) /\ n[pos[i]] \in Assignment(p)
  BY MovedRead
<1>4. \A i \in DOMAIN move : Key(l[pos[i]]) \in Groups \X Days /\ Key(n[pos[i]]) \in Groups \X Days
  BY <1>1, <1>3
<1> HIDE DEF Key
<1>5. /\ AffectedKeys(p, move) \in SUBSET (Groups \X Days)
      /\ \A i \in DOMAIN move : /\ Key(l[pos[i]]) \in AffectedKeys(p, move)
                                /\ Key(n[pos[i]]) \in AffectedKeys(p, move)
  BY <1>2, <1>4
<1> QED
  BY <1>5 DEF Key

\* A group's day that a move does not touch has the same sessions before and after.
LEMMA Elsewhere ==
  ASSUME NEW p, Formed(p), NEW l, NEW n, NEW move, NEW pos, Moved(p, l, n, move, pos),
         NEW g, NEW day, <<g, day>> \notin AffectedKeys(p, move), NEW k \in DOMAIN l
  PROVE  /\ GroupOf(p, l[k]) = g /\ l[k].slot[1] = day => n[k] = l[k]
         /\ GroupOf(p, n[k]) = g /\ n[k].slot[1] = day => n[k] = l[k]
<1>1. CASE \E i \in DOMAIN move : k = pos[i]
  <2>1. PICK i \in DOMAIN move : k = pos[i]
    BY <1>1
  <2>2. /\ <<GroupOf(p, l[k]), l[k].slot[1]>> \in AffectedKeys(p, move)
        /\ <<GroupOf(p, n[k]), n[k].slot[1]>> \in AffectedKeys(p, move)
    BY <2>1, KeysOfMove
  <2> QED
    BY <2>2
<1>2. CASE ~ \E i \in DOMAIN move : k = pos[i]
  <2>1. n[k] = l[k]
    BY <1>2 DEF Moved
  <2> QED
    BY <2>1
<1> QED
  BY <1>1, <1>2

\* So its gaps and its sittings stay.
LEMMA Untouched ==
  ASSUME NEW p, Formed(p), NEW l, NEW n, NEW move, NEW pos, Moved(p, l, n, move, pos),
         NEW g \in Groups, NEW day \in Days, <<g, day>> \notin AffectedKeys(p, move)
  PROVE  /\ CountedGaps(CountOf(p, n), g, day) = CountedGaps(CountOf(p, l), g, day)
         /\ Sittings(p, n, g, day) = Sittings(p, l, g, day)
<1>1. l \in Seq(Assignment(p)) /\ n \in Seq(Assignment(p)) /\ DOMAIN n = DOMAIN l
  BY DEF Moved, Listed
<1>2. \A k \in DOMAIN l :
        /\ GroupOf(p, l[k]) = g /\ l[k].slot[1] = day => n[k] = l[k]
        /\ GroupOf(p, n[k]) = g /\ n[k].slot[1] = day => n[k] = l[k]
  BY Elsewhere
<1>3. \A a, c : c \in Occupied(p, a) => c[1] = a.slot[1]
  BY DEF Occupied, Span
<1>4. ASSUME NEW c \in Slots, c[1] = day
      PROVE  (\E k \in DOMAIN n : GroupOf(p, n[k]) = g /\ c \in Occupied(p, n[k]))
               <=> (\E k \in DOMAIN l : GroupOf(p, l[k]) = g /\ c \in Occupied(p, l[k]))
  BY <1>1, <1>2, <1>3, <1>4
<1>5. DayPeriods(p, n, g, day) = DayPeriods(p, l, g, day)
  <2>1. {c \in Slots : c[1] = day /\ \E k \in DOMAIN n : GroupOf(p, n[k]) = g /\ c \in Occupied(p, n[k])}
          = {c \in Slots : c[1] = day /\ \E k \in DOMAIN l : GroupOf(p, l[k]) = g /\ c \in Occupied(p, l[k])}
    BY <1>4
  <2> QED
    BY <2>1 DEF DayPeriods
<1>6. CountedGaps(CountOf(p, n), g, day) = CountedGaps(CountOf(p, l), g, day)
  BY <1>1, <1>5, GapsCounted
<1>7. Sittings(p, n, g, day) = Sittings(p, l, g, day)
  BY <1>1, <1>2 DEF Sittings
<1> QED
  BY <1>6, <1>7

\* The sittings that leave a day and those that come to it.
LEMMA SittingsMoved ==
  ASSUME NEW p, NEW l, NEW n, NEW move, NEW pos, Moved(p, l, n, move, pos),
         NEW e, NEW gd, e.sittings[gd] = Sittings(p, l, gd[1], gd[2])
  PROVE  SittingsAfter(p, e, move, gd) = Sittings(p, n, gd[1], gd[2])
<1> DEFINE Here(a) == GroupOf(p, a) = gd[1] /\ a.slot[1] = gd[2]
           Come(c) == [id |-> c.id, room |-> c.to[1], start |-> c.to[2][2],
                       length |-> p.reqs[c.req].duration]
           Stay == {x \in e.sittings[gd] : \A i \in DOMAIN move : x.id # move[i].id}
           Arrive == {Come(c) : c \in {move[i] : i \in {j \in DOMAIN move :
                        GroupOfChange(p, move[j]) = gd[1] /\ move[j].to[2][1] = gd[2]}}}
<1>1. SittingsAfter(p, e, move, gd) = Stay \cup Arrive
  BY DEF SittingsAfter
<1>2. \A m : Sittings(p, m, gd[1], gd[2]) = {Sitting(p, m[k]) : k \in {j \in DOMAIN m : Here(m[j])}}
  BY DEF Sittings
<1>3. \A i \in DOMAIN move :
        /\ pos[i] \in DOMAIN l
        /\ move[i].id = l[pos[i]].id /\ Come(move[i]) = Sitting(p, n[pos[i]])
        /\ Here(n[pos[i]]) <=> GroupOfChange(p, move[i]) = gd[1] /\ move[i].to[2][1] = gd[2]
  <2> TAKE i \in DOMAIN move
  <2>1. pos[i] \in DOMAIN l /\ Reads(p, l[pos[i]], n[pos[i]], move[i])
    BY MovedRead
  <2> QED
    BY <2>1 DEF Reads
<1>4. /\ DOMAIN n = DOMAIN l
      /\ \A k \in DOMAIN l : k \notin {pos[i] : i \in DOMAIN move} => n[k] = l[k]
      /\ \A k, j \in DOMAIN l : k # j => l[k].id # l[j].id
  BY DEF Moved, Listed
<1>5. \A a : Sitting(p, a).id = a.id
  BY DEF Sitting
<1>6. Arrive = {Sitting(p, n[pos[i]]) : i \in {j \in DOMAIN move : Here(n[pos[j]])}}
  <2> HIDE DEF Here, Come
  <2> QED
    BY <1>3
<1>7. Stay = {Sitting(p, n[k]) : k \in {j \in DOMAIN n : Here(n[j]) /\ j \notin {pos[i] : i \in DOMAIN move}}}
  <2>1. ASSUME NEW k \in DOMAIN l
        PROVE  (\A i \in DOMAIN move : Sitting(p, l[k]).id # move[i].id)
                 <=> k \notin {pos[i] : i \in DOMAIN move}
    <3>1. Sitting(p, l[k]).id = l[k].id
      BY <1>5
    <3>2. ASSUME NEW i \in DOMAIN move, pos[i] # k PROVE l[k].id # move[i].id
      <4>1. pos[i] \in DOMAIN l /\ move[i].id = l[pos[i]].id
        BY <1>3
      <4>2. l[pos[i]].id # l[k].id
        BY <1>4, <3>2, <4>1
      <4> QED
        BY <4>1, <4>2
    <3>3. \A i \in DOMAIN move : pos[i] = k => l[k].id = move[i].id
      BY <1>3
    <3> QED
      BY <3>1, <3>2, <3>3
  <2>2. Stay = {Sitting(p, l[k]) : k \in {j \in DOMAIN l : Here(l[j]) /\ j \notin {pos[i] : i \in DOMAIN move}}}
    <3> HIDE DEF Here
    <3> QED
      BY <1>2, <2>1
  <2> HIDE DEF Here, Stay
  <2> QED
    BY <1>4, <2>2
<1>8. Sittings(p, n, gd[1], gd[2]) = Stay \cup Arrive
  <2> DEFINE At == {pos[i] : i \in DOMAIN move}
  <2>1. Arrive = {Sitting(p, n[k]) : k \in {j \in DOMAIN n : Here(n[j]) /\ j \in At}}
    <3>1. \A i \in DOMAIN move : pos[i] \in DOMAIN n
      BY <1>3, <1>4
    <3> HIDE DEF Here, Arrive
    <3> QED
      BY <1>6, <3>1
  <2>2. Stay = {Sitting(p, n[k]) : k \in {j \in DOMAIN n : Here(n[j]) /\ j \notin At}}
    BY <1>7
  <2>3. Sittings(p, n, gd[1], gd[2]) = {Sitting(p, n[k]) : k \in {j \in DOMAIN n : Here(n[j])}}
    BY <1>2
  <2> HIDE DEF Here, Stay, Arrive, At
  <2> QED
    BY <2>1, <2>2, <2>3
<1> QED
  BY <1>1, <1>8

-----------------------------------------------------------------------------
(* The deltas are right. *)

\* The change of the dislikes, summed over the changes of the move.
LEMMA DislikesMoved ==
  ASSUME NEW p, Formed(p), NEW l, NEW n, NEW move, NEW pos, Moved(p, l, n, move, pos)
  PROVE  SumFunctionOnSet(DislikesOf(p, n), DOMAIN n)
           = SumFunctionOnSet(DislikesOf(p, l), DOMAIN l)
             + SumFunction([i \in DOMAIN move |-> PreferenceAt(p, move[i], move[i].to)
                                                    - PreferenceAt(p, move[i], move[i].from)])
<1> DEFINE K == {pos[i] : i \in DOMAIN move}
           d == [k \in K |-> Displeasure(p, n[k]) - Displeasure(p, l[k])]
           h == [i \in DOMAIN move |-> PreferenceAt(p, move[i], move[i].to)
                                         - PreferenceAt(p, move[i], move[i].from)]
           f == DislikesOf(p, l)
           g == DislikesOf(p, n)
<1>1. /\ l \in Seq(Assignment(p)) /\ n \in Seq(Assignment(p)) /\ DOMAIN n = DOMAIN l
      /\ IsFiniteSet(DOMAIN move) /\ DOMAIN pos = DOMAIN move /\ K \in SUBSET DOMAIN l
      /\ \A i, j \in DOMAIN move : pos[i] = pos[j] => i = j
      /\ \A k \in DOMAIN l : k \notin K => n[k] = l[k]
  BY DEF Moved, Listed
<1>2. /\ IsFiniteSet(DOMAIN l)
      /\ \A k \in DOMAIN l : f[k] = Displeasure(p, l[k]) /\ g[k] = Displeasure(p, n[k])
                             /\ f[k] \in Nat /\ g[k] \in Nat
  <2>1. f \in [DOMAIN l -> Nat] /\ g \in [DOMAIN n -> Nat]
    BY <1>1, TalliesTyped
  <2> QED
    BY <1>1, <2>1, PlacesFinite DEF DislikesOf
<1>3. \A i \in DOMAIN move : h[i] = d[pos[i]] /\ d[pos[i]] \in Int
  <2>1. \A i \in DOMAIN move :
          /\ PreferenceAt(p, move[i], move[i].from) = Displeasure(p, l[pos[i]])
          /\ PreferenceAt(p, move[i], move[i].to) = Displeasure(p, n[pos[i]])
          /\ pos[i] \in DOMAIN l
    <3> TAKE i \in DOMAIN move
    <3>1. pos[i] \in DOMAIN l /\ Reads(p, l[pos[i]], n[pos[i]], move[i])
      BY MovedRead
    <3> QED
      BY <3>1 DEF Reads
  <2> TAKE i \in DOMAIN move
  <2>2. h[i] = Displeasure(p, n[pos[i]]) - Displeasure(p, l[pos[i]])
    BY <2>1
  <2>3. pos[i] \in K
    OBVIOUS
  <2> QED
    BY <1>2, <2>1, <2>2, <2>3
<1>4. \A k \in K : d[k] = g[k] - f[k]
  BY <1>1, <1>2
<1>5. \A k \in DOMAIN l \ K : g[k] = f[k]
  BY <1>1, <1>2
<1>6. SumFunction(h) = SumFunctionOnSet(h, DOMAIN move)
  <2>1. DOMAIN h = DOMAIN move
    OBVIOUS
  <2> HIDE DEF h
  <2> QED
    BY <2>1 DEF SumFunction
<1> HIDE DEF d, h, f, g
<1>7. SumFunctionOnSet(h, DOMAIN move) = SumFunctionOnSet(d, K)
  BY <1>1, <1>3, SumRenamed
<1> HIDE DEF K
<1>8. SumFunctionOnSet(g, DOMAIN l) = SumFunctionOnSet(f, DOMAIN l) + SumFunctionOnSet(d, K)
  <2>1. \A k \in DOMAIN l : f[k] \in Int /\ g[k] \in Int
    BY <1>2
  <2> QED
    BY <1>1, <1>2, <1>4, <1>5, <2>1, SumDelta
<1> QED
  BY <1>1, <1>6, <1>7, <1>8 DEF h, f, g

\* A total over groups and days changes by what changes at the keys.
LEMMA KeysMoved ==
  ASSUME NEW S, IsFiniteSet(S), NEW f \in [S -> Nat], NEW g \in [S -> Nat],
         NEW K \in SUBSET S, NEW d, DOMAIN d = K,
         \A x \in K : d[x] = g[x] - f[x], \A x \in S \ K : g[x] = f[x]
  PROVE  SumFunctionOnSet(g, S) = SumFunctionOnSet(f, S) + SumFunction(d)
<1>1. \A x \in S : f[x] \in Int /\ g[x] \in Int
  OBVIOUS
<1>2. SumFunctionOnSet(g, S) = SumFunctionOnSet(f, S) + SumFunctionOnSet(d, K)
  BY <1>1, SumDelta
<1> QED
  BY <1>2 DEF SumFunction

\* If the counts are the ones after the move, so is everything else.
LEMMA TalliesMoved ==
  ASSUME NEW p, Formed(p), NEW l, NEW n, NEW move, NEW pos, Moved(p, l, n, move, pos),
         CountAfter(p, Rebuild(p, l), move) = CountOf(p, n)
  PROVE  /\ EvaluateCandidateMove(p, Rebuild(p, l), move) = TotalsOf(p, n)
         /\ ApplyCandidateMove(p, Rebuild(p, l), move) = Rebuild(p, n)
<1> DEFINE e == Rebuild(p, l)
           keys == AffectedKeys(p, move)
<1>1. /\ e.count = CountOf(p, l) /\ e.gaps = GapsOf(p, l) /\ e.sittings = SittingsOf(p, l)
      /\ e.totals = TotalsOf(p, l)
  BY Rebuilt
<1>2. l \in Seq(Assignment(p)) /\ n \in Seq(Assignment(p))
  BY DEF Moved, Listed
<1>3. /\ GapsOf(p, l) \in [Groups \X Days -> Nat] /\ GapsOf(p, n) \in [Groups \X Days -> Nat]
      /\ ChangesOf(p, l) \in [Groups \X Days -> Nat] /\ ChangesOf(p, n) \in [Groups \X Days -> Nat]
  BY <1>2, TalliesTyped
<1>4. keys \in SUBSET (Groups \X Days)
  BY KeysOfMove
<1> HIDE DEF e, keys
<1>5. \A gd \in Groups \X Days :
        /\ GapsOf(p, n)[gd] = CountedGaps(CountOf(p, n), gd[1], gd[2])
        /\ SittingsOf(p, n)[gd] = Sittings(p, n, gd[1], gd[2])
        /\ GapsOf(p, l)[gd] = CountedGaps(CountOf(p, l), gd[1], gd[2])
        /\ SittingsOf(p, l)[gd] = Sittings(p, l, gd[1], gd[2])
        /\ ChangesOf(p, n)[gd] = RoomChanges(SittingsOf(p, n)[gd])
        /\ ChangesOf(p, l)[gd] = RoomChanges(SittingsOf(p, l)[gd])
  BY DEF GapsOf, SittingsOf, ChangesOf
<1>6. \A gd \in Groups \X Days : SittingsAfter(p, e, move, gd) = SittingsOf(p, n)[gd]
  <2> TAKE gd \in Groups \X Days
  <2>1. e.sittings[gd] = Sittings(p, l, gd[1], gd[2])
    BY <1>1, <1>5
  <2>2. SittingsAfter(p, e, move, gd) = Sittings(p, n, gd[1], gd[2])
    BY <2>1, SittingsMoved
  <2> QED
    BY <1>5, <2>2
<1>7. \A gd \in (Groups \X Days) \ keys :
        GapsOf(p, n)[gd] = GapsOf(p, l)[gd] /\ SittingsOf(p, n)[gd] = SittingsOf(p, l)[gd]
  <2> TAKE gd \in (Groups \X Days) \ keys
  <2>1. gd[1] \in Groups /\ gd[2] \in Days /\ gd = <<gd[1], gd[2]>>
    OBVIOUS
  <2>2. /\ CountedGaps(CountOf(p, n), gd[1], gd[2]) = CountedGaps(CountOf(p, l), gd[1], gd[2])
        /\ Sittings(p, n, gd[1], gd[2]) = Sittings(p, l, gd[1], gd[2])
    BY <2>1, Untouched DEF keys
  <2> QED
    BY <1>5, <2>2
<1> DEFINE after == CountAfter(p, e, move)
           dgap == [gd \in keys |-> CountedGaps(after, gd[1], gd[2]) - e.gaps[gd]]
           dpref == [i \in DOMAIN move |-> PreferenceAt(p, move[i], move[i].to)
                                             - PreferenceAt(p, move[i], move[i].from)]
           droom == [gd \in keys |-> RoomChanges(SittingsAfter(p, e, move, gd))
                                       - RoomChanges(e.sittings[gd])]
<1>8. after = CountOf(p, n)
  BY DEF e
<1> HIDE DEF after
<1>9. SumFunctionOnSet(GapsOf(p, n), Groups \X Days)
        = SumFunctionOnSet(GapsOf(p, l), Groups \X Days) + SumFunction(dgap)
  <2>1. DOMAIN dgap = keys /\ \A gd \in keys : dgap[gd] = GapsOf(p, n)[gd] - GapsOf(p, l)[gd]
    BY <1>1, <1>4, <1>5, <1>8
  <2>2. \A gd \in (Groups \X Days) \ keys : GapsOf(p, n)[gd] = GapsOf(p, l)[gd]
    BY <1>7
  <2> DEFINE GD == Groups \X Days
  <2>3. /\ IsFiniteSet(GD) /\ keys \in SUBSET GD
        /\ GapsOf(p, l) \in [GD -> Nat] /\ GapsOf(p, n) \in [GD -> Nat]
        /\ \A gd \in GD \ keys : GapsOf(p, n)[gd] = GapsOf(p, l)[gd]
    BY <1>3, <1>4, <2>2, KeysFinite
  <2> HIDE DEF dgap, GD
  <2>4. SumFunctionOnSet(GapsOf(p, n), GD) = SumFunctionOnSet(GapsOf(p, l), GD) + SumFunction(dgap)
    BY <2>1, <2>3, KeysMoved
  <2> QED
    BY <2>4 DEF GD
<1>10. SumFunctionOnSet(ChangesOf(p, n), Groups \X Days)
        = SumFunctionOnSet(ChangesOf(p, l), Groups \X Days) + SumFunction(droom)
  <2>1. DOMAIN droom = keys /\ \A gd \in keys : droom[gd] = ChangesOf(p, n)[gd] - ChangesOf(p, l)[gd]
    BY <1>1, <1>4, <1>5, <1>6
  <2>2. \A gd \in (Groups \X Days) \ keys : ChangesOf(p, n)[gd] = ChangesOf(p, l)[gd]
    BY <1>5, <1>7
  <2> DEFINE GD == Groups \X Days
  <2>3. /\ IsFiniteSet(GD) /\ keys \in SUBSET GD
        /\ ChangesOf(p, l) \in [GD -> Nat] /\ ChangesOf(p, n) \in [GD -> Nat]
        /\ \A gd \in GD \ keys : ChangesOf(p, n)[gd] = ChangesOf(p, l)[gd]
    BY <1>3, <1>4, <2>2, KeysFinite
  <2> HIDE DEF droom, GD
  <2>4. SumFunctionOnSet(ChangesOf(p, n), GD)
          = SumFunctionOnSet(ChangesOf(p, l), GD) + SumFunction(droom)
    BY <2>1, <2>3, KeysMoved
  <2> QED
    BY <2>4 DEF GD
<1>11. SumFunctionOnSet(DislikesOf(p, n), DOMAIN n)
         = SumFunctionOnSet(DislikesOf(p, l), DOMAIN l) + SumFunction(dpref)
  BY DislikesMoved
<1>12. EvaluateCandidateMove(p, e, move)
         = [gap |-> e.totals.gap + SumFunction(dgap),
            preference |-> e.totals.preference + SumFunction(dpref),
            room |-> e.totals.room + SumFunction(droom)]
  BY DEF EvaluateCandidateMove, after, keys
<1>13. /\ e.totals.gap = SumFunctionOnSet(GapsOf(p, l), Groups \X Days)
       /\ e.totals.preference = SumFunctionOnSet(DislikesOf(p, l), DOMAIN l)
       /\ e.totals.room = SumFunctionOnSet(ChangesOf(p, l), Groups \X Days)
  BY <1>1 DEF TotalsOf
<1>14. [gd \in DOMAIN e.gaps |-> IF gd \in keys THEN CountedGaps(after, gd[1], gd[2]) ELSE e.gaps[gd]]
         = GapsOf(p, n)
  BY <1>1, <1>3, <1>5, <1>7, <1>8
<1>15. [gd \in DOMAIN e.sittings |-> IF gd \in keys THEN SittingsAfter(p, e, move, gd) ELSE e.sittings[gd]]
         = SittingsOf(p, n)
  <2>1. DOMAIN SittingsOf(p, l) = Groups \X Days
        /\ SittingsOf(p, n) = [gd \in Groups \X Days |-> SittingsOf(p, n)[gd]]
    BY DEF SittingsOf
  <2> QED
    BY <1>1, <1>6, <1>7, <2>1
<1> HIDE DEF dgap, dpref, droom
<1>16. EvaluateCandidateMove(p, e, move) = TotalsOf(p, n)
  BY <1>9, <1>10, <1>11, <1>12, <1>13 DEF TotalsOf
<1>17. ApplyCandidateMove(p, e, move) = Rebuild(p, n)
  BY <1>8, <1>14, <1>15, <1>16, Rebuilt DEF ApplyCandidateMove, after, keys
<1> QED
  BY <1>16, <1>17 DEF e

\* One change.
LEMMA DeltaOfOne ==
  ASSUME NEW p, Formed(p), NEW l, Listed(p, l), NEW k \in DOMAIN l, NEW w \in Candidates
  PROVE  LET n == [l EXCEPT ![k] = PlacedAt(l[k], w)]
             move == <<ChangeOf(l[k], w)>>
         IN /\ EvaluateCandidateMove(p, Rebuild(p, l), move) = CalculateScore(p, n)
            /\ ApplyCandidateMove(p, Rebuild(p, l), move) = Rebuild(p, n)
<1> DEFINE n == [l EXCEPT ![k] = PlacedAt(l[k], w)]
           move == <<ChangeOf(l[k], w)>>
           pos == <<k>>
<1>1. Listed(p, n)
  BY Relisted
<1>2. DOMAIN move = {1} /\ move[1] = ChangeOf(l[k], w) /\ pos[1] = k /\ pos \in [{1} -> DOMAIN l]
  OBVIOUS
<1>3. DOMAIN n = DOMAIN l /\ n[k] = PlacedAt(l[k], w) /\ \A j \in DOMAIN l : j # k => n[j] = l[j]
  OBVIOUS
<1>4. IsFiniteSet({1})
  BY FS_Singleton
<1>5. Moved(p, l, n, move, pos)
  <2> HIDE DEF n, move, pos
  <2> QED
    BY <1>1, <1>2, <1>3, <1>4 DEF Moved
<1>6. CountAfter(p, Rebuild(p, l), move) = CountOf(p, n)
  <2>1. Len(move) = 1
    OBVIOUS
  <2>2. Rebuild(p, l).count = CountOf(p, l)
    BY Rebuilt
  <2> HIDE DEF move
  <2> QED
    BY <1>2, <2>1, <2>2, ShiftCounts DEF CountAfter
<1> HIDE DEF n, move, pos
<1>7. TotalsOf(p, n) = CalculateScore(p, n)
  BY <1>1, TotalsAreTheScore DEF Listed
<1> QED
  BY <1>5, <1>6, <1>7, TalliesMoved DEF n, move

\* A swap.
LEMMA DeltaOfTwo ==
  ASSUME NEW p, Formed(p), NEW l, Listed(p, l), NEW k \in DOMAIN l, NEW m \in DOMAIN l, k # m,
         NEW v \in Candidates, NEW w \in Candidates
  PROVE  LET n == [[l EXCEPT ![k] = PlacedAt(l[k], v)] EXCEPT ![m] = PlacedAt(l[m], w)]
             move == <<ChangeOf(l[k], v), ChangeOf(l[m], w)>>
         IN /\ EvaluateCandidateMove(p, Rebuild(p, l), move) = CalculateScore(p, n)
            /\ ApplyCandidateMove(p, Rebuild(p, l), move) = Rebuild(p, n)
<1> DEFINE n1 == [l EXCEPT ![k] = PlacedAt(l[k], v)]
           n == [n1 EXCEPT ![m] = PlacedAt(l[m], w)]
           move == <<ChangeOf(l[k], v), ChangeOf(l[m], w)>>
           pos == <<k, m>>
<1>1. Listed(p, n1) /\ DOMAIN n1 = DOMAIN l /\ n1[m] = l[m]
  BY Relisted
<1>2. Listed(p, n)
  <2> HIDE DEF n1
  <2>1. Listed(p, [n1 EXCEPT ![m] = PlacedAt(n1[m], w)])
    BY <1>1, Relisted
  <2> QED
    BY <1>1, <2>1
<1>3. /\ DOMAIN move = {1, 2} /\ move[1] = ChangeOf(l[k], v) /\ move[2] = ChangeOf(l[m], w)
      /\ pos[1] = k /\ pos[2] = m /\ pos \in [{1, 2} -> DOMAIN l]
  OBVIOUS
<1>4. /\ DOMAIN n = DOMAIN l /\ n[k] = PlacedAt(l[k], v) /\ n[m] = PlacedAt(l[m], w)
      /\ \A j \in DOMAIN l : j # k /\ j # m => n[j] = l[j]
  OBVIOUS
<1>5. IsFiniteSet({1, 2})
  <2>1. {1, 2} = {1} \cup {2}
    OBVIOUS
  <2>2. IsFiniteSet({1}) /\ IsFiniteSet({2})
    BY FS_Singleton
  <2> HIDE DEF move
  <2> QED
    BY <2>1, <2>2, FS_Union
<1>6. Moved(p, l, n, move, pos)
  <2> HIDE DEF n, move, pos
  <2> QED
    BY <1>2, <1>3, <1>4, <1>5 DEF Moved
<1>7. CountAfter(p, Rebuild(p, l), move) = CountOf(p, n)
  <2>1. Len(move) = 2
    OBVIOUS
  <2>2. Rebuild(p, l).count = CountOf(p, l)
    BY Rebuilt
  <2>3. Shift(p, CountOf(p, l), move[1]) = CountOf(p, n1)
    <3> HIDE DEF move
    <3> QED
      BY <1>3, ShiftCounts
  <2>4. Shift(p, CountOf(p, n1), move[2]) = CountOf(p, n)
    <3> HIDE DEF n1, move
    <3>1. Listed(p, n1) /\ m \in DOMAIN n1
      BY <1>1
    <3>2. Shift(p, CountOf(p, n1), ChangeOf(n1[m], w)) = CountOf(p, [n1 EXCEPT ![m] = PlacedAt(n1[m], w)])
      BY <3>1, ShiftCounts
    <3> QED
      BY <1>1, <1>3, <3>2
  <2> HIDE DEF move, n, n1
  <2> QED
    BY <2>1, <2>2, <2>3, <2>4 DEF CountAfter
<1> HIDE DEF n, move, pos
<1>8. TotalsOf(p, n) = CalculateScore(p, n)
  BY <1>2, TotalsAreTheScore DEF Listed
<1> QED
  BY <1>6, <1>7, <1>8, TalliesMoved DEF n, n1, move

-----------------------------------------------------------------------------
(* The index built from a list without clashes. *)

\* One of its tables: every cell bears the id of its only holder.
Owned(p, l, T, D, C) ==
  /\ T = [x \in D |-> T[x]]
  /\ \A x \in D : /\ \A k \in DOMAIN l : T[x] = l[k].id <=> x \in C[k]
                  /\ T[x] = None <=> \A k \in DOMAIN l : x \notin C[k]

Disjoint(l, C) == \A i, j \in DOMAIN l : i # j => C[i] \cap C[j] = {}

FacultyHeld(p, l) == [k \in DOMAIN l |-> HeldFaculty(p, l[k])]
RoomHeld(p, l)    == [k \in DOMAIN l |-> HeldRoom(p, l[k])]
GroupHeld(p, l)   == [k \in DOMAIN l |-> HeldGroup(p, l[k])]

Column(l, D, C) == [x \in D |-> Owner(l, {k \in DOMAIN l : x \in C[k]})]

\* An empty cell bears no id.
LEMMA NoneIsNoId ==
  ASSUME NEW p, NEW l, Listed(p, l), NEW k \in DOMAIN l
  PROVE  l[k].id \in AssignmentIDs /\ l[k].id # None
<1>1. l[k] \in Assignment(p)
  BY DEF Listed
<1> QED
  BY <1>1, GridAssumption DEF Assignment

\* A cell nobody holds is empty.
LEMMA OwnerOfNone == \A l : Owner(l, {}) = None
BY DEF Owner

\* A cell with one holder bears its id.
LEMMA OwnerOfOne ==
  ASSUME NEW p, NEW l, Listed(p, l), NEW k \in DOMAIN l
  PROVE  Owner(l, {k}) = l[k].id
<1>1. k \in Nat
  BY DEF Listed
<1>2. k <= k
  BY <1>1
<1>3. (CHOOSE i \in {k} : \A j \in {k} : j <= i) = k
  BY <1>2
<1> QED
  BY <1>3 DEF Owner

\* A table built from sessions that share no cell is owned.
LEMMA ColumnOwned ==
  ASSUME NEW p, NEW l, Listed(p, l), NEW D, NEW C, Disjoint(l, C)
  PROVE  Owned(p, l, Column(l, D, C), D, C)
<1> DEFINE T == Column(l, D, C)
<1>1. ASSUME NEW x \in D, \A k \in DOMAIN l : x \notin C[k]
      PROVE  T[x] = None
  <2>1. {k \in DOMAIN l : x \in C[k]} = {}
    BY <1>1
  <2> QED
    BY <2>1, OwnerOfNone DEF Column
<1>2. ASSUME NEW x \in D, NEW k \in DOMAIN l, x \in C[k]
      PROVE  T[x] = l[k].id
  <2>1. {j \in DOMAIN l : x \in C[j]} = {k}
    BY <1>2 DEF Disjoint
  <2> QED
    BY <2>1, OwnerOfOne DEF Column
<1>3. \A k, j \in DOMAIN l : l[k].id = l[j].id => k = j
  BY DEF Listed
<1>4. \A k \in DOMAIN l : l[k].id # None
  BY NoneIsNoId
<1>5. T = [x \in D |-> T[x]]
  BY DEF Column
<1>6. \A x \in D, k \in DOMAIN l : T[x] = l[k].id <=> x \in C[k]
  BY <1>1, <1>2, <1>3, <1>4
<1>7. \A x \in D : T[x] = None <=> \A k \in DOMAIN l : x \notin C[k]
  BY <1>1, <1>2, <1>4
<1> QED
  BY <1>5, <1>6, <1>7 DEF Owned

\* A table that is owned is the one that is built.
LEMMA ColumnBuilt ==
  ASSUME NEW p, NEW l, Listed(p, l), NEW D, NEW C, Disjoint(l, C), NEW T, Owned(p, l, T, D, C)
  PROVE  T = Column(l, D, C)
<1> DEFINE S == Column(l, D, C)
<1>1. Owned(p, l, S, D, C)
  BY ColumnOwned
<1> HIDE DEF S
<1>2. \A x \in D : S[x] = T[x]
  BY <1>1 DEF Owned
<1>3. S = [x \in D |-> S[x]] /\ T = [x \in D |-> T[x]]
  BY <1>1 DEF Owned
<1>4. S = T
  BY <1>2, <1>3
<1> QED
  BY <1>4 DEF S

\* Sessions that are kept apart share no cell of any table.
LEMMA Asunder ==
  ASSUME NEW p, NEW l, Listed(p, l), KeptApart(p, l)
  PROVE  /\ \A i, j \in DOMAIN l : i # j => ~Clash(p, l[i], l[j])
         /\ Disjoint(l, FacultyHeld(p, l)) /\ Disjoint(l, RoomHeld(p, l)) /\ Disjoint(l, GroupHeld(p, l))
<1>1. \A i, j \in DOMAIN l : i # j => i < j \/ j < i
  BY DEF Listed
<1>2. \A a, b : Clash(p, a, b) <=> Clash(p, b, a)
  <2> TAKE a, b
  <2>1. Occupied(p, a) \cap Occupied(p, b) = Occupied(p, b) \cap Occupied(p, a)
    OBVIOUS
  <2> QED
    BY <2>1 DEF Clash, GroupsOverlap
<1>3. \A i, j \in DOMAIN l : i # j => ~Clash(p, l[i], l[j])
  BY <1>1, <1>2 DEF KeptApart
<1>4. \A a : Held(p, a) \subseteq Occupied(p, a)
  BY DEF Held
<1>5. \A i, j \in DOMAIN l : i # j => HeldFaculty(p, l[i]) \cap HeldFaculty(p, l[j]) = {}
  BY <1>3, <1>4 DEF HeldFaculty, Clash
<1>6. \A i, j \in DOMAIN l : i # j => HeldRoom(p, l[i]) \cap HeldRoom(p, l[j]) = {}
  BY <1>3, <1>4 DEF HeldRoom, Clash
<1>7. \A i, j \in DOMAIN l : i # j => HeldGroup(p, l[i]) \cap HeldGroup(p, l[j]) = {}
  BY <1>3, <1>4 DEF HeldGroup, Clash, GroupsOverlap
<1> QED
  BY <1>3, <1>5, <1>6, <1>7 DEF Disjoint, FacultyHeld, RoomHeld, GroupHeld

\* The index built from a list, table by table.
LEMMA Built ==
  ASSUME NEW p, NEW l
  PROVE  /\ BuildIndex(p, l) = [list |-> l, faculty |-> BuildIndex(p, l).faculty,
                                room |-> BuildIndex(p, l).room, group |-> BuildIndex(p, l).group]
         /\ BuildIndex(p, l).faculty =
              Column(l, Faculty \X Slots, FacultyHeld(p, l))
         /\ BuildIndex(p, l).room =
              Column(l, Rooms \X Slots, RoomHeld(p, l))
         /\ BuildIndex(p, l).group =
              Column(l, Groups \X Slots, GroupHeld(p, l))
<1>1. \A x : {k \in DOMAIN l : x \in {FacultyOf(p, l[k])} \X Held(p, l[k])}
               = {k \in DOMAIN l : x \in FacultyHeld(p, l)[k]}
  BY DEF FacultyHeld, HeldFaculty
<1>2. \A x : {k \in DOMAIN l : x \in {l[k].room} \X Held(p, l[k])}
               = {k \in DOMAIN l : x \in RoomHeld(p, l)[k]}
  BY DEF RoomHeld, HeldRoom
<1>3. \A x : {k \in DOMAIN l : x \in {GroupOf(p, l[k])} \X Held(p, l[k])}
               = {k \in DOMAIN l : x \in GroupHeld(p, l)[k]}
  BY DEF GroupHeld, HeldGroup
<1> QED
  BY <1>1, <1>2, <1>3 DEF BuildIndex, Column
=============================================================================
