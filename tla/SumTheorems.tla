---------------------------- MODULE SumTheorems -----------------------------
(***************************************************************************)
(* What SumFunction computes, for every finite domain: the facts that the  *)
(* proofs about amounts of tokens and sizes of positions rest on.          *)
(*                                                                         *)
(* SumFunction adds the values up in the order CHOOSE picks the arguments, *)
(* by a recursive function over the subsets of the domain.  The lemmas are *)
(* proved by induction with a set in place of the induction predicate.     *)
(***************************************************************************)
EXTENDS Functions, Sequences, FiniteSets, FiniteSetTheorems, TLAPS

-----------------------------------------------------------------------------
(* Induction *)

LessThan == {ss \in Nat \X Nat : ss[1] < ss[2]}

\* A non-empty set of natural numbers has a least member.
LEMMA LeastNat ==
    ASSUME NEW T, T \subseteq Nat, T # {}
    PROVE  \E x \in T : \A y \in T : x <= y
  <1>1. IsWellFoundedOn(LessThan, Nat)
    BY NatLessThanWellFounded DEF OpToRel, LessThan
  <1>2. PICK x \in T : \A y \in T : ~(<<y, x>> \in LessThan)
    BY <1>1, WFMin
  <1>3. ASSUME NEW y \in T PROVE x <= y
    <2>1. x \in Nat /\ y \in Nat
      BY <1>2
    <2>2. ~(y < x)
      BY <1>2, <2>1 DEF LessThan
    <2>3. QED
      BY <2>1, <2>2
  <1>4. QED
    BY <1>2, <1>3

\* A set that has 0 and with every natural number the next one has them all.
LEMMA NatSetInduction ==
    ASSUME NEW S, 0 \in S, \A n \in Nat : n \in S => n + 1 \in S
    PROVE  \A n \in Nat : n \in S
  <1> DEFINE T == Nat \ S
  <1>1. SUFFICES ASSUME T # {} PROVE FALSE
    OBVIOUS
  <1>2. PICK x \in T : \A y \in T : x <= y
    BY <1>1, LeastNat
  <1>3. x \in Nat /\ x # 0 /\ x - 1 \in Nat
    BY <1>2
  <1>4. x - 1 \in S
    BY <1>2, <1>3
  <1>5. QED
    BY <1>2, <1>3, <1>4

\* A family of sets that has the empty set, and a non-empty subset of S
\* whenever it has all the sets with one member less, has every subset of S.
LEMMA SubsetInduction ==
    ASSUME NEW S, IsFiniteSet(S), NEW F, {} \in F,
           \A s \in SUBSET S : s # {} /\ (\A x \in s : s \ {x} \in F) => s \in F
    PROVE  \A s \in SUBSET S : s \in F
  <1> DEFINE N == {n \in Nat : \A s \in SUBSET S : Cardinality(s) = n => s \in F}
  <1>1. \A s \in SUBSET S : /\ IsFiniteSet(s) /\ Cardinality(s) \in Nat
                            /\ Cardinality(s) = 0 => s = {}
                            /\ \A x \in s : Cardinality(s \ {x}) = Cardinality(s) - 1
    BY FS_Subset, FS_CardinalityType, FS_EmptySet, FS_RemoveElement
  <1>2. 0 \in N
    BY <1>1
  <1>3. ASSUME NEW n \in Nat, n \in N PROVE n + 1 \in N
    <2>1. ASSUME NEW s \in SUBSET S, Cardinality(s) = n + 1 PROVE s \in F
      <3>1. s # {}
        BY <2>1, <1>1, FS_EmptySet
      <3>2. ASSUME NEW x \in s PROVE s \ {x} \in F
        <4>1. s \ {x} \in SUBSET S /\ Cardinality(s \ {x}) = n
          BY <1>1, <2>1
        <4>2. QED
          BY <4>1, <1>3
      <3>3. QED
        BY <3>1, <3>2
    <2>2. QED
      BY <2>1
  <1> HIDE DEF N
  <1>4. \A n \in Nat : n \in N
    BY <1>2, <1>3, NatSetInduction
  <1>5. QED
    BY <1>1, <1>4 DEF N

-----------------------------------------------------------------------------
(* The recursive function inside SumFunction *)

Pick(s) == CHOOSE x \in s : TRUE

\* What the recursion computes for s from what it has for smaller sets.
SumStep(f, g, s) == IF s = {} THEN 0 ELSE f[Pick(s)] + g[s \ {Pick(s)}]

IsSumOn(g, f, S) == g = [s \in SUBSET S |-> SumStep(f, g, s)]

\* The member that is picked is a member.
LEMMA PickMember ==
    ASSUME NEW s, s # {}
    PROVE  Pick(s) \in s
  BY DEF Pick

\* The recursion has a solution on every finite set.
LEMMA SumExists ==
    ASSUME NEW f, NEW S, IsFiniteSet(S)
    PROVE  \E g : IsSumOn(g, f, S)
  <1> DEFINE D(n) == {s \in SUBSET S : Cardinality(s) <= n}
             Solved(n) == \E g : g = [s \in D(n) |-> SumStep(f, g, s)]
             N == {n \in Nat : Solved(n)}
  <1>1. \A s \in SUBSET S : /\ IsFiniteSet(s) /\ Cardinality(s) \in Nat
                            /\ Cardinality(s) <= Cardinality(S)
                            /\ Cardinality(s) = 0 => s = {}
                            /\ \A x \in s : Cardinality(s \ {x}) = Cardinality(s) - 1
    BY FS_Subset, FS_CardinalityType, FS_EmptySet, FS_RemoveElement
  <1>2. Solved(0)
    <2> DEFINE g == [s \in D(0) |-> 0]
    <2>1. \A s \in D(0) : s = {}
      BY <1>1
    <2>2. \A s \in D(0) : SumStep(f, g, s) = 0
      BY <2>1 DEF SumStep
    <2>3. g = [s \in D(0) |-> SumStep(f, g, s)]
      BY <2>2
    <2>4. QED
      BY <2>3
  <1>3. ASSUME NEW n \in Nat, Solved(n) PROVE Solved(n + 1)
    <2>1. PICK g : g = [s \in D(n) |-> SumStep(f, g, s)]
      BY <1>3
    <2> DEFINE h == [s \in D(n + 1) |-> SumStep(f, g, s)]
    <2>2. \A s \in D(n) : s \in D(n + 1) /\ h[s] = g[s]
      <3>1. \A s \in D(n) : s \in D(n + 1)
        BY <1>1
      <3>2. \A s \in D(n) : g[s] = SumStep(f, g, s)
        BY <2>1
      <3>3. QED
        BY <3>1, <3>2
    <2>3. ASSUME NEW s \in D(n + 1) PROVE SumStep(f, g, s) = SumStep(f, h, s)
      <3>1. CASE s = {}
        BY <3>1 DEF SumStep
      <3>2. CASE s # {}
        <4>1. Pick(s) \in s
          BY <3>2, PickMember
        <4>2. s \ {Pick(s)} \in D(n)
          BY <4>1, <1>1
        <4>3. QED
          BY <4>2, <2>2 DEF SumStep
      <3>3. QED
        BY <3>1, <3>2
    <2>4. h = [s \in D(n + 1) |-> SumStep(f, h, s)]
      BY <2>3
    <2> HIDE DEF h
    <2>5. QED
      BY <2>4
  <1> HIDE DEF Solved
  <1>4. 0 \in N /\ \A n \in Nat : n \in N => n + 1 \in N
    BY <1>2, <1>3
  <1> HIDE DEF N
  <1>5. Cardinality(S) \in N
    BY <1>4, NatSetInduction, FS_CardinalityType
  <1>6. D(Cardinality(S)) = SUBSET S
    BY <1>1
  <1>7. QED
    BY <1>5, <1>6 DEF N, Solved, IsSumOn

\* Two solutions agree on the subsets of both their domains.
LEMMA SumUnique ==
    ASSUME NEW f, NEW S, NEW T, NEW g, NEW h, T \subseteq S, IsFiniteSet(T),
           IsSumOn(g, f, S), IsSumOn(h, f, T)
    PROVE  \A s \in SUBSET T : g[s] = h[s]
  <1> DEFINE F == {s \in SUBSET T : g[s] = h[s]}
  <1>1. \A s \in SUBSET T : g[s] = SumStep(f, g, s) /\ h[s] = SumStep(f, h, s)
    BY DEF IsSumOn
  <1>2. {} \in F
    BY <1>1 DEF SumStep
  <1>3. ASSUME NEW s \in SUBSET T, s # {}, \A x \in s : s \ {x} \in F
        PROVE  s \in F
    <2>1. g[s \ {Pick(s)}] = h[s \ {Pick(s)}]
      BY <1>3, PickMember
    <2>2. QED
      BY <1>1, <1>3, <2>1 DEF SumStep
  <1> HIDE DEF F
  <1>4. \A s \in SUBSET T : s \in F
    BY <1>2, <1>3, SubsetInduction
  <1>5. QED
    BY <1>4 DEF F

-----------------------------------------------------------------------------
(* Sums over a set *)

\* SumFunctionOnSet is the value of a solution at the set itself.
LEMMA SumIsSolution ==
    ASSUME NEW f, NEW S, IsFiniteSet(S), NEW g, IsSumOn(g, f, S)
    PROVE  \A T \in SUBSET S : SumFunctionOnSet(f, T) = g[T]
  <1> TAKE T \in SUBSET S
  <1>1. IsFiniteSet(T)
    BY FS_Subset
  <1> DEFINE h == CHOOSE k : IsSumOn(k, f, T)
  <1>2. IsSumOn(h, f, T)
    BY <1>1, SumExists
  <1>3. SumFunctionOnSet(f, T) = h[T]
    BY DEF SumFunctionOnSet, FoldFunctionOnSet, MapThenFoldSet, SumStep, Pick, IsSumOn
  <1> HIDE DEF h
  <1>4. g[T] = h[T]
    BY <1>1, <1>2, SumUnique
  <1>5. QED
    BY <1>3, <1>4

\* The sum over no arguments is 0, and over others one of them and the rest.
LEMMA SumUnfold ==
    ASSUME NEW f, NEW S, IsFiniteSet(S)
    PROVE  /\ SumFunctionOnSet(f, {}) = 0
           /\ \A T \in SUBSET S : T # {} =>
                SumFunctionOnSet(f, T)
                  = f[Pick(T)] + SumFunctionOnSet(f, T \ {Pick(T)})
  <1>1. PICK g : IsSumOn(g, f, S)
    BY SumExists
  <1>2. \A T \in SUBSET S : SumFunctionOnSet(f, T) = g[T] /\ g[T] = SumStep(f, g, T)
    <2>1. \A T \in SUBSET S : SumFunctionOnSet(f, T) = g[T]
      BY <1>1, SumIsSolution
    <2>2. \A T \in SUBSET S : g[T] = SumStep(f, g, T)
      BY <1>1 DEF IsSumOn
    <2>3. QED
      BY <2>1, <2>2
  <1>3. SumFunctionOnSet(f, {}) = 0
    BY <1>2 DEF SumStep
  <1>4. ASSUME NEW T \in SUBSET S, T # {}
        PROVE  SumFunctionOnSet(f, T) = f[Pick(T)] + SumFunctionOnSet(f, T \ {Pick(T)})
    <2>1. T \ {Pick(T)} \in SUBSET S
      OBVIOUS
    <2>2. SumFunctionOnSet(f, T \ {Pick(T)}) = g[T \ {Pick(T)}]
      BY <1>2, <2>1
    <2>3. QED
      BY <1>2, <1>4, <2>2 DEF SumStep
  <1>5. QED
    BY <1>3, <1>4

\* A sum of integers is one.
LEMMA SumInt ==
    ASSUME NEW f, NEW S, IsFiniteSet(S), \A x \in S : f[x] \in Int
    PROVE  \A T \in SUBSET S : SumFunctionOnSet(f, T) \in Int
  <1> DEFINE F == {s \in SUBSET S : SumFunctionOnSet(f, s) \in Int}
  <1>1. {} \in F
    BY SumUnfold
  <1>2. ASSUME NEW s \in SUBSET S, s # {}, \A x \in s : s \ {x} \in F
        PROVE  s \in F
    <2>1. Pick(s) \in s
      BY <1>2, PickMember
    <2>2. f[Pick(s)] \in Int /\ SumFunctionOnSet(f, s \ {Pick(s)}) \in Int
      BY <1>2, <2>1
    <2>3. QED
      BY <1>2, <2>2, SumUnfold
  <1> HIDE DEF F
  <1>3. \A s \in SUBSET S : s \in F
    BY <1>1, <1>2, SubsetInduction
  <1>4. QED
    BY <1>3 DEF F

\* The order in which the arguments are picked does not matter: any of them
\* can be split off.
LEMMA SumSplit ==
    ASSUME NEW f, NEW S, IsFiniteSet(S), \A x \in S : f[x] \in Int
    PROVE  \A T \in SUBSET S : \A x \in T :
             SumFunctionOnSet(f, T) = f[x] + SumFunctionOnSet(f, T \ {x})
  <1> DEFINE Sum(T) == SumFunctionOnSet(f, T)
             F == {s \in SUBSET S : \A x \in s : Sum(s) = f[x] + Sum(s \ {x})}
  <1>1. \A T \in SUBSET S : Sum(T) \in Int
    BY SumInt
  <1>2. \A T \in SUBSET S : T # {} => Sum(T) = f[Pick(T)] + Sum(T \ {Pick(T)})
    BY SumUnfold
  <1> HIDE DEF Sum
  <1>3. {} \in F
    OBVIOUS
  <1>4. ASSUME NEW s \in SUBSET S, s # {}, \A x \in s : s \ {x} \in F
        PROVE  s \in F
    <2>1. ASSUME NEW x \in s PROVE Sum(s) = f[x] + Sum(s \ {x})
      <3> DEFINE p == Pick(s)
                 r == (s \ {x}) \ {p}
      <3>1. p \in s /\ Sum(s) = f[p] + Sum(s \ {p})
        BY <1>2, <1>4, PickMember
      <3> HIDE DEF p
      <3>2. CASE x = p
        BY <3>1, <3>2
      <3>3. CASE x # p
        <4>1. x \in s \ {p} /\ p \in s \ {x} /\ (s \ {p}) \ {x} = r
          BY <3>1, <3>3
        <4>2. Sum(s \ {p}) = f[x] + Sum(r)
          BY <1>4, <3>1, <4>1
        <4>3. Sum(s \ {x}) = f[p] + Sum(r)
          BY <1>4, <4>1
        <4>4. f[p] \in Int /\ f[x] \in Int /\ Sum(r) \in Int
          BY <1>1, <3>1
        <4>5. QED
          BY <3>1, <4>2, <4>3, <4>4
      <3>4. QED
        BY <3>2, <3>3
    <2>2. QED
      BY <2>1
  <1> HIDE DEF F
  <1>5. \A s \in SUBSET S : s \in F
    BY <1>3, <1>4, SubsetInduction
  <1>6. QED
    BY <1>5, Zenon DEF F, Sum

\* A sum depends only on the values at its arguments, and arguments with value
\* 0 do not count.
LEMMA SumSame ==
    ASSUME NEW f, NEW g, NEW S, IsFiniteSet(S), NEW T \in SUBSET S,
           \A x \in S : f[x] \in Int /\ (x \notin T => f[x] = 0),
           \A x \in T : g[x] = f[x]
    PROVE  SumFunctionOnSet(f, S) = SumFunctionOnSet(g, T)
  <1> DEFINE F == {s \in SUBSET S : SumFunctionOnSet(f, s) = SumFunctionOnSet(g, s \cap T)}
  <1>1. {} \in F
    <2>1. SumFunctionOnSet(f, {}) = 0 /\ SumFunctionOnSet(g, {}) = 0
      BY SumUnfold
    <2>2. {} \cap T = {}
      OBVIOUS
    <2>3. QED
      BY <2>1, <2>2
  <1>2. IsFiniteSet(T) /\ \A x \in T : g[x] \in Int
    BY FS_Subset
  <1>3. ASSUME NEW s \in SUBSET S, s # {}, \A x \in s : s \ {x} \in F
        PROVE  s \in F
    <2>1. PICK x \in s : TRUE
      BY <1>3
    <2>2. SumFunctionOnSet(f, s) = f[x] + SumFunctionOnSet(f, s \ {x})
      BY SumSplit
    <2>3. SumFunctionOnSet(f, s \ {x}) = SumFunctionOnSet(g, (s \ {x}) \cap T)
      BY <1>3
    <2>4. SumFunctionOnSet(g, (s \ {x}) \cap T) \in Int
      <3>1. (s \ {x}) \cap T \in SUBSET T
        OBVIOUS
      <3>2. QED
        BY <3>1, <1>2, SumInt
    <2>5. CASE x \in T
      <3>1. x \in s \cap T /\ (s \ {x}) \cap T = (s \cap T) \ {x} /\ s \cap T \in SUBSET T
        BY <2>5
      <3>2. SumFunctionOnSet(g, s \cap T)
              = g[x] + SumFunctionOnSet(g, (s \cap T) \ {x})
        BY <3>1, <1>2, SumSplit
      <3>3. QED
        BY <2>2, <2>3, <2>5, <3>1, <3>2
    <2>6. CASE x \notin T
      <3>1. (s \ {x}) \cap T = s \cap T /\ f[x] = 0
        BY <2>6
      <3>2. SumFunctionOnSet(f, s) = 0 + SumFunctionOnSet(g, s \cap T)
        BY <2>2, <2>3, <3>1
      <3>3. SumFunctionOnSet(g, s \cap T) \in Int
        BY <2>4, <3>1
      <3>4. QED
        BY <3>2, <3>3
    <2>7. QED
      BY <2>5, <2>6
  <1> HIDE DEF F
  <1>4. \A s \in SUBSET S : s \in F
    BY <1>1, <1>3, SubsetInduction
  <1>5. SumFunctionOnSet(f, S) = SumFunctionOnSet(g, S \cap T) /\ S \cap T = T
    BY <1>4 DEF F
  <1>6. QED
    BY <1>5

-----------------------------------------------------------------------------
(* Sums of functions *)

\* The sum of a function with integer values, and of no values.
LEMMA SumType ==
    ASSUME NEW S, IsFiniteSet(S), NEW f \in [S -> Int]
    PROVE  SumFunction(f) \in Int /\ (S = {} => SumFunction(f) = 0)
  BY SumInt, SumUnfold DEF SumFunction

\* Changing the value at one argument changes the sum by the difference.
LEMMA SumChange ==
    ASSUME NEW S, IsFiniteSet(S), NEW f \in [S -> Int], NEW g \in [S -> Int],
           NEW c \in S, \A x \in S \ {c} : g[x] = f[x]
    PROVE  SumFunction(g) = SumFunction(f) - f[c] + g[c]
  <1> DEFINE T == S \ {c}
  <1>1. /\ SumFunctionOnSet(f, S) = f[c] + SumFunctionOnSet(f, T)
        /\ SumFunctionOnSet(g, S) = g[c] + SumFunctionOnSet(g, T)
    BY SumSplit
  <1>2. IsFiniteSet(T) /\ SumFunctionOnSet(f, T) \in Int
    BY FS_Subset, SumInt
  <1>3. SumFunctionOnSet(f, T) = SumFunctionOnSet(g, T)
    <2>1. T \in SUBSET T /\ \A x \in T : f[x] \in Int /\ (x \notin T => f[x] = 0) /\ g[x] = f[x]
      OBVIOUS
    <2>2. QED
      BY <1>2, <2>1, SumSame
  <1>4. QED
    BY <1>1, <1>2, <1>3 DEF SumFunction

\* Arguments with value 0 can be left out.
LEMMA SumSupport ==
    ASSUME NEW S, IsFiniteSet(S), NEW f \in [S -> Int], NEW T \in SUBSET S,
           NEW g \in [T -> Int], \A x \in T : g[x] = f[x], \A x \in S \ T : f[x] = 0
    PROVE  SumFunction(g) = SumFunction(f)
  BY SumSame DEF SumFunction

\* A sum of zeros is zero.
LEMMA SumZero ==
    ASSUME NEW S, IsFiniteSet(S), NEW f \in [S -> Int], \A x \in S : f[x] = 0
    PROVE  SumFunction(f) = 0
  <1> DEFINE none == {}
             g == [x \in none |-> 0]
  <1>1. /\ g \in [none -> Int] /\ none \in SUBSET S
        /\ \A x \in none : g[x] = f[x]
        /\ \A x \in S \ none : f[x] = 0
    OBVIOUS
  <1>2. DOMAIN g = {}
    OBVIOUS
  <1> HIDE DEF g, none
  <1>3. SumFunction(g) = SumFunction(f)
    BY <1>1, SumSupport
  <1>4. SumFunction(g) = 0
    BY <1>2, SumUnfold, FS_EmptySet DEF SumFunction
  <1>5. QED
    BY <1>3, <1>4

\* A sum of equal values is a product.
LEMMA SumConstant ==
    ASSUME NEW S, IsFiniteSet(S), NEW c \in Int
    PROVE  SumFunction([x \in S |-> c]) = c * Cardinality(S)
  <1> DEFINE f == [x \in S |-> c]
             F == {s \in SUBSET S : SumFunctionOnSet(f, s) = c * Cardinality(s)}
  <1>1. \A x \in S : f[x] = c /\ f[x] \in Int
    OBVIOUS
  <1>2. DOMAIN f = S
    OBVIOUS
  <1> HIDE DEF f
  <1>3. {} \in F
    <2>1. SumFunctionOnSet(f, {}) = 0
      BY SumUnfold
    <2>2. Cardinality({}) = 0 /\ c * 0 = 0
      BY FS_EmptySet
    <2>3. QED
      BY <2>1, <2>2
  <1>4. ASSUME NEW s \in SUBSET S, s # {}, \A x \in s : s \ {x} \in F
        PROVE  s \in F
    <2>1. PICK x \in s : TRUE
      BY <1>4
    <2>2. SumFunctionOnSet(f, s) = f[x] + SumFunctionOnSet(f, s \ {x})
      BY <1>1, SumSplit
    <2>3. SumFunctionOnSet(f, s \ {x}) = c * Cardinality(s \ {x})
      BY <1>4
    <2>4. /\ Cardinality(s) \in Nat /\ Cardinality(s \ {x}) = Cardinality(s) - 1
      BY FS_Subset, FS_CardinalityType, FS_RemoveElement
    <2>5. \A n \in Nat : c + c * (n - 1) = c * n
      OBVIOUS
    <2>6. SumFunctionOnSet(f, s) = c * Cardinality(s)
      BY <1>1, <2>2, <2>3, <2>4, <2>5
    <2>7. QED
      BY <2>6
  <1> HIDE DEF F
  <1>5. \A s \in SUBSET S : s \in F
    BY <1>3, <1>4, SubsetInduction
  <1>6. SumFunctionOnSet(f, S) = c * Cardinality(S)
    BY <1>5 DEF F
  <1>7. QED
    BY <1>2, <1>6 DEF SumFunction, f

\* An argument that is added to the domain adds its value to the sum.
LEMMA SumAppend ==
    ASSUME NEW S, IsFiniteSet(S), NEW c, c \notin S, NEW g \in [S \cup {c} -> Int],
           NEW f \in [S -> Int], \A x \in S : g[x] = f[x]
    PROVE  SumFunction(g) = SumFunction(f) + g[c]
  <1> DEFINE T == S \cup {c}
             h == [x \in T |-> IF x = c THEN 0 ELSE g[x]]
  <1>1. IsFiniteSet(T) /\ S \in SUBSET T /\ c \in T
    BY FS_AddElement
  <1>2. h \in [T -> Int] /\ h[c] = 0 /\ \A x \in T \ {c} : g[x] = h[x]
    OBVIOUS
  <1>3. \A x \in S : f[x] = h[x]
    OBVIOUS
  <1>4. \A x \in T \ S : h[x] = 0
    OBVIOUS
  <1> HIDE DEF h
  <1>5. SumFunction(f) = SumFunction(h)
    BY <1>1, <1>2, <1>3, <1>4, SumSupport
  <1>6. SumFunction(g) = SumFunction(h) - h[c] + g[c]
    BY <1>1, <1>2, SumChange
  <1>7. SumFunction(h) \in Int /\ g[c] \in Int
    BY <1>1, <1>2, SumType
  <1>8. QED
    BY <1>2, <1>5, <1>6, <1>7

\* A sum of natural numbers is at least every one of them.
LEMMA SumNat ==
    ASSUME NEW S, IsFiniteSet(S), NEW f \in [S -> Nat]
    PROVE  SumFunction(f) \in Nat /\ \A x \in S : f[x] <= SumFunction(f)
  <1> DEFINE F == {s \in SUBSET S : SumFunctionOnSet(f, s) \in Nat}
  <1>0. \A x \in S : f[x] \in Int
    OBVIOUS
  <1>1. {} \in F
    BY SumUnfold
  <1>2. ASSUME NEW s \in SUBSET S, s # {}, \A x \in s : s \ {x} \in F
        PROVE  s \in F
    <2>1. PICK x \in s : TRUE
      BY <1>2
    <2>2. SumFunctionOnSet(f, s) = f[x] + SumFunctionOnSet(f, s \ {x})
      BY <1>0, SumSplit
    <2>3. f[x] \in Nat /\ SumFunctionOnSet(f, s \ {x}) \in Nat
      BY <1>2
    <2>4. QED
      BY <2>2, <2>3
  <1> HIDE DEF F
  <1>3. \A s \in SUBSET S : s \in F
    BY <1>1, <1>2, SubsetInduction
  <1>4. SumFunction(f) = SumFunctionOnSet(f, S) /\ SumFunctionOnSet(f, S) \in Nat
    BY <1>3 DEF F, SumFunction
  <1>5. ASSUME NEW x \in S PROVE f[x] <= SumFunction(f)
    <2>1. SumFunctionOnSet(f, S) = f[x] + SumFunctionOnSet(f, S \ {x})
      BY <1>0, SumSplit
    <2>2. f[x] \in Nat /\ SumFunctionOnSet(f, S \ {x}) \in Nat
      BY <1>3 DEF F
    <2>3. QED
      BY <1>4, <2>1, <2>2
  <1>6. QED
    BY <1>4, <1>5

-----------------------------------------------------------------------------
(* Sums over the positions of a sequence *)

\* A position added at the end adds its value to the sum.
LEMMA SumLast ==
    ASSUME NEW m \in Nat
    PROVE  \A f \in [1..(m + 1) -> Int], g \in [1..m -> Int] :
             (\A i \in 1..m : f[i] = g[i]) =>
               /\ SumFunction(f) = SumFunction(g) + f[m + 1]
               /\ SumFunction(g) \in Int /\ f[m + 1] \in Int
  <1>1. PICK S, c : S = 1..m /\ c = m + 1
    OBVIOUS
  <1>2. IsFiniteSet(S)
    BY <1>1, FS_Interval
  <1>3. c \notin S
    BY <1>1
  <1>4. 1..(m + 1) = S \cup {c}
    <2>1. \A x \in Int : x \in 1..(m + 1) <=> x \in 1..m \/ x = m + 1
      OBVIOUS
    <2>2. 1..(m + 1) \subseteq Int /\ 1..m \subseteq Int /\ m + 1 \in Int
      OBVIOUS
    <2>3. QED
      BY <1>1, <2>1, <2>2
  <1>5. \A f \in [S \cup {c} -> Int], g \in [S -> Int] :
          (\A i \in S : f[i] = g[i]) =>
            /\ SumFunction(f) = SumFunction(g) + f[c]
            /\ SumFunction(g) \in Int /\ f[c] \in Int
    BY <1>2, <1>3, SumAppend, SumType
  <1>6. QED
    BY <1>1, <1>4, <1>5

\* Dropping the first position and moving the others down takes the first
\* value off the sum.
LEMMA SumTail ==
    ASSUME NEW n \in Nat, NEW h \in [1..(n + 1) -> Int], NEW t \in [1..n -> Int],
           \A i \in 1..n : t[i] = h[i + 1]
    PROVE  SumFunction(h) = h[1] + SumFunction(t)
  <1> DEFINE Holds(m) == \A f \in [1..(m + 1) -> Int] : \A g \in [1..m -> Int] :
                            (\A i \in 1..m : g[i] = f[i + 1])
                              => SumFunction(f) = f[1] + SumFunction(g)
             N == {m \in Nat : Holds(m)}
  <1>1. \A m \in Nat : IsFiniteSet(1..m)
    BY FS_Interval
  <1>2. Holds(0)
    <2>1. SUFFICES ASSUME NEW f \in [1..(0 + 1) -> Int], NEW g \in [1..0 -> Int]
                   PROVE  SumFunction(f) = f[1] + SumFunction(g)
      OBVIOUS
    <2>2. 0 \in Nat /\ 0 + 1 = 1 /\ \A i \in 1..0 : f[i] = g[i]
      OBVIOUS
    <2>3. /\ SumFunction(f) = SumFunction(g) + f[0 + 1]
          /\ SumFunction(g) \in Int /\ f[0 + 1] \in Int
      BY <2>2, SumLast, Zenon
    <2>4. QED
      BY <2>2, <2>3
  <1>3. ASSUME NEW m \in Nat, Holds(m) PROVE Holds(m + 1)
    <2>1. SUFFICES ASSUME NEW f \in [1..((m + 1) + 1) -> Int], NEW g \in [1..(m + 1) -> Int],
                          \A i \in 1..(m + 1) : g[i] = f[i + 1]
                   PROVE  SumFunction(f) = f[1] + SumFunction(g)
      OBVIOUS
    <2> DEFINE a == [i \in 1..(m + 1) |-> f[i]]
               b == [i \in 1..m |-> g[i]]
    <2>2. /\ a \in [1..(m + 1) -> Int] /\ b \in [1..m -> Int]
          /\ \A i \in 1..m : b[i] = a[i + 1]
          /\ a[1] = f[1]
          /\ \A i \in 1..(m + 1) : f[i] = a[i]
          /\ \A i \in 1..m : g[i] = b[i]
      <3>1. \A i \in 1..m : i \in 1..(m + 1) /\ i + 1 \in 1..(m + 1)
        OBVIOUS
      <3>2. \A i \in 1..(m + 1) : i \in 1..((m + 1) + 1)
        OBVIOUS
      <3>3. QED
        BY <2>1, <3>1, <3>2
    <2> HIDE DEF a, b
    <2>3. SumFunction(a) = a[1] + SumFunction(b)
      BY <1>3, <2>2
    <2>4. m + 1 \in Nat /\ (m + 1) + 1 = m + 2
      OBVIOUS
    <2>5. /\ SumFunction(f) = SumFunction(a) + f[m + 2]
          /\ SumFunction(g) = SumFunction(b) + g[m + 1]
      <3>1. SumFunction(f) = SumFunction(a) + f[(m + 1) + 1]
        BY <2>2, <2>4, SumLast
      <3>2. SumFunction(g) = SumFunction(b) + g[m + 1]
        BY <2>2, SumLast
      <3>3. QED
        BY <3>1, <3>2, <2>4
    <2>6. /\ g[m + 1] = f[m + 2] /\ f[m + 2] \in Int /\ f[1] \in Int
          /\ SumFunction(b) \in Int
      <3>1. m + 1 \in 1..(m + 1) /\ (m + 1) + 1 = m + 2 /\ m + 2 \in 1..((m + 1) + 1)
            /\ 1 \in 1..((m + 1) + 1)
        OBVIOUS
      <3>2. g[m + 1] = f[m + 2] /\ f[m + 2] \in Int /\ f[1] \in Int
        BY <2>1, <3>1
      <3>3. QED
        BY <3>2, <1>1, <2>2, SumType
    <2>7. QED
      BY <2>2, <2>3, <2>5, <2>6
  <1> HIDE DEF Holds
  <1>4. 0 \in N /\ \A m \in Nat : m \in N => m + 1 \in N
    BY <1>2, <1>3
  <1> HIDE DEF N
  <1>5. n \in N
    BY <1>4, NatSetInduction
  <1>6. Holds(n)
    BY <1>5 DEF N
  <1>7. QED
    BY <1>6 DEF Holds

\* Changing the values at two arguments.
LEMMA SumChangeTwo ==
    ASSUME NEW S, IsFiniteSet(S), NEW f \in [S -> Int], NEW g \in [S -> Int],
           NEW c \in S, NEW d \in S, c # d, \A x \in S \ {c, d} : g[x] = f[x]
    PROVE  SumFunction(g) = SumFunction(f) - f[c] + g[c] - f[d] + g[d]
  <1> DEFINE h == [f EXCEPT ![c] = g[c]]
  <1>1. /\ h \in [S -> Int] /\ h[c] = g[c] /\ h[d] = f[d]
        /\ \A x \in S \ {c} : h[x] = f[x]
        /\ \A x \in S \ {d} : g[x] = h[x]
    OBVIOUS
  <1>2. f[c] \in Int /\ g[c] \in Int /\ f[d] \in Int /\ g[d] \in Int
    OBVIOUS
  <1> HIDE DEF h
  <1>3. SumFunction(h) = SumFunction(f) - f[c] + h[c]
    BY <1>1, SumChange
  <1>4. SumFunction(g) = SumFunction(h) - h[d] + g[d]
    BY <1>1, SumChange
  <1>5. SumFunction(f) \in Int
    BY SumType
  <1>6. QED
    BY <1>1, <1>2, <1>3, <1>4, <1>5

-----------------------------------------------------------------------------
(* Sums over sequences *)

\* The weights w of the elements of a sequence, added up.
SeqSum(s, w) == SumFunction([i \in 1..Len(s) |-> w[s[i]]])

\* The sum over an empty sequence, over one that grows at its end, and over one
\* that loses its head.
LEMMA SeqSumOperations ==
    ASSUME NEW F, NEW w \in [F -> Nat], NEW s \in Seq(F)
    PROVE  /\ SeqSum(s, w) \in Nat
           /\ s = <<>> => SeqSum(s, w) = 0
           /\ \A x \in F : SeqSum(Append(s, x), w) = SeqSum(s, w) + w[x]
           /\ s # <<>> => SeqSum(s, w) = w[Head(s)] + SeqSum(Tail(s), w)
  <1> DEFINE v(q) == [i \in 1..Len(q) |-> w[q[i]]]
  <1>1. \A q : SeqSum(q, w) = SumFunction(v(q))
    BY DEF SeqSum
  <1>2. \A q \in Seq(F) : /\ Len(q) \in Nat /\ v(q) \in [1..Len(q) -> Nat]
                          /\ v(q) \in [1..Len(q) -> Int]
                          /\ IsFiniteSet(1..Len(q))
    <2>1. \A q \in Seq(F) : Len(q) \in Nat /\ \A i \in 1..Len(q) : q[i] \in F
      OBVIOUS
    <2>2. \A q \in Seq(F) : \A i \in 1..Len(q) : w[q[i]] \in Nat
      BY <2>1
    <2>3. \A q \in Seq(F) : v(q) \in [1..Len(q) -> Nat] /\ v(q) \in [1..Len(q) -> Int]
      BY <2>2
    <2>4. \A q \in Seq(F) : IsFiniteSet(1..Len(q))
      BY <2>1, FS_Interval
    <2> HIDE DEF v
    <2>5. QED
      BY <2>1, <2>3, <2>4
  <1>3. SeqSum(s, w) \in Nat
    <2> HIDE DEF v
    <2>1. QED
      BY <1>1, <1>2, SumNat
  <1>4. ASSUME s = <<>> PROVE SeqSum(s, w) = 0
    <2>1. Len(s) = 0 /\ 1..0 = {}
      BY <1>4
    <2> HIDE DEF v
    <2>2. SumFunction(v(s)) = 0
      BY <1>2, <2>1, SumType
    <2>3. QED
      BY <1>1, <2>2
  <1>5. ASSUME NEW x \in F PROVE SeqSum(Append(s, x), w) = SeqSum(s, w) + w[x]
    <2> DEFINE q == Append(s, x)
    <2>1. /\ q \in Seq(F) /\ Len(q) = Len(s) + 1 /\ q[Len(s) + 1] = x
          /\ \A i \in 1..Len(s) : q[i] = s[i]
      OBVIOUS
    <2> HIDE DEF q
    <2>2. /\ \A i \in 1..Len(s) : v(q)[i] = v(s)[i]
          /\ v(q)[Len(s) + 1] = w[x]
      BY <1>2, <2>1
    <2>3. v(q) \in [1..(Len(s) + 1) -> Int] /\ v(s) \in [1..Len(s) -> Int] /\ Len(s) \in Nat
      <3> HIDE DEF v
      <3>1. QED
        BY <1>2, <2>1
    <2> HIDE DEF v
    <2>4. SumFunction(v(q)) = SumFunction(v(s)) + v(q)[Len(s) + 1]
      BY <2>2, <2>3, SumLast
    <2>5. QED
      BY <1>1, <2>2, <2>4 DEF q
  <1>6. ASSUME s # <<>> PROVE SeqSum(s, w) = w[Head(s)] + SeqSum(Tail(s), w)
    <2> DEFINE q == Tail(s)
               n == Len(q)
    <2>1. /\ q \in Seq(F) /\ n \in Nat /\ Len(s) = n + 1 /\ s[1] = Head(s)
          /\ \A i \in 1..n : q[i] = s[i + 1]
      BY <1>6
    <2> HIDE DEF q
    <2>2. v(q) \in [1..n -> Int] /\ v(s) \in [1..(n + 1) -> Int]
      <3> HIDE DEF v
      <3>1. QED
        BY <1>2, <2>1
    <2>3. /\ \A i \in 1..n : v(q)[i] = v(s)[i + 1]
          /\ v(s)[1] = w[Head(s)]
      <3>1. \A i \in 1..n : i + 1 \in 1..Len(s)
        BY <2>1
      <3>2. 1 \in 1..Len(s)
        BY <2>1
      <3>3. QED
        BY <2>1, <2>2, <3>1, <3>2
    <2> HIDE DEF v
    <2>4. SumFunction(v(s)) = v(s)[1] + SumFunction(v(q))
      BY <2>1, <2>2, <2>3, SumTail
    <2>5. QED
      BY <1>1, <2>3, <2>4 DEF q
  <1>7. QED
    BY <1>3, <1>4, <1>5, <1>6
=============================================================================
