--------------------------------- MODULE Sums ---------------------------------
(***************************************************************************)
(* What proofs need of SumFunctionOnSet, the sum of a function's values    *)
(* over a finite set: that it is what one element adds to the sum of the   *)
(* rest, whichever element that is.                                        *)
(***************************************************************************)
EXTENDS Integers, Functions, FiniteSetTheorems, TLAPS

-----------------------------------------------------------------------------
(* Induction, for a set in place of a predicate. *)

\* A set of numbers that has 0 and every successor has all of them.
LEMMA NaturalsFromZero ==
    ASSUME NEW S, 0 \in S, \A n \in Nat : n \in S => n + 1 \in S
    PROVE  Nat \subseteq S
<1>1. SUFFICES ASSUME Nat \ S # {} PROVE FALSE
  OBVIOUS
<1>2. IsWellFoundedOn(OpToRel(<, Nat), Nat)
  BY NatLessThanWellFounded
<1>3. \E n \in Nat \ S : \A m \in Nat \ S : ~ (<<m, n>> \in OpToRel(<, Nat))
  BY <1>1, <1>2, WFMin
<1>4. \A m, n \in Nat : m < n => <<m, n>> \in OpToRel(<, Nat)
  BY DEF OpToRel
<1>5. \E n \in Nat \ S : \A m \in Nat \ S : ~ (m < n)
  BY <1>3, <1>4, Zenon
<1>6. PICK n \in Nat \ S : \A m \in Nat \ S : ~ (m < n)
  BY <1>5
<1>7. n # 0 /\ n - 1 \in Nat /\ n - 1 < n /\ n = (n - 1) + 1
  BY <1>6
<1>8. n - 1 \in S
  BY <1>6, <1>7
<1>9. QED
  BY <1>6, <1>7, <1>8

-----------------------------------------------------------------------------
(* The recursion a sum unfolds to, over any family of sets closed under    *)
(* taking the first element away.                                          *)

First(s) == CHOOSE x \in s : TRUE

SumStep(F, g, s) == IF s = {} THEN 0 ELSE F[First(s)] + g[s \ {First(s)}]

\* g sums F over every set of D.
Sums(F, g, D) == g = [s \in D |-> SumStep(F, g, s)]

UpTo(U, n) == {s \in SUBSET U : Cardinality(s) <= n}

\* The sum unfolds to the recursive function of its definition.
LEMMA SumUnfolds ==
    ASSUME NEW F, NEW S
    PROVE  SumFunctionOnSet(F, S) = (CHOOSE g : Sums(F, g, SUBSET S))[S]
  BY DEF SumFunctionOnSet, FoldFunctionOnSet, MapThenFoldSet, Sums, SumStep, First

\* The first element of a set is one of it, and the rest has one element less.
LEMMA FirstLeaves ==
    ASSUME NEW U, IsFiniteSet(U), NEW s \in SUBSET U, s # {}
    PROVE  /\ First(s) \in s
           /\ \A x \in s : /\ s \ {x} \in SUBSET U
                           /\ Cardinality(s) \in Nat
                           /\ Cardinality(s \ {x}) \in Nat
                           /\ Cardinality(s \ {x}) + 1 = Cardinality(s)
<1>1. First(s) \in s
  BY DEF First
<1>2. IsFiniteSet(s)
  BY FS_Subset
<1>3. ASSUME NEW x \in s
      PROVE  /\ Cardinality(s) \in Nat
             /\ Cardinality(s \ {x}) \in Nat
             /\ Cardinality(s \ {x}) + 1 = Cardinality(s)
  <2>1. IsFiniteSet(s \ {x}) /\ Cardinality(s \ {x}) = Cardinality(s) - 1
    BY <1>2, FS_RemoveElement
  <2>2. Cardinality(s) \in Nat /\ Cardinality(s \ {x}) \in Nat
    BY <1>2, <2>1, FS_CardinalityType
  <2>3. QED
    BY <2>1, <2>2
<1>4. QED
  BY <1>1, <1>3

\* The recursion has a solution over the sets of at most n elements.
LEMMA SumsUpTo ==
    ASSUME NEW F, NEW U, IsFiniteSet(U)
    PROVE  \A n \in Nat : \E g : Sums(F, g, UpTo(U, n))
<1> DEFINE P == {n \in Nat : \E g : Sums(F, g, UpTo(U, n))}
<1>1. 0 \in P
  <2> DEFINE g == [s \in UpTo(U, 0) |-> 0]
  <2>1. ASSUME NEW s \in UpTo(U, 0) PROVE s = {}
    <3>1. s \in SUBSET U /\ Cardinality(s) <= 0
      BY DEF UpTo
    <3>2. IsFiniteSet(s)
      BY <3>1, FS_Subset
    <3>3. Cardinality(s) = 0
      BY <3>1, <3>2, FS_CardinalityType
    <3>4. QED
      BY <3>2, <3>3, FS_EmptySet
  <2>2. Sums(F, g, UpTo(U, 0))
    BY <2>1 DEF Sums, SumStep
  <2>3. QED
    BY <2>2
<1>2. ASSUME NEW n \in Nat, n \in P PROVE n + 1 \in P
  <2>1. PICK g : Sums(F, g, UpTo(U, n))
    BY <1>2
  <2> DEFINE h == [s \in UpTo(U, n + 1) |-> SumStep(F, g, s)]
  <2>2. ASSUME NEW s \in UpTo(U, n + 1) PROVE h[s] = SumStep(F, h, s)
    <3>1. CASE s = {}
      BY <3>1 DEF SumStep
    <3>2. CASE s # {}
      <4> DEFINE t == s \ {First(s)}
      <4>1. s \in SUBSET U /\ Cardinality(s) <= n + 1
        BY DEF UpTo
      <4>2. t \in SUBSET U /\ Cardinality(t) <= n
        BY <3>2, <4>1, FirstLeaves
      <4>3. t \in UpTo(U, n) /\ t \in UpTo(U, n + 1)
        BY <4>2, FS_CardinalityType, FS_Subset DEF UpTo
      <4>4. g[t] = SumStep(F, g, t)
        BY <2>1, <4>3 DEF Sums
      <4>5. h[t] = g[t]
        BY <4>3, <4>4
      <4>6. QED
        BY <3>2, <4>5 DEF SumStep
    <3>3. QED
      BY <3>1, <3>2
  <2>3. Sums(F, h, UpTo(U, n + 1))
    BY <2>2 DEF Sums
  <2>4. QED
    BY <2>3
<1>3. QED
  BY <1>1, <1>2, NaturalsFromZero

\* It has one over every subset of a finite set.
LEMMA SumsExist ==
    ASSUME NEW F, NEW U, IsFiniteSet(U)
    PROVE  \E g : Sums(F, g, SUBSET U)
<1>1. Cardinality(U) \in Nat
  BY FS_CardinalityType
<1>2. ASSUME NEW s \in SUBSET U PROVE Cardinality(s) <= Cardinality(U)
  BY FS_Subset
<1>3. UpTo(U, Cardinality(U)) = SUBSET U
  BY <1>2 DEF UpTo
<1>4. PICK g : Sums(F, g, UpTo(U, Cardinality(U)))
  BY <1>1, SumsUpTo
<1>5. QED
  BY <1>3, <1>4, Zenon

\* Two solutions agree wherever both are defined.
LEMMA SumsAgree ==
    ASSUME NEW F, NEW U, IsFiniteSet(U), NEW S \in SUBSET U, NEW g, NEW h,
           Sums(F, g, SUBSET U), Sums(F, h, SUBSET S)
    PROVE  g[S] = h[S]
<1> DEFINE P == {n \in Nat : \A s \in SUBSET S : Cardinality(s) = n => g[s] = h[s]}
<1>0. \A s \in SUBSET S : g[s] = SumStep(F, g, s) /\ h[s] = SumStep(F, h, s)
  BY DEF Sums
<1>1. 0 \in P
  <2>1. ASSUME NEW s \in SUBSET S, Cardinality(s) = 0 PROVE g[s] = h[s]
    <3>1. IsFiniteSet(s)
      BY FS_Subset
    <3>2. s = {}
      BY <2>1, <3>1, FS_EmptySet
    <3>3. QED
      BY <1>0, <3>2 DEF SumStep
  <2>2. QED
    BY <2>1
<1>2. ASSUME NEW n \in Nat, n \in P PROVE n + 1 \in P
  <2>1. ASSUME NEW s \in SUBSET S, Cardinality(s) = n + 1 PROVE g[s] = h[s]
    <3>1. CASE s = {}
      BY <1>0, <3>1 DEF SumStep
    <3>2. CASE s # {}
      <4> DEFINE t == s \ {First(s)}
      <4>1. IsFiniteSet(S)
        BY FS_Subset
      <4>2. t \in SUBSET S /\ Cardinality(t) = n
        BY <2>1, <3>2, <4>1, FirstLeaves
      <4>3. g[t] = h[t]
        BY <1>2, <4>2
      <4>4. QED
        BY <1>0, <3>2, <4>3 DEF SumStep
    <3>3. QED
      BY <3>1, <3>2
  <2>2. QED
    BY <2>1
<1>3. Nat \subseteq P
  BY <1>1, <1>2, NaturalsFromZero
<1>4. \A s \in SUBSET S : Cardinality(s) \in Nat
  BY FS_Subset, FS_CardinalityType
<1>5. \A s \in SUBSET S : g[s] = h[s]
  BY <1>3, <1>4
<1>6. QED
  BY <1>5

\* One solution gives the sum over every subset.
LEMMA SumSolves ==
    ASSUME NEW F, NEW U, IsFiniteSet(U), NEW g, Sums(F, g, SUBSET U), NEW S \in SUBSET U
    PROVE  SumFunctionOnSet(F, S) = g[S]
<1>1. ASSUME NEW h, Sums(F, h, SUBSET S) PROVE h[S] = g[S]
  BY <1>1, SumsAgree
<1>2. IsFiniteSet(S)
  BY FS_Subset
<1>3. \E h : Sums(F, h, SUBSET S)
  BY <1>2, SumsExist, Zenon
<1>4. Sums(F, CHOOSE h : Sums(F, h, SUBSET S), SUBSET S)
  BY <1>3, Zenon
<1>5. QED
  BY <1>1, <1>4, SumUnfolds, Zenon

-----------------------------------------------------------------------------
(* What a sum of whole numbers is. *)

\* The sum over no element is 0.
LEMMA SumEmpty ==
    ASSUME NEW F
    PROVE  SumFunctionOnSet(F, {}) = 0
<1>1. IsFiniteSet({})
  BY FS_EmptySet
<1>2. PICK g : Sums(F, g, SUBSET {})
  BY <1>1, SumsExist
<1>3. g[{}] = 0
  BY <1>2 DEF Sums, SumStep
<1>4. SumFunctionOnSet(F, {}) = g[{}]
  BY <1>1, <1>2, SumSolves
<1>5. QED
  BY <1>3, <1>4

\* Whole numbers sum to one, and naturals to one: the invariant of the
\* recursion, for any set of numbers that has 0 and is closed under adding.
LEMMA SumsWithin ==
    ASSUME NEW U, IsFiniteSet(U), NEW K, NEW F \in [U -> K], NEW g, Sums(F, g, SUBSET U),
           0 \in K, \A a, b \in K : a + b \in K
    PROVE  \A s \in SUBSET U : g[s] \in K
<1> DEFINE P == {n \in Nat : \A s \in SUBSET U : Cardinality(s) = n => g[s] \in K}
<1>0. \A s \in SUBSET U : g[s] = SumStep(F, g, s)
  BY DEF Sums
<1>1. 0 \in P
  <2>1. ASSUME NEW s \in SUBSET U, Cardinality(s) = 0 PROVE g[s] \in K
    <3>1. IsFiniteSet(s)
      BY FS_Subset
    <3>2. s = {}
      BY <2>1, <3>1, FS_EmptySet
    <3>3. QED
      BY <1>0, <3>2 DEF SumStep
  <2>2. QED
    BY <2>1
<1>2. ASSUME NEW n \in Nat, n \in P PROVE n + 1 \in P
  <2>1. ASSUME NEW s \in SUBSET U, Cardinality(s) = n + 1 PROVE g[s] \in K
    <3>1. CASE s = {}
      BY <1>0, <3>1 DEF SumStep
    <3>2. CASE s # {}
      <4> DEFINE t == s \ {First(s)}
      <4>1. First(s) \in U /\ t \in SUBSET U /\ Cardinality(t) = n
        BY <2>1, <3>2, FirstLeaves
      <4>2. g[t] \in K
        BY <1>2, <4>1
      <4>3. F[First(s)] \in K
        BY <4>1
      <4>4. g[s] = F[First(s)] + g[t]
        BY <1>0, <3>2 DEF SumStep
      <4>5. QED
        BY <4>2, <4>3, <4>4
    <3>3. QED
      BY <3>1, <3>2
  <2>2. QED
    BY <2>1
<1>3. Nat \subseteq P
  BY <1>1, <1>2, NaturalsFromZero
<1>4. \A s \in SUBSET U : Cardinality(s) \in Nat
  BY FS_Subset, FS_CardinalityType
<1>5. QED
  BY <1>3, <1>4

\* Any element of a set can be the first.
LEMMA SumsTakeAny ==
    ASSUME NEW U, IsFiniteSet(U), NEW F \in [U -> Int], NEW g, Sums(F, g, SUBSET U),
           NEW T \in SUBSET U, NEW z \in T
    PROVE  g[T] = F[z] + g[T \ {z}]
<1> DEFINE P == {n \in Nat : \A s \in SUBSET U : \A y \in s :
                                Cardinality(s) = n => g[s] = F[y] + g[s \ {y}]}
<1>0. \A s \in SUBSET U : g[s] = SumStep(F, g, s) /\ g[s] \in Int
  <2>1. 0 \in Int /\ \A a, b \in Int : a + b \in Int
    OBVIOUS
  <2>2. \A s \in SUBSET U : g[s] \in Int
    BY <2>1, SumsWithin, ZenonT(30)
  <2>3. QED
    BY <2>2 DEF Sums
<1>1. 0 \in P
  <2>1. ASSUME NEW s \in SUBSET U, NEW y \in s PROVE Cardinality(s) # 0
    <3>1. s # {}
      OBVIOUS
    <3>2. Cardinality(s \ {y}) \in Nat /\ Cardinality(s \ {y}) + 1 = Cardinality(s)
      BY <3>1, FirstLeaves
    <3>3. QED
      BY <3>2
  <2>2. QED
    BY <2>1
<1>2. ASSUME NEW n \in Nat, n \in P PROVE n + 1 \in P
  <2>1. ASSUME NEW s \in SUBSET U, NEW y \in s, Cardinality(s) = n + 1
        PROVE  g[s] = F[y] + g[s \ {y}]
    <3> DEFINE x == First(s)
               sx == s \ {x}
               sy == s \ {y}
               sxy == sx \ {y}
    <3>1. x \in s /\ Cardinality(sx) = n /\ Cardinality(sy) = n
      BY <2>1, FirstLeaves
    <3>2. g[s] = F[x] + g[sx]
      BY <1>0, <2>1 DEF SumStep
    <3>3. CASE x = y
      BY <3>2, <3>3
    <3>4. CASE x # y
      <4>1. y \in sx /\ x \in sy /\ sy \ {x} = sxy
        BY <3>1, <3>4
      <4>2. g[sx] = F[y] + g[sxy]
        BY <1>2, <3>1, <4>1
      <4>3. g[sy] = F[x] + g[sxy]
        <5>1. g[sy] = F[x] + g[sy \ {x}]
          BY <1>2, <3>1, <4>1
        <5>2. QED
          BY <4>1, <5>1
      <4>4. F[x] \in Int /\ F[y] \in Int /\ g[sxy] \in Int
        BY <1>0, <3>1
      <4>5. QED
        BY <3>2, <4>2, <4>3, <4>4
    <3>5. QED
      BY <3>3, <3>4
  <2>2. QED
    BY <2>1
<1>3. Nat \subseteq P
  BY <1>1, <1>2, NaturalsFromZero
<1>4. \A s \in SUBSET U : Cardinality(s) \in Nat
  BY FS_Subset, FS_CardinalityType
<1>5. QED
  BY <1>3, <1>4

\* One element more adds its value to the sum.
THEOREM SumInsert ==
    ASSUME NEW U, IsFiniteSet(U), NEW F \in [U -> Int], NEW S \in SUBSET U, NEW y \in U \ S
    PROVE  SumFunctionOnSet(F, S \cup {y}) = F[y] + SumFunctionOnSet(F, S)
<1>1. PICK g : Sums(F, g, SUBSET U)
  BY SumsExist
<1> DEFINE T == S \cup {y}
<1>2. T \in SUBSET U /\ y \in T /\ T \ {y} = S
  OBVIOUS
<1>3. ASSUME NEW s \in SUBSET U, NEW z \in s PROVE g[s] = F[z] + g[s \ {z}]
  BY <1>1, SumsTakeAny
<1>4. g[T] = F[y] + g[S]
  BY <1>2, <1>3
<1>5. SumFunctionOnSet(F, T) = g[T] /\ SumFunctionOnSet(F, S) = g[S]
  BY <1>1, <1>2, SumSolves
<1>6. QED
  BY <1>4, <1>5

\* A sum of whole numbers is one.
LEMMA SumInt ==
    ASSUME NEW U, IsFiniteSet(U), NEW F \in [U -> Int], NEW S \in SUBSET U
    PROVE  SumFunctionOnSet(F, S) \in Int
<1>1. PICK g : Sums(F, g, SUBSET U)
  BY SumsExist
<1>2. 0 \in Int /\ \A a, b \in Int : a + b \in Int
  OBVIOUS
<1>3. g[S] \in Int
  BY <1>1, <1>2, SumsWithin, ZenonT(30)
<1>4. QED
  BY <1>1, <1>3, SumSolves

\* A sum of naturals is one.
LEMMA SumNat ==
    ASSUME NEW U, IsFiniteSet(U), NEW F \in [U -> Nat], NEW S \in SUBSET U
    PROVE  SumFunctionOnSet(F, S) \in Nat
<1>1. PICK g : Sums(F, g, SUBSET U)
  BY SumsExist
<1>2. 0 \in Nat /\ \A a, b \in Nat : a + b \in Nat
  OBVIOUS
<1>3. g[S] \in Nat
  BY <1>1, <1>2, SumsWithin, ZenonT(30)
<1>4. QED
  BY <1>1, <1>3, SumSolves

\* One element less takes its value from the sum.
LEMMA SumRemove ==
    ASSUME NEW U, IsFiniteSet(U), NEW F \in [U -> Int], NEW S \in SUBSET U, NEW y \in S
    PROVE  SumFunctionOnSet(F, S) = F[y] + SumFunctionOnSet(F, S \ {y})
<1>1. S \ {y} \in SUBSET U /\ y \in U \ (S \ {y}) /\ (S \ {y}) \cup {y} = S
  OBVIOUS
<1>2. ASSUME NEW T \in SUBSET U, y \in U \ T
      PROVE  SumFunctionOnSet(F, T \cup {y}) = F[y] + SumFunctionOnSet(F, T)
  BY <1>2, SumInsert
<1>3. QED
  BY <1>1, <1>2

-----------------------------------------------------------------------------
(* Two sums compared. *)

\* Induction over the subsets of a finite set.
LEMMA SubsetsFromEmpty ==
    ASSUME NEW U, IsFiniteSet(U), NEW P, {} \in P,
           \A s \in SUBSET U : \A x \in U \ s : s \in P => s \cup {x} \in P
    PROVE  SUBSET U \subseteq P
<1> DEFINE N == {n \in Nat : \A s \in SUBSET U : Cardinality(s) = n => s \in P}
<1>1. 0 \in N
  <2>1. ASSUME NEW s \in SUBSET U, Cardinality(s) = 0 PROVE s = {}
    <3>1. IsFiniteSet(s)
      BY FS_Subset
    <3>2. QED
      BY <2>1, <3>1, FS_EmptySet
  <2>2. QED
    BY <2>1
<1>2. ASSUME NEW n \in Nat, n \in N PROVE n + 1 \in N
  <2>1. ASSUME NEW s \in SUBSET U, Cardinality(s) = n + 1 PROVE s \in P
    <3>1. CASE s = {}
      BY <3>1
    <3>2. CASE s # {}
      <4>1. PICK x : x \in s
        BY <3>2
      <4>2. Cardinality(s \ {x}) = n
        BY <2>1, <3>2, <4>1, FirstLeaves
      <4>3. s \ {x} \in P /\ s \ {x} \in SUBSET U /\ x \in U \ (s \ {x})
        BY <1>2, <4>1, <4>2
      <4>4. (s \ {x}) \cup {x} = s
        BY <4>1
      <4>5. (s \ {x}) \cup {x} \in P
        BY <4>3
      <4>6. QED
        BY <4>4, <4>5
    <3>3. QED
      BY <3>1, <3>2
  <2>2. QED
    BY <2>1
<1>3. Nat \subseteq N
  BY <1>1, <1>2, NaturalsFromZero
<1>4. \A s \in SUBSET U : Cardinality(s) \in Nat
  BY FS_Subset, FS_CardinalityType
<1>5. QED
  BY <1>3, <1>4

\* Values no larger make no larger sum.
LEMMA SumAtMost ==
    ASSUME NEW U, IsFiniteSet(U), NEW F \in [U -> Int], NEW G \in [U -> Int],
           NEW S \in SUBSET U, \A x \in S : F[x] <= G[x]
    PROVE  SumFunctionOnSet(F, S) <= SumFunctionOnSet(G, S)
<1> DEFINE P == {s \in SUBSET U : s \subseteq S => SumFunctionOnSet(F, s) <= SumFunctionOnSet(G, s)}
<1>1. {} \in P
  <2>1. SumFunctionOnSet(F, {}) = 0 /\ SumFunctionOnSet(G, {}) = 0
    BY SumEmpty
  <2>2. QED
    BY <2>1
<1>2. ASSUME NEW s \in SUBSET U, NEW x \in U \ s, s \in P PROVE s \cup {x} \in P
  <2>1. /\ SumFunctionOnSet(F, s \cup {x}) = F[x] + SumFunctionOnSet(F, s)
        /\ SumFunctionOnSet(G, s \cup {x}) = G[x] + SumFunctionOnSet(G, s)
    BY SumInsert
  <2>2. SumFunctionOnSet(F, s) \in Int /\ SumFunctionOnSet(G, s) \in Int
    BY SumInt
  <2>3. F[x] \in Int /\ G[x] \in Int
    OBVIOUS
  <2>4. s \cup {x} \subseteq S => F[x] <= G[x] /\ SumFunctionOnSet(F, s) <= SumFunctionOnSet(G, s)
    BY <1>2
  <2>5. QED
    BY <2>1, <2>2, <2>3, <2>4
<1>3. {} \in P /\ \A s \in SUBSET U : \A x \in U \ s : s \in P => s \cup {x} \in P
  BY <1>1, <1>2
<1> HIDE DEF P
<1>4. SUBSET U \subseteq P
  BY <1>3, SubsetsFromEmpty
<1>5. QED
  BY <1>4 DEF P

\* Equal values make equal sums.
LEMMA SumSame ==
    ASSUME NEW U, IsFiniteSet(U), NEW F \in [U -> Int], NEW G \in [U -> Int],
           NEW S \in SUBSET U, \A x \in S : F[x] = G[x]
    PROVE  SumFunctionOnSet(F, S) = SumFunctionOnSet(G, S)
<1>1. \A x \in S : F[x] <= G[x] /\ G[x] <= F[x]
  OBVIOUS
<1>2. SumFunctionOnSet(F, S) <= SumFunctionOnSet(G, S)
  BY <1>1, SumAtMost
<1>3. SumFunctionOnSet(G, S) <= SumFunctionOnSet(F, S)
  BY <1>1, SumAtMost
<1>4. SumFunctionOnSet(F, S) \in Int /\ SumFunctionOnSet(G, S) \in Int
  BY SumInt
<1>5. QED
  BY <1>2, <1>3, <1>4

\* A set and a set apart from it sum to the sum over both.
LEMMA SumDisjoint ==
    ASSUME NEW U, IsFiniteSet(U), NEW F \in [U -> Int],
           NEW S \in SUBSET U, NEW T \in SUBSET U, S \cap T = {}
    PROVE  SumFunctionOnSet(F, S \cup T) = SumFunctionOnSet(F, S) + SumFunctionOnSet(F, T)
<1> DEFINE Good(s) == SumFunctionOnSet(F, S \cup s) = SumFunctionOnSet(F, S) + SumFunctionOnSet(F, s)
           P == {s \in SUBSET U : s \subseteq T => Good(s)}
<1>0. \A s \in SUBSET U : SumFunctionOnSet(F, s) \in Int
  BY SumInt
<1>1. {} \in P
  <2>1. SumFunctionOnSet(F, {}) = 0
    BY SumEmpty
  <2>2. S \cup {} = S
    OBVIOUS
  <2>3. QED
    BY <1>0, <2>1, <2>2
<1>2. ASSUME NEW s \in SUBSET U, NEW x \in U \ s, s \in P PROVE s \cup {x} \in P
  <2>1. SUFFICES ASSUME s \cup {x} \subseteq T PROVE Good(s \cup {x})
    OBVIOUS
  <2>2. SumFunctionOnSet(F, s \cup {x}) = F[x] + SumFunctionOnSet(F, s)
    BY SumInsert
  <2>3. S \cup s \in SUBSET U /\ x \in U \ (S \cup s) /\ (S \cup s) \cup {x} = S \cup (s \cup {x})
    BY <2>1
  <2>4. SumFunctionOnSet(F, S \cup (s \cup {x})) = F[x] + SumFunctionOnSet(F, S \cup s)
    <3>1. ASSUME NEW t \in SUBSET U, x \in U \ t
          PROVE  SumFunctionOnSet(F, t \cup {x}) = F[x] + SumFunctionOnSet(F, t)
      BY <3>1, SumInsert
    <3>2. QED
      BY <2>3, <3>1
  <2>5. Good(s)
    BY <1>2, <2>1
  <2>6. QED
    BY <1>0, <2>2, <2>3, <2>4, <2>5
<1>3. {} \in P /\ \A s \in SUBSET U : \A x \in U \ s : s \in P => s \cup {x} \in P
  BY <1>1, <1>2
<1> HIDE DEF P
<1>4. SUBSET U \subseteq P
  BY <1>3, SubsetsFromEmpty
<1>5. QED
  BY <1>4 DEF P

\* Fewer elements with nothing negative among the others make no larger sum.
LEMMA SumSubset ==
    ASSUME NEW U, IsFiniteSet(U), NEW F \in [U -> Int],
           NEW S \in SUBSET U, NEW T \in SUBSET S, \A x \in S \ T : F[x] >= 0
    PROVE  SumFunctionOnSet(F, T) <= SumFunctionOnSet(F, S)
<1> DEFINE Z == [x \in U |-> 0]
<1>1. Z \in [U -> Nat] /\ Z \in [U -> Int] /\ S \ T \in SUBSET U /\ T \in SUBSET U
  OBVIOUS
<1>2. \A x \in S \ T : Z[x] <= F[x]
  OBVIOUS
<1> HIDE DEF Z
<1>3. SumFunctionOnSet(Z, S \ T) <= SumFunctionOnSet(F, S \ T)
  BY <1>1, <1>2, SumAtMost
<1>4. SumFunctionOnSet(Z, S \ T) \in Nat
  BY <1>1, SumNat
<1>5. T \cap (S \ T) = {} /\ T \cup (S \ T) = S
  OBVIOUS
<1>6. SumFunctionOnSet(F, S) = SumFunctionOnSet(F, T) + SumFunctionOnSet(F, S \ T)
  <2>1. ASSUME NEW A \in SUBSET U, NEW B \in SUBSET U, A \cap B = {}
        PROVE  SumFunctionOnSet(F, A \cup B) = SumFunctionOnSet(F, A) + SumFunctionOnSet(F, B)
    BY <2>1, SumDisjoint
  <2>2. QED
    BY <1>1, <1>5, <2>1
<1>7. SumFunctionOnSet(F, T) \in Int /\ SumFunctionOnSet(F, S \ T) \in Int
  BY <1>1, SumInt
<1>8. QED
  BY <1>3, <1>4, <1>6, <1>7

-----------------------------------------------------------------------------
(* The sum over a part that moves, as a sum over the whole. *)

\* F where S is, and nothing elsewhere.
Part(F, S) == [x \in DOMAIN F |-> IF x \in S THEN F[x] ELSE 0]

LEMMA PartType ==
    ASSUME NEW U, NEW F \in [U -> Int], NEW S
    PROVE  /\ Part(F, S) \in [U -> Int]
           /\ \A x \in U : Part(F, S)[x] = IF x \in S THEN F[x] ELSE 0
  BY DEF Part

\* What is not in the part adds nothing.
LEMMA SumOfPart ==
    ASSUME NEW U, IsFiniteSet(U), NEW F \in [U -> Int], NEW S \in SUBSET U
    PROVE  SumFunctionOnSet(F, S) = SumFunctionOnSet(Part(F, S), U)
<1> DEFINE G == Part(F, S)
           Z == [x \in U |-> 0]
<1>1. G \in [U -> Int] /\ \A x \in U : G[x] = IF x \in S THEN F[x] ELSE 0
  BY PartType
<1>2. Z \in [U -> Int] /\ U \ S \in SUBSET U /\ \A x \in U : Z[x] = 0
  OBVIOUS
<1> HIDE DEF G, Z
<1>3. SumFunctionOnSet(F, S) = SumFunctionOnSet(G, S)
  BY <1>1, SumSame
<1>4. \A x \in U \ S : G[x] <= Z[x] /\ G[x] >= 0
  BY <1>1, <1>2
<1>5. SumFunctionOnSet(G, S) <= SumFunctionOnSet(G, U)
  <2>1. U \in SUBSET U /\ S \in SUBSET U
    OBVIOUS
  <2>2. ASSUME NEW A \in SUBSET U, NEW T \in SUBSET A, \A x \in A \ T : G[x] >= 0
        PROVE  SumFunctionOnSet(G, T) <= SumFunctionOnSet(G, A)
    BY <1>1, <2>2, SumSubset
  <2>3. QED
    BY <1>4, <2>1, <2>2
<1>6. SumFunctionOnSet(G, U \ S) = SumFunctionOnSet(Z, U \ S)
  BY <1>1, <1>2, SumSame
<1>7. SumFunctionOnSet(Z, U \ S) = 0
  <2> DEFINE P == {s \in SUBSET U : SumFunctionOnSet(Z, s) = 0}
  <2>1. {} \in P
    BY SumEmpty
  <2>2. ASSUME NEW s \in SUBSET U, NEW x \in U \ s, s \in P PROVE s \cup {x} \in P
    <3>1. SumFunctionOnSet(Z, s \cup {x}) = Z[x] + SumFunctionOnSet(Z, s)
      BY <1>2, SumInsert
    <3>2. QED
      BY <1>2, <2>2, <3>1
  <2>3. {} \in P /\ \A s \in SUBSET U : \A x \in U \ s : s \in P => s \cup {x} \in P
    BY <2>1, <2>2
  <2> HIDE DEF P
  <2>4. SUBSET U \subseteq P
    BY <2>3, SubsetsFromEmpty
  <2>5. QED
    BY <2>4 DEF P
<1>8. SumFunctionOnSet(G, U) = SumFunctionOnSet(G, S) + SumFunctionOnSet(G, U \ S)
  <2>1. ASSUME NEW A \in SUBSET U, NEW B \in SUBSET U, A \cap B = {}
        PROVE  SumFunctionOnSet(G, A \cup B) = SumFunctionOnSet(G, A) + SumFunctionOnSet(G, B)
    BY <1>1, <2>1, SumDisjoint
  <2>2. S \cap (U \ S) = {} /\ S \cup (U \ S) = U
    OBVIOUS
  <2>3. QED
    BY <1>2, <2>1, <2>2
<1>9. SumFunctionOnSet(G, S) \in Int
  BY <1>1, SumInt
<1>10. QED
  BY <1>3, <1>6, <1>7, <1>8, <1>9 DEF G

\* A sum moves by what one value moves.
LEMMA SumMoves ==
    ASSUME NEW U, IsFiniteSet(U), NEW F \in [U -> Int], NEW G \in [U -> Int],
           NEW y \in U, \A x \in U \ {y} : F[x] = G[x]
    PROVE  SumFunctionOnSet(G, U) = SumFunctionOnSet(F, U) - F[y] + G[y]
<1>1. U \ {y} \in SUBSET U /\ U \in SUBSET U
  OBVIOUS
<1>2. SumFunctionOnSet(F, U) = F[y] + SumFunctionOnSet(F, U \ {y})
  <2>1. ASSUME NEW S \in SUBSET U, y \in S
        PROVE  SumFunctionOnSet(F, S) = F[y] + SumFunctionOnSet(F, S \ {y})
    BY <2>1, SumRemove
  <2>2. QED
    BY <1>1, <2>1
<1>3. SumFunctionOnSet(G, U) = G[y] + SumFunctionOnSet(G, U \ {y})
  <2>1. ASSUME NEW S \in SUBSET U, y \in S
        PROVE  SumFunctionOnSet(G, S) = G[y] + SumFunctionOnSet(G, S \ {y})
    BY <2>1, SumRemove
  <2>2. QED
    BY <1>1, <2>1
<1>4. SumFunctionOnSet(F, U \ {y}) = SumFunctionOnSet(G, U \ {y})
  <2>1. ASSUME NEW S \in SUBSET U, \A x \in S : F[x] = G[x]
        PROVE  SumFunctionOnSet(F, S) = SumFunctionOnSet(G, S)
    BY <2>1, SumSame
  <2>2. QED
    BY <1>1, <2>1
<1>5. SumFunctionOnSet(F, U \ {y}) \in Int /\ F[y] \in Int /\ G[y] \in Int
  BY <1>1, SumInt
<1>6. QED
  BY <1>2, <1>3, <1>4, <1>5
=============================================================================
