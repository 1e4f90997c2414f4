-------------------------------- MODULE Sums --------------------------------
(***************************************************************************)
(* Facts about SumFunctionOnSet, which the community modules define by a   *)
(* recursive function and state no theorem about: the sum of a function    *)
(* over a finite set does not depend on the order the elements are taken   *)
(* in.  Induction is over sets, so that no operator is instantiated.       *)
(***************************************************************************)
EXTENDS Integers, FiniteSets, FiniteSetsExt, FiniteSetTheorems, WellFoundedInduction, TLAPS

-----------------------------------------------------------------------------
(* Induction.                                                              *)

\* Induction over the numbers, for a set of them.
LEMMA NatSet ==
  ASSUME NEW S, 0 \in S, \A n \in Nat : n \in S => n + 1 \in S
  PROVE  \A n \in Nat : n \in S
<1> DEFINE T == {n \in Nat : n \notin S}
           R == OpToRel(<, Nat)
<1>1. SUFFICES ASSUME T # {} PROVE FALSE
  OBVIOUS
<1>2. PICK x \in T : \A y \in T : ~(<<y, x>> \in R)
  <2>1. IsWellFoundedOn(R, Nat)
    BY NatLessThanWellFounded
  <2>2. T \subseteq Nat
    OBVIOUS
  <2> HIDE DEF R, T
  <2> QED
    BY <1>1, <2>1, <2>2, WFMin
<1>3. x # 0 /\ x - 1 \in Nat
  OBVIOUS
<1>4. <<x - 1, x>> \in R
  BY <1>3 DEF OpToRel
<1>5. x - 1 \in S
  BY <1>2, <1>3, <1>4
<1> QED
  BY <1>3, <1>5

LEMMA TakeOne ==
  ASSUME NEW S, IsFiniteSet(S), NEW T \in SUBSET S, NEW n \in Nat, Cardinality(T) = n + 1
  PROVE  \E x \in T : T \ {x} \in SUBSET S /\ Cardinality(T \ {x}) = n
<1>1. IsFiniteSet(T)
  BY FS_Subset
<1>2. T # {}
  <2> SUFFICES ASSUME T = {} PROVE FALSE
    OBVIOUS
  <2>1. Cardinality(T) = 0
    BY FS_EmptySet
  <2> QED
    BY <2>1
<1>3. PICK x : x \in T
  BY <1>2
<1>4. Cardinality(T \ {x}) = Cardinality(T) - 1
  BY <1>1, <1>3, FS_RemoveElement
<1>5. Cardinality(T \ {x}) = n
  BY <1>4
<1> QED
  BY <1>3, <1>5

\* A family of sets that has the empty set and grows by one element has every finite set.
LEMMA SubsetInduction ==
  ASSUME NEW S, IsFiniteSet(S), NEW P, {} \in P,
         \A T \in SUBSET S : \A x \in S \ T : T \in P => T \cup {x} \in P
  PROVE  S \in P
<1> DEFINE N == {n \in Nat : \A T \in SUBSET S : Cardinality(T) = n => T \in P}
<1>1. 0 \in N
  BY FS_Subset, FS_EmptySet
<1>2. ASSUME NEW n \in Nat, n \in N
      PROVE  n + 1 \in N
  <2> SUFFICES ASSUME NEW T \in SUBSET S, Cardinality(T) = n + 1
               PROVE  T \in P
    OBVIOUS
  <2>1. PICK x \in T : T \ {x} \in SUBSET S /\ Cardinality(T \ {x}) = n
    BY TakeOne
  <2>2. T \ {x} \in P
    BY <1>2, <2>1
  <2>3. (T \ {x}) \cup {x} \in P
    BY <2>1, <2>2
  <2>4. (T \ {x}) \cup {x} = T
    BY <2>1
  <2> QED
    BY <2>3, <2>4
<1> HIDE DEF N
<1>3. \A n \in Nat : n \in N
  BY <1>1, <1>2, NatSet
<1>4. Cardinality(S) \in N
  BY <1>3, FS_CardinalityType
<1> QED
  BY <1>4 DEF N

-----------------------------------------------------------------------------
(* The recursive function behind the sum exists, is typed and unique.      *)

Pick(s) == CHOOSE x \in s : TRUE

Solves(f, S, g) ==
  g = [s \in SUBSET S |-> IF s = {} THEN 0 ELSE f[Pick(s)] + g[s \ {Pick(s)}]]

LEMMA Picked == ASSUME NEW s, s # {} PROVE Pick(s) \in s
BY DEF Pick

\* One element fewer, one less.
LEMMA OneLess ==
  ASSUME NEW S, IsFiniteSet(S), NEW s \in SUBSET S, NEW x \in s
  PROVE  /\ s \ {x} \in SUBSET S
         /\ Cardinality(s) \in Nat /\ Cardinality(s \ {x}) = Cardinality(s) - 1
         /\ Cardinality(s \ {x}) \in Nat
<1>1. IsFiniteSet(s) /\ IsFiniteSet(s \ {x})
  BY FS_Subset
<1> QED
  BY <1>1, FS_RemoveElement, FS_CardinalityType

LEMMA SolutionExists ==
  ASSUME NEW S, IsFiniteSet(S), NEW f, \A x \in S : f[x] \in Int
  PROVE  \E g : Solves(f, S, g)
<1> DEFINE Step(g, s) == IF s = {} THEN 0 ELSE f[Pick(s)] + g[s \ {Pick(s)}]
           N == {n \in Nat : \E g \in [SUBSET S -> Int] :
                   \A s \in SUBSET S : Cardinality(s) <= n => g[s] = Step(g, s)}
<1>1. ASSUME NEW g \in [SUBSET S -> Int], NEW s \in SUBSET S
      PROVE  Step(g, s) \in Int
  <2>1. CASE s = {}
    BY <2>1
  <2>2. CASE s # {}
    BY <2>2, Picked
  <2> QED
    BY <2>1, <2>2
<1>2. 0 \in N
  <2> DEFINE z == [s \in SUBSET S |-> 0]
  <2>1. z \in [SUBSET S -> Int]
    OBVIOUS
  <2>2. ASSUME NEW s \in SUBSET S, Cardinality(s) <= 0 PROVE z[s] = Step(z, s)
    <3>1. IsFiniteSet(s) /\ Cardinality(s) \in Nat
      BY FS_Subset, FS_CardinalityType
    <3>2. s = {}
      BY <2>2, <3>1, FS_EmptySet
    <3> QED
      BY <3>2
  <2> QED
    BY <2>1, <2>2
<1>3. ASSUME NEW n \in Nat, n \in N
      PROVE  n + 1 \in N
  <2>1. PICK g \in [SUBSET S -> Int] :
               \A s \in SUBSET S : Cardinality(s) <= n => g[s] = Step(g, s)
    BY <1>3
  <2> DEFINE h == [s \in SUBSET S |-> Step(g, s)]
  <2>2. h \in [SUBSET S -> Int]
    BY <1>1
  <2>3. ASSUME NEW s \in SUBSET S, Cardinality(s) <= n + 1
        PROVE  h[s] = Step(h, s)
    <3>1. CASE s = {}
      BY <3>1
    <3>2. CASE s # {}
      <4>1. Pick(s) \in s
        BY <3>2, Picked
      <4>2. s \ {Pick(s)} \in SUBSET S /\ Cardinality(s \ {Pick(s)}) <= n
        BY <2>3, <4>1, OneLess
      <4>3. h[s \ {Pick(s)}] = g[s \ {Pick(s)}]
        BY <2>1, <4>2
      <4> QED
        BY <3>2, <4>3
    <3> QED
      BY <3>1, <3>2
  <2> HIDE DEF h, Step
  <2> QED
    BY <2>2, <2>3
<1> HIDE DEF N
<1>4. Cardinality(S) \in N /\ Cardinality(S) \in Nat
  BY <1>2, <1>3, NatSet, FS_CardinalityType
<1>5. PICK g \in [SUBSET S -> Int] :
             \A s \in SUBSET S : Cardinality(s) <= Cardinality(S) => g[s] = Step(g, s)
  BY <1>4 DEF N
<1>6. \A s \in SUBSET S : g[s] = Step(g, s)
  BY <1>5, FS_Subset
<1>7. g = [s \in SUBSET S |-> Step(g, s)]
  BY <1>6
<1> QED
  BY <1>7 DEF Solves

\* What a solution says of a set does not depend on where it was solved.
LEMMA SolutionsAgree ==
  ASSUME NEW S, IsFiniteSet(S), NEW f, NEW g, Solves(f, S, g),
         NEW T \in SUBSET S, NEW h, Solves(f, T, h)
  PROVE  \A s \in SUBSET T : h[s] = g[s]
<1> DEFINE N == {n \in Nat : \A s \in SUBSET T : Cardinality(s) = n => h[s] = g[s]}
<1>0. IsFiniteSet(T)
  BY FS_Subset
<1>1. 0 \in N
  <2> SUFFICES ASSUME NEW s \in SUBSET T, Cardinality(s) = 0 PROVE h[s] = g[s]
    OBVIOUS
  <2>1. s = {}
    BY <1>0, FS_Subset, FS_EmptySet
  <2> QED
    BY <2>1 DEF Solves
<1>2. ASSUME NEW n \in Nat, n \in N
      PROVE  n + 1 \in N
  <2> SUFFICES ASSUME NEW s \in SUBSET T, Cardinality(s) = n + 1
               PROVE  h[s] = g[s]
    OBVIOUS
  <2>1. s # {}
    BY FS_EmptySet
  <2>2. Pick(s) \in s
    BY <2>1, Picked
  <2>3. s \ {Pick(s)} \in SUBSET T /\ Cardinality(s \ {Pick(s)}) = n
    BY <1>0, <2>2, OneLess
  <2>4. h[s \ {Pick(s)}] = g[s \ {Pick(s)}]
    BY <1>2, <2>3
  <2>5. h[s] = f[Pick(s)] + h[s \ {Pick(s)}] /\ g[s] = f[Pick(s)] + g[s \ {Pick(s)}]
    BY <2>1 DEF Solves
  <2> QED
    BY <2>4, <2>5
<1> HIDE DEF N
<1>3. \A n \in Nat : n \in N
  BY <1>1, <1>2, NatSet
<1> SUFFICES ASSUME NEW s \in SUBSET T PROVE h[s] = g[s]
  OBVIOUS
<1>4. Cardinality(s) \in N
  BY <1>0, <1>3, FS_Subset, FS_CardinalityType
<1> QED
  BY <1>4 DEF N

LEMMA SolutionTyped ==
  ASSUME NEW S, IsFiniteSet(S), NEW f, \A x \in S : f[x] \in Int, NEW g, Solves(f, S, g)
  PROVE  \A s \in SUBSET S : g[s] \in Int
<1> DEFINE N == {n \in Nat : \A s \in SUBSET S : Cardinality(s) = n => g[s] \in Int}
<1>1. 0 \in N
  <2> SUFFICES ASSUME NEW s \in SUBSET S, Cardinality(s) = 0 PROVE g[s] \in Int
    OBVIOUS
  <2>1. s = {}
    BY FS_Subset, FS_EmptySet
  <2> QED
    BY <2>1 DEF Solves
<1>2. ASSUME NEW n \in Nat, n \in N
      PROVE  n + 1 \in N
  <2> SUFFICES ASSUME NEW s \in SUBSET S, Cardinality(s) = n + 1
               PROVE  g[s] \in Int
    OBVIOUS
  <2>1. s # {}
    BY FS_EmptySet
  <2>2. Pick(s) \in s
    BY <2>1, Picked
  <2>3. s \ {Pick(s)} \in SUBSET S /\ Cardinality(s \ {Pick(s)}) = n
    BY <2>2, OneLess
  <2>4. g[s \ {Pick(s)}] \in Int
    BY <1>2, <2>3
  <2>5. g[s] = f[Pick(s)] + g[s \ {Pick(s)}]
    BY <2>1 DEF Solves
  <2> QED
    BY <2>2, <2>4, <2>5
<1> HIDE DEF N
<1>3. \A n \in Nat : n \in N
  BY <1>1, <1>2, NatSet
<1> SUFFICES ASSUME NEW s \in SUBSET S PROVE g[s] \in Int
  OBVIOUS
<1>4. Cardinality(s) \in N
  BY <1>3, FS_Subset, FS_CardinalityType
<1> QED
  BY <1>4 DEF N

\* Any element may be taken first.
LEMMA AnyFirst ==
  ASSUME NEW S, IsFiniteSet(S), NEW f, \A x \in S : f[x] \in Int, NEW g, Solves(f, S, g),
         NEW s \in SUBSET S, NEW x \in s
  PROVE  g[s] = f[x] + g[s \ {x}]
<1> DEFINE N == {n \in Nat : \A r \in SUBSET S : \A y \in r :
                   Cardinality(r) = n => g[r] = f[y] + g[r \ {y}]}
<1>1. 0 \in N
  <2> SUFFICES ASSUME NEW r \in SUBSET S, NEW y \in r, Cardinality(r) = 0 PROVE FALSE
    OBVIOUS
  <2> QED
    BY FS_Subset, FS_EmptySet
<1>2. ASSUME NEW n \in Nat, n \in N
      PROVE  n + 1 \in N
  <2> SUFFICES ASSUME NEW r \in SUBSET S, NEW y \in r, Cardinality(r) = n + 1
               PROVE  g[r] = f[y] + g[r \ {y}]
    OBVIOUS
  <2>1. PICK c : c = Pick(r)
    OBVIOUS
  <2>2. c \in r /\ g[r] = f[c] + g[r \ {c}]
    BY <2>1, Picked DEF Solves
  <2>3. CASE c = y
    BY <2>2, <2>3
  <2>4. CASE c # y
    <3>1. /\ r \ {c} \in SUBSET S /\ Cardinality(r \ {c}) = n /\ y \in r \ {c}
          /\ r \ {y} \in SUBSET S /\ Cardinality(r \ {y}) = n /\ c \in r \ {y}
      BY <2>2, <2>4, OneLess
    <3>2. g[r \ {c}] = f[y] + g[(r \ {c}) \ {y}] /\ g[r \ {y}] = f[c] + g[(r \ {y}) \ {c}]
      BY <1>2, <3>1
    <3>3. (r \ {c}) \ {y} = (r \ {y}) \ {c} /\ (r \ {c}) \ {y} \in SUBSET S
      OBVIOUS
    <3>4. f[c] \in Int /\ f[y] \in Int
      BY <2>2
    <3>5. PICK rest \in Int : rest = g[(r \ {c}) \ {y}]
      BY <3>3, SolutionTyped
    <3>6. g[r] = f[c] + (f[y] + rest) /\ g[r \ {y}] = f[c] + rest
      BY <2>2, <3>2, <3>3, <3>5
    <3> QED
      BY <3>4, <3>5, <3>6
  <2> QED
    BY <2>3, <2>4
<1> HIDE DEF N
<1>3. \A n \in Nat : n \in N
  BY <1>1, <1>2, NatSet
<1>4. Cardinality(s) \in N
  BY <1>3, FS_Subset, FS_CardinalityType
<1> QED
  BY <1>4 DEF N

LEMMA FirstOfAll ==
  ASSUME NEW S, IsFiniteSet(S), NEW f, \A x \in S : f[x] \in Int, NEW g, Solves(f, S, g),
         NEW e \in S
  PROVE  g[S] = f[e] + g[S \ {e}]
<1>1. PICK s \in SUBSET S : s = S
  OBVIOUS
<1>2. e \in s
  BY <1>1
<1>3. g[s] = f[e] + g[s \ {e}]
  BY <1>2, AnyFirst
<1> QED
  BY <1>1, <1>3

LEMMA SumIsSolution ==
  ASSUME NEW S, IsFiniteSet(S), NEW f, \A x \in S : f[x] \in Int
  PROVE  \E g : /\ Solves(f, S, g) /\ SumFunctionOnSet(f, S) = g[S]
               /\ \A e \in S : g[S] = f[e] + g[S \ {e}]
<1>1. SumFunctionOnSet(f, S) = (CHOOSE g : Solves(f, S, g))[S]
  BY DEF SumFunctionOnSet, FoldFunctionOnSet, MapThenFoldSet, Solves, Pick
<1>2. PICK g : g = CHOOSE h : Solves(f, S, h)
  OBVIOUS
<1>3. Solves(f, S, g)
  BY <1>2, SolutionExists
<1>4. \A e \in S : g[S] = f[e] + g[S \ {e}]
  BY <1>3, FirstOfAll
<1> QED
  BY <1>1, <1>2, <1>3, <1>4
-----------------------------------------------------------------------------
(* What a proof needs of a sum.                                            *)

LEMMA SumEmpty == ASSUME NEW f PROVE SumFunctionOnSet(f, {}) = 0
<1>1. IsFiniteSet({}) /\ \A x \in {} : f[x] \in Int
  BY FS_EmptySet
<1>2. PICK g : Solves(f, {}, g) /\ SumFunctionOnSet(f, {}) = g[{}]
  BY <1>1, SumIsSolution
<1> QED
  BY <1>2 DEF Solves

LEMMA SumTyped ==
  ASSUME NEW S, IsFiniteSet(S), NEW f, \A x \in S : f[x] \in Int
  PROVE  SumFunctionOnSet(f, S) \in Int
<1>1. PICK g : Solves(f, S, g) /\ SumFunctionOnSet(f, S) = g[S]
  BY SumIsSolution
<1> QED
  BY <1>1, SolutionTyped

LEMMA SumRemove ==
  ASSUME NEW S, IsFiniteSet(S), NEW f, \A x \in S : f[x] \in Int, NEW e \in S
  PROVE  SumFunctionOnSet(f, S) = f[e] + SumFunctionOnSet(f, S \ {e})
<1>1. PICK g : /\ Solves(f, S, g) /\ SumFunctionOnSet(f, S) = g[S]
               /\ \A x \in S : g[S] = f[x] + g[S \ {x}]
  BY SumIsSolution
<1> DEFINE T == S \ {e}
<1>2. T \in SUBSET S /\ IsFiniteSet(T) /\ \A x \in T : f[x] \in Int
  BY FS_Subset
<1> HIDE DEF T
<1>3. PICK h : Solves(f, T, h) /\ SumFunctionOnSet(f, T) = h[T]
  BY <1>2, SumIsSolution
<1>4. h[T] = g[T]
  BY <1>1, <1>2, <1>3, SolutionsAgree
<1>5. g[S] = f[e] + g[S \ {e}]
  BY <1>1
<1> QED
  BY <1>1, <1>3, <1>4, <1>5 DEF T

LEMMA SumAdd ==
  ASSUME NEW S, IsFiniteSet(S), NEW f, NEW e, e \notin S, \A x \in S \cup {e} : f[x] \in Int
  PROVE  SumFunctionOnSet(f, S \cup {e}) = f[e] + SumFunctionOnSet(f, S)
<1>1. IsFiniteSet(S \cup {e})
  BY FS_AddElement
<1>2. (S \cup {e}) \ {e} = S
  OBVIOUS
<1> QED
  BY <1>1, <1>2, SumRemove

\* Two functions that are the same on a set have the same sum over it.
LEMMA SumSame ==
  ASSUME NEW S, IsFiniteSet(S), NEW f, NEW g, \A x \in S : f[x] \in Int /\ g[x] = f[x]
  PROVE  SumFunctionOnSet(g, S) = SumFunctionOnSet(f, S)
<1> DEFINE P == {T \in SUBSET S : SumFunctionOnSet(g, T) = SumFunctionOnSet(f, T)}
<1>1. {} \in P
  BY SumEmpty
<1>2. ASSUME NEW T \in SUBSET S, NEW e \in S \ T, T \in P
      PROVE  T \cup {e} \in P
  <2>1. IsFiniteSet(T)
    BY FS_Subset
  <2>2. /\ SumFunctionOnSet(f, T \cup {e}) = f[e] + SumFunctionOnSet(f, T)
        /\ SumFunctionOnSet(g, T \cup {e}) = g[e] + SumFunctionOnSet(g, T)
    BY <2>1, SumAdd
  <2> QED
    BY <1>2, <2>2
<1> HIDE DEF P
<1>3. S \in P
  BY <1>1, <1>2, SubsetInduction
<1> QED
  BY <1>3 DEF P

\* A sum of what is never negative is not negative, and grows with its set and terms.
LEMMA SumMonotone ==
  ASSUME NEW S, IsFiniteSet(S), NEW U \in SUBSET S, NEW f, NEW g,
         \A x \in S : g[x] \in Nat,
         \A x \in U : f[x] \in Int /\ f[x] <= g[x]
  PROVE  SumFunctionOnSet(f, U) <= SumFunctionOnSet(g, S)
<1> DEFINE P == {T \in SUBSET S :
                   SumFunctionOnSet(f, T \cap U) <= SumFunctionOnSet(g, T)}
<1>1. {} \in P
  <2>1. {} \cap U = {}
    OBVIOUS
  <2> QED
    BY <2>1, SumEmpty
<1>2. ASSUME NEW T \in SUBSET S, NEW e \in S \ T, T \in P
      PROVE  T \cup {e} \in P
  <2>1. IsFiniteSet(T) /\ IsFiniteSet(T \cap U)
    BY FS_Subset
  <2>0. \A x \in T \cup {e} : g[x] \in Int
    OBVIOUS
  <2>2. /\ SumFunctionOnSet(g, T \cup {e}) = g[e] + SumFunctionOnSet(g, T)
        /\ SumFunctionOnSet(g, T) \in Int
    BY <2>0, <2>1, SumAdd, SumTyped
  <2>5. SumFunctionOnSet(f, T \cap U) \in Int
    BY <2>1, SumTyped
  <2>3. CASE e \in U
    <3>1. (T \cup {e}) \cap U = (T \cap U) \cup {e}
      BY <2>3
    <3>2. SumFunctionOnSet(f, (T \cap U) \cup {e}) = f[e] + SumFunctionOnSet(f, T \cap U)
      BY <2>1, <2>3, SumAdd
    <3>3. SumFunctionOnSet(f, T \cap U) <= SumFunctionOnSet(g, T)
      BY <1>2
    <3>4. f[e] \in Int /\ g[e] \in Int /\ f[e] <= g[e]
      BY <2>3
    <3>5. PICK a \in Int, b \in Int : a = SumFunctionOnSet(f, T \cap U)
                                   /\ b = SumFunctionOnSet(g, T) /\ a <= b
      BY <2>2, <2>5, <3>3
    <3>6. /\ SumFunctionOnSet(f, (T \cup {e}) \cap U) = f[e] + a
          /\ SumFunctionOnSet(g, T \cup {e}) = g[e] + b
      BY <2>2, <3>1, <3>2, <3>5
    <3> QED
      BY <3>4, <3>5, <3>6
  <2>4. CASE e \notin U
    <3>1. (T \cup {e}) \cap U = T \cap U
      BY <2>4
    <3>2. SumFunctionOnSet(f, T \cap U) <= SumFunctionOnSet(g, T)
      BY <1>2
    <3>3. g[e] \in Nat
      OBVIOUS
    <3>4. SumFunctionOnSet(f, (T \cup {e}) \cap U) <= SumFunctionOnSet(g, T \cup {e})
      BY <2>2, <2>5, <3>1, <3>2, <3>3
    <3> QED
      BY <3>4
  <2> QED
    BY <2>3, <2>4
<1> HIDE DEF P
<1>3. S \in P
  BY <1>1, <1>2, SubsetInduction
<1>4. S \cap U = U
  OBVIOUS
<1> QED
  BY <1>3, <1>4 DEF P

LEMMA SumNatural ==
  ASSUME NEW S, IsFiniteSet(S), NEW f, \A x \in S : f[x] \in Nat
  PROVE  SumFunctionOnSet(f, S) \in Nat
<1>1. SumFunctionOnSet(f, {}) <= SumFunctionOnSet(f, S)
  BY SumMonotone
<1>2. SumFunctionOnSet(f, S) \in Int
  BY SumTyped
<1> QED
  BY <1>1, <1>2, SumEmpty

\* The sum over the image of a set, under what tells its elements apart, is a sum over the set.
LEMMA SumImage ==
  ASSUME NEW S, IsFiniteSet(S), NEW h, NEW f,
         \A x, y \in S : x # y => h[x] # h[y],
         \A x \in S : f[h[x]] \in Int
  PROVE  SumFunctionOnSet(f, {h[x] : x \in S}) = SumFunctionOnSet([x \in S |-> f[h[x]]], S)
<1> DEFINE g == [x \in S |-> f[h[x]]]
           P == {T \in SUBSET S : /\ IsFiniteSet({h[x] : x \in T})
                                  /\ SumFunctionOnSet(f, {h[x] : x \in T}) = SumFunctionOnSet(g, T)}
<1>1. {} \in P
  <2>1. {h[x] : x \in {}} = {}
    OBVIOUS
  <2> QED
    BY <2>1, SumEmpty, FS_EmptySet
<1>2. ASSUME NEW T \in SUBSET S, NEW e \in S \ T, T \in P
      PROVE  T \cup {e} \in P
  <2> DEFINE I == {h[x] : x \in T}
  <2>1. {h[x] : x \in T \cup {e}} = I \cup {h[e]}
    OBVIOUS
  <2>2. h[e] \notin I /\ \A i \in I \cup {h[e]} : f[i] \in Int
    OBVIOUS
  <2>3. IsFiniteSet(T) /\ IsFiniteSet(I) /\ SumFunctionOnSet(f, I) = SumFunctionOnSet(g, T)
    BY <1>2, FS_Subset
  <2>4. \A x \in T \cup {e} : g[x] \in Int
    OBVIOUS
  <2> HIDE DEF I, g
  <2>5. SumFunctionOnSet(f, I \cup {h[e]}) = f[h[e]] + SumFunctionOnSet(f, I)
    BY <2>2, <2>3, SumAdd
  <2>6. SumFunctionOnSet(g, T \cup {e}) = g[e] + SumFunctionOnSet(g, T)
    BY <2>3, <2>4, SumAdd
  <2>7. g[e] = f[h[e]]
    BY DEF g
  <2>8. IsFiniteSet(I \cup {h[e]})
    BY <2>3, FS_AddElement
  <2> QED
    BY <2>1, <2>3, <2>5, <2>6, <2>7, <2>8
<1> HIDE DEF P, g
<1>3. S \in P
  BY <1>1, <1>2, SubsetInduction
<1> QED
  BY <1>3 DEF P, g

=============================================================================
