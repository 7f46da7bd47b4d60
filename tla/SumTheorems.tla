----------------------------- MODULE SumTheorems -----------------------------
(***************************************************************************)
(* Facts about SumFunctionOnSet, the sum of a function's values over a     *)
(* finite set.  The operator picks the elements one by one in an order     *)
(* that is not known; that it is defined at all, and that the order does   *)
(* not matter, is proved by induction over the subsets of the set, where a *)
(* predicate is a set of subsets.                                          *)
(***************************************************************************)
EXTENDS FiniteSetsExt, FiniteSetTheorems, TLAPS

-----------------------------------------------------------------------------
(* Induction.                                                               *)

\* A set of subsets that has the empty set, and every T it has all T \ {x} of, has all.
LEMMA SubsetInduction ==
  ASSUME NEW S, IsFiniteSet(S), NEW G, {} \in G,
         \A T \in SUBSET S : T # {} /\ (\A x \in T : T \ {x} \in G) => T \in G
  PROVE  \A T \in SUBSET S : T \in G
  <1> DEFINE Bad == {T \in SUBSET S : T \notin G}
  <1>1. SUFFICES ASSUME Bad # {} PROVE FALSE
    OBVIOUS
  <1>2. IsWellFoundedOn(StrictSubsetOrdering(S), SUBSET S)
    BY FS_StrictSubsetOrderingWellFounded, FS_FiniteSubsetsOfFinite
  <1>3. PICK T \in Bad : \A U \in Bad : ~ (<<U, T>> \in StrictSubsetOrdering(S))
    <2> HIDE DEF Bad
    <2>1. Bad \subseteq SUBSET S
      BY DEF Bad
    <2> QED BY <1>1, <1>2, <2>1, WFMin
  <1>4. \A x \in T : T \ {x} \in G
    <2> SUFFICES ASSUME NEW x \in T, T \ {x} \notin G PROVE FALSE
      OBVIOUS
    <2>1. T \ {x} \in Bad
      OBVIOUS
    <2>2. <<T \ {x}, T>> \in StrictSubsetOrdering(S)
      BY DEF StrictSubsetOrdering
    <2> QED BY <1>3, <2>1, <2>2
  <1> QED BY <1>4

-----------------------------------------------------------------------------
(* The recursion the sum is defined by.                                     *)

Pick(s) == CHOOSE x \in s : TRUE
SumBody(f, g, s) == IF s = {} THEN 0 ELSE f[Pick(s)] + g[s \ {Pick(s)}]
Solves(f, g, S) == g = [s \in SUBSET S |-> SumBody(f, g, s)]

\* The sum is what a function over the subsets that solves the recursion says of S.
LEMMA SumIsSolution ==
  ASSUME NEW f, NEW S
  PROVE  SumFunctionOnSet(f, S) = (CHOOSE g : Solves(f, g, S))[S]
  BY DEF SumFunctionOnSet, FoldFunctionOnSet, MapThenFoldSet, Solves, SumBody, Pick

\* Two functions that solve the recursion agree where both are defined.
LEMMA SolutionsAgree ==
  ASSUME NEW f, NEW S, IsFiniteSet(S), NEW g, NEW h, NEW T, Solves(f, g, T), Solves(f, h, S),
         S \subseteq T
  PROVE  \A U \in SUBSET S : g[U] = h[U]
  <1> DEFINE G == {U \in SUBSET S : g[U] = h[U]}
  <1>1. \A U \in SUBSET S : g[U] = SumBody(f, g, U) /\ h[U] = SumBody(f, h, U)
    BY DEF Solves
  <1>2. {} \in G
    BY <1>1 DEF SumBody
  <1>3. ASSUME NEW U \in SUBSET S, U # {}, \A x \in U : U \ {x} \in G PROVE U \in G
    <2>1. Pick(U) \in U
      BY <1>3 DEF Pick
    <2>2. g[U \ {Pick(U)}] = h[U \ {Pick(U)}]
      BY <1>3, <2>1
    <2> QED BY <1>1, <1>3, <2>2 DEF SumBody
  <1> HIDE DEF G
  <1>4. \A U \in SUBSET S : U \in G
    BY <1>2, <1>3, SubsetInduction
  <1> QED BY <1>4 DEF G

\* A solution for a set is one for its subsets.
LEMMA SolutionRestricts ==
  ASSUME NEW f, NEW S, NEW T, NEW g, Solves(f, g, T), S \subseteq T
  PROVE  Solves(f, [s \in SUBSET S |-> g[s]], S)
  <1> DEFINE h == [s \in SUBSET S |-> g[s]]
  <1>1. \A s \in SUBSET S : h[s] = SumBody(f, h, s)
    <2> SUFFICES ASSUME NEW s \in SUBSET S PROVE h[s] = SumBody(f, h, s)
      OBVIOUS
    <2>1. g[s] = SumBody(f, g, s)
      BY DEF Solves
    <2>2. s \ {Pick(s)} \in SUBSET S
      OBVIOUS
    <2> QED BY <2>1, <2>2 DEF SumBody
  <1>2. h = [s \in SUBSET S |-> h[s]]
    OBVIOUS
  <1> HIDE DEF h
  <1>3. Solves(f, h, S)
    BY <1>1, <1>2 DEF Solves
  <1> QED BY <1>3 DEF h

\* There is a solution for every finite set.
LEMMA SolutionExists ==
  ASSUME NEW f, NEW S, IsFiniteSet(S)
  PROVE  \E g : Solves(f, g, S)
  <1> DEFINE G == {T \in SUBSET S : \E g : Solves(f, g, T)}
             Sol(V) == CHOOSE g : Solves(f, g, V)
  <1>1. {} \in G
    <2> DEFINE g == [s \in SUBSET {} |-> 0]
    <2>1. \A s \in SUBSET {} : SumBody(f, g, s) = 0
      BY DEF SumBody
    <2>2. Solves(f, g, {})
      BY <2>1 DEF Solves
    <2> QED BY <2>2
  <1>2. ASSUME NEW T \in SUBSET S, T # {}, \A x \in T : T \ {x} \in G PROVE T \in G
    <2> DEFINE h == [U \in SUBSET T |-> IF U = {} THEN 0
                                         ELSE f[Pick(U)] + Sol(U \ {Pick(U)})[U \ {Pick(U)}]]
    <2>1. \A U \in SUBSET T : U # {} => Solves(f, Sol(U \ {Pick(U)}), U \ {Pick(U)})
      <3> SUFFICES ASSUME NEW U \in SUBSET T, U # {}
                   PROVE  \E g : Solves(f, g, U \ {Pick(U)})
        OBVIOUS
      <3>1. Pick(U) \in T
        BY DEF Pick
      <3>2. PICK g : Solves(f, g, T \ {Pick(U)})
        BY <1>2, <3>1
      <3>3. U \ {Pick(U)} \subseteq T \ {Pick(U)}
        OBVIOUS
      <3> HIDE DEF Sol
      <3> QED BY <3>2, <3>3, SolutionRestricts
    <2>2. ASSUME NEW U \in SUBSET T, U # {}
          PROVE  h[U \ {Pick(U)}] = Sol(U \ {Pick(U)})[U \ {Pick(U)}]
      <3> DEFINE V == U \ {Pick(U)}
      <3>1. Solves(f, Sol(V), V)
        BY <2>1, <2>2
      <3>2. V \in SUBSET T
        OBVIOUS
      <3> HIDE DEF Sol, V
      <3>3. Sol(V)[V] = SumBody(f, Sol(V), V)
        BY <3>1 DEF Solves
      <3>4. CASE V = {}
        BY <3>2, <3>3, <3>4 DEF SumBody, V
      <3>5. CASE V # {}
        <4> DEFINE W == V \ {Pick(V)}
        <4>1. Solves(f, Sol(W), W)
          BY <2>1, <3>2, <3>5
        <4>2. W \subseteq V /\ IsFiniteSet(W)
          BY <3>2, FS_Subset
        <4>3. Sol(V)[W] = Sol(W)[W]
          <5> HIDE DEF W
          <5> QED BY <3>1, <4>1, <4>2, SolutionsAgree
        <4>4. h[V] = f[Pick(V)] + Sol(W)[W]
          BY <3>2, <3>5
        <4>5. Sol(V)[V] = f[Pick(V)] + Sol(V)[W]
          BY <3>3, <3>5 DEF SumBody
        <4>6. h[V] = Sol(V)[V]
          BY <4>3, <4>4, <4>5
        <4> QED BY <4>6 DEF V
      <3> QED BY <3>4, <3>5
    <2>3. \A U \in SUBSET T : h[U] = SumBody(f, h, U)
      <3> SUFFICES ASSUME NEW U \in SUBSET T PROVE h[U] = SumBody(f, h, U)
        OBVIOUS
      <3>1. CASE U = {}
        BY <3>1 DEF SumBody
      <3>2. CASE U # {}
        <4>1. h[U] = f[Pick(U)] + Sol(U \ {Pick(U)})[U \ {Pick(U)}]
          BY <3>2
        <4> HIDE DEF h
        <4> QED BY <2>2, <3>2, <4>1 DEF SumBody
      <3> QED BY <3>1, <3>2
    <2>4. h = [U \in SUBSET T |-> h[U]]
      OBVIOUS
    <2> HIDE DEF h
    <2>5. Solves(f, h, T)
      BY <2>3, <2>4 DEF Solves
    <2> QED BY <2>5
  <1> HIDE DEF G
  <1>3. \A T \in SUBSET S : T \in G
    BY <1>1, <1>2, SubsetInduction
  <1> QED BY <1>3 DEF G

-----------------------------------------------------------------------------
(* Sums.                                                                    *)

\* The recursion itself.
LEMMA SumPick ==
  ASSUME NEW f, NEW S, IsFiniteSet(S)
  PROVE  SumFunctionOnSet(f, S) =
           IF S = {} THEN 0 ELSE f[Pick(S)] + SumFunctionOnSet(f, S \ {Pick(S)})
  <1> DEFINE g == CHOOSE g : Solves(f, g, S)
             T == S \ {Pick(S)}
             h == CHOOSE h : Solves(f, h, T)
  <1>1. Solves(f, g, S)
    BY SolutionExists
  <1>2. IsFiniteSet(T) /\ T \subseteq S
    BY FS_Subset
  <1>3. Solves(f, h, T)
    BY <1>2, SolutionExists
  <1>4. SumFunctionOnSet(f, S) = g[S] /\ SumFunctionOnSet(f, T) = h[T]
    BY SumIsSolution
  <1> HIDE DEF g, h
  <1>5. g[S] = SumBody(f, g, S)
    BY <1>1 DEF Solves
  <1>6. g[T] = h[T]
    <2> HIDE DEF T
    <2> QED BY <1>1, <1>2, <1>3, SolutionsAgree
  <1> QED BY <1>4, <1>5, <1>6 DEF SumBody

\* The empty sum is zero.
LEMMA SumEmpty ==
  ASSUME NEW f
  PROVE  SumFunctionOnSet(f, {}) = 0
  BY SumPick, FS_EmptySet

\* Only the values on the set matter.
LEMMA SumSame ==
  ASSUME NEW f, NEW g, NEW S, IsFiniteSet(S), \A x \in S : f[x] = g[x]
  PROVE  SumFunctionOnSet(f, S) = SumFunctionOnSet(g, S)
  <1> DEFINE G == {T \in SUBSET S : SumFunctionOnSet(f, T) = SumFunctionOnSet(g, T)}
  <1>1. {} \in G
    BY SumEmpty
  <1>2. ASSUME NEW T \in SUBSET S, T # {}, \A x \in T : T \ {x} \in G PROVE T \in G
    <2>1. Pick(T) \in T /\ IsFiniteSet(T)
      BY <1>2, FS_Subset DEF Pick
    <2>2. SumFunctionOnSet(f, T \ {Pick(T)}) = SumFunctionOnSet(g, T \ {Pick(T)})
      BY <1>2, <2>1
    <2> QED BY <1>2, <2>1, <2>2, SumPick
  <1> HIDE DEF G
  <1>3. \A T \in SUBSET S : T \in G
    BY <1>1, <1>2, SubsetInduction
  <1> QED BY <1>3 DEF G

\* A sum of integers is an integer.
LEMMA SumInt ==
  ASSUME NEW f, NEW S, IsFiniteSet(S), \A x \in S : f[x] \in Int
  PROVE  SumFunctionOnSet(f, S) \in Int
  <1> DEFINE G == {T \in SUBSET S : SumFunctionOnSet(f, T) \in Int}
  <1>1. {} \in G
    BY SumEmpty
  <1>2. ASSUME NEW T \in SUBSET S, T # {}, \A x \in T : T \ {x} \in G PROVE T \in G
    <2>1. Pick(T) \in T /\ IsFiniteSet(T)
      BY <1>2, FS_Subset DEF Pick
    <2>2. SumFunctionOnSet(f, T) = f[Pick(T)] + SumFunctionOnSet(f, T \ {Pick(T)})
      BY <1>2, <2>1, SumPick
    <2> QED BY <1>2, <2>1, <2>2
  <1> HIDE DEF G
  <1>3. \A T \in SUBSET S : T \in G
    BY <1>1, <1>2, SubsetInduction
  <1> QED BY <1>3 DEF G

\* A sum of natural numbers is a natural number.
LEMMA SumNat ==
  ASSUME NEW f, NEW S, IsFiniteSet(S), \A x \in S : f[x] \in Nat
  PROVE  SumFunctionOnSet(f, S) \in Nat
  <1> DEFINE G == {T \in SUBSET S : SumFunctionOnSet(f, T) \in Nat}
  <1>1. {} \in G
    BY SumEmpty
  <1>2. ASSUME NEW T \in SUBSET S, T # {}, \A x \in T : T \ {x} \in G PROVE T \in G
    <2>1. Pick(T) \in T /\ IsFiniteSet(T)
      BY <1>2, FS_Subset DEF Pick
    <2>2. SumFunctionOnSet(f, T) = f[Pick(T)] + SumFunctionOnSet(f, T \ {Pick(T)})
      BY <1>2, <2>1, SumPick
    <2> QED BY <1>2, <2>1, <2>2
  <1> HIDE DEF G
  <1>3. \A T \in SUBSET S : T \in G
    BY <1>1, <1>2, SubsetInduction
  <1> QED BY <1>3 DEF G

\* Any element may be taken out first.
LEMMA SumRemove ==
  ASSUME NEW f, NEW S, IsFiniteSet(S), \A x \in S : f[x] \in Int
  PROVE  \A x \in S : SumFunctionOnSet(f, S) = f[x] + SumFunctionOnSet(f, S \ {x})
  <1> DEFINE G == {T \in SUBSET S : \A x \in T :
                     SumFunctionOnSet(f, T) = f[x] + SumFunctionOnSet(f, T \ {x})}
  <1>1. {} \in G
    OBVIOUS
  <1>2. ASSUME NEW T \in SUBSET S, T # {}, \A x \in T : T \ {x} \in G PROVE T \in G
    <2> DEFINE p == Pick(T)
    <2>1. p \in T /\ IsFiniteSet(T)
      BY <1>2, FS_Subset DEF Pick
    <2> HIDE DEF p
    <2>2. SumFunctionOnSet(f, T) = f[p] + SumFunctionOnSet(f, T \ {p})
      BY <1>2, <2>1, SumPick DEF p
    <2>3. ASSUME NEW x \in T, x # p
          PROVE  SumFunctionOnSet(f, T) = f[x] + SumFunctionOnSet(f, T \ {x})
      <3>1. T \ {p} \in G /\ T \ {x} \in G /\ x \in T \ {p} /\ p \in T \ {x}
        BY <1>2, <2>1, <2>3
      <3>2. (T \ {p}) \ {x} = (T \ {x}) \ {p}
        OBVIOUS
      <3> DEFINE U == (T \ {p}) \ {x}
      <3>3. SumFunctionOnSet(f, T \ {p}) = f[x] + SumFunctionOnSet(f, U)
        BY <3>1
      <3>4. SumFunctionOnSet(f, T \ {x}) = f[p] + SumFunctionOnSet(f, U)
        BY <3>1, <3>2
      <3>5. SumFunctionOnSet(f, U) \in Int
        <4>1. IsFiniteSet(U) /\ \A y \in U : f[y] \in Int
          BY <2>1, FS_Subset
        <4> QED BY <4>1, SumInt
      <3>6. f[x] \in Int /\ f[p] \in Int
        BY <2>1
      <3> HIDE DEF U
      <3> QED BY <2>2, <3>3, <3>4, <3>5, <3>6
    <2> QED BY <2>2, <2>3
  <1> HIDE DEF G
  <1>3. \A T \in SUBSET S : T \in G
    BY <1>1, <1>2, SubsetInduction
  <1> QED BY <1>3 DEF G

\* The sum over a disjoint union.
LEMMA SumUnion ==
  ASSUME NEW f, NEW S, NEW R, IsFiniteSet(S), IsFiniteSet(R), S \cap R = {},
         \A x \in S \cup R : f[x] \in Int
  PROVE  SumFunctionOnSet(f, S \cup R) = SumFunctionOnSet(f, S) + SumFunctionOnSet(f, R)
  <1> DEFINE G == {T \in SUBSET S : SumFunctionOnSet(f, T \cup R)
                                      = SumFunctionOnSet(f, T) + SumFunctionOnSet(f, R)}
  <1>0. SumFunctionOnSet(f, R) \in Int
    BY SumInt
  <1>1. {} \in G
    <2>1. {} \cup R = R
      OBVIOUS
    <2> QED BY <1>0, <2>1, SumEmpty
  <1>2. ASSUME NEW T \in SUBSET S, T # {}, \A x \in T : T \ {x} \in G PROVE T \in G
    <2>1. PICK x \in T : TRUE
      BY <1>2
    <2>2. IsFiniteSet(T) /\ IsFiniteSet(T \cup R) /\ IsFiniteSet(T \ {x})
      BY FS_Subset, FS_Union
    <2>3. (T \cup R) \ {x} = (T \ {x}) \cup R
      BY <2>1
    <2>4. SumFunctionOnSet(f, T \cup R) = f[x] + SumFunctionOnSet(f, (T \ {x}) \cup R)
      <3>1. \A y \in T \cup R : f[y] \in Int
        OBVIOUS
      <3> QED BY <2>1, <2>2, <2>3, <3>1, SumRemove
    <2>5. SumFunctionOnSet(f, T) = f[x] + SumFunctionOnSet(f, T \ {x})
      BY <2>1, <2>2, SumRemove
    <2>6. SumFunctionOnSet(f, T \ {x}) \in Int /\ f[x] \in Int
      BY <2>1, <2>2, SumInt
    <2>7. SumFunctionOnSet(f, (T \ {x}) \cup R)
            = SumFunctionOnSet(f, T \ {x}) + SumFunctionOnSet(f, R)
      BY <1>2, <2>1
    <2>8. SumFunctionOnSet(f, T \cup R) = SumFunctionOnSet(f, T) + SumFunctionOnSet(f, R)
      BY <1>0, <2>4, <2>5, <2>6, <2>7
    <2> QED BY <2>8
  <1> HIDE DEF G
  <1>3. \A T \in SUBSET S : T \in G
    BY <1>1, <1>2, SubsetInduction
  <1> QED BY <1>3 DEF G

\* The sum of a sum of two functions.
LEMMA SumPlus ==
  ASSUME NEW f, NEW g, NEW h, NEW S, IsFiniteSet(S),
         \A x \in S : f[x] \in Int /\ g[x] \in Int /\ h[x] = f[x] + g[x]
  PROVE  SumFunctionOnSet(h, S) = SumFunctionOnSet(f, S) + SumFunctionOnSet(g, S)
  <1> DEFINE G == {T \in SUBSET S : SumFunctionOnSet(h, T)
                                      = SumFunctionOnSet(f, T) + SumFunctionOnSet(g, T)}
  <1>1. {} \in G
    BY SumEmpty
  <1>2. ASSUME NEW T \in SUBSET S, T # {}, \A x \in T : T \ {x} \in G PROVE T \in G
    <2>1. PICK x \in T : TRUE
      BY <1>2
    <2>2. IsFiniteSet(T) /\ IsFiniteSet(T \ {x})
      BY FS_Subset
    <2>3. /\ SumFunctionOnSet(f, T) = f[x] + SumFunctionOnSet(f, T \ {x})
          /\ SumFunctionOnSet(g, T) = g[x] + SumFunctionOnSet(g, T \ {x})
          /\ SumFunctionOnSet(h, T) = h[x] + SumFunctionOnSet(h, T \ {x})
      BY <2>1, <2>2, SumRemove
    <2>4. SumFunctionOnSet(f, T \ {x}) \in Int /\ SumFunctionOnSet(g, T \ {x}) \in Int
      BY <2>2, SumInt
    <2>5. SumFunctionOnSet(h, T \ {x})
            = SumFunctionOnSet(f, T \ {x}) + SumFunctionOnSet(g, T \ {x})
      BY <1>2, <2>1
    <2>6. f[x] \in Int /\ g[x] \in Int /\ h[x] = f[x] + g[x]
      BY <2>1
    <2>7. SumFunctionOnSet(h, T) = SumFunctionOnSet(f, T) + SumFunctionOnSet(g, T)
      BY <2>3, <2>4, <2>5, <2>6
    <2> QED BY <2>7
  <1> HIDE DEF G
  <1>3. \A T \in SUBSET S : T \in G
    BY <1>1, <1>2, SubsetInduction
  <1> QED BY <1>3 DEF G

\* A sum of zeros is zero.
LEMMA SumZero ==
  ASSUME NEW f, NEW S, IsFiniteSet(S), \A x \in S : f[x] = 0
  PROVE  SumFunctionOnSet(f, S) = 0
  <1>1. SumFunctionOnSet(f, S) = SumFunctionOnSet(f, S) + SumFunctionOnSet(f, S)
    BY SumPlus
  <1>2. SumFunctionOnSet(f, S) \in Int
    BY SumInt
  <1>3. \A n \in Int : n = n + n => n = 0
    OBVIOUS
  <1> QED BY <1>1, <1>2, <1>3

\* A function with smaller values has the smaller sum.
LEMMA SumAtMost ==
  ASSUME NEW f, NEW g, NEW S, IsFiniteSet(S),
         \A x \in S : f[x] \in Int /\ g[x] \in Int /\ f[x] <= g[x]
  PROVE  SumFunctionOnSet(f, S) <= SumFunctionOnSet(g, S)
  <1> DEFINE d == [x \in S |-> g[x] - f[x]]
  <1>1. SumFunctionOnSet(g, S) = SumFunctionOnSet(f, S) + SumFunctionOnSet(d, S)
    <2>1. \A x \in S : f[x] \in Int /\ d[x] \in Int /\ g[x] = f[x] + d[x]
      OBVIOUS
    <2> HIDE DEF d
    <2> QED BY <2>1, SumPlus
  <1>2. SumFunctionOnSet(d, S) \in Nat
    <2>1. \A x \in S : d[x] \in Nat
      OBVIOUS
    <2> HIDE DEF d
    <2> QED BY <2>1, SumNat
  <1>3. SumFunctionOnSet(f, S) \in Int
    BY SumInt
  <1> HIDE DEF d
  <1> QED BY <1>1, <1>2, <1>3

\* Sums of natural numbers over a part of a set and over the rest.
LEMMA SumPart ==
  ASSUME NEW f, NEW S, NEW T, IsFiniteSet(S), T \subseteq S, \A x \in S : f[x] \in Nat
  PROVE  /\ IsFiniteSet(T)
         /\ SumFunctionOnSet(f, S) = SumFunctionOnSet(f, T) + SumFunctionOnSet(f, S \ T)
         /\ SumFunctionOnSet(f, S \ T) \in Nat /\ SumFunctionOnSet(f, T) \in Nat
         /\ SumFunctionOnSet(f, T) <= SumFunctionOnSet(f, S)
  <1>1. IsFiniteSet(T) /\ IsFiniteSet(S \ T) /\ T \cap (S \ T) = {} /\ T \cup (S \ T) = S
    BY FS_Subset
  <1>2. SumFunctionOnSet(f, T) \in Nat /\ SumFunctionOnSet(f, S \ T) \in Nat
    BY <1>1, SumNat
  <1>3. SumFunctionOnSet(f, S) = SumFunctionOnSet(f, T) + SumFunctionOnSet(f, S \ T)
    <2>1. \A x \in T \cup (S \ T) : f[x] \in Int
      OBVIOUS
    <2> QED BY <1>1, <2>1, SumUnion
  <1> QED BY <1>1, <1>2, <1>3

\* Grouping by a key: the sums of the groups add up to the sum.
LEMMA SumFibres ==
  ASSUME NEW f, NEW S, IsFiniteSet(S), \A x \in S : f[x] \in Int,
         NEW C, IsFiniteSet(C), NEW h, \A x \in S : h[x] \in C
  PROVE  SumFunctionOnSet([c \in C |-> SumFunctionOnSet(f, {x \in S : h[x] = c})], C)
           = SumFunctionOnSet(f, S)
  <1> DEFINE Fibre(c) == {x \in S : h[x] = c}
             s == [c \in C |-> SumFunctionOnSet(f, Fibre(c))]
             Over(D) == {x \in S : h[x] \in D}
             G == {D \in SUBSET C : SumFunctionOnSet(s, D) = SumFunctionOnSet(f, Over(D))}
  <1>0. \A c \in C : s[c] \in Int
    <2> SUFFICES ASSUME NEW c \in C PROVE SumFunctionOnSet(f, Fibre(c)) \in Int
      OBVIOUS
    <2>1. IsFiniteSet(Fibre(c)) /\ \A x \in Fibre(c) : f[x] \in Int
      BY FS_Subset
    <2> HIDE DEF Fibre
    <2> QED BY <2>1, SumInt
  <1>1. {} \in G
    <2>1. Over({}) = {}
      OBVIOUS
    <2> HIDE DEF Over, s
    <2> QED BY <2>1, SumEmpty
  <1>2. ASSUME NEW D \in SUBSET C, D # {}, \A c \in D : D \ {c} \in G PROVE D \in G
    <2>1. PICK c \in D : TRUE
      BY <1>2
    <2>2. /\ IsFiniteSet(D) /\ IsFiniteSet(Fibre(c)) /\ IsFiniteSet(Over(D \ {c}))
      BY FS_Subset
    <2>3. /\ Over(D) = Over(D \ {c}) \cup Fibre(c)
          /\ Over(D \ {c}) \cap Fibre(c) = {}
          /\ \A x \in Over(D \ {c}) \cup Fibre(c) : f[x] \in Int
      BY <2>1
    <2>4. SumFunctionOnSet(f, Over(D))
            = SumFunctionOnSet(f, Over(D \ {c})) + SumFunctionOnSet(f, Fibre(c))
      <3> HIDE DEF Over, Fibre
      <3> QED BY <2>2, <2>3, SumUnion
    <2>5. s[c] = SumFunctionOnSet(f, Fibre(c))
      BY <2>1
    <2>6. SumFunctionOnSet(s, D \ {c}) = SumFunctionOnSet(f, Over(D \ {c}))
      BY <1>2, <2>1
    <2> HIDE DEF Over, Fibre, s
    <2>7. SumFunctionOnSet(s, D) = s[c] + SumFunctionOnSet(s, D \ {c})
      <3>1. \A e \in D : s[e] \in Int
        BY <1>0
      <3> QED BY <2>1, <2>2, <3>1, SumRemove
    <2>8. s[c] \in Int /\ SumFunctionOnSet(s, D \ {c}) \in Int
      <3>1. IsFiniteSet(D \ {c}) /\ \A e \in D \ {c} : s[e] \in Int
        BY <1>0, <2>2, FS_Subset
      <3> QED BY <1>0, <2>1, <3>1, SumInt
    <2> QED BY <2>4, <2>5, <2>6, <2>7, <2>8
  <1> HIDE DEF G
  <1>3. \A T \in SUBSET C : T \in G
    BY <1>1, <1>2, SubsetInduction
  <1>4. Over(C) = S
    OBVIOUS
  <1> QED BY <1>3, <1>4 DEF G

\* Rows and columns of a table have the same total.
RowSums(a, S, P) == [i \in S |-> SumFunctionOnSet(a[i], P)]
ColumnSums(a, S, P) == [p \in P |-> SumFunctionOnSet([i \in S |-> a[i][p]], S)]

\* Summing over rows first or over columns first gives the same.
LEMMA SumSwap ==
  ASSUME NEW a, NEW S, NEW P, IsFiniteSet(S), IsFiniteSet(P),
         \A i \in S, p \in P : a[i][p] \in Int
  PROVE  SumFunctionOnSet(ColumnSums(a, S, P), P) = SumFunctionOnSet(RowSums(a, S, P), S)
  <1> DEFINE b(p) == [i \in S |-> a[i][p]]
             columns == ColumnSums(a, S, P)
             Rest(Q) == RowSums(a, S, Q)
             G == {Q \in SUBSET P : SumFunctionOnSet(columns, Q) = SumFunctionOnSet(Rest(Q), S)}
  <1>c. \A p \in P : columns[p] = SumFunctionOnSet(b(p), S)
    BY DEF ColumnSums
  <1>r. \A i \in S : \A Q : Rest(Q)[i] = SumFunctionOnSet(a[i], Q)
    BY DEF RowSums
  <1>0. \A p \in P : columns[p] \in Int
    <2> SUFFICES ASSUME NEW p \in P PROVE SumFunctionOnSet(b(p), S) \in Int
      BY <1>c
    <2>1. \A i \in S : b(p)[i] \in Int
      OBVIOUS
    <2> HIDE DEF b
    <2> QED BY <2>1, SumInt
  <1>1. {} \in G
    <2> DEFINE z == Rest({})
    <2>1. \A i \in S : z[i] = 0
      BY <1>r, SumEmpty
    <2> HIDE DEF z
    <2>2. SumFunctionOnSet(z, S) = 0
      BY <2>1, SumZero
    <2> QED BY <2>2, SumEmpty DEF z
  <1>2. ASSUME NEW Q \in SUBSET P, Q # {}, \A p \in Q : Q \ {p} \in G PROVE Q \in G
    <2>1. PICK p \in Q : TRUE
      BY <1>2
    <2>2. IsFiniteSet(Q) /\ IsFiniteSet(Q \ {p})
      BY FS_Subset
    <2>3. \A i \in S : /\ b(p)[i] \in Int /\ Rest(Q \ {p})[i] \in Int
                       /\ Rest(Q)[i] = b(p)[i] + Rest(Q \ {p})[i]
      <3> SUFFICES ASSUME NEW i \in S
                   PROVE  /\ a[i][p] \in Int /\ SumFunctionOnSet(a[i], Q \ {p}) \in Int
                          /\ SumFunctionOnSet(a[i], Q)
                               = a[i][p] + SumFunctionOnSet(a[i], Q \ {p})
        BY <1>r
      <3>1. \A q \in Q : a[i][q] \in Int
        OBVIOUS
      <3> QED BY <2>1, <2>2, <3>1, SumRemove, SumInt
    <2>4. columns[p] = SumFunctionOnSet(b(p), S)
      BY <1>c, <2>1
    <2>5. SumFunctionOnSet(columns, Q \ {p}) = SumFunctionOnSet(Rest(Q \ {p}), S)
      BY <1>2, <2>1
    <2> HIDE DEF Rest, b
    <2>6. SumFunctionOnSet(Rest(Q), S)
            = SumFunctionOnSet(b(p), S) + SumFunctionOnSet(Rest(Q \ {p}), S)
      <3>1. ASSUME NEW f, NEW g, NEW h, h = Rest(Q), f = b(p), g = Rest(Q \ {p})
            PROVE  SumFunctionOnSet(h, S) = SumFunctionOnSet(f, S) + SumFunctionOnSet(g, S)
        <4>1. \A i \in S : f[i] \in Int /\ g[i] \in Int /\ h[i] = f[i] + g[i]
          BY <2>3, <3>1
        <4> QED BY <4>1, SumPlus
      <3> QED BY <3>1
    <2>7. SumFunctionOnSet(columns, Q) = columns[p] + SumFunctionOnSet(columns, Q \ {p})
      <3>1. \A q \in Q : columns[q] \in Int
        BY <1>0
      <3> QED BY <2>1, <2>2, <3>1, SumRemove
    <2> QED BY <2>4, <2>5, <2>6, <2>7
  <1> HIDE DEF G
  <1>3. \A T \in SUBSET P : T \in G
    BY <1>1, <1>2, SubsetInduction
  <1> QED BY <1>3 DEF G

\* A sum over other names for the elements.
LEMMA SumRenamed ==
  ASSUME NEW f, NEW S, IsFiniteSet(S), NEW b, \A x, y \in S : b[x] = b[y] => x = y,
         \A x \in S : f[b[x]] \in Int
  PROVE  SumFunctionOnSet(f, {b[x] : x \in S}) = SumFunctionOnSet([x \in S |-> f[b[x]]], S)
  <1> DEFINE g == [x \in S |-> f[b[x]]]
             Im(T) == {b[x] : x \in T}
             G == {T \in SUBSET S : /\ IsFiniteSet(Im(T))
                                    /\ SumFunctionOnSet(f, Im(T)) = SumFunctionOnSet(g, T)}
  <1>1. {} \in G
    <2>1. Im({}) = {}
      OBVIOUS
    <2> HIDE DEF g, Im
    <2> QED BY <2>1, SumEmpty, FS_EmptySet
  <1>2. ASSUME NEW T \in SUBSET S, T # {}, \A x \in T : T \ {x} \in G PROVE T \in G
    <2>1. PICK x \in T : TRUE
      BY <1>2
    <2>2. IsFiniteSet(T) /\ IsFiniteSet(T \ {x})
      BY FS_Subset
    <2>3. Im(T) = Im(T \ {x}) \cup {b[x]} /\ Im(T) \ {b[x]} = Im(T \ {x}) /\ b[x] \in Im(T)
      BY <2>1
    <2>4. /\ IsFiniteSet(Im(T \ {x}))
          /\ SumFunctionOnSet(f, Im(T \ {x})) = SumFunctionOnSet(g, T \ {x})
      BY <1>2, <2>1
    <2>5. \A y \in Im(T) : f[y] \in Int
      OBVIOUS
    <2>6. (\A y \in T : g[y] \in Int) /\ g[x] = f[b[x]]
      BY <2>1
    <2> HIDE DEF g, Im
    <2>7. IsFiniteSet(Im(T))
      <3>1. IsFiniteSet(Im(T \ {x}) \cup {b[x]})
        BY <2>4, FS_AddElement
      <3> QED BY <2>3, <3>1
    <2>8. SumFunctionOnSet(f, Im(T)) = f[b[x]] + SumFunctionOnSet(f, Im(T) \ {b[x]})
      <3>1. \A y \in Im(T) : SumFunctionOnSet(f, Im(T)) = f[y] + SumFunctionOnSet(f, Im(T) \ {y})
        BY <2>5, <2>7, SumRemove
      <3> QED BY <2>3, <3>1
    <2>9. SumFunctionOnSet(g, T) = g[x] + SumFunctionOnSet(g, T \ {x})
      BY <2>1, <2>2, <2>6, SumRemove
    <2> QED BY <2>3, <2>4, <2>6, <2>7, <2>8, <2>9
  <1> HIDE DEF G
  <1>3. \A T \in SUBSET S : T \in G
    BY <1>1, <1>2, SubsetInduction
  <1> QED BY <1>3 DEF G

-----------------------------------------------------------------------------
(* What an element of a finite set of numbers says about the others.        *)

\* One value is at most the sum.
LEMMA SumHas ==
  ASSUME NEW f, NEW S, IsFiniteSet(S), \A x \in S : f[x] \in Nat, NEW x \in S
  PROVE  f[x] <= SumFunctionOnSet(f, S)
  <1>1. \A y \in S : f[y] \in Int
    OBVIOUS
  <1>2. SumFunctionOnSet(f, S) = f[x] + SumFunctionOnSet(f, S \ {x})
    BY <1>1, SumRemove
  <1>3. SumFunctionOnSet(f, S \ {x}) \in Nat
    BY SumPart
  <1>4. f[x] \in Nat
    OBVIOUS
  <1> QED BY <1>2, <1>3, <1>4

\* The sum over one element.
LEMMA SumOne ==
  ASSUME NEW f, NEW x, f[x] \in Int
  PROVE  SumFunctionOnSet(f, {x}) = f[x]
  <1>1. IsFiniteSet({x}) /\ {x} \ {x} = {} /\ \A y \in {x} : f[y] \in Int
    BY FS_Singleton
  <1>2. SumFunctionOnSet(f, {x}) = f[x] + SumFunctionOnSet(f, {x} \ {x})
    BY <1>1, SumRemove
  <1> QED BY <1>1, <1>2, SumEmpty

\* A finite set of integers that is not empty has a greatest element.
LEMMA GreatestElement ==
  ASSUME NEW S, IsFiniteSet(S), S \subseteq Int, S # {}
  PROVE  \E m \in S : \A x \in S : x <= m
  <1> DEFINE G == {T \in SUBSET S : T # {} => \E m \in T : \A x \in T : x <= m}
  <1>1. {} \in G
    OBVIOUS
  <1>2. ASSUME NEW T \in SUBSET S, T # {}, \A x \in T : T \ {x} \in G PROVE T \in G
    <2>1. PICK y \in T : TRUE
      BY <1>2
    <2>2. CASE T \ {y} = {}
      <3>1. \A x \in T : x <= y
        BY <2>1, <2>2
      <3> QED BY <2>1, <3>1
    <2>3. CASE T \ {y} # {}
      <3>1. PICK m \in T \ {y} : \A x \in T \ {y} : x <= m
        BY <1>2, <2>1, <2>3
      <3>2. m \in Int /\ y \in Int
        BY <2>1, <3>1
      <3>3. CASE y <= m
        BY <3>1, <3>3
      <3>4. CASE ~ (y <= m)
        <4>1. \A x \in T : x <= y
          BY <3>1, <3>2, <3>4
        <4> QED BY <2>1, <4>1
      <3> QED BY <3>3, <3>4
    <2> QED BY <2>2, <2>3
  <1> HIDE DEF G
  <1>3. \A T \in SUBSET S : T \in G
    BY <1>1, <1>2, SubsetInduction
  <1> QED BY <1>3 DEF G

=============================================================================
