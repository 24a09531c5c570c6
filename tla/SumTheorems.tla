---------------------------- MODULE SumTheorems ----------------------------
(***************************************************************************)
(* Facts about finite sums of amounts, for the proofs about the programs,  *)
(* and the induction they rest on: a set that contains a least             *)
(* counterexample's predecessors contains it too, so there is none.        *)
(***************************************************************************)
EXTENDS Sums, Sequences, FiniteSetTheorems, TLAPS

-----------------------------------------------------------------------------
(* Induction *)

\* A set that contains 0 and with a number its successor contains all.
LEMMA NatSetInduction ==
  ASSUME NEW P, 0 \in P, \A n \in Nat : n \in P => n + 1 \in P
  PROVE  Nat \subseteq P
<1> DEFINE Bad == {n \in Nat : n \notin P}
           Less == {ss \in Nat \X Nat : ss[1] < ss[2]}
<1> SUFFICES ASSUME Bad # {} PROVE FALSE
  OBVIOUS
<1>1. IsWellFoundedOn(Less, Nat)
  BY NatLessThanWellFounded DEF OpToRel
<1>2. PICK n \in Bad : \A m \in Bad : <<m, n>> \notin Less
  <2>1. Bad \subseteq Nat
    OBVIOUS
  <2> HIDE DEF Bad, Less
  <2> QED BY <1>1, <2>1, WFMin
<1>3. n - 1 \in Nat /\ n - 1 \in P
  <2>1. n # 0
    OBVIOUS
  <2>2. n - 1 \in Nat /\ <<n - 1, n>> \in Less
    BY <2>1
  <2> QED BY <1>2, <2>2
<1>4. (n - 1) + 1 = n
  OBVIOUS
<1> QED BY <1>3, <1>4

\* The same for the subsets of a finite set, one element at a time.
LEMMA FiniteSetInduction ==
  ASSUME NEW S, IsFiniteSet(S), NEW P, {} \in P,
         \A T \in SUBSET S : T # {} /\ (\A x \in T : T \ {x} \in P) => T \in P
  PROVE  SUBSET S \subseteq P
<1> DEFINE Bad == {T \in SUBSET S : T \notin P}
<1> SUFFICES ASSUME Bad # {} PROVE FALSE
  OBVIOUS
<1>1. IsWellFoundedOn(StrictSubsetOrdering(S), FiniteSubsetsOf(S))
  BY FS_StrictSubsetOrderingWellFounded
<1>2. Bad \subseteq FiniteSubsetsOf(S)
  BY FS_FiniteSubsetsOfFinite
<1>3. PICK T \in Bad : \A U \in Bad : <<U, T>> \notin StrictSubsetOrdering(S)
  <2> HIDE DEF Bad
  <2> QED BY <1>1, <1>2, WFMin
<1>4. ASSUME NEW x \in T PROVE T \ {x} \in P
  <2>1. <<T \ {x}, T>> \in StrictSubsetOrdering(S)
    BY DEF StrictSubsetOrdering
  <2> QED BY <1>3, <2>1
<1> QED BY <1>4

-----------------------------------------------------------------------------
(* Recursive functions *)

\* g is defined by recursion from b to e: it starts at x, and s[k] is the step to k
ByRecursion(g, V, b, e, x, s) ==
  /\ g \in [b .. e -> V] /\ g[b] = x
  /\ \A k \in b + 1 .. e : g[k] = s[k][g[k - 1]]

\* There is such a function.
LEMMA Recursion ==
  ASSUME NEW V, NEW b \in Nat, NEW e \in Nat, b <= e, NEW x \in V, NEW s \in [Nat -> [V -> V]]
  PROVE  \E g : ByRecursion(g, V, b, e, x, s)
<1> DEFINE Good(g, m) == ByRecursion(g, V, b, m, x, s)
           P == {m \in Nat : b <= m => \E g : Good(g, m)}
<1>1. \E g : Good(g, b)
  <2> DEFINE g == [k \in b .. b |-> x]
  <2>1. Good(g, b)
    BY DEF ByRecursion
  <2> QED BY <2>1
<1>2. 0 \in P
  <2>1. b <= 0 => b = 0
    OBVIOUS
  <2> HIDE DEF Good
  <2> QED BY <1>1, <2>1
<1>3. ASSUME NEW m \in Nat, m \in P PROVE m + 1 \in P
  <2>1. CASE m + 1 <= b
    <3>1. b <= m + 1 => b = m + 1
      BY <2>1
    <3> HIDE DEF Good
    <3> QED BY <1>1, <3>1
  <2>2. CASE b <= m
    <3>1. PICK g : Good(g, m)
      BY <1>3, <2>2
    <3> DEFINE c == m + 1
               y == s[c][g[m]]
               h == [k \in b .. c |-> IF k = c THEN y ELSE g[k]]
    <3>2. c \in Nat /\ b < c /\ \A k \in b .. c : k # c => k \in b .. m
      BY <2>2
    <3>3. m \in b .. m /\ g[m] \in V /\ y \in V
      BY <2>2, <3>1, <3>2 DEF ByRecursion
    <3>4. c - 1 = m
      OBVIOUS
    <3> HIDE DEF c, y
    <3>5. h \in [b .. c -> V] /\ h[b] = x
      <4>1. \A k \in b .. m : g[k] \in V
        BY <3>1 DEF ByRecursion
      <4>2. \A k \in b .. c : (IF k = c THEN y ELSE g[k]) \in V
        BY <3>2, <3>3, <4>1
      <4>3. b \in b .. c /\ b # c /\ g[b] = x
        BY <3>1, <3>2 DEF ByRecursion
      <4> QED BY <4>2, <4>3
    <3>6. ASSUME NEW k \in b + 1 .. c PROVE h[k] = s[k][h[k - 1]]
      <4>1. CASE k = c
        <5>1. h[k] = y /\ h[k - 1] = g[m]
          BY <2>2, <3>2, <3>3, <3>4, <4>1
        <5> QED BY <4>1, <5>1 DEF y
      <4>2. CASE k # c
        <5>1. k \in b + 1 .. m /\ k - 1 \in b .. m /\ k \in b .. c /\ k - 1 \in b .. c /\ k - 1 # c
          BY <3>2, <3>4, <4>2
        <5>2. h[k] = g[k] /\ h[k - 1] = g[k - 1]
          BY <4>2, <5>1
        <5>3. g[k] = s[k][g[k - 1]]
          BY <3>1, <5>1 DEF ByRecursion
        <5> QED BY <5>2, <5>3
      <4> QED BY <4>1, <4>2
    <3> HIDE DEF h
    <3>7. Good(h, c)
      BY <3>5, <3>6 DEF ByRecursion
    <3> HIDE DEF Good
    <3> QED BY <3>2, <3>7 DEF c
  <2> QED BY <2>1, <2>2
<1>4. Nat \subseteq P
  <2> HIDE DEF P
  <2> QED BY <1>2, <1>3, NatSetInduction
<1>5. \E g : Good(g, e)
  <2> HIDE DEF Good
  <2> QED BY <1>4
<1> QED BY <1>5

\* What holds at b and is kept by every step holds all the way to e.
LEMMA Along ==
  ASSUME NEW V, NEW b \in Nat, NEW e \in Nat, NEW g, g[b] \in V,
         \A k \in b + 1 .. e : g[k - 1] \in V => g[k] \in V
  PROVE  \A k \in b .. e : g[k] \in V
<1> DEFINE P == {m \in Nat : m \in b .. e => g[m] \in V}
<1>1. 0 \in P
  OBVIOUS
<1>2. ASSUME NEW m \in Nat, m \in P PROVE m + 1 \in P
  <2> DEFINE k == m + 1
  <2> SUFFICES ASSUME k \in b .. e PROVE g[k] \in V
    OBVIOUS
  <2>1. k \in Nat /\ k - 1 = m
    OBVIOUS
  <2>2. CASE k = b
    BY <2>2
  <2>3. CASE k # b
    <3>1. m \in b .. e /\ k \in b + 1 .. e
      BY <2>3
    <3>2. g[m] \in V
      BY <1>2, <3>1
    <3> HIDE DEF k
    <3> QED BY <2>1, <3>1, <3>2
  <2> QED BY <2>2, <2>3
<1>3. Nat \subseteq P
  <2> HIDE DEF P
  <2> QED BY <1>1, <1>2, NatSetInduction
<1> QED BY <1>3

-----------------------------------------------------------------------------
(* SumOver takes away one chosen element at a time.                        *)

AnyOf(s) == CHOOSE x \in s : TRUE

\* g is the sum of f for every set in D
SumsIn(g, f, D) == g = [s \in D |-> IF s = {} THEN 0 ELSE f[AnyOf(s)] + g[s \ {AnyOf(s)}]]

\* SumOver is one of the functions that satisfy the recursion, if there is one.
LEMMA SumChosen ==
  ASSUME NEW f, NEW S
  PROVE  SumOver(f, S) = (CHOOSE g : SumsIn(g, f, SUBSET S))[S]
BY DEF SumOver, MapThenSumSet, MapThenFoldSet, SumsIn, AnyOf

\* The sets with at most n elements
UpTo(S, n) == {s \in SUBSET S : Cardinality(s) <= n}

\* There is one: it is built for larger and larger sets.
LEMMA SumsExist ==
  ASSUME NEW f, NEW S, IsFiniteSet(S)
  PROVE  \E g : SumsIn(g, f, SUBSET S)
<1> DEFINE P == {n \in Nat : \E g : SumsIn(g, f, UpTo(S, n))}
<1>0. \A s \in SUBSET S : IsFiniteSet(s) /\ Cardinality(s) \in Nat
  BY FS_Subset, FS_CardinalityType
<1>1. 0 \in P
  <2> DEFINE g == [s \in UpTo(S, 0) |-> 0]
  <2>1. \A s \in UpTo(S, 0) : s = {}
    BY <1>0, FS_EmptySet DEF UpTo
  <2>2. SumsIn(g, f, UpTo(S, 0))
    BY <2>1 DEF SumsIn
  <2> QED BY <2>2
<1>2. ASSUME NEW n \in Nat, n \in P PROVE n + 1 \in P
  <2>1. PICK g : SumsIn(g, f, UpTo(S, n))
    BY <1>2
  <2> DEFINE h == [s \in UpTo(S, n + 1) |-> IF s = {} THEN 0 ELSE f[AnyOf(s)] + g[s \ {AnyOf(s)}]]
  <2>2. \A s \in UpTo(S, n) : s \in UpTo(S, n + 1) /\ h[s] = g[s]
    <3>1. UpTo(S, n) \subseteq UpTo(S, n + 1)
      BY <1>0 DEF UpTo
    <3> QED BY <3>1, <2>1 DEF SumsIn
  <2>3. ASSUME NEW s \in UpTo(S, n + 1), s # {}
        PROVE  s \ {AnyOf(s)} \in UpTo(S, n)
    <3>1. AnyOf(s) \in s
      BY <2>3 DEF AnyOf
    <3>2. Cardinality(s \ {AnyOf(s)}) = Cardinality(s) - 1 /\ Cardinality(s) \in Nat
      BY <1>0, <3>1, FS_RemoveElement DEF UpTo
    <3> QED BY <3>2, <2>3 DEF UpTo
  <2>4. SumsIn(h, f, UpTo(S, n + 1))
    <3> SUFFICES ASSUME NEW s \in UpTo(S, n + 1), s # {}
                 PROVE  h[s] = f[AnyOf(s)] + h[s \ {AnyOf(s)}]
      BY DEF SumsIn
    <3> QED BY <2>2, <2>3
  <2> QED BY <2>4
<1>3. Nat \subseteq P
  <2> HIDE DEF P
  <2> QED BY <1>1, <1>2, NatSetInduction
<1>4. UpTo(S, Cardinality(S)) = SUBSET S
  BY FS_Subset DEF UpTo
<1>5. Cardinality(S) \in P
  BY <1>0, <1>3
<1> QED BY <1>4, <1>5

\* Two of them agree on the sets that both are about.
LEMMA SumsAgree ==
  ASSUME NEW f, NEW S, IsFiniteSet(S), NEW T \in SUBSET S, NEW g, NEW h,
         SumsIn(g, f, SUBSET S), SumsIn(h, f, SUBSET T)
  PROVE  g[T] = h[T]
<1> DEFINE P == {U \in SUBSET T : g[U] = h[U]}
<1>1. {} \in P
  BY DEF SumsIn
<1>2. ASSUME NEW U \in SUBSET T, U # {}, \A x \in U : U \ {x} \in P
      PROVE  U \in P
  <2>1. AnyOf(U) \in U
    BY <1>2 DEF AnyOf
  <2> QED BY <1>2, <2>1 DEF SumsIn
<1>3. SUBSET T \subseteq P
  <2>1. IsFiniteSet(T)
    BY FS_Subset
  <2> HIDE DEF P
  <2> QED BY <1>1, <1>2, <2>1, FiniteSetInduction
<1> QED BY <1>3

\* The sum over no elements is 0, over others that of a chosen element and the rest.
LEMMA SumUnfold ==
  ASSUME NEW f, NEW S, IsFiniteSet(S)
  PROVE  SumOver(f, S) = IF S = {} THEN 0 ELSE f[AnyOf(S)] + SumOver(f, S \ {AnyOf(S)})
<1> DEFINE g(T) == CHOOSE g : SumsIn(g, f, SUBSET T)
<1>1. ASSUME NEW T \in SUBSET S PROVE SumsIn(g(T), f, SUBSET T) /\ SumOver(f, T) = g(T)[T]
  <2>1. IsFiniteSet(T)
    BY FS_Subset
  <2>2. \E h : SumsIn(h, f, SUBSET T)
    BY <2>1, SumsExist
  <2> QED BY <2>2, SumChosen
<1> DEFINE R == S \ {AnyOf(S)}
<1>2. g(S)[R] = g(R)[R]
  <2>1. R \in SUBSET S /\ S \in SUBSET S
    OBVIOUS
  <2>2. SumsIn(g(S), f, SUBSET S) /\ SumsIn(g(R), f, SUBSET R)
    BY <1>1, <2>1
  <2> HIDE DEF g, R
  <2> QED BY <2>1, <2>2, SumsAgree
<1>3. g(S)[S] = IF S = {} THEN 0 ELSE f[AnyOf(S)] + g(S)[R]
  <2> HIDE DEF g
  <2> QED BY <1>1 DEF SumsIn
<1> HIDE DEF g
<1> QED BY <1>1, <1>2, <1>3

-----------------------------------------------------------------------------
(* What the proofs about the system use.                                   *)

\* Nothing adds up to 0.
LEMMA SumEmpty ==
  ASSUME NEW f
  PROVE  SumOver(f, {}) = 0
<1>1. IsFiniteSet({})
  BY FS_EmptySet
<1> QED BY <1>1, SumUnfold

\* A sum of integers is one.
LEMMA SumType ==
  ASSUME NEW f, NEW S, IsFiniteSet(S), \A x \in S : f[x] \in Int
  PROVE  SumOver(f, S) \in Int
<1> DEFINE P == {T \in SUBSET S : SumOver(f, T) \in Int}
<1>1. {} \in P
  BY SumEmpty
<1>2. ASSUME NEW T \in SUBSET S, T # {}, \A x \in T : T \ {x} \in P
      PROVE  T \in P
  <2>1. AnyOf(T) \in T
    BY <1>2 DEF AnyOf
  <2>2. IsFiniteSet(T)
    BY FS_Subset
  <2>3. SumOver(f, T) = f[AnyOf(T)] + SumOver(f, T \ {AnyOf(T)})
    BY <1>2, <2>2, SumUnfold
  <2>4. SumOver(f, T \ {AnyOf(T)}) \in Int /\ f[AnyOf(T)] \in Int
    BY <1>2, <2>1
  <2> QED BY <2>3, <2>4
<1>3. SUBSET S \subseteq P
  <2> HIDE DEF P
  <2> QED BY <1>1, <1>2, FiniteSetInduction
<1> QED BY <1>3

\* It does not matter which element is taken away.
LEMMA SumRemove ==
  ASSUME NEW f, NEW S, IsFiniteSet(S), \A x \in S : f[x] \in Int, NEW x \in S
  PROVE  SumOver(f, S) = SumOver(f, S \ {x}) + f[x]
<1> DEFINE P == {T \in SUBSET S : \A y \in T : SumOver(f, T) = SumOver(f, T \ {y}) + f[y]}
<1>0. ASSUME NEW T \in SUBSET S PROVE IsFiniteSet(T) /\ SumOver(f, T) \in Int
  BY FS_Subset, SumType
<1>1. {} \in P
  OBVIOUS
<1>2. ASSUME NEW T \in SUBSET S, T # {}, \A y \in T : T \ {y} \in P
      PROVE  T \in P
  <2> SUFFICES ASSUME NEW y \in T PROVE SumOver(f, T) = SumOver(f, T \ {y}) + f[y]
    OBVIOUS
  <2> DEFINE a == AnyOf(T)
  <2>1. a \in T
    BY DEF AnyOf
  <2>2. SumOver(f, T) = f[a] + SumOver(f, T \ {a})
    BY <1>0, SumUnfold
  <2>3. CASE a = y
    BY <1>0, <2>1, <2>2, <2>3
  <2>4. CASE a # y
    <3>1. SumOver(f, T \ {a}) = SumOver(f, (T \ {a}) \ {y}) + f[y]
      BY <1>2, <2>1, <2>4
    <3>2. SumOver(f, T \ {y}) = SumOver(f, (T \ {y}) \ {a}) + f[a]
      BY <1>2, <2>1, <2>4
    <3>3. (T \ {a}) \ {y} = (T \ {y}) \ {a}
      OBVIOUS
    <3>4. SumOver(f, (T \ {a}) \ {y}) \in Int
      BY <1>0
    <3>5. f[a] \in Int /\ f[y] \in Int
      BY <2>1
    <3>6. SumOver(f, T) = f[a] + (SumOver(f, (T \ {a}) \ {y}) + f[y])
      BY <2>2, <3>1
    <3>7. SumOver(f, T \ {y}) = SumOver(f, (T \ {a}) \ {y}) + f[a]
      BY <3>2, <3>3
    <3>8. \A p, q, r \in Int : p + (r + q) = (r + p) + q
      OBVIOUS
    <3> QED BY <3>4, <3>5, <3>6, <3>7, <3>8
  <2> QED BY <2>3, <2>4
<1>3. SUBSET S \subseteq P
  <2> HIDE DEF P
  <2> QED BY <1>1, <1>2, FiniteSetInduction
<1> QED BY <1>3

\* Adding an element adds its amount.
LEMMA SumAdd ==
  ASSUME NEW f, NEW S, IsFiniteSet(S), NEW x, x \notin S,
         \A y \in S \cup {x} : f[y] \in Int
  PROVE  SumOver(f, S \cup {x}) = SumOver(f, S) + f[x]
<1>1. IsFiniteSet(S \cup {x}) /\ (S \cup {x}) \ {x} = S
  BY FS_AddElement
<1> HIDE DEF SumOver
<1> QED BY <1>1, SumRemove

\* Only the amounts of the elements matter.
LEMMA SumSame ==
  ASSUME NEW f, NEW g, NEW S, IsFiniteSet(S), \A x \in S : f[x] = g[x]
  PROVE  SumOver(f, S) = SumOver(g, S)
<1> DEFINE P == {T \in SUBSET S : SumOver(f, T) = SumOver(g, T)}
<1>1. {} \in P
  BY SumEmpty
<1>2. ASSUME NEW T \in SUBSET S, T # {}, \A x \in T : T \ {x} \in P
      PROVE  T \in P
  <2>1. AnyOf(T) \in T
    BY <1>2 DEF AnyOf
  <2>2. IsFiniteSet(T)
    BY FS_Subset
  <2>3. /\ SumOver(f, T) = f[AnyOf(T)] + SumOver(f, T \ {AnyOf(T)})
        /\ SumOver(g, T) = g[AnyOf(T)] + SumOver(g, T \ {AnyOf(T)})
    BY <1>2, <2>2, SumUnfold
  <2>4. SumOver(f, T \ {AnyOf(T)}) = SumOver(g, T \ {AnyOf(T)}) /\ f[AnyOf(T)] = g[AnyOf(T)]
    BY <1>2, <2>1
  <2> QED BY <2>3, <2>4
<1>3. SUBSET S \subseteq P
  <2> HIDE DEF P
  <2> QED BY <1>1, <1>2, FiniteSetInduction
<1> QED BY <1>3

\* Larger amounts of more elements make a larger sum.
LEMMA SumMonotone ==
  ASSUME NEW f, NEW g, NEW S, NEW T, IsFiniteSet(T), S \subseteq T,
         \A x \in S : f[x] \in Int /\ f[x] <= g[x],
         \A x \in T : g[x] \in Int,
         \A x \in T \ S : 0 <= g[x]
  PROVE  SumOver(f, S) <= SumOver(g, T)
<1> DEFINE P == {U \in SUBSET T : SumOver(f, U \cap S) <= SumOver(g, U)}
<1>1. {} \in P
  <2>1. {} \cap S = {}
    OBVIOUS
  <2>2. SumOver(f, {}) = 0 /\ SumOver(g, {}) = 0
    BY SumEmpty
  <2> QED BY <2>1, <2>2
<1>2. ASSUME NEW U \in SUBSET T, U # {}, \A x \in U : U \ {x} \in P
      PROVE  U \in P
  <2>1. PICK x \in U : TRUE
    BY <1>2
  <2>2. IsFiniteSet(U) /\ IsFiniteSet(U \cap S) /\ IsFiniteSet((U \ {x}) \cap S) /\ IsFiniteSet(U \ {x})
    BY FS_Subset
  <2>3. SumOver(g, U) = SumOver(g, U \ {x}) + g[x]
    BY <2>2, SumRemove
  <2>4. /\ SumOver(g, U \ {x}) \in Int /\ g[x] \in Int
        /\ SumOver(f, (U \ {x}) \cap S) \in Int
    BY <2>2, SumType
  <2>5. SumOver(f, (U \ {x}) \cap S) <= SumOver(g, U \ {x})
    BY <1>2
  <2>6. CASE x \in S
    <3>1. (U \cap S) \ {x} = (U \ {x}) \cap S
      OBVIOUS
    <3>2. SumOver(f, U \cap S) = SumOver(f, (U \ {x}) \cap S) + f[x]
      BY <2>2, <2>6, <3>1, SumRemove
    <3> QED BY <2>3, <2>4, <2>5, <2>6, <3>2
  <2>7. CASE x \notin S
    <3>1. U \cap S = (U \ {x}) \cap S
      BY <2>7
    <3>2. 0 <= g[x]
      BY <2>7
    <3>3. SumOver(f, U \cap S) = SumOver(f, (U \ {x}) \cap S)
      BY <3>1
    <3>4. SumOver(f, U \cap S) <= SumOver(g, U)
      BY <2>3, <2>4, <2>5, <3>2, <3>3
    <3> QED BY <3>4
  <2> QED BY <2>6, <2>7
<1>3. SUBSET T \subseteq P
  <2> HIDE DEF P
  <2> QED BY <1>1, <1>2, FiniteSetInduction
<1>4. T \cap S = S
  OBVIOUS
<1> QED BY <1>3, <1>4

\* When one amount changes, the sum changes by the difference.
LEMMA SumChange ==
  ASSUME NEW f, NEW g, NEW S, IsFiniteSet(S), NEW x \in S,
         \A y \in S : f[y] \in Int,
         g[x] \in Int, \A y \in S \ {x} : g[y] = f[y]
  PROVE  SumOver(g, S) = SumOver(f, S) + (g[x] - f[x])
<1>1. IsFiniteSet(S \ {x})
  BY FS_Subset
<1>2. SumOver(g, S \ {x}) = SumOver(f, S \ {x})
  BY <1>1, SumSame
<1>3. SumOver(f, S \ {x}) \in Int /\ f[x] \in Int
  BY <1>1, SumType
<1>4. SumOver(f, S) = SumOver(f, S \ {x}) + f[x]
  BY SumRemove
<1>5. \A y \in S : g[y] \in Int
  OBVIOUS
<1>6. SumOver(g, S) = SumOver(g, S \ {x}) + g[x]
  BY <1>5, SumRemove
<1> QED BY <1>2, <1>3, <1>4, <1>6

\* One amount is at most the sum, when no amount is negative.
LEMMA SumCovers ==
  ASSUME NEW f, NEW S, IsFiniteSet(S), NEW x \in S, \A y \in S : f[y] \in Nat
  PROVE  f[x] <= SumOver(f, S)
<1>1. IsFiniteSet(S \ {x}) /\ IsFiniteSet({})
  BY FS_Subset, FS_EmptySet
<1>2. SumOver(f, S) = SumOver(f, S \ {x}) + f[x]
  BY SumRemove
<1>3. SumOver(f, {}) <= SumOver(f, S \ {x})
  BY <1>1, SumMonotone
<1>4. SumOver(f, {}) = 0 /\ SumOver(f, S \ {x}) \in Int
  BY <1>1, SumEmpty, SumType
<1> QED BY <1>2, <1>3, <1>4

\* Nothing in every account is nothing.
LEMMA SumZero ==
  ASSUME NEW f, NEW S, IsFiniteSet(S), \A x \in S : f[x] = 0
  PROVE  SumOver(f, S) = 0
<1> DEFINE P == {T \in SUBSET S : SumOver(f, T) = 0}
<1>1. {} \in P
  BY SumEmpty
<1>2. ASSUME NEW T \in SUBSET S, T # {}, \A x \in T : T \ {x} \in P
      PROVE  T \in P
  <2>1. PICK x \in T : TRUE
    BY <1>2
  <2>2. IsFiniteSet(T) /\ \A y \in T : f[y] \in Int
    BY FS_Subset
  <2>3. SumOver(f, T) = SumOver(f, T \ {x}) + f[x]
    BY <2>2, SumRemove
  <2>4. SumOver(f, T \ {x}) = 0 /\ f[x] = 0
    BY <1>2, <2>1
  <2> QED BY <2>3, <2>4
<1>3. SUBSET S \subseteq P
  <2> HIDE DEF P
  <2> QED BY <1>1, <1>2, FiniteSetInduction
<1> QED BY <1>3

\* The sum of differences is the difference of the sums.
LEMMA SumMinus ==
  ASSUME NEW f, NEW g, NEW h, NEW S, IsFiniteSet(S),
         \A x \in S : f[x] \in Int /\ g[x] \in Int /\ h[x] = f[x] - g[x]
  PROVE  SumOver(h, S) = SumOver(f, S) - SumOver(g, S)
<1> DEFINE P == {T \in SUBSET S : SumOver(h, T) = SumOver(f, T) - SumOver(g, T)}
<1>1. {} \in P
  BY SumEmpty
<1>2. ASSUME NEW T \in SUBSET S, T # {}, \A x \in T : T \ {x} \in P
      PROVE  T \in P
  <2>1. PICK x \in T : TRUE
    BY <1>2
  <2> DEFINE R == T \ {x}
  <2>2. /\ IsFiniteSet(T) /\ IsFiniteSet(R)
        /\ \A y \in T : f[y] \in Int /\ g[y] \in Int /\ h[y] \in Int /\ h[y] = f[y] - g[y]
    BY FS_Subset
  <2>3. SumOver(f, R) \in Int /\ SumOver(g, R) \in Int
    BY <2>2, SumType
  <2>4. /\ SumOver(f, T) = SumOver(f, R) + f[x]
        /\ SumOver(g, T) = SumOver(g, R) + g[x]
        /\ SumOver(h, T) = SumOver(h, R) + h[x]
    BY <2>2, SumRemove
  <2>5. SumOver(h, R) = SumOver(f, R) - SumOver(g, R)
    BY <1>2, <2>1
  <2> HIDE DEF R
  <2>6. SumOver(h, T) = SumOver(f, T) - SumOver(g, T)
    BY <2>1, <2>2, <2>3, <2>4, <2>5
  <2> QED BY <2>6
<1>3. SUBSET S \subseteq P
  <2> HIDE DEF P
  <2> QED BY <1>1, <1>2, FiniteSetInduction
<1> QED BY <1>3

\* A sum of natural numbers is one.
LEMMA SumNat ==
  ASSUME NEW f, NEW S, IsFiniteSet(S), \A x \in S : f[x] \in Nat
  PROVE  SumOver(f, S) \in Nat
<1>1. SumOver(f, {}) = 0
  BY SumEmpty
<1>2. SumOver(f, {}) <= SumOver(f, S)
  BY SumMonotone
<1> QED BY <1>1, <1>2, SumType

\* One account gets another amount.
LEMMA SumExcept ==
  ASSUME NEW S, IsFiniteSet(S), NEW f \in [S -> Nat], NEW u \in S, NEW g \in [S -> Nat],
         \A v \in S \ {u} : g[v] = f[v]
  PROVE  SumOver(f, S) \in Nat /\ SumOver(g, S) = SumOver(f, S) + (g[u] - f[u])
<1>1. (\A v \in S : f[v] \in Int) /\ g[u] \in Int
  OBVIOUS
<1>2. SumOver(g, S) = SumOver(f, S) + (g[u] - f[u])
  BY <1>1, SumChange
<1>3. SumOver(f, S) \in Nat
  BY SumNat
<1> QED BY <1>2, <1>3

\* a has the m numbers of s, and then the n numbers of t
Joined(a, s, m, t, n) ==
  /\ m \in Nat /\ n \in Nat
  /\ \A i \in 1 .. m : a[i] = s[i] /\ s[i] \in Int
  /\ \A i \in 1 .. n : a[m + i] = t[i] /\ t[i] \in Int

\* The sum along a sequence is the sum along its two parts.
LEMMA SumParts ==
  ASSUME NEW a, NEW s, NEW t, NEW m, NEW len, Joined(a, s, m, t, len)
  PROVE  /\ SumOver(a, 1 .. m + len) = SumOver(s, 1 .. m) + SumOver(t, 1 .. len)
         /\ SumOver(s, 1 .. m) \in Int /\ SumOver(t, 1 .. len) \in Int
<1> USE DEF Joined
<1> DEFINE P == {n \in Nat : n <= len =>
                   SumOver(a, 1 .. m + n) = SumOver(s, 1 .. m) + SumOver(t, 1 .. n)}
<1>1. \A i \in 1 .. m + len : a[i] \in Int
  <2> SUFFICES ASSUME NEW i \in 1 .. m + len PROVE a[i] \in Int
    OBVIOUS
  <2>1. CASE i > m
    <3>1. i - m \in 1 .. len /\ i = m + (i - m)
      BY <2>1
    <3> QED BY <3>1
  <2> QED BY <2>1
<1>2. \A n \in Nat : IsFiniteSet(1 .. n)
  BY FS_Interval
<1>3. SumOver(s, 1 .. m) \in Int /\ \A n \in 0 .. len : SumOver(t, 1 .. n) \in Int
  <2>1. ASSUME NEW n \in 0 .. len PROVE SumOver(t, 1 .. n) \in Int
    <3>1. IsFiniteSet(1 .. n) /\ \A i \in 1 .. n : t[i] \in Int
      BY <1>1, <1>2
    <3> QED BY <3>1, SumType
  <2>2. IsFiniteSet(1 .. m) /\ \A i \in 1 .. m : s[i] \in Int
    BY <1>1, <1>2
  <2> QED BY <2>1, <2>2, SumType
<1>4. 0 \in P
  <2>1. 1 .. m + 0 = 1 .. m /\ 1 .. 0 = {} /\ IsFiniteSet(1 .. m)
    BY <1>1, <1>2
  <2>2. SumOver(a, 1 .. m) = SumOver(s, 1 .. m)
    <3> DEFINE I == 1 .. m
    <3>1. IsFiniteSet(I) /\ \A i \in I : a[i] = s[i]
      BY <1>1, <2>1
    <3> HIDE DEF I
    <3>2. SumOver(a, I) = SumOver(s, I)
      BY <3>1, SumSame
    <3> QED BY <3>2 DEF I
  <2>3. SumOver(t, 1 .. 0) = 0
    BY <2>1, SumEmpty
  <2> QED BY <1>3, <2>1, <2>2, <2>3
<1>5. ASSUME NEW n \in Nat, n \in P PROVE n + 1 \in P
  <2> SUFFICES ASSUME n + 1 <= len
               PROVE  SumOver(a, 1 .. m + (n + 1)) = SumOver(s, 1 .. m) + SumOver(t, 1 .. n + 1)
    OBVIOUS
  <2>1. SumOver(a, 1 .. m + n) = SumOver(s, 1 .. m) + SumOver(t, 1 .. n)
    BY <1>1, <1>5
  <2> DEFINE I == 1 .. m + n
             J == 1 .. n
             k == m + (n + 1)
             l == n + 1
  <2>2. 1 .. k = I \cup {k} /\ k \notin I /\ 1 .. l = J \cup {l} /\ l \notin J
    <3>1. \A b \in Nat : 1 .. b + 1 = (1 .. b) \cup {b + 1} /\ b + 1 \notin 1 .. b
      OBVIOUS
    <3>2. m + n \in Nat /\ k = (m + n) + 1
      BY <1>1
    <3> QED BY <3>1, <3>2
  <2>3. IsFiniteSet(I) /\ IsFiniteSet(J)
    BY <1>1, <1>2
  <2>4. l \in 1 .. len /\ a[k] = t[l] /\ t[l] \in Int
    BY <1>1
  <2>5. (\A i \in I \cup {k} : a[i] \in Int) /\ \A i \in J \cup {l} : t[i] \in Int
    BY <1>1
  <2>6. SumOver(t, J) \in Int
    BY <1>3
  <2> HIDE DEF I, J, k, l
  <2>7. SumOver(a, I \cup {k}) = SumOver(a, I) + a[k]
    BY <2>2, <2>3, <2>5, SumAdd
  <2>8. SumOver(t, J \cup {l}) = SumOver(t, J) + t[l]
    BY <2>2, <2>3, <2>5, SumAdd
  <2>9. SumOver(a, 1 .. k) = SumOver(s, 1 .. m) + SumOver(t, 1 .. l)
    <3>1. SumOver(a, I) = SumOver(s, 1 .. m) + SumOver(t, J)
      BY <2>1 DEF I, J
    <3>2. SumOver(a, 1 .. k) = SumOver(a, I) + a[k]
      BY <2>2, <2>7
    <3>3. SumOver(t, 1 .. l) = SumOver(t, J) + t[l]
      BY <2>2, <2>8
    <3> QED BY <1>3, <2>4, <2>6, <3>1, <3>2, <3>3
  <2> QED BY <2>9 DEF k, l
<1>6. Nat \subseteq P
  <2> HIDE DEF P
  <2> QED BY <1>4, <1>5, NatSetInduction
<1>7. SumOver(a, 1 .. m + len) = SumOver(s, 1 .. m) + SumOver(t, 1 .. len)
  BY <1>1, <1>6
<1> QED BY <1>3, <1>7

\* the sum of the weights w of the elements of a sequence
Weight(w, s) == SumOver([i \in DOMAIN s |-> w[s[i]]], DOMAIN s)

\* The weights of a sequence are numbers.
LEMMA WeightType ==
  ASSUME NEW S, NEW w \in [S -> Int], NEW s \in Seq(S)
  PROVE  /\ Weight(w, s) = SumOver([i \in 1 .. Len(s) |-> w[s[i]]], 1 .. Len(s))
         /\ \A i \in 1 .. Len(s) : w[s[i]] \in Int
         /\ Weight(w, s) \in Int
<1>1. DOMAIN s = 1 .. Len(s) /\ Len(s) \in Nat /\ \A i \in 1 .. Len(s) : s[i] \in S
  OBVIOUS
<1>2. \A i \in 1 .. Len(s) : w[s[i]] \in Int
  BY <1>1
<1> DEFINE f == [i \in 1 .. Len(s) |-> w[s[i]]]
<1>3. IsFiniteSet(1 .. Len(s)) /\ \A i \in 1 .. Len(s) : f[i] \in Int
  BY <1>1, <1>2, FS_Interval
<1>4. Weight(w, s) = SumOver(f, 1 .. Len(s))
  BY <1>1 DEF Weight
<1> HIDE DEF f
<1>5. SumOver(f, 1 .. Len(s)) \in Int
  BY <1>3, SumType
<1> QED BY <1>2, <1>4, <1>5 DEF f

\* An empty sequence weighs nothing,
LEMMA WeightEmpty ==
  ASSUME NEW w
  PROVE  Weight(w, <<>>) = 0
<1>1. DOMAIN <<>> = {}
  OBVIOUS
<1> QED BY <1>1, SumEmpty DEF Weight

\* What weighs nothing adds up to nothing.
LEMMA WeightZero ==
  ASSUME NEW S, NEW w \in [S -> Int], NEW s \in Seq(S), \A x \in S : w[x] = 0
  PROVE  Weight(w, s) = 0
<1> DEFINE I == 1 .. Len(s)
           f == [i \in I |-> w[s[i]]]
<1>1. Len(s) \in Nat /\ \A i \in I : s[i] \in S
  OBVIOUS
<1>2. IsFiniteSet(I)
  BY <1>1, FS_Interval
<1>3. \A i \in I : f[i] = 0
  BY <1>1
<1>4. Weight(w, s) = SumOver(f, I)
  BY WeightType
<1> HIDE DEF f, I
<1>5. SumOver(f, I) = 0
  BY <1>2, <1>3, SumZero
<1> QED BY <1>4, <1>5

\* the opposite weights
Minus(w, S) == [x \in S |-> 0 - w[x]]

\* The weight of opposite numbers is the opposite.
LEMMA WeightNegative ==
  ASSUME NEW S, NEW w \in [S -> Int], NEW s \in Seq(S)
  PROVE  Weight(Minus(w, S), s) = 0 - Weight(w, s)
<1> DEFINE z == Minus(w, S)
<1>0. z \in [S -> Int] /\ \A x \in S : z[x] = 0 - w[x]
  BY DEF Minus
<1> HIDE DEF z
<1> DEFINE I == 1 .. Len(s)
           f == [i \in I |-> 0]
           g == [i \in I |-> w[s[i]]]
           h == [i \in I |-> z[s[i]]]
<1>1. Len(s) \in Nat /\ \A i \in I : s[i] \in S
  OBVIOUS
<1>2. IsFiniteSet(I)
  BY <1>1, FS_Interval
<1>3. \A i \in I : f[i] = 0 /\ g[i] \in Int /\ h[i] = 0 - g[i]
  BY <1>0, <1>1
<1>4. Weight(w, s) = SumOver(g, I) /\ Weight(z, s) = SumOver(h, I)
  BY <1>0, WeightType
<1> HIDE DEF f, g, h, I
<1>5. \A i \in I : f[i] \in Int /\ g[i] \in Int /\ h[i] = f[i] - g[i]
  BY <1>3
<1>6. SumOver(h, I) = SumOver(f, I) - SumOver(g, I)
  BY <1>2, <1>5, SumMinus
<1>7. SumOver(f, I) = 0
  BY <1>2, <1>3, SumZero
<1> QED BY <1>4, <1>6, <1>7 DEF z

\* a single element its own weight,
LEMMA WeightOne ==
  ASSUME NEW S, NEW w \in [S -> Int], NEW x \in S
  PROVE  Weight(w, <<x>>) = w[x]
<1> DEFINE f == [i \in 1 .. 1 |-> w[<<x>>[i]]]
<1>1. <<x>> \in Seq(S) /\ Len(<<x>>) = 1 /\ <<x>>[1] = x
  OBVIOUS
<1>2. Weight(w, <<x>>) = SumOver(f, 1 .. 1)
  BY <1>1, WeightType
<1>3. 1 .. 1 = {} \cup {1} /\ 1 \notin {} /\ f[1] = w[x] /\ f[1] \in Int
  BY <1>1
<1> HIDE DEF f
<1>4. SumOver(f, {} \cup {1}) = SumOver(f, {}) + f[1]
  BY <1>3, SumAdd, FS_EmptySet
<1>5. SumOver(f, {}) = 0
  BY SumEmpty
<1>6. SumOver(f, 1 .. 1) = SumOver(f, {} \cup {1})
  BY <1>3
<1> QED BY <1>2, <1>3, <1>4, <1>5, <1>6

\* and a whole what its parts weigh.
LEMMA WeightConcat ==
  ASSUME NEW S, NEW w \in [S -> Int], NEW s \in Seq(S), NEW t \in Seq(S)
  PROVE  /\ s \o t \in Seq(S)
         /\ Weight(w, s \o t) = Weight(w, s) + Weight(w, t)
<1> DEFINE a == s \o t
           m == Len(s)
           n == Len(t)
           A == [i \in 1 .. m + n |-> w[a[i]]]
           F == [i \in 1 .. m |-> w[s[i]]]
           G == [i \in 1 .. n |-> w[t[i]]]
<1>1. /\ a \in Seq(S) /\ Len(a) = m + n /\ m \in Nat /\ n \in Nat
      /\ \A i \in 1 .. m : a[i] = s[i]
      /\ \A i \in 1 .. n : a[m + i] = t[i]
  OBVIOUS
<1>2. /\ Weight(w, s) = SumOver(F, 1 .. m) /\ Weight(w, t) = SumOver(G, 1 .. n)
      /\ \A i \in 1 .. m : w[s[i]] \in Int
      /\ \A i \in 1 .. n : w[t[i]] \in Int
  BY WeightType
<1> HIDE DEF a
<1>3. Weight(w, a) = SumOver(A, 1 .. m + n)
  <2>1. Weight(w, a) = SumOver([i \in 1 .. Len(a) |-> w[a[i]]], 1 .. Len(a))
    BY <1>1, WeightType
  <2>2. Len(a) = m + n
    BY <1>1
  <2> HIDE DEF m, n
  <2> QED BY <2>1, <2>2
<1> HIDE DEF m, n
<1>4. Joined(A, F, m, G, n)
  <2>1. /\ \A i \in 1 .. m : i \in 1 .. m + n
        /\ \A i \in 1 .. n : m + i \in 1 .. m + n
    BY <1>1
  <2> QED BY <1>1, <1>2, <2>1 DEF Joined
<1> HIDE DEF A, F, G
<1>5. SumOver(A, 1 .. m + n) = SumOver(F, 1 .. m) + SumOver(G, 1 .. n)
  BY <1>4, SumParts
<1> QED BY <1>1, <1>2, <1>3, <1>5 DEF a

\* One element more, or two.
LEMMA WeightAppend ==
  ASSUME NEW S, NEW w \in [S -> Int], NEW s \in Seq(S), NEW x \in S
  PROVE  s \o <<x>> \in Seq(S) /\ Weight(w, s \o <<x>>) = Weight(w, s) + w[x]
<1>1. <<x>> \in Seq(S)
  OBVIOUS
<1>2. Weight(w, <<x>>) = w[x]
  BY WeightOne
<1>3. s \o <<x>> \in Seq(S) /\ Weight(w, s \o <<x>>) = Weight(w, s) + Weight(w, <<x>>)
  BY <1>1, WeightConcat
<1> QED BY <1>2, <1>3

\* Two elements more.
LEMMA WeightAppendTwo ==
  ASSUME NEW S, NEW w \in [S -> Int], NEW s \in Seq(S), NEW x \in S, NEW y \in S
  PROVE  s \o <<x, y>> \in Seq(S) /\ Weight(w, s \o <<x, y>>) = Weight(w, s) + (w[x] + w[y])
<1> DEFINE p == <<x, y>>
           f == [i \in 1 .. 2 |-> w[p[i]]]
<1>1. p \in Seq(S) /\ Len(p) = 2 /\ p[1] = x /\ p[2] = y
  OBVIOUS
<1> HIDE DEF p
<1>2. Weight(w, p) = SumOver(f, 1 .. 2)
  BY <1>1, WeightType
<1>3. /\ 1 .. 2 = {1} \cup {2} /\ {1} = {} \cup {1}
      /\ 1 \notin {} /\ 2 \notin {1}
      /\ f[1] = w[x] /\ f[2] = w[y]
      /\ (\A i \in {} \cup {1} : f[i] \in Int) /\ \A i \in {1} \cup {2} : f[i] \in Int
  BY <1>1
<1> HIDE DEF f
<1>4. IsFiniteSet({}) /\ IsFiniteSet({1})
  BY FS_EmptySet, FS_Singleton
<1>5. SumOver(f, {} \cup {1}) = SumOver(f, {}) + f[1]
  BY <1>3, <1>4, SumAdd
<1>6. SumOver(f, {1} \cup {2}) = SumOver(f, {1}) + f[2]
  BY <1>3, <1>4, SumAdd
<1>7. SumOver(f, {}) = 0
  BY SumEmpty
<1>8. SumOver(f, {1}) = f[1]
  BY <1>3, <1>5, <1>7
<1>9. Weight(w, p) = w[x] + w[y]
  BY <1>2, <1>3, <1>6, <1>8
<1>10. s \o p \in Seq(S) /\ Weight(w, s \o p) = Weight(w, s) + Weight(w, p)
  BY <1>1, WeightConcat
<1> QED BY <1>9, <1>10 DEF p

\* s is a and then b
Follows(s, a, b) ==
  /\ Len(s) = Len(a) + Len(b)
  /\ \A i \in 1 .. Len(a) : s[i] = a[i]
  /\ \A i \in 1 .. Len(b) : s[Len(a) + i] = b[i]

\* A sequence weighs what the parts weigh that it is cut into.
LEMMA WeightCut ==
  ASSUME NEW S, NEW w \in [S -> Int], NEW s \in Seq(S), NEW a \in Seq(S), NEW b \in Seq(S), Follows(s, a, b)
  PROVE  Weight(w, s) = Weight(w, a) + Weight(w, b)
<1> DEFINE m == Len(a)
           n == Len(b)
           A == [i \in 1 .. m + n |-> w[s[i]]]
           F == [i \in 1 .. m |-> w[a[i]]]
           G == [i \in 1 .. n |-> w[b[i]]]
<1>1. m \in Nat /\ n \in Nat
  OBVIOUS
<1>2. /\ Weight(w, a) = SumOver(F, 1 .. m) /\ Weight(w, b) = SumOver(G, 1 .. n)
      /\ \A i \in 1 .. m : w[a[i]] \in Int
      /\ \A i \in 1 .. n : w[b[i]] \in Int
  BY WeightType
<1>3. Weight(w, s) = SumOver(A, 1 .. m + n)
  <2>1. Weight(w, s) = SumOver([i \in 1 .. Len(s) |-> w[s[i]]], 1 .. Len(s))
    BY WeightType
  <2>2. Len(s) = m + n
    BY DEF Follows
  <2> HIDE DEF m, n
  <2> QED BY <2>1, <2>2
<1>4. (\A i \in 1 .. m : s[i] = a[i]) /\ \A i \in 1 .. n : s[m + i] = b[i]
  BY DEF Follows
<1> HIDE DEF m, n
<1>5. Joined(A, F, m, G, n)
  <2>1. /\ \A i \in 1 .. m : i \in 1 .. m + n
        /\ \A i \in 1 .. n : m + i \in 1 .. m + n
    BY <1>1
  <2> QED BY <1>1, <1>2, <1>4, <2>1 DEF Joined
<1> HIDE DEF A, F, G
<1>6. SumOver(A, 1 .. m + n) = SumOver(F, 1 .. m) + SumOver(G, 1 .. n)
  BY <1>5, SumParts
<1> QED BY <1>2, <1>3, <1>6

\* The first element, and the rest.
LEMMA WeightTail ==
  ASSUME NEW S, NEW w \in [S -> Int], NEW s \in Seq(S), s # <<>>
  PROVE  /\ Head(s) \in S /\ Tail(s) \in Seq(S) /\ Len(Tail(s)) = Len(s) - 1
         /\ Weight(w, Tail(s)) = Weight(w, s) - w[Head(s)]
<1> DEFINE a == <<Head(s)>>
           b == Tail(s)
<1>1. /\ Head(s) \in S /\ a \in Seq(S) /\ b \in Seq(S) /\ Len(a) = 1 /\ Len(b) = Len(s) - 1
      /\ Len(s) \in Nat /\ a[1] = s[1] /\ a[1] = Head(s)
      /\ \A i \in 1 .. Len(b) : s[1 + i] = b[i]
  OBVIOUS
<1>2. Weight(w, a) = w[Head(s)]
  BY <1>1, WeightOne
<1> HIDE DEF a, b
<1>3. Follows(s, a, b)
  BY <1>1 DEF Follows
<1>4. Weight(w, s) = Weight(w, a) + Weight(w, b)
  BY <1>1, <1>3, WeightCut
<1>5. Weight(w, a) \in Int /\ Weight(w, b) \in Int
  BY <1>1, WeightType
<1> QED BY <1>1, <1>2, <1>4, <1>5 DEF b

\* A sequence is cut after its first k elements.
LEMMA WeightSplit ==
  ASSUME NEW S, NEW w \in [S -> Int], NEW s \in Seq(S), NEW k \in 0 .. Len(s)
  PROVE  /\ SubSeq(s, 1, k) \in Seq(S) /\ SubSeq(s, k + 1, Len(s)) \in Seq(S)
         /\ Weight(w, s) = Weight(w, SubSeq(s, 1, k)) + Weight(w, SubSeq(s, k + 1, Len(s)))
<1> DEFINE a == SubSeq(s, 1, k)
           b == SubSeq(s, k + 1, Len(s))
<1>1. /\ a \in Seq(S) /\ b \in Seq(S) /\ Len(a) = k /\ Len(b) = Len(s) - k
      /\ k \in Nat /\ Len(s) \in Nat
      /\ \A i \in 1 .. k : s[i] = a[i]
      /\ \A i \in 1 .. Len(s) - k : s[k + i] = b[i]
  OBVIOUS
<1> HIDE DEF a, b
<1>2. Follows(s, a, b)
  BY <1>1 DEF Follows
<1>3. Weight(w, s) = Weight(w, a) + Weight(w, b)
  BY <1>1, <1>2, WeightCut
<1> QED BY <1>1, <1>3 DEF a, b

\* An element put in between,
LEMMA WeightInsert ==
  ASSUME NEW S, NEW w \in [S -> Int], NEW s \in Seq(S), NEW k \in 0 .. Len(s), NEW x \in S
  PROVE  LET t == SubSeq(s, 1, k) \o <<x>> \o SubSeq(s, k + 1, Len(s))
         IN  t \in Seq(S) /\ Weight(w, t) = Weight(w, s) + w[x]
<1> DEFINE a == SubSeq(s, 1, k)
           b == SubSeq(s, k + 1, Len(s))
<1>1. a \in Seq(S) /\ b \in Seq(S) /\ Weight(w, s) = Weight(w, a) + Weight(w, b)
  BY WeightSplit
<1> HIDE DEF a, b
<1>2. a \o <<x>> \in Seq(S) /\ Weight(w, a \o <<x>>) = Weight(w, a) + w[x]
  BY <1>1, WeightAppend
<1> DEFINE c == a \o <<x>>
<1> HIDE DEF c
<1>3. c \in Seq(S) /\ Weight(w, c) = Weight(w, a) + w[x]
  BY <1>2 DEF c
<1>4. c \o b \in Seq(S) /\ Weight(w, c \o b) = Weight(w, c) + Weight(w, b)
  BY <1>1, <1>3, WeightConcat
<1>5. Weight(w, a) \in Int /\ Weight(w, b) \in Int /\ w[x] \in Int
  BY <1>1, WeightType
<1>6. c \o b \in Seq(S) /\ Weight(w, c \o b) = Weight(w, s) + w[x]
  BY <1>1, <1>3, <1>4, <1>5
<1> QED BY <1>6 DEF a, b, c

\* and an element taken out.
LEMMA WeightWithout ==
  ASSUME NEW S, NEW w \in [S -> Int], NEW s \in Seq(S), NEW k \in 1 .. Len(s)
  PROVE  LET t == SubSeq(s, 1, k - 1) \o SubSeq(s, k + 1, Len(s))
         IN  t \in Seq(S) /\ Weight(w, t) = Weight(w, s) - w[s[k]] /\ s[k] \in S
<1> DEFINE a == SubSeq(s, 1, k - 1)
           b == SubSeq(s, k + 1, Len(s))
           c == SubSeq(s, 1, k)
           x == s[k]
<1>1. /\ a \in Seq(S) /\ Len(a) = k - 1 /\ Len(c) = k /\ x \in S
      /\ \A i \in 1 .. k - 1 : c[i] = a[i]
      /\ k \in Nat /\ k # 0 /\ c[k] = x
  OBVIOUS
<1>2. /\ c \in Seq(S) /\ b \in Seq(S) /\ Weight(w, s) = Weight(w, c) + Weight(w, b)
  <2>1. k \in 0 .. Len(s)
    OBVIOUS
  <2> QED BY <2>1, WeightSplit
<1> HIDE DEF a, b, c, x
<1>3. Weight(w, c) = Weight(w, a) + w[x]
  <2> DEFINE y == <<x>>
  <2>1. y \in Seq(S) /\ Len(y) = 1 /\ y[1] = x
    BY <1>1
  <2>2. Weight(w, y) = w[x]
    BY <1>1, WeightOne
  <2> HIDE DEF y
  <2>3. Follows(c, a, y)
    BY <1>1, <2>1 DEF Follows
  <2>4. Weight(w, c) = Weight(w, a) + Weight(w, y)
    BY <1>1, <1>2, <2>1, <2>3, WeightCut
  <2> QED BY <2>2, <2>4
<1>4. a \o b \in Seq(S) /\ Weight(w, a \o b) = Weight(w, a) + Weight(w, b)
  <2>1. a \in Seq(S) /\ b \in Seq(S)
    BY <1>1, <1>2
  <2> QED BY <2>1, WeightConcat
<1>5. Weight(w, a) \in Int /\ Weight(w, b) \in Int /\ w[x] \in Int
  BY <1>1, <1>2, WeightType
<1>6. Weight(w, a \o b) = Weight(w, s) - w[x]
  BY <1>2, <1>3, <1>4, <1>5
<1> QED BY <1>1, <1>4, <1>6 DEF a, b, x

-----------------------------------------------------------------------------
(* Amounts are rounded down.                                               *)

\* Division rounds down.
LEMMA DivBounds ==
  ASSUME NEW a \in Int, NEW b \in Nat \ {0}
  PROVE  /\ a \div b \in Int /\ (a \div b) * b <= a /\ a < (a \div b) * b + b
         /\ a \in Nat => a \div b \in Nat
<1>1. a \div b \in Int /\ (a \div b) * b <= a /\ a < (a \div b) * b + b
  OBVIOUS
<1>2. ASSUME a \in Nat PROVE a \div b \in Nat
  BY <1>2
<1> QED BY <1>1, <1>2

\* A common factor does not matter for the order.
LEMMA Cancel ==
  ASSUME NEW a \in Int, NEW b \in Int, NEW c \in Nat \ {0}
  PROVE  /\ a * c <= b * c => a <= b
         /\ a * c < b * c => a < b
<1>1. ASSUME a * c <= b * c, b < a PROVE FALSE
  <2>1. (b + 1) * c <= a * c
    BY <1>1
  <2>2. (b + 1) * c = b * c + c
    OBVIOUS
  <2> QED BY <1>1, <2>1, <2>2
<1>2. ASSUME a * c < b * c, b <= a PROVE FALSE
  <2>1. b * c <= a * c
    BY <1>2
  <2> QED BY <1>2, <2>1
<1> QED BY <1>1, <1>2

\* Rounding down, and keeping the order.
LEMMA DivNat ==
  ASSUME NEW a \in Nat, NEW b \in Nat, NEW d \in Nat \ {0}, a <= b
  PROVE  a \div d \in Nat /\ a \div d <= b \div d
<1> DEFINE x == a \div d
           y == b \div d
<1>1. x \in Int /\ y \in Int /\ 0 <= x /\ x * d <= a /\ b < y * d + d
  OBVIOUS
<1> HIDE DEF x, y
<1>2. SUFFICES ASSUME y + 1 <= x PROVE FALSE
  BY <1>1 DEF x, y
<1>3. (y + 1) * d <= x * d
  BY <1>1, <1>2
<1>4. (y + 1) * d = y * d + d
  BY <1>1
<1> QED BY <1>1, <1>3, <1>4

\* Products of natural numbers, and their order.
LEMMA MulNat ==
  ASSUME NEW a \in Nat, NEW b \in Nat, NEW c \in Nat, a <= b
  PROVE  a * c \in Nat /\ b * c \in Nat /\ a * c <= b * c /\ c * a <= c * b
  OBVIOUS

\* The least of two or three numbers.
LEMMA MinTwo ==
  ASSUME NEW a \in Nat, NEW b \in Nat
  PROVE  Min({a, b}) \in Nat /\ Min({a, b}) <= a /\ Min({a, b}) <= b /\ Min({a, b}) \in {a, b}
<1>1. \E x \in {a, b} : \A y \in {a, b} : x <= y
  <2>1. CASE a <= b
    BY <2>1
  <2>2. CASE b <= a
    BY <2>2
  <2> QED BY <2>1, <2>2
<1>2. Min({a, b}) \in {a, b} /\ \A y \in {a, b} : Min({a, b}) <= y
  BY <1>1 DEF Min
<1> QED BY <1>2

\* The least of three numbers.
LEMMA MinThree ==
  ASSUME NEW a \in Nat, NEW b \in Nat, NEW c \in Nat
  PROVE  Min({a, b, c}) \in Nat /\ Min({a, b, c}) <= a /\ Min({a, b, c}) <= b /\ Min({a, b, c}) <= c
<1>1. \E x \in {a, b, c} : \A y \in {a, b, c} : x <= y
  <2>1. CASE a <= b /\ a <= c
    BY <2>1
  <2>2. CASE b <= a /\ b <= c
    BY <2>2
  <2>3. CASE c <= a /\ c <= b
    BY <2>3
  <2> QED BY <2>1, <2>2, <2>3
<1>2. Min({a, b, c}) \in {a, b, c} /\ \A y \in {a, b, c} : Min({a, b, c}) <= y
  BY <1>1 DEF Min
<1> QED BY <1>2

=============================================================================
