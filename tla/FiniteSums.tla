----------------------------- MODULE FiniteSums -----------------------------
(***************************************************************************)
(* What the proofs of this project use of SumFunctionOnSet, the community  *)
(* modules' sum of the values of a function over a set of its indices: it  *)
(* is an integer, any index can be taken out first, and hence how the sum  *)
(* moves when a value or the set of indices changes.                       *)
(*                                                                         *)
(* The library's induction theorems are parameterised by an operator;      *)
(* SubsetInduction takes a set of sets instead, from the well-founded      *)
(* order of strict inclusion.                                              *)
(***************************************************************************)
EXTENDS Integers, FiniteSets, Functions, FiniteSetTheorems, WellFoundedInduction, TLAPS

Pick(T) == CHOOSE x \in T : TRUE

\* One unfolding of the sum: g is the sum over each subset of S when it is
\* its own unfolding.
Unfold(f, S, g) ==
    [T \in SUBSET S |-> IF T = {} THEN 0 ELSE f[Pick(T)] + g[T \ {Pick(T)}]]

Sums(g, f, S) == g = Unfold(f, S, g)

-----------------------------------------------------------------------------

\* A set of subsets of S that holds T whenever it holds T less any one of its
\* elements, the empty set therefore, holds every subset of a finite S.
LEMMA SubsetInduction ==
    ASSUME NEW S, IsFiniteSet(S), NEW P \in SUBSET SUBSET S,
           \A T \in SUBSET S : (\A x \in T : T \ {x} \in P) => T \in P
    PROVE  P = SUBSET S
<1> DEFINE Bad == (SUBSET S) \ P
<1> SUFFICES ASSUME Bad # {} PROVE FALSE
    OBVIOUS
<1>1. Bad \subseteq FiniteSubsetsOf(S)
    BY FS_FiniteSubsetsOfFinite
<1>2. PICK T \in Bad : \A U \in Bad : ~ (<<U, T>> \in StrictSubsetOrdering(S))
    BY <1>1, WFMin, FS_StrictSubsetOrderingWellFounded, Zenon
<1>3. ASSUME NEW x \in T
      PROVE  T \ {x} \in P
    <2> DEFINE U == T \ {x}
    <2>1. U \in SUBSET S /\ T \in SUBSET S /\ U \subseteq T /\ U # T
        BY <1>2, <1>3
    <2>2. <<U, T>> \in StrictSubsetOrdering(S)
        <3> HIDE DEF U
        <3> QED
            BY <2>1 DEF StrictSubsetOrdering
    <2> QED
        BY <2>1, <2>2, <1>2
<1> QED
    BY <1>2, <1>3

LEMMA PickIn == ASSUME NEW T, T # {} PROVE Pick(T) \in T
BY DEF Pick

\* The sum is unique, and so is its restriction to a smaller set.
LEMMA SumsAgree ==
    ASSUME NEW f, NEW S, IsFiniteSet(S), NEW g, NEW R \in SUBSET S, NEW h,
           Sums(g, f, S), Sums(h, f, R)
    PROVE  \A T \in SUBSET R : g[T] = h[T]
<1> DEFINE Q == {T \in SUBSET R : g[T] = h[T]}
<1>1. IsFiniteSet(R)
    BY FS_Subset
<1>2. ASSUME NEW T \in SUBSET R, \A x \in T : T \ {x} \in Q
      PROVE  T \in Q
    <2>1. CASE T = {}
        BY <2>1 DEF Sums, Unfold
    <2>2. CASE T # {}
        <3> DEFINE x == Pick(T)
        <3>1. x \in T
            BY <2>2, PickIn
        <3>2. g[T \ {x}] = h[T \ {x}]
            BY <3>1, <1>2
        <3>3. g[T] = f[x] + g[T \ {x}] /\ h[T] = f[x] + h[T \ {x}]
            BY <2>2 DEF Sums, Unfold
        <3> QED
            BY <3>2, <3>3
    <2> QED
        BY <2>1, <2>2
<1>3. Q \in SUBSET SUBSET R
    OBVIOUS
<1> HIDE DEF Q
<1>4. Q = SUBSET R
    BY <1>1, <1>2, <1>3, SubsetInduction
<1> QED
    BY <1>4 DEF Q

\* Every finite set has its sum.
LEMMA SumsExist ==
    ASSUME NEW f, NEW S, IsFiniteSet(S)
    PROVE  \E g : Sums(g, f, S)
<1> DEFINE Q == {T \in SUBSET S : \A U \in SUBSET T : \E g : Sums(g, f, U)}
<1>1. ASSUME NEW T \in SUBSET S, \A x \in T : T \ {x} \in Q
      PROVE  T \in Q
    <2> DEFINE G(U) == CHOOSE g : Sums(g, f, U)
               Rest(U) == U \ {Pick(U)}
               Value(U) == IF U = {} THEN 0 ELSE f[Pick(U)] + G(Rest(U))[Rest(U)]
               g == [U \in SUBSET T |-> Value(U)]
    <2>1. ASSUME NEW U \in SUBSET T, U # T
          PROVE  Sums(G(U), f, U)
        <3>1. PICK x \in T : U \in SUBSET (T \ {x})
            BY <2>1
        <3>2. \E h : Sums(h, f, U)
            BY <1>1, <3>1
        <3> QED
            BY <3>2
    <2>2. ASSUME NEW U \in SUBSET T, U # {}
          PROVE  g[Rest(U)] = G(Rest(U))[Rest(U)]
        <3> DEFINE V == Rest(U)
        <3>1. V \in SUBSET U /\ V \in SUBSET T /\ V # T
            BY <2>2, PickIn
        <3>2. Sums(G(V), f, V)
            BY <3>1, <2>1
        <3>3. CASE V = {}
            <4>1. g[V] = 0
                BY <3>1, <3>3
            <4>2. G(V)[V] = 0
                <5> HIDE DEF V, G
                <5> QED
                    BY <3>2, <3>3 DEF Sums, Unfold
            <4> QED
                BY <4>1, <4>2
        <3>4. CASE V # {}
            <4> DEFINE W == Rest(V)
            <4>1. W \in SUBSET V /\ W \in SUBSET T /\ W # T
                BY <3>1, <3>4, PickIn
            <4>2. Sums(G(W), f, W)
                BY <4>1, <2>1
            <4>3. IsFiniteSet(V)
                BY <3>1, FS_Subset
            <4>4. G(V)[W] = G(W)[W]
                <5> HIDE DEF V, W, G
                <5> QED
                    BY <3>2, <4>1, <4>2, <4>3, SumsAgree
            <4>5. G(V)[V] = f[Pick(V)] + G(V)[W]
                <5> HIDE DEF V, G
                <5> QED
                    BY <3>2, <3>4 DEF Sums, Unfold
            <4>6. g[V] = f[Pick(V)] + G(W)[W]
                <5> HIDE DEF V, G
                <5> QED
                    BY <3>1, <3>4
            <4> QED
                BY <4>4, <4>5, <4>6
        <3> QED
            BY <3>3, <3>4
    <2>3. Sums(g, f, T)
        <3>1. ASSUME NEW U \in SUBSET T
              PROVE  Value(U) = IF U = {} THEN 0 ELSE f[Pick(U)] + g[Rest(U)]
            <4> HIDE DEF g, G, Rest
            <4>1. CASE U = {}
                BY <4>1
            <4>2. CASE U # {}
                BY <4>2, <2>2
            <4> QED
                BY <4>1, <4>2
        <3> HIDE DEF Value
        <3>2. g = [U \in SUBSET T |-> IF U = {} THEN 0 ELSE f[Pick(U)] + g[Rest(U)]]
            BY <3>1
        <3> QED
            BY <3>2 DEF Sums, Unfold
    <2>4. \A U \in SUBSET T : \E h : Sums(h, f, U)
        <3> HIDE DEF g, G
        <3> QED
            BY <2>1, <2>3
    <2> QED
        BY <2>4
<1>3. Q \in SUBSET SUBSET S
    OBVIOUS
<1> HIDE DEF Q
<1>4. Q = SUBSET S
    BY <1>1, <1>3, SubsetInduction
<1> QED
    BY <1>4 DEF Q

\* The library's sum is the value of that function at the whole set, and its
\* value at any subset is the library's sum over that subset.
LEMMA SumIsSums ==
    ASSUME NEW f, NEW S, IsFiniteSet(S), NEW g, Sums(g, f, S)
    PROVE  \A T \in SUBSET S : SumFunctionOnSet(f, T) = g[T]
<1> SUFFICES ASSUME NEW T \in SUBSET S PROVE SumFunctionOnSet(f, T) = g[T]
    OBVIOUS
<1> DEFINE C == CHOOSE h : Sums(h, f, T)
<1>1. SumFunctionOnSet(f, T) = C[T]
    BY DEF SumFunctionOnSet, FoldFunctionOnSet, MapThenFoldSet, Pick, Unfold, Sums
<1>2. Sums(C, f, T)
    <2>1. \E h : Sums(h, f, T)
        BY SumsExist, FS_Subset
    <2> QED
        BY <2>1
<1> HIDE DEF C
<1>3. g[T] = C[T]
    BY <1>2, SumsAgree
<1> QED
    BY <1>1, <1>3

-----------------------------------------------------------------------------

LEMMA SumEmpty == ASSUME NEW f PROVE SumFunctionOnSet(f, {}) = 0
<1>1. PICK g : Sums(g, f, {})
    BY SumsExist, FS_EmptySet
<1>2. SumFunctionOnSet(f, {}) = g[{}]
    BY <1>1, SumIsSums, FS_EmptySet
<1> QED
    BY <1>1, <1>2 DEF Sums, Unfold

LEMMA SumPicked ==
    ASSUME NEW f, NEW S, IsFiniteSet(S), S # {}
    PROVE  SumFunctionOnSet(f, S) = f[Pick(S)] + SumFunctionOnSet(f, S \ {Pick(S)})
<1>1. PICK g : Sums(g, f, S)
    BY SumsExist
<1>2. SumFunctionOnSet(f, S) = g[S]
    BY <1>1, SumIsSums
<1>3. SumFunctionOnSet(f, S \ {Pick(S)}) = g[S \ {Pick(S)}]
    BY <1>1, SumIsSums
<1> QED
    BY <1>1, <1>2, <1>3 DEF Sums, Unfold

\* The sum of integers is one.
LEMMA SumInt ==
    ASSUME NEW f, NEW S, IsFiniteSet(S), \A x \in S : f[x] \in Int
    PROVE  SumFunctionOnSet(f, S) \in Int
<1> DEFINE Q == {T \in SUBSET S : SumFunctionOnSet(f, T) \in Int}
<1>1. ASSUME NEW T \in SUBSET S, \A x \in T : T \ {x} \in Q
      PROVE  T \in Q
    <2>1. CASE T = {}
        BY <2>1, SumEmpty
    <2>2. CASE T # {}
        <3>1. Pick(T) \in T /\ IsFiniteSet(T)
            BY <2>2, PickIn, FS_Subset
        <3>2. SumFunctionOnSet(f, T \ {Pick(T)}) \in Int /\ f[Pick(T)] \in Int
            BY <3>1, <1>1
        <3> QED
            BY <2>2, <3>1, <3>2, SumPicked
    <2> QED
        BY <2>1, <2>2
<1>2. Q \in SUBSET SUBSET S
    OBVIOUS
<1> HIDE DEF Q
<1>3. Q = SUBSET S
    BY <1>1, <1>2, SubsetInduction
<1> QED
    BY <1>3 DEF Q

\* Any index can be taken out of a sum first.
LEMMA SumTakeOut ==
    ASSUME NEW f, NEW S, IsFiniteSet(S), \A x \in S : f[x] \in Int, NEW y \in S
    PROVE  SumFunctionOnSet(f, S) = f[y] + SumFunctionOnSet(f, S \ {y})
<1> DEFINE Sum(T) == SumFunctionOnSet(f, T)
           Q == {T \in SUBSET S : \A z \in T : Sum(T) = f[z] + Sum(T \ {z})}
<1>0. \A T \in SUBSET S : Sum(T) \in Int /\ IsFiniteSet(T)
    BY SumInt, FS_Subset
<1>1. ASSUME NEW T \in SUBSET S, \A x \in T : T \ {x} \in Q
      PROVE  T \in Q
    <2> SUFFICES ASSUME NEW z \in T PROVE Sum(T) = f[z] + Sum(T \ {z})
        BY <1>1
    <2> DEFINE x == Pick(T)
    <2>1. x \in T
        BY PickIn
    <2>2. Sum(T) = f[x] + Sum(T \ {x})
        BY SumPicked, <1>0
    <2> HIDE DEF x
    <2>3. CASE z = x
        BY <2>2, <2>3
    <2>4. CASE z # x
        <3>1. T \ {x} \in Q /\ T \ {z} \in Q /\ z \in T \ {x} /\ x \in T \ {z}
            BY <1>1, <2>1, <2>4
        <3>2. Sum(T \ {x}) = f[z] + Sum((T \ {x}) \ {z})
            BY <3>1
        <3>3. Sum(T \ {z}) = f[x] + Sum((T \ {z}) \ {x})
            BY <3>1
        <3>4. (T \ {x}) \ {z} = (T \ {z}) \ {x}
            OBVIOUS
        <3> DEFINE rest == Sum((T \ {z}) \ {x})
        <3>5. rest \in Int /\ f[x] \in Int /\ f[z] \in Int
            BY <1>0, <2>1
        <3>6. Sum(T) = f[x] + (f[z] + rest) /\ Sum(T \ {z}) = f[x] + rest
            BY <2>2, <3>2, <3>3, <3>4
        <3> HIDE DEF rest, Sum
        <3> QED
            BY <3>5, <3>6
    <2> QED
        BY <2>3, <2>4
<1>2. Q \in SUBSET SUBSET S
    OBVIOUS
<1>3. Q = SUBSET S
    <2> HIDE DEF Q
    <2> QED
        BY <1>1, <1>2, SubsetInduction
<1> QED
    BY <1>3

-----------------------------------------------------------------------------

\* An index is added to a sum.
LEMMA SumAdd ==
    ASSUME NEW f, NEW S, IsFiniteSet(S), NEW y, y \notin S,
           \A x \in S \cup {y} : f[x] \in Int
    PROVE  SumFunctionOnSet(f, S \cup {y}) = SumFunctionOnSet(f, S) + f[y]
<1> DEFINE whole == SumFunctionOnSet(f, S \cup {y})
           part == SumFunctionOnSet(f, S)
<1>1. (S \cup {y}) \ {y} = S /\ IsFiniteSet(S \cup {y}) /\ y \in S \cup {y}
    BY FS_AddElement
<1>2. part \in Int /\ f[y] \in Int
    BY SumInt
<1>3. whole = f[y] + part
    BY <1>1, SumTakeOut
<1> HIDE DEF whole, part
<1>4. whole = part + f[y]
    BY <1>2, <1>3
<1> QED
    BY <1>4 DEF whole, part

\* Functions that agree on the indices have the same sum.
LEMMA SumSame ==
    ASSUME NEW f, NEW h, NEW S, IsFiniteSet(S), \A x \in S : f[x] = h[x]
    PROVE  SumFunctionOnSet(f, S) = SumFunctionOnSet(h, S)
<1> DEFINE Q == {T \in SUBSET S : SumFunctionOnSet(f, T) = SumFunctionOnSet(h, T)}
<1>1. ASSUME NEW T \in SUBSET S, \A x \in T : T \ {x} \in Q
      PROVE  T \in Q
    <2>1. CASE T = {}
        BY <2>1, SumEmpty
    <2>2. CASE T # {}
        <3>1. Pick(T) \in T /\ IsFiniteSet(T)
            BY <2>2, PickIn, FS_Subset
        <3>2. SumFunctionOnSet(f, T \ {Pick(T)}) = SumFunctionOnSet(h, T \ {Pick(T)})
            BY <3>1, <1>1
        <3> QED
            BY <2>2, <3>1, <3>2, SumPicked
    <2> QED
        BY <2>1, <2>2
<1>2. Q \in SUBSET SUBSET S
    OBVIOUS
<1> HIDE DEF Q
<1>3. Q = SUBSET S
    BY <1>1, <1>2, SubsetInduction
<1> QED
    BY <1>3 DEF Q

\* An index is added, and on the others the function stays.
LEMMA SumExtend ==
    ASSUME NEW f, NEW h, NEW S, IsFiniteSet(S), NEW y, y \notin S, h[y] \in Int,
           \A x \in S : f[x] \in Int /\ h[x] = f[x]
    PROVE  SumFunctionOnSet(h, S \cup {y}) = SumFunctionOnSet(f, S) + h[y]
<1>1. SumFunctionOnSet(h, S) = SumFunctionOnSet(f, S)
    BY SumSame
<1>2. SumFunctionOnSet(h, S \cup {y}) = SumFunctionOnSet(h, S) + h[y]
    BY SumAdd
<1> QED
    BY <1>1, <1>2

\* One value changes.
LEMMA SumChange ==
    ASSUME NEW f, NEW h, NEW S, IsFiniteSet(S), NEW y \in S,
           \A x \in S : f[x] \in Int, h[y] \in Int,
           \A x \in S \ {y} : h[x] = f[x]
    PROVE  SumFunctionOnSet(h, S) = SumFunctionOnSet(f, S) - f[y] + h[y]
<1> DEFINE rest == SumFunctionOnSet(f, S \ {y})
<1>1. IsFiniteSet(S \ {y}) /\ \A x \in S : h[x] \in Int
    BY FS_RemoveElement
<1>2. rest \in Int
    BY <1>1, SumInt
<1>3. SumFunctionOnSet(f, S) = f[y] + rest
    BY SumTakeOut
<1>4. SumFunctionOnSet(h, S) = h[y] + SumFunctionOnSet(h, S \ {y})
    BY <1>1, SumTakeOut
<1>5. SumFunctionOnSet(h, S \ {y}) = rest
    BY <1>1, SumSame
<1> QED
    BY <1>2, <1>3, <1>4, <1>5

\* A sum of naturals is at least each of them, and so a natural itself.
LEMMA SumNat ==
    ASSUME NEW f, NEW S, IsFiniteSet(S), \A x \in S : f[x] \in Nat
    PROVE  /\ SumFunctionOnSet(f, S) \in Nat
           /\ \A x \in S : f[x] <= SumFunctionOnSet(f, S)
<1> DEFINE Q == {T \in SUBSET S : SumFunctionOnSet(f, T) \in Nat}
<1>1. ASSUME NEW T \in SUBSET S, \A x \in T : T \ {x} \in Q
      PROVE  T \in Q
    <2>1. CASE T = {}
        BY <2>1, SumEmpty
    <2>2. CASE T # {}
        <3>1. Pick(T) \in T /\ IsFiniteSet(T)
            BY <2>2, PickIn, FS_Subset
        <3>2. SumFunctionOnSet(f, T \ {Pick(T)}) \in Nat /\ f[Pick(T)] \in Nat
            BY <3>1, <1>1
        <3> QED
            BY <2>2, <3>1, <3>2, SumPicked
    <2> QED
        BY <2>1, <2>2
<1>2. Q \in SUBSET SUBSET S
    OBVIOUS
<1>3. Q = SUBSET S
    <2> HIDE DEF Q
    <2> QED
        BY <1>1, <1>2, SubsetInduction
<1>4. ASSUME NEW x \in S
      PROVE  f[x] <= SumFunctionOnSet(f, S)
    <2>1. SumFunctionOnSet(f, S) = f[x] + SumFunctionOnSet(f, S \ {x})
        BY SumTakeOut
    <2>2. SumFunctionOnSet(f, S \ {x}) \in Nat /\ f[x] \in Nat
        BY <1>3
    <2> QED
        BY <2>1, <2>2
<1> QED
    BY <1>3, <1>4

\* A sum of zeros is zero.
LEMMA SumZero ==
    ASSUME NEW f, NEW S, IsFiniteSet(S), \A x \in S : f[x] = 0
    PROVE  SumFunctionOnSet(f, S) = 0
<1> DEFINE Q == {T \in SUBSET S : SumFunctionOnSet(f, T) = 0}
<1>1. ASSUME NEW T \in SUBSET S, \A x \in T : T \ {x} \in Q
      PROVE  T \in Q
    <2>1. CASE T = {}
        BY <2>1, SumEmpty
    <2>2. CASE T # {}
        <3>1. Pick(T) \in T /\ IsFiniteSet(T)
            BY <2>2, PickIn, FS_Subset
        <3>2. SumFunctionOnSet(f, T \ {Pick(T)}) = 0 /\ f[Pick(T)] = 0
            BY <3>1, <1>1
        <3> QED
            BY <2>2, <3>1, <3>2, SumPicked
    <2> QED
        BY <2>1, <2>2
<1>2. Q \in SUBSET SUBSET S
    OBVIOUS
<1> HIDE DEF Q
<1>3. Q = SUBSET S
    BY <1>1, <1>2, SubsetInduction
<1> QED
    BY <1>3 DEF Q

-----------------------------------------------------------------------------

\* Two sets that share nothing.
LEMMA SumUnion ==
    ASSUME NEW f, NEW A, NEW B, IsFiniteSet(A), IsFiniteSet(B), A \cap B = {},
           \A x \in A \cup B : f[x] \in Int
    PROVE  SumFunctionOnSet(f, A \cup B) = SumFunctionOnSet(f, A) + SumFunctionOnSet(f, B)
<1> DEFINE Q == {T \in SUBSET B : SumFunctionOnSet(f, A \cup T)
                    = SumFunctionOnSet(f, A) + SumFunctionOnSet(f, T)}
<1>0. SumFunctionOnSet(f, A) \in Int
    BY SumInt
<1>1. ASSUME NEW T \in SUBSET B, \A x \in T : T \ {x} \in Q
      PROVE  T \in Q
    <2>1. CASE T = {}
        <3>1. A \cup T = A /\ SumFunctionOnSet(f, T) = 0
            BY <2>1, SumEmpty
        <3> QED
            BY <1>0, <3>1
    <2>2. CASE T # {}
        <3> DEFINE x == Pick(T)
                   U == T \ {x}
        <3>1. x \in T /\ U \cup {x} = T /\ A \cup T = (A \cup U) \cup {x} /\ x \notin U
              /\ x \notin A \cup U
            BY <2>2, PickIn
        <3>2. IsFiniteSet(U) /\ IsFiniteSet(A \cup U)
            <4>1. IsFiniteSet(T)
                BY FS_Subset
            <4> QED
                BY <4>1, FS_RemoveElement, FS_Union
        <3>3. SumFunctionOnSet(f, A \cup U) = SumFunctionOnSet(f, A) + SumFunctionOnSet(f, U)
            BY <1>1, <3>1
        <3>4. /\ \A y \in U \cup {x} : f[y] \in Int
              /\ \A y \in (A \cup U) \cup {x} : f[y] \in Int
            BY <3>1
        <3> HIDE DEF x, U
        <3>5. SumFunctionOnSet(f, U \cup {x}) = SumFunctionOnSet(f, U) + f[x]
            BY <3>1, <3>2, <3>4, SumAdd
        <3>6. SumFunctionOnSet(f, (A \cup U) \cup {x}) = SumFunctionOnSet(f, A \cup U) + f[x]
            BY <3>1, <3>2, <3>4, SumAdd
        <3>7. SumFunctionOnSet(f, U) \in Int /\ f[x] \in Int
            BY <3>2, <3>4, SumInt
        <3> DEFINE a == SumFunctionOnSet(f, A)
                   b == SumFunctionOnSet(f, U)
                   c == SumFunctionOnSet(f, A \cup U)
                   d == f[x]
        <3>8. /\ SumFunctionOnSet(f, T) = b + d
              /\ SumFunctionOnSet(f, A \cup T) = c + d
              /\ c = a + b
            BY <3>1, <3>3, <3>5, <3>6
        <3>9. a \in Int /\ b \in Int /\ d \in Int
            BY <1>0, <3>7
        <3> HIDE DEF a, b, c, d
        <3>10. c + d = a + (b + d)
            BY <3>8, <3>9
        <3>11. SumFunctionOnSet(f, A \cup T) = a + SumFunctionOnSet(f, T)
            BY <3>8, <3>10
        <3> QED
            BY <3>11 DEF a
    <2> QED
        BY <2>1, <2>2
<1>2. Q \in SUBSET SUBSET B
    OBVIOUS
<1> HIDE DEF Q
<1>3. Q = SUBSET B
    BY <1>1, <1>2, SubsetInduction
<1> QED
    BY <1>3 DEF Q

\* A sum of naturals grows with the set.
LEMMA SumMonotone ==
    ASSUME NEW f, NEW B, IsFiniteSet(B), NEW A \in SUBSET B, \A x \in B : f[x] \in Nat
    PROVE  SumFunctionOnSet(f, A) <= SumFunctionOnSet(f, B)
<1> DEFINE R == B \ A
<1>1. IsFiniteSet(A) /\ IsFiniteSet(R) /\ A \cap R = {} /\ A \cup R = B
    BY FS_Subset
<1>2. /\ \A x \in A : f[x] \in Nat
      /\ \A x \in R : f[x] \in Nat
      /\ \A x \in A \cup R : f[x] \in Int
    OBVIOUS
<1> HIDE DEF R
<1>3. SumFunctionOnSet(f, A \cup R) = SumFunctionOnSet(f, A) + SumFunctionOnSet(f, R)
    BY <1>1, <1>2, SumUnion
<1> DEFINE a == SumFunctionOnSet(f, A)
           r == SumFunctionOnSet(f, R)
<1>4. a \in Nat /\ r \in Nat
    BY <1>1, <1>2, SumNat
<1>5. SumFunctionOnSet(f, B) = a + r
    BY <1>1, <1>3
<1> HIDE DEF a, r
<1>6. a <= a + r
    BY <1>4
<1>7. a <= SumFunctionOnSet(f, B)
    BY <1>5, <1>6
<1> QED
    BY <1>7 DEF a

\* A set of numbers up to n has a first one, and a last one.
LEMMA FirstOf ==
    ASSUME NEW n \in Nat, NEW S \in SUBSET (1..n), S # {}
    PROVE  \E i \in S : \A j \in S : i <= j
<1> DEFINE P == {T \in SUBSET (1..n) : T # {} => \E i \in T : \A j \in T : i <= j}
<1>1. IsFiniteSet(1..n)
    BY FS_Interval
<1>2. ASSUME NEW T \in SUBSET (1..n), \A i \in T : T \ {i} \in P
      PROVE  T \in P
    <2> SUFFICES ASSUME T # {} PROVE \E i \in T : \A j \in T : i <= j
        OBVIOUS
    <2>1. PICK i \in T : TRUE
        OBVIOUS
    <2>2. CASE T \ {i} = {}
        BY <2>1, <2>2
    <2>3. CASE T \ {i} # {}
        <3>1. PICK k \in T \ {i} : \A j \in T \ {i} : k <= j
            BY <1>2, <2>1, <2>3
        <3> QED
            BY <2>1, <3>1
    <2> QED
        BY <2>2, <2>3
<1>3. P \in SUBSET SUBSET (1..n)
    OBVIOUS
<1> HIDE DEF P
<1>4. P = SUBSET (1..n)
    BY <1>1, <1>2, <1>3, SubsetInduction
<1> QED
    BY <1>4 DEF P

LEMMA LastOf ==
    ASSUME NEW n \in Nat, NEW S \in SUBSET (1..n), S # {}
    PROVE  \E i \in S : \A j \in S : j <= i
<1> DEFINE R == {i \in 1..n : n + 1 - i \in S}
<1>1. ASSUME NEW i \in S PROVE n + 1 - i \in R
    <2>1. i \in 1..n /\ n + 1 - i \in 1..n /\ n + 1 - (n + 1 - i) = i
        OBVIOUS
    <2> QED
        BY <2>1
<1>2. R # {} /\ R \in SUBSET (1..n)
    BY <1>1
<1> HIDE DEF R
<1>3. PICK k \in R : \A j \in R : k <= j
    BY <1>2, FirstOf
<1>4. k \in 1..n /\ n + 1 - k \in S
    BY DEF R
<1>5. ASSUME NEW j \in S PROVE j <= n + 1 - k
    <2>1. k <= n + 1 - j
        BY <1>1, <1>3
    <2> QED
        BY <1>4, <2>1
<1> QED
    BY <1>4, <1>5
=============================================================================
