------------------------- MODULE RecursionTheorems -------------------------
(***************************************************************************)
(* What the recursive definitions of the models compute, whatever they are *)
(* applied to: sums over finite sets (SumFunctionOnSet of the community    *)
(* modules) and powers.  The induction theorems of the library take an     *)
(* operator as a parameter; here the induction hypothesis is membership in *)
(* a set, and well-foundedness gives a smallest counterexample.            *)
(***************************************************************************)
EXTENDS Functions, FiniteSetTheorems, TLAPS

-----------------------------------------------------------------------------
(* Sums over finite sets. *)

\* The element a fold takes next.
Pick(s) == CHOOSE x \in s : TRUE

\* g sums f over the subsets of S, by the recursion inside the fold.
IsSum(g, f, S) ==
    g = [s \in SUBSET S |-> IF s = {} THEN 0 ELSE f[Pick(s)] + g[s \ {Pick(s)}]]

\* The element a fold takes next is one of the set.
LEMMA PickIsMember ==
    ASSUME NEW S, S # {}
    PROVE  Pick(S) \in S
BY DEF Pick

\* Induction on the subsets of a finite set, with a set F in place of a formula:
\* a set that contains each subset whose proper subsets it contains has them all.
LEMMA SubsetInduction ==
    ASSUME NEW S, IsFiniteSet(S), NEW F,
           \A T \in SUBSET S : (\A U \in SUBSET T : U # T => U \in F) => T \in F
    PROVE  \A T \in SUBSET S : T \in F
<1> DEFINE R == StrictSubsetOrdering(S)
           Bad == (SUBSET S) \ F
<1>1. SUFFICES ASSUME Bad # {} PROVE FALSE
  OBVIOUS
<1>2. FiniteSubsetsOf(S) = SUBSET S
  BY FS_FiniteSubsetsOfFinite
<1>3. IsWellFoundedOn(R, SUBSET S)
  BY <1>2, FS_StrictSubsetOrderingWellFounded
<1>4. PICK T \in Bad : \A U \in Bad : ~ (<<U, T>> \in R)
  <2> Bad \subseteq SUBSET S
    OBVIOUS
  <2> HIDE DEF Bad, R
  <2> QED
    BY <1>1, <1>3, WFMin
<1>5. ASSUME NEW U \in SUBSET T, U # T
      PROVE  U \in F
  <2>1. U \in SUBSET S /\ <<U, T>> \in R
    BY <1>5 DEF StrictSubsetOrdering
  <2>2. U \notin Bad
    BY <2>1, <1>4
  <2> QED
    BY <2>1, <2>2
<1>6. T \in SUBSET S /\ T \notin F
  OBVIOUS
<1> QED
  BY <1>5, <1>6

\* The recursion gives a subset the same sum, whichever set it starts from.
LEMMA SumCoherent ==
    ASSUME NEW f, NEW S, IsFiniteSet(S), NEW W \in SUBSET S,
           NEW g, IsSum(g, f, S), NEW h, IsSum(h, f, W)
    PROVE  \A T \in SUBSET W : g[T] = h[T]
<1> DEFINE F == {T \in SUBSET W : g[T] = h[T]}
<1>1. IsFiniteSet(W)
  BY FS_Subset
<1>2. ASSUME NEW T \in SUBSET W, \A U \in SUBSET T : U # T => U \in F
      PROVE  T \in F
  <2>1. CASE T = {}
    BY <2>1 DEF IsSum
  <2>2. CASE T # {}
    <3>1. Pick(T) \in T
      BY <2>2, PickIsMember
    <3>2. g[T \ {Pick(T)}] = h[T \ {Pick(T)}]
      BY <3>1, <1>2
    <3>3. g[T] = f[Pick(T)] + g[T \ {Pick(T)}]
      BY <2>2 DEF IsSum
    <3>4. h[T] = f[Pick(T)] + h[T \ {Pick(T)}]
      BY <2>2 DEF IsSum
    <3> QED
      BY <3>2, <3>3, <3>4
  <2> QED
    BY <2>1, <2>2
<1>3. \A T \in SUBSET W : T \in F
  <2> HIDE DEF F
  <2> QED
    BY <1>1, <1>2, SubsetInduction
<1> QED
  BY <1>3

\* For every finite set there is a function that satisfies the recursion.
LEMMA SumExists ==
    ASSUME NEW f, NEW S, IsFiniteSet(S)
    PROVE  \E g : IsSum(g, f, S)
<1> DEFINE Has(T) == \E g : IsSum(g, f, T)
           F == {T \in SUBSET S : Has(T)}
<1>1. ASSUME NEW T \in SUBSET S, \A U \in SUBSET T : U # T => U \in F
      PROVE  T \in F
  <2> DEFINE fn(U) == CHOOSE g : IsSum(g, f, U)
             val == [U \in SUBSET T |-> fn(U)[U]]
             g == [s \in SUBSET T |-> IF s = {} THEN 0
                                      ELSE f[Pick(s)] + val[s \ {Pick(s)}]]
  <2>1. \A U \in SUBSET T : U # T => IsSum(fn(U), f, U)
    BY <1>1
  <2>2. ASSUME NEW s \in SUBSET T, s # T
        PROVE  g[s] = val[s]
    <3>1. IsSum(fn(s), f, s)
      BY <2>1, <2>2
    <3>2. CASE s = {}
      <4> HIDE DEF fn
      <4> QED
        BY <3>1, <3>2 DEF IsSum
    <3>3. CASE s # {}
      <4> DEFINE r == s \ {Pick(s)}
      <4>1. Pick(s) \in s
        BY <3>3, PickIsMember
      <4>2. r \in SUBSET s /\ r # s /\ r # T /\ r \in SUBSET T
        BY <4>1
      <4>3. IsSum(fn(r), f, r)
        BY <4>2, <2>1
      <4>4. IsFiniteSet(s)
        BY FS_Subset
      <4>5. fn(s)[r] = fn(r)[r]
        <5> HIDE DEF fn, r
        <5> QED
          BY <3>1, <4>2, <4>3, <4>4, SumCoherent
      <4>6. fn(s)[s] = f[Pick(s)] + fn(s)[r]
        <5> HIDE DEF fn
        <5> QED
          BY <3>1, <3>3 DEF IsSum
      <4>7. g[s] = f[Pick(s)] + val[r]
        BY <3>3
      <4>8. val[r] = fn(r)[r] /\ val[s] = fn(s)[s]
        BY <4>2
      <4> HIDE DEF fn, r, val, g
      <4> QED
        BY <4>5, <4>6, <4>7, <4>8
    <3> QED
      BY <3>2, <3>3
  <2>3. IsSum(g, f, T)
    <3>1. \A s \in SUBSET T : s # {} => val[s \ {Pick(s)}] = g[s \ {Pick(s)}]
      <4> SUFFICES ASSUME NEW s \in SUBSET T, s # {}
                   PROVE  val[s \ {Pick(s)}] = g[s \ {Pick(s)}]
        OBVIOUS
      <4>1. Pick(s) \in s
        BY PickIsMember
      <4>2. s \ {Pick(s)} \in SUBSET T /\ s \ {Pick(s)} # T
        BY <4>1
      <4> HIDE DEF g, val
      <4> QED
        BY <4>2, <2>2
    <3>2. \A s \in SUBSET T :
             g[s] = IF s = {} THEN 0 ELSE f[Pick(s)] + g[s \ {Pick(s)}]
      <4> SUFFICES ASSUME NEW s \in SUBSET T
                   PROVE g[s] = IF s = {} THEN 0 ELSE f[Pick(s)] + g[s \ {Pick(s)}]
        OBVIOUS
      <4>1. g[s] = IF s = {} THEN 0 ELSE f[Pick(s)] + val[s \ {Pick(s)}]
        OBVIOUS
      <4> HIDE DEF g, val
      <4> QED
        BY <3>1, <4>1
    <3>3. g = [s \in SUBSET T |-> g[s]]
      OBVIOUS
    <3> HIDE DEF g
    <3> QED
      BY <3>2, <3>3 DEF IsSum
  <2>4. Has(T)
    <3> HIDE DEF g
    <3> QED
      BY <2>3
  <2> QED
    BY <2>4
<1>2. \A T \in SUBSET S : T \in F
  <2> HIDE DEF F
  <2> QED
    BY <1>1, SubsetInduction
<1> QED
  BY <1>2

\* SumFunctionOnSet is such a function's value, if there is one.
LEMMA SumChoice ==
    ASSUME NEW f, NEW S
    PROVE  SumFunctionOnSet(f, S) = (CHOOSE g : IsSum(g, f, S))[S]
BY DEF SumFunctionOnSet, FoldFunctionOnSet, MapThenFoldSet, IsSum, Pick

\* The sum over no element is 0.
LEMMA SumEmpty ==
    ASSUME NEW f
    PROVE  SumFunctionOnSet(f, {}) = 0
<1>1. SumFunctionOnSet(f, {}) = (CHOOSE g : IsSum(g, f, {}))[{}]
  BY SumChoice
<1>2. IsSum(CHOOSE g : IsSum(g, f, {}), f, {})
  BY SumExists, FS_EmptySet
<1> QED
  BY <1>1, <1>2 DEF IsSum

\* One step of the recursion.
LEMMA SumOfPick ==
    ASSUME NEW f, NEW S, IsFiniteSet(S), S # {}
    PROVE  SumFunctionOnSet(f, S)
               = f[Pick(S)] + SumFunctionOnSet(f, S \ {Pick(S)})
<1> DEFINE T == S \ {Pick(S)}
           g == CHOOSE g : IsSum(g, f, S)
           h == CHOOSE h : IsSum(h, f, T)
<1>1. IsFiniteSet(T) /\ T \in SUBSET S
  BY FS_Subset
<1>2. IsSum(g, f, S) /\ IsSum(h, f, T)
  BY <1>1, SumExists
<1>3. SumFunctionOnSet(f, S) = g[S] /\ SumFunctionOnSet(f, T) = h[T]
  BY SumChoice
<1>4. g[T] = h[T]
  <2> HIDE DEF g, h, T
  <2> QED
    BY <1>1, <1>2, SumCoherent
<1>5. g[S] = f[Pick(S)] + g[T]
  <2> HIDE DEF g
  <2> QED
    BY <1>2 DEF IsSum
<1> QED
  BY <1>3, <1>4, <1>5

\* A sum of integers is an integer.
LEMMA SumIsInt ==
    ASSUME NEW f, NEW S, IsFiniteSet(S), \A x \in S : f[x] \in Int
    PROVE  SumFunctionOnSet(f, S) \in Int
<1> DEFINE F == {T \in SUBSET S : SumFunctionOnSet(f, T) \in Int}
<1>1. ASSUME NEW T \in SUBSET S, \A U \in SUBSET T : U # T => U \in F
      PROVE  T \in F
  <2>1. CASE T = {}
    BY <2>1, SumEmpty
  <2>2. CASE T # {}
    <3>1. Pick(T) \in T /\ IsFiniteSet(T)
      BY <2>2, PickIsMember, FS_Subset
    <3>2. SumFunctionOnSet(f, T \ {Pick(T)}) \in Int
      BY <3>1, <1>1
    <3> QED
      BY <2>2, <3>1, <3>2, SumOfPick
  <2> QED
    BY <2>1, <2>2
<1> HIDE DEF F
<1>2. S \in F
  BY <1>1, SubsetInduction
<1> QED
  BY <1>2 DEF F

\* A sum of naturals is a natural.
LEMMA SumIsNat ==
    ASSUME NEW f, NEW S, IsFiniteSet(S), \A x \in S : f[x] \in Nat
    PROVE  SumFunctionOnSet(f, S) \in Nat
<1> DEFINE F == {T \in SUBSET S : SumFunctionOnSet(f, T) \in Nat}
<1>1. ASSUME NEW T \in SUBSET S, \A U \in SUBSET T : U # T => U \in F
      PROVE  T \in F
  <2>1. CASE T = {}
    BY <2>1, SumEmpty
  <2>2. CASE T # {}
    <3>1. Pick(T) \in T /\ IsFiniteSet(T)
      BY <2>2, PickIsMember, FS_Subset
    <3>2. SumFunctionOnSet(f, T \ {Pick(T)}) \in Nat
      BY <3>1, <1>1
    <3> QED
      BY <2>2, <3>1, <3>2, SumOfPick
  <2> QED
    BY <2>1, <2>2
<1> HIDE DEF F
<1>2. S \in F
  BY <1>1, SubsetInduction
<1> QED
  BY <1>2 DEF F

\* The order of summation does not matter: any element can be taken out first.
LEMMA SumTakenApart ==
    ASSUME NEW f, NEW S, IsFiniteSet(S), \A x \in S : f[x] \in Int, NEW a \in S
    PROVE  SumFunctionOnSet(f, S) = f[a] + SumFunctionOnSet(f, S \ {a})
<1> DEFINE Apart(T) == \A x \in T :
               SumFunctionOnSet(f, T) = f[x] + SumFunctionOnSet(f, T \ {x})
           F == {T \in SUBSET S : Apart(T)}
<1>1. ASSUME NEW T \in SUBSET S, \A U \in SUBSET T : U # T => U \in F
      PROVE  T \in F
  <2> SUFFICES ASSUME NEW x \in T
               PROVE  SumFunctionOnSet(f, T) = f[x] + SumFunctionOnSet(f, T \ {x})
    OBVIOUS
  <2> DEFINE p == Pick(T)
  <2>1. p \in T /\ IsFiniteSet(T)
    BY PickIsMember, FS_Subset
  <2>2. SumFunctionOnSet(f, T) = f[p] + SumFunctionOnSet(f, T \ {p})
    BY <2>1, SumOfPick
  <2>3. CASE x = p
    BY <2>2, <2>3
  <2>4. CASE x # p
    <3> HIDE DEF p
    <3>1. SumFunctionOnSet(f, T \ {p}) = f[x] + SumFunctionOnSet(f, (T \ {p}) \ {x})
      BY <2>1, <2>4, <1>1
    <3>2. SumFunctionOnSet(f, T \ {x}) = f[p] + SumFunctionOnSet(f, (T \ {x}) \ {p})
      BY <2>1, <2>4, <1>1
    <3>3. (T \ {x}) \ {p} = (T \ {p}) \ {x}
      OBVIOUS
    <3>4. SumFunctionOnSet(f, (T \ {p}) \ {x}) \in Int
      <4>1. IsFiniteSet((T \ {p}) \ {x})
        BY <2>1, FS_Subset
      <4> QED
        BY <4>1, SumIsInt
    <3>5. f[x] \in Int /\ f[p] \in Int
      BY <2>1
    <3> DEFINE rest == SumFunctionOnSet(f, (T \ {p}) \ {x})
    <3>6. SumFunctionOnSet(f, T \ {x}) = f[p] + rest
      BY <3>2, <3>3
    <3>7. SumFunctionOnSet(f, T) = f[p] + (f[x] + rest)
      BY <2>2, <3>1
    <3> HIDE DEF rest
    <3>8. f[p] + (f[x] + rest) = f[x] + (f[p] + rest)
      BY <3>4, <3>5 DEF rest
    <3> QED
      BY <3>6, <3>7, <3>8
  <2> QED
    BY <2>3, <2>4
<1> HIDE DEF F
<1>2. S \in F
  BY <1>1, SubsetInduction
<1> QED
  BY <1>2 DEF F

\* Functions that agree on a set have the same sum over it.
LEMMA SumOfSame ==
    ASSUME NEW f, NEW g, NEW S, IsFiniteSet(S), \A x \in S : f[x] = g[x]
    PROVE  SumFunctionOnSet(f, S) = SumFunctionOnSet(g, S)
<1> DEFINE F == {T \in SUBSET S : SumFunctionOnSet(f, T) = SumFunctionOnSet(g, T)}
<1>1. ASSUME NEW T \in SUBSET S, \A U \in SUBSET T : U # T => U \in F
      PROVE  T \in F
  <2>1. CASE T = {}
    BY <2>1, SumEmpty
  <2>2. CASE T # {}
    <3>1. Pick(T) \in T /\ IsFiniteSet(T)
      BY <2>2, PickIsMember, FS_Subset
    <3>2. SumFunctionOnSet(f, T \ {Pick(T)}) = SumFunctionOnSet(g, T \ {Pick(T)})
      BY <3>1, <1>1
    <3>3. f[Pick(T)] = g[Pick(T)]
      BY <3>1
    <3> QED
      BY <2>2, <3>1, <3>2, <3>3, SumOfPick
  <2> QED
    BY <2>1, <2>2
<1> HIDE DEF F
<1>2. S \in F
  BY <1>1, SubsetInduction
<1> QED
  BY <1>2 DEF F

\* Adding an element adds its value.
LEMMA SumWithOne ==
    ASSUME NEW f, NEW S, IsFiniteSet(S), NEW a, a \notin S,
           \A x \in S \cup {a} : f[x] \in Int
    PROVE  SumFunctionOnSet(f, S \cup {a}) = f[a] + SumFunctionOnSet(f, S)
<1>1. IsFiniteSet(S \cup {a}) /\ (S \cup {a}) \ {a} = S /\ a \in S \cup {a}
  BY FS_AddElement
<1> QED
  BY <1>1, SumTakenApart

\* Changing one value changes the sum by the difference.
LEMMA SumUpdated ==
    ASSUME NEW f, NEW g, NEW S, IsFiniteSet(S), NEW a \in S,
           \A x \in S : f[x] \in Int,
           \A x \in S : g[x] \in Int,
           \A x \in S \ {a} : g[x] = f[x]
    PROVE  SumFunctionOnSet(g, S) = SumFunctionOnSet(f, S) + (g[a] - f[a])
<1>1. SumFunctionOnSet(g, S) = g[a] + SumFunctionOnSet(g, S \ {a})
  BY SumTakenApart
<1>2. SumFunctionOnSet(f, S) = f[a] + SumFunctionOnSet(f, S \ {a})
  BY SumTakenApart
<1>3. IsFiniteSet(S \ {a})
  BY FS_Subset
<1>4. SumFunctionOnSet(g, S \ {a}) = SumFunctionOnSet(f, S \ {a})
  BY <1>3, SumOfSame
<1>5. SumFunctionOnSet(f, S \ {a}) \in Int
  BY <1>3, SumIsInt
<1> QED
  BY <1>1, <1>2, <1>4, <1>5

\* What one summand gives to another leaves the sum as it was.
LEMMA SumMoved ==
    ASSUME NEW f, NEW g, NEW S, IsFiniteSet(S), NEW a \in S, NEW b \in S, a # b,
           NEW n \in Int,
           \A x \in S : f[x] \in Int,
           g[a] = f[a] - n, g[b] = f[b] + n,
           \A x \in S \ {a, b} : g[x] = f[x]
    PROVE  SumFunctionOnSet(g, S) = SumFunctionOnSet(f, S)
<1> DEFINE h == [x \in S |-> IF x = a THEN f[a] - n ELSE f[x]]
<1>1. /\ \A x \in S : h[x] \in Int
      /\ \A x \in S \ {a} : h[x] = f[x]
      /\ h[a] = f[a] - n /\ h[b] = f[b] /\ f[a] \in Int /\ f[b] \in Int
  OBVIOUS
<1>2. (\A x \in S : g[x] \in Int) /\ \A x \in S \ {b} : g[x] = h[x]
  BY <1>1
<1> HIDE DEF h
<1>3. SumFunctionOnSet(h, S) = SumFunctionOnSet(f, S) + (h[a] - f[a])
  BY <1>1, SumUpdated
<1>4. SumFunctionOnSet(g, S) = SumFunctionOnSet(h, S) + (g[b] - h[b])
  BY <1>1, <1>2, SumUpdated
<1>5. SumFunctionOnSet(f, S) \in Int
  BY SumIsInt
<1> QED
  BY <1>1, <1>3, <1>4, <1>5

\* Summing larger values gives no smaller sum.
LEMMA SumMonotonic ==
    ASSUME NEW f, NEW g, NEW S, IsFiniteSet(S),
           \A x \in S : f[x] \in Int /\ g[x] \in Int /\ f[x] <= g[x]
    PROVE  SumFunctionOnSet(f, S) <= SumFunctionOnSet(g, S)
<1> DEFINE F == {T \in SUBSET S : SumFunctionOnSet(f, T) <= SumFunctionOnSet(g, T)}
<1>1. ASSUME NEW T \in SUBSET S, \A U \in SUBSET T : U # T => U \in F
      PROVE  T \in F
  <2>1. CASE T = {}
    BY <2>1, SumEmpty
  <2>2. CASE T # {}
    <3> DEFINE U == T \ {Pick(T)}
    <3>1. Pick(T) \in T /\ IsFiniteSet(T) /\ IsFiniteSet(U)
      BY <2>2, PickIsMember, FS_Subset
    <3>2. SumFunctionOnSet(f, U) <= SumFunctionOnSet(g, U)
      BY <3>1, <1>1
    <3>3. SumFunctionOnSet(f, U) \in Int /\ SumFunctionOnSet(g, U) \in Int
      BY <3>1, SumIsInt
    <3>4. /\ SumFunctionOnSet(f, T) = f[Pick(T)] + SumFunctionOnSet(f, U)
          /\ SumFunctionOnSet(g, T) = g[Pick(T)] + SumFunctionOnSet(g, U)
      BY <2>2, <3>1, SumOfPick
    <3>5. f[Pick(T)] \in Int /\ g[Pick(T)] \in Int /\ f[Pick(T)] <= g[Pick(T)]
      BY <3>1
    <3> QED
      BY <3>2, <3>3, <3>4, <3>5
  <2> QED
    BY <2>1, <2>2
<1> HIDE DEF F
<1>2. S \in F
  BY <1>1, SubsetInduction
<1> QED
  BY <1>2 DEF F

\* A sum of natural numbers is no smaller than each of them.
LEMMA SumBoundsEach ==
    ASSUME NEW f, NEW S, IsFiniteSet(S), \A x \in S : f[x] \in Nat, NEW a \in S
    PROVE  f[a] <= SumFunctionOnSet(f, S)
<1>1. SumFunctionOnSet(f, S) = f[a] + SumFunctionOnSet(f, S \ {a})
  BY SumTakenApart
<1>2. IsFiniteSet(S \ {a})
  BY FS_Subset
<1>3. SumFunctionOnSet(f, S \ {a}) \in Nat /\ f[a] \in Nat
  BY <1>2, SumIsNat
<1> QED
  BY <1>1, <1>3

\* The sum over a part of a set is at most the sum over the set.
LEMMA SumOfSubset ==
    ASSUME NEW f, NEW S, IsFiniteSet(S), \A x \in S : f[x] \in Nat, NEW T \in SUBSET S
    PROVE  SumFunctionOnSet(f, T) <= SumFunctionOnSet(f, S)
<1> DEFINE F == {U \in SUBSET S : \A V \in SUBSET U :
                    SumFunctionOnSet(f, V) <= SumFunctionOnSet(f, U)}
<1>1. ASSUME NEW U \in SUBSET S, \A V \in SUBSET U : V # U => V \in F
      PROVE  U \in F
  <2> SUFFICES ASSUME NEW V \in SUBSET U
               PROVE  SumFunctionOnSet(f, V) <= SumFunctionOnSet(f, U)
    OBVIOUS
  <2>1. IsFiniteSet(U) /\ SumFunctionOnSet(f, U) \in Nat
    BY FS_Subset, SumIsNat
  <2>2. CASE V = U
    BY <2>1, <2>2
  <2>3. CASE V # U
    <3>1. PICK x \in U : x \notin V
      BY <2>3
    <3> DEFINE W == U \ {x}
    <3>2. W \in SUBSET U /\ W # U /\ V \in SUBSET W
      BY <3>1
    <3>3. SumFunctionOnSet(f, V) <= SumFunctionOnSet(f, W)
      BY <1>1, <3>2
    <3>4. SumFunctionOnSet(f, U) = f[x] + SumFunctionOnSet(f, W)
      BY <2>1, SumTakenApart
    <3>5. IsFiniteSet(W) /\ IsFiniteSet(V)
      BY <2>1, <3>2, FS_Subset
    <3>6. SumFunctionOnSet(f, W) \in Nat /\ SumFunctionOnSet(f, V) \in Nat /\ f[x] \in Nat
      BY <3>5, SumIsNat
    <3> HIDE DEF W
    <3> QED
      BY <3>3, <3>4, <3>6
  <2> QED
    BY <2>2, <2>3
<1> HIDE DEF F
<1>2. \A U \in SUBSET S : U \in F
  BY <1>1, SubsetInduction
<1> QED
  BY <1>2 DEF F

\* The sum of a constant is a product.
LEMMA SumConstant ==
    ASSUME NEW f, NEW S, IsFiniteSet(S), NEW c \in Nat, \A x \in S : f[x] = c
    PROVE  SumFunctionOnSet(f, S) = c * Cardinality(S)
<1> DEFINE F == {T \in SUBSET S : SumFunctionOnSet(f, T) = c * Cardinality(T)}
<1>1. ASSUME NEW T \in SUBSET S, \A U \in SUBSET T : U # T => U \in F
      PROVE  T \in F
  <2>1. CASE T = {}
    BY <2>1, SumEmpty, FS_EmptySet
  <2>2. CASE T # {}
    <3> DEFINE U == T \ {Pick(T)}
    <3>1. Pick(T) \in T /\ IsFiniteSet(T)
      BY <2>2, PickIsMember, FS_Subset
    <3>2. SumFunctionOnSet(f, U) = c * Cardinality(U)
      BY <3>1, <1>1
    <3>3. Cardinality(U) = Cardinality(T) - 1 /\ Cardinality(T) \in Nat
      BY <3>1, FS_RemoveElement, FS_CardinalityType
    <3>4. SumFunctionOnSet(f, T) = c + SumFunctionOnSet(f, U)
      BY <2>2, <3>1, SumOfPick
    <3>5. c + c * (Cardinality(T) - 1) = c * Cardinality(T)
      BY <3>3
    <3> QED
      BY <3>2, <3>3, <3>4, <3>5
  <2> QED
    BY <2>1, <2>2
<1> HIDE DEF F
<1>2. S \in F
  BY <1>1, SubsetInduction
<1> QED
  BY <1>2 DEF F

-----------------------------------------------------------------------------
(* Powers. *)

\* p[n] is the n-th power of b.
IsPower(p, b, m) == p = [n \in 0 .. m |-> IF n = 0 THEN 1 ELSE b * p[n - 1]]

\* Induction on Nat, with a set in place of a formula.
LEMMA NatInductionOnSet ==
    ASSUME NEW S, 0 \in S, \A n \in Nat : n \in S => n + 1 \in S
    PROVE  \A n \in Nat : n \in S
<1> DEFINE R == {ss \in Nat \X Nat : ss[1] < ss[2]}
           T == Nat \ S
<1>1. SUFFICES ASSUME T # {} PROVE FALSE
  OBVIOUS
<1>2. PICK x \in T : \A y \in T : ~ (<<y, x>> \in R)
  <2>1. IsWellFoundedOn(R, Nat)
    BY NatLessThanWellFounded, Zenon DEF OpToRel
  <2> HIDE DEF R
  <2>2. QED
    BY <2>1, <1>1, WFMin
<1>3. x # 0 /\ x - 1 \in Nat /\ x - 1 \in S
  <2>1. x # 0
    OBVIOUS
  <2>2. x - 1 \in Nat
    BY <2>1
  <2>3. <<x - 1, x>> \in R
    BY <2>2
  <2>4. QED
    BY <2>1, <2>2, <2>3, <1>2
<1>4. QED
  BY <1>3

\* There is a function that satisfies the recursion of a power.
LEMMA PowerExists ==
    ASSUME NEW b \in Nat, NEW m \in Nat
    PROVE  \E p : IsPower(p, b, m)
<1> DEFINE UpTo(p, k) == \A n \in 0 .. m : n <= k =>
               p[n] = IF n = 0 THEN 1 ELSE b * p[n - 1]
           Found(k) == \E p : p = [n \in 0 .. m |-> p[n]] /\ UpTo(p, k)
           S == {k \in Nat : Found(k)}
<1>1. 0 \in S
  <2> DEFINE p == [n \in 0 .. m |-> 1]
  <2>1. p = [n \in 0 .. m |-> p[n]] /\ UpTo(p, 0)
    OBVIOUS
  <2> HIDE DEF p
  <2> QED
    BY <2>1
<1>2. ASSUME NEW k \in Nat, k \in S
      PROVE  k + 1 \in S
  <2>p. PICK p : p = [n \in 0 .. m |-> p[n]] /\ UpTo(p, k)
    BY <1>2
  <2>u. \A n \in 0 .. m : n <= k => p[n] = IF n = 0 THEN 1 ELSE b * p[n - 1]
    BY <2>p, Zenon
  <2> DEFINE q == [n \in 0 .. m |-> IF n <= k THEN p[n] ELSE b * p[n - 1]]
  <2>1. q = [n \in 0 .. m |-> q[n]]
    OBVIOUS
  <2>2. UpTo(q, k + 1)
    <3> SUFFICES ASSUME NEW n \in 0 .. m, n <= k + 1
                 PROVE  q[n] = IF n = 0 THEN 1 ELSE b * q[n - 1]
      OBVIOUS
    <3>1. CASE n = 0
      <4>1. n \in 0 .. m /\ n <= k /\ p[n] = 1
        BY <3>1, <2>u
      <4>2. q[n] = p[n]
        BY <4>1
      <4> QED
        BY <3>1, <4>1, <4>2
    <3>2. CASE n # 0
      <4>1. n - 1 \in 0 .. m /\ n - 1 <= k
        BY <3>2
      <4>2. q[n - 1] = p[n - 1]
        BY <4>1
      <4>3. q[n] = b * p[n - 1]
        <5>1. CASE n <= k
          BY <5>1, <3>2, <2>u
        <5>2. CASE ~ (n <= k)
          BY <5>2
        <5> QED
          BY <5>1, <5>2
      <4> QED
        BY <3>2, <4>2, <4>3
    <3> QED
      BY <3>1, <3>2
  <2>3. Found(k + 1)
    <3> HIDE DEF q
    <3> QED
      BY <2>1, <2>2
  <2> HIDE DEF Found
  <2> QED
    BY <2>3
<1>3. m \in S
  <2> HIDE DEF S
  <2> QED
    BY <1>1, <1>2, NatInductionOnSet
<1>4. PICK p : p = [n \in 0 .. m |-> p[n]] /\ UpTo(p, m)
  BY <1>3
<1>5. IsPower(p, b, m)
  <2>1. \A n \in 0 .. m : p[n] = IF n = 0 THEN 1 ELSE b * p[n - 1]
    <3>1. \A n \in 0 .. m : n <= m => p[n] = IF n = 0 THEN 1 ELSE b * p[n - 1]
      BY <1>4, Zenon
    <3> QED
      BY <3>1
  <2>2. [n \in 0 .. m |-> p[n]]
            = [n \in 0 .. m |-> IF n = 0 THEN 1 ELSE b * p[n - 1]]
    BY <2>1
  <2> QED
    BY <1>4, <2>2, Zenon DEF IsPower
<1> QED
  BY <1>5

\* The powers of a positive number are positive.
LEMMA PowerType ==
    ASSUME NEW b \in Nat \ {0}, NEW m \in Nat, NEW p, IsPower(p, b, m)
    PROVE  p \in [0 .. m -> Nat \ {0}]
<1> DEFINE S == {k \in Nat : k <= m => p[k] \in Nat \ {0}}
<1>1. 0 \in S
  BY DEF IsPower
<1>2. ASSUME NEW k \in Nat, k \in S
      PROVE  k + 1 \in S
  <2> SUFFICES ASSUME k + 1 <= m
               PROVE  p[k + 1] \in Nat \ {0}
    OBVIOUS
  <2>1. p[k + 1] = b * p[k]
    BY DEF IsPower
  <2>2. p[k] \in Nat \ {0}
    BY <1>2
  <2>3. \A x, y \in Nat \ {0} : x * y \in Nat \ {0}
    OBVIOUS
  <2> QED
    BY <2>1, <2>2, <2>3
<1>3. \A k \in Nat : k \in S
  <2> HIDE DEF S
  <2> QED
    BY <1>1, <1>2, NatInductionOnSet
<1>4. DOMAIN p = 0 .. m
  BY DEF IsPower
<1>5. \A k \in 0 .. m : p[k] \in Nat \ {0}
  BY <1>3
<1> QED
  BY <1>4, <1>5 DEF IsPower

\* The power of a sum is the product of the powers.
LEMMA PowerProduct ==
    ASSUME NEW b \in Nat \ {0}, NEW m \in Nat, NEW p, IsPower(p, b, m),
           NEW i \in Nat, NEW j \in Nat, i + j <= m
    PROVE  p[i + j] = p[i] * p[j]
<1> DEFINE S == {k \in Nat : i + k <= m => p[i + k] = p[i] * p[k]}
<1>1. p \in [0 .. m -> Nat \ {0}]
  BY PowerType
<1>2. 0 \in S
  <2> SUFFICES ASSUME i <= m PROVE p[i + 0] = p[i] * p[0]
    OBVIOUS
  <2>1. p[0] = 1 /\ p[i] \in Nat
    BY <1>1 DEF IsPower
  <2> QED
    BY <2>1
<1>3. ASSUME NEW k \in Nat, k \in S
      PROVE  k + 1 \in S
  <2> SUFFICES ASSUME i + (k + 1) <= m
               PROVE  p[i + (k + 1)] = p[i] * p[k + 1]
    OBVIOUS
  <2>1. p[k + 1] = b * p[k]
    BY DEF IsPower
  <2>2. p[i + (k + 1)] = b * p[i + k]
    <3>1. i + (k + 1) \in 0 .. m /\ i + (k + 1) # 0 /\ i + (k + 1) - 1 = i + k
      OBVIOUS
    <3> QED
      BY <3>1 DEF IsPower
  <2>3. p[i + k] = p[i] * p[k]
    BY <1>3
  <2>4. p[i] \in Nat /\ p[k] \in Nat
    BY <1>1
  <2>5. \A x, y, z \in Nat : x * (y * z) = y * (x * z)
    OBVIOUS
  <2> QED
    BY <2>1, <2>2, <2>3, <2>4, <2>5
<1>4. j \in S
  <2> HIDE DEF S
  <2> QED
    BY <1>2, <1>3, NatInductionOnSet
<1> QED
  BY <1>4

\* Rounding a to multiples of k loses less than k, here in units of u.
LEMMA Rounding ==
    ASSUME NEW a \in Nat, NEW k \in Nat \ {0}, NEW u \in Nat \ {0}
    PROVE  /\ a \div k \in Nat
           /\ 0 <= a * u - (a \div k) * (u * k)
           /\ a * u - (a \div k) * (u * k) <= u * k - u
<1> DEFINE q == a \div k
           r == a % k
<1>1. q \in Nat /\ r \in Nat /\ r <= k - 1 /\ a = k * q + r
  OBVIOUS
<1> HIDE DEF q, r
<1>2. a * u - q * (u * k) = r * u
  <2>1. a * u = (k * q) * u + r * u
    BY <1>1
  <2>2. (k * q) * u = q * (u * k)
    BY <1>1
  <2>3. r * u \in Nat /\ q * (u * k) \in Nat
    BY <1>1
  <2> QED
    BY <2>1, <2>2, <2>3
<1>3. r * u <= (k - 1) * u
  BY <1>1
<1>4. (k - 1) * u = u * k - u
  OBVIOUS
<1>5. r * u \in Nat
  BY <1>1
<1> QED
  BY <1>1, <1>2, <1>3, <1>4, <1>5 DEF q
=============================================================================
