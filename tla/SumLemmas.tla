------------------------------ MODULE SumLemmas ------------------------------
(***************************************************************************)
(* What the proofs need of sums over finite sets.  A sum is the fold of a  *)
(* function with addition, as the models write it.  The library's theorems *)
(* of induction take an operator; here what is to be shown of every subset *)
(* is a set of subsets, so that the provers can instantiate it.            *)
(***************************************************************************)
EXTENDS Integers, Functions, FiniteSetTheorems, TLAPS

\* The element a fold takes next.
Taken(s) == CHOOSE x \in s : TRUE

\* g maps each subset of S to the sum of f over it.
Sums(f, S, g) ==
  g = [s \in SUBSET S |-> IF s = {} THEN 0 ELSE f[Taken(s)] + g[s \ {Taken(s)}]]

SumsOf(f, S) == CHOOSE g : Sums(f, S, g)

-----------------------------------------------------------------------------

\* Induction on a finite set: what is in a family as soon as all its smaller
\* subsets are, is in the family.
LEMMA SubsetInduction ==
  ASSUME NEW S, IsFiniteSet(S), NEW F,
         \A T \in SUBSET S : (\A U \in SUBSET T : U # T => U \in F) => T \in F
  PROVE  \A T \in SUBSET S : T \in F
<1> DEFINE Bad == {T \in SUBSET S : T \notin F}
<1> SUFFICES ASSUME Bad # {} PROVE FALSE
  OBVIOUS
<1>1. IsWellFoundedOn(StrictSubsetOrdering(S), FiniteSubsetsOf(S))
  BY FS_StrictSubsetOrderingWellFounded
<1>2. Bad \subseteq FiniteSubsetsOf(S)
  BY FS_Subset DEF FiniteSubsetsOf
<1> HIDE DEF Bad
<1>3. PICK T \in Bad : \A U \in Bad : <<U, T>> \notin StrictSubsetOrdering(S)
  BY <1>1, <1>2, WFMin
<1>4. ASSUME NEW U \in SUBSET T, U # T PROVE U \in F
  BY <1>3, <1>4 DEF Bad, StrictSubsetOrdering
<1>5. QED BY <1>3, <1>4 DEF Bad

LEMMA TakenIn == ASSUME NEW s, s # {} PROVE Taken(s) \in s
BY DEF Taken

\* The sums over the subsets of a subset.
LEMMA SumsRestrict ==
  ASSUME NEW f, NEW S, NEW g, Sums(f, S, g), NEW U \in SUBSET S
  PROVE  Sums(f, U, [s \in SUBSET U |-> g[s]])
<1> DEFINE h == [s \in SUBSET U |-> g[s]]
<1>1. ASSUME NEW s \in SUBSET U
      PROVE h[s] = IF s = {} THEN 0 ELSE f[Taken(s)] + h[s \ {Taken(s)}]
  <2>1. s \in SUBSET S /\ s \ {Taken(s)} \in SUBSET U
    OBVIOUS
  <2>2. g[s] = IF s = {} THEN 0 ELSE f[Taken(s)] + g[s \ {Taken(s)}]
    BY <2>1 DEF Sums
  <2>3. QED BY <2>1, <2>2
<1>2. h = [s \in SUBSET U |-> IF s = {} THEN 0 ELSE f[Taken(s)] + h[s \ {Taken(s)}]]
  BY <1>1
<1>3. QED BY <1>2 DEF Sums

LEMMA SumsUnique ==
  ASSUME NEW f, NEW S, IsFiniteSet(S), NEW g, Sums(f, S, g), NEW h, Sums(f, S, h)
  PROVE  g = h
<1> DEFINE F == {T \in SUBSET S : g[T] = h[T]}
<1>1. ASSUME NEW T \in SUBSET S, \A U \in SUBSET T : U # T => U \in F PROVE T \in F
  <2>1. g[T] = (IF T = {} THEN 0 ELSE f[Taken(T)] + g[T \ {Taken(T)}])
    BY DEF Sums
  <2>2. h[T] = (IF T = {} THEN 0 ELSE f[Taken(T)] + h[T \ {Taken(T)}])
    BY DEF Sums
  <2>3. T # {} => T \ {Taken(T)} \in F
    BY <1>1, TakenIn
  <2>4. QED BY <2>1, <2>2, <2>3
<1> HIDE DEF F
<1>2. \A T \in SUBSET S : T \in F
  BY <1>1, SubsetInduction
<1>3. \A T \in SUBSET S : g[T] = h[T]
  BY <1>2 DEF F
<1>4. QED BY <1>3 DEF Sums

LEMMA SumsExist ==
  ASSUME NEW f, NEW S, IsFiniteSet(S)
  PROVE  Sums(f, S, SumsOf(f, S))
<1> DEFINE F == {T \in SUBSET S : \E g : Sums(f, T, g)}
<1>1. ASSUME NEW T \in SUBSET S, \A U \in SUBSET T : U # T => U \in F PROVE T \in F
  <2> DEFINE below(U) == SumsOf(f, U)[U]
             h == [s \in SUBSET T |-> IF s = {} THEN 0
                                      ELSE f[Taken(s)] + below(s \ {Taken(s)})]
  <2>1. ASSUME NEW U \in SUBSET T, U # T PROVE Sums(f, U, SumsOf(f, U))
    BY <1>1, <2>1 DEF SumsOf
  <2>2. ASSUME NEW U \in SUBSET T, U # T, U # {}
        PROVE  below(U) = f[Taken(U)] + below(U \ {Taken(U)})
    <3> DEFINE W == U \ {Taken(U)}
    <3>1. W \in SUBSET U /\ W # T /\ W \in SUBSET T /\ U \in SUBSET U
      BY <2>2, TakenIn
    <3>2. Sums(f, U, SumsOf(f, U)) /\ Sums(f, W, SumsOf(f, W))
      BY <2>1, <2>2, <3>1
    <3>3. below(U) = f[Taken(U)] + SumsOf(f, U)[W]
      BY <2>2, <3>1, <3>2 DEF Sums
    <3>4. Sums(f, W, [s \in SUBSET W |-> SumsOf(f, U)[s]])
      BY <3>1, <3>2, SumsRestrict
    <3>5. IsFiniteSet(W)
      BY <3>1, FS_Subset
    <3>6. SumsOf(f, W) = [s \in SUBSET W |-> SumsOf(f, U)[s]]
      BY <3>2, <3>4, <3>5, SumsUnique
    <3>7. QED BY <3>3, <3>6
  <2>3. ASSUME NEW s \in SUBSET T
        PROVE  h[s] = IF s = {} THEN 0 ELSE f[Taken(s)] + h[s \ {Taken(s)}]
    <3> DEFINE U == s \ {Taken(s)}
    <3>1. CASE s = {}
      BY <3>1
    <3>2. CASE s # {} /\ U = {}
      <4>1. U \in SUBSET T /\ U # T
        BY <3>2, TakenIn
      <4>2. below(U) = 0
        BY <2>1, <3>2, <4>1 DEF Sums
      <4>3. QED BY <3>2, <4>1, <4>2
    <3>3. CASE s # {} /\ U # {}
      <4>1. U \in SUBSET T /\ U # T
        BY <3>3, TakenIn
      <4>2. below(U) = h[U]
        BY <2>2, <3>3, <4>1
      <4>3. QED BY <3>3, <4>1, <4>2
    <3>4. QED BY <3>1, <3>2, <3>3
  <2> HIDE DEF h
  <2>4. h = [s \in SUBSET T |-> IF s = {} THEN 0 ELSE f[Taken(s)] + h[s \ {Taken(s)}]]
    BY <2>3 DEF h
  <2>5. QED BY <2>4 DEF Sums
<1> HIDE DEF F
<1>2. S \in F
  BY <1>1, SubsetInduction
<1>3. QED BY <1>2 DEF F, SumsOf

-----------------------------------------------------------------------------

LEMMA SumIsSums ==
  ASSUME NEW f, NEW S
  PROVE  SumFunctionOnSet(f, S) = SumsOf(f, S)[S]
BY DEF SumFunctionOnSet, FoldFunctionOnSet, MapThenFoldSet, SumsOf, Sums, Taken

\* The equation a fold is defined by.
LEMMA SumDef ==
  ASSUME NEW f, NEW S, IsFiniteSet(S)
  PROVE  SumFunctionOnSet(f, S) =
           IF S = {} THEN 0 ELSE f[Taken(S)] + SumFunctionOnSet(f, S \ {Taken(S)})
<1> DEFINE U == S \ {Taken(S)}
<1>1. Sums(f, S, SumsOf(f, S)) /\ S \in SUBSET S /\ U \in SUBSET S /\ IsFiniteSet(U)
  BY SumsExist, FS_Subset
<1>2. SumsOf(f, S)[S] = IF S = {} THEN 0 ELSE f[Taken(S)] + SumsOf(f, S)[U]
  BY <1>1 DEF Sums
<1>3. Sums(f, U, [s \in SUBSET U |-> SumsOf(f, S)[s]]) /\ Sums(f, U, SumsOf(f, U))
  BY <1>1, SumsRestrict, SumsExist
<1>4. SumsOf(f, U) = [s \in SUBSET U |-> SumsOf(f, S)[s]]
  BY <1>1, <1>3, SumsUnique
<1>5. SumsOf(f, U)[U] = SumsOf(f, S)[U]
  BY <1>4
<1>6. QED BY <1>2, <1>5, SumIsSums

\* A sum of integers is an integer.
LEMMA SumType ==
  ASSUME NEW f, NEW S, IsFiniteSet(S), \A x \in S : f[x] \in Int
  PROVE  SumFunctionOnSet(f, S) \in Int
<1> DEFINE F == {T \in SUBSET S : SumFunctionOnSet(f, T) \in Int}
<1>1. ASSUME NEW T \in SUBSET S, \A U \in SUBSET T : U # T => U \in F PROVE T \in F
  <2>1. IsFiniteSet(T)
    BY FS_Subset
  <2>2. T # {} => f[Taken(T)] \in Int /\ SumFunctionOnSet(f, T \ {Taken(T)}) \in Int
    BY <1>1, TakenIn
  <2>3. QED BY <2>1, <2>2, SumDef
<1> HIDE DEF F
<1>2. S \in F
  BY <1>1, SubsetInduction
<1>3. QED BY <1>2 DEF F

\* Whatever order a fold takes, any element may be taken first.
LEMMA SumRemove ==
  ASSUME NEW f, NEW S, IsFiniteSet(S), \A x \in S : f[x] \in Int, NEW x \in S
  PROVE  SumFunctionOnSet(f, S) = f[x] + SumFunctionOnSet(f, S \ {x})
<1> DEFINE F == {T \in SUBSET S : \A y \in T :
                   SumFunctionOnSet(f, T) = f[y] + SumFunctionOnSet(f, T \ {y})}
<1>1. ASSUME NEW T \in SUBSET S, \A U \in SUBSET T : U # T => U \in F PROVE T \in F
  <2> SUFFICES ASSUME NEW y \in T
               PROVE  SumFunctionOnSet(f, T) = f[y] + SumFunctionOnSet(f, T \ {y})
    OBVIOUS
  <2> DEFINE c == Taken(T)
             U == T \ {c}
             V == T \ {y}
             W == T \ {c, y}
  <2>1. IsFiniteSet(T) /\ IsFiniteSet(U) /\ IsFiniteSet(V) /\ IsFiniteSet(W)
    BY FS_Subset
  <2>2. c \in T
    BY TakenIn
  <2>3. SumFunctionOnSet(f, T) = f[c] + SumFunctionOnSet(f, U)
    BY <2>1, SumDef
  <2>4. CASE c = y
    BY <2>3, <2>4
  <2>5. CASE c # y
    <3>1. y \in U /\ c \in V /\ U \ {y} = W /\ V \ {c} = W
      BY <2>2, <2>5
    <3>2. U \in F /\ V \in F
      BY <1>1, <2>2
    <3>3. SumFunctionOnSet(f, U) = f[y] + SumFunctionOnSet(f, W)
      BY <3>1, <3>2
    <3>4. SumFunctionOnSet(f, V) = f[c] + SumFunctionOnSet(f, W)
      BY <3>1, <3>2
    <3>5. f[c] \in Int /\ f[y] \in Int /\ SumFunctionOnSet(f, W) \in Int
      BY <2>1, <2>2, SumType
    <3>6. QED BY <2>3, <3>3, <3>4, <3>5
  <2>6. QED BY <2>4, <2>5
<1> HIDE DEF F
<1>2. S \in F
  BY <1>1, SubsetInduction
<1>3. QED BY <1>2 DEF F

LEMMA SumEmpty ==
  ASSUME NEW f
  PROVE  SumFunctionOnSet(f, {}) = 0
BY SumDef, FS_EmptySet

LEMMA SumZero ==
  ASSUME NEW f, NEW S, IsFiniteSet(S), \A x \in S : f[x] = 0
  PROVE  SumFunctionOnSet(f, S) = 0
<1> DEFINE F == {T \in SUBSET S : SumFunctionOnSet(f, T) = 0}
<1>1. ASSUME NEW T \in SUBSET S, \A U \in SUBSET T : U # T => U \in F PROVE T \in F
  <2>1. IsFiniteSet(T)
    BY FS_Subset
  <2>2. T # {} => f[Taken(T)] = 0 /\ SumFunctionOnSet(f, T \ {Taken(T)}) = 0
    BY <1>1, TakenIn
  <2>3. QED BY <2>1, <2>2, SumDef
<1> HIDE DEF F
<1>2. S \in F
  BY <1>1, SubsetInduction
<1>3. QED BY <1>2 DEF F

\* Only the values on S count.
LEMMA SumSame ==
  ASSUME NEW f, NEW g, NEW S, IsFiniteSet(S), \A x \in S : f[x] = g[x]
  PROVE  SumFunctionOnSet(f, S) = SumFunctionOnSet(g, S)
<1> DEFINE F == {T \in SUBSET S : SumFunctionOnSet(f, T) = SumFunctionOnSet(g, T)}
<1>1. ASSUME NEW T \in SUBSET S, \A U \in SUBSET T : U # T => U \in F PROVE T \in F
  <2>1. IsFiniteSet(T)
    BY FS_Subset
  <2>2. T # {} => /\ f[Taken(T)] = g[Taken(T)]
                  /\ SumFunctionOnSet(f, T \ {Taken(T)}) = SumFunctionOnSet(g, T \ {Taken(T)})
    BY <1>1, TakenIn
  <2>3. QED BY <2>1, <2>2, SumDef
<1> HIDE DEF F
<1>2. S \in F
  BY <1>1, SubsetInduction
<1>3. QED BY <1>2 DEF F

\* A new value at one element changes the sum by the difference.
LEMMA SumChange ==
  ASSUME NEW f, NEW g, NEW S, IsFiniteSet(S), NEW x \in S,
         \A y \in S : f[y] \in Int /\ g[y] \in Int,
         \A y \in S \ {x} : f[y] = g[y]
  PROVE  SumFunctionOnSet(g, S) = SumFunctionOnSet(f, S) - f[x] + g[x]
<1>1. IsFiniteSet(S \ {x})
  BY FS_Subset
<1>2. SumFunctionOnSet(g, S \ {x}) = SumFunctionOnSet(f, S \ {x})
  BY <1>1, SumSame
<1>3. SumFunctionOnSet(f, S \ {x}) \in Int
  BY <1>1, SumType
<1>4. QED BY <1>2, <1>3, SumRemove

\* The sum over two sets with no element in common.
LEMMA SumUnion ==
  ASSUME NEW f, NEW S, IsFiniteSet(S), NEW R, IsFiniteSet(R), S \cap R = {},
         \A x \in S \cup R : f[x] \in Int
  PROVE  SumFunctionOnSet(f, S \cup R) = SumFunctionOnSet(f, S) + SumFunctionOnSet(f, R)
<1> DEFINE F == {T \in SUBSET R : SumFunctionOnSet(f, S \cup T) =
                                    SumFunctionOnSet(f, S) + SumFunctionOnSet(f, T)}
<1>1. ASSUME NEW T \in SUBSET R, \A U \in SUBSET T : U # T => U \in F PROVE T \in F
  <2>1. CASE T = {}
    BY <2>1, SumEmpty, SumType
  <2>2. CASE T # {}
    <3> DEFINE U == T \ {Taken(T)}
    <3>1. Taken(T) \in T /\ (S \cup T) \ {Taken(T)} = S \cup U
      BY <2>2, TakenIn
    <3>2. IsFiniteSet(T) /\ IsFiniteSet(U) /\ IsFiniteSet(S \cup T)
      BY FS_Subset, FS_Union
    <3>3. SumFunctionOnSet(f, S \cup T) = f[Taken(T)] + SumFunctionOnSet(f, S \cup U)
      BY <3>1, <3>2, SumRemove
    <3>4. SumFunctionOnSet(f, T) = f[Taken(T)] + SumFunctionOnSet(f, U)
      BY <3>1, <3>2, SumRemove
    <3>5. SumFunctionOnSet(f, S \cup U) = SumFunctionOnSet(f, S) + SumFunctionOnSet(f, U)
      BY <1>1, <3>1
    <3>6. /\ f[Taken(T)] \in Int
          /\ SumFunctionOnSet(f, S) \in Int
          /\ SumFunctionOnSet(f, U) \in Int
      BY <3>1, <3>2, SumType
    <3>7. QED BY <3>3, <3>4, <3>5, <3>6
  <2>3. QED BY <2>1, <2>2
<1> HIDE DEF F
<1>2. R \in F
  BY <1>1, SubsetInduction
<1>3. QED BY <1>2 DEF F

=============================================================================
