----------------------------- MODULE FoldLemmas -----------------------------
(***************************************************************************)
(* Induction over data for the proofs of the components: the folds of the  *)
(* community modules obey their recursion equations, and what this says of *)
(* sums.                                                                   *)
(*                                                                         *)
(* The provers cannot instantiate an induction rule, which has a predicate *)
(* for parameter.  The rules are therefore stated with sets: a non-empty   *)
(* set of counterexamples has a least element.  For the same reason the    *)
(* operator that is folded is given as a function.                         *)
(***************************************************************************)
EXTENDS Naturals, FiniteSetsExt, FiniteSetTheorems, TLAPS

LEMMA LeastNumber ==
  ASSUME NEW X \in SUBSET Nat, X # {}
  PROVE  \E n \in X : \A m \in X : n <= m
<1>1. PICK n \in X : \A m \in X : <<m, n>> \notin OpToRel(<, Nat)
  BY NatLessThanWellFounded, WFMin, Zenon
<1>2. \A m \in X : ~ (m < n)
  BY <1>1, Zenon DEF OpToRel
<1> QED BY <1>2

(* A set of numbers that has 0 and with each number the next has them all. *)
LEMMA Counting ==
  ASSUME NEW X, 0 \in X, \A n \in Nat : n \in X => n + 1 \in X
  PROVE  Nat \subseteq X
<1> SUFFICES ASSUME Nat \ X # {} PROVE FALSE
  OBVIOUS
<1>1. PICK n \in Nat \ X : \A m \in Nat \ X : n <= m
  BY LeastNumber
<1>2. n - 1 \in Nat /\ n - 1 \in X
  BY <1>1
<1> QED BY <1>1, <1>2

(* A set of sets that has {}, and T if it has T without any one element,   *)
(* has all the subsets of a finite set.                                    *)
LEMMA Growing ==
  ASSUME NEW S, IsFiniteSet(S), NEW X, {} \in X,
         \A T \in SUBSET S : T # {} /\ (\A x \in T : T \ {x} \in X) => T \in X
  PROVE  SUBSET S \subseteq X
<1> SUFFICES ASSUME (SUBSET S) \ X # {} PROVE FALSE
  OBVIOUS
<1>1. IsWellFoundedOn(StrictSubsetOrdering(S), SUBSET S)
  BY FS_StrictSubsetOrderingWellFounded, FS_FiniteSubsetsOfFinite
<1>2. PICK T \in (SUBSET S) \ X :
        \A U \in (SUBSET S) \ X : <<U, T>> \notin StrictSubsetOrdering(S)
  <2>1. (SUBSET S) \ X \subseteq SUBSET S
    OBVIOUS
  <2> QED BY <1>1, <2>1, WFMin, Zenon
<1>3. ASSUME NEW x \in T PROVE T \ {x} \in X
  <2>1. T \ {x} \in SUBSET S /\ T \in SUBSET S /\ T \ {x} \subseteq T /\ T \ {x} # T
    BY <1>2
  <2>2. <<T \ {x}, T>> \in StrictSubsetOrdering(S)
    BY <2>1 DEF StrictSubsetOrdering
  <2> QED BY <1>2, <2>1, <2>2
<1> QED BY <1>2, <1>3

LEMMA SubsetCards ==
  ASSUME NEW S, IsFiniteSet(S)
  PROVE  \A s \in SUBSET S : /\ IsFiniteSet(s) /\ Cardinality(s) \in Nat
                             /\ Cardinality(s) <= Cardinality(S)
                             /\ Cardinality(s) = 0 => s = {}
                             /\ \A x \in s : Cardinality(s \ {x}) = Cardinality(s) - 1
BY FS_Subset, FS_CardinalityType, FS_EmptySet, FS_RemoveElement

-----------------------------------------------------------------------------
(* Folds. *)

(* it is the recursive function that folds the subsets of S: from base, it *)
(* applies next to the elements, the one that pick chooses last.           *)
IsFold(it, base, next, pick, S) ==
  it = [s \in SUBSET S |-> IF s = {} THEN base ELSE next[pick[s]][it[s \ {pick[s]}]]]

Picks(pick, S) == \A s \in SUBSET S : s # {} => pick[s] \in s

(* The equation of IsFold for the subsets of up to n elements.             *)
FoldsUpTo(it, base, next, pick, S, n) ==
  /\ it = [s \in SUBSET S |-> it[s]]
  /\ \A s \in SUBSET S :
       Cardinality(s) <= n =>
         it[s] = IF s = {} THEN base ELSE next[pick[s]][it[s \ {pick[s]}]]

LEMMA FoldGrows ==
  ASSUME NEW base, NEW next, NEW pick, NEW S, IsFiniteSet(S), Picks(pick, S),
         NEW n \in Nat, NEW g, FoldsUpTo(g, base, next, pick, S, n)
  PROVE  \E it : FoldsUpTo(it, base, next, pick, S, n + 1)
<1> DEFINE it == [s \in SUBSET S |->
                    IF s = {} THEN base ELSE next[pick[s]][g[s \ {pick[s]}]]]
<1>1. \A s \in SUBSET S : Cardinality(s) <= n => it[s] = g[s]
  BY DEF FoldsUpTo
<1>2. ASSUME NEW s \in SUBSET S, Cardinality(s) <= n + 1
      PROVE  it[s] = IF s = {} THEN base ELSE next[pick[s]][it[s \ {pick[s]}]]
  <2>1. CASE s = {}
    BY <2>1
  <2>2. CASE s # {}
    <3>1. s \ {pick[s]} \in SUBSET S /\ Cardinality(s \ {pick[s]}) <= n
      BY <1>2, <2>2, SubsetCards DEF Picks
    <3>2. it[s \ {pick[s]}] = g[s \ {pick[s]}]
      BY <1>1, <3>1
    <3> QED BY <2>2, <3>2
  <2> QED BY <2>1, <2>2
<1>3. it = [s \in SUBSET S |-> it[s]]
  OBVIOUS
<1> HIDE DEF it
<1> QED BY <1>2, <1>3 DEF FoldsUpTo

(* There is such a function, whatever is folded;                           *)
LEMMA FoldExists ==
  ASSUME NEW base, NEW next, NEW pick, NEW S, IsFiniteSet(S), Picks(pick, S)
  PROVE  \E it : IsFold(it, base, next, pick, S)
<1> DEFINE Good == {n \in Nat : \E it : FoldsUpTo(it, base, next, pick, S, n)}
<1>1. 0 \in Good
  <2> DEFINE it == [s \in SUBSET S |-> base]
  <2>1. \A s \in SUBSET S : Cardinality(s) <= 0 => s = {}
    <3>1. \A s \in SUBSET S : Cardinality(s) \in Nat /\ (Cardinality(s) = 0 => s = {})
      BY SubsetCards
    <3> QED BY <3>1
  <2>2. FoldsUpTo(it, base, next, pick, S, 0)
    BY <2>1 DEF FoldsUpTo
  <2> QED BY <2>2
<1>2. \A n \in Nat : n \in Good => n + 1 \in Good
  BY FoldGrows
<1>3. Nat \subseteq Good
  <2> HIDE DEF Good
  <2> QED BY <1>1, <1>2, Counting
<1>4. PICK it : FoldsUpTo(it, base, next, pick, S, Cardinality(S))
  BY <1>3, FS_CardinalityType
<1>5. \A s \in SUBSET S : Cardinality(s) <= Cardinality(S)
  BY SubsetCards
<1>6. IsFold(it, base, next, pick, S)
  BY <1>4, <1>5 DEF IsFold, FoldsUpTo
<1> QED BY <1>6

(* if next stays in V, so does the fold.                                   *)
Stays(next, S, V) == \A x \in S, v \in V : next[x][v] \in V

LEMMA FoldType ==
  ASSUME NEW base, NEW next, NEW pick, NEW S, IsFiniteSet(S), Picks(pick, S),
         NEW it, IsFold(it, base, next, pick, S),
         NEW V, base \in V, Stays(next, S, V)
  PROVE  it \in [SUBSET S -> V]
<1> DEFINE Good == {s \in SUBSET S : it[s] \in V}
<1>1. {} \in Good
  BY DEF IsFold
<1>2. ASSUME NEW s \in SUBSET S, s # {}, \A x \in s : s \ {x} \in Good
      PROVE  s \in Good
  <2>1. pick[s] \in s
    BY <1>2 DEF Picks
  <2>2. it[s \ {pick[s]}] \in V
    BY <1>2, <2>1
  <2>3. it[s] = next[pick[s]][it[s \ {pick[s]}]]
    BY <1>2 DEF IsFold
  <2> QED BY <2>1, <2>2, <2>3 DEF Stays
<1>3. SUBSET S \subseteq Good
  <2> HIDE DEF Good
  <2> QED BY <1>1, <1>2, Growing
<1> QED BY <1>3 DEF IsFold
-----------------------------------------------------------------------------
(* Sums of the values of a function. *)

SumOver(f, S) == MapThenSumSet(LAMBDA x : f[x], S)

Chosen(S) == CHOOSE x \in S : TRUE

(* The recursive function behind SumOver. *)
IsSum(it, f, S) ==
  it = [s \in SUBSET S |-> IF s = {} THEN 0 ELSE f[Chosen(s)] + it[s \ {Chosen(s)}]]

LEMMA SumExists ==
  ASSUME NEW S, IsFiniteSet(S), NEW f, \A x \in S : f[x] \in Nat
  PROVE  \E it : IsSum(it, f, S)
<1> DEFINE pick == [s \in SUBSET S |-> Chosen(s)]
           next == [x \in S |-> [n \in Nat |-> f[x] + n]]
<1>1. \A s \in SUBSET S : pick[s] = Chosen(s) /\ (s # {} => Chosen(s) \in s)
  BY DEF Chosen
<1>2. \A x \in S, n \in Nat : next[x][n] = f[x] + n /\ next[x][n] \in Nat
  OBVIOUS
<1> HIDE DEF pick, next
<1>3. Picks(pick, S)
  BY <1>1 DEF Picks
<1>4. PICK it : IsFold(it, 0, next, pick, S)
  BY <1>3, FoldExists
<1>5. it \in [SUBSET S -> Nat]
  <2>1. Stays(next, S, Nat)
    BY <1>2 DEF Stays
  <2> QED BY <1>3, <1>4, <2>1, FoldType
<1>6. ASSUME NEW s \in SUBSET S, s # {}
      PROVE  it[s] = f[Chosen(s)] + it[s \ {Chosen(s)}]
  <2>1. it[s] = next[pick[s]][it[s \ {pick[s]}]]
    BY <1>4, <1>6 DEF IsFold
  <2>2. pick[s] = Chosen(s) /\ Chosen(s) \in S /\ it[s \ {Chosen(s)}] \in Nat
    BY <1>1, <1>5, <1>6
  <2> QED BY <1>2, <2>1, <2>2
<1>7. it[{}] = 0
  BY <1>4 DEF IsFold
<1>8. it = [s \in SUBSET S |-> it[s]]
  BY <1>5
<1> QED BY <1>6, <1>7, <1>8 DEF IsSum

LEMMA SumIsSum ==
  ASSUME NEW S, IsFiniteSet(S), NEW f, \A x \in S : f[x] \in Nat
  PROVE  \E it : IsSum(it, f, S) /\ SumOver(f, S) = it[S]
<1> DEFINE it == CHOOSE it : IsSum(it, f, S)
<1>1. IsSum(it, f, S)
  BY SumExists
<1>2. SumOver(f, S) = it[S]
  BY DEF SumOver, MapThenSumSet, MapThenFoldSet, IsSum, Chosen
<1> QED BY <1>1, <1>2

LEMMA SumsAgree ==
  ASSUME NEW f, NEW S, IsFiniteSet(S), NEW T \in SUBSET S,
         NEW g, IsSum(g, f, S), NEW h, IsSum(h, f, T)
  PROVE  g[T] = h[T]
<1> DEFINE Same == {s \in SUBSET T : g[s] = h[s]}
<1>1. {} \in Same
  BY DEF IsSum
<1>2. ASSUME NEW s \in SUBSET T, s # {}, \A x \in s : s \ {x} \in Same
      PROVE  s \in Same
  <2>1. Chosen(s) \in s
    BY <1>2 DEF Chosen
  <2>2. g[s \ {Chosen(s)}] = h[s \ {Chosen(s)}]
    BY <1>2, <2>1
  <2> QED BY <1>2, <2>2 DEF IsSum
<1>3. SUBSET T \subseteq Same
  <2>1. IsFiniteSet(T)
    BY FS_Subset
  <2> HIDE DEF Same
  <2> QED BY <1>1, <1>2, <2>1, Growing
<1> QED BY <1>3

LEMMA SumEmpty == ASSUME NEW f PROVE SumOver(f, {}) = 0
<1>1. PICK it : IsSum(it, f, {}) /\ SumOver(f, {}) = it[{}]
  BY SumIsSum, FS_EmptySet
<1> QED BY <1>1 DEF IsSum

LEMMA SumStep ==
  ASSUME NEW S, IsFiniteSet(S), S # {}, NEW f, \A x \in S : f[x] \in Nat
  PROVE  /\ Chosen(S) \in S
         /\ SumOver(f, S) = f[Chosen(S)] + SumOver(f, S \ {Chosen(S)})
<1> DEFINE T == S \ {Chosen(S)}
<1>1. Chosen(S) \in S
  BY DEF Chosen
<1>2. T \in SUBSET S /\ IsFiniteSet(T) /\ \A x \in T : f[x] \in Nat
  BY FS_Subset
<1> HIDE DEF T
<1>3. PICK g : IsSum(g, f, S) /\ SumOver(f, S) = g[S]
  BY SumIsSum
<1>4. PICK h : IsSum(h, f, T) /\ SumOver(f, T) = h[T]
  BY <1>2, SumIsSum
<1>5. g[T] = h[T]
  BY <1>2, <1>3, <1>4, SumsAgree
<1>6. g[S] = f[Chosen(S)] + g[T]
  BY <1>3 DEF IsSum, T
<1> QED BY <1>1, <1>3, <1>4, <1>5, <1>6 DEF T

(* The sum is a number, *)
LEMMA SumType ==
  ASSUME NEW S, IsFiniteSet(S), NEW f, \A x \in S : f[x] \in Nat
  PROVE  SumOver(f, S) \in Nat
<1> DEFINE Good == {T \in SUBSET S : SumOver(f, T) \in Nat}
<1>1. {} \in Good
  BY SumEmpty
<1>2. ASSUME NEW T \in SUBSET S, T # {}, \A x \in T : T \ {x} \in Good
      PROVE  T \in Good
  <2>1. Chosen(T) \in T /\ SumOver(f, T) = f[Chosen(T)] + SumOver(f, T \ {Chosen(T)})
    BY <1>2, SumStep, SubsetCards
  <2>2. SumOver(f, T \ {Chosen(T)}) \in Nat /\ f[Chosen(T)] \in Nat
    BY <1>2, <2>1
  <2> QED BY <2>1, <2>2
<1>3. SUBSET S \subseteq Good
  <2> HIDE DEF Good
  <2> QED BY <1>1, <1>2, Growing
<1> QED BY <1>3

(* in which the order of the elements is immaterial: *)
LEMMA SumRemove ==
  ASSUME NEW S, IsFiniteSet(S), NEW f, \A x \in S : f[x] \in Nat, NEW y \in S
  PROVE  SumOver(f, S) = f[y] + SumOver(f, S \ {y})
<1> DEFINE Good == {T \in SUBSET S :
                      \A x \in T : SumOver(f, T) = f[x] + SumOver(f, T \ {x})}
<1>1. {} \in Good
  OBVIOUS
<1>2. ASSUME NEW T \in SUBSET S, T # {}, \A x \in T : T \ {x} \in Good,
             NEW x \in T
      PROVE  SumOver(f, T) = f[x] + SumOver(f, T \ {x})
  <2> DEFINE c == Chosen(T)
             W == (T \ {c}) \ {x}
  <2>1. c \in T /\ SumOver(f, T) = f[c] + SumOver(f, T \ {c})
    BY <1>2, SumStep, SubsetCards
  <2> HIDE DEF c
  <2>2. CASE c = x
    BY <2>1, <2>2
  <2>3. CASE c # x
    <3>1. SumOver(f, T \ {c}) = f[x] + SumOver(f, W)
      BY <1>2, <2>1, <2>3
    <3>2. SumOver(f, T \ {x}) = f[c] + SumOver(f, W)
      <4>1. SumOver(f, T \ {x}) = f[c] + SumOver(f, (T \ {x}) \ {c})
        BY <1>2, <2>1, <2>3
      <4>2. (T \ {x}) \ {c} = W
        OBVIOUS
      <4> QED BY <4>1, <4>2
    <3>3. f[x] \in Nat /\ f[c] \in Nat /\ SumOver(f, W) \in Nat
      <4>1. IsFiniteSet(W) /\ \A z \in W : f[z] \in Nat
        BY SubsetCards
      <4> QED BY <2>1, <4>1, SumType
    <3> HIDE DEF W
    <3> QED BY <2>1, <3>1, <3>2, <3>3
  <2> QED BY <2>2, <2>3
<1>3. SUBSET S \subseteq Good
  <2>1. \A T \in SUBSET S : T # {} /\ (\A x \in T : T \ {x} \in Good) => T \in Good
    BY <1>2
  <2> HIDE DEF Good
  <2> QED BY <1>1, <2>1, Growing
<1> QED BY <1>3

(* only the values on the set matter, *)
LEMMA SumSame ==
  ASSUME NEW S, IsFiniteSet(S), NEW f, \A x \in S : f[x] \in Nat,
         NEW g, \A x \in S : g[x] = f[x]
  PROVE  SumOver(g, S) = SumOver(f, S)
<1> DEFINE Good == {T \in SUBSET S : SumOver(g, T) = SumOver(f, T)}
<1>1. {} \in Good
  BY SumEmpty
<1>2. ASSUME NEW T \in SUBSET S, T # {}, \A x \in T : T \ {x} \in Good
      PROVE  T \in Good
  <2>1. IsFiniteSet(T) /\ \A x \in T : f[x] \in Nat /\ g[x] \in Nat
    BY SubsetCards
  <2>2. /\ Chosen(T) \in T
        /\ SumOver(f, T) = f[Chosen(T)] + SumOver(f, T \ {Chosen(T)})
        /\ SumOver(g, T) = g[Chosen(T)] + SumOver(g, T \ {Chosen(T)})
    BY <1>2, <2>1, SumStep
  <2>3. SumOver(g, T \ {Chosen(T)}) = SumOver(f, T \ {Chosen(T)}) /\ g[Chosen(T)] = f[Chosen(T)]
    BY <1>2, <2>2
  <2> QED BY <2>2, <2>3
<1>3. SUBSET S \subseteq Good
  <2> HIDE DEF Good
  <2> QED BY <1>1, <1>2, Growing
<1> QED BY <1>3

(* a larger set has no smaller sum, *)
LEMMA SumSubset ==
  ASSUME NEW S, IsFiniteSet(S), NEW f, \A x \in S : f[x] \in Nat, NEW R \in SUBSET S
  PROVE  SumOver(f, R) <= SumOver(f, S)
<1> DEFINE Good == {T \in SUBSET S : SumOver(f, R \cap T) <= SumOver(f, T)}
<1>1. {} \in Good
  <2>1. R \cap {} = {}
    OBVIOUS
  <2> QED BY <2>1, SumEmpty
<1>2. ASSUME NEW T \in SUBSET S, T # {}, \A x \in T : T \ {x} \in Good
      PROVE  T \in Good
  <2> DEFINE c == Chosen(T)
  <2>1. /\ IsFiniteSet(T) /\ IsFiniteSet(R \cap T) /\ IsFiniteSet(T \ {c})
        /\ IsFiniteSet(R \cap (T \ {c})) /\ \A x \in T : f[x] \in Nat
    BY SubsetCards
  <2>2. c \in T /\ SumOver(f, T) = f[c] + SumOver(f, T \ {c})
    BY <1>2, <2>1, SumStep
  <2> HIDE DEF c
  <2>3. SumOver(f, R \cap (T \ {c})) <= SumOver(f, T \ {c})
    BY <1>2, <2>2
  <2>4. /\ SumOver(f, R \cap (T \ {c})) \in Nat /\ SumOver(f, T \ {c}) \in Nat
        /\ f[c] \in Nat
    BY <2>1, <2>2, SumType
  <2>5. CASE c \in R
    <3>1. (R \cap T) \ {c} = R \cap (T \ {c})
      OBVIOUS
    <3>2. SumOver(f, R \cap T) = f[c] + SumOver(f, R \cap (T \ {c}))
      BY <2>1, <2>2, <2>5, <3>1, SumRemove
    <3> QED BY <2>2, <2>3, <2>4, <3>2
  <2>6. CASE c \notin R
    <3>1. R \cap T = R \cap (T \ {c})
      BY <2>6
    <3>2. SumOver(f, R \cap T) <= SumOver(f, T)
      BY <2>2, <2>3, <2>4, <3>1
    <3> QED BY <3>2
  <2> QED BY <2>5, <2>6
<1>3. SUBSET S \subseteq Good
  <2> HIDE DEF Good
  <2> QED BY <1>1, <1>2, Growing
<1>4. R \cap S = R
  OBVIOUS
<1> QED BY <1>3, <1>4

(* and the greatest value bounds the sum. *)
LEMMA SumBound ==
  ASSUME NEW S, IsFiniteSet(S), NEW max \in Nat,
         NEW f, \A x \in S : f[x] \in 0 .. max
  PROVE  SumOver(f, S) <= max * Cardinality(S)
<1> DEFINE Good == {T \in SUBSET S : SumOver(f, T) <= max * Cardinality(T)}
<1>1. {} \in Good
  BY SumEmpty, FS_EmptySet
<1>2. ASSUME NEW T \in SUBSET S, T # {}, \A x \in T : T \ {x} \in Good
      PROVE  T \in Good
  <2>1. IsFiniteSet(T) /\ \A x \in T : f[x] \in Nat
    BY SubsetCards
  <2>2. Chosen(T) \in T /\ SumOver(f, T) = f[Chosen(T)] + SumOver(f, T \ {Chosen(T)})
    BY <1>2, <2>1, SumStep
  <2>3. PICK rest \in SUBSET S : rest = T \ {Chosen(T)}
    OBVIOUS
  <2>4. SumOver(f, rest) <= max * Cardinality(rest) /\ SumOver(f, rest) \in Nat
    <3>1. rest \in Good
      BY <1>2, <2>2, <2>3
    <3>2. IsFiniteSet(rest) /\ \A x \in rest : f[x] \in Nat
      BY SubsetCards
    <3> QED BY <3>1, <3>2, SumType
  <2>5. PICK n \in Nat : n = Cardinality(rest) /\ Cardinality(T) = n + 1
    BY <2>2, <2>3, SubsetCards
  <2>6. f[Chosen(T)] \in Nat /\ f[Chosen(T)] <= max
    BY <2>2
  <2>7. max * (n + 1) = max * n + max
    OBVIOUS
  <2>8. SumOver(f, T) <= max * n + max
    BY <2>2, <2>3, <2>4, <2>5, <2>6
  <2> QED BY <2>5, <2>7, <2>8
<1>3. SUBSET S \subseteq Good
  <2> HIDE DEF Good
  <2> QED BY <1>1, <1>2, Growing
<1> QED BY <1>3
=============================================================================
