------------------------------ MODULE MessageProofs ------------------------------
(***************************************************************************)
(* Proofs about Message: a datagram gives back what was packed, and the    *)
(* sum of a sequence of values is that of all but the last, plus the last. *)
(* The latter, and what the sums over finite functions come to, are folds  *)
(* of the community modules, whose recursion is over the subsets of a      *)
(* finite set: what is true of the empty set and of every set that all of  *)
(* its elements but one make it true of is true of every subset            *)
(* (SubsetInduction), which takes the set of the good subsets, and no      *)
(* operator, as its parameter.                                             *)
(***************************************************************************)
EXTENDS Message, FiniteSetTheorems, WellFoundedInduction, TLAPS

\* Of a set of natural numbers that is not empty one is the least.
LEMMA LeastNatural ==
  ASSUME NEW T, T \subseteq Nat, T # {}
  PROVE  \E n \in T : \A m \in T : n <= m
<1>1. PICK n \in T : \A m \in T : ~(<<m, n>> \in OpToRel(<, Nat))
  BY NatLessThanWellFounded, WFMin
<1>2. ASSUME NEW m \in T PROVE n <= m
  <2>1. m \in Nat /\ n \in Nat
    OBVIOUS
  <2>2. m < n => <<m, n>> \in OpToRel(<, Nat)
    <3>1. ASSUME m < n PROVE <<m, n>> \in {ss \in Nat \X Nat : ss[1] < ss[2]}
      BY <2>1, <3>1
    <3> QED BY <3>1, Zenon DEF OpToRel
  <2>3. ~(m < n)
    BY <1>1, <2>2, Zenon
  <2> QED BY <2>1, <2>3
<1> QED BY <1>2

\* Induction over the natural numbers, for the numbers of a set.
LEMMA NaturalInduction ==
  ASSUME NEW P, 0 \in P, \A n \in Nat : n \in P => n + 1 \in P
  PROVE  \A n \in Nat : n \in P
<1> SUFFICES ASSUME Nat \ P # {} PROVE FALSE
  OBVIOUS
<1>1. PICK n \in Nat \ P : \A m \in Nat \ P : n <= m
  BY LeastNatural
<1>2. n # 0 /\ n - 1 \in Nat /\ n - 1 \notin P
  BY <1>1
<1>3. n - 1 \in Nat \ P
  BY <1>2
<1> QED BY <1>1, <1>3

\* Induction over the subsets of a finite set, for those of a set.
LEMMA SubsetInduction ==
  ASSUME NEW S, IsFiniteSet(S), NEW P,
         {} \in P,
         \A s \in SUBSET S : s # {} /\ (\A x \in s : s \ {x} \in P) => s \in P
  PROVE  SUBSET S \subseteq P
<1> SUFFICES ASSUME (SUBSET S) \ P # {} PROVE FALSE
  OBVIOUS
<1>1. \A s \in SUBSET S : IsFiniteSet(s) /\ Cardinality(s) \in Nat
  BY FS_Subset, FS_CardinalityType
<1> DEFINE sizes == {Cardinality(s) : s \in (SUBSET S) \ P}
<1>5. sizes \subseteq Nat /\ sizes # {}
  BY <1>1
<1>6. \A s \in (SUBSET S) \ P : Cardinality(s) \in sizes
  OBVIOUS
<1>7. \A n \in sizes : \E s \in (SUBSET S) \ P : n = Cardinality(s)
  OBVIOUS
<1> HIDE DEF sizes
<1>2. PICK n \in sizes : \A m \in sizes : n <= m
  BY <1>5, LeastNatural
<1>3. PICK s \in (SUBSET S) \ P : n = Cardinality(s)
  BY <1>2, <1>7
<1>4. ASSUME NEW x \in s PROVE s \ {x} \in P
  <2>1. Cardinality(s \ {x}) = n - 1 /\ n \in Nat
    BY <1>1, <1>3, FS_RemoveElement
  <2>2. ~(n <= n - 1)
    BY <2>1
  <2> QED BY <1>2, <1>3, <1>6, <2>1, <2>2
<1> QED BY <1>3, <1>4
-----------------------------------------------------------------------------
(* The recursion that the folds make. *)

\* One round of a fold over a set: an element is chosen and added to what the rest gives.
Round(step, base, choose, g, s) ==
  IF s = {} THEN base ELSE step[choose[s]][g[s \ {choose[s]}]]

Solvable(S, V, base, step, choose) ==
  \E g \in [SUBSET S -> V] : \A s \in SUBSET S : g[s] = Round(step, base, choose, g, s)

\* Such a recursion has a solution: for the sets of n elements at most by induction on n.
LEMMA FoldExists ==
  ASSUME NEW S, IsFiniteSet(S), NEW V, NEW base \in V, NEW step \in [S -> [V -> V]],
         NEW choose, \A s \in SUBSET S : s # {} => choose[s] \in s
  PROVE  Solvable(S, V, base, step, choose)
<1> DEFINE Solves(g, n) == \A s \in SUBSET S : Cardinality(s) <= n => g[s] = Round(step, base, choose, g, s)
           P == {n \in Nat : \E g \in [SUBSET S -> V] : Solves(g, n)}
<1>1. \A s \in SUBSET S : IsFiniteSet(s) /\ Cardinality(s) \in Nat
  BY FS_Subset, FS_CardinalityType
<1>2. 0 \in P
  <2> DEFINE g == [s \in SUBSET S |-> base]
  <2>1. g \in [SUBSET S -> V]
    OBVIOUS
  <2>2. ASSUME NEW s \in SUBSET S, Cardinality(s) <= 0 PROVE g[s] = Round(step, base, choose, g, s)
    <3>1. s = {}
      BY <1>1, <2>2, FS_EmptySet
    <3> QED BY <3>1 DEF Round
  <2> HIDE DEF g
  <2>3. Solves(g, 0)
    BY <2>2
  <2> QED BY <2>1, <2>3
<1>3. ASSUME NEW n \in Nat, n \in P PROVE n + 1 \in P
  <2>1. PICK g \in [SUBSET S -> V] : Solves(g, n)
    BY <1>3
  <2> DEFINE h == [s \in SUBSET S |-> Round(step, base, choose, g, s)]
  <2>2. h \in [SUBSET S -> V]
    <3> SUFFICES ASSUME NEW s \in SUBSET S PROVE Round(step, base, choose, g, s) \in V
      OBVIOUS
    <3>1. CASE s = {}
      BY <3>1 DEF Round
    <3>2. CASE s # {}
      <4>1. choose[s] \in S /\ s \ {choose[s]} \in SUBSET S
        BY <3>2
      <4>2. step[choose[s]] \in [V -> V] /\ g[s \ {choose[s]}] \in V
        BY <4>1
      <4> QED BY <3>2, <4>2 DEF Round
    <3> QED BY <3>1, <3>2
  <2>3. ASSUME NEW s \in SUBSET S, Cardinality(s) <= n + 1 PROVE h[s] = Round(step, base, choose, h, s)
    <3>1. CASE s = {}
      BY <3>1 DEF Round
    <3>2. CASE s # {}
      <4> DEFINE t == s \ {choose[s]}
      <4>1. choose[s] \in s /\ t \in SUBSET S
        BY <3>2
      <4>2. Cardinality(t) <= n
        <5>1. Cardinality(t) = Cardinality(s) - 1
          BY <1>1, <4>1, FS_RemoveElement
        <5> QED BY <1>1, <2>3, <5>1
      <4>3. g[t] = Round(step, base, choose, g, t)
        BY <2>1, <4>1, <4>2
      <4>4. h[t] = g[t]
        BY <4>1, <4>3
      <4> QED BY <3>2, <4>4 DEF Round
    <3> QED BY <3>1, <3>2
  <2> HIDE DEF h
  <2>4. Solves(h, n + 1)
    BY <2>3
  <2>5. n + 1 \in Nat
    OBVIOUS
  <2> QED BY <2>2, <2>4, <2>5
<1>4. Cardinality(S) \in P
  <2> HIDE DEF P
  <2> QED BY <1>1, <1>2, <1>3, NaturalInduction
<1>5. PICK g \in [SUBSET S -> V] : Solves(g, Cardinality(S))
  BY <1>4
<1>6. \A s \in SUBSET S : Cardinality(s) <= Cardinality(S)
  BY FS_Subset
<1> QED BY <1>5, <1>6 DEF Solvable

-----------------------------------------------------------------------------
(* Sums. *)

Chosen(s) == CHOOSE x \in s : TRUE

\* What SumFunction is of, for the subsets of the function's domain.
Iter(f, S) == CHOOSE iter : iter = [s \in SUBSET S |-> IF s = {} THEN 0 ELSE f[Chosen(s)] + iter[s \ {Chosen(s)}]]

\* SumFunction is that recursion, on the whole domain.
LEMMA SumIsIter ==
  ASSUME NEW f
  PROVE  SumFunction(f) = Iter(f, DOMAIN f)[DOMAIN f]
BY DEF SumFunction, SumFunctionOnSet, FoldFunctionOnSet, MapThenFoldSet, Iter, Chosen

\* The sum of no element is 0, and that of more is one of them and the sum of the others.
LEMMA IterIs ==
  ASSUME NEW S, IsFiniteSet(S), NEW f \in [S -> Nat]
  PROVE  /\ Iter(f, S)[{}] = 0
         /\ \A s \in SUBSET S : s # {} =>
              Chosen(s) \in s /\ Iter(f, S)[s] = f[Chosen(s)] + Iter(f, S)[s \ {Chosen(s)}]
         /\ \A s \in SUBSET S : Iter(f, S)[s] \in Nat
<1> DEFINE step == [x \in S |-> [n \in Nat |-> f[x] + n]]
           choose == [s \in SUBSET S |-> Chosen(s)]
<1>1. \A s \in SUBSET S : s # {} => Chosen(s) \in s
  BY DEF Chosen
<1>2. PICK g \in [SUBSET S -> Nat] : \A s \in SUBSET S : g[s] = Round(step, 0, choose, g, s)
  <2>1. step \in [S -> [Nat -> Nat]]
    OBVIOUS
  <2>2. \A s \in SUBSET S : s # {} => choose[s] \in s
    BY <1>1
  <2> HIDE DEF step, choose
  <2>3. 0 \in Nat
    OBVIOUS
  <2>4. Solvable(S, Nat, 0, step, choose)
    BY <2>1, <2>2, <2>3, FoldExists
  <2> QED BY <2>4 DEF Solvable
<1>3. ASSUME NEW s \in SUBSET S
      PROVE  g[s] = IF s = {} THEN 0 ELSE f[Chosen(s)] + g[s \ {Chosen(s)}]
  <2>1. CASE s = {}
    BY <1>2, <2>1 DEF Round
  <2>2. CASE s # {}
    <3>1. Chosen(s) \in S /\ choose[s] = Chosen(s) /\ s \ {Chosen(s)} \in SUBSET S
      BY <1>1, <2>2
    <3>2. g[s] = step[Chosen(s)][g[s \ {Chosen(s)}]]
      BY <1>2, <2>2, <3>1 DEF Round
    <3>3. g[s \ {Chosen(s)}] \in Nat
      BY <3>1
    <3> QED BY <2>2, <3>1, <3>2, <3>3
  <2> QED BY <2>1, <2>2
<1>4. g = [s \in SUBSET S |-> IF s = {} THEN 0 ELSE f[Chosen(s)] + g[s \ {Chosen(s)}]]
  BY <1>3
<1>5. Iter(f, S) = [s \in SUBSET S |-> IF s = {} THEN 0 ELSE f[Chosen(s)] + Iter(f, S)[s \ {Chosen(s)}]]
  BY <1>4 DEF Iter
<1> DEFINE it == Iter(f, S)
<1>6. it[{}] = 0 /\ \A s \in SUBSET S : s # {} => it[s] = f[Chosen(s)] + it[s \ {Chosen(s)}]
  BY <1>5
<1> HIDE DEF it
<1>7. \A s \in SUBSET S : it[s] \in Nat
  <2> DEFINE P == {s \in SUBSET S : it[s] \in Nat}
  <2>1. {} \in P
    BY <1>6
  <2>2. ASSUME NEW s \in SUBSET S, s # {}, \A x \in s : s \ {x} \in P PROVE s \in P
    <3>1. Chosen(s) \in s /\ it[s \ {Chosen(s)}] \in Nat /\ f[Chosen(s)] \in Nat
      BY <1>1, <2>2
    <3>2. it[s] = f[Chosen(s)] + it[s \ {Chosen(s)}]
      BY <1>6, <2>2
    <3>3. it[s] \in Nat
      BY <3>1, <3>2
    <3> QED BY <3>3
  <2> HIDE DEF P
  <2>3. SUBSET S \subseteq P
    BY <2>1, <2>2, SubsetInduction
  <2> QED BY <2>3 DEF P
<1> QED BY <1>1, <1>6, <1>7 DEF it

\* It does not matter which element is taken first.
LEMMA IterTakes ==
  ASSUME NEW S, IsFiniteSet(S), NEW f \in [S -> Nat]
  PROVE  \A s \in SUBSET S : \A x \in s : Iter(f, S)[s] = f[x] + Iter(f, S)[s \ {x}]
<1> DEFINE it == Iter(f, S)
           P == {s \in SUBSET S : \A x \in s : it[s] = f[x] + it[s \ {x}]}
<1>1. /\ \A s \in SUBSET S : s # {} => Chosen(s) \in s /\ it[s] = f[Chosen(s)] + it[s \ {Chosen(s)}]
      /\ \A s \in SUBSET S : it[s] \in Nat
  BY IterIs
<1> HIDE DEF it
<1>2. {} \in P
  OBVIOUS
<1>3. ASSUME NEW s \in SUBSET S, s # {}, \A x \in s : s \ {x} \in P PROVE s \in P
  <2> DEFINE c == Chosen(s)
  <2>1. c \in s /\ it[s] = f[c] + it[s \ {c}]
    BY <1>1, <1>3
  <2> HIDE DEF c
  <2>2. ASSUME NEW x \in s PROVE it[s] = f[x] + it[s \ {x}]
    <3>1. CASE x = c
      BY <2>1, <3>1
    <3>2. CASE x # c
      <4> DEFINE rest == s \ {x, c}
      <4>1. it[s \ {c}] = f[x] + it[rest]
        <5>1. s \ {c} \in P /\ x \in s \ {c}
          BY <1>3, <2>1, <3>2
        <5>2. it[s \ {c}] = f[x] + it[(s \ {c}) \ {x}]
          BY <5>1
        <5>3. (s \ {c}) \ {x} = rest
          OBVIOUS
        <5> QED BY <5>2, <5>3
      <4>2. it[s \ {x}] = f[c] + it[rest]
        <5>1. s \ {x} \in P /\ c \in s \ {x}
          BY <1>3, <2>1, <3>2
        <5>2. it[s \ {x}] = f[c] + it[(s \ {x}) \ {c}]
          BY <5>1
        <5>3. (s \ {x}) \ {c} = rest
          OBVIOUS
        <5> QED BY <5>2, <5>3
      <4>3. f[x] \in Nat /\ f[c] \in Nat /\ it[rest] \in Nat
        BY <1>1, <2>1
      <4> HIDE DEF rest
      <4> QED BY <2>1, <4>1, <4>2, <4>3
    <3> QED BY <3>1, <3>2
  <2> QED BY <2>2
<1> HIDE DEF P
<1>4. SUBSET S \subseteq P
  BY <1>2, <1>3, SubsetInduction
<1> QED BY <1>4 DEF P, it

\* Larger values, and more elements, make no smaller sum; what is zero adds nothing.
LEMMA IterGrows ==
  ASSUME NEW S, NEW T, IsFiniteSet(S), IsFiniteSet(T), NEW f \in [S -> Nat], NEW g \in [T -> Nat],
         \A x \in S : f[x] = 0 \/ (x \in T /\ f[x] <= g[x])
  PROVE  Iter(f, S)[S] <= Iter(g, T)[T]
<1> DEFINE a == Iter(f, S)
           b == Iter(g, T)
           P == {s \in SUBSET S : a[s] <= b[s \cap T]}
           Q == {t \in SUBSET T : \A s \in SUBSET t : b[s] <= b[t]}
<1>1. a[{}] = 0 /\ \A s \in SUBSET S : a[s] \in Nat
  BY IterIs
<1>2. b[{}] = 0 /\ \A t \in SUBSET T : b[t] \in Nat
  BY IterIs
<1>3. /\ \A s \in SUBSET S : \A x \in s : a[s] = f[x] + a[s \ {x}]
      /\ \A t \in SUBSET T : \A x \in t : b[t] = g[x] + b[t \ {x}]
  BY IterTakes
<1> HIDE DEF a, b
<1>4. SUBSET S \subseteq P
  <2>1. {} \in P
    <3>1. {} \cap T = {}
      OBVIOUS
    <3> QED BY <1>1, <1>2, <3>1
  <2>2. ASSUME NEW s \in SUBSET S, s # {}, \A x \in s : s \ {x} \in P PROVE s \in P
    <3>1. PICK x \in s : TRUE
      BY <2>2
    <3> DEFINE t == s \cap T
               rest == (s \ {x}) \cap T
    <3>2. a[s] = f[x] + a[s \ {x}] /\ a[s \ {x}] <= b[rest]
      BY <1>3, <2>2
    <3>3. a[s \ {x}] \in Nat /\ b[rest] \in Nat /\ f[x] \in Nat
      BY <1>1, <1>2
    <3>4. CASE x \in T
      <4>1. rest = t \ {x}
        OBVIOUS
      <4>2. b[t] = g[x] + b[t \ {x}]
        BY <1>3, <3>4
      <4>3. f[x] <= g[x] /\ g[x] \in Nat
        BY <3>4
      <4>4. a[s] <= b[t]
        <5> HIDE DEF t, rest
        <5> QED BY <3>2, <3>3, <4>1, <4>2, <4>3
      <4> QED BY <4>4
    <3>5. CASE x \notin T
      <4>1. rest = t
        BY <3>5
      <4>2. f[x] = 0
        BY <3>5
      <4>3. a[s] <= b[t]
        <5> HIDE DEF t, rest
        <5> QED BY <3>2, <3>3, <4>1, <4>2
      <4> QED BY <4>3
    <3> QED BY <3>4, <3>5
  <2> HIDE DEF P
  <2> QED BY <2>1, <2>2, SubsetInduction
<1>5. SUBSET T \subseteq Q
  <2>1. {} \in Q
    BY <1>2
  <2>2. ASSUME NEW t \in SUBSET T, t # {}, \A x \in t : t \ {x} \in Q PROVE t \in Q
    <3>1. ASSUME NEW s \in SUBSET t, s # t PROVE b[s] <= b[t]
      <4>1. PICK x \in t : x \notin s
        BY <3>1
      <4>2. b[t] = g[x] + b[t \ {x}] /\ b[s] <= b[t \ {x}]
        BY <1>3, <2>2, <4>1
      <4>3. g[x] \in Nat /\ b[s] \in Nat /\ b[t \ {x}] \in Nat
        BY <1>2, <4>1
      <4> QED BY <4>2, <4>3
    <3>2. b[t] <= b[t]
      BY <1>2
    <3> QED BY <3>1, <3>2
  <2> HIDE DEF Q
  <2> QED BY <2>1, <2>2, SubsetInduction
<1>6. a[S] <= b[S \cap T] /\ b[S \cap T] <= b[T]
  BY <1>4, <1>5
<1>7. a[S] \in Nat /\ b[S \cap T] \in Nat /\ b[T] \in Nat
  BY <1>1, <1>2
<1> QED BY <1>6, <1>7 DEF a, b

\* A sum of natural numbers is one.
LEMMA SumIsNat ==
  ASSUME NEW f, IsFiniteSet(DOMAIN f), f \in [DOMAIN f -> Nat]
  PROVE  SumFunction(f) \in Nat
BY SumIsIter, IterIs

\* A sum is at most one that has, for each element that is not zero, a value as large.
THEOREM SumGrows ==
  ASSUME NEW f, NEW g, IsFiniteSet(DOMAIN f), IsFiniteSet(DOMAIN g),
         f \in [DOMAIN f -> Nat], g \in [DOMAIN g -> Nat],
         \A x \in DOMAIN f : f[x] = 0 \/ (x \in DOMAIN g /\ f[x] <= g[x])
  PROVE  SumFunction(f) <= SumFunction(g)
<1>1. Iter(f, DOMAIN f)[DOMAIN f] <= Iter(g, DOMAIN g)[DOMAIN g]
  BY IterGrows
<1> QED BY <1>1, SumIsIter

\* A sum of no element is 0, and one element more adds its value.
LEMMA SumOfMore ==
  ASSUME NEW f, NEW g, NEW x, IsFiniteSet(DOMAIN g), x \in DOMAIN g, DOMAIN f = DOMAIN g \ {x},
         g \in [DOMAIN g -> Nat], f \in [DOMAIN f -> Nat], \A y \in DOMAIN f : f[y] = g[y]
  PROVE  SumFunction(g) = SumFunction(f) + g[x]
<1> DEFINE S == DOMAIN f
           T == DOMAIN g
           a == Iter(f, S)
           b == Iter(g, T)
           P == {s \in SUBSET S : a[s] = b[s]}
<1>1. IsFiniteSet(S) /\ S \subseteq T /\ S = T \ {x} /\ T \in SUBSET T /\ S \in SUBSET T
  <2>1. S \subseteq T
    OBVIOUS
  <2> QED BY <2>1, FS_Subset
<1>2. a[{}] = 0 /\ \A s \in SUBSET S : s # {} => Chosen(s) \in s /\ a[s] = f[Chosen(s)] + a[s \ {Chosen(s)}]
  BY <1>1, IterIs
<1>3. /\ b[{}] = 0 /\ \A s \in SUBSET T : s # {} => b[s] = g[Chosen(s)] + b[s \ {Chosen(s)}]
      /\ \A s \in SUBSET T : b[s] \in Nat
  BY IterIs
<1>4. b[T] = g[x] + b[T \ {x}]
  BY <1>1, IterTakes
<1> HIDE DEF a, b
<1>5. {} \in P
  BY <1>2, <1>3
<1>6. ASSUME NEW s \in SUBSET S, s # {}, \A y \in s : s \ {y} \in P PROVE s \in P
  <2>1. Chosen(s) \in s /\ a[s \ {Chosen(s)}] = b[s \ {Chosen(s)}] /\ f[Chosen(s)] = g[Chosen(s)]
    BY <1>2, <1>6
  <2>2. a[s] = b[s]
    BY <1>1, <1>2, <1>3, <1>6, <2>1
  <2> QED BY <2>2
<1>7. SUBSET S \subseteq P
  <2>1. \A s \in SUBSET S : s # {} /\ (\A y \in s : s \ {y} \in P) => s \in P
    BY <1>6
  <2>2. IsFiniteSet(S)
    BY <1>1
  <2> HIDE DEF P, S
  <2> QED BY <1>5, <2>1, <2>2, SubsetInduction, Zenon
<1>8. a[S] = b[S]
  BY <1>7 DEF P
<1>9. g[x] \in Nat /\ b[S] \in Nat
  BY <1>1, <1>3
<1>10. SumFunction(g) = b[T] /\ SumFunction(f) = a[S]
  BY SumIsIter DEF a, b
<1> QED BY <1>1, <1>4, <1>8, <1>9, <1>10

LEMMA SumOfNone ==
  ASSUME NEW f, DOMAIN f = {}
  PROVE  SumFunction(f) = 0
<1>1. f \in [{} -> Nat] /\ IsFiniteSet({})
  BY FS_EmptySet
<1>2. Iter(f, {})[{}] = 0
  BY <1>1, IterIs
<1> QED BY <1>2, SumIsIter

-----------------------------------------------------------------------------
(* Packing. *)

LEMMA CodesAre ==
  /\ DOMAIN Codes = 1..8
  /\ \A i \in 1..8 : Codes[i] \in DOMAIN SlotOf
  /\ \A i, j \in 1..8 : Codes[i] = Codes[j] => i = j
  /\ \A code \in DOMAIN SlotOf : \E i \in 1..8 : Codes[i] = code
<1>1. DOMAIN Codes = 1..8
  BY DEF Codes
<1>2. \A i \in 1..8 : Codes[i] \in DOMAIN SlotOf
  BY DEF Codes, SlotOf
<1>3. \A i, j \in 1..8 : Codes[i] = Codes[j] => i = j
  BY DEF Codes
<1>4. \A code \in DOMAIN SlotOf : \E i \in 1..8 : Codes[i] = code
  BY DEF Codes, SlotOf
<1> QED BY <1>1, <1>2, <1>3, <1>4

LEMMA SlotsAre ==
  /\ \A slot \in Slots : \E code \in DOMAIN SlotOf : SlotOf[code] = slot
  /\ \A c, d \in DOMAIN SlotOf : SlotOf[c] = SlotOf[d] => c = d
BY DEF Slots, SlotOf

LEMMA PartsOfPacked ==
  ASSUME NEW v, NEW types, Packable(v, types)
  PROVE  /\ DOMAIN Parts(Pack(v, types)) = DOMAIN SlotOf
         /\ \A code \in DOMAIN SlotOf : Parts(Pack(v, types))[code] = Payload(code, v[SlotOf[code]])
<1> DEFINE d == Pack(v, types)
           known == {i \in DOMAIN d : d[i][1] \in DOMAIN SlotOf}
           last(code) == CHOOSE i \in known : d[i][1] = code /\ \A j \in known : d[j][1] = code => j <= i
<1>1. DOMAIN d = 1..8 /\ \A i \in 1..8 : d[i][1] = Codes[i] /\ d[i][2] = Payload(Codes[i], v[SlotOf[Codes[i]]])
  BY CodesAre DEF Pack
<1>2. Parts(d) = [code \in {d[i][1] : i \in known} |-> d[last(code)][2]]
  BY DEF Parts
<1> HIDE DEF d
<1>3. known = 1..8
  BY <1>1, CodesAre
<1>4. {d[i][1] : i \in known} = DOMAIN SlotOf
  BY <1>1, <1>3, CodesAre
<1>5. ASSUME NEW code \in DOMAIN SlotOf PROVE last(code) \in 1..8 /\ Codes[last(code)] = code
  <2>1. PICK i \in 1..8 : Codes[i] = code
    BY CodesAre
  <2>2. i \in known /\ d[i][1] = code /\ \A j \in known : d[j][1] = code => j <= i
    BY <1>1, <1>3, <2>1, CodesAre
  <2>3. last(code) \in known /\ d[last(code)][1] = code
    BY <2>2
  <2> QED BY <1>1, <1>3, <2>3
<1> HIDE DEF known, last
<1>6. \A code \in DOMAIN SlotOf : Parts(d)[code] = Payload(code, v[SlotOf[code]])
  BY <1>1, <1>2, <1>4, <1>5
<1> QED BY <1>2, <1>4, <1>6 DEF d

LEMMA UnpackPacked ==
  ASSUME NEW v, NEW types, Packable(v, types), Whole(v.interval) # None
  PROVE  /\ Unpack(Pack(v, types)) = [slot \in Slots |-> Unpack(Pack(v, types))[slot]]
         /\ \A code \in DOMAIN SlotOf : Unpack(Pack(v, types))[SlotOf[code]] = Payload(code, v[SlotOf[code]])
<1> DEFINE parts == Parts(Pack(v, types))
           code(slot) == CHOOSE c \in DOMAIN SlotOf : SlotOf[c] = slot
           kw == [slot \in Slots |-> parts[code(slot)]]
<1>1. \A c \in DOMAIN SlotOf : SlotOf[c] \in Slots /\ code(SlotOf[c]) = c
  BY SlotsAre DEF SlotOf, Slots
<1>2. \A c \in DOMAIN SlotOf : parts[c] = Payload(c, v[SlotOf[c]])
  BY PartsOfPacked
<1>3. Unpack(Pack(v, types)) = Values(kw)
  BY DEF Unpack
<1> HIDE DEF parts, code
<1>4. \A c \in DOMAIN SlotOf : kw[SlotOf[c]] = Payload(c, v[SlotOf[c]])
  BY <1>1, <1>2
<1>5. kw.interval = Whole(v.interval)
  BY <1>4 DEF SlotOf, Payload, Strings, Longs
<1>6. DOMAIN kw = Slots
  OBVIOUS
<1> HIDE DEF kw
<1>7. Values(kw) = [slot \in Slots |-> kw[slot]]
  BY <1>5, <1>6 DEF Values, Slots
<1> QED BY <1>1, <1>3, <1>4, <1>7

-----------------------------------------------------------------------------
(* Sums of values. *)

\* What two values agree in is so in their sum, the others of it are None.
LEMMA AddIs ==
  ASSUME NEW v, NEW w
  PROVE  LET sum == Add(v, w)
         IN  /\ sum = [slot \in Slots |-> sum[slot]]
             /\ \A slot \in Slots \ {"values", "interval"} : sum[slot] = IF v[slot] = w[slot] THEN v[slot] ELSE None
             /\ sum.interval = IF v.interval = w.interval /\ v.interval # None THEN v.interval ELSE DEFAULT_INTERVAL
             /\ sum.values = [i \in 1..Shorter(v.values, w.values) |-> v.values[i] + w.values[i]]
<1> DEFINE differing == {slot \in Slots \ {"values"} : v[slot] # w[slot]}
           values == [i \in 1..Shorter(v.values, w.values) |-> v.values[i] + w.values[i]]
           kw == [slot \in differing \cup {"values"} |-> IF slot = "values" THEN values ELSE None]
           all == [slot \in Slots |-> IF slot \in DOMAIN kw THEN kw[slot] ELSE v[slot]]
           sum == Add(v, w)
<1>1. sum = Values(all)
  BY DEF Add, Build
<1>2. DOMAIN kw = differing \cup {"values"} /\ differing \subseteq Slots \ {"values"} /\ {"values", "interval"} \subseteq Slots
  BY DEF Slots
<1>3. all.values = values
  BY <1>2
<1>4. \A slot \in Slots \ {"values"} : all[slot] = IF v[slot] = w[slot] THEN v[slot] ELSE None
  BY <1>2
<1>5. DOMAIN all = Slots
  OBVIOUS
<1> HIDE DEF all, kw, differing, values
<1>6. /\ Values(all) = [slot \in Slots |-> Values(all)[slot]]
      /\ \A slot \in Slots \ {"interval"} : Values(all)[slot] = all[slot]
      /\ Values(all).interval = IF all.interval = None THEN DEFAULT_INTERVAL ELSE all.interval
  BY <1>5 DEF Values, Slots
<1> HIDE DEF sum
<1>7. sum = [slot \in Slots |-> sum[slot]]
  BY <1>1, <1>6
<1>8. \A slot \in Slots \ {"values", "interval"} : sum[slot] = IF v[slot] = w[slot] THEN v[slot] ELSE None
  BY <1>1, <1>4, <1>6
<1>9. sum.values = values
  BY <1>1, <1>2, <1>3, <1>6
<1>10. sum.interval = IF v.interval = w.interval /\ v.interval # None THEN v.interval ELSE DEFAULT_INTERVAL
  BY <1>1, <1>2, <1>4, <1>6
<1> QED BY <1>7, <1>8, <1>9, <1>10 DEF sum, values

Greatest(s) == CHOOSE x \in s : \A y \in s : x >= y

\* What a fold of Add over a sequence is of, for the subsets of the sequence's domain.
Addition(base, seq) ==
  CHOOSE iter : iter = [s \in SUBSET DOMAIN seq |-> IF s = {} THEN base ELSE Add(iter[s \ {Greatest(s)}], seq[Greatest(s)])]

LEMMA SumIsAddition ==
  ASSUME NEW recs
  PROVE  Sum(recs) = Addition(Head(recs), Tail(recs))[DOMAIN Tail(recs)]
BY DEF Sum, FoldLeft, MapThenFoldSet, Addition, Greatest, Max

\* The largest of some indices.
LEMMA GreatestIs ==
  ASSUME NEW n \in Nat, NEW s \in SUBSET (1..n), s # {}
  PROVE  Greatest(s) \in s /\ \A y \in s : Greatest(s) >= y
<1> DEFINE T == {n - x : x \in s}
<1>1. T \subseteq Nat /\ T # {}
  <2>1. \A x \in s : n - x \in Nat
    OBVIOUS
  <2> QED BY <2>1
<1>2. PICK m \in T : \A k \in T : m <= k
  BY <1>1, LeastNatural
<1>3. PICK x \in s : m = n - x
  BY <1>2
<1>4. ASSUME NEW y \in s PROVE x >= y
  <2>1. n - y \in T /\ x \in 1..n /\ y \in 1..n
    OBVIOUS
  <2>2. n - x <= n - y
    BY <1>2, <1>3, <2>1
  <2> QED BY <2>1, <2>2
<1> QED BY <1>3, <1>4 DEF Greatest

\* A set that a sum does not leave.
Closed(V) == \A v, w \in V : Add(v, w) \in V

\* The recursion of a fold of Add.
AddsUp(it, base, seq, V) ==
  /\ it[{}] = base
  /\ \A s \in SUBSET DOMAIN seq : s # {} => it[s] = Add(it[s \ {Greatest(s)}], seq[Greatest(s)])
  /\ \A s \in SUBSET DOMAIN seq : it[s] \in V

LEMMA AdditionIs ==
  ASSUME NEW V, Closed(V), NEW base \in V, NEW seq \in Seq(V)
  PROVE  AddsUp(Addition(base, seq), base, seq, V)
<1> DEFINE D == DOMAIN seq
           step == [i \in D |-> [v \in V |-> Add(v, seq[i])]]
           choose == [s \in SUBSET D |-> Greatest(s)]
<1>1. D = 1..Len(seq) /\ Len(seq) \in Nat /\ \A i \in D : seq[i] \in V
  OBVIOUS
<1>2. IsFiniteSet(D)
  BY <1>1, FS_Interval
<1> HIDE DEF D
<1>3. \A s \in SUBSET D : s # {} => Greatest(s) \in s
  BY <1>1, GreatestIs
<1>4. PICK g \in [SUBSET D -> V] : \A s \in SUBSET D : g[s] = Round(step, base, choose, g, s)
  <2>1. step \in [D -> [V -> V]]
    BY <1>1 DEF Closed
  <2>2. \A s \in SUBSET D : s # {} => choose[s] \in s
    BY <1>3
  <2> HIDE DEF step, choose
  <2>3. Solvable(D, V, base, step, choose)
    BY <1>2, <2>1, <2>2, FoldExists
  <2> QED BY <2>3 DEF Solvable
<1>5. ASSUME NEW s \in SUBSET D
      PROVE  g[s] = IF s = {} THEN base ELSE Add(g[s \ {Greatest(s)}], seq[Greatest(s)])
  <2>1. CASE s = {}
    BY <1>4, <2>1 DEF Round
  <2>2. CASE s # {}
    <3>1. Greatest(s) \in D /\ choose[s] = Greatest(s) /\ s \ {Greatest(s)} \in SUBSET D
      BY <1>3, <2>2
    <3>2. g[s] = step[Greatest(s)][g[s \ {Greatest(s)}]]
      BY <1>4, <2>2, <3>1 DEF Round
    <3>3. g[s \ {Greatest(s)}] \in V
      BY <3>1
    <3> QED BY <2>2, <3>1, <3>2, <3>3
  <2> QED BY <2>1, <2>2
<1>6. g = [s \in SUBSET D |-> IF s = {} THEN base ELSE Add(g[s \ {Greatest(s)}], seq[Greatest(s)])]
  BY <1>5
<1>7. Addition(base, seq) = [s \in SUBSET D |-> IF s = {} THEN base
                            ELSE Add(Addition(base, seq)[s \ {Greatest(s)}], seq[Greatest(s)])]
  BY <1>6 DEF Addition, D
<1> DEFINE it == Addition(base, seq)
<1>8. it[{}] = base /\ \A s \in SUBSET D : s # {} => it[s] = Add(it[s \ {Greatest(s)}], seq[Greatest(s)])
  BY <1>7
<1> HIDE DEF it
<1>9. \A s \in SUBSET D : it[s] \in V
  <2> DEFINE P == {s \in SUBSET D : it[s] \in V}
  <2>1. {} \in P
    BY <1>8
  <2>2. ASSUME NEW s \in SUBSET D, s # {}, \A x \in s : s \ {x} \in P PROVE s \in P
    <3>1. Greatest(s) \in s /\ it[s \ {Greatest(s)}] \in V /\ seq[Greatest(s)] \in V
      BY <1>1, <1>3, <2>2
    <3>2. Add(it[s \ {Greatest(s)}], seq[Greatest(s)]) \in V
      BY <3>1 DEF Closed
    <3>3. it[s] \in V
      BY <1>8, <2>2, <3>2
    <3> QED BY <3>3
  <2> HIDE DEF P
  <2>3. SUBSET D \subseteq P
    BY <1>2, <2>1, <2>2, SubsetInduction
  <2> QED BY <2>3 DEF P
<1> QED BY <1>8, <1>9 DEF it, D, AddsUp

\* A fold over the beginning of a sequence is that over what there is of it in a longer one.
LEMMA AdditionOfBeginning ==
  ASSUME NEW V, Closed(V), NEW base \in V, NEW s \in Seq(V), NEW t \in Seq(V),
         Len(s) <= Len(t), \A i \in 1..Len(s) : s[i] = t[i]
  PROVE  Addition(base, s)[DOMAIN s] = Addition(base, t)[DOMAIN s]
<1> DEFINE a == Addition(base, s)
           b == Addition(base, t)
           D == 1..Len(s)
           P == {d \in SUBSET D : a[d] = b[d]}
<1>1. DOMAIN s = D /\ IsFiniteSet(D) /\ D \subseteq DOMAIN t /\ Len(s) \in Nat
  BY FS_Interval
<1>2. a[{}] = base /\ \A d \in SUBSET D : d # {} => a[d] = Add(a[d \ {Greatest(d)}], s[Greatest(d)])
  <2>1. a[{}] = base /\ \A d \in SUBSET DOMAIN s : d # {} => a[d] = Add(a[d \ {Greatest(d)}], s[Greatest(d)])
    <3>1. AddsUp(Addition(base, s), base, s, V)
      BY AdditionIs, Zenon
    <3> QED BY <3>1, Zenon DEF AddsUp
  <2> QED BY <1>1, <2>1
<1>3. b[{}] = base /\ \A d \in SUBSET D : d # {} => b[d] = Add(b[d \ {Greatest(d)}], t[Greatest(d)])
  <2>1. b[{}] = base /\ \A d \in SUBSET DOMAIN t : d # {} => b[d] = Add(b[d \ {Greatest(d)}], t[Greatest(d)])
    <3>1. AddsUp(Addition(base, t), base, t, V)
      BY AdditionIs, Zenon
    <3> QED BY <3>1, Zenon DEF AddsUp
  <2>2. SUBSET D \subseteq SUBSET DOMAIN t
    BY <1>1
  <2> HIDE DEF b, D
  <2> QED BY <2>1, <2>2
<1>4. \A d \in SUBSET D : d # {} => Greatest(d) \in d
  BY <1>1, GreatestIs
<1>5. \A i \in D : s[i] = t[i]
  OBVIOUS
<1> HIDE DEF a, b, D
<1>6. {} \in P
  BY <1>2, <1>3
<1>7. ASSUME NEW d \in SUBSET D, d # {}, \A x \in d : d \ {x} \in P PROVE d \in P
  <2>1. Greatest(d) \in d /\ a[d \ {Greatest(d)}] = b[d \ {Greatest(d)}] /\ s[Greatest(d)] = t[Greatest(d)]
    BY <1>4, <1>5, <1>7
  <2>2. a[d] = b[d]
    BY <1>2, <1>3, <1>7, <2>1
  <2> QED BY <2>2
<1> HIDE DEF P
<1>8. SUBSET D \subseteq P
  BY <1>1, <1>6, <1>7, SubsetInduction
<1> QED BY <1>1, <1>8 DEF P, a, b

\* One more is added to the sum of those before it.
THEOREM SumOfAppended ==
  ASSUME NEW V, Closed(V), NEW recs \in Seq(V), NEW v \in V
  PROVE  /\ recs = <<>> => Sum(Append(recs, v)) = v
         /\ recs # <<>> => Sum(recs) \in V /\ Sum(Append(recs, v)) = Add(Sum(recs), v)
<1>1. CASE recs = <<>>
  <2> DEFINE more == Append(recs, v)
  <2>1. Head(more) = v /\ Tail(more) \in Seq(V) /\ DOMAIN Tail(more) = {}
    BY <1>1
  <2> HIDE DEF more
  <2>2. Addition(v, Tail(more))[{}] = v
    BY <2>1, AdditionIs DEF AddsUp
  <2> QED BY <1>1, <2>1, <2>2, SumIsAddition DEF more
<1>2. CASE recs # <<>>
  <2> DEFINE more == Append(recs, v)
             s == Tail(recs)
             t == Tail(more)
             h == Head(recs)
             n == Len(recs)
  <2>1. n \in Nat \ {0} /\ h \in V /\ s \in Seq(V) /\ t \in Seq(V) /\ Head(more) = h
    BY <1>2
  <2>2. /\ DOMAIN s = 1..n - 1 /\ DOMAIN t = 1..n /\ Len(s) = n - 1 /\ Len(t) = n
        /\ \A i \in 1..n - 1 : s[i] = t[i]
        /\ t[n] = v
    BY <1>2
  <2>3. Sum(recs) = Addition(h, s)[DOMAIN s] /\ Sum(more) = Addition(h, t)[DOMAIN t]
    BY <2>1, SumIsAddition
  <2> HIDE DEF more, s, t, h, n
  <2>4. Addition(h, s)[DOMAIN s] = Addition(h, t)[DOMAIN s]
    <3>1. Len(s) <= Len(t) /\ \A i \in 1..Len(s) : s[i] = t[i]
      BY <2>1, <2>2
    <3> QED BY <2>1, <3>1, AdditionOfBeginning
  <2>5. Greatest(1..n) = n
    <3> DEFINE d == 1..n
    <3>1. n \in d /\ d \in SUBSET (1..n) /\ \A y \in d : n >= y
      BY <2>1
    <3>2. Greatest(d) \in d /\ \A y \in d : Greatest(d) >= y
      <4>1. n \in Nat /\ d # {}
        BY <2>1, <3>1
      <4> HIDE DEF d
      <4> QED BY <3>1, <4>1, GreatestIs
    <3>3. Greatest(d) >= n /\ n >= Greatest(d) /\ Greatest(d) \in Int
      BY <2>1, <3>1, <3>2
    <3> QED BY <2>1, <3>3
  <2>6. Addition(h, t)[1..n] = Add(Addition(h, t)[1..n - 1], v)
    <3> DEFINE d == 1..n
    <3>1. d \ {n} = 1..n - 1 /\ d # {}
      <4>1. n \in d
        BY <2>1
      <4>2. ASSUME NEW x PROVE x \in d \ {n} <=> x \in 1..n - 1
        BY <2>1
      <4> HIDE DEF d
      <4> QED BY <4>1, <4>2
    <3>2. d \in SUBSET DOMAIN t
      BY <2>2
    <3>3. Greatest(d) = n
      BY <2>5
    <3> HIDE DEF d
    <3>4. Addition(h, t)[d] = Add(Addition(h, t)[d \ {Greatest(d)}], t[Greatest(d)])
      <4>1. AddsUp(Addition(h, t), h, t, V)
        BY <2>1, AdditionIs
      <4> QED BY <3>1, <3>2, <4>1 DEF AddsUp
    <3>5. Addition(h, t)[d] = Add(Addition(h, t)[1..n - 1], v)
      BY <2>2, <3>1, <3>3, <3>4, Zenon
    <3> QED BY <3>5 DEF d
  <2>7. Addition(h, s)[DOMAIN s] \in V
    BY <2>1, AdditionIs DEF AddsUp
  <2> QED BY <1>2, <2>2, <2>3, <2>4, <2>6, <2>7 DEF more
<1> QED BY <1>1, <1>2
=============================================================================
