----------------------------- MODULE LedgerLemmas -----------------------------
(* What the other proofs use of maps and of sums.  A ledger adds up a function  *)
(* over a finite set of CPUs, keys or positions; SumFunction takes the elements *)
(* in an order that is chosen for each set, so that the first thing to show is  *)
(* that no sum depends on it.  The induction principles of the library take a   *)
(* predicate, which the provers cannot instantiate; here a set takes its place. *)
EXTENDS BpfMaps, Integers, Sequences, Functions, FiniteSetTheorems, TLAPS

-----------------------------------------------------------------------------
(* Maps *)

LEMMA EmptyIsMap == \A K, V : IsMap(EmptyMap, K, V)
BY DEF IsMap, EmptyMap

LEMMA PutIsMap ==
  ASSUME NEW K, NEW V, NEW m, IsMap(m, K, V), NEW k \in K, NEW v \in V
  PROVE  IsMap(Put(m, k, v), K, V)
BY DEF IsMap, Put

LEMMA DropIsMap ==
  ASSUME NEW K, NEW V, NEW m, IsMap(m, K, V), NEW ks
  PROVE  IsMap(Drop(m, ks), K, V)
BY DEF IsMap, Drop

LEMMA AtInRange ==
  ASSUME NEW K, NEW V, NEW m, IsMap(m, K, V), NEW k, NEW zero \in V
  PROVE  At(m, k, zero) \in V
BY DEF IsMap, At

\* A map of finitely many keys has one entry more after a Put of a new key, and
\* one less after the Drop of one that it has.
LEMMA MapSize ==
  ASSUME NEW K, IsFiniteSet(K), NEW m, DOMAIN m \subseteq K, NEW k \in K, NEW v
  PROVE  /\ Cardinality(DOMAIN m) \in Nat
         /\ k \notin DOMAIN m => Cardinality(DOMAIN Put(m, k, v)) = Cardinality(DOMAIN m) + 1
         /\ k \in DOMAIN m => Cardinality(DOMAIN Drop(m, {k})) = Cardinality(DOMAIN m) - 1
<1>1. IsFiniteSet(DOMAIN m)
  BY FS_Subset
<1>2. DOMAIN Put(m, k, v) = DOMAIN m \cup {k} /\ DOMAIN Drop(m, {k}) = DOMAIN m \ {k}
  BY DEF Put, Drop
<1> QED  BY <1>1, <1>2, FS_CardinalityType, FS_AddElement, FS_RemoveElement

-----------------------------------------------------------------------------
(* Induction *)

\* Induction on finite sets: the sets for which a fact holds are a set Q.
LEMMA SubsetInduction ==
  ASSUME NEW S, IsFiniteSet(S), NEW Q,
         \A T \in SUBSET S : (\A U \in SUBSET T : U # T => U \in Q) => T \in Q
  PROVE  S \in Q
<1> DEFINE Bad == {T \in SUBSET S : T \notin Q}
<1>1. SUFFICES ASSUME Bad # {} PROVE FALSE
  BY <1>1
<1>2. IsWellFoundedOn(StrictSubsetOrdering(S), SUBSET S)
  BY FS_StrictSubsetOrderingWellFounded, FS_FiniteSubsetsOfFinite
<1>3. PICK T \in Bad : \A U \in Bad : <<U, T>> \notin StrictSubsetOrdering(S)
  <2>1. Bad \subseteq SUBSET S
    OBVIOUS
  <2> HIDE DEF Bad
  <2> QED  BY <1>1, <1>2, <2>1, WFMin
<1>4. ASSUME NEW U \in SUBSET T, U # T PROVE U \in Q
  <2>1. <<U, T>> \in StrictSubsetOrdering(S)
    BY <1>4, T \in SUBSET S DEF StrictSubsetOrdering
  <2>2. U \notin Bad
    BY <1>3, <2>1
  <2> QED  BY <2>2
<1> QED  BY <1>4

\* The same by one element after another.
LEMMA ElementInduction ==
  ASSUME NEW S, IsFiniteSet(S), NEW Q, {} \in Q,
         \A T \in SUBSET S, x \in S : T \in Q /\ x \notin T => T \cup {x} \in Q
  PROVE  S \in Q
<1>1. ASSUME NEW T \in SUBSET S, \A U \in SUBSET T : U # T => U \in Q PROVE T \in Q
  <2>1. CASE T = {}
    BY <2>1
  <2>2. CASE T # {}
    <3>1. PICK x \in T : TRUE
      BY <2>2
    <3>2. T \ {x} \in Q /\ (T \ {x}) \cup {x} = T /\ x \in S /\ T \ {x} \in SUBSET S
      BY <1>1, <3>1
    <3> QED  BY <3>2
  <2> QED  BY <2>1, <2>2
<1> QED  BY <1>1, SubsetInduction

-----------------------------------------------------------------------------
(* Sums are well defined, in any order. *)

\* One step of a sum: an element is chosen and the others are added up.
AddsUp(g, f, S) ==
  \A s \in SUBSET S :
    g[s] = IF s = {} THEN 0
           ELSE f[CHOOSE x \in s : TRUE] + g[s \ {CHOOSE x \in s : TRUE}]

Adds(g, f, S) ==
  g = [s \in SUBSET S |-> IF s = {} THEN 0
                          ELSE f[CHOOSE x \in s : TRUE] + g[s \ {CHOOSE x \in s : TRUE}]]

\* Some function adds up f: it is extended to the sets of n + 1 elements, as
\* often as S needs.
LEMMA AddsExists ==
  ASSUME NEW f, NEW S, IsFiniteSet(S)
  PROVE  \E g : Adds(g, f, S)
<1> DEFINE Step(g, s) == IF s = {} THEN 0
                         ELSE f[CHOOSE x \in s : TRUE] + g[s \ {CHOOSE x \in s : TRUE}]
           Upto(T) == {s \in SUBSET S : Cardinality(s) <= Cardinality(T)}
           Q == {T \in SUBSET S : \E g : /\ g = [s \in SUBSET S |-> g[s]]
                                         /\ \A s \in Upto(T) : g[s] = Step(g, s)}
<1>1. \A s \in SUBSET S : IsFiniteSet(s) /\ Cardinality(s) \in Nat
  BY FS_Subset, FS_CardinalityType
<1>2. {} \in Q
  <2> DEFINE g == [s \in SUBSET S |-> 0]
  <2>1. \A s \in Upto({}) : s = {}
    BY <1>1, FS_EmptySet
  <2>2. \A s \in Upto({}) : g[s] = Step(g, s)
    BY <2>1
  <2> QED  BY <2>2
<1>3. ASSUME NEW T \in SUBSET S, NEW x \in S, T \in Q PROVE T \cup {x} \in Q
  <2>1. PICK g : g = [s \in SUBSET S |-> g[s]] /\ \A s \in Upto(T) : g[s] = Step(g, s)
    BY <1>3
  <2> DEFINE h == [s \in SUBSET S |-> IF s \in Upto(T) THEN g[s] ELSE Step(g, s)]
  <2>2. ASSUME NEW s \in Upto(T \cup {x}) PROVE h[s] = Step(h, s)
    <3>1. CASE s = {}
      BY <3>1, <2>1
    <3>2. CASE s # {}
      <4> DEFINE y == CHOOSE x_1 \in s : TRUE
      <4>1. y \in s /\ s \ {y} \in SUBSET S
        BY <3>2
      <4>2. Cardinality(T \cup {x}) <= Cardinality(T) + 1
        BY <1>1, FS_AddElement
      <4>3. Cardinality(s \ {y}) = Cardinality(s) - 1
        BY <1>1, <4>1, FS_RemoveElement
      <4>4. Cardinality(s) <= Cardinality(T) + 1
        BY <1>1, <4>2, T \cup {x} \in SUBSET S
      <4>5. s \ {y} \in Upto(T)
        BY <1>1, <4>1, <4>3, <4>4
      <4>6. h[s \ {y}] = g[s \ {y}]
        BY <4>1, <4>5
      <4>7. h[s] = Step(g, s)
        BY <2>1
      <4> QED  BY <3>2, <4>6, <4>7
    <3> QED  BY <3>1, <3>2
  <2>3. h = [s \in SUBSET S |-> h[s]]
    OBVIOUS
  <2> QED  BY <2>2, <2>3
<1>4. S \in Q
  <2> HIDE DEF Q
  <2> QED  BY <1>2, <1>3, ElementInduction
<1>5. PICK g : g = [s \in SUBSET S |-> g[s]] /\ \A s \in Upto(S) : g[s] = Step(g, s)
  BY <1>4
<1>6. Upto(S) = SUBSET S
  BY FS_Subset
<1>7. Adds(g, f, S)
  <2>1. g = [s \in SUBSET S |-> Step(g, s)]
    BY <1>5, <1>6
  <2> QED  BY <2>1 DEF Adds
<1> QED  BY <1>7

LEMMA SumDefinition ==
  ASSUME NEW f, NEW S, IsFiniteSet(S)
  PROVE  \E g : AddsUp(g, f, S) /\ SumFunctionOnSet(f, S) = g[S]
<1> DEFINE g == CHOOSE g_1 : Adds(g_1, f, S)
<1>1. SumFunctionOnSet(f, S) = g[S]
  BY DEF SumFunctionOnSet, FoldFunctionOnSet, MapThenFoldSet, Adds
<1>2. Adds(g, f, S)
  BY AddsExists
<1>3. AddsUp(g, f, S)
  BY <1>2 DEF Adds, AddsUp
<1> QED  BY <1>1, <1>3

\* Whoever adds up the same numbers gets the same sum.
LEMMA AddsAgree ==
  ASSUME NEW f, NEW g, NEW S, NEW e, NEW h, NEW T, IsFiniteSet(S), S \subseteq T,
         AddsUp(g, f, S), AddsUp(h, e, T), \A x \in S : f[x] = e[x]
  PROVE  g[S] = h[S]
<1> DEFINE Q == {U \in SUBSET S : g[U] = h[U]}
<1>1. ASSUME NEW U \in SUBSET S, \A V \in SUBSET U : V # U => V \in Q PROVE U \in Q
  <2>1. CASE U = {}
    BY <2>1 DEF AddsUp
  <2>2. CASE U # {}
    <3> DEFINE y == CHOOSE x \in U : TRUE
    <3>1. y \in U /\ U \ {y} \in SUBSET U /\ U \ {y} # U
      BY <2>2
    <3>2. g[U \ {y}] = h[U \ {y}] /\ f[y] = e[y]
      BY <1>1, <3>1
    <3>3. g[U] = f[y] + g[U \ {y}]
      BY <2>2 DEF AddsUp
    <3>4. h[U] = e[y] + h[U \ {y}]
      BY <2>2 DEF AddsUp
    <3> QED  BY <3>2, <3>3, <3>4
  <2> QED  BY <2>1, <2>2
<1>2. S \in Q
  <2> HIDE DEF Q
  <2> QED  BY <1>1, SubsetInduction
<1> QED  BY <1>2

\* Every element may be taken first.
LEMMA AnyFirst ==
  ASSUME NEW f, NEW S, IsFiniteSet(S), \A x \in S : f[x] \in Int,
         NEW g, AddsUp(g, f, S)
  PROVE  g[S] \in Int /\ \A x \in S : g[S] = f[x] + g[S \ {x}]
<1> DEFINE Q == {U \in SUBSET S : g[U] \in Int /\ \A x \in U : g[U] = f[x] + g[U \ {x}]}
<1>1. ASSUME NEW U \in SUBSET S, \A V \in SUBSET U : V # U => V \in Q PROVE U \in Q
  <2>1. CASE U = {}
    BY <2>1 DEF AddsUp
  <2>2. CASE U # {}
    <3> DEFINE y == CHOOSE x \in U : TRUE
    <3>1. y \in U /\ U \ {y} \in Q
      <4>1. y \in U /\ U \ {y} \in SUBSET U /\ U \ {y} # U
        BY <2>2
      <4> QED  BY <1>1, <4>1
    <3>2. g[U] = f[y] + g[U \ {y}] /\ g[U] \in Int
      <4>1. g[U] = f[y] + g[U \ {y}]
        BY <2>2 DEF AddsUp
      <4> QED  BY <3>1, <4>1
    <3>3. ASSUME NEW x \in U, x # y PROVE g[U] = f[x] + g[U \ {x}]
      <4>1. U \ {x} \in Q /\ U \ {y} \in Q /\ x \in U \ {y} /\ y \in U \ {x}
        <5>1. U \ {x} \in SUBSET U /\ U \ {x} # U
          OBVIOUS
        <5> QED  BY <1>1, <3>1, <3>3, <5>1
      <4>2. (U \ {x}) \ {y} = (U \ {y}) \ {x}
        OBVIOUS
      <4>3. g[U \ {y}] = f[x] + g[(U \ {y}) \ {x}]
        BY <4>1
      <4>4. g[U \ {x}] = f[y] + g[(U \ {x}) \ {y}]
        BY <4>1
      <4>5. (U \ {x}) \ {y} \in Q
        <5>1. (U \ {x}) \ {y} \in SUBSET U /\ (U \ {x}) \ {y} # U
          OBVIOUS
        <5> QED  BY <1>1, <5>1
      <4>6. f[x] \in Int /\ f[y] \in Int /\ g[(U \ {x}) \ {y}] \in Int
        BY <3>1, <4>5
      <4>7. g[U] = f[y] + (f[x] + g[(U \ {x}) \ {y}])
        BY <3>2, <4>2, <4>3
      <4> HIDE DEF y, Q
      <4> QED  BY <4>4, <4>6, <4>7
    <3> QED  BY <3>2, <3>3
  <2> QED  BY <2>1, <2>2
<1>2. S \in Q
  <2> HIDE DEF Q
  <2> QED  BY <1>1, SubsetInduction
<1> QED  BY <1>2

-----------------------------------------------------------------------------
(* Sums over a set *)

LEMMA SumOfNone == \A f : SumFunctionOnSet(f, {}) = 0
<1>1. ASSUME NEW f PROVE SumFunctionOnSet(f, {}) = 0
  <2>1. IsFiniteSet({})
    BY FS_EmptySet
  <2>2. PICK g : AddsUp(g, f, {}) /\ SumFunctionOnSet(f, {}) = g[{}]
    BY <2>1, SumDefinition
  <2> QED  BY <2>2 DEF AddsUp
<1> QED  BY <1>1

LEMMA SumAgrees ==
  ASSUME NEW f, NEW e, NEW S, IsFiniteSet(S), \A x \in S : f[x] = e[x]
  PROVE  SumFunctionOnSet(f, S) = SumFunctionOnSet(e, S)
<1>1. PICK g : AddsUp(g, f, S) /\ SumFunctionOnSet(f, S) = g[S]
  BY SumDefinition
<1>2. PICK h : AddsUp(h, e, S) /\ SumFunctionOnSet(e, S) = h[S]
  BY SumDefinition
<1>3. g[S] = h[S]
  BY <1>1, <1>2, AddsAgree
<1> QED  BY <1>1, <1>2, <1>3

LEMMA SumTakes ==
  ASSUME NEW f, NEW S, IsFiniteSet(S), \A x \in S : f[x] \in Int
  PROVE  /\ SumFunctionOnSet(f, S) \in Int
         /\ \A x \in S : SumFunctionOnSet(f, S) = f[x] + SumFunctionOnSet(f, S \ {x})
<1>1. PICK g : AddsUp(g, f, S) /\ SumFunctionOnSet(f, S) = g[S]
  BY SumDefinition
<1>2. ASSUME NEW x \in S PROVE SumFunctionOnSet(f, S \ {x}) = g[S \ {x}]
  <2>1. IsFiniteSet(S \ {x}) /\ S \ {x} \subseteq S
    BY FS_RemoveElement
  <2>2. PICK h : AddsUp(h, f, S \ {x}) /\ SumFunctionOnSet(f, S \ {x}) = h[S \ {x}]
    BY <2>1, SumDefinition
  <2>3. h[S \ {x}] = g[S \ {x}]
    BY <1>1, <2>1, <2>2, AddsAgree
  <2> QED  BY <2>2, <2>3
<1>3. g[S] \in Int /\ \A x \in S : g[S] = f[x] + g[S \ {x}]
  BY <1>1, AnyFirst
<1> QED  BY <1>1, <1>2, <1>3

\* Adding up natural numbers is monotonic.
LEMMA SumIsNat ==
  ASSUME NEW f, NEW S, IsFiniteSet(S), \A x \in S : f[x] \in Nat
  PROVE  SumFunctionOnSet(f, S) \in Nat
<1> DEFINE Q == {T \in SUBSET S : SumFunctionOnSet(f, T) \in Nat}
<1>1. {} \in Q
  BY SumOfNone
<1>2. ASSUME NEW T \in SUBSET S, NEW x \in S, T \in Q, x \notin T PROVE T \cup {x} \in Q
  <2>1. IsFiniteSet(T \cup {x}) /\ T \cup {x} \in SUBSET S /\ (T \cup {x}) \ {x} = T
    BY <1>2, FS_Subset, FS_AddElement
  <2>2. SumFunctionOnSet(f, T \cup {x}) = f[x] + SumFunctionOnSet(f, (T \cup {x}) \ {x})
    BY <2>1, SumTakes
  <2>3. SumFunctionOnSet(f, T) \in Nat /\ f[x] \in Nat
    BY <1>2
  <2>4. SumFunctionOnSet(f, T \cup {x}) = f[x] + SumFunctionOnSet(f, T)
    BY <2>1, <2>2
  <2>5. SumFunctionOnSet(f, T \cup {x}) \in Nat
    BY <2>3, <2>4
  <2> QED  BY <2>1, <2>5
<1>3. S \in Q
  <2> HIDE DEF Q
  <2> QED  BY <1>1, <1>2, ElementInduction
<1> QED  BY <1>3

LEMMA SumOfZeros ==
  ASSUME NEW f, NEW S, IsFiniteSet(S), \A x \in S : f[x] = 0
  PROVE  SumFunctionOnSet(f, S) = 0
<1> DEFINE Q == {T \in SUBSET S : SumFunctionOnSet(f, T) = 0}
<1>1. {} \in Q
  BY SumOfNone
<1>2. ASSUME NEW T \in SUBSET S, NEW x \in S, T \in Q, x \notin T PROVE T \cup {x} \in Q
  <2>1. IsFiniteSet(T \cup {x}) /\ T \cup {x} \in SUBSET S /\ (T \cup {x}) \ {x} = T
    BY <1>2, FS_Subset, FS_AddElement
  <2>2. SumFunctionOnSet(f, T \cup {x}) = f[x] + SumFunctionOnSet(f, (T \cup {x}) \ {x})
    BY <2>1, SumTakes
  <2> QED  BY <1>2, <2>1, <2>2
<1>3. S \in Q
  <2> HIDE DEF Q
  <2> QED  BY <1>1, <1>2, ElementInduction
<1> QED  BY <1>3

LEMMA SumOfBoth ==
  ASSUME NEW f, NEW e, NEW h, NEW S, IsFiniteSet(S),
         \A x \in S : f[x] \in Int /\ e[x] \in Int /\ h[x] = f[x] + e[x]
  PROVE  SumFunctionOnSet(h, S) = SumFunctionOnSet(f, S) + SumFunctionOnSet(e, S)
<1> DEFINE Q == {T \in SUBSET S :
                   SumFunctionOnSet(h, T) = SumFunctionOnSet(f, T) + SumFunctionOnSet(e, T)}
<1>1. {} \in Q
  BY SumOfNone
<1>2. ASSUME NEW T \in SUBSET S, NEW x \in S, T \in Q, x \notin T PROVE T \cup {x} \in Q
  <2>1. /\ IsFiniteSet(T \cup {x}) /\ T \cup {x} \in SUBSET S /\ (T \cup {x}) \ {x} = T
        /\ IsFiniteSet(T)
    BY <1>2, FS_Subset, FS_AddElement
  <2>2. SumFunctionOnSet(f, T \cup {x}) = f[x] + SumFunctionOnSet(f, (T \cup {x}) \ {x})
    BY <2>1, SumTakes
  <2>3. SumFunctionOnSet(e, T \cup {x}) = e[x] + SumFunctionOnSet(e, (T \cup {x}) \ {x})
    BY <2>1, SumTakes
  <2>4. SumFunctionOnSet(h, T \cup {x}) = h[x] + SumFunctionOnSet(h, (T \cup {x}) \ {x})
    BY <2>1, SumTakes
  <2>5. SumFunctionOnSet(f, T) \in Int /\ SumFunctionOnSet(e, T) \in Int
    BY <2>1, SumTakes
  <2>6. /\ SumFunctionOnSet(h, T) = SumFunctionOnSet(f, T) + SumFunctionOnSet(e, T)
        /\ f[x] \in Int /\ e[x] \in Int /\ h[x] = f[x] + e[x]
    BY <1>2
  <2>7. /\ SumFunctionOnSet(f, T \cup {x}) = f[x] + SumFunctionOnSet(f, T)
        /\ SumFunctionOnSet(e, T \cup {x}) = e[x] + SumFunctionOnSet(e, T)
        /\ SumFunctionOnSet(h, T \cup {x}) = h[x] + SumFunctionOnSet(h, T)
    BY <2>1, <2>2, <2>3, <2>4
  <2>8. SumFunctionOnSet(h, T \cup {x})
          = SumFunctionOnSet(f, T \cup {x}) + SumFunctionOnSet(e, T \cup {x})
    BY <2>5, <2>6, <2>7
  <2> QED  BY <2>1, <2>8
<1>3. S \in Q
  <2> HIDE DEF Q
  <2> QED  BY <1>1, <1>2, ElementInduction
<1> QED  BY <1>3

\* One entry changes, the others do not.
LEMMA SumChanges ==
  ASSUME NEW f, NEW e, NEW S, IsFiniteSet(S), NEW a \in S,
         \A x \in S : f[x] \in Int /\ e[x] \in Int,
         \A x \in S \ {a} : e[x] = f[x]
  PROVE  SumFunctionOnSet(e, S) = SumFunctionOnSet(f, S) - f[a] + e[a]
<1>1. IsFiniteSet(S \ {a})
  BY FS_RemoveElement
<1>2. SumFunctionOnSet(f, S) = f[a] + SumFunctionOnSet(f, S \ {a})
  BY SumTakes
<1>3. SumFunctionOnSet(e, S) = e[a] + SumFunctionOnSet(e, S \ {a})
  BY SumTakes
<1>4. SumFunctionOnSet(e, S \ {a}) = SumFunctionOnSet(f, S \ {a})
  BY <1>1, SumAgrees
<1>5. SumFunctionOnSet(f, S \ {a}) \in Int
  BY <1>1, SumTakes
<1> QED  BY <1>2, <1>3, <1>4, <1>5

LEMMA SumLeq ==
  ASSUME NEW f, NEW e, NEW S, IsFiniteSet(S),
         \A x \in S : f[x] \in Int /\ e[x] \in Int /\ f[x] <= e[x]
  PROVE  SumFunctionOnSet(f, S) <= SumFunctionOnSet(e, S)
<1> DEFINE d == [x \in S |-> e[x] - f[x]]
<1>1. \A x \in S : d[x] \in Nat
  OBVIOUS
<1>2. SumFunctionOnSet(e, S) = SumFunctionOnSet(f, S) + SumFunctionOnSet(d, S)
  <2>1. \A x \in S : f[x] \in Int /\ d[x] \in Int /\ e[x] = f[x] + d[x]
    OBVIOUS
  <2> HIDE DEF d
  <2> QED  BY <2>1, SumOfBoth
<1>3. SumFunctionOnSet(d, S) \in Nat
  <2> HIDE DEF d
  <2> QED  BY <1>1, SumIsNat
<1>4. SumFunctionOnSet(f, S) \in Int
  BY SumTakes
<1> HIDE DEF d
<1> QED  BY <1>2, <1>3, <1>4

-----------------------------------------------------------------------------
(* Sums of functions *)

LEMMA FunSumIsNat ==
  ASSUME NEW S, IsFiniteSet(S), NEW f \in [S -> Nat]
  PROVE  SumFunction(f) \in Nat
BY SumIsNat DEF SumFunction

LEMMA FunSumIsInt ==
  ASSUME NEW S, IsFiniteSet(S), NEW f \in [S -> Int]
  PROVE  SumFunction(f) \in Int
BY SumTakes DEF SumFunction

LEMMA FunSumOfZeros ==
  ASSUME NEW S, IsFiniteSet(S), NEW f, DOMAIN f = S, \A x \in S : f[x] = 0
  PROVE  SumFunction(f) = 0
BY SumOfZeros DEF SumFunction

LEMMA FunSumChanges ==
  ASSUME NEW S, IsFiniteSet(S), NEW f \in [S -> Int], NEW e \in [S -> Int], NEW a \in S,
         \A x \in S : x # a => e[x] = f[x]
  PROVE  SumFunction(e) = SumFunction(f) - f[a] + e[a]
<1>1. /\ DOMAIN f = S /\ DOMAIN e = S
      /\ \A x \in S : f[x] \in Int /\ e[x] \in Int
      /\ \A x \in S \ {a} : e[x] = f[x]
  OBVIOUS
<1> QED  BY <1>1, SumChanges DEF SumFunction

LEMMA FunSumLeq ==
  ASSUME NEW S, IsFiniteSet(S), NEW f \in [S -> Int], NEW e \in [S -> Int],
         \A x \in S : f[x] <= e[x]
  PROVE  SumFunction(f) <= SumFunction(e)
BY SumLeq DEF SumFunction

\* One entry grows by d at most, the others do not grow.
LEMMA FunSumMoves ==
  ASSUME NEW S, IsFiniteSet(S), NEW f \in [S -> Int], NEW e \in [S -> Int], NEW a \in S,
         NEW d \in Int, \A x \in S : x # a => e[x] <= f[x], e[a] <= f[a] + d
  PROVE  SumFunction(e) <= SumFunction(f) + d
<1> DEFINE h == [f EXCEPT ![a] = @ + d]
<1>1. /\ h \in [S -> Int] /\ \A x \in S : x # a => h[x] = f[x]
      /\ h[a] = f[a] + d /\ \A x \in S : e[x] <= h[x]
  OBVIOUS
<1> HIDE DEF h
<1>2. SumFunction(e) <= SumFunction(h)
  BY <1>1, FunSumLeq
<1>3. SumFunction(h) = SumFunction(f) - f[a] + h[a]
  BY <1>1, FunSumChanges
<1>4. SumFunction(e) \in Int /\ SumFunction(f) \in Int /\ f[a] \in Int
  BY FunSumIsInt
<1> QED  BY <1>1, <1>2, <1>3, <1>4

\* No entry is more than all together.
LEMMA FunSumCovers ==
  ASSUME NEW S, IsFiniteSet(S), NEW f \in [S -> Nat], NEW a \in S
  PROVE  f[a] <= SumFunction(f)
<1>1. SumFunctionOnSet(f, S) = f[a] + SumFunctionOnSet(f, S \ {a})
  BY SumTakes
<1>2. SumFunctionOnSet(f, S \ {a}) \in Nat
  <2>1. IsFiniteSet(S \ {a}) /\ \A x \in S \ {a} : f[x] \in Nat
    BY FS_RemoveElement
  <2> QED  BY <2>1, SumIsNat
<1> QED  BY <1>1, <1>2 DEF SumFunction

LEMMA FunSumOfBoth ==
  ASSUME NEW S, IsFiniteSet(S), NEW f \in [S -> Int], NEW e \in [S -> Int]
  PROVE  SumFunction([x \in S |-> f[x] + e[x]]) = SumFunction(f) + SumFunction(e)
<1> DEFINE h == [x \in S |-> f[x] + e[x]]
<1>1. DOMAIN h = S /\ \A x \in S : f[x] \in Int /\ e[x] \in Int /\ h[x] = f[x] + e[x]
  OBVIOUS
<1> HIDE DEF h
<1>2. SumFunctionOnSet(h, S) = SumFunctionOnSet(f, S) + SumFunctionOnSet(e, S)
  BY <1>1, SumOfBoth
<1> QED  BY <1>1, <1>2 DEF SumFunction, h

\* A balance that holds of each entry, with slack k, holds of the sums.
LEMMA FunSumBalance ==
  ASSUME NEW S, IsFiniteSet(S), NEW f \in [S -> Int], NEW e \in [S -> Int],
         NEW g \in [S -> Int], NEW h \in [S -> Int], NEW k \in [S -> Int],
         \A x \in S : f[x] + e[x] <= g[x] + h[x] + k[x]
  PROVE  SumFunction(f) + SumFunction(e) <= SumFunction(g) + SumFunction(h) + SumFunction(k)
<1> DEFINE a == [x \in S |-> f[x] + e[x]]
           b == [x \in S |-> g[x] + h[x]]
           c == [x \in S |-> b[x] + k[x]]
<1>1. a \in [S -> Int] /\ b \in [S -> Int] /\ c \in [S -> Int] /\ \A x \in S : a[x] <= c[x]
  OBVIOUS
<1>2. SumFunction(a) = SumFunction(f) + SumFunction(e)
  BY FunSumOfBoth
<1>3. SumFunction(b) = SumFunction(g) + SumFunction(h)
  BY FunSumOfBoth
<1>4. SumFunction(c) = SumFunction(b) + SumFunction(k)
  <2> HIDE DEF b
  <2> QED  BY <1>1, FunSumOfBoth
<1> HIDE DEF a, b, c
<1>5. SumFunction(a) <= SumFunction(c)
  BY <1>1, FunSumLeq
<1> QED  BY <1>2, <1>3, <1>4, <1>5

\* The entries that a function has outside T do not count if they are zero.
LEMMA FunSumOfPart ==
  ASSUME NEW S, IsFiniteSet(S), NEW T \in SUBSET S, NEW f \in [T -> Int], NEW e \in [S -> Int],
         \A x \in S : e[x] = IF x \in T THEN f[x] ELSE 0
  PROVE  SumFunction(e) = SumFunction(f)
<1> DEFINE Q == {U \in SUBSET (S \ T) : SumFunctionOnSet(e, T \cup U) = SumFunctionOnSet(e, T)}
<1>1. {} \in Q
  <2>1. T \cup {} = T
    OBVIOUS
  <2> QED  BY <2>1
<1>2. ASSUME NEW U \in SUBSET (S \ T), NEW x \in S \ T, U \in Q, x \notin U
      PROVE  U \cup {x} \in Q
  <2> DEFINE W == T \cup (U \cup {x})
  <2>1. W \subseteq S /\ x \in W /\ W \ {x} = T \cup U
    BY <1>2
  <2>2. IsFiniteSet(W) /\ \A y \in W : e[y] \in Int
    BY <2>1, FS_Subset
  <2> HIDE DEF W
  <2>3. SumFunctionOnSet(e, W) = e[x] + SumFunctionOnSet(e, W \ {x})
    BY <2>1, <2>2, SumTakes
  <2>4. SumFunctionOnSet(e, T) \in Int
    <3>1. IsFiniteSet(T) /\ \A y \in T : e[y] \in Int
      BY FS_Subset
    <3> QED  BY <3>1, SumTakes
  <2>5. SumFunctionOnSet(e, W) = SumFunctionOnSet(e, T)
    BY <1>2, <2>1, <2>3, <2>4
  <2> QED  BY <1>2, <2>5 DEF W
<1>3. S \ T \in Q
  <2>1. IsFiniteSet(S \ T)
    BY FS_Subset
  <2> HIDE DEF Q
  <2> QED  BY <1>1, <1>2, <2>1, ElementInduction
<1>4. SumFunctionOnSet(e, S) = SumFunctionOnSet(e, T)
  <2>1. T \cup (S \ T) = S
    OBVIOUS
  <2> QED  BY <1>3, <2>1
<1>5. SumFunctionOnSet(e, T) = SumFunctionOnSet(f, T)
  <2>1. IsFiniteSet(T) /\ \A x \in T : e[x] = f[x]
    BY FS_Subset
  <2> QED  BY <2>1, SumAgrees
<1> QED  BY <1>4, <1>5 DEF SumFunction

LEMMA FunSumOfOnes ==
  ASSUME NEW S, IsFiniteSet(S), NEW f, DOMAIN f = S, \A x \in S : f[x] = 1
  PROVE  SumFunction(f) = Cardinality(S)
<1> DEFINE Q == {T \in SUBSET S : SumFunctionOnSet(f, T) = Cardinality(T)}
<1>1. {} \in Q
  BY SumOfNone, FS_EmptySet
<1>2. ASSUME NEW T \in SUBSET S, NEW x \in S, T \in Q, x \notin T
      PROVE  T \cup {x} \in Q
  <2>1. IsFiniteSet(T) /\ SumFunctionOnSet(f, T) = Cardinality(T) /\ Cardinality(T) \in Nat
    BY <1>2, FS_Subset, FS_CardinalityType
  <2>2. IsFiniteSet(T \cup {x}) /\ Cardinality(T \cup {x}) = Cardinality(T) + 1
    BY <1>2, <2>1, FS_AddElement
  <2>3. (T \cup {x}) \ {x} = T /\ \A y \in T \cup {x} : f[y] = 1 /\ f[y] \in Int
    BY <1>2
  <2>4. SumFunctionOnSet(f, T \cup {x}) = f[x] + SumFunctionOnSet(f, (T \cup {x}) \ {x})
    BY <2>2, <2>3, SumTakes
  <2>5. SumFunctionOnSet(f, T \cup {x}) = Cardinality(T \cup {x})
    BY <2>1, <2>2, <2>3, <2>4
  <2> QED  BY <2>5
<1> HIDE DEF Q
<1>3. S \in Q
  BY <1>1, <1>2, ElementInduction
<1> QED  BY <1>3 DEF Q, SumFunction

-----------------------------------------------------------------------------
(* Sums over the positions of a sequence *)

\* The same numbers in other places.
LEMMA SumMoved ==
  ASSUME NEW S, IsFiniteSet(S), NEW T, NEW g \in [S -> T], IsInjective(g),
         \A y \in T : \E x \in S : g[x] = y,
         NEW f, NEW e, \A x \in S : f[g[x]] \in Int /\ e[x] = f[g[x]]
  PROVE  SumFunctionOnSet(e, S) = SumFunctionOnSet(f, T)
<1> DEFINE Img(U) == {g[x] : x \in U}
           Q == {U \in SUBSET S : /\ IsFiniteSet(Img(U))
                                  /\ SumFunctionOnSet(e, U) = SumFunctionOnSet(f, Img(U))}
<1>1. {} \in Q
  <2>1. Img({}) = {}
    OBVIOUS
  <2> QED  BY <2>1, SumOfNone, FS_EmptySet
<1>2. ASSUME NEW U \in SUBSET S, NEW x \in S, U \in Q, x \notin U PROVE U \cup {x} \in Q
  <2> DEFINE V == Img(U)
             W == Img(U \cup {x})
  <2>1. W = V \cup {g[x]} /\ g[x] \notin V
    BY <1>2 DEF IsInjective
  <2>2. IsFiniteSet(V) /\ SumFunctionOnSet(e, U) = SumFunctionOnSet(f, V)
    BY <1>2
  <2>3. (\A y \in U \cup {x} : e[y] \in Int) /\ (\A y \in W : f[y] \in Int) /\ e[x] = f[g[x]]
    OBVIOUS
  <2>4. IsFiniteSet(U \cup {x}) /\ (U \cup {x}) \ {x} = U
    BY <1>2, FS_Subset, FS_AddElement
  <2>5. SumFunctionOnSet(e, U \cup {x}) = e[x] + SumFunctionOnSet(e, (U \cup {x}) \ {x})
    BY <2>3, <2>4, SumTakes
  <2>6. IsFiniteSet(W) /\ SumFunctionOnSet(e, U \cup {x}) = SumFunctionOnSet(f, W)
    <3> HIDE DEF Img, V, W
    <3>1. IsFiniteSet(W) /\ W \ {g[x]} = V /\ g[x] \in W
      BY <2>1, <2>2, FS_AddElement
    <3>2. SumFunctionOnSet(f, W) = f[g[x]] + SumFunctionOnSet(f, W \ {g[x]})
      BY <2>3, <3>1, SumTakes
    <3> QED  BY <2>2, <2>3, <2>4, <2>5, <3>1, <3>2
  <2> QED  BY <2>6
<1>3. S \in Q
  <2> HIDE DEF Q
  <2> QED  BY <1>1, <1>2, ElementInduction
<1>4. Img(S) = T
  OBVIOUS
<1> QED  BY <1>3, <1>4

\* A sum over one element more, or less.
LEMMA SumAdds ==
  ASSUME NEW E, IsFiniteSet(E), NEW a \in E, NEW f, NEW e,
         \A x \in E : e[x] \in Int, \A x \in E \ {a} : e[x] = f[x]
  PROVE  SumFunctionOnSet(e, E) = e[a] + SumFunctionOnSet(f, E \ {a})
<1>1. SumFunctionOnSet(e, E) = e[a] + SumFunctionOnSet(e, E \ {a})
  BY SumTakes
<1>2. IsFiniteSet(E \ {a})
  BY FS_RemoveElement
<1>3. SumFunctionOnSet(e, E \ {a}) = SumFunctionOnSet(f, E \ {a})
  BY <1>2, SumAgrees
<1> QED  BY <1>1, <1>3

\* What the elements of a sequence weigh together.
SeqSum(w, s) == SumFunction([i \in DOMAIN s |-> w[s[i]]])

LEMMA SeqSumOfNone == \A w : SeqSum(w, <<>>) = 0
<1>1. ASSUME NEW w PROVE SeqSum(w, <<>>) = 0
  <2>1. DOMAIN [i \in DOMAIN <<>> |-> w[<<>>[i]]] = {}
    OBVIOUS
  <2> QED  BY <2>1, SumOfNone DEF SeqSum, SumFunction
<1> QED  BY <1>1

LEMMA SeqSumIsNat ==
  ASSUME NEW R, NEW w \in [R -> Nat], NEW s \in Seq(R)
  PROVE  SeqSum(w, s) \in Nat
<1>1. DOMAIN s = 1 .. Len(s) /\ IsFiniteSet(1 .. Len(s))
  BY FS_Interval
<1>2. [i \in DOMAIN s |-> w[s[i]]] \in [DOMAIN s -> Nat]
  OBVIOUS
<1> QED  BY <1>1, <1>2, FunSumIsNat DEF SeqSum

LEMMA SeqSumAppend ==
  ASSUME NEW R, NEW w \in [R -> Nat], NEW s \in Seq(R), NEW r \in R
  PROVE  SeqSum(w, Append(s, r)) = SeqSum(w, s) + w[r]
<1> DEFINE n == Len(s)
           D == 1 .. n
           E == 1 .. n + 1
           f == [i \in DOMAIN s |-> w[s[i]]]
           e == [i \in DOMAIN Append(s, r) |-> w[Append(s, r)[i]]]
<1>1. DOMAIN f = D /\ DOMAIN e = E
  OBVIOUS
<1>2. IsFiniteSet(D) /\ IsFiniteSet(E)
  BY FS_Interval
<1>3. (\A i \in D : e[i] = f[i]) /\ e[n + 1] = w[r] /\ \A i \in E : e[i] \in Int
  OBVIOUS
<1>4. E \ {n + 1} = D /\ n + 1 \in E
  OBVIOUS
<1>5. SumFunction(f) \in Nat /\ w[r] \in Nat
  BY SeqSumIsNat DEF SeqSum
<1>6. SumFunctionOnSet(e, E) = e[n + 1] + SumFunctionOnSet(f, E \ {n + 1})
  <2> DEFINE m == n + 1
  <2>1. m \in E /\ \A i \in E \ {m} : e[i] = f[i]
    BY <1>3, <1>4
  <2>2. \A i \in E : e[i] \in Int
    BY <1>3
  <2>3. SumFunctionOnSet(e, E) = e[m] + SumFunctionOnSet(f, E \ {m})
    <3> HIDE DEF m, D, E, f, e
    <3> QED  BY <1>2, <2>1, <2>2, SumAdds
  <2> QED  BY <2>3
<1>7. SumFunction(e) = SumFunction(f) + w[r]
  <2>1. e[n + 1] = w[r]
    BY <1>3
  <2>2. SumFunctionOnSet(e, E) = w[r] + SumFunctionOnSet(f, D)
    <3> HIDE DEF D, E, f, e, n
    <3> QED  BY <1>4, <1>6, <2>1, Zenon
  <2>3. SumFunction(e) = w[r] + SumFunction(f)
    <3> HIDE DEF D, E, f, e, n
    <3> QED  BY <1>1, <2>2, Zenon DEF SumFunction
  <2> HIDE DEF D, E, f, e, n
  <2> QED  BY <1>5, <2>3
<1> QED  BY <1>7 DEF SeqSum

LEMMA SeqSumTail ==
  ASSUME NEW R, NEW w \in [R -> Nat], NEW s \in Seq(R), s # <<>>
  PROVE  SeqSum(w, s) = w[Head(s)] + SeqSum(w, Tail(s))
<1> DEFINE n == Len(s)
           D == 1 .. n - 1
           E == 1 .. n
           f == [i \in DOMAIN s |-> w[s[i]]]
           e == [i \in DOMAIN Tail(s) |-> w[Tail(s)[i]]]
           g == [i \in D |-> i + 1]
<1>1. DOMAIN f = E /\ DOMAIN e = D /\ n \in Nat \ {0}
  OBVIOUS
<1>2. IsFiniteSet(D) /\ IsFiniteSet(E)
  BY <1>1, FS_Interval
<1>3. (\A i \in E : f[i] \in Int) /\ f[1] = w[Head(s)] /\ 1 \in E
  OBVIOUS
<1>4. \A i \in D : g[i] \in E /\ f[g[i]] \in Int /\ e[i] = f[g[i]]
  OBVIOUS
<1>5. g \in [D -> E \ {1}] /\ IsInjective(g)
  BY <1>1 DEF IsInjective
<1>6. \A j \in E \ {1} : \E i \in D : g[i] = j
  <2>1. ASSUME NEW j \in E \ {1} PROVE \E i \in D : g[i] = j
    <3>1. j - 1 \in D /\ g[j - 1] = j
      BY <1>1
    <3> QED  BY <3>1
  <2> QED  BY <2>1
<1>7. SumFunctionOnSet(e, D) = SumFunctionOnSet(f, E \ {1})
  <2>1. \A i \in D : f[g[i]] \in Int /\ e[i] = f[g[i]]
    BY <1>4
  <2>2. IsFiniteSet(D) /\ g \in [D -> E \ {1}] /\ IsInjective(g)
    BY <1>2, <1>5
  <2> HIDE DEF D, E, f, e, g
  <2> QED  BY <1>6, <2>1, <2>2, SumMoved
<1>8. SumFunctionOnSet(f, E) = f[1] + SumFunctionOnSet(f, E \ {1})
  <2> HIDE DEF D, E, f, e, g
  <2> QED  BY <1>2, <1>3, SumTakes
<1>9. SumFunction(f) = w[Head(s)] + SumFunction(e)
  <2> HIDE DEF D, E, f, e, g
  <2> QED  BY <1>1, <1>3, <1>7, <1>8 DEF SumFunction
<1> QED  BY <1>9 DEF SeqSum
==============================================================================
