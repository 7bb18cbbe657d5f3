----------------------------- MODULE SumLemmas -----------------------------
(***************************************************************************)
(* Induction over finite sets and sums of natural numbers.  The folds of   *)
(* the models (CalculateSubtotal, Units, UnitsIn, Ordered) are sums over a *)
(* finite set, taken out one chosen element at a time; the lemmas show     *)
(* that such a fold has a value, that the value is a natural number (or in *)
(* any set of integers that addition does not leave), and that it does not *)
(* depend on which element is chosen.                                      *)
(***************************************************************************)
EXTENDS Integers, FiniteSets, FiniteSetTheorems, TLAPS

-----------------------------------------------------------------------------
(* Induction, with the induction hypothesis as membership in a set         *)

\* A set that contains every subset of S whose proper subsets it contains
\* contains all subsets of S.
LEMMA SubsetInduction ==
    ASSUME NEW S, IsFiniteSet(S), NEW Q,
           \A T \in SUBSET S : (\A U \in SUBSET T : U # T => U \in Q) => T \in Q
    PROVE  \A T \in SUBSET S : T \in Q
<1> DEFINE Bad == {T \in SUBSET S : T \notin Q}
<1>1. SUFFICES ASSUME Bad # {} PROVE FALSE
    OBVIOUS
<1>2. IsWellFoundedOn(StrictSubsetOrdering(S), FiniteSubsetsOf(S))
    BY FS_StrictSubsetOrderingWellFounded
<1>3. Bad \subseteq FiniteSubsetsOf(S)
    BY FS_FiniteSubsetsOfFinite
<1> HIDE DEF Bad
<1>4. PICK x \in Bad : \A y \in Bad : <<y, x>> \notin StrictSubsetOrdering(S)
    BY <1>1, <1>2, <1>3, WFMin
<1> USE DEF Bad
<1>5. \A U \in SUBSET x : U # x => U \in Q
    BY <1>4 DEF StrictSubsetOrdering
<1> QED
    BY <1>4, <1>5

\* Naturals have a least one.
LEMMA LeastNatural ==
    ASSUME NEW N \in SUBSET Nat, N # {}
    PROVE  \E x \in N : \A y \in N : x <= y
<1>1. PICK x \in N : \A y \in N : <<y, x>> \notin OpToRel(<, Nat)
    BY NatLessThanWellFounded, WFMin
<1>2. \A y \in N : ~(y < x)
    BY <1>1 DEF OpToRel
<1> QED
    BY <1>2

\* A set with 0 and the successor of each of its naturals has them all.
LEMMA CountingUp ==
    ASSUME NEW Q, 0 \in Q, \A n \in Nat : n \in Q => n + 1 \in Q
    PROVE  \A n \in Nat : n \in Q
<1> DEFINE Bad == {n \in Nat : n \notin Q}
<1>1. SUFFICES ASSUME Bad # {} PROVE FALSE
    OBVIOUS
<1>2. Bad \in SUBSET Nat
    OBVIOUS
<1> HIDE DEF Bad
<1>3. PICK x \in Bad : \A y \in Bad : x <= y
    BY <1>1, <1>2, LeastNatural
<1> USE DEF Bad
<1>4. \A y \in Nat : y < x => y \in Q
    BY <1>3
<1>5. x \in Nat \ {0}
    BY <1>3
<1>6. x - 1 \in Nat /\ x - 1 < x /\ (x - 1) + 1 = x
    BY <1>5
<1> QED
    BY <1>3, <1>4, <1>6

-----------------------------------------------------------------------------
(* Sums                                                                    *)

\* How the folds choose the next element.
Chosen(s) == CHOOSE x \in s : TRUE

\* g sums the weights of every subset of S.
SumRule(g, w, S) ==
    g = [s \in SUBSET S |-> IF s = {} THEN 0 ELSE w[Chosen(s)] + g[s \ {Chosen(s)}]]

SumTable(w, S) == CHOOSE g : SumRule(g, w, S)

WeightOf(w, S) == SumTable(w, S)[S]

\* The subsets of S with at most n elements.
Small(S, n) == {s \in SUBSET S : Cardinality(s) <= n}

\* g sums the weights of every set of D, within M.
SumsOn(w, D, M) ==
    {g \in [D -> M] :
        g = [s \in D |-> IF s = {} THEN 0 ELSE w[Chosen(s)] + g[s \ {Chosen(s)}]]}

LEMMA SumsExist ==
    ASSUME NEW S, IsFiniteSet(S),
           NEW M, 0 \in M, \A a, b \in M : a + b \in M,
           NEW w, \A x \in S : w[x] \in M
    PROVE  SumsOn(w, SUBSET S, M) # {}
<1> DEFINE Q == {n \in Nat : SumsOn(w, Small(S, n), M) # {}}
<1>1. \A s \in SUBSET S : IsFiniteSet(s) /\ Cardinality(s) \in Nat
    BY FS_Subset, FS_CardinalityType
<1>2. 0 \in Q
  <2>1. Small(S, 0) = {{}}
      BY <1>1, FS_EmptySet DEF Small
  <2>2. [s \in {{}} |-> 0] \in SumsOn(w, {{}}, M)
      BY DEF SumsOn
  <2> QED
      BY <2>1, <2>2
<1>3. ASSUME NEW n \in Nat, n \in Q PROVE n + 1 \in Q
  <2> DEFINE D == Small(S, n)
             E == Small(S, n + 1)
  <2>1. PICK g \in [D -> M] :
           g = [s \in D |-> IF s = {} THEN 0 ELSE w[Chosen(s)] + g[s \ {Chosen(s)}]]
      BY <1>3 DEF SumsOn
  <2> DEFINE h == [s \in E |-> IF s = {} THEN 0 ELSE w[Chosen(s)] + g[s \ {Chosen(s)}]]
  <2>2. ASSUME NEW s \in E, s # {}
        PROVE  /\ Chosen(s) \in S
               /\ s \ {Chosen(s)} \in D
    <3>1. Chosen(s) \in s /\ s \in SUBSET S
        BY <2>2 DEF Chosen, Small
    <3>2. Cardinality(s \ {Chosen(s)}) = Cardinality(s) - 1
        BY <1>1, <3>1, FS_RemoveElement
    <3>3. Cardinality(s) <= n + 1 /\ Cardinality(s) \in Nat
        BY <1>1, <2>2 DEF Small
    <3> QED
        BY <3>1, <3>2, <3>3 DEF Small
  <2>3. D \subseteq E
    <3> SUFFICES ASSUME NEW s \in SUBSET S, Cardinality(s) <= n
                 PROVE  Cardinality(s) <= n + 1
        BY DEF Small
    <3> QED
        BY <1>1
  <2> HIDE DEF D, E
  <2>4. \A s \in D : h[s] = g[s]
      BY <2>1, <2>3
  <2>5. h \in [E -> M]
    <3> SUFFICES ASSUME NEW s \in E, s # {}
                 PROVE  w[Chosen(s)] + g[s \ {Chosen(s)}] \in M
        OBVIOUS
    <3>1. w[Chosen(s)] \in M /\ g[s \ {Chosen(s)}] \in M
        BY <2>1, <2>2
    <3> QED
        BY <3>1
  <2>6. \A s \in E : s # {} => g[s \ {Chosen(s)}] = h[s \ {Chosen(s)}]
      BY <2>2, <2>4
  <2>7. h = [s \in E |-> IF s = {} THEN 0 ELSE w[Chosen(s)] + h[s \ {Chosen(s)}]]
      BY <2>6
  <2> HIDE DEF h
  <2>8. h \in SumsOn(w, E, M)
      BY <2>5, <2>7 DEF SumsOn
  <2> QED
      BY <2>8 DEF E
<1> HIDE DEF Q
<1>4. Cardinality(S) \in Q
  <2>1. \A n \in Nat : n \in Q
      BY <1>2, <1>3, CountingUp
  <2> QED
      BY <2>1, <1>1
<1>5. Small(S, Cardinality(S)) = SUBSET S
  <2> SUFFICES ASSUME NEW s \in SUBSET S PROVE Cardinality(s) <= Cardinality(S)
      BY DEF Small
  <2> QED
      BY FS_Subset
<1> QED
    BY <1>4, <1>5 DEF Q

\* Two tables by one rule agree, whichever way round the rule adds.
LEMMA SumsCoincide ==
    ASSUME NEW S, IsFiniteSet(S), NEW w, \A x \in S : w[x] \in Int,
           NEW g \in [SUBSET S -> Int], SumRule(g, w, S),
           NEW f,
           \/ SumRule(f, w, S)
           \/ f = [s \in SUBSET S |-> IF s = {} THEN 0 ELSE f[s \ {Chosen(s)}] + w[Chosen(s)]]
    PROVE  f = g
<1> DEFINE Q == {s \in SUBSET S : f[s] = g[s]}
<1>1. ASSUME NEW T \in SUBSET S, \A U \in SUBSET T : U # T => U \in Q
      PROVE  T \in Q
  <2>1. CASE T = {}
      BY <2>1 DEF SumRule
  <2>2. CASE T # {}
    <3>1. Chosen(T) \in T
        BY <2>2 DEF Chosen
    <3>2. f[T \ {Chosen(T)}] = g[T \ {Chosen(T)}]
        BY <1>1, <3>1
    <3>3. g[T \ {Chosen(T)}] \in Int /\ w[Chosen(T)] \in Int
        BY <3>1
    <3>4. g[T] = w[Chosen(T)] + g[T \ {Chosen(T)}]
        BY <2>2 DEF SumRule
    <3>5. \/ f[T] = w[Chosen(T)] + f[T \ {Chosen(T)}]
          \/ f[T] = f[T \ {Chosen(T)}] + w[Chosen(T)]
        BY <2>2 DEF SumRule
    <3> QED
        BY <3>2, <3>3, <3>4, <3>5
  <2> QED
      BY <2>1, <2>2
<1> HIDE DEF Q
<1>2. \A T \in SUBSET S : T \in Q
    BY <1>1, SubsetInduction
<1>3. f = [s \in SUBSET S |-> f[s]] /\ g = [s \in SUBSET S |-> g[s]]
    BY DEF SumRule
<1> QED
    BY <1>2, <1>3 DEF Q

LEMMA SumsAreOne ==
    ASSUME NEW S, IsFiniteSet(S), NEW w, \A x \in S : w[x] \in Nat,
           NEW g \in [SUBSET S -> Nat], SumRule(g, w, S),
           NEW f,
           \/ SumRule(f, w, S)
           \/ f = [s \in SUBSET S |-> IF s = {} THEN 0 ELSE f[s \ {Chosen(s)}] + w[Chosen(s)]]
    PROVE  f = g
<1>1. g \in [SUBSET S -> Int] /\ \A x \in S : w[x] \in Int
    OBVIOUS
<1> QED
    BY <1>1, SumsCoincide

\* What addition does not leave, sums do not leave.
LEMMA SumTableIn ==
    ASSUME NEW S, IsFiniteSet(S),
           NEW M \in SUBSET Int, 0 \in M, \A a, b \in M : a + b \in M,
           NEW w, \A x \in S : w[x] \in M
    PROVE  /\ SumTable(w, S) \in [SUBSET S -> M]
           /\ SumRule(SumTable(w, S), w, S)
<1>1. PICK g \in [SUBSET S -> M] : SumRule(g, w, S)
  <2>1. PICK g \in SumsOn(w, SUBSET S, M) : TRUE
      BY SumsExist
  <2> QED
      BY <2>1 DEF SumsOn, SumRule
<1>2. SumRule(SumTable(w, S), w, S)
    BY <1>1 DEF SumTable
<1>3. g \in [SUBSET S -> Int] /\ \A x \in S : w[x] \in Int
    BY <1>1
<1>4. SumTable(w, S) = g
    BY <1>1, <1>2, <1>3, SumsCoincide
<1> QED
    BY <1>1, <1>4

LEMMA SumTableOK ==
    ASSUME NEW S, IsFiniteSet(S), NEW w, \A x \in S : w[x] \in Nat
    PROVE  /\ SumTable(w, S) \in [SUBSET S -> Nat]
           /\ SumRule(SumTable(w, S), w, S)
<1>1. Nat \in SUBSET Int /\ 0 \in Nat /\ \A a, b \in Nat : a + b \in Nat
    OBVIOUS
<1> QED
    BY <1>1, SumTableIn

\* A sum of naturals is a natural.
LEMMA SumType ==
    ASSUME NEW S, IsFiniteSet(S), NEW w, \A x \in S : w[x] \in Nat
    PROVE  WeightOf(w, S) \in Nat
BY SumTableOK DEF WeightOf

\* The table of a set gives the sum of each of its subsets.
LEMMA SumOfSubset ==
    ASSUME NEW S, IsFiniteSet(S), NEW w, \A x \in S : w[x] \in Nat,
           NEW T \in SUBSET S
    PROVE  SumTable(w, S)[T] = WeightOf(w, T)
<1> DEFINE g == SumTable(w, S)
           f == [s \in SUBSET T |-> g[s]]
<1>1. g \in [SUBSET S -> Nat] /\ SumRule(g, w, S)
    BY SumTableOK
<1>2. IsFiniteSet(T) /\ \A x \in T : w[x] \in Nat
    BY FS_Subset
<1> HIDE DEF g
<1>3. \A s \in SUBSET T : s # {} => s \ {Chosen(s)} \in SUBSET T
    OBVIOUS
<1>4. \A s \in SUBSET T : f[s] = IF s = {} THEN 0 ELSE w[Chosen(s)] + f[s \ {Chosen(s)}]
    BY <1>1, <1>3 DEF SumRule
<1>5. SumRule(f, w, T)
    BY <1>4 DEF SumRule
<1>6. SumTable(w, T) \in [SUBSET T -> Nat] /\ SumRule(SumTable(w, T), w, T)
    BY <1>2, SumTableOK
<1> HIDE DEF f
<1>7. f = SumTable(w, T)
    BY <1>2, <1>5, <1>6, SumsAreOne
<1> QED
    BY <1>7 DEF f, g, WeightOf

LEMMA SumUnrolled ==
    ASSUME NEW S, IsFiniteSet(S), NEW w, \A x \in S : w[x] \in Nat
    PROVE  /\ S = {} => WeightOf(w, S) = 0
           /\ S # {} => /\ Chosen(S) \in S
                        /\ WeightOf(w, S) = w[Chosen(S)] + WeightOf(w, S \ {Chosen(S)})
<1>1. SumRule(SumTable(w, S), w, S)
    BY SumTableOK
<1>2. SumTable(w, S)[S \ {Chosen(S)}] = WeightOf(w, S \ {Chosen(S)})
    BY SumOfSubset
<1> QED
    BY <1>1, <1>2 DEF SumRule, WeightOf, Chosen

\* Any element can be taken out first.
LEMMA SumTakesOut ==
    ASSUME NEW S, IsFiniteSet(S), NEW w, \A x \in S : w[x] \in Nat,
           NEW x \in S
    PROVE  WeightOf(w, S) = w[x] + WeightOf(w, S \ {x})
<1> DEFINE Q == {T \in SUBSET S : \A y \in T : WeightOf(w, T) = w[y] + WeightOf(w, T \ {y})}
<1>1. ASSUME NEW T \in SUBSET S, \A U \in SUBSET T : U # T => U \in Q
      PROVE  T \in Q
  <2> SUFFICES ASSUME NEW y \in T
               PROVE  WeightOf(w, T) = w[y] + WeightOf(w, T \ {y})
      OBVIOUS
  <2> DEFINE a == Chosen(T)
  <2>1. IsFiniteSet(T) /\ (\A z \in T : w[z] \in Nat)
      BY FS_Subset
  <2>2. a \in T /\ WeightOf(w, T) = w[a] + WeightOf(w, T \ {a})
      BY <2>1, SumUnrolled
  <2> HIDE DEF a
  <2>3. CASE y = a
      BY <2>2, <2>3
  <2>4. CASE y # a
    <3>1. T \ {a} \in Q /\ y \in T \ {a}
        BY <1>1, <2>2, <2>4
    <3>2. T \ {y} \in Q /\ a \in T \ {y}
        BY <1>1, <2>2, <2>4
    <3>3. WeightOf(w, T \ {a}) = w[y] + WeightOf(w, (T \ {a}) \ {y})
        BY <3>1
    <3>4. WeightOf(w, T \ {y}) = w[a] + WeightOf(w, (T \ {y}) \ {a})
        BY <3>2
    <3>5. (T \ {a}) \ {y} = (T \ {y}) \ {a}
        OBVIOUS
    <3>6. WeightOf(w, (T \ {y}) \ {a}) \in Nat
      <4>1. IsFiniteSet((T \ {y}) \ {a}) /\ (\A z \in (T \ {y}) \ {a} : w[z] \in Nat)
          BY <2>1, FS_Subset
      <4> QED
          BY <4>1, SumType
    <3>7. PICK n \in Nat : n = WeightOf(w, (T \ {y}) \ {a})
        BY <3>6
    <3>8. PICK wa \in Nat, wy \in Nat : wa = w[a] /\ wy = w[y]
        BY <2>1, <2>2
    <3>9. WeightOf(w, T \ {a}) = wy + n /\ WeightOf(w, T \ {y}) = wa + n
        BY <3>3, <3>4, <3>5, <3>7, <3>8
    <3>10. WeightOf(w, T) = wa + (wy + n)
        BY <2>2, <3>8, <3>9
    <3>11. wa + (wy + n) = wy + (wa + n)
        OBVIOUS
    <3> QED
        BY <3>8, <3>9, <3>10, <3>11
  <2> QED
      BY <2>3, <2>4
<1> HIDE DEF Q
<1>2. S \in Q
    BY <1>1, SubsetInduction
<1> QED
    BY <1>2 DEF Q

\* Raising weights does not lower the sum.
LEMMA SumMonotone ==
    ASSUME NEW S, IsFiniteSet(S),
           NEW w, \A x \in S : w[x] \in Nat,
           NEW v, \A x \in S : v[x] \in Nat /\ w[x] <= v[x]
    PROVE  WeightOf(w, S) <= WeightOf(v, S)
<1> DEFINE Q == {T \in SUBSET S : WeightOf(w, T) <= WeightOf(v, T)}
<1>1. ASSUME NEW T \in SUBSET S, \A U \in SUBSET T : U # T => U \in Q
      PROVE  T \in Q
  <2>1. IsFiniteSet(T) /\ (\A z \in T : w[z] \in Nat /\ v[z] \in Nat /\ w[z] <= v[z])
      BY FS_Subset
  <2>2. CASE T = {}
    <3>1. WeightOf(w, T) = 0 /\ WeightOf(v, T) = 0
        BY <2>1, <2>2, SumUnrolled
    <3> QED
        BY <3>1
  <2>3. CASE T # {}
    <3> DEFINE a == Chosen(T)
    <3>1. /\ a \in T
          /\ WeightOf(w, T) = w[a] + WeightOf(w, T \ {a})
          /\ WeightOf(v, T) = v[a] + WeightOf(v, T \ {a})
        BY <2>1, <2>3, SumUnrolled
    <3> HIDE DEF a
    <3>2. WeightOf(w, T \ {a}) <= WeightOf(v, T \ {a})
        BY <1>1, <3>1
    <3>3. WeightOf(w, T \ {a}) \in Nat /\ WeightOf(v, T \ {a}) \in Nat
      <4>1. IsFiniteSet(T \ {a}) /\ (\A z \in T \ {a} : w[z] \in Nat /\ v[z] \in Nat)
          BY <2>1, FS_Subset
      <4> QED
          BY <4>1, SumType
    <3>4. w[a] \in Nat /\ v[a] \in Nat /\ w[a] <= v[a]
        BY <2>1, <3>1
    <3> QED
        BY <3>1, <3>2, <3>3, <3>4
  <2> QED
      BY <2>2, <2>3
<1> HIDE DEF Q
<1>2. S \in Q
    BY <1>1, SubsetInduction
<1> QED
    BY <1>2 DEF Q

LEMMA SumAgrees ==
    ASSUME NEW S, IsFiniteSet(S),
           NEW w, \A x \in S : w[x] \in Nat,
           NEW v, \A x \in S : v[x] = w[x]
    PROVE  WeightOf(w, S) = WeightOf(v, S)
<1>1. \A x \in S : v[x] \in Nat /\ w[x] <= v[x] /\ v[x] <= w[x]
  <2> SUFFICES ASSUME NEW x \in S PROVE v[x] \in Nat /\ w[x] <= v[x] /\ v[x] <= w[x]
      OBVIOUS
  <2>1. w[x] \in Nat /\ v[x] = w[x]
      OBVIOUS
  <2> QED
      BY <2>1
<1>2. WeightOf(w, S) <= WeightOf(v, S) /\ WeightOf(v, S) <= WeightOf(w, S)
    BY <1>1, SumMonotone
<1>3. WeightOf(w, S) \in Nat /\ WeightOf(v, S) \in Nat
    BY <1>1, SumType
<1> QED
    BY <1>2, <1>3

\* A part weighs no more than the whole.
LEMMA SumOfPart ==
    ASSUME NEW S, IsFiniteSet(S), NEW w, \A x \in S : w[x] \in Nat,
           NEW T \in SUBSET S
    PROVE  WeightOf(w, T) <= WeightOf(w, S)
<1> DEFINE Q == {V \in SUBSET S : T \subseteq V => WeightOf(w, T) <= WeightOf(w, V)}
<1>1. ASSUME NEW V \in SUBSET S, \A U \in SUBSET V : U # V => U \in Q
      PROVE  V \in Q
  <2> SUFFICES ASSUME T \subseteq V PROVE WeightOf(w, T) <= WeightOf(w, V)
      OBVIOUS
  <2>1. /\ IsFiniteSet(V) /\ (\A z \in V : w[z] \in Nat)
        /\ IsFiniteSet(T) /\ (\A z \in T : w[z] \in Nat)
      BY FS_Subset
  <2>2. WeightOf(w, T) \in Nat
      BY <2>1, SumType
  <2>3. CASE T = V
      BY <2>2, <2>3
  <2>4. CASE T # V
    <3>1. PICK a \in V : a \notin T
        BY <2>4
    <3>2. WeightOf(w, V) = w[a] + WeightOf(w, V \ {a})
        BY <2>1, SumTakesOut
    <3>3. WeightOf(w, T) <= WeightOf(w, V \ {a})
        BY <1>1, <3>1
    <3>4. WeightOf(w, V \ {a}) \in Nat /\ w[a] \in Nat
      <4>1. IsFiniteSet(V \ {a}) /\ (\A z \in V \ {a} : w[z] \in Nat)
          BY <2>1, FS_Subset
      <4> QED
          BY <4>1, <2>1, SumType
    <3> QED
        BY <2>2, <3>2, <3>3, <3>4
  <2> QED
      BY <2>3, <2>4
<1> HIDE DEF Q
<1>2. S \in Q
    BY <1>1, SubsetInduction
<1> QED
    BY <1>2 DEF Q

\* What raises one weight by n raises the sum by n.
LEMMA SumRaised ==
    ASSUME NEW S, IsFiniteSet(S), NEW w, \A x \in S : w[x] \in Nat,
           NEW a \in S, NEW n \in Nat,
           NEW v, v[a] = w[a] + n, \A x \in S : x # a => v[x] = w[x]
    PROVE  WeightOf(v, S) = WeightOf(w, S) + n
<1>1. w[a] \in Nat /\ v[a] \in Nat
    OBVIOUS
<1>2. \A x \in S : v[x] \in Nat
    BY <1>1
<1>3. WeightOf(w, S) = w[a] + WeightOf(w, S \ {a})
    BY SumTakesOut
<1>4. WeightOf(v, S) = v[a] + WeightOf(v, S \ {a})
    BY <1>2, SumTakesOut
<1>5. IsFiniteSet(S \ {a}) /\ (\A z \in S \ {a} : w[z] \in Nat /\ v[z] = w[z])
    BY FS_Subset
<1>6. WeightOf(w, S \ {a}) = WeightOf(v, S \ {a}) /\ WeightOf(w, S \ {a}) \in Nat
    BY <1>5, SumAgrees, SumType
<1> QED
    BY <1>1, <1>3, <1>4, <1>6
=============================================================================
