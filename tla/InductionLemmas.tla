---------------------------- MODULE InductionLemmas ----------------------------
(***************************************************************************)
(* What the proofs of the other modules need about counting and about       *)
(* functions defined by recursion over the natural numbers.                 *)
(***************************************************************************)
EXTENDS Naturals, FiniteSets, FiniteSetTheorems, WellFoundedInduction, TLAPS

(* Among finite sets one has no other of them inside: what is followed by a  *)
(* walk through a table of the kernel has an end.                            *)
LEMMA SmallestSet ==
  ASSUME NEW S, NEW U, U \subseteq FiniteSubsetsOf(S), U # {}
  PROVE  \E X \in U : \A Y \in U : ~(Y \subseteq X /\ Y # X)
<1>1. IsWellFoundedOn(StrictSubsetOrdering(S), FiniteSubsetsOf(S))
  BY FS_StrictSubsetOrderingWellFounded
<1>2. PICK X \in U : \A Y \in U : <<Y, X>> \notin StrictSubsetOrdering(S)
  BY ONLY <1>1, WFMin, U \subseteq FiniteSubsetsOf(S), U # {}, Zenon
<1>3. ASSUME NEW Y \in U, Y \subseteq X, Y # X
      PROVE  FALSE
  <2>1. <<Y, X>> \in (SUBSET S) \X (SUBSET S)
    BY DEF FiniteSubsetsOf
  <2>2. <<Y, X>>[1] \subseteq <<Y, X>>[2] /\ <<Y, X>>[1] # <<Y, X>>[2]
    BY <1>3
  <2> QED
    BY <1>2, <2>1, <2>2 DEF StrictSubsetOrdering
<1> QED
  BY <1>3

(* Induction over the numbers that count the steps of a walk: among numbers  *)
(* one is the least.                                                         *)
LEMMA LeastNumber ==
  ASSUME NEW T, T \subseteq Nat, T # {}
  PROVE  \E n \in T : \A m \in T : ~(m < n)
<1> DEFINE Below(n) == 0 .. n - 1
<1> DEFINE U == {Below(n) : n \in T}
<1>1. \A n \in Nat : IsFiniteSet(Below(n)) /\ Below(n) \subseteq Nat
  <2>1. TAKE n \in Nat
  <2>2. 0 \in Int /\ n - 1 \in Int
    OBVIOUS
  <2> QED
    BY <2>2, FS_Interval
<1>2. U \subseteq FiniteSubsetsOf(Nat) /\ U # {}
  <2> HIDE DEF Below
  <2> QED
    BY <1>1 DEF FiniteSubsetsOf
<1>3. PICK X \in U : \A Y \in U : ~(Y \subseteq X /\ Y # X)
  <2> HIDE DEF U
  <2> QED
    BY <1>2, SmallestSet
<1>4. PICK n \in T : X = Below(n)
  BY <1>3
<1>5. ASSUME NEW m \in T, m < n
      PROVE  FALSE
  <2>1. n \in Nat /\ m \in Nat
    OBVIOUS
  <2>2. Below(m) \subseteq Below(n) /\ m \in Below(n) /\ m \notin Below(m)
    BY <1>5, <2>1
  <2> QED
    BY <2>2, <1>3, <1>4
<1> QED
  BY <1>5

(* What holds at first and is kept by each step holds after any number.      *)
LEMMA Climbing ==
  ASSUME NEW N \in Nat, NEW T, 0 \in T, \A n \in 1 .. N : n - 1 \in T => n \in T
  PROVE  0 .. N \subseteq T
<1> DEFINE U == {n \in 0 .. N : n \notin T}
<1>1. SUFFICES ASSUME U # {} PROVE FALSE
  OBVIOUS
<1>2. PICK n \in U : \A m \in U : ~(m < n)
  <2>1. U \subseteq Nat
    OBVIOUS
  <2> HIDE DEF U
  <2> QED
    BY <1>1, <2>1, LeastNumber
<1>3. n \in 1 .. N
  BY <1>2
<1>4. n - 1 \in 0 .. N /\ n - 1 < n
  BY <1>3
<1>5. n - 1 \in T
  BY <1>2, <1>4
<1> QED
  BY <1>2, <1>3, <1>5

(* A value that is computed from the one before it exists after any number   *)
(* of steps: the recursive functions of the models are well defined.         *)
Iterates(f, G, v, N) == f[0] = v /\ \A n \in 1 .. N : f[n] = G[f[n - 1]]

(* A map can be iterated any number of times from a start.                   *)
LEMMA IterationExists ==
  ASSUME NEW V, NEW G, NEW v \in V, NEW N \in Nat, G \in [V -> V]
  PROVE  \E f \in [0 .. N -> V] : Iterates(f, G, v, N)
<1> USE DEF Iterates
<1> DEFINE Upto(m) == \E f \in [0 .. m -> V] : f[0] = v /\ \A n \in 1 .. m : f[n] = G[f[n - 1]]
<1> DEFINE T == {m \in Nat : ~Upto(m)}
<1>1. SUFFICES ASSUME T # {} PROVE FALSE
  OBVIOUS
<1>2. PICK m \in T : \A k \in T : ~(k < m)
  <2> HIDE DEF Upto
  <2>1. T \subseteq Nat
    OBVIOUS
  <2> HIDE DEF T
  <2> QED
    BY <1>1, <2>1, LeastNumber
<1>3. CASE m = 0
  <2> DEFINE f == [i \in 0 .. 0 |-> v]
  <2>1. f \in [0 .. 0 -> V] /\ f[0] = v /\ \A n \in 1 .. 0 : f[n] = G[f[n - 1]]
    OBVIOUS
  <2> QED
    BY <1>2, <1>3, <2>1
<1>4. CASE m # 0
  <2>1. m - 1 \in Nat /\ m - 1 < m
    BY <1>2, <1>4
  <2>2. Upto(m - 1)
    <3> HIDE DEF Upto
    <3> QED
      BY <1>2, <2>1
  <2>3. PICK f \in [0 .. m - 1 -> V] : f[0] = v /\ \A n \in 1 .. m - 1 : f[n] = G[f[n - 1]]
    BY <2>2
  <2> DEFINE g == [i \in 0 .. m |-> IF i = m THEN G[f[m - 1]] ELSE f[i]]
  <2>4. g \in [0 .. m -> V] /\ g[0] = v
    BY <2>1, <2>3
  <2>5. ASSUME NEW n \in 1 .. m PROVE g[n] = G[g[n - 1]]
    BY <2>1, <2>3
  <2> QED
    BY <1>2, <2>4, <2>5
<1> QED
  BY <1>3, <1>4

(* A function that a model defines by recursion from v on, each value from   *)
(* the one before it, has the values and the type one expects.               *)
Iteration(G, v, N) == CHOOSE h : h = [n \in 0 .. N |-> IF n = 0 THEN v ELSE G[h[n - 1]]]

(* So what CHOOSE takes is such an iteration.                                *)
LEMMA IterationValue ==
  ASSUME NEW V, NEW G, NEW v \in V, NEW N \in Nat, G \in [V -> V]
  PROVE  Iteration(G, v, N) \in [0 .. N -> V] /\ Iterates(Iteration(G, v, N), G, v, N)
<1> DEFINE Is(h) == h = [n \in 0 .. N |-> IF n = 0 THEN v ELSE G[h[n - 1]]]
           f == Iteration(G, v, N)
<1>0. PICK g \in [0 .. N -> V] : Iterates(g, G, v, N)
  BY IterationExists
<1>1. g[0] = v /\ \A n \in 1 .. N : g[n] = G[g[n - 1]]
  BY <1>0 DEF Iterates
<1>2. Is(g)
  <2> DEFINE h == [n \in 0 .. N |-> IF n = 0 THEN v ELSE G[g[n - 1]]]
  <2>1. \A n \in 0 .. N : g[n] = h[n]
    BY <1>1
  <2> QED
    BY <2>1
<1>3. f = CHOOSE h : Is(h)
  BY DEF Iteration
<1> HIDE DEF f
<1>4. Is(f)
  <2> HIDE DEF Is
  <2> QED
    BY <1>2, <1>3
<1>5. \A n \in 0 .. N : f[n] = IF n = 0 THEN v ELSE G[f[n - 1]]
  BY <1>4
<1> DEFINE T == {n \in 0 .. N : f[n] # g[n]}
<1>6. T = {}
  <2>1. SUFFICES ASSUME T # {} PROVE FALSE
    OBVIOUS
  <2>2. PICK n \in T : \A m \in T : ~(m < n)
    <3>1. T \subseteq Nat
      OBVIOUS
    <3> HIDE DEF T
    <3> QED
      BY <2>1, <3>1, LeastNumber
  <2>3. n # 0
    BY <1>1, <1>5, <2>2
  <2>4. f[n - 1] = g[n - 1]
    BY <2>2, <2>3
  <2> QED
    BY <1>1, <1>5, <2>2, <2>3, <2>4
<1>7. f = g
  <2>1. DOMAIN f = 0 .. N /\ f = [n \in 0 .. N |-> f[n]]
    BY <1>4
  <2> QED
    BY <1>1, <1>6, <2>1
<1> QED
  BY <1>0, <1>7 DEF f

(* The same, where a step depends on its number.                             *)
Numbered(f, G, v, N) == f[0] = v /\ \A n \in 1 .. N : f[n] = G[n][f[n - 1]]

(* The same for a loop whose rounds differ: the n-th applies G[n].           *)
LEMMA NumberedIteration ==
  ASSUME NEW V, NEW v \in V, NEW N \in Nat, NEW G \in [1 .. N -> [V -> V]]
  PROVE  \E f \in [0 .. N -> V] : Numbered(f, G, v, N)
<1> DEFINE Upto(m) == \E f \in [0 .. m -> V] : f[0] = v /\ \A n \in 1 .. m : f[n] = G[n][f[n - 1]]
           T == {m \in 0 .. N : Upto(m)}
<1>1. 0 \in T
  <2> DEFINE f == [i \in 0 .. 0 |-> v]
  <2>1. f \in [0 .. 0 -> V] /\ f[0] = v /\ \A n \in 1 .. 0 : f[n] = G[n][f[n - 1]]
    OBVIOUS
  <2>2. Upto(0)
    BY <2>1
  <2> QED
    BY <2>2
<1>2. ASSUME NEW m \in 1 .. N, m - 1 \in T
      PROVE  m \in T
  <2>1. PICK f \in [0 .. m - 1 -> V] : f[0] = v /\ \A n \in 1 .. m - 1 : f[n] = G[n][f[n - 1]]
    BY <1>2
  <2> DEFINE g == [i \in 0 .. m |-> IF i = m THEN G[m][f[m - 1]] ELSE f[i]]
  <2>2. g \in [0 .. m -> V] /\ g[0] = v
    BY <2>1
  <2>3. ASSUME NEW n \in 1 .. m PROVE g[n] = G[n][g[n - 1]]
    BY <2>1
  <2>4. Upto(m)
    BY <2>2, <2>3
  <2> QED
    BY <2>4
<1>3. 0 .. N \subseteq T
  <2> HIDE DEF T
  <2> QED
    BY <1>1, <1>2, Climbing
<1>4. Upto(N)
  <2> HIDE DEF Upto
  <2> QED
    BY <1>3
<1> QED
  BY <1>4 DEF Numbered

(* A set that counts one at most has no two members.                         *)
LEMMA OnlyOne ==
  ASSUME NEW S, IsFiniteSet(S), Cardinality(S) <= 1, NEW u \in S, NEW v \in S
  PROVE  v = u
<1>1. IsFiniteSet(S \ {u}) /\ Cardinality(S \ {u}) = Cardinality(S) - 1
  BY FS_RemoveElement
<1>2. Cardinality(S) \in Nat /\ Cardinality(S \ {u}) \in Nat
  BY <1>1, FS_CardinalityType
<1>3. Cardinality(S \ {u}) = 0
  BY <1>1, <1>2
<1>4. S \ {u} = {}
  BY <1>1, <1>3, FS_EmptySet
<1> QED
  BY <1>4

(* A table maps a set onto at most as many values.                           *)
LEMMA ImageBound ==
  ASSUME NEW S, IsFiniteSet(S), NEW h
  PROVE  IsFiniteSet({h[x] : x \in S}) /\ Cardinality({h[x] : x \in S}) <= Cardinality(S)
<1> DEFINE T == {h[x] : x \in S}
           f == [x \in S |-> h[x]]
<1>1. f \in Surjection(S, T)
  BY DEF Surjection
<1> HIDE DEF f, T
<1>2. IsFiniteSet(T) /\ Cardinality(T) <= Cardinality(S)
  BY <1>1, FS_Surjection
<1> QED
  BY <1>2 DEF T
================================================================================
