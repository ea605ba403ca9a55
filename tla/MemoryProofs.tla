----------------------------- MODULE MemoryProofs -----------------------------
(***************************************************************************)
(* Proofs about Memory.tla, for any number of tasks, pages, page tables and *)
(* entries: what uses a page, and that the count of it in mem_map is right. *)
(*                                                                          *)
(* A place is where a page may be entered: in a page table, in the page     *)
(* directory, in task[], among the arguments of an execve.  What the        *)
(* functions of memory.c do is first said of places alone.                  *)
(*                                                                          *)
(* Then what programs see of it: each task has a memory of its own.         *)
(***************************************************************************)
EXTENDS Memory, InductionLemmas

ArgNr == 1 .. MAX_ARG_PAGES

Pte(t, d, e) == <<"pte", t, d, e>>
DirP(t, d) == <<"dir", t, d, 0>>
Tss(t) == <<"tss", t, 0, 0>>
Arg(t, i) == <<"arg", t, i, 0>>

Ptes == {"pte"} \X Task \X Dir \X Entry
Dirs == {"dir"} \X Task \X Dir \X {0}
Tsses == {"tss"} \X Task \X {0} \X {0}
Args == {"arg"} \X Task \X ArgNr \X {0}
Place == Ptes \union Dirs \union Tsses \union Args

(* The places where f has p; enough are counted, and a page that one of W    *)
(* has is nowhere else.                                                      *)
Of(D, f, p) == {u \in D : f[u] = p}
Users(f, p) == Of(Place, f, p)
Backed(f, map) == \A p \in Paged : Cardinality(Users(f, p)) <= map[p]
Alone(f, W) == \A u \in W, v \in Place : f[u] \in Paged /\ f[v] = f[u] => v = u

-----------------------------------------------------------------------------
(* There are finitely many places.                                           *)
LEMMA PlacesFinite ==
  /\ IsFiniteSet(Ptes) /\ IsFiniteSet(Dirs) /\ IsFiniteSet(Tsses) /\ IsFiniteSet(Args)
  /\ IsFiniteSet(Place)
<1>1. IsFiniteSet(Task) /\ IsFiniteSet(Dir) /\ IsFiniteSet(Entry) /\ IsFiniteSet(ArgNr)
  <2>1. 0 \in Int /\ 1 \in Int /\ NR_TASKS - 1 \in Int /\ NrTables - 1 \in Int
          /\ NrEntries - 1 \in Int /\ MAX_ARG_PAGES \in Int
    BY MemoryAssumption
  <2> QED
    BY <2>1, FS_Interval DEF Task, Dir, Entry, ArgNr
<1>2. IsFiniteSet({"pte"}) /\ IsFiniteSet({"dir"}) /\ IsFiniteSet({"tss"}) /\ IsFiniteSet({"arg"})
        /\ IsFiniteSet({0})
  BY FS_Singleton
<1> DEFINE Flat(k, D, E) == k \X Task \X D \X E
<1>3. ASSUME NEW k, NEW D, NEW E, IsFiniteSet(k), IsFiniteSet(D), IsFiniteSet(E)
      PROVE  IsFiniteSet(Flat(k, D, E))
  <2> DEFINE A == (k \X Task) \X (D \X E)
             h == [u \in A |-> <<u[1][1], u[1][2], u[2][1], u[2][2]>>]
  <2>1. IsFiniteSet(k \X Task) /\ IsFiniteSet(D \X E)
    BY <1>1, <1>3, FS_Product
  <2>2. IsFiniteSet(A)
    BY <2>1, FS_Product
  <2>3. h \in Surjection(A, Flat(k, D, E))
    <3>1. h \in [A -> Flat(k, D, E)]
      OBVIOUS
    <3>2. ASSUME NEW a \in k, NEW b \in Task, NEW c \in D, NEW d \in E
          PROVE  \E u \in A : h[u] = <<a, b, c, d>>
      <4>1. << <<a, b>>, <<c, d>> >> \in A
        OBVIOUS
      <4>2. h[<< <<a, b>>, <<c, d>> >>] = <<a, b, c, d>>
        BY <4>1
      <4> QED
        BY <4>1, <4>2
    <3>3. ASSUME NEW w \in Flat(k, D, E)
          PROVE  \E u \in A : h[u] = w
      <4> HIDE DEF A, h
      <4>1. PICK a \in k, b \in Task, c \in D, d \in E : w = <<a, b, c, d>>
        OBVIOUS
      <4> QED
        BY <3>2, <4>1
    <3> QED
      BY <3>1, <3>3 DEF Surjection
  <2> HIDE DEF A, h, Flat
  <2> QED
    BY <2>2, <2>3, FS_Surjection
<1>4. IsFiniteSet(Ptes) /\ IsFiniteSet(Dirs) /\ IsFiniteSet(Tsses) /\ IsFiniteSet(Args)
  <2>1. Ptes = Flat({"pte"}, Dir, Entry) /\ Dirs = Flat({"dir"}, Dir, {0})
          /\ Tsses = Flat({"tss"}, {0}, {0}) /\ Args = Flat({"arg"}, ArgNr, {0})
    BY DEF Ptes, Dirs, Tsses, Args
  <2> HIDE DEF Flat
  <2> QED
    BY <1>1, <1>2, <1>3, <2>1
<1> QED
  BY <1>4, FS_Union DEF Place

(* So the users of a page can be counted.                                    *)
LEMMA UsersFinite ==
  ASSUME NEW f, NEW p
  PROVE  IsFiniteSet(Users(f, p)) /\ Cardinality(Users(f, p)) \in Nat
BY PlacesFinite, FS_Subset, FS_CardinalityType DEF Users, Of

(* Where something is only taken out, nothing has to be counted.             *)
LEMMA Dropped ==
  ASSUME NEW f, NEW g, NEW map \in [Paged -> Nat], NEW W, NEW X \in SUBSET Place,
         Backed(f, map), Alone(f, W),
         \A u \in Place : g[u] \in {f[u], 0},
         \A u \in X : u \in W \/ g[u] \notin Paged
  PROVE  Backed(g, map) /\ Alone(g, X)
<1>0. 0 \notin Paged
  BY DEF Paged
<1>1. ASSUME NEW p \in Paged
      PROVE  Cardinality(Users(g, p)) <= map[p]
  <2>1. Users(g, p) \subseteq Users(f, p)
    BY <1>0 DEF Users, Of
  <2>2. Cardinality(Users(g, p)) <= Cardinality(Users(f, p))
    BY <2>1, UsersFinite, FS_Subset
  <2>3. Cardinality(Users(f, p)) <= map[p]
    BY DEF Backed
  <2> QED
    BY <2>2, <2>3, UsersFinite
<1>2. Alone(g, X)
  BY <1>0 DEF Alone
<1> QED
  BY <1>1, <1>2 DEF Backed

(* A page that is counted but nowhere is entered in one place.               *)
Gained(f, g, map, W, X, w, q) ==
  /\ map \in [Paged -> Nat] /\ X \in SUBSET Place /\ w \in Place /\ q \in Paged
  /\ Backed(f, map) /\ Alone(f, W)
  /\ Users(f, q) = {} /\ map[q] >= 1 /\ g[w] = q
  /\ \A u \in Place : u # w => g[u] \in {f[u], 0}
  /\ \A u \in X : u \in W \/ u = w \/ g[u] \notin Paged

(* Then the counts stay enough, and the page is in that place only.          *)
LEMMA Given ==
  ASSUME NEW f, NEW g, NEW map, NEW W, NEW X, NEW w, NEW q, Gained(f, g, map, W, X, w, q)
  PROVE  Backed(g, map) /\ Alone(g, X) /\ Users(g, q) = {w}
<1> USE DEF Gained
<1>0. 0 \notin Paged
  BY DEF Paged
<1>1. Users(g, q) = {w}
  BY <1>0 DEF Users, Of
<1>2. ASSUME NEW p \in Paged
      PROVE  Cardinality(Users(g, p)) <= map[p]
  <2>1. CASE p = q
    BY <1>1, <2>1, FS_Singleton
  <2>2. CASE p # q
    <3>1. Users(g, p) \subseteq Users(f, p)
      BY <1>0, <2>2 DEF Users, Of
    <3>2. Cardinality(Users(g, p)) <= Cardinality(Users(f, p))
      BY <3>1, UsersFinite, FS_Subset
    <3>3. Cardinality(Users(f, p)) <= map[p]
      BY DEF Backed
    <3> QED
      BY <3>2, <3>3, UsersFinite
  <2> QED
    BY <2>1, <2>2
<1>3. ASSUME NEW u \in X, NEW v \in Place, g[u] \in Paged, g[v] = g[u]
      PROVE  v = u
  <2>1. CASE g[u] = q
    <3>1. u \in Users(g, q) /\ v \in Users(g, q)
      BY <1>3, <2>1 DEF Users, Of
    <3> QED
      BY <1>1, <3>1
  <2>2. CASE g[u] # q
    <3>1. g[u] = f[u] /\ g[v] = f[v] /\ u \in W
      BY <1>0, <1>3, <2>2
    <3> QED
      BY <1>3, <3>1 DEF Alone
  <2> QED
    BY <2>1, <2>2
<1> QED
  BY <1>1, <1>2, <1>3 DEF Backed, Alone

(* Places are emptied, and what was there is counted off.                    *)
Emptied(f, g, map, after, W, X, D) ==
  /\ map \in [Paged -> Nat] /\ X \in SUBSET Place /\ D \in SUBSET Place
  /\ Backed(f, map) /\ Alone(f, W)
  /\ \A p \in Paged : after[p] = map[p] - Cardinality(Of(D, f, p))
  /\ \A u \in D : g[u] = 0
  /\ \A u \in Place : g[u] \in {f[u], 0}
  /\ \A u \in X : u \in W \/ g[u] \notin Paged

(* Then the counts stay enough and no number.                                *)
LEMMA Subtracted ==
  ASSUME NEW f, NEW g, NEW map, NEW after, NEW W, NEW X, NEW D,
         Emptied(f, g, map, after, W, X, D)
  PROVE  Backed(g, after) /\ Alone(g, X) /\ \A p \in Paged : after[p] \in Nat
<1> USE DEF Emptied
<1>0. 0 \notin Paged
  BY DEF Paged
<1>1. ASSUME NEW p \in Paged
      PROVE  Cardinality(Users(g, p)) <= after[p] /\ after[p] \in Nat
  <2> DEFINE E == Of(D, f, p)
  <2>1. Users(g, p) \subseteq Users(f, p) \ E /\ E \subseteq Users(f, p)
    BY <1>0 DEF Users, Of
  <2> HIDE DEF E
  <2>2. IsFiniteSet(E) /\ Cardinality(E) \in Nat /\ IsFiniteSet(Users(f, p) \ E)
          /\ Cardinality(Users(f, p) \ E) = Cardinality(Users(f, p)) - Cardinality(E)
    <3>1. IsFiniteSet(E) /\ IsFiniteSet(Users(f, p) \ E)
      BY <2>1, UsersFinite, FS_Subset
    <3>2. Users(f, p) \intersect E = E
      BY <2>1
    <3>3. Cardinality(Users(f, p) \ E)
            = Cardinality(Users(f, p)) - Cardinality(Users(f, p) \intersect E)
      BY ONLY UsersFinite, FS_Difference
    <3>4. Cardinality(E) \in Nat
      BY ONLY <3>1, FS_CardinalityType
    <3> QED
      BY <3>1, <3>2, <3>3, <3>4
  <2>3. Cardinality(Users(g, p)) <= Cardinality(Users(f, p) \ E)
    BY <2>1, <2>2, FS_Subset
  <2>4. Cardinality(Users(f, p)) <= map[p]
    BY DEF Backed
  <2>5. after[p] = map[p] - Cardinality(E)
    BY DEF E
  <2> QED
    BY <2>2, <2>3, <2>4, <2>5, UsersFinite
<1>2. Alone(g, X)
  BY <1>0 DEF Alone
<1> QED
  BY <1>1, <1>2 DEF Backed

(* Places get what others have that may share it, and it is counted.         *)
Joined(f, g, map, after, W, X, D) ==
  /\ map \in [Paged -> Nat] /\ X \in SUBSET Place /\ D \in SUBSET Place
  /\ Backed(f, map) /\ Alone(f, W)
  /\ \A p \in Paged : after[p] = map[p] + Cardinality(Of(D, g, p))
  /\ \A u \in Place \ D : g[u] = f[u]
  /\ \A u \in D : g[u] \in Paged => \E v \in Place \ X : f[v] = g[u]
  /\ \A u \in X : g[u] \in Paged => u \in W \ D

(* Then the counts stay enough, and what was alone is alone.                 *)
LEMMA Shared ==
  ASSUME NEW f, NEW g, NEW map, NEW after, NEW W, NEW X, NEW D,
         Joined(f, g, map, after, W, X, D)
  PROVE  Backed(g, after) /\ Alone(g, X) /\ \A p \in Paged : after[p] \in Nat
<1> USE DEF Joined
<1>1. ASSUME NEW p \in Paged
      PROVE  Cardinality(Users(g, p)) <= after[p] /\ after[p] \in Nat
  <2> DEFINE E == Of(D, g, p)
  <2>1. Users(g, p) \subseteq Users(f, p) \union E /\ E \subseteq Users(g, p)
    BY DEF Users, Of
  <2> HIDE DEF E
  <2>2. IsFiniteSet(E) /\ Cardinality(E) \in Nat /\ IsFiniteSet(Users(f, p) \union E)
          /\ Cardinality(Users(f, p) \union E) <= Cardinality(Users(f, p)) + Cardinality(E)
    <3>1. IsFiniteSet(E)
      BY <2>1, UsersFinite, FS_Subset
    <3>2. IsFiniteSet(Users(f, p) \intersect E)
      BY <3>1, FS_Intersection
    <3>3. IsFiniteSet(Users(f, p) \union E)
            /\ Cardinality(Users(f, p) \union E)
                 = Cardinality(Users(f, p)) + Cardinality(E) - Cardinality(Users(f, p) \intersect E)
      BY ONLY <3>1, UsersFinite, FS_Union
    <3>4. Cardinality(E) \in Nat /\ Cardinality(Users(f, p) \intersect E) \in Nat
      BY ONLY <3>1, <3>2, FS_CardinalityType
    <3> QED
      BY <3>1, <3>3, <3>4, UsersFinite
  <2>3. Cardinality(Users(g, p)) <= Cardinality(Users(f, p) \union E)
    BY <2>1, <2>2, FS_Subset
  <2>4. Cardinality(Users(f, p)) <= map[p]
    BY DEF Backed
  <2>5. after[p] = map[p] + Cardinality(E)
    BY DEF E
  <2>6. Cardinality(Users(f, p) \union E) \in Nat
    BY <2>2, FS_CardinalityType
  <2> QED
    BY <2>2, <2>3, <2>4, <2>5, <2>6, UsersFinite
<1>2. ASSUME NEW u \in X, NEW v \in Place, g[u] \in Paged, g[v] = g[u]
      PROVE  v = u
  <2>1. u \in W /\ f[u] = g[u]
    BY <1>2
  <2>2. CASE v \notin D
    BY <1>2, <2>1, <2>2 DEF Alone
  <2>3. CASE v \in D
    <3>1. PICK w \in Place \ X : f[w] = g[v]
      BY <1>2, <2>3
    <3>2. w = u
      BY <1>2, <2>1, <3>1 DEF Alone
    <3> QED
      BY <3>1, <3>2
  <2> QED
    BY <2>2, <2>3
<1> QED
  BY <1>1, <1>2 DEF Backed, Alone

-----------------------------------------------------------------------------
(* What each place has, T for tss and A for the arguments that are left.     *)
Ref(m, T, A) ==
  [u \in Place |->
     IF u[1] = "pte"
     THEN IF m.dir[u[2]][u[3]] = 0 THEN 0 ELSE m.table[m.dir[u[2]][u[3]]][u[4]].page
     ELSE IF u[1] = "dir" THEN m.dir[u[2]][u[3]]
     ELSE IF u[1] = "tss" THEN T[u[2]] ELSE A[u[2]][u[3]]]

(* The places whose page is to be nowhere else.                              *)
Writable(m, t, d, e) == m.dir[t][d] # 0 /\ m.table[m.dir[t][d]][e].w
Owning(m) ==
  {u \in Place : u[1] = "pte" => u[2] # Swapper /\ Writable(m, u[2], u[3], u[4])}

Mem == [map : [Paged -> Nat], table : [Paged \union {Pg0} -> [Entry -> PTE]],
        data : [Page -> Value \union {Zero}], dir : [Task -> [Dir -> Paged \union {0, Pg0}]]]

Counts(m, T, A) == Backed(Ref(m, T, A), m.map) /\ Alone(Ref(m, T, A), Owning(m))
Programs(m) ==
  \A t \in Task \ {Swapper}, d \in Dir :
    m.dir[t][d] # Pg0 /\ \A e \in Entry : Writable(m, t, d, e) => m.table[m.dir[t][d]][e].page \in Paged

(* The invariant of the pages.                                               *)
Kept(m, T, A) ==
  /\ m \in Mem /\ T \in [Task -> Paged \union {0}] /\ A \in [Task -> [ArgNr -> Paged \union {0}]]
  /\ Programs(m)
  /\ Counts(m, T, A)

(* A page that was got and is not entered anywhere yet.                      *)
Spare(m, T, A, p) == p \in Paged /\ m.map[p] >= 1 /\ Users(Ref(m, T, A), p) = {}

(* Pages are neither the null entry nor pg0.                                 *)
LEMMA Numbers ==
  /\ 0 \notin Paged /\ Pg0 \notin Paged /\ Pg0 # 0 /\ 0 \notin Page /\ Pg0 \notin Page
  /\ Paged \subseteq Page /\ Absent \in PTE /\ Blank \in [Entry -> PTE]
<1>1. 0 \notin Paged /\ Pg0 \notin Paged /\ Pg0 # 0 /\ 0 \notin Low /\ Pg0 \notin Low
  BY MemoryAssumption DEF Paged, Pg0, Low, LowPage
<1>2. Absent \in PTE
  BY DEF Absent, PTE
<1> QED
  BY <1>1, <1>2 DEF Page, Blank

(* The four kinds of places.                                                 *)
LEMMA PlaceKinds ==
  /\ \A t \in Task, d \in Dir, e \in Entry : Pte(t, d, e) \in Place
  /\ \A t \in Task, d \in Dir : DirP(t, d) \in Place
  /\ \A t \in Task : Tss(t) \in Place
  /\ \A t \in Task, i \in ArgNr : Arg(t, i) \in Place
  /\ \A u \in Place : \/ \E t \in Task, d \in Dir, e \in Entry : u = Pte(t, d, e)
                      \/ \E t \in Task, d \in Dir : u = DirP(t, d)
                      \/ \E t \in Task : u = Tss(t)
                      \/ \E t \in Task, i \in ArgNr : u = Arg(t, i)
<1>1. \A u \in Ptes : \E t \in Task, d \in Dir, e \in Entry : u = Pte(t, d, e)
  BY DEF Ptes, Pte
<1>2. \A u \in Dirs : \E t \in Task, d \in Dir : u = DirP(t, d)
  BY DEF Dirs, DirP
<1>3. \A u \in Tsses : \E t \in Task : u = Tss(t)
  BY DEF Tsses, Tss
<1>4. \A u \in Args : \E t \in Task, i \in ArgNr : u = Arg(t, i)
  BY DEF Args, Arg
<1>5. /\ \A t \in Task, d \in Dir, e \in Entry : Pte(t, d, e) \in Ptes
      /\ \A t \in Task, d \in Dir : DirP(t, d) \in Dirs
      /\ \A t \in Task : Tss(t) \in Tsses
      /\ \A t \in Task, i \in ArgNr : Arg(t, i) \in Args
  BY DEF Ptes, Pte, Dirs, DirP, Tsses, Tss, Args, Arg
<1> HIDE DEF Ptes, Dirs, Tsses, Args
<1> QED
  BY <1>1, <1>2, <1>3, <1>4, <1>5 DEF Place

(* Two places are the same only if they are of one kind, task and index.     *)
LEMMA PlaceDistinct ==
  /\ \A t, s \in Task, d, c \in Dir, e, g \in Entry :
       Pte(t, d, e) = Pte(s, c, g) => t = s /\ d = c /\ e = g
  /\ \A t, s \in Task, d, c \in Dir : DirP(t, d) = DirP(s, c) => t = s /\ d = c
  /\ \A t, s \in Task : Tss(t) = Tss(s) => t = s
  /\ \A t, s \in Task, i, j \in ArgNr : Arg(t, i) = Arg(s, j) => t = s /\ i = j
  /\ \A t, s \in Task, d, c \in Dir, e \in Entry, i \in ArgNr :
       /\ Pte(t, d, e) # DirP(s, c) /\ Pte(t, d, e) # Tss(s) /\ Pte(t, d, e) # Arg(s, i)
       /\ DirP(t, d) # Tss(s) /\ DirP(t, d) # Arg(s, i) /\ Tss(t) # Arg(s, i)
  /\ \A t, s \in Task, d, c \in Dir, e \in Entry :
       Pte(t, d, e) # DirP(s, c) /\ Pte(t, d, e) # Tss(s) /\ DirP(t, d) # Tss(s)
BY DEF Pte, DirP, Tss, Arg

(* What each kind of place has, and whether it is to have it alone.          *)
LEMMA RefAt ==
  ASSUME NEW m, NEW T, NEW A
  PROVE
  /\ \A t \in Task, d \in Dir, e \in Entry :
       /\ Ref(m, T, A)[Pte(t, d, e)] = IF m.dir[t][d] = 0 THEN 0 ELSE m.table[m.dir[t][d]][e].page
       /\ Pte(t, d, e) \in Owning(m) <=> t # Swapper /\ Writable(m, t, d, e)
  /\ \A t \in Task, d \in Dir :
       Ref(m, T, A)[DirP(t, d)] = m.dir[t][d] /\ DirP(t, d) \in Owning(m)
  /\ \A t \in Task : Ref(m, T, A)[Tss(t)] = T[t] /\ Tss(t) \in Owning(m)
  /\ \A t \in Task, i \in ArgNr : Ref(m, T, A)[Arg(t, i)] = A[t][i] /\ Arg(t, i) \in Owning(m)
  /\ Owning(m) \in SUBSET Place
<1>1. ASSUME NEW t \in Task, NEW d \in Dir, NEW e \in Entry
      PROVE  /\ Ref(m, T, A)[Pte(t, d, e)]
                  = IF m.dir[t][d] = 0 THEN 0 ELSE m.table[m.dir[t][d]][e].page
             /\ Pte(t, d, e) \in Owning(m) <=> t # Swapper /\ Writable(m, t, d, e)
  <2>1. Pte(t, d, e) \in Place
    BY PlaceKinds
  <2>2. Pte(t, d, e)[1] = "pte" /\ Pte(t, d, e)[2] = t /\ Pte(t, d, e)[3] = d /\ Pte(t, d, e)[4] = e
    BY DEF Pte
  <2> HIDE DEF Pte
  <2> QED
    BY <2>1, <2>2 DEF Ref, Owning
<1>2. ASSUME NEW t \in Task, NEW d \in Dir
      PROVE  Ref(m, T, A)[DirP(t, d)] = m.dir[t][d] /\ DirP(t, d) \in Owning(m)
  <2>1. DirP(t, d) \in Place
    BY PlaceKinds
  <2>2. DirP(t, d)[1] = "dir" /\ DirP(t, d)[2] = t /\ DirP(t, d)[3] = d
    BY DEF DirP
  <2> QED
    BY <2>1, <2>2 DEF Ref, Owning
<1>3. ASSUME NEW t \in Task
      PROVE  Ref(m, T, A)[Tss(t)] = T[t] /\ Tss(t) \in Owning(m)
  <2>1. Tss(t) \in Place
    BY PlaceKinds
  <2>2. Tss(t)[1] = "tss" /\ Tss(t)[2] = t
    BY DEF Tss
  <2> QED
    BY <2>1, <2>2 DEF Ref, Owning
<1>4. ASSUME NEW t \in Task, NEW i \in ArgNr
      PROVE  Ref(m, T, A)[Arg(t, i)] = A[t][i] /\ Arg(t, i) \in Owning(m)
  <2>1. Arg(t, i) \in Place
    BY PlaceKinds
  <2>2. Arg(t, i)[1] = "arg" /\ Arg(t, i)[2] = t /\ Arg(t, i)[3] = i
    BY DEF Arg
  <2> QED
    BY <2>1, <2>2 DEF Ref, Owning
<1>5. Owning(m) \in SUBSET Place
  BY DEF Owning
<1> QED
  BY <1>1, <1>2, <1>3, <1>4, <1>5

(* Only entries of page tables may come to own a page.                       *)
LEMMA OwningLess ==
  ASSUME NEW m, NEW g, NEW X,
         \A t \in Task \ {Swapper}, d \in Dir, e \in Entry :
           Writable(g, t, d, e) => Writable(m, t, d, e) \/ Pte(t, d, e) \in X
  PROVE  \A u \in Owning(g) : u \in Owning(m) \/ u \in X
<1>1. TAKE u \in Owning(g)
<1>2. u \in Place
  BY DEF Owning
<1>3. CASE u[1] # "pte"
  BY <1>2, <1>3 DEF Owning
<1>4. CASE u[1] = "pte"
  <2>1. u \in Ptes
    BY <1>2, <1>4 DEF Place, Ptes, Dirs, Tsses, Args
  <2>2. PICK t \in Task, d \in Dir, e \in Entry : u = Pte(t, d, e)
    BY <2>1 DEF Ptes, Pte
  <2>3. t \in Task \ {Swapper} /\ Writable(g, t, d, e)
    BY <2>2, RefAt
  <2>4. Writable(m, t, d, e) \/ u \in X
    BY <2>2, <2>3
  <2> QED
    BY <2>2, <2>3, <2>4, RefAt
<1> QED
  BY <1>3, <1>4

(* A page with no uses counted has none.                                     *)
LEMMA FreeIsUnused ==
  ASSUME NEW m, NEW T, NEW A, Kept(m, T, A), NEW p \in Free(m)
  PROVE  p \in Paged /\ m.map[p] = 0 /\ Users(Ref(m, T, A), p) = {}
<1>1. p \in Paged /\ m.map[p] = 0
  BY DEF Free
<1>2. Cardinality(Users(Ref(m, T, A), p)) = 0
  BY <1>1, UsersFinite DEF Kept, Counts, Backed
<1> QED
  BY <1>1, <1>2, UsersFinite, FS_EmptySet

(* What get_free_page() finds is free.                                       *)
LEMMA NextFreeIsFree ==
  ASSUME NEW m, Free(m) # {}
  PROVE  NextFree(m) \in Free(m)
<1> DEFINE S == {PAGING_PAGES - p : p \in Free(m)}
<1>1. PAGING_PAGES \in Nat /\ Free(m) \subseteq 1 .. PAGING_PAGES
  BY MemoryAssumption DEF Free, Paged
<1>2. S \subseteq Nat /\ S # {}
  BY <1>1
<1>3. PICK n \in S : \A k \in S : ~(k < n)
  <2> HIDE DEF S
  <2> QED
    BY <1>2, LeastNumber
<1>4. PICK p \in Free(m) : n = PAGING_PAGES - p
  BY <1>3
<1>5. \A q \in Free(m) : p >= q
  BY <1>1, <1>3, <1>4
<1> QED
  BY <1>5 DEF NextFree, Max

(* An address is an index into the directory and one into a page table.      *)
LEMMA AddrParts ==
  ASSUME NEW a \in Addr
  PROVE  DirOf(a) \in Dir /\ EntryOf(a) \in Entry /\ a = DirOf(a) * NrEntries + EntryOf(a)
<1>1. NrEntries \in Nat \ {0} /\ NrTables \in Nat \ {0} /\ a \in Nat /\ a < NrTables * NrEntries
  BY MemoryAssumption DEF Addr
<1> DEFINE q == a \div NrEntries
           r == a % NrEntries
<1>2. q \in Nat /\ r \in 0 .. NrEntries - 1 /\ a = q * NrEntries + r
  BY <1>1, Z3
<1> HIDE DEF q, r
<1>3. q < NrTables
  <2>1. SUFFICES ASSUME q >= NrTables PROVE FALSE
    BY <1>1, <1>2
  <2>2. PICK k \in Nat : q = NrTables + k
    <3>1. q - NrTables \in Nat
      BY <1>1, <1>2, <2>1
    <3> QED
      BY <1>1, <1>2, <3>1
  <2>3. q * NrEntries = NrTables * NrEntries + k * NrEntries
    BY <1>1, <2>2, Z3
  <2>4. k * NrEntries >= 0
    BY <1>1, <2>2, Z3
  <2> QED
    BY <1>1, <1>2, <2>3, <2>4
<1> QED
  BY <1>1, <1>2, <1>3 DEF q, r, DirOf, EntryOf, Dir, Entry

-----------------------------------------------------------------------------
(* The moves: what one function of memory.c, or a part of it, does.          *)

(* Nothing is in a page that is free, and nothing changes by taking it.      *)
LEMMA GetKeeps ==
  ASSUME NEW m, NEW T, NEW A, Kept(m, T, A), Free(m) # {}
  PROVE  LET g == GetFreePage(m)
             n == NextFree(m)
         IN  /\ Kept(g, T, A) /\ Spare(g, T, A, n)
             /\ Ref(g, T, A) = Ref(m, T, A) /\ Owning(g) = Owning(m)
             /\ g.dir = m.dir /\ g.table[n] = Blank /\ g.map[n] = 1
             /\ \A p \in Paged \ {n} : g.map[p] = m.map[p]
             /\ \A p \in (Paged \union {Pg0}) \ {n} : g.table[p] = m.table[p]
             /\ m.map[n] = 0 /\ n \in Paged
<1> DEFINE g == GetFreePage(m)
           n == NextFree(m)
<1>1. n \in Paged /\ m.map[n] = 0 /\ Users(Ref(m, T, A), n) = {}
  BY NextFreeIsFree, FreeIsUnused
<1>2. m \in Mem
  BY DEF Kept
<1> HIDE DEF n
<1>3. /\ g \in Mem /\ g.dir = m.dir /\ g.table[n] = Blank /\ g.map[n] = 1
      /\ \A p \in Paged \ {n} : g.map[p] = m.map[p]
      /\ \A p \in (Paged \union {Pg0}) \ {n} : g.table[p] = m.table[p]
  BY <1>1, <1>2, Numbers DEF GetFreePage, Mem, n
<1> HIDE DEF g
<1>4. \A t \in Task, d \in Dir : m.dir[t][d] # n
  BY <1>1, PlaceKinds, RefAt DEF Users, Of
<1>5. \A t \in Task, d \in Dir : m.dir[t][d] # 0 => g.table[m.dir[t][d]] = m.table[m.dir[t][d]]
  BY <1>2, <1>3, <1>4 DEF Mem
<1>6. Ref(g, T, A) = Ref(m, T, A)
  <2>1. ASSUME NEW u \in Place PROVE Ref(g, T, A)[u] = Ref(m, T, A)[u]
    BY <1>3, <1>5, PlaceKinds, RefAt
  <2> QED
    BY <2>1 DEF Ref
<1>7. Owning(g) = Owning(m)
  <2>1. \A t \in Task, d \in Dir, e \in Entry : Writable(g, t, d, e) <=> Writable(m, t, d, e)
    BY <1>3, <1>5 DEF Writable
  <2>2. (\A u \in Owning(g) : u \in Owning(m) \/ u \in {})
          /\ (\A u \in Owning(m) : u \in Owning(g) \/ u \in {})
    BY <2>1, OwningLess
  <2> QED
    BY <2>2
<1>8. Programs(g)
  BY <1>3, <1>5, SMTT(60) DEF Kept, Programs, Writable
<1>9. Backed(Ref(g, T, A), g.map)
  <2>1. ASSUME NEW p \in Paged PROVE Cardinality(Users(Ref(g, T, A), p)) <= g.map[p]
    <3>1. CASE p = n
      BY <1>1, <1>3, <1>6, <3>1, FS_EmptySet
    <3>2. CASE p # n
      BY <1>3, <1>6, <3>2 DEF Kept, Counts, Backed
    <3> QED
      BY <3>1, <3>2
  <2> QED
    BY <2>1 DEF Backed
<1>10. Kept(g, T, A)
  BY <1>3, <1>6, <1>7, <1>8, <1>9 DEF Kept, Counts
<1>11. Spare(g, T, A, n)
  BY <1>1, <1>3, <1>6 DEF Spare
<1> QED
  BY <1>1, <1>3, <1>6, <1>7, <1>10, <1>11 DEF g, n

(* An entry is written: nothing else is in the page table of t, so that only *)
(* that place changes.                                                       *)
Set(m, t, d, e, p) == [m EXCEPT !.table[m.dir[t][d]][e] = [page |-> p, w |-> TRUE]]

(* g is m but for what the place w has; who owns more is that place.         *)
OnePlace(m, g, T, A, w, p) ==
  /\ g \in Mem /\ g.map = m.map /\ g.dir = m.dir /\ Programs(g)
  /\ \A u \in Place : Ref(g, T, A)[u] = IF u = w THEN p ELSE Ref(m, T, A)[u]
  /\ \A u \in Owning(g) : u \in Owning(m) \/ u = w

(* Entering a page in a page table changes what one place has.               *)
LEMMA SetRef ==
  ASSUME NEW m, NEW T, NEW A, Kept(m, T, A), NEW t \in Task \ {Swapper},
         NEW d \in Dir, NEW e \in Entry, m.dir[t][d] # 0, NEW p \in Paged
  PROVE  OnePlace(m, Set(m, t, d, e, p), T, A, Pte(t, d, e), p)
<1> DEFINE g == Set(m, t, d, e, p)
           q == m.dir[t][d]
<1>1. m \in Mem /\ q \in Paged
  BY DEF Kept, Programs, Mem
<1>2. \A s \in Task, c \in Dir : m.dir[s][c] = q => s = t /\ c = d
  <2>1. Alone(Ref(m, T, A), Owning(m))
    BY DEF Kept, Counts
  <2> QED
    <3>1. ASSUME NEW s \in Task, NEW c \in Dir, m.dir[s][c] = q
          PROVE  DirP(s, c) = DirP(t, d)
      <4>1. DirP(s, c) \in Place /\ DirP(t, d) \in Owning(m)
        BY PlaceKinds, RefAt
      <4>2. Ref(m, T, A)[DirP(s, c)] = q /\ Ref(m, T, A)[DirP(t, d)] = q
        BY <3>1, RefAt
      <4> QED
        BY <1>1, <2>1, <4>1, <4>2 DEF Alone
    <3> QED
      BY <3>1, PlaceDistinct
<1>3. /\ g \in Mem /\ g.map = m.map /\ g.dir = m.dir
      /\ g.table[q][e] = [page |-> p, w |-> TRUE]
      /\ \A f \in Entry \ {e} : g.table[q][f] = m.table[q][f]
      /\ \A r \in (Paged \union {Pg0}) \ {q} : g.table[r] = m.table[r]
  <2>1. [page |-> p, w |-> TRUE] \in PTE
    BY Numbers DEF PTE
  <2> HIDE DEF q
  <2>2. [m.table[q] EXCEPT ![e] = [page |-> p, w |-> TRUE]] \in [Entry -> PTE]
    BY <1>1, <2>1 DEF Mem
  <2> QED
    BY <1>1, <2>1, <2>2 DEF Set, Mem, q
<1> HIDE DEF g, q
<1>4. ASSUME NEW s \in Task, NEW c \in Dir, NEW f \in Entry, m.dir[s][c] # 0, Pte(s, c, f) # Pte(t, d, e)
      PROVE  g.table[m.dir[s][c]][f] = m.table[m.dir[s][c]][f]
  BY <1>1, <1>2, <1>3, <1>4 DEF Mem, q
<1>5. q # 0
  BY DEF q
<1>6. ASSUME NEW u \in Place
      PROVE  Ref(g, T, A)[u] = IF u = Pte(t, d, e) THEN p ELSE Ref(m, T, A)[u]
  <2>1. ASSUME NEW s \in Task, NEW c \in Dir, NEW f \in Entry, u = Pte(s, c, f)
        PROVE  Ref(g, T, A)[u] = IF u = Pte(t, d, e) THEN p ELSE Ref(m, T, A)[u]
    <3>1. CASE u = Pte(t, d, e)
      BY <1>3, <1>5, <3>1, RefAt, SMTT(60) DEF q
    <3>2. CASE u # Pte(t, d, e)
      BY <1>3, <1>4, <2>1, <3>2, RefAt, SMTT(60)
    <3> QED
      BY <3>1, <3>2
  <2> QED
    BY <1>3, <2>1, PlaceKinds, PlaceDistinct, RefAt
<1>7. \A u \in Owning(g) : u \in Owning(m) \/ u = Pte(t, d, e)
  <2>1. ASSUME NEW s \in Task, NEW c \in Dir, NEW f \in Entry, Writable(g, s, c, f)
        PROVE  Writable(m, s, c, f) \/ Pte(s, c, f) \in {Pte(t, d, e)}
    BY <1>3, <1>4, <2>1, SMTT(60) DEF Writable
  <2>2. \A u \in Owning(g) : u \in Owning(m) \/ u \in {Pte(t, d, e)}
    BY <2>1, OwningLess
  <2> QED
    BY <2>2
<1>8. Programs(g)
  <2>1. ASSUME NEW s \in Task \ {Swapper}, NEW c \in Dir, NEW f \in Entry, Writable(g, s, c, f)
        PROVE  g.table[g.dir[s][c]][f].page \in Paged
    <3>1. CASE Pte(s, c, f) = Pte(t, d, e)
      <4>1. s = t /\ c = d /\ f = e
        BY <3>1, PlaceDistinct
      <4> QED
        BY <1>3, <4>1 DEF q
    <3>2. CASE Pte(s, c, f) # Pte(t, d, e)
      <4>1. m.dir[s][c] # 0
        BY <1>3, <2>1 DEF Writable
      <4>2. g.table[m.dir[s][c]][f] = m.table[m.dir[s][c]][f]
        BY <1>4, <3>2, <4>1
      <4>3. Writable(m, s, c, f)
        BY <1>3, <2>1, <4>1, <4>2 DEF Writable
      <4>4. Programs(m)
        BY DEF Kept
      <4> QED
        BY <1>3, <4>2, <4>3, <4>4 DEF Programs
    <3> QED
      BY <3>1, <3>2
  <2> QED
    BY <1>3, <2>1 DEF Kept, Programs
<1>9. OnePlace(m, g, T, A, Pte(t, d, e), p)
  BY <1>3, <1>6, <1>7, <1>8 DEF OnePlace
<1> QED
  BY <1>9 DEF g

(* A page that was just got may be entered in a page table, even writable.   *)
LEMMA SetKeeps ==
  ASSUME NEW m, NEW T, NEW A, Kept(m, T, A), NEW t \in Task \ {Swapper},
         NEW d \in Dir, NEW e \in Entry, m.dir[t][d] # 0, NEW p, Spare(m, T, A, p)
  PROVE  Kept(Set(m, t, d, e, p), T, A) /\ Set(m, t, d, e, p).dir = m.dir
<1> DEFINE g == Set(m, t, d, e, p)
<1>1. p \in Paged /\ m.map[p] >= 1 /\ Users(Ref(m, T, A), p) = {}
  BY DEF Spare
<1>2. /\ g \in Mem /\ g.map = m.map /\ g.dir = m.dir /\ Programs(g)
      /\ \A u \in Place : Ref(g, T, A)[u] = IF u = Pte(t, d, e) THEN p ELSE Ref(m, T, A)[u]
      /\ \A u \in Owning(g) : u \in Owning(m) \/ u = Pte(t, d, e)
  <2>1. OnePlace(m, g, T, A, Pte(t, d, e), p)
    BY <1>1, SetRef
  <2> HIDE DEF g
  <2> QED
    BY <2>1 DEF OnePlace
<1> HIDE DEF g
<1>3. m.map \in [Paged -> Nat] /\ Backed(Ref(m, T, A), m.map) /\ Alone(Ref(m, T, A), Owning(m))
  BY DEF Kept, Counts, Mem
<1>4. Pte(t, d, e) \in Place /\ Owning(g) \in SUBSET Place
  BY PlaceKinds, RefAt
<1>5. /\ Ref(g, T, A)[Pte(t, d, e)] = p
      /\ \A u \in Place : u # Pte(t, d, e) => Ref(g, T, A)[u] \in {Ref(m, T, A)[u], 0}
      /\ \A u \in Owning(g) : u \in Owning(m) \/ u = Pte(t, d, e) \/ Ref(g, T, A)[u] \notin Paged
  BY <1>2, <1>4
<1>6. Backed(Ref(g, T, A), m.map) /\ Alone(Ref(g, T, A), Owning(g))
  <2> DEFINE f == Ref(m, T, A)
             h == Ref(g, T, A)
             w == Pte(t, d, e)
  <2>1. Gained(f, h, m.map, Owning(m), Owning(g), w, p)
    BY <1>1, <1>3, <1>4, <1>5 DEF Gained
  <2>2. Backed(h, m.map) /\ Alone(h, Owning(g))
    BY ONLY <2>1, Given
  <2> QED
    BY <2>2
<1> QED
  BY <1>2, <1>6 DEF g, Kept, Counts

(* A page that is clear becomes a page table.                                *)
LEMMA TableKeeps ==
  ASSUME NEW m, NEW T, NEW A, Kept(m, T, A), NEW t \in Task \ {Swapper}, NEW d \in Dir,
         NEW p, Spare(m, T, A, p), m.table[p] = Blank
  PROVE  LET g == [m EXCEPT !.dir[t][d] = p] IN
         /\ Kept(g, T, A)
         /\ g.dir[t][d] = p /\ \A s \in Task \ {t} : g.dir[s] = m.dir[s]
         /\ \A q : Spare(m, T, A, q) /\ q # p => Spare(g, T, A, q)
<1> DEFINE g == [m EXCEPT !.dir[t][d] = p]
<1>1. p \in Paged /\ m.map[p] >= 1 /\ Users(Ref(m, T, A), p) = {}
  BY DEF Spare
<1>2. m \in Mem /\ p # 0 /\ p # Pg0
  BY <1>1, Numbers DEF Kept
<1>3. /\ g \in Mem /\ g.map = m.map /\ g.table = m.table /\ g.dir[t][d] = p
      /\ \A s \in Task, c \in Dir : s # t \/ c # d => g.dir[s][c] = m.dir[s][c]
      /\ \A s \in Task \ {t} : g.dir[s] = m.dir[s]
  BY <1>1, <1>2 DEF Mem
<1> HIDE DEF g
<1>4. \A e \in Entry : m.table[p][e] = Absent
  BY DEF Blank
<1>5. \A e \in Entry : ~m.table[p][e].w /\ m.table[p][e].page = 0
  BY <1>4 DEF Absent
<1>6. \A u \in Owning(g) : u \in Owning(m) \/ u \in {}
  <2>1. ASSUME NEW s \in Task, NEW c \in Dir, NEW e \in Entry, Writable(g, s, c, e)
        PROVE  Writable(m, s, c, e)
    BY <1>3, <1>5, <2>1 DEF Writable
  <2> QED
    BY <2>1, OwningLess
<1>7. DirP(t, d) \in Place /\ Ref(g, T, A)[DirP(t, d)] = p /\ Owning(g) \in SUBSET Place
  <2>1. DirP(t, d) \in Place
    BY PlaceKinds
  <2>2. Ref(g, T, A)[DirP(t, d)] = p /\ Owning(g) \in SUBSET Place
    BY <1>3, RefAt
  <2> QED
    BY <2>1, <2>2
<1>8. ASSUME NEW u \in Place, u # DirP(t, d)
      PROVE  Ref(g, T, A)[u] \in {Ref(m, T, A)[u], 0}
  <2>1. ASSUME NEW s \in Task, NEW c \in Dir, NEW e \in Entry, u = Pte(s, c, e)
        PROVE  Ref(g, T, A)[u] \in {Ref(m, T, A)[u], 0}
    <3>1. CASE s = t /\ c = d
      BY <1>2, <1>3, <1>5, <2>1, <3>1, RefAt
    <3>2. CASE s # t \/ c # d
      BY <1>3, <2>1, <3>2, RefAt
    <3> QED
      BY <3>1, <3>2
  <2>2. ASSUME NEW s \in Task, NEW c \in Dir, u = DirP(s, c)
        PROVE  Ref(g, T, A)[u] = Ref(m, T, A)[u]
    <3>1. s # t \/ c # d
      BY <1>8, <2>2
    <3> QED
      BY <1>3, <2>2, <3>1, RefAt
  <2>3. ASSUME NEW s \in Task, u = Tss(s)
        PROVE  Ref(g, T, A)[u] = Ref(m, T, A)[u]
    BY <2>3, RefAt
  <2>4. ASSUME NEW s \in Task, NEW i \in ArgNr, u = Arg(s, i)
        PROVE  Ref(g, T, A)[u] = Ref(m, T, A)[u]
    BY <2>4, RefAt
  <2> QED
    BY <2>1, <2>2, <2>3, <2>4, PlaceKinds
<1>9. m.map \in [Paged -> Nat] /\ Backed(Ref(m, T, A), m.map) /\ Alone(Ref(m, T, A), Owning(m))
  BY DEF Kept, Counts, Mem
<1>10. Backed(Ref(g, T, A), m.map) /\ Alone(Ref(g, T, A), Owning(g))
  <2> DEFINE f == Ref(m, T, A)
             h == Ref(g, T, A)
             w == DirP(t, d)
  <2>1. Gained(f, h, m.map, Owning(m), Owning(g), w, p)
    BY <1>1, <1>6, <1>7, <1>8, <1>9 DEF Gained
  <2>2. Backed(h, m.map) /\ Alone(h, Owning(g))
    BY ONLY <2>1, Given
  <2> QED
    BY <2>2
<1>11. Programs(g)
  <2>1. ASSUME NEW s \in Task \ {Swapper}, NEW c \in Dir
        PROVE  /\ g.dir[s][c] # Pg0
               /\ \A e \in Entry : Writable(g, s, c, e) => g.table[g.dir[s][c]][e].page \in Paged
    <3>1. CASE s = t /\ c = d
      BY <1>2, <1>3, <1>5, <3>1 DEF Writable
    <3>2. CASE s # t \/ c # d
      <4>1. Programs(m)
        BY DEF Kept
      <4>2. \A e \in Entry : Writable(g, s, c, e) <=> Writable(m, s, c, e)
        BY <1>3, <3>2 DEF Writable
      <4> QED
        BY <1>3, <3>2, <4>1, <4>2 DEF Programs
    <3> QED
      BY <3>1, <3>2
  <2> QED
    BY <2>1 DEF Programs
<1>12. ASSUME NEW q, Spare(m, T, A, q), q # p
       PROVE  Spare(g, T, A, q)
  <2>1. Users(Ref(g, T, A), q) = {}
    <3>1. q \in Paged /\ q # 0
      BY <1>12, Numbers DEF Spare
    <3>2. \A u \in Place : Ref(g, T, A)[u] # q
      BY <1>7, <1>8, <1>12, <3>1 DEF Spare, Users, Of
    <3> QED
      BY <3>2 DEF Users, Of
  <2> QED
    BY <1>3, <1>12, <2>1 DEF Spare
<1> QED
  BY <1>3, <1>10, <1>11, <1>12 DEF g, Kept, Counts

(* What a call about the memory of t keeps.                                  *)
Moves(m, new, t, T, A) == Kept(new, T, A) /\ \A s \in Task \ {t} : new.dir[s] = m.dir[s]

(* SetPTE by the parts of the address.                                       *)
LEMMA SetPTEIsSet ==
  ASSUME NEW m, NEW t, NEW a, NEW p
  PROVE  SetPTE(m, t, a, p) = Set(m, t, DirOf(a), EntryOf(a), p)
BY DEF SetPTE, Set

(* put_page() enters a page, if there is one for the page table.             *)
LEMMA PutPageKeeps ==
  ASSUME NEW m, NEW T, NEW A, Kept(m, T, A), NEW t \in Task \ {Swapper},
         NEW a \in Addr, NEW p, Spare(m, T, A, p)
  PROVE  Moves(m, PutPage(m, p, t, a).m, t, T, A)
<1> DEFINE d == DirOf(a)
           e == EntryOf(a)
<1>1. d \in Dir /\ e \in Entry
  BY AddrParts
<1> HIDE DEF d, e
<1>2. CASE m.dir[t][d] # 0
  <2>1. PutPage(m, p, t, a).m = Set(m, t, d, e, p)
    BY <1>2, SetPTEIsSet DEF PutPage, Done, d, e
  <2>2. Kept(Set(m, t, d, e, p), T, A) /\ Set(m, t, d, e, p).dir = m.dir
    BY <1>1, <1>2, SetKeeps
  <2> QED
    BY <2>1, <2>2 DEF Moves
<1>3. CASE m.dir[t][d] = 0 /\ Free(m) = {}
  BY <1>3 DEF PutPage, Failed, Moves, d
<1>4. CASE m.dir[t][d] = 0 /\ Free(m) # {}
  <2> DEFINE g == GetFreePage(m)
             n == NextFree(m)
             h == [g EXCEPT !.dir[t][d] = n]
  <2>1. PutPage(m, p, t, a).m = Set(h, t, d, e, p)
    BY <1>4, SetPTEIsSet DEF PutPage, Done, d, e
  <2>2. /\ Kept(g, T, A) /\ Spare(g, T, A, n) /\ g.dir = m.dir /\ g.table[n] = Blank
        /\ m.map[n] = 0 /\ n \in Paged /\ Ref(g, T, A) = Ref(m, T, A)
        /\ \A q \in Paged \ {n} : g.map[q] = m.map[q]
    BY <1>4, GetKeeps
  <2> HIDE DEF g, n
  <2>3. Spare(g, T, A, p) /\ p # n
    BY <2>2 DEF Spare
  <2>4. /\ Kept(h, T, A) /\ Spare(h, T, A, p) /\ h.dir[t][d] = n
        /\ \A s \in Task \ {t} : h.dir[s] = g.dir[s]
    BY <1>1, <2>2, <2>3, TableKeeps
  <2> HIDE DEF h
  <2>5. h.dir[t][d] # 0
    BY <2>2, <2>4, Numbers
  <2>6. Kept(Set(h, t, d, e, p), T, A) /\ Set(h, t, d, e, p).dir = h.dir
    BY <1>1, <2>4, <2>5, SetKeeps
  <2> QED
    BY <2>1, <2>2, <2>4, <2>6 DEF Moves
<1> QED
  BY <1>2, <1>3, <1>4

(* do_no_page() gets a page and puts it, or fails on the way.                *)
LEMMA DoNoPageKeeps ==
  ASSUME NEW m, NEW T, NEW A, Kept(m, T, A), NEW t \in Task \ {Swapper}, NEW a \in Addr
  PROVE  Moves(m, DoNoPage(m, t, a).m, t, T, A)
<1>1. CASE Free(m) = {}
  BY <1>1 DEF DoNoPage, Failed, Moves
<1>2. CASE Free(m) # {}
  <2> DEFINE g == GetFreePage(m)
             n == NextFree(m)
  <2>1. Kept(g, T, A) /\ Spare(g, T, A, n) /\ g.dir = m.dir
    BY <1>2, GetKeeps
  <2>2. DoNoPage(m, t, a) = PutPage(g, n, t, a)
    BY <1>2 DEF DoNoPage
  <2> HIDE DEF g, n
  <2>3. Moves(g, PutPage(g, n, t, a).m, t, T, A)
    BY <2>1, PutPageKeeps
  <2> QED
    BY <2>1, <2>2, <2>3 DEF Moves
<1> QED
  BY <1>1, <1>2

(* Contents do not matter, nor counts as long as they are enough.            *)
LEMMA SameRefs ==
  ASSUME NEW m, NEW T, NEW A, Kept(m, T, A), NEW g \in Mem, g.table = m.table, g.dir = m.dir,
         Backed(Ref(m, T, A), g.map)
  PROVE  Kept(g, T, A) /\ Ref(g, T, A) = Ref(m, T, A)
<1>1. Ref(g, T, A) = Ref(m, T, A)
  BY DEF Ref
<1>2. Owning(g) = Owning(m)
  BY DEF Owning, Writable
<1>3. Programs(g)
  BY DEF Kept, Programs, Writable
<1> QED
  BY <1>1, <1>2, <1>3 DEF Kept, Counts

(* un_wp_page(): a page of one use is made writable, another one is copied.  *)
LEMMA UnWpKeeps ==
  ASSUME NEW m, NEW T, NEW A, Kept(m, T, A), NEW t \in Task \ {Swapper}, NEW a \in Addr,
         Present(m, t, a)
  PROVE  Moves(m, UnWpPage(m, t, a).m, t, T, A)
<1> DEFINE d == DirOf(a)
           e == EntryOf(a)
           old == PTEof(m, t, a).page
           w == Pte(t, d, e)
           new == NextFree(m)
<1>1. d \in Dir /\ e \in Entry
  BY AddrParts
<1>2. m.dir[t][d] # 0 /\ old = m.table[m.dir[t][d]][e].page /\ old # 0
  BY DEF Present, PTEof, Absent
<1>3. old \in Page /\ m \in Mem
  BY <1>1, <1>2 DEF Kept, Mem, PTE
<1> HIDE DEF d, e, old
<1>4. w \in Place /\ Ref(m, T, A)[w] = old
  <2>1. w \in Place
    BY <1>1, PlaceKinds
  <2>2. Ref(m, T, A)[w] = old
    BY <1>1, <1>2, RefAt, SMTT(60)
  <2> QED
    BY <2>1, <2>2
<1>5. Backed(Ref(m, T, A), m.map) /\ Alone(Ref(m, T, A), Owning(m))
  BY DEF Kept, Counts
<1>6. CASE old \in Paged /\ m.map[old] = 1
  <2> DEFINE g == Set(m, t, d, e, old)
  <2>1. UnWpPage(m, t, a).m = g
    BY <1>6, SetPTEIsSet DEF UnWpPage, Done, d, e, old
  <2>2. /\ g \in Mem /\ g.map = m.map /\ g.dir = m.dir /\ Programs(g)
        /\ \A u \in Place : Ref(g, T, A)[u] = IF u = w THEN old ELSE Ref(m, T, A)[u]
        /\ \A u \in Owning(g) : u \in Owning(m) \/ u = w
    <3>1. OnePlace(m, g, T, A, w, old)
      BY <1>1, <1>2, <1>6, SetRef
    <3> HIDE DEF g, w
    <3> QED
      BY <3>1 DEF OnePlace
  <2> HIDE DEF g, w
  <2>3. Ref(g, T, A) = Ref(m, T, A)
    <3>1. \A u \in Place : Ref(g, T, A)[u] = Ref(m, T, A)[u]
      BY <1>4, <2>2
    <3> QED
      BY <3>1 DEF Ref
  <2>4. \A v \in Place : Ref(m, T, A)[v] = old => v = w
    <3>1. Cardinality(Users(Ref(m, T, A), old)) <= 1
      BY <1>5, <1>6 DEF Backed
    <3>2. w \in Users(Ref(m, T, A), old)
      BY <1>4 DEF Users, Of
    <3>3. \A v \in Users(Ref(m, T, A), old) : v = w
      BY <3>1, <3>2, OnlyOne, UsersFinite
    <3> QED
      BY <3>3 DEF Users, Of
  <2>5. Alone(Ref(g, T, A), Owning(g))
    BY <1>4, <1>5, <2>2, <2>3, <2>4 DEF Alone
  <2> QED
    BY <1>5, <2>1, <2>2, <2>3, <2>5 DEF Moves, Kept, Counts
<1>7. CASE ~(old \in Paged /\ m.map[old] = 1) /\ Free(m) = {}
  BY <1>7 DEF UnWpPage, Failed, Moves, old
<1>8. CASE ~(old \in Paged /\ m.map[old] = 1) /\ Free(m) # {}
  <2> DEFINE g == GetFreePage(m)
             s == Set(g, t, d, e, new)
             h == [FreePage(g, old) EXCEPT !.data[new] = m.data[old]]
             r == Set(h, t, d, e, new)
  <2>1. UnWpPage(m, t, a).m = r
    BY <1>8, SetPTEIsSet DEF UnWpPage, Done, d, e, old
  <2>2. /\ Kept(g, T, A) /\ Spare(g, T, A, new) /\ Ref(g, T, A) = Ref(m, T, A)
        /\ g.dir = m.dir /\ m.map[new] = 0 /\ new \in Paged /\ g.map[new] = 1
        /\ \A p \in Paged \ {new} : g.map[p] = m.map[p]
    <3>1. Free(m) # {}
      BY <1>8
    <3> QED
      BY ONLY <3>1, Kept(m, T, A), GetKeeps
  <2> HIDE DEF g, new, w
  <2>3. g \in Mem /\ g.dir[t][d] # 0
    BY <1>2, <2>2 DEF Kept
  <2>4. Kept(s, T, A) /\ s.dir = g.dir
    BY <1>1, <2>2, <2>3, SetKeeps
  <2>5. /\ s.map = g.map /\ s \in Mem
        /\ \A u \in Place : Ref(s, T, A)[u] = IF u = w THEN new ELSE Ref(g, T, A)[u]
    <3>1. OnePlace(g, s, T, A, w, new)
      BY <1>1, <2>2, <2>3, SetRef DEF w
    <3> QED
      BY <3>1 DEF OnePlace
  <2>6. old \in Paged => m.map[old] >= 1 /\ old # new
    <3>1. ASSUME old \in Paged PROVE m.map[old] >= 1
      <4>1. w \in Users(Ref(m, T, A), old)
        BY <1>4 DEF Users, Of
      <4>2. Cardinality(Users(Ref(m, T, A), old)) # 0
        BY <4>1, UsersFinite, FS_EmptySet
      <4>3. Cardinality(Users(Ref(m, T, A), old)) <= m.map[old]
        BY <1>5, <3>1 DEF Backed
      <4>4. m.map[old] \in Nat
        BY <1>3, <3>1 DEF Mem
      <4> QED
        BY <4>2, <4>3, <4>4, UsersFinite
    <3> QED
      BY <2>2, <3>1
  <2>7. h.table = g.table /\ h.dir = g.dir /\ h \in Mem
        /\ \A p \in Paged : h.map[p] = IF p = old THEN g.map[p] - 1 ELSE g.map[p]
    <3>1. CASE old \in Paged
      <4>1. g.map[old] - 1 \in Nat
        <5>1. m.map[old] \in Nat
          BY <1>3, <3>1 DEF Mem
        <5> QED
          BY <2>2, <2>6, <3>1, <5>1
      <4> QED
        BY <1>3, <2>2, <2>3, <3>1, <4>1 DEF FreePage, Mem
    <3>2. CASE old \notin Paged
      BY <1>3, <2>2, <2>3, <3>2 DEF FreePage, Mem
    <3> QED
      BY <3>1, <3>2
  <2> HIDE DEF h
  <2>8. r.table = s.table /\ r.dir = s.dir /\ r.map = h.map /\ r \in Mem
    <3>1. r.table = s.table /\ r.dir = h.dir /\ r.map = h.map /\ r.data = h.data
      BY <1>3, <2>3, <2>7 DEF Set, Mem
    <3>2. r = [map |-> r.map, table |-> r.table, data |-> r.data, dir |-> r.dir]
      BY <2>7 DEF Set, Mem
    <3> HIDE DEF r, s
    <3> QED
      BY <2>4, <2>5, <2>7, <3>1, <3>2 DEF Mem
  <2> HIDE DEF r, s
  <2>9. Backed(Ref(s, T, A), r.map)
    <3>1. ASSUME NEW p \in Paged
          PROVE  Cardinality(Users(Ref(s, T, A), p)) <= r.map[p]
      <4>1. Cardinality(Users(Ref(s, T, A), p)) <= s.map[p]
        BY <2>4 DEF Kept, Counts, Backed
      <4>2. CASE p # old
        BY <2>5, <2>7, <2>8, <4>1, <4>2
      <4>3. CASE p = old
        <5>1. Users(Ref(s, T, A), p) = Users(Ref(g, T, A), p) \ {w} /\ w \in Users(Ref(g, T, A), p)
          BY <1>4, <2>2, <2>5, <2>6, <4>3 DEF Users, Of
        <5>2. Cardinality(Users(Ref(g, T, A), p) \ {w}) = Cardinality(Users(Ref(g, T, A), p)) - 1
          BY <5>1, UsersFinite, FS_RemoveElement
        <5>3. Cardinality(Users(Ref(g, T, A), p)) <= g.map[p]
          BY <2>2 DEF Kept, Counts, Backed
        <5>4. g.map[p] \in Nat
          BY <2>3 DEF Mem
        <5> QED
          BY <2>7, <2>8, <4>3, <5>1, <5>2, <5>3, <5>4, UsersFinite
      <4> QED
        BY <4>2, <4>3
    <3> QED
      BY <3>1 DEF Backed
  <2>10. Kept(r, T, A)
    BY <2>4, <2>8, <2>9, SameRefs
  <2> QED
    BY <2>1, <2>2, <2>4, <2>8, <2>10 DEF Moves
<1> QED
  BY <1>6, <1>7, <1>8

(* write_verify() does that where a page is present and write protected.     *)
LEMMA WriteVerifyKeeps ==
  ASSUME NEW m, NEW T, NEW A, Kept(m, T, A), NEW t \in Task \ {Swapper}, NEW a \in Addr
  PROVE  Moves(m, WriteVerify(m, t, a).m, t, T, A)
<1>1. CASE Present(m, t, a) /\ ~PTEof(m, t, a).w
  BY <1>1, UnWpKeeps DEF WriteVerify
<1>2. CASE ~(Present(m, t, a) /\ ~PTEof(m, t, a).w)
  BY <1>2 DEF WriteVerify, Done, Moves
<1> QED
  BY <1>1, <1>2

(* Writing to the contents of a page moves no page.                          *)
LEMMA StoreKeeps ==
  ASSUME NEW m, NEW T, NEW A, NEW t, NEW r, Moves(m, r.m, t, T, A), NEW a, NEW v \in Value
  PROVE  Moves(m, Store(r, t, a, v).m, t, T, A)
<1> DEFINE g == [r.m EXCEPT !.data[PTEof(r.m, t, a).page] = v]
<1>1. CASE r.ok
  <2>1. Store(r, t, a, v).m = g
    BY <1>1 DEF Store, Done
  <2>2. Kept(r.m, T, A)
    BY DEF Moves
  <2>3. g \in Mem /\ g.table = r.m.table /\ g.dir = r.m.dir /\ g.map = r.m.map
    BY <2>2 DEF Kept, Mem
  <2>4. Backed(Ref(r.m, T, A), g.map)
    BY <2>2, <2>3 DEF Kept, Counts
  <2> HIDE DEF g
  <2>5. Kept(g, T, A)
    BY <2>2, <2>3, <2>4, SameRefs
  <2> QED
    BY <2>1, <2>3, <2>5 DEF Moves
<1>2. CASE ~r.ok
  BY <1>2 DEF Store
<1> QED
  BY <1>1, <1>2

(* A write of the program, with whatever fault it takes.                     *)
LEMMA UserWriteKeeps ==
  ASSUME NEW m, NEW T, NEW A, Kept(m, T, A), NEW t \in Task \ {Swapper}, NEW a \in Addr,
         NEW v \in Value
  PROVE  Moves(m, UserWrite(m, t, a, v).m, t, T, A)
<1> DEFINE r == IF Present(m, t, a) THEN WriteVerify(m, t, a) ELSE DoNoPage(m, t, a)
<1>1. Moves(m, r.m, t, T, A)
  BY WriteVerifyKeeps, DoNoPageKeeps
<1> HIDE DEF r
<1>2. Moves(m, Store(r, t, a, v).m, t, T, A)
  BY <1>1, StoreKeeps
<1> QED
  BY <1>2 DEF UserWrite, r

(* A write of the kernel into the program: write protection does not stop it. *)
LEMMA PutFsKeeps ==
  ASSUME NEW m, NEW T, NEW A, Kept(m, T, A), NEW t \in Task \ {Swapper}, NEW a \in Addr,
         NEW v \in Value
  PROVE  Moves(m, PutFs(m, t, a, v).m, t, T, A)
<1> DEFINE r == IF Present(m, t, a) THEN Done(m) ELSE DoNoPage(m, t, a)
<1>1. Moves(m, r.m, t, T, A)
  <2>1. Moves(m, Done(m).m, t, T, A)
    BY DEF Done, Moves
  <2> QED
    BY <2>1, DoNoPageKeeps
<1> HIDE DEF r
<1>2. Moves(m, Store(r, t, a, v).m, t, T, A)
  BY <1>1, StoreKeeps
<1> QED
  BY <1>2 DEF PutFs, r

-----------------------------------------------------------------------------
(* The addresses of a region are its entries.                                *)
LEMMA AddrOf ==
  ASSUME NEW d \in Dir, NEW e \in Entry
  PROVE  LET a == d * NrEntries + e IN a \in Addr /\ DirOf(a) = d /\ EntryOf(a) = e
<1> DEFINE a == d * NrEntries + e
<1>1. NrEntries \in Nat \ {0} /\ NrTables \in Nat \ {0} /\ d \in Nat /\ d < NrTables
        /\ e \in Nat /\ e < NrEntries
  BY MemoryAssumption DEF Dir, Entry
<1>2. a \in Nat /\ a < NrTables * NrEntries
  <2>1. PICK k \in Nat : NrTables = d + 1 + k
    <3>1. NrTables - d - 1 \in Nat
      BY <1>1
    <3> QED
      BY <1>1, <3>1
  <2>2. NrTables * NrEntries = d * NrEntries + NrEntries + k * NrEntries
    BY <1>1, <2>1, Z3
  <2>3. k * NrEntries >= 0 /\ k * NrEntries \in Int /\ d * NrEntries \in Int /\ d * NrEntries >= 0
    BY <1>1, <2>1, Z3
  <2> QED
    BY <1>1, <2>2, <2>3
<1>3. a \in Addr
  BY <1>1, <1>2 DEF Addr
<1>4. a \div NrEntries = d /\ a % NrEntries = e
  <2> DEFINE q == DirOf(a)
             r == EntryOf(a)
  <2>1. q \in Dir /\ r \in Entry /\ a = q * NrEntries + r
    BY <1>3, AddrParts
  <2> HIDE DEF q, r
  <2>2. q \in Nat /\ r \in Nat /\ r < NrEntries
    BY <1>1, <2>1 DEF Dir, Entry
  <2>3. (q - d) * NrEntries = e - r
    BY <1>1, <2>1, <2>2, Z3
  <2>4. q = d
    <3>1. CASE q > d
      <4>1. PICK k \in Nat : q - d = 1 + k
        <5>1. q - d - 1 \in Nat
          BY <1>1, <2>2, <3>1
        <5> QED
          BY <1>1, <2>2, <5>1
      <4>2. (q - d) * NrEntries = NrEntries + k * NrEntries /\ k * NrEntries >= 0
        BY <1>1, <4>1, Z3
      <4>3. k * NrEntries \in Int
        BY <1>1
      <4> QED
        BY <1>1, <2>2, <2>3, <4>2, <4>3
    <3>2. CASE q < d
      <4>1. PICK k \in Nat : q - d = - (1 + k)
        <5>1. d - q - 1 \in Nat
          BY <1>1, <2>2, <3>2
        <5> QED
          BY <1>1, <2>2, <5>1
      <4>2. (q - d) * NrEntries = - NrEntries - k * NrEntries /\ k * NrEntries >= 0
        BY <1>1, <4>1, Z3
      <4>3. k * NrEntries \in Int
        BY <1>1
      <4> QED
        BY <1>1, <2>2, <2>3, <4>2, <4>3
    <3> QED
      BY <1>1, <2>2, <3>1, <3>2
  <2>5. r = e
    <3>1. d * NrEntries \in Int
      BY <1>1
    <3> QED
      BY <1>1, <2>1, <2>2, <2>4, <3>1
  <2> QED
    BY <2>4, <2>5 DEF q, r, DirOf, EntryOf
<1> QED
  BY <1>3, <1>4 DEF DirOf, EntryOf

(* The places in the region of t; Uses counts those that have a page.        *)
Region(t) == {u \in Place : (u[1] = "pte" \/ u[1] = "dir") /\ u[2] = t}

(* These are the page table entries and directory entries of t.              *)
LEMMA RegionPlaces ==
  ASSUME NEW t \in Task
  PROVE  /\ \A d \in Dir, e \in Entry : Pte(t, d, e) \in Region(t)
         /\ \A d \in Dir : DirP(t, d) \in Region(t)
         /\ \A u \in Region(t) : \/ \E d \in Dir, e \in Entry : u = Pte(t, d, e)
                                 \/ \E d \in Dir : u = DirP(t, d)
         /\ \A u \in Place \ Region(t) : \/ \E s \in Task \ {t}, d \in Dir, e \in Entry : u = Pte(s, d, e)
                                         \/ \E s \in Task \ {t}, d \in Dir : u = DirP(s, d)
                                         \/ \E s \in Task : u = Tss(s)
                                         \/ \E s \in Task, i \in ArgNr : u = Arg(s, i)
<1>1. \A s \in Task, d \in Dir, e \in Entry : Pte(s, d, e)[1] = "pte" /\ Pte(s, d, e)[2] = s
  BY DEF Pte
<1>2. \A s \in Task, d \in Dir : DirP(s, d)[1] = "dir" /\ DirP(s, d)[2] = s
  BY DEF DirP
<1>3. \A s \in Task : Tss(s)[1] # "pte" /\ Tss(s)[1] # "dir"
  BY DEF Tss
<1>4. \A s \in Task, i \in ArgNr : Arg(s, i)[1] # "pte" /\ Arg(s, i)[1] # "dir"
  BY DEF Arg
<1>5. ASSUME NEW u \in Region(t)
      PROVE  \/ \E d \in Dir, e \in Entry : u = Pte(t, d, e)
             \/ \E d \in Dir : u = DirP(t, d)
  BY <1>1, <1>2, <1>3, <1>4, PlaceKinds DEF Region
<1>6. ASSUME NEW u \in Place \ Region(t)
      PROVE  \/ \E s \in Task \ {t}, d \in Dir, e \in Entry : u = Pte(s, d, e)
             \/ \E s \in Task \ {t}, d \in Dir : u = DirP(s, d)
             \/ \E s \in Task : u = Tss(s)
             \/ \E s \in Task, i \in ArgNr : u = Arg(s, i)
  BY <1>1, <1>2, PlaceKinds DEF Region
<1> QED
  BY <1>1, <1>2, <1>5, <1>6, PlaceKinds DEF Region

(* What free_page_tables() takes off a count is what the region has of it.   *)
LEMMA UsesCount ==
  ASSUME NEW m, NEW T, NEW A, NEW t \in Task, NEW p \in Paged
  PROVE  Uses(m, t, p) = Cardinality(Of(Region(t), Ref(m, T, A), p))
<1> DEFINE H == {a \in Addr : PTEof(m, t, a).page = p}
           C == {d \in Dir : m.dir[t][d] = p}
           P == {u \in Place : u[1] = "pte" /\ u[2] = t /\ Ref(m, T, A)[u] = p}
           D == {u \in Place : u[1] = "dir" /\ u[2] = t /\ Ref(m, T, A)[u] = p}
           h == [a \in H |-> Pte(t, DirOf(a), EntryOf(a))]
           k == [d \in C |-> DirP(t, d)]
<1>0. p # 0
  BY Numbers
<1>1. \A a \in Addr : PTEof(m, t, a).page = p <=> Ref(m, T, A)[Pte(t, DirOf(a), EntryOf(a))] = p
  <2>1. TAKE a \in Addr
  <2>2. DirOf(a) \in Dir /\ EntryOf(a) \in Entry
    BY AddrParts
  <2>3. Ref(m, T, A)[Pte(t, DirOf(a), EntryOf(a))]
          = IF m.dir[t][DirOf(a)] = 0 THEN 0 ELSE m.table[m.dir[t][DirOf(a)]][EntryOf(a)].page
    BY <2>2, RefAt
  <2> QED
    BY <1>0, <2>3 DEF PTEof, Absent
<1>2. \A u \in Place : u[1] = "pte" /\ u[2] = t => \E d \in Dir, e \in Entry : u = Pte(t, d, e)
  <2>1. TAKE u \in Place
  <2>2. ASSUME u[1] = "pte" /\ u[2] = t
        PROVE  u \in Region(t)
    BY <2>2 DEF Region
  <2>3. \A d \in Dir : DirP(t, d)[1] # "pte"
    BY DEF DirP
  <2> QED
    BY <2>2, <2>3, RegionPlaces
<1>3. \A u \in Place : u[1] = "dir" /\ u[2] = t => \E d \in Dir : u = DirP(t, d)
  <2>1. TAKE u \in Place
  <2>2. ASSUME u[1] = "dir" /\ u[2] = t
        PROVE  u \in Region(t)
    BY <2>2 DEF Region
  <2>3. \A d \in Dir, e \in Entry : Pte(t, d, e)[1] # "dir"
    BY DEF Pte
  <2> QED
    BY <2>2, <2>3, RegionPlaces
<1>4. h \in Bijection(H, P)
  <2>1. ASSUME NEW a \in H PROVE h[a] \in P
    <3>1. DirOf(a) \in Dir /\ EntryOf(a) \in Entry
      BY AddrParts
    <3>2. Pte(t, DirOf(a), EntryOf(a)) \in Place
      BY <3>1, PlaceKinds
    <3>3. Pte(t, DirOf(a), EntryOf(a))[1] = "pte" /\ Pte(t, DirOf(a), EntryOf(a))[2] = t
      BY DEF Pte
    <3> QED
      BY <1>1, <3>2, <3>3
  <2>2. ASSUME NEW a \in H, NEW b \in H, h[a] = h[b] PROVE a = b
    <3>1. DirOf(a) \in Dir /\ EntryOf(a) \in Entry /\ a = DirOf(a) * NrEntries + EntryOf(a)
            /\ DirOf(b) \in Dir /\ EntryOf(b) \in Entry /\ b = DirOf(b) * NrEntries + EntryOf(b)
      BY AddrParts
    <3>2. Pte(t, DirOf(a), EntryOf(a)) = Pte(t, DirOf(b), EntryOf(b))
      BY <2>2
    <3>3. DirOf(a) = DirOf(b) /\ EntryOf(a) = EntryOf(b)
      BY <3>1, <3>2, PlaceDistinct
    <3> QED
      BY <3>1, <3>3
  <2>3. ASSUME NEW u \in P PROVE \E a \in H : h[a] = u
    <3>1. PICK d \in Dir, e \in Entry : u = Pte(t, d, e)
      BY <1>2
    <3>2. PICK a \in Addr : DirOf(a) = d /\ EntryOf(a) = e
      BY AddrOf
    <3>3. a \in H
      BY <1>1, <3>1, <3>2
    <3> QED
      BY <3>1, <3>2, <3>3
  <2>4. h \in [H -> P]
    BY <2>1
  <2> HIDE DEF h, H, P
  <2> QED
    BY <2>2, <2>3, <2>4 DEF Bijection, Injection, Surjection, IsInjective
<1>5. k \in Bijection(C, D)
  <2>1. ASSUME NEW d \in C PROVE k[d] \in D
    <3>1. DirP(t, d) \in Place
      BY PlaceKinds
    <3>2. Ref(m, T, A)[DirP(t, d)] = p
      BY RefAt
    <3>3. DirP(t, d)[1] = "dir" /\ DirP(t, d)[2] = t
      BY DEF DirP
    <3> QED
      BY <3>1, <3>2, <3>3
  <2>2. ASSUME NEW c \in C, NEW d \in C, k[c] = k[d] PROVE c = d
    BY <2>2, PlaceDistinct
  <2>3. ASSUME NEW u \in D PROVE \E d \in C : k[d] = u
    <3>1. PICK d \in Dir : u = DirP(t, d)
      BY <1>3
    <3>2. m.dir[t][d] = p
      BY <3>1, RefAt
    <3> QED
      BY <3>1, <3>2
  <2>4. k \in [C -> D]
    BY <2>1
  <2> HIDE DEF k, C, D
  <2> QED
    BY <2>2, <2>3, <2>4 DEF Bijection, Injection, Surjection, IsInjective
<1>6. IsFiniteSet(P) /\ IsFiniteSet(D)
  BY PlacesFinite, FS_Subset
<1>7. P \intersect D = {} /\ Of(Region(t), Ref(m, T, A), p) = P \union D
  BY DEF Region, Of
<1>8. IsFiniteSet(C) /\ IsFiniteSet(H)
  <2>1. IsFiniteSet(Dir) /\ IsFiniteSet(Addr)
    <3>1. 0 \in Int /\ NrTables - 1 \in Int /\ NrTables * NrEntries - 1 \in Int
      BY MemoryAssumption
    <3> QED
      BY <3>1, FS_Interval DEF Dir, Addr
  <2> QED
    BY <2>1, FS_Subset
<1> HIDE DEF H, C, P, D, h, k
<1>9. Cardinality(H) = Cardinality(P) /\ Cardinality(C) = Cardinality(D)
  BY <1>4, <1>5, <1>6, <1>8, FS_Bijection DEF ExistsBijection
<1>10. Cardinality(P \union D) = Cardinality(P) + Cardinality(D)
  <2>1. Cardinality(P \union D) = Cardinality(P) + Cardinality(D) - Cardinality(P \intersect D)
    BY <1>6, FS_Union
  <2>2. Cardinality(P \intersect D) = 0
    BY <1>7, FS_EmptySet
  <2>3. Cardinality(P) \in Nat /\ Cardinality(D) \in Nat
    BY <1>6, FS_CardinalityType
  <2> QED
    BY <2>1, <2>2, <2>3
<1> QED
  BY <1>7, <1>9, <1>10 DEF Uses, H, C

-----------------------------------------------------------------------------
(* free_page_tables() counts off what the region has, and clears it.         *)
LEMMA FreeTablesKeeps ==
  ASSUME NEW m, NEW T, NEW A, Kept(m, T, A), NEW t \in Task \ {Swapper}
  PROVE  LET g == FreePageTables(m, t) IN
         Moves(m, g, t, T, A) /\ \A d \in Dir : g.dir[t][d] = 0
<1> DEFINE g == FreePageTables(m, t)
<1>1. m \in Mem /\ Backed(Ref(m, T, A), m.map) /\ Alone(Ref(m, T, A), Owning(m))
  BY DEF Kept, Counts
<1>2. /\ g.map = [p \in Paged |-> m.map[p] - Uses(m, t, p)]
      /\ g.dir = [m.dir EXCEPT ![t] = [d \in Dir |-> 0]]
      /\ g.table \in [Paged \union {Pg0} -> [Entry -> PTE]] /\ g.data = m.data
      /\ \A q \in Paged \union {Pg0} : g.table[q] = m.table[q] \/ g.table[q] = Blank
      /\ g = [map |-> g.map, table |-> g.table, data |-> g.data, dir |-> g.dir]
  <2> DEFINE mp == [p \in Paged |-> m.map[p] - Uses(m, t, p)]
             tb == [p \in DOMAIN m.table |-> IF \E d \in Dir : m.dir[t][d] = p THEN Blank ELSE m.table[p]]
             dr == [m.dir EXCEPT ![t] = [d \in Dir |-> 0]]
  <2>1. g = [m EXCEPT !.map = mp, !.table = tb, !.dir = dr]
    BY <1>1 DEF FreePageTables, Mem
  <2>2. /\ tb \in [Paged \union {Pg0} -> [Entry -> PTE]]
        /\ \A q \in Paged \union {Pg0} : tb[q] = m.table[q] \/ tb[q] = Blank
    BY <1>1, Numbers DEF Mem
  <2> HIDE DEF g, mp, tb, dr
  <2>3. /\ g.map = mp /\ g.table = tb /\ g.dir = dr /\ g.data = m.data
        /\ g = [map |-> g.map, table |-> g.table, data |-> g.data, dir |-> g.dir]
    BY <1>1, <2>1 DEF Mem
  <2> QED
    BY <2>2, <2>3 DEF mp, dr
<1> HIDE DEF g
<1>3. /\ g.dir \in [Task -> [Dir -> Paged \union {0, Pg0}]]
      /\ \A d \in Dir : g.dir[t][d] = 0
      /\ \A s \in Task \ {t} : g.dir[s] = m.dir[s]
  BY <1>1, <1>2 DEF Mem
<1>4. \A p \in Paged : g.map[p] = m.map[p] - Cardinality(Of(Region(t), Ref(m, T, A), p))
  <2>1. TAKE p \in Paged
  <2>2. Uses(m, t, p) = Cardinality(Of(Region(t), Ref(m, T, A), p))
    BY UsesCount
  <2> QED
    BY <1>2, <2>2
<1>5. \A q \in Paged \union {Pg0}, e \in Entry :
        g.table[q][e] = m.table[q][e] \/ (g.table[q][e].page = 0 /\ ~g.table[q][e].w)
  BY <1>2 DEF Blank, Absent
<1>6. \A u \in Region(t) : Ref(g, T, A)[u] = 0
  BY <1>3, RegionPlaces, RefAt
<1>7. \A u \in Place : Ref(g, T, A)[u] \in {Ref(m, T, A)[u], 0}
  <2>1. ASSUME NEW s \in Task \ {t}, NEW d \in Dir, NEW e \in Entry
        PROVE  Ref(g, T, A)[Pte(s, d, e)] \in {Ref(m, T, A)[Pte(s, d, e)], 0}
    <3>1. m.dir[s][d] \in Paged \union {0, Pg0}
      BY <1>1 DEF Mem
    <3>2. Ref(g, T, A)[Pte(s, d, e)] = IF m.dir[s][d] = 0 THEN 0 ELSE g.table[m.dir[s][d]][e].page
      BY <1>3, RefAt
    <3>3. Ref(m, T, A)[Pte(s, d, e)] = IF m.dir[s][d] = 0 THEN 0 ELSE m.table[m.dir[s][d]][e].page
      BY RefAt
    <3> QED
      BY <1>5, <3>1, <3>2, <3>3
  <2>2. ASSUME NEW s \in Task \ {t}, NEW d \in Dir
        PROVE  Ref(g, T, A)[DirP(s, d)] = Ref(m, T, A)[DirP(s, d)]
    BY <1>3, RefAt
  <2>3. /\ \A s \in Task : Ref(g, T, A)[Tss(s)] = Ref(m, T, A)[Tss(s)]
        /\ \A s \in Task, i \in ArgNr : Ref(g, T, A)[Arg(s, i)] = Ref(m, T, A)[Arg(s, i)]
    BY RefAt
  <2> QED
    BY <1>6, <2>1, <2>2, <2>3, RegionPlaces
<1>8. ASSUME NEW s \in Task, NEW d \in Dir, NEW e \in Entry, Writable(g, s, d, e)
      PROVE  s # t /\ Writable(m, s, d, e) /\ g.table[g.dir[s][d]][e] = m.table[m.dir[s][d]][e]
  <2>1. s # t
    BY <1>3, <1>8 DEF Writable
  <2>2. m.dir[s][d] \in Paged \union {0, Pg0}
    BY <1>1 DEF Mem
  <2> QED
    BY <1>3, <1>5, <1>8, <2>1, <2>2 DEF Writable
<1>9. \A u \in Owning(g) : u \in Owning(m) \/ u \in {}
  BY <1>8, OwningLess
<1>10. Owning(g) \in SUBSET Place /\ Region(t) \in SUBSET Place
  BY DEF Owning, Region
<1>11. Backed(Ref(g, T, A), g.map) /\ Alone(Ref(g, T, A), Owning(g)) /\ \A p \in Paged : g.map[p] \in Nat
  <2>1. m.map \in [Paged -> Nat]
    BY <1>1 DEF Mem
  <2>2. Emptied(Ref(m, T, A), Ref(g, T, A), m.map, g.map, Owning(m), Owning(g), Region(t))
    BY <1>1, <1>4, <1>6, <1>7, <1>9, <1>10, <2>1 DEF Emptied
  <2> QED
    BY ONLY <2>2, Subtracted
<1>12. g \in Mem
  <2>1. g.map \in [Paged -> Nat]
    BY <1>2, <1>11
  <2> QED
    BY <1>1, <1>2, <1>3, <2>1 DEF Mem
<1>13. Programs(g)
  <2>1. ASSUME NEW s \in Task \ {Swapper}, NEW d \in Dir
        PROVE  g.dir[s][d] # Pg0
    <3>1. CASE s = t
      BY <1>3, <3>1, Numbers
    <3>2. CASE s # t
      BY <1>3, <3>2 DEF Kept, Programs
    <3> QED
      BY <3>1, <3>2
  <2>2. ASSUME NEW s \in Task \ {Swapper}, NEW d \in Dir, NEW e \in Entry, Writable(g, s, d, e)
        PROVE  g.table[g.dir[s][d]][e].page \in Paged
    <3>1. Programs(m)
      BY DEF Kept
    <3>2. m.table[m.dir[s][d]][e].page \in Paged
      BY <1>8, <2>2, <3>1 DEF Programs
    <3> QED
      BY <1>8, <2>2, <3>2
  <2> QED
    BY <2>1, <2>2 DEF Programs
<1> QED
  BY <1>3, <1>11, <1>12, <1>13 DEF g, Moves, Kept, Counts

(* One page table of fork: the child's entries are those of the father, and  *)
(* neither may write to what both have.                                      *)
LEMMA CopyTableKeeps ==
  ASSUME NEW m, NEW T, NEW A, Kept(m, T, A), NEW from \in Task, NEW to \in Task \ {Swapper, from},
         NEW d \in Dir, m.dir[from][d] # 0, Free(m) # {}
  PROVE  Moves(m, CopyTable(m, from, to, d), to, T, A)
<1> DEFINE src == m.dir[from][d]
           dst == NextFree(m)
           g == GetFreePage(m)
           h == [g EXCEPT !.dir[to][d] = dst]
           c == CopyTable(m, from, to, d)
           D == {u \in Place : u[1] = "pte" /\ u[2] = to /\ u[3] = d}
<1>1. /\ Kept(g, T, A) /\ Spare(g, T, A, dst) /\ Ref(g, T, A) = Ref(m, T, A)
      /\ g.dir = m.dir /\ g.table[dst] = Blank /\ g.map[dst] = 1
      /\ \A p \in Paged \ {dst} : g.map[p] = m.map[p]
      /\ \A p \in (Paged \union {Pg0}) \ {dst} : g.table[p] = m.table[p]
      /\ dst \in Paged
  BY ONLY Kept(m, T, A), Free(m) # {}, GetKeeps
<1>2. m \in Mem /\ g \in Mem /\ src \in Paged \union {Pg0} /\ src # 0
  BY <1>1 DEF Kept, Mem
<1>3. \A s \in Task, b \in Dir : m.dir[s][b] # dst
  <2>1. TAKE s \in Task, b \in Dir
  <2>2. DirP(s, b) \in Place /\ Ref(g, T, A)[DirP(s, b)] = m.dir[s][b]
    <3>1. DirP(s, b) \in Place
      BY PlaceKinds
    <3>2. Ref(m, T, A)[DirP(s, b)] = m.dir[s][b]
      BY RefAt
    <3> QED
      BY <1>1, <3>1, <3>2
  <2> QED
    BY <1>1, <2>2 DEF Spare, Users, Of
<1>4. src # dst
  BY <1>3
<1> HIDE DEF src, dst, g
<1>5. /\ Kept(h, T, A) /\ h.dir[to][d] = dst /\ \A s \in Task \ {to} : h.dir[s] = g.dir[s]
  BY <1>1, TableKeeps
<1>6. /\ h \in Mem /\ h.map = g.map /\ h.table = g.table /\ h.data = g.data
      /\ h = [map |-> h.map, table |-> h.table, data |-> h.data, dir |-> h.dir]
  <2>1. h \in Mem
    BY <1>5 DEF Kept
  <2>2. h.map = g.map /\ h.table = g.table /\ h.data = g.data
    BY <1>2 DEF Mem
  <2> HIDE DEF h
  <2> QED
    BY <2>1, <2>2 DEF Mem
<1> HIDE DEF h
<1>7. /\ c.map = [p \in Paged |-> g.map[p] + Cardinality({e \in Entry : m.table[src][e].page = p})]
      /\ c.data = h.data /\ c.dir = h.dir
      /\ c.table \in [Paged \union {Pg0} -> [Entry -> PTE]]
      /\ c.table[dst] = [e \in Entry |-> ReadOnly(m.table[src][e])]
      /\ c.table[src] = [e \in Entry |-> IF m.table[src][e].page \in Paged
                                         THEN ReadOnly(m.table[src][e]) ELSE m.table[src][e]]
      /\ \A q \in (Paged \union {Pg0}) \ {src, dst} : c.table[q] = g.table[q]
      /\ c = [map |-> c.map, table |-> c.table, data |-> c.data, dir |-> c.dir]
  <2> DEFINE ro == [e \in Entry |-> ReadOnly(m.table[src][e])]
             kept == [e \in Entry |-> IF m.table[src][e].page \in Paged
                                      THEN ReadOnly(m.table[src][e]) ELSE m.table[src][e]]
             mp == [p \in Paged |-> g.map[p] + Cardinality({e \in Entry : m.table[src][e].page = p})]
             tb == [g.table EXCEPT ![dst] = ro, ![src] = kept]
  <2>1. g.table[src] = m.table[src]
    BY <1>1, <1>2, <1>4
  <2>2. m.table[src] \in [Entry -> PTE]
    BY <1>2 DEF Mem
  <2>3. \A e \in Entry : ReadOnly(m.table[src][e]) \in PTE
    BY <2>2 DEF ReadOnly, PTE
  <2>4. ro \in [Entry -> PTE] /\ kept \in [Entry -> PTE]
    BY <2>2, <2>3
  <2>5. /\ c.map = mp /\ c.table = tb /\ c.data = g.data /\ c.dir = [g.dir EXCEPT ![to][d] = dst]
        /\ c = [map |-> c.map, table |-> c.table, data |-> c.data, dir |-> c.dir]
    <3>1. c.map = mp
      BY <1>2 DEF CopyTable, Mem, src, dst, g
    <3>2. c.data = g.data
      BY <1>2 DEF CopyTable, Mem, src, dst, g
    <3>3. c.dir = [g.dir EXCEPT ![to][d] = dst]
      BY <1>2 DEF CopyTable, Mem, src, dst, g
    <3>4. c.table = tb
      BY <1>2, <1>4, <2>1 DEF CopyTable, Mem, src, dst, g
    <3>5. c = [map |-> c.map, table |-> c.table, data |-> c.data, dir |-> c.dir]
      <4>1. c = [g EXCEPT
                   !.map = [p \in Paged |-> @[p] + Cardinality({e \in Entry : m.table[src][e].page = p})],
                   !.table[dst] = [e \in Entry |-> ReadOnly(m.table[src][e])],
                   !.table[src] = [e \in Entry |-> IF @[e].page \in Paged THEN ReadOnly(@[e]) ELSE @[e]],
                   !.dir[to][d] = dst]
        BY DEF CopyTable, src, dst, g
      <4> HIDE DEF c, src, dst
      <4> QED
        BY <1>2, <4>1 DEF Mem
    <3> QED
      BY <3>1, <3>2, <3>3, <3>4, <3>5
  <2>6. h.dir = [g.dir EXCEPT ![to][d] = dst] /\ h.data = g.data
    BY <1>2 DEF h, Mem
  <2>7. tb \in [Paged \union {Pg0} -> [Entry -> PTE]] /\ tb[dst] = ro /\ tb[src] = kept
          /\ \A q \in (Paged \union {Pg0}) \ {src, dst} : tb[q] = g.table[q]
    <3> HIDE DEF ro, kept
    <3> QED
      BY <1>1, <1>2, <1>4, <2>4 DEF Mem
  <2> HIDE DEF c, h, mp, tb, ro, kept
  <2>8. c.map = mp /\ c.table = tb /\ c.data = h.data /\ c.dir = h.dir
          /\ c = [map |-> c.map, table |-> c.table, data |-> c.data, dir |-> c.dir]
    BY <1>2, <2>5, <2>6 DEF Mem
  <2> QED
    BY <2>7, <2>8 DEF mp, ro, kept
<1> HIDE DEF c
<1>8. \A e \in Entry : /\ c.table[dst][e].page = m.table[src][e].page /\ ~c.table[dst][e].w
                       /\ c.table[src][e].page = m.table[src][e].page
                       /\ c.table[src][e].w => m.table[src][e].w /\ m.table[src][e].page \notin Paged
  <2>1. TAKE e \in Entry
  <2>2. m.table[src][e] \in PTE
    BY <1>2 DEF Mem
  <2>3. ReadOnly(m.table[src][e]).page = m.table[src][e].page /\ ~ReadOnly(m.table[src][e]).w
    BY <2>2 DEF ReadOnly, PTE
  <2> QED
    BY <1>7, <2>3
<1>9. /\ D \in SUBSET Place /\ \A u \in D : \E e \in Entry : u = Pte(to, d, e)
      /\ \A e \in Entry : Pte(to, d, e) \in D
      /\ \A s \in Task, b \in Dir, e \in Entry : Pte(s, b, e) \in D => s = to /\ b = d
      /\ \A s \in Task, b \in Dir : DirP(s, b) \notin D
      /\ \A s \in Task : Tss(s) \notin D
      /\ \A s \in Task, k \in ArgNr : Arg(s, k) \notin D
  <2>1. \A s \in Task, b \in Dir, e \in Entry :
          Pte(s, b, e)[1] = "pte" /\ Pte(s, b, e)[2] = s /\ Pte(s, b, e)[3] = b
    BY DEF Pte
  <2>2. /\ \A s \in Task, b \in Dir : DirP(s, b)[1] # "pte"
        /\ \A s \in Task : Tss(s)[1] # "pte"
        /\ \A s \in Task, k \in ArgNr : Arg(s, k)[1] # "pte"
    BY DEF DirP, Tss, Arg
  <2> QED
    BY <2>1, <2>2, PlaceKinds
<1> HIDE DEF D
<1>10. \A e \in Entry : Ref(c, T, A)[Pte(to, d, e)] = m.table[src][e].page
  <2>1. TAKE e \in Entry
  <2>2. c.dir[to][d] = dst /\ dst # 0
    BY <1>1, <1>5, <1>7, Numbers
  <2>3. Ref(c, T, A)[Pte(to, d, e)] = c.table[dst][e].page
    BY <2>2, RefAt
  <2> QED
    BY <1>8, <2>3
<1>11. \A s \in Task, b \in Dir : s # to \/ b # d =>
         h.dir[s][b] = m.dir[s][b] /\ c.dir[s][b] = m.dir[s][b] /\ m.dir[s][b] \in Paged \union {0, Pg0}
  BY <1>1, <1>2, <1>5, <1>7 DEF h, Mem
<1>12. ASSUME NEW q \in Paged \union {Pg0}, q # dst, NEW e \in Entry
       PROVE  /\ c.table[q][e].page = h.table[q][e].page
              /\ c.table[q][e].w => h.table[q][e].w
              /\ q = src /\ c.table[q][e].w => c.table[q][e].page \notin Paged
  <2>1. h.table[q] = m.table[q]
    BY <1>1, <1>6, <1>12
  <2>2. CASE q = src
    BY <1>8, <2>1, <2>2
  <2>3. CASE q # src
    BY <1>1, <1>7, <1>12, <2>1, <2>3
  <2> QED
    BY <2>2, <2>3
<1>13. \A u \in Place \ D : Ref(c, T, A)[u] = Ref(h, T, A)[u]
  <2>1. ASSUME NEW s \in Task, NEW b \in Dir, NEW e \in Entry, s # to \/ b # d
        PROVE  Ref(c, T, A)[Pte(s, b, e)] = Ref(h, T, A)[Pte(s, b, e)]
    <3>1. CASE m.dir[s][b] = 0
      BY <1>11, <2>1, <3>1, RefAt
    <3>2. CASE m.dir[s][b] # 0
      <4>1. c.table[m.dir[s][b]][e].page = h.table[m.dir[s][b]][e].page
        BY <1>3, <1>11, <1>12, <2>1, <3>2
      <4>2. Ref(c, T, A)[Pte(s, b, e)] = c.table[m.dir[s][b]][e].page
        BY <1>11, <2>1, <3>2, RefAt
      <4>3. Ref(h, T, A)[Pte(s, b, e)] = h.table[m.dir[s][b]][e].page
        BY <1>11, <2>1, <3>2, RefAt
      <4> QED
        BY <4>1, <4>2, <4>3
    <3> QED
      BY <3>1, <3>2
  <2>2. \A s \in Task, b \in Dir : Ref(c, T, A)[DirP(s, b)] = Ref(h, T, A)[DirP(s, b)]
    BY <1>7, RefAt, SMTT(60)
  <2>3. /\ \A s \in Task : Ref(c, T, A)[Tss(s)] = Ref(h, T, A)[Tss(s)]
        /\ \A s \in Task, k \in ArgNr : Ref(c, T, A)[Arg(s, k)] = Ref(h, T, A)[Arg(s, k)]
    BY RefAt
  <2>4. TAKE u \in Place \ D
  <2>5. ASSUME NEW s \in Task, NEW b \in Dir, NEW e \in Entry, u = Pte(s, b, e)
        PROVE  Ref(c, T, A)[u] = Ref(h, T, A)[u]
    BY <1>9, <2>1, <2>5
  <2> QED
    BY <2>2, <2>3, <2>5, PlaceKinds
<1>14. ASSUME NEW s \in Task, NEW b \in Dir, NEW e \in Entry, Writable(c, s, b, e)
       PROVE  /\ s # to \/ b # d
              /\ Writable(h, s, b, e)
              /\ c.table[c.dir[s][b]][e].page = h.table[h.dir[s][b]][e].page
              /\ m.dir[s][b] = src => c.table[c.dir[s][b]][e].page \notin Paged
  <2>1. s # to \/ b # d
    BY <1>5, <1>7, <1>8, <1>14 DEF Writable
  <2>2. c.dir[s][b] = m.dir[s][b] /\ h.dir[s][b] = m.dir[s][b] /\ m.dir[s][b] # 0 /\ m.dir[s][b] # dst
          /\ m.dir[s][b] \in Paged \union {Pg0}
    BY <1>3, <1>11, <1>14, <2>1 DEF Writable
  <2> QED
    BY <1>12, <1>14, <2>1, <2>2 DEF Writable
<1>15. \A u \in Owning(c) : Ref(c, T, A)[u] \in Paged => u \in Owning(h) \ D
  <2>1. TAKE u \in Owning(c)
  <2>2. u \in Owning(h)
    <3>1. \A v \in Owning(c) : v \in Owning(h) \/ v \in {}
      BY <1>14, OwningLess
    <3> QED
      BY <3>1
  <2>3. u \notin D
    <3>1. SUFFICES ASSUME u \in D PROVE FALSE
      OBVIOUS
    <3>2. PICK e \in Entry : u = Pte(to, d, e)
      BY <1>9, <3>1
    <3>3. Writable(c, to, d, e)
      BY <3>2, RefAt
    <3> QED
      BY <1>14, <3>3
  <2> QED
    BY <2>2, <2>3
<1>16. \A u \in D : Ref(c, T, A)[u] \in Paged => \E v \in Place \ Owning(c) : Ref(h, T, A)[v] = Ref(c, T, A)[u]
  <2>1. TAKE u \in D
  <2>2. PICK e \in Entry : u = Pte(to, d, e)
    BY <1>9
  <2>3. HAVE Ref(c, T, A)[u] \in Paged
  <2>4. h.dir[from][d] = src /\ c.dir[from][d] = src
    BY <1>11 DEF src
  <2>5. m.table[src][e].page \in Paged /\ h.table[src] = m.table[src]
    BY <1>1, <1>2, <1>4, <1>6, <1>10, <2>2, <2>3
  <2>6. Ref(h, T, A)[Pte(from, d, e)] = m.table[src][e].page
    <3>1. Ref(h, T, A)[Pte(from, d, e)] = h.table[src][e].page
      BY <1>2, <2>4, RefAt
    <3> QED
      BY <2>5, <3>1
  <2>7. Pte(from, d, e) \notin Owning(c)
    <3>1. ~Writable(c, from, d, e)
      BY <1>8, <2>4, <2>5 DEF Writable
    <3> QED
      BY <3>1, RefAt
  <2>8. Pte(from, d, e) \in Place
    BY PlaceKinds
  <2>9. Ref(c, T, A)[u] = m.table[src][e].page
    BY <1>10, <2>2
  <2> QED
    BY <2>6, <2>7, <2>8, <2>9
<1>17. ASSUME NEW p \in Paged
       PROVE  c.map[p] = h.map[p] + Cardinality(Of(D, Ref(c, T, A), p))
  <2> DEFINE E == {e \in Entry : m.table[src][e].page = p}
             O == Of(D, Ref(c, T, A), p)
             k == [e \in E |-> Pte(to, d, e)]
  <2>1. ASSUME NEW e \in E PROVE k[e] \in O
    BY <1>9, <1>10 DEF Of
  <2>2. ASSUME NEW e \in E, NEW b \in E, k[e] = k[b] PROVE e = b
    BY <2>2, PlaceDistinct
  <2>3. ASSUME NEW u \in O PROVE \E e \in E : k[e] = u
    <3>1. PICK e \in Entry : u = Pte(to, d, e)
      BY <1>9 DEF Of
    <3>2. Ref(c, T, A)[u] = p
      BY DEF Of
    <3>3. e \in E
      BY <1>10, <3>1, <3>2
    <3> QED
      BY <3>1, <3>3
  <2>4. k \in [E -> O]
    BY <2>1
  <2>5. IsFiniteSet(E)
    <3>1. 0 \in Int /\ NrEntries - 1 \in Int
      BY MemoryAssumption
    <3>2. IsFiniteSet(Entry)
      BY <3>1, FS_Interval DEF Entry
    <3> QED
      BY <3>2, FS_Subset
  <2>6. c.map[p] = h.map[p] + Cardinality(E)
    BY <1>6, <1>7
  <2> HIDE DEF k, E, O
  <2>7. k \in Bijection(E, O)
    BY <2>2, <2>3, <2>4 DEF Bijection, Injection, Surjection, IsInjective
  <2>8. Cardinality(O) = Cardinality(E)
    BY <2>5, <2>7, FS_Bijection DEF ExistsBijection
  <2> QED
    BY <2>6, <2>8 DEF O
<1>18. /\ Backed(Ref(c, T, A), c.map) /\ Alone(Ref(c, T, A), Owning(c))
       /\ \A p \in Paged : c.map[p] \in Nat
  <2>1. h.map \in [Paged -> Nat] /\ Backed(Ref(h, T, A), h.map) /\ Alone(Ref(h, T, A), Owning(h))
    BY <1>5 DEF Kept, Counts, Mem
  <2>2. Owning(c) \in SUBSET Place /\ D \in SUBSET Place
    BY <1>9 DEF Owning
  <2>3. Joined(Ref(h, T, A), Ref(c, T, A), h.map, c.map, Owning(h), Owning(c), D)
    BY <1>13, <1>15, <1>16, <1>17, <2>1, <2>2 DEF Joined
  <2> QED
    BY ONLY <2>3, Shared
<1>19. c \in Mem
  <2>1. c.map \in [Paged -> Nat]
    BY <1>7, <1>18
  <2> QED
    BY <1>6, <1>7, <2>1 DEF Mem
<1>20. Programs(c)
  <2>1. ASSUME NEW s \in Task \ {Swapper}, NEW b \in Dir
        PROVE  c.dir[s][b] # Pg0
    <3>1. Programs(h)
      BY <1>5 DEF Kept
    <3>2. h.dir[s][b] # Pg0
      BY <3>1 DEF Programs
    <3> QED
      BY <1>7, <3>2
  <2>2. ASSUME NEW s \in Task \ {Swapper}, NEW b \in Dir, NEW e \in Entry, Writable(c, s, b, e)
        PROVE  c.table[c.dir[s][b]][e].page \in Paged
    <3>1. Programs(h)
      BY <1>5 DEF Kept
    <3>2. h.table[h.dir[s][b]][e].page \in Paged
      BY <1>14, <2>2, <3>1 DEF Programs
    <3> QED
      BY <1>14, <2>2, <3>2, SMTT(60)
  <2> QED
    BY <2>1, <2>2 DEF Programs
<1>21. \A s \in Task \ {to} : c.dir[s] = m.dir[s]
  BY <1>1, <1>5, <1>7
<1> QED
  BY <1>5, <1>18, <1>19, <1>20, <1>21 DEF c, Moves, Kept, Counts

(* copy_page_tables() goes over the directory of the father.                 *)
CopyStep(r, d, from, to) ==
  IF ~r.ok \/ r.m.dir[from][d] = 0 THEN r
  ELSE IF Free(r.m) = {} THEN Failed(r.m)
  ELSE Done(CopyTable(r.m, from, to, d))

Copies(h, m, from, to) ==
  h = [n \in 0 .. NrTables |-> IF n = 0 THEN Done(m) ELSE CopyStep(h[n - 1], n - 1, from, to)]

Copying(m, from, to) == CHOOSE h : Copies(h, m, from, to)

(* It is this loop that Memory has as a recursive function.                  *)
LEMMA CopyIsLoop ==
  ASSUME NEW m, NEW from, NEW to
  PROVE  CopyPageTables(m, from, to) = Copying(m, from, to)[NrTables]
BY DEF CopyPageTables, Copying, Copies, CopyStep

Copied(m, to, T, A) == {r \in [ok : BOOLEAN, m : Mem] : Moves(m, r.m, to, T, A)}

(* So the loop has the values one expects, and each keeps the invariant.     *)
LEMMA CopyingKeeps ==
  ASSUME NEW m, NEW T, NEW A, Kept(m, T, A), NEW from \in Task, NEW to \in Task \ {Swapper, from}
  PROVE  LET h == Copying(m, from, to) IN
         /\ h[0] = Done(m)
         /\ \A n \in 1 .. NrTables : n - 1 \in Dir /\ h[n] = CopyStep(h[n - 1], n - 1, from, to)
         /\ \A n \in 0 .. NrTables : h[n] \in Copied(m, to, T, A)
<1> DEFINE V == Copied(m, to, T, A)
<1>1. NrTables \in Nat
  BY MemoryAssumption
<1>2. Done(m) \in V
  BY DEF Copied, Done, Moves, Kept
<1>3. ASSUME NEW r \in V, NEW d \in Dir
      PROVE  CopyStep(r, d, from, to) \in V
  <2>1. r.ok \in BOOLEAN /\ r.m \in Mem /\ Moves(m, r.m, to, T, A)
    BY DEF Copied
  <2>2. CASE ~r.ok \/ r.m.dir[from][d] = 0
    BY <2>2 DEF CopyStep
  <2>3. CASE r.ok /\ r.m.dir[from][d] # 0 /\ Free(r.m) = {}
    BY <2>1, <2>3 DEF CopyStep, Failed, Copied
  <2>4. CASE r.ok /\ r.m.dir[from][d] # 0 /\ Free(r.m) # {}
    <3> DEFINE c == CopyTable(r.m, from, to, d)
    <3>1. Kept(r.m, T, A)
      BY <2>1 DEF Moves
    <3>2. Moves(r.m, c, to, T, A)
      BY <2>4, <3>1, CopyTableKeeps
    <3>3. CopyStep(r, d, from, to) = Done(c)
      BY <2>4 DEF CopyStep
    <3> HIDE DEF c
    <3>4. Moves(m, c, to, T, A) /\ c \in Mem
      BY <2>1, <3>2 DEF Moves, Kept
    <3> QED
      BY <3>3, <3>4 DEF Done, Copied
  <2> QED
    BY <2>1, <2>2, <2>3, <2>4
<1> HIDE DEF V
<1> DEFINE G == [n \in 1 .. NrTables |-> [r \in V |-> CopyStep(r, n - 1, from, to)]]
<1>4. \A n \in 1 .. NrTables : n - 1 \in Dir
  BY <1>1 DEF Dir
<1>5. G \in [1 .. NrTables -> [V -> V]]
  BY <1>3, <1>4
<1>6. PICK f \in [0 .. NrTables -> V] : Numbered(f, G, Done(m), NrTables)
  <2> HIDE DEF G
  <2> QED
    BY <1>1, <1>2, <1>5, NumberedIteration
<1>7. f[0] = Done(m) /\ \A n \in 1 .. NrTables : f[n] = G[n][f[n - 1]]
  BY <1>6 DEF Numbered
<1>8. Copies(f, m, from, to)
  <2> DEFINE g == [n \in 0 .. NrTables |-> IF n = 0 THEN Done(m) ELSE CopyStep(f[n - 1], n - 1, from, to)]
  <2>1. ASSUME NEW n \in 1 .. NrTables PROVE f[n] = CopyStep(f[n - 1], n - 1, from, to)
    <3>1. f[n - 1] \in V
      BY <1>1
    <3> QED
      BY <1>7, <3>1
  <2>2. \A n \in 0 .. NrTables : f[n] = g[n]
    BY <1>1, <1>7, <2>1
  <2>3. f = g
    BY <2>2
  <2> QED
    BY <2>3 DEF Copies
<1> DEFINE h == Copying(m, from, to)
<1>9. Copies(h, m, from, to)
  BY <1>8 DEF Copying
<1> HIDE DEF h
<1>10. h[0] = Done(m) /\ \A n \in 1 .. NrTables : h[n] = CopyStep(h[n - 1], n - 1, from, to)
  BY <1>1, <1>9 DEF Copies
<1> DEFINE R == {n \in 0 .. NrTables : h[n] \in V}
<1>11. 0 \in R
  BY <1>1, <1>2, <1>10
<1>12. ASSUME NEW n \in 1 .. NrTables, n - 1 \in R
       PROVE  n \in R
  <2>1. h[n - 1] \in V /\ n - 1 \in Dir
    BY <1>4, <1>12
  <2>2. CopyStep(h[n - 1], n - 1, from, to) \in V
    BY <1>3, <2>1
  <2>3. h[n] \in V /\ n \in 0 .. NrTables
    BY <1>1, <1>10, <2>2
  <2> QED
    BY <2>3
<1>13. 0 .. NrTables \subseteq R
  <2> HIDE DEF R
  <2> QED
    BY <1>1, <1>11, <1>12, Climbing
<1> QED
  BY <1>4, <1>10, <1>13 DEF V, h

(* So fork does, wherever it stops for lack of a page.                       *)
LEMMA CopyPageTablesKeeps ==
  ASSUME NEW m, NEW T, NEW A, Kept(m, T, A), NEW from \in Task, NEW to \in Task \ {Swapper, from}
  PROVE  LET r == CopyPageTables(m, from, to) IN Moves(m, r.m, to, T, A) /\ r.ok \in BOOLEAN
<1> DEFINE h == Copying(m, from, to)
<1>1. NrTables \in 0 .. NrTables
  BY MemoryAssumption
<1>2. \A n \in 0 .. NrTables : h[n] \in Copied(m, to, T, A)
  BY CopyingKeeps
<1> HIDE DEF h
<1>3. h[NrTables] \in Copied(m, to, T, A)
  BY <1>1, <1>2
<1> QED
  BY <1>3, CopyIsLoop DEF h, Copied

-----------------------------------------------------------------------------
(* Pages enter and leave task[] and the arguments of an execve.              *)
LEMMA RefTss ==
  ASSUME NEW m, NEW T \in [Task -> Paged \union {0}], NEW A, NEW c \in Task,
         NEW U, \A t \in Task : t # c => U[t] = T[t]
  PROVE  /\ Ref(m, U, A)[Tss(c)] = U[c]
         /\ \A u \in Place : u # Tss(c) => Ref(m, U, A)[u] = Ref(m, T, A)[u]
<1>1. Ref(m, U, A)[Tss(c)] = U[c]
  BY RefAt
<1>2. ASSUME NEW u \in Place, u # Tss(c)
      PROVE  Ref(m, U, A)[u] = Ref(m, T, A)[u]
  <2>1. CASE \E t \in Task, d \in Dir, e \in Entry : u = Pte(t, d, e)
    BY <2>1, RefAt
  <2>2. CASE \E t \in Task, d \in Dir : u = DirP(t, d)
    BY <2>2, RefAt
  <2>3. CASE \E t \in Task : u = Tss(t)
    BY <1>2, <2>3, RefAt
  <2>4. CASE \E t \in Task, i \in ArgNr : u = Arg(t, i)
    BY <2>4, RefAt
  <2> QED
    BY <2>1, <2>2, <2>3, <2>4, PlaceKinds
<1> QED
  BY <1>1, <1>2

OtherArgs(A, B, t, i) == \A s \in Task, j \in ArgNr : s # t \/ j # i => B[s][j] = A[s][j]

(* One argument changes one place.                                           *)
LEMMA RefArg ==
  ASSUME NEW m, NEW T, NEW A \in [Task -> [ArgNr -> Paged \union {0}]],
         NEW t \in Task, NEW i \in ArgNr, NEW B,
         OtherArgs(A, B, t, i)
  PROVE  /\ Ref(m, T, B)[Arg(t, i)] = B[t][i]
         /\ \A u \in Place : u # Arg(t, i) => Ref(m, T, B)[u] = Ref(m, T, A)[u]
<1>1. Ref(m, T, B)[Arg(t, i)] = B[t][i]
  BY RefAt
<1>2. ASSUME NEW u \in Place, u # Arg(t, i)
      PROVE  Ref(m, T, B)[u] = Ref(m, T, A)[u]
  <2>1. CASE \E s \in Task, d \in Dir, e \in Entry : u = Pte(s, d, e)
    BY <2>1, RefAt
  <2>2. CASE \E s \in Task, d \in Dir : u = DirP(s, d)
    BY <2>2, RefAt
  <2>3. CASE \E s \in Task : u = Tss(s)
    BY <2>3, RefAt
  <2>4. CASE \E s \in Task, j \in ArgNr : u = Arg(s, j)
    BY <1>2, <2>4, RefAt DEF OtherArgs
  <2> QED
    BY <2>1, <2>2, <2>3, <2>4, PlaceKinds
<1> QED
  BY <1>1, <1>2

(* A page that was just got may become a task structure.                     *)
LEMMA TssGiven ==
  ASSUME NEW m, NEW T, NEW A, Kept(m, T, A), NEW c \in Task, NEW p, Spare(m, T, A, p)
  PROVE  Kept(m, [T EXCEPT ![c] = p], A)
<1> DEFINE U == [T EXCEPT ![c] = p]
           f == Ref(m, T, A)
           g == Ref(m, U, A)
           w == Tss(c)
<1>1. /\ T \in [Task -> Paged \union {0}] /\ m.map \in [Paged -> Nat]
      /\ Backed(f, m.map) /\ Alone(f, Owning(m))
  BY DEF Kept, Counts, Mem
<1>2. p \in Paged /\ m.map[p] >= 1 /\ Users(f, p) = {}
  BY DEF Spare
<1>3. U[c] = p /\ \A t \in Task : t # c => U[t] = T[t]
  BY <1>1
<1>4. U \in [Task -> Paged \union {0}]
  BY <1>1, <1>2
<1> HIDE DEF U
<1>5. g[w] = p /\ \A u \in Place : u # w => g[u] = f[u]
  BY <1>3, <1>1, RefTss
<1>6. w \in Place /\ Owning(m) \in SUBSET Place
  BY PlaceKinds, RefAt
<1> HIDE DEF f, g, w
<1>7. Backed(g, m.map) /\ Alone(g, Owning(m))
  <2>1. Gained(f, g, m.map, Owning(m), Owning(m), w, p)
    BY <1>1, <1>2, <1>5, <1>6 DEF Gained
  <2> QED
    BY ONLY <2>1, Given
<1>8. Kept(m, U, A)
  BY <1>4, <1>7 DEF g, Kept, Counts
<1> QED
  BY <1>8 DEF U

(* It may become an argument.                                                *)
LEMMA ArgGiven ==
  ASSUME NEW m, NEW T, NEW A, Kept(m, T, A), NEW t \in Task, NEW i \in ArgNr, NEW p,
         Spare(m, T, A, p), NEW B \in [Task -> [ArgNr -> Paged \union {0}]],
         OtherArgs(A, B, t, i), B[t][i] = p
  PROVE  Kept(m, T, B)
<1> DEFINE f == Ref(m, T, A)
           g == Ref(m, T, B)
           w == Arg(t, i)
<1>1. /\ A \in [Task -> [ArgNr -> Paged \union {0}]] /\ m.map \in [Paged -> Nat]
      /\ Backed(f, m.map) /\ Alone(f, Owning(m))
  BY DEF Kept, Counts, Mem
<1>2. p \in Paged /\ m.map[p] >= 1 /\ Users(f, p) = {}
  BY DEF Spare
<1>3. g[w] = p /\ \A u \in Place : u # w => g[u] = f[u]
  BY <1>1, RefArg
<1>4. w \in Place /\ Owning(m) \in SUBSET Place
  BY PlaceKinds, RefAt
<1> HIDE DEF f, g, w
<1>5. Backed(g, m.map) /\ Alone(g, Owning(m))
  <2>1. Gained(f, g, m.map, Owning(m), Owning(m), w, p)
    BY <1>1, <1>2, <1>3, <1>4 DEF Gained
  <2> QED
    BY ONLY <2>1, Given
<1> QED
  BY <1>5 DEF g, Kept, Counts

(* An argument page that is taken out is spare: nothing else had it.         *)
LEMMA ArgTaken ==
  ASSUME NEW m, NEW T, NEW A, Kept(m, T, A), NEW t \in Task, NEW i \in ArgNr, A[t][i] \in Paged
  PROVE  LET B == [A EXCEPT ![t][i] = 0] IN Kept(m, T, B) /\ Spare(m, T, B, A[t][i])
<1> DEFINE B == [A EXCEPT ![t][i] = 0]
           p == A[t][i]
           f == Ref(m, T, A)
           g == Ref(m, T, B)
           w == Arg(t, i)
<1>1. /\ A \in [Task -> [ArgNr -> Paged \union {0}]] /\ m.map \in [Paged -> Nat]
      /\ Backed(f, m.map) /\ Alone(f, Owning(m))
  BY DEF Kept, Counts, Mem
<1>2. B[t][i] = 0 /\ OtherArgs(A, B, t, i)
  BY <1>1 DEF OtherArgs
<1>3. B \in [Task -> [ArgNr -> Paged \union {0}]]
  BY <1>1
<1> HIDE DEF B
<1>4. g[w] = 0 /\ \A u \in Place : u # w => g[u] = f[u]
  BY <1>2, <1>1, RefArg
<1>5. w \in Place /\ w \in Owning(m) /\ f[w] = p /\ Owning(m) \in SUBSET Place
  <2>1. w \in Place
    BY PlaceKinds
  <2>2. f[w] = p /\ w \in Owning(m)
    BY RefAt
  <2>3. Owning(m) \in SUBSET Place
    BY RefAt
  <2> QED
    BY <2>1, <2>2, <2>3
<1> HIDE DEF f, g, w, p
<1>6. Backed(g, m.map) /\ Alone(g, Owning(m))
  BY <1>1, <1>4, <1>5, Dropped
<1>7. p \in Paged /\ 0 \notin Paged
  BY Numbers DEF p
<1>8. Users(g, p) = {}
  BY <1>1, <1>4, <1>5, <1>7 DEF Users, Of, Alone
<1>9. m.map[p] >= 1
  <2>1. Users(f, p) # {}
    BY <1>5 DEF Users, Of
  <2>2. Cardinality(Users(f, p)) # 0
    BY <2>1, UsersFinite, FS_EmptySet
  <2>3. Cardinality(Users(f, p)) <= m.map[p] /\ m.map[p] \in Nat
    BY <1>1, <1>7 DEF Backed
  <2> QED
    BY <2>2, <2>3, UsersFinite
<1>10. Kept(m, T, B)
  BY <1>3, <1>6 DEF g, Kept, Counts
<1> QED
  BY <1>7, <1>8, <1>9, <1>10 DEF B, p, g, Spare

(* free_page() of the page of a task structure.                              *)
LEMMA TssTaken ==
  ASSUME NEW m, NEW T, NEW A, Kept(m, T, A), NEW c \in Task
  PROVE  LET g == FreePage(m, T[c]) IN Kept(g, [T EXCEPT ![c] = 0], A) /\ g.dir = m.dir
<1> DEFINE U == [T EXCEPT ![c] = 0]
           p == T[c]
           n == FreePage(m, p)
           f == Ref(m, T, A)
           g == Ref(m, U, A)
           w == Tss(c)
<1>1. /\ T \in [Task -> Paged \union {0}] /\ m \in Mem /\ m.map \in [Paged -> Nat]
      /\ Backed(f, m.map) /\ Alone(f, Owning(m))
  BY DEF Kept, Counts, Mem
<1>2. U[c] = 0 /\ \A t \in Task : t # c => U[t] = T[t]
  BY <1>1
<1>3. U \in [Task -> Paged \union {0}]
  BY <1>1
<1> HIDE DEF U
<1>4. g[w] = 0 /\ \A u \in Place : u # w => g[u] = f[u]
  BY <1>2, <1>1, RefTss, SMTT(60)
<1>5. w \in Place /\ f[w] = p /\ Owning(m) \in SUBSET Place
  BY PlaceKinds, RefAt
<1>6. /\ n.table = m.table /\ n.dir = m.dir /\ n.data = m.data
      /\ n = [map |-> n.map, table |-> n.table, data |-> n.data, dir |-> n.dir]
      /\ DOMAIN n.map = Paged /\ n.map = [q \in Paged |-> n.map[q]]
      /\ \A q \in Paged : n.map[q] = IF q = p THEN m.map[q] - 1 ELSE m.map[q]
  <2>1. CASE p \in Paged
    <3>1. n = [m EXCEPT !.map = [m.map EXCEPT ![p] = m.map[p] - 1]]
      BY <2>1 DEF FreePage
    <3> HIDE DEF n, p
    <3> QED
      BY <1>1, <3>1 DEF Mem
  <2>2. CASE p \notin Paged
    <3>1. n = m
      BY <2>2 DEF FreePage
    <3> HIDE DEF n, p
    <3> QED
      BY <1>1, <2>2, <3>1 DEF Mem
  <2> QED
    BY <2>1, <2>2
<1> HIDE DEF f, g, w, p, n
<1>7. \A q \in Paged : n.map[q] = m.map[q] - Cardinality(Of({w}, f, q))
  <2>1. TAKE q \in Paged
  <2>2. m.map[q] \in Nat /\ n.map[q] = IF q = p THEN m.map[q] - 1 ELSE m.map[q]
    BY <1>1, <1>6
  <2>3. CASE q = p
    <3>1. Of({w}, f, q) = {w}
      BY <1>5, <2>3 DEF Of
    <3>2. Cardinality(Of({w}, f, q)) = 1
      BY <3>1, FS_Singleton
    <3> QED
      BY <2>2, <2>3, <3>2
  <2>4. CASE q # p
    <3>1. Of({w}, f, q) = {}
      BY <1>5, <2>4 DEF Of
    <3>2. Cardinality(Of({w}, f, q)) = 0
      BY <3>1, FS_EmptySet
    <3> QED
      BY <2>2, <2>4, <3>2
  <2> QED
    BY <2>3, <2>4
<1>8. Emptied(f, g, m.map, n.map, Owning(m), Owning(m), {w})
  BY <1>1, <1>4, <1>5, <1>7 DEF Emptied
<1>9. Backed(g, n.map) /\ Alone(g, Owning(m)) /\ \A q \in Paged : n.map[q] \in Nat
  BY ONLY <1>8, Subtracted
<1>10. n \in Mem
  <2>1. n.map \in [Paged -> Nat]
    BY <1>6, <1>9
  <2> QED
    BY <1>1, <1>6, <2>1 DEF Mem
<1>11. Ref(n, U, A) = g /\ Owning(n) = Owning(m) /\ Programs(n)
  <2>1. Ref(n, U, A) = Ref(m, U, A)
    BY <1>6 DEF Ref
  <2>2. Owning(n) = Owning(m)
    BY <1>6 DEF Owning, Writable
  <2>3. Programs(n)
    <3>1. Programs(m)
      BY DEF Kept
    <3>2. \A s \in Task, d \in Dir, e \in Entry : Writable(n, s, d, e) <=> Writable(m, s, d, e)
      BY <1>6 DEF Writable
    <3> QED
      BY <1>6, <3>1, <3>2 DEF Programs
  <2> QED
    BY <2>1, <2>2, <2>3 DEF g
<1>12. A \in [Task -> [ArgNr -> Paged \union {0}]]
  BY DEF Kept
<1> QED
  BY <1>3, <1>6, <1>9, <1>10, <1>11, <1>12 DEF U, n, p, Kept, Counts

-----------------------------------------------------------------------------
(* copy_strings(): the pages it gets are the arguments 1 to i when it has i. *)
Filled(m, v) == [GetFreePage(m) EXCEPT !.data[NextFree(m)] = v]
Fills(h, m, n, v) == h = [i \in 0 .. n |-> IF i = 0 THEN m ELSE Filled(h[i - 1], v)]
Filling(m, n, v) == CHOOSE h : Fills(h, m, n, v)

(* One page is got, and one less is free.                                    *)
LEMMA FilledKeeps ==
  ASSUME NEW m, NEW T, NEW A, Kept(m, T, A), Free(m) # {}, NEW v \in Value
  PROVE  LET g == Filled(m, v) IN
         /\ Kept(g, T, A) /\ Spare(g, T, A, NextFree(m)) /\ g.dir = m.dir
         /\ Free(g) = Free(m) \ {NextFree(m)}
<1> DEFINE g == GetFreePage(m)
           n == NextFree(m)
           h == Filled(m, v)
<1>1. /\ Kept(g, T, A) /\ Spare(g, T, A, n) /\ g.dir = m.dir /\ g.map[n] = 1
      /\ \A p \in Paged \ {n} : g.map[p] = m.map[p]
      /\ m.map[n] = 0 /\ n \in Paged
  BY ONLY Kept(m, T, A), Free(m) # {}, GetKeeps
<1>2. h = [g EXCEPT !.data = [g.data EXCEPT ![n] = v]]
  BY DEF Filled
<1> HIDE DEF g, n, h
<1>3. h \in Mem /\ h.table = g.table /\ h.dir = g.dir /\ h.map = g.map
  BY <1>1, <1>2 DEF Kept, Mem
<1>4. Backed(Ref(g, T, A), h.map)
  BY <1>1, <1>3 DEF Kept, Counts
<1>5. Kept(h, T, A) /\ Ref(h, T, A) = Ref(g, T, A)
  BY <1>1, <1>3, <1>4, SameRefs
<1>6. Free(h) = Free(m) \ {n}
  BY <1>1, <1>3 DEF Free
<1> QED
  BY <1>1, <1>3, <1>5, <1>6 DEF h, n, Spare

(* One round of the loop, whether there is a page or not.                    *)
LEMMA FilledTyped ==
  ASSUME NEW m \in Mem, NEW v \in Value
  PROVE  Filled(m, v) \in Mem
<1> DEFINE n == NextFree(m)
<1>1. Filled(m, v) = [m EXCEPT !.map = [m.map EXCEPT ![n] = 1],
                               !.table = [m.table EXCEPT ![n] = Blank],
                               !.data = [[m.data EXCEPT ![n] = Zero] EXCEPT ![n] = v]]
  BY DEF Filled, GetFreePage
<1> HIDE DEF n
<1>2. /\ [m.map EXCEPT ![n] = 1] \in [Paged -> Nat]
      /\ [m.table EXCEPT ![n] = Blank] \in [Paged \union {Pg0} -> [Entry -> PTE]]
      /\ [[m.data EXCEPT ![n] = Zero] EXCEPT ![n] = v] \in [Page -> Value \union {Zero}]
  BY Numbers DEF Mem
<1> QED
  BY <1>1, <1>2 DEF Mem

(* So the loop has the values one expects.                                   *)
LEMMA FillingIs ==
  ASSUME NEW m \in Mem, NEW n \in Nat, NEW v \in Value
  PROVE  LET h == Filling(m, n, v) IN h[0] = m /\ \A i \in 1 .. n : h[i] = Filled(h[i - 1], v)
<1> DEFINE G == [i \in 1 .. n |-> [k \in Mem |-> Filled(k, v)]]
<1>1. G \in [1 .. n -> [Mem -> Mem]]
  BY FilledTyped
<1>2. PICK f \in [0 .. n -> Mem] : Numbered(f, G, m, n)
  <2> HIDE DEF G
  <2> QED
    BY <1>1, NumberedIteration
<1>3. f[0] = m /\ \A i \in 1 .. n : f[i] = G[i][f[i - 1]]
  BY <1>2 DEF Numbered
<1>4. Fills(f, m, n, v)
  <2> DEFINE g == [i \in 0 .. n |-> IF i = 0 THEN m ELSE Filled(f[i - 1], v)]
  <2>1. ASSUME NEW i \in 1 .. n PROVE f[i] = Filled(f[i - 1], v)
    <3>1. f[i - 1] \in Mem
      OBVIOUS
    <3> QED
      BY <1>3, <3>1
  <2>2. \A i \in 0 .. n : f[i] = g[i]
    BY <1>3, <2>1
  <2>3. f = g
    BY <2>2
  <2> QED
    BY <2>3 DEF Fills
<1> DEFINE h == Filling(m, n, v)
<1>5. Fills(h, m, n, v)
  BY <1>4 DEF Filling
<1> HIDE DEF h
<1>6. h[0] = m /\ \A i \in 1 .. n : h[i] = Filled(h[i - 1], v)
  BY <1>5 DEF Fills
<1> QED
  BY <1>6 DEF h

\* The arguments 1 to i are what h says, the others of t are gone.
Entered(A, t, h, i) ==
  [A EXCEPT ![t] = [j \in ArgNr |-> IF j <= i THEN NextFree(h[j - 1]) ELSE 0]]

(* A task may forget its arguments; their pages stay counted.                *)
LEMMA ArgsDropped ==
  ASSUME NEW m, NEW T, NEW A, Kept(m, T, A), NEW t \in Task
  PROVE  Kept(m, T, [A EXCEPT ![t] = [j \in ArgNr |-> 0]])
<1> DEFINE B == [A EXCEPT ![t] = [j \in ArgNr |-> 0]]
           f == Ref(m, T, A)
           g == Ref(m, T, B)
<1>1. /\ A \in [Task -> [ArgNr -> Paged \union {0}]] /\ m.map \in [Paged -> Nat]
      /\ Backed(f, m.map) /\ Alone(f, Owning(m))
  BY DEF Kept, Counts, Mem
<1>2. B \in [Task -> [ArgNr -> Paged \union {0}]]
        /\ \A s \in Task, j \in ArgNr : B[s][j] \in {A[s][j], 0}
  BY <1>1
<1>3. Owning(m) \in SUBSET Place
  BY RefAt
<1> HIDE DEF B
<1>4. ASSUME NEW u \in Place PROVE g[u] \in {f[u], 0}
  <2>1. CASE \E s \in Task, d \in Dir, e \in Entry : u = Pte(s, d, e)
    BY <2>1, RefAt
  <2>2. CASE \E s \in Task, d \in Dir : u = DirP(s, d)
    BY <2>2, RefAt
  <2>3. CASE \E s \in Task : u = Tss(s)
    BY <2>3, RefAt
  <2>4. CASE \E s \in Task, j \in ArgNr : u = Arg(s, j)
    BY <1>2, <2>4, RefAt
  <2> QED
    BY <2>1, <2>2, <2>3, <2>4, PlaceKinds
<1> HIDE DEF f, g
<1>5. Backed(g, m.map) /\ Alone(g, Owning(m))
  BY <1>1, <1>3, <1>4, Dropped
<1> QED
  BY <1>2, <1>5 DEF B, g, Kept, Counts

(* With enough pages, n rounds make n arguments, each a page of its own.     *)
LEMMA FillingKeeps ==
  ASSUME NEW m, NEW T, NEW A, Kept(m, T, A), NEW t \in Task, NEW n \in 0 .. MAX_ARG_PAGES,
         n <= Cardinality(Free(m)), NEW v \in Value
  PROVE  LET h == Filling(m, n, v) IN
         /\ Kept(h[n], T, Entered(A, t, h, n)) /\ h[n].dir = m.dir
         /\ \A i \in 1 .. n : NextFree(h[i - 1]) \in Paged
         /\ \A i \in 1 .. n : Kept(h[i - 1], T, Entered(A, t, h, i - 1)) /\ Free(h[i - 1]) # {}
<1> DEFINE h == Filling(m, n, v)
           K == Cardinality(Free(m))
           Good(i) == /\ Kept(h[i], T, Entered(A, t, h, i)) /\ h[i].dir = m.dir
                      /\ IsFiniteSet(Free(h[i])) /\ Cardinality(Free(h[i])) = K - i
                      /\ \A j \in 1 .. i : NextFree(h[j - 1]) \in Paged
           R == {i \in 0 .. n : Good(i)}
<1>0. n \in Nat /\ MAX_ARG_PAGES \in Nat /\ m \in Mem
  BY MemoryAssumption DEF Kept
<1>1. h[0] = m /\ \A i \in 1 .. n : h[i] = Filled(h[i - 1], v)
  BY <1>0, FillingIs
<1>2. IsFiniteSet(Free(m)) /\ K \in Nat
  <2>1. IsFiniteSet(Paged)
    <3>1. 1 \in Int /\ PAGING_PAGES \in Int
      BY MemoryAssumption
    <3> QED
      BY <3>1, FS_Interval DEF Paged
  <2> QED
    BY <2>1, FS_Subset, FS_CardinalityType DEF Free
<1> HIDE DEF h, K
<1>3. 0 \in R
  <2>1. Entered(A, t, h, 0) = [A EXCEPT ![t] = [j \in ArgNr |-> 0]]
    <3>1. \A j \in ArgNr : ~(j <= 0)
      BY DEF ArgNr
    <3> QED
      BY <3>1 DEF Entered
  <2>2. Kept(m, T, Entered(A, t, h, 0))
    BY <2>1, ArgsDropped
  <2> QED
    BY <1>0, <1>1, <1>2, <2>2 DEF K
<1>4. ASSUME NEW i \in 1 .. n, i - 1 \in R
      PROVE  i \in R
  <2> DEFINE k == h[i - 1]
             B == Entered(A, t, h, i - 1)
             p == NextFree(k)
  <2>1. Kept(k, T, B) /\ k.dir = m.dir /\ IsFiniteSet(Free(k)) /\ Cardinality(Free(k)) = K - (i - 1)
          /\ \A j \in 1 .. i - 1 : NextFree(h[j - 1]) \in Paged
    BY <1>4
  <2>2. Free(k) # {}
    BY <1>0, <1>2, <2>1, FS_EmptySet, n <= K DEF K
  <2>3. h[i] = Filled(k, v)
    BY <1>1
  <2>4. i \in ArgNr
    BY <1>0 DEF ArgNr
  <2>5. Kept(h[i], T, B) /\ Spare(h[i], T, B, p) /\ h[i].dir = k.dir /\ Free(h[i]) = Free(k) \ {p}
    <3> HIDE DEF k, B
    <3> QED
      BY <2>1, <2>2, <2>3, FilledKeeps
  <2>6. p \in Free(k)
    BY <2>2, NextFreeIsFree
  <2>7. IsFiniteSet(Free(h[i])) /\ Cardinality(Free(h[i])) = K - i
    <3>1. IsFiniteSet(Free(k) \ {p}) /\ Cardinality(Free(k) \ {p}) = Cardinality(Free(k)) - 1
      BY <2>1, <2>6, FS_RemoveElement
    <3> QED
      BY <1>0, <1>2, <2>1, <2>5, <3>1
  <2> DEFINE C == Entered(A, t, h, i)
  <2>8. C \in [Task -> [ArgNr -> Paged \union {0}]] /\ OtherArgs(B, C, t, i) /\ C[t][i] = p
    <3>1. \A j \in ArgNr : j \in Int
      BY <1>0 DEF ArgNr
    <3>2. A \in [Task -> [ArgNr -> Paged \union {0}]]
      BY DEF Kept
    <3>3. /\ B[t] = [j \in ArgNr |-> IF j <= i - 1 THEN NextFree(h[j - 1]) ELSE 0]
          /\ C[t] = [j \in ArgNr |-> IF j <= i THEN NextFree(h[j - 1]) ELSE 0]
          /\ \A s \in Task \ {t} : B[s] = A[s] /\ C[s] = A[s]
      BY <3>2 DEF Entered
    <3>4. OtherArgs(B, C, t, i)
      <4>1. ASSUME NEW j \in ArgNr, j # i PROVE C[t][j] = B[t][j]
        BY <3>1, <3>3, <4>1
      <4> HIDE DEF B, C
      <4> QED
        BY <3>3, <4>1 DEF OtherArgs
    <3>5. C[t][i] = p
      BY <2>4, <3>1, <3>3
    <3>6. \A j \in ArgNr : C[t][j] \in Paged \union {0}
      <4>1. ASSUME NEW j \in ArgNr PROVE C[t][j] \in Paged \union {0}
        <5>1. CASE j <= i
          <6>1. j \in 1 .. i
            BY <3>1, <5>1 DEF ArgNr
          <6>2. NextFree(h[j - 1]) \in Paged
            <7>1. p \in Paged
              BY <2>5 DEF Spare
            <7> QED
              BY <2>1, <6>1, <7>1
          <6> QED
            BY <3>3, <5>1, <6>2
        <5>2. CASE ~(j <= i)
          BY <3>3, <5>2
        <5> QED
          BY <5>1, <5>2
      <4> QED
        BY <4>1
    <3>7. C \in [Task -> [ArgNr -> Paged \union {0}]]
      <4> DEFINE D == [j \in ArgNr |-> IF j <= i THEN NextFree(h[j - 1]) ELSE 0]
      <4>1. C = [A EXCEPT ![t] = D]
        BY DEF Entered
      <4>2. D \in [ArgNr -> Paged \union {0}]
        <5>1. \A j \in ArgNr : D[j] \in Paged \union {0}
          BY <3>3, <3>6
        <5> QED
          BY <5>1
      <4> HIDE DEF C, D
      <4> QED
        BY <3>2, <4>1, <4>2
    <3> QED
      BY <3>4, <3>5, <3>7
  <2>9. Kept(h[i], T, C)
    <3> HIDE DEF B, C, p
    <3> QED
      BY <2>4, <2>5, <2>8, ArgGiven
  <2>10. \A j \in 1 .. i : NextFree(h[j - 1]) \in Paged
    <3>1. NextFree(h[i - 1]) \in Paged
      BY <2>5 DEF Spare
    <3> QED
      BY <2>1, <3>1
  <2>11. Good(i)
    BY <2>1, <2>5, <2>7, <2>9, <2>10
  <2>12. i \in 0 .. n
    BY <1>0
  <2> HIDE DEF Good
  <2> QED
    BY <2>11, <2>12
<1>5. 0 .. n \subseteq R
  <2> HIDE DEF R
  <2> QED
    BY <1>0, <1>3, <1>4, Climbing
<1>6. n \in R
  BY <1>0, <1>5
<1>7. ASSUME NEW i \in 1 .. n
      PROVE  Kept(h[i - 1], T, Entered(A, t, h, i - 1)) /\ Free(h[i - 1]) # {}
  <2>1. i - 1 \in R
    <3>1. i - 1 \in 0 .. n
      BY <1>0
    <3> QED
      BY <1>5, <3>1
  <2>2. Kept(h[i - 1], T, Entered(A, t, h, i - 1)) /\ Cardinality(Free(h[i - 1])) = K - (i - 1)
    BY <2>1
  <2>3. Cardinality(Free(h[i - 1])) # 0
    BY <1>0, <1>2, <2>2, n <= K DEF K
  <2> QED
    BY <2>2, <2>3, FS_EmptySet
<1> QED
  BY <1>6, <1>7 DEF h

-----------------------------------------------------------------------------
(* The arguments of a task are pages, no more than there is room for.        *)
LEMMA PagesListed ==
  ASSUME NEW ps, ps \in Seq(Paged), Len(ps) <= MAX_ARG_PAGES
  PROVE  /\ Len(ps) \in Nat /\ MAX_ARG_PAGES \in Nat
         /\ \A i \in 1 .. Len(ps) : ps[i] \in Paged /\ i \in ArgNr /\ i \in 1 .. MAX_ARG_PAGES + 1
<1>1. Len(ps) \in Nat /\ \A i \in 1 .. Len(ps) : ps[i] \in Paged
  OBVIOUS
<1>2. MAX_ARG_PAGES \in Nat
  BY MemoryAssumption
<1> DEFINE n == Len(ps)
<1>3. n \in Nat /\ n <= MAX_ARG_PAGES
  BY <1>1
<1> HIDE DEF n
<1>4. \A i \in 1 .. n : i \in ArgNr /\ i \in 1 .. MAX_ARG_PAGES + 1
  BY <1>2, <1>3 DEF ArgNr
<1> QED
  BY <1>1, <1>2, <1>4 DEF n

(* change_ldt(): each argument page leaves the list for a page table.        *)
PutAt(m, t, p, i) == PutPage(m, p, t, StackPage(i)).m
Puts(h, m, t, ps) ==
  h = [i \in 0 .. Len(ps) |-> IF i = 0 THEN FreePageTables(m, t) ELSE PutAt(h[i - 1], t, ps[i], i)]
Putting(m, t, ps) == CHOOSE h : Puts(h, m, t, ps)

(* They are put at addresses of the program.                                 *)
LEMMA StackInRegion ==
  ASSUME NEW i \in 1 .. MAX_ARG_PAGES + 1
  PROVE  StackPage(i) \in Addr
<1>1. /\ MAX_ARG_PAGES \in Nat /\ MAX_ARG_PAGES < NrEntries
      /\ NrEntries \in Nat \ {0} /\ NrTables \in Nat \ {0}
  BY MemoryAssumption
<1>2. i \in Nat /\ i >= 1 /\ i <= NrEntries
  BY <1>1
<1>3. PICK k \in Nat : NrTables = 1 + k
  <2>1. NrTables - 1 \in Nat
    BY <1>1
  <2> QED
    BY <1>1, <2>1
<1>4. NrTables * NrEntries = NrEntries + k * NrEntries
  BY <1>1, <1>3, Z3
<1>5. k * NrEntries \in Nat
  BY <1>1, <1>3, Z3
<1> DEFINE z == k * NrEntries
           y == NrTables * NrEntries
<1>6. z \in Nat /\ y = NrEntries + z
  BY <1>4, <1>5
<1> HIDE DEF z, y
<1>7. y - i \in 0 .. y - 1
  BY <1>1, <1>2, <1>6
<1> QED
  BY <1>7 DEF y, StackPage, Addr

(* One round of the loop.                                                    *)
LEMMA PutAtTyped ==
  ASSUME NEW m \in Mem, NEW t \in Task, NEW p \in Paged, NEW i \in 1 .. MAX_ARG_PAGES + 1
  PROVE  PutAt(m, t, p, i) \in Mem
<1> DEFINE a == StackPage(i)
           d == DirOf(a)
           e == EntryOf(a)
           n == NextFree(m)
           pte == [page |-> p, w |-> TRUE]
<1>1. d \in Dir /\ e \in Entry
  BY StackInRegion, AddrParts
<1>2. pte \in PTE
  BY Numbers DEF PTE
<1> HIDE DEF a, d, e, n, pte
<1>3. ASSUME NEW k \in Mem PROVE SetPTE(k, t, a, p) \in Mem
  <2>1. SetPTE(k, t, a, p)
          = [k EXCEPT !.table = [k.table EXCEPT ![k.dir[t][d]] = [k.table[k.dir[t][d]] EXCEPT ![e] = pte]]]
    BY DEF SetPTE, d, e, pte
  <2>2. [k.table EXCEPT ![k.dir[t][d]] = [k.table[k.dir[t][d]] EXCEPT ![e] = pte]]
          \in [Paged \union {Pg0} -> [Entry -> PTE]]
    BY <1>1, <1>2 DEF Mem
  <2> QED
    BY <2>1, <2>2 DEF Mem
<1>4. CASE m.dir[t][d] # 0
  BY <1>3, <1>4 DEF PutAt, PutPage, Done, a, d
<1>5. CASE m.dir[t][d] = 0 /\ Free(m) = {}
  BY <1>5 DEF PutAt, PutPage, Failed, a, d
<1>6. CASE m.dir[t][d] = 0 /\ Free(m) # {}
  <2> DEFINE g == [GetFreePage(m) EXCEPT !.dir[t][d] = n]
  <2>1. g = [m EXCEPT !.map = [m.map EXCEPT ![n] = 1],
                      !.table = [m.table EXCEPT ![n] = Blank],
                      !.data = [m.data EXCEPT ![n] = Zero],
                      !.dir = [m.dir EXCEPT ![t] = [m.dir[t] EXCEPT ![d] = n]]]
    BY DEF GetFreePage, n
  <2>2. n \in Paged
    BY <1>6, NextFreeIsFree DEF n, Free
  <2> HIDE DEF g
  <2>3. /\ [m.map EXCEPT ![n] = 1] \in [Paged -> Nat]
        /\ [m.table EXCEPT ![n] = Blank] \in [Paged \union {Pg0} -> [Entry -> PTE]]
        /\ [m.data EXCEPT ![n] = Zero] \in [Page -> Value \union {Zero}]
    BY Numbers DEF Mem
  <2>4. [m.dir EXCEPT ![t] = [m.dir[t] EXCEPT ![d] = n]] \in [Task -> [Dir -> Paged \union {0, Pg0}]]
    BY <1>1, <2>2 DEF Mem
  <2>5. g \in Mem
    BY <2>1, <2>3, <2>4 DEF Mem
  <2>6. PutAt(m, t, p, i) = SetPTE(g, t, a, p)
    BY <1>6 DEF PutAt, PutPage, Done, a, d, n, g
  <2> QED
    BY <1>3, <2>5, <2>6
<1> QED
  BY <1>4, <1>5, <1>6

(* So the loop has the values one expects.                                   *)
LEMMA PuttingIs ==
  ASSUME NEW m, NEW t \in Task, FreePageTables(m, t) \in Mem, NEW ps \in Seq(Paged),
         Len(ps) <= MAX_ARG_PAGES
  PROVE  LET h == Putting(m, t, ps) IN
         h[0] = FreePageTables(m, t) /\ \A i \in 1 .. Len(ps) : h[i] = PutAt(h[i - 1], t, ps[i], i)
<1> DEFINE n == Len(ps)
           start == FreePageTables(m, t)
           G == [i \in 1 .. n |-> [k \in Mem |-> PutAt(k, t, ps[i], i)]]
<1>1. n \in Nat /\ \A i \in 1 .. n : i \in 1 .. MAX_ARG_PAGES + 1 /\ ps[i] \in Paged
  BY PagesListed
<1> HIDE DEF n, start
<1>2. G \in [1 .. n -> [Mem -> Mem]]
  BY <1>1, PutAtTyped
<1>3. PICK f \in [0 .. n -> Mem] : Numbered(f, G, start, n)
  <2>1. start \in Mem /\ n \in Nat
    BY <1>1 DEF start
  <2> HIDE DEF G
  <2> QED
    BY ONLY <1>2, <2>1, NumberedIteration
<1>4. f[0] = start /\ \A i \in 1 .. n : f[i] = G[i][f[i - 1]]
  BY <1>3 DEF Numbered
<1>5. Puts(f, m, t, ps)
  <2> DEFINE g == [i \in 0 .. n |-> IF i = 0 THEN start ELSE PutAt(f[i - 1], t, ps[i], i)]
  <2>1. ASSUME NEW i \in 1 .. n PROVE f[i] = PutAt(f[i - 1], t, ps[i], i)
    <3>1. f[i - 1] \in Mem
      BY <1>1
    <3> QED
      BY <1>4, <3>1
  <2>2. \A i \in 0 .. n : f[i] = g[i]
    BY <1>1, <1>4, <2>1
  <2>3. f = g
    BY <2>2
  <2> QED
    BY <2>3 DEF Puts, n, start
<1> DEFINE h == Putting(m, t, ps)
<1>6. Puts(h, m, t, ps)
  BY <1>5 DEF Putting
<1> HIDE DEF h
<1>7. h[0] = start /\ \A i \in 1 .. n : h[i] = PutAt(h[i - 1], t, ps[i], i)
  <2>1. h = [i \in 0 .. n |-> IF i = 0 THEN start ELSE PutAt(h[i - 1], t, ps[i], i)]
    BY <1>6 DEF Puts, n, start
  <2> QED
    BY <1>1, <2>1
<1> QED
  BY <1>7 DEF h, n, start

\* Without the arguments 1 to i of t.
Left(A, t, i) == [A EXCEPT ![t] = [j \in ArgNr |-> IF j <= i THEN 0 ELSE A[t][j]]]

\* The i-th round puts a page that is spare by then.
PutsOne(h, t, ps, i, T) ==
  /\ h[i] = PutPage(h[i - 1], ps[i], t, StackPage(i)).m
  /\ StackPage(i) \in Addr /\ i \in 1 .. MAX_ARG_PAGES + 1
  /\ \E B : Kept(h[i - 1], T, B) /\ Spare(h[i - 1], T, B, ps[i])

(* After it no argument is left, and the pages are in the region or lost.    *)
LEMMA PuttingKeeps ==
  ASSUME NEW m, NEW T, NEW A, Kept(m, T, A), NEW t \in Task \ {Swapper}, NEW ps \in Seq(Paged),
         Len(ps) <= MAX_ARG_PAGES, \A i \in 1 .. Len(ps) : A[t][i] = ps[i]
  PROVE  LET h == Putting(m, t, ps) IN
         /\ Moves(m, h[Len(ps)], t, T, Left(A, t, Len(ps)))
         /\ h[0] = FreePageTables(m, t)
         /\ \A i \in 1 .. Len(ps) : PutsOne(h, t, ps, i, T)
<1> DEFINE n == Len(ps)
           h == Putting(m, t, ps)
           R == {i \in 0 .. n : /\ Moves(m, h[i], t, T, Left(A, t, i))
                                /\ i # 0 => PutsOne(h, t, ps, i, T)}
<1>0. /\ n \in Nat /\ MAX_ARG_PAGES \in Nat
      /\ \A i \in 1 .. n : i \in 1 .. MAX_ARG_PAGES + 1 /\ i \in ArgNr /\ ps[i] \in Paged
      /\ A \in [Task -> [ArgNr -> Paged \union {0}]]
      /\ \A i \in 1 .. n : A[t][i] = ps[i]
  <2>1. A \in [Task -> [ArgNr -> Paged \union {0}]]
    BY DEF Kept
  <2>2. /\ n \in Nat /\ MAX_ARG_PAGES \in Nat
        /\ \A i \in 1 .. n : ps[i] \in Paged /\ i \in ArgNr /\ i \in 1 .. MAX_ARG_PAGES + 1
    BY PagesListed
  <2>3. \A i \in 1 .. n : A[t][i] = ps[i]
    OBVIOUS
  <2> HIDE DEF n
  <2> QED
    BY <2>1, <2>2, <2>3
<1>1. Moves(m, FreePageTables(m, t), t, T, A)
  BY FreeTablesKeeps
<1>2. h[0] = FreePageTables(m, t) /\ \A i \in 1 .. n : h[i] = PutAt(h[i - 1], t, ps[i], i)
  <2>1. FreePageTables(m, t) \in Mem
    BY <1>1 DEF Moves, Kept
  <2> QED
    BY <2>1, PuttingIs
<1> HIDE DEF h, n
<1>3. 0 \in R
  <2>1. \A j \in ArgNr : ~(j <= 0)
    BY <1>0 DEF ArgNr
  <2>2. [j \in ArgNr |-> IF j <= 0 THEN 0 ELSE A[t][j]] = A[t]
    BY <1>0, <2>1
  <2>3. Left(A, t, 0) = A
    BY <1>0, <2>2 DEF Left
  <2>4. Moves(m, h[0], t, T, Left(A, t, 0)) /\ 0 \in 0 .. n
    BY <1>0, <1>1, <1>2, <2>3
  <2> QED
    BY <2>4
<1>4. ASSUME NEW i \in 1 .. n, i - 1 \in R
      PROVE  i \in R
  <2> DEFINE k == h[i - 1]
             B == Left(A, t, i - 1)
             p == ps[i]
  <2>1. Kept(k, T, B) /\ \A s \in Task \ {t} : k.dir[s] = m.dir[s]
    BY <1>4 DEF Moves
  <2>2. h[i] = PutPage(k, p, t, StackPage(i)).m
    BY <1>2 DEF PutAt
  <2>3. i \in ArgNr /\ p \in Paged /\ StackPage(i) \in Addr
    BY <1>0, StackInRegion
  <2>4. B[t][i] = p
    <3>1. B[t] = [j \in ArgNr |-> IF j <= i - 1 THEN 0 ELSE A[t][j]]
      BY <1>0 DEF Left
    <3>2. A[t][i] = p
      BY <1>0
    <3>3. ~(i <= i - 1)
      <4>1. i \in Int
        BY <1>0
      <4> QED
        BY <4>1
    <3> HIDE DEF B, p
    <3> QED
      BY <2>3, <3>1, <3>2, <3>3
  <2>5. Left(A, t, i) = [B EXCEPT ![t][i] = 0]
    <3> DEFINE C == [j \in ArgNr |-> IF j <= i THEN 0 ELSE A[t][j]]
               D == [j \in ArgNr |-> IF j <= i - 1 THEN 0 ELSE A[t][j]]
    <3>1. C = [D EXCEPT ![i] = 0]
      <4>1. \A j \in ArgNr : C[j] = [D EXCEPT ![i] = 0][j]
        <5>1. \A j \in ArgNr : j \in Int
          BY <1>0 DEF ArgNr
        <5> QED
          BY <2>3, <5>1
      <4> QED
        BY <4>1
    <3>2. B = [A EXCEPT ![t] = D] /\ Left(A, t, i) = [A EXCEPT ![t] = C]
      BY DEF Left
    <3> HIDE DEF B, C, D
    <3> QED
      BY <1>0, <3>1, <3>2
  <2> HIDE DEF k, B, p
  <2>6. Kept(k, T, [B EXCEPT ![t][i] = 0]) /\ Spare(k, T, [B EXCEPT ![t][i] = 0], p)
    BY <2>1, <2>3, <2>4, ArgTaken
  <2>7. Moves(k, h[i], t, T, Left(A, t, i))
    BY <2>2, <2>3, <2>5, <2>6, PutPageKeeps
  <2>8. Moves(m, h[i], t, T, Left(A, t, i)) /\ i \in 0 .. n
    BY <1>0, <2>1, <2>7 DEF Moves
  <2>9. PutsOne(h, t, ps, i, T)
    BY <1>0, <2>2, <2>3, <2>6 DEF PutsOne, k, p
  <2> QED
    BY <2>8, <2>9
<1>5. 0 .. n \subseteq R
  <2> HIDE DEF R
  <2> QED
    BY <1>0, <1>3, <1>4, Climbing
<1>6. n \in R /\ \A i \in 1 .. n : i \in R /\ i # 0
  <2>1. \A i \in 1 .. n : i \in 0 .. n /\ i # 0
    BY <1>0
  <2> QED
    BY <1>0, <1>5, <2>1
<1>7. Moves(m, h[n], t, T, Left(A, t, n)) /\ \A i \in 1 .. n : PutsOne(h, t, ps, i, T)
  BY <1>6
<1> QED
  BY <1>2, <1>7 DEF h, n

-----------------------------------------------------------------------------
(* What the programs see of it: the same functions, by the contents of the   *)
(* addresses.                                                                *)
Seen(m, t, a) == IF Present(m, t, a) THEN m.data[PTEof(m, t, a).page] ELSE Zero
Wr(m, t, a) == Present(m, t, a) => PTEof(m, t, a).w

\* The entry and the contents are the same in n as in m.
Like(m, n, t, a) == PTEof(n, t, a) = PTEof(m, t, a) /\ Seen(n, t, a) = Seen(m, t, a)
AllLike(m, n) == \A s \in Task, b \in Addr : Like(m, n, s, b)
LikeBut(m, n, t, a) == \A s \in Task, b \in Addr : s # t \/ b # a => Like(m, n, s, b)
OthersLike(m, n, t) == \A s \in Task \ {t}, b \in Addr : Like(m, n, s, b)

(* From one state of the pages to a third.                                   *)
LEMMA LikeChain ==
  ASSUME NEW k, NEW m, NEW n, NEW t, NEW a
  PROVE  /\ AllLike(k, m) /\ AllLike(m, n) => AllLike(k, n)
         /\ AllLike(k, m) /\ LikeBut(m, n, t, a) => LikeBut(k, n, t, a)
         /\ LikeBut(k, m, t, a) /\ LikeBut(m, n, t, a) => LikeBut(k, n, t, a)
         /\ OthersLike(k, m, t) /\ OthersLike(m, n, t) => OthersLike(k, n, t)
         /\ AllLike(k, m) => OthersLike(k, m, t)
         /\ LikeBut(k, m, t, a) => OthersLike(k, m, t)
BY DEF AllLike, LikeBut, OthersLike, Like

(* An entry is a place, and what it has is a page.                           *)
LEMMA EntryPlace ==
  ASSUME NEW m, NEW T, NEW A, Kept(m, T, A), NEW t \in Task, NEW a \in Addr
  PROVE  /\ Pte(t, DirOf(a), EntryOf(a)) \in Place
         /\ Ref(m, T, A)[Pte(t, DirOf(a), EntryOf(a))] = PTEof(m, t, a).page
         /\ PTEof(m, t, a) \in PTE
         /\ m.dir[t][DirOf(a)] \in Paged \union {0, Pg0}
         /\ Present(m, t, a) => PTEof(m, t, a).page \in Page
         /\ t # Swapper /\ PTEof(m, t, a).w =>
              /\ Pte(t, DirOf(a), EntryOf(a)) \in Owning(m)
              /\ Present(m, t, a) /\ PTEof(m, t, a).page \in Paged
         /\ Seen(m, t, a) \in Value \union {Zero}
<1> DEFINE d == DirOf(a)
           e == EntryOf(a)
           q == m.dir[t][d]
<1>1. d \in Dir /\ e \in Entry
  BY AddrParts
<1>2. m \in Mem /\ Programs(m)
  BY DEF Kept
<1>3. PTEof(m, t, a) = IF q = 0 THEN Absent ELSE m.table[q][e]
  BY DEF PTEof
<1> HIDE DEF d, e
<1>4. Pte(t, d, e) \in Place
  BY <1>1, PlaceKinds
<1>5. q \in Paged \union {0, Pg0}
  BY <1>1, <1>2 DEF Mem
<1>6. PTEof(m, t, a) \in PTE
  BY <1>1, <1>2, <1>3, <1>5, Numbers DEF Mem
<1>7. Ref(m, T, A)[Pte(t, d, e)] = PTEof(m, t, a).page
  <2>1. Ref(m, T, A)[Pte(t, d, e)] = IF q = 0 THEN 0 ELSE m.table[q][e].page
    BY <1>1, RefAt
  <2>2. Absent.page = 0
    BY DEF Absent
  <2> QED
    BY <1>3, <2>1, <2>2
<1>8. Present(m, t, a) => PTEof(m, t, a).page \in Page
  BY <1>6 DEF Present, PTE
<1>9. ASSUME PTEof(m, t, a).w, t # Swapper
      PROVE  Pte(t, d, e) \in Owning(m) /\ PTEof(m, t, a).page \in Paged
  <2>1. q # 0 /\ m.table[q][e] = PTEof(m, t, a)
    BY <1>3, <1>9 DEF Absent
  <2>2. Writable(m, t, d, e)
    BY <1>9, <2>1 DEF Writable
  <2>3. m.table[q][e].page \in Paged
    BY <1>1, <1>2, <1>9, <2>2 DEF Programs
  <2>4. Pte(t, d, e) \in Owning(m)
    BY <1>1, <1>9, <2>2, RefAt
  <2> QED
    BY <2>1, <2>3, <2>4
<1>10. Seen(m, t, a) \in Value \union {Zero}
  BY <1>2, <1>8 DEF Seen, Mem
<1>11. PTEof(m, t, a).page \in Paged => Present(m, t, a)
  BY Numbers DEF Present
<1> HIDE DEF q
<1> QED
  BY <1>4, <1>5, <1>6, <1>7, <1>8, <1>9, <1>10, <1>11 DEF d, e, q

(* A page without users is in no entry and is no page table.                 *)
LEMMA UnusedUnseen ==
  ASSUME NEW m, NEW T, NEW A, Kept(m, T, A), NEW p, Users(Ref(m, T, A), p) = {}
  PROVE  /\ \A t \in Task, a \in Addr : PTEof(m, t, a).page # p
         /\ \A t \in Task, d \in Dir : m.dir[t][d] # p
<1>1. \A u \in Place : Ref(m, T, A)[u] # p
  BY DEF Users, Of
<1>2. ASSUME NEW t \in Task, NEW a \in Addr PROVE PTEof(m, t, a).page # p
  <2>1. /\ Pte(t, DirOf(a), EntryOf(a)) \in Place
        /\ Ref(m, T, A)[Pte(t, DirOf(a), EntryOf(a))] = PTEof(m, t, a).page
    BY EntryPlace
  <2> QED
    BY <1>1, <2>1
<1>3. ASSUME NEW t \in Task, NEW d \in Dir PROVE m.dir[t][d] # p
  <2>1. DirP(t, d) \in Place
    BY PlaceKinds
  <2>2. Ref(m, T, A)[DirP(t, d)] = m.dir[t][d]
    BY RefAt
  <2> QED
    BY <1>1, <2>1, <2>2
<1> QED
  BY <1>2, <1>3

(* No page table is in the directory twice.                                  *)
LEMMA TablesApart ==
  ASSUME NEW m, NEW T, NEW A, Kept(m, T, A), NEW t \in Task, NEW d \in Dir, m.dir[t][d] \in Paged,
         NEW s \in Task, NEW c \in Dir, m.dir[s][c] = m.dir[t][d]
  PROVE  s = t /\ c = d
<1>1. Alone(Ref(m, T, A), Owning(m))
  BY DEF Kept, Counts
<1>2. DirP(s, c) \in Place /\ DirP(t, d) \in Owning(m)
  BY PlaceKinds, RefAt
<1>3. Ref(m, T, A)[DirP(s, c)] = m.dir[t][d] /\ Ref(m, T, A)[DirP(t, d)] = m.dir[t][d]
  BY RefAt
<1>4. DirP(s, c) = DirP(t, d)
  BY <1>1, <1>2, <1>3 DEF Alone
<1> QED
  BY <1>4, PlaceDistinct

(* An entry is what the directory and one table have.                        *)
LEMMA LikeIf ==
  ASSUME NEW m, NEW n, NEW t, NEW a, n.dir[t][DirOf(a)] = m.dir[t][DirOf(a)],
         m.dir[t][DirOf(a)] # 0 =>
           n.table[m.dir[t][DirOf(a)]][EntryOf(a)] = m.table[m.dir[t][DirOf(a)]][EntryOf(a)],
         Present(m, t, a) => n.data[PTEof(m, t, a).page] = m.data[PTEof(m, t, a).page]
  PROVE  Like(m, n, t, a)
<1>1. PTEof(n, t, a) = PTEof(m, t, a)
  BY DEF PTEof
<1> QED
  BY <1>1 DEF Like, Seen, Present

(* get_free_page() takes no page that somebody sees.                         *)
LEMMA GetSees ==
  ASSUME NEW m, NEW T, NEW A, Kept(m, T, A), Free(m) # {}
  PROVE  LET g == GetFreePage(m)
             n == NextFree(m)
         IN  /\ AllLike(m, g) /\ g.data[n] = Zero
             /\ \A p \in Page \ {n} : g.data[p] = m.data[p]
             /\ \A s \in Task, b \in Addr : PTEof(m, s, b).page # n
<1> DEFINE g == GetFreePage(m)
           n == NextFree(m)
<1>1. /\ Spare(g, T, A, n) /\ Ref(g, T, A) = Ref(m, T, A)
      /\ g.dir = m.dir /\ \A p \in (Paged \union {Pg0}) \ {n} : g.table[p] = m.table[p]
      /\ n \in Paged
  BY ONLY Kept(m, T, A), Free(m) # {}, GetKeeps
<1>2. /\ \A s \in Task, b \in Addr : PTEof(m, s, b).page # n
      /\ \A s \in Task, c \in Dir : m.dir[s][c] # n
  <2>1. Users(Ref(m, T, A), n) = {}
    BY <1>1 DEF Spare
  <2> HIDE DEF n
  <2> QED
    BY <2>1, UnusedUnseen
<1>3. g.data[n] = Zero /\ \A p \in Page \ {n} : g.data[p] = m.data[p]
  <2>1. m \in Mem /\ n \in Page
    BY <1>1, Numbers DEF Kept
  <2>2. g.data = [m.data EXCEPT ![n] = Zero]
    BY DEF GetFreePage
  <2> HIDE DEF g, n
  <2> QED
    BY <2>1, <2>2 DEF Mem
<1> HIDE DEF g, n
<1>4. ASSUME NEW s \in Task, NEW b \in Addr
      PROVE  Like(m, g, s, b)
  <2>1. /\ m.dir[s][DirOf(b)] \in Paged \union {0, Pg0}
        /\ Present(m, s, b) => PTEof(m, s, b).page \in Page
    BY EntryPlace
  <2>2. m.dir[s][DirOf(b)] # n /\ PTEof(m, s, b).page # n
    BY <1>2, AddrParts
  <2>3. m.dir[s][DirOf(b)] # 0 => g.table[m.dir[s][DirOf(b)]] = m.table[m.dir[s][DirOf(b)]]
    BY <1>1, <2>1, <2>2
  <2>4. Present(m, s, b) => g.data[PTEof(m, s, b).page] = m.data[PTEof(m, s, b).page]
    BY <1>3, <2>1, <2>2
  <2> QED
    BY <1>1, <2>3, <2>4, LikeIf
<1> QED
  BY <1>2, <1>3, <1>4 DEF g, n, AllLike

(* To write an entry changes what is seen there only.                        *)
LEMMA SetSees ==
  ASSUME NEW m, NEW T, NEW A, Kept(m, T, A), NEW t \in Task \ {Swapper}, NEW a \in Addr,
         m.dir[t][DirOf(a)] # 0, NEW p \in Paged
  PROVE  LET g == SetPTE(m, t, a, p) IN
         LikeBut(m, g, t, a) /\ g.data = m.data /\ PTEof(g, t, a) = [page |-> p, w |-> TRUE]
<1> DEFINE g == SetPTE(m, t, a, p)
           d == DirOf(a)
           e == EntryOf(a)
           q == m.dir[t][d]
           pte == [page |-> p, w |-> TRUE]
<1>1. d \in Dir /\ e \in Entry
  BY AddrParts
<1>2. m \in Mem /\ q \in Paged /\ q # 0
  BY <1>1 DEF Kept, Programs, Mem
<1>3. /\ g.dir = m.dir /\ g.data = m.data /\ g.table[q][e] = pte
      /\ \A f \in Entry \ {e} : g.table[q][f] = m.table[q][f]
      /\ \A r \in (Paged \union {Pg0}) \ {q} : g.table[r] = m.table[r]
  <2>1. g = [m EXCEPT !.table = [m.table EXCEPT ![q] = [m.table[q] EXCEPT ![e] = pte]]]
    BY DEF SetPTE
  <2>2. m.table[q] \in [Entry -> PTE] /\ DOMAIN m.table = Paged \union {Pg0}
    BY <1>2 DEF Mem
  <2> HIDE DEF g, q, d, e, pte
  <2>3. g.table = [m.table EXCEPT ![q] = [m.table[q] EXCEPT ![e] = pte]]
          /\ g.dir = m.dir /\ g.data = m.data
    BY <1>2, <2>1 DEF Mem
  <2> QED
    BY <1>1, <1>2, <2>2, <2>3
<1>4. PTEof(g, t, a) = pte
  BY <1>2, <1>3 DEF PTEof
<1> HIDE DEF g, pte
<1>5. ASSUME NEW s \in Task, NEW b \in Addr, s # t \/ b # a
      PROVE  Like(m, g, s, b)
  <2>1. /\ DirOf(b) \in Dir /\ EntryOf(b) \in Entry /\ b = DirOf(b) * NrEntries + EntryOf(b)
        /\ a = d * NrEntries + e
    BY AddrParts
  <2>2. m.dir[s][DirOf(b)] \in Paged \union {0, Pg0}
    BY EntryPlace
  <2> HIDE DEF d, e
  <2>3. m.dir[s][DirOf(b)] = q => s = t /\ DirOf(b) = d
    BY <1>1, <1>2, <2>1, TablesApart
  <2>4. m.dir[s][DirOf(b)] = q => EntryOf(b) # e
    BY <1>5, <2>1, <2>3
  <2>5. m.dir[s][DirOf(b)] # 0 =>
           g.table[m.dir[s][DirOf(b)]][EntryOf(b)] = m.table[m.dir[s][DirOf(b)]][EntryOf(b)]
    BY <1>3, <2>1, <2>2, <2>4
  <2> QED
    BY <1>3, <2>5, LikeIf
<1> QED
  BY <1>3, <1>4, <1>5 DEF g, pte, LikeBut

(* An empty page table shows as much as none.                                *)
LEMMA TableSees ==
  ASSUME NEW m, NEW T, NEW A, Kept(m, T, A), NEW t \in Task, NEW d \in Dir, m.dir[t][d] = 0,
         NEW p \in Paged, m.table[p] = Blank
  PROVE  LET g == [m EXCEPT !.dir[t][d] = p] IN AllLike(m, g) /\ g.data = m.data
<1> DEFINE g == [m EXCEPT !.dir[t][d] = p]
<1>1. m \in Mem
  BY DEF Kept
<1>2. /\ g.data = m.data /\ g.table = m.table /\ g.dir[t][d] = p
      /\ \A s \in Task, c \in Dir : s # t \/ c # d => g.dir[s][c] = m.dir[s][c]
  BY <1>1 DEF Mem
<1> HIDE DEF g
<1>3. ASSUME NEW s \in Task, NEW b \in Addr
      PROVE  Like(m, g, s, b)
  <2>0. DirOf(b) \in Dir /\ EntryOf(b) \in Entry
    BY AddrParts
  <2>1. CASE s = t /\ DirOf(b) = d
    <3>1. p # 0 /\ m.table[p][EntryOf(b)] = Absent
      BY <2>0, Numbers DEF Blank
    <3>2. PTEof(m, s, b) = Absent /\ PTEof(g, s, b) = Absent
      BY <1>2, <2>1, <3>1 DEF PTEof
    <3>3. ~Present(m, s, b) /\ ~Present(g, s, b)
      BY <3>2 DEF Present, Absent
    <3> QED
      BY <3>2, <3>3 DEF Like, Seen
  <2>2. CASE s # t \/ DirOf(b) # d
    BY <1>2, <2>0, <2>2, LikeIf
  <2> QED
    BY <2>1, <2>2
<1> QED
  BY <1>2, <1>3 DEF g, AllLike

(* put_page() shows the page that is put, or nothing happens.                *)
LEMMA PutPageSees ==
  ASSUME NEW m, NEW T, NEW A, Kept(m, T, A), NEW t \in Task \ {Swapper},
         NEW a \in Addr, NEW p, Spare(m, T, A, p)
  PROVE  LET r == PutPage(m, p, t, a) IN
         \/ /\ r.ok /\ LikeBut(m, r.m, t, a) /\ r.m.data[p] = m.data[p]
            /\ PTEof(r.m, t, a) = [page |-> p, w |-> TRUE]
         \/ ~r.ok /\ r.m = m
<1> DEFINE d == DirOf(a)
<1>1. d \in Dir /\ p \in Paged
  BY AddrParts DEF Spare
<1> HIDE DEF d
<1>2. CASE m.dir[t][d] # 0
  <2>1. PutPage(m, p, t, a).m = SetPTE(m, t, a, p) /\ PutPage(m, p, t, a).ok
    BY <1>2 DEF PutPage, Done, d
  <2> QED
    BY <1>1, <1>2, <2>1, SetSees DEF d
<1>3. CASE m.dir[t][d] = 0 /\ Free(m) = {}
  BY <1>3 DEF PutPage, Failed, d
<1>4. CASE m.dir[t][d] = 0 /\ Free(m) # {}
  <2> DEFINE g == GetFreePage(m)
             n == NextFree(m)
             h == [g EXCEPT !.dir[t][d] = n]
             k == SetPTE(h, t, a, p)
  <2>1. PutPage(m, p, t, a).m = k /\ PutPage(m, p, t, a).ok
    BY <1>4 DEF PutPage, Done, d
  <2>2. /\ Kept(g, T, A) /\ Spare(g, T, A, n) /\ g.dir = m.dir /\ g.table[n] = Blank
        /\ m.map[n] = 0 /\ n \in Paged /\ Ref(g, T, A) = Ref(m, T, A)
        /\ AllLike(m, g) /\ \A q \in Page \ {n} : g.data[q] = m.data[q]
    BY <1>4, GetKeeps, GetSees
  <2> HIDE DEF g, n
  <2>3. p # n
    BY <2>2 DEF Spare
  <2>4. Kept(h, T, A) /\ h.dir[t][d] = n
    BY <1>1, <2>2, TableKeeps
  <2>5. AllLike(g, h) /\ h.data = g.data
    BY <1>1, <1>4, <2>2, TableSees
  <2> HIDE DEF h
  <2>6. LikeBut(h, k, t, a) /\ k.data = h.data /\ PTEof(k, t, a) = [page |-> p, w |-> TRUE]
    BY <1>1, <2>2, <2>4, Numbers, SetSees DEF d
  <2>7. LikeBut(m, k, t, a)
    BY <2>2, <2>5, <2>6, LikeChain
  <2>8. k.data[p] = m.data[p]
    BY <1>1, <2>2, <2>3, <2>5, <2>6, Numbers
  <2> QED
    BY <2>1, <2>6, <2>7, <2>8
<1> QED
  BY <1>2, <1>3, <1>4

\* There is a page that t may write to at a, and nobody has seen a difference.
Brings(m, r, t, a) ==
  \/ /\ r.ok /\ LikeBut(m, r.m, t, a) /\ Seen(r.m, t, a) = Seen(m, t, a)
     /\ PTEof(r.m, t, a).w
  \/ ~r.ok /\ AllLike(m, r.m)

(* Nothing is as good as no step.                                            *)
LEMMA LikeSelf ==
  ASSUME NEW m
  PROVE  AllLike(m, m) /\ \A t, a : LikeBut(m, m, t, a)
BY DEF AllLike, LikeBut, Like

(* do_no_page() brings a page of zeros, which is what was seen.              *)
LEMMA NoPageSees ==
  ASSUME NEW m, NEW T, NEW A, Kept(m, T, A), NEW t \in Task \ {Swapper}, NEW a \in Addr,
         ~Present(m, t, a)
  PROVE  Brings(m, DoNoPage(m, t, a), t, a)
<1>1. CASE Free(m) = {}
  BY <1>1, LikeSelf DEF DoNoPage, Failed, Brings
<1>2. CASE Free(m) # {}
  <2> DEFINE g == GetFreePage(m)
             n == NextFree(m)
             r == PutPage(g, n, t, a)
  <2>1. DoNoPage(m, t, a) = r
    BY <1>2 DEF DoNoPage
  <2>2. Kept(g, T, A) /\ Spare(g, T, A, n) /\ n \in Paged /\ AllLike(m, g) /\ g.data[n] = Zero
    BY <1>2, GetKeeps, GetSees
  <2> HIDE DEF g, n
  <2>3. \/ /\ r.ok /\ LikeBut(g, r.m, t, a) /\ r.m.data[n] = g.data[n]
           /\ PTEof(r.m, t, a) = [page |-> n, w |-> TRUE]
        \/ ~r.ok /\ r.m = g
    BY <2>2, PutPageSees
  <2> HIDE DEF r
  <2>4. CASE r.ok
    <3>1. LikeBut(m, r.m, t, a) /\ PTEof(r.m, t, a).w /\ PTEof(r.m, t, a).page = n
      BY <2>2, <2>3, <2>4, LikeChain
    <3>2. n # 0
      BY <2>2, Numbers
    <3>3. Seen(r.m, t, a) = Zero /\ Seen(m, t, a) = Zero
      BY <2>2, <2>3, <2>4, <3>1, <3>2 DEF Seen, Present
    <3> QED
      BY <2>1, <2>4, <3>1, <3>3 DEF Brings
  <2>5. CASE ~r.ok
    BY <2>1, <2>2, <2>3, <2>5 DEF Brings
  <2> QED
    BY <2>4, <2>5
<1> QED
  BY <1>1, <1>2

(* un_wp_page() brings the old page or a copy of it.                         *)
LEMMA UnWpSees ==
  ASSUME NEW m, NEW T, NEW A, Kept(m, T, A), NEW t \in Task \ {Swapper}, NEW a \in Addr,
         Present(m, t, a)
  PROVE  Brings(m, UnWpPage(m, t, a), t, a)
<1> DEFINE old == PTEof(m, t, a).page
           new == NextFree(m)
<1>1. m.dir[t][DirOf(a)] # 0 /\ old \in Page /\ old # 0 /\ m \in Mem
  BY EntryPlace DEF Present, PTEof, Absent, Kept
<1> HIDE DEF old
<1>2. Seen(m, t, a) = m.data[old]
  BY DEF Seen, old
<1>3. CASE old \in Paged /\ m.map[old] = 1
  <2> DEFINE g == SetPTE(m, t, a, old)
  <2>1. UnWpPage(m, t, a).m = g /\ UnWpPage(m, t, a).ok
    BY <1>3 DEF UnWpPage, Done, old
  <2>2. LikeBut(m, g, t, a) /\ g.data = m.data /\ PTEof(g, t, a) = [page |-> old, w |-> TRUE]
    BY <1>1, <1>3, SetSees
  <2> HIDE DEF g
  <2>3. Seen(g, t, a) = m.data[old]
    BY <1>1, <2>2 DEF Seen, Present
  <2> QED
    BY <1>2, <2>1, <2>2, <2>3 DEF Brings
<1>4. CASE ~(old \in Paged /\ m.map[old] = 1) /\ Free(m) = {}
  BY <1>4, LikeSelf DEF UnWpPage, Failed, Brings, old
<1>5. CASE ~(old \in Paged /\ m.map[old] = 1) /\ Free(m) # {}
  <2> DEFINE g == GetFreePage(m)
             s == SetPTE(g, t, a, new)
             h == [FreePage(g, old) EXCEPT !.data[new] = m.data[old]]
             r == SetPTE(h, t, a, new)
  <2>1. UnWpPage(m, t, a).m = r /\ UnWpPage(m, t, a).ok
    BY <1>5 DEF UnWpPage, Done, old
  <2>2. Kept(g, T, A) /\ g.dir = m.dir /\ new \in Paged
    BY <1>5, GetKeeps
  <2>3. /\ AllLike(m, g) /\ \A p \in Page \ {new} : g.data[p] = m.data[p]
        /\ \A u \in Task, b \in Addr : PTEof(m, u, b).page # new
    <3>1. Free(m) # {}
      BY <1>5
    <3> QED
      BY ONLY <3>1, Kept(m, T, A), GetSees
  <2> HIDE DEF g, new
  <2>4. LikeBut(g, s, t, a) /\ PTEof(s, t, a) = [page |-> new, w |-> TRUE]
    BY <1>1, <2>2, SetSees
  <2>5. /\ h.table = g.table /\ h.dir = g.dir /\ h.data[new] = m.data[old]
        /\ \A p \in Page \ {new} : h.data[p] = g.data[p]
    <3>1. g \in Mem /\ new \in Page
      BY <2>2, Numbers DEF Kept
    <3>2. CASE old \in Paged
      BY <3>1, <3>2 DEF FreePage, Mem
    <3>3. CASE old \notin Paged
      BY <3>1, <3>3 DEF FreePage, Mem
    <3> QED
      BY <3>2, <3>3
  <2>6. r.table = s.table /\ r.dir = s.dir /\ r.data = h.data
    <3>1. g \in Mem
      BY <2>2 DEF Kept
    <3>2. PICK k : k = FreePage(g, old)
      OBVIOUS
    <3>3. k = [map |-> k.map, table |-> k.table, data |-> k.data, dir |-> k.dir]
      <4>1. CASE old \in Paged
        <5>1. k = [g EXCEPT !.map = [g.map EXCEPT ![old] = @ - 1]]
          BY <3>2, <4>1 DEF FreePage
        <5> QED
          BY <3>1, <5>1 DEF Mem
      <4>2. CASE old \notin Paged
        BY <3>1, <3>2, <4>2 DEF FreePage, Mem
      <4> QED
        BY <4>1, <4>2
    <3>4. PICK v : v = [k.data EXCEPT ![new] = m.data[old]]
      OBVIOUS
    <3>5. h = [k EXCEPT !.data = v]
      BY <3>2, <3>4
    <3>6. h = [map |-> k.map, table |-> k.table, data |-> v, dir |-> k.dir]
      BY <3>3, <3>5
    <3> HIDE DEF h
    <3>7. r = [h EXCEPT !.table = [h.table EXCEPT ![h.dir[t][DirOf(a)]] =
                 [h.table[h.dir[t][DirOf(a)]] EXCEPT ![EntryOf(a)] = [page |-> new, w |-> TRUE]]]]
      BY DEF SetPTE
    <3>8. s = [g EXCEPT !.table = [g.table EXCEPT ![g.dir[t][DirOf(a)]] =
                 [g.table[g.dir[t][DirOf(a)]] EXCEPT ![EntryOf(a)] = [page |-> new, w |-> TRUE]]]]
      BY DEF SetPTE
    <3> HIDE DEF r, s
    <3>9. PICK x : x = [h.table EXCEPT ![h.dir[t][DirOf(a)]] =
                 [h.table[h.dir[t][DirOf(a)]] EXCEPT ![EntryOf(a)] = [page |-> new, w |-> TRUE]]]
      OBVIOUS
    <3>10. r = [h EXCEPT !.table = x] /\ s = [g EXCEPT !.table = x]
      BY <2>5, <3>7, <3>8, <3>9
    <3>11. r.table = x /\ r.dir = h.dir /\ r.data = h.data
      BY <3>6, <3>10
    <3>12. s.table = x /\ s.dir = g.dir
      BY <3>1, <3>10 DEF Mem
    <3> QED
      BY <2>5, <3>11, <3>12
  <2> HIDE DEF h, r, s
  <2>7. \A u \in Task, b \in Addr : PTEof(r, u, b) = PTEof(s, u, b)
    BY <2>6 DEF PTEof
  <2>8. ASSUME NEW u \in Task, NEW b \in Addr, u # t \/ b # a
        PROVE  Like(m, r, u, b)
    <3>1. PTEof(r, u, b) = PTEof(m, u, b)
      BY <2>3, <2>4, <2>7, <2>8 DEF AllLike, LikeBut, Like
    <3>2. Present(m, u, b) => PTEof(m, u, b).page \in Page \ {new}
      BY <2>3, EntryPlace
    <3>3. Present(m, u, b) => r.data[PTEof(m, u, b).page] = m.data[PTEof(m, u, b).page]
      BY <2>3, <2>5, <2>6, <3>2
    <3> QED
      BY <3>1, <3>3 DEF Like, Seen, Present
  <2>9. PTEof(r, t, a) = [page |-> new, w |-> TRUE]
    BY <2>4, <2>7
  <2>10. Seen(r, t, a) = m.data[old]
    <3>1. new # 0
      BY <2>2, Numbers
    <3> QED
      BY <2>5, <2>6, <2>9, <3>1 DEF Seen, Present
  <2> QED
    BY <1>2, <2>1, <2>8, <2>9, <2>10 DEF Brings, LikeBut
<1> QED
  BY <1>3, <1>4, <1>5

(* write_verify() does that where a page is present.                         *)
LEMMA WriteVerifySees ==
  ASSUME NEW m, NEW T, NEW A, Kept(m, T, A), NEW t \in Task \ {Swapper}, NEW a \in Addr
  PROVE  IF Present(m, t, a) THEN Brings(m, WriteVerify(m, t, a), t, a)
                             ELSE WriteVerify(m, t, a) = Done(m)
<1>1. CASE Present(m, t, a) /\ ~PTEof(m, t, a).w
  BY <1>1, UnWpSees DEF WriteVerify
<1>2. CASE Present(m, t, a) /\ PTEof(m, t, a).w
  BY <1>2, LikeSelf DEF WriteVerify, Done, Brings
<1>3. CASE ~Present(m, t, a)
  BY <1>3 DEF WriteVerify
<1> QED
  BY <1>1, <1>2, <1>3

\* v is where t wrote it and t may write there, or nobody has seen a difference.
Stored(m, r, t, a, v) ==
  \/ /\ r.ok /\ LikeBut(m, r.m, t, a) /\ Seen(r.m, t, a) = v
     /\ PTEof(r.m, t, a).w
  \/ ~r.ok /\ AllLike(m, r.m)

(* Who may write to a page is alone with it, so nobody else sees the value.  *)
LEMMA StoreSees ==
  ASSUME NEW m, NEW r, NEW T, NEW A, Kept(r.m, T, A), NEW t \in Task \ {Swapper}, NEW a \in Addr,
         Brings(m, r, t, a), NEW v \in Value
  PROVE  Stored(m, Store(r, t, a, v), t, a, v)
<1>1. CASE ~r.ok
  BY <1>1 DEF Brings, Store, Stored
<1>2. CASE r.ok
  <2> DEFINE k == r.m
             p == PTEof(k, t, a).page
             g == [k EXCEPT !.data[p] = v]
             u == Pte(t, DirOf(a), EntryOf(a))
  <2>1. LikeBut(m, k, t, a) /\ PTEof(k, t, a).w
    BY <1>2 DEF Brings
  <2>2. Store(r, t, a, v).m = g /\ Store(r, t, a, v).ok
    BY <1>2 DEF Store, Done
  <2>3. u \in Owning(k) /\ Ref(k, T, A)[u] = p /\ p \in Paged
    BY <2>1, EntryPlace
  <2> HIDE DEF k, p
  <2>4. k \in Mem /\ Alone(Ref(k, T, A), Owning(k)) /\ p \in Page /\ p # 0
    BY <2>3, Numbers DEF Kept, Counts, k
  <2>5. /\ g.table = k.table /\ g.dir = k.dir /\ g.data[p] = v
        /\ \A q \in Page \ {p} : g.data[q] = k.data[q]
    BY <2>4 DEF Mem
  <2> HIDE DEF g
  <2>6. \A s \in Task, b \in Addr : PTEof(g, s, b) = PTEof(k, s, b)
    BY <2>5 DEF PTEof
  <2>7. Seen(g, t, a) = v
    BY <2>4, <2>5, <2>6 DEF Seen, Present, p
  <2>8. ASSUME NEW s \in Task, NEW b \in Addr, s # t \/ b # a
        PROVE  Like(k, g, s, b)
    <3> DEFINE w == Pte(s, DirOf(b), EntryOf(b))
    <3>1. /\ w \in Place /\ Ref(k, T, A)[w] = PTEof(k, s, b).page
          /\ Present(k, s, b) => PTEof(k, s, b).page \in Page
      BY EntryPlace DEF k
    <3>2. PTEof(k, s, b).page = p => w = u
      BY <2>3, <2>4, <3>1 DEF Alone
    <3>3. w # u
      <4>1. /\ DirOf(a) \in Dir /\ EntryOf(a) \in Entry /\ a = DirOf(a) * NrEntries + EntryOf(a)
            /\ DirOf(b) \in Dir /\ EntryOf(b) \in Entry /\ b = DirOf(b) * NrEntries + EntryOf(b)
        BY AddrParts
      <4>2. w = u => s = t /\ DirOf(b) = DirOf(a) /\ EntryOf(b) = EntryOf(a)
        BY <4>1, PlaceDistinct
      <4> HIDE DEF w, u
      <4> QED
        BY <2>8, <4>1, <4>2
    <3>4. Present(k, s, b) => g.data[PTEof(k, s, b).page] = k.data[PTEof(k, s, b).page]
      BY <2>5, <3>1, <3>2, <3>3
    <3>5. PTEof(g, s, b) = PTEof(k, s, b)
      BY <2>6
    <3> QED
      BY <3>4, <3>5 DEF Like, Seen, Present
  <2>9. LikeBut(k, g, t, a)
    BY <2>8 DEF LikeBut
  <2>10. LikeBut(m, g, t, a) /\ PTEof(g, t, a).w
    BY <2>1, <2>6, <2>9, LikeChain DEF k
  <2> QED
    BY <2>2, <2>7, <2>10 DEF Stored
<1> QED
  BY <1>1, <1>2

(* A write of the program.                                                   *)
LEMMA UserWriteSees ==
  ASSUME NEW m, NEW T, NEW A, Kept(m, T, A), NEW t \in Task \ {Swapper}, NEW a \in Addr,
         NEW v \in Value
  PROVE  Stored(m, UserWrite(m, t, a, v), t, a, v)
<1> DEFINE r == IF Present(m, t, a) THEN WriteVerify(m, t, a) ELSE DoNoPage(m, t, a)
<1>1. Kept(r.m, T, A)
  BY WriteVerifyKeeps, DoNoPageKeeps DEF Moves
<1>2. Brings(m, r, t, a)
  BY WriteVerifySees, NoPageSees
<1>3. UserWrite(m, t, a, v) = Store(r, t, a, v)
  BY DEF UserWrite
<1> HIDE DEF r
<1> QED
  BY <1>1, <1>2, <1>3, StoreSees

(* A write of the kernel, where the program may write or has no page.        *)
LEMMA PutFsSees ==
  ASSUME NEW m, NEW T, NEW A, Kept(m, T, A), NEW t \in Task \ {Swapper}, NEW a \in Addr,
         NEW v \in Value, Wr(m, t, a)
  PROVE  Stored(m, PutFs(m, t, a, v), t, a, v)
<1> DEFINE r == IF Present(m, t, a) THEN Done(m) ELSE DoNoPage(m, t, a)
<1>1. Kept(r.m, T, A)
  BY DoNoPageKeeps DEF Moves, Done
<1>2. Brings(m, r, t, a)
  <2>1. CASE Present(m, t, a)
    BY <2>1, LikeSelf DEF Brings, Done, Wr
  <2>2. CASE ~Present(m, t, a)
    BY <2>2, NoPageSees
  <2> QED
    BY <2>1, <2>2
<1>3. PutFs(m, t, a, v) = Store(r, t, a, v)
  BY DEF PutFs
<1> HIDE DEF r
<1> QED
  BY <1>1, <1>2, <1>3, StoreSees

(* free_page_tables() leaves nothing of t and everything of the others.      *)
LEMMA FreeTablesSees ==
  ASSUME NEW m, NEW T, NEW A, Kept(m, T, A), NEW t \in Task \ {Swapper}
  PROVE  LET g == FreePageTables(m, t) IN
         OthersLike(m, g, t) /\ \A b \in Addr : ~Present(g, t, b)
<1> DEFINE g == FreePageTables(m, t)
           z == [d \in Dir |-> 0]
           tb == [p \in DOMAIN m.table |-> IF \E d \in Dir : m.dir[t][d] = p THEN Blank ELSE m.table[p]]
<1>1. m \in Mem /\ Programs(m)
  BY DEF Kept
<1>2. PICK mp : mp = [p \in Paged |-> m.map[p] - Uses(m, t, p)]
  OBVIOUS
<1>3. g = [m EXCEPT !.map = mp, !.table = tb, !.dir = [m.dir EXCEPT ![t] = z]]
  <2>1. [p \in Paged |-> m.map[p] - Uses(m, t, p)] = mp
    BY <1>2
  <2> QED
    BY <2>1 DEF FreePageTables
<1> HIDE DEF g, tb, z
<1>4. g.data = m.data /\ g.table = tb /\ g.dir = [m.dir EXCEPT ![t] = z]
  BY <1>1, <1>3 DEF Mem
<1>5. g.dir[t] = z /\ \A s \in Task \ {t} : g.dir[s] = m.dir[s]
  BY <1>1, <1>4 DEF Mem
<1>6. ASSUME NEW b \in Addr PROVE ~Present(g, t, b)
  <2>1. g.dir[t][DirOf(b)] = 0
    BY <1>5, AddrParts DEF z
  <2> QED
    BY <2>1 DEF Present, PTEof, Absent
<1>7. ASSUME NEW s \in Task \ {t}, NEW b \in Addr PROVE Like(m, g, s, b)
  <2> DEFINE c == DirOf(b)
             q == m.dir[s][c]
  <2>1. c \in Dir /\ q \in Paged \union {0, Pg0}
    BY AddrParts, EntryPlace
  <2>2. ASSUME NEW d \in Dir, q # 0 PROVE m.dir[t][d] # q
    <3>1. m.dir[t][d] # Pg0
      BY <1>1 DEF Programs
    <3>2. CASE q = Pg0
      BY <3>1, <3>2
    <3>3. CASE q \in Paged
      BY <2>1, <3>3, TablesApart
    <3> QED
      BY <2>1, <2>2, <3>2, <3>3
  <2>3. q # 0 => g.table[q] = m.table[q]
    <3>1. DOMAIN m.table = Paged \union {Pg0}
      BY <1>1 DEF Mem
    <3> HIDE DEF q
    <3> QED
      BY <1>4, <2>1, <2>2, <3>1 DEF tb
  <2> QED
    BY <1>4, <1>5, <2>3, LikeIf
<1> QED
  BY <1>6, <1>7 DEF OthersLike, g

\* The father sees what it did, and where the first n tables are copied so does the child.
SameSeen(m, n, t) == \A b \in Addr : Seen(n, t, b) = Seen(m, t, b)
Third(m, n, from, to) == \A s \in Task \ {from, to}, b \in Addr : Like(m, n, s, b)
ChildSees(k, m, from, to, n) == \A b \in Addr : DirOf(b) < n => Seen(k, to, b) = Seen(m, from, b)
EmptyFrom(k, to, n) == \A d \in Dir : d >= n => k.dir[to][d] = 0

(* A page table is copied: the child sees the pages of the father.           *)
LEMMA CopyTableSees ==
  ASSUME NEW m, NEW T, NEW A, Kept(m, T, A), NEW from \in Task, NEW to \in Task \ {Swapper, from},
         NEW d \in Dir, m.dir[from][d] # 0, Free(m) # {}, m.dir[to][d] = 0
  PROVE  LET c == CopyTable(m, from, to, d) IN
         /\ Third(m, c, from, to) /\ SameSeen(m, c, from)
         /\ \A b \in Addr : IF DirOf(b) = d THEN Seen(c, to, b) = Seen(m, from, b)
                                            ELSE Like(m, c, to, b)
         /\ \A e \in Dir \ {d} : c.dir[to][e] = m.dir[to][e]
<1> DEFINE src == m.dir[from][d]
           dst == NextFree(m)
           g == GetFreePage(m)
           c == CopyTable(m, from, to, d)
           ro == [e \in Entry |-> ReadOnly(m.table[src][e])]
           kept == [e \in Entry |-> IF m.table[src][e].page \in Paged
                                    THEN ReadOnly(m.table[src][e]) ELSE m.table[src][e]]
<1>1. Kept(g, T, A) /\ g.dir = m.dir /\ dst \in Paged
        /\ \A p \in (Paged \union {Pg0}) \ {dst} : g.table[p] = m.table[p]
  BY ONLY Kept(m, T, A), Free(m) # {}, GetKeeps
<1>2. /\ \A p \in Page \ {dst} : g.data[p] = m.data[p]
      /\ \A s \in Task, b \in Addr : PTEof(m, s, b).page # dst
  BY ONLY Kept(m, T, A), Free(m) # {}, GetSees
<1>3. \A s \in Task, b \in Dir : m.dir[s][b] # dst
  <2>1. Users(Ref(m, T, A), dst) = {}
    BY NextFreeIsFree, FreeIsUnused
  <2> HIDE DEF dst
  <2> QED
    BY <2>1, UnusedUnseen
<1>4. m \in Mem /\ g \in Mem /\ src \in Paged \union {Pg0} /\ src # 0 /\ src # dst
  BY <1>1, <1>3 DEF Kept, Mem
<1>5. /\ c.data = g.data /\ c.dir = [m.dir EXCEPT ![to][d] = dst]
      /\ c.table[dst] = ro /\ c.table[src] = kept
      /\ \A q \in (Paged \union {Pg0}) \ {src, dst} : c.table[q] = m.table[q]
  <2> DEFINE mp == [p \in Paged |-> g.map[p] + Cardinality({e \in Entry : m.table[src][e].page = p})]
             kg == [e \in Entry |-> IF g.table[src][e].page \in Paged
                                    THEN ReadOnly(g.table[src][e]) ELSE g.table[src][e]]
             tb == [g.table EXCEPT ![dst] = ro, ![src] = kg]
  <2>1. c = [g EXCEPT !.map = mp, !.table = tb, !.dir = [g.dir EXCEPT ![to][d] = dst]]
    <3>1. src \in DOMAIN g.table /\ src # dst
      BY <1>4 DEF Mem
    <3>2. [g.table EXCEPT ![dst] = ro][src] = g.table[src]
      BY <3>1
    <3> QED
      BY <1>4, <3>1, <3>2 DEF CopyTable
  <2>2. g.table[src] = m.table[src] /\ DOMAIN g.table = Paged \union {Pg0}
    BY <1>1, <1>4 DEF Mem
  <2>3. kg = kept
    BY <2>2
  <2> HIDE DEF c, g, src, dst, ro, kept, mp, kg
  <2>4. c.data = g.data /\ c.dir = [g.dir EXCEPT ![to][d] = dst] /\ c.table = tb
    BY <1>4, <2>1 DEF Mem
  <2> QED
    BY <1>1, <1>4, <2>2, <2>3, <2>4
<1> HIDE DEF g, c
<1>6. /\ c.dir[to][d] = dst
      /\ \A s \in Task, e \in Dir : s # to \/ e # d => c.dir[s][e] = m.dir[s][e]
  <2>1. m.dir \in [Task -> [Dir -> Paged \union {0, Pg0}]]
    BY <1>4 DEF Mem
  <2>2. c.dir = [m.dir EXCEPT ![to] = [m.dir[to] EXCEPT ![d] = dst]]
    BY <1>5
  <2> HIDE DEF dst
  <2>3. m.dir[to] \in [Dir -> Paged \union {0, Pg0}]
    BY <2>1
  <2> QED
    BY <2>1, <2>2, <2>3
<1> HIDE DEF src, dst
<1>7. \A p \in Page \ {dst} : c.data[p] = m.data[p]
  BY <1>2, <1>5
<1>8. ASSUME NEW s \in Task, NEW b \in Addr, s # to \/ DirOf(b) # d
      PROVE  /\ PTEof(c, s, b).page = PTEof(m, s, b).page
             /\ s # from => PTEof(c, s, b) = PTEof(m, s, b)
  <2> DEFINE q == m.dir[s][DirOf(b)]
             e == EntryOf(b)
  <2>1. DirOf(b) \in Dir /\ e \in Entry /\ q \in Paged \union {0, Pg0} /\ q # dst
    BY <1>3, AddrParts, EntryPlace
  <2>2. c.dir[s][DirOf(b)] = q
    BY <1>6, <1>8, <2>1
  <2>3. /\ PTEof(m, s, b) = (IF q = 0 THEN Absent ELSE m.table[q][e])
        /\ PTEof(c, s, b) = (IF q = 0 THEN Absent ELSE c.table[q][e])
    BY <2>2 DEF PTEof
  <2>4. q = src => s = from
    <3>1. CASE src \in Paged
      BY <2>1, <3>1, TablesApart DEF src
    <3>2. CASE src = Pg0
      <4>1. Programs(m)
        BY DEF Kept
      <4>2. from = Swapper
        BY <3>2, <4>1 DEF Programs, src
      <4>3. q = Pg0 => s = Swapper
        BY <2>1, <4>1 DEF Programs
      <4> QED
        BY <3>2, <4>2, <4>3
    <3> QED
      BY <1>4, <3>1, <3>2
  <2> HIDE DEF q, e
  <2>5. CASE q = src
    <3>1. c.table[src][e].page = m.table[src][e].page
      BY <1>5, <2>1 DEF ReadOnly
    <3> QED
      BY <1>4, <2>3, <2>4, <2>5, <3>1
  <2>6. CASE q # src
    BY <1>5, <2>1, <2>3, <2>6
  <2> QED
    BY <2>5, <2>6
<1>9. ASSUME NEW s \in Task, NEW b \in Addr
      PROVE  Present(m, s, b) => c.data[PTEof(m, s, b).page] = m.data[PTEof(m, s, b).page]
  BY <1>2, <1>7, EntryPlace
<1>10. ASSUME NEW s \in Task \ {from}, NEW b \in Addr, s # to \/ DirOf(b) # d
       PROVE  Like(m, c, s, b)
  <2>1. PTEof(c, s, b) = PTEof(m, s, b)
    BY <1>8, <1>10
  <2> QED
    BY <1>9, <2>1 DEF Like, Seen, Present
<1>11. SameSeen(m, c, from)
  <2>1. ASSUME NEW b \in Addr PROVE Seen(c, from, b) = Seen(m, from, b)
    <3>1. PTEof(c, from, b).page = PTEof(m, from, b).page
      BY <1>8
    <3> QED
      BY <1>9, <3>1 DEF Seen, Present
  <2> QED
    BY <2>1 DEF SameSeen
<1>12. ASSUME NEW b \in Addr, DirOf(b) = d
       PROVE  Seen(c, to, b) = Seen(m, from, b)
  <2>1. EntryOf(b) \in Entry /\ dst # 0
    BY <1>1, AddrParts, Numbers DEF dst
  <2>2. PTEof(c, to, b) = ReadOnly(m.table[src][EntryOf(b)])
    BY <1>5, <1>6, <1>12, <2>1 DEF PTEof
  <2>3. PTEof(m, from, b) = m.table[src][EntryOf(b)]
    BY <1>4, <1>12 DEF PTEof, src
  <2>4. PTEof(m, from, b) \in PTE
    BY EntryPlace
  <2>5. PTEof(c, to, b).page = PTEof(m, from, b).page
    BY <2>2, <2>3, <2>4 DEF ReadOnly, PTE
  <2> QED
    BY <1>9, <2>5 DEF Seen, Present
<1> QED
  BY <1>6, <1>10, <1>11, <1>12 DEF Third, c

(* copy_page_tables() gives the child what the father sees.                   *)
LEMMA CopyPageTablesSees ==
  ASSUME NEW m, NEW T, NEW A, Kept(m, T, A), NEW from \in Task, NEW to \in Task \ {Swapper, from},
         \A d \in Dir : m.dir[to][d] = 0
  PROVE  LET r == CopyPageTables(m, from, to) IN
         /\ Third(m, r.m, from, to) /\ SameSeen(m, r.m, from)
         /\ r.ok => \A b \in Addr : Seen(r.m, to, b) = Seen(m, from, b)
<1> DEFINE h == Copying(m, from, to)
           Good(n) == /\ Third(m, h[n].m, from, to) /\ SameSeen(m, h[n].m, from)
                      /\ EmptyFrom(h[n].m, to, n)
                      /\ h[n].ok => ChildSees(h[n].m, m, from, to, n)
           R == {n \in 0 .. NrTables : Good(n)}
<1>1. NrTables \in Nat
  BY MemoryAssumption
<1>2. /\ h[0] = Done(m)
      /\ \A n \in 1 .. NrTables : n - 1 \in Dir /\ h[n] = CopyStep(h[n - 1], n - 1, from, to)
      /\ \A n \in 0 .. NrTables : h[n] \in Copied(m, to, T, A)
  BY CopyingKeeps
<1> HIDE DEF h
<1>3. 0 \in R
  <2>1. h[0].m = m
    BY <1>2 DEF Done
  <2>2. Third(m, m, from, to) /\ SameSeen(m, m, from) /\ EmptyFrom(m, to, 0)
    BY DEF Third, Like, SameSeen, EmptyFrom
  <2>3. ChildSees(m, m, from, to, 0)
    <3>1. \A b \in Addr : ~(DirOf(b) < 0)
      <4>1. TAKE b \in Addr
      <4>2. DirOf(b) \in Dir
        BY AddrParts
      <4> QED
        BY <1>1, <4>2 DEF Dir
    <3> QED
      BY <3>1 DEF ChildSees
  <2> QED
    BY <1>1, <2>1, <2>2, <2>3
<1>4. ASSUME NEW n \in 1 .. NrTables, n - 1 \in R
      PROVE  n \in R
  <2> DEFINE r == h[n - 1]
             k == r.m
             d == n - 1
             c == CopyTable(k, from, to, d)
  <2>0. n \in 0 .. NrTables /\ d \in 0 .. NrTables /\ d \in Dir /\ d + 1 = n
    BY <1>1, <1>2
  <2>1. /\ Third(m, k, from, to) /\ SameSeen(m, k, from) /\ EmptyFrom(k, to, d)
        /\ r.ok => ChildSees(k, m, from, to, d)
    BY <1>4
  <2>2. Kept(k, T, A) /\ h[n] = CopyStep(r, d, from, to)
    <3>1. h[n - 1] \in Copied(m, to, T, A)
      BY <1>2, <2>0
    <3> QED
      BY <1>2, <3>1 DEF Copied, Moves
  <2>3. \A e \in Dir : e \in Int /\ (e < n <=> e < d \/ e = d) /\ (e >= n <=> e >= d /\ e # d)
    BY <1>1, <2>0 DEF Dir
  <2>4. \A b \in Addr : DirOf(b) \in Dir
    BY AddrParts
  <2> HIDE DEF r, k, d
  <2>5. EmptyFrom(k, to, n)
    BY <2>1, <2>3 DEF EmptyFrom
  <2>6. CASE ~r.ok \/ k.dir[from][d] = 0 \/ Free(k) = {}
    <3>1. h[n].m = k /\ (h[n].ok => r.ok /\ k.dir[from][d] = 0)
      BY <2>2, <2>6 DEF CopyStep, Failed, k
    <3>2. ASSUME r.ok, k.dir[from][d] = 0
          PROVE  ChildSees(k, m, from, to, n)
      <4>1. ASSUME NEW b \in Addr, DirOf(b) < n
            PROVE  Seen(k, to, b) = Seen(m, from, b)
        <5>1. CASE DirOf(b) < d
          BY <2>1, <3>2, <5>1 DEF ChildSees
        <5>2. CASE DirOf(b) = d
          <6>1. k.dir[to][d] = 0
            BY <2>0, <2>1, <2>3 DEF EmptyFrom, Dir, d
          <6>2. ~Present(k, to, b) /\ ~Present(k, from, b)
            BY <3>2, <5>2, <6>1 DEF Present, PTEof, Absent
          <6> QED
            BY <2>1, <6>2 DEF SameSeen, Seen
        <5> QED
          BY <2>3, <2>4, <4>1, <5>1, <5>2
      <4> QED
        BY <4>1 DEF ChildSees
    <3> QED
      BY <2>0, <2>1, <2>5, <3>1, <3>2
  <2>7. CASE r.ok /\ k.dir[from][d] # 0 /\ Free(k) # {}
    <3>1. h[n].m = c
      BY <2>2, <2>7 DEF CopyStep, Done, k
    <3>2. k.dir[to][d] = 0
      BY <2>0, <2>1, <2>3 DEF EmptyFrom, Dir, d
    <3>3. /\ Third(k, c, from, to) /\ SameSeen(k, c, from)
          /\ \A b \in Addr : IF DirOf(b) = d THEN Seen(c, to, b) = Seen(k, from, b)
                                             ELSE Like(k, c, to, b)
          /\ \A e \in Dir \ {d} : c.dir[to][e] = k.dir[to][e]
      BY <2>0, <2>2, <2>7, <3>2, CopyTableSees
    <3> HIDE DEF c
    <3>4. Third(m, c, from, to) /\ SameSeen(m, c, from)
      BY <2>1, <3>3 DEF Third, Like, SameSeen
    <3>5. EmptyFrom(c, to, n)
      BY <2>1, <2>3, <3>3 DEF EmptyFrom
    <3>6. ChildSees(c, m, from, to, n)
      BY <2>1, <2>3, <2>4, <2>7, <3>3 DEF ChildSees, SameSeen, Like
    <3> QED
      BY <2>0, <3>1, <3>4, <3>5, <3>6
  <2> QED
    BY <2>6, <2>7
<1>5. 0 .. NrTables \subseteq R
  <2> HIDE DEF R
  <2> QED
    BY <1>1, <1>3, <1>4, Climbing
<1>6. Good(NrTables)
  BY <1>1, <1>5
<1>7. \A b \in Addr : DirOf(b) < NrTables
  <2>1. TAKE b \in Addr
  <2>2. DirOf(b) \in Dir
    BY AddrParts
  <2> QED
    BY <1>1, <2>2 DEF Dir
<1>8. CopyPageTables(m, from, to) = h[NrTables]
  BY CopyIsLoop DEF h
<1> QED
  BY <1>6, <1>7, <1>8 DEF ChildSees

(* copy_strings() fills pages that nobody sees yet.                          *)
LEMMA FillingSees ==
  ASSUME NEW m, NEW T, NEW A, Kept(m, T, A), NEW t \in Task, NEW n \in 0 .. MAX_ARG_PAGES,
         n <= Cardinality(Free(m)), NEW v \in Value
  PROVE  AllLike(m, Filling(m, n, v)[n])
<1> DEFINE h == Filling(m, n, v)
           R == {i \in 0 .. n : AllLike(m, h[i])}
<1>1. n \in Nat /\ m \in Mem
  BY MemoryAssumption DEF Kept
<1>2. h[0] = m /\ \A i \in 1 .. n : h[i] = Filled(h[i - 1], v)
  BY <1>1, FillingIs
<1>3. \A i \in 1 .. n : Kept(h[i - 1], T, Entered(A, t, h, i - 1)) /\ Free(h[i - 1]) # {}
  BY FillingKeeps
<1> HIDE DEF h
<1>4. 0 \in R
  BY <1>1, <1>2, LikeSelf
<1>5. ASSUME NEW i \in 1 .. n, i - 1 \in R
      PROVE  i \in R
  <2>1. PICK B, k, p : B = Entered(A, t, h, i - 1) /\ k = h[i - 1] /\ p = NextFree(k)
    OBVIOUS
  <2>2. Kept(k, T, B) /\ Free(k) # {} /\ AllLike(m, k) /\ h[i] = Filled(k, v)
    BY <1>2, <1>3, <1>5, <2>1
  <2> DEFINE g == GetFreePage(k)
  <2>3. /\ AllLike(k, g) /\ Kept(g, T, B)
        /\ \A s \in Task, b \in Addr : PTEof(k, s, b).page # p
    BY <2>1, <2>2, GetSees, GetKeeps
  <2>4. h[i] = [g EXCEPT !.data = [g.data EXCEPT ![p] = v]]
    BY <2>1, <2>2 DEF Filled
  <2> HIDE DEF g
  <2>5. g \in Mem
    BY <2>3 DEF Kept
  <2>6. h[i].table = g.table /\ h[i].dir = g.dir /\ \A q \in Page \ {p} : h[i].data[q] = g.data[q]
    BY <2>4, <2>5 DEF Mem
  <2>7. ASSUME NEW s \in Task, NEW b \in Addr
        PROVE  Like(g, h[i], s, b)
    <3>1. PTEof(g, s, b).page # p
      BY <2>3 DEF AllLike, Like
    <3>2. Present(g, s, b) => PTEof(g, s, b).page \in Page \ {p}
      BY <2>3, <3>1, EntryPlace
    <3> QED
      BY <2>6, <3>2, LikeIf
  <2>8. AllLike(g, h[i])
    BY <2>7 DEF AllLike
  <2>9. AllLike(m, h[i]) /\ i \in 0 .. n
    BY <1>1, <2>2, <2>3, <2>8, LikeChain
  <2> QED
    BY <2>9
<1>6. 0 .. n \subseteq R
  <2> HIDE DEF R
  <2> QED
    BY <1>1, <1>4, <1>5, Climbing
<1> QED
  BY <1>1, <1>6 DEF h

\* What t has is on its stack and it may write to it.
OnStack(m, t) == \A b \in Addr : Present(m, t, b) => PTEof(m, t, b).w /\ b \in Stack

(* change_ldt() leaves the argument pages of t and everything of the others. *)
LEMMA PuttingSees ==
  ASSUME NEW m, NEW T, NEW A, Kept(m, T, A), NEW t \in Task \ {Swapper}, NEW ps \in Seq(Paged),
         Len(ps) <= MAX_ARG_PAGES, \A i \in 1 .. Len(ps) : A[t][i] = ps[i]
  PROVE  LET h == Putting(m, t, ps) IN
         OthersLike(m, h[Len(ps)], t) /\ OnStack(h[Len(ps)], t)
<1> DEFINE n == Len(ps)
           h == Putting(m, t, ps)
           R == {i \in 0 .. n : OthersLike(m, h[i], t) /\ OnStack(h[i], t)}
<1>1. n \in Nat
  BY PagesListed
<1>2. h[0] = FreePageTables(m, t) /\ \A i \in 1 .. n : PutsOne(h, t, ps, i, T)
  BY PuttingKeeps
<1> HIDE DEF h, n
<1>3. 0 \in R
  BY <1>1, <1>2, FreeTablesSees DEF OnStack
<1>4. ASSUME NEW i \in 1 .. n, i - 1 \in R
      PROVE  i \in R
  <2>1. PICK k, p, a : k = h[i - 1] /\ p = ps[i] /\ a = StackPage(i)
    OBVIOUS
  <2> DEFINE r == PutPage(k, p, t, a)
  <2>2. h[i] = r.m /\ a \in Addr /\ i \in 1 .. MAX_ARG_PAGES + 1
    BY <1>2, <2>1 DEF PutsOne
  <2>3. PICK B : Kept(k, T, B) /\ Spare(k, T, B, p)
    BY <1>2, <2>1 DEF PutsOne
  <2>4. OthersLike(m, k, t) /\ OnStack(k, t) /\ a \in Stack
    BY <1>4, <2>1, <2>2 DEF Stack
  <2>5. \/ LikeBut(k, r.m, t, a) /\ PTEof(r.m, t, a) = [page |-> p, w |-> TRUE]
        \/ r.m = k
    BY <2>2, <2>3, PutPageSees
  <2> HIDE DEF r
  <2>6. CASE r.m = k
    BY <1>1, <2>2, <2>4, <2>6
  <2>7. CASE LikeBut(k, r.m, t, a) /\ PTEof(r.m, t, a) = [page |-> p, w |-> TRUE]
    <3>1. OthersLike(m, r.m, t)
      BY <2>4, <2>7, LikeChain
    <3>2. OnStack(r.m, t)
      BY <2>4, <2>7 DEF OnStack, LikeBut, Like, Present
    <3> QED
      BY <1>1, <2>2, <3>1, <3>2
  <2> QED
    BY <2>5, <2>6, <2>7
<1>5. 0 .. n \subseteq R
  <2> HIDE DEF R
  <2> QED
    BY <1>1, <1>3, <1>4, Climbing
<1> QED
  BY <1>1, <1>5 DEF h, n

-----------------------------------------------------------------------------
(* The invariant: the places are kept, and who has what by where it is.      *)
ArgOf == [t \in Task |-> [i \in ArgNr |-> IF i <= Len(args[t]) THEN args[t][i] ELSE 0]]

ArgsTyped == args \in [Task -> Seq(Paged)] /\ \A t \in Task : Len(args[t]) <= MAX_ARG_PAGES

AtTyped ==
  /\ at \in [Task -> Addr \union {Cardinality(Addr)}]
  /\ \A t \in Task : pc[t] = "reading" => at[t] \in Addr

Placed ==
  /\ pc \in [Task -> PC]
  /\ \A t \in Task : t = Swapper <=> pc[t] \in {"main", "idle"}
  /\ \A t \in Task : pc[t] = "free" => tss[t] = 0
  /\ \A t \in Task, d \in Dir : pc[t] \in {"free", "exit"} => dir[t][d] = 0

IInv == Kept(mm, tss, ArgOf) /\ ArgsTyped /\ AtTyped /\ Placed

\* What Becomes(m) does to the contents of free pages does not matter.
LEMMA BecomesKeeps ==
  ASSUME NEW m, NEW T, NEW A, Kept(m, T, A), Becomes(m)
  PROVE  Kept(mm', T, A) /\ dir' = m.dir
<1> DEFINE g == mm'
<1>1. /\ g.map = m.map /\ g.table = m.table /\ g.dir = m.dir /\ dir' = m.dir
      /\ g.data = [p \in Page |-> IF p \in Free(m) THEN Zero ELSE m.data[p]]
      /\ g = [map |-> g.map, table |-> g.table, data |-> g.data, dir |-> g.dir]
  BY DEF Becomes, mm
<1>2. m \in Mem /\ Backed(Ref(m, T, A), m.map)
  BY DEF Kept, Counts
<1> HIDE DEF g
<1>3. g.data \in [Page -> Value \union {Zero}]
  BY <1>1, <1>2 DEF Mem
<1>4. g \in Mem
  BY <1>1, <1>2, <1>3 DEF Mem
<1>5. Kept(g, T, A)
  BY <1>1, <1>2, <1>4, SameRefs
<1> QED
  BY <1>1, <1>5 DEF g

\* A task other than the swapper goes on with its memory or loses it.
LEMMA GoesOnKeeps ==
  ASSUME NEW t \in Task \ {Swapper}, NEW p, NEW r, NEW T, NEW A,
         Moves(mm, r.m, t, T, A), GoesOn(t, p, r)
  PROVE  /\ Kept(mm', T, A)
         /\ \A s \in Task \ {t} : dir'[s] = dir[s]
         /\ \/ pc' = [pc EXCEPT ![t] = p]
            \/ pc' = [pc EXCEPT ![t] = "exit"] /\ \A d \in Dir : dir'[t][d] = 0
<1>0. mm.dir = dir
  BY DEF mm
<1>1. Kept(r.m, T, A) /\ \A s \in Task \ {t} : r.m.dir[s] = dir[s]
  BY <1>0 DEF Moves
<1>2. CASE r.ok
  <2>1. Becomes(r.m) /\ pc' = [pc EXCEPT ![t] = p]
    BY <1>2 DEF GoesOn, Goto
  <2> QED
    BY <1>1, <2>1, BecomesKeeps
<1>3. CASE ~r.ok
  <2> DEFINE f == FreePageTables(r.m, t)
  <2>1. Becomes(f) /\ pc' = [pc EXCEPT ![t] = "exit"]
    BY <1>3 DEF GoesOn, Goto
  <2>2. Moves(r.m, f, t, T, A) /\ \A d \in Dir : f.dir[t][d] = 0
    BY <1>1, FreeTablesKeeps
  <2> HIDE DEF f
  <2>3. Kept(mm', T, A) /\ dir' = f.dir
    BY <2>1, <2>2, BecomesKeeps DEF Moves
  <2> QED
    BY <1>1, <2>1, <2>2, <2>3 DEF Moves
<1> QED
  BY <1>2, <1>3

\* So a step of such a task keeps the invariant.
LEMMA TaskKeeps ==
  ASSUME Placed, NEW t \in Task \ {Swapper}, pc[t] # "free",
         NEW p \in {"user", "reading", "exec", "load"}, NEW r,
         Moves(mm, r.m, t, tss, ArgOf'), GoesOn(t, p, r), tss' = tss, ArgsTyped',
         at' \in [Task -> Addr \union {Cardinality(Addr)}],
         \A s \in Task \ {t} : pc[s] = "reading" => at'[s] \in Addr,
         p = "reading" => at'[t] \in Addr
  PROVE  IInv'
<1>1. /\ Kept(mm', tss, ArgOf')
      /\ \A s \in Task \ {t} : dir'[s] = dir[s]
      /\ \/ pc' = [pc EXCEPT ![t] = p]
         \/ pc' = [pc EXCEPT ![t] = "exit"] /\ \A d \in Dir : dir'[t][d] = 0
  BY GoesOnKeeps
<1>2. /\ pc' \in [Task -> PC] /\ \A s \in Task \ {t} : pc'[s] = pc[s]
      /\ pc'[t] \in {"user", "reading", "exec", "load", "exit"}
      /\ pc'[t] \in {p, "exit"}
      /\ pc'[t] = "exit" => \A d \in Dir : dir'[t][d] = 0
  BY <1>1 DEF Placed, PC
<1>3. (Kept(mm, tss, ArgOf))'
  BY <1>1
<1>4. AtTyped'
  BY <1>2 DEF AtTyped
<1>5. Placed'
  <2>1. \A s \in Task : s = Swapper <=> pc'[s] \in {"main", "idle"}
    BY <1>2 DEF Placed
  <2>2. \A s \in Task : pc'[s] = "free" => tss'[s] = 0
    BY <1>2 DEF Placed
  <2>3. \A s \in Task, d \in Dir : pc'[s] \in {"free", "exit"} => dir'[s][d] = 0
    BY <1>1, <1>2 DEF Placed
  <2> QED
    BY <1>2, <2>1, <2>2, <2>3 DEF Placed
<1> QED
  BY <1>3, <1>4, <1>5 DEF IInv

\* The same for a step that leaves the arguments of execve alone.
LEMMA ProgramKeeps ==
  ASSUME IInv, NEW t \in Task \ {Swapper}, pc[t] # "free",
         NEW p \in {"user", "reading", "load"}, NEW r,
         Moves(mm, r.m, t, tss, ArgOf), GoesOn(t, p, r), tss' = tss, args' = args,
         NEW b \in Addr \union {Cardinality(Addr)}, at' = [at EXCEPT ![t] = b],
         p = "reading" => b \in Addr
  PROVE  IInv'
<1>1. ArgOf' = ArgOf /\ ArgsTyped'
  BY DEF ArgOf, ArgsTyped, IInv
<1>2. /\ at' \in [Task -> Addr \union {Cardinality(Addr)}]
      /\ \A s \in Task \ {t} : pc[s] = "reading" => at'[s] \in Addr
      /\ at'[t] = b
  BY DEF IInv, AtTyped
<1>3. Placed
  BY DEF IInv
<1> QED
  BY <1>1, <1>2, <1>3, TaskKeeps

-----------------------------------------------------------------------------
(* One lemma for each kind of step.                                          *)
LEMMA Facts ==
  ASSUME IInv
  PROVE  /\ Kept(mm, tss, ArgOf) /\ mm.dir = dir /\ mm \in Mem
         /\ at \in [Task -> Addr \union {Cardinality(Addr)}]
         /\ \A t \in Task : pc[t] \in {"user", "reading", "exec", "load", "exit", "free"} <=> t # Swapper
         /\ Touched \subseteq Addr /\ 0 \in Addr
<1>1. Kept(mm, tss, ArgOf) /\ mm.dir = dir /\ mm \in Mem
  BY DEF IInv, Kept, mm
<1>2. at \in [Task -> Addr \union {Cardinality(Addr)}]
  BY DEF IInv, AtTyped
<1>3. \A t \in Task : pc[t] \in {"user", "reading", "exec", "load", "exit", "free"} <=> t # Swapper
  BY DEF IInv, Placed, PC
<1>4. Touched \subseteq Addr
  BY MemoryAssumption DEF Addr
<1>5. 0 \in Addr
  <2>1. NrTables \in Nat \ {0} /\ NrEntries \in Nat \ {0}
    BY MemoryAssumption
  <2>2. NrTables * NrEntries \in Nat /\ NrTables * NrEntries > 0
    BY <2>1, Z3
  <2> QED
    BY <2>2 DEF Addr
<1> QED
  BY <1>1, <1>2, <1>3, <1>4, <1>5

(* Faults, reads, writes and system calls that write into the program.       *)
LEMMA ProgramStep ==
  ASSUME IInv, NEW t \in Task, Program(t)
  PROVE  IInv'
<1>0. /\ Kept(mm, tss, ArgOf)
      /\ at \in [Task -> Addr \union {Cardinality(Addr)}]
      /\ Touched \subseteq Addr /\ 0 \in Addr
      /\ pc[t] \in {"user", "reading"} => t \in Task \ {Swapper} /\ pc[t] # "free"
  BY Facts
<1>1. ASSUME NEW a \in Touched, ProgramReads(t, a)
      PROVE  IInv'
  <2>1. t \in Task \ {Swapper} /\ pc[t] # "free" /\ a \in Addr
    BY <1>0, <1>1 DEF ProgramReads
  <2>2. Moves(mm, DoNoPage(mm, t, a).m, t, tss, ArgOf)
    BY <1>0, <2>1, DoNoPageKeeps
  <2>3. GoesOn(t, "user", DoNoPage(mm, t, a)) /\ tss' = tss /\ args' = args
          /\ at' = [at EXCEPT ![t] = at[t]] /\ at[t] \in Addr \union {Cardinality(Addr)}
    BY <1>0, <1>1 DEF ProgramReads
  <2> QED
    BY <2>1, <2>2, <2>3, ProgramKeeps
<1>2. ASSUME NEW a \in Touched, SysRead(t, a)
      PROVE  IInv'
  <2>1. t \in Task \ {Swapper} /\ pc[t] # "free" /\ a \in Addr
    BY <1>0, <1>2 DEF SysRead
  <2>2. Moves(mm, WriteVerify(mm, t, a).m, t, tss, ArgOf)
    BY <1>0, <2>1, WriteVerifyKeeps
  <2>3. GoesOn(t, "reading", WriteVerify(mm, t, a)) /\ tss' = tss /\ args' = args
          /\ at' = [at EXCEPT ![t] = a]
    BY <1>2 DEF SysRead
  <2> QED
    BY <2>1, <2>2, <2>3, ProgramKeeps
<1>3. ASSUME NEW a \in Touched, NEW v \in Value, ProgramWrites(t, a, v)
      PROVE  IInv'
  <2>1. t \in Task \ {Swapper} /\ pc[t] # "free" /\ a \in Addr
    BY <1>0, <1>3 DEF ProgramWrites
  <2>2. Moves(mm, UserWrite(mm, t, a, v).m, t, tss, ArgOf)
    BY <1>0, <2>1, UserWriteKeeps
  <2>3. GoesOn(t, "user", UserWrite(mm, t, a, v)) /\ tss' = tss /\ args' = args
          /\ at' = [at EXCEPT ![t] = at[t]] /\ at[t] \in Addr \union {Cardinality(Addr)}
    BY <1>0, <1>3 DEF ProgramWrites
  <2> QED
    BY <2>1, <2>2, <2>3, ProgramKeeps
<1>4. ASSUME NEW a \in Touched, NEW v \in Value, SysPipe(t, a, v)
      PROVE  IInv'
  <2>1. t \in Task \ {Swapper} /\ pc[t] # "free" /\ a \in Addr
    BY <1>0, <1>4 DEF SysPipe
  <2>2. Moves(mm, PutFs(mm, t, a, v).m, t, tss, ArgOf)
    BY <1>0, <2>1, PutFsKeeps
  <2>3. GoesOn(t, "user", PutFs(mm, t, a, v)) /\ tss' = tss /\ args' = args
          /\ at' = [at EXCEPT ![t] = at[t]] /\ at[t] \in Addr \union {Cardinality(Addr)}
    BY <1>0, <1>4 DEF SysPipe
  <2> QED
    BY <2>1, <2>2, <2>3, ProgramKeeps
<1>5. ASSUME NEW v \in Value, ReadEnd(t, v)
      PROVE  IInv'
  <2>1. t \in Task \ {Swapper} /\ pc[t] # "free" /\ at[t] \in Addr
    BY <1>0, <1>5 DEF ReadEnd, IInv, AtTyped
  <2>2. Moves(mm, PutFs(mm, t, at[t], v).m, t, tss, ArgOf)
    BY <1>0, <2>1, PutFsKeeps
  <2>3. GoesOn(t, "user", PutFs(mm, t, at[t], v)) /\ tss' = tss /\ args' = args
          /\ at' = [at EXCEPT ![t] = 0]
    BY <1>5 DEF ReadEnd
  <2> QED
    BY <1>0, <2>1, <2>2, <2>3, ProgramKeeps
<1> QED
  BY <1>1, <1>2, <1>3, <1>4, <1>5 DEF Program

\* do_exit() and the end of an execve that fails: the memory of t goes.
LEMMA ExitKeeps ==
  ASSUME IInv, NEW t \in Task \ {Swapper}, pc[t] # "free",
         Becomes(FreePageTables(mm, t)), pc' = [pc EXCEPT ![t] = "exit"],
         tss' = tss, args' = args, NEW b \in Addr \union {Cardinality(Addr)},
         at' = [at EXCEPT ![t] = b]
  PROVE  IInv'
<1> DEFINE r == Failed(mm)
<1>0. r.ok = FALSE /\ r.m = mm
  BY DEF Failed
<1>1. GoesOn(t, "user", r)
  BY <1>0 DEF GoesOn, Goto
<1>2. Moves(mm, r.m, t, tss, ArgOf)
  BY <1>0, Facts DEF Moves
<1> QED
  BY <1>1, <1>2, ProgramKeeps

(* do_exit() of a program.                                                   *)
LEMMA DoExitStep ==
  ASSUME IInv, NEW t \in Task, DoExit(t)
  PROVE  IInv'
<1>1. /\ t \in Task \ {Swapper} /\ pc[t] # "free" /\ at[t] \in Addr \union {Cardinality(Addr)}
      /\ at' = [at EXCEPT ![t] = at[t]]
  BY Facts DEF DoExit
<1>2. Becomes(FreePageTables(mm, t)) /\ pc' = [pc EXCEPT ![t] = "exit"] /\ tss' = tss /\ args' = args
  BY DEF DoExit, Goto
<1> QED
  BY <1>1, <1>2, ExitKeeps

(* release() frees the task structure; the region was empty before.          *)
LEMMA ReleaseStep ==
  ASSUME IInv, NEW t \in Task, Release(t)
  PROVE  IInv'
<1> DEFINE g == FreePage(mm, tss[t])
<1>1. /\ pc[t] = "exit" /\ Becomes(g) /\ tss' = [tss EXCEPT ![t] = 0]
      /\ pc' = [pc EXCEPT ![t] = "free"] /\ at' = at /\ args' = args
  BY DEF Release, Goto
<1>2. Kept(mm, tss, ArgOf) /\ mm.dir = dir /\ t # Swapper
  BY <1>1, Facts
<1>3. Kept(g, tss', ArgOf) /\ g.dir = dir
  BY <1>1, <1>2, TssTaken
<1> HIDE DEF g
<1>4. Kept(mm', tss', ArgOf) /\ dir' = dir
  BY <1>1, <1>3, BecomesKeeps
<1>5. ArgOf' = ArgOf /\ ArgsTyped'
  BY <1>1 DEF ArgOf, ArgsTyped, IInv
<1>6. AtTyped'
  BY <1>1 DEF AtTyped, IInv, Placed
<1>7. tss \in [Task -> Paged \union {0}]
  BY <1>2 DEF Kept
<1>8. Placed'
  BY <1>1, <1>2, <1>4, <1>7 DEF Placed, IInv, PC
<1> QED
  BY <1>4, <1>5, <1>6, <1>8 DEF IInv

(* sys_fork(): the task structure, and the region shared or given up.        *)
LEMMA ForkStep ==
  ASSUME IInv, NEW t \in Task, NEW c \in Task \ {t}, SysFork(t, c)
  PROVE  IInv'
<1> DEFINE g == GetFreePage(mm)
           p == NextFree(mm)
           U == [tss EXCEPT ![c] = p]
           r == CopyPageTables(g, t, c)
<1>0. pc[t] \in {"user", "main"} /\ pc[c] = "free" /\ Free(mm) # {} /\ at' = at /\ args' = args
  BY DEF SysFork
<1>1. /\ Kept(mm, tss, ArgOf) /\ mm.dir = dir /\ c \in Task \ {Swapper, t}
      /\ tss \in [Task -> Paged \union {0}] /\ tss[c] = 0
  BY <1>0, Facts DEF Kept, IInv, Placed
<1>2. Kept(g, tss, ArgOf) /\ Spare(g, tss, ArgOf, p) /\ g.dir = dir /\ p \in Paged
  BY <1>0, <1>1, GetKeeps
<1>3. Kept(g, U, ArgOf)
  <2> HIDE DEF g, p
  <2> QED
    BY <1>1, <1>2, TssGiven
<1>4. Moves(g, r.m, c, U, ArgOf)
  <2> HIDE DEF g, U
  <2> QED
    BY <1>1, <1>3, CopyPageTablesKeeps
<1>5. ArgOf' = ArgOf /\ ArgsTyped'
  BY <1>0 DEF ArgOf, ArgsTyped, IInv
<1>6. CASE r.ok
  <2>1. Becomes(r.m) /\ tss' = U
          /\ pc' = [pc EXCEPT ![c] = "user", ![t] = IF t = Swapper THEN "idle" ELSE pc[t]]
    BY <1>6 DEF SysFork
  <2> HIDE DEF r, U, g
  <2>2. Kept(mm', tss', ArgOf) /\ dir' = r.m.dir
    BY <1>4, <2>1, BecomesKeeps DEF Moves
  <2>3. \A s \in Task \ {c} : dir'[s] = dir[s]
    BY <1>2, <1>4, <2>2 DEF Moves
  <2>4. /\ pc' \in [Task -> PC] /\ pc'[c] = "user" /\ \A s \in Task \ {t, c} : pc'[s] = pc[s]
        /\ pc'[t] = (IF t = Swapper THEN "idle" ELSE pc[t])
    BY <1>1, <2>1 DEF IInv, Placed, PC
  <2>5. tss'[c] = p /\ \A s \in Task \ {c} : tss'[s] = tss[s]
    BY <1>1, <2>1 DEF U
  <2>6. AtTyped'
    BY <1>0, <2>4 DEF AtTyped, IInv
  <2>7. Placed'
    <3>1. \A s \in Task : s = Swapper <=> pc'[s] \in {"main", "idle"}
      BY <1>0, <1>1, <2>4 DEF IInv, Placed
    <3>2. \A s \in Task : pc'[s] = "free" => tss'[s] = 0
      BY <1>0, <2>4, <2>5 DEF IInv, Placed
    <3>3. \A s \in Task, d \in Dir : pc'[s] \in {"free", "exit"} => dir'[s][d] = 0
      BY <1>0, <2>3, <2>4 DEF IInv, Placed
    <3> QED
      BY <2>4, <3>1, <3>2, <3>3 DEF Placed
  <2> QED
    BY <1>5, <2>2, <2>6, <2>7 DEF IInv
<1>7. CASE ~r.ok
  <2> DEFINE f == FreePageTables(r.m, c)
             k == FreePage(f, p)
  <2>1. Becomes(k) /\ tss' = tss /\ pc' = pc
    BY <1>7 DEF SysFork
  <2>2. Moves(r.m, f, c, U, ArgOf) /\ \A d \in Dir : f.dir[c][d] = 0
    <3> HIDE DEF r, U
    <3> QED
      BY <1>1, <1>4, FreeTablesKeeps DEF Moves
  <2> HIDE DEF r, g, f
  <2>3. Kept(k, [U EXCEPT ![c] = 0], ArgOf) /\ k.dir = f.dir
    <3>1. U[c] = p
      BY <1>1
    <3>2. Kept(f, U, ArgOf)
      BY <2>2 DEF Moves
    <3> HIDE DEF U, p
    <3> QED
      BY <3>1, <3>2, TssTaken
  <2>4. [U EXCEPT ![c] = 0] = tss
    BY <1>1
  <2> HIDE DEF U, k
  <2>5. Kept(mm', tss', ArgOf) /\ dir' = f.dir
    BY <2>1, <2>3, <2>4, BecomesKeeps
  <2>6. \A s \in Task \ {c} : dir'[s] = dir[s]
    BY <1>2, <1>4, <2>2, <2>5 DEF Moves
  <2>7. AtTyped'
    BY <1>0, <2>1 DEF AtTyped, IInv
  <2>8. Placed'
    BY <2>1, <2>2, <2>5, <2>6 DEF IInv, Placed
  <2> QED
    BY <1>5, <2>5, <2>7, <2>8 DEF IInv
<1> QED
  BY <1>6, <1>7

(* do_execve() gets the pages of its arguments.                              *)
LEMMA CopyStringsStep ==
  ASSUME IInv, NEW t \in Task, NEW n \in 0 .. MAX_ARG_PAGES, NEW v \in Value, CopyStrings(t, n, v)
  PROVE  IInv'
<1> DEFINE h == Filling(mm, n, v)
           ps == [i \in 1 .. n |-> NextFree(h[i - 1])]
<1>1. CopyStrings(t, n, v)
        <=> /\ pc[t] = "user" /\ n <= Cardinality(Free(mm)) /\ Becomes(h[n])
            /\ args' = [args EXCEPT ![t] = ps] /\ Goto(t, "exec") /\ UNCHANGED <<tss, at>>
  BY DEF CopyStrings, Filling, Fills, Filled
<1>2. /\ pc[t] = "user" /\ n <= Cardinality(Free(mm)) /\ Becomes(h[n])
      /\ args' = [args EXCEPT ![t] = ps] /\ pc' = [pc EXCEPT ![t] = "exec"]
      /\ tss' = tss /\ at' = at
  BY <1>1 DEF Goto
<1>3. Kept(mm, tss, ArgOf) /\ mm.dir = dir /\ t \in Task \ {Swapper}
  BY <1>2, Facts
<1>4. /\ Kept(h[n], tss, Entered(ArgOf, t, h, n)) /\ h[n].dir = dir
      /\ \A i \in 1 .. n : NextFree(h[i - 1]) \in Paged
  BY <1>2, <1>3, FillingKeeps
<1>5. n \in Nat /\ n <= MAX_ARG_PAGES /\ MAX_ARG_PAGES \in Nat
  BY MemoryAssumption
<1> HIDE DEF h
<1>6. ps \in Seq(Paged) /\ Len(ps) = n /\ \A i \in 1 .. n : ps[i] = NextFree(h[i - 1])
  BY <1>4, <1>5
<1> HIDE DEF ps
<1>7. ArgsTyped' /\ args'[t] = ps /\ \A s \in Task \ {t} : args'[s] = args[s]
  BY <1>2, <1>5, <1>6 DEF IInv, ArgsTyped
<1>8. ArgOf' = Entered(ArgOf, t, h, n)
  <2> DEFINE C(s) == [i \in ArgNr |-> IF i <= Len(args[s]) THEN args[s][i] ELSE 0]
             D(s) == [i \in ArgNr |-> IF i <= Len(args'[s]) THEN args'[s][i] ELSE 0]
             E == [i \in ArgNr |-> IF i <= n THEN NextFree(h[i - 1]) ELSE 0]
  <2>1. ArgOf = [s \in Task |-> C(s)] /\ ArgOf' = [s \in Task |-> D(s)]
          /\ Entered(ArgOf, t, h, n) = [ArgOf EXCEPT ![t] = E]
    BY DEF ArgOf, Entered
  <2>2. \A s \in Task \ {t} : D(s) = C(s)
    BY <1>7
  <2>3. D(t) = E
    <3>1. \A i \in ArgNr : i \in Nat /\ i >= 1
      BY <1>5 DEF ArgNr
    <3>2. \A i \in ArgNr : i <= n => i \in 1 .. n
      BY <1>5, <3>1
    <3>3. \A i \in ArgNr : D(t)[i] = E[i]
      BY <1>6, <1>7, <3>2
    <3> QED
      BY <3>3
  <2> HIDE DEF C, D, E
  <2> QED
    BY <2>1, <2>2, <2>3
<1>9. Kept(mm', tss', ArgOf') /\ dir' = dir
  BY <1>2, <1>4, <1>8, BecomesKeeps
<1>10. AtTyped' /\ Placed'
  BY <1>2, <1>3, <1>9 DEF IInv, AtTyped, Placed, PC
<1> QED
  BY <1>7, <1>9, <1>10 DEF IInv

(* do_execve() frees the old region and puts the arguments into the new one. *)
LEMMA ChangeLdtStep ==
  ASSUME IInv, NEW t \in Task, NEW v \in Value, ChangeLdt(t, v)
  PROVE  IInv'
<1> DEFINE ps == args[t]
           n == Len(ps)
           h == Putting(mm, t, ps)
<1>1. ChangeLdt(t, v)
        <=> /\ pc[t] = "exec"
            /\ \E i \in {n, n + 1} \ {0} : GoesOn(t, "load", PutFs(h[n], t, StackPage(i), v))
            /\ args' = [args EXCEPT ![t] = <<>>] /\ at' = [at EXCEPT ![t] = 0] /\ UNCHANGED tss
  BY DEF ChangeLdt, Putting, Puts, PutAt
<1>2. /\ pc[t] = "exec" /\ args' = [args EXCEPT ![t] = <<>>]
      /\ at' = [at EXCEPT ![t] = 0] /\ tss' = tss
  BY <1>1
<1>3. PICK i \in {n, n + 1} \ {0} : GoesOn(t, "load", PutFs(h[n], t, StackPage(i), v))
  BY <1>1
<1>4. /\ Kept(mm, tss, ArgOf) /\ mm.dir = dir /\ t \in Task \ {Swapper} /\ 0 \in Addr
      /\ at \in [Task -> Addr \union {Cardinality(Addr)}]
  BY <1>2, Facts
<1>5. /\ args \in [Task -> Seq(Paged)] /\ ps \in Seq(Paged) /\ n \in Nat /\ n <= MAX_ARG_PAGES
      /\ MAX_ARG_PAGES \in Nat
  BY MemoryAssumption DEF IInv, ArgsTyped
<1>6. ArgOf' = Left(ArgOf, t, n) /\ ArgsTyped' /\ \A j \in 1 .. n : ArgOf[t][j] = ps[j]
  <2>1. args'[t] = <<>> /\ Len(args'[t]) = 0 /\ \A s \in Task \ {t} : args'[s] = args[s]
    BY <1>2, <1>5
  <2>2. ArgsTyped'
    BY <1>2, <1>5, <2>1 DEF IInv, ArgsTyped
  <2>3. \A j \in ArgNr : j \in Nat /\ j >= 1
    BY <1>5 DEF ArgNr
  <2>4. \A j \in 1 .. n : ArgOf[t][j] = ps[j]
    BY <1>5 DEF ArgOf, ArgNr
  <2>5. ArgOf' = Left(ArgOf, t, n)
    <3> DEFINE C(s) == [j \in ArgNr |-> IF j <= Len(args[s]) THEN args[s][j] ELSE 0]
               D(s) == [j \in ArgNr |-> IF j <= Len(args'[s]) THEN args'[s][j] ELSE 0]
               E == [j \in ArgNr |-> IF j <= n THEN 0 ELSE ArgOf[t][j]]
    <3>1. ArgOf = [s \in Task |-> C(s)] /\ ArgOf' = [s \in Task |-> D(s)]
            /\ Left(ArgOf, t, n) = [ArgOf EXCEPT ![t] = E]
      BY DEF ArgOf, Left
    <3>2. \A s \in Task \ {t} : D(s) = C(s)
      BY <2>1
    <3>3. D(t) = E
      <4>1. \A j \in ArgNr : D(t)[j] = 0
        BY <2>1, <2>3
      <4>2. \A j \in ArgNr : E[j] = 0
        BY <1>5, <2>3, <3>1
      <4> QED
        BY <4>1, <4>2
    <3> HIDE DEF C, D, E
    <3> QED
      BY <3>1, <3>2, <3>3
  <2> QED
    BY <2>2, <2>4, <2>5
<1> HIDE DEF h, n, ps
<1>7. Moves(mm, h[n], t, tss, ArgOf')
  BY <1>4, <1>5, <1>6, PuttingKeeps DEF h, n, ps
<1>8. StackPage(i) \in Addr
  <2>1. i \in 1 .. MAX_ARG_PAGES + 1
    BY <1>5
  <2> QED
    BY <2>1, StackInRegion
<1> DEFINE r == PutFs(h[n], t, StackPage(i), v)
<1>9. Moves(mm, r.m, t, tss, ArgOf')
  <2>1. Kept(h[n], tss, ArgOf')
    BY <1>7 DEF Moves
  <2>2. Moves(h[n], r.m, t, tss, ArgOf')
    BY <1>4, <1>8, <2>1, PutFsKeeps
  <2> HIDE DEF r
  <2> QED
    BY <1>7, <2>2 DEF Moves
<1>10. /\ at' \in [Task -> Addr \union {Cardinality(Addr)}]
       /\ \A s \in Task \ {t} : pc[s] = "reading" => at'[s] \in Addr
  BY <1>2, <1>4 DEF IInv, AtTyped
<1>11. Placed /\ pc[t] # "free" /\ GoesOn(t, "load", r)
  BY <1>2, <1>3 DEF IInv
<1> HIDE DEF r
<1> QED
  BY <1>2, <1>4, <1>6, <1>9, <1>10, <1>11, TaskKeeps

(* What execve reads is for addresses of the region.                         *)
LEMMA ReadInRegion ==
  ASSUME NEW a \in Addr \union {Cardinality(Addr)}, a < MaxImage
  PROVE  a \in Addr /\ a + 1 \in Addr \union {Cardinality(Addr)}
<1> DEFINE y == NrTables * NrEntries
<1>1. y \in Nat /\ MaxImage \in Int /\ MaxImage <= y
  <2>1. NrTables \in Nat /\ NrEntries \in Nat
    BY MemoryAssumption
  <2>2. y \in Nat
    BY <2>1, Z3
  <2>3. MaxImage \in 0 .. y
    BY MemoryAssumption
  <2> HIDE DEF y
  <2> QED
    BY <2>2, <2>3
<1>2. Addr = 0 .. y - 1
  BY DEF Addr
<1> HIDE DEF y
<1>3. Cardinality(Addr) = y
  <2>1. 0 \in Int /\ y - 1 \in Int
    BY <1>1
  <2> QED
    BY <1>1, <1>2, <2>1, FS_Interval
<1> QED
  BY <1>1, <1>2, <1>3

(* It reads the program into the new region.                                 *)
LEMMA ReadAreaStep ==
  ASSUME IInv, NEW t \in Task, NEW v \in Value, ReadArea(t, v)
  PROVE  IInv'
<1> DEFINE r == PutFs(mm, t, at[t], v)
           b == IF pc'[t] = "load" THEN at[t] + 1 ELSE 0
<1>1. /\ pc[t] = "load" /\ at[t] < MaxImage /\ GoesOn(t, "load", r)
      /\ at' = [at EXCEPT ![t] = b] /\ tss' = tss /\ args' = args
  BY DEF ReadArea
<1>2. /\ Kept(mm, tss, ArgOf) /\ t \in Task \ {Swapper} /\ 0 \in Addr
      /\ at[t] \in Addr \union {Cardinality(Addr)}
  BY <1>1, Facts
<1>3. at[t] \in Addr /\ b \in Addr \union {Cardinality(Addr)}
  BY <1>1, <1>2, ReadInRegion
<1>4. Moves(mm, r.m, t, tss, ArgOf)
  BY <1>2, <1>3, PutFsKeeps
<1> HIDE DEF r, b
<1> QED
  BY <1>1, <1>2, <1>3, <1>4, ProgramKeeps

(* It goes back to the program, or ends it.                                  *)
LEMMA ExecDoneStep ==
  ASSUME IInv, NEW t \in Task, ExecDone(t)
  PROVE  IInv'
<1>1. /\ pc[t] = "load" /\ at' = [at EXCEPT ![t] = 0] /\ tss' = tss /\ args' = args
  BY DEF ExecDone
<1>2. t \in Task \ {Swapper} /\ pc[t] # "free" /\ 0 \in Addr \union {Cardinality(Addr)}
        /\ Kept(mm, tss, ArgOf) /\ mm.dir = dir /\ at \in [Task -> Addr \union {Cardinality(Addr)}]
  BY <1>1, Facts
<1>3. CASE Goto(t, "exit") /\ Becomes(FreePageTables(mm, t))
  <2>1. pc' = [pc EXCEPT ![t] = "exit"]
    BY <1>3 DEF Goto
  <2> QED
    BY <1>1, <1>2, <1>3, <2>1, ExitKeeps
<1>4. CASE Goto(t, "user") /\ UNCHANGED pages
  <2>1. pc' = [pc EXCEPT ![t] = "user"] /\ mm' = mm /\ dir' = dir
    BY <1>4 DEF Goto, pages, mm
  <2>2. ArgOf' = ArgOf /\ ArgsTyped'
    BY <1>1 DEF ArgOf, ArgsTyped, IInv
  <2>3. AtTyped'
    BY <1>1, <1>2, <2>1, Facts DEF AtTyped, IInv, Placed
  <2>4. Placed'
    BY <1>1, <1>2, <2>1 DEF Placed, IInv, PC
  <2> QED
    BY <1>1, <1>2, <2>1, <2>2, <2>3, <2>4 DEF IInv
<1> QED
  BY <1>3, <1>4 DEF ExecDone

(* At first only the swapper has memory: pg0, with pages that are not paged.  *)
LEMMA InitKept ==
  ASSUME Init
  PROVE  IInv
<1> DEFINE f == Ref(mm, tss, ArgOf)
<1>0. /\ NR_TASKS \in Nat \ {0} /\ NrTables \in Nat \ {0} /\ NrEntries \in Nat \ {0}
      /\ MAX_ARG_PAGES \in Nat /\ NrLow \in 1 .. NrEntries
  BY MemoryAssumption
<1>1. /\ mm.map = mem_map /\ mm.table = table /\ mm.data = data /\ mm.dir = dir
      /\ mm = [map |-> mem_map, table |-> table, data |-> data, dir |-> dir]
  BY DEF mm
<1>2. /\ mem_map \in [Paged -> Nat] /\ data \in [Page -> Value \union {Zero}]
      /\ tss \in [Task -> Paged \union {0}] /\ dir \in [Task -> [Dir -> Paged \union {0, Pg0}]]
      /\ \A t \in Task \ {Swapper}, d \in Dir : dir[t][d] = 0
      /\ \A t \in Task, d \in Dir : dir[t][d] \in {0, Pg0}
      /\ \A p \in Paged : mem_map[p] = 0
  BY DEF Init
<1>3. table \in [Paged \union {Pg0} -> [Entry -> PTE]]
        /\ \A p \in Paged \union {Pg0}, e \in Entry : table[p][e].page \notin Paged
  <2> DEFINE F(p, e) == IF p = Pg0 /\ e < NrLow THEN [page |-> LowPage(e), w |-> TRUE] ELSE Absent
  <2>1. ASSUME NEW p \in Paged \union {Pg0}, NEW e \in Entry
        PROVE  F(p, e) \in PTE /\ F(p, e).page \notin Paged
    <3>1. CASE p = Pg0 /\ e < NrLow
      <4>1. e \in 0 .. NrLow - 1
        BY <1>0, <3>1 DEF Entry
      <4>2. LowPage(e) \in Low /\ LowPage(e) \notin Paged
        BY <1>0, <4>1 DEF Low, LowPage, Paged
      <4> QED
        BY <3>1, <4>2 DEF PTE, Page
    <3>2. CASE ~(p = Pg0 /\ e < NrLow)
      BY <3>2, Numbers DEF Absent
    <3> QED
      BY <3>1, <3>2
  <2>2. table = [p \in Paged \union {Pg0} |-> [e \in Entry |-> F(p, e)]]
    BY DEF Init
  <2> HIDE DEF F
  <2> QED
    BY <2>1, <2>2
<1>4. mm \in Mem
  BY <1>1, <1>2, <1>3 DEF Mem
<1>5. ArgOf \in [Task -> [ArgNr -> Paged \union {0}]] /\ \A t \in Task, i \in ArgNr : ArgOf[t][i] = 0
  <2>1. \A t \in Task : args[t] = <<>> /\ Len(args[t]) = 0
    BY DEF Init
  <2>2. \A i \in ArgNr : i \in Nat /\ ~(i <= 0)
    BY <1>0 DEF ArgNr
  <2>3. \A t \in Task, i \in ArgNr : ArgOf[t][i] = 0
    BY <2>1, <2>2 DEF ArgOf
  <2>4. ArgOf \in [Task -> [ArgNr -> Paged \union {0}]]
    <3>1. ArgOf = [t \in Task |-> [i \in ArgNr |-> 0]]
      BY <2>1, <2>2 DEF ArgOf
    <3> QED
      BY <3>1
  <2> QED
    BY <2>3, <2>4
<1>6. ASSUME NEW u \in Place PROVE f[u] \notin Paged
  <2>1. CASE \E t \in Task, d \in Dir, e \in Entry : u = Pte(t, d, e)
    <3>1. PICK t \in Task, d \in Dir, e \in Entry : u = Pte(t, d, e)
      BY <2>1
    <3>2. f[u] = IF dir[t][d] = 0 THEN 0 ELSE table[dir[t][d]][e].page
      BY <1>1, <3>1, RefAt
    <3>3. dir[t][d] \in {0, Pg0}
      BY ONLY <1>2
    <3>4. table[Pg0][e].page \notin Paged
      BY <1>3
    <3> HIDE DEF f
    <3> QED
      BY <3>2, <3>3, <3>4, Numbers
  <2>2. CASE \E t \in Task, d \in Dir : u = DirP(t, d)
    <3>1. PICK t \in Task, d \in Dir : u = DirP(t, d)
      BY <2>2
    <3>2. f[u] = dir[t][d]
      BY <1>1, <3>1, RefAt
    <3>3. dir[t][d] \in {0, Pg0}
      BY ONLY <1>2
    <3> HIDE DEF f
    <3> QED
      BY <3>2, <3>3, Numbers
  <2>3. CASE \E t \in Task : u = Tss(t)
    BY <2>3, RefAt, Numbers DEF Init
  <2>4. CASE \E t \in Task, i \in ArgNr : u = Arg(t, i)
    BY <1>5, <2>4, RefAt, Numbers
  <2> QED
    BY <2>1, <2>2, <2>3, <2>4, PlaceKinds
<1> HIDE DEF f
<1>7. Backed(f, mem_map)
  <2>1. ASSUME NEW p \in Paged PROVE Cardinality(Users(f, p)) <= mem_map[p]
    <3>1. Users(f, p) = {}
      BY <1>6 DEF Users, Of
    <3>2. Cardinality(Users(f, p)) = 0
      BY <3>1, FS_EmptySet
    <3> QED
      BY <1>2, <3>2
  <2> QED
    BY <2>1 DEF Backed
<1>8. Alone(f, Owning(mm))
  BY <1>6, RefAt DEF Alone
<1>9. Programs(mm)
  BY <1>1, <1>2, Numbers DEF Programs, Writable
<1>10. Kept(mm, tss, ArgOf)
  BY <1>1, <1>2, <1>4, <1>5, <1>7, <1>8, <1>9 DEF Kept, Counts, f
<1>11. ArgsTyped
  BY <1>0 DEF Init, ArgsTyped
<1>12. AtTyped /\ Placed
  <2>1. 0 \in Addr
    <3>1. NrTables * NrEntries \in Nat /\ NrTables * NrEntries > 0
      BY <1>0, Z3
    <3> QED
      BY <3>1 DEF Addr
  <2>2. AtTyped
    BY <2>1 DEF Init, AtTyped
  <2>3. pc \in [Task -> PC] /\ \A t \in Task : pc[t] = IF t = Swapper THEN "main" ELSE "free"
    BY DEF Init, PC
  <2>4. \A t \in Task : pc[t] = "free" => tss[t] = 0
    BY DEF Init
  <2>5. Placed
    BY <1>2, <2>3, <2>4 DEF Placed
  <2> QED
    BY <2>2, <2>5
<1> QED
  BY <1>10, <1>11, <1>12 DEF IInv

(* Every step keeps the invariant.                                           *)
LEMMA StepKept ==
  ASSUME IInv, [Next]_vars
  PROVE  IInv'
<1>1. CASE UNCHANGED vars
  <2>1. mm' = mm /\ tss' = tss /\ ArgOf' = ArgOf /\ args' = args /\ at' = at /\ pc' = pc /\ dir' = dir
    BY <1>1 DEF vars, pages, mm, ArgOf
  <2> QED
    BY <2>1 DEF IInv, ArgsTyped, AtTyped, Placed
<1>2. ASSUME NEW t \in Task, Execve(t)
      PROVE  IInv'
  BY <1>2, CopyStringsStep, ChangeLdtStep, ReadAreaStep, ExecDoneStep DEF Execve
<1>3. ASSUME NEW t \in Task,
             \/ Program(t) \/ Execve(t) \/ DoExit(t) \/ Release(t)
             \/ \E c \in Task \ {t} : SysFork(t, c)
      PROVE  IInv'
  BY <1>2, <1>3, ProgramStep, DoExitStep, ReleaseStep, ForkStep
<1> QED
  BY <1>1, <1>3 DEF Next

-----------------------------------------------------------------------------
(* Refs counts the places of a page.                                         *)
LEMMA RefsAreUsers ==
  ASSUME NEW p \in Paged, args \in [Task -> Seq(Paged)]
  PROVE  Refs(p) = Cardinality(Users(Ref(mm, tss, ArgOf), p))
<1> DEFINE f == Ref(mm, tss, ArgOf)
           S1 == {u \in Task \X Dir \X Entry :
                    dir[u[1]][u[2]] # 0 /\ table[dir[u[1]][u[2]]][u[3]].page = p}
           S2 == {u \in Task \X Dir : dir[u[1]][u[2]] = p}
           S3 == {t \in Task : tss[t] = p}
           S4 == {u \in Task \X ArgNr : u[2] <= Len(args[u[1]]) /\ args[u[1]][u[2]] = p}
           P1 == {u \in Ptes : f[u] = p}
           P2 == {u \in Dirs : f[u] = p}
           P3 == {u \in Tsses : f[u] = p}
           P4 == {u \in Args : f[u] = p}
           k1 == [u \in S1 |-> Pte(u[1], u[2], u[3])]
           k2 == [u \in S2 |-> DirP(u[1], u[2])]
           k3 == [t \in S3 |-> Tss(t)]
           k4 == [u \in S4 |-> Arg(u[1], u[2])]
<1>0. 0 \notin Paged /\ p # 0
  BY Numbers
<1>1. Refs(p) = Cardinality(S1) + Cardinality(S2) + Cardinality(S3) + Cardinality(S4)
  BY DEF Refs, ArgNr
<1>2. /\ \A t \in Task, d \in Dir, e \in Entry :
           f[Pte(t, d, e)] = p <=> dir[t][d] # 0 /\ table[dir[t][d]][e].page = p
      /\ \A t \in Task, d \in Dir : f[DirP(t, d)] = p <=> dir[t][d] = p
      /\ \A t \in Task : f[Tss(t)] = p <=> tss[t] = p
      /\ \A t \in Task, i \in ArgNr : f[Arg(t, i)] = p <=> i <= Len(args[t]) /\ args[t][i] = p
  <2>1. mm.dir = dir /\ mm.table = table
    BY DEF mm
  <2>2. \A t \in Task, i \in ArgNr : ArgOf[t][i] = IF i <= Len(args[t]) THEN args[t][i] ELSE 0
    BY DEF ArgOf
  <2>3. \A t \in Task, d \in Dir, e \in Entry :
           f[Pte(t, d, e)] = p <=> dir[t][d] # 0 /\ table[dir[t][d]][e].page = p
    BY <1>0, <2>1, RefAt
  <2>4. \A t \in Task, d \in Dir : f[DirP(t, d)] = p <=> dir[t][d] = p
    BY <2>1, RefAt
  <2>5. \A t \in Task : f[Tss(t)] = p <=> tss[t] = p
    BY RefAt
  <2>6. \A t \in Task, i \in ArgNr : f[Arg(t, i)] = p <=> i <= Len(args[t]) /\ args[t][i] = p
    BY <1>0, <2>2, RefAt
  <2> QED
    BY <2>3, <2>4, <2>5, <2>6
<1> HIDE DEF f
<1>3. IsFiniteSet(P1) /\ IsFiniteSet(P2) /\ IsFiniteSet(P3) /\ IsFiniteSet(P4)
  BY PlacesFinite, FS_Subset
<1>4. Cardinality(S1) = Cardinality(P1)
  <2>1. k1 \in [S1 -> P1]
    BY <1>2 DEF Ptes, Pte
  <2>2. \A u, v \in S1 : k1[u] = k1[v] => u = v
    <3>1. ASSUME NEW u \in S1, NEW v \in S1, k1[u] = k1[v]
          PROVE  u = v
      <4>1. u = <<u[1], u[2], u[3]>> /\ v = <<v[1], v[2], v[3]>>
        OBVIOUS
      <4>2. k1[u] = Pte(u[1], u[2], u[3]) /\ k1[v] = Pte(v[1], v[2], v[3])
        OBVIOUS
      <4>3. u[1] = v[1] /\ u[2] = v[2] /\ u[3] = v[3]
        BY <3>1, <4>2 DEF Pte
      <4> QED
        BY <4>1, <4>3
    <3> QED
      BY <3>1
  <2>3. ASSUME NEW w \in P1 PROVE \E u \in S1 : k1[u] = w
    <3>1. PICK t \in Task, d \in Dir, e \in Entry : w = Pte(t, d, e)
      BY DEF Ptes, Pte
    <3>2. <<t, d, e>> \in S1
      BY <1>2, <3>1
    <3> QED
      BY <3>1, <3>2
  <2> HIDE DEF k1, S1, P1
  <2>4. k1 \in Bijection(S1, P1)
    BY <2>1, <2>2, <2>3 DEF Bijection, Injection, Surjection, IsInjective
  <2>5. k1 \in Surjection(S1, P1) /\ k1 \in Injection(S1, P1)
    BY <2>4 DEF Bijection
  <2>6. IsFiniteSet(S1)
    BY <1>3, <2>5, FS_Injection
  <2> QED
    BY <2>4, <2>6, FS_Bijection DEF ExistsBijection
<1>5. Cardinality(S2) = Cardinality(P2)
  <2>1. k2 \in [S2 -> P2]
    BY <1>2 DEF Dirs, DirP
  <2>2. \A u, v \in S2 : k2[u] = k2[v] => u = v
    BY DEF DirP
  <2>3. ASSUME NEW w \in P2 PROVE \E u \in S2 : k2[u] = w
    <3>1. PICK t \in Task, d \in Dir : w = DirP(t, d)
      BY DEF Dirs, DirP
    <3>2. <<t, d>> \in S2
      BY <1>2, <3>1
    <3> QED
      BY <3>1, <3>2
  <2> HIDE DEF k2, S2, P2
  <2>4. k2 \in Bijection(S2, P2)
    BY <2>1, <2>2, <2>3 DEF Bijection, Injection, Surjection, IsInjective
  <2>5. k2 \in Injection(S2, P2)
    BY <2>4 DEF Bijection
  <2>6. IsFiniteSet(S2)
    BY <1>3, <2>5, FS_Injection
  <2> QED
    BY <2>4, <2>6, FS_Bijection DEF ExistsBijection
<1>6. Cardinality(S3) = Cardinality(P3)
  <2>1. k3 \in [S3 -> P3]
    BY <1>2 DEF Tsses, Tss
  <2>2. \A u, v \in S3 : k3[u] = k3[v] => u = v
    BY DEF Tss
  <2>3. ASSUME NEW w \in P3 PROVE \E u \in S3 : k3[u] = w
    <3>1. PICK t \in Task : w = Tss(t)
      BY DEF Tsses, Tss
    <3>2. t \in S3
      BY <1>2, <3>1
    <3> QED
      BY <3>1, <3>2
  <2> HIDE DEF k3, S3, P3
  <2>4. k3 \in Bijection(S3, P3)
    BY <2>1, <2>2, <2>3 DEF Bijection, Injection, Surjection, IsInjective
  <2>5. k3 \in Injection(S3, P3)
    BY <2>4 DEF Bijection
  <2>6. IsFiniteSet(S3)
    BY <1>3, <2>5, FS_Injection
  <2> QED
    BY <2>4, <2>6, FS_Bijection DEF ExistsBijection
<1>7. Cardinality(S4) = Cardinality(P4)
  <2>1. k4 \in [S4 -> P4]
    BY <1>2 DEF Args, Arg
  <2>2. \A u, v \in S4 : k4[u] = k4[v] => u = v
    BY DEF Arg
  <2>3. ASSUME NEW w \in P4 PROVE \E u \in S4 : k4[u] = w
    <3>1. PICK t \in Task, i \in ArgNr : w = Arg(t, i)
      BY DEF Args, Arg
    <3>2. <<t, i>> \in S4
      BY <1>2, <3>1
    <3> QED
      BY <3>1, <3>2
  <2> HIDE DEF k4, S4, P4
  <2>4. k4 \in Bijection(S4, P4)
    BY <2>1, <2>2, <2>3 DEF Bijection, Injection, Surjection, IsInjective
  <2>5. k4 \in Injection(S4, P4)
    BY <2>4 DEF Bijection
  <2>6. IsFiniteSet(S4)
    BY <1>3, <2>5, FS_Injection
  <2> QED
    BY <2>4, <2>6, FS_Bijection DEF ExistsBijection
<1>8. Cardinality(Users(f, p)) = Cardinality(P1) + Cardinality(P2) + Cardinality(P3) + Cardinality(P4)
  <2> DEFINE P12 == P1 \union P2
             P34 == P3 \union P4
  <2>1. /\ \A u \in P1 : u[1] = "pte"
        /\ \A u \in P2 : u[1] = "dir"
        /\ \A u \in P3 : u[1] = "tss"
        /\ \A u \in P4 : u[1] = "arg"
    BY DEF Ptes, Dirs, Tsses, Args
  <2>2. Users(f, p) = P12 \union P34
    BY DEF Users, Of, Place
  <2>3. P1 \intersect P2 = {} /\ P3 \intersect P4 = {} /\ P12 \intersect P34 = {}
    <3> HIDE DEF P1, P2, P3, P4
    <3> QED
      BY <2>1
  <2> HIDE DEF P1, P2, P3, P4
  <2>4. IsFiniteSet(P12) /\ Cardinality(P12) = Cardinality(P1) + Cardinality(P2)
    <3>1. IsFiniteSet(P12)
            /\ Cardinality(P12) = Cardinality(P1) + Cardinality(P2) - Cardinality(P1 \intersect P2)
      BY <1>3, FS_Union
    <3>2. Cardinality(P1 \intersect P2) = 0
      BY <2>3, FS_EmptySet
    <3>3. Cardinality(P1) \in Nat /\ Cardinality(P2) \in Nat
      BY <1>3, FS_CardinalityType
    <3> HIDE DEF P12
    <3> QED
      BY <3>1, <3>2, <3>3
  <2>5. IsFiniteSet(P34) /\ Cardinality(P34) = Cardinality(P3) + Cardinality(P4)
    <3>1. IsFiniteSet(P34)
            /\ Cardinality(P34) = Cardinality(P3) + Cardinality(P4) - Cardinality(P3 \intersect P4)
      BY <1>3, FS_Union
    <3>2. Cardinality(P3 \intersect P4) = 0
      BY <2>3, FS_EmptySet
    <3>3. Cardinality(P3) \in Nat /\ Cardinality(P4) \in Nat
      BY <1>3, FS_CardinalityType
    <3> HIDE DEF P34
    <3> QED
      BY <3>1, <3>2, <3>3
  <2> HIDE DEF P12, P34
  <2>6. Cardinality(P12 \union P34)
          = Cardinality(P12) + Cardinality(P34) - Cardinality(P12 \intersect P34)
    BY <2>4, <2>5, FS_Union
  <2>7. Cardinality(P12 \intersect P34) = 0
    BY <2>3, FS_EmptySet
  <2>8. /\ Cardinality(P1) \in Nat /\ Cardinality(P2) \in Nat
        /\ Cardinality(P3) \in Nat /\ Cardinality(P4) \in Nat
    BY <1>3, FS_CardinalityType
  <2> QED
    BY <2>2, <2>4, <2>5, <2>6, <2>7, <2>8
<1> HIDE DEF S1, S2, S3, S4, P1, P2, P3, P4
<1> QED
  BY <1>1, <1>4, <1>5, <1>6, <1>7, <1>8 DEF f

\* A page that a place has to itself is used once.
LEMMA AloneIsOne ==
  ASSUME IInv, NEW u \in Owning(mm), Ref(mm, tss, ArgOf)[u] \in Paged
  PROVE  Refs(Ref(mm, tss, ArgOf)[u]) = 1
<1> DEFINE f == Ref(mm, tss, ArgOf)
           p == f[u]
<1>1. Alone(f, Owning(mm)) /\ args \in [Task -> Seq(Paged)]
  BY DEF IInv, Kept, Counts, ArgsTyped
<1>2. u \in Place
  BY RefAt
<1>3. Refs(p) = Cardinality(Users(f, p))
  BY <1>1, RefsAreUsers
<1> HIDE DEF f
<1>4. Users(f, p) = {u}
  BY <1>1, <1>2 DEF Users, Of, Alone, f
<1>5. Cardinality(Users(f, p)) = 1
  BY <1>4, FS_Singleton
<1> QED
  BY <1>3, <1>5 DEF f

(* And what it says of places is what Memory says of the tables.             *)
LEMMA KeptMeansOwned ==
  ASSUME IInv
  PROVE  PagesOwned
<1> DEFINE f == Ref(mm, tss, ArgOf)
<1>1. /\ Kept(mm, tss, ArgOf) /\ mm \in Mem /\ Programs(mm) /\ Backed(f, mm.map)
      /\ tss \in [Task -> Paged \union {0}]
      /\ args \in [Task -> Seq(Paged)] /\ \A t \in Task : Len(args[t]) <= MAX_ARG_PAGES
  BY DEF IInv, Kept, Counts, ArgsTyped
<1>2. mm.map = mem_map /\ mm.table = table /\ mm.data = data /\ mm.dir = dir
  BY DEF mm
<1>3. NoneFreedInUse
  <2>1. ASSUME NEW p \in Paged PROVE mem_map[p] >= Refs(p)
    <3>1. Refs(p) = Cardinality(Users(f, p))
      BY <1>1, RefsAreUsers
    <3>2. Cardinality(Users(f, p)) <= mem_map[p]
      BY <1>1, <1>2 DEF Backed
    <3>3. Cardinality(Users(f, p)) \in Nat /\ mem_map[p] \in Nat
      BY <1>1, <1>2, UsersFinite DEF Mem
    <3> QED
      BY <3>1, <3>2, <3>3
  <2> QED
    BY <2>1 DEF NoneFreedInUse
<1>4. TypeOK
  <2>1. /\ mem_map \in [Paged -> Nat] /\ table \in [Paged \union {Pg0} -> [Entry -> PTE]]
        /\ data \in [Page -> Value \union {Zero}] /\ dir \in [Task -> [Dir -> Paged \union {0, Pg0}]]
    BY <1>1, <1>2 DEF Mem
  <2>2. pc \in [Task -> PC] /\ at \in [Task -> Addr \union {Cardinality(Addr)}]
    BY DEF IInv, Placed, AtTyped
  <2> QED
    BY <1>1, <2>1, <2>2 DEF TypeOK
<1>5. WritableIsOwn
  <2>1. ASSUME NEW t \in Task \ {Swapper}, NEW a \in Addr, PTEof(mm, t, a).w
        PROVE  PTEof(mm, t, a).page \in Paged /\ Refs(PTEof(mm, t, a).page) = 1
    <3> DEFINE d == DirOf(a)
               e == EntryOf(a)
               p == PTEof(mm, t, a).page
    <3>1. d \in Dir /\ e \in Entry
      BY AddrParts
    <3>2. dir[t][d] # 0 /\ table[dir[t][d]][e].w /\ p = table[dir[t][d]][e].page
      BY <1>2, <2>1 DEF PTEof, Absent
    <3> HIDE DEF d, e, p
    <3>3. p \in Paged
      BY <1>1, <1>2, <3>1, <3>2 DEF Programs, Writable
    <3>4. f[Pte(t, d, e)] = p
      BY <1>2, <3>1, <3>2, RefAt
    <3>5. Pte(t, d, e) \in Owning(mm)
      BY <1>2, <3>1, <3>2, RefAt DEF Writable
    <3>6. Refs(p) = 1
      BY <3>3, <3>4, <3>5, AloneIsOne
    <3> QED
      BY <3>3, <3>6 DEF p
  <2> QED
    BY <2>1 DEF WritableIsOwn
<1>6. OnlyDataIsShared
  <2>1. ASSUME NEW t \in Task, NEW d \in Tables(mm, t), dir[t][d] # Pg0
        PROVE  Refs(dir[t][d]) = 1
    <3>1. d \in Dir /\ dir[t][d] # 0
      BY <1>2 DEF Tables
    <3>2. dir[t][d] \in Paged
      BY <1>1, <1>2, <2>1, <3>1 DEF Mem
    <3>3. f[DirP(t, d)] = dir[t][d] /\ DirP(t, d) \in Owning(mm)
      BY <1>2, <3>1, RefAt
    <3> QED
      BY <3>2, <3>3, AloneIsOne
  <2>2. ASSUME NEW t \in Task, tss[t] # 0
        PROVE  Refs(tss[t]) = 1
    <3>1. tss[t] \in Paged
      BY <1>1, <2>2
    <3>2. f[Tss(t)] = tss[t] /\ Tss(t) \in Owning(mm)
      BY RefAt
    <3> QED
      BY <3>1, <3>2, AloneIsOne
  <2>3. ASSUME NEW t \in Task, NEW i \in 1 .. Len(args[t])
        PROVE  Refs(args[t][i]) = 1
    <3>1. args[t] \in Seq(Paged) /\ Len(args[t]) <= MAX_ARG_PAGES
      BY <1>1
    <3>2. args[t][i] \in Paged /\ i \in ArgNr /\ Len(args[t]) \in Nat /\ i <= Len(args[t])
      BY <3>1, PagesListed
    <3>3. ArgOf[t][i] = args[t][i]
      BY <3>2 DEF ArgOf
    <3>4. f[Arg(t, i)] = args[t][i] /\ Arg(t, i) \in Owning(mm)
      BY <3>2, <3>3, RefAt
    <3> QED
      BY <3>2, <3>4, AloneIsOne
  <2> QED
    BY <2>1, <2>2, <2>3 DEF OnlyDataIsShared
<1>7. RegionsCleared
  BY <1>2 DEF IInv, Placed, RegionsCleared, Tables
<1> QED
  BY <1>3, <1>4, <1>5, <1>6, <1>7 DEF PagesOwned, Sharing

-----------------------------------------------------------------------------
(* A page is never freed while a page table, the page directory, a task or   *)
(* an execve uses it; a program may write only to pages of its own; page     *)
(* tables, task structures and arguments are never shared; the region of a   *)
(* task that is gone is empty. So whatever fork, the page faults, execve,    *)
(* exit and their failures half way do in whatever order                     *)
(* (memory.c:86-134, 136-191, 193-273, fork.c:36-95, exec.c:121-227).         *)
THEOREM PagesStayOwned == Spec => []PagesOwned
<1>1. Init => IInv
  BY InitKept
<1>2. IInv /\ [Next]_vars => IInv'
  BY StepKept
<1>3. IInv => PagesOwned
  BY KeptMeansOwned
<1> QED
  BY <1>1, <1>2, <1>3, PTL DEF Spec

-----------------------------------------------------------------------------
(* Every task has a memory of its own (PrivateMemory.tla).                   *)
Sees(m) == [t \in Task |-> [a \in Addr |-> Seen(m, t, a)]]

\* Where the kernel is going to write it need not ask.
Ready(m, t, p, a) ==
  /\ p = "reading" => Wr(m, t, a)
  /\ p = "load" => \A b \in Addr : Wr(m, t, b)

\* While a task sleeps in read() or execve, nobody takes its pages or shares them.
Fresh == \A t \in Task : Ready(mm, t, pc[t], at[t])

(* The contents of free pages are not seen.                                  *)
LEMMA BecomesSees ==
  ASSUME NEW m, NEW T, NEW A, Kept(m, T, A), Becomes(m)
  PROVE  AllLike(m, mm')
<1> DEFINE g == mm'
<1>1. /\ g.table = m.table /\ g.dir = m.dir
      /\ g.data = [p \in Page |-> IF p \in Free(m) THEN Zero ELSE m.data[p]]
  BY DEF Becomes, mm
<1> HIDE DEF g
<1>2. ASSUME NEW s \in Task, NEW b \in Addr
      PROVE  Like(m, g, s, b)
  <2>1. \A p \in Free(m) : PTEof(m, s, b).page # p
    BY FreeIsUnused, UnusedUnseen
  <2>2. Present(m, s, b) => PTEof(m, s, b).page \in Page
    BY EntryPlace
  <2>3. Present(m, s, b) => g.data[PTEof(m, s, b).page] = m.data[PTEof(m, s, b).page]
    BY <1>1, <2>1, <2>2
  <2> QED
    BY <1>1, <2>3, LikeIf
<1> QED
  BY <1>2 DEF AllLike, g

(* View is what is seen now.                                                 *)
LEMMA ViewIsSeen == View = Sees(mm)
<1>1. ASSUME NEW t \in Task, NEW a \in Addr
      PROVE  Contents(t, a) = Seen(mm, t, a)
  <2>1. mm.data = data
    BY DEF mm
  <2> QED
    BY <2>1 DEF Contents, Seen
<1> QED
  BY <1>1 DEF View, Sees

(* The same of the next state.                                               *)
LEMMA ViewIsSeenNext == View' = Sees(mm')
<1>1. View = Sees(mm)
  BY ViewIsSeen
<1>2. (View = Sees(mm))'
  BY <1>1, PTL
<1> QED
  BY <1>2

(* The steps of PrivateMemory: reading first.                                *)
LEMMA SeesNothing ==
  ASSUME \A s \in Task, b \in Addr : Seen(mm', s, b) = Seen(mm, s, b)
  PROVE  View' = View
BY ViewIsSeen, ViewIsSeenNext DEF Sees

(* A value is written.                                                       *)
LEMMA SeesWrite ==
  ASSUME NEW t \in Task, NEW a \in Addr, NEW v, LikeBut(mm, mm', t, a), Seen(mm', t, a) = v
  PROVE  PM!Write(t, a, v)
<1>1. Sees(mm') = [Sees(mm) EXCEPT ![t][a] = v]
  BY DEF Sees, LikeBut, Like
<1> QED
  BY <1>1, ViewIsSeen, ViewIsSeenNext DEF PM!Write

(* The memory of a task goes.                                                *)
LEMMA SeesExit ==
  ASSUME NEW t \in Task, OthersLike(mm, mm', t), \A b \in Addr : Seen(mm', t, b) = Zero
  PROVE  PM!Exit(t)
<1>1. Sees(mm') = [Sees(mm) EXCEPT ![t] = [b \in Addr |-> Zero]]
  BY DEF Sees, OthersLike, Like
<1> QED
  BY <1>1, ViewIsSeen, ViewIsSeenNext DEF PM!Exit, PM!Empty

(* A new program has its arguments, and else nothing.                        *)
LEMMA SeesExec ==
  ASSUME NEW t \in Task, OthersLike(mm, mm', t),
         \A b \in Addr \ Stack : Seen(mm', t, b) = Zero
  PROVE  PM!Exec(t)
<1>1. /\ \A s \in Task \ {t} : Sees(mm')[s] = Sees(mm)[s]
      /\ \A b \in Addr \ Stack : Sees(mm')[t][b] = Zero
  BY DEF Sees, OthersLike, Like
<1> QED
  BY <1>1, ViewIsSeen, ViewIsSeenNext DEF PM!Exec

(* The child gets the memory of the father.                                  *)
LEMMA SeesFork ==
  ASSUME NEW t \in Task, NEW c \in Task \ {t}, \A b \in Addr : Seen(mm, c, b) = Zero,
         \A s \in Task \ {c}, b \in Addr : Seen(mm', s, b) = Seen(mm, s, b),
         \A b \in Addr : Seen(mm', c, b) = Seen(mm, t, b)
  PROVE  PM!Fork(t, c)
<1>1. /\ Sees(mm)[c] = [b \in Addr |-> Zero]
      /\ Sees(mm') = [Sees(mm) EXCEPT ![c] = Sees(mm)[t]]
  BY DEF Sees
<1> QED
  BY <1>1, ViewIsSeen, ViewIsSeenNext DEF PM!Fork, PM!Empty

(* t goes on, and what is ready in the result is ready then; or it exits.    *)
LEMMA TaskSees ==
  ASSUME IInv, Fresh, NEW t \in Task \ {Swapper}, NEW p, NEW r, NEW T, NEW A,
         Moves(mm, r.m, t, T, A), GoesOn(t, p, r), OthersLike(mm, r.m, t),
         \A s \in Task \ {t} : at'[s] = at[s],
         r.ok => Ready(r.m, t, p, at'[t]), p = "reading" => at'[t] \in Addr
  PROVE  Fresh' /\ IF r.ok THEN AllLike(r.m, mm') ELSE PM!Exit(t)
<1> DEFINE g == mm'
           x == IF r.ok THEN p ELSE "exit"
<1>1. Kept(r.m, T, A) /\ pc \in [Task -> PC]
      /\ \A s \in Task : pc[s] = "reading" => at[s] \in Addr
  BY DEF Moves, IInv, Placed, AtTyped
<1>2. pc' = [pc EXCEPT ![t] = x]
  BY DEF GoesOn, Goto
<1>3. pc'[t] = x /\ \A s \in Task \ {t} : pc'[s] = pc[s]
  BY <1>1, <1>2
<1>4. CASE r.ok
  <2>1. AllLike(r.m, g)
    BY <1>1, <1>4, BecomesSees DEF GoesOn
  <2> HIDE DEF g
  <2>2. OthersLike(mm, g, t)
    BY <2>1, LikeChain
  <2>3. Ready(g, t, p, at'[t])
    BY <1>4, <2>1 DEF Ready, Wr, AllLike, Like, Present
  <2>4. \A s \in Task : Ready(g, s, pc'[s], at'[s])
    <3>1. TAKE s \in Task
    <3>2. CASE s = t
      BY <1>3, <1>4, <2>3, <3>2
    <3>3. CASE s # t
      <4>1. Ready(mm, s, pc[s], at[s]) /\ pc'[s] = pc[s] /\ at'[s] = at[s]
        BY <1>3, <3>3 DEF Fresh
      <4>2. \A b \in Addr : PTEof(g, s, b) = PTEof(mm, s, b)
        BY <2>2, <3>3 DEF OthersLike, Like
      <4> QED
        BY <1>1, <4>1, <4>2 DEF Ready, Wr, Present
    <3> QED
      BY <3>2, <3>3
  <2> QED
    BY <1>4, <2>1, <2>4 DEF Fresh, g
<1>5. CASE ~r.ok
  <2> DEFINE f == FreePageTables(r.m, t)
  <2>1. Becomes(f) /\ Kept(f, T, A)
    BY <1>1, <1>5, FreeTablesKeeps DEF GoesOn, Moves
  <2>2. OthersLike(r.m, f, t) /\ \A b \in Addr : ~Present(f, t, b)
    BY <1>1, FreeTablesSees
  <2> HIDE DEF f
  <2>3. AllLike(f, g)
    BY <2>1, BecomesSees
  <2> HIDE DEF g
  <2>4. OthersLike(mm, g, t)
    BY <2>2, <2>3, LikeChain
  <2>5. \A b \in Addr : Seen(g, t, b) = Zero
    BY <2>2, <2>3 DEF AllLike, Like, Seen
  <2>6. PM!Exit(t)
    BY <2>4, <2>5, SeesExit DEF g
  <2>7. \A s \in Task : Ready(g, s, pc'[s], at'[s])
    <3>1. TAKE s \in Task
    <3>2. CASE s = t
      BY <1>3, <1>5, <3>2 DEF Ready
    <3>3. CASE s # t
      <4>1. Ready(mm, s, pc[s], at[s]) /\ pc'[s] = pc[s] /\ at'[s] = at[s]
        BY <1>3, <3>3 DEF Fresh
      <4>2. \A b \in Addr : PTEof(g, s, b) = PTEof(mm, s, b)
        BY <2>4, <3>3 DEF OthersLike, Like
      <4> QED
        BY <1>1, <4>1, <4>2 DEF Ready, Wr, Present
    <3> QED
      BY <3>2, <3>3
  <2> QED
    BY <1>5, <2>6, <2>7 DEF Fresh, g
<1> QED
  BY <1>4, <1>5

(* A page is brought to t: it sees nothing, or it exits.                     *)
LEMMA BringsSees ==
  ASSUME IInv, Fresh, NEW t \in Task \ {Swapper}, NEW p \in {"user", "reading"}, NEW r,
         NEW a \in Addr, Moves(mm, r.m, t, tss, ArgOf), GoesOn(t, p, r), Brings(mm, r, t, a),
         NEW b \in Addr \union {Cardinality(Addr)}, at' = [at EXCEPT ![t] = b],
         p = "reading" => b = a
  PROVE  Fresh' /\ [PM!Next]_View
<1>1. OthersLike(mm, r.m, t)
  BY LikeChain DEF Brings
<1>2. at'[t] = b /\ \A s \in Task \ {t} : at'[s] = at[s]
  BY DEF IInv, AtTyped
<1>3. r.ok => Ready(r.m, t, p, at'[t])
  BY <1>2 DEF Brings, Ready, Wr
<1>4. Fresh' /\ IF r.ok THEN AllLike(r.m, mm') ELSE PM!Exit(t)
  BY <1>1, <1>2, <1>3, TaskSees
<1>5. CASE r.ok
  <2>1. \A s \in Task, c \in Addr : Seen(mm', s, c) = Seen(mm, s, c)
    BY <1>4, <1>5 DEF AllLike, Brings, LikeBut, Like
  <2> QED
    BY <1>4, <2>1, SeesNothing
<1>6. CASE ~r.ok
  BY <1>4, <1>6 DEF PM!Next
<1> QED
  BY <1>5, <1>6

(* A value is stored for t, or it exits.                                     *)
LEMMA StoredSees ==
  ASSUME IInv, Fresh, NEW t \in Task \ {Swapper}, NEW p \in {"user", "load"}, NEW r,
         NEW a \in Addr, NEW v \in Value, Moves(mm, r.m, t, tss, ArgOf), GoesOn(t, p, r),
         Stored(mm, r, t, a, v), \A s \in Task \ {t} : at'[s] = at[s],
         p = "load" => \A b \in Addr : Wr(mm, t, b)
  PROVE  Fresh' /\ [PM!Next]_View
<1>1. OthersLike(mm, r.m, t)
  BY LikeChain DEF Stored
<1>2. r.ok => Ready(r.m, t, p, at'[t])
  BY DEF Stored, Ready, Wr, LikeBut, Like, Present
<1>3. Fresh' /\ IF r.ok THEN AllLike(r.m, mm') ELSE PM!Exit(t)
  BY <1>1, <1>2, TaskSees
<1>4. CASE r.ok
  <2>1. LikeBut(mm, mm', t, a) /\ Seen(mm', t, a) = v
    BY <1>3, <1>4 DEF AllLike, Stored, LikeBut, Like
  <2>2. PM!Write(t, a, v)
    BY <2>1, SeesWrite
  <2> QED
    BY <1>3, <2>2 DEF PM!Next
<1>5. CASE ~r.ok
  BY <1>3, <1>5 DEF PM!Next
<1> QED
  BY <1>4, <1>5

(* Faults, reads, writes and system calls that write into the program.       *)
LEMMA ProgramSees ==
  ASSUME IInv, Fresh, ~SharedArray, NEW t \in Task, Program(t)
  PROVE  Fresh' /\ [PM!Next]_View
<1>0. /\ Kept(mm, tss, ArgOf)
      /\ at \in [Task -> Addr \union {Cardinality(Addr)}]
      /\ Touched \subseteq Addr /\ 0 \in Addr
      /\ pc[t] \in {"user", "reading"} => t \in Task \ {Swapper}
  BY Facts
<1>1. ASSUME NEW a \in Touched, ProgramReads(t, a)
      PROVE  Fresh' /\ [PM!Next]_View
  <2>1. t \in Task \ {Swapper} /\ a \in Addr /\ ~Present(mm, t, a)
    BY <1>0, <1>1 DEF ProgramReads
  <2>2. Moves(mm, DoNoPage(mm, t, a).m, t, tss, ArgOf) /\ Brings(mm, DoNoPage(mm, t, a), t, a)
    BY <1>0, <2>1, DoNoPageKeeps, NoPageSees
  <2>3. GoesOn(t, "user", DoNoPage(mm, t, a))
          /\ at' = [at EXCEPT ![t] = at[t]] /\ at[t] \in Addr \union {Cardinality(Addr)}
    BY <1>0, <1>1 DEF ProgramReads
  <2> QED
    BY <2>1, <2>2, <2>3, BringsSees
<1>2. ASSUME NEW a \in Touched, SysRead(t, a)
      PROVE  Fresh' /\ [PM!Next]_View
  <2> DEFINE r == WriteVerify(mm, t, a)
  <2>1. t \in Task \ {Swapper} /\ a \in Addr
    BY <1>0, <1>2 DEF SysRead
  <2>2. /\ Moves(mm, r.m, t, tss, ArgOf)
        /\ IF Present(mm, t, a) THEN Brings(mm, r, t, a) ELSE r = Done(mm)
    BY <1>0, <2>1, WriteVerifyKeeps, WriteVerifySees
  <2>3. GoesOn(t, "reading", r) /\ at' = [at EXCEPT ![t] = a]
          /\ a \in Addr \union {Cardinality(Addr)}
    BY <1>2, <2>1 DEF SysRead
  <2> HIDE DEF r
  <2>4. CASE Present(mm, t, a)
    BY <2>1, <2>2, <2>3, <2>4, BringsSees
  <2>5. CASE ~Present(mm, t, a)
    <3>1. r.ok /\ r.m = mm
      BY <2>2, <2>5 DEF Done
    <3>2. OthersLike(mm, r.m, t)
      BY <3>1, LikeSelf, LikeChain
    <3>3. at'[t] = a /\ \A s \in Task \ {t} : at'[s] = at[s]
      BY <1>0, <2>3
    <3>4. Ready(r.m, t, "reading", at'[t])
      BY <2>5, <3>1, <3>3 DEF Ready, Wr
    <3>5. Fresh' /\ AllLike(mm, mm')
      BY <2>1, <2>2, <2>3, <3>1, <3>2, <3>3, <3>4, TaskSees
    <3> QED
      BY <3>5, SeesNothing DEF AllLike, Like
  <2> QED
    BY <2>4, <2>5
<1>3. ASSUME NEW a \in Touched, NEW v \in Value, ProgramWrites(t, a, v)
      PROVE  Fresh' /\ [PM!Next]_View
  <2>1. t \in Task \ {Swapper} /\ a \in Addr
    BY <1>0, <1>3 DEF ProgramWrites
  <2>2. Moves(mm, UserWrite(mm, t, a, v).m, t, tss, ArgOf)
          /\ Stored(mm, UserWrite(mm, t, a, v), t, a, v)
    BY <1>0, <2>1, UserWriteKeeps, UserWriteSees
  <2>3. GoesOn(t, "user", UserWrite(mm, t, a, v)) /\ \A s \in Task \ {t} : at'[s] = at[s]
    BY <1>3 DEF ProgramWrites
  <2> QED
    BY <2>1, <2>2, <2>3, StoredSees
<1>4. ASSUME NEW a \in Touched, NEW v \in Value, SysPipe(t, a, v)
      PROVE  Fresh' /\ [PM!Next]_View
  <2>1. t \in Task \ {Swapper} /\ a \in Addr /\ Wr(mm, t, a)
    BY <1>0, <1>4 DEF SysPipe, Wr
  <2>2. Moves(mm, PutFs(mm, t, a, v).m, t, tss, ArgOf) /\ Stored(mm, PutFs(mm, t, a, v), t, a, v)
    BY <1>0, <2>1, PutFsKeeps, PutFsSees
  <2>3. GoesOn(t, "user", PutFs(mm, t, a, v)) /\ \A s \in Task \ {t} : at'[s] = at[s]
    BY <1>4 DEF SysPipe
  <2> QED
    BY <2>1, <2>2, <2>3, StoredSees
<1>5. ASSUME NEW v \in Value, ReadEnd(t, v)
      PROVE  Fresh' /\ [PM!Next]_View
  <2>1. t \in Task \ {Swapper} /\ at[t] \in Addr /\ Wr(mm, t, at[t])
    BY <1>0, <1>5 DEF ReadEnd, IInv, AtTyped, Fresh, Ready
  <2>2. Moves(mm, PutFs(mm, t, at[t], v).m, t, tss, ArgOf)
          /\ Stored(mm, PutFs(mm, t, at[t], v), t, at[t], v)
    BY <1>0, <2>1, PutFsKeeps, PutFsSees
  <2>3. GoesOn(t, "user", PutFs(mm, t, at[t], v)) /\ \A s \in Task \ {t} : at'[s] = at[s]
    BY <1>0, <1>5 DEF ReadEnd
  <2> QED
    BY <2>1, <2>2, <2>3, StoredSees
<1> QED
  BY <1>1, <1>2, <1>3, <1>4, <1>5 DEF Program

(* The memory of t goes.                                                     *)
LEMMA ExitSees ==
  ASSUME IInv, Fresh, NEW t \in Task \ {Swapper}, Becomes(FreePageTables(mm, t)),
         pc' = [pc EXCEPT ![t] = "exit"], \A s \in Task \ {t} : at'[s] = at[s]
  PROVE  Fresh' /\ [PM!Next]_View
<1> DEFINE r == Failed(mm)
<1>0. r.ok = FALSE /\ r.m = mm
  BY DEF Failed
<1>1. GoesOn(t, "user", r)
  BY <1>0 DEF GoesOn, Goto
<1>2. Moves(mm, r.m, t, tss, ArgOf) /\ OthersLike(mm, r.m, t)
  BY <1>0, Facts, LikeSelf, LikeChain DEF Moves
<1> HIDE DEF r
<1>3. Fresh' /\ PM!Exit(t)
  BY <1>0, <1>1, <1>2, TaskSees
<1> QED
  BY <1>3 DEF PM!Next

(* do_exit() of a program.                                                   *)
LEMMA DoExitSees ==
  ASSUME IInv, Fresh, NEW t \in Task, DoExit(t)
  PROVE  Fresh' /\ [PM!Next]_View
<1>1. t \in Task \ {Swapper} /\ \A s \in Task \ {t} : at'[s] = at[s]
  BY Facts DEF DoExit
<1>2. Becomes(FreePageTables(mm, t)) /\ pc' = [pc EXCEPT ![t] = "exit"]
  BY DEF DoExit, Goto
<1> QED
  BY <1>1, <1>2, ExitSees

\* Steps that leave what is seen, and the others where they are.
Unmoved(t) ==
  /\ pc'[t] \notin {"reading", "load"}
  /\ \A s \in Task \ {t} : pc'[s] = pc[s] /\ at'[s] = at[s]

LEMMA UnmovedSees ==
  ASSUME IInv, Fresh, NEW t \in Task, AllLike(mm, mm'), Unmoved(t)
  PROVE  Fresh' /\ [PM!Next]_View
<1> DEFINE g == mm'
<1>1. \A s \in Task : pc[s] = "reading" => at[s] \in Addr
  BY DEF IInv, AtTyped
<1>2. \A s \in Task, b \in Addr : PTEof(g, s, b) = PTEof(mm, s, b)
  BY DEF AllLike, Like
<1>3. View' = View
  BY SeesNothing DEF AllLike, Like
<1> HIDE DEF g
<1>4. \A s \in Task : Ready(g, s, pc'[s], at'[s])
  BY <1>1, <1>2 DEF Fresh, Unmoved, Ready, Wr, Present
<1> QED
  BY <1>3, <1>4 DEF Fresh, g

(* release() frees a page that nobody sees.                                  *)
LEMMA ReleaseSees ==
  ASSUME IInv, Fresh, NEW t \in Task, Release(t)
  PROVE  Fresh' /\ [PM!Next]_View
<1> DEFINE g == FreePage(mm, tss[t])
<1>1. pc[t] = "exit" /\ Becomes(g) /\ pc' = [pc EXCEPT ![t] = "free"] /\ at' = at
  BY DEF Release, Goto
<1>2. Kept(mm, tss, ArgOf) /\ mm \in Mem /\ pc \in [Task -> PC]
  BY Facts DEF IInv, Placed
<1>3. Kept(g, [tss EXCEPT ![t] = 0], ArgOf)
  BY <1>2, TssTaken
<1>4. g.table = mm.table /\ g.dir = mm.dir /\ g.data = mm.data
  BY <1>2 DEF FreePage, Mem
<1> HIDE DEF g
<1>5. AllLike(mm, g)
  BY <1>4, LikeIf DEF AllLike
<1>6. AllLike(g, mm')
  BY <1>1, <1>3, BecomesSees
<1>7. AllLike(mm, mm')
  BY <1>5, <1>6, LikeChain
<1>8. Unmoved(t)
  BY <1>1, <1>2 DEF Unmoved
<1> QED
  BY <1>7, <1>8, UnmovedSees

(* sys_fork(): the child has the memory of the father, or nobody has anything new. *)
LEMMA ForkSees ==
  ASSUME IInv, Fresh, NEW t \in Task, NEW c \in Task \ {t}, SysFork(t, c)
  PROVE  Fresh' /\ [PM!Next]_View
<1> DEFINE g == GetFreePage(mm)
           p == NextFree(mm)
           U == [tss EXCEPT ![c] = p]
           r == CopyPageTables(g, t, c)
           z == mm'
<1>0. pc[t] \in {"user", "main"} /\ pc[c] = "free" /\ Free(mm) # {} /\ at' = at
  BY DEF SysFork
<1>1. /\ Kept(mm, tss, ArgOf) /\ mm.dir = dir /\ c \in Task \ {Swapper, t}
      /\ tss \in [Task -> Paged \union {0}] /\ tss[c] = 0 /\ pc \in [Task -> PC]
      /\ \A d \in Dir : mm.dir[c][d] = 0
  BY <1>0, Facts DEF Kept, IInv, Placed
<1>2. Kept(g, tss, ArgOf) /\ Spare(g, tss, ArgOf, p) /\ g.dir = mm.dir /\ p \in Paged
        /\ AllLike(mm, g)
  BY <1>0, <1>1, GetKeeps, GetSees
<1>3. Kept(g, U, ArgOf)
  <2> HIDE DEF g, p
  <2> QED
    BY <1>1, <1>2, TssGiven
<1>4. Moves(g, r.m, c, U, ArgOf)
  <2> HIDE DEF g, U
  <2> QED
    BY <1>1, <1>3, CopyPageTablesKeeps
<1>5. /\ Third(g, r.m, t, c) /\ SameSeen(g, r.m, t)
      /\ r.ok => \A b \in Addr : Seen(r.m, c, b) = Seen(g, t, b)
  <2>1. t \in Task /\ c \in Task \ {Swapper, t} /\ \A d \in Dir : g.dir[c][d] = 0
    BY <1>1, <1>2
  <2> HIDE DEF g, U
  <2> QED
    BY <1>3, <2>1, CopyPageTablesSees
<1>6. \A b \in Addr : ~Present(mm, c, b) /\ Seen(mm, c, b) = Zero
  <2>1. \A b \in Addr : PTEof(mm, c, b) = Absent
    BY <1>1, AddrParts DEF PTEof
  <2> QED
    BY <2>1 DEF Present, Absent, Seen
<1>7. \A s \in Task : pc[s] = "reading" => at[s] \in Addr
  BY DEF IInv, AtTyped
<1>8. CASE r.ok
  <2>1. Becomes(r.m)
          /\ pc' = [pc EXCEPT ![c] = "user", ![t] = IF t = Swapper THEN "idle" ELSE pc[t]]
    BY <1>8 DEF SysFork
  <2>2. AllLike(r.m, z)
    <3>1. Kept(r.m, U, ArgOf)
      BY <1>4 DEF Moves
    <3> HIDE DEF r, U
    <3> QED
      BY <2>1, <3>1, BecomesSees
  <2>3. /\ pc'[c] = "user" /\ pc'[t] \in {"user", "main", "idle"}
        /\ \A s \in Task \ {t, c} : pc'[s] = pc[s]
    BY <1>0, <1>1, <2>1
  <2> HIDE DEF r, g, z
  <2>4. \A s \in Task \ {t, c}, b \in Addr : Like(mm, z, s, b)
    BY <1>2, <1>5, <2>2 DEF AllLike, Third, Like
  <2>5. \A b \in Addr : Seen(z, t, b) = Seen(mm, t, b)
    BY <1>2, <1>5, <2>2 DEF AllLike, SameSeen, Like
  <2>6. \A b \in Addr : Seen(z, c, b) = Seen(mm, t, b)
    BY <1>2, <1>5, <1>8, <2>2 DEF AllLike, Like
  <2>7. PM!Fork(t, c)
    <3>1. \A s \in Task \ {c}, b \in Addr : Seen(z, s, b) = Seen(mm, s, b)
      BY <2>4, <2>5 DEF Like
    <3> QED
      BY <1>6, <2>6, <3>1, SeesFork DEF z
  <2>8. \A s \in Task : Ready(z, s, pc'[s], at'[s])
    <3>1. TAKE s \in Task
    <3>2. CASE s \in {t, c}
      BY <2>3, <3>2 DEF Ready
    <3>3. CASE s \notin {t, c}
      <4>1. Ready(mm, s, pc[s], at[s]) /\ pc'[s] = pc[s] /\ at'[s] = at[s]
        BY <1>0, <2>3, <3>3 DEF Fresh
      <4>2. \A b \in Addr : PTEof(z, s, b) = PTEof(mm, s, b)
        BY <2>4, <3>3 DEF Like
      <4> QED
        BY <1>7, <4>1, <4>2 DEF Ready, Wr, Present
    <3> QED
      BY <3>2, <3>3
  <2> QED
    BY <2>7, <2>8 DEF Fresh, PM!Next, z
<1>9. CASE ~r.ok
  <2> DEFINE f == FreePageTables(r.m, c)
             k == FreePage(f, p)
  <2>1. Becomes(k) /\ pc' = pc
    BY <1>9 DEF SysFork
  <2>2. /\ Moves(r.m, f, c, U, ArgOf)
        /\ OthersLike(r.m, f, c) /\ \A b \in Addr : ~Present(f, c, b)
    <3> HIDE DEF r, U
    <3> QED
      BY <1>1, <1>4, FreeTablesKeeps, FreeTablesSees DEF Moves
  <2> HIDE DEF r, g, f
  <2>3. Kept(k, [U EXCEPT ![c] = 0], ArgOf)
    <3>1. U[c] = p
      BY <1>1
    <3>2. Kept(f, U, ArgOf)
      BY <2>2 DEF Moves
    <3> HIDE DEF U, p
    <3> QED
      BY <3>1, <3>2, TssTaken
  <2>4. AllLike(f, k)
    <3>1. f \in Mem
      BY <2>2 DEF Moves, Kept
    <3>2. k.table = f.table /\ k.dir = f.dir /\ k.data = f.data
      BY <3>1 DEF FreePage, Mem
    <3> HIDE DEF k
    <3> QED
      BY <3>2, LikeIf DEF AllLike
  <2> HIDE DEF k, U
  <2>5. AllLike(k, z)
    BY <2>1, <2>3, BecomesSees
  <2> HIDE DEF z
  <2>6. AllLike(f, z)
    BY <2>4, <2>5, LikeChain
  <2>7. \A s \in Task \ {t, c}, b \in Addr : Like(mm, z, s, b)
    BY <1>2, <1>5, <2>2, <2>6 DEF AllLike, Third, OthersLike, Like
  <2>8. \A b \in Addr : Seen(z, t, b) = Seen(mm, t, b)
    BY <1>2, <1>5, <2>2, <2>6 DEF AllLike, SameSeen, OthersLike, Like
  <2>9. \A b \in Addr : Seen(z, c, b) = Seen(mm, c, b)
    BY <1>6, <2>2, <2>6 DEF AllLike, Like, Seen
  <2>10. View' = View
    <3>1. \A s \in Task, b \in Addr : Seen(z, s, b) = Seen(mm, s, b)
      BY <2>7, <2>8, <2>9 DEF Like
    <3> QED
      BY <3>1, SeesNothing DEF z
  <2>11. \A s \in Task : Ready(z, s, pc'[s], at'[s])
    <3>1. TAKE s \in Task
    <3>2. CASE s \in {t, c}
      BY <1>0, <2>1, <3>2 DEF Ready
    <3>3. CASE s \notin {t, c}
      <4>1. Ready(mm, s, pc[s], at[s]) /\ pc'[s] = pc[s] /\ at'[s] = at[s]
        BY <1>0, <2>1 DEF Fresh
      <4>2. \A b \in Addr : PTEof(z, s, b) = PTEof(mm, s, b)
        BY <2>7, <3>3 DEF Like
      <4> QED
        BY <1>7, <4>1, <4>2 DEF Ready, Wr, Present
    <3> QED
      BY <3>2, <3>3
  <2> QED
    BY <2>10, <2>11 DEF Fresh, z
<1> QED
  BY <1>8, <1>9

(* do_execve() fills pages that nobody sees.                                 *)
LEMMA CopyStringsSees ==
  ASSUME IInv, Fresh, NEW t \in Task, NEW n \in 0 .. MAX_ARG_PAGES, NEW v \in Value,
         CopyStrings(t, n, v)
  PROVE  Fresh' /\ [PM!Next]_View
<1> DEFINE h == Filling(mm, n, v)
           ps == [i \in 1 .. n |-> NextFree(h[i - 1])]
<1>1. CopyStrings(t, n, v)
        <=> /\ pc[t] = "user" /\ n <= Cardinality(Free(mm)) /\ Becomes(h[n])
            /\ args' = [args EXCEPT ![t] = ps] /\ Goto(t, "exec") /\ UNCHANGED <<tss, at>>
  BY DEF CopyStrings, Filling, Fills, Filled
<1>2. n <= Cardinality(Free(mm)) /\ Becomes(h[n]) /\ pc' = [pc EXCEPT ![t] = "exec"] /\ at' = at
  BY <1>1 DEF Goto
<1>3. Kept(mm, tss, ArgOf) /\ pc \in [Task -> PC]
  BY Facts DEF IInv, Placed
<1>4. Kept(h[n], tss, Entered(ArgOf, t, h, n)) /\ AllLike(mm, h[n])
  BY <1>2, <1>3, FillingKeeps, FillingSees
<1> HIDE DEF h
<1>5. AllLike(h[n], mm')
  BY <1>2, <1>4, BecomesSees
<1>6. AllLike(mm, mm')
  BY <1>4, <1>5, LikeChain
<1>7. Unmoved(t)
  BY <1>2, <1>3 DEF Unmoved
<1> QED
  BY <1>6, <1>7, UnmovedSees

(* change_ldt() and create_tables(): t has its arguments and what is written below them. *)
LEMMA ChangeLdtSees ==
  ASSUME IInv, Fresh, NEW t \in Task, NEW v \in Value, ChangeLdt(t, v)
  PROVE  Fresh' /\ [PM!Next]_View
<1> DEFINE ps == args[t]
           n == Len(ps)
           h == Putting(mm, t, ps)
           B == Left(ArgOf, t, n)
<1>1. ChangeLdt(t, v)
        <=> /\ pc[t] = "exec"
            /\ \E i \in {n, n + 1} \ {0} : GoesOn(t, "load", PutFs(h[n], t, StackPage(i), v))
            /\ args' = [args EXCEPT ![t] = <<>>] /\ at' = [at EXCEPT ![t] = 0] /\ UNCHANGED tss
  BY DEF ChangeLdt, Putting, Puts, PutAt
<1>2. pc[t] = "exec" /\ \A s \in Task \ {t} : at'[s] = at[s]
  BY <1>1, Facts
<1>3. PICK i \in {n, n + 1} \ {0} : GoesOn(t, "load", PutFs(h[n], t, StackPage(i), v))
  BY <1>1
<1>4. Kept(mm, tss, ArgOf) /\ t \in Task \ {Swapper}
  BY <1>2, Facts
<1>5. ps \in Seq(Paged) /\ n \in Nat /\ n <= MAX_ARG_PAGES /\ MAX_ARG_PAGES \in Nat
  BY MemoryAssumption DEF IInv, ArgsTyped
<1>6. \A j \in 1 .. n : ArgOf[t][j] = ps[j]
  BY <1>5 DEF ArgOf, ArgNr
<1> HIDE DEF h, n, ps, B
<1>7. Moves(mm, h[n], t, tss, B) /\ OthersLike(mm, h[n], t) /\ OnStack(h[n], t)
  BY <1>4, <1>5, <1>6, PuttingKeeps, PuttingSees DEF h, n, ps, B
<1>8. StackPage(i) \in Addr /\ StackPage(i) \in Stack
  <2>1. i \in 1 .. MAX_ARG_PAGES + 1
    BY <1>5
  <2> QED
    BY <2>1, StackInRegion DEF Stack
<1> DEFINE a == StackPage(i)
           r == PutFs(h[n], t, a, v)
<1>9. Moves(mm, r.m, t, tss, B) /\ Stored(h[n], r, t, a, v)
  <2>1. Kept(h[n], tss, B)
    BY <1>7 DEF Moves
  <2>2. Wr(h[n], t, a)
    BY <1>7, <1>8 DEF OnStack, Wr
  <2>3. Moves(h[n], r.m, t, tss, B) /\ Stored(h[n], r, t, a, v)
    BY <1>4, <1>8, <2>1, <2>2, PutFsKeeps, PutFsSees
  <2> HIDE DEF r
  <2> QED
    BY <1>7, <2>3 DEF Moves
<1>10. GoesOn(t, "load", r)
  BY <1>3
<1> HIDE DEF r, a
<1>11. OthersLike(h[n], r.m, t)
  BY <1>9, LikeChain DEF Stored
<1>12. OthersLike(mm, r.m, t)
  BY <1>7, <1>11, LikeChain
<1>13. r.ok => OnStack(r.m, t)
  BY <1>7, <1>8, <1>9 DEF Stored, OnStack, LikeBut, Like, Present, a
<1>14. r.ok => Ready(r.m, t, "load", at'[t])
  BY <1>13 DEF OnStack, Ready, Wr
<1>15. Fresh' /\ IF r.ok THEN AllLike(r.m, mm') ELSE PM!Exit(t)
  BY <1>2, <1>4, <1>9, <1>10, <1>12, <1>14, TaskSees
<1>16. CASE r.ok
  <2>1. AllLike(r.m, mm')
    BY <1>15, <1>16
  <2>2. OthersLike(mm, mm', t)
    BY <1>12, <2>1, LikeChain
  <2>3. \A b \in Addr \ Stack : Seen(mm', t, b) = Zero
    BY <1>13, <1>16, <2>1 DEF OnStack, AllLike, Like, Seen
  <2>4. PM!Exec(t)
    BY <2>2, <2>3, SeesExec
  <2> QED
    BY <1>15, <2>4 DEF PM!Next
<1>17. CASE ~r.ok
  BY <1>15, <1>17 DEF PM!Next
<1> QED
  BY <1>16, <1>17

(* A page of an execve is read in where the region begins.                   *)
LEMMA ReadAreaSees ==
  ASSUME IInv, Fresh, NEW t \in Task, NEW v \in Value, ReadArea(t, v)
  PROVE  Fresh' /\ [PM!Next]_View
<1> DEFINE r == PutFs(mm, t, at[t], v)
<1>1. pc[t] = "load" /\ at[t] < MaxImage /\ GoesOn(t, "load", r)
        /\ \A s \in Task \ {t} : at'[s] = at[s]
  BY Facts DEF ReadArea
<1>2. Kept(mm, tss, ArgOf) /\ t \in Task \ {Swapper} /\ at[t] \in Addr \union {Cardinality(Addr)}
  BY <1>1, Facts
<1>3. at[t] \in Addr /\ \A b \in Addr : Wr(mm, t, b)
  BY <1>1, <1>2, ReadInRegion DEF Fresh, Ready
<1>4. Moves(mm, r.m, t, tss, ArgOf) /\ Stored(mm, r, t, at[t], v)
  BY <1>2, <1>3, PutFsKeeps, PutFsSees
<1> HIDE DEF r
<1> QED
  BY <1>1, <1>2, <1>3, <1>4, StoredSees

(* It goes back to the program, or ends it.                                  *)
LEMMA ExecDoneSees ==
  ASSUME IInv, Fresh, NEW t \in Task, ExecDone(t)
  PROVE  Fresh' /\ [PM!Next]_View
<1>1. pc[t] = "load" /\ \A s \in Task \ {t} : at'[s] = at[s]
  BY Facts DEF ExecDone
<1>2. t \in Task \ {Swapper} /\ pc \in [Task -> PC]
  BY <1>1, Facts DEF IInv, Placed
<1>3. CASE Goto(t, "exit") /\ Becomes(FreePageTables(mm, t))
  BY <1>1, <1>2, <1>3, ExitSees DEF Goto
<1>4. CASE Goto(t, "user") /\ UNCHANGED pages
  <2>1. mm' = mm
    BY <1>4 DEF pages, mm
  <2>2. AllLike(mm, mm')
    BY <2>1, LikeSelf
  <2>3. Unmoved(t)
    BY <1>1, <1>2, <1>4 DEF Unmoved, Goto
  <2> QED
    BY <2>2, <2>3, UnmovedSees
<1> QED
  BY <1>3, <1>4 DEF ExecDone

(* Every step is one that PrivateMemory allows.                              *)
LEMMA StepSees ==
  ASSUME IInv, Fresh, ~SharedArray, [Next]_vars
  PROVE  Fresh' /\ [PM!Next]_View
<1>1. CASE UNCHANGED vars
  <2>1. mm' = mm /\ pc' = pc /\ at' = at
    BY <1>1 DEF vars, pages, mm
  <2>2. View' = View
    BY <2>1, SeesNothing
  <2> QED
    BY <2>1, <2>2 DEF Fresh
<1>2. ASSUME NEW t \in Task, Execve(t)
      PROVE  Fresh' /\ [PM!Next]_View
  BY <1>2, CopyStringsSees, ChangeLdtSees, ReadAreaSees, ExecDoneSees DEF Execve
<1>3. ASSUME NEW t \in Task,
             \/ Program(t) \/ Execve(t) \/ DoExit(t) \/ Release(t)
             \/ \E c \in Task \ {t} : SysFork(t, c)
      PROVE  Fresh' /\ [PM!Next]_View
  BY <1>2, <1>3, ProgramSees, DoExitSees, ReleaseSees, ForkSees
<1> QED
  BY <1>1, <1>3 DEF Next

(* Where the array a program gives to pipe() is not on a shared page, pages, *)
(* page tables, copying on writes and their failures half way give every     *)
(* task a memory of its own: nobody else sees what it writes, fork gives the *)
(* child what the father has, exit and execve leave nothing of it            *)
(* (memory.c:107-273, fork.c:36-95, exec.c:121-349).                          *)
THEOREM MemoryIsPrivate ==
  ASSUME ~SharedArray
  PROVE  Spec => Private
<1>1. Init => IInv /\ Fresh /\ PM!Init
  <2>1. SUFFICES ASSUME Init PROVE IInv /\ Fresh /\ PM!Init
    OBVIOUS
  <2>2. IInv
    BY <2>1, InitKept
  <2>3. Fresh
    BY <2>1 DEF Init, Fresh, Ready
  <2>4. \A t \in Task, a \in Addr : Seen(mm, t, a) \in Value \union {Zero}
    BY <2>2, EntryPlace DEF IInv
  <2>5. Sees(mm) \in [Task -> [Addr -> Value \union {Zero}]]
    BY <2>4 DEF Sees
  <2> QED
    BY <2>2, <2>3, <2>5, ViewIsSeen DEF PM!Init
<1>2. IInv /\ [Next]_vars => IInv'
  BY StepKept
<1>3. IInv /\ Fresh /\ [Next]_vars => Fresh' /\ [PM!Next]_View
  BY StepSees
<1> QED
  BY <1>1, <1>2, <1>3, PTL DEF Spec, Private, PM!Spec

=============================================================================
