----------------------------- MODULE BufferProofs -----------------------------
(***************************************************************************)
(* Proofs about Buffer.tla, for any tasks, blocks and buffers (more buffers *)
(* than tasks): the cache is consistent, who waits for a buffer has one to  *)
(* wait for, and the data are where the flags say.                          *)
(***************************************************************************)
EXTENDS Buffer, InductionLemmas


(* The walk from a buffer over b_next_free goes from buffer to buffer      *)
(* (buffer.c:151-153).                                                     *)
LEMMA WalkFacts ==
  ASSUME TypeOK, NEW b \in Buf
  PROVE /\ WalkFrom(b) \in [0 .. 2 * NR_BUFFERS -> Buf]
        /\ WalkFrom(b)[0] = b
        /\ \A n \in 1 .. 2 * NR_BUFFERS : WalkFrom(b)[n] = nextfree[WalkFrom(b)[n - 1]]
<1> DEFINE N == 2 * NR_BUFFERS
<1>1. N \in Nat
  BY BufferAssumption
<1>2. nextfree \in [Buf -> Buf]
  BY DEF TypeOK
<1>3. WalkFrom(b) = Iteration(nextfree, b, N)
  BY DEF WalkFrom, Iteration
<1> HIDE DEF N
<1>4. Iteration(nextfree, b, N) \in [0 .. N -> Buf] /\ Iterates(Iteration(nextfree, b, N), nextfree, b, N)
  BY <1>1, <1>2, IterationValue
<1> QED
  BY <1>3, <1>4 DEF Iterates, N

(* The search for an unused buffer finds a buffer or NULL, and NULL only   *)
(* if some buffer has a count: the walk ends at one (buffer.c:151-167).    *)
LEMMA UnusedFacts ==
  ASSUME TypeOK, NEW b \in Buf
  PROVE  /\ Unused(b) \in Buf \union {NULL}
         /\ Unused(b) = NULL => \E c \in Buf : buf[c].count # 0
<1> DEFINE walk == WalkFrom(b)
           ends == {n \in 0 .. 2 * NR_BUFFERS : buf[walk[n]].count = 0 \/ nextfree[walk[n]] = free_list}
           last == walk[Min(ends)]
<1>1. walk \in [0 .. 2 * NR_BUFFERS -> Buf] /\ walk[0] = b /\ 0 \in 0 .. 2 * NR_BUFFERS
  BY WalkFacts, BufferAssumption
<1>2. Unused(b) = IF ends = {} \/ buf[last].count > 0 THEN NULL ELSE last
  BY DEF Unused
<1>3. CASE ends = {}
  BY <1>1, <1>2, <1>3, BufferAssumption DEF Buf
<1>4. CASE ends # {}
  <2>1. Min(ends) \in ends
    <3>1. ends \subseteq Nat
      OBVIOUS
    <3>2. PICK n \in ends : \A m \in ends : ~(m < n)
      <4> HIDE DEF ends
      <4> QED BY <1>4, <3>1, LeastNumber
    <3>3. \A m \in ends : n <= m
      BY <3>1, <3>2
    <3> HIDE DEF ends
    <3> QED BY <3>2, <3>3 DEF Min
  <2>2. last \in Buf
    BY <1>1, <2>1
  <2>3. NULL \notin Buf /\ buf[last].count \in Nat
    BY <2>2, BufferAssumption, SMTT(60) DEF Buf, TypeOK, BufferHead
  <2> HIDE DEF last, ends
  <2> QED
    BY <1>2, <1>4, <2>2, <2>3
<1> QED
  BY <1>3, <1>4

(* The buffers of the free list; a victim of getblk is off it from line    *)
(* 169 to 189 or 193.                                                      *)
Free == Buf \ Removed

(* What the list is: from any set of free buffers b_next_free leads out,   *)
(* unless they are all. No induction over the list is needed with this     *)
(* form.                                                                   *)
OneCycle ==
  /\ free_list \in Free
  /\ \A a \in Free : nextfree[a] \in Free
  /\ \A a, b \in Free : nextfree[a] = nextfree[b] => a = b
  /\ \A S \in SUBSET Free : S # {} /\ (\A a \in S : nextfree[a] \in S) => S = Free

(* There are finitely many tasks and buffers, and one buffer at least.     *)
LEMMA BuffersFinite ==
  /\ Cardinality(Task) \in Nat /\ NR_BUFFERS \in Nat \ {0}
  /\ IsFiniteSet(Buf) /\ Cardinality(Buf) = NR_BUFFERS
<1>1. Cardinality(Task) \in Nat
  BY BufferAssumption, FS_CardinalityType
<1>2. 1 \in Int /\ NR_BUFFERS \in Int /\ NR_BUFFERS > 0
  BY <1>1, BufferAssumption
<1> QED
  BY <1>1, <1>2, FS_Interval, BufferAssumption DEF Buf

(* A walk around the list meets all free buffers and no other: it comes    *)
(* back to a buffer it has met (there are NR_BUFFERS of them), and what it *)
(* met between is closed under b_next_free.                                *)
LEMMA RingIsFree ==
  ASSUME TypeOK, OneCycle
  PROVE  Ring = Free
<1> DEFINE N == 2 * NR_BUFFERS
           w == WalkFrom(free_list)
<1>1. N \in Nat /\ NR_BUFFERS < N + 1
  BY BuffersFinite
<1>2. w \in [0 .. N -> Buf] /\ w[0] = free_list /\ \A n \in 1 .. N : w[n] = nextfree[w[n - 1]]
  BY WalkFacts DEF TypeOK
<1>3. Ring = {w[n] : n \in 0 .. N}
  BY DEF Ring
<1> HIDE DEF N, w
<1>4. \A n \in 0 .. N : w[n] \in Free
  <2> DEFINE T == {n \in 0 .. N : w[n] \notin Free}
  <2>1. SUFFICES ASSUME T # {} PROVE FALSE
    OBVIOUS
  <2>2. PICK n \in T : \A m \in T : ~(m < n)
    <3>1. T \subseteq Nat
      OBVIOUS
    <3> HIDE DEF T
    <3> QED
      BY <2>1, <3>1, LeastNumber
  <2>3. n # 0
    BY <1>2, <2>2 DEF OneCycle
  <2>4. n - 1 \in 0 .. N /\ w[n - 1] \in Free
    BY <1>1, <2>2, <2>3
  <2> QED
    BY <1>1, <1>2, <2>2, <2>3, <2>4 DEF OneCycle
<1>5. PICK i, j \in 0 .. N : i < j /\ w[i] = w[j]
  <2>1. IsFiniteSet(0 .. N) /\ Cardinality(0 .. N) = N + 1
    BY <1>1, FS_Interval
  <2>2. PICK i, j \in 0 .. N : i # j /\ w[i] = w[j]
    BY <1>1, <1>2, <2>1, BuffersFinite, FS_PigeonHole
  <2> QED
    BY <1>1, <2>2
<1> DEFINE S == {w[k] : k \in i .. j - 1}
<1>6. S \subseteq Ring /\ S \subseteq Free /\ Ring \subseteq Free
  BY <1>1, <1>3, <1>4
<1>7. S # {}
  <2>1. i \in i .. j - 1
    BY <1>1, <1>5
  <2> QED
    BY <2>1
<1>8. ASSUME NEW k \in i .. j - 1 PROVE nextfree[w[k]] \in S
  <2>1. k + 1 \in 1 .. N /\ (k + 1) - 1 = k
    BY <1>1, <1>5
  <2>2. nextfree[w[k]] = w[k + 1]
    BY <1>2, <2>1
  <2>3. k + 1 \in i .. j - 1 \/ k + 1 = j
    BY <1>1, <1>5
  <2>4. i \in i .. j - 1
    BY <1>1, <1>5
  <2> QED
    BY <1>5, <2>2, <2>3, <2>4
<1>9. S = Free
  <2>1. \A a \in S : nextfree[a] \in S
    BY <1>8
  <2> HIDE DEF S
  <2> QED
    BY <1>6, <1>7, <2>1 DEF OneCycle
<1> QED
  BY <1>6, <1>9

(* Each free buffer has one before it on the list (b_prev_free).           *)
LEMMA PrevFacts ==
  ASSUME TypeOK, OneCycle, NEW b \in Free
  PROVE  Prev(b) \in Free /\ nextfree[Prev(b)] = b
<1> DEFINE S == {nextfree[a] : a \in Free}
<1>1. S \in SUBSET Free /\ S # {} /\ \A a \in S : nextfree[a] \in S
  BY DEF OneCycle
<1>2. S = Free
  <2> HIDE DEF S
  <2> QED
    BY <1>1 DEF OneCycle
<1>3. \E a \in Free : nextfree[a] = b
  BY <1>2
<1> QED
  BY <1>3, RingIsFree DEF Prev

(* remove_from_queues() of a free buffer leaves the others in one ring, if *)
(* there are others; then free_list is one of them (buffer.c:71-86).       *)
LEMMA RemoveKeepsCycle ==
  ASSUME TypeOK, OneCycle, NEW b \in Free, RemoveFromQueues(b),
         Free' = Free \ {b}, Free' # {}
  PROVE  /\ OneCycle'
         /\ nextfree' \in [Buf -> Buf] /\ free_list' \in Buf
<1> DEFINE p == Prev(b)
<1>1. p \in Free /\ nextfree[p] = b /\ Free \subseteq Buf
  BY PrevFacts DEF Free
<1>2. nextfree' = [nextfree EXCEPT ![p] = nextfree[b]]
  BY DEF RemoveFromQueues
<1>3. free_list' = IF free_list = b THEN nextfree[b] ELSE free_list
  BY DEF RemoveFromQueues
<1> HIDE DEF p
<1>4. nextfree \in [Buf -> Buf] /\ nextfree[b] \in Free
  BY DEF TypeOK, OneCycle
<1>5. nextfree[b] # b
  <2>1. SUFFICES ASSUME nextfree[b] = b PROVE FALSE
    OBVIOUS
  <2>2. {b} \in SUBSET Free /\ {b} # {} /\ \A a \in {b} : nextfree[a] \in {b}
    BY <2>1
  <2>3. {b} = Free
    BY <2>2 DEF OneCycle
  <2> QED
    BY <2>3
<1>6. p # b
  BY <1>1, <1>5
<1>7. \A a \in Buf : nextfree'[a] = IF a = p THEN nextfree[b] ELSE nextfree[a]
  BY <1>2, <1>4
<1>8. free_list' \in Free'
  BY <1>3, <1>4, <1>5 DEF OneCycle
<1>9. \A a \in Free' : nextfree'[a] \in Free'
  BY <1>1, <1>4, <1>5, <1>7 DEF OneCycle
<1>10. \A a, c \in Free' : nextfree'[a] = nextfree'[c] => a = c
  BY <1>1, <1>7 DEF OneCycle
<1>11. ASSUME NEW S \in SUBSET Free', S # {}, \A a \in S : nextfree'[a] \in S
       PROVE  S = Free'
  <2>1. CASE p \in S
    <3>1. S \union {b} \in SUBSET Free
      OBVIOUS
    <3>2. \A a \in S \union {b} : nextfree[a] \in S \union {b}
      BY <1>1, <1>7, <1>11, <2>1
    <3>3. S \union {b} = Free
      BY <3>1, <3>2 DEF OneCycle
    <3> QED
      BY <3>3
  <2>2. CASE p \notin S
    <3>1. \A a \in S : nextfree[a] \in S
      BY <1>1, <1>7, <1>11, <2>2
    <3>2. S = Free
      BY <1>11, <3>1 DEF OneCycle
    <3> QED
      BY <3>2
  <2> QED
    BY <2>1, <2>2
<1>12. OneCycle'
  BY <1>8, <1>9, <1>10, <1>11 DEF OneCycle
<1> QED
  BY <1>1, <1>2, <1>4, <1>8, <1>12

(* insert_into_queues() of a buffer that is off the list puts it into the  *)
(* ring (buffer.c:88-104).                                                 *)
LEMMA InsertKeepsCycle ==
  ASSUME TypeOK, OneCycle, NEW b \in Buf \ Free, NEW k, InsertIntoQueues(b, k),
         Free' = Free \union {b}
  PROVE  /\ OneCycle'
         /\ nextfree' \in [Buf -> Buf] /\ free_list' \in Buf
<1> DEFINE p == Prev(free_list)
<1>1. p \in Free /\ nextfree[p] = free_list /\ Free \subseteq Buf /\ free_list \in Free
  BY PrevFacts DEF Free, OneCycle
<1>2. nextfree' = [nextfree EXCEPT ![p] = b, ![b] = free_list]
  BY DEF InsertIntoQueues
<1>3. free_list' = free_list
  BY DEF InsertIntoQueues
<1> HIDE DEF p
<1>4. nextfree \in [Buf -> Buf]
  BY DEF TypeOK
<1>5. \A a \in Buf : nextfree'[a] = IF a = b THEN free_list ELSE IF a = p THEN b ELSE nextfree[a]
  BY <1>1, <1>2, <1>4
<1>6. \A a \in Free' : nextfree'[a] \in Free'
  BY <1>1, <1>5 DEF OneCycle
<1>7. \A a, c \in Free' : nextfree'[a] = nextfree'[c] => a = c
  BY <1>1, <1>5 DEF OneCycle
<1>8. ASSUME NEW S \in SUBSET Free', S # {}, \A a \in S : nextfree'[a] \in S
      PROVE  S = Free'
  <2>1. CASE b \in S
    <3>1. free_list \in S
      BY <1>1, <1>5, <1>8, <2>1
    <3>2. S \ {b} \in SUBSET Free /\ S \ {b} # {}
      BY <1>1, <3>1
    <3>3. \A a \in S \ {b} : nextfree[a] \in S \ {b}
      BY <1>1, <1>5, <1>8, <3>1 DEF OneCycle
    <3>4. S \ {b} = Free
      BY <3>2, <3>3 DEF OneCycle
    <3> QED
      BY <2>1, <3>4
  <2>2. CASE b \notin S
    <3>1. p \notin S
      BY <1>1, <1>5, <1>8, <2>2
    <3>2. \A a \in S : nextfree[a] \in S
      BY <1>1, <1>5, <1>8, <2>2, <3>1
    <3>3. S = Free
      BY <1>8, <2>2, <3>2 DEF OneCycle
    <3> QED
      BY <1>1, <3>1, <3>3
  <2> QED
    BY <2>1, <2>2
<1>9. OneCycle'
  BY <1>1, <1>3, <1>6, <1>7, <1>8 DEF OneCycle
<1> QED
  BY <1>1, <1>2, <1>3, <1>4, <1>9

(* Where a task has a count in a buffer that is on the hash queues, and    *)
(* where it is in sync_dev or sys_sync.                                    *)
Holding == {"hash", "have", "read", "use", "release"}
Syncing == {"sync", "wsync"}

(* Where a task is says what it has: a buffer it waits for, a position in  *)
(* the table, a block it wants; on buffer_wait is only who found no        *)
(* buffer.                                                                 *)
Places ==
  /\ \A t \in Task : pc[t] \notin {"user", "lookup", "nofree"} \union Syncing => bh[t] \in Buf
  /\ \A t \in Task : pc[t] = "user" => bh[t] = NULL
  /\ \A t \in Task : pc[t] \in Syncing => scan[t] \in Buf
  /\ \A t \in Task : pc[t] # "user" /\ ~(pc[t] \in Syncing /\ bh[t] = NULL) => want[t] \in Blk
  /\ \A t \in Task : t \in nobuffer => pc[t] = "nofree"

(* HeldStays, and for a task that waits for the buffer it found: what it   *)
(* found is not renamed, as the count was raised before the wait           *)
(* (buffer.c:134, 139).                                                    *)
HeldHashed ==
  \A t \in Task : pc[t] \in Holding => bh[t] \in hashed /\ buf[bh[t]].blk = want[t]

(* The disk works for buffers that have a block.                           *)
LockedBlock == \A b \in Buf : Locked(b) => buf[b].blk \in Blk

(* The victim of a getblk is on no hash queue, so that nobody finds it,    *)
(* and it has one holder (buffer.c:168-169).                               *)
VictimAlone ==
  \A t \in Task : InGetblk(t) => bh[t] \notin hashed /\ Holders(bh[t]) = {t}

(* The inductive invariant of the cache.                                   *)
Inv ==
  TypeOK /\ Places /\ LockedBlock /\ CountsHolders /\ OneBufferPerBlock /\ HeldHashed /\ VictimAlone /\ OneCycle

(* A buffer has at most as many holders as there are tasks.                *)
LEMMA HoldersFinite ==
  ASSUME NEW b
  PROVE  /\ IsFiniteSet(Holders(b)) /\ Cardinality(Holders(b)) \in Nat
         /\ Cardinality(Holders(b)) <= Cardinality(Task)
<1>1. Holders(b) \in SUBSET Task
  BY DEF Holders
<1> QED
  BY <1>1, FS_Subset, FS_CardinalityType, BufferAssumption

(* The same after a step.                                                  *)
LEMMA HoldersFiniteNext ==
  ASSUME NEW b
  PROVE  /\ IsFiniteSet(Holders(b)') /\ Cardinality(Holders(b)') \in Nat
         /\ Cardinality(Holders(b)') <= Cardinality(Task)
<1>1. Holders(b)' \in SUBSET Task
  BY DEF Holders
<1> QED
  BY <1>1, FS_Subset, FS_CardinalityType, BufferAssumption

(* A step of one task changes the holders of a buffer by that task.        *)
LEMMA HoldersStep ==
  ASSUME NEW t \in Task, NEW b,
         \A u \in Task \ {t} : pc'[u] = pc[u] /\ bh'[u] = bh[u]
  PROVE  /\ \A u \in Task \ {t} : u \in Holders(b)' <=> u \in Holders(b)
         /\ (t \in Holders(b)' <=> t \in Holders(b)) => Holders(b)' = Holders(b)
         /\ t \in Holders(b)' /\ t \notin Holders(b) =>
               /\ Holders(b)' = Holders(b) \union {t}
               /\ Cardinality(Holders(b)') = Cardinality(Holders(b)) + 1
         /\ t \notin Holders(b)' /\ t \in Holders(b) =>
               /\ Holders(b)' = Holders(b) \ {t}
               /\ Cardinality(Holders(b)') = Cardinality(Holders(b)) - 1
<1>1. \A u \in Task \ {t} : u \in Holders(b)' <=> u \in Holders(b)
  BY DEF Holders, InGetblk
<1>2. Holders(b) \subseteq Task /\ Holders(b)' \subseteq Task
  BY DEF Holders
<1>3. (t \in Holders(b)' <=> t \in Holders(b)) => Holders(b)' = Holders(b)
  BY <1>1, <1>2
<1>4. t \in Holders(b)' /\ t \notin Holders(b) => Holders(b)' = Holders(b) \union {t}
  BY <1>1, <1>2
<1>5. t \notin Holders(b)' /\ t \in Holders(b) => Holders(b)' = Holders(b) \ {t}
  BY <1>1, <1>2
<1> QED
  BY <1>1, <1>3, <1>4, <1>5, HoldersFinite, FS_AddElement, FS_RemoveElement

(* A step that takes and gives back no buffer, renames none and leaves the *)
(* queues alone keeps the invariant, if it keeps the types and places.     *)
LEMMA NothingTaken ==
  ASSUME Inv, TypeOK', Places', LockedBlock',
         \A u \in Task : pc'[u] \in Holding <=> pc[u] \in Holding,
         \A u \in Task : InGetblk(u)' <=> InGetblk(u),
         \A u \in Task : pc[u] \in Holding \/ InGetblk(u) => bh'[u] = bh[u],
         \A u \in Task : pc[u] \in Holding => want'[u] = want[u],
         \A b \in Buf : buf'[b].count = buf[b].count /\ buf'[b].blk = buf[b].blk,
         UNCHANGED queues
  PROVE  Inv'
<1> USE DEF Inv
<1>1. \A b \in Buf : Holders(b)' = Holders(b)
  BY DEF Holders, Holding
<1>2. Removed' = Removed
  BY DEF Removed
<1>3. CountsHolders'
  BY <1>1 DEF CountsHolders, Buf
<1>4. OneBufferPerBlock'
  BY DEF OneBufferPerBlock, queues, TypeOK
<1>5. HeldHashed'
  BY DEF HeldHashed, queues, TypeOK
<1>6. VictimAlone'
  <2>1. SUFFICES ASSUME NEW t \in Task, InGetblk(t)'
                 PROVE  bh'[t] \notin hashed' /\ Holders(bh[t])' = {t} /\ bh'[t] = bh[t]
    BY DEF VictimAlone
  <2>2. InGetblk(t) /\ bh'[t] = bh[t] /\ bh[t] \in Buf
    BY <2>1 DEF TypeOK, InGetblk
  <2> QED
    BY <1>1, <2>2 DEF VictimAlone, queues
<1>7. OneCycle'
  BY <1>2 DEF OneCycle, Free, queues, Buf
<1> QED
  BY <1>3, <1>4, <1>5, <1>6, <1>7

(* sync_dev and sys_sync go to a place in the table or to the end, and     *)
(* change one lock (buffer.c:49-58, 30-40).                                *)
LEMMA SyncFromFacts ==
  ASSUME TypeOK, NEW t \in Task, NEW i \in Nat, SyncFrom(t, i)
  PROVE  /\ scan' \in [Task -> Buf \union {0}]
         /\ \A u \in Task \ {t} : scan'[u] = scan[u] /\ pc'[u] = pc[u]
         /\ pc' \in [Task -> PC] /\ current' \in {t, NULL}
         /\ \/ pc'[t] \in Syncing /\ scan'[t] \in Buf
            \/ pc'[t] = IF bh[t] = NULL THEN "user" ELSE "got"
         /\ buf' \in [Buf -> BufferHead]
         /\ \A b \in Buf : buf'[b].count = buf[b].count /\ buf'[b].blk = buf[b].blk
         /\ \A b \in Buf : buf'[b].lock = buf[b].lock \/ buf[b].blk # NULL
<1> USE DEF TypeOK
<1>1. CASE \E j \in Pending(i) :
             /\ scan' = [scan EXCEPT ![t] = j]
             /\ IF Locked(j) THEN Sleep(t, "sync") /\ UNCHANGED buf
                             ELSE Sleep(t, "wsync") /\ Submit(j, "WRITE")
  <2>1. PICK j \in Pending(i) :
          /\ scan' = [scan EXCEPT ![t] = j]
          /\ IF Locked(j) THEN Sleep(t, "sync") /\ UNCHANGED buf
                          ELSE Sleep(t, "wsync") /\ Submit(j, "WRITE")
    BY <1>1
  <2>2. j \in Buf /\ buf[j].blk # NULL /\ buf[j] \in BufferHead
    BY DEF Pending
  <2>3. CASE Locked(j)
    BY <2>1, <2>2, <2>3 DEF Sleep, PC, Syncing
  <2>4. CASE ~Locked(j)
    <3>1. buf' = [buf EXCEPT ![j].lock = "WRITE"]
      BY <2>1, <2>4 DEF Submit
    <3>2. /\ buf' \in [Buf -> BufferHead]
          /\ \A b \in Buf : buf'[b].count = buf[b].count /\ buf'[b].blk = buf[b].blk
          /\ \A b \in Buf : buf'[b].lock = buf[b].lock \/ buf[b].blk # NULL
      BY <2>2, <3>1 DEF BufferHead
    <3> QED
      BY <2>1, <2>2, <2>4, <3>2 DEF Sleep, PC, Syncing
  <2> QED
    BY <2>3, <2>4
<1>2. CASE /\ scan' = [scan EXCEPT ![t] = 0]
           /\ IF bh[t] = NULL THEN Sleep(t, "user") ELSE Goto(t, "got")
           /\ UNCHANGED buf
  BY <1>2 DEF Sleep, Goto, PC
<1> QED
  BY <1>1, <1>2 DEF SyncFrom

(* Any step of them keeps the invariant.                                   *)
LEMMA SyncFromInv ==
  ASSUME Inv, NEW t \in Task, NEW i \in Nat, SyncFrom(t, i),
         pc[t] \in Syncing \/ pc[t] = "user",
         UNCHANGED <<want, bh, queues, nobuffer, media, history>>
  PROVE  Inv'
<1> USE DEF Inv
<1>1. TypeOK'
  BY SyncFromFacts DEF TypeOK, queues, media, history
<1>2. bh[t] # NULL => bh[t] \in Buf /\ pc[t] # "user"
  BY DEF Places, TypeOK
<1>3. Places'
  BY <1>2, SyncFromFacts DEF Places, TypeOK, Syncing
<1>6. LockedBlock'
  BY SyncFromFacts DEF LockedBlock, Locked, TypeOK, BufferHead
<1>4. \A u \in Task : InGetblk(u)' <=> InGetblk(u)
  BY <1>2, SyncFromFacts DEF InGetblk, Syncing
<1>5. \A u \in Task : pc'[u] \in Holding <=> pc[u] \in Holding
  BY SyncFromFacts DEF Holding, Syncing
<1> QED
  BY <1>1, <1>3, <1>4, <1>5, <1>6, SyncFromFacts, NothingTaken

(* A search of the free list takes nothing yet: the task waits for the     *)
(* buffer it found, or on buffer_wait (buffer.c:151-167).                  *)
LEMMA WalkInv ==
  ASSUME Inv, NEW t \in Task, NEW b \in Buf \union {NULL}, Walk(t, b), pc[t] \in {"lookup", "walk"}
  PROVE  Inv'
<1> USE DEF Inv
<1>1. CASE b # NULL /\ WaitAt(t, "walk", b) /\ UNCHANGED nobuffer
  <2>1. TypeOK' /\ Places' /\ LockedBlock'
    BY <1>1 DEF Walk, WaitAt, TypeOK, PC, Places, Syncing, queues, media, history,
       LockedBlock, Locked
  <2> QED
    BY <1>1, <2>1, NothingTaken DEF Walk, WaitAt, TypeOK, Holding, InGetblk
<1>2. CASE b = NULL /\ Sleep(t, "nofree") /\ nobuffer' = nobuffer \union {t} /\ UNCHANGED bh
  <2>1. TypeOK' /\ Places' /\ LockedBlock'
    BY <1>2 DEF Walk, Sleep, TypeOK, PC, Places, Syncing, queues, media, history,
       LockedBlock, Locked
  <2> QED
    BY <1>2, <2>1, NothingTaken DEF Walk, Sleep, TypeOK, Holding, InGetblk
<1> QED
  BY <1>1, <1>2 DEF Walk

(* The disk renames no buffer, takes none, and locks none that was         *)
(* unlocked (hd.c:242-297).                                                *)
LEMMA DiskInv ==
  ASSUME Inv, NEW b \in Buf, Transfer(b) \/ ReadIntr(b) \/ WriteIntr(b) \/ BadRwIntr(b)
  PROVE  Inv'
<1> USE DEF Inv
<1>1. UNCHANGED <<tasks, queues, nobuffer, changes>>
  BY DEF Transfer, ReadIntr, WriteIntr, BadRwIntr, history
<1>2. /\ buf' \in [Buf -> BufferHead]
      /\ \A c \in Buf : buf'[c].count = buf[c].count /\ buf'[c].blk = buf[c].blk
      /\ \A c \in Buf : buf'[c].lock = NULL \/ buf[c].lock # NULL
      /\ Locked(b)
  <2>1. buf \in [Buf -> BufferHead] /\ buf[b] \in BufferHead /\ NULL \notin {"READ", "WRITE", "SENT"}
    BY BufferAssumption DEF TypeOK
  <2>2. CASE Transfer(b)
    BY <2>1, <2>2 DEF Transfer, Locked, BufferHead
  <2>3. CASE ReadIntr(b)
    <3> DEFINE l == buf[b].blk \in disk
    <3>1. l \in BOOLEAN
      OBVIOUS
    <3>2. buf[b].lock = "READ"
          /\ buf' = [buf EXCEPT ![b] = [@ EXCEPT !.lock = NULL, !.uptodate = TRUE, !.dirt = FALSE,
                                                  !.latest = l]]
      BY <2>3 DEF ReadIntr
    <3> HIDE DEF l
    <3> QED
      BY <2>1, <3>1, <3>2 DEF Locked, BufferHead
  <2>4. CASE WriteIntr(b)
    BY <2>1, <2>4 DEF WriteIntr, Locked, BufferHead
  <2>5. CASE BadRwIntr(b)
    BY <2>1, <2>5 DEF BadRwIntr, Locked, BufferHead
  <2> QED
    BY <2>2, <2>3, <2>4, <2>5
<1>6. buf[b].blk \in Blk
  BY <1>2 DEF LockedBlock
<1>3. disk' \subseteq Blk /\ faults' \in 0 .. MaxFaults /\ spoilt' \subseteq Blk
  BY <1>6, BufferAssumption DEF Transfer, ReadIntr, WriteIntr, BadRwIntr, TypeOK, media, history
<1>4. TypeOK'
  BY <1>1, <1>2, <1>3 DEF TypeOK, tasks, queues
<1>5. Places' /\ LockedBlock'
  BY <1>1, <1>2 DEF Places, tasks, LockedBlock, Locked
<1> QED
  BY <1>1, <1>2, <1>4, <1>5, NothingTaken DEF tasks, InGetblk

(* Steps inside getblk, sync and bread that change nothing of who has what *)
(* keep the invariant, and so does a change of the data.                   *)
LEMMA WaitInv ==
  ASSUME Inv, NEW t \in Task,
         \/ \E k \in Blk : Get(t, k)
         \/ Miss(t) \/ NoFreeWoken(t) \/ WalkOn(t)
         \/ SysSync(t) \/ SyncWoken(t) \/ SyncVictim(t)
         \/ HashWoken(t) \/ Bread(t) \/ BreadWoken(t) \/ Change(t)
  PROVE  Inv'
<1> USE DEF Inv
<1>1. ASSUME NEW k \in Blk, Get(t, k) PROVE Inv'
  <2>1. TypeOK' /\ Places' /\ LockedBlock'
    BY <1>1 DEF Get, Goto, TypeOK, PC, Places, Syncing, queues, media, history, LockedBlock, Locked
  <2> QED
    BY <1>1, <2>1, NothingTaken DEF Get, Goto, TypeOK, Holding, InGetblk
<1>2. CASE Miss(t)
  <2>1. Unused(free_list) \in Buf \union {NULL}
    BY UnusedFacts DEF TypeOK
  <2> QED
    BY <1>2, <2>1, WalkInv DEF Miss, RunsAt
<1>3. CASE NoFreeWoken(t)
  <2>1. TypeOK' /\ Places' /\ LockedBlock'
    BY <1>3 DEF NoFreeWoken, Goto, TypeOK, PC, Places, Syncing, queues, media, history,
       LockedBlock, Locked
  <2> QED
    BY <1>3, <2>1, NothingTaken DEF NoFreeWoken, Goto, TypeOK, Holding, InGetblk
<1>4. CASE WalkOn(t)
  <2>1. pc[t] = "walk" /\ bh[t] \in Buf
    BY <1>4 DEF WalkOn, Woken, Places, Syncing
  <2>2. UnusedAfter(bh[t]) \in Buf \union {NULL}
    BY <2>1, UnusedFacts DEF UnusedAfter, TypeOK
  <2> QED
    BY <1>4, <2>1, <2>2, WalkInv DEF WalkOn
<1>5. CASE SysSync(t)
  BY <1>5, SyncFromInv DEF SysSync
<1>6. CASE SyncWoken(t)
  <2>1. pc[t] \in Syncing /\ scan[t] \in Nat /\ scan[t] + 1 \in Nat
    BY <1>6 DEF SyncWoken, Syncing, Places, Buf
  <2> QED
    BY <1>6, <2>1, SyncFromInv DEF SyncWoken
<1>7. CASE SyncVictim(t)
  BY <1>7, SyncFromInv DEF SyncVictim, RunsAt, Syncing
<1>8. CASE HashWoken(t)
  <2>1. pc[t] = "hash" /\ buf[bh[t]].blk = want[t]
    BY <1>8 DEF HashWoken, Woken, HeldHashed, Holding
  <2>2. TypeOK' /\ Places' /\ LockedBlock'
    BY <1>8, <2>1 DEF HashWoken, Goto, TypeOK, PC, Places, Syncing, queues, media, history,
       LockedBlock, Locked
  <2> QED
    BY <1>8, <2>1, <2>2, NothingTaken DEF HashWoken, Goto, TypeOK, Holding, InGetblk
<1>9. CASE Bread(t)
  <2>1. pc[t] = "have" /\ bh[t] \in Buf /\ buf[bh[t]].blk \in Blk
    BY <1>9 DEF Bread, RunsAt, Places, Syncing, HeldHashed, Holding
  <2>2. /\ buf' \in [Buf -> BufferHead]
        /\ \A c \in Buf : buf'[c].count = buf[c].count /\ buf'[c].blk = buf[c].blk
        /\ \A c \in Buf : buf'[c].lock = buf[c].lock \/ c = bh[t]
    BY <1>9, <2>1 DEF Bread, Submit, TypeOK, BufferHead
  <2>3. TypeOK' /\ Places' /\ LockedBlock'
    BY <1>9, <2>1, <2>2 DEF Bread, Sleep, TypeOK, PC, Places, Syncing, queues, media, history,
       LockedBlock, Locked
  <2> QED
    BY <1>9, <2>1, <2>2, <2>3, NothingTaken DEF Bread, Sleep, TypeOK, Holding, InGetblk
<1>10. CASE BreadWoken(t)
  <2>1. TypeOK' /\ Places' /\ LockedBlock'
    BY <1>10 DEF BreadWoken, Woken, Sleep, TypeOK, PC, Places, Syncing, queues, media, history,
       LockedBlock, Locked
  <2> QED
    BY <1>10, <2>1, NothingTaken DEF BreadWoken, Woken, Sleep, TypeOK, Holding, InGetblk
<1>11. CASE Change(t)
  <2>1. buf[bh[t]].blk \in Blk
    BY <1>11 DEF Change, Places, Syncing, HeldHashed, Holding
  <2>2. /\ buf' \in [Buf -> BufferHead]
        /\ \A c \in Buf : buf'[c].count = buf[c].count /\ buf'[c].blk = buf[c].blk
        /\ \A c \in Buf : buf'[c].lock = buf[c].lock
    <3>1. buf' = [c \in Buf |-> IF c = bh[t] THEN [buf[c] EXCEPT !.dirt = TRUE, !.latest = TRUE]
                                ELSE IF buf[c].blk = buf[bh[t]].blk THEN [buf[c] EXCEPT !.latest = FALSE]
                                ELSE buf[c]]
      BY <1>11 DEF Change
    <3>2. \A c \in Buf : buf[c] \in BufferHead
      BY DEF TypeOK
    <3> QED
      BY <3>1, <3>2 DEF BufferHead
  <2>3. TypeOK' /\ Places' /\ LockedBlock'
    <3>1. changes' \in 0 .. MaxChanges
      <4>1. changes < MaxChanges /\ changes' = changes + 1
        BY <1>11 DEF Change
      <4> QED
        BY <4>1, BufferAssumption DEF TypeOK
    <3> QED
      BY <1>11, <2>1, <2>2, <3>1 DEF Change, TypeOK, Places, tasks, queues, LockedBlock, Locked
  <2> QED
    BY <1>11, <2>2, <2>3, NothingTaken DEF Change, tasks, InGetblk
<1> QED
  BY <1>1, <1>2, <1>3, <1>4, <1>5, <1>6, <1>7, <1>8, <1>9, <1>10, <1>11

(* get_hash_table() adds one holder and one to the count, also for a       *)
(* buffer others have (buffer.c:134).                                      *)
LEMMA HitInv ==
  ASSUME Inv, NEW t \in Task, Hit(t)
  PROVE  Inv'
<1> USE DEF Inv
<1>1. PICK b \in FindBuffer(want[t]) : buf' = [buf EXCEPT ![b].count = @ + 1] /\ WaitAt(t, "hash", b)
  BY DEF Hit
<1>2. /\ b \in hashed /\ b \in Buf /\ buf[b].blk = want[t] /\ pc[t] = "lookup"
      /\ UNCHANGED <<want, scan, queues, nobuffer, media, history>>
  BY DEF Hit, RunsAt, FindBuffer, TypeOK
<1>3. bh' = [bh EXCEPT ![t] = b] /\ pc' = [pc EXCEPT ![t] = "hash"] /\ current' \in {t, NULL}
  BY <1>1 DEF WaitAt
<1>4. \A u \in Task \ {t} : pc'[u] = pc[u] /\ bh'[u] = bh[u]
  BY <1>3 DEF TypeOK
<1>5. pc'[t] = "hash" /\ bh'[t] = b /\ pc' \in [Task -> PC] /\ bh' \in [Task -> Buf \union {NULL}]
  BY <1>2, <1>3 DEF TypeOK, PC
<1>6. \A c \in Buf : (t \in Holders(c)' <=> c = b) /\ t \notin Holders(c)
  BY <1>2, <1>5 DEF Holders, InGetblk
<1>7. \A c \in Buf : Cardinality(Holders(c)') = Cardinality(Holders(c)) + (IF c = b THEN 1 ELSE 0)
  BY <1>4, <1>6, HoldersStep, HoldersFinite
<1>8. Cardinality(Holders(b)') <= Cardinality(Task) /\ Cardinality(Holders(b)') \in Nat
  BY HoldersFiniteNext
<1>9. buf[b].count + 1 \in 0 .. Cardinality(Task)
  BY <1>2, <1>7, <1>8, HoldersFinite, BuffersFinite DEF CountsHolders
<1>10. /\ buf' \in [Buf -> BufferHead]
       /\ \A c \in Buf : /\ buf'[c].count = buf[c].count + (IF c = b THEN 1 ELSE 0)
                          /\ buf'[c].blk = buf[c].blk /\ buf'[c].lock = buf[c].lock
  <2>1. \A c \in Buf : buf[c] \in BufferHead /\ buf[c].count \in Nat
    BY DEF TypeOK, BufferHead
  <2> QED
    BY <1>1, <1>2, <1>9, <2>1 DEF BufferHead, TypeOK
<1>11. TypeOK'
  BY <1>2, <1>3, <1>5, <1>10 DEF TypeOK, queues, media, history
<1>12. Places' /\ LockedBlock'
  BY <1>2, <1>4, <1>5, <1>10 DEF Places, Syncing, LockedBlock, Locked
<1>13. CountsHolders'
  BY <1>7, <1>10 DEF CountsHolders, Buf
<1>14. OneBufferPerBlock' /\ HeldHashed'
  BY <1>2, <1>4, <1>5, <1>10 DEF OneBufferPerBlock, HeldHashed, Holding, queues, TypeOK
<1>15. \A u \in Task : InGetblk(u)' <=> InGetblk(u) /\ u # t
  BY <1>2, <1>4, <1>5 DEF InGetblk
<1>16. Removed' = Removed
  BY <1>2, <1>4, <1>15 DEF Removed, InGetblk
<1>17. VictimAlone'
  <2>1. SUFFICES ASSUME NEW u \in Task \ {t}, InGetblk(u)
                 PROVE  bh[u] \notin hashed /\ Holders(bh[u])' = {u} /\ bh'[u] = bh[u]
    BY <1>2, <1>15 DEF VictimAlone, queues
  <2>2. bh[u] \notin hashed /\ Holders(bh[u]) = {u} /\ bh'[u] = bh[u] /\ bh[u] \in Buf
    BY <1>4, <2>1 DEF VictimAlone, InGetblk, TypeOK
  <2> QED
    BY <1>2, <1>4, <1>6, <2>2, HoldersStep
<1>18. OneCycle'
  BY <1>2, <1>16 DEF OneCycle, Free, queues, Buf
<1> QED
  BY <1>11, <1>12, <1>13, <1>14, <1>17, <1>18

(* brelse() takes one of each away (buffer.c:199-205).                     *)
LEMMA BrelseInv ==
  ASSUME Inv, NEW t \in Task, Brelse(t)
  PROVE  Inv'
<1> USE DEF Inv
<1> DEFINE b == bh[t]
<1>1. /\ pc[t] \in {"use", "release"} /\ b \in Buf /\ b \in hashed
      /\ buf' = [buf EXCEPT ![b].count = @ - 1] /\ nobuffer' = {}
      /\ bh' = [bh EXCEPT ![t] = NULL] /\ want' = [want EXCEPT ![t] = NULL]
      /\ pc' = [pc EXCEPT ![t] = "user"] /\ current' = NULL
      /\ UNCHANGED <<scan, queues, media, history>>
  BY DEF Brelse, Put, Sleep, HeldHashed, Holding, Places, Syncing
<1> HIDE DEF b
<1>2. \A u \in Task \ {t} : pc'[u] = pc[u] /\ bh'[u] = bh[u] /\ want'[u] = want[u]
  BY <1>1 DEF TypeOK
<1>3. /\ pc'[t] = "user" /\ bh'[t] = NULL /\ want' \in [Task -> Blk \union {NULL}]
      /\ pc' \in [Task -> PC] /\ bh' \in [Task -> Buf \union {NULL}]
  BY <1>1 DEF TypeOK, PC
<1>4. \A c \in Buf : t \notin Holders(c)' /\ (t \in Holders(c) <=> c = b)
  BY <1>1, <1>3 DEF Holders, InGetblk, b
<1>5. \A c \in Buf : Cardinality(Holders(c)') = Cardinality(Holders(c)) - (IF c = b THEN 1 ELSE 0)
  BY <1>2, <1>4, HoldersStep, HoldersFinite
<1>6. buf[b].count - 1 \in 0 .. Cardinality(Task)
  BY <1>1, <1>5, HoldersFiniteNext, BuffersFinite DEF CountsHolders
<1>7. /\ buf' \in [Buf -> BufferHead]
      /\ \A c \in Buf : /\ buf'[c].count = buf[c].count - (IF c = b THEN 1 ELSE 0)
                         /\ buf'[c].blk = buf[c].blk /\ buf'[c].lock = buf[c].lock
  <2>1. \A c \in Buf : buf[c] \in BufferHead /\ buf[c].count \in Nat
    BY DEF TypeOK, BufferHead
  <2> QED
    BY <1>1, <1>6, <2>1 DEF BufferHead, TypeOK
<1>8. TypeOK'
  BY <1>1, <1>3, <1>7 DEF TypeOK, queues, media, history
<1>9. Places' /\ LockedBlock'
  BY <1>1, <1>2, <1>3, <1>7 DEF Places, Syncing, LockedBlock, Locked
<1>10. CountsHolders'
  BY <1>5, <1>7 DEF CountsHolders, Buf
<1>11. OneBufferPerBlock' /\ HeldHashed'
  BY <1>1, <1>2, <1>3, <1>7 DEF OneBufferPerBlock, HeldHashed, Holding, queues, TypeOK
<1>12. \A u \in Task : InGetblk(u)' <=> InGetblk(u) /\ u # t
  BY <1>2, <1>3 DEF InGetblk
<1>13. ~InGetblk(t)
  BY <1>1 DEF InGetblk
<1>14. Removed' = Removed
  BY <1>2, <1>12, <1>13 DEF Removed
<1>15. VictimAlone'
  <2>1. SUFFICES ASSUME NEW u \in Task \ {t}, InGetblk(u)
                 PROVE  bh[u] \notin hashed /\ Holders(bh[u])' = {u} /\ bh'[u] = bh[u]
    BY <1>1, <1>12 DEF VictimAlone, queues
  <2>2. bh[u] \notin hashed /\ Holders(bh[u]) = {u} /\ bh'[u] = bh[u] /\ bh[u] \in Buf
    BY <1>2, <2>1 DEF VictimAlone, InGetblk, TypeOK
  <2> QED
    BY <1>1, <1>2, <1>4, <2>2, HoldersStep
<1>16. OneCycle'
  BY <1>1, <1>14 DEF OneCycle, Free, queues, Buf
<1> QED
  BY <1>8, <1>9, <1>10, <1>11, <1>15, <1>16

(* There are more buffers than tasks and a task has at most one off the    *)
(* list: the list is not empty.                                            *)
LEMMA SomeFreeNext == Free' # {}
<1> DEFINE S == {u \in Task : InGetblk(u)'}
           R == {bh'[u] : u \in S}
<1>1. S \in SUBSET Task
  OBVIOUS
<1>2. IsFiniteSet(S) /\ Cardinality(S) <= Cardinality(Task) /\ Cardinality(S) \in Nat
  <2> HIDE DEF S
  <2> QED
    BY <1>1, FS_Subset, FS_CardinalityType, BufferAssumption
<1>3. IsFiniteSet(R) /\ Cardinality(R) <= Cardinality(S)
  <2> HIDE DEF S
  <2> QED
    BY <1>2, ImageBound
<1>4. Removed' = R
  BY DEF Removed
<1>5. SUFFICES ASSUME Buf \in SUBSET R PROVE FALSE
  BY <1>4 DEF Free, Buf
<1> HIDE DEF R, S
<1>6. Cardinality(Buf) <= Cardinality(R) /\ Cardinality(R) \in Nat
  BY <1>3, <1>5, FS_Subset, FS_CardinalityType
<1> QED
  BY <1>2, <1>3, <1>6, BuffersFinite, BufferAssumption

(* Line 168: nobody had the buffer, so the task that takes it is its only  *)
(* holder, and it is off both queues before anybody else runs.             *)
LEMMA TakeInv ==
  ASSUME Inv, NEW t \in Task, Take(t)
  PROVE  Inv'
<1> USE DEF Inv
<1> DEFINE b == bh[t]
<1>1. /\ pc[t] = "walk" /\ b \in Buf /\ buf[b].count = 0
      /\ buf' = [buf EXCEPT ![b].count = 1] /\ RemoveFromQueues(b)
      /\ \/ pc' = [pc EXCEPT ![t] = "sync"] /\ scan' = [scan EXCEPT ![t] = 1]
         \/ pc' = [pc EXCEPT ![t] = "got"] /\ UNCHANGED scan
      /\ current' = t
      /\ UNCHANGED <<want, bh, nobuffer, media, history>>
  BY DEF Take, Woken, Places, Syncing
<1> HIDE DEF b
<1>2. \A u \in Task \ {t} : pc'[u] = pc[u] /\ bh'[u] = bh[u] /\ scan'[u] = scan[u]
  BY <1>1 DEF TypeOK
<1>3. /\ pc'[t] \in {"sync", "got"} /\ bh'[t] = b /\ (pc'[t] = "sync" => scan'[t] = 1)
      /\ pc' \in [Task -> PC] /\ scan' \in [Task -> Buf \union {0}] /\ 1 \in Buf
  <2>1. 1 \in Buf
    BY BuffersFinite DEF Buf
  <2> QED
    BY <1>1, <2>1 DEF TypeOK, PC, b
<1>4. /\ Holders(b) = {}
      /\ \A c \in Buf : t \notin Holders(c) /\ (t \in Holders(c)' <=> c = b)
  <2>1. Holders(b) = {}
    BY <1>1, HoldersFinite, FS_EmptySet DEF CountsHolders
  <2>2. NULL \notin Buf
    BY BufferAssumption DEF Buf
  <2> QED
    BY <1>1, <1>3, <2>1, <2>2 DEF Holders, InGetblk
<1>5. \A c \in Buf : Cardinality(Holders(c)') = Cardinality(Holders(c)) + (IF c = b THEN 1 ELSE 0)
  BY <1>2, <1>4, HoldersStep, HoldersFinite
<1>6. 1 \in 0 .. Cardinality(Task)
  BY <1>1, <1>5, HoldersFinite, HoldersFiniteNext, BuffersFinite DEF CountsHolders
<1>7. /\ buf' \in [Buf -> BufferHead]
      /\ \A c \in Buf : /\ buf'[c].count = buf[c].count + (IF c = b THEN 1 ELSE 0)
                         /\ buf'[c].blk = buf[c].blk /\ buf'[c].lock = buf[c].lock
  <2>1. \A c \in Buf : buf[c] \in BufferHead /\ buf[c].count \in Nat
    BY DEF TypeOK, BufferHead
  <2> QED
    BY <1>1, <1>6, <2>1 DEF BufferHead, TypeOK
<1>8. \A u \in Task : InGetblk(u)' <=> InGetblk(u) \/ u = t
  <2>1. NULL \notin Buf
    BY BufferAssumption DEF Buf
  <2> QED
    BY <1>1, <1>2, <1>3, <2>1 DEF InGetblk
<1>9. ~InGetblk(t) /\ b \notin Removed
  <2>1. ~InGetblk(t)
    BY <1>1 DEF InGetblk
  <2> QED
    BY <1>1, <1>4, <2>1 DEF Removed, Holders, b
<1>10. Removed' = Removed \union {b}
  BY <1>1, <1>2, <1>3, <1>8, <1>9 DEF Removed
<1>11. OneCycle' /\ nextfree' \in [Buf -> Buf] /\ free_list' \in Buf
  <2>1. Free' = Free \ {b} /\ b \in Free /\ Free' # {}
    BY <1>1, <1>9, <1>10, SomeFreeNext DEF Free, Buf
  <2> QED
    BY <1>1, <2>1, RemoveKeepsCycle
<1>12. hashed' = hashed \ {b}
  BY <1>1 DEF RemoveFromQueues
<1>13. TypeOK'
  BY <1>1, <1>3, <1>7, <1>11, <1>12 DEF TypeOK, media, history
<1>14. Places' /\ LockedBlock'
  BY <1>1, <1>2, <1>3, <1>7 DEF Places, Syncing, LockedBlock, Locked
<1>15. CountsHolders'
  BY <1>5, <1>7 DEF CountsHolders, Buf
<1>16. OneBufferPerBlock' /\ HeldHashed'
  <2>1. \A u \in Task : pc[u] \in Holding => bh[u] # b
    BY <1>4 DEF Holders, Holding
  <2> QED
    BY <1>1, <1>2, <1>3, <1>7, <1>12, <2>1 DEF OneBufferPerBlock, HeldHashed, Holding, TypeOK
<1>17. VictimAlone'
  <2>1. SUFFICES ASSUME NEW u \in Task, InGetblk(u)'
                 PROVE  bh[u] \notin hashed' /\ Holders(bh[u])' = {u} /\ bh'[u] = bh[u]
    BY DEF VictimAlone
  <2>2. CASE u = t
    BY <1>2, <1>3, <1>4, <1>12, <2>2, <1>1, HoldersStep DEF b
  <2>3. CASE u # t
    <3>1. InGetblk(u) /\ bh[u] \notin hashed /\ Holders(bh[u]) = {u} /\ bh'[u] = bh[u] /\ bh[u] \in Buf
      BY <1>2, <1>8, <2>1, <2>3 DEF VictimAlone, InGetblk, TypeOK
    <3>2. bh[u] # b
      BY <1>4, <3>1
    <3> QED
      BY <1>2, <1>4, <1>12, <3>1, <3>2, HoldersStep
  <2> QED
    BY <2>2, <2>3
<1> QED
  BY <1>11, <1>13, <1>14, <1>15, <1>16, <1>17

(* Line 189: the buffer was bought in vain and is put back unused, at the  *)
(* end of the list.                                                        *)
LEMMA BeatenInv ==
  ASSUME Inv, NEW t \in Task, Beaten(t)
  PROVE  Inv'
<1> USE DEF Inv
<1> DEFINE b == bh[t]
<1>1. /\ pc[t] = "got" /\ b \in Buf /\ InGetblk(t)
      /\ buf' = [buf EXCEPT ![b] = Empty] /\ InsertIntoQueues(b, NULL)
      /\ bh' = [bh EXCEPT ![t] = NULL]
      /\ pc' = [pc EXCEPT ![t] = "lookup"] /\ current' = t
      /\ UNCHANGED <<want, scan, nobuffer, media, history>>
  <2>1. NULL \notin Buf
    BY BufferAssumption DEF Buf
  <2> QED
    BY <2>1 DEF Beaten, RunsAt, Goto, Places, Syncing, InGetblk
<1> HIDE DEF b
<1>2. \A u \in Task \ {t} : pc'[u] = pc[u] /\ bh'[u] = bh[u]
  BY <1>1 DEF TypeOK
<1>3. /\ pc'[t] = "lookup" /\ bh'[t] = NULL
      /\ pc' \in [Task -> PC] /\ bh' \in [Task -> Buf \union {NULL}]
  BY <1>1 DEF TypeOK, PC
<1>4. /\ b \notin hashed /\ Holders(b) = {t}
      /\ \A c \in Buf : t \notin Holders(c)' /\ (t \in Holders(c) <=> c = b)
  BY <1>1, <1>3 DEF Holders, InGetblk, VictimAlone, b
<1>5. \A c \in Buf : Cardinality(Holders(c)') = Cardinality(Holders(c)) - (IF c = b THEN 1 ELSE 0)
  BY <1>2, <1>4, HoldersStep, HoldersFinite
<1>6. Cardinality(Holders(b)) = 1
  BY <1>4, FS_Singleton
<1>7. /\ buf' \in [Buf -> BufferHead]
      /\ \A c \in Buf \ {b} : buf'[c] = buf[c]
      /\ buf'[b] = Empty
  <2>1. Empty \in BufferHead
    BY BuffersFinite DEF Empty, BufferHead
  <2> QED
    BY <1>1, <2>1 DEF TypeOK
<1>8. hashed' = hashed
  BY <1>1 DEF InsertIntoQueues
<1>9. \A u \in Task : InGetblk(u)' <=> InGetblk(u) /\ u # t
  BY <1>2, <1>3 DEF InGetblk
<1>10. \A u \in Task \ {t} : bh[u] = b => ~InGetblk(u) /\ pc[u] \notin Holding
  BY <1>4 DEF Holders, Holding
<1>11. Removed' = Removed \ {b} /\ b \in Removed
  BY <1>1, <1>2, <1>9, <1>10 DEF Removed, b
<1>12. OneCycle' /\ nextfree' \in [Buf -> Buf] /\ free_list' \in Buf
  <2>1. Free' = Free \union {b} /\ b \in Buf \ Free
    BY <1>1, <1>11 DEF Free, Buf
  <2> QED
    BY <1>1, <2>1, InsertKeepsCycle
<1>13. TypeOK'
  BY <1>1, <1>3, <1>7, <1>8, <1>12 DEF TypeOK, media, history
<1>14. Places' /\ LockedBlock'
  BY <1>1, <1>2, <1>3, <1>7 DEF Places, Syncing, LockedBlock, Locked, Empty
<1>15. CountsHolders'
  BY <1>5, <1>6, <1>7, HoldersFinite DEF CountsHolders, Buf, Empty
<1>16. OneBufferPerBlock' /\ HeldHashed'
  BY <1>1, <1>2, <1>3, <1>4, <1>7, <1>8, <1>10 DEF OneBufferPerBlock, HeldHashed, Holding, TypeOK
<1>17. VictimAlone'
  <2>1. SUFFICES ASSUME NEW u \in Task \ {t}, InGetblk(u)
                 PROVE  bh[u] \notin hashed /\ Holders(bh[u])' = {u} /\ bh'[u] = bh[u]
    BY <1>8, <1>9 DEF VictimAlone
  <2>2. bh[u] \notin hashed /\ Holders(bh[u]) = {u} /\ bh'[u] = bh[u] /\ bh[u] \in Buf
    BY <1>2, <2>1 DEF VictimAlone, InGetblk, TypeOK
  <2> QED
    BY <1>2, <1>4, <2>2, HoldersStep
<1> QED
  BY <1>12, <1>13, <1>14, <1>15, <1>16, <1>17

(* Lines 191-194: no buffer on the hash queues has the block, so there is  *)
(* one with it afterwards; nothing sleeps between the search and the       *)
(* insertion.                                                              *)
LEMMA AssignInv ==
  ASSUME Inv, NEW t \in Task, Assign(t)
  PROVE  Inv'
<1> USE DEF Inv
<1> DEFINE b == bh[t]
           e == [Empty EXCEPT !.blk = want[t], !.count = 1]
<1>1. /\ pc[t] = "got" /\ b \in Buf /\ InGetblk(t) /\ want[t] \in Blk
      /\ FindBuffer(want[t]) = {}
      /\ buf' = [buf EXCEPT ![b] = e] /\ InsertIntoQueues(b, want[t])
      /\ pc' = [pc EXCEPT ![t] = "have"] /\ current' = t
      /\ UNCHANGED <<want, bh, scan, nobuffer, media, changes>>
  <2>1. NULL \notin Buf
    BY BufferAssumption DEF Buf
  <2> QED
    BY <2>1 DEF Assign, RunsAt, Goto, Places, Syncing, InGetblk
<1>2. spoilt' \subseteq Blk
  <2>1. spoilt' = spoilt \union {k \in {want[t]} : Locked(b) \/ \E c \in Buf \ {b} : buf[c].blk = k}
    BY DEF Assign
  <2> QED
    BY <1>1, <2>1 DEF TypeOK
<1>3. e \in BufferHead /\ e.blk = want[t] /\ e.count = 1 /\ e.lock = NULL
  <2>1. 1 \in 0 .. Cardinality(Task)
    <3>1. t \in Holders(b) /\ Holders(b) # {}
      BY <1>1 DEF Holders
    <3> QED
      BY <3>1, HoldersFinite, FS_EmptySet, BuffersFinite
  <2> QED
    BY <1>1, <2>1 DEF Empty, BufferHead
<1> HIDE DEF b, e
<1>4. \A u \in Task \ {t} : pc'[u] = pc[u] /\ bh'[u] = bh[u]
  BY <1>1 DEF TypeOK
<1>5. pc'[t] = "have" /\ bh'[t] = b /\ pc' \in [Task -> PC]
  BY <1>1 DEF TypeOK, PC, b
<1>6. /\ b \notin hashed /\ Holders(b) = {t}
      /\ \A c \in Buf : t \in Holders(c)' <=> t \in Holders(c)
  BY <1>1, <1>5 DEF Holders, InGetblk, VictimAlone, b
<1>7. \A c \in Buf : Holders(c)' = Holders(c)
  BY <1>4, <1>6, HoldersStep
<1>8. Cardinality(Holders(b)) = 1
  BY <1>6, FS_Singleton
<1>9. /\ buf' \in [Buf -> BufferHead]
      /\ \A c \in Buf \ {b} : buf'[c] = buf[c]
      /\ buf'[b] = e
  BY <1>1, <1>3 DEF TypeOK
<1>10. hashed' = hashed \union {b}
  BY <1>1, BufferAssumption DEF InsertIntoQueues
<1>11. \A u \in Task : InGetblk(u)' <=> InGetblk(u) /\ u # t
  BY <1>4, <1>5 DEF InGetblk
<1>12. \A u \in Task \ {t} : bh[u] = b => ~InGetblk(u) /\ pc[u] \notin Holding
  BY <1>6 DEF Holders, Holding
<1>13. Removed' = Removed \ {b} /\ b \in Removed
  BY <1>1, <1>4, <1>11, <1>12 DEF Removed, b
<1>14. OneCycle' /\ nextfree' \in [Buf -> Buf] /\ free_list' \in Buf
  <2>1. Free' = Free \union {b} /\ b \in Buf \ Free
    BY <1>1, <1>13 DEF Free, Buf
  <2> QED
    BY <1>1, <2>1, InsertKeepsCycle
<1>15. TypeOK'
  BY <1>1, <1>2, <1>5, <1>9, <1>10, <1>14 DEF TypeOK, media
<1>16. Places' /\ LockedBlock'
  BY <1>1, <1>3, <1>4, <1>5, <1>9 DEF Places, Syncing, LockedBlock, Locked
<1>17. CountsHolders'
  BY <1>3, <1>7, <1>8, <1>9 DEF CountsHolders, Buf
<1>18. OneBufferPerBlock'
  <2>1. \A c \in hashed : c # b /\ buf'[c] = buf[c] /\ buf[c].blk # want[t]
    BY <1>1, <1>6, <1>9 DEF FindBuffer, TypeOK
  <2> QED
    BY <1>3, <1>9, <1>10, <2>1 DEF OneBufferPerBlock
<1>19. HeldHashed'
  <2>1. SUFFICES ASSUME NEW u \in Task, pc'[u] \in Holding
                 PROVE  bh'[u] \in hashed' /\ buf'[bh'[u]].blk = want[u]
    BY <1>1 DEF HeldHashed
  <2>2. CASE u = t
    BY <1>3, <1>5, <1>9, <1>10, <2>2
  <2>3. CASE u # t
    BY <1>4, <1>9, <1>10, <1>12, <2>1, <2>3 DEF HeldHashed, TypeOK
  <2> QED
    BY <2>2, <2>3
<1>20. VictimAlone'
  <2>1. SUFFICES ASSUME NEW u \in Task \ {t}, InGetblk(u)
                 PROVE  bh[u] \notin hashed' /\ Holders(bh[u])' = {u} /\ bh'[u] = bh[u]
    BY <1>11 DEF VictimAlone
  <2>2. bh[u] \notin hashed /\ Holders(bh[u]) = {u} /\ bh'[u] = bh[u] /\ bh[u] \in Buf /\ bh[u] # b
    BY <1>4, <1>12, <2>1 DEF VictimAlone, InGetblk, TypeOK
  <2> QED
    BY <1>7, <1>10, <2>2, <1>1
<1> QED
  BY <1>14, <1>15, <1>16, <1>17, <1>18, <1>19, <1>20

(* buffer_init() links all buffers into one ring (buffer.c:246-259).       *)
LEMMA InitCycle == Init => OneCycle
<1> SUFFICES ASSUME Init PROVE OneCycle
  OBVIOUS
<1>1. Free = Buf
  BY DEF Init, Free, Removed, InGetblk
<1>2. free_list = 1 /\ nextfree = [b \in Buf |-> IF b = NR_BUFFERS THEN 1 ELSE b + 1]
  BY DEF Init
<1>3. /\ NR_BUFFERS \in Buf /\ 1 \in Buf /\ nextfree[NR_BUFFERS] = 1
      /\ \A b \in Buf \ {NR_BUFFERS} : b + 1 \in Buf /\ nextfree[b] = b + 1
  BY <1>2, BuffersFinite DEF Buf
<1>4. \A a \in Buf : nextfree[a] \in Buf
  BY <1>3
<1>5. \A a, b \in Buf : nextfree[a] = nextfree[b] => a = b
  BY <1>2, BuffersFinite DEF Buf
<1>6. ASSUME NEW S \in SUBSET Buf, S # {}, \A a \in S : nextfree[a] \in S
      PROVE  S = Buf
  <2>1. NR_BUFFERS \in S
    <3> DEFINE U == {NR_BUFFERS - a : a \in S}
    <3>1. U \subseteq Nat /\ U # {}
      <4>1. \A a \in S : NR_BUFFERS - a \in Nat
        BY BuffersFinite DEF Buf
      <4> QED
        BY <1>6, <4>1
    <3>2. PICK n \in U : \A m \in U : ~(m < n)
      <4> HIDE DEF U
      <4> QED
        BY <3>1, LeastNumber
    <3>3. PICK a \in S : n = NR_BUFFERS - a
      BY <3>2
    <3>4. \A c \in S : ~(NR_BUFFERS - c < NR_BUFFERS - a)
      BY <3>2, <3>3
    <3>5. a # NR_BUFFERS => a + 1 \in S
      BY <1>3, <1>6
    <3> QED
      BY <3>4, <3>5, BuffersFinite DEF Buf
  <2>2. 1 \in S
    BY <1>3, <1>6, <2>1
  <2> DEFINE T == Buf \ S
  <2>3. T = {}
    <3>1. SUFFICES ASSUME T # {} PROVE FALSE
      OBVIOUS
    <3>2. PICK n \in T : \A m \in T : ~(m < n)
      <4>1. T \subseteq Nat
        BY DEF Buf
      <4> HIDE DEF T
      <4> QED
        BY <3>1, <4>1, LeastNumber
    <3>3. n - 1 \in Buf /\ n - 1 \notin T /\ n - 1 # NR_BUFFERS
      BY <2>2, <3>2, BuffersFinite DEF Buf
    <3>4. (n - 1) + 1 \in S
      BY <1>3, <1>6, <3>3
    <3> QED
      BY <3>2, <3>4 DEF Buf
  <2> QED
    BY <2>3
<1> QED
  BY <1>1, <1>2, <1>3, <1>4, <1>5, <1>6 DEF OneCycle

(* The cache starts in the invariant.                                      *)
LEMMA InitInv == Init => Inv
<1> SUFFICES ASSUME Init PROVE Inv
  OBVIOUS
<1>1. TypeOK
  <2>1. 1 \in Buf /\ nextfree \in [Buf -> Buf]
    BY BuffersFinite DEF Init, Buf
  <2>2. Empty \in BufferHead
    BY BuffersFinite DEF Empty, BufferHead
  <2> QED
    BY <2>1, <2>2, BufferAssumption DEF Init, TypeOK, PC
<1>2. Places /\ LockedBlock /\ OneBufferPerBlock /\ HeldHashed /\ VictimAlone
  BY BufferAssumption DEF Init, Places, LockedBlock, OneBufferPerBlock, HeldHashed, VictimAlone, Locked, Empty,
     Holding, Syncing, InGetblk
<1>3. CountsHolders
  <2>1. \A b \in Buf : Holders(b) = {}
    BY DEF Init, Holders, InGetblk
  <2> QED
    BY <2>1, FS_EmptySet DEF Init, CountsHolders, Empty
<1> QED
  BY <1>1, <1>2, <1>3, InitCycle DEF Inv

(* Every step keeps the invariant.                                         *)
LEMMA NextInv == Inv /\ [Next]_vars => Inv'
<1> SUFFICES ASSUME Inv, [Next]_vars PROVE Inv'
  OBVIOUS
<1>1. ASSUME NEW t \in Task, Run(t) PROVE Inv'
  BY <1>1, HitInv, TakeInv, BeatenInv, AssignInv, BrelseInv, WaitInv DEF Run, Getblk
<1>2. ASSUME NEW t \in Task, Change(t) \/ SysSync(t) \/ \E k \in Blk : Get(t, k) PROVE Inv'
  BY <1>2, WaitInv
<1>3. CASE Interrupt
  BY <1>3, DiskInv DEF Interrupt
<1>4. CASE UNCHANGED vars
  <2>1. UNCHANGED <<current, pc, want, bh, scan, buf, hashed, nextfree, free_list, nobuffer, disk,
                    faults, changes, spoilt>>
    BY <1>4 DEF vars, tasks, queues, media, history
  <2>2. TypeOK' /\ Places' /\ LockedBlock'
    BY <2>1 DEF Inv, TypeOK, Places, LockedBlock, Locked
  <2> QED
    BY <2>1, <2>2, NothingTaken DEF Inv, queues, InGetblk
<1> QED
  BY <1>1, <1>2, <1>3, <1>4 DEF Next

(* Counts, identity, held buffers and the free list are right over every   *)
(* sleep inside getblk, for any tasks, blocks and number of buffers        *)
(* (buffer.c:116-136, 148-195).                                            *)
THEOREM CacheConsistent == Spec => []Consistent
<1>1. Inv => Consistent
  <2> SUFFICES ASSUME Inv PROVE Consistent
    OBVIOUS
  <2>1. FreeListWhole
    BY RingIsFree DEF Inv, FreeListWhole, Free
  <2> QED
    BY <2>1 DEF Inv, Consistent, HeldStays, HeldHashed, Holding
<1> QED
  BY <1>1, InitInv, NextInv, PTL DEF Spec

-----------------------------------------------------------------------------
(* A step of one task leaves somebody who will release a buffer, unless    *)
(* that task was the one and goes away.                                    *)
LEMMA ReleasingStays ==
  ASSUME Inv, Places', NobodyStranded, NEW t \in Task,
         \A u \in Task \ {t} : pc'[u] = pc[u] /\ bh'[u] = bh[u],
         nobuffer' = nobuffer,
         Releasing(t) => pc'[t] \notin {"user", "nofree"} /\ (pc'[t] \in Syncing => bh'[t] # NULL)
  PROVE  NobodyStranded'
<1> SUFFICES ASSUME nobuffer # {} PROVE \E u \in Task : Releasing(u)'
  BY DEF NobodyStranded
<1>1. PICK u \in Task : Releasing(u)
  BY DEF NobodyStranded
<1>2. CASE u = t
  BY <1>1, <1>2 DEF Releasing, Places, Syncing
<1>3. CASE u # t
  BY <1>1, <1>3 DEF Releasing
<1> QED
  BY <1>2, <1>3

(* Who has a count in a buffer is on the way to brelse().                  *)
LEMMA HolderReleases ==
  ASSUME Inv, NEW b \in Buf, buf[b].count # 0
  PROVE  \E u \in Task : Releasing(u) /\ pc[u] \notin {"lookup", "walk"}
<1>1. Holders(b) # {}
  BY FS_EmptySet DEF Inv, CountsHolders
<1>2. PICK u \in Task : u \in Holders(b)
  BY <1>1 DEF Holders
<1>3. pc[u] # "nofree" /\ pc[u] # "user" /\ pc[u] \notin {"lookup", "walk"}
      /\ (pc[u] \in {"sync", "wsync"} => bh[u] # NULL)
  BY <1>2 DEF Holders, InGetblk
<1> QED
  BY <1>3 DEF Releasing, Inv, Places

(* A task goes to sleep on buffer_wait only when some buffer has a count,  *)
(* and then that buffer has a holder, who is another task                  *)
(* (buffer.c:163-167).                                                     *)
LEMMA WalkStrandsNobody ==
  ASSUME Inv, Places', NobodyStranded, NEW t \in Task, NEW b, Walk(t, b), pc[t] \in {"lookup", "walk"},
         b = NULL => \E c \in Buf : buf[c].count # 0
  PROVE  NobodyStranded'
<1>1. CASE b # NULL /\ WaitAt(t, "walk", b) /\ UNCHANGED nobuffer
  <2>1. \A u \in Task \ {t} : pc'[u] = pc[u] /\ bh'[u] = bh[u]
    BY <1>1 DEF WaitAt, Inv, TypeOK
  <2>2. pc'[t] = "walk"
    BY <1>1 DEF WaitAt, Inv, TypeOK
  <2> QED
    BY <1>1, <2>1, <2>2, ReleasingStays DEF Syncing
<1>2. CASE b = NULL /\ Sleep(t, "nofree") /\ nobuffer' = nobuffer \union {t} /\ UNCHANGED bh
  <2>1. PICK u \in Task : Releasing(u) /\ pc[u] \notin {"lookup", "walk"}
    BY <1>2, HolderReleases
  <2>2. u # t /\ pc'[u] = pc[u] /\ bh'[u] = bh[u]
    BY <1>2, <2>1 DEF Sleep, Inv, TypeOK
  <2>3. Releasing(u)'
    BY <1>2, <2>1, <2>2 DEF Releasing
  <2> QED
    BY <2>3 DEF NobodyStranded
<1> QED
  BY <1>1, <1>2 DEF Walk

(* No step of a task strands those on buffer_wait: to go away is to call   *)
(* brelse(), which wakes them (buffer.c:204).                              *)
LEMMA RunStrandsNobody ==
  ASSUME Inv, Inv', NobodyStranded, NEW t \in Task,
         Run(t) \/ SysSync(t) \/ \E k \in Blk : Get(t, k)
  PROVE  NobodyStranded'
<1> USE DEF Inv
<1>1. CASE Miss(t)
  <2>1. Unused(free_list) = NULL => \E c \in Buf : buf[c].count # 0
    BY UnusedFacts DEF TypeOK
  <2> QED
    BY <1>1, <2>1, WalkStrandsNobody DEF Miss, RunsAt
<1>2. CASE WalkOn(t)
  <2>1. bh[t] \in Buf /\ buf[bh[t]].count \in Nat
    BY <1>2 DEF WalkOn, Woken, Places, Syncing, TypeOK, BufferHead
  <2> QED
    BY <1>2, <2>1, WalkStrandsNobody DEF WalkOn, Woken
<1>3. CASE Brelse(t)
  BY <1>3 DEF Brelse, Put, NobodyStranded
<1>4. ASSUME NEW i \in Nat, SyncFrom(t, i), pc[t] \in Syncing \/ pc[t] = "user",
             UNCHANGED <<bh, nobuffer>>
      PROVE  NobodyStranded'
  BY <1>4, SyncFromFacts, ReleasingStays DEF Releasing, Syncing
<1>5. CASE SysSync(t)
  BY <1>5, <1>4 DEF SysSync
<1>6. CASE SyncWoken(t)
  <2>1. pc[t] \in Syncing /\ scan[t] \in Nat /\ scan[t] + 1 \in Nat
    BY <1>6 DEF SyncWoken, Syncing, Places, Buf
  <2> QED
    BY <1>6, <1>4, <2>1 DEF SyncWoken
<1>7. CASE SyncVictim(t)
  BY <1>7, <1>4 DEF SyncVictim, RunsAt, Syncing
<1>8. CASE Hit(t)
  BY <1>8, ReleasingStays DEF Hit, WaitAt, TypeOK, Syncing
<1>9. CASE HashWoken(t)
  BY <1>9, ReleasingStays DEF HashWoken, Woken, HeldHashed, Holding, Goto, TypeOK, Syncing
<1>10. CASE NoFreeWoken(t) \/ \E k \in Blk : Get(t, k)
  BY <1>10, ReleasingStays DEF NoFreeWoken, Get, Goto, TypeOK, Syncing
<1>11. CASE Take(t)
  <2>1. bh[t] # NULL
    BY <1>11, BufferAssumption DEF Take, Woken, Places, Syncing, Buf
  <2> QED
    BY <1>11, <2>1, ReleasingStays DEF Take, TypeOK, Syncing
<1>12. CASE Beaten(t)
  BY <1>12, ReleasingStays DEF Beaten, Goto, TypeOK, Syncing
<1>13. CASE Assign(t)
  BY <1>13, ReleasingStays DEF Assign, Goto, TypeOK, Syncing
<1>14. CASE Bread(t) \/ BreadWoken(t)
  BY <1>14, ReleasingStays DEF Bread, BreadWoken, Sleep, TypeOK, Syncing
<1> QED
  BY <1>1, <1>2, <1>3, <1>5, <1>6, <1>7, <1>8, <1>9, <1>10, <1>11, <1>12, <1>13, <1>14
  DEF Run, Getblk

(* Who sleeps on buffer_wait is not left alone (buffer.c:151-167, 185-190, *)
(* 204).                                                                   *)
THEOREM SleeperNotAlone == Spec => []NobodyStranded
<1>1. Init => NobodyStranded
  BY DEF Init, NobodyStranded
<1>2. Inv /\ Inv' /\ NobodyStranded /\ [Next]_vars => NobodyStranded'
  <2> SUFFICES ASSUME Inv, Inv', NobodyStranded, [Next]_vars PROVE NobodyStranded'
    OBVIOUS
  <2>1. ASSUME NEW t \in Task, Run(t) \/ SysSync(t) \/ \E k \in Blk : Get(t, k) PROVE NobodyStranded'
    BY <2>1, RunStrandsNobody
  <2>2. CASE (\E t \in Task : Change(t)) \/ Interrupt
    <3>1. UNCHANGED <<tasks, nobuffer>>
      BY <2>2 DEF Change, Interrupt, Transfer, ReadIntr, WriteIntr, BadRwIntr
    <3> QED
      BY <3>1 DEF tasks, NobodyStranded, Releasing
  <2>3. CASE UNCHANGED vars
    BY <2>3 DEF vars, tasks, NobodyStranded, Releasing
  <2> QED
    BY <2>1, <2>2, <2>3 DEF Next
<1> QED
  BY <1>1, <1>2, InitInv, NextInv, PTL DEF Spec

-----------------------------------------------------------------------------
(* The blocks Coherent is about.                                           *)
Good(k) == k \in Blk \ spoilt

(* What the flags of a buffer say of its data and of the disk: a clean     *)
(* buffer has what the disk has, a dirty one was read or written before; a *)
(* read is under way only into a buffer that is not up to date, a write    *)
(* only from one that is, and what was sent is on the disk.                *)
Fresh(b) ==
  Good(buf[b].blk) =>
    /\ buf[b].uptodate => buf[b].latest
    /\ buf[b].dirt => buf[b].uptodate
    /\ ~buf[b].dirt => buf[b].blk \in disk
    /\ buf[b].lock = "READ" => ~buf[b].uptodate
    /\ buf[b].lock \in {"WRITE", "SENT"} => buf[b].uptodate
    /\ buf[b].lock = "SENT" => buf[b].blk \in disk

(* Who has come back from bread() with a buffer has the data               *)
(* (buffer.c:213-227).                                                     *)
UserFresh(t) == pc[t] = "use" /\ Good(buf[bh[t]].blk) => buf[bh[t]].uptodate

(* A block that is not spoilt is in one buffer, those off the hash queues  *)
(* included.                                                               *)
OneCopy == \A b, c \in Buf : Good(buf[b].blk) /\ buf[b].blk = buf[c].blk => b = c

(* A block that is in no buffer is on the disk.                            *)
Uncached == \A k \in Blk : Good(k) /\ (\A b \in Buf : buf[b].blk # k) => k \in disk

(* A dirty victim has not been passed over by the scan of sync_dev, and is *)
(* written before line 178 (buffer.c:154-158, 49-58).                      *)
Written(t) ==
  InGetblk(t) /\ buf[bh[t]].dirt /\ Good(buf[bh[t]].blk) =>
    /\ pc[t] # "got" /\ scan[t] <= bh[t]
    /\ pc[t] = "wsync" /\ scan[t] = bh[t] => Locked(bh[t])

(* The inductive invariant, together with Inv.                             *)
Current ==
  /\ \A b \in Buf : Fresh(b)
  /\ \A t \in Task : UserFresh(t) /\ Written(t)
  /\ OneCopy /\ Uncached

(* It says more than Coherent.                                             *)
LEMMA CurrentCoherent ==
  ASSUME Inv, Current
  PROVE  Coherent
<1> SUFFICES ASSUME NEW k \in Blk \ spoilt
             PROVE  /\ \A b \in Copies(k) : buf[b].uptodate => buf[b].latest
                    /\ (\A b \in Copies(k) : ~buf[b].dirt) => k \in disk
  BY DEF Coherent
<1>1. \A b \in Copies(k) : b \in Buf /\ Good(buf[b].blk) /\ buf[b].blk = k /\ Fresh(b)
  BY DEF Copies, Good, Current
<1>2. CASE Copies(k) = {}
  BY <1>2 DEF Copies, Current, Uncached, Good
<1> QED
  BY <1>1, <1>2 DEF Fresh

(* A step that changes neither data nor flags nor what is on the disk      *)
(* keeps Current, if the task that steps does not come to use or to skip a *)
(* buffer.                                                                 *)
LEMMA DataStays ==
  ASSUME Inv, Current, NEW t \in Task,
         \A u \in Task \ {t} : pc'[u] = pc[u] /\ bh'[u] = bh[u] /\ scan'[u] = scan[u],
         \A b \in Buf : /\ buf'[b].blk = buf[b].blk /\ buf'[b].uptodate = buf[b].uptodate
                        /\ buf'[b].dirt = buf[b].dirt /\ buf'[b].lock = buf[b].lock
                        /\ buf'[b].latest = buf[b].latest,
         disk' = disk, spoilt' = spoilt,
         UserFresh(t)', Written(t)'
  PROVE  Current'
<1>1. \A k : Good(k)' = Good(k)
  BY DEF Good
<1>2. ASSUME NEW b \in Buf PROVE Fresh(b)'
  BY DEF Fresh, Current, Good
<1>3. ASSUME NEW u \in Task \ {t} PROVE UserFresh(u)' /\ Written(u)'
  <2>1. UserFresh(u)'
    <3>1. pc[u] = "use" => bh[u] \in Buf
      BY DEF Inv, Places, Syncing
    <3> QED
      BY <3>1 DEF UserFresh, Current, Good
  <2>2. Written(u)'
    <3>1. InGetblk(u) => bh[u] \in Buf
      BY DEF Inv, TypeOK, InGetblk
    <3> QED
      BY <3>1 DEF Written, Current, Good, InGetblk, Locked
  <2> QED
    BY <2>1, <2>2
<1>4. OneCopy' /\ Uncached'
  BY DEF OneCopy, Uncached, Current, Good, Buf
<1> QED
  BY <1>2, <1>3, <1>4 DEF Current, Buf

(* Who uses a buffer has it on the hash queues; a victim is off them and   *)
(* nobody else has it.                                                     *)
LEMMA UsersHold ==
  ASSUME Inv, NEW t \in Task
  PROVE  /\ pc[t] = "use" => bh[t] \in hashed /\ bh[t] \in Buf /\ buf[bh[t]].blk \in Blk
         /\ InGetblk(t) => /\ bh[t] \in Buf /\ bh[t] \notin hashed
                           /\ \A u \in Task \ {t} : bh[u] = bh[t] => ~InGetblk(u) /\ pc[u] # "use"
<1>1. pc[t] = "use" => bh[t] \in hashed /\ bh[t] \in Buf /\ buf[bh[t]].blk \in Blk
  BY DEF Inv, Places, Syncing, HeldHashed, Holding
<1>2. InGetblk(t) => bh[t] \in Buf /\ bh[t] \notin hashed /\ Holders(bh[t]) = {t}
  BY DEF Inv, TypeOK, InGetblk, VictimAlone
<1> QED
  BY <1>1, <1>2 DEF Holders

(* What a step of sync_dev or sys_sync does to the data: nothing but to    *)
(* send one dirty buffer to the disk; and it does not come to its end      *)
(* before it has seen a dirty victim that is not behind it.                *)
SyncKeeps(t) ==
  /\ \A u \in Task \ {t} : pc'[u] = pc[u] /\ scan'[u] = scan[u]
  /\ \A b \in Buf : /\ buf'[b].blk = buf[b].blk /\ buf'[b].uptodate = buf[b].uptodate
                    /\ buf'[b].dirt = buf[b].dirt /\ buf'[b].latest = buf[b].latest
                    /\ \/ buf'[b].lock = buf[b].lock
                       \/ buf[b].lock = NULL /\ buf[b].dirt /\ buf'[b].lock = "WRITE"
  /\ pc'[t] # "use"
  /\ InGetblk(t) /\ buf[bh[t]].dirt /\ Good(buf[bh[t]].blk) =>
       /\ pc'[t] # "got" /\ scan'[t] <= bh[t]
       /\ pc'[t] = "wsync" /\ scan'[t] = bh[t] => Locked(bh[t])'

(* So it keeps Current.                                                    *)
LEMMA SyncCurrent ==
  ASSUME Inv, Current, NEW t \in Task, NEW i \in Nat, SyncFrom(t, i),
         UNCHANGED <<bh, media, spoilt>>,
         bh[t] # NULL => InGetblk(t),
         InGetblk(t) /\ buf[bh[t]].dirt /\ Good(buf[bh[t]].blk) => i <= bh[t]
  PROVE  Current'
<1>1. SyncKeeps(t)
  <2>0. pc \in [Task -> PC] /\ scan \in [Task -> Buf \union {0}] /\ buf \in [Buf -> BufferHead]
        /\ \A b \in Buf : buf[b] \in BufferHead
    BY DEF Inv, TypeOK
  <2>1. ASSUME NEW j \in Pending(i), \A k \in Pending(i) : j <= k,
               scan' = [scan EXCEPT ![t] = j],
               IF Locked(j) THEN Sleep(t, "sync") /\ UNCHANGED buf
                            ELSE Sleep(t, "wsync") /\ Submit(j, "WRITE")
        PROVE  SyncKeeps(t)
    <3>1. j \in Buf /\ (Locked(j) \/ buf[j].dirt)
      BY DEF Pending
    <3>2. InGetblk(t) /\ buf[bh[t]].dirt /\ Good(buf[bh[t]].blk) => bh[t] \in Pending(i)
      BY UsersHold, BufferAssumption DEF Pending, Good
    <3>3. /\ pc'[t] \in Syncing /\ \A u \in Task \ {t} : pc'[u] = pc[u] /\ scan'[u] = scan[u]
          /\ scan'[t] = j /\ (pc'[t] = "wsync" => ~Locked(j))
      BY <2>0, <2>1 DEF Sleep, Syncing
    <3>4. CASE Locked(j)
      BY <2>1, <3>1, <3>2, <3>3, <3>4 DEF Syncing, Sleep, SyncKeeps, Locked
    <3>5. CASE ~Locked(j)
      <4>1. buf' = [buf EXCEPT ![j].lock = "WRITE"]
        BY <2>1, <3>5 DEF Submit
      <4>2. \A b \in Buf : /\ buf'[b].blk = buf[b].blk /\ buf'[b].uptodate = buf[b].uptodate
                           /\ buf'[b].dirt = buf[b].dirt /\ buf'[b].latest = buf[b].latest
                           /\ buf'[b].lock = IF b = j THEN "WRITE" ELSE buf[b].lock
        BY <2>0, <3>1, <4>1 DEF BufferHead
      <4> QED
        BY <2>1, <3>1, <3>2, <3>3, <3>5, <4>2, BufferAssumption DEF Syncing, Locked, SyncKeeps
    <3> QED
      BY <3>4, <3>5
  <2>2. ASSUME Pending(i) = {}, scan' = [scan EXCEPT ![t] = 0],
               IF bh[t] = NULL THEN Sleep(t, "user") ELSE Goto(t, "got"),
               UNCHANGED buf
        PROVE  SyncKeeps(t)
    <3>1. ~(InGetblk(t) /\ buf[bh[t]].dirt /\ Good(buf[bh[t]].blk))
      <4>1. InGetblk(t) /\ buf[bh[t]].dirt /\ Good(buf[bh[t]].blk) => bh[t] \in Pending(i)
        BY UsersHold, BufferAssumption DEF Pending, Good
      <4> QED
        BY <2>2, <4>1
    <3>2. pc'[t] \in {"user", "got"} /\ \A u \in Task \ {t} : pc'[u] = pc[u] /\ scan'[u] = scan[u]
      BY <2>0, <2>2 DEF Sleep, Goto
    <3> QED
      BY <2>2, <3>1, <3>2 DEF SyncKeeps
  <2> QED
    BY <2>1, <2>2 DEF SyncFrom
<1>2. disk' = disk /\ spoilt' = spoilt /\ bh' = bh
  BY DEF media
<1>3. \A k : Good(k)' = Good(k)
  BY <1>2 DEF Good
<1>4. ASSUME NEW b \in Buf PROVE Fresh(b)'
  BY <1>1, <1>2, <1>3, BufferAssumption DEF Fresh, Current, SyncKeeps
<1>5. ASSUME NEW u \in Task PROVE UserFresh(u)' /\ Written(u)'
  <2>1. CASE u = t
    <3>1. InGetblk(t)' => InGetblk(t) /\ bh[t] \in Buf
      BY <1>2, UsersHold DEF InGetblk
    <3> QED
      BY <1>1, <1>2, <1>3, <2>1, <3>1 DEF UserFresh, Written, SyncKeeps
  <2>2. CASE u # t
    BY <1>1, <1>2, <1>3, <2>2, UsersHold DEF UserFresh, Written, Current, InGetblk, Locked, SyncKeeps
  <2> QED
    BY <2>1, <2>2
<1>6. OneCopy' /\ Uncached'
  BY <1>1, <1>2, <1>3 DEF OneCopy, Uncached, Current, Buf, SyncKeeps
<1> QED
  BY <1>4, <1>5, <1>6 DEF Current, Buf

(* getblk until the buffer is ours, and brelse, move no data.              *)
LEMMA QuietCurrent ==
  ASSUME Inv, Current, NEW t \in Task,
         \/ \E k \in Blk : Get(t, k)
         \/ Hit(t) \/ HashWoken(t) \/ Miss(t) \/ NoFreeWoken(t) \/ WalkOn(t)
         \/ BreadWoken(t) \/ Brelse(t) \/ Take(t)
  PROVE  Current'
<1> USE DEF Inv, TypeOK
<1>1. ASSUME NEW b, Walk(t, b) PROVE Current'
  BY <1>1, DataStays DEF Walk, WaitAt, Sleep, UserFresh, Written, InGetblk, media, history
<1>2. CASE Miss(t) \/ WalkOn(t)
  BY <1>1, <1>2 DEF Miss, WalkOn
<1>3. CASE (\E k \in Blk : Get(t, k)) \/ NoFreeWoken(t)
  BY <1>3, DataStays DEF Get, NoFreeWoken, Goto, UserFresh, Written, InGetblk, media, history
<1>4. CASE HashWoken(t)
  <2>1. buf[bh[t]].blk = want[t]
    BY <1>4 DEF HashWoken, Woken, HeldHashed, Holding
  <2> QED
    BY <1>4, <2>1, DataStays DEF HashWoken, Goto, UserFresh, Written, InGetblk, media, history
<1>5. ASSUME NEW b \in Buf, NEW n, buf' = [buf EXCEPT ![b].count = n]
      PROVE  \A c \in Buf : /\ buf'[c].blk = buf[c].blk /\ buf'[c].uptodate = buf[c].uptodate
                            /\ buf'[c].dirt = buf[c].dirt /\ buf'[c].lock = buf[c].lock
                            /\ buf'[c].latest = buf[c].latest
  <2>1. \A c \in Buf : buf[c] \in BufferHead
    OBVIOUS
  <2> QED
    BY <1>5, <2>1 DEF BufferHead
<1>6. CASE Hit(t)
  <2>1. PICK b \in FindBuffer(want[t]) : buf' = [buf EXCEPT ![b].count = @ + 1] /\ WaitAt(t, "hash", b)
    BY <1>6 DEF Hit
  <2>2. b \in Buf
    BY DEF FindBuffer
  <2>3. buf' = [buf EXCEPT ![b].count = buf[b].count + 1]
    BY <2>1
  <2> QED
    BY <1>5, <1>6, <2>1, <2>2, <2>3, DataStays DEF Hit, WaitAt, UserFresh, Written, InGetblk, media, history
<1>7. CASE Brelse(t)
  <2>1. bh[t] \in Buf
    BY <1>7 DEF Brelse, Places, Syncing
  <2>2. buf' = [buf EXCEPT ![bh[t]].count = buf[bh[t]].count - 1]
    BY <1>7 DEF Brelse, Put
  <2> QED
    BY <1>5, <1>7, <2>1, <2>2, DataStays DEF Brelse, Sleep, UserFresh, Written, InGetblk, media, history
<1>8. CASE Take(t)
  <2>1. bh[t] \in Buf /\ bh' = bh
    BY <1>8 DEF Take, Woken, Places, Syncing
  <2>2. buf' = [buf EXCEPT ![bh[t]].count = 1]
    BY <1>8 DEF Take
  <2>3. /\ \A u \in Task \ {t} : pc'[u] = pc[u] /\ bh'[u] = bh[u] /\ scan'[u] = scan[u]
        /\ \/ buf[bh[t]].dirt /\ pc'[t] = "sync" /\ scan'[t] = 1
           \/ ~buf[bh[t]].dirt /\ pc'[t] = "got"
        /\ disk' = disk /\ spoilt' = spoilt
    BY <1>8 DEF Take, media, history
  <2>4. UserFresh(t)' /\ Written(t)'
    <3>1. 1 <= bh[t]
      BY <2>1 DEF Buf
    <3> QED
      BY <1>5, <2>1, <2>2, <2>3, <3>1 DEF UserFresh, Written
  <2> QED
    BY <1>5, <2>1, <2>2, <2>3, <2>4, DataStays
<1>9. CASE BreadWoken(t)
  BY <1>9, DataStays DEF BreadWoken, Woken, Sleep, UserFresh, Written, InGetblk, media, history
<1> QED
  BY <1>2, <1>3, <1>4, <1>6, <1>7, <1>8, <1>9

(* A step that changes one buffer and leaves every block in the buffer it  *)
(* is in.                                                                  *)
LEMMA BufferCurrent ==
  ASSUME Inv, Current, NEW b \in Buf,
         UNCHANGED <<bh, scan>>,
         \A t \in Task : InGetblk(t)' => InGetblk(t) /\ pc'[t] = pc[t],
         \A c \in Buf : buf'[c].blk = buf[c].blk,
         \A c \in Buf \ {b} : buf'[c].lock = buf[c].lock /\ buf'[c].dirt = buf[c].dirt,
         spoilt \subseteq spoilt',
         \A k \in Blk : Good(k)' /\ k \in disk => k \in disk' \/ k = buf[b].blk,
         \A c \in Buf : Fresh(c)',
         \A t \in Task : UserFresh(t)',
         Good(buf[b].blk)' /\ buf'[b].dirt =>
           b \in hashed \/ (buf[b].dirt /\ (Locked(b) => Locked(b)'))
  PROVE  Current'
<1>1. \A k : Good(k)' => Good(k)
  BY DEF Good
<1>2. OneCopy' /\ Uncached'
  BY <1>1 DEF OneCopy, Uncached, Current, Good, Buf
<1>3. ASSUME NEW t \in Task PROVE Written(t)'
  BY <1>1, UsersHold DEF Written, Current, Locked
<1> QED
  BY <1>2, <1>3 DEF Current, Buf

(* bread() sends for the data if the buffer has none, and never over newer *)
(* data: a dirty buffer is up to date.                                     *)
LEMMA BreadCurrent ==
  ASSUME Inv, Current, NEW t \in Task, Bread(t)
  PROVE  Current'
<1> USE DEF Inv, TypeOK
<1> DEFINE b == bh[t]
<1>1. b \in Buf /\ b \in hashed /\ pc[t] = "have"
  BY DEF Bread, RunsAt, Places, Syncing, HeldHashed, Holding
<1>2. UNCHANGED <<bh, scan, disk, spoilt>>
  BY DEF Bread, media, history
<1>3. \A u \in Task \ {t} : pc'[u] = pc[u]
  BY DEF Bread, Sleep
<1>4. /\ pc'[t] \in {"use", "read"} /\ (pc'[t] = "use" => buf[b].uptodate)
      /\ \A c \in Buf : /\ buf'[c].blk = buf[c].blk /\ buf'[c].uptodate = buf[c].uptodate
                        /\ buf'[c].dirt = buf[c].dirt /\ buf'[c].latest = buf[c].latest
                        /\ \/ buf'[c].lock = buf[c].lock
                           \/ c = b /\ ~buf[b].uptodate /\ buf'[c].lock = "READ"
  <2>1. CASE buf[b].uptodate
    BY <1>1, <2>1 DEF Bread, Sleep
  <2>2. CASE ~buf[b].uptodate
    <3>1. buf' = [buf EXCEPT ![b].lock = "READ"] /\ pc' = [pc EXCEPT ![t] = "read"]
      BY <2>2 DEF Bread, Submit, Sleep
    <3>2. \A c \in Buf : buf[c] \in BufferHead
      OBVIOUS
    <3> QED
      BY <1>1, <2>2, <3>1, <3>2 DEF BufferHead
  <2> QED
    BY <2>1, <2>2
<1> HIDE DEF b
<1>5. \A c \in Buf : Fresh(c)'
  BY <1>2, <1>4 DEF Fresh, Current, Good
<1>6. ASSUME NEW u \in Task PROVE UserFresh(u)'
  <2>1. CASE u = t
    BY <1>2, <1>4, <2>1, <1>1 DEF UserFresh, b
  <2>2. CASE u # t
    BY <1>2, <1>3, <1>4, <2>2, UsersHold DEF UserFresh, Current, Good
  <2> QED
    BY <2>1, <2>2
<1>7. \A u \in Task : InGetblk(u)' => InGetblk(u) /\ pc'[u] = pc[u]
  BY <1>2, <1>3, <1>4 DEF InGetblk
<1> QED
  BY <1>1, <1>2, <1>4, <1>5, <1>6, <1>7, BufferCurrent DEF Good

(* The caller of bread() makes its buffer the only place with the latest   *)
(* data and marks it dirty; when a write had already taken the data, the   *)
(* end of that write clears the mark, and the block is spoilt.             *)
LEMMA ChangeCurrent ==
  ASSUME Inv, Current, NEW t \in Task, Change(t)
  PROVE  Current'
<1> USE DEF Inv, TypeOK
<1> DEFINE b == bh[t]
           k == buf[b].blk
<1>1. b \in Buf /\ b \in hashed /\ k \in Blk /\ pc[t] = "use"
  BY UsersHold DEF Change
<1>2. UNCHANGED <<pc, bh, scan>> /\ disk' = disk \ {k} /\ spoilt \subseteq spoilt'
      /\ (buf[b].lock = "SENT" => k \in spoilt') /\ \A j : Good(j)' => Good(j)
  <2>1. /\ UNCHANGED tasks /\ disk' = disk \ {k}
        /\ spoilt' = IF buf[b].lock = "SENT" THEN spoilt \union {k} ELSE spoilt
    BY DEF Change
  <2> HIDE DEF b, k
  <2> QED
    BY <2>1 DEF tasks, Good
<1>3. \A c \in Buf : /\ buf'[c].blk = buf[c].blk /\ buf'[c].lock = buf[c].lock
                     /\ buf'[c].uptodate = buf[c].uptodate
                     /\ c = b => buf'[c].dirt /\ buf'[c].latest
                     /\ c # b => buf'[c].dirt = buf[c].dirt
                     /\ c # b /\ buf[c].blk # k => buf'[c].latest = buf[c].latest
  <2>1. buf' = [c \in Buf |-> IF c = b THEN [buf[c] EXCEPT !.dirt = TRUE, !.latest = TRUE]
                              ELSE IF buf[c].blk = k THEN [buf[c] EXCEPT !.latest = FALSE]
                              ELSE buf[c]]
    BY DEF Change
  <2>2. \A c \in Buf : buf[c] \in BufferHead
    OBVIOUS
  <2> HIDE DEF b, k
  <2> QED
    BY <2>1, <2>2 DEF BufferHead
<1>4. ASSUME NEW c \in Buf, Good(buf[c].blk)' PROVE Fresh(c)'
  <2>1. CASE c = b
    BY <1>1, <1>2, <1>3, <1>4, <2>1 DEF Fresh, Current, UserFresh, Good
  <2>2. CASE c # b
    <3>1. buf[c].blk # k
      BY <1>1, <1>2, <1>3, <1>4, <2>2 DEF Current, OneCopy
    <3> QED
      BY <1>2, <1>3, <1>4, <2>2, <3>1 DEF Fresh, Current
  <2> QED
    BY <2>1, <2>2
<1>5. \A c \in Buf : Fresh(c)'
  BY <1>3, <1>4 DEF Fresh
<1>6. \A u \in Task : UserFresh(u)'
  BY <1>2, <1>3, UsersHold DEF UserFresh, Current
<1>7. \A u \in Task : InGetblk(u)' => InGetblk(u) /\ pc'[u] = pc[u]
  BY <1>2 DEF InGetblk
<1> QED
  BY <1>1, <1>2, <1>3, <1>5, <1>6, <1>7, BufferCurrent

(* The disk: a write that was sent is on the disk when its end clears      *)
(* b_dirt, a read brings the latest data as the buffer was clean           *)
(* (hd.c:268-297); a write that is given up spoils the block.              *)
LEMMA DiskCurrent ==
  ASSUME Inv, Current, NEW b \in Buf, Transfer(b) \/ ReadIntr(b) \/ WriteIntr(b) \/ BadRwIntr(b)
  PROVE  Current'
<1> USE DEF Inv, TypeOK
<1>1. buf[b].blk \in Blk /\ buf[b].lock \in {"READ", "WRITE", "SENT"}
      /\ NULL \notin {"READ", "WRITE", "SENT"}
  <2>1. buf[b].lock # NULL /\ buf[b] \in BufferHead
    BY BufferAssumption DEF Transfer, ReadIntr, WriteIntr, BadRwIntr, Locked
  <2> QED
    BY <2>1, BufferAssumption DEF LockedBlock, Locked, BufferHead
<1>2. UNCHANGED <<pc, bh, scan>> /\ spoilt \subseteq spoilt'
  BY DEF Transfer, ReadIntr, WriteIntr, BadRwIntr, tasks, history
<1>3. /\ \A j : Good(j)' => Good(j)
      /\ \A j \in Blk : j # buf[b].blk => (j \in disk' <=> j \in disk) /\ (Good(j)' <=> Good(j))
  BY DEF Transfer, ReadIntr, WriteIntr, BadRwIntr, media, history, Good
<1>4. /\ \A c \in Buf : buf'[c].blk = buf[c].blk
      /\ \A c \in Buf \ {b} : buf'[c] = buf[c]
      /\ \/ /\ buf[b].lock = "WRITE" /\ buf'[b].lock = "SENT" /\ buf'[b].uptodate = buf[b].uptodate
            /\ buf'[b].dirt = buf[b].dirt /\ buf'[b].latest = buf[b].latest
            /\ buf[b].latest => buf[b].blk \in disk'
         \/ /\ buf[b].lock = "READ" /\ buf'[b].lock = NULL /\ buf'[b].uptodate /\ ~buf'[b].dirt
            /\ (buf[b].blk \in disk => buf'[b].latest) /\ disk' = disk
         \/ /\ buf[b].lock = "SENT" /\ buf'[b].lock = NULL /\ buf'[b].uptodate /\ ~buf'[b].dirt
            /\ buf'[b].latest = buf[b].latest /\ disk' = disk
         \/ /\ buf[b].lock = "READ" /\ buf'[b].lock = NULL /\ ~buf'[b].uptodate
            /\ buf'[b].dirt = buf[b].dirt /\ disk' = disk
         \/ ~Good(buf[b].blk)'
  <2>1. buf \in [Buf -> BufferHead] /\ buf[b] \in BufferHead
    OBVIOUS
  <2>2. CASE Transfer(b)
    BY <2>1, <2>2 DEF Transfer, BufferHead
  <2>3. CASE ReadIntr(b)
    <3> DEFINE l == buf[b].blk \in disk
    <3>1. l \in BOOLEAN /\ disk' = disk
      BY <2>3 DEF ReadIntr, media
    <3>2. buf[b].lock = "READ"
          /\ buf' = [buf EXCEPT ![b] = [@ EXCEPT !.lock = NULL, !.uptodate = TRUE, !.dirt = FALSE,
                                                  !.latest = l]]
      BY <2>3 DEF ReadIntr
    <3>3. l <=> buf[b].blk \in disk
      OBVIOUS
    <3> HIDE DEF l
    <3> QED
      BY <2>1, <3>1, <3>2, <3>3 DEF BufferHead
  <2>4. CASE WriteIntr(b)
    BY <2>1, <2>4 DEF WriteIntr, BufferHead, media
  <2>5. CASE BadRwIntr(b)
    <3>1. /\ buf' = [buf EXCEPT ![b] = [@ EXCEPT !.lock = NULL, !.uptodate = FALSE]]
          /\ buf[b].lock = "READ" \/ ~Good(buf[b].blk)'
          /\ disk' = disk
      BY <2>5 DEF BadRwIntr, Good
    <3> QED
      BY <2>1, <3>1 DEF BufferHead
  <2> QED
    BY <2>2, <2>3, <2>4, <2>5
<1>5. Good(buf[b].blk)' => Good(buf[b].blk) /\ Fresh(b) /\ (buf'[b].dirt => buf[b].dirt /\ (Locked(b) => Locked(b)'))
  BY <1>1, <1>3, <1>4 DEF Fresh, Current, Locked
<1>6. ASSUME NEW c \in Buf PROVE Fresh(c)'
  <2>1. CASE c = b
    BY <1>1, <1>4, <1>5, <2>1 DEF Fresh
  <2>2. CASE c # b
    BY <1>1, <1>3, <1>4, <2>2 DEF Fresh, Current, OneCopy, Good
  <2> QED
    BY <2>1, <2>2
<1>7. \A t \in Task : UserFresh(t)'
  BY <1>1, <1>2, <1>3, <1>4, UsersHold DEF UserFresh, Current, Fresh
<1>8. \A t \in Task : InGetblk(t)' => InGetblk(t) /\ pc'[t] = pc[t]
  BY <1>2 DEF InGetblk
<1> QED
  BY <1>1, <1>2, <1>3, <1>4, <1>5, <1>6, <1>7, <1>8, BufferCurrent DEF Good

(* The buffer is given a new block or none at line 189 or 193: what it had *)
(* is on the disk by then, since a dirty one was written at lines 154-158. *)
LEMMA VictimCurrent ==
  ASSUME Inv, Current, NEW t \in Task, RunsAt(t, "got"), NEW k \in Blk \union {NULL},
         LET b == bh[t] IN
         /\ b \in Buf
         /\ \A c \in Buf \ {b} : buf'[c] = buf[c]
         /\ buf'[b].blk = k /\ ~buf'[b].uptodate /\ ~buf'[b].dirt /\ buf'[b].lock = NULL
         /\ spoilt \subseteq spoilt'
         /\ k \in spoilt' \/ \A c \in Buf \ {b} : buf[c].blk # k \/ k = NULL,
         disk' = disk,
         \A u \in Task \ {t} : pc'[u] = pc[u] /\ bh'[u] = bh[u] /\ scan'[u] = scan[u],
         pc'[t] \in {"lookup", "have"}
  PROVE  Current'
<1> DEFINE b == bh[t]
<1>1. /\ b \in Buf
      /\ \A c \in Buf \ {b} : buf'[c] = buf[c]
      /\ buf'[b].blk = k /\ ~buf'[b].uptodate /\ ~buf'[b].dirt /\ buf'[b].lock = NULL
      /\ spoilt \subseteq spoilt'
      /\ k \in spoilt' \/ \A c \in Buf \ {b} : buf[c].blk # k \/ k = NULL
      /\ InGetblk(t) /\ pc[t] = "got"
  BY BufferAssumption DEF RunsAt, InGetblk, Buf
<1>2. /\ \A u \in Task \ {t} : bh[u] = b => ~InGetblk(u) /\ pc[u] # "use"
      /\ Good(buf[b].blk) => ~buf[b].dirt
  BY <1>1, UsersHold DEF Current, Written
<1>3. /\ \A j : Good(j)' => Good(j) /\ j # NULL
      /\ Good(k)' => \A c \in Buf \ {b} : buf[c].blk # k
  BY <1>1, BufferAssumption DEF Good
<1> HIDE DEF b
<1>4. Good(buf[b].blk) => buf[b].blk \in disk
  BY <1>1, <1>2 DEF Current, Fresh
<1>5. Uncached'
  BY <1>1, <1>3, <1>4 DEF Current, Uncached, Good, Buf
<1>6. Good(k)' => k \in disk
  BY <1>1, <1>3, <1>4 DEF Current, Uncached, Good
<1>7. ASSUME NEW c \in Buf PROVE Fresh(c)'
  <2>1. CASE c = b
    BY <1>1, <1>6, <2>1, BufferAssumption DEF Fresh
  <2>2. CASE c # b
    BY <1>1, <1>3, <2>2 DEF Fresh, Current
  <2> QED
    BY <2>1, <2>2
<1>8. OneCopy'
  BY <1>1, <1>3 DEF OneCopy, Current, Buf
<1>9. ASSUME NEW u \in Task PROVE UserFresh(u)' /\ Written(u)'
  <2>1. CASE u = t
    BY <2>1 DEF UserFresh, Written, InGetblk
  <2>2. CASE u # t
    BY <1>1, <1>2, <1>3, <2>2, UsersHold DEF UserFresh, Written, Current, InGetblk, Locked, b
  <2> QED
    BY <2>1, <2>2
<1> QED
  BY <1>5, <1>7, <1>8, <1>9 DEF Current, Buf

(* Every step keeps Current.                                               *)
LEMMA NextCurrent == Inv /\ Current /\ [Next]_vars => Current'
<1> SUFFICES ASSUME Inv, Current, [Next]_vars PROVE Current'
  OBVIOUS
<1> USE DEF Inv, TypeOK
<1>1. ASSUME NEW t \in Task, SysSync(t) PROVE Current'
  <2>1. bh[t] = NULL
    BY <1>1 DEF SysSync, Places
  <2> QED
    BY <1>1, <2>1, SyncCurrent DEF SysSync, InGetblk, history
<1>2. ASSUME NEW t \in Task, SyncVictim(t) PROVE Current'
  BY <1>2, SyncCurrent, UsersHold DEF SyncVictim, RunsAt, InGetblk, history, Buf
<1>3. ASSUME NEW t \in Task, SyncWoken(t) PROVE Current'
  <2>1. pc[t] \in Syncing /\ scan[t] \in Nat /\ scan[t] + 1 \in Nat /\ ~Locked(scan[t])
        /\ UNCHANGED <<bh, media, history>> /\ (bh[t] # NULL => InGetblk(t))
    BY <1>3 DEF SyncWoken, Syncing, Places, Buf, InGetblk
  <2>2. InGetblk(t) /\ buf[bh[t]].dirt /\ Good(buf[bh[t]].blk) =>
          scan[t] <= bh[t] /\ (pc[t] = "wsync" /\ scan[t] = bh[t] => Locked(bh[t]))
          /\ bh[t] \in Nat
    BY UsersHold DEF Current, Written, Buf
  <2>3. CASE pc[t] = "sync" /\ SyncFrom(t, scan[t])
    BY <2>1, <2>2, <2>3, SyncCurrent DEF history
  <2>4. CASE pc[t] = "wsync" /\ SyncFrom(t, scan[t] + 1)
    <3>1. InGetblk(t) /\ buf[bh[t]].dirt /\ Good(buf[bh[t]].blk) => scan[t] + 1 <= bh[t]
      BY <2>1, <2>2, <2>4
    <3> QED
      BY <2>1, <2>4, <3>1, SyncCurrent DEF history
  <2> QED
    BY <1>3, <2>3, <2>4 DEF SyncWoken
<1>4. ASSUME NEW t \in Task, Beaten(t) PROVE Current'
  <2>1. pc[t] = "got" /\ bh[t] \in Buf
    BY <1>4 DEF Beaten, RunsAt, Places, Syncing
  <2>2. /\ buf' = [buf EXCEPT ![bh[t]] = Empty] /\ disk' = disk /\ spoilt' = spoilt
        /\ \A u \in Task \ {t} : pc'[u] = pc[u] /\ bh'[u] = bh[u] /\ scan'[u] = scan[u]
        /\ pc'[t] = "lookup"
    BY <1>4 DEF Beaten, Goto, media, history
  <2>3. buf'[bh[t]] = Empty /\ \A c \in Buf \ {bh[t]} : buf'[c] = buf[c]
    BY <2>1, <2>2
  <2> QED
    BY <1>4, <2>1, <2>2, <2>3, VictimCurrent DEF Beaten, Empty
<1>5. ASSUME NEW t \in Task, Assign(t) PROVE Current'
  <2>1. pc[t] = "got" /\ bh[t] \in Buf /\ want[t] \in Blk /\ want[t] # NULL
    BY <1>5, BufferAssumption DEF Assign, RunsAt, Places, Syncing
  <2> DEFINE e == [Empty EXCEPT !.blk = want[t], !.count = 1]
  <2>2. /\ buf' = [buf EXCEPT ![bh[t]] = e] /\ disk' = disk
        /\ spoilt' = spoilt \union {k \in {want[t]} : Locked(bh[t]) \/ \E c \in Buf \ {bh[t]} : buf[c].blk = k}
        /\ \A u \in Task \ {t} : pc'[u] = pc[u] /\ bh'[u] = bh[u] /\ scan'[u] = scan[u]
        /\ pc'[t] = "have"
    BY <1>5 DEF Assign, Goto, media
  <2>3. ~e.uptodate /\ ~e.dirt /\ e.lock = NULL /\ e.blk = want[t]
    BY DEF Empty
  <2> HIDE DEF e
  <2>4. buf'[bh[t]] = e /\ \A c \in Buf \ {bh[t]} : buf'[c] = buf[c]
    BY <2>1, <2>2
  <2>5. spoilt \subseteq spoilt' /\ (want[t] \in spoilt' \/ \A c \in Buf \ {bh[t]} : buf[c].blk # want[t])
    BY <2>1, <2>2
  <2> QED
    BY <1>5, <2>1, <2>2, <2>3, <2>4, <2>5, VictimCurrent DEF Assign
<1>6. CASE UNCHANGED vars
  <2>1. UNCHANGED <<pc, bh, scan, buf, disk, spoilt>>
    BY <1>6 DEF vars, tasks, media, history
  <2> QED
    BY <2>1 DEF Current, Fresh, UserFresh, Written, OneCopy, Uncached, Good, InGetblk, Locked
<1> QED
  BY <1>1, <1>2, <1>3, <1>4, <1>5, <1>6, QuietCurrent, BreadCurrent, ChangeCurrent, DiskCurrent
  DEF Next, Run, Getblk, Interrupt

(* A block that neither race nor failed write happened to is coherent: its *)
(* buffer has what was written last, and a clean buffer, or none, means    *)
(* that the disk has (buffer.c:2-4, 154-181; hd.c:271-272, 291-292).       *)
THEOREM CacheCoherent == Spec => []Coherent
<1>1. Init => Current
  BY BufferAssumption DEF Init, Current, Fresh, UserFresh, Written, OneCopy, Uncached, Good, Empty, InGetblk
<1> QED
  BY <1>1, InitInv, NextInv, NextCurrent, CurrentCoherent, PTL DEF Spec
=============================================================================
