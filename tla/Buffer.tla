-------------------------------- MODULE Buffer --------------------------------
(***************************************************************************)
(* The buffer cache, fs/buffer.c: getblk(), bread(), brelse() and sync.     *)
(*                                                                          *)
(* A task in the kernel runs until it sleeps, so one action is the code     *)
(* between two places where it can: on a locked buffer, for its own read or *)
(* write, for a free buffer.  Sleeping is a guard here: wake_up releases    *)
(* all who wait (WaitSet.tla).  The disk driver locks a buffer until the    *)
(* disk is done with it (Hd.tla).                                           *)
(*                                                                          *)
(* One device.  Of the data only this is kept: is it what was last written  *)
(* to the block.                                                            *)
(***************************************************************************)
EXTENDS Naturals, FiniteSets, FiniteSetsExt

CONSTANTS
  Task,
  NR_BUFFERS,
  Blk,        \* the blocks in use; NULL is the block of an unused buffer
  MaxChanges, \* bound: how often buffers are changed
  MaxFaults,  \* bound: how many transfers fail
  NULL

(* Every task may have one buffer off the free list, and the list is never   *)
(* empty.                                                                    *)
ASSUME BufferAssumption ==
  /\ IsFiniteSet(Task) /\ NR_BUFFERS \in Nat /\ NR_BUFFERS > Cardinality(Task)
  /\ MaxChanges \in Nat /\ MaxFaults \in Nat
  /\ NULL \notin Task \union Blk \union Nat /\ NULL \notin {"READ", "WRITE", "SENT"}

VARIABLES
  current,    \* the task running in the cache, NULL: none is
  pc,         \* where each task is
  want,       \* the block it asked for
  bh,         \* the buffer it holds or looks at, NULL in sys_sync
  scan,       \* the buffer its sync_dev or sys_sync is at
  buf,        \* the buffer heads
  hashed,     \* the buffers on the hash queues
  nextfree,   \* b_next_free
  free_list,
  nobuffer,   \* the tasks asleep on buffer_wait
  disk,       \* the blocks of which the disk has the latest data
  faults,     \* how many transfers failed
  changes,    \* how many changes were made
  spoilt      \* history: the blocks a race or a failed write happened to

tasks == <<current, pc, want, bh, scan>>
queues == <<hashed, nextfree, free_list>>
media == <<disk, faults>>
history == <<changes, spoilt>>
vars == <<tasks, buf, queues, nobuffer, media, history>>

Buf == 1 .. NR_BUFFERS

(* "user": not in the cache; "lookup": getblk line 148; "hash", "walk":      *)
(* waits for the buffer it found, for one of the free list; "nofree": on     *)
(* buffer_wait; "got": line 178; "have": getblk returned; "read": waits in   *)
(* bread; "use": bread returned; "release": in brelse; "sync", "wsync": in   *)
(* sync_dev or sys_sync, waits for a buffer, for its own write.              *)
PC == {"user", "lookup", "hash", "walk", "nofree", "got", "have", "read", "use", "release",
       "sync", "wsync"}

(* lock: b_lock and what the disk does; "SENT" is a write whose data has     *)
(* left the buffer.  latest: the buffer has the latest data of its block.    *)
BufferHead ==
  [blk : Blk \union {NULL}, count : 0 .. Cardinality(Task), dirt : BOOLEAN,
   uptodate : BOOLEAN, lock : {NULL, "READ", "WRITE", "SENT"}, latest : BOOLEAN]

TypeOK ==
  /\ current \in Task \union {NULL}
  /\ pc \in [Task -> PC]
  /\ want \in [Task -> Blk \union {NULL}]
  /\ bh \in [Task -> Buf \union {NULL}]
  /\ scan \in [Task -> Buf \union {0}]
  /\ buf \in [Buf -> BufferHead]
  /\ hashed \subseteq Buf
  /\ nextfree \in [Buf -> Buf] /\ free_list \in Buf
  /\ nobuffer \subseteq Task
  /\ disk \subseteq Blk /\ faults \in 0 .. MaxFaults
  /\ changes \in 0 .. MaxChanges /\ spoilt \subseteq Blk

Empty ==
  [blk |-> NULL, count |-> 0, dirt |-> FALSE, uptodate |-> FALSE, lock |-> NULL, latest |-> FALSE]

Init ==
  /\ current = NULL
  /\ pc = [t \in Task |-> "user"]
  /\ want = [t \in Task |-> NULL]
  /\ bh = [t \in Task |-> NULL]
  /\ scan = [t \in Task |-> 0]
  /\ buf = [b \in Buf |-> Empty]
  /\ hashed = {}
  /\ nextfree = [b \in Buf |-> IF b = NR_BUFFERS THEN 1 ELSE b + 1]
  /\ free_list = 1
  /\ nobuffer = {}
  /\ disk = Blk /\ faults = 0
  /\ changes = 0 /\ spoilt = {}
-----------------------------------------------------------------------------
Locked(b) == buf[b].lock # NULL

\* t goes on at p; it keeps the processor until it sleeps.
Goto(t, p) == pc' = [pc EXCEPT ![t] = p] /\ current' = t
Sleep(t, p) == pc' = [pc EXCEPT ![t] = p] /\ current' = NULL

\* wait_on_buffer(): t goes on at p, at once or when b is unlocked.
WaitAt(t, p, b) ==
  /\ bh' = [bh EXCEPT ![t] = b]
  /\ pc' = [pc EXCEPT ![t] = p]
  /\ current' = IF Locked(b) THEN NULL ELSE t

RunsAt(t, p) == current = t /\ pc[t] = p
Woken(t, p) == current \in {t, NULL} /\ pc[t] = p /\ ~Locked(bh[t])

\* ll_rw_block(): the driver locks the buffer and the task sleeps until it is done.
Submit(b, rw) == buf' = [buf EXCEPT ![b].lock = rw]

\* Mutant: wake_up(&buffer_wait) is missing.
PutSilently(b) ==
  /\ buf' = [buf EXCEPT ![b].count = @ - 1]
  /\ UNCHANGED nobuffer

\* brelse() of an unlocked buffer.
Put(b) ==
  /\ buf' = [buf EXCEPT ![b].count = @ - 1]
  /\ nobuffer' = {}
-----------------------------------------------------------------------------
(* The queues: a ring through the free buffers and a hash table; a buffer    *)
(* that was taken off the ring keeps its pointer.                            *)
WalkFrom(b) ==
  LET from[n \in 0 .. 2 * NR_BUFFERS] == IF n = 0 THEN b ELSE nextfree[from[n - 1]] IN from

Ring == {WalkFrom(free_list)[n] : n \in 0 .. 2 * NR_BUFFERS}

Prev(b) == CHOOSE a \in Ring : nextfree[a] = b

RemoveFromQueues(b) ==
  /\ hashed' = hashed \ {b}
  /\ nextfree' = [nextfree EXCEPT ![Prev(b)] = nextfree[b]]
  /\ free_list' = IF free_list = b THEN nextfree[b] ELSE free_list

\* At the end of the free list; on the hash queue if it has a block.
InsertIntoQueues(b, k) ==
  /\ hashed' = IF k = NULL THEN hashed ELSE hashed \union {b}
  /\ nextfree' = [nextfree EXCEPT ![Prev(free_list)] = b, ![b] = free_list]
  /\ UNCHANGED free_list

FindBuffer(k) == {b \in hashed : buf[b].blk = k}

\* The first unused buffer from b on, NULL when the walk comes round to free_list.
Unused(b) ==
  LET walk == WalkFrom(b)
      ends == {n \in 0 .. 2 * NR_BUFFERS : buf[walk[n]].count = 0 \/ nextfree[walk[n]] = free_list}
      last == walk[Min(ends)]
  IN  IF ends = {} \/ buf[last].count > 0 THEN NULL ELSE last

UnusedAfter(b) == IF nextfree[b] = free_list THEN NULL ELSE Unused(nextfree[b])
-----------------------------------------------------------------------------
(* getblk().                                                                 *)
Get(t, k) ==
  /\ current = NULL
  /\ pc[t] = "user"
  /\ want' = [want EXCEPT ![t] = k]
  /\ Goto(t, "lookup")
  /\ UNCHANGED <<bh, scan, buf, queues, nobuffer, media, history>>

\* get_hash_table(): the buffer is ours before we wait for it.
Hit(t) ==
  /\ RunsAt(t, "lookup")
  /\ \E b \in FindBuffer(want[t]) :
       /\ buf' = [buf EXCEPT ![b].count = @ + 1]
       /\ WaitAt(t, "hash", b)
  /\ UNCHANGED <<want, scan, queues, nobuffer, media, history>>

HashWoken(t) ==
  /\ Woken(t, "hash")
  /\ IF buf[bh[t]].blk = want[t]
     THEN Goto(t, "have") /\ UNCHANGED <<buf, nobuffer>>
     ELSE Goto(t, "lookup") /\ Put(bh[t])
  /\ UNCHANGED <<want, bh, scan, queues, media, history>>

\* The walk over the free list goes to b, or there is none and t sleeps.
Walk(t, b) ==
  /\ \/ b # NULL /\ WaitAt(t, "walk", b) /\ UNCHANGED nobuffer
     \/ b = NULL /\ Sleep(t, "nofree") /\ nobuffer' = nobuffer \union {t} /\ UNCHANGED bh
  /\ UNCHANGED <<want, scan, buf, queues, media, history>>

Miss(t) == RunsAt(t, "lookup") /\ FindBuffer(want[t]) = {} /\ Walk(t, Unused(free_list))

NoFreeWoken(t) ==
  /\ current = NULL
  /\ pc[t] = "nofree" /\ t \notin nobuffer
  /\ Goto(t, "lookup")
  /\ UNCHANGED <<want, bh, scan, buf, queues, nobuffer, media, history>>

\* Somebody took the buffer while we waited for it.
WalkOn(t) == Woken(t, "walk") /\ buf[bh[t]].count > 0 /\ Walk(t, UnusedAfter(bh[t]))
-----------------------------------------------------------------------------
(* sync_dev() and sys_sync(): every dirty buffer is written and waited for.  *)
Pending(i) == {j \in Buf : j >= i /\ buf[j].blk # NULL /\ (Locked(j) \/ buf[j].dirt)}

SyncFrom(t, i) ==
  \/ \E j \in Pending(i) :
       /\ \A k \in Pending(i) : j <= k
       /\ scan' = [scan EXCEPT ![t] = j]
       /\ IF Locked(j) THEN Sleep(t, "sync") /\ UNCHANGED buf
                       ELSE Sleep(t, "wsync") /\ Submit(j, "WRITE")
  \/ /\ Pending(i) = {}
     /\ scan' = [scan EXCEPT ![t] = 0]
     /\ IF bh[t] = NULL THEN Sleep(t, "user") ELSE Goto(t, "got")
     /\ UNCHANGED buf

SysSync(t) ==
  /\ current = NULL
  /\ pc[t] = "user"
  /\ SyncFrom(t, 1)
  /\ UNCHANGED <<want, bh, queues, nobuffer, media, history>>

SyncWoken(t) ==
  /\ current = NULL
  /\ \/ pc[t] = "sync" /\ ~Locked(scan[t]) /\ SyncFrom(t, scan[t])
     \/ pc[t] = "wsync" /\ ~Locked(scan[t]) /\ SyncFrom(t, scan[t] + 1)
  /\ UNCHANGED <<want, bh, queues, nobuffer, media, history>>
-----------------------------------------------------------------------------
\* Mutant: a dirty buffer is not written first.
TakeDirty(t) ==
  LET b == bh[t] IN
  /\ Woken(t, "walk")
  /\ buf[b].count = 0
  /\ buf' = [buf EXCEPT ![b].count = 1]
  /\ RemoveFromQueues(b)
  /\ Goto(t, "got")
  /\ UNCHANGED <<want, bh, scan, nobuffer, media, history>>

(* Line 168: the buffer is ours.  A dirty one is off the queues while        *)
(* sync_dev sleeps; line 178: it becomes the buffer of another block.        *)
Take(t) ==
  LET b == bh[t] IN
  /\ Woken(t, "walk")
  /\ buf[b].count = 0
  /\ buf' = [buf EXCEPT ![b].count = 1]
  /\ RemoveFromQueues(b)
  /\ IF buf[b].dirt THEN pc' = [pc EXCEPT ![t] = "sync"] /\ scan' = [scan EXCEPT ![t] = 1]
                    ELSE pc' = [pc EXCEPT ![t] = "got"] /\ UNCHANGED scan
  /\ current' = t
  /\ UNCHANGED <<want, bh, nobuffer, media, history>>

SyncVictim(t) ==
  /\ RunsAt(t, "sync")
  /\ SyncFrom(t, 1)
  /\ UNCHANGED <<want, bh, queues, nobuffer, media, history>>

Beaten(t) ==
  LET b == bh[t] IN
  /\ RunsAt(t, "got")
  /\ FindBuffer(want[t]) # {}
  /\ buf' = [buf EXCEPT ![b] = Empty]
  /\ InsertIntoQueues(b, NULL)
  /\ bh' = [bh EXCEPT ![t] = NULL]
  /\ Goto(t, "lookup")
  /\ UNCHANGED <<want, scan, nobuffer, media, history>>

\* Mutant: nobody looks whether the block came into the cache meanwhile.
AssignAnyway(t) ==
  LET b == bh[t] IN
  /\ RunsAt(t, "got")
  /\ buf' = [buf EXCEPT ![b] = [Empty EXCEPT !.blk = want[t], !.count = 1]]
  /\ InsertIntoQueues(b, want[t])
  /\ spoilt' = spoilt \union {k \in {want[t]} : \E c \in Buf \ {b} : buf[c].blk = k}
  /\ Goto(t, "have")
  /\ UNCHANGED <<want, bh, scan, nobuffer, media, changes>>

(* The block is spoilt when a buffer off the queues still has a copy of it,  *)
(* or when this buffer is still locked: a write that failed was begun again  *)
(* by another sync, and its end unlocks the buffer under the next read       *)
(* ("buffer multiply locked", hd.c:86).  The model ends that write here.     *)
Assign(t) ==
  LET b == bh[t] IN
  /\ RunsAt(t, "got")
  /\ FindBuffer(want[t]) = {}
  /\ buf' = [buf EXCEPT ![b] = [Empty EXCEPT !.blk = want[t], !.count = 1]]
  /\ InsertIntoQueues(b, want[t])
  /\ spoilt' = spoilt \union {k \in {want[t]} : Locked(b) \/ \E c \in Buf \ {b} : buf[c].blk = k}
  /\ Goto(t, "have")
  /\ UNCHANGED <<want, bh, scan, nobuffer, media, changes>>
-----------------------------------------------------------------------------
(* bread(), what its callers do, brelse().                                   *)
Bread(t) ==
  /\ RunsAt(t, "have")
  /\ IF buf[bh[t]].uptodate THEN Sleep(t, "use") /\ UNCHANGED buf
                            ELSE Sleep(t, "read") /\ Submit(bh[t], "READ")
  /\ UNCHANGED <<want, bh, scan, queues, nobuffer, media, history>>

BreadWoken(t) ==
  /\ Woken(t, "read")
  /\ Sleep(t, IF buf[bh[t]].uptodate THEN "use" ELSE "release")
  /\ UNCHANGED <<want, bh, scan, buf, queues, nobuffer, media, history>>

\* The caller writes into the buffer; nothing makes it wait for a write in progress.
Change(t) ==
  LET b == bh[t]  k == buf[b].blk IN
  /\ current = NULL
  /\ pc[t] = "use"
  /\ changes < MaxChanges /\ changes' = changes + 1
  /\ buf' = [c \in Buf |-> IF c = b THEN [buf[c] EXCEPT !.dirt = TRUE, !.latest = TRUE]
                          ELSE IF buf[c].blk = k THEN [buf[c] EXCEPT !.latest = FALSE]
                          ELSE buf[c]]
  /\ disk' = disk \ {k}
  /\ spoilt' = IF buf[b].lock = "SENT" THEN spoilt \union {k} ELSE spoilt
  /\ UNCHANGED <<tasks, queues, nobuffer, faults>>

Brelse(t) ==
  /\ current = NULL
  /\ pc[t] \in {"use", "release"}
  /\ ~Locked(bh[t])
  /\ Put(bh[t])
  /\ bh' = [bh EXCEPT ![t] = NULL]
  /\ want' = [want EXCEPT ![t] = NULL]
  /\ Sleep(t, "user")
  /\ UNCHANGED <<scan, queues, media, history>>
-----------------------------------------------------------------------------
(* The disk (Hd.tla): a write takes the data out of the buffer and ends      *)
(* later; the interrupt that ends it clears b_dirt.                          *)
Transfer(b) ==
  /\ buf[b].lock = "WRITE"
  /\ buf' = [buf EXCEPT ![b].lock = "SENT"]
  /\ disk' = IF buf[b].latest THEN disk \union {buf[b].blk} ELSE disk \ {buf[b].blk}
  /\ UNCHANGED <<tasks, queues, nobuffer, faults, history>>

ReadIntr(b) ==
  /\ buf[b].lock = "READ"
  /\ buf' = [buf EXCEPT ![b] = [@ EXCEPT !.lock = NULL, !.uptodate = TRUE, !.dirt = FALSE,
                                          !.latest = buf[b].blk \in disk]]
  /\ UNCHANGED <<tasks, queues, nobuffer, media, history>>

WriteIntr(b) ==
  /\ buf[b].lock = "SENT"
  /\ buf' = [buf EXCEPT ![b] = [@ EXCEPT !.lock = NULL, !.uptodate = TRUE, !.dirt = FALSE]]
  /\ UNCHANGED <<tasks, queues, nobuffer, media, history>>

BadRwIntr(b) ==
  /\ Locked(b) /\ faults < MaxFaults
  /\ faults' = faults + 1
  /\ buf' = [buf EXCEPT ![b] = [@ EXCEPT !.lock = NULL, !.uptodate = FALSE]]
  /\ spoilt' = IF buf[b].lock = "READ" THEN spoilt ELSE spoilt \union {buf[b].blk}
  /\ UNCHANGED <<tasks, queues, nobuffer, disk, changes>>

Interrupt == \E b \in Buf : Transfer(b) \/ ReadIntr(b) \/ WriteIntr(b) \/ BadRwIntr(b)
-----------------------------------------------------------------------------
Getblk(t) ==
  \/ Hit(t) \/ HashWoken(t) \/ Miss(t) \/ NoFreeWoken(t) \/ WalkOn(t)
  \/ Take(t) \/ SyncVictim(t) \/ SyncWoken(t) \/ Beaten(t) \/ Assign(t)

Run(t) == Getblk(t) \/ Bread(t) \/ BreadWoken(t) \/ Brelse(t)

Next ==
  \/ \E t \in Task : Run(t) \/ Change(t) \/ SysSync(t) \/ \E k \in Blk : Get(t, k)
  \/ Interrupt

Spec == Init /\ [][Next]_vars

(* Fairness: the disk answers (Hd.tla), a task that can run does, and who    *)
(* has a buffer gives it back.                                               *)
FairSpec ==
  /\ Spec
  /\ \A b \in Buf : WF_vars(Transfer(b) \/ ReadIntr(b) \/ WriteIntr(b))
  /\ \A t \in Task : SF_vars(Run(t))
-----------------------------------------------------------------------------
InGetblk(t) == pc[t] \in {"got", "sync", "wsync"} /\ bh[t] # NULL
Removed == {bh[t] : t \in {u \in Task : InGetblk(u)}}
Holders(b) ==
  {t \in Task : bh[t] = b /\ (InGetblk(t) \/ pc[t] \in {"hash", "have", "read", "use", "release"})}

(* A buffer counts its holders, so none is free while it is held and no      *)
(* "free free buffer" is freed (buffer.c:130-134, 168, 188, 202).            *)
CountsHolders == \A b \in Buf : buf[b].count = Cardinality(Holders(b))

(* A block has one buffer on the hash queues, however many tasks asked for   *)
(* it at once and slept over their search (buffer.c:182-191).                *)
OneBufferPerBlock ==
  \A b, c \in hashed : buf[b].blk = buf[c].blk => b = c

(* Who holds a buffer keeps his block in it: it is not taken, not            *)
(* reassigned and not off the queues while he sleeps (buffer.c:116-136).     *)
HeldStays ==
  \A t \in Task : pc[t] \in {"have", "read", "use", "release"} =>
    bh[t] \in hashed /\ buf[bh[t]].blk = want[t]

(* The free list goes round through all buffers but those that a getblk in   *)
(* sync_dev has taken off (buffer.c:71-104, 151-160, 169, 189, 193).         *)
FreeListWhole == Ring = Buf \ Removed

(* The cache stays consistent over every sleep inside getblk: counts,        *)
(* identity, what is held and the free list, as stated above.                *)
Consistent == TypeOK /\ CountsHolders /\ OneBufferPerBlock /\ HeldStays /\ FreeListWhole

(* A block that neither race happened to is coherent: its buffer has what    *)
(* was written last, and a clean buffer, or none, means that the disk has    *)
(* (buffer.c:2-4, 154-181; hd.c:271-272, 291-292).                           *)
Copies(k) == {b \in Buf : buf[b].blk = k}

Coherent ==
  \A k \in Blk \ spoilt :
    /\ \A b \in Copies(k) : buf[b].uptodate => buf[b].latest
    /\ (\A b \in Copies(k) : ~buf[b].dirt) => k \in disk

(* Who sleeps on buffer_wait is not left alone: somebody is in the cache who *)
(* will release a buffer and wake him (buffer.c:151-167, 185-190, 204).      *)
Releasing(u) == pc[u] # "user" /\ u \notin nobuffer /\ (pc[u] \in {"sync", "wsync"} => bh[u] # NULL)

NobodyStranded == nobuffer # {} => \E u \in Task : Releasing(u)
=============================================================================
