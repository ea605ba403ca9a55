------------------------------- MODULE FileData -------------------------------
(***************************************************************************)
(* The bytes of one regular file: fs/file_dev.c and lseek above, _bmap() of *)
(* fs/inode.c in the middle, truncate() and new_block() below.              *)
(*                                                                          *)
(* The blocks of a file are found through the zones of its inode: the first *)
(* NDirect are blocks of data, one more is a block of block numbers, the    *)
(* last a block of those.  Where nothing was written there is no block.     *)
(*                                                                          *)
(* The task in the kernel is current and runs until it sleeps, in bread()   *)
(* or in the getblk() of new_block(); both may also return at once.  The    *)
(* cache is coherent (Buffer.tla), so a block has one content; who sleeps   *)
(* in bread() has the buffer already.  free_block() does not sleep here.    *)
(*                                                                          *)
(* Bytes and block numbers are both numbers, as in a buffer.                *)
(***************************************************************************)
EXTENDS Naturals, Sequences, FiniteSets, FiniteSetsExt, SequencesExt

CONSTANTS
  Task,
  File,       \* struct files that are open on the one inode
  Appending,  \* those opened with O_APPEND
  Data,       \* the bytes each task writes
  NrBlocks,   \* data zones of the device
  NDirect,    \* 7
  BLOCK_SIZE, \* bytes in a block, 1024
  Fan,        \* block numbers in a block, 512
  Counts, Seeks,  \* bounds: how much is read and written, where to lseek goes
  MaxCalls, MaxFaults,  \* bounds: system calls made, transfers that fail
  NULL

Blk == 1 .. NrBlocks
MaxBlock == NDirect + Fan + Fan * Fan

ASSUME FileDataAssumption ==
  /\ NDirect \in Nat \ {0} /\ BLOCK_SIZE \in Nat \ {0} /\ Fan \in 1 .. BLOCK_SIZE
  /\ Appending \subseteq File /\ NULL \notin Task
  /\ Counts \subseteq Nat
  /\ \A t \in Task : Data[t] \in Seq(Blk) /\ \A n \in Counts : n <= Len(Data[t])
  /\ MaxCalls \in Nat /\ MaxFaults \in Nat
  \* What lies behind the last block a file can have is not written (inode.c:56).
  /\ \A p \in Seeks : p \in Nat /\ \A n \in Counts : p + MaxCalls * n <= MaxBlock * BLOCK_SIZE

VARIABLES
  zone, size,  \* i_zone and i_size of the inode
  block,       \* what the data zones contain
  zmap,        \* s_zmap, the zones in use
  f_pos,
  current,     \* the task running in the kernel, NULL: none is
  call,        \* where each task is, with its local variables
  calls, faults,  \* how many calls were made, how many transfers failed
  lost,        \* history: marked blocks that truncate() left behind
  panic,
  orderly      \* fixed: who shares the file in which way, see SysLseek

inode == <<zone, size>>
bounds == <<calls, faults>>
vars == <<inode, block, zmap, f_pos, current, call, bounds, lost, panic, orderly>>

Within == 0 .. BLOCK_SIZE - 1
Empty == [i \in Within |-> 0]

(* "walk": in _bmap() at a block of numbers, or the inode, with the indices  *)
(* that are left; "new": in the getblk() of new_block(); "io": in bread();   *)
(* "copy": has the block, or found there is none; "end": after the loop;     *)
(* "cut": in truncate().                                                     *)
Idle == [op |-> "none", pc |-> "user", file |-> CHOOSE f \in File : TRUE, pos |-> 0, left |-> 0,
         done |-> 0, buf |-> <<>>, node |-> 0, path |-> <<>>, nr |-> 0, todo |-> <<>>]

\* The file has been made and opened, and lseek called.
Init ==
  /\ zone = [i \in 0 .. NDirect + 1 |-> 0] /\ size = 0
  /\ block = [b \in Blk |-> Empty] /\ zmap = {}
  /\ \E p \in Seeks : f_pos = [f \in File |-> p]
  /\ current = NULL /\ call = [t \in Task |-> Idle]
  /\ calls = 0 /\ faults = 0 /\ lost = {} /\ panic = FALSE
  /\ orderly \in BOOLEAN
-----------------------------------------------------------------------------
\* The inode is the node 0; the indices by which _bmap() finds block i.
Entry(n, i) == IF n = 0 THEN zone[i] ELSE block[n][i]
Path(i) ==
  LET j == i - NDirect
      k == j - Fan
  IN  IF i < NDirect THEN <<i>>
      ELSE IF j < Fan THEN <<NDirect, j>> ELSE <<NDirect + 1, k \div Fan, k % Fan>>

\* The number of block i of the file, 0 when it has none.
Lookup(i) ==
  LET p == Path(i)
      down[k \in 1 .. Len(p)] ==
        IF k = 1 THEN zone[p[1]] ELSE IF down[k - 1] = 0 THEN 0 ELSE block[down[k - 1]][p[k]]
  IN  down[Len(p)]

At(t, pc) == ~panic /\ current = t /\ call[t].pc = pc
Asleep(t, pc) == ~panic /\ current \in {NULL, t} /\ call[t].pc = pc
Becomes(t, c) == call' = [call EXCEPT ![t] = c]
\* A call that may sleep, or go on at once.
MaySleep(t) == current' \in {NULL, t}

\* Mutant: f_pos is set after an append, too.
EndWithAnyway(t, c) ==
  /\ Becomes(t, Idle) /\ current' = NULL
  /\ f_pos' = IF c.op = "write" THEN [f_pos EXCEPT ![c.file] = c.pos] ELSE f_pos

\* f_pos of a write is set when it is over, whatever ended it.
EndWith(t, c) ==
  /\ Becomes(t, Idle) /\ current' = NULL
  /\ f_pos' = IF c.op = "write" /\ c.file \notin Appending
              THEN [f_pos EXCEPT ![c.file] = c.pos] ELSE f_pos

\* The loop of file_read() and file_write(): to the block at position p, if anything is left.
Walking(c, p) ==
  IF c.left = 0 THEN [c EXCEPT !.pc = "end"]
  ELSE [c EXCEPT !.pc = "walk", !.node = 0, !.path = Path(p \div BLOCK_SIZE)]
-----------------------------------------------------------------------------
(* The calls.  Two tasks that fill holes or truncate at the same time lose   *)
(* blocks and data (file_dev.c:50-53, Inode.tla), so one at a time does.  If *)
(* orderly, no two calls use a struct file at a time, nobody reads while the *)
(* file is truncated, and blocks of block numbers can be read.               *)
FillsHoles(p, n) == \E i \in p \div BLOCK_SIZE .. (p + n - 1) \div BLOCK_SIZE : Lookup(i) = 0
Cutting == \E t \in Task : call[t].op = "cut"
Filling ==
  \E t \in Task : LET c == call[t] IN c.op = "write" /\ c.left > 0 /\ FillsHoles(c.pos, c.left)
Busy(f) == \E t \in Task : call[t].op \in {"read", "write"} /\ call[t].file = f

Called(t) ==
  /\ ~panic /\ current = NULL /\ call[t].pc = "user"
  /\ calls < MaxCalls /\ calls' = calls + 1

SysLseek(t, f, p) ==
  /\ Called(t) /\ (orderly => ~Busy(f))
  /\ f_pos' = [f_pos EXCEPT ![f] = p]
  /\ UNCHANGED <<inode, block, zmap, current, call, faults, lost, panic, orderly>>

SysRead(t, f, count) ==
  LET left == IF count + f_pos[f] > size THEN size - f_pos[f] ELSE count IN
  /\ Called(t) /\ (orderly => ~Busy(f) /\ ~Cutting)
  /\ f_pos[f] < size
  /\ Becomes(t, Walking([Idle EXCEPT !.op = "read", !.file = f, !.left = left], f_pos[f]))
  /\ current' = t
  /\ UNCHANGED <<inode, block, zmap, f_pos, faults, lost, panic, orderly>>

SysWrite(t, f, count) ==
  LET pos == IF f \in Appending THEN size ELSE f_pos[f] IN
  /\ Called(t) /\ (orderly => ~Busy(f))
  /\ ~Cutting /\ (Filling => ~FillsHoles(pos, count))
  /\ Becomes(t, Walking([Idle EXCEPT !.op = "write", !.file = f, !.pos = pos, !.left = count], pos))
  /\ current' = t
  /\ UNCHANGED <<inode, block, zmap, f_pos, faults, lost, panic, orderly>>
-----------------------------------------------------------------------------
(* _bmap(), with create for a write.                                         *)
Here(t) == Entry(call[t].node, Head(call[t].path))

\* bread() of the block of numbers, or, when the path is at its end, of the data.
Found(t) ==
  /\ At(t, "walk") /\ Here(t) # 0
  /\ Becomes(t, [call[t] EXCEPT !.pc = "io", !.nr = Here(t)])
  /\ MaySleep(t)
  /\ UNCHANGED <<inode, block, zmap, f_pos, bounds, lost, panic, orderly>>

ReadHole(t) ==
  /\ At(t, "walk") /\ Here(t) = 0 /\ call[t].op = "read"
  /\ Becomes(t, [call[t] EXCEPT !.pc = "copy", !.nr = 0])
  /\ UNCHANGED <<inode, block, zmap, f_pos, current, bounds, lost, panic, orderly>>

\* Mutant: the loop of file_write() goes on when there is no block.
TriesAgain(t) ==
  /\ At(t, "walk") /\ Here(t) = 0 /\ call[t].op = "write" /\ zmap = Blk
  /\ UNCHANGED vars

DeviceFull(t) ==
  /\ At(t, "walk") /\ Here(t) = 0 /\ call[t].op = "write" /\ zmap = Blk
  /\ EndWith(t, call[t])
  /\ UNCHANGED <<inode, block, zmap, bounds, lost, panic, orderly>>

NewBlock(t) ==
  /\ At(t, "walk") /\ Here(t) = 0 /\ call[t].op = "write" /\ zmap # Blk
  /\ LET b == Min(Blk \ zmap) IN
       /\ zmap' = zmap \union {b}
       /\ Becomes(t, [call[t] EXCEPT !.pc = "new", !.nr = b])
  /\ MaySleep(t)
  /\ UNCHANGED <<inode, block, f_pos, bounds, lost, panic, orderly>>

\* Does somebody else have the buffer of b?
Held(t, b) == \E u \in Task \ {t} : call[u].pc = "io" /\ call[u].nr = b

\* new_block() has its buffer, and _bmap() stores the number.
BlockDone(t) ==
  LET c == call[t]
      fresh == [block EXCEPT ![c.nr] = Empty]
  IN  /\ Asleep(t, "new") /\ current' = t
      /\ IF c.node = 0
         THEN zone' = [zone EXCEPT ![Head(c.path)] = c.nr] /\ block' = fresh
         ELSE block' = [fresh EXCEPT ![c.node][Head(c.path)] = c.nr] /\ UNCHANGED zone
      /\ panic' = Held(t, c.nr)  \* "new block: count is != 1"
      /\ Becomes(t, [c EXCEPT !.pc = "walk"])
      /\ UNCHANGED <<size, zmap, f_pos, bounds, lost, orderly>>

\* bread() returned the buffer.
IoDone(t) ==
  LET c == call[t] IN
  /\ Asleep(t, "io") /\ current' = t
  /\ Becomes(t, IF Len(c.path) > 1
                THEN [c EXCEPT !.pc = "walk", !.node = c.nr, !.path = Tail(@)]
                ELSE [c EXCEPT !.pc = "copy"])
  /\ UNCHANGED <<inode, block, zmap, f_pos, bounds, lost, panic, orderly>>

(* bread() returned NULL.  A read that cannot read a block of numbers takes  *)
(* it for a hole (file_dev.c:19).                                            *)
IoFailed(t) ==
  LET c == call[t] IN
  /\ Asleep(t, "io") /\ current = NULL /\ c.op # "cut"
  /\ faults < MaxFaults /\ faults' = faults + 1
  /\ IF c.op = "read" /\ Len(c.path) > 1
     THEN /\ ~orderly /\ current' = t
          /\ Becomes(t, [c EXCEPT !.pc = "copy", !.nr = 0])
          /\ UNCHANGED f_pos
     ELSE EndWith(t, c)
  /\ UNCHANGED <<inode, block, zmap, calls, lost, panic, orderly>>
-----------------------------------------------------------------------------
(* The bodies of the loops, with the buffer.                                 *)
ReadCopy(t) ==
  LET c == call[t]
      from == f_pos[c.file] % BLOCK_SIZE  \* as it is now
      chars == Min({BLOCK_SIZE - from, c.left})
      bytes == [i \in 1 .. chars |-> IF c.nr = 0 THEN 0 ELSE block[c.nr][from + i - 1]]
      to == f_pos[c.file] + chars
      d == [c EXCEPT !.left = @ - chars, !.buf = @ \o bytes]
  IN  /\ At(t, "copy") /\ c.op = "read"
      /\ f_pos' = [f_pos EXCEPT ![c.file] = to]
      /\ Becomes(t, Walking(d, to))
      /\ UNCHANGED <<inode, block, zmap, current, bounds, lost, panic, orderly>>

WriteCopy(t) ==
  LET c == call[t]
      at == c.pos % BLOCK_SIZE
      chars == Min({BLOCK_SIZE - at, c.left})
      d == [c EXCEPT !.pos = @ + chars, !.left = @ - chars, !.done = @ + chars]
  IN  /\ At(t, "copy") /\ c.op = "write"
      /\ block' = [block EXCEPT ![c.nr] = [i \in Within |->
                     IF i \in at .. at + chars - 1 THEN Data[t][c.done + 1 + i - at] ELSE @[i]]]
      /\ size' = Max({size, d.pos})
      /\ Becomes(t, Walking(d, d.pos))
      /\ UNCHANGED <<zone, zmap, f_pos, current, bounds, lost, panic, orderly>>

\* The end of file_read() and of file_write().
Ended(t) ==
  /\ At(t, "end") /\ EndWith(t, call[t])
  /\ UNCHANGED <<inode, block, zmap, bounds, lost, panic, orderly>>
-----------------------------------------------------------------------------
(* truncate(), called by open() with O_TRUNC.  todo: the blocks that are     *)
(* still to be freed, with how many levels of blocks hang below each.        *)
NonZero(b) == SelectSeq([i \in 1 .. Fan |-> block[b][i - 1]], LAMBDA e : e # 0)
Below(b) == ToSet(NonZero(b))

\* free_block() gives a block up that somebody has, and its buffer stays counted.
Free(t, bs) ==
  LET refused == {b \in bs : Held(t, b)} IN
  /\ zmap' = zmap \ (bs \ refused)
  /\ lost' = lost \union refused
  /\ panic' = ~(bs \subseteq zmap)  \* "bit already cleared"

SysTruncate(t) ==
  /\ Called(t)
  /\ \A u \in Task : call[u].op \notin {"write", "cut"} /\ (orderly => call[u].op # "read")
  /\ Free(t, {zone[i] : i \in 0 .. NDirect - 1} \ {0})
  /\ zone' = [i \in DOMAIN zone |-> IF i < NDirect THEN 0 ELSE zone[i]]
  /\ Becomes(t, [Idle EXCEPT !.op = "cut", !.pc = "cut",
                   !.todo = <<<<zone[NDirect], 1>>, <<zone[NDirect + 1], 2>>>>])
  /\ current' = t
  /\ UNCHANGED <<size, block, f_pos, faults, orderly>>

CutBread(t) ==
  LET c == call[t] IN
  /\ At(t, "cut") /\ c.todo # <<>> /\ Head(c.todo)[1] # 0 /\ Head(c.todo)[2] > 0
  /\ Becomes(t, [c EXCEPT !.pc = "io", !.nr = Head(c.todo)[1]])
  /\ MaySleep(t)
  /\ UNCHANGED <<inode, block, zmap, f_pos, bounds, lost, panic, orderly>>

\* Mutant: free_ind() does not free the block of numbers itself.
FreeBelow(t, bs, b) == Free(t, bs)

FreeWith(t, bs, b) == Free(t, bs \union {b})

CutBlocks(t) ==
  LET c == call[t]
      b == Head(c.todo)[1]
      deeper == [i \in DOMAIN NonZero(b) |-> <<NonZero(b)[i], 1>>] \o <<<<b, 0>>>>
  IN  /\ At(t, "copy") /\ c.op = "cut"
      /\ IF Head(c.todo)[2] = 1
         THEN /\ FreeWith(t, Below(b), b)
              /\ Becomes(t, [c EXCEPT !.pc = "cut", !.todo = Tail(@)])
         ELSE /\ Becomes(t, [c EXCEPT !.pc = "cut", !.todo = deeper \o Tail(@)])
              /\ UNCHANGED <<zmap, lost, panic>>
      /\ UNCHANGED <<inode, block, f_pos, current, bounds, orderly>>

\* The block of numbers cannot be read: only it is freed.
CutFailed(t) ==
  LET c == call[t]
      b == Head(c.todo)[1]
      deep == IF Head(c.todo)[2] = 1 THEN {} ELSE UNION {Below(e) : e \in Below(b)}
  IN  /\ Asleep(t, "io") /\ current = NULL /\ c.op = "cut"
      /\ faults < MaxFaults /\ faults' = faults + 1
      /\ zmap' = IF Held(t, b) THEN zmap ELSE zmap \ {b}
      /\ lost' = lost \union Below(b) \union deep \union IF Held(t, b) THEN {b} ELSE {}
      /\ panic' = (b \notin zmap)
      /\ Becomes(t, [c EXCEPT !.pc = "cut", !.todo = Tail(@)]) /\ current' = t
      /\ UNCHANGED <<inode, block, f_pos, calls, orderly>>

CutOne(t) ==
  LET c == call[t] IN
  /\ At(t, "cut") /\ c.todo # <<>> /\ (Head(c.todo)[1] = 0 \/ Head(c.todo)[2] = 0)
  /\ Free(t, {Head(c.todo)[1]} \ {0})
  /\ Becomes(t, [c EXCEPT !.todo = Tail(@)])
  /\ UNCHANGED <<inode, block, f_pos, current, bounds, orderly>>

CutEnd(t) ==
  /\ At(t, "cut") /\ call[t].todo = <<>>
  /\ zone' = [zone EXCEPT ![NDirect] = 0, ![NDirect + 1] = 0] /\ size' = 0
  /\ Becomes(t, Idle) /\ current' = NULL
  /\ UNCHANGED <<block, zmap, f_pos, bounds, lost, panic, orderly>>
-----------------------------------------------------------------------------
Bmap(t) == Found(t) \/ ReadHole(t) \/ DeviceFull(t) \/ NewBlock(t) \/ BlockDone(t)
Cut(t) == CutBread(t) \/ CutBlocks(t) \/ CutFailed(t) \/ CutOne(t) \/ CutEnd(t)
Step(t) == Bmap(t) \/ IoDone(t) \/ IoFailed(t) \/ ReadCopy(t) \/ WriteCopy(t) \/ Ended(t) \/ Cut(t)

Next ==
  \E t \in Task :
    \/ Step(t) \/ SysTruncate(t)
    \/ \E f \in File : \/ \E p \in Seeks : SysLseek(t, f, p)
                       \/ \E n \in Counts : SysRead(t, f, n) \/ SysWrite(t, f, n)

Spec == Init /\ [][Next]_vars

(* A transfer ends, and the task gets the processor.                         *)
FairSpec == Spec /\ \A t \in Task : WF_vars(Step(t))
-----------------------------------------------------------------------------
(* Where block numbers are, and where the file has one.                      *)
Nodes == {zone[NDirect], zone[NDirect + 1]} \union
         (IF zone[NDirect + 1] = 0 THEN {} ELSE Below(zone[NDirect + 1]))
Places == {<<0, i>> : i \in 0 .. NDirect + 1} \union ((Nodes \ {0}) \X (0 .. Fan - 1))
Used == {p \in Places : Entry(p[1], p[2]) # 0}
InFlight == {call[t].nr : t \in {u \in Task : call[u].pc = "new"}}

(* Every block marked in the bitmap is in one place of the file, or on its   *)
(* way there, or was left behind by truncate(), and nothing of the file is   *)
(* free.  truncate() leaves blocks only when a transfer fails or a reader    *)
(* has one of them, and but for readers there is no panic                    *)
(* (inode.c:49-115, bitmap.c:73-131, truncate.c:5-58).                       *)
EachBlockOnce ==
  /\ (~panic /\ ~Cutting) =>
       LET owned == {Entry(p[1], p[2]) : p \in Used} IN
       /\ Cardinality(owned) = Cardinality(Used)
       /\ owned \intersect (InFlight \union lost) = {} /\ InFlight \intersect lost = {}
       /\ zmap = owned \union InFlight \union lost
  /\ orderly => ~panic /\ (faults = 0 => lost = {})

ByteAt(i) ==
  LET b == Lookup(i \div BLOCK_SIZE) IN IF b = 0 THEN 0 ELSE block[b][i % BLOCK_SIZE]

Promise == INSTANCE ByteFile WITH
  MaxSize <- MaxBlock * BLOCK_SIZE,
  content <- IF ~orderly \/ Cutting THEN <<>> ELSE [i \in 1 .. size |-> ByteAt(i - 1)],
  pos <- IF orderly THEN f_pos ELSE [f \in File |-> 0],
  call <- [t \in Task |->
    LET c == IF orderly /\ call[t].op # "cut" THEN call[t] ELSE Idle
    IN  [op |-> c.op, file |-> c.file, done |-> c.done, buf |-> c.buf,
         at |-> IF c.op = "read" THEN f_pos[c.file] ELSE c.pos]]

(* The file is a sequence of bytes: what is written at a position is read    *)
(* there, holes are zeros, whatever was in the blocks before, and positions  *)
(* move with what was read and written (file_dev.c:11-84, inode.c:49-115).   *)
IsByteFile == Promise!Spec

(* A read, write or truncation returns, on a full or failing device, too     *)
(* (file_dev.c:18-37, 58-77, truncate.c:13-20).                              *)
CallsEnd == \A t \in Task : call[t].pc # "user" ~> (panic \/ call[t].pc = "user")
=============================================================================
