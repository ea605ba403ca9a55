-------------------------------- MODULE Inode --------------------------------
(***************************************************************************)
(* The inodes in memory, fs/inode.c, the bitmaps they are allocated from,   *)
(* fs/bitmap.c and fs/truncate.c, and the calls that look names up, make    *)
(* and remove them, fs/namei.c.                                             *)
(*                                                                          *)
(* A task runs until it sleeps, so one action is the code between two       *)
(* places where it can: on a locked inode, in bread() or getblk(), or in    *)
(* the iput() of a directory.  Sleeping on an inode is membership in        *)
(* i_wait, which unlock_inode empties (WaitSet.tla) and memset forgets.     *)
(*                                                                          *)
(* One device and one directory of one block, whose own inode stays in      *)
(* memory.  Every file is regular and has at most one block, for its zones. *)
(* All permissions are given but that of a deleted file.  Transfers succeed.*)
(***************************************************************************)
EXTENDS Naturals, FiniteSets, FiniteSetsExt

CONSTANTS
  Task,
  Slot,      \* the entries of inode_table
  NrInodes,  \* s_ninodes
  Block,     \* the data zones
  Name,
  NrEntries, \* how many entries the directory has room for
  Orderly,   \* bound: a file is removed or truncated by nobody while a call looks it up
  NULL

\* A task has at most one file open and one more inode reserved.
ASSUME InodeAssumption ==
  /\ IsFiniteSet(Task) /\ IsFiniteSet(Slot) /\ IsFiniteSet(Block)
  /\ Cardinality(Slot) > Cardinality(Task)
  /\ NrInodes \in Nat \ {0} /\ NrEntries \in Nat \ {0}
  /\ Orderly \in BOOLEAN
  /\ NULL \notin Slot \union Block \union Name

VARIABLES
  inode,  \* inode_table
  i_wait, \* the tasks asleep on each of them
  image,  \* the inodes in the blocks of the device
  imap,   \* s_imap, the numbers in use
  zmap,   \* s_zmap, the blocks in use
  dir,    \* the entries of the directory
  held,   \* the inode of the file a task has open
  call,   \* where a task is inside a system call, with its local variables
  panic   \* did the kernel panic

vars == <<inode, i_wait, image, imap, zmap, dir, held, call, panic>>

Num == 1 .. NrInodes
Entry == 1 .. NrEntries

\* memset(inode,0,sizeof(*inode)); number 0 stands for i_dev = 0.
Blank == [num |-> 0, count |-> 0, nlinks |-> 0, zone |-> NULL, dirt |-> FALSE, lock |-> FALSE]

(* "found": in iput(dir) with the number of an entry; "wait", "read": in     *)
(* iget, waits for the inode, reads it; "add": in add_entry; "new": in the   *)
(* second lookup of sys_link, "linked": in its iput(dir); "block": in        *)
(* new_block; "cut": in truncate of open; "put", "write", "free": in iput,   *)
(* waits for the inode, writes it, in truncate; "sync", "wsync": in          *)
(* sync_inodes, waits for an inode, writes it.                               *)
At == {"user", "found", "wait", "read", "add", "new", "linked", "block", "cut",
       "put", "write", "free", "sync", "wsync"}
User == [at |-> "user", op |-> "none", name |-> NULL, num |-> 0, entry |-> 1, slot |-> NULL,
         empty |-> NULL, zone |-> NULL, todo |-> {}]

TypeOK ==
  /\ inode \in [Slot -> [num : {0} \union Num, count : Nat, nlinks : Nat,
                         zone : Block \union {NULL}, dirt : BOOLEAN, lock : BOOLEAN]]
  /\ i_wait \in [Slot -> SUBSET Task]
  /\ image \in [Num -> [nlinks : Nat, zone : Block \union {NULL}]]
  /\ imap \subseteq Num /\ zmap \subseteq Block
  /\ dir \in [Entry -> [name : Name \union {NULL}, num : {0} \union Num]]
  /\ held \in [Task -> Slot \union {NULL}]
  /\ call \in [Task -> [at : At, op : {"none", "open", "creat", "unlink", "link", "sync"},
                        name : Name \union {NULL}, num : {0} \union Num, entry : Entry,
                        slot : Slot \union {NULL}, empty : Slot \union {NULL},
                        zone : Block \union {NULL}, todo : SUBSET Slot]]
  /\ panic \in BOOLEAN

Init ==
  /\ inode = [s \in Slot |-> Blank]
  /\ i_wait = [s \in Slot |-> {}]
  /\ image = [n \in Num |-> [nlinks |-> 0, zone |-> NULL]]
  /\ imap = {} /\ zmap = {}
  /\ dir = [e \in Entry |-> [name |-> NULL, num |-> 0]]
  /\ held = [t \in Task |-> NULL]
  /\ call = [t \in Task |-> User]
  /\ panic = FALSE
-----------------------------------------------------------------------------
(* What a step of t changes, in one record: the variables, with held and     *)
(* call for t alone.                                                         *)
Now(t) ==
  [inode |-> inode, wait |-> i_wait, image |-> image, imap |-> imap, zmap |-> zmap,
   dir |-> dir, held |-> held[t], call |-> call[t], panic |-> panic, self |-> t]

Becomes(m) ==
  /\ inode' = m.inode /\ i_wait' = m.wait /\ image' = m.image
  /\ imap' = m.imap /\ zmap' = m.zmap /\ dir' = m.dir
  /\ held' = [held EXCEPT ![m.self] = m.held]
  /\ call' = [call EXCEPT ![m.self] = m.call]
  /\ panic' = m.panic

Runs(t, at) == ~panic /\ call[t].at = at /\ \A s \in Slot : t \notin i_wait[s]

Panic(m) == [m EXCEPT !.panic = TRUE]
Done(m) == [m EXCEPT !.call = User]
Goto(m, at, s) == [m EXCEPT !.call.at = at, !.call.slot = s]
WaitOnInode(m, at, s) == [Goto(m, at, s) EXCEPT !.wait[s] = @ \union {m.self}]
Unlock(m, s) == [m EXCEPT !.inode[s].lock = FALSE, !.wait[s] = {}]
-----------------------------------------------------------------------------
(* get_empty_inode(): a slot that is not counted is clean and unlocked (see  *)
(* EmptyIsIdle), so the loops in it end at once.  Which one it is depends on *)
(* last_allocated_inode.                                                     *)
Empties == {s \in Slot : inode[s].count = 0}

GetEmpty(m, s) == [m EXCEPT !.inode[s] = [Blank EXCEPT !.count = 1], !.wait[s] = {}]

\* read_inode() and write_inode() after bread; number 0 is taken for the last one of a block.
ReadInode(m, s) ==
  LET from == m.image[m.inode[s].num] IN
  Unlock([m EXCEPT !.inode[s].nlinks = from.nlinks, !.inode[s].zone = from.zone], s)

WriteInode(m, s) ==
  LET n == IF m.inode[s].num = 0 THEN NrInodes ELSE m.inode[s].num IN
  Unlock([m EXCEPT !.image[n] = [nlinks |-> m.inode[s].nlinks, zone |-> m.inode[s].zone],
                   !.inode[s].dirt = FALSE], s)

\* Mutant: i_zone is not cleared.
TruncateKeepsZone(m, s, zone) ==
  IF zone = NULL THEN [m EXCEPT !.inode[s].dirt = TRUE]
  ELSE IF zone \notin m.zmap THEN Panic(m)
  ELSE [m EXCEPT !.zmap = @ \ {zone}, !.inode[s].dirt = TRUE]

\* free_block() of a zone, and the rest of truncate().
Truncate(m, s, zone) ==
  IF zone = NULL THEN [m EXCEPT !.inode[s].dirt = TRUE]
  ELSE IF zone \notin m.zmap THEN Panic(m)
  ELSE [m EXCEPT !.zmap = @ \ {zone}, !.inode[s].zone = NULL, !.inode[s].dirt = TRUE]

FreeInode(m, s) ==
  LET i == m.inode[s] IN
  IF i.num # 0 /\ (i.count > 1 \/ i.nlinks # 0 \/ i.num \notin m.imap) THEN Panic(m)
  ELSE Done([m EXCEPT !.imap = @ \ {i.num}, !.inode[s] = Blank, !.wait[s] = {}])

\* Mutant: the last link counts as none.
PutLastEarly(m, s) ==
  IF m.inode[s].nlinks < 2
  THEN [Goto(m, "free", s) EXCEPT !.call.zone = m.inode[s].zone]
  ELSE IF m.inode[s].dirt THEN [Goto(m, "write", s) EXCEPT !.inode[s].lock = TRUE]
  ELSE Done([m EXCEPT !.inode[s].count = @ - 1])

\* iput() from "repeat" on.
PutLast(m, s) ==
  IF m.inode[s].nlinks = 0
  THEN [Goto(m, "free", s) EXCEPT !.call.zone = m.inode[s].zone]
  ELSE IF m.inode[s].dirt THEN [Goto(m, "write", s) EXCEPT !.inode[s].lock = TRUE]
  ELSE Done([m EXCEPT !.inode[s].count = @ - 1])

Iput(m, s) ==
  IF m.inode[s].lock THEN WaitOnInode(m, "put", s)
  ELSE IF m.inode[s].count = 0 THEN Panic(m)
  ELSE IF m.inode[s].num = 0 \/ m.inode[s].count > 1
       THEN Done([m EXCEPT !.inode[s].count = @ - 1])
  ELSE PutLast(m, s)
-----------------------------------------------------------------------------
(* The directory: find_entry(), and what add_entry() finds once it has read  *)
(* the block.                                                                *)
Entries(d, x) == {e \in Entry : d[e].num # 0 /\ d[e].name = x}
FindEntry(m, x) == Min(Entries(m.dir, x))
FreeEntries(m) == {e \in Entry : m.dir[e].num = 0}
AddEntry(m, x, n) == [m EXCEPT !.dir[Min(FreeEntries(m))] = [name |-> x, num |-> n]]

\* What sys_open, sys_unlink and sys_link do with the inode iget() returned.
Opened(m, s) ==
  IF m.inode[s].nlinks = 0 THEN Iput(m, s)  \* permission(): "a deleted file"
  ELSE IF m.call.op = "creat"
       THEN [Goto(m, "cut", s) EXCEPT !.call.zone = m.inode[s].zone]
  ELSE Done([m EXCEPT !.held = s])

Unlinked(m, s) ==
  LET links == IF m.inode[s].nlinks = 0 THEN 1 ELSE m.inode[s].nlinks IN
  Iput([m EXCEPT !.dir[m.call.entry].num = 0, !.inode[s].nlinks = links - 1,
                 !.inode[s].dirt = TRUE], s)

Got(m, s) ==
  IF m.call.op = "unlink" THEN Unlinked(m, s)
  ELSE IF m.call.op = "link" THEN [Goto(m, "new", s) EXCEPT !.inode[s].dirt = TRUE]
  ELSE Opened(m, s)

\* Mutant: an inode that is locked is not looked at.
SearchUnlocked(m) ==
  LET e == m.call.empty
      there == {s \in Slot : m.inode[s].num = m.call.num /\ ~m.inode[s].lock}
      s == CHOOSE x \in there : TRUE
  IN  IF there = {}
      THEN [Goto(m, "read", e) EXCEPT !.inode[e].num = m.call.num, !.inode[e].lock = TRUE]
      ELSE Got([m EXCEPT !.inode[s].count = @ + 1, !.inode[e].count = @ - 1,
                         !.call.empty = NULL], s)

(* iget() from the search of the table on, with one inode reserved: the      *)
(* inode is there, or locked, or the reserved one becomes it.                *)
Search(m) ==
  LET e == m.call.empty
      there == {s \in Slot : m.inode[s].num = m.call.num}
      s == CHOOSE x \in there : TRUE
  IN  IF there = {}
      THEN [Goto(m, "read", e) EXCEPT !.inode[e].num = m.call.num, !.inode[e].lock = TRUE]
      ELSE IF m.inode[s].lock THEN WaitOnInode(m, "wait", s)
      ELSE Got([m EXCEPT !.inode[s].count = @ + 1, !.inode[e].count = @ - 1,
                         !.call.empty = NULL], s)

Iget(m, n, e) == Search([GetEmpty(m, e) EXCEPT !.call.num = n, !.call.empty = e])
-----------------------------------------------------------------------------
(* The calls that overlap in an orderly system: one that makes or removes a  *)
(* name, or truncates, has the name and the inode for itself; open files are *)
(* read, extended and closed, and inodes synced, all the time.               *)
Shared(op) == op = "open"
Apart(t, x, n, op) ==
  Orderly => \A u \in Task \ {t} :
    \/ call[u].op \in {"none", "sync"}
    \/ Shared(op) /\ Shared(call[u].op)
    \/ call[u].name # x /\ (n = 0 \/ call[u].num # n)

\* namei() or open_namei() found the name y: the number is known, iput(dir) may sleep.
Look(t, op, y, x) ==
  /\ Runs(t, "user") /\ held[t] = NULL
  /\ Entries(dir, y) # {}
  /\ LET e == FindEntry(Now(t), y)
         n == dir[e].num
     IN  /\ Apart(t, x, n, op)
         /\ call' = [call EXCEPT ![t].at = "found", ![t].op = op, ![t].name = x, ![t].num = n]
  /\ UNCHANGED <<inode, i_wait, image, imap, zmap, dir, held, panic>>

SysOpen(t, x) == Look(t, "open", x, x)
SysCreat(t, x) == Look(t, "creat", x, x)  \* of a file that is there
SysLink(t, y, x) == Look(t, "link", y, x)

FoundDone(t) ==
  /\ Runs(t, "found")
  /\ \E e \in Empties : Becomes(Iget(Now(t), call[t].num, e))

\* sys_unlink goes from the entry to iget() at once.
SysUnlink(t, x) ==
  /\ Runs(t, "user") /\ held[t] = NULL
  /\ Entries(dir, x) # {}
  /\ LET e == FindEntry(Now(t), x)
         n == dir[e].num
         m == [Now(t) EXCEPT !.call.op = "unlink", !.call.name = x, !.call.entry = e]
     IN  /\ Apart(t, x, n, "unlink")
         /\ \E r \in Empties : Becomes(Iget(m, n, r))

\* In iget: the inode is another one by now, or still the one wanted.
WaitDone(t) ==
  /\ Runs(t, "wait")
  /\ LET m == Now(t)
         s == m.call.slot
     IN  IF inode[s].lock THEN Becomes(WaitOnInode(m, "wait", s)) ELSE Becomes(Search(m))

ReadDone(t) ==
  /\ Runs(t, "read")
  /\ Becomes(Got([ReadInode(Now(t), call[t].slot) EXCEPT !.call.empty = NULL], call[t].slot))

\* open_namei() with O_CREAT of a name that is not there: new_inode().
Create(t, x) ==
  /\ Runs(t, "user") /\ held[t] = NULL
  /\ Entries(dir, x) = {} /\ Apart(t, x, 0, "creat")
  /\ \E s \in Empties :
       LET m == GetEmpty(Now(t), s)
           n == Min(Num \ imap)
       IN  IF Num \subseteq imap
           THEN Becomes([m EXCEPT !.inode[s].count = 0])
           ELSE Becomes([Goto(m, "add", s) EXCEPT
                  !.imap = @ \union {n}, !.call.op = "creat", !.call.name = x, !.call.num = n,
                  !.inode[s] = [Blank EXCEPT !.num = n, !.count = 1, !.nlinks = 1, !.dirt = TRUE]])

\* The second lookup of sys_link.
LinkLooked(t) ==
  /\ Runs(t, "new")
  /\ LET s == call[t].slot IN
     IF Entries(dir, call[t].name) = {} THEN Becomes(Goto(Now(t), "add", s))
     ELSE Becomes(Iput(Now(t), s))

\* add_entry() for open_namei and for sys_link; a new file whose name does not fit goes.
AddDone(t) ==
  /\ Runs(t, "add")
  /\ LET m == Now(t)
         s == call[t].slot
         c == AddEntry(m, call[t].name, inode[s].num)
     IN  IF FreeEntries(m) # {}
         THEN IF call[t].op = "link" THEN Becomes(Goto(c, "linked", s))
              ELSE Becomes(Done([c EXCEPT !.held = s]))
         ELSE IF call[t].op = "link" THEN Becomes(Iput(m, s))
              ELSE Becomes(Iput([m EXCEPT !.inode[s].nlinks = @ - 1], s))

\* Mutant: i_dirt=1 is missing.
LinkCountedClean(t) ==
  /\ Runs(t, "linked")
  /\ LET s == call[t].slot IN
     Becomes(Iput([Now(t) EXCEPT !.inode[s].nlinks = @ + 1], s))

LinkCounted(t) ==
  /\ Runs(t, "linked")
  /\ LET s == call[t].slot IN
     Becomes(Iput([Now(t) EXCEPT !.inode[s].nlinks = @ + 1, !.inode[s].dirt = TRUE], s))

\* O_TRUNC
CutDone(t) ==
  /\ Runs(t, "cut")
  /\ LET s == call[t].slot IN
     Becomes(Done([Truncate(Now(t), s, call[t].zone) EXCEPT !.held = s]))
-----------------------------------------------------------------------------
(* file_write() through create_block(): the bit is set, then getblk() may    *)
(* sleep, then the zone gets the block.                                      *)
SysWrite(t) ==
  /\ Runs(t, "user") /\ held[t] # NULL /\ inode[held[t]].zone = NULL
  /\ Orderly => \A u \in Task : call[u].at = "block" => call[u].slot # held[t]
  /\ \E b \in Block \ zmap :
       Becomes([Goto(Now(t), "block", held[t]) EXCEPT !.zmap = @ \union {b}, !.call.zone = b])

BlockDone(t) ==
  /\ Runs(t, "block")
  /\ LET s == call[t].slot IN
     Becomes(Done([Now(t) EXCEPT !.inode[s].zone = call[t].zone, !.inode[s].dirt = TRUE]))

SysClose(t) ==
  /\ Runs(t, "user") /\ held[t] # NULL
  /\ Becomes(Iput([Now(t) EXCEPT !.held = NULL], held[t]))

PutDone(t) == Runs(t, "put") /\ Becomes(Iput(Now(t), call[t].slot))

\* "we can sleep - so do again"
WriteDone(t) ==
  /\ Runs(t, "write")
  /\ LET s == call[t].slot IN Becomes(PutLast(WriteInode(Now(t), s), s))

FreeDone(t) ==
  /\ Runs(t, "free")
  /\ LET s == call[t].slot
         m == Truncate(Now(t), s, call[t].zone)
     IN  Becomes(IF m.panic THEN m ELSE FreeInode(m, s))  \* panic() does not return
-----------------------------------------------------------------------------
\* sync_inodes(), whatever the order of the table; bound: of tasks with no file open.
SysSync(t) ==
  /\ Runs(t, "user") /\ held[t] = NULL
  /\ call' = [call EXCEPT ![t] = [User EXCEPT !.at = "sync", !.op = "sync", !.todo = Slot]]
  /\ UNCHANGED <<inode, i_wait, image, imap, zmap, dir, held, panic>>

SyncNext(t, s) ==
  /\ Runs(t, "sync") /\ s \in call[t].todo
  /\ Orderly => \A u \in Task : call[u].at = "free" => call[u].slot # s
  /\ LET m == [Now(t) EXCEPT !.call.todo = @ \ {s}] IN
     IF inode[s].lock THEN Becomes(WaitOnInode(Now(t), "sync", s))
     ELSE IF inode[s].dirt THEN Becomes([Goto(m, "wsync", s) EXCEPT !.inode[s].lock = TRUE])
     ELSE Becomes(m)

SyncWritten(t) ==
  /\ Runs(t, "wsync")
  /\ Becomes(Goto(WriteInode(Now(t), call[t].slot), "sync", NULL))

SyncDone(t) == Runs(t, "sync") /\ call[t].todo = {} /\ Becomes(Done(Now(t)))

Next ==
  \E t \in Task :
    \/ \E x \in Name : SysOpen(t, x) \/ SysCreat(t, x) \/ SysUnlink(t, x) \/ Create(t, x)
    \/ \E x, y \in Name : SysLink(t, y, x)
    \/ FoundDone(t) \/ WaitDone(t) \/ ReadDone(t)
    \/ LinkLooked(t) \/ AddDone(t) \/ LinkCounted(t) \/ CutDone(t)
    \/ SysWrite(t) \/ BlockDone(t)
    \/ SysClose(t) \/ PutDone(t) \/ WriteDone(t) \/ FreeDone(t)
    \/ SysSync(t) \/ SyncWritten(t) \/ SyncDone(t)
    \/ \E s \in Slot : SyncNext(t, s)

Spec == Init /\ [][Next]_vars
-----------------------------------------------------------------------------
In(t, at) == call[t].at \in at

\* The tasks that hold an inode, by an open file, a call or a reserved slot.
Users(s) ==
  {t \in Task :
     \/ held[t] = s
     \/ call[t].empty = s
     \/ call[t].slot = s
        /\ In(t, {"read", "add", "new", "linked", "cut", "put", "write", "free"})}

HoldersCounted == \A s \in Slot : inode[s].count = Cardinality(Users(s))

\* What get_empty_inode() takes has nothing to write and nobody waiting for it.
EmptyIsIdle ==
  \A s \in Slot :
    inode[s].count = 0 => ~inode[s].dirt /\ ~inode[s].lock /\ i_wait[s] = {}

WaitForLock == \A s \in Slot : i_wait[s] # {} => inode[s].lock

(* An inode is in memory once, however many iget() of it wait for each other *)
(* and find their slot taken by another one (inode.c:218-249).               *)
OneInodePerNumber ==
  \A r, s \in Slot : inode[r].num # 0 /\ inode[r].num = inode[s].num => r = s

(* i_count is who holds the inode over all the sleeps of iget and iput; one  *)
(* that nobody holds may be overwritten, and nobody sleeps on an inode that  *)
(* is not locked (inode.c:13-34, 127-200, 218-249).                          *)
Counted == TypeOK /\ OneInodePerNumber /\ HoldersCounted /\ EmptyIsIdle /\ WaitForLock

\* The inode n as it is now: in memory, unless it is not read yet.
Cached(n) ==
  {s \in Slot : inode[s].num = n /\ \A t \in Task : ~(In(t, {"read"}) /\ call[t].slot = s)}
Of(n) == IF Cached(n) = {} THEN image[n] ELSE inode[CHOOSE s \in Cached(n) : TRUE]

Adding(n) == {t \in Task : In(t, {"add"}) /\ call[t].op = "creat" /\ call[t].num = n}
Linking(n) == {t \in Task : In(t, {"linked"}) /\ call[t].num = n}
EntriesOf(n) == {e \in Entry : dir[e].num = n}

(* An inode has as many links as entries name it, but for those being made,  *)
(* in memory and, once it has left memory, on the device; no entry names a   *)
(* free inode (namei.c:354-367, 619-625, 678-685; inode.c:148-159).          *)
LinksCounted ==
  \A n \in Num :
    IF n \in imap
    THEN Of(n).nlinks + Cardinality(Linking(n)) = Cardinality(EntriesOf(n)) + Cardinality(Adding(n))
    ELSE EntriesOf(n) = {}

Zone(n) == IF n \in imap THEN {Of(n).zone} \ {NULL} ELSE {}
Taken == {call[t].zone : t \in {u \in Task : In(u, {"block"})}}

(* Every block that is in use belongs to one file, or to a call that is      *)
(* about to give it to one; none is lost (bitmap.c:73-131, truncate.c:41-58, *)
(* inode.c:58-65).                                                           *)
BlocksOwned ==
  /\ zmap = (UNION {Zone(n) : n \in Num}) \union Taken
  /\ \A n, k \in Num : Zone(n) \intersect Zone(k) # {} => n = k
  /\ \A n \in Num : Zone(n) \intersect Taken = {}

(* No "trying to free free inode", "trying to free inode with count" or      *)
(* "with links", no "bit already cleared" (inode.c:132-133, bitmap.c:94-97,  *)
(* 144-157).                                                                 *)
NoPanic == ~panic
=============================================================================
