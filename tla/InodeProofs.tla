----------------------------- MODULE InodeProofs -----------------------------
(***************************************************************************)
(* Proofs about Inode.tla, of the calls that overlap as Orderly has it:     *)
(* without that a name is removed under a call that has looked it up, and   *)
(* the counts of links are wrong.                                           *)
(*                                                                          *)
(* A step of a task is several moves, one after the other, each of which    *)
(* keeps the invariant: so it is stated of a record like the state, and a   *)
(* task may be at two places more, between two moves of one step.  First    *)
(* comes a lemma for each move.  Then every piece of code that an action is *)
(* made of (Iput, Search, Got, ...) is shown to be such moves, then every   *)
(* action, and the theorems are at the end.                                 *)
(***************************************************************************)
EXTENDS Inode, InductionLemmas

(* "got": iget has the inode, its caller has done nothing with it yet       *)
(* (inode.c:239, 248); "last": iput is before its "repeat", unless it has   *)
(* returned (inode.c:144-148).                                              *)
Place == At \union {"got", "last"}

(* The types of Inode.tla, with these places.                               *)
InodeType == [num : {0} \union Num, count : Nat, nlinks : Nat,
              zone : Block \union {NULL}, dirt : BOOLEAN, lock : BOOLEAN]
ImageType == [nlinks : Nat, zone : Block \union {NULL}]
EntryType == [name : Name \union {NULL}, num : {0} \union Num]
CallType == [at : Place, op : {"none", "open", "creat", "unlink", "link", "sync"},
             name : Name \union {NULL}, num : {0} \union Num, entry : Entry,
             slot : Slot \union {NULL}, empty : Slot \union {NULL},
             zone : Block \union {NULL}, todo : SUBSET Slot]

Typed(x) ==
  /\ x.inode \in [Slot -> InodeType]
  /\ x.wait \in [Slot -> SUBSET Task]
  /\ x.image \in [Num -> ImageType]
  /\ x.imap \subseteq Num /\ x.zmap \subseteq Block
  /\ x.dir \in [Entry -> EntryType]
  /\ x.held \in [Task -> Slot \union {NULL}]
  /\ x.call \in [Task -> CallType]

(* Which inode a task holds, if any: by an open file, by the entry iget has *)
(* reserved, or in a call (inode.c:198, 236; open.c:162).                   *)
Holding == {"read", "add", "new", "linked", "cut", "put", "write", "free", "got", "last"}
HoldOf(h, c) ==
  IF h # NULL THEN h
  ELSE IF c.empty # NULL THEN c.empty
  ELSE IF c.at \in Holding THEN c.slot ELSE NULL
Holders(x, s) == {t \in Task : HoldOf(x.held[t], x.call[t]) = s}

(* Who has locked an inode, who is reading it, who is in a call about a     *)
(* name, and which numbers the directory has.                               *)
Locks(c, s) == c.at \in {"read", "write", "wsync"} /\ c.slot = s
Reads(c, s) == c.at = "read" /\ c.slot = s
Busy(c) == c.op \notin {"none", "sync"}
Named(x, n) == \E e \in Entry : x.dir[e].num = n

(* An entry of the inode table.  One without a number is as memset left it; *)
(* one that is locked is so by one task; one that is clean and has links is *)
(* as on the device, but for the one being read (inode.c:127-200, 218-249). *)
SlotOK(x, s) ==
  LET i == x.inode[s] IN
  /\ i.num = 0 => i.nlinks = 0 /\ i.zone = NULL /\ ~i.dirt /\ ~i.lock
  /\ i.num # 0 => i.num \in x.imap
  /\ i.count = 0 => ~i.dirt /\ ~i.lock /\ (i.num # 0 => i.nlinks # 0)
  /\ x.wait[s] # {} => i.lock
  /\ i.lock => \E t \in Task : Locks(x.call[t], s)
  /\ \A t, u \in Task : Locks(x.call[t], s) /\ Locks(x.call[u], s) => t = u
  /\ i.num # 0 /\ i.nlinks # 0 /\ ~i.dirt /\ (\A t \in Task : ~Reads(x.call[t], s))
       => x.image[i.num].nlinks = i.nlinks /\ x.image[i.num].zone = i.zone

(* What the place of a task says of its other variables.                    *)
Shape(h, c) ==
  /\ h # NULL => c.at \in {"user", "block"}
  /\ c.at = "user" => c.op = "none" /\ c.empty = NULL
  /\ (c.empty # NULL) <=> c.at \in {"wait", "read"}
  /\ c.at \in Holding \union {"wait", "wsync", "block"} => c.slot \in Slot
  /\ c.at = "read" => c.slot = c.empty
  /\ c.at \in {"found", "wait", "read", "got", "new", "linked", "cut", "add"} =>
       Busy(c) /\ c.num # 0
  /\ c.at \in {"sync", "wsync"} => c.op = "sync"
  /\ c.at = "block" => c.op = "none" /\ h = c.slot /\ c.zone # NULL
  /\ c.at \in {"new", "linked"} => c.op = "link"
  /\ c.at = "add" => c.op \in {"creat", "link"}
  /\ c.at = "cut" => c.op = "creat"
  /\ c.at \in Holding => c.op # "sync"

(* What it says of the inode the task is at: that it is still the one with  *)
(* the number of the call, that nobody else has it where the code relies on *)
(* that, and that the zone to free or to set is the one the inode has.      *)
Grip(c, i) ==
  /\ c.at \in Holding => i.num # 0 /\ (Busy(c) => i.num = c.num)
  /\ c.at = "wsync" => i.num # 0
  /\ c.at \in {"read", "write", "free", "last"} => i.count = 1
  /\ c.at \in {"read", "write", "wsync"} => i.lock
  /\ c.at \in {"free", "last"} => ~i.lock
  /\ c.at = "cut" => c.zone \in {NULL, i.zone}
  /\ c.at = "free" => i.nlinks = 0 /\ c.zone = i.zone
  /\ c.at = "block" => i.zone = NULL

(* What it says of the directory and the bitmap: the number of a call is in *)
(* use, and named as long as the call counts on it.                         *)
Bound(x, c) ==
  /\ Busy(c) => c.num \in x.imap
  /\ c.at \in {"found", "wait", "read", "got", "new", "linked", "cut"} => Named(x, c.num)
  /\ c.at \in {"found", "wait", "read", "got"} /\ c.op = "unlink" => x.dir[c.entry].num = c.num
  /\ c.at = "add" /\ c.op = "link" => Named(x, c.num)
  /\ c.at = "add" /\ c.op = "creat" => ~Named(x, c.num)
  /\ c.at = "free" => ~Named(x, x.inode[c.slot].num)

(* All of it.                                                               *)
TaskOK(x, t) ==
  LET c == x.call[t] IN
  /\ Shape(x.held[t], c)
  /\ Grip(c, x.inode[c.slot])
  /\ x.held[t] # NULL => x.inode[x.held[t]].num # 0
  /\ c.at = "wait" => x.inode[c.empty].num = 0 /\ x.inode[c.empty].count = 1
  /\ Bound(x, c)

(* Who makes or removes a name has the inode for itself (Apart).            *)
Exclusive(x) ==
  \A t, u \in Task :
    t # u /\ Busy(x.call[t]) /\ Busy(x.call[u]) /\ x.call[t].num = x.call[u].num
      => x.call[t].op = "open" /\ x.call[u].op = "open"

(* OneInodePerNumber and HoldersCounted of the record.                      *)
Once(x) == \A r, s \in Slot : x.inode[r].num # 0 /\ x.inode[r].num = x.inode[s].num => r = s
Counts(x) == \A s \in Slot : x.inode[s].count = Cardinality(Holders(x, s))

(* The tasks in new_block have a file each and a block each.                *)
Blocks(c) == c.at = "block"
Apiece(x) ==
  \A t, u \in Task : t # u /\ Blocks(x.call[t]) /\ Blocks(x.call[u])
    => x.call[t].slot # x.call[u].slot /\ x.call[t].zone # x.call[u].zone

(* The entries that have an inode that has been read, and its links and its *)
(* zone, in memory or on the device.                                        *)
Seen(x, n) == {s \in Slot : x.inode[s].num = n /\ \A t \in Task : ~Reads(x.call[t], s)}
LinksOf(x, n) ==
  IF Seen(x, n) = {} THEN x.image[n].nlinks ELSE x.inode[CHOOSE s \in Seen(x, n) : TRUE].nlinks
ZoneOf(x, n) ==
  IF Seen(x, n) = {} THEN x.image[n].zone ELSE x.inode[CHOOSE s \in Seen(x, n) : TRUE].zone

Adds(c, n) == c.at = "add" /\ c.op = "creat" /\ c.num = n
Links(c, n) == c.at = "linked" /\ c.num = n
Adders(x, n) == {t \in Task : Adds(x.call[t], n)}
Linkers(x, n) == {t \in Task : Links(x.call[t], n)}
EntriesIn(x, n) == {e \in Entry : x.dir[e].num = n}

(* LinksCounted of the record.                                              *)
Linked(x) ==
  \A n \in Num :
    /\ n \in x.imap => LinksOf(x, n) + Cardinality(Linkers(x, n))
                         = Cardinality(EntriesIn(x, n)) + Cardinality(Adders(x, n))
    /\ n \notin x.imap => EntriesIn(x, n) = {}

(* BlocksOwned of the record, block by block.                               *)
Owned(x) ==
  /\ \A b \in Block : b \in x.zmap <=> \/ \E n \in x.imap : ZoneOf(x, n) = b
                                       \/ \E t \in Task : Blocks(x.call[t]) /\ x.call[t].zone = b
  /\ \A n, k \in x.imap : ZoneOf(x, n) # NULL /\ ZoneOf(x, n) = ZoneOf(x, k) => n = k
  /\ \A n \in x.imap, t \in Task : Blocks(x.call[t]) => x.call[t].zone # ZoneOf(x, n)

(* The parts together; between two moves of t the others are where the code *)
(* can sleep.                                                               *)
Ind(x, t) ==
  /\ Typed(x)
  /\ \A u \in Task \ {t} : x.call[u].at \in At
  /\ \A s \in Slot : SlotOK(x, s)
  /\ \A u \in Task : TaskOK(x, u)
  /\ Exclusive(x) /\ Once(x) /\ Counts(x) /\ Apiece(x)
  /\ Linked(x) /\ Owned(x)

(* y is x but for what t has and is doing, and the entry s of the table.    *)
Differs(x, y, t, s) ==
  /\ \A u \in Task \ {t} : y.held[u] = x.held[u] /\ y.call[u] = x.call[u]
  /\ \A r \in Slot \ {s} : y.inode[r] = x.inode[r] /\ y.wait[r] = x.wait[r]
-----------------------------------------------------------------------------
(* A task that holds an inode is counted, two are counted twice             *)
(* (inode.c:144-147, 236).                                                  *)
LEMMA HeldCounted ==
  ASSUME NEW x, Counts(x), Typed(x), NEW s \in Slot, NEW t \in Task,
         HoldOf(x.held[t], x.call[t]) = s
  PROVE  /\ x.inode[s].count # 0
         /\ x.inode[s].count = 1 =>
              \A u \in Task \ {t} : HoldOf(x.held[u], x.call[u]) # s
<1> DEFINE H == Holders(x, s)
<1>1. IsFiniteSet(H) /\ t \in H
  BY InodeAssumption, FS_Subset DEF Holders
<1>2. x.inode[s].count = Cardinality(H)
  BY DEF Counts
<1>3. IsFiniteSet(H \ {t}) /\ Cardinality(H \ {t}) = Cardinality(H) - 1 /\ Cardinality(H) \in Nat
  BY <1>1, FS_RemoveElement, FS_CardinalityType
<1>4. Cardinality(H \ {t}) \in Nat
  BY <1>3, FS_CardinalityType
<1>5. Cardinality(H) = 1 => H \ {t} = {}
  <2> HIDE DEF H
  <2> QED  BY <1>3, FS_EmptySet
<1>6. Cardinality(H) # 0
  <2> HIDE DEF H
  <2> QED  BY <1>3, <1>4
<1> QED
  BY <1>2, <1>5, <1>6 DEF Holders

(* Of an entry that is not counted nobody is a holder.                      *)
LEMMA NobodyHolds ==
  ASSUME NEW x, Counts(x), Typed(x), NEW s \in Slot, x.inode[s].count = 0
  PROVE  \A u \in Task : HoldOf(x.held[u], x.call[u]) # s
BY HeldCounted

(* The counts after a step in which the task t lets go of an inode or takes *)
(* one, or neither (inode.c:145, 159, 198, 236).                            *)
LEMMA CountsStay ==
  ASSUME NEW x, NEW y, NEW t \in Task, NEW s \in Slot, Differs(x, y, t, s), Typed(x), Counts(x),
         \/ /\ HoldOf(y.held[t], y.call[t]) = HoldOf(x.held[t], x.call[t])
            /\ y.inode[s].count = x.inode[s].count
         \/ /\ HoldOf(x.held[t], x.call[t]) = s /\ HoldOf(y.held[t], y.call[t]) = NULL
            /\ y.inode[s].count = x.inode[s].count - 1
         \/ /\ HoldOf(x.held[t], x.call[t]) = NULL /\ HoldOf(y.held[t], y.call[t]) = s
            /\ y.inode[s].count = x.inode[s].count + 1
  PROVE  Counts(y)
<1> DEFINE X(r) == Holders(x, r)
<1> DEFINE Y(r) == Holders(y, r)
<1>1. \A u \in Task \ {t} : HoldOf(y.held[u], y.call[u]) = HoldOf(x.held[u], x.call[u])
  BY DEF Differs
<1>2. NULL \notin Slot
  BY InodeAssumption
<1>3. \A r \in Slot : IsFiniteSet(X(r)) /\ Cardinality(X(r)) \in Nat
  BY InodeAssumption, FS_Subset, FS_CardinalityType DEF Holders
<1>4. \A r \in Slot : x.inode[r].count = Cardinality(X(r))
  BY DEF Counts
<1>5. SUFFICES ASSUME NEW r \in Slot
               PROVE  y.inode[r].count = Cardinality(Y(r))
  BY DEF Counts
<1>6. r # s => y.inode[r].count = x.inode[r].count
  BY DEF Differs
<1>7. CASE HoldOf(y.held[t], y.call[t]) = HoldOf(x.held[t], x.call[t]) \/ r # s
  <2>1. Y(r) = X(r)
    <3>1. HoldOf(y.held[t], y.call[t]) = HoldOf(x.held[t], x.call[t])
          \/ (HoldOf(y.held[t], y.call[t]) # r /\ HoldOf(x.held[t], x.call[t]) # r)
      BY <1>2, <1>7
    <3> QED  BY <1>1, <3>1 DEF Holders
  <2>2. y.inode[r].count = x.inode[r].count
    BY <1>2, <1>6, <1>7
  <2> QED  BY <1>4, <2>1, <2>2
<1>8. CASE r = s /\ HoldOf(x.held[t], x.call[t]) = s /\ HoldOf(y.held[t], y.call[t]) = NULL
  <2>1. Y(s) = X(s) \ {t} /\ t \in X(s)
    BY <1>1, <1>2, <1>8 DEF Holders
  <2>2. Cardinality(Y(s)) = Cardinality(X(s)) - 1
    <3> HIDE DEF X, Y
    <3> QED  BY <1>3, <2>1, FS_RemoveElement
  <2> QED  BY <1>2, <1>4, <1>8, <2>2
<1>9. CASE r = s /\ HoldOf(x.held[t], x.call[t]) = NULL /\ HoldOf(y.held[t], y.call[t]) = s
  <2>1. Y(s) = X(s) \union {t} /\ t \notin X(s)
    BY <1>1, <1>2, <1>9 DEF Holders
  <2>2. Cardinality(Y(s)) = Cardinality(X(s)) + 1
    <3> HIDE DEF X, Y
    <3> QED  BY <1>3, <2>1, FS_AddElement
  <2> QED  BY <1>2, <1>4, <1>9, <2>2
<1> QED
  BY <1>7, <1>8, <1>9
-----------------------------------------------------------------------------
(* An inode that has been read is what it is in its entry, one that has not *)
(* is what it is on the device (inode.c:251-289).                           *)
LEMMA SeenIs ==
  ASSUME NEW x, Once(x), NEW n \in Num
  PROVE  /\ \A s \in Seen(x, n) : LinksOf(x, n) = x.inode[s].nlinks
                                /\ ZoneOf(x, n) = x.inode[s].zone
         /\ Seen(x, n) = {} => LinksOf(x, n) = x.image[n].nlinks
                                 /\ ZoneOf(x, n) = x.image[n].zone
<1>1. n # 0
  BY DEF Num
<1>2. \A r, s \in Seen(x, n) : r = s
  BY <1>1 DEF Seen, Once
<1>3. \A s \in Seen(x, n) : (CHOOSE r \in Seen(x, n) : TRUE) = s
  BY <1>2
<1> QED
  BY <1>3 DEF LinksOf, ZoneOf

(* Links and zones are natural numbers and blocks.                          *)
LEMMA ValuesTyped ==
  ASSUME NEW x, Typed(x), NEW n \in Num
  PROVE  LinksOf(x, n) \in Nat /\ ZoneOf(x, n) \in Block \union {NULL}
<1>1. CASE Seen(x, n) = {}
  <2>1. x.image[n] \in ImageType
    BY DEF Typed
  <2> QED  BY <1>1, <2>1 DEF LinksOf, ZoneOf, ImageType
<1>2. CASE Seen(x, n) # {}
  <2> DEFINE s == CHOOSE r \in Seen(x, n) : TRUE
  <2>1. s \in Slot
    <3>1. s \in Seen(x, n)
      BY <1>2
    <3> QED  BY <3>1 DEF Seen
  <2>2. x.inode[s] \in InodeType
    BY <2>1 DEF Typed
  <2> QED  BY <1>2, <2>2 DEF LinksOf, ZoneOf, InodeType
<1> QED
  BY <1>1, <1>2

(* The links and the zone of an inode that neither is nor was in the entry  *)
(* that changes stay what they are.                                         *)
LEMMA OtherValues ==
  ASSUME NEW x, NEW y, NEW t \in Task, NEW s \in Slot, Differs(x, y, t, s),
         \A r \in Slot \ {s} : ~Reads(x.call[t], r) /\ ~Reads(y.call[t], r),
         NEW n \in Num, n # x.inode[s].num, n # y.inode[s].num, y.image[n] = x.image[n]
  PROVE  LinksOf(y, n) = LinksOf(x, n) /\ ZoneOf(y, n) = ZoneOf(x, n)
<1>1. Seen(y, n) = Seen(x, n)
  BY DEF Seen, Differs
<1>2. \A r \in Seen(x, n) : y.inode[r] = x.inode[r]
  BY DEF Seen, Differs
<1>3. Seen(x, n) # {} => (CHOOSE r \in Seen(x, n) : TRUE) \in Seen(x, n)
  OBVIOUS
<1> QED
  BY <1>1, <1>2, <1>3 DEF LinksOf, ZoneOf

(* All of them do when the entry has the same number, links and zone after  *)
(* the step, and is being read as it was, or when what is on the device and *)
(* in memory is the same.                                                   *)
LEMMA SameValues ==
  ASSUME NEW x, NEW y, NEW t \in Task, NEW s \in Slot, Differs(x, y, t, s), Once(x), Once(y),
         \A r \in Slot \ {s} : ~Reads(x.call[t], r) /\ ~Reads(y.call[t], r),
         y.inode[s].num = x.inode[s].num,
         y.inode[s].nlinks = x.inode[s].nlinks, y.inode[s].zone = x.inode[s].zone,
         Reads(x.call[t], s) <=> Reads(y.call[t], s),
         \A n \in Num : n # x.inode[s].num => y.image[n] = x.image[n],
         y.image = x.image \/ \A u \in Task : ~Reads(x.call[u], s),
         NEW n \in Num
  PROVE  LinksOf(y, n) = LinksOf(x, n) /\ ZoneOf(y, n) = ZoneOf(x, n)
<1>1. CASE n # x.inode[s].num
  BY <1>1, OtherValues
<1>2. CASE n = x.inode[s].num
  <2>1. Seen(y, n) = Seen(x, n)
    BY DEF Seen, Differs
  <2>2. CASE \E u \in Task : Reads(x.call[u], s)
    <3>1. s \notin Seen(x, n) /\ y.image = x.image
      BY <2>2 DEF Seen
    <3>2. n # 0
      BY DEF Num
    <3>3. Seen(x, n) = {}
      BY <1>2, <3>1, <3>2 DEF Seen, Once
    <3> QED  BY <2>1, <3>1, <3>3, SeenIs
  <2>3. CASE \A u \in Task : ~Reads(x.call[u], s)
    <3>1. s \in Seen(x, n)
      BY <1>2, <2>3 DEF Seen
    <3> QED  BY <2>1, <3>1, SeenIs
  <2> QED  BY <2>2, <2>3
<1> QED
  BY <1>1, <1>2
-----------------------------------------------------------------------------
(* The other entries of the table stay as they should be: their numbers are *)
(* others, and the step is about no lock of theirs.                         *)
LEMMA SlotsStay ==
  ASSUME NEW x, NEW y, NEW t \in Task, NEW s \in Slot, Differs(x, y, t, s), Once(x), Typed(x),
         \A n \in Num : n # x.inode[s].num =>
           y.image[n] = x.image[n] /\ (n \in x.imap => n \in y.imap),
         \A r \in Slot \ {s} : ~Locks(x.call[t], r) /\ ~Locks(y.call[t], r),
         NEW r \in Slot \ {s}, SlotOK(x, r)
  PROVE  SlotOK(y, r)
<1>1. y.inode[r] = x.inode[r] /\ y.wait[r] = x.wait[r]
  BY DEF Differs
<1>2. \A u \in Task : Locks(y.call[u], r) <=> Locks(x.call[u], r)
  BY DEF Differs
<1>3. \A u \in Task : Reads(y.call[u], r) <=> Reads(x.call[u], r)
  BY DEF Differs, Locks, Reads
<1>4. x.inode[r].num \in {0} \union Num
  BY DEF Typed, InodeType
<1>5. x.inode[r].num # 0 => x.inode[r].num # x.inode[s].num
  BY DEF Once
<1>6. x.inode[r].num # 0 => y.image[x.inode[r].num] = x.image[x.inode[r].num]
                            /\ (x.inode[r].num \in x.imap => x.inode[r].num \in y.imap)
  BY <1>4, <1>5
<1> QED
  BY <1>1, <1>2, <1>3, <1>6 DEF SlotOK

(* What the step leaves alone of the entry s for the task u: all that it    *)
(* counts on, if it is at that entry.                                       *)
Suits(x, y, u, s) ==
  LET c == x.call[u] IN
  /\ c.slot = s /\ c.at \in Holding \union {"wsync", "block"} => Grip(c, y.inode[s])
  /\ x.held[u] = s => y.inode[s].num # 0
  /\ c.at = "wait" /\ c.empty = s => y.inode[s].num = 0 /\ y.inode[s].count = 1
  /\ c.at = "free" /\ c.slot = s => y.inode[s].num = x.inode[s].num

(* The others go on where the directory and the bitmap suit them too.       *)
LEMMA OthersStay ==
  ASSUME NEW x, NEW y, NEW t \in Task, NEW s \in Slot, Differs(x, y, t, s), Typed(x),
         NEW u \in Task \ {t}, TaskOK(x, u), Suits(x, y, u, s), Bound(y, x.call[u])
  PROVE  TaskOK(y, u)
<1> DEFINE c == x.call[u]
<1>1. y.call[u] = c /\ y.held[u] = x.held[u]
  BY DEF Differs
<1>2. Shape(x.held[u], c) /\ Grip(c, x.inode[c.slot])
  BY DEF TaskOK
<1>3. Grip(c, y.inode[c.slot])
  <2>1. CASE c.at \in Holding \union {"wsync", "block"}
    <3>1. c.slot \in Slot
      BY <1>2, <2>1 DEF Shape
    <3> QED  BY <1>2, <2>1, <3>1 DEF Suits, Differs
  <2>2. CASE c.at \notin Holding \union {"wsync", "block"}
    BY <2>2 DEF Grip, Holding
  <2> QED  BY <2>1, <2>2
<1>4. x.held[u] # NULL => y.inode[x.held[u]].num # 0
  BY DEF TaskOK, Suits, Differs, Typed
<1>5. c.at = "wait" => y.inode[c.empty].num = 0 /\ y.inode[c.empty].count = 1
  <2>1. c \in CallType
    BY DEF Typed
  <2>2. c.at = "wait" => c.empty \in Slot
    BY <1>2, <2>1 DEF Shape, CallType
  <2>3. c.at = "wait" => x.inode[c.empty].num = 0 /\ x.inode[c.empty].count = 1
    BY DEF TaskOK
  <2> QED  BY <2>2, <2>3 DEF Suits, Differs
<1> QED
  BY <1>1, <1>2, <1>3, <1>4, <1>5 DEF TaskOK

(* The directory and the bitmap suit everybody if they stay, and if nobody  *)
(* is freeing an inode whose number changes.                                *)
LEMMA BoundStays ==
  ASSUME NEW x, NEW y, NEW t \in Task, NEW s \in Slot, Differs(x, y, t, s),
         y.dir = x.dir, y.imap = x.imap,
         NEW u \in Task \ {t}, TaskOK(x, u), Suits(x, y, u, s)
  PROVE  Bound(y, x.call[u])
<1> DEFINE c == x.call[u]
<1>1. Bound(x, c) /\ Shape(x.held[u], c)
  BY DEF TaskOK
<1>2. c.at = "free" => c.slot \in Slot
  BY <1>1 DEF Shape, Holding
<1>3. c.at = "free" => y.inode[c.slot].num = x.inode[c.slot].num
  BY <1>2 DEF Suits, Differs
<1>4. \A n : Named(y, n) <=> Named(x, n)
  BY DEF Named
<1> QED
  BY <1>1, <1>3, <1>4 DEF Bound

(* An entry of the table that nobody else has, and that nobody else has     *)
(* locked, is nothing the others count on.                                  *)
LEMMA AloneSuits ==
  ASSUME NEW x, NEW y, NEW s \in Slot, NEW u \in Task, TaskOK(x, u), Typed(x),
         HoldOf(x.held[u], x.call[u]) # s, ~(x.call[u].at = "wsync" /\ x.call[u].slot = s)
  PROVE  Suits(x, y, u, s)
<1> DEFINE c == x.call[u]
<1>1. Shape(x.held[u], c) /\ NULL \notin Slot
  BY InodeAssumption DEF TaskOK
<1>2. x.held[u] # s
  BY <1>1 DEF HoldOf
<1>3. c.at \in Holding => c.slot # s
  BY <1>1 DEF HoldOf, Shape, Holding
<1>4. c.at = "block" => c.slot # s
  BY <1>1 DEF HoldOf, Shape
<1>5. c.at = "wait" => c.empty # s
  BY <1>1 DEF HoldOf, Shape
<1> QED
  BY <1>2, <1>3, <1>4, <1>5 DEF Suits, Holding

(* Who has not locked it and does not free it counts on its number, links   *)
(* and zone only.                                                           *)
LEMMA UnlockedSuits ==
  ASSUME NEW x, NEW y, NEW s \in Slot, NEW u \in Task, TaskOK(x, u), x.call[u].at \in At,
         ~Locks(x.call[u], s), ~(x.call[u].at = "free" /\ x.call[u].slot = s),
         x.inode[s].num # 0,
         y.inode[s].num = x.inode[s].num, y.inode[s].nlinks = x.inode[s].nlinks,
         y.inode[s].zone = x.inode[s].zone
  PROVE  Suits(x, y, u, s)
<1> DEFINE c == x.call[u]
<1>1. /\ Grip(c, x.inode[c.slot])
      /\ c.at = "wait" => x.inode[c.empty].num = 0
  BY DEF TaskOK
<1>2. c.slot = s => c.at \notin {"read", "write", "wsync", "free", "last"}
  BY DEF Locks, At
<1>3. c.slot = s => Grip(c, y.inode[s])
  BY <1>1, <1>2 DEF Grip
<1> QED
  BY <1>1, <1>3 DEF Suits

(* Neither is what the step leaves alone.                                   *)
LEMMA SameSuits ==
  ASSUME NEW x, NEW y, NEW s \in Slot, NEW u \in Task, TaskOK(x, u),
         y.inode[s].num = x.inode[s].num, y.inode[s].count = x.inode[s].count,
         y.inode[s].lock = x.inode[s].lock, y.inode[s].nlinks = x.inode[s].nlinks,
         y.inode[s].zone = x.inode[s].zone
  PROVE  Suits(x, y, u, s)
<1> DEFINE c == x.call[u]
<1>1. /\ Grip(c, x.inode[c.slot])
      /\ x.held[u] # NULL => x.inode[x.held[u]].num # 0
      /\ c.at = "wait" => x.inode[c.empty].num = 0 /\ x.inode[c.empty].count = 1
  BY DEF TaskOK
<1>2. NULL # s
  BY InodeAssumption
<1>3. c.slot = s => Grip(c, y.inode[s])
  BY <1>1 DEF Grip
<1> QED
  BY <1>1, <1>2, <1>3 DEF Suits

(* A call that is over, or goes on with its number, leaves the numbers of   *)
(* the calls apart.                                                         *)
LEMMA ExclusiveStays ==
  ASSUME NEW x, NEW y, NEW t \in Task, NEW s, Differs(x, y, t, s), Exclusive(x),
         Busy(y.call[t]) =>
           /\ Busy(x.call[t])
           /\ y.call[t].op = x.call[t].op /\ y.call[t].num = x.call[t].num
  PROVE  Exclusive(y)
<1>1. \A u \in Task : Busy(y.call[u]) =>
        Busy(x.call[u]) /\ y.call[u].op = x.call[u].op /\ y.call[u].num = x.call[u].num
  BY DEF Differs
<1> QED
  BY <1>1 DEF Exclusive

(* Who is in new_block keeps apart from a step that is not in it.           *)
LEMMA ApieceStays ==
  ASSUME NEW x, NEW y, NEW t \in Task, NEW s, Differs(x, y, t, s), Apiece(x), ~Blocks(y.call[t])
  PROVE  Apiece(y)
BY DEF Apiece, Differs

(* An entry of the table keeps its number.                                  *)
LEMMA OnceStays ==
  ASSUME NEW x, NEW y, NEW t \in Task, NEW s \in Slot, Differs(x, y, t, s), Once(x),
         y.inode[s].num = x.inode[s].num \/ y.inode[s].num = 0
  PROVE  Once(y)
<1>1. \A r \in Slot : y.inode[r].num = x.inode[r].num \/ y.inode[r].num = 0
  BY DEF Differs
<1> QED
  BY <1>1 DEF Once

(* The links are counted after a step that changes neither the directory    *)
(* nor the bitmap nor any inode (namei.c:619-625, 678-685).                 *)
LEMMA LinkedStays ==
  ASSUME NEW x, NEW y, NEW t \in Task, NEW s, Differs(x, y, t, s), Linked(x),
         y.dir = x.dir, y.imap = x.imap,
         \A n \in Num : LinksOf(y, n) = LinksOf(x, n),
         \A n \in Num : /\ Adds(y.call[t], n) <=> Adds(x.call[t], n)
                        /\ Links(y.call[t], n) <=> Links(x.call[t], n)
  PROVE  Linked(y)
<1>1. \A n \in Num : Adders(y, n) = Adders(x, n) /\ Linkers(y, n) = Linkers(x, n)
  BY DEF Adders, Linkers, Differs
<1>2. \A n \in Num : EntriesIn(y, n) = EntriesIn(x, n)
  BY DEF EntriesIn
<1> QED
  BY <1>1, <1>2 DEF Linked

(* The blocks are owned after such a step that is not in new_block.         *)
LEMMA OwnedStays ==
  ASSUME NEW x, NEW y, NEW t \in Task, NEW s, Differs(x, y, t, s), Owned(x), Typed(x),
         y.imap = x.imap, y.zmap = x.zmap,
         \A n \in Num : ZoneOf(y, n) = ZoneOf(x, n),
         ~Blocks(x.call[t]), ~Blocks(y.call[t])
  PROVE  Owned(y)
<1>1. \A n \in x.imap : ZoneOf(y, n) = ZoneOf(x, n)
  BY DEF Typed
<1>2. \A u \in Task : /\ Blocks(y.call[u]) <=> Blocks(x.call[u])
                      /\ Blocks(x.call[u]) => y.call[u] = x.call[u]
  BY DEF Differs
<1> QED
  BY <1>1, <1>2 DEF Owned

(* A step about one entry of the table and one task, with the directory and *)
(* the bitmaps as they are and no inode changed: what is left to show.      *)
LEMMA PlainStep ==
  ASSUME NEW x, NEW y, NEW t \in Task, NEW s \in Slot, Differs(x, y, t, s), Ind(x, t), Typed(y),
         y.dir = x.dir, y.imap = x.imap, y.zmap = x.zmap,
         \A n \in Num : n # x.inode[s].num => y.image[n] = x.image[n],
         \A r \in Slot \ {s} : ~Locks(x.call[t], r) /\ ~Locks(y.call[t], r),
         SlotOK(y, s), TaskOK(y, t),
         \A u \in Task \ {t} : Suits(x, y, u, s),
         Busy(y.call[t]) =>
           /\ Busy(x.call[t])
           /\ y.call[t].op = x.call[t].op /\ y.call[t].num = x.call[t].num,
         Once(y), Counts(y),
         ~Blocks(x.call[t]), ~Blocks(y.call[t]),
         \A n \in Num : /\ Adds(y.call[t], n) <=> Adds(x.call[t], n)
                        /\ Links(y.call[t], n) <=> Links(x.call[t], n),
         \A n \in Num : LinksOf(y, n) = LinksOf(x, n) /\ ZoneOf(y, n) = ZoneOf(x, n)
  PROVE  Ind(y, t)
<1>1. Typed(x) /\ Once(x) /\ Exclusive(x) /\ Apiece(x) /\ Linked(x) /\ Owned(x)
  BY DEF Ind
<1>2. \A r \in Slot : SlotOK(y, r)
  BY <1>1, SlotsStay DEF Ind
<1>3. \A u \in Task : TaskOK(y, u)
  <2>1. SUFFICES ASSUME NEW u \in Task \ {t}
                 PROVE  TaskOK(y, u)
    OBVIOUS
  <2>2. TaskOK(x, u) /\ Suits(x, y, u, s)
    BY DEF Ind
  <2>3. Bound(y, x.call[u])
    BY <2>2, BoundStays
  <2> QED  BY <1>1, <2>2, <2>3, OthersStay
<1>4. Exclusive(y) /\ Apiece(y)
  BY <1>1, ExclusiveStays, ApieceStays
<1>5. Linked(y)
  BY <1>1, LinkedStays
<1>6. Owned(y)
  BY <1>1, OwnedStays
<1>7. \A u \in Task \ {t} : y.call[u].at \in At
  BY DEF Ind, Differs
<1> QED
  BY <1>2, <1>3, <1>4, <1>5, <1>6, <1>7 DEF Ind
-----------------------------------------------------------------------------
(* What a step leaves alone that is about no disk and no directory.         *)
SameDisk(x, y) == y.image = x.image /\ y.dir = x.dir /\ y.imap = x.imap /\ y.zmap = x.zmap

(* The call of a task goes on with the same operation.                      *)
GoesOn(c, d) == d.op = c.op /\ d.num = c.num /\ d.entry = c.entry

(* An entry of the table with these values.                                 *)
IsInode(j, num, count, nlinks, zone, dirt, lock) ==
  /\ j.num = num /\ j.count = count /\ j.nlinks = nlinks
  /\ j.zone = zone /\ j.dirt = dirt /\ j.lock = lock

(* No call any more.                                                        *)
Over(d) == d.at = "user" /\ d.op = "none" /\ d.empty = NULL

(* Nobody has locked an entry that is not locked; nobody else one that t    *)
(* has (inode.c:21-34).                                                     *)
LEMMA LockersOf ==
  ASSUME NEW x, NEW t \in Task, Ind(x, t), NEW s \in Slot
  PROVE  /\ ~x.inode[s].lock => \A u \in Task : ~Locks(x.call[u], s)
         /\ Locks(x.call[t], s) => \A u \in Task \ {t} : ~Locks(x.call[u], s)
<1>1. SlotOK(x, s) /\ \A u \in Task : Grip(x.call[u], x.inode[x.call[u].slot])
  BY DEF Ind, TaskOK
<1> QED
  BY <1>1 DEF SlotOK, Grip, Locks

(* A step about one task only: to wait for an entry that is locked          *)
(* (inode.c:13-19), or to go on where nothing changes.                      *)
LEMMA QuietStep ==
  ASSUME NEW x, NEW y, NEW t \in Task, NEW s \in Slot, Differs(x, y, t, s), Ind(x, t), Typed(y),
         SameDisk(x, y), y.inode = x.inode,
         y.wait[s] = x.wait[s] \/ x.inode[s].lock,
         TaskOK(y, t), Exclusive(y),
         HoldOf(y.held[t], y.call[t]) = HoldOf(x.held[t], x.call[t]),
         \A r \in Slot : ~Locks(x.call[t], r) /\ ~Locks(y.call[t], r),
         ~Blocks(x.call[t]), ~Blocks(y.call[t]),
         \A n \in Num : ~Adds(x.call[t], n) /\ ~Adds(y.call[t], n)
                        /\ ~Links(x.call[t], n) /\ ~Links(y.call[t], n)
  PROVE  Ind(y, t)
<1>1. Typed(x) /\ Once(x) /\ Counts(x) /\ Apiece(x) /\ Linked(x) /\ Owned(x)
  BY DEF Ind
<1>2. SlotOK(y, s)
  <2>1. SlotOK(x, s)
    BY DEF Ind
  <2>2. \A u \in Task : /\ Locks(y.call[u], s) <=> Locks(x.call[u], s)
                        /\ Reads(y.call[u], s) <=> Reads(x.call[u], s)
    BY DEF Differs, Locks, Reads
  <2> QED  BY <2>1, <2>2 DEF SlotOK, SameDisk
<1>3. \A r \in Slot : SlotOK(y, r)
  BY <1>1, <1>2, SlotsStay DEF Ind, SameDisk
<1>4. \A u \in Task : TaskOK(y, u)
  <2>1. SUFFICES ASSUME NEW u \in Task \ {t}
                 PROVE  TaskOK(y, u)
    OBVIOUS
  <2>2. TaskOK(x, u)
    BY DEF Ind
  <2>3. Suits(x, y, u, s)
    BY <2>2, SameSuits
  <2>4. Bound(y, x.call[u])
    BY <2>2, <2>3, BoundStays DEF SameDisk
  <2> QED  BY <1>1, <2>2, <2>3, <2>4, OthersStay
<1>5. Once(y) /\ Apiece(y)
  BY <1>1, OnceStays, ApieceStays
<1>6. Counts(y)
  BY <1>1, CountsStay
<1>7. \A n \in Num : LinksOf(y, n) = LinksOf(x, n) /\ ZoneOf(y, n) = ZoneOf(x, n)
  <2>1. \A r \in Slot : ~Reads(x.call[t], r) /\ ~Reads(y.call[t], r)
    BY DEF Locks, Reads
  <2> QED  BY <1>1, <1>5, <2>1, SameValues DEF SameDisk
<1>8. Linked(y) /\ Owned(y)
  BY <1>1, <1>7, LinkedStays, OwnedStays DEF SameDisk
<1>9. \A u \in Task \ {t} : y.call[u].at \in At
  BY DEF Ind, Differs
<1> QED
  BY <1>3, <1>4, <1>5, <1>6, <1>8, <1>9 DEF Ind

(* iput() is over: one holder less, and the entry is free if it was the     *)
(* last and has links and nothing to write (inode.c:144-147, 159-160).      *)
LEMMA Dropped ==
  ASSUME NEW x, NEW y, NEW t \in Task, NEW s \in Slot, Differs(x, y, t, s), Ind(x, t), Typed(y),
         SameDisk(x, y),
         x.call[t].at \in {"put", "last"}, x.call[t].slot = s, ~x.inode[s].lock,
         \/ x.inode[s].count > 1
         \/ x.inode[s].nlinks # 0 /\ ~x.inode[s].dirt,
         Over(y.call[t]), y.held[t] = NULL, y.wait[s] = x.wait[s],
         IsInode(y.inode[s], x.inode[s].num, x.inode[s].count - 1, x.inode[s].nlinks,
                 x.inode[s].zone, x.inode[s].dirt, x.inode[s].lock)
  PROVE  Ind(y, t)
<1> DEFINE i == x.inode[s]
<1>1. Typed(x) /\ Once(x) /\ Counts(x)
  BY DEF Ind
<1>2. SlotOK(x, s) /\ TaskOK(x, t) /\ Shape(x.held[t], x.call[t])
  BY DEF Ind, TaskOK
<1>3. HoldOf(x.held[t], x.call[t]) = s /\ HoldOf(y.held[t], y.call[t]) = NULL
  BY <1>2 DEF Shape, HoldOf, Over, Holding
<1>4. i \in InodeType
  BY <1>1 DEF Typed
<1>5. /\ y.inode[s].num = i.num /\ y.inode[s].nlinks = i.nlinks /\ y.inode[s].zone = i.zone
      /\ y.inode[s].dirt = i.dirt /\ y.inode[s].lock = i.lock /\ y.inode[s].count = i.count - 1
  BY DEF IsInode
<1>6. Counts(y)
  BY <1>1, <1>3, <1>5, CountsStay
<1>7. i.count # 0 /\ (i.count = 1 => \A u \in Task \ {t} : HoldOf(x.held[u], x.call[u]) # s)
  BY <1>1, <1>3, HeldCounted
<1>8. i.count \in Nat
  BY <1>4 DEF InodeType
<1>9. \A r \in Slot : /\ ~Locks(x.call[t], r) /\ ~Locks(y.call[t], r)
                      /\ ~Reads(x.call[t], r) /\ ~Reads(y.call[t], r)
  BY DEF Locks, Reads, Over
<1>10. SlotOK(y, s)
  <2>1. \A u \in Task : /\ Locks(y.call[u], s) <=> Locks(x.call[u], s)
                        /\ Reads(y.call[u], s) <=> Reads(x.call[u], s)
    BY <1>9 DEF Differs
  <2> QED  BY <1>2, <1>5, <1>7, <1>8, <2>1, SMTT(60) DEF SlotOK, SameDisk
<1>11. TaskOK(y, t)
  BY DEF TaskOK, Over, Shape, Grip, Bound, Holding, Busy
<1>12. ASSUME NEW u \in Task \ {t}
       PROVE  Suits(x, y, u, s)
  <2>1. TaskOK(x, u) /\ x.call[u].at \in At
    BY <1>12 DEF Ind
  <2>2. CASE i.count = 1
    <3>1. ~Locks(x.call[u], s)
      BY <1>12, LockersOf
    <3> QED  BY <1>1, <1>7, <1>12, <2>1, <2>2, <3>1, AloneSuits DEF Locks
  <2>3. CASE i.count # 1
    <3>1. /\ Grip(x.call[u], x.inode[x.call[u].slot])
          /\ x.held[u] = s => i.num # 0
          /\ x.call[u].at = "wait" /\ x.call[u].empty = s => i.count = 1
      BY <2>1, InodeAssumption DEF TaskOK
    <3>2. x.call[u].slot = s => Grip(x.call[u], y.inode[s])
      BY <1>5, <2>3, <3>1 DEF Grip
    <3> QED  BY <1>5, <2>3, <3>1, <3>2 DEF Suits
  <2> QED  BY <2>2, <2>3
<1>13. Once(y)
  BY <1>1, <1>5, OnceStays
<1>14. \A n \in Num : LinksOf(y, n) = LinksOf(x, n) /\ ZoneOf(y, n) = ZoneOf(x, n)
  BY <1>1, <1>5, <1>9, <1>13, SameValues DEF SameDisk
<1>15. /\ ~Busy(y.call[t]) /\ ~Blocks(x.call[t]) /\ ~Blocks(y.call[t])
       /\ \A n \in Num : /\ Adds(y.call[t], n) <=> Adds(x.call[t], n)
                         /\ Links(y.call[t], n) <=> Links(x.call[t], n)
  BY DEF Over, Busy, Blocks, Adds, Links
<1> QED
  BY <1>6, <1>9, <1>10, <1>11, <1>12, <1>13, <1>14, <1>15, PlainStep DEF SameDisk
(* write_inode() has put the inode of an entry on the device.               *)
Wrote(x, y, s) ==
  /\ y.dir = x.dir /\ y.imap = x.imap /\ y.zmap = x.zmap
  /\ \A n \in Num : n # x.inode[s].num => y.image[n] = x.image[n]
  /\ y.image[x.inode[s].num].nlinks = x.inode[s].nlinks
  /\ y.image[x.inode[s].num].zone = x.inode[s].zone

(* iput() finds a dirty inode and locks it to write it (inode.c:154-155,    *)
(* 276): only its last holder does.                                         *)
LEMMA BeginsWrite ==
  ASSUME NEW x, NEW y, NEW t \in Task, NEW s \in Slot, Differs(x, y, t, s), Ind(x, t), Typed(y),
         SameDisk(x, y), GoesOn(x.call[t], y.call[t]), y.held[t] = x.held[t],
         x.call[t].at = "last", x.call[t].slot = s,
         y.call[t].at = "write", y.call[t].slot = s, y.call[t].empty = x.call[t].empty,
         y.wait[s] = x.wait[s],
         IsInode(y.inode[s], x.inode[s].num, x.inode[s].count, x.inode[s].nlinks,
                 x.inode[s].zone, x.inode[s].dirt, TRUE)
  PROVE  Ind(y, t)
<1> DEFINE i == x.inode[s]
<1> DEFINE j == y.inode[s]
<1> DEFINE c == x.call[t]
<1> DEFINE d == y.call[t]
<1>1. Typed(x) /\ Once(x) /\ Counts(x)
  BY DEF Ind
<1>2. SlotOK(x, s) /\ TaskOK(x, t) /\ Shape(x.held[t], c) /\ Grip(c, x.inode[c.slot])
  BY DEF Ind, TaskOK
<1>3. i \in InodeType /\ i.count \in Nat /\ c \in CallType /\ x.held[t] \in Slot \union {NULL}
      /\ NULL \notin Slot /\ 0 \notin Num
  BY <1>1, InodeAssumption DEF Typed, InodeType, Num
<1>4. HoldOf(x.held[t], c) = s /\ HoldOf(y.held[t], d) = s
  BY <1>2, <1>3 DEF Shape, HoldOf, Over, Holding, GoesOn
<1>5. Counts(y)
  <2>1. j.count = i.count
    BY <1>3 DEF IsInode
  <2> QED  BY <1>1, <1>4, <2>1, CountsStay
<1>6. \A r \in Slot \ {s} : ~Locks(c, r) /\ ~Locks(d, r) /\ ~Reads(c, r) /\ ~Reads(d, r)
  BY <1>2, <1>3 DEF Shape, Locks, Reads, Over
<1>7. \A u \in Task \ {t} : Locks(y.call[u], s) = Locks(x.call[u], s)
                            /\ Reads(y.call[u], s) = Reads(x.call[u], s)
  BY DEF Differs
<1>8. i.num # 0 /\ i.count = 1 /\ ~i.lock
      /\ \A u \in Task : ~Locks(x.call[u], s) /\ ~Reads(x.call[u], s)
  <2>1. i.num # 0 /\ i.count = 1 /\ ~i.lock
    BY <1>2 DEF Grip, Holding
  <2>2. \A u \in Task : ~Locks(x.call[u], s)
    BY <2>1, LockersOf
  <2> QED  BY <2>1, <2>2 DEF Locks, Reads
<1>10. SlotOK(y, s)
  <2>1. \A u \in Task \ {t} : ~Locks(y.call[u], s) /\ ~Reads(y.call[u], s)
    BY <1>7, <1>8
  <2>2. (Locks(d, s) <=> j.lock) /\ (Reads(d, s) => i.nlinks = 0)
    BY <1>2, <1>8 DEF IsInode, Locks, Reads, Over, SlotOK
  <2>3. y.wait[s] = {} \/ y.wait[s] = x.wait[s]
    OBVIOUS
  <2>4. /\ j.lock => \E u \in Task : Locks(y.call[u], s)
        /\ \A u, v \in Task : Locks(y.call[u], s) /\ Locks(y.call[v], s) => u = v
    BY <2>1, <2>2
  <2>5. y.wait[s] # {} => j.lock
    BY <1>2, <1>8, <2>3 DEF SlotOK, IsInode
  <2> QED  BY <1>2, <1>3, <1>8, <2>1, <2>2, <2>4, <2>5, SMTT(60) DEF SlotOK, SameDisk, Wrote,
              IsInode
<1>11. TaskOK(y, t)
  BY <1>2, <1>3, <1>8 DEF TaskOK, Over, Shape, Grip, Bound, Holding, Busy, GoesOn, IsInode,
     Named, SameDisk, Wrote
<1>12. \A u \in Task \ {t} : Suits(x, y, u, s)
  <2>1. TAKE u \in Task \ {t}
  <2>2. TaskOK(x, u) /\ HoldOf(x.held[u], x.call[u]) # s /\ ~Locks(x.call[u], s)
    BY <1>1, <1>4, <1>8, <2>1, HeldCounted, NobodyHolds DEF Ind
  <2> QED  BY <1>1, <2>1, <2>2, AloneSuits DEF Locks
<1>13. Once(y)
  BY <1>1, OnceStays DEF IsInode
<1>14. \A n \in Num : LinksOf(y, n) = LinksOf(x, n) /\ ZoneOf(y, n) = ZoneOf(x, n)
  <2>1. Reads(c, s) <=> Reads(d, s)
    BY <1>8 DEF Reads, Over
  <2>2. y.image = x.image \/ \A u \in Task : ~Reads(x.call[u], s)
    BY <1>8 DEF SameDisk, Reads
  <2>3. \A n \in Num : n # i.num => y.image[n] = x.image[n]
    BY DEF SameDisk, Wrote
  <2>4. j.num = i.num /\ j.nlinks = i.nlinks /\ j.zone = i.zone
    BY DEF IsInode
  <2> QED  BY <1>1, <1>6, <1>13, <2>1, <2>2, <2>3, <2>4, SameValues
<1>15. /\ Busy(d) => Busy(c) /\ d.op = c.op /\ d.num = c.num
       /\ ~Blocks(c) /\ ~Blocks(d)
       /\ \A n \in Num : /\ Adds(d, n) <=> Adds(c, n)
                         /\ Links(d, n) <=> Links(c, n)
  BY DEF Over, Busy, Blocks, Adds, Links, GoesOn
<1>16. \A n \in Num : n # i.num => y.image[n] = x.image[n]
  BY DEF SameDisk, Wrote
<1> QED
  BY <1>5, <1>6, <1>10, <1>11, <1>12, <1>13, <1>14, <1>15, <1>16, PlainStep DEF SameDisk, Wrote

(* The inode is written and iput() looks again whether it may go            *)
(* (inode.c:156-157, 282-289).                                              *)
LEMMA EndsWrite ==
  ASSUME NEW x, NEW y, NEW t \in Task, NEW s \in Slot, Differs(x, y, t, s), Ind(x, t), Typed(y),
         Wrote(x, y, s), GoesOn(x.call[t], y.call[t]), y.held[t] = x.held[t],
         x.call[t].at = "write", x.call[t].slot = s,
         y.call[t].at = "last", y.call[t].slot = s, y.call[t].empty = x.call[t].empty,
         y.wait[s] = {},
         IsInode(y.inode[s], x.inode[s].num, x.inode[s].count, x.inode[s].nlinks,
                 x.inode[s].zone, FALSE, FALSE)
  PROVE  Ind(y, t)
<1> DEFINE i == x.inode[s]
<1> DEFINE j == y.inode[s]
<1> DEFINE c == x.call[t]
<1> DEFINE d == y.call[t]
<1>1. Typed(x) /\ Once(x) /\ Counts(x)
  BY DEF Ind
<1>2. SlotOK(x, s) /\ TaskOK(x, t) /\ Shape(x.held[t], c) /\ Grip(c, x.inode[c.slot])
  BY DEF Ind, TaskOK
<1>3. i \in InodeType /\ i.count \in Nat /\ c \in CallType /\ x.held[t] \in Slot \union {NULL}
      /\ NULL \notin Slot /\ 0 \notin Num
  BY <1>1, InodeAssumption DEF Typed, InodeType, Num
<1>4. HoldOf(x.held[t], c) = s /\ HoldOf(y.held[t], d) = s
  BY <1>2, <1>3 DEF Shape, HoldOf, Over, Holding, GoesOn
<1>5. Counts(y)
  <2>1. j.count = i.count
    BY <1>3 DEF IsInode
  <2> QED  BY <1>1, <1>4, <2>1, CountsStay
<1>6. \A r \in Slot \ {s} : ~Locks(c, r) /\ ~Locks(d, r) /\ ~Reads(c, r) /\ ~Reads(d, r)
  BY <1>2, <1>3 DEF Shape, Locks, Reads, Over
<1>7. \A u \in Task \ {t} : Locks(y.call[u], s) = Locks(x.call[u], s)
                            /\ Reads(y.call[u], s) = Reads(x.call[u], s)
  BY DEF Differs
<1>8. i.count = 1 /\ \A u \in Task \ {t} : ~Locks(x.call[u], s) /\ ~Reads(x.call[u], s)
  <2>1. i.count = 1
    BY <1>2 DEF Grip
  <2>2. \A u \in Task \ {t} : ~Locks(x.call[u], s)
    BY LockersOf DEF Locks
  <2> QED  BY <2>1, <2>2 DEF Locks, Reads
<1>10. SlotOK(y, s)
  <2>1. \A u \in Task \ {t} : ~Locks(y.call[u], s) /\ ~Reads(y.call[u], s)
    BY <1>7, <1>8
  <2>2. (Locks(d, s) <=> j.lock) /\ (Reads(d, s) => i.nlinks = 0)
    BY <1>2, <1>8 DEF IsInode, Locks, Reads, Over, SlotOK
  <2>3. y.wait[s] = {} \/ y.wait[s] = x.wait[s]
    OBVIOUS
  <2>4. /\ j.lock => \E u \in Task : Locks(y.call[u], s)
        /\ \A u, v \in Task : Locks(y.call[u], s) /\ Locks(y.call[v], s) => u = v
    BY <2>1, <2>2
  <2>5. y.wait[s] # {} => j.lock
    BY <1>2, <1>8, <2>3 DEF SlotOK, IsInode
  <2> QED  BY <1>2, <1>3, <1>8, <2>1, <2>2, <2>4, <2>5 DEF SlotOK, SameDisk, Wrote, IsInode
<1>11. TaskOK(y, t)
  BY <1>2, <1>3, <1>8 DEF TaskOK, Over, Shape, Grip, Bound, Holding, Busy, GoesOn, IsInode,
     Named, SameDisk, Wrote
<1>12. \A u \in Task \ {t} : Suits(x, y, u, s)
  <2>1. TAKE u \in Task \ {t}
  <2>2. TaskOK(x, u) /\ HoldOf(x.held[u], x.call[u]) # s /\ ~Locks(x.call[u], s)
    BY <1>1, <1>4, <1>8, <2>1, HeldCounted, NobodyHolds DEF Ind
  <2> QED  BY <1>1, <2>1, <2>2, AloneSuits DEF Locks
<1>13. Once(y)
  BY <1>1, OnceStays DEF IsInode
<1>14. \A n \in Num : LinksOf(y, n) = LinksOf(x, n) /\ ZoneOf(y, n) = ZoneOf(x, n)
  <2>1. Reads(c, s) <=> Reads(d, s)
    BY <1>8 DEF Reads, Over
  <2>2. y.image = x.image \/ \A u \in Task : ~Reads(x.call[u], s)
    BY <1>8 DEF SameDisk, Reads
  <2>3. \A n \in Num : n # i.num => y.image[n] = x.image[n]
    BY DEF SameDisk, Wrote
  <2>4. j.num = i.num /\ j.nlinks = i.nlinks /\ j.zone = i.zone
    BY DEF IsInode
  <2> QED  BY <1>1, <1>6, <1>13, <2>1, <2>2, <2>3, <2>4, SameValues
<1>15. /\ Busy(d) => Busy(c) /\ d.op = c.op /\ d.num = c.num
       /\ ~Blocks(c) /\ ~Blocks(d)
       /\ \A n \in Num : /\ Adds(d, n) <=> Adds(c, n)
                         /\ Links(d, n) <=> Links(c, n)
  BY DEF Over, Busy, Blocks, Adds, Links, GoesOn
<1>16. \A n \in Num : n # i.num => y.image[n] = x.image[n]
  BY DEF SameDisk, Wrote
<1> QED
  BY <1>5, <1>6, <1>10, <1>11, <1>12, <1>13, <1>14, <1>15, <1>16, PlainStep DEF SameDisk, Wrote

(* Nobody is freeing the inode.                                             *)
Unfreed(x, s) == \A u \in Task : x.call[u].at = "free" => x.call[u].slot # s

(* sync_inodes() locks an inode that is dirty and not locked                *)
(* (inode.c:43-45).                                                         *)
LEMMA BeginsSync ==
  ASSUME NEW x, NEW y, NEW t \in Task, NEW s \in Slot, Differs(x, y, t, s), Ind(x, t), Typed(y),
         SameDisk(x, y), GoesOn(x.call[t], y.call[t]), y.held[t] = x.held[t],
         x.call[t].at = "sync", x.inode[s].dirt, ~x.inode[s].lock,
         Unfreed(x, s),
         y.call[t].at = "wsync", y.call[t].slot = s, y.call[t].empty = x.call[t].empty,
         y.wait[s] = x.wait[s],
         IsInode(y.inode[s], x.inode[s].num, x.inode[s].count, x.inode[s].nlinks,
                 x.inode[s].zone, TRUE, TRUE)
  PROVE  Ind(y, t)
<1> DEFINE i == x.inode[s]
<1> DEFINE j == y.inode[s]
<1> DEFINE c == x.call[t]
<1> DEFINE d == y.call[t]
<1>1. Typed(x) /\ Once(x) /\ Counts(x)
  BY DEF Ind
<1>2. SlotOK(x, s) /\ TaskOK(x, t) /\ Shape(x.held[t], c) /\ Grip(c, x.inode[c.slot])
  BY DEF Ind, TaskOK
<1>3. i \in InodeType /\ i.count \in Nat /\ c \in CallType /\ x.held[t] \in Slot \union {NULL}
      /\ NULL \notin Slot /\ 0 \notin Num
  BY <1>1, InodeAssumption DEF Typed, InodeType, Num
<1>4. HoldOf(x.held[t], c) = NULL /\ HoldOf(y.held[t], d) = NULL
  BY <1>2, <1>3 DEF Shape, HoldOf, Over, Holding, GoesOn
<1>5. Counts(y)
  <2>1. j.count = i.count
    BY <1>3 DEF IsInode
  <2> QED  BY <1>1, <1>4, <2>1, CountsStay
<1>6. \A r \in Slot \ {s} : ~Locks(c, r) /\ ~Locks(d, r) /\ ~Reads(c, r) /\ ~Reads(d, r)
  BY <1>2, <1>3 DEF Shape, Locks, Reads, Over
<1>7. \A u \in Task \ {t} : Locks(y.call[u], s) = Locks(x.call[u], s)
                            /\ Reads(y.call[u], s) = Reads(x.call[u], s)
  BY DEF Differs
<1>8. i.num # 0 /\ i.count # 0 /\ \A u \in Task : ~Locks(x.call[u], s) /\ ~Reads(x.call[u], s)
  <2>1. i.num # 0 /\ i.count # 0 /\ ~i.lock
    BY <1>2 DEF SlotOK
  <2>2. \A u \in Task : ~Locks(x.call[u], s)
    BY <2>1, LockersOf
  <2> QED  BY <2>1, <2>2 DEF Locks, Reads
<1>10. SlotOK(y, s)
  <2>1. \A u \in Task \ {t} : ~Locks(y.call[u], s) /\ ~Reads(y.call[u], s)
    BY <1>7, <1>8
  <2>2. (Locks(d, s) <=> j.lock) /\ (Reads(d, s) => i.nlinks = 0)
    BY <1>2, <1>8 DEF IsInode, Locks, Reads, Over, SlotOK
  <2>3. y.wait[s] = {} \/ y.wait[s] = x.wait[s]
    OBVIOUS
  <2>4. /\ j.lock => \E u \in Task : Locks(y.call[u], s)
        /\ \A u, v \in Task : Locks(y.call[u], s) /\ Locks(y.call[v], s) => u = v
    BY <2>1, <2>2
  <2>5. y.wait[s] # {} => j.lock
    BY <1>2, <1>8, <2>3 DEF SlotOK, IsInode
  <2> QED  BY <1>2, <1>3, <1>8, <2>1, <2>2, <2>4, <2>5 DEF SlotOK, SameDisk, Wrote, IsInode
<1>11. TaskOK(y, t)
  BY <1>2, <1>3, <1>8 DEF TaskOK, Over, Shape, Grip, Bound, Holding, Busy, GoesOn, IsInode,
     Named, SameDisk, Wrote
<1>12. \A u \in Task \ {t} : Suits(x, y, u, s)
  <2>1. TAKE u \in Task \ {t}
  <2>2. TaskOK(x, u) /\ x.call[u].at \in At
    BY <2>1 DEF Ind
  <2>3. ~Locks(x.call[u], s)
    BY <1>8, <2>1
  <2>4. x.call[u].at = "free" => x.call[u].slot # s
    BY <2>1 DEF Unfreed
  <2> QED  BY <1>8, <2>1, <2>2, <2>3, <2>4, UnlockedSuits DEF IsInode
<1>13. Once(y)
  BY <1>1, OnceStays DEF IsInode
<1>14. \A n \in Num : LinksOf(y, n) = LinksOf(x, n) /\ ZoneOf(y, n) = ZoneOf(x, n)
  <2>1. Reads(c, s) <=> Reads(d, s)
    BY <1>8 DEF Reads, Over
  <2>2. y.image = x.image \/ \A u \in Task : ~Reads(x.call[u], s)
    BY <1>8 DEF SameDisk, Reads
  <2>3. \A n \in Num : n # i.num => y.image[n] = x.image[n]
    BY DEF SameDisk, Wrote
  <2>4. j.num = i.num /\ j.nlinks = i.nlinks /\ j.zone = i.zone
    BY DEF IsInode
  <2> QED  BY <1>1, <1>6, <1>13, <2>1, <2>2, <2>3, <2>4, SameValues
<1>15. /\ Busy(d) => Busy(c) /\ d.op = c.op /\ d.num = c.num
       /\ ~Blocks(c) /\ ~Blocks(d)
       /\ \A n \in Num : /\ Adds(d, n) <=> Adds(c, n)
                         /\ Links(d, n) <=> Links(c, n)
  BY DEF Over, Busy, Blocks, Adds, Links, GoesOn
<1>16. \A n \in Num : n # i.num => y.image[n] = x.image[n]
  BY DEF SameDisk, Wrote
<1> QED
  BY <1>5, <1>6, <1>10, <1>11, <1>12, <1>13, <1>14, <1>15, <1>16, PlainStep DEF SameDisk, Wrote

(* The inode is written for sync_inodes().                                  *)
LEMMA EndsSync ==
  ASSUME NEW x, NEW y, NEW t \in Task, NEW s \in Slot, Differs(x, y, t, s), Ind(x, t), Typed(y),
         Wrote(x, y, s), GoesOn(x.call[t], y.call[t]), y.held[t] = x.held[t],
         x.call[t].at = "wsync", x.call[t].slot = s,
         y.call[t].at = "sync", y.call[t].empty = x.call[t].empty,
         y.wait[s] = {},
         IsInode(y.inode[s], x.inode[s].num, x.inode[s].count, x.inode[s].nlinks,
                 x.inode[s].zone, FALSE, FALSE)
  PROVE  Ind(y, t)
<1> DEFINE i == x.inode[s]
<1> DEFINE j == y.inode[s]
<1> DEFINE c == x.call[t]
<1> DEFINE d == y.call[t]
<1>1. Typed(x) /\ Once(x) /\ Counts(x)
  BY DEF Ind
<1>2. SlotOK(x, s) /\ TaskOK(x, t) /\ Shape(x.held[t], c) /\ Grip(c, x.inode[c.slot])
  BY DEF Ind, TaskOK
<1>3. i \in InodeType /\ i.count \in Nat /\ c \in CallType /\ x.held[t] \in Slot \union {NULL}
      /\ NULL \notin Slot /\ 0 \notin Num
  BY <1>1, InodeAssumption DEF Typed, InodeType, Num
<1>4. HoldOf(x.held[t], c) = NULL /\ HoldOf(y.held[t], d) = NULL
  BY <1>2, <1>3 DEF Shape, HoldOf, Over, Holding, GoesOn
<1>5. Counts(y)
  <2>1. j.count = i.count
    BY <1>3 DEF IsInode
  <2> QED  BY <1>1, <1>4, <2>1, CountsStay
<1>6. \A r \in Slot \ {s} : ~Locks(c, r) /\ ~Locks(d, r) /\ ~Reads(c, r) /\ ~Reads(d, r)
  BY <1>2, <1>3 DEF Shape, Locks, Reads, Over
<1>7. \A u \in Task \ {t} : Locks(y.call[u], s) = Locks(x.call[u], s)
                            /\ Reads(y.call[u], s) = Reads(x.call[u], s)
  BY DEF Differs
<1>8. i.num # 0 /\ i.count # 0 /\ i.lock
      /\ \A u \in Task \ {t} : ~Locks(x.call[u], s) /\ ~Reads(x.call[u], s)
  <2>1. i.num # 0 /\ i.count # 0 /\ i.lock
    BY <1>2 DEF SlotOK, Grip
  <2>2. \A u \in Task \ {t} : ~Locks(x.call[u], s)
    BY LockersOf DEF Locks
  <2> QED  BY <2>1, <2>2 DEF Locks, Reads
<1>10. SlotOK(y, s)
  <2>1. \A u \in Task \ {t} : ~Locks(y.call[u], s) /\ ~Reads(y.call[u], s)
    BY <1>7, <1>8
  <2>2. (Locks(d, s) <=> j.lock) /\ (Reads(d, s) => i.nlinks = 0)
    BY <1>2, <1>8 DEF IsInode, Locks, Reads, Over, SlotOK
  <2>3. y.wait[s] = {} \/ y.wait[s] = x.wait[s]
    OBVIOUS
  <2>4. /\ j.lock => \E u \in Task : Locks(y.call[u], s)
        /\ \A u, v \in Task : Locks(y.call[u], s) /\ Locks(y.call[v], s) => u = v
    BY <2>1, <2>2
  <2>5. y.wait[s] # {} => j.lock
    BY <1>2, <1>8, <2>3 DEF SlotOK, IsInode
  <2> QED  BY <1>2, <1>3, <1>8, <2>1, <2>2, <2>4, <2>5 DEF SlotOK, SameDisk, Wrote, IsInode
<1>11. TaskOK(y, t)
  BY <1>2, <1>3, <1>8 DEF TaskOK, Over, Shape, Grip, Bound, Holding, Busy, GoesOn, IsInode,
     Named, SameDisk, Wrote
<1>12. \A u \in Task \ {t} : Suits(x, y, u, s)
  <2>1. TAKE u \in Task \ {t}
  <2>2. TaskOK(x, u) /\ x.call[u].at \in At
    BY <2>1 DEF Ind
  <2>3. ~Locks(x.call[u], s)
    BY <1>8, <2>1
  <2>4. ~(x.call[u].at = "free" /\ x.call[u].slot = s)
    BY <1>8, <2>2 DEF TaskOK, Grip
  <2> QED  BY <1>8, <2>1, <2>2, <2>3, <2>4, UnlockedSuits DEF IsInode
<1>13. Once(y)
  BY <1>1, OnceStays DEF IsInode
<1>14. \A n \in Num : LinksOf(y, n) = LinksOf(x, n) /\ ZoneOf(y, n) = ZoneOf(x, n)
  <2>1. Reads(c, s) <=> Reads(d, s)
    BY <1>8 DEF Reads, Over
  <2>2. y.image = x.image \/ \A u \in Task : ~Reads(x.call[u], s)
    BY <1>8 DEF SameDisk, Reads
  <2>3. \A n \in Num : n # i.num => y.image[n] = x.image[n]
    BY DEF SameDisk, Wrote
  <2>4. j.num = i.num /\ j.nlinks = i.nlinks /\ j.zone = i.zone
    BY DEF IsInode
  <2> QED  BY <1>1, <1>6, <1>13, <2>1, <2>2, <2>3, <2>4, SameValues
<1>15. /\ Busy(d) => Busy(c) /\ d.op = c.op /\ d.num = c.num
       /\ ~Blocks(c) /\ ~Blocks(d)
       /\ \A n \in Num : /\ Adds(d, n) <=> Adds(c, n)
                         /\ Links(d, n) <=> Links(c, n)
  BY DEF Over, Busy, Blocks, Adds, Links, GoesOn
<1>16. \A n \in Num : n # i.num => y.image[n] = x.image[n]
  BY DEF SameDisk, Wrote
<1> QED
  BY <1>5, <1>6, <1>10, <1>11, <1>12, <1>13, <1>14, <1>15, <1>16, PlainStep DEF SameDisk, Wrote

(* iget() reserves an entry that nobody has: the inode in it is on the      *)
(* device (inode.c:165-200, 224).                                           *)
LEMMA Reserves ==
  ASSUME NEW x, NEW y, NEW t \in Task, NEW s \in Slot, Differs(x, y, t, s), Ind(x, t), Typed(y),
         SameDisk(x, y), GoesOn(x.call[t], y.call[t]),
         x.held[t] = NULL, y.held[t] = NULL,
         x.call[t].at = "found", x.inode[s].count = 0,
         y.call[t].at = "wait", y.call[t].slot = s, y.call[t].empty = s,
         y.wait[s] = {}, IsInode(y.inode[s], 0, 1, 0, NULL, FALSE, FALSE)
  PROVE  Ind(y, t)
<1> DEFINE i == x.inode[s]
<1> DEFINE j == y.inode[s]
<1> DEFINE c == x.call[t]
<1> DEFINE d == y.call[t]
<1>1. Typed(x) /\ Once(x) /\ Counts(x)
  BY DEF Ind
<1>2. SlotOK(x, s) /\ TaskOK(x, t) /\ Shape(x.held[t], c) /\ Grip(c, x.inode[c.slot])
  BY DEF Ind, TaskOK
<1>3. i \in InodeType /\ i.count \in Nat /\ c \in CallType /\ x.held[t] \in Slot \union {NULL}
      /\ NULL \notin Slot /\ 0 \notin Num
  BY <1>1, InodeAssumption DEF Typed, InodeType, Num
<1>4. HoldOf(x.held[t], c) = NULL /\ HoldOf(y.held[t], d) = s
  BY <1>2, <1>3 DEF Shape, HoldOf, Over, Holding, GoesOn
<1>5. Counts(y)
  <2>1. j.count = i.count + 1
    BY <1>3 DEF IsInode
  <2> QED  BY <1>1, <1>4, <2>1, CountsStay
<1>6. \A r \in Slot \ {s} : ~Locks(c, r) /\ ~Locks(d, r) /\ ~Reads(c, r) /\ ~Reads(d, r)
  BY <1>2, <1>3 DEF Shape, Locks, Reads, Over
<1>7. \A u \in Task \ {t} : Locks(y.call[u], s) = Locks(x.call[u], s)
                            /\ Reads(y.call[u], s) = Reads(x.call[u], s)
  BY DEF Differs
<1>8. ~i.lock /\ \A u \in Task : ~Locks(x.call[u], s) /\ ~Reads(x.call[u], s)
  <2>1. ~i.lock
    BY <1>2 DEF SlotOK
  <2>2. \A u \in Task : ~Locks(x.call[u], s)
    BY <2>1, LockersOf
  <2> QED  BY <2>1, <2>2 DEF Locks, Reads
<1>10. SlotOK(y, s)
  <2>1. \A u \in Task \ {t} : ~Locks(y.call[u], s) /\ ~Reads(y.call[u], s)
    BY <1>7, <1>8
  <2>2. (Locks(d, s) <=> j.lock) /\ (Reads(d, s) => i.nlinks = 0)
    BY <1>2, <1>8 DEF IsInode, Locks, Reads, Over, SlotOK
  <2>3. y.wait[s] = {} \/ y.wait[s] = x.wait[s]
    OBVIOUS
  <2>4. /\ j.lock => \E u \in Task : Locks(y.call[u], s)
        /\ \A u, v \in Task : Locks(y.call[u], s) /\ Locks(y.call[v], s) => u = v
    BY <2>1, <2>2
  <2>5. y.wait[s] # {} => j.lock
    BY <1>2, <1>8, <2>3 DEF SlotOK, IsInode
  <2> QED  BY <1>2, <1>3, <1>8, <2>1, <2>2, <2>4, <2>5 DEF SlotOK, SameDisk, Wrote, IsInode
<1>11. TaskOK(y, t)
  BY <1>2, <1>3, <1>8 DEF TaskOK, Over, Shape, Grip, Bound, Holding, Busy, GoesOn, IsInode,
     Named, SameDisk, Wrote
<1>12. \A u \in Task \ {t} : Suits(x, y, u, s)
  <2>1. TAKE u \in Task \ {t}
  <2>2. TaskOK(x, u) /\ HoldOf(x.held[u], x.call[u]) # s /\ ~Locks(x.call[u], s)
    BY <1>1, <1>4, <1>8, <2>1, HeldCounted, NobodyHolds DEF Ind
  <2> QED  BY <1>1, <2>1, <2>2, AloneSuits DEF Locks
<1>13. Once(y)
  BY <1>1, OnceStays DEF IsInode
<1>14. \A n \in Num : LinksOf(y, n) = LinksOf(x, n) /\ ZoneOf(y, n) = ZoneOf(x, n)
  <2>1. ASSUME NEW n \in Num, n # i.num
        PROVE  LinksOf(y, n) = LinksOf(x, n) /\ ZoneOf(y, n) = ZoneOf(x, n)
    <3>1. n # j.num /\ y.image[n] = x.image[n]
      BY <1>3 DEF IsInode, SameDisk
    <3> QED  BY <1>6, <2>1, <3>1, OtherValues
  <2>2. ASSUME NEW n \in Num, n = i.num
        PROVE  LinksOf(y, n) = LinksOf(x, n) /\ ZoneOf(y, n) = ZoneOf(x, n)
    <3>1. s \in Seen(x, n)
      BY <1>8, <2>2 DEF Seen
    <3>2. Seen(y, n) = {}
      BY <1>1, <1>3, <2>2 DEF Seen, Once, IsInode, Differs
    <3>3. x.image[n].nlinks = i.nlinks /\ x.image[n].zone = i.zone
      BY <1>2, <1>3, <1>8, <2>2 DEF SlotOK
    <3> QED  BY <1>1, <1>13, <2>2, <3>1, <3>2, <3>3, SeenIs DEF SameDisk
  <2> QED  BY <2>1, <2>2
<1>15. /\ Busy(d) => Busy(c) /\ d.op = c.op /\ d.num = c.num
       /\ ~Blocks(c) /\ ~Blocks(d)
       /\ \A n \in Num : /\ Adds(d, n) <=> Adds(c, n)
                         /\ Links(d, n) <=> Links(c, n)
  BY DEF Over, Busy, Blocks, Adds, Links, GoesOn
<1>16. \A n \in Num : n # i.num => y.image[n] = x.image[n]
  BY DEF SameDisk, Wrote
<1> QED
  BY <1>5, <1>6, <1>10, <1>11, <1>12, <1>13, <1>14, <1>15, <1>16, PlainStep DEF SameDisk, Wrote

(* new_inode() finds no free inode and gives the entry back                 *)
(* (bitmap.c:178-181).                                                      *)
LEMMA FindsNone ==
  ASSUME NEW x, NEW y, NEW t \in Task, NEW s \in Slot, Differs(x, y, t, s), Ind(x, t), Typed(y),
         SameDisk(x, y), y.call[t] = x.call[t], x.held[t] = NULL, y.held[t] = NULL,
         x.call[t].at = "user", x.inode[s].count = 0,
         y.wait[s] = {}, IsInode(y.inode[s], 0, 0, 0, NULL, FALSE, FALSE)
  PROVE  Ind(y, t)
<1> DEFINE i == x.inode[s]
<1> DEFINE j == y.inode[s]
<1> DEFINE c == x.call[t]
<1> DEFINE d == y.call[t]
<1>1. Typed(x) /\ Once(x) /\ Counts(x)
  BY DEF Ind
<1>2. SlotOK(x, s) /\ TaskOK(x, t) /\ Shape(x.held[t], c) /\ Grip(c, x.inode[c.slot])
  BY DEF Ind, TaskOK
<1>3. i \in InodeType /\ i.count \in Nat /\ c \in CallType /\ x.held[t] \in Slot \union {NULL}
      /\ NULL \notin Slot /\ 0 \notin Num
  BY <1>1, InodeAssumption DEF Typed, InodeType, Num
<1>4. HoldOf(x.held[t], c) = NULL /\ HoldOf(y.held[t], d) = NULL
  BY <1>2, <1>3 DEF Shape, HoldOf, Over, Holding, GoesOn
<1>5. Counts(y)
  <2>1. j.count = i.count
    BY <1>3 DEF IsInode
  <2> QED  BY <1>1, <1>4, <2>1, CountsStay
<1>6. \A r \in Slot \ {s} : ~Locks(c, r) /\ ~Locks(d, r) /\ ~Reads(c, r) /\ ~Reads(d, r)
  BY <1>2, <1>3 DEF Shape, Locks, Reads, Over
<1>7. \A u \in Task \ {t} : Locks(y.call[u], s) = Locks(x.call[u], s)
                            /\ Reads(y.call[u], s) = Reads(x.call[u], s)
  BY DEF Differs
<1>8. ~i.lock /\ \A u \in Task : ~Locks(x.call[u], s) /\ ~Reads(x.call[u], s)
  <2>1. ~i.lock
    BY <1>2 DEF SlotOK
  <2>2. \A u \in Task : ~Locks(x.call[u], s)
    BY <2>1, LockersOf
  <2> QED  BY <2>1, <2>2 DEF Locks, Reads
<1>10. SlotOK(y, s)
  <2>1. \A u \in Task \ {t} : ~Locks(y.call[u], s) /\ ~Reads(y.call[u], s)
    BY <1>7, <1>8
  <2>2. (Locks(d, s) <=> j.lock) /\ (Reads(d, s) => i.nlinks = 0)
    BY <1>2, <1>8 DEF IsInode, Locks, Reads, Over, SlotOK
  <2>3. y.wait[s] = {} \/ y.wait[s] = x.wait[s]
    OBVIOUS
  <2>4. /\ j.lock => \E u \in Task : Locks(y.call[u], s)
        /\ \A u, v \in Task : Locks(y.call[u], s) /\ Locks(y.call[v], s) => u = v
    BY <2>1, <2>2
  <2>5. y.wait[s] # {} => j.lock
    BY <1>2, <1>8, <2>3 DEF SlotOK, IsInode
  <2> QED  BY <1>2, <1>3, <1>8, <2>1, <2>2, <2>4, <2>5 DEF SlotOK, SameDisk, Wrote, IsInode
<1>11. TaskOK(y, t)
  BY <1>2, <1>3, <1>8 DEF TaskOK, Over, Shape, Grip, Bound, Holding, Busy, GoesOn, IsInode,
     Named, SameDisk, Wrote
<1>12. \A u \in Task \ {t} : Suits(x, y, u, s)
  <2>1. TAKE u \in Task \ {t}
  <2>2. TaskOK(x, u) /\ HoldOf(x.held[u], x.call[u]) # s /\ ~Locks(x.call[u], s)
    BY <1>1, <1>4, <1>8, <2>1, HeldCounted, NobodyHolds DEF Ind
  <2> QED  BY <1>1, <2>1, <2>2, AloneSuits DEF Locks
<1>13. Once(y)
  BY <1>1, OnceStays DEF IsInode
<1>14. \A n \in Num : LinksOf(y, n) = LinksOf(x, n) /\ ZoneOf(y, n) = ZoneOf(x, n)
  <2>1. ASSUME NEW n \in Num, n # i.num
        PROVE  LinksOf(y, n) = LinksOf(x, n) /\ ZoneOf(y, n) = ZoneOf(x, n)
    <3>1. n # j.num /\ y.image[n] = x.image[n]
      BY <1>3 DEF IsInode, SameDisk
    <3> QED  BY <1>6, <2>1, <3>1, OtherValues
  <2>2. ASSUME NEW n \in Num, n = i.num
        PROVE  LinksOf(y, n) = LinksOf(x, n) /\ ZoneOf(y, n) = ZoneOf(x, n)
    <3>1. s \in Seen(x, n)
      BY <1>8, <2>2 DEF Seen
    <3>2. Seen(y, n) = {}
      BY <1>1, <1>3, <2>2 DEF Seen, Once, IsInode, Differs
    <3>3. x.image[n].nlinks = i.nlinks /\ x.image[n].zone = i.zone
      BY <1>2, <1>3, <1>8, <2>2 DEF SlotOK
    <3> QED  BY <1>1, <1>13, <2>2, <3>1, <3>2, <3>3, SeenIs DEF SameDisk
  <2> QED  BY <2>1, <2>2
<1>15. /\ Busy(d) => Busy(c) /\ d.op = c.op /\ d.num = c.num
       /\ ~Blocks(c) /\ ~Blocks(d)
       /\ \A n \in Num : /\ Adds(d, n) <=> Adds(c, n)
                         /\ Links(d, n) <=> Links(c, n)
  BY DEF Over, Busy, Blocks, Adds, Links, GoesOn
<1>16. \A n \in Num : n # i.num => y.image[n] = x.image[n]
  BY DEF SameDisk, Wrote
<1> QED
  BY <1>5, <1>6, <1>10, <1>11, <1>12, <1>13, <1>14, <1>15, <1>16, PlainStep DEF SameDisk, Wrote

(* iget() finds the inode nowhere: the entry becomes it, locked to be read  *)
(* (inode.c:242-247).                                                       *)
LEMMA BeginsRead ==
  ASSUME NEW x, NEW y, NEW t \in Task, NEW s \in Slot, Differs(x, y, t, s), Ind(x, t), Typed(y),
         SameDisk(x, y), GoesOn(x.call[t], y.call[t]), y.held[t] = x.held[t],
         x.call[t].at = "wait", x.call[t].empty = s,
         \A r \in Slot : x.inode[r].num # x.call[t].num,
         y.call[t].at = "read", y.call[t].slot = s, y.call[t].empty = s,
         y.wait[s] = x.wait[s],
         IsInode(y.inode[s], x.call[t].num, x.inode[s].count, x.inode[s].nlinks,
                 x.inode[s].zone, x.inode[s].dirt, TRUE)
  PROVE  Ind(y, t)
<1> DEFINE i == x.inode[s]
<1> DEFINE j == y.inode[s]
<1> DEFINE c == x.call[t]
<1> DEFINE d == y.call[t]
<1>1. Typed(x) /\ Once(x) /\ Counts(x)
  BY DEF Ind
<1>2. SlotOK(x, s) /\ TaskOK(x, t) /\ Shape(x.held[t], c) /\ Grip(c, x.inode[c.slot])
  BY DEF Ind, TaskOK
<1>3. i \in InodeType /\ i.count \in Nat /\ c \in CallType /\ x.held[t] \in Slot \union {NULL}
      /\ NULL \notin Slot /\ 0 \notin Num
  BY <1>1, InodeAssumption DEF Typed, InodeType, Num
<1>4. HoldOf(x.held[t], c) = s /\ HoldOf(y.held[t], d) = s
  BY <1>2, <1>3 DEF Shape, HoldOf, Over, Holding, GoesOn
<1>5. Counts(y)
  <2>1. j.count = i.count
    BY <1>3 DEF IsInode
  <2> QED  BY <1>1, <1>4, <2>1, CountsStay
<1>6. \A r \in Slot \ {s} : ~Locks(c, r) /\ ~Locks(d, r) /\ ~Reads(c, r) /\ ~Reads(d, r)
  BY <1>2, <1>3 DEF Shape, Locks, Reads, Over
<1>7. \A u \in Task \ {t} : Locks(y.call[u], s) = Locks(x.call[u], s)
                            /\ Reads(y.call[u], s) = Reads(x.call[u], s)
  BY DEF Differs
<1>8. i.num = 0 /\ i.count = 1 /\ ~i.lock /\ c.num \in Num /\ c.num \in x.imap
      /\ \A u \in Task : ~Locks(x.call[u], s) /\ ~Reads(x.call[u], s)
  <2>1. i.num = 0 /\ i.count = 1 /\ c.num # 0 /\ Busy(c) /\ Bound(x, c)
    BY <1>2 DEF TaskOK, Shape
  <2>2. ~i.lock
    BY <1>2, <2>1 DEF SlotOK
  <2>3. c.num \in Num /\ c.num \in x.imap
    BY <1>3, <2>1 DEF Bound, CallType
  <2>4. \A u \in Task : ~Locks(x.call[u], s)
    BY <2>2, LockersOf
  <2> QED  BY <2>1, <2>2, <2>3, <2>4 DEF Locks, Reads
<1>10. SlotOK(y, s)
  <2>1. \A u \in Task \ {t} : ~Locks(y.call[u], s) /\ ~Reads(y.call[u], s)
    BY <1>7, <1>8
  <2>2. (Locks(d, s) <=> j.lock) /\ (Reads(d, s) => i.nlinks = 0)
    BY <1>2, <1>8 DEF IsInode, Locks, Reads, Over, SlotOK
  <2>3. y.wait[s] = {} \/ y.wait[s] = x.wait[s]
    OBVIOUS
  <2>4. /\ j.lock => \E u \in Task : Locks(y.call[u], s)
        /\ \A u, v \in Task : Locks(y.call[u], s) /\ Locks(y.call[v], s) => u = v
    BY <2>1, <2>2
  <2>5. y.wait[s] # {} => j.lock
    BY <1>2, <1>8, <2>3 DEF SlotOK, IsInode
  <2> QED  BY <1>2, <1>3, <1>8, <2>1, <2>2, <2>4, <2>5, SMTT(60) DEF SlotOK, SameDisk, Wrote,
              IsInode
<1>11. TaskOK(y, t)
  BY <1>2, <1>3, <1>8, SMTT(60) DEF TaskOK, Over, Shape, Grip, Bound, Holding, Busy, GoesOn,
     IsInode,
     Named, SameDisk, Wrote
<1>12. \A u \in Task \ {t} : Suits(x, y, u, s)
  <2>1. TAKE u \in Task \ {t}
  <2>2. TaskOK(x, u) /\ HoldOf(x.held[u], x.call[u]) # s /\ ~Locks(x.call[u], s)
    BY <1>1, <1>4, <1>8, <2>1, HeldCounted, NobodyHolds DEF Ind
  <2> QED  BY <1>1, <2>1, <2>2, AloneSuits DEF Locks
<1>13. Once(y)
  BY <1>1, <1>8 DEF Once, IsInode, Differs
<1>14. \A n \in Num : LinksOf(y, n) = LinksOf(x, n) /\ ZoneOf(y, n) = ZoneOf(x, n)
  <2>1. ASSUME NEW n \in Num, n # c.num
        PROVE  LinksOf(y, n) = LinksOf(x, n) /\ ZoneOf(y, n) = ZoneOf(x, n)
    BY <1>3, <1>6, <1>8, <2>1, OtherValues, ZenonT(60) DEF IsInode, SameDisk
  <2>2. ASSUME NEW n \in Num, n = c.num
        PROVE  LinksOf(y, n) = LinksOf(x, n) /\ ZoneOf(y, n) = ZoneOf(x, n)
    <3>1. Seen(x, n) = {}
      BY <2>2 DEF Seen
    <3>2. Seen(y, n) = {}
      BY <2>2 DEF Seen, Differs, Reads
    <3> QED  BY <1>1, <1>13, <2>2, <3>1, <3>2, SeenIs DEF SameDisk
  <2> QED  BY <2>1, <2>2
<1>15. /\ Busy(d) => Busy(c) /\ d.op = c.op /\ d.num = c.num
       /\ ~Blocks(c) /\ ~Blocks(d)
       /\ \A n \in Num : /\ Adds(d, n) <=> Adds(c, n)
                         /\ Links(d, n) <=> Links(c, n)
  BY DEF Over, Busy, Blocks, Adds, Links, GoesOn
<1>16. \A n \in Num : n # i.num => y.image[n] = x.image[n]
  BY DEF SameDisk, Wrote
<1> QED
  BY <1>5, <1>6, <1>10, <1>11, <1>12, <1>13, <1>14, <1>15, <1>16, PlainStep DEF SameDisk, Wrote

(* It finds it in the table and gives the reserved entry back               *)
(* (inode.c:237-238).                                                       *)
LEMMA GivesBack ==
  ASSUME NEW x, NEW y, NEW t \in Task, NEW s \in Slot, Differs(x, y, t, s), Ind(x, t), Typed(y),
         SameDisk(x, y), GoesOn(x.call[t], y.call[t]), y.held[t] = x.held[t],
         x.call[t].at = "wait", x.call[t].empty = s,
         y.call[t].at = "found", y.call[t].empty = NULL,
         y.wait[s] = x.wait[s],
         IsInode(y.inode[s], x.inode[s].num, x.inode[s].count - 1, x.inode[s].nlinks,
                 x.inode[s].zone, x.inode[s].dirt, x.inode[s].lock)
  PROVE  Ind(y, t)
<1> DEFINE i == x.inode[s]
<1> DEFINE j == y.inode[s]
<1> DEFINE c == x.call[t]
<1> DEFINE d == y.call[t]
<1>1. Typed(x) /\ Once(x) /\ Counts(x)
  BY DEF Ind
<1>2. SlotOK(x, s) /\ TaskOK(x, t) /\ Shape(x.held[t], c) /\ Grip(c, x.inode[c.slot])
  BY DEF Ind, TaskOK
<1>3. i \in InodeType /\ i.count \in Nat /\ c \in CallType /\ x.held[t] \in Slot \union {NULL}
      /\ NULL \notin Slot /\ 0 \notin Num
  BY <1>1, InodeAssumption DEF Typed, InodeType, Num
<1>4. HoldOf(x.held[t], c) = s /\ HoldOf(y.held[t], d) = NULL
  BY <1>2, <1>3 DEF Shape, HoldOf, Over, Holding, GoesOn
<1>5. Counts(y)
  <2>1. j.count = i.count - 1
    BY <1>3 DEF IsInode
  <2> QED  BY <1>1, <1>4, <2>1, CountsStay
<1>6. \A r \in Slot \ {s} : ~Locks(c, r) /\ ~Locks(d, r) /\ ~Reads(c, r) /\ ~Reads(d, r)
  BY <1>2, <1>3 DEF Shape, Locks, Reads, Over
<1>7. \A u \in Task \ {t} : Locks(y.call[u], s) = Locks(x.call[u], s)
                            /\ Reads(y.call[u], s) = Reads(x.call[u], s)
  BY DEF Differs
<1>8. i.num = 0 /\ i.count = 1 /\ ~i.lock
      /\ \A u \in Task : ~Locks(x.call[u], s) /\ ~Reads(x.call[u], s)
  BY <1>2, LockersOf DEF TaskOK, SlotOK, Locks, Reads
<1>10. SlotOK(y, s)
  <2>1. \A u \in Task \ {t} : ~Locks(y.call[u], s) /\ ~Reads(y.call[u], s)
    BY <1>7, <1>8
  <2>2. (Locks(d, s) <=> j.lock) /\ (Reads(d, s) => i.nlinks = 0)
    BY <1>2, <1>8 DEF IsInode, Locks, Reads, Over, SlotOK
  <2>3. y.wait[s] = {} \/ y.wait[s] = x.wait[s]
    OBVIOUS
  <2>4. /\ j.lock => \E u \in Task : Locks(y.call[u], s)
        /\ \A u, v \in Task : Locks(y.call[u], s) /\ Locks(y.call[v], s) => u = v
    BY <2>1, <2>2
  <2>5. y.wait[s] # {} => j.lock
    BY <1>2, <1>8, <2>3 DEF SlotOK, IsInode
  <2> QED  BY <1>2, <1>3, <1>8, <2>1, <2>2, <2>4, <2>5 DEF SlotOK, SameDisk, Wrote, IsInode
<1>11. TaskOK(y, t)
  BY <1>2, <1>3, <1>8, SMTT(60) DEF TaskOK, Over, Shape, Grip, Bound, Holding, Busy, GoesOn,
     IsInode,
     Named, SameDisk, Wrote
<1>12. \A u \in Task \ {t} : Suits(x, y, u, s)
  <2>1. TAKE u \in Task \ {t}
  <2>2. TaskOK(x, u) /\ HoldOf(x.held[u], x.call[u]) # s /\ ~Locks(x.call[u], s)
    BY <1>1, <1>4, <1>8, <2>1, HeldCounted, NobodyHolds DEF Ind
  <2> QED  BY <1>1, <2>1, <2>2, AloneSuits DEF Locks
<1>13. Once(y)
  BY <1>1, OnceStays DEF IsInode
<1>14. \A n \in Num : LinksOf(y, n) = LinksOf(x, n) /\ ZoneOf(y, n) = ZoneOf(x, n)
  <2>1. Reads(c, s) <=> Reads(d, s)
    BY <1>8 DEF Reads, Over
  <2>2. y.image = x.image \/ \A u \in Task : ~Reads(x.call[u], s)
    BY <1>8 DEF SameDisk, Reads
  <2>3. \A n \in Num : n # i.num => y.image[n] = x.image[n]
    BY DEF SameDisk, Wrote
  <2>4. j.num = i.num /\ j.nlinks = i.nlinks /\ j.zone = i.zone
    BY DEF IsInode
  <2> QED  BY <1>1, <1>6, <1>13, <2>1, <2>2, <2>3, <2>4, SameValues
<1>15. /\ Busy(d) => Busy(c) /\ d.op = c.op /\ d.num = c.num
       /\ ~Blocks(c) /\ ~Blocks(d)
       /\ \A n \in Num : /\ Adds(d, n) <=> Adds(c, n)
                         /\ Links(d, n) <=> Links(c, n)
  BY DEF Over, Busy, Blocks, Adds, Links, GoesOn
<1>16. \A n \in Num : n # i.num => y.image[n] = x.image[n]
  BY DEF SameDisk, Wrote
<1> QED
  BY <1>5, <1>6, <1>10, <1>11, <1>12, <1>13, <1>14, <1>15, <1>16, PlainStep DEF SameDisk, Wrote

(* Then it counts itself in (inode.c:236).                                  *)
LEMMA Takes ==
  ASSUME NEW x, NEW y, NEW t \in Task, NEW s \in Slot, Differs(x, y, t, s), Ind(x, t), Typed(y),
         SameDisk(x, y), GoesOn(x.call[t], y.call[t]), y.held[t] = x.held[t],
         x.call[t].at = "found", x.inode[s].num = x.call[t].num, ~x.inode[s].lock,
         y.call[t].at = "got", y.call[t].slot = s, y.call[t].empty = NULL,
         y.wait[s] = x.wait[s],
         IsInode(y.inode[s], x.inode[s].num, x.inode[s].count + 1, x.inode[s].nlinks,
                 x.inode[s].zone, x.inode[s].dirt, x.inode[s].lock)
  PROVE  Ind(y, t)
<1> DEFINE i == x.inode[s]
<1> DEFINE j == y.inode[s]
<1> DEFINE c == x.call[t]
<1> DEFINE d == y.call[t]
<1>1. Typed(x) /\ Once(x) /\ Counts(x)
  BY DEF Ind
<1>2. SlotOK(x, s) /\ TaskOK(x, t) /\ Shape(x.held[t], c) /\ Grip(c, x.inode[c.slot])
  BY DEF Ind, TaskOK
<1>3. i \in InodeType /\ i.count \in Nat /\ c \in CallType /\ x.held[t] \in Slot \union {NULL}
      /\ NULL \notin Slot /\ 0 \notin Num
  BY <1>1, InodeAssumption DEF Typed, InodeType, Num
<1>4. HoldOf(x.held[t], c) = NULL /\ HoldOf(y.held[t], d) = s
  BY <1>2, <1>3 DEF Shape, HoldOf, Over, Holding, GoesOn
<1>5. Counts(y)
  <2>1. j.count = i.count + 1
    BY <1>3 DEF IsInode
  <2> QED  BY <1>1, <1>4, <2>1, CountsStay
<1>6. \A r \in Slot \ {s} : ~Locks(c, r) /\ ~Locks(d, r) /\ ~Reads(c, r) /\ ~Reads(d, r)
  BY <1>2, <1>3 DEF Shape, Locks, Reads, Over
<1>7. \A u \in Task \ {t} : Locks(y.call[u], s) = Locks(x.call[u], s)
                            /\ Reads(y.call[u], s) = Reads(x.call[u], s)
  BY DEF Differs
<1>8. i.num # 0 /\ Named(x, i.num)
      /\ \A u \in Task : ~Locks(x.call[u], s) /\ ~Reads(x.call[u], s)
  BY <1>2, LockersOf DEF TaskOK, Shape, Bound, Locks, Reads
<1>10. SlotOK(y, s)
  <2>1. \A u \in Task \ {t} : ~Locks(y.call[u], s) /\ ~Reads(y.call[u], s)
    BY <1>7, <1>8
  <2>2. (Locks(d, s) <=> j.lock) /\ (Reads(d, s) => i.nlinks = 0)
    BY <1>2, <1>8 DEF IsInode, Locks, Reads, Over, SlotOK
  <2>3. y.wait[s] = {} \/ y.wait[s] = x.wait[s]
    OBVIOUS
  <2>4. /\ j.lock => \E u \in Task : Locks(y.call[u], s)
        /\ \A u, v \in Task : Locks(y.call[u], s) /\ Locks(y.call[v], s) => u = v
    BY <2>1, <2>2
  <2>5. y.wait[s] # {} => j.lock
    BY <1>2, <1>8, <2>3 DEF SlotOK, IsInode
  <2> QED  BY <1>2, <1>3, <1>8, <2>1, <2>2, <2>4, <2>5, SMTT(60) DEF SlotOK, SameDisk, Wrote,
              IsInode
<1>11. TaskOK(y, t)
  BY <1>2, <1>3, <1>8, SMTT(60) DEF TaskOK, Over, Shape, Grip, Bound, Holding, Busy, GoesOn,
     IsInode,
     Named, SameDisk, Wrote
<1>12. \A u \in Task \ {t} : Suits(x, y, u, s)
  <2>1. TAKE u \in Task \ {t}
  <2>2. TaskOK(x, u) /\ x.call[u].at \in At
    BY <2>1 DEF Ind
  <2>3. ~Locks(x.call[u], s)
    BY <1>8, <2>1
  <2>4. ~(x.call[u].at = "free" /\ x.call[u].slot = s)
    BY <1>8, <2>2 DEF TaskOK, Bound
  <2> QED  BY <1>8, <2>1, <2>2, <2>3, <2>4, UnlockedSuits DEF IsInode
<1>13. Once(y)
  BY <1>1, OnceStays DEF IsInode
<1>14. \A n \in Num : LinksOf(y, n) = LinksOf(x, n) /\ ZoneOf(y, n) = ZoneOf(x, n)
  <2>1. Reads(c, s) <=> Reads(d, s)
    BY <1>8 DEF Reads, Over
  <2>2. y.image = x.image \/ \A u \in Task : ~Reads(x.call[u], s)
    BY <1>8 DEF SameDisk, Reads
  <2>3. \A n \in Num : n # i.num => y.image[n] = x.image[n]
    BY DEF SameDisk, Wrote
  <2>4. j.num = i.num /\ j.nlinks = i.nlinks /\ j.zone = i.zone
    BY DEF IsInode
  <2> QED  BY <1>1, <1>6, <1>13, <2>1, <2>2, <2>3, <2>4, SameValues
<1>15. /\ Busy(d) => Busy(c) /\ d.op = c.op /\ d.num = c.num
       /\ ~Blocks(c) /\ ~Blocks(d)
       /\ \A n \in Num : /\ Adds(d, n) <=> Adds(c, n)
                         /\ Links(d, n) <=> Links(c, n)
  BY DEF Over, Busy, Blocks, Adds, Links, GoesOn
<1>16. \A n \in Num : n # i.num => y.image[n] = x.image[n]
  BY DEF SameDisk, Wrote
<1> QED
  BY <1>5, <1>6, <1>10, <1>11, <1>12, <1>13, <1>14, <1>15, <1>16, PlainStep DEF SameDisk, Wrote

(* The inode has been read for iget() (inode.c:247-248, 261-268).           *)
LEMMA EndsRead ==
  ASSUME NEW x, NEW y, NEW t \in Task, NEW s \in Slot, Differs(x, y, t, s), Ind(x, t), Typed(y),
         SameDisk(x, y), GoesOn(x.call[t], y.call[t]), y.held[t] = x.held[t],
         x.call[t].at = "read", x.call[t].slot = s,
         y.call[t].at = "got", y.call[t].slot = s, y.call[t].empty = NULL,
         y.wait[s] = {},
         IsInode(y.inode[s], x.inode[s].num, x.inode[s].count, x.image[x.inode[s].num].nlinks,
                 x.image[x.inode[s].num].zone, x.inode[s].dirt, FALSE)
  PROVE  Ind(y, t)
<1> DEFINE i == x.inode[s]
<1> DEFINE j == y.inode[s]
<1> DEFINE c == x.call[t]
<1> DEFINE d == y.call[t]
<1>1. Typed(x) /\ Once(x) /\ Counts(x)
  BY DEF Ind
<1>2. SlotOK(x, s) /\ TaskOK(x, t) /\ Shape(x.held[t], c) /\ Grip(c, x.inode[c.slot])
  BY DEF Ind, TaskOK
<1>3. i \in InodeType /\ i.count \in Nat /\ c \in CallType /\ x.held[t] \in Slot \union {NULL}
      /\ NULL \notin Slot /\ 0 \notin Num
  BY <1>1, InodeAssumption, SMTT(60) DEF Typed, InodeType, Num
<1>4. HoldOf(x.held[t], c) = s /\ HoldOf(y.held[t], d) = s
  BY <1>2, <1>3 DEF Shape, HoldOf, Over, Holding, GoesOn
<1>5. Counts(y)
  <2>1. j.count = i.count
    BY <1>3 DEF IsInode
  <2> QED  BY <1>1, <1>4, <2>1, CountsStay
<1>6. \A r \in Slot \ {s} : ~Locks(c, r) /\ ~Locks(d, r) /\ ~Reads(c, r) /\ ~Reads(d, r)
  BY <1>2, <1>3 DEF Shape, Locks, Reads, Over
<1>7. \A u \in Task \ {t} : Locks(y.call[u], s) = Locks(x.call[u], s)
                            /\ Reads(y.call[u], s) = Reads(x.call[u], s)
  BY DEF Differs
<1>8. i.count = 1 /\ i.num # 0
      /\ \A u \in Task \ {t} : ~Locks(x.call[u], s) /\ ~Reads(x.call[u], s)
  <2>1. i.count = 1 /\ i.num # 0
    BY <1>2 DEF Grip, Holding
  <2>2. \A u \in Task \ {t} : ~Locks(x.call[u], s)
    BY LockersOf DEF Locks
  <2> QED  BY <2>1, <2>2 DEF Locks, Reads
<1>10. SlotOK(y, s)
  <2>1. \A u \in Task \ {t} : ~Locks(y.call[u], s) /\ ~Reads(y.call[u], s)
    BY <1>7, <1>8
  <2>2. (Locks(d, s) <=> j.lock) /\ (Reads(d, s) => i.nlinks = 0)
    BY <1>2, <1>8 DEF IsInode, Locks, Reads, Over, SlotOK
  <2>3. y.wait[s] = {} \/ y.wait[s] = x.wait[s]
    OBVIOUS
  <2>4. /\ j.lock => \E u \in Task : Locks(y.call[u], s)
        /\ \A u, v \in Task : Locks(y.call[u], s) /\ Locks(y.call[v], s) => u = v
    BY <2>1, <2>2
  <2>5. y.wait[s] # {} => j.lock
    BY <1>2, <1>8, <2>3 DEF SlotOK, IsInode
  <2> QED  BY <1>2, <1>3, <1>8, <2>1, <2>2, <2>4, <2>5, SMTT(60) DEF SlotOK, SameDisk, Wrote,
              IsInode
<1>11. TaskOK(y, t)
  BY <1>2, <1>3, <1>8, SMTT(60) DEF TaskOK, Over, Shape, Grip, Bound, Holding, Busy, GoesOn,
     IsInode,
     Named, SameDisk, Wrote
<1>12. \A u \in Task \ {t} : Suits(x, y, u, s)
  <2>1. TAKE u \in Task \ {t}
  <2>2. TaskOK(x, u) /\ HoldOf(x.held[u], x.call[u]) # s /\ ~Locks(x.call[u], s)
    BY <1>1, <1>4, <1>8, <2>1, HeldCounted, NobodyHolds, SMTT(60) DEF Ind
  <2> QED  BY <1>1, <2>1, <2>2, AloneSuits DEF Locks
<1>13. Once(y)
  BY <1>1, OnceStays DEF IsInode
<1>14. \A n \in Num : LinksOf(y, n) = LinksOf(x, n) /\ ZoneOf(y, n) = ZoneOf(x, n)
  <2>1. ASSUME NEW n \in Num, n # i.num
        PROVE  LinksOf(y, n) = LinksOf(x, n) /\ ZoneOf(y, n) = ZoneOf(x, n)
    BY <1>3, <1>6, <2>1, OtherValues DEF IsInode, SameDisk
  <2>2. ASSUME NEW n \in Num, n = i.num
        PROVE  LinksOf(y, n) = LinksOf(x, n) /\ ZoneOf(y, n) = ZoneOf(x, n)
    <3>1. Seen(x, n) = {}
      BY <1>1, <1>3, <2>2 DEF Seen, Once, Reads
    <3>2. s \in Seen(y, n)
      BY <1>7, <1>8, <2>2 DEF Seen, IsInode, Reads
    <3> QED  BY <1>1, <1>13, <2>2, <3>1, <3>2, SeenIs DEF IsInode
  <2> QED  BY <2>1, <2>2
<1>15. /\ Busy(d) => Busy(c) /\ d.op = c.op /\ d.num = c.num
       /\ ~Blocks(c) /\ ~Blocks(d)
       /\ \A n \in Num : /\ Adds(d, n) <=> Adds(c, n)
                         /\ Links(d, n) <=> Links(c, n)
  BY DEF Over, Busy, Blocks, Adds, Links, GoesOn
<1>16. \A n \in Num : n # i.num => y.image[n] = x.image[n]
  BY DEF SameDisk, Wrote
<1> QED
  BY <1>5, <1>6, <1>10, <1>11, <1>12, <1>13, <1>14, <1>15, <1>16, PlainStep DEF SameDisk, Wrote

(* namei() marks the inode dirty when it has got it for sys_link            *)
(* (namei.c:303-308, 638).                                                  *)
LEMMA MarksDirty ==
  ASSUME NEW x, NEW y, NEW t \in Task, NEW s \in Slot, Differs(x, y, t, s), Ind(x, t), Typed(y),
         SameDisk(x, y), GoesOn(x.call[t], y.call[t]), y.held[t] = x.held[t],
         x.call[t].at = "got", x.call[t].slot = s, x.call[t].op = "link",
         y.call[t].at = "new", y.call[t].slot = s, y.call[t].empty = x.call[t].empty,
         y.wait[s] = x.wait[s],
         IsInode(y.inode[s], x.inode[s].num, x.inode[s].count, x.inode[s].nlinks,
                 x.inode[s].zone, TRUE, x.inode[s].lock)
  PROVE  Ind(y, t)
<1> DEFINE i == x.inode[s]
<1> DEFINE j == y.inode[s]
<1> DEFINE c == x.call[t]
<1> DEFINE d == y.call[t]
<1>1. Typed(x) /\ Once(x) /\ Counts(x)
  BY DEF Ind
<1>2. SlotOK(x, s) /\ TaskOK(x, t) /\ Shape(x.held[t], c) /\ Grip(c, x.inode[c.slot])
  BY DEF Ind, TaskOK
<1>3. i \in InodeType /\ i.count \in Nat /\ c \in CallType /\ x.held[t] \in Slot \union {NULL}
      /\ NULL \notin Slot /\ 0 \notin Num
  BY <1>1, InodeAssumption DEF Typed, InodeType, Num
<1>4. HoldOf(x.held[t], c) = s /\ HoldOf(y.held[t], d) = s
  BY <1>2, <1>3 DEF Shape, HoldOf, Over, Holding, GoesOn
<1>5. Counts(y)
  <2>1. j.count = i.count
    BY <1>3 DEF IsInode
  <2> QED  BY <1>1, <1>4, <2>1, CountsStay
<1>6. \A r \in Slot \ {s} : ~Locks(c, r) /\ ~Locks(d, r) /\ ~Reads(c, r) /\ ~Reads(d, r)
  BY <1>2, <1>3 DEF Shape, Locks, Reads, Over
<1>7. \A u \in Task \ {t} : Locks(y.call[u], s) = Locks(x.call[u], s)
                            /\ Reads(y.call[u], s) = Reads(x.call[u], s)
  BY DEF Differs
<1>8. i.count # 0 /\ i.num # 0
  <2>1. i.count # 0
    BY <1>1, <1>4, HeldCounted
  <2>2. i.num # 0
    BY <1>2 DEF Grip, Holding
  <2> QED  BY <2>1, <2>2
<1>10. SlotOK(y, s)
  BY <1>2, <1>3, <1>4, <1>7, <1>8 DEF SlotOK, SameDisk, Wrote, IsInode, Locks, Reads, Over,
     GoesOn
<1>11. TaskOK(y, t)
  BY <1>2, <1>3, <1>8 DEF TaskOK, Over, Shape, Grip, Bound, Holding, Busy, GoesOn, IsInode,
     Named, SameDisk, Wrote
<1>12. \A u \in Task \ {t} : Suits(x, y, u, s)
  BY SameSuits DEF Ind, IsInode
<1>13. Once(y)
  BY <1>1, OnceStays DEF IsInode
<1>14. \A n \in Num : LinksOf(y, n) = LinksOf(x, n) /\ ZoneOf(y, n) = ZoneOf(x, n)
  <2>1. Reads(c, s) <=> Reads(d, s)
    BY <1>8 DEF Reads, Over
  <2>2. y.image = x.image \/ \A u \in Task : ~Reads(x.call[u], s)
    BY <1>8 DEF SameDisk, Reads
  <2>3. \A n \in Num : n # i.num => y.image[n] = x.image[n]
    BY DEF SameDisk, Wrote
  <2>4. j.num = i.num /\ j.nlinks = i.nlinks /\ j.zone = i.zone
    BY DEF IsInode
  <2> QED  BY <1>1, <1>6, <1>13, <2>1, <2>2, <2>3, <2>4, SameValues
<1>15. /\ Busy(d) => Busy(c) /\ d.op = c.op /\ d.num = c.num
       /\ ~Blocks(c) /\ ~Blocks(d)
       /\ \A n \in Num : /\ Adds(d, n) <=> Adds(c, n)
                         /\ Links(d, n) <=> Links(c, n)
  BY DEF Over, Busy, Blocks, Adds, Links, GoesOn
<1>16. \A n \in Num : n # i.num => y.image[n] = x.image[n]
  BY DEF SameDisk, Wrote
<1> QED
  BY <1>5, <1>6, <1>10, <1>11, <1>12, <1>13, <1>14, <1>15, <1>16, PlainStep DEF SameDisk, Wrote

-----------------------------------------------------------------------------
(* A step about one entry of the table and one task that changes the        *)
(* directory, the bitmaps or an inode: what is left to show.                *)
LEMMA DeepStep ==
  ASSUME NEW x, NEW y, NEW t \in Task, NEW s \in Slot, Differs(x, y, t, s), Ind(x, t), Typed(y),
         y.image = x.image,
         \A n \in Num : n # x.inode[s].num /\ n \in x.imap => n \in y.imap,
         \A r \in Slot : ~Locks(x.call[t], r) /\ ~Locks(y.call[t], r),
         SlotOK(y, s), TaskOK(y, t),
         \A u \in Task \ {t} : Suits(x, y, u, s) /\ Bound(y, x.call[u]),
         Exclusive(y), Once(y), Counts(y), Apiece(y), Linked(y), Owned(y)
  PROVE  Ind(y, t)
<1>1. Typed(x) /\ Once(x)
  BY DEF Ind
<1>2. \A r \in Slot : SlotOK(y, r)
  BY <1>1, SlotsStay DEF Ind
<1>3. \A u \in Task : TaskOK(y, u)
  BY <1>1, OthersStay DEF Ind
<1>4. \A u \in Task \ {t} : y.call[u].at \in At
  BY DEF Ind, Differs
<1> QED
  BY <1>2, <1>3, <1>4 DEF Ind

(* The links are counted after a step that changes those of one inode, or   *)
(* its entries, if they are counted for that one.                           *)
LEMMA LinkedBut ==
  ASSUME NEW x, NEW y, NEW t \in Task, NEW s, Differs(x, y, t, s), Linked(x),
         NEW k \in Num,
         \A n \in Num \ {k} :
           /\ n \in y.imap <=> n \in x.imap
           /\ LinksOf(y, n) = LinksOf(x, n) /\ EntriesIn(y, n) = EntriesIn(x, n)
           /\ Adds(y.call[t], n) <=> Adds(x.call[t], n)
           /\ Links(y.call[t], n) <=> Links(x.call[t], n),
         k \in y.imap => LinksOf(y, k) + Cardinality(Linkers(y, k))
                           = Cardinality(EntriesIn(y, k)) + Cardinality(Adders(y, k)),
         k \notin y.imap => EntriesIn(y, k) = {}
  PROVE  Linked(y)
<1>1. \A n \in Num \ {k} : Adders(y, n) = Adders(x, n) /\ Linkers(y, n) = Linkers(x, n)
  BY DEF Adders, Linkers, Differs
<1>2. ASSUME NEW n \in Num, n # k
      PROVE  /\ n \in y.imap => LinksOf(y, n) + Cardinality(Linkers(y, n))
                                  = Cardinality(EntriesIn(y, n)) + Cardinality(Adders(y, n))
             /\ n \notin y.imap => EntriesIn(y, n) = {}
  BY <1>1, <1>2 DEF Linked
<1> QED
  BY <1>2 DEF Linked

(* Who makes or removes a name of an inode does it alone: nobody else is    *)
(* making one.                                                              *)
LEMMA MakesAlone ==
  ASSUME NEW x, NEW t \in Task, Ind(x, t), Busy(x.call[t]), x.call[t].op # "open"
  PROVE  /\ \A u \in Task \ {t} : ~Adds(x.call[u], x.call[t].num)
                                     /\ ~Links(x.call[u], x.call[t].num)
         /\ \A u \in Task \ {t} : Busy(x.call[u]) => x.call[u].num # x.call[t].num
<1>1. \A u \in Task : Shape(x.held[u], x.call[u]) /\ Exclusive(x)
  BY DEF Ind, TaskOK
<1>2. \A u \in Task \ {t} : Busy(x.call[u]) => x.call[u].num # x.call[t].num
  BY <1>1 DEF Exclusive
<1>3. \A u \in Task : x.call[u].at \in {"add", "linked"} => Busy(x.call[u])
  BY <1>1 DEF Shape
<1> QED
  BY <1>2, <1>3 DEF Adds, Links

(* The sets that are counted are finite.                                    *)
LEMMA CountedFinite ==
  ASSUME NEW x, NEW n
  PROVE  /\ IsFiniteSet(Adders(x, n)) /\ IsFiniteSet(Linkers(x, n)) /\ IsFiniteSet(EntriesIn(x, n))
         /\ Cardinality(Adders(x, n)) \in Nat /\ Cardinality(Linkers(x, n)) \in Nat
         /\ Cardinality(EntriesIn(x, n)) \in Nat
<1>1. IsFiniteSet(Entry)
  <2>1. 1 \in Int /\ NrEntries \in Int
    BY InodeAssumption
  <2> QED  BY <2>1, FS_Interval DEF Entry
<1>2. IsFiniteSet(Adders(x, n)) /\ IsFiniteSet(Linkers(x, n)) /\ IsFiniteSet(EntriesIn(x, n))
  BY <1>1, InodeAssumption, FS_Subset DEF Adders, Linkers, EntriesIn
<1> QED
  BY <1>2, FS_CardinalityType

(* An inode a task holds, when it is not reading it, has been read by       *)
(* whoever has it: it is what its entry says (inode.c:231-248).             *)
LEMMA HeldSeen ==
  ASSUME NEW x, NEW t \in Task, Ind(x, t), NEW s \in Slot,
         HoldOf(x.held[t], x.call[t]) = s, x.call[t].at # "read", x.inode[s].num # 0
  PROVE  /\ \A u \in Task : ~Reads(x.call[u], s)
         /\ x.inode[s].num \in Num /\ x.inode[s].num \in x.imap
         /\ s \in Seen(x, x.inode[s].num)
         /\ LinksOf(x, x.inode[s].num) = x.inode[s].nlinks
         /\ ZoneOf(x, x.inode[s].num) = x.inode[s].zone
<1>1. Typed(x) /\ Counts(x) /\ Once(x) /\ SlotOK(x, s)
  BY DEF Ind
<1>2. x.inode[s].num \in Num /\ x.inode[s].num \in x.imap
  BY <1>1 DEF Typed, SlotOK
<1>3. ASSUME NEW u \in Task, Reads(x.call[u], s)
      PROVE  FALSE
  <2>1. Shape(x.held[u], x.call[u]) /\ Grip(x.call[u], x.inode[x.call[u].slot])
    BY <1>3 DEF Ind, TaskOK
  <2>2. x.inode[s].count = 1 /\ u # t
    BY <1>3, <2>1 DEF Grip, Reads
  <2>3. HoldOf(x.held[u], x.call[u]) = s
    BY <1>3, <2>1, InodeAssumption DEF Shape, HoldOf, Reads, Holding
  <2> QED  BY <1>1, <1>3, <2>2, <2>3, HeldCounted
<1>4. s \in Seen(x, x.inode[s].num)
  BY <1>3 DEF Seen
<1> QED
  BY <1>1, <1>2, <1>3, <1>4, SeenIs

(* Who shares an inode with t is where its count does not matter; who frees *)
(* one has it alone.                                                        *)
LEMMA SharersSuit ==
  ASSUME NEW x, NEW y, NEW t \in Task, Ind(x, t), NEW s \in Slot,
         HoldOf(x.held[t], x.call[t]) = s, x.inode[s].num # 0,
         y.inode[s].num = x.inode[s].num, y.inode[s].count = x.inode[s].count,
         y.inode[s].lock = x.inode[s].lock,
         NEW u \in Task \ {t},
         x.call[u].at = "cut" /\ x.call[u].slot = s => x.call[u].zone \in {NULL, y.inode[s].zone},
         x.call[u].at = "block" /\ x.call[u].slot = s => y.inode[s].zone = NULL
  PROVE  Suits(x, y, u, s)
<1>1. Counts(x) /\ Typed(x) /\ TaskOK(x, u) /\ x.call[u].at \in At
  BY DEF Ind
<1>2. Shape(x.held[u], x.call[u]) /\ Grip(x.call[u], x.inode[x.call[u].slot])
  BY <1>1 DEF TaskOK
<1>3. ASSUME x.call[u].at = "free", x.call[u].slot = s
      PROVE  FALSE
  <2>1. x.inode[s].count = 1
    BY <1>2, <1>3 DEF Grip
  <2>2. HoldOf(x.held[u], x.call[u]) = s
    BY <1>2, <1>3 DEF HoldOf, Shape, Holding
  <2> QED  BY <1>1, <2>1, <2>2, HeldCounted
<1>4. x.call[u].at = "wait" => x.inode[x.call[u].empty].num = 0
  BY <1>1 DEF TaskOK
<1>5. ~(x.call[u].at \in {"read", "write"} /\ x.call[u].slot = s)
  <2>1. x.call[u].at \in {"read", "write"} /\ x.call[u].slot = s => x.inode[s].count = 1
    BY <1>2 DEF Grip
  <2>2. x.call[u].at \in {"read", "write"} /\ x.call[u].slot = s
          => HoldOf(x.held[u], x.call[u]) = s
    BY <1>2 DEF HoldOf, Shape, Holding
  <2> QED  BY <1>1, <2>1, <2>2, HeldCounted
<1>6. x.call[u].slot = s => Grip(x.call[u], y.inode[s])
  BY <1>2, <1>3, <1>5 DEF Grip
<1> QED
  BY <1>3, <1>4, <1>6 DEF Suits

(* How the counts change with the place of one task, or with one entry.     *)
LEMMA PlacesCount ==
  ASSUME NEW x, NEW y, NEW t \in Task, NEW s, Differs(x, y, t, s), NEW n
  PROVE  /\ (Adds(y.call[t], n) <=> Adds(x.call[t], n)) =>
              Cardinality(Adders(y, n)) = Cardinality(Adders(x, n))
         /\ ~Adds(y.call[t], n) /\ Adds(x.call[t], n) =>
              Cardinality(Adders(x, n)) = Cardinality(Adders(y, n)) + 1
         /\ (Links(y.call[t], n) <=> Links(x.call[t], n)) =>
              Cardinality(Linkers(y, n)) = Cardinality(Linkers(x, n))
         /\ Links(y.call[t], n) /\ ~Links(x.call[t], n) =>
              Cardinality(Linkers(y, n)) = Cardinality(Linkers(x, n)) + 1
         /\ ~Links(y.call[t], n) /\ Links(x.call[t], n) =>
              Cardinality(Linkers(x, n)) = Cardinality(Linkers(y, n)) + 1
<1>1. /\ (Adds(y.call[t], n) <=> Adds(x.call[t], n)) => Adders(y, n) = Adders(x, n)
      /\ (Links(y.call[t], n) <=> Links(x.call[t], n)) => Linkers(y, n) = Linkers(x, n)
  BY DEF Adders, Linkers, Differs
<1>2. /\ ~Adds(y.call[t], n) /\ Adds(x.call[t], n) =>
           Adders(x, n) = Adders(y, n) \union {t} /\ t \notin Adders(y, n)
      /\ ~Links(y.call[t], n) /\ Links(x.call[t], n) =>
           Linkers(x, n) = Linkers(y, n) \union {t} /\ t \notin Linkers(y, n)
  BY DEF Adders, Linkers, Differs
<1>3. Links(y.call[t], n) /\ ~Links(x.call[t], n) =>
        Linkers(y, n) = Linkers(x, n) \union {t} /\ t \notin Linkers(x, n)
  BY DEF Linkers, Differs
<1> QED
  BY <1>1, <1>2, <1>3, CountedFinite, FS_AddElement

(* One entry of the directory changes.                                      *)
OtherEntries(x, y, e) == \A f \in Entry \ {e} : y.dir[f].num = x.dir[f].num

(* A set has one element more than another one.                             *)
OneMore(A, B) == Cardinality(A) = Cardinality(B) + 1

(* How the entries of an inode are fewer by one, or as many.                *)
LEMMA EntriesCount ==
  ASSUME NEW x, NEW y, NEW e \in Entry, OtherEntries(x, y, e), NEW n
  PROVE  /\ y.dir[e].num # n /\ x.dir[e].num # n => EntriesIn(y, n) = EntriesIn(x, n)
         /\ y.dir[e].num # n /\ x.dir[e].num = n =>
              OneMore(EntriesIn(x, n), EntriesIn(y, n))
<1>1. y.dir[e].num # n /\ x.dir[e].num # n => EntriesIn(y, n) = EntriesIn(x, n)
  BY DEF EntriesIn, OtherEntries
<1>2. y.dir[e].num # n /\ x.dir[e].num = n =>
        EntriesIn(x, n) = EntriesIn(y, n) \union {e} /\ e \notin EntriesIn(y, n)
  BY DEF EntriesIn, OtherEntries
<1> QED
  BY <1>1, <1>2, CountedFinite, FS_AddElement DEF OneMore

(* They are one more when a name is added.                                   *)
LEMMA EntryAdded ==
  ASSUME NEW x, NEW y, NEW e \in Entry, OtherEntries(x, y, e),
         NEW n, y.dir[e].num = n, x.dir[e].num # n
  PROVE  OneMore(EntriesIn(y, n), EntriesIn(x, n))
<1>1. EntriesIn(y, n) = EntriesIn(x, n) \union {e} /\ e \notin EntriesIn(x, n)
  BY DEF EntriesIn, OtherEntries
<1> QED
  BY <1>1, CountedFinite, FS_AddElement DEF OneMore

(* Who removes a name has an inode with links left, so unlink never finds   *)
(* "Deleting nonexistent file" (namei.c:614-618).                           *)
LEMMA UnlinkedHasLinks ==
  ASSUME NEW x, NEW t \in Task, Ind(x, t), NEW s \in Slot,
         x.call[t].at = "got", x.call[t].slot = s, x.call[t].op = "unlink"
  PROVE  x.inode[s].nlinks # 0
<1> DEFINE n == x.inode[s].num
<1>1. Typed(x) /\ TaskOK(x, t) /\ Linked(x)
  BY DEF Ind
<1>2. Shape(x.held[t], x.call[t]) /\ Grip(x.call[t], x.inode[s]) /\ Bound(x, x.call[t])
  BY <1>1 DEF TaskOK
<1>3. Busy(x.call[t]) /\ n # 0 /\ n = x.call[t].num /\ Named(x, n)
  BY <1>2 DEF Shape, Grip, Bound, Holding, Busy
<1>4. HoldOf(x.held[t], x.call[t]) = s
  BY <1>2 DEF Shape, HoldOf, Holding
<1>5. n \in Num /\ n \in x.imap /\ LinksOf(x, n) = x.inode[s].nlinks
  BY <1>3, <1>4, HeldSeen
<1>6. Linkers(x, n) = {}
  BY <1>3, MakesAlone DEF Linkers, Links
<1>7. EntriesIn(x, n) # {}
  BY <1>3 DEF EntriesIn, Named
<1>8. Cardinality(EntriesIn(x, n)) # 0
  BY <1>7, CountedFinite, FS_EmptySet
<1>9. Cardinality(Linkers(x, n)) = 0
  BY <1>6, FS_EmptySet
<1>10. LinksOf(x, n) + Cardinality(Linkers(x, n)) = Cardinality(EntriesIn(x, n)) + Cardinality(Adders(x, n))
  BY <1>1, <1>5 DEF Linked
<1> QED
  BY <1>5, <1>8, <1>9, <1>10, CountedFinite, ValuesTyped, <1>1

(* A new inode whose name is being added has the one link it was given      *)
(* (namei.c:349-358, bitmap.c:185-188).                                     *)
LEMMA NewHasOneLink ==
  ASSUME NEW x, NEW t \in Task, Ind(x, t), NEW s \in Slot,
         x.call[t].at = "add", x.call[t].slot = s, x.call[t].op = "creat"
  PROVE  x.inode[s].nlinks = 1
<1> DEFINE n == x.inode[s].num
<1>1. Typed(x) /\ TaskOK(x, t) /\ Linked(x)
  BY DEF Ind
<1>2. Shape(x.held[t], x.call[t]) /\ Grip(x.call[t], x.inode[s]) /\ Bound(x, x.call[t])
  BY <1>1 DEF TaskOK
<1>3. Busy(x.call[t]) /\ n # 0 /\ n = x.call[t].num /\ ~Named(x, n)
  BY <1>2 DEF Shape, Grip, Bound, Holding, Busy
<1>4. HoldOf(x.held[t], x.call[t]) = s
  BY <1>2 DEF Shape, HoldOf, Holding
<1>5. n \in Num /\ n \in x.imap /\ LinksOf(x, n) = x.inode[s].nlinks
  BY <1>3, <1>4, HeldSeen
<1>6. Linkers(x, n) = {}
  BY <1>3, MakesAlone DEF Linkers, Links
<1>7. EntriesIn(x, n) = {}
  BY <1>3 DEF EntriesIn, Named
<1>8. Adders(x, n) = {t}
  <2>1. Adds(x.call[t], n)
    BY <1>3 DEF Adds
  <2>2. \A u \in Task \ {t} : ~Adds(x.call[u], n)
    BY <1>3, MakesAlone
  <2> QED  BY <2>1, <2>2 DEF Adders
<1>9. Cardinality(Linkers(x, n)) = 0 /\ Cardinality(EntriesIn(x, n)) = 0 /\ Cardinality(Adders(x, n)) = 1
  BY <1>6, <1>7, <1>8, FS_EmptySet, FS_Singleton
<1>10. LinksOf(x, n) + Cardinality(Linkers(x, n)) = Cardinality(EntriesIn(x, n)) + Cardinality(Adders(x, n))
  BY <1>1, <1>5 DEF Linked
<1>11. LinksOf(x, n) \in Nat
  BY <1>1, <1>5, ValuesTyped
<1> QED
  BY <1>5, <1>9, <1>10, <1>11
-----------------------------------------------------------------------------
(* sys_unlink clears the entry and takes one link from the inode            *)
(* (namei.c:619-623).                                                       *)
LEMMA Unlinks ==
  ASSUME NEW x, NEW y, NEW t \in Task, NEW s \in Slot, Differs(x, y, t, s), Ind(x, t), Typed(y),
         y.image = x.image, y.imap = x.imap, y.wait[s] = x.wait[s],
         NEW e \in Entry, e = x.call[t].entry, y.zmap = x.zmap,
         y.dir[e].num = 0, OtherEntries(x, y, e),
         GoesOn(x.call[t], y.call[t]), y.held[t] = x.held[t],
         x.call[t].at = "got", x.call[t].slot = s, x.call[t].op = "unlink",
         y.call[t].at = "put", y.call[t].slot = s, y.call[t].empty = x.call[t].empty,
         IsInode(y.inode[s], x.inode[s].num, x.inode[s].count, x.inode[s].nlinks - 1,
                 x.inode[s].zone, TRUE, x.inode[s].lock)
  PROVE  Ind(y, t)
<1> DEFINE i == x.inode[s]
<1> DEFINE j == y.inode[s]
<1> DEFINE c == x.call[t]
<1> DEFINE d == y.call[t]
<1> DEFINE n == x.inode[s].num
<1>1. Typed(x) /\ Typed(y) /\ Once(x) /\ Counts(x) /\ Exclusive(x) /\ Apiece(x) /\ Linked(x) /\ Owned(x)
  BY DEF Ind
<1>2. SlotOK(x, s) /\ TaskOK(x, t) /\ Shape(x.held[t], c) /\ Grip(c, x.inode[c.slot]) /\ Bound(x, c)
  BY DEF Ind, TaskOK
<1>3. /\ i \in InodeType /\ j \in InodeType /\ i.count \in Nat /\ i.nlinks \in Nat /\ c \in CallType
      /\ x.held[t] \in Slot \union {NULL} /\ NULL \notin Slot /\ NULL \notin Block /\ 0 \notin Num
  BY <1>1, InodeAssumption DEF Typed, InodeType, Num
<1>4. /\ HoldOf(x.held[t], c) = s /\ HoldOf(y.held[t], d) = s
      /\ n # 0 /\ c.at # "read" /\ (Busy(c) => c.num = n)
  BY <1>2, <1>3 DEF TaskOK, Shape, Grip, HoldOf, Over, Holding, GoesOn, Busy
<1>5. /\ \A u \in Task : ~Reads(x.call[u], s)
      /\ n \in Num /\ n \in x.imap /\ LinksOf(x, n) = i.nlinks /\ ZoneOf(x, n) = i.zone
  BY <1>4, HeldSeen
<1>6. \A r \in Slot : ~Locks(c, r) /\ ~Locks(d, r) /\ ~Reads(c, r) /\ ~Reads(d, r)
  BY <1>2 DEF Locks, Reads, Over
<1>7. \A u \in Task : /\ Locks(y.call[u], s) <=> Locks(x.call[u], s)
                      /\ ~Reads(y.call[u], s)
  BY <1>5, <1>6 DEF Differs
<1>8. j.num = n /\ j.count = i.count /\ j.lock = i.lock
  BY DEF IsInode
<1>9. Once(y) /\ Counts(y)
  BY <1>1, <1>4, <1>8, OnceStays, CountsStay
<1>10. i.count # 0
  BY <1>1, <1>4, HeldCounted
<1>11. SlotOK(y, s)
  BY <1>2, <1>3, <1>5, <1>7, <1>8, <1>10 DEF SlotOK, IsInode
<1>12. TaskOK(y, t)
  BY <1>2, <1>3, <1>4, <1>8, SMTT(60) DEF TaskOK, Over, Shape, Grip, Bound, Holding, Busy,
     GoesOn, Named
<1>13. \A u \in Task \ {t} : Suits(x, y, u, s)
  <2>1. TAKE u \in Task \ {t}
  <2>2. TaskOK(x, u) /\ Shape(x.held[u], x.call[u]) /\ Grip(x.call[u], x.inode[x.call[u].slot])
    BY <2>1 DEF Ind, TaskOK
  <2>3. x.call[u].at = "cut" /\ x.call[u].slot = s => x.call[u].zone \in {NULL, j.zone}
    BY <2>2 DEF Grip, IsInode
  <2>4. x.call[u].at = "block" /\ x.call[u].slot = s => j.zone = NULL
    BY <2>2 DEF Grip, IsInode
  <2> QED  BY <1>4, <1>8, <2>1, <2>3, <2>4, SharersSuit
<1>14. \A u \in Task \ {t} : Bound(y, x.call[u])
  <2>1. TAKE u \in Task \ {t}
  <2>2. \A m \in Num : (m # n => (Named(y, m) <=> Named(x, m))) /\ (Named(y, m) => Named(x, m))
    <3>1. x.dir[e].num = n /\ y.dir[e].num = 0
      BY <1>2, <1>4 DEF Bound, Busy
    <3> QED  BY <1>3, <3>1 DEF Named, OtherEntries
  <2>3. /\ Shape(x.held[u], x.call[u]) /\ Grip(x.call[u], x.inode[x.call[u].slot]) /\ Bound(x, x.call[u])
        /\ x.call[u] \in CallType
    BY <1>1, <2>1 DEF Ind, TaskOK, Typed
  <2>4. Busy(x.call[u]) => x.call[u].num # n
    BY <1>2, <1>4, <2>1, MakesAlone DEF Shape, Busy
  <2>5. x.call[u].num \in {0} \union Num
    BY <2>3 DEF CallType
  <2>6. x.call[u].at = "free" => /\ x.inode[x.call[u].slot].num \in Num
                                 /\ y.inode[x.call[u].slot].num = x.inode[x.call[u].slot].num
    <3>1. x.call[u].at = "free" => x.call[u].slot \in Slot /\ x.inode[x.call[u].slot].num # 0
      BY <2>3 DEF Shape, Grip, Holding
    <3>2. \A r \in Slot : y.inode[r].num = x.inode[r].num /\ x.inode[r].num \in {0} \union Num
      BY <1>1, <1>8 DEF Typed, InodeType, Differs
    <3> QED  BY <3>1, <3>2
  <2>7. x.call[u].at = "free" => ~Named(y, y.inode[x.call[u].slot].num)
    BY <2>2, <2>3, <2>6 DEF Bound
  <2>8. /\ x.call[u].at \in {"found", "wait", "read", "got"} /\ x.call[u].op = "unlink"
             => x.call[u].entry # e
        /\ \A f \in Entry \ {e} : y.dir[f].num = x.dir[f].num
        /\ x.call[u].entry \in Entry
    <3>1. x.call[u].entry \in Entry
      BY <2>3 DEF CallType
    <3>2. x.call[u].at \in {"found", "wait", "read", "got"} /\ x.call[u].op = "unlink"
             => x.dir[x.call[u].entry].num = x.call[u].num /\ x.call[u].num # n /\ x.call[u].num # 0
      BY <2>3, <2>4 DEF Bound, Shape, Busy
    <3> QED  BY <1>2, <1>4, <3>1, <3>2 DEF Bound, Busy, OtherEntries
  <2>9. /\ x.call[u].at \in {"found", "wait", "read", "got", "new", "linked", "cut", "add"} =>
             Busy(x.call[u]) /\ x.call[u].num \in Num
        /\ Busy(x.call[u]) => x.call[u].num \in y.imap
    BY <2>3, <2>5 DEF Shape, Bound
  <2> QED  BY <2>2, <2>3, <2>4, <2>7, <2>8, <2>9 DEF Bound
<1>15. \A k \in Num : k # n => LinksOf(y, k) = LinksOf(x, k) /\ ZoneOf(y, k) = ZoneOf(x, k)
  BY <1>6, <1>8, OtherValues
<1>16. LinksOf(y, n) = j.nlinks /\ ZoneOf(y, n) = j.zone
  <2>1. s \in Seen(y, n)
    BY <1>7, <1>8 DEF Seen
  <2> QED  BY <1>5, <1>9, <2>1, SeenIs
<1>17. Linked(y)
  <2>1. LinksOf(x, n) + Cardinality(Linkers(x, n)) = Cardinality(EntriesIn(x, n)) + Cardinality(Adders(x, n))
    BY <1>1, <1>5 DEF Linked
  <2>2. LinksOf(y, n) = LinksOf(x, n) - 1 /\ LinksOf(x, n) # 0
    BY <1>5, <1>16, UnlinkedHasLinks DEF IsInode
  <2>3. Cardinality(Adders(y, n)) = Cardinality(Adders(x, n)) /\ Cardinality(Linkers(y, n)) = Cardinality(Linkers(x, n))
    <3>1. ~Adds(c, n) /\ ~Adds(d, n) /\ ~Links(c, n) /\ ~Links(d, n)
      BY <1>2, <1>4 DEF Adds, Links, Over, GoesOn, Busy, Shape
    <3> QED  BY ONLY <3>1, PlacesCount, Differs(x, y, t, s), t \in Task
  <2>4. Cardinality(EntriesIn(x, n)) = Cardinality(EntriesIn(y, n)) + 1
    <3>1. x.dir[e].num = n /\ y.dir[e].num # n
      BY <1>2, <1>4 DEF Bound, Busy
    <3>2. OneMore(EntriesIn(x, n), EntriesIn(y, n))
      BY <3>1, EntriesCount
    <3> QED  BY <3>2 DEF OneMore
  <2>5. LinksOf(y, n) + Cardinality(Linkers(y, n)) = Cardinality(EntriesIn(y, n)) + Cardinality(Adders(y, n))
    BY <1>1, <1>3, <1>5, <2>1, <2>2, <2>3, <2>4, CountedFinite, ValuesTyped
  <2>6. ASSUME NEW k \in Num \ {n}
        PROVE  /\ Adds(d, k) <=> Adds(c, k)
               /\ Links(d, k) <=> Links(c, k)
               /\ EntriesIn(y, k) = EntriesIn(x, k)
    <3>1. (Adds(d, k) <=> Adds(c, k)) /\ (Links(d, k) <=> Links(c, k))
      BY <1>2, <1>4, <2>6 DEF Adds, Links, Over, GoesOn, Busy, Shape
    <3>2. EntriesIn(y, k) = EntriesIn(x, k)
      <4>1. x.dir[e].num # k /\ y.dir[e].num # k
        BY <1>2, <1>3, <1>4, <2>6 DEF Bound, Busy
      <4> QED  BY ONLY <4>1, EntriesCount, e \in Entry, OtherEntries(x, y, e)
    <3> QED  BY <3>1, <3>2
  <2> QED  BY <1>1, <1>5, <1>15, <2>5, <2>6, LinkedBut
<1>18. Owned(y)
  <2>1. \A k \in Num : ZoneOf(y, k) = ZoneOf(x, k)
    BY <1>5, <1>15, <1>16 DEF IsInode
  <2>2. ~Blocks(c) /\ ~Blocks(d)
    BY DEF Blocks, Over
  <2> QED  BY <1>1, <2>1, <2>2, OwnedStays
<1>19. Exclusive(y) /\ Apiece(y)
  <2>1. Busy(d) => Busy(c) /\ d.op = c.op /\ d.num = c.num
    BY DEF Busy, Over, GoesOn
  <2>2. ~Blocks(d)
    BY DEF Blocks, Over
  <2> QED  BY <1>1, <2>1, <2>2, ExclusiveStays, ApieceStays
<1> QED
  BY <1>5, <1>6, <1>9, <1>11, <1>12, <1>13, <1>14, <1>17, <1>18, <1>19, DeepStep

(* add_entry() for sys_link: the inode gets the link after it               *)
(* (namei.c:672-682).                                                       *)
LEMMA AddsName ==
  ASSUME NEW x, NEW y, NEW t \in Task, NEW s \in Slot, Differs(x, y, t, s), Ind(x, t), Typed(y),
         y.image = x.image, y.imap = x.imap, y.wait[s] = x.wait[s],
         NEW e \in Entry, y.zmap = x.zmap, x.dir[e].num = 0, y.dir[e].num = x.inode[s].num,
         OtherEntries(x, y, e),
         x.call[t].at = "add", x.call[t].slot = s, x.call[t].op = "link",
         GoesOn(x.call[t], y.call[t]), y.held[t] = x.held[t],
         y.call[t].at = "linked", y.call[t].slot = s, y.call[t].empty = x.call[t].empty,
         y.inode[s] = x.inode[s]
  PROVE  Ind(y, t)
<1> DEFINE i == x.inode[s]
<1> DEFINE j == y.inode[s]
<1> DEFINE c == x.call[t]
<1> DEFINE d == y.call[t]
<1> DEFINE n == x.inode[s].num
<1>1. Typed(x) /\ Typed(y) /\ Once(x) /\ Counts(x) /\ Exclusive(x) /\ Apiece(x) /\ Linked(x) /\ Owned(x)
  BY DEF Ind
<1>2. SlotOK(x, s) /\ TaskOK(x, t) /\ Shape(x.held[t], c) /\ Grip(c, x.inode[c.slot]) /\ Bound(x, c)
  BY DEF Ind, TaskOK
<1>3. /\ i \in InodeType /\ j \in InodeType /\ i.count \in Nat /\ i.nlinks \in Nat /\ c \in CallType
      /\ x.held[t] \in Slot \union {NULL} /\ NULL \notin Slot /\ NULL \notin Block /\ 0 \notin Num
  BY <1>1, InodeAssumption DEF Typed, InodeType, Num
<1>4. /\ HoldOf(x.held[t], c) = s /\ HoldOf(y.held[t], d) = s
      /\ n # 0 /\ c.at # "read" /\ (Busy(c) => c.num = n)
  BY <1>2, <1>3 DEF TaskOK, Shape, Grip, HoldOf, Over, Holding, GoesOn, Busy
<1>5. /\ \A u \in Task : ~Reads(x.call[u], s)
      /\ n \in Num /\ n \in x.imap /\ LinksOf(x, n) = i.nlinks /\ ZoneOf(x, n) = i.zone
  BY <1>4, HeldSeen
<1>6. \A r \in Slot : ~Locks(c, r) /\ ~Locks(d, r) /\ ~Reads(c, r) /\ ~Reads(d, r)
  BY <1>2 DEF Locks, Reads, Over
<1>7. \A u \in Task : /\ Locks(y.call[u], s) <=> Locks(x.call[u], s)
                      /\ ~Reads(y.call[u], s)
  BY <1>5, <1>6 DEF Differs
<1>8. j.num = n /\ j.count = i.count /\ j.lock = i.lock
  BY DEF IsInode
<1>9. Once(y) /\ Counts(y)
  BY <1>1, <1>4, <1>8, OnceStays, CountsStay
<1>10. i.count # 0
  BY <1>1, <1>4, HeldCounted
<1>11. SlotOK(y, s)
  BY <1>2, <1>3, <1>5, <1>7, <1>8, <1>10 DEF SlotOK
<1>12. TaskOK(y, t)
  BY <1>2, <1>3, <1>4, <1>8 DEF TaskOK, Over, Shape, Grip, Bound, Holding, Busy, GoesOn, Named
<1>13. \A u \in Task \ {t} : Suits(x, y, u, s)
  <2>1. TAKE u \in Task \ {t}
  <2>2. TaskOK(x, u) /\ Shape(x.held[u], x.call[u]) /\ Grip(x.call[u], x.inode[x.call[u].slot])
    BY <2>1 DEF Ind, TaskOK
  <2>3. x.call[u].at = "cut" /\ x.call[u].slot = s => x.call[u].zone \in {NULL, j.zone}
    BY <2>2 DEF Grip, IsInode
  <2>4. x.call[u].at = "block" /\ x.call[u].slot = s => j.zone = NULL
    BY <2>2 DEF Grip, IsInode
  <2> QED  BY <1>4, <1>8, <2>1, <2>3, <2>4, SharersSuit
<1>14. \A u \in Task \ {t} : Bound(y, x.call[u])
  <2>1. TAKE u \in Task \ {t}
  <2>2. \A m \in Num : (m # n => (Named(y, m) <=> Named(x, m))) /\ (Named(x, m) => Named(y, m))
    BY <1>3, <1>4, <1>2 DEF Named, OtherEntries
  <2>3. /\ Shape(x.held[u], x.call[u]) /\ Grip(x.call[u], x.inode[x.call[u].slot]) /\ Bound(x, x.call[u])
        /\ x.call[u] \in CallType
    BY <1>1, <2>1 DEF Ind, TaskOK, Typed
  <2>4. Busy(x.call[u]) => x.call[u].num # n
    BY <1>2, <1>4, <2>1, MakesAlone DEF Shape, Busy
  <2>5. x.call[u].num \in {0} \union Num
    BY <2>3 DEF CallType
  <2>6. x.call[u].at = "free" => /\ x.inode[x.call[u].slot].num \in Num
                                 /\ y.inode[x.call[u].slot].num = x.inode[x.call[u].slot].num
    <3>1. x.call[u].at = "free" => x.call[u].slot \in Slot /\ x.inode[x.call[u].slot].num # 0
      BY <2>3 DEF Shape, Grip, Holding
    <3>2. \A r \in Slot : y.inode[r].num = x.inode[r].num /\ x.inode[r].num \in {0} \union Num
      BY <1>1, <1>8 DEF Typed, InodeType, Differs
    <3> QED  BY <3>1, <3>2
  <2>7. x.call[u].at = "free" => ~Named(y, y.inode[x.call[u].slot].num)
    <3>1. ASSUME x.call[u].at = "free", x.inode[x.call[u].slot].num = n
          PROVE  FALSE
      <4>1. x.call[u].slot \in Slot
        BY <2>3, <3>1 DEF Shape, Holding
      <4>2. x.call[u].slot = s
        BY <1>1, <1>4, <3>1, <4>1 DEF Once
      <4>3. i.count = 1 /\ HoldOf(x.held[u], x.call[u]) = s
        BY <2>3, <3>1, <4>2 DEF Grip, HoldOf, Shape, Holding
      <4> QED  BY <1>1, <1>4, <2>1, <4>3, HeldCounted
    <3> QED  BY <2>2, <2>3, <2>6, <3>1 DEF Bound
  <2>8. /\ x.call[u].at \in {"found", "wait", "read", "got"} /\ x.call[u].op = "unlink"
             => x.call[u].entry # e
        /\ \A f \in Entry \ {e} : y.dir[f].num = x.dir[f].num
        /\ x.call[u].entry \in Entry
    <3>1. x.call[u].entry \in Entry
      BY <2>3 DEF CallType
    <3>2. x.call[u].at \in {"found", "wait", "read", "got"} /\ x.call[u].op = "unlink"
             => x.dir[x.call[u].entry].num = x.call[u].num /\ x.call[u].num # n /\ x.call[u].num # 0
      BY <2>3, <2>4 DEF Bound, Shape, Busy
    <3> QED  BY <1>2, <1>4, <3>1, <3>2 DEF Bound, Busy, OtherEntries
  <2>9. /\ x.call[u].at \in {"found", "wait", "read", "got", "new", "linked", "cut", "add"} =>
             Busy(x.call[u]) /\ x.call[u].num \in Num
        /\ Busy(x.call[u]) => x.call[u].num \in y.imap
    BY <2>3, <2>5 DEF Shape, Bound
  <2> QED  BY <2>2, <2>3, <2>4, <2>7, <2>8, <2>9 DEF Bound
<1>15. \A k \in Num : k # n => LinksOf(y, k) = LinksOf(x, k) /\ ZoneOf(y, k) = ZoneOf(x, k)
  BY <1>6, <1>8, OtherValues
<1>16. LinksOf(y, n) = j.nlinks /\ ZoneOf(y, n) = j.zone
  <2>1. s \in Seen(y, n)
    BY <1>7, <1>8 DEF Seen
  <2> QED  BY <1>5, <1>9, <2>1, SeenIs
<1>17. Linked(y)
  <2>1. LinksOf(x, n) + Cardinality(Linkers(x, n)) = Cardinality(EntriesIn(x, n)) + Cardinality(Adders(x, n))
    BY <1>1, <1>5 DEF Linked
  <2>2. LinksOf(y, n) = LinksOf(x, n)
    BY <1>5, <1>16 DEF IsInode
  <2>3. Cardinality(Adders(y, n)) = Cardinality(Adders(x, n)) /\ Cardinality(Linkers(y, n)) = Cardinality(Linkers(x, n)) + 1
    <3>1. ~Adds(c, n) /\ ~Adds(d, n) /\ ~Links(c, n) /\ Links(d, n)
      BY <1>2, <1>4 DEF Adds, Links, Over, GoesOn, Busy, Shape
    <3> QED  BY ONLY <3>1, PlacesCount, Differs(x, y, t, s), t \in Task
  <2>4. Cardinality(EntriesIn(y, n)) = Cardinality(EntriesIn(x, n)) + 1
    <3>1. x.dir[e].num # n /\ y.dir[e].num = n
      BY <1>4
    <3>2. OneMore(EntriesIn(y, n), EntriesIn(x, n))
      BY <3>1, EntryAdded
    <3> QED  BY <3>2 DEF OneMore
  <2>5. LinksOf(y, n) + Cardinality(Linkers(y, n)) = Cardinality(EntriesIn(y, n)) + Cardinality(Adders(y, n))
    BY <1>1, <1>3, <1>5, <2>1, <2>2, <2>3, <2>4, CountedFinite, ValuesTyped
  <2>6. ASSUME NEW k \in Num \ {n}
        PROVE  /\ Adds(d, k) <=> Adds(c, k)
               /\ Links(d, k) <=> Links(c, k)
               /\ EntriesIn(y, k) = EntriesIn(x, k)
    <3>1. (Adds(d, k) <=> Adds(c, k)) /\ (Links(d, k) <=> Links(c, k))
      BY <1>2, <1>4, <2>6 DEF Adds, Links, Over, GoesOn, Busy, Shape
    <3>2. EntriesIn(y, k) = EntriesIn(x, k)
      <4>1. x.dir[e].num # k /\ y.dir[e].num # k
        BY <1>3, <1>4, <2>6
      <4> QED  BY ONLY <4>1, EntriesCount, e \in Entry, OtherEntries(x, y, e)
    <3> QED  BY <3>1, <3>2
  <2> QED  BY <1>1, <1>5, <1>15, <2>5, <2>6, LinkedBut
<1>18. Owned(y)
  <2>1. \A k \in Num : ZoneOf(y, k) = ZoneOf(x, k)
    BY <1>5, <1>15, <1>16 DEF IsInode
  <2>2. ~Blocks(c) /\ ~Blocks(d)
    BY DEF Blocks, Over
  <2> QED  BY <1>1, <2>1, <2>2, OwnedStays
<1>19. Exclusive(y) /\ Apiece(y)
  <2>1. Busy(d) => Busy(c) /\ d.op = c.op /\ d.num = c.num
    BY DEF Busy, Over, GoesOn
  <2>2. ~Blocks(d)
    BY DEF Blocks, Over
  <2> QED  BY <1>1, <2>1, <2>2, ExclusiveStays, ApieceStays
<1> QED
  BY <1>5, <1>6, <1>9, <1>11, <1>12, <1>13, <1>14, <1>17, <1>18, <1>19, DeepStep

(* add_entry() for open_namei: the name has the link it came with           *)
(* (namei.c:356-368).                                                       *)
LEMMA AddsFile ==
  ASSUME NEW x, NEW y, NEW t \in Task, NEW s \in Slot, Differs(x, y, t, s), Ind(x, t), Typed(y),
         y.image = x.image, y.imap = x.imap, y.wait[s] = x.wait[s],
         NEW e \in Entry, y.zmap = x.zmap, x.dir[e].num = 0, y.dir[e].num = x.inode[s].num,
         OtherEntries(x, y, e),
         x.call[t].at = "add", x.call[t].slot = s, x.call[t].op = "creat",
         Over(y.call[t]), y.held[t] = s,
         y.inode[s] = x.inode[s]
  PROVE  Ind(y, t)
<1> DEFINE i == x.inode[s]
<1> DEFINE j == y.inode[s]
<1> DEFINE c == x.call[t]
<1> DEFINE d == y.call[t]
<1> DEFINE n == x.inode[s].num
<1>1. Typed(x) /\ Typed(y) /\ Once(x) /\ Counts(x) /\ Exclusive(x) /\ Apiece(x) /\ Linked(x) /\ Owned(x)
  BY DEF Ind
<1>2. SlotOK(x, s) /\ TaskOK(x, t) /\ Shape(x.held[t], c) /\ Grip(c, x.inode[c.slot]) /\ Bound(x, c)
  BY DEF Ind, TaskOK
<1>3. /\ i \in InodeType /\ j \in InodeType /\ i.count \in Nat /\ i.nlinks \in Nat /\ c \in CallType
      /\ x.held[t] \in Slot \union {NULL} /\ NULL \notin Slot /\ NULL \notin Block /\ 0 \notin Num
  BY <1>1, InodeAssumption DEF Typed, InodeType, Num
<1>4. /\ HoldOf(x.held[t], c) = s /\ HoldOf(y.held[t], d) = s
      /\ n # 0 /\ c.at # "read" /\ (Busy(c) => c.num = n)
  BY <1>2, <1>3 DEF TaskOK, Shape, Grip, HoldOf, Over, Holding, GoesOn, Busy
<1>5. /\ \A u \in Task : ~Reads(x.call[u], s)
      /\ n \in Num /\ n \in x.imap /\ LinksOf(x, n) = i.nlinks /\ ZoneOf(x, n) = i.zone
  BY <1>4, HeldSeen
<1>6. \A r \in Slot : ~Locks(c, r) /\ ~Locks(d, r) /\ ~Reads(c, r) /\ ~Reads(d, r)
  BY <1>2 DEF Locks, Reads, Over
<1>7. \A u \in Task : /\ Locks(y.call[u], s) <=> Locks(x.call[u], s)
                      /\ ~Reads(y.call[u], s)
  BY <1>5, <1>6 DEF Differs
<1>8. j.num = n /\ j.count = i.count /\ j.lock = i.lock
  BY DEF IsInode
<1>9. Once(y) /\ Counts(y)
  BY <1>1, <1>4, <1>8, OnceStays, CountsStay
<1>10. i.count # 0
  BY <1>1, <1>4, HeldCounted
<1>11. SlotOK(y, s)
  BY <1>2, <1>3, <1>5, <1>7, <1>8, <1>10 DEF SlotOK
<1>12. TaskOK(y, t)
  BY <1>2, <1>3, <1>4, <1>8 DEF TaskOK, Over, Shape, Grip, Bound, Holding, Busy, GoesOn, Named
<1>13. \A u \in Task \ {t} : Suits(x, y, u, s)
  <2>1. TAKE u \in Task \ {t}
  <2>2. TaskOK(x, u) /\ Shape(x.held[u], x.call[u]) /\ Grip(x.call[u], x.inode[x.call[u].slot])
    BY <2>1 DEF Ind, TaskOK
  <2>3. x.call[u].at = "cut" /\ x.call[u].slot = s => x.call[u].zone \in {NULL, j.zone}
    BY <2>2 DEF Grip, IsInode
  <2>4. x.call[u].at = "block" /\ x.call[u].slot = s => j.zone = NULL
    BY <2>2 DEF Grip, IsInode
  <2> QED  BY <1>4, <1>8, <2>1, <2>3, <2>4, SharersSuit
<1>14. \A u \in Task \ {t} : Bound(y, x.call[u])
  <2>1. TAKE u \in Task \ {t}
  <2>2. \A m \in Num : (m # n => (Named(y, m) <=> Named(x, m))) /\ (Named(x, m) => Named(y, m))
    BY <1>3, <1>4, <1>2 DEF Named, OtherEntries
  <2>3. /\ Shape(x.held[u], x.call[u]) /\ Grip(x.call[u], x.inode[x.call[u].slot]) /\ Bound(x, x.call[u])
        /\ x.call[u] \in CallType
    BY <1>1, <2>1 DEF Ind, TaskOK, Typed
  <2>4. Busy(x.call[u]) => x.call[u].num # n
    BY <1>2, <1>4, <2>1, MakesAlone DEF Shape, Busy
  <2>5. x.call[u].num \in {0} \union Num
    BY <2>3 DEF CallType
  <2>6. x.call[u].at = "free" => /\ x.inode[x.call[u].slot].num \in Num
                                 /\ y.inode[x.call[u].slot].num = x.inode[x.call[u].slot].num
    <3>1. x.call[u].at = "free" => x.call[u].slot \in Slot /\ x.inode[x.call[u].slot].num # 0
      BY <2>3 DEF Shape, Grip, Holding
    <3>2. \A r \in Slot : y.inode[r].num = x.inode[r].num /\ x.inode[r].num \in {0} \union Num
      BY <1>1, <1>8 DEF Typed, InodeType, Differs
    <3> QED  BY <3>1, <3>2
  <2>7. x.call[u].at = "free" => ~Named(y, y.inode[x.call[u].slot].num)
    <3>1. ASSUME x.call[u].at = "free", x.inode[x.call[u].slot].num = n
          PROVE  FALSE
      <4>1. x.call[u].slot \in Slot
        BY <2>3, <3>1 DEF Shape, Holding
      <4>2. x.call[u].slot = s
        BY <1>1, <1>4, <3>1, <4>1 DEF Once
      <4>3. i.count = 1 /\ HoldOf(x.held[u], x.call[u]) = s
        BY <2>3, <3>1, <4>2 DEF Grip, HoldOf, Shape, Holding
      <4> QED  BY <1>1, <1>4, <2>1, <4>3, HeldCounted
    <3> QED  BY <2>2, <2>3, <2>6, <3>1 DEF Bound
  <2>8. /\ x.call[u].at \in {"found", "wait", "read", "got"} /\ x.call[u].op = "unlink"
             => x.call[u].entry # e
        /\ \A f \in Entry \ {e} : y.dir[f].num = x.dir[f].num
        /\ x.call[u].entry \in Entry
    <3>1. x.call[u].entry \in Entry
      BY <2>3 DEF CallType
    <3>2. x.call[u].at \in {"found", "wait", "read", "got"} /\ x.call[u].op = "unlink"
             => x.dir[x.call[u].entry].num = x.call[u].num /\ x.call[u].num # n /\ x.call[u].num # 0
      BY <2>3, <2>4 DEF Bound, Shape, Busy
    <3> QED  BY <1>2, <1>4, <3>1, <3>2 DEF Bound, Busy, OtherEntries
  <2>9. /\ x.call[u].at \in {"found", "wait", "read", "got", "new", "linked", "cut", "add"} =>
             Busy(x.call[u]) /\ x.call[u].num \in Num
        /\ Busy(x.call[u]) => x.call[u].num \in y.imap
    BY <2>3, <2>5 DEF Shape, Bound
  <2> QED  BY <2>2, <2>3, <2>4, <2>7, <2>8, <2>9 DEF Bound
<1>15. \A k \in Num : k # n => LinksOf(y, k) = LinksOf(x, k) /\ ZoneOf(y, k) = ZoneOf(x, k)
  BY <1>6, <1>8, OtherValues
<1>16. LinksOf(y, n) = j.nlinks /\ ZoneOf(y, n) = j.zone
  <2>1. s \in Seen(y, n)
    BY <1>7, <1>8 DEF Seen
  <2> QED  BY <1>5, <1>9, <2>1, SeenIs
<1>17. Linked(y)
  <2>1. LinksOf(x, n) + Cardinality(Linkers(x, n)) = Cardinality(EntriesIn(x, n)) + Cardinality(Adders(x, n))
    BY <1>1, <1>5 DEF Linked
  <2>2. LinksOf(y, n) = LinksOf(x, n)
    BY <1>5, <1>16 DEF IsInode
  <2>3. Cardinality(Adders(x, n)) = Cardinality(Adders(y, n)) + 1 /\ Cardinality(Linkers(y, n)) = Cardinality(Linkers(x, n))
    <3>1. Adds(c, n) /\ ~Adds(d, n) /\ ~Links(c, n) /\ ~Links(d, n)
      BY <1>2, <1>4 DEF Adds, Links, Over, GoesOn, Busy, Shape
    <3> QED  BY ONLY <3>1, PlacesCount, Differs(x, y, t, s), t \in Task
  <2>4. Cardinality(EntriesIn(y, n)) = Cardinality(EntriesIn(x, n)) + 1
    <3>1. x.dir[e].num # n /\ y.dir[e].num = n
      BY <1>4
    <3>2. OneMore(EntriesIn(y, n), EntriesIn(x, n))
      BY <3>1, EntryAdded
    <3> QED  BY <3>2 DEF OneMore
  <2>5. LinksOf(y, n) + Cardinality(Linkers(y, n)) = Cardinality(EntriesIn(y, n)) + Cardinality(Adders(y, n))
    BY <1>1, <1>3, <1>5, <2>1, <2>2, <2>3, <2>4, CountedFinite, ValuesTyped
  <2>6. ASSUME NEW k \in Num \ {n}
        PROVE  /\ Adds(d, k) <=> Adds(c, k)
               /\ Links(d, k) <=> Links(c, k)
               /\ EntriesIn(y, k) = EntriesIn(x, k)
    <3>1. (Adds(d, k) <=> Adds(c, k)) /\ (Links(d, k) <=> Links(c, k))
      BY <1>2, <1>4, <2>6 DEF Adds, Links, Over, GoesOn, Busy, Shape
    <3>2. EntriesIn(y, k) = EntriesIn(x, k)
      <4>1. x.dir[e].num # k /\ y.dir[e].num # k
        BY <1>3, <1>4, <2>6
      <4> QED  BY ONLY <4>1, EntriesCount, e \in Entry, OtherEntries(x, y, e)
    <3> QED  BY <3>1, <3>2
  <2> QED  BY <1>1, <1>5, <1>15, <2>5, <2>6, LinkedBut
<1>18. Owned(y)
  <2>1. \A k \in Num : ZoneOf(y, k) = ZoneOf(x, k)
    BY <1>5, <1>15, <1>16 DEF IsInode
  <2>2. ~Blocks(c) /\ ~Blocks(d)
    BY DEF Blocks, Over
  <2> QED  BY <1>1, <2>1, <2>2, OwnedStays
<1>19. Exclusive(y) /\ Apiece(y)
  <2>1. Busy(d) => Busy(c) /\ d.op = c.op /\ d.num = c.num
    BY DEF Busy, Over, GoesOn
  <2>2. ~Blocks(d)
    BY DEF Blocks, Over
  <2> QED  BY <1>1, <2>1, <2>2, ExclusiveStays, ApieceStays
<1> QED
  BY <1>5, <1>6, <1>9, <1>11, <1>12, <1>13, <1>14, <1>17, <1>18, <1>19, DeepStep

(* The name does not fit: open_namei takes the link back (namei.c:357-361). *)
LEMMA AddsNothing ==
  ASSUME NEW x, NEW y, NEW t \in Task, NEW s \in Slot, Differs(x, y, t, s), Ind(x, t), Typed(y),
         y.image = x.image, y.imap = x.imap, y.wait[s] = x.wait[s],
         y.dir = x.dir, y.zmap = x.zmap,
         GoesOn(x.call[t], y.call[t]), y.held[t] = x.held[t],
         x.call[t].at = "add", x.call[t].slot = s, x.call[t].op = "creat",
         y.call[t].at = "put", y.call[t].slot = s, y.call[t].empty = x.call[t].empty,
         IsInode(y.inode[s], x.inode[s].num, x.inode[s].count, x.inode[s].nlinks - 1,
                 x.inode[s].zone, x.inode[s].dirt, x.inode[s].lock)
  PROVE  Ind(y, t)
<1> DEFINE i == x.inode[s]
<1> DEFINE j == y.inode[s]
<1> DEFINE c == x.call[t]
<1> DEFINE d == y.call[t]
<1> DEFINE n == x.inode[s].num
<1>1. Typed(x) /\ Typed(y) /\ Once(x) /\ Counts(x) /\ Exclusive(x) /\ Apiece(x) /\ Linked(x) /\ Owned(x)
  BY DEF Ind
<1>2. SlotOK(x, s) /\ TaskOK(x, t) /\ Shape(x.held[t], c) /\ Grip(c, x.inode[c.slot]) /\ Bound(x, c)
  BY DEF Ind, TaskOK
<1>3. /\ i \in InodeType /\ j \in InodeType /\ i.count \in Nat /\ i.nlinks \in Nat /\ c \in CallType
      /\ x.held[t] \in Slot \union {NULL} /\ NULL \notin Slot /\ NULL \notin Block /\ 0 \notin Num
  BY <1>1, InodeAssumption DEF Typed, InodeType, Num
<1>4. /\ HoldOf(x.held[t], c) = s /\ HoldOf(y.held[t], d) = s
      /\ n # 0 /\ c.at # "read" /\ (Busy(c) => c.num = n)
  BY <1>2, <1>3 DEF TaskOK, Shape, Grip, HoldOf, Over, Holding, GoesOn, Busy
<1>5. /\ \A u \in Task : ~Reads(x.call[u], s)
      /\ n \in Num /\ n \in x.imap /\ LinksOf(x, n) = i.nlinks /\ ZoneOf(x, n) = i.zone
  BY <1>4, HeldSeen
<1>6. \A r \in Slot : ~Locks(c, r) /\ ~Locks(d, r) /\ ~Reads(c, r) /\ ~Reads(d, r)
  BY <1>2 DEF Locks, Reads, Over
<1>7. \A u \in Task : /\ Locks(y.call[u], s) <=> Locks(x.call[u], s)
                      /\ ~Reads(y.call[u], s)
  BY <1>5, <1>6 DEF Differs
<1>8. j.num = n /\ j.count = i.count /\ j.lock = i.lock
  BY DEF IsInode
<1>9. Once(y) /\ Counts(y)
  BY <1>1, <1>4, <1>8, OnceStays, CountsStay
<1>10. i.count # 0
  BY <1>1, <1>4, HeldCounted
<1>11. SlotOK(y, s)
  <2>1. j.nlinks = 0
    BY <1>3, NewHasOneLink DEF IsInode
  <2> QED  BY <1>2, <1>3, <1>5, <1>7, <1>8, <1>10, <2>1 DEF SlotOK, IsInode
<1>12. TaskOK(y, t)
  BY <1>2, <1>3, <1>4, <1>8, SMTT(60) DEF TaskOK, Over, Shape, Grip, Bound, Holding, Busy,
     GoesOn, Named
<1>13. \A u \in Task \ {t} : Suits(x, y, u, s)
  <2>1. TAKE u \in Task \ {t}
  <2>2. TaskOK(x, u) /\ Shape(x.held[u], x.call[u]) /\ Grip(x.call[u], x.inode[x.call[u].slot])
    BY <2>1 DEF Ind, TaskOK
  <2>3. x.call[u].at = "cut" /\ x.call[u].slot = s => x.call[u].zone \in {NULL, j.zone}
    BY <2>2 DEF Grip, IsInode
  <2>4. x.call[u].at = "block" /\ x.call[u].slot = s => j.zone = NULL
    BY <2>2 DEF Grip, IsInode
  <2> QED  BY <1>4, <1>8, <2>1, <2>3, <2>4, SharersSuit
<1>14. \A u \in Task \ {t} : Bound(y, x.call[u])
  BY <1>13, BoundStays DEF Ind
<1>15. \A k \in Num : k # n => LinksOf(y, k) = LinksOf(x, k) /\ ZoneOf(y, k) = ZoneOf(x, k)
  BY <1>6, <1>8, OtherValues
<1>16. LinksOf(y, n) = j.nlinks /\ ZoneOf(y, n) = j.zone
  <2>1. s \in Seen(y, n)
    BY <1>7, <1>8 DEF Seen
  <2> QED  BY <1>5, <1>9, <2>1, SeenIs
<1>17. Linked(y)
  <2>1. LinksOf(x, n) + Cardinality(Linkers(x, n)) = Cardinality(EntriesIn(x, n)) + Cardinality(Adders(x, n))
    BY <1>1, <1>5 DEF Linked
  <2>2. LinksOf(y, n) = LinksOf(x, n) - 1 /\ LinksOf(x, n) = 1
    BY <1>5, <1>16, NewHasOneLink DEF IsInode
  <2>3. Cardinality(Adders(x, n)) = Cardinality(Adders(y, n)) + 1 /\ Cardinality(Linkers(y, n)) = Cardinality(Linkers(x, n))
    <3>1. Adds(c, n) /\ ~Adds(d, n) /\ ~Links(c, n) /\ ~Links(d, n)
      BY <1>2, <1>4 DEF Adds, Links, Over, GoesOn, Busy, Shape
    <3> QED  BY ONLY <3>1, PlacesCount, Differs(x, y, t, s), t \in Task
  <2>4. \A k : EntriesIn(y, k) = EntriesIn(x, k)
    BY DEF EntriesIn
  <2>5. LinksOf(y, n) + Cardinality(Linkers(y, n)) = Cardinality(EntriesIn(y, n)) + Cardinality(Adders(y, n))
    BY <1>1, <1>3, <1>5, <2>1, <2>2, <2>3, <2>4, CountedFinite, ValuesTyped
  <2>6. ASSUME NEW k \in Num \ {n}
        PROVE  /\ Adds(d, k) <=> Adds(c, k)
               /\ Links(d, k) <=> Links(c, k)
               /\ EntriesIn(y, k) = EntriesIn(x, k)
    <3>1. (Adds(d, k) <=> Adds(c, k)) /\ (Links(d, k) <=> Links(c, k))
      BY <1>2, <1>4, <2>6 DEF Adds, Links, Over, GoesOn, Busy, Shape
    <3>2. EntriesIn(y, k) = EntriesIn(x, k)
      BY <2>4
    <3> QED  BY <3>1, <3>2
  <2> QED  BY <1>1, <1>5, <1>15, <2>5, <2>6, LinkedBut
<1>18. Owned(y)
  <2>1. \A k \in Num : ZoneOf(y, k) = ZoneOf(x, k)
    BY <1>5, <1>15, <1>16 DEF IsInode
  <2>2. ~Blocks(c) /\ ~Blocks(d)
    BY DEF Blocks, Over
  <2> QED  BY <1>1, <2>1, <2>2, OwnedStays
<1>19. Exclusive(y) /\ Apiece(y)
  <2>1. Busy(d) => Busy(c) /\ d.op = c.op /\ d.num = c.num
    BY DEF Busy, Over, GoesOn
  <2>2. ~Blocks(d)
    BY DEF Blocks, Over
  <2> QED  BY <1>1, <2>1, <2>2, ExclusiveStays, ApieceStays
<1> QED
  BY <1>5, <1>6, <1>9, <1>11, <1>12, <1>13, <1>14, <1>17, <1>18, <1>19, DeepStep

(* sys_link counts the new link (namei.c:682-685).                          *)
LEMMA CountsLink ==
  ASSUME NEW x, NEW y, NEW t \in Task, NEW s \in Slot, Differs(x, y, t, s), Ind(x, t), Typed(y),
         y.image = x.image, y.imap = x.imap, y.wait[s] = x.wait[s],
         y.dir = x.dir, y.zmap = x.zmap,
         GoesOn(x.call[t], y.call[t]), y.held[t] = x.held[t],
         x.call[t].at = "linked", x.call[t].slot = s,
         y.call[t].at = "put", y.call[t].slot = s, y.call[t].empty = x.call[t].empty,
         IsInode(y.inode[s], x.inode[s].num, x.inode[s].count, x.inode[s].nlinks + 1,
                 x.inode[s].zone, TRUE, x.inode[s].lock)
  PROVE  Ind(y, t)
<1> DEFINE i == x.inode[s]
<1> DEFINE j == y.inode[s]
<1> DEFINE c == x.call[t]
<1> DEFINE d == y.call[t]
<1> DEFINE n == x.inode[s].num
<1>1. Typed(x) /\ Typed(y) /\ Once(x) /\ Counts(x) /\ Exclusive(x) /\ Apiece(x) /\ Linked(x) /\ Owned(x)
  BY DEF Ind
<1>2. SlotOK(x, s) /\ TaskOK(x, t) /\ Shape(x.held[t], c) /\ Grip(c, x.inode[c.slot]) /\ Bound(x, c)
  BY DEF Ind, TaskOK
<1>3. /\ i \in InodeType /\ j \in InodeType /\ i.count \in Nat /\ i.nlinks \in Nat /\ c \in CallType
      /\ x.held[t] \in Slot \union {NULL} /\ NULL \notin Slot /\ NULL \notin Block /\ 0 \notin Num
  BY <1>1, InodeAssumption DEF Typed, InodeType, Num
<1>4. /\ HoldOf(x.held[t], c) = s /\ HoldOf(y.held[t], d) = s
      /\ n # 0 /\ c.at # "read" /\ (Busy(c) => c.num = n)
  BY <1>2, <1>3 DEF TaskOK, Shape, Grip, HoldOf, Over, Holding, GoesOn, Busy
<1>5. /\ \A u \in Task : ~Reads(x.call[u], s)
      /\ n \in Num /\ n \in x.imap /\ LinksOf(x, n) = i.nlinks /\ ZoneOf(x, n) = i.zone
  BY <1>4, HeldSeen
<1>6. \A r \in Slot : ~Locks(c, r) /\ ~Locks(d, r) /\ ~Reads(c, r) /\ ~Reads(d, r)
  BY <1>2 DEF Locks, Reads, Over
<1>7. \A u \in Task : /\ Locks(y.call[u], s) <=> Locks(x.call[u], s)
                      /\ ~Reads(y.call[u], s)
  BY <1>5, <1>6 DEF Differs
<1>8. j.num = n /\ j.count = i.count /\ j.lock = i.lock
  BY DEF IsInode
<1>9. Once(y) /\ Counts(y)
  BY <1>1, <1>4, <1>8, OnceStays, CountsStay
<1>10. i.count # 0
  BY <1>1, <1>4, HeldCounted
<1>11. SlotOK(y, s)
  BY <1>2, <1>3, <1>5, <1>7, <1>8, <1>10 DEF SlotOK, IsInode
<1>12. TaskOK(y, t)
  BY <1>2, <1>3, <1>4, <1>8, SMTT(60) DEF TaskOK, Over, Shape, Grip, Bound, Holding, Busy,
     GoesOn, Named
<1>13. \A u \in Task \ {t} : Suits(x, y, u, s)
  <2>1. TAKE u \in Task \ {t}
  <2>2. TaskOK(x, u) /\ Shape(x.held[u], x.call[u]) /\ Grip(x.call[u], x.inode[x.call[u].slot])
    BY <2>1 DEF Ind, TaskOK
  <2>3. x.call[u].at = "cut" /\ x.call[u].slot = s => x.call[u].zone \in {NULL, j.zone}
    BY <2>2 DEF Grip, IsInode
  <2>4. x.call[u].at = "block" /\ x.call[u].slot = s => j.zone = NULL
    BY <2>2 DEF Grip, IsInode
  <2> QED  BY <1>4, <1>8, <2>1, <2>3, <2>4, SharersSuit
<1>14. \A u \in Task \ {t} : Bound(y, x.call[u])
  BY <1>13, BoundStays DEF Ind
<1>15. \A k \in Num : k # n => LinksOf(y, k) = LinksOf(x, k) /\ ZoneOf(y, k) = ZoneOf(x, k)
  BY <1>6, <1>8, OtherValues
<1>16. LinksOf(y, n) = j.nlinks /\ ZoneOf(y, n) = j.zone
  <2>1. s \in Seen(y, n)
    BY <1>7, <1>8 DEF Seen
  <2> QED  BY <1>5, <1>9, <2>1, SeenIs
<1>17. Linked(y)
  <2>1. LinksOf(x, n) + Cardinality(Linkers(x, n)) = Cardinality(EntriesIn(x, n)) + Cardinality(Adders(x, n))
    BY <1>1, <1>5 DEF Linked
  <2>2. LinksOf(y, n) = LinksOf(x, n) + 1
    BY <1>5, <1>16 DEF IsInode
  <2>3. Cardinality(Adders(y, n)) = Cardinality(Adders(x, n)) /\ Cardinality(Linkers(x, n)) = Cardinality(Linkers(y, n)) + 1
    <3>1. ~Adds(c, n) /\ ~Adds(d, n) /\ Links(c, n) /\ ~Links(d, n)
      BY <1>2, <1>4 DEF Adds, Links, Over, GoesOn, Busy, Shape
    <3> QED  BY ONLY <3>1, PlacesCount, Differs(x, y, t, s), t \in Task
  <2>4. \A k : EntriesIn(y, k) = EntriesIn(x, k)
    BY DEF EntriesIn
  <2>5. LinksOf(y, n) + Cardinality(Linkers(y, n)) = Cardinality(EntriesIn(y, n)) + Cardinality(Adders(y, n))
    BY <1>1, <1>3, <1>5, <2>1, <2>2, <2>3, <2>4, CountedFinite, ValuesTyped
  <2>6. ASSUME NEW k \in Num \ {n}
        PROVE  /\ Adds(d, k) <=> Adds(c, k)
               /\ Links(d, k) <=> Links(c, k)
               /\ EntriesIn(y, k) = EntriesIn(x, k)
    <3>1. (Adds(d, k) <=> Adds(c, k)) /\ (Links(d, k) <=> Links(c, k))
      BY <1>2, <1>4, <2>6 DEF Adds, Links, Over, GoesOn, Busy, Shape
    <3>2. EntriesIn(y, k) = EntriesIn(x, k)
      BY <2>4
    <3> QED  BY <3>1, <3>2
  <2> QED  BY <1>1, <1>5, <1>15, <2>5, <2>6, LinkedBut
<1>18. Owned(y)
  <2>1. \A k \in Num : ZoneOf(y, k) = ZoneOf(x, k)
    BY <1>5, <1>15, <1>16 DEF IsInode
  <2>2. ~Blocks(c) /\ ~Blocks(d)
    BY DEF Blocks, Over
  <2> QED  BY <1>1, <2>1, <2>2, OwnedStays
<1>19. Exclusive(y) /\ Apiece(y)
  <2>1. Busy(d) => Busy(c) /\ d.op = c.op /\ d.num = c.num
    BY DEF Busy, Over, GoesOn
  <2>2. ~Blocks(d)
    BY DEF Blocks, Over
  <2> QED  BY <1>1, <2>1, <2>2, ExclusiveStays, ApieceStays
<1> QED
  BY <1>5, <1>6, <1>9, <1>11, <1>12, <1>13, <1>14, <1>17, <1>18, <1>19, DeepStep

(* O_TRUNC of a file that had no block when open_namei looked: truncate     *)
(* only marks it (truncate.c:41-58).                                        *)
LEMMA CutsNothing ==
  ASSUME NEW x, NEW y, NEW t \in Task, NEW s \in Slot, Differs(x, y, t, s), Ind(x, t), Typed(y),
         y.image = x.image, y.imap = x.imap, y.wait[s] = x.wait[s],
         y.dir = x.dir, y.zmap = x.zmap,
         x.call[t].at = "cut", x.call[t].slot = s,
         Over(y.call[t]), y.held[t] = s,
         IsInode(y.inode[s], x.inode[s].num, x.inode[s].count, x.inode[s].nlinks,
                 x.inode[s].zone, TRUE, x.inode[s].lock)
  PROVE  Ind(y, t)
<1> DEFINE i == x.inode[s]
<1> DEFINE j == y.inode[s]
<1> DEFINE c == x.call[t]
<1> DEFINE d == y.call[t]
<1> DEFINE n == x.inode[s].num
<1>1. Typed(x) /\ Typed(y) /\ Once(x) /\ Counts(x) /\ Exclusive(x) /\ Apiece(x) /\ Linked(x) /\ Owned(x)
  BY DEF Ind
<1>2. SlotOK(x, s) /\ TaskOK(x, t) /\ Shape(x.held[t], c) /\ Grip(c, x.inode[c.slot]) /\ Bound(x, c)
  BY DEF Ind, TaskOK
<1>3. /\ i \in InodeType /\ j \in InodeType /\ i.count \in Nat /\ i.nlinks \in Nat /\ c \in CallType
      /\ x.held[t] \in Slot \union {NULL} /\ NULL \notin Slot /\ NULL \notin Block /\ 0 \notin Num
  BY <1>1, InodeAssumption DEF Typed, InodeType, Num
<1>4. /\ HoldOf(x.held[t], c) = s /\ HoldOf(y.held[t], d) = s
      /\ n # 0 /\ c.at # "read" /\ (Busy(c) => c.num = n)
  BY <1>2, <1>3 DEF TaskOK, Shape, Grip, HoldOf, Over, Holding, GoesOn, Busy
<1>5. /\ \A u \in Task : ~Reads(x.call[u], s)
      /\ n \in Num /\ n \in x.imap /\ LinksOf(x, n) = i.nlinks /\ ZoneOf(x, n) = i.zone
  BY <1>4, HeldSeen
<1>6. \A r \in Slot : ~Locks(c, r) /\ ~Locks(d, r) /\ ~Reads(c, r) /\ ~Reads(d, r)
  BY <1>2 DEF Locks, Reads, Over
<1>7. \A u \in Task : /\ Locks(y.call[u], s) <=> Locks(x.call[u], s)
                      /\ ~Reads(y.call[u], s)
  BY <1>5, <1>6 DEF Differs
<1>8. j.num = n /\ j.count = i.count /\ j.lock = i.lock
  BY DEF IsInode
<1>9. Once(y) /\ Counts(y)
  BY <1>1, <1>4, <1>8, OnceStays, CountsStay
<1>10. i.count # 0
  BY <1>1, <1>4, HeldCounted
<1>11. SlotOK(y, s)
  BY <1>2, <1>3, <1>5, <1>7, <1>8, <1>10 DEF SlotOK, IsInode
<1>12. TaskOK(y, t)
  BY <1>2, <1>3, <1>4, <1>8 DEF TaskOK, Over, Shape, Grip, Bound, Holding, Busy, GoesOn, Named
<1>13. \A u \in Task \ {t} : Suits(x, y, u, s)
  <2>1. TAKE u \in Task \ {t}
  <2>2. TaskOK(x, u) /\ Shape(x.held[u], x.call[u]) /\ Grip(x.call[u], x.inode[x.call[u].slot])
    BY <2>1 DEF Ind, TaskOK
  <2>3. x.call[u].at = "cut" /\ x.call[u].slot = s => x.call[u].zone \in {NULL, j.zone}
    BY <2>2 DEF Grip, IsInode
  <2>4. x.call[u].at = "block" /\ x.call[u].slot = s => j.zone = NULL
    BY <2>2 DEF Grip, IsInode
  <2> QED  BY <1>4, <1>8, <2>1, <2>3, <2>4, SharersSuit
<1>14. \A u \in Task \ {t} : Bound(y, x.call[u])
  BY <1>13, BoundStays DEF Ind
<1>15. \A k \in Num : k # n => LinksOf(y, k) = LinksOf(x, k) /\ ZoneOf(y, k) = ZoneOf(x, k)
  BY <1>6, <1>8, OtherValues
<1>16. LinksOf(y, n) = j.nlinks /\ ZoneOf(y, n) = j.zone
  <2>1. s \in Seen(y, n)
    BY <1>7, <1>8 DEF Seen
  <2> QED  BY <1>5, <1>9, <2>1, SeenIs
<1>17. Linked(y)
  <2>1. \A k \in Num : LinksOf(y, k) = LinksOf(x, k)
    BY <1>5, <1>15, <1>16 DEF IsInode
  <2>2. \A k \in Num : ~Adds(c, k) /\ ~Adds(d, k) /\ ~Links(c, k) /\ ~Links(d, k)
    BY DEF Adds, Links, Over
  <2> QED  BY <1>1, <2>1, <2>2, LinkedStays
<1>18. Owned(y)
  <2>1. \A k \in Num : ZoneOf(y, k) = ZoneOf(x, k)
    BY <1>5, <1>15, <1>16 DEF IsInode
  <2>2. ~Blocks(c) /\ ~Blocks(d)
    BY DEF Blocks, Over
  <2> QED  BY <1>1, <2>1, <2>2, OwnedStays
<1>19. Exclusive(y) /\ Apiece(y)
  <2>1. Busy(d) => Busy(c) /\ d.op = c.op /\ d.num = c.num
    BY DEF Busy, Over, GoesOn
  <2>2. ~Blocks(d)
    BY DEF Blocks, Over
  <2> QED  BY <1>1, <2>1, <2>2, ExclusiveStays, ApieceStays
<1> QED
  BY <1>5, <1>6, <1>9, <1>11, <1>12, <1>13, <1>14, <1>17, <1>18, <1>19, DeepStep

(* O_TRUNC frees the block of the file (truncate.c:41-58, bitmap.c:73-99).  *)
LEMMA CutsZone ==
  ASSUME NEW x, NEW y, NEW t \in Task, NEW s \in Slot, Differs(x, y, t, s), Ind(x, t), Typed(y),
         y.image = x.image, y.imap = x.imap, y.wait[s] = x.wait[s],
         y.dir = x.dir, x.call[t].zone # NULL, y.zmap = x.zmap \ {x.call[t].zone},
         x.call[t].at = "cut", x.call[t].slot = s,
         Over(y.call[t]), y.held[t] = s,
         IsInode(y.inode[s], x.inode[s].num, x.inode[s].count, x.inode[s].nlinks,
                 NULL, TRUE, x.inode[s].lock)
  PROVE  Ind(y, t)
<1> DEFINE i == x.inode[s]
<1> DEFINE j == y.inode[s]
<1> DEFINE c == x.call[t]
<1> DEFINE d == y.call[t]
<1> DEFINE n == x.inode[s].num
<1>1. Typed(x) /\ Typed(y) /\ Once(x) /\ Counts(x) /\ Exclusive(x) /\ Apiece(x) /\ Linked(x) /\ Owned(x)
  BY DEF Ind
<1>2. SlotOK(x, s) /\ TaskOK(x, t) /\ Shape(x.held[t], c) /\ Grip(c, x.inode[c.slot]) /\ Bound(x, c)
  BY DEF Ind, TaskOK
<1>3. /\ i \in InodeType /\ j \in InodeType /\ i.count \in Nat /\ i.nlinks \in Nat /\ c \in CallType
      /\ x.held[t] \in Slot \union {NULL} /\ NULL \notin Slot /\ NULL \notin Block /\ 0 \notin Num
  BY <1>1, InodeAssumption DEF Typed, InodeType, Num
<1>4. /\ HoldOf(x.held[t], c) = s /\ HoldOf(y.held[t], d) = s
      /\ n # 0 /\ c.at # "read" /\ (Busy(c) => c.num = n)
  BY <1>2, <1>3 DEF TaskOK, Shape, Grip, HoldOf, Over, Holding, GoesOn, Busy
<1>5. /\ \A u \in Task : ~Reads(x.call[u], s)
      /\ n \in Num /\ n \in x.imap /\ LinksOf(x, n) = i.nlinks /\ ZoneOf(x, n) = i.zone
  BY <1>4, HeldSeen
<1>6. \A r \in Slot : ~Locks(c, r) /\ ~Locks(d, r) /\ ~Reads(c, r) /\ ~Reads(d, r)
  BY <1>2 DEF Locks, Reads, Over
<1>7. \A u \in Task : /\ Locks(y.call[u], s) <=> Locks(x.call[u], s)
                      /\ ~Reads(y.call[u], s)
  BY <1>5, <1>6 DEF Differs
<1>8. j.num = n /\ j.count = i.count /\ j.lock = i.lock
  BY DEF IsInode
<1>9. Once(y) /\ Counts(y)
  BY <1>1, <1>4, <1>8, OnceStays, CountsStay
<1>10. i.count # 0
  BY <1>1, <1>4, HeldCounted
<1>11. SlotOK(y, s)
  BY <1>2, <1>3, <1>5, <1>7, <1>8, <1>10 DEF SlotOK, IsInode
<1>12. TaskOK(y, t)
  BY <1>2, <1>3, <1>4, <1>8, SMTT(60) DEF TaskOK, Over, Shape, Grip, Bound, Holding, Busy,
     GoesOn, Named
<1>13. \A u \in Task \ {t} : Suits(x, y, u, s)
  <2>1. TAKE u \in Task \ {t}
  <2>2. TaskOK(x, u) /\ Shape(x.held[u], x.call[u]) /\ Grip(x.call[u], x.inode[x.call[u].slot])
    BY <2>1 DEF Ind, TaskOK
  <2>3. x.call[u].at = "cut" /\ x.call[u].slot = s => x.call[u].zone \in {NULL, j.zone}
    BY <1>2, <1>4, <2>1, <2>2, MakesAlone DEF Shape, Grip, Busy, Holding
  <2>4. x.call[u].at = "block" /\ x.call[u].slot = s => j.zone = NULL
    BY DEF IsInode
  <2> QED  BY <1>4, <1>8, <2>1, <2>3, <2>4, SharersSuit
<1>14. \A u \in Task \ {t} : Bound(y, x.call[u])
  BY <1>13, BoundStays DEF Ind
<1>15. \A k \in Num : k # n => LinksOf(y, k) = LinksOf(x, k) /\ ZoneOf(y, k) = ZoneOf(x, k)
  BY <1>6, <1>8, OtherValues
<1>16. LinksOf(y, n) = j.nlinks /\ ZoneOf(y, n) = j.zone
  <2>1. s \in Seen(y, n)
    BY <1>7, <1>8 DEF Seen
  <2> QED  BY <1>5, <1>9, <2>1, SeenIs
<1>17. Linked(y)
  <2>1. \A k \in Num : LinksOf(y, k) = LinksOf(x, k)
    BY <1>5, <1>15, <1>16 DEF IsInode
  <2>2. \A k \in Num : ~Adds(c, k) /\ ~Adds(d, k) /\ ~Links(c, k) /\ ~Links(d, k)
    BY DEF Adds, Links, Over
  <2> QED  BY <1>1, <2>1, <2>2, LinkedStays
<1>18. Owned(y)
  <2>1. c.zone = ZoneOf(x, n) /\ c.zone \in Block /\ ZoneOf(y, n) = NULL
    BY <1>2, <1>3, <1>5, <1>16 DEF Grip, CallType, IsInode
  <2>2. \A k \in x.imap \ {n} : ZoneOf(y, k) = ZoneOf(x, k) /\ ZoneOf(x, k) # c.zone
    BY <1>1, <1>5, <1>15, <2>1 DEF Owned, Typed
  <2>3. \A u \in Task : /\ Blocks(y.call[u]) <=> Blocks(x.call[u])
                        /\ Blocks(x.call[u]) => y.call[u] = x.call[u] /\ x.call[u].zone # c.zone
                                                /\ x.call[u].zone # NULL
    <3>1. \A u \in Task : Blocks(x.call[u]) => x.call[u].zone # c.zone
      BY <1>1, <1>5, <2>1 DEF Owned
    <3>2. \A u \in Task : Blocks(x.call[u]) => x.call[u].zone # NULL
      BY DEF Ind, TaskOK, Shape, Blocks
    <3>3. ~Blocks(c) /\ ~Blocks(d)
      BY DEF Blocks, Over
    <3> QED  BY <3>1, <3>2, <3>3 DEF Differs
  <2>4. \A b \in Block \ {c.zone} : b \in y.zmap <=> \/ \E k \in y.imap : ZoneOf(y, k) = b
                                                     \/ \E u \in Task : Blocks(y.call[u]) /\ y.call[u].zone = b
    BY <1>1, <1>3, <1>5, <2>1, <2>2, <2>3 DEF Owned
  <2>5. ~(\E k \in y.imap : ZoneOf(y, k) = c.zone)
    BY <1>3, <2>1, <2>2
  <2>6. \A k, m \in y.imap : ZoneOf(y, k) # NULL /\ ZoneOf(y, k) = ZoneOf(y, m) => k = m
    BY <1>1, <2>1, <2>2 DEF Owned
  <2>7. \A k \in y.imap, u \in Task : Blocks(y.call[u]) => y.call[u].zone # ZoneOf(y, k)
    BY <1>1, <2>1, <2>2, <2>3 DEF Owned
  <2> QED  BY <2>3, <2>4, <2>5, <2>6, <2>7 DEF Owned
<1>19. Exclusive(y) /\ Apiece(y)
  <2>1. Busy(d) => Busy(c) /\ d.op = c.op /\ d.num = c.num
    BY DEF Busy, Over, GoesOn
  <2>2. ~Blocks(d)
    BY DEF Blocks, Over
  <2> QED  BY <1>1, <2>1, <2>2, ExclusiveStays, ApieceStays
<1> QED
  BY <1>5, <1>6, <1>9, <1>11, <1>12, <1>13, <1>14, <1>17, <1>18, <1>19, DeepStep

(* The file gets the block that new_block marked (inode.c:59-63).           *)
LEMMA GetsZone ==
  ASSUME NEW x, NEW y, NEW t \in Task, NEW s \in Slot, Differs(x, y, t, s), Ind(x, t), Typed(y),
         y.image = x.image, y.imap = x.imap, y.wait[s] = x.wait[s],
         y.dir = x.dir, y.zmap = x.zmap,
         x.call[t].at = "block", x.call[t].slot = s,
         Over(y.call[t]), y.held[t] = s,
         IsInode(y.inode[s], x.inode[s].num, x.inode[s].count, x.inode[s].nlinks,
                 x.call[t].zone, TRUE, x.inode[s].lock)
  PROVE  Ind(y, t)
<1> DEFINE i == x.inode[s]
<1> DEFINE j == y.inode[s]
<1> DEFINE c == x.call[t]
<1> DEFINE d == y.call[t]
<1> DEFINE n == x.inode[s].num
<1>1. Typed(x) /\ Typed(y) /\ Once(x) /\ Counts(x) /\ Exclusive(x) /\ Apiece(x) /\ Linked(x) /\ Owned(x)
  BY DEF Ind
<1>2. SlotOK(x, s) /\ TaskOK(x, t) /\ Shape(x.held[t], c) /\ Grip(c, x.inode[c.slot]) /\ Bound(x, c)
  BY DEF Ind, TaskOK
<1>3. /\ i \in InodeType /\ j \in InodeType /\ i.count \in Nat /\ i.nlinks \in Nat /\ c \in CallType
      /\ x.held[t] \in Slot \union {NULL} /\ NULL \notin Slot /\ NULL \notin Block /\ 0 \notin Num
  BY <1>1, InodeAssumption DEF Typed, InodeType, Num
<1>4. /\ HoldOf(x.held[t], c) = s /\ HoldOf(y.held[t], d) = s
      /\ n # 0 /\ c.at # "read" /\ (Busy(c) => c.num = n)
  BY <1>2, <1>3 DEF TaskOK, Shape, Grip, HoldOf, Over, Holding, GoesOn, Busy
<1>5. /\ \A u \in Task : ~Reads(x.call[u], s)
      /\ n \in Num /\ n \in x.imap /\ LinksOf(x, n) = i.nlinks /\ ZoneOf(x, n) = i.zone
  BY <1>4, HeldSeen
<1>6. \A r \in Slot : ~Locks(c, r) /\ ~Locks(d, r) /\ ~Reads(c, r) /\ ~Reads(d, r)
  BY <1>2 DEF Locks, Reads, Over
<1>7. \A u \in Task : /\ Locks(y.call[u], s) <=> Locks(x.call[u], s)
                      /\ ~Reads(y.call[u], s)
  BY <1>5, <1>6 DEF Differs
<1>8. j.num = n /\ j.count = i.count /\ j.lock = i.lock
  BY DEF IsInode
<1>9. Once(y) /\ Counts(y)
  BY <1>1, <1>4, <1>8, OnceStays, CountsStay
<1>10. i.count # 0
  BY <1>1, <1>4, HeldCounted
<1>11. SlotOK(y, s)
  BY <1>2, <1>3, <1>5, <1>7, <1>8, <1>10 DEF SlotOK, IsInode
<1>12. TaskOK(y, t)
  BY <1>2, <1>3, <1>4, <1>8 DEF TaskOK, Over, Shape, Grip, Bound, Holding, Busy, GoesOn, Named
<1>13. \A u \in Task \ {t} : Suits(x, y, u, s)
  <2>1. TAKE u \in Task \ {t}
  <2>2. TaskOK(x, u) /\ Shape(x.held[u], x.call[u]) /\ Grip(x.call[u], x.inode[x.call[u].slot])
    BY <2>1 DEF Ind, TaskOK
  <2>3. x.call[u].at = "cut" /\ x.call[u].slot = s => x.call[u].zone \in {NULL, j.zone}
    BY <1>2, <2>2 DEF Grip
  <2>4. x.call[u].at = "block" /\ x.call[u].slot = s => j.zone = NULL
    BY <1>1, <2>1 DEF Apiece, Blocks
  <2> QED  BY <1>4, <1>8, <2>1, <2>3, <2>4, SharersSuit
<1>14. \A u \in Task \ {t} : Bound(y, x.call[u])
  BY <1>13, BoundStays DEF Ind
<1>15. \A k \in Num : k # n => LinksOf(y, k) = LinksOf(x, k) /\ ZoneOf(y, k) = ZoneOf(x, k)
  BY <1>6, <1>8, OtherValues
<1>16. LinksOf(y, n) = j.nlinks /\ ZoneOf(y, n) = j.zone
  <2>1. s \in Seen(y, n)
    BY <1>7, <1>8 DEF Seen
  <2> QED  BY <1>5, <1>9, <2>1, SeenIs
<1>17. Linked(y)
  <2>1. \A k \in Num : LinksOf(y, k) = LinksOf(x, k)
    BY <1>5, <1>15, <1>16 DEF IsInode
  <2>2. \A k \in Num : ~Adds(c, k) /\ ~Adds(d, k) /\ ~Links(c, k) /\ ~Links(d, k)
    BY DEF Adds, Links, Over
  <2> QED  BY <1>1, <2>1, <2>2, LinkedStays
<1>18. Owned(y)
  <2>1. c.zone # NULL /\ c.zone \in Block /\ ZoneOf(y, n) = c.zone /\ ZoneOf(x, n) = NULL /\ Blocks(c) /\ ~Blocks(d)
    BY <1>2, <1>3, <1>5, <1>16 DEF Grip, Shape, CallType, IsInode, Blocks, Over
  <2>2. \A k \in x.imap \ {n} : ZoneOf(y, k) = ZoneOf(x, k) /\ ZoneOf(x, k) # c.zone
    BY <1>1, <1>5, <1>15, <2>1 DEF Owned, Typed
  <2>3. \A u \in Task \ {t} : /\ Blocks(y.call[u]) <=> Blocks(x.call[u])
                              /\ Blocks(x.call[u]) => y.call[u] = x.call[u] /\ x.call[u].zone # c.zone
    BY <1>1, <2>1 DEF Apiece, Differs
  <2>4. ASSUME NEW b \in Block
        PROVE  b \in y.zmap <=> \/ \E k \in y.imap : ZoneOf(y, k) = b
                                \/ \E u \in Task : Blocks(y.call[u]) /\ y.call[u].zone = b
    <3>1. CASE b = c.zone
      <4>1. b \in x.zmap
        BY <1>1, <2>1, <3>1 DEF Owned
      <4> QED  BY <1>5, <2>1, <3>1, <4>1
    <3>2. CASE b # c.zone
      <4>1. (\E k \in y.imap : ZoneOf(y, k) = b) <=> (\E k \in x.imap : ZoneOf(x, k) = b)
        BY <1>3, <2>1, <2>2, <2>4, <3>2
      <4>2. (\E u \in Task : Blocks(y.call[u]) /\ y.call[u].zone = b)
              <=> (\E u \in Task : Blocks(x.call[u]) /\ x.call[u].zone = b)
        BY <2>1, <2>3, <3>2
      <4> QED  BY <1>1, <2>4, <4>1, <4>2 DEF Owned
    <3> QED  BY <3>1, <3>2
  <2>5. \A k, m \in y.imap : ZoneOf(y, k) # NULL /\ ZoneOf(y, k) = ZoneOf(y, m) => k = m
    BY <1>1, <2>1, <2>2 DEF Owned
  <2>6. \A k \in y.imap, u \in Task : Blocks(y.call[u]) => y.call[u].zone # ZoneOf(y, k)
    BY <1>1, <2>1, <2>2, <2>3 DEF Owned
  <2> QED  BY <2>4, <2>5, <2>6 DEF Owned
<1>19. Exclusive(y) /\ Apiece(y)
  <2>1. Busy(d) => Busy(c) /\ d.op = c.op /\ d.num = c.num
    BY DEF Busy, Over, GoesOn
  <2>2. ~Blocks(d)
    BY DEF Blocks, Over
  <2> QED  BY <1>1, <2>1, <2>2, ExclusiveStays, ApieceStays
<1> QED
  BY <1>5, <1>6, <1>9, <1>11, <1>12, <1>13, <1>14, <1>17, <1>18, <1>19, DeepStep

-----------------------------------------------------------------------------
(* new_inode(): the entry becomes a new inode, with a number that was free  *)
(* (bitmap.c:162-192).                                                      *)
LEMMA Creates ==
  ASSUME NEW x, NEW y, NEW t \in Task, NEW s \in Slot, Differs(x, y, t, s), Ind(x, t), Typed(y),
         NEW n \in Num, n \notin x.imap, y.imap = x.imap \union {n},
         y.image = x.image, y.dir = x.dir, y.zmap = x.zmap, y.wait[s] = {},
         x.call[t].at = "user", x.held[t] = NULL, y.held[t] = NULL, x.inode[s].count = 0,
         y.call[t].at = "add", y.call[t].slot = s, y.call[t].empty = NULL,
         y.call[t].op = "creat", y.call[t].num = n,
         IsInode(y.inode[s], n, 1, 1, NULL, TRUE, FALSE)
  PROVE  Ind(y, t)
<1> DEFINE i == x.inode[s]
<1> DEFINE j == y.inode[s]
<1> DEFINE c == x.call[t]
<1> DEFINE d == y.call[t]
<1>1. Typed(x) /\ Once(x) /\ Counts(x) /\ Exclusive(x) /\ Apiece(x) /\ Linked(x) /\ Owned(x)
  BY DEF Ind
<1>2. SlotOK(x, s) /\ TaskOK(x, t) /\ Shape(x.held[t], c)
  BY DEF Ind, TaskOK
<1>3. NULL \notin Slot /\ NULL \notin Block /\ 0 \notin Num /\ n # 0
  BY InodeAssumption DEF Num
<1>4. HoldOf(x.held[t], c) = NULL /\ HoldOf(y.held[t], d) = s /\ c.op = "none"
  BY <1>2, <1>3 DEF Shape, HoldOf, Holding
<1>5. \A u \in Task : ~Locks(x.call[u], s) /\ ~Reads(x.call[u], s)
  BY <1>2, LockersOf DEF SlotOK, Locks, Reads
<1>6. \A r \in Slot : ~Locks(c, r) /\ ~Locks(d, r) /\ ~Reads(c, r) /\ ~Reads(d, r)
  BY DEF Locks, Reads
<1>7. \A u \in Task : ~Locks(y.call[u], s) /\ ~Reads(y.call[u], s)
  BY <1>5, <1>6 DEF Differs
<1>8. /\ j.num = n /\ j.count = 1 /\ j.nlinks = 1 /\ j.zone = NULL /\ j.dirt /\ ~j.lock
      /\ j.count = i.count + 1
  BY DEF IsInode
<1>9. \A r \in Slot : x.inode[r].num # n
  BY <1>1, <1>3 DEF Ind, SlotOK
<1>10. Once(y)
  BY <1>1, <1>8, <1>9 DEF Once, Differs
<1>11. Counts(y)
  BY <1>1, <1>4, <1>8, CountsStay
<1>12. SlotOK(y, s)
  BY <1>3, <1>7, <1>8 DEF SlotOK
<1>13. EntriesIn(x, n) = {} /\ ~Named(x, n)
  BY <1>1 DEF Linked, EntriesIn, Named
<1>14. TaskOK(y, t)
  <2>1. ~Named(y, n)
    BY <1>13 DEF Named
  <2>2. Shape(NULL, d)
    BY <1>3 DEF Shape, Busy
  <2>3. Grip(d, j)
    BY <1>3, <1>8 DEF Grip, Busy
  <2> QED  BY <1>3, <2>1, <2>2, <2>3 DEF TaskOK, Bound, Busy
<1>15. \A u \in Task \ {t} : Busy(x.call[u]) => x.call[u].num # n
  BY DEF Ind, TaskOK, Bound
<1>16. \A u \in Task \ {t} : Suits(x, y, u, s)
  <2>1. TAKE u \in Task \ {t}
  <2>2. TaskOK(x, u) /\ HoldOf(x.held[u], x.call[u]) # s /\ ~Locks(x.call[u], s)
    BY <1>1, <1>5, <2>1, NobodyHolds DEF Ind
  <2> QED  BY <1>1, <2>1, <2>2, AloneSuits DEF Locks
<1>17. \A u \in Task \ {t} : Bound(y, x.call[u])
  <2>1. TAKE u \in Task \ {t}
  <2>2. Bound(x, x.call[u]) /\ Shape(x.held[u], x.call[u])
    BY <2>1 DEF Ind, TaskOK
  <2>3. x.call[u].at = "free" => y.inode[x.call[u].slot].num = x.inode[x.call[u].slot].num
    BY <1>16, <2>1, <2>2 DEF Suits, Differs, Shape, Holding
  <2>4. \A m : Named(y, m) <=> Named(x, m)
    BY DEF Named
  <2> QED  BY <2>2, <2>3, <2>4 DEF Bound
<1>18. Exclusive(y)
  <2>1. SUFFICES ASSUME NEW u \in Task, NEW v \in Task, u # v,
                        Busy(y.call[u]), Busy(y.call[v]), y.call[u].num = y.call[v].num
                 PROVE  y.call[u].op = "open" /\ y.call[v].op = "open"
    BY DEF Exclusive
  <2>2. u # t /\ v # t
    BY <1>15, <2>1 DEF Differs
  <2> QED  BY <1>1, <2>1, <2>2 DEF Exclusive, Differs
<1>19. Apiece(y)
  <2>1. ~Blocks(y.call[t]) /\ Apiece(x)
    BY <1>1 DEF Blocks
  <2> QED  BY ONLY <2>1, ApieceStays, Differs(x, y, t, s), t \in Task
<1>20. \A k \in Num : k # n => LinksOf(y, k) = LinksOf(x, k) /\ ZoneOf(y, k) = ZoneOf(x, k)
  <2>1. ASSUME NEW k \in Num, k # n, k # i.num
        PROVE  LinksOf(y, k) = LinksOf(x, k) /\ ZoneOf(y, k) = ZoneOf(x, k)
    <3>1. k # j.num /\ y.image[k] = x.image[k]
      BY <1>8, <2>1
    <3>2. \A r \in Slot \ {s} : ~Reads(c, r) /\ ~Reads(d, r)
      BY <1>6
    <3> QED  BY ONLY <2>1, <3>1, <3>2, OtherValues, Differs(x, y, t, s), t \in Task, s \in Slot
  <2>2. ASSUME NEW k \in Num, k # n, k = i.num
        PROVE  LinksOf(y, k) = LinksOf(x, k) /\ ZoneOf(y, k) = ZoneOf(x, k)
    <3>1. s \in Seen(x, k)
      BY <1>5, <2>2 DEF Seen
    <3>2. Seen(y, k) = {}
      BY <1>1, <1>3, <1>8, <2>2 DEF Seen, Once, Differs
    <3>3. x.image[k].nlinks = i.nlinks /\ x.image[k].zone = i.zone
      BY <1>2, <1>3, <1>5, <2>2 DEF SlotOK
    <3> QED  BY <1>1, <1>10, <2>2, <3>1, <3>2, <3>3, SeenIs
  <2> QED  BY <2>1, <2>2
<1>21. LinksOf(y, n) = 1 /\ ZoneOf(y, n) = NULL
  <2>1. s \in Seen(y, n)
    BY <1>7, <1>8 DEF Seen
  <2> QED  BY <1>8, <1>10, <2>1, SeenIs
<1>22. Linked(y)
  <2>1. EntriesIn(y, n) = {}
    BY <1>13 DEF EntriesIn
  <2>2. Linkers(y, n) = {} /\ Adders(y, n) = {t}
    <3>1. \A u \in Task \ {t} : ~Links(x.call[u], n) /\ ~Adds(x.call[u], n)
      <4>1. \A u \in Task : x.call[u].at \in {"add", "linked"} => Busy(x.call[u])
        BY DEF Ind, TaskOK, Shape
      <4> QED  BY <1>15, <4>1 DEF Links, Adds
    <3>2. ~Links(d, n) /\ Adds(d, n)
      BY DEF Links, Adds
    <3> QED  BY <3>1, <3>2 DEF Linkers, Adders, Differs
  <2>3. Cardinality(EntriesIn(y, n)) = 0 /\ Cardinality(Linkers(y, n)) = 0 /\ Cardinality(Adders(y, n)) = 1
    BY <2>1, <2>2, FS_EmptySet, FS_Singleton
  <2>4. LinksOf(y, n) + Cardinality(Linkers(y, n)) = Cardinality(EntriesIn(y, n)) + Cardinality(Adders(y, n))
    BY <1>21, <2>3
  <2>5. ASSUME NEW k \in Num \ {n}
        PROVE  /\ k \in y.imap <=> k \in x.imap
               /\ LinksOf(y, k) = LinksOf(x, k) /\ EntriesIn(y, k) = EntriesIn(x, k)
               /\ Adds(d, k) <=> Adds(c, k)
               /\ Links(d, k) <=> Links(c, k)
    <3>1. (Adds(d, k) <=> Adds(c, k)) /\ (Links(d, k) <=> Links(c, k))
      BY <2>5 DEF Adds, Links
    <3>2. EntriesIn(y, k) = EntriesIn(x, k)
      BY DEF EntriesIn
    <3> QED  BY <1>20, <2>5, <3>1, <3>2
  <2> QED  BY <1>1, <2>4, <2>5, LinkedBut
<1>23. Owned(y)
  <2>1. \A k \in x.imap : ZoneOf(y, k) = ZoneOf(x, k) /\ k # n
    BY <1>1, <1>20 DEF Typed
  <2>2. \A u \in Task : /\ Blocks(y.call[u]) <=> Blocks(x.call[u])
                        /\ Blocks(x.call[u]) => y.call[u] = x.call[u] /\ x.call[u].zone # NULL
    <3>1. \A u \in Task : Blocks(x.call[u]) => x.call[u].zone # NULL
      BY DEF Ind, TaskOK, Shape, Blocks
    <3>2. ~Blocks(c) /\ ~Blocks(d)
      BY DEF Blocks
    <3> QED  BY <3>1, <3>2 DEF Differs
  <2>3. \A b \in Block : (\E k \in y.imap : ZoneOf(y, k) = b) <=> (\E k \in x.imap : ZoneOf(x, k) = b)
    BY <1>3, <1>21, <2>1
  <2>4. \A b \in Block : b \in y.zmap <=> \/ \E k \in y.imap : ZoneOf(y, k) = b
                                          \/ \E u \in Task : Blocks(y.call[u]) /\ y.call[u].zone = b
    BY <1>1, <2>2, <2>3 DEF Owned
  <2>5. \A k, m \in y.imap : ZoneOf(y, k) # NULL /\ ZoneOf(y, k) = ZoneOf(y, m) => k = m
    BY <1>1, <1>21, <2>1 DEF Owned
  <2>6. \A k \in y.imap, u \in Task : Blocks(y.call[u]) => y.call[u].zone # ZoneOf(y, k)
    BY <1>1, <1>21, <2>1, <2>2 DEF Owned
  <2> QED  BY <2>4, <2>5, <2>6 DEF Owned
<1> QED
  BY <1>6, <1>10, <1>11, <1>12, <1>14, <1>16, <1>17, <1>18, <1>19, <1>22, <1>23, DeepStep

(* iput() of an inode that has no links left: its block, if it has one, its *)
(* number and its entry are free (inode.c:149-153, bitmap.c:133-160).       *)
LEMMA Frees ==
  ASSUME NEW x, NEW y, NEW t \in Task, NEW s \in Slot, Differs(x, y, t, s), Ind(x, t), Typed(y),
         y.image = x.image, y.dir = x.dir, y.wait[s] = {},
         y.imap = x.imap \ {x.inode[s].num}, y.zmap = x.zmap \ {x.call[t].zone},
         x.call[t].at = "free", x.call[t].slot = s,
         Over(y.call[t]), y.held[t] = NULL,
         IsInode(y.inode[s], 0, 0, 0, NULL, FALSE, FALSE)
  PROVE  Ind(y, t)
<1> DEFINE i == x.inode[s]
<1> DEFINE j == y.inode[s]
<1> DEFINE c == x.call[t]
<1> DEFINE d == y.call[t]
<1> DEFINE n == x.inode[s].num
<1>1. Typed(x) /\ Once(x) /\ Counts(x) /\ Exclusive(x) /\ Apiece(x) /\ Linked(x) /\ Owned(x)
  BY DEF Ind
<1>2. SlotOK(x, s) /\ TaskOK(x, t) /\ Shape(x.held[t], c) /\ Grip(c, i) /\ Bound(x, c)
  BY DEF Ind, TaskOK
<1>3. /\ NULL \notin Slot /\ NULL \notin Block /\ 0 \notin Num
      /\ c \in CallType
  BY <1>1, InodeAssumption DEF Typed, Num
<1>4. /\ HoldOf(x.held[t], c) = s /\ HoldOf(y.held[t], d) = NULL
      /\ n # 0 /\ i.count = 1 /\ ~i.lock /\ c.zone = i.zone /\ ~Named(x, n)
  BY <1>2, <1>3 DEF Shape, Grip, Bound, HoldOf, Over, Holding
<1>5. /\ n \in Num /\ n \in x.imap /\ ZoneOf(x, n) = i.zone
  BY <1>4, HeldSeen
<1>6. \A r \in Slot : ~Locks(c, r) /\ ~Locks(d, r) /\ ~Reads(c, r) /\ ~Reads(d, r)
  BY DEF Locks, Reads, Over
<1>7. \A u \in Task : ~Locks(x.call[u], s) /\ ~Locks(y.call[u], s)
  BY <1>4, <1>6, LockersOf DEF Differs
<1>8. j.num = 0 /\ j.count = 0 /\ j.nlinks = 0 /\ j.zone = NULL /\ ~j.dirt /\ ~j.lock
      /\ j.count = i.count - 1
  BY <1>4 DEF IsInode
<1>9. \A u \in Task \ {t} : HoldOf(x.held[u], x.call[u]) # s
  BY <1>1, <1>4, HeldCounted
<1>10. Once(y) /\ Counts(y)
  BY <1>1, <1>4, <1>8, OnceStays, CountsStay
<1>11. SlotOK(y, s)
  BY <1>3, <1>7, <1>8 DEF SlotOK
<1>12. TaskOK(y, t)
  BY <1>3 DEF TaskOK, Over, Shape, Grip, Bound, Holding, Busy
<1>13. \A u \in Task \ {t} : Suits(x, y, u, s)
  BY <1>1, <1>7, <1>9, AloneSuits DEF Ind, Locks
<1>14. ASSUME NEW u \in Task \ {t}
       PROVE  Bound(y, x.call[u])
  <2>1. Bound(x, x.call[u]) /\ Shape(x.held[u], x.call[u]) /\ Grip(x.call[u], x.inode[x.call[u].slot])
    BY <1>14 DEF Ind, TaskOK
  <2>2. ASSUME Busy(x.call[u]), x.call[u].num = n
        PROVE  FALSE
    <3>1. x.call[u].at \notin {"found", "wait", "read", "got", "new", "linked", "cut"}
      BY <1>4, <2>1, <2>2 DEF Bound
    <3>2. x.call[u].at \notin {"user", "block", "sync", "wsync"}
      BY <2>1, <2>2 DEF Shape, Busy
    <3>3. x.call[u].at \in Holding
      <4>1. x.call[u].at \in Place
        BY <1>1, <1>14 DEF Typed, CallType
      <4> QED  BY <3>1, <3>2, <4>1 DEF Place, At, Holding
    <3>4. x.call[u].slot \in Slot /\ x.inode[x.call[u].slot].num = n
      BY <2>1, <2>2, <3>3 DEF Shape, Grip
    <3>5. x.call[u].slot = s
      BY <1>1, <1>4, <3>4 DEF Once
    <3>6. HoldOf(x.held[u], x.call[u]) = s
      BY <2>1, <3>1, <3>2, <3>3, <3>5 DEF HoldOf, Shape
    <3> QED  BY <1>9, <1>14, <3>6
  <2>3. Busy(x.call[u]) => x.call[u].num \in y.imap
    BY <2>1, <2>2 DEF Bound
  <2>4. x.call[u].at = "free" => y.inode[x.call[u].slot].num = x.inode[x.call[u].slot].num
    BY <1>13, <1>14, <2>1 DEF Suits, Differs, Shape, Holding
  <2>5. \A m : Named(y, m) <=> Named(x, m)
    BY DEF Named
  <2> QED  BY <2>1, <2>3, <2>4, <2>5 DEF Bound
<1>15. \A k \in Num : k # n => LinksOf(y, k) = LinksOf(x, k) /\ ZoneOf(y, k) = ZoneOf(x, k)
  BY <1>3, <1>6, <1>8, OtherValues
<1>16. Linked(y)
  <2>1. EntriesIn(y, n) = {} /\ n \notin y.imap
    BY <1>4 DEF EntriesIn, Named
  <2>2. ASSUME NEW k \in Num \ {n}
        PROVE  /\ k \in y.imap <=> k \in x.imap
               /\ LinksOf(y, k) = LinksOf(x, k) /\ EntriesIn(y, k) = EntriesIn(x, k)
               /\ Adds(d, k) <=> Adds(c, k)
               /\ Links(d, k) <=> Links(c, k)
    <3>1. (Adds(d, k) <=> Adds(c, k)) /\ (Links(d, k) <=> Links(c, k))
      BY DEF Adds, Links, Over
    <3>2. EntriesIn(y, k) = EntriesIn(x, k)
      BY DEF EntriesIn
    <3> QED  BY <1>15, <2>2, <3>1, <3>2
  <2> QED  BY <1>1, <1>5, <2>1, <2>2, LinkedBut
<1>17. Owned(y)
  <2>1. \A k \in y.imap : k \in x.imap /\ k # n /\ ZoneOf(y, k) = ZoneOf(x, k)
    BY <1>1, <1>15 DEF Typed
  <2>2. \A k \in x.imap \ {n} : k \in y.imap /\ ZoneOf(x, k) # NULL => ZoneOf(x, k) # c.zone
    BY <1>1, <1>4, <1>5 DEF Owned
  <2>3. \A u \in Task : /\ Blocks(y.call[u]) <=> Blocks(x.call[u])
                        /\ Blocks(x.call[u]) => y.call[u] = x.call[u] /\ x.call[u].zone # c.zone
    <3>1. \A u \in Task : Blocks(x.call[u]) => x.call[u].zone # c.zone
      BY <1>1, <1>4, <1>5 DEF Owned
    <3>2. ~Blocks(c) /\ ~Blocks(d)
      BY DEF Blocks, Over
    <3> QED  BY <3>1, <3>2 DEF Differs
  <2>4. ASSUME NEW b \in Block
        PROVE  b \in y.zmap <=> \/ \E k \in y.imap : ZoneOf(y, k) = b
                                \/ \E u \in Task : Blocks(y.call[u]) /\ y.call[u].zone = b
    <3>1. CASE b = c.zone
      <4>1. b # NULL
        BY <1>3
      <4>2. ~(\E k \in y.imap : ZoneOf(y, k) = b)
        BY <2>1, <2>2, <3>1, <4>1
      <4>3. ~(\E u \in Task : Blocks(y.call[u]) /\ y.call[u].zone = b)
        BY <2>3, <3>1
      <4> QED  BY <3>1, <4>2, <4>3
    <3>2. CASE b # c.zone
      <4>1. (\E k \in y.imap : ZoneOf(y, k) = b) <=> (\E k \in x.imap : ZoneOf(x, k) = b)
        <5>1. \A k \in x.imap : ZoneOf(x, k) = b => k \in y.imap
          BY <1>4, <1>5, <3>2
        <5> QED  BY <2>1, <5>1
      <4>2. (\E u \in Task : Blocks(y.call[u]) /\ y.call[u].zone = b)
              <=> (\E u \in Task : Blocks(x.call[u]) /\ x.call[u].zone = b)
        BY <2>3
      <4>3. b \in y.zmap <=> b \in x.zmap
        BY <3>2
      <4> QED  BY <1>1, <2>4, <4>1, <4>2, <4>3 DEF Owned
    <3> QED  BY <3>1, <3>2
  <2>5. \A k, m \in y.imap : ZoneOf(y, k) # NULL /\ ZoneOf(y, k) = ZoneOf(y, m) => k = m
    BY <1>1, <2>1 DEF Owned
  <2>6. \A k \in y.imap, u \in Task : Blocks(y.call[u]) => y.call[u].zone # ZoneOf(y, k)
    BY <1>1, <2>1, <2>3 DEF Owned
  <2> QED  BY <2>4, <2>5, <2>6 DEF Owned
<1>18. Exclusive(y) /\ Apiece(y)
  <2>1. ~Busy(d) /\ ~Blocks(d)
    BY DEF Busy, Blocks, Over
  <2> QED  BY <1>1, <2>1, ExclusiveStays, ApieceStays
<1> QED
  BY <1>5, <1>6, <1>10, <1>11, <1>12, <1>13, <1>14, <1>16, <1>17, <1>18, DeepStep

(* new_block() marks a free block for a file that has none, and nobody else *)
(* is getting one for that file (bitmap.c:101-119, inode.c:59-60).          *)
LEMMA MarksBlock ==
  ASSUME NEW x, NEW y, NEW t \in Task, NEW s \in Slot, Differs(x, y, t, s), Ind(x, t), Typed(y),
         y.inode = x.inode, y.wait = x.wait,
         y.image = x.image, y.dir = x.dir, y.imap = x.imap,
         NEW b \in Block, b \notin x.zmap, y.zmap = x.zmap \union {b},
         x.call[t].at = "user", x.held[t] = s, y.held[t] = s, x.inode[s].zone = NULL,
         \A u \in Task : x.call[u].at = "block" => x.call[u].slot # s,
         y.call[t].at = "block", y.call[t].slot = s, y.call[t].zone = b,
         y.call[t].op = x.call[t].op, y.call[t].empty = x.call[t].empty
  PROVE  Ind(y, t)
<1> DEFINE c == x.call[t]
<1> DEFINE d == y.call[t]
<1>1. Typed(x) /\ Once(x) /\ Counts(x) /\ Exclusive(x) /\ Apiece(x) /\ Linked(x) /\ Owned(x)
  BY DEF Ind
<1>2. SlotOK(x, s) /\ TaskOK(x, t) /\ Shape(x.held[t], c)
  BY DEF Ind, TaskOK
<1>3. NULL \notin Slot /\ NULL \notin Block
  BY InodeAssumption
<1>4. HoldOf(x.held[t], c) = s /\ HoldOf(y.held[t], d) = s
  BY <1>3 DEF HoldOf
<1>5. \A r \in Slot : ~Locks(c, r) /\ ~Locks(d, r) /\ ~Reads(c, r) /\ ~Reads(d, r)
  BY DEF Locks, Reads
<1>6. Once(y) /\ Counts(y)
  BY <1>1, <1>4, OnceStays, CountsStay
<1>7. SlotOK(y, s)
  <2>1. \A u \in Task : /\ Locks(y.call[u], s) <=> Locks(x.call[u], s)
                        /\ Reads(y.call[u], s) <=> Reads(x.call[u], s)
    BY <1>5 DEF Differs
  <2> QED  BY <1>2, <2>1 DEF SlotOK
<1>8. TaskOK(y, t)
  BY <1>2, <1>3 DEF TaskOK, Shape, Grip, Bound, Holding, Busy
<1>9. \A u \in Task \ {t} : Suits(x, y, u, s) /\ Bound(y, x.call[u])
  BY SameSuits, BoundStays DEF Ind
<1>10. Exclusive(y)
  <2>1. ~Busy(d)
    BY <1>2 DEF Shape, Busy
  <2> QED  BY <1>1, <2>1, ExclusiveStays
<1>11. \A n \in Num : LinksOf(y, n) = LinksOf(x, n) /\ ZoneOf(y, n) = ZoneOf(x, n)
  BY <1>1, <1>5, <1>6, SameValues
<1>12. Linked(y)
  <2>1. \A n \in Num : ~Adds(c, n) /\ ~Adds(d, n) /\ ~Links(c, n) /\ ~Links(d, n)
    BY DEF Adds, Links
  <2> QED  BY <1>1, <1>11, <2>1, LinkedStays
<1>13. \A u \in Task : Blocks(x.call[u]) => x.call[u].zone \in x.zmap /\ x.call[u].zone # b
  <2>1. \A u \in Task : Blocks(x.call[u]) => x.call[u].zone \in Block
    BY <1>1 DEF Ind, TaskOK, Shape, Blocks, Typed, CallType
  <2> QED  BY <1>1, <2>1 DEF Owned
<1>14. \A n \in x.imap : ZoneOf(y, n) = ZoneOf(x, n) /\ ZoneOf(x, n) # b
  BY <1>1, <1>11 DEF Owned, Typed
<1>15. Blocks(d) /\ d.zone = b /\ ~Blocks(c)
  BY DEF Blocks
<1>16. Apiece(y)
  <2>1. \A u \in Task \ {t} : y.call[u] = x.call[u]
    BY DEF Differs
  <2>2. \A u \in Task \ {t} : Blocks(x.call[u]) => x.call[u].slot # s /\ x.call[u].zone # b
    BY <1>13 DEF Blocks
  <2> QED  BY <1>1, <1>15, <2>1, <2>2 DEF Apiece
<1>17. Owned(y)
  <2>1. \A u \in Task \ {t} : y.call[u] = x.call[u]
    BY DEF Differs
  <2>2. ASSUME NEW a \in Block
        PROVE  a \in y.zmap <=> \/ \E k \in y.imap : ZoneOf(y, k) = a
                                \/ \E u \in Task : Blocks(y.call[u]) /\ y.call[u].zone = a
    <3>1. CASE a = b
      BY <1>15, <3>1
    <3>2. CASE a # b
      <4>1. (\E u \in Task : Blocks(y.call[u]) /\ y.call[u].zone = a)
              <=> (\E u \in Task : Blocks(x.call[u]) /\ x.call[u].zone = a)
        BY <1>15, <2>1, <3>2
      <4>2. (\E k \in y.imap : ZoneOf(y, k) = a) <=> (\E k \in x.imap : ZoneOf(x, k) = a)
        BY <1>14
      <4> QED  BY <1>1, <2>2, <3>2, <4>1, <4>2 DEF Owned
    <3> QED  BY <3>1, <3>2
  <2>3. \A k, m \in y.imap : ZoneOf(y, k) # NULL /\ ZoneOf(y, k) = ZoneOf(y, m) => k = m
    BY <1>1, <1>14 DEF Owned
  <2>4. \A k \in y.imap, u \in Task : Blocks(y.call[u]) => y.call[u].zone # ZoneOf(y, k)
    BY <1>1, <1>14, <1>15, <2>1 DEF Owned
  <2> QED  BY <2>2, <2>3, <2>4 DEF Owned
<1> QED
  BY <1>5, <1>6, <1>7, <1>8, <1>9, <1>10, <1>12, <1>16, <1>17, DeepStep
-----------------------------------------------------------------------------
(* To sleep on an inode that is locked, in iget, iput or sync_inodes        *)
(* (inode.c:13-19, 43, 131, 231).                                           *)
LEMMA Sleeps ==
  ASSUME NEW x, NEW y, NEW t \in Task, NEW s \in Slot, Differs(x, y, t, s), Ind(x, t), Typed(y),
         SameDisk(x, y), y.inode = x.inode,
         x.inode[s].lock, GoesOn(x.call[t], y.call[t]), y.held[t] = x.held[t],
         \/ x.call[t].at \in {"wait", "sync"}
         \/ x.call[t].at = "put" /\ x.call[t].slot = s,
         y.call[t].at = x.call[t].at, y.call[t].slot = s, y.call[t].empty = x.call[t].empty
  PROVE  Ind(y, t)
<1> DEFINE c == x.call[t]
<1> DEFINE d == y.call[t]
<1> DEFINE i == x.inode[s]
<1>1. TaskOK(x, t) /\ Shape(x.held[t], c) /\ Grip(c, x.inode[c.slot]) /\ Bound(x, c) /\ Exclusive(x)
  BY DEF Ind, TaskOK
<1>2. NULL \notin Slot /\ x.held[t] \in Slot \union {NULL} /\ c \in CallType
  BY InodeAssumption DEF Ind, Typed
<1>4. TaskOK(y, t)
  <2>1. Shape(y.held[t], d)
    BY <1>1, <1>2 DEF Shape, Holding, Busy, GoesOn, Over
  <2>2. Grip(d, y.inode[d.slot])
    BY <1>1, <1>2 DEF Shape, Grip, Holding, Busy, GoesOn, Over
  <2>3. Bound(y, d)
    BY <1>1, <1>2 DEF Shape, Bound, Named, Holding, Busy, GoesOn, Over, SameDisk
  <2>4. /\ y.held[t] # NULL => y.inode[y.held[t]].num # 0
        /\ d.at = "wait" => y.inode[d.empty].num = 0 /\ y.inode[d.empty].count = 1
    BY <1>1, <1>2 DEF TaskOK, Shape, Over
  <2> QED  BY <2>1, <2>2, <2>3, <2>4 DEF TaskOK
<1>5. HoldOf(y.held[t], d) = HoldOf(x.held[t], c)
  BY <1>1, <1>2 DEF HoldOf, Shape, Holding, Over, GoesOn
<1>6. Exclusive(y)
  <2>1. Busy(d) => Busy(c) /\ d.op = c.op /\ d.num = c.num
    BY DEF Busy, GoesOn, Over
  <2> QED  BY <1>1, <2>1, ExclusiveStays
<1>7. \A r \in Slot : ~Locks(c, r) /\ ~Locks(d, r)
  BY DEF Locks, Over
<1>8. ~Blocks(c) /\ ~Blocks(d)
  BY DEF Blocks, Over
<1>9. \A n \in Num : ~Adds(c, n) /\ ~Adds(d, n) /\ ~Links(c, n) /\ ~Links(d, n)
  BY <1>1 DEF Adds, Links, Over, Shape, GoesOn
<1> QED
  BY <1>4, <1>5, <1>6, <1>7, <1>8, <1>9, QuietStep

(* The inode is got and is put again at once, or truncated                  *)
(* (namei.c:376-385).                                                       *)
LEMMA TurnsAway ==
  ASSUME NEW x, NEW y, NEW t \in Task, NEW s \in Slot, Differs(x, y, t, s), Ind(x, t), Typed(y),
         SameDisk(x, y), y.inode = x.inode,
         y.wait = x.wait, GoesOn(x.call[t], y.call[t]), y.held[t] = x.held[t],
         x.call[t].at = "got", x.call[t].slot = s, x.call[t].op # "unlink",
         \/ y.call[t].at = "put"
         \/ /\ y.call[t].at = "cut" /\ x.call[t].op = "creat"
            /\ y.call[t].zone = x.inode[s].zone,
         y.call[t].slot = s, y.call[t].empty = x.call[t].empty
  PROVE  Ind(y, t)
<1> DEFINE c == x.call[t]
<1> DEFINE d == y.call[t]
<1> DEFINE i == x.inode[s]
<1>1. TaskOK(x, t) /\ Shape(x.held[t], c) /\ Grip(c, x.inode[c.slot]) /\ Bound(x, c) /\ Exclusive(x)
  BY DEF Ind, TaskOK
<1>2. NULL \notin Slot /\ x.held[t] \in Slot \union {NULL} /\ c \in CallType
  BY InodeAssumption DEF Ind, Typed
<1>4. TaskOK(y, t)
  <2>1. Shape(y.held[t], d)
    BY <1>1, <1>2 DEF Shape, Holding, Busy, GoesOn, Over
  <2>2. Grip(d, y.inode[d.slot])
    BY <1>1, <1>2 DEF Shape, Grip, Holding, Busy, GoesOn, Over
  <2>3. Bound(y, d)
    BY <1>1, <1>2 DEF Shape, Bound, Named, Holding, Busy, GoesOn, Over, SameDisk
  <2>4. /\ y.held[t] # NULL => y.inode[y.held[t]].num # 0
        /\ d.at = "wait" => y.inode[d.empty].num = 0 /\ y.inode[d.empty].count = 1
    BY <1>1, <1>2 DEF TaskOK, Shape, Over
  <2> QED  BY <2>1, <2>2, <2>3, <2>4 DEF TaskOK
<1>5. HoldOf(y.held[t], d) = HoldOf(x.held[t], c)
  BY <1>1, <1>2 DEF HoldOf, Shape, Holding, Over, GoesOn
<1>6. Exclusive(y)
  <2>1. Busy(d) => Busy(c) /\ d.op = c.op /\ d.num = c.num
    BY DEF Busy, GoesOn, Over
  <2> QED  BY <1>1, <2>1, ExclusiveStays
<1>7. \A r \in Slot : ~Locks(c, r) /\ ~Locks(d, r)
  BY DEF Locks, Over
<1>8. ~Blocks(c) /\ ~Blocks(d)
  BY DEF Blocks, Over
<1>9. \A n \in Num : ~Adds(c, n) /\ ~Adds(d, n) /\ ~Links(c, n) /\ ~Links(d, n)
  BY <1>1 DEF Adds, Links, Over, Shape, GoesOn
<1> QED
  BY <1>4, <1>5, <1>6, <1>7, <1>8, <1>9, QuietStep

(* It is got and kept as an open file (namei.c:386-387, open.c:159-164).    *)
LEMMA Opens ==
  ASSUME NEW x, NEW y, NEW t \in Task, NEW s \in Slot, Differs(x, y, t, s), Ind(x, t), Typed(y),
         SameDisk(x, y), y.inode = x.inode,
         y.wait = x.wait, Over(y.call[t]), y.held[t] = s,
         x.call[t].at = "got", x.call[t].slot = s
  PROVE  Ind(y, t)
<1> DEFINE c == x.call[t]
<1> DEFINE d == y.call[t]
<1> DEFINE i == x.inode[s]
<1>1. TaskOK(x, t) /\ Shape(x.held[t], c) /\ Grip(c, x.inode[c.slot]) /\ Bound(x, c) /\ Exclusive(x)
  BY DEF Ind, TaskOK
<1>2. NULL \notin Slot /\ x.held[t] \in Slot \union {NULL} /\ c \in CallType
  BY InodeAssumption DEF Ind, Typed
<1>4. TaskOK(y, t)
  <2>1. Shape(y.held[t], d)
    BY <1>1, <1>2 DEF Shape, Holding, Busy, GoesOn, Over
  <2>2. Grip(d, y.inode[d.slot])
    BY <1>1, <1>2 DEF Shape, Grip, Holding, Busy, GoesOn, Over
  <2>3. Bound(y, d)
    BY <1>1, <1>2 DEF Shape, Bound, Named, Holding, Busy, GoesOn, Over, SameDisk
  <2>4. /\ y.held[t] # NULL => y.inode[y.held[t]].num # 0
        /\ d.at = "wait" => y.inode[d.empty].num = 0 /\ y.inode[d.empty].count = 1
    BY <1>1, <1>2 DEF Grip, Holding, Over
  <2> QED  BY <2>1, <2>2, <2>3, <2>4 DEF TaskOK
<1>5. HoldOf(y.held[t], d) = HoldOf(x.held[t], c)
  BY <1>1, <1>2 DEF HoldOf, Shape, Holding, Over, GoesOn
<1>6. Exclusive(y)
  <2>1. Busy(d) => Busy(c) /\ d.op = c.op /\ d.num = c.num
    BY DEF Busy, GoesOn, Over
  <2> QED  BY <1>1, <2>1, ExclusiveStays
<1>7. \A r \in Slot : ~Locks(c, r) /\ ~Locks(d, r)
  BY DEF Locks, Over
<1>8. ~Blocks(c) /\ ~Blocks(d)
  BY DEF Blocks, Over
<1>9. \A n \in Num : ~Adds(c, n) /\ ~Adds(d, n) /\ ~Links(c, n) /\ ~Links(d, n)
  BY <1>1 DEF Adds, Links, Over, Shape, GoesOn
<1> QED
  BY <1>4, <1>5, <1>6, <1>7, <1>8, <1>9, QuietStep

(* An open file is closed, or a call ends with iput() (open.c:172-188).     *)
LEMMA Puts ==
  ASSUME NEW x, NEW y, NEW t \in Task, NEW s \in Slot, Differs(x, y, t, s), Ind(x, t), Typed(y),
         SameDisk(x, y), y.inode = x.inode,
         y.wait = x.wait, y.held[t] = NULL, y.call[t].at = "put", y.call[t].slot = s,
         y.call[t].op = x.call[t].op, y.call[t].num = x.call[t].num, y.call[t].empty = x.call[t].empty,
         \/ x.call[t].at = "user" /\ x.held[t] = s
         \/ x.call[t].at = "new" /\ x.call[t].slot = s
         \/ x.call[t].at = "add" /\ x.call[t].slot = s /\ x.call[t].op = "link"
  PROVE  Ind(y, t)
<1> DEFINE c == x.call[t]
<1> DEFINE d == y.call[t]
<1> DEFINE i == x.inode[s]
<1>1. TaskOK(x, t) /\ Shape(x.held[t], c) /\ Grip(c, x.inode[c.slot]) /\ Bound(x, c) /\ Exclusive(x)
  BY DEF Ind, TaskOK
<1>2. NULL \notin Slot /\ x.held[t] \in Slot \union {NULL} /\ c \in CallType
  BY InodeAssumption DEF Ind, Typed
<1>4. TaskOK(y, t)
  <2>1. Shape(y.held[t], d)
    BY <1>1, <1>2 DEF Shape, Holding, Busy, GoesOn, Over
  <2>2. Grip(d, y.inode[d.slot])
    <3>1. i.num # 0 /\ (Busy(c) => i.num = c.num)
      BY <1>1, <1>2 DEF TaskOK, Shape, Grip, Holding, Busy
    <3>2. Busy(d) <=> Busy(c)
      BY DEF Busy
    <3> QED  BY <3>1, <3>2 DEF Grip, Holding
  <2>3. Bound(y, d)
    BY <1>1, <1>2 DEF Shape, Bound, Named, Holding, Busy, GoesOn, Over, SameDisk
  <2>4. /\ y.held[t] # NULL => y.inode[y.held[t]].num # 0
        /\ d.at = "wait" => y.inode[d.empty].num = 0 /\ y.inode[d.empty].count = 1
    BY <1>1, <1>2 DEF TaskOK, Shape, Over
  <2> QED  BY <2>1, <2>2, <2>3, <2>4 DEF TaskOK
<1>5. HoldOf(y.held[t], d) = HoldOf(x.held[t], c)
  BY <1>1, <1>2 DEF HoldOf, Shape, Holding, Over, GoesOn
<1>6. Exclusive(y)
  <2>1. Busy(d) => Busy(c) /\ d.op = c.op /\ d.num = c.num
    BY DEF Busy, GoesOn, Over
  <2> QED  BY <1>1, <2>1, ExclusiveStays
<1>7. \A r \in Slot : ~Locks(c, r) /\ ~Locks(d, r)
  BY DEF Locks, Over
<1>8. ~Blocks(c) /\ ~Blocks(d)
  BY DEF Blocks, Over
<1>9. \A n \in Num : ~Adds(c, n) /\ ~Adds(d, n) /\ ~Links(c, n) /\ ~Links(d, n)
  BY <1>1 DEF Adds, Links, Over, Shape, GoesOn
<1> QED
  BY <1>4, <1>5, <1>6, <1>7, <1>8, <1>9, QuietStep

(* The name is not there yet: sys_link goes on to add it (namei.c:665-672). *)
LEMMA GoesToAdd ==
  ASSUME NEW x, NEW y, NEW t \in Task, NEW s \in Slot, Differs(x, y, t, s), Ind(x, t), Typed(y),
         SameDisk(x, y), y.inode = x.inode,
         y.wait = x.wait, GoesOn(x.call[t], y.call[t]), y.held[t] = x.held[t],
         x.call[t].at = "new", x.call[t].slot = s,
         y.call[t].at = "add", y.call[t].slot = s, y.call[t].empty = x.call[t].empty
  PROVE  Ind(y, t)
<1> DEFINE c == x.call[t]
<1> DEFINE d == y.call[t]
<1> DEFINE i == x.inode[s]
<1>1. TaskOK(x, t) /\ Shape(x.held[t], c) /\ Grip(c, x.inode[c.slot]) /\ Bound(x, c) /\ Exclusive(x)
  BY DEF Ind, TaskOK
<1>2. NULL \notin Slot /\ x.held[t] \in Slot \union {NULL} /\ c \in CallType
  BY InodeAssumption DEF Ind, Typed
<1>4. TaskOK(y, t)
  <2>1. Shape(y.held[t], d)
    BY <1>1, <1>2 DEF Shape, Holding, Busy, GoesOn, Over
  <2>2. Grip(d, y.inode[d.slot])
    BY <1>1, <1>2 DEF Shape, Grip, Holding, Busy, GoesOn, Over
  <2>3. Bound(y, d)
    BY <1>1, <1>2 DEF Shape, Bound, Named, Holding, Busy, GoesOn, Over, SameDisk
  <2>4. /\ y.held[t] # NULL => y.inode[y.held[t]].num # 0
        /\ d.at = "wait" => y.inode[d.empty].num = 0 /\ y.inode[d.empty].count = 1
    BY <1>1, <1>2 DEF TaskOK, Shape, Over
  <2> QED  BY <2>1, <2>2, <2>3, <2>4 DEF TaskOK
<1>5. HoldOf(y.held[t], d) = HoldOf(x.held[t], c)
  BY <1>1, <1>2 DEF HoldOf, Shape, Holding, Over, GoesOn
<1>6. Exclusive(y)
  <2>1. Busy(d) => Busy(c) /\ d.op = c.op /\ d.num = c.num
    BY DEF Busy, GoesOn, Over
  <2> QED  BY <1>1, <2>1, ExclusiveStays
<1>7. \A r \in Slot : ~Locks(c, r) /\ ~Locks(d, r)
  BY DEF Locks, Over
<1>8. ~Blocks(c) /\ ~Blocks(d)
  BY DEF Blocks, Over
<1>9. \A n \in Num : ~Adds(c, n) /\ ~Adds(d, n) /\ ~Links(c, n) /\ ~Links(d, n)
  BY <1>1 DEF Adds, Links, Over, Shape, GoesOn
<1> QED
  BY <1>4, <1>5, <1>6, <1>7, <1>8, <1>9, QuietStep

(* iput() of the last holder, of an inode that is not locked                *)
(* (inode.c:144-148).                                                       *)
LEMMA ComesLast ==
  ASSUME NEW x, NEW y, NEW t \in Task, NEW s \in Slot, Differs(x, y, t, s), Ind(x, t), Typed(y),
         SameDisk(x, y), y.inode = x.inode,
         y.wait = x.wait, GoesOn(x.call[t], y.call[t]), y.held[t] = x.held[t],
         x.call[t].at = "put", x.call[t].slot = s, ~x.inode[s].lock, x.inode[s].count = 1,
         y.call[t].at = "last", y.call[t].slot = s, y.call[t].empty = x.call[t].empty
  PROVE  Ind(y, t)
<1> DEFINE c == x.call[t]
<1> DEFINE d == y.call[t]
<1> DEFINE i == x.inode[s]
<1>1. TaskOK(x, t) /\ Shape(x.held[t], c) /\ Grip(c, x.inode[c.slot]) /\ Bound(x, c) /\ Exclusive(x)
  BY DEF Ind, TaskOK
<1>2. NULL \notin Slot /\ x.held[t] \in Slot \union {NULL} /\ c \in CallType
  BY InodeAssumption DEF Ind, Typed
<1>4. TaskOK(y, t)
  <2>1. Shape(y.held[t], d)
    BY <1>1, <1>2 DEF Shape, Holding, Busy, GoesOn, Over
  <2>2. Grip(d, y.inode[d.slot])
    BY <1>1, <1>2 DEF Shape, Grip, Holding, Busy, GoesOn, Over
  <2>3. Bound(y, d)
    BY <1>1, <1>2 DEF Shape, Bound, Named, Holding, Busy, GoesOn, Over, SameDisk
  <2>4. /\ y.held[t] # NULL => y.inode[y.held[t]].num # 0
        /\ d.at = "wait" => y.inode[d.empty].num = 0 /\ y.inode[d.empty].count = 1
    BY <1>1, <1>2 DEF TaskOK, Shape, Over
  <2> QED  BY <2>1, <2>2, <2>3, <2>4 DEF TaskOK
<1>5. HoldOf(y.held[t], d) = HoldOf(x.held[t], c)
  BY <1>1, <1>2 DEF HoldOf, Shape, Holding, Over, GoesOn
<1>6. Exclusive(y)
  <2>1. Busy(d) => Busy(c) /\ d.op = c.op /\ d.num = c.num
    BY DEF Busy, GoesOn, Over
  <2> QED  BY <1>1, <2>1, ExclusiveStays
<1>7. \A r \in Slot : ~Locks(c, r) /\ ~Locks(d, r)
  BY DEF Locks, Over
<1>8. ~Blocks(c) /\ ~Blocks(d)
  BY DEF Blocks, Over
<1>9. \A n \in Num : ~Adds(c, n) /\ ~Adds(d, n) /\ ~Links(c, n) /\ ~Links(d, n)
  BY <1>1 DEF Adds, Links, Over, Shape, GoesOn
<1> QED
  BY <1>4, <1>5, <1>6, <1>7, <1>8, <1>9, QuietStep

(* The inode has no links left: no entry names it (inode.c:149-152).        *)
LEMMA BeginsFree ==
  ASSUME NEW x, NEW y, NEW t \in Task, NEW s \in Slot, Differs(x, y, t, s), Ind(x, t), Typed(y),
         SameDisk(x, y), y.inode = x.inode,
         y.wait = x.wait, GoesOn(x.call[t], y.call[t]), y.held[t] = x.held[t],
         x.call[t].at = "last", x.call[t].slot = s, x.inode[s].nlinks = 0,
         y.call[t].at = "free", y.call[t].slot = s, y.call[t].empty = x.call[t].empty,
         y.call[t].zone = x.inode[s].zone
  PROVE  Ind(y, t)
<1> DEFINE c == x.call[t]
<1> DEFINE d == y.call[t]
<1> DEFINE i == x.inode[s]
<1>1. TaskOK(x, t) /\ Shape(x.held[t], c) /\ Grip(c, x.inode[c.slot]) /\ Bound(x, c) /\ Exclusive(x)
  BY DEF Ind, TaskOK
<1>2. NULL \notin Slot /\ x.held[t] \in Slot \union {NULL} /\ c \in CallType
  BY InodeAssumption DEF Ind, Typed
<1>3. ~Named(x, i.num)
  <2> DEFINE n == i.num
  <2>1. HoldOf(x.held[t], c) = s /\ n # 0 /\ i.count = 1
    BY <1>1, <1>2 DEF Shape, Grip, HoldOf, Holding
  <2>2. n \in Num /\ n \in x.imap /\ LinksOf(x, n) = 0
    BY <2>1, HeldSeen
  <2>3. ASSUME NEW u \in Task, Links(x.call[u], n)
        PROVE  FALSE
    <3>1. Shape(x.held[u], x.call[u]) /\ Grip(x.call[u], x.inode[x.call[u].slot])
      BY <2>3 DEF Ind, TaskOK
    <3>2. x.call[u].slot \in Slot /\ x.inode[x.call[u].slot].num = n
      BY <2>3, <3>1 DEF Shape, Grip, Holding, Links
    <3>3. x.call[u].slot = s
      BY <2>1, <3>2 DEF Ind, Once
    <3>4. HoldOf(x.held[u], x.call[u]) = s /\ u # t
      BY <1>2, <2>3, <3>1, <3>3 DEF Shape, HoldOf, Holding, Links
    <3> QED  BY <2>1, <2>3, <3>4, HeldCounted DEF Ind
  <2>4. Linkers(x, n) = {}
    BY <2>3 DEF Linkers
  <2>5. Cardinality(Linkers(x, n)) = 0
    BY <2>4, FS_EmptySet
  <2>6. LinksOf(x, n) + Cardinality(Linkers(x, n)) = Cardinality(EntriesIn(x, n)) + Cardinality(Adders(x, n))
    BY <2>2 DEF Ind, Linked
  <2>7. Cardinality(EntriesIn(x, n)) = 0
    BY <2>2, <2>5, <2>6, CountedFinite
  <2>8. EntriesIn(x, n) = {}
    BY <2>7, CountedFinite, FS_EmptySet
  <2> QED  BY <2>8 DEF EntriesIn, Named
<1>4. TaskOK(y, t)
  BY <1>1, <1>2, <1>3 DEF TaskOK, Shape, Grip, Bound, Named, Holding, Busy, GoesOn, Over,
     SameDisk
<1>5. HoldOf(y.held[t], d) = HoldOf(x.held[t], c)
  BY <1>1, <1>2 DEF HoldOf, Shape, Holding, Over, GoesOn
<1>6. Exclusive(y)
  <2>1. Busy(d) => Busy(c) /\ d.op = c.op /\ d.num = c.num
    BY DEF Busy, GoesOn, Over
  <2> QED  BY <1>1, <2>1, ExclusiveStays
<1>7. \A r \in Slot : ~Locks(c, r) /\ ~Locks(d, r)
  BY DEF Locks, Over
<1>8. ~Blocks(c) /\ ~Blocks(d)
  BY DEF Blocks, Over
<1>9. \A n \in Num : ~Adds(c, n) /\ ~Adds(d, n) /\ ~Links(c, n) /\ ~Links(d, n)
  BY <1>1 DEF Adds, Links, Over, Shape, GoesOn
<1> QED
  BY <1>4, <1>5, <1>6, <1>7, <1>8, <1>9, QuietStep

(* sync_inodes() begins, passes an entry that is clean, or is done          *)
(* (inode.c:36-47).                                                         *)
LEMMA Syncs ==
  ASSUME NEW x, NEW y, NEW t \in Task, NEW s \in Slot, Differs(x, y, t, s), Ind(x, t), Typed(y),
         SameDisk(x, y), y.inode = x.inode,
         y.wait = x.wait, y.held[t] = x.held[t], x.held[t] = NULL,
         \/ x.call[t].at \in {"user", "sync"} /\ y.call[t].at = "sync" /\ y.call[t].op = "sync"
              /\ y.call[t].empty = NULL
         \/ x.call[t].at = "sync" /\ Over(y.call[t])
  PROVE  Ind(y, t)
<1> DEFINE c == x.call[t]
<1> DEFINE d == y.call[t]
<1> DEFINE i == x.inode[s]
<1>1. TaskOK(x, t) /\ Shape(x.held[t], c) /\ Grip(c, x.inode[c.slot]) /\ Bound(x, c) /\ Exclusive(x)
  BY DEF Ind, TaskOK
<1>2. NULL \notin Slot /\ x.held[t] \in Slot \union {NULL} /\ c \in CallType
  BY InodeAssumption DEF Ind, Typed
<1>4. TaskOK(y, t)
  <2>1. Shape(y.held[t], d)
    BY <1>1, <1>2 DEF Shape, Holding, Busy, GoesOn, Over
  <2>2. Grip(d, y.inode[d.slot])
    BY <1>1, <1>2 DEF Shape, Grip, Holding, Busy, GoesOn, Over
  <2>3. Bound(y, d)
    BY <1>1, <1>2 DEF Shape, Bound, Named, Holding, Busy, GoesOn, Over, SameDisk
  <2>4. /\ y.held[t] # NULL => y.inode[y.held[t]].num # 0
        /\ d.at = "wait" => y.inode[d.empty].num = 0 /\ y.inode[d.empty].count = 1
    BY <1>1, <1>2 DEF TaskOK, Shape, Over
  <2> QED  BY <2>1, <2>2, <2>3, <2>4 DEF TaskOK
<1>5. HoldOf(y.held[t], d) = HoldOf(x.held[t], c)
  BY <1>1, <1>2 DEF HoldOf, Shape, Holding, Over, GoesOn
<1>6. Exclusive(y)
  <2>1. Busy(d) => Busy(c) /\ d.op = c.op /\ d.num = c.num
    BY DEF Busy, GoesOn, Over
  <2> QED  BY <1>1, <2>1, ExclusiveStays
<1>7. \A r \in Slot : ~Locks(c, r) /\ ~Locks(d, r)
  BY DEF Locks, Over
<1>8. ~Blocks(c) /\ ~Blocks(d)
  BY DEF Blocks, Over
<1>9. \A n \in Num : ~Adds(c, n) /\ ~Adds(d, n) /\ ~Links(c, n) /\ ~Links(d, n)
  BY <1>1 DEF Adds, Links, Over, Shape, GoesOn
<1> QED
  BY <1>4, <1>5, <1>6, <1>7, <1>8, <1>9, QuietStep

(* namei() or open_namei() found a name, and Apart says nobody else is at   *)
(* work on it (namei.c:299-303, 370-376).                                   *)
LEMMA Looks ==
  ASSUME NEW x, NEW y, NEW t \in Task, NEW s \in Slot, Differs(x, y, t, s), Ind(x, t), Typed(y),
         SameDisk(x, y), y.inode = x.inode, y.wait = x.wait,
         x.held[t] = NULL, y.held[t] = NULL, x.call[t].at = "user", y.call[t].at = "found",
         y.call[t].empty = NULL, y.call[t].op \in {"open", "creat", "link", "unlink"},
         NEW e \in Entry, x.dir[e].num = y.call[t].num, x.dir[e].num # 0,
         y.call[t].op = "unlink" => y.call[t].entry = e,
         \A u \in Task \ {t} :
           Busy(x.call[u]) /\ x.call[u].num = y.call[t].num =>
             y.call[t].op = "open" /\ x.call[u].op = "open"
  PROVE  Ind(y, t)
<1> DEFINE c == x.call[t]
<1> DEFINE d == y.call[t]
<1>1. TaskOK(x, t) /\ Shape(x.held[t], c) /\ Exclusive(x) /\ Linked(x) /\ Typed(x)
  BY DEF Ind, TaskOK
<1>2. d.num \in x.imap /\ Named(x, d.num) /\ Busy(d)
  <2>1. d.num \in Num /\ e \in EntriesIn(x, d.num)
    BY <1>1 DEF Typed, EntryType, EntriesIn
  <2>2. d.num \in x.imap
    BY <1>1, <2>1 DEF Linked
  <2>3. Busy(d)
    BY DEF Busy
  <2> QED  BY <2>2, <2>3 DEF Named
<1>3. TaskOK(y, t)
  BY <1>1, <1>2 DEF TaskOK, Shape, Grip, Bound, Named, Holding, SameDisk
<1>4. HoldOf(y.held[t], d) = HoldOf(x.held[t], c)
  BY <1>1 DEF HoldOf, Shape, Holding
<1>5. Exclusive(y)
  <2>1. \A u \in Task \ {t} : y.call[u] = x.call[u]
    BY DEF Differs
  <2> QED  BY <1>1, <2>1 DEF Exclusive
<1>6. \A r \in Slot : ~Locks(c, r) /\ ~Locks(d, r)
  BY DEF Locks
<1>7. ~Blocks(c) /\ ~Blocks(d)
  BY DEF Blocks
<1>8. \A n \in Num : ~Adds(c, n) /\ ~Adds(d, n) /\ ~Links(c, n) /\ ~Links(d, n)
  BY DEF Adds, Links
<1> QED
  BY <1>3, <1>4, <1>5, <1>6, <1>7, <1>8, QuietStep

(* What is freed is in use: neither "bit already cleared" nor "trying to    *)
(* free" anything (bitmap.c:73-99, 133-160).                                *)
LEMMA FreesInUse ==
  ASSUME NEW x, NEW t \in Task, Ind(x, t), NEW s \in Slot, x.call[t].slot = s,
         x.call[t].at \in {"free", "cut"}
  PROVE  /\ x.call[t].zone # NULL => x.call[t].zone \in x.zmap
         /\ x.call[t].at = "free" =>
              /\ x.inode[s].num \in x.imap /\ x.inode[s].count = 1 /\ x.inode[s].nlinks = 0
              /\ x.inode[s].num # 0
<1> DEFINE c == x.call[t]
<1> DEFINE i == x.inode[s]
<1>1. Shape(x.held[t], c) /\ Grip(c, i) /\ Typed(x) /\ Owned(x)
  BY DEF Ind, TaskOK
<1>2. HoldOf(x.held[t], c) = s /\ i.num # 0 /\ c.zone \in {NULL, i.zone}
  BY <1>1 DEF Shape, Grip, HoldOf, Holding
<1>3. i.num \in x.imap /\ ZoneOf(x, i.num) = i.zone
  BY <1>2, HeldSeen
<1>4. c.zone \in Block \union {NULL}
  BY <1>1 DEF Typed, CallType
<1> QED
  BY <1>1, <1>2, <1>3, <1>4 DEF Grip, Owned
-----------------------------------------------------------------------------
(* The state as one record, and what it is once a task is where m has it.   *)
Cur == [inode |-> inode, wait |-> i_wait, image |-> image, imap |-> imap, zmap |-> zmap,
        dir |-> dir, held |-> held, call |-> call]
View(m) == [inode |-> m.inode, wait |-> m.wait, image |-> m.image, imap |-> m.imap,
            zmap |-> m.zmap, dir |-> m.dir, held |-> [held EXCEPT ![m.self] = m.held],
            call |-> [call EXCEPT ![m.self] = m.call]]

(* What a step of a task works with (Now): the tables, and its own variables.*)
Local == [inode : [Slot -> InodeType], wait : [Slot -> SUBSET Task], image : [Num -> ImageType],
          imap : SUBSET Num, zmap : SUBSET Block, dir : [Entry -> EntryType],
          held : Slot \union {NULL}, call : CallType, panic : BOOLEAN, self : Task]

(* The variables of the other tasks.                                        *)
Rest == held \in [Task -> Slot \union {NULL}] /\ call \in [Task -> CallType]

(* The record of the state has the tables of m, and for its task its        *)
(* variables.                                                               *)
LEMMA ViewIs ==
  ASSUME Rest, NEW m \in Local
  PROVE  /\ Typed(View(m))
         /\ View(m).inode = m.inode /\ View(m).wait = m.wait /\ SameDisk(m, View(m))
         /\ View(m).held[m.self] = m.held /\ View(m).call[m.self] = m.call
         /\ \A u \in Task \ {m.self} : View(m).held[u] = held[u] /\ View(m).call[u] = call[u]
BY DEF Rest, Local, View, Typed, SameDisk

(* Two of them, for the same task, differ in what it has changed.           *)
LEMMA ViewsDiffer ==
  ASSUME Rest, NEW m \in Local, NEW r \in Local, r.self = m.self, NEW s,
         \A q \in Slot \ {s} : r.inode[q] = m.inode[q] /\ r.wait[q] = m.wait[q]
  PROVE  Differs(View(m), View(r), m.self, s)
BY ViewIs DEF Differs

(* What the pieces of iget() and iput() leave alone.                        *)
Same(m, r) ==
  /\ r \in Local
  /\ r.self = m.self /\ r.panic = m.panic /\ r.held = m.held /\ SameDisk(m, r)

(* A task goes to a place of its call, with the inode it is at there.       *)
LEMMA GotoIs ==
  ASSUME NEW m \in Local, NEW at \in Place, NEW s \in Slot \union {NULL}
  PROVE  LET r == Goto(m, at, s) IN
         /\ Same(m, r) /\ r.inode = m.inode /\ r.wait = m.wait
         /\ GoesOn(m.call, r.call) /\ r.call.at = at /\ r.call.slot = s
         /\ r.call.empty = m.call.empty /\ r.call.zone = m.call.zone
<1> DEFINE c == m.call
<1> DEFINE a == [c EXCEPT !.at = at]
<1> DEFINE d == [a EXCEPT !.slot = s]
<1>1. Goto(m, at, s) = [m EXCEPT !.call = d]
  BY DEF Goto
<1>2. c \in CallType
  BY DEF Local
<1>3. /\ a \in CallType /\ a.at = at /\ a.op = c.op /\ a.num = c.num /\ a.entry = c.entry
      /\ a.empty = c.empty /\ a.zone = c.zone
  BY <1>2 DEF CallType
<1>4. /\ d \in CallType /\ d.at = at /\ d.op = c.op /\ d.num = c.num /\ d.entry = c.entry
      /\ d.empty = c.empty /\ d.zone = c.zone /\ d.slot = s
  <2> HIDE DEF a
  <2> QED  BY <1>3 DEF CallType
<1>5. /\ Same(m, [m EXCEPT !.call = d])
      /\ [m EXCEPT !.call = d].inode = m.inode /\ [m EXCEPT !.call = d].wait = m.wait
      /\ [m EXCEPT !.call = d].call = d
  <2> HIDE DEF d
  <2> QED  BY <1>4 DEF Local, Same, SameDisk
<1> QED
  BY <1>1, <1>4, <1>5 DEF GoesOn

(* To set an entry of the inode table.                                      *)
LEMMA SetsInode ==
  ASSUME NEW m \in Local, NEW s \in Slot, NEW i \in InodeType
  PROVE  LET r == [m EXCEPT !.inode[s] = i] IN
         /\ Same(m, r) /\ r.wait = m.wait /\ r.call = m.call
         /\ r.inode[s] = i /\ \A q \in Slot \ {s} : r.inode[q] = m.inode[q]
<1> DEFINE f == [m.inode EXCEPT ![s] = i]
<1>1. /\ f \in [Slot -> InodeType] /\ f[s] = i
      /\ \A q \in Slot \ {s} : f[q] = m.inode[q]
  BY DEF Local
<1>2. [m EXCEPT !.inode[s] = i] = [m EXCEPT !.inode = f]
  OBVIOUS
<1>3. /\ Same(m, [m EXCEPT !.inode = f]) /\ [m EXCEPT !.inode = f].wait = m.wait
      /\ [m EXCEPT !.inode = f].call = m.call /\ [m EXCEPT !.inode = f].inode = f
  <2> HIDE DEF f
  <2> QED  BY <1>1 DEF Local, Same, SameDisk
<1> QED
  BY <1>1, <1>2, <1>3

(* To set the tasks asleep on an entry.                                     *)
LEMMA SetsWait ==
  ASSUME NEW m \in Local, NEW s \in Slot, NEW w \in SUBSET Task
  PROVE  LET r == [m EXCEPT !.wait[s] = w] IN
         /\ Same(m, r) /\ r.inode = m.inode /\ r.call = m.call
         /\ r.wait[s] = w /\ \A q \in Slot \ {s} : r.wait[q] = m.wait[q]
<1> DEFINE f == [m.wait EXCEPT ![s] = w]
<1>1. /\ f \in [Slot -> SUBSET Task] /\ f[s] = w
      /\ \A q \in Slot \ {s} : f[q] = m.wait[q]
  BY DEF Local
<1>2. [m EXCEPT !.wait[s] = w] = [m EXCEPT !.wait = f]
  OBVIOUS
<1>3. /\ Same(m, [m EXCEPT !.wait = f]) /\ [m EXCEPT !.wait = f].inode = m.inode
      /\ [m EXCEPT !.wait = f].call = m.call /\ [m EXCEPT !.wait = f].wait = f
  <2> HIDE DEF f
  <2> QED  BY <1>1 DEF Local, Same, SameDisk
<1> QED
  BY <1>1, <1>2, <1>3

(* To set the variables of the call.                                        *)
LEMMA SetsCall ==
  ASSUME NEW m \in Local, NEW c \in CallType
  PROVE  LET r == [m EXCEPT !.call = c] IN
         Same(m, r) /\ r.inode = m.inode /\ r.wait = m.wait /\ r.call = c
BY DEF Local, Same, SameDisk

(* A field of a call that is set.                                           *)
LEMMA CallFields ==
  ASSUME NEW c \in CallType
  PROVE  /\ \A z \in Block \union {NULL} :
              LET d == [c EXCEPT !.zone = z] IN
              /\ d \in CallType /\ GoesOn(c, d) /\ d.at = c.at /\ d.slot = c.slot
              /\ d.empty = c.empty /\ d.zone = z
         /\ \A e \in Slot \union {NULL} :
              LET d == [c EXCEPT !.empty = e] IN
              /\ d \in CallType /\ GoesOn(c, d) /\ d.at = c.at /\ d.slot = c.slot
              /\ d.empty = e /\ d.zone = c.zone
         /\ \A n \in {0} \union Num :
              LET d == [c EXCEPT !.num = n] IN
              /\ d \in CallType /\ d.op = c.op /\ d.entry = c.entry /\ d.at = c.at /\ d.slot = c.slot
              /\ d.empty = c.empty /\ d.zone = c.zone /\ d.num = n
         /\ \A S \in SUBSET Slot :
              LET d == [c EXCEPT !.todo = S] IN
              /\ d \in CallType /\ GoesOn(c, d) /\ d.at = c.at /\ d.slot = c.slot
              /\ d.empty = c.empty /\ d.zone = c.zone
         /\ User \in CallType /\ Over(User) /\ User.at = "user"
<1>1. /\ \A z \in Block \union {NULL} :
           LET d == [c EXCEPT !.zone = z] IN
           /\ d \in CallType /\ GoesOn(c, d) /\ d.at = c.at /\ d.slot = c.slot
           /\ d.empty = c.empty /\ d.zone = z
      /\ \A e \in Slot \union {NULL} :
           LET d == [c EXCEPT !.empty = e] IN
           /\ d \in CallType /\ GoesOn(c, d) /\ d.at = c.at /\ d.slot = c.slot
           /\ d.empty = e /\ d.zone = c.zone
  BY DEF CallType, GoesOn
<1>2. /\ \A n \in {0} \union Num :
           LET d == [c EXCEPT !.num = n] IN
           /\ d \in CallType /\ d.op = c.op /\ d.entry = c.entry /\ d.at = c.at /\ d.slot = c.slot
           /\ d.empty = c.empty /\ d.zone = c.zone /\ d.num = n
      /\ \A S \in SUBSET Slot :
           LET d == [c EXCEPT !.todo = S] IN
           /\ d \in CallType /\ GoesOn(c, d) /\ d.at = c.at /\ d.slot = c.slot
           /\ d.empty = c.empty /\ d.zone = c.zone
  BY DEF CallType, GoesOn
<1>3. User \in CallType /\ Over(User) /\ User.at = "user"
  <2>1. 1 \in Entry
    BY InodeAssumption DEF Entry
  <2> QED  BY <2>1 DEF User, CallType, Place, At, Over
<1> QED
  BY <1>1, <1>2, <1>3

(* A field of an entry of the table that is set, and memset of the entry    *)
(* (inode.c:197).                                                           *)
LEMMA InodeFields ==
  ASSUME NEW i \in InodeType
  PROVE  /\ \A n \in Nat :
              LET j == [i EXCEPT !.count = n] IN
              j \in InodeType /\ IsInode(j, i.num, n, i.nlinks, i.zone, i.dirt, i.lock)
         /\ \A n \in Nat :
              LET j == [i EXCEPT !.nlinks = n] IN
              j \in InodeType /\ IsInode(j, i.num, i.count, n, i.zone, i.dirt, i.lock)
         /\ \A n \in {0} \union Num :
              LET j == [i EXCEPT !.num = n] IN
              j \in InodeType /\ IsInode(j, n, i.count, i.nlinks, i.zone, i.dirt, i.lock)
         /\ \A z \in Block \union {NULL} :
              LET j == [i EXCEPT !.zone = z] IN
              j \in InodeType /\ IsInode(j, i.num, i.count, i.nlinks, z, i.dirt, i.lock)
         /\ \A b \in BOOLEAN :
              LET j == [i EXCEPT !.dirt = b] IN
              j \in InodeType /\ IsInode(j, i.num, i.count, i.nlinks, i.zone, b, i.lock)
         /\ \A b \in BOOLEAN :
              LET j == [i EXCEPT !.lock = b] IN
              j \in InodeType /\ IsInode(j, i.num, i.count, i.nlinks, i.zone, i.dirt, b)
         /\ Blank \in InodeType /\ IsInode(Blank, 0, 0, 0, NULL, FALSE, FALSE)
<1>1. /\ \A n \in Nat :
           LET j == [i EXCEPT !.count = n] IN
           j \in InodeType /\ IsInode(j, i.num, n, i.nlinks, i.zone, i.dirt, i.lock)
      /\ \A n \in Nat :
           LET j == [i EXCEPT !.nlinks = n] IN
           j \in InodeType /\ IsInode(j, i.num, i.count, n, i.zone, i.dirt, i.lock)
      /\ \A n \in {0} \union Num :
           LET j == [i EXCEPT !.num = n] IN
           j \in InodeType /\ IsInode(j, n, i.count, i.nlinks, i.zone, i.dirt, i.lock)
  BY DEF InodeType, IsInode
<1>2. /\ \A z \in Block \union {NULL} :
           LET j == [i EXCEPT !.zone = z] IN
           j \in InodeType /\ IsInode(j, i.num, i.count, i.nlinks, z, i.dirt, i.lock)
      /\ \A b \in BOOLEAN :
           LET j == [i EXCEPT !.dirt = b] IN
           j \in InodeType /\ IsInode(j, i.num, i.count, i.nlinks, i.zone, b, i.lock)
      /\ \A b \in BOOLEAN :
           LET j == [i EXCEPT !.lock = b] IN
           j \in InodeType /\ IsInode(j, i.num, i.count, i.nlinks, i.zone, i.dirt, b)
  BY DEF InodeType, IsInode
<1>3. Blank \in InodeType /\ IsInode(Blank, 0, 0, 0, NULL, FALSE, FALSE)
  BY DEF Blank, InodeType, IsInode
<1> QED
  BY <1>1, <1>2, <1>3

(* A piece of code keeps the invariant, and is where the task can sleep.    *)
Kept(m, r) ==
  /\ r \in Local /\ r.self = m.self /\ r.panic = m.panic
  /\ r.call.at \in At /\ Ind(View(r), m.self)

(* To set the file a task has open.                                         *)
LEMMA SetsHeld ==
  ASSUME NEW m \in Local, NEW h \in Slot \union {NULL}
  PROVE  LET r == [m EXCEPT !.held = h] IN
         /\ r \in Local /\ r.self = m.self /\ r.panic = m.panic /\ r.held = h /\ SameDisk(m, r)
         /\ r.inode = m.inode /\ r.wait = m.wait /\ r.call = m.call
BY DEF Local, SameDisk

(* To set an inode in its block, or an entry of the directory.              *)
LEMMA SetsImage ==
  ASSUME NEW m \in Local, NEW n \in Num, NEW i \in ImageType
  PROVE  LET r == [m EXCEPT !.image[n] = i] IN
         /\ r \in Local /\ r.self = m.self /\ r.panic = m.panic /\ r.held = m.held
         /\ r.inode = m.inode /\ r.wait = m.wait /\ r.call = m.call
         /\ r.imap = m.imap /\ r.zmap = m.zmap /\ r.dir = m.dir
         /\ r.image[n] = i /\ \A k \in Num \ {n} : r.image[k] = m.image[k]
<1> DEFINE f == [m.image EXCEPT ![n] = i]
<1>1. /\ f \in [Num -> ImageType] /\ f[n] = i
      /\ \A k \in Num \ {n} : f[k] = m.image[k]
  BY DEF Local
<1>2. [m EXCEPT !.image[n] = i] = [m EXCEPT !.image = f]
  OBVIOUS
<1> QED
  <2> HIDE DEF f
  <2> QED  BY <1>1, <1>2 DEF Local

(* To set an entry of the directory.                                        *)
LEMMA SetsDir ==
  ASSUME NEW m \in Local, NEW e \in Entry, NEW i \in EntryType
  PROVE  LET r == [m EXCEPT !.dir[e] = i] IN
         /\ r \in Local /\ r.self = m.self /\ r.panic = m.panic /\ r.held = m.held
         /\ r.inode = m.inode /\ r.wait = m.wait /\ r.call = m.call
         /\ r.imap = m.imap /\ r.zmap = m.zmap /\ r.image = m.image
         /\ r.dir[e] = i /\ OtherEntries(m, r, e)
<1> DEFINE f == [m.dir EXCEPT ![e] = i]
<1>1. /\ f \in [Entry -> EntryType] /\ f[e] = i
      /\ \A k \in Entry \ {e} : f[k] = m.dir[k]
  BY DEF Local
<1>2. [m EXCEPT !.dir[e] = i] = [m EXCEPT !.dir = f]
  OBVIOUS
<1> QED
  <2> HIDE DEF f
  <2> QED  BY <1>1, <1>2 DEF Local, OtherEntries

(* The end of a call.                                                       *)
LEMMA DoneIs ==
  ASSUME NEW m \in Local
  PROVE  LET r == Done(m) IN
         /\ Same(m, r) /\ r.inode = m.inode /\ r.wait = m.wait
         /\ Over(r.call) /\ r.call.at = "user"
<1>1. m.call \in CallType
  BY DEF Local
<1>2. User \in CallType /\ Over(User) /\ User.at = "user"
  BY <1>1, CallFields
<1> QED
  BY <1>2, SetsCall DEF Done

(* The place, and with it the zone of the call.                             *)
LEMMA GotoZoneIs ==
  ASSUME NEW m \in Local, NEW at \in Place, NEW s \in Slot \union {NULL},
         NEW z \in Block \union {NULL}
  PROVE  LET r == [Goto(m, at, s) EXCEPT !.call.zone = z] IN
         /\ Same(m, r) /\ r.inode = m.inode /\ r.wait = m.wait
         /\ GoesOn(m.call, r.call) /\ r.call.at = at /\ r.call.slot = s
         /\ r.call.empty = m.call.empty /\ r.call.zone = z
<1> DEFINE g == Goto(m, at, s)
<1> DEFINE d == [g.call EXCEPT !.zone = z]
<1>1. /\ Same(m, g) /\ g.inode = m.inode /\ g.wait = m.wait
      /\ GoesOn(m.call, g.call) /\ g.call.at = at /\ g.call.slot = s
      /\ g.call.empty = m.call.empty
  BY GotoIs
<1> HIDE DEF g
<1>2. g \in Local /\ g.call \in CallType
  BY <1>1 DEF Same, Local
<1>3. /\ d \in CallType /\ GoesOn(g.call, d) /\ d.at = g.call.at /\ d.slot = g.call.slot
      /\ d.empty = g.call.empty /\ d.zone = z
  BY <1>2, CallFields
<1>4. [g EXCEPT !.call.zone = z] = [g EXCEPT !.call = d]
  OBVIOUS
<1>5. LET r == [g EXCEPT !.call = d] IN
      Same(g, r) /\ r.inode = g.inode /\ r.wait = g.wait /\ r.call = d
  <2> HIDE DEF d
  <2> QED  BY <1>2, <1>3, SetsCall
<1>6. [Goto(m, at, s) EXCEPT !.call.zone = z] = [g EXCEPT !.call = d]
  BY <1>4 DEF g
<1> QED
  <2> HIDE DEF d
  <2> QED  BY <1>1, <1>3, <1>5, <1>6 DEF Same, SameDisk, GoesOn

(* wait_on_inode() (inode.c:13-19).                                         *)
LEMMA WaitOnInodeIs ==
  ASSUME NEW m \in Local, NEW at \in Place, NEW s \in Slot
  PROVE  LET r == WaitOnInode(m, at, s) IN
         /\ Same(m, r) /\ r.inode = m.inode
         /\ \A q \in Slot \ {s} : r.wait[q] = m.wait[q]
         /\ GoesOn(m.call, r.call) /\ r.call.at = at /\ r.call.slot = s
         /\ r.call.empty = m.call.empty
<1> DEFINE g == Goto(m, at, s)
<1> DEFINE w == g.wait[s] \union {g.self}
<1>1. /\ Same(m, g) /\ g.inode = m.inode /\ g.wait = m.wait
      /\ GoesOn(m.call, g.call) /\ g.call.at = at /\ g.call.slot = s
      /\ g.call.empty = m.call.empty
  BY GotoIs
<1>2. WaitOnInode(m, at, s) = [g EXCEPT !.wait[s] = g.wait[s] \union {m.self}]
  BY DEF WaitOnInode
<1> HIDE DEF g
<1>3. WaitOnInode(m, at, s) = [g EXCEPT !.wait[s] = w]
  BY <1>1, <1>2 DEF Same
<1>4. g \in Local /\ w \in SUBSET Task
  BY <1>1 DEF Same, Local
<1>5. LET r == [g EXCEPT !.wait[s] = w] IN
      /\ Same(g, r) /\ r.inode = g.inode /\ r.call = g.call
      /\ \A q \in Slot \ {s} : r.wait[q] = g.wait[q]
  <2> HIDE DEF w
  <2> QED  BY <1>4, SetsWait
<1> QED
  <2> HIDE DEF w
  <2> QED  BY <1>1, <1>3, <1>5 DEF Same, SameDisk

(* A new value for an entry of the table at a place.                        *)
LEMMA GotoSetsIs ==
  ASSUME NEW m \in Local, NEW at \in Place, NEW s \in Slot, NEW i \in InodeType
  PROVE  LET r == [Goto(m, at, s) EXCEPT !.inode[s] = i] IN
         /\ Same(m, r) /\ r.wait = m.wait /\ r.inode[s] = i
         /\ \A q \in Slot \ {s} : r.inode[q] = m.inode[q]
         /\ GoesOn(m.call, r.call) /\ r.call.at = at /\ r.call.slot = s
         /\ r.call.empty = m.call.empty /\ r.call.zone = m.call.zone
<1> DEFINE g == Goto(m, at, s)
<1>1. /\ Same(m, g) /\ g.inode = m.inode /\ g.wait = m.wait
      /\ GoesOn(m.call, g.call) /\ g.call.at = at /\ g.call.slot = s
      /\ g.call.empty = m.call.empty /\ g.call.zone = m.call.zone
  BY GotoIs
<1> HIDE DEF g
<1>2. LET r == [g EXCEPT !.inode[s] = i] IN
      /\ Same(g, r) /\ r.wait = g.wait /\ r.call = g.call /\ r.inode[s] = i
      /\ \A q \in Slot \ {s} : r.inode[q] = g.inode[q]
  BY <1>1, SetsInode DEF Same
<1> QED
  BY <1>1, <1>2 DEF Same, SameDisk, g

(* iput() returns (inode.c:144-147, 159-160).                               *)
LEMMA DropsIs ==
  ASSUME NEW m \in Local, NEW s \in Slot, m.inode[s].count # 0
  PROVE  LET r == Done([m EXCEPT !.inode[s].count = @ - 1])
             i == m.inode[s]
         IN  /\ Same(m, r) /\ r.wait = m.wait /\ Over(r.call) /\ r.call.at = "user"
             /\ IsInode(r.inode[s], i.num, i.count - 1, i.nlinks, i.zone, i.dirt, i.lock)
             /\ \A q \in Slot \ {s} : r.inode[q] = m.inode[q]
<1> DEFINE i == m.inode[s]
<1> DEFINE j == [i EXCEPT !.count = i.count - 1]
<1> DEFINE a == [m EXCEPT !.inode[s] = j]
<1>1. i \in InodeType /\ i.count - 1 \in Nat
  BY DEF Local, InodeType
<1>2. j \in InodeType /\ IsInode(j, i.num, i.count - 1, i.nlinks, i.zone, i.dirt, i.lock)
  BY <1>1, InodeFields
<1>3. /\ Same(m, a) /\ a.wait = m.wait /\ a.inode[s] = j
      /\ \A q \in Slot \ {s} : a.inode[q] = m.inode[q]
  <2> HIDE DEF j
  <2> QED  BY <1>2, SetsInode
<1>4. [m EXCEPT !.inode[s].count = @ - 1] = a
  OBVIOUS
<1>5. LET r == Done(a) IN
      Same(a, r) /\ r.inode = a.inode /\ r.wait = a.wait /\ Over(r.call) /\ r.call.at = "user"
  <2> HIDE DEF a
  <2> QED  BY <1>3, DoneIs DEF Same
<1> QED
  <2> HIDE DEF a, j, i
  <2> QED  BY <1>2, <1>3, <1>4, <1>5 DEF Same, SameDisk, i

(* What the views of two records are to each other, when a piece of code    *)
(* goes from the one to the other and touches one entry of the table.       *)
LEMMA Views ==
  ASSUME Rest, NEW m \in Local, NEW r \in Local, r.self = m.self, NEW s \in Slot,
         \A q \in Slot \ {s} : r.inode[q] = m.inode[q] /\ r.wait[q] = m.wait[q]
  PROVE  LET x == View(m)
             y == View(r)
             t == m.self
         IN  /\ t \in Task /\ Differs(x, y, t, s) /\ Typed(y)
             /\ SameDisk(m, r) => SameDisk(x, y)
             /\ x.held[t] = m.held /\ x.call[t] = m.call /\ x.inode = m.inode /\ x.wait = m.wait
             /\ y.held[t] = r.held /\ y.call[t] = r.call /\ y.inode = r.inode /\ y.wait = r.wait
             /\ x.dir = m.dir /\ x.imap = m.imap /\ x.zmap = m.zmap /\ x.image = m.image
             /\ y.dir = r.dir /\ y.imap = r.imap /\ y.zmap = r.zmap /\ y.image = r.image
<1>1. m.self \in Task
  BY DEF Local
<1>2. Differs(View(m), View(r), m.self, s)
  BY ViewsDiffer
<1> QED
  BY <1>1, <1>2, ViewIs DEF SameDisk

(* Nobody has a file open where a call has an inode.                        *)
LEMMA HoldsNoFile ==
  ASSUME Rest, NEW m \in Local, Ind(View(m), m.self), m.call.at \notin {"user", "block"}
  PROVE  m.held = NULL
<1>1. m.self \in Task /\ View(m).held[m.self] = m.held /\ View(m).call[m.self] = m.call
  BY ViewIs DEF Local
<1> QED
  BY <1>1 DEF Ind, TaskOK, Shape

(* iput() from "repeat" on (inode.c:148-161).                               *)
LEMMA PutLastKeeps ==
  ASSUME Rest, NEW m \in Local, NEW s \in Slot, Ind(View(Goto(m, "last", s)), m.self)
  PROVE  Kept(m, PutLast(m, s))
<1> DEFINE g == Goto(m, "last", s)
<1> DEFINE i == m.inode[s]
<1> DEFINE t == m.self
<1>1. /\ Same(m, g) /\ g.inode = m.inode /\ g.wait = m.wait
      /\ GoesOn(m.call, g.call) /\ g.call.at = "last" /\ g.call.slot = s
      /\ g.call.empty = m.call.empty /\ g.call.zone = m.call.zone
  BY GotoIs DEF Place
<1>2. i \in InodeType
  BY DEF Local
<1>3. Ind(View(g), t)
  OBVIOUS
<1> HIDE DEF g
<1>4. g \in Local /\ g.self = t /\ g.held = m.held
  BY <1>1 DEF Same
<1>5. g.held = NULL
  BY <1>1, <1>3, <1>4, HoldsNoFile
<1>6. CASE i.nlinks = 0
  <2> DEFINE r == [Goto(m, "free", s) EXCEPT !.call.zone = i.zone]
  <2>1. /\ Same(m, r) /\ r.inode = m.inode /\ r.wait = m.wait
        /\ GoesOn(m.call, r.call) /\ r.call.at = "free" /\ r.call.slot = s
        /\ r.call.empty = m.call.empty /\ r.call.zone = i.zone
    <3>1. i.zone \in Block \union {NULL} /\ "free" \in Place
      BY <1>2 DEF Place, At, InodeType
    <3> HIDE DEF i
    <3> QED  BY <3>1, GotoZoneIs
  <2>2. PutLast(m, s) = r
    BY <1>6 DEF PutLast
  <2> HIDE DEF r
  <2>3. Same(g, r) /\ GoesOn(g.call, r.call)
    BY <1>1, <2>1 DEF Same, SameDisk, GoesOn
  <2>4. Ind(View(r), t)
    BY <1>1, <1>3, <1>4, <1>6, <2>1, <2>3, Views, BeginsFree, SMTT(60) DEF Same
  <2> QED  BY <2>1, <2>2, <2>4 DEF Kept, Same, At
<1>7. CASE i.nlinks # 0 /\ i.dirt
  <2> DEFINE j == [i EXCEPT !.lock = TRUE]
  <2> DEFINE r == [Goto(m, "write", s) EXCEPT !.inode[s] = j]
  <2>1. j \in InodeType /\ IsInode(j, i.num, i.count, i.nlinks, i.zone, i.dirt, TRUE)
    BY <1>2, InodeFields
  <2>2. PutLast(m, s) = r
    <3>1. Goto(m, "write", s).inode = m.inode
      BY GotoIs DEF Place, At
    <3>2. PutLast(m, s) = [Goto(m, "write", s) EXCEPT !.inode[s].lock = TRUE]
      BY <1>7 DEF PutLast
    <3> QED  BY <3>1, <3>2
  <2>3. /\ Same(m, r) /\ r.wait = m.wait /\ r.inode[s] = j
        /\ \A q \in Slot \ {s} : r.inode[q] = m.inode[q]
        /\ GoesOn(m.call, r.call) /\ r.call.at = "write" /\ r.call.slot = s
        /\ r.call.empty = m.call.empty
    <3> HIDE DEF j
    <3> QED  BY <2>1, GotoSetsIs, SMTT(60) DEF Place, At
  <2> HIDE DEF r, j
  <2>4. Same(g, r) /\ GoesOn(g.call, r.call)
    BY <1>1, <2>3 DEF Same, SameDisk, GoesOn
  <2>5. /\ \A q \in Slot \ {s} : r.inode[q] = g.inode[q] /\ r.wait[q] = g.wait[q]
        /\ r.wait[s] = g.wait[s] /\ r.held = g.held /\ r.self = t /\ r \in Local
        /\ r.call.empty = g.call.empty
        /\ LET k == g.inode[s] IN
           IsInode(r.inode[s], k.num, k.count, k.nlinks, k.zone, k.dirt, TRUE)
    BY <1>1, <1>4, <2>1, <2>3, <2>4 DEF Same
  <2>6. Ind(View(r), t)
    <3> DEFINE x == View(g)
    <3> DEFINE y == View(r)
    <3>1. /\ t \in Task /\ Differs(x, y, t, s) /\ Typed(y) /\ SameDisk(x, y)
          /\ x.held[t] = g.held /\ x.call[t] = g.call /\ x.inode = g.inode /\ x.wait = g.wait
          /\ y.held[t] = r.held /\ y.call[t] = r.call /\ y.inode = r.inode /\ y.wait = r.wait
      BY <1>4, <2>4, <2>5, Views DEF Same
    <3> HIDE DEF x, y, i, t
    <3>2. Ind(x, t)
      BY <1>3 DEF x
    <3>3. Ind(y, t)
      BY ONLY <1>1, <2>3, <2>4, <2>5, <3>1, <3>2, BeginsWrite, s \in Slot
    <3> QED  BY <3>3 DEF y
  <2> QED  BY <2>2, <2>3, <2>6 DEF Kept, Same, At
<1>8. CASE i.nlinks # 0 /\ ~i.dirt
  <2> DEFINE r == Done([m EXCEPT !.inode[s].count = @ - 1])
  <2>1. ~i.lock /\ i.count = 1
    <3>1. t \in Task /\ View(g).call[t] = g.call /\ View(g).inode = m.inode
      BY <1>1, <1>4, ViewIs DEF Local
    <3>2. TaskOK(View(g), t)
      BY <1>3, <3>1 DEF Ind
    <3> HIDE DEF t
    <3>3. Grip(g.call, i)
      BY <1>1, <3>1, <3>2 DEF TaskOK
    <3> HIDE DEF i
    <3> QED  BY <1>1, <3>3 DEF Grip
  <2>2. /\ Same(m, r) /\ r.wait = m.wait /\ Over(r.call) /\ r.call.at = "user"
        /\ IsInode(r.inode[s], i.num, i.count - 1, i.nlinks, i.zone, i.dirt, i.lock)
        /\ \A q \in Slot \ {s} : r.inode[q] = m.inode[q]
    BY <2>1, DropsIs
  <2>3. PutLast(m, s) = r
    BY <1>8 DEF PutLast
  <2> HIDE DEF r
  <2>4. Same(g, r)
    BY <1>1, <2>2 DEF Same, SameDisk
  <2>5. Ind(View(r), t)
    BY <1>1, <1>3, <1>4, <1>5, <1>8, <2>1, <2>2, <2>4, Views, Dropped DEF Same
  <2> QED  BY <2>2, <2>3, <2>5 DEF Kept, Same, At
<1> QED
  BY <1>6, <1>7, <1>8

(* iput() (inode.c:127-161).                                                *)
LEMMA IputKeeps ==
  ASSUME Rest, NEW m \in Local, NEW s \in Slot, Ind(View(Goto(m, "put", s)), m.self)
  PROVE  Kept(m, Iput(m, s))
<1> DEFINE g == Goto(m, "put", s)
<1> DEFINE x == View(g)
<1> DEFINE i == m.inode[s]
<1> DEFINE t == m.self
<1>1. /\ Same(m, g) /\ g.inode = m.inode /\ g.wait = m.wait
      /\ GoesOn(m.call, g.call) /\ g.call.at = "put" /\ g.call.slot = s
      /\ g.call.empty = m.call.empty /\ g.call.zone = m.call.zone
  BY GotoIs DEF Place, At
<1>2. Ind(x, t) /\ t \in Task
  BY DEF Local
<1> HIDE DEF g
<1>3. g \in Local /\ g.self = t /\ g.held = m.held
  BY <1>1 DEF Same
<1>4. g.held = NULL
  BY <1>1, <1>2, <1>3, HoldsNoFile
<1>5. x.held[t] = NULL /\ x.call[t] = g.call /\ x.inode = m.inode /\ x.wait = m.wait
  BY <1>1, <1>3, <1>4, ViewIs
<1>6. i.count # 0 /\ i.num # 0 /\ i.count \in Nat
  <2>1. HoldOf(x.held[t], x.call[t]) = s
    <3>1. Shape(x.held[t], x.call[t])
      BY <1>2 DEF Ind, TaskOK
    <3> QED  BY <1>1, <1>5, <3>1 DEF Shape, HoldOf, Holding
  <2>2. Typed(x) /\ Counts(x) /\ Grip(x.call[t], x.inode[x.call[t].slot])
    BY <1>2 DEF Ind, TaskOK
  <2>3. x.inode[s].count # 0
    BY <1>2, <2>1, <2>2, HeldCounted
  <2>4. i.count \in Nat
    BY DEF Local, InodeType
  <2> QED  BY <1>1, <1>5, <2>2, <2>3, <2>4 DEF Grip, Holding
<1>7. CASE i.lock
  <2> DEFINE r == WaitOnInode(m, "put", s)
  <2>1. /\ Same(m, r) /\ r.inode = m.inode
        /\ \A q \in Slot \ {s} : r.wait[q] = m.wait[q]
        /\ GoesOn(m.call, r.call) /\ r.call.at = "put" /\ r.call.slot = s
        /\ r.call.empty = m.call.empty
    BY WaitOnInodeIs DEF Place, At
  <2>2. Iput(m, s) = r
    BY <1>7 DEF Iput
  <2> HIDE DEF r, i, t, x
  <2>3. Same(g, r) /\ GoesOn(g.call, r.call) /\ r.call.empty = g.call.empty
    BY <1>1, <2>1 DEF Same, SameDisk, GoesOn
  <2>4. Ind(View(r), t)
    <3> DEFINE y == View(r)
    <3>1. /\ Differs(x, y, t, s) /\ Typed(y) /\ SameDisk(x, y) /\ y.inode = x.inode
          /\ y.held[t] = x.held[t] /\ y.call[t] = r.call /\ x.call[t] = g.call
      BY <1>1, <1>3, <2>1, <2>3, Views DEF Same, x
    <3> HIDE DEF y
    <3>2. x.inode[s].lock
      BY <1>5, <1>7 DEF i
    <3>3. Ind(y, t)
      BY ONLY <1>1, <1>2, <2>1, <2>3, <3>1, <3>2, Sleeps, s \in Slot
    <3> QED  BY <3>3 DEF y
  <2> QED  BY <2>1, <2>2, <2>4 DEF Kept, Same, At, t
<1>8. CASE ~i.lock /\ i.count > 1
  <2> DEFINE r == Done([m EXCEPT !.inode[s].count = @ - 1])
  <2>1. /\ Same(m, r) /\ r.wait = m.wait /\ Over(r.call) /\ r.call.at = "user"
        /\ IsInode(r.inode[s], i.num, i.count - 1, i.nlinks, i.zone, i.dirt, i.lock)
        /\ \A q \in Slot \ {s} : r.inode[q] = m.inode[q]
    BY <1>6, DropsIs
  <2>2. Iput(m, s) = r
    BY <1>6, <1>8 DEF Iput
  <2> HIDE DEF r, t, x
  <2>3. Same(g, r)
    BY <1>1, <2>1 DEF Same, SameDisk
  <2>4. Ind(View(r), t)
    <3> DEFINE y == View(r)
    <3>1. /\ Differs(x, y, t, s) /\ Typed(y) /\ SameDisk(x, y)
          /\ y.held[t] = NULL /\ y.call[t] = r.call /\ y.wait = x.wait /\ y.inode = r.inode
          /\ x.call[t] = g.call
      BY <1>1, <1>3, <1>4, <2>1, <2>3, Views DEF Same, x
    <3>2. /\ x.inode[s] = i /\ y.inode[s] = r.inode[s] /\ y.wait[s] = x.wait[s]
      BY <1>5, <3>1
    <3> HIDE DEF y, i
    <3>3. Ind(y, t)
      BY ONLY <1>1, <1>2, <1>8, <2>1, <3>1, <3>2, Dropped, s \in Slot
    <3> QED  BY <3>3 DEF y
  <2> QED  BY <2>1, <2>2, <2>4 DEF Kept, Same, At, t
<1>9. CASE ~i.lock /\ ~(i.count > 1)
  <2> DEFINE r == Goto(m, "last", s)
  <2>1. /\ Same(m, r) /\ r.inode = m.inode /\ r.wait = m.wait
        /\ GoesOn(m.call, r.call) /\ r.call.at = "last" /\ r.call.slot = s
        /\ r.call.empty = m.call.empty
    BY GotoIs DEF Place
  <2>2. Iput(m, s) = PutLast(m, s)
    BY <1>6, <1>9 DEF Iput
  <2>3. Ind(View(r), t)
    <3> HIDE DEF r, t, x
    <3> DEFINE y == View(r)
    <3>1. Same(g, r) /\ GoesOn(g.call, r.call) /\ r.call.empty = g.call.empty
      BY <1>1, <2>1 DEF Same, SameDisk, GoesOn
    <3>2. /\ Differs(x, y, t, s) /\ Typed(y) /\ SameDisk(x, y)
          /\ y.held[t] = x.held[t] /\ y.call[t] = r.call /\ y.wait = x.wait /\ y.inode = x.inode
          /\ x.call[t] = g.call
      BY <1>1, <1>3, <1>4, <2>1, <3>1, Views DEF Same, x
    <3>3. ~x.inode[s].lock /\ x.inode[s].count = 1
      BY <1>5, <1>6, <1>9
    <3> HIDE DEF y, i
    <3>4. Ind(y, t)
      BY ONLY <1>1, <1>2, <2>1, <3>1, <3>2, <3>3, ComesLast, s \in Slot
    <3> QED  BY <3>4 DEF y
  <2> QED  BY <2>2, <2>3, PutLastKeeps
<1> QED
  BY <1>7, <1>8, <1>9

(* An entry of the directory is removed with a link, before the iput()      *)
(* (namei.c:614-625).                                                       *)
LEMMA UnlinkIs ==
  ASSUME NEW m \in Local, NEW s \in Slot, m.inode[s].nlinks # 0
  PROVE  LET i == m.inode[s]
             k == [m EXCEPT !.dir[m.call.entry].num = 0, !.inode[s].nlinks = i.nlinks - 1,
                            !.inode[s].dirt = TRUE]
         IN  /\ k \in Local /\ k.self = m.self /\ k.panic = m.panic /\ k.held = m.held
             /\ k.wait = m.wait /\ k.call = m.call
             /\ k.image = m.image /\ k.imap = m.imap /\ k.zmap = m.zmap
             /\ k.dir[m.call.entry].num = 0 /\ OtherEntries(m, k, m.call.entry)
             /\ IsInode(k.inode[s], i.num, i.count, i.nlinks - 1, i.zone, TRUE, i.lock)
             /\ \A q \in Slot \ {s} : k.inode[q] = m.inode[q]
<1> DEFINE i == m.inode[s]
<1> DEFINE e == m.call.entry
<1> DEFINE j == [i EXCEPT !.nlinks = i.nlinks - 1]
<1> DEFINE l == [j EXCEPT !.dirt = TRUE]
<1> DEFINE d == [m.dir[e] EXCEPT !.num = 0]
<1> DEFINE a == [m EXCEPT !.dir[e] = d]
<1> DEFINE k == [a EXCEPT !.inode[s] = l]
<1>1. i \in InodeType /\ i.nlinks - 1 \in Nat /\ e \in Entry
  BY DEF Local, InodeType, CallType
<1>2. j \in InodeType /\ IsInode(j, i.num, i.count, i.nlinks - 1, i.zone, i.dirt, i.lock)
  BY <1>1, InodeFields
<1>3. l \in InodeType /\ IsInode(l, i.num, i.count, i.nlinks - 1, i.zone, TRUE, i.lock)
  <2> HIDE DEF j
  <2>1. l \in InodeType /\ IsInode(l, j.num, j.count, j.nlinks, j.zone, TRUE, j.lock)
    BY <1>2, InodeFields
  <2> QED  BY <1>2, <2>1 DEF IsInode
<1>4. d \in EntryType /\ d.num = 0
  BY <1>1 DEF Local, EntryType
<1>5. /\ a \in Local /\ a.self = m.self /\ a.panic = m.panic /\ a.held = m.held
      /\ a.inode = m.inode /\ a.wait = m.wait /\ a.call = m.call
      /\ a.imap = m.imap /\ a.zmap = m.zmap /\ a.image = m.image
      /\ a.dir[e] = d /\ OtherEntries(m, a, e)
  <2> HIDE DEF d, e
  <2> QED  BY <1>1, <1>4, SetsDir
<1>6. /\ Same(a, k) /\ k.wait = a.wait /\ k.call = a.call
      /\ k.inode[s] = l /\ \A q \in Slot \ {s} : k.inode[q] = a.inode[q]
  <2> HIDE DEF a, l
  <2> QED  BY <1>3, <1>5, SetsInode
<1>7. [m EXCEPT !.dir[m.call.entry].num = 0, !.inode[s].nlinks = i.nlinks - 1,
                !.inode[s].dirt = TRUE] = k
  OBVIOUS
<1> QED
  <2> HIDE DEF a, d, e, j, l, k, i
  <2> QED  BY <1>3, <1>4, <1>5, <1>6, <1>7 DEF Same, SameDisk, OtherEntries, e, i

(* What a caller of iget() does with the inode first (namei.c:303-308,      *)
(* 376-387, 601-625).                                                       *)
LEMMA GotKeeps ==
  ASSUME Rest, NEW m \in Local, NEW s \in Slot, Ind(View(Goto(m, "got", s)), m.self)
  PROVE  Kept(m, Got(m, s))
<1> DEFINE g == Goto(m, "got", s)
<1> DEFINE x == View(g)
<1> DEFINE i == m.inode[s]
<1> DEFINE t == m.self
<1>1. /\ Same(m, g) /\ g.inode = m.inode /\ g.wait = m.wait
      /\ GoesOn(m.call, g.call) /\ g.call.at = "got" /\ g.call.slot = s
      /\ g.call.empty = m.call.empty /\ g.call.zone = m.call.zone
  BY GotoIs DEF Place
<1>2. Ind(x, t) /\ t \in Task
  BY DEF Local
<1> HIDE DEF g
<1>3. g \in Local /\ g.self = t /\ g.held = m.held /\ SameDisk(m, g)
  BY <1>1 DEF Same
<1>4. g.held = NULL
  BY <1>1, <1>2, <1>3, HoldsNoFile
<1>5. /\ x.held[t] = NULL /\ x.call[t] = g.call /\ x.inode = m.inode /\ x.wait = m.wait
      /\ SameDisk(m, x)
  BY <1>1, <1>3, <1>4, ViewIs DEF SameDisk
<1>6. i \in InodeType /\ x.call[t].at = "got" /\ x.call[t].slot = s /\ x.call[t].op = m.call.op
  BY <1>1, <1>5 DEF Local, GoesOn
<1>7. CASE m.call.op = "unlink"
  <2> DEFINE k == [m EXCEPT !.dir[m.call.entry].num = 0, !.inode[s].nlinks = i.nlinks - 1,
                            !.inode[s].dirt = TRUE]
  <2> DEFINE r == Goto(k, "put", s)
  <2>1. i.nlinks # 0
    BY <1>2, <1>5, <1>6, <1>7, UnlinkedHasLinks
  <2>2. /\ k \in Local /\ k.self = m.self /\ k.panic = m.panic /\ k.held = m.held
        /\ k.wait = m.wait /\ k.call = m.call
        /\ k.image = m.image /\ k.imap = m.imap /\ k.zmap = m.zmap
        /\ k.dir[m.call.entry].num = 0 /\ OtherEntries(m, k, m.call.entry)
        /\ IsInode(k.inode[s], i.num, i.count, i.nlinks - 1, i.zone, TRUE, i.lock)
        /\ \A q \in Slot \ {s} : k.inode[q] = m.inode[q]
    BY <2>1, UnlinkIs
  <2>3. Got(m, s) = Iput(k, s)
    BY <1>7, <2>1 DEF Got, Unlinked
  <2> HIDE DEF k
  <2>4. /\ Same(k, r) /\ r.inode = k.inode /\ r.wait = k.wait
        /\ GoesOn(k.call, r.call) /\ r.call.at = "put" /\ r.call.slot = s
        /\ r.call.empty = k.call.empty
    BY <2>2, GotoIs DEF Place, At
  <2>5. Ind(View(r), k.self)
    <3> HIDE DEF r, t, x
    <3> DEFINE y == View(r)
    <3> DEFINE e == x.call[t].entry
    <3>1. /\ \A q \in Slot \ {s} : r.inode[q] = g.inode[q] /\ r.wait[q] = g.wait[q]
          /\ r \in Local /\ r.self = g.self
      BY <1>1, <1>3, <2>2, <2>4 DEF Same, t
    <3>2. /\ Differs(x, y, t, s) /\ Typed(y)
          /\ y.held[t] = r.held /\ y.call[t] = r.call /\ y.wait = r.wait /\ y.inode = r.inode
          /\ y.dir = r.dir /\ y.imap = r.imap /\ y.zmap = r.zmap /\ y.image = r.image
          /\ x.dir = g.dir /\ x.imap = g.imap /\ x.zmap = g.zmap /\ x.image = g.image
      BY <1>3, <3>1, Views DEF x
    <3>3. /\ y.held[t] = x.held[t] /\ y.wait[s] = x.wait[s]
          /\ y.imap = x.imap /\ y.zmap = x.zmap /\ y.image = x.image
      BY <1>1, <1>3, <1>4, <1>5, <2>2, <2>4, <3>2, ZenonT(60) DEF Same, SameDisk
    <3>4. /\ e \in Entry /\ y.dir[e].num = 0 /\ OtherEntries(x, y, e)
          /\ GoesOn(x.call[t], y.call[t]) /\ y.call[t].empty = x.call[t].empty
      <4>1. e = m.call.entry /\ m.call.entry \in Entry
        BY <1>1, <1>5 DEF GoesOn, Local, CallType
      <4>2. y.dir = k.dir /\ x.dir = m.dir
        BY <1>5, <2>4, <3>2 DEF Same, SameDisk
      <4>3. GoesOn(x.call[t], y.call[t]) /\ y.call[t].empty = x.call[t].empty
        BY <1>1, <1>5, <2>2, <2>4, <3>2 DEF GoesOn
      <4> QED  BY <2>2, <4>1, <4>2, <4>3 DEF OtherEntries
    <3>5. LET o == x.inode[s] IN
          IsInode(y.inode[s], o.num, o.count, o.nlinks - 1, o.zone, TRUE, o.lock)
      BY <1>5, <2>2, <2>4, <3>2
    <3>6. y.call[t].at = "put" /\ y.call[t].slot = s
      BY <2>4, <3>2
    <3> HIDE DEF y, i
    <3>7. Ind(y, t)
      BY ONLY <1>2, <1>6, <1>7, <3>2, <3>3, <3>4, <3>5, <3>6, Unlinks, s \in Slot, ZenonT(60)
    <3> QED  BY <2>2, <3>7 DEF y, t
  <2>6. Kept(k, Iput(k, s))
    BY <2>2, <2>5, IputKeeps
  <2> QED  BY <2>2, <2>3, <2>6 DEF Kept
<1>8. CASE m.call.op = "link"
  <2> DEFINE j == [i EXCEPT !.dirt = TRUE]
  <2> DEFINE r == [Goto(m, "new", s) EXCEPT !.inode[s] = j]
  <2>1. j \in InodeType /\ IsInode(j, i.num, i.count, i.nlinks, i.zone, TRUE, i.lock)
    BY <1>6, InodeFields
  <2>2. Got(m, s) = r
    <3>1. Goto(m, "new", s).inode = m.inode
      BY GotoIs DEF Place, At
    <3>2. Got(m, s) = [Goto(m, "new", s) EXCEPT !.inode[s].dirt = TRUE]
      BY <1>8 DEF Got
    <3> QED  BY <3>1, <3>2
  <2>3. /\ Same(m, r) /\ r.wait = m.wait /\ r.inode[s] = j
        /\ \A q \in Slot \ {s} : r.inode[q] = m.inode[q]
        /\ GoesOn(m.call, r.call) /\ r.call.at = "new" /\ r.call.slot = s
        /\ r.call.empty = m.call.empty
    <3> HIDE DEF j
    <3> QED  BY <2>1, GotoSetsIs, SMTT(60) DEF Place, At
  <2> HIDE DEF r, j, t, x
  <2>4. Ind(View(r), t)
    <3> DEFINE y == View(r)
    <3>1. Same(g, r) /\ GoesOn(g.call, r.call) /\ r.call.empty = g.call.empty
      BY <1>1, <2>3 DEF Same, SameDisk, GoesOn
    <3>2. /\ Differs(x, y, t, s) /\ Typed(y) /\ SameDisk(x, y)
          /\ y.held[t] = x.held[t] /\ y.call[t] = r.call /\ y.wait = x.wait /\ y.inode = r.inode
          /\ x.call[t] = g.call
      BY <1>1, <1>3, <1>4, <1>5, <2>3, <3>1, Views DEF Same, x
    <3>3. LET o == x.inode[s] IN
          /\ IsInode(y.inode[s], o.num, o.count, o.nlinks, o.zone, TRUE, o.lock)
          /\ y.wait[s] = x.wait[s]
      BY <1>5, <2>1, <2>3, <3>2
    <3> HIDE DEF y, i
    <3>4. Ind(y, t)
      BY ONLY <1>1, <1>2, <1>6, <1>8, <2>3, <3>1, <3>2, <3>3, MarksDirty, s \in Slot
    <3> QED  BY <3>4 DEF y
  <2> QED  BY <2>2, <2>3, <2>4 DEF Kept, Same, At, t
<1>9. CASE m.call.op \notin {"unlink", "link"} /\ i.nlinks = 0
  <2> DEFINE r == Goto(m, "put", s)
  <2>1. /\ Same(m, r) /\ r.inode = m.inode /\ r.wait = m.wait
        /\ GoesOn(m.call, r.call) /\ r.call.at = "put" /\ r.call.slot = s
        /\ r.call.empty = m.call.empty
    BY GotoIs DEF Place, At
  <2>2. Got(m, s) = Iput(m, s)
    BY <1>9 DEF Got, Opened
  <2>3. Ind(View(r), t)
    <3> HIDE DEF r, t, x
    <3> DEFINE y == View(r)
    <3>1. Same(g, r) /\ GoesOn(g.call, r.call) /\ r.call.empty = g.call.empty
      BY <1>1, <2>1 DEF Same, SameDisk, GoesOn
    <3>2. /\ Differs(x, y, t, s) /\ Typed(y) /\ SameDisk(x, y)
          /\ y.held[t] = x.held[t] /\ y.call[t] = r.call /\ y.wait = x.wait /\ y.inode = x.inode
          /\ x.call[t] = g.call
      BY <1>1, <1>3, <1>4, <1>5, <2>1, <3>1, Views DEF Same, x
    <3> HIDE DEF y, i
    <3>3. Ind(y, t)
      BY ONLY <1>1, <1>2, <1>6, <1>9, <2>1, <3>1, <3>2, TurnsAway, s \in Slot
    <3> QED  BY <3>3 DEF y
  <2> QED  BY <2>2, <2>3, IputKeeps
<1>10. CASE m.call.op = "creat" /\ i.nlinks # 0
  <2> DEFINE r == [Goto(m, "cut", s) EXCEPT !.call.zone = i.zone]
  <2>1. /\ Same(m, r) /\ r.inode = m.inode /\ r.wait = m.wait
        /\ GoesOn(m.call, r.call) /\ r.call.at = "cut" /\ r.call.slot = s
        /\ r.call.empty = m.call.empty /\ r.call.zone = i.zone
    <3>1. i.zone \in Block \union {NULL} /\ "cut" \in Place
      BY <1>6 DEF Place, At, InodeType
    <3> HIDE DEF i
    <3> QED  BY <3>1, GotoZoneIs
  <2>2. Got(m, s) = r
    BY <1>10 DEF Got, Opened
  <2> HIDE DEF r, t, x
  <2>3. Ind(View(r), t)
    <3> DEFINE y == View(r)
    <3>1. Same(g, r) /\ GoesOn(g.call, r.call) /\ r.call.empty = g.call.empty
      BY <1>1, <2>1 DEF Same, SameDisk, GoesOn
    <3>2. /\ Differs(x, y, t, s) /\ Typed(y) /\ SameDisk(x, y)
          /\ y.held[t] = x.held[t] /\ y.call[t] = r.call /\ y.wait = x.wait /\ y.inode = x.inode
          /\ x.call[t] = g.call
      BY <1>1, <1>3, <1>4, <1>5, <2>1, <3>1, Views DEF Same, x
    <3>3. y.call[t].zone = x.inode[s].zone
      BY <1>5, <2>1, <3>2
    <3> HIDE DEF y, i
    <3>4. Ind(y, t)
      BY ONLY <1>1, <1>2, <1>6, <1>10, <2>1, <3>1, <3>2, <3>3, TurnsAway, s \in Slot
    <3> QED  BY <3>4 DEF y
  <2> QED  BY <2>1, <2>2, <2>3 DEF Kept, Same, At, t
<1>11. CASE m.call.op \notin {"unlink", "link", "creat"} /\ i.nlinks # 0
  <2> DEFINE h == [m EXCEPT !.held = s]
  <2> DEFINE r == Done(h)
  <2>1. /\ h \in Local /\ h.self = m.self /\ h.panic = m.panic /\ h.held = s /\ SameDisk(m, h)
        /\ h.inode = m.inode /\ h.wait = m.wait
    BY SetsHeld
  <2>2. Got(m, s) = r
    BY <1>11 DEF Got, Opened
  <2> HIDE DEF h
  <2>3. Same(h, r) /\ r.inode = h.inode /\ r.wait = h.wait /\ Over(r.call) /\ r.call.at = "user"
    BY <2>1, DoneIs
  <2> HIDE DEF r, t, x
  <2>4. Ind(View(r), t)
    <3> DEFINE y == View(r)
    <3>1. r \in Local /\ r.self = g.self /\ r.held = s /\ SameDisk(g, r)
          /\ r.inode = g.inode /\ r.wait = g.wait
      BY <1>1, <1>3, <2>1, <2>3 DEF Same, SameDisk, t
    <3>2. /\ Differs(x, y, t, s) /\ Typed(y) /\ SameDisk(x, y)
          /\ y.held[t] = s /\ y.call[t] = r.call /\ y.wait = x.wait /\ y.inode = x.inode
          /\ Over(y.call[t])
      BY <1>1, <1>3, <1>5, <2>3, <3>1, Views DEF x
    <3> HIDE DEF y, i
    <3>3. Ind(y, t)
      BY ONLY <1>2, <1>6, <3>2, Opens, s \in Slot
    <3> QED  BY <3>3 DEF y
  <2> QED  BY <2>1, <2>2, <2>3, <2>4 DEF Kept, Same, At, t
<1> QED
  BY <1>7, <1>8, <1>9, <1>10, <1>11

(* One count of an entry of the table more or less.                         *)
LEMMA CountIs ==
  ASSUME NEW m \in Local, NEW s \in Slot, NEW n \in Nat
  PROVE  LET r == [m EXCEPT !.inode[s].count = n]
             i == m.inode[s]
         IN  /\ Same(m, r) /\ r.wait = m.wait /\ r.call = m.call
             /\ IsInode(r.inode[s], i.num, n, i.nlinks, i.zone, i.dirt, i.lock)
             /\ \A q \in Slot \ {s} : r.inode[q] = m.inode[q]
<1> DEFINE i == m.inode[s]
<1> DEFINE j == [i EXCEPT !.count = n]
<1>1. i \in InodeType
  BY DEF Local
<1>2. j \in InodeType /\ IsInode(j, i.num, n, i.nlinks, i.zone, i.dirt, i.lock)
  BY <1>1, InodeFields
<1>3. [m EXCEPT !.inode[s].count = n] = [m EXCEPT !.inode[s] = j]
  OBVIOUS
<1>4. LET r == [m EXCEPT !.inode[s] = j] IN
      /\ Same(m, r) /\ r.wait = m.wait /\ r.call = m.call
      /\ r.inode[s] = j /\ \A q \in Slot \ {s} : r.inode[q] = m.inode[q]
  <2> HIDE DEF j
  <2> QED  BY <1>2, SetsInode
<1> QED
  <2> HIDE DEF j
  <2> QED  BY <1>2, <1>3, <1>4

(* The entry reserved for a call.                                           *)
LEMMA EmptyIs ==
  ASSUME NEW m \in Local, NEW e \in Slot \union {NULL}
  PROVE  LET r == [m EXCEPT !.call.empty = e] IN
         /\ Same(m, r) /\ r.inode = m.inode /\ r.wait = m.wait
         /\ GoesOn(m.call, r.call) /\ r.call.at = m.call.at /\ r.call.slot = m.call.slot
         /\ r.call.empty = e /\ r.call.zone = m.call.zone
<1> DEFINE d == [m.call EXCEPT !.empty = e]
<1>1. m.call \in CallType
  BY DEF Local
<1>2. /\ d \in CallType /\ GoesOn(m.call, d) /\ d.at = m.call.at /\ d.slot = m.call.slot
      /\ d.empty = e /\ d.zone = m.call.zone
  BY <1>1, CallFields
<1>3. [m EXCEPT !.call.empty = e] = [m EXCEPT !.call = d]
  OBVIOUS
<1>4. LET r == [m EXCEPT !.call = d] IN
      Same(m, r) /\ r.inode = m.inode /\ r.wait = m.wait /\ r.call = d
  <2> HIDE DEF d
  <2> QED  BY <1>2, SetsCall
<1> QED
  <2> HIDE DEF d
  <2> QED  BY <1>2, <1>3, <1>4

(* The counts of two, and no entry reserved any more (inode.c:236-239).     *)
LEMMA TakeIs ==
  ASSUME NEW m \in Local, NEW s \in Slot, NEW e \in Slot \ {s}, m.inode[e].count # 0
  PROVE  LET r == [m EXCEPT !.inode[s].count = @ + 1, !.inode[e].count = @ - 1,
                            !.call.empty = NULL]
             i == m.inode[s]
             k == m.inode[e]
         IN  /\ Same(m, r) /\ r.wait = m.wait
             /\ IsInode(r.inode[s], i.num, i.count + 1, i.nlinks, i.zone, i.dirt, i.lock)
             /\ IsInode(r.inode[e], k.num, k.count - 1, k.nlinks, k.zone, k.dirt, k.lock)
             /\ \A q \in Slot \ {s, e} : r.inode[q] = m.inode[q]
             /\ GoesOn(m.call, r.call) /\ r.call.empty = NULL
<1> DEFINE n == m.inode[s].count + 1
<1> DEFINE k == m.inode[e].count - 1
<1> DEFINE a == [m EXCEPT !.inode[s].count = n]
<1> DEFINE b == [a EXCEPT !.inode[e].count = k]
<1> DEFINE r == [b EXCEPT !.call.empty = NULL]
<1>1. n \in Nat /\ k \in Nat
  BY DEF Local, InodeType
<1>2. [m EXCEPT !.inode[s].count = @ + 1, !.inode[e].count = @ - 1, !.call.empty = NULL] = r
  OBVIOUS
<1>3. LET i == m.inode[s] IN
      /\ Same(m, a) /\ a.wait = m.wait /\ a.call = m.call
      /\ IsInode(a.inode[s], i.num, n, i.nlinks, i.zone, i.dirt, i.lock)
      /\ \A q \in Slot \ {s} : a.inode[q] = m.inode[q]
  <2> HIDE DEF n
  <2> QED  BY <1>1, CountIs
<1>4. LET i == a.inode[e] IN
      /\ Same(a, b) /\ b.wait = a.wait /\ b.call = a.call
      /\ IsInode(b.inode[e], i.num, k, i.nlinks, i.zone, i.dirt, i.lock)
      /\ \A q \in Slot \ {e} : b.inode[q] = a.inode[q]
  <2>1. a \in Local
    BY <1>3 DEF Same
  <2> HIDE DEF a, k
  <2> QED  BY <1>1, <2>1, CountIs
<1>5. /\ Same(b, r) /\ r.inode = b.inode /\ r.wait = b.wait
      /\ GoesOn(b.call, r.call) /\ r.call.empty = NULL
  <2>1. b \in Local
    BY <1>4 DEF Same
  <2> HIDE DEF b
  <2> QED  BY <2>1, EmptyIs
<1> HIDE DEF a, b, r
<1>6. Same(m, r) /\ r.wait = m.wait /\ GoesOn(m.call, r.call) /\ r.call.empty = NULL
  BY <1>3, <1>4, <1>5 DEF Same, SameDisk
<1>7. r.inode[s] = a.inode[s] /\ a.inode[e] = m.inode[e] /\ r.inode[e] = b.inode[e]
  BY <1>3, <1>4, <1>5
<1>8. \A q \in Slot \ {s, e} : r.inode[q] = m.inode[q]
  BY <1>3, <1>4, <1>5
<1> QED
  BY <1>2, <1>3, <1>4, <1>6, <1>7, <1>8

(* iget() from the search of the table on (inode.c:225-249).                *)
LEMMA SearchKeeps ==
  ASSUME Rest, NEW m \in Local, NEW p \in Slot, m.call.empty \in Slot,
         Ind(View(Goto(m, "wait", p)), m.self)
  PROVE  Kept(m, Search(m))
<1> DEFINE g == Goto(m, "wait", p)
<1> DEFINE x == View(g)
<1> DEFINE e == m.call.empty
<1> DEFINE n == m.call.num
<1> DEFINE t == m.self
<1> DEFINE there == {q \in Slot : m.inode[q].num = n}
<1>1. /\ Same(m, g) /\ g.inode = m.inode /\ g.wait = m.wait
      /\ GoesOn(m.call, g.call) /\ g.call.at = "wait" /\ g.call.slot = p
      /\ g.call.empty = e /\ g.call.num = n
  <2>1. LET r == Goto(m, "wait", p) IN
        /\ Same(m, r) /\ r.inode = m.inode /\ r.wait = m.wait
        /\ GoesOn(m.call, r.call) /\ r.call.at = "wait" /\ r.call.slot = p
        /\ r.call.empty = m.call.empty
    BY GotoIs DEF Place, At
  <2> QED  BY <2>1 DEF GoesOn
<1>2. Ind(x, t) /\ t \in Task
  BY DEF Local
<1> HIDE DEF g
<1>3. g \in Local /\ g.self = t /\ g.held = m.held /\ SameDisk(m, g)
  BY <1>1 DEF Same
<1>4. g.held = NULL
  BY <1>1, <1>2, <1>3, HoldsNoFile
<1>5. /\ x.held[t] = NULL /\ x.call[t] = g.call /\ x.inode = m.inode /\ x.wait = m.wait
      /\ SameDisk(m, x)
  BY <1>1, <1>3, <1>4, ViewIs DEF SameDisk
<1>6. /\ x.call[t].at = "wait" /\ x.call[t].empty = e /\ x.call[t].num = n
      /\ n # 0 /\ m.inode[e].num = 0 /\ m.inode[e].count = 1 /\ e \in Slot
  <2>1. TaskOK(x, t)
    BY <1>2 DEF Ind
  <2> QED  BY <1>1, <1>5, <2>1 DEF TaskOK, Shape
<1>7. CASE there = {}
  <2> DEFINE i == m.inode[e]
  <2> DEFINE j == [i EXCEPT !.num = n]
  <2> DEFINE l == [j EXCEPT !.lock = TRUE]
  <2> DEFINE r == [Goto(m, "read", e) EXCEPT !.inode[e] = l]
  <2>1. l \in InodeType /\ IsInode(l, n, i.count, i.nlinks, i.zone, i.dirt, TRUE)
    <3>1. i \in InodeType /\ n \in {0} \union Num
      BY DEF Local, CallType
    <3>2. j \in InodeType /\ IsInode(j, n, i.count, i.nlinks, i.zone, i.dirt, i.lock)
      BY <3>1, InodeFields
    <3>3. l \in InodeType /\ IsInode(l, j.num, j.count, j.nlinks, j.zone, j.dirt, TRUE)
      <4> HIDE DEF j
      <4> QED  BY <3>2, InodeFields
    <3> QED
      <4> HIDE DEF j, l
      <4> QED  BY <3>2, <3>3 DEF IsInode
  <2>2. Search(m) = r
    <3>1. Goto(m, "read", e).inode = m.inode
      BY GotoIs DEF Place, At
    <3>2. Search(m) = [Goto(m, "read", e) EXCEPT !.inode[e].num = n, !.inode[e].lock = TRUE]
      BY <1>7 DEF Search
    <3> QED  BY <3>1, <3>2, ZenonT(60)
  <2>3. /\ Same(m, r) /\ r.wait = m.wait /\ r.inode[e] = l
        /\ \A q \in Slot \ {e} : r.inode[q] = m.inode[q]
        /\ GoesOn(m.call, r.call) /\ r.call.at = "read" /\ r.call.slot = e
        /\ r.call.empty = m.call.empty
    <3>1. "read" \in Place
      BY DEF Place, At
    <3> HIDE DEF l
    <3> QED  BY <2>1, <3>1, GotoSetsIs, SMTT(60)
  <2> HIDE DEF r, j, l, t, x
  <2>4. Ind(View(r), t)
    <3> DEFINE y == View(r)
    <3>1. Same(g, r) /\ GoesOn(g.call, r.call)
      BY <1>1, <2>3 DEF Same, SameDisk, GoesOn
    <3>2. /\ Differs(x, y, t, e) /\ Typed(y) /\ SameDisk(x, y)
          /\ y.held[t] = x.held[t] /\ y.call[t] = r.call /\ y.wait = x.wait /\ y.inode = r.inode
          /\ x.call[t] = g.call
      BY <1>1, <1>3, <1>4, <1>5, <2>3, <3>1, Views DEF Same, x
    <3>3. LET o == x.inode[e] IN
          /\ IsInode(y.inode[e], x.call[t].num, o.count, o.nlinks, o.zone, o.dirt, TRUE)
          /\ y.wait[e] = x.wait[e]
      BY <1>5, <1>6, <2>1, <2>3, <3>2
    <3>4. \A q \in Slot : x.inode[q].num # x.call[t].num
      BY <1>5, <1>6, <1>7
    <3>5. y.call[t].at = "read" /\ y.call[t].slot = e /\ y.call[t].empty = e
      BY <2>3, <3>2
    <3> HIDE DEF y
    <3>6. Ind(y, t)
      <4> HIDE DEF e
      <4> QED  BY ONLY <1>2, <1>6, <3>1, <3>2, <3>3, <3>4, <3>5, BeginsRead
    <3> QED  BY <3>6 DEF y
  <2> QED  BY <2>2, <2>3, <2>4 DEF Kept, Same, At, t
<1>8. ASSUME there # {}
      PROVE  Kept(m, Search(m))
  <2> DEFINE s == CHOOSE q \in there : TRUE
  <2>1. s \in Slot /\ m.inode[s].num = n
    BY <1>8
  <2>2. s # e
    BY <1>6, <2>1
  <2>3. Search(m) = IF m.inode[s].lock THEN WaitOnInode(m, "wait", s)
                    ELSE Got([m EXCEPT !.inode[s].count = @ + 1, !.inode[e].count = @ - 1,
                                       !.call.empty = NULL], s)
    BY <1>8 DEF Search
  <2> HIDE DEF s, there
  <2>4. CASE m.inode[s].lock
    <3> DEFINE r == WaitOnInode(m, "wait", s)
    <3>1. /\ Same(m, r) /\ r.inode = m.inode
          /\ \A q \in Slot \ {s} : r.wait[q] = m.wait[q]
          /\ GoesOn(m.call, r.call) /\ r.call.at = "wait" /\ r.call.slot = s
          /\ r.call.empty = m.call.empty
      <4>1. "wait" \in Place
        BY DEF Place, At
      <4> QED  BY <2>1, <4>1, WaitOnInodeIs
    <3> HIDE DEF r, t, x
    <3>2. Same(g, r) /\ GoesOn(g.call, r.call) /\ r.call.empty = g.call.empty
      BY <1>1, <3>1 DEF Same, SameDisk, GoesOn
    <3>3. Ind(View(r), t)
      <4> DEFINE y == View(r)
      <4>1. /\ Differs(x, y, t, s) /\ Typed(y) /\ SameDisk(x, y) /\ y.inode = x.inode
            /\ y.held[t] = x.held[t] /\ y.call[t] = r.call /\ x.call[t] = g.call
        BY <1>1, <1>3, <2>1, <3>1, <3>2, Views DEF Same, x
      <4>2. x.inode[s].lock
        BY <1>5, <2>4
      <4> HIDE DEF y
      <4>3. Ind(y, t)
        BY ONLY <1>1, <1>2, <2>1, <3>1, <3>2, <4>1, <4>2, Sleeps
      <4> QED  BY <4>3 DEF y
    <3> QED  BY <2>3, <2>4, <3>1, <3>3 DEF Kept, Same, At, t, r
  <2>5. CASE ~m.inode[s].lock
    <3> DEFINE k == [m EXCEPT !.inode[s].count = @ + 1, !.inode[e].count = @ - 1,
                              !.call.empty = NULL]
    <3> DEFINE i == m.inode[s]
    <3> DEFINE o == m.inode[e]
    <3>1. /\ Same(m, k) /\ k.wait = m.wait
          /\ IsInode(k.inode[s], i.num, i.count + 1, i.nlinks, i.zone, i.dirt, i.lock)
          /\ IsInode(k.inode[e], o.num, o.count - 1, o.nlinks, o.zone, o.dirt, o.lock)
          /\ \A q \in Slot \ {s, e} : k.inode[q] = m.inode[q]
          /\ GoesOn(m.call, k.call) /\ k.call.empty = NULL
      <4>1. e \in Slot \ {s} /\ o.count # 0
        BY <1>6, <2>2
      <4> HIDE DEF e
      <4> QED  BY <2>1, <4>1, TakeIs, ZenonT(60)
    <3> HIDE DEF k
    <3> DEFINE r == Goto(k, "got", s)
    <3>2. /\ Same(k, r) /\ r.inode = k.inode /\ r.wait = k.wait
          /\ GoesOn(k.call, r.call) /\ r.call.at = "got" /\ r.call.slot = s
          /\ r.call.empty = k.call.empty
      <4>1. k \in Local /\ "got" \in Place /\ s \in Slot \union {NULL}
        BY <2>1, <3>1 DEF Same, Place
      <4> QED  BY ONLY <4>1, GotoIs
    \* in between, the reserved entry is given back
    <3> DEFINE a == [g EXCEPT !.inode[e].count = o.count - 1]
    <3> DEFINE b == [a EXCEPT !.call.empty = NULL]
    <3> DEFINE h == Goto(b, "found", p)
    <3>3. /\ Same(g, a) /\ a.wait = g.wait /\ a.call = g.call
          /\ IsInode(a.inode[e], o.num, o.count - 1, o.nlinks, o.zone, o.dirt, o.lock)
          /\ \A q \in Slot \ {e} : a.inode[q] = g.inode[q]
      <4>1. o.count - 1 \in Nat /\ o = g.inode[e]
        BY <1>1, <1>6
      <4> DEFINE c == o.count - 1
      <4>2. c \in Nat
        BY <4>1
      <4>3. /\ Same(g, [g EXCEPT !.inode[e].count = c])
            /\ LET a2 == [g EXCEPT !.inode[e].count = c]
                   o2 == g.inode[e]
               IN  /\ a2.wait = g.wait /\ a2.call = g.call
                   /\ IsInode(a2.inode[e], o2.num, c, o2.nlinks, o2.zone, o2.dirt, o2.lock)
                   /\ \A q \in Slot \ {e} : a2.inode[q] = g.inode[q]
        <5> HIDE DEF c, o, e
        <5> QED  BY <1>3, <4>2, CountIs DEF e
      <4> QED  BY <4>1, <4>3
    <3> HIDE DEF a
    <3>4. /\ Same(a, b) /\ b.inode = a.inode /\ b.wait = a.wait
          /\ GoesOn(a.call, b.call) /\ b.call.empty = NULL
      BY <3>3, EmptyIs DEF Same
    <3> HIDE DEF b
    <3>5. /\ Same(b, h) /\ h.inode = b.inode /\ h.wait = b.wait
          /\ GoesOn(b.call, h.call) /\ h.call.at = "found" /\ h.call.empty = b.call.empty
      <4>1. b \in Local /\ "found" \in Place /\ p \in Slot \union {NULL}
        BY <3>4 DEF Same, Place, At
      <4> QED  BY ONLY <4>1, GotoIs
    <3> HIDE DEF h, r, x, t
    <3> DEFINE z == View(h)
    <3> DEFINE y == View(r)
    <3>6. Same(g, h) /\ GoesOn(g.call, h.call) /\ h.call.empty = NULL /\ h.wait = g.wait
      BY <3>3, <3>4, <3>5 DEF Same, SameDisk, GoesOn
    <3>7. /\ \A q \in Slot \ {e} : h.inode[q] = g.inode[q]
          /\ IsInode(h.inode[e], o.num, o.count - 1, o.nlinks, o.zone, o.dirt, o.lock)
      BY <3>3, <3>4, <3>5
    <3>8. Ind(z, t)
      <4>1. /\ Differs(x, z, t, e) /\ Typed(z) /\ SameDisk(x, z)
            /\ z.held[t] = x.held[t] /\ z.call[t] = h.call /\ z.wait = x.wait /\ z.inode = h.inode
            /\ x.call[t] = g.call
        BY <1>1, <1>3, <1>4, <1>5, <3>6, <3>7, Views DEF Same, x
      <4>2. LET u == x.inode[e] IN
            /\ IsInode(z.inode[e], u.num, u.count - 1, u.nlinks, u.zone, u.dirt, u.lock)
            /\ z.wait[e] = x.wait[e]
        BY <1>5, <3>7, <4>1
      <4>3. z.call[t].at = "found" /\ z.call[t].empty = NULL /\ GoesOn(x.call[t], z.call[t])
        BY <3>5, <3>6, <4>1
      <4> HIDE DEF z, e
      <4> QED  BY ONLY <1>2, <1>6, <4>1, <4>2, <4>3, GivesBack
    <3>9. Same(h, r) /\ GoesOn(h.call, r.call) /\ r.call.empty = NULL /\ r.wait = h.wait
      BY <1>1, <3>1, <3>2, <3>6, SMTT(60) DEF Same, SameDisk, GoesOn
    <3>10. \A q \in Slot \ {s} : r.inode[q].num = h.inode[q].num /\ r.inode[q] = h.inode[q]
      <4>1. \A q \in Slot \ {s, e} : r.inode[q] = h.inode[q]
        BY <1>1, <3>1, <3>2, <3>7
      <4>2. r.inode[e] = h.inode[e]
        <5>1. r.inode[e] \in InodeType /\ h.inode[e] \in InodeType
          BY <3>2, <3>5 DEF Same, Local
        <5>2. LET u == r.inode[e]
                  v == h.inode[e]
              IN  /\ u.num = v.num /\ u.count = v.count /\ u.nlinks = v.nlinks
                  /\ u.zone = v.zone /\ u.dirt = v.dirt /\ u.lock = v.lock
          BY <3>1, <3>2, <3>7 DEF IsInode
        <5> QED  BY <5>1, <5>2 DEF InodeType
      <4> QED  BY <4>1, <4>2
    <3>11. Ind(y, t)
      <4>1. h \in Local /\ r \in Local /\ r.self = h.self /\ h.self = t /\ SameDisk(h, r)
            /\ r.held = h.held
        BY <1>3, <3>6, <3>9 DEF Same
      <4>2. /\ Differs(z, y, t, s) /\ Typed(y) /\ SameDisk(z, y)
            /\ y.held[t] = z.held[t] /\ y.call[t] = r.call /\ y.wait = z.wait /\ y.inode = r.inode
            /\ z.call[t] = h.call /\ z.inode = h.inode
        BY <2>1, <3>9, <3>10, <4>1, Views
      <4>3. h.inode[s] = m.inode[s]
        BY <1>1, <2>1, <2>2, <3>7
      <4>4. LET u == z.inode[s] IN
            /\ IsInode(y.inode[s], u.num, u.count + 1, u.nlinks, u.zone, u.dirt, u.lock)
            /\ y.wait[s] = z.wait[s] /\ u.num = z.call[t].num /\ ~u.lock
        BY <1>1, <2>1, <2>5, <3>1, <3>2, <3>6, <4>2, <4>3 DEF GoesOn
      <4>5. /\ y.call[t].at = "got" /\ y.call[t].slot = s /\ y.call[t].empty = NULL
            /\ GoesOn(z.call[t], y.call[t]) /\ z.call[t].at = "found"
        BY <3>2, <3>5, <3>9, <4>2
      <4> HIDE DEF z, y
      <4> QED  BY ONLY <1>2, <2>1, <3>8, <4>2, <4>4, <4>5, Takes
    <3>12. Kept(k, Got(k, s))
      <4>1. k \in Local /\ k.self = t
        BY <3>1 DEF Same, t
      <4> QED  BY <2>1, <3>11, <4>1, GotKeeps DEF r
    <3>13. Search(m) = Got(k, s)
      BY <2>3, <2>5 DEF k
    <3> QED  BY <3>1, <3>12, <3>13 DEF Kept, Same
  <2> QED  BY <2>4, <2>5
<1> QED
  BY <1>7, <1>8

(* get_empty_inode() (inode.c:165-200).                                     *)
LEMMA GetEmptyIs ==
  ASSUME NEW m \in Local, NEW s \in Slot
  PROVE  LET r == GetEmpty(m, s) IN
         /\ Same(m, r) /\ r.call = m.call /\ r.wait[s] = {}
         /\ IsInode(r.inode[s], 0, 1, 0, NULL, FALSE, FALSE)
         /\ \A q \in Slot \ {s} : r.inode[q] = m.inode[q] /\ r.wait[q] = m.wait[q]
<1> DEFINE i == [Blank EXCEPT !.count = 1]
<1>1. i \in InodeType /\ IsInode(i, 0, 1, 0, NULL, FALSE, FALSE)
  BY DEF Blank, InodeType, IsInode
<1> DEFINE a == [m EXCEPT !.inode[s] = i]
<1> DEFINE w == {}
<1> DEFINE r == [a EXCEPT !.wait[s] = w]
<1>2. GetEmpty(m, s) = r
  BY DEF GetEmpty
<1>3. /\ Same(m, a) /\ a.call = m.call /\ a.wait = m.wait
      /\ a.inode[s] = i /\ \A q \in Slot \ {s} : a.inode[q] = m.inode[q]
  <2> HIDE DEF i
  <2> QED  BY <1>1, SetsInode
<1>4. w \in SUBSET Task /\ a \in Local
  BY <1>3 DEF Same
<1>5. /\ Same(a, r) /\ r.call = a.call /\ r.inode = a.inode
      /\ r.wait[s] = w /\ \A q \in Slot \ {s} : r.wait[q] = a.wait[q]
  <2> HIDE DEF a, w
  <2> QED  BY <1>4, SetsWait
<1> QED
  <2> HIDE DEF i, a, r, w
  <2> QED  BY <1>1, <1>2, <1>3, <1>4, <1>5 DEF Same, SameDisk, w

(* iget(), of a call that has found the number n: f is the record with it.  *)
LEMMA IgetKeeps ==
  ASSUME Rest, NEW m \in Local, NEW f \in Local, NEW e \in Slot, NEW n \in Num,
         m.inode[e].count = 0, m.held = NULL,
         Same(m, f), f.inode = m.inode, f.wait = m.wait,
         f.call.at = "found", f.call.op = m.call.op, f.call.entry = m.call.entry,
         f.call.num = n, Ind(View(f), m.self)
  PROVE  Kept(m, Iget(m, n, e))
<1> DEFINE a == GetEmpty(m, e)
<1> DEFINE c == [a.call EXCEPT !.num = n]
<1> DEFINE d == [c EXCEPT !.empty = e]
<1> DEFINE k == [a EXCEPT !.call = d]
<1> DEFINE r == Goto(k, "wait", e)
<1> DEFINE x == View(f)
<1> DEFINE y == View(r)
<1> DEFINE t == m.self
<1>1. /\ Same(m, a) /\ a.call = m.call /\ a.wait[e] = {}
      /\ IsInode(a.inode[e], 0, 1, 0, NULL, FALSE, FALSE)
      /\ \A q \in Slot \ {e} : a.inode[q] = m.inode[q] /\ a.wait[q] = m.wait[q]
  BY GetEmptyIs
<1>2. [a EXCEPT !.call.num = n, !.call.empty = e] = k
  OBVIOUS
<1>3. Iget(m, n, e) = Search(k)
  BY <1>2 DEF Iget
<1> HIDE DEF a
<1>4. a \in Local /\ a.call \in CallType /\ n \in {0} \union Num
  BY <1>1 DEF Same, Local
<1>5. c \in CallType /\ c.op = a.call.op /\ c.entry = a.call.entry /\ c.num = n
  BY <1>4, CallFields
<1>6. d \in CallType /\ GoesOn(c, d) /\ d.empty = e
  <2> HIDE DEF c
  <2> QED  BY <1>5, CallFields
<1>7. Same(a, k) /\ k.inode = a.inode /\ k.wait = a.wait /\ k.call = d
  <2> HIDE DEF d
  <2> QED  BY <1>4, <1>6, SetsCall
<1> HIDE DEF c, d, k
<1>8. /\ Same(k, r) /\ r.inode = k.inode /\ r.wait = k.wait
      /\ GoesOn(k.call, r.call) /\ r.call.at = "wait" /\ r.call.slot = e
      /\ r.call.empty = k.call.empty
  <2>1. k \in Local /\ "wait" \in Place /\ e \in Slot \union {NULL}
    BY <1>7 DEF Same, Place, At
  <2> QED  BY ONLY <2>1, GotoIs
<1> HIDE DEF r, x, t
<1>9. Same(f, r) /\ Same(m, k)
  BY <1>1, <1>7, <1>8 DEF Same, SameDisk
<1>10. /\ t \in Task /\ Differs(x, y, t, e) /\ Typed(y) /\ SameDisk(x, y)
       /\ x.held[t] = NULL /\ x.call[t] = f.call /\ x.inode = m.inode
       /\ y.held[t] = NULL /\ y.call[t] = r.call /\ y.inode = r.inode /\ y.wait = r.wait
  <2>1. \A q \in Slot \ {e} : r.inode[q] = f.inode[q] /\ r.wait[q] = f.wait[q]
    BY <1>1, <1>7, <1>8
  <2>2. r \in Local /\ r.self = f.self /\ SameDisk(f, r) /\ f.self = t
        /\ r.held = NULL /\ f.held = NULL
    BY <1>9 DEF Same, t
  <2> QED  BY <2>1, <2>2, Views DEF x
<1>11. GoesOn(x.call[t], y.call[t])
  BY <1>1, <1>5, <1>6, <1>7, <1>8, <1>10 DEF GoesOn
<1>12. /\ y.call[t].at = "wait" /\ y.call[t].slot = e /\ y.call[t].empty = e
       /\ y.wait[e] = {} /\ IsInode(y.inode[e], 0, 1, 0, NULL, FALSE, FALSE)
       /\ x.call[t].at = "found" /\ x.inode[e].count = 0
  BY <1>1, <1>6, <1>7, <1>8, <1>10
<1>13. Ind(x, t)
  BY DEF x, t
<1>14. Ind(y, t)
  <2> HIDE DEF y
  <2> QED  BY ONLY <1>10, <1>11, <1>12, <1>13, Reserves, e \in Slot
<1>15. Kept(k, Search(k))
  <2>1. k \in Local /\ k.self = t /\ k.call.empty \in Slot
    BY <1>6, <1>7, <1>9 DEF Same, t
  <2> QED  BY <1>14, <2>1, SearchKeeps DEF r
<1> QED
  BY <1>3, <1>9, <1>15 DEF Kept, Same
-----------------------------------------------------------------------------
(* The invariant: between two actions every task is where the code can      *)
(* sleep.                                                                   *)
Inv == TypeOK /\ ~panic /\ Ind(Cur, NULL)

(* What a step begins with.                                                 *)
LEMMA Before ==
  ASSUME Inv, NEW t \in Task
  PROVE  LET m == Now(t) IN
         /\ Rest /\ m \in Local /\ View(m) = Cur /\ Ind(View(m), t)
         /\ m.self = t /\ m.held = held[t] /\ m.call = call[t] /\ m.panic = FALSE
         /\ m.inode = inode /\ m.wait = i_wait /\ m.image = image /\ m.imap = imap
         /\ m.zmap = zmap /\ m.dir = dir /\ m.call.at \in At
<1> DEFINE m == Now(t)
<1>1. TypeOK /\ panic = FALSE /\ Typed(Cur)
  BY DEF Inv, Ind, TypeOK
<1>2. /\ m.self = t /\ m.held = held[t] /\ m.call = call[t] /\ m.panic = panic
      /\ m.inode = inode /\ m.wait = i_wait /\ m.image = image /\ m.imap = imap
      /\ m.zmap = zmap /\ m.dir = dir
  BY DEF Now
<1>3. Rest
  BY <1>1 DEF Rest, Typed, Cur
<1>4. m \in Local
  <2>1. /\ inode \in [Slot -> InodeType] /\ i_wait \in [Slot -> SUBSET Task]
        /\ image \in [Num -> ImageType] /\ imap \in SUBSET Num /\ zmap \in SUBSET Block
        /\ dir \in [Entry -> EntryType] /\ panic \in BOOLEAN
    BY <1>1 DEF Typed, Cur
  <2>2. held[t] \in Slot \union {NULL} /\ call[t] \in CallType
    BY <1>3 DEF Rest
  <2> QED  BY <2>1, <2>2 DEF Now, Local
<1>5. View(m) = Cur
  <2>1. [held EXCEPT ![t] = held[t]] = held /\ [call EXCEPT ![t] = call[t]] = call
    BY <1>3 DEF Rest
  <2> HIDE DEF m
  <2> QED  BY <1>2, <2>1 DEF View, Cur
<1>6. \A u \in Task : call[u].at \in At
  BY <1>1 DEF TypeOK
<1>7. Ind(Cur, t)
  <2>1. \A u \in Task : Cur.call[u].at \in At
    BY <1>6 DEF Cur
  <2> QED  BY <2>1 DEF Inv, Ind
<1> QED
  <2> HIDE DEF m
  <2>1. m.call.at \in At
    BY <1>2, <1>6
  <2> QED  BY <1>1, <1>2, <1>3, <1>4, <1>5, <1>7, <2>1 DEF m

(* A step that keeps the invariant of its record keeps that of the state.   *)
LEMMA After ==
  ASSUME Inv, NEW t \in Task, NEW r, Kept(Now(t), r), Becomes(r)
  PROVE  Inv'
<1>1. /\ r \in Local /\ r.self = t /\ r.panic = FALSE /\ r.call.at \in At /\ Ind(View(r), t)
  <2>1. Now(t).self = t /\ Now(t).panic = FALSE
    BY Before
  <2> QED  BY <2>1 DEF Kept
<1>2. Rest /\ TypeOK
  BY Before DEF Inv
<1>3. Cur' = View(r)
  BY <1>1 DEF Becomes, Cur, View
<1>4. panic' = FALSE
  BY <1>1 DEF Becomes
<1>5. Typed(View(r)) /\ View(r).call[t] = r.call
      /\ \A u \in Task \ {t} : View(r).call[u] = call[u]
  BY <1>1, <1>2, ViewIs
<1>6. \A u \in Task : View(r).call[u].at \in At
  BY <1>1, <1>2, <1>5 DEF TypeOK
<1>7. Ind(View(r), NULL)
  BY <1>1, <1>6 DEF Ind
<1>8. TypeOK'
  <2>1. Typed(Cur') /\ \A u \in Task : Cur'.call[u].at \in At
    BY <1>3, <1>5, <1>6
  <2>2. /\ inode' \in [Slot -> InodeType] /\ i_wait' \in [Slot -> SUBSET Task]
        /\ image' \in [Num -> ImageType] /\ imap' \subseteq Num /\ zmap' \subseteq Block
        /\ dir' \in [Entry -> EntryType] /\ held' \in [Task -> Slot \union {NULL}]
        /\ call' \in [Task -> CallType] /\ \A u \in Task : call'[u].at \in At
    BY <2>1 DEF Typed, Cur
  <2> DEFINE C == [at : At, op : {"none", "open", "creat", "unlink", "link", "sync"},
                   name : Name \union {NULL}, num : {0} \union Num, entry : Entry,
                   slot : Slot \union {NULL}, empty : Slot \union {NULL},
                   zone : Block \union {NULL}, todo : SUBSET Slot]
  <2>3. \A u \in Task : call'[u] \in C
    <3>1. SUFFICES ASSUME NEW u \in Task
                   PROVE  call'[u] \in C
      OBVIOUS
    <3>2. call'[u] \in CallType /\ call'[u].at \in At
      BY <2>2
    <3> QED  BY <3>2 DEF CallType
  <2>4. call' \in [Task -> C]
    <3> HIDE DEF C
    <3> QED  BY <2>2, <2>3
  <2> QED  BY <1>4, <2>2, <2>4 DEF TypeOK, InodeType, ImageType, EntryType
<1> QED
  BY <1>3, <1>4, <1>7, <1>8 DEF Inv

(* What a task knows where it is: its call and, if it has one, its inode.   *)
LEMMA There ==
  ASSUME Inv, NEW t \in Task
  PROVE  /\ Shape(held[t], call[t]) /\ Grip(call[t], inode[call[t].slot])
         /\ held[t] \in Slot \union {NULL} /\ call[t] \in CallType
         /\ call[t].at \in Holding \union {"wait", "wsync", "block"} => call[t].slot \in Slot
         /\ Cur.held = held /\ Cur.call = call /\ Cur.inode = inode /\ Cur.wait = i_wait
         /\ Cur.image = image /\ Cur.imap = imap /\ Cur.zmap = zmap /\ Cur.dir = dir
<1>1. /\ Cur.held = held /\ Cur.call = call /\ Cur.inode = inode /\ Cur.wait = i_wait
      /\ Cur.image = image /\ Cur.imap = imap /\ Cur.zmap = zmap /\ Cur.dir = dir
  BY DEF Cur
<1>2. TaskOK(Cur, t) /\ Rest
  BY Before DEF Inv, Ind
<1>3. Shape(held[t], call[t]) /\ Grip(call[t], inode[call[t].slot])
  BY <1>1, <1>2 DEF TaskOK
<1> QED
  BY <1>1, <1>2, <1>3 DEF Rest, Shape

(* A task that stays where it is.                                           *)
LEMMA GotoSame ==
  ASSUME NEW m \in Local
  PROVE  Goto(m, m.call.at, m.call.slot) = m
<1> DEFINE c == [[m.call EXCEPT !.at = m.call.at] EXCEPT !.slot = m.call.slot]
<1>1. Goto(m, m.call.at, m.call.slot) = [m EXCEPT !.call = c]
  BY DEF Goto
<1>2. c = m.call
  BY DEF Local, CallType
<1>3. [m EXCEPT !.call = m.call] = m
  BY DEF Local
<1> QED
  BY <1>1, <1>2, <1>3

(* What the state is to the view a step leaves, field by field.             *)
LEMMA Step ==
  ASSUME Inv, NEW t \in Task, NEW r \in Local, r.self = t, NEW s \in Slot,
         \A q \in Slot \ {s} : r.inode[q] = inode[q] /\ r.wait[q] = i_wait[q]
  PROVE  LET x == Cur
             y == View(r)
         IN  /\ Differs(x, y, t, s) /\ Typed(y) /\ Ind(x, t)
             /\ x.held[t] = held[t] /\ x.call[t] = call[t] /\ x.inode = inode /\ x.wait = i_wait
             /\ x.dir = dir /\ x.imap = imap /\ x.zmap = zmap /\ x.image = image
             /\ y.held[t] = r.held /\ y.call[t] = r.call /\ y.inode = r.inode /\ y.wait = r.wait
             /\ y.dir = r.dir /\ y.imap = r.imap /\ y.zmap = r.zmap /\ y.image = r.image
             /\ SameDisk(Now(t), r) => SameDisk(x, y)
<1> DEFINE m == Now(t)
<1>1. /\ Rest /\ m \in Local /\ View(m) = Cur /\ Ind(View(m), t)
      /\ m.self = t /\ m.held = held[t] /\ m.call = call[t]
      /\ m.inode = inode /\ m.wait = i_wait /\ m.image = image /\ m.imap = imap
      /\ m.zmap = zmap /\ m.dir = dir
  BY Before
<1> HIDE DEF m
<1>2. \A q \in Slot \ {s} : r.inode[q] = m.inode[q] /\ r.wait[q] = m.wait[q]
  BY <1>1
<1>3. SameDisk(m, r) => SameDisk(View(m), View(r))
  BY ONLY <1>1, <1>2, Views, r \in Local, r.self = t, s \in Slot
<1>4. /\ Differs(View(m), View(r), t, s) /\ Typed(View(r))
      /\ View(r).held[t] = r.held /\ View(r).call[t] = r.call
      /\ View(r).inode = r.inode /\ View(r).wait = r.wait
      /\ View(r).dir = r.dir /\ View(r).imap = r.imap /\ View(r).zmap = r.zmap
      /\ View(r).image = r.image
  BY ONLY <1>1, <1>2, Views, r \in Local, r.self = t, s \in Slot
<1> QED
  BY <1>1, <1>3, <1>4, There DEF m

(* There is an entry in the table.                                          *)
LEMMA SomeSlot == ASSUME NEW t \in Task PROVE \E s \in Slot : TRUE
<1>1. SUFFICES ASSUME Slot = {} PROVE FALSE
  OBVIOUS
<1>2. Cardinality(Slot) = 0
  BY <1>1, FS_EmptySet
<1>3. Cardinality(Task) \in Nat
  BY InodeAssumption, FS_CardinalityType
<1> QED
  BY <1>2, <1>3, InodeAssumption

(* The least number of a set is one of them.                                *)
LEMMA LeastIs ==
  ASSUME NEW S, S \subseteq Nat, S # {}
  PROVE  Min(S) \in S
<1>1. PICK n \in S : \A k \in S : ~(k < n)
  BY LeastNumber
<1>2. \A k \in S : n <= k
  BY <1>1
<1> QED
  BY <1>2 DEF Min

(* The entry of a name that is there (namei.c:87-132).                      *)
LEMMA FindEntryIs ==
  ASSUME Inv, NEW t \in Task, NEW y, Entries(dir, y) # {}
  PROVE  /\ FindEntry(Now(t), y) \in Entry
         /\ dir[FindEntry(Now(t), y)].num \in Num
<1> DEFINE S == Entries(dir, y)
<1>1. S \subseteq Entry /\ S \subseteq Nat /\ S # {}
  BY InodeAssumption DEF Entries, Entry
<1>2. Min(S) \in S
  <2> HIDE DEF S
  <2> QED  BY <1>1, LeastIs
<1>3. FindEntry(Now(t), y) = Min(S)
  BY DEF FindEntry, Now
<1>4. dir \in [Entry -> EntryType]
  BY DEF Inv, TypeOK, EntryType
<1> QED
  BY <1>2, <1>3, <1>4 DEF Entries, EntryType

(* What Apart says of the calls that are busy.                              *)
LEMMA ApartIs ==
  ASSUME Orderly, NEW t \in Task, NEW x, NEW n \in Num, NEW op, Apart(t, x, n, op),
         NEW u \in Task \ {t}, Busy(call[u]), call[u].num = n
  PROVE  op = "open" /\ call[u].op = "open"
BY DEF Apart, Busy, Shared, Num

(* A call that has found the number of a name.                              *)
LEMMA FoundKeeps ==
  ASSUME Inv, Orderly, NEW t \in Task, call[t].at = "user", held[t] = NULL,
         NEW x, NEW e \in Entry, dir[e].num \in Num,
         NEW f \in Local, Same(Now(t), f), f.inode = inode, f.wait = i_wait,
         f.call.at = "found", f.call.empty = NULL, f.call.num = dir[e].num,
         f.call.op \in {"open", "creat", "link", "unlink"},
         f.call.op = "unlink" => f.call.entry = e,
         Apart(t, x, dir[e].num, f.call.op)
  PROVE  Ind(View(f), t)
<1> DEFINE y == View(f)
<1>1. PICK s \in Slot : TRUE
  BY SomeSlot
<1>2. f.self = t /\ f.held = NULL /\ SameDisk(Now(t), f)
  BY Before DEF Same
<1>3. /\ Differs(Cur, y, t, s) /\ Typed(y) /\ Ind(Cur, t) /\ SameDisk(Cur, y)
      /\ Cur.held[t] = NULL /\ Cur.call[t].at = "user" /\ y.held[t] = NULL /\ y.call[t] = f.call
      /\ y.inode = Cur.inode /\ y.wait = Cur.wait /\ Cur.dir = dir
  BY <1>1, <1>2, Step
<1>4. \A u \in Task \ {t} :
        Busy(Cur.call[u]) /\ Cur.call[u].num = f.call.num =>
          f.call.op = "open" /\ Cur.call[u].op = "open"
  BY ApartIs DEF Cur
<1>5. dir[e].num # 0
  BY DEF Num
<1> HIDE DEF y
<1>6. Ind(y, t)
  <2>1. Cur.dir[e].num = y.call[t].num /\ Cur.dir[e].num # 0
    BY <1>3, <1>5
  <2> HIDE DEF Cur
  <2> QED  BY <1>3, <1>4, <2>1, Looks
<1> QED
  BY <1>6 DEF y

(* namei(), open_namei(): the name is found, iput(dir) may sleep            *)
(* (namei.c:294-302, 339, 370-373).                                         *)
LEMMA LookKeeps ==
  ASSUME Inv, Orderly, NEW t \in Task, NEW op \in {"open", "creat", "link"},
         NEW y \in Name, NEW x \in Name, Look(t, op, y, x)
  PROVE  Inv'
<1> DEFINE m == Now(t)
<1> DEFINE e == FindEntry(m, y)
<1> DEFINE n == dir[e].num
<1> DEFINE c == [call[t] EXCEPT !.at = "found", !.op = op, !.name = x, !.num = n]
<1> DEFINE f == [m EXCEPT !.call = c]
<1>1. e \in Entry /\ n \in Num
  BY FindEntryIs DEF Look
<1>2. /\ call[t].at = "user" /\ held[t] = NULL /\ Apart(t, x, n, op)
      /\ call' = [call EXCEPT ![t].at = "found", ![t].op = op, ![t].name = x, ![t].num = n]
      /\ UNCHANGED <<inode, i_wait, image, imap, zmap, dir, held, panic>>
  BY DEF Look, Runs
<1>3. /\ m \in Local /\ m.self = t /\ m.held = held[t] /\ m.call = call[t] /\ m.panic = FALSE
      /\ m.inode = inode /\ m.wait = i_wait /\ m.image = image /\ m.imap = imap
      /\ m.zmap = zmap /\ m.dir = dir
  BY Before
<1>4. call[t] \in CallType /\ call[t].empty = NULL /\ panic = FALSE
  BY <1>2, There DEF Shape, Inv
<1>5. /\ c \in CallType /\ c.at = "found" /\ c.op = op /\ c.num = n /\ c.empty = NULL
  <2> HIDE DEF n
  <2>1. "found" \in Place /\ n \in {0} \union Num
    BY <1>1 DEF Place, At
  <2> QED  BY <1>4, <2>1 DEF CallType
<1>6. call' = [call EXCEPT ![t] = c]
  BY <1>2
<1> HIDE DEF c, m
<1>7. Same(m, f) /\ f.inode = m.inode /\ f.wait = m.wait /\ f.call = c
  BY <1>3, <1>5, SetsCall
<1> HIDE DEF f
<1>8. Ind(View(f), t)
  <2> HIDE DEF e
  <2> QED  BY <1>1, <1>2, <1>3, <1>5, <1>7, FoundKeeps DEF Same, m
<1>9. Kept(m, f)
  BY <1>3, <1>5, <1>7, <1>8 DEF Kept, Same, At
<1>10. Becomes(f)
  <2>1. held' = [held EXCEPT ![t] = held[t]]
    BY <1>2, Before DEF Rest
  <2> QED  BY <1>2, <1>3, <1>4, <1>6, <1>7, <2>1, ZenonT(60) DEF Becomes, Same, SameDisk
<1> QED
  BY <1>9, <1>10, After DEF m

(* iget() after iput(dir).                                                  *)
LEMMA FoundDoneKeeps ==
  ASSUME Inv, NEW t \in Task, FoundDone(t)
  PROVE  Inv'
<1> DEFINE m == Now(t)
<1>1. PICK e \in Slot : inode[e].count = 0 /\ Becomes(Iget(m, call[t].num, e))
  BY DEF FoundDone, Empties
<1>2. call[t].at = "found"
  BY DEF FoundDone, Runs
<1>3. Rest /\ m \in Local /\ Ind(View(m), t) /\ m.self = t /\ m.held = held[t]
      /\ m.call = call[t] /\ m.inode = inode
  BY Before
<1>4. call[t].num \in Num /\ held[t] = NULL
  BY <1>2, There DEF Shape, CallType, Num
<1>5. Kept(m, Iget(m, call[t].num, e))
  <2> HIDE DEF m
  <2>1. Same(m, m)
    BY <1>3 DEF Same, SameDisk
  <2> QED  BY <1>1, <1>2, <1>3, <1>4, <2>1, IgetKeeps
<1> QED
  BY <1>1, <1>5, After

(* sys_unlink() up to iget() (namei.c:578-601).                             *)
LEMMA SysUnlinkKeeps ==
  ASSUME Inv, Orderly, NEW t \in Task, NEW x \in Name, SysUnlink(t, x)
  PROVE  Inv'
<1> DEFINE h == Now(t)
<1> DEFINE e == FindEntry(h, x)
<1> DEFINE n == dir[e].num
<1> DEFINE c == [call[t] EXCEPT !.op = "unlink", !.name = x, !.entry = e]
<1> DEFINE m == [h EXCEPT !.call = c]
<1> DEFINE d == [c EXCEPT !.at = "found", !.num = n]
<1> DEFINE f == [h EXCEPT !.call = d]
<1>1. e \in Entry /\ n \in Num
  BY FindEntryIs DEF SysUnlink
<1>2. call[t].at = "user" /\ held[t] = NULL /\ Apart(t, x, n, "unlink")
  BY DEF SysUnlink, Runs
<1>3. /\ Rest /\ h \in Local /\ h.self = t /\ h.held = held[t] /\ h.call = call[t]
      /\ h.panic = FALSE /\ h.inode = inode /\ h.wait = i_wait /\ h.dir = dir
  BY Before
<1>4. [h EXCEPT !.call.op = "unlink", !.call.name = x, !.call.entry = e] = m
  <2> HIDE DEF h, e
  <2> QED  BY <1>3
<1>5. PICK r \in Slot : inode[r].count = 0 /\ Becomes(Iget(m, n, r))
  BY <1>4 DEF SysUnlink, Empties
<1>6. call[t] \in CallType /\ call[t].empty = NULL
  BY <1>2, There DEF Shape
<1>7. c \in CallType /\ c.op = "unlink" /\ c.entry = e /\ c.empty = NULL
  <2> HIDE DEF e
  <2> QED  BY <1>1, <1>6 DEF CallType
<1>8. d \in CallType /\ d.op = "unlink" /\ d.entry = e /\ d.empty = NULL /\ d.at = "found"
      /\ d.num = n
  <2> HIDE DEF c, n
  <2>1. "found" \in Place /\ n \in {0} \union Num
    BY <1>1 DEF Place, At
  <2> QED  BY <1>7, <2>1 DEF CallType
<1> HIDE DEF c, d, h
<1>9. Same(h, m) /\ m.inode = h.inode /\ m.wait = h.wait /\ m.call = c
  BY <1>3, <1>7, SetsCall
<1>10. Same(h, f) /\ f.inode = h.inode /\ f.wait = h.wait /\ f.call = d
  BY <1>3, <1>8, SetsCall
<1> HIDE DEF f, m
<1>11. Ind(View(f), t)
  <2> HIDE DEF e
  <2> QED  BY <1>1, <1>2, <1>3, <1>8, <1>10, FoundKeeps DEF Same, h
<1>12. Kept(m, Iget(m, n, r))
  <2>1. m \in Local /\ f \in Local /\ Same(m, f) /\ m.held = NULL /\ m.self = t
        /\ m.inode[r].count = 0 /\ f.inode = m.inode /\ f.wait = m.wait
    BY <1>2, <1>3, <1>5, <1>9, <1>10 DEF Same, SameDisk
  <2>2. f.call.at = "found" /\ f.call.op = m.call.op /\ f.call.entry = m.call.entry
        /\ f.call.num = n
    BY <1>7, <1>8, <1>9, <1>10
  <2> HIDE DEF n
  <2> QED  BY ONLY <1>1, <1>3, <1>11, <2>1, <2>2, IgetKeeps, r \in Slot
<1>13. Kept(h, Iget(m, n, r))
  BY <1>9, <1>12 DEF Kept, Same
<1> QED
  BY <1>5, <1>13, After DEF h

(* iget() goes on when the inode is unlocked (inode.c:231-240).             *)
LEMMA WaitDoneKeeps ==
  ASSUME Inv, NEW t \in Task, WaitDone(t)
  PROVE  Inv'
<1> DEFINE m == Now(t)
<1> DEFINE s == call[t].slot
<1>1. call[t].at = "wait"
  BY DEF WaitDone, Runs
<1>2. Rest /\ m \in Local /\ Ind(View(m), t) /\ m.self = t /\ m.held = held[t]
      /\ m.call = call[t] /\ m.inode = inode /\ m.wait = i_wait
  BY Before
<1>3. s \in Slot /\ call[t].empty \in Slot
  BY <1>1, There DEF Shape, CallType
<1>4. Goto(m, "wait", s) = m
  BY <1>1, <1>2, GotoSame
<1> HIDE DEF m
<1>5. CASE inode[s].lock
  <2> DEFINE r == WaitOnInode(m, "wait", s)
  <2> DEFINE y == View(r)
  <2>1. Becomes(r)
    BY <1>2, <1>5 DEF WaitDone, m
  <2>2. /\ Same(m, r) /\ r.inode = m.inode
        /\ \A q \in Slot \ {s} : r.wait[q] = m.wait[q]
        /\ GoesOn(m.call, r.call) /\ r.call.at = "wait" /\ r.call.slot = s
        /\ r.call.empty = m.call.empty
    <3>1. "wait" \in Place
      BY DEF Place, At
    <3> HIDE DEF s
    <3> QED  BY <1>2, <1>3, <3>1, WaitOnInodeIs
  <2> HIDE DEF r
  <2>3. /\ Differs(Cur, y, t, s) /\ Typed(y) /\ Ind(Cur, t) /\ SameDisk(Cur, y)
        /\ Cur.held[t] = held[t] /\ Cur.call[t] = call[t] /\ y.held[t] = r.held /\ y.call[t] = r.call
        /\ Cur.inode = inode /\ y.inode = r.inode
    <3>1. r \in Local /\ r.self = t /\ SameDisk(m, r)
          /\ \A q \in Slot \ {s} : r.inode[q] = inode[q] /\ r.wait[q] = i_wait[q]
      BY <1>2, <2>2 DEF Same
    <3> HIDE DEF s, y
    <3> QED  BY <1>3, <3>1, Step DEF m, y
  <2>4. Ind(y, t)
    <3>1. y.held[t] = Cur.held[t] /\ Cur.inode[s].lock /\ y.inode = Cur.inode
          /\ GoesOn(Cur.call[t], y.call[t]) /\ Cur.call[t].at = "wait"
          /\ y.call[t].at = "wait" /\ y.call[t].slot = s /\ y.call[t].empty = Cur.call[t].empty
      BY <1>1, <1>2, <1>5, <2>2, <2>3 DEF Same
    <3> HIDE DEF y, s
    <3> QED  BY ONLY <1>3, <2>3, <3>1, Sleeps, t \in Task
  <2>5. Kept(m, r)
    BY <1>2, <2>2, <2>4 DEF Kept, Same, At
  <2> QED  BY <2>1, <2>5, After DEF m
<1>6. CASE ~inode[s].lock
  <2>1. Becomes(Search(m))
    BY <1>2, <1>6 DEF WaitDone, m
  <2>2. Kept(m, Search(m))
    <3> HIDE DEF s
    <3> QED  BY <1>2, <1>3, <1>4, SearchKeeps
  <2> QED  BY <2>1, <2>2, After DEF m
<1> QED
  BY <1>5, <1>6

(* iput() goes on when the inode is unlocked (inode.c:131).                 *)
LEMMA PutDoneKeeps ==
  ASSUME Inv, NEW t \in Task, PutDone(t)
  PROVE  Inv'
<1> DEFINE m == Now(t)
<1> DEFINE s == call[t].slot
<1>1. call[t].at = "put" /\ Becomes(Iput(m, s))
  BY DEF PutDone, Runs
<1>2. Rest /\ m \in Local /\ Ind(View(m), t) /\ m.self = t /\ m.call = call[t]
  BY Before
<1>3. s \in Slot
  BY <1>1, There DEF Holding
<1>4. Goto(m, "put", s) = m
  BY <1>1, <1>2, GotoSame
<1>5. Kept(m, Iput(m, s))
  <2> HIDE DEF m, s
  <2> QED  BY <1>2, <1>3, <1>4, IputKeeps
<1> QED
  BY <1>1, <1>5, After

(* iput() of an inode that a file, the second lookup of link, or its        *)
(* add_entry() had, where nothing else has changed.                         *)
LEMMA PutsKeeps ==
  ASSUME Inv, NEW t \in Task, NEW k \in Local, NEW s \in Slot,
         k.self = t, k.held = NULL, SameDisk(Now(t), k), k.call = call[t], k.panic = FALSE,
         k.inode = inode, k.wait = i_wait,
         \/ call[t].at = "user" /\ held[t] = s
         \/ call[t].at = "new" /\ call[t].slot = s
         \/ call[t].at = "add" /\ call[t].slot = s /\ call[t].op = "link",
         Becomes(Iput(k, s))
  PROVE  Inv'
<1> DEFINE r == Goto(k, "put", s)
<1> DEFINE y == View(r)
<1>1. /\ Same(k, r) /\ r.inode = k.inode /\ r.wait = k.wait
      /\ GoesOn(k.call, r.call) /\ r.call.at = "put" /\ r.call.slot = s
      /\ r.call.empty = k.call.empty
  <2>1. "put" \in Place
    BY DEF Place, At
  <2> QED  BY <2>1, GotoIs
<1> HIDE DEF r
<1>2. /\ Differs(Cur, y, t, s) /\ Typed(y) /\ Ind(Cur, t) /\ SameDisk(Cur, y)
      /\ Cur.held[t] = held[t] /\ Cur.call[t] = call[t] /\ y.held[t] = r.held /\ y.call[t] = r.call
      /\ Cur.inode = inode /\ Cur.wait = i_wait /\ y.inode = r.inode /\ y.wait = r.wait
  <2>1. r \in Local /\ r.self = t /\ SameDisk(Now(t), r)
        /\ \A q \in Slot \ {s} : r.inode[q] = inode[q] /\ r.wait[q] = i_wait[q]
    BY <1>1 DEF Same, SameDisk
  <2> HIDE DEF y
  <2> QED  BY <2>1, Step DEF y
<1>3. Ind(y, t)
  <2>1. y.held[t] = NULL /\ y.inode = Cur.inode /\ y.wait = Cur.wait
        /\ y.call[t].at = "put" /\ y.call[t].slot = s /\ y.call[t].empty = Cur.call[t].empty
        /\ y.call[t].op = Cur.call[t].op /\ y.call[t].num = Cur.call[t].num
    BY <1>1, <1>2 DEF Same, GoesOn
  <2>2. \/ Cur.call[t].at = "user" /\ Cur.held[t] = s
        \/ Cur.call[t].at = "new" /\ Cur.call[t].slot = s
        \/ Cur.call[t].at = "add" /\ Cur.call[t].slot = s /\ Cur.call[t].op = "link"
    BY <1>2
  <2> HIDE DEF y
  <2> QED  BY ONLY <1>2, <2>1, <2>2, Puts, t \in Task, s \in Slot
<1>4. Kept(k, Iput(k, s))
  BY <1>3, Before, IputKeeps DEF r
<1>5. Kept(Now(t), Iput(k, s))
  BY <1>4, Before DEF Kept
<1> QED
  BY <1>5, After

(* sys_close().                                                             *)
LEMMA SysCloseKeeps ==
  ASSUME Inv, NEW t \in Task, SysClose(t)
  PROVE  Inv'
<1> DEFINE m == Now(t)
<1> DEFINE s == held[t]
<1> DEFINE k == [m EXCEPT !.held = NULL]
<1>1. call[t].at = "user" /\ s # NULL /\ Becomes(Iput(k, s))
  BY DEF SysClose, Runs
<1>2. m \in Local /\ m.self = t /\ m.call = call[t] /\ m.inode = inode /\ m.wait = i_wait
      /\ m.panic = FALSE
  BY Before
<1>3. s \in Slot
  BY <1>1, There
<1> HIDE DEF m
<1>4. k \in Local /\ k.self = m.self /\ k.panic = m.panic /\ k.held = NULL /\ SameDisk(m, k)
      /\ k.inode = m.inode /\ k.wait = m.wait /\ k.call = m.call
  BY <1>2, SetsHeld
<1> HIDE DEF k
<1> QED
  BY <1>1, <1>2, <1>3, <1>4, PutsKeeps DEF m

(* The second lookup of sys_link() (namei.c:665-671).                       *)
LEMMA LinkLookedKeeps ==
  ASSUME Inv, NEW t \in Task, LinkLooked(t)
  PROVE  Inv'
<1> DEFINE m == Now(t)
<1> DEFINE s == call[t].slot
<1>1. call[t].at = "new"
  BY DEF LinkLooked, Runs
<1>2. Rest /\ m \in Local /\ m.self = t /\ m.call = call[t] /\ m.inode = inode /\ m.wait = i_wait
      /\ m.panic = FALSE /\ m.held = held[t]
  BY Before
<1>3. s \in Slot /\ held[t] = NULL
  BY <1>1, There DEF Holding, Shape
<1> HIDE DEF m
<1>4. ASSUME Becomes(Iput(m, s)) PROVE Inv'
  <2>1. SameDisk(m, m)
    BY DEF SameDisk
  <2> HIDE DEF s
  <2>2. call[t].slot = s
    BY DEF s
  <2> QED  BY <1>1, <1>2, <1>3, <1>4, <2>1, <2>2, PutsKeeps DEF m
<1>5. ASSUME Becomes(Goto(m, "add", s)) PROVE Inv'
  <2> DEFINE r == Goto(m, "add", s)
  <2> DEFINE y == View(r)
  <2>1. /\ Same(m, r) /\ r.inode = m.inode /\ r.wait = m.wait
        /\ GoesOn(m.call, r.call) /\ r.call.at = "add" /\ r.call.slot = s
        /\ r.call.empty = m.call.empty
    <3>1. "add" \in Place
      BY DEF Place, At
    <3> HIDE DEF s
    <3> QED  BY <1>2, <1>3, <3>1, GotoIs
  <2> HIDE DEF r
  <2>2. /\ Differs(Cur, y, t, s) /\ Typed(y) /\ Ind(Cur, t) /\ SameDisk(Cur, y)
        /\ Cur.held[t] = held[t] /\ Cur.call[t] = call[t] /\ y.held[t] = r.held
        /\ y.call[t] = r.call
        /\ Cur.inode = inode /\ Cur.wait = i_wait /\ y.inode = r.inode /\ y.wait = r.wait
    <3>1. r \in Local /\ r.self = t /\ SameDisk(m, r)
          /\ \A q \in Slot \ {s} : r.inode[q] = inode[q] /\ r.wait[q] = i_wait[q]
      BY <1>2, <2>1 DEF Same
    <3> HIDE DEF s, y
    <3> QED  BY <1>3, <3>1, Step DEF m, y
  <2>3. Ind(y, t)
    <3>1. y.held[t] = Cur.held[t] /\ y.inode = Cur.inode /\ y.wait = Cur.wait
          /\ GoesOn(Cur.call[t], y.call[t]) /\ Cur.call[t].at = "new" /\ Cur.call[t].slot = s
          /\ y.call[t].at = "add" /\ y.call[t].slot = s /\ y.call[t].empty = Cur.call[t].empty
      BY <1>1, <1>2, <2>1, <2>2 DEF Same
    <3> HIDE DEF y, s
    <3> QED  BY ONLY <1>3, <2>2, <3>1, GoesToAdd, t \in Task
  <2>4. Kept(m, r)
    BY <1>2, <2>1, <2>3 DEF Kept, Same, At
  <2> QED  BY <1>5, <2>4, After DEF m, r
<1> QED
  BY <1>4, <1>5 DEF LinkLooked, m

(* A number of links, of an inode that is to be written.                    *)
LEMMA SetsLinks ==
  ASSUME NEW i \in InodeType, NEW n \in Nat
  PROVE  LET l == [[i EXCEPT !.nlinks = n] EXCEPT !.dirt = TRUE] IN
         l \in InodeType /\ IsInode(l, i.num, i.count, n, i.zone, TRUE, i.lock)
<1> DEFINE j == [i EXCEPT !.nlinks = n]
<1> DEFINE l == [j EXCEPT !.dirt = TRUE]
<1>1. j \in InodeType /\ IsInode(j, i.num, i.count, n, i.zone, i.dirt, i.lock)
  BY InodeFields
<1>2. l \in InodeType /\ IsInode(l, j.num, j.count, j.nlinks, j.zone, TRUE, j.lock)
  <2> HIDE DEF j
  <2> QED  BY <1>1, InodeFields
<1> QED
  BY <1>1, <1>2 DEF IsInode

(* read_inode() after bread() (inode.c:261-268).                            *)
LEMMA ReadInodeIs ==
  ASSUME NEW m \in Local, NEW s \in Slot, m.inode[s].num \in Num
  PROVE  LET r == ReadInode(m, s)
             i == m.inode[s]
             d == m.image[i.num]
         IN  /\ Same(m, r) /\ r.call = m.call /\ r.wait[s] = {}
             /\ IsInode(r.inode[s], i.num, i.count, d.nlinks, d.zone, i.dirt, FALSE)
             /\ \A q \in Slot \ {s} : r.inode[q] = m.inode[q] /\ r.wait[q] = m.wait[q]
<1> DEFINE i == m.inode[s]
<1> DEFINE d == m.image[i.num]
<1> DEFINE j == [i EXCEPT !.nlinks = d.nlinks]
<1> DEFINE k == [j EXCEPT !.zone = d.zone]
<1> DEFINE l == [k EXCEPT !.lock = FALSE]
<1> DEFINE w == {}
<1> DEFINE a == [m EXCEPT !.inode[s] = l]
<1> DEFINE r == [a EXCEPT !.wait[s] = w]
<1>1. i \in InodeType /\ d.nlinks \in Nat /\ d.zone \in Block \union {NULL}
  BY DEF Local, ImageType
<1>2. l \in InodeType /\ IsInode(l, i.num, i.count, d.nlinks, d.zone, i.dirt, FALSE)
  <2> HIDE DEF i, d
  <2> QED  BY <1>1 DEF InodeType, IsInode
<1>3. ReadInode(m, s) = r
  BY DEF ReadInode, Unlock
<1>4. /\ Same(m, a) /\ a.call = m.call /\ a.wait = m.wait
      /\ a.inode[s] = l /\ \A q \in Slot \ {s} : a.inode[q] = m.inode[q]
  <2> HIDE DEF l
  <2> QED  BY <1>2, SetsInode
<1>5. w \in SUBSET Task /\ a \in Local
  BY <1>4 DEF Same
<1>6. /\ Same(a, r) /\ r.call = a.call /\ r.inode = a.inode
      /\ r.wait[s] = w /\ \A q \in Slot \ {s} : r.wait[q] = a.wait[q]
  <2> HIDE DEF a, w
  <2> QED  BY <1>5, SetsWait
<1> QED
  <2> HIDE DEF r, a, l, i, d
  <2> QED  BY <1>2, <1>3, <1>4, <1>6 DEF Same, SameDisk, i, d

(* The end of a read in iget().                                             *)
LEMMA ReadDoneKeeps ==
  ASSUME Inv, NEW t \in Task, ReadDone(t)
  PROVE  Inv'
<1> DEFINE m == Now(t)
<1> DEFINE s == call[t].slot
<1> DEFINE a == ReadInode(m, s)
<1> DEFINE k == [a EXCEPT !.call.empty = NULL]
<1> DEFINE r == Goto(k, "got", s)
<1> DEFINE y == View(r)
<1>1. call[t].at = "read" /\ Becomes(Got(k, s))
  BY DEF ReadDone, Runs
<1>2. Rest /\ m \in Local /\ m.self = t /\ m.held = held[t] /\ m.panic = FALSE
      /\ m.call = call[t] /\ m.inode = inode /\ m.wait = i_wait /\ m.image = image
  BY Before
<1>3. s \in Slot /\ m.inode[s].num \in Num
  <2>1. s \in Slot /\ m.inode[s].num # 0
    BY <1>1, <1>2, There DEF Shape, Grip, Holding
  <2> QED  BY <1>2, <2>1 DEF Local, InodeType
<1> HIDE DEF m
<1>4. LET i == m.inode[s]
          d == m.image[i.num]
      IN  /\ Same(m, a) /\ a.call = m.call /\ a.wait[s] = {}
          /\ IsInode(a.inode[s], i.num, i.count, d.nlinks, d.zone, i.dirt, FALSE)
          /\ \A q \in Slot \ {s} : a.inode[q] = m.inode[q] /\ a.wait[q] = m.wait[q]
  <2> HIDE DEF s
  <2> QED  BY <1>2, <1>3, ReadInodeIs
<1> HIDE DEF a
<1>5. /\ Same(a, k) /\ k.inode = a.inode /\ k.wait = a.wait
      /\ GoesOn(a.call, k.call) /\ k.call.empty = NULL
  BY <1>4, EmptyIs DEF Same
<1> HIDE DEF k
<1>6. /\ Same(k, r) /\ r.inode = k.inode /\ r.wait = k.wait
      /\ GoesOn(k.call, r.call) /\ r.call.at = "got" /\ r.call.slot = s
      /\ r.call.empty = k.call.empty
  <2>1. "got" \in Place /\ k \in Local
    BY <1>5 DEF Place, Same
  <2> HIDE DEF s
  <2> QED  BY <1>3, <2>1, GotoIs
<1> HIDE DEF r
<1>7. Same(m, r) /\ Same(m, k)
  BY <1>4, <1>5, <1>6 DEF Same, SameDisk
<1>8. /\ Differs(Cur, y, t, s) /\ Typed(y) /\ Ind(Cur, t) /\ SameDisk(Cur, y)
      /\ Cur.held[t] = held[t] /\ Cur.call[t] = call[t] /\ y.held[t] = r.held
      /\ y.call[t] = r.call
      /\ Cur.inode = inode /\ Cur.image = image /\ y.inode = r.inode /\ y.wait = r.wait
  <2>1. r \in Local /\ r.self = t /\ SameDisk(m, r)
        /\ \A q \in Slot \ {s} : r.inode[q] = inode[q] /\ r.wait[q] = i_wait[q]
    BY <1>2, <1>4, <1>5, <1>6, <1>7, SMTT(60) DEF Same
  <2> HIDE DEF s, y
  <2> QED  BY <1>3, <2>1, Step DEF m, y
<1>9. Ind(y, t)
  <2>1. y.held[t] = Cur.held[t] /\ y.wait[s] = {}
        /\ GoesOn(Cur.call[t], y.call[t]) /\ Cur.call[t].at = "read" /\ Cur.call[t].slot = s
        /\ y.call[t].at = "got" /\ y.call[t].slot = s /\ y.call[t].empty = NULL
    <3>1. GoesOn(m.call, r.call) /\ r.call.at = "got" /\ r.call.slot = s /\ r.call.empty = NULL
      BY <1>4, <1>5, <1>6 DEF GoesOn
    <3>2. r.held = m.held /\ y.wait[s] = {}
      BY <1>4, <1>5, <1>6, <1>7, <1>8 DEF Same
    <3>3. Cur.call[t].at = "read" /\ Cur.call[t] = m.call
      BY <1>1, <1>2, <1>8
    <3> QED
      BY <1>2, <1>8, <3>1, <3>2, <3>3
  <2>2. LET i == Cur.inode[s]
            d == Cur.image[i.num]
        IN  IsInode(y.inode[s], i.num, i.count, d.nlinks, d.zone, i.dirt, FALSE)
    BY <1>2, <1>4, <1>5, <1>6, <1>8
  <2> HIDE DEF y, s
  <2> QED  BY ONLY <1>3, <1>8, <2>1, <2>2, EndsRead, t \in Task
<1>10. Kept(k, Got(k, s))
  <2>1. k \in Local /\ k.self = t
    BY <1>2, <1>7 DEF Same
  <2> HIDE DEF s
  <2> QED  BY <1>2, <1>3, <1>9, <2>1, GotKeeps DEF r, y
<1> QED
  BY <1>1, <1>7, <1>10, After DEF m, Kept, Same

(* LinkCounted, the end of sys_link() (namei.c:682-685).                    *)
LEMMA LinkCountedKeeps ==
  ASSUME Inv, NEW t \in Task, LinkCounted(t)
  PROVE  Inv'
<1> DEFINE m == Now(t)
<1> DEFINE s == call[t].slot
<1> DEFINE i == m.inode[s]
<1> DEFINE j == [i EXCEPT !.nlinks = i.nlinks + 1]
<1> DEFINE l == [j EXCEPT !.dirt = TRUE]
<1> DEFINE k == [m EXCEPT !.inode[s] = l]
<1> DEFINE r == Goto(k, "put", s)
<1> DEFINE y == View(r)
<1>1. call[t].at = "linked" /\ Becomes(Iput(k, s))
  <2>1. [m EXCEPT !.inode[s].nlinks = @ + 1, !.inode[s].dirt = TRUE] = k
    OBVIOUS
  <2> QED  BY <2>1 DEF LinkCounted, Runs
<1>2. Rest /\ m \in Local /\ m.self = t /\ m.held = held[t] /\ m.panic = FALSE
      /\ m.call = call[t] /\ m.inode = inode /\ m.wait = i_wait
  BY Before
<1>3. s \in Slot
  BY <1>1, There DEF Holding
<1>4. l \in InodeType /\ IsInode(l, i.num, i.count, i.nlinks + 1, i.zone, TRUE, i.lock)
  <2>1. i \in InodeType /\ i.nlinks + 1 \in Nat
    BY <1>2, <1>3 DEF Local, InodeType
  <2> HIDE DEF i
  <2> QED  BY <2>1, SetsLinks
<1>5. Same(m, k) /\ k.wait = m.wait /\ k.call = m.call
      /\ k.inode[s] = l /\ \A q \in Slot \ {s} : k.inode[q] = m.inode[q]
  <2> HIDE DEF l, m, s
  <2> QED  BY <1>2, <1>3, <1>4, SetsInode
<1> HIDE DEF k, l, m
<1>6. /\ Same(k, r) /\ r.inode = k.inode /\ r.wait = k.wait
      /\ GoesOn(k.call, r.call) /\ r.call.at = "put" /\ r.call.slot = s
      /\ r.call.empty = k.call.empty
  <2>1. "put" \in Place /\ k \in Local
    BY <1>5 DEF Place, At, Same
  <2> HIDE DEF s
  <2> QED  BY <1>3, <2>1, GotoIs
<1> HIDE DEF r
<1>7. Same(m, r)
  BY <1>5, <1>6 DEF Same, SameDisk
<1>8. /\ Differs(Cur, y, t, s) /\ Typed(y) /\ Ind(Cur, t) /\ SameDisk(Cur, y)
      /\ Cur.held[t] = held[t] /\ Cur.call[t] = call[t] /\ y.held[t] = r.held
      /\ y.call[t] = r.call /\ Cur.wait = i_wait
      /\ Cur.inode = inode /\ y.inode = r.inode /\ y.wait = r.wait
  <2>1. r \in Local /\ r.self = t /\ SameDisk(m, r)
        /\ \A q \in Slot \ {s} : r.inode[q] = inode[q] /\ r.wait[q] = i_wait[q]
    BY <1>2, <1>5, <1>6, <1>7 DEF Same
  <2> HIDE DEF s, y
  <2> QED  BY <1>3, <2>1, Step DEF m, y
<1>9. Ind(y, t)
  <2>1. y.held[t] = Cur.held[t] /\ y.wait[s] = Cur.wait[s]
        /\ GoesOn(Cur.call[t], y.call[t]) /\ Cur.call[t].at = "linked" /\ Cur.call[t].slot = s
        /\ y.call[t].at = "put" /\ y.call[t].slot = s /\ y.call[t].empty = Cur.call[t].empty
    BY <1>1, <1>2, <1>5, <1>6, <1>7, <1>8 DEF Same, GoesOn
  <2>2. LET o == Cur.inode[s] IN
        IsInode(y.inode[s], o.num, o.count, o.nlinks + 1, o.zone, TRUE, o.lock)
    BY <1>2, <1>4, <1>5, <1>6, <1>8
  <2>3. y.image = Cur.image /\ y.dir = Cur.dir /\ y.imap = Cur.imap /\ y.zmap = Cur.zmap
    BY <1>8 DEF SameDisk
  <2> HIDE DEF y, s
  <2> QED  BY ONLY <1>3, <1>8, <2>1, <2>2, <2>3, CountsLink, t \in Task
<1>10. Kept(k, Iput(k, s))
  <2>1. k \in Local /\ k.self = t
    BY <1>2, <1>5 DEF Same
  <2> HIDE DEF s
  <2> QED  BY <1>2, <1>3, <1>9, <2>1, IputKeeps DEF r, y
<1> QED
  BY <1>1, <1>5, <1>10, After DEF m, Kept, Same

(* open_namei() makes a file: new_inode() (bitmap.c:162-192,                *)
(* namei.c:339-355).                                                        *)
LEMMA CreateKeeps ==
  ASSUME Inv, NEW t \in Task, NEW x \in Name, Create(t, x)
  PROVE  Inv'
<1> DEFINE h == Now(t)
<1>1. call[t].at = "user" /\ held[t] = NULL
  BY DEF Create, Runs
<1>2. Rest /\ h \in Local /\ h.self = t /\ h.held = held[t] /\ h.panic = FALSE
      /\ h.call = call[t] /\ h.inode = inode /\ h.wait = i_wait /\ h.imap = imap
      /\ h.image = image /\ h.dir = dir /\ h.zmap = zmap
  BY Before
<1>3. call[t] \in CallType /\ call[t].empty = NULL
  BY <1>1, There DEF Shape
<1>4. PICK s \in Slot :
        /\ inode[s].count = 0
        /\ LET m == GetEmpty(h, s)
               n == Min(Num \ imap)
           IN  IF Num \subseteq imap
               THEN Becomes([m EXCEPT !.inode[s].count = 0])
               ELSE Becomes([Goto(m, "add", s) EXCEPT
                      !.imap = @ \union {n}, !.call.op = "creat", !.call.name = x,
                      !.call.num = n,
                      !.inode[s] = [Blank EXCEPT !.num = n, !.count = 1, !.nlinks = 1,
                                                 !.dirt = TRUE]])
  BY DEF Create, Empties
<1> DEFINE m == GetEmpty(h, s)
<1> HIDE DEF h
<1>5. /\ Same(h, m) /\ m.call = h.call /\ m.wait[s] = {}
      /\ IsInode(m.inode[s], 0, 1, 0, NULL, FALSE, FALSE)
      /\ \A q \in Slot \ {s} : m.inode[q] = h.inode[q] /\ m.wait[q] = h.wait[q]
  BY <1>2, GetEmptyIs
<1>6. CASE Num \subseteq imap
  <2> DEFINE r == [m EXCEPT !.inode[s].count = 0]
  <2> DEFINE y == View(r)
  <2>1. Becomes(r)
    BY <1>4, <1>6
  <2>2. LET i == m.inode[s] IN
        /\ Same(m, r) /\ r.wait = m.wait /\ r.call = m.call
        /\ IsInode(r.inode[s], i.num, 0, i.nlinks, i.zone, i.dirt, i.lock)
        /\ \A q \in Slot \ {s} : r.inode[q] = m.inode[q]
    <3> DEFINE n == 0
    <3>1. n \in Nat /\ m \in Local
      BY <1>5 DEF Same
    <3>2. LET i == m.inode[s]
              k == [m EXCEPT !.inode[s].count = n]
          IN  /\ Same(m, k) /\ k.wait = m.wait /\ k.call = m.call
              /\ IsInode(k.inode[s], i.num, n, i.nlinks, i.zone, i.dirt, i.lock)
              /\ \A q \in Slot \ {s} : k.inode[q] = m.inode[q]
      <4> HIDE DEF m, n
      <4> QED  BY <3>1, CountIs
    <3> QED  BY <3>2
  <2> HIDE DEF r, m
  <2>3. Same(h, r)
    BY <1>5, <2>2 DEF Same, SameDisk
  <2>4. /\ Differs(Cur, y, t, s) /\ Typed(y) /\ Ind(Cur, t) /\ SameDisk(Cur, y)
        /\ Cur.held[t] = held[t] /\ Cur.call[t] = call[t] /\ y.held[t] = r.held
        /\ y.call[t] = r.call /\ Cur.wait = i_wait
        /\ Cur.inode = inode /\ y.inode = r.inode /\ y.wait = r.wait
    <3>1. r \in Local /\ r.self = t /\ SameDisk(h, r)
          /\ \A q \in Slot \ {s} : r.inode[q] = inode[q] /\ r.wait[q] = i_wait[q]
      BY <1>2, <1>5, <2>2, <2>3 DEF Same
    <3> HIDE DEF y
    <3> QED  BY <3>1, Step DEF h, y
  <2>5. Ind(y, t)
    <3>1. /\ y.call[t] = Cur.call[t] /\ Cur.held[t] = NULL /\ y.held[t] = NULL
          /\ Cur.call[t].at = "user" /\ Cur.inode[s].count = 0 /\ y.wait[s] = {}
          /\ IsInode(y.inode[s], 0, 0, 0, NULL, FALSE, FALSE)
      BY <1>1, <1>2, <1>4, <1>5, <2>2, <2>3, <2>4 DEF Same, IsInode
    <3> HIDE DEF y
    <3> QED  BY ONLY <2>4, <3>1, FindsNone, t \in Task, s \in Slot
  <2>6. Kept(h, r)
    <3>1. r.call.at = "user"
      BY <1>1, <1>2, <1>5, <2>2
    <3> QED  BY <1>2, <2>3, <2>5, <3>1 DEF Kept, Same, At
  <2> QED  BY <2>1, <2>6, After DEF h
<1>7. CASE ~(Num \subseteq imap)
  <2> DEFINE n == Min(Num \ imap)
  <2> DEFINE l == [Blank EXCEPT !.num = n, !.count = 1, !.nlinks = 1, !.dirt = TRUE]
  <2> DEFINE g == Goto(m, "add", s)
  <2> DEFINE I == g.imap \union {n}
  <2> DEFINE a == [g EXCEPT !.imap = I]
  <2> DEFINE c == [g.call EXCEPT !.op = "creat", !.name = x, !.num = n]
  <2> DEFINE b == [a EXCEPT !.call = c]
  <2> DEFINE r == [b EXCEPT !.inode[s] = l]
  <2> DEFINE y == View(r)
  <2>1. n \in Num /\ n \notin imap
    <3> DEFINE S == Num \ imap
    <3>1. S \subseteq Nat /\ S # {}
      BY <1>7, InodeAssumption DEF Num
    <3>2. Min(S) \in S
      <4> HIDE DEF S
      <4> QED  BY <3>1, LeastIs
    <3> QED  BY <3>2
  <2>2. Becomes([g EXCEPT !.imap = @ \union {n}, !.call.op = "creat", !.call.name = x,
                          !.call.num = n, !.inode[s] = l])
    BY <1>4, <1>7
  <2> HIDE DEF n
  <2>3. l \in InodeType /\ IsInode(l, n, 1, 1, NULL, TRUE, FALSE)
    BY <2>1 DEF Blank, InodeType, IsInode
  <2> HIDE DEF l
  <2>4. /\ Same(m, g) /\ g.inode = m.inode /\ g.wait = m.wait
        /\ GoesOn(m.call, g.call) /\ g.call.at = "add" /\ g.call.slot = s
        /\ g.call.empty = m.call.empty
    <3>1. "add" \in Place /\ m \in Local
      BY <1>5 DEF Place, At, Same
    <3> HIDE DEF m
    <3> QED  BY <3>1, GotoIs
  <2> HIDE DEF g, m
  <2>5. [g EXCEPT !.imap = @ \union {n}, !.call.op = "creat", !.call.name = x,
                  !.call.num = n, !.inode[s] = l] = r
    OBVIOUS
  <2>6. g \in Local /\ g.call \in CallType /\ I \in SUBSET Num
    BY <2>1, <2>4 DEF Same, Local
  <2>7. /\ c \in CallType /\ c.op = "creat" /\ c.num = n /\ c.at = "add" /\ c.slot = s
        /\ c.empty = m.call.empty
    BY <2>1, <2>4, <2>6 DEF CallType
  <2>8. /\ a \in Local /\ a.self = g.self /\ a.panic = g.panic /\ a.held = g.held
        /\ a.inode = g.inode /\ a.wait = g.wait
        /\ a.image = g.image /\ a.dir = g.dir /\ a.zmap = g.zmap /\ a.imap = I
    <3> HIDE DEF I
    <3> QED  BY <2>6 DEF Local
  <2> HIDE DEF a, c, I
  <2>9. Same(a, b) /\ b.inode = a.inode /\ b.wait = a.wait /\ b.call = c
    BY <2>7, <2>8, SetsCall
  <2> HIDE DEF b
  <2>10. /\ Same(b, r) /\ r.wait = b.wait /\ r.call = b.call
         /\ r.inode[s] = l /\ \A q \in Slot \ {s} : r.inode[q] = b.inode[q]
    BY <2>3, <2>9, SetsInode DEF Same
  <2> HIDE DEF r
  <2>11. /\ r \in Local /\ r.self = t /\ r.panic = FALSE /\ r.held = NULL
         /\ r.image = image /\ r.dir = dir /\ r.zmap = zmap /\ r.imap = imap \union {n}
    BY <1>1, <1>2, <1>5, <2>4, <2>8, <2>9, <2>10 DEF Same, SameDisk, I
  <2>12. /\ r.call = c /\ r.inode[s] = l /\ r.wait[s] = {}
         /\ \A q \in Slot \ {s} : r.inode[q] = inode[q] /\ r.wait[q] = i_wait[q]
    BY <1>2, <1>5, <2>4, <2>8, <2>9, <2>10
  <2>13. /\ Differs(Cur, y, t, s) /\ Typed(y) /\ Ind(Cur, t)
         /\ Cur.held[t] = held[t] /\ Cur.call[t] = call[t] /\ y.held[t] = r.held
         /\ y.call[t] = r.call /\ Cur.imap = imap
         /\ Cur.inode = inode /\ y.inode = r.inode /\ y.wait = r.wait
         /\ y.image = Cur.image /\ y.dir = Cur.dir /\ y.zmap = Cur.zmap /\ y.imap = r.imap
    <3> HIDE DEF y
    <3> QED  BY <2>11, <2>12, Step DEF y
  <2>14. Ind(y, t)
    <3>1. inode[s].count = 0
      BY <1>4
    <3> HIDE DEF y
    <3>2. /\ n \notin Cur.imap /\ y.imap = Cur.imap \union {n} /\ y.wait[s] = {}
          /\ Cur.call[t].at = "user" /\ Cur.held[t] = NULL /\ y.held[t] = NULL
          /\ Cur.inode[s].count = 0 /\ IsInode(y.inode[s], n, 1, 1, NULL, TRUE, FALSE)
      BY ONLY <1>1, <2>1, <2>3, <2>11, <2>12, <2>13, <3>1
    <3>3. /\ y.call[t].at = "add" /\ y.call[t].slot = s /\ y.call[t].empty = NULL
          /\ y.call[t].op = "creat" /\ y.call[t].num = n
      BY ONLY <1>2, <1>3, <1>5, <2>7, <2>12, <2>13
    <3> QED  BY ONLY <2>1, <2>13, <3>2, <3>3, Creates, t \in Task, s \in Slot, ZenonT(60)
  <2>15. Kept(h, r)
    BY <1>2, <2>7, <2>11, <2>12, <2>14 DEF Kept, At
  <2> QED  BY <2>2, <2>5, <2>15, After DEF h
<1> QED
  BY <1>6, <1>7

(* add_entry() (namei.c:144-199).                                           *)
LEMMA AddEntryIs ==
  ASSUME NEW m \in Local, FreeEntries(m) # {}, NEW x \in Name \union {NULL},
         NEW n \in {0} \union Num
  PROVE  LET r == AddEntry(m, x, n)
             e == Min(FreeEntries(m))
         IN  /\ r \in Local /\ r.self = m.self /\ r.panic = m.panic /\ r.held = m.held
             /\ r.inode = m.inode /\ r.wait = m.wait /\ r.call = m.call
             /\ r.imap = m.imap /\ r.zmap = m.zmap /\ r.image = m.image
             /\ r.dir[e].num = n /\ OtherEntries(m, r, e)
             /\ e \in Entry /\ m.dir[e].num = 0
<1> DEFINE S == FreeEntries(m)
<1> DEFINE e == Min(S)
<1> DEFINE i == [name |-> x, num |-> n]
<1>1. e \in S
  <2>1. S \subseteq Nat /\ S # {}
    BY InodeAssumption DEF FreeEntries, Entry
  <2> HIDE DEF S
  <2> QED  BY <2>1, LeastIs
<1>2. e \in Entry /\ m.dir[e].num = 0
  BY <1>1 DEF FreeEntries
<1>3. i \in EntryType /\ i.num = n
  BY DEF EntryType
<1>4. LET r == [m EXCEPT !.dir[e] = i] IN
      /\ r \in Local /\ r.self = m.self /\ r.panic = m.panic /\ r.held = m.held
      /\ r.inode = m.inode /\ r.wait = m.wait /\ r.call = m.call
      /\ r.imap = m.imap /\ r.zmap = m.zmap /\ r.image = m.image
      /\ r.dir[e] = i /\ OtherEntries(m, r, e)
  <2> HIDE DEF i, e
  <2> QED  BY <1>2, <1>3, SetsDir
<1> QED
  BY <1>2, <1>3, <1>4 DEF AddEntry

(* A new name is there, or does not fit (namei.c:356-368, 672-681).         *)
LEMMA AddDoneKeeps ==
  ASSUME Inv, NEW t \in Task, AddDone(t)
  PROVE  Inv'
<1> DEFINE m == Now(t)
<1> DEFINE s == call[t].slot
<1> DEFINE n == inode[s].num
<1> DEFINE c == AddEntry(m, call[t].name, n)
<1> DEFINE e == Min(FreeEntries(m))
<1>1. call[t].at = "add"
  BY DEF AddDone, Runs
<1>2. Rest /\ m \in Local /\ m.self = t /\ m.held = held[t] /\ m.panic = FALSE
      /\ m.call = call[t] /\ m.inode = inode /\ m.wait = i_wait /\ m.imap = imap
      /\ m.image = image /\ m.dir = dir /\ m.zmap = zmap
  BY Before
<1>3. s \in Slot /\ held[t] = NULL /\ call[t].op \in {"creat", "link"} /\ call[t] \in CallType
  BY <1>1, There DEF Holding, Shape
<1>4. n \in {0} \union Num /\ call[t].name \in Name \union {NULL}
  BY <1>2, <1>3 DEF Local, CallType, InodeType
<1> HIDE DEF m
<1>5. FreeEntries(m) # {} =>
        /\ c \in Local /\ c.self = m.self /\ c.panic = m.panic /\ c.held = m.held
        /\ c.inode = m.inode /\ c.wait = m.wait /\ c.call = m.call
        /\ c.imap = m.imap /\ c.zmap = m.zmap /\ c.image = m.image
        /\ c.dir[e].num = n /\ OtherEntries(m, c, e)
        /\ e \in Entry /\ m.dir[e].num = 0
  <2> HIDE DEF n
  <2> QED  BY <1>2, <1>4, AddEntryIs
<1> HIDE DEF c, e
\* sys_link goes on with iput(dir)
<1>6. CASE FreeEntries(m) # {} /\ call[t].op = "link"
  <2> DEFINE r == Goto(c, "linked", s)
  <2> DEFINE y == View(r)
  <2>1. Becomes(r)
    BY <1>6 DEF AddDone, m, c
  <2>2. /\ Same(c, r) /\ r.inode = c.inode /\ r.wait = c.wait
        /\ GoesOn(c.call, r.call) /\ r.call.at = "linked" /\ r.call.slot = s
        /\ r.call.empty = c.call.empty
    <3>1. "linked" \in Place
      BY DEF Place, At
    <3> HIDE DEF s
    <3> QED  BY <1>3, <1>5, <1>6, <3>1, GotoIs
  <2> HIDE DEF r
  <2>3. /\ r \in Local /\ r.self = t /\ r.panic = FALSE /\ r.held = NULL
        /\ r.inode = inode /\ r.wait = i_wait /\ r.image = image /\ r.imap = imap
        /\ r.zmap = zmap /\ r.dir[e].num = n /\ OtherEntries(m, r, e) /\ e \in Entry
        /\ dir[e].num = 0
    BY <1>2, <1>3, <1>5, <1>6, <2>2 DEF Same, SameDisk, OtherEntries
  <2>4. /\ Differs(Cur, y, t, s) /\ Typed(y) /\ Ind(Cur, t)
        /\ Cur.held[t] = held[t] /\ Cur.call[t] = call[t] /\ y.held[t] = r.held
        /\ y.call[t] = r.call /\ Cur.inode = inode /\ Cur.wait = i_wait /\ Cur.dir = dir
        /\ y.inode = r.inode /\ y.wait = r.wait /\ y.dir = r.dir
        /\ y.image = Cur.image /\ y.imap = Cur.imap /\ y.zmap = Cur.zmap
    <3> HIDE DEF s, y
    <3> QED  BY <1>3, <2>3, Step DEF y
  <2>5. Ind(y, t)
    <3>1. /\ y.wait[s] = Cur.wait[s] /\ Cur.dir[e].num = 0 /\ y.dir[e].num = Cur.inode[s].num
          /\ OtherEntries(Cur, y, e) /\ y.inode[s] = Cur.inode[s]
          /\ Cur.call[t].at = "add" /\ Cur.call[t].slot = s /\ Cur.call[t].op = "link"
      BY <1>1, <1>2, <1>6, <2>3, <2>4 DEF OtherEntries
    <3>2. /\ GoesOn(Cur.call[t], y.call[t]) /\ y.held[t] = Cur.held[t]
          /\ y.call[t].at = "linked" /\ y.call[t].slot = s /\ y.call[t].empty = Cur.call[t].empty
      BY <1>2, <1>3, <1>5, <1>6, <2>2, <2>3, <2>4 DEF GoesOn
    <3> HIDE DEF y, s
    <3> QED  BY ONLY <1>3, <2>3, <2>4, <3>1, <3>2, AddsName, t \in Task
  <2>6. Kept(m, r)
    BY <1>2, <2>2, <2>3, <2>5 DEF Kept, At
  <2> QED  BY <2>1, <2>6, After DEF m
\* open_namei() returns
<1>7. CASE FreeEntries(m) # {} /\ call[t].op = "creat"
  <2> DEFINE k == [c EXCEPT !.held = s]
  <2> DEFINE r == Done(k)
  <2> DEFINE y == View(r)
  <2>1. Becomes(r)
    BY <1>7 DEF AddDone, m, c
  <2>2. /\ k \in Local /\ k.self = c.self /\ k.panic = c.panic /\ k.held = s /\ SameDisk(c, k)
        /\ k.inode = c.inode /\ k.wait = c.wait /\ k.call = c.call
    <3> HIDE DEF s
    <3> QED  BY <1>3, <1>5, <1>7, SetsHeld
  <2> HIDE DEF k
  <2>3. /\ Same(k, r) /\ r.inode = k.inode /\ r.wait = k.wait
        /\ Over(r.call) /\ r.call.at = "user"
    BY <2>2, DoneIs
  <2> HIDE DEF r
  <2>4. /\ r \in Local /\ r.self = t /\ r.panic = FALSE /\ r.held = s
        /\ r.inode = inode /\ r.wait = i_wait /\ r.image = image /\ r.imap = imap
        /\ r.zmap = zmap /\ r.dir[e].num = n /\ OtherEntries(m, r, e) /\ e \in Entry
        /\ dir[e].num = 0
    BY <1>2, <1>5, <1>7, <2>2, <2>3 DEF Same, SameDisk, OtherEntries
  <2>5. /\ Differs(Cur, y, t, s) /\ Typed(y) /\ Ind(Cur, t)
        /\ Cur.held[t] = held[t] /\ Cur.call[t] = call[t] /\ y.held[t] = r.held
        /\ y.call[t] = r.call /\ Cur.inode = inode /\ Cur.wait = i_wait /\ Cur.dir = dir
        /\ y.inode = r.inode /\ y.wait = r.wait /\ y.dir = r.dir
        /\ y.image = Cur.image /\ y.imap = Cur.imap /\ y.zmap = Cur.zmap
    <3> HIDE DEF s, y
    <3> QED  BY <1>3, <2>4, Step DEF y
  <2>6. Ind(y, t)
    <3>1. /\ y.wait[s] = Cur.wait[s] /\ Cur.dir[e].num = 0 /\ y.dir[e].num = Cur.inode[s].num
          /\ OtherEntries(Cur, y, e) /\ y.inode[s] = Cur.inode[s]
          /\ Cur.call[t].at = "add" /\ Cur.call[t].slot = s /\ Cur.call[t].op = "creat"
          /\ Over(y.call[t]) /\ y.held[t] = s
      BY <1>1, <1>2, <1>7, <2>3, <2>4, <2>5 DEF OtherEntries
    <3> HIDE DEF y, s
    <3> QED  BY ONLY <1>3, <2>4, <2>5, <3>1, AddsFile, t \in Task
  <2>7. Kept(m, r)
    BY <1>2, <2>3, <2>4, <2>6 DEF Kept, At
  <2> QED  BY <2>1, <2>7, After DEF m
\* sys_link returns
<1>8. CASE FreeEntries(m) = {} /\ call[t].op = "link"
  <2>1. Becomes(Iput(m, s))
    BY <1>8 DEF AddDone, m
  <2>2. SameDisk(m, m)
    BY DEF SameDisk
  <2> HIDE DEF s
  <2>3. call[t].slot = s
    BY DEF s
  <2> QED  BY <1>1, <1>2, <1>3, <1>8, <2>1, <2>2, <2>3, PutsKeeps DEF m
\* open_namei() gives the new inode up
<1>9. CASE FreeEntries(m) = {} /\ call[t].op = "creat"
  <2> DEFINE i == m.inode[s]
  <2> DEFINE l == [i EXCEPT !.nlinks = i.nlinks - 1]
  <2> DEFINE k == [m EXCEPT !.inode[s] = l]
  <2> DEFINE r == Goto(k, "put", s)
  <2> DEFINE y == View(r)
  <2>1. Becomes(Iput(k, s))
    <3>1. [m EXCEPT !.inode[s].nlinks = @ - 1] = k
      OBVIOUS
    <3>2. Becomes(Iput([m EXCEPT !.inode[s].nlinks = @ - 1], s))
      BY <1>9 DEF AddDone, m
    <3> QED  BY <3>1, <3>2
  <2>2. i.nlinks = 1 /\ i \in InodeType
    <3>1. Ind(Cur, t) /\ Cur.call[t] = call[t] /\ Cur.inode = inode
      BY Before, There
    <3>2. Cur.inode[s].nlinks = 1
      <4> HIDE DEF s
      <4>1. call[t].slot = s
        BY DEF s
      <4> QED  BY <1>1, <1>3, <1>9, <3>1, <4>1, NewHasOneLink
    <3> QED  BY <1>2, <1>3, <3>1, <3>2 DEF Local
  <2>3. l \in InodeType /\ IsInode(l, i.num, i.count, i.nlinks - 1, i.zone, i.dirt, i.lock)
    <3> DEFINE q == i.nlinks - 1
    <3>1. q \in Nat
      BY <2>2
    <3>2. LET j == [i EXCEPT !.nlinks = q] IN
          j \in InodeType /\ IsInode(j, i.num, i.count, q, i.zone, i.dirt, i.lock)
      <4> HIDE DEF i, q
      <4> QED  BY <2>2, <3>1, InodeFields
    <3> QED  BY <3>2
  <2>4. Same(m, k) /\ k.wait = m.wait /\ k.call = m.call
        /\ k.inode[s] = l /\ \A q \in Slot \ {s} : k.inode[q] = m.inode[q]
    <3> HIDE DEF l, s
    <3> QED  BY <1>2, <1>3, <2>3, SetsInode
  <2> HIDE DEF k, l
  <2>5. /\ Same(k, r) /\ r.inode = k.inode /\ r.wait = k.wait
        /\ GoesOn(k.call, r.call) /\ r.call.at = "put" /\ r.call.slot = s
        /\ r.call.empty = k.call.empty
    <3>1. "put" \in Place /\ k \in Local
      BY <2>4 DEF Place, At, Same
    <3> HIDE DEF s
    <3> QED  BY <1>3, <3>1, GotoIs
  <2> HIDE DEF r
  <2>6. Same(m, r)
    BY <2>4, <2>5 DEF Same, SameDisk
  <2>7. /\ Differs(Cur, y, t, s) /\ Typed(y) /\ Ind(Cur, t) /\ SameDisk(Cur, y)
        /\ Cur.held[t] = held[t] /\ Cur.call[t] = call[t] /\ y.held[t] = r.held
        /\ y.call[t] = r.call /\ Cur.wait = i_wait
        /\ Cur.inode = inode /\ y.inode = r.inode /\ y.wait = r.wait
    <3>1. r \in Local /\ r.self = t /\ SameDisk(m, r)
          /\ \A q \in Slot \ {s} : r.inode[q] = inode[q] /\ r.wait[q] = i_wait[q]
      BY <1>2, <2>4, <2>5, <2>6 DEF Same
    <3> HIDE DEF s, y
    <3> QED  BY <1>3, <3>1, Step DEF m, y
  <2>8. Ind(y, t)
    <3>1. y.held[t] = Cur.held[t] /\ y.wait[s] = Cur.wait[s]
          /\ GoesOn(Cur.call[t], y.call[t]) /\ Cur.call[t].at = "add" /\ Cur.call[t].slot = s
          /\ y.call[t].at = "put" /\ y.call[t].slot = s /\ y.call[t].empty = Cur.call[t].empty
          /\ Cur.call[t].op = "creat"
      BY <1>1, <1>2, <1>9, <2>4, <2>5, <2>6, <2>7 DEF Same, GoesOn
    <3>2. LET o == Cur.inode[s] IN
          IsInode(y.inode[s], o.num, o.count, o.nlinks - 1, o.zone, o.dirt, o.lock)
      BY <1>2, <2>3, <2>4, <2>5, <2>7
    <3>3. y.image = Cur.image /\ y.dir = Cur.dir /\ y.imap = Cur.imap /\ y.zmap = Cur.zmap
      BY <2>7 DEF SameDisk
    <3> HIDE DEF y, s
    <3> QED  BY ONLY <1>3, <2>7, <3>1, <3>2, <3>3, AddsNothing, t \in Task
  <2>9. Kept(k, Iput(k, s))
    <3>1. k \in Local /\ k.self = t
      BY <1>2, <2>4 DEF Same
    <3> HIDE DEF s
    <3> QED  BY <1>2, <1>3, <2>8, <3>1, IputKeeps DEF r, y
  <2> QED  BY <2>1, <2>4, <2>9, After DEF m, Kept, Same
<1> QED
  BY <1>3, <1>6, <1>7, <1>8, <1>9

(* truncate() of a zone that is in use (truncate.c:41-58, bitmap.c:73-99).  *)
LEMMA TruncateIs ==
  ASSUME NEW m \in Local, NEW s \in Slot, NEW z \in Block \union {NULL},
         z # NULL => z \in m.zmap
  PROVE  LET r == Truncate(m, s, z)
             i == m.inode[s]
         IN  /\ r \in Local /\ r.self = m.self /\ r.panic = m.panic /\ r.held = m.held
             /\ r.wait = m.wait /\ r.call = m.call /\ r.image = m.image /\ r.dir = m.dir
             /\ r.imap = m.imap /\ r.zmap = m.zmap \ {z}
             /\ z = NULL => IsInode(r.inode[s], i.num, i.count, i.nlinks, i.zone, TRUE, i.lock)
             /\ z # NULL => IsInode(r.inode[s], i.num, i.count, i.nlinks, NULL, TRUE, i.lock)
             /\ \A q \in Slot \ {s} : r.inode[q] = m.inode[q]
<1> DEFINE i == m.inode[s]
<1> DEFINE o == IF z = NULL THEN i.zone ELSE NULL
<1> DEFINE j == [i EXCEPT !.zone = o]
<1> DEFINE l == [j EXCEPT !.dirt = TRUE]
<1> DEFINE Z == m.zmap \ {z}
<1> DEFINE a == [m EXCEPT !.zmap = Z]
<1> DEFINE r == [a EXCEPT !.inode[s] = l]
<1>1. i \in InodeType /\ o \in Block \union {NULL} /\ Z \in SUBSET Block
  BY DEF Local, InodeType
<1>2. j \in InodeType /\ IsInode(j, i.num, i.count, i.nlinks, o, i.dirt, i.lock)
  <2> HIDE DEF i, o
  <2> QED  BY <1>1, InodeFields
<1>3. l \in InodeType /\ IsInode(l, i.num, i.count, i.nlinks, o, TRUE, i.lock)
  <2> HIDE DEF i, o, j
  <2>1. l \in InodeType /\ IsInode(l, j.num, j.count, j.nlinks, j.zone, TRUE, j.lock)
    BY <1>2, InodeFields
  <2> QED  BY <1>2, <2>1 DEF IsInode
<1>4. /\ a \in Local /\ a.self = m.self /\ a.panic = m.panic /\ a.held = m.held
      /\ a.inode = m.inode /\ a.wait = m.wait /\ a.call = m.call
      /\ a.image = m.image /\ a.dir = m.dir /\ a.imap = m.imap /\ a.zmap = Z
  <2> HIDE DEF Z
  <2> QED  BY <1>1 DEF Local
<1>5. /\ Same(a, r) /\ r.wait = a.wait /\ r.call = a.call
      /\ r.inode[s] = l /\ \A q \in Slot \ {s} : r.inode[q] = a.inode[q]
  <2> HIDE DEF a, l
  <2> QED  BY <1>3, <1>4, SetsInode
<1>6. Truncate(m, s, z) = r
  <2>1. CASE z = NULL
    <3>1. j = i
      BY <1>1, <2>1 DEF InodeType
    <3>2. Z = m.zmap
      BY <2>1, InodeAssumption DEF Local
    <3>3. a = m
      <4> HIDE DEF Z
      <4> QED  BY <3>2 DEF Local
    <3>4. Truncate(m, s, z) = [m EXCEPT !.inode[s].dirt = TRUE]
      BY <2>1 DEF Truncate
    <3>5. [m EXCEPT !.inode[s].dirt = TRUE] = [m EXCEPT !.inode[s] = [i EXCEPT !.dirt = TRUE]]
      OBVIOUS
    <3> HIDE DEF a, j, i
    <3> QED  BY <3>1, <3>3, <3>4, <3>5
  <2>2. CASE z # NULL
    <3>1. Truncate(m, s, z)
            = [m EXCEPT !.zmap = @ \ {z}, !.inode[s].zone = NULL, !.inode[s].dirt = TRUE]
      BY <2>2 DEF Truncate
    <3>2. o = NULL
      BY <2>2
    <3>3. [m EXCEPT !.zmap = @ \ {z}, !.inode[s].zone = NULL, !.inode[s].dirt = TRUE]
            = [a EXCEPT !.inode[s] = [[i EXCEPT !.zone = NULL] EXCEPT !.dirt = TRUE]]
      OBVIOUS
    <3> HIDE DEF a, o, i
    <3> QED  BY <3>1, <3>2, <3>3
  <2> QED  BY <2>1, <2>2
<1> QED
  <2> HIDE DEF r, a, l, j, o, i, Z
  <2> QED  BY <1>3, <1>4, <1>5, <1>6 DEF Same, SameDisk, o, i, Z

(* The zone of a call that is about to free it.                             *)
LEMMA ZoneInUse ==
  ASSUME Inv, NEW t \in Task, call[t].at \in {"free", "cut"}
  PROVE  /\ call[t].slot \in Slot /\ call[t].zone \in Block \union {NULL}
         /\ call[t].zone # NULL => call[t].zone \in zmap
         /\ call[t].at = "free" =>
              LET i == inode[call[t].slot] IN
              i.num \in imap /\ i.count = 1 /\ i.nlinks = 0 /\ i.num # 0
<1>1. call[t].slot \in Slot /\ call[t].zone \in Block \union {NULL}
  BY There DEF Holding, CallType
<1>2. Ind(Cur, t) /\ Cur.call[t] = call[t] /\ Cur.inode = inode /\ Cur.zmap = zmap
      /\ Cur.imap = imap
  BY Before, There
<1> DEFINE s == call[t].slot
<1>3. s \in Slot /\ Cur.call[t].slot = s /\ Cur.call[t].at \in {"free", "cut"}
  BY <1>1, <1>2
<1>4. /\ Cur.call[t].zone # NULL => Cur.call[t].zone \in Cur.zmap
      /\ Cur.call[t].at = "free" =>
           /\ Cur.inode[s].num \in Cur.imap /\ Cur.inode[s].count = 1 /\ Cur.inode[s].nlinks = 0
           /\ Cur.inode[s].num # 0
  <2> HIDE DEF s
  <2> QED  BY ONLY <1>2, <1>3, FreesInUse, t \in Task
<1> QED
  BY <1>1, <1>2, <1>4

(* O_TRUNC (namei.c:384-386).                                               *)
LEMMA CutDoneKeeps ==
  ASSUME Inv, NEW t \in Task, CutDone(t)
  PROVE  Inv'
<1> DEFINE m == Now(t)
<1> DEFINE s == call[t].slot
<1> DEFINE z == call[t].zone
<1> DEFINE a == Truncate(m, s, z)
<1> DEFINE d == Done([a EXCEPT !.held = s])
<1> DEFINE k == [a EXCEPT !.held = s]
<1> DEFINE y == View(d)
<1>1. call[t].at = "cut" /\ Becomes(d)
  BY DEF CutDone, Runs
<1>2. m \in Local /\ m.self = t /\ m.held = held[t] /\ m.panic = FALSE
      /\ m.call = call[t] /\ m.inode = inode /\ m.wait = i_wait /\ m.imap = imap
      /\ m.image = image /\ m.dir = dir /\ m.zmap = zmap
  BY Before
<1>3. s \in Slot /\ z \in Block \union {NULL} /\ (z # NULL => z \in zmap)
  BY <1>1, ZoneInUse
<1> HIDE DEF m
<1>4. LET i == m.inode[s] IN
      /\ a \in Local /\ a.self = m.self /\ a.panic = m.panic /\ a.held = m.held
      /\ a.wait = m.wait /\ a.call = m.call /\ a.image = m.image /\ a.dir = m.dir
      /\ a.imap = m.imap /\ a.zmap = m.zmap \ {z}
      /\ z = NULL => IsInode(a.inode[s], i.num, i.count, i.nlinks, i.zone, TRUE, i.lock)
      /\ z # NULL => IsInode(a.inode[s], i.num, i.count, i.nlinks, NULL, TRUE, i.lock)
      /\ \A q \in Slot \ {s} : a.inode[q] = m.inode[q]
  <2> HIDE DEF s, z
  <2> QED  BY <1>2, <1>3, TruncateIs, ZenonT(60)
<1> HIDE DEF a
<1>5. /\ k \in Local /\ k.self = a.self /\ k.panic = a.panic /\ k.held = s /\ SameDisk(a, k)
      /\ k.inode = a.inode /\ k.wait = a.wait
  <2> HIDE DEF s
  <2> QED  BY <1>3, <1>4, SetsHeld
<1>6. d = Done(k)
  OBVIOUS
<1> HIDE DEF k, d
<1>7. Same(k, d) /\ d.inode = k.inode /\ d.wait = k.wait /\ Over(d.call) /\ d.call.at = "user"
  BY <1>5, <1>6, DoneIs
<1>8. /\ d \in Local /\ d.self = t /\ d.panic = FALSE /\ d.held = s
      /\ d.inode = a.inode /\ d.wait = i_wait /\ d.image = image /\ d.imap = imap
      /\ d.zmap = zmap \ {z} /\ d.dir = dir
  BY <1>2, <1>4, <1>5, <1>7 DEF Same, SameDisk
<1>9. \A q \in Slot \ {s} : d.inode[q] = inode[q] /\ d.wait[q] = i_wait[q]
  BY <1>2, <1>4, <1>8
<1>10. /\ Differs(Cur, y, t, s) /\ Typed(y) /\ Ind(Cur, t)
       /\ Cur.call[t] = call[t] /\ y.held[t] = s
       /\ y.call[t] = d.call /\ Cur.inode = inode /\ Cur.wait = i_wait
       /\ y.inode = a.inode /\ y.wait = Cur.wait /\ y.dir = Cur.dir
       /\ y.image = Cur.image /\ y.imap = Cur.imap /\ y.zmap = Cur.zmap \ {z} /\ Cur.zmap = zmap
  <2> HIDE DEF s, y, z
  <2> QED  BY <1>3, <1>8, <1>9, Step DEF y
<1>11. /\ Cur.call[t].at = "cut" /\ Cur.call[t].slot = s /\ Over(y.call[t])
       /\ Cur.call[t].zone = z /\ y.wait[s] = Cur.wait[s]
       /\ LET i == Cur.inode[s] IN
          /\ z = NULL => IsInode(y.inode[s], i.num, i.count, i.nlinks, i.zone, TRUE, i.lock)
          /\ z # NULL => IsInode(y.inode[s], i.num, i.count, i.nlinks, NULL, TRUE, i.lock)
  BY <1>1, <1>2, <1>4, <1>7, <1>10
<1>12. Ind(y, t)
  <2> HIDE DEF y, s, z
  <2>1. CASE z = NULL
    <3>1. y.zmap = Cur.zmap
      <4>1. zmap \subseteq Block
        BY DEF Inv, TypeOK
      <4> QED  BY <1>10, <2>1, <4>1, InodeAssumption
    <3> QED  BY ONLY <1>3, <1>10, <1>11, <2>1, <3>1, CutsNothing, t \in Task
  <2>2. CASE z # NULL
    BY ONLY <1>3, <1>10, <1>11, <2>2, CutsZone, t \in Task
  <2> QED  BY <2>1, <2>2
<1>13. Kept(m, d)
  BY <1>2, <1>7, <1>8, <1>12 DEF Kept, At
<1> QED
  BY <1>1, <1>13, After DEF m

(* The end of iput() of a file without a name (inode.c:149-153).            *)
LEMMA FreeDoneKeeps ==
  ASSUME Inv, NEW t \in Task, FreeDone(t)
  PROVE  Inv'
<1> DEFINE m == Now(t)
<1> DEFINE s == call[t].slot
<1> DEFINE z == call[t].zone
<1> DEFINE a == Truncate(m, s, z)
<1> DEFINE n == inode[s].num
<1> DEFINE I == imap \ {n}
<1> DEFINE b == [a EXCEPT !.imap = I]
<1> DEFINE c == [b EXCEPT !.inode[s] = Blank]
<1> DEFINE w == {}
<1> DEFINE e == [c EXCEPT !.wait[s] = w]
<1> DEFINE d == Done(e)
<1> DEFINE y == View(d)
<1>1. call[t].at = "free" /\ Becomes(IF a.panic THEN a ELSE FreeInode(a, s))
  BY DEF FreeDone, Runs
<1>2. Rest /\ m \in Local /\ m.self = t /\ m.held = held[t] /\ m.panic = FALSE
      /\ m.call = call[t] /\ m.inode = inode /\ m.wait = i_wait /\ m.imap = imap
      /\ m.image = image /\ m.dir = dir /\ m.zmap = zmap
  BY Before
<1>3. /\ s \in Slot /\ z \in Block \union {NULL} /\ (z # NULL => z \in zmap)
      /\ n \in imap /\ inode[s].count = 1 /\ inode[s].nlinks = 0 /\ n # 0
  BY <1>1, ZoneInUse
<1> HIDE DEF m
<1>4. LET i == m.inode[s] IN
      /\ a \in Local /\ a.self = m.self /\ a.panic = m.panic /\ a.held = m.held
      /\ a.wait = m.wait /\ a.call = m.call /\ a.image = m.image /\ a.dir = m.dir
      /\ a.imap = m.imap /\ a.zmap = m.zmap \ {z}
      /\ z = NULL => IsInode(a.inode[s], i.num, i.count, i.nlinks, i.zone, TRUE, i.lock)
      /\ z # NULL => IsInode(a.inode[s], i.num, i.count, i.nlinks, NULL, TRUE, i.lock)
      /\ \A q \in Slot \ {s} : a.inode[q] = m.inode[q]
  <2> HIDE DEF s, z
  <2> QED  BY <1>2, <1>3, TruncateIs, ZenonT(60)
<1> HIDE DEF a
<1>5. a.inode[s].num = n /\ a.inode[s].count = 1 /\ a.inode[s].nlinks = 0 /\ a.imap = imap
  BY <1>2, <1>3, <1>4 DEF IsInode
<1>6. FreeInode(a, s) = d
  <2>1. FreeInode(a, s) = Done([a EXCEPT !.imap = @ \ {n}, !.inode[s] = Blank, !.wait[s] = {}])
    <3> HIDE DEF s, n
    <3> QED  BY <1>3, <1>5 DEF FreeInode
  <2>2. [a EXCEPT !.imap = @ \ {n}, !.inode[s] = Blank, !.wait[s] = {}]
          = [[[a EXCEPT !.imap = a.imap \ {n}] EXCEPT !.inode[s] = Blank] EXCEPT !.wait[s] = {}]
    OBVIOUS
  <2> HIDE DEF s, n
  <2> QED  BY <1>5, <2>1, <2>2
<1>7. Becomes(d)
  BY <1>1, <1>2, <1>4, <1>6
<1>8. /\ b \in Local /\ b.self = a.self /\ b.panic = a.panic /\ b.held = a.held
      /\ b.inode = a.inode /\ b.wait = a.wait
      /\ b.image = a.image /\ b.dir = a.dir /\ b.zmap = a.zmap /\ b.imap = I
  <2>1. I \in SUBSET Num
    BY <1>2 DEF Local
  <2> HIDE DEF I
  <2> QED  BY <1>4, <2>1 DEF Local
<1> HIDE DEF b
<1>9. Blank \in InodeType /\ IsInode(Blank, 0, 0, 0, NULL, FALSE, FALSE)
  BY DEF Blank, InodeType, IsInode
<1>10. /\ Same(b, c) /\ c.wait = b.wait
       /\ c.inode[s] = Blank /\ \A q \in Slot \ {s} : c.inode[q] = b.inode[q]
  <2> HIDE DEF s
  <2> QED  BY <1>3, <1>8, <1>9, SetsInode
<1> HIDE DEF c
<1>11. /\ Same(c, e) /\ e.inode = c.inode
       /\ e.wait[s] = w /\ \A q \in Slot \ {s} : e.wait[q] = c.wait[q]
  <2>1. w \in SUBSET Task /\ c \in Local
    BY <1>10 DEF Same
  <2> HIDE DEF s, w
  <2> QED  BY <1>3, <2>1, SetsWait
<1> HIDE DEF e
<1>12. Same(e, d) /\ d.inode = e.inode /\ d.wait = e.wait /\ Over(d.call) /\ d.call.at = "user"
  BY <1>11, DoneIs DEF Same
<1> HIDE DEF d
<1>13. held[t] = NULL
  BY <1>1, There DEF Shape
<1>14. /\ d \in Local /\ d.self = t /\ d.panic = FALSE /\ d.held = NULL
       /\ d.image = image /\ d.imap = imap \ {n} /\ d.zmap = zmap \ {z} /\ d.dir = dir
       /\ IsInode(d.inode[s], 0, 0, 0, NULL, FALSE, FALSE) /\ d.wait[s] = {}
  <2>1. /\ d \in Local /\ d.self = t /\ d.panic = FALSE /\ d.held = NULL
        /\ d.image = image /\ d.imap = imap \ {n} /\ d.zmap = zmap \ {z} /\ d.dir = dir
    <3> HIDE DEF n, z
    <3> QED  BY ONLY <1>2, <1>4, <1>5, <1>8, <1>10, <1>11, <1>12, <1>13 DEF Same, SameDisk, I
  <2> QED  BY <1>9, <1>10, <1>11, <1>12, <2>1
<1>15. \A q \in Slot \ {s} : d.inode[q] = inode[q] /\ d.wait[q] = i_wait[q]
  BY <1>2, <1>4, <1>8, <1>10, <1>11, <1>12
<1>16. /\ Differs(Cur, y, t, s) /\ Typed(y) /\ Ind(Cur, t)
       /\ Cur.call[t] = call[t] /\ y.held[t] = NULL
       /\ y.call[t] = d.call /\ Cur.inode = inode
       /\ y.inode = d.inode /\ y.wait = d.wait /\ y.dir = Cur.dir
       /\ y.image = Cur.image /\ y.imap = Cur.imap \ {n} /\ y.zmap = Cur.zmap \ {z}
  <2> HIDE DEF s, y, z, n
  <2> QED  BY <1>3, <1>14, <1>15, Step DEF y
<1>17. Ind(y, t)
  <2>1. /\ Cur.call[t].at = "free" /\ Cur.call[t].slot = s /\ Over(y.call[t])
        /\ Cur.call[t].zone = z /\ y.wait[s] = {} /\ Cur.inode[s].num = n
        /\ IsInode(y.inode[s], 0, 0, 0, NULL, FALSE, FALSE)
    BY <1>1, <1>12, <1>14, <1>16
  <2> HIDE DEF y, s, z, n
  <2> QED  BY ONLY <1>3, <1>16, <2>1, Frees, t \in Task
<1>18. Kept(m, d)
  BY <1>2, <1>12, <1>14, <1>17 DEF Kept, At
<1> QED
  BY <1>7, <1>18, After DEF m

(* file_write() sets a bit for a block (file_dev.c:59, bitmap.c:101-122).   *)
LEMMA SysWriteKeeps ==
  ASSUME Inv, Orderly, NEW t \in Task, SysWrite(t)
  PROVE  Inv'
<1> DEFINE m == Now(t)
<1> DEFINE s == held[t]
<1> DEFINE g == Goto(m, "block", s)
<1>1. /\ call[t].at = "user" /\ s # NULL /\ inode[s].zone = NULL
      /\ \A u \in Task : call[u].at = "block" => call[u].slot # s
  BY DEF SysWrite, Runs
<1>2. PICK b \in Block : b \notin zmap
                         /\ Becomes([g EXCEPT !.zmap = @ \union {b}, !.call.zone = b])
  BY DEF SysWrite
<1>3. /\ m \in Local /\ m.self = t /\ m.held = held[t] /\ m.panic = FALSE
      /\ m.call = call[t] /\ m.inode = inode /\ m.wait = i_wait /\ m.imap = imap
      /\ m.image = image /\ m.dir = dir /\ m.zmap = zmap
  BY Before
<1>4. s \in Slot
  BY <1>1, There
<1> HIDE DEF m
<1>5. /\ Same(m, g) /\ g.inode = m.inode /\ g.wait = m.wait
      /\ GoesOn(m.call, g.call) /\ g.call.at = "block" /\ g.call.slot = s
      /\ g.call.empty = m.call.empty
  <2>1. "block" \in Place
    BY DEF Place, At
  <2> HIDE DEF s
  <2> QED  BY <1>3, <1>4, <2>1, GotoIs
<1> HIDE DEF g
<1> DEFINE d == [g.call EXCEPT !.zone = b]
<1> DEFINE a == [g EXCEPT !.zmap = g.zmap \union {b}]
<1> DEFINE r == [a EXCEPT !.call = d]
<1> DEFINE y == View(r)
<1>6. [g EXCEPT !.zmap = @ \union {b}, !.call.zone = b] = r
  OBVIOUS
<1>7. /\ a \in Local /\ a.self = g.self /\ a.panic = g.panic /\ a.held = g.held
      /\ a.inode = g.inode /\ a.wait = g.wait
      /\ a.image = g.image /\ a.dir = g.dir /\ a.imap = g.imap /\ a.zmap = g.zmap \union {b}
  <2> DEFINE Z == g.zmap \union {b}
  <2>1. g \in Local /\ Z \in SUBSET Block
    BY <1>5 DEF Same, Local
  <2> HIDE DEF Z
  <2> QED  BY <2>1 DEF Local, Z
<1>8. /\ d \in CallType /\ GoesOn(g.call, d) /\ d.at = "block" /\ d.slot = s
      /\ d.empty = g.call.empty /\ d.zone = b
  <2>1. g.call \in CallType
    BY <1>5 DEF Same, Local
  <2> QED  BY <1>5, <2>1, CallFields
<1> HIDE DEF a, d
<1>9. Same(a, r) /\ r.inode = a.inode /\ r.wait = a.wait /\ r.call = d
  BY <1>7, <1>8, SetsCall
<1> HIDE DEF r
<1>10. /\ r \in Local /\ r.self = t /\ r.panic = FALSE /\ r.held = s
       /\ r.inode = inode /\ r.wait = i_wait /\ r.image = image /\ r.imap = imap
       /\ r.zmap = zmap \union {b} /\ r.dir = dir
  BY <1>3, <1>5, <1>7, <1>9 DEF Same, SameDisk
<1>11. /\ Differs(Cur, y, t, s) /\ Typed(y) /\ Ind(Cur, t)
       /\ Cur.call[t] = call[t] /\ Cur.held[t] = s /\ y.held[t] = s
       /\ y.call[t] = r.call /\ Cur.inode = inode /\ y.inode = Cur.inode
       /\ y.wait = Cur.wait /\ y.dir = Cur.dir /\ y.image = Cur.image /\ y.imap = Cur.imap
       /\ y.zmap = Cur.zmap \union {b} /\ b \notin Cur.zmap /\ Cur.call = call
  <2>1. held[t] = s
    OBVIOUS
  <2> HIDE DEF s, y
  <2> QED  BY <1>2, <1>4, <1>10, <2>1, Step, There DEF y
<1>12. Ind(y, t)
  <2>1. /\ Cur.call[t].at = "user" /\ Cur.inode[s].zone = NULL
        /\ \A u \in Task : Cur.call[u].at = "block" => Cur.call[u].slot # s
        /\ y.call[t].at = "block" /\ y.call[t].slot = s /\ y.call[t].zone = b
        /\ y.call[t].op = Cur.call[t].op /\ y.call[t].empty = Cur.call[t].empty
    BY <1>1, <1>3, <1>5, <1>8, <1>9, <1>11 DEF GoesOn
  <2> HIDE DEF y, s
  <2> QED  BY ONLY <1>4, <1>11, <2>1, MarksBlock, t \in Task, b \in Block
<1>13. Kept(m, r)
  BY <1>3, <1>8, <1>9, <1>10, <1>12 DEF Kept, At
<1> QED
  BY <1>2, <1>6, <1>13, After DEF m

(* The zone gets its block (inode.c:59-63).                                 *)
LEMMA BlockDoneKeeps ==
  ASSUME Inv, NEW t \in Task, BlockDone(t)
  PROVE  Inv'
<1> DEFINE m == Now(t)
<1> DEFINE s == call[t].slot
<1> DEFINE z == call[t].zone
<1> DEFINE i == m.inode[s]
<1> DEFINE j == [i EXCEPT !.zone = z]
<1> DEFINE l == [j EXCEPT !.dirt = TRUE]
<1> DEFINE k == [m EXCEPT !.inode[s] = l]
<1> DEFINE r == Done(k)
<1> DEFINE y == View(r)
<1>1. call[t].at = "block" /\ Becomes(r)
  <2>1. [m EXCEPT !.inode[s].zone = z, !.inode[s].dirt = TRUE] = k
    OBVIOUS
  <2>2. Becomes(Done([m EXCEPT !.inode[s].zone = z, !.inode[s].dirt = TRUE])) /\ call[t].at = "block"
    BY DEF BlockDone, Runs
  <2> HIDE DEF m, s, z, k
  <2> QED  BY <2>1, <2>2
<1>2. /\ m \in Local /\ m.self = t /\ m.held = held[t] /\ m.panic = FALSE
      /\ m.call = call[t] /\ m.inode = inode /\ m.wait = i_wait
  BY Before
<1>3. s \in Slot /\ z \in Block \union {NULL} /\ held[t] = s
  BY <1>1, There DEF Shape, CallType
<1> HIDE DEF m
<1>4. j \in InodeType /\ IsInode(j, i.num, i.count, i.nlinks, z, i.dirt, i.lock)
  <2>1. i \in InodeType
    BY <1>2, <1>3 DEF Local
  <2> HIDE DEF i, z
  <2> QED  BY <1>3, <2>1, InodeFields
<1>5. l \in InodeType /\ IsInode(l, i.num, i.count, i.nlinks, z, TRUE, i.lock)
  <2> HIDE DEF i, z, j
  <2>1. l \in InodeType /\ IsInode(l, j.num, j.count, j.nlinks, j.zone, TRUE, j.lock)
    BY <1>4, InodeFields
  <2> QED  BY <1>4, <2>1 DEF IsInode
<1>6. Same(m, k) /\ k.wait = m.wait
      /\ k.inode[s] = l /\ \A q \in Slot \ {s} : k.inode[q] = m.inode[q]
  <2> HIDE DEF s, l
  <2> QED  BY <1>2, <1>3, <1>5, SetsInode
<1> HIDE DEF k, l, j
<1>7. Same(k, r) /\ r.inode = k.inode /\ r.wait = k.wait /\ Over(r.call) /\ r.call.at = "user"
  BY <1>6, DoneIs DEF Same
<1> HIDE DEF r
<1>8. Same(m, r)
  BY <1>6, <1>7 DEF Same, SameDisk
<1>9. /\ Differs(Cur, y, t, s) /\ Typed(y) /\ Ind(Cur, t) /\ SameDisk(Cur, y)
      /\ Cur.held[t] = held[t] /\ Cur.call[t] = call[t] /\ y.held[t] = r.held
      /\ y.call[t] = r.call /\ Cur.wait = i_wait
      /\ Cur.inode = inode /\ y.inode = r.inode /\ y.wait = r.wait
  <2>1. r \in Local /\ r.self = t /\ SameDisk(m, r)
        /\ \A q \in Slot \ {s} : r.inode[q] = inode[q] /\ r.wait[q] = i_wait[q]
    BY <1>2, <1>6, <1>7, <1>8 DEF Same
  <2> HIDE DEF s, y
  <2> QED  BY <1>3, <2>1, Step DEF m, y
<1>10. Ind(y, t)
  <2>1. y.held[t] = s /\ y.wait[s] = Cur.wait[s] /\ Over(y.call[t])
        /\ Cur.call[t].at = "block" /\ Cur.call[t].slot = s
    BY <1>1, <1>2, <1>3, <1>6, <1>7, <1>8, <1>9 DEF Same
  <2>2. LET o == Cur.inode[s] IN
        IsInode(y.inode[s], o.num, o.count, o.nlinks, Cur.call[t].zone, TRUE, o.lock)
    BY <1>2, <1>5, <1>6, <1>7, <1>9
  <2>3. y.image = Cur.image /\ y.dir = Cur.dir /\ y.imap = Cur.imap /\ y.zmap = Cur.zmap
    BY <1>9 DEF SameDisk
  <2> HIDE DEF y, s
  <2> QED  BY ONLY <1>3, <1>9, <2>1, <2>2, <2>3, GetsZone, t \in Task
<1>11. Kept(m, r)
  BY <1>2, <1>7, <1>8, <1>10 DEF Kept, Same, At
<1> QED
  BY <1>1, <1>11, After DEF m

(* write_inode() of an inode that has a number (inode.c:270-289).           *)
LEMMA WriteInodeIs ==
  ASSUME NEW m \in Local, NEW s \in Slot, m.inode[s].num \in Num
  PROVE  LET r == WriteInode(m, s)
             i == m.inode[s]
         IN  /\ r \in Local /\ r.self = m.self /\ r.panic = m.panic /\ r.held = m.held
             /\ r.call = m.call /\ Wrote(m, r, s) /\ r.wait[s] = {}
             /\ IsInode(r.inode[s], i.num, i.count, i.nlinks, i.zone, FALSE, FALSE)
             /\ \A q \in Slot \ {s} : r.inode[q] = m.inode[q] /\ r.wait[q] = m.wait[q]
<1> DEFINE i == m.inode[s]
<1> DEFINE n == i.num
<1> DEFINE d == [nlinks |-> i.nlinks, zone |-> i.zone]
<1> DEFINE j == [i EXCEPT !.dirt = FALSE]
<1> DEFINE l == [j EXCEPT !.lock = FALSE]
<1> DEFINE w == {}
<1> DEFINE a == [m EXCEPT !.image[n] = d]
<1> DEFINE c == [a EXCEPT !.inode[s] = j]
<1> DEFINE b == [c EXCEPT !.inode[s] = l]
<1> DEFINE r == [b EXCEPT !.wait[s] = w]
<1>1. i \in InodeType /\ n \in Num /\ n # 0
  BY DEF Local, Num
<1>2. d \in ImageType /\ d.nlinks = i.nlinks /\ d.zone = i.zone
  BY <1>1 DEF InodeType, ImageType
<1>3. j \in InodeType /\ IsInode(j, i.num, i.count, i.nlinks, i.zone, FALSE, i.lock)
  <2> HIDE DEF i
  <2> QED  BY <1>1, InodeFields
<1>4. l \in InodeType /\ IsInode(l, i.num, i.count, i.nlinks, i.zone, FALSE, FALSE)
  <2> HIDE DEF i, j
  <2>1. l \in InodeType /\ IsInode(l, j.num, j.count, j.nlinks, j.zone, j.dirt, FALSE)
    BY <1>3, InodeFields
  <2> QED  BY <1>3, <2>1 DEF IsInode
<1>5. /\ a \in Local /\ a.self = m.self /\ a.panic = m.panic /\ a.held = m.held
      /\ a.inode = m.inode /\ a.wait = m.wait /\ a.call = m.call
      /\ a.imap = m.imap /\ a.zmap = m.zmap /\ a.dir = m.dir
      /\ a.image[n] = d /\ \A k \in Num \ {n} : a.image[k] = m.image[k]
  <2> HIDE DEF n, d
  <2> QED  BY <1>1, <1>2, SetsImage
<1>6. WriteInode(m, s) = Unlock(c, s)
  <2>1. WriteInode(m, s) = Unlock([m EXCEPT !.image[n] = d, !.inode[s].dirt = FALSE], s)
    <3> HIDE DEF n
    <3> QED  BY <1>1 DEF WriteInode, n
  <2>2. [m EXCEPT !.image[n] = d, !.inode[s].dirt = FALSE] = c
    <3> HIDE DEF n, d
    <3> QED  OBVIOUS
  <2> HIDE DEF c, d, n
  <2> QED  BY <2>1, <2>2
<1> HIDE DEF a
<1>7. /\ Same(a, c) /\ c.wait = a.wait /\ c.call = a.call
      /\ c.inode[s] = j /\ \A q \in Slot \ {s} : c.inode[q] = a.inode[q]
  <2> HIDE DEF j
  <2> QED  BY <1>3, <1>5, SetsInode
<1> HIDE DEF c
<1>8. /\ Same(c, b) /\ b.wait = c.wait /\ b.call = c.call
      /\ b.inode[s] = l /\ \A q \in Slot \ {s} : b.inode[q] = c.inode[q]
  <2>1. c \in Local
    BY <1>7 DEF Same
  <2> HIDE DEF l
  <2> QED  BY <1>4, <2>1, SetsInode
<1>9. Unlock(c, s) = r
  <2>1. c.inode[s] = j
    BY <1>7
  <2> HIDE DEF j
  <2> QED  BY <2>1 DEF Unlock
<1> HIDE DEF b
<1>10. /\ Same(b, r) /\ r.inode = b.inode /\ r.call = b.call
       /\ r.wait[s] = w /\ \A q \in Slot \ {s} : r.wait[q] = b.wait[q]
  <2>1. w \in SUBSET Task /\ b \in Local
    BY <1>8 DEF Same
  <2> HIDE DEF w
  <2> QED  BY <2>1, SetsWait
<1> HIDE DEF r
<1>11. Wrote(m, r, s)
  <2>1. r.image = a.image /\ r.dir = m.dir /\ r.imap = m.imap /\ r.zmap = m.zmap
    BY <1>5, <1>7, <1>8, <1>10 DEF Same, SameDisk
  <2> HIDE DEF d
  <2> QED  BY <1>2, <1>5, <2>1 DEF Wrote
<1>12. IsInode(r.inode[s], i.num, i.count, i.nlinks, i.zone, FALSE, FALSE)
  <2> HIDE DEF i, l
  <2> QED  BY <1>4, <1>8, <1>10
<1>13. /\ r \in Local /\ r.self = m.self /\ r.panic = m.panic /\ r.held = m.held
       /\ r.call = m.call /\ r.wait[s] = {}
  BY <1>5, <1>7, <1>8, <1>10 DEF Same
<1>14. \A q \in Slot \ {s} : r.inode[q] = m.inode[q] /\ r.wait[q] = m.wait[q]
  BY <1>5, <1>7, <1>8, <1>10
<1>15. WriteInode(m, s) = r
  BY <1>6, <1>9
<1> QED
  <2> HIDE DEF i
  <2> QED  BY <1>11, <1>12, <1>13, <1>14, <1>15 DEF i

(* The inode a task has written.                                            *)
LEMMA HasNumber ==
  ASSUME Inv, NEW t \in Task, call[t].at \in {"write", "wsync"}
  PROVE  call[t].slot \in Slot /\ inode[call[t].slot].num \in Num
<1>1. call[t].slot \in Slot /\ inode[call[t].slot].num # 0
  BY There DEF Grip, Holding
<1>2. inode[call[t].slot] \in InodeType
  BY <1>1 DEF Inv, TypeOK, InodeType
<1> QED
  BY <1>1, <1>2 DEF InodeType

(* iput() has written the inode, and does so again (inode.c:154-157).       *)
LEMMA WriteDoneKeeps ==
  ASSUME Inv, NEW t \in Task, WriteDone(t)
  PROVE  Inv'
<1> DEFINE m == Now(t)
<1> DEFINE s == call[t].slot
<1> DEFINE k == WriteInode(m, s)
<1> DEFINE r == Goto(k, "last", s)
<1> DEFINE y == View(r)
<1>1. call[t].at = "write" /\ Becomes(PutLast(k, s))
  BY DEF WriteDone, Runs
<1>2. /\ Rest /\ m \in Local /\ m.self = t /\ m.held = held[t] /\ m.panic = FALSE
      /\ m.call = call[t] /\ m.inode = inode /\ m.wait = i_wait /\ m.image = image
      /\ m.imap = imap /\ m.zmap = zmap /\ m.dir = dir
  BY Before
<1>3. s \in Slot /\ m.inode[s].num \in Num
  BY <1>1, <1>2, HasNumber
<1> HIDE DEF m
<1>4. LET i == m.inode[s] IN
      /\ k \in Local /\ k.self = m.self /\ k.panic = m.panic /\ k.held = m.held
      /\ k.call = m.call /\ Wrote(m, k, s) /\ k.wait[s] = {}
      /\ IsInode(k.inode[s], i.num, i.count, i.nlinks, i.zone, FALSE, FALSE)
      /\ \A q \in Slot \ {s} : k.inode[q] = m.inode[q] /\ k.wait[q] = m.wait[q]
  <2> HIDE DEF s
  <2> QED  BY <1>2, <1>3, WriteInodeIs
<1> HIDE DEF k
<1>5. /\ Same(k, r) /\ r.inode = k.inode /\ r.wait = k.wait
      /\ GoesOn(k.call, r.call) /\ r.call.at = "last" /\ r.call.slot = s
      /\ r.call.empty = k.call.empty
  <2>1. "last" \in Place
    BY DEF Place
  <2> HIDE DEF s
  <2> QED  BY <1>3, <1>4, <2>1, GotoIs
<1> HIDE DEF r
<1>6. /\ Differs(Cur, y, t, s) /\ Typed(y) /\ Ind(Cur, t)
      /\ Cur.held[t] = held[t] /\ Cur.call[t] = call[t] /\ y.held[t] = r.held
      /\ y.call[t] = r.call /\ Cur.inode = inode /\ y.inode = r.inode /\ y.wait = r.wait
      /\ Cur.dir = dir /\ Cur.imap = imap /\ Cur.zmap = zmap /\ Cur.image = image
      /\ y.dir = r.dir /\ y.imap = r.imap /\ y.zmap = r.zmap /\ y.image = r.image
  <2>1. r \in Local /\ r.self = t
        /\ \A q \in Slot \ {s} : r.inode[q] = inode[q] /\ r.wait[q] = i_wait[q]
    BY <1>2, <1>4, <1>5 DEF Same
  <2> HIDE DEF s, y
  <2> QED  BY <1>3, <2>1, Step DEF y
<1>7. Ind(y, t)
  <2>1. y.held[t] = Cur.held[t] /\ y.wait[s] = {}
        /\ GoesOn(Cur.call[t], y.call[t]) /\ Cur.call[t].at = "write" /\ Cur.call[t].slot = s
        /\ y.call[t].at = "last" /\ y.call[t].slot = s /\ y.call[t].empty = Cur.call[t].empty
    BY <1>1, <1>2, <1>4, <1>5, <1>6 DEF Same, GoesOn
  <2>2. LET o == Cur.inode[s] IN
        IsInode(y.inode[s], o.num, o.count, o.nlinks, o.zone, FALSE, FALSE)
    BY <1>2, <1>4, <1>5, <1>6
  <2>3. Wrote(Cur, y, s)
    <3> HIDE DEF s, y
    <3> QED  BY <1>2, <1>4, <1>5, <1>6 DEF Wrote, Same, SameDisk
  <2> HIDE DEF y, s
  <2> QED  BY ONLY <1>3, <1>6, <2>1, <2>2, <2>3, EndsWrite, t \in Task
<1>8. Kept(k, PutLast(k, s))
  <2>1. k.self = t
    BY <1>2, <1>4
  <2> HIDE DEF s
  <2> QED  BY <1>2, <1>3, <1>4, <1>7, <2>1, PutLastKeeps DEF r, y
<1> QED
  BY <1>1, <1>4, <1>8, After DEF m, Kept

(* sync_inodes() has written an inode (inode.c:44-45, 282-289).             *)
LEMMA SyncWrittenKeeps ==
  ASSUME Inv, NEW t \in Task, SyncWritten(t)
  PROVE  Inv'
<1> DEFINE m == Now(t)
<1> DEFINE s == call[t].slot
<1> DEFINE k == WriteInode(m, s)
<1> DEFINE r == Goto(k, "sync", NULL)
<1> DEFINE y == View(r)
<1>1. call[t].at = "wsync" /\ Becomes(r)
  BY DEF SyncWritten, Runs
<1>2. /\ Rest /\ m \in Local /\ m.self = t /\ m.held = held[t] /\ m.panic = FALSE
      /\ m.call = call[t] /\ m.inode = inode /\ m.wait = i_wait /\ m.image = image
      /\ m.imap = imap /\ m.zmap = zmap /\ m.dir = dir
  BY Before
<1>3. s \in Slot /\ m.inode[s].num \in Num
  BY <1>1, <1>2, HasNumber
<1> HIDE DEF m
<1>4. LET i == m.inode[s] IN
      /\ k \in Local /\ k.self = m.self /\ k.panic = m.panic /\ k.held = m.held
      /\ k.call = m.call /\ Wrote(m, k, s) /\ k.wait[s] = {}
      /\ IsInode(k.inode[s], i.num, i.count, i.nlinks, i.zone, FALSE, FALSE)
      /\ \A q \in Slot \ {s} : k.inode[q] = m.inode[q] /\ k.wait[q] = m.wait[q]
  <2> HIDE DEF s
  <2> QED  BY <1>2, <1>3, WriteInodeIs
<1> HIDE DEF k
<1>5. /\ Same(k, r) /\ r.inode = k.inode /\ r.wait = k.wait
      /\ GoesOn(k.call, r.call) /\ r.call.at = "sync" /\ r.call.empty = k.call.empty
  <2>1. "sync" \in Place
    BY DEF Place, At
  <2> QED  BY <1>4, <2>1, GotoIs
<1> HIDE DEF r
<1>6. /\ Differs(Cur, y, t, s) /\ Typed(y) /\ Ind(Cur, t)
      /\ Cur.held[t] = held[t] /\ Cur.call[t] = call[t] /\ y.held[t] = r.held
      /\ y.call[t] = r.call /\ Cur.inode = inode /\ y.inode = r.inode /\ y.wait = r.wait
      /\ Cur.dir = dir /\ Cur.imap = imap /\ Cur.zmap = zmap /\ Cur.image = image
      /\ y.dir = r.dir /\ y.imap = r.imap /\ y.zmap = r.zmap /\ y.image = r.image
  <2>1. r \in Local /\ r.self = t
        /\ \A q \in Slot \ {s} : r.inode[q] = inode[q] /\ r.wait[q] = i_wait[q]
    BY <1>2, <1>4, <1>5 DEF Same
  <2> HIDE DEF s, y
  <2> QED  BY <1>3, <2>1, Step DEF y
<1>7. Ind(y, t)
  <2>1. y.held[t] = Cur.held[t] /\ y.wait[s] = {}
        /\ GoesOn(Cur.call[t], y.call[t]) /\ Cur.call[t].at = "wsync" /\ Cur.call[t].slot = s
        /\ y.call[t].at = "sync" /\ y.call[t].empty = Cur.call[t].empty
    BY <1>1, <1>2, <1>4, <1>5, <1>6 DEF Same, GoesOn
  <2>2. LET o == Cur.inode[s] IN
        IsInode(y.inode[s], o.num, o.count, o.nlinks, o.zone, FALSE, FALSE)
    BY <1>2, <1>4, <1>5, <1>6
  <2>3. Wrote(Cur, y, s)
    <3> HIDE DEF s, y
    <3> QED  BY <1>2, <1>4, <1>5, <1>6 DEF Wrote, Same, SameDisk
  <2> HIDE DEF y, s
  <2> QED  BY ONLY <1>3, <1>6, <2>1, <2>2, <2>3, EndsSync, t \in Task
<1>8. Kept(m, r)
  BY <1>2, <1>4, <1>5, <1>7 DEF Kept, Same, At
<1> QED
  BY <1>1, <1>8, After DEF m

(* sync_inodes() begins, passes an inode that is clean, and returns         *)
(* (inode.c:36-47).                                                         *)
LEMMA SyncMoves ==
  ASSUME Inv, NEW t \in Task, held[t] = NULL, NEW d \in CallType,
         \/ call[t].at \in {"user", "sync"} /\ d.at = "sync" /\ d.op = "sync" /\ d.empty = NULL
         \/ call[t].at = "sync" /\ Over(d),
         Becomes([Now(t) EXCEPT !.call = d])
  PROVE  Inv'
<1> DEFINE m == Now(t)
<1> DEFINE r == [m EXCEPT !.call = d]
<1> DEFINE y == View(r)
<1>1. m \in Local /\ m.self = t /\ m.held = held[t] /\ m.inode = inode /\ m.wait = i_wait
  BY Before
<1>2. Becomes(r)
  OBVIOUS
<1> HIDE DEF m
<1>3. Same(m, r) /\ r.inode = m.inode /\ r.wait = m.wait /\ r.call = d
  BY <1>1, SetsCall
<1> HIDE DEF r
<1>4. PICK s \in Slot : TRUE
  BY SomeSlot
<1>5. /\ Differs(Cur, y, t, s) /\ Typed(y) /\ Ind(Cur, t) /\ SameDisk(Cur, y)
      /\ Cur.held[t] = held[t] /\ Cur.call[t] = call[t] /\ y.held[t] = r.held
      /\ y.call[t] = r.call /\ Cur.wait = i_wait
      /\ Cur.inode = inode /\ y.inode = r.inode /\ y.wait = r.wait
  <2>1. r \in Local /\ r.self = t /\ SameDisk(m, r)
        /\ \A q \in Slot \ {s} : r.inode[q] = inode[q] /\ r.wait[q] = i_wait[q]
    BY <1>1, <1>3 DEF Same
  <2> HIDE DEF y
  <2> QED  BY <1>4, <2>1, Step DEF m, y
<1>6. Ind(y, t)
  <2>1. /\ y.inode = Cur.inode /\ y.wait = Cur.wait /\ y.held[t] = Cur.held[t]
        /\ Cur.held[t] = NULL
        /\ \/ /\ Cur.call[t].at \in {"user", "sync"} /\ y.call[t].at = "sync"
              /\ y.call[t].op = "sync" /\ y.call[t].empty = NULL
           \/ Cur.call[t].at = "sync" /\ Over(y.call[t])
    BY <1>1, <1>3, <1>5 DEF Same
  <2> HIDE DEF y
  <2> QED  BY ONLY <1>4, <1>5, <2>1, Syncs, t \in Task
<1>7. Kept(m, r)
  BY <1>1, <1>3, <1>6 DEF Kept, Same, At, Over
<1> QED
  BY <1>2, <1>7, After DEF m

(* sync_inodes() begins (inode.c:36-42).                                    *)
LEMMA SysSyncKeeps ==
  ASSUME Inv, NEW t \in Task, SysSync(t)
  PROVE  Inv'
<1> DEFINE d == [User EXCEPT !.at = "sync", !.op = "sync", !.todo = Slot]
<1>1. call[t].at = "user" /\ held[t] = NULL
  BY DEF SysSync, Runs
<1>2. call[t] \in CallType
  BY There
<1>3. User \in CallType /\ Over(User)
  BY <1>2, CallFields
<1>4. d \in CallType /\ d.at = "sync" /\ d.op = "sync" /\ d.empty = NULL
  <2>1. "sync" \in Place
    BY DEF Place, At
  <2>2. User.empty = NULL
    BY DEF User
  <2> QED  BY <1>3, <2>1, <2>2 DEF CallType
<1>5. Becomes([Now(t) EXCEPT !.call = d])
  <2>1. /\ call' = [call EXCEPT ![t] = d] /\ held' = held /\ panic' = panic /\ inode' = inode
        /\ i_wait' = i_wait /\ image' = image /\ imap' = imap /\ zmap' = zmap /\ dir' = dir
    BY DEF SysSync
  <2>2. [held EXCEPT ![t] = held[t]] = held
    BY Before DEF Rest
  <2> HIDE DEF d
  <2> QED  BY <2>1, <2>2 DEF Becomes, Now
<1> QED
  <2> HIDE DEF d
  <2> QED  BY <1>1, <1>4, <1>5, SyncMoves

(* sync_inodes() returns (inode.c:46-47).                                   *)
LEMMA SyncDoneKeeps ==
  ASSUME Inv, NEW t \in Task, SyncDone(t)
  PROVE  Inv'
<1>1. call[t].at = "sync" /\ Becomes(Done(Now(t)))
  BY DEF SyncDone, Runs
<1>2. held[t] = NULL /\ call[t] \in CallType
  BY <1>1, There DEF Shape
<1>3. User \in CallType /\ Over(User)
  BY <1>2, CallFields
<1> QED
  BY <1>1, <1>2, <1>3, SyncMoves DEF Done

(* sync_inodes() comes to an inode: it waits for it, writes it, or passes   *)
(* it (inode.c:43-46).                                                      *)
LEMMA SyncNextKeeps ==
  ASSUME Inv, Orderly, NEW t \in Task, NEW s \in Slot, SyncNext(t, s)
  PROVE  Inv'
<1> DEFINE h == Now(t)
<1> DEFINE d == [call[t] EXCEPT !.todo = call[t].todo \ {s}]
<1> DEFINE m == [h EXCEPT !.call = d]
<1>1. call[t].at = "sync"
  BY DEF SyncNext, Runs
<1>2. \A u \in Task : call[u].at = "free" => call[u].slot # s
  BY DEF SyncNext
<1>3. /\ Rest /\ h \in Local /\ h.self = t /\ h.held = held[t] /\ h.panic = FALSE
      /\ h.call = call[t] /\ h.inode = inode /\ h.wait = i_wait
  BY Before
<1>4. held[t] = NULL /\ call[t] \in CallType /\ call[t].op = "sync" /\ call[t].empty = NULL
  BY <1>1, There DEF Shape
<1>5. d \in CallType /\ GoesOn(call[t], d) /\ d.at = "sync" /\ d.empty = NULL
  <2>1. call[t].todo \ {s} \in SUBSET Slot
    BY <1>4 DEF CallType
  <2> QED  BY <1>1, <1>4, <2>1, CallFields
<1>6. [h EXCEPT !.call.todo = @ \ {s}] = m
  <2> HIDE DEF h
  <2> QED  BY <1>3
<1>7. CASE inode[s].lock
  <2> DEFINE r == WaitOnInode(h, "sync", s)
  <2> DEFINE y == View(r)
  <2>1. Becomes(r)
    BY <1>7 DEF SyncNext
  <2>2. /\ Same(h, r) /\ r.inode = h.inode
        /\ \A q \in Slot \ {s} : r.wait[q] = h.wait[q]
        /\ GoesOn(h.call, r.call) /\ r.call.at = "sync" /\ r.call.slot = s
        /\ r.call.empty = h.call.empty
    <3>1. "sync" \in Place
      BY DEF Place, At
    <3> HIDE DEF h
    <3> QED  BY <1>3, <3>1, WaitOnInodeIs
  <2> HIDE DEF r
  <2>3. /\ Differs(Cur, y, t, s) /\ Typed(y) /\ Ind(Cur, t) /\ SameDisk(Cur, y)
        /\ Cur.held[t] = held[t] /\ Cur.call[t] = call[t] /\ y.held[t] = r.held /\ y.call[t] = r.call
        /\ Cur.inode = inode /\ y.inode = r.inode
    <3>1. r \in Local /\ r.self = t /\ SameDisk(h, r)
          /\ \A q \in Slot \ {s} : r.inode[q] = inode[q] /\ r.wait[q] = i_wait[q]
      BY <1>3, <2>2 DEF Same
    <3> HIDE DEF y
    <3> QED  BY <3>1, Step DEF y
  <2>4. Ind(y, t)
    <3>1. y.held[t] = Cur.held[t] /\ Cur.inode[s].lock /\ y.inode = Cur.inode
          /\ GoesOn(Cur.call[t], y.call[t]) /\ Cur.call[t].at = "sync"
          /\ y.call[t].at = "sync" /\ y.call[t].slot = s /\ y.call[t].empty = Cur.call[t].empty
      BY <1>1, <1>3, <1>7, <2>2, <2>3 DEF Same
    <3> HIDE DEF y
    <3> QED  BY ONLY <2>3, <3>1, Sleeps, t \in Task, s \in Slot
  <2>5. Kept(h, r)
    BY <1>3, <2>2, <2>4 DEF Kept, Same, At
  <2> QED  BY <2>1, <2>5, After
<1>8. CASE ~inode[s].lock /\ inode[s].dirt
  <2> DEFINE i == inode[s]
  <2> DEFINE l == [i EXCEPT !.lock = TRUE]
  <2> DEFINE g == Goto(m, "wsync", s)
  <2> DEFINE r == [g EXCEPT !.inode[s] = l]
  <2> DEFINE y == View(r)
  <2>1. Same(h, m) /\ m.inode = h.inode /\ m.wait = h.wait /\ m.call = d
    <3> HIDE DEF h, d
    <3> QED  BY <1>3, <1>5, SetsCall
  <2>2. i \in InodeType
    BY <1>3 DEF Local
  <2>3. l \in InodeType /\ IsInode(l, i.num, i.count, i.nlinks, i.zone, TRUE, TRUE)
    <3>1. l \in InodeType /\ IsInode(l, i.num, i.count, i.nlinks, i.zone, i.dirt, TRUE)
      <4> HIDE DEF i
      <4> QED  BY <2>2, InodeFields
    <3>2. i.dirt = TRUE
      BY <1>8, <2>2 DEF InodeType
    <3> HIDE DEF l, i
    <3> QED  BY <3>1, <3>2
  <2>4. Becomes([Goto(m, "wsync", s) EXCEPT !.inode[s].lock = TRUE])
    <3> HIDE DEF h, m
    <3> QED  BY <1>6, <1>8 DEF SyncNext, h
  <2> HIDE DEF m, h, d
  <2>5. g.inode = inode
    <3>1. "wsync" \in Place /\ m \in Local
      BY <2>1 DEF Place, At, Same
    <3> QED  BY <1>3, <2>1, <3>1, GotoIs
  <2>6. [g EXCEPT !.inode[s].lock = TRUE] = r
    <3> HIDE DEF g
    <3> QED  BY <2>5
  <2>7. Becomes(r)
    <3> HIDE DEF r
    <3> QED  BY <2>4, <2>6
  <2>8. /\ Same(m, r) /\ r.wait = m.wait /\ r.inode[s] = l
        /\ \A q \in Slot \ {s} : r.inode[q] = m.inode[q]
        /\ GoesOn(m.call, r.call) /\ r.call.at = "wsync" /\ r.call.slot = s
        /\ r.call.empty = m.call.empty
    <3>1. "wsync" \in Place /\ m \in Local
      BY <2>1 DEF Place, At, Same
    <3> HIDE DEF l
    <3> QED  BY <2>3, <3>1, GotoSetsIs
  <2> HIDE DEF r, l
  <2>9. /\ Differs(Cur, y, t, s) /\ Typed(y) /\ Ind(Cur, t) /\ SameDisk(Cur, y)
        /\ Cur.held[t] = held[t] /\ Cur.call[t] = call[t] /\ y.held[t] = r.held /\ y.call[t] = r.call
        /\ Cur.inode = inode /\ y.inode = r.inode /\ Cur.wait = i_wait /\ y.wait = r.wait
        /\ Cur.call = call
    <3>1. r \in Local /\ r.self = t /\ SameDisk(h, r)
          /\ \A q \in Slot \ {s} : r.inode[q] = inode[q] /\ r.wait[q] = i_wait[q]
      BY <1>3, <2>1, <2>8 DEF Same, SameDisk
    <3>2. Cur.call = call /\ Cur.wait = i_wait
      BY There
    <3> HIDE DEF y
    <3> QED  BY <3>1, <3>2, Step DEF y, h
  <2>10. Ind(y, t)
    <3>1. /\ GoesOn(Cur.call[t], y.call[t]) /\ y.held[t] = Cur.held[t] /\ Cur.call[t].at = "sync"
          /\ Cur.inode[s].dirt /\ ~Cur.inode[s].lock
          /\ y.call[t].at = "wsync" /\ y.call[t].slot = s /\ y.call[t].empty = Cur.call[t].empty
          /\ y.wait[s] = Cur.wait[s]
      BY <1>1, <1>3, <1>4, <1>5, <1>8, <2>1, <2>8, <2>9 DEF Same, GoesOn
    <3>2. Unfreed(Cur, s)
      BY <1>2, <2>9 DEF Unfreed
    <3>3. LET o == Cur.inode[s] IN
          IsInode(y.inode[s], o.num, o.count, o.nlinks, o.zone, TRUE, TRUE)
      BY <2>3, <2>8, <2>9
    <3> HIDE DEF y
    <3>4. Differs(Cur, y, t, s) /\ Typed(y) /\ Ind(Cur, t) /\ SameDisk(Cur, y)
      BY <2>9
    <3> QED  BY ONLY <3>1, <3>2, <3>3, <3>4, BeginsSync, t \in Task, s \in Slot
  <2>11. Kept(h, r)
    BY <1>3, <2>1, <2>8, <2>10 DEF Kept, Same, At
  <2> QED  BY <2>7, <2>11, After DEF h
<1>9. CASE ~inode[s].lock /\ ~inode[s].dirt
  <2>1. Becomes(m)
    <3> HIDE DEF h, m
    <3> QED  BY <1>6, <1>9 DEF SyncNext, h
  <2>2. d.op = "sync"
    BY <1>4, <1>5 DEF GoesOn
  <2> HIDE DEF d
  <2> QED  BY <1>1, <1>4, <1>5, <2>1, <2>2, SyncMoves
<1> QED
  BY <1>7, <1>8, <1>9
-----------------------------------------------------------------------------
(* Every step keeps the invariant.                                          *)
LEMMA NextKeeps ==
  ASSUME Inv, Orderly, [Next]_vars
  PROVE  Inv'
<1>1. CASE UNCHANGED vars
  <2>1. Cur' = Cur /\ panic' = panic /\ (TypeOK <=> TypeOK')
    BY <1>1 DEF vars, Cur, TypeOK
  <2> QED  BY <2>1 DEF Inv
<1>2. CASE Next
  <2>1. PICK t \in Task :
          \/ \E x \in Name : SysOpen(t, x) \/ SysCreat(t, x) \/ SysUnlink(t, x) \/ Create(t, x)
          \/ \E x, y \in Name : SysLink(t, y, x)
          \/ FoundDone(t) \/ WaitDone(t) \/ ReadDone(t)
          \/ LinkLooked(t) \/ AddDone(t) \/ LinkCounted(t) \/ CutDone(t)
          \/ SysWrite(t) \/ BlockDone(t)
          \/ SysClose(t) \/ PutDone(t) \/ WriteDone(t) \/ FreeDone(t)
          \/ SysSync(t) \/ SyncWritten(t) \/ SyncDone(t)
          \/ \E s \in Slot : SyncNext(t, s)
    BY <1>2 DEF Next
  <2>2. CASE \E x \in Name : SysOpen(t, x) \/ SysCreat(t, x) \/ SysUnlink(t, x) \/ Create(t, x)
    <3>1. PICK x \in Name : SysOpen(t, x) \/ SysCreat(t, x) \/ SysUnlink(t, x) \/ Create(t, x)
      BY <2>2
    <3>2. CASE SysOpen(t, x)
      BY <3>2, LookKeeps DEF SysOpen
    <3>3. CASE SysCreat(t, x)
      BY <3>3, LookKeeps DEF SysCreat
    <3>4. CASE SysUnlink(t, x)
      BY <3>4, SysUnlinkKeeps
    <3>5. CASE Create(t, x)
      BY <3>5, CreateKeeps
    <3> QED  BY <3>1, <3>2, <3>3, <3>4, <3>5
  <2>3. CASE \E x, y \in Name : SysLink(t, y, x)
    BY <2>3, LookKeeps DEF SysLink
  <2>4. CASE FoundDone(t)
    BY <2>4, FoundDoneKeeps
  <2>5. CASE WaitDone(t)
    BY <2>5, WaitDoneKeeps
  <2>6. CASE ReadDone(t)
    BY <2>6, ReadDoneKeeps
  <2>7. CASE LinkLooked(t)
    BY <2>7, LinkLookedKeeps
  <2>8. CASE AddDone(t)
    BY <2>8, AddDoneKeeps
  <2>9. CASE LinkCounted(t)
    BY <2>9, LinkCountedKeeps
  <2>10. CASE CutDone(t)
    BY <2>10, CutDoneKeeps
  <2>11. CASE SysWrite(t)
    BY <2>11, SysWriteKeeps
  <2>12. CASE BlockDone(t)
    BY <2>12, BlockDoneKeeps
  <2>13. CASE SysClose(t)
    BY <2>13, SysCloseKeeps
  <2>14. CASE PutDone(t)
    BY <2>14, PutDoneKeeps
  <2>15. CASE WriteDone(t)
    BY <2>15, WriteDoneKeeps
  <2>16. CASE FreeDone(t)
    BY <2>16, FreeDoneKeeps
  <2>17. CASE SysSync(t)
    BY <2>17, SysSyncKeeps
  <2>18. CASE SyncWritten(t)
    BY <2>18, SyncWrittenKeeps
  <2>19. CASE SyncDone(t)
    BY <2>19, SyncDoneKeeps
  <2>20. CASE \E s \in Slot : SyncNext(t, s)
    BY <2>20, SyncNextKeeps
  <2> QED  BY <2>1, <2>2, <2>3, <2>4, <2>5, <2>6, <2>7, <2>8, <2>9, <2>10, <2>11, <2>12,
               <2>13, <2>14, <2>15, <2>16, <2>17, <2>18, <2>19, <2>20
<1> QED
  BY <1>1, <1>2

(* It holds to begin with: nothing is in memory, in use or named.           *)
LEMMA InitInv == Init => Inv
<1> SUFFICES ASSUME Init PROVE Inv
  OBVIOUS
<1>1. /\ Cur.inode = inode /\ Cur.wait = i_wait /\ Cur.image = image /\ Cur.imap = {}
      /\ Cur.zmap = {} /\ Cur.dir = dir /\ Cur.held = held /\ Cur.call = call
  BY DEF Cur, Init
<1>2. /\ User.at = "user" /\ User.op = "none" /\ User.empty = NULL
      /\ Blank.num = 0 /\ Blank.count = 0 /\ Blank.nlinks = 0 /\ Blank.zone = NULL
      /\ Blank.dirt = FALSE /\ Blank.lock = FALSE
  BY DEF User, Blank
<1>3. /\ \A s \in Slot : inode[s] = Blank /\ i_wait[s] = {}
      /\ \A t \in Task : held[t] = NULL /\ call[t] = User
      /\ \A e \in Entry : dir[e].num = 0
  BY DEF Init
<1>4. TypeOK /\ panic = FALSE
  <2>1. 1 \in Entry
    BY InodeAssumption DEF Entry
  <2>2. /\ inode \in [Slot -> [num : {0} \union Num, count : Nat, nlinks : Nat,
                               zone : Block \union {NULL}, dirt : BOOLEAN, lock : BOOLEAN]]
        /\ image \in [Num -> [nlinks : Nat, zone : Block \union {NULL}]]
        /\ dir \in [Entry -> [name : Name \union {NULL}, num : {0} \union Num]]
    BY DEF Init, Blank
  <2>3. /\ i_wait \in [Slot -> SUBSET Task] /\ imap \subseteq Num /\ zmap \subseteq Block
        /\ held \in [Task -> Slot \union {NULL}] /\ panic = FALSE
    BY DEF Init
  <2>4. User \in [at : At, op : {"none", "open", "creat", "unlink", "link", "sync"},
                  name : Name \union {NULL}, num : {0} \union Num, entry : Entry,
                  slot : Slot \union {NULL}, empty : Slot \union {NULL},
                  zone : Block \union {NULL}, todo : SUBSET Slot]
    BY <2>1 DEF User, At
  <2>5. call \in [Task -> [at : At, op : {"none", "open", "creat", "unlink", "link", "sync"},
                           name : Name \union {NULL}, num : {0} \union Num, entry : Entry,
                           slot : Slot \union {NULL}, empty : Slot \union {NULL},
                           zone : Block \union {NULL}, todo : SUBSET Slot]]
    <3> HIDE DEF User
    <3> QED  BY <2>4 DEF Init
  <2> QED  BY <2>2, <2>3, <2>5 DEF TypeOK
<1>5. Typed(Cur) /\ \A u \in Task : Cur.call[u].at \in At
  <2>1. \A u \in Task : call[u] \in CallType
    BY <1>3, <1>4 DEF TypeOK, CallType, Place
  <2>2. call \in [Task -> CallType]
    BY <1>4, <2>1 DEF TypeOK
  <2> QED  BY <1>1, <1>4, <2>2 DEF TypeOK, Typed, InodeType, ImageType, EntryType
<1>6. \A s \in Slot : SlotOK(Cur, s)
  BY <1>1, <1>2, <1>3 DEF SlotOK, Locks
<1>7. \A u \in Task : TaskOK(Cur, u)
  BY <1>1, <1>2, <1>3 DEF TaskOK, Shape, Grip, Bound, Holding, Busy
<1>8. Exclusive(Cur) /\ Once(Cur) /\ Apiece(Cur)
  BY <1>1, <1>2, <1>3 DEF Exclusive, Once, Apiece, Busy, Blocks
<1>9. Counts(Cur)
  <2>1. ASSUME NEW s \in Slot
        PROVE  Cur.inode[s].count = Cardinality(Holders(Cur, s))
    <3>1. Holders(Cur, s) = {}
      BY <1>1, <1>2, <1>3, InodeAssumption DEF Holders, HoldOf, Holding
    <3>2. Cur.inode[s].count = 0
      BY <1>1, <1>2, <1>3
    <3> QED  BY <3>1, <3>2, FS_EmptySet
  <2> QED  BY <2>1 DEF Counts
<1>10. Linked(Cur)
  <2>1. \A n \in Num : EntriesIn(Cur, n) = {}
    BY <1>1, <1>3 DEF EntriesIn, Num
  <2> QED  BY <1>1, <2>1 DEF Linked
<1>11. Owned(Cur)
  BY <1>1, <1>2, <1>3 DEF Owned, Blocks
<1> QED
  BY <1>4, <1>5, <1>6, <1>7, <1>8, <1>9, <1>10, <1>11 DEF Inv, Ind

(* The tasks that hold an inode, as Inode.tla has them.                     *)
LEMMA UsersAreHolders == ASSUME Inv, NEW s \in Slot PROVE Users(s) = Holders(Cur, s)
<1>1. \A t \in Task : Shape(held[t], call[t]) /\ call[t].at \in At
  BY There DEF Inv, TypeOK
<1>2. Cur.held = held /\ Cur.call = call
  BY DEF Cur
<1>3. s # NULL
  BY InodeAssumption
<1>4. ASSUME NEW t \in Task
      PROVE  HoldOf(held[t], call[t]) = s <=>
               \/ held[t] = s
               \/ call[t].empty = s
               \/ /\ call[t].slot = s
                  /\ In(t, {"read", "add", "new", "linked", "cut", "put", "write", "free"})
  <2>1. Shape(held[t], call[t]) /\ call[t].at \in At
    BY <1>1, <1>4
  <2>2. CASE held[t] # NULL
    BY <1>3, <2>1, <2>2 DEF Shape, HoldOf, In
  <2>3. CASE held[t] = NULL /\ call[t].empty # NULL
    BY <1>3, <2>1, <2>3 DEF Shape, HoldOf, In
  <2>4. CASE held[t] = NULL /\ call[t].empty = NULL
    BY <1>3, <2>1, <2>4 DEF Shape, HoldOf, In, Holding, At
  <2> QED  BY <2>2, <2>3, <2>4
<1> QED
  BY <1>2, <1>4 DEF Users, Holders

(* The invariant has what Inode.tla says of i_count and the locks in it.    *)
LEMMA InvCounted == Inv => Counted
<1> SUFFICES ASSUME Inv PROVE Counted
  OBVIOUS
<1>1. /\ TypeOK /\ Once(Cur) /\ Counts(Cur) /\ \A s \in Slot : SlotOK(Cur, s)
      /\ Cur.inode = inode /\ Cur.wait = i_wait
  BY DEF Inv, Ind, Cur
<1>2. HoldersCounted
  BY <1>1, UsersAreHolders DEF HoldersCounted, Counts
<1>3. OneInodePerNumber
  BY <1>1 DEF OneInodePerNumber, Once
<1>4. EmptyIsIdle /\ WaitForLock
  BY <1>1 DEF EmptyIsIdle, WaitForLock, SlotOK
<1> QED
  BY <1>1, <1>2, <1>3, <1>4 DEF Counted

(* The inode of a number, as Inode.tla has it.                              *)
LEMMA OfIs ==
  ASSUME NEW n \in Num
  PROVE  Of(n).nlinks = LinksOf(Cur, n) /\ Of(n).zone = ZoneOf(Cur, n)
<1>1. Cur.inode = inode /\ Cur.call = call /\ Cur.image = image
  BY DEF Cur
<1>2. Cached(n) = Seen(Cur, n)
  BY <1>1 DEF Cached, Seen, Reads, In
<1> HIDE DEF Cur
<1> QED
  BY <1>1, <1>2 DEF Of, LinksOf, ZoneOf

(* And of the links.                                                        *)
LEMMA InvLinksCounted == Inv => LinksCounted
<1> SUFFICES ASSUME Inv, NEW n \in Num
             PROVE  IF n \in imap
                    THEN Of(n).nlinks + Cardinality(Linking(n))
                           = Cardinality(EntriesOf(n)) + Cardinality(Adding(n))
                    ELSE EntriesOf(n) = {}
  BY DEF LinksCounted
<1>1. Linked(Cur) /\ Cur.call = call /\ Cur.dir = dir /\ Cur.imap = imap
  BY DEF Inv, Ind, Cur
<1>2. Linking(n) = Linkers(Cur, n) /\ Adding(n) = Adders(Cur, n) /\ EntriesOf(n) = EntriesIn(Cur, n)
  BY <1>1 DEF Linking, Linkers, Links, Adding, Adders, Adds, EntriesOf, EntriesIn, In
<1> QED
  BY <1>1, <1>2, OfIs DEF Linked

(* And of the blocks.                                                       *)
LEMMA InvBlocksOwned == Inv => BlocksOwned
<1> SUFFICES ASSUME Inv PROVE BlocksOwned
  OBVIOUS
<1>1. /\ Owned(Cur) /\ Typed(Cur) /\ Cur.call = call /\ Cur.imap = imap /\ Cur.zmap = zmap
      /\ imap \subseteq Num /\ zmap \subseteq Block
  BY DEF Inv, Ind, Cur, TypeOK
<1>2. \A n \in imap : Zone(n) = {ZoneOf(Cur, n)} \ {NULL} /\ ZoneOf(Cur, n) \in Block \union {NULL}
  BY <1>1, OfIs, ValuesTyped DEF Zone
<1>3. \A n \in Num \ imap : Zone(n) = {}
  BY DEF Zone
<1>4. Taken = {call[t].zone : t \in {u \in Task : Blocks(call[u])}}
      /\ \A t \in Task : Blocks(call[t]) => call[t].zone \in Block
  <2>1. \A t \in Task : Blocks(call[t]) => call[t].zone \in Block
    BY There DEF Shape, CallType, Blocks
  <2> QED  BY <2>1 DEF Taken, Blocks, In
<1>5. \A b : (\E n \in Num : b \in Zone(n)) <=> b # NULL /\ \E n \in imap : ZoneOf(Cur, n) = b
  BY <1>1, <1>2, <1>3
<1>6. zmap = (UNION {Zone(n) : n \in Num}) \union Taken
  <2>1. NULL \notin Block
    BY InodeAssumption
  <2>2. ASSUME NEW b
        PROVE  b \in zmap <=> (\E n \in Num : b \in Zone(n)) \/ b \in Taken
    <3>1. b \in zmap => b \in Block
      BY <1>1
    <3>2. (\E n \in Num : b \in Zone(n)) \/ b \in Taken => b \in Block
      BY <1>2, <1>4, <1>5
    <3>3. b \in Block => (b \in zmap <=> \/ \E n \in imap : ZoneOf(Cur, n) = b
                                         \/ \E t \in Task : Blocks(call[t]) /\ call[t].zone = b)
      BY <1>1 DEF Owned
    <3> QED  BY <1>4, <1>5, <2>1, <3>1, <3>2, <3>3
  <2> QED  BY <2>2
<1>7. \A n, k \in Num : Zone(n) \intersect Zone(k) # {} => n = k
  <2>1. \A n, k \in imap : ZoneOf(Cur, n) # NULL /\ ZoneOf(Cur, n) = ZoneOf(Cur, k) => n = k
    BY <1>1 DEF Owned
  <2> QED  BY <1>2, <1>3, <2>1
<1>8. \A n \in Num : Zone(n) \intersect Taken = {}
  <2>1. \A n \in imap, t \in Task : Blocks(call[t]) => call[t].zone # ZoneOf(Cur, n)
    BY <1>1 DEF Owned
  <2> QED  BY <1>2, <1>3, <1>4, <2>1
<1> QED
  BY <1>6, <1>7, <1>8 DEF BlocksOwned

(* It is an invariant of the specification.                                 *)
THEOREM Holds == ASSUME Orderly PROVE Spec => []Inv
<1>1. Inv /\ [Next]_vars => Inv'
  BY NextKeeps
<1> QED
  BY <1>1, InitInv, PTL DEF Spec

(* iget() and iput() keep i_count, and an inode in memory once, whatever    *)
(* they sleep on (inode.c:13-34, 127-200, 218-249).                         *)
THEOREM CountsKept == ASSUME Orderly PROVE Spec => []Counted
BY Holds, InvCounted, PTL

(* The links of an inode are the entries that name it, over every sleep of  *)
(* creat, link, unlink and iput (namei.c:354-367, 619-625, 678-685).        *)
THEOREM LinksKept == ASSUME Orderly PROVE Spec => []LinksCounted
BY Holds, InvLinksCounted, PTL

(* No block is lost and none belongs to two (bitmap.c:73-131,               *)
(* truncate.c:41-58, inode.c:58-65).                                        *)
THEOREM BlocksKept == ASSUME Orderly PROVE Spec => []BlocksOwned
BY Holds, InvBlocksOwned, PTL

(* free_inode(), free_block() and iput() find what they expect              *)
(* (inode.c:132-133, bitmap.c:94-97, 144-157).                              *)
THEOREM NeverPanics == ASSUME Orderly PROVE Spec => []NoPanic
<1>1. Inv => NoPanic
  BY DEF Inv, NoPanic
<1> QED
  BY <1>1, Holds, PTL
=============================================================================
