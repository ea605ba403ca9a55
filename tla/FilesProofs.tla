------------------------------ MODULE FilesProofs ------------------------------
(***************************************************************************)
(* Proofs about Files.tla: the counts of file_table and of the pipes are    *)
(* those of the descriptors and of the open ends, and who sleeps on a pipe  *)
(* has to, for any tasks, descriptors, files, pipes and messages.           *)
(***************************************************************************)
EXTENDS Files, InductionLemmas, SequenceTheorems

(* The descriptors, of all tasks, that point to a file.                     *)
Users(fp, f) == {u \in Task \X Fd : fp[u[1]][u[2]] = f}
Counts(fp, cnt) == \A f \in File : cnt[f] = Cardinality(Users(fp, f))

(* The files and descriptors a call has taken and not filled in yet.  Their *)
(* f_inode and f_mode are those of the last use.                            *)
Reserves(c) == IF c.op = "open" THEN {c.f} ELSE IF c.op = "pipe" THEN {c.f[1], c.f[2]} ELSE {}
TakenBy(c) == IF c.op = "open" THEN {c.fd} ELSE IF c.op = "pipe" THEN {c.fd[1], c.fd[2]} ELSE {}

(* What a call has taken is nobody else's (open.c:139-142, pipe.c:59-76).    *)
Alone(fp, cl) ==
  \A t \in Task :
    /\ cl[t].op = "open" => Users(fp, cl[t].f) = {<<t, cl[t].fd>>}
    /\ cl[t].op = "pipe" =>
         /\ cl[t].f[1] # cl[t].f[2] /\ cl[t].fd[1] # cl[t].fd[2]
         /\ \A i \in 1 .. 2 : Users(fp, cl[t].f[i]) = {<<t, cl[t].fd[i]>>}

(* A descriptor that is marked is open and no call's.                        *)
Marks(fp, coe, cl) ==
  \A t \in Task : \A fd \in coe[t] : fp[t][fd] # NULL /\ fd \notin TakenBy(cl[t])

(* A file that is open, not just taken, and the ends of the pipes: each end  *)
(* is one file, and i_count counts them.                                     *)
Live(cnt, cl, f) == cnt[f] > 0 /\ \A t \in Task : f \notin Reserves(cl[t])
EndOf(cnt, ino, md, cl, p, e, f) == Live(cnt, cl, f) /\ ino[f] = p /\ md[f] = e
IsOpen(cnt, ino, md, cl, p, e) == \E f \in File : EndOf(cnt, ino, md, cl, p, e, f)
Bit(P) == IF P THEN 1 ELSE 0
Ends(cnt, ino, md, ic, cl) ==
  /\ \A f \in File : Live(cnt, cl, f) =>
       ino[f] \in Inode /\ (ino[f] \in Pipe => md[f] \in 1 .. 2)
  /\ \A f, g \in File :
       Live(cnt, cl, f) /\ Live(cnt, cl, g) /\ ino[f] = ino[g] /\ ino[f] \in Pipe /\ md[f] = md[g]
         => f = g
  /\ \A p \in Pipe :
       ic[p] = Bit(IsOpen(cnt, ino, md, cl, p, 1)) + Bit(IsOpen(cnt, ino, md, cl, p, 2))

(* An empty slot of task[] has no descriptors, and a task that exits none    *)
(* but those it has still to close (exit.c:73-75).                           *)
Emptied ==
  \A t \in Task :
    /\ In(t, "free") => \A fd \in Fd : filp[t][fd] = NULL
    /\ In(t, "put") /\ call[t].then = Free => \A fd \in Fd \ call[t].fds : filp[t][fd] = NULL

(* A task inside a read or a write holds the end it uses.                    *)
EndHeld ==
  \A t \in Task : /\ In(t, "read") => t \in Holders(call[t].inode, 1)
                  /\ In(t, "write") => t \in Holders(call[t].inode, 2)

(* Who sleeps on a pipe is in a call on it.                                  *)
Sleeping ==
  \A p \in Pipe : \A t \in waiting[p] :
    /\ In(t, "read") \/ In(t, "write")
    /\ call[t].inode = p

(* What is between tail and head has been written.                           *)
Filled == \A p \in Pipe : i_count[p] # 0 => \A i \in 1 .. Size(p) : Bytes(p)[i] \in Byte

IInv ==
  /\ TypeOK
  /\ Counts(filp, f_count) /\ Alone(filp, call) /\ Marks(filp, close_on_exec, call)
  /\ Ends(f_count, f_inode, f_mode, i_count, call)
  /\ Emptied /\ EndHeld /\ Sleeping /\ AsleepForAReason /\ Filled
-----------------------------------------------------------------------------

(* Numbers modulo a page, as far as PIPE_SIZE and INC_PIPE go.               *)
LEMMA Modulo ==
  ASSUME NEW n \in Nat, n > 0, NEW k \in Int
  PROVE  /\ 0 <= k /\ k < n => k % n = k
         /\ n <= k /\ k < n + n => k % n = k - n
         /\ -n <= k /\ k < 0 => k % n = k + n
<1>1. CASE 0 <= k /\ k < n
  BY <1>1, SMT
<1>2. CASE n <= k /\ k < n + n
  BY <1>2, SMT
<1>3. CASE -n <= k /\ k < 0
  BY <1>3, SMT
<1> QED
  BY <1>1, <1>2, <1>3

(* What a non-empty set of numbers gives for Min.                           *)
LEMMA MinIs ==
  ASSUME NEW S, S \subseteq Nat, S # {}
  PROVE  Min(S) \in S /\ \A k \in S : Min(S) <= k
<1>1. PICK n \in S : \A k \in S : ~(k < n)
  BY LeastNumber
<1>2. \A k \in S : n <= k
  BY <1>1
<1> QED
  BY <1>1, <1>2 DEF Min

(* The calls, by their names.                                               *)
LEMMA CallIs ==
  ASSUME NEW c \in Call
  PROVE  /\ c.op = "free" => c = Free
         /\ c.op = "user" => c = User
         /\ c.op = "open" => c.fd \in Fd /\ c.f \in File
         /\ c.op = "pipe" => c.fd \in [1 .. 2 -> Fd] /\ c.f \in [1 .. 2 -> File]
         /\ c.op = "read" => c.inode \in Pipe /\ c.count \in 1 .. PAGE_SIZE /\ c = Reading(c.inode, c.count)
         /\ c.op = "write" => c.inode \in Pipe /\ c = Writing(c.inode, c.bytes)
              /\ c.bytes \in (UNION {Suffixes(m) : m \in Message}) \ {<<>>}
         /\ c.op = "put" => c.fds \in SUBSET Fd
              /\ c.then \in {User, Free} \union {Dup(x, y) : x, y \in Fd}
         /\ c.op \in {"free", "user", "open", "pipe", "read", "write", "put"}
BY DEF Call, Free, User, Opening, Piping, Reading, Writing, Putting

(* A descriptor gets a file, or loses it, and nothing else happens to it.    *)
Table == [Task -> [Fd -> File \union {NULL}]]
Elsewhere(fp, gp, t, fd) == \A u \in Task, x \in Fd : u # t \/ x # fd => gp[u][x] = fp[u][x]
Entered(fp, gp, t, fd, f) ==
  /\ gp \in Table /\ gp[t][fd] = f /\ Elsewhere(fp, gp, t, fd)
  /\ Users(gp, f) = Users(fp, f) \union {<<t, fd>>} /\ <<t, fd>> \notin Users(fp, f)
  /\ \A g \in File \ {f} : Users(gp, g) = Users(fp, g)
Left(fp, gp, t, fd, f) ==
  /\ gp \in Table /\ gp[t][fd] = NULL /\ Elsewhere(fp, gp, t, fd)
  /\ Users(gp, f) = Users(fp, f) \ {<<t, fd>>} /\ <<t, fd>> \in Users(fp, f)
  /\ \A g \in File \ {f} : Users(gp, g) = Users(fp, g)

LEMMA Entering ==
  ASSUME NEW fp \in Table, NEW t \in Task, NEW fd \in Fd, fp[t][fd] = NULL, NEW f \in File
  PROVE  Entered(fp, [fp EXCEPT ![t][fd] = f], t, fd, f)
<1> DEFINE gp == [fp EXCEPT ![t][fd] = f]
<1>0. NULL \notin File
  BY FilesAssumption DEF File
<1>1. gp \in Table /\ gp[t][fd] = f /\ Elsewhere(fp, gp, t, fd)
  BY DEF Table, Elsewhere
<1> QED
  BY <1>0, <1>1 DEF Users, Entered, Elsewhere

LEMMA Leaving ==
  ASSUME NEW fp \in Table, NEW t \in Task, NEW fd \in Fd, NEW f \in File, fp[t][fd] = f
  PROVE  Left(fp, [fp EXCEPT ![t][fd] = NULL], t, fd, f)
<1> DEFINE gp == [fp EXCEPT ![t][fd] = NULL]
<1>0. NULL \notin File
  BY FilesAssumption DEF File
<1>1. gp \in Table /\ gp[t][fd] = NULL /\ Elsewhere(fp, gp, t, fd)
  BY DEF Table, Elsewhere
<1> QED
  BY <1>0, <1>1 DEF Users, Left, Elsewhere

(* There are finitely many descriptors.                                     *)
LEMMA UsersFinite ==
  ASSUME NEW fp, NEW f
  PROVE  IsFiniteSet(Users(fp, f)) /\ Cardinality(Users(fp, f)) \in Nat
<1>1. IsFiniteSet(Fd)
  <2>1. 0 \in Int /\ NR_OPEN - 1 \in Int
    BY FilesAssumption
  <2> QED
    BY <2>1, FS_Interval DEF Fd
<1>2. IsFiniteSet(Task \X Fd)
  BY <1>1, FilesAssumption, FS_Product
<1>3. Users(fp, f) \subseteq Task \X Fd
  BY DEF Users
<1> QED
  BY <1>2, <1>3, FS_Subset, FS_CardinalityType

(* So the counts go with them.                                              *)
LEMMA EnteringCounts ==
  ASSUME NEW fp, NEW gp, NEW t \in Task, NEW fd \in Fd, NEW f \in File, Entered(fp, gp, t, fd, f),
         NEW cnt \in [File -> Nat], Counts(fp, cnt)
  PROVE  Counts(gp, [cnt EXCEPT ![f] = @ + 1])
<1>1. /\ Users(gp, f) = Users(fp, f) \union {<<t, fd>>} /\ <<t, fd>> \notin Users(fp, f)
      /\ \A g \in File \ {f} : Users(gp, g) = Users(fp, g)
  BY DEF Entered
<1>2. Cardinality(Users(fp, f) \union {<<t, fd>>}) = Cardinality(Users(fp, f)) + 1
  BY <1>1, UsersFinite, FS_AddElement
<1> QED
  BY <1>1, <1>2 DEF Counts

LEMMA LeavingCounts ==
  ASSUME NEW fp, NEW gp, NEW t \in Task, NEW fd \in Fd, NEW f \in File, Left(fp, gp, t, fd, f),
         NEW cnt \in [File -> Nat], Counts(fp, cnt)
  PROVE  /\ Counts(gp, [cnt EXCEPT ![f] = @ - 1])
         /\ cnt[f] > 0 /\ [cnt EXCEPT ![f] = @ - 1] \in [File -> Nat]
<1>1. /\ Users(gp, f) = Users(fp, f) \ {<<t, fd>>} /\ <<t, fd>> \in Users(fp, f)
      /\ \A g \in File \ {f} : Users(gp, g) = Users(fp, g)
  BY DEF Left
<1>2. Cardinality(Users(fp, f) \ {<<t, fd>>}) = Cardinality(Users(fp, f)) - 1
  BY <1>1, UsersFinite, FS_RemoveElement
<1>3. cnt[f] = Cardinality(Users(fp, f)) /\ Cardinality(Users(gp, f)) \in Nat
  BY UsersFinite DEF Counts
<1>4. Cardinality(Users(gp, f)) = cnt[f] - 1
  BY <1>1, <1>2, <1>3
<1>5. cnt[f] - 1 \in Nat /\ cnt[f] > 0
  BY <1>3, <1>4
<1>6. Counts(gp, [cnt EXCEPT ![f] = @ - 1])
  BY <1>1, <1>2 DEF Counts
<1> QED
  BY <1>5, <1>6

(* A file is counted when a descriptor points to it, and only then.          *)
LEMMA CountedIsUsed ==
  ASSUME NEW fp, NEW cnt, Counts(fp, cnt), NEW f \in File
  PROVE  cnt[f] > 0 <=> Users(fp, f) # {}
<1>1. cnt[f] = Cardinality(Users(fp, f))
  BY DEF Counts
<1>2. Cardinality(Users(fp, f)) = 0 <=> Users(fp, f) = {}
  BY UsersFinite, FS_EmptySet
<1> QED
  BY <1>1, <1>2, UsersFinite

(* What is in a descriptor no call has taken is open.                       *)
LEMMA UsedIsLive ==
  ASSUME NEW fp \in Table, NEW cnt, NEW cl \in [Task -> Call],
         Counts(fp, cnt), Alone(fp, cl), NEW t \in Task, NEW fd \in Fd \ TakenBy(cl[t]),
         fp[t][fd] # NULL
  PROVE  Live(cnt, cl, fp[t][fd])
<1> DEFINE f == fp[t][fd]
<1>1. f \in File /\ <<t, fd>> \in Users(fp, f)
  BY DEF Users, Table
<1>2. cnt[f] > 0
  BY <1>1, CountedIsUsed
<1>3. ASSUME NEW u \in Task, f \in Reserves(cl[u])
      PROVE  FALSE
  <2>1. CASE cl[u].op = "open"
    <3>1. <<t, fd>> = <<u, cl[u].fd>>
      BY <1>1, <1>3, <2>1 DEF Alone, Reserves
    <3> QED
      BY <3>1, <2>1 DEF TakenBy
  <2>2. CASE cl[u].op = "pipe"
    <3>1. PICK i \in 1 .. 2 : f = cl[u].f[i]
      BY <1>3, <2>2 DEF Reserves
    <3>2. <<t, fd>> = <<u, cl[u].fd[i]>>
      BY <1>1, <3>1, <2>2 DEF Alone
    <3>3. t = u /\ fd = cl[u].fd[i]
      BY <3>2
    <3>4. cl[u].fd[i] \in {cl[u].fd[1], cl[u].fd[2]}
      OBVIOUS
    <3> QED
      BY <3>3, <3>4, <2>2 DEF TakenBy
  <2> QED
    BY <1>3, <2>1, <2>2 DEF Reserves
<1> QED
  BY <1>2, <1>3 DEF Live

(* And what is open has such a descriptor.                                  *)
LEMMA LiveIsUsed ==
  ASSUME NEW fp \in Table, NEW cnt, NEW cl \in [Task -> Call],
         Counts(fp, cnt), Alone(fp, cl), NEW f \in File, Live(cnt, cl, f)
  PROVE  \E t \in Task, fd \in Fd : fd \notin TakenBy(cl[t]) /\ fp[t][fd] = f
<1>1. PICK u \in Users(fp, f) : TRUE
  BY CountedIsUsed DEF Live
<1>2. u \in Task \X Fd /\ fp[u[1]][u[2]] = f
  BY <1>1 DEF Users
<1> DEFINE t == u[1]
           fd == u[2]
<1>3. t \in Task /\ fd \in Fd /\ fp[t][fd] = f /\ u = <<t, fd>>
  BY <1>2
<1>4. SUFFICES ASSUME fd \in TakenBy(cl[t]) PROVE FALSE
  BY <1>3
<1>5. cl[t] \in Call
  BY <1>3
<1>6. CASE cl[t].op = "open"
  <2>1. fd = cl[t].fd /\ Users(fp, cl[t].f) = {<<t, fd>>}
    BY <1>3, <1>4, <1>6 DEF TakenBy, Alone
  <2>2. fp[t][fd] = cl[t].f
    BY <2>1 DEF Users
  <2> QED
    BY <1>3, <1>6, <2>2 DEF Live, Reserves
<1>7. CASE cl[t].op = "pipe"
  <2>1. PICK i \in 1 .. 2 : fd = cl[t].fd[i]
    BY <1>4, <1>7 DEF TakenBy
  <2>2. Users(fp, cl[t].f[i]) = {<<t, fd>>}
    BY <1>3, <1>7, <2>1 DEF Alone
  <2>3. fp[t][fd] = cl[t].f[i] /\ cl[t].f[i] \in {cl[t].f[1], cl[t].f[2]}
    BY <2>2 DEF Users
  <2> QED
    BY <1>3, <1>7, <2>3 DEF Live, Reserves
<1> QED
  BY <1>4, <1>6, <1>7 DEF TakenBy
-----------------------------------------------------------------------------
(* To close descriptors: dup2, execve, exit and close, iput() included.      *)

(* What a task that closes works with (Now).                                *)
Local == [filp : Table, coe : [Task -> SUBSET Fd], count : [File -> Nat],
          i_count : [Pipe -> 0 .. 2], page : [Pipe -> [Index -> Byte \union {Blank}]],
          waiting : [Pipe -> SUBSET Task], asleep : BOOLEAN, rest : SUBSET Fd]

(* A pipe has been put, perhaps: then nobody sleeps on it (inode.c:134).     *)
PutOrNot(m) ==
  \A p \in Pipe :
    /\ m.waiting[p] = {} \/ (m.waiting[p] = waiting[p] /\ m.i_count[p] = i_count[p])
    /\ m.i_count[p] # 0 => i_count[p] # 0 /\ m.page[p] = page[p]

(* The invariant in the middle of a step of t.                              *)
Mid(m, t) ==
  /\ m \in Local
  /\ Counts(m.filp, m.count) /\ Alone(m.filp, call) /\ Marks(m.filp, m.coe, call)
  /\ Ends(m.count, f_inode, f_mode, m.i_count, call)
  /\ \A u \in Task \ {t} : m.filp[u] = filp[u]
  /\ PutOrNot(m)
  /\ \A f \in File : m.count[f] > 0 => f_count[f] > 0
  /\ ~m.asleep => m.rest = {}

(* Nothing happens to the pipes but that ends are copied and closed.         *)
Passes ==
  /\ reply' = reply /\ head' = head /\ tail' = tail
  /\ \A p \in Pipe : i_count'[p] # 0 => page'[p] = page[p]
  /\ \A f \in File : Live(f_count', call', f) /\ f_inode'[f] \in Pipe =>
       /\ Live(f_count, call, f)
       /\ f_inode'[f] = f_inode[f] /\ f_mode'[f] = f_mode[f]
Kept == IInv' /\ Passes

(* One descriptor has been closed, or is left for after the sleep.           *)
Shut(m, r, t, fd) ==
  /\ m.rest \subseteq r.rest /\ r.rest \subseteq m.rest \union {fd}
  /\ (r.filp[t][fd] = NULL \/ fd \in r.rest)
  /\ \A x \in Fd : m.filp[t][x] = NULL => r.filp[t][x] = NULL
  /\ \A x \in Fd \ {fd} : r.filp[t][x] = m.filp[t][x]

Quiet(t) == t \in Task /\ call \in [Task -> Call] /\ (In(t, "user") \/ In(t, "put"))

(* A task that closes has taken no descriptor.                              *)
LEMMA QuietTakes ==
  ASSUME NEW t, Quiet(t)
  PROVE  TakenBy(call[t]) = {} /\ Reserves(call[t]) = {}
BY DEF Quiet, In, TakenBy, Reserves

(* What calls have taken stays theirs.                                      *)
LEMMA LeavingAlone ==
  ASSUME NEW t, Quiet(t), NEW fp \in Table, Alone(fp, call), NEW fd \in Fd, NEW f \in File,
         NEW gp, Left(fp, gp, t, fd, f)
  PROVE  Alone(gp, call)
<1>1. /\ <<t, fd>> \in Users(fp, f)
      /\ \A g \in File \ {f} : Users(gp, g) = Users(fp, g)
  BY DEF Left
<1>2. ASSUME NEW u \in Task, call[u].op = "open"
      PROVE  Users(gp, call[u].f) = {<<u, call[u].fd>>}
  <2>1. call[u].f \in File /\ Users(fp, call[u].f) = {<<u, call[u].fd>>}
    BY <1>2, CallIs DEF Quiet, Alone
  <2>2. call[u].f # f
    <3>1. SUFFICES ASSUME call[u].f = f PROVE FALSE
      OBVIOUS
    <3>2. <<t, fd>> = <<u, call[u].fd>>
      BY <1>1, <2>1, <3>1
    <3> QED
      BY <1>2, <3>2 DEF Quiet, In
  <2> QED
    BY <1>1, <2>1, <2>2
<1>3. ASSUME NEW u \in Task, call[u].op = "pipe", NEW i \in 1 .. 2
      PROVE  Users(gp, call[u].f[i]) = {<<u, call[u].fd[i]>>}
  <2>1. call[u].f[i] \in File /\ Users(fp, call[u].f[i]) = {<<u, call[u].fd[i]>>}
    BY <1>3, CallIs DEF Quiet, Alone
  <2>2. call[u].f[i] # f
    <3>1. SUFFICES ASSUME call[u].f[i] = f PROVE FALSE
      OBVIOUS
    <3>2. <<t, fd>> = <<u, call[u].fd[i]>>
      BY <1>1, <2>1, <3>1
    <3> QED
      BY <1>3, <3>2 DEF Quiet, In
  <2> QED
    BY <1>1, <2>1, <2>2
<1> QED
  BY <1>2, <1>3 DEF Alone

(* With its last descriptor an open file is gone, and an end of a pipe with  *)
(* it; the other ends stay.                                                 *)
LEMMA LosingEnd ==
  ASSUME NEW cnt \in [File -> Nat], NEW d \in [File -> Nat], NEW f \in File,
         NEW ic, NEW jc \in [Pipe -> Int], Live(cnt, call, f), d[f] = 0,
         \A g \in File \ {f} : d[g] = cnt[g],
         Ends(cnt, f_inode, f_mode, ic, call),
         \A p \in Pipe : jc[p] = IF p = f_inode[f] THEN ic[p] - 1 ELSE ic[p]
  PROVE  Ends(d, f_inode, f_mode, jc, call)
<1>1. \A g \in File : Live(d, call, g) <=> (Live(cnt, call, g) /\ g # f)
  BY DEF Live
<1>2. \A p \in Pipe, e \in 1 .. 2 : (p # f_inode[f] \/ e # f_mode[f]) =>
        (IsOpen(d, f_inode, f_mode, call, p, e) <=> IsOpen(cnt, f_inode, f_mode, call, p, e))
  BY <1>1 DEF IsOpen, EndOf
<1>3. ASSUME NEW p \in Pipe, NEW e \in 1 .. 2, p = f_inode[f], e = f_mode[f]
      PROVE  /\ IsOpen(cnt, f_inode, f_mode, call, p, e)
             /\ ~IsOpen(d, f_inode, f_mode, call, p, e)
  <2>1. IsOpen(cnt, f_inode, f_mode, call, p, e)
    BY <1>3 DEF IsOpen, EndOf
  <2>2. ~IsOpen(d, f_inode, f_mode, call, p, e)
    BY <1>1, <1>3 DEF IsOpen, EndOf, Ends
  <2> QED
    BY <2>1, <2>2
<1>4. ASSUME NEW p \in Pipe
      PROVE  jc[p] = Bit(IsOpen(d, f_inode, f_mode, call, p, 1))
                     + Bit(IsOpen(d, f_inode, f_mode, call, p, 2))
  <2>1. ic[p] = Bit(IsOpen(cnt, f_inode, f_mode, call, p, 1))
                + Bit(IsOpen(cnt, f_inode, f_mode, call, p, 2))
    BY DEF Ends
  <2>2. CASE p # f_inode[f]
    <3>1. \A e \in 1 .. 2 : IsOpen(d, f_inode, f_mode, call, p, e)
                            <=> IsOpen(cnt, f_inode, f_mode, call, p, e)
      BY <1>2, <2>2
    <3> QED
      BY <2>1, <2>2, <3>1 DEF Bit
  <2>3. CASE p = f_inode[f]
    <3>1. f_mode[f] \in 1 .. 2
      BY <2>3 DEF Ends
    <3>2. CASE f_mode[f] = 1
      <4>1. /\ IsOpen(cnt, f_inode, f_mode, call, p, 1) /\ ~IsOpen(d, f_inode, f_mode, call, p, 1)
            /\ IsOpen(d, f_inode, f_mode, call, p, 2) <=> IsOpen(cnt, f_inode, f_mode, call, p, 2)
        BY <1>2, <1>3, <2>3, <3>2
      <4> QED
        BY <2>1, <2>3, <4>1 DEF Bit
    <3>3. CASE f_mode[f] = 2
      <4>1. /\ IsOpen(cnt, f_inode, f_mode, call, p, 2) /\ ~IsOpen(d, f_inode, f_mode, call, p, 2)
            /\ IsOpen(d, f_inode, f_mode, call, p, 1) <=> IsOpen(cnt, f_inode, f_mode, call, p, 1)
        BY <1>2, <1>3, <2>3, <3>3
      <4> QED
        BY <2>1, <2>3, <4>1 DEF Bit
    <3> QED
      BY <3>1, <3>2, <3>3
  <2> QED
    BY <2>2, <2>3
<1>5. \A g \in File : Live(d, call, g) =>
        f_inode[g] \in Inode /\ (f_inode[g] \in Pipe => f_mode[g] \in 1 .. 2)
  BY <1>1 DEF Ends
<1>6. \A g, h \in File :
        Live(d, call, g) /\ Live(d, call, h) /\ f_inode[g] = f_inode[h] /\ f_inode[g] \in Pipe
          /\ f_mode[g] = f_mode[h] => g = h
  BY <1>1 DEF Ends
<1> QED
  BY <1>4, <1>5, <1>6 DEF Ends

(* What is open and counted depends on which files are live only.            *)
LEMMA SameEnds ==
  ASSUME NEW cnt, NEW ino, NEW md, NEW ic, NEW cl, NEW d, NEW jno, NEW nd, NEW el,
         \A f \in File : Live(d, el, f) <=> Live(cnt, cl, f),
         \A f \in File : Live(cnt, cl, f) => jno[f] = ino[f] /\ nd[f] = md[f],
         Ends(cnt, ino, md, ic, cl)
  PROVE  Ends(d, jno, nd, ic, el)
<1>1. \A p \in Pipe, e \in 1 .. 2 : IsOpen(d, jno, nd, el, p, e) <=> IsOpen(cnt, ino, md, cl, p, e)
  BY DEF IsOpen, EndOf
<1>2. \A p \in Pipe : ic[p] = Bit(IsOpen(d, jno, nd, el, p, 1)) + Bit(IsOpen(d, jno, nd, el, p, 2))
  BY <1>1 DEF Ends, Bit
<1>3. \A f \in File : Live(d, el, f) => jno[f] \in Inode /\ (jno[f] \in Pipe => nd[f] \in 1 .. 2)
  BY DEF Ends
<1>4. \A f, g \in File :
        Live(d, el, f) /\ Live(d, el, g) /\ jno[f] = jno[g] /\ jno[f] \in Pipe /\ nd[f] = nd[g] => f = g
  BY DEF Ends
<1> QED
  BY <1>2, <1>3, <1>4 DEF Ends

(* A pipe has two ends at most.                                             *)
LEMMA EndsBound ==
  ASSUME NEW cnt, NEW ino, NEW md, NEW ic, NEW cl, Ends(cnt, ino, md, ic, cl), NEW p \in Pipe
  PROVE  ic[p] \in 0 .. 2
<1>1. ASSUME NEW P
      PROVE  Bit(P) \in 0 .. 1
  BY DEF Bit
<1>2. ic[p] = Bit(IsOpen(cnt, ino, md, cl, p, 1)) + Bit(IsOpen(cnt, ino, md, cl, p, 2))
  BY DEF Ends
<1> HIDE DEF Bit
<1>3. Bit(IsOpen(cnt, ino, md, cl, p, 1)) \in 0 .. 1 /\ Bit(IsOpen(cnt, ino, md, cl, p, 2)) \in 0 .. 1
  BY <1>1
<1> QED
  BY <1>2, <1>3

(* sys_close() of a descriptor that is open.                                *)
LEMMA CloseOpenKeeps ==
  ASSUME NEW t, Quiet(t), f_inode \in [File -> Inode \union {NULL}],
         NEW m, Mid(m, t), ~m.asleep, NEW fd \in Fd, m.filp[t][fd] # NULL
  PROVE  Mid(Close(m, t, fd), t) /\ Shut(m, Close(m, t, fd), t, fd)
<1> DEFINE f == m.filp[t][fd]
           g == [m.filp EXCEPT ![t][fd] = NULL]
           d == [m.count EXCEPT ![f] = @ - 1]
           k == [m.coe EXCEPT ![t] = @ \ {fd}]
           ino == f_inode[f]
<1>0. /\ t \in Task /\ m \in Local /\ m.filp \in Table /\ m.count \in [File -> Nat] /\ f \in File
      /\ m.coe \in [Task -> SUBSET Fd] /\ m.rest = {}
  BY DEF Mid, Local, Quiet, Table
<1>1. Left(m.filp, g, t, fd, f)
  BY <1>0, Leaving
<1>2. Counts(g, d) /\ d \in [File -> Nat] /\ d[f] = m.count[f] - 1
  BY <1>0, <1>1, LeavingCounts DEF Mid
<1>3. Alone(g, call)
  BY <1>0, <1>1, LeavingAlone DEF Mid
<1>4. Marks(g, k, call)
  <2>1. /\ g[t][fd] = NULL /\ \A u \in Task, x \in Fd : u # t \/ x # fd => g[u][x] = m.filp[u][x]
        /\ k[t] = m.coe[t] \ {fd} /\ \A u \in Task \ {t} : k[u] = m.coe[u]
        /\ \A u \in Task : k[u] \subseteq Fd
    BY <1>0, <1>1 DEF Left, Elsewhere
  <2> HIDE DEF g, k
  <2> QED
    BY <2>1, <1>0 DEF Mid, Marks
<1>5. Live(m.count, call, f)
  BY <1>0, UsedIsLive, QuietTakes DEF Mid, Quiet
<1>6. ino \in Inode /\ NULL \notin Inode /\ Regular \notin Pipe
  BY <1>0, <1>5, FilesAssumption DEF Mid, Ends, Inode
<1>7. /\ g \in Table /\ k \in [Task -> SUBSET Fd]
      /\ g[t][fd] = NULL /\ \A u \in Task \ {t} : g[u] = filp[u]
      /\ \A x \in Fd \ {fd} : g[t][x] = m.filp[t][x]
  <2>1. g \in Table /\ k \in [Task -> SUBSET Fd] /\ g[t][fd] = NULL
    BY <1>0, <1>1 DEF Left
  <2>2. \A u \in Task \ {t} : g[u] = m.filp[u]
    BY <1>0 DEF Table
  <2>3. \A x \in Fd \ {fd} : g[t][x] = m.filp[t][x]
    BY <1>0, <1>1 DEF Left, Elsewhere
  <2> QED
    BY <2>1, <2>2, <2>3 DEF Mid
<1> DEFINE c == [m EXCEPT !.coe[t] = @ \ {fd}, !.filp[t][fd] = NULL, !.count[f] = @ - 1]
<1>8. /\ c.filp = g /\ c.coe = k /\ c.count = d /\ c.i_count = m.i_count /\ c.page = m.page
      /\ c.waiting = m.waiting /\ c.asleep = FALSE /\ c.rest = {} /\ c \in Local
  BY <1>0, <1>2, <1>7 DEF Local
<1>9. Close(m, t, fd) = IF d[f] > 0 THEN c ELSE Iput(c, ino)
  BY <1>8 DEF Close
<1>12. \A h \in File : d[h] > 0 => f_count[h] > 0
  BY <1>0, <1>2 DEF Mid
<1> HIDE DEF g, d, k, c
<1>10. CASE d[f] > 0
  <2>1. \A h \in File : Live(d, call, h) <=> Live(m.count, call, h)
    BY <1>0, <1>2, <1>5, <1>10 DEF Live, d
  <2>2. Ends(d, f_inode, f_mode, m.i_count, call)
    BY <2>1, SameEnds DEF Mid
  <2>3. Close(m, t, fd) = c
    BY <1>9, <1>10
  <2> QED
    BY <1>0, <1>2, <1>3, <1>4, <1>7, <1>8, <1>12, <2>2, <2>3 DEF Mid, Shut, PutOrNot
<1>11. CASE d[f] = 0
  <2>1. Close(m, t, fd) = Iput(c, ino)
    BY <1>9, <1>11
  <2>2. \A h \in File \ {f} : d[h] = m.count[h]
    BY <1>0 DEF d
  <2>3. CASE ino = Regular
    <3>1. m.i_count \in [Pipe -> Int] /\ \A p \in Pipe : m.i_count[p] = IF p = ino THEN m.i_count[p] - 1 ELSE m.i_count[p]
      BY <1>0, <1>6, <2>3 DEF Local
    <3>2. Ends(d, f_inode, f_mode, m.i_count, call)
      BY <1>0, <1>2, <1>5, <1>11, <2>2, <3>1, LosingEnd DEF Mid
    <3>3. Iput(c, ino) = [c EXCEPT !.asleep = TRUE]
      BY <2>3 DEF Iput
    <3> DEFINE r == [c EXCEPT !.asleep = TRUE]
    <3>4. /\ r \in Local /\ r.filp = g /\ r.coe = k /\ r.count = d /\ r.i_count = m.i_count
          /\ r.page = m.page /\ r.waiting = m.waiting /\ r.asleep = TRUE /\ r.rest = {}
      BY <1>8 DEF Local
    <3> HIDE DEF r
    <3> QED
      BY <1>0, <1>2, <1>3, <1>4, <1>7, <1>12, <2>1, <3>2, <3>3, <3>4 DEF Mid, Shut, PutOrNot, r
  <2>4. CASE ino \in Pipe
    <3> DEFINE r == [c EXCEPT !.waiting[ino] = {}, !.i_count[ino] = @ - 1,
                       !.page[ino] = IF c.i_count[ino] > 1 THEN @ ELSE [i \in Index |-> Blank]]
               jc == [m.i_count EXCEPT ![ino] = @ - 1]
    <3>1. Iput(c, ino) = r
      BY <1>6, <2>4 DEF Iput
    <3>2. m.i_count \in [Pipe -> 0 .. 2]
      BY <1>0 DEF Local
    <3>3. jc \in [Pipe -> Int] /\ \A p \in Pipe : jc[p] = IF p = ino THEN m.i_count[p] - 1 ELSE m.i_count[p]
      BY <2>4, <3>2
    <3>4. Ends(d, f_inode, f_mode, jc, call)
      <4> HIDE DEF jc
      <4> QED
        BY <1>0, <1>2, <1>5, <1>11, <2>2, <3>3, LosingEnd DEF Mid
    <3>5. \A p \in Pipe : jc[p] \in 0 .. 2
      BY <3>4, EndsBound
    <3>6. jc \in [Pipe -> 0 .. 2]
      BY <3>3, <3>5
    <3>7. /\ r.filp = g /\ r.coe = k /\ r.count = d /\ r.i_count = jc /\ r.asleep = FALSE /\ r.rest = {}
          /\ r.waiting = [m.waiting EXCEPT ![ino] = {}]
          /\ r.page = [m.page EXCEPT ![ino] = IF m.i_count[ino] > 1 THEN @ ELSE [i \in Index |-> Blank]]
          /\ r \in [filp : {g}, coe : {k}, count : {d}, i_count : {jc}, page : {r.page},
                    waiting : {r.waiting}, asleep : BOOLEAN, rest : {{}}]
      BY <1>8 DEF Local
    <3>8. r.page \in [Pipe -> [Index -> Byte \union {Blank}]] /\ r.waiting \in [Pipe -> SUBSET Task]
      <4>1. m.page \in [Pipe -> [Index -> Byte \union {Blank}]] /\ m.waiting \in [Pipe -> SUBSET Task]
        BY <1>0 DEF Local
      <4>2. [i \in Index |-> Blank] \in [Index -> Byte \union {Blank}]
        OBVIOUS
      <4> HIDE DEF r
      <4> QED
        BY <2>4, <3>7, <4>1, <4>2
    <3> HIDE DEF r, jc
    <3>9. r \in Local
      BY <1>2, <1>7, <3>6, <3>7, <3>8 DEF Local
    <3>10. PutOrNot(r)
      <4>1. PutOrNot(m) /\ m.waiting \in [Pipe -> SUBSET Task]
            /\ m.page \in [Pipe -> [Index -> Byte \union {Blank}]]
        BY <1>0 DEF Local, Mid
      <4>2. /\ r.waiting[ino] = {} /\ \A p \in Pipe \ {ino} : r.waiting[p] = m.waiting[p] /\ r.page[p] = m.page[p]
            /\ m.i_count[ino] > 1 => r.page[ino] = m.page[ino]
        BY <2>4, <3>7, <4>1
      <4>3. \A p \in Pipe \ {ino} : r.i_count[p] = m.i_count[p]
        BY <3>3, <3>7
      <4>4. r.i_count[ino] # 0 => m.i_count[ino] > 1
        BY <2>4, <3>2, <3>3, <3>6, <3>7
      <4>5. ASSUME NEW p \in Pipe
            PROVE  /\ r.waiting[p] = {} \/ (r.waiting[p] = waiting[p] /\ r.i_count[p] = i_count[p])
                   /\ r.i_count[p] # 0 => i_count[p] # 0 /\ r.page[p] = page[p]
        <5>1. CASE p = ino
          BY <5>1, <4>1, <4>2, <4>4, <3>2 DEF PutOrNot
        <5>2. CASE p # ino
          BY <5>2, <4>1, <4>2, <4>3 DEF PutOrNot
        <5> QED
          BY <5>1, <5>2
      <4> QED
        BY <4>5 DEF PutOrNot
    <3> QED
      BY <1>0, <1>2, <1>3, <1>4, <1>7, <1>12, <2>1, <3>1, <3>4, <3>7, <3>9, <3>10 DEF Mid, Shut
  <2> QED
    BY <1>6, <2>3, <2>4 DEF Inode
<1> QED
  BY <1>0, <1>2, <1>10, <1>11

LEMMA CloseKeeps ==
  ASSUME NEW t, Quiet(t), f_inode \in [File -> Inode \union {NULL}],
         NEW m, Mid(m, t), NEW fd \in Fd
  PROVE  Mid(Close(m, t, fd), t) /\ Shut(m, Close(m, t, fd), t, fd)
<1>0. m \in Local /\ t \in Task
  BY DEF Mid, Quiet
<1>1. CASE m.asleep
  <2>1. Close(m, t, fd) = [m EXCEPT !.rest = @ \union {fd}]
    BY <1>1 DEF Close
  <2> DEFINE r == [m EXCEPT !.rest = @ \union {fd}]
  <2>2. /\ r \in Local /\ r.filp = m.filp /\ r.coe = m.coe /\ r.count = m.count /\ r.i_count = m.i_count
        /\ r.page = m.page /\ r.waiting = m.waiting /\ r.asleep = TRUE /\ r.rest = m.rest \union {fd}
    BY <1>0, <1>1 DEF Local
  <2> HIDE DEF r
  <2> QED
    BY <2>1, <2>2 DEF Mid, Shut, PutOrNot, r
<1>2. CASE ~m.asleep /\ m.filp[t][fd] = NULL
  <2>1. Close(m, t, fd) = [m EXCEPT !.coe[t] = @ \ {fd}]
    BY <1>2 DEF Close
  <2> DEFINE r == [m EXCEPT !.coe[t] = @ \ {fd}]
  <2>2. /\ r \in Local /\ r.filp = m.filp /\ r.coe = [m.coe EXCEPT ![t] = @ \ {fd}] /\ r.count = m.count
        /\ r.i_count = m.i_count /\ r.page = m.page /\ r.waiting = m.waiting /\ r.asleep = m.asleep
        /\ r.rest = m.rest
    BY <1>0 DEF Local
  <2>3. \A u \in Task : r.coe[u] \subseteq m.coe[u]
    BY <1>0, <2>2 DEF Local
  <2> HIDE DEF r
  <2>4. Marks(r.filp, r.coe, call)
    BY <2>2, <2>3 DEF Mid, Marks
  <2> QED
    BY <1>2, <2>1, <2>2, <2>4 DEF Mid, Shut, PutOrNot, r
<1> QED
  BY <1>1, <1>2, CloseOpenKeeps

(* CloseAll goes over the descriptors in order.                             *)
CloseStep(m, t, S, fd) == IF fd \in S THEN Close(m, t, fd) ELSE m

Closes(h, m, t, S) ==
  h = [n \in 0 .. NR_OPEN |-> IF n = 0 THEN m ELSE CloseStep(h[n - 1], t, S, n - 1)]

Closing(m, t, S) == CHOOSE h : Closes(h, m, t, S)

LEMMA CloseIsLoop ==
  ASSUME NEW m, NEW t, NEW S
  PROVE  CloseAll(m, t, S) = Closing(m, t, S)[NR_OPEN]
BY DEF CloseAll, Closing, Closes, CloseStep

(* What is so when n of them have been passed.                              *)
Passed(m, t, S, n, r) ==
  /\ Mid(r, t) /\ m.rest \subseteq r.rest /\ r.rest \subseteq m.rest \union S
  /\ \A fd \in Fd : fd \in S /\ fd < n => r.filp[t][fd] = NULL \/ fd \in r.rest
  /\ \A fd \in Fd : m.filp[t][fd] = NULL => r.filp[t][fd] = NULL
  /\ \A fd \in Fd \ S : r.filp[t][fd] = m.filp[t][fd]

(* Every descriptor that is to be closed has been, or is left for after the  *)
(* sleep.                                                                   *)
LEMMA CloseAllKeeps ==
  ASSUME NEW t, Quiet(t), f_inode \in [File -> Inode \union {NULL}],
         NEW m, Mid(m, t), NEW S \in SUBSET Fd
  PROVE  Passed(m, t, S, NR_OPEN, CloseAll(m, t, S))
<1> DEFINE V == {r \in Local : Mid(r, t)}
<1>1. NR_OPEN \in Nat /\ \A n \in 1 .. NR_OPEN : n - 1 \in Fd
  BY FilesAssumption DEF Fd
<1>2. m \in V
  BY DEF Mid
<1>3. ASSUME NEW r \in V, NEW fd \in Fd
      PROVE  CloseStep(r, t, S, fd) \in V /\ (fd \in S => Shut(r, CloseStep(r, t, S, fd), t, fd))
  <2>1. CASE fd \in S
    <3>1. Mid(Close(r, t, fd), t) /\ Shut(r, Close(r, t, fd), t, fd)
      BY <1>3, CloseKeeps
    <3> QED
      BY <2>1, <3>1 DEF CloseStep, Mid
  <2>2. CASE fd \notin S
    BY <2>2 DEF CloseStep
  <2> QED
    BY <2>1, <2>2
<1> HIDE DEF V
<1> DEFINE G == [n \in 1 .. NR_OPEN |-> [r \in V |-> CloseStep(r, t, S, n - 1)]]
<1>4. G \in [1 .. NR_OPEN -> [V -> V]]
  BY <1>1, <1>3
<1>5. PICK f \in [0 .. NR_OPEN -> V] : Numbered(f, G, m, NR_OPEN)
  <2> HIDE DEF G
  <2> QED
    BY <1>1, <1>2, <1>4, NumberedIteration
<1>6. f[0] = m /\ \A n \in 1 .. NR_OPEN : f[n] = G[n][f[n - 1]]
  BY <1>5 DEF Numbered
<1>7. Closes(f, m, t, S)
  <2> DEFINE g == [n \in 0 .. NR_OPEN |-> IF n = 0 THEN m ELSE CloseStep(f[n - 1], t, S, n - 1)]
  <2>1. ASSUME NEW n \in 1 .. NR_OPEN PROVE f[n] = CloseStep(f[n - 1], t, S, n - 1)
    <3>1. f[n - 1] \in V
      BY <1>1
    <3> QED
      BY <1>6, <3>1
  <2>2. \A n \in 0 .. NR_OPEN : f[n] = g[n]
    BY <1>1, <1>6, <2>1
  <2>3. f = g
    BY <2>2
  <2> QED
    BY <2>3 DEF Closes
<1> DEFINE h == Closing(m, t, S)
<1>8. Closes(h, m, t, S)
  BY <1>7 DEF Closing
<1> HIDE DEF h
<1>9. h[0] = m /\ \A n \in 1 .. NR_OPEN : h[n] = CloseStep(h[n - 1], t, S, n - 1)
  BY <1>1, <1>8 DEF Closes
<1> DEFINE R == {n \in 0 .. NR_OPEN : Passed(m, t, S, n, h[n])}
<1>10. 0 \in R
  <2>1. \A fd \in Fd : ~(fd < 0)
    BY <1>1 DEF Fd
  <2> QED
    BY <1>1, <1>9, <2>1 DEF Passed
<1>11. ASSUME NEW n \in 1 .. NR_OPEN, n - 1 \in R
       PROVE  n \in R
  <2> DEFINE r == h[n - 1]
             q == h[n]
             d == n - 1
  <2>1. Passed(m, t, S, d, r) /\ d \in Fd /\ n \in 0 .. NR_OPEN /\ r \in V /\ q = CloseStep(r, t, S, d)
    BY <1>1, <1>9, <1>11 DEF Passed, V, Mid
  <2>2. Mid(q, t) /\ (d \in S => Shut(r, q, t, d)) /\ (d \notin S => q = r)
    BY <1>3, <2>1 DEF V, CloseStep
  <2>3. \A fd \in Fd : fd < n => fd < d \/ fd = d
    BY <1>1 DEF Fd
  <2>4. r.rest \subseteq q.rest
    BY <2>2 DEF Shut
  <2> HIDE DEF r, q, d
  <2>5. Passed(m, t, S, n, q)
    <3>1. CASE d \in S
      <4>1. q.rest \subseteq m.rest \union S
        BY <2>1, <2>2, <3>1 DEF Passed, Shut
      <4>2. ASSUME NEW fd \in Fd, fd \in S, fd < n
            PROVE  q.filp[t][fd] = NULL \/ fd \in q.rest
        BY <2>1, <2>2, <2>3, <2>4, <3>1, <4>2 DEF Passed, Shut
      <4> QED
        BY <2>1, <2>2, <2>4, <3>1, <4>1, <4>2 DEF Passed, Shut
    <3>2. CASE d \notin S
      BY <2>1, <2>2, <2>3, <3>2 DEF Passed
    <3> QED
      BY <3>1, <3>2
  <2> QED
    BY <2>1, <2>5 DEF q
<1>12. 0 .. NR_OPEN \subseteq R
  <2> HIDE DEF R
  <2> QED
    BY <1>1, <1>10, <1>11, Climbing
<1>13. Passed(m, t, S, NR_OPEN, h[NR_OPEN])
  BY <1>1, <1>12
<1> QED
  BY <1>13, CloseIsLoop DEF h

(* A descriptor more for a file that is open: nobody has taken that file.    *)
LEMMA EnteringAlone ==
  ASSUME NEW fp, NEW gp, NEW t \in Task, NEW fd \in Fd, NEW f \in File, Entered(fp, gp, t, fd, f),
         call \in [Task -> Call], Alone(fp, call), \A u \in Task : f \notin Reserves(call[u])
  PROVE  Alone(gp, call)
<1>1. \A g \in File \ {f} : Users(gp, g) = Users(fp, g)
  BY DEF Entered
<1>2. ASSUME NEW u \in Task, call[u].op = "open"
      PROVE  Users(gp, call[u].f) = {<<u, call[u].fd>>}
  <2>1. call[u].f \in File \ {f}
    BY <1>2, CallIs DEF Reserves
  <2> QED
    BY <1>1, <1>2, <2>1 DEF Alone
<1>3. ASSUME NEW u \in Task, call[u].op = "pipe", NEW i \in 1 .. 2
      PROVE  Users(gp, call[u].f[i]) = {<<u, call[u].fd[i]>>}
  <2>1. call[u].f[i] \in {call[u].f[1], call[u].f[2]}
    OBVIOUS
  <2>2. call[u].f[i] \in File \ {f}
    BY <1>3, <2>1, CallIs DEF Reserves
  <2> QED
    BY <1>1, <1>3, <2>2 DEF Alone
<1> QED
  BY <1>2, <1>3 DEF Alone

(* dupfd().                                                                 *)
LEMMA DupfdKeeps ==
  ASSUME NEW t, Quiet(t), NEW m, Mid(m, t), NEW fd \in Fd, NEW arg \in Fd
  PROVE  Mid(Dupfd(m, t, fd, arg), t)
<1> DEFINE free == {n \in Fd : n >= arg /\ m.filp[t][n] = NULL}
           k == Min(free)
           f == m.filp[t][fd]
           g == [m.filp EXCEPT ![t][k] = f]
           d == [m.count EXCEPT ![f] = @ + 1]
           e == [m.coe EXCEPT ![t] = @ \ {k}]
           r == [m EXCEPT !.filp[t][k] = f, !.coe[t] = @ \ {k}, !.count[f] = @ + 1]
<1>1. CASE m.filp[t][fd] = NULL \/ free = {}
  BY <1>1 DEF Dupfd
<1>2. CASE ~(m.filp[t][fd] = NULL \/ free = {})
  <2>1. Dupfd(m, t, fd, arg) = r
    BY <1>2 DEF Dupfd
  <2>2. k \in Fd /\ m.filp[t][k] = NULL
    <3>1. free \subseteq Nat
      BY DEF Fd
    <3> HIDE DEF free
    <3>2. k \in free
      BY <1>2, <3>1, MinIs
    <3> QED
      BY <3>2 DEF free
  <2> HIDE DEF k
  <2>3. /\ t \in Task /\ m \in Local /\ m.filp \in Table /\ m.count \in [File -> Nat] /\ f \in File
        /\ m.coe \in [Task -> SUBSET Fd]
    BY <1>2 DEF Mid, Local, Quiet, Table
  <2>4. Entered(m.filp, g, t, k, f)
    BY <2>2, <2>3, Entering
  <2>5. Counts(g, d) /\ d \in [File -> Nat]
    BY <2>2, <2>3, <2>4, EnteringCounts DEF Mid
  <2>6. Live(m.count, call, f)
    BY <1>2, <2>3, UsedIsLive, QuietTakes DEF Mid, Quiet
  <2>7. Alone(g, call)
    BY <2>2, <2>3, <2>4, <2>6, EnteringAlone DEF Mid, Live, Quiet
  <2>8. Marks(g, e, call)
    <3>1. /\ g[t][k] = f /\ \A u \in Task, x \in Fd : u # t \/ x # k => g[u][x] = m.filp[u][x]
          /\ e[t] = m.coe[t] \ {k} /\ \A u \in Task \ {t} : e[u] = m.coe[u]
          /\ \A u \in Task : e[u] \subseteq Fd
      BY <2>3, <2>4 DEF Entered, Elsewhere
    <3> HIDE DEF g, e
    <3> QED
      BY <2>3, <3>1 DEF Mid, Marks
  <2>9. Ends(d, f_inode, f_mode, m.i_count, call)
    <3>1. \A h \in File : Live(d, call, h) <=> Live(m.count, call, h)
      BY <2>3, <2>6 DEF Live
    <3> HIDE DEF d
    <3> QED
      BY <3>1, SameEnds DEF Mid
  <2>10. \A u \in Task \ {t} : g[u] = filp[u]
    BY <2>3 DEF Mid, Table
  <2>11. /\ r \in Local /\ r.filp = g /\ r.coe = e /\ r.count = d /\ r.i_count = m.i_count
         /\ r.page = m.page /\ r.waiting = m.waiting /\ r.asleep = m.asleep /\ r.rest = m.rest
    <3>1. g \in Table /\ e \in [Task -> SUBSET Fd]
      BY <2>3, <2>4 DEF Entered
    <3> QED
      BY <2>3, <2>5, <3>1 DEF Local
  <2>12. \A h \in File : d[h] > 0 => f_count[h] > 0
    BY <2>3, <2>6 DEF Mid, Live
  <2> HIDE DEF r, g, d, e
  <2> QED
    BY <2>1, <2>5, <2>7, <2>8, <2>9, <2>10, <2>11, <2>12 DEF Mid, PutOrNot
<1> QED
  BY <1>1, <1>2

(* A step that closes begins where the invariant holds.                     *)
LEMMA NowIsMid ==
  ASSUME IInv, NEW t \in Task
  PROVE  Mid(Now, t)
<1>1. Now \in Local
  BY DEF IInv, TypeOK, Now, Local, Table
<1> QED
  BY <1>1 DEF IInv, Mid, Now, PutOrNot

(* And ends where it does, when the task is then in user mode, asleep with   *)
(* the rest to close, or gone without descriptors.                          *)
LEMMA Settles ==
  ASSUME IInv, NEW t, Quiet(t), NEW m, Mid(m, t), NEW c \in Call,
         Becomes(m), Become(t, c), UNCHANGED reply, c.op \in {"user", "free", "put"},
         c.op = "free" => \A fd \in Fd : m.filp[t][fd] = NULL,
         c.op = "put" /\ c.then = Free => \A fd \in Fd \ c.fds : m.filp[t][fd] = NULL
  PROVE  Kept
<1>0. /\ t \in Task /\ m \in Local /\ call' = [call EXCEPT ![t] = c] /\ call \in [Task -> Call]
      /\ call'[t] = c /\ \A u \in Task \ {t} : call'[u] = call[u]
      /\ call' \in [Task -> Call]
      /\ filp' = m.filp /\ close_on_exec' = m.coe /\ f_count' = m.count /\ i_count' = m.i_count
      /\ page' = m.page /\ waiting' = m.waiting
      /\ f_inode' = f_inode /\ f_mode' = f_mode /\ head' = head /\ tail' = tail /\ reply' = reply
  BY DEF Quiet, Mid, Become, Becomes
<1>1. TypeOK'
  BY <1>0 DEF IInv, TypeOK, Local, Table
<1>2. Reserves(call'[t]) = {} /\ TakenBy(call'[t]) = {}
  BY <1>0 DEF Reserves, TakenBy
<1>3. \A u \in Task : Reserves(call'[u]) = Reserves(call[u]) /\ TakenBy(call'[u]) = TakenBy(call[u])
  BY <1>0, <1>2, QuietTakes
<1>4. Counts(filp', f_count')
  BY <1>0 DEF Mid
<1>5. Alone(filp', call')
  <2>1. Alone(filp', call)
    BY <1>0 DEF Mid
  <2> QED
    BY <1>0, <2>1 DEF Alone
<1>6. Marks(filp', close_on_exec', call')
  BY <1>0, <1>3 DEF Mid, Marks
<1>7. Ends(f_count', f_inode', f_mode', i_count', call')
  <2>1. \A f \in File : Live(f_count', call', f) <=> Live(m.count, call, f)
    BY <1>0, <1>3 DEF Live
  <2> QED
    BY <1>0, <2>1, SameEnds DEF Mid
<1>8. Emptied'
  <2>1. \A u \in Task \ {t} : filp'[u] = filp[u]
    BY <1>0 DEF Mid
  <2> QED
    BY <1>0, <2>1 DEF IInv, Emptied, In
<1>9. \A u \in Task \ {t}, p \in Pipe, e \in 1 .. 2 : Holds(u, p, e)' <=> Holds(u, p, e)
  BY <1>0 DEF Mid, Holds, Taken
<1>10. EndHeld'
  <2>1. ASSUME NEW u \in Task \ {t}
        PROVE  /\ In(u, "read")' => u \in Holders(call[u].inode, 1)'
               /\ In(u, "write")' => u \in Holders(call[u].inode, 2)'
    <3>1. In(u, "read") \/ In(u, "write") => call[u].inode \in Pipe
      BY <1>0, CallIs DEF In
    <3> QED
      BY <1>0, <1>9, <3>1 DEF IInv, EndHeld, Holders, In
  <2>2. ~In(t, "read")' /\ ~In(t, "write")'
    BY <1>0 DEF In
  <2> QED
    BY <2>1, <2>2 DEF EndHeld
<1>11. \A p \in Pipe : \A u \in waiting'[p] :
         u \in waiting[p] /\ i_count'[p] = i_count[p] /\ u \in Task \ {t}
  <2>1. TAKE p \in Pipe
  <2>2. waiting'[p] = {} \/ (waiting'[p] = waiting[p] /\ i_count'[p] = i_count[p])
    BY <1>0 DEF Mid, PutOrNot
  <2>3. t \notin waiting[p] /\ waiting[p] \subseteq Task
    BY DEF IInv, Sleeping, Quiet, In, TypeOK
  <2> QED
    BY <2>2, <2>3
<1>12. Sleeping'
  BY <1>0, <1>11 DEF IInv, Sleeping, In
<1>13. \A p \in Pipe : Size(p)' = Size(p)
  BY <1>0 DEF Size
<1>14. AsleepForAReason'
  BY <1>0, <1>11, <1>13 DEF IInv, AsleepForAReason, In
<1>15. Filled'
  <2>1. ASSUME NEW p \in Pipe, i_count'[p] # 0
        PROVE  Bytes(p)' = Bytes(p) /\ i_count[p] # 0
    <3>1. page'[p] = page[p] /\ i_count[p] # 0
      BY <1>0, <2>1 DEF Mid, PutOrNot
    <3> QED
      BY <1>0, <1>13, <3>1 DEF Bytes
  <2> QED
    BY <1>13, <2>1 DEF IInv, Filled
<1>16. Passes
  <2>1. \A p \in Pipe : i_count'[p] # 0 => page'[p] = page[p]
    BY <1>0 DEF Mid, PutOrNot
  <2>2. \A f \in File : Live(f_count', call', f) => Live(f_count, call, f)
    BY <1>0, <1>3 DEF Mid, Live
  <2> QED
    BY <1>0, <2>1, <2>2 DEF Passes
<1>17. IInv'
  BY <1>1, <1>4, <1>5, <1>6, <1>7, <1>8, <1>10, <1>12, <1>14, <1>15 DEF IInv
<1> QED
  BY <1>16, <1>17 DEF Kept

(* sys_close(), what is left of it after a sleep, dup2, execve and exit.      *)
LEMMA CloseThenKeeps ==
  ASSUME IInv, NEW t, Quiet(t), NEW S \in SUBSET Fd,
         NEW then \in {User, Free} \union {Dup(x, y) : x, y \in Fd},
         CloseThen(t, S, then), UNCHANGED reply,
         then = Free => \A fd \in Fd \ S : filp[t][fd] = NULL
  PROVE  Kept
<1> DEFINE m == CloseAll(Now, t, S)
<1>1. t \in Task /\ Mid(Now, t) /\ Now.rest = {} /\ Now.filp = filp
  <2>1. t \in Task /\ Mid(Now, t)
    BY NowIsMid DEF Quiet
  <2> QED
    BY <2>1 DEF Now
<1>2. Passed(Now, t, S, NR_OPEN, m)
  BY <1>1, CloseAllKeeps DEF IInv, TypeOK
<1>3. /\ Mid(m, t) /\ m.rest \in SUBSET Fd
      /\ then = Free => \A fd \in Fd \ m.rest : m.filp[t][fd] = NULL
  <2>1. \A fd \in Fd : fd < NR_OPEN
    BY FilesAssumption DEF Fd
  <2> HIDE DEF m
  <2> QED
    BY <1>1, <1>2, <2>1 DEF Passed
<1>4. /\ m.asleep => Becomes(m) /\ Become(t, Putting(m.rest, then))
      /\ ~m.asleep /\ then.op = "dup" =>
           Becomes(Dupfd(m, t, then.old, then.new)) /\ Become(t, User)
      /\ ~m.asleep /\ then.op # "dup" => Becomes(m) /\ Become(t, then)
  BY DEF CloseThen
<1> HIDE DEF m
<1>5. CASE m.asleep
  <2> DEFINE c == Putting(m.rest, then)
  <2>1. c \in Call /\ c.op = "put" /\ c.fds = m.rest /\ c.then = then
    <3>1. c.op = "put" /\ c.fds = m.rest /\ c.then = then
      BY DEF Putting
    <3>2. c \in {Putting(R, k) : R \in SUBSET Fd,
                               k \in {User, Free} \union {Dup(x, y) : x, y \in Fd}}
      BY <1>3
    <3> HIDE DEF c
    <3> QED
      BY <3>1, <3>2 DEF Call
  <2> HIDE DEF c
  <2> QED
    BY <1>3, <1>4, <1>5, <2>1, Settles DEF c
<1>6. CASE ~m.asleep /\ then.op = "dup"
  <2>1. PICK x, y \in Fd : then = Dup(x, y)
    BY <1>6 DEF User, Free
  <2>2. then.old = x /\ then.new = y
    BY <2>1 DEF Dup
  <2>3. Mid(Dupfd(m, t, x, y), t)
    BY <1>3, DupfdKeeps
  <2>4. User \in Call /\ User.op = "user"
    BY DEF User, Call
  <2> QED
    BY <1>4, <1>6, <2>2, <2>3, <2>4, Settles
<1>7. CASE ~m.asleep /\ then.op # "dup"
  <2>1. then \in {User, Free}
    BY <1>7 DEF Dup
  <2>2. User \in Call /\ Free \in Call /\ User.op = "user" /\ Free.op = "free"
    BY DEF User, Free, Call
  <2>3. m.rest = {}
    BY <1>3, <1>7 DEF Mid
  <2> QED
    BY <1>3, <1>4, <1>7, <2>1, <2>2, <2>3, Settles
<1> QED
  BY <1>5, <1>6, <1>7

(* A program that runs is in user mode.                                     *)
LEMMA RunsIsQuiet ==
  ASSUME IInv, NEW t \in Task, Runs(t)
  PROVE  Quiet(t)
BY DEF IInv, TypeOK, Runs, Quiet

LEMMA SysCloseKeeps ==
  ASSUME IInv, NEW t \in Task, NEW fd \in Fd, SysClose(t, fd)
  PROVE  Kept
<1>1. User # Free
  BY DEF User, Free
<1> QED
  BY <1>1, CloseThenKeeps, RunsIsQuiet DEF SysClose

LEMMA PutDoneKeeps ==
  ASSUME IInv, NEW t \in Task, PutDone(t)
  PROVE  Kept
<1>1. /\ Quiet(t) /\ call[t].fds \in SUBSET Fd
      /\ call[t].then \in {User, Free} \union {Dup(x, y) : x, y \in Fd}
  BY CallIs DEF IInv, TypeOK, PutDone, Quiet, In
<1>2. call[t].then = Free => \A fd \in Fd \ call[t].fds : filp[t][fd] = NULL
  BY DEF IInv, Emptied, PutDone
<1> QED
  BY <1>1, <1>2, CloseThenKeeps DEF PutDone

LEMMA SysDup2Keeps ==
  ASSUME IInv, NEW t \in Task, NEW old \in Fd, NEW new \in Fd, SysDup2(t, old, new)
  PROVE  Kept
<1>1. Dup(old, new) # Free
  BY DEF Dup, Free
<1> QED
  BY <1>1, CloseThenKeeps, RunsIsQuiet DEF SysDup2

LEMMA ExecKeeps ==
  ASSUME IInv, NEW t \in Task, Exec(t)
  PROVE  Kept
<1>1. User # Free /\ close_on_exec[t] \in SUBSET Fd
  BY DEF User, Free, IInv, TypeOK
<1> QED
  BY <1>1, CloseThenKeeps, RunsIsQuiet DEF Exec

LEMMA ExitKeeps ==
  ASSUME IInv, NEW t \in Task, Exit(t)
  PROVE  Kept
<1> DEFINE S == Fd \ FreeFds(t)
<1>1. S \in SUBSET Fd /\ \A fd \in Fd \ S : filp[t][fd] = NULL
  BY DEF FreeFds
<1>2. Quiet(t) /\ CloseThen(t, S, Free) /\ UNCHANGED reply
  BY RunsIsQuiet DEF Exit
<1> HIDE DEF S
<1> QED
  BY <1>1, <1>2, CloseThenKeeps

(* sys_dup() and fcntl's F_DUPFD.                                           *)
LEMMA SysDupKeeps ==
  ASSUME IInv, NEW t \in Task, NEW fd \in Fd, NEW arg \in Fd, SysDup(t, fd, arg)
  PROVE  Kept
<1>1. Quiet(t)
  BY RunsIsQuiet DEF SysDup
<1>2. Mid(Dupfd(Now, t, fd, arg), t)
  BY <1>1, NowIsMid, DupfdKeeps DEF Quiet
<1>3. call[t] = User /\ User \in Call /\ User.op = "user"
  <2>1. call[t] \in Call /\ call[t].op = "user"
    BY DEF IInv, TypeOK, SysDup, Runs, In
  <2>2. call[t] = User
    BY <2>1, CallIs
  <2> QED
    BY <2>2 DEF User, Call
<1>4. Become(t, User)
  <2>1. call' = call /\ call \in [Task -> Call]
    BY DEF SysDup, IInv, TypeOK
  <2>2. [call EXCEPT ![t] = User] = call
    BY <1>3, <2>1
  <2> QED
    BY <2>1, <2>2 DEF Become
<1> QED
  BY <1>1, <1>2, <1>3, <1>4, Settles DEF SysDup
-----------------------------------------------------------------------------
(* The steps that leave the pipes alone.                                    *)

(* Who holds an end of a pipe has an open file of it, and the other way.     *)
LEMMA HoldsEnd ==
  ASSUME filp \in Table, call \in [Task -> Call], Counts(filp, f_count), Alone(filp, call),
         NEW t \in Task, NEW p \in Pipe, NEW e \in 1 .. 2
  PROVE  Holds(t, p, e) <=>
           \E fd \in Fd \ TakenBy(call[t]) :
             /\ filp[t][fd] \in File
             /\ EndOf(f_count, f_inode, f_mode, call, p, e, filp[t][fd])
<1>1. Taken(t) = TakenBy(call[t])
  BY DEF Taken, TakenBy
<1>2. \A fd \in Fd \ TakenBy(call[t]) :
        filp[t][fd] # NULL <=> filp[t][fd] \in File /\ Live(f_count, call, filp[t][fd])
  <2>1. TAKE fd \in Fd \ TakenBy(call[t])
  <2>2. filp[t][fd] \in File \union {NULL} /\ NULL \notin File
    BY FilesAssumption DEF Table, File
  <2> QED
    BY <2>2, UsedIsLive
<1> QED
  BY <1>1, <1>2 DEF Holds, EndOf

LEMMA EndHasHolder ==
  ASSUME filp \in Table, call \in [Task -> Call], Counts(filp, f_count), Alone(filp, call),
         NEW p \in Pipe, NEW e \in 1 .. 2
  PROVE  IsOpen(f_count, f_inode, f_mode, call, p, e) <=> \E t \in Task : Holds(t, p, e)
<1>1. ASSUME NEW t \in Task, Holds(t, p, e)
      PROVE  IsOpen(f_count, f_inode, f_mode, call, p, e)
  BY <1>1, HoldsEnd DEF IsOpen
<1>2. ASSUME IsOpen(f_count, f_inode, f_mode, call, p, e)
      PROVE  \E t \in Task : Holds(t, p, e)
  <2>1. PICK f \in File : EndOf(f_count, f_inode, f_mode, call, p, e, f)
    BY <1>2 DEF IsOpen
  <2>2. PICK t \in Task, fd \in Fd : fd \notin TakenBy(call[t]) /\ filp[t][fd] = f
    BY <2>1, LiveIsUsed DEF EndOf
  <2>3. Holds(t, p, e)
    BY <2>1, <2>2, HoldsEnd
  <2> QED
    BY <2>3
<1> QED
  BY <1>1, <1>2

(* A task that is inside a read or a write holds the end as long as its      *)
(* descriptors and the open files stay.                                     *)
LEMMA StillHolds ==
  ASSUME IInv, NEW u \in Task, In(u, "read") \/ In(u, "write"),
         call'[u] = call[u], filp'[u] = filp[u],
         \A f \in File : Live(f_count, call, f) => f_inode'[f] = f_inode[f] /\ f_mode'[f] = f_mode[f]
  PROVE  LET p == call[u].inode IN
         /\ p \in Pipe
         /\ In(u, "read") => u \in Holders(p, 1)'
         /\ In(u, "write") => u \in Holders(p, 2)'
<1> DEFINE p == call[u].inode
<1>1. p \in Pipe
  BY CallIs DEF IInv, TypeOK, In
<1>2. ASSUME NEW e \in 1 .. 2, Holds(u, p, e)
      PROVE  Holds(u, p, e)'
  <2>1. PICK fd \in Fd \ TakenBy(call[u]) :
          filp[u][fd] \in File /\ EndOf(f_count, f_inode, f_mode, call, p, e, filp[u][fd])
    BY <1>1, <1>2, HoldsEnd DEF IInv, TypeOK, Table
  <2>2. /\ filp'[u][fd] = filp[u][fd] /\ filp[u][fd] # NULL /\ fd \notin Taken(u)'
        /\ f_inode'[filp[u][fd]] = p /\ f_mode'[filp[u][fd]] = e
    BY <2>1, FilesAssumption DEF EndOf, Taken, TakenBy, File
  <2> QED
    BY <2>2 DEF Holds
<1>3. (In(u, "read") => Holds(u, p, 1)) /\ (In(u, "write") => Holds(u, p, 2))
  BY DEF IInv, EndHeld, Holders
<1> QED
  BY <1>1, <1>2, <1>3 DEF Holders

(* So the pipes and who sleeps on them stay as they are.                     *)
LEMMA PipesStay ==
  ASSUME IInv, UNCHANGED inodes,
         \A u \in Task : In(u, "read") \/ In(u, "write") => call'[u] = call[u] /\ filp'[u] = filp[u],
         \A u \in Task : In(u, "read")' \/ In(u, "write")' => call'[u] = call[u],
         \A f \in File : Live(f_count, call, f) => f_inode'[f] = f_inode[f] /\ f_mode'[f] = f_mode[f]
  PROVE  EndHeld' /\ Sleeping' /\ AsleepForAReason' /\ Filled'
<1>1. /\ i_count' = i_count /\ page' = page /\ head' = head /\ tail' = tail /\ waiting' = waiting
      /\ waiting \in [Pipe -> SUBSET Task]
  BY DEF inodes, IInv, TypeOK
<1>2. \A p \in Pipe : Size(p)' = Size(p)
  BY <1>1 DEF Size
<1>3. \A p \in Pipe : Bytes(p)' = Bytes(p)
  BY <1>1, <1>2 DEF Bytes
<1>4. Filled'
  BY <1>1, <1>2, <1>3 DEF IInv, Filled
<1>5. \A p \in Pipe : \A u \in waiting[p] : u \in Task /\ call'[u] = call[u]
  BY <1>1 DEF IInv, Sleeping
<1>6. Sleeping'
  BY <1>1, <1>5 DEF IInv, Sleeping, In
<1>7. AsleepForAReason'
  BY <1>1, <1>2, <1>5 DEF IInv, AsleepForAReason, In
<1>8. EndHeld'
  BY StillHolds DEF EndHeld, In
<1> QED
  BY <1>4, <1>6, <1>7, <1>8

(* The first free file and descriptor of sys_open().                        *)
LEMMA FreeIs ==
  ASSUME IInv, NEW t \in Task
  PROVE  /\ FreeFds(t) \subseteq Fd /\ \A fd \in FreeFds(t) : filp[t][fd] = NULL
         /\ FreeFiles \subseteq File /\ \A f \in FreeFiles : f_count[f] = 0 /\ Users(filp, f) = {}
         /\ FreeFds(t) # {} => Min(FreeFds(t)) \in FreeFds(t)
         /\ FreeFiles # {} => Min(FreeFiles) \in FreeFiles
<1>1. FreeFds(t) \subseteq Nat /\ FreeFiles \subseteq Nat
  BY DEF FreeFds, FreeFiles, Fd, File
<1>2. \A f \in FreeFiles : Users(filp, f) = {}
  BY CountedIsUsed DEF FreeFiles, IInv
<1>3. FreeFds(t) # {} => Min(FreeFds(t)) \in FreeFds(t)
  BY <1>1, MinIs
<1>4. FreeFiles # {} => Min(FreeFiles) \in FreeFiles
  BY <1>1, MinIs
<1> QED
  BY <1>2, <1>3, <1>4 DEF FreeFds, FreeFiles

(* A program that runs has taken nothing and sleeps nowhere.                *)
LEMMA RunsIs ==
  ASSUME IInv, NEW t \in Task, Runs(t)
  PROVE  /\ Quiet(t) /\ call[t].op = "user" /\ call[t] = User
         /\ TakenBy(call[t]) = {} /\ Reserves(call[t]) = {}
<1>1. Quiet(t) /\ call[t].op = "user" /\ call[t] \in Call
  BY RunsIsQuiet DEF Runs, In, Quiet
<1>2. call[t] = User
  BY <1>1, CallIs
<1>3. TakenBy(call[t]) = {} /\ Reserves(call[t]) = {}
  BY <1>1, QuietTakes
<1> QED
  BY <1>1, <1>2, <1>3

(* No other call has taken a file that nobody uses.                         *)
LEMMA UnusedIsFree ==
  ASSUME NEW fp, NEW cl \in [Task -> Call], Alone(fp, cl), NEW f \in File, Users(fp, f) = {}, NEW u \in Task
  PROVE  f \notin Reserves(cl[u])
<1>1. cl[u].op = "open" => f # cl[u].f
  BY DEF Alone
<1>2. cl[u].op = "pipe" => f # cl[u].f[1] /\ f # cl[u].f[2]
  <2>1. 1 \in 1 .. 2 /\ 2 \in 1 .. 2
    OBVIOUS
  <2> QED
    BY <2>1 DEF Alone
<1> QED
  BY <1>1, <1>2 DEF Reserves

LEMMA SysOpenKeeps ==
  ASSUME IInv, NEW t \in Task, SysOpen(t)
  PROVE  Kept
<1> DEFINE fd == Min(FreeFds(t))
           f == Min(FreeFiles)
<1>1. /\ Runs(t) /\ FreeFds(t) # {} /\ UNCHANGED <<f_inode, f_mode, inodes, reply>>
      /\ close_on_exec' = [close_on_exec EXCEPT ![t] = @ \ {fd}]
      /\ FreeFiles = {} => UNCHANGED <<filp, f_count, call>>
      /\ FreeFiles # {} => /\ filp' = [filp EXCEPT ![t][fd] = f]
                           /\ f_count' = [f_count EXCEPT ![f] = @ + 1]
                           /\ Become(t, Opening(fd, f))
  BY DEF SysOpen
<1>2. /\ fd \in Fd /\ filp[t][fd] = NULL
      /\ FreeFiles # {} => f \in File /\ f_count[f] = 0 /\ Users(filp, f) = {}
  BY <1>1, FreeIs
<1> HIDE DEF fd, f
<1>3. /\ TypeOK /\ filp \in Table /\ call \in [Task -> Call] /\ f_count \in [File -> Nat]
      /\ close_on_exec \in [Task -> SUBSET Fd]
      /\ Counts(filp, f_count) /\ Alone(filp, call) /\ Marks(filp, close_on_exec, call)
      /\ Ends(f_count, f_inode, f_mode, i_count, call) /\ Emptied
      /\ EndHeld /\ Sleeping /\ AsleepForAReason /\ Filled
  BY DEF IInv, TypeOK, Table
<1>4. call[t].op = "user" /\ TakenBy(call[t]) = {} /\ Reserves(call[t]) = {}
  BY <1>1, RunsIs
<1>5. /\ close_on_exec' \in [Task -> SUBSET Fd]
      /\ \A u \in Task : close_on_exec'[u] \subseteq close_on_exec[u]
      /\ fd \notin close_on_exec'[t]
  BY <1>1, <1>3
<1>6. CASE FreeFiles = {}
  <2>1. UNCHANGED <<filp, f_count, call, f_inode, f_mode, i_count, page, head, tail, waiting, reply>>
    BY <1>1, <1>6 DEF inodes
  <2>2. Marks(filp', close_on_exec', call')
    BY <1>3, <1>5, <2>1 DEF Marks
  <2>3. TypeOK'
    BY <1>3, <1>5, <2>1 DEF TypeOK
  <2>4. Emptied'
    BY <1>3, <2>1 DEF Emptied, In
  <2>5. EndHeld' /\ Sleeping' /\ AsleepForAReason' /\ Filled'
    BY <1>1, <2>1, PipesStay
  <2>6. Passes
    BY <2>1 DEF Passes
  <2> QED
    BY <1>3, <2>1, <2>2, <2>3, <2>4, <2>5, <2>6 DEF IInv, Kept
<1>7. CASE FreeFiles # {}
  <2> DEFINE c == Opening(fd, f)
  <2>1. /\ f \in File /\ f_count[f] = 0 /\ Users(filp, f) = {}
        /\ filp' = [filp EXCEPT ![t][fd] = f]
        /\ f_count' = [f_count EXCEPT ![f] = @ + 1]
        /\ call' = [call EXCEPT ![t] = c]
    BY <1>1, <1>2, <1>7 DEF Become
  <2>2. c \in Call /\ c.op = "open" /\ c.fd = fd /\ c.f = f
    BY <1>2, <2>1 DEF Opening, Call
  <2> HIDE DEF c
  <2>3. /\ call'[t] = c /\ (\A u \in Task \ {t} : call'[u] = call[u]) /\ call' \in [Task -> Call]
        /\ Reserves(call'[t]) = {f} /\ TakenBy(call'[t]) = {fd}
    BY <1>3, <2>1, <2>2 DEF Reserves, TakenBy
  <2>4. Entered(filp, filp', t, fd, f)
    BY <1>2, <1>3, <2>1, Entering
  <2>5. Counts(filp', f_count') /\ f_count' \in [File -> Nat]
      <3>1. Counts(filp', [f_count EXCEPT ![f] = @ + 1])
      BY <1>2, <1>3, <2>1, <2>4, EnteringCounts
    <3>2. f_count' \in [File -> Nat]
      BY <1>3, <2>1
    <3> QED
      BY <2>1, <3>1, <3>2
  <2>6. Alone(filp', call')
    <3>1. Alone(filp', call)
      BY <1>2, <1>3, <2>1, <2>4, EnteringAlone, UnusedIsFree
    <3>2. Users(filp', f) = {<<t, fd>>}
      BY <2>1, <2>4 DEF Entered
    <3> QED
      BY <2>2, <2>3, <3>1, <3>2 DEF Alone
  <2>7. Marks(filp', close_on_exec', call')
    <3>1. \A u \in Task : \A x \in close_on_exec'[u] : filp'[u][x] = filp[u][x] /\ (u = t => x # fd)
      BY <1>3, <1>5, <2>4 DEF Entered, Elsewhere
    <3> QED
      BY <1>3, <1>5, <2>3, <3>1 DEF Marks
  <2>13. \A h \in File : Live(f_count', call', h) <=> Live(f_count, call, h)
    BY <1>3, <1>4, <2>1, <2>3 DEF Live
  <2>8. Ends(f_count', f_inode', f_mode', i_count', call')
    <3>1. f_inode' = f_inode /\ f_mode' = f_mode /\ i_count' = i_count
      BY <1>1 DEF inodes
    <3> QED
      BY <1>3, <2>13, <3>1, SameEnds
  <2>9. TypeOK'
    BY <1>1, <1>3, <1>5, <2>3, <2>4, <2>5 DEF TypeOK, Entered, Table, inodes
  <2>10. \A u \in Task \ {t} : filp'[u] = filp[u]
    BY <1>3, <2>1 DEF Table
  <2>11. Emptied'
    BY <1>3, <2>2, <2>3, <2>10 DEF Emptied, In
  <2>12. EndHeld' /\ Sleeping' /\ AsleepForAReason' /\ Filled'
    <3>1. UNCHANGED <<inodes, f_inode, f_mode>>
      BY <1>1
    <3>2. \A u \in Task : In(u, "read") \/ In(u, "write") => call'[u] = call[u] /\ filp'[u] = filp[u]
      BY <1>4, <2>3, <2>10 DEF In
    <3>3. \A u \in Task : In(u, "read")' \/ In(u, "write")' => call'[u] = call[u]
      BY <2>2, <2>3 DEF In
    <3> QED
      BY <3>1, <3>2, <3>3, PipesStay
  <2>14. Passes
    BY <1>1, <2>13 DEF Passes, inodes
  <2> QED
    BY <2>5, <2>6, <2>7, <2>8, <2>9, <2>11, <2>12, <2>14 DEF IInv, Kept
<1> QED
  BY <1>6, <1>7

(* SetCloseOnExec marks a descriptor that is open, or clears a mark.         *)
LEMMA SetCloseOnExecKeeps ==
  ASSUME IInv, NEW t \in Task, NEW fd \in Fd, SetCloseOnExec(t, fd)
  PROVE  Kept
<1>1. /\ Runs(t) /\ filp[t][fd] # NULL
      /\ UNCHANGED <<filp, f_count, f_inode, f_mode, inodes, call, reply>>
  BY DEF SetCloseOnExec
<1>2. PICK S \in {{}, {fd}} : close_on_exec' = [close_on_exec EXCEPT ![t] = (@ \ {fd}) \union S]
  BY DEF SetCloseOnExec
<1>3. close_on_exec \in [Task -> SUBSET Fd]
  BY DEF IInv, TypeOK
<1>4. /\ close_on_exec' \in [Task -> SUBSET Fd] /\ \A u \in Task \ {t} : close_on_exec'[u] = close_on_exec[u]
      /\ close_on_exec'[t] \subseteq close_on_exec[t] \union {fd}
  BY <1>2, <1>3
<1>5. TypeOK'
  BY <1>1, <1>4 DEF IInv, TypeOK, inodes
<1>6. Marks(filp', close_on_exec', call')
  <2>1. TakenBy(call[t]) = {}
    BY <1>1, RunsIs
  <2> QED
    BY <1>1, <1>4, <2>1 DEF IInv, Marks
<1>7. EndHeld' /\ Sleeping' /\ AsleepForAReason' /\ Filled'
  BY <1>1, PipesStay
<1>8. Emptied'
  BY <1>1 DEF IInv, Emptied, In
<1>9. i_count' = i_count
  BY <1>1 DEF inodes
<1>10. Passes
  BY <1>1 DEF Passes, inodes
<1> QED
  BY <1>1, <1>5, <1>6, <1>7, <1>8, <1>9, <1>10 DEF IInv, Kept

LEMMA ReturnKeeps ==
  ASSUME IInv, NEW t \in Task, Return(t)
  PROVE  IInv'
<1>1. UNCHANGED <<filp, close_on_exec, f_count, f_inode, f_mode, inodes, call>>
  BY DEF Return, files
<1>2. reply' \in [Task -> [kind : {"none", "data", "eof", "written", "broken"}, bytes : Seq(Byte)]]
  <2>1. Promise!None \in [kind : {"none", "data", "eof", "written", "broken"}, bytes : Seq(Byte)]
    BY DEF Promise!None
  <2> QED
    BY <2>1 DEF Return, IInv, TypeOK
<1>3. TypeOK'
  BY <1>1, <1>2 DEF IInv, TypeOK, inodes
<1>4. EndHeld' /\ Sleeping' /\ AsleepForAReason' /\ Filled'
  BY <1>1, PipesStay
<1>5. Emptied'
  BY <1>1 DEF IInv, Emptied, In
<1>6. i_count' = i_count
  BY <1>1 DEF inodes
<1> QED
  BY <1>1, <1>3, <1>4, <1>5, <1>6 DEF IInv

(* A file that a call has taken is used by that descriptor of the call, and  *)
(* counted once.                                                            *)
TakenOpen(fp, cnt, c, t) ==
  /\ c.f \in File /\ c.fd \in Fd /\ fp[t][c.fd] = c.f /\ cnt[c.f] = 1
  /\ Reserves(c) = {c.f} /\ TakenBy(c) = {c.fd}
TakenPipe(fp, cnt, c, t) ==
  /\ c.f \in [1 .. 2 -> File] /\ c.fd \in [1 .. 2 -> Fd]
  /\ c.f[1] # c.f[2] /\ c.fd[1] # c.fd[2]
  /\ \A i \in 1 .. 2 : fp[t][c.fd[i]] = c.f[i] /\ cnt[c.f[i]] = 1
  /\ Reserves(c) = {c.f[1], c.f[2]} /\ TakenBy(c) = {c.fd[1], c.fd[2]}

LEMMA TakenIs ==
  ASSUME NEW fp \in Table, NEW cnt, Counts(fp, cnt), NEW cl \in [Task -> Call], Alone(fp, cl),
         NEW t \in Task
  PROVE  /\ cl[t].op = "open" => TakenOpen(fp, cnt, cl[t], t)
         /\ cl[t].op = "pipe" => TakenPipe(fp, cnt, cl[t], t)
         /\ \A u \in Task \ {t} : Reserves(cl[u]) \intersect Reserves(cl[t]) = {}
<1> DEFINE c == cl[t]
<1>1. ASSUME NEW f \in File, NEW fd, Users(fp, f) = {<<t, fd>>}
      PROVE  fp[t][fd] = f /\ cnt[f] = 1
  <2>1. <<t, fd>> \in Users(fp, f)
    BY <1>1
  <2>2. fp[t][fd] = f
    BY <2>1 DEF Users
  <2>3. Cardinality({<<t, fd>>}) = 1
    BY FS_Singleton
  <2> QED
    BY <1>1, <2>2, <2>3 DEF Counts
<1>2. ASSUME c.op = "open"
      PROVE  TakenOpen(fp, cnt, c, t)
  <2>1. c.f \in File /\ c.fd \in Fd
    BY <1>2, CallIs
  <2>2. Users(fp, c.f) = {<<t, c.fd>>}
    BY <1>2 DEF Alone
  <2>3. fp[t][c.fd] = c.f /\ cnt[c.f] = 1
    BY <1>1, <2>1, <2>2
  <2> QED
    BY <1>2, <2>1, <2>3 DEF Reserves, TakenBy, TakenOpen
<1>3. ASSUME c.op = "pipe"
      PROVE  TakenPipe(fp, cnt, c, t)
  <2>1. c.f \in [1 .. 2 -> File] /\ c.fd \in [1 .. 2 -> Fd]
    BY <1>3, CallIs
  <2>2. /\ c.f[1] # c.f[2] /\ c.fd[1] # c.fd[2]
        /\ \A i \in 1 .. 2 : Users(fp, c.f[i]) = {<<t, c.fd[i]>>}
    BY <1>3 DEF Alone
  <2>3. \A i \in 1 .. 2 : fp[t][c.fd[i]] = c.f[i] /\ cnt[c.f[i]] = 1
    BY <1>1, <2>1, <2>2
  <2> QED
    BY <1>3, <2>1, <2>2, <2>3 DEF Reserves, TakenBy, TakenPipe
<1>4. ASSUME NEW u \in Task, NEW f \in Reserves(cl[u])
      PROVE  \E fd : Users(fp, f) = {<<u, fd>>}
  <2>1. CASE cl[u].op = "open"
    BY <1>4, <2>1 DEF Reserves, Alone
  <2>2. CASE cl[u].op = "pipe"
    <3>1. PICK i \in 1 .. 2 : f = cl[u].f[i]
      BY <1>4, <2>2 DEF Reserves
    <3> QED
      BY <2>2, <3>1 DEF Alone
  <2> QED
    BY <1>4, <2>1, <2>2 DEF Reserves
<1>5. ASSUME NEW u \in Task \ {t}, NEW f \in Reserves(cl[u]), f \in Reserves(c)
      PROVE  FALSE
  <2>1. PICK x : Users(fp, f) = {<<u, x>>}
    BY <1>4, <1>5
  <2>2. PICK y : Users(fp, f) = {<<t, y>>}
    BY <1>4, <1>5
  <2>3. <<u, x>> = <<t, y>>
    BY <2>1, <2>2
  <2> QED
    BY <2>3
<1> QED
  BY <1>2, <1>3, <1>5

(* open_namei() found the name: the file is filled in, with no pipe.         *)
LEMMA OpenFoundKeeps ==
  ASSUME IInv, NEW t \in Task, OpenFound(t)
  PROVE  Kept
<1> DEFINE f == call[t].f
           fd == call[t].fd
<1>1. /\ call[t].op = "open" /\ f_mode' = [f_mode EXCEPT ![f] = 0]
      /\ f_count' = [f_count EXCEPT ![f] = 1] /\ f_inode' = [f_inode EXCEPT ![f] = Regular]
      /\ call' = [call EXCEPT ![t] = User]
      /\ UNCHANGED <<filp, close_on_exec, inodes, reply>>
  BY DEF OpenFound, Become, In
<1>2. /\ TypeOK /\ filp \in Table /\ call \in [Task -> Call] /\ f_count \in [File -> Nat]
      /\ Counts(filp, f_count) /\ Alone(filp, call) /\ Marks(filp, close_on_exec, call)
      /\ Ends(f_count, f_inode, f_mode, i_count, call)
      /\ f_inode \in [File -> Inode \union {NULL}] /\ f_mode \in [File -> 0 .. 2]
  BY DEF IInv, TypeOK, Table
<1>3. /\ f \in File /\ fd \in Fd /\ filp[t][fd] = f /\ f_count[f] = 1
      /\ Reserves(call[t]) = {f} /\ TakenBy(call[t]) = {fd}
      /\ \A u \in Task \ {t} : f \notin Reserves(call[u])
  <2>1. TakenOpen(filp, f_count, call[t], t)
    BY <1>1, <1>2, TakenIs
  <2>2. \A u \in Task \ {t} : Reserves(call[u]) \intersect Reserves(call[t]) = {}
    BY <1>2, TakenIs
  <2> QED
    BY <2>1, <2>2 DEF TakenOpen
<1> HIDE DEF f, fd
<1>4. User \in Call /\ User.op = "user" /\ Reserves(User) = {} /\ TakenBy(User) = {}
  BY DEF User, Call, Reserves, TakenBy
<1>5. /\ call'[t] = User /\ (\A u \in Task \ {t} : call'[u] = call[u]) /\ call' \in [Task -> Call]
  BY <1>1, <1>2, <1>4
<1>6. f_count' = f_count
  BY <1>1, <1>2, <1>3
<1>7. Counts(filp', f_count')
  BY <1>1, <1>2, <1>6
<1>8. Alone(filp', call')
  BY <1>1, <1>2, <1>4, <1>5 DEF Alone
<1>9. Marks(filp', close_on_exec', call')
  BY <1>1, <1>2, <1>4, <1>5 DEF Marks
<1>10. /\ f_inode'[f] = Regular /\ f_mode'[f] = 0
       /\ \A g \in File \ {f} : f_inode'[g] = f_inode[g] /\ f_mode'[g] = f_mode[g]
       /\ f_inode' \in [File -> Inode \union {NULL}] /\ f_mode' \in [File -> 0 .. 2]
  BY <1>1, <1>2, <1>3 DEF Inode
<1>11. \A g \in File : Live(f_count', call', g) <=> Live(f_count, call, g) \/ g = f
  BY <1>3, <1>4, <1>5, <1>6 DEF Live
<1>12. ~Live(f_count, call, f)
  BY <1>3 DEF Live
<1>13. Ends(f_count', f_inode', f_mode', i_count', call')
  <2>0. Regular \in Inode /\ Regular \notin Pipe /\ i_count' = i_count
    BY <1>1, FilesAssumption DEF Inode, inodes
  <2>1. \A p \in Pipe, e \in 1 .. 2 : IsOpen(f_count', f_inode', f_mode', call', p, e)
                                      <=> IsOpen(f_count, f_inode, f_mode, call, p, e)
    BY <1>10, <1>11, <1>12, <2>0 DEF IsOpen, EndOf
  <2>2. \A p \in Pipe : i_count'[p] = Bit(IsOpen(f_count', f_inode', f_mode', call', p, 1))
                                      + Bit(IsOpen(f_count', f_inode', f_mode', call', p, 2))
    BY <1>2, <2>0, <2>1 DEF Ends, Bit
  <2>3. \A g \in File : Live(f_count', call', g) =>
          f_inode'[g] \in Inode /\ (f_inode'[g] \in Pipe => f_mode'[g] \in 1 .. 2)
    BY <1>2, <1>10, <1>11, <2>0 DEF Ends
  <2>4. \A g, h \in File :
          Live(f_count', call', g) /\ Live(f_count', call', h) /\ f_inode'[g] = f_inode'[h]
            /\ f_inode'[g] \in Pipe /\ f_mode'[g] = f_mode'[h] => g = h
    BY <1>2, <1>10, <1>11, <2>0 DEF Ends
  <2> QED
    BY <2>2, <2>3, <2>4 DEF Ends
<1>14. TypeOK'
  BY <1>1, <1>2, <1>5, <1>6, <1>10 DEF TypeOK, inodes
<1>15. Emptied'
  BY <1>1, <1>4, <1>5 DEF IInv, Emptied, In
<1>16. EndHeld' /\ Sleeping' /\ AsleepForAReason' /\ Filled'
  <2>1. UNCHANGED inodes
    BY <1>1
  <2>2. \A u \in Task : In(u, "read") \/ In(u, "write") => call'[u] = call[u] /\ filp'[u] = filp[u]
    BY <1>1, <1>5 DEF In
  <2>3. \A u \in Task : In(u, "read")' \/ In(u, "write")' => call'[u] = call[u]
    BY <1>4, <1>5 DEF In
  <2>4. \A g \in File : Live(f_count, call, g) => f_inode'[g] = f_inode[g] /\ f_mode'[g] = f_mode[g]
    BY <1>10, <1>12
  <2> QED
    BY <2>1, <2>2, <2>3, <2>4, PipesStay
<1>17. Passes
  <2>1. Regular \notin Pipe
    BY FilesAssumption
  <2> QED
    BY <1>1, <1>10, <1>11, <2>1 DEF Passes, inodes
<1> QED
  BY <1>7, <1>8, <1>9, <1>13, <1>14, <1>15, <1>16, <1>17 DEF IInv, Kept

(* open_namei() found nothing: what was taken is given back.                *)
LEMMA OpenFailedKeeps ==
  ASSUME IInv, NEW t \in Task, OpenFailed(t)
  PROVE  Kept
<1> DEFINE f == call[t].f
           fd == call[t].fd
<1>1. /\ call[t].op = "open" /\ filp' = [filp EXCEPT ![t][fd] = NULL]
      /\ f_count' = [f_count EXCEPT ![f] = 0]
      /\ call' = [call EXCEPT ![t] = User]
      /\ UNCHANGED <<close_on_exec, f_inode, f_mode, inodes, reply>>
  BY DEF OpenFailed, Become, In
<1>2. /\ TypeOK /\ filp \in Table /\ call \in [Task -> Call] /\ f_count \in [File -> Nat]
      /\ Counts(filp, f_count) /\ Alone(filp, call) /\ Marks(filp, close_on_exec, call)
      /\ Ends(f_count, f_inode, f_mode, i_count, call) /\ close_on_exec \in [Task -> SUBSET Fd]
  BY DEF IInv, TypeOK, Table
<1>3. /\ f \in File /\ fd \in Fd /\ filp[t][fd] = f /\ f_count[f] = 1
      /\ Reserves(call[t]) = {f} /\ TakenBy(call[t]) = {fd}
      /\ \A u \in Task \ {t} : f \notin Reserves(call[u])
  <2>1. TakenOpen(filp, f_count, call[t], t)
    BY <1>1, <1>2, TakenIs
  <2>2. \A u \in Task \ {t} : Reserves(call[u]) \intersect Reserves(call[t]) = {}
    BY <1>2, TakenIs
  <2> QED
    BY <2>1, <2>2 DEF TakenOpen
<1> HIDE DEF f, fd
<1>4. User \in Call /\ User.op = "user" /\ Reserves(User) = {} /\ TakenBy(User) = {}
  BY DEF User, Call, Reserves, TakenBy
<1>5. /\ call'[t] = User /\ (\A u \in Task \ {t} : call'[u] = call[u]) /\ call' \in [Task -> Call]
  BY <1>1, <1>2, <1>4
<1>6. Left(filp, filp', t, fd, f)
  BY <1>1, <1>2, <1>3, Leaving
<1>7. Counts(filp', f_count') /\ f_count' \in [File -> Nat]
  <2>1. Counts(filp', [f_count EXCEPT ![f] = @ - 1])
    BY <1>2, <1>3, <1>6, LeavingCounts
  <2>2. f_count' = [f_count EXCEPT ![f] = @ - 1] /\ f_count' \in [File -> Nat]
    BY <1>1, <1>2, <1>3
  <2> QED
    BY <2>1, <2>2
<1>8. Alone(filp', call')
  <2>1. ASSUME NEW u \in Task \ {t}, NEW g \in Reserves(call[u]), g \in File
        PROVE  Users(filp', g) = Users(filp, g)
    <3>1. g # f
      BY <1>3, <2>1
    <3> QED
      BY <1>6, <2>1, <3>1 DEF Left
  <2>2. ASSUME NEW u \in Task, call'[u].op = "open"
        PROVE  Users(filp', call'[u].f) = {<<u, call'[u].fd>>}
    <3>1. u # t /\ call'[u] = call[u]
      BY <1>4, <1>5, <2>2
    <3>2. call[u].f \in File /\ call[u].f \in Reserves(call[u])
      BY <1>2, <2>2, <3>1, CallIs DEF Reserves
    <3> QED
      BY <1>2, <2>1, <2>2, <3>1, <3>2 DEF Alone
  <2>3. ASSUME NEW u \in Task, call'[u].op = "pipe"
        PROVE  /\ call'[u].f[1] # call'[u].f[2] /\ call'[u].fd[1] # call'[u].fd[2]
               /\ \A i \in 1 .. 2 : Users(filp', call'[u].f[i]) = {<<u, call'[u].fd[i]>>}
    <3>1. u # t /\ call'[u] = call[u]
      BY <1>4, <1>5, <2>3
    <3>2. \A i \in 1 .. 2 : call[u].f[i] \in File /\ call[u].f[i] \in Reserves(call[u])
      BY <1>2, <2>3, <3>1, CallIs DEF Reserves
    <3> QED
      BY <1>2, <2>1, <2>3, <3>1, <3>2 DEF Alone
  <2> QED
    BY <2>2, <2>3 DEF Alone
<1>9. Marks(filp', close_on_exec', call')
  <2>1. \A u \in Task : \A x \in close_on_exec[u] : x \in Fd /\ (u = t => x # fd)
    BY <1>2, <1>3 DEF Marks
  <2>2. \A u \in Task : \A x \in close_on_exec[u] : filp'[u][x] = filp[u][x]
    BY <1>6, <2>1 DEF Left, Elsewhere
  <2> QED
    BY <1>1, <1>2, <1>4, <1>5, <2>2 DEF Marks
<1>10. \A g \in File : Live(f_count', call', g) <=> Live(f_count, call, g)
  <2>1. f_count'[f] = 0 /\ \A g \in File \ {f} : f_count'[g] = f_count[g]
    BY <1>1, <1>2, <1>3
  <2>2. ~Live(f_count, call, f) /\ ~Live(f_count', call', f)
    BY <1>3, <2>1 DEF Live
  <2>3. \A g \in File \ {f} : \A u \in Task : g \in Reserves(call'[u]) <=> g \in Reserves(call[u])
    BY <1>3, <1>4, <1>5
  <2> QED
    BY <2>1, <2>2, <2>3 DEF Live
<1>11. Ends(f_count', f_inode', f_mode', i_count', call')
  <2>1. f_inode' = f_inode /\ f_mode' = f_mode /\ i_count' = i_count
    BY <1>1 DEF inodes
  <2> QED
    BY <1>2, <1>10, <2>1, SameEnds
<1>12. TypeOK'
  BY <1>1, <1>2, <1>5, <1>6, <1>7 DEF TypeOK, Left, Table, inodes
<1>13. \A u \in Task \ {t} : filp'[u] = filp[u]
  BY <1>1, <1>2 DEF Table
<1>14. Emptied'
  BY <1>4, <1>5, <1>13 DEF IInv, Emptied, In
<1>15. EndHeld' /\ Sleeping' /\ AsleepForAReason' /\ Filled'
  <2>1. UNCHANGED <<inodes, f_inode, f_mode>>
    BY <1>1
  <2>2. \A u \in Task : In(u, "read") \/ In(u, "write") => call'[u] = call[u] /\ filp'[u] = filp[u]
    BY <1>1, <1>5, <1>13 DEF In
  <2>3. \A u \in Task : In(u, "read")' \/ In(u, "write")' => call'[u] = call[u]
    BY <1>4, <1>5 DEF In
  <2> QED
    BY <2>1, <2>2, <2>3, PipesStay
<1>16. Passes
  BY <1>1, <1>10 DEF Passes, inodes
<1> QED
  BY <1>7, <1>8, <1>9, <1>11, <1>12, <1>14, <1>15, <1>16 DEF IInv, Kept

(* fork: the descriptors of the child count once more (fork.c:111-113).      *)
Forked(fp, gp, cnt, d, t) ==
  /\ Counts(gp, d) /\ d \in [File -> Nat] /\ gp \in Table
  /\ \A f \in File : cnt[f] > 0 <=> d[f] > 0
  /\ \A f \in File : (\A fd \in Fd : fp[t][fd] # f) => Users(gp, f) = Users(fp, f)

LEMMA ForkCounts ==
  ASSUME NEW fp \in Table, NEW cnt \in [File -> Nat], Counts(fp, cnt),
         NEW t \in Task, NEW c \in Task, \A fd \in Fd : fp[c][fd] = NULL,
         NEW gp, gp = [fp EXCEPT ![c] = fp[t]],
         NEW d, d = [f \in File |-> cnt[f] + Cardinality({fd \in Fd : fp[t][fd] = f})]
  PROVE  Forked(fp, gp, cnt, d, t)
<1>0. NULL \notin File
  BY FilesAssumption DEF File
<1>1. gp \in Table /\ gp[c] = fp[t] /\ \A u \in Task \ {c} : gp[u] = fp[u]
  BY DEF Table
<1>2. ASSUME NEW f \in File
      PROVE  /\ d[f] = Cardinality(Users(gp, f)) /\ d[f] \in Nat
             /\ cnt[f] > 0 <=> d[f] > 0
             /\ (\A fd \in Fd : fp[t][fd] # f) => Users(gp, f) = Users(fp, f)
  <2> DEFINE S == {fd \in Fd : fp[t][fd] = f}
             I == {<<c, fd>> : fd \in S}
             g == [fd \in S |-> <<c, fd>>]
  <2>1. IsFiniteSet(S) /\ Cardinality(S) \in Nat
    <3>1. 0 \in Int /\ NR_OPEN - 1 \in Int
      BY FilesAssumption
    <3>2. IsFiniteSet(Fd)
      BY <3>1, FS_Interval DEF Fd
    <3> QED
      BY <3>2, FS_Subset, FS_CardinalityType
  <2>2. IsFiniteSet(I) /\ Cardinality(I) = Cardinality(S)
    <3>1. g \in Bijection(S, I)
      BY DEF Bijection, Injection, Surjection, IsInjective
    <3> HIDE DEF g, S, I
    <3>2. ExistsBijection(S, I)
      BY <3>1 DEF ExistsBijection
    <3> QED
      BY <2>1, <3>2, FS_Bijection
  <2>3. Users(gp, f) = Users(fp, f) \union I /\ Users(fp, f) \intersect I = {}
    <3>1. \A u \in Users(fp, f) : u[1] # c
      BY <1>0 DEF Users
    <3>2. \A u \in I : u[1] = c /\ u \in Task \X Fd /\ gp[u[1]][u[2]] = f
      BY <1>1
    <3>3. Users(fp, f) \subseteq Users(gp, f)
      BY <1>1, <3>1 DEF Users
    <3>4. I \subseteq Users(gp, f)
      BY <3>2 DEF Users
    <3>5. ASSUME NEW u \in Users(gp, f), u \notin Users(fp, f)
          PROVE  u \in I
      <4>1. u \in Task \X Fd /\ gp[u[1]][u[2]] = f
        BY <3>5 DEF Users
      <4>2. u[1] = c
        BY <1>1, <3>5, <4>1 DEF Users
      <4>3. u = <<c, u[2]>> /\ u[2] \in S
        BY <1>1, <4>1, <4>2
      <4> QED
        BY <4>3
    <3> HIDE DEF I
    <3> QED
      BY <3>1, <3>2, <3>3, <3>4, <3>5
  <2>4. Cardinality(Users(gp, f)) = Cardinality(Users(fp, f)) + Cardinality(I)
    <3> HIDE DEF I
    <3>1. IsFiniteSet(Users(fp, f)) /\ IsFiniteSet(I)
      BY <2>2, UsersFinite
    <3>2. Cardinality(Users(fp, f) \union I)
            = Cardinality(Users(fp, f)) + Cardinality(I) - Cardinality(Users(fp, f) \intersect I)
      BY <3>1, FS_Union
    <3>3. Cardinality(Users(fp, f) \intersect I) = 0
      BY <2>3, FS_EmptySet
    <3>4. Cardinality(Users(fp, f)) \in Nat /\ Cardinality(I) \in Nat
      BY <3>1, FS_CardinalityType
    <3>5. Cardinality(Users(gp, f)) = Cardinality(Users(fp, f)) + Cardinality(I) - 0
      BY <2>3, <3>2, <3>3
    <3> QED
      BY <3>4, <3>5
  <2>5. d[f] = cnt[f] + Cardinality(S) /\ cnt[f] = Cardinality(Users(fp, f)) /\ cnt[f] \in Nat
    BY DEF Counts
  <2>6. S # {} => cnt[f] > 0
    <3>1. ASSUME NEW fd \in S PROVE cnt[f] > 0
      <4>1. <<t, fd>> \in Users(fp, f)
        BY DEF Users
      <4> QED
        BY <4>1, CountedIsUsed
    <3> QED
      BY <3>1
  <2>7. S = {} => Cardinality(S) = 0 /\ I = {}
    BY FS_EmptySet
  <2>8. (\A fd \in Fd : fp[t][fd] # f) => S = {}
    OBVIOUS
  <2> DEFINE n == Cardinality(S)
  <2>9. d[f] = cnt[f] + n /\ n \in Nat /\ cnt[f] \in Nat /\ (n > 0 => cnt[f] > 0)
    BY <2>1, <2>5, <2>6, <2>7
  <2>10. Cardinality(Users(gp, f)) = cnt[f] + n
    BY <2>2, <2>4, <2>5
  <2>11. (\A fd \in Fd : fp[t][fd] # f) => Users(gp, f) = Users(fp, f)
    <3> HIDE DEF S, I
    <3> QED
      BY <2>3, <2>7, <2>8
  <2> HIDE DEF n, S, I
  <2> QED
    BY <2>9, <2>10, <2>11
<1>3. d \in [File -> Nat]
  BY <1>2
<1> QED
  BY <1>1, <1>2, <1>3 DEF Counts, Forked

LEMMA ForkKeeps ==
  ASSUME IInv, NEW t \in Task, NEW c \in Task, Fork(t, c)
  PROVE  Kept
<1>1. /\ Runs(t) /\ call[c].op = "free"
      /\ filp' = [filp EXCEPT ![c] = filp[t]]
      /\ close_on_exec' = [close_on_exec EXCEPT ![c] = close_on_exec[t]]
      /\ f_count' = [f \in File |-> f_count[f] + Cardinality({fd \in Fd : filp[t][fd] = f})]
      /\ call' = [call EXCEPT ![c] = User]
      /\ UNCHANGED <<f_inode, f_mode, inodes, reply>>
  BY DEF Fork, Become, In
<1>2. /\ TypeOK /\ filp \in Table /\ call \in [Task -> Call] /\ f_count \in [File -> Nat]
      /\ Counts(filp, f_count) /\ Alone(filp, call) /\ Marks(filp, close_on_exec, call)
      /\ Ends(f_count, f_inode, f_mode, i_count, call) /\ close_on_exec \in [Task -> SUBSET Fd]
      /\ \A fd \in Fd : filp[c][fd] = NULL
  BY <1>1 DEF IInv, TypeOK, Table, Emptied, In
<1>3. call[t].op = "user" /\ TakenBy(call[t]) = {} /\ Reserves(call[t]) = {} /\ t # c
  BY <1>1, RunsIs
<1>4. User \in Call /\ User.op = "user" /\ Reserves(User) = {} /\ TakenBy(User) = {}
  BY DEF User, Call, Reserves, TakenBy
<1>5. /\ call'[c] = User /\ (\A u \in Task \ {c} : call'[u] = call[u]) /\ call' \in [Task -> Call]
  BY <1>1, <1>2, <1>4
<1>6. Reserves(call[c]) = {} /\ TakenBy(call[c]) = {}
  BY <1>1 DEF Reserves, TakenBy
<1>7. \A u \in Task : Reserves(call'[u]) = Reserves(call[u]) /\ TakenBy(call'[u]) = TakenBy(call[u])
  BY <1>4, <1>5, <1>6
<1>8. /\ Counts(filp', f_count') /\ f_count' \in [File -> Nat] /\ filp' \in Table
      /\ \A f \in File : f_count[f] > 0 <=> f_count'[f] > 0
      /\ \A f \in File : (\A fd \in Fd : filp[t][fd] # f) => Users(filp', f) = Users(filp, f)
  <2>1. Forked(filp, filp', f_count, f_count', t)
    BY <1>1, <1>2, ForkCounts
  <2> QED
    BY <2>1 DEF Forked
<1>9. filp'[c] = filp[t] /\ \A u \in Task \ {c} : filp'[u] = filp[u]
  BY <1>1, <1>2 DEF Table
<1>10. close_on_exec'[c] = close_on_exec[t] /\ (\A u \in Task \ {c} : close_on_exec'[u] = close_on_exec[u])
       /\ close_on_exec' \in [Task -> SUBSET Fd]
  BY <1>1, <1>2
<1>11. Alone(filp', call')
  <2>1. ASSUME NEW u \in Task, NEW f \in Reserves(call[u]), f \in File
        PROVE  Users(filp', f) = Users(filp, f)
    <3>1. ASSUME NEW fd \in Fd, filp[t][fd] = f
          PROVE  FALSE
      <4>1. Live(f_count, call, filp[t][fd])
        <5>1. filp[t][fd] # NULL
          BY <2>1, <3>1, FilesAssumption DEF File
        <5> QED
          BY <1>2, <1>3, <5>1, UsedIsLive
      <4> QED
        BY <2>1, <3>1, <4>1 DEF Live
    <3> QED
      BY <1>8, <2>1, <3>1
  <2>2. ASSUME NEW u \in Task, call'[u].op = "open"
        PROVE  Users(filp', call'[u].f) = {<<u, call'[u].fd>>}
    <3>1. call'[u] = call[u]
      BY <1>4, <1>5, <2>2
    <3>2. call[u].f \in File /\ call[u].f \in Reserves(call[u])
      BY <1>2, <2>2, <3>1, CallIs DEF Reserves
    <3> QED
      BY <1>2, <2>1, <2>2, <3>1, <3>2 DEF Alone
  <2>3. ASSUME NEW u \in Task, call'[u].op = "pipe"
        PROVE  /\ call'[u].f[1] # call'[u].f[2] /\ call'[u].fd[1] # call'[u].fd[2]
               /\ \A i \in 1 .. 2 : Users(filp', call'[u].f[i]) = {<<u, call'[u].fd[i]>>}
    <3>1. call'[u] = call[u]
      BY <1>4, <1>5, <2>3
    <3>2. \A i \in 1 .. 2 : call[u].f[i] \in File /\ call[u].f[i] \in Reserves(call[u])
      BY <1>2, <2>3, <3>1, CallIs DEF Reserves
    <3> QED
      BY <1>2, <2>1, <2>3, <3>1, <3>2 DEF Alone
  <2> QED
    BY <2>2, <2>3 DEF Alone
<1>12. Marks(filp', close_on_exec', call')
  <2>1. \A x \in close_on_exec'[c] : filp'[c][x] # NULL /\ x \notin TakenBy(call'[c])
    BY <1>2, <1>4, <1>5, <1>9, <1>10 DEF Marks
  <2>2. \A u \in Task \ {c} : \A x \in close_on_exec'[u] : filp'[u][x] # NULL /\ x \notin TakenBy(call'[u])
    BY <1>2, <1>5, <1>9, <1>10 DEF Marks
  <2> QED
    BY <2>1, <2>2 DEF Marks
<1>17. \A h \in File : Live(f_count', call', h) <=> Live(f_count, call, h)
  BY <1>7, <1>8 DEF Live
<1>13. Ends(f_count', f_inode', f_mode', i_count', call')
  <2>1. f_inode' = f_inode /\ f_mode' = f_mode /\ i_count' = i_count
    BY <1>1 DEF inodes
  <2> QED
    BY <1>2, <1>17, <2>1, SameEnds
<1>14. TypeOK'
  BY <1>1, <1>2, <1>5, <1>8, <1>10 DEF TypeOK, Table, inodes
<1>15. Emptied'
  BY <1>4, <1>5, <1>9 DEF IInv, Emptied, In
<1>16. EndHeld' /\ Sleeping' /\ AsleepForAReason' /\ Filled'
  <2>1. UNCHANGED <<inodes, f_inode, f_mode>>
    BY <1>1
  <2>2. \A u \in Task : In(u, "read") \/ In(u, "write") => call'[u] = call[u] /\ filp'[u] = filp[u]
    BY <1>1, <1>5, <1>9 DEF In
  <2>3. \A u \in Task : In(u, "read")' \/ In(u, "write")' => call'[u] = call[u]
    BY <1>4, <1>5 DEF In
  <2> QED
    BY <2>1, <2>2, <2>3, PipesStay
<1>18. Passes
  BY <1>1, <1>17 DEF Passes, inodes
<1> QED
  BY <1>8, <1>11, <1>12, <1>13, <1>14, <1>15, <1>16, <1>18 DEF IInv, Kept

(* The first two of a set with two members.                                 *)
LEMMA FirstTwoIs ==
  ASSUME NEW S, S \subseteq Nat, IsFiniteSet(S), Cardinality(S) >= 2
  PROVE  LET x == FirstTwo(S) IN x[1] \in S /\ x[2] \in S /\ x[1] # x[2] /\ x \in [1 .. 2 -> S]
<1> DEFINE a == Min(S)
           T == S \ {a}
           b == Min(T)
<1>1. S # {}
  BY FS_EmptySet
<1>2. a \in S
  BY <1>1, MinIs
<1>3. IsFiniteSet(T) /\ Cardinality(T) = Cardinality(S) - 1
  BY <1>2, FS_RemoveElement
<1>4. T # {}
  <2>1. Cardinality(S) \in Nat
    BY FS_CardinalityType
  <2> QED
    BY <1>3, <2>1, FS_EmptySet
<1>5. b \in T
  <2>1. T \subseteq Nat
    OBVIOUS
  <2> HIDE DEF T
  <2> QED
    BY <1>4, <2>1, MinIs
<1>6. FirstTwo(S) = <<a, b>>
  BY DEF FirstTwo
<1> HIDE DEF a, b
<1>7. <<a, b>> \in [1 .. 2 -> S]
  <2>1. b \in S
    BY <1>5
  <2> QED
    BY <1>2, <2>1
<1> QED
  BY <1>2, <1>5, <1>6, <1>7

(* sys_pipe() takes two files and two descriptors (pipe.c:59-76).            *)
LEMMA SysPipeKeeps ==
  ASSUME IInv, NEW t \in Task, SysPipe(t)
  PROVE  Kept
<1> DEFINE f == FirstTwo(FreeFiles)
           fd == FirstTwo(FreeFds(t))
           c == Piping(fd, f)
           g == [filp EXCEPT ![t][fd[1]] = f[1]]
           d == [f_count EXCEPT ![f[1]] = @ + 1]
<1>1. /\ Runs(t) /\ Cardinality(FreeFiles) >= 2 /\ Cardinality(FreeFds(t)) >= 2
      /\ f_count' = [f_count EXCEPT ![f[1]] = @ + 1, ![f[2]] = @ + 1]
      /\ filp' = [filp EXCEPT ![t][fd[1]] = f[1], ![t][fd[2]] = f[2]]
      /\ call' = [call EXCEPT ![t] = c]
      /\ UNCHANGED <<close_on_exec, f_inode, f_mode, inodes, reply>>
  BY DEF SysPipe, Become
<1>2. /\ TypeOK /\ filp \in Table /\ call \in [Task -> Call] /\ f_count \in [File -> Nat]
      /\ Counts(filp, f_count) /\ Alone(filp, call) /\ Marks(filp, close_on_exec, call)
      /\ Ends(f_count, f_inode, f_mode, i_count, call) /\ close_on_exec \in [Task -> SUBSET Fd]
  BY DEF IInv, TypeOK, Table
<1>3. /\ f \in [1 .. 2 -> File] /\ f[1] # f[2] /\ \A i \in 1 .. 2 : f_count[f[i]] = 0 /\ Users(filp, f[i]) = {}
      /\ fd \in [1 .. 2 -> Fd] /\ fd[1] # fd[2] /\ \A i \in 1 .. 2 : filp[t][fd[i]] = NULL
  <2>1. IsFiniteSet(File) /\ IsFiniteSet(Fd)
    <3>1. 0 \in Int /\ NR_OPEN - 1 \in Int /\ 1 \in Int /\ NR_FILE \in Int
      BY FilesAssumption
    <3> QED
      BY <3>1, FS_Interval DEF Fd, File
  <2>2. FreeFiles \subseteq File /\ FreeFds(t) \subseteq Fd /\ File \subseteq Nat /\ Fd \subseteq Nat
    BY DEF FreeFiles, FreeFds, File, Fd
  <2>3. IsFiniteSet(FreeFiles) /\ IsFiniteSet(FreeFds(t))
    BY <2>1, <2>2, FS_Subset
  <2>4. f[1] # f[2] /\ f \in [1 .. 2 -> FreeFiles]
    BY <1>1, <2>2, <2>3, FirstTwoIs
  <2>5. fd[1] # fd[2] /\ fd \in [1 .. 2 -> FreeFds(t)]
    BY <1>1, <2>2, <2>3, FirstTwoIs
  <2> HIDE DEF f, fd
  <2> QED
    BY <2>2, <2>4, <2>5, FreeIs
<1>4. call[t].op = "user" /\ TakenBy(call[t]) = {} /\ Reserves(call[t]) = {}
  BY <1>1, RunsIs
<1> HIDE DEF f, fd
<1>5. 1 \in 1 .. 2 /\ 2 \in 1 .. 2
  OBVIOUS
<1>6. /\ f[1] \in File /\ f[2] \in File /\ fd[1] \in Fd /\ fd[2] \in Fd
      /\ f_count[f[1]] = 0 /\ f_count[f[2]] = 0 /\ Users(filp, f[1]) = {} /\ Users(filp, f[2]) = {}
      /\ filp[t][fd[1]] = NULL /\ filp[t][fd[2]] = NULL
  BY <1>3, <1>5
<1>7. c \in Call /\ c.op = "pipe" /\ c.fd = fd /\ c.f = f
  <2>1. c.op = "pipe" /\ c.fd = fd /\ c.f = f
    BY DEF Piping
  <2>2. c \in {Piping(x, y) : x \in [1 .. 2 -> Fd], y \in [1 .. 2 -> File]}
    BY <1>3
  <2> HIDE DEF c
  <2> QED
    BY <2>1, <2>2 DEF Call
<1> HIDE DEF c
<1>8. /\ call'[t] = c /\ (\A u \in Task \ {t} : call'[u] = call[u]) /\ call' \in [Task -> Call]
      /\ Reserves(call'[t]) = {f[1], f[2]} /\ TakenBy(call'[t]) = {fd[1], fd[2]}
  BY <1>1, <1>2, <1>7 DEF Reserves, TakenBy
<1>9. Entered(filp, g, t, fd[1], f[1]) /\ g \in Table
  <2>1. Entered(filp, g, t, fd[1], f[1])
    BY <1>2, <1>6, Entering
  <2> QED
    BY <2>1 DEF Entered
<1>10. g[t][fd[2]] = NULL /\ filp' = [g EXCEPT ![t][fd[2]] = f[2]]
  <2>1. g[t][fd[2]] = NULL
    BY <1>3, <1>6, <1>9 DEF Entered, Elsewhere
  <2>2. filp' = [g EXCEPT ![t][fd[2]] = f[2]]
    BY <1>1
  <2> QED
    BY <2>1, <2>2
<1>11. Counts(g, d) /\ d \in [File -> Nat] /\ f_count' = [d EXCEPT ![f[2]] = @ + 1]
  <2>1. Counts(g, d)
    BY <1>2, <1>6, <1>9, EnteringCounts
  <2>2. d \in [File -> Nat]
    BY <1>2, <1>6
  <2>3. f_count' = [d EXCEPT ![f[2]] = @ + 1]
    BY <1>1, <1>2, <1>3, <1>6
  <2> QED
    BY <2>1, <2>2, <2>3
<1> HIDE DEF g
<1>12. Entered(g, filp', t, fd[2], f[2])
  BY <1>6, <1>9, <1>10, Entering
<1>13. Counts(filp', f_count') /\ f_count' \in [File -> Nat]
  <2>1. Counts(filp', [d EXCEPT ![f[2]] = @ + 1])
    <3> HIDE DEF d
    <3> QED
      BY <1>6, <1>11, <1>12, EnteringCounts
  <2>2. f_count' \in [File -> Nat]
    <3> HIDE DEF d
    <3> QED
      BY <1>6, <1>11
  <2> QED
    BY <1>11, <2>1, <2>2
<1>14. Users(g, f[2]) = {} /\ Users(filp', f[1]) = {<<t, fd[1]>>} /\ Users(filp', f[2]) = {<<t, fd[2]>>}
  BY <1>3, <1>6, <1>9, <1>12 DEF Entered
<1>15. Alone(filp', call')
  <2>1. Alone(g, call)
    BY <1>2, <1>6, <1>9, EnteringAlone, UnusedIsFree
  <2>2. Alone(filp', call)
    BY <1>2, <1>6, <1>12, <1>14, <2>1, EnteringAlone, UnusedIsFree
  <2>3. \A i \in 1 .. 2 : i = 1 \/ i = 2
    OBVIOUS
  <2>4. /\ c.f[1] # c.f[2] /\ c.fd[1] # c.fd[2]
        /\ \A i \in 1 .. 2 : Users(filp', c.f[i]) = {<<t, c.fd[i]>>}
    BY <1>3, <1>7, <1>14, <2>3
  <2> QED
    BY <1>7, <1>8, <2>2, <2>4 DEF Alone
<1>16. \A u \in Task, x \in Fd : u # t \/ (x # fd[1] /\ x # fd[2]) => filp'[u][x] = filp[u][x]
  BY <1>9, <1>12 DEF Entered, Elsewhere
<1>17. Marks(filp', close_on_exec', call')
  <2>1. \A u \in Task : \A x \in close_on_exec[u] : x \in Fd /\ (u = t => x # fd[1] /\ x # fd[2])
    BY <1>2, <1>6 DEF Marks
  <2>2. ASSUME NEW u \in Task, NEW x \in close_on_exec'[u]
        PROVE  filp'[u][x] # NULL /\ x \notin TakenBy(call'[u])
    <3>1. x \in close_on_exec[u] /\ filp[u][x] # NULL /\ x \notin TakenBy(call[u])
      BY <1>1, <1>2, <2>2 DEF Marks
    <3>2. filp'[u][x] = filp[u][x]
      BY <1>16, <2>1, <3>1
    <3>3. x \notin TakenBy(call'[u])
      BY <1>8, <2>1, <3>1
    <3> QED
      BY <3>1, <3>2, <3>3
  <2> QED
    BY <2>2 DEF Marks
<1>23. \A h \in File : Live(f_count', call', h) <=> Live(f_count, call, h)
  <2>2. \A h \in File \ {f[1], f[2]} : f_count'[h] = f_count[h]
    BY <1>1, <1>2, <1>6
  <2>3. \A h \in {f[1], f[2]} : ~Live(f_count, call, h) /\ ~Live(f_count', call', h)
    BY <1>6, <1>8 DEF Live
  <2>4. \A h \in File \ {f[1], f[2]} : \A u \in Task : h \in Reserves(call'[u]) <=> h \in Reserves(call[u])
    BY <1>4, <1>8
  <2> QED
    BY <2>2, <2>3, <2>4 DEF Live
<1>18. Ends(f_count', f_inode', f_mode', i_count', call')
  <2>1. f_inode' = f_inode /\ f_mode' = f_mode /\ i_count' = i_count
    BY <1>1 DEF inodes
  <2> QED
    BY <1>2, <1>23, <2>1, SameEnds
<1>19. filp' \in Table /\ \A u \in Task \ {t} : filp'[u] = filp[u]
  <2>1. filp' \in Table
    BY <1>12 DEF Entered
  <2> QED
    BY <1>2, <1>16, <2>1 DEF Table
<1>20. TypeOK'
  BY <1>1, <1>2, <1>8, <1>13, <1>19 DEF TypeOK, Table, inodes
<1>21. Emptied'
  BY <1>7, <1>8, <1>19 DEF IInv, Emptied, In
<1>22. EndHeld' /\ Sleeping' /\ AsleepForAReason' /\ Filled'
  <2>1. UNCHANGED <<inodes, f_inode, f_mode>>
    BY <1>1
  <2>2. \A u \in Task : In(u, "read") \/ In(u, "write") => call'[u] = call[u] /\ filp'[u] = filp[u]
    BY <1>4, <1>8, <1>19 DEF In
  <2>3. \A u \in Task : In(u, "read")' \/ In(u, "write")' => call'[u] = call[u]
    BY <1>7, <1>8 DEF In
  <2> QED
    BY <2>1, <2>2, <2>3, PipesStay
<1>24. Passes
  BY <1>1, <1>23 DEF Passes, inodes
<1> QED
  BY <1>13, <1>15, <1>17, <1>18, <1>20, <1>21, <1>22, <1>24 DEF IInv, Kept

(* No page for the pipe: what was taken is given back (pipe.c:79-84).        *)
LEMMA PipeFailedKeeps ==
  ASSUME IInv, NEW t \in Task, PipeFailed(t)
  PROVE  Kept
<1> DEFINE f == call[t].f
           fd == call[t].fd
           g == [filp EXCEPT ![t][fd[1]] = NULL]
           d == [f_count EXCEPT ![f[1]] = @ - 1]
<1>1. /\ call[t].op = "pipe" /\ filp' = [filp EXCEPT ![t][fd[1]] = NULL, ![t][fd[2]] = NULL]
      /\ f_count' = [f_count EXCEPT ![f[1]] = 0, ![f[2]] = 0]
      /\ call' = [call EXCEPT ![t] = User]
      /\ UNCHANGED <<close_on_exec, f_inode, f_mode, inodes, reply>>
  BY DEF PipeFailed, Become, In
<1>2. /\ TypeOK /\ filp \in Table /\ call \in [Task -> Call] /\ f_count \in [File -> Nat]
      /\ Counts(filp, f_count) /\ Alone(filp, call) /\ Marks(filp, close_on_exec, call)
      /\ Ends(f_count, f_inode, f_mode, i_count, call) /\ close_on_exec \in [Task -> SUBSET Fd]
  BY DEF IInv, TypeOK, Table
<1>3. /\ f \in [1 .. 2 -> File] /\ fd \in [1 .. 2 -> Fd] /\ f[1] # f[2] /\ fd[1] # fd[2]
      /\ \A i \in 1 .. 2 : filp[t][fd[i]] = f[i] /\ f_count[f[i]] = 1
      /\ Reserves(call[t]) = {f[1], f[2]} /\ TakenBy(call[t]) = {fd[1], fd[2]}
      /\ \A u \in Task \ {t} : Reserves(call[u]) \intersect {f[1], f[2]} = {}
  <2>1. TakenPipe(filp, f_count, call[t], t)
    BY <1>1, <1>2, TakenIs
  <2>2. \A u \in Task \ {t} : Reserves(call[u]) \intersect Reserves(call[t]) = {}
    BY <1>2, TakenIs
  <2> QED
    BY <2>1, <2>2 DEF TakenPipe
<1> HIDE DEF f, fd
<1>4. /\ f[1] \in File /\ f[2] \in File /\ fd[1] \in Fd /\ fd[2] \in Fd
      /\ filp[t][fd[1]] = f[1] /\ filp[t][fd[2]] = f[2] /\ f_count[f[1]] = 1 /\ f_count[f[2]] = 1
  <2>1. 1 \in 1 .. 2 /\ 2 \in 1 .. 2
    OBVIOUS
  <2> QED
    BY <1>3, <2>1
<1>5. User \in Call /\ User.op = "user" /\ Reserves(User) = {} /\ TakenBy(User) = {}
  BY DEF User, Call, Reserves, TakenBy
<1>6. /\ call'[t] = User /\ (\A u \in Task \ {t} : call'[u] = call[u]) /\ call' \in [Task -> Call]
  BY <1>1, <1>2, <1>5
<1>7. Left(filp, g, t, fd[1], f[1]) /\ g \in Table
  <2>1. Left(filp, g, t, fd[1], f[1])
    BY <1>2, <1>4, Leaving
  <2> QED
    BY <2>1 DEF Left
<1>8. g[t][fd[2]] = f[2] /\ filp' = [g EXCEPT ![t][fd[2]] = NULL]
  <2>1. g[t][fd[2]] = f[2]
    BY <1>3, <1>4, <1>7 DEF Left, Elsewhere
  <2>2. filp' = [g EXCEPT ![t][fd[2]] = NULL]
    BY <1>1
  <2> QED
    BY <2>1, <2>2
<1>9. Counts(g, d) /\ d \in [File -> Nat] /\ f_count' = [d EXCEPT ![f[2]] = @ - 1]
  <2>1. Counts(g, d) /\ d \in [File -> Nat]
    BY <1>2, <1>4, <1>7, LeavingCounts
  <2>2. d[f[2]] = 1 /\ d[f[1]] = 0
    BY <1>2, <1>3, <1>4
  <2>3. f_count' = [d EXCEPT ![f[2]] = @ - 1]
    BY <1>1, <1>2, <1>3, <1>4, <2>2
  <2> QED
    BY <2>1, <2>3
<1> HIDE DEF g, d
<1>10. Left(g, filp', t, fd[2], f[2])
  BY <1>4, <1>7, <1>8, Leaving
<1>11. Counts(filp', f_count') /\ f_count' \in [File -> Nat]
  <2>1. Counts(filp', [d EXCEPT ![f[2]] = @ - 1]) /\ [d EXCEPT ![f[2]] = @ - 1] \in [File -> Nat]
    BY <1>4, <1>9, <1>10, LeavingCounts
  <2> QED
    BY <1>9, <2>1
<1>12. Alone(filp', call')
  <2>1. ASSUME NEW u \in Task \ {t}, NEW h \in Reserves(call[u]), h \in File
        PROVE  Users(filp', h) = Users(filp, h)
    <3>1. h # f[1] /\ h # f[2]
      BY <1>3, <2>1
    <3> QED
      BY <1>7, <1>10, <2>1, <3>1 DEF Left
  <2>2. ASSUME NEW u \in Task, call'[u].op = "open"
        PROVE  Users(filp', call'[u].f) = {<<u, call'[u].fd>>}
    <3>1. u # t /\ call'[u] = call[u]
      BY <1>5, <1>6, <2>2
    <3>2. call[u].f \in File /\ call[u].f \in Reserves(call[u])
      BY <1>2, <2>2, <3>1, CallIs DEF Reserves
    <3> QED
      BY <1>2, <2>1, <2>2, <3>1, <3>2 DEF Alone
  <2>3. ASSUME NEW u \in Task, call'[u].op = "pipe"
        PROVE  /\ call'[u].f[1] # call'[u].f[2] /\ call'[u].fd[1] # call'[u].fd[2]
               /\ \A i \in 1 .. 2 : Users(filp', call'[u].f[i]) = {<<u, call'[u].fd[i]>>}
    <3>1. u # t /\ call'[u] = call[u]
      BY <1>5, <1>6, <2>3
    <3>2. \A i \in 1 .. 2 : call[u].f[i] \in File /\ call[u].f[i] \in Reserves(call[u])
      BY <1>2, <2>3, <3>1, CallIs DEF Reserves
    <3> QED
      BY <1>2, <2>1, <2>3, <3>1, <3>2 DEF Alone
  <2> QED
    BY <2>2, <2>3 DEF Alone
<1>13. \A u \in Task, x \in Fd : u # t \/ (x # fd[1] /\ x # fd[2]) => filp'[u][x] = filp[u][x]
  BY <1>7, <1>10 DEF Left, Elsewhere
<1>14. Marks(filp', close_on_exec', call')
  <2>1. \A u \in Task : \A x \in close_on_exec[u] : x \in Fd /\ (u = t => x # fd[1] /\ x # fd[2])
    BY <1>2, <1>3 DEF Marks
  <2>2. ASSUME NEW u \in Task, NEW x \in close_on_exec'[u]
        PROVE  filp'[u][x] # NULL /\ x \notin TakenBy(call'[u])
    <3>1. x \in close_on_exec[u] /\ filp[u][x] # NULL /\ x \notin TakenBy(call[u])
      BY <1>1, <1>2, <2>2 DEF Marks
    <3>2. filp'[u][x] = filp[u][x]
      BY <1>13, <2>1, <3>1
    <3>3. x \notin TakenBy(call'[u])
      BY <1>5, <1>6, <3>1
    <3> QED
      BY <3>1, <3>2, <3>3
  <2> QED
    BY <2>2 DEF Marks
<1>20. \A h \in File : Live(f_count', call', h) <=> Live(f_count, call, h)
  <2>2. (\A h \in File \ {f[1], f[2]} : f_count'[h] = f_count[h]) /\ f_count'[f[1]] = 0 /\ f_count'[f[2]] = 0
    BY <1>1, <1>2, <1>3, <1>4
  <2>3. \A h \in {f[1], f[2]} : ~Live(f_count, call, h) /\ ~Live(f_count', call', h)
    BY <1>3, <2>2 DEF Live
  <2>4. \A h \in File \ {f[1], f[2]} : \A u \in Task : h \in Reserves(call'[u]) <=> h \in Reserves(call[u])
    BY <1>3, <1>5, <1>6
  <2> QED
    BY <2>2, <2>3, <2>4 DEF Live
<1>15. Ends(f_count', f_inode', f_mode', i_count', call')
  <2>1. f_inode' = f_inode /\ f_mode' = f_mode /\ i_count' = i_count
    BY <1>1 DEF inodes
  <2> QED
    BY <1>2, <1>20, <2>1, SameEnds
<1>16. filp' \in Table /\ \A u \in Task \ {t} : filp'[u] = filp[u]
  <2>1. filp' \in Table
    BY <1>10 DEF Left
  <2> QED
    BY <1>2, <1>13, <2>1 DEF Table
<1>17. TypeOK'
  BY <1>1, <1>2, <1>6, <1>11, <1>16 DEF TypeOK, Table, inodes
<1>18. Emptied'
  BY <1>5, <1>6, <1>16 DEF IInv, Emptied, In
<1>19. EndHeld' /\ Sleeping' /\ AsleepForAReason' /\ Filled'
  <2>1. UNCHANGED <<inodes, f_inode, f_mode>>
    BY <1>1
  <2>2. \A u \in Task : In(u, "read") \/ In(u, "write") => call'[u] = call[u] /\ filp'[u] = filp[u]
    BY <1>1, <1>6, <1>16 DEF In
  <2>3. \A u \in Task : In(u, "read")' \/ In(u, "write")' => call'[u] = call[u]
    BY <1>5, <1>6 DEF In
  <2> QED
    BY <2>1, <2>2, <2>3, PipesStay
<1>21. Passes
  BY <1>1, <1>20 DEF Passes, inodes
<1> QED
  BY <1>11, <1>12, <1>14, <1>15, <1>17, <1>18, <1>19, <1>21 DEF IInv, Kept

(* get_pipe_inode() has an inode and a page: both ends are open.             *)
LEMMA PipeMadeKeeps ==
  ASSUME IInv, NEW t \in Task, NEW p \in Pipe, PipeMade(t, p)
  PROVE  IInv'
<1> DEFINE f == call[t].f
           fd == call[t].fd
<1>1. /\ call[t].op = "pipe" /\ i_count[p] = 0
      /\ f_inode' = [f_inode EXCEPT ![f[1]] = p, ![f[2]] = p]
      /\ f_mode' = [f_mode EXCEPT ![f[1]] = 1, ![f[2]] = 2]
      /\ i_count' = [i_count EXCEPT ![p] = 2]
      /\ head' = [head EXCEPT ![p] = 0] /\ tail' = [tail EXCEPT ![p] = 0]
      /\ call' = [call EXCEPT ![t] = User]
      /\ UNCHANGED <<filp, close_on_exec, f_count, page, waiting, reply>>
  BY DEF PipeMade, Become, In
<1>2. /\ TypeOK /\ filp \in Table /\ call \in [Task -> Call] /\ f_count \in [File -> Nat]
      /\ Counts(filp, f_count) /\ Alone(filp, call) /\ Marks(filp, close_on_exec, call)
      /\ Ends(f_count, f_inode, f_mode, i_count, call)
      /\ f_inode \in [File -> Inode \union {NULL}] /\ f_mode \in [File -> 0 .. 2]
      /\ i_count \in [Pipe -> 0 .. 2] /\ head \in [Pipe -> Index] /\ tail \in [Pipe -> Index]
  BY DEF IInv, TypeOK, Table
<1>3. /\ f \in [1 .. 2 -> File] /\ f[1] # f[2]
      /\ \A i \in 1 .. 2 : f_count[f[i]] = 1
      /\ Reserves(call[t]) = {f[1], f[2]} /\ TakenBy(call[t]) = {fd[1], fd[2]}
      /\ \A u \in Task \ {t} : Reserves(call[u]) \intersect {f[1], f[2]} = {}
  <2>1. TakenPipe(filp, f_count, call[t], t)
    BY <1>1, <1>2, TakenIs
  <2>2. \A u \in Task \ {t} : Reserves(call[u]) \intersect Reserves(call[t]) = {}
    BY <1>2, TakenIs
  <2> QED
    BY <2>1, <2>2 DEF TakenPipe
<1> HIDE DEF f, fd
<1>4. f[1] \in File /\ f[2] \in File /\ f_count[f[1]] = 1 /\ f_count[f[2]] = 1
  <2>1. 1 \in 1 .. 2 /\ 2 \in 1 .. 2
    OBVIOUS
  <2> QED
    BY <1>3, <2>1
<1>5. User \in Call /\ User.op = "user" /\ Reserves(User) = {} /\ TakenBy(User) = {}
  BY DEF User, Call, Reserves, TakenBy
<1>6. /\ call'[t] = User /\ (\A u \in Task \ {t} : call'[u] = call[u]) /\ call' \in [Task -> Call]
  BY <1>1, <1>2, <1>5
<1>7. /\ f_inode'[f[1]] = p /\ f_inode'[f[2]] = p /\ f_mode'[f[1]] = 1 /\ f_mode'[f[2]] = 2
      /\ \A h \in File \ {f[1], f[2]} : f_inode'[h] = f_inode[h] /\ f_mode'[h] = f_mode[h]
      /\ f_inode' \in [File -> Inode \union {NULL}] /\ f_mode' \in [File -> 0 .. 2]
  BY <1>1, <1>2, <1>3, <1>4 DEF Inode
<1>8. /\ i_count'[p] = 2 /\ head'[p] = 0 /\ tail'[p] = 0
      /\ \A q \in Pipe \ {p} : i_count'[q] = i_count[q] /\ head'[q] = head[q] /\ tail'[q] = tail[q]
      /\ i_count' \in [Pipe -> 0 .. 2] /\ head' \in [Pipe -> Index] /\ tail' \in [Pipe -> Index]
  <2>1. 0 \in Index
    BY FilesAssumption DEF Index
  <2> QED
    BY <1>1, <1>2, <2>1
<1>9. Counts(filp', f_count')
  BY <1>1, <1>2
<1>10. Alone(filp', call')
  BY <1>1, <1>2, <1>5, <1>6 DEF Alone
<1>11. Marks(filp', close_on_exec', call')
  BY <1>1, <1>2, <1>5, <1>6 DEF Marks
<1>12. \A h \in {f[1], f[2]} : ~Live(f_count, call, h) /\ Live(f_count', call', h)
  <2>1. \A h \in {f[1], f[2]} : ~Live(f_count, call, h)
    BY <1>3 DEF Live
  <2>2. \A h \in {f[1], f[2]} : \A u \in Task : h \notin Reserves(call'[u])
    BY <1>3, <1>5, <1>6
  <2> QED
    BY <1>1, <1>4, <2>1, <2>2 DEF Live
<1>13. \A h \in File \ {f[1], f[2]} : Live(f_count', call', h) <=> Live(f_count, call, h)
  <2>1. \A h \in File \ {f[1], f[2]} : \A u \in Task : h \in Reserves(call'[u]) <=> h \in Reserves(call[u])
    BY <1>3, <1>5, <1>6
  <2> QED
    BY <1>1, <2>1 DEF Live
<1>14. \A h \in File : Live(f_count, call, h) => f_inode[h] # p
  <2>1. ~IsOpen(f_count, f_inode, f_mode, call, p, 1) /\ ~IsOpen(f_count, f_inode, f_mode, call, p, 2)
    BY <1>1, <1>2 DEF Ends, Bit
  <2>2. ASSUME NEW h \in File, Live(f_count, call, h), f_inode[h] = p
        PROVE  FALSE
    <3>1. f_mode[h] \in 1 .. 2
      BY <1>2, <2>2 DEF Ends
    <3>2. f_mode[h] = 1 \/ f_mode[h] = 2
      BY <3>1
    <3> QED
      BY <2>1, <2>2, <3>2 DEF IsOpen, EndOf
  <2> QED
    BY <2>2
<1>15. Ends(f_count', f_inode', f_mode', i_count', call')
  <2>1. ASSUME NEW q \in Pipe \ {p}, NEW e \in 1 .. 2
        PROVE  IsOpen(f_count', f_inode', f_mode', call', q, e) <=> IsOpen(f_count, f_inode, f_mode, call, q, e)
    BY <1>7, <1>12, <1>13 DEF IsOpen, EndOf
  <2>2. IsOpen(f_count', f_inode', f_mode', call', p, 1) /\ IsOpen(f_count', f_inode', f_mode', call', p, 2)
    BY <1>4, <1>7, <1>12 DEF IsOpen, EndOf
  <2>3. ASSUME NEW q \in Pipe
        PROVE  i_count'[q] = Bit(IsOpen(f_count', f_inode', f_mode', call', q, 1))
                             + Bit(IsOpen(f_count', f_inode', f_mode', call', q, 2))
    <3>1. CASE q = p
      BY <1>8, <2>2, <3>1 DEF Bit
    <3>2. CASE q # p
      BY <1>2, <1>8, <2>1, <3>2 DEF Ends, Bit
    <3> QED
      BY <3>1, <3>2
  <2>4. ASSUME NEW h \in File, Live(f_count', call', h)
        PROVE  f_inode'[h] \in Inode /\ (f_inode'[h] \in Pipe => f_mode'[h] \in 1 .. 2)
    BY <1>2, <1>7, <1>13, <2>4 DEF Ends, Inode
  <2>5. ASSUME NEW h \in File, NEW k \in File, Live(f_count', call', h), Live(f_count', call', k),
               f_inode'[h] = f_inode'[k], f_inode'[h] \in Pipe, f_mode'[h] = f_mode'[k]
        PROVE  h = k
    <3>1. CASE f_inode'[h] = p
      <4>1. ASSUME NEW g \in File, Live(f_count', call', g), f_inode'[g] = p
            PROVE  g \in {f[1], f[2]}
        BY <1>7, <1>13, <1>14, <4>1
      <4>2. h \in {f[1], f[2]} /\ k \in {f[1], f[2]}
        BY <2>5, <3>1, <4>1
      <4>3. f_mode'[f[1]] = 1 /\ f_mode'[f[2]] = 2 /\ f_mode'[h] = f_mode'[k]
        BY <1>7, <2>5
      <4> QED
        BY <4>2, <4>3
    <3>2. CASE f_inode'[h] # p
      BY <1>2, <1>7, <1>13, <2>5, <3>2 DEF Ends
    <3> QED
      BY <3>1, <3>2
  <2> QED
    BY <2>3, <2>4, <2>5 DEF Ends
<1>16. TypeOK'
  BY <1>1, <1>2, <1>6, <1>7, <1>8 DEF TypeOK
<1>17. Emptied'
  BY <1>1, <1>5, <1>6 DEF IInv, Emptied, In
<1>18. \A u \in Task : In(u, "read") \/ In(u, "write") => call'[u] = call[u]
  BY <1>1, <1>6 DEF In
<1>19. EndHeld'
  <2>1. \A h \in File : Live(f_count, call, h) => f_inode'[h] = f_inode[h] /\ f_mode'[h] = f_mode[h]
    BY <1>7, <1>12
  <2>2. ASSUME NEW u \in Task, In(u, "read")'
        PROVE  u \in Holders(call[u].inode, 1)'
    <3>1. call'[u] = call[u] /\ filp'[u] = filp[u] /\ In(u, "read")
      BY <1>1, <1>5, <1>6, <2>2 DEF In
    <3> QED
      BY <2>1, <3>1, StillHolds
  <2>3. ASSUME NEW u \in Task, In(u, "write")'
        PROVE  u \in Holders(call[u].inode, 2)'
    <3>1. call'[u] = call[u] /\ filp'[u] = filp[u] /\ In(u, "write")
      BY <1>1, <1>5, <1>6, <2>3 DEF In
    <3> QED
      BY <2>1, <3>1, StillHolds
  <2> QED
    BY <2>2, <2>3 DEF EndHeld
<1>20. \A q \in Pipe : \A u \in waiting[q] : u \in Task /\ call'[u] = call[u] /\ q # p
  BY <1>1, <1>18 DEF IInv, Sleeping, AsleepForAReason, TypeOK
<1>21. Sleeping'
  BY <1>1, <1>20 DEF IInv, Sleeping, In
<1>22. \A q \in Pipe \ {p} : Size(q)' = Size(q)
  BY <1>8 DEF Size
<1>23. AsleepForAReason'
  BY <1>1, <1>8, <1>20, <1>22 DEF IInv, AsleepForAReason, In
<1>24. Filled'
  <2>1. Size(p)' = 0
    <3>1. PAGE_SIZE \in Nat /\ PAGE_SIZE > 0 /\ 0 - 0 = 0
      BY FilesAssumption
    <3>2. 0 % PAGE_SIZE = 0
      BY <3>1, Modulo
    <3> QED
      BY <1>8, <3>1, <3>2 DEF Size
  <2>2. \A q \in Pipe \ {p} : Bytes(q)' = Bytes(q)
    BY <1>1, <1>8, <1>22 DEF Bytes
  <2> QED
    BY <1>8, <1>22, <2>1, <2>2 DEF IInv, Filled
<1> QED
  BY <1>9, <1>10, <1>11, <1>15, <1>16, <1>17, <1>19, <1>21, <1>23, <1>24 DEF IInv
-----------------------------------------------------------------------------
(* The ring of a pipe (fs.h:104-110).                                       *)
LEMMA Wrap ==
  ASSUME NEW a \in Index, NEW j \in 0 .. PAGE_SIZE
  PROVE  /\ (a + j) % PAGE_SIZE = IF a + j < PAGE_SIZE THEN a + j ELSE a + j - PAGE_SIZE
         /\ (a + j) % PAGE_SIZE \in Index
<1>1. PAGE_SIZE \in Nat /\ PAGE_SIZE > 0 /\ a \in Int /\ 0 <= a /\ a < PAGE_SIZE
  BY FilesAssumption DEF Index
<1>2. a + j \in Int /\ 0 <= a + j /\ a + j < PAGE_SIZE + PAGE_SIZE
  BY <1>1
<1>3. /\ a + j < PAGE_SIZE => (a + j) % PAGE_SIZE = a + j
      /\ PAGE_SIZE <= a + j => (a + j) % PAGE_SIZE = a + j - PAGE_SIZE
  BY <1>1, <1>2, Modulo
<1> QED
  BY <1>1, <1>2, <1>3 DEF Index

LEMMA Distance ==
  ASSUME NEW a \in Index, NEW b \in Index
  PROVE  /\ (b - a) % PAGE_SIZE = IF b >= a THEN b - a ELSE b - a + PAGE_SIZE
         /\ (b - a) % PAGE_SIZE \in 0 .. PAGE_SIZE - 1
<1>1. /\ PAGE_SIZE \in Nat /\ PAGE_SIZE > 0 /\ a \in Int /\ 0 <= a /\ a < PAGE_SIZE
      /\ b \in Int /\ 0 <= b /\ b < PAGE_SIZE
  BY FilesAssumption DEF Index
<1>2. b - a \in Int /\ -PAGE_SIZE <= b - a /\ b - a < PAGE_SIZE
  BY <1>1
<1>3. /\ b - a >= 0 => (b - a) % PAGE_SIZE = b - a
      /\ b - a < 0 => (b - a) % PAGE_SIZE = b - a + PAGE_SIZE
  BY <1>1, <1>2, Modulo
<1> QED
  BY <1>1, <1>2, <1>3

(* Of a page with head h and tail l: how many bytes are in it, and which.    *)
SizeOf(h, l) == (h - l) % PAGE_SIZE
ByteOf(pg, l, i) == pg[(l + i - 1) % PAGE_SIZE]

(* To take k bytes out at the tail.                                         *)
LEMMA RingTake ==
  ASSUME NEW h \in Index, NEW l \in Index, NEW k \in 0 .. SizeOf(h, l), NEW pg,
         NEW r, r = INC_PIPE(l, k),
         NEW qg, qg = [i \in Index |-> IF (i - l) % PAGE_SIZE < k THEN Blank ELSE pg[i]]
  PROVE  /\ r \in Index /\ SizeOf(h, r) = SizeOf(h, l) - k
         /\ \A i \in 1 .. SizeOf(h, l) - k : ByteOf(qg, r, i) = ByteOf(pg, l, k + i)
<1>0. PAGE_SIZE \in Nat /\ PAGE_SIZE > 1
  BY FilesAssumption
<1>1. SizeOf(h, l) = (IF h >= l THEN h - l ELSE h - l + PAGE_SIZE) /\ SizeOf(h, l) \in 0 .. PAGE_SIZE - 1
  BY Distance DEF SizeOf
<1>2. k \in 0 .. PAGE_SIZE /\ k < PAGE_SIZE
  BY <1>0, <1>1
<1>3. r = (IF l + k < PAGE_SIZE THEN l + k ELSE l + k - PAGE_SIZE) /\ r \in Index
  BY <1>2, Wrap DEF INC_PIPE
<1>4. SizeOf(h, r) = IF h >= r THEN h - r ELSE h - r + PAGE_SIZE
  BY <1>3, Distance DEF SizeOf
<1>5. SizeOf(h, r) = SizeOf(h, l) - k
  BY <1>0, <1>1, <1>2, <1>3, <1>4 DEF Index
<1>6. ASSUME NEW i \in 1 .. SizeOf(h, l) - k
      PROVE  ByteOf(qg, r, i) = ByteOf(pg, l, k + i)
  <2> DEFINE x == (r + i - 1) % PAGE_SIZE
  <2>1. i - 1 \in 0 .. PAGE_SIZE /\ k + i - 1 \in 0 .. PAGE_SIZE /\ k + i - 1 < PAGE_SIZE /\ i \in Int
    BY <1>0, <1>1, <1>2
  <2>2. x = (IF r + (i - 1) < PAGE_SIZE THEN r + (i - 1) ELSE r + (i - 1) - PAGE_SIZE) /\ x \in Index
    <3>1. r + (i - 1) = r + i - 1
      BY <1>3, <2>1 DEF Index
    <3> QED
      BY <1>3, <2>1, <3>1, Wrap
  <2>3. (l + (k + i) - 1) % PAGE_SIZE
          = IF l + (k + i - 1) < PAGE_SIZE THEN l + (k + i - 1) ELSE l + (k + i - 1) - PAGE_SIZE
    <3>1. l + (k + i - 1) = l + (k + i) - 1
      BY <1>2, <2>1 DEF Index
    <3> QED
      BY <2>1, <3>1, Wrap
  <2>4. (x - l) % PAGE_SIZE = IF x >= l THEN x - l ELSE x - l + PAGE_SIZE
    BY <2>2, Distance
  <2> HIDE DEF x
  <2>5. x = (l + (k + i) - 1) % PAGE_SIZE
    BY <1>0, <1>1, <1>2, <1>3, <2>1, <2>2, <2>3 DEF Index
  <2>6. ~((x - l) % PAGE_SIZE < k)
    BY <1>0, <1>1, <1>2, <1>3, <2>1, <2>2, <2>4 DEF Index
  <2>7. qg[x] = pg[x]
    BY <2>2, <2>6
  <2> QED
    BY <2>5, <2>7 DEF ByteOf, x
<1> QED
  BY <1>3, <1>5, <1>6

(* To put k bytes in at the head.                                           *)
LEMMA RingPut ==
  ASSUME NEW h \in Index, NEW l \in Index, NEW k \in 0 .. PAGE_SIZE - 1 - SizeOf(h, l), NEW pg, NEW s,
         NEW r, r = INC_PIPE(h, k),
         NEW qg, qg = [i \in Index |-> IF (i - h) % PAGE_SIZE < k THEN s[((i - h) % PAGE_SIZE) + 1] ELSE pg[i]]
  PROVE  /\ r \in Index /\ SizeOf(r, l) = SizeOf(h, l) + k
         /\ \A i \in 1 .. SizeOf(h, l) : ByteOf(qg, l, i) = ByteOf(pg, l, i)
         /\ \A i \in 1 .. k : ByteOf(qg, l, SizeOf(h, l) + i) = s[i]
<1>0. PAGE_SIZE \in Nat /\ PAGE_SIZE > 1
  BY FilesAssumption
<1> DEFINE z == SizeOf(h, l)
<1>1. z = (IF h >= l THEN h - l ELSE h - l + PAGE_SIZE) /\ z \in 0 .. PAGE_SIZE - 1
  BY Distance DEF SizeOf
<1> HIDE DEF z
<1>2. k \in 0 .. PAGE_SIZE /\ k < PAGE_SIZE /\ k + z < PAGE_SIZE /\ k \in 0 .. PAGE_SIZE - 1 - z
  BY <1>0, <1>1 DEF z
<1>3. r = (IF h + k < PAGE_SIZE THEN h + k ELSE h + k - PAGE_SIZE) /\ r \in Index
  BY <1>2, Wrap DEF INC_PIPE
<1>4. SizeOf(r, l) = IF r >= l THEN r - l ELSE r - l + PAGE_SIZE
  BY <1>3, Distance DEF SizeOf
<1>5. SizeOf(r, l) = z + k
  BY <1>0, <1>1, <1>2, <1>3, <1>4 DEF Index
<1>6. ASSUME NEW j \in 1 .. z + k
      PROVE  LET x == (l + j - 1) % PAGE_SIZE IN
             /\ x \in Index
             /\ j <= z => ~((x - h) % PAGE_SIZE < k)
             /\ j > z => (x - h) % PAGE_SIZE = j - z - 1
  <2> DEFINE x == (l + j - 1) % PAGE_SIZE
  <2>1. j - 1 \in 0 .. PAGE_SIZE /\ j \in Int /\ j - 1 < PAGE_SIZE
    BY <1>0, <1>1, <1>2
  <2>2. x = (IF l + (j - 1) < PAGE_SIZE THEN l + (j - 1) ELSE l + (j - 1) - PAGE_SIZE) /\ x \in Index
    <3>1. l + (j - 1) = l + j - 1
      BY <2>1 DEF Index
    <3> QED
      BY <2>1, <3>1, Wrap
  <2>3. (x - h) % PAGE_SIZE = IF x >= h THEN x - h ELSE x - h + PAGE_SIZE
    BY <2>2, Distance
  <2> HIDE DEF x
  <2> DEFINE y == (x - h) % PAGE_SIZE
  <2>6. PAGE_SIZE \in Int /\ h \in Int /\ l \in Int /\ x \in Int /\ z \in Int /\ k \in Int
        /\ 0 <= h /\ h < PAGE_SIZE /\ 0 <= l /\ l < PAGE_SIZE
    BY <1>0, <1>1, <1>2, <2>2 DEF Index
  <2>7. y = IF x >= h THEN x - h ELSE x - h + PAGE_SIZE
    BY <2>3
  <2> HIDE DEF y
  <2>8. ASSUME h >= l, j <= z PROVE ~(y < k)
    <3>1. z = h - l
      BY <1>1, <2>8
    <3> QED
      BY <1>2, <2>1, <2>2, <2>6, <2>7, <2>8, <3>1
  <2>9. ASSUME h < l, j <= z PROVE ~(y < k)
    <3>1. z = h - l + PAGE_SIZE
      BY <1>1, <2>6, <2>9
    <3> QED
      BY <1>2, <2>1, <2>2, <2>6, <2>7, <2>9, <3>1
  <2>4. j <= z => ~((x - h) % PAGE_SIZE < k)
    BY <2>6, <2>8, <2>9 DEF y
  <2>5. j > z => (x - h) % PAGE_SIZE = j - z - 1
    BY <1>0, <1>1, <1>2, <2>1, <2>2, <2>3 DEF Index
  <2> QED
    BY <2>2, <2>4, <2>5 DEF x
<1>7. ASSUME NEW i \in 1 .. z
      PROVE  ByteOf(qg, l, i) = ByteOf(pg, l, i)
  <2>1. i \in 1 .. z + k /\ i <= z
    BY <1>1, <1>2
  <2> QED
    BY <1>6, <2>1 DEF ByteOf
<1>8. ASSUME NEW i \in 1 .. k
      PROVE  ByteOf(qg, l, z + i) = s[i]
  <2> DEFINE j == z + i
             x == (l + j - 1) % PAGE_SIZE
  <2>1. j \in 1 .. z + k /\ j > z /\ j - z - 1 = i - 1 /\ i - 1 < k /\ (i - 1) + 1 = i
    BY <1>1, <1>2
  <2>2. x \in Index /\ (x - h) % PAGE_SIZE = i - 1
    BY <1>6, <2>1
  <2>3. qg[x] = s[i]
    BY <2>1, <2>2
  <2> QED
    BY <2>3 DEF ByteOf
<1> QED
  BY <1>3, <1>5, <1>7, <1>8 DEF z
-----------------------------------------------------------------------------
(* Reading and writing (pipe.c:11-70).                                      *)

(* What is left to write: the end of a message.                             *)
Tails == (UNION {Suffixes(m) : m \in Message}) \ {<<>>}

LEMMA MessageIsTail ==
  ASSUME NEW s \in Message
  PROVE  s \in Tails
<1>1. s \in Seq(Byte) /\ s # <<>>
  BY FilesAssumption
<1>2. Len(s) \in Nat /\ Len(s) > 0
  BY <1>1
<1>3. SubSeq(s, 1, Len(s)) = s /\ 1 \in 1 .. Len(s)
  BY <1>1, <1>2
<1>4. s \in Suffixes(s)
  BY <1>3 DEF Suffixes
<1> QED
  BY <1>1, <1>4 DEF Tails

LEMMA TailIs ==
  ASSUME NEW s \in Tails
  PROVE  /\ s \in Seq(Byte) /\ Len(s) \in Nat \ {0}
         /\ \A k \in 0 .. Len(s) - 1 : SubSeq(s, k + 1, Len(s)) \in Tails
<1>1. PICK m \in Message : s \in Suffixes(m)
  BY DEF Tails
<1>2. m \in Seq(Byte) /\ s # <<>>
  BY FilesAssumption DEF Tails
<1>3. PICK l \in 1 .. Len(m) : s = SubSeq(m, l, Len(m))
  BY <1>1, <1>2 DEF Suffixes
<1>4. /\ s \in Seq(Byte) /\ Len(s) = Len(m) - l + 1 /\ Len(m) \in Nat /\ l \in Nat /\ l > 0 /\ l <= Len(m)
      /\ \A i \in 1 .. Len(s) : s[i] = m[l + i - 1]
  BY <1>2, <1>3
<1>5. ASSUME NEW k \in 0 .. Len(s) - 1
      PROVE  SubSeq(s, k + 1, Len(s)) \in Tails
  <2> DEFINE r == SubSeq(s, k + 1, Len(s))
             q == SubSeq(m, l + k, Len(m))
  <2>1. r \in Seq(Byte) /\ Len(r) = Len(s) - k /\ \A i \in 1 .. Len(s) - k : r[i] = s[k + i]
    BY <1>4
  <2>2. q \in Seq(Byte) /\ Len(q) = Len(s) - k /\ \A i \in 1 .. Len(s) - k : q[i] = m[l + k + i - 1]
    BY <1>2, <1>4
  <2>3. \A i \in 1 .. Len(s) - k : k + i \in 1 .. Len(s) /\ l + (k + i) - 1 = l + k + i - 1
    BY <1>4
  <2>4. l + k \in 1 .. Len(m) /\ Len(s) - k > 0 /\ Len(s) - k \in Nat
    BY <1>4
  <2>5. \A i \in 1 .. Len(s) - k : r[i] = q[i]
    BY <1>4, <2>1, <2>2, <2>3
  <2> HIDE DEF r, q
  <2>6. r = q
    BY <2>1, <2>2, <2>5, SeqEqual
  <2>7. r # <<>>
    BY <2>1, <2>4
  <2>8. q \in Suffixes(m)
    BY <2>4 DEF Suffixes, q
  <2> QED
    BY <2>6, <2>7, <2>8 DEF Tails, r
<1> QED
  BY <1>4, <1>5

(* A task that is in user mode or inside a read or write of a pipe.          *)
Uses(c, t, p) ==
  /\ c \in Call
  /\ \/ c.op = "user"
     \/ c.op = "read" /\ c.inode = p /\ t \in Holders(p, 1)
     \/ c.op = "write" /\ c.inode = p /\ t \in Holders(p, 2)

(* A pipe after a read or write of it: nobody sleeps, or only the task that  *)
(* has to.                                                                  *)
Rests(t, p, c) ==
  \/ waiting'[p] = {}
  \/ /\ waiting'[p] = {t} /\ i_count[p] = 2 /\ c.op \in {"read", "write"}
     /\ IF c.op = "read" THEN Size(p)' = 0 ELSE Size(p)' = PAGE_SIZE - 1

Replies == [kind : {"none", "data", "eof", "written", "broken"}, bytes : Seq(Byte)]

(* Of p, only the bytes change and who sleeps; of t, its call and its reply. *)
At(t, p, c) ==
  /\ UNCHANGED <<files, i_count>>
  /\ call' = [call EXCEPT ![t] = c]
  /\ \A q \in Pipe \ {p} : /\ waiting'[q] = waiting[q] /\ page'[q] = page[q]
                           /\ head'[q] = head[q] /\ tail'[q] = tail[q]
  /\ waiting' \in [Pipe -> SUBSET Task] /\ page' \in [Pipe -> [Index -> Byte \union {Blank}]]
  /\ head' \in [Pipe -> Index] /\ tail' \in [Pipe -> Index] /\ reply' \in [Task -> Replies]

LEMMA AtKeeps ==
  ASSUME IInv, NEW t \in Task, NEW p \in Pipe, NEW c, Uses(call[t], t, p), Uses(c, t, p),
         At(t, p, c), Rests(t, p, c),
         i_count[p] # 0 => \A i \in 1 .. Size(p)' : Bytes(p)'[i] \in Byte
  PROVE  IInv'
<1>1. /\ UNCHANGED <<filp, close_on_exec, f_count, f_inode, f_mode, i_count>>
      /\ call \in [Task -> Call] /\ c \in Call
  BY DEF At, files, IInv, TypeOK, Uses
<1>2. call' \in [Task -> Call] /\ call'[t] = c /\ \A u \in Task \ {t} : call'[u] = call[u]
  BY <1>1 DEF At
<1>3. c.op \in {"user", "read", "write"} /\ call[t].op \in {"user", "read", "write"}
  BY DEF Uses
<1>4. \A u \in Task : /\ Reserves(call'[u]) = Reserves(call[u]) /\ TakenBy(call'[u]) = TakenBy(call[u])
                      /\ Taken(u)' = Taken(u)
  BY <1>2, <1>3 DEF Reserves, TakenBy, Taken
<1>5. TypeOK'
  BY <1>1, <1>2 DEF IInv, TypeOK, At, Replies
<1>6. Counts(filp', f_count')
  BY <1>1 DEF IInv
<1>7. Alone(filp', call')
  BY <1>1, <1>2, <1>3 DEF IInv, Alone
<1>8. Marks(filp', close_on_exec', call')
  BY <1>1, <1>4 DEF IInv, Marks
<1>9. Ends(f_count', f_inode', f_mode', i_count', call')
  <2>1. \A f \in File : Live(f_count', call', f) <=> Live(f_count, call, f)
    BY <1>1, <1>4 DEF Live
  <2> QED
    BY <1>1, <2>1, SameEnds DEF IInv
<1>10. Emptied'
  BY <1>1, <1>2, <1>3 DEF IInv, Emptied, In
<1>11. \A u \in Task, q \in Pipe, e \in 1 .. 2 : Holds(u, q, e)' <=> Holds(u, q, e)
  BY <1>1, <1>4 DEF Holds
<1>12. \A q \in Pipe, e \in 1 .. 2 : Holders(q, e)' = Holders(q, e)
  BY <1>11 DEF Holders
<1>13. EndHeld'
  <2>1. ASSUME NEW u \in Task \ {t}, In(u, "read")'
        PROVE  u \in Holders(call[u].inode, 1)'
    <3>1. In(u, "read") /\ call'[u] = call[u] /\ call[u].inode \in Pipe
      BY <1>1, <1>2, <2>1, CallIs DEF In
    <3> QED
      BY <1>12, <3>1 DEF IInv, EndHeld
  <2>2. ASSUME NEW u \in Task \ {t}, In(u, "write")'
        PROVE  u \in Holders(call[u].inode, 2)'
    <3>1. In(u, "write") /\ call'[u] = call[u] /\ call[u].inode \in Pipe
      BY <1>1, <1>2, <2>2, CallIs DEF In
    <3> QED
      BY <1>12, <3>1 DEF IInv, EndHeld
  <2>3. In(t, "read")' => t \in Holders(call[t].inode, 1)'
    BY <1>2, <1>12 DEF In, Uses
  <2>4. In(t, "write")' => t \in Holders(call[t].inode, 2)'
    BY <1>2, <1>12 DEF In, Uses
  <2> QED
    BY <2>1, <2>2, <2>3, <2>4 DEF EndHeld
<1>14. ASSUME NEW q \in Pipe \ {p}
       PROVE  Size(q)' = Size(q) /\ Bytes(q)' = Bytes(q) /\ waiting'[q] = waiting[q]
  <2>1. Size(q)' = Size(q)
    BY DEF At, Size
  <2> QED
    BY <2>1 DEF At, Bytes
<1>15. ASSUME NEW q \in Pipe \ {p}, NEW u \in waiting[q]
       PROVE  call'[u] = call[u] /\ (In(u, "read") \/ In(u, "write")) /\ call[u].inode = q /\ u \in Task
  <2>1. u \in Task /\ (In(u, "read") \/ In(u, "write")) /\ call[u].inode = q
    BY DEF IInv, Sleeping, TypeOK
  <2>2. u # t
    BY <1>3, <2>1 DEF Uses, In
  <2> QED
    BY <1>2, <2>1, <2>2
<1>16. ASSUME NEW u \in waiting'[p]
       PROVE  /\ u = t /\ i_count[p] = 2 /\ c.op \in {"read", "write"} /\ c.inode = p
              /\ IF c.op = "read" THEN Size(p)' = 0 ELSE Size(p)' = PAGE_SIZE - 1
  BY DEF Rests, Uses
<1>17. Sleeping'
  <2>1. ASSUME NEW q \in Pipe, NEW u \in waiting'[q]
        PROVE  (In(u, "read")' \/ In(u, "write")') /\ call'[u].inode = q
    <3>1. CASE q = p
      BY <1>2, <1>16, <2>1, <3>1 DEF In
    <3>2. CASE q # p
      BY <1>14, <1>15, <2>1, <3>2 DEF In
    <3> QED
      BY <3>1, <3>2
  <2> QED
    BY <2>1 DEF Sleeping
<1>18. AsleepForAReason'
  <2>1. ASSUME NEW q \in Pipe, NEW u \in waiting'[q]
        PROVE  /\ i_count'[q] = 2
               /\ IF In(u, "read")' THEN Size(q)' = 0 ELSE Size(q)' = PAGE_SIZE - 1
    <3>1. CASE q = p
      BY <1>1, <1>2, <1>16, <2>1, <3>1 DEF In
    <3>2. CASE q # p
      <4>1. /\ u \in waiting[q] /\ call'[u] = call[u] /\ Size(q)' = Size(q)
        BY <1>14, <1>15, <2>1, <3>2
      <4> QED
        BY <1>1, <4>1 DEF IInv, AsleepForAReason, In
    <3> QED
      BY <3>1, <3>2
  <2> QED
    BY <2>1 DEF AsleepForAReason
<1>19. Filled'
  <2>1. ASSUME NEW q \in Pipe, i_count'[q] # 0, NEW i \in 1 .. Size(q)'
        PROVE  Bytes(q)'[i] \in Byte
    <3>1. CASE q = p
      BY <1>1, <2>1, <3>1
    <3>2. CASE q # p
      BY <1>1, <1>14, <2>1, <3>2 DEF IInv, Filled
    <3> QED
      BY <3>1, <3>2
  <2> QED
    BY <2>1 DEF Filled
<1> QED
  BY <1>5, <1>6, <1>7, <1>8, <1>9, <1>10, <1>13, <1>17, <1>18, <1>19 DEF IInv

(* A pipe with an open end is counted.                                      *)
LEMMA OpenIsCounted ==
  ASSUME IInv, NEW t \in Task, NEW p \in Pipe, NEW e \in 1 .. 2, Holds(t, p, e)
  PROVE  i_count[p] # 0
<1>1. IsOpen(f_count, f_inode, f_mode, call, p, e)
  BY EndHasHolder DEF IInv, TypeOK, Table
<1>2. IsOpen(f_count, f_inode, f_mode, call, p, 1) \/ IsOpen(f_count, f_inode, f_mode, call, p, 2)
  BY <1>1
<1> QED
  BY <1>2 DEF IInv, Ends, Bit
-----------------------------------------------------------------------------
(* The channel the pipes are: the variables of Promise.                     *)
Queue == [p \in Pipe |-> IF i_count[p] = 0 THEN <<>> ELSE Bytes(p)]
Readers == [p \in Pipe |-> Holders(p, 1)]
Writers == [p \in Pipe |-> Holders(p, 2)]
Simulates == IInv' /\ [Promise!Next]_(Promise!vars)

(* i_count tells who is there (pipe.c:13, 31, 38).                           *)
Seen ==
  \A p \in Pipe :
    /\ Holders(p, 1) # {} <=> IsOpen(f_count, f_inode, f_mode, call, p, 1)
    /\ Holders(p, 2) # {} <=> IsOpen(f_count, f_inode, f_mode, call, p, 2)
    /\ i_count[p] = 0 <=> (Holders(p, 1) = {} /\ Holders(p, 2) = {})
    /\ i_count[p] = 2 <=> (Holders(p, 1) # {} /\ Holders(p, 2) # {})

LEMMA SeenHolds == IInv => Seen
<1>1. SUFFICES ASSUME IInv PROVE Seen
  OBVIOUS
<1>2. ASSUME NEW p \in Pipe, NEW e \in 1 .. 2
      PROVE  Holders(p, e) # {} <=> IsOpen(f_count, f_inode, f_mode, call, p, e)
  <2>1. IsOpen(f_count, f_inode, f_mode, call, p, e) <=> \E t \in Task : Holds(t, p, e)
    BY <1>1, EndHasHolder DEF IInv, TypeOK, Table
  <2> QED
    BY <2>1 DEF Holders
<1>3. ASSUME NEW p \in Pipe
      PROVE  /\ Holders(p, 1) # {} <=> IsOpen(f_count, f_inode, f_mode, call, p, 1)
             /\ Holders(p, 2) # {} <=> IsOpen(f_count, f_inode, f_mode, call, p, 2)
             /\ i_count[p] = 0 <=> (Holders(p, 1) = {} /\ Holders(p, 2) = {})
             /\ i_count[p] = 2 <=> (Holders(p, 1) # {} /\ Holders(p, 2) # {})
  <2>1. /\ Holders(p, 1) # {} <=> IsOpen(f_count, f_inode, f_mode, call, p, 1)
        /\ Holders(p, 2) # {} <=> IsOpen(f_count, f_inode, f_mode, call, p, 2)
    BY <1>2
  <2>2. i_count[p] = Bit(IsOpen(f_count, f_inode, f_mode, call, p, 1))
                     + Bit(IsOpen(f_count, f_inode, f_mode, call, p, 2))
    BY <1>1 DEF IInv, Ends
  <2> QED
    BY <2>1, <2>2 DEF Bit
<1> QED
  BY <1>3 DEF Seen

LEMMA SeenNext == IInv' => Seen'
BY SeenHolds, PTL

(* What closes and copies ends is Pass.                                     *)
LEMMA KeptSimulates ==
  ASSUME IInv, Kept
  PROVE  Simulates
<1>1. IInv' /\ Passes /\ Seen /\ Seen'
  BY SeenHolds, SeenNext DEF Kept
<1>2. ASSUME NEW p \in Pipe, NEW e \in 1 .. 2, IsOpen(f_count', f_inode', f_mode', call', p, e)
      PROVE  IsOpen(f_count, f_inode, f_mode, call, p, e)
  BY <1>1, <1>2 DEF Passes, IsOpen, EndOf
<1>3. \A p \in Pipe : /\ Holders(p, 1) = {} => Holders(p, 1)' = {}
                      /\ Holders(p, 2) = {} => Holders(p, 2)' = {}
  BY <1>1, <1>2 DEF Seen
<1>4. ASSUME NEW p \in Pipe
      PROVE  (IF i_count'[p] = 0 THEN <<>> ELSE Bytes(p)')
             = IF Holders(p, 1)' \union Holders(p, 2)' = {} THEN <<>>
               ELSE IF i_count[p] = 0 THEN <<>> ELSE Bytes(p)
  <2>1. i_count'[p] = 0 <=> Holders(p, 1)' \union Holders(p, 2)' = {}
    BY <1>1 DEF Seen
  <2>2. ASSUME i_count'[p] # 0
        PROVE  i_count[p] # 0 /\ Bytes(p)' = Bytes(p)
    <3>1. i_count[p] # 0
      BY <1>1, <1>3, <2>1, <2>2 DEF Seen
    <3>2. page'[p] = page[p] /\ head' = head /\ tail' = tail
      BY <1>1, <2>2 DEF Passes
    <3>3. Size(p)' = Size(p)
      BY <3>2 DEF Size
    <3> QED
      BY <3>1, <3>2, <3>3 DEF Bytes
  <2> QED
    BY <2>1, <2>2
<1>5. Promise!Pass
  BY <1>1, <1>3, <1>4 DEF Promise!Pass, Passes
<1> QED
  BY <1>1, <1>5 DEF Simulates, Promise!Next

(* A read or a write changes the bytes of its pipe only.                    *)
LEMMA AtSees ==
  ASSUME IInv, NEW t \in Task, NEW p \in Pipe, NEW c, Uses(call[t], t, p), Uses(c, t, p),
         At(t, p, c), i_count[p] # 0
  PROVE  /\ Readers' = Readers /\ Writers' = Writers
         /\ Queue[p] = Bytes(p) /\ Queue' = [Queue EXCEPT ![p] = Bytes(p)']
<1>1. /\ UNCHANGED <<filp, f_inode, f_mode, i_count>> /\ call \in [Task -> Call]
  BY DEF At, files, IInv, TypeOK
<1>2. \A u \in Task : Taken(u)' = Taken(u)
  <2>1. call'[t] = c /\ \A u \in Task \ {t} : call'[u] = call[u]
    BY <1>1 DEF At
  <2> QED
    BY <2>1 DEF Taken, Uses
<1>3. \A u \in Task, q \in Pipe, e \in 1 .. 2 : Holds(u, q, e)' <=> Holds(u, q, e)
  BY <1>1, <1>2 DEF Holds
<1>4. \A q \in Pipe, e \in 1 .. 2 : Holders(q, e)' = Holders(q, e)
  BY <1>3 DEF Holders
<1>5. Readers' = Readers /\ Writers' = Writers
  BY <1>4 DEF Readers, Writers
<1>6. ASSUME NEW q \in Pipe \ {p}
      PROVE  Bytes(q)' = Bytes(q)
  <2>1. Size(q)' = Size(q)
    BY DEF At, Size
  <2> QED
    BY <2>1 DEF At, Bytes
<1>7. Queue[p] = Bytes(p) /\ Queue' = [Queue EXCEPT ![p] = Bytes(p)']
  BY <1>1, <1>6 DEF Queue
<1> QED
  BY <1>5, <1>7

(* What the programs are told, and what becomes of the queue: the steps of   *)
(* the channel.                                                             *)
LEMMA EndIs ==
  ASSUME NEW t \in Task, NEW p \in Pipe, t \in Holders(p, 1), Holders(p, 2) = {}, Queue[p] = <<>>,
         reply' = [reply EXCEPT ![t] = Promise!Eof],
         Queue' = Queue, Readers' = Readers, Writers' = Writers
  PROVE  Promise!Next
<1>1. Promise!End(t, p)
  BY DEF Promise!End, Promise!Tell, Queue, Readers, Writers
<1> QED
  BY <1>1 DEF Promise!Next

LEMMA ReadIs ==
  ASSUME NEW t \in Task, NEW p \in Pipe, t \in Holders(p, 1), NEW n \in 1 .. Len(Queue[p]),
         reply' = [reply EXCEPT ![t] = Promise!Data(SubSeq(Queue[p], 1, n))],
         Queue' = [Queue EXCEPT ![p] = SubSeq(Queue[p], n + 1, Len(Queue[p]))],
         Readers' = Readers, Writers' = Writers
  PROVE  Promise!Next
<1>1. Promise!Read(t, p)
  BY DEF Promise!Read, Promise!Tell, Queue, Readers, Writers
<1> QED
  BY <1>1 DEF Promise!Next

LEMMA RefuseIs ==
  ASSUME NEW t \in Task, NEW p \in Pipe, t \in Holders(p, 2), Holders(p, 1) = {},
         reply' = [reply EXCEPT ![t] = Promise!Broken],
         Queue' = Queue, Readers' = Readers, Writers' = Writers
  PROVE  Promise!Next
<1>1. Promise!Refuse(t, p)
  BY DEF Promise!Refuse, Promise!Tell, Queue, Readers, Writers
<1> QED
  BY <1>1 DEF Promise!Next

LEMMA WriteIs ==
  ASSUME NEW t \in Task, NEW p \in Pipe, t \in Holders(p, 2),
         NEW n \in 1 .. PAGE_SIZE - 1 - Len(Queue[p]), NEW s \in [1 .. n -> Byte],
         \/ reply' = reply
         \/ reply' = [reply EXCEPT ![t] = Promise!Written]
         \/ Holders(p, 1) = {} /\ reply' = [reply EXCEPT ![t] = Promise!Broken],
         Queue' = [Queue EXCEPT ![p] = Queue[p] \o s],
         Readers' = Readers, Writers' = Writers
  PROVE  Promise!Next
<1>1. Promise!Write(t, p)
  BY DEF Promise!Write, Promise!Tell, Queue, Readers, Writers
<1> QED
  BY <1>1 DEF Promise!Next

LEMMA WaitIs ==
  ASSUME UNCHANGED <<Queue, Readers, Writers, reply>>
  PROVE  UNCHANGED Promise!vars
BY DEF Promise!vars, Queue, Readers, Writers

(* Sequences that are written as functions.                                 *)
LEMMA DropIs ==
  ASSUME NEW b \in Seq(Byte), NEW k \in 0 .. Len(b), NEW q, q = [i \in 1 .. Len(b) - k |-> q[i]],
         \A i \in 1 .. Len(b) - k : q[i] = b[k + i]
  PROVE  q = SubSeq(b, k + 1, Len(b))
<1>1. Len(b) \in Nat /\ k \in Nat /\ Len(b) - k \in Nat
  OBVIOUS
<1> DEFINE z == Len(b)
           m == z - k
           r == SubSeq(b, k + 1, z)
<1> HIDE DEF z
<1>2. \A i \in 1 .. m : k + i \in 1 .. z /\ b[k + i] \in Byte
  BY <1>1 DEF z
<1> HIDE DEF m
<1>3. q \in [1 .. m -> Byte]
  BY <1>2 DEF m, z
<1>4. q \in Seq(Byte) /\ Len(q) = m
  BY <1>1, <1>3 DEF m, z
<1>5. r \in Seq(Byte) /\ Len(r) = m /\ \A i \in 1 .. m : r[i] = b[k + i]
  BY <1>1 DEF m, z
<1> HIDE DEF r
<1>6. q = r
  BY <1>4, <1>5, SeqEqual DEF m, z
<1> QED
  BY <1>6 DEF r, z

LEMMA AppendIs ==
  ASSUME NEW b \in Seq(Byte), NEW s, NEW k \in Nat, \A i \in 1 .. k : s[i] \in Byte,
         NEW q, q = [i \in 1 .. Len(b) + k |-> q[i]],
         \A i \in 1 .. Len(b) : q[i] = b[i], \A i \in 1 .. k : q[Len(b) + i] = s[i]
  PROVE  [i \in 1 .. k |-> s[i]] \in [1 .. k -> Byte] /\ q = b \o [i \in 1 .. k |-> s[i]]
<1> DEFINE z == Len(b)
           u == [i \in 1 .. k |-> s[i]]
           r == b \o u
<1>1. z \in Nat /\ z + k \in Nat
  OBVIOUS
<1>2. u \in [1 .. k -> Byte]
  OBVIOUS
<1> HIDE DEF u
<1>3. u \in Seq(Byte) /\ Len(u) = k /\ \A i \in 1 .. k : u[i] = s[i]
  BY <1>2 DEF u
<1>4. r \in Seq(Byte) /\ Len(r) = z + k
        /\ \A i \in 1 .. z + k : r[i] = IF i <= z THEN b[i] ELSE u[i - z]
  BY <1>3, ConcatProperties
<1> HIDE DEF z
<1>5. ASSUME NEW i \in 1 .. z + k
      PROVE  q[i] = r[i] /\ q[i] \in Byte
  <2>1. CASE i <= z
    <3>1. i \in 1 .. z
      BY <1>1, <2>1
    <3>2. q[i] = b[i]
      BY <3>1 DEF z
    <3>3. r[i] = b[i]
      BY <1>4, <2>1
    <3>4. b[i] \in Byte
      BY <3>1 DEF z
    <3> QED
      BY <3>2, <3>3, <3>4
  <2>2. CASE ~(i <= z)
    <3>1. i - z \in 1 .. k /\ z + (i - z) = i
      BY <1>1, <2>2
    <3>2. q[z + (i - z)] = s[i - z]
      BY <3>1 DEF z
    <3> QED
      BY <1>3, <1>4, <2>2, <3>1, <3>2
  <2> QED
    BY <2>1, <2>2
<1> HIDE DEF r
<1>6. q \in [1 .. z + k -> Byte]
  BY <1>5 DEF z
<1>7. q \in Seq(Byte) /\ Len(q) = z + k
  BY <1>1, <1>6
<1>8. q = r
  BY <1>4, <1>5, <1>7, SeqEqual
<1> QED
  BY <1>2, <1>8 DEF r, u
-----------------------------------------------------------------------------
(* The replies, and the bytes of a pipe, in terms of the ring.              *)
LEMMA RepliesAre ==
  /\ Promise!Eof \in Replies /\ Promise!Written \in Replies /\ Promise!Broken \in Replies
  /\ \A s \in Seq(Byte) : Promise!Data(s) \in Replies
BY DEF Promise!Eof, Promise!Written, Promise!Broken, Promise!Data, Replies

LEMMA RingIs ==
  ASSUME IInv, NEW p \in Pipe
  PROVE  /\ head[p] \in Index /\ tail[p] \in Index /\ page[p] \in [Index -> Byte \union {Blank}]
         /\ Size(p) = SizeOf(head[p], tail[p]) /\ Size(p) \in 0 .. PAGE_SIZE - 1
         /\ \A i \in 1 .. Size(p) : Bytes(p)[i] = ByteOf(page[p], tail[p], i)
         /\ i_count[p] # 0 => Bytes(p) \in [1 .. Size(p) -> Byte] /\ Bytes(p) \in Seq(Byte)
                              /\ Len(Bytes(p)) = Size(p)
<1>1. head[p] \in Index /\ tail[p] \in Index /\ page[p] \in [Index -> Byte \union {Blank}]
  BY DEF IInv, TypeOK
<1>2. Size(p) = SizeOf(head[p], tail[p]) /\ Size(p) \in 0 .. PAGE_SIZE - 1
  BY <1>1, Distance DEF Size, SizeOf
<1>3. \A i \in 1 .. Size(p) : Bytes(p)[i] = ByteOf(page[p], tail[p], i)
  BY DEF Bytes, ByteOf
<1>4. ASSUME i_count[p] # 0
      PROVE  Bytes(p) \in [1 .. Size(p) -> Byte] /\ Bytes(p) \in Seq(Byte) /\ Len(Bytes(p)) = Size(p)
  <2>1. \A i \in 1 .. Size(p) : Bytes(p)[i] \in Byte
    BY <1>4 DEF IInv, Filled
  <2>2. Bytes(p) = [i \in 1 .. Size(p) |-> Bytes(p)[i]]
    BY DEF Bytes
  <2> DEFINE b == Bytes(p)
             z == Size(p)
  <2> HIDE DEF b, z
  <2>3. b \in [1 .. z -> Byte] /\ z \in Nat
    <3>1. z \in Nat
      BY <1>2, FilesAssumption DEF z
    <3> QED
      BY <2>1, <2>2, <3>1 DEF b, z
  <2>4. b \in Seq(Byte) /\ Len(b) = z
    BY <2>3
  <2> QED
    BY <2>3, <2>4 DEF b, z
<1> QED
  BY <1>1, <1>2, <1>3, <1>4

(* read_pipe: what there is, up to n bytes; or end of file; or sleep.        *)
LEMMA ReadPipeSimulates ==
  ASSUME IInv, NEW t \in Task, NEW p \in Pipe, NEW n \in 1 .. PAGE_SIZE,
         Uses(call[t], t, p), t \in Holders(p, 1),
         ReadPipe(t, p, n), UNCHANGED <<files, i_count>>
  PROVE  Simulates
<1>1. /\ head \in [Pipe -> Index] /\ tail \in [Pipe -> Index] /\ waiting \in [Pipe -> SUBSET Task]
      /\ page \in [Pipe -> [Index -> Byte \union {Blank}]] /\ reply \in [Task -> Replies]
      /\ i_count \in [Pipe -> 0 .. 2] /\ i_count' = i_count
  BY DEF IInv, TypeOK, Replies
<1>2. PAGE_SIZE \in Nat /\ PAGE_SIZE > 1 /\ n \in Nat /\ n > 0
  BY FilesAssumption
<1>3. User \in Call /\ Uses(User, t, p)
  BY DEF User, Call, Uses
<1>4. Uses(Reading(p, n), t, p) /\ Reading(p, n).op = "read"
  BY DEF Reading, Call, Uses
<1>7. i_count[p] # 0 /\ Seen
  <2>1. Holds(t, p, 1)
    BY DEF Holders
  <2> QED
    BY <2>1, OpenIsCounted, SeenHolds
<1>5. CASE Size(p) = 0
  <2>1. UNCHANGED <<page, head, tail>>
    BY <1>5 DEF ReadPipe
  <2>2. Size(p)' = 0
    BY <1>5, <2>1 DEF Size
  <2>3. \A i \in 1 .. Size(p)' : Bytes(p)'[i] \in Byte
    BY <2>2
  <2>6. Bytes(p)' = Bytes(p) /\ Bytes(p) = <<>>
    <3>1. Size(p)' = Size(p)
      BY <1>5, <2>2
    <3>2. Bytes(p)' = Bytes(p)
      BY <2>1, <3>1 DEF Bytes
    <3>3. Bytes(p) \in Seq(Byte) /\ Len(Bytes(p)) = 0
      BY <1>5, <1>7, RingIs
    <3> QED
      BY <3>2, <3>3, EmptySeq
  <2>4. CASE i_count[p] # 2
    <3>1. /\ waiting' = [waiting EXCEPT ![p] = {}] /\ reply' = [reply EXCEPT ![t] = Promise!Eof]
          /\ call' = [call EXCEPT ![t] = User]
      BY <1>5, <2>4 DEF ReadPipe, Wake, Answer, Become
    <3>2. At(t, p, User)
      BY <1>1, <2>1, <3>1, RepliesAre DEF At
    <3>3. Rests(t, p, User)
      BY <1>1, <3>1 DEF Rests
    <3>4. IInv'
      BY <1>3, <2>3, <3>2, <3>3, AtKeeps
    <3>5. Readers' = Readers /\ Writers' = Writers /\ Queue' = Queue /\ Queue[p] = <<>>
      <4>1. /\ Readers' = Readers /\ Writers' = Writers
            /\ Queue[p] = Bytes(p) /\ Queue' = [Queue EXCEPT ![p] = Bytes(p)']
        BY <1>3, <1>7, <3>2, AtSees
      <4> QED
        BY <2>6, <4>1 DEF Queue
    <3>6. Holders(p, 2) = {}
      BY <1>7, <2>4 DEF Seen
    <3>7. Promise!Next
      BY <3>1, <3>5, <3>6, EndIs
    <3> QED
      BY <3>4, <3>7 DEF Simulates
  <2>5. CASE i_count[p] = 2
    <3>1. /\ waiting' = [waiting EXCEPT ![p] = {t}] /\ reply' = reply
          /\ call' = [call EXCEPT ![t] = Reading(p, n)]
      BY <1>5, <2>5 DEF ReadPipe, SleepOn, Become
    <3>2. At(t, p, Reading(p, n))
      BY <1>1, <2>1, <3>1 DEF At
    <3>3. Rests(t, p, Reading(p, n))
      BY <1>1, <1>4, <2>2, <2>5, <3>1 DEF Rests
    <3>4. IInv'
      BY <1>4, <2>3, <3>2, <3>3, AtKeeps
    <3>5. Readers' = Readers /\ Writers' = Writers /\ Queue' = Queue
      <4>1. /\ Readers' = Readers /\ Writers' = Writers
            /\ Queue[p] = Bytes(p) /\ Queue' = [Queue EXCEPT ![p] = Bytes(p)']
        BY <1>4, <1>7, <3>2, AtSees
      <4> QED
        BY <2>6, <4>1 DEF Queue
    <3>6. UNCHANGED Promise!vars
      BY <3>1, <3>5, WaitIs
    <3> QED
      BY <3>4, <3>6 DEF Simulates
  <2> QED
    BY <2>4, <2>5
<1>6. CASE Size(p) # 0
  <2> DEFINE z == Size(p)
             k == Min({n, z})
             r == INC_PIPE(tail[p], k)
             b == Bytes(p)
             pg == page[p]
             qg == [i \in Index |-> IF (i - tail[p]) % PAGE_SIZE < k THEN Blank ELSE pg[i]]
  <2>1. /\ reply' = [reply EXCEPT ![t] = Promise!Data(SubSeq(b, 1, k))]
        /\ call' = [call EXCEPT ![t] = User]
        /\ tail' = [tail EXCEPT ![p] = r] /\ page' = [page EXCEPT ![p] = qg]
        /\ waiting' = [waiting EXCEPT ![p] = {}] /\ head' = head
    BY <1>1, <1>6 DEF ReadPipe, Wake, Answer, Become
  <2>2. z \in 0 .. PAGE_SIZE - 1 /\ z > 0 /\ z \in Nat
    BY <1>2, <1>6, RingIs
  <2>3. k \in 0 .. z /\ k \in 1 .. z
    <3>1. {n, z} \subseteq Nat /\ {n, z} # {}
      BY <1>2, <2>2
    <3>2. k \in {n, z} /\ k <= z /\ k <= n
      BY <3>1, MinIs
    <3> QED
      BY <1>2, <2>2, <3>2
  <2>5. b \in Seq(Byte) /\ Len(b) = z
    BY <1>7, RingIs
  <2> HIDE DEF z, k, b
  <2>6. SubSeq(b, 1, k) \in Seq(Byte)
    <3>1. \A i \in 1 .. k : b[i] \in Byte
      BY <2>2, <2>3, <2>5
    <3> QED
      BY <2>2, <2>3, <3>1, SubSeqProperties
  <2>7. /\ r \in Index /\ SizeOf(head[p], r) = z - k
        /\ \A i \in 1 .. z - k : ByteOf(qg, r, i) = ByteOf(pg, tail[p], k + i)
    <3>1. head[p] \in Index /\ tail[p] \in Index /\ k \in 0 .. SizeOf(head[p], tail[p])
          /\ z = SizeOf(head[p], tail[p])
      BY <2>3, RingIs DEF z
    <3>2. r = INC_PIPE(tail[p], k)
      OBVIOUS
    <3>3. qg = [i \in Index |-> IF (i - tail[p]) % PAGE_SIZE < k THEN Blank ELSE pg[i]]
      OBVIOUS
    <3> HIDE DEF pg, r, qg
    <3> QED
      BY <3>1, <3>2, <3>3, RingTake
  <2>8. qg \in [Index -> Byte \union {Blank}]
    BY <1>1
  <2> HIDE DEF qg, r
  <2>9. At(t, p, User)
    <3>1. reply' \in [Task -> Replies]
      BY <1>1, <2>1, <2>6, RepliesAre
    <3> QED
      BY <1>1, <2>1, <2>7, <2>8, <3>1 DEF At
  <2>10. Rests(t, p, User)
    BY <1>1, <2>1 DEF Rests
  <2>11. head'[p] = head[p] /\ tail'[p] = r /\ page'[p] = qg
    BY <1>1, <2>1
  <2>12. Size(p)' = z - k
    BY <2>7, <2>11 DEF Size, SizeOf
  <2>13. ASSUME NEW i \in 1 .. Size(p)'
         PROVE  Bytes(p)'[i] \in Byte
    <3>1. Bytes(p)'[i] = ByteOf(qg, r, i)
      BY <2>11 DEF Bytes, ByteOf
    <3>2. ByteOf(qg, r, i) = ByteOf(pg, tail[p], k + i)
      BY <2>7, <2>12
    <3>3. k + i \in 1 .. z
      BY <2>2, <2>3, <2>12
    <3>4. b[k + i] = ByteOf(pg, tail[p], k + i)
      BY <3>3, RingIs DEF b, z
    <3>5. b[k + i] \in Byte
      BY <2>5, <3>3
    <3> QED
      BY <3>1, <3>2, <3>4, <3>5
  <2>14. IInv'
    BY <1>3, <2>9, <2>10, <2>13, AtKeeps
  <2>15. \A i \in 1 .. z - k : Bytes(p)'[i] = b[k + i]
    <3>1. TAKE i \in 1 .. z - k
    <3>2. Bytes(p)'[i] = ByteOf(qg, r, i)
      BY <2>11, <2>12 DEF Bytes, ByteOf
    <3>3. k + i \in 1 .. z
      BY <2>2, <2>3
    <3>4. b[k + i] = ByteOf(pg, tail[p], k + i)
      BY <3>3, RingIs DEF b, z
    <3> QED
      BY <2>7, <3>2, <3>4
  <2>16. Bytes(p)' = SubSeq(b, k + 1, Len(b))
    <3> DEFINE q == Bytes(p)'
    <3>1. q = [i \in 1 .. Len(b) - k |-> q[i]]
      BY <2>5, <2>12 DEF Bytes
    <3>2. \A i \in 1 .. Len(b) - k : q[i] = b[k + i]
      BY <2>5, <2>15
    <3>3. b \in Seq(Byte) /\ k \in 0 .. Len(b)
      BY <2>3, <2>5
    <3> HIDE DEF q
    <3>4. q = SubSeq(b, k + 1, Len(b))
      BY ONLY <3>1, <3>2, <3>3, DropIs
    <3> QED
      BY <3>4 DEF q
  <2>17. /\ Readers' = Readers /\ Writers' = Writers
         /\ Queue[p] = b /\ Queue' = [Queue EXCEPT ![p] = Bytes(p)']
    BY <1>3, <1>7, <2>9, AtSees DEF b
  <2>18. Promise!Next
    BY <2>1, <2>3, <2>5, <2>16, <2>17, ReadIs
  <2> QED
    BY <2>14, <2>18 DEF Simulates
<1> QED
  BY <1>5, <1>6

(* write_pipe: what there is room for; then SIGPIPE, or sleep.               *)
LEMMA WritePipeSimulates ==
  ASSUME IInv, NEW t \in Task, NEW p \in Pipe, NEW s \in Tails,
         Uses(call[t], t, p), t \in Holders(p, 2),
         WritePipe(t, p, s), UNCHANGED <<files, i_count>>
  PROVE  Simulates
<1> DEFINE z == Size(p)
           k == Min({Len(s), Room(p)})
           r == INC_PIPE(head[p], k)
           b == Bytes(p)
           h == head[p]
           l == tail[p]
           pg == page[p]
           qg == [i \in Index |-> IF (i - h) % PAGE_SIZE < k THEN s[((i - h) % PAGE_SIZE) + 1] ELSE pg[i]]
<1>1. /\ head \in [Pipe -> Index] /\ tail \in [Pipe -> Index] /\ waiting \in [Pipe -> SUBSET Task]
      /\ page \in [Pipe -> [Index -> Byte \union {Blank}]] /\ reply \in [Task -> Replies]
      /\ i_count \in [Pipe -> 0 .. 2] /\ i_count' = i_count
  BY DEF IInv, TypeOK, Replies
<1>2. PAGE_SIZE \in Nat /\ PAGE_SIZE > 1
  BY FilesAssumption
<1>3. s \in Seq(Byte) /\ Len(s) \in Nat \ {0} /\ \A j \in 0 .. Len(s) - 1 : SubSeq(s, j + 1, Len(s)) \in Tails
  BY TailIs
<1>4. User \in Call /\ Uses(User, t, p)
  BY DEF User, Call, Uses
<1>5. /\ head' = [head EXCEPT ![p] = r] /\ page' = [page EXCEPT ![p] = qg] /\ tail' = tail
      /\ \/ /\ k = Len(s) \/ i_count[p] # 2
            /\ waiting' = [waiting EXCEPT ![p] = {}] /\ call' = [call EXCEPT ![t] = User]
            /\ \/ k = Len(s) /\ reply' = [reply EXCEPT ![t] = Promise!Written]
               \/ i_count[p] # 2 /\ reply' = [reply EXCEPT ![t] = Promise!Broken]
         \/ /\ k # Len(s) /\ i_count[p] = 2
            /\ waiting' = [waiting EXCEPT ![p] = {t}] /\ reply' = reply
            /\ call' = [call EXCEPT ![t] = Writing(p, SubSeq(s, k + 1, Len(s)))]
  BY <1>1 DEF WritePipe, Wake, SleepOn, Answer, Become
<1>6. z \in 0 .. PAGE_SIZE - 1 /\ z = SizeOf(h, l) /\ h \in Index /\ l \in Index
      /\ \A i \in 1 .. z : b[i] = ByteOf(pg, l, i)
  BY RingIs
<1>7. Room(p) = PAGE_SIZE - 1 - z
  BY DEF Room
<1>8. k \in 0 .. PAGE_SIZE - 1 - z /\ k <= Len(s) /\ k \in Nat /\ (k # Len(s) => k = PAGE_SIZE - 1 - z)
  <2> DEFINE m == PAGE_SIZE - 1 - z
             n == Len(s)
  <2>0. k = Min({n, m})
    BY <1>7
  <2> HIDE DEF z, k, n
  <2>1. m \in Nat /\ n \in Nat
    BY <1>2, <1>3, <1>6 DEF n
  <2> HIDE DEF m
  <2>2. {n, m} \subseteq Nat /\ {n, m} # {}
    BY <2>1
  <2>3. k \in {n, m} /\ k <= n /\ k <= m
    BY <2>0, <2>2, MinIs
  <2>4. k \in 0 .. m /\ k <= n /\ k \in Nat /\ (k # n => k = m)
    BY <2>1, <2>3
  <2> QED
    BY <2>4 DEF m, n
<1> HIDE DEF z, k, b
<1>9. \A i \in 1 .. k : s[i] \in Byte
  BY <1>3, <1>8
<1>10. i_count[p] # 0
  <2>1. Holds(t, p, 2)
    BY DEF Holders
  <2> QED
    BY <2>1, OpenIsCounted
<1>11. b \in Seq(Byte) /\ Len(b) = z /\ \A i \in 1 .. z : b[i] \in Byte
  <2>1. b \in Seq(Byte) /\ Len(b) = z
    BY <1>10, RingIs DEF b, z
  <2> QED
    BY <2>1
<1>12. /\ r \in Index /\ SizeOf(r, l) = z + k
       /\ \A i \in 1 .. z : ByteOf(qg, l, i) = ByteOf(pg, l, i)
       /\ \A i \in 1 .. k : ByteOf(qg, l, z + i) = s[i]
  <2>1. k \in 0 .. PAGE_SIZE - 1 - SizeOf(h, l) /\ r = INC_PIPE(h, k)
    BY <1>6, <1>8
  <2>2. qg = [i \in Index |-> IF (i - h) % PAGE_SIZE < k THEN s[((i - h) % PAGE_SIZE) + 1] ELSE pg[i]]
    OBVIOUS
  <2>4. h \in Index /\ l \in Index
    BY <1>6
  <2> HIDE DEF qg, r, h, l, pg
  <2>3. /\ r \in Index /\ SizeOf(r, l) = SizeOf(h, l) + k
        /\ \A i \in 1 .. SizeOf(h, l) : ByteOf(qg, l, i) = ByteOf(pg, l, i)
        /\ \A i \in 1 .. k : ByteOf(qg, l, SizeOf(h, l) + i) = s[i]
    BY ONLY <2>1, <2>2, <2>4, RingPut
  <2> QED
    BY <1>6, <2>3
<1>13. qg \in [Index -> Byte \union {Blank}]
  <2>1. ASSUME NEW i \in Index
        PROVE  qg[i] \in Byte \union {Blank}
    <3>1. (i - h) % PAGE_SIZE \in 0 .. PAGE_SIZE - 1
      BY <1>6, Distance
    <3> DEFINE d == (i - h) % PAGE_SIZE
    <3> HIDE DEF d
    <3>2. d < k => d + 1 \in 1 .. k
      BY <1>2, <1>8, <3>1 DEF d
    <3>3. qg[i] = IF d < k THEN s[d + 1] ELSE pg[i]
      BY DEF d
    <3>4. pg[i] \in Byte \union {Blank}
      BY <1>1
    <3> QED
      BY <1>9, <3>2, <3>3, <3>4
  <2> QED
    BY <2>1
<1> HIDE DEF qg, r
<1>14. head'[p] = r /\ tail'[p] = l /\ page'[p] = qg
  BY <1>1, <1>5
<1>15. Size(p)' = z + k
  BY <1>12, <1>14 DEF Size, SizeOf
<1>16. ASSUME NEW i \in 1 .. Size(p)'
       PROVE  Bytes(p)'[i] \in Byte
  <2>1. Bytes(p)'[i] = ByteOf(qg, l, i)
    BY <1>14 DEF Bytes, ByteOf
  <2>2. i \in 1 .. z + k /\ z \in Nat
    BY <1>2, <1>6, <1>15
  <2>3. CASE i \in 1 .. z
    BY <1>6, <1>11, <1>12, <2>1, <2>3
  <2>4. CASE i \notin 1 .. z
    <3>1. i - z \in 1 .. k /\ z + (i - z) = i
      BY <1>8, <2>2, <2>4
    <3>2. ByteOf(qg, l, z + (i - z)) = s[i - z]
      BY <1>12, <3>1
    <3> QED
      BY <1>9, <2>1, <3>1, <3>2
  <2> QED
    BY <2>3, <2>4
<1>17. /\ \A q \in Pipe \ {p} : page'[q] = page[q] /\ head'[q] = head[q] /\ tail'[q] = tail[q]
       /\ page' \in [Pipe -> [Index -> Byte \union {Blank}]]
       /\ head' \in [Pipe -> Index] /\ tail' \in [Pipe -> Index]
  BY <1>1, <1>5, <1>12, <1>13
<1> DEFINE Told == /\ Readers' = Readers /\ Writers' = Writers
                   /\ Queue[p] = Bytes(p) /\ Queue' = [Queue EXCEPT ![p] = Bytes(p)']
<1>18. ASSUME k = Len(s) \/ i_count[p] # 2
       PROVE  IInv' /\ Told
  <2>1. /\ waiting' = [waiting EXCEPT ![p] = {}] /\ call' = [call EXCEPT ![t] = User]
        /\ \/ reply' = [reply EXCEPT ![t] = Promise!Written]
           \/ reply' = [reply EXCEPT ![t] = Promise!Broken]
    BY <1>5, <1>18
  <2>2. reply' \in [Task -> Replies]
    BY <1>1, <2>1, RepliesAre
  <2>3. At(t, p, User)
    BY <1>1, <1>17, <2>1, <2>2 DEF At
  <2>4. Rests(t, p, User)
    BY <1>1, <2>1 DEF Rests
  <2>5. IInv'
    BY <1>4, <1>16, <2>3, <2>4, AtKeeps
  <2>6. Told
    BY <1>4, <1>10, <2>3, AtSees
  <2> QED
    BY <2>5, <2>6
<1>19. ASSUME k # Len(s), i_count[p] = 2
       PROVE  IInv' /\ Told
  <2> DEFINE c == Writing(p, SubSeq(s, k + 1, Len(s)))
  <2>1. waiting' = [waiting EXCEPT ![p] = {t}] /\ reply' = reply /\ call' = [call EXCEPT ![t] = c]
    BY <1>5, <1>19
  <2>2. SubSeq(s, k + 1, Len(s)) \in Tails
    <3>1. k \in 0 .. Len(s) - 1
      BY <1>3, <1>8, <1>19
    <3> QED
      BY <1>3, <3>1
  <2>3. c \in Call /\ c.op = "write" /\ c.inode = p
    <3> DEFINE x == SubSeq(s, k + 1, Len(s))
    <3>1. x \in Tails
      BY <2>2
    <3> HIDE DEF x
    <3>2. Writing(p, x) \in Call /\ Writing(p, x).op = "write" /\ Writing(p, x).inode = p
      BY <3>1 DEF Writing, Call, Tails
    <3> QED
      BY <3>2 DEF x
  <2>4. Uses(c, t, p)
    BY <2>3 DEF Uses
  <2> HIDE DEF c
  <2>5. Size(p)' = PAGE_SIZE - 1
    BY <1>2, <1>6, <1>8, <1>15, <1>19
  <2>6. At(t, p, c)
    BY <1>1, <1>17, <2>1 DEF At
  <2>7. Rests(t, p, c)
    BY <1>1, <1>19, <2>1, <2>3, <2>5 DEF Rests
  <2>8. IInv'
    BY <1>16, <2>4, <2>6, <2>7, AtKeeps
  <2>9. Told
    BY <1>10, <2>4, <2>6, AtSees
  <2> QED
    BY <2>8, <2>9
<1>20. /\ \A i \in 1 .. z : Bytes(p)'[i] = b[i]
       /\ \A i \in 1 .. k : Bytes(p)'[z + i] = s[i]
  <2>1. \A i \in 1 .. z + k : Bytes(p)'[i] = ByteOf(qg, l, i)
    BY <1>14, <1>15 DEF Bytes, ByteOf
  <2>2. /\ \A i \in 1 .. z : i \in 1 .. z + k
        /\ \A i \in 1 .. k : z + i \in 1 .. z + k
    BY <1>2, <1>6, <1>8
  <2> QED
    BY <1>6, <1>12, <2>1, <2>2
<1>21. IInv' /\ Told
  BY <1>18, <1>19
<1>22. \/ reply' = reply
       \/ k = Len(s) /\ reply' = [reply EXCEPT ![t] = Promise!Written]
       \/ Holders(p, 1) = {} /\ reply' = [reply EXCEPT ![t] = Promise!Broken]
  BY <1>5, SeenHolds DEF Seen
<1>23. ASSUME k > 0
       PROVE  Promise!Next
  <2> DEFINE u == [i \in 1 .. k |-> s[i]]
             q == Bytes(p)'
  <2>1. q = [i \in 1 .. Len(b) + k |-> q[i]]
    BY <1>11, <1>15 DEF Bytes
  <2>2. /\ \A i \in 1 .. Len(b) : q[i] = b[i]
        /\ \A i \in 1 .. k : q[Len(b) + i] = s[i]
    BY <1>11, <1>20
  <2>3. b \in Seq(Byte) /\ k \in Nat
    BY <1>8, <1>11
  <2> HIDE DEF q
  <2>4. u \in [1 .. k -> Byte] /\ q = b \o u
    BY ONLY <1>9, <2>1, <2>2, <2>3, AppendIs
  <2>5. k \in 1 .. PAGE_SIZE - 1 - Len(Queue[p])
    BY <1>2, <1>6, <1>8, <1>11, <1>21, <1>23 DEF b
  <2>6. Queue' = [Queue EXCEPT ![p] = Queue[p] \o u]
    BY <1>21, <2>4 DEF b, q
  <2> HIDE DEF u
  <2> QED
    BY <1>21, <1>22, <2>4, <2>5, <2>6, WriteIs
<1>24. ASSUME k = 0
       PROVE  [Promise!Next]_(Promise!vars)
  <2>1. \/ reply' = reply
        \/ Holders(p, 1) = {} /\ reply' = [reply EXCEPT ![t] = Promise!Broken]
    BY <1>3, <1>22, <1>24
  <2>2. Bytes(p)' = b
    <3>1. Bytes(p)' = [i \in 1 .. Size(p)' |-> Bytes(p)'[i]]
      BY DEF Bytes
    <3>2. b = [i \in 1 .. z |-> b[i]]
      BY DEF Bytes, b, z
    <3>3. Size(p)' = z
      BY <1>2, <1>6, <1>15, <1>24
    <3> QED
      BY <1>20, <3>1, <3>2, <3>3
  <2>3. Queue' = Queue
    BY <1>21, <2>2 DEF b, Queue
  <2> QED
    BY <1>21, <2>1, <2>3, RefuseIs, WaitIs
<1> QED
  BY <1>8, <1>21, <1>23, <1>24 DEF Simulates

(* The file behind a descriptor a program reads or writes is an end of a     *)
(* pipe, which the program holds.                                           *)
LEMMA EndIsHeld ==
  ASSUME IInv, NEW t \in Task, Runs(t), NEW fd \in Fd, NEW e \in 1 .. 2, End(t, fd, e)
  PROVE  /\ f_inode[filp[t][fd]] \in Pipe /\ t \in Holders(f_inode[filp[t][fd]], e)
         /\ Uses(call[t], t, f_inode[filp[t][fd]])
<1>1. call[t] = User /\ TakenBy(call[t]) = {} /\ call[t] \in Call
  BY RunsIs DEF IInv, TypeOK
<1>2. Taken(t) = {}
  BY <1>1 DEF Taken, TakenBy
<1> QED
  BY <1>1, <1>2 DEF End, Holders, Holds, Uses, User

LEMMA SysReadSimulates ==
  ASSUME IInv, NEW t \in Task, NEW fd \in Fd, NEW n \in 1 .. PAGE_SIZE, SysRead(t, fd, n)
  PROVE  Simulates
<1>1. Runs(t) /\ End(t, fd, 1) /\ ReadPipe(t, f_inode[filp[t][fd]], n) /\ UNCHANGED <<files, i_count>>
  BY DEF SysRead
<1> QED
  BY <1>1, EndIsHeld, ReadPipeSimulates

LEMMA ReadWokenSimulates ==
  ASSUME IInv, NEW t \in Task, ReadWoken(t)
  PROVE  Simulates
<1> DEFINE p == call[t].inode
           n == call[t].count
<1>1. In(t, "read") /\ ReadPipe(t, p, n) /\ UNCHANGED <<files, i_count>>
  BY DEF ReadWoken
<1>2. p \in Pipe /\ n \in 1 .. PAGE_SIZE /\ call[t] \in Call
  BY <1>1, CallIs DEF In, IInv, TypeOK
<1>3. t \in Holders(p, 1)
  BY <1>1 DEF IInv, EndHeld
<1>4. Uses(call[t], t, p)
  BY <1>1, <1>2, <1>3 DEF Uses, In
<1> QED
  BY <1>1, <1>2, <1>3, <1>4, ReadPipeSimulates

(* Without readers sys_write only says so.                                  *)
LEMMA RefusedSimulates ==
  ASSUME IInv, NEW t \in Task, NEW p \in Pipe, Uses(call[t], t, p),
         t \in Holders(p, 2), i_count[p] # 2,
         Wake(p), Answer(t, Promise!Broken), UNCHANGED <<page, head, tail>>, UNCHANGED <<files, i_count>>
  PROVE  Simulates
<1>1. waiting' = [waiting EXCEPT ![p] = {}] /\ reply' = [reply EXCEPT ![t] = Promise!Broken]
      /\ call' = [call EXCEPT ![t] = User]
  BY DEF Wake, Answer, Become
<1>2. /\ waiting \in [Pipe -> SUBSET Task] /\ reply \in [Task -> Replies]
      /\ page \in [Pipe -> [Index -> Byte \union {Blank}]]
      /\ head \in [Pipe -> Index] /\ tail \in [Pipe -> Index]
  BY DEF IInv, TypeOK, Replies
<1>3. At(t, p, User)
  BY <1>1, <1>2, RepliesAre DEF At
<1>4. Rests(t, p, User)
  BY <1>1, <1>2 DEF Rests
<1>5. Uses(User, t, p)
  BY DEF User, Call, Uses
<1>6. Size(p)' = Size(p)
  BY DEF Size
<1>7. Bytes(p)' = Bytes(p)
  BY <1>6 DEF Bytes
<1>8. i_count[p] # 0 => \A i \in 1 .. Size(p)' : Bytes(p)'[i] \in Byte
  BY <1>6, <1>7 DEF IInv, Filled
<1>9. IInv'
  BY <1>3, <1>4, <1>5, <1>8, AtKeeps
<1>10. i_count[p] # 0 /\ Holders(p, 1) = {}
  BY SeenHolds DEF Seen
<1>11. Readers' = Readers /\ Writers' = Writers /\ Queue' = Queue
  <2>1. /\ Readers' = Readers /\ Writers' = Writers
        /\ Queue[p] = Bytes(p) /\ Queue' = [Queue EXCEPT ![p] = Bytes(p)']
    BY <1>3, <1>5, <1>10, AtSees
  <2> QED
    BY <1>7, <2>1 DEF Queue
<1>12. Promise!Next
  BY <1>1, <1>10, <1>11, RefuseIs
<1> QED
  BY <1>9, <1>12 DEF Simulates

LEMMA SysWriteSimulates ==
  ASSUME IInv, NEW t \in Task, NEW fd \in Fd, NEW s \in Message, SysWrite(t, fd, s)
  PROVE  Simulates
<1> DEFINE p == f_inode[filp[t][fd]]
<1>1. Runs(t) /\ End(t, fd, 2) /\ UNCHANGED <<files, i_count>>
  BY DEF SysWrite
<1>2. p \in Pipe /\ t \in Holders(p, 2) /\ Uses(call[t], t, p)
  BY <1>1, EndIsHeld
<1>3. CASE i_count[p] # 2
  <2>1. Wake(p) /\ Answer(t, Promise!Broken) /\ UNCHANGED <<page, head, tail>>
    BY <1>3 DEF SysWrite
  <2> QED
    BY <1>1, <1>2, <1>3, <2>1, RefusedSimulates
<1>4. CASE i_count[p] = 2
  <2>1. WritePipe(t, p, s)
    BY <1>4 DEF SysWrite
  <2> QED
    BY <1>1, <1>2, <2>1, MessageIsTail, WritePipeSimulates
<1> QED
  BY <1>3, <1>4

LEMMA WriteWokenSimulates ==
  ASSUME IInv, NEW t \in Task, WriteWoken(t)
  PROVE  Simulates
<1> DEFINE p == call[t].inode
           s == call[t].bytes
<1>1. In(t, "write") /\ WritePipe(t, p, s) /\ UNCHANGED <<files, i_count>>
  BY DEF WriteWoken
<1>2. p \in Pipe /\ s \in Tails /\ call[t] \in Call
  BY <1>1, CallIs DEF In, IInv, TypeOK, Tails
<1>3. t \in Holders(p, 2)
  BY <1>1 DEF IInv, EndHeld
<1>4. Uses(call[t], t, p)
  BY <1>1, <1>2, <1>3 DEF Uses, In
<1> QED
  BY <1>1, <1>2, <1>3, <1>4, WritePipeSimulates

(* sys_pipe makes a new channel, and its caller holds both ends.             *)
LEMMA PipeMadeSimulates ==
  ASSUME IInv, NEW t \in Task, NEW p \in Pipe, PipeMade(t, p)
  PROVE  Simulates
<1> DEFINE f == call[t].f
           fd == call[t].fd
<1>1. /\ call[t].op = "pipe" /\ i_count[p] = 0
      /\ f_inode' = [f_inode EXCEPT ![f[1]] = p, ![f[2]] = p]
      /\ f_mode' = [f_mode EXCEPT ![f[1]] = 1, ![f[2]] = 2]
      /\ i_count' = [i_count EXCEPT ![p] = 2]
      /\ head' = [head EXCEPT ![p] = 0] /\ tail' = [tail EXCEPT ![p] = 0]
      /\ call' = [call EXCEPT ![t] = User]
      /\ UNCHANGED <<filp, close_on_exec, f_count, page, waiting, reply>>
  BY DEF PipeMade, Become, In
<1>2. /\ filp \in Table /\ call \in [Task -> Call] /\ Alone(filp, call)
      /\ f_inode \in [File -> Inode \union {NULL}] /\ f_mode \in [File -> 0 .. 2]
      /\ i_count \in [Pipe -> 0 .. 2] /\ head \in [Pipe -> Index] /\ tail \in [Pipe -> Index]
  BY DEF IInv, TypeOK, Table
<1>3. /\ f[1] \in File /\ f[2] \in File /\ f[1] # f[2]
      /\ fd[1] \in Fd /\ fd[2] \in Fd /\ fd[1] # fd[2]
      /\ Users(filp, f[1]) = {<<t, fd[1]>>} /\ Users(filp, f[2]) = {<<t, fd[2]>>}
      /\ Taken(t) = {fd[1], fd[2]} /\ Taken(t)' = {}
  <2>1. call[t] \in Call /\ 1 \in 1 .. 2 /\ 2 \in 1 .. 2
    BY <1>2
  <2>2. f \in [1 .. 2 -> File] /\ fd \in [1 .. 2 -> Fd]
    BY <1>1, <2>1, CallIs
  <2>3. Taken(t) = {fd[1], fd[2]} /\ Taken(t)' = {}
    BY <1>1, <1>2 DEF Taken, User
  <2> QED
    BY <1>1, <1>2, <2>1, <2>2, <2>3 DEF Alone
<1> HIDE DEF f, fd
<1>4. /\ \A u \in Task, x \in Fd : filp[u][x] = f[1] <=> (u = t /\ x = fd[1])
      /\ \A u \in Task, x \in Fd : filp[u][x] = f[2] <=> (u = t /\ x = fd[2])
  <2>1. ASSUME NEW u \in Task, NEW x \in Fd
        PROVE  /\ filp[u][x] = f[1] <=> (u = t /\ x = fd[1])
               /\ filp[u][x] = f[2] <=> (u = t /\ x = fd[2])
    <3>1. /\ filp[u][x] = f[1] <=> <<u, x>> \in Users(filp, f[1])
          /\ filp[u][x] = f[2] <=> <<u, x>> \in Users(filp, f[2])
      BY DEF Users
    <3> QED
      BY <1>3, <3>1
  <2> QED
    BY <2>1
<1>5. /\ f_inode'[f[1]] = p /\ f_inode'[f[2]] = p /\ f_mode'[f[1]] = 1 /\ f_mode'[f[2]] = 2
      /\ \A h \in File \ {f[1], f[2]} : f_inode'[h] = f_inode[h] /\ f_mode'[h] = f_mode[h]
  BY <1>1, <1>2, <1>3
<1>6. NULL \notin File /\ \A u \in Task, x \in Fd : filp[u][x] \in File \union {NULL}
  BY <1>2, FilesAssumption DEF Table, File
<1>7. \A u \in Task \ {t} : Taken(u)' = Taken(u)
  BY <1>1 DEF Taken
<1>8. ASSUME NEW u \in Task \ {t}, NEW q \in Pipe, NEW e \in 1 .. 2
      PROVE  Holds(u, q, e)' <=> Holds(u, q, e)
  <2>1. \A x \in Fd : filp[u][x] # NULL =>
          f_inode'[filp[u][x]] = f_inode[filp[u][x]] /\ f_mode'[filp[u][x]] = f_mode[filp[u][x]]
    BY <1>4, <1>5, <1>6
  <2>2. filp' = filp
    BY <1>1
  <2> QED
    BY <1>7, <2>1, <2>2 DEF Holds
<1>9. \A x \in Fd \ {fd[1], fd[2]} : filp[t][x] # NULL =>
        f_inode'[filp[t][x]] = f_inode[filp[t][x]] /\ f_mode'[filp[t][x]] = f_mode[filp[t][x]]
  BY <1>4, <1>5, <1>6
<1>10. ASSUME NEW q \in Pipe \ {p}, NEW e \in 1 .. 2
       PROVE  Holds(t, q, e)' <=> Holds(t, q, e)
  <2>1. ASSUME NEW x \in Fd
        PROVE  (filp[t][x] # NULL /\ f_mode'[filp[t][x]] = e /\ f_inode'[filp[t][x]] = q)
               <=> (x \notin Taken(t) /\ filp[t][x] # NULL /\ f_mode[filp[t][x]] = e /\ f_inode[filp[t][x]] = q)
    <3>1. CASE x \in {fd[1], fd[2]}
      BY <1>3, <1>4, <1>5, <3>1
    <3>2. CASE x \notin {fd[1], fd[2]}
      BY <1>3, <1>9, <3>2
    <3> QED
      BY <3>1, <3>2
  <2>2. filp' = filp
    BY <1>1
  <2> QED
    BY <1>3, <2>1, <2>2 DEF Holds
<1>11. Holds(t, p, 1)' /\ Holds(t, p, 2)'
  <2>1. /\ fd[1] \in Fd \ Taken(t)' /\ filp'[t][fd[1]] # NULL
        /\ f_mode'[filp'[t][fd[1]]] = 1 /\ f_inode'[filp'[t][fd[1]]] = p
    BY <1>1, <1>3, <1>4, <1>5, <1>6
  <2>2. /\ fd[2] \in Fd \ Taken(t)' /\ filp'[t][fd[2]] # NULL
        /\ f_mode'[filp'[t][fd[2]]] = 2 /\ f_inode'[filp'[t][fd[2]]] = p
    BY <1>1, <1>3, <1>4, <1>5, <1>6
  <2> QED
    BY <2>1, <2>2 DEF Holds
<1>12. Holders(p, 1) = {} /\ Holders(p, 2) = {}
  BY <1>1, SeenHolds DEF Seen
<1>13. Holders(p, 1)' = {t} /\ Holders(p, 2)' = {t}
  BY <1>8, <1>11, <1>12 DEF Holders
<1>14. \A q \in Pipe \ {p}, e \in 1 .. 2 : Holders(q, e)' = Holders(q, e)
  BY <1>8, <1>10 DEF Holders
<1>15. /\ Readers' = [Readers EXCEPT ![p] = {t}] /\ Writers' = [Writers EXCEPT ![p] = {t}]
       /\ Readers[p] = {} /\ Writers[p] = {}
  <2>1. Readers' = [q \in Pipe |-> IF q = p THEN {t} ELSE Holders(q, 1)]
    BY <1>13, <1>14 DEF Readers
  <2>2. Writers' = [q \in Pipe |-> IF q = p THEN {t} ELSE Holders(q, 2)]
    BY <1>13, <1>14 DEF Writers
  <2>3. Readers[p] = {} /\ Writers[p] = {}
    BY <1>12 DEF Readers, Writers
  <2>4. /\ [Readers EXCEPT ![p] = {t}] = [q \in Pipe |-> IF q = p THEN {t} ELSE Holders(q, 1)]
        /\ [Writers EXCEPT ![p] = {t}] = [q \in Pipe |-> IF q = p THEN {t} ELSE Holders(q, 2)]
    BY DEF Readers, Writers
  <2> QED
    BY <2>1, <2>2, <2>3, <2>4
<1>16. Bytes(p)' = <<>>
  <2>1. PAGE_SIZE \in Nat /\ PAGE_SIZE > 0 /\ 0 - 0 = 0
    BY FilesAssumption
  <2>2. head'[p] = 0 /\ tail'[p] = 0 /\ 0 % PAGE_SIZE = 0
    BY <1>1, <1>2, <2>1, Modulo
  <2>3. Size(p)' = 0
    BY <2>1, <2>2 DEF Size
  <2> DEFINE b == Bytes(p)'
  <2>4. b = [i \in 1 .. 0 |-> b[i]]
    BY <2>3 DEF Bytes
  <2> HIDE DEF b
  <2>5. b \in [1 .. 0 -> Byte]
    BY <2>4
  <2>6. b \in Seq(Byte) /\ Len(b) = 0
    BY <2>5
  <2> QED
    BY <2>6, EmptySeq DEF b
<1>17. Queue' = [Queue EXCEPT ![p] = <<>>]
  <2>1. ASSUME NEW q \in Pipe \ {p}
        PROVE  i_count'[q] = i_count[q] /\ Bytes(q)' = Bytes(q)
    <3>1. i_count'[q] = i_count[q] /\ head'[q] = head[q] /\ tail'[q] = tail[q] /\ page' = page
      BY <1>1
    <3>2. Size(q)' = Size(q)
      BY <3>1 DEF Size
    <3> QED
      BY <3>1, <3>2 DEF Bytes
  <2>2. i_count'[p] = 2
    BY <1>1, <1>2
  <2> QED
    BY <1>16, <2>1, <2>2 DEF Queue
<1>18. Promise!Create(t, p)
  BY <1>1, <1>15, <1>17 DEF Promise!Create, Queue, Readers, Writers
<1> QED
  BY <1>18, PipeMadeKeeps DEF Simulates, Promise!Next

(* The program has seen the result.                                         *)
LEMMA ReturnSimulates ==
  ASSUME IInv, NEW t \in Task, Return(t)
  PROVE  Simulates
<1>1. UNCHANGED <<filp, f_inode, f_mode, i_count, page, head, tail, call>>
      /\ reply' = [reply EXCEPT ![t] = Promise!None]
  BY DEF Return, files, inodes
<1>2. \A p \in Pipe, e \in 1 .. 2 : Holders(p, e)' = Holders(p, e)
  BY <1>1 DEF Holders, Holds, Taken
<1>3. Readers' = Readers /\ Writers' = Writers
  BY <1>2 DEF Readers, Writers
<1>4. \A p \in Pipe : Bytes(p)' = Bytes(p)
  BY <1>1 DEF Bytes, Size
<1>5. Queue' = Queue
  BY <1>1, <1>4 DEF Queue
<1>6. Promise!Return(t)
  BY <1>1, <1>3, <1>5 DEF Promise!Return, Promise!Tell, Queue, Readers, Writers
<1> QED
  BY <1>6, ReturnKeeps DEF Simulates, Promise!Next
-----------------------------------------------------------------------------
(* The specification.                                                       *)
LEMMA InitKeeps ==
  ASSUME Init
  PROVE  IInv
<1>0. NULL \notin File /\ First \in Task /\ 0 \in Index
  BY FilesAssumption DEF File, Index
<1>1. /\ \A t \in Task : call[t] = Free \/ call[t] = User
      /\ \A t \in Task : call[t].op \in {"free", "user"} /\ Reserves(call[t]) = {} /\ TakenBy(call[t]) = {}
      /\ call \in [Task -> Call]
  BY DEF Init, Free, User, Call, Reserves, TakenBy
<1>2. TypeOK
  <2>1. reply \in [Task -> [kind : {"none", "data", "eof", "written", "broken"}, bytes : Seq(Byte)]]
    BY DEF Init
  <2>2. filp \in [Task -> [Fd -> File \union {NULL}]] /\ close_on_exec \in [Task -> SUBSET Fd]
    BY DEF Init
  <2>3. f_count \in [File -> Nat] /\ f_inode \in [File -> Inode \union {NULL}] /\ f_mode \in [File -> 0 .. 2]
    BY DEF Init
  <2>4. /\ i_count \in [Pipe -> 0 .. 2] /\ page \in [Pipe -> [Index -> Byte \union {Blank}]]
        /\ head \in [Pipe -> Index] /\ tail \in [Pipe -> Index] /\ waiting \in [Pipe -> SUBSET Task]
    BY <1>0 DEF Init
  <2> QED
    BY <1>1, <2>1, <2>2, <2>3, <2>4 DEF TypeOK
<1>3. \A f \in File : Users(filp, f) = {}
  BY <1>0 DEF Init, Users
<1>4. Counts(filp, f_count)
  BY <1>3, FS_EmptySet DEF Counts, Init
<1>5. Alone(filp, call)
  BY <1>1 DEF Alone
<1>6. Marks(filp, close_on_exec, call)
  BY DEF Marks, Init
<1>7. Ends(f_count, f_inode, f_mode, i_count, call)
  <2>1. \A f \in File : ~Live(f_count, call, f)
    BY DEF Live, Init
  <2>2. \A p \in Pipe, e \in 1 .. 2 : ~IsOpen(f_count, f_inode, f_mode, call, p, e)
    BY <2>1 DEF IsOpen, EndOf
  <2>3. \A p \in Pipe : i_count[p] = 0
    BY DEF Init
  <2> QED
    BY <2>1, <2>2, <2>3 DEF Ends, Bit
<1>8. Emptied
  BY <1>1 DEF Emptied, In, Init
<1>9. EndHeld
  BY <1>1 DEF EndHeld, In
<1>10. Sleeping /\ AsleepForAReason
  BY DEF Sleeping, AsleepForAReason, Init
<1>11. Filled
  BY DEF Filled, Init
<1> QED
  BY <1>2, <1>4, <1>5, <1>6, <1>7, <1>8, <1>9, <1>10, <1>11 DEF IInv

LEMMA KernelSimulates ==
  ASSUME IInv, NEW t \in Task, Kernel(t)
  PROVE  Simulates
<1>1. CASE OpenFound(t)
  BY <1>1, OpenFoundKeeps, KeptSimulates
<1>2. CASE OpenFailed(t)
  BY <1>2, OpenFailedKeeps, KeptSimulates
<1>3. CASE PutDone(t)
  BY <1>3, PutDoneKeeps, KeptSimulates
<1>4. CASE PipeFailed(t)
  BY <1>4, PipeFailedKeeps, KeptSimulates
<1>5. CASE ReadWoken(t)
  BY <1>5, ReadWokenSimulates
<1>6. CASE WriteWoken(t)
  BY <1>6, WriteWokenSimulates
<1>7. ASSUME NEW p \in Pipe, PipeMade(t, p)
      PROVE  Simulates
  BY <1>7, PipeMadeSimulates
<1> QED
  BY <1>1, <1>2, <1>3, <1>4, <1>5, <1>6, <1>7 DEF Kernel

LEMMA ProgramSimulates ==
  ASSUME IInv, NEW t \in Task, Program(t)
  PROVE  Simulates
<1>1. CASE SysOpen(t)
  BY <1>1, SysOpenKeeps, KeptSimulates
<1>2. CASE SysPipe(t)
  BY <1>2, SysPipeKeeps, KeptSimulates
<1>3. CASE Exec(t)
  BY <1>3, ExecKeeps, KeptSimulates
<1>4. CASE Exit(t)
  BY <1>4, ExitKeeps, KeptSimulates
<1>5. ASSUME NEW c \in Task, Fork(t, c)
      PROVE  Simulates
  BY <1>5, ForkKeeps, KeptSimulates
<1>6. ASSUME NEW fd \in Fd, SysClose(t, fd)
      PROVE  Simulates
  BY <1>6, SysCloseKeeps, KeptSimulates
<1>7. ASSUME NEW fd \in Fd, SetCloseOnExec(t, fd)
      PROVE  Simulates
  BY <1>7, SetCloseOnExecKeeps, KeptSimulates
<1>8. ASSUME NEW fd \in Fd, NEW arg \in Fd, SysDup(t, fd, arg)
      PROVE  Simulates
  BY <1>8, SysDupKeeps, KeptSimulates
<1>9. ASSUME NEW fd \in Fd, NEW arg \in Fd, SysDup2(t, fd, arg)
      PROVE  Simulates
  BY <1>9, SysDup2Keeps, KeptSimulates
<1>10. ASSUME NEW fd \in Fd, NEW n \in 1 .. PAGE_SIZE, SysRead(t, fd, n)
       PROVE  Simulates
  BY <1>10, SysReadSimulates
<1>11. ASSUME NEW fd \in Fd, NEW s \in Message, SysWrite(t, fd, s)
       PROVE  Simulates
  BY <1>11, SysWriteSimulates
<1> QED
  BY <1>1, <1>2, <1>3, <1>4, <1>5, <1>6, <1>7, <1>8, <1>9, <1>10, <1>11 DEF Program

LEMMA StutterKeeps ==
  ASSUME IInv, UNCHANGED vars
  PROVE  Kept
<1>1. /\ UNCHANGED <<filp, close_on_exec, f_count, f_inode, f_mode, call, reply>> /\ UNCHANGED inodes
      /\ i_count' = i_count
  BY DEF vars, files, inodes
<1>2. TypeOK'
  BY <1>1 DEF IInv, TypeOK, inodes
<1>3. EndHeld' /\ Sleeping' /\ AsleepForAReason' /\ Filled'
  BY <1>1, PipesStay
<1>4. Emptied'
  BY <1>1 DEF IInv, Emptied, In
<1>5. Passes
  BY <1>1 DEF Passes, inodes, Live
<1> QED
  BY <1>1, <1>2, <1>3, <1>4, <1>5 DEF IInv, Kept

LEMMA NextSimulates == IInv /\ [Next]_vars => Simulates
<1>1. ASSUME IInv, NEW t \in Task, Kernel(t) \/ Program(t) \/ Return(t)
      PROVE  Simulates
  BY <1>1, KernelSimulates, ProgramSimulates, ReturnSimulates
<1>2. ASSUME IInv, UNCHANGED vars
      PROVE  Simulates
  BY <1>2, StutterKeeps, KeptSimulates
<1> QED
  BY <1>1, <1>2 DEF Next

(* The invariant says what Counted does: an end counts once, however many    *)
(* hold it.                                                                 *)
LEMMA InvariantCounts ==
  ASSUME IInv
  PROVE  Counted
<1>1. FilesCounted
  BY DEF IInv, Counts, FilesCounted, Users
<1>2. ASSUME NEW p \in Pipe
      PROVE  i_count[p] = Cardinality({m \in 1 .. 2 : Holders(p, m) # {}})
  <2> DEFINE S == {m \in 1 .. 2 : Holders(p, m) # {}}
             Open(e) == IsOpen(f_count, f_inode, f_mode, call, p, e)
  <2>1. \A e \in 1 .. 2 : Open(e) <=> e \in S
    BY EndHasHolder DEF IInv, TypeOK, Table, Holders
  <2>2. i_count[p] = Bit(Open(1)) + Bit(Open(2))
    BY DEF IInv, Ends
  <2> HIDE DEF Open
  <2>3. /\ 1 \in S <=> Open(1)
        /\ 2 \in S <=> Open(2)
        /\ S \subseteq {1, 2}
    BY <2>1
  <2> HIDE DEF S
  <2>4. ASSUME Open(1), Open(2)
        PROVE  i_count[p] = Cardinality(S)
    <3>1. S = {1, 2}
      BY <2>3, <2>4
    <3>2. Cardinality({1, 2}) = 2
      <4>1. IsFiniteSet({1}) /\ Cardinality({1}) = 1
        BY FS_Singleton
      <4>2. Cardinality({1} \union {2}) = Cardinality({1}) + 1
        BY <4>1, FS_AddElement
      <4>3. {1} \union {2} = {1, 2}
        OBVIOUS
      <4> QED
        BY <4>1, <4>2, <4>3
    <3> QED
      BY <2>2, <2>4, <3>1, <3>2 DEF Bit
  <2>5. ASSUME Open(1), ~Open(2)
        PROVE  i_count[p] = Cardinality(S)
    <3>1. S = {1}
      BY <2>3, <2>5
    <3>2. Cardinality({1}) = 1
      BY FS_Singleton
    <3>3. i_count[p] = 1
      BY <2>2, <2>5 DEF Bit
    <3> QED
      BY <3>1, <3>2, <3>3
  <2>6. ASSUME ~Open(1), Open(2)
        PROVE  i_count[p] = Cardinality(S)
    <3>1. S = {2}
      BY <2>3, <2>6
    <3>2. Cardinality({2}) = 1
      BY FS_Singleton
    <3>3. i_count[p] = 1
      BY <2>2, <2>6 DEF Bit
    <3> QED
      BY <3>1, <3>2, <3>3
  <2>7. ASSUME ~Open(1), ~Open(2)
        PROVE  i_count[p] = Cardinality(S)
    <3>1. S = {}
      BY <2>3, <2>7
    <3> QED
      BY <2>2, <2>7, <3>1, FS_EmptySet DEF Bit
  <2>8. i_count[p] = Cardinality(S)
    BY <2>4, <2>5, <2>6, <2>7
  <2> QED
    BY <2>8 DEF S
<1>3. EndsCounted
  BY <1>2 DEF IInv, EndHeld, EndsCounted
<1>4. MarkedIsOpen
  BY DEF IInv, Marks, MarkedIsOpen
<1> QED
  BY <1>1, <1>3, <1>4 DEF IInv, Counted

LEMMA FilesInvariant == Spec => []IInv
<1>1. Init => IInv
  BY InitKeeps
<1>2. IInv /\ [Next]_vars => IInv'
  BY NextSimulates DEF Simulates
<1> QED
  BY <1>1, <1>2, PTL DEF Spec

(* Whatever programs open, duplicate, inherit, mark and close, and wherever   *)
(* their calls sleep, f_count of a file is the number of descriptors that     *)
(* point to it, i_count of a pipe the number of its ends that are open, a     *)
(* task inside a read or a write still holds its end, and a mark for execve   *)
(* is on an open descriptor (open.c:133-187, pipe.c:52-110, fork.c:111-113,   *)
(* inode.c:130-146).                                                         *)
THEOREM FilesStayCounted == Spec => []Counted
<1>1. IInv => Counted
  BY InvariantCounts
<1> QED
  BY <1>1, FilesInvariant, PTL

(* No task sleeps on a pipe that has become ready for it: every step that     *)
(* makes room, brings bytes or closes an end has woken it (pipe.c:11-48,      *)
(* inode.c:134-137).                                                         *)
THEOREM SleepersHaveReason == Spec => []AsleepForAReason
<1>1. IInv => AsleepForAReason
  BY DEF IInv
<1> QED
  BY <1>1, FilesInvariant, PTL

(* A pipe is a bounded queue of bytes: what is written is read once and in    *)
(* order, a program finds the other side gone only when no program holds it,  *)
(* and a pipe that is made anew brings no bytes of the one before, wherever    *)
(* reads and writes sleep and whoever closes, exits, forks or executes in      *)
(* between (pipe.c:11-110).                                                  *)
THEOREM PipesAreChannels == Spec => IsChannel
<1>1. Init => Promise!Init
  <2>1. ASSUME Init
        PROVE  \A p \in Pipe, e \in 1 .. 2 : Holders(p, e) = {}
    BY <2>1 DEF Init, Holders, Holds
  <2> QED
    BY <2>1 DEF Init, Promise!Init, Promise!None
<1>2. IInv /\ [Next]_vars => [Promise!Next]_(Promise!vars)
  BY NextSimulates DEF Simulates
<1> QED
  BY <1>1, <1>2, FilesInvariant, PTL DEF Spec, IsChannel, Promise!Spec
=============================================================================
