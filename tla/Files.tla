--------------------------------- MODULE Files ---------------------------------
(***************************************************************************)
(* Open files and pipes: fs/open.c, fs/pipe.c, fs/fcntl.c, the pipe cases   *)
(* of fs/read_write.c and fs/inode.c, and what fork, execve and exit do     *)
(* with a task's descriptors.                                               *)
(*                                                                          *)
(* A descriptor (current->filp[fd]) points to an entry of file_table, which *)
(* counts the descriptors; an entry points to an inode, and the inode of a  *)
(* pipe counts its open ends in i_count.  A task runs in the kernel until   *)
(* it sleeps: sys_open sleeps in open_namei, sys_pipe in get_pipe_inode,    *)
(* sys_close in iput, read_pipe and write_pipe on i_wait.                   *)
(*                                                                          *)
(* Sleeping on i_wait is the set of WaitSet.tla.  Inodes that are no pipes  *)
(* are one inode without contents or count.                                 *)
(***************************************************************************)
EXTENDS Integers, Sequences, FiniteSets, FiniteSetsExt, SequencesExt

CONSTANTS
  Task,
  First,    \* the task that is there at the beginning
  NR_OPEN,
  NR_FILE,
  Pipe,     \* bound: inode_table entries for pipes, get_empty_inode panics without
  Regular,  \* any inode that is not a pipe
  NULL,
  Byte,
  PAGE_SIZE,
  Message,  \* bound: what programs write, sequences of Byte
  Marking   \* bound: the descriptors programs mark close-on-exec

ASSUME FilesAssumption ==
  /\ IsFiniteSet(Task) /\ First \in Task
  /\ NR_OPEN \in Nat \ {0} /\ NR_FILE \in Nat \ {0}
  /\ Regular \notin Pipe /\ NULL \notin Pipe \union {Regular} \union 1 .. NR_FILE
  /\ PAGE_SIZE \in Nat /\ PAGE_SIZE > 1
  /\ Marking \subseteq 0 .. NR_OPEN - 1
  /\ Message \subseteq Seq(Byte) \ {<<>>}

VARIABLES
  filp,           \* task_struct.filp
  close_on_exec,  \* task_struct.close_on_exec, as a set
  f_count, f_inode, f_mode,  \* file_table, whose entries are 1 .. NR_FILE
  i_count,        \* of the inodes that are pipes
  page,           \* the page of a pipe
  head, tail,     \* PIPE_HEAD, PIPE_TAIL
  waiting,        \* the tasks asleep on i_wait of a pipe
  call,           \* the system call a task is in, with its local variables
  reply           \* what the last read or write on a pipe returned

files == <<filp, close_on_exec, f_count, f_inode, f_mode>>
inodes == <<i_count, page, head, tail, waiting>>
vars == <<files, inodes, call, reply>>

Fd == 0 .. NR_OPEN - 1
File == 1 .. NR_FILE
Inode == Pipe \union {Regular}
Index == 0 .. PAGE_SIZE - 1
Blank == "blank"  \* what a byte that was read leaves behind is never looked at

(* "free": no task; "user": in user mode; "put": asleep in iput() inside     *)
(* sys_close, with descriptors still to close, and goes on to what "then"    *)
(* says.                                                                     *)
Free == [op |-> "free"]
User == [op |-> "user"]
Opening(fd, f) == [op |-> "open", fd |-> fd, f |-> f]
Piping(fd, f) == [op |-> "pipe", fd |-> fd, f |-> f]
Reading(p, n) == [op |-> "read", inode |-> p, count |-> n]
Writing(p, s) == [op |-> "write", inode |-> p, bytes |-> s]
Putting(S, then) == [op |-> "put", fds |-> S, then |-> then]
Dup(old, new) == [op |-> "dup", old |-> old, new |-> new]

Call ==
  {Free, User}
  \union {Opening(fd, f) : fd \in Fd, f \in File}
  \union {Piping(fd, f) : fd \in [1 .. 2 -> Fd], f \in [1 .. 2 -> File]}
  \union {Reading(p, n) : p \in Pipe, n \in 1 .. PAGE_SIZE}
  \union {Writing(p, s) : p \in Pipe, s \in (UNION {Suffixes(m) : m \in Message}) \ {<<>>}}
  \union {Putting(S, k) : S \in SUBSET Fd,
                          k \in {User, Free} \union {Dup(x, y) : x, y \in Fd}}

TypeOK ==
  /\ filp \in [Task -> [Fd -> File \union {NULL}]]
  /\ close_on_exec \in [Task -> SUBSET Fd]
  /\ f_count \in [File -> Nat]
  /\ f_inode \in [File -> Inode \union {NULL}]
  /\ f_mode \in [File -> 0 .. 2]
  /\ i_count \in [Pipe -> 0 .. 2]
  /\ page \in [Pipe -> [Index -> Byte \union {Blank}]]
  /\ head \in [Pipe -> Index] /\ tail \in [Pipe -> Index]
  /\ waiting \in [Pipe -> SUBSET Task]
  /\ call \in [Task -> Call]
  /\ reply \in [Task -> [kind : {"none", "data", "eof", "written", "broken"}, bytes : Seq(Byte)]]

Init ==
  /\ filp = [t \in Task |-> [fd \in Fd |-> NULL]]
  /\ close_on_exec = [t \in Task |-> {}]
  /\ f_count = [f \in File |-> 0]
  /\ f_inode = [f \in File |-> NULL]
  /\ f_mode = [f \in File |-> 0]
  /\ i_count = [p \in Pipe |-> 0]
  /\ page = [p \in Pipe |-> [i \in Index |-> Blank]]
  /\ head = [p \in Pipe |-> 0] /\ tail = [p \in Pipe |-> 0]
  /\ waiting = [p \in Pipe |-> {}]
  /\ call = [t \in Task |-> IF t = First THEN User ELSE Free]
  /\ reply = [t \in Task |-> [kind |-> "none", bytes |-> <<>>]]
-----------------------------------------------------------------------------
(* The channel a pipe is: who has its ends open, and the bytes between tail  *)
(* and head.                                                                 *)
Taken(t) ==  \* the descriptors of an open() or pipe() that is not done
  IF call[t].op = "open" THEN {call[t].fd}
  ELSE IF call[t].op = "pipe" THEN {call[t].fd[1], call[t].fd[2]}
  ELSE {}
Holds(t, p, m) ==
  \E fd \in Fd \ Taken(t) :
    filp[t][fd] # NULL /\ f_mode[filp[t][fd]] = m /\ f_inode[filp[t][fd]] = p
Holders(p, m) == {t \in Task : Holds(t, p, m)}
Size(p) == (head[p] - tail[p]) % PAGE_SIZE
INC_PIPE(i, k) == (i + k) % PAGE_SIZE
Bytes(p) == [i \in 1 .. Size(p) |-> page[p][(tail[p] + i - 1) % PAGE_SIZE]]

Promise == INSTANCE Channel WITH
  Capacity <- PAGE_SIZE - 1,
  queue <- [p \in Pipe |-> IF i_count[p] = 0 THEN <<>> ELSE Bytes(p)],
  readers <- [p \in Pipe |-> Holders(p, 1)],
  writers <- [p \in Pipe |-> Holders(p, 2)]
-----------------------------------------------------------------------------
In(t, op) == call[t].op = op
Runs(t) == In(t, "user") /\ reply[t] = Promise!None  \* the program
Become(t, c) == call' = [call EXCEPT ![t] = c]

\* The first descriptors and files that are not in use.
FreeFds(t) == {fd \in Fd : filp[t][fd] = NULL}
FreeFiles == {f \in File : f_count[f] = 0}

\* sys_open takes a descriptor and a file before it looks for the name.
SysOpen(t) ==
  /\ Runs(t) /\ FreeFds(t) # {}
  /\ LET fd == Min(FreeFds(t)) IN
     /\ close_on_exec' = [close_on_exec EXCEPT ![t] = @ \ {fd}]
     /\ IF FreeFiles = {}
        THEN UNCHANGED <<filp, f_count, call>>
        ELSE LET f == Min(FreeFiles) IN
             /\ filp' = [filp EXCEPT ![t][fd] = f]
             /\ f_count' = [f_count EXCEPT ![f] = @ + 1]
             /\ Become(t, Opening(fd, f))
  /\ UNCHANGED <<f_inode, f_mode, inodes, reply>>

OpenFound(t) ==
  /\ In(t, "open")
  /\ f_mode' = [f_mode EXCEPT ![call[t].f] = 0]
  /\ f_count' = [f_count EXCEPT ![call[t].f] = 1]
  /\ f_inode' = [f_inode EXCEPT ![call[t].f] = Regular]
  /\ Become(t, User)
  /\ UNCHANGED <<filp, close_on_exec, inodes, reply>>

\* open_namei() found no file, or it is a terminal for a task without one.
OpenFailed(t) ==
  /\ In(t, "open")
  /\ filp' = [filp EXCEPT ![t][call[t].fd] = NULL]
  /\ f_count' = [f_count EXCEPT ![call[t].f] = 0]
  /\ Become(t, User)
  /\ UNCHANGED <<close_on_exec, f_inode, f_mode, inodes, reply>>

(* The state that closing a descriptor changes; "rest": the descriptors left *)
(* when it sleeps.                                                           *)
Now == [filp |-> filp, coe |-> close_on_exec, count |-> f_count, i_count |-> i_count,
        page |-> page, waiting |-> waiting, asleep |-> FALSE, rest |-> {}]
Becomes(m) ==
  /\ filp' = m.filp /\ close_on_exec' = m.coe /\ f_count' = m.count
  /\ i_count' = m.i_count /\ page' = m.page /\ waiting' = m.waiting
  /\ UNCHANGED <<f_inode, f_mode, head, tail>>

\* Mutant: iput wakes nobody.
IputSilently(m, ino) ==
  IF ino = Regular THEN [m EXCEPT !.asleep = TRUE]
  ELSE IF ino = NULL THEN m
  ELSE [m EXCEPT !.i_count[ino] = @ - 1,
                 !.page[ino] = IF m.i_count[ino] > 1 THEN @ ELSE [i \in Index |-> Blank]]

(* iput(): the tasks asleep on a pipe look at i_count again; the last end    *)
(* frees the page.  Another inode may have to be written first.              *)
Iput(m, ino) ==
  IF ino = Regular THEN [m EXCEPT !.asleep = TRUE]
  ELSE IF ino = NULL THEN m
  ELSE [m EXCEPT !.waiting[ino] = {}, !.i_count[ino] = @ - 1,
                 !.page[ino] = IF m.i_count[ino] > 1 THEN @ ELSE [i \in Index |-> Blank]]

\* sys_close: with its last descriptor a file puts its inode.
Close(m, t, fd) ==
  IF m.asleep THEN [m EXCEPT !.rest = @ \union {fd}]
  ELSE IF m.filp[t][fd] = NULL THEN [m EXCEPT !.coe[t] = @ \ {fd}]
  ELSE LET f == m.filp[t][fd]
           c == [m EXCEPT !.coe[t] = @ \ {fd}, !.filp[t][fd] = NULL, !.count[f] = @ - 1]
       IN  IF c.count[f] > 0 THEN c ELSE Iput(c, f_inode[f])

CloseAll(m, t, S) ==
  LET closed[n \in 0 .. NR_OPEN] ==
        IF n = 0 THEN m
        ELSE IF n - 1 \in S THEN Close(closed[n - 1], t, n - 1)
        ELSE closed[n - 1]
  IN  closed[NR_OPEN]

\* Mutant: f_count is not increased.
DupfdUncounted(m, t, fd, arg) ==
  LET free == {n \in Fd : n >= arg /\ m.filp[t][n] = NULL} IN
  IF m.filp[t][fd] = NULL \/ free = {} THEN m
  ELSE [m EXCEPT !.filp[t][Min(free)] = m.filp[t][fd], !.coe[t] = @ \ {Min(free)}]

\* dupfd: the first free descriptor from arg on.
Dupfd(m, t, fd, arg) ==
  LET free == {n \in Fd : n >= arg /\ m.filp[t][n] = NULL} IN
  IF m.filp[t][fd] = NULL \/ free = {} THEN m
  ELSE [m EXCEPT !.filp[t][Min(free)] = m.filp[t][fd], !.coe[t] = @ \ {Min(free)},
                 !.count[m.filp[t][fd]] = @ + 1]

\* t closes S and, if that does not make it sleep, goes on.
CloseThen(t, S, then) ==
  LET m == CloseAll(Now, t, S) IN
  IF m.asleep THEN Becomes(m) /\ Become(t, Putting(m.rest, then))
  ELSE IF then.op = "dup" THEN Becomes(Dupfd(m, t, then.old, then.new)) /\ Become(t, User)
  ELSE Becomes(m) /\ Become(t, then)

SysClose(t, fd) ==
  /\ Runs(t)
  /\ CloseThen(t, {fd}, User)
  /\ UNCHANGED reply

PutDone(t) ==
  /\ In(t, "put")
  /\ CloseThen(t, call[t].fds, call[t].then)
  /\ UNCHANGED reply

SysDup2(t, old, new) ==
  /\ Runs(t)
  /\ CloseThen(t, {new}, Dup(old, new))
  /\ UNCHANGED reply

\* sys_dup, and sys_fcntl with F_DUPFD.
SysDup(t, fd, arg) ==
  /\ Runs(t)
  /\ Becomes(Dupfd(Now, t, fd, arg))
  /\ UNCHANGED <<call, reply>>

\* sys_fcntl with F_SETFD.
SetCloseOnExec(t, fd) ==
  /\ Runs(t) /\ filp[t][fd] # NULL /\ fd \in Marking
  /\ \E S \in {{}, {fd}} : close_on_exec' = [close_on_exec EXCEPT ![t] = (@ \ {fd}) \union S]
  /\ UNCHANGED <<filp, f_count, f_inode, f_mode, inodes, call, reply>>

\* do_execve closes what is marked, do_exit everything.
Exec(t) ==
  /\ Runs(t)
  /\ CloseThen(t, close_on_exec[t], User)
  /\ UNCHANGED reply

Exit(t) ==
  /\ Runs(t)
  /\ CloseThen(t, Fd \ FreeFds(t), Free)
  /\ UNCHANGED reply

\* copy_process: the child gets the descriptors and each counts once more.
Fork(t, c) ==
  /\ Runs(t) /\ In(c, "free")
  /\ filp' = [filp EXCEPT ![c] = filp[t]]
  /\ close_on_exec' = [close_on_exec EXCEPT ![c] = close_on_exec[t]]
  /\ f_count' = [f \in File |-> f_count[f] + Cardinality({fd \in Fd : filp[t][fd] = f})]
  /\ Become(c, User)
  /\ UNCHANGED <<f_inode, f_mode, inodes, reply>>
-----------------------------------------------------------------------------
(* sys_pipe takes two files and two descriptors, then get_empty_inode() may  *)
(* sleep.                                                                    *)
FirstTwo(S) == <<Min(S), Min(S \ {Min(S)})>>

SysPipe(t) ==
  /\ Runs(t)
  /\ Cardinality(FreeFiles) >= 2 /\ Cardinality(FreeFds(t)) >= 2
  /\ LET f == FirstTwo(FreeFiles)
         fd == FirstTwo(FreeFds(t))
     IN  /\ f_count' = [f_count EXCEPT ![f[1]] = @ + 1, ![f[2]] = @ + 1]
         /\ filp' = [filp EXCEPT ![t][fd[1]] = f[1], ![t][fd[2]] = f[2]]
         /\ Become(t, Piping(fd, f))
  /\ UNCHANGED <<close_on_exec, f_inode, f_mode, inodes, reply>>

\* get_pipe_inode and the rest of sys_pipe.
PipeMade(t, p) ==
  /\ In(t, "pipe") /\ i_count[p] = 0
  /\ LET f == call[t].f IN
     /\ f_inode' = [f_inode EXCEPT ![f[1]] = p, ![f[2]] = p]
     /\ f_mode' = [f_mode EXCEPT ![f[1]] = 1, ![f[2]] = 2]
  /\ i_count' = [i_count EXCEPT ![p] = 2]
  /\ head' = [head EXCEPT ![p] = 0] /\ tail' = [tail EXCEPT ![p] = 0]
  /\ Become(t, User)
  /\ UNCHANGED <<filp, close_on_exec, f_count, page, waiting, reply>>

\* There was no page for it.
PipeFailed(t) ==
  /\ In(t, "pipe")
  /\ LET f == call[t].f
         fd == call[t].fd
     IN  /\ filp' = [filp EXCEPT ![t][fd[1]] = NULL, ![t][fd[2]] = NULL]
         /\ f_count' = [f_count EXCEPT ![f[1]] = 0, ![f[2]] = 0]
  /\ Become(t, User)
  /\ UNCHANGED <<close_on_exec, f_inode, f_mode, inodes, reply>>
-----------------------------------------------------------------------------
Answer(t, r) == reply' = [reply EXCEPT ![t] = r] /\ Become(t, User)

\* Mutant: nobody is woken.
WakeNobody(p) == UNCHANGED waiting
Wake(p) == waiting' = [waiting EXCEPT ![p] = {}]

SleepOn(t, p) == waiting' = [waiting EXCEPT ![p] = {t}]  \* after a wake_up

\* Mutant: PIPE_FULL compares with PAGE_SIZE.
RoomForAll(p) == PAGE_SIZE - Size(p)
Room(p) == PAGE_SIZE - 1 - Size(p)

\* read_pipe from the test of PIPE_EMPTY on.
ReadPipe(t, p, n) ==
  IF Size(p) = 0
  THEN /\ IF i_count[p] # 2 THEN Wake(p) /\ Answer(t, Promise!Eof)
          ELSE SleepOn(t, p) /\ Become(t, Reading(p, n)) /\ UNCHANGED reply
       /\ UNCHANGED <<page, head, tail>>
  ELSE LET k == Min({n, Size(p)}) IN
       /\ Answer(t, Promise!Data(SubSeq(Bytes(p), 1, k)))
       /\ tail' = [tail EXCEPT ![p] = INC_PIPE(@, k)]
       /\ page' = [page EXCEPT ![p] = [i \in Index |->
                      IF (i - tail[p]) % PAGE_SIZE < k THEN Blank ELSE @[i]]]
       /\ Wake(p) /\ UNCHANGED head

(* write_pipe from the test of PIPE_FULL on: what there is room for, then    *)
(* SIGPIPE without readers, or sleep.                                        *)
WritePipe(t, p, s) ==
  LET k == Min({Len(s), Room(p)}) IN
  /\ head' = [head EXCEPT ![p] = INC_PIPE(@, k)]
  /\ page' = [page EXCEPT ![p] = [i \in Index |->
                 IF (i - head[p]) % PAGE_SIZE < k THEN s[((i - head[p]) % PAGE_SIZE) + 1] ELSE @[i]]]
  /\ IF k = Len(s) THEN Wake(p) /\ Answer(t, Promise!Written)
     ELSE IF i_count[p] # 2 THEN Wake(p) /\ Answer(t, Promise!Broken)
     ELSE SleepOn(t, p) /\ Become(t, Writing(p, SubSeq(s, k + 1, Len(s)))) /\ UNCHANGED reply
  /\ UNCHANGED tail

End(t, fd, mode) ==
  filp[t][fd] # NULL /\ f_inode[filp[t][fd]] \in Pipe /\ f_mode[filp[t][fd]] = mode

SysRead(t, fd, n) ==
  /\ Runs(t) /\ End(t, fd, 1)
  /\ ReadPipe(t, f_inode[filp[t][fd]], n)
  /\ UNCHANGED <<files, i_count>>

ReadWoken(t) ==
  /\ In(t, "read") /\ t \notin waiting[call[t].inode]
  /\ ReadPipe(t, call[t].inode, call[t].count)
  /\ UNCHANGED <<files, i_count>>

\* Without readers write_pipe returns before it writes anything.
SysWrite(t, fd, s) ==
  /\ Runs(t) /\ End(t, fd, 2)
  /\ LET p == f_inode[filp[t][fd]] IN
     IF i_count[p] # 2
     THEN Wake(p) /\ Answer(t, Promise!Broken) /\ UNCHANGED <<page, head, tail>>
     ELSE WritePipe(t, p, s)
  /\ UNCHANGED <<files, i_count>>

WriteWoken(t) ==
  /\ In(t, "write") /\ t \notin waiting[call[t].inode]
  /\ WritePipe(t, call[t].inode, call[t].bytes)
  /\ UNCHANGED <<files, i_count>>

\* The program has seen the result.
Return(t) ==
  /\ reply[t] # Promise!None
  /\ reply' = [reply EXCEPT ![t] = Promise!None]
  /\ UNCHANGED <<files, inodes, call>>
-----------------------------------------------------------------------------
Kernel(t) ==
  \/ OpenFound(t) \/ OpenFailed(t) \/ PutDone(t) \/ PipeFailed(t) \/ ReadWoken(t) \/ WriteWoken(t)
  \/ \E p \in Pipe : PipeMade(t, p)

Program(t) ==
  \/ SysOpen(t) \/ SysPipe(t) \/ Exec(t) \/ Exit(t)
  \/ \E c \in Task : Fork(t, c)
  \/ \E fd \in Fd : SysClose(t, fd) \/ SetCloseOnExec(t, fd)
  \/ \E fd, arg \in Fd : SysDup(t, fd, arg) \/ SysDup2(t, fd, arg)
  \/ \E fd \in Fd, n \in 1 .. PAGE_SIZE : SysRead(t, fd, n)
  \/ \E fd \in Fd, s \in Message : SysWrite(t, fd, s)

Next == \E t \in Task : Kernel(t) \/ Program(t) \/ Return(t)

Spec == Init /\ [][Next]_vars

(* A task that is awake in the kernel goes on: it has the processor or is    *)
(* chosen by schedule() again and again.                                     *)
FairSpec == Spec /\ \A t \in Task : WF_vars(Kernel(t))
-----------------------------------------------------------------------------
(* A file is counted once for each descriptor of each task, also while a     *)
(* call has it reserved (open.c:139-142, 181-185, pipe.c:62-83, fcntl.c:26,  *)
(* fork.c:111-113): it is neither reused under a descriptor nor lost.          *)
FilesCounted ==
  \A f \in File :
    f_count[f] = Cardinality({u \in Task \X Fd : filp[u[1]][u[2]] = f})

(* i_count of a pipe is the number of its ends somebody holds, the test      *)
(* "are there any writers left" relies on it (pipe.c:13, 31, 38), and a task *)
(* inside a read or a write holds the end it uses.                           *)
EndsCounted ==
  /\ \A p \in Pipe : i_count[p] = Cardinality({m \in 1 .. 2 : Holders(p, m) # {}})
  /\ \A t \in Task : /\ In(t, "read") => t \in Holders(call[t].inode, 1)
                     /\ In(t, "write") => t \in Holders(call[t].inode, 2)

(* execve closes nothing a program did not mark after it got it: sys_pipe    *)
(* does not clear the bits of its descriptors, it relies on every close to   *)
(* have done so (open.c:133, 178, pipe.c:68-73).                             *)
MarkedIsOpen == \A t \in Task : In(t, "user") => \A fd \in close_on_exec[t] : filp[t][fd] # NULL

(* The files stay counted, and with them the ends of the pipes: two tables   *)
(* of one count each, changed one after the other with sleeps in between     *)
(* (open.c:178-187, inode.c:130-146).                                        *)
Counted == TypeOK /\ FilesCounted /\ EndsCounted /\ MarkedIsOpen

(* A task that is asleep on a pipe has to be: a reader because there is      *)
(* nothing to read, a writer because there is no room, both because the      *)
(* other end is open (pipe.c:11-48, inode.c:134-137).                        *)
AsleepForAReason ==
  \A p \in Pipe : \A t \in waiting[p] :
    /\ i_count[p] = 2
    /\ IF In(t, "read") THEN Size(p) = 0 ELSE Size(p) = PAGE_SIZE - 1

(* A pipe is a channel: bytes arrive once and in order, end of file and      *)
(* SIGPIPE say the truth.                                                    *)
IsChannel == Promise!Spec

(* When the last holder of the other end closes it, exits or executes        *)
(* another program, a blocked task finds out (pipe.c:12-15, 37-41).          *)
HangupSeen ==
  \A p \in Pipe, t \in Task :
    /\ (In(t, "read") /\ call[t].inode = p /\ Holders(p, 2) = {}) ~> ~In(t, "read")
    /\ (In(t, "write") /\ call[t].inode = p /\ Holders(p, 1) = {}) ~> ~In(t, "write")
=============================================================================
