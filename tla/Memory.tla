-------------------------------- MODULE Memory --------------------------------
(***************************************************************************)
(* Paging, mm/memory.c, and its users: fork (kernel/fork.c), execve         *)
(* (fs/exec.c), exit (kernel/exit.c) and the system calls that write into a *)
(* program's memory.                                                        *)
(*                                                                          *)
(* Each task has a region of the linear address space, that is a row of     *)
(* page directory entries.  A page of physical memory is counted in mem_map *)
(* and may be mapped by several tasks, which then may only read it.  A task *)
(* in the kernel runs until it sleeps: a page fault and fork are one action *)
(* each, execve sleeps between its steps and read() inside it.              *)
(*                                                                          *)
(* Of the contents of a page one value is kept.                             *)
(***************************************************************************)
EXTENDS Integers, Sequences, FiniteSets, FiniteSetsExt

CONSTANTS
  NR_TASKS,
  PAGING_PAGES,  \* pages above LOW_MEM
  NrTables,      \* page tables of a task's region, 16 in the kernel
  NrEntries,     \* entries of a page table, 1024 in the kernel
  NrLow,         \* entries copied from the swapper, 0xA0 in the kernel
  MAX_ARG_PAGES,
  MaxImage,      \* bound: pages that execve reads from the file
  Value,         \* what programs write
  Touched,       \* bound: the addresses they use
  SharedArray    \* may the array a program gives to pipe() be on a shared page

ASSUME MemoryAssumption ==
  /\ NR_TASKS \in Nat \ {0} /\ PAGING_PAGES \in Nat
  /\ NrTables \in Nat \ {0} /\ NrEntries \in Nat \ {0}
  /\ NrLow \in 1 .. NrEntries
  /\ MAX_ARG_PAGES \in Nat /\ MAX_ARG_PAGES < NrEntries
  /\ MaxImage \in 0 .. NrTables * NrEntries
  /\ Value \subseteq Nat \ {0} /\ 1 \in Value
  /\ Touched \subseteq 0 .. NrTables * NrEntries - 1
  /\ SharedArray \in BOOLEAN

VARIABLES
  mem_map,  \* how many uses a page has
  table,    \* what pages hold as page tables
  data,     \* and as anything else
  dir,      \* the page directory, by task
  tss,      \* the page of task[nr]
  pc,       \* what each task is doing
  at,       \* the address it is going to write to
  args      \* the argument pages of its execve, topmost first

pages == <<mem_map, table, data, dir>>
vars == <<pages, tss, pc, at, args>>

Task == 0 .. NR_TASKS - 1
Swapper == 0
Dir == 0 .. NrTables - 1
Entry == 0 .. NrEntries - 1
Addr == 0 .. NrTables * NrEntries - 1
DirOf(a) == a \div NrEntries
EntryOf(a) == a % NrEntries

\* Pages below LOW_MEM have negative numbers and are not counted; 0: no page.
Paged == 1 .. PAGING_PAGES
LowPage(e) == -1 - e
Low == {LowPage(e) : e \in 0 .. NrLow - 1}
Pg0 == -1 - NrEntries
Page == Paged \union Low
Zero == 0

PTE == [page : Page \union {0}, w : BOOLEAN]
Absent == [page |-> 0, w |-> FALSE]
Blank == [e \in Entry |-> Absent]

(* "free": the slot is empty; "user": the program runs; "reading": asleep in *)
(* read() after verify_area; "exec": asleep in sys_close, the arguments are  *)
(* copied; "load": asleep in read_area; "exit": the memory is gone;          *)
(* "main", "idle": the swapper before and after its fork.                    *)
PC == {"free", "user", "reading", "exec", "load", "exit", "main", "idle"}

TypeOK ==
  /\ mem_map \in [Paged -> Nat]
  /\ table \in [Paged \union {Pg0} -> [Entry -> PTE]]
  /\ data \in [Page -> Value \union {Zero}]
  /\ dir \in [Task -> [Dir -> Paged \union {0, Pg0}]]
  /\ tss \in [Task -> Paged \union {0}]
  /\ pc \in [Task -> PC]
  /\ at \in [Task -> Addr \union {Cardinality(Addr)}]
  /\ \A t \in Task : args[t] \in Seq(Paged) /\ Len(args[t]) <= MAX_ARG_PAGES

Init ==
  /\ mem_map = [p \in Paged |-> 0]
  /\ table = [p \in Paged \union {Pg0} |->
                [e \in Entry |-> IF p = Pg0 /\ e < NrLow
                                 THEN [page |-> LowPage(e), w |-> TRUE] ELSE Absent]]
  /\ data = [p \in Page |-> Zero]
  /\ dir = [t \in Task |-> [d \in Dir |-> IF t = Swapper /\ d = 0 THEN Pg0 ELSE 0]]
  /\ tss = [t \in Task |-> 0]
  /\ pc = [t \in Task |-> IF t = Swapper THEN "main" ELSE "free"]
  /\ at = [t \in Task |-> 0]
  /\ args = [t \in Task |-> <<>>]
-----------------------------------------------------------------------------
(* The functions of memory.c take the state m of the pages to the next one,  *)
(* or to a result r: did it work, and the state r.m.                         *)
mm == [map |-> mem_map, table |-> table, data |-> data, dir |-> dir]

Done(m) == [ok |-> TRUE, m |-> m]
Failed(m) == [ok |-> FALSE, m |-> m]

Free(m) == {p \in Paged : m.map[p] = 0}

\* What is in a free page does not matter, GetFreePage clears it: it is Zero here.
Becomes(m) ==
  /\ mem_map' = m.map
  /\ table' = m.table
  /\ data' = [p \in Page |-> IF p \in Free(m) THEN Zero ELSE m.data[p]]
  /\ dir' = m.dir

NextFree(m) == Max(Free(m))

\* The topmost free page, marked and cleared.
GetFreePage(m) ==
  [m EXCEPT !.map[NextFree(m)] = 1,
            !.table[NextFree(m)] = Blank,
            !.data[NextFree(m)] = Zero]

\* A count below 0 is the panic "trying to free free page".
FreePage(m, p) == IF p \in Paged THEN [m EXCEPT !.map[p] = @ - 1] ELSE m

PTEof(m, t, a) ==
  LET d == m.dir[t][DirOf(a)] IN IF d = 0 THEN Absent ELSE m.table[d][EntryOf(a)]
Present(m, t, a) == PTEof(m, t, a).page # 0

SetPTE(m, t, a, p) ==
  [m EXCEPT !.table[m.dir[t][DirOf(a)]][EntryOf(a)] = [page |-> p, w |-> TRUE]]

\* How often the region of task t maps page p, its page tables included.
Tables(m, t) == {d \in Dir : m.dir[t][d] # 0}
Uses(m, t, p) ==
  Cardinality({a \in Addr : PTEof(m, t, a).page = p}) + Cardinality({d \in Dir : m.dir[t][d] = p})

FreePageTables(m, t) ==
  [m EXCEPT !.map = [p \in Paged |-> @[p] - Uses(m, t, p)],
            !.table = [p \in DOMAIN @ |-> IF \E d \in Dir : m.dir[t][d] = p THEN Blank ELSE @[p]],
            !.dir[t] = [d \in Dir |-> 0]]

ReadOnly(pte) == [pte EXCEPT !.w = FALSE]

\* Mutant: mem_map[this_page]++ is missing.
CopyTableUncounted(m, from, to, d) ==
  LET src == m.dir[from][d]  dst == NextFree(m)  g == GetFreePage(m)
  IN  [g EXCEPT !.table[dst] = [e \in Entry |-> ReadOnly(m.table[src][e])],
                !.table[src] = [e \in Entry |-> ReadOnly(m.table[src][e])],
                !.dir[to][d] = dst]

\* One page table of copy_page_tables().
CopyTable(m, from, to, d) ==
  LET src == m.dir[from][d]  dst == NextFree(m)  g == GetFreePage(m)
  IN  [g EXCEPT !.map = [p \in Paged |->
                           @[p] + Cardinality({e \in Entry : m.table[src][e].page = p})],
                !.table[dst] = [e \in Entry |-> ReadOnly(m.table[src][e])],
                !.table[src] = [e \in Entry |-> IF @[e].page \in Paged THEN ReadOnly(@[e]) ELSE @[e]],
                !.dir[to][d] = dst]

CopyPageTables(m, from, to) ==
  LET Step(r, d) ==
        IF ~r.ok \/ r.m.dir[from][d] = 0 THEN r
        ELSE IF Free(r.m) = {} THEN Failed(r.m)
        ELSE Done(CopyTable(r.m, from, to, d))
      result[n \in 0 .. NrTables] == IF n = 0 THEN Done(m) ELSE Step(result[n - 1], n - 1)
  IN  result[NrTables]

PutPage(m, p, t, a) ==
  IF m.dir[t][DirOf(a)] # 0 THEN Done(SetPTE(m, t, a, p))
  ELSE IF Free(m) = {} THEN Failed(m)
  ELSE Done(SetPTE([GetFreePage(m) EXCEPT !.dir[t][DirOf(a)] = NextFree(m)], t, a, p))

\* Mutant: mem_map[MAP_NR(old_page)]-- is missing.
UnWpPageKept(m, t, a) ==
  LET old == PTEof(m, t, a).page  new == NextFree(m) IN
  IF old \in Paged /\ m.map[old] = 1 THEN Done(SetPTE(m, t, a, old))
  ELSE IF Free(m) = {} THEN Failed(m)
  ELSE Done(SetPTE([GetFreePage(m) EXCEPT !.data[new] = m.data[old]], t, a, new))

UnWpPage(m, t, a) ==
  LET old == PTEof(m, t, a).page  new == NextFree(m) IN
  IF old \in Paged /\ m.map[old] = 1 THEN Done(SetPTE(m, t, a, old))
  ELSE IF Free(m) = {} THEN Failed(m)
  ELSE Done(SetPTE([FreePage(GetFreePage(m), old) EXCEPT !.data[new] = m.data[old]], t, a, new))

\* do_no_page(): the page is lost when there is none for the page table.
DoNoPage(m, t, a) ==
  IF Free(m) = {} THEN Failed(m) ELSE PutPage(GetFreePage(m), NextFree(m), t, a)

\* Mutant: only pages that may be written are looked at.
WriteVerifyNothing(m, t, a) == Done(m)

WriteVerify(m, t, a) ==
  IF Present(m, t, a) /\ ~PTEof(m, t, a).w THEN UnWpPage(m, t, a) ELSE Done(m)

Store(r, t, a, v) ==
  IF r.ok THEN Done([r.m EXCEPT !.data[PTEof(r.m, t, a).page] = v]) ELSE r

\* A write of the program; of the kernel, which the write protection of the
\* 386 does not stop.
UserWrite(m, t, a, v) ==
  Store(IF Present(m, t, a) THEN WriteVerify(m, t, a) ELSE DoNoPage(m, t, a), t, a, v)
PutFs(m, t, a, v) ==
  Store(IF Present(m, t, a) THEN Done(m) ELSE DoNoPage(m, t, a), t, a, v)
-----------------------------------------------------------------------------
Goto(t, p) == pc' = [pc EXCEPT ![t] = p]

\* t goes on at p with the result r, or do_exit(SIGSEGV) takes its memory.
GoesOn(t, p, r) ==
  IF r.ok THEN Becomes(r.m) /\ Goto(t, p)
          ELSE Becomes(FreePageTables(r.m, t)) /\ Goto(t, "exit")

(* The program writes, or reads a page it does not have.                     *)
ProgramWrites(t, a, v) ==
  /\ pc[t] = "user"
  /\ GoesOn(t, "user", UserWrite(mm, t, a, v))
  /\ UNCHANGED <<tss, at, args>>

ProgramReads(t, a) ==
  /\ pc[t] = "user"
  /\ ~Present(mm, t, a)
  /\ GoesOn(t, "user", DoNoPage(mm, t, a))
  /\ UNCHANGED <<tss, at, args>>

(* A system call that calls verify_area(), may sleep and then writes.        *)
SysRead(t, a) ==
  /\ pc[t] = "user"
  /\ GoesOn(t, "reading", WriteVerify(mm, t, a))
  /\ at' = [at EXCEPT ![t] = a]
  /\ UNCHANGED <<tss, args>>

ReadEnd(t, v) ==
  /\ pc[t] = "reading"
  /\ GoesOn(t, "user", PutFs(mm, t, at[t], v))
  /\ at' = [at EXCEPT ![t] = 0]
  /\ UNCHANGED <<tss, args>>

(* sys_pipe() has no verify_area(): with SharedArray FALSE the program has   *)
(* written to the page itself before the call.                               *)
SysPipe(t, a, v) ==
  /\ SharedArray \/ PTEof(mm, t, a).w
  /\ pc[t] = "user"
  /\ GoesOn(t, "user", PutFs(mm, t, a, v))
  /\ UNCHANGED <<tss, at, args>>
-----------------------------------------------------------------------------
(* copy_process() and copy_mem(), into the first empty slot c.  The swapper  *)
(* forks once and then, as main() says, keeps off its memory.                *)
SysFork(t, c) ==
  LET r == CopyPageTables(GetFreePage(mm), t, c) IN
  /\ pc[t] \in {"user", "main"} /\ pc[c] = "free"
  /\ \A b \in Task : pc[b] = "free" => c <= b
  /\ Free(mm) # {}
  /\ IF r.ok
     THEN /\ Becomes(r.m)
          /\ tss' = [tss EXCEPT ![c] = NextFree(mm)]
          /\ pc' = [pc EXCEPT ![c] = "user", ![t] = IF t = Swapper THEN "idle" ELSE @]
     ELSE /\ Becomes(FreePage(FreePageTables(r.m, c), NextFree(mm)))
          /\ UNCHANGED <<tss, pc>>
  /\ UNCHANGED <<at, args>>

\* do_exit(), and release() by the father or by the last schedule().
DoExit(t) ==
  /\ pc[t] = "user"
  /\ Becomes(FreePageTables(mm, t))
  /\ Goto(t, "exit")
  /\ UNCHANGED <<tss, at, args>>

Release(t) ==
  /\ pc[t] = "exit"
  /\ Becomes(FreePage(mm, tss[t]))
  /\ tss' = [tss EXCEPT ![t] = 0]
  /\ Goto(t, "free")
  /\ UNCHANGED <<at, args>>
-----------------------------------------------------------------------------
\* copy_strings() fills n pages; when they are not there all go back.
CopyStrings(t, n, v) ==
  LET Filled(old) == [GetFreePage(old) EXCEPT !.data[NextFree(old)] = v]
      m[i \in 0 .. n] == IF i = 0 THEN mm ELSE Filled(m[i - 1])
  IN  /\ pc[t] = "user"
      /\ n <= Cardinality(Free(mm))
      /\ Becomes(m[n])
      /\ args' = [args EXCEPT ![t] = [i \in 1 .. n |-> NextFree(m[i - 1])]]
      /\ Goto(t, "exec")
      /\ UNCHANGED <<tss, at>>

StackPage(i) == NrTables * NrEntries - i

\* Past the point of no return: the old memory goes, change_ldt() maps the
\* argument pages, create_tables() writes below them.
ChangeLdt(t, v) ==
  LET n == Len(args[t])
      Put(old, i) == PutPage(old, args[t][i], t, StackPage(i)).m
      m[i \in 0 .. n] == IF i = 0 THEN FreePageTables(mm, t) ELSE Put(m[i - 1], i)
  IN  /\ pc[t] = "exec"
      /\ \E i \in {n, n + 1} \ {0} : GoesOn(t, "load", PutFs(m[n], t, StackPage(i), v))
      /\ args' = [args EXCEPT ![t] = <<>>]
      /\ at' = [at EXCEPT ![t] = 0]
      /\ UNCHANGED tss

\* read_area() sleeps for every block; a read error ends the task.
ReadArea(t, v) ==
  /\ pc[t] = "load" /\ at[t] < MaxImage
  /\ GoesOn(t, "load", PutFs(mm, t, at[t], v))
  /\ at' = [at EXCEPT ![t] = IF pc'[t] = "load" THEN @ + 1 ELSE 0]
  /\ UNCHANGED <<tss, args>>

ExecDone(t) ==
  /\ pc[t] = "load"
  /\ \/ Goto(t, "user") /\ UNCHANGED pages
     \/ Goto(t, "exit") /\ Becomes(FreePageTables(mm, t))
  /\ at' = [at EXCEPT ![t] = 0]
  /\ UNCHANGED <<tss, args>>
-----------------------------------------------------------------------------
Program(t) ==
  \/ \E a \in Touched : ProgramReads(t, a) \/ SysRead(t, a)
  \/ \E a \in Touched, v \in Value : ProgramWrites(t, a, v) \/ SysPipe(t, a, v)
  \/ \E v \in Value : ReadEnd(t, v)

Execve(t) ==
  \/ \E n \in 0 .. MAX_ARG_PAGES, v \in Value : CopyStrings(t, n, v)
  \/ \E v \in Value : ChangeLdt(t, v) \/ ReadArea(t, v)
  \/ ExecDone(t)

Next ==
  \E t \in Task :
    \/ Program(t) \/ Execve(t) \/ DoExit(t) \/ Release(t)
    \/ \E c \in Task \ {t} : SysFork(t, c)

Spec == Init /\ [][Next]_vars
-----------------------------------------------------------------------------
(* What uses a page: page directories and tables, task structures, and the   *)
(* argument pages of an execve.                                              *)
Refs(p) ==
  Cardinality({u \in Task \X Dir \X Entry :
                 dir[u[1]][u[2]] # 0 /\ table[dir[u[1]][u[2]]][u[3]].page = p})
  + Cardinality({u \in Task \X Dir : dir[u[1]][u[2]] = p})
  + Cardinality({t \in Task : tss[t] = p})
  + Cardinality({u \in Task \X (1 .. MAX_ARG_PAGES) :
                   u[2] <= Len(args[u[1]]) /\ args[u[1]][u[2]] = p})

(* A page is not free while anything uses it, whatever fails half way, so no *)
(* free page is ever freed (memory.c:90-101, 107-131, 152-190).              *)
NoneFreedInUse == \A p \in Paged : mem_map[p] >= Refs(p)

(* What a task may write to is its own: no other mapping, no page of the     *)
(* kernel (memory.c:175-185, 222-243).                                       *)
WritableIsOwn ==
  \A t \in Task \ {Swapper}, a \in Addr :
    PTEof(mm, t, a).w => PTEof(mm, t, a).page \in Paged /\ Refs(PTEof(mm, t, a).page) = 1

(* Page tables, task structures and argument pages are never shared and      *)
(* never anything else at the same time (memory.c:152-220, fork.c:70).       *)
OnlyDataIsShared ==
  \A t \in Task :
    /\ \A d \in Tables(mm, t) : dir[t][d] # Pg0 => Refs(dir[t][d]) = 1
    /\ tss[t] # 0 => Refs(tss[t]) = 1
    /\ \A i \in 1 .. Len(args[t]) : Refs(args[t][i]) = 1

(* Sharing is only ever the read-only sharing of data pages that fork sets   *)
(* up and un_wp_page ends (memory.c:152-190, 222-243).                       *)
Sharing == TypeOK /\ WritableIsOwn /\ OnlyDataIsShared

(* fork finds the region of an empty slot empty: it does not run into        *)
(* "copy_page_tables: already exist" (memory.c:166-167, fork.c:50-53).       *)
RegionsCleared == \A t \in Task : pc[t] \in {"free", "exit"} => Tables(mm, t) = {}

(* Every page has the owners its count says, each of the kind it may have,   *)
(* and none is left when a task is gone: the three above together.           *)
PagesOwned == NoneFreedInUse /\ Sharing /\ RegionsCleared

(* Pages are lost, counted but in nobody's use, only by a fault or an execve *)
(* that finds no page for a page table (memory.c:214-215, 269-272).          *)
Unused == [p \in Paged |-> mem_map[p] - Refs(p)]
LostOnlyWhenFull == [][Cardinality(Free(mm)) > 1 => Unused' = Unused]_vars

(* Together pages, page tables and copying on writes give every task a       *)
(* memory of its own (PrivateMemory.tla).                                    *)
Contents(t, a) == IF Present(mm, t, a) THEN data[PTEof(mm, t, a).page] ELSE Zero
View == [t \in Task |-> [a \in Addr |-> Contents(t, a)]]

Stack == {StackPage(i) : i \in 1 .. MAX_ARG_PAGES + 1}

PM == INSTANCE PrivateMemory WITH mem <- View
Private == PM!Spec
=============================================================================
