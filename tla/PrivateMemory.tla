---------------------------- MODULE PrivateMemory ----------------------------
(***************************************************************************)
(* What mm/memory.c promises to programs, without pages, page tables and    *)
(* copying on writes: every task has a memory of its own.  fork() gives the *)
(* child a copy, execve() and exit() leave nothing of the old contents, and *)
(* only the task itself, or a system call it makes, ever changes a byte.    *)
(***************************************************************************)
CONSTANTS
  Task, Addr, Value, Zero,
  Stack  \* where execve puts the arguments

VARIABLE mem

Empty == [a \in Addr |-> Zero]

Init == mem \in [Task -> [Addr -> Value \union {Zero}]]

\* Reading changes nothing, whatever pages the kernel needs for it.
Read == UNCHANGED mem

Write(t, a, v) == mem' = [mem EXCEPT ![t][a] = v]

Fork(t, c) ==
  /\ mem[c] = Empty
  /\ mem' = [mem EXCEPT ![c] = mem[t]]

Exec(t) ==
  /\ \A u \in Task \ {t} : mem'[u] = mem[u]
  /\ \A a \in Addr \ Stack : mem'[t][a] = Zero

Exit(t) == mem' = [mem EXCEPT ![t] = Empty]

Next ==
  \/ Read
  \/ \E t \in Task :
       \/ \E a \in Addr, v \in Value : Write(t, a, v)
       \/ \E c \in Task \ {t} : Fork(t, c)
       \/ Exec(t)
       \/ Exit(t)

Spec == Init /\ [][Next]_mem
=============================================================================
