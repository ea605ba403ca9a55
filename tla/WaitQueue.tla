------------------------------ MODULE WaitQueue ------------------------------
(***************************************************************************)
(* The sleep/wake protocol of kernel/sched.c: sleep_on(),                   *)
(* interruptible_sleep_on() and wake_up().                                  *)
(*                                                                          *)
(* A wait queue is one pointer *p (head[q]) to the task that slept last.    *)
(* Everybody else on the queue is named only by the local variable tmp on   *)
(* the kernel stack of the task that slept after it, so waking the head     *)
(* starts a cascade: each task, once it runs again, wakes its tmp.          *)
(*                                                                          *)
(* The kernel is never preempted: a task in the kernel runs until it calls  *)
(* schedule().  What does interleave with it are interrupt handlers, which  *)
(* call wake_up() unless the caller of sleep_on() did cli().                *)
(*                                                                          *)
(* Abstracted: the choice made by schedule() (any runnable task may be      *)
(* chosen; Sched.tla models the counters), the signal bitmap (one bit says  *)
(* that some signal is pending) and what the tasks wait for.                *)
(***************************************************************************)
EXTENDS Naturals, FiniteSets

CONSTANTS
  Task,      \* task[1..NR_TASKS-1]: the tasks that may sleep
  Idle,      \* task[0], "which gets called when no other tasks can run"
  NULL,      \* the null struct task_struct pointer
  Queue,     \* the struct task_struct * variables tasks sleep on
  IntQueue,  \* those slept on with interruptible_sleep_on (tty proc_list)
  Readers,   \* the sets of tasks that may do so, the users of terminals
  CliQueue,  \* those whose callers run between cli() and sti()
  IrqQueue   \* those whose wake_up() is called by interrupt handlers

\* task[] has NR_TASKS entries.
ASSUME TaskAssumption ==
  /\ IsFiniteSet(Task)
  /\ Idle \notin Task
  /\ NULL \notin Task
  /\ Idle # NULL

\* kernel/tty_io.c:111-127 is the only user of interruptible_sleep_on, under cli.
ASSUME QueueAssumption ==
  /\ Queue # {}
  /\ IntQueue \subseteq Queue
  /\ CliQueue \subseteq Queue
  /\ IrqQueue \subseteq Queue
  /\ IntQueue \subseteq CliQueue
  /\ Readers \subseteq SUBSET Task

VARIABLES
  current,   \* the task that owns the processor
  state,     \* task_struct.state
  signal,    \* is task_struct.signal nonzero
  head,      \* *p of each queue
  pc,        \* where the task is inside sched.c
  wq,        \* the argument p of its sleep
  tmp,       \* the local variable tmp of its sleep
  readers    \* the tasks that sleep interruptibly: one of Readers

vars == <<current, state, signal, head, pc, wq, tmp, readers>>

State == {"RUNNING", "INTERRUPTIBLE", "UNINTERRUPTIBLE", "ZOMBIE"}

(* "run": anywhere else in the kernel or in user mode; "read", "link": in    *)
(* sleep_on after line 122 and after line 123; "sleep", "isleep": inside the *)
(* schedule() of sleep_on and of interruptible_sleep_on; "exit": inside the  *)
(* schedule() that ends do_exit().                                           *)
PC == {"run", "read", "link", "sleep", "isleep", "exit"}

TypeOK ==
  /\ current \in Task \union {Idle}
  /\ state \in [Task -> State]
  /\ signal \in [Task -> BOOLEAN]
  /\ head \in [Queue -> Task \union {NULL}]
  /\ pc \in [Task -> PC]
  /\ wq \in [Task -> Queue]
  /\ tmp \in [Task -> Task \union {NULL}]

Init ==
  /\ current = Idle
  /\ state = [t \in Task |-> "RUNNING"]
  /\ signal = [t \in Task |-> FALSE]
  /\ head = [q \in Queue |-> NULL]
  /\ pc = [t \in Task |-> "run"]
  /\ wq = [t \in Task |-> CHOOSE q \in Queue : TRUE]
  /\ tmp = [t \in Task |-> NULL]
  /\ readers \in Readers

-----------------------------------------------------------------------------
(* schedule(), entered with the task states st: a signal makes an            *)
(* interruptible task runnable, then some runnable task is switched to, task *)
(* 0 when there is none.                                                     *)
Signalled(st) ==
  [t \in Task |-> IF signal[t] /\ st[t] = "INTERRUPTIBLE" THEN "RUNNING" ELSE st[t]]

Runnable(st) == {t \in Task : st[t] = "RUNNING"}

Schedule(st) ==
  /\ state' = Signalled(st)
  /\ \/ current' \in Runnable(state')
     \/ Runnable(state') = {} /\ current' = Idle

(* tmp->state=0, the same for the head: no test of what the task is doing by now.    *)
Wake(t, st) == IF t = NULL THEN st ELSE [st EXCEPT ![t] = "RUNNING"]

\* Mutant: the cli() before sleep_on is missing.
IrqNeverOff == FALSE

\* The processor's interrupt flag is off: current sleeps on a queue under cli().
IrqOff == current \in Task /\ pc[current] \in {"read", "link"} /\ wq[current] \in CliQueue

-----------------------------------------------------------------------------
(* sleep_on(&q), line by line: an interrupt may come in between.             *)
SleepRead(t, q) ==
  /\ current = t
  /\ pc[t] = "run"
  /\ q \notin IntQueue
  /\ tmp' = [tmp EXCEPT ![t] = head[q]]
  /\ wq' = [wq EXCEPT ![t] = q]
  /\ pc' = [pc EXCEPT ![t] = "read"]
  /\ UNCHANGED <<current, state, signal, head, readers>>

SleepLink(t) ==
  /\ current = t
  /\ pc[t] = "read"
  /\ head' = [head EXCEPT ![wq[t]] = t]
  /\ pc' = [pc EXCEPT ![t] = "link"]
  /\ UNCHANGED <<current, state, signal, wq, tmp, readers>>

SleepBlock(t) ==
  /\ current = t
  /\ pc[t] = "link"
  /\ pc' = [pc EXCEPT ![t] = "sleep"]
  /\ Schedule([state EXCEPT ![t] = "UNINTERRUPTIBLE"])
  /\ UNCHANGED <<signal, head, wq, tmp, readers>>

\* Mutant: the task that slept before is not woken.
SleepReturnSilently(t) ==
  /\ current = t
  /\ pc[t] = "sleep"
  /\ tmp' = [tmp EXCEPT ![t] = NULL]
  /\ pc' = [pc EXCEPT ![t] = "run"]
  /\ UNCHANGED <<current, state, signal, head, wq, readers>>

\* schedule() has returned: wake the task that slept before, and return.
SleepReturn(t) ==
  /\ current = t
  /\ pc[t] = "sleep"
  /\ state' = Wake(tmp[t], state)
  /\ tmp' = [tmp EXCEPT ![t] = NULL]
  /\ pc' = [pc EXCEPT ![t] = "run"]
  /\ UNCHANGED <<current, signal, head, wq, readers>>

(* interruptible_sleep_on(&q): its callers hold cli() and have just tested   *)
(* that no signal is pending.                                                *)
IntSleepOn(t, q) ==
  /\ current = t
  /\ pc[t] = "run"
  /\ q \in IntQueue /\ t \in readers
  /\ ~signal[t]
  /\ tmp' = [tmp EXCEPT ![t] = head[q]]
  /\ wq' = [wq EXCEPT ![t] = q]
  /\ head' = [head EXCEPT ![q] = t]
  /\ pc' = [pc EXCEPT ![t] = "isleep"]
  /\ Schedule([state EXCEPT ![t] = "INTERRUPTIBLE"])
  /\ UNCHANGED <<signal, readers>>

\* Lines 142-144: somebody slept after us; wake that task and sleep again.
IntSleepRepeat(t) ==
  LET h == head[wq[t]] IN
  /\ current = t
  /\ pc[t] = "isleep"
  /\ h \notin {NULL, t}
  /\ Schedule([state EXCEPT ![h] = "RUNNING", ![t] = "INTERRUPTIBLE"])
  /\ UNCHANGED <<signal, head, pc, wq, tmp, readers>>

IntSleepReturn(t) ==
  /\ current = t
  /\ pc[t] = "isleep"
  /\ head[wq[t]] \in {NULL, t}
  /\ head' = [head EXCEPT ![wq[t]] = NULL]
  /\ state' = Wake(tmp[t], state)
  /\ tmp' = [tmp EXCEPT ![t] = NULL]
  /\ pc' = [pc EXCEPT ![t] = "run"]
  /\ UNCHANGED <<current, signal, wq, readers>>

\* Mutant: *p=NULL is missing.
WakeUpKeepsHead(q) ==
  /\ head[q] # NULL
  /\ state' = Wake(head[q], state)
  /\ UNCHANGED <<current, signal, head, pc, wq, tmp, readers>>

WakeUp(q) ==
  /\ head[q] # NULL
  /\ state' = Wake(head[q], state)
  /\ head' = [head EXCEPT ![q] = NULL]
  /\ UNCHANGED <<current, signal, pc, wq, tmp, readers>>

\* wake_up() called by the running task, and by an interrupt handler.
TaskWakeUp(t, q) == current = t /\ pc[t] = "run" /\ WakeUp(q)
IrqWakeUp(q) == q \in IrqQueue /\ ~IrqOff /\ WakeUp(q)

-----------------------------------------------------------------------------
\* send_sig(): by a task (sys_kill) or by the keyboard interrupt (tty_intr).
Signal(t) ==
  /\ ~IrqOff
  /\ ~signal[t]
  /\ signal' = [signal EXCEPT ![t] = TRUE]
  /\ UNCHANGED <<current, state, head, pc, wq, tmp, readers>>

\* ret_from_sys_call: the running task takes its signal and survives it.
TakeSignal(t) ==
  /\ current = t
  /\ pc[t] = "run"
  /\ signal[t]
  /\ signal' = [signal EXCEPT ![t] = FALSE]
  /\ UNCHANGED <<current, state, head, pc, wq, tmp, readers>>

\* The time slice ended (timer interrupt or return from a system call).
Preempt(t) ==
  /\ current = t
  /\ pc[t] = "run"
  /\ Schedule(state)
  /\ UNCHANGED <<signal, head, pc, wq, tmp, readers>>

\* Task 0 calls pause() for ever.
IdlePause ==
  /\ current = Idle
  /\ Schedule(state)
  /\ UNCHANGED <<signal, head, pc, wq, tmp, readers>>

Exit(t) ==
  /\ current = t
  /\ pc[t] = "run"
  /\ pc' = [pc EXCEPT ![t] = "exit"]
  /\ Schedule([state EXCEPT ![t] = "ZOMBIE"])
  /\ UNCHANGED <<signal, head, wq, tmp, readers>>

\* Lines 90-91 of exit.c: schedule() came back, do_exit returns to its caller.
ExitReturns(t) ==
  /\ current = t
  /\ pc[t] = "exit"
  /\ pc' = [pc EXCEPT ![t] = "run"]
  /\ UNCHANGED <<current, state, signal, head, wq, tmp, readers>>

Next ==
  \/ \E t \in Task :
       \/ \E q \in Queue : SleepRead(t, q) \/ IntSleepOn(t, q) \/ TaskWakeUp(t, q)
       \/ SleepLink(t)
       \/ SleepBlock(t)
       \/ SleepReturn(t)
       \/ IntSleepRepeat(t)
       \/ IntSleepReturn(t)
       \/ Signal(t)
       \/ TakeSignal(t)
       \/ Preempt(t)
       \/ Exit(t)
       \/ ExitReturns(t)
  \/ \E q \in Queue : IrqWakeUp(q)
  \/ IdlePause

(* Fairness: a task inside the sleep functions goes on when it has the       *)
(* processor, and a task schedule() can choose again and again is chosen     *)
(* again and again (Sched.tla shows what the counters guarantee).            *)
Progress(t) == SleepLink(t) \/ SleepBlock(t) \/ SleepReturn(t) \/ IntSleepReturn(t)
Chosen(t) == Next /\ current' = t

Fairness ==
  \A t \in Task : WF_vars(Progress(t)) /\ SF_vars(Chosen(t) /\ current # t)

Spec == Init /\ [][Next]_vars
FairSpec == Spec /\ Fairness

-----------------------------------------------------------------------------
(* A queue is disciplined when sleepers use sleep_on and no interrupt can    *)
(* call wake_up between the lines of sleep_on: buffer heads (cli), inodes    *)
(* and buffer_wait (never woken by interrupts), but not wait_for_request.    *)
Disciplined == {q \in Queue : q \notin IntQueue /\ (q \in CliQueue \/ q \notin IrqQueue)}

Asleep(q) == {t \in Task : pc[t] = "sleep" /\ state[t] = "UNINTERRUPTIBLE" /\ wq[t] = q}

(* No set of sleepers is cut off: whichever sleepers of a queue we look at,  *)
(* one of them is the head or is the tmp of a task outside the set that is   *)
(* still inside sleep_on on the same queue.  Taken over all subsets this     *)
(* excludes forgotten sleepers and rings of tasks that hold only each other  *)
(* (sched.c:114-128).                                                        *)
Reached(q, S) ==
  \/ head[q] \in S
  \/ \E u \in Task \ S : pc[u] \in {"link", "sleep"} /\ wq[u] = q /\ tmp[u] \in S

NoneCutOff == \A q \in Disciplined : \A S \in SUBSET Asleep(q) : S = {} \/ Reached(q, S)

(* Only one task sleeps interruptibly.  A signal can wake a second one       *)
(* behind the back of a task that holds it in tmp, which then wakes it       *)
(* again, whatever it is doing by then (sched.c:138-148).                    *)
Orderly == Cardinality(readers) <= 1

(* A dead task stays dead: nobody who still has a pointer to it makes it     *)
(* runnable again (sched.c:126-127, 147-148; exit.c:85-91).                  *)
NoRevival ==
  [][Orderly => \A t \in Task : state[t] = "ZOMBIE" => state'[t] = "ZOMBIE"]_vars

-----------------------------------------------------------------------------
(* What a queue promises is WaitSet.tla: a set of waiting tasks that wake_up *)
(* releases all at once.  The tasks of the set are those reached from the    *)
(* head along the tmp pointers.                                              *)
Links(S) == {tmp[t] : t \in S} \ {NULL}

Chain(q) ==
  LET reach[n \in 0 .. Cardinality(Task)] ==
        IF n = 0 THEN {head[q]} \ {NULL} ELSE reach[n - 1] \union Links(reach[n - 1])
  IN  reach[Cardinality(Task)]

InSleep == {t \in Task : pc[t] \in {"link", "sleep"}}

Promise == INSTANCE WaitSet WITH
  Queue    <- Disciplined,
  waiting  <- [q \in Disciplined |-> IF Orderly THEN Chain(q) ELSE {}],
  released <- IF Orderly THEN InSleep \ UNION {Chain(q) : q \in Disciplined} ELSE {}

(* sleep_on and wake_up keep that promise, where no queue is undisciplined   *)
(* and one task sleeps interruptibly: nobody returns before a wake_up and    *)
(* everybody a wake_up released returns (sched.c:114-128, 151-157).          *)
KeepsPromise == Promise!Spec
=============================================================================
