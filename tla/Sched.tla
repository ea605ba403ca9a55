-------------------------------- MODULE Sched --------------------------------
(***************************************************************************)
(* Tasks, their life and their share of the processor: schedule() and       *)
(* do_timer() of kernel/sched.c, fork (kernel/fork.c), exit, waitpid and    *)
(* kill (kernel/exit.c) and the way back to user mode, where a system call  *)
(* or a timer interrupt reschedules and signals are taken                   *)
(* (kernel/system_call.s).                                                  *)
(*                                                                          *)
(* One action is the code a task runs between two points where the          *)
(* processor may be given away or an interrupt matters.  Sleeping for a     *)
(* device (sleep_on and its wake_up, see WaitQueue.tla) is one step here.   *)
(* Times are ticks still to go, the signal bitmap is a set, and whom kill() *)
(* selects (pid, group, permission) is any set of tasks.                    *)
(***************************************************************************)
EXTENDS Integers, FiniteSets

CONSTANTS
  NrTasks,     \* NR_TASKS
  MaxPid,      \* the largest pid: the one before last_pid turns negative
  Priority,    \* the priority of INIT_TASK
  MaxPriority, \* bound: how far nice() may raise a priority
  MaxAlarm,    \* bound: the longest alarm, in ticks; 0: nobody calls alarm()
  Sig,         \* the signals that occur, as bit numbers plus one
  MaySleep,    \* bound: do tasks sleep for devices
  Tuning,      \* bound: the slots whose tasks call nice() and alarm()
  ReusePids,   \* bound: may last_pid wrap around; if not, forks are finite
  NULL         \* an empty entry of task[]

SIGKILL == 9
SIGALRM == 14
SIGCHLD == 17

ASSUME SchedAssumption ==
  /\ NrTasks \in Nat /\ NrTasks >= 2
  /\ MaxPid \in Nat /\ MaxPid >= NrTasks
  /\ MaxPriority \in Nat
  /\ Priority \in 1 .. MaxPriority
  /\ MaxAlarm \in Nat
  /\ Tuning \subseteq 1 .. NrTasks - 1
  /\ SIGCHLD \in Sig /\ SIGALRM \in Sig /\ Sig \subseteq 1 .. 32
  /\ MaySleep \in BOOLEAN /\ ReusePids \in BOOLEAN

VARIABLES
  task,      \* task[1 .. NR_TASKS-1], NULL where there is no task
  at,        \* where in the kernel each task stopped
  wpid,      \* the pid argument of its waitpid, -1 outside of it
  current,   \* index of the task that has the processor, 0 is the idle task
  last_pid   \* the last pid that was handed out

vars == <<task, at, wpid, current, last_pid>>

Slot == 1 .. NrTasks - 1
Pid == 1 .. MaxPid
State == {"RUNNING", "INTERRUPTIBLE", "UNINTERRUPTIBLE", "ZOMBIE"}

(* alarm: 0 is no alarm, 1 an alarm in the past, n+1 one that is n ticks     *)
(* from being in the past.                                                   *)
TaskStruct ==
  [state : State, counter : 0 .. 2 * MaxPriority, priority : 1 .. MaxPriority,
   signal : SUBSET Sig, alarm : 0 .. MaxAlarm + 2, pid : Pid, father : 0 .. MaxPid]

(* "user": in user mode; "syscall": a system call is done (system_call.s,    *)
(* line 76); "ret": at ret_from_sys_call; "pause", "wait": in the schedule() *)
(* of sys_pause, of the sys_pause of sys_waitpid; "reaped": in that of       *)
(* release(); "io": asleep for a device; "closing", "closed": in do_exit     *)
(* from line 73 on, before and after it slept; "dead": in its last           *)
(* schedule().                                                               *)
Place == {"user", "syscall", "ret", "pause", "wait", "reaped", "io",
          "closing", "closed", "dead"}

ASSUME NullAssumption == NULL \notin TaskStruct

TypeOK ==
  /\ task \in [Slot -> TaskStruct \union {NULL}]
  /\ at \in [Slot -> Place]
  /\ wpid \in [Slot -> Pid \union {-1}]
  /\ current \in 0 .. NrTasks - 1
  /\ last_pid \in 0 .. MaxPid

Used(T) == {i \in Slot : T[i] # NULL}

\* main() has forked init, which has pid 1 and the idle task as its father.
InitTask ==
  [state |-> "RUNNING", counter |-> Priority, priority |-> Priority, signal |-> {},
   alarm |-> 0, pid |-> 1, father |-> 0]

Init ==
  /\ task = [i \in Slot |-> IF i = 1 THEN InitTask ELSE NULL]
  /\ at = [i \in Slot |-> "user"]
  /\ wpid = [i \in Slot |-> -1]
  /\ current = 0
  /\ last_pid = 1
-----------------------------------------------------------------------------
(* schedule(): first alarms and signals.                                     *)
\* Mutant: alarms are not looked at.
AlertedByNoAlarm(t) ==
  [t EXCEPT !.state = IF t.signal # {} /\ @ = "INTERRUPTIBLE" THEN "RUNNING" ELSE @]

Alerted(t) ==
  LET sig == IF t.alarm = 1 THEN t.signal \union {SIGALRM} ELSE t.signal
  IN  [t EXCEPT !.signal = sig,
                !.alarm  = IF @ = 1 THEN 0 ELSE @,
                !.state  = IF sig # {} /\ @ = "INTERRUPTIBLE" THEN "RUNNING" ELSE @]

Alert(T) == [i \in Slot |-> IF T[i] = NULL THEN NULL ELSE Alerted(T[i])]

Running(T) == {i \in Used(T) : T[i].state = "RUNNING"}

\* Mutant: the highest runnable entry, whatever its counter.
PreferredLast(T, i) == i \in Running(T) /\ \A j \in Running(T) : j <= i

(* Then the choice: the largest counter, of equals the highest entry.        *)
Preferred(T, i) ==
  /\ i \in Running(T)
  /\ \A j \in Running(T) :
       \/ T[j].counter < T[i].counter
       \/ T[j].counter = T[i].counter /\ j <= i

(* Where every running task has used up its time, all tasks get more, the    *)
(* sleeping ones too.  Priorities are positive, so once is enough.           *)
SpentAll(T) == Running(T) # {} /\ \A i \in Running(T) : T[i].counter = 0

Recharge(T) ==
  [i \in Slot |->
     IF T[i] = NULL THEN NULL
     ELSE [T[i] EXCEPT !.counter = T[i].counter \div 2 + T[i].priority]]

Refill(T) == IF SpentAll(T) THEN Recharge(T) ELSE T

Schedule(T) ==
  /\ task' = Refill(Alert(T))
  /\ \/ Preferred(task', current')
     \/ Running(task') = {} /\ current' = 0
-----------------------------------------------------------------------------
(* The running task i, stopped at place p.                                   *)
On(i, p) == current = i /\ task[i] # NULL /\ at[i] = p

Goto(i, p) == at' = [at EXCEPT ![i] = p]

SetState(T, i, s) == [T EXCEPT ![i].state = s]
SetSignal(T, i, S) == [T EXCEPT ![i].signal = S]

(* do_timer(): time passes for the alarms, the running task pays a tick, and *)
(* loses the processor when it has none left and was in user mode.           *)
Elapsed(T) ==
  [i \in Slot |->
     IF T[i] = NULL \/ T[i].alarm <= 1 THEN T[i]
     ELSE [T[i] EXCEPT !.alarm = @ - 1]]

Charged(T, i) == [T EXCEPT ![i].counter = IF @ > 0 THEN @ - 1 ELSE 0]

TickUser(i) ==
  LET T == Charged(Elapsed(task), i) IN
  /\ On(i, "user")
  /\ Goto(i, "ret")
  /\ IF T[i].counter > 0 THEN task' = T /\ UNCHANGED current ELSE Schedule(T)
  /\ UNCHANGED <<wpid, last_pid>>

TickKernel(i) ==
  /\ current = i /\ task[i] # NULL /\ at[i] # "user"
  /\ task' = Charged(Elapsed(task), i)
  /\ UNCHANGED <<at, wpid, current, last_pid>>

TickIdle ==
  /\ current = 0
  /\ task' = Elapsed(task)
  /\ UNCHANGED <<at, wpid, current, last_pid>>

Tick == TickIdle \/ \E i \in Slot : TickUser(i) \/ TickKernel(i)

(* Task 0: for(;;) pause().                                                  *)
IdlePause ==
  /\ current = 0
  /\ Schedule(task)
  /\ UNCHANGED <<at, wpid, last_pid>>
-----------------------------------------------------------------------------
(* Leaving the kernel: reschedule when the time is used up, ...              *)
SysReturn(i) ==
  /\ On(i, "syscall")
  /\ Goto(i, "ret")
  /\ IF task[i].state # "RUNNING" \/ task[i].counter = 0
     THEN Schedule(task)
     ELSE UNCHANGED <<task, current>>
  /\ UNCHANGED <<wpid, last_pid>>

(* ... then take signals, lowest first.  The ignored ones (set) are dropped; *)
(* they are not SIGKILL, whose disposition sys_signal() cannot change.  With *)
(* a handler for the next one the task goes on.                              *)
Below(s, S) == {r \in S : r < s}
From(s, S) == S \ Below(s, S)

RetToUser(i) ==
  /\ On(i, "ret")
  /\ \/ /\ SIGKILL \notin task[i].signal
        /\ task' = SetSignal(task, i, {})
     \/ \E s \in task[i].signal \ {SIGKILL} :
          /\ SIGKILL \notin Below(s, task[i].signal)
          /\ task' = SetSignal(task, i, From(s, task[i].signal) \ {s})
  /\ Goto(i, "user")
  /\ UNCHANGED <<wpid, current, last_pid>>

\* Mutant: the children keep their father.
OrphanNobody(T, p) == T

(* do_exit(), up to line 72: my children have no father any more.            *)
Orphan(T, p) ==
  [j \in Slot |->
     IF T[j] # NULL /\ T[j].father = p THEN [T[j] EXCEPT !.father = 0] ELSE T[j]]

DoExit(i, T) ==
  /\ task' = Orphan(T, T[i].pid)
  /\ Goto(i, "closing")
  /\ UNCHANGED <<wpid, current, last_pid>>

\* The default action of every signal but SIGCHLD.
RetExit(i) ==
  /\ On(i, "ret")
  /\ \E s \in task[i].signal \ {SIGCHLD} :
       /\ SIGKILL \notin Below(s, task[i].signal)
       /\ DoExit(i, SetSignal(task, i, From(s, task[i].signal) \ {s}))
-----------------------------------------------------------------------------
(* System calls: each runs to a schedule() or to its return.                 *)
SysExit(i) == On(i, "user") /\ DoExit(i, task)

\* Closing files and releasing inodes may sleep.
ExitSleep(i) ==
  /\ MaySleep
  /\ On(i, "closing")
  /\ Goto(i, "closed")
  /\ Schedule(SetState(task, i, "UNINTERRUPTIBLE"))
  /\ UNCHANGED <<wpid, last_pid>>

Send(T, D, s) ==
  [j \in Slot |-> IF j \in D THEN [T[j] EXCEPT !.signal = @ \union {s}] ELSE T[j]]

WithPid(T, p) == {j \in Used(T) : T[j].pid = p}

Free(T, i) == [T EXCEPT ![i] = NULL]

\* Mutant: the father gets no SIGCHLD.
ExitDoneSilently(i) ==
  /\ On(i, "closing") \/ On(i, "closed")
  /\ Goto(i, "dead")
  /\ Schedule(IF task[i].father # 0 THEN SetState(task, i, "ZOMBIE") ELSE Free(task, i))
  /\ UNCHANGED <<wpid, last_pid>>

\* Mutant: the last schedule() is missing.
ExitDoneStays(i) ==
  /\ On(i, "closing") \/ On(i, "closed")
  /\ Goto(i, "dead")
  /\ task' = IF task[i].father # 0 THEN SetState(task, i, "ZOMBIE") ELSE Free(task, i)
  /\ UNCHANGED <<current, wpid, last_pid>>

\* Lines 80-90: a zombie for the father to find, or gone at once.
ExitDone(i) ==
  /\ On(i, "closing") \/ On(i, "closed")
  /\ Goto(i, "dead")
  /\ Schedule(IF task[i].father # 0
              THEN Send(SetState(task, i, "ZOMBIE"), WithPid(task, task[i].father), SIGCHLD)
              ELSE Free(task, i))
  /\ UNCHANGED <<wpid, last_pid>>

(* sys_waitpid(): one pass over the table; T is the table with the signals   *)
(* of the caller as they are now.                                            *)
Children(i, p) == {j \in Used(task) \ {i} : task[j].father = task[i].pid
                                            /\ (p = -1 \/ task[j].pid = p)}

Zombies(i, p) == {j \in Children(i, p) : task[j].state = "ZOMBIE"}

WaitPass(i, T, p, nohang) ==
  \/ \E z \in Zombies(i, p) :
       /\ \A y \in Zombies(i, p) : y <= z
       /\ Goto(i, "reaped")
       /\ Schedule(Free(T, z))
  \/ /\ Zombies(i, p) = {}
     /\ Children(i, p) # {} /\ ~nohang
     /\ Goto(i, "wait")
     /\ Schedule(SetState(T, i, "INTERRUPTIBLE"))
  \/ /\ Zombies(i, p) = {}
     /\ Children(i, p) = {} \/ nohang
     /\ Goto(i, "syscall")
     /\ task' = T /\ UNCHANGED current

SysWaitpid(i, p) ==
  /\ On(i, "user")
  /\ \E nohang \in BOOLEAN : WaitPass(i, task, p, nohang)
  /\ wpid' = [wpid EXCEPT ![i] = IF at'[i] = "wait" THEN p ELSE -1]
  /\ UNCHANGED last_pid

\* Mutant: the table is not scanned again.
WaitResumeSleeps(i) ==
  LET T == SetSignal(task, i, task[i].signal \ {SIGCHLD}) IN
  /\ On(i, "wait")
  /\ IF T[i].signal = {}
     THEN Schedule(SetState(T, i, "INTERRUPTIBLE")) /\ UNCHANGED <<at, wpid>>
     ELSE /\ task' = T /\ Goto(i, "syscall") /\ UNCHANGED current
          /\ wpid' = [wpid EXCEPT ![i] = -1]
  /\ UNCHANGED last_pid

\* Line 127: the pause is over; look again unless there is another signal.
WaitResume(i) ==
  LET T == SetSignal(task, i, task[i].signal \ {SIGCHLD}) IN
  /\ On(i, "wait")
  /\ IF T[i].signal = {}
     THEN WaitPass(i, T, wpid[i], FALSE)
     ELSE task' = T /\ Goto(i, "syscall") /\ UNCHANGED current
  /\ wpid' = [wpid EXCEPT ![i] = IF at'[i] = "wait" THEN @ ELSE -1]
  /\ UNCHANGED last_pid

\* pause(), release() and device sleeps come back from schedule().
Resume(i) ==
  /\ \E p \in {"pause", "reaped", "io"} : On(i, p)
  /\ Goto(i, "syscall")
  /\ UNCHANGED <<task, wpid, current, last_pid>>

SysPause(i) ==
  /\ On(i, "user")
  /\ Goto(i, "pause")
  /\ Schedule(SetState(task, i, "INTERRUPTIBLE"))
  /\ UNCHANGED <<wpid, last_pid>>

\* Any system call that has to wait for a device, and the device's wake_up.
SysIo(i) ==
  /\ MaySleep
  /\ On(i, "user")
  /\ Goto(i, "io")
  /\ Schedule(SetState(task, i, "UNINTERRUPTIBLE"))
  /\ UNCHANGED <<wpid, last_pid>>

IoDone(i) ==
  /\ task[i] # NULL
  /\ task[i].state = "UNINTERRUPTIBLE"
  /\ task' = SetState(task, i, "RUNNING")
  /\ UNCHANGED <<at, wpid, current, last_pid>>

SysAlarm(i) ==
  /\ On(i, "user") /\ i \in Tuning
  /\ \E n \in {0} \union 3 .. MaxAlarm + 2 : task' = [task EXCEPT ![i].alarm = n]
  /\ Goto(i, "syscall")
  /\ UNCHANGED <<wpid, current, last_pid>>

\* Mutant: the priority may become zero.
SysNiceZero(i) ==
  /\ On(i, "user") /\ i \in Tuning
  /\ \E n \in 0 .. MaxPriority :
       n # task[i].priority /\ task' = [task EXCEPT ![i].priority = n]
  /\ Goto(i, "syscall")
  /\ UNCHANGED <<wpid, current, last_pid>>

SysNice(i) ==
  /\ On(i, "user") /\ i \in Tuning
  /\ \E n \in 1 .. MaxPriority :
       n # task[i].priority /\ task' = [task EXCEPT ![i].priority = n]
  /\ Goto(i, "syscall")
  /\ UNCHANGED <<wpid, current, last_pid>>

SysKill(i) ==
  /\ On(i, "user")
  /\ \E D \in SUBSET Used(task), s \in Sig \ {SIGCHLD, SIGALRM} : task' = Send(task, D, s)
  /\ Goto(i, "syscall")
  /\ UNCHANGED <<wpid, current, last_pid>>

(* find_empty_process(): the next pid no task has, then the lowest empty     *)
(* entry.  copy_process() fails when memory is short.                        *)
PidsUsed == {task[j].pid : j \in Used(task)}
After(k) == ((last_pid + k - 1) % MaxPid) + 1
\* Mutant: the pid is not looked for in the table.
NextPidAny(p) == p = After(1)

NextPid(p) == \E k \in 1 .. MaxPid :
  p = After(k) /\ p \notin PidsUsed /\ \A m \in 1 .. k - 1 : After(m) \in PidsUsed

Child(i, p) ==
  [task[i] EXCEPT !.state = "RUNNING", !.pid = p, !.father = task[i].pid,
                  !.counter = task[i].priority, !.signal = {}, !.alarm = 0]

SysFork(i) ==
  /\ ReusePids \/ last_pid < MaxPid
  /\ On(i, "user")
  /\ \E p \in Pid :
       /\ NextPid(p)
       /\ last_pid' = p
       /\ \/ \E n \in Slot \ Used(task) :
               /\ \A m \in Slot \ Used(task) : n <= m
               /\ task' = [task EXCEPT ![n] = Child(i, p)]
               /\ at' = [at EXCEPT ![i] = "syscall", ![n] = "user"]
          \/ task' = task /\ Goto(i, "syscall")
  /\ UNCHANGED <<wpid, current>>
-----------------------------------------------------------------------------
Step(i) ==
  \/ SysReturn(i) \/ RetToUser(i) \/ RetExit(i) \/ Resume(i) \/ WaitResume(i)
  \/ ExitDone(i)

Syscall(i) ==
  \/ SysExit(i) \/ SysPause(i) \/ SysIo(i) \/ SysAlarm(i) \/ SysNice(i) \/ SysKill(i)
  \/ SysFork(i)
  \/ \E p \in Pid \union {-1} : SysWaitpid(i, p)

Next ==
  \/ Tick
  \/ IdlePause
  \/ \E i \in Slot : Step(i) \/ Syscall(i) \/ ExitSleep(i) \/ IoDone(i)

Spec == Init /\ [][Next]_vars

(* Fairness: the clock ticks, task 0 loops, kernel code runs on, devices     *)
(* answer.  Nothing is assumed of user programs.                             *)
Fairness ==
  /\ WF_vars(Tick)
  /\ WF_vars(IdlePause)
  /\ \A i \in Slot : WF_vars(Step(i)) /\ WF_vars(IoDone(i))

FairSpec == Spec /\ Fairness
-----------------------------------------------------------------------------
(* A pid names one task, a zombie included, although last_pid wraps around   *)
(* and pids are reused (fork.c:125-137).                                     *)
PidsUnique ==
  \A i, j \in Used(task) : task[i].pid = task[j].pid => i = j

(* A father is a task that has not begun to exit, so that SIGCHLD and the    *)
(* child itself find it: never a zombie, an empty entry or a stranger that   *)
(* got the pid later (exit.c:70-72, 84-87).                                  *)
FatherAlive ==
  \A i \in Used(task) : task[i].father # 0 =>
    \E j \in Used(task) \ {i} :
      /\ task[j].pid = task[i].father
      /\ at[j] \notin {"closing", "closed", "dead"}

(* The processor belongs to a task that exists and may run: not to one that  *)
(* was released, became a zombie or went to sleep (sched.c:85-104).          *)
CurrentMayRun ==
  current # 0 => task[current] # NULL /\ task[current].state = "RUNNING"

(* No SIGCHLD is lost between the scan of waitpid and its pause: a father    *)
(* asleep in waitpid with a zombie it waits for has a signal that will wake  *)
(* it (exit.c:105-129, sched.c:75-83).                                       *)
NoZombieOverlooked ==
  \A i \in Used(task) :
    at[i] = "wait" /\ task[i].state = "INTERRUPTIBLE" /\ Zombies(i, wpid[i]) # {}
      => task[i].signal # {}

(* A task waited for is found: waitpid returns once the child is a zombie    *)
(* (exit.c:99-133).                                                          *)
WaitReturns ==
  \A i \in Slot :
    (task[i] # NULL /\ at[i] = "wait" /\ Zombies(i, wpid[i]) # {})
      ~> (task[i] = NULL \/ at[i] # "wait")

(* A runnable task gets the processor (sched.c:85-104, 159-169).             *)
NoStarvation ==
  \A i \in Slot : (task[i] # NULL /\ task[i].state = "RUNNING") ~> (current = i)

(* Every alarm goes off or is replaced, even when all tasks sleep or one     *)
(* never enters the kernel (sched.c:75-80).                                  *)
AlarmFires ==
  \A i \in Slot :
    (task[i] # NULL /\ task[i].alarm = 1) ~> (task[i] = NULL \/ task[i].alarm # 1)
=============================================================================
