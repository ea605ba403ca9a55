----------------------------- MODULE SchedProofs -----------------------------
(***************************************************************************)
(* Proofs about Sched.tla, for any number of tasks, pids, priorities and    *)
(* signals: the type invariant, that pids are unique, that fathers are      *)
(* alive, that the processor belongs to a task that may run, and that no    *)
(* father sleeps over a zombie.                                             *)
(***************************************************************************)
EXTENDS Sched, TLAPS

Table == [Slot -> TaskStruct \union {NULL}]

(* U differs from T in nothing that concerns who is who: the same entries    *)
(* are used, pids and fathers are the same, and so are the zombies.          *)
Kept(T, U) ==
  \A i \in Slot :
    /\ U[i] = NULL <=> T[i] = NULL
    /\ T[i] # NULL => /\ U[i].pid = T[i].pid
                      /\ U[i].father = T[i].father
                      /\ U[i].state = "ZOMBIE" <=> T[i].state = "ZOMBIE"

(* The first loop of schedule(): alarms and wake-ups, nothing else.          *)
LEMMA AlertFacts ==
  ASSUME NEW T \in Table
  PROVE  Alert(T) \in Table /\ Kept(T, Alert(T))
<1>1. ASSUME NEW t \in TaskStruct
      PROVE  /\ Alerted(t) \in TaskStruct
             /\ Alerted(t).pid = t.pid
             /\ Alerted(t).father = t.father
             /\ Alerted(t).state = "ZOMBIE" <=> t.state = "ZOMBIE"
  <2> DEFINE sig == IF t.alarm = 1 THEN t.signal \union {SIGALRM} ELSE t.signal
             alarm == IF t.alarm = 1 THEN 0 ELSE t.alarm
             state == IF sig # {} /\ t.state = "INTERRUPTIBLE" THEN "RUNNING" ELSE t.state
  <2>1. sig \in SUBSET Sig
    BY SchedAssumption DEF TaskStruct
  <2>2. alarm \in 0 .. MaxAlarm + 2
    BY SchedAssumption DEF TaskStruct
  <2>3. state \in State /\ (state = "ZOMBIE" <=> t.state = "ZOMBIE")
    BY DEF TaskStruct, State
  <2>4. Alerted(t) = [t EXCEPT !.signal = sig, !.alarm = alarm, !.state = state]
    BY DEF Alerted
  <2> HIDE DEF sig, alarm, state
  <2> QED
    BY <2>1, <2>2, <2>3, <2>4 DEF TaskStruct
<1>2. \A i \in Slot : T[i] # NULL => T[i] \in TaskStruct
  BY DEF Table
<1> QED
  BY <1>1, <1>2, NullAssumption DEF Alert, Kept, Table

(* Counters stay in 0 .. 2*MaxPriority: c/2 + priority (sched.c:98-102).     *)
LEMMA RefillFacts ==
  ASSUME NEW T \in Table
  PROVE  Refill(T) \in Table /\ Kept(T, Refill(T))
<1> USE SchedAssumption, NullAssumption DEF Table, TaskStruct, State
<1>1. ASSUME NEW t \in TaskStruct
      PROVE  [t EXCEPT !.counter = t.counter \div 2 + t.priority] \in TaskStruct
  <2>1. t.counter \div 2 \in 0 .. MaxPriority
    OBVIOUS
  <2> QED
    BY <2>1
<1>2. Recharge(T) \in Table /\ Kept(T, Recharge(T))
  BY <1>1 DEF Recharge, Kept
<1> QED
  BY <1>2 DEF Refill, Kept

(* schedule() ends with a task that may run, and keeps who is who.           *)
LEMMA ScheduleFacts ==
  ASSUME NEW T \in Table, Schedule(T)
  PROVE  /\ task' \in Table
         /\ Kept(T, task')
         /\ current' \in 0 .. NrTasks - 1
         /\ CurrentMayRun'
<1>1. task' \in Table /\ Kept(T, task')
  BY AlertFacts, RefillFacts DEF Schedule, Kept
<1>2. current' \in Running(task') \/ current' = 0
  BY DEF Schedule, Preferred
<1> QED
  BY <1>1, <1>2, SchedAssumption DEF Running, Used, Slot, CurrentMayRun

-----------------------------------------------------------------------------
(* What the small changes to the table do.                                   *)
LEMMA SetStateFacts ==
  ASSUME NEW T \in Table, NEW i \in Slot, T[i] # NULL, NEW s \in State
  PROVE  /\ SetState(T, i, s) \in Table
         /\ SetState(T, i, s)[i].state = s
         /\ SetState(T, i, s)[i] # NULL
         /\ T[i].state # "ZOMBIE" /\ s # "ZOMBIE" => Kept(T, SetState(T, i, s))
<1>1. T[i] \in TaskStruct
  BY DEF Table
<1>2. [T[i] EXCEPT !.state = s] \in TaskStruct
  BY <1>1 DEF TaskStruct
<1>3. SetState(T, i, s) = [T EXCEPT ![i] = [T[i] EXCEPT !.state = s]]
  BY DEF SetState, Table
<1>4. SetState(T, i, s) \in Table
  BY <1>2, <1>3 DEF Table
<1> QED
  BY <1>1, <1>2, <1>3, <1>4, NullAssumption DEF Table, Kept, TaskStruct

(* A tick changes times and counters only.                                   *)
LEMMA ElapsedFacts ==
  ASSUME NEW T \in Table
  PROVE  /\ Elapsed(T) \in Table
         /\ Kept(T, Elapsed(T))
         /\ \A j \in Slot : T[j] # NULL => Elapsed(T)[j].state = T[j].state
<1>1. ASSUME NEW t \in TaskStruct, ~(t.alarm <= 1)
      PROVE  /\ [t EXCEPT !.alarm = @ - 1] \in TaskStruct
             /\ [t EXCEPT !.alarm = @ - 1].pid = t.pid
             /\ [t EXCEPT !.alarm = @ - 1].father = t.father
             /\ [t EXCEPT !.alarm = @ - 1].state = t.state
  <2>1. t.alarm - 1 \in 0 .. MaxAlarm + 2
    BY <1>1, SchedAssumption DEF TaskStruct
  <2> QED
    BY <2>1 DEF TaskStruct
<1>2. \A j \in Slot : T[j] # NULL => T[j] \in TaskStruct
  BY DEF Table
<1> QED
  BY <1>1, <1>2, NullAssumption DEF Elapsed, Kept, Table

(* So does charging the running task for it.                                 *)
LEMMA ChargedFacts ==
  ASSUME NEW T \in Table, NEW i \in Slot, T[i] # NULL
  PROVE  /\ Charged(T, i) \in Table
         /\ Kept(T, Charged(T, i))
         /\ \A j \in Slot : T[j] # NULL => Charged(T, i)[j].state = T[j].state
<1> DEFINE c == IF T[i].counter > 0 THEN T[i].counter - 1 ELSE 0
<1>1. T[i] \in TaskStruct
  BY DEF Table
<1>2. c \in 0 .. 2 * MaxPriority
  BY <1>1, SchedAssumption DEF TaskStruct
<1>3. Charged(T, i) = [T EXCEPT ![i] = [T[i] EXCEPT !.counter = c]]
  BY DEF Charged, Table
<1> HIDE DEF c
<1>4. [T[i] EXCEPT !.counter = c] \in TaskStruct
  BY <1>1, <1>2 DEF TaskStruct
<1>5. Charged(T, i) \in Table
  BY <1>3, <1>4 DEF Table
<1> QED
  BY <1>1, <1>3, <1>4, <1>5, NullAssumption DEF Table, Kept, TaskStruct

(* Setting the signals of a task changes nobody's state.                     *)
LEMMA SignalFacts ==
  ASSUME NEW T \in Table, NEW i \in Slot, T[i] # NULL, NEW S \in SUBSET Sig
  PROVE  /\ SetSignal(T, i, S) \in Table
         /\ Kept(T, SetSignal(T, i, S))
         /\ \A j \in Slot : T[j] # NULL => SetSignal(T, i, S)[j].state = T[j].state
<1>1. T[i] \in TaskStruct
  BY DEF Table
<1>2. SetSignal(T, i, S) = [T EXCEPT ![i] = [T[i] EXCEPT !.signal = S]]
  BY DEF SetSignal, Table
<1>3. [T[i] EXCEPT !.signal = S] \in TaskStruct
  BY <1>1 DEF TaskStruct
<1>4. SetSignal(T, i, S) \in Table
  BY <1>2, <1>3 DEF Table
<1> QED
  BY <1>1, <1>2, <1>3, <1>4, NullAssumption DEF Table, Kept, TaskStruct

(* Neither does sending one to several tasks.                                *)
LEMMA SendFacts ==
  ASSUME NEW T \in Table, NEW D \in SUBSET Slot, \A j \in D : T[j] # NULL, NEW s \in Sig
  PROVE  /\ Send(T, D, s) \in Table
         /\ Kept(T, Send(T, D, s))
         /\ \A j \in Slot : T[j] # NULL => Send(T, D, s)[j].state = T[j].state
<1>1. ASSUME NEW t \in TaskStruct
      PROVE  /\ [t EXCEPT !.signal = @ \union {s}] \in TaskStruct
             /\ [t EXCEPT !.signal = @ \union {s}].pid = t.pid
             /\ [t EXCEPT !.signal = @ \union {s}].father = t.father
             /\ [t EXCEPT !.signal = @ \union {s}].state = t.state
  <2>1. t.signal \union {s} \in SUBSET Sig
    BY DEF TaskStruct
  <2> QED
    BY <2>1 DEF TaskStruct
<1>2. \A j \in Slot : T[j] # NULL => T[j] \in TaskStruct
  BY DEF Table
<1> QED
  BY <1>1, <1>2, NullAssumption DEF Send, Kept, Table

(* Children lose their father, and that is all.                              *)
LEMMA OrphanFacts ==
  ASSUME NEW T \in Table, NEW p \in Pid
  PROVE  /\ Orphan(T, p) \in Table
         /\ \A j \in Slot :
              /\ Orphan(T, p)[j] = NULL <=> T[j] = NULL
              /\ T[j] # NULL => /\ Orphan(T, p)[j].pid = T[j].pid
                                /\ Orphan(T, p)[j].state = T[j].state
                                /\ Orphan(T, p)[j].father \in {0, T[j].father} \ {p}
<1>1. ASSUME NEW t \in TaskStruct
      PROVE  /\ [t EXCEPT !.father = 0] \in TaskStruct
             /\ [t EXCEPT !.father = 0].pid = t.pid
             /\ [t EXCEPT !.father = 0].state = t.state
             /\ [t EXCEPT !.father = 0].father = 0
  BY SchedAssumption DEF TaskStruct
<1>2. \A j \in Slot : T[j] # NULL => T[j] \in TaskStruct
  BY DEF Table
<1>3. p # 0
  BY DEF Pid
<1> QED
  BY <1>1, <1>2, <1>3, NullAssumption DEF Orphan, Table

-----------------------------------------------------------------------------
(* The inductive invariant.  PidsUnique and FatherAlive need each other, and *)
(* both need to know that a task is a zombie exactly when it stopped in the  *)
(* last schedule() of do_exit: then a released entry was nobody's father.    *)
Leaving == {"closing", "closed", "dead"}

DeadAreZombies ==
  \A i \in Used(task) : task[i].state = "ZOMBIE" <=> at[i] = "dead"

Ids == PidsUnique /\ FatherAlive /\ DeadAreZombies

IInv == TypeOK /\ CurrentMayRun /\ Ids

(* A step that leaves identities alone and starts no exit keeps Ids.         *)
LEMMA KeptIds ==
  ASSUME TypeOK, Ids, Kept(task, task'),
         \A j \in Slot : at'[j] = at[j] \/ (at[j] \notin Leaving /\ at'[j] \notin Leaving)
  PROVE  Ids'
<1> USE DEF Ids, Kept, Used, Leaving
<1>1. PidsUnique'
  BY DEF PidsUnique
<1>2. FatherAlive'
  BY DEF FatherAlive
<1>3. DeadAreZombies'
  BY DEF DeadAreZombies
<1> QED
  BY <1>1, <1>2, <1>3

(* The running task is no zombie and not at the end of do_exit.              *)
LEMMA OnFacts ==
  ASSUME IInv, NEW i \in Slot, current = i
  PROVE  /\ task[i] # NULL /\ task[i] \in TaskStruct
         /\ task[i].state = "RUNNING"
         /\ at[i] # "dead"
BY DEF IInv, TypeOK, CurrentMayRun, Ids, DeadAreZombies, Used, Slot

(* The usual step: the table changes without consequence for the identities, *)
(* the running task moves on, perhaps through schedule().                    *)
LEMMA QuietSchedule ==
  ASSUME IInv, NEW i \in Slot, NEW p \in Place \ Leaving, NEW T \in Table,
         current = i, at[i] \notin Leaving, Goto(i, p), Kept(task, T), Schedule(T),
         wpid' \in [Slot -> Pid \union {-1}], last_pid' = last_pid
  PROVE  IInv'
<1>1. task' \in Table /\ Kept(T, task') /\ current' \in 0 .. NrTasks - 1 /\ CurrentMayRun'
  BY ScheduleFacts
<1>2. Kept(task, task')
  BY <1>1 DEF Kept
<1>3. at' \in [Slot -> Place] /\ \A j \in Slot : at'[j] = IF j = i THEN p ELSE at[j]
  BY DEF IInv, TypeOK, Goto
<1>4. Ids'
  BY <1>2, <1>3, KeptIds DEF IInv
<1> QED
  BY <1>1, <1>3, <1>4 DEF IInv, TypeOK, Table

(* A step that calls no schedule(), makes no zombie and ends nobody.         *)
LEMMA QuietStay ==
  ASSUME IInv, task' \in Table, Kept(task, task'), UNCHANGED <<current, last_pid>>,
         current # 0 => task'[current].state = task[current].state,
         wpid' \in [Slot -> Pid \union {-1}],
         at' \in [Slot -> Place],
         \A j \in Slot : at'[j] = at[j] \/ (at[j] \notin Leaving /\ at'[j] \notin Leaving)
  PROVE  IInv'
<1>1. Ids'
  BY KeptIds DEF IInv
<1>2. current # 0 => current \in Slot
  BY SchedAssumption DEF IInv, TypeOK, Slot
<1>3. CurrentMayRun'
  BY <1>2 DEF CurrentMayRun, Kept, IInv
<1> QED
  BY <1>1, <1>3 DEF IInv, TypeOK, Table

-----------------------------------------------------------------------------
(* The clock and task 0 (sched.c:159-169).                                   *)
LEMMA TickStep == IInv /\ Tick => IInv'
<1> SUFFICES ASSUME IInv, Tick PROVE IInv'
  OBVIOUS
<1>1. task \in Table /\ wpid \in [Slot -> Pid \union {-1}] /\ at \in [Slot -> Place]
  BY DEF IInv, TypeOK, Table
<1>2. Elapsed(task) \in Table /\ Kept(task, Elapsed(task))
      /\ \A j \in Slot : task[j] # NULL => Elapsed(task)[j].state = task[j].state
  BY <1>1, ElapsedFacts
<1>3. CASE TickIdle
  BY <1>1, <1>2, <1>3, QuietStay DEF TickIdle
<1>4. ASSUME NEW i \in Slot, task[i] # NULL
      PROVE  /\ Charged(Elapsed(task), i) \in Table
             /\ Kept(task, Charged(Elapsed(task), i))
             /\ Charged(Elapsed(task), i)[i].state = task[i].state
  <2>1. Elapsed(task)[i] # NULL
    BY <1>2, <1>4 DEF Kept
  <2> QED
    BY <1>2, <1>4, <2>1, ChargedFacts DEF Kept
<1>5. ASSUME NEW i \in Slot, TickUser(i) PROVE IInv'
  <2>1. current = i /\ task[i] # NULL /\ at[i] = "user" /\ Goto(i, "ret")
        /\ UNCHANGED <<wpid, last_pid>>
    BY <1>5 DEF TickUser, On
  <2>2. "ret" \in Place \ Leaving /\ at[i] \notin Leaving
    BY <2>1 DEF Place, Leaving
  <2>3. CASE Schedule(Charged(Elapsed(task), i))
    BY <1>1, <1>4, <2>1, <2>2, <2>3, QuietSchedule
  <2>4. CASE task' = Charged(Elapsed(task), i) /\ UNCHANGED current
    <3>1. /\ at' \in [Slot -> Place]
          /\ \A j \in Slot : j # i => at'[j] = at[j]
          /\ at'[i] = "ret"
      BY <1>1, <2>1, <2>2 DEF Goto
    <3>2. task' \in Table /\ Kept(task, task') /\ task'[current].state = task[current].state
      BY <1>4, <2>1, <2>4
    <3>3. \A j \in Slot : at'[j] = at[j] \/ (at[j] \notin Leaving /\ at'[j] \notin Leaving)
      BY <2>1, <3>1 DEF Leaving
    <3>4. wpid' \in [Slot -> Pid \union {-1}]
      BY <1>1, <2>1
    <3> QED
      BY <2>1, <2>4, <3>1, <3>2, <3>3, <3>4, QuietStay
  <2> QED
    BY <1>5, <2>3, <2>4 DEF TickUser
<1>6. ASSUME NEW i \in Slot, TickKernel(i) PROVE IInv'
  BY <1>1, <1>4, <1>6, QuietStay DEF TickKernel
<1> QED
  BY <1>3, <1>5, <1>6 DEF Tick

(* pause() of the idle task.                                                 *)
LEMMA IdleStep == IInv /\ IdlePause => IInv'
<1> SUFFICES ASSUME IInv, IdlePause PROVE IInv'
  OBVIOUS
<1>1. task \in Table
  BY DEF IInv, TypeOK, Table
<1>2. task' \in Table /\ Kept(task, task') /\ current' \in 0 .. NrTasks - 1 /\ CurrentMayRun'
  BY <1>1, ScheduleFacts DEF IdlePause
<1>3. Ids'
  BY <1>2, KeptIds DEF IInv, IdlePause
<1> QED
  BY <1>2, <1>3 DEF IInv, TypeOK, Table, IdlePause

(* The way back to user mode (system_call.s:77-142).                         *)
LEMMA ReturnStep ==
  ASSUME IInv, NEW i \in Slot, SysReturn(i) \/ RetToUser(i) \/ Resume(i)
  PROVE  IInv'
<1>1. task \in Table /\ wpid \in [Slot -> Pid \union {-1}] /\ at \in [Slot -> Place]
      /\ current = i
  BY DEF IInv, TypeOK, Table, SysReturn, RetToUser, Resume, On
<1>2. task[i] # NULL /\ task[i] \in TaskStruct
  BY <1>1, OnFacts
<1>3. ASSUME NEW p \in Place \ Leaving, Goto(i, p), at[i] \notin Leaving
      PROVE  /\ at' \in [Slot -> Place]
             /\ \A j \in Slot : at'[j] = at[j] \/ (at[j] \notin Leaving /\ at'[j] \notin Leaving)
  BY <1>1, <1>3 DEF Goto
<1>4. Kept(task, task)
  BY DEF Kept
<1>5. CASE SysReturn(i)
  <2>1. Goto(i, "ret") /\ at[i] \notin Leaving /\ "ret" \in Place \ Leaving
    BY <1>5 DEF SysReturn, On, Leaving, Place
  <2>2. CASE Schedule(task)
    BY <1>1, <1>4, <1>5, <2>1, <2>2, QuietSchedule DEF SysReturn
  <2>3. CASE UNCHANGED <<task, current>>
    BY <1>1, <1>3, <1>4, <1>5, <2>1, <2>3, QuietStay DEF SysReturn
  <2> QED
    BY <1>5, <2>2, <2>3 DEF SysReturn
<1>6. CASE RetToUser(i)
  <2>1. Goto(i, "user") /\ at[i] \notin Leaving /\ "user" \in Place \ Leaving
    BY <1>6 DEF RetToUser, On, Leaving, Place
  <2>2. PICK S \in SUBSET Sig : task' = SetSignal(task, i, S)
    <3>1. task[i].signal \in SUBSET Sig
      BY <1>2 DEF TaskStruct
    <3> QED
      BY <1>6, <3>1 DEF RetToUser, From
  <2>3. task' \in Table /\ Kept(task, task') /\ task'[current].state = task[current].state
    BY <1>1, <1>2, <2>2, SignalFacts
  <2>4. UNCHANGED <<wpid, current, last_pid>>
    BY <1>6 DEF RetToUser
  <2> QED
    BY <1>1, <1>3, <2>1, <2>3, <2>4, QuietStay
<1>7. CASE Resume(i)
  <2>1. Goto(i, "syscall") /\ at[i] \notin Leaving /\ "syscall" \in Place \ Leaving
    BY <1>7 DEF Resume, On, Leaving, Place
  <2> QED
    BY <1>1, <1>3, <1>4, <1>7, <2>1, QuietStay DEF Resume
<1> QED
  BY <1>5, <1>6, <1>7

-----------------------------------------------------------------------------
(* do_exit: the caller stops being a father before it starts to leave        *)
(* (exit.c:70-72).                                                           *)
LEMMA DoExitStep ==
  ASSUME IInv, NEW i \in Slot, NEW T \in Table, current = i, at[i] \notin Leaving,
         Kept(task, T), T[i].state = task[i].state, DoExit(i, T)
  PROVE  IInv'
<1>1. /\ task \in Table /\ wpid \in [Slot -> Pid \union {-1}] /\ at \in [Slot -> Place]
      /\ task[i] # NULL /\ task[i] \in TaskStruct /\ task[i].state = "RUNNING"
  BY OnFacts DEF IInv, TypeOK, Table
<1>2. T[i] # NULL /\ T[i].pid = task[i].pid /\ T[i].pid \in Pid
  BY <1>1 DEF Kept, TaskStruct
<1>3. /\ task' \in Table
      /\ \A j \in Slot :
           /\ task'[j] = NULL <=> task[j] = NULL
           /\ task[j] # NULL => /\ task'[j].pid = task[j].pid
                                /\ task'[j].state = "ZOMBIE" <=> task[j].state = "ZOMBIE"
                                /\ task'[j].father \in {0, task[j].father} \ {task[i].pid}
      /\ task'[i].state = "RUNNING"
  <2>1. /\ task' \in Table
        /\ \A j \in Slot :
             /\ task'[j] = NULL <=> T[j] = NULL
             /\ T[j] # NULL => /\ task'[j].pid = T[j].pid
                               /\ task'[j].state = T[j].state
                               /\ task'[j].father \in {0, T[j].father} \ {T[i].pid}
    BY <1>2, OrphanFacts DEF DoExit
  <2> QED
    BY <1>1, <1>2, <2>1 DEF Kept
<1>4. /\ at' \in [Slot -> Place]
      /\ at'[i] = "closing"
      /\ \A j \in Slot : j # i => at'[j] = at[j]
      /\ UNCHANGED <<wpid, current, last_pid>>
  BY <1>1 DEF DoExit, Goto, Place
<1>5. PidsUnique'
  BY <1>3 DEF IInv, Ids, PidsUnique, Used
<1>6. FatherAlive'
  BY <1>1, <1>3, <1>4 DEF IInv, Ids, FatherAlive, Used
<1>7. DeadAreZombies'
  BY <1>1, <1>3, <1>4 DEF IInv, Ids, DeadAreZombies, Used
<1>8. CurrentMayRun'
  BY <1>1, <1>3, <1>4 DEF CurrentMayRun
<1> QED
  BY <1>3, <1>4, <1>5, <1>6, <1>7, <1>8 DEF IInv, Ids, TypeOK, Table

(* do_exit() up to where it may sleep.                                       *)
LEMMA ExitCallStep == ASSUME IInv, NEW i \in Slot, SysExit(i) \/ RetExit(i) PROVE IInv'
<1>1. task \in Table /\ current = i /\ at[i] \notin Leaving
  BY DEF IInv, TypeOK, Table, SysExit, RetExit, On, Leaving
<1>2. task[i] # NULL /\ task[i] \in TaskStruct
  BY <1>1, OnFacts
<1>3. CASE SysExit(i)
  BY <1>1, <1>3, DoExitStep DEF SysExit, Kept
<1>4. CASE RetExit(i)
  <2>1. PICK s \in task[i].signal : DoExit(i, SetSignal(task, i, From(s, task[i].signal) \ {s}))
    BY <1>4 DEF RetExit
  <2>2. From(s, task[i].signal) \ {s} \in SUBSET Sig
    BY <1>2 DEF TaskStruct, From
  <2> QED
    BY <1>1, <1>2, <2>1, <2>2, SignalFacts, DoExitStep
<1> QED
  BY <1>3, <1>4

(* It sleeps while it closes files.                                          *)
LEMMA ExitSleepStep == ASSUME IInv, NEW i \in Slot, ExitSleep(i) PROVE IInv'
<1> DEFINE T == SetState(task, i, "UNINTERRUPTIBLE")
<1>1. task \in Table /\ current = i /\ at[i] = "closing" /\ at \in [Slot -> Place]
  BY DEF IInv, TypeOK, Table, ExitSleep, On
<1>2. task[i] # NULL /\ task[i].state = "RUNNING"
  BY <1>1, OnFacts
<1>3. T \in Table /\ Kept(task, T)
  BY <1>1, <1>2, SetStateFacts DEF State
<1>4. task' \in Table /\ Kept(T, task') /\ current' \in 0 .. NrTasks - 1 /\ CurrentMayRun'
  BY <1>3, ScheduleFacts DEF ExitSleep
<1>5. Kept(task, task')
  BY <1>3, <1>4 DEF Kept
<1>6. /\ at' \in [Slot -> Place]
      /\ at'[i] = "closed"
      /\ \A j \in Slot : j # i => at'[j] = at[j]
  BY <1>1 DEF ExitSleep, Goto, Place
<1>7. PidsUnique'
  BY <1>5 DEF IInv, Ids, PidsUnique, Used, Kept
<1>8. FatherAlive'
  BY <1>1, <1>5, <1>6 DEF IInv, Ids, FatherAlive, Used, Kept
<1>9. DeadAreZombies'
  BY <1>1, <1>5, <1>6 DEF IInv, Ids, DeadAreZombies, Used, Kept
<1> QED
  BY <1>4, <1>6, <1>7, <1>8, <1>9 DEF IInv, Ids, TypeOK, Table, ExitSleep

(* An entry nobody has as father may be freed.                               *)
LEMMA FreeIds ==
  ASSUME IInv, NEW i \in Slot, NEW U, task[i] # NULL, at[i] \in Leaving,
         Kept(Free(task, i), U), task' = U,
         at' \in [Slot -> Place],
         \A j \in Slot \ {i} : at'[j] = at[j] \/ (at[j] \notin Leaving /\ at'[j] \notin Leaving)
  PROVE  Ids'
<1>1. task \in Table
  BY DEF IInv, TypeOK, Table
<1>2. /\ task'[i] = NULL
      /\ \A j \in Slot \ {i} :
           /\ task'[j] = NULL <=> task[j] = NULL
           /\ task[j] # NULL => /\ task'[j].pid = task[j].pid
                                /\ task'[j].father = task[j].father
                                /\ task'[j].state = "ZOMBIE" <=> task[j].state = "ZOMBIE"
  BY <1>1 DEF Free, Kept, Table
<1> HIDE DEF Kept
<1>3. PidsUnique'
  BY <1>2 DEF IInv, Ids, PidsUnique, Used
<1>4. FatherAlive'
  BY <1>2 DEF IInv, Ids, FatherAlive, Used, Leaving
<1>5. DeadAreZombies'
  BY <1>2 DEF IInv, Ids, DeadAreZombies, Used, Leaving
<1> QED
  BY <1>3, <1>4, <1>5 DEF Ids

(* release() empties one entry of task[].                                    *)
LEMMA FreeFacts ==
  ASSUME NEW T \in Table, NEW i \in Slot
  PROVE  /\ Free(T, i) \in Table
         /\ Free(T, i)[i] = NULL
         /\ \A j \in Slot : j # i => Free(T, i)[j] = T[j]
BY DEF Free, Table

(* The end of do_exit: the zombie and its SIGCHLD, or no task (exit.c:84-90). *)
LEMMA ExitDoneStep == ASSUME IInv, NEW i \in Slot, ExitDone(i) PROVE IInv'
<1>1. /\ task \in Table /\ at \in [Slot -> Place]
      /\ current = i /\ at[i] \in {"closing", "closed"}
      /\ UNCHANGED <<wpid, last_pid>>
  BY DEF IInv, TypeOK, Table, ExitDone, On
<1>2. task[i] # NULL /\ task[i] \in TaskStruct /\ task[i].state = "RUNNING"
  BY <1>1, OnFacts
<1>3. /\ at' \in [Slot -> Place]
      /\ at'[i] = "dead"
      /\ \A j \in Slot : j # i => at'[j] = at[j]
  BY <1>1 DEF ExitDone, Goto, Place
<1>4. CASE task[i].father # 0
  <2> DEFINE Z == SetState(task, i, "ZOMBIE")
             T == Send(Z, WithPid(task, task[i].father), SIGCHLD)
  <2>1. /\ Z \in Table
        /\ Z[i].state = "ZOMBIE" /\ Z[i] # NULL
        /\ Z[i].pid = task[i].pid /\ Z[i].father = task[i].father
        /\ \A j \in Slot : j # i => Z[j] = task[j]
    <3>1. Z \in Table /\ Z[i].state = "ZOMBIE" /\ Z[i] # NULL
      BY <1>1, <1>2, SetStateFacts DEF State
    <3> QED
      BY <1>1, <1>2, <3>1 DEF SetState, Table, TaskStruct
  <2>2. T \in Table /\ Kept(Z, T)
    <3>1. WithPid(task, task[i].father) \in SUBSET Slot
          /\ \A j \in WithPid(task, task[i].father) : Z[j] # NULL
      BY <2>1 DEF WithPid, Used
    <3> HIDE DEF Z
    <3> QED
      BY <2>1, <3>1, SendFacts, SchedAssumption
  <2>3. Schedule(T)
    BY <1>4 DEF ExitDone
  <2>4. task' \in Table /\ Kept(T, task') /\ current' \in 0 .. NrTasks - 1 /\ CurrentMayRun'
    BY <2>2, <2>3, ScheduleFacts
  <2> HIDE DEF T, Z
  <2>5. /\ \A j \in Slot :
             /\ task'[j] = NULL <=> task[j] = NULL
             /\ task[j] # NULL => /\ task'[j].pid = task[j].pid
                                  /\ task'[j].father = task[j].father
        /\ task'[i].state = "ZOMBIE"
        /\ \A j \in Slot : j # i /\ task[j] # NULL =>
             (task'[j].state = "ZOMBIE" <=> task[j].state = "ZOMBIE")
    BY <1>2, <2>1, <2>2, <2>4 DEF Kept
  <2>6. PidsUnique'
    BY <2>5 DEF IInv, Ids, PidsUnique, Used
  <2>7. FatherAlive'
    BY <1>1, <1>3, <2>5 DEF IInv, Ids, FatherAlive, Used
  <2>8. DeadAreZombies'
    BY <1>3, <2>5 DEF IInv, Ids, DeadAreZombies, Used
  <2> QED
    BY <1>1, <1>3, <2>4, <2>6, <2>7, <2>8 DEF IInv, Ids, TypeOK, Table
<1>5. CASE task[i].father = 0
  <2>1. Schedule(Free(task, i))
    BY <1>5 DEF ExitDone
  <2>2. /\ task' \in Table /\ Kept(Free(task, i), task')
        /\ current' \in 0 .. NrTasks - 1 /\ CurrentMayRun'
    BY <1>1, <2>1, FreeFacts, ScheduleFacts
  <2>3. Ids'
    BY <1>1, <1>2, <1>3, <2>2, FreeIds DEF Leaving
  <2> QED
    BY <1>1, <1>3, <2>2, <2>3 DEF IInv, TypeOK, Table
<1> QED
  BY <1>4, <1>5

(* A pass of waitpid: a zombie is released, or the caller pauses or returns  *)
(* (exit.c:105-132).                                                         *)
LEMMA WaitPassStep ==
  ASSUME IInv, NEW i \in Slot, NEW T \in Table, NEW p, NEW nohang \in BOOLEAN,
         current = i, at[i] \notin Leaving, Kept(task, T), T[i].state = "RUNNING",
         WaitPass(i, T, p, nohang), last_pid' = last_pid,
         wpid' \in [Slot -> Pid \union {-1}]
  PROVE  IInv'
<1>1. task \in Table /\ at \in [Slot -> Place] /\ task[i] # NULL /\ task[i].state = "RUNNING"
  BY OnFacts DEF IInv, TypeOK, Table
<1>2. T[i] # NULL
  BY <1>1 DEF Kept
<1>3. ASSUME NEW z \in Zombies(i, p), Goto(i, "reaped"), Schedule(Free(T, z)) PROVE IInv'
  <2>1. z \in Slot /\ z # i /\ task[z] # NULL /\ at[z] = "dead"
    BY DEF Zombies, Children, Used, IInv, Ids, DeadAreZombies
  <2>2. /\ task' \in Table /\ Kept(Free(T, z), task')
        /\ current' \in 0 .. NrTasks - 1 /\ CurrentMayRun'
    BY <1>3, <2>1, FreeFacts, ScheduleFacts
  <2>3. Kept(Free(task, z), Free(T, z))
    <3>1. /\ Free(task, z)[z] = NULL /\ Free(T, z)[z] = NULL
          /\ \A j \in Slot : j # z => Free(task, z)[j] = task[j] /\ Free(T, z)[j] = T[j]
      BY <1>1, <2>1, FreeFacts
    <3> QED
      BY <3>1 DEF Kept
  <2>4. Kept(Free(task, z), task')
    BY <2>2, <2>3 DEF Kept
  <2>5. /\ at' \in [Slot -> Place]
        /\ \A j \in Slot : at'[j] = IF j = i THEN "reaped" ELSE at[j]
    BY <1>1, <1>3 DEF Goto, Place
  <2>6. Ids'
    BY <2>1, <2>4, <2>5, FreeIds DEF Leaving
  <2> QED
    BY <2>2, <2>5, <2>6 DEF IInv, TypeOK, Table
<1>4. CASE Goto(i, "wait") /\ Schedule(SetState(T, i, "INTERRUPTIBLE"))
  <2>1. SetState(T, i, "INTERRUPTIBLE") \in Table /\ Kept(T, SetState(T, i, "INTERRUPTIBLE"))
    BY <1>2, SetStateFacts DEF State
  <2>2. Kept(task, SetState(T, i, "INTERRUPTIBLE"))
    BY <2>1 DEF Kept
  <2>3. "wait" \in Place \ Leaving
    BY DEF Place, Leaving
  <2> QED
    BY <1>4, <2>1, <2>2, <2>3, QuietSchedule
<1>5. CASE Goto(i, "syscall") /\ task' = T /\ UNCHANGED current
  <2>1. /\ at' \in [Slot -> Place]
        /\ \A j \in Slot : at'[j] = IF j = i THEN "syscall" ELSE at[j]
    BY <1>1, <1>5 DEF Goto, Place
  <2>2. \A j \in Slot : at'[j] = at[j] \/ (at[j] \notin Leaving /\ at'[j] \notin Leaving)
    BY <2>1 DEF Leaving
  <2>3. task' \in Table /\ Kept(task, task') /\ task'[current].state = task[current].state
    BY <1>1, <1>5
  <2> QED
    BY <1>5, <2>1, <2>2, <2>3, QuietStay
<1> QED
  BY <1>3, <1>4, <1>5 DEF WaitPass

(* sys_waitpid(), from the call or after its sleep.                          *)
LEMMA WaitStep ==
  ASSUME IInv, NEW i \in Slot, NEW p \in Pid \union {-1}, SysWaitpid(i, p) \/ WaitResume(i)
  PROVE  IInv'
<1>1. /\ task \in Table /\ wpid \in [Slot -> Pid \union {-1}] /\ at \in [Slot -> Place]
      /\ current = i /\ at[i] \notin Leaving /\ last_pid' = last_pid
  BY DEF IInv, TypeOK, Table, SysWaitpid, WaitResume, On, Leaving
<1>2. task[i] # NULL /\ task[i] \in TaskStruct /\ task[i].state = "RUNNING"
  BY <1>1, OnFacts
<1>3. wpid' \in [Slot -> Pid \union {-1}]
  BY <1>1 DEF SysWaitpid, WaitResume
<1>4. CASE SysWaitpid(i, p)
  BY <1>1, <1>2, <1>3, <1>4, WaitPassStep DEF SysWaitpid, Kept
<1>5. CASE WaitResume(i)
  <2> DEFINE T == SetSignal(task, i, task[i].signal \ {SIGCHLD})
  <2>1. task[i].signal \ {SIGCHLD} \in SUBSET Sig
    BY <1>2 DEF TaskStruct
  <2>2. T \in Table /\ Kept(task, T) /\ T[i].state = "RUNNING"
    BY <1>1, <1>2, <2>1, SignalFacts
  <2>3. CASE WaitPass(i, T, wpid[i], FALSE)
    <3> HIDE DEF T
    <3> QED
      BY <1>1, <1>3, <2>2, <2>3, WaitPassStep
  <2>4. CASE task' = T /\ Goto(i, "syscall") /\ UNCHANGED current
    <3>1. /\ at' \in [Slot -> Place]
          /\ \A j \in Slot : at'[j] = IF j = i THEN "syscall" ELSE at[j]
      BY <1>1, <2>4 DEF Goto, Place
    <3>2. \A j \in Slot : at'[j] = at[j] \/ (at[j] \notin Leaving /\ at'[j] \notin Leaving)
      BY <1>1, <3>1 DEF Leaving
    <3> HIDE DEF T
    <3> QED
      BY <1>1, <1>2, <1>3, <2>2, <2>4, <3>1, <3>2, QuietStay
  <2> QED
    BY <1>5, <2>3, <2>4 DEF WaitResume
<1> QED
  BY <1>4, <1>5

(* The other system calls, and the answer of a device.                       *)
LEMMA SleepStep ==
  ASSUME IInv, NEW i \in Slot, SysPause(i) \/ SysIo(i)
  PROVE  IInv'
<1>1. /\ task \in Table /\ wpid' \in [Slot -> Pid \union {-1}] /\ last_pid' = last_pid
      /\ current = i /\ at[i] \notin Leaving
  BY DEF IInv, TypeOK, Table, SysPause, SysIo, On, Leaving
<1>2. task[i] # NULL /\ task[i].state = "RUNNING"
  BY <1>1, OnFacts
<1>3. ASSUME NEW s \in {"INTERRUPTIBLE", "UNINTERRUPTIBLE"}, NEW p \in {"pause", "io"},
             Goto(i, p), Schedule(SetState(task, i, s))
      PROVE  IInv'
  <2>1. SetState(task, i, s) \in Table /\ Kept(task, SetState(task, i, s))
    BY <1>1, <1>2, SetStateFacts DEF State
  <2>2. p \in Place \ Leaving
    BY DEF Place, Leaving
  <2> QED
    BY <1>1, <1>3, <2>1, <2>2, QuietSchedule
<1> QED
  BY <1>3 DEF SysPause, SysIo

(* A device wakes a sleeper.                                                 *)
LEMMA IoDoneStep == ASSUME IInv, NEW i \in Slot, IoDone(i) PROVE IInv'
<1>1. /\ task \in Table /\ wpid' \in [Slot -> Pid \union {-1}] /\ at' \in [Slot -> Place]
      /\ at' = at /\ UNCHANGED <<current, last_pid>>
  BY DEF IInv, TypeOK, Table, IoDone
<1>2. task[i] # NULL /\ task[i].state = "UNINTERRUPTIBLE" /\ task' = SetState(task, i, "RUNNING")
  BY DEF IoDone
<1>3. task' \in Table /\ Kept(task, task')
  BY <1>1, <1>2, SetStateFacts DEF State
<1>4. current # i
  BY <1>2, OnFacts
<1>5. current # 0 => task'[current].state = task[current].state
  BY <1>1, <1>2, <1>4 DEF SetState, Table
<1> QED
  BY <1>1, <1>3, <1>5, QuietStay

(* Calls that write one field of a task.                                     *)
LEMMA FieldStep ==
  ASSUME IInv, NEW i \in Slot, SysAlarm(i) \/ SysNice(i) \/ SysKill(i)
  PROVE  IInv'
<1>1. /\ task \in Table /\ wpid' \in [Slot -> Pid \union {-1}] /\ UNCHANGED <<current, last_pid>>
      /\ current = i /\ at[i] \notin Leaving /\ at \in [Slot -> Place] /\ Goto(i, "syscall")
  BY DEF IInv, TypeOK, Table, SysAlarm, SysNice, SysKill, On, Leaving
<1>2. task[i] # NULL /\ task[i] \in TaskStruct
  BY <1>1, OnFacts
<1>3. /\ at' \in [Slot -> Place]
      /\ \A j \in Slot : at'[j] = IF j = i THEN "syscall" ELSE at[j]
  BY <1>1 DEF Goto, Place
<1>4. \A j \in Slot : at'[j] = at[j] \/ (at[j] \notin Leaving /\ at'[j] \notin Leaving)
  BY <1>1, <1>3 DEF Leaving
<1>5. ASSUME NEW t \in TaskStruct, task' = [task EXCEPT ![i] = t],
             t.pid = task[i].pid, t.father = task[i].father, t.state = task[i].state
      PROVE  task' \in Table /\ Kept(task, task') /\ task'[i].state = task[i].state
  BY <1>1, <1>2, <1>5, NullAssumption DEF Table, Kept
<1>6. CASE SysAlarm(i)
  <2>1. PICK n \in {0} \union 3 .. MaxAlarm + 2 : task' = [task EXCEPT ![i].alarm = n]
    BY <1>6 DEF SysAlarm
  <2>2. n \in 0 .. MaxAlarm + 2
    BY SchedAssumption
  <2> DEFINE t == [task[i] EXCEPT !.alarm = n]
  <2>3. /\ t \in TaskStruct
        /\ t.pid = task[i].pid /\ t.father = task[i].father /\ t.state = task[i].state
    BY <1>2, <2>2 DEF TaskStruct
  <2>4. task' = [task EXCEPT ![i] = t]
    BY <1>1, <2>1 DEF Table
  <2> HIDE DEF t
  <2> QED
    BY <1>1, <1>3, <1>4, <1>5, <2>3, <2>4, QuietStay
<1>7. CASE SysNice(i)
  <2>1. PICK n \in 1 .. MaxPriority : task' = [task EXCEPT ![i].priority = n]
    BY <1>7 DEF SysNice
  <2> DEFINE t == [task[i] EXCEPT !.priority = n]
  <2>2. /\ t \in TaskStruct
        /\ t.pid = task[i].pid /\ t.father = task[i].father /\ t.state = task[i].state
    BY <1>2 DEF TaskStruct
  <2>3. task' = [task EXCEPT ![i] = t]
    BY <1>1, <2>1 DEF Table
  <2> HIDE DEF t
  <2> QED
    BY <1>1, <1>3, <1>4, <1>5, <2>2, <2>3, QuietStay
<1>8. CASE SysKill(i)
  <2>1. PICK D \in SUBSET Used(task), s \in Sig : task' = Send(task, D, s)
    BY <1>8 DEF SysKill
  <2>2. D \in SUBSET Slot /\ \A j \in D : task[j] # NULL
    BY DEF Used
  <2>3. task' \in Table /\ Kept(task, task') /\ task'[i].state = task[i].state
    BY <1>1, <1>2, <2>1, <2>2, SendFacts
  <2> QED
    BY <1>1, <1>3, <1>4, <2>3, QuietStay
<1> QED
  BY <1>6, <1>7, <1>8

(* fork: the child gets an empty entry and a pid that nobody has, and its    *)
(* father is running (fork.c:71-121, 125-137).                               *)
LEMMA ForkStep == ASSUME IInv, NEW i \in Slot, SysFork(i) PROVE IInv'
<1>1. /\ task \in Table /\ wpid \in [Slot -> Pid \union {-1}] /\ at \in [Slot -> Place]
      /\ UNCHANGED <<wpid, current>> /\ current = i /\ at[i] = "user"
      /\ last_pid' \in 0 .. MaxPid
  BY SchedAssumption DEF IInv, TypeOK, Table, SysFork, On, Pid
<1>2. task[i] # NULL /\ task[i] \in TaskStruct /\ task[i].state = "RUNNING"
  BY <1>1, OnFacts
<1>3. PICK p \in Pid :
        /\ NextPid(p)
        /\ \/ \E n \in Slot \ Used(task) :
                /\ task' = [task EXCEPT ![n] = Child(i, p)]
                /\ at' = [at EXCEPT ![i] = "syscall", ![n] = "user"]
           \/ task' = task /\ Goto(i, "syscall")
  BY DEF SysFork
<1>4. \A j \in Slot : task[j] # NULL => task[j].pid # p
  BY <1>3 DEF NextPid, PidsUsed, Used
<1>5. ASSUME NEW n \in Slot, task[n] = NULL,
             task' = [task EXCEPT ![n] = Child(i, p)],
             at' = [at EXCEPT ![i] = "syscall", ![n] = "user"]
      PROVE  IInv'
  <2>1. /\ Child(i, p) \in TaskStruct
        /\ Child(i, p).pid = p
        /\ Child(i, p).father = task[i].pid
        /\ Child(i, p).state = "RUNNING"
    <3>1. task[i].pid \in 0 .. MaxPid /\ task[i].priority \in 0 .. 2 * MaxPriority
          /\ 0 \in 0 .. MaxAlarm + 2
      BY <1>2, SchedAssumption DEF TaskStruct, Pid
    <3> QED
      BY <1>2, <3>1 DEF Child, TaskStruct, State
  <2>2. n # i
    BY <1>2, <1>5
  <2> DEFINE c == Child(i, p)
  <2>3. /\ task' \in Table
        /\ task'[n] = c
        /\ c # NULL
        /\ \A j \in Slot : j # n => task'[j] = task[j]
    BY <1>1, <1>5, <2>1, NullAssumption DEF Table
  <2>4. /\ at' \in [Slot -> Place]
        /\ at'[i] = "syscall" /\ at'[n] = "user"
        /\ \A j \in Slot : j # n /\ j # i => at'[j] = at[j]
    BY <1>1, <1>5, <2>2 DEF Place
  <2> HIDE DEF c
  <2>5. c.pid = p /\ c.father = task[i].pid /\ c.state = "RUNNING"
    BY <2>1 DEF c
  <2>6. PidsUnique'
    BY <1>4, <2>3, <2>5 DEF IInv, Ids, PidsUnique, Used
  <2>7. FatherAlive'
    <3>1. ASSUME NEW j \in Slot, task'[j] # NULL, task'[j].father # 0
          PROVE  \E k \in Slot \ {j} :
                   task'[k] # NULL /\ task'[k].pid = task'[j].father
                   /\ at'[k] \notin {"closing", "closed", "dead"}
      <4>1. CASE j = n
        BY <1>2, <2>2, <2>3, <2>4, <2>5, <4>1
      <4>2. CASE j # n
        <5>1. task[j] # NULL /\ task[j].father # 0 /\ task'[j].father = task[j].father
          BY <2>3, <3>1, <4>2
        <5>2. PICK k \in Slot \ {j} :
                task[k] # NULL /\ task[k].pid = task[j].father
                /\ at[k] \notin {"closing", "closed", "dead"}
          BY <5>1 DEF IInv, Ids, FatherAlive, Used
        <5>3. k # n /\ task'[k] = task[k] /\ at'[k] \notin {"closing", "closed", "dead"}
          BY <1>5, <2>3, <2>4, <5>2
        <5> QED
          BY <5>1, <5>2, <5>3
      <4> QED
        BY <4>1, <4>2
    <3> QED
      BY <3>1 DEF FatherAlive, Used
  <2>8. DeadAreZombies'
    BY <1>1, <1>2, <2>2, <2>3, <2>4, <2>5 DEF IInv, Ids, DeadAreZombies, Used
  <2>9. CurrentMayRun'
    BY <1>1, <1>2, <2>2, <2>3 DEF CurrentMayRun
  <2> QED
    BY <1>1, <2>3, <2>4, <2>6, <2>7, <2>8, <2>9 DEF IInv, Ids, TypeOK, Table
<1>6. CASE task' = task /\ Goto(i, "syscall")
  <2>1. /\ at' \in [Slot -> Place]
        /\ \A j \in Slot : at'[j] = IF j = i THEN "syscall" ELSE at[j]
    BY <1>1, <1>6 DEF Goto, Place
  <2>2. Ids'
    <3>1. Kept(task, task')
      BY <1>6 DEF Kept
    <3>2. \A j \in Slot : at'[j] = at[j] \/ (at[j] \notin Leaving /\ at'[j] \notin Leaving)
      BY <1>1, <2>1 DEF Leaving
    <3> QED
      BY <3>1, <3>2, KeptIds DEF IInv
  <2> QED
    BY <1>1, <1>2, <1>6, <2>1, <2>2 DEF IInv, TypeOK, CurrentMayRun, Table
<1> QED
  BY <1>3, <1>5, <1>6 DEF Used

-----------------------------------------------------------------------------
(* The invariant holds at first,                                             *)
LEMMA InitInv == Init => IInv
<1> SUFFICES ASSUME Init PROVE IInv
  OBVIOUS
<1>1. InitTask \in TaskStruct
  BY SchedAssumption DEF InitTask, TaskStruct, State, Pid
<1>2. 1 \in Slot /\ \A i \in Slot : task[i] = IF i = 1 THEN InitTask ELSE NULL
  BY SchedAssumption DEF Init, Slot
<1>3. InitTask # NULL /\ InitTask.state = "RUNNING" /\ InitTask.father = 0
  BY <1>1, NullAssumption DEF InitTask
<1>4. TypeOK
  BY <1>1, SchedAssumption DEF Init, TypeOK, Slot, Place, Pid
<1>5. CurrentMayRun
  BY DEF Init, CurrentMayRun
<1>6. Ids
  BY <1>2, <1>3 DEF Ids, PidsUnique, FatherAlive, DeadAreZombies, Used, Init
<1> QED
  BY <1>4, <1>5, <1>6 DEF IInv

(* every step keeps it,                                                      *)
LEMMA NextInv == IInv /\ [Next]_vars => IInv'
<1> SUFFICES ASSUME IInv, [Next]_vars PROVE IInv'
  OBVIOUS
<1>1. CASE Tick
  BY <1>1, TickStep
<1>2. CASE IdlePause
  BY <1>2, IdleStep
<1>3. ASSUME NEW i \in Slot, Step(i) PROVE IInv'
  <2>1. -1 \in Pid \union {-1}
    OBVIOUS
  <2> QED
    BY <1>3, <2>1, ReturnStep, ExitCallStep, WaitStep, ExitDoneStep DEF Step
<1>4. ASSUME NEW i \in Slot, Syscall(i) PROVE IInv'
  BY <1>4, ExitCallStep, SleepStep, FieldStep, ForkStep, WaitStep DEF Syscall
<1>5. ASSUME NEW i \in Slot, ExitSleep(i) \/ IoDone(i) PROVE IInv'
  BY <1>5, ExitSleepStep, IoDoneStep
<1>6. CASE UNCHANGED vars
  BY <1>6 DEF vars, IInv, TypeOK, CurrentMayRun, Ids, PidsUnique, FatherAlive,
              DeadAreZombies, Used
<1> QED
  BY <1>1, <1>2, <1>3, <1>4, <1>5, <1>6 DEF Next

(* and so it holds always.                                                   *)
LEMMA Invariance == Spec => []IInv
BY InitInv, NextInv, PTL DEF Spec

(* The type invariant; in it, that counters never pass twice the highest     *)
(* priority however often they are refilled (sched.c:98-102).                *)
THEOREM TypeCorrect == Spec => []TypeOK
<1>1. IInv => TypeOK
  BY DEF IInv
<1> QED
  BY <1>1, Invariance, PTL

(* find_empty_process never hands out a pid that a task, alive or zombie,    *)
(* still has, however often last_pid wrapped around (fork.c:125-137).        *)
THEOREM PidsStayUnique == Spec => []PidsUnique
<1>1. IInv => PidsUnique
  BY DEF IInv, Ids
<1> QED
  BY <1>1, Invariance, PTL

(* The father field names a task that has not begun to exit, or nobody:      *)
(* a pid that is used again gives no child a new father (exit.c:70-72).      *)
THEOREM FathersStayAlive == Spec => []FatherAlive
<1>1. IInv => FatherAlive
  BY DEF IInv, Ids
<1> QED
  BY <1>1, Invariance, PTL

(* The processor is never left with a task that sleeps, is a zombie or was   *)
(* released (sched.c:68-105).                                                *)
THEOREM ProcessorMayRun == Spec => []CurrentMayRun
<1>1. IInv => CurrentMayRun
  BY DEF IInv
<1> QED
  BY <1>1, Invariance, PTL

-----------------------------------------------------------------------------
(* The entry u is t later on, or empty: nobody becomes a zombie or changes   *)
(* fathers, unless it loses the one it had.                                  *)
Heir(t, u) ==
  u # NULL =>
    /\ t # NULL /\ u.pid = t.pid /\ u.father \in {0, t.father}
    /\ u.state = "ZOMBIE" => t.state = "ZOMBIE"

(* Who sleeps in u slept in t, and has lost no signal since.                 *)
Asleep(t, u) ==
  u # NULL /\ u.state = "INTERRUPTIBLE" => t.state = "INTERRUPTIBLE" /\ t.signal \subseteq u.signal

(* The same of every entry.                                                  *)
Follows(T, U) == \A j \in Slot : Heir(T[j], U[j]) /\ Asleep(T[j], U[j])

(* schedule() wakes whom a signal reached and takes no signals away          *)
(* (sched.c:75-102).                                                         *)
LEMMA ScheduleFollows ==
  ASSUME NEW T \in Table, Schedule(T)
  PROVE  Follows(T, task')
<1>1. ASSUME NEW t \in TaskStruct
      PROVE  Heir(t, Alerted(t)) /\ Asleep(t, Alerted(t)) /\ Alerted(t) \in TaskStruct
  <2> DEFINE sig == IF t.alarm = 1 THEN t.signal \union {SIGALRM} ELSE t.signal
             alarm == IF t.alarm = 1 THEN 0 ELSE t.alarm
             state == IF sig # {} /\ t.state = "INTERRUPTIBLE" THEN "RUNNING" ELSE t.state
  <2>1. sig \in SUBSET Sig /\ t.signal \subseteq sig
    BY SchedAssumption DEF TaskStruct
  <2>2. alarm \in 0 .. MaxAlarm + 2
    BY SchedAssumption DEF TaskStruct
  <2>3. /\ state \in State
        /\ state = "ZOMBIE" => t.state = "ZOMBIE"
        /\ state = "INTERRUPTIBLE" => t.state = "INTERRUPTIBLE"
    BY DEF TaskStruct, State
  <2>4. Alerted(t) = [t EXCEPT !.signal = sig, !.alarm = alarm, !.state = state]
    BY DEF Alerted
  <2> HIDE DEF sig, alarm, state
  <2>5. /\ Alerted(t) \in TaskStruct
        /\ Alerted(t).signal = sig /\ Alerted(t).state = state
        /\ Alerted(t).pid = t.pid /\ Alerted(t).father = t.father
    BY <2>1, <2>2, <2>3, <2>4 DEF TaskStruct
  <2>6. t # NULL
    BY NullAssumption
  <2> QED
    BY <2>1, <2>3, <2>5, <2>6 DEF Heir, Asleep
<1>2. ASSUME NEW t \in TaskStruct
      PROVE  LET u == [t EXCEPT !.counter = t.counter \div 2 + t.priority] IN Heir(t, u) /\ Asleep(t, u)
  BY NullAssumption DEF Heir, Asleep, TaskStruct
<1>3. \A j \in Slot : T[j] # NULL => T[j] \in TaskStruct
  BY DEF Table
<1>4. \A j \in Slot : Alert(T)[j] = IF T[j] = NULL THEN NULL ELSE Alerted(T[j])
  BY DEF Alert
<1>5. \A j \in Slot : \/ task'[j] = Alert(T)[j]
                      \/ /\ Alert(T)[j] # NULL
                         /\ task'[j] = [Alert(T)[j] EXCEPT !.counter = Alert(T)[j].counter \div 2 + Alert(T)[j].priority]
  BY DEF Schedule, Refill, Recharge
<1> SUFFICES ASSUME NEW j \in Slot PROVE Heir(T[j], task'[j]) /\ Asleep(T[j], task'[j])
  BY DEF Follows
<1>6. CASE T[j] = NULL
  BY <1>4, <1>5, <1>6 DEF Heir, Asleep
<1>7. CASE T[j] # NULL
  <2>1. T[j] \in TaskStruct /\ Alert(T)[j] = Alerted(T[j])
    BY <1>3, <1>4, <1>7
  <2>2. Heir(T[j], Alert(T)[j]) /\ Asleep(T[j], Alert(T)[j]) /\ Alert(T)[j] \in TaskStruct
    BY <1>1, <2>1
  <2>3. CASE task'[j] = Alert(T)[j]
    BY <2>2, <2>3
  <2>4. CASE task'[j] = [Alert(T)[j] EXCEPT !.counter = Alert(T)[j].counter \div 2 + Alert(T)[j].priority]
    <3>1. Heir(Alert(T)[j], task'[j]) /\ Asleep(Alert(T)[j], task'[j])
      BY <1>2, <2>2, <2>4
    <3>2. Alert(T)[j] # NULL
      BY <2>2, NullAssumption
    <3> QED
      BY <2>2, <3>1, <3>2 DEF Heir, Asleep
  <2> QED
    BY <1>5, <2>3, <2>4
<1> QED
  BY <1>6, <1>7

(* One relation after the other.                                             *)
LEMMA FollowsOn ==
  ASSUME NEW t, NEW u, NEW v
  PROVE  /\ Heir(t, u) /\ Heir(u, v) => Heir(t, v)
         /\ Heir(t, u) /\ Heir(u, v) /\ Asleep(t, u) /\ Asleep(u, v) => Asleep(t, v)
BY DEF Heir, Asleep

(* What has to be looked at to see that no zombie was overlooked: nobody     *)
(* became one, and who begins to sleep in waitpid has none.                  *)
LEMMA NoneNew ==
  ASSUME IInv, NoZombieOverlooked,
         \A j \in Slot : task'[j] # NULL /\ task'[j].state = "ZOMBIE" => Heir(task[j], task'[j]),
         \A i \in Slot : task'[i] # NULL /\ at'[i] = "wait" =>
           /\ Heir(task[i], task'[i])
           /\ \/ task'[i].state # "INTERRUPTIBLE"
              \/ Zombies(i, wpid'[i]) = {}
              \/ at[i] = "wait" /\ wpid'[i] = wpid[i] /\ Asleep(task[i], task'[i])
  PROVE  NoZombieOverlooked'
<1> SUFFICES ASSUME NEW i \in Slot, task'[i] # NULL, at'[i] = "wait", task'[i].state = "INTERRUPTIBLE",
                    NEW z \in Slot \ {i}, task'[z] # NULL, task'[z].father = task'[i].pid,
                    wpid'[i] = -1 \/ task'[z].pid = wpid'[i], task'[z].state = "ZOMBIE"
             PROVE  task'[i].signal # {}
  BY DEF NoZombieOverlooked, Zombies, Children, Used
<1>1. /\ task[i] # NULL /\ task'[i].pid = task[i].pid
      /\ task[z] # NULL /\ task'[z].pid = task[z].pid
      /\ task'[z].father \in {0, task[z].father} /\ task[z].state = "ZOMBIE"
  BY DEF Heir
<1>2. task[i].pid # 0
  BY <1>1 DEF IInv, TypeOK, TaskStruct, Pid
<1>3. z \in Zombies(i, wpid'[i])
  BY <1>1, <1>2 DEF Zombies, Children, Used
<1>4. at[i] = "wait" /\ wpid'[i] = wpid[i] /\ Asleep(task[i], task'[i])
  BY <1>3
<1>5. task[i].state = "INTERRUPTIBLE" /\ task[i].signal \subseteq task'[i].signal
  BY <1>4 DEF Asleep
<1> QED
  BY <1>1, <1>3, <1>4, <1>5 DEF NoZombieOverlooked, Used

(* The usual step: the running task goes somewhere else than to its pause in *)
(* waitpid, and the others only lose their father or are woken.              *)
LEMMA OthersAsleep ==
  ASSUME IInv, NoZombieOverlooked, NEW i \in Slot, NEW T,
         \A j \in Slot : Heir(task[j], T[j]),
         \A j \in Slot \ {i} : Asleep(task[j], T[j]) /\ at'[j] = at[j] /\ wpid'[j] = wpid[j],
         at'[i] # "wait",
         task' = T \/ Follows(T, task')
  PROVE  NoZombieOverlooked'
<1>1. ASSUME NEW j \in Slot PROVE Heir(task[j], task'[j]) /\ (j # i => Asleep(task[j], task'[j]))
  BY <1>1, FollowsOn DEF Follows
<1> QED
  BY <1>1, NoneNew

(* Time, an exchange of signals and a lost father leave a task asleep; who   *)
(* runs may change its state to any but that of a zombie (sched.c:159-169,   *)
(* exit.c:70-72, 86).                                                        *)
LEMMA EntryFollows ==
  ASSUME NEW t \in TaskStruct
  PROVE  /\ Heir(t, t) /\ Asleep(t, t)
         /\ \A n : Heir(t, [t EXCEPT !.alarm = n]) /\ Asleep(t, [t EXCEPT !.alarm = n])
         /\ \A n : Heir(t, [t EXCEPT !.counter = n]) /\ Asleep(t, [t EXCEPT !.counter = n])
         /\ \A n : Heir(t, [t EXCEPT !.priority = n]) /\ Asleep(t, [t EXCEPT !.priority = n])
         /\ \A s : /\ Heir(t, [t EXCEPT !.signal = t.signal \union {s}])
                   /\ Asleep(t, [t EXCEPT !.signal = t.signal \union {s}])
         /\ Heir(t, [t EXCEPT !.father = 0]) /\ Asleep(t, [t EXCEPT !.father = 0])
         /\ \A S : Heir(t, [t EXCEPT !.signal = S])
         /\ \A s : s # "ZOMBIE" => Heir(t, [t EXCEPT !.state = s])
         /\ \A s : s # "INTERRUPTIBLE" => Asleep(t, [t EXCEPT !.state = s])
BY NullAssumption DEF Heir, Asleep, TaskStruct

(* So do the changes of the table that the calls make.                       *)
LEMMA TableFollows ==
  ASSUME NEW T \in Table
  PROVE  /\ Follows(T, T)
         /\ Follows(T, Elapsed(T))
         /\ \A i \in Slot : T[i] # NULL => Follows(T, Charged(T, i))
         /\ \A D \in SUBSET Slot : \A s : (\A j \in D : T[j] # NULL) => Follows(T, Send(T, D, s))
         /\ \A p : Follows(T, Orphan(T, p))
         /\ \A i \in Slot : Follows(T, Free(T, i))
         /\ \A i \in Slot : \A s : T[i] # NULL =>
              \A j \in Slot : /\ s # "ZOMBIE" \/ j # i => Heir(T[j], SetState(T, i, s)[j])
                              /\ s # "INTERRUPTIBLE" \/ j # i => Asleep(T[j], SetState(T, i, s)[j])
         /\ \A i \in Slot : \A S : T[i] # NULL =>
              \A j \in Slot : /\ Heir(T[j], SetSignal(T, i, S)[j])
                              /\ j # i => Asleep(T[j], SetSignal(T, i, S)[j])
<1>1. \A j \in Slot : T[j] = NULL \/ T[j] \in TaskStruct
  BY DEF Table
<1>2. Heir(NULL, NULL) /\ Asleep(NULL, NULL) /\ \A t : Heir(t, NULL) /\ Asleep(t, NULL)
  BY DEF Heir, Asleep
<1>3. Follows(T, T)
  BY <1>1, <1>2, EntryFollows DEF Follows
<1>4. Follows(T, Elapsed(T))
  BY <1>1, <1>2, EntryFollows DEF Follows, Elapsed
<1>5. \A i, j \in Slot : T[i] # NULL =>
        Charged(T, i)[j] = IF j = i THEN [T[i] EXCEPT !.counter = IF T[i].counter > 0 THEN T[i].counter - 1 ELSE 0]
                           ELSE T[j]
  BY DEF Charged, Table
<1>6. \A i \in Slot : T[i] # NULL => Follows(T, Charged(T, i))
  <2> SUFFICES ASSUME NEW i \in Slot, T[i] # NULL, NEW j \in Slot
               PROVE  Heir(T[j], Charged(T, i)[j]) /\ Asleep(T[j], Charged(T, i)[j])
    BY DEF Follows
  <2>1. CASE j = i
    <3> DEFINE n == IF T[i].counter > 0 THEN T[i].counter - 1 ELSE 0
    <3>1. T[i] \in TaskStruct /\ Charged(T, i)[i] = [T[i] EXCEPT !.counter = n]
      BY <1>1, <1>5
    <3> HIDE DEF n
    <3> QED
      <4>1. Heir(T[i], [T[i] EXCEPT !.counter = n]) /\ Asleep(T[i], [T[i] EXCEPT !.counter = n])
        BY <3>1, EntryFollows
      <4> QED
        BY <2>1, <3>1, <4>1
  <2>2. CASE j # i
    BY <1>1, <1>2, <1>5, <2>2, EntryFollows
  <2> QED
    BY <2>1, <2>2
<1>7. \A D \in SUBSET Slot : \A s : (\A j \in D : T[j] # NULL) => Follows(T, Send(T, D, s))
  BY <1>1, <1>2, EntryFollows DEF Follows, Send
<1>8. \A p : Follows(T, Orphan(T, p))
  BY <1>1, <1>2, EntryFollows DEF Follows, Orphan
<1>9. \A i \in Slot : Follows(T, Free(T, i))
  BY <1>1, <1>2, EntryFollows DEF Follows, Free, Table
<1>10. \A i, j \in Slot : \A s : SetState(T, i, s)[j] = IF j = i THEN [T[i] EXCEPT !.state = s] ELSE T[j]
  BY DEF SetState, Table
<1>11. \A i, j \in Slot : \A S : SetSignal(T, i, S)[j] = IF j = i THEN [T[i] EXCEPT !.signal = S] ELSE T[j]
  BY DEF SetSignal, Table
<1>12. ASSUME NEW i \in Slot, NEW s, T[i] # NULL, NEW j \in Slot
       PROVE  /\ s # "ZOMBIE" \/ j # i => Heir(T[j], SetState(T, i, s)[j])
              /\ s # "INTERRUPTIBLE" \/ j # i => Asleep(T[j], SetState(T, i, s)[j])
  <2>1. CASE j = i
    <3>1. T[i] \in TaskStruct /\ SetState(T, i, s)[i] = [T[i] EXCEPT !.state = s]
      BY <1>1, <1>10, <1>12
    <3> QED
      <4>1. /\ s # "ZOMBIE" => Heir(T[i], [T[i] EXCEPT !.state = s])
            /\ s # "INTERRUPTIBLE" => Asleep(T[i], [T[i] EXCEPT !.state = s])
        BY <3>1, EntryFollows
      <4> QED
        BY <2>1, <3>1, <4>1
  <2>2. CASE j # i
    <3>1. SetState(T, i, s)[j] = T[j]
      BY <1>10, <1>12, <2>2
    <3> QED
      BY <1>1, <1>2, <2>2, <3>1, EntryFollows
  <2> QED
    BY <2>1, <2>2
<1>13. ASSUME NEW i \in Slot, NEW S, T[i] # NULL, NEW j \in Slot
       PROVE  /\ Heir(T[j], SetSignal(T, i, S)[j])
              /\ j # i => Asleep(T[j], SetSignal(T, i, S)[j])
  <2>1. CASE j = i
    <3>1. T[i] \in TaskStruct /\ SetSignal(T, i, S)[i] = [T[i] EXCEPT !.signal = S]
      BY <1>1, <1>11, <1>13
    <3> QED
      <4>1. Heir(T[i], [T[i] EXCEPT !.signal = S])
        BY <3>1, EntryFollows
      <4> QED
        BY <2>1, <3>1, <4>1
  <2>2. CASE j # i
    <3>1. SetSignal(T, i, S)[j] = T[j]
      BY <1>11, <1>13, <2>2
    <3> QED
      BY <1>1, <1>2, <2>2, <3>1, EntryFollows
  <2> QED
    BY <2>1, <2>2
<1> QED
  BY <1>3, <1>4, <1>6, <1>7, <1>8, <1>9, <1>12, <1>13

(* The clock and task 0 leave asleep who sleeps without a signal             *)
(* (sched.c:75-104, 159-169).                                                *)
LEMMA TickWaits ==
  ASSUME IInv, NoZombieOverlooked, Tick \/ IdlePause
  PROVE  NoZombieOverlooked'
<1>1. task \in Table /\ at \in [Slot -> Place]
  BY DEF IInv, TypeOK, Table
<1>2. ASSUME NEW T, Follows(task, T), task' = T \/ Follows(T, task'), wpid' = wpid,
             \A j \in Slot : at'[j] = "wait" => at[j] = "wait"
      PROVE  NoZombieOverlooked'
  <2>1. \A j \in Slot : Heir(task[j], task'[j]) /\ Asleep(task[j], task'[j])
    BY <1>2, FollowsOn DEF Follows
  <2> QED
    BY <1>2, <2>1, NoneNew
<1>3. Elapsed(task) \in Table /\ Follows(task, Elapsed(task)) /\ Follows(task, task)
      /\ Kept(task, Elapsed(task))
  BY <1>1, TableFollows, ElapsedFacts
<1>4. ASSUME NEW i \in Slot, task[i] # NULL
      PROVE  /\ Charged(Elapsed(task), i) \in Table
             /\ Follows(task, Charged(Elapsed(task), i))
  <2>1. Elapsed(task)[i] # NULL
    BY <1>3, <1>4 DEF Kept
  <2>2. Charged(Elapsed(task), i) \in Table /\ Follows(Elapsed(task), Charged(Elapsed(task), i))
    BY <1>3, <2>1, ChargedFacts, TableFollows
  <2> QED
    BY <1>3, <2>2, FollowsOn DEF Follows
<1>5. CASE TickIdle
  BY <1>2, <1>3, <1>5 DEF TickIdle
<1>6. ASSUME NEW i \in Slot, TickUser(i) PROVE NoZombieOverlooked'
  <2> DEFINE T == Charged(Elapsed(task), i)
  <2>1. task[i] # NULL /\ wpid' = wpid /\ Goto(i, "ret") /\ (task' = T \/ Schedule(T))
    BY <1>6 DEF TickUser, On
  <2>2. \A j \in Slot : at'[j] = "wait" => at[j] = "wait"
    BY <1>1, <2>1 DEF Goto
  <2>3. T \in Table /\ Follows(task, T)
    BY <1>4, <2>1
  <2> HIDE DEF T
  <2> QED
    BY <1>2, <2>1, <2>2, <2>3, ScheduleFollows
<1>7. ASSUME NEW i \in Slot, TickKernel(i) PROVE NoZombieOverlooked'
  BY <1>2, <1>4, <1>7 DEF TickKernel
<1>8. CASE IdlePause
  BY <1>1, <1>2, <1>3, <1>8, ScheduleFollows DEF IdlePause
<1> QED
  BY <1>5, <1>6, <1>7, <1>8 DEF Tick

(* A task that does something else than to wait for children                 *)
(* (system_call.s:77-142, exit.c:70-79, sched.c:261-287).                    *)
LEMMA OtherWaits ==
  ASSUME IInv, NoZombieOverlooked, NEW i \in Slot,
         \/ SysReturn(i) \/ RetToUser(i) \/ Resume(i) \/ SysExit(i) \/ RetExit(i) \/ ExitSleep(i)
         \/ SysPause(i) \/ SysIo(i) \/ SysAlarm(i) \/ SysNice(i) \/ SysKill(i)
  PROVE  NoZombieOverlooked'
<1>1. /\ task \in Table /\ at \in [Slot -> Place] /\ current = i
      /\ \A j \in Slot : Heir(task[j], task[j]) /\ Asleep(task[j], task[j])
  BY TableFollows DEF IInv, TypeOK, Table, Follows, SysReturn, RetToUser, Resume, SysExit, RetExit, ExitSleep,
     SysPause, SysIo, SysAlarm, SysNice, SysKill, On
<1>2. task[i] # NULL /\ task[i] \in TaskStruct /\ task[i].state = "RUNNING"
  BY <1>1, OnFacts
<1>3. ASSUME NEW T \in Table, task' = T \/ Schedule(T), wpid' = wpid, NEW p, p # "wait", Goto(i, p),
             \A j \in Slot : Heir(task[j], T[j]) /\ (j # i => Asleep(task[j], T[j]))
      PROVE  NoZombieOverlooked'
  <2>1. at'[i] # "wait" /\ \A j \in Slot \ {i} : at'[j] = at[j]
    BY <1>1, <1>3 DEF Goto
  <2>2. task' = T \/ Follows(T, task')
    BY <1>3, ScheduleFollows
  <2> QED
    BY <1>3, <2>1, <2>2, OthersAsleep
<1>4. ASSUME NEW T \in Table, NEW S \in SUBSET Sig, T[i] # NULL,
             \A j \in Slot : Heir(task[j], T[j]) /\ (j # i => Asleep(task[j], T[j]))
      PROVE  /\ SetSignal(T, i, S) \in Table
             /\ \A j \in Slot : /\ Heir(task[j], SetSignal(T, i, S)[j])
                                /\ j # i => Asleep(task[j], SetSignal(T, i, S)[j])
  <2>1. SetSignal(T, i, S) \in Table
    BY <1>4, SignalFacts
  <2>2. \A j \in Slot : /\ Heir(T[j], SetSignal(T, i, S)[j])
                        /\ j # i => Asleep(T[j], SetSignal(T, i, S)[j])
    BY <1>4, TableFollows
  <2>3. ASSUME NEW j \in Slot
        PROVE  /\ Heir(task[j], SetSignal(T, i, S)[j])
               /\ j # i => Asleep(task[j], SetSignal(T, i, S)[j])
    <3>1. Heir(T[j], SetSignal(T, i, S)[j]) /\ (j # i => Asleep(T[j], SetSignal(T, i, S)[j]))
      BY <2>2, <2>3
    <3>2. Heir(task[j], T[j]) /\ (j # i => Asleep(task[j], T[j]))
      BY <1>4, <2>3
    <3> QED
      BY <3>1, <3>2, FollowsOn
  <2> QED
    BY <2>1, <2>3
<1>5. CASE SysReturn(i)
  BY <1>1, <1>3, <1>5 DEF SysReturn
<1>6. CASE RetToUser(i)
  <2>1. PICK S \in SUBSET Sig : task' = SetSignal(task, i, S)
    <3>1. task[i].signal \in SUBSET Sig
      BY <1>2 DEF TaskStruct
    <3> QED
      BY <1>6, <3>1 DEF RetToUser, From
  <2>2. Goto(i, "user") /\ wpid' = wpid
    BY <1>6 DEF RetToUser
  <2>3. /\ SetSignal(task, i, S) \in Table
        /\ \A j \in Slot : /\ Heir(task[j], SetSignal(task, i, S)[j])
                           /\ j # i => Asleep(task[j], SetSignal(task, i, S)[j])
    BY <1>1, <1>2, <1>4
  <2> DEFINE T == SetSignal(task, i, S)
  <2>4. task' = T /\ T \in Table /\ \A j \in Slot : Heir(task[j], T[j]) /\ (j # i => Asleep(task[j], T[j]))
    BY <2>1, <2>3
  <2> HIDE DEF T
  <2> QED
    BY <1>3, <2>2, <2>4
<1>7. CASE Resume(i)
  BY <1>1, <1>3, <1>7 DEF Resume
<1>8. ASSUME NEW T \in Table, DoExit(i, T),
             \A j \in Slot : Heir(task[j], T[j]) /\ (j # i => Asleep(task[j], T[j]))
      PROVE  NoZombieOverlooked'
  <2>1. Follows(T, Orphan(T, T[i].pid))
    BY TableFollows
  <2>2. /\ \A j \in Slot : Heir(task[j], task'[j]) /\ (j # i => Asleep(task[j], task'[j]))
        /\ Goto(i, "closing") /\ wpid' = wpid
    BY <1>8, <2>1, FollowsOn DEF DoExit, Follows
  <2>3. at'[i] # "wait" /\ \A j \in Slot \ {i} : at'[j] = at[j]
    BY <1>1, <2>2 DEF Goto
  <2> QED
    BY <2>2, <2>3, OthersAsleep
<1>9. CASE SysExit(i)
  BY <1>1, <1>8, <1>9 DEF SysExit
<1>10. CASE RetExit(i)
  <2>1. PICK s \in task[i].signal : DoExit(i, SetSignal(task, i, From(s, task[i].signal) \ {s}))
    BY <1>10 DEF RetExit
  <2>2. From(s, task[i].signal) \ {s} \in SUBSET Sig
    BY <1>2 DEF TaskStruct, From
  <2> QED
    <3> DEFINE T == SetSignal(task, i, From(s, task[i].signal) \ {s})
    <3>1. T \in Table /\ \A j \in Slot : Heir(task[j], T[j]) /\ (j # i => Asleep(task[j], T[j]))
      BY <1>1, <1>2, <1>4, <2>2
    <3>2. DoExit(i, T)
      BY <2>1
    <3> HIDE DEF T
    <3> QED
      BY <1>8, <3>1, <3>2
<1>11. ASSUME NEW s \in State \ {"ZOMBIE"}, NEW p, p # "wait", Goto(i, p), Schedule(SetState(task, i, s)),
              wpid' = wpid
       PROVE  NoZombieOverlooked'
  <2>1. /\ SetState(task, i, s) \in Table
        /\ \A j \in Slot : /\ Heir(task[j], SetState(task, i, s)[j])
                           /\ j # i => Asleep(task[j], SetState(task, i, s)[j])
    BY <1>1, <1>2, <1>11, SetStateFacts, TableFollows
  <2> DEFINE T == SetState(task, i, s)
  <2>2. /\ Schedule(T) /\ T \in Table
        /\ \A j \in Slot : Heir(task[j], T[j]) /\ (j # i => Asleep(task[j], T[j]))
    BY <1>11, <2>1
  <2> HIDE DEF T
  <2> QED
    BY <1>3, <1>11, <2>2
<1>12. CASE ExitSleep(i) \/ SysPause(i) \/ SysIo(i)
  BY <1>11, <1>12 DEF ExitSleep, SysPause, SysIo, State
<1>13. ASSUME SysAlarm(i) \/ SysNice(i) \/ SysKill(i)
       PROVE  /\ Goto(i, "syscall") /\ wpid' = wpid
              /\ \A j \in Slot : Heir(task[j], task'[j]) /\ (j # i => Asleep(task[j], task'[j]))
  <2>1. Goto(i, "syscall") /\ wpid' = wpid
    BY <1>13 DEF SysAlarm, SysNice, SysKill
  <2>2. CASE SysAlarm(i)
    <3>1. PICK n : task' = [task EXCEPT ![i].alarm = n]
      BY <2>2 DEF SysAlarm
    <3>2. Heir(task[i], [task[i] EXCEPT !.alarm = n])
      BY <1>2, EntryFollows
    <3> QED
      BY <1>1, <2>1, <3>1, <3>2 DEF Table
  <2>3. CASE SysNice(i)
    <3>1. PICK n : task' = [task EXCEPT ![i].priority = n]
      BY <2>3 DEF SysNice
    <3>2. Heir(task[i], [task[i] EXCEPT !.priority = n])
      BY <1>2, EntryFollows
    <3> QED
      BY <1>1, <2>1, <3>1, <3>2 DEF Table
  <2>4. CASE SysKill(i)
    <3>1. PICK D \in SUBSET Used(task), s \in Sig : task' = Send(task, D, s)
      BY <2>4 DEF SysKill
    <3>2. D \in SUBSET Slot /\ \A j \in D : task[j] # NULL
      BY DEF Used
    <3>3. Follows(task, task')
      BY <1>1, <3>1, <3>2, TableFollows
    <3> QED
      BY <2>1, <3>3 DEF Follows
  <2> QED
    BY <1>13, <2>2, <2>3, <2>4
<1>14. CASE SysAlarm(i) \/ SysNice(i) \/ SysKill(i)
  <2>1. at'[i] # "wait" /\ \A j \in Slot \ {i} : at'[j] = at[j]
    BY <1>1, <1>13, <1>14 DEF Goto
  <2> QED
    BY <1>13, <1>14, <2>1, OthersAsleep
<1> QED
  BY <1>5, <1>6, <1>7, <1>9, <1>10, <1>12, <1>14

(* A device answers who waits for it uninterruptibly (sched.c:118-136).      *)
LEMMA IoDoneWaits ==
  ASSUME IInv, NoZombieOverlooked, NEW i \in Slot, IoDone(i)
  PROVE  NoZombieOverlooked'
<1>1. /\ task \in Table /\ task[i] # NULL /\ UNCHANGED <<at, wpid>>
      /\ task' = SetState(task, i, "RUNNING")
  BY DEF IInv, TypeOK, Table, IoDone
<1>2. \A j \in Slot : Heir(task[j], task'[j]) /\ Asleep(task[j], task'[j])
  BY <1>1, TableFollows
<1> QED
  BY <1>1, <1>2, NoneNew

(* A child is no zombie, and does not wait (fork.c:77-117).                  *)
LEMMA ForkWaits ==
  ASSUME IInv, NoZombieOverlooked, NEW i \in Slot, SysFork(i)
  PROVE  NoZombieOverlooked'
<1>1. /\ task \in Table /\ at \in [Slot -> Place] /\ current = i /\ wpid' = wpid
      /\ \A j \in Slot : Heir(task[j], task[j]) /\ Asleep(task[j], task[j])
  BY TableFollows DEF IInv, TypeOK, Table, Follows, SysFork, On
<1>2. task[i] \in TaskStruct
  BY <1>1, OnFacts
<1>3. CASE task' = task /\ Goto(i, "syscall")
  <2>1. at'[i] # "wait" /\ \A j \in Slot \ {i} : at'[j] = at[j]
    BY <1>1, <1>3 DEF Goto
  <2> QED
    BY <1>1, <1>3, <2>1, OthersAsleep
<1>4. ASSUME NEW p \in Pid, NEW n \in Slot, task' = [task EXCEPT ![n] = Child(i, p)],
             at' = [at EXCEPT ![i] = "syscall", ![n] = "user"]
      PROVE  NoZombieOverlooked'
  <2>1. Child(i, p).state = "RUNNING"
    BY <1>2 DEF Child, TaskStruct
  <2>2. task'[n].state = "RUNNING" /\ at'[i] # "wait" /\ at'[n] # "wait"
    BY <1>1, <1>4, <2>1 DEF Table
  <2>3. \A j \in Slot \ {n} : task'[j] = task[j]
    BY <1>1, <1>4 DEF Table
  <2>4. \A j \in Slot \ {i, n} : at'[j] = at[j]
    BY <1>1, <1>4
  <2>5. ASSUME NEW j \in Slot, task'[j].state = "ZOMBIE" PROVE Heir(task[j], task'[j])
    BY <1>1, <2>2, <2>3, <2>5
  <2>6. ASSUME NEW j \in Slot, at'[j] = "wait"
        PROVE  /\ Heir(task[j], task'[j]) /\ Asleep(task[j], task'[j])
               /\ at[j] = "wait" /\ wpid'[j] = wpid[j]
    <3>1. j # i /\ j # n
      BY <2>2, <2>6
    <3> QED
      BY <1>1, <2>3, <2>4, <2>6, <3>1
  <2> QED
    BY <2>5, <2>6, NoneNew
<1> QED
  BY <1>3, <1>4 DEF SysFork

(* The father of a new zombie has the signal, and schedule() has woken it    *)
(* (exit.c:84-90, sched.c:75-83).                                            *)
LEMMA ExitDoneWaits ==
  ASSUME IInv, NoZombieOverlooked, NEW i \in Slot, ExitDone(i)
  PROVE  NoZombieOverlooked'
<1>1. /\ task \in Table /\ at \in [Slot -> Place] /\ current = i /\ wpid' = wpid /\ Goto(i, "dead")
      /\ \A j \in Slot : Heir(task[j], task[j]) /\ Asleep(task[j], task[j])
  BY TableFollows DEF IInv, TypeOK, Table, Follows, ExitDone, On
<1>2. task[i] # NULL /\ task[i] \in TaskStruct /\ task[i].state = "RUNNING"
  BY <1>1, OnFacts
<1>3. at'[i] # "wait" /\ \A j \in Slot \ {i} : at'[j] = at[j]
  BY <1>1 DEF Goto
<1>4. CASE task[i].father = 0
  <2>1. Follows(task, Free(task, i)) /\ Free(task, i) \in Table
    BY <1>1, TableFollows, FreeFacts
  <2>2. Follows(Free(task, i), task')
    BY <1>4, <2>1, ScheduleFollows DEF ExitDone
  <2> QED
    BY <1>1, <1>3, <2>1, <2>2, OthersAsleep DEF Follows
<1>5. CASE task[i].father # 0
  <2> DEFINE D == WithPid(task, task[i].father)
             Z == SetState(task, i, "ZOMBIE")
             T == Send(Z, D, SIGCHLD)
  <2>1. /\ Z \in Table /\ Z[i] # NULL /\ Z[i].state = "ZOMBIE"
        /\ Z[i].pid = task[i].pid /\ Z[i].father = task[i].father
        /\ \A j \in Slot : j # i => Z[j] = task[j]
    <3>1. Z \in Table /\ Z[i].state = "ZOMBIE" /\ Z[i] # NULL
      BY <1>1, <1>2, SetStateFacts DEF State
    <3> QED
      BY <1>1, <1>2, <3>1 DEF SetState, Table, TaskStruct
  <2>2. D \in SUBSET Slot /\ \A j \in D : Z[j] # NULL
    BY <2>1 DEF WithPid, Used
  <2>3. T \in Table /\ Follows(Z, T) /\ Kept(Z, T)
    <3> HIDE DEF D, Z
    <3> QED
      BY <2>1, <2>2, SendFacts, TableFollows, SchedAssumption
  <2>4. \A j \in D : j # i => T[j].signal # {}
    <3>1. ASSUME NEW j \in D, j # i PROVE T[j] = [task[j] EXCEPT !.signal = task[j].signal \union {SIGCHLD}]
      <4>1. j \in Slot /\ Z[j] = task[j]
        BY <2>1, <2>2, <3>1
      <4> HIDE DEF D, Z
      <4> QED
        BY <3>1, <4>1 DEF Send
    <3>2. ASSUME NEW j \in D, j # i PROVE task[j] \in TaskStruct
      BY <1>1, <3>2 DEF WithPid, Used, Table
    <3> HIDE DEF D, T
    <3> QED
      BY <3>1, <3>2, ZenonT(60) DEF TaskStruct
  <2>5. Schedule(T)
    BY <1>5 DEF ExitDone
  <2>6. \A j \in D : j \in Slot /\ task[j] # NULL /\ task[j].pid = task[i].father
    BY DEF WithPid, Used
  <2>7. \A j \in Slot : task[j] # NULL /\ task[j].pid = task[i].father => j \in D
    BY DEF WithPid, Used
  <2> HIDE DEF D, Z, T
  <2>8. Follows(T, task') /\ Kept(T, task')
    BY <2>3, <2>5, ScheduleFacts, ScheduleFollows
  <2>9. \A j \in Slot : Heir(Z[j], task'[j]) /\ Asleep(Z[j], task'[j])
    BY <2>3, <2>8, FollowsOn DEF Follows
  <2> SUFFICES ASSUME NEW f \in Slot, task'[f] # NULL, at'[f] = "wait", task'[f].state = "INTERRUPTIBLE",
                      NEW z \in Slot \ {f}, task'[z] # NULL, task'[z].father = task'[f].pid,
                      wpid'[f] = -1 \/ task'[z].pid = wpid'[f], task'[z].state = "ZOMBIE"
               PROVE  task'[f].signal # {}
    BY DEF NoZombieOverlooked, Zombies, Children, Used
  <2>10. f # i
    BY <1>3
  <2>11. /\ Z[f] = task[f] /\ Heir(task[f], task'[f]) /\ Asleep(task[f], task'[f])
    BY <2>1, <2>9, <2>10
  <2>12. /\ task[f] # NULL /\ task'[f].pid = task[f].pid /\ task[f].state = "INTERRUPTIBLE"
         /\ task[f].signal \subseteq task'[f].signal /\ at[f] = "wait" /\ wpid'[f] = wpid[f]
    BY <1>1, <1>3, <2>10, <2>11 DEF Heir, Asleep
  <2>13. task[f].pid # 0
    BY <2>12 DEF IInv, TypeOK, TaskStruct, Pid
  <2>14. CASE z = i
    <3>1. task'[i].father = task[i].father
      BY <2>1, <2>9, <2>12, <2>13, <2>14 DEF Heir
    <3>2. f \in D
      BY <2>7, <2>12, <2>14, <3>1
    <3>3. T[f].signal # {}
      BY <2>4, <2>10, <3>2
    <3>4. T[f].signal \subseteq task'[f].signal
      BY <2>8 DEF Follows, Asleep
    <3> QED
      BY <3>3, <3>4
  <2>15. CASE z # i
    <3>1. Heir(task[z], task'[z])
      BY <2>1, <2>9, <2>15
    <3>2. /\ task[z] # NULL /\ task'[z].pid = task[z].pid /\ task[z].state = "ZOMBIE"
          /\ task[z].father = task[f].pid
      BY <2>12, <2>13, <3>1 DEF Heir
    <3>3. z \in Zombies(f, wpid[f])
      BY <2>12, <3>2 DEF Zombies, Children, Used
    <3> QED
      BY <2>12, <3>3 DEF NoZombieOverlooked, Used
  <2> QED
    BY <2>14, <2>15
<1> QED
  BY <1>4, <1>5

(* Who begins to sleep in waitpid has just seen that there is no zombie, and *)
(* did not give the processor away in between (exit.c:105-132).              *)
LEMMA PassWaits ==
  ASSUME IInv, NoZombieOverlooked, NEW i \in Slot, NEW p \in Pid \union {-1}, SysWaitpid(i, p) \/ WaitResume(i)
  PROVE  NoZombieOverlooked'
<1>1. /\ task \in Table /\ at \in [Slot -> Place] /\ wpid \in [Slot -> Pid \union {-1}] /\ current = i
      /\ \A j \in Slot : Heir(task[j], task[j]) /\ Asleep(task[j], task[j])
  BY TableFollows DEF IInv, TypeOK, Table, Follows, SysWaitpid, WaitResume, On
<1>2. task[i] # NULL /\ task[i] \in TaskStruct /\ task[i].state = "RUNNING"
  BY <1>1, OnFacts
<1>3. ASSUME NEW T \in Table, NEW q, NEW nohang, WaitPass(i, T, q, nohang),
             \A j \in Slot : Heir(task[j], T[j]) /\ (j # i => Asleep(task[j], T[j])),
             T[i] # NULL,
             \A j \in Slot \ {i} : wpid'[j] = wpid[j],
             at'[i] = "wait" => wpid'[i] = q
      PROVE  NoZombieOverlooked'
  <2>1. ASSUME NEW U, Follows(T, U), task' = U \/ Follows(U, task'), NEW r, r # "wait", Goto(i, r)
        PROVE  NoZombieOverlooked'
    <3>1. at'[i] # "wait" /\ \A j \in Slot \ {i} : at'[j] = at[j]
      BY <1>1, <2>1 DEF Goto
    <3>2. \A j \in Slot : Heir(task[j], U[j]) /\ (j # i => Asleep(task[j], U[j]))
      BY <1>3, <2>1, FollowsOn DEF Follows
    <3> QED
      BY <1>3, <2>1, <3>1, <3>2, OthersAsleep
  <2>2. ASSUME NEW z \in Zombies(i, q), Goto(i, "reaped"), Schedule(Free(T, z)) PROVE NoZombieOverlooked'
    <3>1. z \in Slot
      BY <2>2 DEF Zombies, Children, Used
    <3>2. Follows(T, Free(T, z)) /\ Free(T, z) \in Table
      BY <1>3, <3>1, TableFollows, FreeFacts
    <3>3. Follows(Free(T, z), task')
      BY <2>2, <3>2, ScheduleFollows
    <3> QED
      BY <2>1, <2>2, <3>2, <3>3
  <2>3. CASE Goto(i, "syscall") /\ task' = T
    <3>1. Follows(T, T)
      BY <1>3, TableFollows
    <3> QED
      BY <2>1, <2>3, <3>1
  <2>4. CASE Zombies(i, q) = {} /\ Goto(i, "wait") /\ Schedule(SetState(T, i, "INTERRUPTIBLE"))
    <3> DEFINE U == SetState(T, i, "INTERRUPTIBLE")
    <3>1. U \in Table
      BY <1>3, SetStateFacts DEF State
    <3>2. \A j \in Slot : Heir(T[j], U[j]) /\ (j # i => Asleep(T[j], U[j]))
      BY <1>3, TableFollows
    <3>3. Follows(U, task')
      BY <2>4, <3>1, ScheduleFollows
    <3> HIDE DEF U
    <3>4. \A j \in Slot : Heir(task[j], task'[j]) /\ (j # i => Asleep(task[j], task'[j]))
      BY <1>3, <3>2, <3>3, FollowsOn DEF Follows
    <3>5. at'[i] = "wait" /\ \A j \in Slot \ {i} : at'[j] = at[j]
      BY <1>1, <2>4 DEF Goto
    <3>6. Zombies(i, wpid'[i]) = {}
      BY <1>3, <2>4, <3>5
    <3> QED
      BY <1>3, <3>4, <3>5, <3>6, NoneNew
  <2> QED
    BY <1>3, <2>2, <2>3, <2>4 DEF WaitPass
<1>4. CASE SysWaitpid(i, p)
  <2>1. PICK nohang \in BOOLEAN : WaitPass(i, task, p, nohang)
    BY <1>4 DEF SysWaitpid
  <2>2. /\ \A j \in Slot \ {i} : wpid'[j] = wpid[j]
        /\ at'[i] = "wait" => wpid'[i] = p
    BY <1>1, <1>4 DEF SysWaitpid
  <2> QED
    BY <1>1, <1>2, <1>3, <2>1, <2>2
<1>5. CASE WaitResume(i)
  <2> DEFINE T == SetSignal(task, i, task[i].signal \ {SIGCHLD})
  <2>1. task[i].signal \ {SIGCHLD} \in SUBSET Sig
    BY <1>2 DEF TaskStruct
  <2>2. T \in Table /\ T[i] # NULL
    BY <1>1, <1>2, <2>1, SignalFacts DEF Kept
  <2>3. \A j \in Slot : Heir(task[j], T[j]) /\ (j # i => Asleep(task[j], T[j]))
    BY <1>1, <1>2, TableFollows
  <2>4. /\ \A j \in Slot \ {i} : wpid'[j] = wpid[j]
        /\ at'[i] = "wait" => wpid'[i] = wpid[i]
    BY <1>1, <1>5 DEF WaitResume
  <2>5. CASE WaitPass(i, T, wpid[i], FALSE)
    <3> HIDE DEF T
    <3> QED
      BY <1>3, <2>2, <2>3, <2>4, <2>5
  <2>6. CASE task' = T /\ Goto(i, "syscall")
    <3>1. at'[i] # "wait" /\ \A j \in Slot \ {i} : at'[j] = at[j]
      BY <1>1, <2>6 DEF Goto
    <3> HIDE DEF T
    <3> QED
      BY <2>3, <2>4, <2>6, <3>1, OthersAsleep
  <2> QED
    BY <1>5, <2>5, <2>6 DEF WaitResume
<1> QED
  BY <1>4, <1>5

(* No SIGCHLD falls between the scan of waitpid and its pause, also when     *)
(* other signals, stopped timers and new children come in between            *)
(* (exit.c:84-90, 105-132, sched.c:75-83).                                   *)
THEOREM NoZombieForgotten == Spec => []NoZombieOverlooked
<1>1. Init => NoZombieOverlooked
  BY DEF Init, NoZombieOverlooked, Used
<1>2. IInv /\ NoZombieOverlooked /\ [Next]_vars => NoZombieOverlooked'
  <2> SUFFICES ASSUME IInv, NoZombieOverlooked, [Next]_vars PROVE NoZombieOverlooked'
    OBVIOUS
  <2>1. ASSUME NEW i \in Slot, Step(i) PROVE NoZombieOverlooked'
    <3>1. -1 \in Pid \union {-1}
      OBVIOUS
    <3> QED
      BY <2>1, <3>1, OtherWaits, PassWaits, ExitDoneWaits DEF Step
  <2>2. ASSUME NEW i \in Slot, Syscall(i) PROVE NoZombieOverlooked'
    BY <2>2, OtherWaits, PassWaits, ForkWaits DEF Syscall
  <2>3. ASSUME NEW i \in Slot, ExitSleep(i) \/ IoDone(i) PROVE NoZombieOverlooked'
    BY <2>3, OtherWaits, IoDoneWaits
  <2>4. CASE UNCHANGED vars
    BY <2>4 DEF vars, NoZombieOverlooked, Zombies, Children, Used
  <2> QED
    BY <2>1, <2>2, <2>3, <2>4, TickWaits DEF Next
<1> QED
  BY <1>1, <1>2, Invariance, PTL DEF Spec
=============================================================================
