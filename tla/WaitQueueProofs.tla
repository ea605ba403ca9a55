--------------------------- MODULE WaitQueueProofs ---------------------------
(***************************************************************************)
(* Proofs about WaitQueue.tla, for any sets of tasks and queues: the type   *)
(* invariant, and that on a disciplined queue no set of sleepers is ever    *)
(* cut off, whatever the interruptible queues and wait_for_request do       *)
(* beside it; that the dead stay dead; and that a queue is a set of waiting *)
(* tasks to its users (WaitSet.tla).                                        *)
(***************************************************************************)
EXTENDS WaitQueue, InductionLemmas

(* schedule() changes states only from INTERRUPTIBLE to RUNNING, and gives   *)
(* the processor to a task or to task 0 (sched.c:75-104).                    *)
LEMMA ScheduleFacts ==
  ASSUME NEW st \in [Task -> State], Schedule(st), signal \in [Task -> BOOLEAN]
  PROVE  /\ state' \in [Task -> State]
         /\ current' \in Task \union {Idle}
         /\ \A t \in Task : state'[t] = "UNINTERRUPTIBLE" => st[t] = "UNINTERRUPTIBLE"
BY DEF Schedule, Signalled, Runnable, State

(* tmp->state=0 only makes tasks runnable (sched.c:126-127).                 *)
LEMMA WakeFacts ==
  ASSUME NEW t \in Task \union {NULL}, NEW st \in [Task -> State]
  PROVE  /\ Wake(t, st) \in [Task -> State]
         /\ \A u \in Task : Wake(t, st)[u] = "UNINTERRUPTIBLE"
                               => u # t /\ st[u] = "UNINTERRUPTIBLE"
BY TaskAssumption DEF Wake, State

(* Every step of WaitQueue keeps the types.                                  *)
LEMMA TypeStep == TypeOK /\ [Next]_vars => TypeOK'
<1> SUFFICES ASSUME TypeOK, [Next]_vars PROVE TypeOK'
  OBVIOUS
<1> USE DEF TypeOK
<1>1. ASSUME NEW t \in Task, NEW q \in Queue, SleepRead(t, q) PROVE TypeOK'
  BY <1>1 DEF SleepRead, PC
<1>2. ASSUME NEW t \in Task, NEW q \in Queue, IntSleepOn(t, q) PROVE TypeOK'
  <2>1. [state EXCEPT ![t] = "INTERRUPTIBLE"] \in [Task -> State]
    BY DEF State
  <2> QED
    BY <1>2, <2>1, ScheduleFacts DEF IntSleepOn, PC
<1>3. ASSUME NEW q \in Queue, WakeUp(q) PROVE TypeOK'
  BY <1>3, WakeFacts DEF WakeUp
<1>4. ASSUME NEW t \in Task, SleepLink(t) PROVE TypeOK'
  BY <1>4 DEF SleepLink, PC
<1>5. ASSUME NEW t \in Task, SleepBlock(t) PROVE TypeOK'
  <2>1. [state EXCEPT ![t] = "UNINTERRUPTIBLE"] \in [Task -> State]
    BY DEF State
  <2> QED
    BY <1>5, <2>1, ScheduleFacts DEF SleepBlock, PC
<1>6. ASSUME NEW t \in Task, SleepReturn(t) PROVE TypeOK'
  BY <1>6, WakeFacts DEF SleepReturn, PC
<1>7. ASSUME NEW t \in Task, IntSleepRepeat(t) PROVE TypeOK'
  <2>1. [state EXCEPT ![head[wq[t]]] = "RUNNING", ![t] = "INTERRUPTIBLE"] \in [Task -> State]
    BY DEF State
  <2> QED
    BY <1>7, <2>1, ScheduleFacts DEF IntSleepRepeat
<1>8. ASSUME NEW t \in Task, IntSleepReturn(t) PROVE TypeOK'
  BY <1>8, WakeFacts DEF IntSleepReturn, PC
<1>9. ASSUME NEW t \in Task, Signal(t) \/ TakeSignal(t) PROVE TypeOK'
  BY <1>9 DEF Signal, TakeSignal
<1>10. ASSUME NEW t \in Task, Preempt(t) PROVE TypeOK'
  BY <1>10, ScheduleFacts DEF Preempt
<1>11. ASSUME NEW t \in Task, Exit(t) PROVE TypeOK'
  <2>1. [state EXCEPT ![t] = "ZOMBIE"] \in [Task -> State]
    BY DEF State
  <2> QED
    BY <1>11, <2>1, ScheduleFacts DEF Exit, PC
<1>12. ASSUME NEW t \in Task, ExitReturns(t) PROVE TypeOK'
  BY <1>12 DEF ExitReturns, PC
<1>13. CASE IdlePause
  BY <1>13, ScheduleFacts DEF IdlePause
<1>14. CASE UNCHANGED vars
  BY <1>14 DEF vars
<1> QED
  BY <1>1, <1>2, <1>3, <1>4, <1>5, <1>6, <1>7, <1>8, <1>9, <1>10, <1>11, <1>12, <1>13, <1>14
  DEF Next, TaskWakeUp, IrqWakeUp

(* The variables of sched.c keep their types in every behaviour              *)
(* (sched.c:68-157).                                                         *)
THEOREM TypeCorrect == Spec => []TypeOK
<1>1. (CHOOSE q \in Queue : TRUE) \in Queue
  BY QueueAssumption
<1>2. Init => TypeOK
  BY <1>1 DEF Init, TypeOK, State, PC
<1> QED
  BY <1>2, TypeStep, PTL DEF Spec

-----------------------------------------------------------------------------
(* Only the running task is between the lines of sleep_on, and on a          *)
(* disciplined queue nothing changes the head in between.                    *)
EntryInv ==
  /\ \A t \in Task : pc[t] \in {"read", "link"} => current = t
  /\ \A t \in Task : pc[t] = "read" /\ wq[t] \in Disciplined => tmp[t] = head[wq[t]]
  /\ \A t \in Task : pc[t] = "link" /\ wq[t] \in Disciplined => head[wq[t]] = t
  /\ \A t \in Task : pc[t] = "isleep" => wq[t] \in IntQueue

IInv == TypeOK /\ EntryInv /\ NoneCutOff

(* A step that neither adds sleepers, nor moves the heads of disciplined     *)
(* queues, nor takes a task out of sleep_on cuts nobody off.                 *)
LEMMA Undisturbed ==
  ASSUME NoneCutOff,
         \A q \in Disciplined : Asleep(q)' \subseteq Asleep(q),
         \A q \in Disciplined : head'[q] = head[q] \/ head[q] \notin Asleep(q)',
         \A u \in Task : pc[u] \in {"link", "sleep"} =>
            /\ pc'[u] \in {"link", "sleep"}
            /\ wq'[u] = wq[u]
            /\ tmp'[u] = tmp[u]
  PROVE  NoneCutOff'
<1> SUFFICES ASSUME NEW q \in Disciplined, NEW S \in SUBSET Asleep(q)', S # {}
             PROVE  Reached(q, S)'
  BY DEF NoneCutOff, Disciplined
<1>1. S \in SUBSET Asleep(q)
  OBVIOUS
<1>2. Reached(q, S)
  BY <1>1 DEF NoneCutOff
<1>3. CASE head[q] \in S
  BY <1>3 DEF Reached
<1>4. CASE \E u \in Task \ S : pc[u] \in {"link", "sleep"} /\ wq[u] = q /\ tmp[u] \in S
  BY <1>4 DEF Reached
<1> QED
  BY <1>2, <1>3, <1>4 DEF Reached

(* What is known of tasks on their way into sleep_on is kept as well.        *)
LEMMA EntryStep == IInv /\ [Next]_vars => EntryInv'
<1> SUFFICES ASSUME IInv, [Next]_vars PROVE EntryInv'
  OBVIOUS
<1>1. TypeOK /\ EntryInv /\ TypeOK'
  BY TypeStep DEF IInv
<1> USE <1>1 DEF TypeOK, EntryInv, Disciplined
<1>2. ASSUME NEW t \in Task, NEW q \in Queue, SleepRead(t, q) PROVE EntryInv'
  BY <1>2 DEF SleepRead
<1>3. ASSUME NEW t \in Task, NEW q \in Queue, IntSleepOn(t, q) PROVE EntryInv'
  BY <1>3 DEF IntSleepOn
<1>4. ASSUME NEW t \in Task, NEW q \in Queue, TaskWakeUp(t, q) PROVE EntryInv'
  BY <1>4 DEF TaskWakeUp, WakeUp
<1>5. ASSUME NEW t \in Task, SleepLink(t) PROVE EntryInv'
  BY <1>5 DEF SleepLink
<1>6. ASSUME NEW t \in Task, SleepBlock(t) PROVE EntryInv'
  BY <1>6 DEF SleepBlock
<1>7. ASSUME NEW t \in Task, SleepReturn(t) PROVE EntryInv'
  BY <1>7 DEF SleepReturn
<1>8. ASSUME NEW t \in Task, IntSleepRepeat(t) PROVE EntryInv'
  BY <1>8 DEF IntSleepRepeat
<1>9. ASSUME NEW t \in Task, IntSleepReturn(t) PROVE EntryInv'
  BY <1>9 DEF IntSleepReturn
<1>10. ASSUME NEW t \in Task, Signal(t) \/ TakeSignal(t) PROVE EntryInv'
  BY <1>10 DEF Signal, TakeSignal
<1>11. ASSUME NEW t \in Task, Preempt(t) \/ Exit(t) \/ ExitReturns(t) PROVE EntryInv'
  BY <1>11 DEF Preempt, Exit, ExitReturns
<1>12. ASSUME NEW q \in Queue, IrqWakeUp(q) PROVE EntryInv'
  BY <1>12 DEF IrqWakeUp, WakeUp, IrqOff
<1>13. CASE IdlePause
  BY <1>13, TaskAssumption DEF IdlePause
<1>14. CASE UNCHANGED vars
  BY <1>14 DEF vars
<1> QED
  BY <1>2, <1>3, <1>4, <1>5, <1>6, <1>7, <1>8, <1>9, <1>10, <1>11, <1>12, <1>13, <1>14
  DEF Next

(* The heart of the matter: each line of sched.c hands the older sleepers    *)
(* from the queue head to a task that will wake them (sched.c:122-127).      *)
LEMMA CutOffStep == IInv /\ [Next]_vars => NoneCutOff'
<1> SUFFICES ASSUME IInv, [Next]_vars PROVE NoneCutOff'
  OBVIOUS
<1>1. TypeOK /\ EntryInv /\ NoneCutOff /\ TypeOK'
  BY TypeStep DEF IInv
<1> USE <1>1 DEF TypeOK
<1>2. ASSUME NEW t \in Task, NEW q \in Queue, SleepRead(t, q) PROVE NoneCutOff'
  BY <1>2, Undisturbed DEF SleepRead, Asleep
<1>3. ASSUME NEW t \in Task, NEW q \in Queue, IntSleepOn(t, q) PROVE NoneCutOff'
  <2>1. [state EXCEPT ![t] = "INTERRUPTIBLE"] \in [Task -> State]
    BY DEF State
  <2>2. \A r \in Disciplined : Asleep(r)' \subseteq Asleep(r) /\ head'[r] = head[r]
    BY <1>3, <2>1, ScheduleFacts DEF IntSleepOn, Asleep, Disciplined
  <2> QED
    BY <1>3, <2>2, Undisturbed DEF IntSleepOn
<1>4. ASSUME NEW q \in Queue, WakeUp(q) PROVE NoneCutOff'
  <2>1. \A r \in Disciplined : Asleep(r)' \subseteq Asleep(r)
    BY <1>4, WakeFacts DEF WakeUp, Asleep
  <2>2. \A r \in Disciplined : head'[r] = head[r] \/ head[r] \notin Asleep(r)'
    BY <1>4, WakeFacts DEF WakeUp, Asleep, Disciplined
  <2> QED
    BY <1>4, <2>1, <2>2, Undisturbed DEF WakeUp
<1>5. ASSUME NEW t \in Task, SleepLink(t) PROVE NoneCutOff'
  <2> SUFFICES ASSUME NEW q \in Disciplined, NEW S \in SUBSET Asleep(q)', S # {}
               PROVE  Reached(q, S)'
    BY DEF NoneCutOff, Disciplined
  <2>1. S \in SUBSET Asleep(q) /\ t \notin S
    BY <1>5 DEF SleepLink, Asleep
  <2>2. Reached(q, S)
    BY <2>1, <1>1 DEF NoneCutOff
  <2>3. CASE head[q] \in S /\ wq[t] = q
    BY <1>5, <2>1, <2>3 DEF SleepLink, Reached, EntryInv
  <2>4. CASE head[q] \in S /\ wq[t] # q
    BY <1>5, <2>4 DEF SleepLink, Reached, Disciplined
  <2>5. CASE \E u \in Task \ S : pc[u] \in {"link", "sleep"} /\ wq[u] = q /\ tmp[u] \in S
    BY <1>5, <2>5 DEF SleepLink, Reached
  <2> QED
    BY <2>2, <2>3, <2>4, <2>5 DEF Reached
<1>6. ASSUME NEW t \in Task, SleepBlock(t) PROVE NoneCutOff'
  <2> SUFFICES ASSUME NEW q \in Disciplined, NEW S \in SUBSET Asleep(q)', S # {}
               PROVE  Reached(q, S)'
    BY DEF NoneCutOff, Disciplined
  <2>1. [state EXCEPT ![t] = "UNINTERRUPTIBLE"] \in [Task -> State]
    BY DEF State
  <2>2. CASE t \in S
    BY <1>6, <2>2 DEF SleepBlock, Reached, EntryInv, Asleep
  <2>3. CASE t \notin S
    <3>1. S \in SUBSET Asleep(q)
      BY <1>6, <2>1, <2>3, ScheduleFacts DEF SleepBlock, Asleep
    <3>2. Reached(q, S)
      BY <3>1, <1>1 DEF NoneCutOff
    <3> QED
      BY <1>6, <3>2 DEF SleepBlock, Reached
  <2> QED
    BY <2>2, <2>3
<1>7. ASSUME NEW t \in Task, SleepReturn(t) PROVE NoneCutOff'
  <2> SUFFICES ASSUME NEW q \in Disciplined, NEW S \in SUBSET Asleep(q)', S # {}
               PROVE  Reached(q, S)'
    BY DEF NoneCutOff, Disciplined
  <2>1. S \in SUBSET Asleep(q) /\ tmp[t] \notin S
    BY <1>7, WakeFacts DEF SleepReturn, Asleep
  <2>2. Reached(q, S)
    BY <2>1, <1>1 DEF NoneCutOff
  <2> QED
    BY <1>7, <2>1, <2>2 DEF SleepReturn, Reached
<1>8. ASSUME NEW t \in Task, IntSleepRepeat(t) PROVE NoneCutOff'
  <2>1. [state EXCEPT ![head[wq[t]]] = "RUNNING", ![t] = "INTERRUPTIBLE"] \in [Task -> State]
    BY DEF State
  <2>2. \A r \in Disciplined : Asleep(r)' \subseteq Asleep(r)
    BY <1>8, <2>1, ScheduleFacts DEF IntSleepRepeat, Asleep
  <2> QED
    BY <1>8, <2>2, Undisturbed DEF IntSleepRepeat
<1>9. ASSUME NEW t \in Task, IntSleepReturn(t) PROVE NoneCutOff'
  <2>1. \A r \in Disciplined : Asleep(r)' \subseteq Asleep(r) /\ head'[r] = head[r]
    BY <1>9, WakeFacts DEF IntSleepReturn, Asleep, Disciplined, EntryInv
  <2> QED
    BY <1>9, <2>1, Undisturbed DEF IntSleepReturn
<1>10. ASSUME NEW t \in Task, Signal(t) \/ TakeSignal(t) PROVE NoneCutOff'
  BY <1>10, Undisturbed DEF Signal, TakeSignal, Asleep
<1>11. ASSUME NEW t \in Task, Preempt(t) PROVE NoneCutOff'
  <2>1. \A r \in Disciplined : Asleep(r)' \subseteq Asleep(r)
    BY <1>11, ScheduleFacts DEF Preempt, Asleep
  <2> QED
    BY <1>11, <2>1, Undisturbed DEF Preempt
<1>12. ASSUME NEW t \in Task, Exit(t) PROVE NoneCutOff'
  <2>1. [state EXCEPT ![t] = "ZOMBIE"] \in [Task -> State]
    BY DEF State
  <2>2. \A r \in Disciplined : Asleep(r)' \subseteq Asleep(r)
    BY <1>12, <2>1, ScheduleFacts DEF Exit, Asleep
  <2> QED
    BY <1>12, <2>2, Undisturbed DEF Exit
<1>13. ASSUME NEW t \in Task, ExitReturns(t) PROVE NoneCutOff'
  BY <1>13, Undisturbed DEF ExitReturns, Asleep
<1>14. CASE IdlePause
  <2>1. \A r \in Disciplined : Asleep(r)' \subseteq Asleep(r)
    BY <1>14, ScheduleFacts DEF IdlePause, Asleep
  <2> QED
    BY <1>14, <2>1, Undisturbed DEF IdlePause
<1>15. CASE UNCHANGED vars
  BY <1>15, Undisturbed DEF vars, Asleep
<1> QED
  BY <1>2, <1>3, <1>4, <1>5, <1>6, <1>7, <1>8, <1>9, <1>10, <1>11, <1>12, <1>13, <1>14, <1>15
  DEF Next, TaskWakeUp, IrqWakeUp

(* At first nobody sleeps.                                                   *)
LEMMA InitOK == Init => IInv
<1> SUFFICES ASSUME Init PROVE IInv
  OBVIOUS
<1>1. (CHOOSE q \in Queue : TRUE) \in Queue
  BY QueueAssumption
<1>2. TypeOK /\ EntryInv
  BY <1>1 DEF Init, TypeOK, EntryInv, State, PC
<1>3. \A q \in Disciplined : Asleep(q) = {}
  BY DEF Init, Asleep
<1>4. NoneCutOff
  BY <1>3 DEF NoneCutOff
<1> QED
  BY <1>2, <1>4 DEF IInv

(* Whatever the interruptible queues, wait_for_request, signals and exits    *)
(* do, no set of sleepers of a disciplined queue is ever forgotten           *)
(* (sched.c:114-128, 151-157).                                               *)
THEOREM NoSleeperForgotten == Spec => []NoneCutOff
<1>2. Init => IInv
  BY InitOK
<1>3. IInv /\ [Next]_vars => IInv'
  BY TypeStep, EntryStep, CutOffStep DEF IInv
<1>4. IInv => NoneCutOff
  BY DEF IInv
<1> QED
  BY <1>2, <1>3, <1>4, PTL DEF Spec

-----------------------------------------------------------------------------
(* No interrupt calls wake_up() between the lines of sleep_on, on any queue. *)
Protected == \A q \in Queue : q \in CliQueue \/ q \notin IrqQueue

(* Inside sleep_on, so that somebody may have a pointer to it: on its way    *)
(* into schedule(), or asleep there.                                         *)
Waits(t, q) ==
  /\ wq[t] = q
  /\ pc[t] = "link" \/ (pc[t] = "sleep" /\ state[t] = "UNINTERRUPTIBLE")

(* Who is pointed to sleeps on that queue, nobody else points to it, and the *)
(* dead are dead.                                                            *)
Headed ==
  \A q \in Queue : head[q] # NULL =>
    IF q \in IntQueue THEN wq[head[q]] = q /\ pc[head[q]] = "isleep" ELSE Waits(head[q], q)

Held ==
  \A u \in Task : pc[u] \in {"link", "sleep"} /\ tmp[u] # NULL =>
    /\ pc[tmp[u]] = "sleep" /\ Waits(tmp[u], wq[u])
    /\ head[wq[u]] # tmp[u]
    /\ \A v \in Task : pc[v] \in {"link", "sleep"} /\ tmp[v] = tmp[u] => v = u

Sleeping ==
  /\ readers \in Readers
  /\ \A u \in Task :
       /\ pc[u] \in {"read", "link", "sleep"} => wq[u] \notin IntQueue
       /\ pc[u] = "isleep" => u \in readers /\ tmp[u] = NULL

Dead ==
  /\ \A t \in Task : pc[t] = "exit" <=> state[t] = "ZOMBIE"
  /\ current \in Task => state[current] = "RUNNING"

Chained == Headed /\ Held /\ Sleeping /\ Dead

(* schedule() wakes no task that sleeps uninterruptibly and no dead one, and *)
(* takes one that may run (sched.c:75-104).                                  *)
LEMMA ScheduleKeeps ==
  ASSUME NEW st \in [Task -> State], Schedule(st), signal \in [Task -> BOOLEAN]
  PROVE  /\ \A t \in Task : st[t] \in {"UNINTERRUPTIBLE", "ZOMBIE"} => state'[t] = st[t]
         /\ \A t \in Task : state'[t] \in {"UNINTERRUPTIBLE", "ZOMBIE"} => state'[t] = st[t]
         /\ current' \in Task => state'[current'] = "RUNNING"
BY TaskAssumption DEF Schedule, Signalled, Runnable, State

(* tmp->state=0 changes one state.                                           *)
LEMMA WakeIs ==
  ASSUME NEW t, NEW st \in [Task -> State]
  PROVE  \A u \in Task : Wake(t, st)[u] = IF u = t /\ t # NULL THEN "RUNNING" ELSE st[u]
BY DEF Wake

(* At most one task sleeps interruptibly.                                    *)
LEMMA OneReader ==
  ASSUME Orderly, readers \in Readers, NEW t \in readers, NEW u \in readers
  PROVE  t = u
<1>1. IsFiniteSet(readers)
  BY TaskAssumption, QueueAssumption, FS_Subset
<1> QED
  BY <1>1, OnlyOne DEF Orderly

(* The head of a queue of readers is the reader, of another queue a sleeper. *)
LEMMA HeadOf ==
  ASSUME Protected, Orderly, IInv, Chained, NEW q \in Queue, head[q] # NULL
  PROVE  /\ head[q] \in Task /\ wq[head[q]] = q
         /\ q \in IntQueue => pc[head[q]] = "isleep" /\ \A t \in readers : t = head[q]
         /\ q \notin IntQueue => Waits(head[q], q) /\ q \in Disciplined
<1>1. head[q] \in Task
  BY DEF IInv, TypeOK
<1>2. CASE q \in IntQueue
  BY <1>1, <1>2, OneReader DEF Chained, Headed, Sleeping
<1>3. CASE q \notin IntQueue
  BY <1>1, <1>3 DEF Chained, Headed, Waits, Disciplined, Protected
<1> QED
  BY <1>1, <1>2, <1>3

(* Each line of sched.c keeps that, as the pointers move with the sleepers.  *)
LEMMA ChainedStep ==
  ASSUME Protected, Orderly, IInv, Chained, [Next]_vars
  PROVE  Chained'
<1>1. TypeOK /\ EntryInv /\ Headed /\ Held /\ Sleeping /\ Dead
  BY DEF IInv, Chained
<1>2. TypeOK' /\ EntryInv'
  BY TypeStep, EntryStep DEF IInv
<1> USE <1>1 DEF TypeOK, Waits
<1>3. ASSUME NEW t \in Task, NEW q \in Queue, SleepRead(t, q) PROVE Chained'
  <2>1. Headed'
    BY <1>3 DEF SleepRead, Headed
  <2>2. Held'
    BY <1>3 DEF SleepRead, Held
  <2>3. Sleeping' /\ Dead'
    BY <1>3 DEF SleepRead, Sleeping, Dead
  <2> QED
    BY <2>1, <2>2, <2>3 DEF Chained
<1>4. ASSUME NEW t \in Task, NEW q \in Queue, IntSleepOn(t, q) PROVE Chained'
  <2>1. [state EXCEPT ![t] = "INTERRUPTIBLE"] \in [Task -> State]
    BY DEF State
  <2>2. \A u \in Task : u # t /\ state[u] = "UNINTERRUPTIBLE" => state'[u] = "UNINTERRUPTIBLE"
    BY <1>4, <2>1, ScheduleKeeps DEF IntSleepOn
  <2>3. head[q] = NULL
    BY <1>4, HeadOf DEF IntSleepOn
  <2>4. Headed'
    BY <1>4, <2>2, TaskAssumption DEF IntSleepOn, Headed
  <2>5. Held'
    BY <1>4, <2>2, <2>3, TaskAssumption DEF IntSleepOn, Held, Sleeping
  <2>6. Sleeping' /\ Dead'
    BY <1>4, <2>1, <2>3, ScheduleKeeps DEF IntSleepOn, Sleeping, Dead
  <2> QED
    BY <2>4, <2>5, <2>6 DEF Chained
<1>5. ASSUME NEW q \in Queue, WakeUp(q), \A t \in Task : pc[t] = "link" => wq[t] # q
      PROVE  Chained'
  <2>1. Headed'
    BY <1>5, WakeIs DEF WakeUp, Headed
  <2>2. Held'
    BY <1>5, WakeIs, HeadOf DEF WakeUp, Held
  <2>3. Sleeping' /\ Dead'
    BY <1>5, WakeIs, HeadOf DEF WakeUp, Sleeping, Dead
  <2> QED
    BY <2>1, <2>2, <2>3 DEF Chained
<1>6. ASSUME NEW t \in Task, SleepLink(t) PROVE Chained'
  <2>1. wq[t] \in Queue \ IntQueue /\ tmp[t] = head[wq[t]]
    BY <1>6 DEF SleepLink, Sleeping, EntryInv, Disciplined, Protected
  <2>2. tmp[t] # NULL => tmp[t] \in Task /\ pc[tmp[t]] = "sleep" /\ Waits(tmp[t], wq[t])
    BY <1>6, <2>1, HeadOf DEF SleepLink, EntryInv
  <2>3. Headed'
    BY <1>6, <2>1 DEF SleepLink, Headed
  <2>4. Held'
    BY <1>6, <2>1, <2>2 DEF SleepLink, Held
  <2>5. Sleeping' /\ Dead'
    BY <1>6 DEF SleepLink, Sleeping, Dead
  <2> QED
    BY <2>3, <2>4, <2>5 DEF Chained
<1>7. ASSUME NEW t \in Task, SleepBlock(t) PROVE Chained'
  <2>1. [state EXCEPT ![t] = "UNINTERRUPTIBLE"] \in [Task -> State]
    BY DEF State
  <2>2. \A u \in Task : u # t /\ state[u] = "UNINTERRUPTIBLE" => state'[u] = "UNINTERRUPTIBLE"
    BY <1>7, <2>1, ScheduleKeeps DEF SleepBlock
  <2>3. state'[t] = "UNINTERRUPTIBLE"
    BY <1>7, <2>1, ScheduleKeeps DEF SleepBlock
  <2>4. Headed'
    BY <1>7, <2>2, <2>3, TaskAssumption DEF SleepBlock, Headed
  <2>5. Held'
    BY <1>7, <2>2, <2>3, TaskAssumption DEF SleepBlock, Held
  <2>6. Sleeping' /\ Dead'
    BY <1>7, <2>1, ScheduleKeeps DEF SleepBlock, Sleeping, Dead
  <2> QED
    BY <2>4, <2>5, <2>6 DEF Chained
<1>8. ASSUME NEW t \in Task, SleepReturn(t) PROVE Chained'
  <2>1. state[t] = "RUNNING"
    BY <1>8 DEF SleepReturn, Dead
  <2>2. Headed'
    BY <1>8, <2>1, WakeIs DEF SleepReturn, Headed, Held
  <2>3. Held'
    BY <1>8, <2>1, WakeIs DEF SleepReturn, Held
  <2>4. Sleeping' /\ Dead'
    BY <1>8, <2>1, WakeIs DEF SleepReturn, Sleeping, Dead, Held
  <2> QED
    BY <2>2, <2>3, <2>4 DEF Chained
<1>9. ASSUME NEW t \in Task, IntSleepRepeat(t) PROVE Chained'
  <2>1. wq[t] \in IntQueue /\ t \in readers
    BY <1>9 DEF IntSleepRepeat, EntryInv, Sleeping
  <2> QED
    BY <1>9, <2>1, HeadOf DEF IntSleepRepeat
<1>10. ASSUME NEW t \in Task, IntSleepReturn(t) PROVE Chained'
  <2>1. tmp[t] = NULL /\ wq[t] \in IntQueue
    BY <1>10 DEF IntSleepReturn, Sleeping, EntryInv
  <2>2. Headed'
    BY <1>10, <2>1, WakeIs DEF IntSleepReturn, Headed
  <2>3. Held'
    BY <1>10, <2>1, WakeIs DEF IntSleepReturn, Held, Sleeping
  <2>4. Sleeping' /\ Dead'
    BY <1>10, <2>1, WakeIs DEF IntSleepReturn, Sleeping, Dead
  <2> QED
    BY <2>2, <2>3, <2>4 DEF Chained
<1>11. ASSUME NEW t \in Task, Signal(t) \/ TakeSignal(t) PROVE Chained'
  BY <1>11 DEF Signal, TakeSignal, Chained, Headed, Held, Sleeping, Dead
<1>12. ASSUME Schedule(state), UNCHANGED <<signal, head, pc, wq, tmp, readers>> PROVE Chained'
  BY <1>12, ScheduleKeeps DEF Chained, Headed, Held, Sleeping, Dead
<1>13. ASSUME NEW t \in Task, Exit(t) PROVE Chained'
  <2>1. [state EXCEPT ![t] = "ZOMBIE"] \in [Task -> State]
    BY DEF State
  <2>2. \A u \in Task : u # t /\ state[u] = "UNINTERRUPTIBLE" => state'[u] = "UNINTERRUPTIBLE"
    BY <1>13, <2>1, ScheduleKeeps DEF Exit
  <2>3. Headed'
    BY <1>13, <2>2, TaskAssumption DEF Exit, Headed
  <2>4. Held'
    BY <1>13, <2>2, TaskAssumption DEF Exit, Held
  <2>5. Sleeping' /\ Dead'
    BY <1>13, <2>1, ScheduleKeeps DEF Exit, Sleeping, Dead
  <2> QED
    BY <2>3, <2>4, <2>5 DEF Chained
<1>14. ASSUME NEW t \in Task PROVE ~ExitReturns(t)
  BY DEF ExitReturns, Dead
<1>15. CASE UNCHANGED vars
  BY <1>15 DEF vars, Chained, Headed, Held, Sleeping, Dead
<1>16. ASSUME NEW t \in Task, NEW q \in Queue, TaskWakeUp(t, q) PROVE Chained'
  BY <1>5, <1>16 DEF TaskWakeUp, EntryInv
<1>17. ASSUME NEW q \in Queue, IrqWakeUp(q) PROVE Chained'
  BY <1>5, <1>17 DEF IrqWakeUp, IrqOff, EntryInv, Protected
<1> QED
  BY <1>3, <1>4, <1>6, <1>7, <1>8, <1>9, <1>10, <1>11, <1>12, <1>13, <1>14, <1>15, <1>16, <1>17
  DEF Next, Preempt, IdlePause

(* Who is dead is nobody's head and nobody's tmp, so no step wakes it.       *)
LEMMA DeadKept ==
  ASSUME Protected, Orderly, IInv, Chained, [Next]_vars, NEW t \in Task, state[t] = "ZOMBIE"
  PROVE  state'[t] = "ZOMBIE"
<1>1. Chained'
  BY ChainedStep
<1>2. pc[t] = "exit"
  BY DEF Chained, Dead
<1>3. pc'[t] = "exit"
  <2>1. current # t
    BY DEF Chained, Dead
  <2> QED
    BY <1>2, <2>1 DEF IInv, TypeOK, Next, vars, SleepRead, IntSleepOn, TaskWakeUp, SleepLink, SleepBlock,
      SleepReturn, IntSleepRepeat, IntSleepReturn, Signal, TakeSignal, Preempt, Exit, ExitReturns,
      IrqWakeUp, IdlePause, WakeUp
<1> QED
  BY <1>1, <1>3 DEF Chained, Dead

(* The invariant holds at first, and every step keeps it.                    *)
LEMMA InitInv ==
  ASSUME Init
  PROVE  IInv /\ (Orderly => Chained)
BY TaskAssumption, InitOK DEF Init, Chained, Headed, Held, Sleeping, Dead

(* Who may sleep interruptibly does not change.                              *)
LEMMA ReadersStay ==
  ASSUME [Next]_vars
  PROVE  readers' = readers
BY DEF Next, vars, SleepRead, IntSleepOn, TaskWakeUp, SleepLink, SleepBlock, SleepReturn, IntSleepRepeat,
  IntSleepReturn, Signal, TakeSignal, Preempt, Exit, ExitReturns, IrqWakeUp, IdlePause, WakeUp

(* So the invariant is kept whoever may sleep interruptibly.                  *)
LEMMA NextInv ==
  ASSUME Protected, IInv, Orderly => Chained, [Next]_vars
  PROVE  (IInv /\ (Orderly => Chained))'
<1>1. IInv'
  BY TypeStep, EntryStep, CutOffStep DEF IInv
<1>2. Orderly' => Orderly
  BY ReadersStay DEF Orderly
<1> QED
  BY <1>1, <1>2, ChainedStep

(* A task that has exited is never made runnable again by a pointer somebody *)
(* still has to it, if sleep_on runs without interrupts that wake and one    *)
(* task sleeps interruptibly (sched.c:114-157, exit.c:85-91).                *)
THEOREM DeadStayDead ==
  ASSUME Protected
  PROVE  Spec => NoRevival
<1> DEFINE Inv == IInv /\ (Orderly => Chained)
<1>1. Init => Inv
  BY InitInv
<1>2. Inv /\ [Next]_vars => Inv'
  BY NextInv
<1>3. Inv /\ [Next]_vars => [Orderly => \A t \in Task : state[t] = "ZOMBIE" => state'[t] = "ZOMBIE"]_vars
  BY DeadKept
<1> QED
  BY <1>1, <1>2, <1>3, PTL DEF Spec, NoRevival

-----------------------------------------------------------------------------
(* What is reached from x along the pointers T: Chain(q) from head[q].       *)
Onward(T, S) == S \union ({T[t] : t \in S} \ {NULL})
Reaching(h, x, T) ==
  h = [n \in 0 .. Cardinality(Task) |-> IF n = 0 THEN {x} \ {NULL} ELSE Onward(T, h[n - 1])]
Reach(x, T) == (CHOOSE h : Reaching(h, x, T))[Cardinality(Task)]

Pointer == Task \union {NULL}
Closed(S, x, T) == (x # NULL => x \in S) /\ \A t \in S : T[t] # NULL => T[t] \in S

(* It is the least set with x that is closed: after as many steps as there   *)
(* are tasks nothing can be added any more.                                  *)
LEMMA ReachIs ==
  ASSUME NEW x \in Pointer, NEW T \in [Task -> Pointer]
  PROVE  /\ Reach(x, T) \subseteq Task
         /\ Closed(Reach(x, T), x, T)
         /\ \A S : Closed(S, x, T) => Reach(x, T) \subseteq S
<1> DEFINE N == Cardinality(Task)
           V == SUBSET Task
           v == {x} \ {NULL}
           G == [S \in V |-> Onward(T, S)]
           h == CHOOSE f : Reaching(f, x, T)
<1>0. IsFiniteSet(Task) /\ N \in Nat /\ NULL \notin Task
  BY TaskAssumption, FS_CardinalityType
<1>1. v \in V /\ \A S \in V : Onward(T, S) \in V
  BY DEF Onward, Pointer
<1>2. \E f : Reaching(f, x, T)
  <2>1. G \in [V -> V]
    BY <1>1
  <2>2. PICK f \in [0 .. N -> V] : Iterates(f, G, v, N)
    <3> HIDE DEF N, V, v, G
    <3> QED
      BY <1>0, <1>1, <2>1, IterationExists
  <2>3. f[0] = v /\ \A n \in 1 .. N : f[n] = Onward(T, f[n - 1])
    <3>1. f[0] = v /\ \A n \in 1 .. N : f[n] = G[f[n - 1]]
      BY <2>2 DEF Iterates
    <3>2. \A n \in 1 .. N : f[n - 1] \in V
      BY <1>0, <2>2
    <3> QED
      BY <3>1, <3>2
  <2> DEFINE g == [n \in 0 .. N |-> IF n = 0 THEN v ELSE Onward(T, f[n - 1])]
  <2>4. \A n \in 0 .. N : f[n] = g[n]
    BY <1>0, <2>3
  <2>5. f = g
    <3> HIDE DEF V
    <3> QED
      BY <2>2, <2>4
  <2> QED
    BY <2>5 DEF Reaching
<1>3. h[0] = v /\ \A n \in 1 .. N : h[n] = Onward(T, h[n - 1])
  <2>1. Reaching(h, x, T)
    BY <1>2
  <2> HIDE DEF h
  <2>2. \A n \in 0 .. N : h[n] = IF n = 0 THEN v ELSE Onward(T, h[n - 1])
    <3> HIDE DEF v, V, G
    <3>1. h = [n \in 0 .. N |-> IF n = 0 THEN v ELSE Onward(T, h[n - 1])]
      BY <2>1 DEF Reaching, v
    <3> HIDE DEF N
    <3> QED
      BY <3>1
  <2> HIDE DEF N, v, V, G
  <2> QED
    BY <1>0, <2>2
<1>4. Reach(x, T) = h[N]
  BY DEF Reach
<1> HIDE DEF h, N, V, G, v
<1> DEFINE Fine(n) == /\ h[n] \in V /\ v \subseteq h[n]
                      /\ Onward(T, h[n]) = h[n] \/ Cardinality(h[n]) >= n + 1
                      /\ \A S : Closed(S, x, T) => h[n] \subseteq S
           U == {n \in 0 .. N : Fine(n)}
<1>5. Fine(0)
  <2>1. h[0] = v /\ v \in V
    BY <1>1, <1>3
  <2>2. \A S : Closed(S, x, T) => v \subseteq S
    BY DEF Closed, v
  <2>3. CASE x = NULL
    BY <2>1, <2>2, <2>3 DEF Onward, v
  <2>4. CASE x # NULL
    <3>1. Cardinality({x}) = 1 /\ v = {x}
      BY <2>4, FS_Singleton DEF v
    <3>2. Cardinality(h[0]) >= 0 + 1
      BY <2>1, <3>1
    <3> QED
      BY <2>1, <2>2, <3>2
  <2> QED
    BY <2>3, <2>4
<1>6. ASSUME NEW n \in 1 .. N, Fine(n - 1)
      PROVE  Fine(n)
  <2>1. h[n] = Onward(T, h[n - 1])
    BY <1>3
  <2>2. h[n] \in V /\ h[n - 1] \subseteq h[n] /\ v \subseteq h[n]
    BY <1>1, <1>6, <2>1 DEF Onward
  <2>3. ASSUME NEW S, Closed(S, x, T)
        PROVE  h[n] \subseteq S
    BY <1>6, <2>1, <2>3 DEF Closed, Onward
  <2>4. CASE Onward(T, h[n - 1]) = h[n - 1]
    BY <2>1, <2>2, <2>3, <2>4
  <2>5. CASE Onward(T, h[n - 1]) # h[n - 1]
    <3>1. Cardinality(h[n - 1]) >= n /\ n \in Nat
      BY <1>0, <1>6, <2>5
    <3>2. IsFiniteSet(h[n]) /\ IsFiniteSet(h[n - 1])
      BY <1>0, <1>6, <2>2, FS_Subset DEF V
    <3>3. h[n - 1] # h[n]
      BY <2>1, <2>5
    <3>4. Cardinality(h[n - 1]) < Cardinality(h[n])
      BY <2>2, <3>2, <3>3, FS_Subset, FS_CardinalityType
    <3>5. Cardinality(h[n]) >= n + 1
      BY <3>1, <3>2, <3>4, FS_CardinalityType
    <3> QED
      BY <2>2, <2>3, <3>5
  <2> QED
    BY <2>4, <2>5
<1>7. 0 .. N \subseteq U
  <2>1. 0 \in U
    BY <1>0, <1>5
  <2>2. \A n \in 1 .. N : n - 1 \in U => n \in U
    <3> HIDE DEF Fine
    <3> QED
      BY <1>0, <1>6
  <2> HIDE DEF U
  <2> QED
    BY <1>0, <2>1, <2>2, Climbing
<1>8. Fine(N)
  <2> HIDE DEF Fine
  <2> QED
    BY <1>0, <1>7
<1>9. Onward(T, h[N]) = h[N]
  <2>1. IsFiniteSet(h[N]) /\ Cardinality(h[N]) <= N
    BY <1>0, <1>8, FS_Subset DEF V, N
  <2> QED
    BY <1>0, <1>8, <2>1, FS_CardinalityType
<1>10. Closed(h[N], x, T)
  BY <1>8, <1>9 DEF Closed, Onward, v
<1> QED
  BY <1>4, <1>8, <1>10 DEF V

(* Pointers of others do not matter.                                         *)
LEMMA ReachSame ==
  ASSUME NEW x \in Pointer, NEW T \in [Task -> Pointer], NEW U \in [Task -> Pointer],
         \A t \in Reach(x, T) : U[t] = T[t]
  PROVE  Reach(x, U) = Reach(x, T)
<1>1. Closed(Reach(x, T), x, T) /\ Closed(Reach(x, U), x, U)
  BY ReachIs
<1>2. Closed(Reach(x, T), x, U)
  BY <1>1 DEF Closed
<1>3. Reach(x, U) \subseteq Reach(x, T)
  BY <1>2, ReachIs
<1>4. Closed(Reach(x, U), x, T)
  BY <1>1, <1>3 DEF Closed
<1>5. Reach(x, T) \subseteq Reach(x, U)
  BY <1>4, ReachIs
<1> QED
  BY <1>3, <1>5

(* A task put before x reaches what x reaches, and nothing else.             *)
LEMMA ReachMore ==
  ASSUME NEW t \in Task, NEW T \in [Task -> Pointer]
  PROVE  Reach(t, T) = {t} \union Reach(T[t], T)
<1>0. t \in Pointer /\ T[t] \in Pointer /\ t # NULL
  BY TaskAssumption DEF Pointer
<1>1. Closed(Reach(t, T), t, T) /\ Closed(Reach(T[t], T), T[t], T)
  BY <1>0, ReachIs
<1>2. Closed({t} \union Reach(T[t], T), t, T)
  BY <1>1 DEF Closed
<1>3. Closed(Reach(t, T), T[t], T)
  BY <1>0, <1>1 DEF Closed
<1>4. Reach(t, T) \subseteq {t} \union Reach(T[t], T)
  BY <1>0, <1>2, ReachIs
<1>5. Reach(T[t], T) \subseteq Reach(t, T)
  BY <1>0, <1>3, ReachIs
<1> QED
  BY <1>0, <1>1, <1>4, <1>5 DEF Closed

(* The chain of a queue by its head.                                         *)
LEMMA ChainIs ==
  ASSUME NEW q \in Queue
  PROVE  Chain(q) = Reach(head[q], tmp) /\ Chain(q)' = Reach(head'[q], tmp')
BY DEF Chain, Links, Reach, Reaching, Onward

-----------------------------------------------------------------------------
(* The chain of a queue is made of tasks that wait on it.                    *)
LEMMA ChainWaits ==
  ASSUME Protected, Orderly, IInv, Chained, NEW q \in Disciplined
  PROVE  \A t \in Chain(q) : t \in Task /\ Waits(t, q)
<1> DEFINE S == {t \in Task : Waits(t, q)}
<1>1. q \in Queue \ IntQueue /\ head[q] \in Pointer /\ tmp \in [Task -> Pointer]
  BY DEF Disciplined, IInv, TypeOK, Pointer
<1>2. Closed(S, head[q], tmp)
  <2>1. head[q] # NULL => head[q] \in S
    BY <1>1, HeadOf
  <2>2. ASSUME NEW t \in S, tmp[t] # NULL
        PROVE  tmp[t] \in S
    BY <1>1, <2>2 DEF Chained, Held, Waits, Pointer
  <2> HIDE DEF S
  <2> QED
    BY <2>1, <2>2 DEF Closed
<1>3. Chain(q) \subseteq S
  <2> HIDE DEF S
  <2> QED
    BY <1>1, <1>2, ReachIs, ChainIs
<1> QED
  BY <1>3

(* A chain changes with its head and its own pointers only.                  *)
LEMMA ChainStays ==
  ASSUME Protected, Orderly, IInv, Chained, TypeOK', NEW q \in Disciplined, head'[q] = head[q],
         \A t \in Task : Waits(t, q) => tmp'[t] = tmp[t]
  PROVE  Chain(q)' = Chain(q)
<1>1. q \in Queue /\ head[q] \in Pointer /\ tmp \in [Task -> Pointer] /\ tmp' \in [Task -> Pointer]
  BY DEF Disciplined, IInv, TypeOK, Pointer
<1>2. \A t \in Reach(head[q], tmp) : tmp'[t] = tmp[t]
  BY <1>1, ChainIs, ChainWaits
<1> QED
  BY <1>1, <1>2, ReachSame, ChainIs

(* The variables of WaitSet, for tasks of which one sleeps interruptibly.    *)
Waiting == [q \in Disciplined |-> Chain(q)]
Released == InSleep \ UNION {Chain(q) : q \in Disciplined}

(* What a step has to do to them to be one of WaitSet.                       *)
LEMMA Mapped ==
  ASSUME Orderly, readers' = readers
  PROVE  /\ Waiting' = Waiting /\ Released' = Released => UNCHANGED Promise!vars
         /\ (\E t \in Task, q \in Disciplined :
               /\ t \notin Released /\ \A r \in Disciplined : t \notin Waiting[r]
               /\ Waiting' = [Waiting EXCEPT ![q] = @ \union {t}]
               /\ Released' = Released) => Promise!Next
         /\ (\E q \in Disciplined :
               /\ Waiting' = [Waiting EXCEPT ![q] = {}]
               /\ Released' = Released \union Waiting[q]) => Promise!Next
         /\ (\E t \in Released : t \in Task /\ Released' = Released \ {t} /\ Waiting' = Waiting)
              => Promise!Next
<1>1. Orderly'
  BY DEF Orderly
<1> QED
  BY <1>1 DEF Waiting, Released, Promise!Next, Promise!Sleep, Promise!WakeAll, Promise!Return, Promise!vars

(* A step that leaves heads, pointers and sleepers alone is none of WaitSet. *)
LEMMA Unmoved ==
  ASSUME Protected, Orderly, IInv, Chained, TypeOK', InSleep' = InSleep, readers' = readers,
         \A q \in Disciplined : head'[q] = head[q],
         \A t \in InSleep : tmp'[t] = tmp[t]
  PROVE  UNCHANGED Promise!vars
<1>1. \A q \in Disciplined : Chain(q)' = Chain(q)
  BY ChainStays DEF InSleep, Waits
<1> QED
  BY <1>1, Mapped DEF Waiting, Released

(* Every line of sched.c is a step of WaitSet or none.                       *)
LEMMA PromiseStep ==
  ASSUME Protected, Orderly, IInv, Chained, [Next]_vars
  PROVE  [Promise!Next]_Promise!vars
<1>0. TypeOK /\ EntryInv /\ Headed /\ Held /\ Sleeping /\ Dead /\ TypeOK'
  BY TypeStep DEF IInv, Chained
<1>3. ASSUME NEW t \in Task, NEW q \in Queue, SleepRead(t, q) PROVE UNCHANGED Promise!vars
  BY <1>0, <1>3, Unmoved DEF SleepRead, InSleep, TypeOK
<1>4. ASSUME NEW t \in Task, NEW q \in Queue, IntSleepOn(t, q) PROVE UNCHANGED Promise!vars
  BY <1>0, <1>4, Unmoved DEF IntSleepOn, InSleep, TypeOK, Disciplined
<1>5. ASSUME NEW q \in Queue, WakeUp(q) PROVE [Promise!Next]_Promise!vars
  <2>1. readers' = readers /\ InSleep' = InSleep /\ tmp' = tmp
    BY <1>5 DEF WakeUp, InSleep
  <2>2. CASE q \notin Disciplined
    BY <1>0, <1>5, <2>1, <2>2, Unmoved DEF WakeUp, TypeOK
  <2>3. CASE q \in Disciplined
    <3>1. \A r \in Disciplined \ {q} : Chain(r)' = Chain(r)
      BY <1>0, <1>5, <2>1, ChainStays DEF WakeUp, TypeOK, Disciplined
    <3>2. Chain(q)' = {}
      <4>1. head'[q] = NULL /\ NULL \in Pointer /\ tmp' \in [Task -> Pointer]
        BY <1>0, <1>5 DEF WakeUp, TypeOK, Pointer
      <4>2. Closed({}, NULL, tmp')
        BY DEF Closed
      <4> QED
        BY <4>1, <4>2, ReachIs, ChainIs
    <3>3. Waiting' = [Waiting EXCEPT ![q] = {}]
      BY <3>1, <3>2 DEF Waiting
    <3>4. \A t \in Chain(q) : t \in InSleep /\ \A r \in Disciplined \ {q} : t \notin Chain(r)
      BY <2>3, ChainWaits DEF InSleep, Waits
    <3>5. Released' = Released \union Waiting[q]
      BY <2>1, <2>3, <3>1, <3>2, <3>4 DEF Waiting, Released
    <3> QED
      BY <2>1, <2>3, <3>3, <3>5, Mapped
  <2> QED
    BY <2>2, <2>3
<1>6. ASSUME NEW t \in Task, SleepLink(t) PROVE Promise!Next
  <2>1. PICK q \in Disciplined : q = wq[t] /\ q \in Queue /\ tmp[t] = head[q]
    BY <1>0, <1>6 DEF SleepLink, TypeOK, Sleeping, EntryInv, Disciplined, Protected
  <2>2. readers' = readers /\ tmp' = tmp /\ head'[q] = t /\ InSleep' = InSleep \union {t} /\ t \notin InSleep
    BY <1>0, <1>6, <2>1 DEF SleepLink, InSleep, TypeOK
  <2>3. \A r \in Disciplined \ {q} : Chain(r)' = Chain(r)
    <3>1. \A r \in Disciplined \ {q} : head'[r] = head[r]
      BY <1>0, <1>6, <2>1 DEF SleepLink, TypeOK, Disciplined
    <3> QED
      BY <1>0, <2>2, <3>1, ChainStays
  <2>4. Chain(q)' = Chain(q) \union {t}
    <3>1. tmp \in [Task -> Pointer]
      BY <1>0 DEF TypeOK, Pointer
    <3>2. Chain(q)' = Reach(t, tmp)
      BY <2>1, <2>2, ChainIs
    <3>3. Chain(q) = Reach(tmp[t], tmp)
      BY <2>1, ChainIs
    <3> QED
      BY <3>1, <3>2, <3>3, ReachMore
  <2>5. \A r \in Disciplined : t \notin Chain(r)
    BY <2>2, ChainWaits DEF InSleep, Waits
  <2>6. Waiting' = [Waiting EXCEPT ![q] = @ \union {t}]
    BY <2>1, <2>3, <2>4 DEF Waiting
  <2>7. Released' = Released
    BY <2>1, <2>2, <2>3, <2>4, <2>5 DEF Released
  <2>8. t \notin Released /\ \A r \in Disciplined : t \notin Waiting[r]
    BY <2>2, <2>5 DEF Released, Waiting
  <2> QED
    BY <2>1, <2>2, <2>6, <2>7, <2>8, Mapped
<1>7. ASSUME NEW t \in Task, SleepBlock(t) PROVE UNCHANGED Promise!vars
  BY <1>0, <1>7, Unmoved DEF SleepBlock, InSleep, TypeOK
<1>8. ASSUME NEW t \in Task, SleepReturn(t) PROVE Promise!Next
  <2>1. readers' = readers /\ InSleep' = InSleep \ {t} /\ t \in InSleep /\ head' = head
    BY <1>0, <1>8 DEF SleepReturn, InSleep, TypeOK
  <2>2. \A r \in Disciplined : ~Waits(t, r)
    BY <1>0, <1>8 DEF SleepReturn, Dead, Waits
  <2>3. \A r \in Disciplined : Chain(r)' = Chain(r)
    BY <1>0, <1>8, <2>2, ChainStays DEF SleepReturn, TypeOK
  <2>4. \A r \in Disciplined : t \notin Chain(r)
    BY <2>2, ChainWaits
  <2>5. t \in Released /\ Released' = Released \ {t} /\ Waiting' = Waiting
    BY <2>1, <2>3, <2>4 DEF Released, Waiting
  <2> QED
    BY <2>1, <2>5, Mapped
<1>9. ASSUME NEW t \in Task, IntSleepRepeat(t) PROVE UNCHANGED Promise!vars
  BY <1>0, <1>9, Unmoved DEF IntSleepRepeat, InSleep
<1>10. ASSUME NEW t \in Task, IntSleepReturn(t) PROVE UNCHANGED Promise!vars
  <2>1. wq[t] \in IntQueue
    BY <1>0, <1>10 DEF IntSleepReturn, EntryInv
  <2> QED
    BY <1>0, <1>10, <2>1, Unmoved DEF IntSleepReturn, InSleep, TypeOK, Disciplined
<1>11. ASSUME NEW t \in Task, Signal(t) \/ TakeSignal(t) PROVE UNCHANGED Promise!vars
  BY <1>0, <1>11, Unmoved DEF Signal, TakeSignal, InSleep
<1>12. ASSUME UNCHANGED <<head, pc, tmp, readers>> PROVE UNCHANGED Promise!vars
  BY <1>0, <1>12, Unmoved DEF InSleep
<1>13. ASSUME NEW t \in Task, Exit(t) \/ ExitReturns(t) PROVE UNCHANGED Promise!vars
  BY <1>0, <1>13, Unmoved DEF Exit, ExitReturns, InSleep, TypeOK
<1> QED
  BY <1>3, <1>4, <1>5, <1>6, <1>7, <1>8, <1>9, <1>10, <1>11, <1>12, <1>13
  DEF Next, vars, TaskWakeUp, IrqWakeUp, Preempt, IdlePause

(* Nobody waits at first.                                                    *)
LEMMA PromiseInit ==
  ASSUME Init
  PROVE  Promise!Init
<1>1. InSleep = {}
  BY DEF Init, InSleep
<1>2. ASSUME NEW q \in Disciplined
      PROVE  Chain(q) = {}
  <2>1. q \in Queue /\ head[q] = NULL /\ NULL \in Pointer /\ tmp \in [Task -> Pointer]
    BY DEF Init, Pointer, Disciplined
  <2>2. Closed({}, NULL, tmp)
    BY DEF Closed
  <2> QED
    BY <2>1, <2>2, ReachIs, ChainIs
<1> QED
  BY <1>1, <1>2 DEF Promise!Init

(* sleep_on() and wake_up() are those of a set of waiting tasks: who sleeps  *)
(* is in the set, wake_up() releases all of them, nobody returns before, and *)
(* nothing else changes the set (sched.c:114-128, 151-157).                  *)
THEOREM PromiseKept ==
  ASSUME Protected
  PROVE  Spec => Promise!Init /\ [][Promise!Next]_Promise!vars
<1> DEFINE Inv == IInv /\ (Orderly => Chained)
<1>1. Init => Inv
  BY InitInv
<1>2. Inv /\ [Next]_vars => Inv'
  BY NextInv
<1>3. Inv /\ [Next]_vars => [Promise!Next]_Promise!vars
  <2> SUFFICES ASSUME Inv, [Next]_vars PROVE [Promise!Next]_Promise!vars
    OBVIOUS
  <2>1. CASE Orderly
    BY <2>1, PromiseStep
  <2>2. CASE ~Orderly
    <3>1. ~Orderly'
      BY <2>2, ReadersStay DEF Orderly
    <3> QED
      BY <2>2, <3>1 DEF Promise!vars
  <2> QED
    BY <2>1, <2>2
<1>4. Init => Promise!Init
  BY PromiseInit
<1> QED
  BY <1>1, <1>2, <1>3, <1>4, PTL DEF Spec
=============================================================================
