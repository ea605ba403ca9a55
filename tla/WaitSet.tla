------------------------------- MODULE WaitSet -------------------------------
(***************************************************************************)
(* What kernel/sched.c promises to the users of a wait queue, without the   *)
(* chain of stack pointers that implements it: a queue is a set of tasks,   *)
(* sleep_on() adds the caller, wake_up() releases every task of the set,    *)
(* and a released task returns from sleep_on().                             *)
(***************************************************************************)
CONSTANTS Task, Queue

VARIABLES
  waiting,   \* the tasks asleep on each queue
  released   \* the tasks a wake_up has released and that did not return yet

vars == <<waiting, released>>

Init ==
  /\ waiting = [q \in Queue |-> {}]
  /\ released = {}

Sleep(t, q) ==
  /\ t \notin released
  /\ \A r \in Queue : t \notin waiting[r]
  /\ waiting' = [waiting EXCEPT ![q] = @ \union {t}]
  /\ UNCHANGED released

WakeAll(q) ==
  /\ waiting' = [waiting EXCEPT ![q] = {}]
  /\ released' = released \union waiting[q]

Return(t) ==
  /\ t \in released
  /\ released' = released \ {t}
  /\ UNCHANGED waiting

Next ==
  \/ \E t \in Task, q \in Queue : Sleep(t, q)
  \/ \E q \in Queue : WakeAll(q)
  \/ \E t \in Task : Return(t)

Spec == Init /\ [][Next]_vars /\ \A t \in Task : WF_vars(Return(t))
=============================================================================
