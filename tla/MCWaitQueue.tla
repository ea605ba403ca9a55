----------------------------- MODULE MCWaitQueue -----------------------------
(* Instances of WaitQueue.tla for TLC: which queues exist and how their      *)
(* callers treat interrupts.                                                 *)
EXTENDS WaitQueue

CONSTANTS a, b, c            \* tasks
CONSTANTS buf, tty           \* b_wait, proc_list

MCTask == {a, b, c}

Queues == {buf, tty}
Terminal == {tty}
OneOrTwo == {{c}, {b, c}}
Cli == {buf, tty}
=============================================================================
