------------------------------- MODULE MCSched -------------------------------
(* Instances of Sched.tla for TLC.                                           *)
EXTENDS Sched

Kill == {SIGKILL, SIGALRM, SIGCHLD}
Children2 == {SIGALRM, SIGCHLD}
=============================================================================
