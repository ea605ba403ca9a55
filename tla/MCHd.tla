-------------------------------- MODULE MCHd --------------------------------
(* Instances of Hd.tla for TLC: where the disk interrupts and fails.         *)
EXTENDS Hd

Everywhere == {}
\* Not while a request is added, nor in sleep_on after the task is linked.
Windows == {"first", "second", "append", "search", "sorted", "link"}
\* Between the test of this_request->next and the append, lines 349 to 352.
Appending == {"second", "append"}
FirstSector == {0}
=============================================================================
