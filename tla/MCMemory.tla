------------------------------- MODULE MCMemory -------------------------------
(* Instances of Memory.tla for TLC.                                          *)
EXTENDS Memory

BothTables == {0, 3}
OneValue == {1}
=============================================================================
