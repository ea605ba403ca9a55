------------------------------- MODULE MCFiles -------------------------------
(* An instance of Files.tla for TLC: the pipe holds two bytes, a message is  *)
(* longer than that.                                                         *)
EXTENDS Files

CONSTANTS t1, t2, p1, a, b

MCTask == {t1, t2}
MCPipe == {p1}
MCByte == {a, b}
Long == {<<a, b, a>>}
=============================================================================
