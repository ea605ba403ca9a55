------------------------------- MODULE ByteFile -------------------------------
(***************************************************************************)
(* What a regular file promises to the programs that have it open: a        *)
(* sequence of bytes, read and written at positions.  A call moves on in    *)
(* pieces, between which others may read and write, and may end early.      *)
(* FileData.tla implements it with blocks, a tree that finds them, and a    *)
(* bitmap.                                                                  *)
(***************************************************************************)
EXTENDS Naturals, Sequences

CONSTANTS
  Task, File,
  Appending, \* the files opened with O_APPEND
  Data,      \* the bytes each task writes
  MaxSize

VARIABLES
  content,  \* the bytes of the file
  pos,      \* the position of each open file
  call      \* what each task is doing, where, and the bytes it has read

vars == <<content, pos, call>>

Idle == [op |-> "none", file |-> CHOOSE f \in File : TRUE, at |-> 0, done |-> 0, buf |-> <<>>]

Init ==
  /\ content = <<>>
  /\ pos \in [File -> 0 .. MaxSize]
  /\ call = [t \in Task |-> Idle]

\* The bytes s at position p; what was never written reads as zeros.
Overwrite(c, p, s) ==
  [i \in 1 .. IF Len(c) > p + Len(s) THEN Len(c) ELSE p + Len(s) |->
     IF i \in p + 1 .. p + Len(s) THEN s[i - p] ELSE IF i <= Len(c) THEN c[i] ELSE 0]

Begin(t, f, op) ==
  /\ call[t].op = "none"
  /\ call' = [call EXCEPT ![t] = [Idle EXCEPT !.op = op, !.file = f,
                !.at = IF op = "write" /\ f \in Appending THEN Len(content) ELSE pos[f]]]
  /\ UNCHANGED <<content, pos>>

ReadSome(t) ==
  LET c == call[t] IN
  /\ c.op = "read"
  /\ \E n \in 1 .. Len(content) - c.at :
       /\ call' = [call EXCEPT ![t].at = @ + n, ![t].buf = @ \o SubSeq(content, c.at + 1, c.at + n)]
       /\ pos' = [pos EXCEPT ![c.file] = c.at + n]
  /\ UNCHANGED content

WriteSome(t) ==
  LET c == call[t] IN
  /\ c.op = "write"
  /\ \E n \in 1 .. Len(Data[t]) - c.done :
       /\ content' = Overwrite(content, c.at, SubSeq(Data[t], c.done + 1, c.done + n))
       /\ call' = [call EXCEPT ![t].at = @ + n, ![t].done = @ + n]
  /\ UNCHANGED pos

Return(t) ==
  LET c == call[t] IN
  /\ c.op # "none"
  /\ call' = [call EXCEPT ![t] = Idle]
  /\ pos' = IF c.op = "write" /\ c.file \notin Appending THEN [pos EXCEPT ![c.file] = c.at] ELSE pos
  /\ UNCHANGED content

Seek(f) ==
  /\ \E p \in 0 .. MaxSize : pos' = [pos EXCEPT ![f] = p]
  /\ UNCHANGED <<content, call>>

Truncate == content' = <<>> /\ UNCHANGED <<pos, call>>

Next ==
  \/ Truncate
  \/ \E f \in File : Seek(f)
  \/ \E t \in Task : ReadSome(t) \/ WriteSome(t) \/ Return(t)
  \/ \E t \in Task, f \in File, op \in {"read", "write"} : Begin(t, f, op)

Spec == Init /\ [][Next]_vars
=============================================================================
