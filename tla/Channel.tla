-------------------------------- MODULE Channel --------------------------------
(***************************************************************************)
(* What a pipe promises to the programs that hold its ends: a bounded queue *)
(* of bytes.  Writers append, readers take from the front, and a program is *)
(* told that the other side is gone only when it is.  Files.tla implements  *)
(* it with two counted files, an inode and a ring of bytes.                 *)
(***************************************************************************)
EXTENDS Naturals, Sequences

CONSTANTS
  Task,      \* the programs
  Pipe,      \* the pipes
  Byte,
  Capacity   \* how many bytes a pipe holds

VARIABLES
  queue,    \* the bytes written and not read yet
  readers,  \* who holds the read end
  writers,  \* who holds the write end
  reply     \* what the last call of each program told it

vars == <<queue, readers, writers, reply>>

None == [kind |-> "none", bytes |-> <<>>]
Data(s) == [kind |-> "data", bytes |-> s]
Eof == [kind |-> "eof", bytes |-> <<>>]
Written == [kind |-> "written", bytes |-> <<>>]
Broken == [kind |-> "broken", bytes |-> <<>>]

Init ==
  /\ queue = [p \in Pipe |-> <<>>]
  /\ readers = [p \in Pipe |-> {}] /\ writers = [p \in Pipe |-> {}]
  /\ reply = [t \in Task |-> None]

Tell(t, r) == reply' = [reply EXCEPT ![t] = r]

Create(t, p) ==
  /\ readers[p] = {} /\ writers[p] = {}
  /\ readers' = [readers EXCEPT ![p] = {t}] /\ writers' = [writers EXCEPT ![p] = {t}]
  /\ queue' = [queue EXCEPT ![p] = <<>>]
  /\ UNCHANGED reply

\* Descriptors are copied from their holders and closed; nobody gets back what all closed.
Pass ==
  /\ \A p \in Pipe : readers[p] = {} => readers'[p] = {}
  /\ \A p \in Pipe : writers[p] = {} => writers'[p] = {}
  /\ \A p \in Pipe : queue'[p] = IF readers'[p] \union writers'[p] = {} THEN <<>> ELSE queue[p]
  /\ UNCHANGED reply

\* A write appends as much as there is room for; it is over when all is written.
Write(t, p) ==
  /\ t \in writers[p]
  /\ \E n \in 1 .. Capacity - Len(queue[p]) : \E s \in [1 .. n -> Byte] :
       queue' = [queue EXCEPT ![p] = @ \o s]
  /\ reply' = reply \/ Tell(t, Written) \/ (readers[p] = {} /\ Tell(t, Broken))
  /\ UNCHANGED <<readers, writers>>

Refuse(t, p) ==
  /\ t \in writers[p] /\ readers[p] = {}
  /\ Tell(t, Broken)
  /\ UNCHANGED <<queue, readers, writers>>

Read(t, p) ==
  /\ t \in readers[p]
  /\ \E n \in 1 .. Len(queue[p]) :
       /\ Tell(t, Data(SubSeq(queue[p], 1, n)))
       /\ queue' = [queue EXCEPT ![p] = SubSeq(@, n + 1, Len(@))]
  /\ UNCHANGED <<readers, writers>>

End(t, p) ==
  /\ t \in readers[p] /\ writers[p] = {} /\ queue[p] = <<>>
  /\ Tell(t, Eof)
  /\ UNCHANGED <<queue, readers, writers>>

Return(t) == Tell(t, None) /\ UNCHANGED <<queue, readers, writers>>

Next ==
  \/ Pass
  \/ \E t \in Task : Return(t)
  \/ \E t \in Task, p \in Pipe :
       Create(t, p) \/ Write(t, p) \/ Refuse(t, p) \/ Read(t, p) \/ End(t, p)

Spec == Init /\ [][Next]_vars
=============================================================================
