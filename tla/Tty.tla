--------------------------------- MODULE Tty ---------------------------------
(***************************************************************************)
(* One terminal: tty_io.c between the interrupt handlers of rs_io.s and     *)
(* keyboard.s below and the programs above, with the screen of Console.tla  *)
(* when it is the console.                                                  *)
(*                                                                          *)
(* Characters come into read_q by an interrupt, which at once cooks them    *)
(* into the queue secondary that read() empties; write() fills write_q,     *)
(* which con_write() empties onto the screen, or the transmit interrupt of  *)
(* a serial line onto the wire.                                             *)
(*                                                                          *)
(* A ring of Size characters is the sequence of those in it.  It holds      *)
(* Size-1: one more and it looks empty, and one taken from an empty ring    *)
(* leaves Size-1 old characters in it.                                      *)
(*                                                                          *)
(* A task in the kernel runs until it calls schedule(); handlers come       *)
(* between its steps, and run to their end.  At most one task reads and one *)
(* writes, so there is never a second sleeper on a queue (WaitQueue.tla has *)
(* those).  Left out: case conversion, and stopped, which nobody reads.     *)
(***************************************************************************)
EXTENDS Console, Sequences, SequencesExt

CONSTANTS
  Task, NULL,
  Size,      \* TTY_BUF_SIZE, 1024
  LowRoom,   \* a writer that had to wait goes on with so much room, 128
  Slack,     \* a line that leaves no more room than this is read unfinished, 20
  Startup,   \* the transmit interrupt wakes the writer at so many characters, 256
  Setup      \* what terminals and programs there are: see MCTty

ASSUME TtyAssumption ==
  /\ Size \in Nat /\ LowRoom \in 1 .. Size - 1 /\ Slack \in Nat
  /\ Startup \in 1 .. Size - 1 - LowRoom
  /\ NULL \notin Task

VARIABLES
  setup,    \* the termios and tty->write of the terminal, and what will happen
  tty,      \* the three rings, secondary.data, the UART's transmit enable, the screen
  list,     \* proc_list of secondary and of write_q
  cr_flag,  \* static in tty_write
  current, state, signal, alarm,  \* of the scheduler, as far as the tasks go
  call,     \* where each task is in its tty_read or tty_write
  typed     \* how many characters or keys came, and writes were called

vars == <<setup, tty, list, cr_flag, current, state, signal, alarm, call, typed>>
task == <<current, state, signal, alarm, call>>

LineEnd == {"LF", "EOF"}
\* Characters below 32, and the letter that echo shows for each (c+64).
Caret == [CR |-> "M", EOF |-> "D", INTR |-> "C", ESC |-> "[", TAB |-> "I", BS |-> "H"]
Low == (DOMAIN Caret) \union {"LF"}

I(f) == f \in setup.iflag
L(f) == f \in setup.lflag
O(f) == f \in setup.oflag

AtHome == [pc |-> "user", nr |-> 0, got |-> 0, min |-> 0, flag |-> FALSE,
           old |-> "off", buf |-> <<>>]

Init ==
  /\ setup \in Setup
  /\ tty = [read_q |-> <<>>, secondary |-> <<>>, write_q |-> <<>>, data |-> 0,
            transmit |-> FALSE, screen |-> ConInit, intr |-> FALSE]
  /\ list = [secondary |-> NULL, write_q |-> NULL]
  /\ cr_flag = FALSE /\ typed = 0 /\ current = NULL
  /\ state = [t \in Task |-> "RUNNING"] /\ signal = [t \in Task |-> {}]
  /\ alarm = [t \in Task |-> IF setup.alarm THEN "user" ELSE "off"]
  /\ call = [t \in Task |-> AtHome]

-----------------------------------------------------------------------------
Left(q) == Size - 1 - Len(q)
Full(q) == Left(q) = 0
PutCh(q, c) == IF Full(q) THEN <<>> ELSE Append(q, c)
FirstOf(q) == IF q = <<>> THEN "old" ELSE Head(q)
Rest(q) == IF q = <<>> THEN [i \in 1 .. Size - 1 |-> "old"] ELSE Tail(q)

ConPut(s) == [s EXCEPT !.screen = ConChar(@, FirstOf(s.write_q)), !.write_q = Rest(@)]
con_write(s) == Times(ConPut, Len(s.write_q), s)

rs_write(s) == [s EXCEPT !.transmit = @ \/ s.write_q # <<>>]

\* tty->write(tty) from an interrupt: all at once.
Echo(s, cs) ==
  LET p == [s EXCEPT !.write_q = FoldLeft(PutCh, @, cs)]
  IN  IF setup.console THEN con_write(p) ELSE rs_write(p)

EchoOf(c) ==
  IF c = "LF" THEN <<"LF", "CR">>
  ELSE IF c \notin Low THEN <<c>> ELSE IF L("ECHOCTL") THEN <<"^", Caret[c]>> ELSE <<>>

\* Mutant: the end of the line before may be erased, too.
EraseAny(s) ==
  IF s.secondary = <<>> THEN s
  ELSE LET e == IF L("ECHO") THEN Echo(s, <<"ERASE">>) ELSE s
       IN  [e EXCEPT !.secondary = Front(@)]

EraseLast(s) ==
  IF s.secondary = <<>> \/ Last(s.secondary) \in LineEnd THEN s
  ELSE LET n == IF Last(s.secondary) \in Low THEN 2 ELSE 1
           e == IF L("ECHO") THEN Echo(s, [i \in 1 .. n |-> "ERASE"]) ELSE s
       IN  [e EXCEPT !.secondary = Front(@)]

\* Mutant: an end of file is not counted as the end of a line.
AcceptLF(s, c) ==
  LET e == IF L("ECHO") THEN Echo(s, EchoOf(c)) ELSE s
  IN  [e EXCEPT !.secondary = PutCh(@, c), !.data = IF c = "LF" THEN @ + 1 ELSE @]

Accept(s, c) ==
  LET e == IF L("ECHO") THEN Echo(s, EchoOf(c)) ELSE s
  IN  [e EXCEPT !.secondary = PutCh(@, c), !.data = IF c \in LineEnd THEN @ + 1 ELSE @]

\* Lines 135-142.
Mapped(c) ==
  IF c = "CR" /\ I("ICRNL") THEN "LF" ELSE IF c = "LF" /\ I("INLCR") THEN "CR" ELSE c

\* One character out of read_q.  ISIG is tested the wrong way round (line 169).
Cook(s) ==
  LET c == Mapped(Head(s.read_q))
      r == [s EXCEPT !.read_q = Tail(@)]
  IN  CASE c = "CR" /\ Head(s.read_q) = "CR" /\ I("IGNCR") -> r
        [] L("ICANON") /\ c = "ERASE" -> EraseLast(r)
        [] L("ICANON") /\ c \in {"STOP", "START"} -> r
        [] ~L("ISIG") /\ c = "INTR" -> [r EXCEPT !.intr = TRUE]
        [] OTHER -> Accept(r, c)

CookOne(s) == IF s.read_q = <<>> \/ Full(s.secondary) THEN s ELSE Cook(s)
copy_to_cooked(s) == Times(CookOne, Len(s.read_q), s)

-----------------------------------------------------------------------------
(* The interrupts.                                                           *)
Awake(st, t) == IF t = NULL THEN st ELSE [st EXCEPT ![t] = "RUNNING"]

\* do_tty_interrupt(): INTR signals the process group, the reader is woken.
do_tty_interrupt(s) ==
  LET d == copy_to_cooked(s) IN
  /\ tty' = [d EXCEPT !.intr = FALSE]
  /\ signal' = [t \in Task |->
       IF d.intr /\ t \in setup.pgrp THEN signal[t] \union {"INT"} ELSE signal[t]]
  /\ state' = Awake(state, list.secondary)
  /\ list' = [list EXCEPT !.secondary = NULL]

\* read_char: with read_q full the character is lost, and nothing is cooked.
ReadChar(c) ==
  /\ ~setup.console /\ typed < setup.typed /\ typed' = typed + 1
  /\ IF Full(tty.read_q) THEN UNCHANGED <<tty, signal, state, list>>
     ELSE do_tty_interrupt([tty EXCEPT !.read_q = Append(@, c)])
  /\ UNCHANGED <<setup, cr_flag, current, alarm, call>>

\* put_queue: a key that does not fit is discarded as a whole.
Keyboard(cs) ==
  /\ setup.console /\ typed < setup.typed /\ typed' = typed + 1
  /\ do_tty_interrupt([tty EXCEPT !.read_q = IF Len(cs) <= Left(@) THEN @ \o cs ELSE @])
  /\ UNCHANGED <<setup, cr_flag, current, alarm, call>>

\* Mutant: the writer is not woken.
WriteCharSilent ==
  LET rest == Rest(tty.write_q) IN
  /\ ~setup.console /\ tty.transmit
  /\ tty' = [tty EXCEPT !.write_q = rest, !.transmit = rest # <<>>]
  /\ UNCHANGED <<setup, list, cr_flag, current, state, signal, alarm, call, typed>>

\* write_char: the writer is made runnable but stays in proc_list (line 119).
WriteChar ==
  LET n == Len(tty.write_q)
      rest == IF n = 0 THEN <<>> ELSE Tail(tty.write_q)
  IN  /\ ~setup.console /\ tty.transmit
      /\ tty' = [tty EXCEPT !.write_q = rest, !.transmit = rest # <<>>]
      /\ state' = IF n <= Startup THEN Awake(state, list.write_q) ELSE state
      /\ UNCHANGED <<setup, list, cr_flag, current, signal, alarm, call, typed>>

-----------------------------------------------------------------------------
(* The scheduler and the user mode of the tasks.                             *)
Expire(t) ==
  /\ alarm[t] \in {"user", "timer"} /\ alarm' = [alarm EXCEPT ![t] = "due"]
  /\ UNCHANGED <<setup, tty, list, cr_flag, current, state, signal, call, typed>>

\* Lines 75-83 of schedule(), called here by task 0 or on the way to a task.
Signals ==
  LET sig == [t \in Task |-> signal[t] \union IF alarm[t] = "due" THEN {"ALRM"} ELSE {}] IN
  /\ current = NULL
  /\ \E t \in Task : alarm[t] = "due" \/ (signal[t] # {} /\ state[t] = "INTERRUPTIBLE")
  /\ signal' = sig
  /\ alarm' = [t \in Task |-> IF alarm[t] = "due" THEN "off" ELSE alarm[t]]
  /\ state' = [t \in Task |-> IF sig[t] # {} THEN "RUNNING" ELSE state[t]]
  /\ UNCHANGED <<setup, tty, list, cr_flag, current, call, typed>>

Pick(t) ==
  /\ current = NULL /\ state[t] = "RUNNING" /\ call[t].pc # "user"
  /\ current' = t
  /\ UNCHANGED <<setup, tty, list, cr_flag, state, signal, alarm, call, typed>>

\* On the way back to the program: a handler is called.
Deliver(t) ==
  /\ call[t].pc = "user" /\ signal[t] # {}
  /\ signal' = [signal EXCEPT ![t] = {}]
  /\ UNCHANGED <<setup, tty, list, cr_flag, current, state, alarm, call, typed>>

At(t, pc) == current = t /\ call[t].pc = pc
Goto(t, pc) == call' = [call EXCEPT ![t].pc = pc] /\ UNCHANGED current
Home(t) == call' = [call EXCEPT ![t] = AtHome] /\ current' = NULL

\* interruptible_sleep_on(&q->proc_list), by the one task that sleeps there.
SleepOn(t, q, pc) ==
  /\ list' = [list EXCEPT ![q] = t]
  /\ state' = [state EXCEPT ![t] = "INTERRUPTIBLE"]
  /\ call' = [call EXCEPT ![t].pc = pc] /\ current' = NULL

Resume(t, q, pc, to) ==
  /\ At(t, pc) /\ Goto(t, to)
  /\ list' = [list EXCEPT ![q] = NULL]
  /\ UNCHANGED <<setup, tty, cr_flag, state, signal, alarm, typed>>

-----------------------------------------------------------------------------
(* tty_read().                                                               *)

\* !oldalarm || time+jiffies<oldalarm: would the terminal's timer ring first?
Sooner(old) ==
  IF old = "off" THEN {TRUE} ELSE IF old = "due" THEN {FALSE} ELSE BOOLEAN

Least(a, b) == IF a < b THEN a ELSE b

ReadCall(t) ==
  LET timed == setup.vtime > 0 /\ setup.vmin = 0 IN
  /\ current = NULL /\ call[t].pc = "user" /\ t \in setup.readers /\ signal[t] = {}
  /\ \E first \in Sooner(alarm[t]) :
       /\ call' = [call EXCEPT ![t] = [AtHome EXCEPT !.pc = "read", !.nr = setup.nr,
            !.min = Least(IF timed THEN 1 ELSE setup.vmin, setup.nr),
            !.flag = timed /\ first, !.old = alarm[t]]]
       /\ alarm' = IF timed /\ first THEN [alarm EXCEPT ![t] = "timer"] ELSE alarm
  /\ current' = t
  /\ UNCHANGED <<setup, tty, list, cr_flag, state, signal, typed>>

\* Mutant: the alarm of the program is not put back.
ReturnKeepsAlarm(t) == Home(t) /\ UNCHANGED alarm

Return(t) == Home(t) /\ alarm' = [alarm EXCEPT ![t] = call[t].old]

TimedOut(t) == call[t].flag /\ "ALRM" \in signal[t]

\* Lines 215-220.
ReadStopped(t) ==
  /\ At(t, "read") /\ signal[t] # {}
  /\ signal' = IF TimedOut(t) THEN [signal EXCEPT ![t] = @ \ {"ALRM"}] ELSE signal
  /\ Return(t)
  /\ UNCHANGED <<setup, tty, list, cr_flag, state, typed>>

NothingToRead ==
  tty.secondary = <<>> \/ (L("ICANON") /\ tty.data = 0 /\ Left(tty.secondary) > Slack)

\* Lines 221-224.  With a part of a line it does not sleep, but goes round and round.
ReadSleep(t) ==
  /\ At(t, "read") /\ signal[t] = {} /\ NothingToRead /\ tty.secondary = <<>>
  /\ SleepOn(t, "secondary", "rsleep")
  /\ UNCHANGED <<setup, tty, cr_flag, signal, alarm, typed>>

ReadResume(t) == Resume(t, "secondary", "rsleep", "read")

ReadGoOn(t) ==
  /\ At(t, "read") /\ signal[t] = {} /\ ~NothingToRead
  /\ Goto(t, "take")
  /\ UNCHANGED <<setup, tty, list, cr_flag, state, signal, alarm, typed>>

\* Lines 227-231, 238-247: the test of the loop, then GETCH, with interrupts between.
ReadTake(t) ==
  LET c == FirstOf(tty.secondary)
      rest == Rest(tty.secondary)
      more == call[t].nr > 1 /\ rest # <<>>
      timed == setup.vtime > 0 /\ ~L("ICANON")
      enough == L("ICANON") \/ call[t].got + 1 >= call[t].min
  IN  /\ At(t, "take")
      /\ tty' = [tty EXCEPT !.secondary = rest, !.data = IF c \in LineEnd THEN @ - 1 ELSE @]
      /\ IF c = "EOF" /\ L("ICANON") THEN Home(t) /\ UNCHANGED alarm
         ELSE IF more
         THEN /\ call' = [call EXCEPT ![t].nr = @ - 1, ![t].got = @ + 1]
              /\ UNCHANGED <<alarm, current>>
         ELSE IF enough THEN Return(t)
         ELSE \E first \in Sooner(call[t].old) :
              /\ call' = [call EXCEPT ![t].nr = @ - 1, ![t].got = @ + 1, ![t].pc = "read",
                                      ![t].flag = IF timed THEN first ELSE @]
              /\ alarm' = IF ~timed THEN alarm
                          ELSE [alarm EXCEPT ![t] = IF first THEN "timer" ELSE call[t].old]
              /\ UNCHANGED current
      /\ UNCHANGED <<setup, list, cr_flag, state, signal, typed>>

-----------------------------------------------------------------------------
(* tty_write().                                                              *)
WriteCall(t) ==
  /\ current = NULL /\ call[t].pc = "user" /\ t \in setup.writers /\ signal[t] = {}
  /\ typed < setup.typed /\ typed' = typed + 1
  /\ \E b \in setup.bufs : call' = [call EXCEPT ![t] = [AtHome EXCEPT !.pc = "full", !.buf = b]]
  /\ current' = t
  /\ UNCHANGED <<setup, tty, list, cr_flag, state, signal, alarm>>

\* sleep_if_full() first looks, then disables the interrupts and looks again.
WriteFull(t) ==
  /\ At(t, "full") /\ Goto(t, IF Full(tty.write_q) THEN "room" ELSE "go")
  /\ UNCHANGED <<setup, tty, list, cr_flag, state, signal, alarm, typed>>

WriteSleep(t) ==
  /\ At(t, "room") /\ signal[t] = {} /\ Left(tty.write_q) < LowRoom
  /\ SleepOn(t, "write_q", "wsleep")
  /\ UNCHANGED <<setup, tty, cr_flag, signal, alarm, typed>>

WriteResume(t) == Resume(t, "write_q", "wsleep", "room")

WriteRoom(t) ==
  /\ At(t, "room") /\ (signal[t] # {} \/ Left(tty.write_q) >= LowRoom)
  /\ Goto(t, "go")
  /\ UNCHANGED <<setup, tty, list, cr_flag, state, signal, alarm, typed>>

WriteGo(t) ==
  /\ At(t, "go")
  /\ IF signal[t] # {} THEN Home(t) ELSE Goto(t, "fill")
  /\ UNCHANGED <<setup, tty, list, cr_flag, state, signal, alarm, typed>>

\* Lines 269-273.
Posted(c) ==
  IF c = "CR" /\ O("OCRNL") THEN "LF" ELSE IF c = "LF" /\ O("ONLRET") THEN "CR" ELSE c

MayFill(t) == call[t].buf # <<>> /\ ~Full(tty.write_q)

\* A newline is a carriage return and, next time round, a line feed.
WriteFill(t) ==
  LET c == IF O("OPOST") THEN Posted(Head(call[t].buf)) ELSE Head(call[t].buf)
      first == c = "LF" /\ O("OPOST") /\ O("ONLCR") /\ ~cr_flag
  IN  /\ At(t, "fill") /\ MayFill(t)
      /\ cr_flag' = first
      /\ tty' = [tty EXCEPT !.write_q = PutCh(@, IF first THEN "CR" ELSE c)]
      /\ call' = IF first THEN call ELSE [call EXCEPT ![t].buf = Tail(@)]
      /\ UNCHANGED <<setup, list, current, state, signal, alarm, typed>>

\* Lines 287-288: give way to others when there is more to write, or return.
GiveWay(t) ==
  IF call[t].buf = <<>> THEN Home(t)
  ELSE call' = [call EXCEPT ![t].pc = "full"] /\ current' = NULL

WriteOut(t) ==
  /\ At(t, "fill") /\ ~MayFill(t)
  /\ IF setup.console
     THEN call' = [call EXCEPT ![t].pc = "con", ![t].nr = Len(tty.write_q)] /\ UNCHANGED <<tty, current>>
     ELSE tty' = rs_write(tty) /\ GiveWay(t)
  /\ UNCHANGED <<setup, list, cr_flag, state, signal, alarm, typed>>

\* con_write(): nr is the number of characters there were when it began.
ConWrite(t) ==
  /\ At(t, "con")
  /\ IF call[t].nr = 0 THEN GiveWay(t) /\ UNCHANGED tty
     ELSE tty' = ConPut(tty) /\ call' = [call EXCEPT ![t].nr = @ - 1] /\ UNCHANGED current
  /\ UNCHANGED <<setup, list, cr_flag, state, signal, alarm, typed>>

-----------------------------------------------------------------------------
Irq == (\E c \in setup.input : ReadChar(c)) \/ (\E k \in setup.keys : Keyboard(k)) \/ WriteChar

Read(t) == ReadStopped(t) \/ ReadSleep(t) \/ ReadResume(t) \/ ReadGoOn(t) \/ ReadTake(t)

Write(t) ==
  \/ WriteFull(t) \/ WriteSleep(t) \/ WriteResume(t) \/ WriteRoom(t)
  \/ WriteGo(t) \/ WriteFill(t) \/ WriteOut(t) \/ ConWrite(t)

Next ==
  \/ Irq \/ Signals
  \/ \E t \in Task : Expire(t) \/ Pick(t) \/ Deliver(t) \/ ReadCall(t) \/ Read(t) \/ WriteCall(t) \/ Write(t)

Spec == Init /\ [][Next]_vars

(* A task in the kernel goes on.  Runnable tasks get the processor again and *)
(* again (Sched.tla: NoStarvation) though it may be taken in between; time   *)
(* passes and an enabled transmitter interrupts.  Nobody need type.          *)
Fairness ==
  /\ WF_vars(WriteChar) /\ SF_vars(Signals)
  /\ \A t \in Task : WF_vars(Expire(t)) /\ SF_vars(Pick(t)) /\ WF_vars(Deliver(t))
                     /\ WF_vars(Read(t)) /\ WF_vars(Write(t))

FairSpec == Spec /\ Fairness

-----------------------------------------------------------------------------
(* The number of ends of lines in the ring is right, whoever added and took  *)
(* some (tty_io.c:149, 176, 229): it decides who may read.                   *)
DataCounts == tty.data = Len(SelectSeq(tty.secondary, LAMBDA c : c \in LineEnd))

\* What can no longer be erased: up to the last end of a line, or all.
Committed ==
  LET ends == {i \in DOMAIN tty.secondary : tty.secondary[i] \in LineEnd} IN
  IF ~L("ICANON") THEN tty.secondary
  ELSE SubSeq(tty.secondary, 1, IF ends = {} THEN 0 ELSE CHOOSE i \in ends : \A j \in ends : j <= i)

(* No character is lost or comes twice between the interrupts and the        *)
(* programs: from secondary the first is taken and only the line being typed *)
(* is edited; what is in write_q goes out in order (tty_io.c:133-191, 227,   *)
(* 267-285, rs_io.s:108-128).                                                *)
CharactersKept ==
  [][/\ \/ IsPrefix(Committed, tty'.secondary)
        \/ tty.secondary # <<>> /\ tty'.secondary = Tail(tty.secondary)
     /\ \/ IsPrefix(tty.write_q, tty'.write_q)
        \/ tty.write_q # <<>> /\ tty'.write_q = Tail(tty.write_q)
     /\ "old" \notin ToSet(tty'.secondary) \union ToSet(tty'.write_q)]_vars

(* The alarm of a timed read is over when the read is: not armed any more,   *)
(* and no SIGALRM of it is left to kill the program, whether a character or  *)
(* the time came first (tty_io.c:207-218, 238-249).                          *)
TimerIsOver ==
  \A t \in Task : call[t].pc = "user" =>
    alarm[t] # "timer" /\ (~setup.alarm => alarm[t] = "off" /\ "ALRM" \notin signal[t])

(* The screen stays whole under whatever is written and echoed: see          *)
(* CursorAgrees in Console.tla (console.c:48-55, 69-188, 407-463).           *)
ScreenWhole == CursorAgrees(tty.screen)

(* No character written moves or spoils rows it has nothing to do with: see  *)
(* RowsMove in Console.tla (console.c:69-162, 199-232, 317-356).             *)
RowsKept == [][setup.keys = {} => RowsMove(tty.screen, tty'.screen)]_vars

Reading(t) == call[t].pc \in {"read", "rsleep", "take"}
Writing(t) == call[t].pc # "user" /\ ~Reading(t)

\* There is something to read, or a reason not to wait for it any longer.
Answered(t) ==
  \/ signal[t] # {} \/ call[t].flag
  \/ IF L("ICANON") THEN ~NothingToRead ELSE call[t].got + Len(tty.secondary) >= call[t].min

(* A read that can be answered returns; so does every write, as the wire     *)
(* takes what comes (tty_io.c:113-126, 214-248, 263-288, rs_io.s:112-119,    *)
(* 130-134, keyboard.s:97-100).                                              *)
CallsReturn ==
  \A t \in Task :
    /\ (Reading(t) /\ Answered(t)) ~> ~(Reading(t) /\ Answered(t))
    /\ Writing(t) ~> ~Writing(t)
=============================================================================
