-------------------------------- MODULE MCTty --------------------------------
(***************************************************************************)
(* Terminals for TLC.  The readers and writers, and what can come and be    *)
(* written, are chosen so that the known races of tty_io.c do not happen:   *)
(* see the README.                                                          *)
(***************************************************************************)
EXTENDS Tty

CONSTANTS reader, writer
Programs == {reader, writer}

Base == [console |-> FALSE, iflag |-> {}, lflag |-> {}, oflag |-> {}, vmin |-> 1, vtime |-> 0,
         nr |-> 1, readers |-> {}, writers |-> {}, pgrp |-> {}, alarm |-> FALSE,
         typed |-> 0, input |-> {}, keys |-> {}, bufs |-> {}, screen |-> {}]

\* tty_table[1]: raw, ONLRET, with a reader that wants two characters.
Serial == [Base EXCEPT !.oflag = {"OPOST", "ONLRET"}, !.nr = 2, !.vmin = 2, !.readers = {reader},
            !.writers = {writer}, !.pgrp = {writer}, !.typed = 4, !.input = {"LF", "INTR"},
            !.bufs = {<<"a", "LF", "a", "LF", "a">>}]
\* The same with a time limit: for the whole, or between the characters.
Timed == [Base EXCEPT !.lflag = {"ISIG"}, !.iflag = {"INLCR", "IGNCR"}, !.nr = 2,
           !.vmin = 0, !.vtime = 1, !.readers = {reader}, !.typed = 4, !.input = {"a", "LF", "CR"}]
Interval == [Timed EXCEPT !.vmin = 2]
\* The program has an alarm of its own.
Alarmed == [Interval EXCEPT !.alarm = TRUE]
\* tty_table[0]: lines, with echo, read a character at a time.
Lines == [Base EXCEPT !.console = TRUE, !.lflag = {"ICANON", "ECHO", "ECHOCTL"},
           !.iflag = {"ICRNL"}, !.readers = {reader}, !.pgrp = {reader}, !.typed = 5,
           !.keys = {<<"a">>, <<"CR">>, <<"EOF">>, <<"INTR">>, <<"ERASE">>}]
\* Several lines at once, but nothing is erased.
Blocks == [Lines EXCEPT !.nr = 3, !.typed = 5, !.lflag = {"ICANON"},
            !.keys = {<<"a">>, <<"CR">>, <<"EOF">>, <<"ESC", "[", "x">>}]
\* A program writes on the console, where nobody types.
Printing == [Base EXCEPT !.console = TRUE, !.oflag = {"OPOST", "ONLCR", "OCRNL"},
              !.writers = {writer}, !.typed = 2, !.bufs = {<<"a", "LF", "a", "LF", "a">>, <<"LF", "LF", "CR">>}]
\* Any sequence of characters on the screen.
Screenful == [Base EXCEPT !.console = TRUE,
  !.screen = {"x", "LF", "CR", "ESC", "ERASE", "TAB", "[", "E", "M", "D", "2", ";", "r", "J", "H",
              "A", "C", "F", "G", "d", "K", "L", "P", "@"}]
\* The same, where the cursor is saved and restored, also by line 477.
Restored == [Screenful EXCEPT !.screen = {"x", "LF", "BS", "ESC", "[", "M", "s", "u", "7"}]

Terminals ==
  {Serial, Timed, Interval, Alarmed, Lines, Blocks, Printing, Screenful, Restored}

(* con_write() with one character more, whoever wrote it.                    *)
Display(c) ==
  /\ tty' = [tty EXCEPT !.screen = ConChar(@, c)]
  /\ UNCHANGED <<setup, list, cr_flag, typed, task>>

MCNext == Next \/ \E c \in setup.screen : Display(c)
MCSpec == Init /\ [][MCNext]_vars /\ Fairness
=============================================================================
