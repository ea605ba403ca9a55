------------------------------- MODULE Console -------------------------------
(***************************************************************************)
(* The screen of kernel/console.c: what con_write() does with each          *)
(* character, as functions from one state of the console to the next.       *)
(*                                                                          *)
(* The screen is a window of lines*columns cells, [origin, scr_end), that   *)
(* moves through the video memory: scrolling the whole screen moves the     *)
(* window, and copies it back to the start when it comes to the end.  The   *)
(* cursor is kept twice, as x, y and as the address pos.                    *)
(*                                                                          *)
(* A character is a name: "LF", "CR", "ESC" and so on for the control       *)
(* characters, the character itself for those that appear in escape         *)
(* sequences.  Addresses are in cells, where the code has bytes (two to a   *)
(* cell).  Colours (attr, csi_m) are left out, and so is the answer to      *)
(* ESC Z.                                                                   *)
(***************************************************************************)
EXTENDS Integers

CONSTANTS
  lines, columns,  \* LINES, COLUMNS
  Rows,            \* rows of the video memory, SCREEN_START to SCREEN_END
  TabStop,         \* 8
  NPAR,            \* parameters of an escape sequence
  MaxPar,          \* bound: parameters from here on are not told apart
  Code7, Code8     \* the codes of '7' and '8', 55 and 56: columns, in line 477

ASSUME ConsoleAssumption ==
  /\ lines \in Nat \ {0} /\ Rows \in Nat /\ Rows >= lines
  /\ columns \in Nat \ {0} /\ columns % 2 = 0 /\ columns % TabStop = 0
  /\ NPAR \in Nat /\ NPAR >= 2
  /\ MaxPar > lines /\ MaxPar > columns

Control == {"LF", "CR", "ESC", "ERASE", "BS", "TAB", "EOF", "INTR"}
Digit == {"0", "1", "2", "3"}
Value(c) == CASE c = "0" -> 0 [] c = "1" -> 1 [] c = "2" -> 2 [] c = "3" -> 3

Memory == 0 .. Rows * columns - 1
(* The console is a record.  mem: what each cell shows; origin, scr_end: the *)
(* window; pos, x, y: the cursor; top, bottom: the scrolling region; state,  *)
(* npar, par: how far an escape sequence has come, states 0 to 3.  "stray"   *)
(* is not in the code: it remembers a store outside the memory.              *)
NoPar == [i \in 0 .. NPAR - 1 |-> 0]

\* con_init() puts the cursor where the boot loader left it: here at the top.
ConInit ==
  [mem |-> [i \in Memory |-> "blank"], stray |-> FALSE,
   origin |-> 0, scr_end |-> lines * columns, pos |-> 0, x |-> 0, y |-> 0,
   top |-> 0, bottom |-> lines, saved_x |-> 0, saved_y |-> 0,
   state |-> "text", npar |-> 0, par |-> NoPar]

-----------------------------------------------------------------------------
\* Stores of the n cells f at address a, and the cells now there.
Store(s, a, n, f) ==
  [s EXCEPT !.mem = [i \in Memory |-> IF i \in a .. a + n - 1 THEN f[i - a] ELSE @[i]],
            !.stray = @ \/ ~(a .. a + n - 1 \subseteq Memory)]

Cells(s, a, n) ==
  [i \in 0 .. n - 1 |-> IF a + i \in Memory THEN s.mem[a + i] ELSE "blank"]

Erase(s, a, n) == Store(s, a, n, [i \in 0 .. n - 1 |-> "blank"])
Move(s, from, to, n) == Store(s, to, n, Cells(s, from, n))

\* f applied n times, for the loops of csi_L and its like.
Times(f(_), n, s) ==
  LET it[i \in 0 .. n] == IF i = 0 THEN s ELSE f(it[i - 1]) IN it[n]

-----------------------------------------------------------------------------
\* new_x and new_y are unsigned: what would be below 0 is too large.
gotoxy(s, new_x, new_y) ==
  IF new_x \in 0 .. columns - 1 /\ new_y \in 0 .. lines - 1
  THEN [s EXCEPT !.x = new_x, !.y = new_y, !.pos = s.origin + new_y * columns + new_x]
  ELSE s

\* Mutant: the cursor stays behind when the window goes back to the start.
ScrollWindowLeavesPos(s) ==
  LET m == [s EXCEPT !.origin = @ + columns, !.pos = @ + columns, !.scr_end = @ + columns]
      n == (lines - 1) * columns
  IN  IF m.scr_end > Rows * columns
      THEN [Erase(Move(m, m.origin, 0, n), n, columns) EXCEPT
              !.scr_end = @ - m.origin, !.origin = 0]
      ELSE Erase(m, m.scr_end - columns, columns)

\* The whole screen scrolls: the window moves on by a row, or back to the start.
ScrollWindow(s) ==
  LET m == [s EXCEPT !.origin = @ + columns, !.pos = @ + columns, !.scr_end = @ + columns]
      n == (lines - 1) * columns
  IN  IF m.scr_end > Rows * columns
      THEN [Erase(Move(m, m.origin, 0, n), n, columns) EXCEPT
              !.scr_end = @ - m.origin, !.pos = @ - m.origin, !.origin = 0]
      ELSE Erase(m, m.scr_end - columns, columns)

scrup(s) ==
  LET row == s.origin + columns * s.top
      n == (s.bottom - s.top - 1) * columns
  IN  IF s.top = 0 /\ s.bottom = lines THEN ScrollWindow(s)
      ELSE Erase(Move(s, row + columns, row, n), row + n, columns)

\* Mutant: the row that is scrolled in is cleared at the wrong end.
scrdownClearsLast(s) ==
  LET row == s.origin + columns * s.top
      n == (s.bottom - s.top - 1) * columns
  IN  Erase(Move(s, row, row + columns, n), row + n, columns)

scrdown(s) ==
  LET row == s.origin + columns * s.top
      n == (s.bottom - s.top - 1) * columns
  IN  Erase(Move(s, row, row + columns, n), row, columns)

lf(s) ==
  IF s.y + 1 < s.bottom THEN [s EXCEPT !.y = @ + 1, !.pos = @ + columns] ELSE scrup(s)

ri(s) ==
  IF s.y > s.top THEN [s EXCEPT !.y = @ - 1, !.pos = @ - columns] ELSE scrdown(s)

cr(s) == [s EXCEPT !.pos = @ - s.x, !.x = 0]

back(s) == IF s.x > 0 THEN [s EXCEPT !.pos = @ - 1, !.x = @ - 1] ELSE s

del(s) == IF s.x > 0 THEN Erase(back(s), s.pos - 1, 1) ELSE s

csi_J(s, p) ==
  CASE p = 0 -> Erase(s, s.pos, s.scr_end - s.pos)
    [] p = 1 -> Erase(s, s.origin, s.pos - s.origin)
    [] p = 2 -> Erase(s, s.origin, columns * lines)
    [] OTHER -> s

csi_K(s, p) ==
  CASE p = 0 -> Erase(s, s.pos, columns - s.x)
    [] p = 1 -> Erase(s, s.pos - s.x, s.x)
    [] p = 2 -> Erase(s, s.pos - s.x, columns)
    [] OTHER -> s

insert_char(s) ==
  IF s.x >= columns THEN s
  ELSE Erase(Move(s, s.pos, s.pos + 1, columns - s.x - 1), s.pos, 1)

delete_char(s) ==
  LET n == columns - s.x - 1 IN
  IF s.x >= columns THEN s ELSE Erase(Move(s, s.pos + 1, s.pos, n), s.pos + n, 1)

\* Lines 321-327 and 349-355: from the cursor to the last line, whatever the region.
FromCursor(s) == [s EXCEPT !.top = s.y, !.bottom = lines]
SameRegion(s, r) == [r EXCEPT !.top = s.top, !.bottom = s.bottom]

insert_line(s) == SameRegion(s, scrdown(FromCursor(s)))
delete_line(s) == SameRegion(s, scrup(FromCursor(s)))

\* csi_at, csi_L, csi_P, csi_M: nothing given is one, more than fits is all.
Repeat(nr, limit) == IF nr = 0 THEN 1 ELSE IF nr > limit THEN limit ELSE nr

save_cur(s) == [s EXCEPT !.saved_x = s.x, !.saved_y = s.y]

restore_cur(s) ==
  [s EXCEPT !.x = s.saved_x, !.y = s.saved_y, !.pos = s.origin + s.saved_y * columns + s.saved_x]

-----------------------------------------------------------------------------
\* Lines 425-429 and 457-461: past the last column, go on in the next line.
Wrap(s) == lf([s EXCEPT !.x = @ - columns, !.pos = @ - columns])

Printed(s) ==
  LET at == IF s.x >= columns THEN Wrap(s) ELSE s
  IN  [Store(at, at.pos, 1, [i \in {0} |-> "glyph"]) EXCEPT !.pos = @ + 1, !.x = @ + 1]

Tab(s) ==
  LET c == TabStop - (s.x % TabStop)
      at == [s EXCEPT !.x = @ + c, !.pos = @ + c]
  IN  IF at.x > columns THEN Wrap(at) ELSE at

Text(s, c) ==
  CASE c \notin Control -> Printed(s)
    [] c = "ESC" -> [s EXCEPT !.state = "esc"]
    [] c = "LF" -> lf(s)
    [] c = "CR" -> cr(s)
    [] c = "ERASE" -> del(s)
    [] c = "BS" -> back(s)
    [] c = "TAB" -> Tab(s)
    [] OTHER -> s

(* Lines 477-480 compare the column, not the character, with '7' and '8'.    *)
Escape(s, c) ==
  CASE c = "[" -> [s EXCEPT !.state = "csi"]
    [] c = "E" -> gotoxy(s, 0, s.y + 1)
    [] c = "M" -> ri(s)
    [] c = "D" -> lf(s)
    [] OTHER -> IF s.x = Code7 THEN save_cur(s)
                ELSE IF s.x = Code8 THEN restore_cur(s) ELSE s

\* 10*par+c-'0', which is compared with lines and columns and no more.
NextPar(p, c) == IF 10 * p + Value(c) > MaxPar THEN MaxPar ELSE 10 * p + Value(c)

One(p) == IF p = 0 THEN 1 ELSE p      \* if (!par[0]) par[0]++
Less(p) == IF p > 0 THEN p - 1 ELSE p \* if (par[0]) par[0]--

SetRegion(s, p, q) ==
  LET b == IF q = 0 THEN lines ELSE q
  IN  IF Less(p) < b /\ b <= lines THEN [s EXCEPT !.top = Less(p), !.bottom = b] ELSE s

Csi(s, c) ==
  LET p == s.par[0]
      q == s.par[1]
  IN  CASE c \in {"G", "grave"} -> gotoxy(s, Less(p), s.y)
        [] c = "A" -> gotoxy(s, s.x, s.y - One(p))
        [] c \in {"B", "e"} -> gotoxy(s, s.x, s.y + One(p))
        [] c \in {"C", "a"} -> gotoxy(s, s.x + One(p), s.y)
        [] c = "D" -> gotoxy(s, s.x - One(p), s.y)
        [] c = "E" -> gotoxy(s, 0, s.y + One(p))
        [] c = "F" -> gotoxy(s, 0, s.y - One(p))
        [] c = "d" -> gotoxy(s, s.x, Less(p))
        [] c \in {"H", "f"} -> gotoxy(s, Less(q), Less(p))
        [] c = "J" -> csi_J(s, p)
        [] c = "K" -> csi_K(s, p)
        [] c = "L" -> Times(insert_line, Repeat(p, lines), s)
        [] c = "M" -> Times(delete_line, Repeat(p, lines), s)
        [] c = "P" -> Times(delete_char, Repeat(p, columns), s)
        [] c = "@" -> Times(insert_char, Repeat(p, columns), s)
        [] c = "r" -> SetRegion(s, p, q)
        [] c = "s" -> save_cur(s)
        [] c = "u" -> restore_cur(s)
        [] OTHER -> s

\* Line 489 falls into the next case unless the character is a '?'.
Parameter(s, c) ==
  IF c = ";" /\ s.npar < NPAR - 1 THEN [s EXCEPT !.npar = @ + 1]
  ELSE IF c \in Digit THEN [s EXCEPT !.par[s.npar] = NextPar(@, c)]
  ELSE [Csi([s EXCEPT !.state = "text"], c) EXCEPT !.par = NoPar, !.npar = 0]

(* The body of the loop of con_write().  The parameters are blanked when a   *)
(* sequence ends, as the next one does it before it looks at them.           *)
ConChar(s, c) ==
  CASE s.state = "text" -> Text(s, c)
    [] s.state = "esc" -> Escape([s EXCEPT !.state = "text"], c)
    [] s.state = "csi" -> LET r == [s EXCEPT !.state = "par", !.npar = 0, !.par = NoPar]
                          IN  IF c = "?" THEN r ELSE Parameter(r, c)
    [] s.state = "par" -> Parameter(s, c)

-----------------------------------------------------------------------------
(* The two positions of the cursor agree, the window is inside the memory,   *)
(* and nothing was stored outside of it (console.c:48-55, 69-114, 164-188,   *)
(* 407-412, 425-463).                                                        *)
CursorAgrees(s) ==
  /\ s.x \in 0 .. columns /\ s.y \in 0 .. lines - 1
  /\ s.pos = s.origin + s.y * columns + s.x
  /\ s.scr_end = s.origin + lines * columns /\ s.scr_end <= Rows * columns
  /\ s.top < s.bottom /\ s.bottom <= lines
  /\ ~s.stray

Row(s, i) == Cells(s, s.origin + i * columns, columns)
Picture(s) == [i \in 0 .. lines - 1 |-> Row(s, i)]
BlankRow == [i \in 0 .. columns - 1 |-> "blank"]

\* The picture p scrolled by n rows between the rows t and b-1.
Up(p, t, b, n) ==
  [i \in 0 .. lines - 1 |-> IF i \notin t .. b - 1 THEN p[i]
                            ELSE IF i + n < b THEN p[i + n] ELSE BlankRow]
Down(p, t, b, n) ==
  [i \in 0 .. lines - 1 |-> IF i \notin t .. b - 1 THEN p[i]
                            ELSE IF i - n >= t THEN p[i - n] ELSE BlankRow]

\* What may become of the rows of a picture: they are scrolled, or erased by ESC [ J.
Rearranged(s) ==
  LET p == Picture(s)
      regions == {<<s.top, s.bottom>>, <<s.y, lines>>}
      scrolled(n) == {Up(p, g[1], g[2], n) : g \in regions} \union {Down(p, g[1], g[2], n) : g \in regions}
  IN  IF s.state \in {"text", "esc"} THEN {p} \union scrolled(1)
      ELSE UNION {scrolled(n) : n \in 0 .. lines}
             \union {Up(p, s.y + 1, lines, lines), Up(p, 0, s.y, lines), Up(p, 0, lines, lines)}

(* A character changes the row the cursor is in then, and after ESC not even *)
(* that; the other rows are scrolled as rows within the region or from the   *)
(* cursor on, by one in a text, or erased, wherever the window is            *)
(* (console.c:69-137, 139-162, 199-232, 317-356).                            *)
RowsMove(s, r) ==
  \E p \in Rearranged(s) :
    \A i \in 0 .. lines - 1 : Picture(r)[i] = p[i] \/ (i = r.y /\ s.state # "esc")
=============================================================================
