------------------------------ MODULE Console ------------------------------
(***************************************************************************)
(* The text consoles: the kernel's (src/kernel/screen.c) and the screen    *)
(* driver's (src/userspace/srv_screen.c).  Both keep a cursor and write to *)
(* the same kind of video memory; they differ in when a line is wrapped    *)
(* and when the screen is scrolled.  They are compared with the picture of *)
(* the text on a page without end, of which the screen is the lowest part. *)
(* A third driver (srv_fullscreen.c) shows one picture after the other.    *)
(*                                                                         *)
(* Colours are left out (nothing changes cur_style between two characters  *)
(* of a text).                                                             *)
(***************************************************************************)
EXTENDS Integers, Sequences, FiniteSets, FiniteSetsExt

CONSTANTS SCREEN_WIDTH, SCREEN_HEIGHT,
          Printable,    \* the characters from ' ' on
          MaxText       \* bound on the length of a text

\* What the constants have to satisfy.
ConsoleAssumption ==
    /\ SCREEN_WIDTH \in Nat \ {0, 1} /\ SCREEN_HEIGHT \in Nat \ {0} /\ MaxText \in Nat
    /\ {"newline", "return", "blank"} \cap Printable = {}

Char == Printable \cup {"newline", "return"}
Size == SCREEN_WIDTH * SCREEN_HEIGHT

VARIABLES console,      \* "kernel", "server" or "fullscreen"
          videomem,     \* the cells of the screen, and the one behind them
          cur_x, cur_y,
          text          \* what was written since the screen was empty; the
                        \* picture displayed last

vars == <<console, videomem, cur_x, cur_y, text>>

Empty == [i \in 0..Size |-> "blank"]

Init ==
    /\ console \in {"kernel", "server", "fullscreen"}
    /\ videomem = Empty
    /\ cur_x = 0 /\ cur_y = 0
    /\ text = <<>>
-----------------------------------------------------------------------------
keep_last_line(mem) ==
    [i \in 0..Size |-> IF i < SCREEN_WIDTH * (SCREEN_HEIGHT - 1) THEN mem[i + SCREEN_WIDTH] ELSE mem[i]]

\* move_screen and clear_line
move_screen(mem) ==
    [i \in 0..Size |-> CASE i < SCREEN_WIDTH * (SCREEN_HEIGHT - 1) -> mem[i + SCREEN_WIDTH]
                         [] i = Size -> mem[i]
                         [] OTHER -> "blank"]

\* The cell under the cursor takes a printable character.
Store(mem, x, y, c) ==
    IF c \in Printable THEN [mem EXCEPT ![y * SCREEN_WIDTH + x] = c] ELSE mem

\* The first half of both mv_cur: where the cursor goes before lines wrap.
Moved(x, y, c) ==
    CASE c = "return" -> [x |-> 0, y |-> y]
      [] c = "newline" -> [x |-> 0, y |-> y + 1]
      [] OTHER -> [x |-> x + 1, y |-> y]

\* The second half: beyond the limit, the cursor goes on in the next line.
Wrapped(pos, limit) ==
    IF pos.x > limit THEN [x |-> pos.x % SCREEN_WIDTH, y |-> pos.y + pos.x \div SCREEN_WIDTH] ELSE pos

Scrolls(y) == y >= SCREEN_HEIGHT

\* screen.c screen_putchar scrolls before it writes, and wraps a line when a
\* character was written behind its end.
KernelPutchar(c) ==
    LET mem == IF Scrolls(cur_y) THEN move_screen(videomem) ELSE videomem
        y == IF Scrolls(cur_y) THEN SCREEN_HEIGHT - 1 ELSE cur_y
        pos == Wrapped(Moved(cur_x, y, c), SCREEN_WIDTH)
    IN  /\ videomem' = Store(mem, cur_x, y, c)
        /\ cur_x' = pos.x
        /\ cur_y' = pos.y

\* srv_screen.c screen_putchar writes, then wraps a full line and scrolls.
ServerPutchar(c) ==
    LET pos == Wrapped(Moved(cur_x, cur_y, c), SCREEN_WIDTH - 1)
        mem == Store(videomem, cur_x, cur_y, c)
    IN  /\ videomem' = IF Scrolls(pos.y) THEN move_screen(mem) ELSE mem
        /\ cur_x' = pos.x
        /\ cur_y' = IF Scrolls(pos.y) THEN SCREEN_HEIGHT - 1 ELSE pos.y

\* The next character of screen_putstr.
screen_putstr(c) ==
    /\ console # "fullscreen" /\ Len(text) < MaxText
    /\ IF console = "kernel" THEN KernelPutchar(c) ELSE ServerPutchar(c)
    /\ text' = Append(text, c)
    /\ UNCHANGED console

\* screen_clear; of the drivers, only the one for pictures calls its own, at
\* its start.
screen_clear ==
    /\ console = "kernel" \/ (console = "fullscreen" /\ text = <<>>)
    /\ videomem' = [i \in 0..Size |-> IF i < Size THEN "blank" ELSE videomem[i]]
    /\ cur_x' = 0 /\ cur_y' = 0
    /\ text' = <<>>
    /\ UNCHANGED console

Cells == 0..(Size - 1)

\* screen_display: all of the picture that a client sent.
screen_display(picture) ==
    /\ console = "fullscreen"
    /\ videomem' = [i \in 0..Size |-> IF i < Size THEN picture[i] ELSE videomem[i]]
    /\ text' = [n \in 1..Size |-> picture[n - 1]]
    /\ UNCHANGED <<console, cur_x, cur_y>>

Next ==
    \/ \E c \in Char : screen_putstr(c)
    \/ screen_clear
    \/ \E picture \in [Cells -> Printable] : screen_display(picture)

Spec == Init /\ [][Next]_vars
-----------------------------------------------------------------------------
(* The page without end                                                    *)

\* Where the cursor goes from place p.
NextPlace(p, c) ==
    CASE c = "return" -> [row |-> p.row, col |-> 0]
      [] c = "newline" -> [row |-> p.row + 1, col |-> 0]
      [] OTHER -> IF p.col = SCREEN_WIDTH - 1 THEN [row |-> p.row + 1, col |-> 0]
                                              ELSE [row |-> p.row, col |-> p.col + 1]

\* Where the cursor is after the first n characters.
Place ==
    LET place[n \in 0..Len(text)] ==
          IF n = 0 THEN [row |-> 0, col |-> 0] ELSE NextPlace(place[n - 1], text[n])
    IN  place

\* What is to be seen at a place of the page: the last character put there.
Seen(place, row, col) ==
    LET there == {n \in 1..Len(text) : /\ text[n] \in Printable
                                       /\ place[n - 1] = [row |-> row, col |-> col]}
    IN  IF there = {} THEN "blank" ELSE text[Max(there)]

\* The screen shows the page from the given row on.
Shows(place, top) ==
    \A r \in 0..(SCREEN_HEIGHT - 1), c \in 0..(SCREEN_WIDTH - 1) :
      videomem[r * SCREEN_WIDTH + c] = Seen(place, top + r, c)

Top(lowest) == Max({0, lowest - SCREEN_HEIGHT + 1})
-----------------------------------------------------------------------------
\* Type correctness; the kernel's cursor may stand behind the end of a line or
\* below the last one, the driver's never leaves the screen.
TypeOK ==
    /\ videomem \in [0..Size -> Printable \cup {"blank"}]
    /\ cur_x \in 0..SCREEN_WIDTH /\ cur_y \in 0..SCREEN_HEIGHT
    /\ console = "server" => cur_x < SCREEN_WIDTH /\ cur_y < SCREEN_HEIGHT

\* The screen driver shows the end of the text, whatever lines were wrapped,
\* overwritten after a return or scrolled away, and nothing else.
ServerShowsText ==
    console = "server" => LET place == Place IN Shows(place, Top(place[Len(text)].row))

\* No line of the text is as long as the screen is wide.
LinesFit(place) == \A n \in 1..Len(text) : place[n - 1].col < SCREEN_WIDTH - 1 \/ text[n] \notin Printable

\* The kernel's console shows the end of the text too, down to the line of the
\* last character, if lines fit.  (A character that is wrapped in the lowest
\* line goes to the cell behind the screen and is lost.)
KernelShowsText ==
    console = "kernel" =>
      LET place == Place
      IN  LinesFit(place) => Shows(place, Top(IF text = <<>> THEN 0 ELSE place[Len(text) - 1].row))

\* The last picture, whole, and not a cell more: it is as long as the screen.
ShowsPicture ==
    console = "fullscreen" =>
      /\ text = <<>> \/ \A i \in Cells : videomem[i] = text[i + 1]
      /\ videomem[Size] = "blank"

\* All consoles.
ShowsText == TypeOK /\ ServerShowsText /\ KernelShowsText /\ ShowsPicture
=============================================================================
