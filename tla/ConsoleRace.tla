---------------------------- MODULE ConsoleRace ----------------------------
(***************************************************************************)
(* Several CPUs in screen_putstr of src/kernel/screen.c at the same time:  *)
(* its lock is commented out, and the cursor is shared.  Every access to   *)
(* cur_x and cur_y is a step; reg is what a CPU has read and not yet       *)
(* written back.  Module Console has the same code for one CPU, with what  *)
(* is on the screen.                                                       *)
(*                                                                         *)
(* The cursor is a pair of bytes; BYTE stands for 2^8.   Stale values      *)
(* that are written back can push it further and further behind the        *)
(* screen, as far as a byte goes.                                          *)
(***************************************************************************)
EXTENDS Integers

CONSTANTS CPUS, SCREEN_WIDTH, SCREEN_HEIGHT, BYTE

\* What the constants have to satisfy.
RaceAssumption ==
    SCREEN_WIDTH \in 1..(BYTE - 1) /\ SCREEN_HEIGHT \in 1..(BYTE - 1) /\ BYTE \in Nat

VARIABLES cur_x, cur_y, pc, reg

vars == <<cur_x, cur_y, pc, reg>>

Init ==
    /\ cur_x = 0 /\ cur_y = 0
    /\ pc = [c \in CPUS |-> "out"]
    /\ reg = [c \in CPUS |-> 0]
-----------------------------------------------------------------------------
Go(c, from, to) == pc[c] = from /\ pc' = [pc EXCEPT ![c] = to]
Keep(c, value) == reg' = [reg EXCEPT ![c] = value]
Drop(c) == Keep(c, 0)

\* The next character of the text; at the screen's end it scrolls.
Test(c) ==
    /\ Go(c, "out", IF cur_y >= SCREEN_HEIGHT THEN "scroll" ELSE "row")
    /\ UNCHANGED <<cur_x, cur_y, reg>>

Scroll(c) ==
    /\ Go(c, "scroll", "row")
    /\ cur_y' = SCREEN_HEIGHT - 1
    /\ UNCHANGED <<cur_x, reg>>

\* The store, if it is a character to be seen, to line reg and column cur_x.
Row(c) == Go(c, "row", "store") /\ Keep(c, cur_y) /\ UNCHANGED <<cur_x, cur_y>>
Stored(c) == Go(c, "store", "move") /\ Drop(c) /\ UNCHANGED <<cur_x, cur_y>>

\* mv_cur: a return, a newline, or another character
Return(c) == Go(c, "move", "wrap") /\ cur_x' = 0 /\ UNCHANGED <<cur_y, reg>>
Newline(c) == Go(c, "move", "line") /\ cur_x' = 0 /\ UNCHANGED <<cur_y, reg>>
LineRead(c) == Go(c, "line", "down") /\ Keep(c, cur_y) /\ UNCHANGED <<cur_x, cur_y>>
Down(c) == Go(c, "down", "wrap") /\ cur_y' = (reg[c] + 1) % BYTE /\ Drop(c) /\ UNCHANGED cur_x
ColumnRead(c) == Go(c, "move", "right") /\ Keep(c, cur_x) /\ UNCHANGED <<cur_x, cur_y>>
Right(c) == Go(c, "right", "wrap") /\ cur_x' = (reg[c] + 1) % BYTE /\ Drop(c) /\ UNCHANGED cur_y

wrap_one_line_only(c) ==
    /\ Go(c, "wrap", IF cur_x > SCREEN_WIDTH /\ cur_y < SCREEN_HEIGHT THEN "wrap_y" ELSE "out")
    /\ UNCHANGED <<cur_x, cur_y, reg>>

\* The line is full.
Wrap(c) ==
    /\ Go(c, "wrap", IF cur_x > SCREEN_WIDTH THEN "wrap_y" ELSE "out")
    /\ UNCHANGED <<cur_x, cur_y, reg>>

WrapRow(c) == Go(c, "wrap_y", "add") /\ Keep(c, cur_y) /\ UNCHANGED <<cur_x, cur_y>>
WrapAdd(c) ==
    /\ Go(c, "add", "wrap_x")
    /\ cur_y' = (reg[c] + cur_x \div SCREEN_WIDTH) % BYTE
    /\ Drop(c) /\ UNCHANGED cur_x
WrapColumn(c) == Go(c, "wrap_x", "mod") /\ Keep(c, cur_x) /\ UNCHANGED <<cur_x, cur_y>>
WrapMod(c) == Go(c, "mod", "out") /\ cur_x' = reg[c] % SCREEN_WIDTH /\ Drop(c) /\ UNCHANGED cur_y

mv_cur(c) ==
    \/ Return(c) \/ Newline(c) \/ LineRead(c) \/ Down(c) \/ ColumnRead(c) \/ Right(c)
    \/ Wrap(c) \/ WrapRow(c) \/ WrapAdd(c) \/ WrapColumn(c) \/ WrapMod(c)

screen_putchar(c) == Test(c) \/ Scroll(c) \/ Row(c) \/ Stored(c) \/ mv_cur(c)

Next == \E c \in CPUS : screen_putchar(c)

Spec == Init /\ [][Next]_vars
-----------------------------------------------------------------------------
\* Type correctness.
TypeOK ==
    /\ cur_x \in 0..(BYTE - 1) /\ cur_y \in 0..(BYTE - 1)
    /\ reg \in [CPUS -> 0..(BYTE - 1)]

\* The CPUs that may still write a column.
Moving == {c \in CPUS : pc[c] \in {"move", "right", "wrap", "wrap_y", "add", "wrap_x", "mod"}}

\* Whatever two CPUs made of the cursor, it comes back: when nobody is moving
\* it, its column is on the screen or just behind the line, so that the next
\* character that is printed undisturbed lands on the screen or behind its end.
CursorRecovers == TypeOK /\ (Moving = {} => cur_x <= SCREEN_WIDTH)
=============================================================================
