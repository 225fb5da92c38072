------------------------------- MODULE Snake -------------------------------
(***************************************************************************)
(* The game of src/userspace/snake.c: one action is one round of its loop, *)
(* with the state of the four keys that the keyboard driver sent last      *)
(* (change_dir, enlarge_snake, move_snake, draw_snake in this order).      *)
(* The system calls of the loop are in module Userspace.  The screen is a  *)
(* torus.  iterations is kept modulo the interval at which the snake grows *)
(* (16 in the code), and nothing else depends on it.                       *)
(***************************************************************************)
EXTENDS Integers, Sequences

CONSTANTS SCREEN_WIDTH, SCREEN_HEIGHT,
          MAX_LEN, InitialLen,    \* 400 and 5 in the code
          Interval,
          StartX, StartY

\* What the constants have to satisfy.
SnakeAssumption ==
    /\ SCREEN_WIDTH \in Nat /\ SCREEN_WIDTH > 2 /\ SCREEN_HEIGHT \in Nat /\ SCREEN_HEIGHT > 2
    /\ InitialLen \in Nat /\ MAX_LEN \in Nat /\ 2 < InitialLen /\ InitialLen <= MAX_LEN
    /\ Interval \in Nat \ {0}
    /\ StartX \in (InitialLen - 1)..(SCREEN_WIDTH - 1)
    /\ StartY \in 0..(SCREEN_HEIGHT - 1)

Key == {"UP", "DOWN", "LEFT", "RIGHT"}

Direction == [x : {-1, 0, 1}, y : {-1, 0, 1}]
Cell == [x : 0..(SCREEN_WIDTH - 1), y : 0..(SCREEN_HEIGHT - 1)]

VARIABLES snake,        \* snake[1] is the head; its length is snake_len
          direction,
          iterations,
          buf           \* the cells that show the symbol

vars == <<snake, direction, iterations, buf>>

Init ==
    /\ snake = [i \in 1..InitialLen |-> [x |-> StartX - (i - 1), y |-> StartY]]
    /\ direction = [x |-> 1, y |-> 0]
    /\ iterations = 0
    /\ buf = {}
-----------------------------------------------------------------------------
\* The first key of the four that is down decides.
Chosen(status) ==
    CASE "UP" \in status -> [x |-> 0, y |-> -1]
      [] "DOWN" \in status -> [x |-> 0, y |-> 1]
      [] "LEFT" \in status -> [x |-> -1, y |-> 0]
      [] "RIGHT" \in status -> [x |-> 1, y |-> 0]
      [] OTHER -> [x |-> 0, y |-> 0]

turn_at_once(status) == IF status = {} THEN direction ELSE Chosen(status)

\* change_dir: no key, or straight back, changes nothing.
change_dir(status) ==
    LET next == Chosen(status)
    IN  IF next = [x |-> 0, y |-> 0] \/ (next.x + direction.x = 0 /\ next.y + direction.y = 0)
        THEN direction
        ELSE next

\* enlarge_snake: the last segment is doubled.
enlarge_snake(s) ==
    IF iterations % Interval # 0 \/ Len(s) = MAX_LEN THEN s ELSE Append(s, s[Len(s)])

\* The cell next to c in direction d.
Step(c, d) == [x |-> (SCREEN_WIDTH + c.x + d.x) % SCREEN_WIDTH,
               y |-> (SCREEN_HEIGHT + c.y + d.y) % SCREEN_HEIGHT]

\* move_snake: every segment takes the place of the one before it.
move_snake(s, d) == [i \in 1..Len(s) |-> IF i = 1 THEN Step(s[1], d) ELSE s[i - 1]]

\* draw_snake
draw_snake(s) == {s[i] : i \in 1..Len(s)}

Round(status) ==
    /\ direction' = change_dir(status)
    /\ snake' = move_snake(enlarge_snake(snake), direction')
    /\ buf' = draw_snake(snake')
    /\ iterations' = (iterations + 1) % Interval

Next == \E status \in SUBSET Key : Round(status)

Spec == Init /\ [][Next]_vars
-----------------------------------------------------------------------------
\* Type correctness: the snake stays on the screen and within its array.
TypeOK ==
    /\ snake \in Seq(Cell) /\ Len(snake) \in InitialLen..MAX_LEN
    /\ direction \in Direction
    /\ iterations \in 0..(Interval - 1)
    /\ buf \subseteq Cell

Unit == {d \in Direction : d.x * d.y = 0 /\ d.x + d.y # 0}

\* The snake is in one piece: every segment is one step away from the one that
\* follows it, also across the border of the screen and where it has just grown.
Connected == \A i \in 1..(Len(snake) - 1) : \E d \in Unit : snake[i] = Step(snake[i + 1], d)

\* The head never goes back to where its neck is, whichever keys are down and
\* in whatever order they were pressed: a turn back takes two rounds at least.
NeverTurnsBack == snake[1] # snake[3]

\* The snake after every round.
SnakeSound == TypeOK /\ Connected /\ NeverTurnsBack
=============================================================================
