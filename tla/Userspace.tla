----------------------------- MODULE Userspace -----------------------------
(***************************************************************************)
(* The programs of src/userspace as module Ipc executes them: their system *)
(* calls in order, and where the final loop begins.  What a program does   *)
(* with the messages in between is left out.  A message is 32 bytes of     *)
(* text, or a picture, or half of a keyboard status.                       *)
(***************************************************************************)
EXTENDS Ipc

register(n) == [op |-> "register", name |-> n]
connect(n, v) == [op |-> "connect", name |-> n, as |-> v]
handle(i) == [op |-> "handle", irq |-> i]
select(v) == [op |-> "select", as |-> v]
read(v) == [op |-> "read", of |-> v]
poll(v) == [op |-> "poll", of |-> v]
write(v, m) == [op |-> "write", of |-> v, msg |-> m]
end == [op |-> "end"]   \* main has returned: _start spins (libc/entry.c)

\* srv_loop.c: count for ever, without a system call.
srv_loop == [code |-> <<end>>, loop |-> 1]

\* token_common.h: pass on whatever comes.
token_common(self, target) ==
    [code |-> <<register(self), connect(target, "next"), select("from"),
                read("from"), write("next", "buf")>>,
     loop |-> 4]

\* token_0.c: announce itself on the screen, start the token, pass it on and
\* report to the screen after every step rounds; step is 2 here, not 4096.
token_0 ==
    [code |-> <<register("token0"), connect("screen", "screen"),
                write("screen", "started"), write("screen", "padding"),
                connect("token1", "next"), write("next", "token"),
                select("from"), read("from"), write("next", "buf"), read("from"),
                write("next", "buf"), write("screen", "report"), write("screen", "padding")>>,
     loop |-> 8]

\* srv_screen.c: show what the clients send, 64 bytes at a time.
srv_screen ==
    [code |-> <<register("screen"), select("descr"), read("descr"), read("descr")>>, loop |-> 2]

\* srv_fullscreen.c: the same for whole pictures (module Console).
srv_fullscreen ==
    [code |-> <<register("fullscreen"), select("descr"), read("descr")>>, loop |-> 2]

\* srv_keyboard.c: a status of 256 bytes is two messages for the snake, which
\* reads 128 at a time.
srv_keyboard ==
    [code |-> <<register("keyboard"), handle(218), connect("snake", "snake"),
                write("snake", "keys"), write("snake", "zeros"), select("os"),
                read("os"), write("snake", "keys"), write("snake", "zeros")>>,
     loop |-> 7]

\* snake.c: draw, and look at the keys if there is something new.
snake ==
    [code |-> <<register("snake"), connect("fullscreen", "screen"), select("keyboard"),
                read("keyboard"), write("screen", "picture"), poll("keyboard")>>,
     loop |-> 5]

\* streamer_in.c and streamer_out.c: in each of TESTS rounds, PACKETS messages
\* one way, one back, and a line of 32 bytes on the screen from each program.
\* TESTS is 3 here, not 5, and PACKETS 4, not 32000: a stream holds the lines of
\* all rounds, and not the packets of one.
streamer_in ==
    LET packets == [i \in 1..4 |-> write("out", "packet")]
        round == <<write("screen", "start")>> \o packets \o <<read("out")>>
        code == <<connect("screen", "screen"), connect("streamer_out", "out")>>
                  \o round \o round \o round \o <<end>>
    IN  [code |-> code, loop |-> Len(code)]

streamer_out ==
    LET packets == [i \in 1..4 |-> read("in")]
        round == packets \o <<write("screen", "stop"), write("in", "answer")>>
        code == <<register("streamer_out"), connect("screen", "screen"), select("in")>>
                  \o round \o round \o round \o <<end>>
    IN  [code |-> code, loop |-> Len(code)]
=============================================================================
