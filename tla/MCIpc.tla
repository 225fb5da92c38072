------------------------------- MODULE MCIpc -------------------------------
(* Three lists of modules: a ring of two token programs with a screen      *)
(* driver (userspace/modfile has four), the game with its two drivers, and *)
(* the two streamers; each with a program that only computes, as in the    *)
(* modfile.                                                                *)
EXTENDS Userspace

Ring == <<srv_loop, srv_screen, token_0, token_common("token1", "token0")>>
Game == <<srv_loop, srv_keyboard, snake, srv_fullscreen>>
Streamers == <<srv_loop, streamer_in, srv_screen, streamer_out>>

All == {Ring, Game, Streamers}
OnlyRing == {Ring}
=============================================================================
