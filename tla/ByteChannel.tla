----------------------------- MODULE ByteChannel -----------------------------
(***************************************************************************)
(* What a kernel stream (src/kernel/stream.c) promises to the two threads  *)
(* at its ends: a bounded, lossless, first-in first-out channel of bytes.  *)
(* A write call puts its bytes into the channel one after the other, a     *)
(* read call takes them out one after the other; nothing is lost,          *)
(* duplicated, reordered or invented in between.  The ring buffer of       *)
(* module Stream is shown to implement this specification.                 *)
(***************************************************************************)
EXTENDS Naturals, Sequences

CONSTANTS Messages,  \* the byte sequences a write call may be given
          ReadLens,  \* the lengths a read call may ask for
          Capacity   \* the most bytes that are ever in the channel

VARIABLES snd,   \* bytes the current write call has still to put
          chan,  \* bytes in the channel, oldest first
          want,  \* number of bytes the current read call still waits for
          rcv    \* bytes the current (or the last) read call has delivered

vars == <<snd, chan, want, rcv>>

Init ==
    /\ snd = <<>>
    /\ chan = <<>>
    /\ want = 0
    /\ rcv = <<>>

BeginWrite(m) ==
    /\ snd = <<>>
    /\ snd' = m
    /\ UNCHANGED <<chan, want, rcv>>

Put ==
    /\ snd # <<>>
    /\ Len(chan) < Capacity
    /\ chan' = Append(chan, Head(snd))
    /\ snd' = Tail(snd)
    /\ UNCHANGED <<want, rcv>>

BeginRead(n) ==
    /\ want = 0
    /\ want' = n
    /\ rcv' = <<>>
    /\ UNCHANGED <<snd, chan>>

Get ==
    /\ want > 0
    /\ chan # <<>>
    /\ rcv' = Append(rcv, Head(chan))
    /\ chan' = Tail(chan)
    /\ want' = want - 1
    /\ UNCHANGED snd

Next ==
    \/ \E m \in Messages : BeginWrite(m)
    \/ Put
    \/ \E n \in ReadLens : BeginRead(n)
    \/ Get

Spec == Init /\ [][Next]_vars
=============================================================================
