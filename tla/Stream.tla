------------------------------- MODULE Stream -------------------------------
(***************************************************************************)
(* The ring buffer of src/kernel/stream.c, the only way processes exchange *)
(* bytes.  One thread writes (the owner of the stream's output end), one   *)
(* thread reads, on different CPUs or preempting each other, and no lock   *)
(* protects the two indices: every access to shared memory is a step of    *)
(* its own.  "read" is the slot consumed LAST, "write" the slot filled     *)
(* NEXT, so the unread bytes are in the slots strictly between them and    *)
(* two slots of the buffer are never used for data.                        *)
(*                                                                         *)
(* A thread that finds the stream full (empty) waits with                  *)
(* sched_thread_wait; here it is blocked until its event function is true, *)
(* which is what the scheduler evaluates before it runs the thread again   *)
(* (module Scheduler has that code), and then checks once more.            *)
(***************************************************************************)
EXTENDS Integers, Sequences

CONSTANTS STREAM_BUF_LEN,  \* slots of the ring buffer (1024 in stream.h)
          Byte,            \* the values of a byte
          Messages,        \* what a write call may be asked to write
          ReadLens         \* how many bytes a read call may ask for

\* The indices are uint16; a zero-length call returns without any effect and
\* is left out of the inputs.
ASSUME StreamAssumption ==
    /\ STREAM_BUF_LEN \in Nat /\ 2 <= STREAM_BUF_LEN /\ STREAM_BUF_LEN <= 2^16
    /\ 0 \in Byte
    /\ Messages \subseteq Seq(Byte) \ {<<>>}
    /\ ReadLens \subseteq Nat \ {0}

VARIABLES read, write, buf,  \* struct stream
          wpc, src,          \* the writing thread: its place in stream_write
                             \* and the bytes from "buf" on that remain
          rpc, left, dst,    \* the reading thread: its place in stream_read,
                             \* "len", and the bytes stored through "buf"
          peeked             \* what the reader last learned from SYSCALL_PEEK

ring == <<read, write, buf>>
writer == <<wpc, src>>
reader == <<rpc, left, dst, peeked>>
vars == <<ring, writer, reader>>

Slot == 0..(STREAM_BUF_LEN - 1)
-----------------------------------------------------------------------------
\* Forms that a plausible slip would give the definitions below.
next_step_no_wrap(ptr) == ptr + 1
write_length_uses_all_slots(r, w) ==
    LET result == r - w IN IF result < 0 THEN result + STREAM_BUF_LEN ELSE result
peek_counts_write_slot == (write - read) % STREAM_BUF_LEN

next_step(ptr) == (ptr + 1) % STREAM_BUF_LEN

\* Both lengths are computed in signed int and corrected once when negative.
stream_write_length(r, w) ==
    LET result == r - w - 1
    IN  IF result < 0 THEN result + STREAM_BUF_LEN ELSE result

stream_read_length(r, w) ==
    LET result == w - r - 1
    IN  IF result < 0 THEN result + STREAM_BUF_LEN ELSE result

writable == stream_write_length(read, write)
readable == stream_read_length(read, write)

stream_write_event == writable > 0
stream_read_event == readable > 0

\* stream_new
Init ==
    /\ read = 0
    /\ write = 1
    /\ buf = [i \in Slot |-> 0]
    /\ wpc = "idle" /\ src = <<>>
    /\ rpc = "idle" /\ left = 0 /\ dst = <<>>
    /\ peeked = 0
-----------------------------------------------------------------------------
(* stream_write(this, buf, len)                                            *)

StartWrite(m) ==
    /\ wpc = "idle"
    /\ wpc' = "check"
    /\ src' = m
    /\ UNCHANGED <<ring, reader>>

WriteCheck ==
    /\ wpc = "check"
    /\ wpc' = IF writable = 0 THEN "wait" ELSE "store"
    /\ UNCHANGED <<ring, src, reader>>

WriteResume ==
    /\ wpc = "wait"
    /\ stream_write_event
    /\ wpc' = "check"
    /\ UNCHANGED <<ring, src, reader>>

WriteStore ==
    /\ wpc = "store"
    /\ buf' = [buf EXCEPT ![write] = Head(src)]
    /\ wpc' = "advance"
    /\ UNCHANGED <<read, write, src, reader>>

advance_keeps_len ==
    /\ wpc = "advance"
    /\ write' = next_step(write)
    /\ wpc' = "check"
    /\ UNCHANGED <<read, buf, src, reader>>

WriteAdvance ==
    /\ wpc = "advance"
    /\ write' = next_step(write)
    /\ src' = Tail(src)
    /\ wpc' = IF Tail(src) = <<>> THEN "idle" ELSE "check"
    /\ UNCHANGED <<read, buf, reader>>
-----------------------------------------------------------------------------
(* stream_read(this, buf, len): the index moves before the byte is fetched *)

StartRead(n) ==
    /\ rpc = "idle"
    /\ rpc' = "check"
    /\ left' = n
    /\ dst' = <<>>
    /\ peeked' = 0
    /\ UNCHANGED <<ring, writer>>

ReadCheck ==
    /\ rpc = "check"
    /\ rpc' = IF readable = 0 THEN "wait" ELSE "claim"
    /\ UNCHANGED <<ring, writer, left, dst, peeked>>

ReadResume ==
    /\ rpc = "wait"
    /\ stream_read_event
    /\ rpc' = "check"
    /\ UNCHANGED <<ring, writer, left, dst, peeked>>

ReadClaim ==
    /\ rpc = "claim"
    /\ read' = next_step(read)
    /\ rpc' = "fetch"
    /\ UNCHANGED <<write, buf, writer, left, dst, peeked>>

ReadFetch ==
    /\ rpc = "fetch"
    /\ dst' = Append(dst, buf[read])
    /\ left' = left - 1
    /\ rpc' = IF left = 1 THEN "idle" ELSE "check"
    /\ UNCHANGED <<ring, writer, peeked>>

\* SYSCALL_PEEK of the reading process
PeekLength == readable

Peek ==
    /\ rpc = "idle"
    /\ peeked' = PeekLength
    /\ UNCHANGED <<ring, writer, rpc, left, dst>>
-----------------------------------------------------------------------------
WriteStep == WriteCheck \/ WriteResume \/ WriteStore \/ WriteAdvance

ReadStep == ReadCheck \/ ReadResume \/ ReadClaim \/ ReadFetch

Next ==
    \/ \E m \in Messages : StartWrite(m)
    \/ WriteStep
    \/ \E n \in ReadLens : StartRead(n)
    \/ ReadStep
    \/ Peek

Spec == Init /\ [][Next]_vars

\* A thread inside a call keeps being scheduled, and the reading process is a
\* server loop that calls read again (srv_screen.c, srv_fullscreen.c,
\* token_common.h).  Nobody is obliged to start a write or to peek.
Fairness ==
    /\ WF_vars(WriteStep)
    /\ WF_vars(ReadStep)
    /\ WF_vars(\E n \in ReadLens : StartRead(n))

FairSpec == Spec /\ Fairness
-----------------------------------------------------------------------------
\* Type correctness: the indices stay inside the buffer, the program counters
\* and the local copies of the two calls stay in range.
TypeOK ==
    /\ read \in Slot
    /\ write \in Slot
    /\ buf \in [Slot -> Byte]
    /\ wpc \in {"idle", "check", "wait", "store", "advance"}
    /\ src \in Seq(Byte)
    /\ rpc \in {"idle", "check", "wait", "claim", "fetch"}
    /\ left \in Nat
    /\ dst \in Seq(Byte)
    /\ peeked \in Nat

\* The writer, once past its check, keeps a free slot until it has used it.
WriterHasRoom == wpc \in {"store", "advance"} => writable > 0

\* The reader, once past its check, keeps a byte until it has claimed it.
ReaderHasByte == rpc = "claim" => readable > 0

\* The indices never meet: a full buffer is never taken for an empty one.
IndicesApart == read # write

\* Each call ends exactly when its bytes have been dealt with.
CallsMatch ==
    /\ (wpc = "idle") = (src = <<>>)
    /\ (rpc = "idle") = (left = 0)
    /\ wpc = "advance" => buf[write] = Head(src)

\* What each thread found out in its check stays true although the other one
\* runs between the check and the use.
Inv == WriterHasRoom /\ ReaderHasByte /\ IndicesApart /\ CallsMatch

\* The inductive invariant of stream_write and stream_read: types, and Inv.
IInv == TypeOK /\ Inv

\* SYSCALL_PEEK never promises too much: as many bytes as the reader saw are
\* still there until it reads, whatever the writer does in the meantime.
PeekSafe == rpc = "idle" => peeked <= readable
-----------------------------------------------------------------------------
(* Refinement: the bytes in flight are the unread ones, and the one the    *)
(* reader has claimed but not fetched yet (it sits in slot "read").        *)

InHand == IF rpc = "fetch" THEN 1 ELSE 0

ChanSlot(k) == (read + k - InHand) % STREAM_BUF_LEN

InFlight == [k \in 1..(readable + InHand) |-> buf[ChanSlot(k)]]

Channel == INSTANCE ByteChannel
             WITH Capacity <- STREAM_BUF_LEN - 1,
                  snd <- src, chan <- InFlight, want <- left, rcv <- dst

\* The ring buffer implements the lossless first-in first-out byte channel:
\* stream_write and stream_read lose, repeat, reorder and invent nothing.
ImplementsChannel == Channel!Spec

\* A write call that has started returns, as long as somebody reads, and a read
\* call for no more bytes than are there returns.
CallsComplete ==
    /\ wpc # "idle" ~> wpc = "idle"
    /\ (rpc # "idle" /\ readable + InHand >= left) ~> rpc = "idle"
=============================================================================
