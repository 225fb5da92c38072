---------------------------- MODULE StreamProofs ----------------------------
(***************************************************************************)
(* Proofs about module Stream, for every buffer size, every set of bytes   *)
(* and every length of reads and writes: type correctness, the safety of   *)
(* the two calls without a lock, the answer of SYSCALL_PEEK, and that the  *)
(* ring buffer implements module ByteChannel.                              *)
(*                                                                         *)
(* The invariant is Inv with the types: the writer's found room and the    *)
(* reader's found byte are still there when they are used, and the indices *)
(* never meet.  It is inductive because filling a slot only makes more     *)
(* bytes readable, and taking a byte more slots writable (AdvanceWrite     *)
(* and AdvanceRead).  For the refinement, the content of the channel is    *)
(* read off the slots between the two indices (ChanSlots).                 *)
(***************************************************************************)
EXTENDS Stream, SequenceTheorems, TLAPS

\* All that the proofs need to know about the size of the buffer.
LEMMA BufLen == STREAM_BUF_LEN \in Nat /\ STREAM_BUF_LEN >= 2
  BY StreamAssumption

\* What the calls are asked for.
LEMMA CallArgs ==
    /\ 0 \in Byte
    /\ \A m \in Messages : m \in Seq(Byte) /\ m # <<>>
    /\ \A n \in ReadLens : n \in Nat \ {0}
  BY StreamAssumption

\* The remainder of a number that is less than twice the divisor.
LEMMA Wrap ==
    ASSUME NEW n \in Nat \ {0}, NEW a \in 0..(2 * n - 1)
    PROVE  a % n = IF a < n THEN a ELSE a - n
  BY Z3

\* next_step adds one, and goes back to 0 behind the last slot.
LEMMA NextStep ==
    ASSUME NEW p \in Slot
    PROVE  next_step(p) = IF p = STREAM_BUF_LEN - 1 THEN 0 ELSE p + 1
  <1> DEFINE q == p + 1
  <1>1. STREAM_BUF_LEN \in Nat \ {0} /\ q \in 0..(2 * STREAM_BUF_LEN - 1)
    BY BufLen DEF Slot
  <1>2. q % STREAM_BUF_LEN = IF q < STREAM_BUF_LEN THEN q ELSE q - STREAM_BUF_LEN
    <2> HIDE DEF q
    <2> QED
      BY <1>1, Wrap
  <1> QED
    BY <1>2, BufLen DEF next_step, Slot

\* next_step stays in the buffer.
LEMMA NextStepInSlot ==
    ASSUME NEW p \in Slot
    PROVE  next_step(p) \in Slot
  BY NextStep, BufLen DEF Slot

\* Both lengths are natural numbers, and their sum is fixed as long as the
\* indices differ: two slots are never used for data.
LEMMA Lengths ==
    ASSUME NEW r \in Slot, NEW w \in Slot
    PROVE  /\ stream_write_length(r, w) \in Nat
           /\ stream_read_length(r, w) \in Nat
           /\ r # w => stream_write_length(r, w) + stream_read_length(r, w)
                         = STREAM_BUF_LEN - 2
  BY BufLen DEF Slot, stream_write_length, stream_read_length

\* Filling a slot that was found free makes one more byte readable.
LEMMA AdvanceWrite ==
    ASSUME NEW r \in Slot, NEW w \in Slot, r # w, stream_write_length(r, w) > 0
    PROVE  /\ r # next_step(w)
           /\ stream_read_length(r, next_step(w)) = stream_read_length(r, w) + 1
           /\ stream_write_length(r, next_step(w)) = stream_write_length(r, w) - 1
  <1>1. next_step(w) = IF w = STREAM_BUF_LEN - 1 THEN 0 ELSE w + 1
    BY NextStep
  <1> QED
    BY <1>1, BufLen DEF Slot, stream_write_length, stream_read_length

\* Claiming a byte that was found readable makes one more slot writable.
LEMMA AdvanceRead ==
    ASSUME NEW r \in Slot, NEW w \in Slot, r # w, stream_read_length(r, w) > 0
    PROVE  /\ next_step(r) # w
           /\ stream_read_length(next_step(r), w) = stream_read_length(r, w) - 1
           /\ stream_write_length(next_step(r), w) = stream_write_length(r, w) + 1
  <1>1. next_step(r) = IF r = STREAM_BUF_LEN - 1 THEN 0 ELSE r + 1
    BY NextStep
  <1> QED
    BY <1>1, BufLen DEF Slot, stream_write_length, stream_read_length
-----------------------------------------------------------------------------
\* The invariant holds for a stream that stream_new has made.
LEMMA InitIInv == Init => IInv
  BY BufLen, CallArgs
  DEF Init, IInv, TypeOK, Inv, Slot, WriterHasRoom, ReaderHasByte, IndicesApart, CallsMatch

\* Every step of the two calls keeps the invariant: a step of one side changes
\* only its own index, and only in favour of the other side.
LEMMA StepIInv == IInv /\ [Next]_vars => IInv'
  <1> SUFFICES ASSUME IInv, [Next]_vars PROVE IInv'
    OBVIOUS
  <1> USE DEF IInv, TypeOK, Inv, WriterHasRoom, ReaderHasByte, IndicesApart, CallsMatch
  <1>1. ASSUME NEW m \in Messages, StartWrite(m) PROVE IInv'
    BY <1>1, CallArgs DEF StartWrite, ring, reader, writable, readable
  <1>2. CASE WriteCheck
    BY <1>2, Lengths DEF WriteCheck, ring, reader, writable, readable
  <1>3. CASE WriteResume
    BY <1>3 DEF WriteResume, ring, reader, writable, readable
  <1>4. CASE WriteStore
    BY <1>4 DEF WriteStore, reader, writable, readable
  <1>5. CASE WriteAdvance
    <2>1. /\ write' = next_step(write) /\ write' \in Slot
          /\ src # <<>> /\ src' = Tail(src) /\ src' \in Seq(Byte)
          /\ wpc' = IF src' = <<>> THEN "idle" ELSE "check"
          /\ UNCHANGED <<read, buf, rpc, left, dst, peeked>>
      BY <1>5, NextStepInSlot DEF WriteAdvance, reader
    <2>2. read # write' /\ readable' = readable + 1
      BY <1>5, <2>1, AdvanceWrite DEF WriteAdvance, writable, readable
    <2>3. readable \in Nat
      BY Lengths DEF readable
    <2> QED
      BY <2>1, <2>2, <2>3
  <1>6. ASSUME NEW n \in ReadLens, StartRead(n) PROVE IInv'
    BY <1>6, CallArgs DEF StartRead, ring, writer, writable, readable
  <1>7. CASE ReadCheck
    BY <1>7, Lengths DEF ReadCheck, ring, writer, writable, readable
  <1>8. CASE ReadResume
    BY <1>8 DEF ReadResume, ring, writer, writable, readable
  <1>9. CASE ReadClaim
    <2>1. /\ read' = next_step(read) /\ read' \in Slot /\ rpc' = "fetch"
          /\ UNCHANGED <<write, buf, wpc, src, left, dst, peeked>>
      BY <1>9, NextStepInSlot DEF ReadClaim, writer
    <2>2. read' # write /\ writable' = writable + 1
      BY <1>9, <2>1, AdvanceRead DEF ReadClaim, writable, readable
    <2>3. writable \in Nat
      BY Lengths DEF writable
    <2> QED
      BY <1>9, <2>1, <2>2, <2>3 DEF ReadClaim
  <1>10. CASE ReadFetch
    BY <1>10 DEF ReadFetch, ring, writer, writable, readable
  <1>11. CASE Peek
    BY <1>11, Lengths DEF Peek, PeekLength, ring, writer, writable, readable
  <1>12. CASE UNCHANGED vars
    BY <1>12 DEF vars, ring, writer, reader, writable, readable
  <1> QED
    BY <1>1, <1>2, <1>3, <1>4, <1>5, <1>6, <1>7, <1>8, <1>9, <1>10, <1>11, <1>12
    DEF Next, WriteStep, ReadStep

\* stream_write and stream_read need no lock: what either of them found in its
\* length check still holds when it uses the slot, for every buffer size.
THEOREM ChecksStayValid == Spec => []IInv
  BY InitIInv, StepIInv, PTL DEF Spec
-----------------------------------------------------------------------------
(* SYSCALL_PEEK                                                            *)

PInv == PeekSafe /\ (rpc # "idle" => peeked = 0)

\* Every step keeps what SYSCALL_PEEK answered a lower bound.
LEMMA StepPInv == IInv /\ IInv' /\ PInv /\ [Next]_vars => PInv'
  <1> SUFFICES ASSUME IInv, IInv', PInv, [Next]_vars PROVE PInv'
    OBVIOUS
  <1>1. readable \in Nat /\ readable' \in Nat
    BY Lengths DEF IInv, TypeOK, readable
  <1>2. ASSUME NEW m \in Messages, StartWrite(m) PROVE PInv'
    BY <1>2 DEF StartWrite, PInv, PeekSafe, ring, reader, readable
  <1>3. CASE WriteCheck \/ WriteResume \/ WriteStore
    BY <1>3 DEF WriteCheck, WriteResume, WriteStore, PInv, PeekSafe, ring, reader, readable
  <1>4. CASE WriteAdvance
    <2>1. readable' = readable + 1
      BY <1>4, AdvanceWrite
      DEF WriteAdvance, IInv, TypeOK, Inv, WriterHasRoom, IndicesApart, writable, readable
    <2>2. UNCHANGED <<rpc, peeked>>
      BY <1>4 DEF WriteAdvance, reader
    <2> QED
      BY <1>1, <2>1, <2>2 DEF PInv, PeekSafe, IInv, TypeOK
  <1>5. ASSUME NEW n \in ReadLens, StartRead(n) PROVE PInv'
    BY <1>5 DEF StartRead, PInv, PeekSafe
  <1>6. CASE ReadCheck \/ ReadResume \/ ReadClaim \/ ReadFetch
    BY <1>1, <1>6 DEF ReadCheck, ReadResume, ReadClaim, ReadFetch, PInv, PeekSafe
  <1>7. CASE Peek
    BY <1>1, <1>7 DEF Peek, PeekLength, PInv, PeekSafe, ring, readable
  <1>8. CASE UNCHANGED vars
    BY <1>8 DEF vars, ring, reader, PInv, PeekSafe, readable
  <1> QED
    BY <1>2, <1>3, <1>4, <1>5, <1>6, <1>7, <1>8 DEF Next, WriteStep, ReadStep

\* What SYSCALL_PEEK answered stays a lower bound until the process reads.
THEOREM PeekIsSafe == Spec => []PeekSafe
  <1>1. Init => PInv
    BY Lengths, InitIInv DEF Init, PInv, PeekSafe, readable, IInv, TypeOK
  <1>2. PInv => PeekSafe
    BY DEF PInv
  <1> QED
    BY <1>1, <1>2, InitIInv, StepIInv, StepPInv, PTL DEF Spec
-----------------------------------------------------------------------------
(* The ring buffer implements the byte channel                             *)

\* The unread bytes and the claimed one lie between the indices, in order,
\* and the slot filled next is not among them.
LEMMA ChanSlots ==
    ASSUME IInv, NEW k \in 1..(readable + InHand)
    PROVE  /\ ChanSlot(k) \in Slot
           /\ ChanSlot(k) # write
  <1>1. readable \in Nat /\ writable \in Nat /\ readable + writable = STREAM_BUF_LEN - 2
    BY Lengths DEF IInv, TypeOK, Inv, IndicesApart, readable, writable
  <1>2. InHand \in 0..1 /\ read \in Nat /\ read < STREAM_BUF_LEN /\ STREAM_BUF_LEN \in Nat \ {0}
    BY BufLen DEF InHand, IInv, TypeOK, Slot
  <1> DEFINE a == read + k - InHand
  <1>3. a \in 0..(2 * STREAM_BUF_LEN - 1) /\ k \in Int /\ k <= readable + InHand /\ k >= 1
    BY <1>1, <1>2
  <1>4. ChanSlot(k) = IF a < STREAM_BUF_LEN THEN a ELSE a - STREAM_BUF_LEN
    <2> HIDE DEF a
    <2>1. a % STREAM_BUF_LEN = IF a < STREAM_BUF_LEN THEN a ELSE a - STREAM_BUF_LEN
      BY <1>2, <1>3, Wrap
    <2> QED
      BY <2>1 DEF ChanSlot, a
  <1>5. ChanSlot(k) \in Slot
    BY <1>2, <1>3, <1>4 DEF Slot
  <1>6. ChanSlot(k) # write
    <2>1. readable = IF write - read - 1 < 0 THEN write - read - 1 + STREAM_BUF_LEN
                                             ELSE write - read - 1
      BY DEF readable, stream_read_length
    <2>2. write \in 0..(STREAM_BUF_LEN - 1) /\ read # write
      BY DEF IInv, TypeOK, Inv, IndicesApart, Slot
    <2> QED
      BY <1>1, <1>2, <1>3, <1>4, <2>1, <2>2
  <1> QED
    BY <1>5, <1>6

InFlightOK ==
    /\ readable + InHand \in Nat
    /\ InFlight \in Seq(Byte)
    /\ Len(InFlight) = readable + InHand
    /\ \A k \in 1..(readable + InHand) : InFlight[k] = buf[ChanSlot(k)]

\* The abstract channel content is a sequence of bytes of the length shown.
LEMMA InFlightSeq == IInv => InFlightOK
  <1> SUFFICES ASSUME IInv PROVE InFlightOK
    OBVIOUS
  <1>1. readable + InHand \in Nat
    BY Lengths DEF IInv, TypeOK, readable, InHand
  <1>2. \A k \in 1..(readable + InHand) : buf[ChanSlot(k)] \in Byte
    BY ChanSlots DEF IInv, TypeOK
  <1> HIDE DEF InHand
  <1>3. InFlight \in [1..(readable + InHand) -> Byte]
    BY <1>2 DEF InFlight
  <1>4. InFlight \in Seq(Byte) /\ Len(InFlight) = readable + InHand
    BY <1>1, <1>3
  <1> QED
    BY <1>1, <1>4 DEF InFlight, InFlightOK

\* A new stream is an empty channel.
LEMMA InitChannel == Init => Channel!Init
  <1> SUFFICES ASSUME Init PROVE Channel!Init
    OBVIOUS
  <1>1. IInv
    BY InitIInv
  <1>2. readable + InHand = 0
    BY BufLen DEF Init, readable, stream_read_length, InHand
  <1>3. InFlight = <<>>
    BY <1>1, <1>2, InFlightSeq, EmptySeq DEF InFlightOK
  <1> QED
    BY <1>3 DEF Init, Channel!Init

\* The channel content depends only on the ring and on the reader's place.
LEMMA SameInFlight ==
    ASSUME UNCHANGED <<ring, InHand>>
    PROVE  InFlight' = InFlight
  BY DEF ring, InFlight, ChanSlot, readable, InHand

\* Advancing the write index appends the byte that was stored.
LEMMA AdvancePuts ==
    ASSUME IInv, IInv', WriteAdvance
    PROVE  Channel!Put
  <1>1. /\ write' = next_step(write)
        /\ src # <<>> /\ src' = Tail(src)
        /\ UNCHANGED <<read, buf, rpc, left, dst, InHand>>
        /\ writable > 0 /\ read # write
        /\ buf[write] = Head(src)
    BY DEF WriteAdvance, reader, InHand, IInv, Inv, WriterHasRoom, IndicesApart, CallsMatch
  <1>2. readable' = readable + 1
    BY <1>1, AdvanceWrite DEF IInv, TypeOK, writable, readable
  <1>3. readable \in Nat /\ writable \in Nat /\ readable + writable = STREAM_BUF_LEN - 2
    BY <1>1, Lengths DEF IInv, TypeOK, readable, writable
  <1>4. InHand \in 0..1
    BY DEF InHand
  <1> DEFINE n == readable + InHand
  <1>5. /\ n \in Nat /\ n < STREAM_BUF_LEN - 1 /\ (readable + InHand)' = n + 1
    <2>1. n \in Nat
      BY <1>3, <1>4
    <2>2. n < STREAM_BUF_LEN - 1
      BY <1>1, <1>3, <1>4, BufLen
    <2>3. (readable + InHand)' = n + 1
      BY <1>1, <1>2, <1>3, <1>4
    <2> QED
      BY <2>1, <2>2, <2>3
  <1>6. \A k \in 1..(n + 1) : ChanSlot(k)' = ChanSlot(k)
    BY <1>1 DEF ChanSlot
  <1>7. ChanSlot(n + 1) = write
    <2> DEFINE e == read + (n + 1) - InHand
    <2>1. read \in Nat /\ read < STREAM_BUF_LEN /\ STREAM_BUF_LEN \in Nat \ {0}
      BY BufLen DEF IInv, TypeOK, Slot
    <2>2. e = read + readable + 1 /\ e \in 0..(2 * STREAM_BUF_LEN - 1)
      BY <1>3, <1>4, <2>1
    <2>3. e % STREAM_BUF_LEN = IF e < STREAM_BUF_LEN THEN e ELSE e - STREAM_BUF_LEN
      <3> HIDE DEF e
      <3> QED
        BY <2>1, <2>2, Wrap
    <2>4. readable = IF write - read - 1 < 0 THEN write - read - 1 + STREAM_BUF_LEN
                                             ELSE write - read - 1
      BY DEF readable, stream_read_length
    <2>5. write \in 0..(STREAM_BUF_LEN - 1)
      BY DEF IInv, TypeOK, Slot
    <2>6. e % STREAM_BUF_LEN = write
      <3> HIDE DEF e
      <3> QED
        BY <1>3, <1>1, <2>1, <2>2, <2>3, <2>4, <2>5
    <2> QED
      BY <2>6 DEF ChanSlot
  <1>8. InFlight \in Seq(Byte) /\ Len(InFlight) = n /\ \A k \in 1..n : InFlight[k] = buf[ChanSlot(k)]
    BY InFlightSeq DEF InFlightOK
  <1>9. /\ InFlight' \in Seq(Byte) /\ Len(InFlight') = n + 1
        /\ \A k \in 1..(n + 1) : InFlight'[k] = buf[ChanSlot(k)]
    <2>1. InFlightOK'
      BY InFlightSeq, PTL
    <2> QED
      BY <1>1, <1>5, <1>6, <2>1 DEF InFlightOK
  <1>10. InFlight' = Append(InFlight, Head(src))
    <2> HIDE DEF n
    <2>1. Head(src) \in Byte
      BY <1>1 DEF IInv, TypeOK
    <2>2. /\ Append(InFlight, Head(src)) \in Seq(Byte)
          /\ Len(Append(InFlight, Head(src))) = n + 1
          /\ \A k \in 1..n : Append(InFlight, Head(src))[k] = InFlight[k]
          /\ Append(InFlight, Head(src))[n + 1] = Head(src)
      BY <1>5, <1>8, <2>1
    <2>3. \A k \in 1..(n + 1) : InFlight'[k] = Append(InFlight, Head(src))[k]
      BY <1>1, <1>5, <1>7, <1>8, <1>9, <2>2
    <2> QED
      BY <1>9, <2>2, <2>3, SeqEqual
  <1> QED
    BY <1>1, <1>5, <1>8, <1>10 DEF Channel!Put

\* Storing a byte touches no slot whose content is in flight.
LEMMA StoreKeeps ==
    ASSUME IInv, WriteStore
    PROVE  InFlight' = InFlight
  <1>1. /\ buf' = [buf EXCEPT ![write] = Head(src)]
        /\ UNCHANGED <<read, write, InHand, readable>>
    BY DEF WriteStore, reader, InHand, readable
  <1>2. \A k \in 1..(readable + InHand) : ChanSlot(k)' = ChanSlot(k)
    BY <1>1 DEF ChanSlot
  <1>3. \A k \in 1..(readable + InHand) : buf'[ChanSlot(k)'] = buf[ChanSlot(k)]
    BY <1>1, <1>2, ChanSlots DEF IInv, TypeOK
  <1> QED
    BY <1>1, <1>3 DEF InFlight

\* Claiming a byte moves the index and the byte is still in flight.
LEMMA ClaimKeeps ==
    ASSUME IInv, ReadClaim
    PROVE  InFlight' = InFlight
  <1>1. /\ read' = next_step(read)
        /\ UNCHANGED <<write, buf>>
        /\ InHand = 0 /\ InHand' = 1
        /\ readable > 0 /\ read # write
    BY DEF ReadClaim, InHand, IInv, Inv, ReaderHasByte, IndicesApart
  <1>2. readable' = readable - 1
    BY <1>1, AdvanceRead DEF IInv, TypeOK, readable
  <1>3. readable \in Nat /\ readable <= STREAM_BUF_LEN - 2
    <2>1. /\ stream_read_length(read, write) \in Nat /\ stream_write_length(read, write) \in Nat
          /\ stream_write_length(read, write) + stream_read_length(read, write) = STREAM_BUF_LEN - 2
      BY <1>1, Lengths DEF IInv, TypeOK
    <2> QED
      BY <2>1, BufLen DEF readable
  <1>4. read \in Nat /\ read < STREAM_BUF_LEN /\ STREAM_BUF_LEN \in Nat \ {0}
    BY BufLen DEF IInv, TypeOK, Slot
  <1>5. ASSUME NEW k \in 1..readable PROVE ChanSlot(k)' = ChanSlot(k)
    <2>1. ChanSlot(k) = (read + k) % STREAM_BUF_LEN
      BY <1>1, <1>4 DEF ChanSlot
    <2>2. ChanSlot(k)' = (read' + k - 1) % STREAM_BUF_LEN
      BY <1>1 DEF ChanSlot
    <2>3. read' = IF read = STREAM_BUF_LEN - 1 THEN 0 ELSE read + 1
      BY <1>1, NextStep DEF IInv, TypeOK
    <2>4. CASE read # STREAM_BUF_LEN - 1
      <3>1. read' + k - 1 = read + k
        BY <1>4, <2>3, <2>4
      <3> QED
        BY <2>1, <2>2, <3>1
    <2>5. CASE read = STREAM_BUF_LEN - 1
      <3> DEFINE low == k - 1
                 high == read + k
      <3>1. /\ low \in 0..(2 * STREAM_BUF_LEN - 1) /\ low < STREAM_BUF_LEN
            /\ high \in 0..(2 * STREAM_BUF_LEN - 1) /\ ~(high < STREAM_BUF_LEN)
            /\ high - STREAM_BUF_LEN = low
            /\ read' + k - 1 = low
        BY <1>3, <1>4, <2>3, <2>5
      <3>2. low % STREAM_BUF_LEN = low /\ high % STREAM_BUF_LEN = low
        <4> HIDE DEF low, high
        <4>1. low % STREAM_BUF_LEN = low
          BY <1>4, <3>1, Wrap
        <4>2. high % STREAM_BUF_LEN = high - STREAM_BUF_LEN
          BY <1>4, <3>1, Wrap
        <4> QED
          BY <3>1, <4>1, <4>2
      <3> QED
        BY <2>1, <2>2, <3>1, <3>2
    <2> QED
      BY <2>4, <2>5
  <1>6. (readable + InHand)' = readable + InHand /\ readable + InHand = readable
    BY <1>1, <1>2, <1>3
  <1> QED
    BY <1>1, <1>5, <1>6 DEF InFlight

\* Fetching the claimed byte takes the oldest one out of the channel.
LEMMA FetchGets ==
    ASSUME IInv, IInv', ReadFetch
    PROVE  Channel!Get
  <1>1. /\ UNCHANGED <<read, write, buf, src, readable>>
        /\ dst' = Append(dst, buf[read]) /\ left' = left - 1
        /\ InHand = 1 /\ InHand' = 0
        /\ left # 0 /\ left \in Nat
    BY DEF ReadFetch, ring, writer, readable, InHand, IInv, TypeOK, Inv, CallsMatch
  <1>2. readable \in Nat
    BY Lengths DEF IInv, TypeOK, readable
  <1>3. read \in Nat /\ read < STREAM_BUF_LEN /\ STREAM_BUF_LEN \in Nat \ {0}
    BY BufLen DEF IInv, TypeOK, Slot
  <1>4. /\ InFlight \in Seq(Byte) /\ Len(InFlight) = readable + 1
        /\ \A k \in 1..(readable + 1) : InFlight[k] = buf[ChanSlot(k)]
    BY <1>1, InFlightSeq DEF InFlightOK
  <1>5. /\ InFlight' \in Seq(Byte) /\ Len(InFlight') = readable
        /\ \A k \in 1..readable : InFlight'[k] = buf[ChanSlot(k)']
    <2>1. InFlightOK'
      BY InFlightSeq, PTL
    <2> QED
      BY <1>1, <1>2, <2>1 DEF InFlightOK
  <1>6. ChanSlot(1) = read
    <2>1. read % STREAM_BUF_LEN = read
      BY <1>3, Wrap
    <2>2. read + 1 - InHand = read
      BY <1>1, <1>3
    <2> QED
      BY <2>1, <2>2 DEF ChanSlot
  <1>7. \A k \in 1..readable : ChanSlot(k)' = ChanSlot(k + 1)
    <2> TAKE k \in 1..readable
    <2>1. read' + k - InHand' = read + (k + 1) - InHand
      BY <1>1, <1>2, <1>3
    <2> QED
      BY <2>1 DEF ChanSlot
  <1>8. Head(InFlight) = buf[read] /\ InFlight # <<>>
    BY <1>2, <1>4, <1>6
  <1>9. InFlight' = Tail(InFlight)
    <2>1. /\ Tail(InFlight) \in Seq(Byte) /\ Len(Tail(InFlight)) = readable
          /\ \A k \in 1..readable : Tail(InFlight)[k] = InFlight[k + 1]
      BY <1>2, <1>4, <1>8
    <2>2. \A k \in 1..readable : InFlight'[k] = Tail(InFlight)[k]
      BY <1>2, <1>4, <1>5, <1>7, <2>1
    <2> QED
      BY <1>5, <2>1, <2>2, SeqEqual
  <1> QED
    BY <1>1, <1>8, <1>9 DEF Channel!Get

\* Every step of the ring buffer is a step of the channel or changes nothing
\* that it shows.
LEMMA StepChannel == IInv /\ IInv' /\ [Next]_vars => [Channel!Next]_(Channel!vars)
  <1> SUFFICES ASSUME IInv, IInv', [Next]_vars PROVE [Channel!Next]_(Channel!vars)
    OBVIOUS
  <1>1. ASSUME NEW m \in Messages, StartWrite(m) PROVE Channel!BeginWrite(m)
    BY <1>1, SameInFlight
    DEF StartWrite, reader, InHand, IInv, Inv, CallsMatch, Channel!BeginWrite
  <1>2. CASE WriteCheck \/ WriteResume
    BY <1>2, SameInFlight DEF WriteCheck, WriteResume, reader, InHand, Channel!vars
  <1>3. CASE WriteStore
    BY <1>3, StoreKeeps DEF WriteStore, reader, Channel!vars
  <1>4. CASE WriteAdvance
    BY <1>4, AdvancePuts DEF Channel!Next
  <1>5. ASSUME NEW n \in ReadLens, StartRead(n) PROVE Channel!BeginRead(n)
    BY <1>5, SameInFlight
    DEF StartRead, writer, InHand, IInv, Inv, CallsMatch, Channel!BeginRead
  <1>6. CASE ReadCheck \/ ReadResume \/ Peek
    BY <1>6, SameInFlight
    DEF ReadCheck, ReadResume, Peek, writer, InHand, Channel!vars
  <1>7. CASE ReadClaim
    BY <1>7, ClaimKeeps DEF ReadClaim, writer, Channel!vars
  <1>8. CASE ReadFetch
    BY <1>8, FetchGets DEF Channel!Next
  <1>9. CASE UNCHANGED vars
    BY <1>9, SameInFlight DEF vars, ring, writer, reader, InHand, Channel!vars
  <1> QED
    BY <1>1, <1>2, <1>3, <1>4, <1>5, <1>6, <1>7, <1>8, <1>9
    DEF Next, WriteStep, ReadStep, Channel!Next

\* For every buffer size, every set of messages and every read length the ring
\* buffer loses, repeats, reorders and invents no byte.
THEOREM StreamIsChannel == Spec => ImplementsChannel
  <1>1. Spec => Channel!Init /\ [][Channel!Next]_(Channel!vars)
    BY InitChannel, InitIInv, StepIInv, StepChannel, PTL DEF Spec
  <1> QED
    BY <1>1 DEF ImplementsChannel, Channel!Spec
=============================================================================
