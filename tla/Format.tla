------------------------------- MODULE Format -------------------------------
(***************************************************************************)
(* kprintf and int2str, of which the kernel (src/kernel/util.c) and the    *)
(* programs (src/libc/utils.c) have one copy each: a call that writes a    *)
(* text into a buffer, one item of the format after the other.  Every item *)
(* of more than one character leaves a terminator behind, and the next     *)
(* item has to start exactly there.                                        *)
(*                                                                         *)
(* The result is compared with the concatenation of what the items stand   *)
(* for; the numeral of a number is given by its digits' positions.  Bytes  *)
(* are character codes.  A number has 32 bits: a pair of its halves.       *)
(***************************************************************************)
EXTENDS Integers, Sequences, SequencesExt, FiniteSetsExt

CONSTANTS Formats,     \* the calls: sequences of items [kind, arg]
          BUFSIZE      \* of int2str's buffer

Untouched == -1

VARIABLES format, c,      \* the call's format, and the item that is next
          stack,          \* the argument that is next
          out, str,       \* the caller's buffer, and the position in it
          n, base, buf,   \* int2str's argument, base and digits, last first
          pc

vars == <<format, c, stack, out, str, n, base, buf, pc>>

\* Larger than any text of the run.
Room == 1..64

Init ==
    /\ format \in Formats /\ c = 1 /\ stack = 1
    /\ out = [i \in Room |-> Untouched] /\ str = 1
    /\ n = <<0, 0>> /\ base = 10 /\ buf = <<>>
    /\ pc = "scan"

\* The bytes of s go to the buffer from position p on.
Put(p, s) == [i \in Room |-> IF i \in p..(p + Len(s) - 1) THEN s[i - p + 1] ELSE out[i]]
-----------------------------------------------------------------------------
\* The caller passes one argument for every conversion.
Conversion(item) == item.kind # "char"
Arguments == SelectSeq(format, Conversion)

At(kinds) == pc = "scan" /\ c <= Len(format) /\ format[c].kind \in kinds
Arg == IF Conversion(format[c]) THEN Arguments[stack].arg ELSE format[c].arg
NextArgument == stack' = IF Conversion(format[c]) THEN stack + 1 ELSE stack

\* A character of the format, or %c.
PrintChar ==
    /\ At({"char", "c"})
    /\ out' = Put(str, <<Arg>>)
    /\ str' = str + 1
    /\ c' = c + 1 /\ NextArgument
    /\ UNCHANGED <<format, n, base, buf, pc>>

\* %s copies the terminator too, and goes back to it.
PrintString ==
    /\ At({"s"})
    /\ out' = Put(str, Append(Arg, 0))
    /\ str' = str + Len(Arg)
    /\ c' = c + 1 /\ NextArgument
    /\ UNCHANGED <<format, n, base, buf, pc>>

\* A conversion that kprintf does not know prints nothing; its argument is passed
\* over.
PrintNothing ==
    /\ At({"unknown"})
    /\ c' = c + 1 /\ NextArgument
    /\ UNCHANGED <<format, out, str, n, base, buf, pc>>

Prefix == IF format[c].kind = "x" THEN <<48, 120>> ELSE <<>>
Base == CASE format[c].kind = "i" -> 10 [] format[c].kind = "x" -> 16 [] OTHER -> 2

\* %i, %x (after "0x") and %b call int2str.
PrintNumber ==
    /\ At({"i", "x", "b"})
    /\ out' = Put(str, Prefix)
    /\ str' = str + Len(Prefix)
    /\ n' = Arg /\ base' = Base /\ buf' = <<0>>
    /\ pc' = "digits"
    /\ UNCHANGED <<format, c, stack>>

digit(d) == IF d < 10 THEN 48 + d ELSE 87 + d

\* n / base and n % base: the remainder of the high half goes to the low one.
HALF == 2 ^ 16
Low(m, b) == (m[1] % b) * HALF + m[2]
Quotient(m, b) == <<m[1] \div b, Low(m, b) \div b>>
Remainder(m, b) == Low(m, b) % b

stop_at_last_digit(m) == m[1] > 0 \/ m[2] >= base

GoesOn(m) == m # <<0, 0>>

\* int2str takes the lowest digit off.
Digits ==
    /\ pc = "digits" /\ Len(buf) < BUFSIZE
    /\ buf' = Append(buf, digit(Remainder(n, base)))
    /\ n' = Quotient(n, base)
    /\ pc' = IF GoesOn(n') THEN "digits" ELSE "copy"
    /\ UNCHANGED <<format, c, stack, out, str, base>>

\* A digit behind the end of the buffer: it goes to the stack, and nothing more is
\* said about the call.
Overflow ==
    /\ pc = "digits" /\ Len(buf) = BUFSIZE
    /\ pc' = "overflow"
    /\ UNCHANGED <<format, c, stack, out, str, n, base, buf>>

\* int2str copies its buffer backwards, as far as the terminator; kprintf goes
\* back to that.
Copy ==
    /\ pc = "copy"
    /\ out' = Put(str, Reverse(buf))
    /\ str' = str + Len(buf) - 1
    /\ c' = c + 1 /\ NextArgument
    /\ pc' = "scan"
    /\ UNCHANGED <<format, n, base, buf>>

Terminate ==
    /\ pc = "scan" /\ c > Len(format)
    /\ out' = Put(str, <<0>>)
    /\ str' = str + 1
    /\ pc' = "done"
    /\ UNCHANGED <<format, c, stack, n, base, buf>>

Next ==
    \/ PrintChar \/ PrintString \/ PrintNothing \/ PrintNumber
    \/ Digits \/ Overflow \/ Copy \/ Terminate

Spec == Init /\ [][Next]_vars
-----------------------------------------------------------------------------
(* What a format stands for                                                *)

\* A number as high * b ^ Places(b) + low, and its digits by their positions.
Places(b) == IF b = 2 THEN 16 ELSE 4
Split(v, b) ==
    LET m == b ^ Places(b)
        r == v[1] * (HALF % m) + v[2]
    IN  [high |-> v[1] * (HALF \div m) + r \div m, low |-> r % m]
Place(v, b, k) ==
    IF k < Places(b) THEN (Split(v, b).low \div b ^ k) % b
                     ELSE (Split(v, b).high \div b ^ (k - Places(b))) % b

\* The numeral of v to base b: as many digits as it needs, at least one.
MaxDigits(b) == CASE b = 2 -> 32 [] b = 10 -> 10 [] b = 16 -> 8
Numeral(v, b) ==
    LET len == Max({1} \cup {k \in 1..MaxDigits(b) : Place(v, b, k - 1) # 0})
    IN  [k \in 1..len |-> digit(Place(v, b, len - k))]

Rendered(item) ==
    CASE item.kind \in {"char", "c"} -> <<item.arg>>
      [] item.kind = "s" -> item.arg
      [] item.kind = "unknown" -> <<>>
      [] item.kind = "i" -> Numeral(item.arg, 10)
      [] item.kind = "x" -> <<48, 120>> \o Numeral(item.arg, 16)
      [] item.kind = "b" -> Numeral(item.arg, 2)

Text == FlattenSeq([k \in 1..Len(format) |-> Rendered(format[k])])
-----------------------------------------------------------------------------
\* Type correctness.
TypeOK ==
    /\ c \in 1..(Len(format) + 1) /\ stack \in 1..(Len(Arguments) + 1) /\ str \in Room
    /\ n \in (0..(HALF - 1)) \X (0..(HALF - 1)) /\ base \in {2, 10, 16} /\ Len(buf) <= BUFSIZE
    /\ pc \in {"scan", "digits", "overflow", "copy", "done"}

\* int2str's digits and its terminator fit into its buffer, except the 32 binary
\* digits of a number from 2^31 on.
DigitsFit == pc = "overflow" => format[c].kind = "b" /\ format[c].arg[1] >= HALF \div 2

\* The text is the one that the format stands for, and is terminated right
\* behind its end: no item leaves a terminator inside, none is cut, each has its
\* own argument, numbers have all of their digits in order, and 0 has one.
PrintsText ==
    pc = "done" => SubSeq(out, 1, Len(Text) + 1) = Append(Text, 0)

\* Nothing is ever written behind the place of the final terminator, which is
\* all the room that callers leave.
StaysInside ==
    LET end == Len(Text) + 1
    IN  \A i \in Room : i > end => out[i] = Untouched

\* The buffer at any time.
BufferRight == TypeOK /\ DigitsFit /\ PrintsText /\ StaysInside
=============================================================================
