----------------------------- MODULE IpcProofs -----------------------------
(***************************************************************************)
(* Proofs about module Ipc: whatever programs are loaded, and however many *)
(* processes attach to the same tables at the same time.                   *)
(***************************************************************************)
EXTENDS Ipc, FiniteSetTheorems, NaturalsInduction, WellFoundedInduction, TLAPS

\* A stream, or none.
Str == {Null} \cup {Made(p, k, e) : p \in Proc, k \in Nat, e \in {"in", "out", "irq"}}

TargetPlaces == {"scan_target", "input_target", "output_target"}
OwnPlaces == {"scan_own", "input_own", "output_own"}
Places == {"user"} \cup TargetPlaces \cup OwnPlaces

Lines(p) == 1..Len(Code(p))

Connects(p, k) == k \in Lines(p) /\ Code(p)[k].op = "connect"
Handles(p, k) == k \in Lines(p) /\ Code(p)[k].op = "handle"

\* Process p has come to one of these places of its call k, or behind it.
Past(p, k, places) == k < ip[p] \/ (k = ip[p] /\ pc[p] \in places)

\* Where the ends of a connection are put, one after the other.
InputOfTarget == {"output_target"} \cup OwnPlaces
OutputOfTarget == OwnPlaces
InputOfOwn == {"output_own"}

Types ==
    /\ modules \in Systems /\ loaded \in 0..NPROC
    /\ iostreams \in [Proc -> [Slot -> [input : Str, output : Str]]]
    /\ streams = [s \in DOMAIN streams |-> streams[s]]
    /\ \A s \in DOMAIN streams : /\ \E M : streams[s] \in Seq(M)
                                 /\ Len(streams[s]) <= CAPACITY
    /\ DOMAIN handlers = Irq /\ DOMAIN vector = Irq
    /\ DOMAIN ip = Proc /\ \A p \in Proc : ip[p] \in Lines(p)
    /\ pc \in [Proc -> Places]
    /\ job \in [Proc -> [table : Proc \cup {0}, input : Str, output : Str, slot : Int]]
    /\ DOMAIN var = Proc /\ DOMAIN name = Proc

\* A name was registered by its process.
NamesOK ==
    \A q \in Proc : \/ name[q] = NoName
                    \/ \E j \in Lines(q) : Code(q)[j].op = "register" /\ Code(q)[j].name = name[q]

\* Which stream may be the input of a slot in the table of q, and when.
InputOK(q, s) ==
    \E p \in Proc : \E k \in Nat :
      \/ s = Made(p, k, "out") /\ p # q /\ Connects(p, k) /\ Past(p, k, InputOfTarget)
      \/ s = Made(p, k, "in") /\ p = q /\ Connects(p, k) /\ Past(p, k, InputOfOwn)
      \/ s = Made(p, k, "irq") /\ p = q /\ Handles(p, k) /\ Past(p, k, InputOfOwn)

OutputOK(s) ==
    \E p \in Proc : \E k \in Nat :
      \/ s = Made(p, k, "in") /\ Connects(p, k) /\ Past(p, k, OutputOfTarget)
      \/ s = Made(p, k, "out") /\ Connects(p, k) /\ k < ip[p]
      \/ s = Made(p, k, "irq") /\ Handles(p, k) /\ k < ip[p]

Placed ==
    \A q \in Proc : \A i \in Slot :
      /\ iostreams[q][i].input # Null => InputOK(q, iostreams[q][i].input)
      /\ iostreams[q][i].output # Null => OutputOK(iostreams[q][i].output)

Exist ==
    \A q \in Proc : \A i \in Slot :
      {iostreams[q][i].input, iostreams[q][i].output} \subseteq DOMAIN streams \cup {Null}

\* A slot with an input and no output is being filled by somebody.
Filling(p, q, i) ==
    /\ pc[p] \in {"output_target", "output_own"}
    /\ job[p].table = q /\ job[p].slot = i /\ job[p].input = iostreams[q][i].input

HalfFilled ==
    \A q \in Proc : \A i \in Slot :
      iostreams[q][i].input # Null /\ iostreams[q][i].output = Null => \E p \in Proc : Filling(p, q, i)

\* What iostream_attach knows.
JobOK(p) ==
    /\ pc[p] \in TargetPlaces =>
         /\ Connects(p, ip[p]) /\ job[p].table \in Proc \ {p}
         /\ job[p].input = Made(p, ip[p], "out") /\ job[p].output = Made(p, ip[p], "in")
    /\ pc[p] \in OwnPlaces =>
         /\ job[p].table = p
         /\ \/ /\ Connects(p, ip[p])
               /\ job[p].input = Made(p, ip[p], "in") /\ job[p].output = Made(p, ip[p], "out")
            \/ /\ Handles(p, ip[p])
               /\ job[p].input = Made(p, ip[p], "irq") /\ job[p].output = Made(p, ip[p], "irq")
               /\ Arg(p).irq \in Irq => handlers[Arg(p).irq] # Null
    /\ pc[p] # "user" => {job[p].input, job[p].output} \subseteq DOMAIN streams
    /\ pc[p] \in {"input_target", "output_target", "input_own", "output_own"} =>
         /\ job[p].slot \in Slot
         /\ \A j \in 1..(job[p].slot - 1) : iostreams[job[p].table][j].input # Null

\* The program's descriptors are slots that are filled, and it has those that
\* it asked for.
VarOK(p) ==
    /\ \A v \in DOMAIN var[p] : var[p][v] \in Slot /\ iostreams[p][var[p][v]].output # Null
    /\ \A j \in Lines(p) : j < ip[p] /\ Code(p)[j].op \in {"connect", "select"} =>
                             Code(p)[j].as \in DOMAIN var[p]

\* Nothing is sent to the target of a connection before it is complete.
DataOK ==
    \A p \in Proc : \A k \in Nat :
      LET s == Made(p, k, "out")
      IN  s \in DOMAIN streams /\ streams[s] # <<>> => Connects(p, k) /\ k < ip[p]

HandlersOK ==
    \A i \in Irq :
      /\ handlers[i] # Null => /\ handlers[i] \in DOMAIN streams
                               /\ \E p \in Proc : \E k \in Nat : handlers[i] = Made(p, k, "irq")
      /\ vector[i] => handlers[i] # Null

IInv ==
    /\ Types /\ NamesOK /\ Placed /\ Exist /\ HalfFilled /\ NoGap /\ OneReaderOneWriter
    /\ (\A p \in Proc : JobOK(p) /\ VarOK(p)) /\ DataOK /\ HandlersOK

\* Threads wait in handlers for streams of interrupts.
IrqStream(s) == s \in DOMAIN streams /\ \E p \in Proc : \E k \in Nat : s = Made(p, k, "irq")

HeldOK ==
    /\ held = [t \in Thread |-> held[t]] /\ descr = [t \in Thread |-> descr[t]]
    /\ \A t \in Thread : /\ held[t] # Null => IrqStream(held[t])
                         /\ descr[t] # Null => IrqStream(descr[t])
-----------------------------------------------------------------------------
(* Streams, programs, slots                                                *)

LEMMA MadeFacts ==
    /\ \A p, k, e : Made(p, k, e) # Null
    /\ \A p, k, e, q, j, f : Made(p, k, e) = Made(q, j, f) => p = q /\ k = j /\ e = f
    /\ \A p \in Proc : \A k \in Nat : \A e \in {"in", "out", "irq"} : Made(p, k, e) \in Str
    /\ Null \in Str
  BY DEF Made, Null, Str

\* What the programs are like.
LEMMA Programs ==
    ASSUME modules \in Systems, NEW p \in Proc
    PROVE  /\ Len(Code(p)) \in Nat /\ Lines(p) \subseteq Nat
           /\ modules[p].loop \in Lines(p)
           /\ \A k : Connects(p, k) \/ Handles(p, k) => <<p, k>> \in AttachCalls(modules) /\ k < modules[p].loop
           /\ \A k, j \in Lines(p) : Code(p)[k].op = "connect" /\ Code(p)[j].op = "register" =>
                                      Code(p)[j].name # Code(p)[k].name
           /\ \A k \in Lines(p) : Code(p)[k].op = "connect" => Code(p)[k].name # NoName
           /\ \A k \in Lines(p) : Code(p)[k].op \in {"read", "poll", "write"} =>
                \E j \in Lines(p) : /\ j < k /\ Code(p)[j].op \in {"connect", "select"}
                                    /\ Code(p)[j].as = Code(p)[k].of
  <1> DEFINE l == modules
  <1>1. /\ \A q \in Proc : Len(l[q].code) \in Nat /\ l[q].loop \in 1..Len(l[q].code)
        /\ \A c \in AttachCalls(l) : c[2] < l[c[1]].loop
        /\ \A q \in Proc : \A k \in 1..Len(l[q].code) :
             /\ l[q].code[k].op = "connect" =>
                  /\ l[q].code[k].name # NoName
                  /\ \A j \in 1..Len(l[q].code) :
                       l[q].code[j].op = "register" => l[q].code[j].name # l[q].code[k].name
             /\ l[q].code[k].op \in {"read", "poll", "write"} =>
                  \E j \in 1..(k - 1) : /\ l[q].code[j].op \in {"connect", "select"}
                                        /\ l[q].code[j].as = l[q].code[k].of
    BY IpcAssumption
  <1>2. Len(Code(p)) \in Nat /\ Lines(p) \subseteq Nat /\ modules[p].loop \in Lines(p)
    BY <1>1 DEF Code, Lines
  <1>3. \A k : Connects(p, k) \/ Handles(p, k) => <<p, k>> \in AttachCalls(modules)
    BY DEF AttachCalls, Connects, Handles, Lines, Code, Attaching
  <1>4. \A k : <<p, k>> \in AttachCalls(modules) => k < modules[p].loop
    BY <1>1
  <1>5. \A k, j \in Lines(p) : Code(p)[k].op = "connect" /\ Code(p)[j].op = "register" =>
                               Code(p)[j].name # Code(p)[k].name
    BY <1>1 DEF Code, Lines
  <1>6. \A k \in Lines(p) : Code(p)[k].op = "connect" => Code(p)[k].name # NoName
    BY <1>1 DEF Code, Lines
  <1>7. ASSUME NEW k \in Lines(p), Code(p)[k].op \in {"read", "poll", "write"}
        PROVE  \E j \in Lines(p) : /\ j < k /\ Code(p)[j].op \in {"connect", "select"}
                                  /\ Code(p)[j].as = Code(p)[k].of
    <2>1. PICK j \in 1..(k - 1) : /\ l[p].code[j].op \in {"connect", "select"}
                                  /\ l[p].code[j].as = l[p].code[k].of
      BY <1>1, <1>7 DEF Code, Lines
    <2>2. j \in Lines(p) /\ j < k
      BY <1>2 DEF Lines
    <2> QED
      BY <2>1, <2>2 DEF Code
  <1> QED
    BY <1>2, <1>3, <1>4, <1>5, <1>6, <1>7

LEMMA AppendFacts ==
    ASSUME NEW s, NEW M, s \in Seq(M), NEW e
    PROVE  /\ Append(s, e) \in Seq(M \cup {e}) /\ Len(s) \in Nat
           /\ Len(Append(s, e)) = Len(s) + 1
  <1>1. s \in Seq(M \cup {e}) /\ e \in M \cup {e}
    OBVIOUS
  <1> DEFINE T == M \cup {e}
  <1> HIDE DEF T
  <1>2. s \in Seq(T) /\ e \in T
    BY <1>1 DEF T
  <1>3. Append(s, e) \in Seq(T) /\ Len(s) \in Nat /\ Len(Append(s, e)) = Len(s) + 1
    BY <1>2
  <1> QED
    BY <1>3 DEF T

LEMMA TailFacts ==
    ASSUME NEW s, NEW M, s \in Seq(M), s # <<>>
    PROVE  /\ Tail(s) \in Seq(M) /\ Len(s) \in Nat /\ Len(Tail(s)) = Len(s) - 1
  OBVIOUS

\* The input, or the output, of one slot changes.
LEMMA SetInput ==
    ASSUME NEW t \in [Proc -> [Slot -> [input : Str, output : Str]]],
           NEW q \in Proc, NEW i \in Slot, NEW x \in Str
    PROVE  LET u == [t EXCEPT ![q][i].input = x]
           IN  /\ u \in [Proc -> [Slot -> [input : Str, output : Str]]]
               /\ \A r \in Proc : \A j \in Slot :
                    /\ u[r][j].output = t[r][j].output
                    /\ u[r][j].input = IF r = q /\ j = i THEN x ELSE t[r][j].input
  OBVIOUS

LEMMA SetOutput ==
    ASSUME NEW t \in [Proc -> [Slot -> [input : Str, output : Str]]],
           NEW q \in Proc, NEW i \in Slot, NEW x \in Str, NEW u, u = [t EXCEPT ![q][i].output = x]
    PROVE  /\ u \in [Proc -> [Slot -> [input : Str, output : Str]]]
           /\ \A r \in Proc : \A j \in Slot :
                /\ u[r][j].input = t[r][j].input
                /\ u[r][j].output = IF r = q /\ j = i THEN x ELSE t[r][j].output
  OBVIOUS

\* Min finds the first free slot, if there is one.
LEMMA First ==
    ASSUME NEW S, S \subseteq Nat, S # {}
    PROVE  Min(S) \in S /\ \A y \in S : Min(S) <= y
  <1> DEFINE R == OpToRel(<, Nat)
  <1>1. IsWellFoundedOn(R, Nat)
    BY NatLessThanWellFounded
  <1>2. \A x, y \in Nat : <<y, x>> \in R <=> y < x
    BY DEF OpToRel
  <1> HIDE DEF R
  <1>3. PICK x \in S : \A y \in S : ~(<<y, x>> \in R)
    BY <1>1, WFMin
  <1>4. \A y \in S : x <= y
    <2> SUFFICES ASSUME NEW y \in S PROVE x <= y
      OBVIOUS
    <2>1. x \in Nat /\ y \in Nat
      OBVIOUS
    <2>2. ~(y < x)
      BY <1>2, <1>3, <2>1, Zenon
    <2> QED
      BY <2>1, <2>2
  <1> QED
    BY <1>4 DEF Min
-----------------------------------------------------------------------------
(* What all steps have in common                                           *)

Attaches(p, k) == Connects(p, k) \/ Handles(p, k)

\* Process p does not come back to a call that attaches a stream.
Onward(p) ==
    \A k \in Nat : Attaches(p, k) =>
      /\ k < ip[p] => k < ip'[p]
      /\ Past(p, k, InputOfTarget) => Past(p, k, InputOfTarget)'
      /\ Past(p, k, OutputOfTarget) => Past(p, k, OutputOfTarget)'
      /\ Past(p, k, InputOfOwn) => Past(p, k, InputOfOwn)'

\* The program goes on behind the call, or to its loop.
LEMMA Advances ==
    ASSUME Types, NEW p \in Proc, Advance(p)
    PROVE  /\ DOMAIN ip' = Proc /\ ip'[p] \in Lines(p) /\ ip'[p] <= ip[p] + 1
           /\ \A q \in Proc : q # p => ip'[q] = ip[q]
           /\ \A k \in Nat : Attaches(p, k) /\ k <= ip[p] => k < ip'[p]
  <1>1. /\ Len(Code(p)) \in Nat /\ modules[p].loop \in 1..Len(Code(p)) /\ ip[p] \in 1..Len(Code(p))
        /\ DOMAIN ip = Proc
    BY Programs DEF Types, Lines
  <1>2. /\ ip'[p] = IF ip[p] = Len(Code(p)) THEN modules[p].loop ELSE ip[p] + 1
        /\ DOMAIN ip' = Proc /\ \A q \in Proc : q # p => ip'[q] = ip[q]
    BY <1>1 DEF Advance
  <1>3. \A k \in Nat : Attaches(p, k) => k < modules[p].loop
    BY Programs DEF Types, Attaches
  <1> QED
    BY <1>1, <1>2, <1>3 DEF Lines

\* Process r makes a step and the others stay where they are.
LEMMA Monotone ==
    ASSUME Types, NEW r \in Proc, \A q \in Proc : q # r => ip'[q] = ip[q] /\ pc'[q] = pc[q],
           \/ Advance(r)
           \/ /\ ip'[r] = ip[r]
              /\ pc[r] \in InputOfTarget => pc'[r] \in InputOfTarget
              /\ pc[r] \in OutputOfTarget => pc'[r] \in OutputOfTarget
              /\ pc[r] \in InputOfOwn => pc'[r] \in InputOfOwn
    PROVE  \A p \in Proc : Onward(p)
  <1> SUFFICES ASSUME NEW p \in Proc, NEW k \in Nat, Attaches(p, k)
               PROVE  /\ k < ip[p] => k < ip'[p]
                      /\ Past(p, k, InputOfTarget) => Past(p, k, InputOfTarget)'
                      /\ Past(p, k, OutputOfTarget) => Past(p, k, OutputOfTarget)'
                      /\ Past(p, k, InputOfOwn) => Past(p, k, InputOfOwn)'
    BY DEF Onward
  <1>0. ip[p] \in Nat
    BY Programs DEF Types
  <1>1. CASE p # r
    BY <1>1 DEF Past, InputOfTarget, OutputOfTarget, InputOfOwn, OwnPlaces
  <1>2. CASE p = r /\ Advance(r)
    <2>1. k <= ip[p] => k < ip'[p]
      BY <1>2, Advances
    <2> QED
      BY <1>0, <2>1 DEF Past
  <1>3. CASE p = r /\ ~Advance(r)
    BY <1>3 DEF Past, InputOfTarget, OutputOfTarget, InputOfOwn, OwnPlaces
  <1> QED
    BY <1>1, <1>2, <1>3

LEMMA Kept ==
    ASSUME Types, modules' = modules, \A p \in Proc : Onward(p), NEW q \in Proc, NEW s
    PROVE  (InputOK(q, s) => InputOK(q, s)') /\ (OutputOK(s) => OutputOK(s)')
  <1>0. \A p, k : (Connects(p, k)' <=> Connects(p, k)) /\ (Handles(p, k)' <=> Handles(p, k))
    BY DEF Connects, Handles, Lines, Code
  <1>1. ASSUME InputOK(q, s) PROVE InputOK(q, s)'
    <2>1. PICK p \in Proc, k \in Nat :
            \/ s = Made(p, k, "out") /\ p # q /\ Connects(p, k) /\ Past(p, k, InputOfTarget)
            \/ s = Made(p, k, "in") /\ p = q /\ Connects(p, k) /\ Past(p, k, InputOfOwn)
            \/ s = Made(p, k, "irq") /\ p = q /\ Handles(p, k) /\ Past(p, k, InputOfOwn)
      BY <1>1 DEF InputOK
    <2>2. Attaches(p, k) /\ Onward(p)
      BY <2>1 DEF Attaches
    <2>3. \/ s = Made(p, k, "out") /\ p # q /\ Connects(p, k)' /\ Past(p, k, InputOfTarget)'
          \/ s = Made(p, k, "in") /\ p = q /\ Connects(p, k)' /\ Past(p, k, InputOfOwn)'
          \/ s = Made(p, k, "irq") /\ p = q /\ Handles(p, k)' /\ Past(p, k, InputOfOwn)'
      BY <1>0, <2>1, <2>2 DEF Onward
    <2> QED
      BY <2>3 DEF InputOK
  <1>2. ASSUME OutputOK(s) PROVE OutputOK(s)'
    <2>1. PICK p \in Proc, k \in Nat :
            \/ s = Made(p, k, "in") /\ Connects(p, k) /\ Past(p, k, OutputOfTarget)
            \/ s = Made(p, k, "out") /\ Connects(p, k) /\ k < ip[p]
            \/ s = Made(p, k, "irq") /\ Handles(p, k) /\ k < ip[p]
      BY <1>2 DEF OutputOK
    <2>2. Attaches(p, k) /\ Onward(p)
      BY <2>1 DEF Attaches
    <2>3. \/ s = Made(p, k, "in") /\ Connects(p, k)' /\ Past(p, k, OutputOfTarget)'
          \/ s = Made(p, k, "out") /\ Connects(p, k)' /\ k < ip'[p]
          \/ s = Made(p, k, "irq") /\ Handles(p, k)' /\ k < ip'[p]
      BY <1>0, <2>1, <2>2 DEF Onward
    <2> QED
      BY <2>3 DEF OutputOK
  <1> QED
    BY <1>1, <1>2

\* Steps that write into no table.
LEMMA TablesSame ==
    ASSUME IInv, modules' = modules, \A p \in Proc : Onward(p), iostreams' = iostreams,
           DOMAIN streams \subseteq DOMAIN streams'
    PROVE  Placed' /\ Exist' /\ NoGap' /\ OneReaderOneWriter'
  <1>1. Types /\ Placed /\ Exist /\ NoGap /\ OneReaderOneWriter
    BY DEF IInv
  <1>2. Placed'
    BY <1>1, Kept DEF Placed
  <1>3. Exist'
    BY <1>1 DEF Exist
  <1>4. NoGap' /\ OneReaderOneWriter'
    BY <1>1 DEF NoGap, OneReaderOneWriter
  <1> QED
    BY <1>2, <1>3, <1>4

\* Slots are filled and never emptied.
FilledStay ==
    \A q \in Proc : \A i \in Slot :
      /\ iostreams[q][i].input # Null => iostreams'[q][i].input # Null
      /\ iostreams[q][i].output # Null => iostreams'[q][i].output # Null

\* Another process makes a step: what process p knows and has remains true.
LEMMA Others ==
    ASSUME IInv, modules' = modules, FilledStay,
           DOMAIN streams \subseteq DOMAIN streams',
           \A i \in Irq : handlers[i] # Null => handlers'[i] # Null,
           NEW p \in Proc, ip'[p] = ip[p], pc'[p] = pc[p], job'[p] = job[p], var'[p] = var[p]
    PROVE  JobOK(p)' /\ VarOK(p)'
  <1>1. JobOK(p) /\ VarOK(p)
    BY DEF IInv
  <1>2. \A k : (Connects(p, k)' <=> Connects(p, k)) /\ (Handles(p, k)' <=> Handles(p, k))
    BY DEF Connects, Handles, Lines, Code
  <1>3. Arg(p)' = Arg(p) /\ Lines(p)' = Lines(p) /\ Code(p)' = Code(p)
    BY DEF Arg, Code, Lines
  <1>4. MAX_DESCRIPTORS \in Nat
    BY IpcAssumption
  <1>5. JobOK(p)'
    <2>1. /\ pc[p] \in TargetPlaces =>
               /\ Connects(p, ip[p])' /\ job[p].table \in Proc \ {p}
               /\ job[p].input = Made(p, ip[p], "out") /\ job[p].output = Made(p, ip[p], "in")
          /\ pc[p] \in OwnPlaces =>
               /\ job[p].table = p
               /\ \/ /\ Connects(p, ip[p])'
                     /\ job[p].input = Made(p, ip[p], "in") /\ job[p].output = Made(p, ip[p], "out")
                  \/ /\ Handles(p, ip[p])'
                     /\ job[p].input = Made(p, ip[p], "irq") /\ job[p].output = Made(p, ip[p], "irq")
                     /\ Arg(p).irq \in Irq => handlers'[Arg(p).irq] # Null
      BY <1>1, <1>2 DEF JobOK
    <2>2. pc[p] # "user" => {job[p].input, job[p].output} \subseteq DOMAIN streams'
      BY <1>1 DEF JobOK
    <2>3. pc[p] \in {"input_target", "output_target", "input_own", "output_own"} =>
            /\ job[p].slot \in Slot
            /\ \A j \in 1..(job[p].slot - 1) : iostreams'[job[p].table][j].input # Null
      <3> SUFFICES ASSUME pc[p] \in {"input_target", "output_target", "input_own", "output_own"}
                   PROVE  /\ job[p].slot \in Slot
                          /\ \A j \in 1..(job[p].slot - 1) : iostreams'[job[p].table][j].input # Null
        OBVIOUS
      <3>1. /\ job[p].slot \in Slot
            /\ \A j \in 1..(job[p].slot - 1) : iostreams[job[p].table][j].input # Null
        BY <1>1 DEF JobOK
      <3>2. job[p].table \in Proc
        BY <1>1 DEF JobOK, TargetPlaces, OwnPlaces
      <3>3. \A j \in 1..(job[p].slot - 1) : j \in Slot
        BY <3>1, <1>4 DEF Slot
      <3> QED
        BY <3>1, <3>2, <3>3 DEF FilledStay
    <2> QED
      BY <2>1, <2>2, <2>3, <1>2, <1>3 DEF JobOK
  <1>6. VarOK(p)'
    BY <1>1, <1>3 DEF VarOK, FilledStay
  <1> QED
    BY <1>5, <1>6

\* What is sent to a target comes from a connection that is complete.
LEMMA DataKept ==
    ASSUME IInv, modules' = modules, \A p \in Proc : Onward(p),
           \A p \in Proc : \A k \in Nat :
             LET s == Made(p, k, "out")
             IN  s \in DOMAIN streams' /\ streams'[s] # <<>> =>
                   \/ s \in DOMAIN streams /\ streams[s] # <<>>
                   \/ Connects(p, k) /\ k < ip[p]
    PROVE  DataOK'
  <1> SUFFICES ASSUME NEW p \in Proc, NEW k \in Nat,
                      Made(p, k, "out") \in DOMAIN streams', streams'[Made(p, k, "out")] # <<>>
               PROVE  Connects(p, k)' /\ k < ip'[p]
    BY DEF DataOK
  <1>1. Connects(p, k) /\ k < ip[p]
    BY DEF IInv, DataOK
  <1>2. Connects(p, k)' <=> Connects(p, k)
    BY DEF Connects, Lines, Code
  <1> QED
    BY <1>1, <1>2 DEF Onward, Attaches

\* A step of process r that writes into no table and does not end an attachment.
LEMMA Common ==
    ASSUME IInv, Types', NEW r \in Proc, modules' = modules, iostreams' = iostreams,
           DOMAIN streams \subseteq DOMAIN streams',
           \A i \in Irq : handlers[i] # Null => handlers'[i] # Null,
           \A p \in Proc : p # r => ip'[p] = ip[p] /\ pc'[p] = pc[p] /\ job'[p] = job[p] /\ var'[p] = var[p],
           pc[r] \notin {"output_target", "output_own"}, \A p \in Proc : Onward(p),
           NamesOK', JobOK(r)', VarOK(r)', DataOK', HandlersOK'
    PROVE  IInv'
  <1>1. Placed' /\ Exist' /\ NoGap' /\ OneReaderOneWriter'
    BY TablesSame
  <1>2. FilledStay
    BY DEF FilledStay
  <1>3. \A p \in Proc : JobOK(p)' /\ VarOK(p)'
    <2> SUFFICES ASSUME NEW p \in Proc PROVE JobOK(p)' /\ VarOK(p)'
      OBVIOUS
    <2>1. CASE p = r
      BY <2>1
    <2>2. CASE p # r
      BY <1>2, <2>2, Others
    <2> QED
      BY <2>1, <2>2
  <1>4. HalfFilled'
    <2> SUFFICES ASSUME NEW q \in Proc, NEW i \in Slot,
                        iostreams[q][i].input # Null, iostreams[q][i].output = Null
                 PROVE  \E p \in Proc : Filling(p, q, i)'
      BY DEF HalfFilled
    <2>1. PICK p \in Proc : Filling(p, q, i)
      BY DEF IInv, HalfFilled
    <2>2. p # r
      BY <2>1 DEF Filling
    <2>3. Filling(p, q, i)'
      BY <2>1, <2>2 DEF Filling
    <2> QED
      BY <2>3
  <1> QED
    BY <1>1, <1>3, <1>4 DEF IInv

\* A call that attaches nothing: register, select, read, peek, write.
LEMMA Passes ==
    ASSUME IInv, NEW p \in Proc, pc[p] = "user", Arg(p).op \notin Attaching, Advance(p),
           UNCHANGED <<modules, loaded, iostreams, handlers, vector, pc, job>>,
           DOMAIN streams' = DOMAIN streams, streams' = [s \in DOMAIN streams' |-> streams'[s]],
           \A s \in DOMAIN streams : (\E M : streams'[s] \in Seq(M)) /\ Len(streams'[s]) <= CAPACITY,
           \A q \in Proc : \A k \in Nat :
             LET s == Made(q, k, "out")
             IN  s \in DOMAIN streams' /\ streams'[s] # <<>> =>
                   \/ s \in DOMAIN streams /\ streams[s] # <<>>
                   \/ Connects(q, k) /\ k < ip[q],
           DOMAIN name' = Proc, NamesOK',
           DOMAIN var' = Proc, \A q \in Proc : q # p => var'[q] = var[q],
           DOMAIN var[p] \subseteq DOMAIN var'[p],
           \A v \in DOMAIN var'[p] : var'[p][v] \in Slot /\ iostreams[p][var'[p][v]].output # Null,
           Arg(p).op = "select" => Arg(p).as \in DOMAIN var'[p]
    PROVE  IInv'
  <1>0. Types /\ VarOK(p) /\ HandlersOK
    BY DEF IInv
  <1>1. /\ DOMAIN ip' = Proc /\ ip'[p] \in Lines(p) /\ ip'[p] <= ip[p] + 1
        /\ \A q \in Proc : q # p => ip'[q] = ip[q]
    BY <1>0, Advances
  <1>2. \A q \in Proc : Onward(q)
    BY <1>0, <1>1, Monotone
  <1>3. \A q : Lines(q)' = Lines(q) /\ Code(q)' = Code(q)
    BY DEF Lines, Code
  <1>4. Types'
    <2>1. \A q \in Proc : ip'[q] \in Lines(q)'
      BY <1>0, <1>1, <1>3 DEF Types
    <2> QED
      BY <1>0, <1>1, <2>1 DEF Types
  <1>5. JobOK(p)'
    BY DEF JobOK, TargetPlaces, OwnPlaces
  <1>6. VarOK(p)'
    <2> SUFFICES ASSUME NEW j \in Lines(p), j < ip'[p], Code(p)[j].op \in {"connect", "select"}
                 PROVE  Code(p)[j].as \in DOMAIN var'[p]
      BY <1>3 DEF VarOK
    <2>1. ip[p] \in Nat /\ ip'[p] \in Nat /\ j \in Nat
      BY <1>0, <1>1, Programs DEF Types
    <2>2. CASE j < ip[p]
      BY <2>2, <1>0 DEF VarOK
    <2>3. CASE j = ip[p]
      BY <2>3 DEF Arg, Attaching
    <2> QED
      BY <2>1, <2>2, <2>3, <1>1
  <1>7. DataOK'
    BY <1>2, DataKept
  <1>8. HandlersOK'
    BY <1>0 DEF HandlersOK
  <1> QED
    BY <1>1, <1>2, <1>4, <1>5, <1>6, <1>7, <1>8, Common

\* The streams as they are.
LEMMA StreamsSame ==
    ASSUME IInv, streams' = streams
    PROVE  /\ DOMAIN streams' = DOMAIN streams /\ streams' = [s \in DOMAIN streams' |-> streams'[s]]
           /\ \A s \in DOMAIN streams : (\E M : streams'[s] \in Seq(M)) /\ Len(streams'[s]) <= CAPACITY
           /\ \A q \in Proc : \A k \in Nat :
                LET s == Made(q, k, "out")
                IN  s \in DOMAIN streams' /\ streams'[s] # <<>> =>
                      \/ s \in DOMAIN streams /\ streams[s] # <<>>
                      \/ Connects(q, k) /\ k < ip[q]
  BY DEF IInv, Types

\* The descriptors as they are.
LEMMA VarSame ==
    ASSUME IInv, NEW p \in Proc, var' = var
    PROVE  /\ DOMAIN var' = Proc /\ \A q \in Proc : q # p => var'[q] = var[q]
           /\ DOMAIN var[p] \subseteq DOMAIN var'[p]
           /\ \A v \in DOMAIN var'[p] : var'[p][v] \in Slot /\ iostreams[p][var'[p][v]].output # Null
  BY DEF IInv, Types, VarOK

LEMMA NamesSame ==
    ASSUME IInv, UNCHANGED <<name, modules>>
    PROVE  DOMAIN name' = Proc /\ NamesOK'
  BY DEF IInv, Types, NamesOK, Lines, Code

LEMMA RegisterStep ==
    ASSUME IInv, NEW p \in Proc, proc_register(p)
    PROVE  IInv'
  <1>1. /\ pc[p] = "user" /\ Arg(p).op = "register" /\ Advance(p)
        /\ UNCHANGED <<modules, loaded, iostreams, streams, handlers, vector, pc, job, var>>
    BY DEF proc_register, Calls, Arg
  <1>2. Arg(p).op \notin Attaching /\ Arg(p).op # "select"
    BY <1>1 DEF Attaching
  <1>3. DOMAIN name' = Proc /\ NamesOK'
    <2>1. name' = [name EXCEPT ![p] = Arg(p).name] /\ DOMAIN name = Proc /\ NamesOK /\ ip[p] \in Lines(p)
      BY DEF IInv, Types, proc_register
    <2>2. \A q : Lines(q)' = Lines(q) /\ Code(q)' = Code(q)
      BY <1>1 DEF Lines, Code
    <2>3. \A q \in Proc : name'[q] = IF q = p THEN Arg(p).name ELSE name[q]
      BY <2>1
    <2>4. \E j \in Lines(p) : Code(p)[j].op = "register" /\ Code(p)[j].name = Arg(p).name
      BY <1>1, <2>1 DEF Arg
    <2> QED
      BY <2>1, <2>2, <2>3, <2>4 DEF NamesOK
  <1> HIDE DEF NamesOK
  <1>4. UNCHANGED <<modules, loaded, iostreams, handlers, vector, pc, job>>
    BY <1>1
  <1> QED
    BY <1>1, <1>2, <1>3, <1>4, StreamsSame, VarSame, Passes

\* One stream changes.
LEMMA StreamSet ==
    ASSUME IInv, NEW x, NEW y, x \in DOMAIN streams, \E M : y \in Seq(M), Len(y) <= CAPACITY,
           streams' = [streams EXCEPT ![x] = y],
           \A q \in Proc : \A k \in Nat :
             x = Made(q, k, "out") /\ y # <<>> => streams[x] # <<>> \/ (Connects(q, k) /\ k < ip[q])
    PROVE  /\ DOMAIN streams' = DOMAIN streams /\ streams' = [s \in DOMAIN streams' |-> streams'[s]]
           /\ \A s \in DOMAIN streams : (\E M : streams'[s] \in Seq(M)) /\ Len(streams'[s]) <= CAPACITY
           /\ \A q \in Proc : \A k \in Nat :
                LET s == Made(q, k, "out")
                IN  s \in DOMAIN streams' /\ streams'[s] # <<>> =>
                      \/ s \in DOMAIN streams /\ streams[s] # <<>>
                      \/ Connects(q, k) /\ k < ip[q]
  <1>0. Types
    BY DEF IInv
  <1>1. DOMAIN streams' = DOMAIN streams /\ streams' = [s \in DOMAIN streams' |-> streams'[s]]
    BY <1>0 DEF Types
  <1>2. \A s \in DOMAIN streams : streams'[s] = IF s = x THEN y ELSE streams[s]
    BY <1>0 DEF Types
  <1>3. \A s \in DOMAIN streams : (\E M : streams'[s] \in Seq(M)) /\ Len(streams'[s]) <= CAPACITY
    BY <1>0, <1>2 DEF Types
  <1> QED
    BY <1>1, <1>2, <1>3

\* A descriptor that is used has been assigned, and its slot is complete.
LEMMA Uses ==
    ASSUME IInv, NEW p \in Proc, Arg(p).op \in {"read", "poll", "write"}
    PROVE  /\ Output(p) \in DOMAIN streams /\ OutputOK(Output(p))
  <1>1. Types /\ VarOK(p) /\ Exist /\ Placed
    BY DEF IInv
  <1>2. ip[p] \in Lines(p) /\ modules \in Systems
    BY <1>1 DEF Types
  <1>3. PICK j \in Lines(p) : /\ j < ip[p] /\ Code(p)[j].op \in {"connect", "select"}
                              /\ Code(p)[j].as = Arg(p).of
    BY <1>2, Programs DEF Arg
  <1>4. Arg(p).of \in DOMAIN var[p]
    BY <1>1, <1>3 DEF VarOK
  <1>5. var[p][Arg(p).of] \in Slot /\ iostreams[p][var[p][Arg(p).of]].output # Null
    BY <1>1, <1>4 DEF VarOK
  <1> QED
    BY <1>1, <1>5 DEF Output, Exist, Placed

LEMMA PeekStep ==
    ASSUME IInv, NEW p \in Proc, SysPeek(p)
    PROVE  IInv'
  <1>1. /\ pc[p] = "user" /\ Arg(p).op = "poll" /\ Advance(p)
        /\ UNCHANGED <<modules, loaded, name, iostreams, streams, handlers, vector, pc, job, var>>
    BY DEF SysPeek, Calls, Arg, kernel
  <1>2. Arg(p).op \notin Attaching /\ Arg(p).op # "select"
    BY <1>1 DEF Attaching
  <1>3. UNCHANGED <<modules, loaded, iostreams, handlers, vector, pc, job>> /\ UNCHANGED <<name, modules>>
    BY <1>1
  <1> QED
    BY <1>1, <1>2, <1>3, StreamsSame, VarSame, NamesSame, Passes

LEMMA ReadStep ==
    ASSUME IInv, NEW p \in Proc, SysRead(p)
    PROVE  IInv'
  <1> DEFINE x == Input(p)
             y == Tail(streams[x])
  <1>1. /\ pc[p] = "user" /\ Arg(p).op \in {"read", "poll"} /\ Advance(p) /\ streams[x] # <<>>
        /\ UNCHANGED <<modules, loaded, name, iostreams, handlers, vector, pc, job, var>>
        /\ streams' = [streams EXCEPT ![x] = y]
    BY DEF SysRead, Calls, Arg
  <1>2. Arg(p).op \notin Attaching /\ Arg(p).op # "select"
    BY <1>1 DEF Attaching
  <1>3. UNCHANGED <<modules, loaded, iostreams, handlers, vector, pc, job>> /\ UNCHANGED <<name, modules>>
    BY <1>1
  <1>4. CASE x \notin DOMAIN streams
    <2>1. streams' = streams
      BY <1>1, <1>4 DEF IInv, Types
    <2> QED
      BY <1>1, <1>2, <1>3, <2>1, StreamsSame, VarSame, NamesSame, Passes
  <1>5. CASE x \in DOMAIN streams
    <2>1. PICK M : streams[x] \in Seq(M) /\ Len(streams[x]) <= CAPACITY
      BY <1>5 DEF IInv, Types
    <2>2. y \in Seq(M) /\ Len(y) = Len(streams[x]) - 1 /\ Len(streams[x]) \in Nat
      BY <1>1, <2>1, TailFacts
    <2>3. Len(y) <= CAPACITY
      <3> HIDE DEF y
      <3>1. \A n \in Nat : n <= CAPACITY => n - 1 <= CAPACITY
        BY IpcAssumption
      <3> QED
        BY <2>1, <2>2, <3>1
    <2> HIDE DEF x, y
    <2>4. \E N : y \in Seq(N)
      BY <2>2
    <2>5. /\ DOMAIN streams' = DOMAIN streams /\ streams' = [s \in DOMAIN streams' |-> streams'[s]]
          /\ \A s \in DOMAIN streams : (\E N : streams'[s] \in Seq(N)) /\ Len(streams'[s]) <= CAPACITY
          /\ \A q \in Proc : \A k \in Nat :
               LET s == Made(q, k, "out")
               IN  s \in DOMAIN streams' /\ streams'[s] # <<>> =>
                     \/ s \in DOMAIN streams /\ streams[s] # <<>>
                     \/ Connects(q, k) /\ k < ip[q]
      BY <1>1, <1>5, <2>3, <2>4, StreamSet
    <2> QED
      BY <1>1, <1>2, <1>3, <2>5, VarSame, NamesSame, Passes
  <1> QED
    BY <1>4, <1>5

LEMMA WriteStep ==
    ASSUME IInv, NEW p \in Proc, SysWrite(p)
    PROVE  IInv'
  <1> DEFINE x == Output(p)
             m == IF Arg(p).msg = "buf" THEN buf[p] ELSE Arg(p).msg
             y == Append(streams[x], m)
  <1>1. /\ pc[p] = "user" /\ Arg(p).op = "write" /\ Advance(p) /\ Len(streams[x]) < CAPACITY
        /\ UNCHANGED <<modules, loaded, name, iostreams, handlers, vector, pc, job, var>>
        /\ streams' = [streams EXCEPT ![x] = y]
    BY DEF SysWrite, Calls, Arg
  <1>2. Arg(p).op \notin Attaching /\ Arg(p).op # "select"
    BY <1>1 DEF Attaching
  <1>3. UNCHANGED <<modules, loaded, iostreams, handlers, vector, pc, job>> /\ UNCHANGED <<name, modules>>
    BY <1>1
  <1>4. x \in DOMAIN streams /\ OutputOK(x)
    BY <1>1, Uses
  <1>5. PICK M : streams[x] \in Seq(M)
    BY <1>4 DEF IInv, Types
  <1> HIDE DEF x, m
  <1>6. y \in Seq(M \cup {m}) /\ Len(y) = Len(streams[x]) + 1 /\ Len(streams[x]) \in Nat
    BY <1>5, AppendFacts
  <1> HIDE DEF y
  <1>7. Len(y) <= CAPACITY
    <2>1. \A n \in Nat : n < CAPACITY => n + 1 <= CAPACITY
      BY IpcAssumption
    <2> QED
      BY <1>1, <1>6, <2>1
  <1>8. \A q \in Proc : \A k \in Nat : x = Made(q, k, "out") => Connects(q, k) /\ k < ip[q]
    BY <1>4, MadeFacts DEF OutputOK
  <1>9. \E N : y \in Seq(N)
    BY <1>6
  <1>10. /\ DOMAIN streams' = DOMAIN streams /\ streams' = [s \in DOMAIN streams' |-> streams'[s]]
         /\ \A s \in DOMAIN streams : (\E N : streams'[s] \in Seq(N)) /\ Len(streams'[s]) <= CAPACITY
         /\ \A q \in Proc : \A k \in Nat :
              LET s == Made(q, k, "out")
              IN  s \in DOMAIN streams' /\ streams'[s] # <<>> =>
                    \/ s \in DOMAIN streams /\ streams[s] # <<>>
                    \/ Connects(q, k) /\ k < ip[q]
    BY <1>1, <1>4, <1>7, <1>8, <1>9, StreamSet
  <1> QED
    BY <1>1, <1>2, <1>3, <1>10, VarSame, NamesSame, Passes

\* iostream_select answers a slot that is complete: a target's slot has no data
\* as long as it is not, and the caller's own is filled while it calls CONNECT.
LEMMA SelectStep ==
    ASSUME IInv, NEW p \in Proc, SysSelect(p)
    PROVE  IInv'
  <1>1. /\ pc[p] = "user" /\ Arg(p).op = "select" /\ Advance(p)
        /\ UNCHANGED <<modules, loaded, name, iostreams, streams, handlers, vector, pc, job>>
    BY DEF SysSelect, Calls, Arg, kernel
  <1>2. Arg(p).op \notin Attaching
    BY <1>1 DEF Attaching
  <1>3. UNCHANGED <<modules, loaded, iostreams, handlers, vector, pc, job>> /\ UNCHANGED <<name, modules>>
    BY <1>1
  <1>4. PICK i \in Slot : HasData(p, i) /\ Assign(p, Arg(p).as, i)
    BY DEF SysSelect, iostream_select
  <1>5. iostreams[p][i].output # Null
    <2> SUFFICES ASSUME iostreams[p][i].output = Null PROVE FALSE
      OBVIOUS
    <2>1. iostreams[p][i].input # Null /\ streams[iostreams[p][i].input] # <<>>
      BY <1>4 DEF HasData
    <2>2. PICK r \in Proc : Filling(r, p, i)
      BY <2>1 DEF IInv, HalfFilled
    <2>3. JobOK(r) /\ Types /\ DataOK
      BY DEF IInv
    <2>4. pc[r] = "output_target"
      BY <2>2, <2>3, <1>1 DEF Filling, JobOK, OwnPlaces
    <2>5. job[r].input = Made(r, ip[r], "out") /\ job[r].input \in DOMAIN streams
      BY <2>3, <2>4 DEF JobOK, TargetPlaces
    <2>6. ip[r] \in Nat
      BY <2>3, Programs DEF Types
    <2>7. ip[r] < ip[r]
      BY <2>1, <2>2, <2>3, <2>5, <2>6 DEF Filling, DataOK
    <2> QED
      BY <2>6, <2>7
  <1>6. DOMAIN var = Proc /\ VarOK(p)
    BY DEF IInv, Types
  <1>7. /\ DOMAIN var' = Proc /\ \A q \in Proc : q # p => var'[q] = var[q]
        /\ var'[p] = [x \in DOMAIN var[p] \cup {Arg(p).as} |-> IF x = Arg(p).as THEN i ELSE var[p][x]]
    BY <1>4, <1>6 DEF Assign
  <1>8. /\ DOMAIN var[p] \subseteq DOMAIN var'[p] /\ Arg(p).as \in DOMAIN var'[p]
        /\ \A v \in DOMAIN var'[p] : var'[p][v] \in Slot /\ iostreams[p][var'[p][v]].output # Null
    BY <1>5, <1>6, <1>7 DEF VarOK
  <1> QED
    BY <1>1, <1>2, <1>3, <1>7, <1>8, StreamsSame, NamesSame, Passes

\* No process makes a step: a module is loaded, an interrupt comes.
LEMMA Outside ==
    ASSUME IInv, Types', UNCHANGED <<modules, name, iostreams, handlers, vector, ip, pc, job, var>>,
           DOMAIN streams' = DOMAIN streams,
           \A q \in Proc : \A k \in Nat :
             LET s == Made(q, k, "out")
             IN  s \in DOMAIN streams' /\ streams'[s] # <<>> =>
                   \/ s \in DOMAIN streams /\ streams[s] # <<>>
                   \/ Connects(q, k) /\ k < ip[q]
    PROVE  IInv'
  <1>1. \A p \in Proc : Onward(p)
    BY DEF Onward, Past, InputOfTarget, OutputOfTarget, InputOfOwn, OwnPlaces
  <1>2. Placed' /\ Exist' /\ NoGap' /\ OneReaderOneWriter'
    BY <1>1, TablesSame
  <1>3. FilledStay
    BY DEF FilledStay
  <1>4. \A p \in Proc : JobOK(p)' /\ VarOK(p)'
    BY <1>3, Others
  <1>5. HalfFilled'
    BY DEF IInv, HalfFilled, Filling
  <1>6. NamesOK'
    BY NamesSame
  <1>7. DataOK'
    BY <1>1, DataKept
  <1>8. HandlersOK'
    BY DEF IInv, HandlersOK
  <1> QED
    BY <1>2, <1>4, <1>5, <1>6, <1>7, <1>8 DEF IInv

LEMMA LoadStep ==
    ASSUME IInv, elf_load
    PROVE  IInv'
  <1>1. /\ UNCHANGED <<modules, name, iostreams, handlers, vector, ip, pc, job, var>>
        /\ streams' = streams /\ loaded < NPROC /\ loaded' = loaded + 1
    BY DEF elf_load, calls
  <1>2. Types
    BY DEF IInv
  <1>3. loaded' \in 0..NPROC
    BY <1>1, <1>2, IpcAssumption DEF Types
  <1>4. \A q : Lines(q)' = Lines(q)
    BY <1>1 DEF Lines, Code
  <1>5. Types'
    BY <1>1, <1>2, <1>3, <1>4 DEF Types
  <1>6. UNCHANGED <<modules, name, iostreams, handlers, vector, ip, pc, job, var>>
    BY <1>1
  <1> QED
    BY <1>1, <1>5, <1>6, StreamsSame, Outside

\* A handler writes into its stream.
LEMMA PutStep ==
    ASSUME IInv, NEW x, IrqStream(x), ~Full(x), Put(x, "int"),
           UNCHANGED <<modules, loaded, name, iostreams, handlers, vector, calls>>
    PROVE  IInv' /\ DOMAIN streams' = DOMAIN streams
  <1> DEFINE y == Append(streams[x], "int")
  <1>2. Types
    BY DEF IInv
  <1>3. x \in DOMAIN streams /\ \E p \in Proc : \E k \in Nat : x = Made(p, k, "irq")
    BY DEF IrqStream
  <1>4. PICK M : streams[x] \in Seq(M)
    BY <1>2, <1>3 DEF Types
  <1>0. Len(streams[x]) < CAPACITY
    <2>1. \A n \in Nat : ~(n >= CAPACITY) => n < CAPACITY
      BY IpcAssumption
    <2>2. Len(streams[x]) \in Nat
      BY <1>4, AppendFacts
    <2> QED
      BY <2>1, <2>2 DEF Full
  <1>1. /\ UNCHANGED <<modules, loaded, name, iostreams, handlers, vector, ip, pc, job, var>>
        /\ Len(streams[x]) < CAPACITY /\ streams' = [streams EXCEPT ![x] = y]
    BY <1>0 DEF Put, calls
  <1>5. y \in Seq(M \cup {"int"}) /\ Len(y) = Len(streams[x]) + 1 /\ Len(streams[x]) \in Nat
    BY <1>4, AppendFacts
  <1> HIDE DEF y
  <1>6. Len(y) <= CAPACITY
    <2>1. \A n \in Nat : n < CAPACITY => n + 1 <= CAPACITY
      BY IpcAssumption
    <2> QED
      BY <1>1, <1>5, <2>1
  <1>7. \A q \in Proc : \A k \in Nat : x # Made(q, k, "out")
    BY <1>3, MadeFacts
  <1>8. \E N : y \in Seq(N)
    BY <1>5
  <1>9. /\ DOMAIN streams' = DOMAIN streams /\ streams' = [s \in DOMAIN streams' |-> streams'[s]]
        /\ \A s \in DOMAIN streams : (\E N : streams'[s] \in Seq(N)) /\ Len(streams'[s]) <= CAPACITY
        /\ \A q \in Proc : \A k \in Nat :
             LET s == Made(q, k, "out")
             IN  s \in DOMAIN streams' /\ streams'[s] # <<>> =>
                   \/ s \in DOMAIN streams /\ streams[s] # <<>>
                   \/ Connects(q, k) /\ k < ip[q]
    BY <1>1, <1>3, <1>6, <1>7, <1>8, StreamSet
  <1>10. \A q : Lines(q)' = Lines(q)
    BY <1>1 DEF Lines, Code
  <1>11. Types'
    BY <1>1, <1>2, <1>9, <1>10 DEF Types
  <1>12. UNCHANGED <<modules, name, iostreams, handlers, vector, ip, pc, job, var>>
    BY <1>1
  <1> QED
    BY <1>9, <1>11, <1>12, Outside
-----------------------------------------------------------------------------
(* New streams                                                             *)

LEMMA NewStreams ==
    ASSUME IInv, NEW S, streams' = WithNew(S)
    PROVE  /\ DOMAIN streams' = DOMAIN streams \cup S /\ streams' = [s \in DOMAIN streams' |-> streams'[s]]
           /\ \A s \in DOMAIN streams' : (\E M : streams'[s] \in Seq(M)) /\ Len(streams'[s]) <= CAPACITY
           /\ \A q \in Proc : \A k \in Nat :
                LET s == Made(q, k, "out")
                IN  s \in DOMAIN streams' /\ streams'[s] # <<>> =>
                      \/ s \in DOMAIN streams /\ streams[s] # <<>>
                      \/ Connects(q, k) /\ k < ip[q]
  <1>0. Types
    BY DEF IInv
  <1>1. DOMAIN streams' = DOMAIN streams \cup S /\ streams' = [s \in DOMAIN streams' |-> streams'[s]]
    BY DEF WithNew
  <1>2. \A s \in DOMAIN streams' : streams'[s] = IF s \in S THEN <<>> ELSE streams[s]
    BY DEF WithNew
  <1>3. <<>> \in Seq({}) /\ Len(<<>>) <= CAPACITY
    BY IpcAssumption
  <1>4. \A s \in DOMAIN streams' : (\E M : streams'[s] \in Seq(M)) /\ Len(streams'[s]) <= CAPACITY
    BY <1>0, <1>1, <1>2, <1>3 DEF Types
  <1> QED
    BY <1>1, <1>2, <1>4

\* A step of process r that does not end its call.
LEMMA Stays ==
    ASSUME Types, NEW r \in Proc, NEW to \in Places, UNCHANGED <<modules, ip>>,
           pc' = [pc EXCEPT ![r] = to],
           pc[r] \in InputOfTarget => to \in InputOfTarget,
           pc[r] \in OutputOfTarget => to \in OutputOfTarget,
           pc[r] \in InputOfOwn => to \in InputOfOwn
    PROVE  /\ pc'[r] = to /\ \A q \in Proc : q # r => pc'[q] = pc[q]
           /\ pc' \in [Proc -> Places]
           /\ \A p \in Proc : Onward(p)
  <1>1. /\ pc'[r] = to /\ \A q \in Proc : q # r => pc'[q] = pc[q]
        /\ pc' \in [Proc -> Places]
    BY DEF Types
  <1>2. \A p \in Proc : Onward(p)
    BY <1>1, Monotone
  <1> QED
    BY <1>1, <1>2

\* CONNECT: the target is another process.
LEMMA ConnectStep ==
    ASSUME IInv, NEW p \in Proc, SysConnect(p)
    PROVE  IInv'
  <1> DEFINE S == {Made(p, ip[p], "in"), Made(p, ip[p], "out")}
  <1>1. PICK q \in Proc : /\ proc_get_by_name(Arg(p).name, q)
                          /\ job' = [job EXCEPT ![p] = TargetEnd(p, q)]
    BY DEF SysConnect
  <1>2. /\ pc[p] = "user" /\ Arg(p).op = "connect" /\ streams' = WithNew(S)
        /\ pc' = [pc EXCEPT ![p] = "scan_target"]
        /\ UNCHANGED <<modules, loaded, name, iostreams, handlers, vector, ip, var>>
    BY DEF SysConnect, Calls, Arg
  <1>3. Types /\ NamesOK /\ VarOK(p) /\ HandlersOK
    BY DEF IInv
  <1>4. ip[p] \in Lines(p) /\ ip[p] \in Nat /\ Connects(p, ip[p])
    BY <1>2, <1>3, Programs DEF Types, Connects, Arg
  <1>5. q # p
    <2>1. name[q] = Arg(p).name
      BY <1>1 DEF proc_get_by_name
    <2>2. name[q] # NoName
      BY <1>2, <1>3, <1>4, <2>1, Programs DEF Types, Arg
    <2>3. PICK j \in Lines(q) : Code(q)[j].op = "register" /\ Code(q)[j].name = name[q]
      BY <1>3, <2>2 DEF NamesOK
    <2> QED
      BY <1>2, <1>3, <1>4, <2>1, <2>3, Programs DEF Types, Arg
  <1>6. /\ DOMAIN streams' = DOMAIN streams \cup S /\ streams' = [s \in DOMAIN streams' |-> streams'[s]]
        /\ \A s \in DOMAIN streams' : (\E M : streams'[s] \in Seq(M)) /\ Len(streams'[s]) <= CAPACITY
        /\ \A r \in Proc : \A k \in Nat :
             LET s == Made(r, k, "out")
             IN  s \in DOMAIN streams' /\ streams'[s] # <<>> =>
                   \/ s \in DOMAIN streams /\ streams[s] # <<>>
                   \/ Connects(r, k) /\ k < ip[r]
    <2> HIDE DEF S
    <2> QED
      BY <1>2, NewStreams
  <1>7. /\ pc'[p] = "scan_target" /\ \A r \in Proc : r # p => pc'[r] = pc[r]
        /\ pc' \in [Proc -> Places]
        /\ \A r \in Proc : Onward(r)
    <2>1. "scan_target" \in Places /\ UNCHANGED <<modules, ip>>
      BY <1>2 DEF Places, TargetPlaces
    <2>2. pc[p] \notin InputOfTarget /\ pc[p] \notin OutputOfTarget /\ pc[p] \notin InputOfOwn
      BY <1>2 DEF InputOfTarget, OutputOfTarget, InputOfOwn, OwnPlaces
    <2> QED
      BY <1>2, <1>3, <2>1, <2>2, Stays
  <1>8. TargetEnd(p, q) \in [table : Proc \cup {0}, input : Str, output : Str, slot : Int]
    BY <1>4, MadeFacts DEF TargetEnd, NoSlot
  <1>9. /\ job' \in [Proc -> [table : Proc \cup {0}, input : Str, output : Str, slot : Int]]
        /\ job'[p] = TargetEnd(p, q) /\ \A r \in Proc : r # p => job'[r] = job[r]
    <2> DEFINE v == TargetEnd(p, q)
    <2> HIDE DEF v
    <2> QED
      BY <1>1, <1>3, <1>8 DEF Types, v
  <1>10. \A r : Lines(r)' = Lines(r) /\ Code(r)' = Code(r)
    BY <1>2 DEF Lines, Code
  <1>11. Types'
    BY <1>2, <1>3, <1>6, <1>7, <1>9, <1>10 DEF Types
  <1>12. JobOK(p)'
    <2>1. /\ job'[p].table = q /\ job'[p].input = Made(p, ip[p], "out")
          /\ job'[p].output = Made(p, ip[p], "in")
      BY <1>9 DEF TargetEnd
    <2>2. Connects(p, ip[p])' /\ ip'[p] = ip[p]
      BY <1>2, <1>4, <1>10 DEF Connects
    <2>3. {job'[p].input, job'[p].output} \subseteq DOMAIN streams'
      BY <2>1, <1>6
    <2> QED
      BY <1>5, <1>7, <2>1, <2>2, <2>3 DEF JobOK, TargetPlaces, OwnPlaces
  <1>13. VarOK(p)'
    BY <1>2, <1>3, <1>10 DEF VarOK
  <1>14. DataOK'
    BY <1>2, <1>6, <1>7, DataKept
  <1>15. HandlersOK'
    BY <1>2, <1>3, <1>6 DEF HandlersOK
  <1>16. NamesOK'
    BY <1>2, NamesSame
  <1>17. pc[p] \notin {"output_target", "output_own"} /\ modules' = modules /\ iostreams' = iostreams
    BY <1>2
  <1>18. /\ DOMAIN streams \subseteq DOMAIN streams'
         /\ \A i \in Irq : handlers[i] # Null => handlers'[i] # Null
         /\ \A r \in Proc : r # p => ip'[r] = ip[r] /\ pc'[r] = pc[r] /\ job'[r] = job[r] /\ var'[r] = var[r]
    BY <1>2, <1>6, <1>7, <1>9
  <1> QED
    BY <1>7, <1>11, <1>12, <1>13, <1>14, <1>15, <1>16, <1>17, <1>18, Common

LEMMA HandleStep ==
    ASSUME IInv, NEW p \in Proc, driver_register(p)
    PROVE  IInv'
  <1> DEFINE x == Made(p, ip[p], "irq")
             S == {x}
             v == [table |-> p, input |-> x, output |-> x, slot |-> NoSlot]
  <1>2. /\ pc[p] = "user" /\ Arg(p).op = "handle" /\ streams' = WithNew(S)
        /\ job' = [job EXCEPT ![p] = v]
        /\ handlers' = [handlers EXCEPT ![Arg(p).irq] = x]
        /\ pc' = [pc EXCEPT ![p] = "scan_own"]
        /\ UNCHANGED <<modules, loaded, name, iostreams, vector, ip, var>>
    BY DEF driver_register, Calls, Arg
  <1>3. Types /\ NamesOK /\ VarOK(p) /\ HandlersOK
    BY DEF IInv
  <1>4. ip[p] \in Lines(p) /\ ip[p] \in Nat /\ Handles(p, ip[p])
    BY <1>2, <1>3, Programs DEF Types, Handles, Arg
  <1>5. x \in Str /\ x # Null
    BY <1>4, MadeFacts
  <1>6. /\ DOMAIN streams' = DOMAIN streams \cup S /\ streams' = [s \in DOMAIN streams' |-> streams'[s]]
        /\ \A s \in DOMAIN streams' : (\E M : streams'[s] \in Seq(M)) /\ Len(streams'[s]) <= CAPACITY
        /\ \A r \in Proc : \A k \in Nat :
             LET s == Made(r, k, "out")
             IN  s \in DOMAIN streams' /\ streams'[s] # <<>> =>
                   \/ s \in DOMAIN streams /\ streams[s] # <<>>
                   \/ Connects(r, k) /\ k < ip[r]
    <2> HIDE DEF S
    <2> QED
      BY <1>2, NewStreams
  <1>7. /\ pc'[p] = "scan_own" /\ \A r \in Proc : r # p => pc'[r] = pc[r]
        /\ pc' \in [Proc -> Places]
        /\ \A r \in Proc : Onward(r)
    <2>1. "scan_own" \in Places /\ UNCHANGED <<modules, ip>>
      BY <1>2 DEF Places, OwnPlaces
    <2>2. pc[p] \notin InputOfTarget /\ pc[p] \notin OutputOfTarget /\ pc[p] \notin InputOfOwn
      BY <1>2 DEF InputOfTarget, OutputOfTarget, InputOfOwn, OwnPlaces
    <2> QED
      BY <1>2, <1>3, <2>1, <2>2, Stays
  <1>8. v \in [table : Proc \cup {0}, input : Str, output : Str, slot : Int]
    BY <1>5 DEF NoSlot
  <1>9. /\ job' \in [Proc -> [table : Proc \cup {0}, input : Str, output : Str, slot : Int]]
        /\ job'[p] = v /\ \A r \in Proc : r # p => job'[r] = job[r]
    <2> HIDE DEF v
    <2> QED
      BY <1>2, <1>3, <1>8 DEF Types
  <1>10. \A r : Lines(r)' = Lines(r) /\ Code(r)' = Code(r)
    BY <1>2 DEF Lines, Code
  <1>11. /\ DOMAIN handlers' = Irq
         /\ \A i \in Irq : handlers'[i] = IF i = Arg(p).irq THEN x ELSE handlers[i]
    <2> HIDE DEF x
    <2> QED
      BY <1>2, <1>3 DEF Types
  <1>12. Types'
    BY <1>2, <1>3, <1>6, <1>7, <1>9, <1>10, <1>11 DEF Types
  <1>13. JobOK(p)'
    <2>1. job'[p].table = p /\ job'[p].input = x /\ job'[p].output = x
      BY <1>9
    <2>2. Handles(p, ip[p])' /\ ip'[p] = ip[p] /\ Arg(p)' = Arg(p)
      BY <1>2, <1>4, <1>10 DEF Handles, Arg
    <2>3. {job'[p].input, job'[p].output} \subseteq DOMAIN streams'
      BY <2>1, <1>6
    <2>4. Arg(p).irq \in Irq => handlers'[Arg(p).irq] # Null
      BY <1>5, <1>11
    <2> QED
      BY <1>7, <2>1, <2>2, <2>3, <2>4 DEF JobOK, TargetPlaces, OwnPlaces
  <1>14. VarOK(p)'
    BY <1>2, <1>3, <1>10 DEF VarOK
  <1>15. DataOK'
    BY <1>2, <1>6, <1>7, DataKept
  <1>16. HandlersOK'
    BY <1>2, <1>3, <1>4, <1>5, <1>6, <1>11 DEF HandlersOK
  <1>17. NamesOK'
    BY <1>2, NamesSame
  <1>18. pc[p] \notin {"output_target", "output_own"} /\ modules' = modules /\ iostreams' = iostreams
    BY <1>2
  <1>19. /\ DOMAIN streams \subseteq DOMAIN streams'
         /\ \A i \in Irq : handlers[i] # Null => handlers'[i] # Null
         /\ \A r \in Proc : r # p => ip'[r] = ip[r] /\ pc'[r] = pc[r] /\ job'[r] = job[r] /\ var'[r] = var[r]
    BY <1>2, <1>5, <1>6, <1>7, <1>9, <1>11
  <1> QED
    BY <1>7, <1>12, <1>13, <1>14, <1>15, <1>16, <1>17, <1>18, <1>19, Common
-----------------------------------------------------------------------------
(* Filling a slot                                                          *)

\* Before process p puts its input into a table, no slot has it, and none of
\* the table has another stream of the same call.
LEMMA NotYet ==
    ASSUME IInv, NEW p \in Proc, pc[p] \in {"scan_target", "input_target", "scan_own", "input_own"},
           NEW q \in Proc, NEW i \in Slot, NEW e
    PROVE  /\ job[p].table = q => iostreams[q][i].input # Made(p, ip[p], e)
           /\ iostreams[q][i].input # job[p].input
  <1>1. JobOK(p) /\ Placed /\ Types
    BY DEF IInv
  <1>2. ip[p] \in Nat
    BY <1>1, Programs DEF Types
  <1>3. ASSUME NEW f, iostreams[q][i].input = Made(p, ip[p], f)
        PROVE  /\ f = "out" /\ q # p /\ pc[p] \in OwnPlaces
    <2>1. InputOK(q, Made(p, ip[p], f))
      BY <1>1, <1>3, MadeFacts DEF Placed
    <2>2. \/ f = "out" /\ p # q /\ Past(p, ip[p], InputOfTarget)
          \/ Past(p, ip[p], InputOfOwn)
      BY <2>1, MadeFacts DEF InputOK
    <2> QED
      BY <1>2, <2>2 DEF Past, InputOfTarget, InputOfOwn, OwnPlaces
  <1>4. job[p].table = q => iostreams[q][i].input # Made(p, ip[p], e)
    BY <1>1, <1>3 DEF JobOK, OwnPlaces
  <1>5. iostreams[q][i].input # job[p].input
    <2>1. CASE pc[p] \in TargetPlaces
      BY <1>1, <1>3, <2>1 DEF JobOK, TargetPlaces, OwnPlaces
    <2>2. CASE pc[p] \in OwnPlaces
      <3>1. job[p].input \in {Made(p, ip[p], "in"), Made(p, ip[p], "irq")}
        BY <1>1, <2>2 DEF JobOK
      <3> QED
        BY <1>3, <3>1
    <2> QED
      BY <2>1, <2>2 DEF TargetPlaces, OwnPlaces
  <1> QED
    BY <1>4, <1>5

\* A table has room for the connection that is being made: its inputs come from
\* different calls, none of them the one that looks for a slot.
LEMMA Room ==
    ASSUME IInv, NEW p \in Proc, pc[p] \in {"scan_target", "scan_own"}
    PROVE  FreeSlots(job[p].table) # {}
  <1> DEFINE q == job[p].table
             T == AttachCalls(modules) \ {<<p, ip[p]>>}
             f == [i \in Slot |-> <<iostreams[q][i].input[1], iostreams[q][i].input[2]>>]
  <1>1. JobOK(p) /\ Placed /\ Types /\ OneReaderOneWriter
    BY DEF IInv
  <1>2. q \in Proc
    BY <1>1 DEF JobOK, TargetPlaces, OwnPlaces
  <1>3. Attaches(p, ip[p])
    BY <1>1 DEF JobOK, TargetPlaces, OwnPlaces, Attaches
  <1> SUFFICES ASSUME \A i \in Slot : iostreams[q][i].input # Null PROVE FALSE
    BY DEF FreeSlots
  <1> DEFINE Comes(i, r, k, e) ==
               /\ iostreams[q][i].input = Made(r, k, e) /\ f[i] = <<r, k>>
               /\ \/ e = "out" /\ r # q
                  \/ e = "in" /\ r = q /\ Connects(r, k)
                  \/ e = "irq" /\ r = q /\ Handles(r, k)
  <1>4. ASSUME NEW i \in Slot
        PROVE  /\ f[i] \in T
               /\ \E r \in Proc, k \in Nat, e \in {"in", "out", "irq"} : Comes(i, r, k, e)
    <2>1. InputOK(q, iostreams[q][i].input)
      BY <1>1, <1>2 DEF Placed
    <2>2. PICK r \in Proc, k \in Nat, e \in {"in", "out", "irq"} :
            /\ iostreams[q][i].input = Made(r, k, e) /\ Attaches(r, k)
            /\ \/ e = "out" /\ r # q
               \/ e = "in" /\ r = q /\ Connects(r, k)
               \/ e = "irq" /\ r = q /\ Handles(r, k)
      BY <2>1 DEF InputOK, Attaches
    <2>3. f[i] = <<r, k>>
      BY <2>2 DEF Made
    <2>4. <<r, k>> \in AttachCalls(modules)
      BY <1>1, <2>2, Programs DEF Types, Attaches
    <2>5. <<r, k>> # <<p, ip[p]>>
      BY <1>2, <2>2, NotYet
    <2>6. f[i] \in T
      BY <2>3, <2>4, <2>5
    <2>7. Comes(i, r, k, e)
      BY <2>2, <2>3
    <2> HIDE DEF Comes, f, T
    <2> QED
      BY <2>6, <2>7
  <1>5. f \in [Slot -> T]
    BY <1>4
  <1>6. ASSUME NEW i \in Slot, NEW j \in Slot, i # j, f[i] = f[j]
        PROVE  FALSE
    <2> HIDE DEF Comes
    <2>1. PICK r \in Proc, k \in Nat, e \in {"in", "out", "irq"} : Comes(i, r, k, e)
      BY <1>4
    <2>2. PICK s \in Proc, l \in Nat, g \in {"in", "out", "irq"} : Comes(j, s, l, g)
      BY <1>4
    <2> USE DEF Comes
    <2> HIDE DEF f, q
    <2>3. r = s /\ k = l
      BY <2>1, <2>2, <1>6
    <2>4. ~(Connects(r, k) /\ Handles(r, k))
      BY DEF Connects, Handles
    <2>5. e = g
      BY <2>1, <2>2, <2>3, <2>4
    <2>6. iostreams[q][i].input = iostreams[q][j].input
      BY <2>1, <2>2, <2>3, <2>5
    <2>7. <<q, i>> # <<q, j>>
      BY <1>6
    <2> QED
      BY <1>1, <1>2, <2>6, <2>7 DEF OneReaderOneWriter
  <1> HIDE DEF f
  <1>7. IsFiniteSet(Slot) /\ Cardinality(Slot) = MAX_DESCRIPTORS
    BY IpcAssumption, FS_Interval DEF Slot
  <1>8. IsFiniteSet(AttachCalls(modules)) /\ Cardinality(AttachCalls(modules)) <= MAX_DESCRIPTORS
    BY <1>1, IpcAssumption DEF Types
  <1>9. <<p, ip[p]>> \in AttachCalls(modules)
    BY <1>1, <1>3, Programs DEF Types, Attaches
  <1>10. IsFiniteSet(T) /\ Cardinality(T) = Cardinality(AttachCalls(modules)) - 1
    BY <1>8, <1>9, FS_RemoveElement
  <1>11. Cardinality(AttachCalls(modules)) \in Nat
    BY <1>8, FS_CardinalityType
  <1>12. Cardinality(T) < Cardinality(Slot)
    BY <1>7, <1>8, <1>10, <1>11, IpcAssumption
  <1> HIDE DEF T
  <1>13. \E i, j \in Slot : i # j /\ f[i] = f[j]
    BY <1>5, <1>7, <1>10, <1>12, FS_PigeonHole
  <1> QED
    BY <1>6, <1>13

LEMMA ScanStep ==
    ASSUME IInv, NEW p \in Proc, NEW from, NEW to, AttachScan(p, from, to),
           \/ from = "scan_target" /\ to = "input_target"
           \/ from = "scan_own" /\ to = "input_own"
    PROVE  IInv'
  <1> DEFINE q == job[p].table
             c == free_slot(q)
  <1>1. Types /\ JobOK(p) /\ VarOK(p) /\ HandlersOK /\ DataOK
    BY DEF IInv
  <1>2. /\ pc[p] = from /\ pc' = [pc EXCEPT ![p] = to] /\ job' = [job EXCEPT ![p].slot = c]
        /\ UNCHANGED <<modules, loaded, name, iostreams, streams, handlers, vector, ip, var>>
    BY DEF AttachScan, kernel
  <1>3. /\ c \in Slot /\ c \in Int /\ \A j \in 1..(c - 1) : iostreams[q][j].input # Null
    <2>1. FreeSlots(q) # {}
      BY <1>2, Room
    <2>2. Slot \subseteq Nat /\ FreeSlots(q) \subseteq Slot
      BY DEF Slot, FreeSlots
    <2>3. c \in FreeSlots(q) /\ \A y \in FreeSlots(q) : c <= y
      BY <2>1, <2>2, First DEF free_slot
    <2>4. c \in 1..MAX_DESCRIPTORS /\ MAX_DESCRIPTORS \in Nat
      BY <2>2, <2>3, IpcAssumption DEF Slot
    <2>5. \A j \in 1..(c - 1) : j \in Slot /\ j < c
      BY <2>4 DEF Slot
    <2>6. ASSUME NEW j \in 1..(c - 1) PROVE iostreams[q][j].input # Null
      <3>1. j \notin FreeSlots(q)
        BY <2>3, <2>4, <2>5
      <3> QED
        BY <2>5, <3>1 DEF FreeSlots
    <2> QED
      BY <2>2, <2>3, <2>4, <2>6
  <1> HIDE DEF c
  <1>4. /\ job' \in [Proc -> [table : Proc \cup {0}, input : Str, output : Str, slot : Int]]
        /\ job'[p].slot = c /\ job'[p].table = q
        /\ job'[p].input = job[p].input /\ job'[p].output = job[p].output
        /\ \A r \in Proc : r # p => job'[r] = job[r]
    BY <1>1, <1>2, <1>3 DEF Types
  <1>5. /\ pc'[p] = to /\ \A r \in Proc : r # p => pc'[r] = pc[r]
        /\ pc' \in [Proc -> Places]
        /\ \A r \in Proc : Onward(r)
    <2>1. to \in Places /\ UNCHANGED <<modules, ip>>
      BY <1>2 DEF Places, TargetPlaces, OwnPlaces
    <2>2. /\ pc[p] \in InputOfTarget => to \in InputOfTarget
          /\ pc[p] \in OutputOfTarget => to \in OutputOfTarget
          /\ pc[p] \notin InputOfOwn
      BY <1>2 DEF InputOfTarget, OutputOfTarget, InputOfOwn, OwnPlaces
    <2> QED
      BY <1>1, <1>2, <2>1, <2>2, Stays
  <1>6. \A r : Lines(r)' = Lines(r) /\ Code(r)' = Code(r)
    BY <1>2 DEF Lines, Code
  <1>7. Types'
    BY <1>1, <1>2, <1>4, <1>5, <1>6 DEF Types
  <1>8. JobOK(p)'
    <2>1. /\ ip'[p] = ip[p] /\ Arg(p)' = Arg(p)
          /\ \A k : (Connects(p, k)' <=> Connects(p, k)) /\ (Handles(p, k)' <=> Handles(p, k))
      BY <1>2, <1>6 DEF Arg, Connects, Handles
    <2>2. CASE from = "scan_target" /\ to = "input_target"
      BY <1>1, <1>2, <1>3, <1>4, <1>5, <2>1, <2>2 DEF JobOK, TargetPlaces, OwnPlaces
    <2>3. CASE from = "scan_own" /\ to = "input_own"
      BY <1>1, <1>2, <1>3, <1>4, <1>5, <2>1, <2>3 DEF JobOK, TargetPlaces, OwnPlaces
    <2> QED
      BY <2>2, <2>3
  <1>9. VarOK(p)'
    BY <1>1, <1>2, <1>6 DEF VarOK
  <1>10. DataOK'
    BY <1>2, <1>5, StreamsSame, DataKept
  <1>11. HandlersOK'
    BY <1>1, <1>2 DEF HandlersOK
  <1>12. NamesOK'
    BY <1>2, NamesSame
  <1>13. pc[p] \notin {"output_target", "output_own"} /\ modules' = modules /\ iostreams' = iostreams
    BY <1>2
  <1>14. /\ DOMAIN streams \subseteq DOMAIN streams'
         /\ \A i \in Irq : handlers[i] # Null => handlers'[i] # Null
         /\ \A r \in Proc : r # p => ip'[r] = ip[r] /\ pc'[r] = pc[r] /\ job'[r] = job[r] /\ var'[r] = var[r]
    BY <1>2, <1>4, <1>5
  <1> QED
    BY <1>5, <1>7, <1>8, <1>9, <1>10, <1>11, <1>12, <1>13, <1>14, Common

\* A step of process r that fills in a slot.
LEMMA Fills ==
    ASSUME IInv, Types', NEW r \in Proc, UNCHANGED <<modules, name, streams, handlers>>, FilledStay,
           \A p \in Proc : p # r => ip'[p] = ip[p] /\ pc'[p] = pc[p] /\ job'[p] = job[p] /\ var'[p] = var[p],
           \A p \in Proc : Onward(p), JobOK(r)', VarOK(r)', HandlersOK',
           Placed', Exist', NoGap', OneReaderOneWriter', HalfFilled'
    PROVE  IInv'
  <1>1. NamesOK'
    BY NamesSame
  <1>2. DataOK'
    BY StreamsSame, DataKept
  <1>3. \A p \in Proc : JobOK(p)' /\ VarOK(p)'
    <2> SUFFICES ASSUME NEW p \in Proc PROVE JobOK(p)' /\ VarOK(p)'
      OBVIOUS
    <2>1. CASE p = r
      BY <2>1
    <2>2. CASE p # r
      BY <2>2, Others
    <2> QED
      BY <2>1, <2>2
  <1> QED
    BY <1>1, <1>2, <1>3 DEF IInv

LEMMA PlacedNow ==
    ASSUME \A q \in Proc : \A i \in Slot : \A s :
             /\ s = iostreams'[q][i].input /\ s # Null => InputOK(q, s)'
             /\ s = iostreams'[q][i].output /\ s # Null => OutputOK(s)'
    PROVE  Placed'
  <1> SUFFICES ASSUME NEW q \in Proc, NEW i \in Slot
               PROVE  /\ iostreams'[q][i].input # Null => InputOK(q, iostreams[q][i].input)'
                      /\ iostreams'[q][i].output # Null => OutputOK(iostreams[q][i].output)'
    BY DEF Placed
  <1>1. PICK s : s = iostreams'[q][i].input
    OBVIOUS
  <1>2. iostreams'[q][i].input # Null => InputOK(q, iostreams[q][i].input)'
    BY <1>1 DEF InputOK
  <1>3. PICK s2 : s2 = iostreams'[q][i].output
    OBVIOUS
  <1>4. iostreams'[q][i].output # Null => OutputOK(iostreams[q][i].output)'
    BY <1>3 DEF OutputOK
  <1> QED
    BY <1>2, <1>4

\* The input comes first.  The slot may have been taken by another process in
\* the meantime: its input is overwritten, the others are not.
LEMMA InputStep ==
    ASSUME IInv, NEW p \in Proc, NEW from, NEW to, AttachInput(p, from, to),
           \/ from = "input_target" /\ to = "output_target"
           \/ from = "input_own" /\ to = "output_own"
    PROVE  IInv'
  <1>0. PICK q, c, x : q = job[p].table /\ c = job[p].slot /\ x = job[p].input
    OBVIOUS
  <1>1. /\ Types /\ JobOK(p) /\ VarOK(p) /\ HandlersOK /\ Placed /\ Exist /\ NoGap
        /\ OneReaderOneWriter /\ HalfFilled
    BY DEF IInv
  <1>2. /\ pc[p] = from /\ pc' = [pc EXCEPT ![p] = to]
        /\ iostreams' = [iostreams EXCEPT ![q][c].input = x]
        /\ UNCHANGED <<modules, loaded, name, streams, handlers, vector, ip, job, var>>
    BY <1>0 DEF AttachInput
  <1>3. /\ q \in Proc /\ c \in Slot /\ \A j \in 1..(c - 1) : iostreams[q][j].input # Null
        /\ x \in DOMAIN streams /\ ip[p] \in Nat
    BY <1>0, <1>1, <1>2, Programs DEF JobOK, TargetPlaces, OwnPlaces, Types
  <1>4. x \in Str /\ x # Null
    <2>1. x \in {Made(p, ip[p], "out"), Made(p, ip[p], "in"), Made(p, ip[p], "irq")}
      BY <1>0, <1>1, <1>2 DEF JobOK, TargetPlaces, OwnPlaces
    <2> QED
      BY <1>3, <2>1, MadeFacts
  <1>5. \A r \in Proc : \A j \in Slot : iostreams[r][j].input # x
    BY <1>0, <1>2, NotYet
  <1>6. /\ pc'[p] = to /\ \A r \in Proc : r # p => pc'[r] = pc[r]
        /\ pc' \in [Proc -> Places]
        /\ \A r \in Proc : Onward(r)
    <2>1. to \in Places /\ UNCHANGED <<modules, ip>>
      BY <1>2 DEF Places, TargetPlaces, OwnPlaces
    <2>2. /\ pc[p] \in InputOfTarget => to \in InputOfTarget
          /\ pc[p] \in OutputOfTarget => to \in OutputOfTarget
          /\ pc[p] \notin InputOfOwn
      BY <1>2 DEF InputOfTarget, OutputOfTarget, InputOfOwn, OwnPlaces
    <2> QED
      BY <1>1, <1>2, <2>1, <2>2, Stays
  <1>7. \A r : Lines(r)' = Lines(r) /\ Code(r)' = Code(r)
    BY <1>2 DEF Lines, Code
  <1>8. /\ ip'[p] = ip[p] /\ Arg(p)' = Arg(p)
        /\ \A k : (Connects(p, k)' <=> Connects(p, k)) /\ (Handles(p, k)' <=> Handles(p, k))
    BY <1>2, <1>7 DEF Connects, Handles, Arg
  <1>9. InputOK(q, x)'
    <2>1. CASE from = "input_target" /\ to = "output_target"
      <3>1. x = Made(p, ip[p], "out") /\ p # q /\ Connects(p, ip[p])
        BY <1>0, <1>1, <1>2, <2>1 DEF JobOK, TargetPlaces
      <3>2. Past(p, ip[p], InputOfTarget)'
        BY <1>2, <1>6, <2>1 DEF Past, InputOfTarget
      <3> QED
        BY <1>3, <1>8, <3>1, <3>2 DEF InputOK
    <2>2. CASE from = "input_own" /\ to = "output_own"
      <3>1. /\ p = q
            /\ \/ x = Made(p, ip[p], "in") /\ Connects(p, ip[p])
               \/ x = Made(p, ip[p], "irq") /\ Handles(p, ip[p])
        BY <1>0, <1>1, <1>2, <2>2 DEF JobOK, OwnPlaces
      <3>2. Past(p, ip[p], InputOfOwn)'
        BY <1>2, <1>6, <2>2 DEF Past, InputOfOwn
      <3> QED
        BY <1>3, <1>8, <3>1, <3>2 DEF InputOK
    <2> QED
      BY <2>1, <2>2
  <1>10. /\ iostreams' \in [Proc -> [Slot -> [input : Str, output : Str]]]
         /\ \A r \in Proc : \A j \in Slot :
              /\ iostreams'[r][j].output = iostreams[r][j].output
              /\ iostreams'[r][j].input = IF r = q /\ j = c THEN x ELSE iostreams[r][j].input
    <2>1. iostreams \in [Proc -> [Slot -> [input : Str, output : Str]]]
      BY <1>1 DEF Types
    <2>2. LET u == [iostreams EXCEPT ![q][c].input = x]
          IN  /\ u \in [Proc -> [Slot -> [input : Str, output : Str]]]
              /\ \A r \in Proc : \A j \in Slot :
                   /\ u[r][j].output = iostreams[r][j].output
                   /\ u[r][j].input = IF r = q /\ j = c THEN x ELSE iostreams[r][j].input
      BY <1>3, <1>4, <2>1, SetInput
    <2> QED
      BY <1>2, <2>2, Zenon
  <1>11. FilledStay
    BY <1>4, <1>10 DEF FilledStay
  <1>12. Types'
    BY <1>1, <1>2, <1>6, <1>7, <1>10 DEF Types
  <1>13. Placed'
    <2>1. \A r \in Proc : \A s : (InputOK(r, s) => InputOK(r, s)') /\ (OutputOK(s) => OutputOK(s)')
      BY <1>1, <1>2, <1>6, Kept
    <2>2. \A r \in Proc : \A j \in Slot : \A s :
            /\ s = iostreams'[r][j].input /\ s # Null => InputOK(r, s)'
            /\ s = iostreams'[r][j].output /\ s # Null => OutputOK(s)'
      <3> SUFFICES ASSUME NEW r \in Proc, NEW j \in Slot, NEW s, s # Null
                   PROVE  /\ s = iostreams'[r][j].input => InputOK(r, s)'
                          /\ s = iostreams'[r][j].output => OutputOK(s)'
        OBVIOUS
      <3>1. /\ s = iostreams[r][j].input => InputOK(r, s)
            /\ s = iostreams[r][j].output => OutputOK(s)
        BY <1>1 DEF Placed
      <3> QED
        BY <1>9, <1>10, <2>1, <3>1
    <2> QED
      BY <2>2, PlacedNow
  <1>14. Exist'
    BY <1>1, <1>2, <1>3, <1>10 DEF Exist
  <1>15. NoGap'
    <2> SUFFICES ASSUME NEW r \in Proc, NEW i \in Slot, NEW j \in Slot, i < j,
                        iostreams'[r][i].input = Null
                 PROVE  iostreams'[r][j].input = Null
      BY DEF NoGap
    <2>1. ~(r = q /\ i = c) /\ iostreams[r][i].input = Null
      BY <1>4, <1>10
    <2>2. ~(r = q /\ j = c)
      <3>1. r = q /\ j = c => i \in 1..(c - 1)
        BY IpcAssumption DEF Slot
      <3> QED
        BY <1>3, <2>1, <3>1
    <2> QED
      BY <1>1, <1>10, <2>1, <2>2 DEF NoGap
  <1>16. OneReaderOneWriter'
    <2> SUFFICES ASSUME NEW r \in Proc, NEW s \in Proc, NEW i \in Slot, NEW j \in Slot, <<r, i>> # <<s, j>>
                 PROVE  /\ iostreams'[r][i].input # Null => iostreams'[r][i].input # iostreams'[s][j].input
                        /\ iostreams'[r][i].output # Null => iostreams'[r][i].output # iostreams'[s][j].output
      BY DEF OneReaderOneWriter
    <2>1. /\ iostreams[r][i].input # Null => iostreams[r][i].input # iostreams[s][j].input
          /\ iostreams[r][i].output # Null => iostreams[r][i].output # iostreams[s][j].output
      BY <1>1 DEF OneReaderOneWriter
    <2>2. iostreams[r][i].input # x /\ iostreams[s][j].input # x
      BY <1>5
    <2>3. ~(r = q /\ i = c /\ s = q /\ j = c)
      OBVIOUS
    <2> QED
      BY <1>10, <2>1, <2>2, <2>3
  <1>17. HalfFilled'
    <2> SUFFICES ASSUME NEW r \in Proc, NEW i \in Slot,
                        iostreams'[r][i].input # Null, iostreams'[r][i].output = Null
                 PROVE  \E s \in Proc : Filling(s, r, i)'
      BY DEF HalfFilled
    <2>1. CASE r = q /\ i = c
      <3>1. Filling(p, r, i)'
        BY <2>1, <1>0, <1>2, <1>6, <1>10 DEF Filling
      <3> QED
        BY <3>1
    <2>2. CASE ~(r = q /\ i = c)
      <3>1. iostreams'[r][i].input = iostreams[r][i].input
        BY <1>10, <2>2
      <3>2. PICK s \in Proc : Filling(s, r, i)
        BY <1>1, <1>10, <3>1 DEF HalfFilled
      <3>3. s # p
        BY <1>2, <3>2 DEF Filling
      <3>4. Filling(s, r, i)'
        BY <1>2, <1>6, <3>1, <3>2, <3>3 DEF Filling
      <3> QED
        BY <3>4
    <2> QED
      BY <2>1, <2>2
  <1>18. JobOK(p)'
    <2>1. \A j \in 1..(c - 1) : iostreams'[q][j].input # Null
      <3>1. \A j \in 1..(c - 1) : j \in Slot
        BY <1>3, IpcAssumption DEF Slot
      <3> QED
        BY <1>3, <1>11, <3>1 DEF FilledStay
    <2>2. job'[p] = job[p] /\ streams' = streams /\ handlers' = handlers
      BY <1>2
    <2>3. CASE from = "input_target" /\ to = "output_target"
      BY <1>0, <1>1, <1>2, <1>3, <1>6, <1>8, <2>1, <2>2, <2>3 DEF JobOK, TargetPlaces, OwnPlaces
    <2>4. CASE from = "input_own" /\ to = "output_own"
      BY <1>0, <1>1, <1>2, <1>3, <1>6, <1>8, <2>1, <2>2, <2>4 DEF JobOK, TargetPlaces, OwnPlaces
    <2> QED
      BY <2>3, <2>4
  <1>19. VarOK(p)'
    BY <1>1, <1>2, <1>7, <1>10 DEF VarOK
  <1>20. HandlersOK'
    BY <1>1, <1>2 DEF HandlersOK
  <1>21. /\ \A r \in Proc : r # p => ip'[r] = ip[r] /\ pc'[r] = pc[r] /\ job'[r] = job[r] /\ var'[r] = var[r]
         /\ UNCHANGED <<modules, name, streams, handlers>>
    BY <1>2, <1>6
  <1> QED
    BY <1>6, <1>11, <1>12, <1>13, <1>14, <1>15, <1>16, <1>17, <1>18, <1>19, <1>20, <1>21, Fills

\* The output completes the slot; no other slot has it.
LEMMA OutputFills ==
    ASSUME IInv, NEW p \in Proc, pc[p] \in {"output_target", "output_own"}, modules' = modules,
           NEW q, NEW c, NEW x, q = job[p].table /\ c = job[p].slot /\ x = job[p].output,
           streams' = streams, \A r \in Proc : Onward(r),
           \A r \in Proc : r # p => pc'[r] = pc[r] /\ job'[r] = job[r],
           iostreams' = [iostreams EXCEPT ![q][c].output = x], OutputOK(x)'
    PROVE  /\ iostreams' \in [Proc -> [Slot -> [input : Str, output : Str]]]
           /\ FilledStay /\ Placed' /\ Exist' /\ NoGap' /\ OneReaderOneWriter' /\ HalfFilled'
  <1>1. /\ Types /\ JobOK(p) /\ Placed /\ Exist /\ NoGap /\ OneReaderOneWriter /\ HalfFilled
    BY DEF IInv
  <1>3. q \in Proc /\ c \in Slot /\ x \in DOMAIN streams /\ ip[p] \in Nat
    BY <1>1, Programs DEF JobOK, TargetPlaces, OwnPlaces, Types
  <1>4. \/ pc[p] = "output_target" /\ x = Made(p, ip[p], "in")
        \/ pc[p] = "output_own" /\ x = Made(p, ip[p], "out")
        \/ pc[p] = "output_own" /\ x = Made(p, ip[p], "irq")
    BY <1>1 DEF JobOK, TargetPlaces, OwnPlaces
  <1>5. x \in Str /\ x # Null
    BY <1>3, <1>4, MadeFacts
  <1>6. ASSUME NEW r \in Proc, NEW j \in Slot, iostreams[r][j].output = x
        PROVE  FALSE
    <2>1. OutputOK(x)
      BY <1>1, <1>5, <1>6 DEF Placed
    <2>2. PICK s \in Proc, k \in Nat :
            \/ x = Made(s, k, "in") /\ Past(s, k, OutputOfTarget)
            \/ x = Made(s, k, "out") /\ k < ip[s]
            \/ x = Made(s, k, "irq") /\ k < ip[s]
      BY <2>1 DEF OutputOK
    <2>3. s = p /\ k = ip[p]
      BY <1>4, <2>2, MadeFacts
    <2>4. pc[p] = "output_target" /\ Past(p, ip[p], OutputOfTarget)
      BY <1>3, <1>4, <2>2, <2>3, MadeFacts
    <2> QED
      BY <1>3, <2>4 DEF Past, OutputOfTarget, OwnPlaces
  <1>7. /\ iostreams' \in [Proc -> [Slot -> [input : Str, output : Str]]]
        /\ \A r \in Proc : \A j \in Slot :
             /\ iostreams'[r][j].input = iostreams[r][j].input
             /\ iostreams'[r][j].output = IF r = q /\ j = c THEN x ELSE iostreams[r][j].output
    <2>1. iostreams \in [Proc -> [Slot -> [input : Str, output : Str]]]
      BY <1>1 DEF Types
    <2> QED
      BY <1>3, <1>5, <2>1, SetOutput
  <1>9. FilledStay
    BY <1>5, <1>7 DEF FilledStay
  <1>10. Placed'
    <2>1. \A r \in Proc : \A s : (InputOK(r, s) => InputOK(r, s)') /\ (OutputOK(s) => OutputOK(s)')
      BY <1>1, Kept
    <2>3. \A r \in Proc : \A j \in Slot : \A s :
            /\ s = iostreams'[r][j].input /\ s # Null => InputOK(r, s)'
            /\ s = iostreams'[r][j].output /\ s # Null => OutputOK(s)'
      <3> SUFFICES ASSUME NEW r \in Proc, NEW j \in Slot, NEW s, s # Null
                   PROVE  /\ s = iostreams'[r][j].input => InputOK(r, s)'
                          /\ s = iostreams'[r][j].output => OutputOK(s)'
        OBVIOUS
      <3>1. /\ s = iostreams[r][j].input => InputOK(r, s)
            /\ s = iostreams[r][j].output => OutputOK(s)
        BY <1>1 DEF Placed
      <3> QED
        BY <1>7, <2>1, <3>1
    <2> QED
      BY <2>3, PlacedNow
  <1>11. Exist'
    BY <1>1, <1>3, <1>7 DEF Exist
  <1>12. NoGap'
    BY <1>1, <1>7 DEF NoGap
  <1>13. OneReaderOneWriter'
    <2> SUFFICES ASSUME NEW r \in Proc, NEW s \in Proc, NEW i \in Slot, NEW j \in Slot, <<r, i>> # <<s, j>>
                 PROVE  /\ iostreams'[r][i].input # Null => iostreams'[r][i].input # iostreams'[s][j].input
                        /\ iostreams'[r][i].output # Null => iostreams'[r][i].output # iostreams'[s][j].output
      BY DEF OneReaderOneWriter
    <2>1. /\ iostreams[r][i].input # Null => iostreams[r][i].input # iostreams[s][j].input
          /\ iostreams[r][i].output # Null => iostreams[r][i].output # iostreams[s][j].output
      BY <1>1 DEF OneReaderOneWriter
    <2>2. iostreams[r][i].output # x /\ iostreams[s][j].output # x
      BY <1>6
    <2>3. ~(r = q /\ i = c /\ s = q /\ j = c)
      OBVIOUS
    <2> QED
      BY <1>7, <2>1, <2>2, <2>3
  <1>14. HalfFilled'
    <2> SUFFICES ASSUME NEW r \in Proc, NEW i \in Slot,
                        iostreams'[r][i].input # Null, iostreams'[r][i].output = Null
                 PROVE  \E s \in Proc : Filling(s, r, i)'
      BY DEF HalfFilled
    <2>1. ~(r = q /\ i = c)
      BY <1>5, <1>7
    <2>2. iostreams'[r][i].input = iostreams[r][i].input /\ iostreams[r][i].output = Null
      BY <1>7, <2>1
    <2>3. PICK s \in Proc : Filling(s, r, i)
      BY <1>1, <2>2 DEF HalfFilled
    <2>4. s # p
      BY <2>1, <2>3 DEF Filling
    <2>5. Filling(s, r, i)'
      BY <2>2, <2>3, <2>4 DEF Filling
    <2> QED
      BY <2>5
  <1> QED
    BY <1>7, <1>9, <1>10, <1>11, <1>12, <1>13, <1>14

LEMMA TargetStep ==
    ASSUME IInv, NEW p \in Proc, TargetAttached(p)
    PROVE  IInv'
  <1>0. PICK q, c, x : q = job[p].table /\ c = job[p].slot /\ x = job[p].output
    OBVIOUS
  <1>1. Types /\ JobOK(p) /\ VarOK(p) /\ HandlersOK
    BY DEF IInv
  <1>2. /\ pc[p] = "output_target" /\ pc' = [pc EXCEPT ![p] = "scan_own"]
        /\ iostreams' = [iostreams EXCEPT ![q][c].output = x]
        /\ job' = [job EXCEPT ![p] = OwnEnd(p)]
        /\ UNCHANGED <<modules, loaded, name, streams, handlers, vector, ip, var>>
    BY <1>0 DEF TargetAttached, AttachOutput
  <1>3. /\ Connects(p, ip[p]) /\ ip[p] \in Nat
        /\ job[p].input = Made(p, ip[p], "out") /\ job[p].output = Made(p, ip[p], "in")
        /\ {job[p].input, job[p].output} \subseteq DOMAIN streams
    BY <1>1, <1>2, Programs DEF JobOK, TargetPlaces, Types
  <1>4. /\ pc'[p] = "scan_own" /\ \A r \in Proc : r # p => pc'[r] = pc[r]
        /\ pc' \in [Proc -> Places]
        /\ \A r \in Proc : Onward(r)
    <2>1. "scan_own" \in Places /\ UNCHANGED <<modules, ip>>
      BY <1>2 DEF Places, OwnPlaces
    <2>2. /\ "scan_own" \in InputOfTarget
          /\ pc[p] \notin OutputOfTarget /\ pc[p] \notin InputOfOwn
      BY <1>2 DEF InputOfTarget, OutputOfTarget, InputOfOwn, OwnPlaces
    <2> QED
      BY <1>1, <1>2, <2>1, <2>2, Stays
  <1>5. OwnEnd(p) \in [table : Proc \cup {0}, input : Str, output : Str, slot : Int]
    BY <1>3, MadeFacts DEF OwnEnd, NoSlot
  <1>6. /\ job' \in [Proc -> [table : Proc \cup {0}, input : Str, output : Str, slot : Int]]
        /\ job'[p] = OwnEnd(p) /\ \A r \in Proc : r # p => job'[r] = job[r]
    <2> DEFINE v == OwnEnd(p)
    <2> HIDE DEF v
    <2> QED
      BY <1>1, <1>2, <1>5 DEF Types, v
  <1>7. \A r : Lines(r)' = Lines(r) /\ Code(r)' = Code(r)
    BY <1>2 DEF Lines, Code
  <1>8. /\ ip'[p] = ip[p] /\ Arg(p)' = Arg(p) /\ Connects(p, ip[p])'
    BY <1>2, <1>3, <1>7 DEF Connects, Arg
  <1>9. OutputOK(x)'
    <2>1. Past(p, ip[p], OutputOfTarget)'
      BY <1>4, <1>8 DEF Past, OutputOfTarget, OwnPlaces
    <2> QED
      BY <1>0, <1>3, <1>8, <2>1 DEF OutputOK
  <1>10. /\ iostreams' \in [Proc -> [Slot -> [input : Str, output : Str]]]
         /\ FilledStay /\ Placed' /\ Exist' /\ NoGap' /\ OneReaderOneWriter' /\ HalfFilled'
    BY <1>0, <1>2, <1>4, <1>6, <1>9, OutputFills
  <1>11. Types'
    BY <1>1, <1>2, <1>4, <1>6, <1>7, <1>10 DEF Types
  <1>12. JobOK(p)'
    <2>1. /\ job'[p].table = p /\ job'[p].input = Made(p, ip[p], "in")
          /\ job'[p].output = Made(p, ip[p], "out")
      BY <1>6 DEF OwnEnd
    <2>2. {job'[p].input, job'[p].output} \subseteq DOMAIN streams'
      BY <1>2, <1>3, <2>1
    <2> QED
      BY <1>4, <1>8, <2>1, <2>2 DEF JobOK, TargetPlaces, OwnPlaces
  <1>13. VarOK(p)'
    BY <1>1, <1>2, <1>7, <1>10 DEF VarOK, FilledStay
  <1>14. HandlersOK'
    BY <1>1, <1>2 DEF HandlersOK
  <1>15. /\ \A r \in Proc : r # p => ip'[r] = ip[r] /\ pc'[r] = pc[r] /\ job'[r] = job[r] /\ var'[r] = var[r]
         /\ UNCHANGED <<modules, name, streams, handlers>>
    BY <1>2, <1>4, <1>6
  <1> QED
    BY <1>4, <1>10, <1>11, <1>12, <1>13, <1>14, <1>15, Fills

LEMMA OwnStep ==
    ASSUME IInv, NEW p \in Proc, OwnAttached(p)
    PROVE  IInv'
  <1>0. PICK q, c, x : q = job[p].table /\ c = job[p].slot /\ x = job[p].output
    OBVIOUS
  <1>1. Types /\ JobOK(p) /\ VarOK(p) /\ HandlersOK
    BY DEF IInv
  <1>2. /\ pc[p] = "output_own" /\ pc' = [pc EXCEPT ![p] = "user"]
        /\ iostreams' = [iostreams EXCEPT ![q][c].output = x]
        /\ job' = [job EXCEPT ![p] = NoJob] /\ Advance(p)
        /\ UNCHANGED <<modules, loaded, name, streams, handlers>>
    BY <1>0 DEF OwnAttached, AttachOutput
  <1>3. /\ job[p].table = p /\ job[p].slot \in Slot /\ ip[p] \in Nat /\ ip[p] \in Lines(p)
        /\ \/ Connects(p, ip[p]) /\ job[p].output = Made(p, ip[p], "out")
           \/ /\ Handles(p, ip[p]) /\ job[p].output = Made(p, ip[p], "irq")
              /\ Arg(p).irq \in Irq => handlers[Arg(p).irq] # Null
    BY <1>1, <1>2, Programs DEF JobOK, OwnPlaces, Types
  <1>4. /\ DOMAIN ip' = Proc /\ ip'[p] \in Lines(p) /\ ip'[p] <= ip[p] + 1 /\ ip[p] < ip'[p]
        /\ \A r \in Proc : r # p => ip'[r] = ip[r]
    BY <1>1, <1>2, <1>3, Advances DEF Attaches
  <1>5. /\ pc'[p] = "user" /\ \A r \in Proc : r # p => pc'[r] = pc[r]
        /\ pc' \in [Proc -> Places]
    BY <1>1, <1>2 DEF Types, Places
  <1>6. \A r \in Proc : Onward(r)
    BY <1>1, <1>2, <1>4, <1>5, Monotone
  <1>7. NoJob \in [table : Proc \cup {0}, input : Str, output : Str, slot : Int]
    BY MadeFacts DEF NoJob, NoSlot
  <1>8. /\ job' \in [Proc -> [table : Proc \cup {0}, input : Str, output : Str, slot : Int]]
        /\ \A r \in Proc : r # p => job'[r] = job[r]
    BY <1>1, <1>2, <1>7 DEF Types
  <1>9. \A r : Lines(r)' = Lines(r) /\ Code(r)' = Code(r)
    BY <1>2 DEF Lines, Code
  <1>10. OutputOK(x)'
    <2>1. \A k : (Connects(p, k)' <=> Connects(p, k)) /\ (Handles(p, k)' <=> Handles(p, k))
      BY <1>9 DEF Connects, Handles
    <2> QED
      BY <1>0, <1>3, <1>4, <2>1 DEF OutputOK
  <1>11. /\ iostreams' \in [Proc -> [Slot -> [input : Str, output : Str]]]
         /\ iostreams'[q][c].output # Null
         /\ FilledStay /\ Placed' /\ Exist' /\ NoGap' /\ OneReaderOneWriter' /\ HalfFilled'
    <2>1. /\ iostreams' \in [Proc -> [Slot -> [input : Str, output : Str]]]
          /\ FilledStay /\ Placed' /\ Exist' /\ NoGap' /\ OneReaderOneWriter' /\ HalfFilled'
      BY <1>0, <1>2, <1>5, <1>6, <1>8, <1>10, OutputFills
    <2>2. iostreams'[q][c].output # Null
      <3>1. iostreams \in [Proc -> [Slot -> [input : Str, output : Str]]]
        BY <1>1 DEF Types
      <3>2. x \in Str /\ x # Null /\ q \in Proc /\ c \in Slot
        BY <1>0, <1>3, MadeFacts
      <3>3. iostreams' = [iostreams EXCEPT ![q][c].output = x]
        BY <1>2
      <3>4. iostreams'[q][c].output = x
        BY <3>1, <3>2, <3>3
      <3> QED
        BY <3>2, <3>4
    <2> QED
      BY <2>1, <2>2
  <1>12. /\ DOMAIN var' = Proc /\ \A r \in Proc : r # p => var'[r] = var[r]
         /\ VarOK(p)' /\ DOMAIN vector' = Irq /\ HandlersOK'
    <2>1. CASE Arg(p).op = "handle"
      <3>1. vector' = [vector EXCEPT ![Arg(p).irq] = TRUE] /\ var' = var
        BY <2>1 DEF OwnAttached
      <3>2. Arg(p).irq \in Irq => handlers[Arg(p).irq] # Null
        BY <1>3, <2>1 DEF Connects, Arg
      <3>3. /\ DOMAIN vector' = Irq
            /\ \A i \in Irq : i # Arg(p).irq => vector'[i] = vector[i]
        BY <1>1, <3>1 DEF Types
      <3>4. HandlersOK'
        BY <1>1, <1>2, <3>2, <3>3 DEF HandlersOK
      <3>5. VarOK(p)'
        <4>1. \A j \in Lines(p) : j < ip'[p] /\ Code(p)[j].op \in {"connect", "select"} => j < ip[p]
          <5>1. \A j \in Lines(p) : j \in Nat /\ ip'[p] \in Nat
            BY <1>1, <1>4, Programs DEF Types
          <5>2. \A j \in Lines(p) : j < ip'[p] => j <= ip[p]
            BY <1>3, <1>4, <5>1
          <5>3. Code(p)[ip[p]].op \notin {"connect", "select"}
            BY <2>1 DEF Arg
          <5>4. \A j \in Lines(p) : j <= ip[p] => j < ip[p] \/ j = ip[p]
            BY <1>3, <5>1
          <5> QED
            BY <5>2, <5>3, <5>4
        <4> QED
          BY <1>1, <1>9, <1>11, <3>1, <4>1 DEF VarOK, FilledStay
      <3> QED
        BY <1>1, <3>1, <3>3, <3>4, <3>5 DEF Types
    <2>2. CASE Arg(p).op # "handle"
      <3>1. Assign(p, Arg(p).as, job[p].slot) /\ vector' = vector
        BY <2>2 DEF OwnAttached
      <3>2. /\ DOMAIN var' = Proc /\ \A r \in Proc : r # p => var'[r] = var[r]
            /\ var'[p] = [y \in DOMAIN var[p] \cup {Arg(p).as} |->
                            IF y = Arg(p).as THEN job[p].slot ELSE var[p][y]]
        BY <1>1, <3>1 DEF Assign, Types
      <3>3. \A v \in DOMAIN var'[p] : var'[p][v] \in Slot /\ iostreams'[p][var'[p][v]].output # Null
        <4> SUFFICES ASSUME NEW v \in DOMAIN var'[p]
                     PROVE  var'[p][v] \in Slot /\ iostreams'[p][var'[p][v]].output # Null
          OBVIOUS
        <4>1. CASE v = Arg(p).as
          <5>1. var'[p][v] = c /\ q = p /\ c \in Slot
            BY <1>0, <1>3, <3>2, <4>1
          <5> QED
            BY <1>11, <5>1
        <4>2. CASE v # Arg(p).as
          <5>1. v \in DOMAIN var[p] /\ var'[p][v] = var[p][v]
            BY <3>2, <4>2
          <5> QED
            BY <1>1, <1>11, <5>1 DEF VarOK, FilledStay
        <4> QED
          BY <4>1, <4>2
      <3>4. \A j \in Lines(p) : j < ip'[p] => j < ip[p] \/ j = ip[p]
        <4>1. \A j \in Lines(p) : j \in Nat /\ ip'[p] \in Nat
          BY <1>1, <1>4, Programs DEF Types
        <4> QED
          BY <1>3, <1>4, <4>1
      <3>5. VarOK(p)'
        BY <1>1, <1>9, <3>2, <3>3, <3>4 DEF VarOK, Arg
      <3>6. HandlersOK'
        BY <1>1, <1>2, <3>1 DEF HandlersOK
      <3> QED
        BY <1>1, <3>1, <3>2, <3>5, <3>6 DEF Types
    <2> QED
      BY <2>1, <2>2
  <1>13. Types'
    <2>1. \A r \in Proc : ip'[r] \in Lines(r)'
      BY <1>1, <1>4, <1>9 DEF Types
    <2> QED
      BY <1>1, <1>2, <1>4, <1>5, <1>8, <1>11, <1>12, <2>1 DEF Types
  <1>14. JobOK(p)'
    BY <1>5 DEF JobOK, TargetPlaces, OwnPlaces
  <1>15. /\ \A r \in Proc : r # p => ip'[r] = ip[r] /\ pc'[r] = pc[r] /\ job'[r] = job[r] /\ var'[r] = var[r]
         /\ UNCHANGED <<modules, name, streams, handlers>>
    BY <1>2, <1>4, <1>5, <1>8, <1>12
  <1> QED
    BY <1>6, <1>11, <1>12, <1>13, <1>14, <1>15, Fills
-----------------------------------------------------------------------------
(* The theorem                                                             *)

LEMMA Initially == Init => IInv
  <1> SUFFICES ASSUME Init PROVE IInv
    OBVIOUS
  <1>1. modules \in Systems /\ loaded = 0
    BY DEF Init
  <1>2. Types
    <2>1. iostreams \in [Proc -> [Slot -> [input : Str, output : Str]]]
      BY MadeFacts DEF Init
    <2>2. /\ DOMAIN streams = {} /\ streams = [s \in DOMAIN streams |-> streams[s]]
      BY DEF Init
    <2>3. DOMAIN ip = Proc /\ \A p \in Proc : ip[p] = 1
      BY DEF Init
    <2>4. \A p \in Proc : ip[p] \in Lines(p)
      <3> SUFFICES ASSUME NEW p \in Proc PROVE 1 \in Lines(p)
        BY <2>3
      <3> QED
        BY <1>1, Programs DEF Lines
    <2>5. job \in [Proc -> [table : Proc \cup {0}, input : Str, output : Str, slot : Int]]
      BY MadeFacts DEF Init, NoJob, NoSlot
    <2>6. pc \in [Proc -> Places]
      BY DEF Init, Places
    <2>7. /\ DOMAIN handlers = Irq /\ DOMAIN vector = Irq
          /\ DOMAIN var = Proc /\ DOMAIN name = Proc
      BY DEF Init
    <2>8. loaded \in 0..NPROC
      BY <1>1, IpcAssumption
    <2> QED
      BY <1>1, <2>1, <2>2, <2>3, <2>4, <2>5, <2>6, <2>7, <2>8 DEF Types
  <1>3. NamesOK
    BY DEF Init, NamesOK
  <1>4. \A q \in Proc : \A i \in Slot : iostreams[q][i].input = Null /\ iostreams[q][i].output = Null
    BY DEF Init
  <1>5. Placed /\ Exist /\ HalfFilled /\ NoGap /\ OneReaderOneWriter
    BY <1>4 DEF Placed, Exist, HalfFilled, NoGap, OneReaderOneWriter
  <1>6. ASSUME NEW p \in Proc PROVE JobOK(p)
    BY DEF Init, JobOK, TargetPlaces, OwnPlaces
  <1>7. ASSUME NEW p \in Proc PROVE VarOK(p)
    <2>1. DOMAIN var[p] = {} /\ ip[p] = 1
      BY DEF Init
    <2>2. \A j \in Lines(p) : ~(j < 1)
      BY <1>1, Programs DEF Lines
    <2> QED
      BY <2>1, <2>2 DEF VarOK
  <1>8. DataOK
    BY DEF Init, DataOK
  <1>9. HandlersOK
    BY DEF Init, HandlersOK
  <1> QED
    BY <1>2, <1>3, <1>5, <1>6, <1>7, <1>8, <1>9 DEF IInv

LEMMA CallStep ==
    ASSUME IInv, NEW p \in Proc, Call(p)
    PROVE  IInv'
  <1>1. CASE Attach(p)
    <2>1. CASE AttachScan(p, "scan_target", "input_target")
      BY <2>1, ScanStep
    <2>2. CASE AttachInput(p, "input_target", "output_target")
      BY <2>2, InputStep
    <2>3. CASE TargetAttached(p)
      BY <2>3, TargetStep
    <2>4. CASE AttachScan(p, "scan_own", "input_own")
      BY <2>4, ScanStep
    <2>5. CASE AttachInput(p, "input_own", "output_own")
      BY <2>5, InputStep
    <2>6. CASE OwnAttached(p)
      BY <2>6, OwnStep
    <2> QED
      BY <1>1, <2>1, <2>2, <2>3, <2>4, <2>5, <2>6 DEF Attach
  <1>2. CASE ~Attach(p)
    BY <1>2, RegisterStep, ConnectStep, HandleStep, SelectStep, ReadStep, PeekStep, WriteStep DEF Call
  <1> QED
    BY <1>1, <1>2

\* A call removes no stream.
LEMMA StreamsStay ==
    ASSUME IInv, NEW p \in Proc, Call(p)
    PROVE  DOMAIN streams \subseteq DOMAIN streams'
  <1>1. CASE Attach(p)
    BY <1>1 DEF Attach, AttachScan, AttachInput, TargetAttached, OwnAttached, kernel
  <1>2. CASE SysConnect(p) \/ driver_register(p)
    BY <1>2 DEF SysConnect, driver_register, WithNew
  <1>3. CASE SysRead(p) \/ SysWrite(p)
    BY <1>3 DEF SysRead, SysWrite
  <1>4. CASE proc_register(p) \/ SysSelect(p) \/ SysPeek(p)
    BY <1>4 DEF proc_register, SysSelect, SysPeek, kernel
  <1> QED
    BY <1>1, <1>2, <1>3, <1>4 DEF Call

\* Nothing changes for the calls.
LEMMA CallsSame ==
    ASSUME IInv, UNCHANGED <<kernel, calls>>
    PROVE  IInv'
  <1>1. UNCHANGED <<modules, loaded, name, iostreams, streams, handlers, vector, ip, pc, job, var>>
    BY DEF kernel, calls
  <1>2. Types /\ \A q : Lines(q)' = Lines(q)
    BY <1>1 DEF IInv, Lines, Code
  <1>3. Types'
    BY <1>1, <1>2 DEF Types
  <1>4. UNCHANGED <<modules, name, iostreams, handlers, vector, ip, pc, job, var>> /\ streams' = streams
    BY <1>1
  <1> QED
    BY <1>3, <1>4, StreamsSame, Outside

LEMMA HeldSame ==
    ASSUME HeldOK, DOMAIN streams \subseteq DOMAIN streams', UNCHANGED <<held, descr>>
    PROVE  HeldOK'
  BY DEF HeldOK, IrqStream

\* One thread begins to wait, or no longer does.
LEMMA HeldSet ==
    ASSUME HeldOK, DOMAIN streams \subseteq DOMAIN streams', NEW t \in Thread,
           NEW x, NEW y, x # Null => IrqStream(x), y # Null => IrqStream(y),
           held' = [held EXCEPT ![t] = x], descr' = [descr EXCEPT ![t] = y]
    PROVE  HeldOK'
  <1>1. \A u \in Thread : held'[u] = (IF u = t THEN x ELSE held[u]) /\ descr'[u] = (IF u = t THEN y ELSE descr[u])
    BY DEF HeldOK
  <1>2. \A s : IrqStream(s) => IrqStream(s)'
    BY DEF IrqStream
  <1>3. held' = [u \in Thread |-> held'[u]] /\ descr' = [u \in Thread |-> descr'[u]]
    BY DEF HeldOK
  <1> QED
    BY <1>1, <1>2, <1>3 DEF HeldOK

LEMMA ResumeStep ==
    ASSUME IInv, HeldOK, NEW t \in Thread, NotifyResumes(t)
    PROVE  IInv' /\ HeldOK'
  <1>1. IrqStream(held[t]) /\ ~Full(held[t]) /\ Put(held[t], "int")
    BY DEF NotifyResumes, HeldOK
  <1>2. UNCHANGED <<modules, loaded, name, iostreams, handlers, vector, calls>>
    BY DEF NotifyResumes
  <1>3. IInv' /\ DOMAIN streams' = DOMAIN streams
    BY <1>1, <1>2, PutStep
  <1>4. held' = [held EXCEPT ![t] = Null] /\ descr' = [descr EXCEPT ![t] = descr[t]]
    BY DEF NotifyResumes, HeldOK
  <1>5. descr[t] # Null => IrqStream(descr[t])
    BY DEF HeldOK
  <1> QED
    BY <1>3, <1>4, <1>5, HeldSet

LEMMA Inductive ==
    ASSUME IInv, HeldOK, [Next]_vars
    PROVE  IInv' /\ HeldOK'
  <1>1. CASE elf_load
    <2>1. DOMAIN streams \subseteq DOMAIN streams' /\ UNCHANGED <<held, descr>>
      BY <1>1 DEF elf_load
    <2> QED
      BY <1>1, <2>1, LoadStep, HeldSame
  <1>2. ASSUME NEW i \in Irq, driver_irq_notify(i) PROVE IInv' /\ HeldOK'
    <2>1. IrqStream(handlers[i])
      BY <1>2 DEF driver_irq_notify, IInv, HandlersOK, IrqStream
    <2>2. /\ UNCHANGED <<modules, loaded, name, iostreams, handlers, vector, calls>>
          /\ UNCHANGED <<held, descr>> /\ ~Full(handlers[i]) /\ Put(handlers[i], "int")
      BY <1>2 DEF driver_irq_notify
    <2>3. IInv' /\ DOMAIN streams' = DOMAIN streams
      BY <2>1, <2>2, PutStep
    <2> QED
      BY <2>2, <2>3, HeldSame
  <1>3. ASSUME NEW i \in Irq, NEW t \in Thread, NotifyWaits(i, t) PROVE IInv' /\ HeldOK'
    <2>1. IrqStream(handlers[i])
      BY <1>3 DEF NotifyWaits, IInv, HandlersOK, IrqStream
    <2>2. IInv' /\ DOMAIN streams' = DOMAIN streams
      BY <1>3, CallsSame DEF NotifyWaits, kernel
    <2>3. held' = [held EXCEPT ![t] = handlers[i]]
      BY <1>3 DEF NotifyWaits
    <2>4. PICK y : descr' = [descr EXCEPT ![t] = y] /\ (y # Null => IrqStream(y))
      <3>1. CASE UNCHANGED descr
        BY <3>1 DEF HeldOK
      <3>2. CASE descr' = [descr EXCEPT ![t] = handlers[i]]
        BY <3>2, <2>1
      <3> QED
        BY <1>3, <3>1, <3>2 DEF NotifyWaits
    <2> QED
      BY <2>1, <2>2, <2>3, <2>4, HeldSet
  <1>4. ASSUME NEW p \in Proc, GoesOn(p) PROVE IInv' /\ HeldOK'
    <2>1. Call(p) /\ UNCHANGED <<held, descr>>
      BY <1>4 DEF GoesOn
    <2> QED
      BY <2>1, CallStep, StreamsStay, HeldSame
  <1>5. ASSUME NEW p \in Proc, StaleEvent(p) PROVE IInv' /\ HeldOK'
    <2>1. IInv' /\ DOMAIN streams' = DOMAIN streams
      BY <1>5, CallsSame DEF StaleEvent, kernel
    <2>2. p \in Thread /\ descr' = [descr EXCEPT ![p] = Null] /\ held' = [held EXCEPT ![p] = held[p]]
      BY <1>5 DEF StaleEvent, Thread, HeldOK
    <2>3. held[p] # Null => IrqStream(held[p])
      BY <2>2 DEF HeldOK
    <2> QED
      BY <2>1, <2>2, <2>3, HeldSet
  <1>6. ASSUME NEW p \in Proc, Step(p) PROVE IInv' /\ HeldOK'
    BY <1>4, <1>5, <1>6, ResumeStep DEF Step, Thread
  <1>7. CASE NotifyResumes(Idle)
    BY <1>7, ResumeStep DEF Thread
  <1>8. CASE UNCHANGED vars
    <2>1. UNCHANGED <<kernel, calls>> /\ UNCHANGED <<held, descr>> /\ streams' = streams
      BY <1>8 DEF vars, kernel
    <2> QED
      BY <2>1, CallsSame, HeldSame
  <1> QED
    BY <1>1, <1>2, <1>3, <1>6, <1>7, <1>8 DEF Next, Interrupt

\* However the calls of the processes interleave, and although CONNECT writes
\* into a foreign table without a lock, the descriptor tables stay sound: no
\* used slot is behind a free one, where iostream_select would not see it; no
\* stream is in two slots; and a program never uses a slot that is not complete.
THEOREM TablesStaySound == Spec => []TablesSound
  <1>1. IInv /\ HeldOK => TablesSound
    <2> SUFFICES ASSUME IInv, HeldOK PROVE TablesSound
      OBVIOUS
    <2>1. Types /\ Exist /\ NoGap /\ OneReaderOneWriter /\ HandlersOK /\ \A p \in Proc : VarOK(p)
      BY DEF IInv
    <2>2. \A p \in Proc : ip[p] \in 1..Len(Code(p))
      BY <2>1 DEF Types, Lines
    <2>3. /\ loaded \in 0..NPROC
          /\ \A s \in DOMAIN streams : Len(streams[s]) <= CAPACITY
      BY <2>1 DEF Types
    <2>4. \A i \in Irq : vector[i] => handlers[i] \in DOMAIN streams
      BY <2>1 DEF HandlersOK
    <2>5. \A p \in Proc : \A v \in DOMAIN var[p] : /\ var[p][v] \in Slot
                                                  /\ iostreams[p][var[p][v]].output # Null
      BY <2>1 DEF VarOK
    <2>6. \A t \in Thread : {held[t], descr[t]} \subseteq DOMAIN streams \cup {Null}
      BY DEF HeldOK, IrqStream
    <2>7. TypeOK
      BY <2>1, <2>2, <2>3, <2>4, <2>5, <2>6 DEF TypeOK, Exist
    <2> QED
      BY <2>1, <2>7 DEF TablesSound
  <1>2. Init => HeldOK
    BY DEF Init, HeldOK
  <1> QED
    BY <1>1, <1>2, Initially, Inductive, PTL DEF Spec
=============================================================================
