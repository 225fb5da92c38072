-------------------------------- MODULE Ipc --------------------------------
(***************************************************************************)
(* Processes and the connections between them: elf_load creates them one   *)
(* by one on the boot CPU, SYSCALL_REGISTER, CONNECT, SELECT, READ, WRITE, *)
(* PEEK and HANDLE (src/kernel/syscall.c, process.c, drivers.c, and the    *)
(* descriptor tables of stream.c) serve them, on any CPU and preemptible   *)
(* at any point.  A process executes its program, a list of system calls   *)
(* with a loop at its end (module Userspace has the programs).             *)
(*                                                                         *)
(* CONNECT writes into the descriptor table of the process it connects to, *)
(* with no lock: iostream_attach finds a free slot, then fills its two     *)
(* fields, each in a step of its own.  A stream carries whole messages in  *)
(* order (module Stream shows that it does) and is named after the call    *)
(* that made it.                                                           *)
(***************************************************************************)
EXTENDS Integers, Sequences, FiniteSets, FiniteSetsExt

CONSTANTS NPROC,            \* number of processes, pids 1, 2, ...
          Systems,          \* the lists of modules that may be loaded: what
                            \* each process executes
          MAX_DESCRIPTORS,  \* slots of a descriptor table
          CAPACITY,         \* messages a stream can hold
          Irq,              \* the interrupts that drivers handle
          MAX_HELD          \* bound: threads that wait in handlers at a time

Proc == 1..NPROC
Idle == 0                   \* the idle thread of the CPU that takes interrupts
Thread == {Idle} \cup Proc
Slot == 1..MAX_DESCRIPTORS
Null == <<>>
NoSlot == 0
NoName == "none"

Attaching == {"connect", "handle"}

\* The system calls of the programs in list l that attach a stream.
AttachCalls(l) ==
    UNION {{<<p, k>> : k \in {k \in 1..Len(l[p].code) : l[p].code[k].op \in Attaching}} : p \in Proc}

\* The programs assign a descriptor before they use it, do not connect to
\* themselves, and make no connection in their loop; a table has room for every
\* connection there can be, so that iostream_attach never answers -1.
ASSUME IpcAssumption ==
    /\ NPROC \in Nat /\ CAPACITY \in Nat \ {0} /\ MAX_DESCRIPTORS \in Nat
    /\ \A l \in Systems :
         /\ IsFiniteSet(AttachCalls(l)) /\ Cardinality(AttachCalls(l)) <= MAX_DESCRIPTORS
         /\ \A p \in Proc : Len(l[p].code) \in Nat /\ l[p].loop \in 1..Len(l[p].code)
         /\ \A c \in AttachCalls(l) : c[2] < l[c[1]].loop
         /\ \A p \in Proc : \A k \in 1..Len(l[p].code) :
              /\ l[p].code[k].op = "connect" =>
                   /\ l[p].code[k].name # NoName
                   /\ \A j \in 1..Len(l[p].code) :
                        l[p].code[j].op = "register" => l[p].code[j].name # l[p].code[k].name
              /\ l[p].code[k].op \in {"read", "poll", "write"} =>
                   \E j \in 1..(k - 1) : /\ l[p].code[j].op \in {"connect", "select"}
                                         /\ l[p].code[j].as = l[p].code[k].of

VARIABLES modules,   \* the list that the boot loader passed
          loaded,    \* number of processes created so far
          name,      \* process->name
          iostreams, \* process->iodescr.iostreams
          streams,   \* the contents of the streams that exist
          handlers,  \* drivers.c handlers[irq]
          vector,    \* the interrupts that driver_irq_notify serves
          ip, pc,    \* per process: the call it makes next or is in; its place
                     \* in iostream_attach
          job,       \* the arguments and the locals of iostream_attach
          var, buf,  \* the program's descriptors, and its message buffer
          held,      \* per thread: the full stream in whose driver's handler it
                     \* waits for room
          descr      \* thread->descr where a handler that waited has left its
                     \* own stream, and the call goes on to wait with it

kernel == <<modules, loaded, name, iostreams, streams, handlers, vector>>
calls == <<ip, pc, job, var, buf>>
vars == <<kernel, calls, held, descr>>

Code(p) == modules[p].code

NoJob == [table |-> 0, input |-> Null, output |-> Null, slot |-> NoSlot]

Init ==
    /\ modules \in Systems
    /\ loaded = 0
    /\ name = [p \in Proc |-> NoName]
    /\ iostreams = [p \in Proc |-> [i \in Slot |-> [input |-> Null, output |-> Null]]]
    /\ streams = [s \in {} |-> <<>>]
    /\ handlers = [i \in Irq |-> Null]
    /\ vector = [i \in Irq |-> FALSE]
    /\ ip = [p \in Proc |-> 1]
    /\ pc = [p \in Proc |-> "user"]
    /\ job = [p \in Proc |-> NoJob]
    /\ var = [p \in Proc |-> [v \in {} |-> NoSlot]]
    /\ buf = [p \in Proc |-> "empty"]
    /\ held = [t \in Thread |-> Null]
    /\ descr = [t \in Thread |-> Null]

\* elf_load: the next module becomes a process with one thread that is ready.
elf_load ==
    /\ loaded < NPROC
    /\ loaded' = loaded + 1
    /\ UNCHANGED <<modules, name, iostreams, streams, handlers, vector, calls, held, descr>>
-----------------------------------------------------------------------------
Calls(p, op) == p <= loaded /\ pc[p] = "user" /\ Code(p)[ip[p]].op = op
Arg(p) == Code(p)[ip[p]]

\* The system call returns and the program goes on.
Advance(p) ==
    ip' = [ip EXCEPT ![p] = IF @ = Len(Code(p)) THEN modules[p].loop ELSE @ + 1]

Assign(p, v, value) ==
    var' = [var EXCEPT ![p] = [x \in DOMAIN @ \cup {v} |-> IF x = v THEN value ELSE @[x]]]

\* proc_register
proc_register(p) ==
    /\ Calls(p, "register")
    /\ name' = [name EXCEPT ![p] = Arg(p).name]
    /\ Advance(p)
    /\ UNCHANGED <<modules, loaded, iostreams, streams, handlers, vector, pc, job, var, buf>>

\* proc_get_by_name: the first process with the name.
proc_get_by_name(n, q) ==
    /\ q <= loaded /\ name[q] = n
    /\ \A r \in 1..(q - 1) : name[r] # n

\* stream_new for each s in S
WithNew(S) == [s \in DOMAIN streams \cup S |-> IF s \in S THEN <<>> ELSE streams[s]]

Made(p, k, end) == <<p, k, end>>

\* What CONNECT attaches to the target: the caller's output is its input.
TargetEnd(p, q) ==
    [table |-> q, input |-> Made(p, ip[p], "out"), output |-> Made(p, ip[p], "in"), slot |-> NoSlot]

OwnEnd(p) ==
    [table |-> p, input |-> Made(p, ip[p], "in"), output |-> Made(p, ip[p], "out"), slot |-> NoSlot]

\* SYSCALL_CONNECT, as far as the two streams.  While there is no process of
\* that name the call answers -1 and the program waits and calls again.
SysConnect(p) ==
    /\ Calls(p, "connect")
    /\ \E q \in Proc :
         /\ proc_get_by_name(Arg(p).name, q)
         /\ job' = [job EXCEPT ![p] = TargetEnd(p, q)]
    /\ streams' = WithNew({Made(p, ip[p], "in"), Made(p, ip[p], "out")})
    /\ pc' = [pc EXCEPT ![p] = "scan_target"]
    /\ UNCHANGED <<modules, loaded, name, iostreams, handlers, vector, ip, var, buf>>

\* SYSCALL_HANDLE: driver_register makes a stream for the interrupt.
driver_register(p) ==
    /\ Calls(p, "handle")
    /\ LET s == Made(p, ip[p], "irq")
       IN  /\ streams' = WithNew({s})
           /\ handlers' = [handlers EXCEPT ![Arg(p).irq] = s]
           /\ job' = [job EXCEPT ![p] = [table |-> p, input |-> s, output |-> s, slot |-> NoSlot]]
    /\ pc' = [pc EXCEPT ![p] = "scan_own"]
    /\ UNCHANGED <<modules, loaded, name, iostreams, vector, ip, var, buf>>
-----------------------------------------------------------------------------
(* iostream_attach, for the target of a connection and for the caller      *)

FreeSlots(q) == {i \in Slot : iostreams[q][i].input = Null}

last_free_slot(q) == Max(FreeSlots(q))

\* The slot at which the loop stops.
free_slot(q) == Min(FreeSlots(q))

AttachScan(p, from, to) ==
    /\ pc[p] = from
    /\ job' = [job EXCEPT ![p].slot = free_slot(job[p].table)]
    /\ pc' = [pc EXCEPT ![p] = to]
    /\ UNCHANGED <<kernel, ip, var, buf>>

AttachInput(p, from, to) ==
    /\ pc[p] = from
    /\ iostreams' = [iostreams EXCEPT ![job[p].table][job[p].slot].input = job[p].input]
    /\ pc' = [pc EXCEPT ![p] = to]
    /\ UNCHANGED <<modules, loaded, name, streams, handlers, vector, ip, job, var, buf>>

AttachOutput(p, from) ==
    /\ pc[p] = from
    /\ iostreams' = [iostreams EXCEPT ![job[p].table][job[p].slot].output = job[p].output]

\* The target has its end, now the caller gets the other one.
TargetAttached(p) ==
    /\ AttachOutput(p, "output_target")
    /\ job' = [job EXCEPT ![p] = OwnEnd(p)]
    /\ pc' = [pc EXCEPT ![p] = "scan_own"]
    /\ UNCHANGED <<modules, loaded, name, streams, handlers, vector, ip, var, buf>>

\* The call answers the slot.  HANDLE installs driver_irq_notify, CONNECT gives
\* the program its descriptor.
OwnAttached(p) ==
    /\ AttachOutput(p, "output_own")
    /\ IF Arg(p).op = "handle"
         THEN vector' = [vector EXCEPT ![Arg(p).irq] = TRUE] /\ UNCHANGED var
         ELSE Assign(p, Arg(p).as, job[p].slot) /\ UNCHANGED vector
    /\ job' = [job EXCEPT ![p] = NoJob]
    /\ pc' = [pc EXCEPT ![p] = "user"]
    /\ Advance(p)
    /\ UNCHANGED <<modules, loaded, name, streams, handlers, buf>>

Attach(p) ==
    \/ AttachScan(p, "scan_target", "input_target")
    \/ AttachInput(p, "input_target", "output_target")
    \/ TargetAttached(p)
    \/ AttachScan(p, "scan_own", "input_own")
    \/ AttachInput(p, "input_own", "output_own")
    \/ OwnAttached(p)
-----------------------------------------------------------------------------
(* Using the connections                                                   *)

HasData(p, i) == iostreams[p][i].input # Null /\ streams[iostreams[p][i].input] # <<>>

select_first_only(p, i) == i = 1 /\ HasData(p, 1)

\* iostream_select answers i: no slot before it is free or has data.
iostream_select(p, i) ==
    /\ HasData(p, i)
    /\ \A j \in 1..(i - 1) : iostreams[p][j].input # Null /\ ~HasData(p, j)

\* SYSCALL_SELECT; the process sleeps until there is a slot to answer.
SysSelect(p) ==
    /\ Calls(p, "select")
    /\ \E i \in Slot : iostream_select(p, i) /\ Assign(p, Arg(p).as, i)
    /\ Advance(p)
    /\ UNCHANGED <<kernel, pc, job, buf>>

Input(p) == iostreams[p][var[p][Arg(p).of]].input
Output(p) == iostreams[p][var[p][Arg(p).of]].output

\* SYSCALL_READ of a message; the process sleeps until there is one.
SysRead(p) ==
    /\ Calls(p, "read") \/ Calls(p, "poll")
    /\ streams[Input(p)] # <<>>
    /\ buf' = [buf EXCEPT ![p] = Head(streams[Input(p)])]
    /\ streams' = [streams EXCEPT ![Input(p)] = Tail(@)]
    /\ Advance(p)
    /\ UNCHANGED <<modules, loaded, name, iostreams, handlers, vector, pc, job, var>>

\* SYSCALL_PEEK answers 0, so the program does not read.
SysPeek(p) ==
    /\ Calls(p, "poll")
    /\ streams[Input(p)] = <<>>
    /\ Advance(p)
    /\ UNCHANGED <<kernel, pc, job, var, buf>>

\* SYSCALL_WRITE of a message, or of what was read last; the process sleeps
\* while the stream is full.
SysWrite(p) ==
    /\ Calls(p, "write")
    /\ Len(streams[Output(p)]) < CAPACITY
    /\ streams' = [streams EXCEPT ![Output(p)] =
                     Append(@, IF Arg(p).msg = "buf" THEN buf[p] ELSE Arg(p).msg)]
    /\ Advance(p)
    /\ UNCHANGED <<modules, loaded, name, iostreams, handlers, vector, pc, job, var, buf>>

-----------------------------------------------------------------------------
(* Interrupts of the drivers                                               *)

Full(s) == Len(streams[s]) >= CAPACITY

Put(s, m) == streams' = [streams EXCEPT ![s] = Append(@, m)]

\* The call that thread t makes has found nothing to read, or no room.
Waits(t) ==
    /\ t \in Proc
    /\ \/ Calls(t, "read") /\ streams[Input(t)] = <<>>
       \/ Calls(t, "write") /\ Full(Output(t))

\* driver_irq_notify, in the thread t that the interrupt has hit, wherever it is.
\* The handler's stream has room: nobody notices.
driver_irq_notify(i) ==
    /\ vector[i] /\ ~Full(handlers[i])
    /\ Put(handlers[i], "int")
    /\ UNCHANGED <<modules, loaded, name, iostreams, handlers, vector, calls, held, descr>>

\* It is full: stream_write makes the interrupted thread wait.  If that thread
\* has set its descr and not yet its event, its own call will wait with the
\* handler's stream.
NotifyWaits(i, t) ==
    /\ vector[i] /\ Full(handlers[i])
    /\ t <= loaded /\ held[t] = Null
    /\ Cardinality({u \in Thread : held[u] # Null}) < MAX_HELD
    /\ held' = [held EXCEPT ![t] = handlers[i]]
    /\ \/ UNCHANGED descr
       \/ Waits(t) /\ descr' = [descr EXCEPT ![t] = handlers[i]]
    /\ UNCHANGED <<kernel, calls>>

\* There is room: the handler writes and returns.
NotifyResumes(t) ==
    /\ held[t] # Null /\ ~Full(held[t])
    /\ Put(held[t], "int")
    /\ held' = [held EXCEPT ![t] = Null]
    /\ UNCHANGED <<modules, loaded, name, iostreams, handlers, vector, calls, descr>>

\* The event of a call that waits with a handler's stream happens there, and the
\* call looks at its own stream again.
StaleEvent(p) ==
    /\ held[p] = Null /\ descr[p] # Null
    /\ \/ Calls(p, "read") /\ streams[descr[p]] # <<>>
       \/ Calls(p, "write") /\ ~Full(descr[p])
    /\ descr' = [descr EXCEPT ![p] = Null]
    /\ UNCHANGED <<kernel, calls, held>>
-----------------------------------------------------------------------------
Call(p) ==
    \/ proc_register(p) \/ SysConnect(p) \/ driver_register(p) \/ Attach(p)
    \/ SysSelect(p) \/ SysRead(p) \/ SysPeek(p) \/ SysWrite(p)

GoesOn(p) == held[p] = Null /\ descr[p] = Null /\ Call(p) /\ UNCHANGED <<held, descr>>

Step(p) == GoesOn(p) \/ NotifyResumes(p) \/ StaleEvent(p)

Interrupt(i) == driver_irq_notify(i) \/ \E t \in Thread : NotifyWaits(i, t)

Next ==
    \/ elf_load
    \/ \E p \in Proc : Step(p)
    \/ NotifyResumes(Idle)
    \/ \E i \in Irq : Interrupt(i)

Spec == Init /\ [][Next]_vars

\* Every process that can go on does (module Scheduler); no interrupt has to
\* come.
FairSpec == Spec /\ WF_vars(elf_load) /\ \A p \in Proc : WF_vars(Step(p))
-----------------------------------------------------------------------------
\* Type correctness: in particular a program never uses a descriptor whose slot
\* is not filled yet, since every stream in use exists.
TypeOK ==
    /\ loaded \in 0..NPROC
    /\ \A p \in Proc : \A i \in Slot :
         {iostreams[p][i].input, iostreams[p][i].output} \subseteq DOMAIN streams \cup {Null}
    /\ \A i \in Irq : vector[i] => handlers[i] \in DOMAIN streams
    /\ \A s \in DOMAIN streams : Len(streams[s]) <= CAPACITY
    /\ \A p \in Proc :
         /\ ip[p] \in 1..Len(Code(p))
         /\ \A v \in DOMAIN var[p] : /\ var[p][v] \in Slot
                                     /\ iostreams[p][var[p][v]].output # Null
    /\ \A t \in Thread : {held[t], descr[t]} \subseteq DOMAIN streams \cup {Null}

\* Used slots are never behind a free one, even when two processes attach to
\* the same table at the same time: iostream_select stops at the first free
\* slot, and would never see a connection behind it.
NoGap ==
    \A p \in Proc : \A i, j \in Slot :
      i < j /\ iostreams[p][i].input = Null => iostreams[p][j].input = Null

\* A stream has one reading and one writing slot at most, whatever collisions
\* happen when slots are filled: the ring buffer works only for one reader and
\* one writer.
OneReaderOneWriter ==
    \A p, q \in Proc : \A i, j \in Slot :
      <<p, i>> # <<q, j>> =>
        /\ iostreams[p][i].input # Null => iostreams[p][i].input # iostreams[q][j].input
        /\ iostreams[p][i].output # Null => iostreams[p][i].output # iostreams[q][j].output

\* The connections that process p has been given a descriptor for.
Connections(p) == {k \in 1..Len(Code(p)) : Code(p)[k].op = "connect" /\ Code(p)[k].as \in DOMAIN var[p]}

\* "while((next = connect(TARGET)) == -1)" (token_common.h:12): if connect does
\* not answer -1, its answer is the caller's end of a connection whose other end
\* the target has.
ConnectedToTarget ==
    \A p \in Proc : \A k \in Connections(p) :
      LET mine == iostreams[p][var[p][Code(p)[k].as]]
      IN  /\ mine = [input |-> Made(p, k, "in"), output |-> Made(p, k, "out")]
          /\ \E q \in Proc, i \in Slot :
               /\ proc_get_by_name(Code(p)[k].name, q)
               /\ iostreams[q][i] = [input |-> mine.output, output |-> mine.input]

\* The tables are sound in every order of attaching.
TablesSound == TypeOK /\ NoGap /\ OneReaderOneWriter

Driver(p) == \E k \in 1..Len(Code(p)) : Code(p)[k].op = "handle"

Ended(p) == Arg(p).op = "end"

\* For each list of modules, the processes whose programs connect to program p.
ClientsIn ==
    [l \in Systems |-> [p \in Proc |->
      {q \in Proc : \E k \in DOMAIN l[q].code, j \in DOMAIN l[p].code :
         /\ l[q].code[k].op = "connect" /\ l[p].code[j].op = "register"
         /\ l[q].code[k].name = l[p].code[j].name}]]

Clients(p) == ClientsIn[modules][p]

Circles(p) == []<>(ip[p] = modules[p].loop) /\ []<>(ip[p] # modules[p].loop)

\* And the processes that p is connected with, directly or through others:
\* those it may have to wait for.
LinkedIn ==
    [l \in Systems |-> [p \in Proc |->
      LET Near(q) == ClientsIn[l][q] \cup {r \in Proc : q \in ClientsIn[l][r]}
          Closed(S) == \A q \in S : Near(q) \subseteq S
      IN  {q \in Proc : \A S \in SUBSET Proc : p \in S /\ Closed(S) => q \in S}]]

Linked(p) == LinkedIn[modules][p]

\* No interrupt that found its driver's stream full has hit one of them.
Spared(p) == \A q \in Proc : held[q] # Null => q \notin Linked(p)

\* Unless attaching to a table collides, or an interrupt that finds its driver's
\* stream full holds up a process that p is connected with, program p comes to
\* its end, or gets into its loop and goes round in it for ever, except for
\* drivers, who may have no interrupts to serve, and servers whose clients have
\* all ended.  This is so in whatever order the processes were started,
\* registered and connected: no message is overlooked by select, none is sent
\* the wrong way, and nobody waits for somebody who waits for him, although the
\* screen driver waits for 64 bytes from a client that sends 32 at a time.
Circulates ==
    []ConnectedToTarget =>
      \A p \in Proc :
        []Spared(p) =>
          \/ Driver(p) \/ <>Ended(p) \/ Circles(p)
          \/ Clients(p) # {} /\ <>(\A q \in Clients(p) : Ended(q))

\* Unless attaching collides, the stream of a driver does not stay full, so that
\* there is room again for a thread that waits in driver_irq_notify, as long as
\* no such thread is the driver or connected with it: the driver comes back to
\* read, although it writes to a client that has other things to do.
\* Where the interrupt hits the driver itself, or the program that the driver
\* waits for, both may wait for ever: that is the exception, and the only one.
InterruptTaken ==
    []ConnectedToTarget =>
      \A i \in Irq :
        LET Stuck == vector[i] /\ Full(handlers[i])
            DriverSpared == vector[i] => Spared(handlers[i][1])
        IN  []DriverSpared => (Stuck ~> ~Stuck)
=============================================================================
