--------------------------- MODULE SpinListProofs ---------------------------
(***************************************************************************)
(* The lists of src/kernel/list.c under the spin lock of src/kernel/locks.c *)
(* for every number of CPUs and of threads: the lock excludes, no element  *)
(* is lost, and the list implements module ThreadQueue.                    *)
(*                                                                         *)
(* The list and the free chain are pointers; the proof speaks of them as   *)
(* sequences L and F.  Links relates the two, ChainIs shows that following *)
(* the pointers gives the sequence, and the lemmas LinksLast, LinksTail    *)
(* and LinksFirst are what appending, unlinking and freeing do to it.      *)
(* Sound(L, F) is the inductive invariant.                                 *)
(***************************************************************************)
EXTENDS SpinList, FiniteSetTheorems, WellFoundedInduction, TLAPS
-----------------------------------------------------------------------------
(* The lock                                                                *)

PcOK ==
    pc \in [Cpu -> {"idle", "push_enter", "push_spin", "push_new", "push_link",
                    "push_size", "push_leave", "pop_enter", "pop_spin",
                    "pop_unlink", "pop_delete", "pop_size", "pop_leave"}]

LockInv == PcOK /\ MutualExclusion

\* A step inside the section, or outside it, leaves the lock as it is.
LEMMA SameSide ==
    ASSUME LockInv, NEW c \in Cpu, NEW at, pc' = [pc EXCEPT ![c] = at], lock' = lock,
           (pc[c] \in Locked) <=> (at \in Locked),
           PcOK'
    PROVE  LockInv'
  BY DEF LockInv, PcOK, MutualExclusion

\* Every step of list_push and list_pop keeps the lock word in accordance with
\* who is in the section.
LEMMA StepLockInv == LockInv /\ [Next]_vars => LockInv'
  <1> SUFFICES ASSUME LockInv, [Next]_vars PROVE LockInv'
    OBVIOUS
  <1> USE DEF list, elems, locals, Goto
  <1>1. ASSUME NEW c \in Cpu, NEW t \in Target, StartPush(c, t) PROVE LockInv'
    BY <1>1 DEF StartPush, LockInv, PcOK, MutualExclusion, Locked
  <1>2. ASSUME NEW c \in Cpu, StartPop(c) PROVE LockInv'
    BY <1>2 DEF StartPop, LockInv, PcOK, MutualExclusion, Locked
  <1>3. ASSUME NEW c \in Cpu, PushEnter(c) \/ PopEnter(c) PROVE LockInv'
    BY <1>3 DEF PushEnter, PopEnter, section_enter, LockInv, PcOK, MutualExclusion, Locked
  <1>4. ASSUME NEW c \in Cpu, PushSpin(c) \/ PopSpin(c) PROVE LockInv'
    <2>1. PICK at \in {"push_enter", "push_spin", "pop_enter", "pop_spin"} :
            pc' = [pc EXCEPT ![c] = at]
      BY <1>4 DEF PushSpin, PopSpin, section_spin
    <2>2. pc[c] \notin Locked /\ lock' = lock
      BY <1>4 DEF PushSpin, PopSpin, section_spin, Locked
    <2> QED
      BY <2>1, <2>2, SameSide DEF LockInv, PcOK, Locked
  <1>5. ASSUME NEW c \in Cpu,
               list_elem_new(c) \/ PushLink(c) \/ PushSize(c)
                 \/ PopUnlink(c) \/ list_elem_delete(c) \/ PopSize(c)
        PROVE  LockInv'
    <2>1. PICK at \in Locked : pc' = [pc EXCEPT ![c] = at]
      BY <1>5 DEF list_elem_new, PushLink, PushSize, PopUnlink, list_elem_delete, PopSize, Locked
    <2>2. pc[c] \in Locked /\ lock' = lock
      BY <1>5 DEF list_elem_new, PushLink, PushSize, PopUnlink, list_elem_delete, PopSize, Locked
    <2>3. PcOK'
      BY <2>1 DEF LockInv, PcOK, Locked
    <2> QED
      BY <2>1, <2>2, <2>3, SameSide
  <1>6. ASSUME NEW c \in Cpu, PushLeave(c) \/ PopLeave(c) PROVE LockInv'
    <2>1. pc[c] \in Locked /\ pc' = [pc EXCEPT ![c] = "idle"] /\ lock' = 0
      BY <1>6 DEF PushLeave, PopLeave, section_leave, Locked
    <2>2. \A d \in Cpu : pc'[d] \notin Locked
      BY <2>1 DEF LockInv, PcOK, MutualExclusion, Locked
    <2> QED
      BY <2>1, <2>2 DEF LockInv, PcOK, MutualExclusion
  <1>7. CASE UNCHANGED list_vars
    BY <1>7 DEF list_vars, LockInv, PcOK, MutualExclusion
  <1> QED
    BY <1>1, <1>2, <1>3, <1>4, <1>5, <1>6, <1>7 DEF Next, Start, Step, kmalloc_elsewhere, vars

\* At most one CPU is between section_enter and section_leave of a list, and
\* the lock word tells exactly whether one is.
THEOREM SpinLockExcludes == Spec => []MutualExclusion
  <1>1. Init => LockInv
    BY DEF Init, LockInv, PcOK, MutualExclusion, Locked
  <1>2. LockInv => MutualExclusion
    BY DEF LockInv
  <1> QED
    BY <1>1, <1>2, StepLockInv, PTL DEF Spec
-----------------------------------------------------------------------------
(* Following pointers                                                      *)

\* s is what following the pointers nx of n elements from e gives.
Links(nx, n, e, s) ==
    /\ s \in Seq(1..n)
    /\ e = IF s = <<>> THEN 0 ELSE s[1]
    /\ \A i \in 1..Len(s) : nx[s[i]] = IF i < Len(s) THEN s[i + 1] ELSE 0
    /\ \A i, j \in 1..Len(s) : s[i] = s[j] => i = j

Chained(e, s) == Links(next, Len(target), e, s)

\* A set of numbers has a smallest one.
LEMMA Smallest ==
    ASSUME NEW S, S \subseteq Nat, S # {}
    PROVE  \E x \in S : \A y \in S : x <= y
  <1> DEFINE R == OpToRel(<, Nat)
  <1>1. IsWellFoundedOn(R, Nat)
    BY NatLessThanWellFounded
  <1>2. \A x, y \in Nat : <<y, x>> \in R <=> y < x
    BY DEF OpToRel
  <1> HIDE DEF R
  <1>3. PICK x \in S : \A y \in S : ~(<<y, x>> \in R)
    BY <1>1, WFMin
  <1>4. \A y \in S : x <= y
    <2> SUFFICES ASSUME NEW y \in S PROVE x <= y
      OBVIOUS
    <2>1. x \in Nat /\ y \in Nat
      OBVIOUS
    <2>2. ~(y < x)
      BY <1>2, <1>3, <2>1, Zenon
    <2> QED
      BY <2>1, <2>2
  <1> QED
    BY <1>4

\* Chain finds that sequence.
LEMMA ChainIs ==
    ASSUME NEW e, NEW s, Chained(e, s), Len(target) \in Nat, Len(s) <= Len(target)
    PROVE  Chain(e) = s
  <1> DEFINE N == Len(target)
             walk[n \in 0..Len(target)] ==
               IF n = 0 THEN e ELSE IF walk[n - 1] = 0 THEN 0 ELSE next[walk[n - 1]]
             g == [n \in 0..Len(target) |-> IF n < Len(s) THEN s[n + 1] ELSE 0]
  <1>1. Chain(e) = [i \in 1..Cardinality({n \in 0..Len(target) : walk[n] # 0}) |-> walk[i - 1]]
    BY DEF Chain
  <1>0. s \in Seq(1..Len(target)) /\ Len(s) \in Nat /\ \A i \in 1..Len(s) : s[i] \in Nat \ {0}
    BY DEF Chained, Links
  <1>2. g = [n \in 0..Len(target) |-> IF n = 0 THEN e ELSE IF g[n - 1] = 0 THEN 0 ELSE next[g[n - 1]]]
    <2> SUFFICES ASSUME NEW n \in 0..Len(target)
                 PROVE  g[n] = IF n = 0 THEN e ELSE IF g[n - 1] = 0 THEN 0 ELSE next[g[n - 1]]
      OBVIOUS
    <2>1. CASE n = 0
      BY <2>1, <1>0 DEF Chained, Links
    <2>2. CASE n # 0
      <3>1. n - 1 \in 0..Len(target) /\ n \in Nat
        BY <2>2
      <3>2. CASE n - 1 < Len(s)
        BY <3>1, <3>2, <2>2, <1>0, SMTT(30) DEF Chained, Links
      <3>3. CASE ~(n - 1 < Len(s))
        BY <3>1, <3>3, <2>2, <1>0
      <3> QED
        BY <3>2, <3>3
    <2> QED
      BY <2>1, <2>2
  <1>3. walk = [n \in 0..Len(target) |-> IF n = 0 THEN e ELSE IF walk[n - 1] = 0 THEN 0 ELSE next[walk[n - 1]]]
    <2> HIDE DEF g
    <2> QED
      BY <1>2
  <1> HIDE DEF walk
  <1>4. \A n \in 0..Len(target) : walk[n] = g[n]
    <2> DEFINE S == {n \in 0..Len(target) : walk[n] # g[n]}
    <2> SUFFICES ASSUME S # {} PROVE FALSE
      OBVIOUS
    <2>1. PICK n \in S : \A y \in S : n <= y
      <3>1. S \subseteq Nat
        OBVIOUS
      <3> HIDE DEF S
      <3> QED
        BY <3>1, Smallest
    <2>2. n # 0
      BY <1>2, <1>3
    <2>3. n - 1 \in 0..Len(target) /\ n - 1 \notin S /\ n \in 0..Len(target)
      BY <2>1, <2>2
    <2>4. walk[n - 1] = g[n - 1]
      BY <2>3
    <2>5. g[n] = IF g[n - 1] = 0 THEN 0 ELSE next[g[n - 1]]
      BY <1>2, <2>2, <2>3
    <2>6. walk[n] = IF walk[n - 1] = 0 THEN 0 ELSE next[walk[n - 1]]
      BY <1>3, <2>2, <2>3
    <2> QED
      BY <2>1, <2>4, <2>5, <2>6
  <1>5. {n \in 0..Len(target) : walk[n] # 0} = 0..(Len(s) - 1)
    BY <1>0, <1>4
  <1>6. Cardinality(0..(Len(s) - 1)) = Len(s)
    <2>1. 0 \in Int /\ Len(s) - 1 \in Int
      BY <1>0
    <2>2. Cardinality(0..(Len(s) - 1)) = IF 0 > Len(s) - 1 THEN 0 ELSE Len(s) - 1 - 0 + 1
      BY <2>1, FS_Interval
    <2> QED
      BY <1>0, <2>2
  <1>7. Chain(e) = [i \in 1..Len(s) |-> walk[i - 1]]
    BY <1>1, <1>5, <1>6
  <1>8. \A i \in 1..Len(s) : walk[i - 1] = s[i]
    BY <1>0, <1>4
  <1> QED
    BY <1>0, <1>7, <1>8
-----------------------------------------------------------------------------
(* The inductive invariant, for a list L and a free chain F                *)

Hands == {"push_link", "pop_delete"}
Unlinked == \E c \in Cpu : pc[c] \in {"pop_delete", "pop_size"}
Handed == IF \E c \in Cpu : pc[c] \in Hands THEN 1 ELSE 0

\* Every element is in exactly one place.
Places(L, F) ==
    /\ Chained(head, L) /\ Chained(free, F)
    /\ \A i \in 1..Len(L) : \A j \in 1..Len(F) : L[i] # F[j]
    /\ \A c \in Cpu : pc[c] \in Hands =>
         /\ elem[c] \in Elem
         /\ \A i \in 1..Len(L) : L[i] # elem[c]
         /\ \A j \in 1..Len(F) : F[j] # elem[c]
    /\ \A x \in Elem : \/ \E i \in 1..Len(L) : L[i] = x
                       \/ \E j \in 1..Len(F) : F[j] = x
                       \/ \E c \in Cpu : pc[c] \in Hands /\ elem[c] = x
    /\ Len(L) + Len(F) + Handed = Len(target)
    /\ tail = IF L = <<>> THEN 0 ELSE L[Len(L)]

\* The size lags behind while an element is being linked or unlinked.
Counts(L) ==
    /\ size = Len(L) + (IF Unlinked THEN 1 ELSE 0) - (IF Unsized THEN 1 ELSE 0)
    /\ Unsized => L # <<>>
    /\ NoLeak

\* What the CPUs know of the object they are moving.
Knows(L) ==
    \A c \in Cpu :
      /\ Pushing(c) => arg[c] \in Target
      /\ pc[c] = "push_link" => next[elem[c]] = 0 /\ target[elem[c]] = arg[c]
      /\ pc[c] = "push_size" => target[L[Len(L)]] = arg[c]

\* The objects that are queued.
Queued(L) == 1..(Len(L) - IF Unsized THEN 1 ELSE 0)
QueueOf(L) == [i \in Queued(L) |-> target[L[i]]]

Has(c) == hold[c] \cup InTransit(c)

\* Every object is queued once, or in the hands of one CPU.
Owned(L) ==
    /\ \A i \in 1..Len(L) : target[L[i]] \in Target
    /\ \A i, j \in 1..Len(L) : target[L[i]] = target[L[j]] => i = j
    /\ \A c, d \in Cpu : c # d => Has(c) \cap Has(d) = {}
    /\ \A c \in Cpu : hold[c] \cap InTransit(c) = {}
    /\ \A c \in Cpu : \A i \in Queued(L) : target[L[i]] \notin Has(c)

Sound(L, F) == Places(L, F) /\ Counts(L) /\ Knows(L) /\ Owned(L)

IInv == FieldsOK /\ heap_lock \in {0, 1} /\ MutualExclusion /\ Sound(Chain(head), Chain(free))
-----------------------------------------------------------------------------
(* Linking and unlinking                                                   *)

\* Sequences: appending, ...
LEMMA AppendFacts ==
    ASSUME NEW S, NEW s \in Seq(S), NEW x \in S
    PROVE  /\ Append(s, x) \in Seq(S) /\ Append(s, x) # <<>>
           /\ Len(Append(s, x)) = Len(s) + 1 /\ Append(s, x)[Len(s) + 1] = x
           /\ \A i \in 1..Len(s) : Append(s, x)[i] = s[i]
  OBVIOUS

\* ... removing the first member, ...
LEMMA TailFacts ==
    ASSUME NEW S, NEW s \in Seq(S), s # <<>>
    PROVE  /\ Tail(s) \in Seq(S) /\ Len(s) \in Nat \ {0}
           /\ Len(Tail(s)) = Len(s) - 1
           /\ \A i \in 1..(Len(s) - 1) : Tail(s)[i] = s[i + 1]
  OBVIOUS

\* ... adding one in front, ...
LEMMA ConsFacts ==
    ASSUME NEW S, NEW s \in Seq(S), NEW x \in S
    PROVE  /\ <<x>> \o s \in Seq(S) /\ <<x>> \o s # <<>>
           /\ Len(<<x>> \o s) = Len(s) + 1 /\ (<<x>> \o s)[1] = x
           /\ \A i \in 1..Len(s) : (<<x>> \o s)[i + 1] = s[i]
  OBVIOUS

\* ... and replacing one.
LEMMA ExceptFacts ==
    ASSUME NEW S, NEW s \in Seq(S), NEW k \in 1..Len(s), NEW x \in S
    PROVE  /\ [s EXCEPT ![k] = x] \in Seq(S) /\ Len([s EXCEPT ![k] = x]) = Len(s)
           /\ [s EXCEPT ![k] = x][k] = x
           /\ \A i \in 1..Len(s) : i # k => [s EXCEPT ![k] = x][i] = s[i]
  OBVIOUS

\* Writing to other elements, or making more, does not matter.
LEMMA LinksOther ==
    ASSUME NEW nx, NEW n \in Nat, NEW e, NEW s, Links(nx, n, e, s),
           NEW u, NEW m \in Nat, n <= m, \A i \in 1..Len(s) : u[s[i]] = nx[s[i]]
    PROVE  Links(u, m, e, s)
  <1>1. s \in Seq(1..m)
    BY DEF Links
  <1> QED
    BY <1>1 DEF Links

\* The chain from the second element on.
LEMMA LinksTail ==
    ASSUME NEW nx, NEW n \in Nat, NEW e, NEW s, Links(nx, n, e, s), s # <<>>
    PROVE  Links(nx, n, nx[e], Tail(s)) /\ e = s[1]
  <1> DEFINE t == Tail(s)
  <1>1. /\ t \in Seq(1..n) /\ Len(s) \in Nat \ {0} /\ Len(t) = Len(s) - 1
        /\ \A i \in 1..(Len(s) - 1) : t[i] = s[i + 1]
    BY TailFacts DEF Links
  <1> HIDE DEF t
  <1>2. e = s[1] /\ nx[e] = IF t = <<>> THEN 0 ELSE t[1]
    <2>1. t = <<>> <=> Len(t) = 0
      BY <1>1
    <2> QED
      BY <1>1, <2>1 DEF Links
  <1>6. \A i \in 1..Len(t) : i + 1 \in 1..Len(s) /\ t[i] = s[i + 1]
    BY <1>1
  <1>3. \A i \in 1..Len(t) : nx[t[i]] = IF i < Len(t) THEN t[i + 1] ELSE 0
    <2> SUFFICES ASSUME NEW i \in 1..Len(t) PROVE nx[t[i]] = IF i < Len(t) THEN t[i + 1] ELSE 0
      OBVIOUS
    <2>1. nx[s[i + 1]] = IF i + 1 < Len(s) THEN s[i + 1 + 1] ELSE 0
      BY <1>6 DEF Links
    <2>2. i < Len(t) => i + 1 \in 1..Len(t)
      BY <1>1
    <2>3. i < Len(t) <=> i + 1 < Len(s)
      BY <1>1
    <2> QED
      BY <1>6, <2>1, <2>2, <2>3
  <1>4. \A i, j \in 1..Len(t) : t[i] = t[j] => i = j
    <2> SUFFICES ASSUME NEW i \in 1..Len(t), NEW j \in 1..Len(t), t[i] = t[j] PROVE i = j
      OBVIOUS
    <2>1. i + 1 = j + 1
      BY <1>6 DEF Links
    <2> QED
      BY <2>1
  <1>5. Links(nx, n, nx[e], t)
    BY <1>1, <1>2, <1>3, <1>4 DEF Links
  <1> QED
    BY <1>2, <1>5 DEF t

\* An element put in front of a chain, as list_elem_delete does.
LEMMA LinksFirst ==
    ASSUME NEW nx, NEW n \in Nat, NEW e, NEW s, Links(nx, n, e, s), nx \in Seq(Nat), Len(nx) = n,
           NEW x \in 1..n, \A i \in 1..Len(s) : s[i] # x,
           NEW u, u = [nx EXCEPT ![x] = e]
    PROVE  Links(u, n, x, <<x>> \o s)
  <1> DEFINE t == <<x>> \o s
  <1>1. /\ t \in Seq(1..n) /\ t # <<>> /\ Len(t) = Len(s) + 1 /\ t[1] = x
        /\ \A i \in 1..Len(s) : t[i + 1] = s[i]
    BY ConsFacts DEF Links
  <1>2. s \in Seq(1..n) /\ Len(s) \in Nat
    BY DEF Links
  <1> HIDE DEF t
  <1>3. u[x] = e /\ \A y \in 1..n : y # x => u[y] = nx[y]
    OBVIOUS
  <1>4. \A i \in 1..Len(t) : u[t[i]] = IF i < Len(t) THEN t[i + 1] ELSE 0
    <2> SUFFICES ASSUME NEW i \in 1..Len(t) PROVE u[t[i]] = IF i < Len(t) THEN t[i + 1] ELSE 0
      OBVIOUS
    <2>1. CASE i = 1
      <3>1. s = <<>> <=> Len(s) = 0
        BY <1>2
      <3> QED
        BY <1>1, <1>2, <1>3, <2>1, <3>1 DEF Links
    <2>2. CASE i # 1
      <3>1. i - 1 \in 1..Len(s) /\ (i - 1) + 1 = i
        BY <1>1, <1>2, <2>2
      <3>2. t[i] = s[i - 1]
        <4>1. t[(i - 1) + 1] = s[i - 1]
          BY <1>1, <3>1
        <4> QED
          BY <3>1, <4>1
      <3>3. s[i - 1] \in 1..n /\ s[i - 1] # x
        BY <1>2, <3>1
      <3>4. nx[s[i - 1]] = IF i - 1 < Len(s) THEN s[(i - 1) + 1] ELSE 0
        BY <3>1 DEF Links
      <3>5. i < Len(t) => i \in 1..Len(s) /\ i - 1 < Len(s)
        BY <1>1, <1>2, SMTT(30)
      <3>6. ~(i < Len(t)) => ~(i - 1 < Len(s))
        BY <1>1, <1>2
      <3> QED
        BY <1>1, <1>3, <3>1, <3>2, <3>3, <3>4, <3>5, <3>6, SMTT(30)
    <2> QED
      BY <2>1, <2>2
  <1>5. \A i, j \in 1..Len(t) : t[i] = t[j] => i = j
    <2>1. \A i \in 2..Len(t) : t[i] = s[i - 1] /\ i - 1 \in 1..Len(s) /\ t[i] # x
      <3> SUFFICES ASSUME NEW i \in 2..Len(t) PROVE t[i] = s[i - 1] /\ i - 1 \in 1..Len(s) /\ t[i] # x
        OBVIOUS
      <3>1. i - 1 \in 1..Len(s) /\ (i - 1) + 1 = i
        BY <1>1, <1>2
      <3>2. t[(i - 1) + 1] = s[i - 1]
        BY <1>1, <3>1
      <3> QED
        BY <3>1, <3>2
    <2> SUFFICES ASSUME NEW i \in 1..Len(t), NEW j \in 1..Len(t), t[i] = t[j] PROVE i = j
      OBVIOUS
    <2>2. CASE i = 1 \/ j = 1
      BY <1>1, <1>2, <2>1, <2>2
    <2>3. CASE i # 1 /\ j # 1
      <3>1. i \in 2..Len(t) /\ j \in 2..Len(t)
        BY <1>1, <1>2, <2>3
      <3>2. i - 1 = j - 1
        BY <2>1, <3>1 DEF Links
      <3> QED
        BY <3>2
    <2> QED
      BY <2>2, <2>3
  <1>6. Links(u, n, x, t)
    BY <1>1, <1>4, <1>5 DEF Links
  <1> QED
    BY <1>6 DEF t

\* An element put behind a chain, as list_push does.
LEMMA LinksLast ==
    ASSUME NEW nx, NEW n \in Nat, NEW e, NEW s, Links(nx, n, e, s), nx \in Seq(Nat), Len(nx) = n,
           NEW x \in 1..n, nx[x] = 0, \A i \in 1..Len(s) : s[i] # x,
           NEW u, u = IF s = <<>> THEN nx ELSE [nx EXCEPT ![s[Len(s)]] = x]
    PROVE  Links(u, n, IF s = <<>> THEN x ELSE e, Append(s, x))
  <1> DEFINE t == Append(s, x)
  <1>1. /\ t \in Seq(1..n) /\ t # <<>> /\ Len(t) = Len(s) + 1 /\ t[Len(s) + 1] = x
        /\ \A i \in 1..Len(s) : t[i] = s[i]
    <2>1. PICK S : S = 1..n
      OBVIOUS
    <2>2. s \in Seq(S) /\ x \in S
      BY <2>1 DEF Links
    <2>3. /\ t \in Seq(S) /\ t # <<>> /\ Len(t) = Len(s) + 1 /\ t[Len(s) + 1] = x
          /\ \A i \in 1..Len(s) : t[i] = s[i]
      BY <2>2, AppendFacts
    <2> QED
      BY <2>1, <2>3
  <1>2. s \in Seq(1..n) /\ Len(s) \in Nat /\ (s = <<>> <=> Len(s) = 0)
    BY DEF Links
  <1> HIDE DEF t
  <1>3. (IF s = <<>> THEN x ELSE e) = t[1]
    BY <1>1, <1>2 DEF Links
  <1>4. u[x] = 0
    BY <1>2
  <1>5. \A i \in 1..Len(s) : u[s[i]] = IF i < Len(s) THEN s[i + 1] ELSE x
    <2> SUFFICES ASSUME NEW i \in 1..Len(s) PROVE u[s[i]] = IF i < Len(s) THEN s[i + 1] ELSE x
      OBVIOUS
    <2>1. s # <<>> /\ s[i] \in 1..n /\ s[Len(s)] \in 1..n /\ (s[i] = s[Len(s)] <=> i = Len(s))
      BY <1>2, SMTT(30) DEF Links
    <2>2. u[s[i]] = IF s[i] = s[Len(s)] THEN x ELSE nx[s[i]]
      BY <2>1
    <2> QED
      BY <1>2, <2>1, <2>2 DEF Links
  <1>9. \A i \in 1..Len(t) : i \in 1..Len(s) \/ i = Len(s) + 1
    BY <1>1, <1>2
  <1>6. \A i \in 1..Len(t) : u[t[i]] = IF i < Len(t) THEN t[i + 1] ELSE 0
    <2> SUFFICES ASSUME NEW i \in 1..Len(t) PROVE u[t[i]] = IF i < Len(t) THEN t[i + 1] ELSE 0
      OBVIOUS
    <2>1. CASE i = Len(s) + 1
      BY <1>1, <1>2, <1>4, <2>1
    <2>2. CASE i \in 1..Len(s)
      <3>1. u[t[i]] = IF i < Len(s) THEN s[i + 1] ELSE x
        BY <1>1, <1>5, <2>2
      <3>2. i < Len(t)
        BY <1>1, <1>2, <2>2
      <3>3. CASE i < Len(s)
        <4>1. i + 1 \in 1..Len(s)
          BY <1>2, <2>2, <3>3
        <4>2. t[i + 1] = s[i + 1]
          BY <1>1, <4>1
        <4> QED
          BY <3>1, <3>2, <3>3, <4>2
      <3>4. CASE ~(i < Len(s))
        <4>1. i + 1 = Len(s) + 1
          BY <1>2, <2>2, <3>4
        <4>2. t[i + 1] = x
          BY <1>1, <4>1
        <4> QED
          BY <3>1, <3>2, <3>4, <4>2
      <3> QED
        BY <3>3, <3>4
    <2> QED
      BY <1>9, <2>1, <2>2
  <1>7. \A i, j \in 1..Len(t) : t[i] = t[j] => i = j
    <2> SUFFICES ASSUME NEW i \in 1..Len(t), NEW j \in 1..Len(t), t[i] = t[j] PROVE i = j
      OBVIOUS
    <2> QED
      BY <1>1, <1>9 DEF Links
  <1>8. Links(u, n, IF s = <<>> THEN x ELSE e, t)
    BY <1>1, <1>3, <1>6, <1>7 DEF Links
  <1> QED
    BY <1>8 DEF t
-----------------------------------------------------------------------------
(* The steps                                                               *)

\* The CPU in the section is alone in it.
LEMMA Alone ==
    ASSUME FieldsOK, MutualExclusion, NEW c \in Cpu, pc[c] \in Locked,
           NEW at \in Locked \cup {"idle"}, pc' = [pc EXCEPT ![c] = at]
    PROVE  /\ \A d \in Cpu : d # c => pc'[d] = pc[d] /\ pc[d] \notin Locked
           /\ pc'[c] = at
           /\ Unsized <=> pc[c] = "push_size"
           /\ Unsized' <=> at = "push_size"
           /\ Unlinked <=> pc[c] \in {"pop_delete", "pop_size"}
           /\ Unlinked' <=> at \in {"pop_delete", "pop_size"}
           /\ Handed = IF pc[c] \in Hands THEN 1 ELSE 0
           /\ Handed' = IF at \in Hands THEN 1 ELSE 0
  <1>1. \A d \in Cpu : d # c => pc'[d] = pc[d] /\ pc[d] \notin Locked
    BY DEF FieldsOK, MutualExclusion
  <1>2. pc'[c] = at
    BY DEF FieldsOK
  <1>3. (Unsized <=> pc[c] = "push_size") /\ (Unsized' <=> at = "push_size")
    BY <1>1, <1>2 DEF Unsized, Locked
  <1>4. /\ Unlinked <=> pc[c] \in {"pop_delete", "pop_size"}
        /\ Unlinked' <=> at \in {"pop_delete", "pop_size"}
    BY <1>1, <1>2 DEF Unlinked, Locked
  <1>5. /\ (\E d \in Cpu : pc[d] \in Hands) <=> pc[c] \in Hands
        /\ (\E d \in Cpu : pc'[d] \in Hands) <=> at \in Hands
    BY <1>1, <1>2 DEF Hands, Locked
  <1> QED
    BY <1>1, <1>2, <1>3, <1>4, <1>5 DEF Handed

\* What Places says of the sequences, in plain words.
LEMMA Basics ==
    ASSUME FieldsOK, NEW L, NEW F, Places(L, F)
    PROVE  /\ Len(target) \in Nat /\ next \in Seq(Nat) /\ Len(next) = Len(target)
           /\ L \in Seq(Elem) /\ Len(L) \in Nat /\ (L = <<>> <=> Len(L) = 0)
           /\ F \in Seq(Elem) /\ Len(F) \in Nat /\ (F = <<>> <=> Len(F) = 0)
           /\ \A i \in 1..Len(L) : L[i] \in Elem
           /\ \A j \in 1..Len(F) : F[j] \in Elem
           /\ Elem = 1..Len(target)
           /\ head = 0 <=> L = <<>>
           /\ free = 0 <=> F = <<>>
           /\ L # <<>> => head = L[1] /\ tail = L[Len(L)]
           /\ Len(L) <= Len(target) /\ Len(F) <= Len(target)
  <1>1. /\ Len(target) \in Nat /\ next \in Seq(Nat) /\ Len(next) = Len(target)
        /\ Elem = 1..Len(target)
    BY DEF FieldsOK, Elem
  <1>2. /\ L \in Seq(Elem) /\ Len(L) \in Nat /\ (L = <<>> <=> Len(L) = 0)
        /\ F \in Seq(Elem) /\ Len(F) \in Nat /\ (F = <<>> <=> Len(F) = 0)
    BY <1>1 DEF Places, Chained, Links
  <1>3. (\A i \in 1..Len(L) : L[i] \in Elem) /\ (\A j \in 1..Len(F) : F[j] \in Elem)
    BY <1>2
  <1>4. /\ head = 0 <=> L = <<>>
        /\ free = 0 <=> F = <<>>
        /\ L # <<>> => head = L[1] /\ tail = L[Len(L)]
    <2>1. head = (IF L = <<>> THEN 0 ELSE L[1]) /\ free = (IF F = <<>> THEN 0 ELSE F[1])
      BY DEF Places, Chained, Links
    <2>2. tail = IF L = <<>> THEN 0 ELSE L[Len(L)]
      BY DEF Places
    <2>3. L # <<>> => L[1] # 0
      BY <1>1, <1>2, <1>3
    <2>4. F # <<>> => F[1] # 0
      BY <1>1, <1>2, <1>3
    <2> QED
      BY <2>1, <2>2, <2>3, <2>4
  <1>5. Len(L) <= Len(target) /\ Len(F) <= Len(target)
    <2>1. Handed = 0 \/ Handed = 1
      BY DEF Handed
    <2>2. Len(L) + Len(F) + Handed = Len(target)
      BY DEF Places
    <2>3. Len(L) \in Nat /\ Len(F) \in Nat /\ Len(target) \in Nat
      BY <1>1, <1>2
    <2> QED
      BY <2>1, <2>2, <2>3
  <1> QED
    BY <1>1, <1>2, <1>3, <1>4, <1>5

\* A CPU whose variables stay has what it had.
LEMMA SameHas ==
    ASSUME NEW d \in Cpu, pc'[d] = pc[d], arg'[d] = arg[d], result'[d] = result[d], hold'[d] = hold[d]
    PROVE  Has(d)' = Has(d) /\ InTransit(d)' = InTransit(d) /\ Pushing(d)' = Pushing(d)
  BY DEF Has, InTransit, Pushing, Popped

\* The places where the list, the size and the elements do not agree.
Special == {"push_link", "push_size", "pop_delete", "pop_size"}

\* Steps that leave the list alone and neither begin nor end its being changed.
LEMMA OutsideStep ==
    ASSUME FieldsOK, NEW L, NEW F, Sound(L, F), NEW c \in Cpu, NEW at,
           pc' = [pc EXCEPT ![c] = at], pc[c] \notin Special, at \notin Special,
           UNCHANGED <<list, elems>>,
           \A d \in Cpu : d # c => /\ arg'[d] = arg[d] /\ elem'[d] = elem[d]
                                  /\ result'[d] = result[d] /\ hold'[d] = hold[d],
           Has(c)' = Has(c), (hold[c] \cap InTransit(c) = {})',
           Pushing(c)' => arg'[c] \in Target
    PROVE  Sound(L, F)' /\ QueueOf(L)' = QueueOf(L) /\ \A d \in Cpu : Has(d)' = Has(d)
  <1> USE DEF list, elems
  <1>1. \A d \in Cpu : d # c => pc'[d] = pc[d]
    BY DEF FieldsOK
  <1>2. pc'[c] = at
    BY DEF FieldsOK
  <1>3. Unsized' = Unsized
    BY <1>1, <1>2 DEF Unsized, Special
  <1>4. Unlinked' = Unlinked
    BY <1>1, <1>2 DEF Unlinked, Special
  <1>5. Handed' = Handed
    <2>1. (\E d \in Cpu : pc'[d] \in Hands) <=> (\E d \in Cpu : pc[d] \in Hands)
      BY <1>1, <1>2 DEF Hands, Special
    <2> QED
      BY <2>1 DEF Handed
  <1>6. \A d \in Cpu : pc'[d] \in Special => d # c /\ pc[d] = pc'[d] /\ elem'[d] = elem[d] /\ arg'[d] = arg[d]
    BY <1>1, <1>2
  <1>7. \A d \in Cpu : pc[d] \in Special => d # c /\ pc[d] = pc'[d] /\ elem'[d] = elem[d]
    BY <1>1, <1>2
  <1>8. Elem' = Elem
    BY DEF Elem
  <1>9. Places(L, F)'
    <2>1. Chained(head, L)' /\ Chained(free, F)'
      BY DEF Sound, Places, Chained
    <2>2. \A x \in Elem' : \/ \E i \in 1..Len(L) : L[i] = x
                           \/ \E j \in 1..Len(F) : F[j] = x
                           \/ \E d \in Cpu : pc'[d] \in Hands /\ elem'[d] = x
      BY <1>7, <1>8 DEF Sound, Places, Hands, Special
    <2>3. \A d \in Cpu : pc'[d] \in Hands =>
            /\ elem'[d] \in Elem'
            /\ \A i \in 1..Len(L) : L[i] # elem'[d]
            /\ \A j \in 1..Len(F) : F[j] # elem'[d]
      BY <1>6, <1>8 DEF Sound, Places, Hands, Special
    <2> QED
      BY <2>1, <2>2, <2>3, <1>5 DEF Sound, Places
  <1>10. Counts(L)'
    BY <1>3, <1>4 DEF Sound, Counts, NoLeak
  <1>11. Knows(L)'
    <2> SUFFICES ASSUME NEW d \in Cpu
                 PROVE  /\ Pushing(d)' => arg'[d] \in Target
                        /\ pc'[d] = "push_link" => next'[elem'[d]] = 0 /\ target'[elem'[d]] = arg'[d]
                        /\ pc'[d] = "push_size" => target'[L[Len(L)]] = arg'[d]
      BY DEF Knows
    <2>1. CASE d = c
      BY <2>1, <1>2 DEF Special
    <2>2. CASE d # c
      <3>1. Pushing(d)' = Pushing(d) /\ arg'[d] = arg[d] /\ pc'[d] = pc[d] /\ elem'[d] = elem[d]
        BY <1>1, <2>2 DEF Pushing
      <3> QED
        BY <3>1 DEF Sound, Knows
    <2> QED
      BY <2>1, <2>2
  <1>12. Owned(L)'
    <2>1. \A d \in Cpu : Has(d)' = Has(d)
      BY <1>1, SameHas
    <2>2. Queued(L)' = Queued(L)
      BY <1>3 DEF Queued
    <2>3. \A d \in Cpu : (hold[d] \cap InTransit(d))' = {}
      <3> SUFFICES ASSUME NEW d \in Cpu, d # c PROVE (hold[d] \cap InTransit(d))' = {}
        OBVIOUS
      <3>1. InTransit(d)' = InTransit(d) /\ hold'[d] = hold[d]
        BY <1>1, SameHas
      <3> QED
        BY <3>1 DEF Sound, Owned
    <2> HIDE DEF Has
    <2> QED
      BY <2>1, <2>2, <2>3 DEF Sound, Owned
  <1>13. QueueOf(L)' = QueueOf(L)
    BY <1>3 DEF QueueOf, Queued
  <1>14. \A d \in Cpu : Has(d)' = Has(d)
    BY <1>1, SameHas
  <1>15. Sound(L, F)'
    BY <1>9, <1>10, <1>11, <1>12 DEF Sound
  <1> QED
    BY <1>13, <1>14, <1>15

\* What a step of CPU c inside the section does to the objects: the other CPUs
\* keep theirs ...
OthersKeep(c) ==
    /\ \A d \in Cpu : d # c => Has(d)' = Has(d) /\ InTransit(d)' = InTransit(d) /\ hold'[d] = hold[d]
    /\ \A d, e \in Cpu : d # e => Has(d) \cap Has(e) = {}
    /\ \A d \in Cpu : hold[d] \cap InTransit(d) = {}

\* ... and c takes none of them.
TakesOwn(M, c) ==
    /\ \A i \in 1..Len(M) : target'[M[i]] \in Target
    /\ \A i, j \in 1..Len(M) : target'[M[i]] = target'[M[j]] => i = j
    /\ \A d \in Cpu : d # c => Has(c)' \cap Has(d) = {}
    /\ (hold[c] \cap InTransit(c))' = {}
    /\ \A d \in Cpu : \A i \in Queued(M)' : target'[M[i]] \notin Has(d)'

\* Then every object is still in one place.
LEMMA OwnedStep ==
    ASSUME NEW M, NEW c \in Cpu, OthersKeep(c), TakesOwn(M, c)
    PROVE  Owned(M)'
  <1> USE DEF OthersKeep, TakesOwn
  <1>1. \A d, e \in Cpu : d # e => Has(d)' \cap Has(e)' = {}
    <2> SUFFICES ASSUME NEW d \in Cpu, NEW e \in Cpu, d # e PROVE Has(d)' \cap Has(e)' = {}
      OBVIOUS
    <2>1. CASE d = c
      <3>1. Has(e)' = Has(e) /\ Has(c)' \cap Has(e) = {}
        BY <2>1
      <3> QED
        BY <2>1, <3>1
    <2>2. CASE e = c
      <3>1. Has(d)' = Has(d) /\ Has(c)' \cap Has(d) = {}
        BY <2>2
      <3> QED
        BY <2>2, <3>1
    <2>3. CASE d # c /\ e # c
      <3>1. Has(d)' = Has(d) /\ Has(e)' = Has(e) /\ Has(d) \cap Has(e) = {}
        BY <2>3
      <3> QED
        BY <3>1
    <2> QED
      BY <2>1, <2>2, <2>3
  <1>2. \A d \in Cpu : (hold[d] \cap InTransit(d))' = {}
    <2> SUFFICES ASSUME NEW d \in Cpu, d # c PROVE (hold[d] \cap InTransit(d))' = {}
      OBVIOUS
    <2>1. InTransit(d)' = InTransit(d) /\ hold'[d] = hold[d] /\ hold[d] \cap InTransit(d) = {}
      OBVIOUS
    <2> QED
      BY <2>1
  <1> HIDE DEF Has
  <1> QED
    BY <1>1, <1>2 DEF Owned

\* What Sound says when CPU c is in the section.
LEMMA InSection ==
    ASSUME FieldsOK, MutualExclusion, NEW L, NEW F, Sound(L, F), NEW c \in Cpu, pc[c] \in Locked,
           NEW at \in Locked \cup {"idle"}, pc' = [pc EXCEPT ![c] = at],
           \A d \in Cpu : d # c => arg'[d] = arg[d] /\ result'[d] = result[d] /\ hold'[d] = hold[d]
    PROVE  /\ \A d \in Cpu : d # c => Has(d)' = Has(d) /\ InTransit(d)' = InTransit(d) /\ hold'[d] = hold[d]
           /\ \A d, e \in Cpu : d # e => Has(d) \cap Has(e) = {}
           /\ \A d \in Cpu : hold[d] \cap InTransit(d) = {}
           /\ \A d \in Cpu : d # c => (Pushing(d)' => arg'[d] \in Target)
           /\ \A d \in Cpu : d # c => pc'[d] \notin Locked
           /\ Queued(L) = 1..(Len(L) - IF pc[c] = "push_size" THEN 1 ELSE 0)
           /\ \A M : Queued(M)' = 1..(Len(M) - IF at = "push_size" THEN 1 ELSE 0)
  <1>1. /\ \A d \in Cpu : d # c => pc'[d] = pc[d] /\ pc[d] \notin Locked
        /\ Unsized <=> pc[c] = "push_size"
        /\ Unsized' <=> at = "push_size"
    BY Alone
  <1>2. \A d \in Cpu : d # c => /\ Has(d)' = Has(d) /\ InTransit(d)' = InTransit(d)
                                /\ hold'[d] = hold[d] /\ Pushing(d)' = Pushing(d)
    BY <1>1, SameHas
  <1>3. /\ \A d, e \in Cpu : d # e => Has(d) \cap Has(e) = {}
        /\ \A d \in Cpu : hold[d] \cap InTransit(d) = {}
    BY DEF Sound, Owned
  <1>4. \A d \in Cpu : d # c => (Pushing(d)' => arg'[d] \in Target)
    BY <1>2 DEF Sound, Knows
  <1>5. /\ Queued(L) = 1..(Len(L) - IF pc[c] = "push_size" THEN 1 ELSE 0)
        /\ \A M : Queued(M)' = 1..(Len(M) - IF at = "push_size" THEN 1 ELSE 0)
    BY <1>1 DEF Queued
  <1> QED
    BY <1>1, <1>2, <1>3, <1>4, <1>5

\* list_push counts the element: only now the object is queued.
LEMMA PushSizeStep ==
    ASSUME FieldsOK, MutualExclusion, NEW L, NEW F, Sound(L, F), NEW c \in Cpu, PushSize(c)
    PROVE  /\ FieldsOK' /\ Sound(L, F)'
           /\ arg[c] \in Target /\ arg[c] \in Has(c) /\ QueueOf(L)' = Append(QueueOf(L), arg[c])
           /\ \A d \in Cpu : Has(d)' = IF d = c THEN Has(d) \ {arg[c]} ELSE Has(d)
  <1> USE DEF elems, locals, Goto
  <1>1. /\ pc[c] = "push_size" /\ pc[c] \in Locked /\ pc' = [pc EXCEPT ![c] = "push_leave"]
        /\ size' = size + 1 /\ UNCHANGED <<head, tail, free, lock, elems, arg, locals, hold>>
    BY DEF PushSize, Locked
  <1>2. "push_leave" \in Locked
    BY DEF Locked
  <1>3. Places(L, F)
    BY DEF Sound
  <1>4. /\ Len(target) \in Nat /\ Len(L) \in Nat /\ (L = <<>> <=> Len(L) = 0) /\ Elem = 1..Len(target)
        /\ \A i \in 1..Len(L) : L[i] \in Elem
    BY <1>3, Basics
  <1>5. /\ \A d \in Cpu : d # c => pc'[d] = pc[d] /\ pc[d] \notin Locked
        /\ pc'[c] = "push_leave" /\ Unsized /\ ~Unsized' /\ ~Unlinked /\ ~Unlinked'
        /\ Handed = 0 /\ Handed' = 0
    BY <1>1, <1>2, Alone DEF Hands
  <1>6. size = Len(L) - 1 /\ L # <<>> /\ NoLeak
    BY <1>4, <1>5 DEF Sound, Counts
  <1>7. FieldsOK'
    BY <1>1 DEF FieldsOK, Elem
  <1>8. Places(L, F)'
    <2>1. Chained(head, L)' /\ Chained(free, F)'
      BY <1>1, <1>3 DEF Places, Chained
    <2>2. \A d \in Cpu : pc[d] \notin Hands /\ pc'[d] \notin Hands
      BY <1>1, <1>5 DEF Hands, Locked
    <2> QED
      BY <1>1, <1>3, <1>5, <2>1, <2>2 DEF Places, Elem
  <1>9. Counts(L)'
    BY <1>1, <1>4, <1>5, <1>6 DEF Counts, NoLeak
  <1>10. /\ \A d \in Cpu : d # c => Has(d)' = Has(d) /\ InTransit(d)' = InTransit(d) /\ hold'[d] = hold[d]
         /\ \A d, e \in Cpu : d # e => Has(d) \cap Has(e) = {}
         /\ \A d \in Cpu : hold[d] \cap InTransit(d) = {}
         /\ \A d \in Cpu : d # c => (Pushing(d)' => arg'[d] \in Target)
         /\ \A d \in Cpu : d # c => pc'[d] \notin Locked
         /\ Queued(L) = 1..(Len(L) - 1) /\ Queued(L)' = 1..Len(L)
    <2>1. /\ Queued(L) = 1..(Len(L) - IF pc[c] = "push_size" THEN 1 ELSE 0)
          /\ Queued(L)' = 1..(Len(L) - IF "push_leave" = "push_size" THEN 1 ELSE 0)
      BY <1>1, <1>2, InSection
    <2>2. Queued(L) = 1..(Len(L) - 1) /\ Queued(L)' = 1..Len(L)
      BY <1>1, <1>4, <2>1
    <2> QED
      BY <1>1, <1>2, <2>2, InSection
  <1>11. Knows(L)'
    BY <1>5, <1>10 DEF Knows, Pushing, Locked
  <1>12. arg[c] \in Target /\ target[L[Len(L)]] = arg[c]
    BY <1>1 DEF Sound, Knows, Pushing
  <1>13. InTransit(c) = {arg[c]} /\ InTransit(c)' = {} /\ Has(c) = hold[c] \cup {arg[c]} /\ Has(c)' = hold[c]
    BY <1>1, <1>5 DEF InTransit, Has, Pushing, Popped
  <1>14. Owned(L)'
    <2>1. /\ \A i \in 1..Len(L) : target'[L[i]] \in Target
          /\ \A i, j \in 1..Len(L) : target'[L[i]] = target'[L[j]] => i = j
      BY <1>1 DEF Sound, Owned
    <2>2. \A d \in Cpu : d # c => Has(c)' \cap Has(d) = {}
      <3> SUFFICES ASSUME NEW d \in Cpu, d # c PROVE Has(c)' \cap Has(d) = {}
        OBVIOUS
      <3>1. Has(c) \cap Has(d) = {}
        BY <1>10
      <3> HIDE DEF Has
      <3> QED
        BY <1>13, <3>1
    <2>3. (hold[c] \cap InTransit(c))' = {}
      BY <1>13
    <2>4. \A d \in Cpu : \A i \in Queued(L)' : target'[L[i]] \notin Has(d)'
      <3> SUFFICES ASSUME NEW d \in Cpu, NEW i \in 1..Len(L) PROVE target[L[i]] \notin Has(d)'
        BY <1>1, <1>10
      <3>1. CASE i = Len(L)
        <4>1. target[L[i]] = arg[c]
          BY <1>12, <3>1
        <4>2. arg[c] \notin Has(c)'
          BY <1>10, <1>13
        <4>3. d # c => arg[c] \notin Has(d)'
          <5> SUFFICES ASSUME d # c PROVE arg[c] \notin Has(d)'
            OBVIOUS
          <5>1. Has(d)' = Has(d) /\ Has(c) \cap Has(d) = {}
            BY <1>10
          <5> HIDE DEF Has
          <5> QED
            BY <1>13, <5>1
        <4> QED
          BY <4>1, <4>2, <4>3
      <3>2. CASE i # Len(L)
        <4>1. i \in Queued(L)
          BY <1>4, <1>10, <3>2
        <4>2. target[L[i]] \notin Has(d) /\ target[L[i]] \notin Has(c)
          BY <4>1 DEF Sound, Owned
        <4>3. Has(d)' \subseteq Has(d) \cup Has(c)
          BY <1>10, <1>13
        <4> HIDE DEF Has
        <4> QED
          BY <4>2, <4>3
      <3> QED
        BY <3>1, <3>2
    <2> QED
      <3>1. OthersKeep(c)
        BY <1>10 DEF OthersKeep
      <3>2. TakesOwn(L, c)
        BY <2>1, <2>2, <2>3, <2>4 DEF TakesOwn
      <3> QED
        BY <3>1, <3>2, OwnedStep
  <1>15. Sound(L, F)'
    BY <1>8, <1>9, <1>11, <1>14 DEF Sound
  <1>16. QueueOf(L)' = Append(QueueOf(L), arg[c])
    <2>1. PICK q : q = QueueOf(L)
      OBVIOUS
    <2>2. \A i \in 1..Len(L) : target[L[i]] \in Target
      BY DEF Sound, Owned
    <2>3. q = [i \in 1..(Len(L) - 1) |-> target[L[i]]]
      BY <1>10, <2>1 DEF QueueOf
    <2>4. q \in Seq(Target) /\ Len(q) = Len(L) - 1
      BY <1>4, <1>6, <2>2, <2>3
    <2>5. PICK r : r = Append(q, arg[c])
      OBVIOUS
    <2>6. /\ r \in Seq(Target) /\ Len(r) = Len(q) + 1 /\ r[Len(q) + 1] = arg[c]
          /\ \A i \in 1..Len(q) : r[i] = q[i]
      BY <1>12, <2>4, <2>5, AppendFacts
    <2>7. \A i \in 1..Len(L) : r[i] = target[L[i]]
      <3> SUFFICES ASSUME NEW i \in 1..Len(L) PROVE r[i] = target[L[i]]
        OBVIOUS
      <3>1. CASE i = Len(L)
        BY <1>4, <1>12, <2>4, <2>6, <3>1
      <3>2. CASE i # Len(L)
        <4>1. i \in 1..(Len(L) - 1)
          BY <1>4, <3>2
        <4> QED
          BY <2>3, <2>4, <2>6, <4>1
      <3> QED
        BY <3>1, <3>2
    <2>8. Len(r) = Len(L)
      BY <1>4, <2>4, <2>6
    <2>9. r = [i \in 1..Len(L) |-> target[L[i]]]
      BY <2>6, <2>7, <2>8
    <2>10. QueueOf(L)' = [i \in 1..Len(L) |-> target[L[i]]]
      BY <1>1, <1>10 DEF QueueOf
    <2> QED
      BY <2>1, <2>5, <2>9, <2>10
  <1>17. \A d \in Cpu : Has(d)' = IF d = c THEN Has(d) \ {arg[c]} ELSE Has(d)
    <2>1. Has(c)' = Has(c) \ {arg[c]}
      BY <1>10, <1>13
    <2> QED
      BY <1>10, <2>1
  <1>18. arg[c] \in Has(c)
    BY <1>13
  <1> QED
    BY <1>7, <1>12, <1>15, <1>16, <1>17, <1>18

\* list_pop counts the element that it has unlinked.
LEMMA PopSizeStep ==
    ASSUME FieldsOK, MutualExclusion, NEW L, NEW F, Sound(L, F), NEW c \in Cpu, PopSize(c)
    PROVE  FieldsOK' /\ Sound(L, F)' /\ QueueOf(L)' = QueueOf(L) /\ \A d \in Cpu : Has(d)' = Has(d)
  <1> USE DEF elems, locals, Goto
  <1>1. /\ pc[c] = "pop_size" /\ pc[c] \in Locked /\ pc' = [pc EXCEPT ![c] = "pop_leave"]
        /\ size' = size - 1 /\ UNCHANGED <<head, tail, free, lock, elems, arg, locals, hold>>
    BY DEF PopSize, Locked
  <1>2. "pop_leave" \in Locked
    BY DEF Locked
  <1>3. Places(L, F)
    BY DEF Sound
  <1>4. Len(target) \in Nat /\ Len(L) \in Nat
    BY <1>3, Basics
  <1>5. /\ \A d \in Cpu : d # c => pc'[d] = pc[d] /\ pc[d] \notin Locked
        /\ pc'[c] = "pop_leave" /\ ~Unsized /\ ~Unsized' /\ Unlinked /\ ~Unlinked'
        /\ Handed = 0 /\ Handed' = 0
    BY <1>1, <1>2, Alone DEF Hands
  <1>6. size = Len(L) + 1 /\ NoLeak
    BY <1>4, <1>5 DEF Sound, Counts
  <1>7. FieldsOK'
    BY <1>1, <1>4, <1>6 DEF FieldsOK, Elem
  <1>8. Places(L, F)'
    <2>1. Chained(head, L)' /\ Chained(free, F)'
      BY <1>1, <1>3 DEF Places, Chained
    <2>2. \A d \in Cpu : pc[d] \notin Hands /\ pc'[d] \notin Hands
      BY <1>1, <1>5 DEF Hands, Locked
    <2> QED
      BY <1>1, <1>3, <1>5, <2>1, <2>2 DEF Places, Elem
  <1>9. Counts(L)'
    BY <1>1, <1>4, <1>5, <1>6 DEF Counts, NoLeak
  <1>10. \A d \in Cpu : Has(d)' = Has(d) /\ InTransit(d)' = InTransit(d) /\ (Pushing(d)' <=> Pushing(d))
    BY <1>1, <1>5 DEF Has, InTransit, Pushing, Popped
  <1>11. Knows(L)'
    <2>1. \A d \in Cpu : Pushing(d)' => arg'[d] \in Target
      BY <1>1, <1>10 DEF Sound, Knows
    <2>2. \A d \in Cpu : pc'[d] \notin {"push_link", "push_size"}
      BY <1>5 DEF Locked
    <2> QED
      BY <2>1, <2>2 DEF Knows
  <1>12. Queued(L)' = Queued(L)
    BY <1>5 DEF Queued
  <1>13. Owned(L)'
    <2> HIDE DEF Has
    <2> QED
      BY <1>1, <1>10, <1>12 DEF Sound, Owned
  <1>14. Sound(L, F)'
    BY <1>8, <1>9, <1>11, <1>13 DEF Sound
  <1>15. QueueOf(L)' = QueueOf(L)
    BY <1>1, <1>12 DEF QueueOf
  <1> QED
    BY <1>7, <1>10, <1>14, <1>15

\* The element a CPU has made becomes the last one of the list.
LEMMA PushLinkStep ==
    ASSUME FieldsOK, MutualExclusion, NEW L, NEW F, Sound(L, F), NEW c \in Cpu, PushLink(c),
           NEW M, M = Append(L, elem[c])
    PROVE  FieldsOK' /\ Sound(M, F)' /\ QueueOf(M)' = QueueOf(L) /\ \A d \in Cpu : Has(d)' = Has(d)
  <1> USE DEF elems, locals, Goto
  <1>1. /\ pc[c] = "push_link" /\ pc[c] \in Locked /\ pc' = [pc EXCEPT ![c] = "push_size"]
        /\ UNCHANGED <<size, free, lock, target, arg, locals, hold>> /\ tail' = elem[c]
        /\ IF tail = 0 THEN head' = elem[c] /\ next' = next
                       ELSE next' = [next EXCEPT ![tail] = elem[c]] /\ head' = head
    BY DEF PushLink, Locked
  <1>2. "push_size" \in Locked
    BY DEF Locked
  <1>3. Places(L, F)
    BY DEF Sound
  <1>4. /\ Len(target) \in Nat /\ next \in Seq(Nat) /\ Len(next) = Len(target)
        /\ L \in Seq(Elem) /\ Len(L) \in Nat /\ (L = <<>> <=> Len(L) = 0)
        /\ Len(F) \in Nat /\ \A j \in 1..Len(F) : F[j] \in Elem
        /\ \A i \in 1..Len(L) : L[i] \in Elem
        /\ Elem = 1..Len(target) /\ (head = 0 <=> L = <<>>)
        /\ L # <<>> => head = L[1] /\ tail = L[Len(L)]
    BY <1>3, Basics
  <1>5. /\ \A d \in Cpu : d # c => pc'[d] = pc[d] /\ pc[d] \notin Locked
        /\ pc'[c] = "push_size" /\ ~Unsized /\ Unsized' /\ ~Unlinked /\ ~Unlinked'
        /\ Handed = 1 /\ Handed' = 0
    BY <1>1, <1>2, Alone DEF Hands
  <1>6. PICK x : x = elem[c]
    OBVIOUS
  <1>7. /\ x \in Elem /\ (\A i \in 1..Len(L) : L[i] # x) /\ (\A j \in 1..Len(F) : F[j] # x)
        /\ next[x] = 0 /\ target[x] = arg[c] /\ arg[c] \in Target
    BY <1>1, <1>6 DEF Sound, Places, Knows, Hands, Pushing
  <1>8. M = Append(L, x)
    BY <1>6
  <1>9. /\ M \in Seq(Elem) /\ M # <<>> /\ Len(M) = Len(L) + 1 /\ M[Len(L) + 1] = x
        /\ \A i \in 1..Len(L) : M[i] = L[i]
    <2>1. L \in Seq(Elem) /\ x \in Elem
      BY <1>4, <1>7
    <2> QED
      BY <2>1, <1>8, AppendFacts
  <1>10. tail = 0 <=> L = <<>>
    <2>1. tail = IF L = <<>> THEN 0 ELSE L[Len(L)]
      BY <1>3 DEF Places
    <2>2. L # <<>> => L[Len(L)] # 0
      BY <1>4
    <2> QED
      BY <2>1, <2>2
  <1>11. next' = IF L = <<>> THEN next ELSE [next EXCEPT ![L[Len(L)]] = x]
    BY <1>1, <1>4, <1>6, <1>10
  <1>12. head' = IF L = <<>> THEN x ELSE head
    BY <1>1, <1>6, <1>10
  <1>13. Links(next', Len(target), head', M)
    <2>1. Links(next, Len(target), head, L)
      BY <1>3 DEF Places, Chained
    <2>2. Links(next', Len(target), IF L = <<>> THEN x ELSE head, Append(L, x))
      BY <2>1, <1>4, <1>7, <1>11, LinksLast
    <2> QED
      BY <2>2, <1>8, <1>12
  <1>14. Links(next', Len(target), free', F)
    <2>1. Links(next, Len(target), free, F)
      BY <1>3 DEF Places, Chained
    <2>2. \A j \in 1..Len(F) : next'[F[j]] = next[F[j]]
      <3> SUFFICES ASSUME NEW j \in 1..Len(F), L # <<>> PROVE [next EXCEPT ![L[Len(L)]] = x][F[j]] = next[F[j]]
        BY <1>11
      <3>1. F[j] \in 1..Len(next) /\ Len(L) \in 1..Len(L)
        BY <1>4
      <3>2. F[j] # L[Len(L)]
        BY <1>3, <3>1 DEF Places
      <3> QED
        BY <1>4, <3>1, <3>2
    <2> QED
      BY <2>1, <2>2, <1>1, <1>4, LinksOther
  <1>15. next' \in Seq(Elem \cup {0}) /\ Len(next') = Len(target)
    <2>1. next \in Seq(Elem \cup {0})
      BY DEF FieldsOK
    <2>2. L # <<>> => L[Len(L)] \in 1..Len(next)
      BY <1>4
    <2>3. x \in Elem \cup {0}
      BY <1>7
    <2>4. CASE L = <<>>
      BY <1>4, <1>11, <2>1, <2>4
    <2>5. CASE L # <<>>
      <3>1. next' = [next EXCEPT ![L[Len(L)]] = x]
        BY <1>11, <2>5
      <3>2. next' \in Seq(Elem \cup {0}) /\ Len(next') = Len(next)
        BY <2>1, <2>2, <2>3, <2>5, <3>1, ExceptFacts
      <3> QED
        BY <1>4, <3>2
    <2> QED
      BY <2>4, <2>5
  <1>16. FieldsOK'
    <2>1. Elem' = Elem
      BY <1>1 DEF Elem
    <2>2. head' \in Elem \cup {0} /\ tail' \in Elem \cup {0} /\ free' \in Elem \cup {0}
      BY <1>1, <1>6, <1>7, <1>12 DEF FieldsOK
    <2> QED
      BY <1>1, <1>4, <1>15, <2>1, <2>2 DEF FieldsOK
  <1>17. Places(M, F)'
    <2>1. Chained(head, M)' /\ Chained(free, F)'
      BY <1>1, <1>13, <1>14 DEF Chained
    <2>2. \A d \in Cpu : pc'[d] \notin Hands
      BY <1>5 DEF Hands, Locked
    <2>3. \A i \in 1..Len(M) : i = Len(L) + 1 \/ i \in 1..Len(L)
      BY <1>4, <1>9
    <2>4. \A i \in 1..Len(M) : \A j \in 1..Len(F) : M[i] # F[j]
      BY <1>3, <1>7, <1>9, <2>3 DEF Places
    <2>5. \A y \in Elem' : (\E i \in 1..Len(M) : M[i] = y) \/ (\E j \in 1..Len(F) : F[j] = y)
      <3> SUFFICES ASSUME NEW y \in Elem, ~\E j \in 1..Len(F) : F[j] = y PROVE \E i \in 1..Len(M) : M[i] = y
        BY <1>1 DEF Elem
      <3>1. CASE \E i \in 1..Len(L) : L[i] = y
        <4>1. PICK i \in 1..Len(L) : L[i] = y
          BY <3>1
        <4>2. i \in 1..Len(M) /\ M[i] = y
          BY <1>4, <1>9, <4>1
        <4> QED
          BY <4>2
      <3>2. CASE y = x
        <4>1. Len(L) + 1 \in 1..Len(M)
          BY <1>4, <1>9
        <4> QED
          BY <1>9, <3>2, <4>1
      <3>3. \A d \in Cpu : pc[d] \in Hands => d = c
        BY <1>5 DEF Hands, Locked
      <3> QED
        BY <1>3, <1>6, <3>1, <3>2, <3>3 DEF Places
    <2>6. Len(M) + Len(F) + Handed' = Len(target')
      BY <1>1, <1>3, <1>4, <1>5, <1>9 DEF Places
    <2>7. tail' = IF M = <<>> THEN 0 ELSE M[Len(M)]
      BY <1>1, <1>4, <1>6, <1>9
    <2> QED
      BY <2>1, <2>2, <2>4, <2>5, <2>6, <2>7 DEF Places
  <1>18. Counts(M)'
    <2>1. size = Len(L) /\ NoLeak
      BY <1>4, <1>5 DEF Sound, Counts
    <2> QED
      BY <1>1, <1>4, <1>5, <1>9, <2>1 DEF Counts, NoLeak
  <1>19. /\ \A d \in Cpu : d # c => Has(d)' = Has(d) /\ InTransit(d)' = InTransit(d) /\ hold'[d] = hold[d]
         /\ \A d, e \in Cpu : d # e => Has(d) \cap Has(e) = {}
         /\ \A d \in Cpu : hold[d] \cap InTransit(d) = {}
         /\ \A d \in Cpu : d # c => (Pushing(d)' => arg'[d] \in Target)
         /\ \A d \in Cpu : d # c => pc'[d] \notin Locked
         /\ Queued(L) = 1..Len(L) /\ Queued(M)' = 1..Len(L)
    <2>1. /\ Queued(L) = 1..(Len(L) - IF pc[c] = "push_size" THEN 1 ELSE 0)
          /\ Queued(M)' = 1..(Len(M) - IF "push_size" = "push_size" THEN 1 ELSE 0)
      BY <1>1, <1>2, InSection
    <2>2. Queued(L) = 1..Len(L) /\ Queued(M)' = 1..Len(L)
      BY <1>1, <1>4, <1>9, <2>1
    <2> QED
      BY <1>1, <1>2, <2>2, InSection
  <1>20. InTransit(c) = {arg[c]} /\ InTransit(c)' = {arg[c]} /\ Has(c)' = Has(c)
    BY <1>1, <1>5 DEF InTransit, Has, Pushing, Popped
  <1>21. Knows(M)'
    <2>1. target'[M[Len(M)]] = arg'[c]
      BY <1>1, <1>4, <1>7, <1>9
    <2>2. \A d \in Cpu : Pushing(d)' => arg'[d] \in Target
      BY <1>1, <1>7, <1>19
    <2>3. \A d \in Cpu : pc'[d] # "push_link" /\ (pc'[d] = "push_size" => d = c)
      BY <1>5 DEF Locked
    <2> QED
      BY <2>1, <2>2, <2>3 DEF Knows
  <1>22. Owned(M)'
    <2>0. \A i \in 1..Len(M) : i = Len(L) + 1 \/ i \in 1..Len(L)
      BY <1>4, <1>9
    <2>1. \A i \in 1..Len(L) : target[L[i]] \in Target /\ \A d \in Cpu : target[L[i]] \notin Has(d)
      BY <1>19 DEF Sound, Owned
    <2>2. arg[c] \in Has(c)
      BY <1>20 DEF Has
    <2>3. \A i \in 1..Len(M) : target'[M[i]] \in Target
      BY <1>1, <1>7, <1>9, <2>0, <2>1
    <2>4. \A i, j \in 1..Len(M) : target'[M[i]] = target'[M[j]] => i = j
      <3> SUFFICES ASSUME NEW i \in 1..Len(M), NEW j \in 1..Len(M), target[M[i]] = target[M[j]] PROVE i = j
        BY <1>1
      <3>1. \A k \in 1..Len(L) : target[M[k]] = target[L[k]] /\ target[L[k]] # arg[c]
        BY <1>9, <2>1, <2>2
      <3>2. target[M[Len(L) + 1]] = arg[c]
        BY <1>7, <1>9
      <3> QED
        BY <2>0, <3>1, <3>2 DEF Sound, Owned
    <2>5. \A d \in Cpu : d # c => Has(c)' \cap Has(d) = {}
      <3> HIDE DEF Has
      <3> QED
        BY <1>19, <1>20
    <2>6. (hold[c] \cap InTransit(c))' = {}
      BY <1>1, <1>19, <1>20
    <2>7. \A d \in Cpu : \A i \in Queued(M)' : target'[M[i]] \notin Has(d)'
      <3> SUFFICES ASSUME NEW d \in Cpu, NEW i \in 1..Len(L) PROVE target[L[i]] \notin Has(d)'
        BY <1>1, <1>9, <1>19
      <3>1. Has(d)' = Has(d)
        BY <1>19, <1>20
      <3> QED
        BY <2>1, <3>1
    <2> QED
      <3>1. OthersKeep(c)
        BY <1>19 DEF OthersKeep
      <3>2. TakesOwn(M, c)
        BY <2>3, <2>4, <2>5, <2>6, <2>7 DEF TakesOwn
      <3> QED
        BY <3>1, <3>2, OwnedStep
  <1>23. Sound(M, F)'
    BY <1>17, <1>18, <1>21, <1>22 DEF Sound
  <1>24. QueueOf(M)' = QueueOf(L)
    BY <1>1, <1>9, <1>19 DEF QueueOf
  <1>25. \A d \in Cpu : Has(d)' = Has(d)
    BY <1>19, <1>20
  <1> QED
    BY <1>16, <1>23, <1>24, <1>25

\* list_pop finds nothing.
LEMMA PopNothing ==
    ASSUME FieldsOK, NEW L, NEW F, Sound(L, F), NEW c \in Cpu, PopUnlink(c), head = 0
    PROVE  /\ FieldsOK' /\ Sound(L, F)' /\ L = <<>> /\ result' = [result EXCEPT ![c] = NoTarget]
           /\ QueueOf(L)' = QueueOf(L) /\ \A d \in Cpu : Has(d)' = Has(d)
  <1> USE DEF elems, locals, Goto, list
  <1>0. Places(L, F)
    BY DEF Sound
  <1>1. L = <<>>
    BY <1>0, Basics
  <1>2. tail = 0
    BY <1>0, <1>1 DEF Places
  <1>3. /\ pc[c] = "pop_unlink" /\ pc' = [pc EXCEPT ![c] = "pop_leave"]
        /\ UNCHANGED <<size, free, lock, elems, arg, hold>>
        /\ head' = 0 /\ tail' = 0
        /\ elem' = [elem EXCEPT ![c] = 0] /\ result' = [result EXCEPT ![c] = NoTarget]
    BY <1>2 DEF PopUnlink
  <1>4. FieldsOK'
    BY <1>3 DEF FieldsOK, Elem
  <1>5. pc'[c] = "pop_leave" /\ result'[c] = NoTarget
    BY <1>3 DEF FieldsOK
  <1>6. InTransit(c) = {} /\ InTransit(c)' = {} /\ ~Pushing(c)' /\ Has(c)' = Has(c)
    BY <1>3, <1>5 DEF InTransit, Pushing, Popped, Has
  <1>7. \A d \in Cpu : d # c => /\ arg'[d] = arg[d] /\ elem'[d] = elem[d]
                                /\ result'[d] = result[d] /\ hold'[d] = hold[d]
    BY <1>3 DEF FieldsOK
  <1>8. UNCHANGED <<list, elems>>
    BY <1>2, <1>3
  <1>9. pc[c] \notin Special /\ "pop_leave" \notin Special
    BY <1>3 DEF Special
  <1>10. Sound(L, F)' /\ QueueOf(L)' = QueueOf(L) /\ \A d \in Cpu : Has(d)' = Has(d)
    BY <1>3, <1>6, <1>7, <1>8, <1>9, OutsideStep
  <1> QED
    BY <1>1, <1>3, <1>4, <1>10

\* list_pop unlinks the first element.
LEMMA PopUnlinkStep ==
    ASSUME FieldsOK, MutualExclusion, NEW L, NEW F, Sound(L, F), NEW c \in Cpu, PopUnlink(c), head # 0,
           NEW M, M = Tail(L)
    PROVE  /\ FieldsOK' /\ Sound(M, F)'
           /\ QueueOf(L) # <<>> /\ QueueOf(M)' = Tail(QueueOf(L))
           /\ result' = [result EXCEPT ![c] = Head(QueueOf(L))]
           /\ \A d \in Cpu : Has(d)' = IF d = c THEN Has(d) \cup {Head(QueueOf(L))} ELSE Has(d)
  <1> USE DEF elems, locals, Goto
  <1>1. /\ pc[c] = "pop_unlink" /\ pc[c] \in Locked /\ pc' = [pc EXCEPT ![c] = "pop_delete"]
        /\ UNCHANGED <<size, free, lock, elems, arg, hold>>
        /\ elem' = [elem EXCEPT ![c] = head] /\ result' = [result EXCEPT ![c] = target[head]]
        /\ IF head = tail THEN head' = 0 /\ tail' = 0 ELSE head' = next[head] /\ tail' = tail
    BY DEF PopUnlink, Locked
  <1>2. "pop_delete" \in Locked
    BY DEF Locked
  <1>3. Places(L, F)
    BY DEF Sound
  <1>4. /\ Len(target) \in Nat /\ next \in Seq(Nat) /\ Len(next) = Len(target)
        /\ L \in Seq(Elem) /\ Len(L) \in Nat \ {0} /\ L # <<>>
        /\ Len(F) \in Nat /\ \A j \in 1..Len(F) : F[j] \in Elem
        /\ \A i \in 1..Len(L) : L[i] \in Elem
        /\ Elem = 1..Len(target)
        /\ head = L[1] /\ tail = L[Len(L)]
    BY <1>3, Basics
  <1>5. /\ \A d \in Cpu : d # c => pc'[d] = pc[d] /\ pc[d] \notin Locked
        /\ pc'[c] = "pop_delete" /\ ~Unsized /\ ~Unsized' /\ ~Unlinked /\ Unlinked'
        /\ Handed = 0 /\ Handed' = 1
    BY <1>1, <1>2, Alone DEF Hands
  <1>6. /\ M \in Seq(Elem) /\ Len(M) = Len(L) - 1 /\ Len(M) \in Nat /\ (M = <<>> <=> Len(M) = 0)
        /\ \A i \in 1..(Len(L) - 1) : M[i] = L[i + 1]
    <2>1. L \in Seq(Elem) /\ L # <<>>
      BY <1>4
    <2>2. /\ M \in Seq(Elem) /\ Len(M) = Len(L) - 1
          /\ \A i \in 1..(Len(L) - 1) : M[i] = L[i + 1]
      BY <2>1, TailFacts
    <2> QED
      BY <2>2
  <1>7. \A i \in 1..Len(M) : i + 1 \in 1..Len(L) /\ M[i] = L[i + 1]
    BY <1>4, <1>6
  <1>8. \A i, j \in 1..Len(L) : L[i] = L[j] => i = j
    BY <1>3 DEF Places, Chained, Links
  <1>9. head = tail <=> Len(L) = 1
    <2>1. 1 \in 1..Len(L) /\ Len(L) \in 1..Len(L)
      BY <1>4
    <2> QED
      BY <1>4, <1>8, <2>1
  <1>10. Links(next, Len(target), next[head], M)
    <2>1. Links(next, Len(target), head, L)
      BY <1>3 DEF Places, Chained
    <2> QED
      BY <2>1, <1>4, LinksTail
  <1>11. head' = next[head]
    <2>1. ASSUME head = tail PROVE M = <<>>
      <3>1. Len(L) = 1
        BY <1>9, <2>1
      <3>2. Len(M) = 0
        BY <1>6, <3>1
      <3> QED
        BY <1>6, <3>2
    <2>2. M = <<>> => next[head] = 0
      BY <1>10 DEF Links
    <2> QED
      BY <1>1, <2>1, <2>2
  <1>12. tail' = IF M = <<>> THEN 0 ELSE M[Len(M)]
    <2>1. CASE Len(L) = 1
      BY <1>1, <1>6, <1>9, <2>1
    <2>2. CASE Len(L) # 1
      <3>1. Len(M) # 0 /\ Len(M) + 1 = Len(L)
        BY <1>4, <1>6, <2>2
      <3>3. Len(M) \in 1..Len(M) /\ M # <<>>
        BY <1>6, <3>1
      <3>2. M[Len(M)] = L[Len(M) + 1]
        BY <1>7, <3>3
      <3> QED
        BY <1>1, <1>4, <1>9, <2>2, <3>1, <3>2, <3>3
    <2> QED
      BY <2>1, <2>2
  <1>13. elem'[c] = L[1] /\ result'[c] = target[L[1]] /\ L[1] \in Elem /\ 1 \in 1..Len(L)
    BY <1>1, <1>4 DEF FieldsOK
  <1>14. \A i \in 1..Len(M) : M[i] # L[1]
    <2> SUFFICES ASSUME NEW i \in 1..Len(M), M[i] = L[1] PROVE FALSE
      OBVIOUS
    <2>1. i + 1 = 1
      BY <1>7, <1>8, <1>13
    <2> QED
      BY <2>1
  <1>15. /\ \A i \in 1..Len(L) : target[L[i]] \in Target
         /\ \A i, j \in 1..Len(L) : target[L[i]] = target[L[j]] => i = j
    BY DEF Sound, Owned
  <1>16. FieldsOK'
    <2>1. Elem' = Elem
      BY <1>1 DEF Elem
    <2>2. head' \in Elem \cup {0} /\ tail' \in Elem \cup {0}
      <3>1. M # <<>> => M[Len(M)] \in Elem
        BY <1>6
      <3>2. head' = IF M = <<>> THEN 0 ELSE M[1]
        BY <1>10, <1>11 DEF Links
      <3>3. M # <<>> => M[1] \in Elem
        BY <1>6
      <3> QED
        BY <1>12, <3>1, <3>2, <3>3
    <2>3. elem' \in [Cpu -> Elem \cup {0}] /\ result' \in [Cpu -> Target \cup {NoTarget}]
      BY <1>1, <1>4, <1>13, <1>15 DEF FieldsOK
    <2>4. pc' \in [Cpu -> {"idle", "push_enter", "push_spin", "push_new", "push_link",
                           "push_size", "push_leave", "pop_enter", "pop_spin",
                           "pop_unlink", "pop_delete", "pop_size", "pop_leave"}]
      BY <1>1 DEF FieldsOK
    <2> QED
      BY <1>1, <2>1, <2>2, <2>3, <2>4 DEF FieldsOK
  <1>17. Places(M, F)'
    <2>1. Chained(head, M)' /\ Chained(free, F)'
      BY <1>1, <1>3, <1>10, <1>11 DEF Chained, Places
    <2>2. \A d \in Cpu : pc'[d] \in Hands => d = c
      BY <1>5 DEF Hands, Locked
    <2>3. \A i \in 1..Len(M) : \A j \in 1..Len(F) : M[i] # F[j]
      BY <1>3, <1>7 DEF Places
    <2>4. \A j \in 1..Len(F) : F[j] # L[1]
      BY <1>3, <1>13 DEF Places
    <2>5. \A y \in Elem' : \/ \E i \in 1..Len(M) : M[i] = y
                           \/ \E j \in 1..Len(F) : F[j] = y
                           \/ \E d \in Cpu : pc'[d] \in Hands /\ elem'[d] = y
      <3> SUFFICES ASSUME NEW y \in Elem, ~\E j \in 1..Len(F) : F[j] = y
                   PROVE  (\E i \in 1..Len(M) : M[i] = y) \/ L[1] = y
        BY <1>1, <1>5, <1>13 DEF Elem, Hands
      <3>1. \A d \in Cpu : pc[d] \notin Hands
        BY <1>1, <1>5 DEF Hands, Locked
      <3>2. PICK i \in 1..Len(L) : L[i] = y
        BY <1>3, <3>1 DEF Places
      <3>3. CASE i = 1
        BY <3>2, <3>3
      <3>4. CASE i # 1
        <4>1. i - 1 \in 1..Len(M) /\ (i - 1) + 1 = i
          BY <1>4, <1>6, <3>4
        <4>2. M[i - 1] = L[(i - 1) + 1]
          BY <1>7, <4>1
        <4> QED
          BY <3>2, <4>1, <4>2
      <3> QED
        BY <3>3, <3>4
    <2>6. Len(M) + Len(F) + Handed' = Len(target')
      BY <1>1, <1>3, <1>4, <1>5, <1>6 DEF Places
    <2>7. Elem' = Elem
      BY <1>1 DEF Elem
    <2> QED
      BY <1>12, <1>13, <1>14, <2>1, <2>2, <2>3, <2>4, <2>5, <2>6, <2>7 DEF Places
  <1>18. Counts(M)'
    <2>1. size = Len(L) /\ NoLeak
      BY <1>4, <1>5 DEF Sound, Counts
    <2> QED
      BY <1>1, <1>4, <1>5, <1>6, <2>1 DEF Counts, NoLeak
  <1>19. /\ \A d \in Cpu : d # c => Has(d)' = Has(d) /\ InTransit(d)' = InTransit(d) /\ hold'[d] = hold[d]
         /\ \A d, e \in Cpu : d # e => Has(d) \cap Has(e) = {}
         /\ \A d \in Cpu : hold[d] \cap InTransit(d) = {}
         /\ \A d \in Cpu : d # c => (Pushing(d)' => arg'[d] \in Target)
         /\ \A d \in Cpu : d # c => pc'[d] \notin Locked
         /\ Queued(L) = 1..Len(L) /\ Queued(M)' = 1..Len(M)
    <2>0. \A d \in Cpu : d # c => arg'[d] = arg[d] /\ result'[d] = result[d] /\ hold'[d] = hold[d]
      BY <1>1 DEF FieldsOK
    <2>2. Queued(L) = 1..Len(L) /\ Queued(M)' = 1..Len(M)
      BY <1>4, <1>5, <1>6 DEF Queued
    <2> QED
      BY <1>1, <1>2, <2>0, <2>2, InSection
  <1>20. /\ InTransit(c) = {} /\ InTransit(c)' = {target[L[1]]}
         /\ Has(c) = hold[c] /\ Has(c)' = Has(c) \cup {target[L[1]]} /\ ~Pushing(c)'
    <2>1. target[L[1]] # NoTarget
      BY <1>13, <1>15, SpinListAssumption
    <2> QED
      BY <1>1, <1>5, <1>13, <2>1 DEF InTransit, Has, Pushing, Popped
  <1>21. Knows(M)'
    <2>2. \A d \in Cpu : Pushing(d)' => arg'[d] \in Target
      BY <1>19, <1>20
    <2>3. \A d \in Cpu : pc'[d] # "push_link" /\ pc'[d] # "push_size"
      BY <1>5 DEF Locked
    <2> QED
      BY <2>2, <2>3 DEF Knows
  <1>22. Owned(M)'
    <2>1. \A i \in 1..Len(L) : \A d \in Cpu : target[L[i]] \notin Has(d)
      BY <1>19 DEF Sound, Owned
    <2>3. \A i \in 1..Len(M) : target'[M[i]] \in Target
      BY <1>1, <1>7, <1>15
    <2>4. \A i, j \in 1..Len(M) : target'[M[i]] = target'[M[j]] => i = j
      <3> SUFFICES ASSUME NEW i \in 1..Len(M), NEW j \in 1..Len(M), target[M[i]] = target[M[j]] PROVE i = j
        BY <1>1
      <3>1. i + 1 = j + 1
        BY <1>7, <1>15, SMTT(30)
      <3> QED
        BY <3>1
    <2>5. \A d \in Cpu : d # c => Has(c)' \cap Has(d) = {}
      <3> SUFFICES ASSUME NEW d \in Cpu, d # c PROVE Has(c)' \cap Has(d) = {}
        OBVIOUS
      <3>1. Has(c) \cap Has(d) = {} /\ target[L[1]] \notin Has(d)
        BY <1>13, <1>19, <2>1
      <3> QED
        BY <1>20, <3>1
    <2>6. (hold[c] \cap InTransit(c))' = {}
      BY <1>1, <1>13, <1>20, <2>1
    <2>7. \A d \in Cpu : \A i \in Queued(M)' : target'[M[i]] \notin Has(d)'
      <3> SUFFICES ASSUME NEW d \in Cpu, NEW i \in 1..Len(M) PROVE target[M[i]] \notin Has(d)'
        BY <1>1, <1>19
      <3>1. target[M[i]] \notin Has(d)
        BY <1>7, <2>1
      <3>2. target[M[i]] # target[L[1]]
        <4>1. i + 1 # 1
          OBVIOUS
        <4> QED
          BY <1>7, <1>13, <1>15, <4>1
      <3>3. Has(d)' \subseteq Has(d) \cup {target[L[1]]}
        BY <1>19, <1>20
      <3> QED
        BY <3>1, <3>2, <3>3
    <2> QED
      <3>1. OthersKeep(c)
        BY <1>19 DEF OthersKeep
      <3>2. TakesOwn(M, c)
        BY <2>3, <2>4, <2>5, <2>6, <2>7 DEF TakesOwn
      <3> QED
        BY <3>1, <3>2, OwnedStep
  <1>23. Sound(M, F)'
    BY <1>17, <1>18, <1>21, <1>22 DEF Sound
  <1>24. PICK q : q = QueueOf(L)
    OBVIOUS
  <1>25. q \in Seq(Target) /\ Len(q) = Len(L) /\ \A i \in 1..Len(L) : q[i] = target[L[i]]
    BY <1>4, <1>15, <1>19, <1>24 DEF QueueOf
  <1>26. q # <<>> /\ Head(q) = target[L[1]]
    <2>1. q \in Seq(Target) /\ Len(q) # 0 /\ q[1] = target[L[1]]
      BY <1>4, <1>13, <1>25
    <2>2. q # <<>>
      BY <2>1
    <2>3. Head(q) = q[1]
      BY <2>1, <2>2
    <2> QED
      BY <2>1, <2>2, <2>3
  <1>27. QueueOf(M)' = Tail(q)
    <2>1. q \in Seq(Target) /\ q # <<>>
      BY <1>25, <1>26
    <2>2. PICK r : r = Tail(q)
      OBVIOUS
    <2>3. r \in Seq(Target) /\ Len(r) = Len(q) - 1 /\ \A i \in 1..(Len(q) - 1) : r[i] = q[i + 1]
      BY <2>1, <2>2, TailFacts
    <2>4. QueueOf(M)' = [i \in 1..Len(M) |-> target[M[i]]]
      BY <1>1, <1>19 DEF QueueOf
    <2>5. Len(r) = Len(M) /\ \A i \in 1..Len(M) : r[i] = target[M[i]]
      BY <1>6, <1>7, <1>25, <2>3
    <2>6. r = [i \in 1..Len(r) |-> r[i]]
      BY <2>3
    <2> QED
      BY <2>2, <2>4, <2>5, <2>6
  <1>28. result' = [result EXCEPT ![c] = Head(q)]
    BY <1>1, <1>4, <1>26
  <1>29. \A d \in Cpu : Has(d)' = IF d = c THEN Has(d) \cup {Head(q)} ELSE Has(d)
    BY <1>19, <1>20, <1>26
  <1> QED
    BY <1>16, <1>23, <1>24, <1>26, <1>27, <1>28, <1>29

\* Steps of CPU c that change elements outside the list, and nothing that a CPU has.
LEMMA OwnedSame ==
    ASSUME NEW L, Owned(L), ~Unsized, ~Unsized',
           \A d \in Cpu : Has(d)' = Has(d) /\ InTransit(d)' = InTransit(d) /\ hold'[d] = hold[d],
           \A i \in 1..Len(L) : target'[L[i]] = target[L[i]]
    PROVE  Owned(L)'
  <1>1. Queued(L)' = 1..(Len(L) - 0) /\ Queued(L) = 1..(Len(L) - 0)
    BY DEF Queued
  <1>2. /\ \A i \in 1..Len(L) : target'[L[i]] \in Target
        /\ \A i, j \in 1..Len(L) : target'[L[i]] = target'[L[j]] => i = j
    BY DEF Owned
  <1>3. \A d, e \in Cpu : d # e => Has(d)' \cap Has(e)' = {}
    <2> SUFFICES ASSUME NEW d \in Cpu, NEW e \in Cpu, d # e PROVE Has(d)' \cap Has(e)' = {}
      OBVIOUS
    <2>1. Has(d)' = Has(d) /\ Has(e)' = Has(e) /\ Has(d) \cap Has(e) = {}
      BY DEF Owned
    <2> QED
      BY <2>1
  <1>4. \A d \in Cpu : (hold[d] \cap InTransit(d))' = {}
    <2> SUFFICES ASSUME NEW d \in Cpu PROVE (hold[d] \cap InTransit(d))' = {}
      OBVIOUS
    <2>1. InTransit(d)' = InTransit(d) /\ hold'[d] = hold[d] /\ hold[d] \cap InTransit(d) = {}
      BY DEF Owned
    <2> QED
      BY <2>1
  <1>5. \A d \in Cpu : \A i \in Queued(L)' : target'[L[i]] \notin Has(d)'
    <2> SUFFICES ASSUME NEW d \in Cpu, NEW i \in Queued(L)' PROVE target'[L[i]] \notin Has(d)'
      OBVIOUS
    <2>1. i \in Queued(L) /\ Has(d)' = Has(d)
      BY <1>1
    <2>2. target[L[i]] \notin Has(d)
      BY <2>1 DEF Owned
    <2>3. target'[L[i]] = target[L[i]] \/ i \notin 1..Len(L)
      OBVIOUS
    <2>4. i \in 1..(Len(L) - 0) => i \in 1..Len(L)
      BY SMT
    <2> QED
      BY <1>1, <2>1, <2>2, <2>3, <2>4
  <1> QED
    BY <1>2, <1>3, <1>4, <1>5 DEF Owned

\* list_elem_delete puts the element in front of the free chain.
LEMMA DeleteStep ==
    ASSUME FieldsOK, MutualExclusion, NEW L, NEW F, Sound(L, F), NEW c \in Cpu, list_elem_delete(c),
           NEW G, G = <<elem[c]>> \o F
    PROVE  FieldsOK' /\ Sound(L, G)' /\ QueueOf(L)' = QueueOf(L) /\ \A d \in Cpu : Has(d)' = Has(d)
  <1> USE DEF elems, locals, Goto
  <1>1. /\ pc[c] = "pop_delete" /\ pc[c] \in Locked /\ pc' = [pc EXCEPT ![c] = "pop_size"]
        /\ UNCHANGED <<size, head, tail, lock, arg, locals, hold>>
        /\ next' = [next EXCEPT ![elem[c]] = free]
        /\ target' = [target EXCEPT ![elem[c]] = NoTarget]
        /\ free' = elem[c]
    BY DEF list_elem_delete, Locked
  <1>2. "pop_size" \in Locked
    BY DEF Locked
  <1>3. Places(L, F)
    BY DEF Sound
  <1>4. /\ Len(target) \in Nat /\ next \in Seq(Nat) /\ Len(next) = Len(target)
        /\ F \in Seq(Elem) /\ Len(F) \in Nat
        /\ Len(L) \in Nat /\ \A i \in 1..Len(L) : L[i] \in Elem
        /\ Elem = 1..Len(target)
    BY <1>3, Basics
  <1>5. /\ \A d \in Cpu : d # c => pc'[d] = pc[d] /\ pc[d] \notin Locked
        /\ pc'[c] = "pop_size" /\ ~Unsized /\ ~Unsized' /\ Unlinked /\ Unlinked'
        /\ Handed = 1 /\ Handed' = 0
    BY <1>1, <1>2, Alone DEF Hands
  <1>6. PICK x : x = elem[c]
    OBVIOUS
  <1>7. x \in Elem /\ (\A i \in 1..Len(L) : L[i] # x) /\ (\A j \in 1..Len(F) : F[j] # x)
    BY <1>1, <1>3, <1>6 DEF Places, Hands
  <1>8. /\ G \in Seq(Elem) /\ Len(G) = Len(F) + 1 /\ G[1] = x
        /\ \A j \in 1..Len(F) : G[j + 1] = F[j]
    <2>1. F \in Seq(Elem) /\ x \in Elem /\ G = <<x>> \o F
      BY <1>4, <1>6, <1>7
    <2> QED
      BY <2>1, ConsFacts
  <1>9. next' = [next EXCEPT ![x] = free] /\ target' = [target EXCEPT ![x] = NoTarget] /\ free' = x
    BY <1>1, <1>6
  <1>10. /\ next' \in Seq(Elem \cup {0}) /\ Len(next') = Len(target)
         /\ \A i \in 1..Len(target) : i # x => next'[i] = next[i]
    <2>1. next \in Seq(Elem \cup {0}) /\ free \in Elem \cup {0} /\ x \in 1..Len(next)
      BY <1>4, <1>7 DEF FieldsOK
    <2> QED
      BY <1>4, <1>9, <2>1, ExceptFacts
  <1>11. /\ target' \in Seq(Target \cup {NoTarget}) /\ Len(target') = Len(target)
         /\ \A i \in 1..Len(target) : i # x => target'[i] = target[i]
    <2>1. target \in Seq(Target \cup {NoTarget}) /\ NoTarget \in Target \cup {NoTarget} /\ x \in 1..Len(target)
      BY <1>4, <1>7 DEF FieldsOK
    <2> QED
      BY <1>9, <2>1, ExceptFacts
  <1>12. Elem' = Elem
    BY <1>11 DEF Elem
  <1>13. FieldsOK'
    BY <1>1, <1>6, <1>7, <1>10, <1>11, <1>12 DEF FieldsOK
  <1>14. Links(next', Len(target), free', G)
    <2>1. Links(next, Len(target), free, F)
      BY <1>3 DEF Places, Chained
    <2>2. Links(next', Len(target), x, <<x>> \o F)
      BY <2>1, <1>4, <1>7, <1>9, LinksFirst
    <2> QED
      BY <2>2, <1>6, <1>9
  <1>15. Links(next', Len(target), head', L)
    <2>1. Links(next, Len(target), head, L)
      BY <1>3 DEF Places, Chained
    <2>2. \A i \in 1..Len(L) : next'[L[i]] = next[L[i]]
      BY <1>4, <1>7, <1>10
    <2> QED
      <3>1. Len(target) \in Nat /\ Len(target) <= Len(target)
        BY <1>4
      <3>2. Links(next', Len(target), head, L)
        BY <2>1, <2>2, <3>1, LinksOther
      <3> QED
        BY <1>1, <3>2
  <1>16. Places(L, G)'
    <2>1. Chained(head, L)' /\ Chained(free, G)'
      BY <1>11, <1>14, <1>15 DEF Chained
    <2>2. \A d \in Cpu : pc'[d] \notin Hands /\ (pc[d] \in Hands => d = c)
      BY <1>5 DEF Hands, Locked
    <2>3. \A i \in 1..Len(L) : \A j \in 1..Len(G) : L[i] # G[j]
      <3> SUFFICES ASSUME NEW i \in 1..Len(L), NEW j \in 1..Len(G) PROVE L[i] # G[j]
        OBVIOUS
      <3>1. CASE j = 1
        BY <1>7, <1>8, <3>1
      <3>2. CASE j # 1
        <4>1. j - 1 \in 1..Len(F) /\ (j - 1) + 1 = j
          BY <1>4, <1>8, <3>2
        <4>2. G[(j - 1) + 1] = F[j - 1]
          BY <1>8, <4>1
        <4>3. L[i] # F[j - 1]
          BY <1>3, <4>1 DEF Places
        <4> QED
          BY <4>1, <4>2, <4>3
      <3> QED
        BY <3>1, <3>2
    <2>5. \A y \in Elem' : (\E i \in 1..Len(L) : L[i] = y) \/ (\E j \in 1..Len(G) : G[j] = y)
      <3> SUFFICES ASSUME NEW y \in Elem, ~\E i \in 1..Len(L) : L[i] = y PROVE \E j \in 1..Len(G) : G[j] = y
        BY <1>12
      <3>1. CASE y = x
        <4>1. 1 \in 1..Len(G)
          BY <1>4, <1>8
        <4> QED
          BY <1>8, <3>1, <4>1
      <3>2. CASE \E j \in 1..Len(F) : F[j] = y
        <4>1. PICK j \in 1..Len(F) : F[j] = y
          BY <3>2
        <4>2. j + 1 \in 1..Len(G) /\ G[j + 1] = y
          BY <1>4, <1>8, <4>1
        <4> QED
          BY <4>2
      <3> QED
        BY <1>3, <1>6, <2>2, <3>1, <3>2 DEF Places
    <2>6. Len(L) + Len(G) + Handed' = Len(target')
      BY <1>3, <1>4, <1>5, <1>8, <1>11 DEF Places
    <2>7. tail' = IF L = <<>> THEN 0 ELSE L[Len(L)]
      BY <1>1, <1>3 DEF Places
    <2> QED
      BY <2>1, <2>2, <2>3, <2>5, <2>6, <2>7 DEF Places
  <1>17. Counts(L)'
    BY <1>1, <1>5, <1>11 DEF Sound, Counts, NoLeak
  <1>18. \A d \in Cpu : Has(d)' = Has(d) /\ InTransit(d)' = InTransit(d) /\ (Pushing(d)' <=> Pushing(d))
    BY <1>1, <1>5 DEF Has, InTransit, Pushing, Popped
  <1>19. Knows(L)'
    <2>1. \A d \in Cpu : Pushing(d)' => arg'[d] \in Target
      BY <1>1, <1>18 DEF Sound, Knows
    <2>2. \A d \in Cpu : pc'[d] \notin {"push_link", "push_size"}
      BY <1>5 DEF Locked
    <2> QED
      BY <2>1, <2>2 DEF Knows
  <1>20. Owned(L)'
    <2>1. \A i \in 1..Len(L) : target'[L[i]] = target[L[i]]
      BY <1>4, <1>7, <1>11
    <2>2. Owned(L) /\ ~Unsized /\ ~Unsized'
      BY <1>5 DEF Sound
    <2>3. \A d \in Cpu : Has(d)' = Has(d) /\ InTransit(d)' = InTransit(d) /\ hold'[d] = hold[d]
      BY <1>1, <1>18
    <2> QED
      BY <2>1, <2>2, <2>3, OwnedSame
  <1>21. Sound(L, G)'
    BY <1>16, <1>17, <1>19, <1>20 DEF Sound
  <1>22. QueueOf(L)' = QueueOf(L)
    <2>1. \A i \in 1..Len(L) : target'[L[i]] = target[L[i]]
      BY <1>4, <1>7, <1>11
    <2>2. Queued(L)' = 1..Len(L) /\ Queued(L) = 1..Len(L)
      BY <1>4, <1>5 DEF Queued
    <2> QED
      BY <2>1, <2>2 DEF QueueOf
  <1> QED
    BY <1>13, <1>18, <1>21, <1>22

\* The list has at most as many elements as there are objects it does not hold back.
LEMMA RoomForOne ==
    ASSUME NEW L, NEW F, FieldsOK, Sound(L, F), ~Unsized, NEW c \in Cpu, NEW t \in Has(c), t \in Target
    PROVE  Len(L) + 1 <= Cardinality(Target)
  <1> DEFINE T == Target \ {t}
             f == [i \in 1..Len(L) |-> target[L[i]]]
  <1>1. Len(L) \in Nat
    <2>1. Places(L, F)
      BY DEF Sound
    <2> QED
      BY <2>1, Basics
  <1>2. /\ \A i \in 1..Len(L) : target[L[i]] \in Target /\ target[L[i]] # t
        /\ \A i, j \in 1..Len(L) : target[L[i]] = target[L[j]] => i = j
    <2>1. Queued(L) = 1..Len(L)
      BY <1>1 DEF Queued
    <2> QED
      BY <2>1 DEF Sound, Owned
  <1>3. f \in [1..Len(L) -> T] /\ \A i, j \in 1..Len(L) : f[i] = f[j] => i = j
    BY <1>2
  <1>4. IsFiniteSet(T) /\ Cardinality(T) = Cardinality(Target) - 1
    BY SpinListAssumption, FS_RemoveElement
  <1>5. Cardinality(T) \in Nat /\ Cardinality(Target) \in Nat
    BY <1>4, SpinListAssumption, FS_CardinalityType
  <1>6. IsFiniteSet(1..Len(L)) /\ Cardinality(1..Len(L)) = Len(L)
    <2>1. 1 \in Int /\ Len(L) \in Int
      BY <1>1
    <2>2. IsFiniteSet(1..Len(L)) /\ Cardinality(1..Len(L)) = IF 1 > Len(L) THEN 0 ELSE Len(L) - 1 + 1
      BY <2>1, FS_Interval
    <2> QED
      BY <1>1, <2>2
  <1> HIDE DEF f, T
  <1>7. ~(Cardinality(T) < Cardinality(1..Len(L)))
    BY <1>3, <1>4, <1>6, FS_PigeonHole
  <1> QED
    BY <1>1, <1>4, <1>5, <1>6, <1>7

\* What list_elem_new leaves: the list L, free chain G and an element x of its own.
Taken(L, G, c, x) ==
    /\ elem' = [elem EXCEPT ![c] = x] /\ x \in Elem'
    /\ Len(target) <= Len(target') /\ NoLeak'
    /\ target' \in Seq(Target \cup {NoTarget}) /\ target'[x] = arg[c]
    /\ next' \in Seq(Elem' \cup {0}) /\ Len(next') = Len(target') /\ next'[x] = 0
    /\ free' \in Elem' \cup {0}
    /\ \A y \in Elem : y # x => target'[y] = target[y] /\ next'[y] = next[y]
    /\ \A i \in 1..Len(L) : L[i] # x
    /\ \A j \in 1..Len(G) : G[j] # x
    /\ \A i \in 1..Len(L) : \A j \in 1..Len(G) : L[i] # G[j]
    /\ \A y \in Elem' : \/ y = x
                        \/ \E i \in 1..Len(L) : L[i] = y
                        \/ \E j \in 1..Len(G) : G[j] = y
    /\ Len(L) + Len(G) + 1 = Len(target')
    /\ Links(next', Len(target'), free', G)

\* It takes the first free element ...
LEMMA Reuse ==
    ASSUME FieldsOK, MutualExclusion, NEW L, NEW F, Sound(L, F), NEW c \in Cpu, list_elem_new(c), free # 0,
           NEW G, G = Tail(F), NEW x, x = free
    PROVE  Taken(L, G, c, x)
  <1>1. /\ pc[c] = "push_new" /\ pc[c] \in Locked /\ elem' = [elem EXCEPT ![c] = free] /\ free' = next[free]
        /\ target' = [target EXCEPT ![free] = arg[c]] /\ next' = [next EXCEPT ![free] = 0]
        /\ pc' = [pc EXCEPT ![c] = "push_link"]
    BY DEF list_elem_new, Locked, Goto
  <1>3. Places(L, F) /\ NoLeak
    BY DEF Sound, Counts
  <1>4. /\ Len(target) \in Nat /\ next \in Seq(Nat) /\ Len(next) = Len(target)
        /\ F \in Seq(Elem) /\ Len(F) \in Nat /\ F # <<>> /\ (F = <<>> <=> Len(F) = 0)
        /\ \A j \in 1..Len(F) : F[j] \in Elem
        /\ Len(L) \in Nat /\ \A i \in 1..Len(L) : L[i] \in Elem
        /\ Elem = 1..Len(target)
    BY <1>3, Basics
  <1>5. Links(next, Len(target), free, F)
    BY <1>3 DEF Places, Chained
  <1>6. Links(next, Len(target), next[free], G) /\ free = F[1]
    BY <1>4, <1>5, LinksTail
  <1>7. \A i, j \in 1..Len(F) : F[i] = F[j] => i = j
    BY <1>5 DEF Links
  <1>8. /\ Len(G) = Len(F) - 1 /\ Len(G) \in Nat
        /\ \A j \in 1..(Len(F) - 1) : G[j] = F[j + 1]
    <2>1. F \in Seq(Elem) /\ F # <<>>
      BY <1>4
    <2> QED
      BY <2>1, TailFacts
  <1>9. \A j \in 1..Len(G) : j + 1 \in 1..Len(F) /\ G[j] = F[j + 1]
    BY <1>4, <1>8
  <1>10. x = free
    OBVIOUS
  <1>11. x \in Elem /\ x = F[1] /\ 1 \in 1..Len(F)
    BY <1>4, <1>6, <1>10
  <1>12. /\ target' \in Seq(Target \cup {NoTarget}) /\ Len(target') = Len(target) /\ target'[x] = arg[c]
         /\ \A i \in 1..Len(target) : i # x => target'[i] = target[i]
    <2>1. target \in Seq(Target \cup {NoTarget}) /\ arg[c] \in Target \cup {NoTarget} /\ x \in 1..Len(target)
      BY <1>4, <1>11 DEF FieldsOK
    <2>2. target' = [target EXCEPT ![x] = arg[c]]
      BY <1>1, <1>10
    <2> QED
      BY <2>1, <2>2, ExceptFacts
  <1>13. Elem' = Elem
    BY <1>12 DEF Elem
  <1>14. /\ next' \in Seq(Elem \cup {0}) /\ Len(next') = Len(next) /\ next'[x] = 0
         /\ \A i \in 1..Len(next) : i # x => next'[i] = next[i]
    <2>1. next \in Seq(Elem \cup {0}) /\ 0 \in Elem \cup {0} /\ x \in 1..Len(next)
      BY <1>4, <1>11 DEF FieldsOK
    <2>2. next' = [next EXCEPT ![x] = 0]
      BY <1>1, <1>10
    <2> QED
      BY <2>1, <2>2, ExceptFacts
  <1>15. \A j \in 1..Len(G) : G[j] # x /\ G[j] \in Elem
    <2> SUFFICES ASSUME NEW j \in 1..Len(G) PROVE G[j] # x /\ G[j] \in Elem
      OBVIOUS
    <2>1. j + 1 # 1
      OBVIOUS
    <2> QED
      BY <1>4, <1>7, <1>9, <1>11, <2>1
  <1>16. free' \in Elem \cup {0}
    <2>1. next \in Seq(Elem \cup {0}) /\ free \in 1..Len(next)
      BY <1>4, <1>10, <1>11 DEF FieldsOK
    <2> QED
      BY <1>1, <2>1
  <1>17. Links(next', Len(target), free', G)
    <2>1. \A j \in 1..Len(G) : next'[G[j]] = next[G[j]]
      BY <1>4, <1>14, <1>15
    <2>2. Len(target) \in Nat /\ Len(target) <= Len(target)
      BY <1>4
    <2>3. Links(next', Len(target), next[free], G)
      BY <1>6, <2>1, <2>2, LinksOther
    <2> QED
      BY <1>1, <2>3
  <1>18. Len(L) + Len(G) + 1 = Len(target)
    <2>1. Handed = 0
      <3>1. "push_link" \in Locked \cup {"idle"}
        BY DEF Locked
      <3>2. Handed = IF pc[c] \in Hands THEN 1 ELSE 0
        BY <1>1, <3>1, Alone
      <3> QED
        BY <1>1, <3>2 DEF Hands
    <2> QED
      BY <1>3, <1>4, <1>8, <2>1 DEF Places
  <1>19. /\ \A i \in 1..Len(L) : L[i] # x
         /\ \A i \in 1..Len(L) : \A j \in 1..Len(G) : L[i] # G[j]
    BY <1>3, <1>9, <1>11 DEF Places
  <1>20. ASSUME NEW y \in Elem, y # x, ~\E i \in 1..Len(L) : L[i] = y
         PROVE  \E j \in 1..Len(G) : G[j] = y
    <2>1. \A d \in Cpu : pc[d] \notin Hands
      <3>1. \A d \in Cpu : pc[d] \in Locked => d = c
        BY <1>1 DEF MutualExclusion
      <3> QED
        BY <1>1, <3>1 DEF Hands, Locked
    <2>2. PICK j \in 1..Len(F) : F[j] = y
      BY <1>3, <1>20, <2>1 DEF Places
    <2>3. j - 1 \in 1..Len(G) /\ (j - 1) + 1 = j
      <3>1. j # 1
        BY <1>11, <1>20, <2>2
      <3> QED
        BY <1>4, <1>8, <3>1
    <2>4. G[j - 1] = F[(j - 1) + 1]
      BY <1>9, <2>3
    <2> QED
      BY <2>2, <2>3, <2>4
  <1>21. elem' = [elem EXCEPT ![c] = x]
    BY <1>1, <1>10
  <1>22. Len(target') = Len(target) /\ Len(next') = Len(target') /\ NoLeak'
    BY <1>3, <1>4, <1>12, <1>14 DEF NoLeak
  <1>23. \A y \in Elem : y # x => target'[y] = target[y] /\ next'[y] = next[y]
    BY <1>4, <1>12, <1>14
  <1> QED
    <2>1. Len(target) <= Len(target')
      BY <1>4, <1>22
    <2>2. Links(next', Len(target'), free', G)
      BY <1>17, <1>22
    <2>3. Len(L) + Len(G) + 1 = Len(target')
      BY <1>18, <1>22
    <2> QED
      BY <2>1, <2>2, <2>3, <1>11, <1>12, <1>13, <1>14, <1>15, <1>16, <1>19, <1>20, <1>21, <1>22, <1>23 DEF Taken

\* ... or, when there is none, a new one.
LEMMA Fresh ==
    ASSUME FieldsOK, MutualExclusion, NEW L, NEW F, Sound(L, F), NEW c \in Cpu, list_elem_new(c), free = 0,
           NEW x, x = Len(target) + 1
    PROVE  Taken(L, F, c, x)
  <1>1. /\ pc[c] = "push_new" /\ pc[c] \in Locked /\ elem' = [elem EXCEPT ![c] = x] /\ free' = free
        /\ target' = Append(target, arg[c]) /\ next' = Append(next, 0)
        /\ pc' = [pc EXCEPT ![c] = "push_link"]
    BY DEF list_elem_new, Locked, Goto
  <1>3. Places(L, F)
    BY DEF Sound
  <1>4. /\ Len(target) \in Nat /\ Len(next) = Len(target)
        /\ F = <<>> /\ Len(F) = 0
        /\ Len(L) \in Nat /\ \A i \in 1..Len(L) : L[i] \in Elem
        /\ Elem = 1..Len(target)
    BY <1>3, Basics
  <1>5. /\ target' \in Seq(Target \cup {NoTarget}) /\ Len(target') = Len(target) + 1
        /\ target'[x] = arg[c] /\ \A i \in 1..Len(target) : target'[i] = target[i]
    <2>1. target \in Seq(Target \cup {NoTarget}) /\ arg[c] \in Target \cup {NoTarget}
      BY DEF FieldsOK
    <2> QED
      BY <1>1, <2>1, AppendFacts
  <1>6. Elem' = Elem \cup {x}
    BY <1>4, <1>5 DEF Elem
  <1>7. /\ next' \in Seq(Elem' \cup {0}) /\ Len(next') = Len(next) + 1
        /\ next'[x] = 0 /\ \A i \in 1..Len(next) : next'[i] = next[i]
    <2>1. next \in Seq(Elem \cup {0})
      BY DEF FieldsOK
    <2>2. next \in Seq(Elem' \cup {0}) /\ 0 \in Elem' \cup {0}
      BY <1>6, <2>1
    <2>3. next' = Append(next, 0)
      BY <1>1
    <2>4. PICK S : S = Elem' \cup {0}
      OBVIOUS
    <2>5. next' \in Seq(S) /\ Len(next') = Len(next) + 1
          /\ next'[Len(next) + 1] = 0 /\ \A i \in 1..Len(next) : next'[i] = next[i]
      BY <2>2, <2>3, <2>4, AppendFacts
    <2> QED
      BY <1>4, <2>4, <2>5
  <1>8. \A i \in 1..Len(L) : L[i] # x
    BY <1>4
  <1>9. \A d \in Cpu : pc[d] \notin Hands
    <2>1. \A d \in Cpu : pc[d] \in Locked => d = c
      BY <1>1 DEF MutualExclusion
    <2> QED
      BY <1>1, <2>1 DEF Hands, Locked
  <1>10. Len(L) = Len(target)
    <2>1. Handed = 0
      BY <1>9 DEF Handed
    <2> QED
      BY <1>3, <1>4, <2>1 DEF Places
  <1>11. \A y \in Elem : \E i \in 1..Len(L) : L[i] = y
    BY <1>3, <1>4, <1>9 DEF Places
  <1>12. NoLeak'
    <2>1. ~Unsized
      <3>1. \A d \in Cpu : pc[d] \in Locked => d = c
        BY <1>1 DEF MutualExclusion
      <3> QED
        BY <1>1, <3>1 DEF Unsized, Locked
    <2>2. arg[c] \in Target /\ arg[c] \in Has(c)
      BY <1>1 DEF Sound, Knows, Pushing, Has, InTransit
    <2>3. Len(L) + 1 <= Cardinality(Target)
      BY <2>1, <2>2, RoomForOne
    <2> QED
      BY <1>5, <1>10, <2>3 DEF NoLeak
  <1>13. Links(next', Len(target'), free', F)
    BY <1>1, <1>4, <1>5 DEF Links
  <1>14. \A y \in Elem : y # x => target'[y] = target[y] /\ next'[y] = next[y]
    BY <1>4, <1>5, <1>7
  <1>15. /\ Len(target) <= Len(target') /\ Len(next') = Len(target') /\ Len(L) + Len(F) + 1 = Len(target')
         /\ x \in Elem' /\ free' \in Elem' \cup {0}
    BY <1>1, <1>4, <1>5, <1>6, <1>7, <1>10
  <1>16. (\A j \in 1..Len(F) : F[j] # x) /\ \A i \in 1..Len(L) : \A j \in 1..Len(F) : L[i] # F[j]
    BY <1>4
  <1>17. \A y \in Elem' : y = x \/ \E i \in 1..Len(L) : L[i] = y
    BY <1>6, <1>11
  <1> QED
    BY <1>1, <1>5, <1>7, <1>8, <1>12, <1>13, <1>14, <1>15, <1>16, <1>17 DEF Taken

\* list_elem_new leaves the list and the objects as they are.
LEMMA NewStep ==
    ASSUME FieldsOK, MutualExclusion, NEW L, NEW F, Sound(L, F), NEW c \in Cpu, list_elem_new(c)
    PROVE  \E G : FieldsOK' /\ Sound(L, G)' /\ QueueOf(L)' = QueueOf(L) /\ \A d \in Cpu : Has(d)' = Has(d)
  <1> USE DEF elems, locals, Goto
  <1>1. /\ pc[c] = "push_new" /\ pc[c] \in Locked /\ pc' = [pc EXCEPT ![c] = "push_link"]
        /\ UNCHANGED <<size, head, tail, lock, arg, result, hold>>
    BY DEF list_elem_new, Locked
  <1>2. "push_link" \in Locked
    BY DEF Locked
  <1>3. PICK G, x : Taken(L, G, c, x)
    <2>1. CASE free # 0
      <3>1. Taken(L, Tail(F), c, free)
        BY <2>1, Reuse
      <3> QED
        BY <3>1
    <2>2. CASE free = 0
      <3>1. Taken(L, F, c, Len(target) + 1)
        BY <2>2, Fresh
      <3> QED
        BY <3>1
    <2> QED
      BY <2>1, <2>2
  <1>4. Places(L, F)
    BY DEF Sound
  <1>5. /\ Len(target) \in Nat /\ Len(L) \in Nat /\ \A i \in 1..Len(L) : L[i] \in Elem
        /\ Elem = 1..Len(target)
    BY <1>4, Basics
  <1>6. /\ \A d \in Cpu : d # c => pc'[d] = pc[d] /\ pc[d] \notin Locked
        /\ pc'[c] = "push_link" /\ ~Unsized /\ ~Unsized' /\ ~Unlinked /\ ~Unlinked'
        /\ Handed' = 1
    BY <1>1, <1>2, Alone DEF Hands
  <1>7. Len(target') \in Nat /\ Elem \subseteq Elem' /\ elem'[c] = x
    <2>1. Len(target') \in Nat
      BY <1>3 DEF Taken
    <2>2. elem'[c] = x
      BY <1>3 DEF Taken, FieldsOK
    <2>3. Len(target) <= Len(target')
      BY <1>3 DEF Taken
    <2> QED
      BY <1>5, <2>1, <2>2, <2>3 DEF Elem
  <1>8. FieldsOK'
    <2>1. head' \in Elem' \cup {0} /\ tail' \in Elem' \cup {0} /\ free' \in Elem' \cup {0}
      BY <1>1, <1>3, <1>7 DEF FieldsOK, Taken
    <2>2. elem' \in [Cpu -> Elem' \cup {0}]
      BY <1>3, <1>7 DEF FieldsOK, Taken
    <2>3. /\ target' \in Seq(Target \cup {NoTarget})
          /\ next' \in Seq(Elem' \cup {0}) /\ Len(next') = Len(target')
      BY <1>3 DEF Taken
    <2> QED
      BY <1>1, <2>1, <2>2, <2>3 DEF FieldsOK
  <1>9. \A i \in 1..Len(L) : target'[L[i]] = target[L[i]] /\ next'[L[i]] = next[L[i]]
    BY <1>3, <1>5 DEF Taken
  <1>10. Places(L, G)'
    <2>1. Links(next', Len(target'), head', L)
      <3>1. Links(next, Len(target), head, L)
        BY <1>4 DEF Places, Chained
      <3>2. Len(target) <= Len(target')
        BY <1>3 DEF Taken
      <3>3. Links(next', Len(target'), head, L)
        BY <1>5, <1>7, <1>9, <3>1, <3>2, LinksOther
      <3> QED
        BY <1>1, <3>3
    <2>2. Chained(head, L)' /\ Chained(free, G)'
      BY <1>3, <2>1 DEF Chained, Taken
    <2>3. \A d \in Cpu : pc'[d] \in Hands <=> d = c
      BY <1>6 DEF Hands, Locked
    <2>4. tail' = IF L = <<>> THEN 0 ELSE L[Len(L)]
      BY <1>1, <1>4 DEF Places
    <2>5. \A i \in 1..Len(L) : \A j \in 1..Len(G) : L[i] # G[j]
      BY <1>3 DEF Taken
    <2>6. \A d \in Cpu : pc'[d] \in Hands =>
            /\ elem'[d] \in Elem'
            /\ \A i \in 1..Len(L) : L[i] # elem'[d]
            /\ \A j \in 1..Len(G) : G[j] # elem'[d]
      BY <1>3, <1>7, <2>3 DEF Taken
    <2>7. \A y \in Elem' : \/ \E i \in 1..Len(L) : L[i] = y
                           \/ \E j \in 1..Len(G) : G[j] = y
                           \/ \E d \in Cpu : pc'[d] \in Hands /\ elem'[d] = y
      BY <1>3, <1>7, <2>3 DEF Taken
    <2>8. Len(L) + Len(G) + Handed' = Len(target')
      BY <1>3, <1>6 DEF Taken
    <2> QED
      BY <2>2, <2>4, <2>5, <2>6, <2>7, <2>8 DEF Places
  <1>11. Counts(L)'
    <2>1. size = Len(L)
      BY <1>5, <1>6 DEF Sound, Counts
    <2> QED
      BY <1>1, <1>3, <1>5, <1>6, <2>1 DEF Counts, Taken
  <1>12. \A d \in Cpu : Has(d)' = Has(d) /\ InTransit(d)' = InTransit(d) /\ (Pushing(d)' <=> Pushing(d))
    BY <1>1, <1>6 DEF Has, InTransit, Pushing, Popped
  <1>13. Knows(L)'
    <2>1. \A d \in Cpu : Pushing(d)' => arg'[d] \in Target
      BY <1>1, <1>12 DEF Sound, Knows
    <2>2. \A d \in Cpu : pc'[d] # "push_size" /\ (pc'[d] = "push_link" => d = c)
      BY <1>6 DEF Locked
    <2>3. next'[elem'[c]] = 0 /\ target'[elem'[c]] = arg'[c]
      BY <1>1, <1>3, <1>7 DEF Taken
    <2> QED
      BY <2>1, <2>2, <2>3 DEF Knows
  <1>14. Owned(L)'
    <2>1. \A i \in 1..Len(L) : target'[L[i]] = target[L[i]]
      BY <1>9
    <2>2. Owned(L) /\ ~Unsized /\ ~Unsized'
      BY <1>6 DEF Sound
    <2>3. \A d \in Cpu : Has(d)' = Has(d) /\ InTransit(d)' = InTransit(d) /\ hold'[d] = hold[d]
      BY <1>1, <1>12
    <2> QED
      BY <2>1, <2>2, <2>3, OwnedSame
  <1>15. Sound(L, G)'
    BY <1>10, <1>11, <1>13, <1>14 DEF Sound
  <1>16. QueueOf(L)' = QueueOf(L)
    <2>1. Queued(L)' = 1..Len(L) /\ Queued(L) = 1..Len(L)
      BY <1>5, <1>6 DEF Queued
    <2> QED
      BY <1>9, <2>1 DEF QueueOf
  <1> QED
    BY <1>8, <1>12, <1>15, <1>16
-----------------------------------------------------------------------------
(* The queue that the list stands for                                      *)

\* What Chain finds, and the queue it stands for.
ChainsFound ==
    \A L, F : FieldsOK /\ Sound(L, F) => /\ Chain(head) = L /\ Chain(free) = F
                                       /\ AbsQueue = QueueOf(L)

\* Whatever sequences are sound, Chain finds them.
LEMMA Abstract == ChainsFound
  <1> SUFFICES ASSUME NEW L, NEW F, FieldsOK, Sound(L, F)
               PROVE  Chain(head) = L /\ Chain(free) = F /\ AbsQueue = QueueOf(L)
    BY DEF ChainsFound
  <1>1. Places(L, F)
    BY DEF Sound
  <1>2. Len(target) \in Nat /\ Len(L) <= Len(target) /\ Len(F) <= Len(target)
    BY <1>1, Basics
  <1>3. Chained(head, L) /\ Chained(free, F)
    BY <1>1 DEF Places
  <1>4. Chain(head) = L /\ Chain(free) = F
    BY <1>2, <1>3, ChainIs
  <1> QED
    BY <1>4 DEF AbsQueue, QueueOf, Queued

\* The same for the next state.
LEMMA AbstractNext == ChainsFound'
  BY Abstract, PTL
-----------------------------------------------------------------------------
(* The steps before and after the section                                  *)

Pcs == {"idle", "push_enter", "push_spin", "push_new", "push_link", "push_size", "push_leave",
        "pop_enter", "pop_spin", "pop_unlink", "pop_delete", "pop_size", "pop_leave"}

\* Entering the section, and waiting for it.
LEMMA EnterStep ==
    ASSUME FieldsOK, NEW L, NEW F, Sound(L, F), NEW c \in Cpu,
           PushEnter(c) \/ PopEnter(c) \/ PushSpin(c) \/ PopSpin(c)
    PROVE  /\ FieldsOK' /\ Sound(L, F)' /\ QueueOf(L)' = QueueOf(L)
           /\ (\A d \in Cpu : Has(d)' = Has(d)) /\ result' = result
  <1>1. PICK from, to : /\ pc[c] = from /\ pc' = [pc EXCEPT ![c] = to]
                        /\ <<from, to>> \in {"push_enter", "push_spin"} \X {"push_new", "push_spin", "push_enter"}
                             \cup {"pop_enter", "pop_spin"} \X {"pop_unlink", "pop_spin", "pop_enter"}
                        /\ lock' \in {lock, 1} /\ UNCHANGED <<list, elems, arg, locals, hold>>
    BY DEF PushEnter, PopEnter, PushSpin, PopSpin, section_enter, section_spin, Goto, FieldsOK
  <1>2. pc'[c] = to
    BY <1>1 DEF FieldsOK
  <1>3. FieldsOK'
    BY <1>1 DEF FieldsOK, list, elems, locals, Elem
  <1>4. InTransit(c)' = InTransit(c) /\ (Pushing(c)' <=> Pushing(c))
    BY <1>1, <1>2 DEF InTransit, Pushing, Popped, locals
  <1>5. Has(c)' = Has(c)
    BY <1>1, <1>4 DEF Has
  <1>6. (hold[c] \cap InTransit(c) = {})'
    BY <1>1, <1>4 DEF Sound, Owned
  <1>7. Pushing(c)' => arg'[c] \in Target
    BY <1>1, <1>4 DEF Sound, Knows
  <1>8. \A d \in Cpu : d # c => /\ arg'[d] = arg[d] /\ elem'[d] = elem[d]
                                /\ result'[d] = result[d] /\ hold'[d] = hold[d]
    BY <1>1 DEF locals
  <1>9. pc[c] \notin Special /\ to \notin Special
    BY <1>1 DEF Special
  <1>10. pc' = [pc EXCEPT ![c] = to] /\ UNCHANGED <<list, elems>> /\ result' = result
    BY <1>1 DEF locals
  <1>11. Sound(L, F)' /\ QueueOf(L)' = QueueOf(L) /\ \A d \in Cpu : Has(d)' = Has(d)
    BY <1>5, <1>6, <1>7, <1>8, <1>9, <1>10, OutsideStep
  <1> QED
    BY <1>3, <1>10, <1>11

\* A call of list_push takes the object out of the caller's hands.
LEMMA StartPushStep ==
    ASSUME FieldsOK, NEW L, NEW F, Sound(L, F), NEW c \in Cpu, NEW t \in Target, StartPush(c, t)
    PROVE  /\ FieldsOK' /\ Sound(L, F)' /\ QueueOf(L)' = QueueOf(L)
           /\ (\A d \in Cpu : Has(d)' = Has(d)) /\ result' = result
  <1>1. /\ pc[c] = "idle" /\ pc' = [pc EXCEPT ![c] = "push_enter"] /\ t \in hold[c]
        /\ hold' = [hold EXCEPT ![c] = @ \ {t}] /\ arg' = [arg EXCEPT ![c] = t]
        /\ UNCHANGED <<list, lock, elems, locals>>
    BY DEF StartPush, Goto
  <1>2. pc'[c] = "push_enter" /\ arg'[c] = t /\ hold'[c] = hold[c] \ {t}
    BY <1>1 DEF FieldsOK
  <1>3. FieldsOK'
    <2>1. hold' \in [Cpu -> SUBSET Target] /\ arg' \in [Cpu -> Target \cup {NoTarget}]
      BY <1>1 DEF FieldsOK
    <2> QED
      BY <1>1, <2>1 DEF FieldsOK, list, elems, locals, Elem
  <1>4. InTransit(c)' = {t} /\ InTransit(c) = {}
    BY <1>1, <1>2 DEF InTransit, Pushing, Popped
  <1>5. Has(c)' = Has(c)
    BY <1>1, <1>2, <1>4 DEF Has
  <1>6. (hold[c] \cap InTransit(c) = {})'
    BY <1>2, <1>4
  <1>8. \A d \in Cpu : d # c => /\ arg'[d] = arg[d] /\ elem'[d] = elem[d]
                                /\ result'[d] = result[d] /\ hold'[d] = hold[d]
    BY <1>1 DEF locals, FieldsOK
  <1>9. pc[c] \notin Special /\ "push_enter" \notin Special
    BY <1>1 DEF Special
  <1>10. pc' = [pc EXCEPT ![c] = "push_enter"] /\ UNCHANGED <<list, elems>> /\ result' = result
    BY <1>1 DEF locals
  <1>11. Sound(L, F)' /\ QueueOf(L)' = QueueOf(L) /\ \A d \in Cpu : Has(d)' = Has(d)
    BY <1>2, <1>5, <1>6, <1>8, <1>9, <1>10, OutsideStep
  <1> QED
    BY <1>3, <1>10, <1>11

\* The look at the size without the lock: 0 means that nothing is queued.
LEMMA StartPopStep ==
    ASSUME FieldsOK, NEW L, NEW F, Sound(L, F), NEW c \in Cpu, StartPop(c)
    PROVE  /\ FieldsOK' /\ Sound(L, F)' /\ QueueOf(L)' = QueueOf(L)
           /\ (\A d \in Cpu : Has(d)' = Has(d))
           /\ \/ result' = result
              \/ QueueOf(L) = <<>> /\ result' = [result EXCEPT ![c] = NoTarget]
  <1>1. PICK at \in {"idle", "pop_enter"} :
          /\ pc[c] = "idle" /\ pc' = [pc EXCEPT ![c] = at]
          /\ \/ result' = result
             \/ size = 0 /\ result' = [result EXCEPT ![c] = NoTarget]
          /\ UNCHANGED <<list, lock, elems, arg, elem, hold>>
    <2>1. CASE size = 0
      <3>1. pc' = [pc EXCEPT ![c] = "idle"]
        BY <2>1 DEF StartPop, FieldsOK
      <3> QED
        BY <2>1, <3>1 DEF StartPop
    <2>2. CASE size # 0
      BY <2>2 DEF StartPop, Goto
    <2> QED
      BY <2>1, <2>2
  <1>2. pc'[c] = at
    BY <1>1 DEF FieldsOK
  <1>3. FieldsOK'
    <2>1. result' \in [Cpu -> Target \cup {NoTarget}]
      BY <1>1 DEF FieldsOK
    <2>2. pc' \in [Cpu -> Pcs]
      BY <1>1 DEF FieldsOK, Pcs
    <2> QED
      BY <1>1, <2>1, <2>2 DEF FieldsOK, list, elems, Elem, Pcs
  <1>4. InTransit(c)' = {} /\ InTransit(c) = {} /\ ~Pushing(c)'
    BY <1>1, <1>2 DEF InTransit, Pushing, Popped
  <1>5. Has(c)' = Has(c) /\ (hold[c] \cap InTransit(c) = {})'
    BY <1>1, <1>4 DEF Has
  <1>8. \A d \in Cpu : d # c => /\ arg'[d] = arg[d] /\ elem'[d] = elem[d]
                                /\ result'[d] = result[d] /\ hold'[d] = hold[d]
    BY <1>1 DEF FieldsOK
  <1>9. pc[c] \notin Special /\ at \notin Special
    BY <1>1 DEF Special
  <1>10. pc' = [pc EXCEPT ![c] = at] /\ UNCHANGED <<list, elems>>
    BY <1>1
  <1>11. Sound(L, F)' /\ QueueOf(L)' = QueueOf(L) /\ \A d \in Cpu : Has(d)' = Has(d)
    BY <1>4, <1>5, <1>8, <1>9, <1>10, OutsideStep
  <1>12. size = 0 => QueueOf(L) = <<>>
    <2> SUFFICES ASSUME size = 0 PROVE QueueOf(L) = <<>>
      OBVIOUS
    <2>1. Len(L) \in Nat
      <3>1. Places(L, F)
        BY DEF Sound
      <3> QED
        BY <3>1, Basics
    <2>2. 0 = Len(L) + (IF Unlinked THEN 1 ELSE 0) - (IF Unsized THEN 1 ELSE 0)
      BY DEF Sound, Counts
    <2>3. Len(L) - (IF Unsized THEN 1 ELSE 0) <= 0
      BY <2>1, <2>2
    <2>4. Queued(L) = {}
      BY <2>1, <2>3 DEF Queued
    <2> QED
      BY <2>4 DEF QueueOf
  <1> QED
    BY <1>1, <1>3, <1>11, <1>12

\* Leaving the section; a pop hands the object over.
LEMMA LeaveStep ==
    ASSUME FieldsOK, NEW L, NEW F, Sound(L, F), NEW c \in Cpu, PushLeave(c) \/ PopLeave(c)
    PROVE  /\ FieldsOK' /\ Sound(L, F)' /\ QueueOf(L)' = QueueOf(L)
           /\ (\A d \in Cpu : Has(d)' = Has(d)) /\ result' = result
  <1>1. /\ pc[c] \in {"push_leave", "pop_leave"} /\ pc' = [pc EXCEPT ![c] = "idle"] /\ lock' = 0
        /\ elem' = [elem EXCEPT ![c] = 0] /\ UNCHANGED <<list, elems, result>>
        /\ arg' \in {arg, [arg EXCEPT ![c] = NoTarget]}
        /\ hold' = IF pc[c] = "push_leave" THEN hold
                   ELSE [hold EXCEPT ![c] = @ \cup ({result[c]} \ {NoTarget})]
    BY DEF PushLeave, PopLeave, section_leave, Goto
  <1>2. pc'[c] = "idle"
    BY <1>1 DEF FieldsOK
  <1>3. hold'[c] = hold[c] \cup InTransit(c) /\ InTransit(c)' = {} /\ ~Pushing(c)'
    BY <1>1, <1>2 DEF InTransit, Pushing, Popped, FieldsOK
  <1>4. FieldsOK'
    <2>1. hold' \in [Cpu -> SUBSET Target]
      <3>1. {result[c]} \ {NoTarget} \subseteq Target /\ hold[c] \subseteq Target
        BY DEF FieldsOK
      <3> QED
        BY <1>1, <3>1 DEF FieldsOK
    <2>2. elem' \in [Cpu -> Elem \cup {0}] /\ arg' \in [Cpu -> Target \cup {NoTarget}]
      BY <1>1 DEF FieldsOK
    <2> QED
      BY <1>1, <2>1, <2>2 DEF FieldsOK, list, elems, Elem
  <1>5. Has(c)' = Has(c) /\ (hold[c] \cap InTransit(c) = {})'
    BY <1>3 DEF Has
  <1>8. \A d \in Cpu : d # c => /\ arg'[d] = arg[d] /\ elem'[d] = elem[d]
                                /\ result'[d] = result[d] /\ hold'[d] = hold[d]
    BY <1>1 DEF FieldsOK
  <1>9. pc[c] \notin Special /\ "idle" \notin Special
    BY <1>1 DEF Special
  <1>10. pc' = [pc EXCEPT ![c] = "idle"] /\ UNCHANGED <<list, elems>> /\ result' = result
    BY <1>1
  <1>11. Sound(L, F)' /\ QueueOf(L)' = QueueOf(L) /\ \A d \in Cpu : Has(d)' = Has(d)
    BY <1>3, <1>5, <1>8, <1>9, <1>10, OutsideStep
  <1> QED
    BY <1>4, <1>10, <1>11
-----------------------------------------------------------------------------
(* All steps                                                               *)

AbsNext == [Queue!Next]_<<AbsQueue, AbsHeld, result>>

\* Steps that the abstract queue does not see.
LEMMA Quiet ==
    ASSUME FieldsOK, FieldsOK', NEW L, NEW F, Sound(L, F), NEW M, NEW G, Sound(M, G)',
           QueueOf(M)' = QueueOf(L), \A d \in Cpu : Has(d)' = Has(d), result' = result
    PROVE  AbsNext
  <1>1. AbsQueue = QueueOf(L)
    BY Abstract DEF ChainsFound
  <1>2. AbsQueue' = QueueOf(M)'
    BY AbstractNext DEF ChainsFound
  <1>3. AbsHeld' = AbsHeld
    BY DEF AbsHeld, Has
  <1> QED
    BY <1>1, <1>2, <1>3 DEF AbsNext

\* Pops that find nothing.
LEMMA Empty ==
    ASSUME FieldsOK, FieldsOK', NEW L, NEW F, Sound(L, F), NEW M, NEW G, Sound(M, G)', NEW c \in Cpu,
           QueueOf(L) = <<>>, QueueOf(M)' = QueueOf(L), \A d \in Cpu : Has(d)' = Has(d),
           result' = [result EXCEPT ![c] = NoTarget]
    PROVE  AbsNext
  <1>1. AbsQueue = QueueOf(L)
    BY Abstract DEF ChainsFound
  <1>2. AbsQueue' = QueueOf(M)'
    BY AbstractNext DEF ChainsFound
  <1>3. AbsHeld' = AbsHeld
    BY DEF AbsHeld, Has
  <1>4. Queue!PopEmpty(c)
    BY <1>1, <1>2, <1>3 DEF Queue!PopEmpty
  <1> QED
    BY <1>4 DEF AbsNext, Queue!Next

\* Every step keeps the list sound and is a step of the abstract queue.
LEMMA Steps ==
    ASSUME FieldsOK, MutualExclusion, NEW L, NEW F, Sound(L, F), [Next]_vars
    PROVE  FieldsOK' /\ (\E M, G : Sound(M, G)') /\ AbsNext
  <1>1. ASSUME NEW c \in Cpu, NEW t \in Target, StartPush(c, t)
        PROVE  FieldsOK' /\ (\E M, G : Sound(M, G)') /\ AbsNext
    BY <1>1, StartPushStep, Quiet
  <1>2. ASSUME NEW c \in Cpu, StartPop(c)
        PROVE  FieldsOK' /\ (\E M, G : Sound(M, G)') /\ AbsNext
    BY <1>2, StartPopStep, Quiet, Empty
  <1>3. ASSUME NEW c \in Cpu, PushEnter(c) \/ PopEnter(c) \/ PushSpin(c) \/ PopSpin(c)
        PROVE  FieldsOK' /\ (\E M, G : Sound(M, G)') /\ AbsNext
    BY <1>3, EnterStep, Quiet
  <1>4. ASSUME NEW c \in Cpu, PushLeave(c) \/ PopLeave(c)
        PROVE  FieldsOK' /\ (\E M, G : Sound(M, G)') /\ AbsNext
    BY <1>4, LeaveStep, Quiet
  <1>5. ASSUME NEW c \in Cpu, list_elem_new(c)
        PROVE  FieldsOK' /\ (\E M, G : Sound(M, G)') /\ AbsNext
    <2>1. result' = result
      BY <1>5 DEF list_elem_new
    <2> QED
      BY <1>5, <2>1, NewStep, Quiet
  <1>6. ASSUME NEW c \in Cpu, PushLink(c)
        PROVE  FieldsOK' /\ (\E M, G : Sound(M, G)') /\ AbsNext
    <2>1. result' = result
      BY <1>6 DEF PushLink, locals
    <2>2. PICK M : M = Append(L, elem[c])
      OBVIOUS
    <2> QED
      BY <1>6, <2>1, <2>2, PushLinkStep, Quiet
  <1>7. ASSUME NEW c \in Cpu, PushSize(c)
        PROVE  FieldsOK' /\ (\E M, G : Sound(M, G)') /\ AbsNext
    <2>1. /\ FieldsOK' /\ Sound(L, F)'
          /\ arg[c] \in Target /\ arg[c] \in Has(c) /\ QueueOf(L)' = Append(QueueOf(L), arg[c])
          /\ \A d \in Cpu : Has(d)' = IF d = c THEN Has(d) \ {arg[c]} ELSE Has(d)
      BY <1>7, PushSizeStep
    <2>2. AbsQueue = QueueOf(L)
      BY Abstract DEF ChainsFound
    <2>3. AbsQueue' = QueueOf(L)'
      BY <2>1, AbstractNext DEF ChainsFound
    <2>4. AbsHeld' = [AbsHeld EXCEPT ![c] = @ \ {arg[c]}] /\ arg[c] \in AbsHeld[c]
      BY <2>1 DEF AbsHeld, Has
    <2>5. result' = result
      BY <1>7 DEF PushSize, locals
    <2>6. Queue!Push(c, arg[c])
      BY <2>1, <2>2, <2>3, <2>4, <2>5 DEF Queue!Push
    <2>7. AbsNext
      BY <2>1, <2>6 DEF AbsNext, Queue!Next
    <2> QED
      BY <2>1, <2>7
  <1>8. ASSUME NEW c \in Cpu, PopUnlink(c)
        PROVE  FieldsOK' /\ (\E M, G : Sound(M, G)') /\ AbsNext
    <2>1. CASE head = 0
      <3>1. /\ FieldsOK' /\ Sound(L, F)' /\ L = <<>> /\ result' = [result EXCEPT ![c] = NoTarget]
            /\ QueueOf(L)' = QueueOf(L) /\ \A d \in Cpu : Has(d)' = Has(d)
        BY <1>8, <2>1, PopNothing
      <3>2. QueueOf(L) = <<>>
        <4>1. Queued(L) = {}
          BY <3>1 DEF Queued
        <4> QED
          BY <4>1 DEF QueueOf
      <3> QED
        BY <3>1, <3>2, Empty
    <2>2. CASE head # 0
      <3>1. PICK M : M = Tail(L)
        OBVIOUS
      <3>2. /\ FieldsOK' /\ Sound(M, F)'
            /\ QueueOf(L) # <<>> /\ QueueOf(M)' = Tail(QueueOf(L))
            /\ result' = [result EXCEPT ![c] = Head(QueueOf(L))]
            /\ \A d \in Cpu : Has(d)' = IF d = c THEN Has(d) \cup {Head(QueueOf(L))} ELSE Has(d)
        BY <1>8, <2>2, <3>1, PopUnlinkStep
      <3>3. AbsQueue = QueueOf(L)
        BY Abstract DEF ChainsFound
      <3>4. AbsQueue' = QueueOf(M)'
        BY <3>2, AbstractNext DEF ChainsFound
      <3>5. AbsHeld' = [AbsHeld EXCEPT ![c] = @ \cup {Head(QueueOf(L))}]
        BY <3>2 DEF AbsHeld, Has
      <3>6. Queue!Pop(c)
        BY <3>2, <3>3, <3>4, <3>5 DEF Queue!Pop
      <3>7. AbsNext
        BY <3>6 DEF AbsNext, Queue!Next
      <3> QED
        BY <3>2, <3>7
    <2> QED
      BY <2>1, <2>2
  <1>9. ASSUME NEW c \in Cpu, list_elem_delete(c)
        PROVE  FieldsOK' /\ (\E M, G : Sound(M, G)') /\ AbsNext
    <2>1. result' = result
      BY <1>9 DEF list_elem_delete, locals
    <2>2. PICK G : G = <<elem[c]>> \o F
      OBVIOUS
    <2> QED
      BY <1>9, <2>1, <2>2, DeleteStep, Quiet
  <1>10. ASSUME NEW c \in Cpu, PopSize(c)
        PROVE  FieldsOK' /\ (\E M, G : Sound(M, G)') /\ AbsNext
    <2>1. result' = result
      BY <1>10 DEF PopSize, locals
    <2> QED
      BY <1>10, <2>1, PopSizeStep, Quiet
  <1>11. CASE UNCHANGED list_vars
    <2> USE <1>11 DEF list_vars, list, elems, locals
    <2>1. FieldsOK'
      BY DEF FieldsOK, Elem
    <2>2. Unsized' = Unsized /\ Unlinked' = Unlinked /\ Handed' = Handed /\ Elem' = Elem
      BY DEF Unsized, Unlinked, Handed, Elem
    <2>3. \A d \in Cpu : Has(d)' = Has(d) /\ InTransit(d)' = InTransit(d) /\ Pushing(d)' = Pushing(d)
      BY DEF Has, InTransit, Pushing, Popped
    <2>4. Queued(L)' = Queued(L) /\ QueueOf(L)' = QueueOf(L)
      BY <2>2 DEF Queued, QueueOf
    <2>5. Places(L, F)'
      BY <2>2 DEF Sound, Places, Chained
    <2>6. Counts(L)' /\ Knows(L)'
      BY <2>2, <2>3 DEF Sound, Counts, Knows, NoLeak
    <2>7. Owned(L)'
      <3> HIDE DEF Has
      <3> QED
        BY <2>3, <2>4 DEF Sound, Owned
    <2>8. Sound(L, F)'
      BY <2>5, <2>6, <2>7 DEF Sound
    <2> QED
      BY <2>1, <2>3, <2>4, <2>8, Quiet
  <1> QED
    BY <1>1, <1>2, <1>3, <1>4, <1>5, <1>6, <1>7, <1>8, <1>9, <1>10, <1>11
       DEF Next, Start, Step, kmalloc_elsewhere, vars

\* The empty list is sound and an empty queue.
LEMMA Starts == Init => IInv /\ Queue!Init
  <1> SUFFICES ASSUME Init PROVE IInv /\ Queue!Init
    OBVIOUS
  <1> DEFINE E == <<>>
  <1>1. FieldsOK
    <2>1. Len(target) = 0 /\ target \in Seq(Target \cup {NoTarget}) /\ next \in Seq(Elem \cup {0})
          /\ Len(next) = Len(target)
      BY DEF Init
    <2> QED
      BY <2>1, SpinListAssumption DEF Init, FieldsOK
  <1>2. MutualExclusion
    BY DEF Init, MutualExclusion, Locked
  <1>3. ~Unsized /\ ~Unlinked /\ Handed = 0 /\ Len(target) = 0 /\ Elem = {} /\ Queued(<<>>) = {}
    BY DEF Init, Unsized, Unlinked, Handed, Hands, Elem, Queued
  <1>4. Links(next, Len(target), 0, <<>>)
    BY DEF Links
  <1>5. Places(<<>>, <<>>)
    BY <1>3, <1>4 DEF Init, Places, Chained, Hands
  <1>6. Counts(<<>>)
    BY <1>3, SpinListAssumption, FS_CardinalityType DEF Init, Counts, NoLeak
  <1>7. \A c \in Cpu : ~Pushing(c) /\ InTransit(c) = {} /\ Has(c) = IF c = FirstCpu THEN Target ELSE {}
    BY DEF Init, Pushing, Popped, InTransit, Has
  <1>8. Knows(<<>>)
    BY <1>7 DEF Knows, Init
  <1>9. Owned(<<>>)
    BY <1>3, <1>7 DEF Owned
  <1>10. Sound(<<>>, <<>>)
    BY <1>5, <1>6, <1>8, <1>9 DEF Sound
  <1>11. Chain(head) = <<>> /\ Chain(free) = <<>> /\ AbsQueue = QueueOf(<<>>)
    BY <1>1, <1>10, Abstract DEF ChainsFound
  <1>12. AbsQueue = <<>>
    BY <1>3, <1>11 DEF QueueOf
  <1>13. AbsHeld = [c \in Cpu |-> IF c = FirstCpu THEN Target ELSE {}]
    BY <1>7 DEF AbsHeld, Has
  <1>14. Queue!Init
    BY <1>12, <1>13, SpinListAssumption DEF Queue!Init, Init
  <1> QED
    BY <1>1, <1>2, <1>10, <1>11, <1>14 DEF IInv, Init

\* The invariant is inductive, and its steps implement the queue's.
LEMMA Inductive == IInv /\ LockInv /\ [Next]_vars => IInv' /\ AbsNext
  <1> SUFFICES ASSUME IInv, LockInv, [Next]_vars PROVE IInv' /\ AbsNext
    OBVIOUS
  <1>1. PICK L, F : L = Chain(head) /\ F = Chain(free)
    OBVIOUS
  <1>2. FieldsOK /\ MutualExclusion /\ Sound(L, F)
    BY <1>1 DEF IInv
  <1>3. FieldsOK' /\ (\E M, G : Sound(M, G)') /\ AbsNext
    BY <1>2, Steps
  <1>4. PICK M, G : Sound(M, G)'
    BY <1>3
  <1>5. Chain(head)' = M /\ Chain(free)' = G
    BY <1>3, <1>4, AbstractNext DEF ChainsFound
  <1>6. MutualExclusion'
    BY StepLockInv DEF LockInv
  <1>7. heap_lock' \in {0, 1}
    BY DEF IInv, Next, Start, Step, kmalloc_elsewhere, vars
  <1> QED
    BY <1>3, <1>4, <1>5, <1>6, <1>7 DEF IInv

\* The invariant in the words of ListSound.
LEMMA Accounted == IInv => ListSound
  <1> SUFFICES ASSUME IInv PROVE ListSound
    OBVIOUS
  <1>1. PICK L, F : L = Chain(head) /\ F = Chain(free)
    OBVIOUS
  <1>2. FieldsOK /\ MutualExclusion /\ Sound(L, F) /\ Places(L, F)
    BY <1>1 DEF IInv, Sound
  <1>3. /\ Len(target) \in Nat /\ Len(L) \in Nat /\ Len(F) \in Nat
        /\ (\A i \in 1..Len(L) : L[i] \in Elem) /\ (\A j \in 1..Len(F) : F[j] \in Elem)
        /\ (head = 0 <=> L = <<>>)
    BY <1>2, Basics
  <1>4. Cardinality(InHand) = Handed
    <2>1. CASE \E c \in Cpu : pc[c] \in Hands
      <3>1. PICK c \in Cpu : pc[c] \in Hands
        BY <2>1
      <3>2. \A d \in Cpu : pc[d] \in Hands => d = c
        BY <1>2, <3>1 DEF MutualExclusion, Hands, Locked
      <3>3. InHand = {elem[c]}
        BY <3>1, <3>2 DEF InHand, Hands
      <3> QED
        BY <2>1, <3>3, FS_Singleton DEF Handed
    <2>2. CASE ~\E c \in Cpu : pc[c] \in Hands
      <3>1. InHand = {}
        BY <2>2 DEF InHand, Hands
      <3> QED
        BY <2>2, <3>1, FS_EmptySet DEF Handed
    <2> QED
      BY <2>1, <2>2
  <1>5. Len(L) + Len(F) + Cardinality(InHand) = Len(target)
    BY <1>2, <1>4 DEF Places
  <1>6. Members(head) = {L[i] : i \in 1..Len(L)} /\ Members(free) = {F[i] : i \in 1..Len(F)}
    BY <1>1 DEF Members
  <1>7. Members(head) \cup Members(free) \cup InHand = Elem
    <2>1. \A x \in Elem : x \in Members(head) \cup Members(free) \cup InHand
      <3> SUFFICES ASSUME NEW x \in Elem, x \notin Members(head), x \notin Members(free) PROVE x \in InHand
        OBVIOUS
      <3>1. \E c \in Cpu : pc[c] \in Hands /\ elem[c] = x
        BY <1>2, <1>6 DEF Places
      <3> QED
        BY <3>1 DEF InHand, Hands
    <2>2. \A x \in InHand : x \in Elem
      BY <1>2 DEF InHand, Places, Hands
    <2> QED
      BY <1>3, <1>6, <2>1, <2>2
  <1>8. tail = IF head = 0 THEN 0 ELSE L[Len(L)]
    BY <1>2, <1>3 DEF Places
  <1>9. ElementsAccounted
    BY <1>1, <1>5, <1>7, <1>8 DEF ElementsAccounted
  <1>10. SizeExact
    <2> SUFFICES ASSUME lock = 0 PROVE size = Len(L)
      BY <1>1 DEF SizeExact
    <2>1. \A c \in Cpu : pc[c] \notin Locked
      BY <1>2 DEF MutualExclusion
    <2>2. ~Unsized /\ ~Unlinked
      BY <2>1 DEF Unsized, Unlinked, Locked
    <2> QED
      BY <1>2, <1>3, <2>2 DEF Sound, Counts
  <1>11. NoLeak
    BY <1>2 DEF Sound, Counts
  <1>12. TypeOK
    BY <1>2 DEF TypeOK, IInv
  <1> QED
    BY <1>9, <1>10, <1>11, <1>12 DEF ListSound

\* No element of a list is lost, shared or linked twice, the tail is its last
\* element, the size is right whenever the list is unlocked, and it never makes
\* more elements than there are objects.
THEOREM ListStaysSound == Spec => []ListSound
  <1>1. Init => LockInv
    BY DEF Init, LockInv, PcOK, MutualExclusion, Locked
  <1> QED
    BY <1>1, Starts, StepLockInv, Inductive, Accounted, PTL DEF Spec

\* list_push and list_pop implement an atomic first-in first-out queue, with the
\* push taking effect when the size is stored and the pop when the element is
\* unlinked, or when size 0 is seen without the lock.
THEOREM ListIsQueue == Spec => IsQueue
  <1>1. Init => LockInv
    BY DEF Init, LockInv, PcOK, MutualExclusion, Locked
  <1>2. AbsNext => [Queue!Next]_<<AbsQueue, AbsHeld, result>>
    BY DEF AbsNext
  <1> QED
    BY <1>1, <1>2, Starts, StepLockInv, Inductive, PTL DEF Spec, IsQueue, Queue!Spec
=============================================================================
