---------------------------- MODULE SignalProofs ----------------------------
(***************************************************************************)
(* Theorems about Signal, for any number of threads, signal numbers,       *)
(* objects and descriptors and any pipe and buffer size: type correctness; *)
(* that no delivered signal is lost however the handlers, the waits and    *)
(* the constructions and destructions interleave; that a number has one    *)
(* owner; if descriptor 0 is never handed out, that the library leaks no   *)
(* descriptor; that a handler's descriptor is stale only if its object     *)
(* went away, on another thread, after the handler had looked at the flag; *)
(* and that Signal implements Notification.                                *)
(***************************************************************************)
EXTENDS Signal, TLAPS

\* The descriptors in the notifier table are the ends of its own pipes.
FdInv == \A i \in Idx :
  /\ notifier[i].r # NoFd => fdtab[notifier[i].r] = [pipe |-> i, end |-> "r"]
  /\ notifier[i].w # NoFd => fdtab[notifier[i].w] = [pipe |-> i, end |-> "w"]

\* While an operation takes a notifier apart, or has not finished it, its
\* flag is down; and it works on one notifier.
OpInv ==
  /\ op.pc # "idle" => op.idx \in Idx
  /\ op.pc \in {"ctor_init", "rel_r", "rel_w", "rel_dfl"} => ~notifier[op.idx].is_init

\* A handler and a wait know their index, and a handler that is about to
\* write has a descriptor.
ThreadInv == \A t \in Threads :
  /\ wt[t].pc # "idle" => wt[t].idx \in Idx
  /\ hand[t].pc # "none" => hand[t].idx \in Idx
  /\ hand[t].pc = "write" => hand[t].fd \in Fds

\* The inductive invariant.
IInv == TypeOK /\ FdInv /\ OpInv /\ ThreadInv /\ NoLostSignal

-----------------------------------------------------------------------------

\* There is no object, no pipe and no handler at first.
LEMMA InitInv == Init => IInv
<1> SUFFICES ASSUME Init PROVE IInv
  OBVIOUS
<1> USE SignalAssumption DEF Init
<1>1. TypeOK
  BY DEF TypeOK, Idx, NoFd, Invalid, NoPipe, Closed, OpIdle, WaitIdle, NoHandler
<1>2. FdInv
  BY DEF FdInv, NoPipe, NoFd
<1>3. OpInv /\ ThreadInv
  BY DEF OpInv, ThreadInv, OpIdle, WaitIdle, NoHandler
<1>4. NoLostSignal
  BY DEF NoLostSignal, NoPipe
<1> QED BY <1>1, <1>2, <1>3, <1>4 DEF IInv

-----------------------------------------------------------------------------

HandType == [pc : {"none", "check", "load", "write"}, late : BOOLEAN,
             idx : Idx \cup {Invalid}, fd : Fds \cup {NoFd}]
NotifierType == [Idx -> [is_init : BOOLEAN, r : Fds \cup {NoFd}, w : Fds \cup {NoFd}]]

\* The descriptors of notifier i become r and w, nothing else changes.
NotifierSet(i, r, w) ==
  /\ notifier' \in NotifierType
  /\ notifier'[i] = [is_init |-> notifier[i].is_init, r |-> r, w |-> w]
  /\ \A j \in Idx : j # i => notifier'[j] = notifier[j]

\* What the type invariant says of one notifier.
LEMMA NotifierEntry ==
  ASSUME TypeOK, NEW i \in Idx
  PROVE  /\ notifier[i] \in [is_init : BOOLEAN, r : Fds \cup {NoFd}, w : Fds \cup {NoFd}]
         /\ notifier[i].is_init \in BOOLEAN
         /\ notifier[i].r # NoFd => notifier[i].r \in Fds
         /\ notifier[i].w # NoFd => notifier[i].w \in Fds
BY DEF TypeOK

\* Replacing both descriptors of a notifier leaves its flag alone.
LEMMA NotifierExcept ==
  ASSUME TypeOK, NEW i \in Idx, NEW r \in Fds \cup {NoFd}, NEW w \in Fds \cup {NoFd},
         notifier' = [notifier EXCEPT ![i] = [is_init |-> @.is_init, r |-> r, w |-> w]]
  PROVE  NotifierSet(i, r, w)
<1>1. notifier \in NotifierType
  BY DEF TypeOK, NotifierType
<1>4. notifier[i].is_init \in BOOLEAN
  BY <1>1 DEF NotifierType
<1> QED BY <1>1, <1>4 DEF NotifierSet, NotifierType

\* Setting the flag of a notifier leaves its descriptors alone.
LEMMA NotifierFlag ==
  ASSUME TypeOK, NEW i \in Idx, NEW b \in BOOLEAN,
         notifier' = [notifier EXCEPT ![i].is_init = b]
  PROVE  /\ notifier' \in NotifierType
         /\ \A j \in Idx : notifier'[j].r = notifier[j].r /\ notifier'[j].w = notifier[j].w
         /\ \A j \in Idx : j # i => notifier'[j] = notifier[j]
         /\ notifier'[i].is_init = b
<1>1. notifier \in NotifierType
  BY DEF TypeOK, NotifierType
<1>2. notifier'[i] = [notifier[i] EXCEPT !.is_init = b]
  BY <1>1 DEF NotifierType
<1>3. notifier[i] \in [is_init : BOOLEAN, r : Fds \cup {NoFd}, w : Fds \cup {NoFd}]
  BY <1>1 DEF NotifierType
<1>4. /\ notifier'[i] \in [is_init : BOOLEAN, r : Fds \cup {NoFd}, w : Fds \cup {NoFd}]
      /\ notifier'[i].is_init = b
      /\ notifier'[i].r = notifier[i].r /\ notifier'[i].w = notifier[i].w
  BY <1>2, <1>3
<1>5. \A j \in Idx : j # i => notifier'[j] = notifier[j]
  BY <1>1 DEF NotifierType
<1>6. notifier' \in NotifierType
  BY <1>1, <1>4 DEF NotifierType
<1> QED BY <1>4, <1>5, <1>6

\* A constructor makes the two ends of a fresh pipe, or none.
LEMMA ConstructInv ==
  ASSUME IInv, NEW o \in Objects, NEW s \in Args, Construct(o, s)
  PROVE  IInv'
<1> DEFINE i == s - 1
<1> USE SignalAssumption
<1>0. i \in Idx /\ ~notifier[i].is_init /\ op.pc = "idle"
  BY DEF Construct, Idx, MainFree
<1>1. /\ op' = [pc |-> "ctor_init", obj |-> {o}, src |-> {}, idx |-> i]
      /\ Create(i)
      /\ UNCHANGED <<alive, objs, signum_, handled, wt, hand, raised, unseen>>
  BY DEF Construct
<1> HIDE DEF i
<1>2. CASE \E r, w \in {f \in Fds : fdtab[f] = Closed} :
             /\ r # w
             /\ fdtab' = [fdtab EXCEPT ![r] = [pipe |-> i, end |-> "r"],
                                       ![w] = [pipe |-> i, end |-> "w"]]
             /\ notifier' = [notifier EXCEPT ![i] = [is_init |-> @.is_init, r |-> r, w |-> w]]
             /\ bytes' = [bytes EXCEPT ![i] = 0]
             /\ nonblock' = [nonblock EXCEPT ![i] = FALSE]
  <2> PICK r \in Fds, w \in Fds :
             /\ fdtab[r] = Closed /\ fdtab[w] = Closed /\ r # w
             /\ fdtab' = [fdtab EXCEPT ![r] = [pipe |-> i, end |-> "r"],
                                       ![w] = [pipe |-> i, end |-> "w"]]
             /\ notifier' = [notifier EXCEPT ![i] = [is_init |-> @.is_init, r |-> r, w |-> w]]
             /\ bytes' = [bytes EXCEPT ![i] = 0]
             /\ nonblock' = [nonblock EXCEPT ![i] = FALSE]
    BY <1>2
  <2>0. NotifierSet(i, r, w)
    BY <1>0, NotifierExcept DEF IInv
  <2>1. TypeOK'
    <3>1. fdtab' \in [Fds -> [pipe : Idx \cup {-1}, end : {"none", "r", "w"}]]
      BY <1>0 DEF IInv, TypeOK
    <3>2. bytes' \in [Idx -> Nat] /\ nonblock' \in [Idx -> BOOLEAN]
      BY <1>0 DEF IInv, TypeOK
    <3>3. op' \in [pc : {"idle", "ctor_init", "ctor_reg", "rel_r", "rel_w", "rel_dfl"},
                   obj : SUBSET Objects, src : SUBSET Objects, idx : Idx \cup {Invalid}]
      BY <1>0, <1>1
    <3> QED BY <2>0, <3>1, <3>2, <3>3, <1>1 DEF IInv, TypeOK, NotifierSet, NotifierType
  <2>2. FdInv'
    <3>1. \A f \in Fds : fdtab'[f] = IF f = r THEN [pipe |-> i, end |-> "r"]
                                     ELSE IF f = w THEN [pipe |-> i, end |-> "w"]
                                     ELSE fdtab[f]
      BY DEF IInv, TypeOK
    <3>2. ASSUME NEW j \in Idx, j # i
          PROVE  /\ notifier'[j].r # NoFd =>
                      fdtab'[notifier'[j].r] = [pipe |-> j, end |-> "r"]
                 /\ notifier'[j].w # NoFd =>
                      fdtab'[notifier'[j].w] = [pipe |-> j, end |-> "w"]
      <4>1. notifier'[j] = notifier[j]
        BY <2>0, <3>2 DEF NotifierSet
      <4>2. /\ notifier[j].r # NoFd => notifier[j].r \in Fds
            /\ notifier[j].w # NoFd => notifier[j].w \in Fds
        BY NotifierEntry DEF IInv
      <4>3. \A f \in Fds, e \in {"r", "w"} :
              fdtab[f] = [pipe |-> j, end |-> e] => f # r /\ f # w
        BY DEF Closed
      <4> QED BY <3>1, <4>1, <4>2, <4>3 DEF IInv, FdInv
    <3>3. /\ fdtab'[notifier'[i].r] = [pipe |-> i, end |-> "r"]
          /\ fdtab'[notifier'[i].w] = [pipe |-> i, end |-> "w"]
      <4>1. notifier'[i].r = r /\ notifier'[i].w = w
        BY <2>0 DEF NotifierSet
      <4> QED BY <3>1, <4>1
    <3> QED BY <3>2, <3>3 DEF FdInv
  <2>3. OpInv' /\ ThreadInv'
    BY <1>0, <1>1 DEF IInv, TypeOK, OpInv, ThreadInv
  <2>4. NoLostSignal'
    BY <1>0, <1>1 DEF IInv, TypeOK, NoLostSignal, Draining, Delivering
  <2> QED BY <2>1, <2>2, <2>3, <2>4 DEF IInv
<1>3. CASE /\ notifier' = [notifier EXCEPT ![i] = [is_init |-> @.is_init, r |-> NoFd, w |-> NoFd]]
           /\ UNCHANGED kernel
  <2>0. NotifierSet(i, NoFd, NoFd)
    BY <1>0, <1>3, NotifierExcept DEF IInv
  <2>1. TypeOK'
    <3>1. op' \in [pc : {"idle", "ctor_init", "ctor_reg", "rel_r", "rel_w", "rel_dfl"},
                   obj : SUBSET Objects, src : SUBSET Objects, idx : Idx \cup {Invalid}]
      BY <1>0, <1>1
    <3>2. notifier' \in NotifierType /\ UNCHANGED <<fdtab, bytes, nonblock>>
      BY <1>3, <2>0 DEF NotifierSet, kernel
    <3> QED BY <1>1, <3>1, <3>2 DEF IInv, TypeOK, NotifierType
  <2>2. FdInv'
    <3>1. \A j \in Idx : j # i => notifier'[j] = notifier[j]
      BY <2>0 DEF NotifierSet
    <3>2. notifier'[i].r = NoFd /\ notifier'[i].w = NoFd
      BY <2>0 DEF NotifierSet
    <3> QED BY <1>3, <3>1, <3>2 DEF IInv, FdInv, kernel
  <2>3. OpInv' /\ ThreadInv'
    BY <1>0, <1>1, <1>3 DEF IInv, TypeOK, OpInv, ThreadInv
  <2>4. NoLostSignal'
    BY <1>0, <1>1, <1>3 DEF IInv, TypeOK, NoLostSignal, Draining, Delivering, kernel
  <2> QED BY <2>1, <2>2, <2>3, <2>4 DEF IInv
<1> QED BY <1>1, <1>2, <1>3 DEF Create

\* The flag goes up with a clean slate, then the handler is installed.
LEMMA CtorInv ==
  ASSUME IInv, CtorInit \/ CtorRegister
  PROVE  IInv'
<1> USE SignalAssumption
<1>1. CASE CtorInit
  <2>0. op.idx \in Idx /\ op.pc = "ctor_init"
    BY <1>1 DEF CtorInit, IInv, OpInv
  <2>1. /\ notifier' \in NotifierType
        /\ \A j \in Idx : notifier'[j].r = notifier[j].r /\ notifier'[j].w = notifier[j].w
        /\ \A j \in Idx : j # op.idx => notifier'[j] = notifier[j]
    BY <1>1, <2>0, NotifierFlag DEF CtorInit, IInv
  <2>2. op' = [op EXCEPT !.pc = "ctor_reg"] /\ op'.pc = "ctor_reg" /\ op'.idx = op.idx
    BY <1>1, <2>0 DEF CtorInit, IInv, TypeOK
  <2>3. TypeOK'
    <3>1. op' \in [pc : {"idle", "ctor_init", "ctor_reg", "rel_r", "rel_w", "rel_dfl"},
                   obj : SUBSET Objects, src : SUBSET Objects, idx : Idx \cup {Invalid}]
      BY <2>2 DEF IInv, TypeOK
    <3>2. unseen' \in [Idx -> BOOLEAN]
      BY <1>1 DEF CtorInit, IInv, TypeOK
    <3> QED BY <1>1, <2>1, <3>1, <3>2 DEF CtorInit, IInv, TypeOK, NotifierType, kernel
  <2>4. FdInv'
    BY <1>1, <2>1 DEF CtorInit, IInv, FdInv, kernel
  <2>5. OpInv' /\ ThreadInv'
    BY <1>1, <2>0, <2>2 DEF CtorInit, IInv, OpInv, ThreadInv
  <2>6. NoLostSignal'
    <3>1. unseen' = [unseen EXCEPT ![op.idx] = FALSE] /\ UNCHANGED <<alive, bytes, wt, hand>>
      BY <1>1 DEF CtorInit, kernel
    <3> QED BY <2>0, <2>1, <3>1 DEF IInv, TypeOK, NoLostSignal, Draining, Delivering
  <2> QED BY <2>3, <2>4, <2>5, <2>6 DEF IInv
<1>2. CASE CtorRegister
  <2>0. op.idx \in Idx /\ op.pc = "ctor_reg" /\ op.idx + 1 \in 1 .. NSig
    BY <1>2 DEF CtorRegister, IInv, OpInv, Idx
  <2>1. TypeOK'
    <3>1. signum_' \in [Objects -> Idx \cup {Invalid}]
      BY <1>2, <2>0 DEF CtorRegister, IInv, TypeOK
    <3>2. objs' \subseteq Objects /\ handled' \subseteq 1 .. NSig
      BY <1>2, <2>0 DEF CtorRegister, IInv, TypeOK
    <3>3. op' \in [pc : {"idle", "ctor_init", "ctor_reg", "rel_r", "rel_w", "rel_dfl"},
                   obj : SUBSET Objects, src : SUBSET Objects, idx : Idx \cup {Invalid}]
      BY <1>2 DEF CtorRegister, OpIdle
    <3> QED BY <1>2, <3>1, <3>2, <3>3 DEF CtorRegister, IInv, TypeOK, kernel
  <2>2. FdInv' /\ OpInv' /\ ThreadInv'
    BY <1>2 DEF CtorRegister, IInv, FdInv, OpInv, ThreadInv, OpIdle, kernel
  <2>3. NoLostSignal'
    BY <1>2 DEF CtorRegister, IInv, NoLostSignal, Draining, Delivering, kernel
  <2> QED BY <2>1, <2>2, <2>3 DEF IInv
<1> QED BY <1>1, <1>2

\* Ending a life, or swapping with the source of an assignment.
LEMMA FinishType ==
  ASSUME TypeOK, NEW o \in Objects, NEW src \in SUBSET Objects, Finish(o, src)
  PROVE  signum_' \in [Objects -> Idx \cup {Invalid}] /\ objs' \subseteq Objects
<1>1. signum_ \in [Objects -> Idx \cup {Invalid}] /\ objs \subseteq Objects
  BY DEF TypeOK
<1>2. CASE /\ objs' = objs \ {o}
           /\ signum_' = [signum_ EXCEPT ![o] = Invalid]
  BY <1>1, <1>2
<1>3. ASSUME NEW p \in src,
             signum_' = [signum_ EXCEPT ![o] = signum_[p], ![p] = Invalid],
             objs' = objs
      PROVE  signum_' \in [Objects -> Idx \cup {Invalid}] /\ objs' \subseteq Objects
  <2>1. p \in Objects /\ signum_[p] \in Idx \cup {Invalid}
    BY <1>1
  <2> QED BY <1>1, <1>3, <2>1
<1> QED BY <1>2, <1>3 DEF Finish

\* A handler that becomes late is where it was.
LEMMA OutliveMoves ==
  ASSUME TypeOK, NEW i, Outlive(i)
  PROVE  /\ hand' \in [Threads -> HandType]
         /\ \A t \in Threads : /\ hand'[t].pc = hand[t].pc
                               /\ hand'[t].idx = hand[t].idx
                               /\ hand'[t].fd = hand[t].fd
                               /\ hand'[t].late <=>
                                    \/ hand[t].late
                                    \/ hand[t].idx = i /\ hand[t].pc \in {"load", "write"}
<1>1. ASSUME NEW t \in Threads
      PROVE  /\ hand'[t] \in HandType
             /\ hand'[t].pc = hand[t].pc /\ hand'[t].idx = hand[t].idx
             /\ hand'[t].fd = hand[t].fd
             /\ hand'[t].late <=>
                  hand[t].late \/ (hand[t].idx = i /\ hand[t].pc \in {"load", "write"})
  <2> DEFINE b == hand[t].late \/ (hand[t].idx = i /\ hand[t].pc \in {"load", "write"})
  <2>1. hand[t] \in HandType
    BY DEF TypeOK, HandType
  <2>2. hand'[t] = [hand[t] EXCEPT !.late = b]
    BY DEF Outlive
  <2>3. b \in BOOLEAN
    OBVIOUS
  <2> HIDE DEF b
  <2>4. /\ hand'[t] \in HandType /\ hand'[t].late = b
        /\ hand'[t].pc = hand[t].pc /\ hand'[t].idx = hand[t].idx
        /\ hand'[t].fd = hand[t].fd
    BY <2>1, <2>2, <2>3 DEF HandType
  <2> QED BY <2>4 DEF b
<1>2. hand' = [t \in Threads |-> hand'[t]]
  BY DEF Outlive
<1> QED BY <1>1, <1>2

\* Destruction and the moves start by lowering the flag, or do all there is
\* to do at once.
LEMMA ReleaseInv ==
  ASSUME IInv, NEW o \in objs, NEW src \in SUBSET objs, op.pc = "idle",
         Release(o, src),
         UNCHANGED <<alive, kernel, handled, wt, raised, unseen>>
  PROVE  IInv'
<1> USE SignalAssumption
<1>0. o \in Objects /\ src \subseteq Objects
  BY DEF IInv, TypeOK
<1>1. CASE /\ signum_[o] \in Idx
           /\ notifier' = [notifier EXCEPT ![signum_[o]].is_init = FALSE]
           /\ op' = [pc |-> "rel_r", obj |-> {o}, src |-> src, idx |-> signum_[o]]
           /\ Outlive(signum_[o])
           /\ UNCHANGED <<objs, signum_>>
  <2>0. /\ hand' \in [Threads -> HandType]
        /\ \A t \in Threads : /\ hand'[t].pc = hand[t].pc
                              /\ hand'[t].idx = hand[t].idx /\ hand'[t].fd = hand[t].fd
    BY <1>1, OutliveMoves DEF IInv
  <2>1. /\ notifier' \in NotifierType
        /\ \A j \in Idx : notifier'[j].r = notifier[j].r /\ notifier'[j].w = notifier[j].w
        /\ \A j \in Idx : j # signum_[o] => notifier'[j] = notifier[j]
        /\ ~notifier'[signum_[o]].is_init
    BY <1>1, NotifierFlag DEF IInv
  <2>2. TypeOK'
    <3>1. op' \in [pc : {"idle", "ctor_init", "ctor_reg", "rel_r", "rel_w", "rel_dfl"},
                   obj : SUBSET Objects, src : SUBSET Objects, idx : Idx \cup {Invalid}]
      BY <1>0, <1>1
    <3> QED BY <1>1, <2>0, <2>1, <3>1 DEF IInv, TypeOK, NotifierType, HandType, kernel
  <2>3. FdInv'
    BY <2>1 DEF IInv, FdInv, kernel
  <2>4. OpInv' /\ ThreadInv'
    BY <1>1, <2>0, <2>1 DEF IInv, OpInv, ThreadInv
  <2>5. NoLostSignal'
    BY <1>1, <2>0, <2>1 DEF IInv, NoLostSignal, Draining, Delivering, kernel
  <2> QED BY <2>2, <2>3, <2>4, <2>5 DEF IInv
<1>2. CASE Finish(o, src) /\ UNCHANGED <<notifier, op, hand>>
  <2>1. signum_' \in [Objects -> Idx \cup {Invalid}] /\ objs' \subseteq Objects
    BY <1>0, <1>2, FinishType DEF IInv
  <2>2. TypeOK'
    BY <1>2, <2>1 DEF IInv, TypeOK, kernel
  <2>3. FdInv' /\ OpInv' /\ ThreadInv'
    BY <1>2 DEF IInv, FdInv, OpInv, ThreadInv, kernel
  <2>4. NoLostSignal'
    BY <1>2 DEF IInv, NoLostSignal, Draining, Delivering, kernel
  <2> QED BY <2>2, <2>3, <2>4 DEF IInv
<1> QED BY <1>1, <1>2 DEF Release

\* A move construction only touches the two objects.
LEMMA MoveConstructInv ==
  ASSUME IInv, NEW o \in Objects, NEW p \in Objects, MoveConstruct(o, p)
  PROVE  IInv'
<1>1. TypeOK'
  <2>1. signum_' \in [Objects -> Idx \cup {Invalid}] /\ objs' \subseteq Objects
    BY DEF MoveConstruct, IInv, TypeOK
  <2> QED BY <2>1 DEF MoveConstruct, IInv, TypeOK, kernel
<1>2. FdInv' /\ OpInv' /\ ThreadInv'
  BY DEF MoveConstruct, IInv, FdInv, OpInv, ThreadInv, kernel
<1>3. NoLostSignal'
  BY DEF MoveConstruct, IInv, NoLostSignal, Draining, Delivering, kernel
<1> QED BY <1>1, <1>2, <1>3 DEF IInv

FdTable == [Fds -> [pipe : Idx \cup {-1}, end : {"none", "r", "w"}]]

\* close(2) frees one entry of the table and touches no other.
LEMMA CloseFdEffect ==
  ASSUME TypeOK, NEW fd, CloseFd(fd)
  PROVE  fdtab' \in FdTable /\ \A f \in Fds : f # fd => fdtab'[f] = fdtab[f]
<1>1. fdtab \in FdTable
  BY DEF TypeOK, FdTable
<1>2. Closed \in [pipe : Idx \cup {-1}, end : {"none", "r", "w"}]
  BY DEF Closed
<1> QED BY <1>1, <1>2 DEF CloseFd, FdTable

\* Descriptors of different ends are different.
LEMMA EndsDiffer ==
  ASSUME NEW i, NEW j, NEW a, NEW b, NEW f, NEW g, i # j \/ a # b,
         f # NoFd, fdtab[f] = [pipe |-> i, end |-> a],
         g # NoFd => fdtab[g] = [pipe |-> j, end |-> b]
  PROVE  f # g
<1> SUFFICES ASSUME f = g PROVE FALSE
  OBVIOUS
<1>1. [pipe |-> i, end |-> a] = [pipe |-> j, end |-> b]
  OBVIOUS
<1>2. [pipe |-> i, end |-> a].pipe = [pipe |-> j, end |-> b].pipe
  BY <1>1
<1>3. [pipe |-> i, end |-> a].end = [pipe |-> j, end |-> b].end
  BY <1>1
<1> QED BY <1>2, <1>3

\* A notifier that forgets one end keeps the other and its flag.
LEMMA ForgetRead ==
  ASSUME TypeOK, op.idx \in Idx, notifier' = [notifier EXCEPT ![op.idx].r = NoFd]
  PROVE  /\ notifier' \in NotifierType
         /\ \A j \in Idx : /\ notifier'[j].is_init = notifier[j].is_init
                           /\ notifier'[j].w = notifier[j].w
                           /\ j # op.idx => notifier'[j] = notifier[j]
         /\ notifier'[op.idx].r = NoFd
<1>1. notifier \in NotifierType
  BY DEF TypeOK, NotifierType
<1>2. notifier[op.idx] \in [is_init : BOOLEAN, r : Fds \cup {NoFd}, w : Fds \cup {NoFd}]
  BY <1>1 DEF NotifierType
<1>3. notifier'[op.idx] = [notifier[op.idx] EXCEPT !.r = NoFd]
  BY <1>1 DEF NotifierType
<1>4. /\ notifier'[op.idx] \in [is_init : BOOLEAN, r : Fds \cup {NoFd}, w : Fds \cup {NoFd}]
      /\ notifier'[op.idx].r = NoFd
      /\ notifier'[op.idx].w = notifier[op.idx].w
      /\ notifier'[op.idx].is_init = notifier[op.idx].is_init
  BY <1>2, <1>3
<1>5. \A j \in Idx : j # op.idx => notifier'[j] = notifier[j]
  BY <1>1 DEF NotifierType
<1>6. notifier' \in NotifierType
  BY <1>1, <1>4 DEF NotifierType
<1> QED BY <1>4, <1>5, <1>6

\* The same for the write end.
LEMMA ForgetWrite ==
  ASSUME TypeOK, op.idx \in Idx, notifier' = [notifier EXCEPT ![op.idx].w = NoFd]
  PROVE  /\ notifier' \in NotifierType
         /\ \A j \in Idx : /\ notifier'[j].is_init = notifier[j].is_init
                           /\ notifier'[j].r = notifier[j].r
                           /\ j # op.idx => notifier'[j] = notifier[j]
         /\ notifier'[op.idx].w = NoFd
<1>1. notifier \in NotifierType
  BY DEF TypeOK, NotifierType
<1>2. notifier[op.idx] \in [is_init : BOOLEAN, r : Fds \cup {NoFd}, w : Fds \cup {NoFd}]
  BY <1>1 DEF NotifierType
<1>3. notifier'[op.idx] = [notifier[op.idx] EXCEPT !.w = NoFd]
  BY <1>1 DEF NotifierType
<1>4. /\ notifier'[op.idx] \in [is_init : BOOLEAN, r : Fds \cup {NoFd}, w : Fds \cup {NoFd}]
      /\ notifier'[op.idx].w = NoFd
      /\ notifier'[op.idx].r = notifier[op.idx].r
      /\ notifier'[op.idx].is_init = notifier[op.idx].is_init
  BY <1>2, <1>3
<1>5. \A j \in Idx : j # op.idx => notifier'[j] = notifier[j]
  BY <1>1 DEF NotifierType
<1>6. notifier' \in NotifierType
  BY <1>1, <1>4 DEF NotifierType
<1> QED BY <1>4, <1>5, <1>6

\* Closing a notifier's descriptor leaves the others where they are: no two
\* of them are the same.
LEMMA CloseReadInv == ASSUME IInv, RelCloseRead PROVE IInv'
<1> USE DEF RelCloseRead
<1>0. op.idx \in Idx /\ ~notifier[op.idx].is_init
  BY DEF IInv, OpInv
<1>1. notifier' = [notifier EXCEPT ![op.idx].r = NoFd]
  OBVIOUS
<1>2. /\ notifier' \in NotifierType
      /\ \A j \in Idx : /\ notifier'[j].is_init = notifier[j].is_init
                        /\ notifier'[j].w = notifier[j].w
                        /\ j # op.idx => notifier'[j] = notifier[j]
      /\ notifier'[op.idx].r = NoFd
  BY <1>0, <1>1, ForgetRead DEF IInv
<1>3. fdtab' \in FdTable /\ \A f \in Fds : f # notifier[op.idx].r => fdtab'[f] = fdtab[f]
  BY CloseFdEffect DEF IInv
<1>4. /\ op' \in [pc : {"idle", "ctor_init", "ctor_reg", "rel_r", "rel_w", "rel_dfl"},
                  obj : SUBSET Objects, src : SUBSET Objects, idx : Idx \cup {Invalid}]
      /\ op'.idx = op.idx /\ op'.pc = "rel_w"
  BY DEF IInv, TypeOK
<1>5. TypeOK'
  BY <1>2, <1>3, <1>4 DEF IInv, TypeOK, NotifierType, FdTable
<1>6. FdInv'
  <2>1. ASSUME NEW j \in Idx, notifier'[j].r # NoFd
        PROVE  fdtab'[notifier'[j].r] = [pipe |-> j, end |-> "r"]
    <3>1. j # op.idx /\ notifier'[j].r = notifier[j].r
      BY <1>2, <2>1
    <3>2. notifier[j].r \in Fds /\ fdtab[notifier[j].r] = [pipe |-> j, end |-> "r"]
      BY <2>1, <3>1, NotifierEntry DEF IInv, FdInv
    <3>3. notifier[op.idx].r # NoFd =>
            fdtab[notifier[op.idx].r] = [pipe |-> op.idx, end |-> "r"]
      BY <1>0 DEF IInv, FdInv
    <3>4. notifier[j].r # notifier[op.idx].r
      <4>1. notifier[j].r # NoFd
        BY <2>1, <3>1
      <4> QED BY <3>1, <3>2, <3>3, <4>1, EndsDiffer
    <3> QED BY <1>3, <3>1, <3>2, <3>4
  <2>2. ASSUME NEW j \in Idx, notifier'[j].w # NoFd
        PROVE  fdtab'[notifier'[j].w] = [pipe |-> j, end |-> "w"]
    <3>1. notifier'[j].w = notifier[j].w
      BY <1>2
    <3>2. notifier[j].w \in Fds /\ fdtab[notifier[j].w] = [pipe |-> j, end |-> "w"]
      BY <2>2, <3>1, NotifierEntry DEF IInv, FdInv
    <3>3. notifier[op.idx].r # NoFd =>
            fdtab[notifier[op.idx].r] = [pipe |-> op.idx, end |-> "r"]
      BY <1>0 DEF IInv, FdInv
    <3>4. notifier[j].w # notifier[op.idx].r
      <4>1. notifier[j].w # NoFd
        BY <2>2, <3>1
      <4> QED BY <3>1, <3>2, <3>3, <4>1, EndsDiffer
    <3> QED BY <1>3, <3>1, <3>2, <3>4
  <2> QED BY <2>1, <2>2 DEF FdInv
<1>7. OpInv' /\ ThreadInv'
  BY <1>0, <1>2, <1>4 DEF IInv, OpInv, ThreadInv
<1>8. NoLostSignal'
  BY <1>0, <1>2 DEF IInv, NoLostSignal, Draining, Delivering
<1> QED BY <1>5, <1>6, <1>7, <1>8 DEF IInv

\* Closing the write end, in the same way.
LEMMA CloseWriteInv == ASSUME IInv, RelCloseWrite PROVE IInv'
<1> USE DEF RelCloseWrite
<1>0. op.idx \in Idx /\ ~notifier[op.idx].is_init
  BY DEF IInv, OpInv
<1>1. notifier' = [notifier EXCEPT ![op.idx].w = NoFd]
  OBVIOUS
<1>2. /\ notifier' \in NotifierType
      /\ \A j \in Idx : /\ notifier'[j].is_init = notifier[j].is_init
                        /\ notifier'[j].r = notifier[j].r
                        /\ j # op.idx => notifier'[j] = notifier[j]
      /\ notifier'[op.idx].w = NoFd
  BY <1>0, <1>1, ForgetWrite DEF IInv
<1>3. fdtab' \in FdTable /\ \A f \in Fds : f # notifier[op.idx].w => fdtab'[f] = fdtab[f]
  BY CloseFdEffect DEF IInv
<1>4. /\ op' \in [pc : {"idle", "ctor_init", "ctor_reg", "rel_r", "rel_w", "rel_dfl"},
                  obj : SUBSET Objects, src : SUBSET Objects, idx : Idx \cup {Invalid}]
      /\ op'.idx = op.idx /\ op'.pc = "rel_dfl"
  BY DEF IInv, TypeOK
<1>5. TypeOK'
  BY <1>2, <1>3, <1>4 DEF IInv, TypeOK, NotifierType, FdTable
<1>6. FdInv'
  <2>1. ASSUME NEW j \in Idx, notifier'[j].w # NoFd
        PROVE  fdtab'[notifier'[j].w] = [pipe |-> j, end |-> "w"]
    <3>1. j # op.idx /\ notifier'[j].w = notifier[j].w
      BY <1>2, <2>1
    <3>2. notifier[j].w \in Fds /\ fdtab[notifier[j].w] = [pipe |-> j, end |-> "w"]
      BY <2>1, <3>1, NotifierEntry DEF IInv, FdInv
    <3>3. notifier[op.idx].w # NoFd =>
            fdtab[notifier[op.idx].w] = [pipe |-> op.idx, end |-> "w"]
      BY <1>0 DEF IInv, FdInv
    <3>4. notifier[j].w # notifier[op.idx].w
      <4>1. notifier[j].w # NoFd
        BY <2>1, <3>1
      <4> QED BY <3>1, <3>2, <3>3, <4>1, EndsDiffer
    <3> QED BY <1>3, <3>1, <3>2, <3>4
  <2>2. ASSUME NEW j \in Idx, notifier'[j].r # NoFd
        PROVE  fdtab'[notifier'[j].r] = [pipe |-> j, end |-> "r"]
    <3>1. notifier'[j].r = notifier[j].r
      BY <1>2
    <3>2. notifier[j].r \in Fds /\ fdtab[notifier[j].r] = [pipe |-> j, end |-> "r"]
      BY <2>2, <3>1, NotifierEntry DEF IInv, FdInv
    <3>3. notifier[op.idx].w # NoFd =>
            fdtab[notifier[op.idx].w] = [pipe |-> op.idx, end |-> "w"]
      BY <1>0 DEF IInv, FdInv
    <3>4. notifier[j].r # notifier[op.idx].w
      <4>1. notifier[j].r # NoFd
        BY <2>2, <3>1
      <4> QED BY <3>1, <3>2, <3>3, <4>1, EndsDiffer
    <3> QED BY <1>3, <3>1, <3>2, <3>4
  <2> QED BY <2>1, <2>2 DEF FdInv
<1>7. OpInv' /\ ThreadInv'
  BY <1>0, <1>2, <1>4 DEF IInv, OpInv, ThreadInv
<1>8. NoLostSignal'
  BY <1>0, <1>2 DEF IInv, NoLostSignal, Draining, Delivering
<1> QED BY <1>5, <1>6, <1>7, <1>8 DEF IInv

\* The default disposition comes back last, and the destination is free.
LEMMA RelDefaultInv == ASSUME IInv, RelDefault PROVE IInv'
<1> USE DEF RelDefault
<1>1. op.obj \subseteq Objects /\ op.src \in SUBSET Objects
  BY DEF IInv, TypeOK
<1>2. signum_' \in [Objects -> Idx \cup {Invalid}] /\ objs' \subseteq Objects
  BY <1>1, FinishType DEF IInv
<1>3. op' \in [pc : {"idle", "ctor_init", "ctor_reg", "rel_r", "rel_w", "rel_dfl"},
               obj : SUBSET Objects, src : SUBSET Objects, idx : Idx \cup {Invalid}]
  BY DEF OpIdle
<1>4. TypeOK'
  BY <1>2, <1>3 DEF IInv, TypeOK, kernel
<1>5. FdInv' /\ OpInv' /\ ThreadInv'
  BY DEF IInv, FdInv, OpInv, ThreadInv, OpIdle, kernel
<1>6. NoLostSignal'
  BY DEF IInv, NoLostSignal, Draining, Delivering, kernel
<1> QED BY <1>4, <1>5, <1>6 DEF IInv

-----------------------------------------------------------------------------
(* Delivery, the handler and wait().                                       *)

WaitType == [pc : {"idle", "poll", "eintr", "getfl", "setfl", "drain", "restore"},
             idx : Idx \cup {Invalid}, was : BOOLEAN, arrived : BOOLEAN, ret : BOOLEAN]

\* What a delivery does to the waits and handlers.
LEMMA DeliverMoves ==
  ASSUME IInv, NEW s \in 1 .. NSig, NEW t \in Threads, Deliver(s, t)
  PROVE  /\ UNCHANGED <<notifier, op, bytes>> /\ hand[t].pc = "none"
         /\ \/ UNCHANGED hand
            \/ /\ hand'[t].pc = "check" /\ ~hand'[t].late
               /\ \A u \in Threads : u # t => hand'[u] = hand[u]
         /\ wt' \in [Threads -> WaitType]
         /\ \A u \in Threads : /\ wt'[u].idx = wt[u].idx
                               /\ \/ wt'[u].pc = wt[u].pc
                                  \/ wt[u].pc = "poll" /\ wt'[u].pc = "eintr"
<1>1. UNCHANGED <<notifier, op, bytes>> /\ hand[t].pc = "none"
  BY DEF Deliver, kernel
<1>2. CASE UNCHANGED <<wt, hand>>
  BY <1>1, <1>2 DEF IInv, TypeOK, WaitType
<1>3. ASSUME NEW inPoll \in BOOLEAN,
             hand' = [hand EXCEPT ![t] = [NoHandler EXCEPT !.pc = "check", !.idx = s - 1]],
             wt' = [u \in Threads |->
               [wt[u] EXCEPT
                  !.arrived = @ \/ wt[u].idx = s - 1,
                  !.pc = IF inPoll /\ u = t /\ @ = "poll" /\ bytes[wt[u].idx] = 0
                         THEN "eintr" ELSE @]]
      PROVE  /\ hand'[t].pc = "check" /\ ~hand'[t].late
             /\ \A u \in Threads : u # t => hand'[u] = hand[u]
             /\ wt' \in [Threads -> WaitType]
             /\ \A u \in Threads : /\ wt'[u].idx = wt[u].idx
                                   /\ \/ wt'[u].pc = wt[u].pc
                                      \/ wt[u].pc = "poll" /\ wt'[u].pc = "eintr"
  <2>1. ASSUME NEW u \in Threads
        PROVE  /\ wt'[u] \in WaitType
               /\ wt'[u].idx = wt[u].idx
               /\ \/ wt'[u].pc = wt[u].pc
                  \/ wt[u].pc = "poll" /\ wt'[u].pc = "eintr"
    <3> DEFINE a == wt[u].arrived \/ wt[u].idx = s - 1
               p == IF inPoll /\ u = t /\ wt[u].pc = "poll" /\ bytes[wt[u].idx] = 0
                    THEN "eintr" ELSE wt[u].pc
    <3>1. wt[u] \in WaitType
      BY DEF IInv, TypeOK, WaitType
    <3>2. wt'[u] = [wt[u] EXCEPT !.arrived = a, !.pc = p]
      BY <1>3
    <3>3. a \in BOOLEAN /\ (p = wt[u].pc \/ (wt[u].pc = "poll" /\ p = "eintr"))
      OBVIOUS
    <3> HIDE DEF a, p
    <3>4. p \in {"idle", "poll", "eintr", "getfl", "setfl", "drain", "restore"}
      BY <3>1, <3>3 DEF WaitType
    <3>5. wt'[u].idx = wt[u].idx /\ wt'[u].pc = p
      BY <3>1, <3>2 DEF WaitType
    <3>6. wt'[u] \in WaitType
      BY <3>1, <3>2, <3>3, <3>4 DEF WaitType
    <3> QED BY <3>3, <3>5, <3>6
  <2>2. wt' \in [Threads -> WaitType]
    BY <1>3, <2>1
  <2>3. /\ hand'[t].pc = "check" /\ ~hand'[t].late
        /\ \A u \in Threads : u # t => hand'[u] = hand[u]
    BY <1>3 DEF IInv, TypeOK, NoHandler
  <2> QED BY <2>1, <2>2, <2>3
<1> QED BY <1>1, <1>2, <1>3 DEF Deliver

\* A delivery starts a handler, which owes the pipe a byte; a wait it cuts
\* short was not draining.
LEMMA DeliverInv ==
  ASSUME IInv, NEW s \in 1 .. NSig, NEW t \in Threads, Deliver(s, t)
  PROVE  IInv'
<1> USE SignalAssumption
<1>0. /\ UNCHANGED <<objs, signum_, notifier, kernel, handled, op>>
      /\ raised' \in Nat /\ hand[t].pc = "none"
  <2>1. raised' = raised + 1 /\ raised \in Nat
    BY DEF Deliver, IInv, TypeOK
  <2>2. raised' \in Nat
    BY <2>1
  <2> QED BY <2>2 DEF Deliver
<1>1. CASE alive' = FALSE /\ UNCHANGED <<wt, hand, unseen>>
  <2>1. TypeOK'
    BY <1>0, <1>1 DEF IInv, TypeOK, kernel
  <2>2. FdInv' /\ OpInv' /\ ThreadInv' /\ NoLostSignal'
    BY <1>0, <1>1 DEF IInv, FdInv, OpInv, ThreadInv, NoLostSignal, kernel
  <2> QED BY <2>1, <2>2 DEF IInv
<1>2. ASSUME NEW inPoll \in BOOLEAN,
             hand' = [hand EXCEPT ![t] = [NoHandler EXCEPT !.pc = "check", !.idx = s - 1]],
             unseen' = [unseen EXCEPT ![s - 1] = TRUE],
             wt' = [u \in Threads |->
               [wt[u] EXCEPT
                  !.arrived = @ \/ wt[u].idx = s - 1,
                  !.pc = IF inPoll /\ u = t /\ @ = "poll" /\ bytes[wt[u].idx] = 0
                         THEN "eintr" ELSE @]],
             UNCHANGED alive
      PROVE  IInv'
  <2>0. s - 1 \in Idx
    BY DEF Idx
  <2>1. ASSUME NEW u \in Threads
        PROVE  /\ wt'[u] \in WaitType
               /\ wt'[u].idx = wt[u].idx
               /\ \/ wt'[u].pc = wt[u].pc
                  \/ wt[u].pc = "poll" /\ wt'[u].pc = "eintr"
    BY DeliverMoves
  <2>2. /\ hand' \in [Threads -> HandType]
        /\ hand'[t].pc = "check" /\ hand'[t].idx = s - 1
        /\ \A u \in Threads : u # t => hand'[u] = hand[u]
    <3>1. /\ [NoHandler EXCEPT !.pc = "check", !.idx = s - 1] \in HandType
          /\ [NoHandler EXCEPT !.pc = "check", !.idx = s - 1].pc = "check"
          /\ [NoHandler EXCEPT !.pc = "check", !.idx = s - 1].idx = s - 1
      BY <2>0 DEF NoHandler, HandType
    <3> QED BY <1>2, <3>1 DEF IInv, TypeOK, HandType
  <2>3. TypeOK'
    <3>1. wt' \in [Threads -> WaitType]
      BY <1>2, <2>1
    <3>2. unseen' \in [Idx -> BOOLEAN]
      BY <1>2 DEF IInv, TypeOK
    <3> QED BY <1>0, <1>2, <2>2, <3>1, <3>2 DEF IInv, TypeOK, WaitType, HandType, kernel
  <2>4. FdInv' /\ OpInv'
    BY <1>0 DEF IInv, FdInv, OpInv, kernel
  <2>5. ThreadInv'
    BY <2>0, <2>1, <2>2 DEF IInv, ThreadInv
  <2>6. NoLostSignal'
    <3> SUFFICES ASSUME alive, NEW i \in Idx, notifier[i].is_init, notifier[i].w # NoFd,
                        unseen'[i], ~(bytes[i] > 0)
                 PROVE  Draining(i)' \/ Delivering(i)'
      BY <1>0, <1>2 DEF NoLostSignal, kernel
    <3>1. CASE i = s - 1
      BY <2>2, <3>1 DEF Delivering
    <3>2. CASE i # s - 1
      <4>1. Draining(i) \/ Delivering(i)
        <5>1. unseen[i]
          BY <1>2, <3>2 DEF IInv, TypeOK
        <5> QED BY <5>1 DEF IInv, NoLostSignal
      <4>2. Draining(i) => Draining(i)'
        BY <2>1 DEF Draining
      <4>3. Delivering(i) => Delivering(i)'
        BY <1>0, <2>2 DEF Delivering
      <4> QED BY <4>1, <4>2, <4>3
    <3> QED BY <3>1, <3>2
  <2> QED BY <2>3, <2>4, <2>5, <2>6 DEF IInv
<1> QED BY <1>1, <1>2 DEF Deliver

\* The first two steps of the handler take it from one place to the next,
\* or end it.
LEMMA HandlerStepMoves ==
  ASSUME IInv, NEW t \in Threads, HandlerCheck(t) \/ HandlerLoad(t)
  PROVE  /\ UNCHANGED <<alive, objs, signum_, notifier, kernel, handled, op, wt, raised,
                       unseen>>
         /\ hand' \in [Threads -> HandType] /\ hand[t].idx \in Idx
         /\ \A u \in Threads : u # t => hand'[u] = hand[u]
         /\ \/ hand'[t] = NoHandler
            \/ /\ hand'[t].idx = hand[t].idx /\ hand'[t].late = hand[t].late
               /\ \/ /\ hand[t].pc = "check" /\ hand'[t].pc = "load"
                     /\ notifier[hand[t].idx].is_init
                  \/ /\ hand[t].pc = "load" /\ hand'[t].pc = "write"
                     /\ hand'[t].fd = notifier[hand[t].idx].w /\ hand'[t].fd \in Fds
         /\ hand'[t] = NoHandler =>
              ~notifier[hand[t].idx].is_init \/ notifier[hand[t].idx].w = NoFd
<1>0. hand[t].pc \in {"check", "load"} /\ hand[t] \in HandType /\ NoHandler \in HandType
  BY DEF HandlerCheck, HandlerLoad, LoadFd, HandlerStep, IInv, TypeOK, HandType, NoHandler
<1>1. hand[t].idx \in Idx
  BY <1>0 DEF IInv, ThreadInv
<1> DEFINE n == notifier[hand[t].idx]
<1>2. n.w \in Fds \cup {NoFd}
  BY <1>1 DEF IInv, TypeOK
<1>3. UNCHANGED <<alive, objs, signum_, notifier, kernel, handled, op, wt, raised, unseen>>
  BY DEF HandlerCheck, HandlerLoad, LoadFd, HandlerStep
<1>4. PICK h :
        /\ hand' = [hand EXCEPT ![t] = h]
        /\ \/ h = NoHandler /\ (~n.is_init \/ n.w = NoFd)
           \/ hand[t].pc = "check" /\ n.is_init /\ h = [hand[t] EXCEPT !.pc = "load"]
           \/ /\ hand[t].pc = "load" /\ n.w # NoFd
              /\ h = [hand[t] EXCEPT !.pc = "write", !.fd = n.w]
  BY DEF HandlerCheck, HandlerLoad, LoadFd, HandlerStep, Loading
<1> DEFINE w == n.w
           up == n.is_init
<1> HIDE DEF w, up
<1>5. /\ h \in HandType
      /\ \/ h = NoHandler /\ (~up \/ w = NoFd)
         \/ /\ h.idx = hand[t].idx /\ h.late = hand[t].late /\ h # NoHandler
            /\ \/ hand[t].pc = "check" /\ h.pc = "load" /\ up
               \/ hand[t].pc = "load" /\ h.pc = "write" /\ h.fd = w /\ w \in Fds
  <2>1. CASE h = NoHandler /\ (~up \/ w = NoFd)
    BY <1>0, <2>1
  <2>2. CASE hand[t].pc = "check" /\ up /\ h = [hand[t] EXCEPT !.pc = "load"]
    <3>1. /\ h \in HandType /\ h.pc = "load"
          /\ h.idx = hand[t].idx /\ h.late = hand[t].late
      BY <1>0, <2>2 DEF HandType
    <3>2. h # NoHandler
      BY <3>1 DEF NoHandler
    <3> QED BY <2>2, <3>1, <3>2
  <2>3. CASE /\ hand[t].pc = "load" /\ w # NoFd
             /\ h = [hand[t] EXCEPT !.pc = "write", !.fd = w]
    <3>0. w \in Fds
      BY <1>2, <2>3 DEF w
    <3>1. /\ h \in HandType /\ h.pc = "write" /\ h.fd = w
          /\ h.idx = hand[t].idx /\ h.late = hand[t].late
      BY <1>0, <2>3, <3>0 DEF HandType
    <3>2. h # NoHandler
      BY <3>1 DEF NoHandler
    <3> QED BY <2>3, <3>0, <3>1, <3>2
  <2> QED BY <1>4, <2>1, <2>2, <2>3 DEF w, up
<1>6. /\ hand' \in [Threads -> HandType] /\ hand'[t] = h
      /\ \A u \in Threads : u # t => hand'[u] = hand[u]
  BY <1>4, <1>5 DEF IInv, TypeOK, HandType
<1> QED BY <1>1, <1>3, <1>5, <1>6 DEF w, up

\* The handler looks at the flag and then loads the descriptor, or gives up
\* when there is nothing to write to.
LEMMA HandlerStepInv ==
  ASSUME IInv, NEW t \in Threads, HandlerCheck(t) \/ HandlerLoad(t)
  PROVE  IInv'
<1>2. UNCHANGED <<alive, objs, signum_, notifier, kernel, handled, op, wt, raised, unseen>>
  BY HandlerStepMoves
<1>3. /\ hand' \in [Threads -> HandType] /\ hand[t].idx \in Idx
      /\ \A u \in Threads : u # t => hand'[u] = hand[u]
  BY HandlerStepMoves
<1>4. \/ hand'[t] = NoHandler
      \/ /\ hand'[t].idx = hand[t].idx
         /\ \/ hand'[t].pc = "load"
            \/ /\ hand'[t].pc = "write" /\ hand'[t].fd \in Fds
               /\ hand'[t].fd = notifier[hand[t].idx].w
  BY HandlerStepMoves
<1>5. TypeOK'
  BY <1>2, <1>3 DEF IInv, TypeOK, HandType, kernel
<1>6. FdInv' /\ OpInv'
  BY <1>2 DEF IInv, FdInv, OpInv, kernel
<1>7. ThreadInv'
  BY <1>2, <1>3, <1>4 DEF IInv, ThreadInv, NoHandler
<1>8. NoLostSignal'
  <2> SUFFICES ASSUME alive, NEW i \in Idx, notifier[i].is_init, notifier[i].w # NoFd,
                      unseen[i], ~(bytes[i] > 0)
               PROVE  Draining(i)' \/ Delivering(i)'
    BY <1>2 DEF NoLostSignal, kernel
  <2>1. Draining(i) \/ Delivering(i)
    BY DEF IInv, NoLostSignal
  <2>2. Draining(i) => Draining(i)'
    BY <1>2 DEF Draining
  <2>3. ASSUME NEW u \in Threads, hand[u].idx = i,
               \/ hand[u].pc \in {"check", "load"}
               \/ hand[u].pc = "write" /\ hand[u].fd = notifier[i].w
        PROVE  Delivering(i)'
    <3>1. CASE u = t
      <4>1. hand'[t] # NoHandler
        BY <2>3, <3>1, HandlerStepMoves
      <4> QED BY <1>2, <1>4, <2>3, <3>1, <4>1 DEF Delivering
    <3>2. CASE u # t
      BY <1>2, <1>3, <2>3, <3>2 DEF Delivering
    <3> QED BY <3>1, <3>2
  <2> QED BY <2>1, <2>2, <2>3 DEF Delivering
<1> QED BY <1>5, <1>6, <1>7, <1>8 DEF IInv

\* The byte is written where the handler's own notifier will look for it.
LEMMA HandlerWriteInv ==
  ASSUME IInv, NEW t \in Threads, HandlerWrite(t)
  PROVE  IInv'
<1> DEFINE f == fdtab[hand[t].fd]
<1>0. /\ hand[t].pc = "write"
      /\ hand' = [hand EXCEPT ![t] = NoHandler]
      /\ UNCHANGED <<objs, signum_, notifier, fdtab, nonblock, handled, op, wt, raised, unseen>>
      /\ \/ f.end = "w" /\ bytes' = [bytes EXCEPT ![f.pipe] = @ + 1] /\ UNCHANGED alive
         \/ f.end = "w" /\ alive' = FALSE /\ UNCHANGED bytes
         \/ f.end # "w" /\ UNCHANGED <<alive, bytes>>
  BY DEF HandlerWrite, WriteBytes
<1>1. /\ hand' \in [Threads -> HandType] /\ hand'[t] = NoHandler
      /\ \A u \in Threads : u # t => hand'[u] = hand[u]
  <2>1. NoHandler \in HandType
    BY DEF NoHandler, HandType
  <2> QED BY <1>0, <2>1 DEF IInv, TypeOK, HandType
<1>2. /\ bytes' \in [Idx -> Nat] /\ alive' \in BOOLEAN
      /\ \A i \in Idx : bytes'[i] >= bytes[i]
  <2>1. bytes \in [Idx -> Nat] /\ alive \in BOOLEAN
    BY DEF IInv, TypeOK
  <2>2. alive' \in BOOLEAN
    BY <1>0, <2>1
  <2> DEFINE p == f.pipe
  <2> HIDE DEF p, f
  <2>3. CASE bytes' = [bytes EXCEPT ![p] = @ + 1]
    <3>1. \A i \in Idx : bytes'[i] = bytes[i] \/ bytes'[i] = bytes[i] + 1
      BY <2>1, <2>3
    <3>2. bytes' = [i \in Idx |-> bytes'[i]]
      BY <2>1, <2>3
    <3>3. \A i \in Idx : bytes[i] \in Nat
      BY <2>1
    <3>4. \A i \in Idx : bytes'[i] \in Nat /\ bytes'[i] >= bytes[i]
      BY <3>1, <3>3
    <3> QED BY <2>2, <3>2, <3>4
  <2>4. CASE UNCHANGED bytes
    BY <2>1, <2>2, <2>4
  <2> QED BY <1>0, <2>3, <2>4 DEF p
<1> HIDE DEF f
<1>3. TypeOK'
  BY <1>0, <1>1, <1>2 DEF IInv, TypeOK, HandType
<1>4. FdInv' /\ OpInv'
  BY <1>0 DEF IInv, FdInv, OpInv
<1>5. ThreadInv'
  BY <1>0, <1>1 DEF IInv, ThreadInv, NoHandler
<1>6. NoLostSignal'
  <2> SUFFICES ASSUME alive', NEW i \in Idx, notifier[i].is_init, notifier[i].w # NoFd,
                      unseen[i]
               PROVE  bytes'[i] > 0 \/ Draining(i)' \/ Delivering(i)'
    BY <1>0 DEF NoLostSignal
  <2>1. bytes[i] \in Nat /\ bytes'[i] \in Nat
    BY <1>2 DEF IInv, TypeOK
  <2>2. bytes[i] > 0 \/ Draining(i) \/ Delivering(i)
    BY <1>0 DEF IInv, NoLostSignal
  <2>3. bytes[i] > 0 => bytes'[i] > 0
    BY <1>2, <2>1
  <2>4. Draining(i) => Draining(i)'
    BY <1>0 DEF Draining
  <2>5. ASSUME NEW u \in Threads, hand[u].idx = i,
               \/ hand[u].pc \in {"check", "load"}
               \/ hand[u].pc = "write" /\ hand[u].fd = notifier[i].w
        PROVE  bytes'[i] > 0 \/ Delivering(i)'
    <3>1. CASE u = t
      <4>1. f = [pipe |-> i, end |-> "w"]
        BY <1>0, <2>5, <3>1 DEF IInv, FdInv, f
      <4>2. f.end = "w" /\ f.pipe = i
        BY <4>1
      <4>3. bytes' = [bytes EXCEPT ![i] = @ + 1]
        BY <1>0, <4>2
      <4>4. bytes'[i] = bytes[i] + 1
        BY <4>3 DEF IInv, TypeOK
      <4> QED BY <2>1, <4>4
    <3>2. CASE u # t
      BY <1>0, <1>1, <2>5, <3>2 DEF Delivering
    <3> QED BY <3>1, <3>2
  <2> QED BY <2>2, <2>3, <2>4, <2>5 DEF Delivering
<1> QED BY <1>3, <1>4, <1>5, <1>6 DEF IInv

\* One thread's wait moves on, its index stays or the wait is over; the
\* handlers and the notifiers are not touched.
WaitMoves(t) ==
  /\ wt' \in [Threads -> WaitType]
  /\ \A u \in Threads : u # t => wt'[u] = wt[u]
  /\ wt'[t].pc # "idle" => wt'[t].idx \in Idx
  /\ UNCHANGED <<alive, objs, signum_, notifier, fdtab, handled, op, hand, raised>>

\* Such a step keeps everything but the relation of bytes and unseen.
LEMMA WaitMovesInv ==
  ASSUME IInv, NEW t \in Threads, WaitMoves(t), bytes' \in [Idx -> Nat],
         nonblock' \in [Idx -> BOOLEAN], unseen' \in [Idx -> BOOLEAN]
  PROVE  TypeOK' /\ FdInv' /\ OpInv' /\ ThreadInv'
<1>1. TypeOK'
  BY DEF IInv, TypeOK, WaitMoves, WaitType
<1>2. FdInv' /\ OpInv'
  BY DEF IInv, FdInv, OpInv, WaitMoves
<1>3. ThreadInv'
  BY DEF IInv, ThreadInv, WaitMoves
<1> QED BY <1>1, <1>2, <1>3

\* WaitStep only moves the program counter, WaitReturn ends the wait.
LEMMA WaitStepMoves ==
  ASSUME IInv, NEW t \in Threads, NEW from, NEW to, WaitStep(t, from, to),
         from # "idle", to \in {"getfl", "setfl", "drain", "restore"}
  PROVE  /\ WaitMoves(t) /\ wt[t].idx \in Idx
         /\ wt'[t].idx = wt[t].idx /\ wt'[t].pc = to /\ wt[t].pc = from
<1>1. wt[t] \in WaitType /\ wt \in [Threads -> WaitType]
  BY DEF IInv, TypeOK, WaitType
<1>2. wt[t].pc = from /\ wt[t].idx \in Idx
  BY DEF IInv, ThreadInv, WaitStep
<1>3. wt'[t] = [wt[t] EXCEPT !.pc = to]
  BY <1>1 DEF WaitStep
<1>4. wt'[t] \in WaitType /\ wt'[t].pc = to /\ wt'[t].idx = wt[t].idx
  BY <1>1, <1>3 DEF WaitType
<1>5. wt' = [wt EXCEPT ![t] = wt'[t]]
  BY <1>1, <1>3 DEF WaitStep
<1> QED BY <1>1, <1>2, <1>4, <1>5 DEF WaitStep, WaitMoves

\* A wait that returns takes nothing and forgets its index.
LEMMA WaitReturnMoves ==
  ASSUME IInv, NEW t \in Threads, NEW from, NEW v \in BOOLEAN, WaitReturn(t, from, v),
         from # "idle"
  PROVE  /\ WaitMoves(t) /\ wt[t].idx \in Idx
         /\ wt[t].pc = from /\ UNCHANGED <<bytes, unseen>>
<1>1. wt[t] \in WaitType /\ wt \in [Threads -> WaitType]
  BY DEF IInv, TypeOK, WaitType
<1>2. wt[t].pc = from /\ wt[t].idx \in Idx
  BY DEF IInv, ThreadInv, WaitReturn
<1> DEFINE a == wt[t].arrived /\ ~v
<1>3. wt' = [wt EXCEPT ![t] = [WaitIdle EXCEPT !.arrived = a, !.ret = v]]
  BY DEF WaitReturn
<1>4. a \in BOOLEAN
  BY <1>1 DEF WaitType
<1> HIDE DEF a
<1>5. /\ [WaitIdle EXCEPT !.arrived = a, !.ret = v] \in WaitType
      /\ [WaitIdle EXCEPT !.arrived = a, !.ret = v].pc = "idle"
  BY <1>4 DEF WaitType, WaitIdle
<1> QED BY <1>1, <1>2, <1>3, <1>5 DEF WaitReturn, WaitMoves

\* Reading the flags remembers them, and the wait goes on where it was.
LEMMA GetFlagsMoves ==
  ASSUME IInv, NEW t \in Threads, GetFlags(t)
  PROVE  /\ WaitMoves(t) /\ wt[t].pc = "getfl" /\ wt[t].idx \in Idx
         /\ wt'[t].idx = wt[t].idx /\ wt'[t].pc = "setfl"
<1> DEFINE b == nonblock[wt[t].idx]
<1>1. wt[t] \in WaitType /\ wt \in [Threads -> WaitType] /\ wt[t].idx \in Idx
  BY DEF GetFlags, IInv, TypeOK, ThreadInv, WaitType
<1>2. wt'[t] = [wt[t] EXCEPT !.pc = "setfl", !.was = b] /\ b \in BOOLEAN
  BY <1>1 DEF GetFlags, IInv, TypeOK
<1> HIDE DEF b
<1>3. wt'[t] \in WaitType /\ wt'[t].pc = "setfl" /\ wt'[t].idx = wt[t].idx
  BY <1>1, <1>2 DEF WaitType
<1>4. wt' = [wt EXCEPT ![t] = wt'[t]]
  BY <1>1 DEF GetFlags
<1> QED BY <1>1, <1>3, <1>4 DEF GetFlags, WaitMoves, kernel

\* A wait loses nothing as long as what it takes away is accounted for: the
\* bytes it reads by its draining, the end of its draining by unseen.
LEMMA WaitKeeps ==
  ASSUME IInv, NEW t \in Threads, WaitMoves(t),
         \A i \in Idx : unseen'[i] =>
            /\ unseen[i]
            /\ bytes[i] > 0 => bytes'[i] > 0 \/ Draining(i)'
            /\ wt[t].idx = i /\ wt[t].pc \in {"getfl", "setfl", "drain"} => Draining(i)'
  PROVE  NoLostSignal'
<1> SUFFICES ASSUME alive, NEW i \in Idx, notifier[i].is_init, notifier[i].w # NoFd,
                    unseen'[i]
             PROVE  bytes'[i] > 0 \/ Draining(i)' \/ Delivering(i)'
  BY DEF NoLostSignal, WaitMoves
<1>1. bytes[i] > 0 \/ Draining(i) \/ Delivering(i)
  BY DEF IInv, NoLostSignal
<1>2. Delivering(i) => Delivering(i)'
  BY DEF Delivering, WaitMoves
<1>3. ASSUME NEW u \in Threads, wt[u].idx = i, wt[u].pc \in {"getfl", "setfl", "drain"}
      PROVE  Draining(i)'
  <2>1. CASE u = t
    BY <1>3, <2>1
  <2>2. CASE u # t
    BY <1>3, <2>2 DEF Draining, WaitMoves
  <2> QED BY <2>1, <2>2
<1> QED BY <1>1, <1>2, <1>3 DEF Draining

\* The wait begins and polls, and returns false with nothing taken.
LEMMA WaitPollInv ==
  ASSUME IInv, NEW t \in Threads,
         (\E o \in Objects : WaitBegin(t, o)) \/ PollTimeout(t) \/ PollInterrupted(t)
  PROVE  IInv'
<1>0. bytes \in [Idx -> Nat] /\ nonblock \in [Idx -> BOOLEAN] /\ unseen \in [Idx -> BOOLEAN]
  BY DEF IInv, TypeOK
<1>1. /\ WaitMoves(t) /\ UNCHANGED <<bytes, nonblock, unseen>>
      /\ wt[t].pc \in {"idle", "poll", "eintr"}
  <2>1. ASSUME NEW o \in Objects, WaitBegin(t, o) PROVE <1>1
    <3>1. signum_[o] \in Idx /\ wt[t].pc = "idle"
      BY <2>1 DEF WaitBegin, CanCall
    <3>2. wt' = [wt EXCEPT ![t] = [WaitIdle EXCEPT !.pc = "poll", !.idx = signum_[o]]]
      BY <2>1 DEF WaitBegin
    <3>3. /\ [WaitIdle EXCEPT !.pc = "poll", !.idx = signum_[o]] \in WaitType
          /\ [WaitIdle EXCEPT !.pc = "poll", !.idx = signum_[o]].idx \in Idx
      BY <3>1 DEF WaitIdle, WaitType
    <3>4. /\ wt' \in [Threads -> WaitType]
          /\ \A u \in Threads : u # t => wt'[u] = wt[u]
          /\ wt'[t].idx \in Idx
      BY <3>2, <3>3 DEF IInv, TypeOK, WaitType
    <3> QED BY <2>1, <3>1, <3>4 DEF WaitBegin, WaitMoves, kernel
  <2>2. CASE PollTimeout(t)
    BY <2>2, WaitReturnMoves DEF PollTimeout
  <2>3. CASE PollInterrupted(t)
    BY <2>3, WaitReturnMoves DEF PollInterrupted
  <2> QED BY <2>1, <2>2, <2>3
<1>2. NoLostSignal'
  <2>1. wt[t].pc \notin {"getfl", "setfl", "drain"}
    BY <1>1
  <2> QED BY <1>1, <2>1, WaitKeeps
<1> QED BY <1>0, <1>1, <1>2, WaitMovesInv DEF IInv

\* The poll has found a byte: until the drain loop ends the wait is draining.
LEMMA WaitDrainInv ==
  ASSUME IInv, NEW t \in Threads,
         PollReady(t) \/ GetFlags(t) \/ SetFlags(t) \/ DrainRead(t)
  PROVE  IInv'
<1> USE SignalAssumption
<1>0. bytes \in [Idx -> Nat] /\ nonblock \in [Idx -> BOOLEAN] /\ unseen \in [Idx -> BOOLEAN]
  BY DEF IInv, TypeOK
<1>1. /\ WaitMoves(t) /\ wt[t].idx \in Idx /\ wt'[t].idx = wt[t].idx
      /\ wt'[t].pc \in {"getfl", "setfl", "drain"}
  <2>1. CASE PollReady(t)
    BY <2>1, WaitStepMoves DEF PollReady
  <2>2. CASE GetFlags(t)
    BY <2>2, GetFlagsMoves
  <2>3. CASE SetFlags(t)
    BY <2>3, WaitStepMoves DEF SetFlags
  <2>4. CASE DrainRead(t)
    BY <2>4, WaitStepMoves DEF DrainRead
  <2> QED BY <2>1, <2>2, <2>3, <2>4
<1>2. /\ bytes' \in [Idx -> Nat] /\ nonblock' \in [Idx -> BOOLEAN] /\ UNCHANGED unseen
      /\ \A i \in Idx : i # wt[t].idx => bytes'[i] = bytes[i]
  <2>1. CASE PollReady(t) \/ GetFlags(t)
    BY <1>0, <2>1 DEF PollReady, GetFlags, kernel
  <2>2. CASE SetFlags(t)
    BY <1>0, <2>2 DEF SetFlags
  <2>3. CASE DrainRead(t)
    <3> DEFINE k == wt[t].idx
    <3> HIDE DEF k
    <3>1. bytes' = [bytes EXCEPT ![k] = IF @ > BufSize THEN @ - BufSize ELSE 0]
      BY <2>3 DEF DrainRead, k
    <3>2. k \in Idx /\ bytes[k] \in Nat
      BY <1>0, <1>1 DEF k
    <3>3. bytes'[k] = IF bytes[k] > BufSize THEN bytes[k] - BufSize ELSE 0
      BY <1>0, <3>1, <3>2
    <3>4. bytes'[k] \in Nat
      BY <3>2, <3>3
    <3>5. bytes' = [bytes EXCEPT ![k] = bytes'[k]]
      BY <1>0, <3>1, <3>2
    <3>6. /\ bytes' \in [Idx -> Nat]
          /\ \A i \in Idx : i # k => bytes'[i] = bytes[i]
      BY <1>0, <3>4, <3>5
    <3> QED BY <1>0, <2>3, <3>6 DEF DrainRead, k
  <2> QED BY <2>1, <2>2, <2>3
<1>3. Draining(wt[t].idx)'
  BY <1>1 DEF Draining
<1>4. NoLostSignal'
  BY <1>1, <1>2, <1>3, WaitKeeps
<1> QED BY <1>0, <1>1, <1>2, <1>4, WaitMovesInv DEF IInv

\* The drain loop ends with an empty pipe, and the wait will return true.
LEMMA WaitEndInv ==
  ASSUME IInv, NEW t \in Threads, DrainEnd(t) \/ Restore(t)
  PROVE  IInv'
<1>0. bytes \in [Idx -> Nat] /\ nonblock \in [Idx -> BOOLEAN] /\ unseen \in [Idx -> BOOLEAN]
  BY DEF IInv, TypeOK
<1>1. CASE DrainEnd(t)
  <2>1. WaitMoves(t) /\ wt[t].idx \in Idx /\ UNCHANGED <<bytes, nonblock>>
    BY <1>1, WaitStepMoves DEF DrainEnd
  <2>2. unseen' = [unseen EXCEPT ![wt[t].idx] = FALSE]
    BY <1>1 DEF DrainEnd
  <2>3. unseen' \in [Idx -> BOOLEAN]
    BY <1>0, <2>2
  <2>4. \A i \in Idx : unseen'[i] => unseen[i] /\ i # wt[t].idx
    BY <1>0, <2>1, <2>2
  <2>5. NoLostSignal'
    BY <2>1, <2>4, WaitKeeps
  <2> QED BY <1>0, <2>1, <2>3, <2>5, WaitMovesInv DEF IInv
<1>2. CASE Restore(t)
  <2>1. /\ WaitMoves(t) /\ wt[t].idx \in Idx /\ wt[t].pc = "restore"
        /\ UNCHANGED <<bytes, unseen>>
    BY <1>2, WaitReturnMoves DEF Restore
  <2>2. nonblock' \in [Idx -> BOOLEAN]
    <3>1. wt[t].was \in BOOLEAN
      BY DEF IInv, TypeOK
    <3> QED BY <1>0, <1>2, <3>1 DEF Restore
  <2>3. wt[t].pc \notin {"getfl", "setfl", "drain"}
    BY <2>1
  <2>4. NoLostSignal'
    BY <2>1, <2>3, WaitKeeps
  <2> QED BY <1>0, <2>1, <2>2, <2>4, WaitMovesInv DEF IInv
<1> QED BY <1>1, <1>2

-----------------------------------------------------------------------------

\* Every step of every actor keeps the invariant.
LEMMA NextInv == IInv /\ [Next]_vars => IInv'
<1> SUFFICES ASSUME IInv, [Next]_vars PROVE IInv'
  OBVIOUS
<1>1. CASE UNCHANGED vars
  <2>1. TypeOK' /\ FdInv' /\ OpInv' /\ ThreadInv'
    BY <1>1 DEF IInv, TypeOK, FdInv, OpInv, ThreadInv, vars
  <2>2. NoLostSignal'
    BY <1>1 DEF IInv, NoLostSignal, Draining, Delivering, vars
  <2> QED BY <2>1, <2>2 DEF IInv
<1>2. CASE MainStep
  <2>1. ASSUME NEW o \in Objects, NEW s \in Args, Construct(o, s) PROVE IInv'
    BY <2>1, ConstructInv
  <2>2. ASSUME NEW o \in Objects, Destroy(o) PROVE IInv'
    BY <2>2, ReleaseInv DEF Destroy, MainFree
  <2>3. ASSUME NEW o \in Objects, NEW p \in Objects, MoveAssign(o, p) PROVE IInv'
    <3>1. {p} \in SUBSET objs
      BY <2>3 DEF MoveAssign
    <3> QED BY <2>3, <3>1, ReleaseInv DEF MoveAssign, MainFree
  <2>4. ASSUME NEW o \in Objects, NEW p \in Objects, MoveConstruct(o, p) PROVE IInv'
    BY <2>4, MoveConstructInv
  <2>5. CASE CtorInit \/ CtorRegister
    BY <2>5, CtorInv
  <2>6. CASE RelCloseRead \/ RelCloseWrite \/ RelDefault
    BY <2>6, CloseReadInv, CloseWriteInv, RelDefaultInv
  <2> QED BY <1>2, <2>1, <2>2, <2>3, <2>4, <2>5, <2>6 DEF MainStep
<1>3. ASSUME NEW t \in Threads, NEW o \in Objects, Raise(t, o) PROVE IInv'
  <2>1. signum_[o] + 1 \in 1 .. NSig
    BY <1>3, SignalAssumption DEF Raise, CanCall, Idx
  <2> QED BY <1>3, <2>1, DeliverInv DEF Raise
<1>4. ASSUME NEW t \in Threads, NEW o \in Objects, NEW u \in Threads, Kill(t, o, u)
      PROVE  IInv'
  <2>1. signum_[o] + 1 \in 1 .. NSig
    BY <1>4, SignalAssumption DEF Kill, CanCall, Idx
  <2> QED BY <1>4, <2>1, DeliverInv DEF Kill
<1>5. ASSUME NEW t \in Threads, NEW s \in 1 .. NSig, Deliver(s, t) PROVE IInv'
  BY <1>5, DeliverInv
<1>6. ASSUME NEW t \in Threads,
             (\E o \in Objects : WaitBegin(t, o)) \/ WaitSteps(t)
      PROVE  IInv'
  BY <1>6, WaitPollInv, WaitDrainInv, WaitEndInv DEF WaitSteps
<1>7. ASSUME NEW t \in Threads, HandlerSteps(t) PROVE IInv'
  BY <1>7, HandlerStepInv, HandlerWriteInv DEF HandlerSteps
<1>8. CASE Next
  BY <1>2, <1>3, <1>4, <1>5, <1>6, <1>7, <1>8 DEF Next
<1> QED BY <1>1, <1>8

\* The invariant holds of every behaviour of the signal objects.
THEOREM Invariance == Spec => []IInv
<1>1. Init => IInv
  BY InitInv
<1>2. IInv /\ [Next]_vars => IInv'
  BY NextInv
<1> QED BY <1>1, <1>2, PTL DEF Spec

\* Every variable keeps its type: a notifier's descriptors, the objects'
\* numbers and the threads' places in wait() and the handler stay sane.
THEOREM TypeCorrect == Spec => []TypeOK
<1>1. IInv => TypeOK
  BY DEF IInv
<1> QED BY <1>1, Invariance, PTL

\* No delivered signal is lost (signal.cpp 84-143): a wait() that has not
\* come yet will find a byte, or a handler is about to write it.
THEOREM SignalsAreKept == Spec => []NoLostSignal
<1>1. IInv => NoLostSignal
  BY DEF IInv
<1> QED BY <1>1, Invariance, PTL

-----------------------------------------------------------------------------
(* Who owns a notifier.                                                    *)

\* The destructor or assignment under way has taken notifier i down; the
\* constructor under way has brought i up and not yet taken it over.
Releasing(i) == op.pc \in {"rel_r", "rel_w", "rel_dfl"} /\ op.idx = i
Registering(i) == op.pc = "ctor_reg" /\ op.idx = i

\* An operation works on one object: a constructor on one that does not yet
\* exist and for a number nobody holds, the others on one that holds op.idx.
OpShape ==
  /\ op.pc \in {"ctor_init", "ctor_reg"} =>
       /\ \E o \in Objects \ objs : op.obj = {o}
       /\ \A p \in objs : signum_[p] # op.idx
  /\ op.pc = "ctor_reg" => notifier[op.idx].is_init
  /\ op.pc \in {"rel_r", "rel_w", "rel_dfl"} =>
       /\ \E o \in objs : op.obj = {o} /\ signum_[o] = op.idx
       /\ op.src \subseteq objs

\* No two objects hold the same number.
Unique == \A o, p \in objs : o # p /\ signum_[o] # Invalid => signum_[o] # signum_[p]

\* An initialised notifier has its object, or is about to get it.
Owned == \A i \in Idx :
  notifier[i].is_init => Registering(i) \/ \E o \in objs : signum_[o] = i

\* An object's notifier is initialised, or the object is being released.
Flagged == \A o \in objs :
  signum_[o] \in Idx => notifier[signum_[o]].is_init \/ Releasing(signum_[o])

\* The handler is installed after the flag has gone up and until after it
\* has come down, for the numbers signal(2) accepts.
Installed == \A i \in Idx :
  i + 1 \in handled <=> /\ i + 1 \notin Uncatchable
                        /\ \/ notifier[i].is_init /\ ~Registering(i)
                           \/ Releasing(i)

OwnersInv == OpShape /\ Unique /\ Owned /\ Flagged /\ Installed

\* What only Main's operations change.
Table == <<objs, signum_, notifier, fdtab, handled, op>>

\* A wait, a handler and a delivery do not touch the table.
LEMMA OthersLeaveTable ==
  ASSUME [Next]_vars, ~MainStep
  PROVE  UNCHANGED Table
<1>1. ASSUME NEW t \in Threads, NEW s, Deliver(s, t) PROVE UNCHANGED Table
  BY <1>1 DEF Deliver, Table, kernel
<1>2. ASSUME NEW t \in Threads, NEW o \in Objects,
             WaitBegin(t, o) \/ Raise(t, o) \/ \E u \in Threads : Kill(t, o, u)
      PROVE  UNCHANGED Table
  BY <1>1, <1>2 DEF WaitBegin, Raise, Kill, Table, kernel
<1>3. ASSUME NEW t \in Threads, WaitSteps(t) PROVE UNCHANGED Table
  BY <1>3 DEF WaitSteps, PollReady, PollTimeout, PollInterrupted, GetFlags, SetFlags,
              DrainRead, DrainEnd, Restore, WaitStep, WaitReturn, Table, kernel
<1>4. ASSUME NEW t \in Threads, HandlerSteps(t) PROVE UNCHANGED Table
  BY <1>4 DEF HandlerSteps, HandlerCheck, HandlerLoad, HandlerStep, LoadFd, HandlerWrite,
              WriteBytes, Table, kernel
<1>5. CASE UNCHANGED vars
  BY <1>5 DEF vars, Table
<1> QED BY <1>1, <1>2, <1>3, <1>4, <1>5 DEF Next

\* Such a step keeps the owners.
LEMMA OwnersFrame == ASSUME OwnersInv, UNCHANGED Table PROVE OwnersInv'
BY DEF OwnersInv, OpShape, Unique, Owned, Flagged, Installed, Releasing, Registering, Table

\* So does a step that keeps the flags and what is under way.
LEMMA OwnersKept ==
  ASSUME OwnersInv, OpShape', UNCHANGED <<objs, signum_, handled>>,
         \A i \in Idx : /\ notifier'[i].is_init = notifier[i].is_init
                        /\ Releasing(i)' <=> Releasing(i)
                        /\ Registering(i)' <=> Registering(i)
  PROVE  OwnersInv'
BY DEF OwnersInv, Unique, Owned, Flagged, Installed

\* A pipe that is created does not change any flag.
LEMMA CreateFlags ==
  ASSUME TypeOK, NEW i \in Idx, Create(i)
  PROVE  \A j \in Idx : notifier'[j].is_init = notifier[j].is_init
<1>1. PICK r \in Fds \cup {NoFd}, w \in Fds \cup {NoFd} :
        notifier' = [notifier EXCEPT ![i] = [is_init |-> @.is_init, r |-> r, w |-> w]]
  BY DEF Create
<1>2. NotifierSet(i, r, w)
  BY <1>1, NotifierExcept
<1> QED BY <1>2 DEF NotifierSet

\* Nobody holds the number of a notifier that is down while nothing is under
\* way: the constructor's number is free.
LEMMA ConstructOwners ==
  ASSUME IInv, OwnersInv, NEW o \in Objects, NEW s \in Args, Construct(o, s)
  PROVE  OwnersInv'
<1> DEFINE i == s - 1
<1> USE SignalAssumption
<1>1. /\ i \in Idx /\ ~notifier[i].is_init /\ op.pc = "idle" /\ o \notin objs
      /\ op' = [pc |-> "ctor_init", obj |-> {o}, src |-> {}, idx |-> i]
      /\ Create(i) /\ UNCHANGED <<objs, signum_, handled>>
  BY DEF Construct, Idx, MainFree
<1> HIDE DEF i
<1>2. \A j \in Idx : notifier'[j].is_init = notifier[j].is_init
  BY <1>1, CreateFlags DEF IInv
<1>3. \A p \in objs : signum_[p] # i
  BY <1>1 DEF OwnersInv, Flagged, Releasing
<1>4. OpShape'
  BY <1>1, <1>3 DEF OpShape
<1> QED BY <1>1, <1>2, <1>4, OwnersKept DEF Releasing, Registering

\* The flag goes up while the object is being made, and then it owns it.
LEMMA CtorOwners ==
  ASSUME IInv, OwnersInv, CtorInit \/ CtorRegister
  PROVE  OwnersInv'
<1> USE SignalAssumption
<1>1. CASE CtorInit
  <2>0. op.idx \in Idx /\ op.pc = "ctor_init" /\ ~notifier[op.idx].is_init
    BY <1>1 DEF CtorInit, IInv, OpInv
  <2>1. /\ \A j \in Idx : j # op.idx => notifier'[j] = notifier[j]
        /\ notifier'[op.idx].is_init
    BY <1>1, <2>0, NotifierFlag DEF CtorInit, IInv
  <2>2. /\ op'.pc = "ctor_reg" /\ op'.idx = op.idx /\ op'.obj = op.obj
        /\ UNCHANGED <<objs, signum_, handled>>
    BY <1>1, <2>0 DEF CtorInit, IInv, TypeOK
  <2>3. OpShape' /\ Unique'
    BY <2>0, <2>1, <2>2 DEF OwnersInv, OpShape, Unique
  <2>4. Owned'
    BY <2>0, <2>1, <2>2 DEF OwnersInv, Owned, Registering
  <2>5. Flagged'
    BY <2>0, <2>1, <2>2 DEF OwnersInv, Flagged, Releasing
  <2>6. Installed'
    BY <2>0, <2>1, <2>2 DEF OwnersInv, Installed, Releasing, Registering
  <2> QED BY <2>3, <2>4, <2>5, <2>6 DEF OwnersInv
<1>2. CASE CtorRegister
  <2>0. op.idx \in Idx /\ op.pc = "ctor_reg" /\ op.idx \in Int
    BY <1>2 DEF CtorRegister, IInv, OpInv, Idx
  <2>1. PICK o \in Objects \ objs : op.obj = {o}
    BY <2>0 DEF OwnersInv, OpShape
  <2>2. /\ signum_' = [signum_ EXCEPT ![o] = op.idx] /\ objs' = objs \cup {o}
        /\ handled' = handled \cup ({op.idx + 1} \ Uncatchable)
        /\ op'.pc = "idle" /\ UNCHANGED notifier
    BY <1>2, <2>1 DEF CtorRegister, OpIdle
  <2>3. /\ signum_'[o] = op.idx /\ notifier[op.idx].is_init
        /\ \A p \in objs : p # o /\ signum_'[p] = signum_[p] /\ signum_[p] # op.idx
    BY <2>0, <2>1, <2>2 DEF IInv, TypeOK, OwnersInv, OpShape
  <2>4. OpShape' /\ Unique'
    BY <2>2, <2>3 DEF OwnersInv, OpShape, Unique
  <2>5. Owned'
    BY <2>2, <2>3 DEF OwnersInv, Owned, Registering
  <2>6. Flagged'
    BY <2>0, <2>2, <2>3 DEF OwnersInv, Flagged, Releasing
  <2>7. Installed'
    <3> SUFFICES ASSUME NEW i \in Idx
                 PROVE  i + 1 \in handled' <=> i + 1 \notin Uncatchable /\ notifier[i].is_init
      BY <2>2 DEF Installed, Releasing, Registering
    <3>1. i + 1 \in handled <=> i + 1 \notin Uncatchable /\ notifier[i].is_init /\ op.idx # i
      BY <2>0 DEF OwnersInv, Installed, Releasing, Registering
    <3>2. i + 1 = op.idx + 1 <=> i = op.idx
      BY <2>0 DEF Idx
    <3> QED BY <2>2, <2>3, <3>1, <3>2
  <2> QED BY <2>4, <2>5, <2>6, <2>7 DEF OwnersInv
<1> QED BY <1>1, <1>2

\* A destination that ends takes nobody else's number with it: the other
\* objects' numbers stay, one of them perhaps with the destination.
LEMMA FinishOwners ==
  ASSUME TypeOK, Unique, NEW o \in objs, NEW src \in SUBSET objs, Finish(o, src)
  PROVE  /\ Unique'
         /\ \A i \in Idx : (\E q \in objs \ {o} : signum_[q] = i)
                             <=> (\E q \in objs' : signum_'[q] = i)
<1>0. /\ objs \subseteq Objects /\ signum_ \in [Objects -> Idx \cup {Invalid}]
      /\ Invalid \notin Idx
  BY SignalAssumption DEF TypeOK, Invalid, Idx
<1>1. CASE /\ objs' = objs \ {o}
           /\ signum_' = [signum_ EXCEPT ![o] = Invalid]
  <2>1. \A q \in objs' : signum_'[q] = signum_[q] /\ q \in objs
    BY <1>0, <1>1
  <2> QED BY <1>1, <2>1 DEF Unique
<1>2. ASSUME NEW p \in src,
             signum_' = [signum_ EXCEPT ![o] = signum_[p], ![p] = Invalid],
             objs' = objs
      PROVE  /\ Unique'
             /\ \A i \in Idx : (\E q \in objs \ {o} : signum_[q] = i)
                                 <=> (\E q \in objs' : signum_'[q] = i)
  <2>1. \A q \in objs : signum_'[q] = IF q = p THEN Invalid
                                      ELSE IF q = o THEN signum_[p] ELSE signum_[q]
    BY <1>0, <1>2
  <2>2. p \in objs
    OBVIOUS
  <2>3. Unique'
    <3> SUFFICES ASSUME NEW x \in objs, NEW y \in objs, x # y, signum_'[x] # Invalid
                 PROVE  signum_'[x] # signum_'[y]
      BY <1>2 DEF Unique
    <3>1. \A a, b \in objs : a # b /\ signum_[a] # Invalid => signum_[a] # signum_[b]
      BY DEF Unique
    <3>2. CASE y = p
      BY <2>1, <3>2
    <3>3. CASE x = o /\ y # p
      BY <2>1, <2>2, <3>1, <3>3
    <3>4. CASE x # o /\ y # p
      BY <2>1, <2>2, <3>1, <3>4
    <3> QED BY <3>2, <3>3, <3>4
  <2>4. ASSUME NEW i \in Idx, NEW q \in objs \ {o}, signum_[q] = i
        PROVE  \E x \in objs' : signum_'[x] = i
    BY <1>2, <2>1, <2>2, <2>4
  <2>5. ASSUME NEW i \in Idx, NEW q \in objs', signum_'[q] = i
        PROVE  \E x \in objs \ {o} : signum_[x] = i
    BY <1>0, <1>2, <2>1, <2>2, <2>5
  <2> QED BY <2>3, <2>4, <2>5
<1> QED BY <1>1, <1>2 DEF Finish

\* The flag comes down while the object still holds the number; an object
\* without an initialised notifier holds none.
LEMMA ReleaseOwners ==
  ASSUME IInv, OwnersInv, NEW o \in objs, NEW src \in SUBSET objs, op.pc = "idle",
         Release(o, src), UNCHANGED <<kernel, handled>>
  PROVE  OwnersInv'
<1> USE SignalAssumption
<1>1. CASE /\ signum_[o] \in Idx /\ notifier[signum_[o]].is_init
           /\ notifier' = [notifier EXCEPT ![signum_[o]].is_init = FALSE]
           /\ op' = [pc |-> "rel_r", obj |-> {o}, src |-> src, idx |-> signum_[o]]
           /\ UNCHANGED <<objs, signum_>>
  <2> DEFINE i == signum_[o]
  <2>1. /\ \A j \in Idx : j # i => notifier'[j] = notifier[j]
        /\ ~notifier'[i].is_init
    BY <1>1, NotifierFlag DEF IInv
  <2>2. OpShape' /\ Unique'
    BY <1>1 DEF OwnersInv, OpShape, Unique
  <2>3. Owned'
    BY <1>1, <2>1 DEF OwnersInv, Owned, Registering
  <2>4. Flagged'
    BY <1>1, <2>1 DEF OwnersInv, Flagged, Releasing
  <2>5. Installed'
    BY <1>1, <2>1 DEF OwnersInv, Installed, Releasing, Registering
  <2> QED BY <2>2, <2>3, <2>4, <2>5 DEF OwnersInv
<1>2. CASE /\ ~(signum_[o] \in Idx /\ notifier[signum_[o]].is_init)
           /\ Finish(o, src) /\ UNCHANGED <<notifier, op>>
  <2>1. signum_[o] \notin Idx
    BY <1>2 DEF OwnersInv, Flagged, Releasing
  <2>2. Unique' /\ \A i \in Idx : (\E q \in objs : signum_[q] = i)
                                    <=> (\E q \in objs' : signum_'[q] = i)
    BY <1>2, <2>1, FinishOwners DEF IInv, OwnersInv
  <2>3. OpShape'
    BY <1>2 DEF OpShape
  <2>4. Owned'
    BY <1>2, <2>2 DEF OwnersInv, Owned, Registering
  <2>5. Flagged'
    BY <1>2, <2>2 DEF OwnersInv, Flagged, Releasing
  <2>6. Installed'
    BY <1>2 DEF OwnersInv, Installed, Releasing, Registering
  <2> QED BY <2>2, <2>3, <2>4, <2>5, <2>6 DEF OwnersInv
<1> QED BY <1>1, <1>2 DEF Release

\* Closing the two ends changes no flag and no owner.
LEMMA CloseOwners ==
  ASSUME IInv, OwnersInv, RelCloseRead \/ RelCloseWrite
  PROVE  OwnersInv'
<1>0. op.idx \in Idx /\ op.pc \in {"rel_r", "rel_w"}
  BY DEF IInv, OpInv, RelCloseRead, RelCloseWrite
<1>1. \A j \in Idx : notifier'[j].is_init = notifier[j].is_init
  BY <1>0, ForgetRead, ForgetWrite DEF IInv, RelCloseRead, RelCloseWrite
<1>2. /\ op'.pc \in {"rel_w", "rel_dfl"} /\ op'.idx = op.idx
      /\ op'.obj = op.obj /\ op'.src = op.src
      /\ UNCHANGED <<objs, signum_, handled>>
  BY DEF IInv, TypeOK, RelCloseRead, RelCloseWrite
<1>3. OpShape'
  BY <1>0, <1>2 DEF OwnersInv, OpShape
<1> QED BY <1>0, <1>1, <1>2, <1>3, OwnersKept DEF Releasing, Registering

\* With the default disposition back the destination's number is free.
LEMMA DefaultOwners == ASSUME IInv, OwnersInv, RelDefault PROVE OwnersInv'
<1> USE SignalAssumption
<1>0. op.idx \in Idx /\ op.idx \in Int /\ op.pc = "rel_dfl" /\ ~notifier[op.idx].is_init
  BY DEF RelDefault, IInv, OpInv, Idx
<1>1. PICK o \in objs : op.obj = {o} /\ signum_[o] = op.idx /\ op.src \subseteq objs
  BY <1>0 DEF OwnersInv, OpShape
<1>2. /\ handled' = handled \ {op.idx + 1} /\ Finish(o, op.src)
      /\ op'.pc = "idle" /\ UNCHANGED notifier
  BY <1>1 DEF RelDefault, OpIdle
<1>3. Unique' /\ \A i \in Idx : (\E q \in objs \ {o} : signum_[q] = i)
                                  <=> (\E q \in objs' : signum_'[q] = i)
  BY <1>1, <1>2, FinishOwners DEF IInv, OwnersInv
<1>4. OpShape'
  BY <1>2 DEF OpShape
<1>5. Owned'
  <2> SUFFICES ASSUME NEW i \in Idx, notifier[i].is_init
               PROVE  \E q \in objs \ {o} : signum_[q] = i
    BY <1>2, <1>3 DEF Owned
  <2>1. PICK q \in objs : signum_[q] = i
    BY <1>0 DEF OwnersInv, Owned, Registering
  <2> QED BY <1>0, <1>1, <2>1
<1>6. Flagged'
  <2> SUFFICES ASSUME NEW q \in objs', signum_'[q] \in Idx
               PROVE  notifier[signum_'[q]].is_init
    BY <1>2 DEF Flagged
  <2>1. PICK r \in objs \ {o} : signum_[r] = signum_'[q]
    BY <1>3
  <2>2. signum_[r] # op.idx
    BY <1>0, <1>1, <2>1 DEF OwnersInv, Unique, Invalid, Idx
  <2> QED BY <2>1, <2>2 DEF OwnersInv, Flagged, Releasing
<1>7. Installed'
  <2> SUFFICES ASSUME NEW i \in Idx
               PROVE  i + 1 \in handled' <=> i + 1 \notin Uncatchable /\ notifier[i].is_init
    BY <1>2 DEF Installed, Releasing, Registering
  <2>1. i + 1 \in handled <=> i + 1 \notin Uncatchable /\ (notifier[i].is_init \/ i = op.idx)
    BY <1>0 DEF OwnersInv, Installed, Releasing, Registering
  <2>2. i + 1 = op.idx + 1 <=> i = op.idx
    BY <1>0 DEF Idx
  <2> QED BY <1>0, <1>2, <2>1, <2>2
<1> QED BY <1>3, <1>4, <1>5, <1>6, <1>7 DEF OwnersInv

\* The number moves to the new object.
LEMMA MoveConstructOwners ==
  ASSUME IInv, OwnersInv, NEW o \in Objects, NEW p \in Objects, MoveConstruct(o, p)
  PROVE  OwnersInv'
<1>1. /\ op.pc = "idle" /\ o \notin objs /\ p \in objs
      /\ objs' = objs \cup {o}
      /\ signum_' = [signum_ EXCEPT ![o] = signum_[p], ![p] = Invalid]
      /\ UNCHANGED <<notifier, handled, op>>
  BY DEF MoveConstruct, MainFree
<1>2. /\ o # p /\ signum_'[o] = signum_[p] /\ signum_'[p] = Invalid
      /\ \A q \in objs : q # o /\ (q # p => signum_'[q] = signum_[q])
      /\ Invalid \notin Idx
  BY <1>1, SignalAssumption DEF IInv, TypeOK, Invalid, Idx
<1>3. OpShape'
  BY <1>1 DEF OpShape
<1>4. Unique'
  <2> SUFFICES ASSUME NEW x \in objs', NEW y \in objs', x # y, signum_'[x] # Invalid
               PROVE  signum_'[x] # signum_'[y]
    BY DEF Unique
  <2>1. CASE x = o
    BY <1>1, <1>2, <2>1 DEF OwnersInv, Unique
  <2>2. CASE y = o
    BY <1>1, <1>2, <2>2 DEF OwnersInv, Unique
  <2>3. CASE x # o /\ y # o
    BY <1>1, <1>2, <2>3 DEF OwnersInv, Unique
  <2> QED BY <2>1, <2>2, <2>3
<1>5. Owned'
  <2> SUFFICES ASSUME NEW i \in Idx, notifier[i].is_init
               PROVE  \E q \in objs' : signum_'[q] = i
    BY <1>1 DEF Owned
  <2>1. PICK q \in objs : signum_[q] = i
    BY <1>1 DEF OwnersInv, Owned, Registering
  <2> QED BY <1>1, <1>2, <2>1
<1>6. Flagged'
  BY <1>1, <1>2 DEF OwnersInv, Flagged, Releasing
<1>7. Installed'
  BY <1>1 DEF OwnersInv, Installed, Releasing, Registering
<1> QED BY <1>3, <1>4, <1>5, <1>6, <1>7 DEF OwnersInv

\* Every step keeps the owners.
LEMMA NextOwners == IInv /\ OwnersInv /\ [Next]_vars => OwnersInv'
<1> SUFFICES ASSUME IInv, OwnersInv, [Next]_vars PROVE OwnersInv'
  OBVIOUS
<1>1. CASE ~MainStep
  BY <1>1, OthersLeaveTable, OwnersFrame
<1>2. CASE MainStep
  <2>1. ASSUME NEW o \in Objects, NEW s \in Args, Construct(o, s) PROVE OwnersInv'
    BY <2>1, ConstructOwners
  <2>2. ASSUME NEW o \in Objects, Destroy(o) PROVE OwnersInv'
    BY <2>2, ReleaseOwners DEF Destroy, MainFree
  <2>3. ASSUME NEW o \in Objects, NEW p \in Objects, MoveAssign(o, p) PROVE OwnersInv'
    <3>1. {p} \in SUBSET objs
      BY <2>3 DEF MoveAssign
    <3> QED BY <2>3, <3>1, ReleaseOwners DEF MoveAssign, MainFree
  <2>4. ASSUME NEW o \in Objects, NEW p \in Objects, MoveConstruct(o, p) PROVE OwnersInv'
    BY <2>4, MoveConstructOwners
  <2>5. CASE CtorInit \/ CtorRegister
    BY <2>5, CtorOwners
  <2>6. CASE RelCloseRead \/ RelCloseWrite \/ RelDefault
    BY <2>6, CloseOwners, DefaultOwners
  <2> QED BY <1>2, <2>1, <2>2, <2>3, <2>4, <2>5, <2>6 DEF MainStep
<1> QED BY <1>1, <1>2

\* Owners and notifiers stay in step in every behaviour.
THEOREM OwnersInvariance == Spec => []OwnersInv
<1>1. Init => OwnersInv
  BY DEF Init, OwnersInv, OpShape, Unique, Owned, Flagged, Installed, Releasing,
         Registering, OpIdle, NoPipe
<1>2. IInv /\ OwnersInv /\ [Next]_vars => OwnersInv'
  BY NextOwners
<1> QED BY <1>1, <1>2, Invariance, PTL DEF Spec

\* A signal number has at most one object, its notifier is initialised
\* exactly as long as it has one, and the handlers installed are exactly
\* those of the initialised notifiers that can be caught, between any two
\* operations (signal.cpp 17-82, the constructor, the moves, the destructor).
THEOREM NumbersHaveOneOwner == Spec => []OneOwner
<1>1. IInv /\ OwnersInv => OneOwner
  <2> SUFFICES ASSUME IInv, OwnersInv, op.pc = "idle"
               PROVE  /\ Unique
                      /\ \A i \in Idx : notifier[i].is_init <=> \E o \in objs : signum_[o] = i
                      /\ handled = {i + 1 : i \in {j \in Idx : notifier[j].is_init}}
                                     \ Uncatchable
    BY DEF OneOwner, Unique
  <2>1. \A i \in Idx : notifier[i].is_init <=> \E o \in objs : signum_[o] = i
    BY DEF OwnersInv, Owned, Flagged, Releasing, Registering
  <2>2. \A i \in Idx : i + 1 \in handled <=> i + 1 \notin Uncatchable /\ notifier[i].is_init
    BY DEF OwnersInv, Installed, Releasing, Registering
  <2>3. \A s \in handled : s - 1 \in Idx /\ s = (s - 1) + 1
    BY SignalAssumption DEF IInv, TypeOK, Idx
  <2>4. \A s : s \in handled
          <=> s \in {i + 1 : i \in {j \in Idx : notifier[j].is_init}} \ Uncatchable
    BY <2>2, <2>3
  <2> QED BY <2>1, <2>4 DEF OwnersInv
<1> QED BY <1>1, Invariance, OwnersInvariance, PTL

-----------------------------------------------------------------------------
(* Descriptors do not leak.  Descriptor 0 has to be taken by somebody else *)
(* (std input, as in every program of the repository): File::close leaves  *)
(* it open, and a pipe that had got it would leak it.                      *)

\* An open end of a pipe is the one its notifier has.
Ends == \A f \in Fds, i \in Idx :
  /\ fdtab[f] = [pipe |-> i, end |-> "r"] => notifier[i].r = f
  /\ fdtab[f] = [pipe |-> i, end |-> "w"] => notifier[i].w = f

\* A notifier that is down has no descriptors, once its constructor has
\* given up or its destructor has come past them.
Emptied == \A i \in Idx : ~notifier[i].is_init =>
  /\ notifier[i].r = NoFd \/ (op.pc \in {"ctor_init", "rel_r"} /\ op.idx = i)
  /\ notifier[i].w = NoFd \/ (op.pc \in {"ctor_init", "rel_r", "rel_w"} /\ op.idx = i)

LeakInv == Ends /\ Emptied

\* A step that leaves the table alone keeps the invariant.
LEMMA LeakFrame == ASSUME LeakInv, UNCHANGED Table PROVE LeakInv'
BY DEF LeakInv, Ends, Emptied, Table

\* What creating a pipe does to the other notifiers' descriptors: nothing.
LEMMA ConstructLeak ==
  ASSUME IInv, LeakInv, NEW o \in Objects, NEW s \in Args, Construct(o, s)
  PROVE  LeakInv'
<1> DEFINE i == s - 1
<1> USE SignalAssumption
<1>1. /\ i \in Idx /\ ~notifier[i].is_init /\ op.pc = "idle"
      /\ op' = [pc |-> "ctor_init", obj |-> {o}, src |-> {}, idx |-> i]
      /\ Create(i)
  BY DEF Construct, Idx, MainFree
<1> HIDE DEF i
<1>2. notifier[i].r = NoFd /\ notifier[i].w = NoFd /\ NoFd \notin Fds
  BY <1>1 DEF LeakInv, Emptied, NoFd
<1>3. CASE \E r, w \in Fds :
             /\ r # w
             /\ fdtab' = [fdtab EXCEPT ![r] = [pipe |-> i, end |-> "r"],
                                       ![w] = [pipe |-> i, end |-> "w"]]
             /\ notifier' = [notifier EXCEPT ![i] = [is_init |-> @.is_init, r |-> r, w |-> w]]
  <2> PICK r \in Fds, w \in Fds :
             /\ r # w
             /\ fdtab' = [fdtab EXCEPT ![r] = [pipe |-> i, end |-> "r"],
                                       ![w] = [pipe |-> i, end |-> "w"]]
             /\ notifier' = [notifier EXCEPT ![i] = [is_init |-> @.is_init, r |-> r, w |-> w]]
    BY <1>3
  <2>1. NotifierSet(i, r, w)
    BY <1>1, NotifierExcept DEF IInv
  <2>2. /\ notifier'[i].is_init = notifier[i].is_init
        /\ notifier'[i].r = r /\ notifier'[i].w = w
        /\ \A j \in Idx : j # i => notifier'[j] = notifier[j]
    BY <2>1 DEF NotifierSet
  <2>3. \A f \in Fds : fdtab'[f] = IF f = r THEN [pipe |-> i, end |-> "r"]
                                   ELSE IF f = w THEN [pipe |-> i, end |-> "w"]
                                   ELSE fdtab[f]
    BY DEF IInv, TypeOK
  <2>4. Ends'
    <3> SUFFICES ASSUME NEW f \in Fds, NEW j \in Idx, NEW e \in {"r", "w"},
                        fdtab'[f] = [pipe |-> j, end |-> e]
                 PROVE  IF e = "r" THEN notifier'[j].r = f ELSE notifier'[j].w = f
      BY DEF Ends
    <3>1. CASE f = r
      <4>1. [pipe |-> i, end |-> "r"] = [pipe |-> j, end |-> e]
        BY <2>3, <3>1
      <4>2. j = i /\ e = "r"
        BY <4>1
      <4> QED BY <2>2, <3>1, <4>2
    <3>2. CASE f = w
      <4>1. [pipe |-> i, end |-> "w"] = [pipe |-> j, end |-> e]
        BY <2>3, <3>2
      <4>2. j = i /\ e = "w"
        BY <4>1
      <4> QED BY <2>2, <3>2, <4>2
    <3>3. CASE f # r /\ f # w
      <4>1. fdtab[f] = [pipe |-> j, end |-> e]
        BY <2>3, <3>3
      <4>2. IF e = "r" THEN notifier[j].r = f ELSE notifier[j].w = f
        BY <4>1 DEF LeakInv, Ends
      <4>3. j # i
        BY <1>2, <4>2
      <4> QED BY <2>2, <4>2, <4>3
    <3> QED BY <3>1, <3>2, <3>3
  <2>5. Emptied'
    BY <1>1, <2>2 DEF LeakInv, Emptied
  <2> QED BY <2>4, <2>5 DEF LeakInv
<1>4. CASE /\ notifier' = [notifier EXCEPT ![i] = [is_init |-> @.is_init, r |-> NoFd, w |-> NoFd]]
           /\ UNCHANGED fdtab
  <2>1. NotifierSet(i, NoFd, NoFd)
    BY <1>1, <1>4, NotifierExcept DEF IInv
  <2>2. /\ notifier'[i].r = NoFd /\ notifier'[i].w = NoFd
        /\ \A j \in Idx : j # i => notifier'[j] = notifier[j]
    BY <2>1 DEF NotifierSet
  <2>3. \A j \in Idx : notifier'[j].r = notifier[j].r /\ notifier'[j].w = notifier[j].w
    BY <1>2, <2>2
  <2>4. Ends'
    BY <1>4, <2>3 DEF LeakInv, Ends
  <2>5. Emptied'
    BY <1>1, <2>2 DEF LeakInv, Emptied
  <2> QED BY <2>4, <2>5 DEF LeakInv
<1> QED BY <1>1, <1>3, <1>4 DEF Create, kernel

\* A flag that goes up or down moves no descriptor.
LEMMA FlagLeak ==
  ASSUME IInv, LeakInv, NEW i \in Idx, NEW b \in BOOLEAN, UNCHANGED fdtab,
         notifier' = [notifier EXCEPT ![i].is_init = b],
         op.pc = "idle" \/ op.idx = i, op'.idx = i,
         op'.pc = IF b THEN "ctor_reg" ELSE "rel_r"
  PROVE  LeakInv'
<1>1. /\ \A j \in Idx : notifier'[j].r = notifier[j].r /\ notifier'[j].w = notifier[j].w
      /\ \A j \in Idx : j # i => notifier'[j] = notifier[j]
      /\ notifier'[i].is_init = b
  BY NotifierFlag DEF IInv
<1>2. Ends'
  BY <1>1 DEF LeakInv, Ends
<1>3. Emptied'
  BY <1>1 DEF LeakInv, Emptied
<1> QED BY <1>2, <1>3 DEF LeakInv

\* An end that is closed is no longer in the table, and its notifier has
\* forgotten it.
LEMMA CloseLeak ==
  ASSUME 0 \notin Fds, IInv, LeakInv, RelCloseRead \/ RelCloseWrite
  PROVE  LeakInv'
<1> USE SignalAssumption
<1>0. op.idx \in Idx /\ op.pc \in {"rel_r", "rel_w"}
  BY DEF IInv, OpInv, RelCloseRead, RelCloseWrite
<1>1. op'.idx = op.idx
  BY DEF IInv, TypeOK, RelCloseRead, RelCloseWrite
<1>2. ASSUME NEW fd \in Fds \cup {NoFd}, CloseFd(fd), NEW f \in Fds, NEW i \in Idx,
             NEW e \in {"r", "w"}, fdtab'[f] = [pipe |-> i, end |-> e]
      PROVE  f # fd /\ fdtab[f] = [pipe |-> i, end |-> e]
  <2>1. fdtab'[f] = IF f = fd /\ fd > 0 THEN Closed ELSE fdtab[f]
    BY <1>2 DEF CloseFd
  <2>2. Closed # [pipe |-> i, end |-> e]
    <3>1. Closed.pipe = -1 /\ [pipe |-> i, end |-> e].pipe = i
      BY DEF Closed
    <3> QED BY <3>1 DEF Idx
  <2>3. f > 0
    OBVIOUS
  <2> QED BY <1>2, <2>1, <2>2, <2>3
<1>3. CASE RelCloseRead
  <2>1. /\ \A j \in Idx : /\ notifier'[j].is_init = notifier[j].is_init
                          /\ notifier'[j].w = notifier[j].w
                          /\ j # op.idx => notifier'[j] = notifier[j]
        /\ notifier'[op.idx].r = NoFd
    BY <1>0, <1>3, ForgetRead DEF IInv, RelCloseRead
  <2>2. /\ notifier[op.idx].r \in Fds \cup {NoFd} /\ CloseFd(notifier[op.idx].r)
        /\ op.pc = "rel_r" /\ op'.pc = "rel_w"
    BY <1>0, <1>3, NotifierEntry DEF IInv, TypeOK, RelCloseRead
  <2>3. Ends'
    <3>1. ASSUME NEW f \in Fds, NEW i \in Idx, fdtab'[f] = [pipe |-> i, end |-> "r"]
          PROVE  notifier'[i].r = f
      <4>1. f # notifier[op.idx].r /\ fdtab[f] = [pipe |-> i, end |-> "r"]
        BY <1>2, <2>2, <3>1 DEF CloseFd
      <4>2. notifier[i].r = f
        BY <4>1 DEF LeakInv, Ends
      <4>3. i # op.idx
        BY <4>1, <4>2
      <4> QED BY <2>1, <4>2, <4>3
    <3>2. ASSUME NEW f \in Fds, NEW i \in Idx, fdtab'[f] = [pipe |-> i, end |-> "w"]
          PROVE  notifier'[i].w = f
      <4>1. fdtab[f] = [pipe |-> i, end |-> "w"]
        BY <1>2, <2>2, <3>2 DEF CloseFd
      <4>2. notifier[i].w = f
        BY <4>1 DEF LeakInv, Ends
      <4> QED BY <2>1, <4>2
    <3> QED BY <3>1, <3>2 DEF Ends
  <2>4. Emptied'
    BY <1>1, <2>1, <2>2 DEF LeakInv, Emptied
  <2> QED BY <2>3, <2>4 DEF LeakInv
<1>4. CASE RelCloseWrite
  <2>1. /\ \A j \in Idx : /\ notifier'[j].is_init = notifier[j].is_init
                          /\ notifier'[j].r = notifier[j].r
                          /\ j # op.idx => notifier'[j] = notifier[j]
        /\ notifier'[op.idx].w = NoFd
    BY <1>0, <1>4, ForgetWrite DEF IInv, RelCloseWrite
  <2>2. /\ notifier[op.idx].w \in Fds \cup {NoFd} /\ CloseFd(notifier[op.idx].w)
        /\ op.pc = "rel_w" /\ op'.pc = "rel_dfl"
    BY <1>0, <1>4, NotifierEntry DEF IInv, TypeOK, RelCloseWrite
  <2>3. Ends'
    <3>1. ASSUME NEW f \in Fds, NEW i \in Idx, fdtab'[f] = [pipe |-> i, end |-> "w"]
          PROVE  notifier'[i].w = f
      <4>1. f # notifier[op.idx].w /\ fdtab[f] = [pipe |-> i, end |-> "w"]
        BY <1>2, <2>2, <3>1 DEF CloseFd
      <4>2. notifier[i].w = f
        BY <4>1 DEF LeakInv, Ends
      <4>3. i # op.idx
        BY <4>1, <4>2
      <4> QED BY <2>1, <4>2, <4>3
    <3>2. ASSUME NEW f \in Fds, NEW i \in Idx, fdtab'[f] = [pipe |-> i, end |-> "r"]
          PROVE  notifier'[i].r = f
      <4>1. fdtab[f] = [pipe |-> i, end |-> "r"]
        BY <1>2, <2>2, <3>2 DEF CloseFd
      <4>2. notifier[i].r = f
        BY <4>1 DEF LeakInv, Ends
      <4> QED BY <2>1, <4>2
    <3> QED BY <3>1, <3>2 DEF Ends
  <2>4. Emptied'
    BY <1>1, <2>1, <2>2 DEF LeakInv, Emptied
  <2> QED BY <2>3, <2>4 DEF LeakInv
<1> QED BY <1>3, <1>4

\* Every step keeps the descriptors accounted for.
LEMMA NextLeak == 0 \notin Fds /\ IInv /\ LeakInv /\ [Next]_vars => LeakInv'
<1> SUFFICES ASSUME 0 \notin Fds, IInv, LeakInv, [Next]_vars PROVE LeakInv'
  OBVIOUS
<1>1. CASE ~MainStep
  BY <1>1, OthersLeaveTable, LeakFrame
<1>2. ASSUME op.pc \notin {"ctor_init", "rel_r", "rel_w"}, UNCHANGED <<fdtab, notifier>>
      PROVE  LeakInv'
  BY <1>2 DEF LeakInv, Ends, Emptied
<1>3. ASSUME NEW o \in objs, NEW src, op.pc = "idle", Release(o, src), UNCHANGED fdtab
      PROVE  LeakInv'
  <2>1. CASE /\ signum_[o] \in Idx
             /\ notifier' = [notifier EXCEPT ![signum_[o]].is_init = FALSE]
             /\ op' = [pc |-> "rel_r", obj |-> {o}, src |-> src, idx |-> signum_[o]]
    BY <1>3, <2>1, FlagLeak
  <2>2. CASE UNCHANGED notifier
    BY <1>2, <1>3, <2>2
  <2> QED BY <1>3, <2>1, <2>2 DEF Release
<1>4. CASE MainStep
  <2>1. ASSUME NEW o \in Objects, NEW s \in Args, Construct(o, s) PROVE LeakInv'
    BY <2>1, ConstructLeak
  <2>2. ASSUME NEW o \in Objects, Destroy(o) PROVE LeakInv'
    BY <1>3, <2>2 DEF Destroy, MainFree, kernel
  <2>3. ASSUME NEW o \in Objects, NEW p \in Objects, MoveAssign(o, p) PROVE LeakInv'
    BY <1>3, <2>3 DEF MoveAssign, MainFree, kernel
  <2>4. ASSUME NEW o \in Objects, NEW p \in Objects, MoveConstruct(o, p) PROVE LeakInv'
    BY <1>2, <2>4 DEF MoveConstruct, MainFree, kernel
  <2>5. CASE CtorInit
    <3>1. op.idx \in Idx /\ op'.pc = "ctor_reg" /\ op'.idx = op.idx
      BY <2>5 DEF CtorInit, IInv, OpInv, TypeOK
    <3> QED BY <2>5, <3>1, FlagLeak DEF CtorInit, kernel
  <2>6. CASE CtorRegister \/ RelDefault
    BY <1>2, <2>6 DEF CtorRegister, RelDefault, kernel
  <2>7. CASE RelCloseRead \/ RelCloseWrite
    BY <2>7, CloseLeak
  <2> QED BY <1>4, <2>1, <2>2, <2>3, <2>4, <2>5, <2>6, <2>7 DEF MainStep
<1> QED BY <1>1, <1>4

\* With std input open, no descriptor leaks and none is closed twice: the
\* open pipe ends are exactly those of the initialised notifiers, between
\* any two operations (signal.cpp 25-82, Pipe::create and the release).
THEOREM DescriptorsDoNotLeak == ASSUME 0 \notin Fds PROVE Spec => []NoFdLeak
<1>1. Init => LeakInv
  <2> SUFFICES ASSUME Init PROVE LeakInv
    OBVIOUS
  <2>1. \A f \in Fds, i \in Idx : \A e : fdtab[f] # [pipe |-> i, end |-> e]
    <3> SUFFICES ASSUME NEW f \in Fds, NEW i \in Idx, NEW e,
                        Closed = [pipe |-> i, end |-> e]
                 PROVE  FALSE
      BY DEF Init
    <3>1. Closed.pipe = -1 /\ [pipe |-> i, end |-> e].pipe = i
      BY DEF Closed
    <3> QED BY <3>1, SignalAssumption DEF Idx
  <2> QED BY <2>1 DEF Init, LeakInv, Ends, Emptied, NoPipe
<1>2. IInv /\ LeakInv /\ [Next]_vars => LeakInv'
  BY NextLeak
<1>3. IInv /\ LeakInv => NoFdLeak
  <2> SUFFICES ASSUME IInv, LeakInv, op.pc = "idle", NEW f \in Fds, NEW i \in Idx
               PROVE  /\ fdtab[f] = [pipe |-> i, end |-> "r"]
                           <=> notifier[i].is_init /\ notifier[i].r = f
                      /\ fdtab[f] = [pipe |-> i, end |-> "w"]
                           <=> notifier[i].is_init /\ notifier[i].w = f
    BY DEF NoFdLeak
  <2>1. f # NoFd
    BY SignalAssumption DEF NoFd
  <2>2. ~notifier[i].is_init => notifier[i].r = NoFd /\ notifier[i].w = NoFd
    BY DEF LeakInv, Emptied
  <2>3. /\ fdtab[f] = [pipe |-> i, end |-> "r"] => notifier[i].r = f
        /\ fdtab[f] = [pipe |-> i, end |-> "w"] => notifier[i].w = f
    BY DEF LeakInv, Ends
  <2>4. /\ notifier[i].r = f => fdtab[f] = [pipe |-> i, end |-> "r"]
        /\ notifier[i].w = f => fdtab[f] = [pipe |-> i, end |-> "w"]
    BY <2>1 DEF IInv, FdInv
  <2> QED BY <2>1, <2>2, <2>3, <2>4
<1> QED BY <1>1, <1>2, <1>3, Invariance, PTL DEF Spec

-----------------------------------------------------------------------------
(* What a handler has found while the other threads went on.               *)

\* A handler that has looked at the flag is late, or the flag is still up
\* and the descriptor it has loaded is still that of the notifier.
FreshInv == \A t \in Threads :
  /\ hand[t].pc \in {"none", "check"} \/ t = Main => ~hand[t].late
  /\ hand[t].pc \in {"load", "write"} /\ ~hand[t].late => notifier[hand[t].idx].is_init
  /\ hand[t].pc = "write" /\ ~hand[t].late => hand[t].fd = notifier[hand[t].idx].w

\* A wait has an initialised notifier with a pipe until it returns.
WaitInv == \A t \in Threads :
  /\ wt[t].pc = "idle" => wt[t].idx = Invalid
  /\ wt[t].pc # "idle" => /\ notifier[wt[t].idx].is_init
                          /\ notifier[wt[t].idx].r # NoFd

\* With one thread, a notifier that comes up has an empty pipe.
EmptyInv ==
  Threads = {Main} /\ op.pc = "ctor_init" => notifier[op.idx].r = NoFd \/ bytes[op.idx] = 0

UseInv == FreshInv /\ WaitInv /\ EmptyInv

\* A step that keeps the notifiers that are up keeps what was found there.
LEMMA UpKept ==
  ASSUME IInv, FreshInv, WaitInv, UNCHANGED <<hand, wt>>,
         \A i \in Idx : notifier[i].is_init => notifier'[i] = notifier[i]
  PROVE  FreshInv' /\ WaitInv'
BY DEF IInv, ThreadInv, FreshInv, WaitInv

\* A constructor, and the steps of a release after its first, work on a
\* notifier whose flag is down.
LEMMA MainStepUp ==
  ASSUME IInv, MainStep,
         ~ \E o, p \in Objects : Destroy(o) \/ MoveAssign(o, p)
  PROVE  /\ UNCHANGED <<hand, wt>>
         /\ \A i \in Idx : notifier[i].is_init => notifier'[i] = notifier[i]
<1> USE SignalAssumption
<1>1. ASSUME NEW o \in Objects, NEW s \in Args, Construct(o, s)
      PROVE  /\ UNCHANGED <<hand, wt>>
             /\ \A i \in Idx : notifier[i].is_init => notifier'[i] = notifier[i]
  BY <1>1 DEF Construct, Create, IInv, TypeOK, kernel
<1>2. CASE CtorInit
  <2>1. op.idx \in Idx /\ ~notifier[op.idx].is_init
    BY <1>2 DEF CtorInit, IInv, OpInv
  <2>2. \A j \in Idx : j # op.idx => notifier'[j] = notifier[j]
    BY <1>2, <2>1, NotifierFlag DEF CtorInit, IInv
  <2> QED BY <1>2, <2>1, <2>2 DEF CtorInit
<1>3. CASE RelCloseRead \/ RelCloseWrite
  <2>1. op.idx \in Idx /\ ~notifier[op.idx].is_init
    BY <1>3 DEF RelCloseRead, RelCloseWrite, IInv, OpInv
  <2>2. \A j \in Idx : j # op.idx => notifier'[j] = notifier[j]
    BY <1>3, <2>1, ForgetRead, ForgetWrite DEF RelCloseRead, RelCloseWrite, IInv
  <2> QED BY <1>3, <2>1, <2>2 DEF RelCloseRead, RelCloseWrite
<1>4. CASE CtorRegister \/ RelDefault \/ \E o, p \in Objects : MoveConstruct(o, p)
  BY <1>4 DEF CtorRegister, RelDefault, MoveConstruct
<1> QED BY <1>1, <1>2, <1>3, <1>4 DEF MainStep

\* The flag goes down under the handlers that have found it up, which are
\* late from then on, and under no wait.
LEMMA ReleaseUse ==
  ASSUME IInv, FreshInv, WaitInv, NEW o \in Objects, NEW src,
         hand[Main].pc = "none", Unused(o), Release(o, src), UNCHANGED wt
  PROVE  FreshInv' /\ WaitInv'
<1>1. CASE UNCHANGED <<notifier, hand>>
  BY <1>1, UpKept
<1>2. CASE /\ signum_[o] \in Idx
           /\ notifier' = [notifier EXCEPT ![signum_[o]].is_init = FALSE]
           /\ Outlive(signum_[o])
  <2> DEFINE i == signum_[o]
  <2>1. /\ \A j \in Idx : j # i => notifier'[j] = notifier[j]
        /\ \A j \in Idx : notifier'[j].w = notifier[j].w
    BY <1>2, NotifierFlag DEF IInv
  <2>2. \A t \in Threads : /\ hand'[t].pc = hand[t].pc
                           /\ hand'[t].idx = hand[t].idx
                           /\ hand'[t].fd = hand[t].fd
                           /\ hand'[t].late <=>
                                \/ hand[t].late
                                \/ hand[t].idx = i /\ hand[t].pc \in {"load", "write"}
    BY <1>2, OutliveMoves DEF IInv
  <2> HIDE DEF i
  <2>3. ASSUME NEW t \in Threads
        PROVE  /\ hand'[t].pc \in {"none", "check"} \/ t = Main => ~hand'[t].late
               /\ hand'[t].pc \in {"load", "write"} /\ ~hand'[t].late =>
                    notifier'[hand'[t].idx].is_init
               /\ hand'[t].pc = "write" /\ ~hand'[t].late =>
                    hand'[t].fd = notifier'[hand'[t].idx].w
    <3>1. hand[t].pc # "none" => hand[t].idx \in Idx
      BY DEF IInv, ThreadInv
    <3>2. hand'[t].pc \in {"none", "check"} \/ t = Main => ~hand'[t].late
      BY <2>2 DEF FreshInv
    <3>3. hand'[t].pc \in {"load", "write"} /\ ~hand'[t].late =>
            ~hand[t].late /\ hand[t].idx # i /\ hand[t].idx \in Idx
      BY <2>2, <3>1
    <3> QED BY <2>1, <2>2, <3>2, <3>3 DEF FreshInv
  <2>4. WaitInv'
    <3>1. \A t \in Threads : wt[t].pc # "idle" => wt[t].idx \in Idx /\ wt[t].idx # i
      BY DEF IInv, ThreadInv, Unused, i
    <3> QED BY <2>1, <3>1 DEF WaitInv
  <2> QED BY <2>3, <2>4 DEF FreshInv
<1> QED BY <1>1, <1>2 DEF Release

\* A constructor that has got a pipe has got an empty one.
LEMMA MainStepEmpty ==
  ASSUME IInv, MainStep, op'.pc = "ctor_init"
  PROVE  notifier'[op'.idx].r = NoFd \/ bytes'[op'.idx] = 0
<1> USE SignalAssumption
<1>1. ASSUME NEW o \in Objects, NEW s \in Args, Construct(o, s)
      PROVE  notifier'[op'.idx].r = NoFd \/ bytes'[op'.idx] = 0
  <2> DEFINE i == s - 1
  <2>1. op'.idx = i /\ i \in Idx /\ Create(i)
    BY <1>1 DEF Construct, Idx
  <2> HIDE DEF i
  <2>2. CASE bytes' = [bytes EXCEPT ![i] = 0]
    BY <2>1, <2>2 DEF IInv, TypeOK
  <2>3. CASE notifier' = [notifier EXCEPT ![i] = [is_init |-> @.is_init, r |-> NoFd, w |-> NoFd]]
    <3>1. NotifierSet(i, NoFd, NoFd)
      BY <2>1, <2>3, NotifierExcept DEF IInv
    <3> QED BY <2>1, <3>1 DEF NotifierSet
  <2> QED BY <2>1, <2>2, <2>3 DEF Create
<1>2. ASSUME NEW o, NEW src, op.pc = "idle", Release(o, src) PROVE FALSE
  BY <1>2 DEF Release
<1>3. ~ \E o, p \in Objects : Destroy(o) \/ MoveAssign(o, p) \/ MoveConstruct(o, p)
  BY <1>2 DEF Destroy, MoveAssign, MoveConstruct, MainFree
<1>4. ~(CtorInit \/ CtorRegister \/ RelCloseRead \/ RelCloseWrite \/ RelDefault)
  BY DEF IInv, TypeOK, CtorInit, CtorRegister, RelCloseRead, RelCloseWrite, RelDefault, OpIdle
<1> QED BY <1>1, <1>3, <1>4 DEF MainStep

\* Main's operations keep what the handlers and waits rely on.
LEMMA MainStepUse ==
  ASSUME IInv, UseInv, MainStep
  PROVE  UseInv' /\ UNCHANGED wt
<1>1. ASSUME NEW o \in Objects, NEW p \in Objects, Destroy(o) \/ MoveAssign(o, p)
      PROVE  FreshInv' /\ WaitInv' /\ UNCHANGED wt
  BY <1>1, ReleaseUse DEF UseInv, Destroy, MoveAssign, MainFree, CanRun
<1>2. ASSUME ~ \E o, p \in Objects : Destroy(o) \/ MoveAssign(o, p)
      PROVE  FreshInv' /\ WaitInv' /\ UNCHANGED wt
  BY <1>2, MainStepUp, UpKept DEF UseInv
<1>3. EmptyInv'
  BY MainStepEmpty DEF EmptyInv
<1> QED BY <1>1, <1>2, <1>3 DEF UseInv

\* The byte goes to a pipe; the own one, which is up, unless it is late.
LEMMA HandlerWriteMoves ==
  ASSUME IInv, FreshInv, NEW t \in Threads, HandlerWrite(t)
  PROVE  /\ UNCHANGED <<notifier, op, wt>> /\ hand'[t] = NoHandler
         /\ \A u \in Threads : u # t => hand'[u] = hand[u]
         /\ \/ UNCHANGED bytes
            \/ \E i \in Idx :
                 /\ bytes' = [bytes EXCEPT ![i] = @ + 1]
                 /\ ~hand[t].late => notifier[i].is_init
<1> USE SignalAssumption
<1>1. /\ hand[t].pc = "write" /\ hand[t].idx \in Idx /\ hand[t].fd \in Fds
  BY DEF HandlerWrite, WriteBytes, IInv, ThreadInv
<1> DEFINE f == fdtab[hand[t].fd]
<1>2. /\ f.pipe \in Idx \cup {-1} /\ bytes \in [Idx -> Nat]
      /\ \/ bytes' = [bytes EXCEPT ![f.pipe] = @ + 1]
         \/ UNCHANGED bytes
  BY <1>1 DEF HandlerWrite, WriteBytes, IInv, TypeOK
<1>3. ASSUME ~hand[t].late PROVE f.pipe = hand[t].idx /\ notifier[hand[t].idx].is_init
  <2>1. hand[t].fd = notifier[hand[t].idx].w /\ notifier[hand[t].idx].is_init
    BY <1>1, <1>3 DEF FreshInv
  <2>2. f = [pipe |-> hand[t].idx, end |-> "w"]
    <3>1. hand[t].fd # NoFd
      BY <1>1 DEF NoFd
    <3> QED BY <1>1, <2>1, <3>1 DEF IInv, FdInv
  <2>3. f.pipe = hand[t].idx
    BY <2>2
  <2> QED BY <2>1, <2>3
<1>4. /\ UNCHANGED <<notifier, op, wt>> /\ hand'[t] = NoHandler
      /\ \A u \in Threads : u # t => hand'[u] = hand[u]
  BY DEF HandlerWrite, WriteBytes, IInv, TypeOK
<1> HIDE DEF f
<1>5. CASE f.pipe \in Idx
  BY <1>2, <1>3, <1>4, <1>5
<1>6. CASE f.pipe \notin Idx
  <2>1. [bytes EXCEPT ![f.pipe] = @ + 1] = bytes
    BY <1>2, <1>6
  <2> QED BY <1>2, <1>4, <2>1
<1> QED BY <1>5, <1>6

\* Each step of a wait leaves it where it waits, or ends it; the thread is
\* not in a handler.
LEMMA WaitStepsMove ==
  ASSUME IInv, NEW t \in Threads, WaitSteps(t)
  PROVE  /\ WaitMoves(t) /\ hand[t].pc = "none"
         /\ wt[t].pc # "idle" /\ wt[t].idx \in Idx
         /\ \/ wt'[t].pc # "idle" /\ wt'[t].idx = wt[t].idx
            \/ wt'[t].pc = "idle" /\ wt'[t].idx = Invalid
         /\ \A i \in Idx : i # wt[t].idx => bytes'[i] = bytes[i]
<1>0. \A i \in Idx : i # wt[t].idx => bytes'[i] = bytes[i]
  BY DEF WaitSteps, PollReady, PollTimeout, PollInterrupted, GetFlags, SetFlags, DrainRead,
         DrainEnd, Restore, WaitReturn, IInv, TypeOK, kernel
<1>1. ASSUME NEW from, from # "idle", NEW v \in BOOLEAN, WaitReturn(t, from, v)
      PROVE  /\ wt[t].idx \in Idx /\ wt[t].pc = from /\ hand[t].pc = "none"
             /\ WaitMoves(t) /\ wt'[t].pc = "idle" /\ wt'[t].idx = Invalid
  <2>1. wt'[t] = [WaitIdle EXCEPT !.arrived = wt[t].arrived /\ ~v, !.ret = v]
    BY <1>1 DEF WaitReturn, IInv, TypeOK
  <2>2. wt'[t].pc = "idle" /\ wt'[t].idx = Invalid
    BY <2>1 DEF WaitIdle
  <2>3. hand[t].pc = "none"
    BY <1>1 DEF WaitReturn, CanRun
  <2> QED BY <1>1, <2>2, <2>3, WaitReturnMoves
<1>2. ASSUME NEW from, from # "idle", NEW to \in {"getfl", "drain", "restore"},
             WaitStep(t, from, to)
      PROVE  /\ wt[t].idx \in Idx /\ wt[t].pc = from /\ hand[t].pc = "none"
             /\ WaitMoves(t) /\ wt'[t].pc = to /\ wt'[t].idx = wt[t].idx
  <2>1. hand[t].pc = "none"
    BY <1>2 DEF WaitStep, CanRun
  <2> QED BY <1>2, <2>1, WaitStepMoves
<1>3. ASSUME GetFlags(t)
      PROVE  /\ WaitMoves(t) /\ hand[t].pc = "none"
             /\ wt[t].pc = "getfl" /\ wt[t].idx \in Idx
             /\ wt'[t].idx = wt[t].idx /\ wt'[t].pc = "setfl"
  <2>1. hand[t].pc = "none"
    BY <1>3 DEF GetFlags, CanRun
  <2> QED BY <1>3, <2>1, GetFlagsMoves
<1>4. CASE PollTimeout(t) \/ PollInterrupted(t) \/ Restore(t)
  <2>1. PICK from \in {"poll", "eintr", "restore"}, v \in BOOLEAN : WaitReturn(t, from, v)
    BY <1>4 DEF PollTimeout, PollInterrupted, Restore
  <2> QED BY <1>0, <1>1, <2>1
<1>5. CASE PollReady(t) \/ SetFlags(t) \/ DrainRead(t) \/ DrainEnd(t)
  <2>1. PICK from \in {"poll", "setfl", "drain"}, to \in {"getfl", "drain", "restore"} :
          WaitStep(t, from, to)
    BY <1>5 DEF PollReady, SetFlags, DrainRead, DrainEnd
  <2> QED BY <1>0, <1>2, <2>1
<1> QED BY <1>0, <1>3, <1>4, <1>5 DEF WaitSteps

\* Every step keeps what the handlers and waits rely on.
LEMMA NextUse == IInv /\ UseInv /\ [Next]_vars => UseInv'
<1> SUFFICES ASSUME IInv, UseInv, [Next]_vars PROVE UseInv'
  OBVIOUS
<1> USE SignalAssumption
<1>1. CASE MainStep
  BY <1>1, MainStepUse
<1>2. CASE UNCHANGED vars
  BY <1>2 DEF UseInv, FreshInv, WaitInv, EmptyInv, vars
<1>3. ASSUME NEW t \in Threads, NEW s \in 1 .. NSig, Deliver(s, t) PROVE UseInv'
  <2>1. /\ UNCHANGED <<op, notifier, bytes>>
        /\ \/ UNCHANGED hand
           \/ /\ hand'[t].pc = "check" /\ ~hand'[t].late
              /\ \A u \in Threads : u # t => hand'[u] = hand[u]
        /\ \A u \in Threads : /\ wt'[u].idx = wt[u].idx
                              /\ wt'[u].pc = "idle" <=> wt[u].pc = "idle"
    BY <1>3, DeliverMoves
  <2>2. FreshInv'
    BY <2>1 DEF UseInv, FreshInv
  <2>3. WaitInv' /\ EmptyInv'
    BY <2>1 DEF UseInv, WaitInv, EmptyInv
  <2> QED BY <2>2, <2>3 DEF UseInv
<1>4. ASSUME NEW t \in Threads, NEW o \in Objects, WaitBegin(t, o) PROVE UseInv'
  <2>1. /\ notifier[signum_[o]].is_init /\ notifier[signum_[o]].r # NoFd
        /\ wt' = [wt EXCEPT ![t] = [WaitIdle EXCEPT !.pc = "poll", !.idx = signum_[o]]]
        /\ UNCHANGED <<op, notifier, hand, bytes>>
    BY <1>4 DEF WaitBegin, kernel
  <2>2. /\ wt'[t].pc = "poll" /\ wt'[t].idx = signum_[o]
        /\ \A u \in Threads : u # t => wt'[u] = wt[u]
    BY <2>1 DEF IInv, TypeOK, WaitIdle
  <2> QED BY <2>1, <2>2 DEF UseInv, FreshInv, WaitInv, EmptyInv
<1>5. ASSUME NEW t \in Threads, WaitSteps(t) PROVE UseInv'
  <2>1. /\ WaitMoves(t) /\ wt[t].pc # "idle"
        /\ \/ wt'[t].pc # "idle" /\ wt'[t].idx = wt[t].idx
           \/ wt'[t].pc = "idle" /\ wt'[t].idx = Invalid
        /\ \A i \in Idx : i # wt[t].idx => bytes'[i] = bytes[i]
    BY <1>5, WaitStepsMove
  <2>2. FreshInv' /\ WaitInv'
    BY <2>1 DEF UseInv, FreshInv, WaitInv, WaitMoves
  <2>3. op.pc = "ctor_init" => op.idx \in Idx /\ op.idx # wt[t].idx
    BY <2>1 DEF IInv, OpInv, UseInv, WaitInv
  <2>4. EmptyInv'
    BY <2>1, <2>3 DEF UseInv, EmptyInv, WaitMoves
  <2> QED BY <2>2, <2>4 DEF UseInv
<1>6. ASSUME NEW t \in Threads, HandlerCheck(t) \/ HandlerLoad(t) PROVE UseInv'
  <2>1. /\ UNCHANGED <<op, notifier, bytes, wt>>
        /\ \A u \in Threads : u # t => hand'[u] = hand[u]
        /\ \/ hand'[t] = NoHandler
           \/ /\ hand'[t].idx = hand[t].idx /\ hand'[t].late = hand[t].late
              /\ \/ /\ hand[t].pc = "check" /\ hand'[t].pc = "load"
                    /\ notifier[hand[t].idx].is_init
                 \/ /\ hand[t].pc = "load" /\ hand'[t].pc = "write"
                    /\ hand'[t].fd = notifier[hand[t].idx].w
    BY <1>6, HandlerStepMoves DEF kernel
  <2>2. FreshInv'
    BY <2>1 DEF UseInv, FreshInv, NoHandler
  <2>3. WaitInv' /\ EmptyInv'
    BY <2>1 DEF UseInv, WaitInv, EmptyInv
  <2> QED BY <2>2, <2>3 DEF UseInv
<1>7. ASSUME NEW t \in Threads, HandlerWrite(t) PROVE UseInv'
  <2>1. /\ UNCHANGED <<op, notifier, wt>> /\ hand'[t] = NoHandler
        /\ \A u \in Threads : u # t => hand'[u] = hand[u]
    BY <1>7, HandlerWriteMoves DEF UseInv
  <2>2. FreshInv' /\ WaitInv'
    BY <2>1 DEF UseInv, FreshInv, WaitInv, NoHandler
  <2>3. Threads = {Main} /\ op.pc = "ctor_init" => bytes'[op.idx] = bytes[op.idx]
    <3>1. op.pc = "ctor_init" => op.idx \in Idx /\ ~notifier[op.idx].is_init
      BY DEF IInv, OpInv
    <3>2. Threads = {Main} => ~hand[t].late
      BY DEF UseInv, FreshInv
    <3> QED BY <1>7, <3>1, <3>2, HandlerWriteMoves DEF UseInv, IInv, TypeOK
  <2>4. EmptyInv'
    BY <2>1, <2>3 DEF UseInv, EmptyInv
  <2> QED BY <2>2, <2>4 DEF UseInv
<1>8. CASE Next
  <2>1. \A o \in Objects : signum_[o] \in Idx => signum_[o] + 1 \in 1 .. NSig
    BY DEF Idx
  <2> QED BY <1>1, <1>3, <1>4, <1>5, <1>6, <1>7, <1>8, <2>1
          DEF Next, HandlerSteps, Raise, Kill, CanCall
<1> QED BY <1>2, <1>8

\* The invariant holds of every behaviour.
LEMMA UseInvariance == Spec => []UseInv
<1>1. Init => UseInv
  BY DEF Init, UseInv, FreshInv, WaitInv, EmptyInv, OpIdle, WaitIdle, NoHandler
<1>2. IInv /\ UseInv /\ [Next]_vars => UseInv'
  BY NextUse
<1> QED BY <1>1, <1>2, Invariance, PTL DEF Spec

\* On any number of threads, the descriptor a handler writes to is the write
\* end of its own pipe (signal.cpp 131-142), unless its object has gone away
\* after it had looked at the flag, which cannot happen to it on Main.
THEOREM LoadedDescriptorIsFresh == Spec => []HandlerFdFresh
<1>1. IInv /\ UseInv => HandlerFdFresh
  <2> SUFFICES ASSUME IInv, UseInv
               PROVE  /\ ~hand[Main].late
                      /\ \A t \in Threads : hand[t].pc = "write" /\ ~hand[t].late
                           => fdtab[hand[t].fd] = [pipe |-> hand[t].idx, end |-> "w"]
    BY DEF HandlerFdFresh
  <2>1. ~hand[Main].late
    BY SignalAssumption DEF UseInv, FreshInv
  <2>2. ASSUME NEW t \in Threads, hand[t].pc = "write", ~hand[t].late
        PROVE  fdtab[hand[t].fd] = [pipe |-> hand[t].idx, end |-> "w"]
    <3>1. hand[t].fd \in Fds /\ hand[t].idx \in Idx
      BY <2>2 DEF IInv, ThreadInv
    <3>2. hand[t].fd = notifier[hand[t].idx].w
      BY <2>2 DEF UseInv, FreshInv
    <3>3. hand[t].fd # NoFd
      BY <3>1, SignalAssumption DEF NoFd
    <3> QED BY <3>1, <3>2, <3>3 DEF IInv, FdInv
  <2> QED BY <2>1, <2>2
<1> QED BY <1>1, Invariance, UseInvariance, PTL

-----------------------------------------------------------------------------
(* Signal implements Notification.                                         *)

\* The abstract state: a source has an event pending, a wait has seen it.
Pending(i) == notifier[i].is_init /\ notifier[i].r # NoFd /\ bytes[i] > 0
Seen(t) == wt[t].pc \in {"getfl", "setfl", "drain", "restore"}

\* A step that changes neither the flags nor what is pending, nor where the
\* waits are, is a stutter.
LEMMA StutterStep ==
  ASSUME \A i \in Idx : /\ notifier'[i].is_init <=> notifier[i].is_init
                        /\ Pending(i)' <=> Pending(i),
         \A t \in Threads : wt'[t].idx = wt[t].idx /\ (Seen(t)' <=> Seen(t))
  PROVE  UNCHANGED N!nvars
BY DEF Pending, Seen, N!nvars

\* A step of Main's operations opens a source, closes one, or stutters.
LEMMA MainStepImplements ==
  ASSUME IInv, UseInv, MainStep
  PROVE  [N!NNext]_N!nvars
<1> USE SignalAssumption
<1>0. /\ UNCHANGED wt
      /\ \A t \in Threads : wt'[t].idx = wt[t].idx /\ (Seen(t)' <=> Seen(t))
  BY MainStepUse DEF Seen
<1>1. ASSUME NEW o \in Objects, NEW s \in Args, Construct(o, s) PROVE UNCHANGED N!nvars
  <2> DEFINE i == s - 1
  <2>1. i \in Idx /\ ~notifier[i].is_init /\ Create(i)
    BY <1>1 DEF Construct, Idx
  <2> HIDE DEF i
  <2>2. \A j \in Idx : notifier'[j].is_init = notifier[j].is_init
    BY <2>1, CreateFlags DEF IInv
  <2>3. \A j \in Idx : j # i => notifier'[j] = notifier[j] /\ bytes'[j] = bytes[j]
    BY <2>1 DEF IInv, TypeOK, Create, kernel
  <2>4. \A j \in Idx : Pending(j)' <=> Pending(j)
    BY <2>1, <2>2, <2>3 DEF Pending
  <2> QED BY <1>0, <2>2, <2>4, StutterStep
<1>2. CASE CtorInit
  <2>1. op.idx \in Idx /\ op.pc = "ctor_init" /\ ~notifier[op.idx].is_init
    BY <1>2 DEF CtorInit, IInv, OpInv
  <2>2. /\ \A j \in Idx : notifier'[j].r = notifier[j].r
        /\ \A j \in Idx : j # op.idx => notifier'[j] = notifier[j]
        /\ notifier'[op.idx].is_init /\ UNCHANGED bytes
    BY <1>2, <2>1, NotifierFlag DEF CtorInit, IInv, kernel
  <2>3. PICK i \in Idx : i = op.idx
    BY <2>1
  <2>4. \A j \in Idx : j # i => (Pending(j)' <=> Pending(j))
    BY <2>2, <2>3 DEF Pending
  <2> DEFINE p == Pending(i)'
  <2>5. p \in {FALSE, Threads # {Main}}
    <3>1. CASE Threads = {Main}
      <4>1. ~p
        BY <2>1, <2>2, <2>3, <3>1 DEF Pending, UseInv, EmptyInv
      <4> QED BY <3>1, <4>1 DEF Pending
    <3>2. CASE Threads # {Main}
      BY <3>2 DEF Pending
    <3> QED BY <3>1, <3>2
  <2>6. [j \in Idx |-> Pending(j)]' = [[j \in Idx |-> Pending(j)] EXCEPT ![i] = p]
    BY <2>4 DEF Pending
  <2> HIDE DEF p
  <2>7. N!Open(i)
    BY <1>0, <2>1, <2>2, <2>3, <2>5, <2>6 DEF N!Open, Pending, Seen
  <2> QED BY <2>7 DEF N!NNext
<1>3. ASSUME NEW o \in objs, NEW src, Unused(o), Release(o, src), UNCHANGED bytes
      PROVE  [N!NNext]_N!nvars
  <2>1. CASE UNCHANGED notifier
    BY <1>0, <1>3, <2>1, StutterStep DEF Pending
  <2>2. CASE /\ signum_[o] \in Idx /\ notifier[signum_[o]].is_init
             /\ notifier' = [notifier EXCEPT ![signum_[o]].is_init = FALSE]
    <3>0. PICK i \in Idx : i = signum_[o]
      BY <2>2
    <3>1. /\ \A j \in Idx : j # i => notifier'[j] = notifier[j]
          /\ ~notifier'[i].is_init
      BY <2>2, <3>0, NotifierFlag DEF IInv
    <3>2. \A t \in Threads : wt[t].idx # i
      BY <1>3, <3>0 DEF Unused, UseInv, WaitInv, Invalid, Idx
    <3>3. N!Close(i)
      BY <1>0, <1>3, <2>2, <3>0, <3>1, <3>2 DEF N!Close, Pending, Seen
    <3> QED BY <3>3 DEF N!NNext
  <2> QED BY <1>3, <2>1, <2>2 DEF Release
<1>4. ASSUME UNCHANGED <<notifier, bytes>> PROVE UNCHANGED N!nvars
  BY <1>0, <1>4, StutterStep DEF Pending
<1>5. ASSUME RelCloseRead \/ RelCloseWrite PROVE UNCHANGED N!nvars
  <2>1. op.idx \in Idx /\ ~notifier[op.idx].is_init /\ UNCHANGED bytes
    BY <1>5 DEF RelCloseRead, RelCloseWrite, IInv, OpInv
  <2>2. \A j \in Idx : /\ notifier'[j].is_init = notifier[j].is_init
                       /\ j # op.idx => notifier'[j] = notifier[j]
    BY <1>5, <2>1, ForgetRead, ForgetWrite DEF RelCloseRead, RelCloseWrite, IInv
  <2> QED BY <1>0, <2>1, <2>2, StutterStep DEF Pending
<1>6. ASSUME NEW o \in Objects, NEW p \in Objects, Destroy(o) \/ MoveAssign(o, p)
      PROVE  [N!NNext]_N!nvars
  BY <1>3, <1>6 DEF Destroy, MoveAssign, kernel
<1>7. ASSUME NEW o \in Objects, NEW p \in Objects, MoveConstruct(o, p)
      PROVE  UNCHANGED N!nvars
  BY <1>4, <1>7 DEF MoveConstruct, kernel
<1>8. ASSUME CtorRegister \/ RelDefault PROVE UNCHANGED N!nvars
  BY <1>4, <1>8 DEF CtorRegister, RelDefault, kernel
<1> QED BY <1>1, <1>2, <1>5, <1>6, <1>7, <1>8 DEF MainStep

\* A delivery has not reached the pipe yet, and what the handler reads is
\* none of the abstract state's business; its write raises an event, its own
\* or, when it is late, perhaps another.
LEMMA HandlerImplements ==
  ASSUME IInv, UseInv, NEW t \in Threads,
         (\E s \in 1 .. NSig : Deliver(s, t)) \/ HandlerSteps(t)
  PROVE  [N!NNext]_N!nvars
<1> USE SignalAssumption
<1>1. ASSUME NEW s \in 1 .. NSig, Deliver(s, t) PROVE UNCHANGED N!nvars
  <2>1. /\ UNCHANGED <<notifier, bytes>>
        /\ \A u \in Threads : wt'[u].idx = wt[u].idx /\ (Seen(u)' <=> Seen(u))
    BY <1>1, DeliverMoves DEF Seen
  <2> QED BY <2>1, StutterStep DEF Pending
<1>2. CASE HandlerCheck(t) \/ HandlerLoad(t)
  <2>1. UNCHANGED <<notifier, bytes, wt>>
    BY <1>2, HandlerStepMoves DEF kernel
  <2> QED BY <2>1, StutterStep DEF Pending, Seen
<1>3. CASE HandlerWrite(t)
  <2>1. UNCHANGED <<notifier, wt>>
    BY <1>3, HandlerWriteMoves DEF UseInv
  <2>2. CASE UNCHANGED bytes
    BY <2>1, <2>2, StutterStep DEF Pending, Seen
  <2>3. ASSUME NEW i \in Idx, bytes' = [bytes EXCEPT ![i] = @ + 1]
        PROVE  [N!NNext]_N!nvars
    <3>1. bytes'[i] > 0 /\ \A j \in Idx : j # i => bytes'[j] = bytes[j]
      BY <2>3 DEF IInv, TypeOK
    <3>2. CASE notifier[i].is_init /\ notifier[i].r # NoFd
      <4>1. N!RaiseEvent(i)
        BY <2>1, <3>1, <3>2 DEF N!RaiseEvent, Pending, Seen
      <4> QED BY <4>1 DEF N!NNext
    <3>3. CASE ~(notifier[i].is_init /\ notifier[i].r # NoFd)
      BY <2>1, <3>1, <3>3, StutterStep DEF Pending, Seen
    <3> QED BY <3>2, <3>3
  <2> QED BY <1>3, <2>2, <2>3, HandlerWriteMoves DEF UseInv
<1> QED BY <1>1, <1>2, <1>3 DEF HandlerSteps

\* A step of one wait changes what the abstract state says of its thread.
LEMMA OneWait ==
  ASSUME NEW t \in Threads, \A u \in Threads : u # t => wt'[u] = wt[u]
  PROVE  /\ [u \in Threads |-> Seen(u)]' = [[u \in Threads |-> Seen(u)] EXCEPT ![t] = Seen(t)']
         /\ [u \in Threads |-> wt[u].idx]' =
              [[u \in Threads |-> wt[u].idx] EXCEPT ![t] = wt'[t].idx]
BY DEF Seen

\* A wait begins, sees the event, takes it with its last read, and returns;
\* its other steps stutter.
LEMMA WaitImplements ==
  ASSUME IInv, UseInv, NEW t \in Threads,
         (\E o \in Objects : WaitBegin(t, o)) \/ WaitSteps(t)
  PROVE  [N!NNext]_N!nvars
<1> USE SignalAssumption
<1>0. wt \in [Threads -> WaitType] /\ bytes \in [Idx -> Nat]
  BY DEF IInv, TypeOK, WaitType
<1>1. ASSUME NEW o \in Objects, WaitBegin(t, o) PROVE [N!NNext]_N!nvars
  <2>0. PICK i \in Idx : i = signum_[o]
    BY <1>1 DEF WaitBegin, CanCall
  <2>1. /\ notifier[i].is_init /\ wt[t].pc = "idle"
        /\ wt' = [wt EXCEPT ![t] = [WaitIdle EXCEPT !.pc = "poll", !.idx = i]]
        /\ UNCHANGED <<notifier, bytes>>
    BY <1>1, <2>0 DEF WaitBegin, CanCall, kernel
  <2>2. wt'[t].idx = i /\ wt[t].idx = Invalid /\ ~Seen(t)' /\ ~Seen(t)
    BY <1>0, <2>1 DEF UseInv, WaitInv, WaitIdle, Seen
  <2>3. \A u \in Threads : u # t => wt'[u] = wt[u]
    BY <1>0, <2>1
  <2>4. [u \in Threads |-> Seen(u)]' = [u \in Threads |-> Seen(u)]
    BY <2>2, <2>3 DEF Seen
  <2>5. [u \in Threads |-> wt[u].idx]' = [[u \in Threads |-> wt[u].idx] EXCEPT ![t] = i]
    BY <2>2, <2>3, OneWait
  <2>6. N!BeginWait(t, i)
    BY <1>0, <2>1, <2>2, <2>4, <2>5 DEF N!BeginWait, N!NoSource, Invalid, Seen
  <2> QED BY <1>0, <2>6 DEF N!NNext
<1>2. ASSUME WaitSteps(t)
      PROVE  /\ wt[t].pc # "idle" /\ notifier[wt[t].idx].is_init
             /\ notifier[wt[t].idx].r # NoFd /\ wt[t].idx \in Idx
             /\ UNCHANGED notifier
             /\ \A u \in Threads : u # t => wt'[u] = wt[u]
             /\ \/ wt'[t].pc # "idle" /\ wt'[t].idx = wt[t].idx
                \/ wt'[t].pc = "idle" /\ wt'[t].idx = Invalid
  BY <1>0, <1>2, WaitStepsMove DEF UseInv, WaitInv, WaitMoves
<1>3. CASE PollReady(t)
  <2>1. wt[t].pc = "poll" /\ bytes[wt[t].idx] > 0 /\ UNCHANGED bytes
    BY <1>3 DEF PollReady, WaitStep
  <2>2. wt'[t].pc = "getfl" /\ wt'[t].idx = wt[t].idx
    BY <1>0, <1>2, <1>3, WaitStepMoves DEF WaitSteps, PollReady
  <2>3. [u \in Threads |-> Seen(u)]' = [[u \in Threads |-> Seen(u)] EXCEPT ![t] = TRUE]
    <3>1. Seen(t)' = TRUE
      BY <2>2 DEF Seen
    <3> QED BY <1>2, <1>3, <3>1, OneWait DEF WaitSteps
  <2>4. [u \in Threads |-> wt[u].idx]' = [u \in Threads |-> wt[u].idx]
    BY <1>2, <1>3, <2>2 DEF WaitSteps
  <2>5. wt[t].idx \in Idx /\ Pending(wt[t].idx) /\ UNCHANGED <<notifier, bytes>>
    BY <1>2, <1>3, <2>1 DEF WaitSteps, Pending
  <2>6. N!Observe(t)
    BY <2>3, <2>4, <2>5 DEF N!Observe, Pending, Seen
  <2> QED BY <2>6 DEF N!NNext
<1>4. CASE PollTimeout(t) \/ PollInterrupted(t) \/ Restore(t)
  <2>1. UNCHANGED bytes /\ wt'[t].pc = "idle"
    <3>1. PICK from \in {"poll", "eintr", "restore"}, v \in BOOLEAN :
            WaitReturn(t, from, v)
      BY <1>4 DEF PollTimeout, PollInterrupted, Restore
    <3>2. wt'[t] = [WaitIdle EXCEPT !.arrived = wt[t].arrived /\ ~v, !.ret = v]
      BY <1>0, <3>1 DEF WaitReturn
    <3> QED BY <3>1, <3>2 DEF WaitReturn, WaitIdle
  <2>2. wt'[t].idx = Invalid /\ Seen(t)' = FALSE
    BY <1>2, <1>4, <2>1 DEF WaitSteps, Seen
  <2>3. UNCHANGED <<notifier, bytes>> /\ wt[t].idx \in Idx
    BY <1>2, <1>4, <2>1 DEF WaitSteps
  <2>4. [u \in Threads |-> Seen(u)]' = [[u \in Threads |-> Seen(u)] EXCEPT ![t] = FALSE]
    BY <1>2, <1>4, <2>2, OneWait DEF WaitSteps
  <2>5. [u \in Threads |-> wt[u].idx]' = [[u \in Threads |-> wt[u].idx] EXCEPT ![t] = -1]
    BY <1>2, <1>4, <2>2, OneWait DEF WaitSteps, Invalid
  <2>6. N!ReturnWait(t)
    BY <1>0, <2>3, <2>4, <2>5 DEF N!ReturnWait, N!NoSource, Seen
  <2> QED BY <1>0, <2>6 DEF N!NNext
<1>5. CASE GetFlags(t) \/ SetFlags(t) \/ DrainEnd(t)
  <2>1. /\ UNCHANGED bytes /\ wt[t].pc \in {"getfl", "setfl", "drain"}
        /\ wt'[t].pc \in {"setfl", "drain", "restore"}
    BY <1>0, <1>5 DEF GetFlags, SetFlags, DrainEnd, WaitStep, WaitType, kernel
  <2>2. wt'[t].idx = wt[t].idx
    BY <1>2, <1>5, <2>1 DEF WaitSteps
  <2>3. \A u \in Threads : wt'[u].idx = wt[u].idx /\ (Seen(u)' <=> Seen(u))
    BY <1>2, <1>5, <2>1, <2>2 DEF WaitSteps, Seen
  <2>4. UNCHANGED notifier
    BY <1>2, <1>5 DEF WaitSteps
  <2> QED BY <2>1, <2>3, <2>4, StutterStep DEF Pending
<1>6. CASE DrainRead(t)
  <2>0. PICK i \in Idx : i = wt[t].idx
    BY <1>2, <1>6 DEF WaitSteps
  <2>1. /\ wt[t].pc = "drain" /\ bytes[i] > 0
        /\ bytes' = [bytes EXCEPT ![i] = IF @ > BufSize THEN @ - BufSize ELSE 0]
    BY <1>6, <2>0 DEF DrainRead, WaitStep
  <2>2. wt'[t].pc = "drain" /\ wt'[t].idx = i
    BY <1>0, <1>6, <2>0, WaitStepMoves DEF DrainRead
  <2>3. /\ notifier[i].is_init /\ notifier[i].r # NoFd /\ UNCHANGED notifier
        /\ \A j \in Idx : j # i => bytes'[j] = bytes[j]
    BY <1>0, <1>2, <1>6, <2>0, <2>1 DEF WaitSteps
  <2>4. \A u \in Threads : wt'[u].idx = wt[u].idx /\ (Seen(u)' <=> Seen(u))
    BY <1>2, <1>6, <2>0, <2>1, <2>2 DEF WaitSteps, Seen
  <2>5. CASE bytes'[i] > 0
    <3>1. \A j \in Idx : Pending(j)' <=> Pending(j)
      BY <2>1, <2>3, <2>5 DEF Pending
    <3> QED BY <2>3, <2>4, <3>1, StutterStep
  <2>6. CASE ~(bytes'[i] > 0)
    <3>1. /\ ~Pending(i)' /\ Seen(t)' /\ Seen(t)
          /\ \A j \in Idx : j # i => (Pending(j)' <=> Pending(j))
      BY <2>1, <2>2, <2>3, <2>6 DEF Pending, Seen
    <3>2. [j \in Idx |-> Pending(j)]' = [[j \in Idx |-> Pending(j)] EXCEPT ![i] = FALSE]
      BY <3>1 DEF Pending
    <3>3. [u \in Threads |-> Seen(u)]' = [u \in Threads |-> Seen(u)]
      BY <2>4 DEF Seen
    <3>4. [u \in Threads |-> wt[u].idx]' = [u \in Threads |-> wt[u].idx]
      BY <2>4
    <3>5. N!Take(t)
      BY <1>0, <2>0, <2>3, <3>1, <3>2, <3>3, <3>4 DEF N!Take, Pending, Seen
    <3> QED BY <1>0, <3>5 DEF N!NNext
  <2> QED BY <2>5, <2>6
<1> QED BY <1>1, <1>3, <1>4, <1>5, <1>6 DEF WaitSteps

\* Signal implements interfaces::Notification on any number of threads:
\* whatever the handlers interrupt and the other threads do, an event that
\* was written to a pipe is taken only by a wait() that has seen it and
\* returns true (signal.cpp 84-143, the poll, the drain loop and the
\* handler), and with one thread none is pending when an object comes up.
THEOREM SignalNotifies == Spec => ImplementsNotification
<1>1. Init => N!NInit
  <2> SUFFICES ASSUME Init PROVE N!NInit
    OBVIOUS
  <2>1. \A i \in Idx : ~notifier[i].is_init
    BY DEF Init, NoPipe
  <2>2. \A t \in Threads : Seen(t) = FALSE /\ wt[t].idx = -1
    BY DEF Init, WaitIdle, Invalid, Seen
  <2>3. [i \in Idx |-> Pending(i)] = [i \in Idx |-> FALSE]
    BY <2>1 DEF Pending
  <2>4. [t \in Threads |-> Seen(t)] = [t \in Threads |-> FALSE]
    BY <2>2
  <2> QED BY <2>1, <2>2, <2>3, <2>4 DEF N!NInit, N!NoSource, Pending, Seen
<1>2. IInv /\ UseInv /\ [Next]_vars => [N!NNext]_N!nvars
  <2> SUFFICES ASSUME IInv, UseInv, [Next]_vars PROVE [N!NNext]_N!nvars
    OBVIOUS
  <2>1. CASE UNCHANGED vars
    BY <2>1, StutterStep DEF vars, Pending, Seen
  <2>2. CASE MainStep
    BY <2>2, MainStepImplements
  <2>3. CASE Next /\ ~MainStep
    <3>1. \A o \in Objects : signum_[o] \in Idx => signum_[o] + 1 \in 1 .. NSig
      BY SignalAssumption DEF Idx
    <3>2. \E t \in Threads :
            \/ \E s \in 1 .. NSig : Deliver(s, t)
            \/ \E o \in Objects : WaitBegin(t, o)
            \/ WaitSteps(t) \/ HandlerSteps(t)
      BY <2>3, <3>1 DEF Next, Raise, Kill, CanCall
    <3> QED BY <3>2, HandlerImplements, WaitImplements
  <2> QED BY <2>1, <2>2, <2>3
<1> QED BY <1>1, <1>2, Invariance, UseInvariance, PTL DEF Spec, N!NSpec, ImplementsNotification
=============================================================================
