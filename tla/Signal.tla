------------------------------- MODULE Signal -------------------------------
(***************************************************************************)
(* rix::ipc::Signal (src/rix/ipc/signal.cpp): signal objects, the static   *)
(* notifier table with one self-pipe per signal number, the asynchronous   *)
(* handler that writes a byte to the pipe, and wait(), which polls the     *)
(* pipe and drains it.  One process; the thread Main constructs, moves and *)
(* destroys the objects, every thread may wait, and the kernel runs the    *)
(* handler on any thread, between any two steps of any operation.          *)
(*                                                                         *)
(* External behaviour taken from how the code uses it: pipe(2) with the    *)
(* lowest free descriptors and a finite buffer, poll(2) (ready, timed out, *)
(* or interrupted by a handler), signal(2) with BSD semantics, and the     *)
(* default action of a signal, which ends the process.                     *)
(***************************************************************************)
EXTENDS Integers, FiniteSets

CONSTANTS
  NSig,        \* signal numbers are 1..NSig (32 in the code)
  Uncatchable, \* numbers signal(2) refuses (SIGKILL, SIGSTOP, 32 in glibc)
  Args,        \* the arguments the constructor is tried with
  Objects,     \* storage for Signal objects
  Threads,     \* the threads of the process
  Main,        \* the one that constructs, moves and destroys
  Fds,         \* the descriptors pipe(2) may hand out
  PipeCap,     \* capacity of a pipe, in bytes (65536 on Linux)
  BufSize,     \* sizeof(buf) in wait() (64 in the code)
  MaxSignals   \* bound on the number of signals delivered

ASSUME SignalAssumption ==
  /\ NSig \in Nat /\ PipeCap \in Nat \ {0} /\ BufSize \in Nat \ {0}
  /\ MaxSignals \in Nat
  /\ Uncatchable \subseteq 1 .. NSig
  /\ Args \subseteq Int /\ Fds \subseteq Nat /\ Main \in Threads

Idx  == 0 .. NSig - 1    \* indices of the notifier table
NoFd == -1               \* fd_ of a File that is not open
Invalid == -1            \* signum_ of a moved-from Signal

VARIABLES
  alive,     \* the process has not been ended by a signal
  objs,      \* the Signal objects that exist
  signum_,   \* Signal::signum_ of each object, an index or Invalid
  notifier,  \* Signal::notifier: is_init and the fd_ of pipe[0] and pipe[1]
  fdtab,     \* the kernel's descriptor table: which end of which pipe
  bytes,     \* bytes buffered in the pipe of each index
  nonblock,  \* O_NONBLOCK of its read end
  handled,   \* signal numbers whose disposition is Signal::handler
  op,        \* the constructor, destructor or assignment Main is in
  wt,        \* the wait() each thread is in
  hand,      \* the handler each thread is in; its late is history: the
             \* object went away after the handler had looked at the flag
  raised,    \* number of signals delivered so far
  unseen     \* history: a signal was delivered and no wait has drained it

vars == <<alive, objs, signum_, notifier, fdtab, bytes, nonblock, handled,
          op, wt, hand, raised, unseen>>
kernel == <<fdtab, bytes, nonblock>>

Closed  == [pipe |-> -1, end |-> "none"]
NoPipe  == [is_init |-> FALSE, r |-> NoFd, w |-> NoFd]
OpIdle  == [pc |-> "idle", obj |-> {}, src |-> {}, idx |-> Invalid]
WaitIdle == [pc |-> "idle", idx |-> Invalid, was |-> FALSE,
             arrived |-> FALSE, ret |-> FALSE]
NoHandler == [pc |-> "none", idx |-> Invalid, fd |-> NoFd, late |-> FALSE]

Init ==
  /\ alive = TRUE /\ objs = {} /\ raised = 0 /\ handled = {}
  /\ signum_ = [o \in Objects |-> Invalid]
  /\ notifier = [i \in Idx |-> NoPipe]
  /\ fdtab = [f \in Fds |-> Closed]
  /\ bytes = [i \in Idx |-> 0]
  /\ nonblock = [i \in Idx |-> FALSE]
  /\ unseen = [i \in Idx |-> FALSE]
  /\ op = OpIdle
  /\ wt = [t \in Threads |-> WaitIdle]
  /\ hand = [t \in Threads |-> NoHandler]

\* A thread runs its own code only when no handler has interrupted it.
CanRun(t) == alive /\ hand[t].pc = "none"
MainFree  == CanRun(Main) /\ op.pc = "idle" /\ wt[Main].pc = "idle"
\* C++ lifetime rules: an object is not used while it is moved or destroyed,
\* and not moved or destroyed under a waiter.
CanCall(t, o) == /\ CanRun(t) /\ wt[t].pc = "idle" /\ (t = Main => op.pc = "idle")
                 /\ o \in objs \ (op.obj \cup op.src) /\ signum_[o] \in Idx
Unused(o) == \A t \in Threads : wt[t].pc = "idle" \/ wt[t].idx # signum_[o]

-----------------------------------------------------------------------------
(* Construction: the pipe, the flag and the disposition, in this order.    *)

\* pipe(2) and Pipe::create: the two lowest free descriptors, or two
\* invalid Pipe objects when the process has run out of them.
Create(i) ==
  LET free == {f \in Fds : fdtab[f] = Closed} IN
  \/ \E r, w \in free :
       /\ \A f \in free : r <= f /\ (f = r \/ w <= f)
       /\ r # w
       /\ fdtab' = [fdtab EXCEPT ![r] = [pipe |-> i, end |-> "r"],
                                 ![w] = [pipe |-> i, end |-> "w"]]
       /\ notifier' = [notifier EXCEPT ![i] = [is_init |-> @.is_init, r |-> r, w |-> w]]
       /\ bytes' = [bytes EXCEPT ![i] = 0]
       /\ nonblock' = [nonblock EXCEPT ![i] = FALSE]
  \/ /\ \A r, w \in free : r = w
     /\ notifier' = [notifier EXCEPT ![i] = [is_init |-> @.is_init, r |-> NoFd, w |-> NoFd]]
     /\ UNCHANGED kernel

\* Both throws (number out of range, number taken) leave no trace.
Construct(o, signum) ==
  /\ MainFree /\ o \notin objs
  /\ signum \in 1 .. NSig /\ ~notifier[signum - 1].is_init
  /\ Create(signum - 1)
  /\ op' = [pc |-> "ctor_init", obj |-> {o}, src |-> {}, idx |-> signum - 1]
  /\ UNCHANGED <<alive, objs, signum_, handled, wt, hand, raised, unseen>>

CtorInit ==
  /\ CanRun(Main) /\ op.pc = "ctor_init"
  /\ notifier' = [notifier EXCEPT ![op.idx].is_init = TRUE]
  /\ unseen' = [unseen EXCEPT ![op.idx] = FALSE]
  /\ op' = [op EXCEPT !.pc = "ctor_reg"]
  /\ UNCHANGED <<alive, objs, signum_, kernel, handled, wt, hand, raised>>

\* Mutant: the object keeps the signal number instead of the index.
BugCtorRegister ==
  /\ CanRun(Main) /\ op.pc = "ctor_reg"
  /\ \E o \in op.obj : signum_' = [signum_ EXCEPT ![o] = op.idx + 1]
  /\ objs' = objs \cup op.obj
  /\ handled' = handled \cup ({op.idx + 1} \ Uncatchable)
  /\ op' = OpIdle
  /\ UNCHANGED <<alive, notifier, kernel, wt, hand, raised, unseen>>

\* The result of signal(2) is not looked at: with a number it refuses the
\* object is valid and its handler is not installed.
CtorRegister ==
  /\ CanRun(Main) /\ op.pc = "ctor_reg"
  /\ \E o \in op.obj : signum_' = [signum_ EXCEPT ![o] = op.idx]
  /\ objs' = objs \cup op.obj
  /\ handled' = handled \cup ({op.idx + 1} \ Uncatchable)
  /\ op' = OpIdle
  /\ UNCHANGED <<alive, notifier, kernel, wt, hand, raised, unseen>>

-----------------------------------------------------------------------------
(* Destruction and the moves.  The destructor and the move assignment      *)
(* release the destination in the same four steps: flag down, both pipe    *)
(* ends closed, default disposition back.                                  *)

\* What is left once the destination o holds nothing: the destructor ends
\* its life (src = {}), the assignment swaps Invalid with the source.
Finish(o, src) ==
  \/ /\ src = {}
     /\ objs' = objs \ {o}
     /\ signum_' = [signum_ EXCEPT ![o] = Invalid]
  \/ \E p \in src :
       /\ signum_' = [signum_ EXCEPT ![o] = signum_[p], ![p] = Invalid]
       /\ UNCHANGED objs

\* The handlers for index i that have found its flag up are late from now on.
Outlive(i) == hand' = [t \in Threads |->
  [hand[t] EXCEPT !.late = @ \/ (hand[t].idx = i /\ hand[t].pc \in {"load", "write"})]]

Release(o, src) ==
  \/ /\ signum_[o] \in Idx /\ notifier[signum_[o]].is_init
     /\ notifier' = [notifier EXCEPT ![signum_[o]].is_init = FALSE]
     /\ op' = [pc |-> "rel_r", obj |-> {o}, src |-> src, idx |-> signum_[o]]
     /\ Outlive(signum_[o])
     /\ UNCHANGED <<objs, signum_>>
  \/ /\ ~(signum_[o] \in Idx /\ notifier[signum_[o]].is_init)
     /\ Finish(o, src)
     /\ UNCHANGED <<notifier, op, hand>>

Destroy(o) ==
  /\ MainFree /\ o \in objs /\ Unused(o)
  /\ Release(o, {})
  /\ UNCHANGED <<alive, kernel, handled, wt, raised, unseen>>

\* Mutant: the assignment only swaps, its destination is not released.
BugMoveAssign(o, p) ==
  /\ MainFree /\ o \in objs /\ p \in objs /\ Unused(o) /\ Unused(p)
  /\ Finish(o, {p})
  /\ UNCHANGED <<alive, notifier, kernel, handled, op, wt, hand, raised, unseen>>

MoveAssign(o, p) ==
  /\ MainFree /\ o \in objs /\ p \in objs /\ Unused(o) /\ Unused(p)
  /\ Release(o, {p})
  /\ UNCHANGED <<alive, kernel, handled, wt, raised, unseen>>

MoveConstruct(o, p) ==
  /\ MainFree /\ o \notin objs /\ p \in objs /\ Unused(p)
  /\ objs' = objs \cup {o}
  /\ signum_' = [signum_ EXCEPT ![o] = signum_[p], ![p] = Invalid]
  /\ UNCHANGED <<alive, notifier, kernel, handled, op, wt, hand, raised, unseen>>

\* notifier[i].pipe = {}: Pipe's move assignment closes pipe[0], then pipe[1].
\* It leaves descriptor 0 open (the test is fd_ > 0).
CloseFd(fd) == fdtab' = [f \in Fds |-> IF f = fd /\ fd > 0 THEN Closed ELSE fdtab[f]]

\* Mutant: the descriptor is forgotten, not closed.
BugRelCloseRead ==
  /\ CanRun(Main) /\ op.pc = "rel_r"
  /\ notifier' = [notifier EXCEPT ![op.idx].r = NoFd]
  /\ op' = [op EXCEPT !.pc = "rel_w"]
  /\ UNCHANGED <<alive, objs, signum_, kernel, handled, wt, hand, raised, unseen>>

RelCloseRead ==
  /\ CanRun(Main) /\ op.pc = "rel_r"
  /\ CloseFd(notifier[op.idx].r)
  /\ notifier' = [notifier EXCEPT ![op.idx].r = NoFd]
  /\ op' = [op EXCEPT !.pc = "rel_w"]
  /\ UNCHANGED <<alive, objs, signum_, bytes, nonblock, handled, wt, hand, raised, unseen>>

RelCloseWrite ==
  /\ CanRun(Main) /\ op.pc = "rel_w"
  /\ CloseFd(notifier[op.idx].w)
  /\ notifier' = [notifier EXCEPT ![op.idx].w = NoFd]
  /\ op' = [op EXCEPT !.pc = "rel_dfl"]
  /\ UNCHANGED <<alive, objs, signum_, bytes, nonblock, handled, wt, hand, raised, unseen>>

RelDefault ==
  /\ CanRun(Main) /\ op.pc = "rel_dfl"
  /\ handled' = handled \ {op.idx + 1}
  /\ \E o \in op.obj : Finish(o, op.src)
  /\ op' = OpIdle
  /\ UNCHANGED <<alive, notifier, kernel, wt, hand, raised, unseen>>

-----------------------------------------------------------------------------
(* Delivery and the handler.                                               *)

\* A handler is not interrupted by another one in the model: the nested one
\* would return before the outer one goes on, and writes to another pipe.
\* The kernel delivers s to t: the default action ends the process, the
\* handler interrupts t.  A poll(2) that has found nothing is cut short with
\* EINTR; it is not when t had yet to enter the system call.
Deliver(s, t) ==
  /\ alive /\ hand[t].pc = "none" /\ raised < MaxSignals
  /\ raised' = raised + 1
  /\ \/ /\ s \notin handled
        /\ alive' = FALSE
        /\ UNCHANGED <<wt, hand, unseen>>
     \/ /\ s \in handled
        /\ hand' = [hand EXCEPT ![t] = [NoHandler EXCEPT !.pc = "check", !.idx = s - 1]]
        /\ unseen' = [unseen EXCEPT ![s - 1] = TRUE]
        /\ \E inPoll \in BOOLEAN : wt' = [u \in Threads |->
             [wt[u] EXCEPT
                !.arrived = @ \/ wt[u].idx = s - 1,
                !.pc = IF inPoll /\ u = t /\ @ = "poll" /\ bytes[wt[u].idx] = 0
                       THEN "eintr" ELSE @]]
        /\ UNCHANGED alive
  /\ UNCHANGED <<objs, signum_, notifier, kernel, handled, op>>

\* raise() signals the calling thread, kill() any thread of the process.
Raise(t, o) == CanCall(t, o) /\ Deliver(signum_[o] + 1, t)
Kill(t, o, u) == CanCall(t, o) /\ Deliver(signum_[o] + 1, u)

HandlerStep(t, from, next) ==
  /\ alive /\ hand[t].pc = from
  /\ hand' = [hand EXCEPT ![t] = next]
  /\ UNCHANGED <<alive, objs, signum_, notifier, kernel, handled, op, wt, raised, unseen>>

Loading(t) == [hand[t] EXCEPT !.pc = "load"]

\* Mutant: the flag is not looked at.
BugHandlerCheck(t) == HandlerStep(t, "check", Loading(t))

\* The flag is_init is read first ...
HandlerCheck(t) == HandlerStep(t, "check",
  IF notifier[hand[t].idx].is_init THEN Loading(t) ELSE NoHandler)

\* ... and the descriptor fd later: on two threads the object may be
\* destroyed, or another one constructed, in between.
LoadFd(t, fd) == HandlerStep(t, "load",
  IF fd # NoFd THEN [hand[t] EXCEPT !.pc = "write", !.fd = fd] ELSE NoHandler)

\* Mutant: the signal number is used as the index.
BugHandlerIndex(t) == LoadFd(t, notifier[(hand[t].idx + 1) % NSig].w)

HandlerLoad(t) == LoadFd(t, notifier[hand[t].idx].w)

\* write(fd, &b, 1): EBADF is ignored, a full pipe blocks, and a pipe
\* without a reader raises SIGPIPE, which ends the process.
WriteBytes(t, n) ==
  LET f == fdtab[hand[t].fd] IN
  /\ alive /\ hand[t].pc = "write"
  /\ \/ /\ f.end = "w" /\ \E g \in Fds : fdtab[g] = [pipe |-> f.pipe, end |-> "r"]
        /\ bytes[f.pipe] + n <= PipeCap
        /\ bytes' = [bytes EXCEPT ![f.pipe] = @ + n]
        /\ UNCHANGED alive
     \/ /\ f.end = "w" /\ \A g \in Fds : fdtab[g] # [pipe |-> f.pipe, end |-> "r"]
        /\ alive' = FALSE
        /\ UNCHANGED bytes
     \/ /\ f.end # "w"
        /\ UNCHANGED <<alive, bytes>>
  /\ hand' = [hand EXCEPT ![t] = NoHandler]
  /\ UNCHANGED <<objs, signum_, notifier, fdtab, nonblock, handled, op, wt, raised, unseen>>

\* Mutant: the handler writes more than one byte at a time.
BugHandlerWrite(t) == WriteBytes(t, 2)

HandlerWrite(t) == WriteBytes(t, 1)

-----------------------------------------------------------------------------
(* wait(d).                                                                *)

\* A wait() on an invalid or uninitialised Signal, or on one whose pipe
\* could not be created, returns false at once: nothing changes.
WaitBegin(t, o) ==
  /\ CanCall(t, o)
  /\ notifier[signum_[o]].is_init /\ notifier[signum_[o]].r # NoFd
  /\ wt' = [wt EXCEPT ![t] = [WaitIdle EXCEPT !.pc = "poll", !.idx = signum_[o]]]
  /\ UNCHANGED <<alive, objs, signum_, notifier, kernel, handled, op, hand, raised, unseen>>

WaitStep(t, from, to) ==
  /\ CanRun(t) /\ wt[t].pc = from
  /\ wt' = [wt EXCEPT ![t].pc = to]
  /\ UNCHANGED <<alive, objs, signum_, notifier, fdtab, handled, op, hand, raised>>

WaitReturn(t, from, value) ==
  /\ CanRun(t) /\ wt[t].pc = from
  /\ wt' = [wt EXCEPT ![t] = [WaitIdle EXCEPT !.arrived = wt[t].arrived /\ ~value,
                                              !.ret = value]]
  /\ UNCHANGED <<alive, objs, signum_, notifier, fdtab, bytes, handled, op, hand,
                 raised, unseen>>

PollReady(t) == /\ WaitStep(t, "poll", "getfl")
                /\ bytes[wt[t].idx] > 0
                /\ UNCHANGED <<bytes, nonblock, unseen>>

\* wait_for_readable() is false when poll() returns 0 and when it fails.
PollTimeout(t) == /\ WaitReturn(t, "poll", FALSE)
                  /\ bytes[wt[t].idx] = 0
                  /\ UNCHANGED nonblock
\* Mutant: the pipe is emptied although the wait is going to return false.
BugPollInterrupted(t) ==
  /\ CanRun(t) /\ wt[t].pc = "eintr"
  /\ bytes' = [bytes EXCEPT ![wt[t].idx] = 0]
  /\ wt' = [wt EXCEPT ![t] = [WaitIdle EXCEPT !.arrived = wt[t].arrived]]
  /\ UNCHANGED <<alive, objs, signum_, notifier, fdtab, nonblock, handled, op, hand,
                 raised, unseen>>

PollInterrupted(t) == WaitReturn(t, "eintr", FALSE) /\ UNCHANGED nonblock

\* was_nonblocking = is_nonblocking(); set_nonblocking(true)
GetFlags(t) ==
  /\ CanRun(t) /\ wt[t].pc = "getfl"
  /\ wt' = [wt EXCEPT ![t].pc = "setfl", ![t].was = nonblock[wt[t].idx]]
  /\ UNCHANGED <<alive, objs, signum_, notifier, kernel, handled, op, hand, raised, unseen>>

SetFlags(t) == /\ WaitStep(t, "setfl", "drain")
               /\ nonblock' = [nonblock EXCEPT ![wt[t].idx] = TRUE]
               /\ UNCHANGED <<bytes, unseen>>

DrainRead(t) ==
  /\ WaitStep(t, "drain", "drain")
  /\ bytes[wt[t].idx] > 0
  /\ bytes' = [bytes EXCEPT ![wt[t].idx] = IF @ > BufSize THEN @ - BufSize ELSE 0]
  /\ UNCHANGED <<nonblock, unseen>>

\* EAGAIN ends the loop; an empty pipe in blocking mode would block here.
DrainEnd(t) ==
  /\ WaitStep(t, "drain", "restore")
  /\ bytes[wt[t].idx] = 0 /\ nonblock[wt[t].idx]
  /\ unseen' = [unseen EXCEPT ![wt[t].idx] = FALSE]
  /\ UNCHANGED <<bytes, nonblock>>

Restore(t) == /\ WaitReturn(t, "restore", TRUE)
              /\ nonblock' = [nonblock EXCEPT ![wt[t].idx] = wt[t].was]

-----------------------------------------------------------------------------
MainStep == \/ \E o \in Objects : \/ \E s \in Args : Construct(o, s)
                                  \/ Destroy(o)
                                  \/ \E p \in Objects : \/ MoveAssign(o, p)
                                                        \/ MoveConstruct(o, p)
            \/ CtorInit \/ CtorRegister
            \/ RelCloseRead \/ RelCloseWrite \/ RelDefault

WaitSteps(t) == \/ PollReady(t) \/ PollTimeout(t) \/ PollInterrupted(t)
                \/ GetFlags(t) \/ SetFlags(t) \/ DrainRead(t) \/ DrainEnd(t)
                \/ Restore(t)

HandlerSteps(t) == HandlerCheck(t) \/ HandlerLoad(t) \/ HandlerWrite(t)

Next == \/ MainStep
        \/ \E t \in Threads :
             \/ \E o \in Objects : \/ WaitBegin(t, o) \/ Raise(t, o)
                                   \/ \E u \in Threads : Kill(t, o, u)
             \/ \E s \in 1 .. NSig : Deliver(s, t)
             \/ WaitSteps(t) \/ HandlerSteps(t)

Spec == Init /\ [][Next]_vars

\* The scheduler runs every thread that can run; poll()'s timeout is finite.
\* Nobody has to call anything and no signal has to come.
Fairness == /\ \A t \in Threads : WF_vars(WaitSteps(t)) /\ WF_vars(HandlerSteps(t))
            /\ WF_vars(CtorInit \/ CtorRegister \/ RelCloseRead \/ RelCloseWrite
                       \/ RelDefault)

FairSpec == Spec /\ Fairness

-----------------------------------------------------------------------------
(* Correctness.                                                            *)

TypeOK ==
  /\ alive \in BOOLEAN /\ objs \subseteq Objects /\ raised \in Nat
  /\ signum_ \in [Objects -> Idx \cup {Invalid}]
  /\ notifier \in [Idx -> [is_init : BOOLEAN, r : Fds \cup {NoFd}, w : Fds \cup {NoFd}]]
  /\ fdtab \in [Fds -> [pipe : Idx \cup {-1}, end : {"none", "r", "w"}]]
  /\ bytes \in [Idx -> Nat] /\ nonblock \in [Idx -> BOOLEAN]
  /\ unseen \in [Idx -> BOOLEAN] /\ handled \subseteq 1 .. NSig
  /\ op \in [pc : {"idle", "ctor_init", "ctor_reg", "rel_r", "rel_w", "rel_dfl"},
             obj : SUBSET Objects, src : SUBSET Objects, idx : Idx \cup {Invalid}]
  /\ wt \in [Threads -> [pc : {"idle", "poll", "eintr", "getfl", "setfl", "drain", "restore"},
                        idx : Idx \cup {Invalid}, was : BOOLEAN,
                        arrived : BOOLEAN, ret : BOOLEAN]]
  /\ hand \in [Threads -> [pc : {"none", "check", "load", "write"}, late : BOOLEAN,
                          idx : Idx \cup {Invalid}, fd : Fds \cup {NoFd}]]

Draining(i) == \E t \in Threads : wt[t].idx = i /\ wt[t].pc \in {"getfl", "setfl", "drain"}
\* Some handler for i is under way and its byte will reach i's pipe.
Delivering(i) == \E t \in Threads :
  /\ hand[t].idx = i
  /\ \/ hand[t].pc \in {"check", "load"}
     \/ hand[t].pc = "write" /\ hand[t].fd = notifier[i].w

\* A signal delivered to an initialised notifier is never lost: until some
\* wait() has drained the pipe (and so is going to return true) there is a
\* byte in the pipe, or the handler is still about to write it (the poll,
\* drain and handler steps of signal.cpp 84-143 in any interleaving).
NoLostSignal ==
  alive => \A i \in Idx :
    notifier[i].is_init /\ notifier[i].w # NoFd /\ unseen[i]
      => bytes[i] > 0 \/ Draining(i) \/ Delivering(i)

\* Signal numbers, notifiers, descriptors and dispositions stay in step
\* through construction, moves and destruction: an initialised notifier has
\* exactly one object, every object with a number has an initialised
\* notifier and (if its number can be caught) an installed handler, and no
\* other handler is installed.
OneOwner ==
  alive /\ op.pc = "idle" =>
    /\ \A o, p \in objs : o # p /\ signum_[o] # Invalid => signum_[o] # signum_[p]
    /\ \A i \in Idx : notifier[i].is_init <=> \E o \in objs : signum_[o] = i
    /\ handled = {i + 1 : i \in {j \in Idx : notifier[j].is_init}} \ Uncatchable

\* No descriptor leaks and none is closed twice: between operations the open
\* descriptors are exactly the two ends of each initialised notifier's pipe.
NoFdLeak ==
  alive /\ op.pc = "idle" =>
    \A f \in Fds : \A i \in Idx :
      /\ fdtab[f] = [pipe |-> i, end |-> "r"] <=> notifier[i].is_init /\ notifier[i].r = f
      /\ fdtab[f] = [pipe |-> i, end |-> "w"] <=> notifier[i].is_init /\ notifier[i].w = f

\* A handler that comes to write holds the write end of its own pipe, on
\* any thread and however the construction, the moves and the destruction of
\* other objects and the reuse of descriptor numbers come between its three
\* reads (signal.cpp:131-142).  The one exception is what the order "flag
\* down, then close" (38-39, 51-52) cannot prevent: its own object goes away
\* after it has looked at the flag, and this happens to it on another thread
\* only, never to a handler that interrupted Main.
HandlerFdFresh ==
  alive => /\ ~hand[Main].late
           /\ \A t \in Threads : hand[t].pc = "write" /\ ~hand[t].late
                => fdtab[hand[t].fd] = [pipe |-> hand[t].idx, end |-> "w"]

\* What signal.cpp:135 says of the handler, without that exception: it
\* writes "to the write end of the pipe".
WritesToOwnPipe ==
  alive => \A t \in Threads :
    hand[t].pc = "write" => fdtab[hand[t].fd] = [pipe |-> hand[t].idx, end |-> "w"]

\* What signal.hpp:93-96 says of wait(): it does not return false when the
\* signal arrived while it was waiting.
WaitReportsArrival == \A t \in Threads : wt[t].pc = "idle" => ~wt[t].arrived

\* Every wait() returns (signal.hpp:93: "or until the specified duration
\* elapses"), unless the process is ended.
WaitReturns == \A t \in Threads :
  (wt[t].pc # "idle") ~> (wt[t].pc = "idle" \/ ~alive)

\* Every handler that was started returns to the code it interrupted, so
\* that raise() returns to its caller (signal.hpp:69-72).
HandlerReturns == \A t \in Threads :
  (hand[t].pc # "none") ~> (hand[t].pc = "none" \/ ~alive)

\* Neither a wait(), with the drain loop in it, nor a raise() whose handler
\* interrupts it ever hangs, as long as the pipe has room.
CallsReturn == WaitReturns /\ HandlerReturns

\* The refinement mapping to the abstract notification.  With a second
\* thread a late handler of the number's previous object may have written to
\* the new pipe before the object is there.
N == INSTANCE Notification WITH
  Sources <- Idx, Waiters <- Threads, Stray <- Threads # {Main},
  open    <- {i \in Idx : notifier[i].is_init},
  pending <- [i \in Idx |-> notifier[i].is_init /\ notifier[i].r # NoFd /\ bytes[i] > 0],
  waiting <- [t \in Threads |-> wt[t].idx],
  seen    <- [t \in Threads |-> wt[t].pc \in {"getfl", "setfl", "drain", "restore"}]

\* Signal implements interfaces::Notification: the self-pipe, the handler
\* and the drain loop together never take an event without reporting it.
ImplementsNotification == N!NSpec
=============================================================================
