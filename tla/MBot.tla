-------------------------------- MODULE MBot --------------------------------
(***************************************************************************)
(* MBot (src/mbot/mbot.cpp): the owner of the serial port.  The program    *)
(* calls drive() on its own thread; a second thread, timesync(), writes a  *)
(* packet twice a second.  A mutex lies around each write; the result of   *)
(* the write is dropped in drive() and ends the loop in timesync().        *)
(*                                                                         *)
(* External: the terminal device, opened O_NDELAY, takes a packet byte by  *)
(* byte as long as its buffer has room, and write() returns a short count  *)
(* when it has none, or fails (EAGAIN, EIO) when not one byte was taken.   *)
(* The line is drained at once: the robot at its end obeys a packet that   *)
(* arrives whole, and may or may not recognise one that follows the        *)
(* remains of another.                                                     *)
(***************************************************************************)
EXTENDS Integers

CONSTANTS
  Cmds,       \* what drive() can be told
  PacketLen   \* bytes of a packet: 28 for drive(), 16 for timesync()

ASSUME MBotAssumption == PacketLen \in Nat \ {0}

Main == "main"
Sync == "sync"
Threads == {Main, Sync}
NoOne == "none"
NoCmd == "no command"
ASSUME CmdsAssumption == NoCmd \notin Cmds

VARIABLES
  port,   \* the descriptor: "unopened", "open", "dead" (closed, but held by file), "gone"
  pc,     \* where each thread is
  mtx,    \* the thread that holds mtx, or NoOne
  stop,   \* stop_timesync_flag
  put,    \* bytes of its packet each thread has written
  status, \* what timesync()'s write returned is negative
  line,   \* the packet at the end of the line that is not complete
  cut,    \* history: nobody is going to complete it
  given,  \* what drive() was told last
  robot,  \* what the robot does
  hurt    \* history: the packet of that drive() failed, or came after a cut one

port_ == <<mtx, put, line, cut>>
vars == <<port, pc, mtx, stop, put, status, line, cut, given, robot, hurt>>

Idle == [by |-> NoOne, n |-> 0, clean |-> TRUE]
Go(t, l) == pc' = [pc EXCEPT ![t] = l]

\* std::atomic<bool> is false from its construction on (C++20).
Init ==
  /\ port = "unopened" /\ pc = [t \in Threads |-> IF t = Main THEN "new" ELSE "none"]
  /\ mtx = NoOne /\ stop = FALSE /\ put = [t \in Threads |-> 0] /\ status = FALSE
  /\ line = Idle /\ cut = FALSE
  /\ given = NoCmd /\ robot = NoCmd /\ hurt = FALSE

-----------------------------------------------------------------------------
(* The constructor and the destructor.                                     *)

OpenFails == /\ pc[Main] = "new" /\ Go(Main, "ready")
             /\ UNCHANGED <<port, stop, status, port_, given, robot, hurt>>

\* The second tcgetattr() fails: close(fd), but file still holds the number.
SetupFails == /\ pc[Main] = "new" /\ Go(Main, "ready") /\ port' = "dead"
              /\ UNCHANGED <<stop, status, port_, given, robot, hurt>>

Start == /\ pc[Main] = "new" /\ port' = "open"
         /\ pc' = [pc EXCEPT ![Main] = "ready", ![Sync] = "check"]
         /\ UNCHANGED <<stop, status, port_, given, robot, hurt>>

Destroy == /\ pc[Main] = "ready" /\ Go(Main, "join") /\ stop' = TRUE
           /\ UNCHANGED <<port, status, port_, given, robot, hurt>>

\* join() returns, if there is a thread, and the members are destroyed.
Join == /\ pc[Main] = "join" /\ pc[Sync] \in {"none", "ended"}
        /\ Go(Main, "gone") /\ port' = "gone"
        /\ UNCHANGED <<stop, status, port_, given, robot, hurt>>

-----------------------------------------------------------------------------
(* drive() and timesync().                                                 *)

Drive(c) == /\ pc[Main] = "ready" /\ Go(Main, "lock") /\ given' = c
            /\ UNCHANGED <<port, stop, status, port_, robot, hurt>>

\* while (!stop_timesync_flag): the packet is encoded and cannot fail
\* (Packets.tla), or the thread ends.
SyncCheck == /\ pc[Sync] = "check" /\ Go(Sync, IF stop THEN "ended" ELSE "lock")
             /\ UNCHANGED <<port, stop, status, port_, given, robot, hurt>>

Locked(t) == /\ pc[t] = "lock"
             /\ Go(t, "write") /\ put' = [put EXCEPT ![t] = 0]
             /\ hurt' = (IF t = Main THEN cut ELSE hurt)
             /\ status' = (IF t = Sync THEN FALSE ELSE status)
             /\ UNCHANGED <<port, stop, line, cut, given, robot>>

\* Mutant: no mutex.
BugLock(t) == Locked(t) /\ UNCHANGED mtx

Lock(t) == mtx = NoOne /\ Locked(t) /\ mtx' = t

Take(t) ==
  LET clean == IF put[t] = 0 THEN line = Idle
               ELSE line = [by |-> t, n |-> put[t], clean |-> TRUE]
      whole == put[t] + 1 = PacketLen
  IN /\ pc[t] = "write" /\ port = "open"
     /\ put' = [put EXCEPT ![t] = @ + 1]
     /\ line' = (IF whole THEN Idle ELSE [by |-> t, n |-> put[t] + 1, clean |-> clean])
     /\ cut' = FALSE
     /\ robot' \in (IF whole /\ t = Main THEN {given} ELSE {robot})
                   \cup (IF clean THEN {} ELSE {robot})
     /\ UNCHANGED <<port, pc, mtx, stop, status, given, hurt>>

\* Mutant: more bytes are written than the packet has.
BugWriteByte(t) == Take(t)

\* The device takes one more byte of the packet.  It belongs to the packet
\* at the end of the line, or begins one.
WriteByte(t) == put[t] < PacketLen /\ Take(t)

\* write() returns: all of the packet, a short count, or -1 when nothing was
\* taken: EAGAIN, EIO, EBADF of a dead descriptor, or no descriptor at all.
WriteEnds(t, l) ==
  /\ pc[t] = "write" /\ Go(t, l)
  /\ \/ put[t] = PacketLen /\ UNCHANGED <<cut, hurt, status>>
     \/ /\ put[t] < PacketLen
        /\ cut' = (cut \/ put[t] > 0)
        /\ hurt' = (hurt \/ t = Main)
        /\ status' = (status \/ (t = Sync /\ put[t] = 0))
  /\ UNCHANGED <<port, mtx, stop, put, line, given, robot>>

\* Mutant: timesync() breaks before it has unlocked the mutex.
BugWriteReturns(t) == WriteEnds(t, IF t = Sync /\ put[t] = 0 THEN "ended" ELSE "unlock")

WriteReturns(t) == WriteEnds(t, "unlock")

\* drive() returns; timesync() sleeps, or ends when the write failed.
Unlock(t) == /\ pc[t] = "unlock" /\ mtx' = NoOne
             /\ Go(t, IF t = Main THEN "ready" ELSE IF status THEN "ended" ELSE "sleep")
             /\ UNCHANGED <<port, stop, put, status, line, cut, given, robot, hurt>>

WakeSync == /\ pc[Sync] = "sleep" /\ Go(Sync, "check")
        /\ UNCHANGED <<port, stop, status, port_, given, robot, hurt>>

-----------------------------------------------------------------------------
Writer(t) == WriteByte(t) \/ WriteReturns(t) \/ Unlock(t)

MainStep == OpenFails \/ SetupFails \/ Start \/ Join \/ Writer(Main)
SyncStep == SyncCheck \/ Lock(Sync) \/ Writer(Sync) \/ WakeSync
Calls    == Destroy \/ \E c \in Cmds : Drive(c)

Next == MainStep \/ Lock(Main) \/ SyncStep \/ Calls

Spec == Init /\ [][Next]_vars

\* The scheduler runs both threads.  timesync() releases the mutex for half
\* a second between two packets, so drive() gets it: strong fairness.
FairSpec == Spec /\ WF_vars(MainStep) /\ WF_vars(SyncStep) /\ SF_vars(Lock(Main))

-----------------------------------------------------------------------------
(* Correctness.                                                            *)

MainPC == {"new", "ready", "lock", "write", "unlock", "join", "gone"}
SyncPC == {"none", "check", "lock", "write", "unlock", "sleep", "ended"}

TypeOK ==
  /\ port \in {"unopened", "open", "dead", "gone"}
  /\ pc \in [Threads -> MainPC \cup SyncPC] /\ pc[Main] \in MainPC /\ pc[Sync] \in SyncPC
  /\ mtx \in Threads \cup {NoOne} /\ stop \in BOOLEAN /\ status \in BOOLEAN
  /\ put \in [Threads -> 0 .. PacketLen]
  /\ line \in [by : Threads \cup {NoOne}, n : 0 .. PacketLen - 1, clean : BOOLEAN]
  /\ cut \in BOOLEAN /\ hurt \in BOOLEAN
  /\ given \in Cmds \cup {NoCmd} /\ robot \in Cmds \cup {NoCmd}

\* The packets of the two threads never mix on the line: an incomplete
\* packet at its end is the one being written, or its write was cut short.
Unmixed ==
  line # Idle =>
    cut \/ (mtx = line.by /\ pc[line.by] = "write" /\ put[line.by] = line.n)

\* When drive() has returned the robot does what it was told last, unless
\* the write failed, was cut short, or followed one that was: the mutex, not
\* the result of write(), is what drive() relies on.
CommandArrives == pc[Main] = "ready" /\ robot # given => hurt

\* ~MBot() ends the thread before file and mtx are destroyed.
ThreadEndsFirst == pc[Main] = "gone" => pc[Sync] \in {"none", "ended"} /\ mtx = NoOne

\* drive() returns, although it waits for the other thread's write.
DriveReturns == pc[Main] = "lock" ~> pc[Main] = "ready"

\* The destructor returns.
DestructorReturns == pc[Main] = "join" ~> pc[Main] = "gone"

\* The two threads never wait for each other.
CallsReturn == DriveReturns /\ DestructorReturns
=============================================================================
