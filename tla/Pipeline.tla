------------------------------ MODULE Pipeline ------------------------------
(***************************************************************************)
(* teleop_keyboard | mbot_driver: the two programs (src/teleop_keyboard/   *)
(* main.cpp and src/mbot_driver/main.cpp) and the pipe between them.  The  *)
(* steps of spin() are those of TeleopKeyboard (T) and of MBotDriver (D).  *)
(* What each of these modules leaves to its environment the other program  *)
(* does here: the bytes that T writes are the input of D, the reads of D   *)
(* empty the pipe T writes to, and the end of a process closes its end.    *)
(*                                                                         *)
(* A process is in                                                         *)
(*   "start"    main() before the Signal exists: SIGINT is deadly          *)
(*   "spin"     the Signal exists and spin() is called; when it returns    *)
(*              the Signal is destroyed and SIGINT is deadly again         *)
(*   "gone"     main() returned, or SIGINT or SIGPIPE ended the process    *)
(*   "crashed"  it was killed from outside, or the machine failed          *)
(***************************************************************************)
EXTENDS Integers, Sequences

CONSTANTS Keys, Linear, Angular, Word, FrameId, SeqMod, OutCap, MaxKeys

ASSUME PipelineAssumption ==
  /\ Word \in Nat \ {0} /\ FrameId \in Nat /\ OutCap \in Nat \ {0} /\ MaxKeys \in Nat
  /\ SeqMod \in Nat \ {0} /\ Linear \in Int /\ Angular \in Int

VARIABLES
  tproc, dproc,  \* teleop_keyboard and mbot_driver
  typed, ntyped, tpending, traised, tpc, ch, seq, msgs, tpart, put, wanted, tlate,
  failed,        \* TeleopKeyboard
  sent,          \* bytes written to the pipe
  frames, dpending, draised, dpc, dpart, base, got, need, drives, n,
  dlate          \* MBotDriver

teleop == <<typed, ntyped, tpending, traised, tpc, ch, seq, msgs, tpart, put, wanted,
            tlate, failed>>
driver == <<dpending, draised, dpc, dpart, base, got, need, drives, n, dlate>>
vars   == <<tproc, dproc, teleop, sent, frames, driver>>

Ended(p) == p \in {"gone", "crashed"}

-----------------------------------------------------------------------------
(* The pipe: D has read what is before its position; an end is closed when *)
(* the process is.  (The driver's File never closes descriptor 0.)         *)

PipeRead == base + got

\* Mutant: a process that ends without a crash leaves its end open, to a
\* child that it forked.
BugWriteEndClosed == tproc = "crashed"

ReadEndClosed  == Ended(dproc)
WriteEndClosed == Ended(tproc)

\* The FIFO is opened for reading and writing: as long as the process lives
\* it has a writer, and its input does not end.
InputClosed == Ended(tproc)

T == INSTANCE TeleopKeyboard WITH
  pending <- tpending, raised <- traised, pc <- tpc, part <- tpart, late <- tlate,
  iclosed <- InputClosed, HupReadable <- FALSE, oread <- PipeRead, oclosed <- ReadEndClosed

\* A message of the expected size can be allocated.
D == INSTANCE MBotDriver WITH
  pending <- dpending, raised <- draised, pc <- dpc, part <- dpart, late <- dlate,
  wclosed <- WriteEndClosed, Sizes <- {0, T!MsgSize}, Lens <- {FrameId},
  MaxAlloc <- T!MsgSize, MaxFrames <- MaxKeys

Init == tproc = "start" /\ dproc = "start" /\ D!Init /\ T!Init

-----------------------------------------------------------------------------
(* teleop_keyboard.                                                        *)

\* The arguments are parsed and the Signal constructed, or main() returns 1.
TeleopStarts == /\ tproc = "start" /\ tproc' \in {"spin", "gone"}
                /\ UNCHANGED <<dproc, teleop, sent, frames, driver>>

\* The message that write_exact() begins is the next frame of D's input.
FrameBegun == [at |-> sent, size |-> T!MsgSize, len |-> FrameId,
               expected |-> Append(D!Expected(Len(frames)), Len(frames) + 1)]

TeleopSpins == /\ tproc = "spin" /\ UNCHANGED <<tproc, dproc, driver>>
               /\ T!Teleop
               /\ frames' = IF tpc = "build" THEN Append(frames, FrameBegun) ELSE frames

\* spin() returned and main() does, or SIGPIPE ended the process.
TeleopExits == /\ tproc = "spin" /\ T!Exited /\ tproc' = "gone"
               /\ UNCHANGED <<dproc, teleop, sent, frames, driver>>

-----------------------------------------------------------------------------
(* mbot_driver.                                                            *)

\* The MBot is ok and the Signal constructed, or main() returns 1.
DriverStarts == /\ dproc = "start" /\ dproc' \in {"spin", "gone"}
                /\ UNCHANGED <<tproc, teleop, sent, frames, driver>>

DriverSpins == /\ dproc = "spin" /\ UNCHANGED <<tproc, dproc, teleop>>
               /\ D!Driver

\* The MBot is destroyed and main() returns.
DriverExits == /\ dproc = "spin" /\ D!Exited /\ dproc' = "gone"
               /\ UNCHANGED <<tproc, teleop, sent, frames, driver>>

-----------------------------------------------------------------------------
(* The environment: keys, SIGINT to one process or (from the terminal) to  *)
(* one after the other, and crashes.                                       *)

Key(c) == /\ UNCHANGED <<tproc, dproc, frames, driver>>
          /\ T!Type(c)

InterruptTeleop ==
  \/ /\ tproc = "spin" /\ ~T!Exited
     /\ UNCHANGED <<tproc, dproc, frames, driver>>
     /\ T!RaiseNotif
  \/ /\ tproc = "start" \/ (tproc = "spin" /\ T!Exited)
     /\ tproc' = "gone"
     /\ UNCHANGED <<dproc, teleop, sent, frames, driver>>

\* Mutant: spin() is called before the Signal exists.
BugInterruptDriver == /\ ~Ended(dproc) /\ dproc' = "gone"
                      /\ UNCHANGED <<tproc, teleop, sent, frames, driver>>

InterruptDriver ==
  \/ /\ dproc = "spin" /\ ~D!Exited
     /\ UNCHANGED <<tproc, dproc, teleop>>
     /\ D!RaiseNotif
  \/ /\ dproc = "start" \/ (dproc = "spin" /\ D!Exited)
     /\ dproc' = "gone"
     /\ UNCHANGED <<tproc, teleop, sent, frames, driver>>

Crash ==
  \/ ~Ended(tproc) /\ tproc' = "crashed" /\ UNCHANGED <<dproc, teleop, sent, frames, driver>>
  \/ ~Ended(dproc) /\ dproc' = "crashed" /\ UNCHANGED <<tproc, teleop, sent, frames, driver>>

-----------------------------------------------------------------------------
TeleopRuns == TeleopStarts \/ TeleopSpins \/ TeleopExits
TeleopWorks == TeleopRuns /\ UNCHANGED failed
DriverRuns == DriverStarts \/ DriverSpins \/ DriverExits

Next == \/ TeleopRuns \/ DriverRuns
        \/ \E c \in Keys : Key(c)
        \/ InterruptTeleop \/ InterruptDriver \/ Crash

Spec == Init /\ [][Next]_vars

\* The scheduler runs both processes; nothing has to fail, and nobody has to
\* type or to interrupt.
FairSpec == Spec /\ WF_vars(TeleopWorks) /\ WF_vars(DriverRuns)

-----------------------------------------------------------------------------
(* Correctness.                                                            *)

\* From end to end: the commands given to MBot::drive() are the movements
\* that the keys read so far stand for, each once and in the order typed,
\* whatever is interrupted or crashes, and then at most the stop.
DrivesWhatWasTyped ==
  /\ n <= Len(wanted) /\ Len(drives) \in {n, n + 1}
  /\ \A i \in 1 .. n : drives[i] \in DOMAIN msgs /\ msgs[drives[i]].twist = wanted[i]

\* However the driver ends but by a crash, the last command is the stop if
\* there was any: no SIGINT is deadly between the first drive and the stop.
StoppedAtTheEnd ==
  dproc = "gone" /\ drives # <<>> => drives[Len(drives)] = D!Stop

\* The driver, and its end, are an environment that TeleopKeyboard allows:
\* what it reads was written, and it does not come back.
ServesTeleop == T!Spec

\* What teleop_keyboard writes, up to any crash, is an input that MBotDriver
\* allows: whole frames one after the other, the last one perhaps cut off.
ServesDriver == D!Spec

\* Each program is the environment that the model of the other assumes, so
\* that what is shown of either alone holds of both together.
EachServesTheOther == ServesTeleop /\ ServesDriver

\* After SIGINT teleop_keyboard ends, also when the pipe is full; and it
\* ends instead of sending a message that nobody will read.
TeleopEnds ==
  /\ traised ~> Ended(tproc)
  /\ (Ended(dproc) /\ tpc = "build") ~> Ended(tproc)

\* The driver ends after SIGINT, and when teleop_keyboard has ended or
\* crashed, in the middle of a message too.
DriverEnds == (draised \/ Ended(tproc)) ~> Ended(dproc)

\* Neither program keeps the other one alive, or hangs on it.
ProgramsEnd == TeleopEnds /\ DriverEnds

\* Every key is read, and the movement it stands for reaches MBot::drive(),
\* unless a program ends.
EveryKeyDrives == \A k \in 1 .. MaxKeys :
  /\ ntyped >= k ~> (ntyped - Len(typed) >= k \/ Ended(tproc))
  /\ Len(wanted) >= k ~> (n >= k \/ Ended(tproc) \/ Ended(dproc))
=============================================================================
