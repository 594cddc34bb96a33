----------------------------- MODULE MBotDriver -----------------------------
(***************************************************************************)
(* MBotDriver::spin (src/mbot_driver/mbot_driver.cpp): read size-prefixed  *)
(* Twist2DStamped frames from a nonblocking input, drive the MBot with     *)
(* each one that decodes, and stop the MBot when the notification is       *)
(* raised, the input ends or fails.                                        *)
(*                                                                         *)
(* The input is a byte stream whose bytes are numbered from 0.  Whatever   *)
(* the writer sends, the stream is a sequence of frames, each a prefix of  *)
(* Word bytes that holds a size and that many payload bytes, and possibly  *)
(* a truncated last one.  The driver knows offsets only: bytes that are    *)
(* not the prefix, or not the payload, of a frame read as anything.  A     *)
(* command is the number of the frame that carries it.                     *)
(*                                                                         *)
(* External: the writer of the stream, the signal, and the notification,   *)
(* used here by its contract (Notification.tla): a raise stays pending     *)
(* until a wait(0) returns true.                                           *)
(***************************************************************************)
EXTENDS Integers, Sequences

CONSTANTS
  Word,      \* sizeof(uint32_t) and sizeof(float), 4 in the code
  Sizes,     \* the payload sizes a prefix can announce
  Lens,      \* the frame_id lengths a payload can announce
  MaxAlloc,  \* the largest payload vector that can be allocated
  MaxFrames  \* bound on the number of frames sent

ASSUME DriverAssumption ==
  /\ Word \in Nat \ {0} /\ MaxAlloc \in Nat /\ MaxFrames \in Nat
  /\ Sizes \subseteq Nat /\ Lens \subseteq Nat

Stop    == 0      \* the all-zero twist of send_stop()
Garbage == -1     \* a command that no frame carries
Bad     == -2     \* deserialize() returned false

VARIABLES
  frames,    \* the frames the writer has begun to send
  sent,      \* number of bytes written to the stream
  wclosed,   \* the write end is closed
  pending,   \* the notification is raised and not yet taken
  raised,    \* history: it has been raised
  pc,        \* where spin() is
  part,      \* what read_exact() is reading: the "size" or the "payload"
  base,      \* offset in the stream of the first byte of its buffer
  got, need, \* got and n of read_exact()
  drives,    \* the commands given to mbot->drive()
  n,         \* history: number of frames taken off the stream
  late       \* history: number of commands driven after the raise

env  == <<frames, sent, wclosed, raised>>
vars == <<frames, sent, wclosed, pending, raised, pc, part, base, got, need,
          drives, n, late>>

EndOf(f) == f.at + Word + f.size
\* Where frame number k ends; the stream before frame 1 is empty.
End(k) == IF k = 0 THEN 0 ELSE EndOf(frames[k])

Init ==
  /\ frames = <<>> /\ sent = 0 /\ wclosed = FALSE
  /\ pending = FALSE /\ raised = FALSE
  /\ pc = "top" /\ part = "size" /\ base = 0 /\ got = 0 /\ need = 0
  /\ drives = <<>> /\ n = 0 /\ late = 0

-----------------------------------------------------------------------------
(* Twist2DStamped::deserialize(): seq, two words of stamp and the length   *)
(* of frame_id, the frame_id, three floats; each read fails when it would  *)
(* pass the end of the payload.  Bytes that are left over are ignored.     *)

Deserialize(size, len) ==
  LET header == 4 * Word
      frame_id == header + len
      twist == frame_id + 3 * Word
  IN header <= size /\ frame_id <= size /\ twist <= size

-----------------------------------------------------------------------------
(* The environment.                                                        *)

\* What a driver has to have driven once the frames up to k are taken.
Expected(k) == IF k = 0 THEN <<>> ELSE frames[k].expected

NewFrame(size, len) ==
  LET k == Len(frames) + 1 IN
  /\ ~wclosed /\ sent = End(Len(frames)) /\ k <= MaxFrames
  /\ frames' = Append(frames,
       [at |-> End(k - 1), size |-> size, len |-> len,
        expected |-> IF Deserialize(size, len)
                     THEN Append(Expected(k - 1), k) ELSE Expected(k - 1)])
  /\ UNCHANGED <<sent, wclosed, pending, raised, pc, part, base, got, need, drives,
                 n, late>>

WriteBytes(m) ==
  /\ ~wclosed /\ sent + m <= End(Len(frames))
  /\ sent' = sent + m
  /\ UNCHANGED <<frames, wclosed, pending, raised, pc, part, base, got, need, drives,
                 n, late>>

CloseWrite ==
  /\ ~wclosed
  /\ wclosed' = TRUE
  /\ UNCHANGED <<frames, sent, pending, raised, pc, part, base, got, need, drives,
                 n, late>>

RaiseNotif ==
  /\ ~raised
  /\ raised' = TRUE /\ pending' = TRUE
  /\ UNCHANGED <<frames, sent, wclosed, pc, part, base, got, need, drives, n, late>>

-----------------------------------------------------------------------------
(* spin().                                                                 *)

\* Mutant: the driver returns without stopping the MBot.
BugSendStop == /\ pc' = "done"
               /\ UNCHANGED <<env, part, base, got, need, drives, n, late>>

\* send_stop(); return
SendStop == /\ pc' = "done"
            /\ drives' = Append(drives, Stop)
            /\ UNCHANGED <<env, part, base, got, need, n, late>>

\* notif_ready(): wait(0) is true and takes the notification if it is pending.
NotifReady == pending /\ pending' = FALSE
NotReady   == ~pending /\ UNCHANGED pending

StartRead(p, size) ==
  /\ pc' = (IF size = 0 THEN p ELSE "read")
  /\ part' = p /\ base' = base + got /\ got' = 0 /\ need' = size

\* Mutant: the notification is not looked at between messages.
BugTopRead == /\ pc = "top" /\ UNCHANGED pending
              /\ StartRead("size", Word)
              /\ UNCHANGED <<env, drives, n, late>>

TopStop == pc = "top" /\ NotifReady /\ SendStop
TopRead == /\ pc = "top" /\ NotReady
           /\ StartRead("size", Word)
           /\ UNCHANGED <<env, drives, n, late>>

\* Mutant: a short read() is taken for a complete one.
BugReadSome(r) ==
  /\ pc = "read" /\ r <= need - got /\ base + got + r <= sent
  /\ got' = need /\ pc' = part
  /\ UNCHANGED <<env, pending, part, base, need, drives, n, late>>

\* read() returns some of the bytes that are there, no more than asked for.
ReadSome(r) ==
  /\ pc = "read" /\ r <= need - got /\ base + got + r <= sent
  /\ got' = got + r
  /\ pc' = (IF got + r = need THEN part ELSE "read")
  /\ UNCHANGED <<env, pending, part, base, need, drives, n, late>>

Empty == sent = base + got

ReadEOF   == pc = "read" /\ Empty /\ wclosed /\ SendStop /\ UNCHANGED pending
ReadError == pc = "read" /\ SendStop /\ UNCHANGED pending

\* Mutant: the -1 of a failed read() is added to got.
BugReadAgain == /\ pc = "read" /\ Empty /\ ~wclosed
                /\ got' = got - 1
                /\ UNCHANGED <<env, pending, pc, part, base, need, drives, n, late>>

\* EAGAIN: the notification is looked at, then poll() waits for 1 ms.
ReadAgain == /\ pc = "read" /\ Empty /\ ~wclosed
             /\ pc' = "again"
             /\ UNCHANGED <<env, pending, part, base, got, need, drives, n, late>>

\* Mutants: the message is started again from the bytes that follow; the
\* notification is not looked at while waiting; the read is not tried again.
BugAgainRestart == /\ pc = "again" /\ NotReady
                   /\ StartRead(part, need)
                   /\ UNCHANGED <<env, drives, n, late>>
BugAgainDeaf == /\ pc = "again" /\ pc' = "read"
                /\ UNCHANGED <<env, pending, part, base, got, need, drives, n, late>>
BugAgainWait == /\ pc = "again" /\ NotReady
                /\ UNCHANGED <<env, pc, part, base, got, need, drives, n, late>>

AgainStop == pc = "again" /\ NotifReady /\ SendStop
AgainWait == /\ pc = "again" /\ NotReady
             /\ pc' = "read"
             /\ UNCHANGED <<env, part, base, got, need, drives, n, late>>

\* The values that Word bytes at offset b can be read as.
SizesAt(b) == IF \E k \in DOMAIN frames : frames[k].at = b
              THEN {frames[k].size : k \in {j \in DOMAIN frames : frames[j].at = b}}
              ELSE Sizes

\* std::vector<uint8_t> payload(msg_size): nothing catches bad_alloc.
ParseSize ==
  /\ pc = "size"
  /\ \E size \in SizesAt(base) :
       \/ /\ size <= MaxAlloc
          /\ StartRead("payload", size)
       \/ /\ size > MaxAlloc
          /\ pc' = "aborted"
          /\ UNCHANGED <<part, base, got, need>>
  /\ UNCHANGED <<env, pending, drives, n, late>>

\* What the need bytes at offset b can be decoded as.
Payloads == {k \in DOMAIN frames : frames[k].at + Word = base /\ frames[k].size = need}
Decoded  == IF Payloads = {} THEN {Garbage, Bad}
            ELSE {IF Deserialize(frames[k].size, frames[k].len) THEN k ELSE Bad :
                    k \in Payloads}

Drive ==
  /\ pc = "payload"
  /\ \E cmd \in Decoded :
       \/ /\ cmd = Bad
          /\ UNCHANGED <<drives, late>>
       \/ /\ cmd # Bad
          /\ drives' = Append(drives, cmd)
          /\ late' = (IF raised THEN late + 1 ELSE late)
  /\ pc' = "top" /\ n' = n + 1
  /\ UNCHANGED <<env, pending, part, base, got, need>>

-----------------------------------------------------------------------------
Driver == \/ TopStop \/ TopRead
          \/ \E r \in 1 .. need : ReadSome(r)
          \/ ReadEOF \/ ReadError \/ ReadAgain \/ AgainStop \/ AgainWait
          \/ ParseSize \/ Drive

Environment == \/ \E size \in Sizes, len \in Lens : NewFrame(size, len)
               \/ \E m \in 1 .. End(Len(frames)) : WriteBytes(m)
               \/ CloseWrite \/ RaiseNotif

Next == Driver \/ Environment

Spec == Init /\ [][Next]_vars

\* The scheduler runs the driver; the writer and the signal owe nothing.
FairSpec == Spec /\ WF_vars(Driver)

-----------------------------------------------------------------------------
(* Correctness.                                                            *)

Frame == [at : Nat, size : Nat, len : Nat, expected : Seq(Nat)]

TypeOK ==
  /\ frames \in Seq(Frame) /\ sent \in Nat /\ wclosed \in BOOLEAN
  /\ pending \in BOOLEAN /\ raised \in BOOLEAN
  /\ pc \in {"top", "read", "again", "size", "payload", "done", "aborted"}
  /\ part \in {"size", "payload"}
  /\ base \in Nat /\ got \in Nat /\ need \in Nat
  /\ drives \in Seq(Int) /\ n \in Nat /\ late \in Nat

Exited == pc \in {"done", "aborted"}

\* However the bytes arrive and wherever read_exact() is interrupted, the
\* MBot is driven with the commands of the frames that decode, in order and
\* each once, and with a stop when spin() returns, never with anything else.
DriveFidelity ==
  /\ n <= Len(frames)
  /\ drives = IF pc = "done" THEN Append(Expected(n), Stop) ELSE Expected(n)

\* The reader never loses the frame boundaries: it starts a prefix where a
\* frame starts and a payload right after its prefix, with its length.
Framing ==
  /\ got <= need /\ base + got <= sent
  /\ pc = "top" => base + got = End(n)
  /\ pc \in {"read", "again", "size", "payload"} =>
       /\ part = "size" => base = End(n) /\ need = Word
       /\ part = "payload" =>
            n < Len(frames) /\ base = End(n) + Word /\ need = frames[n + 1].size
  /\ pc \in {"size", "payload"} => pc = part /\ got = need

\* Once the notification is raised at most one more command reaches the
\* MBot: the one whose frame was being read (the checks at 35 and 51).
OneAfterRaise == late <= 1

\* After the notification and after the end of the input spin() ends, in the
\* middle of a message too (or a failed allocation ends it).
Stops == (raised \/ wclosed) ~> Exited

\* Every frame that was sent completely is taken, unless spin() ends.
EveryFrameTaken ==
  \A k \in 1 .. MaxFrames : (Len(frames) >= k /\ sent >= End(Len(frames))) ~> (n >= k \/ Exited)
=============================================================================
