--------------------------- MODULE TeleopKeyboard ---------------------------
(***************************************************************************)
(* TeleopKeyboard::spin (src/teleop_keyboard/teleop_keyboard.cpp): read    *)
(* one key at a time, translate it to a Twist2DStamped message and write   *)
(* the message, prefixed by its size, to the output, until the             *)
(* notification is raised, the input ends, or an input or output fails.    *)
(*                                                                         *)
(* External: who types, who reads the output pipe (in the shell pipeline   *)
(* mbot_driver), the signal, and the notification by its contract          *)
(* (Notification.tla).  Writing to a full pipe blocks, writing to one      *)
(* without a reader raises SIGPIPE, whose default action ends the process. *)
(***************************************************************************)
EXTENDS Integers, Sequences

CONSTANTS
  Keys,         \* the characters that are typed, "space" for a blank
  Linear, Angular,  \* linear_speed and angular_speed
  Word,         \* sizeof(uint32_t) and sizeof(float), 4 in the code
  FrameId,      \* length of the frame_id "mbot", 4 in the code
  SeqMod,       \* header.seq is a uint32_t: 2^32 in the code
  OutCap,       \* capacity of the output pipe, in bytes
  HupReadable,  \* wait_for_readable() is true at the end of the input: MockIO
                \* says so, File and Fifo do not (poll() reports POLLHUP only)
  MaxKeys       \* bound on the number of keys typed

ASSUME TeleopAssumption ==
  /\ Word \in Nat \ {0} /\ FrameId \in Nat /\ SeqMod \in Nat \ {0}
  /\ OutCap \in Nat \ {0} /\ MaxKeys \in Nat /\ HupReadable \in BOOLEAN
  /\ Linear \in Int /\ Angular \in Int

VARIABLES
  typed,     \* keys in the input that are not read yet
  ntyped,    \* number of keys typed so far
  iclosed,   \* every writer of the input has closed it
  pending,   \* the notification is raised and not yet taken
  raised,    \* history: it has been raised
  pc,        \* where spin() is
  ch,        \* the character read
  seq,       \* the sequence number of the next message
  msgs,      \* the messages begun on the output
  part, put, \* what write_exact() writes, and its "sent"
  sent,      \* bytes written to the output so far
  oread,     \* bytes the reader has taken
  oclosed,   \* the reader has closed the pipe
  wanted,    \* history: the twists the keys read so far stand for
  late,      \* history: messages written, in part or whole, after the raise
  failed     \* history: spin() returned because a read or a write failed

vars == <<typed, ntyped, iclosed, pending, raised, pc, ch, seq, msgs, part, put,
          sent, oread, oclosed, wanted, late, failed>>
input  == <<typed, ntyped, iclosed>>
output == <<part, put, sent>>
reader == <<oread, oclosed>>

NoKey == "none"

Init ==
  /\ typed = <<>> /\ ntyped = 0 /\ iclosed = FALSE
  /\ pending = FALSE /\ raised = FALSE
  /\ pc = "top" /\ ch = NoKey /\ seq = 0 /\ msgs = <<>>
  /\ part = "size" /\ put = 0 /\ sent = 0 /\ oread = 0 /\ oclosed = FALSE
  /\ wanted = <<>> /\ late = 0 /\ failed = FALSE

-----------------------------------------------------------------------------
(* Keys and messages.                                                      *)

\* std::toupper on the letters; every other character is unchanged.
Upper == [q |-> "Q", w |-> "W", e |-> "E", a |-> "A", s |-> "S", d |-> "D", x |-> "X"]

\* Mutant: lower-case keys are not translated.
BugNormalize(c) == c

Normalize(c) == IF c \in DOMAIN Upper THEN Upper[c] ELSE c

NoTwist == <<>>

\* The switch: <<vx, vy, wz>>, or NoTwist when the key is not valid.
Translate(c) ==
  CASE c = "W" -> <<Linear, 0, 0>>  [] c = "S" -> <<-Linear, 0, 0>>
    [] c = "A" -> <<0, Linear, 0>>  [] c = "D" -> <<0, -Linear, 0>>
    [] c = "Q" -> <<0, 0, Angular>> [] c = "E" -> <<0, 0, -Angular>>
    [] c = "space" -> <<0, 0, 0>>   [] OTHER -> NoTwist

\* Twist2DStamped::size(): seq, stamp and length (4 words), frame_id, floats.
MsgSize    == 4 * Word + FrameId + 3 * Word
FrameBytes == Word + MsgSize
PartBytes  == IF part = "size" THEN Word ELSE MsgSize

\* What a key stands for, by the table the tests check against.
Meaning(c) ==
  CASE c \in {"w", "W"} -> <<Linear, 0, 0>>  [] c \in {"s", "S"} -> <<-Linear, 0, 0>>
    [] c \in {"a", "A"} -> <<0, Linear, 0>>  [] c \in {"d", "D"} -> <<0, -Linear, 0>>
    [] c \in {"q", "Q"} -> <<0, 0, Angular>> [] c \in {"e", "E"} -> <<0, 0, -Angular>>
    [] c = "space" -> <<0, 0, 0>>            [] OTHER -> NoTwist

-----------------------------------------------------------------------------
(* The environment.                                                        *)

Type(c) ==
  /\ ~iclosed /\ ntyped < MaxKeys
  /\ typed' = Append(typed, c) /\ ntyped' = ntyped + 1
  /\ UNCHANGED <<iclosed, pending, raised, pc, ch, seq, msgs, output, reader, wanted,
                 late, failed>>

CloseInput ==
  /\ ~iclosed /\ iclosed' = TRUE
  /\ UNCHANGED <<typed, ntyped, pending, raised, pc, ch, seq, msgs, output, reader,
                 wanted, late, failed>>

RaiseNotif ==
  /\ ~raised /\ raised' = TRUE /\ pending' = TRUE
  /\ late' = (IF pc = "write" THEN 1 ELSE 0)
  /\ UNCHANGED <<input, pc, ch, seq, msgs, output, reader, wanted, failed>>

\* The reader takes some of the bytes in the pipe, or goes away.
TakeOutput(r) ==
  /\ ~oclosed /\ oread + r <= sent /\ oread' = oread + r
  /\ UNCHANGED <<input, pending, raised, pc, ch, seq, msgs, output, oclosed, wanted,
                 late, failed>>
CloseOutput ==
  /\ ~oclosed /\ oclosed' = TRUE
  /\ UNCHANGED <<input, pending, raised, pc, ch, seq, msgs, output, oread, wanted,
                 late, failed>>

-----------------------------------------------------------------------------
(* spin().                                                                 *)

\* notif_ready(): wait(0) is true and takes the notification if it is pending.
NotifReady == pending /\ pending' = FALSE
NotReady   == ~pending /\ UNCHANGED pending

Readable == typed # <<>> \/ (iclosed /\ HupReadable)
Goto(l) == pc' = l /\ UNCHANGED <<seq, msgs, output, reader, late>>

\* wait_for_readable(1 ms)
Poll == /\ pc = "top"
        /\ Goto(IF Readable THEN "read" ELSE "idle")
        /\ UNCHANGED <<input, pending, raised, ch, wanted, failed>>

\* Mutant: the notification is not looked at while there is no input.
BugIdleStop == /\ pc = "idle" /\ Goto("top")
               /\ UNCHANGED <<input, pending, raised, ch, wanted, failed>>

IdleStop  == /\ pc = "idle" /\ NotifReady /\ Goto("done")
             /\ UNCHANGED <<input, raised, ch, wanted, failed>>

IdleRetry == /\ pc = "idle" /\ NotReady /\ Goto("top")
             /\ UNCHANGED <<input, raised, ch, wanted, failed>>

ReadKey ==
  /\ pc = "read" /\ typed # <<>>
  /\ Goto("key")
  /\ ch' = Head(typed) /\ typed' = Tail(typed)
  /\ wanted' = (IF Meaning(ch') = NoTwist THEN wanted ELSE Append(wanted, Meaning(ch')))
  /\ UNCHANGED <<ntyped, iclosed, pending, raised, failed>>

ReadEOF == /\ pc = "read" /\ typed = <<>> /\ iclosed
           /\ Goto("done")
           /\ UNCHANGED <<input, pending, raised, ch, wanted, failed>>

\* The retry after EINTR and EAGAIN (45-52) is not reached: what poll() found
\* is still there, for nobody else reads this input.
ReadError == /\ pc = "read" /\ failed' = TRUE
             /\ Goto("done")
             /\ UNCHANGED <<input, pending, raised, ch, wanted>>

\* Both the path of a valid and that of an invalid key look first.
KeyStop == /\ pc = "key" /\ NotifReady
           /\ Goto("done")
           /\ UNCHANGED <<input, raised, ch, wanted, failed>>

KeyIgnore == /\ pc = "key" /\ Translate(Normalize(ch)) = NoTwist /\ NotReady
             /\ Goto("top")
             /\ UNCHANGED <<input, raised, ch, wanted, failed>>

\* Mutant: the notification is not looked at before the output.
BugKeyDeaf == /\ pc = "key" /\ Translate(Normalize(ch)) # NoTwist
              /\ Goto("build")
              /\ UNCHANGED <<input, pending, raised, ch, wanted, failed>>

KeySend == /\ pc = "key" /\ Translate(Normalize(ch)) # NoTwist /\ NotReady
           /\ Goto("build")
           /\ UNCHANGED <<input, raised, ch, wanted, failed>>

Begin(next) ==
  /\ pc = "build"
  /\ msgs' = Append(msgs, [seq |-> seq, twist |-> Translate(Normalize(ch))])
  /\ seq' = next
  /\ late' = (IF raised THEN late + 1 ELSE late)
  /\ pc' = "write" /\ part' = "size" /\ put' = 0
  /\ UNCHANGED <<input, pending, raised, ch, sent, reader, wanted, failed>>

\* Mutants: the sequence number does not wrap; it is not incremented.
BugBuildMsg == Begin(seq + 1)
BugBuildSeq == Begin(seq)

\* The message is built and write_exact() of its size begins.
BuildMsg == Begin((seq + 1) % SeqMod)

Wrote(w, l, p, q) ==
  /\ pc = "write" /\ ~oclosed
  /\ put + w <= PartBytes /\ sent + w - oread <= OutCap
  /\ sent' = sent + w
  /\ pc' = l /\ part' = p /\ put' = q
  /\ UNCHANGED <<input, pending, raised, ch, seq, msgs, reader, wanted, late, failed>>

\* Mutant: a short write() is taken for a complete one.
BugWriteSome(w) == IF part = "size" THEN Wrote(w, "write", "payload", 0)
                   ELSE Wrote(w, "top", "payload", 0)

\* write() takes what there is room for, a signal may cut it shorter; it is
\* repeated until the part is complete.  A full pipe blocks.
WriteSome(w) ==
  \/ /\ put + w < PartBytes
     /\ Wrote(w, "write", part, put + w)
  \/ /\ put + w = PartBytes /\ part = "size"
     /\ Wrote(w, "write", "payload", 0)
  \/ /\ put + w = PartBytes /\ part = "payload"
     /\ Wrote(w, "top", "payload", put + w)

WriteError == /\ pc = "write" /\ failed' = TRUE
              /\ Goto("done")
              /\ UNCHANGED <<input, pending, raised, ch, wanted>>

BrokenPipe == /\ pc = "write" /\ oclosed
              /\ Goto("killed")
              /\ UNCHANGED <<input, pending, raised, ch, wanted, failed>>

-----------------------------------------------------------------------------
Teleop == \/ Poll \/ IdleStop \/ IdleRetry \/ ReadKey \/ ReadEOF \/ ReadError
          \/ KeyStop \/ KeyIgnore \/ KeySend \/ BuildMsg
          \/ \E w \in 1 .. MsgSize : WriteSome(w)
          \/ WriteError \/ BrokenPipe

Reader == (\E r \in 1 .. OutCap : TakeOutput(r)) \/ CloseOutput

Next == \/ Teleop \/ Reader
        \/ \E c \in Keys : Type(c)
        \/ CloseInput \/ RaiseNotif

Spec == Init /\ [][Next]_vars

\* The scheduler runs the program, whose reads and writes need not fail (a
\* write to a full pipe just waits), and the reader of the pipe (mbot_driver,
\* which reads until it exits) does not leave bytes in it for ever: it takes
\* them or goes away.  It need not go away.
Works == Teleop /\ UNCHANGED failed
Drain == oread < sent /\ Reader
FairSpec == Spec /\ WF_vars(Works) /\ WF_vars(Drain)

-----------------------------------------------------------------------------
(* Correctness.                                                            *)

Twist == Int \X Int \X Int

TypeOK ==
  /\ typed \in Seq(Keys) /\ ntyped \in 0 .. MaxKeys /\ iclosed \in BOOLEAN
  /\ pending \in BOOLEAN /\ raised \in BOOLEAN
  /\ pc \in {"top", "idle", "read", "key", "build", "write", "done", "killed"}
  /\ ch \in Keys \cup {NoKey} /\ seq \in 0 .. SeqMod - 1
  /\ msgs \in Seq([seq : 0 .. SeqMod - 1, twist : Twist])
  /\ part \in {"size", "payload"} /\ put \in 0 .. MsgSize
  /\ sent \in Nat /\ oread \in Nat /\ oclosed \in BOOLEAN
  /\ wanted \in Seq(Twist) /\ late \in Nat /\ failed \in BOOLEAN

Exited == pc \in {"done", "killed"}

\* Every key that means a movement becomes one message, in the order typed
\* and numbered from 0 modulo 2^32; only the last one can be missing, while
\* it is being handled or because spin() returned on the notification.
OutputFidelity ==
  /\ Len(msgs) <= Len(wanted)
  /\ Len(wanted) <= Len(msgs) + (IF pc \in {"key", "build", "done"} THEN 1 ELSE 0)
  /\ \A i \in DOMAIN msgs : msgs[i] = [seq |-> (i - 1) % SeqMod, twist |-> wanted[i]]

\* The output is a sequence of whole frames: a message is begun only when
\* the one before is complete, and spin() returns in the middle of one only
\* if a write failed (SIGPIPE included).
WholeFrames ==
  /\ pc \in {"top", "idle", "read", "key", "build"} => sent = Len(msgs) * FrameBytes
  /\ pc = "done" /\ ~failed => sent = Len(msgs) * FrameBytes
  /\ pc = "write" => sent = (Len(msgs) - 1) * FrameBytes + put
                            + (IF part = "size" THEN 0 ELSE Word)

\* teleop_keyboard.cpp:83, "Must not output after notification": the check
\* and the output are not one step, so the message whose check came before
\* the raise is still written, and never more than that one.
OneAfterRaise == late <= 1

\* After the notification spin() ends, also while the output is full.
RaiseStops == raised ~> Exited

\* After the end of the input spin() ends (teleop_keyboard.cpp:41-44).
EOFStops == iclosed ~> Exited

\* Both, when the end of the input can be seen.
Stops == RaiseStops /\ EOFStops
=============================================================================
