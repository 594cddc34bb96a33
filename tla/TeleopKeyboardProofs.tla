----------------------- MODULE TeleopKeyboardProofs -----------------------
(***************************************************************************)
(* Theorems about TeleopKeyboard, for any keys, speeds, sizes and capacity *)
(* of the output pipe: the messages are those of the keys, whole and in    *)
(* order, and at most one follows the notification.                        *)
(***************************************************************************)
EXTENDS TeleopKeyboard, SequenceTheorems, TLAPS

\* How far the messages are behind the movements wanted, where spin() is.
InStep ==
  /\ pc \in {"top", "idle", "read", "write", "killed"} => Len(wanted) = Len(msgs)
  /\ pc = "key" /\ Meaning(ch) = NoTwist => Len(wanted) = Len(msgs)
  /\ (pc = "key" /\ Meaning(ch) # NoTwist) \/ pc = "build" =>
       /\ Meaning(ch) # NoTwist
       /\ Len(wanted) = Len(msgs) + 1 /\ wanted[Len(wanted)] = Meaning(ch)
  /\ pc = "done" => Len(wanted) \in {Len(msgs), Len(msgs) + 1}
  /\ seq = Len(msgs) % SeqMod

\* Inside a write there is something left to write.
Unfinished == pc = "write" => put < PartBytes

\* A raise stays pending until spin() has ended, so that no message is begun
\* after it but by a spin() that had looked before it.
Notified ==
  /\ raised => pending \/ Exited
  /\ ~raised => late = 0
  /\ pc = "build" => late = 0
  /\ late <= 1

\* The inductive invariant.
IInv == TypeOK /\ InStep /\ OutputFidelity /\ WholeFrames /\ Unfinished /\ Notified

-----------------------------------------------------------------------------

\* The translation of the code is the table of the keys, and gives twists.
LEMMA KeyTable ==
  /\ \A c : Translate(Normalize(c)) = Meaning(c)
  /\ \A c : Meaning(c) # NoTwist => Meaning(c) \in Twist
<1>1. \A c : c \in DOMAIN Upper <=> c \in {"q", "w", "e", "a", "s", "d", "x"}
  BY DEF Upper
<1>2. /\ Upper["q"] = "Q" /\ Upper["w"] = "W" /\ Upper["e"] = "E" /\ Upper["a"] = "A"
      /\ Upper["s"] = "S" /\ Upper["d"] = "D" /\ Upper["x"] = "X"
  BY DEF Upper
<1>3. ASSUME NEW c PROVE Translate(Normalize(c)) = Meaning(c)
  <2>1. CASE c \in DOMAIN Upper
    BY <1>1, <1>2, <2>1 DEF Translate, Normalize, Meaning
  <2>2. CASE c \notin DOMAIN Upper
    BY <1>1, <2>2 DEF Translate, Normalize, Meaning
  <2> QED BY <2>1, <2>2
<1>4. ASSUME NEW c, Meaning(c) # NoTwist PROVE Meaning(c) \in Twist
  BY <1>4, TeleopAssumption DEF Meaning, NoTwist, Twist
<1> QED BY <1>3, <1>4

LEMMA MessageSizes ==
  /\ MsgSize \in Nat /\ Word \in Nat /\ 0 < Word /\ Word <= MsgSize
  /\ FrameBytes \in Nat /\ FrameBytes = Word + MsgSize
  /\ PartBytes = IF part = "size" THEN Word ELSE MsgSize
BY TeleopAssumption DEF MsgSize, FrameBytes, PartBytes

\* The offset at which the next message begins.
LEMMA FrameOffsets ==
  ASSUME NEW m \in Nat
  PROVE  /\ m * FrameBytes \in Nat
         /\ (m + 1) * FrameBytes = m * FrameBytes + FrameBytes
         /\ (m - 1) * FrameBytes = m * FrameBytes - FrameBytes
         /\ ((m + 1) - 1) * FrameBytes = m * FrameBytes
<1>1. FrameBytes \in Nat BY MessageSizes
<1>2. ASSUME NEW b \in Nat
      PROVE  /\ m * b \in Nat /\ (m + 1) * b = m * b + b
             /\ (m - 1) * b = m * b - b /\ ((m + 1) - 1) * b = m * b
  OBVIOUS
<1> QED BY <1>1, <1>2

\* Remainders.
LEMMA DivMod ==
  ASSUME NEW a \in Nat, NEW b \in Nat \ {0}
  PROVE  a % b \in 0 .. b - 1 /\ a \div b \in Nat /\ a = b * (a \div b) + (a % b)
BY SMT

LEMMA MultipleAtLeast ==
  ASSUME NEW b \in Nat \ {0}, NEW q \in Int, q >= 1
  PROVE  b * q >= b
BY SMT

LEMMA RemainderUnique ==
  ASSUME NEW b \in Nat \ {0}, NEW q \in Int, NEW r \in 0 .. b - 1,
         NEW p \in Int, NEW s \in 0 .. b - 1, b * q + r = b * p + s
  PROVE  r = s
<1>1. b * (q - p) = s - r BY SMT
<1>2. b * (p - q) = r - s BY SMT
<1>3. ~(q - p >= 1) BY <1>1, MultipleAtLeast, SMT
<1>4. ~(p - q >= 1) BY <1>2, MultipleAtLeast, SMT
<1>5. q = p BY <1>3, <1>4, SMT
<1> QED BY <1>5

LEMMA ModIs ==
  ASSUME NEW b \in Nat \ {0}, NEW q \in Nat, NEW r \in 0 .. b - 1
  PROVE  (b * q + r) % b = r
<1> DEFINE n == b * q + r
<1>1. n \in Nat OBVIOUS
<1>2. PICK p \in Nat, s \in 0 .. b - 1 : n = b * p + s /\ n % b = s
  <2> HIDE DEF n
  <2> QED BY DivMod, <1>1
<1>3. r = s BY RemainderUnique, <1>2
<1> QED BY <1>2, <1>3

\* Counting modulo b, one step at a time.
LEMMA ModSucc ==
  ASSUME NEW a \in Nat, NEW b \in Nat \ {0}
  PROVE  ((a % b) + 1) % b = (a + 1) % b /\ ((a % b) + 1) % b \in 0 .. b - 1
<1>0. PICK q \in Nat, r \in 0 .. b - 1 : a = b * q + r BY DivMod
<1>3. a % b = r BY <1>0, ModIs
<1>1. CASE r + 1 < b
  <2>1. r + 1 \in 0 .. b - 1 /\ a + 1 = b * q + (r + 1) BY <1>0, <1>1
  <2>2. (a + 1) % b = r + 1 BY <2>1, ModIs
  <2>3. r + 1 = b * 0 + (r + 1) BY <1>0
  <2>4. (r + 1) % b = r + 1 BY <2>1, <2>3, ModIs
  <2> QED BY <1>3, <2>1, <2>2, <2>4
<1>2. CASE r + 1 = b
  <2>1. 0 \in 0 .. b - 1 /\ q + 1 \in Nat /\ 1 \in Nat OBVIOUS
  <2>2. a + 1 = b * (q + 1) + 0 BY <1>0, <1>2
  <2>3. (a + 1) % b = 0 BY <2>1, <2>2, ModIs
  <2>4. r + 1 = b * 1 + 0 BY <1>2
  <2>5. (r + 1) % b = 0 BY <2>1, <2>4, ModIs
  <2> QED BY <1>3, <2>1, <2>3, <2>5
<1> QED BY <1>0, <1>1, <1>2

\* What the type invariant says of the sequences.
LEMMA Lengths ==
  ASSUME TypeOK
  PROVE  /\ Len(msgs) \in Nat /\ Len(wanted) \in Nat
         /\ DOMAIN msgs = 1 .. Len(msgs) /\ DOMAIN wanted = 1 .. Len(wanted)
BY LenProperties DEF TypeOK

LEMMA InitInv == Init => IInv
<1> SUFFICES ASSUME Init PROVE IInv OBVIOUS
<1> USE TeleopAssumption DEF Init
<1>1. TypeOK
  <2>1. 0 \in 0 .. SeqMod - 1 /\ 0 \in 0 .. MaxKeys /\ 0 \in 0 .. MsgSize
    BY MessageSizes
  <2>2. msgs \in Seq([seq : 0 .. SeqMod - 1, twist : Twist]) /\ wanted \in Seq(Twist)
    BY EmptySeq
  <2> QED BY <2>1, <2>2, EmptySeq DEF TypeOK
<1>2. InStep /\ OutputFidelity BY DEF InStep, OutputFidelity
<1>3. WholeFrames BY MessageSizes DEF WholeFrames
<1>4. Unfinished /\ Notified BY DEF Unfinished, Notified, Exited
<1> QED BY <1>1, <1>2, <1>3, <1>4 DEF IInv

-----------------------------------------------------------------------------
(* The environment.                                                        *)

LEMMA EnvironmentStep ==
  ASSUME IInv, Reader \/ (\E c \in Keys : Type(c)) \/ CloseInput \/ RaiseNotif
  PROVE  IInv'
<1> USE DEF IInv
<1>1. UNCHANGED <<pc, ch, seq, msgs, part, put, sent, wanted, failed>>
  BY DEF Reader, TakeOutput, CloseOutput, Type, CloseInput, RaiseNotif, input, output, reader
<1>2. TypeOK'
  <2>1. CASE Reader
    <3>1. oread' \in Nat
      <4>1. CASE CloseOutput BY <4>1 DEF CloseOutput, TypeOK
      <4>2. ASSUME NEW r \in 1 .. OutCap, TakeOutput(r) PROVE oread' \in Nat
        <5>1. r \in Nat /\ oread \in Nat BY TeleopAssumption DEF TypeOK
        <5>2. oread' = oread + r BY <4>2 DEF TakeOutput
        <5> QED BY <5>1, <5>2
      <4> QED BY <2>1, <4>1, <4>2 DEF Reader
    <3>2. oclosed' \in BOOLEAN
      BY <2>1 DEF Reader, TakeOutput, CloseOutput, TypeOK
    <3>3. UNCHANGED <<typed, ntyped, iclosed, pending, raised, late>>
      BY <2>1 DEF Reader, TakeOutput, CloseOutput, input
    <3> QED BY <1>1, <3>1, <3>2, <3>3 DEF TypeOK
  <2>2. CASE \E c \in Keys : Type(c)
    BY <2>2, TeleopAssumption, AppendProperties DEF Type, TypeOK, input, output, reader
  <2>3. CASE CloseInput \/ RaiseNotif
    <3>1. late' \in Nat BY <2>3 DEF CloseInput, RaiseNotif, TypeOK
    <3>2. iclosed' \in BOOLEAN /\ pending' \in BOOLEAN /\ raised' \in BOOLEAN
      BY <2>3 DEF CloseInput, RaiseNotif, TypeOK, input
    <3>3. UNCHANGED <<typed, ntyped, oread, oclosed>>
      BY <2>3 DEF CloseInput, RaiseNotif, input, reader
    <3> QED BY <1>1, <3>1, <3>2, <3>3 DEF TypeOK
  <2> QED BY <2>1, <2>2, <2>3
<1>3. InStep' /\ OutputFidelity'
  BY <1>1 DEF InStep, OutputFidelity
<1>4. WholeFrames' /\ Unfinished'
  BY <1>1 DEF WholeFrames, Unfinished, PartBytes
<1>5. Notified'
  <2>1. CASE RaiseNotif BY <2>1 DEF RaiseNotif, Notified, Exited, TypeOK
  <2>2. CASE ~RaiseNotif
    BY <2>2, <1>1 DEF Reader, TakeOutput, CloseOutput, Type, CloseInput, Notified, Exited
  <2> QED BY <2>1, <2>2
<1> QED BY <1>2, <1>3, <1>4, <1>5

-----------------------------------------------------------------------------
(* spin().                                                                 *)

\* The steps that only go somewhere else.
Moves == \/ Poll \/ IdleStop \/ IdleRetry \/ ReadEOF \/ ReadError
         \/ KeyStop \/ KeyIgnore \/ KeySend \/ WriteError \/ BrokenPipe

LEMMA MoveStep == ASSUME IInv, Moves PROVE IInv'
<1> USE DEF IInv
<1>1. /\ UNCHANGED <<typed, ntyped, iclosed, raised, ch, seq, msgs, part, put, sent,
                     oread, oclosed, wanted, late>>
      /\ pc' \in {"top", "idle", "read", "key", "build", "write", "done", "killed"}
      /\ pending' \in BOOLEAN /\ failed' \in BOOLEAN
  BY DEF Moves, Poll, IdleStop, IdleRetry, ReadEOF, ReadError, KeyStop, KeyIgnore, KeySend,
         WriteError, BrokenPipe, Goto, NotifReady, NotReady, input, output, reader, TypeOK
<1>2. TypeOK'
  BY <1>1 DEF TypeOK
<1>3. \/ pc' \in {"top", "idle", "read"} /\ pc \in {"top", "idle"}
      \/ pc' = "top" /\ pc = "key" /\ Meaning(ch) = NoTwist
      \/ pc' = "build" /\ pc = "key" /\ Meaning(ch) # NoTwist /\ ~pending
      \/ pc' = "done" /\ pc \in {"idle", "read", "key"}
      \/ pc' = "done" /\ pc = "write" /\ failed'
      \/ pc' = "killed" /\ pc = "write"
  BY KeyTable DEF Moves, Poll, IdleStop, IdleRetry, ReadEOF, ReadError, KeyStop, KeyIgnore,
         KeySend, WriteError, BrokenPipe, Goto, NotReady
<1>4. pc' # "done" /\ pc' # "killed" => pending' = pending
  BY DEF Moves, Poll, IdleStop, IdleRetry, ReadEOF, ReadError, KeyStop, KeyIgnore,
         KeySend, WriteError, BrokenPipe, Goto, NotReady
<1>5. InStep'
  BY <1>1, <1>3, Lengths DEF InStep
<1>6. OutputFidelity'
  <2>1. Len(msgs) <= Len(wanted) /\ Len(wanted) <= Len(msgs) + 1
    BY Lengths DEF OutputFidelity
  <2>2. pc' \notin {"key", "build", "done"} => Len(wanted) = Len(msgs)
    BY <1>1, <1>3 DEF InStep
  <2>3. Len(wanted') <= Len(msgs') + (IF pc' \in {"key", "build", "done"} THEN 1 ELSE 0)
    <3>1. Len(msgs') = Len(msgs) /\ Len(wanted') = Len(wanted) BY <1>1
    <3>2. CASE pc' \in {"key", "build", "done"} BY <3>1, <3>2, <2>1
    <3>3. CASE pc' \notin {"key", "build", "done"} BY <3>1, <3>3, <2>2, Lengths
    <3> QED BY <3>2, <3>3
  <2> QED BY <1>1, <2>1, <2>3 DEF OutputFidelity
<1>7. WholeFrames' /\ Unfinished'
  BY <1>1, <1>3 DEF WholeFrames, Unfinished, FrameBytes
<1>8. Notified'
  BY <1>1, <1>3, <1>4 DEF Notified, Exited, TypeOK
<1> QED BY <1>2, <1>5, <1>6, <1>7, <1>8

\* A key is read, and what it stands for is wanted from now on.
LEMMA ReadKeyStep == ASSUME IInv, ReadKey PROVE IInv'
<1> USE DEF IInv
<1>1. /\ pc = "read" /\ typed # <<>> /\ pc' = "key" /\ ch' = Head(typed)
      /\ UNCHANGED <<ntyped, iclosed, pending, raised, seq, msgs, part, put, sent,
                     oread, oclosed, late, failed>>
  BY DEF ReadKey, Goto, output, reader
<1>2. ch' \in Keys /\ typed' \in Seq(Keys)
  BY <1>1, HeadTailProperties DEF ReadKey, TypeOK
<1>3. \/ Meaning(ch') = NoTwist /\ wanted' = wanted
      \/ /\ Meaning(ch') # NoTwist
         /\ wanted' = Append(wanted, Meaning(ch')) /\ wanted' \in Seq(Twist)
         /\ Len(wanted') = Len(wanted) + 1 /\ wanted'[Len(wanted) + 1] = Meaning(ch')
         /\ \A i \in 1 .. Len(wanted) : wanted'[i] = wanted[i]
  <2>1. Meaning(ch') = NoTwist => wanted' = wanted
    BY DEF ReadKey
  <2>2. ASSUME Meaning(ch') # NoTwist PROVE wanted' = Append(wanted, Meaning(ch'))
    BY <2>2 DEF ReadKey
  <2>3. Meaning(ch') # NoTwist => Meaning(ch') \in Twist BY KeyTable
  <2>4. wanted \in Seq(Twist) BY DEF TypeOK
  <2> QED BY <2>1, <2>2, <2>3, <2>4, AppendProperties
<1>4. TypeOK'
  BY <1>1, <1>2, <1>3 DEF TypeOK
<1>5. Len(wanted) = Len(msgs) BY <1>1 DEF InStep
<1>6. InStep' BY <1>1, <1>3, <1>5, Lengths DEF InStep
<1>7. OutputFidelity'
  <2>1. Len(msgs') <= Len(wanted') /\ Len(wanted') <= Len(msgs') + 1
    BY <1>1, <1>3, <1>5, Lengths
  <2>2. \A i \in DOMAIN msgs' : wanted'[i] = wanted[i]
    BY <1>1, <1>3, <1>5, Lengths
  <2> QED BY <1>1, <2>1, <2>2 DEF OutputFidelity
<1>8. WholeFrames' /\ Unfinished' BY <1>1 DEF WholeFrames, Unfinished
<1>9. Notified' BY <1>1 DEF Notified, Exited
<1> QED BY <1>4, <1>6, <1>7, <1>8, <1>9

\* The message is the one of the last key wanted, with the next number.
LEMMA BuildStep == ASSUME IInv, BuildMsg PROVE IInv'
<1> USE DEF IInv
<1> DEFINE m == [seq |-> seq, twist |-> Meaning(ch)]
<1>1. /\ pc = "build" /\ pc' = "write" /\ part' = "size" /\ put' = 0
      /\ seq' = (seq + 1) % SeqMod /\ late' = (IF raised THEN late + 1 ELSE late)
      /\ UNCHANGED <<typed, ntyped, iclosed, pending, raised, ch, sent, oread, oclosed,
                     wanted, failed>>
  BY DEF BuildMsg, Begin, input, reader
<1>2. msgs' = Append(msgs, m)
  BY KeyTable DEF BuildMsg, Begin
<1>3. Meaning(ch) \in Twist
  BY <1>1, KeyTable DEF InStep
<1>4. /\ msgs' \in Seq([seq : 0 .. SeqMod - 1, twist : Twist])
      /\ Len(msgs') = Len(msgs) + 1 /\ msgs'[Len(msgs) + 1] = m
      /\ \A i \in 1 .. Len(msgs) : msgs'[i] = msgs[i]
      /\ DOMAIN msgs' = 1 .. Len(msgs) + 1
  <2>1. m \in [seq : 0 .. SeqMod - 1, twist : Twist] BY <1>3 DEF TypeOK
  <2>2. msgs \in Seq([seq : 0 .. SeqMod - 1, twist : Twist]) BY DEF TypeOK
  <2>3. /\ msgs' \in Seq([seq : 0 .. SeqMod - 1, twist : Twist])
        /\ Len(msgs') = Len(msgs) + 1 /\ msgs'[Len(msgs) + 1] = m
        /\ \A i \in 1 .. Len(msgs) : msgs'[i] = msgs[i]
    BY <1>2, <2>1, <2>2, AppendProperties
  <2>4. DOMAIN msgs' = 1 .. Len(msgs') BY <2>3, LenProperties
  <2> QED BY <2>3, <2>4
<1>5. Len(msgs) \in Nat /\ Len(wanted) \in Nat /\ DOMAIN msgs = 1 .. Len(msgs)
  BY Lengths
<1>6. seq' = (Len(msgs) + 1) % SeqMod /\ seq' \in 0 .. SeqMod - 1
  <2>1. seq = Len(msgs) % SeqMod BY DEF InStep
  <2>2. SeqMod \in Nat \ {0} BY TeleopAssumption
  <2> QED BY <1>1, <1>5, <2>1, <2>2, ModSucc
<1>7. TypeOK'
  BY <1>1, <1>4, <1>6, MessageSizes DEF TypeOK
<1>8. InStep' BY <1>1, <1>4, <1>5, <1>6 DEF InStep
<1>9. OutputFidelity'
  <2>1. Len(wanted) = Len(msgs) + 1 /\ wanted[Len(msgs) + 1] = Meaning(ch)
    BY <1>1 DEF InStep
  <2>2. msgs'[Len(msgs) + 1] = [seq |-> ((Len(msgs) + 1) - 1) % SeqMod,
                                twist |-> wanted[Len(msgs) + 1]]
    <3>1. (Len(msgs) + 1) - 1 = Len(msgs) BY <1>5
    <3>2. m = [seq |-> Len(msgs) % SeqMod, twist |-> wanted[Len(msgs) + 1]]
      BY <2>1 DEF InStep
    <3> QED BY <1>4, <3>1, <3>2
  <2>3. ASSUME NEW i \in 1 .. Len(msgs)
        PROVE  msgs'[i] = [seq |-> (i - 1) % SeqMod, twist |-> wanted[i]]
    BY <1>4, <1>5 DEF OutputFidelity
  <2>4. \A i \in DOMAIN msgs' : i \in 1 .. Len(msgs) \/ i = Len(msgs) + 1
    BY <1>4, <1>5
  <2>5. \A i \in DOMAIN msgs' : msgs'[i] = [seq |-> (i - 1) % SeqMod, twist |-> wanted'[i]]
    BY <1>1, <2>2, <2>3, <2>4
  <2>6. Len(msgs') <= Len(wanted') /\ Len(wanted') <= Len(msgs') + 0
    BY <1>1, <1>4, <1>5, <2>1
  <2> QED BY <1>1, <2>5, <2>6 DEF OutputFidelity
<1>10. WholeFrames'
  <2>1. sent = Len(msgs) * FrameBytes BY <1>1 DEF WholeFrames
  <2>2. sent = ((Len(msgs) + 1) - 1) * FrameBytes + 0 + 0
    BY <1>5, <2>1, FrameOffsets
  <2> QED BY <1>1, <1>4, <2>2 DEF WholeFrames, FrameBytes, MsgSize
<1>11. Unfinished' BY <1>1, MessageSizes DEF Unfinished, PartBytes
<1>12. Notified' BY <1>1 DEF Notified, Exited, TypeOK
<1> QED BY <1>7, <1>8, <1>9, <1>10, <1>11, <1>12

\* A write takes some of the rest of a part.
LEMMA WriteStep == ASSUME IInv, NEW w \in 1 .. MsgSize, WriteSome(w) PROVE IInv'
<1> USE DEF IInv
<1>1. /\ pc = "write" /\ sent' = sent + w
      /\ UNCHANGED <<typed, ntyped, iclosed, pending, raised, ch, seq, msgs, oread, oclosed,
                     wanted, late, failed>>
  BY DEF WriteSome, Wrote, input, reader
<1>2. \/ pc' = "write" /\ part' = part /\ put' = put + w /\ put + w < PartBytes
      \/ /\ pc' = "write" /\ part = "size" /\ part' = "payload" /\ put' = 0
         /\ put + w = PartBytes
      \/ /\ pc' = "top" /\ part = "payload" /\ part' = "payload" /\ put' = put + w
         /\ put + w = PartBytes
  BY DEF WriteSome, Wrote
<1>3. put \in Nat /\ w \in Nat /\ sent \in Nat /\ part \in {"size", "payload"}
  BY MessageSizes DEF TypeOK
<1>4. TypeOK'
  <2>1. put' \in 0 .. MsgSize BY <1>2, <1>3, MessageSizes
  <2>2. sent' \in Nat /\ part' \in {"size", "payload"} BY <1>1, <1>2, <1>3
  <2>3. pc' \in {"top", "write"} BY <1>2
  <2> QED BY <1>1, <2>1, <2>2, <2>3 DEF TypeOK
<1>5. InStep' /\ OutputFidelity'
  BY <1>1, <1>2 DEF InStep, OutputFidelity
<1>6. WholeFrames'
  <2>1. sent = (Len(msgs) - 1) * FrameBytes + put + (IF part = "size" THEN 0 ELSE Word)
    BY <1>1 DEF WholeFrames
  <2>2. (Len(msgs) - 1) * FrameBytes = Len(msgs) * FrameBytes - FrameBytes
        /\ Len(msgs) * FrameBytes \in Nat
    BY Lengths, FrameOffsets
  <2>3. pc' = "top" => sent' = Len(msgs) * FrameBytes
    BY <1>1, <1>2, <1>3, <2>1, <2>2, MessageSizes
  <2>4. pc' = "write" => sent' = (Len(msgs) - 1) * FrameBytes + put'
                                 + (IF part' = "size" THEN 0 ELSE Word)
    BY <1>1, <1>2, <1>3, <2>1, <2>2, MessageSizes
  <2> QED BY <1>1, <1>2, <2>3, <2>4 DEF WholeFrames
<1>7. Unfinished'
  BY <1>2, MessageSizes DEF Unfinished, PartBytes
<1>8. Notified' BY <1>1, <1>2 DEF Notified, Exited
<1> QED BY <1>4, <1>5, <1>6, <1>7, <1>8

-----------------------------------------------------------------------------

\* The invariant holds in every reachable state.
THEOREM Invariance == Spec => []IInv
<1>1. Init => IInv BY InitInv
<1>2. IInv /\ [Next]_vars => IInv'
  <2> SUFFICES ASSUME IInv, [Next]_vars PROVE IInv' OBVIOUS
  <2>1. CASE Reader \/ (\E c \in Keys : Type(c)) \/ CloseInput \/ RaiseNotif
    BY <2>1, EnvironmentStep
  <2>2. CASE Moves BY <2>2, MoveStep
  <2>3. CASE ReadKey BY <2>3, ReadKeyStep
  <2>4. CASE BuildMsg BY <2>4, BuildStep
  <2>5. CASE \E w \in 1 .. MsgSize : WriteSome(w) BY <2>5, WriteStep
  <2>6. CASE UNCHANGED vars
    BY <2>6 DEF vars, IInv, TypeOK, InStep, OutputFidelity, WholeFrames, Unfinished, Notified,
                Exited, PartBytes, FrameBytes
  <2> QED BY <2>1, <2>2, <2>3, <2>4, <2>5, <2>6 DEF Next, Teleop, Moves
<1> QED BY <1>1, <1>2, PTL DEF Spec

\* Every variable of spin() and of the pipe it writes to keeps its type.
THEOREM TypeCorrect == Spec => []TypeOK
<1>1. IInv => TypeOK BY DEF IInv
<1> QED BY Invariance, <1>1, PTL

\* The messages are the keys' movements, numbered and in order.
THEOREM MessagesAreTheKeys == Spec => []OutputFidelity
<1>1. IInv => OutputFidelity BY DEF IInv
<1> QED BY Invariance, <1>1, PTL

\* Messages are whole, however the writes are cut, unless one fails.
THEOREM MessagesAreWhole == Spec => []WholeFrames
<1>1. IInv => WholeFrames BY DEF IInv
<1> QED BY Invariance, <1>1, PTL

\* At most one message is written after the notification.
THEOREM AtMostOneAfterRaise == Spec => []OneAfterRaise
<1>1. IInv => OneAfterRaise BY DEF IInv, Notified, OneAfterRaise
<1> QED BY Invariance, <1>1, PTL
=============================================================================
