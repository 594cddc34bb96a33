--------------------------- MODULE PipelineProofs ---------------------------
(***************************************************************************)
(* The two programs fit together, for any keys, sizes and capacity of the  *)
(* pipe: every step of the pipeline is one that TeleopKeyboard allows, or  *)
(* none, and one that MBotDriver allows, or none; and the MBot is left     *)
(* stopped unless the driver crashes.                                      *)
(***************************************************************************)
EXTENDS Pipeline, SequenceTheorems, TLAPS

Types ==
  /\ sent \in Nat /\ base \in Nat /\ got \in Nat /\ need \in Nat /\ put \in Nat
  /\ tpart \in {"size", "payload"} /\ dpart \in {"size", "payload"}
  /\ ntyped \in 0 .. MaxKeys /\ typed \in Seq(Keys)
  /\ frames \in Seq(D!Frame) /\ drives \in Seq(Int)

\* What is in the pipe.
Flow == PipeRead <= sent /\ sent <= PipeRead + OutCap

\* What write_exact() has still to write of the message.
Left == IF tpart = "size" THEN (Word - put) + T!MsgSize ELSE T!MsgSize - put

\* Between messages everything begun is written, within one all but Left.
Written ==
  /\ tpc \in {"top", "idle", "read", "key", "build"} => sent = D!End(Len(frames))
  /\ tpc = "write" => put < T!PartBytes /\ sent + Left = D!End(Len(frames))

\* A message is begun for a key.
Handling == IF tpc \in {"key", "build"} THEN 1 ELSE 0
Budget == Len(frames) + Handling + Len(typed) <= ntyped

OneSize == \A k \in 1 .. Len(frames) : frames[k].size = T!MsgSize

\* spin() ends with the stop, and drives nothing when it is not called.
StopsLast ==
  /\ dpc # "aborted"
  /\ dpc = "done" => drives # <<>> /\ drives[Len(drives)] = D!Stop
  /\ dproc = "start" => drives = <<>>
  /\ StoppedAtTheEnd

\* The inductive invariant.
PInv == Types /\ Flow /\ Written /\ Budget /\ OneSize /\ StopsLast

-----------------------------------------------------------------------------

LEMMA Sizes ==
  /\ T!MsgSize \in Nat /\ 0 < T!MsgSize /\ Word \in Nat /\ 0 < Word
  /\ T!PartBytes = IF tpart = "size" THEN Word ELSE T!MsgSize
  /\ 4 * Word + FrameId + 3 * Word = T!MsgSize
BY PipelineAssumption DEF T!MsgSize, T!PartBytes

\* What the types say of the frames and of what is to be driven.
LEMMA FrameFacts ==
  ASSUME Types
  PROVE  /\ Len(frames) \in Nat /\ DOMAIN frames = 1 .. Len(frames)
         /\ \A k \in 1 .. Len(frames) : frames[k].at \in Nat /\ frames[k].size \in Nat
         /\ D!End(Len(frames)) \in Nat
         /\ D!Expected(Len(frames)) \in Seq(Nat)
<1>1. frames \in Seq(D!Frame) BY DEF Types
<1>2. Len(frames) \in Nat /\ DOMAIN frames = 1 .. Len(frames)
  BY <1>1, LenProperties
<1>3. ASSUME NEW k \in 1 .. Len(frames)
      PROVE  frames[k].at \in Nat /\ frames[k].size \in Nat /\ frames[k].expected \in Seq(Nat)
  <2>1. frames[k] \in D!Frame BY <1>1, ElementOfSeq
  <2> QED BY <2>1 DEF D!Frame
<1>4. D!End(Len(frames)) \in Nat
  <2>1. CASE Len(frames) = 0 BY <2>1 DEF D!End
  <2>2. CASE Len(frames) # 0
    <3>1. Len(frames) \in 1 .. Len(frames) BY <1>2, <2>2
    <3> QED BY <1>3, <2>2, <3>1, PipelineAssumption DEF D!End, D!EndOf
  <2> QED BY <2>1, <2>2
<1>5. D!Expected(Len(frames)) \in Seq(Nat)
  <2>1. CASE Len(frames) = 0 BY <2>1, EmptySeq DEF D!Expected
  <2>2. CASE Len(frames) # 0
    <3>1. Len(frames) \in 1 .. Len(frames) BY <1>2, <2>2
    <3> QED BY <1>3, <2>2, <3>1 DEF D!Expected
  <2> QED BY <2>1, <2>2
<1> QED BY <1>2, <1>3, <1>4, <1>5

\* The frame that a message begins, and where it ends.
LEMMA FrameBegins ==
  ASSUME Types, OneSize, frames' = Append(frames, FrameBegun)
  PROVE  /\ frames' \in Seq(D!Frame) /\ Len(frames') = Len(frames) + 1
         /\ D!End(Len(frames))' = sent + Word + T!MsgSize
         /\ OneSize'
<1>1. FrameBegun \in D!Frame
  <2>1. Append(D!Expected(Len(frames)), Len(frames) + 1) \in Seq(Nat)
    BY FrameFacts, AppendProperties
  <2>2. sent \in Nat BY DEF Types
  <2> QED BY <2>1, <2>2, Sizes, PipelineAssumption DEF FrameBegun, D!Frame
<1>2. frames \in Seq(D!Frame) /\ Len(frames) \in Nat BY FrameFacts DEF Types
<1>3. /\ frames' \in Seq(D!Frame) /\ Len(frames') = Len(frames) + 1
      /\ frames'[Len(frames) + 1] = FrameBegun
      /\ \A i \in 1 .. Len(frames) : frames'[i] = frames[i]
  BY <1>1, <1>2, AppendProperties
<1>4. D!End(Len(frames))' = sent + Word + T!MsgSize
  <2>1. Len(frames') # 0 BY <1>2, <1>3
  <2>2. frames'[Len(frames')] = FrameBegun BY <1>3
  <2>3. FrameBegun.at = sent /\ FrameBegun.size = T!MsgSize BY DEF FrameBegun
  <2>4. FrameBegun.at + Word + FrameBegun.size = sent + Word + T!MsgSize BY <2>3
  <2> QED BY <2>1, <2>2, <2>4 DEF D!End, D!EndOf
<1>5. OneSize'
  <2>1. FrameBegun.size = T!MsgSize BY DEF FrameBegun
  <2>2. \A i \in 1 .. Len(frames') : i \in 1 .. Len(frames) \/ i = Len(frames) + 1
    BY <1>2, <1>3
  <2>3. \A i \in 1 .. Len(frames') : frames'[i].size = T!MsgSize
    BY <1>3, <2>1, <2>2 DEF OneSize
  <2>4. T!MsgSize' = T!MsgSize BY DEF T!MsgSize
  <2> QED BY <2>3, <2>4 DEF OneSize
<1> QED BY <1>3, <1>4, <1>5

LEMMA InitInv == Init => PInv
<1> SUFFICES ASSUME Init PROVE PInv OBVIOUS
<1> USE PipelineAssumption DEF Init, T!Init, D!Init
<1>1. Types BY EmptySeq DEF Types
<1>2. Flow BY DEF Flow, PipeRead
<1>3. Written BY DEF Written, D!End
<1>4. Budget BY DEF Budget, Handling
<1>5. OneSize BY DEF OneSize
<1>6. StopsLast BY DEF StopsLast, StoppedAtTheEnd
<1> QED BY <1>1, <1>2, <1>3, <1>4, <1>5, <1>6 DEF PInv

-----------------------------------------------------------------------------
(* teleop_keyboard writes.                                                 *)

\* The steps of T!Teleop that touch neither the output nor the keys.
Idles == \/ T!Poll \/ T!IdleStop \/ T!IdleRetry \/ T!ReadEOF \/ T!ReadError
         \/ T!KeyStop \/ T!KeyIgnore \/ T!KeySend \/ T!WriteError \/ T!BrokenPipe

LEMMA TeleopCases ==
  T!Teleop <=> Idles \/ T!ReadKey \/ T!BuildMsg \/ \E w \in 1 .. T!MsgSize : T!WriteSome(w)
BY DEF T!Teleop, Idles

LEMMA IdlesStep ==
  ASSUME Idles
  PROVE  /\ UNCHANGED <<typed, ntyped, tpart, put, sent>> /\ tpc # "build"
         /\ \/ tpc' \in {"top", "idle", "read"} /\ tpc \in {"top", "idle", "key"}
            \/ tpc' = "build" /\ tpc = "key"
            \/ tpc' \in {"done", "killed"}
BY DEF Idles, T!Poll, T!IdleStop, T!IdleRetry, T!ReadEOF, T!ReadError, T!KeyStop, T!KeyIgnore,
       T!KeySend, T!WriteError, T!BrokenPipe, T!Goto, T!input, T!output

LEMMA WriteStep ==
  ASSUME NEW w \in 1 .. T!MsgSize, T!WriteSome(w)
  PROVE  /\ UNCHANGED <<typed, ntyped>> /\ tpc = "write" /\ sent' = sent + w
         /\ put + w <= T!PartBytes /\ sent + w - PipeRead <= OutCap
         /\ \/ tpc' = "write" /\ tpart' = tpart /\ put' = put + w /\ put + w < T!PartBytes
            \/ /\ tpc' = "write" /\ tpart = "size" /\ tpart' = "payload" /\ put' = 0
               /\ put + w = T!PartBytes
            \/ /\ tpc' = "top" /\ tpart = "payload" /\ tpart' = "payload"
               /\ put' = put + w /\ put + w = T!PartBytes
BY DEF T!WriteSome, T!Wrote, T!input

LEMMA TeleopInv == ASSUME PInv, TeleopSpins PROVE PInv'
<1> USE DEF PInv
<1>1. /\ UNCHANGED <<tproc, dproc, base, got, need, dpart, dpc, drives>> /\ T!Teleop
      /\ frames' = IF tpc = "build" THEN Append(frames, FrameBegun) ELSE frames
  BY DEF TeleopSpins, driver
<1>2. PipeRead' = PipeRead BY <1>1 DEF PipeRead
<1>3. StopsLast' BY <1>1 DEF StopsLast, StoppedAtTheEnd
<1>4. T!MsgSize' = T!MsgSize /\ T!MsgSize \in Nat BY Sizes DEF T!MsgSize
<1>5. /\ sent \in Nat /\ base \in Nat /\ got \in Nat /\ put \in Nat /\ PipeRead \in Nat
      /\ Len(typed) \in Nat /\ ntyped \in Nat
  BY PipelineAssumption, LenProperties DEF Types, PipeRead
<1>6. CASE Idles
  <2>1. /\ UNCHANGED <<typed, ntyped, tpart, put, sent>> /\ frames' = frames
        /\ \/ tpc' \in {"top", "idle", "read"} /\ tpc \in {"top", "idle", "key"}
           \/ tpc' = "build" /\ tpc = "key"
           \/ tpc' \in {"done", "killed"}
    BY <1>1, <1>6, IdlesStep
  <2>2. Types' BY <1>1, <2>1 DEF Types
  <2>3. Flow' BY <1>2, <2>1 DEF Flow
  <2>4. D!End(Len(frames))' = D!End(Len(frames)) BY <2>1 DEF D!End, D!EndOf
  <2>5. Written' BY <2>1, <2>4 DEF Written
  <2>6. Budget'
    <3>1. Handling' <= Handling /\ Handling \in Nat /\ Handling' \in Nat
      BY <2>1 DEF Handling
    <3> QED BY <1>5, <2>1, <3>1, FrameFacts DEF Budget
  <2>7. OneSize' BY <1>4, <2>1 DEF OneSize
  <2> QED BY <1>3, <2>2, <2>3, <2>5, <2>6, <2>7
<1>7. CASE T!ReadKey
  <2>1. /\ UNCHANGED <<ntyped, tpart, put, sent>> /\ frames' = frames
        /\ tpc = "read" /\ tpc' = "key" /\ typed # <<>> /\ typed' = Tail(typed)
    BY <1>1, <1>7 DEF T!ReadKey, T!Goto, T!output
  <2>2. typed' \in Seq(Keys) /\ Len(typed') = Len(typed) - 1
    BY <2>1, HeadTailProperties DEF Types
  <2>3. Types' BY <1>1, <2>1, <2>2 DEF Types
  <2>4. Flow' BY <1>2, <2>1 DEF Flow
  <2>5. D!End(Len(frames))' = D!End(Len(frames)) BY <2>1 DEF D!End, D!EndOf
  <2>6. Written' BY <2>1, <2>5 DEF Written
  <2>7. Budget' BY <1>5, <2>1, <2>2, FrameFacts DEF Budget, Handling
  <2>8. OneSize' BY <1>4, <2>1 DEF OneSize
  <2> QED BY <1>3, <2>3, <2>4, <2>6, <2>7, <2>8
<1>8. CASE T!BuildMsg
  <2>1. /\ UNCHANGED <<typed, ntyped, sent>> /\ frames' = Append(frames, FrameBegun)
        /\ tpc = "build" /\ tpc' = "write" /\ tpart' = "size" /\ put' = 0
    BY <1>1, <1>8 DEF T!BuildMsg, T!Begin, T!input
  <2>2. /\ frames' \in Seq(D!Frame) /\ Len(frames') = Len(frames) + 1
        /\ D!End(Len(frames))' = sent + Word + T!MsgSize
        /\ OneSize'
    BY <2>1, FrameBegins
  <2>3. Types' BY <1>1, <2>1, <2>2 DEF Types
  <2>4. Flow' BY <1>2, <2>1 DEF Flow
  <2>5. Written'
    <3>1. Left' = Word + T!MsgSize BY <1>4, <2>1, Sizes DEF Left
    <3>2. sent' + Left' = D!End(Len(frames))' BY <1>4, <1>5, <2>1, <2>2, <3>1, Sizes
    <3>3. put' < T!PartBytes' BY <2>1, Sizes DEF T!PartBytes
    <3> QED BY <2>1, <3>2, <3>3 DEF Written
  <2>6. Budget' BY <1>5, <2>1, <2>2, FrameFacts DEF Budget, Handling
  <2> QED BY <1>3, <2>2, <2>3, <2>4, <2>5, <2>6
<1>9. ASSUME NEW w \in 1 .. T!MsgSize, T!WriteSome(w) PROVE PInv'
  <2>1. w \in Nat /\ 0 < w /\ frames' = frames
    BY <1>1, <1>4, <1>9, WriteStep
  <2>2. D!End(Len(frames))' = D!End(Len(frames)) /\ D!End(Len(frames)) \in Nat
    BY <2>1, FrameFacts DEF D!End, D!EndOf
  <2>3. Types' BY <1>1, <1>5, <1>9, <2>1, WriteStep DEF Types
  <2>4. Flow' BY <1>2, <1>5, <1>9, <2>1, WriteStep, PipelineAssumption DEF Flow
  <2>5. put < T!PartBytes /\ sent + Left = D!End(Len(frames))
    BY <1>9, WriteStep DEF Written
  <2>6. Written'
    <3>1. CASE tpc' = "top"
      BY <1>5, <1>9, <2>1, <2>2, <2>5, <3>1, WriteStep, Sizes DEF Written, Left
    <3>2. CASE tpc' = "write"
      <4>1. put' < T!PartBytes'
        BY <1>9, <3>2, WriteStep, Sizes DEF T!PartBytes, T!MsgSize
      <4>2. sent' = sent + w BY <1>9, WriteStep
      <4>3. ASSUME tpart' = tpart, put' = put + w
            PROVE  sent' + Left' = D!End(Len(frames))
        <5>1. Left' = Left - w BY <1>4, <1>5, <2>1, <4>3, Sizes DEF Left
        <5>2. Left \in Int BY <1>4, <1>5, Sizes DEF Left
        <5> QED BY <1>5, <2>1, <2>5, <4>2, <5>1, <5>2
      <4>4. ASSUME tpart = "size", tpart' = "payload", put' = 0, put + w = T!PartBytes
            PROVE  sent' + Left' = D!End(Len(frames))
        <5>1. Left = w + T!MsgSize BY <1>4, <1>5, <2>1, <4>4, Sizes DEF Left
        <5>2. Left' = T!MsgSize BY <1>4, <4>4 DEF Left
        <5> QED BY <1>4, <1>5, <2>1, <2>5, <4>2, <5>1, <5>2
      <4>5. sent' + Left' = D!End(Len(frames))
        BY <1>9, <3>2, <4>3, <4>4, WriteStep
      <4> QED BY <2>2, <3>2, <4>1, <4>5 DEF Written
    <3> QED BY <1>9, <3>1, <3>2, WriteStep
  <2>7. Budget' BY <1>5, <1>9, <2>1, WriteStep, FrameFacts DEF Budget, Handling
  <2>8. OneSize' BY <1>4, <2>1 DEF OneSize
  <2> QED BY <1>3, <2>3, <2>4, <2>6, <2>7, <2>8
<1> QED BY <1>1, <1>6, <1>7, <1>8, <1>9, TeleopCases

-----------------------------------------------------------------------------
(* mbot_driver reads.                                                      *)

\* What a step of D!Driver does to the position and to the drives.
LEMMA DriverStep ==
  ASSUME PInv, D!Driver
  PROVE  /\ UNCHANGED <<frames, sent>>
         /\ base' \in Nat /\ got' \in Nat /\ need' \in Nat
         /\ dpart' \in {"size", "payload"}
         /\ \/ PipeRead' = PipeRead
            \/ \E r \in Nat : 0 < r /\ PipeRead' = PipeRead + r /\ PipeRead + r <= sent
         /\ drives' \in Seq(Int)
         /\ dpc' # "aborted"
         /\ dpc' = "done" => drives' = Append(drives, D!Stop)
<1> USE DEF PInv
<1>1. UNCHANGED <<frames, sent>>
  BY DEF D!Driver, D!TopStop, D!TopRead, D!ReadSome, D!ReadEOF, D!ReadError, D!ReadAgain,
         D!AgainStop, D!AgainWait, D!ParseSize, D!Drive, D!SendStop, D!StartRead, D!env
<1>2. /\ base \in Nat /\ got \in Nat /\ sent \in Nat /\ drives \in Seq(Int)
      /\ need \in Nat /\ dpart \in {"size", "payload"}
  BY DEF Types
<1>3. CASE D!TopStop \/ D!ReadEOF \/ D!ReadError \/ D!AgainStop
  <2>1. dpc' = "done" /\ drives' = Append(drives, D!Stop) /\ UNCHANGED <<base, got, need, dpart>>
    BY <1>3 DEF D!TopStop, D!ReadEOF, D!ReadError, D!AgainStop, D!SendStop
  <2>2. D!Stop \in Int BY DEF D!Stop
  <2>3. drives' \in Seq(Int) BY <1>2, <2>1, <2>2, AppendProperties
  <2> QED BY <1>1, <1>2, <2>1, <2>3 DEF PipeRead
<1>4. CASE D!ReadAgain \/ D!AgainWait
  <2>1. dpc' \in {"again", "read"} /\ UNCHANGED <<drives, base, got, need, dpart>>
    BY <1>4 DEF D!ReadAgain, D!AgainWait
  <2> QED BY <1>1, <1>2, <2>1 DEF PipeRead
<1>5. CASE D!TopRead
  <2>1. /\ dpc' \in {"size", "read"} /\ drives' = drives
        /\ base' = base + got /\ got' = 0 /\ need' = Word /\ dpart' = "size"
    BY <1>5 DEF D!TopRead, D!StartRead
  <2> QED BY <1>1, <1>2, <2>1, Sizes DEF PipeRead
<1>6. ASSUME NEW r \in 1 .. need, D!ReadSome(r)
      PROVE  /\ base' \in Nat /\ got' \in Nat /\ drives' \in Seq(Int)
             /\ UNCHANGED <<need, dpart>>
             /\ r \in Nat /\ 0 < r /\ PipeRead' = PipeRead + r /\ PipeRead + r <= sent
             /\ dpc' \in {"size", "payload", "read"}
  <2>1. /\ base' = base /\ got' = got + r /\ UNCHANGED <<drives, need, dpart>>
        /\ base + got + r <= sent /\ r \in Nat /\ 0 < r
        /\ dpc' \in {"size", "payload", "read"}
    BY <1>2, <1>6 DEF D!ReadSome
  <2> QED BY <1>2, <2>1 DEF PipeRead
<1>7. CASE D!ParseSize
  <2>1. PICK size \in D!SizesAt(base) :
          \/ size <= T!MsgSize /\ D!StartRead("payload", size)
          \/ size > T!MsgSize
    BY <1>7 DEF D!ParseSize
  <2>2. size \in {0, T!MsgSize}
    <3>1. CASE \E k \in DOMAIN frames : frames[k].at = base
      <4>1. PICK k \in DOMAIN frames : size = frames[k].size
        BY <2>1, <3>1 DEF D!SizesAt
      <4> QED BY <4>1, FrameFacts DEF OneSize
    <3>2. CASE ~ \E k \in DOMAIN frames : frames[k].at = base
      BY <2>1, <3>2 DEF D!SizesAt
    <3> QED BY <3>1, <3>2
  <2>3. size <= T!MsgSize BY <2>2, Sizes
  <2>4. D!StartRead("payload", size) BY <2>1, <2>2, <2>3, Sizes
  <2>5. /\ base' = base + got /\ got' = 0 /\ drives' = drives
        /\ dpc' \in {"payload", "read"} /\ need' = size /\ dpart' = "payload"
    BY <1>7, <2>4 DEF D!StartRead, D!ParseSize
  <2> QED BY <1>1, <1>2, <2>2, <2>5, Sizes DEF PipeRead
<1>8. CASE D!Drive
  <2>1. /\ dpc' = "top" /\ UNCHANGED <<base, got, need, dpart>>
        /\ \E cmd \in D!Decoded : drives' = drives \/ drives' = Append(drives, cmd)
    BY <1>8 DEF D!Drive
  <2>2. D!Decoded \subseteq Int
    <3>1. DOMAIN frames \subseteq Int BY FrameFacts
    <3> QED BY <3>1 DEF D!Decoded, D!Payloads, D!Bad, D!Garbage
  <2>3. drives' \in Seq(Int) BY <1>2, <2>1, <2>2, AppendProperties
  <2> QED BY <1>1, <1>2, <2>1, <2>3 DEF PipeRead
<1>9. \/ D!TopStop \/ D!ReadEOF \/ D!ReadError \/ D!AgainStop
      \/ D!ReadAgain \/ D!AgainWait \/ D!TopRead \/ D!ParseSize \/ D!Drive
      \/ \E r \in 1 .. need : D!ReadSome(r)
  BY DEF D!Driver
<1>10. ASSUME NEW r \in 1 .. need, D!ReadSome(r)
       PROVE  /\ base' \in Nat /\ got' \in Nat /\ UNCHANGED <<need, dpart>>
              /\ \E q \in Nat : 0 < q /\ PipeRead' = PipeRead + q /\ PipeRead + q <= sent
              /\ drives' \in Seq(Int) /\ dpc' # "aborted" /\ dpc' # "done"
  BY <1>6, <1>10
<1> QED BY <1>1, <1>2, <1>3, <1>4, <1>5, <1>7, <1>8, <1>9, <1>10

LEMMA DriverInv == ASSUME PInv, DriverSpins PROVE PInv'
<1> USE DEF PInv
<1>1. /\ UNCHANGED <<tproc, dproc, typed, ntyped, tpc, tpart, put>> /\ dproc = "spin"
      /\ D!Driver
  BY DEF DriverSpins, teleop
<1>2. /\ UNCHANGED <<frames, sent>>
      /\ base' \in Nat /\ got' \in Nat /\ need' \in Nat
      /\ dpart' \in {"size", "payload"}
      /\ \/ PipeRead' = PipeRead
         \/ \E r \in Nat : 0 < r /\ PipeRead' = PipeRead + r /\ PipeRead + r <= sent
      /\ drives' \in Seq(Int)
      /\ dpc' # "aborted"
      /\ dpc' = "done" => drives' = Append(drives, D!Stop)
  BY <1>1, DriverStep
<1>3. Types' BY <1>1, <1>2 DEF Types
<1>4. Flow'
  <2>1. PipeRead \in Nat /\ sent \in Nat BY DEF PipeRead, Types
  <2> QED BY <1>2, <2>1, PipelineAssumption DEF Flow
<1>5. Written'
  BY <1>1, <1>2 DEF Written, Left, D!End, D!EndOf, T!PartBytes, T!MsgSize
<1>6. Budget' BY <1>1, <1>2 DEF Budget, Handling
<1>7. OneSize' BY <1>2 DEF OneSize, T!MsgSize
<1>8. StopsLast'
  <2>1. dpc' = "done" => drives' # <<>> /\ drives'[Len(drives')] = D!Stop
    <3>1. D!Stop \in Int /\ drives \in Seq(Int) BY DEF D!Stop, Types
    <3> QED BY <1>2, <3>1, AppendProperties, LenProperties
  <2> QED BY <1>1, <1>2, <2>1 DEF StopsLast, StoppedAtTheEnd, D!Stop
<1> QED BY <1>3, <1>4, <1>5, <1>6, <1>7, <1>8

-----------------------------------------------------------------------------
(* The processes start and end, and the environment.                       *)

\* A step that only starts or ends processes.
Processes == TeleopStarts \/ TeleopExits \/ DriverStarts \/ DriverExits \/ Crash
             \/ (UNCHANGED <<dproc, teleop, sent, frames, driver>> /\ ~Ended(tproc)
                 /\ tproc' = "gone")
             \/ (UNCHANGED <<tproc, teleop, sent, frames, driver>> /\ dproc' = "gone"
                 /\ (dproc = "start" \/ (dproc = "spin" /\ D!Exited)))

LEMMA ProcessCases ==
  ASSUME Next
  PROVE  \/ TeleopSpins \/ DriverSpins \/ Processes
         \/ \E c \in Keys : Key(c)
         \/ /\ tproc = "spin" /\ UNCHANGED <<tproc, dproc, frames, driver>>
            /\ T!RaiseNotif
         \/ /\ dproc = "spin" /\ UNCHANGED <<tproc, dproc, teleop>>
            /\ D!RaiseNotif
BY DEF Next, TeleopRuns, DriverRuns, InterruptTeleop, InterruptDriver, Processes, Ended

LEMMA ProcessesInv == ASSUME PInv, Processes PROVE PInv'
<1> USE DEF PInv
<1>1. UNCHANGED <<teleop, sent, frames, driver>>
  BY DEF Processes, TeleopStarts, TeleopExits, DriverStarts, DriverExits, Crash
<1>2. /\ UNCHANGED <<typed, ntyped, tpc, tpart, put, sent, frames>>
      /\ UNCHANGED <<base, got, need, dpart, dpc, drives>>
  BY <1>1 DEF teleop, driver
<1>3. Types' BY <1>2 DEF Types
<1>4. Flow' BY <1>2 DEF Flow, PipeRead
<1>5. Written'
  BY <1>2 DEF Written, Left, D!End, D!EndOf, T!PartBytes, T!MsgSize
<1>6. Budget' BY <1>2 DEF Budget, Handling
<1>7. OneSize' BY <1>2 DEF OneSize, T!MsgSize
<1>8. StopsLast'
  <2>1. dproc' = dproc \/ dproc' \in {"spin", "crashed"}
        \/ (dproc' = "gone" /\ (dproc = "start" \/ D!Exited))
    BY DEF Processes, TeleopStarts, TeleopExits, DriverStarts, DriverExits, Crash
  <2> QED BY <1>2, <2>1 DEF StopsLast, StoppedAtTheEnd, D!Exited, D!Stop
<1> QED BY <1>3, <1>4, <1>5, <1>6, <1>7, <1>8

LEMMA KeyInv == ASSUME PInv, NEW c \in Keys, Key(c) PROVE PInv'
<1> USE DEF PInv
<1>1. /\ UNCHANGED <<tproc, dproc, frames, tpc, tpart, put, sent>>
      /\ UNCHANGED <<base, got, need, dpart, dpc, drives>>
      /\ typed' = Append(typed, c) /\ ntyped' = ntyped + 1 /\ ntyped < MaxKeys
  BY DEF Key, driver, T!Type, T!output
<1>2. typed' \in Seq(Keys) /\ Len(typed') = Len(typed) + 1 /\ Len(typed) \in Nat
  BY <1>1, AppendProperties, LenProperties DEF Types
<1>3. Types' BY <1>1, <1>2, PipelineAssumption DEF Types
<1>4. Flow' BY <1>1 DEF Flow, PipeRead
<1>5. Written'
  BY <1>1 DEF Written, Left, D!End, D!EndOf, T!PartBytes, T!MsgSize
<1>6. Budget'
  <2>1. Handling' = Handling /\ Handling \in Nat BY <1>1 DEF Handling
  <2>2. Len(frames') = Len(frames) /\ Len(frames) \in Nat BY <1>1, FrameFacts
  <2>3. ntyped \in Nat BY PipelineAssumption DEF Types
  <2> QED BY <1>1, <1>2, <2>1, <2>2, <2>3 DEF Budget
<1>7. OneSize' BY <1>1 DEF OneSize, T!MsgSize
<1>8. StopsLast' BY <1>1 DEF StopsLast, StoppedAtTheEnd, D!Stop
<1> QED BY <1>3, <1>4, <1>5, <1>6, <1>7, <1>8

\* Steps that change nothing the invariant is about.
Same == UNCHANGED <<tproc, dproc, typed, ntyped, tpc, tpart, put, sent, frames,
                    base, got, need, dpart, dpc, drives>>

LEMMA SameInv == ASSUME PInv, Same PROVE PInv'
<1> USE DEF PInv, Same
<1>1. Types' BY DEF Types
<1>2. Flow' BY DEF Flow, PipeRead
<1>3. Written' BY DEF Written, Left, D!End, D!EndOf, T!PartBytes, T!MsgSize
<1>4. Budget' BY DEF Budget, Handling
<1>5. OneSize' BY DEF OneSize, T!MsgSize
<1>6. StopsLast' BY DEF StopsLast, StoppedAtTheEnd, D!Stop
<1> QED BY <1>1, <1>2, <1>3, <1>4, <1>5, <1>6

LEMMA NextInv == PInv /\ [Next]_vars => PInv'
<1> SUFFICES ASSUME PInv, [Next]_vars PROVE PInv' OBVIOUS
<1>1. CASE UNCHANGED vars
  <2>1. Same BY <1>1 DEF vars, teleop, driver, Same
  <2> QED BY <2>1, SameInv
<1>2. CASE Next
  <2>1. CASE /\ tproc = "spin" /\ UNCHANGED <<tproc, dproc, frames, driver>>
             /\ T!RaiseNotif
    <3>1. Same BY <2>1 DEF T!RaiseNotif, T!input, T!output, driver, Same
    <3> QED BY <3>1, SameInv
  <2>2. CASE /\ dproc = "spin" /\ UNCHANGED <<tproc, dproc, teleop>>
             /\ D!RaiseNotif
    <3>1. Same BY <2>2 DEF D!RaiseNotif, teleop, Same
    <3> QED BY <3>1, SameInv
  <2> QED BY <1>2, <2>1, <2>2, ProcessCases, TeleopInv, DriverInv, ProcessesInv, KeyInv
<1> QED BY <1>1, <1>2

\* The invariant of the pipeline holds in every reachable state.
THEOREM Invariance == Spec => []PInv
<1> QED BY InitInv, NextInv, PTL DEF Spec

\* However the driver ends but by a crash, the MBot is left stopped: no
\* SIGINT, and no end of teleop_keyboard, finds it driving and unstopped.
THEOREM LeftStopped == Spec => []StoppedAtTheEnd
<1>1. PInv => StoppedAtTheEnd BY DEF PInv, StopsLast
<1> QED BY <1>1, Invariance, PTL

-----------------------------------------------------------------------------
(* Each program is the environment that the other assumes.                 *)


\* What a process's start or end is for the ends of the pipe.
LEMMA ProcessEnds ==
  ASSUME Processes
  PROVE  /\ UNCHANGED <<teleop, sent, frames, driver>>
         /\ \/ Ended(tproc)' = Ended(tproc) /\ Ended(dproc)' = Ended(dproc)
            \/ ~Ended(tproc) /\ Ended(tproc)' /\ Ended(dproc)' = Ended(dproc)
            \/ ~Ended(dproc) /\ Ended(dproc)' /\ Ended(tproc)' = Ended(tproc)
BY DEF Processes, TeleopStarts, TeleopExits, DriverStarts, DriverExits, Crash, Ended

LEMMA TeleopMapped == ASSUME PInv, [Next]_vars PROVE T!Next \/ UNCHANGED T!vars
<1>0. sent \in Nat /\ PipeRead \in Nat /\ PipeRead <= sent /\ sent <= PipeRead + OutCap
  BY DEF PInv, Types, Flow, PipeRead
<1>1. ASSUME UNCHANGED <<teleop, sent, PipeRead>>,
             Ended(tproc)' = Ended(tproc), Ended(dproc)' = Ended(dproc)
      PROVE  UNCHANGED T!vars
  BY <1>1 DEF teleop, T!vars, ReadEndClosed, InputClosed
<1>2. CASE UNCHANGED vars
  BY <1>1, <1>2 DEF vars, driver, PipeRead, Ended
<1>3. CASE TeleopSpins
  BY <1>3 DEF TeleopSpins, T!Next
<1>4. CASE DriverSpins
  <2>1. UNCHANGED <<tproc, dproc, teleop>> /\ D!Driver /\ dproc = "spin"
    BY <1>4 DEF DriverSpins
  <2>2. /\ sent' = sent
        /\ \/ PipeRead' = PipeRead
           \/ \E r \in Nat : 0 < r /\ PipeRead' = PipeRead + r /\ PipeRead + r <= sent
    BY <2>1, DriverStep
  <2>3. CASE PipeRead' = PipeRead BY <1>1, <2>1, <2>2, <2>3 DEF Ended
  <2>4. ASSUME NEW r \in Nat, 0 < r, PipeRead' = PipeRead + r, PipeRead + r <= sent
        PROVE  T!Next
    <3>1. r \in 1 .. OutCap BY <1>0, <2>4, PipelineAssumption
    <3>2. T!TakeOutput(r)
      BY <2>1, <2>2, <2>4
      DEF T!TakeOutput, T!input, T!output, teleop, ReadEndClosed, InputClosed, Ended
    <3> QED BY <3>1, <3>2 DEF T!Next, T!Reader
  <2> QED BY <2>2, <2>3, <2>4
<1>5. CASE Processes
  <2>1. UNCHANGED <<teleop, sent>> /\ PipeRead' = PipeRead
    BY <1>5, ProcessEnds DEF driver, PipeRead
  <2>2. CASE Ended(tproc)' = Ended(tproc) /\ Ended(dproc)' = Ended(dproc)
    BY <1>1, <2>1, <2>2
  <2>3. CASE ~Ended(tproc) /\ Ended(tproc)' /\ Ended(dproc)' = Ended(dproc)
    <3>1. T!CloseInput
      BY <2>1, <2>3 DEF T!CloseInput, T!output, T!reader, teleop, ReadEndClosed, InputClosed
    <3> QED BY <3>1 DEF T!Next
  <2>4. CASE ~Ended(dproc) /\ Ended(dproc)' /\ Ended(tproc)' = Ended(tproc)
    <3>1. T!CloseOutput
      BY <2>1, <2>4 DEF T!CloseOutput, T!input, T!output, teleop, ReadEndClosed, InputClosed
    <3> QED BY <3>1 DEF T!Next, T!Reader
  <2> QED BY <1>5, <2>2, <2>3, <2>4, ProcessEnds
<1>6. CASE \E c \in Keys : Key(c)
  BY <1>6 DEF Key, T!Next
<1>7. CASE /\ tproc = "spin" /\ UNCHANGED <<tproc, dproc, frames, driver>>
           /\ T!RaiseNotif
  BY <1>7 DEF T!Next
<1>8. CASE /\ dproc = "spin" /\ UNCHANGED <<tproc, dproc, teleop>>
           /\ D!RaiseNotif
  BY <1>1, <1>8 DEF D!RaiseNotif, PipeRead, Ended
<1> QED BY <1>2, <1>3, <1>4, <1>5, <1>6, <1>7, <1>8, ProcessCases

LEMMA DriverMapped == ASSUME PInv, [Next]_vars PROVE D!Next \/ UNCHANGED D!vars
<1>1. ASSUME UNCHANGED <<frames, sent, driver>>, Ended(tproc)' = Ended(tproc)
      PROVE  UNCHANGED D!vars
  BY <1>1 DEF driver, D!vars, WriteEndClosed
<1>2. CASE UNCHANGED vars
  BY <1>1, <1>2 DEF vars, Ended
<1>3. CASE DriverSpins
  BY <1>3 DEF DriverSpins, D!Next
<1>4. CASE TeleopSpins
  <2>1. /\ UNCHANGED <<tproc, dproc, driver>> /\ tproc = "spin" /\ T!Teleop
        /\ frames' = IF tpc = "build" THEN Append(frames, FrameBegun) ELSE frames
    BY <1>4 DEF TeleopSpins
  <2>2. CASE Idles BY <1>1, <2>1, <2>2, IdlesStep DEF Ended
  <2>3. CASE T!ReadKey
    BY <1>1, <2>1, <2>3 DEF T!ReadKey, T!Goto, T!output, Ended
  <2>4. CASE T!BuildMsg
    <3>1. tpc = "build" /\ sent' = sent
      BY <2>4 DEF T!BuildMsg, T!Begin
    <3>2. sent = D!End(Len(frames)) /\ Len(frames) \in Nat
      BY <3>1, FrameFacts DEF PInv, Written
    <3>3. Len(frames) + 1 <= MaxKeys
      <4>1. Len(typed) \in Nat /\ ntyped \in Nat /\ ntyped <= MaxKeys
        BY LenProperties, PipelineAssumption DEF PInv, Types
      <4> QED BY <3>1, <3>2, <4>1, PipelineAssumption DEF PInv, Budget, Handling
    <3>4. D!Deserialize(T!MsgSize, FrameId)
      BY Sizes, PipelineAssumption DEF D!Deserialize
    <3>5. (Len(frames) + 1) - 1 = Len(frames) BY <3>2
    <3>6. D!NewFrame(T!MsgSize, FrameId)
      BY <2>1, <3>1, <3>2, <3>3, <3>4, <3>5
      DEF D!NewFrame, FrameBegun, driver, WriteEndClosed, Ended
    <3> QED BY <3>6 DEF D!Next, D!Environment
  <2>5. ASSUME NEW w \in 1 .. T!MsgSize, T!WriteSome(w)
        PROVE  D!Next
    <3>1. /\ w \in Nat /\ 0 < w /\ sent \in Nat /\ put \in Nat
          /\ sent' = sent + w /\ tpc = "write" /\ put + w <= T!PartBytes
      BY <2>5, WriteStep, Sizes DEF PInv, Types
    <3>2. sent + Left = D!End(Len(frames)) /\ D!End(Len(frames)) \in Nat
      BY <3>1, FrameFacts DEF PInv, Written
    <3>3. Left \in Int /\ w <= Left
      BY <3>1, Sizes DEF Left, PInv, Types
    <3>4. sent + w <= D!End(Len(frames)) /\ w \in 1 .. D!End(Len(frames))
      BY <3>1, <3>2, <3>3
    <3>5. D!WriteBytes(w)
      BY <2>1, <3>1, <3>4 DEF D!WriteBytes, driver, WriteEndClosed, Ended
    <3> QED BY <3>4, <3>5 DEF D!Next, D!Environment
  <2> QED BY <2>1, <2>2, <2>3, <2>4, <2>5, TeleopCases
<1>5. CASE Processes
  <2>1. UNCHANGED <<frames, sent, driver>>
    BY <1>5, ProcessEnds
  <2>2. CASE Ended(tproc)' = Ended(tproc)
    BY <1>1, <2>1, <2>2
  <2>3. CASE ~Ended(tproc) /\ Ended(tproc)'
    <3>1. D!CloseWrite
      BY <2>1, <2>3 DEF D!CloseWrite, driver, WriteEndClosed
    <3> QED BY <3>1 DEF D!Next, D!Environment
  <2> QED BY <1>5, <2>2, <2>3, ProcessEnds
<1>6. CASE \E c \in Keys : Key(c)
  BY <1>1, <1>6 DEF Key, T!Type, T!output, Ended
<1>7. CASE /\ tproc = "spin" /\ UNCHANGED <<tproc, dproc, frames, driver>>
           /\ T!RaiseNotif
  BY <1>1, <1>7 DEF T!RaiseNotif, T!output, Ended
<1>8. CASE /\ dproc = "spin" /\ UNCHANGED <<tproc, dproc, teleop>>
           /\ D!RaiseNotif
  BY <1>8 DEF D!Next, D!Environment
<1> QED BY <1>2, <1>3, <1>4, <1>5, <1>6, <1>7, <1>8, ProcessCases

\* Each program, crashes included, is an environment that the model of the
\* other allows: the pipeline implements both specifications, for any keys,
\* message size and capacity of the pipe.
THEOREM ProgramsFit == Spec => EachServesTheOther
<1>1. Init => T!Init /\ D!Init BY DEF Init
<1>2. PInv /\ [Next]_vars => [T!Next]_(T!vars) BY TeleopMapped
<1>3. PInv /\ [Next]_vars => [D!Next]_(D!vars) BY DriverMapped
<1> QED BY <1>1, <1>2, <1>3, Invariance, PTL
        DEF Spec, EachServesTheOther, ServesTeleop, ServesDriver, T!Spec, D!Spec

-----------------------------------------------------------------------------
(* What is proved of each program alone holds of both together: the        *)
(* theorems of the two components, read in the variables of the pipeline.  *)

TP == INSTANCE TeleopKeyboardProofs WITH
  pending <- tpending, raised <- traised, pc <- tpc, part <- tpart, late <- tlate,
  iclosed <- InputClosed, HupReadable <- FALSE, oread <- PipeRead, oclosed <- ReadEndClosed

DP == INSTANCE MBotDriverProofs WITH
  pending <- dpending, raised <- draised, pc <- dpc, part <- dpart, late <- dlate,
  wclosed <- WriteEndClosed, Sizes <- {0, T!MsgSize}, Lens <- {FrameId},
  MaxAlloc <- T!MsgSize, MaxFrames <- MaxKeys

\* The proof module of a component extends the component: its steps are
\* those of the pipeline's instance.
LEMMA SameTeleop ==
  /\ TP!Init <=> T!Init
  /\ TP!Next <=> T!Next
  /\ UNCHANGED TP!vars <=> UNCHANGED T!vars
<1>1. TP!Init <=> T!Init BY DEF TP!Init, T!Init, TP!NoKey, T!NoKey
<1>2. UNCHANGED TP!vars <=> UNCHANGED T!vars BY DEF TP!vars, T!vars
<1>3. TP!Next <=> T!Next
  BY DEF TP!Next, TP!Teleop, TP!Reader, TP!CloseInput, TP!RaiseNotif, TP!Type,
         TP!TakeOutput, TP!CloseOutput, TP!Poll, TP!Goto, TP!input, TP!output, TP!reader,
         TP!Readable, TP!IdleStop, TP!NotifReady, TP!NotReady, TP!IdleRetry, TP!ReadKey,
         TP!Meaning, TP!NoTwist, TP!ReadEOF, TP!ReadError, TP!KeyStop, TP!KeyIgnore,
         TP!Translate, TP!Normalize, TP!Upper, TP!KeySend, TP!Begin, TP!BuildMsg,
         TP!Wrote, TP!WriteSome, TP!WriteError, TP!BrokenPipe, TP!PartBytes, TP!MsgSize,
         T!Next, T!Teleop, T!Reader, T!CloseInput, T!RaiseNotif, T!Type,
         T!TakeOutput, T!CloseOutput, T!Poll, T!Goto, T!input, T!output, T!reader,
         T!Readable, T!IdleStop, T!NotifReady, T!NotReady, T!IdleRetry, T!ReadKey,
         T!Meaning, T!NoTwist, T!ReadEOF, T!ReadError, T!KeyStop, T!KeyIgnore,
         T!Translate, T!Normalize, T!Upper, T!KeySend, T!Begin, T!BuildMsg,
         T!Wrote, T!WriteSome, T!WriteError, T!BrokenPipe, T!PartBytes, T!MsgSize
<1> QED BY <1>1, <1>2, <1>3

LEMMA SameDriver ==
  /\ DP!Init <=> D!Init
  /\ DP!Next <=> D!Next
  /\ UNCHANGED DP!vars <=> UNCHANGED D!vars
<1>1. DP!Init <=> D!Init BY DEF DP!Init, D!Init
<1>2. UNCHANGED DP!vars <=> UNCHANGED D!vars BY DEF DP!vars, D!vars
<1>3. DP!Next <=> D!Next
  BY DEF DP!Next, DP!Driver, DP!Environment, DP!env, DP!TopStop, DP!TopRead, DP!ReadSome,
         DP!ReadEOF, DP!ReadError, DP!ReadAgain, DP!AgainStop, DP!AgainWait, DP!ParseSize,
         DP!Drive, DP!NewFrame, DP!WriteBytes, DP!CloseWrite, DP!RaiseNotif, DP!SendStop,
         DP!Stop, DP!NotifReady, DP!NotReady, DP!StartRead, DP!Empty, DP!SizesAt,
         DP!Payloads, DP!Decoded, DP!Deserialize, DP!Bad, DP!Garbage, DP!End, DP!EndOf,
         DP!Expected,
         D!Next, D!Driver, D!Environment, D!env, D!TopStop, D!TopRead, D!ReadSome,
         D!ReadEOF, D!ReadError, D!ReadAgain, D!AgainStop, D!AgainWait, D!ParseSize,
         D!Drive, D!NewFrame, D!WriteBytes, D!CloseWrite, D!RaiseNotif, D!SendStop,
         D!Stop, D!NotifReady, D!NotReady, D!StartRead, D!Empty, D!SizesAt,
         D!Payloads, D!Decoded, D!Deserialize, D!Bad, D!Garbage, D!End, D!EndOf,
         D!Expected
<1> QED BY <1>1, <1>2, <1>3

\* The invariants of teleop_keyboard hold in the pipeline.
THEOREM TeleopTransfers == Spec => [](TP!TypeOK /\ TP!OutputFidelity)
<1>1. TP!TeleopAssumption BY PipelineAssumption DEF TP!TeleopAssumption
<1>2. TP!Spec => [](TP!TypeOK /\ TP!OutputFidelity)
  BY <1>1, TP!TypeCorrect, TP!MessagesAreTheKeys, PTL
<1>3. Init => TP!Init BY SameTeleop DEF Init
<1>4. PInv /\ [Next]_vars => [TP!Next]_(TP!vars)
  BY SameTeleop, TeleopMapped
<1> QED BY <1>2, <1>3, <1>4, Invariance, PTL DEF Spec, TP!Spec

\* The invariants of mbot_driver hold in the pipeline.
THEOREM DriverTransfers == Spec => [](DP!TypeOK /\ DP!DriveFidelity)
<1>1. DP!DriverAssumption BY Sizes, PipelineAssumption DEF DP!DriverAssumption
<1>2. DP!Spec => [](DP!TypeOK /\ DP!DriveFidelity)
  BY <1>1, DP!TypeCorrect, DP!DrivesWhatWasSent, PTL
<1>3. Init => DP!Init BY SameDriver DEF Init
<1>4. PInv /\ [Next]_vars => [DP!Next]_(DP!vars)
  BY SameDriver, DriverMapped
<1> QED BY <1>2, <1>3, <1>4, Invariance, PTL DEF Spec, DP!Spec

-----------------------------------------------------------------------------
(* From the keys to the drives.                                            *)

\* Each message is a frame, and each frame one more command to drive.
Numbered ==
  /\ Len(frames) = Len(msgs)
  /\ \A k \in 1 .. Len(frames) : frames[k].expected = [i \in 1 .. k |-> i]

LEMMA NumberedExpected ==
  ASSUME Types, Numbered, NEW k \in 0 .. Len(frames)
  PROVE  D!Expected(k) = [i \in 1 .. k |-> i]
<1>1. CASE k = 0
  <2>1. [i \in 1 .. 0 |-> i] = <<>> OBVIOUS
  <2> QED BY <1>1, <2>1 DEF D!Expected
<1>2. CASE k # 0
  <2>1. k \in 1 .. Len(frames) BY <1>2, FrameFacts
  <2> QED BY <1>2, <2>1 DEF Numbered, D!Expected
<1> QED BY <1>1, <1>2

LEMMA NumberedStep ==
  ASSUME PInv, TP!TypeOK, Numbered, [Next]_vars
  PROVE  Numbered'
<1>1. ASSUME frames' = frames, msgs' = msgs PROVE Numbered'
  BY <1>1 DEF Numbered
<1>2. CASE TeleopSpins
  <2>1. /\ T!Teleop
        /\ frames' = IF tpc = "build" THEN Append(frames, FrameBegun) ELSE frames
    BY <1>2 DEF TeleopSpins
  <2>2. CASE T!BuildMsg
    <3>1. PICK m : tpc = "build" /\ msgs' = Append(msgs, m)
      BY <2>2 DEF T!BuildMsg, T!Begin
    <3>2. Len(msgs') = Len(msgs) + 1
      BY <3>1 DEF TP!TypeOK
    <3>3. frames' = Append(frames, FrameBegun) /\ frames \in Seq(D!Frame)
      BY <2>1, <3>1 DEF PInv, Types
    <3>4. FrameBegun.expected = [i \in 1 .. Len(frames) + 1 |-> i]
      <4>1. Len(frames) \in Nat BY FrameFacts DEF PInv
      <4>2. D!Expected(Len(frames)) = [i \in 1 .. Len(frames) |-> i]
        BY <4>1, NumberedExpected DEF PInv
      <4>3. ASSUME NEW k \in Nat
            PROVE  Append([i \in 1 .. k |-> i], k + 1) = [i \in 1 .. k + 1 |-> i]
        <5>1. [i \in 1 .. k |-> i] \in Seq(Nat) /\ Len([i \in 1 .. k |-> i]) = k
          OBVIOUS
        <5> QED BY <5>1
      <4> QED BY <4>1, <4>2, <4>3 DEF FrameBegun
    <3>5. /\ Len(frames') = Len(frames) + 1 /\ Len(frames) \in Nat
          /\ \A k \in 1 .. Len(frames) : frames'[k] = frames[k]
          /\ frames'[Len(frames) + 1] = FrameBegun
      BY <3>3, FrameBegins, FrameFacts, AppendProperties DEF PInv
    <3>6. ASSUME NEW k \in 1 .. Len(frames')
          PROVE  frames'[k].expected = [i \in 1 .. k |-> i]
      <4>1. CASE k \in 1 .. Len(frames) BY <3>5, <4>1 DEF Numbered
      <4>2. CASE k = Len(frames) + 1 BY <3>4, <3>5, <4>2
      <4> QED BY <3>5, <4>1, <4>2
    <3> QED BY <3>2, <3>5, <3>6 DEF Numbered
  <2>3. CASE Idles \/ T!ReadKey \/ \E w \in 1 .. T!MsgSize : T!WriteSome(w)
    <3>1. tpc # "build" /\ msgs' = msgs
      BY <2>3 DEF Idles, T!Poll, T!IdleStop, T!IdleRetry, T!ReadEOF, T!ReadError, T!KeyStop,
                  T!KeyIgnore, T!KeySend, T!WriteError, T!BrokenPipe, T!ReadKey, T!Goto,
                  T!WriteSome, T!Wrote
    <3> QED BY <1>1, <2>1, <3>1
  <2> QED BY <2>1, <2>2, <2>3, TeleopCases
<1>3. CASE DriverSpins
  <2>1. frames' = frames /\ msgs' = msgs
    BY <1>3, DriverStep DEF DriverSpins, teleop
  <2> QED BY <1>1, <2>1
<1>4. CASE Processes
  BY <1>1, <1>4, ProcessEnds DEF teleop
<1>5. CASE \/ \E c \in Keys : Key(c)
           \/ UNCHANGED <<tproc, dproc, frames, driver>> /\ T!RaiseNotif
  BY <1>1, <1>5 DEF Key, T!Type, T!RaiseNotif
<1>6. CASE UNCHANGED <<tproc, dproc, teleop>> /\ D!RaiseNotif
  BY <1>1, <1>6 DEF D!RaiseNotif, teleop
<1>7. CASE UNCHANGED vars
  BY <1>1, <1>7 DEF vars, teleop
<1> QED BY <1>2, <1>3, <1>4, <1>5, <1>6, <1>7, ProcessCases

LEMMA DrivesFromNumbers ==
  ASSUME PInv, TP!TypeOK, TP!OutputFidelity, DP!TypeOK, DP!DriveFidelity, Numbered
  PROVE  DrivesWhatWasTyped
<1>1. n \in Nat /\ n <= Len(frames) /\ Len(frames) \in Nat
  BY FrameFacts DEF DP!TypeOK, DP!DriveFidelity, PInv
<1>2. D!Expected(n) = [i \in 1 .. n |-> i]
  BY <1>1, NumberedExpected DEF PInv
<1>3. drives = [i \in 1 .. n |-> i] \/ drives = Append([i \in 1 .. n |-> i], D!Stop)
  BY <1>2 DEF DP!DriveFidelity, DP!Expected, D!Expected, DP!Stop, D!Stop
<1>4. Len(drives) \in {n, n + 1} /\ \A i \in 1 .. n : drives[i] = i
  <2>1. [i \in 1 .. n |-> i] \in Seq(Int) /\ Len([i \in 1 .. n |-> i]) = n
    BY <1>1
  <2>2. \A i \in 1 .. n : [j \in 1 .. n |-> j][i] = i OBVIOUS
  <2>3. D!Stop \in Int BY DEF D!Stop
  <2> HIDE DEF D!Stop
  <2> QED BY <1>1, <1>3, <2>1, <2>2, <2>3, AppendProperties
<1>5. /\ Len(msgs) = Len(frames) /\ Len(msgs) <= Len(wanted)
      /\ DOMAIN msgs = 1 .. Len(msgs)
      /\ Len(wanted) \in Nat
      /\ \A i \in 1 .. Len(msgs) : msgs[i].twist = wanted[i]
  <2>1. msgs \in Seq([seq : 0 .. SeqMod - 1, twist : TP!Twist]) /\ wanted \in Seq(TP!Twist)
    BY DEF TP!TypeOK
  <2>2. DOMAIN msgs = 1 .. Len(msgs) /\ Len(wanted) \in Nat BY <2>1, LenProperties
  <2>3. \A i \in DOMAIN msgs : msgs[i].twist = wanted[i]
    BY DEF TP!OutputFidelity
  <2> QED BY <2>2, <2>3 DEF Numbered, TP!OutputFidelity
<1> QED BY <1>1, <1>4, <1>5 DEF DrivesWhatWasTyped

\* From end to end: what MBot::drive() is given are the movements typed, each
\* once and in order, and then at most the stop, whatever is interrupted or
\* crashes and however the bytes are cut up on the way.
THEOREM TypedIsDriven == Spec => []DrivesWhatWasTyped
<1>1. Init => Numbered
  <2>1. Len(<<>>) = 0 OBVIOUS
  <2> QED BY <2>1 DEF Init, T!Init, D!Init, Numbered
<1>2. PInv /\ TP!TypeOK /\ Numbered /\ [Next]_vars => Numbered'
  BY NumberedStep
<1>3. PInv /\ TP!TypeOK /\ TP!OutputFidelity /\ DP!TypeOK /\ DP!DriveFidelity /\ Numbered
      => DrivesWhatWasTyped
  BY DrivesFromNumbers
<1> QED BY <1>1, <1>2, <1>3, Invariance, TeleopTransfers, DriverTransfers, PTL DEF Spec
=============================================================================
