-------------------------- MODULE MBotDriverProofs --------------------------
(***************************************************************************)
(* Theorems about MBotDriver, for every word size, every set of payload    *)
(* sizes and frame_id lengths, every allocation limit and every number of  *)
(* frames: the driver keeps the frame boundaries, drives the MBot with     *)
(* exactly the commands it was sent, and drives at most one command after  *)
(* the notification.                                                       *)
(***************************************************************************)
EXTENDS MBotDriver, SequenceTheorems, TLAPS

\* The frames follow each other in the stream, and only the last one can be
\* on its way.
Chain ==
  /\ \A k \in 1 .. Len(frames) :
       /\ frames[k].at = End(k - 1)
       /\ frames[k].size \in Sizes
       /\ frames[k].expected = IF Deserialize(frames[k].size, frames[k].len)
                               THEN Append(Expected(k - 1), k) ELSE Expected(k - 1)
  /\ \A j, k \in 1 .. Len(frames) : j < k => EndOf(frames[j]) <= frames[k].at
  /\ sent <= End(Len(frames))

\* A raise is never forgotten: it stays pending until spin() has returned.
RaiseRemembered == raised => pending \/ Exited

\* Between two checks of the notification at most one frame is driven.
Notified ==
  /\ RaiseRemembered
  /\ raised \/ late = 0
  /\ late <= 1
  /\ late = 1 => pc = "top" \/ Exited

\* The inductive invariant.
IInv == TypeOK /\ Chain /\ Framing /\ DriveFidelity /\ Notified

-----------------------------------------------------------------------------

\* What the type invariant says of the frames, one frame at a time.
LEMMA FrameFacts ==
  ASSUME TypeOK
  PROVE  /\ Len(frames) \in Nat /\ DOMAIN frames = 1 .. Len(frames)
         /\ \A k \in 1 .. Len(frames) :
              /\ frames[k].at \in Nat /\ frames[k].size \in Nat
              /\ frames[k].len \in Nat /\ frames[k].expected \in Seq(Nat)
              /\ EndOf(frames[k]) \in Nat
         /\ \A k \in 0 .. Len(frames) : End(k) \in Nat /\ Expected(k) \in Seq(Nat)
<1>1. frames \in Seq(Frame)
  BY DEF TypeOK
<1>2. Len(frames) \in Nat /\ DOMAIN frames = 1 .. Len(frames)
  BY <1>1, LenProperties
<1>3. ASSUME NEW k \in 1 .. Len(frames)
      PROVE  /\ frames[k].at \in Nat /\ frames[k].size \in Nat
             /\ frames[k].len \in Nat /\ frames[k].expected \in Seq(Nat)
             /\ EndOf(frames[k]) \in Nat
  <2>1. frames[k] \in Frame
    BY <1>1, ElementOfSeq
  <2>2. /\ frames[k].at \in Nat /\ frames[k].size \in Nat
        /\ frames[k].len \in Nat /\ frames[k].expected \in Seq(Nat)
    BY <2>1 DEF Frame
  <2> QED BY <2>2, DriverAssumption DEF EndOf
<1>4. <<>> \in Seq(Nat)
  BY EmptySeq
<1>5. ASSUME NEW k \in 0 .. Len(frames)
      PROVE  End(k) \in Nat /\ Expected(k) \in Seq(Nat)
  <2>1. CASE k = 0
    BY <2>1, <1>4 DEF End, Expected
  <2>2. CASE k # 0
    <3>1. k \in 1 .. Len(frames)
      BY <2>2, <1>2
    <3> QED BY <3>1, <2>2, <1>3 DEF End, Expected
  <2> QED BY <2>1, <2>2
<1> QED BY <1>2, <1>3, <1>5

\* Nothing has been sent and nothing read.
LEMMA InitInv == Init => IInv
<1> SUFFICES ASSUME Init PROVE IInv
  OBVIOUS
<1>1. TypeOK
  <2>1. frames \in Seq(Frame)
    BY EmptySeq DEF Init
  <2>2. drives \in Seq(Int)
    BY EmptySeq DEF Init
  <2> QED BY <2>1, <2>2 DEF TypeOK, Init
<1>2. Chain
  <2>1. Len(frames) = 0
    BY EmptySeq DEF Init
  <2> QED BY <2>1 DEF Chain, End, Init
<1>3. Framing
  BY DEF Framing, End, Init
<1>4. DriveFidelity
  <2>1. Len(frames) = 0
    BY EmptySeq DEF Init
  <2> QED BY <2>1 DEF DriveFidelity, Expected, Init
<1>5. Notified
  BY DEF Notified, RaiseRemembered, Init
<1> QED BY <1>1, <1>2, <1>3, <1>4, <1>5 DEF IInv

\* No two frames start at the same place, nor do their payloads.
LEMMA DistinctStarts ==
  ASSUME TypeOK, Chain,
         NEW j \in 1 .. Len(frames), NEW k \in 1 .. Len(frames),
         frames[j].at = frames[k].at
  PROVE  j = k
<1>1. ASSUME NEW a \in 1 .. Len(frames), NEW b \in 1 .. Len(frames), a < b
      PROVE  frames[a].at < frames[b].at
  <2>1. frames[a].at + Word + frames[a].size <= frames[b].at
    BY <1>1 DEF Chain, EndOf
  <2>2. frames[a].at \in Nat /\ frames[a].size \in Nat /\ frames[b].at \in Nat
    BY FrameFacts
  <2> HIDE <1>1
  <2> QED BY <2>1, <2>2, DriverAssumption
<1>2. frames[j].at \in Nat /\ frames[k].at \in Nat /\ Len(frames) \in Nat
  BY FrameFacts
<1>3. ~(j < k)
  BY <1>1, <1>2
<1>4. ~(k < j)
  BY <1>1, <1>2
<1> QED BY <1>2, <1>3, <1>4

\* Where the driver stands: the prefix it has read is that of frame n + 1,
\* because that frame has begun and no other frame starts at the same offset.
LEMMA PrefixIsNext ==
  ASSUME IInv, pc = "size"
  PROVE  /\ n + 1 \in 1 .. Len(frames)
         /\ SizesAt(base) = {frames[n + 1].size}
<1>1. /\ base = End(n) /\ got = Word /\ base + got <= sent
      /\ sent <= End(Len(frames)) /\ n <= Len(frames)
  BY DEF IInv, Framing, Chain, DriveFidelity
<1>2. /\ Len(frames) \in Nat /\ End(Len(frames)) \in Nat
      /\ DOMAIN frames = 1 .. Len(frames)
      /\ n \in Nat /\ sent \in Nat /\ base \in Nat /\ got \in Nat
  <2>1. TypeOK
    BY DEF IInv
  <2>2. /\ Len(frames) \in Nat /\ DOMAIN frames = 1 .. Len(frames)
        /\ \A k \in 0 .. Len(frames) : End(k) \in Nat
    BY <2>1, FrameFacts
  <2>3. n \in Nat /\ sent \in Nat /\ base \in Nat /\ got \in Nat
    BY <2>1 DEF TypeOK
  <2> QED BY <2>2, <2>3
<1>3. n + 1 \in 1 .. Len(frames)
  <2>1. ASSUME n = Len(frames) PROVE FALSE
    <3>1. base = End(Len(frames)) /\ Word \in Nat /\ Word # 0
      BY <1>1, <2>1, DriverAssumption
    <3>2. base + Word <= base
      BY <1>1, <1>2, <3>1
    <3> QED BY <3>1, <3>2, <1>2
  <2>2. n <= Len(frames) /\ n \in Nat /\ Len(frames) \in Nat
    BY <1>1, <1>2
  <2> HIDE <1>1, <1>2
  <2>3. n # Len(frames)
    BY <2>1
  <2> QED BY <2>2, <2>3
<1>4. frames[n + 1].at = base
  <2>1. \A k \in 1 .. Len(frames) : frames[k].at = End(k - 1)
    BY DEF IInv, Chain
  <2> DEFINE m == n + 1
  <2>2. m \in 1 .. Len(frames) /\ m - 1 = n
    BY <1>2, <1>3
  <2> HIDE DEF m
  <2>3. frames[m].at = End(n)
    BY <2>1, <2>2
  <2> QED BY <2>3, <1>1 DEF m
<1>5. {j \in DOMAIN frames : frames[j].at = base} = {n + 1}
  BY <1>2, <1>3, <1>4, DistinctStarts DEF IInv
<1> QED BY <1>2, <1>3, <1>4, <1>5 DEF SizesAt

\* The payload it has read is that of frame n + 1.
LEMMA PayloadIsNext ==
  ASSUME IInv, pc = "payload"
  PROVE  n + 1 \in 1 .. Len(frames) /\ Payloads = {n + 1}
<1>1. /\ n \in Nat /\ n < Len(frames) /\ need = frames[n + 1].size
      /\ base = End(n) + Word
  BY DEF IInv, TypeOK, Framing
<1>2. TypeOK /\ Chain
  BY DEF IInv
<1>3. Len(frames) \in Nat /\ DOMAIN frames = 1 .. Len(frames)
  BY <1>2, FrameFacts
<1>4. n + 1 \in 1 .. Len(frames)
  BY <1>1, <1>3
<1>5. frames[n + 1].at + Word = base
  <2>1. \A k \in 1 .. Len(frames) : frames[k].at = End(k - 1)
    BY <1>2 DEF Chain
  <2> DEFINE m == n + 1
  <2>2. m \in 1 .. Len(frames) /\ m - 1 = n
    BY <1>1, <1>4
  <2> HIDE DEF m
  <2>3. frames[m].at = End(n)
    BY <2>1, <2>2
  <2> QED BY <2>3, <1>1 DEF m
<1>6. ASSUME NEW j \in DOMAIN frames, frames[j].at + Word = base
      PROVE  j = n + 1
  <2>1. frames[j].at \in Nat /\ frames[n + 1].at \in Nat
    BY <1>2, <1>3, <1>4, FrameFacts
  <2>2. frames[j].at = frames[n + 1].at
    BY <2>1, <1>5, <1>6, DriverAssumption
  <2> QED BY <2>2, <1>2, <1>3, <1>4, DistinctStarts
<1> QED BY <1>1, <1>3, <1>4, <1>5, <1>6 DEF Payloads

-----------------------------------------------------------------------------

\* A step of the driver leaves the stream as it is.
LEMMA StreamUnchanged ==
  ASSUME Chain, frames' = frames, sent' = sent
  PROVE  /\ Chain'
         /\ \A k : End(k)' = End(k) /\ Expected(k)' = Expected(k)
<1>1. \A k : End(k)' = End(k) /\ Expected(k)' = Expected(k)
  BY DEF End, Expected
<1>2. Chain'
  BY DEF Chain, End, Expected, EndOf
<1> QED BY <1>1, <1>2

\* A new frame goes to the end and changes nothing before it.
LEMMA NewFrameChain ==
  ASSUME TypeOK, Chain, NEW size \in Sizes, NEW len \in Lens, NewFrame(size, len)
  PROVE  /\ frames' \in Seq(Frame) /\ Len(frames') = Len(frames) + 1
         /\ \A k \in 1 .. Len(frames) : frames'[k] = frames[k]
         /\ \A k \in 0 .. Len(frames) : End(k)' = End(k) /\ Expected(k)' = Expected(k)
         /\ Chain'
<1> DEFINE m == Len(frames) + 1
           f == [at |-> End(m - 1), size |-> size, len |-> len,
                 expected |-> IF Deserialize(size, len)
                              THEN Append(Expected(m - 1), m) ELSE Expected(m - 1)]
<1>1. /\ Len(frames) \in Nat /\ m \in Nat /\ m - 1 \in 0 .. Len(frames)
      /\ m - 1 = Len(frames)
  BY FrameFacts
<1>2. /\ frames' = Append(frames, f)
      /\ sent' = sent /\ sent = End(Len(frames))
  BY DEF NewFrame
<1>3. f \in Frame
  <2>1. End(m - 1) \in Nat /\ Expected(m - 1) \in Seq(Nat)
    BY <1>1, FrameFacts
  <2>2. Append(Expected(m - 1), m) \in Seq(Nat)
    BY <1>1, <2>1, AppendProperties
  <2>3. size \in Nat /\ len \in Nat
    BY DriverAssumption
  <2> HIDE DEF m
  <2> QED BY <2>1, <2>2, <2>3 DEF Frame
<1> HIDE DEF f
<1>4. /\ frames' \in Seq(Frame) /\ Len(frames') = Len(frames) + 1
      /\ \A k \in 1 .. Len(frames) : frames'[k] = frames[k]
      /\ frames'[m] = f
  <2>1. frames \in Seq(Frame)
    BY DEF TypeOK
  <2> QED BY <1>2, <1>3, <2>1, AppendProperties
<1>5. \A k \in 0 .. Len(frames) : End(k)' = End(k) /\ Expected(k)' = Expected(k)
  <2>1. ASSUME NEW k \in 0 .. Len(frames), k # 0
        PROVE  frames'[k] = frames[k]
    BY <1>1, <1>4, <2>1
  <2> QED BY <2>1 DEF End, Expected, EndOf
<1>6. /\ f.at = End(Len(frames)) /\ f.size = size /\ f.len = len
      /\ f.expected = IF Deserialize(size, len)
                      THEN Append(Expected(Len(frames)), m) ELSE Expected(Len(frames))
  BY <1>1 DEF f
<1>7. ASSUME NEW k \in 1 .. Len(frames')
      PROVE  /\ frames'[k].at = End(k - 1)'
             /\ frames'[k].size \in Sizes
             /\ frames'[k].expected = IF Deserialize(frames'[k].size, frames'[k].len)
                                      THEN Append(Expected(k - 1)', k)
                                      ELSE Expected(k - 1)'
  <2>1. k - 1 \in 0 .. Len(frames)
    BY <1>1, <1>4
  <2>2. End(k - 1)' = End(k - 1) /\ Expected(k - 1)' = Expected(k - 1)
    BY <1>5, <2>1
  <2>3. CASE k \in 1 .. Len(frames)
    BY <2>2, <2>3, <1>4 DEF Chain
  <2>4. CASE k = m
    <3>1. k - 1 = Len(frames)
      BY <1>1, <2>4
    <3> QED BY <2>2, <2>4, <3>1, <1>4, <1>6
  <2> QED BY <2>3, <2>4, <1>1, <1>4
<1>8. ASSUME NEW j \in 1 .. Len(frames'), NEW k \in 1 .. Len(frames'), j < k
      PROVE  EndOf(frames'[j]) <= frames'[k].at
  <2>1. j \in 1 .. Len(frames)
    BY <1>1, <1>4, <1>8
  <2>2. CASE k \in 1 .. Len(frames)
    BY <2>1, <2>2, <1>4, <1>8 DEF Chain
  <2>3. CASE k = m
    <3>1. frames'[k].at = EndOf(frames[Len(frames)])
      BY <2>1, <2>3, <1>1, <1>4, <1>6 DEF End
    <3>2. EndOf(frames[j]) <= EndOf(frames[Len(frames)])
      <4>1. CASE j = Len(frames)
        <5>1. EndOf(frames[j]) \in Nat
          BY <2>1, FrameFacts
        <5> QED BY <4>1, <5>1
      <4>2. CASE j < Len(frames)
        <5>1. Len(frames) \in 1 .. Len(frames)
          BY <2>1, <1>1
        <5>2. EndOf(frames[j]) <= frames[Len(frames)].at
          BY <2>1, <4>2, <5>1 DEF Chain
        <5>3. frames[Len(frames)].at <= EndOf(frames[Len(frames)])
          <6>1. /\ frames[Len(frames)].at \in Nat /\ frames[Len(frames)].size \in Nat
                /\ Word \in Nat
            BY <5>1, FrameFacts, DriverAssumption
          <6> HIDE DEF m
          <6> QED BY <6>1 DEF EndOf
        <5>4. /\ EndOf(frames[j]) \in Nat /\ frames[Len(frames)].at \in Nat
              /\ EndOf(frames[Len(frames)]) \in Nat
          BY <2>1, <5>1, FrameFacts
        <5> DEFINE a == EndOf(frames[j])
                   b == frames[Len(frames)].at
                   c == EndOf(frames[Len(frames)])
        <5>5. a <= b /\ b <= c /\ a \in Nat /\ b \in Nat /\ c \in Nat
          BY <5>2, <5>3, <5>4
        <5> HIDE DEF a, b, c
        <5>6. a <= c
          BY <5>5
        <5> QED BY <5>6 DEF a, c
      <4>3. j = Len(frames) \/ j < Len(frames)
        <5>1. \A a \in Nat : \A b \in 1 .. a : b = a \/ b < a
          OBVIOUS
        <5> QED BY <5>1, <2>1, <1>1, Zenon
      <4> QED BY <4>1, <4>2, <4>3
    <3> QED BY <2>1, <1>4, <3>1, <3>2
  <2> QED BY <2>2, <2>3, <1>1, <1>4
<1>9. sent' <= End(Len(frames))'
  <2>1. End(Len(frames))' = EndOf(f)
    <3>1. Len(frames') # 0 /\ Len(frames') = m
      BY <1>1, <1>4
    <3>2. frames'[Len(frames')] = f
      BY <3>1, <1>4
    <3> HIDE DEF m
    <3> QED BY <3>1, <3>2 DEF End, EndOf
  <2>2. EndOf(f) = End(Len(frames)) + Word + size
    BY <1>6 DEF EndOf
  <2>3. End(Len(frames)) \in Nat /\ size \in Nat
    BY <1>1, FrameFacts, DriverAssumption
  <2>4. sent' = End(Len(frames)) /\ End(Len(frames))' = End(Len(frames)) + Word + size
    BY <1>2, <2>1, <2>2
  <2> HIDE <1>2, <2>1, <2>2 
  <2> DEFINE e == End(Len(frames))
  <2>5. e <= e + Word + size
    <3>1. e \in Nat /\ size \in Nat /\ Word \in Nat
      BY <2>3, DriverAssumption
    <3> HIDE DEF e
    <3> QED BY <3>1
  <2> QED BY <2>4, <2>5
<1> QED BY <1>4, <1>5, <1>7, <1>8, <1>9 DEF Chain

-----------------------------------------------------------------------------

\* A step of the driver that takes no frame and drives nothing: what is left
\* to show is where read_exact() stands afterwards.
LEMMA QuietStep ==
  ASSUME IInv, UNCHANGED <<env, drives, n, late>>,
         pc # "done" /\ pc # "aborted" /\ pc' # "done",
         pc' \in {"top", "read", "again", "size", "payload", "aborted"},
         pc' # "aborted" => UNCHANGED pending,
         pending' \in BOOLEAN, part' \in {"size", "payload"},
         base' \in Nat, got' \in Nat, need' \in Nat,
         late = 1 => pc' = "aborted",
         Framing'
  PROVE  IInv'
<1>1. TypeOK'
  BY DEF IInv, TypeOK, env
<1>2. Chain'
  BY StreamUnchanged DEF IInv, env
<1>3. DriveFidelity'
  <2>1. Expected(n)' = Expected(n)
    BY DEF env, Expected
  <2> QED BY <2>1 DEF IInv, DriveFidelity, env
<1>4. Notified'
  BY DEF IInv, Notified, RaiseRemembered, Exited, TypeOK, env
<1> QED BY <1>1, <1>2, <1>3, <1>4 DEF IInv

\* Every way out of spin() stops the MBot.
LEMMA StopStep ==
  ASSUME IInv, SendStop, pc # "done" /\ pc # "aborted", pending' \in BOOLEAN
  PROVE  IInv'
<1> USE DEF SendStop
<1>1. TypeOK'
  <2>1. drives' \in Seq(Int)
    BY AppendProperties DEF IInv, TypeOK, Stop
  <2> QED BY <2>1 DEF IInv, TypeOK, env
<1>2. Chain'
  BY StreamUnchanged DEF IInv, env
<1>3. Framing'
  BY DEF IInv, Framing, env
<1>4. DriveFidelity'
  <2>1. Expected(n)' = Expected(n)
    BY DEF env, Expected
  <2> QED BY <2>1 DEF IInv, DriveFidelity, env
<1>5. Notified'
  BY DEF IInv, Notified, RaiseRemembered, Exited, env
<1> QED BY <1>1, <1>2, <1>3, <1>4, <1>5 DEF IInv

\* The steps of read_exact() and the choice of what to read next.
LEMMA ReadInv ==
  ASSUME IInv,
         \/ TopRead \/ (\E r \in 1 .. need : ReadSome(r)) \/ ReadAgain
         \/ AgainWait \/ ParseSize
  PROVE  IInv'
<1> USE DriverAssumption
<1>0. /\ base \in Nat /\ got \in Nat /\ need \in Nat /\ n \in Nat /\ sent \in Nat
      /\ pending \in BOOLEAN /\ part \in {"size", "payload"} /\ Word \in Nat /\ Word # 0
  BY DEF IInv, TypeOK
<1>1. CASE TopRead
  <2>1. Framing'
    <3>1. End(n)' = End(n)
      BY <1>1 DEF TopRead, env, End
    <3> QED BY <1>0, <1>1, <3>1 DEF IInv, Framing, TopRead, StartRead, env
  <2>2. late # 1
    BY <1>1 DEF IInv, Notified, RaiseRemembered, Exited, TopRead, NotReady
  <2> QED BY <1>0, <1>1, <2>1, <2>2, QuietStep DEF TopRead, NotReady, StartRead
<1>2. ASSUME NEW r \in 1 .. need, ReadSome(r) PROVE IInv'
  <2>1. Framing'
    <3>1. End(n)' = End(n)
      BY <1>2 DEF ReadSome, env, End
    <3> QED BY <1>0, <1>2, <3>1 DEF IInv, Framing, ReadSome, env
  <2>2. late # 1
    BY <1>2 DEF IInv, Notified, Exited, ReadSome
  <2> QED BY <1>0, <1>2, <2>1, <2>2, QuietStep DEF ReadSome
<1>3. CASE ReadAgain
  <2>1. Framing'
    <3>1. End(n)' = End(n)
      BY <1>3 DEF ReadAgain, env, End
    <3> QED BY <1>0, <1>3, <3>1 DEF IInv, Framing, ReadAgain, env
  <2>2. late # 1
    BY <1>3 DEF IInv, Notified, Exited, ReadAgain
  <2> QED BY <1>0, <1>3, <2>1, <2>2, QuietStep DEF ReadAgain
<1>4. CASE AgainWait
  <2>1. Framing'
    <3>1. End(n)' = End(n)
      BY <1>4 DEF AgainWait, env, End
    <3> QED BY <1>0, <1>4, <3>1 DEF IInv, Framing, AgainWait, env
  <2>2. late # 1
    BY <1>4 DEF IInv, Notified, Exited, AgainWait
  <2> QED BY <1>0, <1>4, <2>1, <2>2, QuietStep DEF AgainWait, NotReady
<1>5. CASE ParseSize
  <2>1. n + 1 \in 1 .. Len(frames) /\ SizesAt(base) = {frames[n + 1].size}
    BY <1>5, PrefixIsNext DEF ParseSize
  <2>2. frames[n + 1].size \in Nat /\ Len(frames) \in Nat
    BY <2>1, FrameFacts DEF IInv
  <2>3. End(n)' = End(n)
    BY <1>5 DEF ParseSize, env, End
  <2>4. part = "size" /\ base = End(n) /\ got = Word
    BY <1>5 DEF ParseSize, IInv, Framing
  <2>5. late # 1
    BY <1>5 DEF IInv, Notified, Exited, ParseSize
  <2>6. CASE StartRead("payload", frames[n + 1].size)
    <3>1. Framing'
      BY <1>0, <1>5, <2>1, <2>2, <2>3, <2>4, <2>6 DEF IInv, Framing, ParseSize, StartRead, env
    <3> QED BY <1>0, <1>5, <2>2, <2>5, <2>6, <3>1, QuietStep DEF ParseSize, StartRead
  <2>7. CASE pc' = "aborted" /\ UNCHANGED <<part, base, got, need>>
    <3>1. Framing'
      BY <1>0, <1>5, <2>7 DEF IInv, Framing, ParseSize, env
    <3> QED BY <1>0, <1>5, <2>7, <3>1, QuietStep DEF ParseSize
  <2> QED BY <1>5, <2>1, <2>6, <2>7 DEF ParseSize
<1> QED BY <1>1, <1>2, <1>3, <1>4, <1>5

\* The payload of frame n + 1 has been read: it is driven if it decodes.
LEMMA DriveInv ==
  ASSUME IInv, Drive
  PROVE  IInv'
<1> USE DEF Drive
<1>1. n + 1 \in 1 .. Len(frames) /\ Payloads = {n + 1}
  BY PayloadIsNext
<1>2. /\ n \in Nat /\ late \in Nat /\ drives \in Seq(Int)
      /\ base \in Nat /\ got \in Nat /\ need \in Nat /\ Len(frames) \in Nat
      /\ drives = Expected(n)
  BY FrameFacts DEF IInv, TypeOK, DriveFidelity
<1> DEFINE f == frames[n + 1]
<1>3. /\ Expected(n + 1) = f.expected /\ End(n + 1) = EndOf(f)
      /\ f.at = End(n)
      /\ f.expected = IF Deserialize(f.size, f.len)
                      THEN Append(Expected(n), n + 1) ELSE Expected(n)
  <2> DEFINE m == n + 1
  <2>1. m # 0 /\ m - 1 = n /\ m \in 1 .. Len(frames)
    BY <1>1, <1>2
  <2>2. \A k \in 1 .. Len(frames) :
          /\ frames[k].at = End(k - 1)
          /\ frames[k].expected = IF Deserialize(frames[k].size, frames[k].len)
                                  THEN Append(Expected(k - 1), k) ELSE Expected(k - 1)
    BY DEF IInv, Chain
  <2> HIDE DEF m
  <2>3. /\ frames[m].at = End(n)
        /\ frames[m].expected = IF Deserialize(frames[m].size, frames[m].len)
                                THEN Append(Expected(n), m) ELSE Expected(n)
    BY <2>1, <2>2
  <2>4. Expected(m) = frames[m].expected /\ End(m) = EndOf(frames[m])
    BY <2>1 DEF End, Expected
  <2> QED BY <2>3, <2>4 DEF m
<1>4. /\ drives' = Expected(n + 1)
      /\ late' = late \/ (raised /\ late' = late + 1)
  <2>1. Decoded = {IF Deserialize(f.size, f.len) THEN n + 1 ELSE Bad}
    BY <1>1 DEF Decoded
  <2>2. n + 1 # Bad
    BY <1>2 DEF Bad
  <2>3. CASE Deserialize(f.size, f.len)
    BY <1>2, <1>3, <2>1, <2>2, <2>3
  <2>4. CASE ~Deserialize(f.size, f.len)
    BY <1>2, <1>3, <2>1, <2>4
  <2> QED BY <2>3, <2>4
<1>5. TypeOK'
  <2>1. drives' \in Seq(Int)
    <3>1. Expected(n + 1) \in Seq(Nat)
      BY <1>1, <1>2, FrameFacts DEF IInv
    <3> QED BY <1>4, <3>1, SeqMonotonic
  <2>2. late' \in Nat
    BY <1>2, <1>4
  <2> QED BY <1>2, <2>1, <2>2 DEF IInv, TypeOK, env
<1>6. Chain'
  BY StreamUnchanged DEF IInv, env
<1>7. End(n)' = End(n + 1) /\ Expected(n)' = Expected(n + 1)
  BY DEF End, Expected, EndOf, env
<1>8. Framing'
  <2>1. part = "payload" /\ got = need /\ base = End(n) + Word /\ need = f.size
        /\ base + got <= sent
    BY DEF IInv, Framing
  <2>2. base + got = End(n + 1)
    <3>1. End(n + 1) = End(n) + Word + f.size
      BY <1>3 DEF EndOf
    <3> QED BY <2>1, <3>1
  <2> QED BY <1>2, <1>7, <2>1, <2>2 DEF Framing, env
<1>9. DriveFidelity'
  BY <1>1, <1>2, <1>4, <1>7 DEF DriveFidelity, env
<1>10. Notified'
  <2>1. late = 0
    BY <1>2 DEF IInv, Notified, Exited
  <2> QED BY <1>4, <2>1 DEF IInv, Notified, RaiseRemembered, Exited, env
<1> QED BY <1>5, <1>6, <1>8, <1>9, <1>10 DEF IInv

\* Every step of spin() preserves the invariant.
LEMMA DriverInv == ASSUME IInv, Driver PROVE IInv'
<1>1. CASE TopStop
  BY <1>1, StopStep DEF TopStop, NotifReady
<1>2. CASE ReadEOF
  BY <1>2, StopStep DEF ReadEOF, IInv, TypeOK
<1>3. CASE ReadError
  BY <1>3, StopStep DEF ReadError, IInv, TypeOK
<1>4. CASE AgainStop
  BY <1>4, StopStep DEF AgainStop, NotifReady
<1>5. CASE Drive
  BY <1>5, DriveInv
<1> QED BY <1>1, <1>2, <1>3, <1>4, <1>5, ReadInv DEF Driver

\* So does whatever the writer and the signal do meanwhile.
LEMMA EnvironmentInv == ASSUME IInv, Environment PROVE IInv'
<1>0. n \in 0 .. Len(frames) /\ n \in Nat /\ Len(frames) \in Nat /\ sent \in Nat
  BY FrameFacts DEF IInv, TypeOK, DriveFidelity
<1>1. ASSUME NEW size \in Sizes, NEW len \in Lens, NewFrame(size, len)
      PROVE  IInv'
  <2>1. /\ frames' \in Seq(Frame) /\ Len(frames') = Len(frames) + 1
        /\ \A k \in 1 .. Len(frames) : frames'[k] = frames[k]
        /\ \A k \in 0 .. Len(frames) : End(k)' = End(k) /\ Expected(k)' = Expected(k)
        /\ Chain'
    BY <1>1, NewFrameChain DEF IInv
  <2>2. End(n)' = End(n) /\ Expected(n)' = Expected(n)
    <3>1. n' = n
      BY <1>1 DEF NewFrame
    <3>2. n # 0 => frames'[n] = frames[n]
      BY <1>0, <2>1
    <3> QED BY <3>1, <3>2 DEF End, Expected, EndOf
  <2>3. TypeOK'
    BY <1>1, <2>1 DEF IInv, TypeOK, NewFrame
  <2>4. Framing'
    <3>1. n < Len(frames) => n < Len(frames') /\ frames'[n + 1] = frames[n + 1]
      BY <1>0, <2>1
    <3> QED BY <1>1, <2>2, <3>1 DEF IInv, Framing, NewFrame
  <2>5. DriveFidelity'
    <3>1. n' <= Len(frames') /\ pc' = pc /\ drives' = drives
      BY <1>0, <1>1, <2>1 DEF NewFrame
    <3> QED BY <2>2, <3>1 DEF IInv, DriveFidelity
  <2>6. Notified'
    BY <1>1 DEF IInv, Notified, RaiseRemembered, Exited, NewFrame
  <2> QED BY <2>1, <2>3, <2>4, <2>5, <2>6 DEF IInv
<1>2. ASSUME NEW m \in 1 .. End(Len(frames)), WriteBytes(m) PROVE IInv'
  <2>1. End(n)' = End(n) /\ Expected(n)' = Expected(n)
        /\ End(Len(frames))' = End(Len(frames))
    BY <1>2 DEF WriteBytes, End, Expected, EndOf
  <2>2. m \in Nat
    BY <1>0, FrameFacts DEF IInv
  <2>3. TypeOK'
    BY <1>0, <1>2, <2>2 DEF IInv, TypeOK, WriteBytes
  <2>4. Chain'
    BY <1>2, <2>1 DEF IInv, Chain, WriteBytes, End, Expected, EndOf
  <2>5. Framing'
    <3>1. base + got <= sent'
      <4>1. base + got <= sent /\ base \in Nat /\ got \in Nat
        BY DEF IInv, Framing, TypeOK
      <4> QED BY <1>0, <1>2, <2>2, <4>1 DEF WriteBytes
    <3> QED BY <1>2, <2>1, <3>1 DEF IInv, Framing, WriteBytes
  <2>6. DriveFidelity'
    BY <1>2, <2>1 DEF IInv, DriveFidelity, WriteBytes
  <2>7. Notified'
    BY <1>2 DEF IInv, Notified, RaiseRemembered, Exited, WriteBytes
  <2> QED BY <2>3, <2>4, <2>5, <2>6, <2>7 DEF IInv
<1>3. CASE CloseWrite \/ RaiseNotif
  <2>1. /\ frames' = frames /\ sent' = sent
        /\ UNCHANGED <<pc, part, base, got, need, drives, n, late>>
        /\ wclosed' \in BOOLEAN
    BY <1>3 DEF CloseWrite, RaiseNotif, IInv, TypeOK
  <2>2. End(n)' = End(n) /\ Expected(n)' = Expected(n)
    BY <2>1 DEF End, Expected, EndOf
  <2>3. TypeOK'
    BY <1>3, <2>1 DEF IInv, TypeOK, CloseWrite, RaiseNotif
  <2>4. Chain'
    BY <2>1, StreamUnchanged DEF IInv
  <2>5. Framing'
    BY <2>1, <2>2 DEF IInv, Framing
  <2>6. DriveFidelity'
    BY <2>1, <2>2 DEF IInv, DriveFidelity
  <2>7. Notified'
    BY <1>3, <2>1 DEF IInv, Notified, RaiseRemembered, Exited, CloseWrite, RaiseNotif
  <2> QED BY <2>3, <2>4, <2>5, <2>6, <2>7 DEF IInv
<1> QED BY <1>1, <1>2, <1>3 DEF Environment

\* Every reachable state satisfies the inductive invariant.
THEOREM Invariance == Spec => []IInv
<1>1. IInv /\ UNCHANGED vars => IInv'
  <2> SUFFICES ASSUME IInv, UNCHANGED vars PROVE IInv'
    OBVIOUS
  <2>1. End(n)' = End(n) /\ Expected(n)' = Expected(n)
    BY DEF vars, End, Expected, EndOf
  <2>2. Chain'
    BY StreamUnchanged DEF vars, IInv
  <2>3. TypeOK' /\ Framing' /\ DriveFidelity' /\ Notified'
    BY <2>1 DEF vars, IInv, TypeOK, Framing, DriveFidelity, Notified, RaiseRemembered,
       Exited
  <2> QED BY <2>2, <2>3 DEF IInv
<1>2. IInv /\ [Next]_vars => IInv'
  BY <1>1, DriverInv, EnvironmentInv DEF Next
<1> QED BY <1>2, InitInv, PTL DEF Spec

\* spin() and its environment only reach states of the declared types.
THEOREM TypeCorrect == Spec => []TypeOK
<1>1. IInv => TypeOK
  BY DEF IInv
<1> QED BY <1>1, Invariance, PTL

\* However the bytes arrive, read_exact() and spin() stay at the boundaries
\* of the frames that were sent.
THEOREM KeepsFraming == Spec => []Framing
<1>1. IInv => Framing
  BY DEF IInv
<1> QED BY <1>1, Invariance, PTL

\* The MBot is driven with the commands of the frames that decode, in order
\* and each once, and stopped when spin() returns.
THEOREM DrivesWhatWasSent == Spec => []DriveFidelity
<1>1. IInv => DriveFidelity
  BY DEF IInv
<1> QED BY <1>1, Invariance, PTL

\* At most one more command is driven after the notification is raised.
THEOREM AtMostOneAfterRaise == Spec => []OneAfterRaise
<1>1. IInv => OneAfterRaise
  BY DEF IInv, Notified, OneAfterRaise
<1> QED BY <1>1, Invariance, PTL
=============================================================================
