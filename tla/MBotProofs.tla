----------------------------- MODULE MBotProofs -----------------------------
(***************************************************************************)
(* The packets of MBot's two threads do not mix and a command is lost only *)
(* through a failed or cut write, for any packet length and any commands.  *)
(***************************************************************************)
EXTENDS MBot, TLAPS

\* The mutex is held exactly around a write.
Mutex == \A t \in Threads : mtx = t <=> pc[t] \in {"write", "unlock"}

\* What the line ends with agrees with what the writer has written.
LineOK ==
  /\ line = Idle \/ (line.n > 0 /\ line.by \in Threads)
  /\ Unmixed
  /\ cut => line # Idle
  /\ \A t \in Threads : pc[t] = "write" /\ put[t] > 0 =>
       /\ ~cut
       /\ put[t] < PacketLen => line.by = t /\ line.n = put[t]
       /\ put[t] = PacketLen => line = Idle

\* The command under way is one the robot will recognise, or is hurt.
CommandOK ==
  /\ pc[Main] \in {"new", "ready", "unlock"} => hurt \/ robot = given
  /\ pc[Main] = "write" /\ ~hurt =>
       /\ put[Main] = 0 => line = Idle
       /\ put[Main] \in 1 .. PacketLen - 1 => line.clean
       /\ put[Main] = PacketLen => robot = given

ThreadOK ==
  /\ pc[Main] = "new" => pc[Sync] = "none"
  /\ pc[Main] = "gone" => pc[Sync] \in {"none", "ended"}

IInv == TypeOK /\ Mutex /\ LineOK /\ CommandOK /\ ThreadOK

LEMMA Names == /\ Main \in Threads /\ Sync \in Threads /\ Main # Sync
               /\ NoOne \notin Threads /\ Idle.by = NoOne /\ Idle.n = 0 /\ Idle.clean = TRUE
               /\ \A t \in Threads : t = Main \/ t = Sync
  <1>1. Main \in Threads /\ Sync \in Threads /\ \A t \in Threads : t = Main \/ t = Sync
    BY DEF Threads
  <1>2. Main # Sync /\ NoOne # Main /\ NoOne # Sync BY DEF Main, Sync, NoOne
  <1>3. Idle.by = NoOne /\ Idle.n = 0 /\ Idle.clean = TRUE BY DEF Idle
  <1> QED BY <1>1, <1>2, <1>3

LEMMA InitInv == Init => IInv
  <1> SUFFICES ASSUME Init PROVE IInv OBVIOUS
  <1> USE MBotAssumption, CmdsAssumption, Names DEF Init
  <1>1. TypeOK
    <2>1. line \in [by : Threads \cup {NoOne}, n : 0 .. PacketLen - 1, clean : BOOLEAN]
      BY DEF Idle
    <2>2. "new" \in MainPC /\ "none" \in SyncPC BY DEF MainPC, SyncPC
    <2>3. pc \in [Threads -> MainPC \cup SyncPC] BY <2>2
    <2>4. pc[Main] \in MainPC /\ pc[Sync] \in SyncPC BY <2>2
    <2>5. put \in [Threads -> 0 .. PacketLen] OBVIOUS
    <2> QED BY <2>1, <2>3, <2>4, <2>5 DEF TypeOK
  <1>2. Mutex BY DEF Mutex
  <1>3. LineOK BY DEF LineOK, Unmixed
  <1>4. CommandOK BY DEF CommandOK
  <1>5. ThreadOK BY DEF ThreadOK
  <1> QED BY <1>1, <1>2, <1>3, <1>4, <1>5 DEF IInv

\* The steps that leave the line, the mutex and what is written alone, and
\* no thread at or on its way to a write.
Quiet == OpenFails \/ SetupFails \/ Start \/ Join \/ SyncCheck \/ WakeSync \/ Destroy
         \/ (\E c \in Cmds : Drive(c))

LEMMA QuietStep == ASSUME IInv, Quiet PROVE IInv'
  <1> USE Names DEF IInv, port_, Go
  <1>a. UNCHANGED <<mtx, put, line, cut, hurt, robot, status>>
    BY DEF Quiet, OpenFails, SetupFails, Start, Join, SyncCheck, WakeSync, Destroy, Drive
  <1>b. pc \in [Threads -> MainPC \cup SyncPC] BY DEF TypeOK
  <1>c. ASSUME Start PROVE pc' \in [Threads -> MainPC \cup SyncPC]
    BY <1>b, <1>c DEF Start, MainPC, SyncPC
  <1>d. ASSUME NEW t \in Threads, NEW l \in MainPC \cup SyncPC, Go(t, l)
        PROVE  pc' \in [Threads -> MainPC \cup SyncPC]
    BY <1>b, <1>d
  <1>e. {"ready", "join", "gone", "lock", "check", "ended"} \subseteq MainPC \cup SyncPC
    BY DEF MainPC, SyncPC
  <1>f. pc' \in [Threads -> MainPC \cup SyncPC]
    BY <1>c, <1>d, <1>e DEF Quiet, OpenFails, SetupFails, Join, SyncCheck, WakeSync, Destroy, Drive
  <1>0. /\ UNCHANGED <<mtx, put, line, cut>>
        /\ hurt' = hurt /\ robot' = robot /\ status' = status
        /\ pc' \in [Threads -> MainPC \cup SyncPC]
    BY <1>a, <1>f
  <1>1. \A t \in Threads : pc'[t] \in {"write", "unlock"} <=> pc[t] \in {"write", "unlock"}
    BY <1>b DEF Quiet, OpenFails, SetupFails, Start, Join, SyncCheck, WakeSync, Destroy, Drive, ThreadOK
  <1>2. \A t \in Threads : pc'[t] = "write" <=> pc[t] = "write"
    BY <1>b DEF Quiet, OpenFails, SetupFails, Start, Join, SyncCheck, WakeSync, Destroy, Drive, ThreadOK
  <1>3. TypeOK'
    <2>1. pc'[Main] \in MainPC /\ pc'[Sync] \in SyncPC
      BY DEF Quiet, OpenFails, SetupFails, Start, Join, SyncCheck, WakeSync, Destroy, Drive,
             TypeOK, MainPC, SyncPC
    <2>2. port' \in {"unopened", "open", "dead", "gone"} /\ stop' \in BOOLEAN
      BY DEF Quiet, OpenFails, SetupFails, Start, Join, SyncCheck, WakeSync, Destroy, Drive, TypeOK
    <2>3. given' \in Cmds \cup {NoCmd}
      BY DEF Quiet, OpenFails, SetupFails, Start, Join, SyncCheck, WakeSync, Destroy, Drive, TypeOK
    <2> QED BY <1>0, <2>1, <2>2, <2>3 DEF TypeOK
  <1>4. Mutex' BY <1>0, <1>1 DEF Mutex
  <1>5. LineOK'
    <2>1. Unmixed' BY <1>0, <1>2 DEF LineOK, Unmixed, TypeOK
    <2> QED BY <1>0, <1>2, <2>1 DEF LineOK
  <1>6. CommandOK'
    <2>1. CASE \E c \in Cmds : Drive(c)
      BY <1>0, <1>2, <2>1 DEF Drive, CommandOK, TypeOK
    <2>2. CASE ~ \E c \in Cmds : Drive(c)
      <3>1. given' = given
        BY <2>2 DEF Quiet, OpenFails, SetupFails, Start, Join, SyncCheck, WakeSync, Destroy
      <3>2. pc'[Main] \in {"new", "ready", "unlock"} => pc[Main] \in {"new", "ready", "unlock"}
        BY <2>2 DEF Quiet, OpenFails, SetupFails, Start, Join, SyncCheck, WakeSync, Destroy, TypeOK
      <3> QED BY <1>0, <1>2, <3>1, <3>2 DEF CommandOK
    <2> QED BY <2>1, <2>2
  <1>7. ThreadOK'
    BY DEF Quiet, OpenFails, SetupFails, Start, Join, SyncCheck, WakeSync, Destroy, Drive,
           TypeOK, ThreadOK
  <1> QED BY <1>3, <1>4, <1>5, <1>6, <1>7

-----------------------------------------------------------------------------
(* The steps around a write.                                               *)

LEMMA LockStep == ASSUME IInv, NEW t \in Threads, Lock(t) PROVE IInv'
  <1> USE Names, MBotAssumption DEF IInv, Lock, Locked, Go
  <1>1. /\ mtx = NoOne /\ mtx' = t /\ pc[t] = "lock"
        /\ pc' = [pc EXCEPT ![t] = "write"] /\ put' = [put EXCEPT ![t] = 0]
        /\ UNCHANGED <<port, stop, line, cut, given, robot>>
    OBVIOUS
  <1>2. \A u \in Threads : pc[u] \notin {"write", "unlock"} BY <1>1 DEF Mutex
  <1>3. pc'[t] = "write" /\ put'[t] = 0 /\ \A u \in Threads : u # t => pc'[u] = pc[u]
    BY <1>1 DEF TypeOK
  <1>4. TypeOK'
    <2>1. "write" \in MainPC /\ "write" \in SyncPC BY DEF MainPC, SyncPC
    <2>2. pc' \in [Threads -> MainPC \cup SyncPC] BY <1>1, <2>1 DEF TypeOK
    <2>3. pc'[Main] \in MainPC /\ pc'[Sync] \in SyncPC BY <1>3, <2>1 DEF TypeOK
    <2>4. put' \in [Threads -> 0 .. PacketLen] BY <1>1 DEF TypeOK
    <2>5. hurt' \in BOOLEAN /\ status' \in BOOLEAN BY DEF TypeOK
    <2> QED BY <1>1, <2>2, <2>3, <2>4, <2>5 DEF TypeOK
  <1>5. Mutex' BY <1>1, <1>2, <1>3 DEF Mutex
  <1>6. line = Idle \/ cut BY <1>1, <1>2 DEF LineOK, Unmixed
  <1>7. LineOK' BY <1>1, <1>2, <1>3, <1>6 DEF LineOK, Unmixed
  <1>8. CommandOK'
    <2>1. CASE t = Main
      <3>1. hurt' = cut BY <2>1
      <3> QED BY <1>1, <1>3, <1>6, <2>1, <3>1 DEF CommandOK
    <2>2. CASE t = Sync
      <3>1. hurt' = hurt /\ pc'[Main] = pc[Main] BY <1>3, <2>2
      <3> QED BY <1>1, <1>2, <3>1 DEF CommandOK
    <2> QED BY <2>1, <2>2
  <1>9. ThreadOK' BY <1>1, <1>3 DEF ThreadOK
  <1> QED BY <1>4, <1>5, <1>7, <1>8, <1>9

LEMMA WriteByteStep == ASSUME IInv, NEW t \in Threads, WriteByte(t) PROVE IInv'
  <1> USE Names, MBotAssumption DEF IInv
  <1> DEFINE clean == IF put[t] = 0 THEN line = Idle
                      ELSE line = [by |-> t, n |-> put[t], clean |-> TRUE]
             whole == put[t] + 1 = PacketLen
             next == [by |-> t, n |-> put[t] + 1, clean |-> clean]
  <1>1. /\ pc[t] = "write" /\ put[t] < PacketLen /\ put' = [put EXCEPT ![t] = @ + 1]
        /\ line' = (IF whole THEN Idle ELSE next) /\ cut' = FALSE
        /\ robot' \in (IF whole /\ t = Main THEN {given} ELSE {robot})
                      \cup (IF clean THEN {} ELSE {robot})
        /\ UNCHANGED <<port, pc, mtx, stop, status, given, hurt>>
    BY Zenon DEF WriteByte, Take
  <1>2. put[t] \in 0 .. PacketLen - 1 /\ put'[t] = put[t] + 1 /\ mtx = t
    BY <1>1 DEF TypeOK, Mutex
  <1>3. next.by = t /\ next.n = put[t] + 1 /\ next.clean = clean /\ next # Idle
    BY <1>2 DEF Idle
  <1>4. \A u \in Threads : u # t => pc[u] # "write" BY <1>2 DEF Mutex
  <1>5. TypeOK'
    <2>1. put' \in [Threads -> 0 .. PacketLen] BY <1>1, <1>2 DEF TypeOK
    <2>2. clean \in BOOLEAN OBVIOUS
    <2>3. Idle \in [by : Threads \cup {NoOne}, n : 0 .. PacketLen - 1, clean : BOOLEAN]
      BY DEF Idle
    <2>4. ~whole => next \in [by : Threads \cup {NoOne}, n : 0 .. PacketLen - 1, clean : BOOLEAN]
      BY <1>2, <2>2
    <2>5. line' \in [by : Threads \cup {NoOne}, n : 0 .. PacketLen - 1, clean : BOOLEAN]
      BY <1>1, <2>3, <2>4
    <2>6. robot' \in Cmds \cup {NoCmd} BY <1>1 DEF TypeOK
    <2> QED BY <1>1, <2>1, <2>5, <2>6 DEF TypeOK
  <1>6. Mutex' BY <1>1 DEF Mutex
  <1>7. whole => line' = Idle BY <1>1
  <1>8. ~whole => line' # Idle /\ line'.by = t /\ line'.n = put'[t] /\ line'.clean = clean
    BY <1>1, <1>2, <1>3
  <1> HIDE DEF whole, next
  <1>9. LineOK'
    <2>1. whole <=> put'[t] = PacketLen BY <1>2 DEF whole
    <2>2. Unmixed' BY <1>1, <1>2, <1>7, <1>8 DEF Unmixed
    <2>3. \A u \in Threads : pc'[u] = "write" => u = t BY <1>1, <1>4
    <2> QED BY <1>1, <1>2, <1>7, <1>8, <2>1, <2>2, <2>3 DEF LineOK
  <1>10. CommandOK'
    <2>1. CASE t = Main
      <3>1. ASSUME ~hurt PROVE clean
        <4>1. CASE put[t] = 0 BY <1>1, <2>1, <3>1, <4>1 DEF CommandOK
        <4>2. CASE put[t] > 0
          <5>1. line.by = t /\ line.n = put[t] /\ line.clean
            BY <1>1, <1>2, <2>1, <3>1, <4>2 DEF CommandOK, LineOK
          <5>2. line = [by |-> line.by, n |-> line.n, clean |-> line.clean] /\ line.clean \in BOOLEAN
            BY DEF TypeOK
          <5>3. line = [by |-> t, n |-> put[t], clean |-> TRUE] BY <5>1, <5>2
          <5> QED BY <1>2, <4>2, <5>3
        <4> QED BY <1>2, <4>1, <4>2
      <3>2. ~hurt /\ whole => robot' = given BY <1>1, <2>1, <3>1
      <3> HIDE DEF clean
      <3>3. ~hurt /\ ~whole => line'.clean BY <1>8, <3>1
      <3>4. whole <=> put'[t] = PacketLen BY <1>2 DEF whole
      <3> QED BY <1>1, <1>2, <2>1, <3>2, <3>3, <3>4 DEF CommandOK
    <2>2. CASE t = Sync
      <3>1. robot' = robot BY <1>1, <2>2
      <3>2. pc[Main] # "write" BY <1>4, <2>2
      <3> QED BY <1>1, <3>1, <3>2 DEF CommandOK
    <2> QED BY <2>1, <2>2
  <1>11. ThreadOK' BY <1>1 DEF ThreadOK
  <1> QED BY <1>5, <1>6, <1>9, <1>10, <1>11

LEMMA WriteReturnsStep == ASSUME IInv, NEW t \in Threads, WriteReturns(t) PROVE IInv'
  <1> USE Names, MBotAssumption DEF IInv
  <1>1. /\ pc[t] = "write" /\ pc' = [pc EXCEPT ![t] = "unlock"]
        /\ UNCHANGED <<port, mtx, stop, put, line, given, robot>>
        /\ \/ put[t] = PacketLen /\ UNCHANGED <<cut, hurt, status>>
           \/ /\ put[t] < PacketLen
              /\ cut' = (cut \/ put[t] > 0)
              /\ hurt' = (hurt \/ t = Main)
              /\ status' = (status \/ (t = Sync /\ put[t] = 0))
    BY Zenon DEF WriteReturns, WriteEnds, Go
  <1>2. mtx = t /\ \A u \in Threads : u # t => pc[u] \notin {"write", "unlock"}
    BY <1>1 DEF Mutex
  <1>3. pc'[t] = "unlock" /\ \A u \in Threads : u # t => pc'[u] = pc[u]
    BY <1>1 DEF TypeOK
  <1>4. put[t] \in 0 .. PacketLen BY DEF TypeOK
  <1>5. TypeOK'
    <2>1. "unlock" \in MainPC /\ "unlock" \in SyncPC BY DEF MainPC, SyncPC
    <2>2. pc' \in [Threads -> MainPC \cup SyncPC] BY <1>1, <2>1 DEF TypeOK
    <2>3. pc'[Main] \in MainPC /\ pc'[Sync] \in SyncPC BY <1>3, <2>1 DEF TypeOK
    <2>4. cut' \in BOOLEAN /\ hurt' \in BOOLEAN /\ status' \in BOOLEAN BY <1>1 DEF TypeOK
    <2> QED BY <1>1, <2>2, <2>3, <2>4 DEF TypeOK
  <1>6. Mutex' BY <1>1, <1>2, <1>3 DEF Mutex
  <1>7. LineOK'
    <2>1. \A u \in Threads : pc'[u] # "write" BY <1>2, <1>3
    <2>2. line # Idle => cut'
      <3>1. CASE put[t] = PacketLen BY <1>1, <1>4, <3>1 DEF LineOK
      <3>2. CASE put[t] < PacketLen BY <1>1, <1>2, <1>4, <3>2 DEF LineOK, Unmixed
      <3> QED BY <1>4, <3>1, <3>2
    <2>3. cut' => line # Idle
      <3>1. CASE put[t] > 0 /\ put[t] < PacketLen BY <1>1, <1>4, <3>1 DEF LineOK
      <3>2. CASE ~(put[t] > 0 /\ put[t] < PacketLen) BY <1>1, <1>4, <3>2 DEF LineOK
      <3> QED BY <3>1, <3>2
    <2> QED BY <1>1, <2>1, <2>2, <2>3 DEF LineOK, Unmixed
  <1>8. CommandOK'
    <2>1. CASE t = Main
      BY <1>1, <1>3, <1>4, <2>1 DEF CommandOK
    <2>2. CASE t = Sync
      <3>1. hurt' = hurt /\ pc'[Main] = pc[Main] BY <1>1, <1>3, <2>2 DEF TypeOK
      <3>2. pc[Main] # "write" BY <1>2, <2>2
      <3> QED BY <1>1, <3>1, <3>2 DEF CommandOK
    <2> QED BY <2>1, <2>2
  <1>9. ThreadOK' BY <1>1, <1>3 DEF ThreadOK
  <1> QED BY <1>5, <1>6, <1>7, <1>8, <1>9

LEMMA UnlockStep == ASSUME IInv, NEW t \in Threads, Unlock(t) PROVE IInv'
  <1> USE Names, MBotAssumption DEF IInv
  <1> DEFINE next == IF t = Main THEN "ready" ELSE IF status THEN "ended" ELSE "sleep"
  <1>1. /\ pc[t] = "unlock" /\ mtx' = NoOne /\ pc' = [pc EXCEPT ![t] = next]
        /\ UNCHANGED <<port, stop, put, status, line, cut, given, robot, hurt>>
    BY Zenon DEF Unlock, Go
  <1>2. \A u \in Threads : u # t => pc[u] \notin {"write", "unlock"} BY <1>1 DEF Mutex
  <1>3. pc'[t] = next /\ \A u \in Threads : u # t => pc'[u] = pc[u]
    BY <1>1 DEF TypeOK
  <1>4. \A u \in Threads : pc'[u] \notin {"write", "unlock"} BY <1>2, <1>3
  <1>5. TypeOK'
    <2>1. /\ t = Main => next \in MainPC
          /\ t = Sync => next \in SyncPC
      BY DEF MainPC, SyncPC
    <2>2. pc' \in [Threads -> MainPC \cup SyncPC] BY <1>1, <2>1 DEF TypeOK
    <2>3. pc'[Main] \in MainPC /\ pc'[Sync] \in SyncPC BY <1>3, <2>1 DEF TypeOK
    <2> QED BY <1>1, <2>2, <2>3 DEF TypeOK
  <1>6. Mutex' BY <1>1, <1>4 DEF Mutex
  <1>7. LineOK'
    <2>1. line # Idle => cut BY <1>1, <1>2 DEF LineOK, Unmixed
    <2> QED BY <1>1, <1>4, <2>1 DEF LineOK, Unmixed
  <1>8. CommandOK' BY <1>1, <1>3, <1>4 DEF CommandOK
  <1>9. ThreadOK' BY <1>1, <1>3 DEF ThreadOK
  <1> QED BY <1>5, <1>6, <1>7, <1>8, <1>9

LEMMA StepInv == IInv /\ [Next]_vars => IInv'
  <1> SUFFICES ASSUME IInv, [Next]_vars PROVE IInv' OBVIOUS
  <1>1. CASE Quiet BY <1>1, QuietStep
  <1>2. ASSUME NEW t \in Threads, Writer(t) PROVE IInv'
    BY <1>2, WriteByteStep, WriteReturnsStep, UnlockStep DEF Writer
  <1>3. CASE Lock(Main) \/ Lock(Sync) BY <1>3, LockStep, Names
  <1>4. CASE UNCHANGED vars
    BY <1>4 DEF vars, port_, IInv, TypeOK, Mutex, LineOK, Unmixed, CommandOK, ThreadOK
  <1> QED BY <1>1, <1>2, <1>3, <1>4, Names DEF Next, MainStep, SyncStep, Calls, Quiet

\* The inductive invariant holds in every reachable state.
THEOREM Invariance == Spec => []IInv
  BY InitInv, StepInv, PTL DEF Spec

\* Every variable keeps its type.
THEOREM TypeCorrect == Spec => []TypeOK
  <1>1. IInv => TypeOK BY DEF IInv
  <1> QED BY <1>1, Invariance, PTL

\* Packets of drive() and timesync() never mix on the line (mbot.cpp:55 and
\* 78), whatever their length.
THEOREM PacketsDoNotMix == Spec => []Unmixed
  <1>1. IInv => Unmixed BY DEF IInv, LineOK
  <1> QED BY <1>1, Invariance, PTL

\* A command is lost only when its own write failed or was cut, or when it
\* followed a packet that was cut.
THEOREM CommandsArrive == Spec => []CommandArrives
  <1>1. IInv => CommandArrives BY DEF IInv, CommandOK, CommandArrives
  <1> QED BY <1>1, Invariance, PTL

\* The members are destroyed after the thread that uses them has ended.
THEOREM ThreadIsJoined == Spec => []ThreadEndsFirst
  <1>1. IInv => ThreadEndsFirst
    BY Names DEF IInv, ThreadOK, Mutex, TypeOK, ThreadEndsFirst
  <1> QED BY <1>1, Invariance, PTL
=============================================================================
