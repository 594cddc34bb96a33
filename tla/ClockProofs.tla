---------------------------- MODULE ClockProofs ----------------------------
(***************************************************************************)
(* Theorems about Clock, for any width of the integers, any units, periods *)
(* and frequencies: sleep() is never early, and the conversions keep what  *)
(* their names promise of every value.                                     *)
(***************************************************************************)
EXTENDS Clock, TLAPS

\* The two machines, which share no variable, side by side.
Next == Arithmetic \/ RateNext
Spec == ClockInit /\ [][Next]_clockVars

RateTypes ==
  /\ now \in 0 .. MaxNow /\ start \in 0 .. MaxNow /\ since \in 0 .. MaxNow
  /\ period \in Int /\ excused \in BOOLEAN

\* Unless it is excused, the clock has not run ahead of the time that passed
\* since start_, and start_ + period_ is no overflow.
Honest == ~excused => InRange(start + period) /\ now - start <= since

\* The inductive invariant.
IInv == InRange(d) /\ RateTypes /\ Honest /\ NeverEarly

-----------------------------------------------------------------------------
(* Arithmetic.                                                             *)

LEMMA DivMod ==
  ASSUME NEW a \in Int, NEW b \in Nat \ {0}
  PROVE  a % b \in 0 .. b - 1 /\ a \div b \in Int /\ a = b * (a \div b) + (a % b)
BY SMT

LEMMA Product ==
  ASSUME NEW a \in Int, NEW b \in Int, NEW u \in Nat \ {0}
  PROVE  /\ a >= 0 /\ b >= 0 => a * b >= 0
         /\ a <= 0 /\ b <= 0 => a * b >= 0
         /\ a >= 1 => u * a >= u
         /\ a <= b => a * u <= b * u
BY SMT

\* Less, by a factor.
LEMMA Cancel ==
  ASSUME NEW a \in Int, NEW b \in Int, NEW u \in Nat \ {0}, a * u < b * u
  PROVE  a < b
<1>1. ~ b <= a BY Product
<1> QED BY <1>1

LEMMA SmallMod ==
  ASSUME NEW b \in Nat \ {0}, NEW r \in 0 .. b - 1
  PROVE  r % b = r
<1> DEFINE q == r \div b
           s == r % b
<1>1. q \in Int /\ s \in 0 .. b - 1 /\ r = b * q + s BY DivMod
<1>2. -q \in Int /\ b * (-q) = s - r /\ b * q = r - s BY <1>1
<1>3. ~(q >= 1) BY <1>1, <1>2, Product
<1>4. ~(-q >= 1) BY <1>1, <1>2, Product
<1>5. q = 0 BY <1>1, <1>3, <1>4
<1> QED BY <1>1, <1>5

LEMMA WrapKeeps ==
  ASSUME NEW most \in Nat, NEW x \in -most - 1 .. most
  PROVE  Wrap(x, most) = x
<1>1. /\ 2 * (most + 1) \in Nat \ {0}
      /\ x + most + 1 \in 0 .. 2 * (most + 1) - 1
  OBVIOUS
<1>2. (x + most + 1) % (2 * (most + 1)) = x + most + 1 BY <1>1, SmallMod
<1> QED BY <1>2 DEF Wrap

\* Truncation, for either sign.
LEMMA TruncIs ==
  ASSUME NEW x \in Int, NEW u \in Nat \ {0}
  PROVE  /\ Trunc(x, u) \in Int
         /\ x >= 0 => Trunc(x, u) >= 0 /\ x - Trunc(x, u) * u \in 0 .. u - 1
         /\ x < 0  => Trunc(x, u) <= 0 /\ Trunc(x, u) * u - x \in 0 .. u - 1
<1>1. ASSUME NEW y \in Nat
      PROVE  y \div u \in Int /\ y \div u >= 0 /\ y - (y \div u) * u \in 0 .. u - 1
  <2> DEFINE q == y \div u
  <2>1. q \in Int /\ y - u * q \in 0 .. u - 1 BY DivMod
  <2>2. q >= 0
    <3> SUFFICES ASSUME -q >= 1 PROVE FALSE BY <2>1
    <3>1. u * (-q) >= u BY <2>1, Product
    <3> QED BY <2>1, <3>1
  <2>3. u * q = q * u BY <2>1
  <2> QED BY <2>1, <2>2, <2>3
<1>2. CASE x >= 0
  BY <1>1, <1>2 DEF Trunc
<1>3. CASE x < 0
  <2>1. -x \in Nat BY <1>3
  <2> DEFINE q == (-x) \div u
  <2>2. q \in Int /\ q >= 0 /\ (-x) - q * u \in 0 .. u - 1 BY <1>1, <2>1
  <2>3. Trunc(x, u) = -q BY <1>3 DEF Trunc
  <2>4. (-q) * u = -(q * u) BY <2>2
  <2> QED BY <1>3, <2>2, <2>3, <2>4
<1> QED BY <1>2, <1>3

LEMMA CeilIs ==
  ASSUME NEW x \in Int, NEW u \in Nat \ {0}
  PROVE  /\ Ceil(x, u) \in Int
         /\ (Ceil(x, u) - 1) * u < x /\ x <= Ceil(x, u) * u
         /\ x >= 0 => Ceil(x, u) >= 0
<1> DEFINE t == Trunc(x, u)
<1>1. /\ t \in Int
      /\ x >= 0 => t >= 0 /\ x - t * u \in 0 .. u - 1
      /\ x < 0  => t <= 0 /\ t * u - x \in 0 .. u - 1
  BY TruncIs
<1>2. Ceil(x, u) = IF t * u < x THEN t + 1 ELSE t BY DEF Ceil
<1> HIDE DEF t
<1>3. t * u \in Int /\ (t + 1) * u = t * u + u /\ (t - 1) * u = t * u - u BY <1>1
<1>4. CASE t * u < x
  <2>1. Ceil(x, u) = t + 1 /\ (t + 1) - 1 = t BY <1>1, <1>2, <1>4
  <2>2. x <= t * u + u /\ x >= 0 BY <1>1, <1>3, <1>4
  <2> QED BY <1>1, <1>3, <1>4, <2>1, <2>2
<1>5. CASE ~ t * u < x
  <2>1. Ceil(x, u) = t BY <1>2, <1>5
  <2>2. x <= t * u /\ t * u - u < x BY <1>1, <1>3, <1>5
  <2> QED BY <1>1, <1>3, <2>1, <2>2
<1> QED BY <1>4, <1>5

LEMMA NearestIs ==
  ASSUME NEW x \in Int, NEW u \in Nat \ {0}
  PROVE  /\ Nearest(x, u) \in Int
         /\ 2 * Abs(x - Nearest(x, u) * u) <= u
         /\ 2 * Abs(x - Nearest(x, u) * u) = u => Nearest(x, u) % 2 = 0
<1> DEFINE low == x \div u
           down == x - low * u
           up == (low + 1) * u - x
<1>1. low \in Int /\ x = u * low + (x % u) /\ x % u \in 0 .. u - 1 BY DivMod
<1>2. u * low = low * u /\ low * u \in Int /\ (low + 1) * u = low * u + u BY <1>1
<1>3. down \in 0 .. u - 1 /\ up = u - down BY <1>1, <1>2
<1>4. Nearest(x, u) = IF down < up \/ (down = up /\ low % 2 = 0) THEN low ELSE low + 1
  BY DEF Nearest, Floor
<1>5. low % 2 # 0 => (low + 1) % 2 = 0 BY <1>1
<1>6. x - low * u = down /\ x - (low + 1) * u = -up BY <1>1, <1>2
<1> HIDE DEF low, down, up
<1>7. CASE down < up \/ (down = up /\ low % 2 = 0)
  <2>1. Nearest(x, u) = low BY <1>4, <1>7
  <2>2. Abs(x - low * u) = down BY <1>3, <1>6 DEF Abs
  <2> QED BY <1>1, <1>3, <1>7, <2>1, <2>2
<1>8. CASE ~(down < up \/ (down = up /\ low % 2 = 0))
  <2>1. Nearest(x, u) = low + 1 BY <1>4, <1>8
  <2>2. Abs(x - (low + 1) * u) = up BY <1>3, <1>6 DEF Abs
  <2> QED BY <1>1, <1>3, <1>5, <1>8, <2>1, <2>2
<1> QED BY <1>7, <1>8

-----------------------------------------------------------------------------
(* The conversions.                                                        *)

LEMMA RoundsRightAlways == ASSUME d \in Int PROVE RoundsRight
<1> SUFFICES ASSUME NEW u \in {Milli, Second}
    PROVE  LET floor == TimeCount(d, u, "FLOOR")
               ceil == TimeCount(d, u, "CEIL")
               near == TimeCount(d, u, "NEAREST")
           IN /\ floor * d >= 0 /\ Abs(floor) * u <= Abs(d) /\ Abs(d) < (Abs(floor) + 1) * u
              /\ (ceil - 1) * u < d /\ d <= ceil * u
              /\ 2 * Abs(d - near * u) <= u
              /\ 2 * Abs(d - near * u) = u => near % 2 = 0
  BY DEF RoundsRight
<1>1. u \in Nat \ {0} BY ClockAssumption
<1>2. /\ TimeCount(d, u, "FLOOR") = Trunc(d, u)
      /\ TimeCount(d, u, "CEIL") = Ceil(d, u)
      /\ TimeCount(d, u, "NEAREST") = Nearest(d, u)
  BY DEF TimeCount
<1>3. /\ Trunc(d, u) * d >= 0
      /\ Abs(Trunc(d, u)) * u <= Abs(d) /\ Abs(d) < (Abs(Trunc(d, u)) + 1) * u
  <2> DEFINE t == Trunc(d, u)
  <2>1. /\ t \in Int
        /\ d >= 0 => t >= 0 /\ d - t * u \in 0 .. u - 1
        /\ d < 0  => t <= 0 /\ t * u - d \in 0 .. u - 1
    BY <1>1, TruncIs
  <2> HIDE DEF t
  <2>2. t * d >= 0 BY <1>1, <2>1, Product
  <2>3. CASE d >= 0
    <3>1. Abs(t) = t /\ Abs(d) = d /\ (t + 1) * u = t * u + u /\ t * u \in Int
      BY <1>1, <2>1, <2>3 DEF Abs
    <3>2. t * u <= d /\ d < t * u + u BY <1>1, <2>1, <2>3, <3>1
    <3> QED BY <2>2, <3>1, <3>2 DEF t
  <2>4. CASE d < 0
    <3>1. /\ Abs(t) = -t /\ Abs(d) = -d /\ t * u \in Int
          /\ (-t) * u = -(t * u) /\ ((-t) + 1) * u = u - t * u
      BY <1>1, <2>1, <2>4 DEF Abs
    <3>2. -(t * u) <= -d /\ -d < u - t * u BY <1>1, <2>1, <2>4, <3>1
    <3> QED BY <2>2, <3>1, <3>2 DEF t
  <2> QED BY <2>3, <2>4
<1> QED BY <1>1, <1>2, <1>3, CeilIs, NearestIs

LEMMA MsgKeepsAlways == ASSUME d \in Int PROVE MsgKeeps
<1> SUFFICES ASSUME Abs(d) < MostSec * Second
    PROVE FromMsg(ToMsg(d)) = d /\ Abs(ToMsg(d).nsec) < Second
  BY DEF MsgKeeps
<1> DEFINE t == Trunc(d, Second)
<1>0. Second \in Nat \ {0} /\ MostSec \in Nat BY ClockAssumption
<1>1. /\ t \in Int
      /\ d >= 0 => t >= 0 /\ d - t * Second \in 0 .. Second - 1
      /\ d < 0  => t <= 0 /\ t * Second - d \in 0 .. Second - 1
  BY <1>0, TruncIs
<1>2. ToMsg(d) = [sec |-> Wrap(t, MostSec), nsec |-> d - t * Second] BY DEF ToMsg
<1> HIDE DEF t
<1>3. t * Second \in Int /\ (-t) * Second = -(t * Second) BY <1>0, <1>1
<1>4. t < MostSec /\ -t < MostSec
  <2>1. CASE d >= 0
    <3>1. t * Second < MostSec * Second BY <1>0, <1>1, <1>3, <2>1 DEF Abs
    <3> QED BY <1>0, <1>1, <2>1, <3>1, Cancel
  <2>2. CASE d < 0
    <3>1. (-t) * Second < MostSec * Second BY <1>0, <1>1, <1>3, <2>2 DEF Abs
    <3>2. -t \in Int BY <1>1
    <3>3. -t < MostSec BY <1>0, <3>1, <3>2, Cancel
    <3> QED BY <1>0, <1>1, <2>2, <3>3
  <2> QED BY <2>1, <2>2
<1>5. Wrap(t, MostSec) = t
  <2>1. t \in -MostSec - 1 .. MostSec BY <1>0, <1>1, <1>4
  <2> QED BY <1>0, <2>1, WrapKeeps
<1>6. FromMsg(ToMsg(d)) = d BY <1>0, <1>1, <1>2, <1>3, <1>5 DEF FromMsg
<1>7. Abs(d - t * Second) < Second BY <1>0, <1>1, <1>3 DEF Abs
<1> QED BY <1>2, <1>6, <1>7

LEMMA PollCoversAlways == ASSUME d \in Int PROVE PollCovers
<1>0. Milli \in Nat \ {0} /\ MostMs \in Nat BY ClockAssumption
<1> DEFINE c == Ceil(d, Milli)
<1>1. /\ c \in Int /\ (c - 1) * Milli < d /\ d <= c * Milli
      /\ d >= 0 => c >= 0
  BY <1>0, CeilIs
<1>2. Timeout(d) = IF d < 0 THEN 0 ELSE IF c > MostMs THEN MostMs ELSE c
  BY DEF Timeout, DurationCount, TimeCount
<1> HIDE DEF c
<1>3. CASE d < 0
  <2>1. Timeout(d) = 0 /\ 0 * Milli = 0 BY <1>0, <1>2, <1>3
  <2> QED BY <1>0, <1>3, <2>1 DEF PollCovers
<1>4. CASE d >= 0 /\ c > MostMs
  <2>1. Timeout(d) = MostMs BY <1>0, <1>2, <1>4
  <2>2. (MostMs - 1) * Milli <= (c - 1) * Milli
    <3>1. MostMs - 1 \in Int /\ c - 1 \in Int /\ MostMs - 1 <= c - 1 BY <1>0, <1>1, <1>4
    <3> QED BY <1>0, <3>1, Product
  <2>3. (MostMs - 1) * Milli \in Int /\ (c - 1) * Milli \in Int BY <1>0, <1>1
  <2>4. (MostMs - 1) * Milli < d BY <1>1, <2>2, <2>3
  <2> QED BY <1>0, <2>1, <2>4 DEF PollCovers
<1>5. CASE d >= 0 /\ ~ c > MostMs
  <2>1. Timeout(d) = c BY <1>0, <1>2, <1>5
  <2> QED BY <1>0, <1>1, <1>5, <2>1 DEF PollCovers
<1> QED BY <1>3, <1>4, <1>5

-----------------------------------------------------------------------------
(* The machines.                                                           *)

LEMMA InitInv == ClockInit => IInv
<1> SUFFICES ASSUME ClockInit PROVE IInv OBVIOUS
<1> USE DEF ClockInit
<1>1. InRange(0) /\ InRange(1) BY ClockAssumption DEF InRange
<1>2. RateTypes
  <2>1. 0 \in 0 .. MaxNow /\ 1 \in Int BY ClockAssumption
  <2> QED BY <2>1 DEF RateTypes
<1>3. Honest
  <2>1. start + period = 1 /\ now - start = 0 OBVIOUS
  <2> QED BY <1>1, <2>1 DEF Honest
<1> QED BY <1>1, <1>2, <1>3 DEF IInv, NeverEarly

LEMMA ArithmeticStep == ASSUME IInv, Arithmetic PROVE IInv'
<1>1. \E v : InRange(v) /\ d' = v /\ UNCHANGED rateVars
  BY DEF Arithmetic, Becomes
<1> QED BY <1>1 DEF IInv, InRange, rateVars, RateTypes, Honest, NeverEarly

\* start_ becomes now.
LEMMA StartStep ==
  ASSUME IInv, NEW p \in Int, period' = p, start' = now, now' = now, since' = 0,
         excused' = ~InRange(now + p), ~early', d' = d
  PROVE  IInv'
<1>1. InRange(d)' BY DEF IInv, InRange
<1>2. RateTypes' BY ClockAssumption DEF IInv, RateTypes
<1>3. Honest'
  <2>1. now' - start' <= since' BY DEF IInv, RateTypes
  <2>2. ~excused' => InRange(start + period)' BY DEF InRange
  <2> QED BY <2>1, <2>2 DEF Honest
<1> QED BY <1>1, <1>2, <1>3 DEF IInv, NeverEarly

LEMMA PeriodsAreInt ==
  /\ \A p \in Periods : p \in Int /\ Clamped(p) \in Int
  /\ \A f \in Frequencies : FromFrequency(f) \in Int
<1>1. ASSUME NEW p \in Periods PROVE p \in Int /\ Clamped(p) \in Int
  BY ClockAssumption DEF Clamped
<1>2. ASSUME NEW f \in Frequencies PROVE FromFrequency(f) \in Int
  <2>0. f \in Int /\ Second \in Nat /\ Most \in Nat BY ClockAssumption
  <2>1. CASE f <= 0 BY <2>0, <2>1 DEF FromFrequency
  <2>2. CASE f > 0
    <3>1. 2 * Second + f \in Int /\ 2 * f \in Nat \ {0} BY <2>0, <2>2
    <3>2. (2 * Second + f) \div (2 * f) \in Int BY <3>1, DivMod
    <3> QED BY <2>0, <2>2, <3>2 DEF FromFrequency
  <2> QED BY <2>0, <2>1, <2>2
<1> QED BY <1>1, <1>2

\* When sleep() returns a period has passed, or it is excused.
LEMMA ReturnStep ==
  ASSUME IInv, Returns(now), Deadline <= now, UNCHANGED <<d, now, period>>
  PROVE  IInv'
<1>1. ~excused => since >= period
  <2> SUFFICES ASSUME ~excused PROVE since >= period OBVIOUS
  <2>1. InRange(start + period) /\ now - start <= since BY DEF IInv, Honest
  <2>2. Deadline = start + period
    BY <2>1, WrapKeeps, ClockAssumption DEF Deadline, InRange
  <2> QED BY <2>1, <2>2, ClockAssumption DEF IInv, RateTypes
<1>2. ~(~excused /\ since < period) BY <1>1, ClockAssumption DEF IInv, RateTypes
<1>3. ~early' BY <1>2 DEF Returns, IInv, NeverEarly
<1>4. start' = now /\ since' = 0 /\ excused' = ~InRange(now + period) /\ period \in Int
  BY DEF Returns, IInv, RateTypes
<1> QED BY <1>3, <1>4, StartStep

LEMMA RateStep == ASSUME IInv, RateNext PROVE IInv'
<1>1. CASE Construct
  <2>1. PICK p \in Int : Starts(p) BY <1>1, PeriodsAreInt DEF Construct
  <2>2. ~early' BY <2>1 DEF Starts, IInv, NeverEarly
  <2> QED BY <2>1, <2>2, StartStep DEF Starts
<1>2. CASE SetRate
  <2>1. PICK p \in Int : Changes(p) BY <1>2, PeriodsAreInt DEF SetRate
  <2> QED BY <2>1 DEF Changes, IInv, RateTypes, Honest, InRange, NeverEarly
<1>3. CASE TooLate BY <1>3, ReturnStep DEF TooLate
<1>4. CASE FallAsleep
  BY <1>4 DEF FallAsleep, IInv, RateTypes, Honest, InRange, NeverEarly
<1>5. CASE Wake BY <1>5, ReturnStep DEF Wake, Awake
<1>6. CASE Tick
  BY <1>6, ClockAssumption DEF Tick, IInv, RateTypes, Honest, InRange, NeverEarly
<1>7. ASSUME NEW t \in 0 .. MaxNow, SetClock(t) PROVE IInv'
  <2>1. /\ now' = t /\ excused' = (excused \/ t > now)
        /\ UNCHANGED <<d, period, start, since, early>>
    BY <1>7 DEF SetClock
  <2>2. InRange(d)' BY <2>1 DEF IInv, InRange
  <2>3. RateTypes' BY <2>1 DEF IInv, RateTypes
  <2>4. Honest'
    <3>1. ~excused' => ~excused /\ ~(t > now) BY <2>1
    <3>2. t <= now => now' - start' <= now - start
      BY <2>1, ClockAssumption DEF IInv, RateTypes
    <3>3. ~(t > now) => t <= now BY ClockAssumption DEF IInv, RateTypes
    <3>4. now - start <= since /\ now' - start' <= now - start => now' - start' <= since'
      BY <2>1, <2>3, ClockAssumption DEF IInv, RateTypes
    <3>5. InRange(start + period)' <=> InRange(start + period) BY <2>1 DEF InRange
    <3> QED BY <3>1, <3>2, <3>3, <3>4, <3>5 DEF IInv, Honest
  <2> QED BY <2>1, <2>2, <2>3, <2>4 DEF IInv, NeverEarly
<1> QED BY <1>1, <1>2, <1>3, <1>4, <1>5, <1>6, <1>7 DEF RateNext

\* The invariant of the register and of the rate holds in every reachable
\* state.
THEOREM Invariance == Spec => []IInv
<1>1. IInv /\ UNCHANGED clockVars => IInv'
  BY DEF clockVars, rateVars, IInv, RateTypes, Honest, InRange, NeverEarly
<1>2. IInv /\ [Next]_clockVars => IInv'
  BY <1>1, ArithmeticStep, RateStep DEF Next
<1> QED BY InitInv, <1>2, PTL DEF Spec

\* time.hpp:197: sleep() never returns before a period has passed, for any
\* period and frequency, unless the clock was set forward, the period was
\* changed, or start_ + period_ overflows.
THEOREM SleepIsNeverEarly == Spec => []NeverEarly
<1>1. IInv => NeverEarly BY DEF IInv
<1> QED BY <1>1, Invariance, PTL

\* Rounding, messages and timeouts keep what they promise of every Duration,
\* for any width of the integers and any units.
THEOREM ConversionsAreFaithful == Spec => []ConversionsKeep
<1>1. IInv => d \in Int BY ClockAssumption DEF IInv, InRange
<1>2. IInv => ConversionsKeep
  BY <1>1, RoundsRightAlways, MsgKeepsAlways, PollCoversAlways DEF ConversionsKeep
<1> QED BY <1>2, Invariance, PTL
=============================================================================
