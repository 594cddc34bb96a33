------------------------------- MODULE Clock -------------------------------
(***************************************************************************)
(* Time, Duration and Rate (src/rix/util/time.cpp) and the timeouts that   *)
(* File computes from a Duration (src/rix/ipc/file.cpp).  Both are counts  *)
(* of nanoseconds in a signed integer; here of ticks between -Most - 1 and *)
(* Most, Milli to a millisecond and Second to a second.                    *)
(*                                                                         *)
(* Two machines: a register on which the arithmetic of Duration is done    *)
(* and whose conversions are checked at every value it reaches, and a Rate *)
(* that sleeps by the system clock.  External: time passes, and the system *)
(* clock is now and then set.                                              *)
(***************************************************************************)
EXTENDS Integers

CONSTANTS
  Most,          \* int64_t's maximum
  Milli, Second, \* ticks of a millisecond and of a second
  MostSec,       \* int32_t's maximum, for the seconds of a message
  MostMs,        \* int's maximum, for poll()
  Operands,      \* what is added, and the factors
  Periods,       \* the periods a Rate is given
  Frequencies,   \* and the frequencies, in Hz
  MaxNow         \* bound on the clock

ASSUME ClockAssumption ==
  /\ Most \in Nat \ {0} /\ Milli \in Nat \ {0} /\ Second \in Nat \ {0}
  /\ MostSec \in Nat /\ MostMs \in Nat /\ MaxNow \in Nat
  /\ Operands \subseteq Int /\ Periods \subseteq Int /\ Frequencies \subseteq Int

VARIABLES
  d,       \* the Duration of the register
  now,     \* what Time::now() returns
  period,  \* period_
  start,   \* start_
  rstep,   \* where the program is in Rate::sleep(): "out" or "asleep"
  called,  \* what sleep() read on the clock when it was called
  since,   \* history: time that passed since the last return of sleep()
  excused, \* history: since then the clock was set forward or the period
           \* changed, or the period reaches beyond the end of time
  early    \* history: sleep() returned before a period had passed

rateVars == <<now, period, start, rstep, called, since, excused, early>>
clockVars == <<d, rateVars>>

-----------------------------------------------------------------------------
(* Integers and conversions.                                               *)

InRange(x) == x \in -Most - 1 .. Most

\* What conversion to, or overflow of, a signed integer up to most leaves.
Wrap(x, most) == ((x + most + 1) % (2 * (most + 1))) - most - 1

Abs(x) == IF x < 0 THEN -x ELSE x

\* duration_cast and C++ division: toward zero.
Trunc(x, u) == IF x >= 0 THEN x \div u ELSE -((-x) \div u)
Floor(x, u) == x \div u
Ceil(x, u)  == IF Trunc(x, u) * u < x THEN Trunc(x, u) + 1 ELSE Trunc(x, u)

\* std::chrono::round: of two neighbours equally near the even one.
Nearest(x, u) ==
  LET low == Floor(x, u)
      down == x - low * u
      up == (low + 1) * u - x
  IN IF down < up \/ (down = up /\ low % 2 = 0) THEN low ELSE low + 1

\* to_seconds(), to_milliseconds() and to_microseconds() of Time, Duration.
TimeCount(x, u, type) ==
  CASE type = "FLOOR" -> Trunc(x, u) [] type = "CEIL" -> Ceil(x, u)
    [] type = "NEAREST" -> Nearest(x, u)
DurationCount(x, u, type) == TimeCount(x, u, type)

\* to_msg(): both parts have the sign of the value.
ToMsg(x) == [sec |-> Wrap(Trunc(x, Second), MostSec), nsec |-> x - Trunc(x, Second) * Second]
FromMsg(m) == m.sec * Second + m.nsec

\* Mutant: the milliseconds are rounded down.
BugTimeout(x) == IF x < 0 THEN 0
                 ELSE IF DurationCount(x, Milli, "FLOOR") > MostMs THEN MostMs
                 ELSE DurationCount(x, Milli, "FLOOR")

\* What wait_for_readable() and wait_for_writable() give to poll().
Timeout(x) == IF x < 0 THEN 0
              ELSE IF DurationCount(x, Milli, "CEIL") > MostMs THEN MostMs
              ELSE DurationCount(x, Milli, "CEIL")

-----------------------------------------------------------------------------
(* The register: every operation of Duration that stays in range.  The     *)
(* factors that are double are halves: k / 2.0.                            *)

Quotient(x, k) == IF k < 0 THEN -Trunc(x, -k) ELSE Trunc(x, k)

Becomes(v) == InRange(v) /\ d' = v /\ UNCHANGED rateVars

Arithmetic ==
  \/ \E y \in Operands : Becomes(d + y) \/ Becomes(d - y) \/ Becomes(d * y)
  \/ \E k \in Operands : Becomes(Quotient(d * k, 2))
  \/ \E k \in Operands \ {0} : Becomes(Quotient(d, k)) \/ Becomes(Quotient(2 * d, k))
  \/ Becomes(-d)

-----------------------------------------------------------------------------
(* Rate.                                                                   *)

\* Of a frequency, llround(1e9 / f) or the longest period there is; of a
\* period, at least one tick.
FromFrequency(f) == IF f <= 0 THEN Most ELSE (2 * Second + f) \div (2 * f)
Clamped(p)       == IF p <= 1 THEN 1 ELSE p

\* start_ + period_, which may overflow.
Deadline == Wrap(start + period, Most)

Starts(p) == /\ rstep = "out" /\ period' = p /\ start' = now /\ since' = 0
             /\ excused' = ~InRange(now + p)
             /\ UNCHANGED <<d, now, rstep, called, early>>
Construct == (\E p \in Periods : Starts(Clamped(p)))
             \/ (\E f \in Frequencies : Starts(FromFrequency(f)))

\* set_period() does not clamp.
Changes(p) == /\ rstep = "out" /\ period' = p /\ excused' = TRUE
              /\ UNCHANGED <<d, now, start, rstep, called, since, early>>
SetRate == (\E p \in Periods : Changes(p)) \/ (\E f \in Frequencies : Changes(FromFrequency(f)))

\* The next period begins at the time start_ is set to.
Returns(begin) == /\ start' = begin /\ rstep' = "out" /\ since' = 0
                  /\ excused' = ~InRange(begin + period)
                  /\ early' = (early \/ (~excused /\ since < period))

TooLate == /\ rstep = "out" /\ Deadline <= now
           /\ Returns(now) /\ called' = now
           /\ UNCHANGED <<d, now, period>>

FallAsleep == /\ rstep = "out" /\ Deadline > now
              /\ rstep' = "asleep" /\ called' = now
              /\ UNCHANGED <<d, now, period, start, since, excused, early>>

\* Mutant: the next period begins when this call did.
BugAwake == called

\* What the clock says when sleep_until(), which looks at it until it is
\* late enough, has returned.
Awake == now

Wake == /\ rstep = "asleep" /\ Deadline <= now
        /\ Returns(Awake)
        /\ UNCHANGED <<d, now, period, called>>

Tick == /\ now < MaxNow /\ now' = now + 1
        /\ since' = (IF since < MaxNow THEN since + 1 ELSE since)
        /\ UNCHANGED <<d, period, start, rstep, called, excused, early>>

SetClock(t) == /\ now' = t /\ excused' = (excused \/ t > now)
               /\ UNCHANGED <<d, period, start, rstep, called, since, early>>

RateNext == Construct \/ SetRate \/ TooLate \/ FallAsleep \/ Wake \/ Tick
            \/ \E t \in 0 .. MaxNow : SetClock(t)

ClockInit == /\ d = 0 /\ now = 0 /\ period = 1 /\ start = 0 /\ rstep = "out" /\ called = 0
             /\ since = 0 /\ excused = FALSE /\ early = FALSE

-----------------------------------------------------------------------------
(* Correctness.                                                            *)

\* CEIL is the least count not below the value, NEAREST the nearest one and
\* the even one of two, FLOOR the nearest one toward zero (not below: the
\* name says otherwise for negative values).
RoundsRight == \A u \in {Milli, Second} :
  LET floor == TimeCount(d, u, "FLOOR")
      ceil == TimeCount(d, u, "CEIL")
      near == TimeCount(d, u, "NEAREST")
  IN /\ floor * d >= 0 /\ Abs(floor) * u <= Abs(d) /\ Abs(d) < (Abs(floor) + 1) * u
     /\ (ceil - 1) * u < d /\ d <= ceil * u
     /\ 2 * Abs(d - near * u) <= u
     /\ 2 * Abs(d - near * u) = u => near % 2 = 0

\* A message holds the value to the last tick, negative ones too, as long
\* as its seconds fit in 32 bits.
MsgKeeps == Abs(d) < MostSec * Second =>
  FromMsg(ToMsg(d)) = d /\ Abs(ToMsg(d).nsec) < Second

\* file.cpp:137, rounding up avoids timing out "too early": poll() waits no
\* less than the duration and less than a millisecond more, if an int can
\* say so, and not at all for one that has passed.
PollCovers ==
  LET ms == Timeout(d)
  IN /\ 0 <= ms /\ ms <= MostMs
     /\ ms < MostMs => d <= ms * Milli
     /\ ms > 0 => (ms - 1) * Milli < d

\* What becomes of a Duration on its way to an integer, a message or poll().
ConversionsKeep == RoundsRight /\ MsgKeeps /\ PollCovers

\* time.hpp:197, "the time required to maintain the rate": between two
\* returns of sleep() at least a period passes, unless the clock is set
\* forward or the period changed meanwhile, or start_ + period_ overflows.
NeverEarly == ~early
=============================================================================
