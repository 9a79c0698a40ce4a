------------------------------- MODULE TimeUnit -------------------------------
(***************************************************************************)
(* The time unit of time.c and the programs that use it: the clock in      *)
(* microseconds and seconds, the clock in milliseconds, and msleep of      *)
(* pi_time.h.  A program accesses the registers one byte at a time, and    *)
(* the host's clock runs on between two accesses.                          *)
(*                                                                         *)
(* Three activities of the program share the unit: one reads the clock     *)
(* (PI_TIME_NS, then PI_TIME_S), one reads it in milliseconds (PI_TIME_MS),*)
(* one sleeps; any may interrupt another at any access.  A word is read    *)
(* from its highest byte down, as the comment of time.c:62 says, and the   *)
(* access to the highest byte is the one that samples the host's clock.    *)
(*                                                                         *)
(* The host's clock (gettimeofday) is external; here it starts over after  *)
(* Horizon seconds.  The random numbers of the unit have no state.         *)
(***************************************************************************)
EXTENDS Integers, Sequences

CONSTANTS UsPerMs,    \* 1000 in the code, like the next
          MsPerSec,
          SecWrap,    \* the milliseconds start over after these seconds: 1000000
          Horizon,    \* bound: the clock starts over after these seconds
          Base,       \* how many values a byte has: 256
          WordBytes,  \* the bytes of a register: 4
          Durations   \* the milliseconds a program sleeps

UsPerSec == UsPerMs * MsPerSec
MsWrap   == SecWrap * MsPerSec
Instants == 0 .. Horizon * UsPerSec - 1     \* in microseconds
Longest  == CHOOSE d \in Durations : \A e \in Durations : e <= d

ASSUME UnitsAssumption ==
    /\ {UsPerMs, MsPerSec, SecWrap, Horizon, WordBytes} \subseteq Nat \ {0}
    /\ Base \in Nat \ {0, 1}
    /\ Horizon % SecWrap = 0

\* A word shifted to the right by n bytes.
Shifted(word) ==
    LET shifted[n \in 0 .. WordBytes] ==
            IF n = 0 THEN word ELSE shifted[n - 1] \div Base
    IN  shifted

Fits(word) == Shifted(word)[WordBytes] = 0

\* The registers are wide enough: usec < 10^6, deadline < 10^9 + 2^16.
ASSUME WidthAssumption ==
    /\ Durations \subseteq 0 .. Base * Base - 1
    /\ \E d \in Durations : \A e \in Durations : e <= d
    /\ Fits(UsPerSec) /\ Fits(Horizon) /\ Fits(MsWrap + Longest)

VARIABLES clock,     \* the host's clock
          now,       \* the samples of it that the unit keeps
          ms,
          time_ms,
          deadline,
          clockRead, \* what an activity reads: see NotReading
          msRead,
          sleep,     \* what the activity that sleeps does: see Awake
          slept      \* history: the microseconds since it wrote the low byte

unit == <<now, ms, time_ms, deadline>>
vars == <<clock, unit, clockRead, msRead, sleep, slept>>

-----------------------------------------------------------------------------
tv_usec(t) == t % UsPerSec
tv_sec(t)  == t \div UsPerSec

\* (ms.tv_sec % 1000000) * 1000 + ms.tv_usec / 1000
Milliseconds(t) == (tv_sec(t) % SecWrap) * MsPerSec + tv_usec(t) \div UsPerMs

Byte(word, n) == Shifted(word)[n] % Base

\* The bytes read so far, highest first, and the clock when the reading began.
NotReading == [bytes |-> <<>>, from |-> 0]

\* The word a sequence of bytes is.
WordOf(bytes) ==
    LET value[n \in 0 .. Len(bytes)] ==
            IF n = 0 THEN 0 ELSE value[n - 1] * Base + bytes[n]
    IN  value[Len(bytes)]

Awake      == [at |-> "awake", msecs |-> 0]
SleptBound == Longest * UsPerMs          \* bound on slept

TimeTypeOK ==
    /\ {clock, now, ms, clockRead.from, msRead.from} \subseteq Instants
    /\ time_ms \in 0 .. MsWrap - 1
    /\ deadline \in 0 .. MsWrap + Longest
    /\ Len(clockRead.bytes) \in 0 .. 2 * WordBytes
    /\ Len(msRead.bytes) \in 0 .. WordBytes
    /\ sleep \in [at : {"awake", "called", "half", "polling"}, msecs : Durations \cup {0}]
    /\ slept \in 0 .. SleptBound

\* The program has called time_init.
TimeInit ==
    /\ clock \in Instants /\ now = clock /\ ms = clock
    /\ time_ms = 0 /\ deadline = 0
    /\ clockRead = NotReading /\ msRead = NotReading
    /\ sleep = Awake /\ slept = 0

-----------------------------------------------------------------------------
Tick ==
    /\ clock' = (clock + 1) % (Horizon * UsPerSec)
    /\ slept' = IF sleep.at \in {"half", "polling"} /\ slept < SleptBound
                THEN slept + 1 ELSE slept
    /\ UNCHANGED <<unit, clockRead, msRead, sleep>>

\* time_init again, by the activity that reads the clock, between two readings.
InitAgain ==
    /\ clockRead = NotReading
    /\ now' = clock /\ ms' = clock
    /\ UNCHANGED <<clock, time_ms, deadline, clockRead, msRead, sleep, slept>>

\* Mutant: the clock is sampled with the lowest byte.
SampledNow_low(n) == IF n = WordBytes THEN clock ELSE now

\* time_mem_io_read, 0xFF23: the n-th byte of a reading of the clock samples it
\* if it is the first.
SampledNow(n) == IF n = 1 THEN clock ELSE now

\* 0xFF23 to 0xFF20, then 0xFF27 to 0xFF24.
ReadClock ==
    LET n == Len(clockRead.bytes) + 1
    IN  /\ n <= 2 * WordBytes
        /\ now' = SampledNow(n)
        /\ clockRead' =
             [bytes |-> Append(clockRead.bytes,
                               IF n <= WordBytes
                               THEN Byte(tv_usec(now'), WordBytes - n)
                               ELSE Byte(tv_sec(now'), 2 * WordBytes - n)),
              from  |-> IF n = 1 THEN clock ELSE clockRead.from]
    /\ UNCHANGED <<clock, ms, time_ms, deadline, msRead, sleep, slept>>

\* 0xFF2B to 0xFF28.
ReadMs ==
    LET n == Len(msRead.bytes) + 1
    IN  /\ n <= WordBytes
        /\ IF n = 1
           THEN ms' = clock /\ time_ms' = Milliseconds(clock)
           ELSE UNCHANGED <<ms, time_ms>>
        /\ msRead' = [bytes |-> Append(msRead.bytes, Byte(time_ms', WordBytes - n)),
                      from  |-> IF n = 1 THEN clock ELSE msRead.from]
    /\ UNCHANGED <<clock, now, deadline, clockRead, sleep, slept>>

\* The program has used what it read.
ReadingDone ==
    \/ /\ Len(clockRead.bytes) = 2 * WordBytes
       /\ clockRead' = NotReading
       /\ UNCHANGED <<clock, unit, msRead, sleep, slept>>
    \/ /\ Len(msRead.bytes) = WordBytes
       /\ msRead' = NotReading
       /\ UNCHANGED <<clock, unit, clockRead, sleep, slept>>

-----------------------------------------------------------------------------
\* msleep.
CallMsleep(d) ==
    /\ sleep.at = "awake"
    /\ sleep' = [at |-> "called", msecs |-> d]
    /\ UNCHANGED <<clock, unit, clockRead, msRead, slept>>

\* Mutant: the low byte is put beside what the deadline was.
WithLow_kept(old, low) == old + low

\* deadline = data
WithLow(old, low) == low

\* time_mem_io_write, 0xFF2C: the low byte, and the sample the deadline counts from.
DeadlineLow ==
    /\ sleep.at = "called"
    /\ ms' = clock
    /\ deadline' = WithLow(deadline, Byte(sleep.msecs, 0))
    /\ sleep' = [sleep EXCEPT !.at = "half"]
    /\ slept' = 0
    /\ UNCHANGED <<clock, now, time_ms, clockRead, msRead>>

\* Mutant: the shifted byte is cut to a byte again.
WithHigh_cut(low, high) == low

\* deadline | (data << 8)
WithHigh(low, high) == low + high * Base

\* time_mem_io_write, 0xFF2D.
DeadlineHigh ==
    /\ sleep.at = "half"
    /\ deadline' = WithHigh(deadline, Byte(sleep.msecs, 1)) + Milliseconds(ms)
    /\ sleep' = [sleep EXCEPT !.at = "polling"]
    /\ UNCHANGED <<clock, now, ms, time_ms, clockRead, msRead, slept>>

\* Mutant: not before the millisecond after.
DeadlinePassed_late(t) == deadline < Milliseconds(t)

\* time_mem_io_read, 0xFF2C.
DeadlinePassed(t) == deadline <= Milliseconds(t)

\* One turn of msleep's loop reads the register and goes on, or returns.
PollAgain ==
    /\ sleep.at = "polling"
    /\ ms' = clock
    /\ ~ DeadlinePassed(ms')
    /\ UNCHANGED <<clock, now, time_ms, deadline, clockRead, msRead, sleep, slept>>

PollPassed ==
    /\ sleep.at = "polling"
    /\ ms' = clock
    /\ DeadlinePassed(ms')
    /\ sleep' = Awake
    /\ slept' = 0
    /\ UNCHANGED <<clock, now, time_ms, deadline, clockRead, msRead>>

Reading  == InitAgain \/ ReadClock \/ ReadMs \/ ReadingDone
Sleeping == \/ \E d \in Durations : CallMsleep(d)
            \/ DeadlineLow \/ DeadlineHigh \/ PollAgain \/ PollPassed

TimeNext == Tick \/ Reading \/ Sleeping

\* Time passes, and a program that sleeps goes on.  The fairness of its poll is
\* strong because the loop, a few bus cycles long, polls many times while a
\* millisecond lasts: a deadline that passes again and again is noticed.
TimeSpec ==
    /\ TimeInit /\ [][TimeNext]_vars
    /\ WF_vars(Tick)
    /\ WF_vars(DeadlineLow \/ DeadlineHigh)
    /\ SF_vars(PollPassed)

-----------------------------------------------------------------------------
(***************************************************************************)
(* Properties.                                                             *)
(***************************************************************************)
\* The bytes of a reading belong to one instant, that of the first access: no
\* byte comes from a later second or millisecond, whatever the other activities
\* do to the unit in between (time.c:58-93).
ReadingsCoherent ==
    /\ Len(clockRead.bytes) = 2 * WordBytes =>
         /\ WordOf(SubSeq(clockRead.bytes, 1, WordBytes)) = tv_usec(clockRead.from)
         /\ WordOf(SubSeq(clockRead.bytes, WordBytes + 1, 2 * WordBytes))
              = tv_sec(clockRead.from)
    /\ Len(msRead.bytes) = WordBytes =>
         WordOf(msRead.bytes) = Milliseconds(msRead.from)

\* msleep never returns more than a millisecond early, even if a reading of the
\* milliseconds moves the sample the deadline is counted from (time.c:41-50).
NeverEarly ==
    [][sleep.at = "polling" /\ sleep'.at = "awake"
       => slept > (sleep.msecs - 1) * UsPerMs]_vars

\* msleep returns if its deadline lies before the milliseconds start over
\* (time.c:95-100, pi_time.h:15-20).
SleepEndsBeforeWrap ==
    sleep.at = "polling" /\ deadline < MsWrap ~> sleep.at = "awake"
=============================================================================
