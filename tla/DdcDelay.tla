------------------------------ MODULE DdcDelay ------------------------------
(***************************************************************************)
(* ddcci_delay() of src/src/lib/ddcci.c: every DDC/CI command waits until  *)
(* DELAY has passed since the last write.  The elapsed time is computed    *)
(* from two wall-clock readings, tv_sec and tv_usec apart, in an unsigned  *)
(* long.  Beside the clock the code reads, the model keeps the real time   *)
(* that has passed since the last write, which the code cannot see.        *)
(*                                                                         *)
(* Time is counted in ticks: a second has SECOND of them.  The ratio of    *)
(* DELAY to SECOND is what matters; in the code it is 45000 to 1000000.    *)
(***************************************************************************)
EXTENDS Integers

CONSTANTS
  SECOND,       \* ticks of a second (1000000 us)
  DELAY,        \* ticks to wait after a write (45000 us)
  PostDelays,   \* ticks ddcci_writectrl sleeps after writing a control
  Jitter,       \* bound: ticks usleep may oversleep
  MaxSec,       \* bound: the wall clock stays below this second
  MaxClockSets, \* bound: how often the wall clock is set by the user or NTP
  ULONG         \* the width of unsigned long: 2^64 or 2^32

ASSUME TimeAssumption ==
  /\ SECOND \in Nat \ {0} /\ DELAY \in Nat \ {0} /\ DELAY < SECOND
  /\ PostDelays \subseteq Nat
  /\ Jitter \in Nat /\ MaxSec \in Nat /\ MaxSec > 2 /\ MaxClockSets \in Nat
  /\ ULONG \in Nat /\ ULONG > 20 * SECOND * MaxSec

VARIABLES
  now,      \* the wall clock, [sec, usec], as gettimeofday returns it
  last,     \* mon->last
  since,    \* real ticks since the last write began, at most DELAY
  known,    \* mon->last is the time of the last write on the present clock
  cmd,      \* the command that was just sent (history): the real ticks from
            \* the last write to it, and how the code's two readings differ
  sets      \* clock sets so far

delayVars == <<now, last, since, known, cmd, sets>>

Capped(n) == IF n > DELAY THEN DELAY ELSE n

\* The wall clock n ticks later.
After(t, n) == LET total == t.sec * SECOND + t.usec + n
               IN [sec |-> total \div SECOND, usec |-> total % SECOND]

InRange(t) == t.sec < MaxSec

\* Storing a long in an unsigned long.
Unsigned(n) == IF n < 0 THEN n + ULONG ELSE n

\* unsigned long usec = (now.tv_sec - last.tv_sec) * 10000000 + ...: the
\* factor is ten seconds' worth of microseconds, not one.
Elapsed(t) == Unsigned((t.sec - last.sec) * (10 * SECOND) + t.usec - last.usec)

\* Variant of Wait that sleeps the time elapsed instead of the rest.
WaitElapsed(t) ==
  IF last.sec >= t.sec - 1 /\ Elapsed(t) < DELAY THEN Elapsed(t) ELSE 0

\* How long ddcci_delay sleeps: not at all when the last write was in an
\* earlier second than the previous one, or long enough ago.
Wait(t) ==
  IF last.sec >= t.sec - 1 /\ Elapsed(t) < DELAY THEN DELAY - Elapsed(t) ELSE 0

\* now.tv_usec += DELAY - usec, with the carry of the code: a sum of exactly
\* 1000000 is not carried.
Adjusted(t) ==
  LET u == t.usec + Wait(t)
  IN IF Wait(t) > 0 /\ u > SECOND
     THEN [sec |-> t.sec + 1, usec |-> u - SECOND]
     ELSE [sec |-> t.sec, usec |-> u]

NoCommand == [gap |-> DELAY, when |-> "none"]

\* How far apart the code finds the last write and a command at time t.
When(t) == IF ~known THEN "unknown"
           ELSE IF t.sec = last.sec THEN "same second"
           ELSE IF t.sec > last.sec + 1 THEN "later" ELSE "next second"

Sent(slept) == [gap |-> Capped(since + slept), when |-> When(now)]

DelayInit ==
  /\ now = [sec |-> 2, usec |-> 0]
  /\ last = [sec |-> 0, usec |-> 0]  \* memset in ddcci_open_with_addr
  /\ since = DELAY
  /\ known = TRUE
  /\ cmd = NoCommand
  /\ sets = 0

\* Time passes between two commands.
Tick ==
  /\ InRange(After(now, 1))
  /\ now' = After(now, 1)
  /\ since' = Capped(since + 1)
  /\ cmd' = NoCommand
  /\ UNCHANGED <<last, known, sets>>

\* ddcci_delay(mon, 1) in ddcci_write, the frame, and the sleep of
\* ddcci_writectrl after it (none for a request frame).
Write(post, late) ==
  LET slept == IF Wait(now) > 0 THEN Wait(now) + late ELSE 0
  IN /\ InRange(After(now, slept + post))
     /\ now' = After(now, slept + post)
     /\ cmd' = Sent(slept)
     /\ last' = Adjusted(now)
     /\ since' = Capped(post)
     /\ known' = TRUE
     /\ UNCHANGED sets

\* ddcci_delay(mon, 0) in ddcci_read: mon->last is left alone.
Read(late) ==
  LET slept == IF Wait(now) > 0 THEN Wait(now) + late ELSE 0
  IN /\ InRange(After(now, slept))
     /\ now' = After(now, slept)
     /\ cmd' = Sent(slept)
     /\ since' = Capped(since + slept)
     /\ UNCHANGED <<last, known, sets>>

\* gettimeofday fails: sleep DELAY and remember nothing.
WriteWithoutClock ==
  /\ InRange(After(now, DELAY))
  /\ now' = After(now, DELAY)
  /\ cmd' = NoCommand
  /\ since' = 0
  /\ known' = FALSE
  /\ UNCHANGED <<last, sets>>

\* The wall clock is set: gettimeofday is not monotonic.
SetClock ==
  /\ sets < MaxClockSets
  /\ \E t \in {0, SECOND - 1} : \E s \in 2 .. MaxSec - 1 :
       now' = [sec |-> s, usec |-> t]
  /\ sets' = sets + 1
  /\ known' = FALSE
  /\ cmd' = NoCommand
  /\ UNCHANGED <<last, since>>

DelayNext ==
  \/ Tick
  \/ \E post \in PostDelays, late \in 0 .. Jitter : Write(post, late)
  \/ \E late \in 0 .. Jitter : Read(late)
  \/ WriteWithoutClock
  \/ SetClock

DelaySpec == DelayInit /\ [][DelayNext]_delayVars

-----------------------------------------------------------------------------
DelayTypeOK ==
  /\ now \in [sec : 0 .. MaxSec - 1, usec : 0 .. SECOND - 1]
  /\ last \in [sec : 0 .. MaxSec, usec : 0 .. SECOND]
  /\ since \in 0 .. DELAY 
  /\ cmd \in [gap : 0 .. DELAY,
             when : {"none", "unknown", "same second", "next second", "later"}]
  /\ known \in BOOLEAN /\ sets \in 0 .. MaxClockSets

\* Within one second of the wall clock ddcci_delay keeps its promise but for
\* the time usleep overslept before the last write: that write is recorded
\* at the time the code meant to send it, not at the time it did.
SpacedWithinSecond == cmd.when = "same second" => cmd.gap >= DELAY - Jitter

\* Two readings whose seconds differ by more than one: the code does not
\* compute at all, and the time really has passed.
SpacedWhenLater == cmd.when = "later" => cmd.gap = DELAY

\* However the clock was set, ddcci_delay never sleeps for longer than DELAY.
WaitBounded == Wait(now) \in 0 .. DELAY

\* Commands are kept apart as far as ddcci_delay can: within a second, and
\* from one second to a later one, through clocks that are set and sleeps
\* that last too long, and never at the price of a long sleep.
KeepsApart == DelayTypeOK /\ WaitBounded /\ SpacedWithinSecond /\ SpacedWhenLater
=============================================================================
