---------------------------- MODULE ServerClock ----------------------------
(***************************************************************************)
(* The Postgres server clock as the sync SQL uses it: clock_timestamp()    *)
(* read inside a transaction (microseconds) and the millisecond watermarks *)
(* date_trunc('milliseconds', ...) that travel to the devices.  The clock  *)
(* is never trusted: it may stand still and it may be stepped back, and    *)
(* every reader of it in the SQL checks for that.                          *)
(***************************************************************************)
EXTENDS Naturals

CONSTANTS
  TicksPerMs,   \* clock ticks (microseconds) in a millisecond
  MaxTime       \* bound: the clock stops here, to keep the instances finite

ASSUME ClockAssumption ==
  /\ TicksPerMs \in Nat \ {0}
  /\ MaxTime \in Nat

VARIABLE
  clock         \* what clock_timestamp() returns next

\* date_trunc('milliseconds', t)
TruncMs(t) == t - (t % TicksPerMs)

\* Time 0 is before every stamp: it stands for NULL in bounds and cursors.
NoTime == 0

Tick ==
  /\ clock < MaxTime
  /\ clock' = clock + 1

\* An operator or NTP steps the server clock back (the *_clock_regressed cases).
StepClockBack == \E t \in 1 .. (clock - 1) : clock' = t
=============================================================================
