----------------------------- MODULE Durations -----------------------------
(***************************************************************************)
(* The durations the service computes with: Go's time.Duration, a number   *)
(* of nanoseconds in an int64, whose multiplication wraps.                 *)
(***************************************************************************)
EXTENDS Integers

CONSTANTS Limit,        \* an int64 is in -Limit .. Limit - 1: 2^63
          Limit32,      \* the same for an int32: 2^31
          Second,       \* time.Second: 10^9
          StopTimeout   \* k8sJobStopTimeout, in seconds: 300

ASSUME WidthAssumption ==
  /\ Limit \in Nat \ {0} /\ Limit32 \in Nat \ {0}
  /\ Second \in Nat \ {0} /\ StopTimeout \in Nat \ {0}

\* What is left of an integer in an int64.
Signed(x) == ((x + Limit) % (2 * Limit)) - Limit

Minute == 60 * Second
Hour == 60 * Minute
Day == 24 * Hour

Lengths == [m |-> Minute, h |-> Hour, d |-> Day]

Length(unit) == Lengths[unit]

\* A retention time as it is written.
Texts == [n : Nat, unit : DOMAIN Lengths]

-----------------------------------------------------------------------------
(* parseRetentionTime: a text is a number and a unit.  Anything else does  *)
(* not match the expression and is an error.                               *)

\* Days are multiplied in an int64, so that only Atoi can fail;
\* time.ParseDuration, which takes the other units, notices an overflow.
ParseFails(n, unit) == (IF unit = "d" THEN n ELSE n * Length(unit)) >= Limit

Parsed(n, unit) == Signed(n * Length(unit))

\* JobsConfig.IsValid: zero keeps failed jobs for good.
RetentionValid(d) == d = 0 \/ d >= Minute

-----------------------------------------------------------------------------
(* What becomes of them.                                                   *)

\* The deadline of a docker job's monitor, from MaxDurationSec.  The context of a
\* timeout that is not positive is over at once.
MonitorTimeout(sec) == Signed(sec * Second)

\* No time for the pod to stop.
WatchTimeout_NoMargin(sec) == Signed(sec * Second)

\* How long a kubernetes job is watched; its pod has MaxDurationSec.
WatchTimeout(sec) == Signed(Signed(sec + StopTimeout) * Second)

\* ttlSecondsAfterFinished for a retention time: converting a float64 that is no
\* int32 gives what the machine makes of it: the least one (amd64) or the greatest
\* (arm64).
TTLs(d) == IF d \div Second < Limit32 THEN {d \div Second} ELSE {-Limit32, Limit32 - 1}
=============================================================================
