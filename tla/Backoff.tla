------------------------------- MODULE Backoff -------------------------------
(***************************************************************************)
(* The delay before a restart (handleFailure, supervisor.go:410-435): a    *)
(* power of the multiplier computed as a float, converted to a duration of *)
(* Width bits and only then compared with max_delay.  A float too large    *)
(* for the duration becomes what the processor makes of it: the least      *)
(* value on amd64, the greatest on arm64.  Multipliers are whole numbers   *)
(* here, and a float is exact.                                             *)
(***************************************************************************)
EXTENDS Integers

CONSTANTS
    Width,             \* bits of a duration, 64 in the code
    Delay,             \* restart.delay
    BackoffMultiplier, \* restart.backoff.multiplier
    MaxDelay,          \* restart.backoff.max_delay, 0 for none
    MaxAttempts,       \* restart.max_attempts, 0 for no limit
    BoundAttempts      \* bound: restarts in a row

VARIABLES
    attempts,   \* p.restartAttempts
    delay,      \* the argument of the last Sleep, which returns at once if it is negative
    gaveUp      \* max_attempts was reached

vars == <<attempts, delay, gaveUp>>

MaxDuration == 2 ^ (Width - 1) - 1
MinDuration == -(2 ^ (Width - 1))

(* time.Duration of a float.                                               *)
ToDuration(x) == IF x <= MaxDuration THEN {x} ELSE {MinDuration, MaxDuration}

(* A multiplier that is not positive stands for 2.                         *)
Multiplier == IF BackoffMultiplier <= 0 THEN 2 ELSE BackoffMultiplier

Capped(d) == IF MaxDelay > 0 /\ d > MaxDelay THEN MaxDelay ELSE d

(* The delays of a restart after n attempts; the first is not multiplied.  *)
BackoffDelays(n) ==
    IF n > 0 THEN {Capped(d) : d \in ToDuration(Delay * Multiplier ^ n)} ELSE {Delay}

Init ==
    /\ attempts = 0
    /\ delay = 0
    /\ gaveUp = FALSE

(* handleFailure gives up, or counts the attempt and sleeps.               *)
Fails ==
    /\ ~gaveUp
    /\ attempts < BoundAttempts
    /\ \/ /\ MaxAttempts > 0 /\ attempts >= MaxAttempts
          /\ gaveUp' = TRUE
          /\ UNCHANGED <<attempts, delay>>
       \/ /\ ~(MaxAttempts > 0 /\ attempts >= MaxAttempts)
          /\ delay' \in BackoffDelays(attempts)
          /\ attempts' = attempts + 1
          /\ UNCHANGED gaveUp

(* A check succeeds: resetRestartAttempts.                                 *)
Recovers ==
    /\ attempts > 0
    /\ attempts' = 0
    /\ UNCHANGED <<delay, gaveUp>>

Next == Fails \/ Recovers

Spec == Init /\ [][Next]_vars

(* While a tunnel keeps failing its delay never shrinks: the field backoff *)
(* is an "exponential backoff" and max_delay the "Cap for the maximum      *)
(* delay." (docs/configuration.md:57, 64), not the end of all delay.       *)
DelaysNeverShrink == [][attempts' > attempts /\ attempts > 0 => delay' >= delay]_vars
=============================================================================
