-------------------------------- MODULE Retry --------------------------------
(* How long a failed attempt waits for the next one. *)
EXTENDS Naturals

CONSTANTS BaseDelay, MaxDelay

\* The loop of Backoff, which ends early once doubling would reach MaxDelay
Doubled[i \in Nat] ==
  IF i = 0 THEN BaseDelay
  ELSE IF Doubled[i - 1] >= MaxDelay \div 2 THEN MaxDelay ELSE 2 * Doubled[i - 1]

Backoff_Uncapped(attempt) == BaseDelay * 2^attempt
Backoff(attempt) == IF Doubled[attempt] > MaxDelay THEN MaxDelay ELSE Doubled[attempt]

\* Every delay that BackoffWithJitter can draw; the first attempt is number 1
BackoffWithJitter_FromZero(attempt) ==
  IF attempt <= 1 THEN {BaseDelay} ELSE 0..Backoff(attempt - 1)
BackoffWithJitter(attempt) ==
  LET base == Backoff(attempt - 1)
      half == base \div 2
  IN  IF attempt <= 1 THEN {BaseDelay}
      ELSE IF half = 0 THEN {base} ELSE half..(half + half)
=============================================================================
