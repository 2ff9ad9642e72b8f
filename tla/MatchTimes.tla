---------------------------- MODULE MatchTimes -----------------------------
(***************************************************************************)
(* MatchDurations and the arithmetic of MatchController on them.           *)
(* Instants and durations are integers in one unit, finer than the         *)
(* millisecond the periods are given in; Second and Millisecond are so     *)
(* many units (match time is published in whole seconds, the web UI shows  *)
(* whole milliseconds).                                                    *)
(***************************************************************************)
EXTENDS MatchPhases

CONSTANTS AutoPeriod, AutoTeleopGap, TeleopPeriod, Second, Millisecond

ASSUME DurationsAssumption ==
  /\ AutoPeriod \in Nat
  /\ AutoTeleopGap \in Nat
  /\ TeleopPeriod \in Nat
  /\ Second \in Nat \ {0} /\ Millisecond \in Nat \ {0}
  /\ AutoPeriod % Millisecond = 0 /\ AutoTeleopGap % Millisecond = 0
  /\ TeleopPeriod % Millisecond = 0

duration_for(p) ==
  CASE p = "Auto"          -> AutoPeriod
    [] p = "AutoTeleopGap" -> AutoTeleopGap
    [] p = "Teleop"        -> TeleopPeriod
    [] OTHER               -> 0

(* Mutant: std::chrono::floor.                                             *)
FloorSeconds(d) == d \div Second

(* std::chrono::ceil<seconds> of a duration that is not negative.          *)
CeilSeconds(d) == (d + Second - 1) \div Second

(* Mutant: the gap counts down too.                                        *)
CountsWhileRunning(p) == p \in RunningPhases

(* The phases publish_match_time counts down in.                           *)
CountsDown(p) == p \in EnabledPhases

(* Mutant: a late tick publishes a negative remaining time.                *)
Unclamped(remaining) == CeilSeconds(remaining)

(* `if (remaining < 0) remaining = 0`, then whole seconds.                 *)
Clamped(remaining) == IF remaining >= 0 THEN CeilSeconds(remaining) ELSE 0

(* What publish_match_time(now) writes when the phase is p, begun at s.    *)
MatchSeconds(p, s, now) ==
  IF CountsDown(p) THEN Clamped(duration_for(p) - (now - s)) ELSE 0

(* duration_cast<milliseconds>: towards zero.                              *)
Truncated(d) ==
  IF d >= 0 THEN Millisecond * (d \div Millisecond) ELSE - (Millisecond * ((- d) \div Millisecond))

(* When phase p begins, counted from the start of the match.               *)
Offset(p) ==
  CASE p = "AutoTeleopGap" -> AutoPeriod
    [] p = "Teleop"        -> AutoPeriod + AutoTeleopGap
    [] p = "MatchEnded"    -> AutoPeriod + AutoTeleopGap + TeleopPeriod
    [] OTHER               -> 0
=============================================================================
