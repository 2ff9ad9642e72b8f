---------------------------- MODULE MatchPhases ----------------------------
(***************************************************************************)
(* The phases of a practice match and what each one means for the robot:   *)
(* the MatchPhase enumeration, the order tick() goes through it and what   *)
(* apply_phase writes.                                                     *)
(***************************************************************************)
EXTENDS ControlData

MatchPhase == {"Idle", "Auto", "AutoTeleopGap", "Teleop", "MatchEnded"}

(* The phases in which tick() acts.                                        *)
RunningPhases == {"Auto", "AutoTeleopGap", "Teleop"}

(* The phases in which the robot is enabled and match time counts down.    *)
EnabledPhases == {"Auto", "Teleop"}

(* Mutant: the gap's case is missing from the switch.                      *)
NextPhaseStuck(p) ==
  CASE p = "Auto"   -> "AutoTeleopGap"
    [] p = "Teleop" -> "MatchEnded"
    [] OTHER        -> p

(* The switch of tick(): where an expired phase goes.                      *)
NextPhase(p) ==
  CASE p = "Auto"          -> "AutoTeleopGap"
    [] p = "AutoTeleopGap" -> "Teleop"
    [] p = "Teleop"        -> "MatchEnded"
    [] OTHER               -> p

(* What apply_phase writes to DaemonState.                                 *)
PhaseEnabled(p) == p \in EnabledPhases

PhaseMode(p) ==
  CASE p = "Auto"   -> RobotMode.Auto
    [] p = "Teleop" -> RobotMode.Teleop
    [] OTHER        -> RobotMode.Unknown
=============================================================================
