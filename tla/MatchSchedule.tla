--------------------------- MODULE MatchSchedule ---------------------------
(***************************************************************************)
(* What a match promises, without saying how it is driven: a timetable     *)
(* fixed by one instant, the start of the match.  Phases follow each other *)
(* in order, one at a time, none before its time on the timetable, however *)
(* late or irregular the steps that move it are.                           *)
(***************************************************************************)
EXTENDS MatchTimes

VARIABLES
  clock,        \* the current instant
  phase,
  match_start   \* the instant the timetable counts from; 0 when there is none

vars == <<clock, phase, match_start>>

Init == clock \in Nat /\ phase = "Idle" /\ match_start = 0

TimePasses == clock' \in Nat /\ clock' > clock /\ UNCHANGED <<phase, match_start>>

(* A match begins at an instant somebody read from the clock earlier.      *)
Begin == \E s \in 0..clock : phase' = "Auto" /\ match_start' = s

(* Teleop begins now: the timetable is the one on which it is due now.     *)
Skip == \E s \in 0..clock : phase' = "Teleop" /\ match_start' = s - Offset("Teleop")

Abort == phase' = "Idle" /\ match_start' = 0

Advance ==
  /\ phase \in RunningPhases
  /\ match_start + Offset(NextPhase(phase)) <= clock
  /\ phase' = NextPhase(phase)
  /\ UNCHANGED match_start

Next ==
  \/ TimePasses
  \/ UNCHANGED clock /\ (Begin \/ Skip \/ Abort \/ Advance)

Spec == Init /\ [][Next]_vars
=============================================================================
