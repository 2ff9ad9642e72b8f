-------------------------- MODULE MatchController --------------------------
(***************************************************************************)
(* MatchController: the thread that ticks every 50 ms and the web handlers *)
(* that start, stop and skip a match, on one steady clock.                 *)
(*                                                                         *)
(* The body of every operation runs under mu_ and is one step.  Its `now`  *)
(* argument is not: each caller reads steady_clock::now() BEFORE it takes  *)
(* the lock, so between the read and the body time passes and other bodies *)
(* run.  call[t] is the operation thread t has read the clock for.         *)
(*                                                                         *)
(* enabled and mode belong to DaemonState, where the web UI and the        *)
(* gamepad ingest write them too (SetControl); the steps in which          *)
(* apply_phase writes them are told apart in ControlPlane.                 *)
(***************************************************************************)
EXTENDS MatchTimes

CONSTANTS
  Callers,        \* threads that run web handlers
  LastCommand,    \* bound: no operator command is begun after this instant
  MaxClock        \* bound: the clock stops here

ASSUME CallersAssumption == "ticker" \notin Callers

ASSUME BoundsAssumption == LastCommand \in Int /\ MaxClock \in Int

VARIABLES
  clock, phase, match_start, phase_start,
  enabled, mode, match_time_s,
  call

vars == <<clock, phase, match_start, phase_start, enabled, mode, match_time_s, call>>

schedule  == <<phase, match_start, phase_start>>
published == <<enabled, mode, match_time_s>>

Threads == Callers \cup {"ticker"}

NoCall == [op |-> "none", now |-> 0]

Init ==
  /\ clock = 0
  /\ phase = "Idle" /\ match_start = 0 /\ phase_start = 0
  /\ enabled = FALSE /\ mode = RobotMode.Unknown /\ match_time_s = 0
  /\ call = [t \in Threads |-> NoCall]

AdvanceClock ==
  /\ clock < MaxClock
  /\ clock' = clock + 1
  /\ UNCHANGED <<schedule, published, call>>

(* `op(steady_clock::now())`: the argument is evaluated, mu_ not yet held. *)
ReadClock(t, op) ==
  /\ call[t] = NoCall
  /\ call' = [call EXCEPT ![t] = [op |-> op, now |-> clock]]
  /\ UNCHANGED <<clock, schedule, published>>

Return(t) == call' = [call EXCEPT ![t] = NoCall]

apply_phase(p) ==
  /\ enabled' = PhaseEnabled(p)
  /\ mode' = PhaseMode(p)
  /\ phase' = p

publish_match_time(now) == match_time_s' = MatchSeconds(phase', phase_start', now)

start_match(t) ==
  /\ call[t].op = "start_match"
  /\ match_start' = call[t].now
  /\ phase_start' = call[t].now
  /\ apply_phase("Auto")
  /\ publish_match_time(call[t].now)
  /\ Return(t)
  /\ UNCHANGED clock

(* Mutant: the match counts from now.                                      *)
TeleopAsOrigin(now) == now

(* The start of a match whose Teleop begins now.                           *)
TeleopOrigin(now) == now - AutoPeriod - AutoTeleopGap

skip_to_teleop(t) ==
  /\ call[t].op = "skip_to_teleop"
  /\ match_start' = TeleopOrigin(call[t].now)
  /\ phase_start' = call[t].now
  /\ apply_phase("Teleop")
  /\ publish_match_time(call[t].now)
  /\ Return(t)
  /\ UNCHANGED clock

stop_match ==
  /\ apply_phase("Idle")
  /\ match_start' = 0
  /\ phase_start' = 0
  /\ match_time_s' = 0
  /\ UNCHANGED <<clock, call>>

(* The ways through tick(now), each the whole critical section.            *)
TickIdle(now) ==
  /\ phase \notin RunningPhases
  /\ UNCHANGED <<schedule, published>>

TickReassert(now) ==
  /\ phase \in RunningPhases
  /\ now - phase_start < duration_for(phase)
  /\ UNCHANGED <<match_start, phase_start>>
  /\ apply_phase(phase)
  /\ publish_match_time(now)

(* Mutant: the next phase starts when the tick noticed.                    *)
StartNoticed(now) == now

(* Where an expired phase hands over, whenever that is noticed.            *)
NextStart(now) == phase_start + duration_for(phase)

TickAdvance(now) ==
  /\ phase \in RunningPhases
  /\ now - phase_start >= duration_for(phase)
  /\ phase_start' = NextStart(now)
  /\ UNCHANGED match_start
  /\ apply_phase(NextPhase(phase))
  /\ publish_match_time(now)

tick ==
  /\ call["ticker"].op = "tick"
  /\ LET now == call["ticker"].now
     IN  TickIdle(now) \/ TickReassert(now) \/ TickAdvance(now)
  /\ Return("ticker")
  /\ UNCHANGED clock

(* The record snapshot(now) returns to a web handler.                      *)
snapshot(now) ==
  IF phase = "Idle"
  THEN [phase |-> phase, elapsed |-> 0, total |-> 0, remaining |-> 0]
  ELSE LET elapsed == Truncated(now - phase_start)
           left    == duration_for(phase) - elapsed
       IN  [phase     |-> phase,
            elapsed   |-> elapsed,
            total     |-> Truncated(now - match_start),
            remaining |-> IF left < 0 THEN 0 ELSE left]

(* DaemonState::set_enabled and set_mode called by the manual controls.    *)
SetEnabled ==
  /\ enabled' \in BOOLEAN
  /\ UNCHANGED <<clock, schedule, mode, match_time_s, call>>

SetMode ==
  /\ mode' \in RobotModes
  /\ UNCHANGED <<clock, schedule, enabled, match_time_s, call>>

SetControl == clock <= LastCommand /\ (SetEnabled \/ SetMode)

Command(t) ==
  clock <= LastCommand /\ \E op \in {"start_match", "skip_to_teleop"} : ReadClock(t, op)

StopCommand == clock <= LastCommand /\ stop_match

Next ==
  \/ AdvanceClock
  \/ ReadClock("ticker", "tick")
  \/ tick
  \/ \E t \in Callers : Command(t) \/ start_match(t) \/ skip_to_teleop(t)
  \/ StopCommand
  \/ SetControl

Spec == Init /\ [][Next]_vars

(* Time passes, the tick thread is scheduled, a handler that has begun     *)
(* gets the lock.  Operators owe nobody a command.                         *)
Fairness ==
  /\ WF_vars(AdvanceClock)
  /\ WF_vars(ReadClock("ticker", "tick"))
  /\ WF_vars(tick)
  /\ \A t \in Callers : WF_vars(start_match(t) \/ skip_to_teleop(t))

FairSpec == Spec /\ Fairness

-----------------------------------------------------------------------------
(* Properties.                                                             *)

Calls == [op : {"none", "tick", "start_match", "skip_to_teleop"}, now : Nat]

(* Every variable has its type.                                            *)
TypeOK ==
  /\ clock \in Nat
  /\ phase \in MatchPhase
  /\ match_start \in Int
  /\ phase_start \in Nat
  /\ enabled \in BOOLEAN
  /\ mode \in RobotModes
  /\ match_time_s \in Nat
  /\ call \in [Threads -> Calls]

(* The drift the comment in tick() speaks of does not accumulate: whatever *)
(* the lateness of the ticks, the elapsed time and the total time the web  *)
(* UI reports for any instant of the phase differ by exactly the phase's   *)
(* place on the timetable, after skip_to_teleop as after start_match.  (A  *)
(* reading older than the phase may be a millisecond off: its elapsed time *)
(* is negative and rounded the other way.)                                 *)
OnSchedule ==
  phase # "Idle" =>
    \A n \in phase_start..clock : snapshot(n).total - snapshot(n).elapsed = Offset(phase)

(* No phase begins before its time: a tick that read the clock before a    *)
(* restart cannot cut the restarted period short.                          *)
NeverEarly == phase_start <= clock

(* Outside Auto and Teleop the published match time is 0: no operation     *)
(* leaves the count of an earlier period behind.                           *)
NoStaleMatchTime == phase \notin EnabledPhases => match_time_s = 0

(* The driver is never told a period is over, or nearer its end than it    *)
(* is: the whole seconds publish_match_time last wrote, from a clock read  *)
(* some time ago, cover the time that is really left.                      *)
TimeLeftNotHidden ==
  phase \in EnabledPhases =>
    match_time_s * Second >= duration_for(phase) - (clock - phase_start)

(* The time a call carries has been read from the clock, so it is past.    *)
CallsArePast == \A t \in Threads : call[t].now <= clock

(* tick() is the only thing that moves a match along; a match that nobody  *)
(* restarts comes to its end, however the commands interleaved with ticks. *)
MatchTerminates == phase \in RunningPhases ~> phase \notin RunningPhases

(* MatchController implements the timetable.                               *)
Timetable ==
  INSTANCE MatchSchedule WITH clock <- clock, phase <- phase, match_start <- match_start

FollowsTimetable == Timetable!Spec
=============================================================================
