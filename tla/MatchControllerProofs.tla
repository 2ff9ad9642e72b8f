----------------------- MODULE MatchControllerProofs -----------------------
(***************************************************************************)
(* MatchController for every choice of periods, callers and bounds.        *)
(***************************************************************************)
EXTENDS MatchController, TLAPS

(* Where the current phase lies on the timetable.                          *)
PhaseOnTimetable == phase # "Idle" => phase_start = match_start + Offset(phase)

(* What is published is at least what publish_match_time would write now.  *)
SecondsCover == match_time_s >= MatchSeconds(phase, phase_start, clock)

(* The inductive invariant.  No safety property of MatchController is      *)
(* inductive alone: whether a phase is on the timetable and not early      *)
(* rests on the times the pending calls carry.                             *)
IInv ==
  /\ TypeOK
  /\ CallsArePast
  /\ NeverEarly
  /\ PhaseOnTimetable
  /\ NoStaleMatchTime
  /\ SecondsCover

-----------------------------------------------------------------------------
(* Arithmetic of the published seconds.                                    *)

(* Division rounds down to a natural number.                               *)
LEMMA DivIsNat == ASSUME NEW a \in Nat, NEW b \in Nat \ {0} PROVE a \div b \in Nat
  BY Z3

(* Division is monotone in the dividend.                                   *)
LEMMA DivMonotone ==
  ASSUME NEW a \in Nat, NEW b \in Nat, a <= b, NEW c \in Nat \ {0}
  PROVE  a \div c <= b \div c
<1> DEFINE p == a \div c
           q == b \div c
<1>1. p \in Int /\ q \in Int
  BY DivIsNat
<1>2. c * p <= a /\ b < c * q + c
  BY Z3
<1> HIDE DEF p, q
<1>3. SUFFICES ASSUME p >= q + 1 PROVE FALSE
  BY <1>1 DEF p, q
<1>4. c * p >= c * (q + 1)
  BY <1>1, <1>3, Z3
<1>5. c * (q + 1) = c * q + c
  BY <1>1, Z3
<1> QED
  BY <1>1, <1>2, <1>4, <1>5, Z3

(* Multiplication by a natural number is monotone.                         *)
LEMMA TimesMonotone ==
  ASSUME NEW a \in Nat, NEW b \in Nat, a >= b, NEW c \in Nat
  PROVE  a * c >= b * c /\ a * c >= 0
  BY Z3

(* Seconds rounded up cover the duration they were made from.              *)
LEMMA CeilCovers ==
  ASSUME NEW d \in Nat PROVE CeilSeconds(d) * Second >= d
<1> DEFINE a == d + Second - 1
           q == a \div Second
<1>1. a \in Nat /\ Second \in Nat \ {0}
  BY DurationsAssumption
<1>2. q \in Nat /\ a < Second * q + Second
  BY <1>1, DivIsNat, Z3
<1>3. q * Second = Second * q /\ Second * q \in Nat
  BY <1>1, <1>2, Z3
<1> QED
  BY <1>1, <1>2, <1>3 DEF CeilSeconds

(* Whole milliseconds added before truncating are added to the result.     *)
LEMMA TruncatedPlus ==
  ASSUME NEW a \in Nat, NEW b \in Nat, Truncated(b) = b
  PROVE  Truncated(a + b) = Truncated(a) + b
<1> DEFINE m == Millisecond
           q == a \div m
           k == b \div m
           s == (a + b) \div m
<1>1. m \in Nat \ {0} /\ a + b \in Nat
  BY DurationsAssumption
<1>2. q \in Nat /\ k \in Nat /\ s \in Nat
  BY <1>1, DivIsNat
<1>3. m * q <= a /\ a < m * q + m /\ m * s <= a + b /\ a + b < m * s + m
  <2> HIDE DEF m
  <2> QED
    BY <1>1, Z3
<1>4. Truncated(a + b) = m * s /\ Truncated(a) = m * q /\ b = m * k
  BY <1>1 DEF Truncated
<1> HIDE DEF m, q, k, s
<1>5. m * (q + k) = m * q + m * k /\ m * (s + 1) = m * s + m
      /\ m * (q + k + 1) = m * q + m * k + m
  BY <1>1, <1>2, Z3
<1>6. m * q \in Nat /\ m * k \in Nat /\ m * s \in Nat
  BY <1>1, <1>2, Z3
<1>7. ~ (s + 1 <= q + k)
  <2> SUFFICES ASSUME s + 1 <= q + k PROVE FALSE
    OBVIOUS
  <2>1. m * (s + 1) <= m * (q + k)
    BY <1>1, <1>2, Z3
  <2> QED
    BY <1>1, <1>3, <1>4, <1>5, <1>6, <2>1
<1>8. ~ (q + k + 1 <= s)
  <2> SUFFICES ASSUME q + k + 1 <= s PROVE FALSE
    OBVIOUS
  <2>1. m * (q + k + 1) <= m * s
    BY <1>1, <1>2, Z3
  <2> QED
    BY <1>1, <1>3, <1>4, <1>5, <1>6, <2>1
<1>9. s = q + k
  BY <1>2, <1>7, <1>8
<1> QED
  BY <1>3, <1>4, <1>5, <1>6, <1>9

(* A phase's length is a natural number.                                   *)
LEMMA DurationIsNat == ASSUME NEW p \in MatchPhase PROVE duration_for(p) \in Nat
  BY DurationsAssumption DEF MatchPhase, duration_for

(* publish_match_time writes a natural number.                             *)
LEMMA MatchSecondsIsNat ==
  ASSUME NEW p \in MatchPhase, NEW s \in Int, NEW now \in Int
  PROVE  MatchSeconds(p, s, now) \in Nat
<1> DEFINE left == duration_for(p) - (now - s)
<1>1. left \in Int
  BY DurationIsNat
<1>2. CASE left >= 0
  <2>1. left + Second - 1 \in Nat
    BY <1>1, <1>2, DurationsAssumption
  <2>2. CeilSeconds(left) \in Nat
    BY <2>1, DivIsNat, DurationsAssumption DEF CeilSeconds
  <2> QED
    BY <2>2 DEF MatchSeconds, CountsDown, Clamped
<1>3. CASE ~(left >= 0)
  BY <1>3 DEF MatchSeconds, CountsDown, Clamped
<1> QED
  BY <1>2, <1>3

(* Outside Auto and Teleop publish_match_time writes 0.                    *)
LEMMA MatchSecondsOutside ==
  ASSUME NEW p, p \notin EnabledPhases, NEW s, NEW now
  PROVE  MatchSeconds(p, s, now) = 0
  BY DEF MatchSeconds, CountsDown, Clamped

(* The seconds left only go down as the clock goes up.                     *)
LEMMA MatchSecondsDecreases ==
  ASSUME NEW p \in MatchPhase, NEW s \in Int,
         NEW now \in Int, NEW later \in Int, now <= later
  PROVE  MatchSeconds(p, s, later) <= MatchSeconds(p, s, now)
<1> DEFINE left(n) == duration_for(p) - (n - s)
<1>1. left(now) \in Int /\ left(later) \in Int /\ left(later) <= left(now)
  BY DurationIsNat
<1>2. CASE p \in EnabledPhases /\ left(later) >= 0
  <2>1. /\ left(later) + Second - 1 \in Nat
        /\ left(now) + Second - 1 \in Nat
        /\ left(later) + Second - 1 <= left(now) + Second - 1
    BY <1>1, <1>2, DurationsAssumption
  <2>2. CeilSeconds(left(later)) <= CeilSeconds(left(now))
    BY <2>1, DivMonotone, DurationsAssumption DEF CeilSeconds
  <2>3. left(now) >= 0
    BY <1>1, <1>2
  <2> QED
    BY <1>2, <2>2, <2>3 DEF MatchSeconds, CountsDown, Clamped
<1>3. CASE ~(p \in EnabledPhases /\ left(later) >= 0)
  <2>1. MatchSeconds(p, s, later) = 0
    BY <1>3 DEF MatchSeconds, CountsDown, Clamped
  <2> QED
    BY <2>1, MatchSecondsIsNat
<1> QED
  BY <1>2, <1>3

-----------------------------------------------------------------------------
(* The tables of the phases.                                               *)

(* The place of every phase on the timetable.                              *)
LEMMA OffsetValues ==
  /\ Offset("Auto") = 0
  /\ Offset("AutoTeleopGap") = AutoPeriod
  /\ Offset("Teleop") = AutoPeriod + AutoTeleopGap
  /\ Offset("MatchEnded") = AutoPeriod + AutoTeleopGap + TeleopPeriod
  BY Zenon DEF Offset

(* Every phase begins a whole number of milliseconds into the match.       *)
LEMMA OffsetIsWhole ==
  ASSUME NEW p \in MatchPhase, p # "Idle"
  PROVE  Offset(p) \in Nat /\ Truncated(Offset(p)) = Offset(p)
<1> DEFINE Whole(d) == d \in Nat /\ Truncated(d) = d
<1>1. ASSUME NEW c, NEW d, Whole(c), Whole(d) PROVE Whole(c + d)
  BY <1>1, TruncatedPlus
<1>2. ASSUME NEW d \in Nat, d % Millisecond = 0 PROVE Whole(d)
  <2> DEFINE m == Millisecond
  <2>1. m \in Nat \ {0} /\ d % m = 0
    BY <1>2, DurationsAssumption
  <2> HIDE DEF m
  <2>2. d = m * (d \div m)
    BY <2>1, Z3
  <2> QED
    BY <2>2 DEF Truncated, m
<1>3. Whole(AutoPeriod) /\ Whole(AutoTeleopGap) /\ Whole(TeleopPeriod)
  BY <1>2, DurationsAssumption
<1>4. Whole(0)
  BY <1>2, DurationsAssumption
<1> HIDE DEF Whole
<1>5. Whole(AutoPeriod + AutoTeleopGap)
  BY <1>1, <1>3
<1>6. Whole(AutoPeriod + AutoTeleopGap + TeleopPeriod)
  BY <1>1, <1>3, <1>5
<1>7. Whole(Offset(p))
  BY <1>3, <1>4, <1>5, <1>6, OffsetValues DEF MatchPhase
<1> QED
  BY <1>7 DEF Whole

(* Every running phase is followed by a phase, at the end of its period.   *)
LEMMA NextPhaseOffset ==
  ASSUME NEW p \in RunningPhases
  PROVE  /\ p \in MatchPhase /\ p # "Idle"
         /\ NextPhase(p) \in MatchPhase /\ NextPhase(p) # "Idle"
         /\ Offset(p) \in Nat
         /\ Offset(NextPhase(p)) = Offset(p) + duration_for(p)
<1>1. NextPhase("Auto") = "AutoTeleopGap" /\ duration_for("Auto") = AutoPeriod
  BY Zenon DEF NextPhase, duration_for
<1>2. NextPhase("AutoTeleopGap") = "Teleop" /\ duration_for("AutoTeleopGap") = AutoTeleopGap
  BY Zenon DEF NextPhase, duration_for
<1>3. NextPhase("Teleop") = "MatchEnded" /\ duration_for("Teleop") = TeleopPeriod
  BY Zenon DEF NextPhase, duration_for
<1> QED
  BY <1>1, <1>2, <1>3, OffsetValues, DurationsAssumption DEF RunningPhases, MatchPhase

(* apply_phase writes a Boolean and one of the four modes.                 *)
LEMMA PhaseOutputs ==
  ASSUME NEW p
  PROVE  PhaseEnabled(p) \in BOOLEAN /\ PhaseMode(p) \in RobotModes
<1>1. PhaseEnabled(p) \in BOOLEAN
  BY DEF PhaseEnabled
<1>2. PhaseMode(p) \in RobotModes
  BY Zenon DEF PhaseMode, RobotModes
<1> QED
  BY <1>1, <1>2

-----------------------------------------------------------------------------
(* The parts of the invariant that an operation's call brings with it.     *)

(* What publish_match_time(now) leaves behind, for a time already read.    *)
LEMMA PublishKeepsTime ==
  ASSUME phase' \in MatchPhase, phase_start' \in Int, clock' \in Int,
         NEW now \in Int, now <= clock', publish_match_time(now)
  PROVE  /\ match_time_s' \in Nat
         /\ NoStaleMatchTime'
         /\ SecondsCover'
<1>1. match_time_s' = MatchSeconds(phase', phase_start', now)
  BY DEF publish_match_time
<1>2. match_time_s' \in Nat
  BY <1>1, MatchSecondsIsNat
<1>3. NoStaleMatchTime'
  BY <1>1, MatchSecondsOutside DEF NoStaleMatchTime
<1>4. SecondsCover'
  BY <1>1, MatchSecondsDecreases DEF SecondsCover
<1> QED
  BY <1>2, <1>3, <1>4

(* Returning from a call leaves the others as they are.                    *)
LEMMA ReturnKeepsCalls ==
  ASSUME IInv, NEW t \in Threads, Return(t), clock' = clock
  PROVE  call' \in [Threads -> Calls] /\ CallsArePast'
  BY DEF IInv, TypeOK, CallsArePast, Return, NoCall, Calls

(* The time a pending call carries is a past instant.                      *)
LEMMA CallTime ==
  ASSUME IInv, NEW t \in Threads
  PROVE  call[t].now \in Nat /\ call[t].now <= clock
  BY DEF IInv, TypeOK, CallsArePast, Calls

-----------------------------------------------------------------------------
(* The invariant is inductive.                                             *)

(* It holds when the daemon starts.                                        *)
LEMMA InitEstablishesIInv == Init => IInv
<1> SUFFICES ASSUME Init PROVE IInv
  OBVIOUS
<1>1. TypeOK
  <2>1. call \in [Threads -> Calls]
    BY DEF Init, Calls, NoCall
  <2>2. enabled \in BOOLEAN /\ mode \in RobotModes
    BY Zenon DEF Init, RobotModes
  <2> QED
    BY <2>1, <2>2 DEF Init, TypeOK, MatchPhase
<1>2. CallsArePast
  BY DEF Init, CallsArePast, NoCall
<1>3. NeverEarly /\ PhaseOnTimetable /\ NoStaleMatchTime
  BY DEF Init, NeverEarly, PhaseOnTimetable, NoStaleMatchTime
<1>4. SecondsCover
  BY MatchSecondsOutside DEF Init, SecondsCover, EnabledPhases
<1> QED
  BY <1>1, <1>2, <1>3, <1>4 DEF IInv

(* start_match and skip_to_teleop: a period begins at the caller's now.    *)
LEMMA BeginPeriod ==
  ASSUME IInv, NEW t \in Callers, NEW p \in {"Auto", "Teleop"},
         match_start' = call[t].now - Offset(p), phase_start' = call[t].now,
         apply_phase(p), publish_match_time(call[t].now), Return(t), clock' = clock
  PROVE  IInv'
<1>1. t \in Threads
  BY DEF Threads
<1>2. call[t].now \in Nat /\ call[t].now <= clock
  BY <1>1, CallTime
<1>3. p \in MatchPhase /\ p # "Idle"
  BY DEF MatchPhase
<1>4. Offset(p) \in Nat
  BY OffsetValues, DurationsAssumption
<1>5. phase' = p /\ enabled' \in BOOLEAN /\ mode' \in RobotModes
  BY PhaseOutputs DEF apply_phase
<1>6. clock' \in Nat
  BY DEF IInv, TypeOK
<1>7. match_time_s' \in Nat /\ NoStaleMatchTime' /\ SecondsCover'
  BY <1>2, <1>3, <1>5, <1>6, PublishKeepsTime
<1>8. call' \in [Threads -> Calls] /\ CallsArePast'
  BY <1>1, ReturnKeepsCalls
<1>9. TypeOK'
  BY <1>2, <1>3, <1>4, <1>5, <1>6, <1>7, <1>8 DEF TypeOK
<1>10. NeverEarly' /\ PhaseOnTimetable'
  BY <1>2, <1>4, <1>5 DEF NeverEarly, PhaseOnTimetable
<1> QED
  BY <1>7, <1>8, <1>9, <1>10 DEF IInv

(* No step of any thread breaks it.                                        *)
LEMMA NextKeepsIInv == IInv /\ [Next]_vars => IInv'
<1> SUFFICES ASSUME IInv, [Next]_vars PROVE IInv'
  OBVIOUS
<1> USE DEF IInv
<1>1. CASE AdvanceClock
  <2>1. clock \in Nat /\ clock' = clock + 1
    BY <1>1 DEF AdvanceClock, TypeOK
  <2>2. TypeOK'
    BY <1>1, <2>1 DEF AdvanceClock, TypeOK, schedule, published
  <2>3. CallsArePast'
    BY <1>1, <2>1, CallTime DEF AdvanceClock, CallsArePast
  <2>4. NeverEarly' /\ PhaseOnTimetable' /\ NoStaleMatchTime'
    BY <1>1, <2>1 DEF AdvanceClock, NeverEarly, PhaseOnTimetable, NoStaleMatchTime,
                      TypeOK, schedule, published
  <2>5. SecondsCover'
    <3>1. MatchSeconds(phase, phase_start, clock + 1) <= MatchSeconds(phase, phase_start, clock)
      BY <2>1, MatchSecondsDecreases DEF TypeOK
    <3>2. /\ MatchSeconds(phase, phase_start, clock + 1) \in Nat
          /\ MatchSeconds(phase, phase_start, clock) \in Nat
      BY <2>1, MatchSecondsIsNat DEF TypeOK
    <3> QED
      BY <1>1, <2>1, <3>1, <3>2 DEF AdvanceClock, SecondsCover, TypeOK, schedule, published
  <2> QED
    BY <2>2, <2>3, <2>4, <2>5
<1>2. ASSUME NEW t \in Threads,
             NEW op \in {"tick", "start_match", "skip_to_teleop"}, ReadClock(t, op)
      PROVE  IInv'
  <2>1. call' \in [Threads -> Calls] /\ CallsArePast'
    BY <1>2 DEF ReadClock, TypeOK, CallsArePast, Calls
  <2> QED
    BY <1>2, <2>1 DEF ReadClock, TypeOK, NeverEarly, PhaseOnTimetable, NoStaleMatchTime,
                      SecondsCover, schedule, published
<1>3. CASE tick
  <2> DEFINE now == call["ticker"].now
  <2>1. "ticker" \in Threads
    BY DEF Threads
  <2>2. now \in Nat /\ now <= clock
    BY <2>1, CallTime
  <2>3. clock' = clock /\ clock \in Nat
    BY <1>3 DEF tick, TypeOK
  <2>4. call' \in [Threads -> Calls] /\ CallsArePast'
    BY <1>3, <2>1, <2>3, ReturnKeepsCalls DEF tick
  <2> HIDE DEF now
  <2>5. CASE TickIdle(now)
    BY <2>3, <2>4, <2>5 DEF TickIdle, TypeOK, NeverEarly, PhaseOnTimetable,
                            NoStaleMatchTime, SecondsCover, schedule, published
  <2>6. CASE TickReassert(now)
    <3>1. phase' = phase /\ UNCHANGED <<match_start, phase_start>>
      BY <2>6 DEF TickReassert, apply_phase
    <3>2. enabled' \in BOOLEAN /\ mode' \in RobotModes
      BY <2>6, PhaseOutputs DEF TickReassert, apply_phase
    <3>3. match_time_s' \in Nat /\ NoStaleMatchTime' /\ SecondsCover'
      BY <2>2, <2>3, <2>6, <3>1, PublishKeepsTime DEF TickReassert, TypeOK
    <3> QED
      BY <2>3, <2>4, <3>1, <3>2, <3>3 DEF TypeOK, NeverEarly, PhaseOnTimetable
  <2>7. CASE TickAdvance(now)
    <3>1. phase \in RunningPhases /\ now - phase_start >= duration_for(phase)
      BY <2>7 DEF TickAdvance
    <3>2. /\ phase' = NextPhase(phase) /\ match_start' = match_start
          /\ phase_start' = phase_start + duration_for(phase)
      BY <2>7 DEF TickAdvance, NextStart, apply_phase
    <3>3. /\ phase # "Idle" /\ phase' \in MatchPhase /\ phase' # "Idle"
          /\ Offset(phase) \in Nat /\ Offset(phase') = Offset(phase) + duration_for(phase)
      BY <3>1, <3>2, NextPhaseOffset
    <3>4. duration_for(phase) \in Nat
      BY DurationIsNat DEF TypeOK
    <3>5. phase_start' \in Nat /\ match_start' \in Int
      BY <3>2, <3>4 DEF TypeOK
    <3>6. enabled' \in BOOLEAN /\ mode' \in RobotModes
      BY <2>7, PhaseOutputs DEF TickAdvance, apply_phase
    <3>7. match_time_s' \in Nat /\ NoStaleMatchTime' /\ SecondsCover'
      BY <2>2, <2>3, <2>7, <3>3, <3>5, PublishKeepsTime DEF TickAdvance
    <3>8. TypeOK'
      BY <2>3, <2>4, <3>3, <3>5, <3>6, <3>7 DEF TypeOK
    <3>9. NeverEarly'
      BY <2>2, <2>3, <3>1, <3>2, <3>4 DEF NeverEarly, TypeOK
    <3>10. PhaseOnTimetable'
      BY <3>2, <3>3, <3>4 DEF PhaseOnTimetable, TypeOK
    <3> QED
      BY <2>4, <3>7, <3>8, <3>9, <3>10
  <2> QED
    BY <1>3, <2>5, <2>6, <2>7 DEF tick, now
<1>4. ASSUME NEW t \in Callers, start_match(t) PROVE IInv'
  <2>1. call[t].now \in Nat
    BY CallTime DEF Threads
  <2>2. match_start' = call[t].now - Offset("Auto")
    BY <1>4, <2>1, OffsetValues DEF start_match
  <2> QED
    BY <1>4, <2>2, BeginPeriod DEF start_match
<1>5. ASSUME NEW t \in Callers, skip_to_teleop(t) PROVE IInv'
  <2>1. call[t].now \in Nat
    BY CallTime DEF Threads
  <2>2. match_start' = call[t].now - Offset("Teleop")
    BY <1>5, <2>1, OffsetValues, DurationsAssumption DEF skip_to_teleop, TeleopOrigin
  <2> QED
    BY <1>5, <2>2, BeginPeriod DEF skip_to_teleop
<1>6. CASE stop_match
  <2>1. /\ phase' = "Idle" /\ match_start' = 0 /\ phase_start' = 0 /\ match_time_s' = 0
        /\ UNCHANGED <<clock, call>> /\ clock \in Nat
    BY <1>6 DEF stop_match, apply_phase, TypeOK
  <2>2. enabled' \in BOOLEAN /\ mode' \in RobotModes
    BY <1>6, PhaseOutputs DEF stop_match, apply_phase
  <2>3. TypeOK'
    BY <2>1, <2>2 DEF TypeOK, MatchPhase
  <2>4. SecondsCover'
    BY <2>1, MatchSecondsOutside DEF SecondsCover, EnabledPhases
  <2> QED
    BY <2>1, <2>3, <2>4 DEF CallsArePast, NeverEarly, PhaseOnTimetable, NoStaleMatchTime
<1>7. CASE SetEnabled \/ SetMode
  BY <1>7 DEF SetEnabled, SetMode, TypeOK, CallsArePast, NeverEarly, PhaseOnTimetable,
              NoStaleMatchTime, SecondsCover, schedule
<1>8. CASE UNCHANGED vars
  BY <1>8 DEF vars, TypeOK, CallsArePast, NeverEarly, PhaseOnTimetable,
              NoStaleMatchTime, SecondsCover
<1> QED
  BY <1>1, <1>2, <1>3, <1>4, <1>5, <1>6, <1>7, <1>8
     DEF Next, Command, StopCommand, SetControl, Threads

-----------------------------------------------------------------------------
(* The theorems.                                                           *)

(* Every reachable state satisfies the inductive invariant.                *)
THEOREM Invariance == Spec => []IInv
  BY InitEstablishesIInv, NextKeepsIInv, PTL DEF Spec

(* Type correctness of MatchController's members, the DaemonState fields   *)
(* it writes and the calls in flight.                                      *)
THEOREM TypeCorrect == Spec => []TypeOK
<1>1. IInv => TypeOK
  BY DEF IInv
<1> QED
  BY Invariance, <1>1, PTL

(* tick() accumulates no drift: for any periods and any lateness, total    *)
(* and elapsed time in snapshot() differ by the phase's place.             *)
THEOREM NoDrift == Spec => []OnSchedule
<1>1. IInv => OnSchedule
  <2> SUFFICES ASSUME IInv, phase # "Idle", NEW n \in phase_start..clock
               PROVE  snapshot(n).total - snapshot(n).elapsed = Offset(phase)
    BY DEF OnSchedule
  <2> DEFINE a == n - phase_start
             b == Offset(phase)
  <2>1. b \in Nat /\ Truncated(b) = b
    BY OffsetIsWhole DEF IInv, TypeOK
  <2>2. phase_start = match_start + b /\ match_start \in Int /\ phase_start \in Nat
    BY DEF IInv, TypeOK, PhaseOnTimetable
  <2>3. snapshot(n).total = Truncated(n - match_start) /\ snapshot(n).elapsed = Truncated(a)
    BY DEF snapshot
  <2> HIDE DEF b
  <2>4. a \in Nat /\ n - match_start = a + b
    BY <2>1, <2>2
  <2>5. Truncated(a) \in Int
    BY <2>4, DurationsAssumption, DivIsNat DEF Truncated
  <2>6. Truncated(a + b) = Truncated(a) + b
    BY <2>1, <2>4, TruncatedPlus
  <2> HIDE DEF a
  <2> QED
    BY <2>1, <2>3, <2>4, <2>5, <2>6 DEF b
<1> QED
  BY Invariance, <1>1, PTL

(* No operation leaves the match time of a finished period published.      *)
THEOREM MatchTimeCleared == Spec => []NoStaleMatchTime
<1>1. IInv => NoStaleMatchTime
  BY DEF IInv
<1> QED
  BY Invariance, <1>1, PTL

(* The published seconds never fall below the time left in the period,     *)
(* however old the clock reading they were computed from.                  *)
THEOREM TimeLeftCovered == Spec => []TimeLeftNotHidden
<1>1. ASSUME IInv, phase \in EnabledPhases
      PROVE  match_time_s * Second >= duration_for(phase) - (clock - phase_start)
  <2> DEFINE left == duration_for(phase) - (clock - phase_start)
             sec == MatchSeconds(phase, phase_start, clock)
  <2>1. /\ phase \in MatchPhase /\ match_time_s \in Nat /\ left \in Int
        /\ Second \in Nat \ {0} /\ sec \in Nat /\ match_time_s >= sec
    BY <1>1, DurationIsNat, MatchSecondsIsNat, DurationsAssumption
       DEF IInv, TypeOK, SecondsCover
  <2>2. left >= 0 => sec * Second >= left
    BY <1>1, <2>1, CeilCovers DEF MatchSeconds, CountsDown, Clamped
  <2> HIDE DEF left, sec
  <2>3. match_time_s * Second >= sec * Second /\ match_time_s * Second >= 0
    BY <2>1, TimesMonotone
  <2> QED
    BY <2>1, <2>2, <2>3 DEF left
<1>2. IInv => TimeLeftNotHidden
  BY <1>1 DEF TimeLeftNotHidden
<1> QED
  BY Invariance, <1>2, PTL

(* MatchController implements the timetable: phases come in order, and     *)
(* none before its time, whatever the interleaving of ticks and commands.  *)
THEOREM Refinement == Spec => FollowsTimetable
<1>1. Init => Timetable!Init
  BY DEF Init, Timetable!Init
<1>2. IInv /\ [Next]_vars => [Timetable!Next]_(Timetable!vars)
  <2> SUFFICES ASSUME IInv, Next, ~ UNCHANGED Timetable!vars PROVE Timetable!Next
    BY DEF vars, Timetable!vars
  <2>1. CASE AdvanceClock
    BY <2>1 DEF AdvanceClock, schedule, IInv, TypeOK, Timetable!Next, Timetable!TimePasses
  <2>2. ASSUME NEW t \in Threads, NEW op, ReadClock(t, op) PROVE FALSE
    BY <2>2 DEF ReadClock, schedule, Timetable!vars
  <2>3. CASE tick
    <3> DEFINE now == call["ticker"].now
    <3>1. now \in Nat /\ now <= clock
      BY CallTime DEF Threads
    <3>2. clock' = clock
      BY <2>3 DEF tick
    <3> HIDE DEF now
    <3>3. ~ TickIdle(now) /\ ~ TickReassert(now)
      BY <3>2 DEF TickIdle, TickReassert, apply_phase, schedule, Timetable!vars
    <3>4. TickAdvance(now)
      BY <2>3, <3>3 DEF tick, now
    <3>5. /\ phase \in RunningPhases /\ now - phase_start >= duration_for(phase)
          /\ phase' = NextPhase(phase) /\ match_start' = match_start
      BY <3>4 DEF TickAdvance, apply_phase
    <3>6. /\ phase # "Idle" /\ Offset(phase) \in Nat
          /\ Offset(NextPhase(phase)) = Offset(phase) + duration_for(phase)
      BY <3>5, NextPhaseOffset
    <3>7. match_start + Offset(NextPhase(phase)) <= clock
      BY <3>1, <3>5, <3>6, DurationIsNat DEF IInv, TypeOK, PhaseOnTimetable
    <3> QED
      BY <3>2, <3>5, <3>7 DEF Timetable!Next, Timetable!Advance, Timetable!RunningPhases,
         RunningPhases, Timetable!NextPhase, NextPhase, Timetable!Offset, Offset
  <2>4. ASSUME NEW t \in Callers, start_match(t) PROVE Timetable!Next
    <3>1. call[t].now \in 0..clock
      BY CallTime DEF Threads, IInv, TypeOK
    <3> QED
      BY <2>4, <3>1 DEF start_match, apply_phase, Timetable!Next, Timetable!Begin
  <2>5. ASSUME NEW t \in Callers, skip_to_teleop(t) PROVE Timetable!Next
    <3>1. call[t].now \in 0..clock
      BY CallTime DEF Threads, IInv, TypeOK
    <3>2. Timetable!Offset("Teleop") = AutoPeriod + AutoTeleopGap
      BY Zenon DEF Timetable!Offset
    <3>3. match_start' = call[t].now - Timetable!Offset("Teleop")
      BY <2>5, <3>1, <3>2, DurationsAssumption DEF skip_to_teleop, TeleopOrigin
    <3> QED
      BY <2>5, <3>1, <3>3 DEF skip_to_teleop, apply_phase, Timetable!Next, Timetable!Skip
  <2>6. CASE stop_match
    BY <2>6 DEF stop_match, apply_phase, Timetable!Next, Timetable!Abort
  <2>7. CASE SetEnabled \/ SetMode
    BY <2>7 DEF SetEnabled, SetMode, schedule, Timetable!vars
  <2> QED
    BY <2>1, <2>2, <2>3, <2>4, <2>5, <2>6, <2>7
       DEF Next, Command, StopCommand, SetControl, Threads
<1> QED
  BY Invariance, <1>1, <1>2, PTL DEF Spec, FollowsTimetable, Timetable!Spec
=============================================================================
