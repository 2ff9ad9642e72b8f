------------------------- MODULE PeriodicTaskProofs -------------------------
(***************************************************************************)
(* run_periodic keeps its cadence and hears its stop, for every period and *)
(* every bound on the clock.                                               *)
(***************************************************************************)
EXTENDS PeriodicTask, TLAPS

(* The types without the bounds, which follow from the rest.               *)
Types ==
  /\ now \in Int /\ 0 <= now /\ now <= Horizon
  /\ deadline \in Int /\ ticks \in Nat /\ late \in Nat
  /\ pc \in Places /\ stop_pc \in Places \union {"none"}
  /\ stop \in BOOLEAN

(* Past the sleep, and before the deadline moves, the deadline is over.    *)
DeadlinePassed == pc \in {"recheck", "due"} => deadline <= now

(* Before a stop there is no late tick; after it the loop is where it was  *)
(* or has gone on from there, with at most the one tick decided on.        *)
StopStage ==
  /\ ~ stop => stop_pc = "none" /\ late = 0
  /\ stop =>
       /\ stop_pc \in Places
       /\ pc = "due" => stop_pc = "due" /\ late = 0
       /\ late <= 1
       /\ stop_pc # "due" => late = 0

IInv == Types /\ NoDrift /\ DeadlinePassed /\ StopStage

(* The loop starts in the invariant.                                       *)
LEMMA InitIInv == Init => IInv
<1> SUFFICES ASSUME Init PROVE IInv
    OBVIOUS
<1>1. Types
  <2>1. Horizon = MaxTime
        BY DEF Init, Horizon
  <2>2. stop \in BOOLEAN
        BY Zenon DEF Init
  <2>3. /\ now \in Int /\ 0 <= now /\ now <= Horizon
        /\ deadline \in Int /\ ticks \in Nat /\ late \in Nat
        BY <2>1, PeriodicAssumption DEF Init
  <2>4. pc \in Places /\ stop_pc \in Places \union {"none"}
        BY DEF Init, Places
  <2> QED
        BY <2>2, <2>3, <2>4 DEF Types
<1>2. DeadlinePassed /\ StopStage
      BY DEF Init, DeadlinePassed, StopStage
<1>3. NoDrift
  <2>1. (0 + 1) * Period = Period /\ 0 * Period = 0
        BY PeriodicAssumption
  <2> QED
        BY <2>1 DEF Init, NoDrift
<1> QED
    BY <1>1, <1>2, <1>3 DEF IInv

(* Every step of the loop, of the clock and of the stopping thread keeps   *)
(* the invariant.                                                          *)
LEMMA NextIInv == IInv /\ [Next]_vars => IInv'
<1> SUFFICES ASSUME IInv, [Next]_vars PROVE IInv'
    OBVIOUS
<1> USE PeriodicAssumption DEF IInv, Types, DeadlinePassed, StopStage, Places, Horizon
<1>1. CASE AdvanceClock
      BY <1>1 DEF AdvanceClock, NoDrift
<1>2. CASE RequestStop
      BY <1>2 DEF RequestStop, NoDrift
<1>3. CASE Test
      BY <1>3 DEF Test, NoDrift
<1>4. CASE Wake
      BY <1>4 DEF Wake, SleepOver, NoDrift
<1>5. CASE Recheck
      BY <1>5 DEF Recheck, AfterSleep, NoDrift
<1>6. CASE BeginTick
  <2>1. /\ pc = "due" /\ pc' = "tick" /\ ticks' = ticks + 1
        /\ deadline' = deadline + Period
        /\ late' = IF stop THEN late + 1 ELSE late
        /\ UNCHANGED <<now, stop, stop_pc>>
        BY <1>6 DEF BeginTick, NextDeadline
  <2>2. NoDrift'
    <3>1. (ticks + 1) * Period <= now
          BY <2>1 DEF NoDrift
    <3>2. (ticks + 1 + 1) * Period = (ticks + 1) * Period + Period
          OBVIOUS
    <3> QED
          BY <2>1, <3>1, <3>2 DEF NoDrift
  <2> QED
        BY <2>1, <2>2
<1>7. CASE EndTick
      BY <1>7 DEF EndTick, NoDrift
<1>8. CASE UNCHANGED vars
      BY <1>8 DEF vars, NoDrift
<1> QED
    BY <1>1, <1>2, <1>3, <1>4, <1>5, <1>6, <1>7, <1>8 DEF Next, Step

(* The loop never leaves the invariant.                                    *)
THEOREM Invariance == Spec => []IInv
BY InitIInv, NextIInv, PTL DEF Spec

(* Deadlines stay on multiples of the period and no tick is early.         *)
THEOREM CadenceKept == Spec => []NoDrift
<1>1. IInv => NoDrift
      BY DEF IInv
<1> QED
    BY <1>1, Invariance, PTL

(* After a stop request no tick begins but one already decided on.         *)
THEOREM StopIsHeard == Spec => []StopHeard
<1>1. IInv => StopHeard
      BY DEF IInv, Types, StopStage, StopHeard
<1> QED
    BY <1>1, Invariance, PTL

(* A product that stays below a number has a factor below its quotient.    *)
LEMMA QuotientBound ==
  ASSUME NEW n \in Nat, NEW a \in Nat, NEW p \in Nat \ {0}, n * p <= a
  PROVE  n <= a \div p
<1> DEFINE q == a \div p
<1>1. q \in Nat /\ a < p * q + p
      BY Z3
<1> HIDE DEF q
<1>2. ASSUME n >= q + 1 PROVE FALSE
  <2>1. n * p >= (q + 1) * p
        BY <1>1, <1>2, Z3
  <2>2. (q + 1) * p = p * q + p
        BY <1>1, Z3
  <2>3. n * p \in Nat /\ p * q \in Nat
        BY <1>1, Z3
  <2> QED
        BY <1>1, <2>1, <2>2, <2>3
<1> QED
    BY <1>1, <1>2 DEF q

(* The loop keeps its types, and never ticks more often than the time that *)
(* has passed has room for, however it is scheduled.                       *)
THEOREM TypeCorrect == Spec => []TypeOK
<1>1. IInv => TypeOK
  <2> SUFFICES ASSUME IInv PROVE TypeOK
      OBVIOUS
  <2> USE PeriodicAssumption DEF IInv, Types
  <2>1. now \in 0 .. MaxTime + Period
        BY DEF Horizon
  <2>2. ticks * Period \in Nat /\ (ticks + 1) * Period \in Nat
        BY Z3
  <2>3. ticks * Period <= MaxTime + Period
        BY <2>1, <2>2 DEF NoDrift
  <2>4. ticks <= (MaxTime + Period) \div Period
        BY <2>3, QuotientBound
  <2>5. (MaxTime + Period) \div Period \in Int
        BY Z3
  <2>6. deadline \in Nat
        BY <2>2 DEF NoDrift
  <2> QED
        BY <2>1, <2>4, <2>5, <2>6 DEF TypeOK
<1> QED
    BY <1>1, Invariance, PTL
=============================================================================
