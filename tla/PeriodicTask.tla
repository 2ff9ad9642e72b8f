---------------------------- MODULE PeriodicTask ----------------------------
(***************************************************************************)
(* run_periodic, the loop of every periodic thread of the daemon.  Time is *)
(* counted from the reading of the clock before the loop; it goes on while *)
(* the thread sleeps, ticks or is not scheduled, so a tick may be slow and *)
(* a wake-up as late as one likes.  Another thread may request the stop    *)
(* between any two steps.                                                  *)
(***************************************************************************)
EXTENDS Integers

CONSTANTS
  Period,   \* period
  MaxTime   \* bound: the clock; a period longer once a stop is requested,
            \* so that a sleeper still wakes

ASSUME PeriodicAssumption == Period \in Nat \ {0} /\ MaxTime \in Nat

VARIABLES
  now,      \* the steady clock
  deadline, \* deadline
  pc,       \* where the thread is
  stop,     \* st.stop_requested()
  ticks,    \* ticks begun
  late,     \* of these, begun after the stop was requested
  stop_pc   \* where the thread was when it was requested

vars == <<now, deadline, pc, stop, ticks, late, stop_pc>>

Init ==
  /\ now = 0 /\ deadline = Period
  /\ pc = "test" /\ stop = FALSE
  /\ ticks = 0 /\ late = 0 /\ stop_pc = "none"

-----------------------------------------------------------------------------
Horizon == IF stop THEN MaxTime + Period ELSE MaxTime

AdvanceClock ==
  /\ now < Horizon
  /\ now' = now + 1
  /\ UNCHANGED <<deadline, pc, stop, ticks, late, stop_pc>>

RequestStop ==
  /\ ~ stop /\ stop' = TRUE
  /\ stop_pc' = pc
  /\ UNCHANGED <<now, deadline, pc, ticks, late>>

(* The condition of the while.                                             *)
Test ==
  /\ pc = "test"
  /\ pc' = IF stop THEN "done" ELSE "sleep"
  /\ UNCHANGED <<now, deadline, stop, ticks, late, stop_pc>>

(* Mutant: the sleep returns at once.                                      *)
AtOnce == TRUE

SleepOver == now >= deadline

Wake ==
  /\ pc = "sleep" /\ SleepOver
  /\ pc' = "recheck"
  /\ UNCHANGED <<now, deadline, stop, ticks, late, stop_pc>>

(* Mutants: the stop is not looked at after the sleep; it is, and the loop *)
(* goes on sleeping.                                                       *)
StopMissed == "due"

StopSleptOver == IF stop THEN "sleep" ELSE "due"

AfterSleep == IF stop THEN "done" ELSE "due"

Recheck ==
  /\ pc = "recheck"
  /\ pc' = AfterSleep
  /\ UNCHANGED <<now, deadline, stop, ticks, late, stop_pc>>

(* Mutants: the next deadline counts from now; missed deadlines are        *)
(* skipped.                                                                *)
DeadlineFromNow == now + Period

DeadlineSkipping == ((now \div Period) + 1) * Period

NextDeadline == deadline + Period

BeginTick ==
  /\ pc = "due" /\ pc' = "tick"
  /\ deadline' = NextDeadline
  /\ ticks' = ticks + 1
  /\ late' = IF stop THEN late + 1 ELSE late
  /\ UNCHANGED <<now, stop, stop_pc>>

EndTick ==
  /\ pc = "tick" /\ pc' = "test"
  /\ UNCHANGED <<now, deadline, stop, ticks, late, stop_pc>>

Step == Test \/ Wake \/ Recheck \/ BeginTick \/ EndTick

Next == AdvanceClock \/ RequestStop \/ Step

Spec == Init /\ [][Next]_vars

(* Time goes on, the thread is scheduled and a tick returns.               *)
FairSpec == Spec /\ WF_vars(AdvanceClock) /\ WF_vars(Step)

-----------------------------------------------------------------------------
(* Properties.                                                             *)

Places == {"test", "sleep", "recheck", "due", "tick", "done"}

(* Every variable has its type; no more ticks than the time has room for.  *)
TypeOK ==
  /\ now \in 0 .. MaxTime + Period
  /\ deadline \in Nat
  /\ pc \in Places /\ stop_pc \in Places \union {"none"}
  /\ stop \in BOOLEAN
  /\ ticks \in 0 .. (MaxTime + Period) \div Period
  /\ late \in Nat

(* However slow the ticks and late the wake-ups, the deadlines stay on     *)
(* multiples of the period, and tick n never begins before n periods have  *)
(* passed.                                                                 *)
NoDrift ==
  /\ deadline = (ticks + 1) * Period
  /\ ticks * Period <= now

(* Once a stop is requested no tick begins, whatever the backlog of missed *)
(* deadlines, except the one the loop had already decided on.              *)
StopHeard == late <= IF stop_pc = "due" THEN 1 ELSE 0

(* A requested stop ends the loop: the join() in every stop() returns.     *)
StopEnds == stop ~> pc = "done"

(* Without a stop no deadline is lost: in the end there were as many ticks *)
(* as periods have passed.                                                 *)
CatchesUp == <>(pc = "done" \/ ticks = MaxTime \div Period)
=============================================================================
