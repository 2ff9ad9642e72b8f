------------------------------ MODULE WebPage ------------------------------
(***************************************************************************)
(* The page a browser shows of the daemon: the script of kRootHtml and     *)
(* WebUI::handle_state, over the writers of ControlPlane.                  *)
(*                                                                         *)
(* refresh() runs once a second (setInterval) and after every button's     *)
(* POST; its fetch may take longer, so several calls are under way and     *)
(* their responses come in any order.  handle_state copies DaemonState     *)
(* under its mutex and the phase under mu_, one after the other, while the *)
(* writers go on.  call[r] is the r-th refresh under way.                  *)
(*                                                                         *)
(* setControl awaits its POST before it refreshes.  press is the page's    *)
(* last setControl as long as it is the last input the daemon got, with    *)
(* the fields it asked for that nobody else was about to write.  The       *)
(* refresh after any other POST comes at no particular time and is one of  *)
(* the interval's.                                                         *)
(*                                                                         *)
(* The publisher writes nothing the page reads and is left out, as are the *)
(* times, the counts and the cadence figures of the response.              *)
(***************************************************************************)
EXTENDS ControlPlane

CONSTANTS
  Refreshes,     \* refresh() calls that may be under way at once
  MaxFailures    \* bound: fetches that fail

ASSUME PageAssumption == MaxFailures \in Nat

VARIABLES
  content,     \* what the page shows
  call,
  press,
  failures     \* how many fetches have failed

page == <<content, call, press, failures>>

Loading      == [is |-> "loading"]
Disconnected == [is |-> "disconnected"]

NoCall  == [at |-> "none"]
NoPress == [at |-> "none"]

(* Mutant: the fallback of the switch takes in a mode that has a name.     *)
mode_name_short(m) ==
  CASE m = RobotMode.Auto   -> "auto"
    [] m = RobotMode.Teleop -> "teleop"
    [] OTHER                -> ""

mode_name(m) ==
  CASE m = RobotMode.Auto   -> "auto"
    [] m = RobotMode.Teleop -> "teleop"
    [] m = RobotMode.Test   -> "test"
    [] OTHER                -> "unknown"

match_phase_name(p) ==
  CASE p = "Idle"          -> "idle"
    [] p = "Auto"          -> "auto"
    [] p = "AutoTeleopGap" -> "auto_teleop_gap"
    [] p = "Teleop"        -> "teleop"
    [] p = "MatchEnded"    -> "match_ended"

(* "control" of the response, from the view of DaemonState.                *)
Control(v) ==
  [enabled |-> v.enabled, mode |-> mode_name(v.mode), alliance |-> v.alliance, estop |-> v.e_stop]

(* The rows of the page, from such a control and the phase p.              *)
State(control, p) == [is |-> "state", phase |-> match_phase_name(p), control |-> control]

PageInit ==
  /\ Init
  /\ content = Loading /\ call = [r \in Refreshes |-> NoCall] /\ press = NoPress
  /\ failures = 0

(* Mutants: no setInterval; a failed fetch ends the refreshing.            *)
NotLoaded == content = Loading

Connected == content # Disconnected

(* The interval fires whatever the page shows.                             *)
IntervalFires == TRUE

Send(r) == call[r] = NoCall /\ call' = [call EXCEPT ![r] = [at |-> "sent"]]

refresh(r) ==
  /\ IntervalFires
  /\ Send(r)
  /\ UNCHANGED <<content, press, failures>>

(* Nobody but the web handler to come has the field to write: no other     *)
(* worker, no GamepadIngest that has not seen the topic yet, no match.     *)
Settled(field) ==
  /\ \A t \in Writers : \A i \in DOMAIN todo[t] : todo[t][i].field # field
  /\ ~ first_tick /\ topics[field] = last_seen[field]
  /\ ingest.pending => IngestOrder[ingest.at] # field
  /\ field \in {"enabled", "mode"} => phase \notin RunningPhases

Asked(w) == { todo'[w][i] : i \in { j \in DOMAIN todo'[w] : Settled(todo'[w][j].field) } }

(* A button: the POST reaches a worker.                                    *)
setControl(w) ==
  /\ handle_set_control(w)
  /\ press' = [at |-> "posted", by |-> w, asked |-> Asked(w)]
  /\ UNCHANGED <<content, call, failures>>

(* Mutant: the POST is not awaited.                                        *)
NotAwaited == TRUE

(* The handler has returned, which is what the script waits for.           *)
PostAnswered == todo[press.by] = <<>>

(* `refresh();` at the end of setControl.                                  *)
FollowUp(r) ==
  /\ press.at = "posted" /\ PostAnswered
  /\ Send(r)
  /\ press' = [at |-> "followed", by |-> press.by, asked |-> press.asked, call |-> r]
  /\ UNCHANGED <<content, failures>>

(* The POST's fetch is rejected: setControl ends without a refresh.        *)
PostFails ==
  /\ press.at = "posted" /\ press' = NoPress
  /\ failures < MaxFailures /\ failures' = failures + 1
  /\ UNCHANGED <<content, call>>

(* handle_state: `state_.snapshot_control()`, then `match_.snapshot()`.    *)
StateSnapshot(r) ==
  /\ call[r].at = "sent"
  /\ call' = [call EXCEPT ![r] =
                 [at |-> "control", control |-> Control(snapshot_control(ds))]]
  /\ UNCHANGED <<content, press, failures>>

MatchSnapshot(r) ==
  /\ call[r].at = "control" /\ MuFree
  /\ call' = [call EXCEPT ![r] =
                 [at |-> "answered", state |-> State(call[r].control, phase)]]
  /\ UNCHANGED <<content, press, failures>>

(* The response reaches the script.                                        *)
Show(r) ==
  /\ call[r].at = "answered"
  /\ content' = call[r].state
  /\ call' = [call EXCEPT ![r] = NoCall]
  /\ UNCHANGED <<press, failures>>

(* The fetch is rejected or its status is not ok; the handler may or may   *)
(* not have run.                                                           *)
FetchFails(r) ==
  /\ call[r] # NoCall
  /\ failures < MaxFailures /\ failures' = failures + 1
  /\ content' = Disconnected
  /\ call' = [call EXCEPT ![r] = NoCall]
  /\ UNCHANGED press

PageStep(r) ==
  refresh(r) \/ FollowUp(r) \/ StateSnapshot(r) \/ MatchSnapshot(r) \/ Show(r) \/ FetchFails(r)

(* An input of somebody else ends what can be said of the last press.      *)
PlaneStep ==
  /\ WriterNext
  /\ press' = IF inputs' = inputs THEN press ELSE NoPress
  /\ UNCHANGED <<content, call, failures>>

PageNext ==
  \/ PlaneStep
  \/ \E w \in Workers : setControl(w)
  \/ PostFails /\ UNCHANGED vars
  \/ (\E r \in Refreshes : PageStep(r)) /\ UNCHANGED vars

(* The interval keeps firing, handlers run, responses arrive; mu_ is free  *)
(* almost always, so a handler that asks for it again and again gets it.   *)
PageFairness ==
  /\ \A t \in Writers : WF_<<vars, page>>(Write(t) /\ UNCHANGED page)
  /\ \A r \in Refreshes :
       /\ WF_<<vars, page>>((refresh(r) \/ FollowUp(r) \/ StateSnapshot(r) \/ Show(r))
                             /\ UNCHANGED vars)
       /\ SF_<<vars, page>>(MatchSnapshot(r) /\ UNCHANGED vars)

PageSpec == PageInit /\ [][PageNext]_<<vars, page>> /\ PageFairness

-----------------------------------------------------------------------------
(* Properties.                                                             *)

Controls ==
  [enabled : BOOLEAN, mode : {"auto", "teleop", "test", "unknown"}, alliance : Ints,
   estop : BOOLEAN]

States ==
  [is : {"state"}, phase : { match_phase_name(p) : p \in MatchPhase }, control : Controls]

Calls ==
  [at : {"none", "sent"}] \cup [at : {"control"}, control : Controls]
    \cup [at : {"answered"}, state : States]

Presses ==
  {NoPress} \cup [at : {"posted"}, by : Workers, asked : SUBSET Writes]
    \cup [at : {"followed"}, by : Workers, asked : SUBSET Writes, call : Refreshes]

(* Every variable has its type: the page shows one state, whole.           *)
PageTypeOK ==
  /\ content \in {Loading, Disconnected} \cup States
  /\ call \in [Refreshes -> Calls]
  /\ press \in Presses
  /\ failures \in 0..MaxFailures

(* The value asked for is the one in control.                              *)
Displays(control, set) ==
  CASE set.field = "mode"   -> control.mode = mode_name(set.value)
    [] set.field = "e_stop" -> control.estop = set.value
    [] OTHER                -> control[set.field] = set.value

(* A button is seen to work: the refresh that follows its POST brings the  *)
(* values the button asked for, not those from before, whatever the tick   *)
(* thread, GamepadIngest and the other refreshes do meanwhile (an e-stop   *)
(* also in a running match); unless the fields were about to be written by *)
(* somebody else, or another input came since.                             *)
PressShown ==
  press.at = "followed" /\ call[press.call].at = "answered" =>
    \A set \in press.asked : Displays(call[press.call].state.control, set)

(* The page comes to tell the truth and stays with it: once nobody writes  *)
(* any more, whatever old or torn responses are still under way and        *)
(* whatever fetches failed, it ends up showing DaemonState and the phase.  *)
PageSettles == <>[]Quiet => <>[](content = State(Control(ds), phase))

(* A match phase that lasts is shown, although the tick thread holds mu_   *)
(* again and again and web requests keep coming.                           *)
PhaseSeen ==
  <>[][UNCHANGED phase]_phase =>
    <>[](content.is = "state" /\ content.phase = match_phase_name(phase))
=============================================================================
