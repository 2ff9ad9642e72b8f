---------------------------- MODULE ControlPlane ----------------------------
(***************************************************************************)
(* Everything that writes or reads DaemonState, interleaved at the grain   *)
(* of its mutex: the web handlers, MatchController, GamepadIngest and the  *)
(* ControlDataPublisher, with the helper laptop and the operator outside.  *)
(*                                                                         *)
(* DaemonState's mutex protects one setter or one snapshot at a time.  An  *)
(* operation that sets several fields is therefore several steps: todo[t]  *)
(* is what thread t has still to write.  MatchController's own mu_ is held *)
(* from the first to the last write of a match operation; phase_ is only   *)
(* read under mu_, so it is set here when mu_ is taken.                    *)
(*                                                                         *)
(* Time is left to MatchController.tla: a running phase may expire at any  *)
(* tick, and its match time is any number of seconds up to MaxSeconds.     *)
(***************************************************************************)
EXTENDS MatchPhases, Sequences

CONSTANTS
  Workers,       \* httplib's worker threads
  Requests,      \* POST /api/control bodies: field -> value, for the fields present
  MatchActions,  \* POST /api/match verbs: a subset of {"start", "stop", "skip-to-teleop"}
  HelperWrites,  \* what the helper laptop publishes: records [field, value]
  MaxInputs,     \* bound: requests, verbs and publications of one behaviour
  MaxSeconds,    \* bound: the largest match time published
  IntModulus     \* 2^w for the width w of int

Fields == {"enabled", "mode", "alliance", "e_stop"}

(* What a topic or a form field holds.                                     *)
InputType(field) == IF field \in {"enabled", "e_stop"} THEN BOOLEAN ELSE Int

ASSUME InputsAssumption ==
  /\ \A r \in Requests : \A f \in DOMAIN r : f \in Fields /\ r[f] \in InputType(f)
  /\ \A w \in HelperWrites : w.field \in Fields /\ w.value \in InputType(w.field)

ASSUME ControlPlaneAssumption ==
  /\ "ticker" \notin Workers /\ "none" \notin Workers
  /\ MatchActions \subseteq {"start", "stop", "skip-to-teleop"}
  /\ MaxInputs \in Nat /\ MaxSeconds \in Nat \ {0}
  /\ IntModulus \in Nat \ {0} /\ IntModulus % 16 = 0

VARIABLES
  ds,          \* DaemonState
  phase, mu,   \* MatchController: phase_ and the holder of mu_
  todo,        \* the writes each thread has still to make
  topics,      \* the retained /dev/control/* values
  ingest,      \* GamepadIngest: its place in tick() and what it has read
  last_seen, first_tick,
  view, wire,  \* ControlDataPublisher: the snapshot taken, the last message sent
  inputs       \* how many inputs the operator and the helper have given

vars == <<ds, phase, mu, todo, topics, ingest, last_seen, first_tick, view, wire, inputs>>

match     == <<phase, mu>>
gamepad   == <<topics, ingest, last_seen, first_tick>>
publisher == <<view, wire>>

Writers == Workers \cup {"ticker"}

Set(field, value) == [field |-> field, value |-> value]

NoView == [none |-> TRUE]

(* The subscribers' defaults: what Get() returns before the helper writes. *)
TopicDefaults ==
  [enabled |-> FALSE, mode |-> 0, alliance |-> 0, e_stop |-> FALSE]

kIntSentinel == -9999

NeverSeen ==
  [enabled |-> FALSE, mode |-> kIntSentinel, alliance |-> kIntSentinel, e_stop |-> FALSE]

Init ==
  /\ ds = DaemonStateInit
  /\ phase = "Idle" /\ mu = "none"
  /\ todo = [t \in Writers |-> <<>>]
  /\ topics = TopicDefaults
  /\ ingest = [at |-> 1, pending |-> FALSE]
  /\ last_seen = NeverSeen /\ first_tick = TRUE
  /\ view = NoView /\ wire = NoBytes
  /\ inputs = 0

Input == inputs < MaxInputs /\ inputs' = inputs + 1

(* One DaemonState setter.  The last write of a match operation is the end *)
(* of its lock_guard.                                                      *)
Write(t) ==
  /\ todo[t] # <<>>
  /\ ds' = [ds EXCEPT ![Head(todo[t]).field] = Head(todo[t]).value]
  /\ todo' = [todo EXCEPT ![t] = Tail(@)]
  /\ mu' = IF mu = t /\ Tail(todo[t]) = <<>> THEN "none" ELSE mu
  /\ UNCHANGED <<phase, gamepad, publisher, inputs>>

-----------------------------------------------------------------------------
(* WebUI::handle_set_control.  A value is the number from_chars found.     *)

WebValue(field, v) ==
  CASE field = "mode"     -> IF v \in 0..3 THEN v ELSE 0
    [] field = "alliance" -> IF v < 0 THEN 0 ELSE IF v > 3 THEN 3 ELSE v
    [] OTHER              -> v

(* `if (!x.empty()) state_.set_x(...)`.                                    *)
IfGiven(request, field) ==
  IF field \in DOMAIN request
  THEN <<Set(field, WebValue(field, request[field]))>>
  ELSE <<>>

WebWrites(request) ==
  IfGiven(request, "enabled") \o IfGiven(request, "e_stop")
    \o IfGiven(request, "mode") \o IfGiven(request, "alliance")

handle_set_control(w) ==
  /\ todo[w] = <<>>
  /\ Input
  /\ \E request \in Requests : todo' = [todo EXCEPT ![w] = WebWrites(request)]
  /\ UNCHANGED <<ds, match, gamepad, publisher>>

-----------------------------------------------------------------------------
(* MatchController.                                                        *)

(* Mutant: apply_phase returns at once when the phase is the current one.  *)
PhaseWritesOnChange(p, seconds) ==
  (IF p = phase THEN <<>> ELSE <<Set("enabled", PhaseEnabled(p)), Set("mode", PhaseMode(p))>>)
    \o <<Set("match_time_s", seconds)>>

(* apply_phase(p), then the match time.                                    *)
PhaseWrites(p, seconds) ==
  <<Set("enabled", PhaseEnabled(p)), Set("mode", PhaseMode(p)), Set("match_time_s", seconds)>>

(* Mutant: no lock_guard.                                                  *)
MuIgnored == TRUE

MuFree == mu = "none"

Lock(t, p, seconds) ==
  /\ MuFree /\ mu' = t
  /\ todo[t] = <<>>
  /\ phase' = p
  /\ todo' = [todo EXCEPT ![t] = PhaseWrites(p, seconds)]
  /\ UNCHANGED <<ds, gamepad, publisher>>

handle_match(w) ==
  /\ Input
  /\ \/ "start" \in MatchActions /\ Lock(w, "Auto", MaxSeconds)
     \/ "stop" \in MatchActions /\ Lock(w, "Idle", 0)
     \/ "skip-to-teleop" \in MatchActions /\ Lock(w, "Teleop", MaxSeconds)

(* What publish_match_time may write some time into phase p.               *)
SecondsIn(p) == IF p \in EnabledPhases THEN 0..MaxSeconds ELSE {0}

TickReassert ==
  /\ phase \in RunningPhases
  /\ \E s \in SecondsIn(phase) : Lock("ticker", phase, s)
  /\ UNCHANGED inputs

TickAdvance ==
  /\ phase \in RunningPhases
  /\ \E s \in SecondsIn(NextPhase(phase)) : Lock("ticker", NextPhase(phase), s)
  /\ UNCHANGED inputs

-----------------------------------------------------------------------------
(* GamepadIngest::tick, one subscriber after the other.                    *)

(* Mutant: a cast without the switch.                                      *)
mode_cast(v) == v

mode_from_int(v) == IF v \in 1..3 THEN v ELSE RobotMode.Unknown

(* static_cast<int>: the low bits, as a two's complement number.           *)
to_int(v) == ((v + IntModulus \div 2) % IntModulus) - (IntModulus \div 2)

IngestValue(field, v) ==
  CASE field = "mode"     -> mode_from_int(v)
    [] field = "alliance" -> to_int(v)
    [] OTHER              -> v

IngestOrder == <<"enabled", "mode", "alliance", "e_stop">>

(* Mutants: no change detection; a change is only looked for once.         *)
AlwaysChanged(field) == TRUE

ChangedAtFirst(field) == first_tick

Changed(field) == first_tick \/ topics[field] # last_seen[field]

(* Past the last subscriber tick() clears first_tick_ and the next begins. *)
IngestNext ==
  /\ ingest' = [at |-> (ingest.at % 4) + 1, pending |-> FALSE]
  /\ first_tick' = (first_tick /\ ingest.at # 4)

IngestGet ==
  LET field == IngestOrder[ingest.at]
  IN  /\ ~ ingest.pending
      /\ IF Changed(field)
         THEN /\ ingest' = [at |-> ingest.at, pending |-> TRUE, value |-> topics[field]]
              /\ UNCHANGED first_tick
         ELSE IngestNext
      /\ UNCHANGED <<ds, match, todo, topics, last_seen, publisher, inputs>>

IngestSet ==
  LET field == IngestOrder[ingest.at]
  IN  /\ ingest.pending
      /\ ds' = [ds EXCEPT ![field] = IngestValue(field, ingest.value)]
      /\ last_seen' = [last_seen EXCEPT ![field] = ingest.value]
      /\ IngestNext
      /\ UNCHANGED <<match, todo, topics, publisher, inputs>>

(* The helper laptop (external) publishes a value; the server retains it   *)
(* while the laptop is connected.                                          *)
HelperPublish ==
  /\ Input
  /\ \E w \in HelperWrites :
       topics[w.field] # w.value /\ topics' = [topics EXCEPT ![w.field] = w.value]
  /\ UNCHANGED <<ds, match, todo, ingest, last_seen, first_tick, publisher>>

(* The laptop's connection is lost (external): a topic without a publisher *)
(* has no value, and Get() returns the subscriber's default again.         *)
HelperDrop ==
  /\ Input
  /\ topics # TopicDefaults /\ topics' = TopicDefaults
  /\ UNCHANGED <<ds, match, todo, ingest, last_seen, first_tick, publisher>>

-----------------------------------------------------------------------------
(* ControlDataPublisher::run: the snapshot is taken under the mutex,       *)
(* encoded and sent without it.                                            *)

TakeSnapshot ==
  /\ view = NoView
  /\ view' = snapshot_control(ds)
  /\ UNCHANGED <<ds, match, todo, gamepad, wire, inputs>>

(* Mutant: the snapshot is not taken anew for the next message.            *)
SameView == view

(* The view is a local of the loop's body.                                 *)
ViewDone == NoView

Publish ==
  /\ view # NoView
  /\ wire' = IF encode_control_data(view) = NoBytes THEN wire ELSE encode_control_data(view)
  /\ view' = ViewDone
  /\ UNCHANGED <<ds, match, todo, gamepad, inputs>>

-----------------------------------------------------------------------------
(* Everything that changes DaemonState.                                    *)
WriterNext ==
  \/ \E t \in Writers : Write(t)
  \/ \E w \in Workers : handle_set_control(w) \/ handle_match(w)
  \/ TickReassert
  \/ TickAdvance
  \/ IngestGet
  \/ IngestSet
  \/ HelperPublish
  \/ HelperDrop

Next == WriterNext \/ TakeSnapshot \/ Publish

Spec == Init /\ [][Next]_vars

(* Every thread of the daemon is scheduled.  The ticker competes for mu_   *)
(* with finitely many commands only, so it needs no strong fairness; which *)
(* way a tick goes is up to the clock.                                     *)
Fairness ==
  /\ \A t \in Writers : WF_vars(Write(t))
  /\ WF_vars(TickReassert \/ TickAdvance)
  /\ WF_vars(IngestGet \/ IngestSet)
  /\ WF_vars(TakeSnapshot \/ Publish)

FairSpec == Spec /\ Fairness

-----------------------------------------------------------------------------
(* Properties.                                                             *)

Ints == -(IntModulus \div 2) .. (IntModulus \div 2 - 1)

DaemonStates ==
  [enabled : BOOLEAN, mode : RobotModes, alliance : Ints, e_stop : BOOLEAN,
   match_time_s : 0..MaxSeconds]

FieldType(field) ==
  CASE field = "mode"         -> RobotModes
    [] field = "alliance"     -> Ints
    [] field = "match_time_s" -> 0..MaxSeconds
    [] OTHER                  -> BOOLEAN

Writes ==
  UNION { [field : {f}, value : FieldType(f)] : f \in Fields \cup {"match_time_s"} }

Topics == [enabled : BOOLEAN, mode : Int, alliance : Int, e_stop : BOOLEAN]

Views ==
  {NoView} \cup
  [enabled : BOOLEAN, ds_connected : BOOLEAN, fms_connected : BOOLEAN, e_stop : BOOLEAN,
   supports_opmodes : BOOLEAN, mode : RobotModes, alliance : Ints,
   match_time_s : 0..MaxSeconds]

(* Every variable has its type; in particular no route writes DaemonState  *)
(* a mode that is not one of the four.                                     *)
TypeOK ==
  /\ ds \in DaemonStates
  /\ phase \in MatchPhase
  /\ mu \in Writers \cup {"none"}
  /\ todo \in [Writers -> Seq(Writes)]
  /\ topics \in Topics /\ last_seen \in Topics
  /\ ingest.at \in 1..4 /\ ingest.pending \in BOOLEAN
  /\ ingest.pending => ingest.value \in InputType(IngestOrder[ingest.at])
  /\ first_tick \in BOOLEAN
  /\ view \in Views /\ wire \in [ControlWord : Nat, MatchTime : Nat]
  /\ inputs \in 0..MaxInputs

(* mu_ keeps the three writes of a match operation together: whenever it   *)
(* is free, a phase without a countdown has left no match time behind,     *)
(* whichever order stop, skip and tick came in.                            *)
NoStaleMatchTime ==
  mu = "none" /\ phase \notin EnabledPhases => ds.match_time_s = 0

(* The rule of docs/daemon-design.md the robot's HAL depends on: every     *)
(* message has DsConnected set (so no state encodes to no bytes at all     *)
(* and silences the publisher), and the watchdog bit tracks Enabled.       *)
WireValid ==
  wire # NoBytes =>
    WordDs(wire.ControlWord) /\ WordWatchdog(wire.ControlWord) = WordEnabled(wire.ControlWord)

(* Nobody has anything left to write: no handler is at work, no match is   *)
(* running, GamepadIngest has seen all that is published.                  *)
Quiet ==
  /\ mu = "none" /\ \A t \in Writers : todo[t] = <<>>
  /\ phase \notin RunningPhases
  /\ ~ first_tick /\ ~ ingest.pending /\ last_seen = topics

(* A value set by hand sticks: GamepadIngest applies a topic when it       *)
(* changes, and does not keep writing the retained one over what the web   *)
(* UI has set since.  Only another input ends the quiet.                   *)
ManualControlSticks ==
  [][Quiet /\ UNCHANGED inputs => Quiet' /\ UNCHANGED ds]_vars

(* The HAL reads from the last message the state s.                        *)
HalSees(s) ==
  /\ WordEnabled(wire.ControlWord) = s.enabled
  /\ WordMode(wire.ControlWord) = s.mode
  /\ WordEStop(wire.ControlWord) = s.e_stop
  /\ WordAlliance(wire.ControlWord) = s.alliance % 16
  /\ wire.MatchTime = s.match_time_s

(* The operator's final word reaches the robot: once nobody has anything   *)
(* left to write, the HAL comes to read DaemonState off the wire, whatever *)
(* snapshot the publisher was holding.                                     *)
LastWordIsSent ==
  (Quiet /\ inputs = MaxInputs) ~> HalSees(ds)

(* What the helper commands last is never lost between GamepadIngest's     *)
(* reads: enabling, disabling, an emergency stop and its withdrawal reach  *)
(* DaemonState unless superseded.  A helper that drops out has its robot   *)
(* disabled that way.                                                      *)
HelperHeard ==
  \A f \in {"enabled", "e_stop"}, b \in BOOLEAN :
    (topics[f] = b /\ last_seen[f] # b) ~> (ds[f] = b \/ topics[f] # b)

(* The robot is enabled by hand: by a worker that writes a form's fields   *)
(* (it does not hold mu_) or by the helper.                                *)
EnabledByHand ==
  (\E w \in Workers : mu # w /\ Write(w)) \/ IngestSet

(* A match that was stopped or has ended does not come back: no tick that  *)
(* was under way, and no match operation that another overtook, enables    *)
(* the robot once phase_ says the match is over.  Only a hand can.         *)
StopIsFinal ==
  [][phase \notin RunningPhases /\ ~ ds.enabled /\ ds'.enabled => EnabledByHand]_vars

PhaseOnWire(p) ==
  /\ WordEnabled(wire.ControlWord) = PhaseEnabled(p)
  /\ WordMode(wire.ControlWord) = PhaseMode(p)

(* "When a match is running, this controller writes DaemonState every tick *)
(* to reflect the current phase" (match_controller.hpp): manual control    *)
(* and ingest can interfere with a match only for a while; every running   *)
(* phase comes to show on the wire, unless it ends first.                  *)
MatchShown ==
  \A p \in RunningPhases : phase = p ~> (phase # p \/ PhaseOnWire(p))

-----------------------------------------------------------------------------
(* What the documentation says and the code does not do.                   *)

(* docs/daemon-design.md: an e-stop is "latched until reset via web UI".   *)
EStopLatched ==
  [][ds.e_stop /\ ~ ds'.e_stop => \E w \in Workers : Write(w)]_vars
=============================================================================
