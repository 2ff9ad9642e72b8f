----------------------------- MODULE MCWebPage -----------------------------
(* WebPage with two refreshes under way, an e-stop set and cleared, on a   *)
(* daemon just started or in the middle of a match.                        *)
EXTENDS WebPage

CONSTANTS w1

OneWorker == {w1}

EStopButtons == { [e_stop |-> TRUE], [e_stop |-> FALSE] }

(* What skip_to_teleop leaves behind once GamepadIngest has ticked, with   *)
(* the inputs counted from here: a match without the input that began it.  *)
InTeleop ==
  /\ ds = [DaemonStateInit EXCEPT !.enabled = PhaseEnabled("Teleop"),
                                  !.mode = PhaseMode("Teleop"), !.match_time_s = MaxSeconds]
  /\ phase = "Teleop" /\ mu = "none" /\ todo = [t \in Writers |-> <<>>]
  /\ topics = TopicDefaults /\ last_seen = TopicDefaults /\ first_tick = FALSE
  /\ ingest = [at |-> 1, pending |-> FALSE]
  /\ view = NoView /\ wire = NoBytes /\ inputs = 0
  /\ content = Loading /\ call = [r \in Refreshes |-> NoCall] /\ press = NoPress
  /\ failures = 0

MCPageSpec == (PageInit \/ InTeleop) /\ [][PageNext]_<<vars, page>> /\ PageFairness
=============================================================================
