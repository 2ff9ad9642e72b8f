----------------------------- MODULE Lifecycle -----------------------------
(***************************************************************************)
(* main(): the daemon's objects are built in order, each thread started as *)
(* its object is, the idle loop waits for a signal, and a signal has the   *)
(* threads stopped one by one and the objects destroyed in reverse.  An    *)
(* object that publishes topics takes them along when it goes.             *)
(*                                                                         *)
(* A periodic thread is run_periodic with what a tick does left out (see   *)
(* PeriodicTask); the web UI's thread is cpp-httplib's listen (external),  *)
(* whose stop() does nothing as long as listen is not entered.  A client   *)
(* polls for ServerReady and then for ControlData, as the HAL and          *)
(* check_server_ready do, and connects again when the daemon is restarted. *)
(***************************************************************************)
EXTENDS Integers, Sequences

CONSTANT MaxFaults  \* bound: operations on lines the kernel refuses

ASSUME LifecycleAssumption == MaxFaults \in Nat

VARIABLES
  main,      \* where main() is: the phase, and the object it is at
  built,     \* how many objects of Order exist
  signalled, \* stop_requested
  stop,      \* per thread: its stop has been requested
  thread,    \* per thread: what it does
  server,    \* the NT4 server: "none", "bound" or "failed"
  backend,   \* the GPIO backend: "none", "libgpiod" or "null"
  topic,     \* the topics that have a value
  notified,  \* what systemd was last told: "none", "ready" or "stopping"
  client,    \* what the client waits for
  faults     \* how many requests were refused

vars == <<main, built, signalled, stop, thread, server, backend, topic, notified, client, faults>>

(* Mutant: the ControlData publisher is declared before the IMU's.         *)
OrderImuLater ==
  <<"server", "server_ready", "battery", "control_data", "imu", "state", "backend",
    "publisher", "smartio", "rsl", "gamepad", "diagnostics", "match", "ui">>

Order ==
  <<"server", "server_ready", "battery", "imu", "control_data", "state", "backend",
    "publisher", "smartio", "rsl", "gamepad", "diagnostics", "match", "ui">>

FirstThread == 8

Last == Len(Order)

Objects == 1 .. Last

Threads == FirstThread .. Last

Publisher == 8
SmartIo   == 9
Rsl       == 10
Ui        == 14

(* The objects a thread reads or writes, its own included: the reference   *)
(* members of its class, and what those of a lambda or a handle stand for. *)
ControlDataPublisherRefs == {"publisher", "state", "control_data"}
SmartIoBridgeRefs        == {"smartio", "server", "backend"}
RslBlinkerRefs           == {"rsl", "state", "backend"}
GamepadIngestRefs        == {"gamepad", "server", "state"}
DiagnosticsPublisherRefs == {"diagnostics", "server", "publisher"}
MatchControllerRefs      == {"match", "state"}
WebUIRefs                == {"ui", "state", "publisher", "smartio", "match"}

Refs ==
  <<ControlDataPublisherRefs, SmartIoBridgeRefs, RslBlinkerRefs, GamepadIngestRefs,
    DiagnosticsPublisherRefs, MatchControllerRefs, WebUIRefs>>

Uses == [t \in Threads |-> { i \in Objects : Order[i] \in Refs[t - FirstThread + 1] }]

(* What the constructors of ImuPublisher and DiagnosticsPublisher set:     *)
(* nine topics, taken as one; the description of the build.                *)
ImuTopics == {"Imu"}

DiagnosticsTopics == {"BuildInfo"}

(* Mutants: the topic is announced and not set; its name is misspelt.      *)
OnlyAnnounced == {}

ReadyMisspelt == {"Serverready"}

ReadyTopics == {"ServerReady"}

(* The topics an object gives a value from its construction on; those it   *)
(* sets in a tick; and all it takes along.                                 *)
SetAtOnce(i) ==
  CASE Order[i] = "server_ready" -> ReadyTopics
    [] Order[i] = "battery"      -> {"Battery"}
    [] Order[i] = "imu"          -> ImuTopics
    [] Order[i] = "diagnostics"  -> DiagnosticsTopics
    [] OTHER                     -> {}

SetInTick(t) == IF t = Publisher THEN {"ControlData"} ELSE {}

Published(i) ==
  SetAtOnce(i) \union IF Order[i] = "control_data" THEN {"ControlData"} ELSE {}

NotStarted == [t \in Threads |-> "none"]

NoStops == [t \in Threads |-> FALSE]

Init ==
  /\ main = [phase |-> "start", at |-> 1] /\ built = 0
  /\ signalled = FALSE /\ stop = NoStops /\ thread = NotStarted
  /\ server = "none" /\ backend = "none"
  /\ topic = {} /\ notified = "none"
  /\ client = "ServerReady"
  /\ faults = 0

-----------------------------------------------------------------------------
(* main().                                                                 *)

In(phase) == main.phase = phase

At(phase, i) == main = [phase |-> phase, at |-> i]

GoTo(phase, i) == main' = [phase |-> phase, at |-> i]

(* on_signal.                                                              *)
Signal ==
  /\ main.phase \notin {"exited", "aborted"}
  /\ ~ signalled /\ signalled' = TRUE
  /\ UNCHANGED <<main, built, stop, thread, server, backend, topic, notified, client, faults>>

(* The outcome of StartServer is not looked at; a chip that cannot be      *)
(* opened is replaced by the null backend.                                 *)
ServerOutcomes == {"bound", "failed"}

BackendOutcomes == {"libgpiod", "null"}

(* An object without a thread.                                             *)
Build(i) ==
  /\ i < FirstThread /\ At("start", i) /\ GoTo("start", i + 1)
  /\ built' = i
  /\ server' \in IF Order[i] = "server" THEN ServerOutcomes ELSE {server}
  /\ backend' \in IF Order[i] = "backend" THEN BackendOutcomes ELSE {backend}
  /\ topic' = topic \union SetAtOnce(i)
  /\ UNCHANGED <<signalled, stop, thread, notified, client, faults>>

(* A constructor and the start() that follows it.                          *)
Start(t) ==
  /\ At("start", t)
  /\ IF t = Last THEN GoTo("ready", t) ELSE GoTo("start", t + 1)
  /\ built' = t
  /\ thread' = [thread EXCEPT ![t] = IF t = Ui THEN "starting" ELSE "waiting"]
  /\ topic' = topic \union SetAtOnce(t)
  /\ UNCHANGED <<signalled, stop, server, backend, notified, client, faults>>

(* A datagram to systemd: sent, or not for want of an address or a socket. *)
notify(kind) == notified' \in {notified, kind}

Ready ==
  /\ In("ready") /\ GoTo("loop", Last)
  /\ notify("ready")
  /\ UNCHANGED <<built, signalled, stop, thread, server, backend, topic, client, faults>>

LeaveLoop ==
  /\ In("loop") /\ signalled
  /\ GoTo("stop", Last)
  /\ notify("stopping")
  /\ UNCHANGED <<built, signalled, stop, thread, server, backend, topic, client, faults>>

(* Mutant: the stop is forgotten.                                          *)
NotToldToStop(t) == FALSE

(* What reaches the thread: request_stop always does; httplib's stop is    *)
(* not noticed by one that does not listen yet.                            *)
ToldToStop(t) == thread[t] # "starting"

(* stop(), and the join that ends it.                                      *)
RequestStop ==
  /\ In("stop") /\ GoTo("join", main.at)
  /\ stop' = [stop EXCEPT ![main.at] = ToldToStop(main.at)]
  /\ UNCHANGED <<built, signalled, thread, server, backend, topic, notified, client, faults>>

(* Mutant: the thread is left to itself.                                   *)
Detached(t) == TRUE

Joinable(t) == thread[t] = "done"

Join ==
  /\ In("join") /\ Joinable(main.at)
  /\ IF main.at = FirstThread THEN GoTo("destroy", Last) ELSE GoTo("stop", main.at - 1)
  /\ UNCHANGED <<built, signalled, stop, thread, server, backend, topic, notified, client, faults>>

(* return: the destructors, last object first.                             *)
Destroy ==
  /\ In("destroy")
  /\ GoTo(IF main.at = 1 THEN "exited" ELSE "destroy", main.at - 1)
  /\ built' = main.at - 1
  /\ topic' = topic \ Published(main.at)
  /\ server' = IF Order[main.at] = "server" THEN "none" ELSE server
  /\ backend' = IF Order[main.at] = "backend" THEN "none" ELSE backend
  /\ UNCHANGED <<signalled, stop, thread, notified, client, faults>>

-----------------------------------------------------------------------------
(* The threads.                                                            *)

GoOn(t, to) == thread' = [thread EXCEPT ![t] = to]

(* listen is entered, or returns at once when the port is taken.           *)
Listen ==
  /\ thread[Ui] = "starting"
  /\ \E to \in {"waiting", "done"} : GoOn(Ui, to)
  /\ UNCHANGED <<main, built, signalled, stop, server, backend, topic, notified, client, faults>>

(* A tick, or a web request.                                               *)
Tick(t) ==
  /\ thread[t] = "waiting" /\ ~ stop[t]
  /\ GoOn(t, "ticking")
  /\ UNCHANGED <<main, built, signalled, stop, server, backend, topic, notified, client, faults>>

Finish(t) ==
  /\ thread[t] = "ticking" /\ GoOn(t, "waiting")
  /\ topic' = topic \union SetInTick(t)
  /\ UNCHANGED <<main, built, signalled, stop, server, backend, notified, client, faults>>

Exit(t) ==
  /\ thread[t] = "waiting" /\ stop[t]
  /\ GoOn(t, "done")
  /\ UNCHANGED <<main, built, signalled, stop, server, backend, topic, notified, client, faults>>

(* An operation on a line that the kernel refuses throws, in a tick of the *)
(* bridge or of the blinker or in rsl.start(); nothing catches it.         *)
Abort ==
  /\ backend = "libgpiod"
  /\ thread[SmartIo] = "ticking" \/ thread[Rsl] = "ticking" \/ At("start", Rsl)
  /\ faults < MaxFaults /\ faults' = faults + 1
  /\ GoTo("aborted", 0) /\ built' = 0
  /\ thread' = NotStarted
  /\ server' = "none" /\ backend' = "none" /\ topic' = {} /\ notified' = "none"
  /\ UNCHANGED <<signalled, stop, client>>

(* systemd: Restart=on-failure, unless it had sent the signal itself.      *)
Restart ==
  /\ In("aborted") /\ ~ signalled
  /\ GoTo("start", 1)
  /\ stop' = NoStops
  /\ UNCHANGED <<built, signalled, thread, server, backend, topic, notified, client, faults>>

-----------------------------------------------------------------------------
(* The client.                                                             *)

Poll ==
  /\ server = "bound"
  /\ client \in topic
  /\ client' = IF client = "ServerReady" THEN "ControlData" ELSE "ok"
  /\ UNCHANGED <<main, built, signalled, stop, thread, server, backend, topic, notified, faults>>

GiveUp ==
  /\ client \in {"ServerReady", "ControlData"} /\ client' = "failed"
  /\ UNCHANGED <<main, built, signalled, stop, thread, server, backend, topic, notified, faults>>

-----------------------------------------------------------------------------
MainStep ==
  \/ \E i \in Objects : Build(i)
  \/ \E t \in Threads : Start(t)
  \/ Ready \/ LeaveLoop \/ RequestStop \/ Join \/ Destroy

ThreadStep(t) == Tick(t) \/ Finish(t) \/ Exit(t)

Next ==
  \/ Signal
  \/ MainStep
  \/ Listen
  \/ \E t \in Threads : ThreadStep(t)
  \/ Abort \/ Restart
  \/ Poll \/ GiveUp

Spec == Init /\ [][Next]_vars

(* The kernel schedules every thread, a tick returns, systemd restarts,    *)
(* the client polls.                                                       *)
FairSpec ==
  /\ Spec
  /\ WF_vars(MainStep) /\ WF_vars(Listen) /\ WF_vars(Restart) /\ WF_vars(Poll)
  /\ \A t \in Threads : WF_vars(ThreadStep(t))

-----------------------------------------------------------------------------
(* Properties.                                                             *)

Running == {"starting", "waiting", "ticking"}

(* Every variable has its type; in particular a topic that has a value is  *)
(* one a client may look for.                                              *)
ProcessTypeOK ==
  /\ main \in [phase : {"start", "ready", "loop", "stop", "join", "destroy", "exited",
                        "aborted"},
               at : 0 .. Last]
  /\ built \in 0 .. Last
  /\ signalled \in BOOLEAN /\ stop \in [Threads -> BOOLEAN]
  /\ thread \in [Threads -> Running \union {"none", "done"}]
  /\ server \in {"none", "bound", "failed"} /\ backend \in {"none", "libgpiod", "null"}
  /\ topic \subseteq {"ServerReady", "Battery", "Imu", "ControlData", "BuildInfo"}
  /\ notified \in {"none", "ready", "stopping"}
  /\ client \in {"ServerReady", "ControlData", "ok", "failed"}
  /\ faults \in 0 .. MaxFaults

(* A thread lives only while every object it uses does: none ticks on a    *)
(* reference to something not yet built or already destroyed, whenever the *)
(* signal comes.                                                           *)
AliveWhileUsed ==
  \A t \in Threads : thread[t] \in Running => \A i \in Uses[t] : i <= built

(* Who sees ControlData sees the topics main() sets once and for all       *)
(* before it, ServerReady, Battery and Imu, to the very end of a shutdown; *)
(* and a daemon that reported itself ready, and has not been told to end,  *)
(* has these and BuildInfo up.  (MatchInfo, JoystickDescriptors and        *)
(* HasSetWallClock, which docs/daemon-design.md also names, are published  *)
(* by nobody and not among the topics here.)                               *)
ServedInFull ==
  /\ "ControlData" \in topic => {"ServerReady", "Battery", "Imu"} \subseteq topic
  /\ notified = "ready" /\ ~ signalled =>
       {"ServerReady", "Battery", "Imu", "BuildInfo"} \subseteq topic

(* A client that waits long enough gets ServerReady and ControlData, also  *)
(* when the daemon is aborted and restarted before or in between; unless   *)
(* it is told to end or could not bind.                                    *)
ClientServed ==
  <>(client \in {"ok", "failed"} \/ signalled \/ server = "failed")

Ended == main.phase \in {"exited", "aborted"}

(* A signal that comes once the web UI listens ends the process: every     *)
(* thread hears its stop and every join returns.                           *)
ShutdownEnds ==
  In("loop") /\ signalled /\ thread[Ui] \in {"waiting", "ticking"} ~> Ended

(* daemon-design.md: on SIGTERM "all `jthread`s join, daemon exits         *)
(* cleanly".                                                               *)
SignalEnds == signalled ~> Ended
=============================================================================
