------------------------------ MODULE SmartIo ------------------------------
(***************************************************************************)
(* SmartIoBridge, its SmartIoChannels and the libgpiod backend, with the   *)
(* RslBlinker, which uses the same backend from other threads.             *)
(*                                                                         *)
(* The robot's HAL (external) publishes /io/{ch}/type and /io/{ch}/valset; *)
(* NT4 delivers the latest value of each topic, in no order between        *)
(* topics, and again after the daemon has been restarted.  The bridge      *)
(* thread goes through its channels one after the other, and through       *)
(* on_type_changed in the steps that another thread can tell apart:        *)
(* release_line, request_*, the assignment of mode_.  An operation on a    *)
(* line that the kernel refuses throws; nothing catches it and the process *)
(* terminates.                                                             *)
(*                                                                         *)
(* LibgpiodBackend::lines_ is a map without a lock.  When the blinker uses *)
(* it while the bridge is changing it, that is a data race, whose outcome  *)
(* is one of RaceOutcomes.                                                 *)
(***************************************************************************)
EXTENDS Integers

CONSTANTS
  N,             \* the channels are 1..N, in the order of the pin map
  HalTypes,      \* values the HAL may publish as type
  HalValues,     \* values the HAL may publish as valset
  IntModulus,    \* 2^w for the width w of int
  RaceOutcomes,  \* of a map operation that races: "done", "lost" or both
  MaxWrites,     \* bound: publications of the HAL
  MaxToggles,    \* bound: changes of DaemonState's enabled
  MaxFaults      \* bound: operations the kernel refuses and connections lost

kSentinel == -9999

ASSUME SmartIoAssumption ==
  /\ N \in Nat \ {0}
  /\ HalTypes \subseteq Int \ {kSentinel} /\ HalValues \subseteq Int \ {kSentinel}
  /\ IntModulus \in Nat \ {0}
  /\ RaceOutcomes \subseteq {"done", "lost"}
  /\ MaxWrites \in Nat /\ MaxToggles \in Nat /\ MaxFaults \in Nat

VARIABLES
  hal,      \* what the HAL has last published: per channel, type and valset
  topics,   \* what the server holds of it
  chan,     \* per channel: mode_, last_output_, last_type, last_valset
  line,     \* per channel: the line as the kernel has it
  valget,   \* per channel: /io/{ch}/valget
  bridge,   \* the bridge thread: the channel it is at, its step, the type it has read
  rsl,      \* the blinker: it runs, its line is in lines_, last, the light's level
  enabled,  \* DaemonState's enabled
  up,       \* the process lives
  count     \* how often the HAL wrote, enabled changed and a fault happened

vars == <<hal, topics, chan, line, valget, bridge, rsl, enabled, up, count>>

Channels == 1..N

NoValue == -1

Unwritten == [type |-> kSentinel, valset |-> kSentinel]

NewChannel ==
  [mode |-> "Unconfigured", last_output |-> FALSE,
   last_type |-> kSentinel, last_valset |-> kSentinel]

Direction ==
  [Unconfigured |-> "none", DigitalInput |-> "in", DigitalOutput |-> "out"]

(* The line of a channel in this mode.                                     *)
Pin(mode, level) ==
  [dir |-> Direction[mode], level |-> mode = "DigitalOutput" /\ level]

Free == Pin("Unconfigured", FALSE)

FirstStep == [at |-> 1, step |-> "type", type |-> kSentinel]

RslNotStarted == [running |-> FALSE, held |-> FALSE, last |-> TRUE, level |-> FALSE]

Init ==
  /\ hal = [c \in Channels |-> Unwritten] /\ topics = hal
  /\ chan = [c \in Channels |-> NewChannel]
  /\ line = [c \in Channels |-> Free]
  /\ valget = [c \in Channels |-> NoValue]
  /\ bridge = FirstStep
  /\ rsl = RslNotStarted
  /\ enabled = FALSE /\ up = TRUE
  /\ count = [writes |-> 0, toggles |-> 0, faults |-> 0]

-----------------------------------------------------------------------------
(* The HAL and NT4.                                                        *)

HalPublish(c, topic, v) ==
  /\ count.writes < MaxWrites
  /\ count' = [count EXCEPT !.writes = @ + 1]
  /\ hal' = [hal EXCEPT ![c][topic] = v]
  /\ UNCHANGED <<topics, chan, line, valget, bridge, rsl, enabled, up>>

Deliver(c, topic) ==
  /\ up
  /\ topics[c][topic] # hal[c][topic]
  /\ topics' = [topics EXCEPT ![c][topic] = hal[c][topic]]
  /\ UNCHANGED <<hal, chan, line, valget, bridge, rsl, enabled, up, count>>

(* The HAL's connection is lost: its topics have no value, and Get()       *)
(* returns the sentinel until NT4 delivers them again.                     *)
HalDrop ==
  /\ up /\ count.faults < MaxFaults
  /\ count' = [count EXCEPT !.faults = @ + 1]
  /\ topics' = [c \in Channels |-> Unwritten]
  /\ UNCHANGED <<hal, chan, line, valget, bridge, rsl, enabled, up>>

-----------------------------------------------------------------------------
(* SmartIoBridge::tick on the channel the bridge is at.                    *)

(* static_cast<int>: the low bits, as a two's complement number.           *)
to_int(v) == ((v + IntModulus \div 2) % IntModulus) - (IntModulus \div 2)

(* The switch of on_type_changed.                                          *)
Requested(t) ==
  CASE to_int(t) = 0 -> "DigitalInput"
    [] to_int(t) = 1 -> "DigitalOutput"
    [] OTHER         -> "Unconfigured"

At(step) == up /\ bridge.step = step

Go(step) == bridge' = [bridge EXCEPT !.step = step]

Here == bridge.at

(* Mutant: the sentinel is taken for a word.                               *)
HeardSentinel(word, last) == word # last

(* What Get() returned is a word, and not the last one again.              *)
Heard(word, last) == word # last /\ word # kSentinel

TypeHeard == Heard(topics[Here].type, chan[Here].last_type)

ValsetHeard == Heard(topics[Here].valset, chan[Here].last_valset)

TypeUnchanged ==
  /\ At("type") /\ ~ TypeHeard
  /\ Go("valset")
  /\ UNCHANGED <<hal, topics, chan, line, valget, rsl, enabled, up, count>>

(* The type asks for the mode the channel is in.                           *)
TypeIdempotent ==
  LET t == topics[Here].type
  IN  /\ At("type") /\ TypeHeard
      /\ Requested(t) = chan[Here].mode
      /\ chan' = [chan EXCEPT ![Here].last_type = t]
      /\ Go("valset")
      /\ UNCHANGED <<hal, topics, line, valget, rsl, enabled, up, count>>

(* Where a flip out of this mode begins.                                   *)
FirstOfFlip(mode) == IF mode # "Unconfigured" THEN "release" ELSE "request"

(* on_type_changed has something to do.                                    *)
TypeFlip ==
  LET t == topics[Here].type
  IN  /\ At("type") /\ TypeHeard
      /\ Requested(t) # chan[Here].mode
      /\ bridge' = [at |-> Here, step |-> FirstOfFlip(chan[Here].mode), type |-> t]
      /\ UNCHANGED <<hal, topics, chan, line, valget, rsl, enabled, up, count>>

release_line ==
  /\ At("release")
  /\ line' = [line EXCEPT ![Here] = Free]
  /\ Go(IF Requested(bridge.type) = "Unconfigured" THEN "settle" ELSE "request")
  /\ UNCHANGED <<hal, topics, chan, valget, rsl, enabled, up, count>>

(* Mutant: an output always starts low.                                    *)
StartLow(c) == FALSE

(* An output starts at last_output_.                                       *)
StartLevel(c) == chan[c].last_output

(* request_input and request_output.  Both begin by releasing a line that  *)
(* is still held, so the line is the requested one whatever it was before. *)
request_line ==
  /\ At("request")
  /\ line' = [line EXCEPT ![Here] = Pin(Requested(bridge.type), StartLevel(Here))]
  /\ Go("settle")
  /\ UNCHANGED <<hal, topics, chan, valget, rsl, enabled, up, count>>

Settle ==
  /\ At("settle")
  /\ chan' = [chan EXCEPT ![Here] = [@ EXCEPT !.mode = Requested(bridge.type),
                                             !.last_type = bridge.type]]
  /\ Go("valset")
  /\ UNCHANGED <<hal, topics, line, valget, rsl, enabled, up, count>>

ValsetUnchanged ==
  /\ At("valset") /\ ~ ValsetHeard
  /\ Go("sample")
  /\ UNCHANGED <<hal, topics, chan, line, valget, rsl, enabled, up, count>>

(* last_output_ is set whatever the mode, the line only of an output.      *)
on_valset ==
  LET v == topics[Here].valset
  IN  /\ At("valset") /\ ValsetHeard
      /\ chan' = [chan EXCEPT ![Here] = [@ EXCEPT !.last_output = (to_int(v) # 0),
                                                 !.last_valset = v]]
      /\ line' = IF chan[Here].mode = "DigitalOutput"
                 THEN [line EXCEPT ![Here].level = (to_int(v) # 0)]
                 ELSE line
      /\ Go("sample")
      /\ UNCHANGED <<hal, topics, valget, rsl, enabled, up, count>>

(* Mutants: no wrap to the first channel; the loop does not move on.       *)
ChannelAfterLast(c) == c + 1

SameChannel(c) == c

NextChannel(c) == (c % N) + 1

(* Mutant: every channel is sampled.                                       *)
SampleAll(c) == TRUE

Sampled(c) == chan[c].mode = "DigitalInput"

(* The pin of an input may be at either level.                             *)
sample_input ==
  /\ At("sample")
  /\ IF Sampled(Here)
     THEN \E hi \in BOOLEAN : valget' = [valget EXCEPT ![Here] = IF hi THEN 255 ELSE 0]
     ELSE UNCHANGED valget
  /\ bridge' = [bridge EXCEPT !.at = NextChannel(Here), !.step = "type"]
  /\ UNCHANGED <<hal, topics, chan, line, rsl, enabled, up, count>>

-----------------------------------------------------------------------------
(* The process ends when an operation is refused; the kernel then takes    *)
(* its lines back, and systemd starts the daemon again.                    *)

Terminate ==
  /\ count.faults < MaxFaults
  /\ count' = [count EXCEPT !.faults = @ + 1]
  /\ up' = FALSE
  /\ line' = [c \in Channels |-> Free]
  /\ rsl' = RslNotStarted
  /\ UNCHANGED <<hal, topics, chan, valget, bridge, enabled>>

RequestRefused == At("request") /\ Terminate

SetRefused == At("valset") /\ ValsetHeard /\ chan[Here].mode = "DigitalOutput" /\ Terminate

GetRefused == At("sample") /\ Sampled(Here) /\ Terminate

Restart ==
  /\ ~ up /\ up' = TRUE
  /\ topics' = [c \in Channels |-> Unwritten]
  /\ chan' = [c \in Channels |-> NewChannel]
  /\ valget' = [c \in Channels |-> NoValue]
  /\ bridge' = FirstStep
  /\ enabled' = FALSE
  /\ UNCHANGED <<hal, line, rsl, count>>

-----------------------------------------------------------------------------
(* RslBlinker.                                                             *)

SetEnabled ==
  /\ up /\ count.toggles < MaxToggles
  /\ count' = [count EXCEPT !.toggles = @ + 1]
  /\ enabled' = ~ enabled
  /\ UNCHANGED <<hal, topics, chan, line, valget, bridge, rsl, up>>

(* The bridge is inside one of the operations that change lines_.          *)
LinesChanging == bridge.step \in {"release", "request"}

Outcomes == IF LinesChanging THEN RaceOutcomes ELSE {"done"}

(* On the main thread, the bridge already running.                         *)
RslStart ==
  /\ up /\ ~ rsl.running
  /\ \E outcome \in Outcomes :
       rsl' = [running |-> TRUE, held |-> outcome = "done", last |-> TRUE, level |-> TRUE]
  /\ UNCHANGED <<hal, topics, chan, line, valget, bridge, enabled, up, count>>

RslStartRefused == up /\ ~ rsl.running /\ Terminate

desired_level(on, half_periods) == ~ on \/ half_periods % 2 = 0

(* The levels a period of run() may have to set: backend.set_value is only *)
(* called when the level changes.                                          *)
RslWants == { desired_level(enabled, half_periods) : half_periods \in 0..1 } \ {rsl.last}

RslTick ==
  /\ up /\ rsl.running
  /\ \E want \in RslWants, outcome \in Outcomes :
       rsl' = [rsl EXCEPT !.last = want,
                         !.level = IF rsl.held /\ outcome = "done" THEN want ELSE @]
  /\ UNCHANGED <<hal, topics, chan, line, valget, bridge, enabled, up, count>>

RslSetRefused == up /\ rsl.held /\ RslWants # {} /\ Terminate

-----------------------------------------------------------------------------
HalNext ==
  \E c \in Channels :
    \/ \E v \in HalTypes : HalPublish(c, "type", v)
    \/ \E v \in HalValues : HalPublish(c, "valset", v)

BridgeNext ==
  \/ TypeUnchanged \/ TypeIdempotent \/ TypeFlip
  \/ release_line \/ request_line \/ RequestRefused \/ Settle
  \/ ValsetUnchanged \/ on_valset \/ SetRefused
  \/ sample_input \/ GetRefused

Next ==
  \/ HalNext
  \/ \E c \in Channels, topic \in {"type", "valset"} : Deliver(c, topic)
  \/ HalDrop
  \/ BridgeNext
  \/ Restart
  \/ SetEnabled
  \/ RslStart \/ RslStartRefused \/ RslTick \/ RslSetRefused

Spec == Init /\ [][Next]_vars

(* NT4 delivers, the threads are scheduled, systemd restarts.              *)
Fairness ==
  /\ \A c \in Channels : \A topic \in {"type", "valset"} : WF_vars(Deliver(c, topic))
  /\ WF_vars(BridgeNext)
  /\ WF_vars(Restart)
  /\ WF_vars(RslStart \/ RslStartRefused)
  /\ WF_vars(RslTick \/ RslSetRefused)

FairSpec == Spec /\ Fairness

-----------------------------------------------------------------------------
(* Properties.                                                             *)

Modes == {"Unconfigured", "DigitalInput", "DigitalOutput"}

Steps == {"type", "release", "request", "settle", "valset", "sample"}

Words == [type : Int, valset : Int]

Lines == [dir : {"none", "in", "out"}, level : BOOLEAN]

(* Every variable has its type.                                            *)
TypeOK ==
  /\ hal \in [Channels -> Words] /\ topics \in [Channels -> Words]
  /\ chan \in [Channels -> [mode : Modes, last_output : BOOLEAN,
                            last_type : Int, last_valset : Int]]
  /\ line \in [Channels -> Lines]
  /\ valget \in [Channels -> {NoValue, 0, 255}]
  /\ bridge \in [at : Channels, step : Steps, type : Int]
  /\ rsl \in [running : BOOLEAN, held : BOOLEAN, last : BOOLEAN, level : BOOLEAN]
  /\ enabled \in BOOLEAN /\ up \in BOOLEAN
  /\ count \in [writes : 0..MaxWrites, toggles : 0..MaxToggles, faults : 0..MaxFaults]

(* The level a valset stands for; low before the first.                    *)
Level(v) == v # kSentinel /\ to_int(v) # 0

(* The mode a type stands for; none before the first.                      *)
ModeFor(t) == IF t = kSentinel THEN "Unconfigured" ELSE Requested(t)

(* The bridge is not changing channel c.                                   *)
AtRest(c) == Here = c => bridge.step \notin {"release", "request", "settle"}

(* Whatever flips, repetitions and refusals came before, the line of a     *)
(* channel at rest is the one its last type and its last valset call for:  *)
(* no line stays held or driven after its channel gave it up.  The last    *)
(* valset counts also when it came while the channel was no output, for    *)
(* smartio_state.cpp sets last_output_ before it looks at mode_; its own   *)
(* comment, smartio_state.hpp and daemon-design.md say that such a valset  *)
(* is dropped (see the README's disagreements).                            *)
PinFollowsWords ==
  up => \A c \in Channels :
          AtRest(c) => line[c] = Pin(ModeFor(chan[c].last_type), Level(chan[c].last_valset))

(* An input is sampled, and valget published, only while its line is held  *)
(* as an input: mode_ and the line agree when it counts.                   *)
SampledIsInput ==
  [][up => \A c \in Channels : valget'[c] # valget[c] => line[c].dir = "in"]_vars

(* Once the HAL stops writing, every pin comes to be what it asked for,    *)
(* although only the latest value of a topic is seen, type and valset come *)
(* in either order, and a refused request restarts the daemon.             *)
HalObeyed ==
  <>[](\A c \in Channels : line[c] = Pin(ModeFor(hal[c].type), Level(hal[c].valset)))

(* What NT4 holds of a channel's words, as directions and levels.          *)
Told(c) ==
  [dirs   |-> { Direction[Requested(t)] : t \in {topics[c].type} \ {kSentinel} },
   levels |-> { to_int(v) # 0 : v \in {topics[c].valset} \ {kSentinel} }]

(* The mode channel c has, or is being flipped to.                         *)
TurnedTo(c) == IF AtRest(c) THEN chan[c].mode ELSE Requested(bridge.type)

(* The bridge keeps the rules for pins: a channel flips, and its level     *)
(* changes, only on a type or valset that NT4 holds at that moment, so the *)
(* sentinel Get() returns for a HAL that is gone moves no pin; a flip      *)
(* takes no line it has not released; an output comes back at last_output. *)
Rules ==
  INSTANCE PinRules
  WITH told   <- [c \in Channels |-> Told(c)],
       turned <- [c \in Channels |-> Direction[TurnedTo(c)]],
       level  <- [c \in Channels |-> chan[c].last_output],
       pin    <- line,
       alive  <- up

KeepsPinRules == Rules!Spec

(* rsl_blinker.hpp: "solid ON when disabled".                              *)
DisabledIsSolid == <>[](~ enabled) => <>[](rsl.running => rsl.level)
=============================================================================
