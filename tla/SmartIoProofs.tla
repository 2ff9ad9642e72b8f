--------------------------- MODULE SmartIoProofs ---------------------------
(***************************************************************************)
(* SmartIo for every number of channels, every value the HAL may publish,  *)
(* every outcome of the races and every bound.                             *)
(***************************************************************************)
EXTENDS SmartIo, TLAPS

ChanType == [mode : Modes, last_output : BOOLEAN, last_type : Int, last_valset : Int]

RslType == [running : BOOLEAN, held : BOOLEAN, last : BOOLEAN, level : BOOLEAN]

CountType == [writes : 0..MaxWrites, toggles : 0..MaxToggles, faults : 0..MaxFaults]

(* mode_ and last_output_ are what the last words seen stand for, also     *)
(* while the line is being changed.                                        *)
WordsApplied ==
  \A c \in Channels :
    /\ chan[c].mode = ModeFor(chan[c].last_type)
    /\ chan[c].last_output = Level(chan[c].last_valset)

(* What the steps of on_type_changed know of the type they carry and of    *)
(* the line they have released or requested.                               *)
FlipUnderWay ==
  up =>
    /\ bridge.step \in {"release", "request", "settle"} => bridge.type # kSentinel
    /\ bridge.step = "release" => line[Here].dir # Direction[Requested(bridge.type)]
    /\ bridge.step = "request" => line[Here] = Free
    /\ bridge.step = "settle" =>
         line[Here] = Pin(Requested(bridge.type), chan[Here].last_output)

(* A dead process holds no line.                                           *)
LinesReleased == ~ up => \A c \in Channels : line[c] = Free

(* The inductive invariant.  PinFollowsWords is about channels at rest;    *)
(* that it holds again when a flip is over rests on FlipUnderWay, and that *)
(* a new output starts at the right level on WordsApplied.                 *)
IInv ==
  /\ TypeOK
  /\ WordsApplied
  /\ FlipUnderWay
  /\ LinesReleased
  /\ PinFollowsWords

-----------------------------------------------------------------------------

(* The switch of on_type_changed yields a mode.                            *)
LEMMA RequestedIsMode == ASSUME NEW t PROVE Requested(t) \in Modes
  BY Zenon DEF Requested, Modes

(* So does the mode of the last type.                                      *)
LEMMA ModeForIsMode == ASSUME NEW t PROVE ModeFor(t) \in Modes
  BY RequestedIsMode DEF ModeFor, Modes

(* A level is a Boolean.                                                   *)
LEMMA LevelIsBoolean == ASSUME NEW v PROVE Level(v) \in BOOLEAN
  BY DEF Level

(* The line of a mode is a line, Free the line of no mode.                 *)
LEMMA PinIsLine ==
  ASSUME NEW m \in Modes, NEW b \in BOOLEAN
  PROVE  /\ Pin(m, b) \in Lines
         /\ m = "Unconfigured" => Pin(m, b) = Free
         /\ m = "DigitalInput" => Pin(m, b).dir = "in"
  BY DEF Pin, Free, Direction, Modes, Lines

(* Lines of different modes have different directions.                     *)
LEMMA DirectionOfPin ==
  ASSUME NEW m \in Modes, NEW n \in Modes, NEW b
  PROVE  /\ Pin(m, b).dir = Direction[m]
         /\ Direction[m] = Direction[n] => m = n
  BY DEF Pin, Direction, Modes

(* Setting the level of a held output yields that output's line.           *)
LEMMA SetLevel ==
  ASSUME NEW a \in BOOLEAN, NEW b \in BOOLEAN
  PROVE  [Pin("DigitalOutput", a) EXCEPT !.level = b] = Pin("DigitalOutput", b)
  BY DEF Pin, Direction

(* The line of a mode that is no output does not depend on the level.      *)
LEMMA LevelIrrelevant ==
  ASSUME NEW m \in Modes, m # "DigitalOutput", NEW a \in BOOLEAN, NEW b \in BOOLEAN
  PROVE  Pin(m, a) = Pin(m, b)
  BY DEF Pin

(* The channel after a channel is a channel.                               *)
LEMMA NextIsChannel == ASSUME NEW c \in Channels PROVE NextChannel(c) \in Channels
  BY SmartIoAssumption DEF Channels, NextChannel

(* There is a first channel.                                               *)
LEMMA FirstIsChannel == 1 \in Channels
  BY SmartIoAssumption DEF Channels

-----------------------------------------------------------------------------
(* Init satisfies the invariant.                                           *)
LEMMA InitIInv == Init => IInv
<1> SUFFICES ASSUME Init PROVE IInv
  OBVIOUS
<1>1. /\ kSentinel \in Int /\ NoValue \in {NoValue, 0, 255}
      /\ Free \in Lines /\ ModeFor(kSentinel) = "Unconfigured" /\ Level(kSentinel) = FALSE
      /\ Free = Pin("Unconfigured", FALSE)
  BY DEF kSentinel, Free, Lines, ModeFor, Level, Pin, Direction
<1>2. TypeOK
  <2>1. Unwritten \in Words /\ NewChannel \in ChanType
    BY <1>1 DEF Unwritten, Words, NewChannel, ChanType, Modes
  <2>2. FirstStep \in [at : Channels, step : Steps, type : Int] /\ RslNotStarted \in RslType
    BY <1>1, FirstIsChannel DEF FirstStep, Steps, RslNotStarted, RslType
  <2>3. count \in CountType
    BY SmartIoAssumption DEF Init, CountType
  <2> QED
    BY <1>1, <2>1, <2>2, <2>3 DEF Init, TypeOK, ChanType, RslType, CountType
<1>3. WordsApplied
  BY <1>1 DEF Init, WordsApplied, NewChannel
<1>4. FlipUnderWay
  BY DEF Init, FlipUnderWay, FirstStep
<1>5. PinFollowsWords
  BY <1>1 DEF Init, PinFollowsWords, NewChannel
<1> QED
  BY <1>2, <1>3, <1>4, <1>5 DEF IInv, LinesReleased, Init

(* Steps that leave the daemon's channels, lines and bridge alone.         *)
LEMMA Unaffected ==
  ASSUME IInv, TypeOK', UNCHANGED <<chan, line, bridge, up>>
  PROVE  IInv'
  BY DEF IInv, WordsApplied, FlipUnderWay, LinesReleased, PinFollowsWords, AtRest, Here

(* Every step preserves the invariant.                                     *)
LEMMA NextIInv == IInv /\ [Next]_vars => IInv'
<1> SUFFICES ASSUME IInv, [Next]_vars PROVE IInv'
  OBVIOUS
<1> USE DEF IInv
<1>1. CASE HalNext
  <2>1. PICK c \in Channels, topic \in {"type", "valset"}, v \in Int : HalPublish(c, topic, v)
    BY <1>1, SmartIoAssumption DEF HalNext
  <2>2. hal' \in [Channels -> Words]
    BY <2>1 DEF HalPublish, TypeOK, Words
  <2>3. count' \in CountType
    BY <2>1, SmartIoAssumption DEF HalPublish, TypeOK, CountType
  <2>4. UNCHANGED <<topics, chan, line, valget, bridge, rsl, enabled, up>>
    BY <2>1 DEF HalPublish
  <2>5. TypeOK'
    BY <2>2, <2>3, <2>4 DEF TypeOK, CountType
  <2> QED
    BY <2>4, <2>5, Unaffected, Zenon
<1>2. ASSUME NEW c \in Channels, NEW topic \in {"type", "valset"}, Deliver(c, topic)
      PROVE  IInv'
  <2>1. topics' \in [Channels -> Words]
    <3>1. topics \in [Channels -> Words] /\ hal[c] \in Words
      BY DEF TypeOK
    <3>2. [topics[c] EXCEPT ![topic] = hal[c][topic]] \in Words
      BY <3>1 DEF Words
    <3>3. topics' = [topics EXCEPT ![c] = [topics[c] EXCEPT ![topic] = hal[c][topic]]]
      BY <1>2 DEF Deliver
    <3> QED
      BY <3>1, <3>2, <3>3
  <2> QED
    BY <1>2, <2>1, Unaffected DEF Deliver, TypeOK
<1>10. CASE HalDrop
  <2>1. kSentinel \in Int
    BY DEF kSentinel
  <2>2. topics' \in [Channels -> Words]
    BY <1>10, <2>1 DEF HalDrop, Unwritten, Words
  <2>3. count' \in CountType
    BY <1>10, SmartIoAssumption DEF HalDrop, TypeOK, CountType
  <2> QED
    BY <1>10, <2>2, <2>3, Unaffected DEF HalDrop, TypeOK, CountType
<1>3. CASE SetEnabled
  <2>1. count' \in CountType
    BY <1>3, SmartIoAssumption DEF SetEnabled, TypeOK, CountType
  <2> QED
    BY <1>3, <2>1, Unaffected DEF SetEnabled, TypeOK, CountType
<1>4. CASE RslStart
  <2>1. rsl' \in RslType
    BY <1>4 DEF RslStart, TypeOK, RslType
  <2> QED
    BY <1>4, <2>1, Unaffected DEF RslStart, TypeOK, RslType
<1>5. CASE RslTick
  <2>1. RslWants \subseteq BOOLEAN
    BY DEF RslWants, desired_level
  <2>2. rsl' \in RslType
    <3>1. PICK want \in RslWants, outcome \in Outcomes :
            rsl' = [rsl EXCEPT !.last = want,
                               !.level = IF rsl.held /\ outcome = "done"
                                         THEN want ELSE rsl.level]
      BY <1>5 DEF RslTick
    <3>2. want \in BOOLEAN /\ rsl \in RslType
      BY <2>1 DEF TypeOK, RslType
    <3> QED
      BY <3>1, <3>2 DEF RslType
  <2> QED
    BY <1>5, <2>2, Unaffected DEF RslTick, TypeOK, RslType
<1>6. CASE Terminate
  <2>1. Free \in Lines
    BY PinIsLine DEF Free, Modes
  <2>2. TypeOK'
    <3>1. count' \in CountType
      BY <1>6, SmartIoAssumption DEF Terminate, TypeOK, CountType
    <3>2. rsl' \in RslType
      BY <1>6 DEF Terminate, RslNotStarted, RslType
    <3>3. line' \in [Channels -> Lines]
      BY <1>6, <2>1 DEF Terminate
    <3> QED
      BY <1>6, <3>1, <3>2, <3>3 DEF Terminate, TypeOK, CountType, RslType
  <2>3. up' = FALSE /\ chan' = chan /\ line' = [c \in Channels |-> Free]
    BY <1>6 DEF Terminate
  <2>4. WordsApplied'
    BY <2>3 DEF WordsApplied
  <2>5. FlipUnderWay' /\ LinesReleased' /\ PinFollowsWords'
    BY <2>3 DEF FlipUnderWay, LinesReleased, PinFollowsWords
  <2> QED
    BY <2>2, <2>4, <2>5
<1>7. CASE BridgeNext
  <2>0. /\ Here \in Channels /\ up \in BOOLEAN
        /\ bridge \in [at : Channels, step : Steps, type : Int]
    BY DEF TypeOK, Here
  <2>1. CASE TypeUnchanged \/ ValsetUnchanged
    <3>1. \E s \in {"valset", "sample"} : bridge' = [bridge EXCEPT !.step = s]
      BY <2>1 DEF TypeUnchanged, ValsetUnchanged, Go
    <3>2. /\ UNCHANGED <<hal, topics, chan, line, valget, rsl, enabled, up, count>>
          /\ up /\ bridge.step \in {"type", "valset"}
      BY <2>1 DEF TypeUnchanged, ValsetUnchanged, At
    <3>3. TypeOK'
      BY <3>1, <3>2 DEF TypeOK, Steps
    <3> QED
      BY <2>0, <3>1, <3>2, <3>3 DEF WordsApplied, FlipUnderWay, LinesReleased, PinFollowsWords, AtRest, Here
  <2>2. CASE TypeIdempotent
    <3> DEFINE t == topics[Here].type
    <3>1. /\ t # kSentinel /\ Requested(t) = chan[Here].mode /\ t \in Int
          /\ chan' = [chan EXCEPT ![Here].last_type = t]
          /\ bridge' = [bridge EXCEPT !.step = "valset"]
          /\ UNCHANGED <<hal, topics, line, valget, rsl, enabled, up, count>>
          /\ up /\ bridge.step = "type"
      BY <2>0, <2>2 DEF TypeIdempotent, TypeHeard, Heard, At, Go, TypeOK, Words
    <3> HIDE DEF t
    <3>2. TypeOK'
      BY <2>0, <3>1 DEF TypeOK, Steps
    <3>3. ModeFor(t) = ModeFor(chan[Here].last_type)
      BY <2>0, <3>1 DEF WordsApplied, ModeFor
    <3>4. \A c \in Channels : /\ chan'[c].mode = chan[c].mode
                              /\ chan'[c].last_output = chan[c].last_output
                              /\ chan'[c].last_valset = chan[c].last_valset
                              /\ ModeFor(chan'[c].last_type) = ModeFor(chan[c].last_type)
      BY <2>0, <3>1, <3>3 DEF TypeOK
    <3>5. WordsApplied'
      BY <3>4 DEF WordsApplied
    <3>6. FlipUnderWay'
      BY <2>0, <3>1 DEF FlipUnderWay
    <3>7. PinFollowsWords'
      BY <2>0, <3>1, <3>4 DEF PinFollowsWords, AtRest, Here
    <3> QED
      BY <3>1, <3>2, <3>5, <3>6, <3>7 DEF LinesReleased
  <2>3. CASE TypeFlip
    <3> DEFINE t == topics[Here].type
    <3>1. /\ t # kSentinel /\ t \in Int
          /\ \E s \in {"release", "request"} : bridge' = [at |-> Here, step |-> s, type |-> t]
          /\ UNCHANGED <<hal, topics, chan, line, valget, rsl, enabled, up, count>>
          /\ up /\ bridge.step = "type"
      BY <2>0, <2>3 DEF TypeFlip, TypeHeard, Heard, FirstOfFlip, At, TypeOK, Words
    <3>2. /\ bridge'.step = "request" => line[Here] = Free
          /\ line[Here].dir # Direction[Requested(t)]
      <4>1. /\ bridge'.step = "request" => chan[Here].mode = "Unconfigured"
            /\ Requested(t) # chan[Here].mode
        BY <2>3 DEF TypeFlip, FirstOfFlip
      <4>2. /\ line[Here] = Pin(chan[Here].mode, chan[Here].last_output)
            /\ chan[Here].mode \in Modes /\ chan[Here].last_output \in BOOLEAN
        BY <2>0, <3>1 DEF PinFollowsWords, WordsApplied, AtRest, TypeOK
      <4>3. line[Here].dir # Direction[Requested(t)]
        BY <4>1, <4>2, DirectionOfPin, RequestedIsMode
      <4> QED
        BY <4>1, <4>2, <4>3, PinIsLine
    <3> HIDE DEF t
    <3>3. TypeOK'
      BY <2>0, <3>1 DEF TypeOK, Steps
    <3>4. FlipUnderWay'
      BY <2>0, <3>1, <3>2 DEF FlipUnderWay, Here
    <3> QED
      BY <2>0, <3>1, <3>3, <3>4 DEF WordsApplied, LinesReleased, PinFollowsWords, AtRest, Here
  <2>4. CASE release_line
    <3> DEFINE s == IF Requested(bridge.type) = "Unconfigured" THEN "settle" ELSE "request"
    <3>1. /\ line' = [line EXCEPT ![Here] = Free]
          /\ bridge' = [bridge EXCEPT !.step = s]
          /\ UNCHANGED <<hal, topics, chan, valget, rsl, enabled, up, count>>
          /\ up /\ bridge.step = "release" /\ s \in {"settle", "request"}
      BY <2>4 DEF release_line, At, Go
    <3>2. /\ chan[Here].last_output \in BOOLEAN
          /\ Requested(bridge.type) = "Unconfigured" =>
               Pin(Requested(bridge.type), chan[Here].last_output) = Free
          /\ Free \in Lines
      BY <2>0, PinIsLine DEF TypeOK, Modes, Free
    <3>3. TypeOK'
      BY <2>0, <3>1, <3>2 DEF TypeOK, Steps
    <3>4. line'[Here] = Free
      BY <2>0, <3>1 DEF TypeOK
    <3>5. FlipUnderWay'
      BY <2>0, <3>1, <3>2, <3>4 DEF FlipUnderWay, Here
    <3>6. PinFollowsWords'
      BY <2>0, <3>1 DEF PinFollowsWords, AtRest, Here
    <3> QED
      BY <3>1, <3>3, <3>5, <3>6 DEF WordsApplied, LinesReleased
  <2>5. CASE request_line
    <3> DEFINE pin == Pin(Requested(bridge.type), chan[Here].last_output)
    <3>1. /\ line' = [line EXCEPT ![Here] = pin]
          /\ bridge' = [bridge EXCEPT !.step = "settle"]
          /\ UNCHANGED <<hal, topics, chan, valget, rsl, enabled, up, count>>
          /\ up /\ bridge.step = "request"
      BY <2>5 DEF request_line, StartLevel, At, Go
    <3>2. pin \in Lines
      BY <2>0, PinIsLine, RequestedIsMode DEF TypeOK
    <3>3. TypeOK'
      BY <2>0, <3>1, <3>2 DEF TypeOK, Steps
    <3>4. line'[Here] = pin
      BY <2>0, <3>1 DEF TypeOK
    <3>5. FlipUnderWay'
      BY <2>0, <3>1, <3>4 DEF FlipUnderWay, Here
    <3>6. PinFollowsWords'
      BY <2>0, <3>1 DEF PinFollowsWords, AtRest, Here
    <3> QED
      BY <3>1, <3>3, <3>5, <3>6 DEF WordsApplied, LinesReleased
  <2>6. CASE RequestRefused \/ SetRefused \/ GetRefused
    BY <2>6, <1>6 DEF RequestRefused, SetRefused, GetRefused
  <2>7. CASE Settle
    <3> DEFINE m == Requested(bridge.type)
    <3>1. /\ chan' = [chan EXCEPT ![Here] = [@ EXCEPT !.mode = m, !.last_type = bridge.type]]
          /\ bridge' = [bridge EXCEPT !.step = "valset"]
          /\ UNCHANGED <<hal, topics, line, valget, rsl, enabled, up, count>>
          /\ up /\ bridge.step = "settle" /\ bridge.type # kSentinel
          /\ line[Here] = Pin(m, chan[Here].last_output)
      BY <2>7 DEF Settle, At, Go, FlipUnderWay
    <3>2. m \in Modes /\ m = ModeFor(bridge.type)
      BY <3>1, RequestedIsMode DEF ModeFor
    <3> HIDE DEF m
    <3>3. TypeOK'
      <4>1. chan' \in [Channels -> ChanType]
        <5> DEFINE new == [chan[Here] EXCEPT !.mode = m, !.last_type = bridge.type]
        <5>1. chan[Here] \in ChanType
          BY <2>0 DEF TypeOK, ChanType
        <5>2. new \in ChanType
          BY <2>0, <3>2, <5>1 DEF ChanType
        <5>3. chan' = [chan EXCEPT ![Here] = new]
          BY <2>0, <3>1 DEF TypeOK
        <5> QED
          BY <5>2, <5>3 DEF TypeOK, ChanType
      <4>2. bridge' \in [at : Channels, step : Steps, type : Int]
        BY <2>0, <3>1 DEF Steps
      <4> QED
        BY <3>1, <4>1, <4>2 DEF TypeOK, ChanType
    <3>4. /\ chan'[Here].mode = ModeFor(chan'[Here].last_type)
          /\ chan'[Here].last_type = bridge.type
          /\ \A c \in Channels : /\ chan'[c].last_output = chan[c].last_output
                                 /\ chan'[c].last_valset = chan[c].last_valset
                                 /\ c # Here => chan'[c] = chan[c]
      BY <2>0, <3>1, <3>2 DEF TypeOK
    <3>5. WordsApplied'
      BY <2>0, <3>4 DEF WordsApplied
    <3>6. FlipUnderWay'
      BY <2>0, <3>1 DEF FlipUnderWay
    <3>7. line'[Here] = Pin(ModeFor(chan'[Here].last_type), Level(chan'[Here].last_valset))
      BY <2>0, <3>1, <3>2, <3>4 DEF WordsApplied
    <3>8. PinFollowsWords'
      BY <2>0, <3>1, <3>4, <3>7 DEF PinFollowsWords, AtRest, Here
    <3> QED
      BY <3>1, <3>3, <3>5, <3>6, <3>8 DEF LinesReleased
  <2>8. CASE on_valset
    <3> DEFINE v == topics[Here].valset
               b == to_int(v) # 0
    <3>1. /\ v # kSentinel /\ v \in Int
          /\ chan' = [chan EXCEPT ![Here] = [@ EXCEPT !.last_output = b, !.last_valset = v]]
          /\ line' = IF chan[Here].mode = "DigitalOutput"
                     THEN [line EXCEPT ![Here].level = b] ELSE line
          /\ bridge' = [bridge EXCEPT !.step = "sample"]
          /\ UNCHANGED <<hal, topics, valget, rsl, enabled, up, count>>
          /\ up /\ bridge.step = "valset"
      BY <2>0, <2>8 DEF on_valset, ValsetHeard, Heard, At, Go, TypeOK, Words
    <3>2. b = Level(v) /\ b \in BOOLEAN
      BY <3>1 DEF Level
    <3> HIDE DEF v, b
    <3>3. TypeOK'
      <4>1. chan' \in [Channels -> ChanType]
        <5> DEFINE new == [chan[Here] EXCEPT !.last_output = b, !.last_valset = v]
        <5>1. chan[Here] \in ChanType
          BY <2>0 DEF TypeOK, ChanType
        <5>2. new \in ChanType
          BY <3>1, <3>2, <5>1 DEF ChanType
        <5>3. chan' = [chan EXCEPT ![Here] = new]
          BY <2>0, <3>1 DEF TypeOK
        <5> QED
          BY <5>2, <5>3 DEF TypeOK, ChanType
      <4>2. bridge' \in [at : Channels, step : Steps, type : Int]
        BY <2>0, <3>1 DEF Steps
      <4>3. line' \in [Channels -> Lines]
        <5>1. line[Here] \in Lines
          BY <2>0 DEF TypeOK
        <5>2. [line[Here] EXCEPT !.level = b] \in Lines
          BY <3>2, <5>1 DEF Lines
        <5> QED
          BY <2>0, <3>1, <5>2 DEF TypeOK
      <4> QED
        BY <3>1, <4>1, <4>2, <4>3 DEF TypeOK, ChanType
    <3>4. /\ chan'[Here].last_output = Level(chan'[Here].last_valset)
          /\ \A c \in Channels : /\ chan'[c].mode = chan[c].mode
                                 /\ chan'[c].last_type = chan[c].last_type
                                 /\ c # Here => chan'[c] = chan[c] /\ line'[c] = line[c]
      BY <2>0, <3>1, <3>2 DEF TypeOK
    <3>5. WordsApplied'
      BY <2>0, <3>4 DEF WordsApplied
    <3>6. FlipUnderWay'
      BY <2>0, <3>1 DEF FlipUnderWay
    <3>7. line'[Here] = Pin(ModeFor(chan'[Here].last_type), Level(chan'[Here].last_valset))
      <4> DEFINE m == chan[Here].mode
                 a == chan[Here].last_output
      <4>1. /\ m \in Modes /\ a \in BOOLEAN /\ m = ModeFor(chan[Here].last_type)
            /\ line[Here] = Pin(m, a)
            /\ chan'[Here].last_type = chan[Here].last_type
            /\ Level(chan'[Here].last_valset) = b
        BY <2>0, <3>1, <3>2, <3>4 DEF TypeOK, WordsApplied, PinFollowsWords, AtRest
      <4>2. CASE m = "DigitalOutput"
        <5>1. line'[Here] = [line[Here] EXCEPT !.level = b]
          BY <2>0, <3>1, <4>2 DEF TypeOK
        <5> QED
          BY <5>1, <4>1, <4>2, <3>2, SetLevel
      <4>3. CASE m # "DigitalOutput"
        <5>1. line'[Here] = line[Here] /\ Pin(m, a) = Pin(m, b)
          BY <3>1, <3>2, <4>1, <4>3, LevelIrrelevant
        <5> QED
          BY <5>1, <4>1
      <4> QED
        BY <4>2, <4>3
    <3>8. PinFollowsWords'
      BY <2>0, <3>1, <3>4, <3>7 DEF PinFollowsWords, AtRest, Here
    <3> QED
      BY <3>1, <3>3, <3>5, <3>6, <3>8 DEF LinesReleased
  <2>9. CASE sample_input
    <3>1. /\ bridge' = [bridge EXCEPT !.at = NextChannel(Here), !.step = "type"]
          /\ UNCHANGED <<hal, topics, chan, line, rsl, enabled, up, count>>
          /\ up /\ bridge.step = "sample" /\ NextChannel(Here) \in Channels
      BY <2>0, <2>9, NextIsChannel DEF sample_input, At
    <3>2. valget' \in [Channels -> {NoValue, 0, 255}]
      BY <2>9 DEF sample_input, TypeOK
    <3>3. TypeOK'
      <4>1. bridge' \in [at : Channels, step : Steps, type : Int]
        BY <2>0, <3>1 DEF Steps
      <4> QED
        BY <3>1, <3>2, <4>1 DEF TypeOK
    <3> QED
      BY <2>0, <3>1, <3>3 DEF WordsApplied, FlipUnderWay, LinesReleased, PinFollowsWords, AtRest, Here
  <2> QED
    BY <1>7, <2>1, <2>2, <2>3, <2>4, <2>5, <2>6, <2>7, <2>8, <2>9 DEF BridgeNext
<1>8. CASE Restart
  <2>1. /\ kSentinel \in Int /\ ModeFor(kSentinel) = "Unconfigured"
        /\ Level(kSentinel) = FALSE /\ Free = Pin("Unconfigured", FALSE)
    BY DEF kSentinel, Free, ModeFor, Level
  <2>2. TypeOK'
    BY <1>8, <2>1, FirstIsChannel
       DEF Restart, TypeOK, Words, Unwritten, NewChannel, Modes, Steps, FirstStep
  <2>3. WordsApplied'
    BY <1>8, <2>1 DEF Restart, WordsApplied, NewChannel
  <2>4. FlipUnderWay'
    BY <1>8 DEF Restart, FlipUnderWay, FirstStep
  <2>5. \A c \in Channels : line[c] = Free
    BY <1>8 DEF Restart, LinesReleased
  <2>6. PinFollowsWords'
    BY <1>8, <2>1, <2>5 DEF Restart, PinFollowsWords, NewChannel
  <2> QED
    BY <1>8, <2>2, <2>3, <2>4, <2>6 DEF Restart, LinesReleased
<1>9. CASE UNCHANGED vars
  <2>1. TypeOK'
    BY <1>9 DEF TypeOK, vars
  <2> QED
    BY <1>9, <2>1, Unaffected DEF vars
<1> QED
  BY <1>1, <1>2, <1>3, <1>4, <1>5, <1>6, <1>7, <1>8, <1>9, <1>10 
     DEF Next, RslStartRefused, RslSetRefused

(* IInv is an invariant.                                                   *)
THEOREM Invariance == Spec => []IInv
  BY InitIInv, NextIInv, PTL DEF Spec

(* The variables of the bridge, its channels and its lines keep their      *)
(* types; the bridge is always at one of its channels.                     *)
THEOREM TypeCorrect == Spec => []TypeOK
<1>1. IInv => TypeOK
  BY DEF IInv
<1> QED
  BY Invariance, <1>1, PTL

(* Every channel at rest has the line its last type and valset call for,   *)
(* whatever sequence of flips, values and restarts came before.            *)
THEOREM PinsFollow == Spec => []PinFollowsWords
<1>1. IInv => PinFollowsWords
  BY DEF IInv
<1> QED
  BY Invariance, <1>1, PTL

(* Only a line that is held as an input is sampled.                        *)
THEOREM OnlyInputsSampled == Spec => SampledIsInput
<1> DEFINE A == up => \A c \in Channels : valget'[c] # valget[c] => line[c].dir = "in"
<1>1. IInv /\ [Next]_vars => [A]_vars
  <2> SUFFICES ASSUME IInv, Next, up, NEW c \in Channels, valget'[c] # valget[c]
               PROVE  line[c].dir = "in"
    OBVIOUS
  <2>1. valget' # valget
    OBVIOUS
  <2>2. sample_input
    BY <2>1 DEF Next, HalNext, HalPublish, Deliver, HalDrop, BridgeNext, TypeUnchanged, TypeIdempotent,
                TypeFlip, release_line, request_line, RequestRefused, SetRefused, GetRefused,
                Terminate, Settle, ValsetUnchanged, on_valset, Restart, SetEnabled, RslStart,
                RslStartRefused, RslTick, RslSetRefused
  <2>3. /\ chan[Here].mode = "DigitalInput" /\ c = Here
        /\ bridge.step = "sample" /\ Here \in Channels
    BY <2>2 DEF sample_input, Sampled, At, IInv, TypeOK, Here
  <2>4. line[Here] = Pin("DigitalInput", Level(chan[Here].last_valset))
    BY <2>3 DEF IInv, WordsApplied, PinFollowsWords, AtRest
  <2> QED
    BY <2>3, <2>4, PinIsLine, LevelIsBoolean DEF Modes
<1> QED
  BY Invariance, <1>1, PTL DEF Spec, SampledIsInput

-----------------------------------------------------------------------------
(* The rules of the pins.                                                  *)

(* The lines SmartIo speaks of are the pins PinRules speaks of.            *)
LEMMA SamePins ==
  /\ Free = Rules!Free
  /\ \A m \in Modes : \A b \in BOOLEAN : Pin(m, b) = Rules!Taken(Direction[m], b)
<1>1. Free = Rules!Free
  BY DEF Free, Pin, Direction, Rules!Free
<1>2. ASSUME NEW m \in Modes, NEW b \in BOOLEAN PROVE Pin(m, b) = Rules!Taken(Direction[m], b)
  <2>1. Direction[m] = "out" <=> m = "DigitalOutput"
    BY DEF Direction, Modes
  <2> QED
    BY <2>1 DEF Pin, Rules!Taken
<1> QED
  BY <1>1, <1>2

(* A type stands for a direction of PinRules.                              *)
LEMMA DirectionToldOf == ASSUME NEW t PROVE Direction[Requested(t)] \in Rules!Directions
  BY RequestedIsMode DEF Direction, Modes, Rules!Directions

(* A channel that has heard nothing is told nothing.                       *)
LEMMA UnwrittenIsNothing ==
  ASSUME NEW c \in Channels, topics[c] = Unwritten PROVE Told(c) = Rules!Nothing
  BY DEF Told, Unwritten, Rules!Nothing

(* For any number of channels and any faults, the bridge keeps the rules:  *)
(* no pin moves but on a word NT4 holds, released before requested,        *)
(* outputs restored.                                                       *)
THEOREM PinRulesKept == Spec => KeepsPinRules
<1> DEFINE told   == [c \in Channels |-> Told(c)]
           turned == [c \in Channels |-> Direction[TurnedTo(c)]]
           level  == [c \in Channels |-> chan[c].last_output]
<1>1. Init => Rules!Init
  <2> SUFFICES ASSUME Init PROVE Rules!Init
    OBVIOUS
  <2>1. level = [c \in Channels |-> FALSE]
    BY DEF Init, NewChannel
  <2>2. told = [c \in Channels |-> Rules!Nothing]
    BY UnwrittenIsNothing DEF Init
  <2>3. \A c \in Channels : TurnedTo(c) = "Unconfigured"
    BY DEF Init, NewChannel, FirstStep, TurnedTo, AtRest, Here
  <2>4. turned = [c \in Channels |-> "none"]
    BY <2>3 DEF Direction
  <2> QED
    BY <2>1, <2>2, <2>4, SamePins DEF Init, Rules!Init
<1>2. IInv /\ [Next]_vars => [Rules!Next]_(Rules!vars)
  <2> SUFFICES ASSUME IInv, [Next]_vars, ~ UNCHANGED Rules!vars PROVE Rules!Next
    OBVIOUS
  <2>0. /\ Here \in Channels /\ chan \in [Channels -> ChanType] /\ line \in [Channels -> Lines]
        /\ up \in BOOLEAN /\ bridge \in [at : Channels, step : Steps, type : Int]
    BY DEF IInv, TypeOK, Here, ChanType
  <2>1. UNCHANGED topics => told' = told
    BY DEF Told
  <2>2. UNCHANGED <<chan, bridge>> => turned' = turned /\ level' = level
    BY DEF TurnedTo, AtRest, Here
  <2>3. ASSUME UNCHANGED <<topics, chan, bridge, line, up>> PROVE FALSE
    BY <2>1, <2>2, <2>3 DEF Rules!vars
  <2>4. ASSUME UNCHANGED <<topics, line, up>>, turned' = turned, level' = level PROVE FALSE
    BY <2>1, <2>4 DEF Rules!vars
  <2>5. ASSUME up, UNCHANGED <<chan, bridge, line, up>> PROVE Rules!Next
    <3>1. \A c \in Channels : Told(c)' \in Rules!Words
      BY DirectionToldOf DEF Told, Rules!Words
    <3>2. told' \in [Channels -> Rules!Words]
      BY <3>1
    <3> QED
      BY <2>2, <2>5, <3>2 DEF Rules!Next, Rules!Tell
  <2>6. ASSUME Terminate, up PROVE Rules!Next
    BY <2>1, <2>2, <2>6, SamePins DEF Terminate, Rules!Next, Rules!Die
  <2>7. CASE Restart
    <3>1. level' = [c \in Channels |-> FALSE]
      BY <2>7 DEF Restart, NewChannel
    <3>2. told' = [c \in Channels |-> Rules!Nothing]
      <4>1. \A c \in Channels : topics'[c] = Unwritten
        BY <2>7 DEF Restart
      <4> QED
        BY <4>1 DEF Told, Unwritten, Rules!Nothing
    <3>3. turned' = [c \in Channels |-> "none"]
      <4>1. \A c \in Channels : TurnedTo(c)' = "Unconfigured"
        BY <2>7 DEF Restart, NewChannel, FirstStep, TurnedTo, AtRest, Here
      <4> QED
        BY <4>1 DEF Direction
    <3> QED
      BY <2>7, <3>1, <3>2, <3>3 DEF Restart, Rules!Next, Rules!Revive
  <2>8. CASE TypeUnchanged \/ ValsetUnchanged \/ sample_input
    <3>1. /\ UNCHANGED <<topics, chan, line, up>>
          /\ bridge.step \in {"type", "valset", "sample"}
          /\ bridge'.step \in {"type", "valset", "sample"}
      BY <2>0, <2>8 DEF TypeUnchanged, ValsetUnchanged, sample_input, At, Go
    <3>2. \A c \in Channels : TurnedTo(c)' = TurnedTo(c)
      BY <3>1 DEF TurnedTo, AtRest
    <3> QED
      BY <2>4, <3>1, <3>2
  <2>9. CASE TypeIdempotent
    <3>1. \A c \in Channels : /\ chan'[c].last_output = chan[c].last_output
                              /\ chan'[c].mode = chan[c].mode
      BY <2>0, <2>9 DEF TypeIdempotent, ChanType
    <3>2. bridge.step = "type" /\ bridge'.step = "valset" /\ UNCHANGED <<topics, line, up>>
      BY <2>0, <2>9 DEF TypeIdempotent, At, Go
    <3>3. \A c \in Channels : TurnedTo(c)' = TurnedTo(c)
      BY <3>1, <3>2 DEF TurnedTo, AtRest
    <3> QED
      BY <2>4, <3>1, <3>2, <3>3
  <2>10. CASE TypeFlip
    <3> DEFINE t == topics[Here].type
               d == Direction[Requested(t)]
    <3>1. /\ up /\ t # kSentinel /\ bridge.step = "type"
          /\ bridge' = [at |-> Here, step |-> FirstOfFlip(chan[Here].mode), type |-> t]
          /\ UNCHANGED <<topics, chan, line, up>>
      BY <2>10 DEF TypeFlip, TypeHeard, Heard, At
    <3>2. d \in Told(Here).dirs
      BY <3>1 DEF Told
    <3>3. /\ \A c \in Channels : TurnedTo(c) = chan[c].mode
          /\ \A c \in Channels : TurnedTo(c)' = IF c = Here THEN Requested(t) ELSE chan[c].mode
      BY <2>0, <3>1 DEF TurnedTo, AtRest, Here, FirstOfFlip
    <3>4. turned' = [turned EXCEPT ![Here] = d]
      <4>1. \A c \in Channels : turned'[c] = IF c = Here THEN d ELSE turned[c]
        BY <2>0, <3>3
      <4> QED
        BY <2>0, <4>1
    <3>5. told[Here] = Told(Here) /\ level' = level /\ told' = told
      BY <2>0, <2>1, <3>1
    <3> HIDE DEF told, turned, level, d
    <3> QED
      BY <2>0, <3>1, <3>2, <3>4, <3>5 DEF Rules!Next, Rules!Turn, told, turned, level
  <2>11. CASE release_line
    <3>1. /\ up /\ bridge.step = "release" /\ bridge'.step \in {"settle", "request"}
          /\ bridge'.type = bridge.type /\ bridge'.at = bridge.at
          /\ line' = [line EXCEPT ![Here] = Free] /\ UNCHANGED <<topics, chan, up>>
      BY <2>0, <2>11 DEF release_line, At, Go
    <3>2. turned' = turned /\ level' = level /\ told' = told
      BY <2>1, <3>1 DEF TurnedTo, AtRest, Here
    <3>3. line[Here].dir # turned[Here]
      BY <2>0, <3>1 DEF IInv, FlipUnderWay, TurnedTo, AtRest
    <3> QED
      BY <2>0, <3>1, <3>2, <3>3, SamePins DEF Rules!Next, Rules!Release
  <2>12. CASE request_line
    <3> DEFINE m == Requested(bridge.type)
               b == chan[Here].last_output
    <3>1. /\ up /\ line[Here] = Free /\ line' = [line EXCEPT ![Here] = Pin(m, b)]
          /\ bridge.step = "request" /\ bridge'.step = "settle"
          /\ bridge'.type = bridge.type /\ bridge'.at = bridge.at
          /\ UNCHANGED <<topics, chan, up>>
      BY <2>0, <2>12 DEF request_line, StartLevel, At, Go, IInv, FlipUnderWay
    <3>2. turned' = turned /\ level' = level /\ told' = told
      BY <2>1, <3>1 DEF TurnedTo, AtRest, Here
    <3>3. m \in Modes /\ b \in BOOLEAN /\ level[Here] = b /\ turned[Here] = Direction[m]
      BY <2>0, <3>1, RequestedIsMode DEF ChanType, TurnedTo, AtRest
    <3>4. Pin(m, b) = Rules!Taken(turned[Here], level[Here])
      BY <3>3, SamePins
    <3> QED
      BY <2>0, <3>1, <3>2, <3>4, SamePins DEF Rules!Next, Rules!Acquire
  <2>13. CASE Settle
    <3>1. /\ \A c \in Channels : /\ chan'[c].last_output = chan[c].last_output
                                 /\ c # Here => chan'[c] = chan[c]
          /\ chan'[Here].mode = Requested(bridge.type)
      BY <2>0, <2>13 DEF Settle, ChanType
    <3>2. /\ bridge.step = "settle" /\ bridge'.step = "valset" /\ bridge'.at = bridge.at
          /\ UNCHANGED <<topics, line, up>>
      BY <2>0, <2>13 DEF Settle, At, Go
    <3>3. \A c \in Channels : TurnedTo(c)' = TurnedTo(c)
      BY <2>0, <3>1, <3>2 DEF TurnedTo, AtRest, Here
    <3> QED
      BY <2>4, <3>1, <3>2, <3>3
  <2>14. CASE on_valset
    <3> DEFINE v == topics[Here].valset
               b == to_int(v) # 0
               m == chan[Here].mode
    <3>1. /\ up /\ UNCHANGED <<up, topics>> /\ b \in BOOLEAN /\ v # kSentinel
          /\ chan'[Here].last_output = b
          /\ \A c \in Channels : chan'[c].mode = chan[c].mode
          /\ \A c \in Channels : c # Here => chan'[c] = chan[c]
          /\ line' = IF m = "DigitalOutput" THEN [line EXCEPT ![Here].level = b] ELSE line
          /\ bridge.step = "valset" /\ bridge'.step = "sample"
      BY <2>0, <2>14 DEF on_valset, ValsetHeard, Heard, At, Go, ChanType
    <3>2. b \in Told(Here).levels
      BY <3>1 DEF Told
    <3>3. told[Here] = Told(Here) /\ told' = told
      BY <2>0, <2>1, <3>1
    <3> HIDE DEF b
    <3>4. level' = [level EXCEPT ![Here] = b]
      BY <2>0, <3>1
    <3>5. turned' = turned
      BY <3>1 DEF TurnedTo, AtRest
    <3>6. line[Here] = Pin(m, chan[Here].last_output) /\ m \in Modes /\ chan[Here].last_output \in BOOLEAN
      BY <2>0, <3>1 DEF IInv, PinFollowsWords, WordsApplied, AtRest, ChanType
    <3>7. line[Here].dir = Direction[m] /\ Rules!Taken(Direction[m], b) = Pin(m, b)
      BY <3>1, <3>6, DirectionOfPin, SamePins
    <3>8. line' = [line EXCEPT ![Here] = Pin(m, b)]
      <4>1. CASE m = "DigitalOutput"
        <5>1. [line[Here] EXCEPT !.level = b] = Pin(m, b)
          BY <3>1, <3>6, <4>1, SetLevel
        <5> QED
          BY <2>0, <3>1, <4>1, <5>1
      <4>2. CASE m # "DigitalOutput"
        <5>1. line[Here] = Pin(m, b)
          BY <3>1, <3>6, <4>2, LevelIrrelevant
        <5> QED
          BY <2>0, <3>1, <4>2, <5>1
      <4> QED
        BY <4>1, <4>2
    <3>9. line' = [line EXCEPT ![Here] = Rules!Taken(line[Here].dir, b)]
      BY <3>7, <3>8
    <3>10. b \in told[Here].levels
      BY <3>2, <3>3
    <3>11. PICK c \in Channels : c = Here
      BY <2>0
    <3>12. Rules!Ask(c)
      BY <3>1, <3>3, <3>4, <3>5, <3>9, <3>10, <3>11 DEF Rules!Ask
    <3> QED
      BY <3>1, <3>12 DEF Rules!Next
  <2>15. RequestRefused \/ SetRefused \/ GetRefused \/ RslStartRefused \/ RslSetRefused
           => Terminate /\ up
    BY DEF RequestRefused, SetRefused, GetRefused, RslStartRefused, RslSetRefused, At
  <2>16. CASE HalNext \/ SetEnabled \/ RslStart \/ RslTick \/ UNCHANGED vars
    <3>1. UNCHANGED <<topics, chan, bridge, line, up>>
      BY <2>16 DEF HalNext, HalPublish, SetEnabled, RslStart, RslTick, vars
    <3> QED
      BY <2>3, <3>1
  <2>17. CASE HalDrop \/ \E c \in Channels, topic \in {"type", "valset"} : Deliver(c, topic)
    BY <2>5, <2>17 DEF HalDrop, Deliver
  <2> QED
    BY <2>6, <2>7, <2>8, <2>9, <2>10, <2>11, <2>12, <2>13, <2>14, <2>15, <2>16, <2>17
       DEF Next, BridgeNext
<1> QED
  BY Invariance, <1>1, <1>2, PTL DEF Spec, KeepsPinRules, Rules!Spec
=============================================================================
