------------------------ MODULE ControlPlaneProofs ------------------------
(***************************************************************************)
(* ControlPlane for every set of workers, requests, verbs and helper       *)
(* publications, and every bound.                                          *)
(***************************************************************************)
EXTENDS ControlPlane, SequenceTheorems, TLAPS

(* The writes of a manual control: every field but the match time.         *)
ManualWrites == UNION { [field : {f}, value : FieldType(f)] : f \in Fields }

(* Only the holder of mu_ has a match time left to write, as its last      *)
(* write; it is 0 when the phase has no countdown.                         *)
LastOfLock ==
  /\ \A t \in Writers : \A i \in 1..Len(todo[t]) :
       todo[t][i].field = "match_time_s" => mu = t /\ i = Len(todo[t])
  /\ mu # "none" =>
       LET n == Len(todo[mu])
       IN  /\ n > 0
           /\ todo[mu][n].field = "match_time_s"
           /\ phase \notin EnabledPhases => todo[mu][n].value = 0

(* The snapshot the publisher holds has DsConnected set.                   *)
ViewConnected == view # NoView => view.ds_connected

(* The inductive invariant: NoStaleMatchTime speaks of the moments mu_ is  *)
(* free and rests on what its holder is about to write, WireValid on the   *)
(* snapshot the publisher is about to send.                                *)
IInv == TypeOK /\ LastOfLock /\ NoStaleMatchTime /\ ViewConnected /\ WireValid

-----------------------------------------------------------------------------
(* The types of the fields.                                                *)

(* The type of each field, one at a time.                                  *)
LEMMA FieldTypes ==
  /\ FieldType("enabled") = BOOLEAN
  /\ FieldType("e_stop") = BOOLEAN
  /\ FieldType("mode") = RobotModes
  /\ FieldType("alliance") = Ints
  /\ FieldType("match_time_s") = 0..MaxSeconds
  BY Zenon DEF FieldType

(* A pending write is of a field, with a value of the field's type.        *)
LEMMA WriteElim ==
  ASSUME NEW w \in Writes
  PROVE  w.field \in Fields \cup {"match_time_s"} /\ w.value \in FieldType(w.field)
  BY DEF Writes

(* Conversely, such a pair is a pending write...                           *)
LEMMA SetIsWrite ==
  ASSUME NEW f \in Fields \cup {"match_time_s"}, NEW v \in FieldType(f)
  PROVE  Set(f, v) \in Writes
  BY DEF Writes, Set

(* ... and of a manual control, when it is not the match time's.           *)
LEMMA SetIsManualWrite ==
  ASSUME NEW f \in Fields, NEW v \in FieldType(f)
  PROVE  Set(f, v) \in ManualWrites
  BY DEF ManualWrites, Set

(* A manual write is a write, and not of the match time.                   *)
LEMMA ManualWriteElim ==
  ASSUME NEW w \in ManualWrites
  PROVE  w \in Writes /\ w.field # "match_time_s"
  BY DEF ManualWrites, Writes, Fields

(* One setter keeps DaemonState's type.                                    *)
LEMMA SetterType ==
  ASSUME NEW s \in DaemonStates, NEW f \in Fields \cup {"match_time_s"}, NEW v \in FieldType(f)
  PROVE  [s EXCEPT ![f] = v] \in DaemonStates
<1>1. CASE f = "enabled"
  BY <1>1, FieldTypes DEF DaemonStates
<1>2. CASE f = "e_stop"
  BY <1>2, FieldTypes DEF DaemonStates
<1>3. CASE f = "mode"
  BY <1>3, FieldTypes DEF DaemonStates
<1>4. CASE f = "alliance"
  BY <1>4, FieldTypes DEF DaemonStates
<1>5. CASE f = "match_time_s"
  BY <1>5, FieldTypes DEF DaemonStates
<1> QED
  BY <1>1, <1>2, <1>3, <1>4, <1>5 DEF Fields

(* A setter of another field leaves the match time alone.                  *)
LEMMA SetterKeepsTime ==
  ASSUME NEW s \in DaemonStates, NEW f \in Fields, NEW v
  PROVE  [s EXCEPT ![f] = v].match_time_s = s.match_time_s
  BY DEF DaemonStates, Fields

(* The range of int.                                                       *)
LEMMA IntRange ==
  /\ IntModulus \in Nat \ {0} /\ IntModulus \div 2 \in Nat
  /\ 2 * (IntModulus \div 2) = IntModulus /\ IntModulus \div 2 >= 8
  BY ControlPlaneAssumption, Z3

(* static_cast<int> yields an int.                                         *)
LEMMA CastIsInt == ASSUME NEW v \in Int PROVE to_int(v) \in Ints
<1> DEFINE h == IntModulus \div 2
<1>1. h \in Nat /\ 2 * h = IntModulus /\ IntModulus \in Nat \ {0}
  BY IntRange
<1> HIDE DEF h
<1>2. (v + h) % IntModulus \in 0..(IntModulus - 1)
  BY <1>1
<1> QED
  BY <1>1, <1>2 DEF to_int, Ints, h

(* handle_set_control's clamping yields a value of the field's type...      *)
LEMMA WebValueType ==
  ASSUME NEW f \in Fields, NEW v \in InputType(f)
  PROVE  WebValue(f, v) \in FieldType(f)
<1>1. CASE f \in {"enabled", "e_stop"}
  <2>1. WebValue(f, v) = v
    BY <1>1, Zenon DEF WebValue
  <2>2. InputType(f) = BOOLEAN
    BY <1>1 DEF InputType
  <2> QED
    BY <1>1, <2>1, <2>2, FieldTypes
<1>2. CASE f = "mode"
  <2>1. WebValue("mode", v) = IF v \in 0..3 THEN v ELSE 0
    BY Zenon DEF WebValue
  <2> QED
    BY <1>2, <2>1, FieldTypes DEF RobotModes, RobotMode
<1>3. CASE f = "alliance"
  <2>1. WebValue("alliance", v) = IF v < 0 THEN 0 ELSE IF v > 3 THEN 3 ELSE v
    BY Zenon DEF WebValue
  <2>2. InputType(f) = Int
    BY <1>3 DEF InputType
  <2> QED
    BY <1>3, <2>1, <2>2, FieldTypes, IntRange DEF Ints
<1> QED
  BY <1>1, <1>2, <1>3 DEF Fields

(* ... and so do GamepadIngest's conversions.                              *)
LEMMA IngestValueType ==
  ASSUME NEW f \in Fields, NEW v \in InputType(f)
  PROVE  IngestValue(f, v) \in FieldType(f)
<1>1. CASE f \in {"enabled", "e_stop"}
  <2>1. IngestValue(f, v) = v
    BY <1>1, Zenon DEF IngestValue
  <2>2. InputType(f) = BOOLEAN
    BY <1>1 DEF InputType
  <2> QED
    BY <1>1, <2>1, <2>2, FieldTypes
<1>2. CASE f = "mode"
  <2>1. IngestValue("mode", v) = mode_from_int(v)
    BY Zenon DEF IngestValue
  <2> QED
    BY <1>2, <2>1, FieldTypes DEF mode_from_int, RobotModes, RobotMode
<1>3. CASE f = "alliance"
  <2>1. IngestValue("alliance", v) = to_int(v)
    BY Zenon DEF IngestValue
  <2>2. InputType(f) = Int
    BY <1>3 DEF InputType
  <2> QED
    BY <1>3, <2>1, <2>2, FieldTypes, CastIsInt
<1> QED
  BY <1>1, <1>2, <1>3 DEF Fields

-----------------------------------------------------------------------------
(* The writes an operation sets out to make.                               *)

(* handle_set_control makes manual writes only.                            *)
LEMMA WebWritesType ==
  ASSUME NEW r \in Requests
  PROVE  WebWrites(r) \in Seq(ManualWrites)
<1>1. ASSUME NEW f \in Fields PROVE IfGiven(r, f) \in Seq(ManualWrites)
  <2>1. CASE f \in DOMAIN r
    <3>1. r[f] \in InputType(f)
      BY <2>1, InputsAssumption
    <3>2. Set(f, WebValue(f, r[f])) \in ManualWrites
      BY <3>1, WebValueType, SetIsManualWrite
    <3> QED
      BY <2>1, <3>2 DEF IfGiven
  <2>2. CASE f \notin DOMAIN r
    BY <2>2 DEF IfGiven
  <2> QED
    BY <2>1, <2>2
<1>2. /\ IfGiven(r, "enabled") \in Seq(ManualWrites)
      /\ IfGiven(r, "e_stop") \in Seq(ManualWrites)
      /\ IfGiven(r, "mode") \in Seq(ManualWrites)
      /\ IfGiven(r, "alliance") \in Seq(ManualWrites)
  BY <1>1 DEF Fields
<1> HIDE DEF IfGiven
<1> QED
  BY <1>2 DEF WebWrites

(* A sequence of manual writes is one of writes, none of the match time.   *)
LEMMA ManualWritesAreWrites ==
  ASSUME NEW s \in Seq(ManualWrites)
  PROVE  s \in Seq(Writes) /\ \A i \in 1..Len(s) : s[i].field # "match_time_s"
<1>1. \A i \in 1..Len(s) : s[i] \in ManualWrites
  OBVIOUS
<1>2. \A i \in 1..Len(s) : s[i] \in Writes /\ s[i].field # "match_time_s"
  BY <1>1, ManualWriteElim
<1>3. s \in Seq(Writes)
  BY <1>2
<1> QED
  BY <1>2, <1>3

(* A match operation makes three writes, the match time last.              *)
LEMMA PhaseWritesType ==
  ASSUME NEW p \in MatchPhase, NEW sec \in 0..MaxSeconds
  PROVE  /\ PhaseWrites(p, sec) \in Seq(Writes)
         /\ Len(PhaseWrites(p, sec)) = 3
         /\ PhaseWrites(p, sec)[1].field = "enabled"
         /\ PhaseWrites(p, sec)[2].field = "mode"
         /\ PhaseWrites(p, sec)[3].field = "match_time_s"
         /\ PhaseWrites(p, sec)[3].value = sec
<1>1. PhaseEnabled(p) \in FieldType("enabled")
  <2>1. PhaseEnabled(p) \in BOOLEAN
    BY DEF PhaseEnabled
  <2> QED
    BY <2>1, FieldTypes, Zenon
<1>2. PhaseMode(p) \in FieldType("mode")
  <2>1. PhaseMode(p) \in RobotModes
    BY Zenon DEF PhaseMode, RobotModes
  <2> QED
    BY <2>1, FieldTypes
<1>3. sec \in FieldType("match_time_s")
  BY FieldTypes
<1>4. /\ Set("enabled", PhaseEnabled(p)) \in Writes
      /\ Set("mode", PhaseMode(p)) \in Writes
      /\ Set("match_time_s", sec) \in Writes
  BY <1>1, <1>2, <1>3, SetIsWrite DEF Fields
<1>5. PhaseWrites(p, sec) \in Seq(Writes)
  BY <1>4 DEF PhaseWrites
<1>6. /\ Len(PhaseWrites(p, sec)) = 3
      /\ PhaseWrites(p, sec)[1] = Set("enabled", PhaseEnabled(p))
      /\ PhaseWrites(p, sec)[2] = Set("mode", PhaseMode(p))
      /\ PhaseWrites(p, sec)[3] = Set("match_time_s", sec)
  BY DEF PhaseWrites
<1> QED
  BY <1>5, <1>6 DEF Set

-----------------------------------------------------------------------------
(* The control word.                                                       *)

(* All a ControlDataView can hold.                                         *)
ControlDataViews ==
  [enabled : BOOLEAN, ds_connected : BOOLEAN, fms_connected : BOOLEAN, e_stop : BOOLEAN,
   supports_opmodes : BOOLEAN, mode : 0..3, alliance : Int, match_time_s : Int]

(* Every field of the view comes back out of the word unharmed by the      *)
(* others, the alliance modulo 16: the masks are disjoint.                 *)
THEOREM PackRoundTrip ==
  ASSUME NEW v \in ControlDataViews
  PROVE  /\ pack_control_word(v) \in 0..4095
         /\ WordEnabled(pack_control_word(v)) = v.enabled
         /\ WordWatchdog(pack_control_word(v)) = v.enabled
         /\ WordMode(pack_control_word(v)) = v.mode
         /\ WordEStop(pack_control_word(v)) = v.e_stop
         /\ WordDs(pack_control_word(v)) = v.ds_connected
         /\ WordAlliance(pack_control_word(v)) = v.alliance % 16
<1> USE DEF ControlDataViews
<1>1. PICK e \in 0..1 : e = If(v.enabled, 1)
  BY DEF If
<1>2. PICK d \in 0..1 : d = If(v.ds_connected, 1)
  BY DEF If
<1>3. PICK f \in 0..1 : f = If(v.fms_connected, 1)
  BY DEF If
<1>4. PICK s \in 0..1 : s = If(v.e_stop, 1)
  BY DEF If
<1>5. PICK o \in 0..1 : o = If(v.supports_opmodes, 1)
  BY DEF If
<1>6. PICK a \in 0..15 : a = v.alliance % 16
  BY Z3
<1>7. PICK m \in 0..3 : m = v.mode /\ m = v.mode % 4
  BY Z3
<1>8. PICK w \in Int :
        w = e + 2 * m + 8 * s + 16 * f + 32 * d + 64 * e + 128 * o + 256 * a
  OBVIOUS
<1>9. pack_control_word(v) = w
  BY <1>1, <1>2, <1>3, <1>4, <1>5, <1>6, <1>7, <1>8 DEF pack_control_word, If,
     kCwEnabledBit, kCwRobotModeUnit, kCwEStopBit, kCwFmsConnectedBit, kCwDsConnectedBit,
     kCwWatchdogActiveBit, kCwSupportsOpmodesBit, kCwAllianceUnit
<1>10. w \in 0..4095
  BY <1>8
<1>11. /\ w % 2 = e /\ (w \div 2) % 4 = m /\ (w \div 8) % 2 = s
       /\ (w \div 32) % 2 = d /\ (w \div 64) % 2 = e /\ (w \div 256) % 16 = a
  <2>1. /\ w \div 2 = m + 4 * s + 8 * f + 16 * d + 32 * e + 64 * o + 128 * a
        /\ w \div 8 = s + 2 * f + 4 * d + 8 * e + 16 * o + 32 * a
    BY <1>8, Z3
  <2>2. /\ w \div 32 = d + 2 * e + 4 * o + 8 * a
        /\ w \div 64 = e + 2 * o + 4 * a
        /\ w \div 256 = a
    BY <1>8, Z3
  <2>3. w % 2 = e /\ (w \div 2) % 4 = m /\ (w \div 8) % 2 = s
    BY <1>8, <2>1, Z3
  <2>4. (w \div 32) % 2 = d /\ (w \div 64) % 2 = e /\ (w \div 256) % 16 = a
    BY <2>2, Z3
  <2> QED
    BY <2>3, <2>4
<1>12. w \div 1 = w
  BY Z3
<1>13. (v.enabled <=> e = 1) /\ (v.ds_connected <=> d = 1) /\ (v.e_stop <=> s = 1)
  BY <1>1, <1>2, <1>4 DEF If
<1>14. /\ WordEnabled(w) = v.enabled /\ WordWatchdog(w) = v.enabled
       /\ WordEStop(w) = v.e_stop /\ WordDs(w) = v.ds_connected
  BY <1>11, <1>12, <1>13 DEF WordEnabled, WordWatchdog, WordEStop, WordDs, HasBit,
     kCwEnabledBit, kCwEStopBit, kCwDsConnectedBit, kCwWatchdogActiveBit
<1>15. WordMode(w) = v.mode /\ WordAlliance(w) = v.alliance % 16
  BY <1>6, <1>7, <1>11 DEF WordMode, WordAlliance, kCwRobotModeUnit, kCwAllianceUnit
<1> QED
  BY <1>9, <1>10, <1>14, <1>15

-----------------------------------------------------------------------------
(* The invariant is inductive.                                             *)

(* It holds when the daemon starts.                                        *)
LEMMA InitEstablishesIInv == Init => IInv
<1> SUFFICES ASSUME Init PROVE IInv
  OBVIOUS
<1>1. ds \in DaemonStates
  BY IntRange, ControlPlaneAssumption DEF Init, DaemonStateInit, DaemonStates, RobotModes, Ints
<1>2. todo \in [Writers -> Seq(Writes)]
  BY DEF Init
<1>3. topics \in Topics /\ last_seen \in Topics
  BY DEF Init, Topics, TopicDefaults, NeverSeen, kIntSentinel
<1>4. TypeOK
  BY <1>1, <1>2, <1>3, ControlPlaneAssumption DEF Init, TypeOK, MatchPhase, Views, NoBytes
<1>5. LastOfLock
  BY DEF Init, LastOfLock
<1>6. NoStaleMatchTime
  BY DEF Init, NoStaleMatchTime, DaemonStateInit
<1>7. ViewConnected /\ WireValid
  BY DEF Init, ViewConnected, WireValid
<1> QED
  BY <1>4, <1>5, <1>6, <1>7 DEF IInv

(* A thread about to write a manual control does not hold mu_.             *)
LEMMA IdleHoldsNothing ==
  ASSUME IInv, NEW t \in Writers, todo[t] = <<>>
  PROVE  mu # t
  BY ControlPlaneAssumption DEF IInv, LastOfLock, TypeOK, Writers

(* Taking mu_ with the three writes of a match operation.                  *)
LEMMA LockKeepsIInv ==
  ASSUME IInv, NEW t \in Writers, NEW p \in MatchPhase, NEW sec \in 0..MaxSeconds,
         p \notin EnabledPhases => sec = 0, Lock(t, p, sec), inputs' \in 0..MaxInputs
  PROVE  IInv'
<1> DEFINE ws == PhaseWrites(p, sec)
<1>1. /\ ws \in Seq(Writes) /\ Len(ws) = 3
      /\ ws[1].field = "enabled" /\ ws[2].field = "mode"
      /\ ws[3].field = "match_time_s" /\ ws[3].value = sec
  BY PhaseWritesType
<1> HIDE DEF ws
<1>2. /\ mu = "none" /\ mu' = t /\ t # "none" /\ phase' = p
      /\ todo' = [todo EXCEPT ![t] = ws]
      /\ UNCHANGED <<ds, topics, ingest, last_seen, first_tick, view, wire>>
  BY ControlPlaneAssumption DEF Lock, MuFree, ws, gamepad, publisher, Writers
<1>3. todo \in [Writers -> Seq(Writes)]
  BY DEF IInv, TypeOK
<1>4. TypeOK'
  BY <1>1, <1>2, <1>3 DEF IInv, TypeOK
<1>5. \A u \in Writers : \A i \in 1..Len(todo'[u]) :
        todo'[u][i].field = "match_time_s" => mu' = u /\ i = Len(todo'[u])
  <2> SUFFICES ASSUME NEW u \in Writers, NEW i \in 1..Len(todo'[u]),
                      todo'[u][i].field = "match_time_s"
               PROVE  mu' = u /\ i = Len(todo'[u])
    OBVIOUS
  <2>1. CASE u = t
    <3>1. todo'[u] = ws
      BY <1>2, <1>3, <2>1
    <3>2. i \in 1..3 /\ ws[i].field = "match_time_s"
      BY <1>1, <3>1
    <3>3. i = 3
      BY <1>1, <3>2
    <3> QED
      BY <1>1, <1>2, <2>1, <3>1, <3>3
  <2>2. CASE u # t
    <3>1. todo'[u] = todo[u]
      BY <1>2, <1>3, <2>2
    <3> QED
      BY <1>2, <3>1, ControlPlaneAssumption DEF IInv, LastOfLock, Writers
  <2> QED
    BY <2>1, <2>2
<1>6. LastOfLock'
  <2>1. todo'[mu'] = ws
    BY <1>2, <1>3
  <2>2. /\ Len(todo'[mu']) = 3 /\ todo'[mu'][3].field = "match_time_s"
        /\ phase' \notin EnabledPhases => todo'[mu'][3].value = 0
    BY <1>1, <1>2, <2>1
  <2> QED
    BY <1>5, <2>2 DEF LastOfLock
<1>7. NoStaleMatchTime' /\ ViewConnected' /\ WireValid'
  BY <1>2 DEF IInv, NoStaleMatchTime, ViewConnected, WireValid
<1> QED
  BY <1>4, <1>6, <1>7 DEF IInv

(* One setter call: the last one of a match operation settles the time.    *)
LEMMA WriteKeepsIInv ==
  ASSUME IInv, NEW t \in Writers, Write(t)
  PROVE  IInv'
<1> DEFINE s == todo[t]
           w == Head(s)
<1>1. /\ s \in Seq(Writes) /\ s # <<>> /\ todo \in [Writers -> Seq(Writes)]
      /\ ds \in DaemonStates
  BY DEF Write, IInv, TypeOK
<1>2. /\ w \in Writes /\ w = s[1] /\ Len(s) \in Nat \ {0}
      /\ Tail(s) \in Seq(Writes) /\ Len(Tail(s)) = Len(s) - 1
      /\ \A i \in 1..Len(Tail(s)) : Tail(s)[i] = s[i + 1]
      /\ Tail(s) = <<>> <=> Len(Tail(s)) = 0
  <2>1. /\ w \in Writes /\ w = s[1] /\ Len(s) \in Nat \ {0}
        /\ Tail(s) \in Seq(Writes) /\ Len(Tail(s)) = Len(s) - 1
        /\ \A i \in 1..Len(Tail(s)) : Tail(s)[i] = s[i + 1]
    BY <1>1
  <2>2. Tail(s) = <<>> <=> Len(Tail(s)) = 0
    BY <2>1, EmptySeq
  <2> QED
    BY <2>1, <2>2
<1>3. /\ ds' = [ds EXCEPT ![w.field] = w.value]
      /\ todo' = [todo EXCEPT ![t] = Tail(s)]
      /\ mu' = (IF mu = t /\ Tail(s) = <<>> THEN "none" ELSE mu)
      /\ UNCHANGED <<phase, topics, ingest, last_seen, first_tick, view, wire, inputs>>
  BY DEF Write, gamepad, publisher
<1>4. w.field \in Fields \cup {"match_time_s"} /\ w.value \in FieldType(w.field)
  BY <1>2, WriteElim
<1>5. ds' \in DaemonStates
  BY <1>1, <1>3, <1>4, SetterType
<1>6. /\ \A u \in Writers : \A i \in 1..Len(todo[u]) :
           todo[u][i].field = "match_time_s" => mu = u /\ i = Len(todo[u])
      /\ mu # "none" => /\ Len(todo[mu]) > 0
                        /\ todo[mu][Len(todo[mu])].field = "match_time_s"
                        /\ phase \notin EnabledPhases => todo[mu][Len(todo[mu])].value = 0
  BY DEF IInv, LastOfLock
<1>7. mu \in Writers \cup {"none"} /\ t # "none"
  BY ControlPlaneAssumption DEF IInv, TypeOK, Writers
<1> HIDE DEF w, s
<1>8. todo'[t] = Tail(s) /\ \A u \in Writers : u # t => todo'[u] = todo[u]
  BY <1>1, <1>3
<1>9. TypeOK'
  BY <1>1, <1>2, <1>3, <1>5, <1>7 DEF IInv, TypeOK
<1>10. \A u \in Writers : \A i \in 1..Len(todo'[u]) :
         todo'[u][i].field = "match_time_s" => mu' = u /\ i = Len(todo'[u])
  <2> SUFFICES ASSUME NEW u \in Writers, NEW i \in 1..Len(todo'[u]),
                      todo'[u][i].field = "match_time_s"
               PROVE  mu' = u /\ i = Len(todo'[u])
    OBVIOUS
  <2>1. CASE u = t
    <3>1. i \in 1..Len(Tail(s)) /\ i + 1 \in 1..Len(s) /\ s[i + 1].field = "match_time_s"
      <4>1. i \in 1..Len(Tail(s)) /\ Tail(s)[i].field = "match_time_s"
        BY <1>8, <2>1
      <4>2. Tail(s)[i] = s[i + 1] /\ i + 1 \in 1..Len(s)
        BY <1>2, <4>1
      <4> QED
        BY <4>1, <4>2
    <3>2. mu = t /\ i + 1 = Len(s)
      BY <1>6, <3>1 DEF s
    <3>3. Tail(s) # <<>>
      <4>1. Len(Tail(s)) \in Nat /\ Len(Tail(s)) # 0
        BY <1>2, <3>1
      <4> QED
        BY <1>2, <4>1
    <3> QED
      BY <1>2, <1>3, <1>8, <2>1, <3>2, <3>3
  <2>2. CASE u # t
    <3>1. mu = u /\ i = Len(todo[u]) /\ todo'[u] = todo[u]
      BY <1>6, <1>8, <2>2
    <3> QED
      BY <1>3, <2>2, <3>1
  <2> QED
    BY <2>1, <2>2
<1>11. mu' # "none" => /\ Len(todo'[mu']) > 0
                       /\ todo'[mu'][Len(todo'[mu'])].field = "match_time_s"
                       /\ phase' \notin EnabledPhases => todo'[mu'][Len(todo'[mu'])].value = 0
  <2> SUFFICES ASSUME mu' # "none"
               PROVE  /\ Len(todo'[mu']) > 0
                      /\ todo'[mu'][Len(todo'[mu'])].field = "match_time_s"
                      /\ phase' \notin EnabledPhases => todo'[mu'][Len(todo'[mu'])].value = 0
    OBVIOUS
  <2>1. mu' = mu /\ mu \in Writers
    BY <1>3, <1>7
  <2>2. CASE mu = t
    <3>1. Tail(s) # <<>>
      BY <1>3, <2>1, <2>2, <1>7
    <3>2. Len(Tail(s)) > 0
      BY <1>2, <3>1
    <3>3. Tail(s)[Len(Tail(s))] = s[Len(s)]
      BY <1>2, <3>2
    <3>4. todo'[mu'] = Tail(s) /\ todo[mu] = s /\ phase' = phase
      BY <1>3, <1>8, <2>1, <2>2 DEF s
    <3> QED
      BY <1>6, <1>7, <2>2, <3>2, <3>3, <3>4
  <2>3. CASE mu # t
    BY <1>3, <1>6, <1>8, <2>1, <2>3, ControlPlaneAssumption
  <2> QED
    BY <2>2, <2>3
<1>12. LastOfLock'
  BY <1>10, <1>11 DEF LastOfLock
<1>13. NoStaleMatchTime'
  <2> SUFFICES ASSUME mu' = "none", phase' \notin EnabledPhases PROVE ds'.match_time_s = 0
    BY DEF NoStaleMatchTime
  <2>1. CASE mu = t
    <3>1. Tail(s) = <<>>
      BY <1>3, <1>7, <2>1
    <3>2. Len(s) = 1
      BY <1>2, <3>1
    <3>3. w.field = "match_time_s" /\ w.value = 0
      BY <1>2, <1>3, <1>6, <1>7, <2>1, <3>2 DEF s
    <3> QED
      BY <1>1, <1>3, <3>3 DEF DaemonStates
  <2>2. CASE mu # t
    <3>1. mu = "none" /\ phase = phase'
      BY <1>3, <2>2
    <3>2. w.field # "match_time_s"
      BY <1>2, <1>6, <2>2 DEF s
    <3>3. ds'.match_time_s = ds.match_time_s
      BY <1>1, <1>3, <1>4, <3>2, SetterKeepsTime
    <3> QED
      BY <3>1, <3>3 DEF IInv, NoStaleMatchTime
  <2> QED
    BY <2>1, <2>2
<1>14. ViewConnected' /\ WireValid'
  BY <1>3 DEF IInv, ViewConnected, WireValid
<1> QED
  BY <1>9, <1>12, <1>13, <1>14 DEF IInv

(* Accepting a POST /api/control.                                          *)
LEMMA SetControlKeepsIInv ==
  ASSUME IInv, NEW t \in Workers, handle_set_control(t)
  PROVE  IInv'
<1>1. PICK r \in Requests : todo' = [todo EXCEPT ![t] = WebWrites(r)]
  BY DEF handle_set_control
<1> DEFINE ws == WebWrites(r)
<1>2. ws \in Seq(Writes) /\ \A i \in 1..Len(ws) : ws[i].field # "match_time_s"
  BY WebWritesType, ManualWritesAreWrites
<1> HIDE DEF ws
<1>3. /\ UNCHANGED <<ds, phase, mu, topics, ingest, last_seen, first_tick, view, wire>>
      /\ inputs' \in 0..MaxInputs
  BY ControlPlaneAssumption DEF handle_set_control, match, gamepad, publisher, Input, IInv, TypeOK
<1>4. t \in Writers /\ todo \in [Writers -> Seq(Writes)] /\ mu # t
  BY IdleHoldsNothing DEF handle_set_control, Writers, IInv, TypeOK
<1>5. todo'[t] = ws /\ \A u \in Writers : u # t => todo'[u] = todo[u]
  BY <1>1, <1>4 DEF ws
<1>6. TypeOK'
  BY <1>1, <1>2, <1>3, <1>4 DEF IInv, TypeOK, ws
<1>7. LastOfLock'
  <2>1. ASSUME NEW u \in Writers, NEW i \in 1..Len(todo'[u]),
               todo'[u][i].field = "match_time_s"
        PROVE  mu' = u /\ i = Len(todo'[u])
    <3>1. u # t
      BY <1>2, <1>5, <2>1
    <3>2. todo'[u] = todo[u]
      BY <1>5, <3>1
    <3> QED
      BY <1>3, <2>1, <3>2 DEF IInv, LastOfLock
  <2>2. mu \in Writers => todo'[mu] = todo[mu]
    BY <1>4, <1>5
  <2>3. mu # "none" => mu \in Writers
    BY DEF IInv, TypeOK
  <2> QED
    BY <1>3, <2>1, <2>2, <2>3 DEF IInv, LastOfLock
<1>8. NoStaleMatchTime' /\ ViewConnected' /\ WireValid'
  BY <1>3 DEF IInv, NoStaleMatchTime, ViewConnected, WireValid
<1> QED
  BY <1>6, <1>7, <1>8 DEF IInv

(* The next place of GamepadIngest in its tick.                            *)
LEMMA IngestNextType ==
  ASSUME TypeOK, IngestNext
  PROVE  /\ ingest'.at \in 1..4 /\ ingest'.pending = FALSE
         /\ first_tick' \in BOOLEAN
<1>1. (ingest.at % 4) + 1 \in 1..4
  BY DEF TypeOK
<1>2. ingest'.at = (ingest.at % 4) + 1 /\ ingest'.pending = FALSE
  BY DEF IngestNext
<1>3. first_tick' \in BOOLEAN
  BY DEF IngestNext
<1> QED
  BY <1>1, <1>2, <1>3

(* The topic a subscriber reads has the field's input type.                *)
LEMMA TopicType ==
  ASSUME TypeOK
  PROVE  /\ IngestOrder[ingest.at] \in Fields
         /\ topics[IngestOrder[ingest.at]] \in InputType(IngestOrder[ingest.at])
<1>1. ingest.at \in 1..4 /\ topics \in Topics
  BY DEF TypeOK
<1>2. IngestOrder[ingest.at] \in Fields
  BY <1>1 DEF IngestOrder, Fields
<1>3. ASSUME NEW f \in Fields PROVE topics[f] \in InputType(f)
  BY <1>1 DEF Topics, Fields, InputType
<1> QED
  BY <1>2, <1>3

(* Setting one topic keeps the topics' types.                              *)
LEMMA TopicSetType ==
  ASSUME NEW s \in Topics, NEW f \in Fields, NEW v \in InputType(f)
  PROVE  [s EXCEPT ![f] = v] \in Topics
  BY DEF Topics, Fields, InputType

(* GamepadIngest reads a topic.                                            *)
LEMMA IngestGetKeepsIInv == ASSUME IInv, IngestGet PROVE IInv'
<1>1. UNCHANGED <<ds, phase, mu, todo, topics, last_seen, view, wire, inputs>>
  BY DEF IngestGet, match, publisher
<1>2. /\ ingest'.at \in 1..4 /\ ingest'.pending \in BOOLEAN
      /\ ingest'.pending => ingest'.value \in InputType(IngestOrder[ingest'.at])
      /\ first_tick' \in BOOLEAN
  <2>1. CASE Changed(IngestOrder[ingest.at])
    <3> DEFINE v == topics[IngestOrder[ingest.at]]
    <3>1. ingest' = [at |-> ingest.at, pending |-> TRUE, value |-> v] /\ UNCHANGED first_tick
      BY <2>1 DEF IngestGet
    <3>2. v \in InputType(IngestOrder[ingest.at]) /\ ingest.at \in 1..4 /\ first_tick \in BOOLEAN
      BY TopicType DEF IInv, TypeOK
    <3> HIDE DEF v
    <3>3. ingest'.at = ingest.at /\ ingest'.pending = TRUE /\ ingest'.value = v
      BY <3>1
    <3> QED
      BY <3>1, <3>2, <3>3
  <2>2. CASE ~ Changed(IngestOrder[ingest.at])
    BY <2>2, IngestNextType DEF IngestGet, IInv
  <2> QED
    BY <2>1, <2>2
<1>3. TypeOK'
  BY <1>1, <1>2 DEF IInv, TypeOK
<1> QED
  BY <1>1, <1>3 DEF IInv, LastOfLock, NoStaleMatchTime, ViewConnected, WireValid

(* GamepadIngest applies what it read.                                     *)
LEMMA IngestSetKeepsIInv == ASSUME IInv, IngestSet PROVE IInv'
<1> DEFINE f == IngestOrder[ingest.at]
           v == ingest.value
<1>1. /\ ds' = [ds EXCEPT ![f] = IngestValue(f, v)]
      /\ last_seen' = [last_seen EXCEPT ![f] = v]
      /\ UNCHANGED <<phase, mu, todo, topics, view, wire, inputs>>
      /\ IngestNext
  BY DEF IngestSet, match, publisher
<1>2. f \in Fields /\ v \in InputType(f) /\ ds \in DaemonStates /\ last_seen \in Topics
  BY TopicType DEF IngestSet, IInv, TypeOK
<1> HIDE DEF f, v
<1>3. IngestValue(f, v) \in FieldType(f)
  BY <1>2, IngestValueType
<1>4. ds' \in DaemonStates /\ ds'.match_time_s = ds.match_time_s
  BY <1>1, <1>2, <1>3, SetterType, SetterKeepsTime
<1>5. last_seen' \in Topics
  BY <1>1, <1>2, TopicSetType
<1>6. ingest'.at \in 1..4 /\ ingest'.pending = FALSE /\ first_tick' \in BOOLEAN
  BY <1>1, IngestNextType DEF IInv
<1>7. TypeOK'
  BY <1>1, <1>4, <1>5, <1>6 DEF IInv, TypeOK
<1>8. NoStaleMatchTime'
  BY <1>1, <1>4 DEF IInv, NoStaleMatchTime
<1> QED
  BY <1>1, <1>7, <1>8 DEF IInv, LastOfLock, ViewConnected, WireValid

(* The publisher takes its snapshot.                                       *)
LEMMA TakeSnapshotKeepsIInv == ASSUME IInv, TakeSnapshot PROVE IInv'
<1>1. /\ view' = snapshot_control(ds)
      /\ UNCHANGED <<ds, phase, mu, todo, topics, ingest, last_seen, first_tick, wire, inputs>>
  BY DEF TakeSnapshot, match, gamepad
<1>2. view' \in Views /\ view'.ds_connected
  BY <1>1 DEF IInv, TypeOK, DaemonStates, snapshot_control, ds_connected, Views
<1>3. TypeOK'
  BY <1>1, <1>2 DEF IInv, TypeOK
<1>4. ViewConnected'
  BY <1>2 DEF ViewConnected
<1> QED
  BY <1>1, <1>3, <1>4 DEF IInv, LastOfLock, NoStaleMatchTime, WireValid

(* The publisher sends it.                                                 *)
LEMMA PublishKeepsIInv == ASSUME IInv, Publish PROVE IInv'
<1>1. /\ view # NoView /\ view' = NoView
      /\ wire' = IF encode_control_data(view) = NoBytes THEN wire ELSE encode_control_data(view)
      /\ UNCHANGED <<ds, phase, mu, todo, topics, ingest, last_seen, first_tick, inputs>>
  BY DEF Publish, ViewDone, match, gamepad
<1>2. /\ view \in ControlDataViews
      /\ view.match_time_s \in 0..MaxSeconds
  <2>1. RobotModes = 0..3 /\ Ints \subseteq Int /\ 0..MaxSeconds \subseteq Int
    BY ControlPlaneAssumption DEF RobotModes, RobotMode, Ints
  <2> QED
    BY <1>1, <2>1 DEF IInv, TypeOK, Views, ControlDataViews
<1>3. view.ds_connected
  BY <1>1 DEF IInv, ViewConnected
<1> DEFINE w == pack_control_word(view)
<1>4. w \in 0..4095 /\ WordDs(w) = view.ds_connected
      /\ WordEnabled(w) = view.enabled /\ WordWatchdog(w) = view.enabled
  BY <1>2, PackRoundTrip
<1> HIDE DEF w
<1>5. encode_control_data(view) = [ControlWord |-> w, MatchTime |-> view.match_time_s]
  BY DEF encode_control_data, w
<1>6. CASE encode_control_data(view) = NoBytes
  <2>1. UNCHANGED wire
    BY <1>1, <1>6
  <2>2. TypeOK'
    BY <1>1, <2>1 DEF IInv, TypeOK, Views
  <2> QED
    BY <1>1, <2>1, <2>2 DEF IInv, LastOfLock, NoStaleMatchTime, ViewConnected, WireValid
<1>7. CASE encode_control_data(view) # NoBytes
  <2>1. wire' = [ControlWord |-> w, MatchTime |-> view.match_time_s]
    BY <1>1, <1>5, <1>7
  <2>2. wire' \in [ControlWord : Nat, MatchTime : Nat] /\ wire'.ControlWord = w
    <3>1. w \in Nat /\ view.match_time_s \in Nat
      BY <1>2, <1>4, ControlPlaneAssumption
    <3> QED
      BY <2>1, <3>1
  <2>3. TypeOK'
    BY <1>1, <2>2 DEF IInv, TypeOK, Views
  <2>4. WireValid'
    BY <1>3, <1>4, <2>2 DEF WireValid
  <2> QED
    BY <1>1, <2>3, <2>4 DEF IInv, LastOfLock, NoStaleMatchTime, ViewConnected
<1> QED
  BY <1>6, <1>7

(* No step of any thread breaks it.                                        *)
LEMMA NextKeepsIInv == IInv /\ [Next]_vars => IInv'
<1> SUFFICES ASSUME IInv, [Next]_vars PROVE IInv'
  OBVIOUS
<1>1. ASSUME NEW t \in Writers, Write(t) PROVE IInv'
  BY <1>1, WriteKeepsIInv
<1>2. ASSUME NEW w \in Workers, handle_set_control(w) PROVE IInv'
  BY <1>2, SetControlKeepsIInv
<1>3. ASSUME NEW w \in Workers, handle_match(w) PROVE IInv'
  <2>1. w \in Writers /\ inputs' \in 0..MaxInputs
    BY <1>3, ControlPlaneAssumption DEF handle_match, Input, IInv, TypeOK, Writers
  <2>2. MaxSeconds \in 0..MaxSeconds /\ 0 \in 0..MaxSeconds
    BY ControlPlaneAssumption
  <2>3. {"Auto", "Idle", "Teleop"} \subseteq MatchPhase
    BY DEF MatchPhase
  <2>4. CASE Lock(w, "Auto", MaxSeconds) \/ Lock(w, "Teleop", MaxSeconds)
    BY <2>1, <2>2, <2>3, <2>4, LockKeepsIInv DEF EnabledPhases
  <2>5. CASE Lock(w, "Idle", 0)
    BY <2>1, <2>2, <2>3, <2>5, LockKeepsIInv
  <2> QED
    BY <1>3, <2>4, <2>5 DEF handle_match
<1>4. CASE TickReassert \/ TickAdvance
  <2>1. "ticker" \in Writers /\ inputs' \in 0..MaxInputs
    BY <1>4 DEF TickReassert, TickAdvance, IInv, TypeOK, Writers
  <2>2. NextPhase(phase) \in MatchPhase /\ phase \in MatchPhase
    <3>1. phase \in MatchPhase
      BY DEF IInv, TypeOK
    <3>2. \A p \in MatchPhase : NextPhase(p) \in MatchPhase
      BY Zenon DEF NextPhase, MatchPhase
    <3> QED
      BY <3>1, <3>2
  <2>3. \A p, sec : sec \in SecondsIn(p) =>
          sec \in 0..MaxSeconds /\ (p \notin EnabledPhases => sec = 0)
    BY ControlPlaneAssumption DEF SecondsIn
  <2>4. CASE TickReassert
    BY <2>1, <2>2, <2>3, <2>4, LockKeepsIInv DEF TickReassert
  <2>5. CASE TickAdvance
    BY <2>1, <2>2, <2>3, <2>5, LockKeepsIInv DEF TickAdvance
  <2> QED
    BY <1>4, <2>4, <2>5
<1>5. CASE IngestGet
  BY <1>5, IngestGetKeepsIInv
<1>6. CASE IngestSet
  BY <1>6, IngestSetKeepsIInv
<1>7. CASE HelperPublish
  <2>1. PICK w \in HelperWrites : topics' = [topics EXCEPT ![w.field] = w.value]
    BY <1>7 DEF HelperPublish
  <2>2. topics' \in Topics
    BY <2>1, InputsAssumption, TopicSetType DEF IInv, TypeOK
  <2>3. /\ UNCHANGED <<ds, phase, mu, todo, ingest, last_seen, first_tick, view, wire>>
        /\ inputs' \in 0..MaxInputs
    BY <1>7, ControlPlaneAssumption DEF HelperPublish, Input, match, publisher, IInv, TypeOK
  <2>4. TypeOK'
    BY <2>2, <2>3 DEF IInv, TypeOK
  <2> QED
    BY <2>3, <2>4 DEF IInv, LastOfLock, NoStaleMatchTime, ViewConnected, WireValid
<1>8. CASE TakeSnapshot
  BY <1>8, TakeSnapshotKeepsIInv
<1>11. CASE HelperDrop
  <2>1. topics' \in Topics
    BY <1>11 DEF HelperDrop, TopicDefaults, Topics
  <2>2. /\ UNCHANGED <<ds, phase, mu, todo, ingest, last_seen, first_tick, view, wire>>
        /\ inputs' \in 0..MaxInputs
    BY <1>11, ControlPlaneAssumption DEF HelperDrop, Input, match, publisher, IInv, TypeOK
  <2>3. TypeOK'
    BY <2>1, <2>2 DEF IInv, TypeOK
  <2> QED
    BY <2>2, <2>3 DEF IInv, LastOfLock, NoStaleMatchTime, ViewConnected, WireValid
<1>9. CASE Publish
  BY <1>9, PublishKeepsIInv
<1>10. CASE UNCHANGED vars
  BY <1>10 DEF vars, IInv, TypeOK, LastOfLock, NoStaleMatchTime, ViewConnected, WireValid
<1> QED
  BY <1>1, <1>2, <1>3, <1>4, <1>5, <1>6, <1>7, <1>8, <1>9, <1>10, <1>11 DEF Next, WriterNext

-----------------------------------------------------------------------------
(* The theorems.                                                           *)

(* Every reachable state satisfies the inductive invariant.                *)
THEOREM Invariance == Spec => []IInv
  BY InitEstablishesIInv, NextKeepsIInv, PTL DEF Spec

(* Whatever the form, the helper and the match write, DaemonState keeps    *)
(* its type: a mode out of range never gets past either conversion.        *)
THEOREM TypeCorrect == Spec => []TypeOK
<1>1. IInv => TypeOK
  BY DEF IInv
<1> QED
  BY Invariance, <1>1, PTL

(* mu_ keeps match operations apart: with mu_ free, no match time is left  *)
(* over from an earlier phase.                                             *)
THEOREM MatchTimeCleared == Spec => []NoStaleMatchTime
<1>1. IInv => NoStaleMatchTime
  BY DEF IInv
<1> QED
  BY Invariance, <1>1, PTL

(* Every message on the wire has DsConnected and a watchdog bit equal to   *)
(* Enabled, for every interleaving of writers and publisher.               *)
THEOREM WireAlwaysValid == Spec => []WireValid
<1>1. IInv => WireValid
  BY DEF IInv
<1> QED
  BY Invariance, <1>1, PTL

(* Nobody has anything left to write: only another input changes that.     *)
LEMMA QuietStays ==
  ASSUME IInv, Next, Quiet, inputs' = inputs PROVE Quiet' /\ UNCHANGED <<ds, phase>>
<1> USE DEF Quiet
<1>1. CASE \E t \in Writers : Write(t)
  BY <1>1 DEF Write
<1>2. CASE Input
  BY <1>2 DEF Input, IInv, TypeOK
<1>3. CASE TickReassert \/ TickAdvance
  BY <1>3 DEF TickReassert, TickAdvance
<1>4. CASE IngestGet
  <2>1. ~ Changed(IngestOrder[ingest.at])
    BY DEF Changed
  <2>2. IngestNext /\ UNCHANGED <<ds, phase, mu, todo, topics, last_seen>>
    BY <1>4, <2>1 DEF IngestGet, match
  <2>3. ~ ingest'.pending /\ ~ first_tick'
    BY <2>2 DEF IngestNext
  <2> QED
    BY <2>2, <2>3
<1>5. CASE IngestSet
  BY <1>5 DEF IngestSet
<1>6. CASE TakeSnapshot \/ Publish
  BY <1>6 DEF TakeSnapshot, Publish, match, gamepad
<1> QED
  BY <1>1, <1>2, <1>3, <1>4, <1>5, <1>6
     DEF Next, WriterNext, handle_set_control, handle_match, HelperPublish, HelperDrop

(* A value set by hand is not overwritten by a retained topic.             *)
THEOREM ManualSticks == Spec => ManualControlSticks
<1>1. IInv /\ [Next]_vars => [Quiet /\ UNCHANGED inputs => Quiet' /\ UNCHANGED ds]_vars
  <2> SUFFICES ASSUME IInv, Next, Quiet, inputs' = inputs PROVE Quiet' /\ UNCHANGED ds
    OBVIOUS
  <2> QED
    BY QuietStays
<1> QED
  BY Invariance, <1>1, PTL DEF Spec, ManualControlSticks

-----------------------------------------------------------------------------
(* The end of a match.                                                     *)

(* What is left to write "enabled" with mu_ held is what phase_ calls for, *)
(* and the tick thread has nothing to write when it does not hold mu_.     *)
HolderFollowsPhase ==
  /\ mu # "none" => \A i \in 1..Len(todo[mu]) :
       todo[mu][i].field = "enabled" => todo[mu][i].value = PhaseEnabled(phase)
  /\ mu # "ticker" => todo["ticker"] = <<>>

(* Taking mu_ replaces phase_ and the writes together.                     *)
LEMMA LockFollowsPhase ==
  ASSUME IInv, HolderFollowsPhase, NEW t \in Writers, NEW p \in MatchPhase,
         NEW sec \in 0..MaxSeconds, Lock(t, p, sec)
  PROVE  HolderFollowsPhase'
<1> DEFINE ws == PhaseWrites(p, sec)
<1>1. /\ Len(ws) = 3 /\ ws[1].value = PhaseEnabled(p)
      /\ ws[2].field = "mode" /\ ws[3].field = "match_time_s"
  BY DEF PhaseWrites, Set
<1>2. todo \in [Writers -> Seq(Writes)] /\ "ticker" \in Writers
  BY DEF IInv, TypeOK, Writers
<1>3. mu = "none" /\ mu' = t /\ phase' = p /\ todo' = [todo EXCEPT ![t] = ws]
  BY DEF Lock, MuFree
<1> HIDE DEF ws
<1>4. todo'[t] = ws /\ \A u \in Writers : u # t => todo'[u] = todo[u]
  BY <1>2, <1>3
<1>5. \A i \in 1..Len(todo'[mu']) :
        todo'[mu'][i].field = "enabled" => todo'[mu'][i].value = PhaseEnabled(phase')
  <2>1. todo'[mu'] = ws
    BY <1>3, <1>4
  <2>2. ASSUME NEW i \in 1..Len(ws), ws[i].field = "enabled" PROVE i = 1
    BY <1>1, <2>2
  <2>3. ws[1].value = PhaseEnabled(phase')
    BY <1>1, <1>3, Zenon
  <2> QED
    BY <2>1, <2>2, <2>3, Zenon
<1>6. mu' # "ticker" => todo'["ticker"] = <<>>
  BY <1>2, <1>3, <1>4 DEF HolderFollowsPhase
<1> QED
  BY <1>5, <1>6 DEF HolderFollowsPhase

(* A setter call takes the first of the writes away.                       *)
LEMMA WriteFollowsPhase ==
  ASSUME IInv, HolderFollowsPhase, NEW t \in Writers, Write(t)
  PROVE  HolderFollowsPhase'
<1> DEFINE s == todo[t]
<1>1. /\ s \in Seq(Writes) /\ s # <<>> /\ todo \in [Writers -> Seq(Writes)]
      /\ "ticker" \in Writers /\ mu \in Writers \cup {"none"} /\ t # "none"
  BY ControlPlaneAssumption DEF Write, IInv, TypeOK, Writers
<1>2. /\ phase' = phase /\ todo' = [todo EXCEPT ![t] = Tail(s)]
      /\ mu' = (IF mu = t /\ Tail(s) = <<>> THEN "none" ELSE mu)
  BY DEF Write
<1>3. /\ Len(s) \in Nat \ {0} /\ Len(Tail(s)) = Len(s) - 1
      /\ \A i \in 1..Len(Tail(s)) : Tail(s)[i] = s[i + 1] /\ i + 1 \in 1..Len(s)
  BY <1>1
<1> HIDE DEF s
<1>4. todo'[t] = Tail(s) /\ \A u \in Writers : u # t => todo'[u] = todo[u]
  BY <1>1, <1>2
<1>5. ASSUME mu' # "none", NEW i \in 1..Len(todo'[mu']), todo'[mu'][i].field = "enabled"
      PROVE  todo'[mu'][i].value = PhaseEnabled(phase')
  <2>1. mu' = mu /\ mu \in Writers
    BY <1>1, <1>2, <1>5
  <2>2. CASE mu = t
    <3>1. i \in 1..Len(Tail(s)) /\ Tail(s)[i].field = "enabled"
      BY <1>4, <1>5, <2>1, <2>2
    <3>2. Tail(s)[i] = todo[mu][i + 1] /\ i + 1 \in 1..Len(todo[mu])
      BY <1>3, <2>2, <3>1 DEF s
    <3>3. mu # "none" /\ todo[mu][i + 1].field = "enabled"
      BY <1>5, <2>1, <3>1, <3>2, Zenon
    <3>4. todo[mu][i + 1].value = PhaseEnabled(phase)
      BY <3>2, <3>3, Zenon DEF HolderFollowsPhase
    <3>5. todo'[mu'] = Tail(s)
      BY <1>4, <2>1, <2>2, Zenon
    <3>6. PhaseEnabled(phase') = PhaseEnabled(phase)
      BY <1>2, Zenon
    <3> QED
      BY <3>2, <3>4, <3>5, <3>6, Zenon
  <2>3. CASE mu # t
    BY <1>2, <1>4, <1>5, <2>1, <2>3 DEF HolderFollowsPhase
  <2> QED
    BY <2>2, <2>3
<1>6. mu' # "ticker" => todo'["ticker"] = <<>>
  <2>1. CASE mu = "ticker"
    BY <1>1, <1>2, <1>4, <2>1
  <2>2. CASE mu # "ticker"
    BY <1>1, <1>4, <2>2 DEF HolderFollowsPhase, s
  <2> QED
    BY <2>1, <2>2
<1> QED
  BY <1>5, <1>6 DEF HolderFollowsPhase

(* HolderFollowsPhase is inductive with IInv.                              *)
LEMMA NextFollowsPhase ==
  IInv /\ HolderFollowsPhase /\ [Next]_vars => HolderFollowsPhase'
<1> SUFFICES ASSUME IInv, HolderFollowsPhase, [Next]_vars PROVE HolderFollowsPhase'
  OBVIOUS
<1>1. ASSUME NEW t \in Writers, Write(t) PROVE HolderFollowsPhase'
  BY <1>1, WriteFollowsPhase
<1>2. ASSUME NEW w \in Workers, handle_set_control(w) PROVE HolderFollowsPhase'
  <2>1. w \in Writers /\ "ticker" \in Writers /\ w # "ticker" /\ mu # w
    BY <1>2, IdleHoldsNothing, ControlPlaneAssumption DEF handle_set_control, Writers
  <2>2. /\ UNCHANGED <<phase, mu>> /\ todo \in [Writers -> Seq(Writes)]
        /\ mu \in Writers \cup {"none"}
        /\ \E ws : todo' = [todo EXCEPT ![w] = ws]
    BY <1>2 DEF handle_set_control, match, IInv, TypeOK
  <2>3. \A u \in Writers : u # w => todo'[u] = todo[u]
    BY <2>2
  <2> QED
    BY <2>1, <2>2, <2>3 DEF HolderFollowsPhase
<1>3. ASSUME NEW t \in Writers, NEW p \in MatchPhase, NEW sec \in 0..MaxSeconds,
             Lock(t, p, sec)
      PROVE  HolderFollowsPhase'
  BY <1>3, LockFollowsPhase
<1>4. ASSUME NEW w \in Workers, handle_match(w) PROVE HolderFollowsPhase'
  <2>1. w \in Writers /\ MaxSeconds \in 0..MaxSeconds /\ 0 \in 0..MaxSeconds
    BY ControlPlaneAssumption DEF Writers
  <2>2. {"Auto", "Idle", "Teleop"} \subseteq MatchPhase
    BY DEF MatchPhase
  <2>3. CASE Lock(w, "Auto", MaxSeconds)
    BY <1>3, <2>1, <2>2, <2>3
  <2>4. CASE Lock(w, "Idle", 0)
    BY <1>3, <2>1, <2>2, <2>4
  <2>5. CASE Lock(w, "Teleop", MaxSeconds)
    BY <1>3, <2>1, <2>2, <2>5
  <2> QED
    BY <1>4, <2>3, <2>4, <2>5 DEF handle_match
<1>5. CASE TickReassert \/ TickAdvance
  <2>1. "ticker" \in Writers
    BY DEF Writers
  <2>2. phase \in MatchPhase /\ NextPhase(phase) \in MatchPhase
    <3>1. phase \in MatchPhase
      BY DEF IInv, TypeOK
    <3>2. \A p \in MatchPhase : NextPhase(p) \in MatchPhase
      BY Zenon DEF NextPhase, MatchPhase
    <3> QED
      BY <3>1, <3>2
  <2>3. \A p, sec : sec \in SecondsIn(p) => sec \in 0..MaxSeconds
    BY ControlPlaneAssumption DEF SecondsIn
  <2> QED
    BY <1>3, <1>5, <2>1, <2>2, <2>3 DEF TickReassert, TickAdvance
<1>6. CASE IngestGet \/ IngestSet \/ HelperPublish \/ HelperDrop \/ TakeSnapshot
           \/ Publish \/ UNCHANGED vars
  <2>1. UNCHANGED <<phase, mu, todo>>
    BY <1>6 DEF IngestGet, IngestSet, HelperPublish, HelperDrop, TakeSnapshot, Publish,
                match, vars
  <2> QED
    BY <2>1 DEF HolderFollowsPhase
<1> QED
  BY <1>1, <1>2, <1>4, <1>5, <1>6 DEF Next, WriterNext

(* A stopped or finished match is not brought back by a match operation    *)
(* under way: for every number of workers, only a hand enables the robot.  *)
THEOREM StopFinal == Spec => StopIsFinal
<1>1. Init => HolderFollowsPhase
  BY DEF Init, HolderFollowsPhase, Writers
<1>2. IInv /\ HolderFollowsPhase /\ [Next]_vars =>
        [phase \notin RunningPhases /\ ~ ds.enabled /\ ds'.enabled => EnabledByHand]_vars
  <2> SUFFICES ASSUME IInv, HolderFollowsPhase, Next,
                      phase \notin RunningPhases, ~ ds.enabled, ds'.enabled
               PROVE  EnabledByHand
    OBVIOUS
  <2>1. ASSUME NEW t \in Writers, Write(t) PROVE EnabledByHand
    <3> DEFINE w == Head(todo[t])
    <3>1. /\ ds' = [ds EXCEPT ![w.field] = w.value] /\ ds \in DaemonStates
          /\ todo[t] \in Seq(Writes) /\ todo[t] # <<>>
      BY <2>1 DEF Write, IInv, TypeOK
    <3>2. w = todo[t][1] /\ 1 \in 1..Len(todo[t])
      BY <3>1
    <3> HIDE DEF w
    <3>3. w.field = "enabled" /\ w.value
      BY <3>1 DEF DaemonStates
    <3>4. ~ PhaseEnabled(phase)
      BY DEF PhaseEnabled, EnabledPhases, RunningPhases
    <3>5. mu # t
      <4>1. t # "none"
        BY ControlPlaneAssumption DEF Writers
      <4> QED
        BY <3>2, <3>3, <3>4, <4>1 DEF HolderFollowsPhase
    <3>6. t # "ticker"
      BY <3>1, <3>5 DEF HolderFollowsPhase
    <3> QED
      BY <2>1, <3>5, <3>6 DEF EnabledByHand, Writers
  <2>2. CASE IngestSet
    BY <2>2 DEF EnabledByHand
  <2>3. ASSUME ds' = ds PROVE EnabledByHand
    BY <2>3
  <2> QED
    BY <2>1, <2>2, <2>3 DEF Next, WriterNext, handle_set_control, handle_match, Lock, TickReassert,
       TickAdvance, IngestGet, HelperPublish, HelperDrop, TakeSnapshot, Publish
<1> QED
  BY Invariance, <1>1, <1>2, NextFollowsPhase, PTL DEF Spec, StopIsFinal
=============================================================================
