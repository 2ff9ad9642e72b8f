--------------------------- MODULE WebPageProofs ---------------------------
(***************************************************************************)
(* The page composed with the control plane, for any number of refreshes   *)
(* under way and any requests: what is proved of the plane holds with the  *)
(* page watching, and a button is seen to work.                            *)
(***************************************************************************)
EXTENDS WebPage, ControlPlaneProofs

(* A step of the composition is a step of the plane, or none.              *)
LEMMA PageStepsAreNext ==
  [PageNext]_<<vars, page>> => [Next]_vars
  BY DEF PageNext, PlaneStep, setControl, Next, WriterNext

(* The page only watches and posts: with it the plane still behaves as     *)
(* ControlPlane says, so its theorems carry over.                          *)
THEOREM PageImplementsPlane == PageSpec => Spec
<1>1. PageInit => Init
  BY DEF PageInit
<1> QED
  BY <1>1, PageStepsAreNext, PTL DEF PageSpec, Spec

-----------------------------------------------------------------------------
(* Types.                                                                  *)

(* The response to GET /api/state has the names of a state.                *)
LEMMA ControlType ==
  ASSUME TypeOK
  PROVE  Control(snapshot_control(ds)) \in Controls /\ Control(snapshot_control(ds)) = Control(ds)
<1>1. ds \in DaemonStates
  BY DEF TypeOK
<1>2. mode_name(ds.mode) \in {"auto", "teleop", "test", "unknown"}
  BY Zenon DEF mode_name
<1>3. Control(snapshot_control(ds)) = Control(ds)
  BY DEF Control, snapshot_control
<1>4. Control(ds) \in Controls
  BY <1>1, <1>2 DEF Control, Controls, DaemonStates
<1> QED
  BY <1>3, <1>4

(* A step of one refresh keeps the types of the page.                      *)
LEMMA PageStepTypes ==
  ASSUME TypeOK, PageTypeOK, NEW r \in Refreshes, PageStep(r)
  PROVE  PageTypeOK'
<1>1. /\ content \in {Loading, Disconnected} \cup States
      /\ call \in [Refreshes -> Calls] /\ call[r] \in Calls
      /\ press \in Presses /\ failures \in 0 .. MaxFailures
  BY DEF PageTypeOK
<1>2. ASSUME NEW c \in Calls, call' = [call EXCEPT ![r] = c], press' \in Presses,
             content' \in {Loading, Disconnected} \cup States, failures' \in 0 .. MaxFailures
      PROVE  PageTypeOK'
  BY <1>1, <1>2 DEF PageTypeOK
<1>3. NoCall \in Calls /\ [at |-> "sent"] \in Calls
  BY DEF NoCall, Calls
<1>4. CASE refresh(r)
  BY <1>1, <1>2, <1>3, <1>4 DEF refresh, Send
<1>5. CASE StateSnapshot(r)
  <2> DEFINE c == [at |-> "control", control |-> Control(snapshot_control(ds))]
  <2>1. c \in Calls
    BY ControlType DEF Calls
  <2> QED
    BY <1>1, <1>2, <1>5, <2>1 DEF StateSnapshot
<1>6. CASE MatchSnapshot(r)
  <2> DEFINE s == State(call[r].control, phase)
             c == [at |-> "answered", state |-> s]
  <2>1. call[r].control \in Controls
    BY <1>1, <1>6 DEF MatchSnapshot, Calls
  <2>2. phase \in MatchPhase
    BY DEF TypeOK
  <2>3. s \in States
    BY <2>1, <2>2 DEF State, States
  <2> HIDE DEF s
  <2>4. c \in Calls
    BY <2>3 DEF Calls
  <2> QED
    BY <1>1, <1>2, <1>6, <2>4 DEF MatchSnapshot, s
<1>7. CASE Show(r)
  <2>1. call[r].state \in States
    BY <1>1, <1>7 DEF Show, Calls
  <2> QED
    BY <1>1, <1>2, <1>3, <1>7, <2>1 DEF Show
<1>8. CASE FetchFails(r)
  <2>1. failures' \in 0 .. MaxFailures
    BY <1>1, <1>8, PageAssumption DEF FetchFails
  <2> QED
    BY <1>1, <1>2, <1>3, <1>8, <2>1 DEF FetchFails
<1>9. CASE FollowUp(r)
  <2>1. press' \in Presses
    BY <1>1, <1>9 DEF FollowUp, Presses, NoPress
  <2> QED
    BY <1>1, <1>2, <1>3, <1>9, <2>1 DEF FollowUp, Send
<1> QED
  BY <1>4, <1>5, <1>6, <1>7, <1>8, <1>9 DEF PageStep

(* What a button asks for is among its handler's writes.                   *)
LEMMA AskedType ==
  ASSUME TypeOK, TypeOK', NEW w \in Workers
  PROVE  Asked(w) \in SUBSET Writes
<1>1. todo'[w] \in Seq(Writes)
  BY DEF TypeOK, Writers
<1>2. \A i \in DOMAIN todo'[w] : todo'[w][i] \in Writes
  BY <1>1
<1> QED
  BY <1>2 DEF Asked

(* The page keeps its types, whatever is written and however the refreshes *)
(* overlap: no response is shown before it is whole.                       *)
THEOREM PageTypeCorrect == PageSpec => []PageTypeOK
<1>1. PageInit => PageTypeOK
  BY PageAssumption DEF PageInit, PageTypeOK, NoCall, Calls, Presses
<1>2. TypeOK /\ TypeOK' /\ PageTypeOK /\ [PageNext]_<<vars, page>> => PageTypeOK'
  <2> SUFFICES ASSUME TypeOK, TypeOK', PageTypeOK, [PageNext]_<<vars, page>>
               PROVE  PageTypeOK'
    OBVIOUS
  <2>1. CASE UNCHANGED <<vars, page>>
    BY <2>1 DEF page, PageTypeOK
  <2>2. CASE \E r \in Refreshes : PageStep(r)
    BY <2>2, PageStepTypes
  <2>3. CASE PlaneStep
    BY <2>3 DEF PlaneStep, PageTypeOK, Presses
  <2>4. ASSUME NEW w \in Workers, setControl(w) PROVE PageTypeOK'
    <3>1. press' \in Presses
      BY <2>4, AskedType DEF setControl, Presses
    <3> QED
      BY <2>4, <3>1 DEF setControl, PageTypeOK
  <2>5. CASE PostFails
    BY <2>5, PageAssumption DEF PostFails, PageTypeOK, Presses
  <2> QED
    BY <2>1, <2>2, <2>3, <2>4, <2>5 DEF PageNext
<1> QED
  BY <1>1, <1>2, PageImplementsPlane, TypeCorrect, PTL DEF PageSpec

-----------------------------------------------------------------------------
(* The press.                                                              *)

(* What worker w was asked to set is set or still to come, and whoever     *)
(* writes the field writes this value.                                     *)
Undisturbed(w, set) ==
  /\ ~ first_tick /\ topics[set.field] = last_seen[set.field]
  /\ ingest.pending => IngestOrder[ingest.at] # set.field
  /\ set.field \in {"enabled", "mode"} => phase \notin RunningPhases
  /\ \A t \in Writers : \A i \in 1..Len(todo[t]) :
       todo[t][i].field = set.field => todo[t][i] = set
  /\ ds[set.field] # set.value => \E i \in 1..Len(todo[w]) : todo[w][i] = set

(* The refresh that follows brings it: the POST has been answered before,  *)
(* so DaemonState has the value whenever the handler copies it.            *)
Carried(r, set) ==
  /\ ds[set.field] = set.value
  /\ call[r].at = "control" => Displays(call[r].control, set)
  /\ call[r].at = "answered" => Displays(call[r].state.control, set)

(* The strengthening of PressShown that is inductive.                      *)
PressKept ==
  press # NoPress =>
    \A set \in press.asked :
      /\ set \in ManualWrites /\ Undisturbed(press.by, set)
      /\ press.at = "followed" => Carried(press.call, set)

(* A POST sets a field once.                                               *)
LEMMA OneSetPerField ==
  ASSUME NEW q \in Requests
  PROVE  \A i, j \in 1..Len(WebWrites(q)) :
           WebWrites(q)[i].field = WebWrites(q)[j].field => WebWrites(q)[i] = WebWrites(q)[j]
<1> DEFINE Given == { Set(f, WebValue(f, q[f])) : f \in DOMAIN q }
<1>1. \A g, h \in Given : g.field = h.field => g = h
  <2> SUFFICES ASSUME NEW g \in Given, NEW h \in Given, g.field = h.field PROVE g = h
    BY Zenon
  <2>1. PICK f \in DOMAIN q : g = Set(f, WebValue(f, q[f]))
    BY Zenon
  <2>2. PICK e \in DOMAIN q : h = Set(e, WebValue(e, q[e]))
    BY Zenon
  <2>3. f = e
    BY <2>1, <2>2 DEF Set
  <2> QED
    BY <2>1, <2>2, <2>3, Zenon
<1>2. ASSUME NEW f PROVE IfGiven(q, f) \in Seq(Given)
  <2>1. CASE f \in DOMAIN q
    <3>1. Set(f, WebValue(f, q[f])) \in Given
      BY <2>1, Zenon
    <3> HIDE DEF Given
    <3> QED
      BY <2>1, <3>1 DEF IfGiven
  <2>2. CASE f \notin DOMAIN q
    BY <2>2 DEF IfGiven
  <2> QED
    BY <2>1, <2>2
<1>3. WebWrites(q) \in Seq(Given)
  <2> HIDE DEF Given
  <2> QED
    BY <1>2 DEF WebWrites
<1> HIDE DEF Given
<1> QED
  BY <1>1, <1>3

(* A manual write names a field of DaemonState that has a topic.           *)
LEMMA ManualField ==
  ASSUME NEW set \in ManualWrites PROVE set.field \in Fields
  BY DEF ManualWrites

(* The page shows a field DaemonState has.                                 *)
LEMMA ShowsWhatIsSet ==
  ASSUME TypeOK, NEW set \in ManualWrites, ds[set.field] = set.value
  PROVE  Displays(Control(snapshot_control(ds)), set)
<1>1. set.field \in Fields /\ ds \in DaemonStates
  BY ManualField DEF TypeOK
<1> DEFINE c == Control(snapshot_control(ds))
<1>2. c = Control(ds)
  BY ControlType
<1>3. /\ c.enabled = ds.enabled /\ c.mode = mode_name(ds.mode)
      /\ c.alliance = ds.alliance /\ c.estop = ds.e_stop
  BY <1>2 DEF Control
<1> HIDE DEF c
<1>4. ds.enabled = ds["enabled"] /\ ds.mode = ds["mode"] /\ ds.e_stop = ds["e_stop"]
      /\ ds.alliance = ds["alliance"] /\ c.enabled = c["enabled"] /\ c.alliance = c["alliance"]
  OBVIOUS
<1>5. Displays(c, set)
  <2>1. CASE set.field = "mode"
    BY <1>3, <1>4, <2>1, Zenon DEF Displays
  <2>2. CASE set.field = "e_stop"
    <3>1. c.estop = set.value /\ "e_stop" # "mode"
      BY <1>3, <1>4, <2>2
    <3> QED
      BY <2>2, <3>1, Zenon DEF Displays
  <2>3. CASE set.field \in {"enabled", "alliance"}
    <3>1. c[set.field] = set.value /\ set.field # "mode" /\ set.field # "e_stop"
      BY <1>3, <1>4, <2>3
    <3> QED
      BY <3>1, Zenon DEF Displays
  <2> QED
    BY <1>1, <2>1, <2>2, <2>3 DEF Fields
<1> QED
  BY <1>5 DEF c

-----------------------------------------------------------------------------
(* The steps of the plane.                                                 *)

(* A setter: whatever is written to the field is the value asked for.      *)
LEMMA WriteUndisturbed ==
  ASSUME IInv, NEW set \in ManualWrites, NEW w \in Workers, Undisturbed(w, set),
         NEW t \in Writers, Write(t)
  PROVE  Undisturbed(w, set)' /\ (ds[set.field] = set.value => ds'[set.field] = set.value)
<1> DEFINE s == todo[t]
<1>1. /\ s \in Seq(Writes) /\ s # <<>> /\ todo \in [Writers -> Seq(Writes)]
      /\ ds \in DaemonStates /\ w \in Writers
  BY DEF Write, IInv, TypeOK, Writers
<1>2. /\ ds' = [ds EXCEPT ![Head(s).field] = Head(s).value]
      /\ todo' = [todo EXCEPT ![t] = Tail(s)]
      /\ UNCHANGED <<phase, topics, ingest, last_seen, first_tick>>
  BY DEF Write, gamepad
<1>3. /\ Len(s) \in Nat \ {0} /\ Len(Tail(s)) = Len(s) - 1 /\ Head(s) = s[1]
      /\ \A i \in 1..Len(Tail(s)) : Tail(s)[i] = s[i + 1] /\ i + 1 \in 1..Len(s)
  BY <1>1
<1>4. \A u \in Writers : \A i \in 1..Len(todo[u]) :
        todo[u][i].field = set.field => todo[u][i] = set
  BY DEF Undisturbed
<1>5. set.field \in DOMAIN ds
  BY <1>1, ManualField DEF DaemonStates, Fields
<1>6. s[1].field = set.field => s[1] = set
  BY <1>3, <1>4
<1>7. s = todo[t]
  OBVIOUS
<1> HIDE DEF s
<1>8. todo'[t] = Tail(s) /\ \A u \in Writers : u # t => todo'[u] = todo[u]
  BY <1>1, <1>2
<1>9. /\ s[1].field = set.field => ds'[set.field] = set.value
      /\ s[1].field # set.field => ds'[set.field] = ds[set.field]
  BY <1>2, <1>3, <1>5, <1>6
<1>10. ASSUME NEW u \in Writers, NEW i \in 1..Len(todo'[u]), todo'[u][i].field = set.field
       PROVE  todo'[u][i] = set
  <2>1. CASE u = t
    <3>1. todo'[u][i] = s[i + 1] /\ i + 1 \in 1..Len(s)
      BY <1>3, <1>8, <2>1
    <3> QED
      BY <1>4, <1>7, <1>10, <3>1
  <2>2. CASE u # t
    BY <1>4, <1>8, <1>10, <2>2
  <2> QED
    BY <2>1, <2>2
<1>11. ds'[set.field] # set.value => \E i \in 1..Len(todo'[w]) : todo'[w][i] = set
  <2> SUFFICES ASSUME ds'[set.field] # set.value
               PROVE  \E i \in 1..Len(todo'[w]) : todo'[w][i] = set
    OBVIOUS
  <2>1. s[1].field # set.field /\ ds[set.field] # set.value
    BY <1>9
  <2>2. PICK i \in 1..Len(todo[w]) : todo[w][i] = set
    BY <2>1 DEF Undisturbed
  <2>3. CASE w = t
    <3>1. i \in 1..Len(s) /\ s[i] = set /\ i # 1
      BY <1>7, <2>1, <2>2, <2>3
    <3>2. i - 1 \in 1..Len(Tail(s)) /\ Tail(s)[i - 1] = s[i - 1 + 1] /\ i - 1 + 1 = i
      BY <1>3, <3>1
    <3> QED
      BY <1>8, <2>3, <3>1, <3>2
  <2>4. CASE w # t
    BY <1>1, <1>8, <2>2, <2>4
  <2> QED
    BY <2>3, <2>4
<1>12. Undisturbed(w, set)'
  BY <1>2, <1>10, <1>11 DEF Undisturbed
<1> QED
  BY <1>9, <1>12

(* A tick of a running match: it does not write the field.                 *)
LEMMA TickUndisturbed ==
  ASSUME IInv, NEW set \in ManualWrites, NEW w \in Workers, Undisturbed(w, set),
         TickReassert \/ TickAdvance
  PROVE  Undisturbed(w, set)' /\ ds' = ds
<1>1. phase \in RunningPhases /\ phase \in MatchPhase
  BY DEF TickReassert, TickAdvance, IInv, TypeOK
<1>2. PICK p \in MatchPhase, sec \in 0..MaxSeconds : Lock("ticker", p, sec)
  <2>1. \A p, sec : sec \in SecondsIn(p) => sec \in 0..MaxSeconds
    BY ControlPlaneAssumption DEF SecondsIn
  <2>2. \A p \in MatchPhase : NextPhase(p) \in MatchPhase
    BY Zenon DEF NextPhase, MatchPhase
  <2> QED
    BY <1>1, <2>1, <2>2 DEF TickReassert, TickAdvance
<1> DEFINE ws == PhaseWrites(p, sec)
<1>3. /\ Len(ws) = 3 /\ ws[1].field = "enabled" /\ ws[2].field = "mode"
      /\ ws[3].field = "match_time_s"
  BY PhaseWritesType
<1>4. todo' = [todo EXCEPT !["ticker"] = ws]
  BY <1>2 DEF Lock
<1> HIDE DEF ws
<1>5. UNCHANGED <<ds, topics, ingest, last_seen, first_tick>>
  BY <1>2 DEF Lock, gamepad
<1>6. set.field \in {"alliance", "e_stop"}
  BY <1>1, ManualField DEF Undisturbed, Fields
<1>7. /\ todo \in [Writers -> Seq(Writes)] /\ "ticker" \in Writers
      /\ w \in Writers /\ w # "ticker"
  BY ControlPlaneAssumption DEF IInv, TypeOK, Writers
<1>8. todo'["ticker"] = ws /\ \A u \in Writers : u # "ticker" => todo'[u] = todo[u]
  BY <1>4, <1>7
<1>9. \A i \in 1..Len(ws) : ws[i].field # set.field
  BY <1>3, <1>6
<1>10. ASSUME NEW u \in Writers, NEW i \in 1..Len(todo'[u]), todo'[u][i].field = set.field
       PROVE  todo'[u][i] = set
  <2>1. u # "ticker"
    BY <1>8, <1>9, <1>10
  <2> QED
    BY <1>8, <1>10, <2>1 DEF Undisturbed
<1>11. ds'[set.field] # set.value => \E i \in 1..Len(todo'[w]) : todo'[w][i] = set
  BY <1>5, <1>7, <1>8 DEF Undisturbed
<1>12. Undisturbed(w, set)'
  BY <1>5, <1>6, <1>10, <1>11 DEF Undisturbed
<1> QED
  BY <1>5, <1>12

(* GamepadIngest: the field's topic has not changed.                       *)
LEMMA IngestUndisturbed ==
  ASSUME IInv, NEW set \in ManualWrites, NEW w \in Workers, Undisturbed(w, set),
         IngestGet \/ IngestSet
  PROVE  Undisturbed(w, set)' /\ ds'[set.field] = ds[set.field]
<1> DEFINE f == IngestOrder[ingest.at]
<1>1. /\ ~ first_tick /\ topics[set.field] = last_seen[set.field]
      /\ ingest.pending => f # set.field
  BY DEF Undisturbed
<1>2. UNCHANGED <<phase, todo, topics>>
  BY DEF IngestGet, IngestSet, match
<1>3. /\ ~ first_tick' /\ last_seen'[set.field] = last_seen[set.field]
      /\ ingest'.pending => IngestOrder[ingest'.at] # set.field
      /\ ds'[set.field] = ds[set.field]
  <2>1. CASE IngestGet
    <3>1. UNCHANGED <<ds, last_seen>>
      BY <2>1 DEF IngestGet
    <3>2. CASE Changed(f)
      <4>1. f # set.field
        BY <1>1, <3>2 DEF Changed
      <4>2. ingest'.at = ingest.at /\ first_tick' = first_tick
        BY <2>1, <3>2 DEF IngestGet
      <4> QED
        BY <1>1, <3>1, <4>1, <4>2
    <3>3. CASE ~ Changed(f)
      <4>1. IngestNext
        BY <2>1, <3>3 DEF IngestGet
      <4>2. ingest'.pending = FALSE /\ ~ first_tick'
        BY <1>1, <4>1 DEF IngestNext
      <4> QED
        BY <3>1, <4>2
    <3> QED
      BY <3>2, <3>3
  <2>2. CASE IngestSet
    <3>1. /\ ingest.pending /\ IngestNext
          /\ ds' = [ds EXCEPT ![f] = IngestValue(f, ingest.value)]
          /\ last_seen' = [last_seen EXCEPT ![f] = ingest.value]
      BY <2>2 DEF IngestSet
    <3>2. ingest'.pending = FALSE /\ ~ first_tick'
      BY <1>1, <3>1 DEF IngestNext
    <3>3. f # set.field
      BY <1>1, <3>1
    <3>4. set.field \in DOMAIN ds /\ set.field \in DOMAIN last_seen
      BY ManualField DEF IInv, TypeOK, DaemonStates, Topics, Fields
    <3> HIDE DEF f
    <3>5. ds'[set.field] = ds[set.field] /\ last_seen'[set.field] = last_seen[set.field]
      BY <3>1, <3>3, <3>4
    <3> QED
      BY <3>2, <3>5
  <2> QED
    BY <2>1, <2>2
<1>4. Undisturbed(w, set)'
  BY <1>1, <1>2, <1>3 DEF Undisturbed
<1> QED
  BY <1>3, <1>4

(* A step of the plane that is no input.                                   *)
LEMMA PlaneUndisturbed ==
  ASSUME IInv, WriterNext, inputs' = inputs,
         NEW set \in ManualWrites, NEW w \in Workers, Undisturbed(w, set)
  PROVE  Undisturbed(w, set)' /\ (ds[set.field] = set.value => ds'[set.field] = set.value)
<1>1. ~ Input
  BY DEF Input, IInv, TypeOK
<1>2. \A u \in Workers : ~ handle_set_control(u) /\ ~ handle_match(u)
  BY <1>1 DEF handle_set_control, handle_match
<1>3. ~ HelperPublish /\ ~ HelperDrop
  BY <1>1 DEF HelperPublish, HelperDrop
<1>4. CASE \E t \in Writers : Write(t)
  BY <1>4, WriteUndisturbed
<1>5. CASE TickReassert \/ TickAdvance
  BY <1>5, TickUndisturbed
<1>6. CASE IngestGet \/ IngestSet
  BY <1>6, IngestUndisturbed
<1> QED
  BY <1>2, <1>3, <1>4, <1>5, <1>6 DEF WriterNext

-----------------------------------------------------------------------------
(* The steps of the page.                                                  *)

(* A button is pressed: what it asks for is among the writes to come.      *)
LEMMA SetControlKeepsPress ==
  ASSUME IInv, NEW w \in Workers, setControl(w)
  PROVE  PressKept'
<1>1. PICK q \in Requests : todo' = [todo EXCEPT ![w] = WebWrites(q)]
  BY DEF setControl, handle_set_control
<1> DEFINE ws == WebWrites(q)
<1>2. ws \in Seq(ManualWrites)
  BY WebWritesType
<1>3. \A i, j \in 1..Len(ws) : ws[i].field = ws[j].field => ws[i] = ws[j]
  BY OneSetPerField
<1>4. todo \in [Writers -> Seq(Writes)] /\ w \in Writers
  BY DEF IInv, TypeOK, Writers
<1>5. todo'[w] = ws /\ \A u \in Writers : u # w => todo'[u] = todo[u]
  BY <1>1, <1>4
<1> HIDE DEF ws
<1>6. UNCHANGED <<phase, topics, ingest, last_seen, first_tick>>
  BY DEF setControl, handle_set_control, match, gamepad
<1>7. press'.at = "posted" /\ press'.by = w /\ press'.asked = Asked(w)
  BY DEF setControl
<1>8. ASSUME NEW set \in Asked(w)
      PROVE  set \in ManualWrites /\ Undisturbed(w, set)'
  <2>1. PICK j \in DOMAIN todo'[w] : Settled(todo'[w][j].field) /\ set = todo'[w][j]
    BY DEF Asked
  <2>2. j \in 1..Len(ws) /\ set = ws[j] /\ set \in ManualWrites
    BY <1>2, <1>5, <2>1
  <2>3. Settled(set.field)
    BY <2>1
  <2>4. \A u \in Writers : \A i \in 1..Len(todo[u]) : todo[u][i].field # set.field
    <3>1. \A u \in Writers : DOMAIN todo[u] = 1..Len(todo[u])
      BY <1>4
    <3> QED
      BY <2>3, <3>1 DEF Settled
  <2>5. ASSUME NEW u \in Writers, NEW i \in 1..Len(todo'[u]), todo'[u][i].field = set.field
        PROVE  todo'[u][i] = set
    <3>1. CASE u = w
      BY <1>3, <1>5, <2>2, <2>5, <3>1
    <3>2. CASE u # w
      BY <1>5, <2>4, <2>5, <3>2
    <3> QED
      BY <3>1, <3>2
  <2>6. \E i \in 1..Len(todo'[w]) : todo'[w][i] = set
    BY <1>5, <2>2
  <2>7. /\ ~ first_tick /\ topics[set.field] = last_seen[set.field]
        /\ ingest.pending => IngestOrder[ingest.at] # set.field
        /\ set.field \in {"enabled", "mode"} => phase \notin RunningPhases
    BY <2>3 DEF Settled
  <2> QED
    BY <1>6, <2>2, <2>5, <2>6, <2>7 DEF Undisturbed
<1> QED
  BY <1>7, <1>8 DEF PressKept

(* A step that leaves the daemon alone leaves the press undisturbed.       *)
LEMMA StillUndisturbed ==
  ASSUME UNCHANGED vars, NEW set, NEW w, Undisturbed(w, set)
  PROVE  Undisturbed(w, set)'
  BY DEF vars, Undisturbed

(* What a button asked for is not shown otherwise: see PressKept.          *)
LEMMA PageStepKeepsPress ==
  ASSUME IInv, PageTypeOK, PressKept, NEW r \in Refreshes, PageStep(r), UNCHANGED vars
  PROVE  PressKept'
<1> SUFFICES ASSUME press' # NoPress, NEW set \in press'.asked
             PROVE  /\ set \in ManualWrites /\ Undisturbed(press.by, set)'
                    /\ press'.at = "followed" => Carried(press.call, set)'
  BY DEF PressKept
<1>1. /\ call \in [Refreshes -> Calls] /\ call[r] \in Calls /\ press \in Presses
      /\ UNCHANGED ds /\ TypeOK
  BY DEF PageTypeOK, vars, IInv
<1>2. /\ press # NoPress /\ press'.asked = press.asked /\ press'.by = press.by
      /\ press.by \in Workers
  <2>1. CASE FollowUp(r)
    BY <1>1, <2>1 DEF FollowUp, NoPress, Presses
  <2>2. CASE ~ FollowUp(r)
    <3>1. press' = press
      BY <2>2 DEF PageStep, refresh, StateSnapshot, MatchSnapshot, Show, FetchFails
    <3> QED
      BY <1>1, <3>1 DEF Presses
  <2> QED
    BY <2>1, <2>2
<1>3. PICK w \in Workers : w = press.by
  BY <1>2
<1>4. /\ set \in ManualWrites /\ Undisturbed(w, set)
      /\ press.at = "followed" => Carried(press.call, set)
  BY <1>2, <1>3 DEF PressKept
<1>5. Undisturbed(w, set)'
  BY <1>4, StillUndisturbed
<1>6. Undisturbed(press.by, set)'
  BY <1>2, <1>3, <1>5
<1>7. ASSUME press'.at = "followed" PROVE Carried(press.call, set)'
  <2>1. CASE FollowUp(r)
    <3>1. press'.call = r /\ todo[press.by] = <<>> /\ call' = [call EXCEPT ![r] = [at |-> "sent"]]
      BY <2>1 DEF FollowUp, PostAnswered, Send
    <3>2. ds[set.field] = set.value
      BY <1>3, <1>4, <3>1 DEF Undisturbed
    <3>3. call'[r].at = "sent"
      BY <1>1, <3>1
    <3> QED
      BY <1>1, <3>1, <3>2, <3>3 DEF Carried
  <2>2. CASE ~ FollowUp(r)
    <3>1. press' = press
      BY <2>2 DEF PageStep, refresh, StateSnapshot, MatchSnapshot, Show, FetchFails
    <3>2. press.call \in Refreshes
      BY <1>1, <1>7, <3>1 DEF Presses, NoPress
    <3>3. PICK k \in Refreshes : k = press.call
      BY <3>2
    <3>4. Carried(k, set)
      BY <1>4, <1>7, <3>1, <3>3
    <3>5. CASE k # r
      <4>1. call'[k] = call[k]
        BY <1>1, <2>2, <3>5 DEF PageStep, refresh, Send, StateSnapshot, MatchSnapshot, Show,
                                FetchFails
      <4>2. Carried(k, set)'
        BY <1>1, <3>4, <4>1 DEF Carried
      <4> QED
        BY <3>1, <3>3, <4>2
    <3>6. CASE k = r
      <4>1. /\ call'[r].at = "control" => Displays(call'[r].control, set)
            /\ call'[r].at = "answered" => Displays(call'[r].state.control, set)
        <5>1. CASE refresh(r) \/ Show(r) \/ FetchFails(r)
          <6>1. call'[r].at \in {"none", "sent"}
            BY <1>1, <5>1 DEF refresh, Send, Show, FetchFails, NoCall
          <6> QED
            BY <6>1
        <5>2. CASE StateSnapshot(r)
          <6> DEFINE c == Control(snapshot_control(ds))
          <6>1. Displays(c, set)
            BY <1>1, <1>4, <3>4, ShowsWhatIsSet DEF Carried
          <6>2. call'[r] = [at |-> "control", control |-> c]
            BY <1>1, <5>2 DEF StateSnapshot
          <6> HIDE DEF c
          <6>3. call'[r].at = "control" /\ call'[r].control = c
            BY <6>2
          <6> QED
            BY <6>1, <6>3
        <5>3. CASE MatchSnapshot(r)
          <6> DEFINE c == call[r].control
          <6>1. Displays(c, set)
            BY <3>4, <3>6, <5>3 DEF Carried, MatchSnapshot
          <6>2. call'[r] = [at |-> "answered", state |-> State(c, phase)]
            BY <1>1, <5>3 DEF MatchSnapshot
          <6> HIDE DEF c
          <6>3. call'[r].at = "answered" /\ call'[r].state.control = c
            BY <6>2 DEF State
          <6> QED
            BY <6>1, <6>3
        <5> QED
          BY <2>2, <5>1, <5>2, <5>3 DEF PageStep
      <4>2. Carried(r, set)'
        BY <1>1, <3>4, <4>1 DEF Carried
      <4> QED
        BY <3>1, <3>3, <3>6, <4>2
    <3> QED
      BY <3>5, <3>6
  <2> QED
    BY <2>1, <2>2
<1> QED
  BY <1>4, <1>6, <1>7

(* The daemon goes on: a step of its other threads keeps the press, an     *)
(* input ends it.                                                          *)
LEMMA PlaneStepKeepsPress ==
  ASSUME IInv, PageTypeOK, PressKept, PlaneStep
  PROVE  PressKept'
<1>1. CASE inputs' # inputs
  BY <1>1 DEF PlaneStep, PressKept
<1>2. CASE inputs' = inputs
  <2>1. UNCHANGED <<press, call>> /\ WriterNext
    BY <1>2 DEF PlaneStep
  <2> SUFFICES ASSUME press # NoPress, NEW set \in press.asked
               PROVE  /\ set \in ManualWrites /\ Undisturbed(press.by, set)'
                      /\ press.at = "followed" => Carried(press.call, set)'
    BY <2>1 DEF PressKept
  <2>2. press.by \in Workers /\ (press.at = "followed" => press.call \in Refreshes)
    BY DEF PageTypeOK, Presses
  <2>3. PICK w \in Workers : w = press.by
    BY <2>2
  <2>4. /\ set \in ManualWrites /\ Undisturbed(w, set)
        /\ press.at = "followed" => Carried(press.call, set)
    BY <2>3 DEF PressKept
  <2>5. Undisturbed(w, set)' /\ (ds[set.field] = set.value => ds'[set.field] = set.value)
    BY <1>2, <2>1, <2>4, PlaneUndisturbed
  <2>6. Undisturbed(press.by, set)'
    BY <2>1, <2>3, <2>5
  <2>7. press.at = "followed" => Carried(press.call, set)'
    BY <2>1, <2>4, <2>5 DEF Carried
  <2> QED
    BY <2>4, <2>6, <2>7
<1> QED
  BY <1>1, <1>2

(* A button is seen to work: for any number of workers and refreshes, any  *)
(* requests and any publications of the helper, the refresh that follows   *)
(* the POST is answered with what was asked for.                           *)
THEOREM PressIsShown == PageSpec => []PressShown
<1>1. PageInit => PressKept
  BY DEF PageInit, PressKept
<1>2. IInv /\ PageTypeOK /\ PressKept /\ [PageNext]_<<vars, page>> => PressKept'
  <2> SUFFICES ASSUME IInv, PageTypeOK, PressKept, [PageNext]_<<vars, page>> PROVE PressKept'
    OBVIOUS
  <2>1. CASE PlaneStep
    BY <2>1, PlaneStepKeepsPress
  <2>2. CASE \E w \in Workers : setControl(w)
    BY <2>2, SetControlKeepsPress
  <2>3. CASE PostFails
    BY <2>3 DEF PostFails, PressKept
  <2>4. CASE (\E r \in Refreshes : PageStep(r)) /\ UNCHANGED vars
    BY <2>4, PageStepKeepsPress
  <2>5. CASE UNCHANGED <<vars, page>>
    BY <2>5 DEF vars, page, PressKept, Undisturbed, Carried
  <2> QED
    BY <2>1, <2>2, <2>3, <2>4, <2>5 DEF PageNext
<1>3. PageTypeOK /\ PressKept => PressShown
  <2> SUFFICES ASSUME PageTypeOK, PressKept, press.at = "followed",
                      call[press.call].at = "answered", NEW set \in press.asked
               PROVE  Displays(call[press.call].state.control, set)
    BY DEF PressShown
  <2>1. press # NoPress
    BY DEF NoPress
  <2> QED
    BY <2>1 DEF PressKept, Carried
<1> QED
  BY <1>1, <1>2, <1>3, PageImplementsPlane, Invariance, PageTypeCorrect, PTL DEF PageSpec
=============================================================================
