-------------------------- MODULE LifecycleProofs --------------------------
(***************************************************************************)
(* No thread of the daemon outlives what it uses, whenever the signal      *)
(* comes, however the threads interleave with main(), and with any number  *)
(* of refused requests and restarts.                                       *)
(***************************************************************************)
EXTENDS Lifecycle, TLAPS

(* There are fourteen objects, the last seven with a thread.               *)
LEMMA Numbers == Last = 14 /\ Objects = 1 .. 14 /\ Threads = 8 .. 14
BY DEF Last, Objects, Threads, Order, FirstThread

(* A thread uses only its own object and ones built before it: the         *)
(* references handed over in main() all point backwards.                   *)
LEMMA UsesEarlier ==
  ASSUME NEW t \in Threads, NEW i \in Uses[t]
  PROVE  i \in Int /\ i <= t
<1>1. t \in {8, 9, 10, 11, 12, 13, 14}
      BY Numbers
<1>2. i \in {1, 2, 3, 4, 5, 6, 7, 8, 9, 10, 11, 12, 13, 14}
      BY Numbers DEF Uses
<1>3. Order[i] \in Refs[t - 7]
      BY <1>1 DEF Uses, FirstThread
<1>4. CASE t = 8
      BY <1>2, <1>3, <1>4 DEF Order, Refs, ControlDataPublisherRefs
<1>5. CASE t = 9
      BY <1>2, <1>3, <1>5 DEF Order, Refs, SmartIoBridgeRefs
<1>6. CASE t = 10
      BY <1>2, <1>3, <1>6 DEF Order, Refs, RslBlinkerRefs
<1>7. CASE t = 11
      BY <1>2, <1>3, <1>7 DEF Order, Refs, GamepadIngestRefs
<1>8. CASE t = 12
      BY <1>2, <1>3, <1>8 DEF Order, Refs, DiagnosticsPublisherRefs
<1>9. CASE t = 13
      BY <1>2, <1>3, <1>9 DEF Order, Refs, MatchControllerRefs
<1>10. CASE t = 14
      BY <1>2, <1>10
<1> QED
    BY <1>1, <1>4, <1>5, <1>6, <1>7, <1>8, <1>9, <1>10

-----------------------------------------------------------------------------
(* The threads of objects below n may run; the others have not begun or    *)
(* are done.                                                               *)
OnlyBelow(n) == \A t \in Threads : thread[t] \in Running => t < n

(* What exists and what runs in each phase of main().                      *)
PhaseInv ==
  /\ main.at \in Int /\ built \in Int
  /\ In("start") => main.at \in Objects /\ built = main.at - 1 /\ OnlyBelow(main.at)
  /\ main.phase \in {"ready", "loop"} => main.at = Last /\ built = Last
  /\ main.phase \in {"stop", "join"} =>
       main.at \in Threads /\ built = Last /\ OnlyBelow(main.at + 1)
  /\ main.phase \in {"destroy", "exited", "aborted"} =>
       \A t \in Threads : thread[t] \notin Running
  /\ In("destroy") => main.at \in Objects /\ built = main.at
  /\ In("aborted") => built = 0

Types ==
  /\ main.phase \in {"start", "ready", "loop", "stop", "join", "destroy", "exited", "aborted"}
  /\ main = [phase |-> main.phase, at |-> main.at]
  /\ DOMAIN thread = Threads

IInv == Types /\ PhaseInv

(* The process starts in the invariant.                                    *)
LEMMA InitIInv == Init => IInv
<1> SUFFICES ASSUME Init PROVE IInv
    OBVIOUS
<1>1. \A t \in Threads : thread[t] \notin Running
      BY DEF Init, NotStarted, Running
<1>2. Types
      BY DEF Init, NotStarted, Types
<1>3. PhaseInv
      BY <1>1, Numbers DEF Init, PhaseInv, OnlyBelow, In
<1> QED
    BY <1>2, <1>3 DEF IInv

(* A step of main() that starts or ends no thread.                         *)
LEMMA MainKeepsThreads ==
  ASSUME IInv, UNCHANGED thread,
         \/ \E i \in Objects : Build(i)
         \/ Ready \/ LeaveLoop \/ RequestStop \/ Join \/ Destroy
  PROVE  IInv'
<1> USE Numbers DEF IInv, Types, PhaseInv, OnlyBelow, In, At, GoTo, FirstThread
<1>1. ASSUME NEW i \in Objects, Build(i) PROVE IInv'
      BY <1>1 DEF Build
<1>2. CASE Ready
      BY <1>2 DEF Ready
<1>3. CASE LeaveLoop
      BY <1>3 DEF LeaveLoop
<1>4. CASE RequestStop
      BY <1>4 DEF RequestStop
<1>5. CASE Join
  <2>1. thread[main.at] \notin Running
        BY <1>5 DEF Join, Joinable, Running
  <2>2. \A t \in Threads : thread[t] \in Running => t < main.at
        BY <2>1, <1>5 DEF Join
  <2>3. CASE main.at = FirstThread
        BY <1>5, <2>2, <2>3 DEF Join
  <2>4. CASE main.at # FirstThread
        BY <1>5, <2>2, <2>4 DEF Join
  <2> QED
        BY <2>3, <2>4
<1>6. CASE Destroy
      BY <1>6 DEF Destroy
<1> QED
    BY <1>1, <1>2, <1>3, <1>4, <1>5, <1>6

(* A step of a thread: one that runs goes on running or is done, and main  *)
(* stays where it is.                                                      *)
LEMMA ThreadsKeepPhase ==
  ASSUME IInv, NEW t \in Threads, thread[t] \in Running,
         NEW to, thread' = [thread EXCEPT ![t] = to],
         UNCHANGED <<main, built>>
  PROVE  IInv'
<1>1. \A u \in Threads : thread'[u] \in Running => thread[u] \in Running
      BY DEF IInv, Types
<1>2. Types'
      BY DEF IInv, Types
<1>3. PhaseInv'
      BY <1>1 DEF IInv, PhaseInv, OnlyBelow, In
<1> QED
    BY <1>2, <1>3 DEF IInv

(* Every step keeps the invariant.                                         *)
LEMMA NextIInv == IInv /\ [Next]_vars => IInv'
<1> SUFFICES ASSUME IInv, [Next]_vars PROVE IInv'
    OBVIOUS
<1>1. CASE \/ \E i \in Objects : Build(i)
           \/ Ready \/ LeaveLoop \/ RequestStop \/ Join \/ Destroy
  <2>1. UNCHANGED thread
        BY <1>1 DEF Build, Ready, LeaveLoop, RequestStop, Join, Destroy
  <2> QED
        BY <1>1, <2>1, MainKeepsThreads
<1>2. ASSUME NEW t \in Threads, Start(t) PROVE IInv'
  <2> USE <1>2, Numbers DEF IInv, Types, In, At
  <2>1. /\ main = [phase |-> "start", at |-> t] /\ built' = t
        /\ main' = IF t = Last THEN [phase |-> "ready", at |-> t]
                   ELSE [phase |-> "start", at |-> t + 1]
        /\ DOMAIN thread' = Threads
        /\ \A u \in Threads : u # t => thread'[u] = thread[u]
        BY DEF Start, GoTo
  <2>2. OnlyBelow(t)
        BY <2>1 DEF PhaseInv
  <2>3. \A u \in Threads : thread'[u] \in Running => u < t + 1
        BY <2>1, <2>2 DEF OnlyBelow
  <2>4. CASE t = Last
        BY <2>1, <2>4 DEF PhaseInv
  <2>5. CASE t # Last
    <3>1. main' = [phase |-> "start", at |-> t + 1]
          BY <2>1, <2>5
    <3> QED
          BY <2>1, <2>3, <2>5, <3>1 DEF PhaseInv, OnlyBelow
  <2> QED
        BY <2>4, <2>5
<1>3. CASE Signal \/ Poll \/ GiveUp
      BY <1>3 DEF Signal, Poll, GiveUp, IInv, Types, PhaseInv, OnlyBelow, In
<1>4. CASE Listen
  <2>1. Ui \in Threads /\ thread[Ui] \in Running
        BY <1>4, Numbers DEF Listen, Ui, Running
  <2>2. PICK to : thread' = [thread EXCEPT ![Ui] = to]
        BY <1>4 DEF Listen, GoOn
  <2> QED
        BY <1>4, <2>1, <2>2, ThreadsKeepPhase DEF Listen
<1>5. ASSUME NEW t \in Threads, ThreadStep(t) PROVE IInv'
  <2>1. /\ thread[t] \in Running
        /\ \E to : thread' = [thread EXCEPT ![t] = to]
        /\ UNCHANGED <<main, built>>
        BY <1>5 DEF ThreadStep, Tick, Finish, Exit, GoOn, Running
  <2>2. PICK to : thread' = [thread EXCEPT ![t] = to]
        BY <2>1
  <2> QED
        BY <2>1, <2>2, ThreadsKeepPhase
<1>6. CASE Abort
      BY <1>6 DEF Abort, GoTo, NotStarted, Running, IInv, Types, PhaseInv, OnlyBelow, In
<1>7. CASE Restart
  <2>1. \A t \in Threads : thread[t] \notin Running
        BY <1>7 DEF Restart, In, IInv, PhaseInv
  <2>2. built = 0
        BY <1>7 DEF Restart, In, IInv, PhaseInv
  <2> QED
        BY <1>7, <2>1, <2>2, Numbers DEF Restart, GoTo, IInv, Types, PhaseInv, OnlyBelow, In
<1>8. CASE UNCHANGED vars
      BY <1>8 DEF vars, IInv, Types, PhaseInv, OnlyBelow, In
<1> QED
    BY <1>1, <1>2, <1>3, <1>4, <1>5, <1>6, <1>7, <1>8 DEF Next, MainStep

(* main() and the threads never leave the invariant.                       *)
THEOREM Invariance == Spec => []IInv
BY InitIInv, NextIInv, PTL DEF Spec

(* No thread ticks on an object that is not built yet or already gone.     *)
THEOREM UsedIsAlive == Spec => []AliveWhileUsed
<1>1. ASSUME IInv, NEW t \in Threads, thread[t] \in Running, NEW i \in Uses[t]
      PROVE  i <= built
  <2>1. t <= built
        BY <1>1, Numbers DEF IInv, Types, PhaseInv, OnlyBelow, In
  <2> QED
        BY <1>1, <2>1, UsesEarlier, Numbers DEF IInv, PhaseInv
<1>2. IInv => AliveWhileUsed
      BY <1>1 DEF AliveWhileUsed
<1> QED
    BY <1>2, Invariance, PTL

-----------------------------------------------------------------------------
(* Which objects hold which topics.                                        *)
LEMMA TopicsOf ==
  ASSUME NEW i \in Objects
  PROVE  /\ SetAtOnce(i) = IF i = 2 THEN {"ServerReady"} ELSE IF i = 3 THEN {"Battery"} ELSE
                           IF i = 4 THEN {"Imu"} ELSE IF i = 12 THEN {"BuildInfo"} ELSE {}
         /\ Published(i) = IF i = 5 THEN {"ControlData"} ELSE SetAtOnce(i)
<1>1. i \in {1, 2, 3, 4, 5, 6, 7, 8, 9, 10, 11, 12, 13, 14}
      BY Numbers
<1>2. /\ Order[i] = "server_ready" <=> i = 2
      /\ Order[i] = "battery" <=> i = 3
      /\ Order[i] = "imu" <=> i = 4
      /\ Order[i] = "control_data" <=> i = 5
      /\ Order[i] = "diagnostics" <=> i = 12
      BY <1>1 DEF Order
<1>3. SetAtOnce(i) = IF i = 2 THEN {"ServerReady"} ELSE IF i = 3 THEN {"Battery"} ELSE
                     IF i = 4 THEN {"Imu"} ELSE IF i = 12 THEN {"BuildInfo"} ELSE {}
      BY <1>1, <1>2 DEF SetAtOnce, ReadyTopics, ImuTopics, DiagnosticsTopics
<1>4. Published(i) = IF i = 5 THEN {"ControlData"} ELSE SetAtOnce(i)
      BY <1>1, <1>2, <1>3 DEF Published
<1> QED
    BY <1>3, <1>4

(* A topic has its value from the moment its object is built until it is   *)
(* destroyed, ControlData only after that; and ready is said in the loop.  *)
TopicInv ==
  /\ built >= 2 => "ServerReady" \in topic
  /\ built >= 3 => "Battery" \in topic
  /\ built >= 4 => "Imu" \in topic
  /\ built >= 12 => "BuildInfo" \in topic
  /\ "ControlData" \in topic => built >= 5
  /\ notified = "ready" /\ ~ signalled => In("loop")

(* Every step keeps the topics with their objects.                         *)
LEMMA NextTopics == IInv /\ TopicInv /\ [Next]_vars => TopicInv'
<1> SUFFICES ASSUME IInv, TopicInv, [Next]_vars PROVE TopicInv'
    OBVIOUS
<1> USE Numbers DEF IInv, Types, PhaseInv, TopicInv, In, At, GoTo
<1>1. ASSUME NEW i \in Objects, Build(i) PROVE TopicInv'
  <2>1. topic' = topic \union SetAtOnce(i) /\ built = i - 1 /\ built' = i /\ i < 8
        BY <1>1 DEF Build, FirstThread
  <2> QED
        BY <1>1, <2>1, TopicsOf DEF Build
<1>2. ASSUME NEW t \in Threads, Start(t) PROVE TopicInv'
  <2>1. topic' = topic \union SetAtOnce(t) /\ built = t - 1 /\ built' = t /\ t \in Objects
        BY <1>2 DEF Start
  <2> QED
        BY <1>2, <2>1, TopicsOf DEF Start
<1>3. CASE Ready \/ LeaveLoop \/ RequestStop \/ Join \/ Restart
      BY <1>3 DEF Ready, LeaveLoop, RequestStop, Join, Restart, notify
<1>4. CASE Destroy
  <2>1. /\ main.at \in Objects /\ built = main.at /\ built' = main.at - 1
        /\ topic' = topic \ Published(main.at)
        BY <1>4 DEF Destroy
  <2> QED
        BY <1>4, <2>1, TopicsOf DEF Destroy
<1>5. CASE Signal \/ Poll \/ GiveUp \/ Listen
      BY <1>5 DEF Signal, Poll, GiveUp, Listen
<1>6. ASSUME NEW t \in Threads, ThreadStep(t) PROVE TopicInv'
  <2>1. CASE Tick(t) \/ Exit(t)
        BY <2>1 DEF Tick, Exit
  <2>2. CASE Finish(t)
    <3>1. t <= built
          BY <2>2 DEF Finish, OnlyBelow, Running
    <3> QED
          BY <2>2, <3>1 DEF Finish, SetInTick
  <2> QED
        BY <1>6, <2>1, <2>2 DEF ThreadStep
<1>7. CASE Abort
      BY <1>7 DEF Abort
<1>8. CASE UNCHANGED vars
      BY <1>8 DEF vars
<1> QED
    BY <1>1, <1>2, <1>3, <1>4, <1>5, <1>6, <1>7, <1>8 DEF Next, MainStep

(* ControlData never stands without ServerReady, Battery and Imu, from the *)
(* first start to the last destructor, and ready is never said before      *)
(* these and BuildInfo are up.                                             *)
THEOREM FullService == Spec => []ServedInFull
<1>1. Init => TopicInv
      BY DEF Init, TopicInv
<1>2. IInv /\ TopicInv => ServedInFull
      BY Numbers DEF IInv, PhaseInv, TopicInv, ServedInFull, In
<1> QED
    BY <1>1, <1>2, Invariance, NextTopics, PTL DEF Spec

-----------------------------------------------------------------------------
(* Every step keeps the types.                                             *)
LEMMA NextTypes == IInv /\ ProcessTypeOK /\ [Next]_vars => ProcessTypeOK'
<1> SUFFICES ASSUME IInv, ProcessTypeOK, [Next]_vars PROVE ProcessTypeOK'
    OBVIOUS
<1> USE Numbers, LifecycleAssumption DEF ProcessTypeOK, In, At, GoTo, Running
<1>0. ASSUME NEW i \in Objects
      PROVE  SetAtOnce(i) \subseteq {"ServerReady", "Battery", "Imu", "BuildInfo"}
      BY TopicsOf
<1>1. ASSUME NEW i \in Objects, Build(i) PROVE ProcessTypeOK'
  <2>1. main' = [phase |-> "start", at |-> i + 1] /\ i + 1 \in 0 .. 14 /\ built' = i
        BY <1>1 DEF Build, FirstThread
  <2>2. topic' = topic \union SetAtOnce(i)
        BY <1>1 DEF Build
  <2>3. /\ server' \in {"bound", "failed", server}
        /\ backend' \in {"libgpiod", "null", backend}
        /\ UNCHANGED <<signalled, stop, thread, notified, client, faults>>
        BY <1>1 DEF Build, ServerOutcomes, BackendOutcomes
  <2>4. topic' \subseteq {"ServerReady", "Battery", "Imu", "ControlData", "BuildInfo"}
        BY <1>0, <2>2
  <2>5. main' \in [phase : {"start"}, at : 0 .. 14]
        BY <2>1
  <2> QED
        BY <2>1, <2>3, <2>4, <2>5
<1>2. ASSUME NEW t \in Threads, Start(t) PROVE ProcessTypeOK'
  <2>1. t \in Objects /\ built' = t
        BY <1>2 DEF Start
  <2>2. PICK p \in {"start", "ready"}, n \in 0 .. 14 : main' = [phase |-> p, at |-> n]
    <3>1. CASE t = 14
          BY <1>2, <3>1 DEF Start
    <3>2. CASE t # 14
      <4>1. main' = [phase |-> "start", at |-> t + 1] /\ t + 1 \in 0 .. 14
            BY <1>2, <3>2 DEF Start
      <4> QED
            BY <4>1
    <3> QED
          BY <3>1, <3>2
  <2>3. topic' = topic \union SetAtOnce(t)
        BY <1>2 DEF Start
  <2>4. /\ thread' \in [Threads -> Running \union {"none", "done"}]
        /\ UNCHANGED <<signalled, stop, server, backend, notified, client, faults>>
        BY <1>2 DEF Start
  <2>5. topic' \subseteq {"ServerReady", "Battery", "Imu", "ControlData", "BuildInfo"}
        BY <1>0, <2>1, <2>3
  <2>6. main' \in [phase : {"start", "ready"}, at : 0 .. 14]
        BY <2>2
  <2> QED
        BY <2>1, <2>4, <2>5, <2>6
<1>3. CASE Ready \/ LeaveLoop
  <2>1. PICK p \in {"loop", "stop"} : main' = [phase |-> p, at |-> 14]
        BY <1>3 DEF Ready, LeaveLoop
  <2>2. notified' \in {notified, "ready", "stopping"}
        BY <1>3 DEF Ready, LeaveLoop, notify
  <2>3. UNCHANGED <<built, signalled, stop, thread, server, backend, topic, client, faults>>
        BY <1>3 DEF Ready, LeaveLoop
  <2> QED
        BY <2>1, <2>2, <2>3
<1>4. CASE RequestStop
  <2>1. ToldToStop(main.at) \in BOOLEAN
        BY Zenon DEF ToldToStop
  <2> QED
        BY <1>4, <2>1 DEF RequestStop
<1>5. CASE Join
      BY <1>5 DEF Join, IInv, PhaseInv, FirstThread
<1>6. CASE Destroy
  <2>1. main.at \in 1 .. 14 /\ built' = main.at - 1 /\ main'.at = main.at - 1
        BY <1>6 DEF Destroy, IInv, PhaseInv
  <2>2. main' \in [phase : {"start", "ready", "loop", "stop", "join", "destroy", "exited",
                            "aborted"}, at : 0 .. 14]
    <3>1. PICK p \in {"exited", "destroy"} : main' = [phase |-> p, at |-> main.at - 1]
          BY <1>6 DEF Destroy
    <3> QED
          BY <2>1, <3>1
  <2>3. topic' \subseteq topic
        BY <1>6 DEF Destroy
  <2>4. server' \in {"none", server} /\ backend' \in {"none", backend}
        BY <1>6 DEF Destroy
  <2>5. UNCHANGED <<signalled, stop, thread, notified, client, faults>>
        BY <1>6 DEF Destroy
  <2> QED
        BY <2>1, <2>2, <2>3, <2>4, <2>5
<1>7. CASE Signal \/ Poll \/ GiveUp
  <2>1. signalled' \in BOOLEAN /\ client' \in {"ServerReady", "ControlData", "ok", "failed"}
        BY <1>7 DEF Signal, Poll, GiveUp
  <2>2. UNCHANGED <<main, built, stop, thread, server, backend, topic, notified, faults>>
        BY <1>7 DEF Signal, Poll, GiveUp
  <2> QED
        BY <2>1, <2>2
<1>8. CASE Listen
  <2>1. PICK to \in {"waiting", "done"} : thread' = [thread EXCEPT ![Ui] = to]
        BY <1>8 DEF Listen, GoOn
  <2>2. thread' \in [Threads -> Running \union {"none", "done"}]
        BY <2>1
  <2>3. UNCHANGED <<main, built, signalled, stop, server, backend, topic, notified, client, faults>>
        BY <1>8 DEF Listen
  <2> QED
        BY <2>2, <2>3
<1>9. ASSUME NEW t \in Threads, ThreadStep(t) PROVE ProcessTypeOK'
      BY <1>9 DEF ThreadStep, Tick, Finish, Exit, GoOn, SetInTick
<1>10. CASE Abort
      BY <1>10 DEF Abort, NotStarted
<1>11. CASE Restart
      BY <1>11 DEF Restart, NoStops
<1>12. CASE UNCHANGED vars
      BY <1>12 DEF vars
<1> QED
    BY <1>1, <1>2, <1>3, <1>4, <1>5, <1>6, <1>7, <1>8, <1>9, <1>10, <1>11, <1>12
    DEF Next, MainStep

(* The variables keep their types: no index of main() leaves the objects.  *)
THEOREM TypeCorrect == Spec => []ProcessTypeOK
<1>1. Init => ProcessTypeOK
  <2> SUFFICES ASSUME Init PROVE ProcessTypeOK
      OBVIOUS
  <2>1. signalled \in BOOLEAN /\ stop \in [Threads -> BOOLEAN]
        BY Zenon DEF Init, NoStops
  <2>2. main \in [phase : {"start"}, at : 0 .. Last] /\ built \in 0 .. Last
        BY Numbers DEF Init
  <2>3. thread \in [Threads -> {"none"}] /\ topic = {} /\ faults \in 0 .. MaxFaults
        BY LifecycleAssumption DEF Init, NotStarted
  <2> QED
        BY <2>1, <2>2, <2>3 DEF Init, ProcessTypeOK
<1> QED
    BY <1>1, Invariance, NextTypes, PTL DEF Spec
=============================================================================
