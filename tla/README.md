# Verification of pi5-system-surrogate

The daemon in `src/daemon` stands in for the FRC system server on a Raspberry Pi 5. A robot
program's HAL connects to its NetworkTables (NT4) server and obeys what it publishes, above all
`/Netcomm/Control/ControlData`: enabled or not, mode, alliance, emergency stop, match time. An
operator controls that through a web page, a helper laptop through `/dev/control/*` topics, and a
practice match runs by the clock. All of them write one `DaemonState` from different threads. The
daemon also drives GPIO lines for the HAL's `/io/*` topics and a signal light.

The project models the daemon's own logic in TLA+, model-checks it with TLC and proves the main
safety results with TLAPS.

## Inventory

| Component | State | Operations | Talks to |
| --- | --- | --- | --- |
| `control_data_encoder` | none | pack the ControlWord, encode | HAL, through the wire |
| `DaemonState` | enabled, mode, alliance, e_stop, match_time_s under one mutex | five setters, `snapshot_control` | everybody below |
| `ControlDataPublisher` | cadence ring, time of the last period | every 20 ms: record interval, snapshot, encode, send | `DaemonState`, NT |
| `MatchController` | phase_, match_start_, phase_start_ under mu_ | `start_match`, `stop_match`, `skip_to_teleop`, `tick` (50 ms), `snapshot` | `DaemonState`, web UI |
| `GamepadIngest` | last value seen of each `/dev/control` topic, first_tick_ | `tick` (20 ms): read, compare, set | NT, `DaemonState` |
| `WebUI` | httplib server, listener thread, worker threads; in the browser, what the page shows | GET state and health, POST control and match, start, stop; the page's refresh once a second | `DaemonState`, `MatchController`, `SmartIoBridge`, cadence |
| `SmartIoBridge`, `SmartIoChannel` | per channel: mode_, last_output_, last type and valset seen | `tick` (20 ms): type, valset, sample | NT, GPIO backend |
| GPIO backends | map of held lines | release, request, set, get | kernel |
| `RslBlinker` | the signal light's line and last level | `start`, `stop`, 20 ms blink step | `DaemonState`, GPIO backend |
| `CadenceTracker` | ring of 1024 intervals, sorted cache, epoch | record, percentiles | publisher writes; diagnostics, web UI, main read |
| `DiagnosticsPublisher` | heartbeat | 1 Hz `tick` | cadence, NT |
| `ImuPublisher`, battery | topics with a constant value | publish in the constructor | NT |
| `run_periodic` | deadline | the loop all periodic threads run | stop tokens |
| `main` | stop flag | start-up order, idle loop with watchdog, shutdown order | everything |

What is hard here: mutexes that cover one setter while an operation makes several; clock readings
taken before a lock and used after it; a first tick that applies defaults; ticks that come late;
three independent writers of the same fields; a helper or a HAL whose connection drops, so that a
subscriber returns its default; a page put together from two snapshots and refreshed by responses
that overtake each other, also after a button that has to be seen to work; two threads on an unsynchronised line map and on the cadence ring; topics
that live as long as the object that publishes them. `PROJECT.json` lists these hazards with their
lines.

What makes each part correct:

- encoder: fields do not overlap, DsConnected is always set, the watchdog bit follows Enabled, no
  state encodes to nothing;
- `MatchController`: phases stand on the timetable whatever the lateness of the ticks, match time
  neither hides time left nor survives its period, a match ends;
- the writers of `DaemonState` together: a running match prevails over interference, a manual
  setting sticks when nobody else has anything to say, the last word reaches the HAL, what the
  helper commands is not lost, and a match that is over does not enable the robot again;
- web page: a button is seen to have worked, and the page comes to show what is, whatever old, torn or
  failed responses came before;
- SmartIo: a line is held exactly when its channel is configured, an output shows the last valset, a pin
  changes direction only by way of being free, and a HAL that goes away moves none;
- cadence: a window of the last N intervals, and a percentile is the one of that window;
- `run_periodic`: deadlines neither drift nor get lost, a stop is heard;
- `main`: no thread outlives what it uses; a client is served, and who sees ControlData also sees what
  `main` publishes once and for all (ServerReady, battery, IMU); a signal ends the process.

## Modules

| Module | Models | Correspondence |
| --- | --- | --- |
| `ControlData` | `control_data_encoder`, `DaemonState` | `pack_control_word`, `encode_control_data`, `snapshot_control` are operators on records with the source's field names; bit fields are sums of disjoint powers of two. The `Word...` operators are what the HAL reads back (external). |
| `MatchPhases` | `MatchPhase`, the switches of `tick` and `apply_phase` | pure |
| `MatchTimes` | `MatchDurations`, `duration_for`, the rounding of `publish_match_time` and `snapshot` | integers in one unit, `Second` units to a second and `Millisecond` to a millisecond; the periods are whole milliseconds |
| `MatchController` | `match_controller.cpp` in real time | `call[t]` is the argument `now` that thread t has read before taking `mu_`; each body is one action |
| `MatchSchedule` | the promise | phase, match_start and phase_start only: a match may start, stop, skip, and move to the next phase, and a phase begins when the timetable says |
| `ControlPlane` | all writers and readers of `DaemonState` | one step per setter, per subscriber read and per snapshot; `todo[t]` is what a thread has still to write, `mu` the holder of `mu_` |
| `WebPage` | the script of `kRootHtml` and `handle_state`, over `ControlPlane`'s writers | `content` is what the page shows; `call[r]` is a refresh under way: sent, with `DaemonState`'s snapshot, or answered; `press` is the last `setControl`: its POST under way, or followed by its refresh (`FollowUp`); a fetch may fail at any point |
| `SmartIo` | `SmartIoBridge`, `SmartIoChannel`, libgpiod backend, `RslBlinker` | `bridge` is the bridge thread's place in `tick`, one step per access that another thread can see; `hal` is what the HAL has published, `topics` what the server holds of it; a request, `set_value` or `get_value` the kernel refuses ends the process and `Restart` begins again with empty topics; a HAL that drops takes its topics along |
| `PinRules` | the promise of a bank of channels | what each channel is being told, the direction it has turned to, its level and its pin, without saying when anything happens: a channel that is told nothing turns to nothing and keeps its level |
| `Cadence` | `CadenceTracker`, the publisher that records, the diagnostics tick, `/healthz`, `/api/state` and `main` that read | `refresh_sorted` in three steps (copy, sort, epoch); `history` is every interval recorded, for the properties only |
| `CadenceWindow` | the promise of a tracker | the last `Capacity` intervals in order; an answer is the percentile of those |
| `Sorting` | what `std::sort` promises | the permutations that put the first n entries of an array in order; pure |
| `PeriodicTask` | `run_periodic` | `pc` is the line the thread is at, time counts from the reading of the clock before the loop |
| `Lifecycle` | `main`, every `start()` and `stop()`, `NtServer`, the constructors that publish, the datagrams of `linux_runtime`, `check_server_ready` | objects are numbered in the order of their construction (`Order`), `Refs` are the reference members of each class; a thread is starting, waiting, ticking or done; `topic` holds the topics with a value, which go with their publisher; `notified` is what systemd was last told, by a datagram that may not have been sent |
| `MatchControllerProofs`, `ControlPlaneProofs`, `SmartIoProofs`, `CadenceProofs`, `SortingProofs`, `PeriodicTaskProofs`, `LifecycleProofs`, `WebPageProofs` | theorems | see below |
| `MC*` | constants for TLC | |

How `Lifecycle` relates to the others: `Lifecycle` takes each thread as the loop `PeriodicTask` models in full;
what a tick of that thread does is `ControlPlane`'s, `SmartIo`'s or `Cadence`'s business.

Two constants choose between what a class expects and how the daemon uses it. `RaceOutcomes` of
`SmartIo` says how an operation of the blinker on `lines_` may end while the bridge is changing that
map: with {"done"} as if there were a lock, with {"done", "lost"} as the data race there is (a
lookup may miss its entry). Only the blinker's side of the race is modelled: its operations are the
ones that are not repeated. The lock-free setting is not a lock of the code; it only shows what the
disagreement of `signal_light_race` hangs on. `Exclusive` of `Cadence` says whether calls exclude each other, as the
class demands, or interleave, as `main.cpp` wires them.

Further abstractions: percentiles are per mille instead of double; the epoch does not wrap; `RslTick`
may find itself in either half-period; in `Lifecycle` a client may give up at any time, the NT4
server and the web listener may fail to bind, and httplib's `stop` does nothing before `listen` is
entered (version 0.18.5, as the build fetches it). A signal before `main` has installed its handlers is left out.

`ControlPlane` leaves the clock out: a running phase may expire at any tick, with any match time up
to `MaxSeconds`. `MatchController` leaves the grain of `DaemonState`'s mutex out. Each covers what
the other abstracts, and both take phases from `MatchPhases`. `WebPage` leaves out the publisher,
which writes nothing the page reads, and the times, counts and cadence figures of the response.

Three modules are abstract specifications, and a run checks that the detailed module implements
each: `MatchSchedule` by `MatchController` (`FollowsTimetable`), `PinRules` by `SmartIo`
(`KeepsPinRules`) and `CadenceWindow` by `Cadence` (`AnswersExactly`). The mapping of `SmartIo`
hides the modes, the words seen and the place in the tick; that of `Cadence` hides the ring, the
sorted copy and its epoch. All three implementations are also proved, the third for calls that
exclude each other.

Definitions whose comment begins with "Mutant" are altered versions of the definition
that follows them. No specification uses them; each makes one property fail when it is put in its
place, which shows that the property depends on that line of the code.

## Runs

| Run | Question | Bounds |
| --- | --- | --- |
| `match` | can stale `now`s, late ticks or command races move a phase off the timetable, hide time left, or leave a match time behind? is the timetable implemented? does a started match end? | two handler threads and the ticker, periods 2/2/4 with 4 units to a second and 2 to a millisecond, so both roundings matter; commands up to instant 3, clock up to 12: past the end of a match begun last |
| `plane_match` | match operations, setter by setter, against manual control and the publisher: stale match time, invalid words; does every running phase come to show on the wire, and can a match that is over enable the robot again? | two workers, two inputs |
| `plane_manual` | web requests with several and out-of-range fields against a helper that may drop out: do types hold, do manual settings stick, does the last state reach the HAL and what the helper commands `DaemonState`? | two workers, three inputs |
| `web_page` | does the refresh after a button's POST bring what the button asked for? does the page come to show `DaemonState` and the phase, over torn snapshots, responses that overtake each other and a failed fetch? | two refreshes under way at once, one failed fetch, one worker, an emergency stop set or cleared twice; from a daemon just started and from the middle of a match (`InTeleop`, a state `skip_to_teleop` leads to), where the tick thread keeps writing |
| `smartio` | does every line follow its channel's last type and valset, over flips, repetitions, unsupported types, a refused operation or a lost HAL connection, a restart and the race on the line map? are the rules for pins kept, by which only a word the HAL is holding moves one, and only inputs sampled? does every pin come to be what the HAL asked for? | two channels, three publications, types 0, 1 and 4, one refusal or lost connection, one change of enabled |
| `cadence_exclusive` | does the ring with its lazily sorted copy implement the window, and is every percentile an interval that was recorded? | ring of three, filled and wrapped, intervals 0 to 2 (a tick of a backlog comes within the same microsecond); readers with the percentiles and the order of the diagnostics tick, `/healthz` and `/api/state`; `main` reads the same two as `/api/state`, at shutdown |
| `periodic` | drift, lost deadlines, ticks after a stop, stops that are not heard | period 3, clock to 12: pauses of up to four periods |
| `lifecycle` | can a thread touch an object not built or already destroyed? can ControlData be up without ServerReady, battery and IMU, or READY be said before them? is a client served, does a signal end the process? | all fourteen objects, a signal at any moment, one abort |

Runs that are expected to fail document a disagreement between the code and what the repository
says of it; each is a finding in `PROJECT.json`:

| Run | What happens |
| --- | --- |
| `estop_latch` | the helper clears an emergency stop, which the design says only the web UI resets |
| `signal_light_race` | a `set_value` lost in the race on `lines_` is not repeated: the light stays dark on a disabled robot; with `RaceOutcomes` = {"done"} the property holds |
| `cadence_shared` | a reader and the publisher at once: a percentile that was never recorded |
| `signal_at_start` | a signal during start-up: `ui.stop()` comes before `listen`, and `join` never returns |

Disagreements between the documentation and the code that were met on the way and that reading the
lines shows as well as a run would:

- the web UI writes `DaemonState` (`web_ui.cpp:183`) and not the topics `daemon-design.md:171` calls
  the source of truth;
- `MatchEnded` is "disabled, terminal" (`match_controller.hpp:17`), but `tick()` keeps nothing so;
- the helper's alliance is packed unclamped (`gamepad_ingest.cpp:60`), against "0-3 on the wire"
  (`daemon-design.md:128`);
- `apply_phase` enables before it sets the mode (`match_controller.cpp:54`): a snapshot between the
  two sends an enabled robot mode Unknown;
- a tick with a `now` read before `start_match`'s publishes more seconds than the period has, until
  the next tick (`match_controller.cpp:79`), against "seconds remaining in the current Auto or Teleop
  period" (`match_controller.cpp:73`);
- a helper that drops out only has its topics fall back to their defaults: that disables a robot the
  helper had enabled and no other (`gamepad_ingest.cpp:50`), and withdraws an emergency stop of its
  own; the empty `JoystickDescriptors` of `daemon-design.md:277` are not published;
- a valset that comes while the channel is no output is remembered in `last_output_`
  (`smartio_state.cpp:46`) and driven when the channel becomes one; `smartio_state.hpp:33` says "dropped
  silently", the comment at `smartio_state.cpp:48` "dropped — HAL re-emits next cycle", and
  `daemon-design.md:320` "dropped + logged at debug". Dropping it would lose it, for the bridge passes a
  value on only when it changes (`smartio_bridge.cpp:58`); `PinFollowsWords` and `PinRules` state what
  the code does;
- `MatchInfo`, `JoystickDescriptors` and `HasSetWallClock` are never published, against
  `daemon-design.md:119-121` and `259`; `ServedInFull` is about the topics `main` does publish;
- "skipping to the next aligned slot" (`periodic_task.hpp:17`) reads as if missed ticks were left out;
  the sentence after it and the code fire once per missed deadline (`CatchesUp`);
- a flip is not atomic (`smartio_state.cpp:34`): there is no per-channel mutex (`daemon-design.md:314`);
- the idle loop feeds the watchdog (`main.cpp:141`), not the publisher's tick (`daemon-design.md:339`),
  and the unit file has neither `Type=notify` nor `WatchdogSec`;
- a failed NT4 bind is not noticed (`nt_server.cpp:11`), against "Fatal" (`daemon-design.md:275`).

Bounds. Inputs are counted (`MaxInputs`), because an operation in flight, one that overtakes it and
one that follows are what the races here need; threads beyond two workers only repeat the roles of
those. Where a proof exists (below) no bound matters. `IntModulus` is 32
in the runs, so that a helper's alliance of 20 wraps; the proofs take any multiple of 16.

Fairness. `run_periodic` threads are scheduled by the kernel, so each has weak fairness on its step;
a handler that has begun gets its mutex and finishes. Operators and the helper have none: nobody
owes the daemon an input. In `MatchController` time passes (weak fairness on the clock). In
`ControlPlane` nothing makes a phase expire, since `TickReassert` satisfies the ticker's fairness:
`MatchShown` therefore says "shows on the wire or ends".
In `WebPage` the interval keeps firing, handlers run and responses that do not fail arrive (weak
fairness); `match_.snapshot()` competes for `mu_` with a tick thread that takes it for microseconds
every 50 ms, so it has strong fairness: a mutex asked for again and again is got.
In `SmartIo` NT4 delivers the latest value of a topic, the bridge and the blinker are scheduled, and
systemd restarts the daemon (`Restart=on-failure` in its unit file); the HAL owes nothing. In
`PeriodicTask` time passes and the thread is scheduled; in `Lifecycle` main and every thread are, a
tick returns, systemd restarts an aborted daemon it has not been told to stop, and
the client polls. Deadlock is checked except in `PeriodicTask` and `Lifecycle`, whose thread and
process end.

## Proofs

`MatchControllerProofs`, for every set of callers, all durations (0 included) and every bound. The
inductive invariant adds to the type invariant that every `now` a thread holds is past
(`CallsArePast`), that a phase has begun (`NeverEarly`), that `phase_start - match_start` is the
phase's place on the timetable, that the match time is 0 outside the enabled phases, and that it
covers the time left. That the periods are whole milliseconds keeps the timetable of what `snapshot`
shows. `CallsArePast` is what makes the last one inductive: a tick with an old `now`
publishes at least what is left now. From it follow `TypeCorrect`, `NoDrift`, `MatchTimeCleared`,
`TimeLeftCovered`, and `Refinement` (every step maps to a step of `MatchSchedule` or a stutter).

`ControlPlaneProofs`, for every set of workers, all request bodies and helper values of the right
type, every bound and every word width that is a multiple of 16 values. `PackRoundTrip` shows that
the HAL reads back each field of the packed word. The inductive invariant says that the thread
holding `mu_` is the only one with phase writes outstanding and that those still end in the match
time that fits the phase; that the other threads' writes do not touch the match time; and that a
message on the wire has been encoded from a view with DsConnected. From it follow `TypeCorrect`,
`MatchTimeCleared`, `WireAlwaysValid` and the action property `ManualSticks`. `StopFinal` needs one
thing more: every write of `enabled` that the holder of `mu_` has still to make is the one of the phase
(`HolderFollowsPhase`), so that a holder can enable the robot only while a match runs.

`SmartIoProofs`, for any number of channels, any types and values, every bound and both race outcomes.
`PinFollowsWords` speaks of channels at rest and is not inductive; the invariant adds that `mode_` and
`last_output_` are what the last words stand for (`WordsApplied`), how far a flip has come
(`FlipUnderWay`: after the release the line is free, after the request it is the new one) and that a
dead process holds no line (`LinesReleased`). From it follow `TypeCorrect`, `PinsFollow`, the
action property `OnlyInputsSampled`, and `PinRulesKept`: every step maps to a step of `PinRules` or a
stutter. `FlipUnderWay` is what that needs: the line that is requested is free, and a flip under way is to
the direction the channel has turned to.

`CadenceProofs`, for every capacity and any readers. Exclusive or not: `RingExact` and `TypeCorrect`.
The invariant adds the ring's type and that `next` is the number of intervals recorded modulo the
capacity (`NextIsNumber`). The readers write only the sorted copy, so the ring is exact even in the
race. For the types it adds that a read which has begun has samples (`HasSamples`): with lemmas that
the index is one of the first `count` places and that sorting permutes those, no read leaves the array,
race or not.

With calls that exclude each other: `ExclusiveExact`, every step of the tracker maps to a step of
`CadenceWindow` or a stutter. The invariant `XInv` adds that one read is under way at a time, how far it
has brought the copy (`Refreshed`: after the copy the entries are the ring's, after the sort they are
the ring's in order), and that a copy whose epoch is the current one is the ring's samples, each once,
in ascending order (`CopyIsCurrent`). It is stronger than `AnswersExactly` asks at rest, because the
early return for an unchanged epoch relies on what an earlier reader left behind; that the epoch only
grows is what makes a recorded interval outdate the copy. From there the argument is about positions:
the slots in use are a permutation of the last `count` numbers (`SlotOfIsBijection`, by quotients and
remainders), so the copy is a permutation of the window, and the entry at place k of a sorted
permutation is its percentile (`RankOfSorted`). `ExclusiveRecorded` follows from the same invariant; it is
the property `cadence_shared` refutes without exclusion.

`SortingProofs`, for arrays of every size: `SortingExists`, that an order can always be reached, without
which `CHOOSE` in `Ordered` would say nothing, and `RankOfSorted`. The induction over the size goes by
the least size for which it fails (`LeastNumber`), since no prover here can instantiate the library's
induction rule; the step inserts the last entry into the sorted others (`Inserted`).

`PeriodicTaskProofs`, for every period: `CadenceKept`, `StopIsHeard` and `TypeCorrect`. The invariant
adds that between the sleep and the tick the deadline has passed (`DeadlinePassed`) and where a late
tick can stand (`StopStage`). That the number of ticks stays within its bound follows from the cadence
and a lemma on quotients (`QuotientBound`).

`LifecycleProofs`, for any number of refusals and restarts: `UsedIsAlive`. `UsesEarlier` shows that
every reference in `main` points to an object built before; the invariant `PhaseInv` says what exists
and what may run in each phase: while `main` stops or joins object n, only threads up to n run, and
none does once destruction begins. `FullService` rests on it through `TopicInv`: ControlData has a
value only while its publisher's objects exist, every object below it has set its topics, and
destruction takes the topics away from the top. `TypeCorrect` follows from the same parts.

`WebPageProofs`, for any number of refreshes under way, any requests and any number of failures.
`PageImplementsPlane`: the composition of page and writers implements `ControlPlane`, so the theorems of
`ControlPlaneProofs` hold of it; `PageTypeCorrect` uses the types of `DaemonState` from there.
`PressIsShown` says that the refresh after a button's POST brings the values asked for. It is about the
fields nobody else was about to write when the POST came (`Settled`), until the next input. The invariant
`PressKept` says that such a field stays undisturbed (`Undisturbed`: every write of it still to come is the
one asked for, and as long as `DaemonState` has another value the worker has that write to make), and that once the POST is answered the refresh that follows carries it through both snapshots
(`Carried`). The tick thread is the case that needs an argument: it writes enabled, mode and match time
only, and while no match runs nothing at all.

Assumptions are only on constants: `DurationsAssumption`, `CallersAssumption`, `BoundsAssumption`,
`InputsAssumption`, `ControlPlaneAssumption`, `PageAssumption`, `SmartIoAssumption`, `CadenceAssumption`,
`PeriodicAssumption`, `LifecycleAssumption`. TLC evaluates them on every run.

Only model-checked: everything under fairness (`MatchTerminates`, `MatchShown`, `LastWordIsSent`,
`HelperHeard`, `PageSettles`, `PhaseSeen`, `HalObeyed`, `StopEnds`, `CatchesUp`, `ClientServed`,
`ShutdownEnds`), since TLAPS does not reason about ENABLED; and the runs that document findings. Every
invariant, action property and implementation that a passing run checks is also a theorem.

## Not modelled

- The nanopb byte encoding, NT4 transport, cpp-httplib and libgpiod: libraries, seen only through
  what the daemon's code expects of them.
- HTML, JSON, form parsing: a request is the set of its fields and the numbers `from_chars` found. Of
  the page, the times, the counts (`channels_configured` too) and the layout.
- The values of the IMU and battery topics and the build information: constants. The heartbeat of the
  diagnostics: a counter of its own ticks.
- `mlockall`: a system call on whose outcome nothing depends. The watchdog's datagrams: the idle loop
  sends them whatever the other threads do, so they tell systemd only that `main` loops.
- `RslBlinker::stop`'s release of its line, which at shutdown may race with the bridge on `lines_`:
  the process is about to end, and what else the race does to the map is undefined behaviour.
- The tracker's p999 and maximum, which nothing in the daemon reads.
- `nt_smartio_test`, image scripts, HAL port, sample robot, CI.

## Plan

The order follows the weight of what can go wrong: what the robot is told, then its pins, then the
daemon's frame.

1. Done: the control plane (`MatchController` against `MatchSchedule`, `ControlPlane`), with proofs.
2. Done: `SmartIo` with the backend and the signal light, with proofs.
3. Done: `Cadence`, `PeriodicTask`, `Lifecycle`, with first proofs.
4. Done: the web page and the GET handlers (`WebPage`, the readers of `Cadence`).
5. Done: the abstract specifications `PinRules` and `CadenceWindow`, implemented by the detailed ones.
6. Done: a helper and a HAL that drop, the topics' lives and the notifications in `Lifecycle`; the type
   invariants of `PeriodicTask` and `Lifecycle` as theorems.
7. Done: `Cadence` implements `CadenceWindow`, and its types, as theorems; the page over the plane.
8. Perhaps: the blinker's `stop` and the bridge's side of the race on `lines_` at shutdown.
