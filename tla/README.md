# A TLA+ verification of HardwarePanel

HardwarePanel is a Windows service that samples hardware telemetry once a second
and switches configuration profiles, and a Qt client that shows both. The two
talk gRPC, over a named pipe or over loopback TCP. This directory models the
service and the client in TLA+, checks the models with TLC and proves the central
results with TLAPS. Paths below are relative to the root of the repository.

## 1. The system

| Part | State | Operations | Properties that make it correct |
|---|---|---|---|
| `RingBuffer` (`libs/core/.../ring_buffer.h`) | circular vector, head, count | Push, LastN, All, Clear | always the latest values, in order |
| `TelemetryHub` (`libs/core/src/telemetry_hub.cpp`) | history, weak list of subscribers, a bounded queue for each | Publish, Subscribe, Pop, Close, History | loses only what a full queue drops; never blocks the producer |
| `TelemetryServiceImpl` (`apps/hwpanel-service/grpc`) | one handler thread per stream, decimation counter | Subscribe, GetHistory | paced streams, handlers that end |
| `EventBus` (`libs/core/src/event_bus.cpp`) | a bounded queue per subscriber | Publish(Now), Subscribe, Pop, Close | each event once, in an order real time explains |
| `ProfileStore` (`libs/core/src/profile_store.cpp`) | `<id>.json`, `active.json` | List, Get, Save, Remove, ActiveId, SetActiveId, EnsureDefaults | a profile or an active id is old or new, never half written |
| `ProfileManager` (`libs/config/src/profile_manager.cpp`) | one mutex, executors, store; the watch thread | SwitchTo, List, ActiveId, Start/StopFileWatch | a switch happens completely or not at all, and says so; changed files are announced; the watch ends when told to |
| executors (`plugins/executors`) | the hardware itself | CurrentValue, Apply, Available | what was read can be restored |
| `CollectorPipeline` (`plugins/collectors/pipeline.cpp`) | flag, thread, collectors | Start, Stop, Loop | one thread, none after Stop |
| `ServiceHost` (`apps/hwpanel-service/service_host.cpp`) | server, pipeline, watch, `running_`, `paused_`, endpoint | Start, Stop, PauseCollectors, ResumeCollectors, StateName | what it reports is what it does |
| `ServiceController` (same directory) | reported SCM state, `state_mutex_`, request flags, exit event | ServiceMain, FinalizeStart, control handler | no control is lost or overwritten, STOP ends in STOPPED |
| `RunConsole` (`main.cpp`) | stop event | Ctrl+C, wait | ends when asked |
| `ChannelManager` (`libs/core/src/channel_manager.cpp`) | channel, state, monitor thread | Start, Stop, MonitorLoop | reports each change of state, reconnects |
| `ClientWorker`, `ConnectionStatus` (`apps/hwpanel-client/backend`) | two stream threads, a request thread | loops, RefreshProfiles, SwitchProfile | streams resume; an answer is not taken for another |
| client models and chart (same directory) | series of 60 points, 50 notifications, profile list | Append, SetProfiles, Clear, updatePaintNode | the latest, in order, drawn inside the chart |
| collectors (`plugins/collectors`) | PDH counters, NVML handle, WMI failure count | Collect | a sample has what Windows offers |
| conversion, sinks, endpoint, QML | none, or Windows' own | | adapters |

How they interact: the pipeline thread calls `TelemetryHub::Publish` each tick;
each open `Subscribe` stream is a gRPC handler thread that pops from its own
queue. `SwitchProfile` requests run `ProfileManager::SwitchTo` in handler threads
under one mutex; it calls the executors and the store and publishes an event on
the event bus, as the file watch does from a thread of its own; each `WatchEvents`
stream is a handler thread with a queue. The client has one thread per stream and
one for requests, and hands what it gets to models on the GUI thread.
The SCM's dispatcher thread and the ServiceMain thread both drive `ServiceHost`,
which owns everything else.

What is hard: the fan-out runs outside the hub's lock while streams come and go;
a transaction over hardware that can refuse any step, its own rollback included,
while the process may die and others change the same hardware; controls that
arrive during a slow start; threads that are joined under a mutex; reads of
values another thread has not written yet; two threads that publish with
timestamps taken outside the lock; a directory watch that is stopped between two
reads; a process that dies between writing and renaming a file; a client that
gives up on a switch which the service then carries out. The list with the lines is
`hazards` in `PROJECT.json`.

## 2. The modules

### RingBuffer, BoundedHistory, RingBufferProofs

`RingBuffer` is the C++ class: `buf`, `head`, `total` are `buf_`, `head_`,
`total_`; each method holds the mutex throughout, so it is one action (`Push`,
`Clear`) or one operator (`LastN`, and `Contents` for `All`). `BoundedHistory` is
what a user may rely on: a window of the latest `Capacity` values. The refinement
maps the window to `LastN(Size())`. `RingSpec` is the class by itself, with `Clear` at
any moment; no code of the repository calls `Clear`, so the proofs cover it and the
runs do not.

### TelemetryHub, TelemetryHubProofs

A sample is the number of its tick. `Publish` is four actions because it is four
critical sections: `PublishHistory` (line 40), `PublishCollect` (42-53), one
`Deliver(s)` for each live subscriber (54-64), `PublishReturn`. A stream's
handler is `Subscribe`, then the loop `CheckCancelled`, `PopSample` or
`PopTimeout`, `WriteOk` or `WriteFails`, and `Close`. The module extends `RingBuffer`:
`history_` is the ring itself, `PublishHistory` its `Push`, and `GetHistory` its
`LastN`. `first`, `dropped` and `lastSent` are observers.

### EventBus, FileWatch, FileWatchProofs

`EventBus` is the same fan-out with several publishers. An event is the number of
its timestamp: `PublishNow` reads the clock outside any lock, then `Collect`,
`Deliver` for each subscriber and `PublishReturns` follow as critical sections of
their own, interleaved with those of the other publisher and with the
`WatchEvents` handlers (`CheckCancelled`, `Pop`, `Write`, `Close`). The observers
are the log of what went into each queue, what a full queue lost, what was
written, and which events were in flight when an event was stamped.

`FileWatch` extends it with the watch thread, one action for each step of
`WatchLoop` and of `StopFileWatch`. The overlapped read is `io`; `kernel` is the
buffer in which Windows keeps the changes between two reads of the same handle.
It may overflow once it holds something, and the read after that completes with
zero bytes. `SwitchTo` is here only a thread that publishes. `hEvent` is false when
`CreateEventW` failed, which nobody checks: `CancelIoEx` is then skipped, every wait
fails at once, and no change is announced (a premise of `ChangeAnnounced`).

### ProfileManager, Executors, AtomicSwitch, ProfileManagerProofs

`SwitchTo` is cut at each call that leaves the manager: `Lock`, `GetProfile`,
`ProfileNotFound` or `GetThrows` (a field of the wrong type), then for each key `NoExecutor`, or `Snapshot` and
`ApplySetting` or `ApplyFails`; `RollBack` for each applied key in reverse, then
`SwitchFails`; or `SetActiveId` and `SwitchSucceeds`. The two rollback loops of
the source are identical, and one action stands for both. Keys are numbers in
`std::map` order. What an executor does is a parameter of the module
(`ReadOutcomes`, `ApplyOutcomes`); `Executors` supplies the two of the program,
with Windows' refusals as choices. `SetActiveId` leaves on disk the new id, the
old one (nothing could be written) or an unreadable file, read as empty.

A rollback hands `Apply` the text that `CurrentValue` printed, so `Executors` models
printing and reading character by character: a text is a sequence of numbers, of which
0..15 are the hexadecimal digits. `GuidToString` prints the eleven fields with all
their digits and the dashes; `ParseGuid` scans as `sscanf_s` does, one field of at most
its width after the other (`ScanField`), and fails when a field or a dash is missing;
`ToDecimal` and `Atoi` are `std::to_string` and `std::atoi`. Levels are 16-bit numbers:
`CurrentValue` prints any, `Apply` refuses those over 100 (`InRange`).

`Environment` adds what the machine does behind the service's back: changed
hardware, changed files, and a crash after any step. `before`, `unrestored`,
`disturbed` and `committed` are observers: the hardware at the beginning of the
transaction, the keys whose snapshot does not stand for that state or whose
rollback failed, the keys others changed, and the last profile that reached
`SetActiveId`.

`AtomicSwitch` is the promise: one step takes the hardware from one profile to
another, and a switch that fails changes nothing, except that a key found in a state
the executor cannot set (`Settable`; here a level over 100) may stay as the profile
has it (`FailedSwitch`). The refinement mapping `VisibleHw` shows, while a transaction is
undecided, the hardware as the transaction found it.

### ProfileStore, ProfileSession, ProfileSessionProofs

In `ProfileStore` a file is the version of its contents: absent, torn (does not
parse), ill (a field is of another type than the code expects), or good. `Save` and `SetActiveId` are the same three steps (`OpenTmp`, `WriteTmp`,
`Rename`), each of which may fail; nobody checks the stream after writing, so a
write may also fall short. `EnsureDefaults` and `SeedNext` are the startup, which
a crash may interrupt anywhere; the SCM restarts the process. Others may edit or
remove profiles and `active.json`, into which they may put an earlier id. `mishaps` bounds all of this and `faults` observes what happened.

`ProfileSession` puts the two RPCs and a client on top: handler threads that run
`ListProfiles` (list and active id under two separate locks) and `SwitchTo`
(abstracted to its outcome and its `SetActiveId`; the transaction itself is in
`ProfileManager`), and the one request thread of `ClientWorker`, which may give up
on any call at any time while the handler goes on. `ProfilesReceived` is
`ProfileModel::SetProfiles`.

### Collectors, TelemetryPath, TelemetryPathProofs

`Collectors` has the three collectors as operators from what Windows answers in
one turn to the metrics they report, with the counter of WMI failures as state;
any one call may fail and any collector may throw a `std::exception`. What `Loop`
does not catch (a `_com_error` from a `_bstr_t` of the WMI collector) ends the process
and is `ServiceDies` in `TelemetryPath`, which follows a sample from the collectors on:
the filter of `ToProto`, the samples on their way in the order they were sent (`wire`),
of which any may be lost and the last ones die with the service, and the
GUI thread's `HandleSample` (`Routed` says which series gets which values), the
notification list, and as operators the geometry of `LineChart`. Chart
coordinates are kept as fractions. The loops over a sample that append and add up
are recursive functions (`AppendAll`, `Total`), so that they can be proved about.
`points`, `taken` and `notified` are observers.

### ServiceHost, ServiceControl, ServiceControlProofs, ConsoleMode

`ServiceHost` holds the methods of the host and of the pipeline, in steps taken
by the thread that calls them (`call[c]` is the program counter), and the
pipeline thread's `Loop`. Assigning to a joinable `std::thread` is modelled as
the termination it is. `ServiceControl` adds ServiceMain, which returns at
once when the handler cannot be registered (`RegisterFails`), and the control handler:
a handler takes `state_mutex_`, sets its flag, reports and calls the host in one
step (`HandleStop`, `HandlePause`, `HandleContinue`), and reports the result in
another (`HandlerReturns`); `FinalizeStart` and `FinalizeReturns` are the same on
the other thread. The SCM (`Send`) is external: it sends one control at a time,
and none while STOP_PENDING or after STOPPED. While START_PENDING Windows documents
STOP only; the code also prepares for PAUSE and CONTINUE, and the model sends them
too. `StoppedIsDown` excludes that with the observer `early`: the handlers do not
look at `stop_requested_`, so a PAUSE that waits for the mutex while FinalizeStart
stops the host, followed by a CONTINUE, starts the pipeline again.
`ConsoleMode` is the other caller of the host.

### ChannelManager, ClientWorker, ClientWorkerProofs

`ChannelManager` has the gRPC channel, which is external (`channel` is its
connectivity state, `linked` whether the transport of a READY channel is alive),
and the monitor: `CreateChannel`, `Probe` (one turn of the loop) and
`MonitorExits`. `ClientWorker` adds the client's other threads. The worker thread
runs `Start` step by step, then requests (`BeginCall`, `CallReturns`); the two
stream threads run the same loop (`LoopTop`, `OpenStream` or `NoReader`,
`TestRunning`, `ReadMessage` or `ReadFails`); the GUI thread handles posted status
changes and, after `Quit`, runs `Stop`, `quit`, `wait(3000)` and the destructor.
Sleeps, backoffs and deadlines are the time until the next step. The timing that
does matter is in two guards: gRPC stays in TRANSIENT_FAILURE, for about a second,
until the monitor has been woken by it, and until a call that does not wait for
the channel has failed. Requests still queued when the worker thread is told to
quit are part of the request it is executing. `raced` and `waitedOut` are
observers.

## 3. What TLC checks

| Run | Bounds | Result |
|---|---|---|
| `hub` | two streams (every tick, every third), queues and history of 2, 4 ticks: queues overflow, the ring wraps around twice | `RingTypeOK`, `LastNIsLatest`, `ImplementsHistory`, `TypeOK`, `Conservation`, `HistoryComplete`, `Pacing`, `PublishReturns`, `CancelledStreamEnds` |
| `switch_faults` | one thread, two monitors, two plans, four kinds of profile file, two disturbances; every Windows call may fail | `RollbackRestores`, `ChangesAreReported`, `CommitInEffect`, `TransactionEnds` |
| `switch_atomic` | two threads, two profiles, one monitor with a level that `Apply` refuses among three, a plan with an alias and one whose GUID has fields with leading zeros, Windows obeys | `HardwareRestorable`, `EventsInCommitOrder`, `SwitchesAreAtomic` |
| `service` | five controls of any kind at any time, during startup too | `LastControlWins`, `ReportIsTrue`, `StoppedIsDown`, `ControlsReturn`, `StopIsReported` |
| `client` | the service goes away once, is there at first or not; two status changes posted | `CleanExit`, `StatusFollows`, `StreamsResume`, `QuitEnds` |
| `events` | one stream with a queue of 1, one event of SwitchTo and two changes of the directory: the queue and the kernel's buffer overflow, the two threads overtake each other | `OnceOrDropped`, `NoneSkipped`, `RealTimeOrder`, `StopIsFinal`, `StopReturns`, `ChangeAnnounced` |
| `profiles` | two built-in profiles, two handlers, one switch, one mishap of any kind | `NeverHalfWritten`, `SeedsComplete`, `AnswersAreTrue`, `FreshAnswers`, `ActiveShown` |
| `telemetry` | five PDH metrics, one of them with two instances, one NVIDIA GPU, WMI given up after 2 failures, series and list of 2, two samples on their way, four inputs, two mishaps | `WholeSamples`, `CurvesFollowSamples`, `LatestShown`, `DrawnInside` |

Why the bounds are enough: the behaviours the properties are about need two
streams or two transactions, a queue that overflows, a rollback of an applied key
followed by a failure, two disturbances around one transaction, a
pause-continue-pause-stop sequence of controls, two publishers at once with a third
event after them, a crash between any two file operations, and more points and
notifications than are kept; each run reaches them, and every
property is shown to fail for a mutant of the code that needs them (`mutants` in
`PROJECT.json`). `switch_atomic` has one monitor because with two a snapshot
cannot stand for different levels: `Restorable` is false then, and the run
`rolled_back_keys` shows the consequence.

Fairness. The hub: the pipeline thread and the handler threads keep running, and
nothing is assumed of clients, so a `Write` may block for ever until the client
cancels. Transactions: the thread that holds the mutex keeps running, which
assumes that no call into Windows hangs; nothing is assumed about who gets the
mutex next. The service: ServiceMain, the dispatcher and the pipeline thread keep
running; the SCM need not send anything. The client: all its threads and gRPC run,
calls end at their deadline, and opening a stream does not fail for ever (the
generated stub always returns a reader), which is the one strong fairness; the
service need not send anything and no request need be made. The file watch: its
thread runs, and a stop that has begun goes on. The profiles: the service runs and
the SCM restarts it, the refresh timer of `main` goes on firing, and the client does
not run into the deadline of 3 s on every refresh for ever; that is the strong
fairness of the two steps of `ListProfiles` and of `ProfilesReceived`. These are scheduling assumptions that
Windows makes good.

Limits of the code that are premises of a property, and observers in the model,
rather than left out: an overflow of the kernel's buffer swallows the announcement
of a change (`missed`); a write that falls short is renamed into place (`faults`);
a start that is interrupted leaves fewer than three profiles for good; a call that
failed at the client says nothing about the switch, which may still happen; somebody
else may put an earlier id into `active.json` (`ActiveKept`); and a monitor at a level
over 100 is not brought back by a rollback (`Settable`).

Two limits of the client's code are premises of its properties and not hidden in
the model. Nothing cancels the streams when the client quits, so `QuitEnds`
assumes that the service sends on each of them again or goes away: an event stream
with nothing to say keeps `Stop` waiting. And `CleanExit` excludes a `Stop` that
overlaps `Start` and a request that outlasts `wait(3000)`; in both cases the model
reaches the end of the process with a thread that was not joined.

### Where the code and its documentation differ

| Run | Says | Does |
|---|---|---|
| `rolled_back_keys` | `command.proto`: "executors restored after a failed apply" | the key is listed before `Apply` is called, whose result is ignored |
| `console` | `main.cpp`: "Ctrl+C terminates the process" | the handler swallows it and nothing signals the event |
| `curve_window` | `README.md`: "客户端曲线窗口 60 s", `Main.qml`: "60 s realtime curves" | a series has 60 points, and `gpu.util_pct` gets one from PDH and one from each NVIDIA device in every sample: with one device the curve is full after 30 s |
| `corrupt` | `profile_store.h`: "Corrupt files are skipped with a warning instead of breaking List()" | a `name` or `description` that is not a string throws out of `List`, in RPCs and in `EnsureDefaults` |

Three more are visible in the models without a run of their own: `README.md` speaks
of a verification in the transaction, and there is none (`ApplySetting`); it says that
the active id is persisted before the event is pushed, and `SetActiveId` may fail
silently; and that `GetStatus` returns the actual listening address, which is empty
between `Bind` and `SetEndpoint`.

## 4. What is proved

All theorems hold for every value of the constants under the assumptions named in
the modules: any number of threads, streams, devices and profiles, any capacity, any
number of ticks, events, controls and mishaps. Every safety invariant, every action
property and both refinements that the passing runs check are proved.

* `RingBufferProofs`. `RingTypeOK` is inductive as it stands. `RingImplementsHistory`
  follows from it by comparing `LastN(Size())` before and after a push, once for a
  growing vector and once for a full one, where the element at `head` leaves and
  the indices shift by one modulo the capacity. Assumption: the requested capacity
  is a natural number; 0 is allowed and becomes 1.

* `TelemetryHubProofs`. `Conservation` is not inductive: `Inv` adds which streams can
  still be pending, that a handler that has not subscribed owns nothing, and where
  the publisher is when a stream owes its first tick. `HistoryIsComplete` adds
  `Retained`: the ring holds the latest ticks, and no queue is ahead of it.
  `HubHistoryIsBounded` composes the refinement of the ring with the hub: each of its
  steps is a push or leaves the ring alone.
  `PacingHolds`, an action property, adds `Paced`: between two writes a handler has
  passed over `(index - 1) % Decimate` samples since the one that was due, and what
  it will pop next is that far behind the last one sent, or further when the queue
  dropped some. `Conservation` is what ties the sample it pops to the count.
  Assumptions: capacities of at least 1, and a rate that is a fraction.

* `ProfileManagerProofs`. The inductive invariant `Inv` is `TypeOK`, `Mutex` (the
  thread inside the critical section is the one that holds the lock), `Prologue`
  (nothing applied before the loop), and for the thread in the loop `Books` (which
  keys are done, and that a snapshot not marked `unrestored` stands for the state
  found) and `Hardware` (untouched keys are as found, applied keys are in force,
  rolled back keys are as found again). It is kept by the service's steps and by
  crashes, file changes and foreign hardware changes, and it gives `RollbackRestores`,
  `ChangesAreReported` and `CommitInEffect`. About executors it is assumed only
  that an `Apply` that fails leaves the hardware alone. `EventsFollowCommits` adds
  `Announced`: a thread that has committed and not yet published is the last one
  that committed, because it still holds the mutex.
  `SwitchIsAtomic` assumes `Restorable` in addition (what is read of a state that can
  be set restores it, and what is read of another is always refused), and that nobody
  interferes: with `CleanBooks` (a snapshot is bad only of a key found in a state that
  cannot be set) the step `SetActiveId` is the abstract switch, the end of a failed
  transaction is the abstract failed switch, and every other step is invisible. That
  assumption is then discharged for the program's own executors: `RealExecutors` says
  that the parameters of `ProfileManager` are those of `Executors`, with one monitor and
  a Windows that does what it is told; schemes and 16-bit levels are arbitrary.
  `ExecutorsCanRestore` and `RealSwitchIsAtomic` rest on two theorems about the texts.
  `GuidRoundTrip`: for every GUID `ParseGuid(GuidToString(g))` is that GUID. In the
  printed text of 36 characters the field i starts at a known place and is followed by
  a dash or by the next field; the scan, turn by turn, takes exactly its digits (`Run`
  stops at the width), and the dashes match. No alias is the text of a GUID, and no two
  aliases share one. `LevelRoundTrip`: `Atoi(ToDecimal(n)) = n` for every n below 65536,
  by the digits from the left.
  The configuration of the run `switch_atomic` is an instance of `RealExecutors`.

* `FileWatchProofs`. The invariant has two layers. `BusInv` is about the bus alone:
  `Stamped` (clocks and events in flight agree), `InFlightSeen` (an event stamped
  while another was in flight has it in its `overlap`, which is what makes
  `RealTimeOrder` inductive), `Registered` and `Awaiting` (a stream that still holds
  its subscriber is registered, and a publisher that has collected has either
  delivered to it or still will, which is what makes `NoneSkipped` inductive). One
  lemma per action says that it keeps `BusInv`. `WatchInv` ties the watch thread to
  the thread that stops it and gives `StopIsFinal`. `EachEventOnce` needs `OnceInv`:
  no two publishers hold the same event (`Undelivered`), what one has still to deliver
  is not in the log of that queue, and what is lost was in it (`Dropped`).
  Assumptions: the two publishers, a queue capacity of at least 1.

* `ProfileSessionProofs`. `NeverHalfWritten` needs one more fact, `StoreInv`: a
  temporary file that is about to be renamed is whole or fell short. `AnswersAreTrue`
  needs `SessionInv`: no two handlers work on the same switch, none works on one that
  has been answered ok or refused, and a handler that has committed is in `done`.
  `SeedsAreComplete` rests on `SeedInv`: `Writers` (only the start writes profiles,
  and what is renamed is what was meant), `SeededSoFar` while the defaults are being
  written, nothing or everything when the process is down, and after a start that
  died at least one profile. `AnswersAreFresh`, an action property, needs `FreshInv`
  and the lemma `ActiveGrows`: no step takes the active id back unless a write fell
  short or others edited `active.json`, so what a handler reads is no older than what its call found.
  Assumptions: the built-in profiles have distinct ids (they are three literals), and
  the number of switches is a natural number.

* `ServiceControlProofs`. The two threads share one invariant. `Locked` says which of
  them holds `state_mutex_` and that, once `start_done_` is set, a thread is inside
  the host only with it; `MainAt` and `HandlerAt` say where in the host each may be
  and what it has reported; `Thread` that the pipeline thread exists exactly while
  its flag is up or somebody joins it, so that `Start` never assigns to a joinable
  thread; `Starting`, `Serving` and `Stopping` what has been built, is up or is down
  at each step. `Serving` is the link between the flag `paused_` of the host and the
  request flag of the controller, which makes `LastControlWins` and `ReportIsTrue`
  inductive. `Punctual` says what `~early` buys: no PAUSE or CONTINUE is in hand after
  a STOP. Assumptions: the two callers, a number of controls.

* `ClientWorkerProofs`. Which threads of the client exist is nowhere written down in
  the code; it follows from `running_` of the worker and of the channel manager, from
  how far `Start` has come on one thread and from how far `Stop` has come on another.
  `Inv` is this bookkeeping: `Owned` and `Requests` hold with races and without,
  `Starting`, `Serving`, `Stopping` and `Ordered` unless `Stop` overlapped `Start`,
  and `Destructors` says that the worker thread has finished when the destructor
  runs, unless `wait(3000)` ran out. `ExitIsClean` reads off the last step.

* `TelemetryPathProofs`. `SamplesAreWhole` needs `Built` and `Streak`: the last
  `consecutive_failures_` counted results are failures, and there are at least
  `kMaxConsecutiveFailures` of them once WMI is disabled. The rest says that each
  metric survives the concatenations and loops of the collectors. The other three
  theorems share `ClientInv`: the samples on the wire are in the order of their ticks,
  also after some were lost, and newer than every point of every curve; every sample
  that was taken left its points; a sample has at most one metric of each name from PDH and WMI and one
  from each device, and each series and the list are the latest part of all they
  were given. `LatestAreShown` and `CurvesAreFaithful` are read off it;
  `DrawingIsInside` holds for any values, range and size of the chart. What a loop
  computes is proved without the library's induction theorems, whose operator
  parameter the provers cannot instantiate: if a statement about the first n turns
  fails for some n, it fails for a least one (`Least`, from the well-foundedness of
  `<`), and one turn leads to a contradiction; `Loop` and `Flatten` package this once
  for recursive functions and for concatenation. Assumptions: the ids of
  `specs_` are distinct and none is the id of a derived metric, a function of NVML is
  called once per device, readings are integers, and a series has room for a point.

Only model-checked, because liveness under fairness and `ENABLED` are outside what the
prover handles: `PublishReturns`, `CancelledStreamEnds`, `TransactionEnds`,
`ControlsReturn`, `StopIsReported`, `StatusFollows`, `StreamsResume`, `QuitEnds`,
`StopReturns`, `ChangeAnnounced` and `ActiveShown`. `ConsoleMode` has no safety
property worth a proof: its one run shows that the process does not end.

## 5. What is not modelled

* Logging, the event log and ETW sinks, the smoke tool and the installer: output,
  a manual test driver and packaging.
* Endpoint and paths: constants and environment variables. Of them `ServiceHost`
  needs only whether an address is a named pipe.
* In the collectors: the lookup of localized counter names in the registry and the
  parsing of counter paths (string handling with a fallback to the English name),
  and the units. PDH, WMI and NVML are external. Wildcards are expanded once, when
  the collector is built; that GPU engine instances come and go afterwards is in the
  model only as counters that have no valid data.
* In QML: layout, colours and the property setters of the chart, which only decide
  when it is painted again.
* Time: deadlines, sleeps and the 1 Hz rhythm are the freedom of the next step.
* An `interval_hz` so close to 0 that `lround` leaves the range of a 32 bit long.

## 6. Plan

1. Safety halves of the liveness properties: that a join a control waits for finds
   its flag down (`ControlsReturn`), and that a stream thread past `running_ = false`
   has no step back into the loop (`QuitEnds`), as invariants of their own.
2. A run for the composition of `TelemetryHub` and `TelemetryPath`, in which the lost
   samples are those of a full queue.
