# A verification project for the digitalSTROM server (dSS)

TLA+ models of the parts of the dSS in which threads, bus messages, timers and
saved state meet, with TLC runs on small instances and proofs checked by TLAPS.
The reference is the C++ source under `src/`; `PROJECT.json` maps every
definition to the lines it models.

## 1. The system

The dSS connects a house wired with digitalSTROM devices to web clients,
scripts and a cloud service. Circuits are controlled by dSMs (digitalSTROM
meters) on a dS485 bus; the dSS keeps a model of the house (*apartment*: zones,
groups, clusters, devices, dSMs), follows what the bus reports, and lets
programs react to events.

### 1.1 Inventory

| Component | State | Operations | Interacts with | What is hard | What makes it correct |
|---|---|---|---|---|---|
| Event loop: `EventQueue`, `EventRunner` (`event.cpp`) | queue; scheduled events; monitor nodes in the property tree; two locks; two `SyncEvent`s | `pushEvent`, `pushTimedEvent`, `removeEvent`, `removeEventByName`, `raisePendingEvents`, `popEvent`, `shutdown` | everybody pushes; the interpreter pops; property listeners remove | locks released half-way, merging of unique events, forgotten signals | one-shot events go out once, removed ones not at all, queued ones are handled |
| Event interpreter, subscriptions, plugins | subscriptions, relay targets | `subscribe`, `unsubscribe`, dispatch | event loop, scripts, web sessions | subscriptions change during dispatch | an event reaches the handlers that are subscribed, no destroyed one |
| Web events: `SessionManager`, `Session`, `EventCollector` | sessions with usage counts; pending events per client | login, logout, `subscribe`, `unsubscribe`, `get`, cleanup | interpreter, web server | long polls, timeouts racing events, objects that the last user destroys | pending events are returned once, a session in use is kept, useless ones go |
| Model loop: `ModelMaintenance` | queue of model events, event counter, dirty flags, save request | `addModelEvent`, `handleModelEvents`, `delayedConfigWrite`, `pendingChangesBarrier`, `shutdown` | web requests, scripts, bus callbacks post; observers and `apartment.xml` | two locks, wrapping counter, flags read without a lock | no change is forgotten, observers are told, writes are rare, barriers neither early nor stuck |
| Meter maintenance: `MeterMaintenance`, `BusScanner` | flags, hash and data of each dSM; initialization state | discovery, join, loss, readout, retry, end of the initialization | bus callbacks through the model loop, web rescans | flags of one dSM written by three threads; calls that fail at any point | stale data is noticed, lost dSMs are not present, all dSMs get read, the initialization ends |
| Deferred scenes and clicks | `m_DeferredEvents` | `onGroupCallSceneFiltered`, `onButtonClick...`, `handleDeferredModelEvents` | model loop, event loop | time windows, merging, undo of a deferred call | no call is forgotten: it leads to an event, alone or in its sequence, or joins a dimming that was reported; events in order |
| System states (`system_states.cpp`, `state.cpp`) | states, files, counters of inputs | scene calls, undos, inputs, signals, start | model loop and event queue, there and back | feedback, restart, counting by changes | alarms are cleared and survive, a combined state is the OR of its inputs |
| Triggers (`system_triggers.cpp`) | damping and lag of triggers in the property tree | `checkTrigger`, damping, scheduled relays | event loop (timed events), two threads | timers that cannot be asked, whole seconds | actions keep their distance, none is forgotten |
| Automatic clusters (`autoclustermaintenance.cpp`) | clusters, groups of devices | check of a device, global check, join, clean-up | model thread, task, meter thread, requests | three threads, changes without the mutex | devices follow their direction and wind class, clusters are given back |
| Security | user per thread, roles | login, privilege checks | web server, scripts | a thread that keeps its login | tests |
| Property system | tree, listeners, proxies | set, create, remove, alias | everything | listeners run under the lock and change the tree | listeners hear every change once |
| Sensor data uploader, web service | queues, packet, upload in flight | `append`, `triggerUpload`, `upload`, `done` | HTTP client on a task thread | lock given up half-way, errors, retries, limits | one upload at a time, nothing lost before it was answered |
| Rooms: `StructureManipulator`, `Zone`, reading of one device | rooms with their devices and sensors, and the same on the dSM | move, add room, remove room, remove device, plug in and out, synchronize | web threads, model thread, meter thread, bus | checks without the mutex of the apartment, calls that fail half-way, lost answers | a device is in one room, the one the dSM has it in; the sensor of a room is in it |
| Task processor, comm channel, asio helpers | queues, sockets, timers | add, run, reconnect, abort | model loop, updater, vDCs | callbacks after abort | no callback after abort |
| dS485 interface | API handle, link state | callbacks, requests | external dSM API | callbacks on foreign threads | every callback becomes a model event |
| Apartment model, persistence, metering, scripting, web handlers, logging | data | getters, setters, formatting | | mostly sequential data handling | tests |

`PROJECT.json` lists all of them under `components`, with the reason for each one
that is not modelled, and the hazards of the modelled ones under `hazards`.

### 1.2 How the modelled parts interact

```
 bus callbacks ─┐                         ┌─> apartment.xml (30 s delay)
 web requests ──┼─> model events ─> ModelMaintenance ──> observers (events)
 scripts ───────┘        ▲                │ flags: present, connected, valid
                         │                ▼
              MeterMaintenance <── apartment (dSMs) ──> bus calls

 pushEvent / pushTimedEvent ─> EventRunner (timers) ─> EventQueue ─> EventInterpreter
```

## 2. Plan

Order: what everything else relies on comes first.

1. Done: the event loop (`Schedule`, `EventLoop`, `EventLifecycle`,
   `EventLoopProofs`), the model loop (`ModelLoop`), discovery and readout of
   dSMs (`MeterSync`), presence (`ApartmentState`).
2. Done: the users of the two loops: `SceneFilter` (deferred scenes and
   clicks), `SystemStates`, `AutoClusters`, `Rooms` on the side of the model;
   `SensorUpload`, `WebEvents`, `Triggers` on the side of the event
   interpreter.
3. Done: proofs of the safety properties of `EventLoop` and of its refinement of
   `EventLifecycle`, of `ModelLoop` (arithmetic modulo `Mod`), `MeterSync`,
   `ApartmentState`, `SceneFilter`, `SensorUpload`, `Triggers`, `WebEvents`, `AutoClusters`,
   `SystemStates` and `Rooms`.
4. Next, to model: the property tree (listeners and removal), which would refine
   the monitor nodes of `EventLoop`; removal of dSMs and vDCs in
   `MeterSync`; crash and reload in `ModelLoop`; groups in `Rooms`.
5. Abstract specifications worth stating: a *saved store* that `ModelLoop`
   implements (a change is pending or saved); a *mirror* that `MeterSync`
   implements (the model of a dSM is some earlier version of it).

## 3. Modules and the code

### 3.1 `Schedule`, `EventLoop`, `EventLifecycle`

`EventLoop` has the producers (any thread that pushes, schedules or removes
events), the runner (`EventRunner::run`), the interpreter
(`EventInterpreter::execute`) and the thread that shuts down. `m_EventsMutex`,
`m_QueueMutex` and the two `SyncEvent`s are modelled with the steps between
them: `pushEvent` looks for an event to merge with in one critical section and
appends in another; `raisePendingEvents` forwards in one, and removes what has
no further schedule after it has released the lock; a removal goes through the
property tree and its listener before it gets the lock. An event is an index
into a table of event objects, because the same object is shared by the list of
scheduled events, the queue and the interpreter. Event contents are reduced to
name, whether it is unique, and the timer property. Time is a bounded clock.

`Schedule` has the two schedules of `datetools.cpp`: a date, and a recurring
rule that steps through its occurrences. Dates are instants; where the code has
libical compare them they are compared as they are written (`Written`, `Local`):
in local time, or in UTC when the rule's start is, with a constant
`TimezoneOffset`. `raisePendingEvents` gives `leapAdjust` seconds of UTC whatever
the rule is written in, and so does `AfterRaise`. `EventLifecycle` is the promise for
all events: they are created, wait for their time or in the queue, are
handled in the order in which they were queued, and leave the list of scheduled
events when they are handled, replaced or removed. A recurring event enters the queue
again while it is scheduled; a one-shot event enters it once and never comes back.

### 3.2 `ModelLoop`

The apartment is the number of changes made to it and the file the number of
changes in it. Of the 45 model events five kinds are distinguished: those that
save and inform (`etModelDirty`), that save only
(`etModelOperationModeChanged`), that end the initialization (`etMeterReady`),
whose handler changes the apartment and posts `etModelDirty`
(`onRemoveDevice`, `onAutoClusterMaintenance`, `onAutoClusterCleanup`,
`onDeviceDataReady`, `onClusterConfigLock`, ...), and others. The reads of
`m_IsInitializing` and of `m_processedEvents` that the code makes without a lock
are steps of their own. `m_processedEvents` starts three before the wrap, as in the code.
The delay of 30 s is `Delay` ticks. The web service is taken to be enabled,
as otherwise nobody is informed.

### 3.3 `MeterSync` and `ApartmentState`

Four parties act on the flags of a dSM: the bus (joins, leaves, link up and
down), the thread of `ModelMaintenance` (discovery, `onJoinedDSMeter`,
`onLostDSMeter`, `etDSMeterReady`), the thread of `MeterMaintenance` (one
readout per turn, in several steps: hash, specification, data, end) and web
requests that ask for a rescan. Any call fails when the dSM or the link is
away, and `MaxFaults` times for no reason. What can be read of a dSM is a
version number. After the readout come the counts that end the initialization,
and the retry. Meters are the bus members that `busMemberIsLogicDSM` accepts;
vDCs and others are left out, and so is the removal of dSMs by a web request.
The model events that `MeterSync` has nothing to do with, `etModelDirty`
above all, are in `ModelLoop`.

`ApartmentState` is the loop of `setApartmentState` over the dSMs; `Rule`
is what its comment asks for.

### 3.4 `SceneFilter`

The handlers of scene calls, undos and clicks of `ModelMaintenance` and the list
of deferred events, all on one thread. Scenes keep their numbers, since the
tables `getNextScene`, `getPreviousScene`, `isMultiTipSequence`, ... decide what
is merged. A turn of `handleDeferredModelEvents` swaps the list into `work` and
visits one event per step (`ReportDue`, `KeepScene`, `EndOfDimming`, ...). An
event carries the numbers of the calls it stands for (`nos`), which is what
"no call is lost" is about. Three histories say what became of a call: `reported`, an
event was raised for it or for the sequence it was then part of; `notFound`, its device is not known;
`filtered`, it joined a dimming whose event had been raised already and was dropped with it when that
ended, for which nothing is raised (`EndOfDimming`). The last are not only dim calls: see `scene_dimming`.
`Settled` allows them only behind a dimming of the same dSM and place that was reported before. Ages count seconds up to the point where an event is
due. `light` is the state of a zone's lights, `lastCalled` the remembered scene.

An origin is a bus device, the dSS itself, or a dSM that names no device. `InOrder` is
about the first two (`Named`). A call of a dSM that names no device continues a
sequence that one of its devices began (`modelmaintenance.cpp:1482` compares the devices only
if the call names one); the event keeps the first origin, so the flush at `:1456`, of the
events "from same origin", does not find the call of the dSM, and a later
call passes it. The run has no such origin, as it would take too long with a fourth one; the theorems cover them. `DeferredIsExact` and `LightFollowsScene` hold for all origins.

### 3.5 `SystemStates`

The plugin `system_state`, one action per handler (`callscene`, `undoscene`,
`stateBinaryinput`, `stateApartment`, `HandleSignal`, `bootstrap`, `startup`).
Messages of the bus pass `modelQueue` and `eventQueue`; what the plugin calls
goes back to the first with origin `coSystem`. `State::setState` saves to
`files`; `Restart` loses the queues, the counters and the states and keeps the
files. The bus sends from one of several small sets of messages (`Offers`), so
that each run of three messages is about one group of states.

### 3.6 `AutoClusters`

A cluster is used or not, automatic, locked, and has a direction and a wind class
(one value, `placement`). `consistencyCheck` and `joinIdenticalClusters` are split at
every read of data that requests may change: requests change a device without
the mutex of the apartment, and post `etDeviceDirty` after it, and locks are set
without any. The model thread checks one device, the task (`AutoClusterTask`)
the devices of a list it has copied, the meter thread joins clusters at the end of
the initialization. `strayed`, `staleCheck` and `lockRaced` record three cases
in which the code does not keep the rule (hazards at
`autoclustermaintenance.cpp:179`, `:62` and `device.cpp:3031`); the properties
leave out exactly these, and devices that joining moves from a cluster a user has unlocked. The groups in the dSMs are left out: a bus call that
fails is logged and changes nothing else.

### 3.7 `SensorUpload`

`SensorLog` with its three containers, the plugin that appends and triggers, and
the task thread that posts and answers. What `SensorLog` does under `m_lock` is
one step; `upload()` and the task read the packet without it. An event is
prioritised or not and can be converted to JSON or not. `m_upload_run` is kept
modulo `max_post_events`, which is all the code looks at. The token of the web
service comes and goes; the subscriptions of the plugin follow it.

### 3.8 `WebEvents`

Workers of the web server handle one request each, in steps: find and touch the
session, look up or create the collector, subscribe with the interpreter and the
relay, wait, pop. The interpreter looks a target up and then calls it. Shared
pointers are modelled by who holds them: the last one to let go destroys the
collector (`Destroy`) and cancels its subscriptions. `crashed` is where the C++
has undefined behaviour (a pop from an empty vector, when two requests get
the last event of one subscription). A session that is created on the fly for an
unknown token is the entry `null` that `operator[]` leaves. The history variable
`waitEnded` is when the last wait of a session ended: `WaitingKeepsSession` compares it, and not the
`touched` of the code, with the time at which the clean-up takes the session.

`uniqueSubscriptionID`, `registerSubscription` and `subscribe` take the lock each for
itself, so that two sessions can be given the same ID for the same event: either the
assertion in `EventInterpreter::subscribe` ends the program, or the relay delivers both
subscriptions to one of the two, and taking one of them back silences the other. The history
variable `mixed` holds the collectors this has happened to (also to one whose old
subscription the interpreter still has to serve when its ID is given out again).
`RelayIsExact` says that all others get exactly their events, each once.

### 3.9 `Triggers`

The list of triggers with their criteria, conditions, damping and lag nodes, run
on the interpreter's thread, and on the plugin's task thread for high-level
events. Nodes that are missing or of the wrong type are modelled (`mistyped`):
reading one ends the loop over the triggers, as the exception does. The scheduled
relays are records with the time they are due; removing, which the code does by
an ID that it keeps in a node, may come after the event was executed.

### 3.10 `Rooms`

Two threads of the web server, the thread of `ModelMaintenance` and that of
`MeterMaintenance` work on the rooms of the apartment. A request is a chain of steps
(`pc`): what it looks up and checks first, and then each call to the dSM with
what the model makes of its answer. `roomMutex` is the mutex of the apartment, which
a move holds from `BeginMove` to its end and the scanner and the removal of a device only
while they look something up. A room that was removed and made again is another object:
`<<z, 2>>` instead of `<<z, 1>>`, and a thread may still point to the old one.
A reference to a device that was removed throws (`Dangling`). `died` is an exception that
leaves the thread of `ModelMaintenance` or `MeterMaintenance`, which nothing catches, and the
`erase(find(...))` of `Zone::removeFromDSMeter` where `find` finds nothing.

The code does not exclude that two threads handle the same device, or that a
device is brought to a room while it is removed; the outcome then depends on
luck. Two equal moves in flight take the device off the list of its room, since the
second has the target as old room; a removal that found the room empty erases it with the
device that came meanwhile, although the comment at
`structurerequesthandler.cpp:190` says "don't remove zones that have connected devices".
`excused` collects such devices (`Overlap`), and the properties are about the others;
`unsure` collects devices of which an answer was lost, whose room the dSM may know better.
All devices are visible, and none is coupled with another; there is one dSM, always
present; one type of sensor stands for all. Concurrent changes of one vector of devices
are steps, not torn memory.

### 3.11 Sums

`MCServices`, `MCHandlers`, `MCModelThread` and `MCMeterRooms` put components that share no state
side by side: a variable that never changes says which one a behaviour is about,
the others stay in one initial state. This is a way to check several
specifications in one run; no interaction is claimed.

## 4. Runs

| Run | Instance | Shows |
|---|---|---|
| `event_loop` | two producers, two events (timed, recurring, unique timed, unique), clock 0..1 | type invariant; the runner never asks for a lock it holds; a one-shot event goes out once; a scheduled event can be found and removed; one whose removal has returned is not forwarded |
| `event_loop_live` | one producer, unique events, fairness | `EventLoop` implements `EventLifecycle`, merges included; queued events are handled, due events forwarded, a shutdown ends |
| `event_loop_timed_lost` | violation | a unique timed event merged into one that has just been forwarded is lost |
| `model_loop` | 1 writer, a change, an event whose handler makes another, 2 waiters, shutdown | no change is forgotten, observers are informed, writes are `Delay` apart; barriers pass neither early nor miss their wake-up, also when the counter wraps |
| `model_loop_live` | 2 writers, 2 changes; or 2 blinds, 2 clusters, 2 requests; fairness | every change is saved; devices are in the cluster of their direction and class, once; free clusters have no devices; empty ones are given back; every device is assigned in the end |
| `model_barrier_returns` | violation | the loop and a barrier wait for each other's lock |
| `meter_sync` | 1 dSM, 2 changes on the bus, 2 updates or rescans, 1 fault; or 2 devices, 2 rooms, 2 web threads, 2 requests, 2 devices plugged or rooms synchronized, 1 failing call | the hash is never newer than the data; a lost dSM is not present; a device is in the list of its room, where the dSM has it; the sensor of a room is in it |
| `meter_sync_live` | 2 dSMs, 2 changes, 1 update or rescan, 1 fault, `Prompt` | the initialization ends; all dSMs get read and stay valid |
| `meter_sync_rescan` | violation | a rescan forced during a readout is lost |
| `handlers` | 3 calls, clicks or undos of 3 origins; reports of up to 3 dSMs; 3 messages and a restart | no call is forgotten, each is reported in the end, alone or in its sequence, or taken by a dimming reported before it (or its device is unknown); reports are in order, holds are counted, lights follow scenes; presence follows its rule; states follow sensors and alarms, also over a restart, and feedback ends |
| `scene_dimming` | violation | an Off shortly after dimming is not reported |
| `services` | 2 events, packets of 2, a fault, 3 token changes; 2 workers, 1 session, 2 collectors, 4 requests; 5 setups of triggers, clock 0..4 | uploads: one at a time, nothing lost, the packet untouched while it is sent, the log emptied; web events: no dangling target, no event twice, a session is kept while a request waits and for the timeout after that, pending events are returned, useless entries freed; triggers: debounced, damped, not silenced too long, executed in the end |

The violations are the disagreements between the code and its comments, docs or
tests listed under `findings`. Each property of a passing run has a mutant: a
plausible slip in one definition that makes TLC find the property violated.
Some properties are conjunctions of named parts that belong together:
`EventsGoOn`, `BarrierIsExact`, `MetersSettle`, `ClustersAreExact`, `ClustersSettle`, `DeferredIsExact`, `StatesAgree`,
`RelayIsExact`, `WebEventsGoOn`, `TriggerTiming`, and the type invariants of the sums.

Differences met while modelling that have no run of their own:

* two threads that push equal unique events at the same time may queue both
  (`event.cpp:747`); `etModelDirty` events already queued are not masked
  (`modelmaintenance.cpp:950`); a dSM that stays present and does not answer
  starves those behind it (`modelmaintenance.cpp:241`);
* a dSM of API 0x300 to 0x302 is counted by one rule and read by another
  (`modelmaintenance.cpp:258`), and a readout whose devices could not all be read
  counts as complete;
* `leapAdjust` is called with seconds of UTC (`event.cpp:978`) and `getNextOccurence` compares local time
  (`datetools.cpp:537`), whatever the rule is written in: east of UTC occurrences that were
  missed are raised one after the other, west of it those of the next hours are skipped, and rules
  in UTC are consumed early or late by the offset;
* a file of a state is overwritten in place, so a crash may leave a torn one
  (`state.cpp:266`); a property of a wrong type below one trigger stops those
  after it (`system_triggers.cpp:1159`);
* `structurerequesthandler.cpp:233-253` loops over the devices to move and to
  erase and indexes the set of all devices instead.

### 4.1 Bounds

* Two producers, writers or waiters are enough for races between equals; a third
  party is always there (runner, loop, bus).
* `EventLoop`: two events are a scheduled or queued one and an equal one that
  is merged with it, removed or forwarded meanwhile; the recurring template has
  two occurrences, and local time is one unit ahead of UTC. The proofs cover more events and
  producers, any offset, and rules in UTC.
* `ModelLoop`: `Mod = 32` is the smallest power of two with
  `Mod \div 2` above the number of events of a run (`ModelLoopAssumption`), so
  that a difference never looks negative; the counter wraps at the third event.
  A change by a writer and one by a handler put a change before, into and after
  a write, and an event before and after each barrier. `Delay = 1`: a request is young
  or due.
* `MeterSync`: one dSM with two changes on the bus, an update, a rescan and a
  fault meets each step of a readout with each of them; two dSMs are used where
  their order and count matter (initialization). `MaxRetry = 2`
  instead of 30: one turn that counts up and one that searches again.
  `MaxQueue` only holds back threads that post more.
* `ApartmentState`: with three states and two usability values three dSMs contain
  agreeing, disagreeing and ignored ones in every order; the proof covers the
  rest.
* `SceneFilter`: three calls are a sequence, and one of another origin or group in
  between; the scenes are Off, a preset and a dim scene; the clicks a tip, hold start,
  repeat and end. `SystemStates`: three messages are a change, its undo and one that
  passes them.
* `AutoClusters`: two clusters are the smallest number to join, and too few for two
  devices of two placements when one is locked, so that cluster and device can be
  refused; two requests change a device during the check of another change.
* `Rooms`: two requests and two other inputs are any pair of operations on a device, and
  a device plugged out and in around them; two devices are one that moves and one that stays as
  the room's next sensor. `MaxAllocs` is above the number of requests, so an object is never missing.
  Devices, rooms and web threads are interchangeable (`SYMMETRY`; the run has invariants only).
* `SensorUpload`: two events fill a packet and a queue. `WebEvents`: two workers race
  for one session; two collectors are an old and a new subscription; one unit of time is
  the session's timeout. A second instance has two clients that log in and subscribe to one
  event at the same time, which is how two of them come to share an ID. `Triggers`: delays and intervals are one or two seconds.

### 4.2 Fairness

* Threads run: weak fairness for steps that only need the processor.
* Locks: strong fairness for a thread that waits for a lock others keep giving
  back; mutexes of Linux do not promise it, yet the sections are short and the
  holders sleep or wait between them.
* Waits on condition variables and `SyncEvent`s end at their timeout at
  the latest; they need not end for no reason, and a signal given before the wait is
  forgotten, as in `SyncEvent::waitFor`.
* The bus is not fair: it need not come back, calls need not succeed. Liveness of
  `MeterSync` assumes a bus at rest (`BusAtRest`): the link stays
  and no dSM that is gone stays present. `MetersAreRead` also assumes that the
  last discovery has not failed, as the code does not repeat it after the initialization.
* `MCHandlers`, `MCServices`, `MCModelThread`: the threads of `ModelMaintenance`, of the
  interpreter, the tasks and the workers run (weak fairness of their steps); time passes;
  recurring events are raised; a request to the hub is answered unless it is one of
  the `MaxFaults` that fail. Clients, the bus, restarts and requests are never assumed to act.
  The clean-up of sessions and the passing of time in `SceneFilter` have strong fairness,
  because other steps of the same thread disable them for a moment.
* `Prompt`: `ModelMaintenance` has handled its events when
  `MeterMaintenance` begins its next turn a second later (`METER_DELAY_TIME`). Without
  it a turn may count before a discovery is handled each time, and search
  again for ever. It is assumed in the liveness run and in the
  violation runs, whose counterexamples do not need a slow `ModelMaintenance`; the
  safety run does without it.

## 5. Proofs

`EventLoopProofs` proves, for any number of producers, events and clock values:
`TypeCorrect`, `RunnerNeverSelfDeadlocks`, `OneShotRaisedOnce`, `Monitored` and
`NoRaiseAfterCancel`. None of these is inductive alone, since each depends on a
thread in the middle of its operation. The invariant `IndInv` (theorem
`Invariance`) adds: the runner holds `m_EventsMutex` exactly during a pass
(`MutexOK`); what the pass has still to look at is scheduled, as nothing leaves
the list while it runs (`PassOK`); a one-shot event that was forwarded and still
is scheduled is on the runner's way to removing it and is not looked at again
(`PendingOK`); no thread but its creator knows a new event (`FreshOK`); an event
whose removal has returned is not scheduled (`CancelledOK`). That the runner
cannot get to `addEvent` under its own lock follows because `ClearTimer` leaves
nothing from which `scheduleFromEvent` makes a schedule.

`LoopImplementsLifecycle` is the refinement: every step of `EventLoop` is a step of
`EventLifecycle` or leaves its variables alone, where the queue of the latter is the
event the interpreter handles followed by `m_EventQueue`. The invariant `LifeInv` says
what the steps need: an event that is new to the queue was never in it. That holds for what
a producer has made and not yet queued (`NewOK`) and for a scheduled one-shot event that was
not forwarded or is being forwarded (`RaiseOK`); a one-shot event is in the queue once
(`OnceOK`), so that it is gone when it was handled.

`ModelLoopProofs` proves `TypeCorrect`, `BarrierExact`, `NothingForgotten`, `ObserversLearn`
and `WritesApart` for any number of writers, waiters and changes. Besides the
control states (`ControlOK`), `IndInv` has:

* `ReadyOK`: `etMeterReady` is posted once, after an `etModelDirty` that finds
  `m_IsInitializing` set. Without it a flag set during the initialization could be
  forgotten when that ends.
* `SaveOK`, `NotesOK`: a change that is not in the file, or that the observers do not know, has
  a save request, an event in the queue or at a poster (`Coming`), or `m_IsDirty`. The
  number in `m_suppressSaveRequestNotify` is that of an earlier event, so no event is taken for
  handled before it is.
* `CountOK`, `SyncOK`: `m_processedEvents` is the number of events modulo `Mod`, and
  there are never `Mod \div 2` or more events in all, those included that handlers post. So
  the signed difference the barrier looks at is exact though the counter wraps.
  `ModelLoopAssumption` bounds the events for this; the code has 2^31 of them between a
  barrier's two looks.
* `AgeOK`: a save request is not older than the last write.

`MeterRoomsProofs` proves of `MeterSync` `TypeCorrect`, `HashNotAhead` and `LostNotPresent` for any set of
meters, versions and faults. `MeterInv` follows the hash from the bus through the readout (`HashOK`): it is
read before the data and kept after them, and an outdated meter is not read.
`ScanOK` says that what is read is known to the model, `RetryOK` when the retries are
counted, `LostOK` that a lost meter is not connected, so that a readout under way does not
bring it back.

Of `Rooms` it proves `RoomsTypeCorrect`, `DevicesInTheirRooms` (`DeviceInItsRoom`) and
`SensorsInTheirRooms` (`SensorInRoom`), for any devices, rooms and web threads and any number of
requests, plugs and failing calls. The properties speak of states at rest; the invariant
`RoomsInv` says what holds meanwhile. Apart from the types it has, for each device that is not
`excused`:

* `ListedOK`, `HomeOK`: the device is in the list of the room of its `m_ZoneID` and in no
  other, except while the scanner has it in its hand (`Loose`), and that room is in the apartment.
* `BroughtOK`, `MovedBy`, `EmptiedBy`: what the scanner and the requests looked up before they waited
  for the mutex or the dSM still is so: the target room exists, the old one is
  the device's, a room that is being removed is not. This holds because `Overlap` is false: one
  thread handles the device, and not towards a room that another removes.
* `DsmOK` (no call for the device has failed): the dSM has a present device where the model has it, unless a
  request is between the call and `Zone::addDevice`; a device whose sensor has been chosen is
  where it was when it was chosen.
* `SensorOK`: a sensor's device is in its room, or is being left by a request that will
  reset the sensor (`Leaving`), or is in the scanner's hand on its way back to the same room. A device
  that the dSM has elsewhere is no room's sensor, which is why the scanner, which does not look after
  the sensors of the room it leaves, does no harm.
* `AllocsOK`: each object of a room is paid for by a request that removed the one before, so that
  `MaxAllocs > MaxRoomRequests` objects are enough; it needs finitely many web threads.

Steps of one thread that cannot touch a device are dealt with once (`PlaceKept`, `SensorsKept`), and what
the step of a request changes is stated apart from what it means (`WorkersMove`, `RoomsChange`,
`DsmChange`, `WorkersRest`).

`PluginProofs` proves of `SensorUpload` `TypeCorrect`, `OneUploadAtATime` and `EventsAreKept`. The
invariant `UploadInv` needs `PacketIsSent`: the request under way and the answer that
`done()` is about to act on hold what is in the packet, so that nothing is erased that
was not answered; and `Known`: events in the log were raised, so that a new one is
not among them.

Of `Triggers` it proves `TriggersTypeCorrect` and `TimingHolds` (`TriggerTiming`) for any triggers,
conditions, delays and intervals. The invariant `TrigInv` has, besides the types:

* `EventsOK`: the event a thread handles is one of its kind and matches the trigger it works on, so that
  only one thread works on a trigger that is `Alone` (`OneThread`).
* `DelayOK`: the timed events of a trigger are the delay apart, and the first is the delay after the
  last action; only the last, whose ID is in the property tree or about to be written there, can be in
  the future, and none is when another is to be pushed; its time stamp is not earlier than it. The time
  stamp is what the code concludes from that the event is over, so `StampOK` is the part that
  whole seconds and late writes could break. IDs are given once, and events that are due are raised
  in the order of their IDs (`RunTimed`).
* `DampingOK`: what `SilenceIsHonoured` and `DampedApart` compare with (`settledAt`, `passedAt`) encloses
  the time stamp of the tree, unless a thread still deals with the match; the stamp compared in `dampInterval`
  is the one read before it was rewound.

`SceneFilterProofs` proves `TypeCorrect`, `NothingLostOrMiscounted`, `ReportedInOrder` and
`LightIsRemembered` for all sets of origins, zones, groups, scenes and clicks and any number of calls. Every
step is reduced to what it does to the list of events (`SceneShape`, `ClickShape`,
`VisitShape`, `TickShape`), and the invariant `SceneInv` is shown for these:

* `NoCallLost`, `EventsOK`: a call is `Settled`, or one of the events stands for
  it; events stand for calls of their kind, and the repetitions of a click are counted.
* `DimmingOK`: an event that is called stands for a dimming that was reported and came before the
  others it stands for, at the same place and from the same dSM. So what is filtered was `AfterDimming`.
* `PassOK`, `FlushOK`: a scene that passes is due at once, and the earlier ones of
  its origin are due and before it in the list, or already visited. `InOrder` alone does not say
  where the earlier ones are.
* `SingleOK`, `HarmlessOK`, `LightOK`: for a group whose calls have not overlapped, the last of its events is
  the one that decides on the lights, what was reported of events still in the list is dimming, and
  the lights agree with the remembered scene when nothing is deferred.

`AutoClustersProofs` proves `TypeCorrect` and `DevicesInTheirClusters` (`ClustersAreExact`) for any
number of clusters, devices, placements and requests. `ClustersInv` says of a device
that no change is on its way for (`Undisturbed`) what the check under way has achieved:

* `CheckOK`: the clusters that `removeInvalidAssignments` has passed fit, the list of unlocked clusters
  is complete, all but one of them are still to be removed, and a device that looks for a
  cluster is in none. It holds although the check reads direction and class again and again, because a
  change posts its event before it could be lost, and `consistencyCheck` by the model thread cannot
  take the event from the queue meanwhile.
* `JoinOK`: what is moved comes from an unlocked cluster of the same placement, or the
  destination was given back, and then the device is one of the `strayed`.
* `FreeIsEmpty` is what makes a new cluster harmless for all other devices.

The proof of `JoinOK` failed at first for a device in a locked cluster of another placement: when a user
unlocks the cluster, joining moves the device with it, and the device follows the
cluster. TLC confirmed it with a start that had not been among those checked (it is now);
such a device counts as not `checked`.

`StatesProofs` proves `TypeCorrect`, `AlarmsSurvive` (`AlarmSurvivesRestart`), `AlarmsCleared`
(`AlarmIsCleared`) and `Agreement` (`StatesAgree`) for any inputs, user groups, sets of messages and any number
of messages and restarts. All four hold only when nothing is queued, or only after a restart, so
the invariant `IInv` has to say what the two queues hold in between:

* `SavedOK`: a registered state is what was saved last; `StartOK`: after a restart nothing is
  handled before `running`, which registers the states; `RestartedOK`: until a message comes, the files are
  what the states were. Together they are `AlarmsSurvive`.
* `ClearedOK`: for an alarm that is to be cleared, the last thing on its way that has to do with it resets it,
  or nothing on its way sets it and it is not active. The plugin's own undos do not
  count as setting it, and `absent` in the queue counts as the undo it will send.
* `OverridingOK`, `BusOK`, `ModeOK`: unless something foreign is on its way, the last change queued for a wind
  or rain state, or the last heating signal, is the one of the state; with nothing queued the bus agrees.
* `CombinedOK`: there is for each input a value `told` that the counters were last told of. Counters are
  the number of inputs told to be active (`CountsOK`), the reports queued for an
  input alternate from what was told to what the input is (`TurnsOK`), and the state is the OR of what was
  told (`OrOK`). A report that is queued twice, or whose first value was not known, breaks `TurnsOK`: those inputs are
  `doubtful`.

Every handler is an instance of `Handled` (sets states, raises events, sends messages), so the parts
of the invariant are proved once for `Handled` (`HandledBase`, ...) and each handler only shows what
it sets. The parts of setApartmentState are in the same module: `PresenceTypeCorrect` and `PresenceFollowsRule`
hold for any number of dSMs. The invariant `LoopProgress` says that the last state is
the only one known so far, or that the loop was left because two were found. `KnownStep` and
`KnownMonotone` are the facts about the set of states known to the first n dSMs.

`WebEventsProofs` proves `TypeCorrect`, `RelayExact` (`RelayIsExact`) and `SessionKept`
(`WaitingKeepsSession`) for any number of workers, sessions, event names, requests and events. The
invariant `WebInv` follows who holds what:

* `OwnersOK`: a session that the map or a request holds exists, and with it its collector; a worker
  that waits or subscribes has a collector that lives. So what `Destroy` takes is used by nobody.
* `UsageOK`: the use count is the number of workers between `use()` and `unuse()`; `RoomOK`: there is a
  collector left for each request that subscribes.
* `LeaseOK`: a session was touched when its last wait ended or later (`waitEnded` is at most `touched`, and that
  at most now), which is what `unuse()` is for; with `UsageOK` this is `SessionKept`.
* `MutexOK`: under the mutex of its subscriptions a session subscribes once at a time, and the
  collector has no ID for the name it is about to get one for.
* `RelayOK`, `EntriesOK`: an ID leads to a living collector that has it, a collector has one ID for a
  name, and two with a common ID are `mixed`; for the others (`Leads`) the interpreter's
  subscription with the ID is unique and is their own.
* `TodoOK`: of an event that is being delivered, a collector that was served has no subscription left.

`Kept` and `Removed` state by positions what the loops of the interpreter keep and erase; `KeptFacts` is the
lemma about them that the others use.

Each invariant was checked by TLC on small instances before its proof. The proof of
`InOrder` failed at first for origins without a device, and TLC confirmed that case;
section 3.4 says what the code does there.

Assumptions: `ASSUME`s of the modules on their constants (named
`...Assumption`), which TLC evaluates in the runs. The bounds of the models
(`MaxChanges`, `MaxEvents`, `MaxCalls`, ...) are natural numbers of any size in the proofs.

Only model-checked: the liveness properties, since fairness and `ENABLED` are outside
the prover (so the refinement is proved for the safety part of `EventLifecycle`, which has no
fairness); and the type invariants of the sums (`MC...`), which are conjunctions of those of the
components. What recursive definitions compute for all inputs cannot be
proved by induction with the installed provers; no recursive operator is used.

## 6. Not modelled

* Torn reads of data that is shared without a lock (properties of an event that
  is merged while it is handled; flags of dSMs are single bytes).
* The contents of events, of `apartment.xml` and of bus messages.
* Crashes: `apartment.xml` is written to a temporary file and renamed; a change
  of the last 30 s is lost, which the code accepts.
* The 32-bit hash of a dSM may be equal for two versions; a version number never is.
* The flags of devices that follow those of their dSM (`onLostDSMeter`, `dsMeterReady`).
* Property tree, security, scripting, metering and vDC: see `PROJECT.json`. The first
  is data under one recursive lock; the others are glue around external engines and files.
* Of the structure manipulator: groups, heating, names, and devices that are coupled or hidden;
  the loops over hidden devices named in section 4 do not do what their comments say.
* `SetSplitter` and the reconnecting socket are not used by the server.
* Fairness of clients: a client that never asks again loses nothing but its session.
* The components listed as `not_modelled` in `PROJECT.json`, each with its reason.
