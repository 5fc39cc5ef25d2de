# Sky Dolly: a TLA+ model of recording and replay

Sky Dolly records flights in a flight simulator (MSFS, over SimConnect) and
replays them. This directory holds TLA+ modules for the parts of it that keep
state across events, TLC configurations that check them on small instances, and
proofs for the TLA+ proof system. `PROJECT.json` lists the components, runs,
mutants, findings, hazards and theorems, and maps definitions to source lines.
Paths below are relative to `src/src` of the repository.

    tlc -config MCSkyConnectFaults.cfg SkyConnect
    tlapm SkyConnect_proofs.tla

## 1. Inventory

| Component | State | Operations | Interacts with |
|---|---|---|---|
| `PluginManager/.../AbstractSkyConnect` | session state, replay mode, elapsed timer and time, current timestamp, speed factor, reconnect timer, simulation time timer | start/stop recording and replay, pause, seek, skip, speed, replay mode, requests with retry | its plugin subclass (virtual `on...` calls), the current flight, modules and window (signals) |
| `MSFSSimConnectPlugin` | SimConnect handle, request periods, frame subscription, time zone and simulation rate caches | the `on...` calls, `dispatch` of simulator messages | SimConnect server, `AbstractSkyConnect`, current flight |
| `SimConnectAi`, `EventStateHandler`, `InputEvent` | AI object requests, wanted and known toggles, shortcut groups | create/remove AI aircraft, send toggles, map shortcuts | asynchronous replies of the simulator |
| `PathCreatorPlugin` | random generators | as above, always succeeds | `AbstractSkyConnect` |
| `SkyConnectManager` | current plugin | choose plugin, relay calls and signals | plugins, window |
| `ModuleManager`, `AbstractModule` | current module | record, play, pause, set up the initial position | `SkyConnectManager`, modules |
| Formation, Logbook, Location, Server modules | selection, bearing and distance; tree and filters | formation recording and replay; load, delete, edit flights | services, session |
| `Model` | flight, aircraft, user aircraft index, time series with a cached index | upsert, interpolate, add/remove aircraft | everyone |
| `Persistence` | database file, migrations applied, enumerations | store, restore, delete, migrate, back up | model, modules |
| `UserInterface/MainWindow` | enabled actions, position slider | user actions | `SkyConnectManager`, modules |
| `Kernel`, `Flight`, `Widget`, import/export plugins, `SkyDolly` | settings, files | conversion, augmentation, presentation, process start | |

Everything runs on one Qt event loop: user actions, timer events and simulator
messages are handled one at a time, each to its end. The concurrency is therefore in
what may happen *between* two handlers: the simulator may die, quit or come back,
its messages may be late, timers fire, settings change, the user pauses or seeks.

What is hard, and what makes it correct:

* **Session.** A recording or replay is a set of subscriptions on a connection
  that may go away in any state. Correct is that the streams that run are the ones
  the state needs, that stopping stops them, that the user gets the aircraft back,
  that a session is only ended by stopping it, and that a lost connection is made again.
* **Clock.** The position is the sum of an elapsed time remembered and a timer
  that runs at a factor; pauses, seeks, changes of speed and stops have to move
  value from one to the other without losing any. Correct is that the clock behaves
  like one that simply runs, stands still and jumps.
* **AI aircraft, toggles, pause echo.** Asynchronous answers to requests that may
  be outdated. Correct is that no AI object is left behind, and that lights, flaps and rate
  end where they were asked to be.
* **Time series.** An index cached between calls of an interpolation.
* **Storage.** Operations that change memory and database, with transactions that
  fail; migration steps interrupted by a crash. Correct is a logbook that stays consistent,
  agrees with memory as long as nothing fails, and can be migrated and opened again.

## 2. Plan

| Order | Modules | Subject | Status |
|---|---|---|---|
| 1 | `SkyConnect`, `SkyConnect_proofs` | session | done |
| 2 | `Playback`, `ReplayClock`, `ReplayClock_proofs` | clock, refining an abstract clock | done |
| 3 | `SkySearch`, `SkySearch_proofs` | interval search and its index kept between calls | done |
| 4 | `SimConnectAi`, `SimConnectAi_proofs` | AI objects, asynchronous replies, new connections | done |
| 5 | `Logbook`, `FlightStore`, `FlightStore_proofs`, `FlightStoreLogbook_proofs` | flight in memory and transactions of the services, refining a logbook | done |
| 6 | `SqlMigration`, `SqlMigration_proofs` | opening and migrating a logbook, crashes and releases | done |
| 7 | `EventState`, `EventState_proofs` | toggles and steps, asked and answered | done |
| 8 | pause echo and slider; `Session` (abstract) implemented by `SkyConnect` | what window and modules rely on | planned |

Every invariant and every action property of the passing runs is proved, and so are the
two refinements (section 6); liveness is what only TLC says. The most important behaviour
comes first: a recording that is lost or garbled cannot be repeated, and neither can a
logbook.

## 3. Modules

### SkyConnect

One variable per private member that matters: `state`, `replayMode`,
`reconnectTimer`, `simTimeTimer`, `elapsedTimer` (valid or not), `atBegin`
(`currentTimestamp = 0`). `io` is the SimConnect connection: the handle (none, open,
or stale when its server is gone), what the *server* sends over it (`frame`, `data`,
`sensor`), and what the *plugin* believes of it (`subscribed`, `request`,
`sensorRequest`). Telling the two apart is the point of the module: the plugin's
members survive the connection they are about. `sim` is the simulator (external) and
whether it holds the aircraft frozen; `flight` is what is recorded.

Calls on the connection succeed exactly when the handle is open. `Retry` is
`retryWithReconnect`, `SetupLink` is the connection attempt of
`retryConnectAndSetup`, `Ensure` is `tryFirstConnectAndSetup`: they return the *set*
of connections that may result. Every action is a whole handler:

| Code | Action |
|---|---|
| `onPluginSettingsChanged(SetupOnly / Reconnect)` | `SetupChanged`, `ConnectionChanged` |
| `onReconnectTimer`, dispatch of QUIT | `OnReconnectTimer`, `DispatchQuit` |
| `startRecording`, `stop` | `StartRecording`, `StopRecording` |
| `startReplay`, `stop`, `MainWindow::clearFlight` | `StartReplay`, `StopReplay`, `ClearFlight` |
| `setPaused`, dispatch of Pause | `SetPaused`, `DispatchPause` |
| `seek`, `skip...` | `Seek` |
| dispatch of data, Frame, Crashed | `ReceiveSample`, `RecordingFrameFails`, `ReplayFrame`, `ReplayFrameFails`, `EndReached`, `Crashed` |
| `setReplayMode`, `setReplaySpeedFactor`, requests | `SetReplayMode`, `SetReplaySpeedFactor`, `Request` |
| simulation time timer | `UpdateSimulationTime` |
| loading a flight; the simulator | `FlightRestored`; `SimStart`, `SimStop` |

`updateSimulationTime` looks at `sender()` to tell a call from the timer or a slot of
the plugin from others; `inSlot` is that choice. `Faults` says which disturbances the
environment may cause: the simulator crashes (`crash`), quits with a QUIT message
(`quit`), the user changes shortcuts (`setup`) or the connection (`reconnect`) *in a
running session*. Each handler is atomic, as it is on the event loop; a crash happens
between handlers, so calls of one handler fail from its first call on or not at all,
except that `sim.up` decides whether its reconnect works.

### Playback and ReplayClock

`Playback` is abstract: a mode, a rate, a position and the position last shown. The
position advances by the rate while it runs, stands still while paused, moves when
sought; a replay continues from what was shown. `ReplayClock` has the members of the
code (`elapsed`: `elapsedTimer`, `base`: `elapsedTime`, `current`:
`currentTimestamp`, `factor`) and the durations of the flight. `Position` is the
refinement mapping, `ImplementsPlayback` the refinement as a property. The connection
always holds here, its failures are the subject of `SkyConnect`.

Four operations disturb the clock so that it does *not* implement `Playback`; each is
switched by a member of `Hazards`, so that what holds without them and what each of
them does can be said separately. Two of them also let the code record samples out of order
(`rate`, `earlyPause`): `disturbed` remembers that one has met the recording that is running,
until the next one starts, and `SamplesInOrder` is about every other recording, in a run
with all four. They are: a recording added to a flight with recordings
(`formation`), a flight loaded while not paused (`loadFlight`), a change of replay
speed while a timer runs outside of a replay (`rate`), a pause between the first data
and the first position of a recording (`earlyPause`).

`QElapsedTimer::elapsed()` of an invalid timer is undefined, and is asked when a
recording is paused before its first sample: `Undefined` is a choice of values far
away on both sides. Nothing may depend on it, and `TypeOK` shows that no recorded
timestamp does, as the first sample starts the clock anew.

### SkySearch

The samples of one kind of data of one aircraft (`m_data`, as timestamps), the index
that a search leaves for the next one (`m_currentIndex`) and the timestamp and access of
the latest result. Between calls, samples are recorded (`upsertLast`), added by the
flight augmentation (which sorts them) or cleared. A call of `interpolate` is split:
`Interpolate` is `updateStartIndex` up to its loops, `LinearStep` and `BinaryStep` are
one iteration each, `Finish` the end of the call, at which `CubicSupport` (positions),
`LinearSupport` and `SeekSupport` (all other data) say which samples are used. A call is
not interrupted: samples change only in `pc = "idle"`; the steps are there to ask whether
the loops end. Positions use an infinite window, other data `Window`. `Linear` and
`NoTimeOffset` do the same here, as do both seeks; the time offset of an aircraft is part
of the timestamp. Samples may be in any order, as the clock of a recording may move back;
what is promised for ascending timestamps only is stated so.

### SimConnectAi

`ai` is both ends of the connection: `requestOf` (`requestByAircraftId`), `registered`
(`simulatedObjectByRequestId`) and `last` (the request counter) are the plugin's; `asked`,
`objects` and `assigned` are what the simulator still has to create, what it simulates,
and its answers on the way. An object is named by the request it was created for. `aircraft`
and `user` are the flight, of which only identifiers and "has a recording" matter. The
signals of `Flight` that the slots of `AbstractSkyConnect` are connected to are part of
the actions that emit them: `AddToFormation`, `StopRecording`, `RemoveAircraft`,
`SwitchUserAircraft`, `Restore`, `ClearFlight`...

An answer may arrive after its aircraft was removed, added again (with another request)
or after everything was discarded; `registerObjectId` then removes the object. A new
connection starts with new request numbers; the simulator removes the objects of a
client that is gone. `disturbed` records that an operation left objects and flight out
of step, until they are created anew. The code does that in five places, each marked in
the module:

* the tail number of the user aircraft is changed: it gets an object of its own;
* the first aircraft is removed while it is the user aircraft: the index stays, so nobody
  is told that another aircraft is flown by the user now, whose object stays;
* an aircraft is added to a formation in "fly with formation": the object is requested for
  `Const::RecordingId` and orphaned when the aircraft gets its identifier, or
* created once more for the previous aircraft when it could not be stored;
* the import of a flight emits `flightRestored` before the aircraft have identifiers.

### Logbook and FlightStore

`Logbook` is abstract: flights with a title, a user aircraft and a list of aircraft, and
the current flight. Each operation changes at most one flight, in one of a few ways, and
aircraft only in the current one. `FlightStore` has the tables (`flights`, `rows` with
flight and sequence number), the flight in memory, and the operations of the services,
of the window, the Logbook and the Formation module. An operation that changes memory and
tables is one action, with the order of the code: memory first or last, and what remains
of it when the transaction fails. `Stored` is the refinement mapping, `inStep` says that
nothing has left memory and tables apart since the last load, store or clear.

An import (`ImportFlight`, `ImportAircraft`) either stores each flight on its own, of which
the last one becomes the current flight if nothing has failed, or adds aircraft to the current
flight, each in a transaction of its own. The flights stored before a failure stay in the
logbook without becoming current (`ImportIntoLogbook`), and so do the rows of the aircraft
stored before one, without the aircraft being added to the flight.

`Hazards` switches failures and sequences of operations. Those of the run `store`
(`storeAircraft`, `import`, `delete`, `edit`) leave the tables consistent and memory in step
with them. Each of the others shows a failure of the code and is left out of the run; the
comment of each property names those that break it:

* `store`: a flight that could not be stored keeps the identifiers of the transaction that
  was rolled back, which are given to the next flight;
* `load`: an aircraft that cannot be read is left out silently; if it is the last one, the
  user aircraft index becomes invalid and the window, asking for the user aircraft,
  terminates the program (`SQLiteAircraftDao.cpp:148`);
* `editCleared`: the run `edit_after_clear`;
* `importReplaces`: aircraft imported next to a user aircraft without recording replace all
  aircraft, and the user aircraft index may then be out of range (`Flight.cpp:150`);
* `importUnrecorded`: imported aircraft without recording are not stored
  (`FlightImportPluginBase.cpp:364`) but added to the flight with the others (`:375`), so
  places and numbers do not match any more, and the user aircraft index may be written for an
  aircraft that the table does not have;
* `noSelection`: a double click on the table of the Formation module, or an edit in it, after
  the table was rebuilt and has no selection: `FormationWidget.cpp:939` makes index -1 the user
  aircraft, `:902` reads it, and either terminates the program;
* `dialogEvents`: the selection is read again after the confirmation of a deletion, while
  the end of a replay has reset it: index -1 terminates the program
  (`FormationWidget.cpp:975`).

Two more consequences hold in the run itself: an aircraft of a formation that could not be
stored leaves the last aircraft, not the one flown before, as user aircraft; and after a
deletion that failed, memory has one aircraft less than the table, so no aircraft can be
added to that flight (its number is taken) until it is loaded again.

### SqlMigration

A step is a tagged statement of one of two files, or a row of `Locations.csv`; every
release of the application adds `StepsPerRelease` to each. The last statement of a release
sets the version of the logbook, *in both files*. The position `at` moves over the steps,
`effects` counts how often a step was applied, `migr` is the table that registers it.
`Close` is the end of the program at any moment between two transactions, `Install` another
release, newer or older. `used` and `backups` are histories: with which releases the logbook
has been connected, and of which there is a copy without later steps.

| Code | Action |
|---|---|
| `connectWithLogbook`, `checkDatabaseVersion` | `Open`, `Close`, `Connect`, `NotConnected` |
| `DatabaseService::backup` | `Backup` |
| `migrateSql`, `checkApplied` | `Skip`, `EndFile` |
| `execute`, `registerMigration` | `ExecuteStep`, `StepFails`, `RegistrationFails` |
| `migrateCsv`, `migrateLocation` | `InsertLocation`, `LocationFails`, `RegisterLocation` |

`execute` returns success although the registration failed, and a commit that fails leaves
its transaction open (`pending`), so that the next step cannot begin one; a version that
cannot be read is taken for a new logbook; without a name left for a backup the migration
goes on. `disturbed` counts these three: the code goes on, and statements may be out of
order, an upgrade without backup, a newer logbook opened. `AppliedAsRegistered` holds even
then.

Other observations: `migrateCsv` overwrites its result with every row, so only a failure of
the last one is reported; an interruption between the insertion of a location and its
registration inserts it twice. As the version goes back while the second file is applied to
a new logbook, an interrupted migration can be opened by an older application, against
"Logbooks created with newer versions cannot be opened" (`PersistenceManager.cpp:126`), but
only when the logbook was never used with the newer one: `NewerIsNotOpened` is what remains.

### EventState

One switch: a light (`StatelessSwitch`, can only be toggled), or the flaps handle or the
simulation rate (`StatefulSwitch`, can only be stepped up and down); the switches do not
depend on each other. `switch` has the members of the code, `calls` and `answers` are the
two directions of the connection, `sim` and `limit` the simulator. SimConnect handles the
calls of a client in their order, and answers later. `asked` is what the recording or the
user wants, nothing after a reset.

The session's operations reset the switch, request a value, or both: `StartReplay`,
`ResumeReplay`, `StopReplay`, `SetReplaySpeedFactor`, `Seek`, `Frame`. The answer is
`Dispatch`, which toggles, steps, or only remembers the value. `Hazards` are sequences in
which the code does not get the switch right. All of them may happen in the run; `disturbed`
remembers one until the switch is reset with no answer under way (`StartReplay`, `ResumeReplay`,
`Seek`), so `AsRequested` and `InSync` also show that the code recovers there:

* `late`: the switch is reset, or a recording started, with an answer under way. Both answers
  are acted upon; with two questions under way, a light toggled by each of them asks again for
  ever, although `pending` "indicates whether a 'test' query is pending" (`EventState.h:62`);
* `unasked`: the rate is read although none has been asked for: the run `read_rate`;
* `restart`: the simulator is started again while a replay goes on, or a rate that is still
  marked valid is reset by clearing the flight: the value remembered is not the one there;
* `manual`, `range`: the user moves flaps or rate in the simulator, or the aircraft has fewer
  positions: steps are counted from where the switch is not.

## 4. Runs

| Run | Constants | Shows |
|---|---|---|
| `calm` | no faults, shortcuts and time mode on | streams match the state (`StreamsMatchState`), freeze matches state and mode (`FreezeMatchesState`), sessions end only by being stopped (`SessionIsKept`) |
| `faults` | all faults, shortcuts and time mode on (setup and time calls retry inside of other operations) | `TypeOK`; no stream is running that the plugin has no record of (`NoForgottenSubscription`); stopping is silent (`SessionEndsSilently`); `Reconnects` |
| `clock` | half, normal, double speed; duration up to 3, time up to 8 | without hazards, refinement of `Playback` |
| `clock_disturbed` | half and normal speed; duration up to 2, time up to 6; all hazards | `TypeOK` with undefined timers; samples in chronological order in each recording that is not disturbed itself (`SamplesInOrder`); a replay left alone ends or loops (`ReplayEnds`) |
| `search` | up to 4 samples recorded (more by augmentation), timestamps up to 5, window 1, threshold 2 | the index kept stays within the samples (`TypeOK`); `SearchFindsInterval`; `SearchAdvances` and `SearchEnds`; a position does not vanish, and the samples used are those around the timestamp, within the window, from the first sample on (`SupportSurrounds`) |
| `ai` | 3 identifiers, 2 aircraft, 3 requests per connection | no object is left behind (`NothingLeaks`); the objects are those of the flight (`ObjectsMatchFlight`); an object nobody wants is removed (`DiscardedObjectsAreRemoved`) |
| `store` | 2 flights, 3 aircraft in the table and per flight, 2 values; transactions that fail to store an aircraft, delete or edit, imports that fail half-way | tables consistent (`LogbookConsistent`), no index out of range (`IndicesExist`), memory and tables agree (`StoreAgrees`), an edit writes no aircraft of another flight (`EditsStayInFlight`), refinement of `Logbook` |
| `migration` | 2 releases, 2 steps each, 2 copies of a location, 1 disturbance | each statement once (`AppliedAsRegistered`), in order (`MigratedInOrder`), with backup (`UpgradesAreBackedUp`), not opened by older releases (`NewerIsNotOpened`), completed in the end (`FailuresAreRetried`) |
| `events` | 4 positions (0 to 3), 4 calls and answers under way; all hazards | unless confused since its last reset, the switch ends where it was asked to be (`AsRequested`) and the plugin knows where it is (`InSync`); a replay with a constant value gets it there (`Settles`) |

The session has no bounds: all its variables range over finite sets, and TLC covers
every reachable state for the constants. The clock is bounded by `MaxDuration` and
`MaxTime`: time up to more than twice the longest flight at the fastest rate includes
replay past the end, seeks to every timestamp, several pauses within a recording and
changes of speed between them; rates 1, 2, 4 against `Normal = 2` include slow motion
(below the rate of a recording), which behaves differently from acceleration.
Four samples and a threshold of 2 let the binary search start in each of its three
intervals and go on for several iterations, and the linear search meet its ends; the
window of 1 leaves gaps between samples.
Two aircraft of three identifiers let an aircraft be replaced by one with another
identifier or the same; three requests let an aircraft be removed and added again with an
answer under way, and another one in between. Three rows let a flight have an aircraft before
and behind the one removed, and two flights share the table. Two releases are an older and a
newer one; the version that goes back needs both files and two releases, the order within a
release two steps. The proofs are for any number. Four positions let the flaps be more than
one step away, and four calls hold the way through all of them and a question.
`Tick` stops at `MaxTime`, so TLC sees no state that differs only by more waiting;
`Dispatch` and the controls keep both modules free of deadlock. In `SimConnectAi` the
requests of a connection may be used up, so deadlock is not checked there.

Runs that end in a violation check one property each, something a comment or document
says, against what the code does:

| Run | Says | Does |
|---|---|---|
| `crash_in_recording` | reconnect after a server crash | the simulator has crashed and been started again before the recording: the first attempt meets the old connection, the retry on the new one finds the period remembered and requests nothing |
| `edit_after_clear` | an identifier of -1 says that an object was never stored | the aircraft of a cleared flight keeps the identifier of a stored one, and an edit writes that row of another flight |
| `read_rate` | "Requests the current simulation rate" | the answer to the question sets the rate to the one last requested, 0.0625 after a reset |

More disagreements are visible in the models, with the faults and hazards named in
section 3, and have no run. After a reconnect in a replay, the flag that a subscription exists
is stale and no frame arrives; a change of settings in a running session drops the state to
Connected; slow motion selected while recording moves the timestamp back (`rate`); a pause
before the first position resets the time (`earlyPause`); before the first sample, the last one
is used however far away it is, although "only sampled data within that time window is considered
for interpolation" (`SkySearch.h:49`): `SupportSurrounds` is about timestamps from the first
sample on. The strobe light is requested from the value of the taxi light
(`EventStateHandler.h:237`), a slip within one line that no model is needed for. A recording that was
paused, unpaused and stopped leaves `elapsedTime` behind the timestamp shown, and a
replay starts from it (`formation` hazard; "in order to continue from current
timestamp", `AbstractSkyConnect.cpp:327`). An operation whose
retry fails leaves `Disconnected` without a reconnect timer (`startRecording`,
`startReplay`, `seek`), while the change log speaks of automatic reconnects. The timer
of the simulation time is started by a seek without a replay and only stopped by
`stopReplay`, so it runs through a recording started in between.

## 5. Fairness

`SkyConnect!FairSpec`: weak fairness of the reconnect timer, which Qt fires when it is
not stopped. Nothing is assumed of the simulator or the user; `Reconnects` therefore
allows for the simulator to go down again. `ReplayClock!FairSpec`: time passes, and the
simulator sends frame events (`Frame` or `EndReached`) while a replay runs. `ReplayEnds`
is conditional on the user leaving the replay alone from some point on; before, anything
may have been done to its clock. `SkySearch!FairSpec`: weak fairness of the iterations,
as a call runs to its end. `SimConnectAi!Spec`: answers that have arrived are dispatched; that
the simulator creates an object is not assumed. `SqlMigration!FairSpec`: the program goes on
with what it does; `FailuresAreRetried` is for a logbook that, from some point on, is opened
whenever it is closed and meets no more failures. `EventState!FairSpec`: the simulator handles
calls, and answers are dispatched; `Settles` adds, as its premise, that frames come and that the switch is not disturbed any more.

## 6. Proofs

All theorems hold for every value of the constants that satisfies the named
assumptions. Some need that certain disturbances do not happen: `Faults = {}`,
`Hazards = {}`, or that `Hazards` lacks the members named, is then an explicit hypothesis
of the theorem. Properties about a clock or a switch that was not `disturbed` need no such
hypothesis. Of the faults and hazards that a hypothesis excludes, TLC finds the property violated with any
single one added to the run, except where the table of `FlightStoreLogbook_proofs` says otherwise.

* `SkyConnect_proofs`: with all faults. The inductive invariant is `TypeOK` and that
  the connection is *sound*: what the server sends is a part of what the plugin
  believes, and nothing is sent without a handle. Every helper on connections (`Retry`,
  `SetupLink`, `Ensure`, `Ask`...) preserves soundness, stated as lemmas; each action
  only combines helpers. `TypeCorrect`, `NothingForgotten` and `SessionsEndSilently`
  follow.
* `SkyConnect_proofs`, second part: without faults no handle is ever stale, the timer of a
  reconnect only runs without a connection, and the streams and the freeze match the
  state; these need each other (a start that fails must leave no stream, which it does
  as it cannot fail on an open handle), so they are proved as one invariant,
  `CalmSession`.
* `ReplayClock_proofs`: `TypeCorrect` for all hazards. `TypeOK` is not inductive, as
  `last` is computed from `base`, which an invalid timer leaves undefined; the
  strengthening `TrustedBase` says when `base` is a natural number.
* `ReplayClock_proofs`, second part: the refinement (`ClockCorrect`: initial states map to
  initial states, every step to a step of `Playback` or a stutter) and
  `SamplesCorrect`. The invariant relates elapsed time, timer and current timestamp in
  each state: outside of a running session they agree, in it the timestamp shown is
  not ahead of the position, and the last sample is not ahead of it either. `SamplesCorrect`
  holds for all hazards: `formation` and `loadFlight` only disturb where a replay starts;
  `rate` and `earlyPause` in a recording set `disturbed`, and the parts of the invariant about
  samples are guarded by it. The part of the invariant that is about replays (`InStep`) is guarded by
  the absence of `formation`.
* `SkySearch_proofs`: for samples of any number and order. The inductive invariant adds
  to `TypeOK` that the timestamp is *bracketed*: in the linear search it lies between the
  sample of the index and the last one, in the binary search between those of `low` and
  `high`. `TypeOK` alone is not inductive, as the binary search relies on `low < high`,
  and this on the bracket. `TypeCorrect`, `FindsInterval`, `Advances` and `Supports`
  follow; `Advances` holds because an interval of two neighbours around the timestamp is
  always found. The size of the interval is the decreasing measure of the loop; that the loop ends
  (`SearchEnds`) is left to TLC.
* `SimConnectAi_proofs`: for any flight and number of requests. The invariant says that requests
  are numbered up to the last one, that a request is in one stage of its life (asked, assigned or
  registered), and that on an open connection the objects are those assigned or registered. Each
  helper (`AddObject`, `RemoveObject`, `CreateAiObjects`...) keeps it, stated as a lemma; for the
  types, the user aircraft of a recording is the last one. `Typing` and `NothingIsLeft` follow.
  `ObjectsAreOfTheFlight` is about both ends and the flight together, and needs more
  (`MatchInv`): aircraft that are stored are told apart by their identifiers (`Named`), only
  the one being recorded next to others has none yet, and it is the last (`OneRecording`), and
  on an open connection that is undisturbed the requests are those of the aircraft that shall
  be seen (`Matching`). Each operation either keeps the match, creates the objects anew, or
  sets `disturbed`.
* `SqlMigration_proofs`: for any number of releases and steps. With all failures,
  `AppliedAsRegistered` needs to know that a transaction left open holds nothing that is registered
  and that a location is in the table before its row is registered (`PendingSound`). As long as
  `disturbed = 0`, `CalmInv` holds: the order of registrations within a file and between the files
  (`InOrder`), what the current migration has done so far (`Progress`), that the version is at least
  that of every location step set (`VersionSound`, which fails for logbook steps: the version goes
  back), and `UpgradesSound`. A logbook used with a release has its location steps, so its version
  is not lower: it is not opened by an older release, and a newer one that has not touched it sees
  the lower version and backs it up. `OrderCorrect`, `BackupsCorrect` and `VersionsCorrect` follow.
* `FlightStore_proofs`: with all hazards. `TypeOK` is not inductive: a flight that is
  read is a list of its rows by number only if no two of them have the same number (`RowsOK`,
  the UNIQUE constraint of the table), and a user aircraft index without an aircraft, which is
  where the program terminates, may be there only when it does not run any more (`FlightOK`).
  The effect of each helper on the tables (`WithRows`, the rows added; `ClosesGap`, the sequence numbers behind a
  removed row) is a lemma that the next module uses too.
* `FlightStoreLogbook_proofs`: for any number of flights and aircraft, one invariant,
  `StoreInv`, with the hypothesis `Regular`: no flight fails to be stored, and neither
  `importUnrecorded` nor `noSelection` happens. The tables are consistent; every
  aircraft held by a stored flight has a row of that flight (`HeldHasRow`), of its own
  (`HeldOnce`), *with a number that is at least its place*. It need not be its place: a
  deletion that fails leaves one aircraft fewer in memory than in the table, and then an
  aircraft can still be removed, or made that of the user, without a gap or a user aircraft
  that does not exist. As long as nothing has failed (`inStep`), numbers and places, data,
  title and user aircraft are the same (`SameAircraft`, `SameFlight`). What a confirmation
  asks about is still there when it is answered (`DialogOK`). Parts that a disturbance breaks
  are guarded by it, so that each theorem says no more than it needs:

  | Theorem | Hypothesis: `Hazards` lacks | of these, not broken by |
  |---|---|---|
  | `DatabaseConsistent` | `store`, `importUnrecorded`, `noSelection` | |
  | `IndicesInRange` | these, `load`, `importReplaces`, `dialogEvents` | |
  | `MemoryAgrees` | `store`, `importUnrecorded`, `noSelection`, `load`, `importReplaces` | `noSelection` |
  | `ImplementsTheLogbook` | `store`, `importUnrecorded`, `noSelection`, `editCleared` | |
  | `EditsOfThisFlight` | `store`, `importUnrecorded`, `noSelection`, `editCleared` | `importUnrecorded`, `noSelection` |

  The last column names what TLC finds harmless for the property on the instance, and is
  excluded because the proof rests on consistent tables. (With `importUnrecorded`,
  `ImplementsLogbook` fails as `Stored` misses an aircraft, which TLC reports as an error.)

  The refinement maps tables and current flight to the abstract logbook (`Stored`: of each
  flight the list of its rows by number). `InitRefines` and `StepRefines` are its two halves;
  `StoredCopies` says that the list exists and is the only one, which is what consistent
  tables are needed for, and each transaction is then shown to add, amend or remove one entry.
* `EventState_proofs`: with all hazards. Unless the switch is `disturbed`, which a reset with
  no answer under way ends, the position that
  the simulator will have when the calls under way are handled is a fold over these calls
  (`Course`), and the invariant says that at most one question is under way with nothing
  behind it (`OneQuestion`), that a position held valid is where the course ends (`Synced`),
  and that what is asked for is requested and either reached or awaits an answer (`Awaited`).
  The steps counted from a valid position (`Steps`) end where requested, so `SwitchAsRequested`
  and `SwitchInSync` follow.

Only model-checked is liveness (`Reconnects`, `ReplayEnds`, `SearchEnds`,
`DiscardedObjectsAreRemoved`, `FailuresAreRetried`, `Settles`): it needs fairness, and with it
ENABLED. So are the three violations, which are counterexamples.

## 7. Not modelled

Simulator payloads, the dialogs, files, translations and presentation are data. Settings
that change rarely (time mode, shortcuts) are constants. `PathCreatorPlugin` is an instance
without failures of the same abstract class. In particular:

* the echo of `PAUSE_SET` as a Pause event: when SimConnect sends it is not known from the code;
* AI objects removed by the simulator on its own;
* the flight number that `FlightData::clear` leaves; `resetAllTimeOffsets`, which is several edits;
* messages that wait on a connection: each is handled in the state in which it was sent;
* the periodic backup when a logbook is closed, and the import of another logbook, which is
  migrated without backup; backup before migration is taken to be enabled, as it is by default;
* spoilers, gear, axes and the engine start, which are set to values, and light switches that
  switch several lights, except as a switch moved by the user; calls that fail in the middle of
  an operation of `EventState` are covered by `Restart` only;
* shortcut events (`InputEvent`) beyond the state they set, the choice of a plugin
  (`SkyConnectManager`), locations and the web server, analytics, statistics, import and export
  formats, settings and the widgets: they keep no state that interleaves with anything, or compute
  floating-point data that no property here tells apart.

The modules cover the code that keeps state across events. Most of the repository is presentation,
data access and file formats; the share of its lines that the models translate is small for that
reason.
