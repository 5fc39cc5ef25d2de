----------------------------- MODULE SkyConnect -----------------------------
(***************************************************************************)
(* The session with the flight simulator: AbstractSkyConnect (recording,   *)
(* replay, pause, seek, retries and timers) together with the connection,  *)
(* subscription and freeze bookkeeping of MSFSSimConnectPlugin.            *)
(*                                                                         *)
(* Every action is one call of SkyConnectIntf, one message handled by      *)
(* MSFSSimConnectPlugin::dispatch, one timer, or one thing the simulator   *)
(* does.  All of them run on the Qt event loop, so each is atomic; what    *)
(* may happen between any two of them is the nondeterminism of Next.       *)
(*                                                                         *)
(* Time is reduced to "at timestamp 0 or later" (atBegin); the values of   *)
(* the clock are the subject of module ReplayClock.                        *)
(***************************************************************************)

CONSTANTS
    Faults,         \* what the environment may do: a subset of FaultKinds
    HasShortcuts,   \* the plugin settings define flight simulator shortcuts
    TimeMode        \* Settings::isReplayTimeModeEnabled

FaultKinds == {"crash", "quit", "setup", "reconnect"}

ASSUME FaultsAssumption   == Faults \subseteq FaultKinds
ASSUME SettingsAssumption == HasShortcuts \in BOOLEAN /\ TimeMode \in BOOLEAN

VARIABLES
    state,          \* Connect::State
    replayMode,     \* SkyConnectIntf::ReplayMode
    io,             \* the SimConnect connection and what the plugin believes of it
    sim,            \* the flight simulator
    reconnectTimer, \* the single shot timer of the next connection attempt is running
    simTimeTimer,   \* simulationTimeUpdateTimer is running
    elapsedTimer,   \* elapsedTimer is valid
    atBegin,        \* currentTimestamp = 0
    flight          \* what the current flight holds

vars == <<state, replayMode, io, sim, reconnectTimer, simTimeTimer,
          elapsedTimer, atBegin, flight>>

IdleStates      == {"Disconnected", "Connected"}
RecordingStates == {"Recording", "RecordingPaused"}
ReplayStates    == {"Replay", "ReplayPaused"}
ActiveStates    == RecordingStates \cup ReplayStates
States          == IdleStates \cup ActiveStates
ReplayModes     == {"Normal", "UserAircraftManualControl", "FlyWithFormation"}

(***************************************************************************)
(* io.handle is "none" for a null handle, "open" for a connection that     *)
(* works, "stale" for a handle whose server has gone.  frame, data and     *)
(* sensor say which messages the server sends over the connection;         *)
(* subscribed, request and sensorRequest are the plugin's own copies:      *)
(* subscribedToSimulatedFrameEvent, currentRequestPeriod # NEVER and       *)
(* currentSensorPeriod # NEVER.  quit: a QUIT message waits for dispatch.  *)
(***************************************************************************)
Connections ==
    [handle : {"none", "open", "stale"},
     frame : BOOLEAN, data : BOOLEAN, sensor : BOOLEAN, quit : BOOLEAN,
     subscribed : BOOLEAN, request : BOOLEAN, sensorRequest : BOOLEAN]

\* sim.frozen: the user aircraft is frozen in the simulator.
Simulators == [up : BOOLEAN, frozen : BOOLEAN]

\* flight.user: the user aircraft has recorded positions; flight.formation: the
\* flight has other (recorded) aircraft besides the user aircraft.
Flights == [user : BOOLEAN, formation : BOOLEAN]

\* Flight::getTotalDurationMSec() > 0
HasDuration == flight.user \/ flight.formation

Alive(i) == i.handle = "open"

-----------------------------------------------------------------------------
(***************************************************************************)
(* The connection.  A SimConnect call succeeds exactly on an open handle.  *)
(***************************************************************************)

\* The server knows nothing of a connection it just accepted, or that was closed.
Fresh(i)  == [i EXCEPT !.handle = "open", !.frame = FALSE, !.data = FALSE,
                       !.sensor = FALSE, !.quit = FALSE]
Closed(i) == [Fresh(i) EXCEPT !.handle = "none"]

\* connectWithSim: a failed SimConnect_Open leaves the handle or clears it.
ConnectWithSim(i) == IF sim.up THEN {Fresh(i)} ELSE {i, Closed(i)}

\* updateRequestPeriod: remembered even when the requests fail.
RequestData(i, on) ==
    IF i.request = on
    THEN i
    ELSE [i EXCEPT !.request = on, !.data = on /\ (Alive(i) \/ i.data)]

\* updateReplaySensorPeriod
RequestSensor(i, on) ==
    IF i.sensorRequest = on
    THEN i
    ELSE [i EXCEPT !.sensorRequest = on, !.sensor = on /\ (Alive(i) \/ i.sensor)]

\* The "Frame" system event, guarded by subscribedToSimulatedFrameEvent.
Subscribe(i) ==
    IF i.subscribed \/ ~Alive(i)
    THEN i
    ELSE [i EXCEPT !.subscribed = TRUE, !.frame = TRUE]

\* Mutants: the call is dropped; the flag is not reset.
UnsubscribeWithoutCall(i) == [i EXCEPT !.subscribed = FALSE]
UnsubscribeKeepingFlag(i) == IF i.subscribed THEN [i EXCEPT !.frame = FALSE] ELSE i

Unsubscribe(i) ==
    IF i.subscribed
    THEN [i EXCEPT !.subscribed = FALSE, !.frame = FALSE]
    ELSE i

\* onStartFlightRecording and, for a formation, onStartAircraftRecording
StartRecordingIo(i, formation) ==
    IF formation THEN Subscribe(RequestData(i, TRUE)) ELSE RequestData(i, TRUE)

\* onStartReplay: its result does not depend on the connection when the plugin
\* believes that it is already subscribed.
StartReplayIo(i) == Subscribe(RequestSensor(i, TRUE))
StartReplayOk(i) == i.subscribed \/ Alive(i)

\* Mutant: the frame events go on.
StopRecordingIoDataOnly(i) == RequestData(i, FALSE)

StopRecordingIo(i) == RequestData(Unsubscribe(i), FALSE)
StopReplayIo(i)    == Unsubscribe(RequestSensor(i, FALSE))

Call(i) == i

\* retryWithReconnect(Body), where Body succeeds iff Ok: at most two attempts, a
\* new connection after each failure.
Retry(Body(_), Ok(_), i) ==
    LET first == Body(i)
    IN  IF Ok(i)
        THEN {first}
        ELSE IF sim.up THEN {Body(Fresh(first))} ELSE {first, Closed(first)}

\* Mutant: a retry does not replace a stale connection.
SetupLinkOnce(i) == IF i.handle = "none" THEN ConnectWithSim(i) ELSE {i}

\* The connection after retryConnectAndSetup (SetupOnly), and its result.
SetupLink(i) ==
    IF i.handle = "none"
    THEN ConnectWithSim(i)
    ELSE IF HasShortcuts THEN Retry(Call, Alive, i) ELSE {i}

SetupOk(i) == i.handle # "none" /\ (HasShortcuts => Alive(i))

\* tryFirstConnectAndSetup, called by every operation on a null handle, and
\* the state and the timer it leaves (s, running: the ones without it).
Ensure(i) == IF i.handle = "none" THEN SetupLink(i) ELSE {i}

\* Mutant: an attempt that is put off has a state of its own, which nobody handles.
StateAfterPutOff(i, j, s) ==
    IF i.handle # "none" THEN s
    ELSE IF SetupOk(j) THEN "Connected" ELSE "Connecting"

StateAfter(i, j, s) ==
    IF i.handle # "none" THEN s
    ELSE IF SetupOk(j) THEN "Connected" ELSE "Disconnected"

\* Mutant: a connection that succeeds does not stop the timer.
TimerAfterConnect(i, j, running) == running \/ (i.handle = "none" /\ ~SetupOk(j))

TimerAfter(i, j, running) == IF i.handle # "none" THEN running ELSE ~SetupOk(j)

\* A request of the kind "connect if necessary, then call with retry":
\* requestLocation, sendZuluDateTime, setUserAircraftInitialPosition...
Ask(i) == IF i.handle = "none" THEN SetupLink(i) ELSE Retry(Call, Alive, i)

\* The same for the simulation rate, which needs no call when it is known already.
AskRate(i) == IF i.handle = "none" THEN SetupLink(i) ELSE {i} \cup Ask(i)

\* updateSimulationTime: asks for the new time when there is any to send.
SendsTime  == TimeMode /\ HasDuration
AskTime(i) == IF SendsTime THEN Ask(i) ELSE {i}
StateAfterTime(i, j, s) == IF SendsTime THEN StateAfter(i, j, s) ELSE s
TimerAfterTime(i, j) ==
    IF SendsTime THEN TimerAfter(i, j, reconnectTimer) ELSE reconnectTimer

\* retryWithReconnect(sendAircraftData): without a connection, or with nothing
\* to send, it succeeds without a call.
Sent(i) ==
    IF i.handle = "stale"
    THEN {r \in [io : {i} \cup ConnectWithSim(i), ok : BOOLEAN] : sim.up => r.ok}
    ELSE {[io |-> i, ok |-> TRUE]}

\* updateUserAircraftFreeze
Freeze(mode, s) == s = "ReplayPaused" \/ (mode = "Normal" /\ s = "Replay")
Frozen(i, s)    == IF Alive(i) THEN Freeze(replayMode, s) ELSE sim.frozen

-----------------------------------------------------------------------------
Init ==
    /\ state = "Disconnected"
    /\ replayMode = "Normal"
    /\ io = [handle |-> "none", frame |-> FALSE, data |-> FALSE, sensor |-> FALSE,
             quit |-> FALSE, subscribed |-> FALSE, request |-> FALSE,
             sensorRequest |-> FALSE]
    /\ sim \in [up : BOOLEAN, frozen : {FALSE}]
    /\ reconnectTimer = FALSE
    /\ simTimeTimer = FALSE
    /\ elapsedTimer = FALSE
    /\ atBegin = TRUE
    /\ flight = [user |-> FALSE, formation |-> FALSE]

(***************************************************************************)
(* Connecting.                                                             *)
(***************************************************************************)

\* retryConnectAndSetup from connection i: whatever the state was.
RetryConnectAndSetup(i) ==
    \E j \in SetupLink(i) :
        /\ io' = j
        /\ state' = IF SetupOk(j) THEN "Connected" ELSE "Disconnected"
        /\ reconnectTimer' = ~SetupOk(j)

\* onPluginSettingsChanged(SetupOnly): also the first connection attempt, when the
\* plugin has been loaded and restores its settings.
SetupChanged ==
    /\ \/ "setup" \in Faults
       \/ state \in IdleStates
    /\ RetryConnectAndSetup(io)
    /\ UNCHANGED <<replayMode, sim, simTimeTimer, elapsedTimer, atBegin, flight>>

\* onPluginSettingsChanged(Reconnect): the connection is closed first.
ConnectionChanged ==
    /\ "reconnect" \in Faults
    /\ RetryConnectAndSetup(Closed(io))
    /\ UNCHANGED <<replayMode, sim, simTimeTimer, elapsedTimer, atBegin, flight>>

OnReconnectTimer ==
    /\ reconnectTimer
    /\ RetryConnectAndSetup(io)
    /\ UNCHANGED <<replayMode, sim, simTimeTimer, elapsedTimer, atBegin, flight>>

\* A QUIT message: disconnect(), then tryConnectAndSetup().
DispatchQuit ==
    /\ io.quit
    /\ RetryConnectAndSetup(Closed(io))
    /\ UNCHANGED <<replayMode, sim, simTimeTimer, elapsedTimer, atBegin, flight>>

(***************************************************************************)
(* Recording.                                                              *)
(***************************************************************************)

\* The flight and the user aircraft that a recording starts with.
FlightToRecord(addToFormation) ==
    [user |-> FALSE, formation |-> addToFormation /\ flight.user]

\* setupInitialRecordingPosition, then the start of the recording itself.
RecordingLinks(i, placed, formation) ==
    LET start(j) == StartRecordingIo(j, formation)
        placedAt == IF placed THEN Retry(Call, Alive, i) ELSE {i}
    IN  UNION {IF placed /\ ~Alive(j) THEN {j} ELSE Retry(start, Alive, j) : j \in placedAt}

\* startRecording(recordingMode, initialPosition): offered in idle states only.
StartRecording(addToFormation, placed) ==
    /\ state \in IdleStates
    /\ \E i \in Ensure(io) :
         /\ \/ /\ i.handle = "none"
               /\ io' = i
               /\ state' = "Disconnected"
               /\ UNCHANGED <<elapsedTimer, atBegin, flight>>
            \/ /\ i.handle # "none"
               /\ flight' = FlightToRecord(addToFormation)
               /\ atBegin' = TRUE
               /\ elapsedTimer' = FALSE
               /\ \E j \in RecordingLinks(i, placed, flight'.formation) :
                     /\ io' = j
                     /\ state' = IF Alive(j) THEN "Recording" ELSE "Disconnected"
         /\ reconnectTimer' = TimerAfter(io, i, reconnectTimer)
    /\ UNCHANGED <<replayMode, sim, simTimeTimer>>

\* stopRecording: elapsedTimer keeps running.
Stop_Recording ==
    /\ io' = StopRecordingIo(io)
    /\ state' = "Connected"
    /\ UNCHANGED <<replayMode, sim, reconnectTimer, simTimeTimer, elapsedTimer,
                   atBegin, flight>>

StopRecording == state \in RecordingStates /\ Stop_Recording

\* A data sample of the user aircraft; the first one starts elapsedTimer.
ReceiveSample ==
    /\ io.data
    /\ state = "Recording"
    /\ \E position \in BOOLEAN : flight' = [flight EXCEPT !.user = @ \/ position]
    /\ elapsedTimer' = TRUE
    /\ atBegin' \in IF elapsedTimer THEN BOOLEAN ELSE {TRUE}
    /\ UNCHANGED <<state, replayMode, io, sim, reconnectTimer, simTimeTimer>>

\* A "Frame" event while recording: a connection error stops the recording.
RecordingFrameFails ==
    /\ io.frame
    /\ state = "Recording"
    /\ io.handle = "stale"
    /\ Stop_Recording

(***************************************************************************)
(* Replay.                                                                 *)
(***************************************************************************)

\* Mutant: the aircraft stays frozen at the end of a replay.
UnfreezeForgotten(i) == UNCHANGED sim

Unfreeze(i) == sim' = [sim EXCEPT !.frozen = @ /\ ~Alive(i)]

\* stopReplay from connection i, with the reconnect timer running or not: the
\* simulation rate is reset last, which may open a new connection.
StopReplayFrom(i, running) ==
    LET quiet == StopReplayIo(i)
    IN  /\ \E j \in AskRate(quiet) :
             /\ io' = j
             /\ state' = StateAfter(quiet, j, "Connected")
             /\ reconnectTimer' = TimerAfter(quiet, j, running)
        /\ Unfreeze(quiet)
        /\ elapsedTimer' = FALSE
        /\ simTimeTimer' = FALSE

Stop_Replay ==
    /\ StopReplayFrom(io, reconnectTimer)
    /\ UNCHANGED <<replayMode, atBegin, flight>>

StopReplay == state \in ReplayStates /\ Stop_Replay

\* clearFlight: stop(), then an empty flight.
ClearFlight ==
    /\ state \notin RecordingStates
    /\ StopReplayFrom(io, reconnectTimer)
    /\ flight' = [user |-> FALSE, formation |-> FALSE]
    /\ UNCHANGED <<replayMode, atBegin>>

\* setupInitialReplayPosition, updateUserAircraftFreeze and updateSimulationTime
\* succeed; the first one needs a recorded position at the begin of the replay.
CanReplay(j, begin) ==
    /\ Alive(j)
    /\ replayMode # "FlyWithFormation" /\ begin => flight.user
    /\ TimeMode => HasDuration

ReplayStarts(j, running) ==
    /\ CanReplay(j, atBegin')
    /\ io' = j
    /\ state' = "Replay"
    /\ sim' = [sim EXCEPT !.frozen = Freeze(replayMode, "Replay")]
    /\ elapsedTimer' = FALSE
    /\ simTimeTimer' = (simTimeTimer \/ TimeMode)
    /\ reconnectTimer' = running

ReplayRefused(j, running) ==
    /\ io' = j
    /\ state' = "Disconnected"
    /\ reconnectTimer' = running
    /\ UNCHANGED <<sim, simTimeTimer>>

\* startReplay(skipToStart), also of a replay already running (setupInitialPosition
\* of AbstractModule, after it has resumed a paused replay).
StartReplay(skipToStart) ==
    /\ state \in IdleStates \cup {"Replay"}
    /\ \E i \in Ensure(io) :
         LET running == TimerAfter(io, i, reconnectTimer)
         IN  \/ /\ i.handle = "none"
                /\ ReplayRefused(i, running)
                /\ UNCHANGED <<elapsedTimer, atBegin>>
             \/ /\ i.handle # "none"
                /\ atBegin' = (atBegin \/ skipToStart)
                /\ \E j \in Retry(StartReplayIo, StartReplayOk, i) :
                     \/ /\ ~StartReplayOk(j)
                        /\ ReplayRefused(j, running)
                        /\ elapsedTimer' = FALSE
                     \/ StartReplayOk(j) /\ ReplayStarts(j, running)
                     \/ /\ StartReplayOk(j) /\ ~CanReplay(j, atBegin')
                        /\ StopReplayFrom(j, running)
    /\ UNCHANGED <<replayMode, flight>>

(***************************************************************************)
(* Pausing and seeking.                                                    *)
(***************************************************************************)

PauseRecording ==
    /\ state = "Recording"
    /\ state' = "RecordingPaused"
    /\ elapsedTimer' = FALSE
    /\ io' = RequestData(io, FALSE)
    /\ UNCHANGED <<replayMode, sim, reconnectTimer, simTimeTimer, atBegin, flight>>

\* The elapsed timer resumes only when positions have been recorded before.
ResumeRecording ==
    /\ state = "RecordingPaused"
    /\ state' = "Recording"
    /\ elapsedTimer' = (elapsedTimer \/ flight.user)
    /\ io' = RequestData(io, TRUE)
    /\ UNCHANGED <<replayMode, sim, reconnectTimer, simTimeTimer, atBegin, flight>>

PauseReplay ==
    /\ state = "Replay"
    /\ state' = "ReplayPaused"
    /\ elapsedTimer' = FALSE
    /\ sim' = [sim EXCEPT !.frozen = Frozen(io, "ReplayPaused")]
    /\ io' = Unsubscribe(RequestSensor(io, FALSE))
    /\ UNCHANGED <<replayMode, reconnectTimer, simTimeTimer, atBegin, flight>>

\* Setting the simulation time comes before the subscriptions.  The timer of that
\* time is restarted only outside of slots of the plugin (inSlot: the event comes
\* from dispatch, or from an action activated by it).
ResumeReplay(inSlot) ==
    /\ state = "ReplayPaused"
    /\ elapsedTimer' = TRUE
    /\ sim' = [sim EXCEPT !.frozen = Frozen(io, "Replay")]
    /\ simTimeTimer' = (simTimeTimer \/ (SendsTime /\ ~inSlot))
    /\ \E i \in AskTime(io) :
         /\ state' = StateAfterTime(io, i, "Replay")
         /\ reconnectTimer' = TimerAfterTime(io, i)
         /\ io' = Subscribe(RequestSensor(i, state' = "Replay"))
    /\ UNCHANGED <<replayMode, atBegin, flight>>

\* setPaused(App, enable)
SetPaused(enable) ==
    \/ enable  /\ (PauseRecording \/ PauseReplay)
    \/ ~enable /\ (ResumeRecording \/ \E inSlot \in BOOLEAN : ResumeReplay(inSlot))

\* A "Pause" event: unpausing is ignored at timestamp 0.
DispatchPause(enable) ==
    /\ Alive(io)
    /\ \/ enable  /\ (PauseRecording \/ PauseReplay)
       \/ ~enable /\ ~atBegin /\ (ResumeRecording \/ ResumeReplay(TRUE))

\* seek on connection i (not null), in state s: the simulation time and the data
\* at the new timestamp (0, if begin) are sent.
SeekFrom(i, s, begin, inSlot) ==
    /\ atBegin' = begin
    /\ simTimeTimer' = (simTimeTimer \/ (SendsTime /\ ~inSlot))
    /\ \E j \in AskTime(i) : \E sent \in Sent(j) :
         /\ io' = sent.io
         /\ state' = IF sent.ok THEN s ELSE "Disconnected"

\* seek and the skip operations: not offered while recording.
Seek(begin, inSlot) ==
    /\ state \notin RecordingStates
    /\ begin \/ HasDuration
    /\ \E i \in Ensure(io) :
         /\ reconnectTimer' = TimerAfter(io, i, reconnectTimer)
         /\ \/ /\ i.handle = "none"
               /\ io' = i
               /\ state' = "Disconnected"
               /\ UNCHANGED <<simTimeTimer, atBegin>>
            \/ /\ i.handle # "none"
               /\ SeekFrom(i, StateAfter(io, i, state), begin, inSlot)
    /\ UNCHANGED <<replayMode, sim, elapsedTimer, flight>>

(***************************************************************************)
(* A "Frame" event while replaying: replay().                              *)
(***************************************************************************)

\* The data are sent; the first frame starts the elapsed timer.
ReplayFrame ==
    /\ io.frame
    /\ state = "Replay"
    /\ elapsedTimer' = TRUE
    /\ atBegin' \in IF elapsedTimer THEN BOOLEAN ELSE {atBegin}
    /\ UNCHANGED <<state, replayMode, io, sim, reconnectTimer, simTimeTimer, flight>>

\* The data cannot be sent: a connection error.
ReplayFrameFails ==
    /\ io.frame
    /\ state = "Replay"
    /\ ~Alive(io)
    /\ Stop_Replay

\* onEndReached
EndReached ==
    /\ io.frame
    /\ state = "Replay"
    /\ elapsedTimer \/ ~atBegin
    /\ \/ /\ SeekFrom(io, "Replay", TRUE, TRUE)
          /\ UNCHANGED <<replayMode, sim, reconnectTimer, elapsedTimer, flight>>
       \/ /\ atBegin' = FALSE
          /\ StopReplayFrom(io, reconnectTimer)
          /\ UNCHANGED <<replayMode, flight>>

\* A "Crashed" event: the user aircraft has crashed.
Crashed ==
    /\ Alive(io)
    /\ \/ state = "Recording" /\ Stop_Recording
       \/ state = "Replay" /\ Stop_Replay

(***************************************************************************)
(* Other requests and timers, the current flight, the simulator.           *)
(***************************************************************************)

SetReplayMode(mode) ==
    /\ state \notin RecordingStates
    /\ replayMode' = mode
    /\ sim' = IF mode # replayMode /\ Alive(io)
              THEN [sim EXCEPT !.frozen = Freeze(mode, state)]
              ELSE sim
    /\ UNCHANGED <<state, io, reconnectTimer, simTimeTimer, elapsedTimer, atBegin, flight>>

SetReplaySpeedFactor ==
    /\ state \in ReplayStates
    /\ \E i \in AskRate(io) :
         /\ io' = i
         /\ state' = StateAfter(io, i, state)
         /\ reconnectTimer' = TimerAfter(io, i, reconnectTimer)
    /\ UNCHANGED <<replayMode, sim, simTimeTimer, elapsedTimer, atBegin, flight>>

\* requestLocation, requestSimulationRate, requestTimeZoneInfo, sendZuluDateTime,
\* setUserAircraftInitialPosition: possible in any state.
Request ==
    /\ \E i \in Ask(io) :
         /\ io' = i
         /\ state' = StateAfter(io, i, state)
         /\ reconnectTimer' = TimerAfter(io, i, reconnectTimer)
    /\ UNCHANGED <<replayMode, sim, simTimeTimer, elapsedTimer, atBegin, flight>>

\* The simulation time is synchronised.
UpdateSimulationTime ==
    /\ simTimeTimer
    /\ \E i \in AskTime(io) :
         /\ io' = i
         /\ state' = StateAfterTime(io, i, state)
         /\ reconnectTimer' = TimerAfterTime(io, i)
    /\ UNCHANGED <<replayMode, sim, simTimeTimer, elapsedTimer, atBegin, flight>>

\* A flight is loaded from the logbook or imported; the timestamp stays.
FlightRestored ==
    /\ state \notin RecordingStates
    /\ flight' \in Flights
    /\ UNCHANGED <<state, replayMode, io, sim, reconnectTimer, simTimeTimer,
                   elapsedTimer, atBegin>>

\* The simulator starts, dies, or quits with a QUIT message; what it has sent
\* before may still be dispatched.
SimStart ==
    /\ ~sim.up
    /\ sim' = [up |-> TRUE, frozen |-> FALSE]
    /\ UNCHANGED <<state, replayMode, io, reconnectTimer, simTimeTimer, elapsedTimer,
                   atBegin, flight>>

SimStop(quit) ==
    /\ sim.up
    /\ (IF quit THEN "quit" ELSE "crash") \in Faults
    /\ sim' = [up |-> FALSE, frozen |-> FALSE]
    /\ io' = IF Alive(io) THEN [io EXCEPT !.handle = "stale", !.quit = quit] ELSE io
    /\ UNCHANGED <<state, replayMode, reconnectTimer, simTimeTimer, elapsedTimer,
                   atBegin, flight>>

-----------------------------------------------------------------------------
Connecting ==
    SetupChanged \/ ConnectionChanged \/ OnReconnectTimer \/ DispatchQuit

Recording ==
    \/ \E addToFormation, placed \in BOOLEAN : StartRecording(addToFormation, placed)
    \/ StopRecording \/ ReceiveSample \/ RecordingFrameFails

Replaying ==
    \/ \E skipToStart \in BOOLEAN : StartReplay(skipToStart)
    \/ StopReplay \/ ClearFlight \/ ReplayFrame \/ ReplayFrameFails \/ EndReached

Controlling ==
    \/ \E enable \in BOOLEAN : SetPaused(enable) \/ DispatchPause(enable)
    \/ \E begin, inSlot \in BOOLEAN : Seek(begin, inSlot)
    \/ \E mode \in ReplayModes : SetReplayMode(mode)
    \/ Crashed \/ SetReplaySpeedFactor \/ Request \/ UpdateSimulationTime

Environment == FlightRestored \/ SimStart \/ \E quit \in BOOLEAN : SimStop(quit)

Next == Connecting \/ Recording \/ Replaying \/ Controlling \/ Environment

Spec == Init /\ [][Next]_vars

\* Qt fires a timer that is not stopped.
FairSpec == Spec /\ WF_vars(OnReconnectTimer)

-----------------------------------------------------------------------------
(***************************************************************************)
(* Properties of every session.                                            *)
(***************************************************************************)

\* Every variable keeps to the values that the code gives it.
TypeOK ==
    /\ state \in States
    /\ replayMode \in ReplayModes
    /\ io \in Connections
    /\ sim \in Simulators
    /\ reconnectTimer \in BOOLEAN
    /\ simTimeTimer \in BOOLEAN
    /\ elapsedTimer \in BOOLEAN
    /\ atBegin \in BOOLEAN
    /\ flight \in Flights

\* Whatever happens to the connection, no message stream runs that the plugin has
\* no record of, so the next stop or pause can still switch it off; and nothing is
\* dispatched once the handle is gone (MSFSSimConnectPlugin keeps the period and
\* subscription members across connections).
NoForgottenSubscription ==
    /\ io.frame  => io.subscribed    /\ io.handle # "none"
    /\ io.data   => io.request       /\ io.handle # "none"
    /\ io.sensor => io.sensorRequest /\ io.handle # "none"

\* A session that is stopped (by the user, by the end of the replay, by a crash
\* of the aircraft or by a failing frame) leaves none of its streams running,
\* however often the connection was lost in between (onStopRecording, onStopReplay).
SessionEndsSilently ==
    [][/\ Stop_Recording => ~io'.frame /\ ~io'.data
       /\ Stop_Replay    => ~io'.frame /\ ~io'.sensor]_vars

\* Once a connection attempt has been put off, it is made, and reaches a simulator
\* that keeps running, even when the old handle is stale (retryConnectAndSetup).
Reconnects == reconnectTimer /\ sim.up ~> Alive(io) \/ ~sim.up

(***************************************************************************)
(* Properties of a session that no fault disturbs (Faults = {}).           *)
(***************************************************************************)

\* The streams that run are the ones that the state needs: samples and nothing
\* else when recording, frames for a formation even when its recording is paused,
\* frames and the altitude sensor when replaying, nothing when paused or idle.
StreamsMatchState ==
    /\ io.data   <=> state = "Recording"
    /\ io.sensor <=> state = "Replay"
    /\ io.frame  <=> \/ state = "Replay"
                     \/ state \in RecordingStates /\ flight.formation

\* The user gets control of the aircraft back exactly when the replay mode and
\* the state say so (updateUserAircraftFreeze is called by every change of them).
FreezeMatchesState == Alive(io) => sim.frozen = Freeze(replayMode, state)

\* A recording ends only through stopRecording and a replay only through stopReplay,
\* which also stops its timers: neither a pending connection attempt nor the setup
\* another operation may do drops the state (retryConnectAndSetup sets it to
\* Connected whatever it was).
SessionIsKept ==
    [][/\ state \in RecordingStates /\ state' \notin RecordingStates => Stop_Recording
       /\ state \in ReplayStates /\ state' \notin ReplayStates
            => ~elapsedTimer' /\ ~simTimeTimer']_vars

(***************************************************************************)
(* What a comment says of a disturbed session.                             *)
(***************************************************************************)

\* "Automatically reconnect in case the server crashed previously" (retryWithReconnect):
\* a recording that is started after the server has crashed, on the connection that the
\* retry has made, receives samples, as any recording that is started does.
RecordingGetsSamples ==
    [][(state \in IdleStates /\ state' = "Recording" /\ Alive(io')) => io'.data]_vars
=============================================================================
