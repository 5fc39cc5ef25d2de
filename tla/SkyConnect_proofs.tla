------------------------- MODULE SkyConnect_proofs -------------------------
(***************************************************************************)
(* Theorems about module SkyConnect.                                       *)
(*                                                                         *)
(* For every set of faults and all settings: the plugin changes the        *)
(* connection only with the operators of the first section of SkyConnect.  *)
(* Each is shown to preserve Sound, so that every action needs only the    *)
(* lemmas of the operators it uses.                                        *)
(*                                                                         *)
(* For sessions that no fault disturbs, where the simulator may start      *)
(* late, but does not die, and the plugin settings change in idle states   *)
(* only: the state then determines the connection, so that every action    *)
(* has one outcome for each state it is taken in.                          *)
(***************************************************************************)
EXTENDS SkyConnect, TLAPS

\* A connection whose streams are all known to the plugin.
Sound(i) ==
    /\ i \in Connections
    /\ i.frame  => i.subscribed    /\ i.handle # "none"
    /\ i.data   => i.request       /\ i.handle # "none"
    /\ i.sensor => i.sensorRequest /\ i.handle # "none"

-----------------------------------------------------------------------------
(***************************************************************************)
(* The operators on connections.                                           *)
(***************************************************************************)

\* A new and a closed connection have no streams (SimConnect_Open, SimConnect_Close).
LEMMA NewConnections ==
    ASSUME NEW i, Sound(i)
    PROVE  Sound(Fresh(i)) /\ Sound(Closed(i)) /\ Alive(Fresh(i))
BY DEF Sound, Connections, Fresh, Closed, Alive

\* The requests and subscriptions update the streams with the plugin's own copy.
LEMMA Requests ==
    ASSUME NEW i, Sound(i), NEW on \in BOOLEAN
    PROVE  Sound(RequestData(i, on)) /\ Sound(RequestSensor(i, on))
BY DEF Sound, Connections, RequestData, RequestSensor, Alive

LEMMA Subscriptions ==
    ASSUME NEW i, Sound(i)
    PROVE  Sound(Subscribe(i)) /\ Sound(Unsubscribe(i))
BY DEF Sound, Connections, Subscribe, Unsubscribe, Alive

LEMMA StartsAndStops ==
    ASSUME NEW i, Sound(i), NEW formation \in BOOLEAN
    PROVE  /\ Sound(StartRecordingIo(i, formation))
           /\ Sound(StartReplayIo(i))
           /\ Sound(StopRecordingIo(i))
           /\ Sound(StopReplayIo(i))
BY Requests, Subscriptions
   DEF StartRecordingIo, StartReplayIo, StopRecordingIo, StopReplayIo

\* connectWithSim, whether it succeeds or not.
LEMMA Opened ==
    ASSUME NEW i, Sound(i), NEW j \in ConnectWithSim(i)
    PROVE  Sound(j)
BY NewConnections DEF ConnectWithSim

\* The three uses of retryWithReconnect.
LEMMA RetriedCall ==
    ASSUME NEW i, Sound(i), NEW j \in Retry(Call, Alive, i)
    PROVE  Sound(j)
BY NewConnections DEF Retry, Call

LEMMA RetriedReplay ==
    ASSUME NEW i, Sound(i), NEW j \in Retry(StartReplayIo, StartReplayOk, i)
    PROVE  Sound(j)
<1>1. Sound(StartReplayIo(i))
  BY StartsAndStops
<1>2. Sound(StartReplayIo(Fresh(StartReplayIo(i)))) /\ Sound(Closed(StartReplayIo(i)))
  BY <1>1, NewConnections, StartsAndStops
<1> QED
  BY <1>1, <1>2 DEF Retry

LEMMA RetriedRecording ==
    ASSUME NEW i, Sound(i), NEW placed \in BOOLEAN, NEW formation \in BOOLEAN,
           NEW j \in RecordingLinks(i, placed, formation)
    PROVE  Sound(j)
<1> DEFINE start(k) == StartRecordingIo(k, formation)
<1>1. ASSUME NEW k, Sound(k), NEW l \in Retry(start, Alive, k)
      PROVE  Sound(l)
  <2>1. Sound(start(k))
    BY <1>1, StartsAndStops
  <2>2. Sound(start(Fresh(start(k)))) /\ Sound(Closed(start(k)))
    BY <2>1, NewConnections, StartsAndStops
  <2> QED
    BY <1>1, <2>1, <2>2 DEF Retry
<1>2. PICK k \in (IF placed THEN Retry(Call, Alive, i) ELSE {i}) :
        j \in (IF placed /\ ~Alive(k) THEN {k} ELSE Retry(start, Alive, k))
  BY DEF RecordingLinks
<1>3. Sound(k)
  BY <1>2, RetriedCall
<1> QED
  BY <1>1, <1>2, <1>3

\* The requests that connect when necessary: retryConnectAndSetup and its callers.
LEMMA Setups ==
    ASSUME NEW i, Sound(i)
    PROVE  /\ \A j \in SetupLink(i) : Sound(j)
           /\ \A j \in Ensure(i) : Sound(j)
           /\ \A j \in Ask(i) : Sound(j)
           /\ \A j \in AskRate(i) : Sound(j)
           /\ \A j \in AskTime(i) : Sound(j)
<1>1. \A j \in SetupLink(i) : Sound(j)
  BY Opened, RetriedCall DEF SetupLink
<1>2. \A j \in Ask(i) : Sound(j)
  BY <1>1, RetriedCall DEF Ask
<1> QED
  BY <1>1, <1>2 DEF Ensure, AskRate, AskTime

\* retryWithReconnect(sendAircraftData)
LEMMA Sending ==
    ASSUME NEW i, Sound(i), NEW sent \in Sent(i)
    PROVE  Sound(sent.io) /\ sent.ok \in BOOLEAN
<1>1. CASE i.handle = "stale"
  <2>1. sent \in [io : {i} \cup ConnectWithSim(i), ok : BOOLEAN]
    BY <1>1 DEF Sent
  <2> QED
    BY <2>1, Opened
<1>2. CASE i.handle # "stale"
  <2>1. sent = [io |-> i, ok |-> TRUE]
    BY <1>2 DEF Sent
  <2> QED
    BY <2>1
<1> QED
  BY <1>1, <1>2

\* The states and timers that a connection attempt leaves.
LEMMA Attempts ==
    ASSUME NEW i, NEW j, NEW s \in States, NEW running \in BOOLEAN
    PROVE  /\ StateAfter(i, j, s) \in States
           /\ TimerAfter(i, j, running) \in BOOLEAN
           /\ StateAfterTime(i, j, s) \in States
           /\ reconnectTimer \in BOOLEAN => TimerAfterTime(i, j) \in BOOLEAN
BY DEF StateAfter, TimerAfter, StateAfterTime, TimerAfterTime, States, IdleStates, SetupOk

-----------------------------------------------------------------------------
(***************************************************************************)
(* The inductive invariant: types, and no stream that the plugin forgot.   *)
(***************************************************************************)
IInv == TypeOK /\ Sound(io)

LEMMA InitIInv == Init => IInv
<1> SUFFICES ASSUME Init PROVE IInv
  OBVIOUS
<1>1. Sound(io)
  BY DEF Init, Sound, Connections
<1>2. sim \in Simulators /\ flight \in Flights
  BY DEF Init, Simulators, Flights
<1> QED
  BY <1>1, <1>2 DEF Init, IInv, TypeOK, Sound, States, IdleStates, ReplayModes

LEMMA ConnectingIInv == IInv /\ Connecting => IInv'
<1> SUFFICES ASSUME IInv, Connecting PROVE IInv'
  OBVIOUS
<1>1. ASSUME NEW i, Sound(i), RetryConnectAndSetup(i)
      PROVE  Sound(io') /\ state' \in States /\ reconnectTimer' \in BOOLEAN
  BY <1>1, Setups DEF RetryConnectAndSetup, SetupOk, States, IdleStates
<1>2. Sound(io) /\ Sound(Closed(io))
  BY NewConnections DEF IInv
<1> QED
  BY <1>1, <1>2
     DEF IInv, TypeOK, Connecting, SetupChanged, ConnectionChanged, OnReconnectTimer,
         DispatchQuit, Sound

\* stopReplay
LEMMA StopReplayIInv ==
    ASSUME NEW i, Sound(i), NEW running \in BOOLEAN, TypeOK, StopReplayFrom(i, running)
    PROVE  /\ Sound(io') /\ state' \in States /\ reconnectTimer' \in BOOLEAN
           /\ sim' \in Simulators
           /\ elapsedTimer' \in BOOLEAN /\ simTimeTimer' \in BOOLEAN
<1>1. Sound(StopReplayIo(i))
  BY StartsAndStops
<1>2. PICK j \in AskRate(StopReplayIo(i)) :
        /\ io' = j
        /\ state' = StateAfter(StopReplayIo(i), j, "Connected")
        /\ reconnectTimer' = TimerAfter(StopReplayIo(i), j, running)
  BY DEF StopReplayFrom
<1>3. sim' \in Simulators /\ elapsedTimer' \in BOOLEAN /\ simTimeTimer' \in BOOLEAN
  BY DEF StopReplayFrom, Unfreeze, TypeOK, Simulators, Alive
<1> QED
  BY <1>1, <1>2, <1>3, Setups, Attempts DEF States, IdleStates

LEMMA Stop_ReplayIInv == IInv /\ Stop_Replay => IInv'
BY StopReplayIInv DEF IInv, TypeOK, Stop_Replay, Sound

LEMMA Stop_RecordingIInv == IInv /\ Stop_Recording => IInv'
BY StartsAndStops DEF IInv, TypeOK, Stop_Recording, Sound, States, IdleStates

LEMMA RecordingIInv == IInv /\ Recording => IInv'
<1> SUFFICES ASSUME IInv, Recording PROVE IInv'
  OBVIOUS
<1> USE DEF IInv
<1>1. ASSUME NEW addToFormation \in BOOLEAN, NEW placed \in BOOLEAN,
             StartRecording(addToFormation, placed)
      PROVE  IInv'
  <2>1. PICK i \in Ensure(io) :
          /\ \/ /\ i.handle = "none"
                /\ io' = i
                /\ state' = "Disconnected"
                /\ UNCHANGED <<elapsedTimer, atBegin, flight>>
             \/ /\ i.handle # "none"
                /\ flight' = FlightToRecord(addToFormation)
                /\ atBegin' = TRUE
                /\ elapsedTimer' = FALSE
                /\ \E j \in RecordingLinks(i, placed, flight'.formation) :
                      /\ io' = j
                      /\ state' = IF Alive(j) THEN "Recording" ELSE "Disconnected"
          /\ reconnectTimer' = TimerAfter(io, i, reconnectTimer)
    BY <1>1 DEF StartRecording
  <2>2. Sound(i)
    BY <2>1, Setups
  <2>3. reconnectTimer' \in BOOLEAN
    BY <2>1, Attempts DEF TypeOK, States, IdleStates
  <2>4. replayMode' \in ReplayModes /\ sim' \in Simulators /\ simTimeTimer' \in BOOLEAN
    BY <1>1 DEF StartRecording, TypeOK
  <2>5. CASE i.handle = "none"
    BY <2>1, <2>2, <2>3, <2>4, <2>5 DEF TypeOK, States, IdleStates, Sound
  <2>6. CASE i.handle # "none"
    <3>1. FlightToRecord(addToFormation) \in Flights
      BY DEF FlightToRecord, TypeOK, Flights
    <3>2. flight' \in Flights /\ flight'.formation \in BOOLEAN
      BY <2>1, <2>6, <3>1 DEF Flights
    <3>3. Sound(io')
      BY <2>1, <2>2, <2>6, <3>2, RetriedRecording
    <3>4. state' \in States
      BY <2>1, <2>6 DEF States, IdleStates, ActiveStates, RecordingStates
    <3> QED
      BY <2>1, <2>3, <2>4, <2>6, <3>2, <3>3, <3>4 DEF TypeOK, Sound
  <2> QED
    BY <2>5, <2>6
<1>2. CASE StopRecording
  BY <1>2, Stop_RecordingIInv DEF StopRecording
<1>3. CASE ReceiveSample
  <2>1. flight' \in Flights
    BY <1>3 DEF ReceiveSample, TypeOK, Flights
  <2> QED
    BY <1>3, <2>1 DEF ReceiveSample, TypeOK, Sound
<1>4. CASE RecordingFrameFails
  BY <1>4, Stop_RecordingIInv DEF RecordingFrameFails
<1> QED
  BY <1>1, <1>2, <1>3, <1>4 DEF Recording

LEMMA StartReplayIInv ==
    ASSUME IInv, NEW skipToStart \in BOOLEAN, StartReplay(skipToStart)
    PROVE  IInv'
<1>1. PICK i \in Ensure(io) :
        \/ /\ i.handle = "none"
           /\ ReplayRefused(i, TimerAfter(io, i, reconnectTimer))
           /\ UNCHANGED <<elapsedTimer, atBegin>>
        \/ /\ i.handle # "none"
           /\ atBegin' = (atBegin \/ skipToStart)
           /\ \E j \in Retry(StartReplayIo, StartReplayOk, i) :
                \/ /\ ~StartReplayOk(j)
                   /\ ReplayRefused(j, TimerAfter(io, i, reconnectTimer))
                   /\ elapsedTimer' = FALSE
                \/ /\ StartReplayOk(j)
                   /\ ReplayStarts(j, TimerAfter(io, i, reconnectTimer))
                \/ /\ StartReplayOk(j) /\ ~CanReplay(j, atBegin')
                   /\ StopReplayFrom(j, TimerAfter(io, i, reconnectTimer))
  BY DEF StartReplay
<1>2. Sound(i)
  BY <1>1, Setups DEF IInv
<1>3. TimerAfter(io, i, reconnectTimer) \in BOOLEAN
  BY Attempts DEF IInv, TypeOK, States, IdleStates
<1>4. replayMode' \in ReplayModes /\ flight' \in Flights
  BY DEF StartReplay, IInv, TypeOK
<1> DEFINE running == TimerAfter(io, i, reconnectTimer)
<1>5. ASSUME NEW j, Sound(j), ReplayRefused(j, running)
      PROVE  /\ Sound(io') /\ state' \in States /\ reconnectTimer' \in BOOLEAN
             /\ sim' \in Simulators /\ simTimeTimer' \in BOOLEAN
  BY <1>3, <1>5 DEF ReplayRefused, IInv, TypeOK, States, IdleStates
<1>6. ASSUME NEW j, Sound(j), ReplayStarts(j, running)
      PROVE  /\ Sound(io') /\ state' \in States /\ reconnectTimer' \in BOOLEAN
             /\ sim' \in Simulators
             /\ elapsedTimer' \in BOOLEAN /\ simTimeTimer' \in BOOLEAN
  BY <1>3, <1>6, SettingsAssumption
     DEF ReplayStarts, IInv, TypeOK, States, ActiveStates, ReplayStates, Simulators, Freeze
<1>7. CASE i.handle = "none"
  BY <1>1, <1>2, <1>4, <1>5, <1>7 DEF IInv, TypeOK, Sound
<1>8. CASE i.handle # "none"
  <2>1. PICK j \in Retry(StartReplayIo, StartReplayOk, i) :
          \/ ReplayRefused(j, running) /\ elapsedTimer' = FALSE
          \/ ReplayStarts(j, running)
          \/ StopReplayFrom(j, running)
    BY <1>1, <1>8
  <2>2. Sound(j)
    BY <1>2, RetriedReplay
  <2>3. atBegin' \in BOOLEAN
    BY <1>1, <1>8 DEF IInv, TypeOK
  <2>4. /\ Sound(io') /\ state' \in States /\ reconnectTimer' \in BOOLEAN
        /\ sim' \in Simulators
        /\ elapsedTimer' \in BOOLEAN /\ simTimeTimer' \in BOOLEAN
    BY <1>3, <1>5, <1>6, <2>1, <2>2, StopReplayIInv DEF IInv
  <2> QED
    BY <1>4, <2>3, <2>4 DEF IInv, TypeOK, Sound
<1> QED
  BY <1>7, <1>8

\* seek and its use at the end of a replay.
LEMMA SeekIInv ==
    ASSUME IInv, NEW i, Sound(i), NEW s \in States, NEW begin \in BOOLEAN,
           NEW inSlot \in BOOLEAN, SeekFrom(i, s, begin, inSlot)
    PROVE  /\ Sound(io') /\ state' \in States
           /\ atBegin' \in BOOLEAN /\ simTimeTimer' \in BOOLEAN
<1>1. PICK j \in AskTime(i) : \E sent \in Sent(j) :
        io' = sent.io /\ state' = IF sent.ok THEN s ELSE "Disconnected"
  BY DEF SeekFrom
<1>2. Sound(j)
  BY <1>1, Setups
<1>3. PICK sent \in Sent(j) :
        io' = sent.io /\ state' = IF sent.ok THEN s ELSE "Disconnected"
  BY <1>1
<1>4. Sound(io')
  BY <1>2, <1>3, Sending
<1>5. atBegin' \in BOOLEAN /\ simTimeTimer' \in BOOLEAN
  BY SettingsAssumption DEF SeekFrom, SendsTime, HasDuration, IInv, TypeOK, Flights
<1> QED
  BY <1>3, <1>4, <1>5 DEF States, IdleStates

LEMMA ReplayingIInv == IInv /\ Replaying => IInv'
<1> SUFFICES ASSUME IInv, Replaying PROVE IInv'
  OBVIOUS
<1>1. CASE \E skipToStart \in BOOLEAN : StartReplay(skipToStart)
  BY <1>1, StartReplayIInv
<1>2. CASE StopReplay \/ ReplayFrameFails
  BY <1>2, Stop_ReplayIInv DEF StopReplay, ReplayFrameFails
<1>3. CASE ClearFlight
  BY <1>3, StopReplayIInv DEF ClearFlight, IInv, TypeOK, Sound, Flights
<1>4. CASE ReplayFrame
  BY <1>4 DEF ReplayFrame, IInv, TypeOK, Sound
<1>5. CASE EndReached
  <2>1. CASE SeekFrom(io, "Replay", TRUE, TRUE)
             /\ UNCHANGED <<replayMode, sim, reconnectTimer, elapsedTimer, flight>>
    BY <2>1, SeekIInv
       DEF IInv, TypeOK, Sound, States, ActiveStates, ReplayStates
  <2>2. CASE atBegin' = FALSE /\ StopReplayFrom(io, reconnectTimer)
             /\ UNCHANGED <<replayMode, flight>>
    BY <2>2, StopReplayIInv DEF IInv, TypeOK, Sound
  <2> QED
    BY <1>5, <2>1, <2>2 DEF EndReached
<1> QED
  BY <1>1, <1>2, <1>3, <1>4, <1>5 DEF Replaying

\* setPaused
LEMMA PauseIInv ==
    ASSUME IInv,
           \/ PauseRecording \/ PauseReplay \/ ResumeRecording
           \/ \E inSlot \in BOOLEAN : ResumeReplay(inSlot)
    PROVE  IInv'
<1> USE DEF IInv
<1>1. CASE PauseRecording
  BY <1>1, Requests
     DEF PauseRecording, TypeOK, Sound, States, ActiveStates, RecordingStates
<1>2. CASE PauseReplay
  <2>1. Sound(io')
    BY <1>2, Requests, Subscriptions DEF PauseReplay
  <2>2. sim' \in Simulators
    BY <1>2 DEF PauseReplay, TypeOK, Simulators, Frozen, Freeze
  <2> QED
    BY <1>2, <2>1, <2>2 DEF PauseReplay, TypeOK, Sound, States, ActiveStates, ReplayStates
<1>3. CASE ResumeRecording
  <2>1. Sound(io')
    BY <1>3, Requests DEF ResumeRecording
  <2>2. elapsedTimer' \in BOOLEAN
    BY <1>3 DEF ResumeRecording, TypeOK, Flights
  <2> QED
    BY <1>3, <2>1, <2>2
       DEF ResumeRecording, TypeOK, Sound, States, ActiveStates, RecordingStates
<1>4. ASSUME NEW inSlot \in BOOLEAN, ResumeReplay(inSlot)
      PROVE  IInv'
  <2>1. PICK i \in AskTime(io) :
          /\ state' = StateAfterTime(io, i, "Replay")
          /\ reconnectTimer' = TimerAfterTime(io, i)
          /\ io' = Subscribe(RequestSensor(i, state' = "Replay"))
    BY <1>4 DEF ResumeReplay
  <2>2. Sound(i)
    BY <2>1, Setups
  <2>3. (state' = "Replay") \in BOOLEAN
    OBVIOUS
  <2>4. Sound(RequestSensor(i, state' = "Replay"))
    BY <2>2, <2>3, Requests
  <2>5. Sound(io')
    BY <2>1, <2>4, Subscriptions
  <2>6. state' \in States /\ reconnectTimer' \in BOOLEAN
    BY <2>1, Attempts DEF TypeOK, States, ActiveStates, ReplayStates
  <2>7. sim' \in Simulators
    BY <1>4 DEF ResumeReplay, TypeOK, Simulators, Frozen, Freeze
  <2>8. simTimeTimer' \in BOOLEAN
    BY <1>4, SettingsAssumption
       DEF ResumeReplay, TypeOK, SendsTime, HasDuration, Flights
  <2> QED
    BY <1>4, <2>5, <2>6, <2>7, <2>8 DEF ResumeReplay, TypeOK, Sound
<1> QED
  BY <1>1, <1>2, <1>3, <1>4

LEMMA ControllingIInv == IInv /\ Controlling => IInv'
<1> SUFFICES ASSUME IInv, Controlling PROVE IInv'
  OBVIOUS
<1>1. CASE \E enable \in BOOLEAN : SetPaused(enable) \/ DispatchPause(enable)
  BY <1>1, PauseIInv DEF SetPaused, DispatchPause
<1>2. ASSUME NEW begin \in BOOLEAN, NEW inSlot \in BOOLEAN, Seek(begin, inSlot)
      PROVE  IInv'
  <2>1. PICK i \in Ensure(io) :
          /\ reconnectTimer' = TimerAfter(io, i, reconnectTimer)
          /\ \/ /\ io' = i
                /\ state' = "Disconnected"
                /\ UNCHANGED <<simTimeTimer, atBegin>>
             \/ SeekFrom(i, StateAfter(io, i, state), begin, inSlot)
    BY <1>2 DEF Seek
  <2>2. Sound(i) /\ reconnectTimer' \in BOOLEAN /\ StateAfter(io, i, state) \in States
    BY <2>1, Setups, Attempts DEF IInv, TypeOK
  <2>3. /\ Sound(io') /\ state' \in States
        /\ atBegin' \in BOOLEAN /\ simTimeTimer' \in BOOLEAN
    BY <2>1, <2>2, SeekIInv DEF IInv, TypeOK, States, IdleStates
  <2> QED
    BY <1>2, <2>2, <2>3 DEF Seek, IInv, TypeOK, Sound
<1>3. CASE \E mode \in ReplayModes : SetReplayMode(mode)
  <2>1. sim' \in Simulators
    BY <1>3 DEF SetReplayMode, IInv, TypeOK, Simulators, Freeze
  <2> QED
    BY <1>3, <2>1 DEF SetReplayMode, IInv, TypeOK, Sound
<1>4. CASE Crashed
  BY <1>4, Stop_RecordingIInv, Stop_ReplayIInv DEF Crashed
<1>5. ASSUME NEW j, Sound(j), io' = j, state' = StateAfter(io, j, state),
             reconnectTimer' = TimerAfter(io, j, reconnectTimer),
             UNCHANGED <<replayMode, sim, simTimeTimer, elapsedTimer, atBegin, flight>>
      PROVE  IInv'
  BY <1>5, Attempts DEF IInv, TypeOK, Sound
<1>6. CASE SetReplaySpeedFactor \/ Request
  BY <1>5, <1>6, Setups DEF SetReplaySpeedFactor, Request, IInv
<1>7. CASE UpdateSimulationTime
  BY <1>7, Setups, Attempts DEF UpdateSimulationTime, IInv, TypeOK, Sound
<1> QED
  BY <1>1, <1>2, <1>3, <1>4, <1>6, <1>7 DEF Controlling

LEMMA EnvironmentIInv == IInv /\ Environment => IInv'
<1> SUFFICES ASSUME IInv, Environment PROVE IInv'
  OBVIOUS
<1>1. CASE FlightRestored
  BY <1>1 DEF FlightRestored, IInv, TypeOK, Sound
<1>2. CASE SimStart
  BY <1>2 DEF SimStart, IInv, TypeOK, Sound, Simulators
<1>3. ASSUME NEW quit \in BOOLEAN, SimStop(quit) PROVE IInv'
  <2>1. Sound(io')
    BY <1>3 DEF SimStop, IInv, Sound, Connections, Alive
  <2> QED
    BY <1>3, <2>1 DEF SimStop, IInv, TypeOK, Sound, Simulators
<1> QED
  BY <1>1, <1>2, <1>3 DEF Environment

LEMMA NextIInv == IInv /\ [Next]_vars => IInv'
<1>1. IInv /\ UNCHANGED vars => IInv'
  BY DEF IInv, TypeOK, Sound, vars
<1> QED
  BY <1>1, ConnectingIInv, RecordingIInv, ReplayingIInv, ControllingIInv, EnvironmentIInv
     DEF Next

THEOREM SpecIInv == Spec => []IInv
BY InitIInv, NextIInv, PTL DEF Spec

-----------------------------------------------------------------------------
\* Every variable keeps its type in every session, whatever the faults.
THEOREM TypeCorrect == Spec => []TypeOK
<1>1. IInv => TypeOK
  BY DEF IInv
<1> QED
  BY <1>1, SpecIInv, PTL

\* No stream runs that the plugin has forgotten, whatever happens to the connection.
THEOREM NothingForgotten == Spec => []NoForgottenSubscription
<1>1. IInv => NoForgottenSubscription
  BY DEF IInv, Sound, NoForgottenSubscription
<1> QED
  BY <1>1, SpecIInv, PTL

\* A session that is stopped leaves none of its streams running: what the stop
\* switches off is what the plugin remembers, and by Sound that is all there is.
THEOREM SessionsEndSilently == Spec => SessionEndsSilently
<1>1. ASSUME IInv, Stop_Recording
      PROVE  ~io'.frame /\ ~io'.data
  BY <1>1
     DEF IInv, Sound, Connections, Stop_Recording, StopRecordingIo, Unsubscribe, RequestData
<1>2. ASSUME IInv, Stop_Replay
      PROVE  ~io'.frame /\ ~io'.sensor
  <2> DEFINE quiet == StopReplayIo(io)
  <2>1. quiet \in Connections /\ ~quiet.frame /\ ~quiet.sensor
    BY <1>2 DEF IInv, Sound, Connections, StopReplayIo, Unsubscribe, RequestSensor
  <2> HIDE DEF quiet
  <2>2. /\ \A j \in ConnectWithSim(quiet) : ~j.frame /\ ~j.sensor
        /\ \A j \in Retry(Call, Alive, quiet) : ~j.frame /\ ~j.sensor
    BY <2>1 DEF ConnectWithSim, Retry, Call, Fresh, Closed, Connections
  <2>3. \A j \in AskRate(quiet) : ~j.frame /\ ~j.sensor
    BY <2>1, <2>2 DEF AskRate, Ask, SetupLink
  <2>4. io' \in AskRate(quiet)
    BY <1>2 DEF Stop_Replay, StopReplayFrom, quiet
  <2> QED
    BY <2>3, <2>4
<1>3. IInv /\ [Next]_vars =>
        [/\ Stop_Recording => ~io'.frame /\ ~io'.data
         /\ Stop_Replay    => ~io'.frame /\ ~io'.sensor]_vars
  BY <1>1, <1>2
<1> QED
  BY <1>3, SpecIInv, PTL DEF Spec, SessionEndsSilently

-----------------------------------------------------------------------------
(***************************************************************************)
(* Sessions that no fault disturbs.                                        *)
(***************************************************************************)
\* The connection in state s: the streams and the plugin's copies agree.
CalmIo(i, s, formation) ==
    /\ i \in Connections
    /\ i.handle = IF s = "Disconnected" THEN "none" ELSE "open"
    /\ i.frame <=> s = "Replay" \/ (s \in RecordingStates /\ formation)
    /\ i.data <=> s = "Recording"
    /\ i.sensor <=> s = "Replay"
    /\ ~i.quit
    /\ i.subscribed <=> i.frame
    /\ i.request <=> i.data
    /\ i.sensorRequest <=> i.sensor

CalmInv ==
    /\ TypeOK
    /\ CalmIo(io, state, flight.formation)
    /\ sim.frozen = Freeze(replayMode, state)
    /\ state # "Disconnected" => sim.up /\ ~reconnectTimer

-----------------------------------------------------------------------------
(***************************************************************************)
(* The connection operators without faults.                                *)
(***************************************************************************)

\* On a working connection no request needs an attempt to connect.
LEMMA OneAttempt ==
    ASSUME NEW i, Alive(i)
    PROVE  /\ Ask(i) = {i} /\ AskRate(i) = {i} /\ AskTime(i) = {i}
           /\ Ensure(i) = {i} /\ Sent(i) = {[io |-> i, ok |-> TRUE]}
           /\ \A j, s : StateAfter(i, j, s) = s /\ StateAfterTime(i, j, s) = s
           /\ \A j, running : TimerAfter(i, j, running) = running
           /\ \A j : TimerAfterTime(i, j) = reconnectTimer
<1>1. i.handle = "open"
  BY DEF Alive
<1>2. Retry(Call, Alive, i) = {i}
  BY DEF Retry, Call
<1>3. Ask(i) = {i} /\ Ensure(i) = {i} /\ Sent(i) = {[io |-> i, ok |-> TRUE]}
  BY <1>1, <1>2 DEF Ask, Ensure, Sent
<1> QED
  BY <1>1, <1>2, <1>3
     DEF AskRate, AskTime, StateAfter, StateAfterTime, TimerAfter, TimerAfterTime

\* Without a connection an attempt succeeds exactly when the simulator is there.
LEMMA FirstAttempt ==
    ASSUME NEW i, NEW f, NEW g, CalmIo(i, "Disconnected", f), NEW j \in SetupLink(i)
    PROVE  /\ sim.up => CalmIo(j, "Connected", g) /\ SetupOk(j)
           /\ ~sim.up => CalmIo(j, "Disconnected", g) /\ ~SetupOk(j)
<1>1. i.handle = "none" /\ j \in ConnectWithSim(i)
  BY DEF CalmIo, SetupLink
<1>2. CASE sim.up
  <2>1. j = Fresh(i)
    BY <1>1, <1>2 DEF ConnectWithSim
  <2>2. CalmIo(Fresh(i), "Connected", g)
    BY DEF Fresh, CalmIo, Connections, RecordingStates
  <2> QED
    BY <1>2, <2>1, <2>2 DEF CalmIo, SetupOk, Alive
<1>3. CASE ~sim.up
  <2>1. j = i \/ j = Closed(i)
    BY <1>1, <1>3 DEF ConnectWithSim
  <2> QED
    BY <1>3, <2>1
       DEF Closed, Fresh, CalmIo, SetupOk, Connections, RecordingStates
<1> QED
  BY <1>2, <1>3

\* The formation matters only while recording.
LEMMA CalmIdle ==
    ASSUME NEW i, NEW s, s \notin RecordingStates, NEW f, NEW g, CalmIo(i, s, f)
    PROVE  CalmIo(i, s, g)
BY DEF CalmIo

LEMMA CalmAlive ==
    ASSUME NEW i, NEW s, NEW f, CalmIo(i, s, f)
    PROVE  /\ Alive(i) <=> s # "Disconnected"
           /\ i.handle = "none" <=> s = "Disconnected"
           /\ i.handle # "stale"
BY DEF CalmIo, Alive

\* What the starts, the stops and the pauses make of the connection.
LEMMA CalmRecording ==
    ASSUME NEW i, NEW f \in BOOLEAN
    PROVE  /\ CalmIo(i, "Connected", f) => CalmIo(StartRecordingIo(i, f), "Recording", f)
           /\ \A s \in RecordingStates :
                CalmIo(i, s, f) => CalmIo(StopRecordingIo(i), "Connected", f)
           /\ CalmIo(i, "Recording", f) => CalmIo(RequestData(i, FALSE), "RecordingPaused", f)
           /\ CalmIo(i, "RecordingPaused", f) => CalmIo(RequestData(i, TRUE), "Recording", f)
<1> USE DEF CalmIo, RecordingStates, Connections, RequestData, Subscribe, Unsubscribe, Alive
<1>1. CalmIo(i, "Connected", f) => CalmIo(StartRecordingIo(i, f), "Recording", f)
  BY DEF StartRecordingIo
<1>2. \A s \in RecordingStates :
        CalmIo(i, s, f) => CalmIo(StopRecordingIo(i), "Connected", f)
  BY DEF StopRecordingIo
<1>3. CalmIo(i, "Recording", f) => CalmIo(RequestData(i, FALSE), "RecordingPaused", f)
  OBVIOUS
<1>4. CalmIo(i, "RecordingPaused", f) => CalmIo(RequestData(i, TRUE), "Recording", f)
  OBVIOUS
<1> QED
  BY <1>1, <1>2, <1>3, <1>4

LEMMA CalmReplay ==
    ASSUME NEW i, NEW f
    PROVE  /\ \A s \in {"Connected", "Replay"} :
                CalmIo(i, s, f) => CalmIo(StartReplayIo(i), "Replay", f)
           /\ \A s \in {"Connected", "Replay", "ReplayPaused"} :
                CalmIo(i, s, f) => CalmIo(StopReplayIo(i), "Connected", f)
           /\ CalmIo(i, "Disconnected", f) => CalmIo(StopReplayIo(i), "Disconnected", f)
           /\ CalmIo(i, "Replay", f) =>
                CalmIo(Unsubscribe(RequestSensor(i, FALSE)), "ReplayPaused", f)
           /\ CalmIo(i, "ReplayPaused", f) =>
                CalmIo(Subscribe(RequestSensor(i, TRUE)), "Replay", f)
<1> USE DEF CalmIo, RecordingStates, Connections, RequestSensor, Subscribe, Unsubscribe, Alive
<1>1. \A s \in {"Connected", "Replay"} :
        CalmIo(i, s, f) => CalmIo(StartReplayIo(i), "Replay", f)
  BY DEF StartReplayIo
<1>2. \A s \in {"Connected", "Replay", "ReplayPaused"} :
        CalmIo(i, s, f) => CalmIo(StopReplayIo(i), "Connected", f)
  BY DEF StopReplayIo
<1>3. CalmIo(i, "Disconnected", f) => CalmIo(StopReplayIo(i), "Disconnected", f)
  BY DEF StopReplayIo
<1>4. CalmIo(i, "Replay", f) =>
        CalmIo(Unsubscribe(RequestSensor(i, FALSE)), "ReplayPaused", f)
  OBVIOUS
<1>5. CalmIo(i, "ReplayPaused", f) =>
        CalmIo(Subscribe(RequestSensor(i, TRUE)), "Replay", f)
  OBVIOUS
<1> QED
  BY <1>1, <1>2, <1>3, <1>4, <1>5

-----------------------------------------------------------------------------
(***************************************************************************)
(* The inductive invariant.                                                *)
(***************************************************************************)

LEMMA InitCalm == Init => CalmInv
<1> SUFFICES ASSUME Init PROVE CalmInv
  OBVIOUS
<1>1. TypeOK
  BY InitIInv DEF IInv
<1>2. CalmIo(io, state, flight.formation)
  BY <1>1 DEF Init, CalmIo, TypeOK, RecordingStates
<1>3. sim.frozen = FALSE
  BY DEF Init
<1> QED
  BY <1>1, <1>2, <1>3 DEF Init, CalmInv, Freeze

\* A connection attempt in an idle state (retryConnectAndSetup).
LEMMA CalmAttempt ==
    ASSUME CalmInv, state \in IdleStates, RetryConnectAndSetup(io)
    PROVE  /\ \A g : CalmIo(io', state', g)
           /\ state' \in IdleStates
           /\ state' # "Disconnected" => sim.up /\ ~reconnectTimer'
<1>1. PICK j \in SetupLink(io) :
        /\ io' = j
        /\ state' = IF SetupOk(j) THEN "Connected" ELSE "Disconnected"
        /\ reconnectTimer' = ~SetupOk(j)
  BY DEF RetryConnectAndSetup
<1>2. CASE state = "Disconnected"
  <2>1. ASSUME NEW g
        PROVE  /\ sim.up => CalmIo(j, "Connected", g) /\ SetupOk(j)
               /\ ~sim.up => CalmIo(j, "Disconnected", g) /\ ~SetupOk(j)
    BY <1>1, <1>2, FirstAttempt DEF CalmInv
  <2> QED
    BY <1>1, <2>1 DEF IdleStates
<1>3. CASE state = "Connected"
  <2>1. Alive(io) /\ io.handle = "open"
    BY <1>3, CalmAlive DEF CalmInv, CalmIo
  <2>2. SetupLink(io) = {io} /\ SetupOk(io)
    BY <2>1 DEF SetupLink, SetupOk, Retry, Call
  <2>3. \A g : CalmIo(io, "Connected", g)
    BY <1>3, CalmIdle DEF CalmInv, RecordingStates
  <2> QED
    BY <1>1, <1>3, <2>2, <2>3 DEF CalmInv, IdleStates
<1> QED
  BY <1>2, <1>3 DEF IdleStates

LEMMA CalmConnecting == Faults = {} /\ CalmInv /\ TypeOK' /\ Connecting => CalmInv'
<1> SUFFICES ASSUME Faults = {}, CalmInv, TypeOK', Connecting PROVE CalmInv'
  OBVIOUS
<1>1. ~io.quit /\ (reconnectTimer => state = "Disconnected")
  BY DEF CalmInv, CalmIo, TypeOK
<1>2. /\ state \in IdleStates
      /\ RetryConnectAndSetup(io)
      /\ UNCHANGED <<replayMode, sim, flight>>
  BY <1>1 DEF Connecting, SetupChanged, ConnectionChanged, OnReconnectTimer, DispatchQuit,
              IdleStates
<1>3. sim'.frozen = FALSE /\ Freeze(replayMode', state') = FALSE
  BY <1>2, CalmAttempt DEF CalmInv, Freeze, IdleStates
<1> QED
  BY <1>2, <1>3, CalmAttempt DEF CalmInv

LEMMA CalmStopRecording ==
    ASSUME CalmInv, state \in RecordingStates, TypeOK', Stop_Recording
    PROVE  CalmInv'
<1>1. flight.formation \in BOOLEAN
  BY DEF CalmInv, TypeOK, Flights
<1>2. CalmIo(io', "Connected", flight.formation)
  BY <1>1, CalmRecording DEF CalmInv, Stop_Recording
<1>3. sim.frozen = FALSE
  BY DEF CalmInv, Freeze, RecordingStates
<1>4. sim.up /\ ~reconnectTimer
  BY DEF CalmInv, RecordingStates
<1> QED
  BY <1>2, <1>3, <1>4 DEF CalmInv, Stop_Recording, Freeze

\* stopReplay on a working connection.
LEMMA CalmStopReplay ==
    ASSUME NEW i, NEW f, NEW s \in {"Connected", "Replay", "ReplayPaused"},
           CalmIo(i, s, f), NEW running, StopReplayFrom(i, running)
    PROVE  /\ \A g : CalmIo(io', "Connected", g)
           /\ state' = "Connected" /\ reconnectTimer' = running
           /\ sim' = [sim EXCEPT !.frozen = FALSE]
           /\ elapsedTimer' = FALSE /\ simTimeTimer' = FALSE
<1> DEFINE quiet == StopReplayIo(i)
<1>1. CalmIo(quiet, "Connected", f)
  BY CalmReplay
<1>2. Alive(quiet)
  BY <1>1, CalmAlive
<1> HIDE DEF quiet
<1>3. /\ AskRate(quiet) = {quiet}
      /\ StateAfter(quiet, quiet, "Connected") = "Connected"
      /\ TimerAfter(quiet, quiet, running) = running
  BY <1>2, OneAttempt
<1>4. /\ \E j \in AskRate(quiet) :
           /\ io' = j
           /\ state' = StateAfter(quiet, j, "Connected")
           /\ reconnectTimer' = TimerAfter(quiet, j, running)
      /\ Unfreeze(quiet)
      /\ elapsedTimer' = FALSE /\ simTimeTimer' = FALSE
  BY DEF StopReplayFrom, quiet
<1>5. io' = quiet /\ state' = "Connected" /\ reconnectTimer' = running
  BY <1>3, <1>4
<1>6. sim' = [sim EXCEPT !.frozen = FALSE]
  BY <1>2, <1>4 DEF Unfreeze
<1> QED
  BY <1>1, <1>4, <1>5, <1>6, CalmIdle DEF RecordingStates

LEMMA CalmRecordingAction == CalmInv /\ TypeOK' /\ Recording => CalmInv'
<1> SUFFICES ASSUME CalmInv, TypeOK', Recording PROVE CalmInv'
  OBVIOUS
<1>1. ASSUME NEW addToFormation \in BOOLEAN, NEW placed \in BOOLEAN,
             StartRecording(addToFormation, placed)
      PROVE  CalmInv'
  <2> DEFINE started(i) ==
        /\ i.handle # "none"
        /\ \E j \in RecordingLinks(i, placed, flight'.formation) :
             /\ io' = j
             /\ state' = IF Alive(j) THEN "Recording" ELSE "Disconnected"
  <2>1. PICK i \in Ensure(io) :
          /\ \/ /\ i.handle = "none"
                /\ io' = i
                /\ state' = "Disconnected"
                /\ UNCHANGED flight
             \/ started(i)
          /\ reconnectTimer' = TimerAfter(io, i, reconnectTimer)
    BY <1>1 DEF StartRecording
  <2>2. state \in IdleStates /\ UNCHANGED <<replayMode, sim>> /\ sim.frozen = FALSE
    BY <1>1 DEF StartRecording, CalmInv, Freeze, IdleStates
  <2>3. \/ i = io /\ state = "Disconnected" /\ i.handle = "none"
        \/ /\ \A g : CalmIo(i, "Connected", g)
           /\ sim.up /\ ~reconnectTimer'
        \/ /\ \A g : CalmIo(i, "Disconnected", g)
           /\ i.handle = "none"
    <3>1. CASE state = "Disconnected"
      <4>1. io.handle = "none" /\ i \in SetupLink(io)
        BY <2>1, <3>1 DEF CalmInv, CalmIo, Ensure
      <4>2. ASSUME NEW g
            PROVE  /\ sim.up => CalmIo(i, "Connected", g) /\ SetupOk(i)
                   /\ ~sim.up => CalmIo(i, "Disconnected", g) /\ ~SetupOk(i)
        BY <3>1, <4>1, FirstAttempt DEF CalmInv
      <4>3. CASE sim.up
        BY <2>1, <4>1, <4>2, <4>3 DEF TimerAfter
      <4>4. CASE ~sim.up
        BY <4>2, <4>4 DEF CalmIo
      <4> QED
        BY <4>3, <4>4
    <3>2. CASE state = "Connected"
      <4>1. Alive(io)
        BY <3>2, CalmAlive DEF CalmInv
      <4>2. i = io /\ TimerAfter(io, i, reconnectTimer) = reconnectTimer
        BY <2>1, <4>1, OneAttempt
      <4> QED
        BY <2>1, <3>2, <4>2, CalmIdle DEF CalmInv, RecordingStates
    <3> QED
      BY <2>2, <3>1, <3>2 DEF IdleStates
  <2>4. CASE i.handle = "none"
    <3>1. io' = i /\ state' = "Disconnected" /\ UNCHANGED flight
      BY <2>1, <2>4
    <3>2. CalmIo(i, "Disconnected", flight.formation)
      BY <2>3, <2>4 DEF CalmInv, CalmIo
    <3> QED
      BY <2>2, <3>1, <3>2 DEF CalmInv, Freeze
  <2>5. CASE i.handle # "none"
    <3>1. started(i) /\ flight'.formation \in BOOLEAN
      BY <2>1, <2>5 DEF TypeOK, Flights
    <3>2. CalmIo(i, "Connected", flight'.formation) /\ sim.up /\ ~reconnectTimer' /\ Alive(i)
      BY <2>3, <2>5, CalmAlive
    <3>3. CalmIo(StartRecordingIo(i, flight'.formation), "Recording", flight'.formation)
      BY <3>1, <3>2, CalmRecording
    <3>4. Alive(StartRecordingIo(i, flight'.formation))
      BY <3>3, CalmAlive
    <3>5. RecordingLinks(i, placed, flight'.formation) =
            {StartRecordingIo(i, flight'.formation)}
      BY <3>2, <3>4 DEF RecordingLinks, Retry, Call
    <3>6. io' = StartRecordingIo(i, flight'.formation) /\ state' = "Recording"
      BY <3>1, <3>4, <3>5
    <3> QED
      BY <2>2, <3>2, <3>3, <3>6 DEF CalmInv, Freeze
  <2> QED
    BY <2>4, <2>5
<1>2. CASE StopRecording
  BY <1>2, CalmStopRecording DEF StopRecording
<1>3. CASE ReceiveSample
  <2>1. flight'.formation = flight.formation
    BY <1>3 DEF ReceiveSample, CalmInv, TypeOK, Flights
  <2> QED
    BY <1>3, <2>1 DEF ReceiveSample, CalmInv
<1>4. CASE RecordingFrameFails
  BY <1>4, CalmAlive DEF RecordingFrameFails, CalmInv
<1> QED
  BY <1>1, <1>2, <1>3, <1>4 DEF Recording

\* A replay that starts on a working connection in state s.
LEMMA CalmStart ==
    ASSUME CalmInv, TypeOK', NEW i, NEW s \in {"Connected", "Replay"},
           \A g : CalmIo(i, s, g),
           sim.up, NEW running, running = FALSE,
           UNCHANGED <<replayMode, flight>>,
           NEW j \in Retry(StartReplayIo, StartReplayOk, i),
           \/ ~StartReplayOk(j)
           \/ ReplayStarts(j, running)
           \/ StopReplayFrom(j, running)
    PROVE  CalmInv'
<1>1. CalmIo(i, s, flight.formation) /\ Alive(i)
  BY CalmAlive
<1>2. CalmIo(StartReplayIo(i), "Replay", flight.formation)
  BY <1>1, CalmReplay
<1>3. StartReplayOk(i) /\ StartReplayOk(StartReplayIo(i))
  BY <1>1, <1>2, CalmAlive DEF StartReplayOk
<1>4. j = StartReplayIo(i)
  BY <1>3 DEF Retry
<1>5. CASE ReplayStarts(j, running)
  BY <1>2, <1>4, <1>5 DEF ReplayStarts, CalmInv, TypeOK, Simulators
<1>6. CASE StopReplayFrom(j, running)
  <2>1. CalmIo(j, "Replay", flight.formation)
    BY <1>2, <1>4
  <2>2. /\ \A g : CalmIo(io', "Connected", g)
        /\ state' = "Connected" /\ reconnectTimer' = running
        /\ sim' = [sim EXCEPT !.frozen = FALSE]
    BY <1>6, <2>1, CalmStopReplay
  <2>3. sim'.frozen = FALSE /\ sim'.up = sim.up
    BY <2>2 DEF CalmInv, TypeOK, Simulators
  <2> QED
    BY <2>2, <2>3 DEF CalmInv, Freeze
<1> QED
  BY <1>3, <1>4, <1>5, <1>6

LEMMA CalmStartReplay ==
    ASSUME CalmInv, TypeOK', NEW skipToStart \in BOOLEAN, StartReplay(skipToStart)
    PROVE  CalmInv'
<1> DEFINE running(i) == TimerAfter(io, i, reconnectTimer)
<1>1. PICK i \in Ensure(io) :
        \/ i.handle = "none" /\ ReplayRefused(i, running(i))
        \/ /\ i.handle # "none"
           /\ \E j \in Retry(StartReplayIo, StartReplayOk, i) :
                \/ ~StartReplayOk(j)
                \/ ReplayStarts(j, running(i))
                \/ StopReplayFrom(j, running(i))
  BY DEF StartReplay
<1>2. state \in IdleStates \cup {"Replay"} /\ UNCHANGED <<replayMode, flight>>
  BY DEF StartReplay
<1>3. CASE state = "Disconnected"
  <2>1. io.handle = "none" /\ i \in SetupLink(io)
    BY <1>1, <1>3 DEF CalmInv, CalmIo, Ensure
  <2>2. ASSUME NEW g
        PROVE  /\ sim.up => CalmIo(i, "Connected", g) /\ SetupOk(i)
               /\ ~sim.up => CalmIo(i, "Disconnected", g) /\ ~SetupOk(i)
    BY <1>3, <2>1, FirstAttempt DEF CalmInv
  <2>3. CASE sim.up
    <3>1. running(i) = FALSE /\ i.handle # "none"
      BY <2>1, <2>2, <2>3 DEF TimerAfter, CalmIo
    <3> HIDE DEF running
    <3>2. PICK j \in Retry(StartReplayIo, StartReplayOk, i) :
            \/ ~StartReplayOk(j)
            \/ ReplayStarts(j, running(i))
            \/ StopReplayFrom(j, running(i))
      BY <1>1, <3>1
    <3> QED
      BY <1>2, <2>2, <2>3, <3>1, <3>2, CalmStart
  <2>4. CASE ~sim.up
    <3>1. CalmIo(i, "Disconnected", flight.formation) /\ i.handle = "none"
      BY <2>2, <2>4 DEF CalmIo
    <3>2. io' = i /\ state' = "Disconnected" /\ sim' = sim
      BY <1>1, <3>1 DEF ReplayRefused
    <3> QED
      BY <1>2, <1>3, <3>1, <3>2 DEF CalmInv, Freeze
  <2> QED
    BY <2>3, <2>4
<1>4. CASE state \in {"Connected", "Replay"}
  <2>1. Alive(io) /\ sim.up /\ ~reconnectTimer
    BY <1>4, CalmAlive DEF CalmInv
  <2>2. i = io /\ running(i) = FALSE
    BY <1>1, <2>1, OneAttempt DEF CalmInv, TypeOK
  <2>3. i.handle # "none"
    BY <2>1, <2>2 DEF Alive
  <2>4. \A g : CalmIo(i, state, g)
    BY <1>4, <2>2, CalmIdle DEF CalmInv, RecordingStates
  <2> HIDE DEF running
  <2>5. PICK j \in Retry(StartReplayIo, StartReplayOk, i) :
          \/ ~StartReplayOk(j)
          \/ ReplayStarts(j, running(i))
          \/ StopReplayFrom(j, running(i))
    BY <1>1, <2>3
  <2> QED
    BY <1>2, <1>4, <2>1, <2>2, <2>4, <2>5, CalmStart
<1> QED
  BY <1>2, <1>3, <1>4 DEF IdleStates

LEMMA CalmStop_Replay ==
    ASSUME CalmInv, TypeOK', state \in ReplayStates,
           StopReplayFrom(io, reconnectTimer), replayMode' \in ReplayModes
    PROVE  CalmInv'
<1>1. state \in {"Connected", "Replay", "ReplayPaused"} /\ ~reconnectTimer /\ sim.up
  BY DEF ReplayStates, CalmInv
<1>2. /\ \A g : CalmIo(io', "Connected", g)
      /\ state' = "Connected" /\ reconnectTimer' = reconnectTimer
      /\ sim' = [sim EXCEPT !.frozen = FALSE]
  BY <1>1, CalmStopReplay DEF CalmInv
<1>3. sim'.frozen = FALSE /\ sim'.up
  BY <1>1, <1>2 DEF CalmInv, TypeOK, Simulators
<1> QED
  BY <1>1, <1>2, <1>3 DEF CalmInv, Freeze

\* seek on a working connection changes neither the connection nor the state.
LEMMA CalmSeek ==
    ASSUME NEW i, Alive(i), NEW s, NEW begin, NEW inSlot, SeekFrom(i, s, begin, inSlot)
    PROVE  io' = i /\ state' = s
<1>1. AskTime(i) = {i} /\ Sent(i) = {[io |-> i, ok |-> TRUE]}
  BY OneAttempt
<1> QED
  BY <1>1 DEF SeekFrom

LEMMA CalmReplaying == CalmInv /\ TypeOK' /\ Replaying => CalmInv'
<1> SUFFICES ASSUME CalmInv, TypeOK', Replaying PROVE CalmInv'
  OBVIOUS
<1>1. CASE \E skipToStart \in BOOLEAN : StartReplay(skipToStart)
  BY <1>1, CalmStartReplay
<1>2. CASE StopReplay
  BY <1>2, CalmStop_Replay DEF StopReplay, Stop_Replay, TypeOK
<1>3. CASE ClearFlight
  <2>1. CASE state \in ReplayStates
    BY <1>3, <2>1, CalmStop_Replay DEF ClearFlight, TypeOK
  <2>2. CASE state = "Connected"
    <3>1. /\ \A g : CalmIo(io', "Connected", g)
          /\ state' = "Connected" /\ reconnectTimer' = reconnectTimer
          /\ sim' = [sim EXCEPT !.frozen = FALSE]
      BY <1>3, <2>2, CalmStopReplay DEF ClearFlight, CalmInv
    <3>2. sim'.frozen = FALSE /\ sim'.up = sim.up
      BY <3>1 DEF CalmInv, TypeOK, Simulators
    <3> QED
      BY <2>2, <3>1, <3>2 DEF CalmInv, Freeze
  <2>3. CASE state = "Disconnected"
    <3> DEFINE quiet == StopReplayIo(io)
    <3>1. CalmIo(quiet, "Disconnected", flight.formation)
      BY <2>3, CalmReplay DEF CalmInv
    <3>2. quiet.handle = "none" /\ ~Alive(quiet)
      BY <3>1, CalmAlive
    <3> HIDE DEF quiet
    <3>3. PICK j \in AskRate(quiet) :
            /\ io' = j
            /\ state' = StateAfter(quiet, j, "Connected")
            /\ reconnectTimer' = TimerAfter(quiet, j, reconnectTimer)
      BY <1>3 DEF ClearFlight, StopReplayFrom, quiet
    <3>4. j \in SetupLink(quiet)
      BY <3>2, <3>3 DEF AskRate
    <3>5. ASSUME NEW g
          PROVE  /\ sim.up => CalmIo(j, "Connected", g) /\ SetupOk(j)
                 /\ ~sim.up => CalmIo(j, "Disconnected", g) /\ ~SetupOk(j)
      BY <3>1, <3>4, FirstAttempt
    <3>6. sim'.frozen = FALSE /\ sim'.up = sim.up
      <4>1. sim' = [sim EXCEPT !.frozen = @ /\ ~Alive(quiet)]
        BY <1>3 DEF ClearFlight, StopReplayFrom, Unfreeze, quiet
      <4>2. sim.frozen = FALSE
        BY <2>3 DEF CalmInv, Freeze
      <4> QED
        BY <4>1, <4>2 DEF CalmInv, TypeOK, Simulators
    <3>7. CASE sim.up
      BY <3>2, <3>3, <3>5, <3>6, <3>7 DEF CalmInv, Freeze, StateAfter, TimerAfter
    <3>8. CASE ~sim.up
      BY <3>2, <3>3, <3>5, <3>6, <3>8 DEF CalmInv, Freeze, StateAfter, TimerAfter
    <3> QED
      BY <3>7, <3>8
  <2> QED
    BY <1>3, <2>1, <2>2, <2>3
       DEF ClearFlight, CalmInv, TypeOK, States, ActiveStates, IdleStates
<1>4. CASE ReplayFrame
  BY <1>4 DEF ReplayFrame, CalmInv
<1>5. CASE ReplayFrameFails
  BY <1>5, CalmAlive DEF ReplayFrameFails, CalmInv
<1>6. CASE EndReached
  <2>1. state = "Replay" /\ Alive(io)
    BY <1>6, CalmAlive DEF EndReached, CalmInv
  <2>2. CASE SeekFrom(io, "Replay", TRUE, TRUE)
             /\ UNCHANGED <<replayMode, sim, reconnectTimer, elapsedTimer, flight>>
    BY <2>1, <2>2, CalmSeek DEF CalmInv
  <2>3. CASE StopReplayFrom(io, reconnectTimer)
    BY <2>1, <2>3, CalmStop_Replay DEF ReplayStates, TypeOK
  <2> QED
    BY <1>6, <2>2, <2>3 DEF EndReached
<1> QED
  BY <1>1, <1>2, <1>3, <1>4, <1>5, <1>6 DEF Replaying

LEMMA CalmPause ==
    ASSUME CalmInv, TypeOK',
           \/ PauseRecording \/ PauseReplay \/ ResumeRecording
           \/ \E inSlot \in BOOLEAN : ResumeReplay(inSlot)
    PROVE  CalmInv'
<1>1. flight.formation \in BOOLEAN
  BY DEF CalmInv, TypeOK, Flights
<1>2. CASE PauseRecording
  BY <1>1, <1>2, CalmRecording DEF PauseRecording, CalmInv, Freeze
<1>3. CASE ResumeRecording
  BY <1>1, <1>3, CalmRecording DEF ResumeRecording, CalmInv, Freeze
<1>4. CASE PauseReplay
  <2>1. Alive(io) /\ state = "Replay"
    BY <1>4, CalmAlive DEF PauseReplay, CalmInv
  <2>2. sim'.frozen = Freeze(replayMode, "ReplayPaused") /\ sim'.up = sim.up
    BY <1>4, <2>1 DEF PauseReplay, Frozen, CalmInv, TypeOK, Simulators
  <2>3. CalmIo(io', "ReplayPaused", flight.formation)
    BY <1>4, <2>1, CalmReplay DEF PauseReplay, CalmInv
  <2> QED
    BY <1>4, <2>1, <2>2, <2>3 DEF PauseReplay, CalmInv
<1>5. ASSUME NEW inSlot \in BOOLEAN, ResumeReplay(inSlot)
      PROVE  CalmInv'
  <2>1. Alive(io) /\ state = "ReplayPaused"
    BY <1>5, CalmAlive DEF ResumeReplay, CalmInv
  <2>2. /\ AskTime(io) = {io}
        /\ StateAfterTime(io, io, "Replay") = "Replay"
        /\ TimerAfterTime(io, io) = reconnectTimer
    BY <2>1, OneAttempt
  <2>3. /\ state' = "Replay" /\ reconnectTimer' = reconnectTimer
        /\ io' = Subscribe(RequestSensor(io, TRUE))
    BY <1>5, <2>2 DEF ResumeReplay
  <2>4. sim'.frozen = Freeze(replayMode, "Replay") /\ sim'.up = sim.up
    BY <1>5, <2>1 DEF ResumeReplay, Frozen, CalmInv, TypeOK, Simulators
  <2>5. CalmIo(io', "Replay", flight.formation)
    BY <2>1, <2>3, CalmReplay DEF CalmInv
  <2> QED
    BY <1>5, <2>1, <2>3, <2>4, <2>5 DEF ResumeReplay, CalmInv
<1> QED
  BY <1>2, <1>3, <1>4, <1>5

\* A request that may have to connect first, and leaves the rest alone.
LEMMA CalmAsk ==
    ASSUME CalmInv, UNCHANGED <<replayMode, sim, flight>>, TypeOK',
           NEW j, j \in Ask(io) \cup AskRate(io) \cup Ensure(io),
           io' = j,
           state' = StateAfter(io, j, state),
           reconnectTimer' = TimerAfter(io, j, reconnectTimer)
    PROVE  CalmInv'
<1>1. CASE state = "Disconnected"
  <2>1. io.handle = "none" /\ ~Alive(io)
    BY <1>1, CalmAlive DEF CalmInv
  <2>2. j \in SetupLink(io)
    BY <2>1 DEF Ask, AskRate, Ensure
  <2>3. /\ sim.up => CalmIo(j, "Connected", flight.formation) /\ SetupOk(j)
        /\ ~sim.up => CalmIo(j, "Disconnected", flight.formation) /\ ~SetupOk(j)
    BY <1>1, <2>2, FirstAttempt DEF CalmInv
  <2>4. CASE sim.up
    BY <1>1, <2>1, <2>3, <2>4 DEF CalmInv, Freeze, StateAfter, TimerAfter
  <2>5. CASE ~sim.up
    BY <1>1, <2>1, <2>3, <2>5 DEF CalmInv, Freeze, StateAfter, TimerAfter
  <2> QED
    BY <2>4, <2>5
<1>2. CASE state # "Disconnected"
  <2>1. Alive(io)
    BY <1>2, CalmAlive DEF CalmInv
  <2>2. j = io /\ state' = state /\ reconnectTimer' = reconnectTimer
    BY <2>1, OneAttempt
  <2> QED
    BY <2>2 DEF CalmInv
<1> QED
  BY <1>1, <1>2

LEMMA CalmControlling == CalmInv /\ TypeOK' /\ Controlling => CalmInv'
<1> SUFFICES ASSUME CalmInv, TypeOK', Controlling PROVE CalmInv'
  OBVIOUS
<1>1. CASE \E enable \in BOOLEAN : SetPaused(enable) \/ DispatchPause(enable)
  BY <1>1, CalmPause DEF SetPaused, DispatchPause
<1>2. ASSUME NEW begin \in BOOLEAN, NEW inSlot \in BOOLEAN, Seek(begin, inSlot)
      PROVE  CalmInv'
  <2>1. PICK i \in Ensure(io) :
          /\ reconnectTimer' = TimerAfter(io, i, reconnectTimer)
          /\ \/ /\ i.handle = "none"
                /\ io' = i
                /\ state' = "Disconnected"
             \/ /\ i.handle # "none"
                /\ SeekFrom(i, StateAfter(io, i, state), begin, inSlot)
    BY <1>2 DEF Seek
  <2>2. UNCHANGED <<replayMode, sim, flight>>
    BY <1>2 DEF Seek
  <2>3. io' = i /\ state' = StateAfter(io, i, state)
    <3>1. CASE state = "Disconnected"
      <4>1. io.handle = "none" /\ i \in SetupLink(io)
        BY <2>1, <3>1 DEF CalmInv, CalmIo, Ensure
      <4>2. /\ sim.up => CalmIo(i, "Connected", FALSE) /\ SetupOk(i)
            /\ ~sim.up => CalmIo(i, "Disconnected", FALSE) /\ ~SetupOk(i)
        BY <3>1, <4>1, FirstAttempt DEF CalmInv
      <4>3. CASE i.handle = "none"
        BY <2>1, <4>1, <4>3 DEF StateAfter, SetupOk
      <4>4. CASE i.handle # "none"
        <5>1. Alive(i)
          BY <4>2, <4>4, CalmAlive
        <5> QED
          BY <2>1, <4>4, <5>1, CalmSeek
      <4> QED
        BY <4>3, <4>4
    <3>2. CASE state # "Disconnected"
      <4>1. Alive(io) /\ i = io
        BY <2>1, <3>2, CalmAlive, OneAttempt DEF CalmInv
      <4> QED
        BY <2>1, <4>1, CalmSeek DEF Alive
    <3> QED
      BY <3>1, <3>2
  <2> QED
    BY <2>1, <2>2, <2>3, CalmAsk
<1>3. CASE \E mode \in ReplayModes : SetReplayMode(mode)
  <2>1. PICK mode \in ReplayModes : SetReplayMode(mode)
    BY <1>3
  <2>2. UNCHANGED <<state, io, reconnectTimer, flight>> /\ replayMode' = mode
    BY <2>1 DEF SetReplayMode
  <2>3. sim'.frozen = Freeze(mode, state) /\ sim'.up = sim.up
    <3>1. CASE mode # replayMode /\ Alive(io)
      BY <2>1, <3>1 DEF SetReplayMode, CalmInv, TypeOK, Simulators
    <3>2. CASE mode = replayMode
      BY <2>1, <3>2 DEF SetReplayMode, CalmInv
    <3>3. CASE ~Alive(io)
      BY <2>1, <3>3, CalmAlive DEF SetReplayMode, CalmInv, Freeze
    <3> QED
      BY <3>1, <3>2, <3>3
  <2> QED
    BY <2>2, <2>3 DEF CalmInv
<1>4. CASE Crashed
  <2>1. CASE state = "Recording" /\ Stop_Recording
    BY <2>1, CalmStopRecording DEF RecordingStates
  <2>2. CASE state = "Replay" /\ Stop_Replay
    BY <2>2, CalmStop_Replay DEF ReplayStates, Stop_Replay, TypeOK
  <2> QED
    BY <1>4, <2>1, <2>2 DEF Crashed
<1>5. CASE SetReplaySpeedFactor \/ Request
  BY <1>5, CalmAsk DEF SetReplaySpeedFactor, Request
<1>6. CASE UpdateSimulationTime
  <2>1. UNCHANGED <<replayMode, sim, flight>>
    BY <1>6 DEF UpdateSimulationTime
  <2>2. CASE SendsTime
    BY <1>6, <2>1, <2>2, CalmAsk
       DEF UpdateSimulationTime, AskTime, StateAfterTime, TimerAfterTime
  <2>3. CASE ~SendsTime
    BY <1>6, <2>1, <2>3
       DEF UpdateSimulationTime, AskTime, StateAfterTime, TimerAfterTime, CalmInv
  <2> QED
    BY <2>2, <2>3
<1> QED
  BY <1>1, <1>2, <1>3, <1>4, <1>5, <1>6 DEF Controlling

LEMMA CalmEnvironment == Faults = {} /\ CalmInv /\ TypeOK' /\ Environment => CalmInv'
<1> SUFFICES ASSUME Faults = {}, CalmInv, TypeOK', Environment PROVE CalmInv'
  OBVIOUS
<1>1. CASE FlightRestored
  BY <1>1, CalmIdle DEF FlightRestored, CalmInv
<1>2. CASE SimStart
  BY <1>2 DEF SimStart, CalmInv, Freeze
<1>3. ASSUME NEW quit \in BOOLEAN, SimStop(quit) PROVE FALSE
  BY <1>3 DEF SimStop
<1> QED
  BY <1>1, <1>2, <1>3 DEF Environment

\* In a session without faults the state determines the connection.
THEOREM CalmSession ==
    ASSUME Faults = {}
    PROVE  Spec => []CalmInv
<1>1. Init => CalmInv
  BY InitCalm
<1>2. CalmInv /\ TypeOK' /\ [Next]_vars => CalmInv'
  <2>1. CalmInv /\ UNCHANGED vars => CalmInv'
    BY DEF CalmInv, vars, TypeOK
  <2> QED
    BY <2>1, CalmConnecting, CalmRecordingAction, CalmReplaying, CalmControlling,
       CalmEnvironment
       DEF Next
<1> QED
  BY <1>1, <1>2, TypeCorrect, PTL DEF Spec

\* The streams that run are the ones that the state needs.
THEOREM StreamsCorrect ==
    ASSUME Faults = {}
    PROVE  Spec => []StreamsMatchState
<1>1. CalmInv => StreamsMatchState
  BY DEF CalmInv, CalmIo, StreamsMatchState
<1> QED
  BY <1>1, CalmSession, PTL

\* The user aircraft is frozen exactly when the replay mode and the state say so.
THEOREM FreezeCorrect ==
    ASSUME Faults = {}
    PROVE  Spec => []FreezeMatchesState
<1>1. CalmInv => FreezeMatchesState
  BY DEF CalmInv, FreezeMatchesState
<1> QED
  BY <1>1, CalmSession, PTL

-----------------------------------------------------------------------------
(***************************************************************************)
(* A session without faults ends only as a session.                        *)
(***************************************************************************)
Kept ==
    /\ state \in RecordingStates /\ state' \notin RecordingStates => Stop_Recording
    /\ state \in ReplayStates /\ state' \notin ReplayStates
         => ~elapsedTimer' /\ ~simTimeTimer'

\* A restarted replay goes on or is stopped: onStartReplay does not fail on a
\* working connection.
LEMMA KeptByStartReplay ==
    ASSUME CalmInv, NEW skipToStart \in BOOLEAN, StartReplay(skipToStart)
    PROVE  Kept
<1>1. state \in IdleStates \cup {"Replay"}
  BY DEF StartReplay
<1>2. CASE state \in IdleStates
  BY <1>2 DEF Kept, IdleStates, RecordingStates, ReplayStates
<1>3. CASE state = "Replay"
  <2>1. Alive(io) /\ Ensure(io) = {io}
    BY <1>3, CalmAlive, OneAttempt DEF CalmInv
  <2>2. CalmIo(StartReplayIo(io), "Replay", flight.formation)
    BY <1>3, CalmReplay DEF CalmInv
  <2>3. StartReplayOk(io) /\ StartReplayOk(StartReplayIo(io))
    BY <2>1, <2>2, CalmAlive DEF StartReplayOk
  <2>4. Retry(StartReplayIo, StartReplayOk, io) = {StartReplayIo(io)}
    BY <2>3 DEF Retry
  <2> DEFINE running == TimerAfter(io, io, reconnectTimer)
  <2>5. \E j \in Retry(StartReplayIo, StartReplayOk, io) :
          \/ ~StartReplayOk(j)
          \/ ReplayStarts(j, running)
          \/ StopReplayFrom(j, running)
    BY <2>1 DEF StartReplay, Alive
  <2>6. \/ ReplayStarts(StartReplayIo(io), running)
        \/ StopReplayFrom(StartReplayIo(io), running)
    BY <2>3, <2>4, <2>5
  <2> QED
    BY <1>3, <2>6
       DEF ReplayStarts, StopReplayFrom, Kept, ReplayStates, RecordingStates
<1> QED
  BY <1>1, <1>2, <1>3

LEMMA KeptByNext == Faults = {} /\ CalmInv /\ Next => Kept
<1> SUFFICES ASSUME Faults = {}, CalmInv, Next PROVE Kept
  OBVIOUS
<1>1. CASE state \in IdleStates
  BY <1>1 DEF Kept, IdleStates, RecordingStates, ReplayStates
<1>2. CASE state \notin IdleStates
  <2>1. /\ state # "Disconnected" /\ Alive(io) /\ ~io.quit /\ reconnectTimer = FALSE
        /\ io.handle # "stale"
    BY <1>2, CalmAlive DEF CalmInv, CalmIo, IdleStates, TypeOK
  <2>2. CASE state' = state
    BY <2>2 DEF Kept
  <2>3. ~Connecting
    BY <1>2, <2>1
       DEF Connecting, SetupChanged, ConnectionChanged, OnReconnectTimer, DispatchQuit
  <2>4. CASE Recording
    BY <1>2, <2>2, <2>4
       DEF Recording, StartRecording, StopRecording, ReceiveSample, RecordingFrameFails,
           Kept, RecordingStates, ReplayStates
  <2>5. CASE Replaying
    <3>1. CASE \E skipToStart \in BOOLEAN : StartReplay(skipToStart)
      BY <3>1, KeptByStartReplay
    <3>2. CASE StopReplay \/ ClearFlight \/ ReplayFrameFails
      BY <3>2
         DEF StopReplay, ClearFlight, ReplayFrameFails, Stop_Replay, StopReplayFrom, Kept,
             RecordingStates, ReplayStates
    <3>3. CASE ReplayFrame
      BY <2>2, <3>3 DEF ReplayFrame
    <3>4. CASE EndReached
      <4>1. CASE SeekFrom(io, "Replay", TRUE, TRUE)
        BY <2>1, <2>2, <3>4, <4>1, CalmSeek DEF EndReached
      <4>2. CASE StopReplayFrom(io, reconnectTimer)
        BY <3>4, <4>2 DEF EndReached, StopReplayFrom, Kept, RecordingStates
      <4> QED
        BY <3>4, <4>1, <4>2 DEF EndReached
    <3> QED
      BY <2>5, <3>1, <3>2, <3>3, <3>4 DEF Replaying
  <2>6. CASE Controlling
    <3>1. CASE PauseRecording \/ PauseReplay \/ ResumeRecording
      BY <3>1 DEF PauseRecording, PauseReplay, ResumeRecording, Kept, RecordingStates,
                  ReplayStates
    <3>2. ASSUME NEW inSlot \in BOOLEAN, ResumeReplay(inSlot) PROVE Kept
      <4>1. AskTime(io) = {io} /\ StateAfterTime(io, io, "Replay") = "Replay"
        BY <2>1, OneAttempt
      <4> QED
        BY <3>2, <4>1 DEF ResumeReplay, Kept, RecordingStates, ReplayStates
    <3>3. CASE \E enable \in BOOLEAN : SetPaused(enable) \/ DispatchPause(enable)
      BY <3>1, <3>2, <3>3 DEF SetPaused, DispatchPause
    <3>4. ASSUME NEW begin \in BOOLEAN, NEW inSlot \in BOOLEAN, Seek(begin, inSlot)
          PROVE  Kept
      <4>1. Ensure(io) = {io} /\ io.handle # "none" /\ StateAfter(io, io, state) = state
        BY <2>1, OneAttempt DEF Alive
      <4>2. SeekFrom(io, state, begin, inSlot)
        BY <3>4, <4>1 DEF Seek
      <4> QED
        BY <2>1, <2>2, <4>2, CalmSeek
    <3>5. CASE \E mode \in ReplayModes : SetReplayMode(mode)
      BY <2>2, <3>5 DEF SetReplayMode
    <3>6. CASE Crashed
      BY <3>6
         DEF Crashed, Stop_Replay, StopReplayFrom, Kept, RecordingStates, ReplayStates
    <3>7. CASE SetReplaySpeedFactor \/ Request \/ UpdateSimulationTime
      <4>1. /\ AskRate(io) = {io} /\ Ask(io) = {io} /\ AskTime(io) = {io}
            /\ StateAfter(io, io, state) = state /\ StateAfterTime(io, io, state) = state
        BY <2>1, OneAttempt
      <4>2. state' = state
        BY <3>7, <4>1 DEF SetReplaySpeedFactor, Request, UpdateSimulationTime
      <4> QED
        BY <2>2, <4>2
    <3> QED
      BY <2>6, <3>3, <3>4, <3>5, <3>6, <3>7 DEF Controlling
  <2>7. CASE Environment
    BY <2>2, <2>7 DEF Environment, FlightRestored, SimStart, SimStop
  <2> QED
    BY <2>3, <2>4, <2>5, <2>6, <2>7 DEF Next
<1> QED
  BY <1>1, <1>2

\* A recording ends only through stopRecording, a replay only through stopReplay.
THEOREM SessionsAreKept ==
    ASSUME Faults = {}
    PROVE  Spec => SessionIsKept
<1>1. CalmInv /\ [Next]_vars =>
        [/\ state \in RecordingStates /\ state' \notin RecordingStates => Stop_Recording
         /\ state \in ReplayStates /\ state' \notin ReplayStates
              => ~elapsedTimer' /\ ~simTimeTimer']_vars
  BY KeptByNext DEF Kept
<1> QED
  BY <1>1, CalmSession, PTL DEF Spec, SessionIsKept
=============================================================================
