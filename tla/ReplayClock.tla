---------------------------- MODULE ReplayClock ----------------------------
(***************************************************************************)
(* The clock of AbstractSkyConnect: elapsedTimer, elapsedTime,             *)
(* currentTimestamp and replaySpeedFactor, which together decide at which  *)
(* timestamp data are recorded and which data are replayed.  The           *)
(* connection holds; module SkyConnect is about what happens when it does  *)
(* not.                                                                    *)
(*                                                                         *)
(* One tick of elapsedTimer advances a recording by Normal units of time   *)
(* and a replay by the speed factor: rates below Normal are slow motion.   *)
(***************************************************************************)
EXTENDS Integers

CONSTANTS
    Factors,        \* the speed factors, as units of time per tick
    Normal,         \* the speed factor 1.0
    Hazards,        \* operations that disturb the clock: a subset of HazardKinds
    MaxDuration,    \* bound of the duration of a flight
    MaxTime         \* bound of the time that is measured

HazardKinds == {"formation", "loadFlight", "rate", "earlyPause"}

ASSUME FactorsAssumption  == Factors \subseteq Nat \ {0} /\ Normal \in Factors
ASSUME HazardsAssumption  == Hazards \subseteq HazardKinds
ASSUME BoundsAssumption   == MaxDuration \in Nat /\ MaxTime \in Nat

VARIABLES
    state,      \* Connect::State
    elapsed,    \* what elapsedTimer has measured, or NoTimer when it is not valid
    base,       \* elapsedTime
    current,    \* currentTimestamp
    factor,     \* replaySpeedFactor
    loop,       \* Settings::isReplayLoopEnabled
    last,       \* the last timestamp recorded for the user aircraft, or NoTime
    positions,  \* positions of the user aircraft have been recorded
    others,     \* the duration of the other aircraft of the flight
    disturbed   \* auxiliary: the recording is not timed by its timer alone

clock  == <<elapsed, base, current>>
flight == <<last, positions, others>>
vars   == <<state, clock, factor, loop, flight, disturbed>>

NoTimer == -1
NoTime  == -1

RecordingStates == {"Recording", "RecordingPaused"}
ReplayStates    == {"Replay", "ReplayPaused"}
RunningStates   == {"Recording", "Replay"}
States          == {"Connected"} \cup RecordingStates \cup ReplayStates

Larger(a, b) == IF a > b THEN a ELSE b

\* Flight::getTotalDurationMSec
UserDuration == Larger(last, 0)
Total        == Larger(UserDuration, others)

\* isEndReached
AtEnd == current >= Total

Valid == elapsed # NoTimer

\* updateCurrentTimestamp, called before messages are dispatched.
Updated ==
    IF Valid /\ state = "Replay" THEN base + elapsed * factor
    ELSE IF Valid /\ state = "Recording" THEN base + elapsed * Normal
    ELSE current

\* startElapsedTimer in state s
Started(s) == IF s \in RunningStates THEN 0 ELSE elapsed

\* What QElapsedTimer::elapsed() may return when the timer is not valid: a number
\* far from any time that has been measured.
Undefined == {-MaxTime, MaxTime}

-----------------------------------------------------------------------------
Init ==
    /\ state = "Connected"
    /\ elapsed = NoTimer
    /\ base = 0
    /\ current = 0
    /\ factor \in Factors
    /\ loop \in BOOLEAN
    /\ last = NoTime
    /\ positions = FALSE
    /\ others = 0
    /\ disturbed = FALSE

\* Time goes by: up to MaxTime, and in a replay also beyond the end of its flight.
Tick ==
    /\ Valid
    /\ IF state = "Replay"
       THEN base + elapsed * factor <= MaxTime
       ELSE \A f \in Factors : base + (elapsed + 1) * f <= MaxTime
    /\ elapsed' = elapsed + 1
    /\ UNCHANGED <<state, base, current, factor, loop, flight, disturbed>>

\* A message that only has the timestamp updated.
Dispatch ==
    /\ current' = Updated
    /\ UNCHANGED <<state, elapsed, base, factor, loop, flight, disturbed>>

(***************************************************************************)
(* Recording.                                                              *)
(***************************************************************************)

\* startRecording: elapsedTime keeps its value.
StartRecording(addToFormation) ==
    /\ state = "Connected"
    /\ addToFormation => "formation" \in Hazards
    /\ state' = "Recording"
    /\ elapsed' = NoTimer
    /\ current' = 0
    /\ others' = IF addToFormation /\ positions THEN Larger(others, UserDuration) ELSE 0
    /\ last' = NoTime
    /\ positions' = FALSE
    /\ disturbed' = FALSE
    /\ UNCHANGED <<base, factor, loop>>

\* Mutant: the elapsed time is not reset.
FirstSampleKeepsTime ==
    /\ elapsed' = 0
    /\ current' = 0
    /\ UNCHANGED base

\* resetElapsedTime, with the arrival of the first sample
FirstSample ==
    /\ elapsed' = 0
    /\ current' = 0
    /\ base' = 0

\* Data of the user aircraft are stored: positions come once per second, the other
\* data with every simulated frame.
Sample(position) ==
    /\ state = "Recording"
    /\ last' = Updated
    /\ positions' = (positions \/ position)
    /\ \/ Valid /\ current' = Updated /\ UNCHANGED <<elapsed, base>>
       \/ ~Valid /\ FirstSample
    /\ UNCHANGED <<state, factor, loop, others, disturbed>>

\* setPaused(true), at the timestamp of the last or of this dispatch.  After a pause
\* before the first position the timer starts anew, with the next data.
PauseRecording(at) ==
    /\ state = "Recording"
    /\ last # NoTime /\ ~positions => "earlyPause" \in Hazards
    /\ state' = "RecordingPaused"
    /\ IF Valid THEN base' = base + elapsed * Normal ELSE base' \in Undefined
    /\ elapsed' = NoTimer
    /\ current' = at
    /\ disturbed' = (disturbed \/ (last # NoTime /\ ~positions))
    /\ UNCHANGED <<factor, loop, flight>>

\* Mutant: the elapsed time is reset to 0 when unpausing a recording.
ResumeRecordingFromZero ==
    /\ state = "RecordingPaused"
    /\ state' = "Recording"
    /\ elapsed' = IF positions THEN 0 ELSE elapsed
    /\ base' = 0
    /\ UNCHANGED <<current, factor, loop, flight, disturbed>>

\* setPaused(false): only if hasRecordingStarted
ResumeRecording ==
    /\ state = "RecordingPaused"
    /\ state' = "Recording"
    /\ elapsed' = IF positions THEN Started("Recording") ELSE elapsed
    /\ UNCHANGED <<base, current, factor, loop, flight, disturbed>>

\* The timer and elapsedTime stay.
StopRecording(at) ==
    /\ state \in RecordingStates
    /\ state' = "Connected"
    /\ current' = at
    /\ UNCHANGED <<elapsed, base, factor, loop, flight, disturbed>>

(***************************************************************************)
(* Replay.                                                                 *)
(***************************************************************************)

\* The clock when startReplay(skipToStart) starts a replay.
ReplayFrom(skipToStart) ==
    /\ elapsed' = NoTimer
    /\ IF skipToStart THEN base' = 0 /\ current' = 0 ELSE UNCHANGED <<base, current>>

\* The play button: enabled when there is something recorded.
StartReplay ==
    /\ state = "Connected"
    /\ positions
    /\ state' = "Replay"
    /\ ReplayFrom(AtEnd)
    /\ UNCHANGED <<factor, loop, flight, disturbed>>

\* Mutant: the elapsed time is not remembered.
StopReplayForgets(at) ==
    /\ state' = "Connected"
    /\ elapsed' = NoTimer
    /\ current' = at
    /\ UNCHANGED base

\* stopReplay
StopReplayAt(at) ==
    /\ state' = "Connected"
    /\ elapsed' = NoTimer
    /\ current' = at
    /\ base' = at

StopReplay(at) ==
    /\ state \in ReplayStates
    /\ StopReplayAt(at)
    /\ UNCHANGED <<factor, loop, flight, disturbed>>

\* clearFlight: also stops when there is nothing to stop.
ClearFlight ==
    /\ state \notin RecordingStates
    /\ positions
    /\ StopReplayAt(current)
    /\ last' = NoTime
    /\ positions' = FALSE
    /\ others' = 0
    /\ UNCHANGED <<factor, loop, disturbed>>

\* replay(), on a "Frame" event: data are sent up to the end of the flight, and the
\* first data sent start the timer.
Frame ==
    /\ state = "Replay"
    /\ Updated <= Total
    /\ current' = Updated
    /\ elapsed' = IF Valid THEN elapsed ELSE Started(state)
    /\ UNCHANGED <<state, base, factor, loop, flight, disturbed>>

\* The timer after seek: it starts anew when it is valid.
SoughtTo(timestamp) ==
    /\ current' = timestamp
    /\ base' = timestamp
    /\ elapsed' = IF Valid THEN Started(state) ELSE elapsed

\* Mutant: at the end, the replay always starts over.
EndReachedLoops ==
    /\ state = "Replay"
    /\ Updated > Total
    /\ SoughtTo(0)
    /\ UNCHANGED <<state, factor, loop, flight, disturbed>>

\* The same event past the end: onEndReached
EndReached ==
    /\ state = "Replay"
    /\ Updated > Total
    /\ \/ loop /\ SoughtTo(0) /\ UNCHANGED state
       \/ ~loop /\ StopReplayAt(Updated)
    /\ UNCHANGED <<factor, loop, flight, disturbed>>

PauseReplay(at) ==
    /\ state = "Replay"
    /\ state' = "ReplayPaused"
    /\ base' = IF Valid THEN base + elapsed * factor ELSE base
    /\ elapsed' = NoTimer
    /\ current' = at
    /\ UNCHANGED <<factor, loop, flight, disturbed>>

ResumeReplay ==
    /\ state = "ReplayPaused"
    /\ state' = "Replay"
    /\ elapsed' = Started("Replay")
    /\ UNCHANGED <<base, current, factor, loop, flight, disturbed>>

(***************************************************************************)
(* In any state.                                                           *)
(***************************************************************************)

\* seek and the skip operations, which are not offered while recording.
Seek(timestamp) ==
    /\ state \notin RecordingStates
    /\ positions
    /\ timestamp <= Total \/ timestamp <= current
    /\ SoughtTo(timestamp)
    /\ UNCHANGED <<state, factor, loop, flight, disturbed>>

\* setReplaySpeedFactor: a timer that is valid is taken to measure a replay.  Outside
\* of a replay this adds time again and again, here up to MaxTime.
SetReplaySpeedFactor(to) ==
    /\ to # factor
    /\ Valid /\ state # "Replay" =>
          "rate" \in Hazards /\ base + elapsed * factor <= MaxTime
    /\ factor' = to
    /\ base' = IF Valid THEN base + elapsed * factor ELSE base
    /\ elapsed' = IF Valid THEN Started(state) ELSE elapsed
    /\ disturbed' = (disturbed \/ (Valid /\ state # "Replay"))
    /\ UNCHANGED <<state, current, loop, flight>>

SetReplayLoop ==
    /\ loop' = ~loop
    /\ UNCHANGED <<state, clock, factor, flight, disturbed>>

\* The flight holds a user aircraft of that duration and nothing else.
Restored(duration) ==
    /\ last' = duration
    /\ positions' = TRUE
    /\ others' = 0

\* A flight is loaded from the logbook; setupInitialPosition of AbstractModule then
\* unpauses, starts the replay (at 0, when the timestamp is past the end of the
\* flight just loaded) and pauses it again.
LoadFlight(duration) ==
    /\ state \notin RecordingStates
    /\ state # "ReplayPaused" => "loadFlight" \in Hazards
    /\ state' = "ReplayPaused"
    /\ Restored(duration)
    /\ ReplayFrom(current >= duration)
    /\ UNCHANGED <<factor, loop, disturbed>>

\* An import skips to the beginning before it starts the replay and pauses it.
ImportFlight(duration) ==
    /\ state \notin RecordingStates
    /\ state' = "ReplayPaused"
    /\ Restored(duration)
    /\ ReplayFrom(TRUE)
    /\ UNCHANGED <<factor, loop, disturbed>>

-----------------------------------------------------------------------------
Recording ==
    \/ \E addToFormation \in BOOLEAN : StartRecording(addToFormation)
    \/ \E position \in BOOLEAN : Sample(position)
    \/ \E at \in {current, Updated} : PauseRecording(at) \/ StopRecording(at)
    \/ ResumeRecording

Replaying ==
    \/ StartReplay \/ ClearFlight \/ Frame \/ EndReached \/ ResumeReplay
    \/ \E at \in {current, Updated} : PauseReplay(at) \/ StopReplay(at)

Controlling ==
    \/ \E timestamp \in 0..MaxTime : Seek(timestamp)
    \/ \E to \in Factors : SetReplaySpeedFactor(to)
    \/ SetReplayLoop
    \/ \E duration \in 0..MaxDuration : LoadFlight(duration) \/ ImportFlight(duration)

Next == Tick \/ Dispatch \/ Recording \/ Replaying \/ Controlling

Spec == Init /\ [][Next]_vars

\* Time goes by, and the simulator sends its frame events.
FairSpec == Spec /\ WF_vars(Tick) /\ WF_vars(Frame \/ EndReached)

-----------------------------------------------------------------------------
(***************************************************************************)
(* Properties.                                                             *)
(***************************************************************************)

\* Every variable keeps to the values that the code gives it: in particular, data
\* are never recorded with a negative timestamp, whatever an invalid timer says.
TypeOK ==
    /\ state \in States
    /\ elapsed \in Nat \cup {NoTimer}
    /\ base \in Int
    /\ current \in Int
    /\ factor \in Factors
    /\ loop \in BOOLEAN
    /\ last \in Nat \cup {NoTime}
    /\ positions \in BOOLEAN
    /\ others \in Nat
    /\ disturbed \in BOOLEAN

\* The position of the recording or of the replay: what a timer that is not valid
\* has measured before, and 0 before the first sample of a recording.
Position ==
    IF state = "Connected" \/ (state \in RecordingStates /\ last = NoTime) THEN current
    ELSE IF ~Valid THEN base
    ELSE base + elapsed * (IF state = "Replay" THEN factor ELSE Normal)

\* The timers implement the clock that module Playback specifies: pausing, resuming,
\* changing the speed and starting again neither lose nor add time.
Clock == INSTANCE Playback
             WITH Rates <- Factors, mode <- state, rate <- factor,
                  position <- Position, shown <- current

ImplementsPlayback == Clock!Spec

\* "Recorded data items are inserted chronologically" (AbstractComponent) is not what
\* the code does in two cases: the speed is changed while the timer of a recording runs
\* (rate), or a recording is paused between its first data and its first position
\* (earlyPause).  Unless one of these has happened to this very recording, its samples
\* are never stored before earlier ones: however it is paused and resumed, whatever was
\* recorded, replayed, loaded or disturbed before it.
SamplesInOrder ==
    [][~disturbed /\ last # NoTime /\ (\E position \in BOOLEAN : Sample(position))
          => last' >= last]_vars

\* Left alone, a replay that does not loop ends, however its clock has been disturbed
\* before; one that does never stops (onEndReached).
LeftAlone == <>[][Tick \/ Dispatch \/ Frame \/ EndReached]_vars

ReplayEnds ==
    LeftAlone => <>[](state # "Replay") \/ []<>(loop /\ current = 0)
=============================================================================
