------------------------- MODULE ReplayClock_proofs -------------------------
(***************************************************************************)
(* Theorems about ReplayClock: type correctness, for every choice of       *)
(* Hazards, which needs to know when elapsedTimer and elapsedTime can be   *)
(* trusted while recording; that without hazards the timers implement the  *)
(* clock of module Playback; and that, for every choice of Hazards, the    *)
(* samples of a recording are in order unless its own clock was disturbed. *)
(***************************************************************************)
EXTENDS ReplayClock, TLAPS

(***************************************************************************)
(* Arithmetic of the clock.                                                *)
(***************************************************************************)

\* Measured time is not negative, whatever the speed.
LEMMA Measured ==
    ASSUME NEW t \in Nat, NEW f \in Nat PROVE t * f \in Nat
  OBVIOUS

\* One more tick advances the clock by its rate.
LEMMA OneTick ==
    ASSUME NEW t \in Nat, NEW f \in Nat PROVE (t + 1) * f = t * f + f
  OBVIOUS

\* A timer that has just been started has measured nothing.
LEMMA NoTick == ASSUME NEW f \in Nat PROVE 0 * f = 0
  OBVIOUS

-----------------------------------------------------------------------------
(***************************************************************************)
(* While recording, elapsedTime is trusted by a timer that is valid, and   *)
(* by one that will be started again because there are positions.          *)
(***************************************************************************)
TrustedBase ==
    state \in RecordingStates =>
        /\ current >= 0
        /\ Valid \/ positions => base >= 0
        /\ state = "Recording" /\ positions => Valid
        /\ state = "RecordingPaused" => ~Valid

IInv == TypeOK /\ TrustedBase

\* The speed factors are natural numbers.
LEMMA FactorTypes == Factors \subseteq Nat /\ Normal \in Nat /\ Normal \in Factors
  BY FactorsAssumption

\* The timestamp of a dispatch is a number, and not negative while recording.
LEMMA UpdatedType ==
    ASSUME IInv
    PROVE  /\ Updated \in Int
           /\ state \in RecordingStates => Updated >= 0
           /\ Valid => base + elapsed * factor \in Int /\ base + elapsed * Normal \in Int
           /\ Valid => elapsed \in Nat /\ elapsed * factor \in Nat /\ elapsed * Normal \in Nat
<1>1. Valid => elapsed \in Nat /\ elapsed * factor \in Nat /\ elapsed * Normal \in Nat
  <2>1. CASE Valid
    <3>1. elapsed \in Nat
      BY <2>1 DEF IInv, TypeOK, Valid
    <3>2. factor \in Nat
      BY FactorTypes DEF IInv, TypeOK
    <3> QED
      BY <3>1, <3>2, FactorTypes, Measured
  <2> QED
    BY <2>1
<1>2. Valid => base + elapsed * factor \in Int /\ base + elapsed * Normal \in Int
  BY <1>1 DEF IInv, TypeOK
<1>3. Updated \in Int
  BY <1>2 DEF Updated, IInv, TypeOK
<1>4. state \in RecordingStates => Updated >= 0
  BY <1>1 DEF Updated, IInv, TypeOK, TrustedBase, RecordingStates
<1> QED
  BY <1>1, <1>2, <1>3, <1>4

LEMMA InitIInv == Init => IInv
<1> SUFFICES ASSUME Init PROVE TypeOK /\ TrustedBase
  BY DEF IInv
<1>1. TypeOK
  <2>1. positions \in BOOLEAN /\ disturbed \in BOOLEAN
    BY DEF Init
  <2>2. last \in Nat \cup {NoTime} /\ elapsed \in Nat \cup {NoTimer} /\ others \in Nat
    BY DEF Init
  <2> QED
    BY <2>1, <2>2 DEF Init, TypeOK, States
<1>2. TrustedBase
  BY DEF Init, TrustedBase, RecordingStates
<1> QED
  BY <1>1, <1>2

\* Every step of the recording keeps the invariant.
LEMMA RecordingIInv == IInv /\ Recording => IInv'
<1> SUFFICES ASSUME IInv, Recording PROVE IInv'
  OBVIOUS
<1> USE DEF IInv, TypeOK, TrustedBase, Valid, NoTimer, NoTime, flight, clock, States, RecordingStates
<1>1. ASSUME NEW addToFormation \in BOOLEAN, StartRecording(addToFormation)
      PROVE  IInv'
  <2>1. others' \in Nat
    BY <1>1 DEF StartRecording, Larger, UserDuration
  <2>2. TypeOK'
    <3>1. positions' \in BOOLEAN
      BY <1>1 DEF StartRecording
    <3>2. last' \in Nat \cup {NoTime} /\ elapsed' \in Nat \cup {NoTimer} /\ current' \in Int
      BY <1>1 DEF StartRecording
    <3> QED
      BY <1>1, <2>1, <3>1, <3>2 DEF StartRecording
  <2>3. ~positions' /\ ~Valid' /\ current' = 0
    BY <1>1 DEF StartRecording
  <2> QED
    BY <2>2, <2>3 DEF StartRecording
<1>2. ASSUME NEW position \in BOOLEAN, Sample(position)
      PROVE  IInv'
  <2>1. Updated \in Nat
    BY <1>2, UpdatedType DEF Sample
  <2>2. CASE Valid /\ current' = Updated /\ UNCHANGED <<elapsed, base>>
    BY <1>2, <2>1, <2>2 DEF Sample
  <2>3. CASE ~Valid /\ FirstSample
    BY <1>2, <2>1, <2>3 DEF Sample, FirstSample
  <2> QED
    BY <1>2, <2>2, <2>3 DEF Sample
<1>3. ASSUME NEW at \in {current, Updated}, PauseRecording(at)
      PROVE  IInv'
  <2>1. at \in Int /\ at >= 0
    BY <1>3, UpdatedType DEF PauseRecording
  <2>2. base' \in Int /\ (positions => base' >= 0)
    <3>1. CASE Valid
      BY <1>3, <3>1, UpdatedType DEF PauseRecording
    <3>2. CASE ~Valid
      BY <1>3, <3>2, BoundsAssumption DEF PauseRecording, Undefined
    <3> QED
      BY <3>1, <3>2
  <2> QED
    BY <1>3, <2>1, <2>2 DEF PauseRecording
<1>4. ASSUME NEW at \in {current, Updated}, StopRecording(at)
      PROVE  IInv'
  BY <1>4, UpdatedType DEF StopRecording
<1>5. ASSUME ResumeRecording PROVE IInv'
  BY <1>5 DEF ResumeRecording, Started, RunningStates
<1> QED
  BY <1>1, <1>2, <1>3, <1>4, <1>5 DEF Recording

\* Every step of the replay keeps the invariant.
LEMMA ReplayingIInv == IInv /\ Replaying => IInv'
<1> SUFFICES ASSUME IInv, Replaying PROVE IInv'
  OBVIOUS
<1> USE DEF IInv, TypeOK, TrustedBase, Valid, NoTimer, NoTime, flight, clock, States, RecordingStates,
            ReplayStates
<1>1. ASSUME StartReplay PROVE IInv'
  BY <1>1 DEF StartReplay, ReplayFrom
<1>2. ASSUME ClearFlight PROVE IInv'
  BY <1>2 DEF ClearFlight, StopReplayAt
<1>3. ASSUME Frame PROVE IInv'
  BY <1>3, UpdatedType DEF Frame, Started, RunningStates
<1>4. ASSUME EndReached PROVE IInv'
  BY <1>4, UpdatedType DEF EndReached, SoughtTo, StopReplayAt, Started, RunningStates
<1>5. ASSUME ResumeReplay PROVE IInv'
  BY <1>5 DEF ResumeReplay, Started, RunningStates
<1>6. ASSUME NEW at \in {current, Updated}, PauseReplay(at)
      PROVE  IInv'
  BY <1>6, UpdatedType DEF PauseReplay
<1>7. ASSUME NEW at \in {current, Updated}, StopReplay(at)
      PROVE  IInv'
  BY <1>7, UpdatedType DEF StopReplay, StopReplayAt
<1> QED
  BY <1>1, <1>2, <1>3, <1>4, <1>5, <1>6, <1>7 DEF Replaying

\* So does every other step.
LEMMA ControllingIInv == IInv /\ (Tick \/ Dispatch \/ Controlling) => IInv'
<1> SUFFICES ASSUME IInv, Tick \/ Dispatch \/ Controlling PROVE IInv'
  OBVIOUS
<1> USE DEF IInv, TypeOK, TrustedBase, Valid, NoTimer, NoTime, flight, clock, States, RecordingStates,
            ReplayStates
<1>1. ASSUME Tick PROVE IInv'
  BY <1>1 DEF Tick
<1>2. ASSUME Dispatch PROVE IInv'
  BY <1>2, UpdatedType DEF Dispatch
<1>3. ASSUME NEW timestamp \in 0..MaxTime, Seek(timestamp)
      PROVE  IInv'
  BY <1>3, BoundsAssumption DEF Seek, SoughtTo, Started, RunningStates
<1>4. ASSUME NEW to \in Factors, SetReplaySpeedFactor(to)
      PROVE  IInv'
  <2>1. base' \in Int /\ (state \in RecordingStates /\ (Valid \/ positions) => base' >= 0)
    BY <1>4, UpdatedType DEF SetReplaySpeedFactor
  <2>2. elapsed' \in Nat \cup {NoTimer} /\ (elapsed' = NoTimer <=> elapsed = NoTimer)
    BY <1>4 DEF SetReplaySpeedFactor, Started
  <2> QED
    BY <1>4, <2>1, <2>2 DEF SetReplaySpeedFactor
<1>5. ASSUME SetReplayLoop PROVE IInv'
  BY <1>5 DEF SetReplayLoop
<1>6. ASSUME NEW duration \in 0..MaxDuration, LoadFlight(duration)
      PROVE  IInv'
  BY <1>6, BoundsAssumption DEF LoadFlight, Restored, ReplayFrom
<1>7. ASSUME NEW duration \in 0..MaxDuration, ImportFlight(duration)
      PROVE  IInv'
  BY <1>7, BoundsAssumption DEF ImportFlight, Restored, ReplayFrom
<1> QED
  BY <1>1, <1>2, <1>3, <1>4, <1>5, <1>6, <1>7 DEF Controlling

LEMMA NextIInv == IInv /\ [Next]_vars => IInv'
<1>1. IInv /\ UNCHANGED vars => IInv'
  BY DEF vars, clock, flight, IInv, TypeOK, TrustedBase, Valid
<1> QED
  BY <1>1, RecordingIInv, ReplayingIInv, ControllingIInv DEF Next

\* TypeOK holds in every behaviour: samples never have a negative timestamp, however
\* early a recording is paused.
THEOREM TypeCorrect == Spec => []TypeOK
<1>1. IInv => TypeOK
  BY DEF IInv
<1> QED
  BY <1>1, InitIInv, NextIInv, PTL DEF Spec

-----------------------------------------------------------------------------
(***************************************************************************)
(* A recording that has samples is timed from the first of them on, until  *)
(* its timer is taken for that of a replay (rate) or it is paused before   *)
(* its first position (earlyPause).  If no aircraft are recorded one after *)
(* the other (formation), a replay that is going to start also finds       *)
(* elapsedTime in step with the timestamp, unless it starts at 0 anyway.   *)
(***************************************************************************)
Alone == "formation" \notin Hazards => others = 0

InStep == "formation" \notin Hazards /\ state = "Connected" => base = current \/ AtEnd

Timed ==
    state \in RecordingStates =>
        /\ last <= current
        /\ last = NoTime => current = 0 /\ ~positions
        /\ state = "Recording" => (Valid <=> last # NoTime)
        /\ state = "RecordingPaused" /\ last # NoTime => positions
        /\ current <= Position

Quiet == state \in {"RecordingPaused", "ReplayPaused"} => ~Valid

CalmInv == IInv /\ InStep /\ Timed /\ Quiet /\ Alone

\* The next recording starts a clock of its own, whatever happened to the last one.
ClockInv == IInv /\ (disturbed \/ CalmInv)

\* What a dispatch makes of the timestamp: the position, unless the clock is at rest.
LEMMA UpdatedIsPosition ==
    ASSUME CalmInv
    PROVE  /\ Updated \in {current, Position}
           /\ state \notin RunningStates => Updated = current
           /\ state = "Recording" => Updated = Position
           /\ state = "Replay" /\ Valid => Updated = Position
           /\ Position \in Int
           /\ state \in RecordingStates => Position >= current
<1>1. Position \in Int
  BY UpdatedType DEF CalmInv, IInv, TypeOK, Position
<1>2. state \notin RunningStates => Updated = current
  BY DEF Updated, RunningStates
<1>3. state = "Recording" => Updated = Position
  <2>1. CASE last = NoTime
    BY <2>1 DEF CalmInv, Timed, Updated, Position, RecordingStates
  <2>2. CASE last # NoTime
    BY <2>2 DEF CalmInv, Timed, Updated, Position, RecordingStates
  <2> QED
    BY <2>1, <2>2
<1>4. state = "Replay" /\ Valid => Updated = Position
  BY DEF Updated, Position, RecordingStates
<1>5. state = "Replay" /\ ~Valid => Updated = current
  BY DEF Updated
<1>6. state \in RecordingStates => Position >= current
  BY <1>1 DEF CalmInv, IInv, TypeOK, Timed
<1> QED
  BY <1>1, <1>2, <1>3, <1>4, <1>5, <1>6 DEF RunningStates

LEMMA InitCalmInv == Init => CalmInv
<1> SUFFICES ASSUME Init PROVE CalmInv
  OBVIOUS
<1>1. state = "Connected" /\ base = current /\ others = 0
  BY DEF Init
<1> QED
  BY <1>1, InitIInv DEF CalmInv, InStep, Timed, Quiet, RecordingStates, Alone

\* A recording starts with a calm clock, whatever was before.
LEMMA StartRecordingCalm ==
    ASSUME IInv, NEW addToFormation \in BOOLEAN, StartRecording(addToFormation)
    PROVE  InStep' /\ Timed' /\ Quiet' /\ Alone'
<1>1. /\ state' = "Recording" /\ ~Valid' /\ current' = 0 /\ last' = NoTime
      /\ ~positions' /\ Alone'
  BY DEF StartRecording, Valid, Alone
<1>2. Position' = 0
  BY <1>1 DEF Position, RecordingStates
<1> QED
  BY <1>1, <1>2 DEF InStep, Timed, Quiet, NoTime

\* Recording keeps the calm.
LEMMA RecordingCalm == CalmInv /\ Recording /\ ~disturbed' => CalmInv'
<1> SUFFICES ASSUME CalmInv, Recording, ~disturbed'
             PROVE  InStep' /\ Timed' /\ Quiet' /\ Alone'
  BY NextIInv DEF CalmInv, Next
<1>t. TypeOK /\ Alone
  BY DEF CalmInv, IInv
<1>1. ASSUME NEW addToFormation \in BOOLEAN, StartRecording(addToFormation)
      PROVE  InStep' /\ Timed' /\ Quiet' /\ Alone'
  BY <1>1, StartRecordingCalm DEF CalmInv
<1>2. ASSUME NEW position \in BOOLEAN, Sample(position)
      PROVE  InStep' /\ Timed' /\ Quiet' /\ Alone'
  <2>1. /\ state = "Recording" /\ state' = "Recording" /\ last' = Updated /\ Alone'
        /\ Updated = Position /\ Updated \in Nat
    BY <1>2, <1>t, UpdatedIsPosition, UpdatedType DEF Sample, CalmInv, RecordingStates, Alone
  <2>2. CASE Valid
    <3>1. Valid' /\ current' = Updated /\ elapsed' = elapsed /\ base' = base
      BY <1>2, <2>2 DEF Sample, Valid
    <3>2. last # NoTime /\ last' # NoTime
      BY <2>1, <2>2 DEF CalmInv, Timed, RecordingStates, NoTime
    <3>3. Position' = Position
      BY <2>1, <2>2, <3>1, <3>2 DEF Position, RecordingStates
    <3> QED
      BY <2>1, <3>1, <3>2, <3>3 DEF InStep, Timed, Quiet
  <2>3. CASE ~Valid
    <3>1. Valid' /\ current' = 0 /\ elapsed' = 0 /\ base' = 0
      BY <1>2, <2>3 DEF Sample, FirstSample, Valid, NoTimer
    <3>2. last' = 0
      BY <2>1, <2>3 DEF CalmInv, Timed, Updated, RecordingStates
    <3>3. Position' = 0
      BY <2>1, <3>1, <3>2, NoTick, FactorTypes DEF Position, RecordingStates, NoTime
    <3> QED
      BY <2>1, <3>1, <3>2, <3>3 DEF InStep, Timed, Quiet, NoTime
  <2> QED
    BY <2>2, <2>3
<1>3. ASSUME NEW at \in {current, Updated}, PauseRecording(at)
      PROVE  InStep' /\ Timed' /\ Quiet' /\ Alone'
  <2>1. /\ state = "Recording" /\ state' = "RecordingPaused" /\ ~Valid' /\ current' = at
        /\ last' = last /\ Alone' /\ (positions' <=> positions)
    BY <1>3, <1>t DEF PauseRecording, flight, Valid, Alone
  <2>2. current <= at /\ at <= Position /\ at \in Int /\ last <= at
    BY <1>3, <1>t, <2>1, UpdatedIsPosition DEF CalmInv, Timed, RecordingStates, TypeOK, NoTime
  <2>3. CASE last = NoTime
    <3>1. Position = current /\ Position' = current'
      BY <2>1, <2>3 DEF Position, RecordingStates
    <3> QED
      BY <1>t, <2>1, <2>2, <2>3, <3>1 DEF CalmInv, InStep, Timed, Quiet, RecordingStates, TypeOK
  <2>4. CASE last # NoTime
    <3>1. Valid /\ positions
      BY <1>3, <2>1, <2>4 DEF CalmInv, Timed, RecordingStates, PauseRecording
    <3>2. Position' = Position
      BY <1>3, <2>1, <2>4, <3>1 DEF PauseRecording, Position, RecordingStates
    <3> QED
      BY <2>1, <2>2, <2>4, <3>1, <3>2 DEF InStep, Timed, Quiet
  <2> QED
    BY <2>3, <2>4
<1>4. ASSUME NEW at \in {current, Updated}, StopRecording(at)
      PROVE  InStep' /\ Timed' /\ Quiet' /\ Alone'
  <2>1. state \in RecordingStates /\ state' = "Connected" /\ current' = at
        /\ last' = last /\ Alone'
    BY <1>4, <1>t DEF StopRecording, flight, Alone
  <2>2. at \in Int /\ last <= at /\ 0 <= at
    BY <1>4, <1>t, <2>1, UpdatedIsPosition DEF CalmInv, IInv, TrustedBase, Timed, TypeOK, NoTime
  <2>3. ASSUME "formation" \notin Hazards PROVE Total' <= at
    BY <1>t, <2>1, <2>2, <2>3 DEF Alone, Total, UserDuration, Larger, TypeOK, NoTime
  <2>4. Total' \in Int
    BY <1>4, <1>t, <2>1 DEF StopRecording, flight, Total, UserDuration, Larger, TypeOK, NoTime
  <2> QED
    BY <2>1, <2>2, <2>3, <2>4 DEF InStep, AtEnd, Timed, Quiet, RecordingStates
<1>5. ASSUME ResumeRecording
      PROVE  InStep' /\ Timed' /\ Quiet' /\ Alone'
  <2>1. /\ state = "RecordingPaused" /\ state' = "Recording" /\ current' = current
        /\ base' = base /\ last' = last /\ Alone' /\ (positions' <=> positions)
    BY <1>5, <1>t DEF ResumeRecording, flight, Alone
  <2>2. ~Valid
    BY <2>1 DEF CalmInv, Quiet
  <2>3. CASE last = NoTime
    <3>1. ~Valid' /\ Position = current /\ Position' = current
      BY <1>5, <2>1, <2>2, <2>3 DEF ResumeRecording, CalmInv, Timed, Position, RecordingStates, Valid
    <3> QED
      BY <1>t, <2>1, <2>3, <3>1 DEF CalmInv, InStep, Timed, Quiet, RecordingStates, TypeOK
  <2>4. CASE last # NoTime
    <3>1. Valid' /\ elapsed' = 0
      BY <1>5, <2>1, <2>4 DEF ResumeRecording, CalmInv, Timed, RecordingStates, Valid,
         Started, RunningStates, NoTimer
    <3>2. Position = base
      BY <2>1, <2>2, <2>4 DEF Position, RecordingStates
    <3>3. Position' = base
      BY <1>t, <2>1, <2>4, <3>1, NoTick, FactorTypes DEF Position, RecordingStates, TypeOK
    <3> QED
      BY <2>1, <2>4, <3>1, <3>2, <3>3 DEF CalmInv, InStep, Timed, Quiet, RecordingStates
  <2> QED
    BY <2>3, <2>4
<1> QED
  BY <1>1, <1>2, <1>3, <1>4, <1>5 DEF Recording

\* Replaying keeps the calm: there is nothing but elapsedTime to keep in step.
LEMMA ReplayingCalm == CalmInv /\ Replaying => CalmInv'
<1> SUFFICES ASSUME CalmInv, Replaying
             PROVE  InStep' /\ Timed' /\ Quiet' /\ Alone'
  BY NextIInv DEF CalmInv, Next
<1>t. TypeOK /\ Alone
  BY DEF CalmInv, IInv
<1>1. ASSUME StartReplay PROVE InStep' /\ Timed' /\ Quiet' /\ Alone'
  BY <1>1, <1>t DEF StartReplay, flight, InStep, Timed, Quiet, RecordingStates, Alone
<1>2. ASSUME ClearFlight PROVE InStep' /\ Timed' /\ Quiet' /\ Alone'
  BY <1>2 DEF ClearFlight, StopReplayAt, InStep, Timed, Quiet, RecordingStates, Alone
<1>3. ASSUME Frame PROVE InStep' /\ Timed' /\ Quiet' /\ Alone'
  BY <1>3, <1>t DEF Frame, flight, InStep, Timed, Quiet, RecordingStates, Alone
<1>4. ASSUME EndReached PROVE InStep' /\ Timed' /\ Quiet' /\ Alone'
  BY <1>4, <1>t DEF EndReached, StopReplayAt, flight, InStep, Timed, Quiet, RecordingStates, Alone
<1>5. ASSUME ResumeReplay PROVE InStep' /\ Timed' /\ Quiet' /\ Alone'
  BY <1>5, <1>t DEF ResumeReplay, flight, InStep, Timed, Quiet, RecordingStates, Alone
<1>6. ASSUME NEW at \in {current, Updated}, PauseReplay(at)
      PROVE  InStep' /\ Timed' /\ Quiet' /\ Alone'
  BY <1>6, <1>t DEF PauseReplay, flight, InStep, Timed, Quiet, RecordingStates, Valid, Alone
<1>7. ASSUME NEW at \in {current, Updated}, StopReplay(at)
      PROVE  InStep' /\ Timed' /\ Quiet' /\ Alone'
  BY <1>7, <1>t DEF StopReplay, StopReplayAt, flight, InStep, Timed, Quiet, RecordingStates, Alone
<1> QED
  BY <1>1, <1>2, <1>3, <1>4, <1>5, <1>6, <1>7 DEF Replaying

\* What leaves the state, the timestamp and the flight alone while recording, and
\* moves the position only forward, keeps the calm.
LEMMA TimeGoesBy ==
    ASSUME CalmInv, UNCHANGED <<state, flight>>, Valid' <=> Valid,
           state \in RecordingStates => current' \in {current, Position} /\ current' <= Position',
           state = "Connected" => UNCHANGED <<base, current>>
    PROVE  InStep' /\ Timed' /\ Quiet' /\ Alone'
<1>t. TypeOK /\ Alone
  BY DEF CalmInv, IInv
<1>1. last' = last /\ Alone' /\ state' = state /\ (positions' <=> positions)
  BY <1>t DEF flight, Alone
<1>2. InStep'
  <2> SUFFICES ASSUME "formation" \notin Hazards, state = "Connected"
               PROVE  (base = current \/ AtEnd)'
    BY <1>1 DEF InStep
  <2>1. base' = base /\ current' = current /\ others' = 0 /\ others = 0
    BY <1>t, <1>1 DEF Alone
  <2>2. base = current \/ AtEnd
    BY DEF CalmInv, InStep
  <2> QED
    BY <1>1, <2>1, <2>2 DEF AtEnd, Total, UserDuration, Larger
<1>3. Timed'
  <2> SUFFICES ASSUME state \in RecordingStates PROVE Timed'
    BY <1>1 DEF Timed
  <2>1. last' <= current'
    BY <1>t, <1>1, UpdatedIsPosition DEF CalmInv, Timed, TypeOK, NoTime
  <2>2. last = NoTime => Position = current
    BY DEF Position
  <2> QED
    BY <1>1, <2>1, <2>2 DEF CalmInv, Timed
<1>4. Quiet'
  BY <1>1 DEF CalmInv, Quiet
<1> QED
  BY <1>1, <1>2, <1>3, <1>4

LEMMA ControllingCalm ==
    CalmInv /\ (Tick \/ Dispatch \/ Controlling) /\ ~disturbed' => CalmInv'
<1> SUFFICES ASSUME CalmInv, Tick \/ Dispatch \/ Controlling, ~disturbed'
             PROVE  InStep' /\ Timed' /\ Quiet' /\ Alone'
  BY NextIInv DEF CalmInv, Next
<1>t. TypeOK /\ Alone
  BY DEF CalmInv, IInv
<1>1. ASSUME Tick PROVE InStep' /\ Timed' /\ Quiet' /\ Alone'
  <2>1. Valid /\ Valid' /\ elapsed \in Nat /\ elapsed' = elapsed + 1 /\ state' = state
        /\ base' = base /\ current' = current /\ last' = last
    BY <1>1, <1>t DEF Tick, flight, Valid, TypeOK, NoTimer
  <2>2. ASSUME state \in RecordingStates PROVE current' <= Position'
    <3>1. elapsed' * Normal = elapsed * Normal + Normal /\ elapsed * Normal \in Nat
      BY <2>1, OneTick, Measured, FactorTypes
    <3>2. CASE last = NoTime
      BY <1>t, <2>1, <2>2, <3>2 DEF Position, TypeOK
    <3>3. CASE last # NoTime
      <4>1. Position = base + elapsed * Normal /\ Position' = base + elapsed' * Normal
        BY <2>1, <2>2, <3>3 DEF Position, RecordingStates
      <4> QED
        BY <1>t, <2>1, <2>2, <3>1, <4>1, FactorTypes DEF CalmInv, Timed, TypeOK
    <3> QED
      BY <3>2, <3>3
  <2> QED
    BY <1>1, <2>1, <2>2, TimeGoesBy DEF Tick
<1>2. ASSUME Dispatch PROVE InStep' /\ Timed' /\ Quiet' /\ Alone'
  <2>1. /\ Valid' <=> Valid
        /\ state' = state /\ last' = last /\ base' = base /\ elapsed' = elapsed
        /\ factor' = factor /\ current' = Updated
    BY <1>2 DEF Dispatch, Valid, flight
  <2>2. state \in RecordingStates => current' \in {current, Position} /\ current' <= Position'
    <3>1. CASE state \in RecordingStates /\ last = NoTime
      BY <1>t, <2>1, <3>1, UpdatedIsPosition DEF Position, TypeOK, CalmInv
    <3>2. CASE state \in RecordingStates /\ last # NoTime
      <4>1. Position' = Position
        BY <2>1, <3>2 DEF Position, RecordingStates
      <4> QED
        BY <1>t, <2>1, <3>2, <4>1, UpdatedIsPosition DEF TypeOK
    <3> QED
      BY <3>1, <3>2
  <2>3. state = "Connected" => UNCHANGED <<base, current>>
    BY <2>1 DEF Updated
  <2> QED
    BY <1>2, <2>1, <2>2, <2>3, TimeGoesBy DEF Dispatch
<1>3. ASSUME NEW timestamp \in 0..MaxTime, Seek(timestamp)
      PROVE  InStep' /\ Timed' /\ Quiet' /\ Alone'
  <2>1. state' = state /\ state \notin RecordingStates /\ base' = current' /\ Alone'
    BY <1>3, <1>t DEF Seek, SoughtTo, flight, Alone
  <2>2. state = "ReplayPaused" => ~Valid'
    BY <1>3 DEF CalmInv, Quiet, Seek, SoughtTo, Valid
  <2> QED
    BY <2>1, <2>2 DEF InStep, Timed, Quiet, RecordingStates
<1>4. ASSUME NEW to \in Factors, SetReplaySpeedFactor(to)
      PROVE  InStep' /\ Timed' /\ Quiet' /\ Alone'
  <2>1. Valid => state = "Replay"
    BY <1>4 DEF SetReplaySpeedFactor
  <2>2. state' = state /\ current' = current /\ last' = last /\ Alone'
    BY <1>4, <1>t DEF SetReplaySpeedFactor, flight, Alone
  <2>3. CASE Valid
    BY <2>1, <2>2, <2>3 DEF InStep, Timed, Quiet, RecordingStates
  <2>4. CASE ~Valid
    <3>1. base' = base /\ elapsed' = elapsed /\ ~Valid'
      BY <1>4, <2>4 DEF SetReplaySpeedFactor, Valid
    <3>2. state \in RecordingStates => Position' = Position
      BY <2>2, <2>4, <3>1 DEF CalmInv, Timed, Position, RecordingStates
    <3> QED
      BY <1>4, <1>t, <2>2, <2>4, <3>1, <3>2, TimeGoesBy DEF SetReplaySpeedFactor, CalmInv, Timed
  <2> QED
    BY <2>3, <2>4
<1>5. ASSUME SetReplayLoop PROVE InStep' /\ Timed' /\ Quiet' /\ Alone'
  <2>1. /\ Valid' <=> Valid
        /\ UNCHANGED <<state, flight>>
        /\ state' = state /\ last' = last /\ base' = base /\ elapsed' = elapsed
        /\ factor' = factor /\ current' = current
    BY <1>5 DEF SetReplayLoop, Valid, clock, flight
  <2>2. Position' = Position
    BY <2>1 DEF Position
  <2> QED
    BY <2>1, <2>2, TimeGoesBy DEF CalmInv, Timed
<1>6. ASSUME NEW duration \in 0..MaxDuration, LoadFlight(duration) \/ ImportFlight(duration)
      PROVE  InStep' /\ Timed' /\ Quiet' /\ Alone'
  BY <1>6 DEF LoadFlight, ImportFlight, Restored, ReplayFrom, InStep, Timed, Quiet, Valid, Alone,
     RecordingStates
<1> QED
  BY <1>1, <1>2, <1>3, <1>4, <1>5, <1>6 DEF Controlling

LEMMA NextCalm == CalmInv /\ [Next]_vars /\ ~disturbed' => CalmInv'
<1>1. CalmInv /\ UNCHANGED vars => CalmInv'
  <2> SUFFICES ASSUME CalmInv, UNCHANGED vars PROVE CalmInv'
    OBVIOUS
  <2>1. IInv'
    BY NextIInv DEF CalmInv
  <2>2. /\ UNCHANGED <<state, flight>>
        /\ UNCHANGED <<state, base, elapsed, factor, current, last>>
    BY DEF vars, clock, flight
  <2>3. (Valid' <=> Valid) /\ Position' = Position
    BY <2>2 DEF Valid, Position
  <2> QED
    BY <2>1, <2>2, <2>3, TimeGoesBy DEF CalmInv, Timed
<1> QED
  BY <1>1, RecordingCalm, ReplayingCalm, ControllingCalm DEF Next

\* Only the start of a recording makes a clock that has been disturbed a calm one.
LEMMA NextClock == ClockInv /\ [Next]_vars => ClockInv'
<1> SUFFICES ASSUME ClockInv, [Next]_vars, ~disturbed' PROVE CalmInv'
  BY NextIInv DEF ClockInv
<1>1. CASE ~disturbed
  BY <1>1, NextCalm DEF ClockInv
<1>2. CASE disturbed
  <2>1. \E addToFormation \in BOOLEAN : StartRecording(addToFormation)
    <3>1. ~Tick /\ ~Dispatch /\ ~UNCHANGED vars
      BY <1>2 DEF Tick, Dispatch, vars
    <3>2. ~Replaying
      BY <1>2 DEF Replaying, StartReplay, ClearFlight, Frame, EndReached, ResumeReplay,
                  PauseReplay, StopReplay
    <3>3. ~Controlling
      BY <1>2 DEF Controlling, Seek, SetReplaySpeedFactor, SetReplayLoop, LoadFlight, ImportFlight
    <3>4. Recording
      BY <3>1, <3>2, <3>3 DEF Next
    <3> QED
      BY <1>2, <3>4 DEF Recording, Sample, PauseRecording, StopRecording, ResumeRecording
  <2> QED
    BY <2>1, NextIInv, StartRecordingCalm DEF CalmInv, ClockInv
<1> QED
  BY <1>1, <1>2

\* Without hazards, no recording is disturbed.
LEMMA NextQuietly ==
    ASSUME Hazards = {}, CalmInv, ~disturbed, [Next]_vars
    PROVE  CalmInv' /\ ~disturbed'
<1>1. ~disturbed'
  <2>1. CASE Tick \/ Dispatch \/ UNCHANGED vars
    BY <2>1 DEF Tick, Dispatch, vars
  <2>2. CASE Recording
    BY <2>2 DEF Recording, StartRecording, Sample, PauseRecording, StopRecording, ResumeRecording
  <2>3. CASE Replaying
    BY <2>3 DEF Replaying, StartReplay, ClearFlight, Frame, EndReached, ResumeReplay,
                PauseReplay, StopReplay
  <2>4. CASE Controlling
    BY <2>4 DEF Controlling, Seek, SetReplaySpeedFactor, SetReplayLoop, LoadFlight, ImportFlight
  <2> QED
    BY <2>1, <2>2, <2>3, <2>4 DEF Next
<1> QED
  BY <1>1, NextCalm

-----------------------------------------------------------------------------
(***************************************************************************)
(* Refinement: every step of the timers is a step of the clock of module   *)
(* Playback, or leaves that clock as it is.                                *)
(***************************************************************************)
PlaybackStep == [Clock!Next]_(Clock!playback)

LEMMA InitPlayback == Init => Clock!Init
  BY DEF Init, Clock!Init, Position

\* Recording.
LEMMA RecordingPlayback ==
    Hazards = {} /\ CalmInv /\ ~disturbed /\ Recording => PlaybackStep
<1> SUFFICES ASSUME Hazards = {}, CalmInv, ~disturbed, Recording PROVE PlaybackStep
  OBVIOUS
<1>t. TypeOK /\ CalmInv'
  BY NextQuietly DEF CalmInv, IInv, Next
<1> USE DEF PlaybackStep, Clock!Next, Clock!playback
<1>1. ASSUME NEW addToFormation \in BOOLEAN, StartRecording(addToFormation)
      PROVE  PlaybackStep
  <2>1. Position' = 0
    BY <1>1 DEF StartRecording, Position, RecordingStates
  <2> QED
    BY <1>1, <2>1 DEF StartRecording, Clock!Record
<1>2. ASSUME NEW position \in BOOLEAN, Sample(position)
      PROVE  PlaybackStep
  <2>1. /\ state = "Recording" /\ state' = "Recording" /\ factor' = factor
        /\ Updated = Position
    BY <1>2, UpdatedIsPosition DEF Sample
  <2>2. CASE Valid
    <3>1. current' = Updated /\ elapsed' = elapsed /\ base' = base
      BY <1>2, <2>2 DEF Sample
    <3>2. last # NoTime /\ last' # NoTime
      BY <1>2, <1>t, <2>1, <2>2, <3>1 DEF CalmInv, Timed, RecordingStates, Valid
    <3>3. Position' = Position
      BY <2>1, <2>2, <3>1, <3>2 DEF Position, Valid
    <3> QED
      BY <2>1, <3>1, <3>3 DEF Clock!Show, Clock!RunningModes
  <2>3. CASE ~Valid
    <3>1. Valid' /\ current' = 0 /\ elapsed' = 0 /\ base' = 0
      BY <1>2, <2>3 DEF Sample, FirstSample, Valid, NoTimer
    <3>2. Position = 0 /\ current = 0
      BY <2>1, <2>3 DEF CalmInv, Timed, Position, RecordingStates
    <3>3. last' # NoTime
      BY <1>t, <2>1, <3>1 DEF CalmInv, Timed, RecordingStates
    <3>4. Position' = 0
      BY <2>1, <3>1, <3>3, NoTick, FactorTypes DEF Position
    <3> QED
      BY <2>1, <3>1, <3>2, <3>4
  <2> QED
    BY <2>2, <2>3
<1>3. ASSUME NEW at \in {current, Updated}, PauseRecording(at)
      PROVE  PlaybackStep
  <2>1. /\ state = "Recording" /\ state' = "RecordingPaused" /\ factor' = factor
        /\ current' = at /\ last' = last /\ ~Valid'
    BY <1>3 DEF PauseRecording, flight, Valid
  <2>2. at \in {current, Position}
    BY <1>3, UpdatedIsPosition
  <2>3. Position' = Position
    <3>1. CASE last = NoTime
      <4>1. Position = current /\ Updated = current
        BY <2>1, <3>1 DEF CalmInv, Timed, Position, Updated, RecordingStates
      <4> QED
        BY <1>3, <2>1, <3>1, <4>1 DEF Position, RecordingStates
    <3>2. CASE last # NoTime
      <4>1. Valid
        BY <2>1, <3>2 DEF CalmInv, Timed, RecordingStates
      <4> QED
        BY <1>3, <2>1, <3>2, <4>1 DEF PauseRecording, Position, RecordingStates
    <3> QED
      BY <3>1, <3>2
  <2> QED
    BY <2>1, <2>2, <2>3 DEF Clock!Pause
<1>4. ASSUME NEW at \in {current, Updated}, StopRecording(at)
      PROVE  PlaybackStep
  <2>1. at \in {current, Position}
    BY <1>4, UpdatedIsPosition
  <2>2. Position' = current'
    BY <1>4 DEF StopRecording, Position
  <2> QED
    BY <1>4, <2>1, <2>2 DEF StopRecording, Clock!Stop
<1>5. ASSUME ResumeRecording PROVE PlaybackStep
  <2>1. /\ state = "RecordingPaused" /\ state' = "Recording" /\ factor' = factor
        /\ current' = current /\ base' = base /\ last' = last /\ ~Valid
    BY <1>5 DEF ResumeRecording, flight, CalmInv, Quiet
  <2>2. Position' = Position
    <3>1. CASE last = NoTime
      BY <2>1, <3>1 DEF Position, RecordingStates
    <3>2. CASE last # NoTime
      <4>1. elapsed' = 0 /\ Valid'
        BY <1>5, <2>1, <3>2 DEF ResumeRecording, CalmInv, Timed, RecordingStates, Started,
           RunningStates, Valid, NoTimer
      <4>2. Position' = base + 0 * Normal
        BY <2>1, <3>2, <4>1 DEF Position
      <4>3. Position = base
        BY <2>1, <3>2 DEF Position
      <4> QED
        BY <1>t, <4>2, <4>3, NoTick, FactorTypes DEF TypeOK
    <3> QED
      BY <3>1, <3>2
  <2> QED
    BY <2>1, <2>2 DEF Clock!Resume
<1> QED
  BY <1>1, <1>2, <1>3, <1>4, <1>5 DEF Recording

\* A timer that has just been started adds nothing to elapsedTime.
LEMMA JustStarted ==
    ASSUME TypeOK', state' \in ReplayStates, elapsed' \in {0, NoTimer}
    PROVE  Position' = base'
<1>1. factor' \in Nat /\ base' \in Int
  BY FactorTypes DEF TypeOK
<1>2. state' # "Connected" /\ state' \notin RecordingStates
  BY DEF ReplayStates, RecordingStates
<1>3. CASE elapsed' = 0
  <2>1. state' = "Replay" => Position' = base' + 0 * factor'
    BY <1>2, <1>3 DEF Position, Valid, NoTimer
  <2>2. state' = "ReplayPaused" => Position' = base' + 0 * Normal
    BY <1>2, <1>3 DEF Position, Valid, NoTimer
  <2> QED
    BY <1>1, <2>1, <2>2, NoTick, FactorTypes DEF ReplayStates
<1>4. CASE elapsed' = NoTimer
  BY <1>2, <1>4 DEF Position, Valid
<1> QED
  BY <1>3, <1>4

\* Replaying.
LEMMA ReplayingPlayback ==
    Hazards = {} /\ CalmInv /\ ~disturbed /\ Replaying => PlaybackStep
<1> SUFFICES ASSUME Hazards = {}, CalmInv, ~disturbed, Replaying PROVE PlaybackStep
  OBVIOUS
<1>t. TypeOK /\ TypeOK'
  BY NextQuietly DEF CalmInv, IInv, Next
<1> USE DEF PlaybackStep, Clock!Next, Clock!playback
<1>1. ASSUME StartReplay PROVE PlaybackStep
  <2>1. state = "Connected" /\ state' = "Replay" /\ elapsed' = NoTimer /\ factor' = factor
    BY <1>1 DEF StartReplay, ReplayFrom
  <2>2. Position' = base'
    BY <1>t, <2>1, JustStarted DEF ReplayStates
  <2>3. base' = current' /\ current' \in {current, 0}
    BY <1>1, <2>1 DEF StartReplay, ReplayFrom, CalmInv, InStep
  <2> QED
    BY <2>1, <2>2, <2>3 DEF Clock!Play
<1>2. ASSUME NEW at \in {current, Position}, StopReplayAt(at), factor' = factor
      PROVE  PlaybackStep
  <2>1. Position' = current'
    BY <1>2 DEF StopReplayAt, Position
  <2> QED
    BY <1>2, <2>1 DEF StopReplayAt, Clock!Stop
<1>3. ASSUME ClearFlight PROVE PlaybackStep
  BY <1>2, <1>3 DEF ClearFlight
<1>4. ASSUME Frame PROVE PlaybackStep
  <2>1. /\ state = "Replay" /\ state' = "Replay" /\ factor' = factor /\ base' = base
        /\ current' = Updated
    BY <1>4 DEF Frame
  <2>2. CASE Valid
    <3>1. elapsed' = elapsed /\ Updated = Position
      BY <1>4, <2>1, <2>2, UpdatedIsPosition DEF Frame
    <3>2. Position' = Position
      BY <2>1, <3>1 DEF Position, RecordingStates, Valid
    <3> QED
      BY <2>1, <3>1, <3>2 DEF Clock!Show, Clock!RunningModes
  <2>3. CASE ~Valid
    <3>1. elapsed' = 0 /\ Updated = current
      BY <1>4, <2>1, <2>3 DEF Frame, Started, RunningStates, Updated
    <3>2. Position = base
      BY <2>1, <2>3 DEF Position, RecordingStates
    <3>3. Position' = base
      BY <1>t, <2>1, <3>1, JustStarted DEF ReplayStates
    <3> QED
      BY <2>1, <3>1, <3>2, <3>3
  <2> QED
    BY <2>2, <2>3
<1>5. ASSUME EndReached PROVE PlaybackStep
  <2>1. CASE loop /\ SoughtTo(0) /\ UNCHANGED state
    <3>1. /\ state = "Replay" /\ state' = "Replay" /\ factor' = factor
          /\ base' = 0 /\ current' = 0 /\ elapsed' \in {0, NoTimer}
      BY <1>5, <2>1 DEF EndReached, SoughtTo, Started, RunningStates, Valid
    <3>2. Position' = 0
      BY <1>t, <3>1, JustStarted DEF ReplayStates
    <3> QED
      BY <3>1, <3>2 DEF Clock!Seek
  <2>2. CASE ~loop /\ StopReplayAt(Updated)
    BY <1>2, <1>5, <2>2, UpdatedIsPosition DEF EndReached
  <2> QED
    BY <1>5, <2>1, <2>2 DEF EndReached
<1>6. ASSUME ResumeReplay PROVE PlaybackStep
  <2>1. /\ state = "ReplayPaused" /\ state' = "Replay" /\ factor' = factor
        /\ base' = base /\ current' = current /\ elapsed' = 0 /\ ~Valid
    BY <1>6 DEF ResumeReplay, Started, RunningStates, CalmInv, Quiet
  <2>2. Position = base
    BY <2>1 DEF Position, RecordingStates
  <2>3. Position' = base
    BY <1>t, <2>1, JustStarted DEF ReplayStates
  <2> QED
    BY <2>1, <2>2, <2>3 DEF Clock!Resume
<1>7. ASSUME NEW at \in {current, Updated}, PauseReplay(at)
      PROVE  PlaybackStep
  <2>1. /\ state = "Replay" /\ state' = "ReplayPaused" /\ factor' = factor
        /\ current' = at /\ elapsed' = NoTimer
    BY <1>7 DEF PauseReplay
  <2>2. at \in {current, Position}
    BY <1>7, UpdatedIsPosition
  <2>3. base' = Position
    BY <1>7, <2>1 DEF PauseReplay, Position, RecordingStates
  <2>4. Position' = base'
    BY <1>t, <2>1, JustStarted DEF ReplayStates
  <2> QED
    BY <2>1, <2>2, <2>3, <2>4 DEF Clock!Pause
<1>8. ASSUME NEW at \in {current, Updated}, StopReplay(at)
      PROVE  PlaybackStep
  BY <1>2, <1>8, UpdatedIsPosition DEF StopReplay
<1> QED
  BY <1>1, <1>3, <1>4, <1>5, <1>6, <1>7, <1>8 DEF Replaying

\* Time, seeking, speed and other flights.
LEMMA ControllingPlayback ==
    Hazards = {} /\ CalmInv /\ ~disturbed /\ (Tick \/ Dispatch \/ Controlling) => PlaybackStep
<1> SUFFICES ASSUME Hazards = {}, CalmInv, ~disturbed, Tick \/ Dispatch \/ Controlling
             PROVE  PlaybackStep
  OBVIOUS
<1>t. TypeOK /\ TypeOK' /\ CalmInv'
  BY NextQuietly DEF CalmInv, IInv, Next
<1> USE DEF PlaybackStep, Clock!Next, Clock!playback
<1>1. ASSUME Tick PROVE PlaybackStep
  <2>1. /\ Valid /\ Valid' /\ elapsed \in Nat /\ elapsed' = elapsed + 1 /\ state' = state
        /\ base' = base /\ current' = current /\ last' = last /\ factor' = factor
    BY <1>1, <1>t DEF Tick, flight, Valid, TypeOK, NoTimer
  <2>2. factor \in Nat /\ base \in Int
    BY <1>t, FactorTypes DEF TypeOK
  <2>3. CASE state = "Connected"
    BY <2>1, <2>3 DEF Position
  <2>4. CASE state = "Recording"
    <3>1. last # NoTime
      BY <2>1, <2>4 DEF CalmInv, Timed, RecordingStates
    <3>2. Position = base + elapsed * Normal /\ Position' = base + (elapsed + 1) * Normal
      BY <2>1, <2>4, <3>1 DEF Position
    <3>3. Position' = Position + Normal
      BY <2>1, <2>2, <3>2, OneTick, Measured, FactorTypes
    <3> QED
      BY <2>1, <2>4, <3>3 DEF Clock!Advance, Clock!RunningModes
  <2>5. CASE state = "Replay"
    <3>1. Position = base + elapsed * factor /\ Position' = base + (elapsed + 1) * factor
      BY <2>1, <2>5 DEF Position, RecordingStates
    <3>2. Position' = Position + factor
      BY <2>1, <2>2, <3>1, OneTick, Measured
    <3> QED
      BY <2>1, <2>5, <3>2 DEF Clock!Advance, Clock!RunningModes
  <2> QED
    BY <1>t, <2>1, <2>3, <2>4, <2>5 DEF CalmInv, Quiet, TypeOK, States, RecordingStates, ReplayStates
<1>2. ASSUME Dispatch PROVE PlaybackStep
  <2>1. /\ state' = state /\ last' = last /\ base' = base /\ elapsed' = elapsed
        /\ factor' = factor /\ current' = Updated
    BY <1>2 DEF Dispatch, flight
  <2>2. CASE Updated = current
    <3>1. Position' = Position
      BY <2>1, <2>2 DEF Position, Valid
    <3> QED
      BY <2>1, <2>2, <3>1
  <2>3. CASE Updated # current
    <3>1. state \in RunningStates /\ Valid /\ Updated = Position
      BY <2>3, UpdatedIsPosition DEF Updated, RunningStates
    <3>2. state \in RecordingStates => last # NoTime
      BY <2>3, <3>1 DEF Position
    <3>3. Position' = Position
      BY <2>1, <3>1, <3>2 DEF Position, Valid, RunningStates
    <3> QED
      BY <2>1, <3>1, <3>3 DEF Clock!Show, Clock!RunningModes, RunningStates
  <2> QED
    BY <2>2, <2>3
<1>3. ASSUME NEW timestamp \in 0..MaxTime, Seek(timestamp)
      PROVE  PlaybackStep
  <2>1. /\ state' = state /\ factor' = factor /\ state \notin RecordingStates
        /\ base' = timestamp /\ current' = timestamp /\ timestamp \in Nat
    BY <1>3, BoundsAssumption DEF Seek, SoughtTo
  <2>2. CASE state = "Connected"
    BY <2>1, <2>2 DEF Clock!Seek, Position
  <2>3. CASE state \in ReplayStates
    <3>1. elapsed' \in {0, NoTimer}
      BY <1>3, <2>3 DEF Seek, SoughtTo, Started, RunningStates, ReplayStates, CalmInv, Quiet, Valid
    <3>2. Position' = timestamp
      BY <1>t, <2>1, <2>3, <3>1, JustStarted
    <3> QED
      BY <2>1, <2>3, <3>2 DEF Clock!Seek, ReplayStates
  <2> QED
    BY <1>t, <2>1, <2>2, <2>3 DEF TypeOK, States
<1>4. ASSUME NEW to \in Factors, SetReplaySpeedFactor(to)
      PROVE  PlaybackStep
  <2>1. Valid => state = "Replay"
    BY <1>4 DEF SetReplaySpeedFactor
  <2>2. state' = state /\ current' = current /\ last' = last /\ factor' \in Factors
    BY <1>4 DEF SetReplaySpeedFactor, flight
  <2>3. Position' = Position
    <3>1. CASE Valid
      <4>1. base' = base + elapsed * factor /\ elapsed' = 0
        BY <1>4, <2>1, <3>1 DEF SetReplaySpeedFactor, Started, RunningStates
      <4>2. Position' = base'
        BY <1>t, <2>1, <2>2, <3>1, <4>1, JustStarted DEF ReplayStates
      <4> QED
        BY <2>1, <3>1, <4>1, <4>2 DEF Position, RecordingStates
    <3>2. CASE ~Valid
      <4>1. base' = base /\ ~Valid'
        BY <1>4, <3>2 DEF SetReplaySpeedFactor, Valid
      <4> QED
        BY <2>2, <3>2, <4>1 DEF Position
    <3> QED
      BY <3>1, <3>2
  <2> QED
    BY <2>2, <2>3 DEF Clock!SetRate
<1>5. ASSUME SetReplayLoop PROVE PlaybackStep
  <2>1. /\ state' = state /\ last' = last /\ base' = base /\ elapsed' = elapsed
        /\ factor' = factor /\ current' = current
    BY <1>5 DEF SetReplayLoop, clock, flight
  <2>2. Position' = Position
    BY <2>1 DEF Position, Valid
  <2> QED
    BY <2>1, <2>2
<1>6. ASSUME NEW duration \in 0..MaxDuration, LoadFlight(duration)
      PROVE  PlaybackStep
  <2>1. /\ state = "ReplayPaused" /\ state' = "ReplayPaused" /\ factor' = factor
        /\ elapsed' = NoTimer
    BY <1>6 DEF LoadFlight, ReplayFrom
  <2>2. Position' = base' /\ Position = base
    BY <1>t, <2>1, JustStarted DEF ReplayStates, Position, RecordingStates, CalmInv, Quiet
  <2>3. UNCHANGED <<base, current>> \/ (base' = 0 /\ current' = 0)
    BY <1>6 DEF LoadFlight, ReplayFrom
  <2> QED
    BY <2>1, <2>2, <2>3 DEF Clock!Load
<1>7. ASSUME NEW duration \in 0..MaxDuration, ImportFlight(duration)
      PROVE  PlaybackStep
  <2>1. /\ state \notin RecordingStates /\ state' = "ReplayPaused" /\ factor' = factor
        /\ elapsed' = NoTimer /\ base' = 0 /\ current' = 0
    BY <1>7 DEF ImportFlight, ReplayFrom
  <2>2. Position' = 0
    BY <1>t, <2>1, JustStarted DEF ReplayStates
  <2> QED
    BY <2>1, <2>2 DEF Clock!Load, RecordingStates
<1> QED
  BY <1>1, <1>2, <1>3, <1>4, <1>5, <1>6, <1>7 DEF Controlling

\* Without hazards, the timers of AbstractSkyConnect implement the clock of module
\* Playback: for every speed, and however often a session is paused, sought, stopped
\* and started again, no time is lost or added.
THEOREM ClockCorrect == ASSUME Hazards = {} PROVE Spec => ImplementsPlayback
<1>1. CalmInv /\ ~disturbed /\ [Next]_vars => PlaybackStep
  <2>1. CalmInv /\ UNCHANGED vars => UNCHANGED Clock!playback
    BY DEF vars, clock, flight, Clock!playback, Position, Valid
  <2> QED
    BY <2>1, RecordingPlayback, ReplayingPlayback, ControllingPlayback DEF Next, PlaybackStep
<1>2. CalmInv /\ ~disturbed /\ [Next]_vars => CalmInv' /\ ~disturbed'
  BY NextQuietly
<1>3. Init => CalmInv /\ ~disturbed
  BY InitCalmInv DEF Init
<1> QED
  BY <1>1, <1>2, <1>3, InitPlayback, PTL
     DEF Spec, ImplementsPlayback, Clock!Spec, PlaybackStep

\* Whatever disturbs the clock of sessions before, no sample of a recording whose own
\* clock is left alone is stored before an earlier one.
THEOREM SamplesCorrect == Spec => SamplesInOrder
<1> DEFINE InOrder == ~disturbed /\ last # NoTime /\ (\E position \in BOOLEAN : Sample(position))
                         => last' >= last
<1>1. ClockInv => InOrder
  <2> SUFFICES ASSUME CalmInv, NEW position \in BOOLEAN, Sample(position) PROVE last' >= last
    BY DEF ClockInv
  <2>1. last' = Position /\ state \in RecordingStates
    BY UpdatedIsPosition DEF Sample, RecordingStates
  <2> QED
    BY <2>1, UpdatedIsPosition DEF CalmInv, IInv, Timed, TypeOK, NoTime
<1>2. Init => ClockInv
  BY InitIInv, InitCalmInv DEF ClockInv
<1>3. ClockInv /\ [Next]_vars => [InOrder]_vars
  BY <1>1
<1> HIDE DEF InOrder
<1>4. Spec => [][InOrder]_vars
  BY <1>2, <1>3, NextClock, PTL DEF Spec
<1> QED
  BY <1>4 DEF SamplesInOrder, InOrder
=============================================================================
