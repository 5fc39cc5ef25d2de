------------------------------ MODULE Playback ------------------------------
(***************************************************************************)
(* What the clock of a recording or a replay promises, whatever timers it  *)
(* is made of: the position advances at the rate of the mode while it      *)
(* runs, stands still while it is paused, moves to where it is sought, and *)
(* a replay continues from the position that was shown when it stopped.    *)
(***************************************************************************)
EXTENDS Integers

CONSTANTS Rates,    \* the positive rates of a replay
          Normal    \* the rate of a recording

VARIABLES mode,     \* Connect::State, connected
          rate,     \* the rate of the replay
          position, \* the position, in units of time
          shown     \* the position that was last told to the user

playback == <<mode, rate, position, shown>>

RunningModes == {"Recording", "Replay"}
PausedModes  == {"RecordingPaused", "ReplayPaused"}

Init ==
    /\ mode = "Connected"
    /\ rate \in Rates
    /\ position = 0
    /\ shown = 0

Advance ==
    /\ mode \in RunningModes
    /\ position' = position + (IF mode = "Replay" THEN rate ELSE Normal)
    /\ UNCHANGED <<mode, rate, shown>>

Show ==
    /\ mode \in RunningModes
    /\ shown' = position
    /\ UNCHANGED <<mode, rate, position>>

\* A recording starts at 0; a replay where it was left, or at 0 again.
Record ==
    /\ mode = "Connected"
    /\ mode' = "Recording"
    /\ position' = 0 /\ shown' = 0
    /\ UNCHANGED rate

Play ==
    /\ mode = "Connected"
    /\ mode' = "Replay"
    /\ shown' \in {shown, 0}
    /\ position' = shown'
    /\ UNCHANGED rate

Pause ==
    /\ \/ mode = "Recording" /\ mode' = "RecordingPaused"
       \/ mode = "Replay" /\ mode' = "ReplayPaused"
    /\ shown' \in {shown, position}
    /\ UNCHANGED <<rate, position>>

Resume ==
    /\ \/ mode = "RecordingPaused" /\ mode' = "Recording"
       \/ mode = "ReplayPaused" /\ mode' = "Replay"
    /\ shown' \in {shown, position}
    /\ UNCHANGED <<rate, position>>

\* What was shown last is where it continues.
Stop ==
    /\ mode' = "Connected"
    /\ shown' \in {shown, position}
    /\ position' = shown'
    /\ UNCHANGED rate

Seek ==
    /\ mode \notin {"Recording", "RecordingPaused"}
    /\ shown' \in Nat
    /\ position' = shown'
    /\ UNCHANGED <<mode, rate>>

SetRate ==
    /\ rate' \in Rates
    /\ UNCHANGED <<mode, position, shown>>

\* Another flight: paused, at the same position or at 0.
Load ==
    /\ mode \notin {"Recording", "RecordingPaused"}
    /\ mode' = "ReplayPaused"
    /\ UNCHANGED <<position, shown>> \/ (position' = 0 /\ shown' = 0)
    /\ UNCHANGED rate

Next ==
    \/ Advance \/ Show \/ Record \/ Play \/ Pause \/ Resume \/ Stop \/ Seek
    \/ SetRate \/ Load

Spec == Init /\ [][Next]_playback
=============================================================================
