----------------------------- MODULE EventState -----------------------------
(***************************************************************************)
(* The switches of the user aircraft that SimConnect cannot set to a       *)
(* value: a light can only be toggled, the flaps handle and the simulation *)
(* rate can only be moved a step up or down.  EventStateHandler and        *)
(* SimulationRate keep an EventState switch for each of them, ask the      *)
(* simulator for the current value, and send the events that lead to the   *)
(* requested one when the answer has arrived, some frames later.           *)
(*                                                                         *)
(* The switches do not depend on each other, so every behaviour is about   *)
(* one of them (kind).  A call that fails changes nothing that the next    *)
(* attempt, on a new connection, does not set again: a connection that is  *)
(* lost is one step here, Restart.                                         *)
(***************************************************************************)
EXTENDS Integers, Sequences, SequencesExt

CONSTANTS
    MaxValue,   \* bound: positions of the flaps handle, or of the rate, are 0 .. MaxValue
    MaxCalls,   \* bound: calls and answers that are under way
    Hazards     \* disturbances that may happen, see HazardsAssumption

(***************************************************************************)
(* An answer is still under way when the switch is reset, asked for        *)
(* another value or when a recording starts ("late"); the simulation rate  *)
(* is read when none has been asked for ("unasked"); the simulator is      *)
(* restarted in the middle of a replay ("restart"); the user moves the     *)
(* flaps handle or changes the rate in the simulator ("manual"); the       *)
(* aircraft has fewer positions than the one in the recording ("range").   *)
(***************************************************************************)
ASSUME HazardsAssumption ==
    Hazards \subseteq {"late", "unasked", "restart", "manual", "range"}
ASSUME BoundsAssumption == MaxValue \in Nat \ {0} /\ MaxCalls \in Nat

Kinds   == {"light", "flaps", "rate"}
Values  == 0 .. MaxValue
Changes == {"up", "down", "toggle"}

\* Nothing, as a number that is not in Values.
None == MaxValue + 1

\* The value that the switch has when the simulator starts: for the rate, 1x.
Normal == 1

VARIABLES
    kind,       \* which switch this is
    session,    \* the state of AbstractSkyConnect, as far as it matters here
    switch,     \* StatelessSwitch, StatefulSwitch
    sim,        \* external: the switch in the simulator
    limit,      \* external: its highest position there
    calls,      \* external: calls that the simulator has not handled yet
    answers,    \* external: values that have not been dispatched yet
    asked,      \* auxiliary: what has been asked for since the last reset
    disturbed   \* auxiliary: what the switch takes for known may be wrong, until it is reset

link == <<calls, answers>>
vars == <<kind, session, switch, sim, limit, calls, answers, asked, disturbed>>

May(h) == h \in Hazards

IsAnswered == answers = <<>> /\ "query" \notin Range(calls)
InTime     == May("late") \/ IsAnswered
\* The steps about to be sent make the answer under way an outdated one.
IsOutdated == switch.valid /\ ~IsAnswered

Top == IF kind = "light" THEN 1 ELSE MaxValue

\* What the recording, or the user, may ask for.
Asks == 0 .. (IF May("range") THEN Top ELSE limit)

-----------------------------------------------------------------------------
(***************************************************************************)
(* The switch.                                                             *)
(***************************************************************************)

\* Mutant: a position that is not one, rather than a flag, says that nothing is known.
ResetToInvalid == [requested |-> -1, current |-> -1, valid |-> FALSE, pending |-> FALSE]

\* reset
Reset == [requested |-> 0, current |-> 0, valid |-> FALSE, pending |-> FALSE]

\* StatefulSwitch::needsUpdate
NeedsUpdate(s) == ~s.valid \/ s.requested # s.current

\* Asks for the current value, once: testLight, and the last case of sendFlapsHandleIndex
\* and sendSimulationRate.
Test(s) ==
    [switch |-> [s EXCEPT !.pending = TRUE],
     calls  |-> IF s.pending THEN <<>> ELSE <<"query">>]

Steps(from, to) ==
    IF to > from THEN [i \in 1 .. to - from |-> "up"] ELSE [i \in 1 .. from - to |-> "down"]

\* Mutant: one step, whatever the distance.
SendStep(s) ==
    IF s.valid /\ NeedsUpdate(s)
    THEN [switch |-> [s EXCEPT !.current = s.requested, !.pending = FALSE],
          calls  |-> <<Head(Steps(s.current, s.requested))>>]
    ELSE IF NeedsUpdate(s) THEN Test(s) ELSE [switch |-> s, calls |-> <<>>]

\* sendFlapsHandleIndex, sendSimulationRate
SendStateful(s) ==
    IF s.valid /\ NeedsUpdate(s)
    THEN [switch |-> [s EXCEPT !.current = s.requested, !.pending = FALSE],
          calls  |-> Steps(s.current, s.requested)]
    ELSE IF NeedsUpdate(s) THEN Test(s) ELSE [switch |-> s, calls |-> <<>>]

\* A new value is requested.
Request(s, v) ==
    LET requesting == [s EXCEPT !.requested = v]
    IN  IF kind = "light" THEN Test(requesting) ELSE SendStateful(requesting)

\* Mutant: toggles without looking at the answer.
ToggleAlways(s, v) == [switch |-> [s EXCEPT !.pending = FALSE], calls |-> <<"toggle">>]

\* sendLight: toggles a light that is not as requested.
SendToggle(s, v) ==
    [switch |-> [s EXCEPT !.pending = FALSE],
     calls  |-> IF s.requested # v THEN <<"toggle">> ELSE <<>>]

\* set...Light, setCurrentFlapsHandleIndex, setCurrentSimulationRate
Answered(s, v) ==
    IF kind = "light"
    THEN SendToggle(s, v)
    ELSE SendStateful([s EXCEPT !.current = v, !.valid = TRUE])

Sends(result) ==
    /\ switch' = result.switch
    /\ calls' = calls \o result.calls
    /\ Len(calls') + Len(answers) <= MaxCalls

-----------------------------------------------------------------------------
Init ==
    /\ kind \in Kinds
    /\ limit \in {IF kind = "light" THEN 1 ELSE MaxValue} \cup
                 (IF May("range") /\ kind # "light" THEN {MaxValue - 1} ELSE {})
    /\ session = "idle"
    /\ switch = Reset
    /\ sim \in 0 .. limit
    /\ kind = "rate" => sim = Normal
    /\ calls = <<>>
    /\ answers = <<>>
    /\ asked = None
    /\ disturbed = FALSE

(***************************************************************************)
(* The session: what its operations do to the switch.                      *)
(***************************************************************************)

\* Mutant: a replay goes on with the switches of the last one.
ResetForgotten == switch

\* resetEventStates(StartReplay)
ResetForReplay == Reset

\* onStartReplay, then the rate; also of a replay that is running.
StartReplay(v) ==
    /\ session \in {"idle", "replay"}
    /\ InTime
    /\ session' = "replay"
    /\ IF kind = "rate"
       THEN Sends(Request(ResetForReplay, v)) /\ asked' = v
       ELSE switch' = ResetForReplay /\ asked' = None /\ UNCHANGED calls
    /\ disturbed' = (~IsAnswered \/ (kind = "rate" /\ v > limit))
    /\ UNCHANGED <<kind, sim, limit, answers>>

PauseReplay ==
    /\ session = "replay"
    /\ session' = "paused"
    /\ UNCHANGED <<kind, switch, sim, limit, link, asked, disturbed>>

\* onReplayPaused(false) resets the rate, too, but asks for none.
ResumeReplay ==
    /\ session = "paused"
    /\ InTime
    /\ session' = "replay"
    /\ switch' = ResetForReplay
    /\ asked' = None
    /\ disturbed' = ~IsAnswered
    /\ UNCHANGED <<kind, sim, limit, link>>

\* stopReplay, also by clearFlight: the rate is reset.
StopReplay ==
    /\ session # "recording"
    /\ May("restart") \/ ~switch.valid \/ asked # None
    /\ session' = "idle"
    /\ IF kind = "rate"
       THEN /\ May("late") \/ ~switch.valid \/ IsAnswered
            /\ Sends(Request(switch, Normal)) /\ asked' = Normal
            /\ disturbed' = (disturbed \/ IsOutdated)
       ELSE UNCHANGED <<switch, calls, asked, disturbed>>
    /\ UNCHANGED <<kind, sim, limit, answers>>

\* setReplaySpeedFactor; the rate is at most the one of the settings.
SetReplaySpeedFactor(v) ==
    /\ kind = "rate"
    /\ session \in {"replay", "paused"}
    /\ May("late") \/ ~switch.valid \/ IsAnswered
    /\ Sends(Request(switch, v))
    /\ asked' = v
    /\ disturbed' = (disturbed \/ IsOutdated \/ v > limit)
    /\ UNCHANGED <<kind, session, sim, limit, answers>>

\* A "Frame" event: sendAircraftData with the recorded value v.
Frame(v) ==
    /\ kind # "rate"
    /\ session = "replay"
    /\ Sends(Request(switch, v))
    /\ asked' = v
    /\ disturbed' = (disturbed \/ v > limit)
    /\ UNCHANGED <<kind, session, sim, limit, answers>>

\* seek: the rate is left alone.  The flaps are left alone in a continuous seek.
Seek(v, continuous) ==
    /\ kind # "rate"
    /\ session # "recording"
    /\ InTime
    /\ IF kind = "flaps" /\ continuous
       THEN switch' = Reset /\ asked' = None /\ disturbed' = ~IsAnswered /\ UNCHANGED calls
       ELSE Sends(Request(Reset, v)) /\ asked' = v /\ disturbed' = (~IsAnswered \/ v > limit)
    /\ UNCHANGED <<kind, session, sim, limit, answers>>

StartRecording ==
    /\ session = "idle"
    /\ InTime
    /\ session' = "recording"
    /\ UNCHANGED <<kind, switch, sim, limit, link, asked, disturbed>>

StopRecording ==
    /\ session = "recording"
    /\ session' = "idle"
    /\ UNCHANGED <<kind, switch, sim, limit, link, asked, disturbed>>

\* requestSimulationRate, a second after the user has selected a speed: the main window
\* shows the answer.
RequestSimulationRate ==
    /\ kind = "rate"
    /\ May("unasked") \/ asked # None
    /\ InTime
    /\ Sends([switch |-> switch, calls |-> <<"query">>])
    /\ disturbed' = (disturbed \/ asked = None \/ ~IsAnswered)
    /\ UNCHANGED <<kind, session, sim, limit, answers, asked>>

\* An answer: ignored while recording.
Dispatch ==
    /\ answers # <<>>
    /\ answers' = Tail(answers)
    /\ IF session = "recording"
       THEN UNCHANGED <<switch, calls>>
       ELSE LET result == Answered(switch, Head(answers))
            IN  switch' = result.switch /\ calls' = calls \o result.calls
    /\ UNCHANGED <<kind, session, sim, limit, asked, disturbed>>

(***************************************************************************)
(* The simulator (external).                                               *)
(***************************************************************************)

\* The value of a switch after a call; it stays within its range.
After(value, call) ==
    CASE call = "toggle" -> 1 - value
      [] call = "up"     -> IF value < limit THEN value + 1 ELSE value
      [] call = "down"   -> IF value > 0 THEN value - 1 ELSE value
      [] call = "query"  -> value

\* The values of the switch while the calls are handled, after each number of them.
Course(value, list) ==
    LET at[n \in 0 .. Len(list)] == IF n = 0 THEN value ELSE After(at[n - 1], list[n])
    IN  at

\* It handles the calls in their order.
Handle ==
    /\ calls # <<>>
    /\ calls' = Tail(calls)
    /\ IF Head(calls) = "query"
       THEN answers' = Append(answers, sim) /\ UNCHANGED sim
       ELSE sim' = After(sim, Head(calls)) /\ UNCHANGED answers
    /\ UNCHANGED <<kind, session, switch, limit, asked, disturbed>>

\* The user moves the switch in the simulator.
Move(v) ==
    /\ kind = "light" \/ May("manual") \/ ~switch.valid
    /\ InTime /\ calls = <<>>
    /\ sim' = v
    /\ asked' = None
    /\ disturbed' = (disturbed \/ switch.valid \/ ~IsAnswered)
    /\ UNCHANGED <<kind, session, switch, limit, link>>

\* The simulator crashes, is started again and connected again.
Restart ==
    /\ session' \in {"idle"} \cup (IF May("restart") THEN {session} ELSE {})
    /\ sim' = IF kind = "rate" THEN Normal ELSE 0
    /\ calls' = <<>>
    /\ answers' = <<>>
    /\ asked' = None
    /\ disturbed' = (disturbed \/ switch.valid \/ switch.pending)
    /\ UNCHANGED <<kind, switch, limit>>

Operate ==
    \/ \E v \in Asks : \/ StartReplay(v)
                       \/ SetReplaySpeedFactor(v)
                       \/ \E continuous \in BOOLEAN : Seek(v, continuous)
    \/ PauseReplay \/ ResumeReplay \/ StopReplay
    \/ StartRecording \/ StopRecording
    \/ RequestSimulationRate

Next ==
    \/ Operate
    \/ \E v \in Asks : Frame(v)
    \/ Handle \/ Dispatch
    \/ \E v \in 0 .. limit : Move(v)
    \/ Restart

Spec == Init /\ [][Next]_vars

\* The simulator and the event loop go on.
FairSpec == Spec /\ WF_vars(Handle) /\ WF_vars(Dispatch)

-----------------------------------------------------------------------------
(***************************************************************************)
(* Properties.                                                             *)
(***************************************************************************)

\* The values that the variables take.
TypeOK ==
    /\ kind \in Kinds
    /\ session \in {"idle", "replay", "paused", "recording"}
    /\ switch \in [requested : Values, current : Values, valid : BOOLEAN, pending : BOOLEAN]
    /\ sim \in 0 .. limit
    /\ limit \in Values
    /\ calls \in Seq(Changes \cup {"query"})
    /\ answers \in Seq(Values)
    /\ asked \in Values \cup {None}
    /\ disturbed \in BOOLEAN

\* When everything has been answered and handled, the switch in the simulator is where it
\* has been asked to be, by the recording or the user: not toggled twice, no step too many
\* (needsUpdate, sendLight, sendFlapsHandleIndex, sendSimulationRate).  After a disturbance,
\* this is so again from the next reset on that finds no answer under way.
AsRequested ==
    ~disturbed /\ calls = <<>> /\ answers = <<>> /\ ~switch.pending /\ asked # None => sim = asked

\* "The state of the switch and the corresponding simulation variable state in the flight
\* simulator are always kept in sync" (EventState.h:101) is not what the code does when the
\* switch is moved by its user or a restart of the simulator once its value is known
\* (manual, restart), when it has no such position (range), when an answer comes after a
\* reset or another request (late), or when two questions are under way (unasked).  Then it
\* is wrong, possibly for good, but no longer than until the next reset, by the start, the
\* end of a pause or a seek of a replay, that finds no answer under way.  Otherwise, the
\* value that the plugin believes in is the one the simulator has when it has handled the
\* events under way.
InSync == ~disturbed /\ switch.valid => switch.current = Course(sim, calls)[Len(calls)]

\* The simulator is not told to change anything unless somebody has asked for it since the
\* switch has been reset: reading the simulation rate is only that.
ChangesUnderWay == Len(SelectSeq(calls, LAMBDA c : c # "query"))

UnaskedIsUntouched == [][asked = None /\ asked' = None => ChangesUnderWay' <= ChangesUnderWay]_vars

\* A switch for which every frame asks for the same value, as long as there are frames, gets
\* there and stays there, also a light that the user, or another light, has switched before.
Settles ==
    \A v \in Values :
        /\ <>[][Frame(v) \/ Handle \/ Dispatch]_vars
        /\ <>[](session = "replay" /\ asked = v /\ ~disturbed)
        /\ WF_vars(Frame(v))
        => <>[](sim = v)
=============================================================================
