---------------------------- MODULE SimConnectAi ----------------------------
(***************************************************************************)
(* The AI objects that stand in the simulator for the aircraft of the      *)
(* current flight: class SimConnectAi, the slots of AbstractSkyConnect     *)
(* that the signals of Flight are connected to, and the operations of      *)
(* Flight and of the session which emit those signals.                     *)
(*                                                                         *)
(* The creation of an object is asynchronous: a request is remembered for  *)
(* the aircraft, the simulator creates the object later and the plugin     *)
(* learns its identifier later still, when it dispatches the answer.  In   *)
(* between the aircraft may have been removed, added again or replaced.    *)
(*                                                                         *)
(* A simulated object is named by the request that created it.             *)
(***************************************************************************)
EXTENDS Integers, FiniteSets, Sequences, SequencesExt

CONSTANTS
    Ids,            \* identifiers of stored aircraft
    MaxAircraft,    \* bound: aircraft per flight
    MaxRequests     \* bound: requests per connection

InvalidId   == -1   \* Const::InvalidId: never stored
RecordingId == -2   \* Const::RecordingId: being recorded

ASSUME IdsAssumption    == Ids \subseteq Nat \ {0}
ASSUME BoundsAssumption == MaxAircraft \in Nat \ {0} /\ MaxRequests \in Nat

AircraftIds == Ids \cup {InvalidId, RecordingId}
Requests    == 1 .. MaxRequests

VARIABLES
    session,    \* "Disconnected", "Connected" (replay included) or "Recording"
    replayMode, \* SkyConnectIntf::ReplayMode
    aircraft,   \* the aircraft of the current flight
    user,       \* its user aircraft, counted from 1
    ai,         \* SimConnectAi and the simulator at the other end
    disturbed   \* auxiliary: an operation has left the objects out of step (see below)

vars == <<session, replayMode, aircraft, user, ai, disturbed>>

ReplayModes == {"Normal", "UserAircraftManualControl", "FlyWithFormation"}

(***************************************************************************)
(* ai.link is "none" without a SimConnectAi, "open" for a connection that  *)
(* works and "stale" for one whose server has gone.  requestOf and         *)
(* registered are requestByAircraftId (0: no request) and the keys of      *)
(* simulatedObjectByRequestId, last is lastAiCreateRequestId.  asked are   *)
(* the requests the simulator still has to serve, objects the objects it   *)
(* simulates, assigned the answers that wait for dispatch.                 *)
(***************************************************************************)
NoRequests == [id \in AircraftIds |-> 0]

NoAi == [link |-> "none", requestOf |-> NoRequests, registered |-> {},
         last |-> 0, asked |-> {}, objects |-> {}, assigned |-> {}]

Requested(a) == {id \in AircraftIds : a.requestOf[id] # 0}

FlyWithFormation == replayMode = "FlyWithFormation"

-----------------------------------------------------------------------------
(***************************************************************************)
(* SimConnectAi                                                            *)
(***************************************************************************)

\* addObject: a call on a connection without server fails.
AddObject(a, id) ==
    IF id = InvalidId \/ a.link # "open"
    THEN a
    ELSE [a EXCEPT !.requestOf[id] = a.last + 1,
                   !.last  = @ + 1,
                   !.asked = @ \cup {a.last + 1}]

\* Mutant: the object stays in the simulator.
RemoveObjectOnlyRequest(a, id) ==
    [a EXCEPT !.requestOf[id] = 0, !.registered = @ \ {a.requestOf[id]}]

\* removeByAircraftId: an object not yet assigned is left to the answer.
RemoveObject(a, id) ==
    LET r == a.requestOf[id]
    IN  [a EXCEPT !.requestOf[id] = 0,
                  !.registered = @ \ {r},
                  !.objects    = IF r \in a.registered THEN @ \ {r} ELSE @]

\* removeAllObjects
RemoveAllObjects(a) ==
    [a EXCEPT !.requestOf  = NoRequests,
              !.registered = {},
              !.objects    = @ \ a.registered]

\* addObject for each aircraft of list at an index in which, in this order; none of
\* them has a request.
AddObjects(a, list, which) ==
    LET valid   == {i \in which : list[i].id # InvalidId}
        Rank(i) == Cardinality({j \in valid : j <= i})
    IN  IF a.link # "open"
        THEN a
        ELSE [a EXCEPT
                !.requestOf = [id \in AircraftIds |->
                                 IF \E i \in valid : list[i].id = id
                                 THEN a.last + Rank(CHOOSE i \in valid : list[i].id = id)
                                 ELSE @[id]],
                !.last  = @ + Cardinality(valid),
                !.asked = @ \cup (a.last + 1 .. a.last + Cardinality(valid))]

\* createAiObjects for the flight <<list, u>>.
CreateAiObjects(a, list, u) ==
    AddObjects(a, list, {i \in DOMAIN list : list[i].id # list[u].id \/ FlyWithFormation})

\* syncAiObjectsWithFlight
SyncAiObjectsWithFlight(a, list, u) == CreateAiObjects(RemoveAllObjects(a), list, u)

\* A new connection: the simulator removes the objects of the one it replaces.
ConnectWithSim(list, u) == CreateAiObjects([NoAi EXCEPT !.link = "open"], list, u)

\* updateUserAircraft, the slot of userAircraftChanged (previous = 0: none).
UpdateUserAircraft(a, list, new, previous) ==
    IF FlyWithFormation
    THEN a
    ELSE LET removed == RemoveObject(a, list[new].id)
         IN  IF previous = 0 THEN removed ELSE AddObject(removed, list[previous].id)

-----------------------------------------------------------------------------
(***************************************************************************)
(* The aircraft that shall be visible as AI objects.  An aircraft that     *)
(* recorded nothing may or may not have an object.  In "fly with           *)
(* formation" the user aircraft of the flight has an object, too, as the   *)
(* user flies another one.                                                 *)
(***************************************************************************)
Shown(i) == i # user \/ FlyWithFormation

Permitted == {aircraft[i].id : i \in {j \in DOMAIN aircraft : Shown(j)}}

Required ==
    {aircraft[i].id : i \in {j \in DOMAIN aircraft :
        /\ aircraft[j].recorded
        /\ Shown(j)
        /\ session = "Recording" => j # user}} \ {InvalidId}

\* Identifiers the database may give to a new row.
FreshIds == Ids \ ({aircraft[i].id : i \in DOMAIN aircraft} \cup Requested(ai))

\* Flights of recorded aircraft, in the order of their identifiers.
StoredFlights ==
    {list \in UNION {[1 .. n -> [id : Ids, recorded : {TRUE}]] : n \in 1 .. MaxAircraft} :
        \A i, j \in DOMAIN list : i < j => list[i].id < list[j].id}

Init ==
    /\ session = "Disconnected"
    /\ replayMode \in ReplayModes
    /\ aircraft = <<[id |-> InvalidId, recorded |-> FALSE]>>
    /\ user = 1
    /\ ai = NoAi
    /\ disturbed = FALSE

(***************************************************************************)
(* disturbed becomes TRUE where an operation of the code leaves the        *)
(* objects out of step with the flight, each marked "Disturbs", and FALSE  *)
(* where they are created anew.                                            *)
(***************************************************************************)

-----------------------------------------------------------------------------
(***************************************************************************)
(* The session                                                             *)
(***************************************************************************)

\* The flights that the end of a recording leaves: stored with a new identifier ...
Stored ==
    {[list |-> [aircraft EXCEPT ![user] = [id |-> id, recorded |-> rec]], user |-> user] :
        id \in FreshIds, rec \in BOOLEAN}

\* ... or not: then an aircraft added to a formation is removed again.
NotStored ==
    IF Len(aircraft) > 1
    THEN {[list |-> Front(aircraft), user |-> user - 1]}
    ELSE {[list |-> <<[id |-> id, recorded |-> rec]>>, user |-> 1] :
            id \in FreshIds \cup {aircraft[1].id}, rec \in BOOLEAN}

\* recordingStopped when the session ends.
FlightsAfterSession ==
    IF session = "Recording"
    THEN Stored \cup NotStored
    ELSE {[list |-> aircraft, user |-> user]}

Connect ==
    /\ session = "Disconnected"
    /\ session' = "Connected"
    /\ ai' = ConnectWithSim(aircraft, user)
    /\ disturbed' = FALSE
    /\ UNCHANGED <<replayMode, aircraft, user>>

EndSession ==
    /\ session' = "Disconnected"
    /\ ai' = NoAi
    /\ \E f \in FlightsAfterSession : aircraft' = f.list /\ user' = f.user
    /\ UNCHANGED <<replayMode, disturbed>>

\* disconnect, also upon QUIT
Disconnect == session # "Disconnected" /\ EndSession

\* retryWithReconnect of any operation, once the server has gone.
Reconnect ==
    /\ ai.link = "stale"
    /\ \/ /\ ai' = ConnectWithSim(aircraft, user)
          /\ disturbed' = FALSE
          /\ UNCHANGED <<session, replayMode, aircraft, user>>
       \/ EndSession

SetReplayMode(mode) ==
    /\ session # "Recording"
    /\ mode # replayMode
    /\ replayMode' = mode
    /\ ai' = LET id == aircraft[user].id
             IN  IF FlyWithFormation THEN RemoveObject(ai, id)
                 ELSE IF mode = "FlyWithFormation" THEN AddObject(ai, id)
                 ELSE ai
    /\ UNCHANGED <<session, aircraft, user, disturbed>>

\* Flight::clear: one aircraft without recording is left, with the identifier it had.
ClearFlight ==
    /\ aircraft' = <<[aircraft[1] EXCEPT !.recorded = FALSE]>>
    /\ user' = 1
    /\ ai' = RemoveAllObjects(ai)
    /\ disturbed' = FALSE

\* startRecording in a new flight, or in a flight whose user aircraft has no recording
StartNewFlight(addToFormation) ==
    /\ session = "Connected"
    /\ addToFormation => ~aircraft[user].recorded
    /\ session' = "Recording"
    /\ ClearFlight
    /\ UNCHANGED replayMode

\* startRecording of another aircraft of the flight: aircraftAdded, userAircraftChanged
AddToFormation ==
    /\ session = "Connected"
    /\ aircraft[user].recorded
    /\ Len(aircraft) < MaxAircraft
    /\ session' = "Recording"
    /\ aircraft' = Append(aircraft, [id |-> RecordingId, recorded |-> FALSE])
    /\ user' = Len(aircraft) + 1
    /\ ai' = UpdateUserAircraft(AddObject(ai, RecordingId), aircraft', user', user)
    /\ UNCHANGED <<replayMode, disturbed>>

\* In "fly with formation" the aircraft just recorded gets its object.
AddRecorded(a, id) == IF FlyWithFormation THEN AddObject(a, id) ELSE a

\* Disturbs: an object requested for the aircraft while it was recorded keeps
\* the identifier the aircraft had then.
StopRecording ==
    /\ session = "Recording"
    /\ session' = "Connected"
    /\ \E f \in Stored \cup (IF Len(aircraft) = 1 THEN NotStored ELSE {}) :
         /\ aircraft' = f.list
         /\ user' = f.user
         /\ ai' = AddRecorded(ai, f.list[f.user].id)
    /\ disturbed' = (disturbed \/ ai.requestOf[aircraft[user].id] # 0)
    /\ UNCHANGED replayMode

\* onRecordingStopped fails to store an aircraft: removeLastAircraft.  Disturbs:
\* in "fly with formation" another object is created for the previous aircraft.
StopRecordingNotStored ==
    /\ session = "Recording"
    /\ Len(aircraft) > 1
    /\ session' = "Connected"
    /\ aircraft' = Front(aircraft)
    /\ user' = user - 1
    /\ \E id \in FreshIds \cup {aircraft[user].id} :
         ai' = LET updated == UpdateUserAircraft(ai, aircraft, user', 0)
               IN  AddRecorded(RemoveObject(updated, id), aircraft[user'].id)
    /\ disturbed' = (disturbed \/ FlyWithFormation)
    /\ UNCHANGED replayMode

-----------------------------------------------------------------------------
(***************************************************************************)
(* The flight.  Its signals reach the plugin when a session is connected,  *)
(* and there is no SimConnectAi when it is not.                            *)
(***************************************************************************)

\* flightRestored
Restore(list, u) ==
    /\ session # "Recording"
    /\ aircraft' = list
    /\ user' = u
    /\ ai' = SyncAiObjectsWithFlight(ai, list, u)
    /\ disturbed' = FALSE
    /\ UNCHANGED <<session, replayMode>>

Clear == session # "Recording" /\ ClearFlight /\ UNCHANGED <<session, replayMode>>

\* Import into an empty flight: flightRestored is emitted before the aircraft are
\* stored (or fail to be).  Disturbs: no object is created for aircraft that have no identifier yet.
ImportFlight(list, u) ==
    /\ session # "Recording"
    /\ \A i \in DOMAIN aircraft : ~aircraft[i].recorded
    /\ aircraft' \in {list, [i \in DOMAIN list |-> [list[i] EXCEPT !.id = InvalidId]]}
    /\ user' = u
    /\ ai' = RemoveAllObjects(ai)
    /\ disturbed' = (FlyWithFormation \/ Len(list) > 1)
    /\ UNCHANGED <<session, replayMode>>

\* addAircraft, next to a recorded user aircraft: aircraftAdded for each.
ImportAircraft(list) ==
    /\ session # "Recording"
    /\ aircraft[user].recorded
    /\ Len(aircraft) + Len(list) <= MaxAircraft
    /\ \A i \in DOMAIN list : list[i].id \in FreshIds
    /\ aircraft' = aircraft \o list
    /\ ai' = AddObjects(ai, list, DOMAIN list)
    /\ UNCHANGED <<session, replayMode, user, disturbed>>

SwitchUserAircraft(i) ==
    /\ session # "Recording"
    /\ i # user
    /\ user' = i
    /\ ai' = UpdateUserAircraft(ai, aircraft, i, user)
    /\ UNCHANGED <<session, replayMode, aircraft, disturbed>>

\* Mutant: the index of the user aircraft stays.
UserAfterRemovalKept(i) == user

\* removeAircraftByIndex: the user aircraft is the one before the removed one.
UserAfterRemoval(i) ==
    IF i <= user /\ user > 1 THEN user - 1 ELSE user

\* Disturbs: nobody is told of the new user aircraft when the first one is removed.
RemoveAircraft(i) ==
    /\ session # "Recording"
    /\ Len(aircraft) > 1
    /\ aircraft' = RemoveAt(aircraft, i)
    /\ user' = UserAfterRemoval(i)
    /\ ai' = LET updated == IF i = user /\ user' # user
                            THEN UpdateUserAircraft(ai, aircraft, user', 0)
                            ELSE ai
             IN  RemoveObject(updated, aircraft[i].id)
    /\ disturbed' = (disturbed \/ (i = user /\ user = 1 /\ ~FlyWithFormation))
    /\ UNCHANGED <<session, replayMode>>

\* onTailNumberChanged.  Disturbs: the user aircraft gets an object, too.
ChangeTailNumber(i) ==
    /\ aircraft[i].id # InvalidId
    /\ ai' = AddObject(RemoveObject(ai, aircraft[i].id), aircraft[i].id)
    /\ disturbed' = (disturbed \/ (i = user /\ ~FlyWithFormation))
    /\ UNCHANGED <<session, replayMode, aircraft, user>>

-----------------------------------------------------------------------------
(***************************************************************************)
(* The simulator, and the dispatch of SIMCONNECT_RECV_ID_ASSIGNED_OBJECT_ID *)
(***************************************************************************)
SimUnchanged == UNCHANGED <<session, replayMode, aircraft, user, disturbed>>

Create(r) ==
    /\ r \in ai.asked
    /\ ai' = [ai EXCEPT !.asked    = @ \ {r},
                        !.objects  = @ \cup {r},
                        !.assigned = @ \cup {r}]
    /\ SimUnchanged

\* An exception is reported, for a type of aircraft that is not installed, say.
Refuse(r) ==
    /\ r \in ai.asked
    /\ ai' = [ai EXCEPT !.asked = @ \ {r}]
    /\ SimUnchanged

Crash ==
    /\ ai.link = "open"
    /\ ai' = [ai EXCEPT !.link = "stale", !.asked = {}, !.objects = {}, !.assigned = {}]
    /\ SimUnchanged

\* Mutants: an answer nobody waits for is ignored, or accepted.
RegisterIgnoring(a, r) ==
    IF \E id \in AircraftIds : a.requestOf[id] = r
    THEN [a EXCEPT !.registered = @ \cup {r}]
    ELSE a

RegisterAlways(a, r) == [a EXCEPT !.registered = @ \cup {r}]

\* registerObjectId: the object of a request that was discarded is removed again.
RegisterObject(a, r) ==
    IF \E id \in AircraftIds : a.requestOf[id] = r
    THEN [a EXCEPT !.registered = @ \cup {r}]
    ELSE [a EXCEPT !.objects = @ \ {r}]

DispatchAssigned(r) ==
    /\ r \in ai.assigned
    /\ ai' = RegisterObject([ai EXCEPT !.assigned = @ \ {r}], r)
    /\ SimUnchanged

Next ==
    /\ \/ Connect \/ Disconnect \/ Reconnect
       \/ \E mode \in ReplayModes : SetReplayMode(mode)
       \/ \E addToFormation \in BOOLEAN : StartNewFlight(addToFormation)
       \/ AddToFormation \/ StopRecording \/ StopRecordingNotStored
       \/ \E list \in StoredFlights : \E u \in DOMAIN list : Restore(list, u) \/ ImportFlight(list, u)
       \/ \E list \in StoredFlights : ImportAircraft(list)
       \/ Clear
       \/ \E i \in DOMAIN aircraft :
            SwitchUserAircraft(i) \/ RemoveAircraft(i) \/ ChangeTailNumber(i)
       \/ \E r \in Requests : Create(r) \/ Refuse(r) \/ DispatchAssigned(r)
       \/ Crash
    /\ ai'.last <= MaxRequests

\* Messages are dispatched when they arrive.
Fairness == \A r \in Requests : WF_vars(DispatchAssigned(r))

Spec == Init /\ [][Next]_vars /\ Fairness

-----------------------------------------------------------------------------
AiStates ==
    [link : {"none", "open", "stale"}, requestOf : [AircraftIds -> 0 .. MaxRequests],
     registered : SUBSET Requests, last : 0 .. MaxRequests, asked : SUBSET Requests,
     objects : SUBSET Requests, assigned : SUBSET Requests]

\* The values the variables take; the user aircraft is one of the flight.
TypeOK ==
    /\ session \in {"Disconnected", "Connected", "Recording"}
    /\ replayMode \in ReplayModes
    /\ aircraft \in Seq([id : AircraftIds, recorded : BOOLEAN])
    /\ user \in 1 .. Len(aircraft)
    /\ ai \in AiStates
    /\ disturbed \in BOOLEAN

\* The simulator holds the objects the plugin knows and those it is about to learn
\* of, and no other: however requests, answers, removals and connections interleave,
\* none is left behind that nobody could remove any more.
NothingLeaks ==
    ai.link = "open" =>
        /\ ai.objects = ai.registered \cup ai.assigned
        /\ ai.registered \cap ai.assigned = {}

\* Every aircraft that shall be visible has one request, no other aircraft has any,
\* and every object belongs to such a request - until a disturbing operation, and
\* again once the objects have been created anew.
ObjectsMatchFlight ==
    ai.link = "open" /\ ~disturbed =>
        /\ Required \subseteq Requested(ai)
        /\ Requested(ai) \subseteq Permitted
        /\ \A r \in ai.registered : \E id \in AircraftIds : ai.requestOf[id] = r

\* An object created for a request that has been discarded does not stay: its answer
\* is dispatched and it is removed.
Discarded(r) == r \in ai.objects /\ \A id \in AircraftIds : ai.requestOf[id] # r

DiscardedObjectsAreRemoved ==
    \A r \in Requests : Discarded(r) /\ r \notin ai.registered ~> ~Discarded(r)
=============================================================================
