------------------------ MODULE SimConnectAi_proofs -------------------------
(***************************************************************************)
(* Proofs about SimConnectAi, for every flight and any number of requests: *)
(* the types of its variables, that no AI object is left behind in the     *)
(* simulator and, until an operation disturbs them, that the objects are   *)
(* exactly those of the aircraft to be seen.                               *)
(***************************************************************************)
EXTENDS SimConnectAi, FiniteSetTheorems, SequenceTheorems, TLAPS

AircraftRecords == [id : AircraftIds, recorded : BOOLEAN]

\* The values of ai without the bound on requests.
AnyAi ==
    [link : {"none", "open", "stale"}, requestOf : [AircraftIds -> Nat],
     registered : SUBSET Nat, last : Nat, asked : SUBSET Nat,
     objects : SUBSET Nat, assigned : SUBSET Nat]

\* Requests are numbered up to the last one, and a request is in one stage of its life.
Numbered(a) ==
    /\ \A id \in AircraftIds : a.requestOf[id] <= a.last
    /\ a.registered \cup a.asked \cup a.assigned \cup a.objects \subseteq 1 .. a.last
    /\ a.asked \cap (a.registered \cup a.assigned) = {}
    /\ a.registered \cap a.assigned = {}

Tight(a) == a.link = "open" => a.objects = a.registered \cup a.assigned

AiInv(a) == a \in AnyAi /\ Numbered(a) /\ Tight(a)

FlightOK(list, u) == list \in Seq(AircraftRecords) /\ u \in 1 .. Len(list)

IInv ==
    /\ session \in {"Disconnected", "Connected", "Recording"}
    /\ replayMode \in ReplayModes
    /\ FlightOK(aircraft, user)
    /\ session = "Recording" => user = Len(aircraft)
    /\ AiInv(ai)
    /\ ai.last <= MaxRequests
    /\ disturbed \in BOOLEAN

-----------------------------------------------------------------------------
(***************************************************************************)
(* SimConnectAi                                                            *)
(***************************************************************************)

\* Updates of ai keep its type when the new values have theirs.
LEMMA RequestsUpdated ==
    ASSUME NEW a \in AnyAi, NEW requestOf \in [AircraftIds -> Nat], NEW last \in Nat,
           NEW asked \in SUBSET Nat
    PROVE  [a EXCEPT !.requestOf = requestOf, !.last = last, !.asked = asked] \in AnyAi
BY DEF AnyAi

LEMMA ObjectsUpdated ==
    ASSUME NEW a \in AnyAi, NEW requestOf \in [AircraftIds -> Nat],
           NEW registered \in SUBSET Nat, NEW objects \in SUBSET Nat
    PROVE  [a EXCEPT !.requestOf = requestOf, !.registered = registered,
                     !.objects = objects] \in AnyAi
BY DEF AnyAi

LEMMA NoAiOK == AiInv(NoAi) /\ AiInv([NoAi EXCEPT !.link = "open"])
BY DEF AiInv, AnyAi, Numbered, Tight, NoAi, NoRequests

\* A new request has a number no other one has.
LEMMA AddObjectOK ==
    ASSUME NEW a, AiInv(a), NEW id \in AircraftIds
    PROVE  AiInv(AddObject(a, id))
<1>1. CASE id = InvalidId \/ a.link # "open"
  BY <1>1 DEF AddObject
<1>2. CASE ~(id = InvalidId \/ a.link # "open")
  <2> DEFINE b == AddObject(a, id)
  <2>1. b = [a EXCEPT !.requestOf[id] = a.last + 1,
                      !.last  = @ + 1,
                      !.asked = @ \cup {a.last + 1}]
    BY <1>2 DEF AddObject
  <2>2. b \in AnyAi
    <3> DEFINE q == [a.requestOf EXCEPT ![id] = a.last + 1]
    <3>1. a \in AnyAi /\ q \in [AircraftIds -> Nat] /\ a.last + 1 \in Nat
          /\ a.asked \cup {a.last + 1} \in SUBSET Nat
      BY DEF AiInv, AnyAi
    <3>2. [a EXCEPT !.requestOf = q, !.last = a.last + 1,
                    !.asked = a.asked \cup {a.last + 1}] \in AnyAi
      BY <3>1, RequestsUpdated
    <3> QED
      BY <2>1, <3>2
  <2>3. /\ b.last = a.last + 1 /\ b.asked = a.asked \cup {a.last + 1} /\ b.link = a.link
        /\ b.registered = a.registered /\ b.objects = a.objects /\ b.assigned = a.assigned
        /\ \A i \in AircraftIds : b.requestOf[i] \in {a.requestOf[i], a.last + 1}
    BY <2>1 DEF AiInv, AnyAi
  <2> HIDE DEF b
  <2>4. Numbered(b)
    BY <2>3 DEF AiInv, AnyAi, Numbered
  <2>5. Tight(b)
    BY <2>3 DEF AiInv, Tight
  <2> QED
    BY <2>2, <2>4, <2>5 DEF AiInv, b
<1> QED
  BY <1>1, <1>2

\* A registered object is removed from the plugin and from the simulator.
LEMMA RemoveObjectOK ==
    ASSUME NEW a, AiInv(a), NEW id \in AircraftIds
    PROVE  AiInv(RemoveObject(a, id))
<1> DEFINE b == RemoveObject(a, id)
           r == a.requestOf[id]
<1>1. b = [a EXCEPT !.requestOf[id] = 0, !.registered = @ \ {r},
                    !.objects = IF r \in a.registered THEN @ \ {r} ELSE @]
  BY DEF RemoveObject
<1>2. b \in AnyAi
  <2> DEFINE q == [a.requestOf EXCEPT ![id] = 0]
             o == IF r \in a.registered THEN a.objects \ {r} ELSE a.objects
  <2>1. a \in AnyAi /\ q \in [AircraftIds -> Nat] /\ a.registered \ {r} \in SUBSET Nat
        /\ o \in SUBSET Nat
    BY DEF AiInv, AnyAi
  <2>2. [a EXCEPT !.requestOf = q, !.registered = a.registered \ {r}, !.objects = o] \in AnyAi
    BY <2>1, ObjectsUpdated
  <2> QED
    BY <1>1, <2>2
<1>3. /\ b.last = a.last /\ b.asked = a.asked /\ b.link = a.link
      /\ b.registered = a.registered \ {r} /\ b.assigned = a.assigned
      /\ b.objects = IF r \in a.registered THEN a.objects \ {r} ELSE a.objects
      /\ \A i \in AircraftIds : b.requestOf[i] \in {a.requestOf[i], 0}
  BY <1>1 DEF AiInv, AnyAi
<1> HIDE DEF b, r
<1>4. Numbered(b)
  BY <1>3 DEF AiInv, AnyAi, Numbered
<1>5. Tight(b)
  BY <1>3 DEF AiInv, Numbered, Tight
<1> QED
  BY <1>2, <1>4, <1>5 DEF AiInv, b

LEMMA RemoveAllObjectsOK ==
    ASSUME NEW a, AiInv(a)
    PROVE  AiInv(RemoveAllObjects(a))
<1> DEFINE b == RemoveAllObjects(a)
<1>1. b = [a EXCEPT !.requestOf = NoRequests, !.registered = {},
                    !.objects = @ \ a.registered]
  BY DEF RemoveAllObjects
<1>2. b \in AnyAi
  <2>1. a \in AnyAi /\ NoRequests \in [AircraftIds -> Nat] /\ {} \in SUBSET Nat
        /\ a.objects \ a.registered \in SUBSET Nat
    BY DEF AiInv, AnyAi, NoRequests
  <2>2. [a EXCEPT !.requestOf = NoRequests, !.registered = {},
                  !.objects = a.objects \ a.registered] \in AnyAi
    BY <2>1, ObjectsUpdated
  <2> QED
    BY <1>1, <2>2
<1>3. /\ b.last = a.last /\ b.asked = a.asked /\ b.link = a.link
      /\ b.registered = {} /\ b.assigned = a.assigned
      /\ b.objects = a.objects \ a.registered
      /\ \A i \in AircraftIds : b.requestOf[i] = 0
  BY <1>1 DEF AiInv, AnyAi, NoRequests
<1> HIDE DEF b
<1>4. Numbered(b)
  BY <1>3 DEF AiInv, AnyAi, Numbered
<1>5. Tight(b)
  BY <1>3 DEF AiInv, Numbered, Tight
<1> QED
  BY <1>2, <1>4, <1>5 DEF AiInv, b

\* Several requests get consecutive numbers.
LEMMA AddObjectsOK ==
    ASSUME NEW a, AiInv(a), NEW list \in Seq(AircraftRecords),
           NEW which \in SUBSET DOMAIN list
    PROVE  AiInv(AddObjects(a, list, which))
<1> DEFINE valid   == {i \in which : list[i].id # InvalidId}
           Rank(i) == Cardinality({j \in valid : j <= i})
           n       == Cardinality(valid)
           b       == AddObjects(a, list, which)
<1>1. CASE a.link # "open"
  BY <1>1 DEF AddObjects
<1>2. CASE a.link = "open"
  <2>1. IsFiniteSet(valid) /\ n \in Nat
    <3>1. IsFiniteSet(1 .. Len(list))
      BY FS_Interval
    <3>2. valid \subseteq 1 .. Len(list)
      OBVIOUS
    <3> QED
      BY <3>1, <3>2, FS_Subset, FS_CardinalityType
  <2>2. \A i \in valid : Rank(i) \in Nat /\ Rank(i) <= n
    BY <2>1, FS_Subset, FS_CardinalityType
  <2> DEFINE q == [id \in AircraftIds |->
                     IF \E i \in valid : list[i].id = id
                     THEN a.last + Rank(CHOOSE i \in valid : list[i].id = id)
                     ELSE a.requestOf[id]]
  <2>3. b = [a EXCEPT !.requestOf = q, !.last = @ + n,
                      !.asked = @ \cup (a.last + 1 .. a.last + n)]
    BY <1>2 DEF AddObjects
  <2> HIDE DEF n, Rank, b
  <2>4. \A id \in AircraftIds : q[id] \in Nat /\ q[id] <= a.last + n
    <3> TAKE id \in AircraftIds
    <3>1. a.requestOf[id] \in Nat /\ a.requestOf[id] <= a.last /\ a.last \in Nat
      BY DEF AiInv, AnyAi, Numbered
    <3>2. CASE \E i \in valid : list[i].id = id
      <4>1. (CHOOSE i \in valid : list[i].id = id) \in valid
        BY <3>2
      <4>2. q[id] = a.last + Rank(CHOOSE i \in valid : list[i].id = id)
        BY <3>2
      <4> QED
        BY <4>1, <4>2, <3>1, <2>1, <2>2
    <3>3. CASE ~\E i \in valid : list[i].id = id
      <4>1. q[id] = a.requestOf[id]
        BY <3>3
      <4> QED
        BY <4>1, <3>1, <2>1
    <3> QED
      BY <3>2, <3>3
  <2>5. q \in [AircraftIds -> Nat]
    BY <2>4
  <2> HIDE DEF q
  <2>6. /\ b.requestOf = q /\ b.last = a.last + n
        /\ b.asked = a.asked \cup (a.last + 1 .. a.last + n)
        /\ b.link = a.link /\ b.registered = a.registered
        /\ b.objects = a.objects /\ b.assigned = a.assigned
    BY <2>3 DEF AiInv, AnyAi
  <2>7. b \in AnyAi
    <3>1. a \in AnyAi /\ a.last + n \in Nat
          /\ a.asked \cup (a.last + 1 .. a.last + n) \in SUBSET Nat
      BY <2>1 DEF AiInv, AnyAi
    <3> QED
      BY <2>3, <2>5, <3>1, RequestsUpdated
  <2>8. Numbered(b)
    BY <2>1, <2>4, <2>6 DEF AiInv, AnyAi, Numbered
  <2>9. Tight(b)
    BY <2>6 DEF AiInv, Tight
  <2> QED
    BY <2>7, <2>8, <2>9 DEF AiInv, b
<1> QED
  BY <1>1, <1>2 DEF AiInv, AnyAi

LEMMA CreateAiObjectsOK ==
    ASSUME NEW a, AiInv(a), NEW list \in Seq(AircraftRecords), NEW u
    PROVE  AiInv(CreateAiObjects(a, list, u))
<1> DEFINE which == {i \in DOMAIN list : list[i].id # list[u].id \/ FlyWithFormation}
<1>1. which \in SUBSET DOMAIN list
  OBVIOUS
<1> HIDE DEF which
<1>2. AiInv(AddObjects(a, list, which))
  BY <1>1, AddObjectsOK
<1> QED
  BY <1>2 DEF CreateAiObjects, which

LEMMA ConnectWithSimOK ==
    ASSUME NEW list \in Seq(AircraftRecords), NEW u
    PROVE  AiInv(ConnectWithSim(list, u))
BY NoAiOK, CreateAiObjectsOK DEF ConnectWithSim

LEMMA UpdateUserAircraftOK ==
    ASSUME NEW a, AiInv(a), NEW list \in Seq(AircraftRecords),
           NEW new \in DOMAIN list, NEW previous \in DOMAIN list \cup {0}
    PROVE  AiInv(UpdateUserAircraft(a, list, new, previous))
<1>1. list[new].id \in AircraftIds /\ (previous # 0 => list[previous].id \in AircraftIds)
  <2>1. \A i \in DOMAIN list : list[i] \in AircraftRecords
    OBVIOUS
  <2>2. \A i \in DOMAIN list : list[i].id \in AircraftIds
    BY <2>1 DEF AircraftRecords
  <2>3. previous # 0 => previous \in DOMAIN list
    OBVIOUS
  <2> QED
    BY <2>2, <2>3
<1>2. AiInv(RemoveObject(a, list[new].id))
  BY <1>1, RemoveObjectOK
<1>3. previous # 0 => AiInv(AddObject(RemoveObject(a, list[new].id), list[previous].id))
  BY <1>1, <1>2, AddObjectOK
<1> QED
  BY <1>2, <1>3 DEF UpdateUserAircraft

\* An answer turns into a registered object, or its object goes away.
LEMMA RegisterObjectOK ==
    ASSUME NEW a, AiInv(a), NEW r \in a.assigned
    PROVE  AiInv(RegisterObject([a EXCEPT !.assigned = @ \ {r}], r))
<1> DEFINE known == \E id \in AircraftIds : a.requestOf[id] = r
           b     == RegisterObject([a EXCEPT !.assigned = @ \ {r}], r)
<1>1. /\ b.requestOf = a.requestOf /\ b.last = a.last /\ b.asked = a.asked /\ b.link = a.link
      /\ b.assigned = a.assigned \ {r}
      /\ b.registered = IF known THEN a.registered \cup {r} ELSE a.registered
      /\ b.objects = IF known THEN a.objects ELSE a.objects \ {r}
  BY DEF RegisterObject, AiInv, AnyAi
<1>2. b \in AnyAi
  BY DEF RegisterObject, AiInv, AnyAi
<1> HIDE DEF known, b
<1>3. Numbered(b)
  BY <1>1 DEF AiInv, AnyAi, Numbered
<1>4. Tight(b)
  BY <1>1 DEF AiInv, AnyAi, Numbered, Tight
<1> QED
  BY <1>2, <1>3, <1>4 DEF AiInv, b

-----------------------------------------------------------------------------
(***************************************************************************)
(* The flight                                                              *)
(***************************************************************************)

LEMMA FrontOK ==
    ASSUME NEW list \in Seq(AircraftRecords), Len(list) > 1
    PROVE  FlightOK(Front(list), Len(list) - 1)
BY DEF Front, FlightOK

LEMMA RemoveAtOK ==
    ASSUME NEW list \in Seq(AircraftRecords), NEW i \in DOMAIN list
    PROVE  RemoveAt(list, i) \in Seq(AircraftRecords) /\ Len(RemoveAt(list, i)) = Len(list) - 1
<1> DEFINE head == SubSeq(list, 1, i - 1)
           tail == SubSeq(list, i + 1, Len(list))
<1>1. head \in Seq(AircraftRecords) /\ Len(head) = i - 1
  OBVIOUS
<1>2. tail \in Seq(AircraftRecords) /\ Len(tail) = Len(list) - i
  OBVIOUS
<1> HIDE DEF head, tail
<1>3. head \o tail \in Seq(AircraftRecords) /\ Len(head \o tail) = Len(list) - 1
  BY <1>1, <1>2
<1> QED
  BY <1>3 DEF RemoveAt, head, tail

LEMMA StoredFlightTyped ==
    ASSUME NEW list \in StoredFlights
    PROVE  list \in Seq(AircraftRecords) /\ Len(list) \in Nat \ {0}
<1>1. PICK n \in 1 .. MaxAircraft : list \in [1 .. n -> [id : Ids, recorded : {TRUE}]]
  BY DEF StoredFlights
<1>2. n \in Nat \ {0}
  BY BoundsAssumption
<1>3. list \in [1 .. n -> AircraftRecords]
  BY <1>1 DEF AircraftRecords, AircraftIds
<1> QED
  BY <1>2, <1>3

LEMMA ClearedTyped ==
    ASSUME NEW a \in AircraftRecords
    PROVE  [a EXCEPT !.recorded = FALSE] \in AircraftRecords
BY DEF AircraftRecords

LEMMA OneAircraft ==
    ASSUME NEW a \in AircraftRecords
    PROVE  FlightOK(<<a>>, 1) /\ Len(<<a>>) = 1
BY DEF FlightOK

\* The end of a recording leaves a flight with a user aircraft.
LEMMA FlightsAfterSessionOK ==
    ASSUME IInv, NEW f \in FlightsAfterSession
    PROVE  FlightOK(f.list, f.user)
<1>1. aircraft \in Seq(AircraftRecords) /\ user \in 1 .. Len(aircraft)
  BY DEF IInv, FlightOK
<1>2. FreshIds \subseteq AircraftIds
  BY DEF FreshIds, AircraftIds
<1>3. CASE f \in Stored
  <2>1. PICK id \in FreshIds, rec \in BOOLEAN :
          f = [list |-> [aircraft EXCEPT ![user] = [id |-> id, recorded |-> rec]], user |-> user]
    BY <1>3 DEF Stored
  <2>2. [id |-> id, recorded |-> rec] \in AircraftRecords
    BY <1>2 DEF AircraftRecords
  <2> QED
    BY <1>1, <2>1, <2>2 DEF FlightOK
<1>4. CASE f \in NotStored /\ session = "Recording"
  <2>0. user = Len(aircraft) /\ f \in NotStored
    BY <1>4 DEF IInv
  <2>1. CASE Len(aircraft) > 1
    BY <1>1, <2>0, <2>1, FrontOK DEF NotStored, FlightOK
  <2>2. CASE ~(Len(aircraft) > 1)
    <3>1. PICK id \in FreshIds \cup {aircraft[1].id}, rec \in BOOLEAN :
            f = [list |-> <<[id |-> id, recorded |-> rec]>>, user |-> 1]
      BY <2>0, <2>2 DEF NotStored
    <3>2. aircraft[1] \in AircraftRecords
      BY <1>1
    <3>3. id \in AircraftIds
      BY <1>2, <3>2 DEF AircraftRecords
    <3>4. [id |-> id, recorded |-> rec] \in AircraftRecords
      BY <3>3 DEF AircraftRecords
    <3> QED
      BY <3>1, <3>4 DEF FlightOK
  <2> QED
    BY <2>1, <2>2
<1>5. CASE session # "Recording"
  BY <1>1, <1>5 DEF FlightsAfterSession, FlightOK
<1> QED
  BY <1>3, <1>4, <1>5 DEF FlightsAfterSession

-----------------------------------------------------------------------------
(***************************************************************************)
(* The invariant                                                           *)
(***************************************************************************)

\* What every step establishes, the bound on requests aside.
StepOK ==
    /\ session' \in {"Disconnected", "Connected", "Recording"}
    /\ replayMode' \in ReplayModes
    /\ FlightOK(aircraft', user')
    /\ session' = "Recording" => user' = Len(aircraft')
    /\ AiInv(ai')
    /\ disturbed' \in BOOLEAN

\* The steps of the session.
LEMMA SessionStep ==
    ASSUME IInv,
           \/ Connect \/ Disconnect \/ Reconnect
           \/ \E mode \in ReplayModes : SetReplayMode(mode)
           \/ \E addToFormation \in BOOLEAN : StartNewFlight(addToFormation)
           \/ AddToFormation \/ StopRecording \/ StopRecordingNotStored
    PROVE  StepOK
<1> USE DEF IInv, StepOK
<1>1. aircraft \in Seq(AircraftRecords) /\ user \in DOMAIN aircraft /\ Len(aircraft) \in Nat \ {0}
  BY DEF FlightOK
<1>2. \A i \in DOMAIN aircraft : aircraft[i] \in AircraftRecords /\ aircraft[i].id \in AircraftIds
  <2>1. \A i \in DOMAIN aircraft : aircraft[i] \in AircraftRecords
    BY <1>1
  <2> QED
    BY <2>1 DEF AircraftRecords
<1>3. FreshIds \subseteq AircraftIds /\ RecordingId \in AircraftIds /\ InvalidId \in AircraftIds
  BY DEF FreshIds, AircraftIds
<1>4. ASSUME EndSession PROVE StepOK
  BY <1>4, NoAiOK, FlightsAfterSessionOK DEF EndSession
<1>5. CASE Connect
  BY <1>1, <1>5, ConnectWithSimOK DEF Connect
<1>6. CASE Disconnect
  BY <1>4, <1>6 DEF Disconnect
<1>7. CASE Reconnect
  BY <1>1, <1>4, <1>7, ConnectWithSimOK DEF Reconnect
<1>8. ASSUME NEW mode \in ReplayModes, SetReplayMode(mode) PROVE StepOK
  <2>1. AiInv(ai')
    BY <1>1, <1>2, <1>8, AddObjectOK, RemoveObjectOK DEF SetReplayMode
  <2> QED
    BY <1>8, <2>1 DEF SetReplayMode
<1>9. ASSUME NEW addToFormation \in BOOLEAN, StartNewFlight(addToFormation) PROVE StepOK
  <2> DEFINE first == [aircraft[1] EXCEPT !.recorded = FALSE]
  <2>1. first \in AircraftRecords
    BY <1>1, <1>2, ClearedTyped
  <2>2. FlightOK(aircraft', user') /\ user' = Len(aircraft')
    <3>1. aircraft' = <<first>> /\ user' = 1
      BY <1>9 DEF StartNewFlight, ClearFlight
    <3> HIDE DEF first
    <3> QED
      BY <2>1, <3>1, OneAircraft
  <2>3. AiInv(ai')
    BY <1>9, RemoveAllObjectsOK DEF StartNewFlight, ClearFlight
  <2> QED
    BY <1>9, <2>2, <2>3 DEF StartNewFlight, ClearFlight
<1>10. CASE AddToFormation
  <2>1. [id |-> RecordingId, recorded |-> FALSE] \in AircraftRecords
    BY <1>3 DEF AircraftRecords
  <2>2. /\ aircraft' \in Seq(AircraftRecords) /\ Len(aircraft') = Len(aircraft) + 1
        /\ user' = Len(aircraft')
    BY <1>1, <1>10, <2>1 DEF AddToFormation
  <2>3. user' \in DOMAIN aircraft' /\ user \in DOMAIN aircraft'
    BY <1>1, <2>2
  <2>4. AiInv(AddObject(ai, RecordingId))
    BY <1>3, AddObjectOK
  <2>5. AiInv(ai')
    BY <1>10, <2>2, <2>3, <2>4, UpdateUserAircraftOK DEF AddToFormation
  <2> QED
    BY <1>10, <2>2, <2>3, <2>5 DEF AddToFormation, FlightOK
<1>11. CASE StopRecording
  <2>1. PICK f \in FlightsAfterSession :
          aircraft' = f.list /\ user' = f.user /\ ai' = AddRecorded(ai, f.list[f.user].id)
    BY <1>11 DEF StopRecording, FlightsAfterSession
  <2>2. f.list \in Seq(AircraftRecords) /\ f.user \in DOMAIN f.list
    BY FlightsAfterSessionOK DEF FlightOK
  <2>3. f.list[f.user] \in AircraftRecords
    BY <2>2
  <2>4. AiInv(ai')
    BY <2>1, <2>3, AddObjectOK DEF AddRecorded, AircraftRecords
  <2>5. FlightOK(aircraft', user')
    BY <2>1, FlightsAfterSessionOK
  <2> QED
    BY <1>11, <2>4, <2>5 DEF StopRecording
<1>12. CASE StopRecordingNotStored
  <2>1. user = Len(aircraft) /\ user' = user - 1 /\ aircraft' = Front(aircraft) /\ Len(aircraft) > 1
    BY <1>12 DEF StopRecordingNotStored
  <2>2. FlightOK(aircraft', user')
    BY <1>1, <2>1, FrontOK
  <2>3. user' \in DOMAIN aircraft
    BY <1>1, <2>1
  <2>4. user' \in DOMAIN aircraft' /\ aircraft' \in Seq(AircraftRecords)
    BY <2>2 DEF FlightOK
  <2>5. aircraft'[user'] \in AircraftRecords
    BY <2>4
  <2>6. PICK id \in FreshIds \cup {aircraft[user].id} :
          ai' = AddRecorded(RemoveObject(UpdateUserAircraft(ai, aircraft, user', 0), id),
                            aircraft[user'].id)
    BY <1>12 DEF StopRecordingNotStored
  <2>7. id \in AircraftIds /\ aircraft[user'].id \in AircraftIds
    BY <1>1, <1>2, <1>3, <2>3
  <2>8. AiInv(RemoveObject(UpdateUserAircraft(ai, aircraft, user', 0), id))
    BY <1>1, <2>3, <2>7, UpdateUserAircraftOK, RemoveObjectOK
  <2>9. AiInv(ai')
    BY <2>6, <2>7, <2>8, AddObjectOK DEF AddRecorded
  <2> QED
    BY <1>12, <2>2, <2>9 DEF StopRecordingNotStored
<1> QED
  BY <1>5, <1>6, <1>7, <1>8, <1>9, <1>10, <1>11, <1>12

\* The operations on the flight.
LEMMA FlightStep ==
    ASSUME IInv,
           \/ \E list \in StoredFlights : \E u \in DOMAIN list :
                Restore(list, u) \/ ImportFlight(list, u)
           \/ \E list \in StoredFlights : ImportAircraft(list)
           \/ Clear
           \/ \E i \in DOMAIN aircraft :
                SwitchUserAircraft(i) \/ RemoveAircraft(i) \/ ChangeTailNumber(i)
    PROVE  StepOK
<1> USE DEF IInv, StepOK
<1>1. aircraft \in Seq(AircraftRecords) /\ user \in DOMAIN aircraft /\ Len(aircraft) \in Nat \ {0}
  BY DEF FlightOK
<1>2. \A i \in DOMAIN aircraft : aircraft[i] \in AircraftRecords /\ aircraft[i].id \in AircraftIds
  <2>1. \A i \in DOMAIN aircraft : aircraft[i] \in AircraftRecords
    BY <1>1
  <2> QED
    BY <2>1 DEF AircraftRecords
<1>3. ASSUME NEW list \in StoredFlights, NEW u \in DOMAIN list, Restore(list, u) PROVE StepOK
  <2>1. list \in Seq(AircraftRecords) /\ FlightOK(list, u)
    BY StoredFlightTyped DEF FlightOK
  <2>2. AiInv(ai')
    BY <1>3, <2>1, RemoveAllObjectsOK, CreateAiObjectsOK DEF Restore, SyncAiObjectsWithFlight
  <2> QED
    BY <1>3, <2>1, <2>2 DEF Restore
<1>4. ASSUME NEW list \in StoredFlights, NEW u \in DOMAIN list, ImportFlight(list, u) PROVE StepOK
  <2> DEFINE unstored == [i \in DOMAIN list |-> [list[i] EXCEPT !.id = InvalidId]]
  <2>1. list \in Seq(AircraftRecords) /\ FlightOK(list, u)
    BY StoredFlightTyped DEF FlightOK
  <2>2. \A i \in DOMAIN list : [list[i] EXCEPT !.id = InvalidId] \in AircraftRecords
    <3>1. \A i \in DOMAIN list : list[i] \in AircraftRecords
      BY <2>1
    <3> QED
      BY <3>1 DEF AircraftRecords, AircraftIds
  <2>3. unstored \in [1 .. Len(list) -> AircraftRecords] /\ Len(list) \in Nat
    BY <2>1, <2>2
  <2>4. FlightOK(unstored, u)
    BY <2>1, <2>3 DEF FlightOK
  <2>5. FlightOK(aircraft', user')
    BY <1>4, <2>1, <2>4 DEF ImportFlight
  <2> QED
    BY <1>4, <2>5, RemoveAllObjectsOK DEF ImportFlight
<1>5. ASSUME NEW list \in StoredFlights, ImportAircraft(list) PROVE StepOK
  <2>1. list \in Seq(AircraftRecords) /\ Len(list) \in Nat
    BY StoredFlightTyped
  <2>2. FlightOK(aircraft', user')
    <3>1. aircraft \o list \in Seq(AircraftRecords) /\ Len(aircraft \o list) = Len(aircraft) + Len(list)
      BY <1>1, <2>1
    <3> QED
      BY <1>1, <1>5, <2>1, <3>1 DEF ImportAircraft, FlightOK
  <2>3. AiInv(ai')
    BY <1>5, <2>1, AddObjectsOK DEF ImportAircraft
  <2> QED
    BY <1>5, <2>2, <2>3 DEF ImportAircraft
<1>6. CASE Clear
  <2> DEFINE first == [aircraft[1] EXCEPT !.recorded = FALSE]
  <2>1. first \in AircraftRecords
    BY <1>1, <1>2, ClearedTyped
  <2>2. FlightOK(aircraft', user')
    <3>1. aircraft' = <<first>> /\ user' = 1
      BY <1>6 DEF Clear, ClearFlight
    <3> HIDE DEF first
    <3> QED
      BY <2>1, <3>1, OneAircraft
  <2> QED
    BY <1>6, <2>2, RemoveAllObjectsOK DEF Clear, ClearFlight
<1>7. ASSUME NEW i \in DOMAIN aircraft, SwitchUserAircraft(i) PROVE StepOK
  <2>1. AiInv(ai')
    BY <1>1, <1>7, UpdateUserAircraftOK DEF SwitchUserAircraft
  <2>2. FlightOK(aircraft', user')
    BY <1>1, <1>7 DEF SwitchUserAircraft, FlightOK
  <2> QED
    BY <1>7, <2>1, <2>2 DEF SwitchUserAircraft
<1>8. ASSUME NEW i \in DOMAIN aircraft, RemoveAircraft(i) PROVE StepOK
  <2>1. user' \in DOMAIN aircraft /\ user' \in 1 .. Len(aircraft) - 1
    BY <1>1, <1>8 DEF RemoveAircraft, UserAfterRemoval
  <2>2. FlightOK(aircraft', user')
    BY <1>1, <1>8, <2>1, RemoveAtOK DEF RemoveAircraft, FlightOK
  <2> DEFINE updated == IF i = user /\ user' # user
                        THEN UpdateUserAircraft(ai, aircraft, user', 0)
                        ELSE ai
  <2>3. AiInv(updated)
    BY <1>1, <2>1, UpdateUserAircraftOK
  <2>4. ai' = RemoveObject(updated, aircraft[i].id)
    BY <1>8 DEF RemoveAircraft
  <2>5. AiInv(ai')
    BY <1>2, <2>3, <2>4, RemoveObjectOK
  <2> QED
    BY <1>8, <2>2, <2>5 DEF RemoveAircraft
<1>9. ASSUME NEW i \in DOMAIN aircraft, ChangeTailNumber(i) PROVE StepOK
  <2>1. AiInv(ai')
    BY <1>2, <1>9, AddObjectOK, RemoveObjectOK DEF ChangeTailNumber
  <2> QED
    BY <1>9, <2>1 DEF ChangeTailNumber
<1> QED
  BY <1>3, <1>4, <1>5, <1>6, <1>7, <1>8, <1>9

\* The steps of the simulator and the dispatch of its answers.
LEMMA SimulatorStep ==
    ASSUME IInv, (\E r \in Requests : Create(r) \/ Refuse(r) \/ DispatchAssigned(r)) \/ Crash
    PROVE  StepOK
<1> USE DEF IInv, StepOK, SimUnchanged
<1>1. Requests \subseteq Nat
  BY BoundsAssumption DEF Requests
<1>2. ASSUME NEW r \in Requests, Create(r) PROVE StepOK
  <2>1. /\ ai'.link = ai.link /\ ai'.requestOf = ai.requestOf /\ ai'.last = ai.last
        /\ ai'.registered = ai.registered /\ ai'.asked = ai.asked \ {r}
        /\ ai'.objects = ai.objects \cup {r} /\ ai'.assigned = ai.assigned \cup {r}
        /\ r \in ai.asked
    BY <1>2 DEF Create, AiInv, AnyAi
  <2>2. ai' \in AnyAi
    BY <1>1, <1>2 DEF Create, AiInv, AnyAi
  <2>3. Numbered(ai')
    BY <2>1 DEF AiInv, AnyAi, Numbered
  <2>4. Tight(ai')
    BY <2>1 DEF AiInv, Numbered, Tight
  <2> QED
    BY <1>2, <2>2, <2>3, <2>4 DEF Create, AiInv
<1>3. ASSUME NEW r \in Requests, Refuse(r) PROVE StepOK
  <2>1. ai' \in AnyAi /\ Numbered(ai') /\ Tight(ai')
    BY <1>3 DEF Refuse, AiInv, AnyAi, Numbered, Tight
  <2> QED
    BY <1>3, <2>1 DEF Refuse, AiInv
<1>4. ASSUME NEW r \in Requests, DispatchAssigned(r) PROVE StepOK
  BY <1>4, RegisterObjectOK DEF DispatchAssigned
<1>5. CASE Crash
  <2>1. /\ ai'.link = "stale" /\ ai'.requestOf = ai.requestOf /\ ai'.last = ai.last
        /\ ai'.registered = ai.registered
        /\ ai'.asked = {} /\ ai'.objects = {} /\ ai'.assigned = {}
    BY <1>5 DEF Crash, AiInv, AnyAi
  <2>2. ai' \in AnyAi
    BY <1>5 DEF Crash, AiInv, AnyAi
  <2>3. Numbered(ai') /\ Tight(ai')
    BY <2>1 DEF AiInv, AnyAi, Numbered, Tight
  <2> QED
    BY <1>5, <2>2, <2>3 DEF Crash, AiInv
<1> QED
  BY <1>2, <1>3, <1>4, <1>5

LEMMA Inductive == Init /\ [][Next]_vars => []IInv
<1>1. Init => IInv
  <2> SUFFICES ASSUME Init PROVE IInv
    OBVIOUS
  <2>1. [id |-> InvalidId, recorded |-> FALSE] \in AircraftRecords
    BY DEF AircraftRecords, AircraftIds
  <2>2. FlightOK(aircraft, user)
    BY <2>1, OneAircraft DEF Init
  <2>3. ai.last <= MaxRequests
    BY BoundsAssumption DEF Init, NoAi
  <2> QED
    BY <2>2, <2>3, NoAiOK DEF Init, IInv
<1>2. IInv /\ [Next]_vars => IInv'
  <2> SUFFICES ASSUME IInv, [Next]_vars PROVE IInv'
    OBVIOUS
  <2>1. CASE Next
    <3>1. StepOK
      BY <2>1, SessionStep, FlightStep, SimulatorStep DEF Next
    <3> QED
      BY <2>1, <3>1 DEF Next, StepOK, IInv, FlightOK, AiInv, Numbered, Tight
  <2>2. CASE UNCHANGED vars
    BY <2>2 DEF vars, IInv, FlightOK, AiInv, Numbered, Tight
  <2> QED
    BY <2>1, <2>2
<1> QED
  BY <1>1, <1>2, PTL

-----------------------------------------------------------------------------
(***************************************************************************)
(* The theorems                                                            *)
(***************************************************************************)

\* Every variable keeps its type, and the user aircraft is always one of the flight's.
THEOREM Typing == Spec => []TypeOK
<1>1. IInv => TypeOK
  <2> SUFFICES ASSUME IInv PROVE TypeOK
    OBVIOUS
  <2>1. \A n \in Nat : n <= ai.last => n \in 0 .. MaxRequests
    BY BoundsAssumption DEF IInv, AiInv, AnyAi
  <2>2. ai.requestOf \in [AircraftIds -> 0 .. MaxRequests]
    BY <2>1 DEF IInv, AiInv, AnyAi, Numbered
  <2>3. 1 .. ai.last \subseteq Requests
    BY BoundsAssumption DEF IInv, AiInv, AnyAi, Requests
  <2>4. ai \in AiStates
    <3>1. ai \in AnyAi /\ ai.last \in 0 .. MaxRequests
      BY BoundsAssumption DEF IInv, AiInv, AnyAi
    <3>2. /\ ai.registered \in SUBSET Requests /\ ai.asked \in SUBSET Requests
          /\ ai.objects \in SUBSET Requests /\ ai.assigned \in SUBSET Requests
      BY <2>3 DEF IInv, AiInv, Numbered
    <3> QED
      BY <2>2, <3>1, <3>2 DEF AnyAi, AiStates
  <2> QED
    BY <2>4 DEF IInv, FlightOK, AircraftRecords, TypeOK
<1> QED
  BY <1>1, Inductive, PTL DEF Spec

\* No object is left behind in the simulator that the plugin could not remove.
THEOREM NothingIsLeft == Spec => []NothingLeaks
<1>1. IInv => NothingLeaks
  BY DEF IInv, AiInv, Numbered, Tight, NothingLeaks
<1> QED
  BY <1>1, Inductive, PTL DEF Spec

-----------------------------------------------------------------------------
(***************************************************************************)
(* The objects and the flight.  What matters of ai are the identifiers     *)
(* with a request, and that what is registered belongs to one of them.     *)
(***************************************************************************)
Covered(a) == \A r \in a.registered : \E id \in AircraftIds : a.requestOf[id] = r

\* b is a after an operation, with requests for ids.
Leaves(a, b, ids) ==
    b.link = a.link /\ Requested(b) = ids /\ (Covered(a) => Covered(b))

\* Aircraft are told apart by their identifiers, those without one aside.
Named(list) ==
    \A i, j \in DOMAIN list : list[i].id = list[j].id => i = j \/ list[i].id = InvalidId

IdsOf(list, shown) == {list[i].id : i \in shown} \ {InvalidId}

ShownIn(list, u) == {i \in DOMAIN list : i # u \/ FlyWithFormation}

\* Requests only for aircraft that are shown, and for each that is needed.
Wanted(list, shown, ids) == \A id \in ids : id # InvalidId /\ \E i \in shown : list[i].id = id

Served(list, needed, ids) ==
    \A i \in needed : list[i].recorded /\ list[i].id # InvalidId => list[i].id \in ids

ShownAircraft == {i \in DOMAIN aircraft : Shown(i)}
Needed == {i \in ShownAircraft : session = "Recording" => i # user}

\* Only the aircraft that is recorded next to others has no identifier of its own yet.
OneRecording ==
    \A i \in DOMAIN aircraft :
        aircraft[i].id = RecordingId => session = "Recording" /\ i = Len(aircraft) /\ i > 1

Matching ==
    ai.link = "open" /\ ~disturbed =>
        /\ Wanted(aircraft, ShownAircraft, Requested(ai))
        /\ Served(aircraft, Needed, Requested(ai))
        /\ Covered(ai)

MatchInv == IInv /\ Named(aircraft) /\ OneRecording /\ Matching

LEMMA AddObjectAsks ==
    ASSUME NEW a, AiInv(a), NEW id \in AircraftIds, a.link = "open", id \notin Requested(a)
    PROVE  Leaves(a, AddObject(a, id), Requested(a) \cup ({id} \ {InvalidId}))
<1> DEFINE b == AddObject(a, id)
<1>1. CASE id = InvalidId
  BY <1>1 DEF AddObject, Leaves
<1>2. CASE id # InvalidId
  <2>1. b = [a EXCEPT !.requestOf[id] = a.last + 1, !.last = @ + 1,
                      !.asked = @ \cup {a.last + 1}]
    BY <1>2 DEF AddObject
  <2>2. /\ b.link = a.link /\ b.registered = a.registered
        /\ \A i \in AircraftIds :
             b.requestOf[i] = IF i = id THEN a.last + 1 ELSE a.requestOf[i]
    BY <2>1 DEF AiInv, AnyAi
  <2> HIDE DEF b
  <2>3. a.last \in Nat /\ a.requestOf[id] = 0 /\ \A r \in a.registered : r \in 1 .. a.last
    BY DEF Requested, AiInv, AnyAi, Numbered
  <2>4. Requested(b) = Requested(a) \cup {id}
    BY <2>2, <2>3 DEF Requested
  <2>5. Covered(a) => Covered(b)
    <3> SUFFICES ASSUME Covered(a), NEW r \in b.registered
                 PROVE  \E i \in AircraftIds : b.requestOf[i] = r
      BY DEF Covered
    <3>1. PICK i \in AircraftIds : a.requestOf[i] = r
      BY <2>2 DEF Covered
    <3>2. i # id
      BY <2>2, <2>3, <3>1
    <3> QED
      BY <2>2, <3>1, <3>2
  <2> QED
    BY <1>2, <2>2, <2>4, <2>5 DEF Leaves, b
<1> QED
  BY <1>1, <1>2

LEMMA RemoveObjectForgets ==
    ASSUME NEW a, AiInv(a), NEW id \in AircraftIds
    PROVE  Leaves(a, RemoveObject(a, id), Requested(a) \ {id})
<1> DEFINE b == RemoveObject(a, id)
           r == a.requestOf[id]
<1>1. /\ b.link = a.link /\ b.registered = a.registered \ {r}
      /\ \A i \in AircraftIds : b.requestOf[i] = IF i = id THEN 0 ELSE a.requestOf[i]
  BY DEF RemoveObject, AiInv, AnyAi
<1> HIDE DEF b, r
<1>2. Requested(b) = Requested(a) \ {id}
  BY <1>1 DEF Requested
<1>3. Covered(a) => Covered(b)
  BY <1>1 DEF Covered, r
<1> QED
  BY <1>1, <1>2, <1>3 DEF Leaves, b

LEMMA RemoveAllObjectsForgets ==
    ASSUME NEW a, AiInv(a)
    PROVE  /\ RemoveAllObjects(a).link = a.link
           /\ Requested(RemoveAllObjects(a)) = {} /\ Covered(RemoveAllObjects(a))
<1>1. RemoveAllObjects(a) = [a EXCEPT !.requestOf = NoRequests, !.registered = {},
                                      !.objects = @ \ a.registered]
  BY DEF RemoveAllObjects
<1>2. /\ RemoveAllObjects(a).link = a.link /\ RemoveAllObjects(a).registered = {}
      /\ RemoveAllObjects(a).requestOf = NoRequests
  BY <1>1 DEF AiInv, AnyAi
<1> QED
  BY <1>2 DEF Requested, Covered, NoRequests

LEMMA AddObjectsAsks ==
    ASSUME NEW a, AiInv(a), a.link = "open", NEW list \in Seq(AircraftRecords),
           NEW which \in SUBSET DOMAIN list, \A i \in which : list[i].id \notin Requested(a)
    PROVE  Leaves(a, AddObjects(a, list, which), Requested(a) \cup IdsOf(list, which))
<1> DEFINE valid   == {i \in which : list[i].id # InvalidId}
           Rank(i) == Cardinality({j \in valid : j <= i})
           n       == Cardinality(valid)
           b       == AddObjects(a, list, which)
           New(id) == \E i \in valid : list[i].id = id
<1>1. IsFiniteSet(valid) /\ n \in Nat
  <2>1. IsFiniteSet(1 .. Len(list))
    BY FS_Interval
  <2>2. valid \subseteq 1 .. Len(list)
    OBVIOUS
  <2> QED
    BY <2>1, <2>2, FS_Subset, FS_CardinalityType
<1>2. \A i \in valid : Rank(i) \in Nat /\ Rank(i) # 0
  <2> TAKE i \in valid
  <2>1. IsFiniteSet({j \in valid : j <= i})
    BY <1>1, FS_Subset
  <2>2. i \in {j \in valid : j <= i}
    OBVIOUS
  <2> QED
    BY <2>1, <2>2, FS_CardinalityType, FS_EmptySet
<1> DEFINE q == [id \in AircraftIds |->
                   IF New(id) THEN a.last + Rank(CHOOSE i \in valid : list[i].id = id)
                   ELSE a.requestOf[id]]
<1>3. b = [a EXCEPT !.requestOf = q, !.last = @ + n,
                    !.asked = @ \cup (a.last + 1 .. a.last + n)]
  BY DEF AddObjects
<1> HIDE DEF n, Rank, b
<1>4. \A id \in AircraftIds : q[id] = IF New(id)
                                      THEN a.last + Rank(CHOOSE i \in valid : list[i].id = id)
                                      ELSE a.requestOf[id]
  OBVIOUS
<1> HIDE DEF q
<1>5. b.requestOf = q /\ b.link = a.link /\ b.registered = a.registered
  BY <1>3 DEF AiInv, AnyAi
<1>6. a.last \in Nat /\ \A r \in a.registered : r # 0
  BY DEF AiInv, AnyAi, Numbered
<1>7. \A id \in AircraftIds : New(id) => q[id] # 0
  <2> SUFFICES ASSUME NEW id \in AircraftIds, New(id) PROVE q[id] # 0
    OBVIOUS
  <2> DEFINE i == CHOOSE i \in valid : list[i].id = id
  <2>1. i \in valid
    OBVIOUS
  <2>2. q[id] = a.last + Rank(i)
    BY <1>4
  <2> HIDE DEF i
  <2>3. Rank(i) \in Nat /\ Rank(i) # 0
    BY <1>2, <2>1
  <2> QED
    BY <1>6, <2>2, <2>3
<1>8. \A id \in AircraftIds : ~New(id) => q[id] = a.requestOf[id]
  BY <1>4
<1>9. \A id : New(id) <=> id \in IdsOf(list, which)
  BY DEF IdsOf
<1>10. \A id \in IdsOf(list, which) : id \in AircraftIds /\ id \notin Requested(a)
  <2>1. \A i \in which : list[i] \in AircraftRecords
    OBVIOUS
  <2> QED
    BY <2>1 DEF IdsOf, AircraftRecords
<1> HIDE DEF New
<1>11. Requested(b) = Requested(a) \cup IdsOf(list, which)
  BY <1>5, <1>7, <1>8, <1>9, <1>10 DEF Requested
<1>12. Covered(a) => Covered(b)
  <2> SUFFICES ASSUME Covered(a), NEW r \in a.registered
               PROVE  \E id \in AircraftIds : q[id] = r
    BY <1>5 DEF Covered
  <2>1. PICK id \in AircraftIds : a.requestOf[id] = r
    BY DEF Covered
  <2>2. ~New(id)
    BY <1>6, <1>9, <1>10, <2>1 DEF Requested
  <2> QED
    BY <1>8, <2>1, <2>2
<1> QED
  BY <1>5, <1>11, <1>12 DEF Leaves, b

\* Objects created anew are those of the aircraft that are shown.
LEMMA CreateAiObjectsAsks ==
    ASSUME NEW a, AiInv(a), a.link = "open", Requested(a) = {}, Covered(a),
           NEW list \in Seq(AircraftRecords), NEW u \in DOMAIN list, Named(list)
    PROVE  /\ CreateAiObjects(a, list, u).link = "open"
           /\ Requested(CreateAiObjects(a, list, u))
                = IdsOf(list, ShownIn(list, u))
           /\ Covered(CreateAiObjects(a, list, u))
<1> DEFINE which == {i \in DOMAIN list : list[i].id # list[u].id \/ FlyWithFormation}
           shown == ShownIn(list, u)
<1>1. which \in SUBSET DOMAIN list
  OBVIOUS
<1>2. IdsOf(list, which) = IdsOf(list, shown)
  BY DEF IdsOf, Named, ShownIn
<1> HIDE DEF which, shown
<1>3. Leaves(a, AddObjects(a, list, which), Requested(a) \cup IdsOf(list, which))
  BY <1>1, AddObjectsAsks
<1> QED
  BY <1>2, <1>3 DEF Leaves, CreateAiObjects, which, shown

LEMMA ConnectWithSimAsks ==
    ASSUME NEW list \in Seq(AircraftRecords), NEW u \in DOMAIN list, Named(list)
    PROVE  /\ Requested(ConnectWithSim(list, u))
                = IdsOf(list, ShownIn(list, u))
           /\ Covered(ConnectWithSim(list, u))
<1> DEFINE a == [NoAi EXCEPT !.link = "open"]
<1>1. AiInv(a)
  BY NoAiOK
<1>2. a.link = "open" /\ Requested(a) = {} /\ Covered(a)
  BY DEF NoAi, NoRequests, Requested, Covered
<1>3. ConnectWithSim(list, u) = CreateAiObjects(a, list, u)
  BY DEF ConnectWithSim
<1> HIDE DEF a
<1> QED
  BY <1>1, <1>2, <1>3, CreateAiObjectsAsks

\* Requests for exactly the aircraft that are shown are what is wanted.
LEMMA ExactlyShown ==
    ASSUME NEW list, NEW shown, NEW needed \in SUBSET shown
    PROVE  /\ Wanted(list, shown, IdsOf(list, shown))
           /\ Served(list, needed, IdsOf(list, shown))
BY DEF Wanted, Served, IdsOf

\* What every step establishes.
MatchStep ==
    /\ Named(aircraft')
    /\ OneRecording'
    /\ ai'.link = "open" /\ ~disturbed' =>
         /\ Wanted(aircraft', ShownAircraft', Requested(ai'))
         /\ Served(aircraft', Needed', Requested(ai'))
         /\ Covered(ai')

LEMMA FlightTyped ==
    ASSUME IInv
    PROVE  /\ aircraft \in Seq(AircraftRecords) /\ Len(aircraft) \in Nat \ {0}
           /\ user \in 1 .. Len(aircraft)
           /\ \A i \in 1 .. Len(aircraft) :
                aircraft[i] \in AircraftRecords /\ aircraft[i].id \in AircraftIds
<1>1. aircraft \in Seq(AircraftRecords) /\ user \in 1 .. Len(aircraft)
  BY DEF IInv, FlightOK
<1>2. \A i \in 1 .. Len(aircraft) : aircraft[i] \in AircraftRecords
  BY <1>1
<1> QED
  BY <1>1, <1>2 DEF AircraftRecords

\* The user aircraft of the flight has no request unless it is shown.
LEMMA UserIsNotAsked ==
    ASSUME MatchInv, ai.link = "open", ~disturbed, ~FlyWithFormation
    PROVE  aircraft[user].id \notin Requested(ai)
<1> SUFFICES ASSUME aircraft[user].id \in Requested(ai) PROVE FALSE
  OBVIOUS
<1>1. aircraft[user].id # InvalidId
      /\ \E i \in ShownAircraft : aircraft[i].id = aircraft[user].id
  BY DEF MatchInv, Matching, Wanted
<1>2. user \in DOMAIN aircraft
  BY FlightTyped DEF MatchInv
<1> QED
  BY <1>1, <1>2 DEF ShownAircraft, Shown, MatchInv, Named

LEMMA FreshIsNew ==
    ASSUME NEW id \in FreshIds
    PROVE  /\ id \in AircraftIds /\ id # InvalidId /\ id # RecordingId
           /\ id \notin Requested(ai) /\ \A i \in DOMAIN aircraft : aircraft[i].id # id
BY IdsAssumption DEF FreshIds, AircraftIds, InvalidId, RecordingId

LEMMA ConnectMatches ==
    ASSUME MatchInv, ai' = ConnectWithSim(aircraft, user), UNCHANGED <<replayMode, aircraft, user>>,
           session # "Recording" \/ UNCHANGED session
    PROVE  MatchStep
<1>1. aircraft \in Seq(AircraftRecords) /\ user \in DOMAIN aircraft /\ Named(aircraft)
  BY FlightTyped DEF MatchInv
<1>2. Requested(ai') = IdsOf(aircraft, ShownIn(aircraft, user)) /\ Covered(ai')
  BY <1>1, ConnectWithSimAsks
<1>3. ShownAircraft' = ShownIn(aircraft, user) /\ Needed' \in SUBSET ShownAircraft'
  BY DEF ShownAircraft, Shown, ShownIn, FlyWithFormation, Needed
<1>4. Wanted(aircraft', ShownAircraft', Requested(ai')) /\ Served(aircraft', Needed', Requested(ai'))
  BY <1>2, <1>3, ExactlyShown
<1>5. OneRecording'
  BY DEF MatchInv, OneRecording
<1> QED
  BY <1>1, <1>2, <1>4, <1>5 DEF MatchStep

\* One aircraft without a recording is left, and no object.
LEMMA ClearFlightMatches ==
    ASSUME MatchInv, ClearFlight, session # "Recording" PROVE MatchStep
<1>1. Len(aircraft) \in Nat \ {0} /\ aircraft[1] \in AircraftRecords
  BY FlightTyped DEF MatchInv
<1> DEFINE first == [aircraft[1] EXCEPT !.recorded = FALSE]
<1>2. first.id = aircraft[1].id /\ first.recorded = FALSE
  BY <1>1 DEF AircraftRecords
<1>3. aircraft[1].id # RecordingId
  BY <1>1, FlightTyped DEF MatchInv, OneRecording
<1>4. aircraft' = <<first>>
  BY DEF ClearFlight
<1> HIDE DEF first
<1>5. DOMAIN aircraft' = {1} /\ aircraft'[1].id = aircraft[1].id /\ aircraft'[1].recorded = FALSE
  BY <1>2, <1>4
<1>6. Named(aircraft') /\ OneRecording'
  BY <1>3, <1>5 DEF Named, OneRecording
<1>7. Requested(ai') = {} /\ Covered(ai')
  BY RemoveAllObjectsForgets DEF ClearFlight, MatchInv, IInv
<1>8. Wanted(aircraft', ShownAircraft', {})
  BY DEF Wanted
<1>9. Served(aircraft', Needed', {})
  BY <1>5 DEF Served, Needed, ShownAircraft
<1> QED
  BY <1>6, <1>7, <1>8, <1>9 DEF MatchStep

\* The end of a recording gives the aircraft recorded an identifier, or removes it.
LEMMA FlightsAfterSessionNamed ==
    ASSUME MatchInv, NEW f \in FlightsAfterSession
    PROVE  Named(f.list) /\ \A i \in DOMAIN f.list : f.list[i].id # RecordingId
<1>1. /\ aircraft \in Seq(AircraftRecords) /\ Len(aircraft) \in Nat \ {0}
      /\ user \in 1 .. Len(aircraft) /\ Named(aircraft) /\ OneRecording
      /\ session = "Recording" => user = Len(aircraft)
  BY FlightTyped DEF MatchInv, IInv
<1>2. CASE session # "Recording"
  BY <1>1, <1>2 DEF FlightsAfterSession, OneRecording
<1>3. CASE session = "Recording" /\ f \in Stored
  <2>1. PICK id \in FreshIds, rec \in BOOLEAN :
          f = [list |-> [aircraft EXCEPT ![user] = [id |-> id, recorded |-> rec]], user |-> user]
    BY <1>3 DEF Stored
  <2>2. /\ DOMAIN f.list = DOMAIN aircraft /\ f.list[user].id = id
        /\ \A i \in DOMAIN aircraft : i # user => f.list[i] = aircraft[i]
    BY <1>1, <2>1
  <2>3. id # RecordingId /\ \A i \in DOMAIN aircraft : aircraft[i].id # id
    BY FreshIsNew
  <2>4. \A i \in DOMAIN aircraft : aircraft[i].id = RecordingId => i = user
    BY <1>1, <1>3 DEF OneRecording
  <2> QED
    BY <1>1, <2>2, <2>3, <2>4 DEF Named
<1>4. CASE session = "Recording" /\ f \in NotStored /\ Len(aircraft) > 1
  <2>1. f.list = Front(aircraft)
    BY <1>4 DEF NotStored
  <2>2. DOMAIN f.list = 1 .. Len(aircraft) - 1 /\ \A i \in DOMAIN f.list : f.list[i] = aircraft[i]
    BY <1>1, <2>1 DEF Front
  <2> QED
    BY <1>1, <2>2 DEF Named, OneRecording
<1>5. CASE session = "Recording" /\ f \in NotStored /\ ~(Len(aircraft) > 1)
  <2>1. PICK id \in FreshIds \cup {aircraft[1].id}, rec \in BOOLEAN :
          f = [list |-> <<[id |-> id, recorded |-> rec]>>, user |-> 1]
    BY <1>5 DEF NotStored
  <2>2. id # RecordingId
    BY <1>1, FreshIsNew DEF OneRecording
  <2>3. DOMAIN f.list = {1} /\ f.list[1].id = id
    BY <2>1
  <2> QED
    BY <2>2, <2>3 DEF Named
<1> QED
  BY <1>2, <1>3, <1>4, <1>5 DEF FlightsAfterSession

LEMMA EndSessionMatches ==
    ASSUME MatchInv, EndSession PROVE MatchStep
<1>1. PICK f \in FlightsAfterSession : aircraft' = f.list
  BY DEF EndSession
<1>2. Named(aircraft') /\ OneRecording'
  BY <1>1, FlightsAfterSessionNamed DEF OneRecording
<1>3. ai'.link = "none"
  BY DEF EndSession, NoAi
<1> QED
  BY <1>2, <1>3 DEF MatchStep

\* The user aircraft is shown, too, in "fly with formation" only.
LEMMA SetReplayModeMatches ==
    ASSUME MatchInv, NEW mode \in ReplayModes, SetReplayMode(mode) PROVE MatchStep
<1> DEFINE id == aircraft[user].id
<1>1. /\ user \in DOMAIN aircraft /\ id \in AircraftIds /\ Named(aircraft) /\ OneRecording
      /\ AiInv(ai)
  BY FlightTyped DEF MatchInv, IInv
<1>2. /\ session # "Recording" /\ mode # replayMode /\ replayMode' = mode
      /\ UNCHANGED <<session, aircraft, user, disturbed>>
      /\ ai' = IF FlyWithFormation THEN RemoveObject(ai, id)
               ELSE IF mode = "FlyWithFormation" THEN AddObject(ai, id)
               ELSE ai
  BY DEF SetReplayMode
<1>3. Named(aircraft') /\ OneRecording'
  BY <1>1, <1>2 DEF OneRecording
<1> HIDE DEF id
<1> SUFFICES ASSUME ai'.link = "open", ~disturbed'
             PROVE  /\ Wanted(aircraft', ShownAircraft', Requested(ai'))
                    /\ Served(aircraft', Needed', Requested(ai'))
                    /\ Covered(ai')
  BY <1>3 DEF MatchStep
<1>4. ai.link = "open" /\ ~disturbed
  <2>1. ai'.link = ai.link
    BY <1>1, <1>2 DEF AddObject, RemoveObject, AiInv, AnyAi
  <2> QED
    BY <1>2, <2>1
<1>5. /\ Wanted(aircraft, ShownAircraft, Requested(ai)) /\ Served(aircraft, Needed, Requested(ai))
      /\ Covered(ai)
  BY <1>4 DEF MatchInv, Matching
<1>6. CASE FlyWithFormation
  <2>1. Requested(ai') = Requested(ai) \ {id} /\ Covered(ai')
    BY <1>1, <1>2, <1>5, <1>6, RemoveObjectForgets DEF Leaves
  <2>2. ShownAircraft = DOMAIN aircraft /\ Needed = DOMAIN aircraft
    BY <1>2, <1>6 DEF ShownAircraft, Shown, Needed
  <2>3. ShownAircraft' = DOMAIN aircraft \ {user} /\ Needed' = DOMAIN aircraft \ {user}
    BY <1>2, <1>6 DEF ShownAircraft, Shown, Needed, FlyWithFormation
  <2>4. Wanted(aircraft', ShownAircraft', Requested(ai'))
    BY <1>1, <1>2, <1>5, <2>1, <2>2, <2>3 DEF Wanted, id
  <2>5. Served(aircraft', Needed', Requested(ai'))
    BY <1>1, <1>2, <1>5, <2>1, <2>2, <2>3 DEF Served, Named, id
  <2> QED
    BY <2>1, <2>4, <2>5
<1>7. CASE ~FlyWithFormation /\ mode = "FlyWithFormation"
  <2>1. Requested(ai') = Requested(ai) \cup ({id} \ {InvalidId}) /\ Covered(ai')
    <3>1. id \notin Requested(ai)
      BY <1>4, <1>7, UserIsNotAsked DEF id
    <3> QED
      BY <1>1, <1>2, <1>4, <1>5, <1>7, <3>1, AddObjectAsks DEF Leaves
  <2>2. ShownAircraft = DOMAIN aircraft \ {user} /\ Needed = DOMAIN aircraft \ {user}
    BY <1>2, <1>7 DEF ShownAircraft, Shown, Needed
  <2>3. ShownAircraft' = DOMAIN aircraft /\ Needed' = DOMAIN aircraft
    BY <1>2, <1>7 DEF ShownAircraft, Shown, Needed, FlyWithFormation
  <2>4. Wanted(aircraft', ShownAircraft', Requested(ai'))
    BY <1>1, <1>2, <1>5, <2>1, <2>2, <2>3 DEF Wanted, id
  <2>5. Served(aircraft', Needed', Requested(ai'))
    BY <1>1, <1>2, <1>5, <2>1, <2>2, <2>3 DEF Served, id
  <2> QED
    BY <2>1, <2>4, <2>5
<1>8. CASE ~FlyWithFormation /\ mode # "FlyWithFormation"
  <2>1. ai' = ai /\ ShownAircraft' = ShownAircraft /\ Needed' = Needed
    BY <1>2, <1>8 DEF ShownAircraft, Shown, Needed, FlyWithFormation
  <2> QED
    BY <1>2, <1>5, <2>1
<1> QED
  BY <1>6, <1>7, <1>8

\* The aircraft flown so far gets an object when another one is recorded.
LEMMA AddToFormationMatches ==
    ASSUME MatchInv, AddToFormation PROVE MatchStep
<1> DEFINE id   == aircraft[user].id
           len  == Len(aircraft)
           next == len + 1
           a    == AddObject(ai, RecordingId)
<1>1. /\ aircraft \in Seq(AircraftRecords) /\ len \in Nat \ {0}
      /\ user \in 1 .. len /\ id \in AircraftIds /\ Named(aircraft) /\ OneRecording /\ AiInv(ai)
  BY FlightTyped DEF MatchInv, IInv
<1>2. /\ session = "Connected" /\ session' = "Recording" /\ aircraft[user].recorded
      /\ aircraft' = Append(aircraft, [id |-> RecordingId, recorded |-> FALSE])
      /\ user' = next /\ UNCHANGED <<replayMode, disturbed>>
      /\ ai' = UpdateUserAircraft(a, aircraft', user', user)
  BY DEF AddToFormation
<1>3. /\ DOMAIN aircraft' = 1 .. next /\ Len(aircraft') = next
      /\ aircraft'[next].id = RecordingId /\ aircraft'[next].recorded = FALSE
      /\ \A i \in 1 .. len : aircraft'[i] = aircraft[i]
  BY <1>1, <1>2
<1>4. \A i \in 1 .. len : aircraft[i].id # RecordingId
  BY <1>1, <1>2 DEF OneRecording
<1>5. RecordingId \in AircraftIds /\ RecordingId # InvalidId
  BY DEF AircraftIds, RecordingId, InvalidId
<1> HIDE DEF id, len, a
<1>6. next \in Nat /\ next > 1 /\ next \notin 1 .. len /\ 1 .. next = (1 .. len) \cup {next}
      /\ DOMAIN aircraft = 1 .. len
  BY <1>1 DEF len
<1> HIDE DEF next
<1>7. Named(aircraft') /\ OneRecording'
  BY <1>1, <1>2, <1>3, <1>4, <1>6 DEF OneRecording, Named
<1> SUFFICES ASSUME ai'.link = "open", ~disturbed'
             PROVE  /\ Wanted(aircraft', ShownAircraft', Requested(ai'))
                    /\ Served(aircraft', Needed', Requested(ai'))
                    /\ Covered(ai')
  BY <1>7 DEF MatchStep
<1>8. a.link = ai.link /\ AiInv(a)
  BY <1>1, <1>5, AddObjectOK DEF AddObject, AiInv, AnyAi, a
<1>9. ai' = IF FlyWithFormation THEN a ELSE AddObject(RemoveObject(a, RecordingId), id)
  <2>1. user # 0 /\ aircraft'[user].id = id
    BY <1>1, <1>3 DEF id
  <2>2. aircraft'[user'].id = RecordingId
    BY <1>2, <1>3
  <2> QED
    BY <1>2, <2>1, <2>2 DEF UpdateUserAircraft
<1>10. ai.link = "open" /\ ~disturbed
  <2>1. ai'.link = a.link
    BY <1>8, <1>9 DEF AddObject, RemoveObject, AiInv, AnyAi
  <2> QED
    BY <1>2, <1>8, <2>1
<1>11. /\ Wanted(aircraft, ShownAircraft, Requested(ai)) /\ Served(aircraft, Needed, Requested(ai))
       /\ Covered(ai)
  BY <1>10 DEF MatchInv, Matching
<1>12. RecordingId \notin Requested(ai)
  BY <1>4, <1>6, <1>11 DEF Wanted, ShownAircraft
<1>13. a.link = "open" /\ Requested(a) = Requested(ai) \cup {RecordingId} /\ Covered(a)
  BY <1>1, <1>5, <1>10, <1>11, <1>12, AddObjectAsks DEF Leaves, a
<1>14. CASE FlyWithFormation
  <2>1. Requested(ai') = Requested(ai) \cup {RecordingId} /\ Covered(ai')
    BY <1>9, <1>13, <1>14
  <2>2. ShownAircraft = 1 .. len /\ Needed = 1 .. len
    BY <1>2, <1>6, <1>14 DEF ShownAircraft, Shown, Needed
  <2>3. ShownAircraft' = 1 .. next /\ Needed' = 1 .. len
    BY <1>2, <1>3, <1>6, <1>14 DEF ShownAircraft, Shown, Needed, FlyWithFormation
  <2>4. Wanted(aircraft', ShownAircraft', Requested(ai'))
    BY <1>3, <1>5, <1>6, <1>11, <2>1, <2>2, <2>3 DEF Wanted
  <2>5. Served(aircraft', Needed', Requested(ai'))
    BY <1>3, <1>11, <2>1, <2>2, <2>3 DEF Served
  <2> QED
    BY <2>1, <2>4, <2>5
<1>15. CASE ~FlyWithFormation
  <2> DEFINE b == RemoveObject(a, RecordingId)
  <2>1. b.link = "open" /\ Requested(b) = Requested(ai) /\ Covered(b) /\ AiInv(b)
    BY <1>5, <1>8, <1>12, <1>13, RemoveObjectForgets, RemoveObjectOK DEF Leaves
  <2>2. ai' = AddObject(b, id)
    BY <1>9, <1>15
  <2> HIDE DEF b
  <2>3. id \notin Requested(ai)
    BY <1>10, <1>15, UserIsNotAsked DEF id
  <2>4. Requested(ai') = Requested(ai) \cup ({id} \ {InvalidId}) /\ Covered(ai')
    BY <1>1, <2>1, <2>2, <2>3, AddObjectAsks DEF Leaves
  <2>5. ShownAircraft = (1 .. len) \ {user} /\ Needed = (1 .. len) \ {user}
    BY <1>2, <1>6, <1>15 DEF ShownAircraft, Shown, Needed
  <2>6. ShownAircraft' = 1 .. len /\ Needed' = 1 .. len
    BY <1>2, <1>3, <1>6, <1>15 DEF ShownAircraft, Shown, Needed, FlyWithFormation
  <2>7. Wanted(aircraft', ShownAircraft', Requested(ai'))
    BY <1>1, <1>3, <1>11, <2>4, <2>5, <2>6 DEF Wanted, id
  <2>8. Served(aircraft', Needed', Requested(ai'))
    BY <1>1, <1>3, <1>11, <2>4, <2>5, <2>6 DEF Served, id
  <2> QED
    BY <2>4, <2>7, <2>8
<1> QED
  BY <1>14, <1>15

\* The aircraft just recorded gets its identifier, and in "fly with formation" its object.
LEMMA StopRecordingMatches ==
    ASSUME MatchInv, StopRecording PROVE MatchStep
<1>1. /\ aircraft \in Seq(AircraftRecords) /\ Len(aircraft) \in Nat \ {0}
      /\ user \in DOMAIN aircraft /\ aircraft[user].id \in AircraftIds
      /\ session = "Recording" /\ user = Len(aircraft) /\ AiInv(ai) /\ IInv
  BY FlightTyped DEF MatchInv, IInv, StopRecording
<1>2. /\ session' = "Connected" /\ UNCHANGED replayMode
      /\ disturbed' = (disturbed \/ ai.requestOf[aircraft[user].id] # 0)
  BY DEF StopRecording
<1>3. PICK f \in Stored \cup (IF Len(aircraft) = 1 THEN NotStored ELSE {}) :
        aircraft' = f.list /\ user' = f.user /\ ai' = AddRecorded(ai, f.list[f.user].id)
  BY DEF StopRecording
<1>4. f \in FlightsAfterSession
  BY <1>1, <1>3 DEF FlightsAfterSession
<1>5. Named(aircraft') /\ OneRecording'
  BY <1>3, <1>4, FlightsAfterSessionNamed DEF OneRecording
<1> DEFINE x == f.list[f.user].id
<1>6. /\ f.user = user /\ DOMAIN f.list = DOMAIN aircraft
      /\ \A i \in DOMAIN aircraft : i # user => f.list[i] = aircraft[i]
      /\ x \in FreshIds \cup {aircraft[user].id}
  <2>1. CASE f \in Stored
    <3>1. PICK id \in FreshIds, rec \in BOOLEAN :
            f = [list |-> [aircraft EXCEPT ![user] = [id |-> id, recorded |-> rec]], user |-> user]
      BY <2>1 DEF Stored
    <3> QED
      BY <1>1, <3>1
  <2>2. CASE Len(aircraft) = 1 /\ f \in NotStored
    <3>1. PICK id \in FreshIds \cup {aircraft[1].id}, rec \in BOOLEAN :
            f = [list |-> <<[id |-> id, recorded |-> rec]>>, user |-> 1]
      BY <2>2 DEF NotStored
    <3>2. user = 1 /\ DOMAIN aircraft = {1}
      BY <1>1, <2>2
    <3> QED
      BY <3>1, <3>2
  <2> QED
    BY <1>3, <2>1, <2>2
<1>7. x \in AircraftIds
  BY <1>1, <1>6, FreshIsNew
<1> HIDE DEF x
<1> SUFFICES ASSUME ai'.link = "open", ~disturbed'
             PROVE  /\ Wanted(aircraft', ShownAircraft', Requested(ai'))
                    /\ Served(aircraft', Needed', Requested(ai'))
                    /\ Covered(ai')
  BY <1>5 DEF MatchStep
<1>8. ai' = IF FlyWithFormation THEN AddObject(ai, x) ELSE ai
  BY <1>3 DEF AddRecorded, x
<1>9. ai.link = "open" /\ ~disturbed /\ aircraft[user].id \notin Requested(ai)
  <2>1. ai'.link = ai.link
    BY <1>1, <1>8 DEF AddObject, AiInv, AnyAi
  <2> QED
    BY <1>1, <1>2, <2>1 DEF Requested
<1>10. /\ Wanted(aircraft, ShownAircraft, Requested(ai)) /\ Served(aircraft, Needed, Requested(ai))
       /\ Covered(ai)
  BY <1>9 DEF MatchInv, Matching
<1>11. x \notin Requested(ai)
  BY <1>6, <1>9, FreshIsNew
<1>12. aircraft'[user].id = x /\ \A i \in DOMAIN aircraft : i # user => aircraft'[i] = aircraft[i]
  BY <1>3, <1>6 DEF x
<1>13. CASE FlyWithFormation
  <2>1. Requested(ai') = Requested(ai) \cup ({x} \ {InvalidId}) /\ Covered(ai')
    BY <1>1, <1>7, <1>8, <1>9, <1>10, <1>11, <1>13, AddObjectAsks DEF Leaves
  <2>2. ShownAircraft = DOMAIN aircraft /\ Needed = DOMAIN aircraft \ {user}
    BY <1>1, <1>13 DEF ShownAircraft, Shown, Needed
  <2>3. ShownAircraft' = DOMAIN aircraft /\ Needed' = DOMAIN aircraft
    BY <1>2, <1>3, <1>6, <1>13 DEF ShownAircraft, Shown, Needed, FlyWithFormation
  <2>4. Wanted(aircraft', ShownAircraft', Requested(ai'))
    <3> SUFFICES ASSUME NEW id \in Requested(ai')
                 PROVE  id # InvalidId /\ \E i \in DOMAIN aircraft : aircraft'[i].id = id
      BY <2>3 DEF Wanted
    <3>1. CASE id = x
      BY <1>1, <1>11, <1>12, <2>1, <3>1
    <3>2. CASE id # x
      <4>1. id \in Requested(ai)
        BY <2>1, <3>2
      <4>2. PICK i \in DOMAIN aircraft : aircraft[i].id = id
        BY <1>10, <2>2, <4>1 DEF Wanted
      <4> QED
        BY <1>9, <1>10, <1>12, <4>1, <4>2 DEF Wanted
    <3> QED
      BY <3>1, <3>2
  <2>5. Served(aircraft', Needed', Requested(ai'))
    BY <1>1, <1>10, <1>12, <2>1, <2>2, <2>3 DEF Served
  <2> QED
    BY <2>1, <2>4, <2>5
<1>14. CASE ~FlyWithFormation
  <2>1. ai' = ai
    BY <1>8, <1>14
  <2>2. ShownAircraft = DOMAIN aircraft \ {user} /\ Needed = DOMAIN aircraft \ {user}
    BY <1>14 DEF ShownAircraft, Shown, Needed
  <2>3. ShownAircraft' = DOMAIN aircraft \ {user} /\ Needed' = DOMAIN aircraft \ {user}
    BY <1>2, <1>3, <1>6, <1>14 DEF ShownAircraft, Shown, Needed, FlyWithFormation
  <2>4. Wanted(aircraft', ShownAircraft', Requested(ai'))
    BY <1>10, <1>12, <2>1, <2>2, <2>3 DEF Wanted
  <2>5. Served(aircraft', Needed', Requested(ai'))
    BY <1>10, <1>12, <2>1, <2>2, <2>3 DEF Served
  <2> QED
    BY <1>10, <2>1, <2>4, <2>5
<1> QED
  BY <1>13, <1>14

\* The aircraft flown before the one that could not be stored loses its object.
LEMMA StopRecordingNotStoredMatches ==
    ASSUME MatchInv, StopRecordingNotStored PROVE MatchStep
<1> DEFINE len  == Len(aircraft)
           prev == len - 1
           y    == aircraft[prev].id
<1>1. /\ aircraft \in Seq(AircraftRecords) /\ len \in Nat /\ len > 1
      /\ user = len /\ AiInv(ai) /\ IInv /\ session = "Recording"
      /\ Named(aircraft) /\ OneRecording
  BY FlightTyped DEF MatchInv, IInv, StopRecordingNotStored
<1>2. prev \in 1 .. len /\ y \in AircraftIds /\ aircraft[user].id \in AircraftIds
  BY <1>1, FlightTyped
<1>3. /\ session' = "Connected" /\ aircraft' = Front(aircraft) /\ user' = prev
      /\ disturbed' = (disturbed \/ FlyWithFormation) /\ UNCHANGED replayMode
  BY <1>1 DEF StopRecordingNotStored
<1>4. PICK x \in FreshIds \cup {aircraft[user].id} :
        ai' = AddRecorded(RemoveObject(UpdateUserAircraft(ai, aircraft, user', 0), x),
                          aircraft[user'].id)
  BY DEF StopRecordingNotStored
<1>5. x \in AircraftIds
  BY <1>2, <1>4, FreshIsNew
<1>6. DOMAIN aircraft' = 1 .. prev /\ \A i \in 1 .. prev : aircraft'[i] = aircraft[i]
  BY <1>1, <1>3 DEF Front
<1>7. /\ DOMAIN aircraft = (1 .. prev) \cup {user} /\ user \notin 1 .. prev /\ prev \in 1 .. prev
      /\ user # prev
  BY <1>1
<1> HIDE DEF prev, y, len
<1>8. Named(aircraft')
  BY <1>1, <1>6, <1>7 DEF Named
<1>9. OneRecording'
  BY <1>1, <1>3, <1>6, <1>7 DEF OneRecording, len
<1> SUFFICES ASSUME ai'.link = "open", ~disturbed'
             PROVE  /\ Wanted(aircraft', ShownAircraft', Requested(ai'))
                    /\ Served(aircraft', Needed', Requested(ai'))
                    /\ Covered(ai')
  BY <1>8, <1>9 DEF MatchStep
<1>10. ~disturbed /\ ~FlyWithFormation
  BY <1>3
<1> DEFINE a == RemoveObject(ai, y)
<1>11. ai' = RemoveObject(a, x)
  BY <1>3, <1>4, <1>10 DEF UpdateUserAircraft, AddRecorded, y
<1>12. AiInv(a) /\ Leaves(ai, a, Requested(ai) \ {y})
  BY <1>1, <1>2, RemoveObjectOK, RemoveObjectForgets
<1> HIDE DEF a
<1>13. Leaves(a, ai', Requested(a) \ {x})
  BY <1>5, <1>11, <1>12, RemoveObjectForgets
<1>14. ai.link = "open" /\ (Covered(ai) => Covered(ai'))
       /\ Requested(ai') = (Requested(ai) \ {y}) \ {x}
  BY <1>12, <1>13 DEF Leaves
<1>15. /\ Wanted(aircraft, ShownAircraft, Requested(ai)) /\ Served(aircraft, Needed, Requested(ai))
       /\ Covered(ai)
  BY <1>10, <1>14 DEF MatchInv, Matching
<1>16. x \notin Requested(ai)
  BY <1>4, <1>10, <1>14, FreshIsNew, UserIsNotAsked
<1>17. Requested(ai') = Requested(ai) \ {y}
  BY <1>14, <1>16
<1>18. ShownAircraft = 1 .. prev /\ Needed = 1 .. prev
  BY <1>7, <1>10 DEF ShownAircraft, Shown, Needed
<1>19. ShownAircraft' = (1 .. prev) \ {prev} /\ Needed' = (1 .. prev) \ {prev}
  BY <1>3, <1>6, <1>10 DEF ShownAircraft, Shown, Needed, FlyWithFormation
<1>20. Wanted(aircraft', ShownAircraft', Requested(ai'))
  BY <1>6, <1>15, <1>17, <1>18, <1>19 DEF Wanted, y
<1>21. Served(aircraft', Needed', Requested(ai'))
  BY <1>1, <1>6, <1>7, <1>15, <1>17, <1>18, <1>19 DEF Served, Named, y
<1> QED
  BY <1>14, <1>15, <1>20, <1>21

LEMMA StoredFlightNamed ==
    ASSUME NEW list \in StoredFlights
    PROVE  /\ Named(list) /\ Len(list) \in Nat \ {0}
           /\ \A i \in DOMAIN list : list[i].id \in Ids /\ list[i].id # RecordingId
<1>1. PICK n \in 1 .. MaxAircraft :
        /\ list \in [1 .. n -> [id : Ids, recorded : {TRUE}]]
        /\ \A i, j \in DOMAIN list : i < j => list[i].id < list[j].id
  BY DEF StoredFlights
<1>2. n \in Nat \ {0} /\ DOMAIN list = 1 .. n
  BY <1>1, BoundsAssumption
<1>3. \A i \in 1 .. n : list[i] \in [id : Ids, recorded : {TRUE}]
  BY <1>1
<1>4. \A i \in 1 .. n : list[i].id \in Ids /\ list[i].id \in Nat \ {0}
  BY <1>3, IdsAssumption
<1>5. Named(list)
  <2> SUFFICES ASSUME NEW i \in 1 .. n, NEW j \in 1 .. n, list[i].id = list[j].id PROVE i = j
    BY <1>2 DEF Named
  <2>1. ~(i < j) /\ ~(j < i)
    BY <1>1, <1>2, <1>4
  <2> QED
    BY <1>2, <2>1
<1> QED
  BY <1>2, <1>4, <1>5, StoredFlightTyped DEF RecordingId

LEMMA RestoreMatches ==
    ASSUME MatchInv, NEW list \in StoredFlights, NEW u \in DOMAIN list, Restore(list, u)
    PROVE  MatchStep
<1> DEFINE a == RemoveAllObjects(ai)
<1>1. AiInv(a) /\ a.link = ai.link /\ Requested(a) = {} /\ Covered(a)
  BY RemoveAllObjectsOK, RemoveAllObjectsForgets DEF MatchInv, IInv
<1>2. /\ aircraft' = list /\ user' = u /\ UNCHANGED <<session, replayMode>>
      /\ ai' = CreateAiObjects(a, list, u)
  BY DEF Restore, SyncAiObjectsWithFlight
<1>3. list \in Seq(AircraftRecords) /\ Named(list)
  BY StoredFlightTyped, StoredFlightNamed
<1>4. OneRecording'
  BY <1>2, StoredFlightNamed DEF OneRecording
<1> HIDE DEF a
<1> SUFFICES ASSUME ai'.link = "open"
             PROVE  /\ Wanted(aircraft', ShownAircraft', Requested(ai'))
                    /\ Served(aircraft', Needed', Requested(ai'))
                    /\ Covered(ai')
  BY <1>2, <1>3, <1>4 DEF MatchStep
<1>5. a.link = "open"
  BY <1>2 DEF CreateAiObjects, AddObjects
<1>6. Requested(ai') = IdsOf(list, ShownIn(list, u)) /\ Covered(ai')
  BY <1>1, <1>2, <1>3, <1>5, CreateAiObjectsAsks
<1>7. ShownAircraft' = ShownIn(list, u) /\ Needed' \in SUBSET ShownAircraft'
  BY <1>2 DEF ShownAircraft, Shown, ShownIn, FlyWithFormation, Needed
<1> QED
  BY <1>2, <1>6, <1>7, ExactlyShown

\* Only a flight of one aircraft, which needs no object, is imported without disturbing.
LEMMA ImportFlightMatches ==
    ASSUME MatchInv, NEW list \in StoredFlights, NEW u \in DOMAIN list, ImportFlight(list, u)
    PROVE  MatchStep
<1> DEFINE unstored == [i \in DOMAIN list |-> [list[i] EXCEPT !.id = InvalidId]]
<1>1. /\ aircraft' \in {list, unstored} /\ user' = u /\ UNCHANGED <<session, replayMode>>
      /\ ai' = RemoveAllObjects(ai) /\ disturbed' = (FlyWithFormation \/ Len(list) > 1)
  BY DEF ImportFlight
<1>2. /\ Named(list) /\ Len(list) \in Nat \ {0} /\ list \in Seq(AircraftRecords)
      /\ \A i \in DOMAIN list : list[i].id # RecordingId
  BY StoredFlightNamed, StoredFlightTyped
<1>3. \A i \in DOMAIN list : unstored[i].id = InvalidId
  <2>1. \A i \in DOMAIN list : list[i] \in AircraftRecords
    BY <1>2
  <2> QED
    BY <2>1 DEF AircraftRecords
<1>4. DOMAIN unstored = DOMAIN list
  OBVIOUS
<1> HIDE DEF unstored
<1>5. Named(unstored) /\ \A i \in DOMAIN unstored : unstored[i].id # RecordingId
  BY <1>3, <1>4 DEF Named, InvalidId, RecordingId
<1>6. Named(aircraft') /\ OneRecording' /\ DOMAIN aircraft' = DOMAIN list
  BY <1>1, <1>2, <1>4, <1>5 DEF OneRecording
<1> SUFFICES ASSUME ~disturbed'
             PROVE  /\ Wanted(aircraft', ShownAircraft', Requested(ai'))
                    /\ Served(aircraft', Needed', Requested(ai'))
                    /\ Covered(ai')
  BY <1>6 DEF MatchStep
<1>7. Requested(ai') = {} /\ Covered(ai')
  BY <1>1, RemoveAllObjectsForgets DEF MatchInv, IInv
<1>8. ShownAircraft' = {}
  <2>1. Len(list) = 1 /\ ~FlyWithFormation
    <3>1. ~(Len(list) > 1) /\ ~FlyWithFormation
      BY <1>1
    <3> DEFINE n == Len(list)
    <3>2. n \in Nat \ {0} /\ ~(n > 1)
      BY <1>2, <3>1
    <3> HIDE DEF n
    <3>3. n = 1
      BY <3>2
    <3> QED
      BY <3>1, <3>3 DEF n
  <2>2. DOMAIN list = {1} /\ u = 1
    BY <1>2, <2>1
  <2> QED
    BY <1>1, <1>6, <2>1, <2>2 DEF ShownAircraft, Shown, FlyWithFormation
<1> QED
  BY <1>7, <1>8 DEF Wanted, Served, Needed

\* Aircraft that are added all get an object.
LEMMA ImportAircraftMatches ==
    ASSUME MatchInv, NEW list \in StoredFlights, ImportAircraft(list) PROVE MatchStep
<1> DEFINE len == Len(aircraft)
           more == Len(list)
<1>1. /\ aircraft \in Seq(AircraftRecords) /\ len \in Nat /\ user \in 1 .. len
      /\ Named(aircraft) /\ OneRecording /\ AiInv(ai) /\ DOMAIN aircraft = 1 .. len
  BY FlightTyped DEF MatchInv, IInv
<1>2. /\ list \in Seq(AircraftRecords) /\ more \in Nat /\ Named(list) /\ DOMAIN list = 1 .. more
      /\ \A i \in DOMAIN list : list[i].id # RecordingId
  BY StoredFlightNamed, StoredFlightTyped
<1>3. /\ session # "Recording" /\ UNCHANGED <<session, replayMode, user, disturbed>>
      /\ \A i \in DOMAIN list : list[i].id \in FreshIds
      /\ aircraft' = aircraft \o list
      /\ ai' = AddObjects(ai, list, DOMAIN list)
  BY DEF ImportAircraft
<1>4. \A i \in DOMAIN list : /\ list[i].id \notin Requested(ai) /\ list[i].id # InvalidId
                             /\ \A j \in DOMAIN aircraft : aircraft[j].id # list[i].id
  BY <1>3, FreshIsNew
<1>5. /\ DOMAIN aircraft' = 1 .. len + more
      /\ \A i \in 1 .. len : aircraft'[i] = aircraft[i]
      /\ \A i \in 1 .. more : aircraft'[len + i] = list[i]
  BY <1>1, <1>2, <1>3
<1> HIDE DEF len, more
<1>6. \A i \in DOMAIN aircraft' :
         (i \in 1 .. len /\ aircraft'[i] = aircraft[i])
         \/ (i - len \in 1 .. more /\ aircraft'[i] = list[i - len])
  <2> SUFFICES ASSUME NEW i \in 1 .. len + more, i \notin 1 .. len
               PROVE  i - len \in 1 .. more /\ aircraft'[i] = list[i - len]
    BY <1>5
  <2>1. i - len \in 1 .. more /\ i = len + (i - len)
    BY <1>1, <1>2
  <2> QED
    BY <1>5, <2>1
<1>7. Named(aircraft')
  <2> SUFFICES ASSUME NEW i \in DOMAIN aircraft', NEW j \in DOMAIN aircraft',
                      aircraft'[i].id = aircraft'[j].id, aircraft'[i].id # InvalidId
               PROVE  i = j
    BY DEF Named
  <2>1. i \in 1 .. len + more /\ j \in 1 .. len + more
    BY <1>5
  <2>2. CASE i \in 1 .. len /\ j \in 1 .. len
    BY <1>1, <1>5, <2>2 DEF Named
  <2>3. CASE i \notin 1 .. len /\ j \notin 1 .. len
    <3>1. /\ i - len \in DOMAIN list /\ aircraft'[i] = list[i - len]
          /\ j - len \in DOMAIN list /\ aircraft'[j] = list[j - len]
      BY <1>2, <1>6, <2>3
    <3>2. i - len = j - len
      BY <1>2, <3>1 DEF Named
    <3> QED
      BY <1>1, <1>2, <2>1, <3>2
  <2>4. ASSUME NEW p \in DOMAIN aircraft', NEW q \in DOMAIN aircraft', p \in 1 .. len,
               q \notin 1 .. len
        PROVE  aircraft'[p].id # aircraft'[q].id
    <3>1. aircraft'[p] = aircraft[p] /\ q - len \in DOMAIN list /\ aircraft'[q] = list[q - len]
      BY <1>2, <1>5, <1>6, <2>4
    <3> QED
      BY <1>1, <1>4, <2>4, <3>1
  <2> QED
    BY <2>2, <2>3, <2>4
<1>8. OneRecording'
  <2> SUFFICES ASSUME NEW i \in DOMAIN aircraft' PROVE aircraft'[i].id # RecordingId
    BY DEF OneRecording
  <2> QED
    BY <1>1, <1>2, <1>3, <1>6 DEF OneRecording
<1> SUFFICES ASSUME ai'.link = "open", ~disturbed'
             PROVE  /\ Wanted(aircraft', ShownAircraft', Requested(ai'))
                    /\ Served(aircraft', Needed', Requested(ai'))
                    /\ Covered(ai')
  BY <1>7, <1>8 DEF MatchStep
<1>9. ai.link = "open" /\ ~disturbed
  BY <1>3 DEF AddObjects
<1>10. /\ Wanted(aircraft, ShownAircraft, Requested(ai)) /\ Served(aircraft, Needed, Requested(ai))
       /\ Covered(ai)
  BY <1>9 DEF MatchInv, Matching
<1>11. Requested(ai') = Requested(ai) \cup IdsOf(list, DOMAIN list) /\ Covered(ai')
  <2>1. Leaves(ai, AddObjects(ai, list, DOMAIN list), Requested(ai) \cup IdsOf(list, DOMAIN list))
    <3> DEFINE which == DOMAIN list
    <3>1. which \in SUBSET DOMAIN list /\ \A i \in which : list[i].id \notin Requested(ai)
      BY <1>4
    <3> HIDE DEF which
    <3>2. Leaves(ai, AddObjects(ai, list, which), Requested(ai) \cup IdsOf(list, which))
      BY <1>1, <1>2, <1>9, <3>1, AddObjectsAsks
    <3> QED
      BY <3>2 DEF which
  <2> QED
    BY <1>3, <1>10, <2>1 DEF Leaves
<1>12. user \notin len + 1 .. len + more /\ DOMAIN aircraft \subseteq DOMAIN aircraft'
       /\ \A i \in 1 .. more : len + i \in DOMAIN aircraft' /\ len + i # user
  BY <1>1, <1>2, <1>5
<1>13. /\ \A i \in DOMAIN aircraft : i \in ShownAircraft => i \in ShownAircraft'
       /\ \A i \in 1 .. more : len + i \in ShownAircraft'
  BY <1>3, <1>12 DEF ShownAircraft, Shown, FlyWithFormation
<1>14. Wanted(aircraft', ShownAircraft', Requested(ai'))
  <2> SUFFICES ASSUME NEW id \in Requested(ai')
               PROVE  id # InvalidId /\ \E i \in ShownAircraft' : aircraft'[i].id = id
    BY DEF Wanted
  <2>1. CASE id \in Requested(ai)
    <3>1. PICK i \in ShownAircraft : aircraft[i].id = id
      BY <1>10, <2>1 DEF Wanted
    <3>2. i \in 1 .. len /\ i \in ShownAircraft'
      BY <1>1, <1>13 DEF ShownAircraft
    <3> QED
      BY <1>5, <1>10, <2>1, <3>1, <3>2 DEF Wanted
  <2>2. CASE id \in IdsOf(list, DOMAIN list)
    <3>1. PICK i \in 1 .. more : list[i].id = id
      BY <1>2, <2>2 DEF IdsOf
    <3> QED
      BY <1>2, <1>4, <1>5, <1>13, <3>1
  <2> QED
    BY <1>11, <2>1, <2>2
<1>15. Served(aircraft', Needed', Requested(ai'))
  <2> SUFFICES ASSUME NEW i \in Needed', aircraft'[i].recorded, aircraft'[i].id # InvalidId
               PROVE  aircraft'[i].id \in Requested(ai')
    BY DEF Served
  <2>1. i \in DOMAIN aircraft'
    BY DEF Needed, ShownAircraft
  <2>2. CASE i \in 1 .. len
    <3>1. i \in Needed
      BY <1>1, <1>3, <2>2 DEF Needed, ShownAircraft, Shown, FlyWithFormation
    <3> QED
      BY <1>5, <1>10, <1>11, <2>2, <3>1 DEF Served
  <2>3. CASE i \notin 1 .. len
    <3>1. i - len \in DOMAIN list /\ aircraft'[i] = list[i - len]
      BY <1>2, <1>6, <2>1, <2>3
    <3>2. list[i - len].id \in IdsOf(list, DOMAIN list)
      BY <1>4, <3>1 DEF IdsOf
    <3> QED
      BY <1>11, <3>1, <3>2
  <2> QED
    BY <2>2, <2>3
<1> QED
  BY <1>11, <1>14, <1>15

\* The objects of the two user aircraft change places.
LEMMA SwitchUserAircraftMatches ==
    ASSUME MatchInv, NEW i \in DOMAIN aircraft, SwitchUserAircraft(i) PROVE MatchStep
<1> DEFINE old == aircraft[user].id
           new == aircraft[i].id
           a   == RemoveObject(ai, new)
<1>1. /\ user \in DOMAIN aircraft /\ user # 0 /\ old \in AircraftIds /\ new \in AircraftIds
      /\ Named(aircraft) /\ OneRecording /\ AiInv(ai)
  BY FlightTyped DEF MatchInv, IInv
<1>2. /\ session # "Recording" /\ i # user /\ user' = i
      /\ UNCHANGED <<session, replayMode, aircraft, disturbed>>
      /\ ai' = IF FlyWithFormation THEN ai ELSE AddObject(a, old)
  BY <1>1 DEF SwitchUserAircraft, UpdateUserAircraft
<1>3. Named(aircraft') /\ OneRecording'
  BY <1>1, <1>2 DEF OneRecording
<1>4. AiInv(a) /\ Leaves(ai, a, Requested(ai) \ {new})
  BY <1>1, RemoveObjectOK, RemoveObjectForgets
<1> HIDE DEF a, old, new
<1> SUFFICES ASSUME ai'.link = "open", ~disturbed'
             PROVE  /\ Wanted(aircraft', ShownAircraft', Requested(ai'))
                    /\ Served(aircraft', Needed', Requested(ai'))
                    /\ Covered(ai')
  BY <1>3 DEF MatchStep
<1>5. ai.link = "open" /\ ~disturbed
  <2>1. ai'.link = ai.link
    BY <1>2, <1>4 DEF AddObject, Leaves, AiInv, AnyAi
  <2> QED
    BY <1>2, <2>1
<1>6. /\ Wanted(aircraft, ShownAircraft, Requested(ai)) /\ Served(aircraft, Needed, Requested(ai))
      /\ Covered(ai)
  BY <1>5 DEF MatchInv, Matching
<1>7. CASE FlyWithFormation
  <2>1. ai' = ai /\ ShownAircraft' = ShownAircraft /\ Needed' = Needed
    BY <1>2, <1>7 DEF ShownAircraft, Shown, Needed, FlyWithFormation
  <2> QED
    BY <1>2, <1>6, <2>1
<1>8. CASE ~FlyWithFormation
  <2>1. old \notin Requested(ai)
    BY <1>5, <1>8, UserIsNotAsked DEF old
  <2>2. a.link = "open" /\ Requested(a) = Requested(ai) \ {new} /\ Covered(a)
    BY <1>4, <1>5, <1>6 DEF Leaves
  <2>3. ai' = AddObject(a, old) /\ old \notin Requested(a)
    BY <1>2, <1>8, <2>1, <2>2
  <2>4. Requested(ai') = (Requested(ai) \ {new}) \cup ({old} \ {InvalidId}) /\ Covered(ai')
    BY <1>1, <1>4, <2>2, <2>3, AddObjectAsks DEF Leaves
  <2>5. ShownAircraft = DOMAIN aircraft \ {user} /\ Needed = DOMAIN aircraft \ {user}
    BY <1>8 DEF ShownAircraft, Shown, Needed
  <2>6. ShownAircraft' = DOMAIN aircraft \ {i} /\ Needed' = DOMAIN aircraft \ {i}
    BY <1>2, <1>8 DEF ShownAircraft, Shown, Needed, FlyWithFormation
  <2>7. Wanted(aircraft', ShownAircraft', Requested(ai'))
    BY <1>1, <1>2, <1>6, <2>4, <2>5, <2>6 DEF Wanted, old, new
  <2>8. Served(aircraft', Needed', Requested(ai'))
    BY <1>1, <1>2, <1>6, <2>4, <2>5, <2>6 DEF Served, Named, old, new
  <2> QED
    BY <2>4, <2>7, <2>8
<1> QED
  BY <1>7, <1>8

\* list without its aircraft i: each of the others is there, once.
LEMMA RemoveAtEffect ==
    ASSUME NEW list \in Seq(AircraftRecords), NEW i \in 1 .. Len(list)
    PROVE  /\ DOMAIN RemoveAt(list, i) = 1 .. Len(list) - 1
           /\ \A j \in 1 .. Len(list) - 1 :
                RemoveAt(list, i)[j] = IF j < i THEN list[j] ELSE list[j + 1]
<1> DEFINE head == SubSeq(list, 1, i - 1)
           tail == SubSeq(list, i + 1, Len(list))
<1>1. /\ head \in Seq(AircraftRecords) /\ Len(head) = i - 1
      /\ \A j \in 1 .. i - 1 : head[j] = list[j]
  OBVIOUS
<1>2. /\ tail \in Seq(AircraftRecords) /\ Len(tail) = Len(list) - i
      /\ \A j \in 1 .. Len(list) - i : tail[j] = list[j + i]
  OBVIOUS
<1> HIDE DEF head, tail
<1>3. /\ head \o tail \in Seq(AircraftRecords) /\ Len(head \o tail) = Len(head) + Len(tail)
      /\ \A j \in 1 .. Len(head) + Len(tail) :
           (head \o tail)[j] = IF j <= Len(head) THEN head[j] ELSE tail[j - Len(head)]
  BY <1>1, <1>2, ConcatProperties
<1>4. Len(head) + Len(tail) = Len(list) - 1
  BY <1>1, <1>2
<1>5. ASSUME NEW j \in 1 .. Len(list) - 1
      PROVE  (head \o tail)[j] = IF j < i THEN list[j] ELSE list[j + 1]
  <2>1. (head \o tail)[j] = IF j <= i - 1 THEN head[j] ELSE tail[j - (i - 1)]
    BY <1>1, <1>3, <1>4
  <2>2. CASE j < i
    BY <1>1, <2>1, <2>2
  <2>3. CASE ~(j < i)
    <3>1. j - (i - 1) \in 1 .. Len(list) - i /\ (j - (i - 1)) + i = j + 1
      BY <2>3
    <3>2. tail[j - (i - 1)] = list[j + 1]
      BY <1>2, <3>1
    <3> QED
      BY <2>1, <2>3, <3>2
  <2> QED
    BY <2>2, <2>3
<1>6. RemoveAt(list, i) = head \o tail
  BY DEF RemoveAt, head, tail
<1> DEFINE without == head \o tail
<1>7. without \in Seq(AircraftRecords) /\ Len(without) = Len(list) - 1
  BY <1>3, <1>4
<1>8. \A j \in 1 .. Len(list) - 1 : without[j] = IF j < i THEN list[j] ELSE list[j + 1]
  BY <1>5
<1> HIDE DEF without
<1>9. DOMAIN without = 1 .. Len(list) - 1
  BY <1>7
<1>10. RemoveAt(list, i) = without
  BY <1>6 DEF without
<1> QED
  BY <1>8, <1>9, <1>10

\* The aircraft removed loses its object, and so does the one that becomes the user aircraft.
LEMMA RemoveAircraftMatches ==
    ASSUME MatchInv, NEW i \in DOMAIN aircraft, RemoveAircraft(i) PROVE MatchStep
<1> DEFINE len     == Len(aircraft)
           Old(j)  == IF j < i THEN j ELSE j + 1
           heir    == IF i # user THEN user ELSE IF user > 1 THEN user - 1 ELSE 2
           updated == IF i = user /\ user' # user
                      THEN UpdateUserAircraft(ai, aircraft, user', 0)
                      ELSE ai
           gone    == aircraft[i].id
           left    == aircraft[heir].id
           others  == DOMAIN aircraft \ {i}
<1>1. /\ aircraft \in Seq(AircraftRecords) /\ len \in Nat /\ user \in 1 .. len
      /\ Named(aircraft) /\ OneRecording /\ AiInv(ai) /\ DOMAIN aircraft = 1 .. len
      /\ gone \in AircraftIds
  BY FlightTyped DEF MatchInv, IInv
<1>2. /\ session # "Recording" /\ len > 1 /\ UNCHANGED <<session, replayMode>>
      /\ aircraft' = RemoveAt(aircraft, i)
      /\ user' = UserAfterRemoval(i)
      /\ disturbed' = (disturbed \/ (i = user /\ user = 1 /\ ~FlyWithFormation))
      /\ ai' = RemoveObject(updated, gone)
  BY DEF RemoveAircraft
<1>3. heir \in others /\ left \in AircraftIds
  <2>1. heir \in 1 .. len /\ heir # i
    BY <1>1, <1>2
  <2> QED
    BY <1>1, <2>1, FlightTyped DEF MatchInv
<1>4. DOMAIN aircraft' = 1 .. len - 1 /\ \A j \in 1 .. len - 1 : aircraft'[j] = aircraft[Old(j)]
  BY <1>1, <1>2, RemoveAtEffect
<1>5. \A j \in 1 .. len - 1 : Old(j) \in others /\ (j = user' <=> Old(j) = heir)
  BY <1>1, <1>2 DEF UserAfterRemoval
<1>6. \A k \in others : \E j \in 1 .. len - 1 : Old(j) = k
  <2> TAKE k \in others
  <2>1. CASE k < i
    <3>1. k \in 1 .. len - 1 /\ Old(k) = k
      BY <1>1, <2>1
    <3> QED
      BY <3>1
  <2>2. CASE k > i
    <3>1. k - 1 \in 1 .. len - 1 /\ Old(k - 1) = k
      BY <1>1, <2>2
    <3> QED
      BY <3>1
  <2> QED
    BY <1>1, <2>1, <2>2
<1>7. \A j, m \in 1 .. len - 1 : Old(j) = Old(m) => j = m
  BY <1>1
<1>8. user' \in 1 .. len - 1 /\ (user' # user /\ i = user => user' = heir)
      /\ (i = user /\ user' = user => user = 1)
  BY <1>1, <1>2 DEF UserAfterRemoval
<1>9. i = user \/ heir = user
  OBVIOUS
<1> HIDE DEF len, Old, heir, updated, gone, left
<1>10. Named(aircraft')
  <2> SUFFICES ASSUME NEW j \in 1 .. len - 1, NEW m \in 1 .. len - 1,
                      aircraft'[j].id = aircraft'[m].id, aircraft'[j].id # InvalidId
               PROVE  j = m
    BY <1>4 DEF Named
  <2>1. Old(j) = Old(m)
    BY <1>1, <1>4, <1>5 DEF Named
  <2> QED
    BY <1>7, <2>1
<1>11. OneRecording'
  BY <1>1, <1>2, <1>4, <1>5 DEF OneRecording
<1> SUFFICES ASSUME ai'.link = "open", ~disturbed'
             PROVE  /\ Wanted(aircraft', ShownAircraft', Requested(ai'))
                    /\ Served(aircraft', Needed', Requested(ai'))
                    /\ Covered(ai')
  BY <1>10, <1>11 DEF MatchStep
<1> DEFINE extra == IF FlyWithFormation \/ i # user THEN {} ELSE {left}
<1>12. ~disturbed /\ ~(i = user /\ user = 1 /\ ~FlyWithFormation)
  BY <1>2
<1>13. updated = IF FlyWithFormation \/ i # user THEN ai ELSE RemoveObject(ai, left)
  <2>1. CASE i # user
    BY <2>1 DEF updated
  <2>2. CASE i = user /\ FlyWithFormation
    BY <2>2 DEF updated, UpdateUserAircraft
  <2>3. CASE i = user /\ ~FlyWithFormation
    <3>1. user' # user /\ user' = heir
      BY <1>8, <1>12, <2>3
    <3> QED
      BY <2>3, <3>1 DEF updated, UpdateUserAircraft, left
  <2> QED
    BY <2>1, <2>2, <2>3
<1>14. AiInv(updated) /\ Leaves(ai, updated, Requested(ai) \ extra)
  <2>1. CASE FlyWithFormation \/ i # user
    BY <1>1, <1>13, <2>1 DEF Leaves
  <2>2. CASE ~(FlyWithFormation \/ i # user)
    BY <1>1, <1>3, <1>13, <2>2, RemoveObjectOK, RemoveObjectForgets
  <2> QED
    BY <2>1, <2>2
<1> HIDE DEF extra
<1>15. Leaves(updated, ai', Requested(updated) \ {gone})
  BY <1>1, <1>2, <1>14, RemoveObjectForgets
<1>16. ai.link = "open" /\ (Covered(ai) => Covered(ai'))
       /\ Requested(ai') = (Requested(ai) \ extra) \ {gone}
  BY <1>14, <1>15 DEF Leaves
<1>17. /\ Wanted(aircraft, ShownAircraft, Requested(ai)) /\ Served(aircraft, Needed, Requested(ai))
       /\ Covered(ai)
  BY <1>12, <1>16 DEF MatchInv, Matching
<1>18. ~FlyWithFormation => left \notin Requested(ai')
  <2>1. CASE FlyWithFormation \/ i = user
    BY <1>16, <2>1 DEF extra
  <2>2. CASE ~FlyWithFormation /\ i # user
    BY <1>9, <1>12, <1>16, <2>2, UserIsNotAsked DEF left
  <2> QED
    BY <2>1, <2>2
<1>19. \A k \in DOMAIN aircraft : k \in Needed <=> (k # user \/ FlyWithFormation)
  BY <1>2 DEF ShownAircraft, Shown, Needed
<1>20. \A j \in 1 .. len - 1 : /\ j \in ShownAircraft' <=> (Old(j) # heir \/ FlyWithFormation)
                               /\ j \in Needed' <=> (Old(j) # heir \/ FlyWithFormation)
  BY <1>2, <1>4, <1>5 DEF ShownAircraft, Shown, Needed, FlyWithFormation
<1>21. Wanted(aircraft', ShownAircraft', Requested(ai'))
  <2> SUFFICES ASSUME NEW id \in Requested(ai')
               PROVE  id # InvalidId /\ \E j \in ShownAircraft' : aircraft'[j].id = id
    BY DEF Wanted
  <2>1. id \in Requested(ai) /\ id # gone
    BY <1>16
  <2>2. PICK k \in ShownAircraft : aircraft[k].id = id
    BY <1>17, <2>1 DEF Wanted
  <2>3. k \in others
    BY <2>1, <2>2 DEF ShownAircraft, gone
  <2>4. PICK j \in 1 .. len - 1 : Old(j) = k
    BY <1>6, <2>3
  <2>5. k # heir \/ FlyWithFormation
    BY <1>18, <2>2 DEF left
  <2>6. j \in ShownAircraft' /\ aircraft'[j].id = id
    BY <1>4, <1>20, <2>2, <2>4, <2>5
  <2> QED
    BY <1>17, <2>1, <2>6 DEF Wanted
<1>22. Served(aircraft', Needed', Requested(ai'))
  <2> SUFFICES ASSUME NEW j \in Needed', aircraft'[j].recorded, aircraft'[j].id # InvalidId
               PROVE  aircraft'[j].id \in Requested(ai')
    BY DEF Served
  <2>1. j \in 1 .. len - 1
    BY <1>4 DEF Needed, ShownAircraft
  <2> DEFINE k == Old(j)
  <2>2. k \in others /\ aircraft'[j] = aircraft[k] /\ (k # heir \/ FlyWithFormation)
    BY <1>4, <1>5, <1>20, <2>1
  <2> HIDE DEF k
  <2>3. k \in Needed
    BY <1>9, <1>19, <2>2
  <2>4. aircraft[k].id \in Requested(ai)
    BY <1>17, <2>2, <2>3 DEF Served
  <2>5. aircraft[k].id # gone
    BY <1>1, <2>2 DEF Named, gone
  <2>6. aircraft[k].id \notin extra
    BY <1>1, <1>3, <2>2 DEF Named, extra, left
  <2> QED
    BY <1>16, <2>2, <2>4, <2>5, <2>6
<1> QED
  BY <1>16, <1>17, <1>21, <1>22

\* An aircraft that gets a new tail number is shown, and keeps its request.
LEMMA ChangeTailNumberMatches ==
    ASSUME MatchInv, NEW i \in DOMAIN aircraft, ChangeTailNumber(i) PROVE MatchStep
<1> DEFINE id == aircraft[i].id
           a  == RemoveObject(ai, id)
<1>1. id \in AircraftIds /\ Named(aircraft) /\ OneRecording /\ AiInv(ai)
  BY FlightTyped DEF MatchInv, IInv
<1>2. /\ id # InvalidId /\ ai' = AddObject(a, id)
      /\ disturbed' = (disturbed \/ (i = user /\ ~FlyWithFormation))
      /\ UNCHANGED <<session, replayMode, aircraft, user>>
  BY DEF ChangeTailNumber
<1>3. Named(aircraft') /\ OneRecording'
  BY <1>1, <1>2 DEF OneRecording
<1>4. AiInv(a) /\ Leaves(ai, a, Requested(ai) \ {id})
  BY <1>1, RemoveObjectOK, RemoveObjectForgets
<1> HIDE DEF a
<1> SUFFICES ASSUME ai'.link = "open", ~disturbed'
             PROVE  /\ Wanted(aircraft', ShownAircraft', Requested(ai'))
                    /\ Served(aircraft', Needed', Requested(ai'))
                    /\ Covered(ai')
  BY <1>3 DEF MatchStep
<1>5. a.link = "open" /\ ai.link = "open" /\ ~disturbed /\ Shown(i)
  <2>1. ai'.link = a.link
    BY <1>2, <1>4 DEF AddObject, AiInv, AnyAi
  <2>2. ~disturbed /\ Shown(i)
    BY <1>2 DEF Shown
  <2> QED
    BY <1>4, <2>1, <2>2 DEF Leaves
<1>6. /\ Wanted(aircraft, ShownAircraft, Requested(ai)) /\ Served(aircraft, Needed, Requested(ai))
      /\ Covered(ai)
  BY <1>5 DEF MatchInv, Matching
<1>7. Requested(a) = Requested(ai) \ {id} /\ Covered(a)
  BY <1>4, <1>6 DEF Leaves
<1>8. Requested(ai') = (Requested(ai) \ {id}) \cup ({id} \ {InvalidId}) /\ Covered(ai')
  <2>1. id \notin Requested(a)
    BY <1>7
  <2> QED
    BY <1>1, <1>2, <1>4, <1>5, <1>7, <2>1, AddObjectAsks DEF Leaves
<1>9. ShownAircraft' = ShownAircraft /\ Needed' = Needed /\ i \in ShownAircraft
  BY <1>2, <1>5 DEF ShownAircraft, Shown, Needed, FlyWithFormation
<1>10. Wanted(aircraft', ShownAircraft', Requested(ai'))
  BY <1>2, <1>6, <1>8, <1>9 DEF Wanted
<1>11. Served(aircraft', Needed', Requested(ai'))
  BY <1>2, <1>6, <1>8, <1>9 DEF Served
<1> QED
  BY <1>8, <1>10, <1>11

\* The simulator does not change what is requested; an answer is registered for a request.
LEMMA SimulatorMatches ==
    ASSUME MatchInv, (\E r \in Requests : Create(r) \/ Refuse(r) \/ DispatchAssigned(r)) \/ Crash
    PROVE  MatchStep
<1>1. Named(aircraft) /\ OneRecording /\ AiInv(ai)
  BY DEF MatchInv, IInv
<1>2. UNCHANGED <<session, replayMode, aircraft, user, disturbed>>
  BY DEF Create, Refuse, DispatchAssigned, Crash, SimUnchanged
<1>3. Named(aircraft') /\ OneRecording'
  BY <1>1, <1>2 DEF OneRecording
<1>4. ShownAircraft' = ShownAircraft /\ Needed' = Needed
  BY <1>2 DEF ShownAircraft, Shown, Needed, FlyWithFormation
<1>5. ASSUME ai'.link = ai.link, ai'.requestOf = ai.requestOf, Covered(ai) => Covered(ai')
      PROVE  MatchStep
  <2>1. Requested(ai') = Requested(ai)
    BY <1>5 DEF Requested
  <2>2. ai'.link = "open" /\ ~disturbed' =>
          /\ Wanted(aircraft, ShownAircraft, Requested(ai))
          /\ Served(aircraft, Needed, Requested(ai)) /\ Covered(ai)
    BY <1>2, <1>5 DEF MatchInv, Matching
  <2> QED
    BY <1>2, <1>3, <1>4, <1>5, <2>1, <2>2 DEF MatchStep
<1>6. ASSUME NEW r \in Requests, Create(r) PROVE MatchStep
  <2>1. ai'.link = ai.link /\ ai'.requestOf = ai.requestOf /\ ai'.registered = ai.registered
    BY <1>1, <1>6 DEF Create, AiInv, AnyAi
  <2> QED
    BY <1>5, <2>1 DEF Covered
<1>7. ASSUME NEW r \in Requests, Refuse(r) PROVE MatchStep
  <2>1. ai'.link = ai.link /\ ai'.requestOf = ai.requestOf /\ ai'.registered = ai.registered
    BY <1>1, <1>7 DEF Refuse, AiInv, AnyAi
  <2> QED
    BY <1>5, <2>1 DEF Covered
<1>8. ASSUME NEW r \in Requests, DispatchAssigned(r) PROVE MatchStep
  <2> DEFINE known == \E id \in AircraftIds : ai.requestOf[id] = r
  <2>1. /\ ai'.link = ai.link /\ ai'.requestOf = ai.requestOf
        /\ ai'.registered = IF known THEN ai.registered \cup {r} ELSE ai.registered
    BY <1>1, <1>8 DEF DispatchAssigned, RegisterObject, AiInv, AnyAi
  <2>2. Covered(ai) => Covered(ai')
    BY <2>1 DEF Covered
  <2> QED
    BY <1>5, <2>1, <2>2
<1>9. CASE Crash
  <2>1. ai'.link = "stale"
    BY <1>1, <1>9 DEF Crash, AiInv, AnyAi
  <2> QED
    BY <1>3, <2>1 DEF MatchStep
<1> QED
  BY <1>6, <1>7, <1>8, <1>9

LEMMA NextMatches ==
    ASSUME MatchInv, Next PROVE MatchStep
<1>1. CASE Connect
  BY <1>1, ConnectMatches DEF Connect
<1>2. CASE Disconnect
  BY <1>2, EndSessionMatches DEF Disconnect
<1>3. CASE Reconnect
  BY <1>3, ConnectMatches, EndSessionMatches DEF Reconnect
<1>4. CASE \E mode \in ReplayModes : SetReplayMode(mode)
  BY <1>4, SetReplayModeMatches
<1>5. CASE \E addToFormation \in BOOLEAN : StartNewFlight(addToFormation)
  <2>1. ClearFlight /\ session # "Recording"
    BY <1>5 DEF StartNewFlight
  <2> QED
    BY <2>1, ClearFlightMatches
<1>6. CASE AddToFormation
  BY <1>6, AddToFormationMatches
<1>7. CASE StopRecording
  BY <1>7, StopRecordingMatches
<1>8. CASE StopRecordingNotStored
  BY <1>8, StopRecordingNotStoredMatches
<1>9. CASE \E list \in StoredFlights : \E u \in DOMAIN list : Restore(list, u) \/ ImportFlight(list, u)
  BY <1>9, RestoreMatches, ImportFlightMatches
<1>10. CASE \E list \in StoredFlights : ImportAircraft(list)
  BY <1>10, ImportAircraftMatches
<1>11. CASE Clear
  BY <1>11, ClearFlightMatches DEF Clear
<1>12. CASE \E i \in DOMAIN aircraft :
              SwitchUserAircraft(i) \/ RemoveAircraft(i) \/ ChangeTailNumber(i)
  BY <1>12, SwitchUserAircraftMatches, RemoveAircraftMatches, ChangeTailNumberMatches
<1>13. CASE (\E r \in Requests : Create(r) \/ Refuse(r) \/ DispatchAssigned(r)) \/ Crash
  BY <1>13, SimulatorMatches
<1> QED
  BY <1>1, <1>2, <1>3, <1>4, <1>5, <1>6, <1>7, <1>8, <1>9, <1>10, <1>11, <1>12, <1>13 DEF Next

\* Until a disturbing operation, the aircraft that shall be visible have requests, no
\* other one has, and every object of the plugin belongs to a request.
THEOREM ObjectsAreOfTheFlight == Spec => []ObjectsMatchFlight
<1>1. Init => Named(aircraft) /\ OneRecording /\ Matching
  <2> SUFFICES ASSUME Init PROVE Named(aircraft) /\ OneRecording /\ Matching
    OBVIOUS
  <2>1. DOMAIN aircraft = {1} /\ aircraft[1].id = InvalidId /\ ai.link = "none"
    BY DEF Init, NoAi
  <2> QED
    BY <2>1 DEF Named, OneRecording, Matching, InvalidId, RecordingId
<1>2. IInv /\ Named(aircraft) /\ OneRecording /\ Matching /\ [Next]_vars
        => (Named(aircraft) /\ OneRecording /\ Matching)'
  <2> SUFFICES ASSUME MatchInv, [Next]_vars PROVE (Named(aircraft) /\ OneRecording /\ Matching)'
    BY DEF MatchInv
  <2>1. CASE Next
    <3>1. MatchStep
      BY <2>1, NextMatches
    <3> QED
      BY <3>1 DEF MatchStep, Matching
  <2>2. CASE UNCHANGED vars
    <3>1. Named(aircraft) /\ OneRecording /\ Matching
      BY DEF MatchInv
    <3> QED
      BY <2>2, <3>1 DEF vars, Named, OneRecording, Matching, ShownAircraft, Needed, Shown,
                        FlyWithFormation, Requested, Covered, Wanted, Served
  <2> QED
    BY <2>1, <2>2
<1>3. Matching => ObjectsMatchFlight
  <2> SUFFICES ASSUME Matching, ai.link = "open", ~disturbed
               PROVE  /\ Required \subseteq Requested(ai)
                      /\ Requested(ai) \subseteq Permitted
                      /\ Covered(ai)
    BY DEF ObjectsMatchFlight, Covered
  <2>1. /\ Wanted(aircraft, ShownAircraft, Requested(ai)) /\ Served(aircraft, Needed, Requested(ai))
        /\ Covered(ai)
    BY DEF Matching
  <2>2. Required \subseteq Requested(ai)
    BY <2>1 DEF Served, Needed, ShownAircraft, Required
  <2>3. Requested(ai) \subseteq Permitted
    BY <2>1 DEF Wanted, ShownAircraft, Permitted
  <2> QED
    BY <2>1, <2>2, <2>3
<1> QED
  BY <1>1, <1>2, <1>3, Inductive, PTL DEF Spec
=============================================================================
