---------------------------- MODULE FlightStore ----------------------------
(***************************************************************************)
(* The current flight in memory (class Flight) and its copy in the logbook *)
(* database: FlightService and AircraftService, the DAOs below them, and   *)
(* the operations of the window, of the Logbook and Formation modules and  *)
(* of the import that call them.                                           *)
(*                                                                         *)
(* Most operations change both copies, the memory before the transaction   *)
(* or after it; a transaction may fail, and the program may end at any     *)
(* time.  Identifiers are given by SQLite (external): the largest one of   *)
(* the table plus 1, so that the one of a deleted row may return.          *)
(*                                                                         *)
(* Indices count from 1 here and 0 is Const::InvalidIndex; sequence        *)
(* numbers count from 1 in the code, too.                                  *)
(***************************************************************************)
EXTENDS Integers, FiniteSets, Sequences, SequencesExt

CONSTANTS
    Data,           \* what the user edits of an aircraft: tail number, time offset
    Titles,         \* what the user edits of a flight: title, flight number, description
    Hazards,        \* disturbances that may happen, see HazardsAssumption
    MaxFlights,     \* bound: identifiers of flights
    MaxRows,        \* bound: identifiers of aircraft
    MaxAircraft     \* bound: aircraft per flight

InvalidId   == -1   \* Const::InvalidId: never stored
RecordingId == -2   \* Const::RecordingId: being recorded
NoData      == 0    \* the data of a new aircraft or flight

FlightIds == 1 .. MaxFlights
RowIds    == 1 .. MaxRows

(***************************************************************************)
(* A transaction fails that stores a flight ("store") or an aircraft       *)
(* ("storeAircraft", "import"), that deletes ("delete"), edits ("edit") or *)
(* reads ("load"); an aircraft of a cleared flight is edited               *)
(* ("editCleared"); aircraft are imported next to a user aircraft without  *)
(* recording ("importReplaces"), or some of them have no recording         *)
(* themselves ("importUnrecorded"); an aircraft is edited or made the user *)
(* aircraft in the Formation module while none is selected                 *)
(* ("noSelection"); a recording or replay starts or ends while a dialog    *)
(* asks for confirmation ("dialogEvents").                                 *)
(***************************************************************************)
ASSUME HazardsAssumption ==
    Hazards \subseteq {"store", "storeAircraft", "import", "delete", "edit", "load",
                       "editCleared", "importReplaces", "importUnrecorded", "noSelection",
                       "dialogEvents"}
ASSUME DataAssumption   == NoData \in Data \cap Titles
ASSUME BoundsAssumption ==
    MaxFlights \in Nat /\ MaxRows \in Nat /\ MaxAircraft \in Nat \ {0}

VARIABLES
    flights,    \* table flight: user aircraft and title by identifier
    rows,       \* table aircraft: flight, sequence number, recording and data by identifier
    flight,     \* the current flight
    recording,  \* SkyConnectIntf::isInRecordingState
    module,     \* the active module
    selected,   \* FormationWidget: selectedAircraftIndex
    dialog,     \* the confirmation that is open
    running,    \* FALSE: an access out of range has terminated the program
    inStep      \* auxiliary: no failure has left flight and database apart

db   == <<flights, rows>>
ui   == <<module, selected, dialog>>
vars == <<flights, rows, flight, recording, module, selected, dialog, running, inStep>>

May(h) == h \in Hazards

-----------------------------------------------------------------------------
(***************************************************************************)
(* class Flight                                                            *)
(***************************************************************************)
NewAircraft(id) == [id |-> id, recorded |-> FALSE, data |-> NoData]

NewFlight == [id |-> InvalidId, user |-> 1, title |-> NoData,
              aircraft |-> <<NewAircraft(InvalidId)>>]

IsValid(id) == id \notin {InvalidId, RecordingId}

\* FlightData::clear, withOneAircraft: the identifier of the aircraft stays.
Cleared(f) == [NewFlight EXCEPT !.aircraft = <<NewAircraft(f.aircraft[1].id)>>]

HasRecording(f) == \E i \in DOMAIN f.aircraft : f.aircraft[i].recorded

\* Mutant: only the removal of the user aircraft itself changes the index.
UserAfterRemovalOfItself(u, i) == IF i = u /\ u > 1 THEN u - 1 ELSE u

UserAfterRemoval(u, i) == IF i <= u /\ u > 1 THEN u - 1 ELSE u

\* removeAircraftByIndex of a flight with several aircraft
RemoveAircraft(f, i) ==
    [f EXCEPT !.aircraft = RemoveAt(f.aircraft, i), !.user = UserAfterRemoval(f.user, i)]

-----------------------------------------------------------------------------
(***************************************************************************)
(* The tables                                                              *)
(***************************************************************************)
\* SQLite: integer primary key without autoincrement (external)
IsNext(n, ids) == (\A x \in ids : x < n) /\ (n = 1 \/ n - 1 \in ids)

Row(f, n, a) == [flight |-> f, seq |-> n, recorded |-> a.recorded, data |-> a.data]

\* The row of aircraft list[i] gets the identifier r + i - 1, the number n + i - 1.
WithRows(f, n, r, list) ==
    [x \in DOMAIN rows \cup (r .. r + Len(list) - 1) |->
        IF x \in DOMAIN rows THEN rows[x] ELSE Row(f, n + (x - r), list[x - r + 1])]

\* The aircraft of list after they got their identifiers.
Identified(list, r) == [i \in DOMAIN list |-> [list[i] EXCEPT !.id = r + i - 1]]

\* unique index aircraft_idx1
UniqueSeq(rs) ==
    \A r, s \in DOMAIN rs : rs[r].flight = rs[s].flight /\ rs[r].seq = rs[s].seq => r = s

\* updateUserAircraftIndex: nothing if there is no such flight.
WithUser(id, u) ==
    [f \in DOMAIN flights |-> IF f = id THEN [flights[f] EXCEPT !.user = u] ELSE flights[f]]

WithTitle(id, title) ==
    [f \in DOMAIN flights |-> IF f = id THEN [flights[f] EXCEPT !.title = title] ELSE flights[f]]

\* Mutants: the condition is forgotten, or the update.
WithDataEverywhere(id, data) == [r \in DOMAIN rows |-> [rows[r] EXCEPT !.data = data]]

WithDataForgotten(id, data) == rows

\* updateTailNumber, updateTimeOffset
WithData(id, data) ==
    [r \in DOMAIN rows |-> IF r = id THEN [rows[r] EXCEPT !.data = data] ELSE rows[r]]

\* Mutants: the numbers of the other aircraft stay, or all of them change.
WithoutRowOnly(f, id, n) == [r \in DOMAIN rows \ {id} |-> rows[r]]

WithoutRowShifted(f, id, n) ==
    [r \in DOMAIN rows \ {id} |->
        IF rows[r].flight = f THEN [rows[r] EXCEPT !.seq = @ - 1] ELSE rows[r]]

\* deleteById and adjustAircraftSequenceNumbersByFlightId
WithoutRow(f, id, n) ==
    [r \in DOMAIN rows \ {id} |->
        IF rows[r].flight = f /\ rows[r].seq > n THEN [rows[r] EXCEPT !.seq = @ - 1] ELSE rows[r]]

\* deleteAllByFlightId
WithoutRowsOf(id) == [r \in {x \in DOMAIN rows : rows[x].flight # id} |-> rows[r]]

-----------------------------------------------------------------------------
Init ==
    /\ flights = <<>>
    /\ rows = <<>>
    /\ flight = NewFlight
    /\ recording = FALSE
    /\ module = "Logbook"
    /\ selected = 0
    /\ dialog = [asks |-> "nothing"]
    /\ running = TRUE
    /\ inStep = TRUE

\* The user cannot do anything else while a confirmation is open.
NoDialog == dialog.asks = "nothing"

\* Signals of the session are handled nevertheless.
Undisturbed == NoDialog \/ May("dialogEvents")

\* The program ends, by a user, a crash or an exception, and is started again.
Restart ==
    /\ flight' = NewFlight
    /\ recording' = FALSE
    /\ module' = "Logbook"
    /\ selected' = 0
    /\ dialog' = [asks |-> "nothing"]
    /\ running' = TRUE
    /\ inStep' = TRUE
    /\ UNCHANGED db

\* Module actions are disabled while recording.
ActivateModule(m) ==
    /\ NoDialog /\ ~recording
    /\ m # module
    /\ module' = m
    /\ selected' = 0
    /\ UNCHANGED <<db, flight, recording, dialog, running, inStep>>

-----------------------------------------------------------------------------
(***************************************************************************)
(* Recording.  The table of the Formation module is updated with every     *)
(* change of state, which resets its selection.                            *)
(***************************************************************************)

\* startRecording: in the Formation module an aircraft is added if there is a recording.
StartRecording ==
    /\ Undisturbed /\ ~recording
    /\ recording' = TRUE
    /\ IF module = "Formation" /\ flight.aircraft[flight.user].recorded
       THEN /\ Len(flight.aircraft) < MaxAircraft
            /\ flight' = [flight EXCEPT !.aircraft = Append(@, NewAircraft(RecordingId)),
                                        !.user = Len(flight.aircraft) + 1]
            /\ UNCHANGED inStep
       ELSE /\ flight' = [Cleared(flight) EXCEPT !.id = RecordingId]
            /\ inStep' = TRUE
    /\ selected' = 0
    /\ UNCHANGED <<db, module, dialog, running>>

\* The flight as recorded so far.
Recorded(rec) == [flight EXCEPT !.aircraft[flight.user].recorded = rec]

\* storeFlightData succeeds with the identifiers f and r.
Stores(f, r, fd) ==
    /\ IsNext(f, DOMAIN flights)
    /\ IsNext(r, DOMAIN rows)
    /\ r + Len(fd.aircraft) - 1 <= MaxRows
    /\ flights' = [x \in DOMAIN flights \cup {f} |->
                     IF x = f THEN [user |-> fd.user, title |-> fd.title] ELSE flights[x]]
    /\ rows' = WithRows(f, 1, r, fd.aircraft)
    /\ UniqueSeq(rows')

\* The flight data are those of the current flight from now on.
StoreFlight(fd) ==
    \E f \in FlightIds, r \in RowIds :
        /\ Stores(f, r, fd)
        /\ flight' = [fd EXCEPT !.id = f, !.aircraft = Identified(fd.aircraft, r)]
        /\ inStep' = TRUE

\* It fails, with the first k aircraft inserted before everything is rolled back:
\* the identifiers stay in memory.
StoreFlightFails(fd) ==
    /\ May("store")
    /\ UNCHANGED db
    /\ inStep' = FALSE
    /\ \/ flight' = fd
       \/ \E f \in FlightIds, r \in RowIds, k \in 0 .. Len(fd.aircraft) :
            /\ IsNext(f, DOMAIN flights)
            /\ IsNext(r, DOMAIN rows)
            /\ r + k - 1 <= MaxRows
            /\ flight' = [fd EXCEPT !.id = f, !.aircraft =
                            [i \in DOMAIN fd.aircraft |->
                                IF i <= k THEN [fd.aircraft[i] EXCEPT !.id = r + i - 1]
                                          ELSE fd.aircraft[i]]]

\* A row with this number exists already, which an earlier failure has left there.
NumberIsTaken(n) == \E r \in DOMAIN rows : rows[r].flight = flight.id /\ rows[r].seq = n

\* AbstractModule::onRecordingStopped, also called by the Formation module for the
\* first aircraft
StopFirstRecording(rec) ==
    /\ module = "Logbook" \/ Len(flight.aircraft) = 1
    /\ StoreFlight(Recorded(rec)) \/ StoreFlightFails(Recorded(rec))

\* AircraftService::store of the last aircraft
StoreAircraft(fd) ==
    LET n == Len(fd.aircraft)
    IN  \E r \in RowIds :
          /\ IsNext(r, DOMAIN rows)
          /\ rows' = WithRows(fd.id, n, r, <<fd.aircraft[n]>>)
          /\ UniqueSeq(rows')
          /\ flights' = WithUser(fd.id, fd.user)
          /\ flight' = [fd EXCEPT !.aircraft[n].id = r]

\* FormationPlugin::onRecordingStopped: an aircraft that cannot be stored is removed,
\* and the user aircraft is not the one from before the recording.
StopFormationRecording(rec) ==
    /\ module = "Formation" /\ Len(flight.aircraft) > 1
    /\ LET fd == Recorded(rec)
           n  == Len(fd.aircraft)
       IN  \/ StoreAircraft(fd) /\ UNCHANGED inStep
           \/ /\ May("storeAircraft") \/ NumberIsTaken(n)
              /\ flight' = RemoveAircraft(fd, n)
              /\ inStep' = FALSE
              /\ UNCHANGED db

StopRecording ==
    /\ Undisturbed /\ recording
    /\ recording' = FALSE
    /\ selected' = 0
    /\ \E rec \in BOOLEAN : StopFirstRecording(rec) \/ StopFormationRecording(rec)
    /\ UNCHANGED <<module, dialog, running>>

\* A replay starts, pauses, goes on or ends.
ReplayStateChanged ==
    /\ Undisturbed /\ ~recording
    /\ selected' = 0
    /\ UNCHANGED <<db, flight, recording, module, dialog, running, inStep>>

-----------------------------------------------------------------------------
(***************************************************************************)
(* The window and the import.  They are not available while recording.     *)
(***************************************************************************)
Idle == NoDialog /\ ~recording

\* MainWindow::clearFlight
ClearFlight ==
    /\ Idle
    /\ flight' = Cleared(flight)
    /\ selected' = 0
    /\ inStep' = TRUE
    /\ UNCHANGED <<db, recording, module, dialog, running>>

\* An imported aircraft has a recording or not, as recs says.
Imports == UNION {[1 .. n -> BOOLEAN] : n \in 1 .. MaxAircraft}

ImportedAircraft(recs) ==
    [i \in DOMAIN recs |-> [id |-> InvalidId, recorded |-> recs[i], data |-> NoData]]

ImportedFlight(recs, u) == [NewFlight EXCEPT !.user = u, !.aircraft = ImportedAircraft(recs)]

\* A flight is imported as the current flight, which it is even if it cannot be stored.
ImportAsCurrentFlight(fd) ==
    /\ StoreFlight(fd) \/ (HasRecording(fd) /\ StoreFlightFails(fd))
    /\ selected' = 0

\* SeparateFlights: each flight is stored in a transaction of its own, but only the last
\* one becomes the current flight, and no one if the last file could not be imported.
ImportIntoLogbook(fd) ==
    /\ \E f \in FlightIds, r \in RowIds : Stores(f, r, fd)
    /\ UNCHANGED <<flight, selected, inStep>>

\* One flight of an import
ImportFlight(recs, u) ==
    /\ Idle
    /\ LET fd == ImportedFlight(recs, u) IN ImportAsCurrentFlight(fd) \/ ImportIntoLogbook(fd)
    /\ UNCHANGED <<recording, module, dialog, running>>

\* The indices of the imported aircraft with a recording, up to i
RecordedUpTo(recs, i) == {j \in 1 .. i : recs[j]}

\* Only the aircraft with a recording get a row and its identifier.
IdentifiedIfRecorded(recs, r) ==
    [i \in DOMAIN recs |->
        [ImportedAircraft(recs)[i] EXCEPT !.id =
            IF recs[i] THEN r + Cardinality(RecordedUpTo(recs, i)) - 1 ELSE @]]

\* addAndStoreAircraftToCurrentFlight: each aircraft with a recording is stored on its
\* own, the first k of them, if one fails; but all of them are added to the flight.
\* Flight::addAircraft replaces the aircraft of a flight whose user aircraft has no
\* recording, and nobody is told.
ImportAircraft(recs, k) ==
    LET stored   == Cardinality(RecordedUpTo(recs, Len(recs)))
        appended == flight.aircraft[flight.user].recorded
        next     == Len(flight.aircraft) + 1
    IN  /\ Idle
        /\ HasRecording(flight)
        /\ appended \/ May("importReplaces")
        /\ stored = Len(recs) \/ May("importUnrecorded")
        /\ Len(flight.aircraft) + Len(recs) <= MaxAircraft
        /\ \/ k = stored
           \/ k < stored /\ (May("import") \/ NumberIsTaken(next + k))
        /\ \E r \in RowIds :
             LET list == IdentifiedIfRecorded(recs, r)
             IN  /\ IsNext(r, DOMAIN rows)
                 /\ r + k - 1 <= MaxRows
                 /\ rows' = WithRows(flight.id, next, r, ImportedAircraft([i \in 1 .. k |-> TRUE]))
                 /\ UniqueSeq(rows')
                 /\ flight' = [flight EXCEPT !.aircraft =
                                 IF k < stored THEN @ ELSE IF appended THEN @ \o list ELSE list]
        /\ flights' = IF k = 0 THEN flights ELSE WithUser(flight.id, flight.user)
        /\ running' = (flight.user <= Len(flight'.aircraft))
        /\ selected' = IF stored = 0 /\ ~appended THEN selected ELSE 0
        /\ inStep' = (inStep /\ k \in {0, stored})
        /\ UNCHANGED <<recording, module, dialog>>

-----------------------------------------------------------------------------
(***************************************************************************)
(* The Logbook module                                                      *)
(***************************************************************************)

\* The i-th of the rows read, in the order of their numbers.
LowerRows(read, r) == {s \in read : rows[s].seq < rows[r].seq}

RowOfRank(read, i) == CHOOSE r \in read : Cardinality(LowerRows(read, r)) = i - 1

Aircraft(r) == [id |-> r, recorded |-> rows[r].recorded, data |-> rows[r].data]

\* SQLiteFlightDao::get and SQLiteAircraftDao::getByFlightId; the aircraft that could
\* be read are in read.
LoadedFlight(id, read, ok) ==
    [id |-> id,
     user |-> IF ok THEN flights[id].user ELSE 0,
     title |-> flights[id].title,
     aircraft |-> [i \in 1 .. Cardinality(read) |-> Aircraft(RowOfRank(read, i))]]

RowsOf(id) == {r \in DOMAIN rows : rows[r].flight = id}

\* restoreFlight.  An aircraft that cannot be read is left out, and unless it is the
\* last one, nobody is told.  The window asks for the user aircraft at once.
LoadFlight(id) ==
    /\ Idle /\ module = "Logbook"
    /\ \E read \in (IF May("load") THEN SUBSET RowsOf(id) ELSE {RowsOf(id)}) :
       \E ok \in (IF read = RowsOf(id) THEN {TRUE} ELSE BOOLEAN) :
         /\ flight' = LoadedFlight(id, read, ok)
         /\ running' = (flight'.user \in DOMAIN flight'.aircraft)
    /\ selected' = 0
    /\ inStep' = TRUE
    /\ UNCHANGED <<db, recording, module, dialog>>

\* LogbookWidget::deleteFlight, until the answer to the confirmation
AskDeleteFlight(id) ==
    /\ Idle /\ module = "Logbook"
    /\ dialog' = [asks |-> "deleteFlight", id |-> id]
    /\ UNCHANGED <<db, flight, recording, module, selected, running, inStep>>

\* FlightService::deleteById: the current flight is cleared before the transaction.
DeleteFlight ==
    /\ dialog.asks = "deleteFlight"
    /\ flight' = IF flight.id = dialog.id THEN Cleared(flight) ELSE flight
    /\ \/ /\ flights' = [f \in DOMAIN flights \ {dialog.id} |-> flights[f]]
          /\ rows' = WithoutRowsOf(dialog.id)
       \/ May("delete") /\ UNCHANGED db
    /\ dialog' = [asks |-> "nothing"]
    /\ selected' = 0
    /\ inStep' = (inStep \/ flight.id = dialog.id)
    /\ UNCHANGED <<recording, module, running>>

\* onCellChanged and updateTitle, also updateFlightNumber and updateDescription; a
\* failed transaction changes nothing.
UpdateTitle(id, title) ==
    /\ NoDialog
    /\ id # InvalidId
    /\ id = flight.id \/ module = "Logbook"
    /\ flight' = IF flight.id = id THEN [flight EXCEPT !.title = title] ELSE flight
    /\ flights' = WithTitle(id, title)
    /\ UNCHANGED <<rows, recording, module, selected, dialog, running, inStep>>

-----------------------------------------------------------------------------
(***************************************************************************)
(* The Formation module                                                    *)
(***************************************************************************)

\* onSelectionChanged; 0: nothing is selected any more.
Select(i) ==
    /\ NoDialog /\ module = "Formation"
    /\ selected' = i
    /\ UNCHANGED <<db, flight, recording, module, dialog, running, inStep>>

\* updateUserAircraftIndex: the memory is changed before the transaction.  It does not
\* ask whether an aircraft is selected: if none is, the program is terminated as soon as
\* the user aircraft is needed, before the index is written or after it.
SwitchUserAircraft ==
    /\ Idle /\ module = "Formation"
    /\ selected # flight.user
    /\ selected # 0 \/ May("noSelection")
    /\ flight' = [flight EXCEPT !.user = selected]
    /\ \/ flights' = WithUser(flight.id, selected) /\ UNCHANGED inStep
       \/ /\ May("edit") \/ selected \notin DOMAIN flight.aircraft
          /\ flights' = flights
          /\ inStep' = FALSE
    /\ running' = (selected \in DOMAIN flight.aircraft)
    /\ UNCHANGED <<rows, recording, module, selected, dialog>>

\* changeTailNumber, changeTimeOffset: an aircraft being recorded has no row yet;
\* a failed transaction changes nothing.  onCellChanged does not ask whether an
\* aircraft is selected, either.
EditAircraft(data) ==
    /\ NoDialog /\ module = "Formation"
    /\ selected # 0 \/ May("noSelection")
    /\ IF selected \in DOMAIN flight.aircraft
       THEN /\ IsValid(flight.id) \/ May("editCleared")
            /\ flight.aircraft[selected].id # InvalidId
            /\ flight' = [flight EXCEPT !.aircraft[selected].data = data]
            /\ rows' = WithData(flight.aircraft[selected].id, data)
            /\ UNCHANGED running
       ELSE /\ running' = FALSE
            /\ UNCHANGED <<flight, rows>>
    /\ UNCHANGED <<flights, recording, module, selected, dialog, inStep>>

\* deleteAircraft, until the answer to the confirmation
AskDeleteAircraft ==
    /\ Idle /\ module = "Formation"
    /\ Len(flight.aircraft) > 1
    /\ selected # 0
    /\ dialog' = [asks |-> "deleteAircraft"]
    /\ UNCHANGED <<db, flight, recording, module, selected, running, inStep>>

\* AircraftService::deleteByIndex(selectedAircraftIndex): the memory is changed before
\* the transaction; std::vector::at terminates the program if nothing is selected.
DeleteAircraft ==
    /\ dialog.asks = "deleteAircraft"
    /\ dialog' = [asks |-> "nothing"]
    /\ IF Len(flight.aircraft) = 1
       THEN UNCHANGED <<db, flight, selected, running, inStep>>
       ELSE IF selected \notin DOMAIN flight.aircraft
       THEN running' = FALSE /\ UNCHANGED <<db, flight, selected, inStep>>
       ELSE LET id      == flight.aircraft[selected].id
                without == WithoutRow(flight.id, id, selected)
            IN  /\ flight' = RemoveAircraft(flight, selected)
                /\ \/ /\ UniqueSeq(without)
                      /\ rows' = without
                      /\ flights' = WithUser(flight.id, flight'.user)
                      /\ UNCHANGED inStep
                   \/ /\ May("delete") \/ ~UniqueSeq(without)
                      /\ UNCHANGED db
                      /\ inStep' = FALSE
                /\ selected' \in 0 .. Len(flight'.aircraft)
                /\ UNCHANGED running
    /\ UNCHANGED <<recording, module>>

Keep ==
    /\ ~NoDialog
    /\ dialog' = [asks |-> "nothing"]
    /\ UNCHANGED <<db, flight, recording, module, selected, running, inStep>>

Next ==
    \/ Restart
    \/ /\ running
       /\ \/ \E m \in {"Logbook", "Formation"} : ActivateModule(m)
          \/ StartRecording \/ StopRecording \/ ReplayStateChanged
          \/ ClearFlight
          \/ \E recs \in Imports : \E u \in DOMAIN recs : ImportFlight(recs, u)
          \/ \E recs \in Imports : \E k \in 0 .. Len(recs) : ImportAircraft(recs, k)
          \/ \E id \in DOMAIN flights : LoadFlight(id) \/ AskDeleteFlight(id)
          \/ DeleteFlight
          \/ \E id \in DOMAIN flights \cup {flight.id}, title \in Titles : UpdateTitle(id, title)
          \/ \E i \in {0} \cup DOMAIN flight.aircraft : Select(i)
          \/ SwitchUserAircraft
          \/ \E data \in Data : EditAircraft(data)
          \/ AskDeleteAircraft \/ DeleteAircraft \/ Keep

Spec == Init /\ [][Next]_vars

-----------------------------------------------------------------------------
AircraftRecords ==
    [id : RowIds \cup {InvalidId, RecordingId}, recorded : BOOLEAN, data : Data]

FlightEntries == [user : Nat, title : Titles]

RowRecords == [flight : Int, seq : Nat \ {0}, recorded : BOOLEAN, data : Data]

FlightRecords ==
    [id : FlightIds \cup {InvalidId, RecordingId}, user : Nat, title : Titles,
     aircraft : Seq(AircraftRecords)]

\* The values the variables take.
TypeOK ==
    /\ DOMAIN flights \subseteq FlightIds
    /\ flights \in [DOMAIN flights -> FlightEntries]
    /\ DOMAIN rows \subseteq RowIds
    /\ rows \in [DOMAIN rows -> RowRecords]
    /\ flight \in FlightRecords
    /\ recording \in BOOLEAN
    /\ module \in {"Logbook", "Formation"}
    /\ selected \in Nat
    /\ dialog.asks \in {"nothing", "deleteFlight", "deleteAircraft"}
    /\ running \in BOOLEAN
    /\ inStep \in BOOLEAN

\* The database is consistent at any time, also after crashes and transactions that
\* failed to store an aircraft, to delete, edit or read: each aircraft belongs to a
\* flight, those of a flight are numbered from 1 without gaps, and the user aircraft is
\* one of them.  (No foreign key says so.)  The code breaks it with the hazards "store",
\* "importUnrecorded" and "noSelection".
LogbookConsistent ==
    /\ \A r \in DOMAIN rows : rows[r].flight \in DOMAIN flights
    /\ UniqueSeq(rows)
    /\ \A r \in DOMAIN rows : rows[r].seq > 1 =>
         \E s \in DOMAIN rows : rows[s].flight = rows[r].flight /\ rows[s].seq = rows[r].seq - 1
    /\ \A f \in DOMAIN flights :
         \E r \in DOMAIN rows : rows[r].flight = f /\ rows[r].seq = flights[f].user

\* The program is not terminated by an index that is out of range: the user aircraft
\* and the selection of the Formation module name an aircraft of the flight while
\* aircraft are added, removed and imported and flights are loaded, also after
\* transactions that failed to store or delete an aircraft or to edit one.  The code
\* breaks it with the hazards "store", "load", "importReplaces", "importUnrecorded",
\* "noSelection" and "dialogEvents".
IndicesExist ==
    /\ running
    /\ flight.user \in DOMAIN flight.aircraft
    /\ selected \in 0 .. Len(flight.aircraft)

\* As long as nothing has failed, the flight in memory is the one in the database:
\* same aircraft in the same order, same user aircraft, same data.  The aircraft that
\* is being recorded is not stored yet.  The code breaks it without telling anybody with
\* the hazards "load", "importReplaces" and "importUnrecorded", and with "store".
IsStored(i) == flight.aircraft[i].id # RecordingId

StoreAgrees ==
    inStep /\ flight.id \in DOMAIN flights =>
        /\ \A i \in DOMAIN flight.aircraft : IsStored(i) =>
             /\ flight.aircraft[i].id \in DOMAIN rows
             /\ rows[flight.aircraft[i].id] = Row(flight.id, i, flight.aircraft[i])
        /\ \A r \in RowsOf(flight.id) : \E i \in DOMAIN flight.aircraft : flight.aircraft[i].id = r
        /\ ~recording => flights[flight.id].user = flight.user
        /\ flights[flight.id].title = flight.title

-----------------------------------------------------------------------------
(***************************************************************************)
(* Refinement: the tables seen as flights with a list of aircraft each.    *)
(***************************************************************************)
DataOf(id, n) ==
    LET there == {r \in RowsOf(id) : rows[r].seq = n}
    IN  IF there = {} THEN "missing" ELSE rows[CHOOSE r \in there : TRUE].data

Stored ==
    [id \in DOMAIN flights |->
        [title |-> flights[id].title, user |-> flights[id].user,
         aircraft |-> [n \in 1 .. Cardinality(RowsOf(id)) |-> DataOf(id, n)]]]

Current == IF IsValid(flight.id) THEN flight.id ELSE InvalidId

L == INSTANCE Logbook WITH logbook <- Stored, current <- Current, NoFlight <- InvalidId

\* Each transaction changes one flight of the logbook in one of the ways that Logbook
\* allows, and aircraft only in the current flight, also if storing an aircraft, deleting
\* or editing fails, or an import of several flights half-way.  The code breaks it with
\* the hazards "store", "editCleared", "importUnrecorded" and "noSelection".
ImplementsLogbook == L!Spec

\* An edit writes an aircraft of the current flight, and no other.  The code breaks it
\* with the hazards "editCleared" and "store".
EditsStayInFlight ==
    [][\A r \in DOMAIN rows \cap DOMAIN rows' :
          rows'[r].data # rows[r].data => rows[r].flight = flight.id]_vars
=============================================================================
