------------------------- MODULE FlightStore_proofs -------------------------
(***************************************************************************)
(* Proofs about FlightStore, for any number of flights, rows and aircraft. *)
(***************************************************************************)
EXTENDS FlightStore, FiniteSetTheorems, SequenceTheorems, WellFoundedInduction, TLAPS

-----------------------------------------------------------------------------
(***************************************************************************)
(* The operators.                                                          *)
(***************************************************************************)

\* One aircraft is removed, those after it move up.
LEMMA RemoveAtEffect ==
    ASSUME NEW S, NEW s \in Seq(S), NEW i \in 1 .. Len(s)
    PROVE  /\ RemoveAt(s, i) \in Seq(S)
           /\ Len(RemoveAt(s, i)) = Len(s) - 1
           /\ \A j \in 1 .. Len(s) - 1 :
                RemoveAt(s, i)[j] = IF j < i THEN s[j] ELSE s[j + 1]
<1> DEFINE a == SubSeq(s, 1, i - 1)
           b == SubSeq(s, i + 1, Len(s))
<1>1. a \in Seq(S) /\ Len(a) = i - 1 /\ \A j \in 1 .. i - 1 : a[j] = s[j]
  OBVIOUS
<1>2. b \in Seq(S) /\ Len(b) = Len(s) - i /\ \A j \in 1 .. Len(s) - i : b[j] = s[i + j]
  OBVIOUS
<1>3. RemoveAt(s, i) = a \o b
  BY DEF RemoveAt
<1>4. Len(s) \in Nat /\ i \in Nat
  BY LenProperties
<1> HIDE DEF a, b
<1>5. /\ a \o b \in Seq(S) /\ Len(a \o b) = Len(a) + Len(b)
      /\ \A j \in 1 .. Len(a) + Len(b) :
           (a \o b)[j] = IF j <= Len(a) THEN a[j] ELSE b[j - Len(a)]
  BY <1>1, <1>2, ConcatProperties
<1>6. ASSUME NEW j \in 1 .. Len(s) - 1
      PROVE  (a \o b)[j] = IF j < i THEN s[j] ELSE s[j + 1]
  <2>1. j \in 1 .. Len(a) + Len(b)
    BY <1>1, <1>2, <1>4
  <2>2. CASE j < i
    BY <1>1, <1>4, <1>5, <2>1, <2>2
  <2>3. CASE ~(j < i)
    <3>1. (a \o b)[j] = b[j - Len(a)]
      BY <1>1, <1>4, <1>5, <2>1, <2>3
    <3>2. j - Len(a) \in 1 .. Len(s) - i /\ i + (j - Len(a)) = j + 1
      BY <1>1, <1>4, <2>3
    <3> QED
      BY <1>2, <2>3, <3>1, <3>2
  <2> QED
    BY <2>2, <2>3
<1> QED
  BY <1>1, <1>2, <1>3, <1>4, <1>5, <1>6

LEMMA ExceptEffect ==
    ASSUME NEW S, NEW s \in Seq(S), NEW i \in DOMAIN s, NEW e \in S
    PROVE  /\ [s EXCEPT ![i] = e] \in Seq(S)
           /\ Len([s EXCEPT ![i] = e]) = Len(s)
           /\ DOMAIN [s EXCEPT ![i] = e] = DOMAIN s
           /\ \A j \in DOMAIN s : [s EXCEPT ![i] = e][j] = IF j = i THEN e ELSE s[j]
OBVIOUS

LEMMA OneElement ==
    ASSUME NEW S, NEW e \in S
    PROVE  <<e>> \in Seq(S) /\ Len(<<e>>) = 1 /\ <<e>>[1] = e
OBVIOUS

LEMMA NewAircraftTyped ==
    ASSUME NEW id \in RowIds \cup {InvalidId, RecordingId}
    PROVE  NewAircraft(id) \in AircraftRecords
BY DataAssumption DEF NewAircraft, AircraftRecords

LEMMA NewFlightTyped ==
    NewFlight \in FlightRecords /\ Len(NewFlight.aircraft) = 1 /\ NewFlight.user = 1
    /\ NewFlight.id = InvalidId /\ ~NewFlight.aircraft[1].recorded
<1>1. NewAircraft(InvalidId) \in AircraftRecords /\ ~NewAircraft(InvalidId).recorded
  BY NewAircraftTyped DEF NewAircraft
<1> QED
  BY <1>1, OneElement, DataAssumption DEF NewFlight, FlightRecords

\* A cleared flight has one new aircraft, which keeps the identifier of the old one.
LEMMA ClearedEffect ==
    ASSUME NEW f \in FlightRecords, f.aircraft # <<>>
    PROVE  /\ Cleared(f) \in FlightRecords
           /\ Cleared(f).id = InvalidId /\ Cleared(f).user = 1
           /\ Len(Cleared(f).aircraft) = 1 /\ ~Cleared(f).aircraft[1].recorded
           /\ [Cleared(f) EXCEPT !.id = RecordingId] \in FlightRecords
<1> DEFINE a == NewAircraft(f.aircraft[1].id)
<1>1. f.aircraft[1] \in AircraftRecords
  BY DEF FlightRecords
<1>2. a \in AircraftRecords /\ ~a.recorded
  BY <1>1, NewAircraftTyped DEF AircraftRecords, NewAircraft
<1>3. Cleared(f) = [id |-> InvalidId, user |-> 1, title |-> NoData, aircraft |-> <<a>>]
  BY DEF Cleared, NewFlight
<1> HIDE DEF a
<1>4. <<a>> \in Seq(AircraftRecords) /\ Len(<<a>>) = 1 /\ <<a>>[1] = a
  BY <1>2, OneElement
<1>5. [Cleared(f) EXCEPT !.id = RecordingId]
        = [id |-> RecordingId, user |-> 1, title |-> NoData, aircraft |-> <<a>>]
  BY <1>3
<1>6. 1 \in Nat /\ NoData \in Titles
  BY DataAssumption
<1>7. Cleared(f) \in FlightRecords
  BY <1>3, <1>4, <1>6 DEF FlightRecords
<1>8. [Cleared(f) EXCEPT !.id = RecordingId] \in FlightRecords
  BY <1>4, <1>5, <1>6 DEF FlightRecords
<1> QED
  BY <1>2, <1>3, <1>4, <1>7, <1>8

\* The flight with the data of the recording: one aircraft is recorded or not.
LEMMA RecordedEffect ==
    ASSUME flight \in FlightRecords, flight.user \in DOMAIN flight.aircraft,
           NEW rec \in BOOLEAN
    PROVE  /\ Recorded(rec) \in FlightRecords
           /\ Recorded(rec).id = flight.id /\ Recorded(rec).user = flight.user
           /\ Recorded(rec).title = flight.title
           /\ Len(Recorded(rec).aircraft) = Len(flight.aircraft)
           /\ DOMAIN Recorded(rec).aircraft = DOMAIN flight.aircraft
           /\ \A i \in DOMAIN flight.aircraft :
                /\ Recorded(rec).aircraft[i].id = flight.aircraft[i].id
                /\ Recorded(rec).aircraft[i].data = flight.aircraft[i].data
                /\ i # flight.user => Recorded(rec).aircraft[i] = flight.aircraft[i]
<1> DEFINE a == [flight.aircraft[flight.user] EXCEPT !.recorded = rec]
           list == [flight.aircraft EXCEPT ![flight.user] = a]
<1>1. flight.aircraft \in Seq(AircraftRecords)
  BY DEF FlightRecords
<1>2. flight.aircraft[flight.user] \in AircraftRecords
  BY <1>1
<1>3. /\ a \in AircraftRecords
      /\ a.id = flight.aircraft[flight.user].id /\ a.data = flight.aircraft[flight.user].data
  BY <1>2 DEF AircraftRecords
<1>4. Recorded(rec) = [flight EXCEPT !.aircraft = list]
  BY DEF Recorded
<1> HIDE DEF a
<1>5. /\ list \in Seq(AircraftRecords) /\ Len(list) = Len(flight.aircraft)
      /\ DOMAIN list = DOMAIN flight.aircraft
      /\ \A j \in DOMAIN list : list[j] = IF j = flight.user THEN a ELSE flight.aircraft[j]
  BY <1>1, <1>3, ExceptEffect
<1> HIDE DEF list
<1>6. /\ Recorded(rec) \in FlightRecords /\ Recorded(rec).aircraft = list
      /\ Recorded(rec).id = flight.id /\ Recorded(rec).user = flight.user
      /\ Recorded(rec).title = flight.title
  BY <1>4, <1>5 DEF FlightRecords
<1> QED
  BY <1>3, <1>5, <1>6

\* The aircraft of a list with identifiers from r on.
LEMMA IdentifiedEffect ==
    ASSUME NEW list \in Seq(AircraftRecords), NEW r \in RowIds, r + Len(list) - 1 <= MaxRows
    PROVE  /\ Identified(list, r) \in Seq(AircraftRecords)
           /\ Len(Identified(list, r)) = Len(list)
           /\ \A i \in 1 .. Len(list) :
                /\ Identified(list, r)[i].id = r + i - 1
                /\ Identified(list, r)[i].recorded = list[i].recorded
                /\ Identified(list, r)[i].data = list[i].data
<1> DEFINE a(i) == [list[i] EXCEPT !.id = r + i - 1]
<1>1. Len(list) \in Nat /\ DOMAIN list = 1 .. Len(list) /\ r \in Nat
  BY BoundsAssumption DEF RowIds
<1>2. Identified(list, r) = [i \in 1 .. Len(list) |-> a(i)]
  BY <1>1 DEF Identified
<1>3. ASSUME NEW i \in 1 .. Len(list)
      PROVE  /\ a(i) \in AircraftRecords /\ a(i).id = r + i - 1
             /\ a(i).recorded = list[i].recorded /\ a(i).data = list[i].data
  <2>1. list[i] \in AircraftRecords
    BY <1>1
  <2>2. r + i - 1 \in RowIds
    BY <1>1, BoundsAssumption DEF RowIds
  <2> QED
    BY <2>1, <2>2 DEF AircraftRecords
<1> HIDE DEF a
<1>4. /\ [i \in 1 .. Len(list) |-> a(i)] \in Seq(AircraftRecords)
      /\ Len([i \in 1 .. Len(list) |-> a(i)]) = Len(list)
  BY <1>1, <1>3
<1> QED
  BY <1>2, <1>3, <1>4

\* The flight without one of its aircraft: its user aircraft is one of those left.
LEMMA RemoveAircraftEffect ==
    ASSUME NEW f \in FlightRecords, NEW i \in 1 .. Len(f.aircraft), Len(f.aircraft) > 1,
           f.user \in 1 .. Len(f.aircraft)
    PROVE  /\ RemoveAircraft(f, i) \in FlightRecords
           /\ RemoveAircraft(f, i).id = f.id /\ RemoveAircraft(f, i).title = f.title
           /\ RemoveAircraft(f, i).user \in 1 .. Len(f.aircraft) - 1
           /\ Len(RemoveAircraft(f, i).aircraft) = Len(f.aircraft) - 1
           /\ \A j \in 1 .. Len(f.aircraft) - 1 :
                RemoveAircraft(f, i).aircraft[j]
                    = IF j < i THEN f.aircraft[j] ELSE f.aircraft[j + 1]
<1> DEFINE list == RemoveAt(f.aircraft, i)
           u == UserAfterRemoval(f.user, i)
<1>1. f.aircraft \in Seq(AircraftRecords) /\ Len(f.aircraft) \in Nat
  BY DEF FlightRecords
<1>2. /\ list \in Seq(AircraftRecords) /\ Len(list) = Len(f.aircraft) - 1
      /\ \A j \in 1 .. Len(f.aircraft) - 1 :
           list[j] = IF j < i THEN f.aircraft[j] ELSE f.aircraft[j + 1]
  BY <1>1, RemoveAtEffect
<1>3. u \in 1 .. Len(f.aircraft) - 1
  BY <1>1 DEF UserAfterRemoval
<1>4. RemoveAircraft(f, i) = [f EXCEPT !.aircraft = list, !.user = u]
  BY DEF RemoveAircraft
<1> HIDE DEF list, u
<1>5. u \in Nat
  BY <1>1, <1>3
<1>6. RemoveAircraft(f, i) = [id |-> f.id, user |-> u, title |-> f.title, aircraft |-> list]
  BY <1>4 DEF FlightRecords
<1>7. RemoveAircraft(f, i) \in FlightRecords
  BY <1>2, <1>5, <1>6 DEF FlightRecords
<1> QED
  BY <1>2, <1>3, <1>6, <1>7

-----------------------------------------------------------------------------
(***************************************************************************)
(* What an operation does to the tables.                                   *)
(***************************************************************************)
FlightsOK == DOMAIN flights \subseteq FlightIds /\ flights \in [DOMAIN flights -> FlightEntries]

RowsTyped(rs) == DOMAIN rs \subseteq RowIds /\ rs \in [DOMAIN rs -> RowRecords]

RowsOK == RowsTyped(rows) /\ UniqueSeq(rows)

\* New rows come after all others, in the order of the list.
AddsRows(rs, f, n, r, list) ==
    /\ RowsTyped(rs)
    /\ DOMAIN rs = DOMAIN rows \cup (r .. r + Len(list) - 1)
    /\ \A x \in DOMAIN rows : x < r /\ rs[x] = rows[x]
    /\ \A i \in 1 .. Len(list) : rs[r + i - 1] = Row(f, n + i - 1, list[i])

LEMMA WithRowsEffect ==
    ASSUME RowsTyped(rows), NEW f \in Int, NEW n \in Nat \ {0}, NEW r \in RowIds,
           IsNext(r, DOMAIN rows), NEW list \in Seq(AircraftRecords),
           r + Len(list) - 1 <= MaxRows
    PROVE  AddsRows(WithRows(f, n, r, list), f, n, r, list)
<1> DEFINE new == r .. r + Len(list) - 1
           e(x) == IF x \in DOMAIN rows THEN rows[x]
                   ELSE Row(f, n + (x - r), list[x - r + 1])
<1>1. Len(list) \in Nat /\ DOMAIN list = 1 .. Len(list) /\ r \in Nat \ {0}
  BY BoundsAssumption DEF RowIds
<1>2. WithRows(f, n, r, list) = [x \in DOMAIN rows \cup new |-> e(x)]
  BY DEF WithRows
<1>3. \A x \in DOMAIN rows : x < r /\ e(x) = rows[x] /\ rows[x] \in RowRecords
  BY DEF IsNext, RowsTyped
<1>4. ASSUME NEW i \in 1 .. Len(list)
      PROVE  r + i - 1 \in new /\ e(r + i - 1) = Row(f, n + i - 1, list[i])
             /\ Row(f, n + i - 1, list[i]) \in RowRecords
  <2>1. r + i - 1 \in new /\ r + i - 1 >= r
    BY <1>1
  <2>2. r + i - 1 \notin DOMAIN rows
    <3>1. ~(r + i - 1 < r)
      BY <1>1
    <3> QED
      BY <1>3, <3>1
  <2>3. n + ((r + i - 1) - r) = n + i - 1 /\ (r + i - 1) - r + 1 = i
    BY <1>1
  <2>4. list[i] \in AircraftRecords /\ n + i - 1 \in Nat \ {0}
    BY <1>1
  <2>5. Row(f, n + i - 1, list[i]) \in RowRecords
    BY <2>4 DEF Row, RowRecords, AircraftRecords
  <2> QED
    BY <2>1, <2>2, <2>3, <2>5
<1>5. ASSUME NEW x \in new PROVE e(x) \in RowRecords
  <2>1. x - r + 1 \in 1 .. Len(list) /\ r + (x - r + 1) - 1 = x
    BY <1>1
  <2> QED
    BY <1>4, <2>1
<1>6. new \subseteq RowIds
  BY <1>1, BoundsAssumption DEF RowIds
<1> HIDE DEF e, new
<1> QED
  BY <1>2, <1>3, <1>4, <1>5, <1>6 DEF RowsTyped, AddsRows, new

\* A list without aircraft adds nothing.
LEMMA WithNoRows ==
    ASSUME RowsTyped(rows), NEW f, NEW n, NEW r \in RowIds, NEW list, Len(list) = 0
    PROVE  WithRows(f, n, r, list) = rows
<1>1. r .. r + Len(list) - 1 = {}
  BY BoundsAssumption DEF RowIds
<1> QED
  BY <1>1 DEF WithRows, RowsTyped

LEMMA WithUserEffect ==
    ASSUME FlightsOK, NEW id, NEW u \in Nat
    PROVE  /\ WithUser(id, u) \in [DOMAIN flights -> FlightEntries]
           /\ \A f \in DOMAIN flights :
                /\ WithUser(id, u)[f].title = flights[f].title
                /\ WithUser(id, u)[f].user = IF f = id THEN u ELSE flights[f].user
                /\ f # id => WithUser(id, u)[f] = flights[f]
BY DEF FlightsOK, WithUser, FlightEntries

LEMMA WithTitleEffect ==
    ASSUME FlightsOK, NEW id, NEW title \in Titles
    PROVE  /\ WithTitle(id, title) \in [DOMAIN flights -> FlightEntries]
           /\ \A f \in DOMAIN flights :
                /\ WithTitle(id, title)[f].user = flights[f].user
                /\ WithTitle(id, title)[f].title = IF f = id THEN title ELSE flights[f].title
                /\ f # id => WithTitle(id, title)[f] = flights[f]
BY DEF FlightsOK, WithTitle, FlightEntries

\* An edit changes the data of one row at most.
LEMMA WithDataEffect ==
    ASSUME RowsOK, NEW id, NEW data \in Data
    PROVE  /\ RowsTyped(WithData(id, data)) /\ UniqueSeq(WithData(id, data))
           /\ DOMAIN WithData(id, data) = DOMAIN rows
           /\ \A r \in DOMAIN rows :
                /\ WithData(id, data)[r].flight = rows[r].flight
                /\ WithData(id, data)[r].seq = rows[r].seq
                /\ WithData(id, data)[r].recorded = rows[r].recorded
                /\ WithData(id, data)[r].data = IF r = id THEN data ELSE rows[r].data
<1>1. /\ RowsTyped(WithData(id, data)) /\ DOMAIN WithData(id, data) = DOMAIN rows
      /\ \A r \in DOMAIN rows :
           /\ WithData(id, data)[r].flight = rows[r].flight
           /\ WithData(id, data)[r].seq = rows[r].seq
           /\ WithData(id, data)[r].recorded = rows[r].recorded
           /\ WithData(id, data)[r].data = IF r = id THEN data ELSE rows[r].data
  BY DEF RowsOK, RowsTyped, WithData, RowRecords
<1> HIDE DEF WithData
<1>2. UniqueSeq(WithData(id, data))
  BY <1>1 DEF UniqueSeq, RowsOK
<1> QED
  BY <1>1, <1>2

\* Without the row of an aircraft, those with a higher number move up.
ClosesGap(rs, f, id, n) ==
    /\ RowsTyped(rs)
    /\ DOMAIN rs = DOMAIN rows \ {id}
    /\ \A r \in DOMAIN rows \ {id} :
         /\ rs[r].flight = rows[r].flight
         /\ rs[r].recorded = rows[r].recorded
         /\ rs[r].data = rows[r].data
         /\ rs[r].seq = IF rows[r].flight = f /\ rows[r].seq > n THEN rows[r].seq - 1
                                                                 ELSE rows[r].seq

LEMMA WithoutRowEffect ==
    ASSUME RowsTyped(rows), NEW f, NEW id, NEW n \in Nat \ {0}
    PROVE  ClosesGap(WithoutRow(f, id, n), f, id, n)
BY DEF RowsTyped, WithoutRow, RowRecords, ClosesGap

LEMMA WithoutRowsOfEffect ==
    ASSUME RowsOK, NEW id
    PROVE  /\ RowsTyped(WithoutRowsOf(id)) /\ UniqueSeq(WithoutRowsOf(id))
           /\ DOMAIN WithoutRowsOf(id) = {x \in DOMAIN rows : rows[x].flight # id}
           /\ \A r \in DOMAIN WithoutRowsOf(id) : WithoutRowsOf(id)[r] = rows[r]
BY DEF RowsOK, RowsTyped, WithoutRowsOf, UniqueSeq

-----------------------------------------------------------------------------
(***************************************************************************)
(* Rows in the order of their numbers.                                     *)
(***************************************************************************)
LEMMA RowsAreFinite ==
    ASSUME RowsTyped(rows), NEW read \in SUBSET DOMAIN rows
    PROVE  IsFiniteSet(read) /\ Cardinality(read) \in Nat
<1>1. IsFiniteSet(RowIds)
  BY FS_Interval, BoundsAssumption DEF RowIds
<1>2. read \in SUBSET RowIds
  BY DEF RowsTyped
<1> QED
  BY <1>1, <1>2, FS_Subset, FS_CardinalityType

\* Of rows with different numbers, the i-th one is well defined.
LEMMA RankedRows ==
    ASSUME RowsTyped(rows), NEW read \in SUBSET DOMAIN rows,
           \A r, s \in read : rows[r].seq = rows[s].seq => r = s
    PROVE  /\ \A i \in 1 .. Cardinality(read) :
                /\ RowOfRank(read, i) \in read
                /\ Cardinality(LowerRows(read, RowOfRank(read, i))) = i - 1
           /\ \A r \in read : Cardinality(LowerRows(read, r)) \in 0 .. Cardinality(read) - 1
           /\ \A r, s \in read :
                Cardinality(LowerRows(read, r)) = Cardinality(LowerRows(read, s)) => r = s
<1> DEFINE n == Cardinality(read)
           rank == [r \in read |-> Cardinality(LowerRows(read, r))]
<1>1. IsFiniteSet(read) /\ n \in Nat
  BY RowsAreFinite
<1>2. ASSUME NEW r \in read
      PROVE  rank[r] \in 0 .. n - 1 /\ IsFiniteSet(LowerRows(read, r))
  <2>1. IsFiniteSet(read \ {r}) /\ Cardinality(read \ {r}) = n - 1
    BY <1>1, FS_RemoveElement
  <2>2. LowerRows(read, r) \in SUBSET (read \ {r})
    BY DEF LowerRows, RowsTyped, RowRecords
  <2>3. IsFiniteSet(LowerRows(read, r)) /\ Cardinality(LowerRows(read, r)) <= n - 1
    BY <2>1, <2>2, FS_Subset
  <2>4. Cardinality(LowerRows(read, r)) \in Nat
    BY <2>3, FS_CardinalityType
  <2> QED
    BY <1>1, <2>3, <2>4
<1>3. ASSUME NEW r \in read, NEW s \in read, rows[r].seq < rows[s].seq
      PROVE  rank[r] < rank[s]
  <2>1. /\ LowerRows(read, r) \cup {r} \in SUBSET LowerRows(read, s)
        /\ r \notin LowerRows(read, r)
    BY <1>3 DEF LowerRows, RowsTyped, RowRecords
  <2>2. Cardinality(LowerRows(read, r) \cup {r}) = rank[r] + 1
    BY <1>2, <2>1, FS_AddElement
  <2>3. Cardinality(LowerRows(read, r) \cup {r}) <= rank[s]
    BY <1>2, <2>1, FS_Subset
  <2>4. rank[r] \in Nat /\ rank[s] \in Nat
    BY <1>1, <1>2
  <2> QED
    BY <2>2, <2>3, <2>4
<1>4. ASSUME NEW r \in read, NEW s \in read, rank[r] = rank[s]
      PROVE  r = s
  <2>1. rank[r] \in Nat /\ rank[s] \in Nat
    BY <1>1, <1>2
  <2>2. rows[r].seq \in Nat /\ rows[s].seq \in Nat
    BY DEF RowsTyped, RowRecords
  <2>3. ~(rows[r].seq < rows[s].seq) /\ ~(rows[s].seq < rows[r].seq)
    BY <1>3, <1>4, <2>1
  <2> QED
    BY <2>2, <2>3
<1>5. rank \in Injection(read, 0 .. n - 1)
  BY <1>2, <1>4 DEF Injection, IsInjective
<1>6. IsFiniteSet(0 .. n - 1) /\ Cardinality(0 .. n - 1) = n
  BY <1>1, FS_Interval
<1>7. rank \in Surjection(read, 0 .. n - 1)
  BY <1>5, <1>6, FS_Injection
<1>8. ASSUME NEW i \in 1 .. n
      PROVE  \E r \in read : Cardinality(LowerRows(read, r)) = i - 1
  <2>1. i - 1 \in 0 .. n - 1
    BY <1>1
  <2>2. PICK r \in read : rank[r] = i - 1
    BY <1>7, <2>1 DEF Surjection
  <2> QED
    BY <2>2
<1>9. ASSUME NEW i \in 1 .. n
      PROVE  RowOfRank(read, i) \in read
             /\ Cardinality(LowerRows(read, RowOfRank(read, i))) = i - 1
  BY <1>8 DEF RowOfRank
<1> QED
  BY <1>2, <1>4, <1>9

\* The flight that is loaded has the aircraft read, in the order of their numbers.
LEMMA LoadedEffect ==
    ASSUME FlightsOK, RowsOK, NEW id \in DOMAIN flights, NEW read \in SUBSET RowsOf(id),
           NEW ok \in BOOLEAN
    PROVE  /\ LoadedFlight(id, read, ok) \in FlightRecords
           /\ LoadedFlight(id, read, ok).id = id
           /\ LoadedFlight(id, read, ok).user = IF ok THEN flights[id].user ELSE 0
           /\ LoadedFlight(id, read, ok).title = flights[id].title
           /\ Len(LoadedFlight(id, read, ok).aircraft) = Cardinality(read)
           /\ \A i \in 1 .. Cardinality(read) :
                /\ RowOfRank(read, i) \in read
                /\ LoadedFlight(id, read, ok).aircraft[i] = Aircraft(RowOfRank(read, i))
<1> DEFINE list == [i \in 1 .. Cardinality(read) |-> Aircraft(RowOfRank(read, i))]
           u == IF ok THEN flights[id].user ELSE 0
<1>1. /\ read \in SUBSET DOMAIN rows
      /\ \A r, s \in read : rows[r].seq = rows[s].seq => r = s
  BY DEF RowsOf, RowsOK, UniqueSeq
<1>2. \A i \in 1 .. Cardinality(read) : RowOfRank(read, i) \in read
  BY <1>1, RankedRows DEF RowsOK
<1>3. \A r \in read : Aircraft(r) \in AircraftRecords
  BY <1>1 DEF Aircraft, AircraftRecords, RowsOK, RowsTyped, RowRecords
<1>4. Cardinality(read) \in Nat
  BY <1>1, RowsAreFinite DEF RowsOK
<1>5. list \in Seq(AircraftRecords) /\ Len(list) = Cardinality(read)
  BY <1>2, <1>3, <1>4
<1>6. u \in Nat /\ flights[id].title \in Titles /\ id \in FlightIds
  BY DEF FlightsOK, FlightEntries
<1>7. LoadedFlight(id, read, ok)
        = [id |-> id, user |-> u, title |-> flights[id].title, aircraft |-> list]
  BY DEF LoadedFlight
<1>8. \A i \in 1 .. Cardinality(read) : list[i] = Aircraft(RowOfRank(read, i))
  OBVIOUS
<1>9. u = IF ok THEN flights[id].user ELSE 0
  OBVIOUS
<1> HIDE DEF list, u
<1>10. LoadedFlight(id, read, ok) \in FlightRecords
  BY <1>5, <1>6, <1>7 DEF FlightRecords
<1> QED
  BY <1>2, <1>5, <1>7, <1>8, <1>9, <1>10

-----------------------------------------------------------------------------
(***************************************************************************)
(* The values of the variables, whatever happens: the user aircraft is an  *)
(* aircraft of the flight, or the program has ended; no flight has two     *)
(* aircraft of the same number.                                            *)
(***************************************************************************)
\* A selection outlives its aircraft only if none of those that replace it is stored.
MaySelectReplaced == May("importReplaces") /\ May("importUnrecorded")

FlightOK ==
    /\ flight \in FlightRecords
    /\ running => flight.user \in DOMAIN flight.aircraft
    /\ selected \in Nat
    /\ MaySelectReplaced \/ selected \in 0 .. Len(flight.aircraft)

ControlsOK ==
    /\ recording \in BOOLEAN
    /\ module \in {"Logbook", "Formation"}
    /\ dialog.asks \in {"nothing", "deleteFlight", "deleteAircraft"}
    /\ running \in BOOLEAN
    /\ inStep \in BOOLEAN

RecordsOK == FlightsOK /\ RowsOK /\ FlightOK /\ ControlsOK

LEMMA RecordsTyped == RecordsOK => TypeOK
BY DEF RecordsOK, FlightsOK, RowsOK, RowsTyped, FlightOK, ControlsOK, TypeOK, FlightRecords

\* What is known of the current flight in a running program.
LEMMA FlightFields ==
    ASSUME FlightOK
    PROVE  /\ flight.id \in FlightIds \cup {InvalidId, RecordingId}
           /\ flight.id \in Int
           /\ flight.user \in Nat /\ flight.title \in Titles
           /\ flight.aircraft \in Seq(AircraftRecords)
           /\ Len(flight.aircraft) \in Nat
           /\ DOMAIN flight.aircraft = 1 .. Len(flight.aircraft)
           /\ running => /\ flight.aircraft # <<>>
                         /\ flight.user \in 1 .. Len(flight.aircraft)
                         /\ flight.user \in Nat \ {0}
<1>1. /\ flight.id \in FlightIds \cup {InvalidId, RecordingId}
      /\ flight.user \in Nat /\ flight.title \in Titles
      /\ flight.aircraft \in Seq(AircraftRecords)
  BY DEF FlightOK, FlightRecords
<1>2. flight.id \in Int
  BY <1>1, BoundsAssumption DEF FlightIds, InvalidId, RecordingId
<1>3. Len(flight.aircraft) \in Nat /\ DOMAIN flight.aircraft = 1 .. Len(flight.aircraft)
  BY <1>1
<1>4. running => flight.user \in 1 .. Len(flight.aircraft)
  BY <1>3 DEF FlightOK
<1> QED
  BY <1>1, <1>2, <1>3, <1>4

\* The aircraft of a flight with one aircraft is the user aircraft.
LEMMA OneAircraftOK ==
    ASSUME flight' \in FlightRecords, flight'.user = 1, Len(flight'.aircraft) = 1, selected' = 0
    PROVE  FlightOK'
<1>1. DOMAIN flight'.aircraft = 1 .. 1
  BY DEF FlightRecords
<1> QED
  BY <1>1 DEF FlightOK

LEMMA InitRecords == Init => RecordsOK
<1> SUFFICES ASSUME Init PROVE RecordsOK
  OBVIOUS
<1>1. DOMAIN flights = {} /\ DOMAIN rows = {}
  BY DEF Init
<1>2. FlightsOK /\ RowsOK
  BY <1>1 DEF Init, FlightsOK, RowsOK, RowsTyped, UniqueSeq
<1>3. FlightOK
  BY NewFlightTyped DEF Init, FlightOK, FlightRecords
<1>4. ControlsOK
  BY DEF Init, ControlsOK
<1> QED
  BY <1>2, <1>3, <1>4 DEF RecordsOK

\* A flight is stored, whether it becomes the current one or not.
LEMMA StoresTyped ==
    ASSUME FlightsOK, RowsOK, NEW fd \in FlightRecords, NEW f \in FlightIds, NEW r \in RowIds,
           Stores(f, r, fd)
    PROVE  FlightsOK' /\ RowsOK'
<1>1. fd.aircraft \in Seq(AircraftRecords) /\ fd.user \in Nat /\ fd.title \in Titles
  BY DEF FlightRecords
<1>2. FlightsOK'
  <2>1. flights' = [x \in DOMAIN flights \cup {f} |->
                      IF x = f THEN [user |-> fd.user, title |-> fd.title] ELSE flights[x]]
    BY DEF Stores
  <2> QED
    BY <1>1, <2>1 DEF FlightsOK, FlightEntries
<1>3. RowsTyped(rows')
  <2>1. RowsTyped(rows) /\ 1 \in Nat \ {0} /\ f \in Int
    BY BoundsAssumption DEF RowsOK, FlightIds
  <2>2. /\ IsNext(r, DOMAIN rows) /\ r + Len(fd.aircraft) - 1 <= MaxRows
        /\ rows' = WithRows(f, 1, r, fd.aircraft)
    BY DEF Stores
  <2>3. RowsTyped(WithRows(f, 1, r, fd.aircraft))
    BY <1>1, <2>1, <2>2, WithRowsEffect DEF AddsRows
  <2> QED
    BY <2>2, <2>3
<1>4. RowsOK'
  BY <1>3 DEF Stores, RowsOK
<1> QED
  BY <1>2, <1>4

\* A flight is stored as the current one, or fails to be.
LEMMA StoreFlightTyped ==
    ASSUME FlightsOK, RowsOK, NEW fd \in FlightRecords, fd.user \in 1 .. Len(fd.aircraft),
           StoreFlight(fd) \/ StoreFlightFails(fd)
    PROVE  /\ FlightsOK' /\ RowsOK' /\ inStep' \in BOOLEAN
           /\ flight' \in FlightRecords /\ flight'.user = fd.user
           /\ Len(flight'.aircraft) = Len(fd.aircraft)
<1>1. /\ fd.aircraft \in Seq(AircraftRecords) /\ fd.user \in Nat \ {0} /\ fd.title \in Titles
      /\ Len(fd.aircraft) \in Nat /\ DOMAIN fd.aircraft = 1 .. Len(fd.aircraft)
  BY DEF FlightRecords
<1>2. CASE StoreFlight(fd)
  <2>1. PICK f \in FlightIds, r \in RowIds :
          /\ Stores(f, r, fd)
          /\ flight' = [fd EXCEPT !.id = f, !.aircraft = Identified(fd.aircraft, r)]
          /\ inStep' = TRUE
    BY <1>2 DEF StoreFlight
  <2>2. FlightsOK' /\ RowsOK'
    BY <2>1, StoresTyped
  <2>3. /\ Identified(fd.aircraft, r) \in Seq(AircraftRecords)
        /\ Len(Identified(fd.aircraft, r)) = Len(fd.aircraft)
    BY <1>1, <2>1, IdentifiedEffect DEF Stores
  <2>4. /\ flight' \in FlightRecords /\ flight'.user = fd.user
        /\ flight'.aircraft = Identified(fd.aircraft, r)
    BY <2>1, <2>3 DEF FlightRecords
  <2> QED
    BY <2>1, <2>2, <2>3, <2>4
<1>3. CASE StoreFlightFails(fd)
  <2>1. FlightsOK' /\ RowsOK' /\ inStep' \in BOOLEAN
    BY <1>3 DEF StoreFlightFails, db, FlightsOK, RowsOK
  <2>2. CASE flight' = fd
    BY <2>1, <2>2
  <2>3. ASSUME NEW f \in FlightIds, NEW r \in RowIds, NEW k \in 0 .. Len(fd.aircraft),
               r + k - 1 <= MaxRows,
               flight' = [fd EXCEPT !.id = f, !.aircraft =
                            [i \in DOMAIN fd.aircraft |->
                                IF i <= k THEN [fd.aircraft[i] EXCEPT !.id = r + i - 1]
                                          ELSE fd.aircraft[i]]]
        PROVE  /\ flight' \in FlightRecords /\ flight'.user = fd.user
               /\ Len(flight'.aircraft) = Len(fd.aircraft)
    <3> DEFINE e(i) == IF i <= k THEN [fd.aircraft[i] EXCEPT !.id = r + i - 1]
                                 ELSE fd.aircraft[i]
               list == [i \in 1 .. Len(fd.aircraft) |-> e(i)]
    <3>1. ASSUME NEW i \in 1 .. Len(fd.aircraft) PROVE e(i) \in AircraftRecords
      <4>1. fd.aircraft[i] \in AircraftRecords
        BY <1>1
      <4>2. i <= k => r + i - 1 \in RowIds
        BY <1>1, <2>3, BoundsAssumption DEF RowIds
      <4> QED
        BY <4>1, <4>2 DEF AircraftRecords
    <3>2. flight' = [fd EXCEPT !.id = f, !.aircraft = list]
      BY <1>1, <2>3
    <3> HIDE DEF e
    <3>3. list \in Seq(AircraftRecords) /\ Len(list) = Len(fd.aircraft)
      BY <1>1, <3>1
    <3> HIDE DEF list
    <3> QED
      BY <3>2, <3>3 DEF FlightRecords
  <2> QED
    BY <1>3, <2>1, <2>2, <2>3 DEF StoreFlightFails
<1> QED
  BY <1>2, <1>3

\* One aircraft of a flight gets an identifier, or other data.
LEMMA AircraftIdEffect ==
    ASSUME NEW f \in FlightRecords, NEW i \in DOMAIN f.aircraft, NEW r \in RowIds
    PROVE  LET g == [f EXCEPT !.aircraft[i].id = r]
           IN  /\ g \in FlightRecords
               /\ g.id = f.id /\ g.user = f.user /\ g.title = f.title
               /\ Len(g.aircraft) = Len(f.aircraft)
               /\ \A j \in DOMAIN f.aircraft :
                    /\ g.aircraft[j].id = IF j = i THEN r ELSE f.aircraft[j].id
                    /\ g.aircraft[j].recorded = f.aircraft[j].recorded
                    /\ g.aircraft[j].data = f.aircraft[j].data
<1> DEFINE a == [f.aircraft[i] EXCEPT !.id = r]
           list == [f.aircraft EXCEPT ![i] = a]
           g == [f EXCEPT !.aircraft[i].id = r]
<1>1. f.aircraft \in Seq(AircraftRecords) /\ f.aircraft[i] \in AircraftRecords
  BY DEF FlightRecords
<1>2. /\ a \in AircraftRecords /\ a.id = r
      /\ a.recorded = f.aircraft[i].recorded /\ a.data = f.aircraft[i].data
  BY <1>1 DEF AircraftRecords
<1>3. g = [f EXCEPT !.aircraft = list]
  OBVIOUS
<1> HIDE DEF a, g
<1>4. /\ list \in Seq(AircraftRecords) /\ Len(list) = Len(f.aircraft)
      /\ \A j \in DOMAIN f.aircraft : list[j] = IF j = i THEN a ELSE f.aircraft[j]
  BY <1>1, <1>2, ExceptEffect
<1> HIDE DEF list
<1>5. /\ g \in FlightRecords /\ g.aircraft = list
      /\ g.id = f.id /\ g.user = f.user /\ g.title = f.title
  BY <1>3, <1>4 DEF FlightRecords
<1>6. \A j \in DOMAIN f.aircraft :
        /\ g.aircraft[j].id = IF j = i THEN r ELSE f.aircraft[j].id
        /\ g.aircraft[j].recorded = f.aircraft[j].recorded
        /\ g.aircraft[j].data = f.aircraft[j].data
  BY <1>2, <1>4, <1>5
<1> QED
  BY <1>4, <1>5, <1>6 DEF g

LEMMA AircraftDataEffect ==
    ASSUME NEW f \in FlightRecords, NEW i \in DOMAIN f.aircraft, NEW data \in Data
    PROVE  LET g == [f EXCEPT !.aircraft[i].data = data]
           IN  /\ g \in FlightRecords
               /\ g.id = f.id /\ g.user = f.user /\ g.title = f.title
               /\ Len(g.aircraft) = Len(f.aircraft)
               /\ \A j \in DOMAIN f.aircraft :
                    /\ g.aircraft[j].id = f.aircraft[j].id
                    /\ g.aircraft[j].recorded = f.aircraft[j].recorded
                    /\ g.aircraft[j].data = IF j = i THEN data ELSE f.aircraft[j].data
<1> DEFINE a == [f.aircraft[i] EXCEPT !.data = data]
           list == [f.aircraft EXCEPT ![i] = a]
           g == [f EXCEPT !.aircraft[i].data = data]
<1>1. f.aircraft \in Seq(AircraftRecords) /\ f.aircraft[i] \in AircraftRecords
  BY DEF FlightRecords
<1>2. /\ a \in AircraftRecords /\ a.data = data
      /\ a.recorded = f.aircraft[i].recorded /\ a.id = f.aircraft[i].id
  BY <1>1 DEF AircraftRecords
<1>3. g = [f EXCEPT !.aircraft = list]
  OBVIOUS
<1> HIDE DEF a, g
<1>4. /\ list \in Seq(AircraftRecords) /\ Len(list) = Len(f.aircraft)
      /\ \A j \in DOMAIN f.aircraft : list[j] = IF j = i THEN a ELSE f.aircraft[j]
  BY <1>1, <1>2, ExceptEffect
<1> HIDE DEF list
<1>5. /\ g \in FlightRecords /\ g.aircraft = list
      /\ g.id = f.id /\ g.user = f.user /\ g.title = f.title
  BY <1>3, <1>4 DEF FlightRecords
<1>6. \A j \in DOMAIN f.aircraft :
        /\ g.aircraft[j].id = f.aircraft[j].id
        /\ g.aircraft[j].recorded = f.aircraft[j].recorded
        /\ g.aircraft[j].data = IF j = i THEN data ELSE f.aircraft[j].data
  BY <1>2, <1>4, <1>5
<1> QED
  BY <1>4, <1>5, <1>6 DEF g

\* A recording in the Formation module adds an aircraft, which the user flies.
RecordingAdded ==
    [flight EXCEPT !.aircraft = Append(@, NewAircraft(RecordingId)),
                   !.user = Len(flight.aircraft) + 1]

LEMMA RecordingAddedEffect ==
    ASSUME flight \in FlightRecords
    PROVE  /\ RecordingAdded \in FlightRecords
           /\ RecordingAdded.id = flight.id /\ RecordingAdded.title = flight.title
           /\ RecordingAdded.user = Len(flight.aircraft) + 1
           /\ Len(RecordingAdded.aircraft) = Len(flight.aircraft) + 1
           /\ \A i \in 1 .. Len(flight.aircraft) :
                RecordingAdded.aircraft[i] = flight.aircraft[i]
           /\ RecordingAdded.aircraft[Len(flight.aircraft) + 1] = NewAircraft(RecordingId)
<1> DEFINE list == Append(flight.aircraft, NewAircraft(RecordingId))
<1>1. flight.aircraft \in Seq(AircraftRecords) /\ Len(flight.aircraft) \in Nat
  BY DEF FlightRecords
<1>2. NewAircraft(RecordingId) \in AircraftRecords
  BY NewAircraftTyped
<1>3. /\ list \in Seq(AircraftRecords) /\ Len(list) = Len(flight.aircraft) + 1
      /\ \A i \in 1 .. Len(flight.aircraft) : list[i] = flight.aircraft[i]
      /\ list[Len(flight.aircraft) + 1] = NewAircraft(RecordingId)
  BY <1>1, <1>2, AppendProperties
<1> HIDE DEF list
<1>4. RecordingAdded = [flight EXCEPT !.aircraft = list, !.user = Len(flight.aircraft) + 1]
  BY DEF RecordingAdded, list
<1>5. RecordingAdded = [id |-> flight.id, user |-> Len(flight.aircraft) + 1,
                        title |-> flight.title, aircraft |-> list]
  BY <1>4 DEF FlightRecords
<1>6. RecordingAdded \in FlightRecords
  BY <1>1, <1>3, <1>5 DEF FlightRecords
<1> QED
  BY <1>3, <1>5, <1>6

\* The aircraft of an import, with a recording or not
LEMMA ImportedEffect ==
    ASSUME NEW n \in Nat, NEW recs \in [1 .. n -> BOOLEAN]
    PROVE  /\ ImportedAircraft(recs) \in Seq(AircraftRecords)
           /\ Len(ImportedAircraft(recs)) = n
           /\ \A i \in 1 .. n : ImportedAircraft(recs)[i]
                                  = [id |-> InvalidId, recorded |-> recs[i], data |-> NoData]
<1>1. \A i \in 1 .. n : [id |-> InvalidId, recorded |-> recs[i], data |-> NoData] \in AircraftRecords
  BY DataAssumption DEF AircraftRecords
<1> QED
  BY <1>1 DEF ImportedAircraft

LEMMA ImportedFlightEffect ==
    ASSUME NEW n \in Nat, NEW recs \in [1 .. n -> BOOLEAN], NEW u \in 1 .. n
    PROVE  /\ ImportedFlight(recs, u) \in FlightRecords /\ ImportedFlight(recs, u).user = u
           /\ ImportedFlight(recs, u).title = NoData
           /\ ImportedFlight(recs, u).aircraft = ImportedAircraft(recs)
<1>1. ImportedFlight(recs, u) = [id |-> InvalidId, user |-> u, title |-> NoData,
                                 aircraft |-> ImportedAircraft(recs)]
  <2>1. ImportedFlight(recs, u) = [[id |-> InvalidId, user |-> 1, title |-> NoData,
                                    aircraft |-> <<NewAircraft(InvalidId)>>]
                                      EXCEPT !.user = u, !.aircraft = ImportedAircraft(recs)]
    BY DEF ImportedFlight, NewFlight
  <2> QED
    BY <2>1
<1>2. ImportedAircraft(recs) \in Seq(AircraftRecords)
  BY ImportedEffect
<1>3. u \in Nat /\ NoData \in Titles
  BY DataAssumption
<1>4. ImportedFlight(recs, u) \in FlightRecords
  BY <1>1, <1>2, <1>3 DEF FlightRecords
<1> QED
  BY <1>1, <1>4

\* The number of imported aircraft that have a recording
LEMMA RecordedCount ==
    ASSUME NEW n \in Nat, NEW recs \in [1 .. n -> BOOLEAN], NEW i \in 1 .. n
    PROVE  /\ Cardinality(RecordedUpTo(recs, n)) \in 0 .. n
           /\ Cardinality(RecordedUpTo(recs, i)) \in 0 .. Cardinality(RecordedUpTo(recs, n))
           /\ recs[i] => Cardinality(RecordedUpTo(recs, i)) # 0
<1>1. IsFiniteSet(1 .. n) /\ Cardinality(1 .. n) = n
  BY FS_Interval
<1>2. RecordedUpTo(recs, n) \in SUBSET (1 .. n)
  BY DEF RecordedUpTo
<1>3. RecordedUpTo(recs, i) \in SUBSET RecordedUpTo(recs, n)
  BY DEF RecordedUpTo
<1>4. IsFiniteSet(RecordedUpTo(recs, n)) /\ Cardinality(RecordedUpTo(recs, n)) <= n
  BY <1>1, <1>2, FS_Subset
<1>5. /\ IsFiniteSet(RecordedUpTo(recs, i))
      /\ Cardinality(RecordedUpTo(recs, i)) <= Cardinality(RecordedUpTo(recs, n))
  BY <1>3, <1>4, FS_Subset
<1>6. /\ Cardinality(RecordedUpTo(recs, n)) \in Nat
      /\ Cardinality(RecordedUpTo(recs, i)) \in Nat
  BY <1>4, <1>5, FS_CardinalityType
<1>7. recs[i] => RecordedUpTo(recs, i) # {}
  BY DEF RecordedUpTo
<1> QED
  BY <1>4, <1>5, <1>6, <1>7, FS_EmptySet

\* Those with a recording get identifiers from r on.
LEMMA IdentifiedIfRecordedEffect ==
    ASSUME NEW n \in Nat, NEW recs \in [1 .. n -> BOOLEAN], NEW r \in RowIds,
           r + Cardinality(RecordedUpTo(recs, n)) - 1 <= MaxRows
    PROVE  /\ IdentifiedIfRecorded(recs, r) \in Seq(AircraftRecords)
           /\ Len(IdentifiedIfRecorded(recs, r)) = n
<1> DEFINE c(i) == Cardinality(RecordedUpTo(recs, i))
           a(i) == [ImportedAircraft(recs)[i] EXCEPT !.id = IF recs[i] THEN r + c(i) - 1 ELSE @]
<1>1. IdentifiedIfRecorded(recs, r) = [i \in 1 .. n |-> a(i)]
  BY DEF IdentifiedIfRecorded
<1>2. ASSUME NEW i \in 1 .. n PROVE a(i) \in AircraftRecords
  <2>1. ImportedAircraft(recs)[i] = [id |-> InvalidId, recorded |-> recs[i], data |-> NoData]
    BY ImportedEffect
  <2>2. c(n) \in 0 .. n /\ c(i) \in 0 .. c(n) /\ (recs[i] => c(i) # 0)
    BY RecordedCount
  <2> HIDE DEF c
  <2>3. recs[i] => r + c(i) - 1 \in RowIds
    BY <2>2, BoundsAssumption DEF RowIds, c
  <2> QED
    BY <2>1, <2>3, DataAssumption DEF AircraftRecords
<1> HIDE DEF a
<1> QED
  BY <1>1, <1>2

LEMMA RecordsKept == RecordsOK /\ [Next]_vars => RecordsOK'
<1> SUFFICES ASSUME RecordsOK, [Next]_vars PROVE RecordsOK'
  OBVIOUS
<1>1. FlightsOK /\ RowsOK /\ FlightOK /\ ControlsOK
  BY DEF RecordsOK
<1>2. /\ flight \in FlightRecords
      /\ flight.id \in Int /\ flight.user \in Nat /\ flight.title \in Titles
      /\ flight.aircraft \in Seq(AircraftRecords)
      /\ Len(flight.aircraft) \in Nat
      /\ DOMAIN flight.aircraft = 1 .. Len(flight.aircraft)
  BY <1>1, FlightFields DEF FlightOK
<1>3. UNCHANGED db => FlightsOK' /\ RowsOK'
  BY <1>1 DEF db, FlightsOK, RowsOK
<1>4. UNCHANGED rows => RowsOK'
  BY <1>1 DEF RowsOK
<1>5. UNCHANGED flights => FlightsOK'
  BY <1>1 DEF FlightsOK
<1>6. UNCHANGED <<flight, running>> /\ selected' \in {0, selected} => FlightOK'
  BY <1>1, <1>2 DEF FlightOK
<1>7. CASE Restart
  <2>1. FlightOK'
    BY <1>7, NewFlightTyped DEF Restart, FlightOK, FlightRecords
  <2>2. ControlsOK'
    BY <1>7 DEF Restart, ControlsOK
  <2> QED
    BY <1>3, <1>7, <2>1, <2>2 DEF Restart, RecordsOK
<1>8. ASSUME NEW m \in {"Logbook", "Formation"}, ActivateModule(m) PROVE RecordsOK'
  <2>1. ControlsOK'
    BY <1>1, <1>8 DEF ActivateModule, ControlsOK
  <2> QED
    BY <1>3, <1>6, <1>8, <2>1 DEF ActivateModule, RecordsOK
<1>9. CASE running /\ StartRecording
  <2>1. ControlsOK'
    BY <1>1, <1>9 DEF StartRecording, ControlsOK
  <2>2. FlightOK'
    <3>1. CASE flight' = RecordingAdded
      BY <1>2, <1>9, <3>1, RecordingAddedEffect DEF StartRecording, FlightOK, FlightRecords
    <3>2. CASE flight' = [Cleared(flight) EXCEPT !.id = RecordingId]
      <4>1. flight.aircraft # <<>>
        BY <1>1, <1>9, FlightFields
      <4>2. flight'.user = 1 /\ flight'.aircraft = Cleared(flight).aircraft
        BY <1>2, <3>2, <4>1, ClearedEffect DEF FlightRecords
      <4>3. flight' \in FlightRecords /\ Len(flight'.aircraft) = 1
        BY <1>2, <3>2, <4>1, <4>2, ClearedEffect
      <4> QED
        BY <1>9, <4>2, <4>3 DEF StartRecording, FlightOK, FlightRecords
    <3> QED
      BY <1>9, <3>1, <3>2 DEF StartRecording, RecordingAdded
  <2> QED
    BY <1>3, <1>9, <2>1, <2>2 DEF StartRecording, RecordsOK
<1>10. CASE running /\ StopRecording
  <2>1. flight.user \in DOMAIN flight.aircraft /\ flight.user \in Nat \ {0}
    BY <1>1, <1>2, <1>10 DEF FlightOK
  <2>2. PICK rec \in BOOLEAN : StopFirstRecording(rec) \/ StopFormationRecording(rec)
    BY <1>10 DEF StopRecording
  <2> DEFINE fd == Recorded(rec)
             n == Len(fd.aircraft)
  <2>3. /\ fd \in FlightRecords /\ fd.id = flight.id /\ fd.user = flight.user
        /\ Len(fd.aircraft) = Len(flight.aircraft)
        /\ DOMAIN fd.aircraft = 1 .. Len(fd.aircraft)
    BY <1>2, <2>1, RecordedEffect
  <2>4. fd.aircraft \in Seq(AircraftRecords)
    BY <2>3 DEF FlightRecords
  <2> HIDE DEF fd
  <2>5. /\ FlightsOK' /\ RowsOK' /\ inStep' \in BOOLEAN /\ flight' \in FlightRecords
        /\ flight'.user \in 1 .. Len(flight'.aircraft)
    <3>1. CASE StopFirstRecording(rec)
      <4>1. StoreFlight(fd) \/ StoreFlightFails(fd)
        BY <3>1 DEF StopFirstRecording, fd
      <4> QED
        BY <1>1, <1>2, <2>1, <2>3, <4>1, StoreFlightTyped
    <3>2. CASE StoreAircraft(fd) /\ UNCHANGED inStep
      <4>1. PICK r \in RowIds :
              /\ IsNext(r, DOMAIN rows)
              /\ rows' = WithRows(fd.id, n, r, <<fd.aircraft[n]>>)
              /\ UniqueSeq(rows')
              /\ flights' = WithUser(fd.id, fd.user)
              /\ flight' = [fd EXCEPT !.aircraft[n].id = r]
        BY <3>2 DEF StoreAircraft
      <4>2. n \in Nat \ {0} /\ n \in DOMAIN fd.aircraft /\ fd.aircraft[n] \in AircraftRecords
        BY <1>2, <2>1, <2>3, <2>4
      <4>3. FlightsOK'
        BY <1>1, <2>1, <2>3, <4>1, WithUserEffect DEF FlightsOK
      <4>4. /\ <<fd.aircraft[n]>> \in Seq(AircraftRecords) /\ Len(<<fd.aircraft[n]>>) = 1
            /\ r + 1 - 1 <= MaxRows /\ RowsTyped(rows) /\ fd.id \in Int
        BY <1>1, <1>2, <2>3, <4>2, OneElement, BoundsAssumption DEF RowsOK, RowIds
      <4>5. RowsTyped(WithRows(fd.id, n, r, <<fd.aircraft[n]>>))
        BY <4>1, <4>2, <4>4, WithRowsEffect DEF AddsRows
      <4>6. RowsOK'
        BY <4>1, <4>5 DEF RowsOK
      <4>7. flight' \in FlightRecords /\ flight'.user = fd.user
            /\ Len(flight'.aircraft) = Len(fd.aircraft)
        BY <2>3, <4>1, <4>2, AircraftIdEffect
      <4> QED
        BY <1>1, <1>2, <2>1, <2>3, <3>2, <4>3, <4>6, <4>7 DEF ControlsOK
    <3>3. CASE /\ module = "Formation" /\ Len(flight.aircraft) > 1
               /\ flight' = RemoveAircraft(fd, n) /\ inStep' = FALSE /\ UNCHANGED db
      <4>1. n \in 1 .. Len(fd.aircraft) /\ Len(fd.aircraft) > 1
            /\ fd.user \in 1 .. Len(fd.aircraft)
        BY <1>2, <2>1, <2>3, <3>3
      <4>2. /\ flight' \in FlightRecords /\ flight'.user \in 1 .. Len(fd.aircraft) - 1
            /\ Len(flight'.aircraft) = Len(fd.aircraft) - 1
        BY <2>3, <3>3, <4>1, RemoveAircraftEffect
      <4> QED
        BY <1>3, <3>3, <4>2
    <3> QED
      BY <2>2, <3>1, <3>2, <3>3 DEF StopFormationRecording, fd
  <2>6. FlightOK'
    BY <1>10, <2>5 DEF StopRecording, FlightOK, FlightRecords
  <2>7. ControlsOK'
    BY <1>1, <1>10, <2>5 DEF StopRecording, ControlsOK
  <2> QED
    BY <2>5, <2>6, <2>7 DEF RecordsOK
<1>11. CASE ReplayStateChanged
  <2>1. ControlsOK'
    BY <1>1, <1>11 DEF ReplayStateChanged, ControlsOK
  <2> QED
    BY <1>3, <1>6, <1>11, <2>1 DEF ReplayStateChanged, RecordsOK
<1>12. CASE running /\ ClearFlight
  <2>1. flight.aircraft # <<>>
    BY <1>1, <1>12, FlightFields
  <2>2. FlightOK'
    BY <1>2, <1>12, <2>1, ClearedEffect, OneAircraftOK DEF ClearFlight
  <2>3. ControlsOK'
    BY <1>1, <1>12 DEF ClearFlight, ControlsOK
  <2> QED
    BY <1>3, <1>12, <2>2, <2>3 DEF ClearFlight, RecordsOK
<1>13. ASSUME NEW n \in 1 .. MaxAircraft, NEW recs \in [1 .. n -> BOOLEAN], NEW u \in 1 .. n,
              ImportFlight(recs, u), running
       PROVE  RecordsOK'
  <2>1. n \in Nat /\ u \in Nat
    BY BoundsAssumption
  <2> DEFINE fd == ImportedFlight(recs, u)
  <2>2. fd \in FlightRecords /\ fd.user = u /\ Len(fd.aircraft) = n
    BY <2>1, ImportedEffect, ImportedFlightEffect
  <2>3. ImportAsCurrentFlight(fd) \/ ImportIntoLogbook(fd)
    BY <1>13 DEF ImportFlight
  <2> HIDE DEF fd
  <2>4. CASE ImportAsCurrentFlight(fd)
    <3>1. (StoreFlight(fd) \/ StoreFlightFails(fd)) /\ selected' = 0
      BY <2>4 DEF ImportAsCurrentFlight
    <3>2. /\ FlightsOK' /\ RowsOK' /\ inStep' \in BOOLEAN
          /\ flight' \in FlightRecords /\ flight'.user = u
          /\ Len(flight'.aircraft) = n
      BY <1>1, <2>2, <3>1, StoreFlightTyped
    <3>3. FlightOK'
      BY <2>1, <3>1, <3>2 DEF FlightOK, FlightRecords
    <3>4. ControlsOK'
      BY <1>1, <1>13, <3>2 DEF ImportFlight, ControlsOK
    <3> QED
      BY <3>2, <3>3, <3>4 DEF RecordsOK
  <2>5. CASE ImportIntoLogbook(fd)
    <3>1. PICK f \in FlightIds, r \in RowIds : Stores(f, r, fd)
      BY <2>5 DEF ImportIntoLogbook
    <3>2. FlightsOK' /\ RowsOK'
      BY <1>1, <2>2, <3>1, StoresTyped
    <3>3. ControlsOK'
      BY <1>1, <1>13, <2>5 DEF ImportFlight, ImportIntoLogbook, ControlsOK
    <3> QED
      BY <1>6, <1>13, <2>5, <3>2, <3>3 DEF ImportFlight, ImportIntoLogbook, RecordsOK
  <2> QED
    BY <2>3, <2>4, <2>5
<1>14. ASSUME NEW n \in 1 .. MaxAircraft, NEW recs \in [1 .. n -> BOOLEAN], NEW k \in 0 .. n,
              ImportAircraft(recs, k), running
       PROVE  RecordsOK'
  <2> DEFINE stored   == Cardinality(RecordedUpTo(recs, Len(recs)))
             appended == flight.aircraft[flight.user].recorded
             one      == [i \in 1 .. k |-> TRUE]
  <2>1. n \in Nat /\ k \in Nat /\ Len(recs) = n /\ stored \in 0 .. n
    <3>1. n \in Nat /\ k \in Nat /\ Len(recs) = n /\ n \in 1 .. n
      BY BoundsAssumption
    <3> QED
      BY <3>1, RecordedCount
  <2>2. PICK r \in RowIds :
          LET list == IdentifiedIfRecorded(recs, r)
          IN  /\ IsNext(r, DOMAIN rows)
              /\ r + k - 1 <= MaxRows
              /\ rows' = WithRows(flight.id, Len(flight.aircraft) + 1, r, ImportedAircraft(one))
              /\ UniqueSeq(rows')
              /\ flight' = [flight EXCEPT !.aircraft =
                              IF k < stored THEN @ ELSE IF appended THEN @ \o list ELSE list]
    BY <1>14 DEF ImportAircraft
  <2>3. /\ k = stored \/ k < stored
        /\ flights' = IF k = 0 THEN flights ELSE WithUser(flight.id, flight.user)
        /\ running' = (flight.user <= Len(flight'.aircraft))
        /\ selected' \in {0, selected}
        /\ inStep' = (inStep /\ k \in {0, stored})
        /\ UNCHANGED <<recording, module, dialog>>
        /\ appended \/ May("importReplaces")
        /\ selected' = 0 \/ (stored = 0 /\ ~appended)
        /\ stored = n \/ May("importUnrecorded")
    BY <1>14, <2>1 DEF ImportAircraft
  <2>4. one \in [1 .. k -> BOOLEAN]
    OBVIOUS
  <2> HIDE DEF one, stored
  <2>5. ImportedAircraft(one) \in Seq(AircraftRecords) /\ Len(ImportedAircraft(one)) = k
    BY <2>1, <2>4, ImportedEffect
  <2>6. RowsTyped(rows) /\ Len(flight.aircraft) + 1 \in Nat \ {0}
    BY <1>1, <1>2 DEF RowsOK
  <2>7. RowsTyped(WithRows(flight.id, Len(flight.aircraft) + 1, r, ImportedAircraft(one)))
    BY <1>2, <2>2, <2>5, <2>6, WithRowsEffect DEF AddsRows
  <2>8. RowsOK'
    BY <2>2, <2>7 DEF RowsOK
  <2>9. flight.user \in Nat \ {0}
    BY <1>1, <1>14, FlightFields
  <2>10. FlightsOK'
    BY <1>1, <2>3, <2>9, WithUserEffect DEF FlightsOK
  <2>11. flight' \in FlightRecords /\ flight'.user = flight.user
    <3>1. CASE k < stored
      BY <1>2, <2>2, <3>1 DEF FlightRecords
    <3>2. CASE ~(k < stored)
      <4> DEFINE list == IdentifiedIfRecorded(recs, r)
      <4>1. r + Cardinality(RecordedUpTo(recs, n)) - 1 <= MaxRows
        BY <2>1, <2>2, <2>3, <3>2 DEF stored
      <4>2. list \in Seq(AircraftRecords)
        BY <2>1, <4>1, IdentifiedIfRecordedEffect
      <4> HIDE DEF list
      <4>3. flight.aircraft \o list \in Seq(AircraftRecords)
        BY <1>2, <4>2
      <4>4. \/ flight' = [flight EXCEPT !.aircraft = flight.aircraft \o list]
            \/ flight' = [flight EXCEPT !.aircraft = list]
        BY <2>2, <3>2 DEF list
      <4> QED
        BY <1>2, <4>2, <4>3, <4>4 DEF FlightRecords
    <3> QED
      BY <3>1, <3>2
  <2>12. FlightOK'
    <3>1. flight'.aircraft \in Seq(AircraftRecords) /\ Len(flight'.aircraft) \in Nat
      BY <2>11 DEF FlightRecords
    <3>2. flight.user <= Len(flight'.aircraft) => flight.user \in DOMAIN flight'.aircraft
      BY <2>9, <3>1
    <3>3. running' => flight'.user \in DOMAIN flight'.aircraft
      BY <2>3, <2>11, <3>2
    <3>4. selected' \in Nat
      BY <1>1, <2>3 DEF FlightOK
    <3>5. MaySelectReplaced \/ selected' \in 0 .. Len(flight'.aircraft)
      BY <2>3, <3>1 DEF MaySelectReplaced
    <3> QED
      BY <2>11, <3>3, <3>4, <3>5 DEF FlightOK
  <2>13. ControlsOK'
    BY <1>1, <2>3 DEF ControlsOK
  <2> QED
    BY <2>8, <2>10, <2>12, <2>13 DEF RecordsOK
<1>15. ASSUME NEW id \in DOMAIN flights, LoadFlight(id) PROVE RecordsOK'
  <2>1. PICK read \in SUBSET RowsOf(id), ok \in BOOLEAN :
          /\ flight' = LoadedFlight(id, read, ok)
          /\ running' = (flight'.user \in DOMAIN flight'.aircraft)
    BY <1>15 DEF LoadFlight
  <2>2. flight' \in FlightRecords
    BY <1>1, <2>1, LoadedEffect
  <2>3. FlightOK'
    <3>1. flight'.aircraft \in Seq(AircraftRecords)
      BY <2>2 DEF FlightRecords
    <3>2. selected' = 0 /\ 0 \in 0 .. Len(flight'.aircraft)
      BY <1>15, <3>1 DEF LoadFlight
    <3> QED
      BY <2>1, <2>2, <3>2 DEF FlightOK
  <2>4. ControlsOK'
    BY <1>1, <1>15, <2>1 DEF LoadFlight, ControlsOK
  <2> QED
    BY <1>3, <1>15, <2>3, <2>4 DEF LoadFlight, RecordsOK
<1>16. ASSUME NEW id \in DOMAIN flights, AskDeleteFlight(id) PROVE RecordsOK'
  <2>1. ControlsOK'
    BY <1>1, <1>16 DEF AskDeleteFlight, ControlsOK
  <2> QED
    BY <1>3, <1>6, <1>16, <2>1 DEF AskDeleteFlight, RecordsOK
<1>17. CASE running /\ DeleteFlight
  <2>1. FlightOK'
    <3>1. flight.aircraft # <<>>
      BY <1>1, <1>17, FlightFields
    <3>2. CASE flight' = Cleared(flight)
      BY <1>2, <1>17, <3>1, <3>2, ClearedEffect, OneAircraftOK DEF DeleteFlight
    <3>3. CASE flight' = flight
      BY <1>6, <1>17, <3>3 DEF DeleteFlight
    <3> QED
      BY <1>17, <3>2, <3>3 DEF DeleteFlight
  <2>2. FlightsOK' /\ RowsOK'
    <3>1. CASE /\ flights' = [f \in DOMAIN flights \ {dialog.id} |-> flights[f]]
               /\ rows' = WithoutRowsOf(dialog.id)
      <4>1. FlightsOK'
        BY <1>1, <3>1 DEF FlightsOK
      <4>2. RowsOK'
        BY <1>1, <3>1, WithoutRowsOfEffect DEF RowsOK
      <4> QED
        BY <4>1, <4>2
    <3> QED
      BY <1>3, <1>17, <3>1 DEF DeleteFlight
  <2>3. ControlsOK'
    BY <1>1, <1>17 DEF DeleteFlight, ControlsOK
  <2> QED
    BY <2>1, <2>2, <2>3 DEF RecordsOK
<1>18. ASSUME NEW id \in DOMAIN flights \cup {flight.id}, NEW title \in Titles,
              UpdateTitle(id, title)
       PROVE  RecordsOK'
  <2>1. FlightsOK'
    BY <1>1, <1>18, WithTitleEffect DEF UpdateTitle, FlightsOK
  <2>2. /\ flight' \in FlightRecords /\ flight'.user = flight.user
        /\ flight'.aircraft = flight.aircraft
    BY <1>2, <1>18 DEF UpdateTitle, FlightRecords
  <2>3. FlightOK'
    BY <1>1, <1>18, <2>2 DEF UpdateTitle, FlightOK
  <2>4. ControlsOK'
    BY <1>1, <1>18 DEF UpdateTitle, ControlsOK
  <2> QED
    BY <1>4, <1>18, <2>1, <2>3, <2>4 DEF UpdateTitle, RecordsOK
<1>19. ASSUME NEW i \in {0} \cup DOMAIN flight.aircraft, Select(i) PROVE RecordsOK'
  <2>1. i \in Nat /\ i \in 0 .. Len(flight.aircraft)
    BY <1>2
  <2>2. FlightOK'
    BY <1>1, <1>19, <2>1 DEF Select, FlightOK
  <2>3. ControlsOK'
    BY <1>1, <1>19 DEF Select, ControlsOK
  <2> QED
    BY <1>3, <1>19, <2>2, <2>3 DEF Select, RecordsOK
<1>20. CASE SwitchUserAircraft
  <2>1. selected \in Nat
    BY <1>1 DEF FlightOK
  <2>2. /\ flight' \in FlightRecords /\ flight'.user = selected
        /\ flight'.aircraft = flight.aircraft
    BY <1>2, <1>20, <2>1 DEF SwitchUserAircraft, FlightRecords
  <2>3. FlightOK'
    BY <1>1, <1>20, <2>2 DEF SwitchUserAircraft, FlightOK
  <2>4. FlightsOK'
    BY <1>1, <1>5, <1>20, <2>1, WithUserEffect DEF SwitchUserAircraft, FlightsOK
  <2>5. ControlsOK'
    <3>1. /\ UNCHANGED <<recording, module, dialog>>
          /\ inStep' = inStep \/ inStep' = FALSE
          /\ running' = (selected \in DOMAIN flight.aircraft)
      BY <1>20 DEF SwitchUserAircraft
    <3>2. running' \in BOOLEAN
      BY ONLY <3>1
    <3>3. inStep' \in BOOLEAN
      BY <1>1, <3>1 DEF ControlsOK
    <3> QED
      BY <1>1, <3>1, <3>2, <3>3 DEF ControlsOK
  <2> QED
    BY <1>4, <1>20, <2>3, <2>4, <2>5 DEF SwitchUserAircraft, RecordsOK
<1>21. ASSUME NEW data \in Data, EditAircraft(data) PROVE RecordsOK'
  <2>1. CASE selected \in DOMAIN flight.aircraft
    <3>1. /\ flight' \in FlightRecords /\ flight'.user = flight.user
          /\ Len(flight'.aircraft) = Len(flight.aircraft)
      <4>1. /\ flight \in FlightRecords
            /\ flight' = [flight EXCEPT !.aircraft[selected].data = data]
        BY <1>2, <1>21, <2>1 DEF EditAircraft
      <4> QED
        BY <2>1, <4>1, AircraftDataEffect
    <3>2. FlightOK'
      BY <1>1, <1>2, <1>21, <2>1, <3>1 DEF EditAircraft, FlightOK, FlightRecords
    <3>3. RowsOK'
      BY <1>1, <1>21, <2>1, WithDataEffect DEF EditAircraft, RowsOK
    <3>4. ControlsOK'
      BY <1>1, <1>21, <2>1 DEF EditAircraft, ControlsOK
    <3> QED
      BY <1>5, <1>21, <3>2, <3>3, <3>4 DEF EditAircraft, RecordsOK
  <2>2. CASE selected \notin DOMAIN flight.aircraft
    <3>1. FlightOK'
      BY <1>1, <1>21, <2>2 DEF EditAircraft, FlightOK
    <3>2. ControlsOK'
      BY <1>1, <1>21, <2>2 DEF EditAircraft, ControlsOK
    <3> QED
      BY <1>4, <1>5, <1>21, <2>2, <3>1, <3>2 DEF EditAircraft, RecordsOK
  <2> QED
    BY <2>1, <2>2
<1>22. CASE AskDeleteAircraft
  <2>1. ControlsOK'
    BY <1>1, <1>22 DEF AskDeleteAircraft, ControlsOK
  <2> QED
    BY <1>3, <1>6, <1>22, <2>1 DEF AskDeleteAircraft, RecordsOK
<1>23. CASE running /\ DeleteAircraft
  <2>1. CASE Len(flight.aircraft) = 1 \/ selected \notin DOMAIN flight.aircraft
    <3>1. FlightOK'
      BY <1>1, <1>23, <2>1 DEF DeleteAircraft, FlightOK
    <3>2. ControlsOK'
      BY <1>1, <1>23, <2>1 DEF DeleteAircraft, ControlsOK
    <3> QED
      BY <1>3, <1>23, <2>1, <3>1, <3>2 DEF DeleteAircraft, RecordsOK
  <2>2. CASE Len(flight.aircraft) # 1 /\ selected \in DOMAIN flight.aircraft
    <3> DEFINE without == WithoutRow(flight.id, flight.aircraft[selected].id, selected)
    <3>1. /\ flight' = RemoveAircraft(flight, selected)
          /\ \/ /\ UniqueSeq(without)
                /\ rows' = without
                /\ flights' = WithUser(flight.id, flight'.user)
                /\ UNCHANGED inStep
             \/ UNCHANGED db /\ inStep' = FALSE
          /\ selected' \in 0 .. Len(flight'.aircraft)
          /\ UNCHANGED <<recording, module, running>>
          /\ dialog' = [asks |-> "nothing"]
      BY <1>23, <2>2 DEF DeleteAircraft
    <3>2. /\ selected \in 1 .. Len(flight.aircraft) /\ selected \in Nat \ {0}
          /\ Len(flight.aircraft) > 1 /\ flight.user \in 1 .. Len(flight.aircraft)
      <4>1. selected \in 1 .. Len(flight.aircraft) /\ selected \in Nat \ {0}
        BY <1>2, <2>2
      <4>2. flight.user \in 1 .. Len(flight.aircraft)
        BY <1>1, <1>2, <1>23 DEF FlightOK
      <4>3. Len(flight.aircraft) > 1
        <5>1. Len(flight.aircraft) \in Nat /\ Len(flight.aircraft) # 1
          BY <1>2, <2>2
        <5>2. \A m \in Nat, u \in Nat : u \in 1 .. m /\ m # 1 => m > 1
          OBVIOUS
        <5> QED
          BY <4>1, <5>1, <5>2
      <4> QED
        BY <4>1, <4>2, <4>3
    <3>3. /\ flight' \in FlightRecords /\ flight'.user \in 1 .. Len(flight.aircraft) - 1
          /\ Len(flight'.aircraft) = Len(flight.aircraft) - 1
      BY <1>2, <3>1, <3>2, RemoveAircraftEffect
    <3>4. flight'.user \in Nat \ {0}
      BY <1>2, <3>3
    <3>5. FlightOK'
      <4>1. Len(flight'.aircraft) \in Nat /\ DOMAIN flight'.aircraft = 1 .. Len(flight'.aircraft)
        BY <3>3 DEF FlightRecords
      <4>2. selected' \in Nat
        BY <3>1, <4>1
      <4> QED
        BY <3>1, <3>3, <4>1, <4>2 DEF FlightOK
    <3>6. RowsTyped(without)
      BY <1>1, <3>2, WithoutRowEffect DEF RowsOK, ClosesGap
    <3>7. FlightsOK' /\ RowsOK'
      BY <1>1, <1>3, <3>1, <3>4, <3>6, WithUserEffect DEF FlightsOK, RowsOK
    <3>8. ControlsOK'
      BY <1>1, <3>1 DEF ControlsOK
    <3> QED
      BY <3>5, <3>7, <3>8 DEF RecordsOK
  <2> QED
    BY <2>1, <2>2
<1>24. CASE Keep
  <2>1. ControlsOK'
    BY <1>1, <1>24 DEF Keep, ControlsOK
  <2> QED
    BY <1>3, <1>6, <1>24, <2>1 DEF Keep, RecordsOK
<1>25. CASE UNCHANGED vars
  BY <1>1, <1>25 DEF vars, RecordsOK, FlightsOK, RowsOK, FlightOK, ControlsOK
<1>26. ASSUME NEW recs \in Imports, running
       PROVE  /\ \A u \in DOMAIN recs : ImportFlight(recs, u) => RecordsOK'
              /\ \A k \in 0 .. Len(recs) : ImportAircraft(recs, k) => RecordsOK'
  <2>1. PICK n \in 1 .. MaxAircraft : recs \in [1 .. n -> BOOLEAN]
    BY DEF Imports
  <2>2. DOMAIN recs = 1 .. n /\ Len(recs) = n
    BY <2>1, BoundsAssumption
  <2> QED
    BY <1>13, <1>14, <1>26, <2>1, <2>2
<1> QED
  BY <1>7, <1>8, <1>9, <1>10, <1>11, <1>12, <1>13, <1>14, <1>15, <1>16, <1>17, <1>18,
     <1>19, <1>20, <1>21, <1>22, <1>23, <1>24, <1>25, <1>26 DEF Next

\* The variables keep their types under any disturbance.
THEOREM TypeCorrect == Spec => []TypeOK
<1>1. Init => RecordsOK
  BY InitRecords
<1>2. RecordsOK /\ [Next]_vars => RecordsOK'
  BY RecordsKept
<1>3. RecordsOK => TypeOK
  BY RecordsTyped
<1> QED
  BY <1>1, <1>2, <1>3, PTL DEF Spec

=============================================================================
