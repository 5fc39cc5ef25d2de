--------------------- MODULE FlightStoreLogbook_proofs ----------------------
(***************************************************************************)
(* Proofs about FlightStore, for any number of flights, rows and aircraft. *)
(* One inductive invariant, StoreInv, holds as long as the three           *)
(* disturbances do not happen after which the code itself leaves the       *)
(* database inconsistent (Regular), whatever else fails and also if the    *)
(* program crashes; its parts are guarded by the other disturbances that   *)
(* they do not survive.  From it follow that the database is consistent,   *)
(* that no index is out of range, that the current flight agrees with its  *)
(* copy in the database, and, if no aircraft of a flight that is not       *)
(* stored is edited, that FlightStore implements Logbook.                  *)
(***************************************************************************)
EXTENDS FlightStore_proofs

\* Every flight can be stored, every imported aircraft has a recording, and an aircraft is
\* selected when it is edited or made the user aircraft.
Regular == Hazards \cap {"store", "importUnrecorded", "noSelection"} = {}

LEMMA RegularHazards ==
    ASSUME Regular
    PROVE  ~May("store") /\ ~May("importUnrecorded") /\ ~May("noSelection")
BY DEF Regular, May

\* Moreover, without the disturbances that leave an index without an aircraft: a flight
\* that is not read, aircraft that are replaced, a selection that is reset.
Calm == Regular /\ Hazards \cap {"load", "importReplaces", "dialogEvents"} = {}

LEMMA CalmHazards ==
    ASSUME Calm
    PROVE  /\ ~May("store") /\ ~May("importUnrecorded") /\ ~May("noSelection")
           /\ ~May("load") /\ ~May("importReplaces") /\ ~May("dialogEvents")
BY RegularHazards DEF Calm, May

LEMMA FlightsAreStored == ASSUME Regular, NEW fd PROVE ~StoreFlightFails(fd)
<1>1. ~May("store")
  BY RegularHazards
<1> QED
  BY <1>1, Zenon DEF StoreFlightFails

\* A set of natural numbers has a least one.
LEMMA LeastNumber ==
    ASSUME NEW T \in SUBSET Nat, T # {}
    PROVE  \E m \in T : \A k \in T : m <= k
<1> DEFINE R == {ss \in Nat \X Nat : ss[1] < ss[2]}
<1>1. IsWellFoundedOn(R, Nat)
  BY NatLessThanWellFounded DEF OpToRel
<1>2. \A x, y \in Nat : x < y => <<x, y>> \in R
  OBVIOUS
<1> HIDE DEF R
<1>3. PICK m \in T : \A k \in T : ~(<<k, m>> \in R)
  BY <1>1, WFMin
<1>4. ASSUME NEW k \in T PROVE m <= k
  <2>1. k \in Nat /\ m \in Nat /\ ~(<<k, m>> \in R)
    BY <1>3
  <2>2. ~(k < m)
    BY <1>2, <2>1
  <2> QED
    BY <2>1, <2>2
<1> QED
  BY <1>4

-----------------------------------------------------------------------------
(***************************************************************************)
(* The tables.                                                             *)
(***************************************************************************)
Owned(rs, fs) == \A r \in DOMAIN rs : rs[r].flight \in DOMAIN fs

Gapless(rs) ==
    \A r \in DOMAIN rs : rs[r].seq > 1 =>
        \E s \in DOMAIN rs : rs[s].flight = rs[r].flight /\ rs[s].seq = rs[r].seq - 1

HasRow(rs, f, n) == \E r \in DOMAIN rs : rs[r].flight = f /\ rs[r].seq = n

UsersExist(rs, fs) == \A f \in DOMAIN fs : HasRow(rs, f, fs[f].user)

LEMMA ConsistentParts ==
    LogbookConsistent <=> /\ Owned(rows, flights) /\ UniqueSeq(rows)
                          /\ Gapless(rows) /\ UsersExist(rows, flights)
BY DEF LogbookConsistent, Owned, Gapless, UsersExist, HasRow

LEMMA ConsistentNext ==
    ASSUME Owned(rows', flights'), UniqueSeq(rows'), Gapless(rows'), UsersExist(rows', flights')
    PROVE  LogbookConsistent'
BY DEF LogbookConsistent, Owned, Gapless, UsersExist, HasRow, UniqueSeq

\* The aircraft of a flight are numbered from 1 on.
LEMMA RowsBelow ==
    ASSUME NEW rs, RowsTyped(rs), Gapless(rs), NEW r \in DOMAIN rs, NEW k \in 1 .. rs[r].seq
    PROVE  HasRow(rs, rs[r].flight, k)
<1> DEFINE T == {m \in Nat : m >= k /\ HasRow(rs, rs[r].flight, m)}
<1>1. rs[r].seq \in Nat \ {0} /\ k \in Nat \ {0}
  BY DEF RowsTyped, RowRecords
<1>2. rs[r].seq \in T
  BY <1>1 DEF HasRow
<1>3. PICK m \in T : \A j \in T : m <= j
  BY <1>2, LeastNumber
<1>4. CASE m = k
  BY <1>3, <1>4
<1>5. CASE m # k
  <2>1. PICK s \in DOMAIN rs : rs[s].flight = rs[r].flight /\ rs[s].seq = m
    BY <1>3 DEF HasRow
  <2>2. m > 1 /\ m - 1 \in Nat /\ m - 1 >= k /\ ~(m <= m - 1)
    BY <1>1, <1>3, <1>5
  <2>3. HasRow(rs, rs[r].flight, m - 1)
    BY <2>1, <2>2 DEF Gapless, HasRow
  <2> QED
    BY <1>3, <2>2, <2>3
<1> QED
  BY <1>4, <1>5

\* Rows that are added with the numbers that come next leave no gap.
LEMMA AddedGapless ==
    ASSUME RowsTyped(rows), Gapless(rows), NEW f \in Int, NEW n \in Nat \ {0},
           NEW r \in RowIds, IsNext(r, DOMAIN rows), NEW list \in Seq(AircraftRecords),
           r + Len(list) - 1 <= MaxRows, n = 1 \/ HasRow(rows, f, n - 1)
    PROVE  Gapless(WithRows(f, n, r, list))
<1> DEFINE rs == WithRows(f, n, r, list)
<1>1. AddsRows(rs, f, n, r, list)
  BY WithRowsEffect
<1>2. Len(list) \in Nat /\ r \in Nat \ {0}
  BY BoundsAssumption DEF RowIds
<1> HIDE DEF rs
<1> SUFFICES ASSUME NEW x \in DOMAIN rs, rs[x].seq > 1
             PROVE  HasRow(rs, rs[x].flight, rs[x].seq - 1)
  BY DEF Gapless, HasRow, rs
<1>3. CASE x \in DOMAIN rows
  BY <1>1, <1>3 DEF Gapless, HasRow, AddsRows
<1>4. CASE x \notin DOMAIN rows
  <2>1. x \in r .. r + Len(list) - 1
    BY <1>1, <1>4 DEF AddsRows
  <2> DEFINE i == x - r + 1
  <2>2. i \in 1 .. Len(list) /\ x = r + i - 1
    BY <1>2, <2>1
  <2> HIDE DEF i
  <2>3. rs[x].flight = f /\ rs[x].seq = n + i - 1
    <3>1. rs[r + i - 1] = Row(f, n + i - 1, list[i])
      BY <1>1, <2>2 DEF AddsRows
    <3>2. rs[x] = Row(f, n + i - 1, list[i])
      BY <2>2, <3>1
    <3> QED
      BY <3>2 DEF Row
  <2>4. CASE i = 1
    <3>1. n # 1 /\ n + i - 1 = n /\ HasRow(rows, f, n - 1)
      BY <2>3, <2>4
    <3> QED
      BY <1>1, <2>3, <3>1 DEF HasRow, AddsRows
  <2>5. CASE i # 1
    <3>1. i - 1 \in 1 .. Len(list) /\ r + (i - 1) - 1 \in r .. r + Len(list) - 1
      BY <1>2, <2>2, <2>5
    <3>2. rs[r + (i - 1) - 1] = Row(f, n + (i - 1) - 1, list[i - 1])
      BY <1>1, <3>1 DEF AddsRows
    <3>3. n + (i - 1) - 1 = n + i - 1 - 1
      BY <1>2, <2>2
    <3> QED
      BY <1>1, <2>3, <3>1, <3>2, <3>3 DEF HasRow, Row, AddsRows
  <2> QED
    BY <2>4, <2>5
<1> QED
  BY <1>3, <1>4

\* Seen from the other flights, nothing has changed.
LEMMA AddedUsers ==
    ASSUME RowsTyped(rows), NEW f \in Int, NEW n \in Nat \ {0},
           NEW r \in RowIds, IsNext(r, DOMAIN rows), NEW list \in Seq(AircraftRecords),
           r + Len(list) - 1 <= MaxRows
    PROVE  \A g, k : HasRow(rows, g, k) => HasRow(WithRows(f, n, r, list), g, k)
<1>1. AddsRows(WithRows(f, n, r, list), f, n, r, list)
  BY WithRowsEffect
<1> QED
  BY <1>1 DEF HasRow, AddsRows

\* A row that has been added is one of the list.
IsAdded(rs, x, f, n, r, list) ==
    \E i \in 1 .. Len(list) : x = r + i - 1 /\ rs[x] = Row(f, n + i - 1, list[i])

LEMMA AddedRow ==
    ASSUME RowsTyped(rows), NEW rs, NEW f, NEW n \in Nat, NEW r \in RowIds,
           NEW list \in Seq(AircraftRecords), AddsRows(rs, f, n, r, list),
           NEW x \in DOMAIN rs \ DOMAIN rows
    PROVE  IsAdded(rs, x, f, n, r, list)
<1>1. Len(list) \in Nat /\ r \in Nat
  BY BoundsAssumption DEF RowIds
<1>2. x \in r .. r + Len(list) - 1
  BY DEF AddsRows
<1> DEFINE i == x - r + 1
<1>3. i \in 1 .. Len(list) /\ x = r + i - 1
  BY <1>1, <1>2
<1> HIDE DEF i
<1>4. rs[r + i - 1] = Row(f, n + i - 1, list[i])
  BY <1>3 DEF AddsRows
<1>5. rs[x] = Row(f, n + i - 1, list[i])
  BY <1>3, <1>4
<1> QED
  BY <1>3, <1>5 DEF IsAdded

\* The row of a list's aircraft has been added.
HasListed(rs, f, n, r, list, i) ==
    /\ r + i - 1 \in DOMAIN rs \ DOMAIN rows
    /\ rs[r + i - 1].flight = f /\ rs[r + i - 1].seq = n + i - 1
    /\ rs[r + i - 1].recorded = list[i].recorded /\ rs[r + i - 1].data = list[i].data

LEMMA RowOfList ==
    ASSUME RowsTyped(rows), NEW rs, NEW f, NEW n \in Nat, NEW r \in RowIds,
           NEW list \in Seq(AircraftRecords), AddsRows(rs, f, n, r, list),
           NEW i \in 1 .. Len(list)
    PROVE  HasListed(rs, f, n, r, list, i)
<1>1. Len(list) \in Nat /\ r \in Nat
  BY BoundsAssumption DEF RowIds
<1>2. rs[r + i - 1] = Row(f, n + i - 1, list[i])
  BY DEF AddsRows
<1>3. r + i - 1 \in r .. r + Len(list) - 1 /\ ~(r + i - 1 < r)
  BY <1>1
<1>4. r + i - 1 \in DOMAIN rs \ DOMAIN rows
  BY <1>3 DEF AddsRows
<1> QED
  BY <1>2, <1>4 DEF Row, HasListed

\* A row is deleted under a number that is not above its own: the unique index lets
\* that happen only where no gap remains.
LEMMA WithoutRowGapless ==
    ASSUME RowsOK, Gapless(rows), NEW id \in DOMAIN rows, NEW n \in Nat \ {0},
           n <= rows[id].seq, UniqueSeq(WithoutRow(rows[id].flight, id, n))
    PROVE  /\ rows[id].seq \in {n, n + 1}
           /\ Gapless(WithoutRow(rows[id].flight, id, n))
<1> DEFINE f == rows[id].flight
           q == rows[id].seq
           rs == WithoutRow(f, id, n)
<1>1. /\ DOMAIN rs = DOMAIN rows \ {id}
      /\ \A r \in DOMAIN rows \ {id} :
           /\ rs[r].flight = rows[r].flight
           /\ rs[r].seq = IF rows[r].flight = f /\ rows[r].seq > n THEN rows[r].seq - 1
                                                                   ELSE rows[r].seq
  <2>1. RowsTyped(rows)
    BY DEF RowsOK
  <2>2. ClosesGap(rs, f, id, n)
    BY <2>1, WithoutRowEffect
  <2> QED
    BY <2>2 DEF ClosesGap
<1>2. \A r \in DOMAIN rows : rows[r].seq \in Nat \ {0}
  BY DEF RowsOK, RowsTyped, RowRecords
<1>3. \A r, s \in DOMAIN rows : rows[r].flight = rows[s].flight /\ rows[r].seq = rows[s].seq
                                  => r = s
  BY DEF RowsOK, UniqueSeq
<1>4. \A r \in DOMAIN rows, k \in Nat \ {0} : k <= rows[r].seq
        => HasRow(rows, rows[r].flight, k)
  BY <1>2, RowsBelow DEF RowsOK
<1>5. UniqueSeq(rs)
  OBVIOUS
<1> HIDE DEF rs
<1>6. q \in {n, n + 1}
  <2> SUFFICES ASSUME ~(q \in {n, n + 1}) PROVE FALSE
    OBVIOUS
  <2>1. q > n + 1
    BY <1>2
  <2>2. PICK x \in DOMAIN rows : rows[x].flight = f /\ rows[x].seq = n + 1
    BY <1>2, <1>4, <2>1 DEF HasRow
  <2>3. PICK y \in DOMAIN rows : rows[y].flight = f /\ rows[y].seq = n
    BY <1>4 DEF HasRow
  <2>4. x # id /\ y # id /\ x # y
    BY <1>2, <2>1, <2>2, <2>3
  <2>5. rs[x].flight = f /\ rs[x].seq = n /\ rs[y].flight = f /\ rs[y].seq = n
    BY <1>1, <2>2, <2>3, <2>4
  <2> QED
    BY <1>1, <1>5, <2>4, <2>5 DEF UniqueSeq
<1>7. ASSUME NEW x \in DOMAIN rs, rs[x].seq > 1
      PROVE  HasRow(rs, rs[x].flight, rs[x].seq - 1)
  <2>1. x \in DOMAIN rows /\ x # id /\ rs[x].flight = rows[x].flight /\ rows[x].seq \in Nat \ {0}
    BY <1>1, <1>2
  <2>2. CASE rows[x].flight # f
    <3>1. rs[x].seq = rows[x].seq
      BY <1>1, <2>1, <2>2
    <3>2. PICK s \in DOMAIN rows :
            rows[s].flight = rows[x].flight /\ rows[s].seq = rows[x].seq - 1
      BY <1>7, <2>1, <3>1 DEF Gapless
    <3>3. s # id /\ rs[s].flight = rows[s].flight /\ rs[s].seq = rows[s].seq
      BY <1>1, <2>2, <3>2
    <3> QED
      BY <1>1, <2>1, <3>1, <3>2, <3>3 DEF HasRow
  <2>3. CASE rows[x].flight = f /\ rows[x].seq <= n
    <3>1. rs[x].seq = rows[x].seq
      BY <1>1, <2>1, <2>3
    <3>2. PICK s \in DOMAIN rows :
            rows[s].flight = rows[x].flight /\ rows[s].seq = rows[x].seq - 1
      BY <1>7, <2>1, <3>1 DEF Gapless
    <3>3. s # id /\ ~(rows[s].seq > n)
      BY <1>2, <2>1, <2>3, <3>2
    <3>4. rs[s].flight = rows[s].flight /\ rs[s].seq = rows[s].seq
      BY <1>1, <3>3
    <3> QED
      BY <1>1, <2>1, <3>1, <3>2, <3>3, <3>4 DEF HasRow
  <2>4. CASE rows[x].flight = f /\ rows[x].seq > n
    <3>1. rs[x].seq = rows[x].seq - 1
      BY <1>1, <2>1, <2>4
    <3>2. PICK s \in DOMAIN rows : rows[s].flight = f /\ rows[s].seq = rows[x].seq - 1
      BY <1>7, <2>1, <2>4, <3>1 DEF Gapless
    <3>3. rows[x].seq # q /\ rows[s].seq \in Nat
      BY <1>2, <1>3, <2>1, <2>4
    <3>4. CASE s # id
      <4>1. rows[s].seq > n
        <5>1. CASE q = n
          <6>1. rows[s].seq # n
            BY <1>3, <3>2, <3>4, <5>1
          <6> QED
            BY <2>1, <2>4, <3>2, <3>3, <6>1
        <5>2. CASE q = n + 1
          BY <2>1, <2>4, <3>2, <3>3, <5>2
        <5> QED
          BY <1>6, <5>1, <5>2
      <4>2. rs[s].flight = f /\ rs[s].seq = rows[s].seq - 1
        BY <1>1, <3>2, <3>4, <4>1
      <4> QED
        BY <1>1, <2>1, <2>4, <3>1, <3>2, <3>4, <4>2 DEF HasRow
    <3>5. CASE s = id
      <4>1. q = rows[x].seq - 1 /\ q > 1
        BY <1>7, <3>1, <3>2, <3>5
      <4>2. PICK t \in DOMAIN rows : rows[t].flight = f /\ rows[t].seq = q - 1
        BY <4>1 DEF Gapless
      <4>3. t # id /\ ~(rows[t].seq > n)
        BY <1>2, <1>6, <4>2
      <4>4. rs[t].flight = f /\ rs[t].seq = rs[x].seq - 1
        BY <1>1, <3>1, <4>1, <4>2, <4>3
      <4> QED
        BY <1>1, <2>1, <2>4, <4>3, <4>4 DEF HasRow
    <3> QED
      BY <3>4, <3>5
  <2> QED
    BY <2>1, <2>2, <2>3, <2>4
<1>8. Gapless(rs)
  BY <1>7 DEF Gapless, HasRow
<1> QED
  BY <1>6, <1>8 DEF rs

\* The number of an aircraft is its place in the flight: it is read as the i-th one.
Numbered(S, m) ==
    /\ m \in Nat
    /\ \A r \in S : rows[r].seq \in 1 .. m
    /\ \A i \in 1 .. m : RowOfRank(S, i) \in S /\ rows[RowOfRank(S, i)].seq = i

LEMMA RowsNumbered ==
    ASSUME RowsOK, Gapless(rows), NEW id
    PROVE  Numbered(RowsOf(id), Cardinality(RowsOf(id)))
<1> DEFINE S == RowsOf(id)
           m == Cardinality(S)
<1>1. /\ S \in SUBSET DOMAIN rows /\ RowsTyped(rows)
      /\ \A r, s \in S : rows[r].seq = rows[s].seq => r = s
      /\ \A r \in S : rows[r].flight = id /\ rows[r].seq \in Nat \ {0}
  BY DEF RowsOf, RowsOK, UniqueSeq, RowsTyped, RowRecords
<1>2. IsFiniteSet(S) /\ m \in Nat
  BY <1>1, RowsAreFinite
<1>3. ASSUME NEW r \in S PROVE Cardinality(LowerRows(S, r)) = rows[r].seq - 1
  <2> DEFINE T == LowerRows(S, r)
             N == 1 .. rows[r].seq - 1
             g == [s \in T |-> rows[s].seq]
  <2>1. T \in SUBSET S /\ \A s \in T : rows[s].seq < rows[r].seq
    BY DEF LowerRows
  <2> HIDE DEF T
  <2>2. \A s \in T : g[s] \in N
    BY <1>1, <2>1
  <2>3. \A s, t \in T : g[s] = g[t] => s = t
    BY <1>1, <2>1
  <2>4. ASSUME NEW k \in N PROVE \E s \in T : g[s] = k
    <3>1. k \in 1 .. rows[r].seq /\ k < rows[r].seq
      BY <1>1
    <3>2. PICK s \in DOMAIN rows : rows[s].flight = id /\ rows[s].seq = k
      BY <1>1, <3>1, RowsBelow DEF HasRow
    <3>3. s \in T
      BY <3>1, <3>2 DEF LowerRows, RowsOf, T
    <3> QED
      BY <3>2, <3>3
  <2>5. g \in Bijection(T, N)
    BY <2>2, <2>3, <2>4 DEF Bijection, Injection, Surjection, IsInjective
  <2>6. ExistsBijection(T, N)
    BY <2>5 DEF ExistsBijection
  <2>7. IsFiniteSet(T)
    BY <1>2, <2>1, FS_Subset
  <2> HIDE DEF N
  <2>8. Cardinality(T) = Cardinality(N)
    BY <2>6, <2>7, FS_Bijection
  <2>9. Cardinality(N) = rows[r].seq - 1
    <3>1. \A b \in Nat : Cardinality(1 .. b) = b
      BY FS_Interval
    <3>2. rows[r].seq - 1 \in Nat
      BY <1>1
    <3> QED
      BY <3>1, <3>2 DEF N
  <2> QED
    BY <2>8, <2>9 DEF T
<1>4. ASSUME NEW r \in S PROVE rows[r].seq \in 1 .. m
  <2>1. Cardinality(LowerRows(S, r)) \in 0 .. m - 1
    BY <1>1, RankedRows
  <2> QED
    BY <1>1, <1>2, <1>3, <2>1
<1>5. ASSUME NEW i \in 1 .. m
      PROVE  RowOfRank(S, i) \in S /\ rows[RowOfRank(S, i)].seq = i
  <2>1. RowOfRank(S, i) \in S /\ Cardinality(LowerRows(S, RowOfRank(S, i))) = i - 1
    BY <1>1, RankedRows
  <2>2. rows[RowOfRank(S, i)].seq - 1 = i - 1 /\ rows[RowOfRank(S, i)].seq \in Nat
    BY <1>1, <1>3, <2>1
  <2> QED
    BY <1>2, <2>1, <2>2
<1> QED
  BY <1>2, <1>4, <1>5 DEF Numbered

-----------------------------------------------------------------------------
(***************************************************************************)
(* The current flight and its copy.  A transaction that fails leaves more  *)
(* aircraft in the database than in memory, never less, and the aircraft   *)
(* in memory may have moved up: the number of its row is at least its      *)
(* place.                                                                  *)
(***************************************************************************)
Known == flight.id \in DOMAIN flights

\* The places of the aircraft that have been stored: not the one being recorded.
Held == 1 .. (IF recording THEN Len(flight.aircraft) - 1 ELSE Len(flight.aircraft))

NewIsEmpty ==
    ~Known => /\ flight.id \in {InvalidId, RecordingId}
              /\ Len(flight.aircraft) = 1 /\ ~flight.aircraft[1].recorded

HeldHasRow ==
    Known => \A i \in Held :
        /\ flight.aircraft[i].id \in DOMAIN rows
        /\ rows[flight.aircraft[i].id].flight = flight.id
        /\ rows[flight.aircraft[i].id].seq >= i

HeldOnce ==
    Known => \A i, j \in Held : flight.aircraft[i].id = flight.aircraft[j].id => i = j

RecordsLast ==
    Known /\ recording =>
        /\ module = "Formation" /\ Len(flight.aircraft) > 1
        /\ flight.user = Len(flight.aircraft)
        /\ flight.aircraft[Len(flight.aircraft)].id = RecordingId

\* What a confirmation is about is still there when it is answered; if the session goes
\* on meanwhile, at least the selection is reset.
DialogOK ==
    /\ ~May("dialogEvents") =>
         /\ dialog.asks # "nothing" => ~recording
         /\ dialog.asks = "deleteAircraft" => Len(flight.aircraft) > 1 /\ selected # 0
    /\ dialog.asks = "deleteAircraft" /\ selected # 0 => ~recording

\* Nothing is left out or replaced behind the back of the database.
Faithful == ~May("load") /\ ~May("importReplaces")

\* Nothing has failed: the copy is exact.
Exact == inStep /\ Faithful

SameAircraft ==
    Exact /\ Known =>
        /\ \A i \in Held :
             /\ rows[flight.aircraft[i].id].seq = i
             /\ rows[flight.aircraft[i].id].recorded = flight.aircraft[i].recorded
             /\ rows[flight.aircraft[i].id].data = flight.aircraft[i].data
        /\ \A r \in RowsOf(flight.id) : \E i \in Held : flight.aircraft[i].id = r

SameFlight ==
    Exact /\ Known =>
        /\ ~recording => flights[flight.id].user = flight.user
        /\ flights[flight.id].title = flight.title

CurrentOK == NewIsEmpty /\ HeldHasRow /\ HeldOnce /\ RecordsLast
Agrees    == SameAircraft /\ SameFlight

SoundFlight == CurrentOK /\ DialogOK /\ Agrees

StoreInv ==
    /\ LogbookConsistent
    /\ running \/ Faithful => SoundFlight
    /\ Calm => running

LEMMA AgreesStored == Faithful /\ RecordsOK /\ CurrentOK /\ Agrees => StoreAgrees
<1> SUFFICES ASSUME RecordsOK, CurrentOK, Agrees, Exact, Known PROVE StoreAgrees
  BY DEF StoreAgrees, Known, Exact
<1>1. /\ flight.aircraft \in Seq(AircraftRecords) /\ Len(flight.aircraft) \in Nat
      /\ DOMAIN flight.aircraft = 1 .. Len(flight.aircraft)
  BY FlightFields DEF RecordsOK
<1>2. ASSUME NEW i \in DOMAIN flight.aircraft, IsStored(i)
      PROVE  /\ flight.aircraft[i].id \in DOMAIN rows
             /\ rows[flight.aircraft[i].id] = Row(flight.id, i, flight.aircraft[i])
  <2>1. i \in Held
    BY <1>1, <1>2 DEF IsStored, Held, CurrentOK, RecordsLast
  <2>2. /\ flight.aircraft[i].id \in DOMAIN rows
        /\ rows[flight.aircraft[i].id].flight = flight.id
    BY <2>1 DEF CurrentOK, HeldHasRow
  <2>3. /\ rows[flight.aircraft[i].id].seq = i
        /\ rows[flight.aircraft[i].id].recorded = flight.aircraft[i].recorded
        /\ rows[flight.aircraft[i].id].data = flight.aircraft[i].data
    BY <2>1 DEF Agrees, SameAircraft
  <2>4. rows[flight.aircraft[i].id] \in RowRecords
    BY <2>2 DEF RecordsOK, RowsOK, RowsTyped
  <2> QED
    BY <2>2, <2>3, <2>4 DEF Row, RowRecords
<1>3. \A r \in RowsOf(flight.id) : \E i \in DOMAIN flight.aircraft : flight.aircraft[i].id = r
  <2>1. Held \subseteq DOMAIN flight.aircraft
    BY <1>1 DEF Held
  <2> QED
    BY <2>1 DEF Agrees, SameAircraft
<1>4. /\ ~recording => flights[flight.id].user = flight.user
      /\ flights[flight.id].title = flight.title
  BY DEF Agrees, SameFlight
<1> QED
  BY <1>2, <1>3, <1>4 DEF StoreAgrees

Removes(g, f, i) ==
    /\ g.id = f.id /\ g.title = f.title
    /\ g.user \in 1 .. Len(f.aircraft) - 1
    /\ Len(g.aircraft) = Len(f.aircraft) - 1
    /\ \A j \in 1 .. Len(f.aircraft) - 1 :
         g.aircraft[j] = IF j < i THEN f.aircraft[j] ELSE f.aircraft[j + 1]

LEMMA RemovesEffect ==
    ASSUME NEW f \in FlightRecords, NEW i \in 1 .. Len(f.aircraft), Len(f.aircraft) > 1,
           f.user \in 1 .. Len(f.aircraft)
    PROVE  Removes(RemoveAircraft(f, i), f, i)
BY RemoveAircraftEffect DEF Removes

\* A flight that has no copy has nothing to agree with.
LEMMA NewFlightOK ==
    ASSUME RecordsOK', flight'.id \in {InvalidId, RecordingId},
           Len(flight'.aircraft) = 1, ~flight'.aircraft[1].recorded
    PROVE  CurrentOK' /\ Agrees'
<1>1. ~Known'
  <2>1. DOMAIN flights' \subseteq FlightIds
    BY DEF RecordsOK, FlightsOK
  <2>2. flight'.id \notin FlightIds
    BY BoundsAssumption DEF FlightIds, InvalidId, RecordingId
  <2> QED
    BY <2>1, <2>2 DEF Known
<1>2. CurrentOK'
  BY <1>1 DEF CurrentOK, NewIsEmpty, HeldHasRow, HeldOnce, RecordsLast
<1>3. Agrees'
  BY <1>1 DEF Agrees, SameAircraft, SameFlight
<1> QED
  BY <1>2, <1>3

\* Whatever leaves flight and database alone.
LEMMA SameCurrent ==
    ASSUME CurrentOK, Agrees, UNCHANGED <<db, flight, recording, inStep>>,
           recording => UNCHANGED module
    PROVE  CurrentOK' /\ Agrees'
<1>1. /\ UNCHANGED <<flights, rows, flight, recording, inStep>>
      /\ Known' <=> Known
      /\ Held' = Held
  BY DEF db, Known, Held
<1>2. NewIsEmpty' /\ HeldHasRow' /\ HeldOnce'
  BY <1>1 DEF CurrentOK, NewIsEmpty, HeldHasRow, HeldOnce
<1>3. RecordsLast'
  BY <1>1 DEF CurrentOK, RecordsLast
<1>4. SameAircraft' /\ SameFlight'
  BY <1>1 DEF Agrees, SameAircraft, SameFlight, Exact, RowsOf
<1> QED
  BY <1>2, <1>3, <1>4 DEF CurrentOK, Agrees

\* The aircraft that are held stay the same.
LEMMA SameHeld ==
    ASSUME Known, CurrentOK, Agrees, flight'.id = flight.id, UNCHANGED rows, Held' = Held,
           \A i \in Held : flight'.aircraft[i] = flight.aircraft[i],
           inStep' => inStep
    PROVE  HeldHasRow' /\ HeldOnce' /\ SameAircraft'
<1> DEFINE a(i) == flight.aircraft[i]
           b(i) == flight'.aircraft[i]
<1>1. \A i \in Held : b(i) = a(i)
  OBVIOUS
<1>2. \A i \in Held : /\ a(i).id \in DOMAIN rows
                       /\ rows[a(i).id].flight = flight.id /\ rows[a(i).id].seq >= i
  BY DEF CurrentOK, HeldHasRow
<1>3. \A i, j \in Held : a(i).id = a(j).id => i = j
  BY DEF CurrentOK, HeldOnce
<1>4. Exact => /\ \A i \in Held : /\ rows[a(i).id].seq = i
                                   /\ rows[a(i).id].recorded = a(i).recorded
                                   /\ rows[a(i).id].data = a(i).data
               /\ \A r \in RowsOf(flight.id) : \E i \in Held : a(i).id = r
  BY DEF Agrees, SameAircraft
<1>5. RowsOf(flight.id)' = RowsOf(flight.id)
  BY DEF RowsOf
<1> HIDE DEF a, b
<1>6. \A i \in Held : /\ b(i).id \in DOMAIN rows
                       /\ rows[b(i).id].flight = flight.id /\ rows[b(i).id].seq >= i
  BY <1>1, <1>2
<1>7. \A i, j \in Held : b(i).id = b(j).id => i = j
  BY <1>1, <1>3
<1>8. Exact => /\ \A i \in Held : /\ rows[b(i).id].seq = i
                                   /\ rows[b(i).id].recorded = b(i).recorded
                                   /\ rows[b(i).id].data = b(i).data
               /\ \A r \in RowsOf(flight.id) : \E i \in Held : b(i).id = r
  BY <1>1, <1>4
<1>9. HeldHasRow'
  BY <1>6 DEF HeldHasRow, b
<1>10. HeldOnce'
  BY <1>7 DEF HeldOnce, b
<1>11. SameAircraft'
  <2>1. Exact' => Exact
    BY DEF Exact
  <2> QED
    BY <1>5, <1>8, <2>1 DEF SameAircraft, b
<1> QED
  BY <1>9, <1>10, <1>11

LEMMA SameDatabase == ASSUME LogbookConsistent, UNCHANGED db PROVE LogbookConsistent'
BY DEF LogbookConsistent, UniqueSeq, db

\* Each place that is held has a row in the database with its number.
LEMMA HeldNumbers ==
    ASSUME RecordsOK, Known, LogbookConsistent, CurrentOK, NEW i \in Held
    PROVE  HasRow(rows, flight.id, i)
<1>1. RowsTyped(rows) /\ Gapless(rows)
  BY ConsistentParts DEF RecordsOK, RowsOK
<1>2. /\ flight.aircraft[i].id \in DOMAIN rows
      /\ rows[flight.aircraft[i].id].flight = flight.id
      /\ rows[flight.aircraft[i].id].seq >= i
  BY DEF CurrentOK, HeldHasRow
<1>3. rows[flight.aircraft[i].id].seq \in Nat
  BY <1>1, <1>2 DEF RowsTyped, RowRecords
<1>4. i \in 1 .. rows[flight.aircraft[i].id].seq
  <2>1. Len(flight.aircraft) \in Nat
    BY FlightFields DEF RecordsOK
  <2> QED
    BY <1>2, <1>3, <2>1 DEF Held
<1> QED
  BY <1>1, <1>2, <1>4, RowsBelow

-----------------------------------------------------------------------------
(***************************************************************************)
(* A flight that is stored.                                                *)
(***************************************************************************)

\* What storing a flight adds to the tables, with the new identifiers f and r, ...
AddsFlight(fd, f, r) ==
    /\ f \in FlightIds \ DOMAIN flights
    /\ r \in RowIds /\ IsNext(r, DOMAIN rows) /\ r + Len(fd.aircraft) - 1 <= MaxRows
    /\ DOMAIN flights' = DOMAIN flights \cup {f}
    /\ \A g \in DOMAIN flights : flights'[g] = flights[g]
    /\ flights'[f].user = fd.user /\ flights'[f].title = fd.title
    /\ rows' = WithRows(f, 1, r, fd.aircraft)
    /\ AddsRows(rows', f, 1, r, fd.aircraft)

\* ... and what it does to the current flight, if that is the one.
StoresAs(fd, f, r) ==
    /\ AddsFlight(fd, f, r)
    /\ flight'.id = f /\ flight'.user = fd.user /\ flight'.title = fd.title
    /\ Len(flight'.aircraft) = Len(fd.aircraft)
    /\ \A i \in 1 .. Len(fd.aircraft) :
         /\ flight'.aircraft[i].id = r + i - 1
         /\ flight'.aircraft[i].recorded = fd.aircraft[i].recorded
         /\ flight'.aircraft[i].data = fd.aircraft[i].data
    /\ inStep'

LEMMA StoresEffect ==
    ASSUME FlightsOK, RowsOK, NEW fd \in FlightRecords, NEW f \in FlightIds, NEW r \in RowIds,
           Stores(f, r, fd)
    PROVE  AddsFlight(fd, f, r)
<1>1. fd.aircraft \in Seq(AircraftRecords) /\ RowsTyped(rows) /\ 1 \in Nat \ {0}
  BY DEF FlightRecords, RowsOK
<1>2. /\ IsNext(f, DOMAIN flights)
      /\ IsNext(r, DOMAIN rows)
      /\ r + Len(fd.aircraft) - 1 <= MaxRows
      /\ flights' = [x \in DOMAIN flights \cup {f} |->
                       IF x = f THEN [user |-> fd.user, title |-> fd.title] ELSE flights[x]]
      /\ rows' = WithRows(f, 1, r, fd.aircraft)
  BY DEF Stores
<1>3. f \in Int /\ f \notin DOMAIN flights
  BY <1>2, BoundsAssumption DEF FlightIds, IsNext
<1>4. AddsRows(rows', f, 1, r, fd.aircraft)
  BY <1>1, <1>2, <1>3, WithRowsEffect
<1>5. /\ DOMAIN flights' = DOMAIN flights \cup {f}
      /\ \A g \in DOMAIN flights : flights'[g] = flights[g]
      /\ flights'[f].user = fd.user /\ flights'[f].title = fd.title
  BY <1>2, <1>3
<1> QED
  BY <1>2, <1>3, <1>4, <1>5 DEF AddsFlight

LEMMA StoreFlightEffect ==
    ASSUME FlightsOK, RowsOK, NEW fd \in FlightRecords, StoreFlight(fd)
    PROVE  \E f, r : StoresAs(fd, f, r)
<1>1. fd.aircraft \in Seq(AircraftRecords) /\ Len(fd.aircraft) \in Nat
  BY DEF FlightRecords
<1>2. PICK f \in FlightIds, r \in RowIds :
        /\ Stores(f, r, fd)
        /\ flight' = [fd EXCEPT !.id = f, !.aircraft = Identified(fd.aircraft, r)]
        /\ inStep' = TRUE
  BY Zenon DEF StoreFlight
<1>3. AddsFlight(fd, f, r) /\ r + Len(fd.aircraft) - 1 <= MaxRows
  BY <1>2, StoresEffect DEF AddsFlight
<1> DEFINE list == Identified(fd.aircraft, r)
<1>6. /\ Len(list) = Len(fd.aircraft)
      /\ \A i \in 1 .. Len(fd.aircraft) :
           /\ list[i].id = r + i - 1
           /\ list[i].recorded = fd.aircraft[i].recorded
           /\ list[i].data = fd.aircraft[i].data
  BY <1>1, <1>2, <1>3, IdentifiedEffect
<1> HIDE DEF list
<1>7. flight' = [fd EXCEPT !.id = f, !.aircraft = list]
  BY <1>2 DEF list
<1>8. /\ flight'.id = f /\ flight'.user = fd.user /\ flight'.title = fd.title
      /\ flight'.aircraft = list
  BY <1>7 DEF FlightRecords
<1>9. StoresAs(fd, f, r)
  BY <1>2, <1>3, <1>6, <1>8 DEF StoresAs
<1> QED
  BY <1>9

\* The flights in the tables are the ones from before and the new one.
LEMMA FlightAdded ==
    ASSUME RecordsOK, RecordsOK', LogbookConsistent, NEW fd \in FlightRecords,
           fd.user \in 1 .. Len(fd.aircraft), NEW f, NEW r, AddsFlight(fd, f, r)
    PROVE  /\ LogbookConsistent'
           /\ DOMAIN rows \subseteq DOMAIN rows'
           /\ \A x \in DOMAIN rows : rows'[x] = rows[x] /\ rows'[x].flight # f
           /\ \A x \in DOMAIN rows' \ DOMAIN rows :
                \E i \in 1 .. Len(fd.aircraft) :
                  x = r + i - 1 /\ rows'[x] = Row(f, 1 + i - 1, fd.aircraft[i])
           /\ \A i \in 1 .. Len(fd.aircraft) :
                /\ r + i - 1 \in DOMAIN rows' \ DOMAIN rows
                /\ rows'[r + i - 1].flight = f /\ rows'[r + i - 1].seq = i
                /\ rows'[r + i - 1].recorded = fd.aircraft[i].recorded
                /\ rows'[r + i - 1].data = fd.aircraft[i].data
<1> DEFINE list == fd.aircraft
<1>2. /\ f \in FlightIds /\ f \notin DOMAIN flights /\ f \in Int
      /\ r \in RowIds /\ IsNext(r, DOMAIN rows)
      /\ r + Len(list) - 1 <= MaxRows
      /\ rows' = WithRows(f, 1, r, list) /\ AddsRows(rows', f, 1, r, list)
      /\ DOMAIN flights' = DOMAIN flights \cup {f}
      /\ \A g \in DOMAIN flights : flights'[g] = flights[g]
      /\ flights'[f].user = fd.user
  BY BoundsAssumption DEF AddsFlight, FlightIds
<1>3. /\ list \in Seq(AircraftRecords) /\ Len(list) \in Nat
      /\ RowsTyped(rows) /\ 1 \in Nat \ {0} /\ 1 \in Nat
  BY DEF FlightRecords, RecordsOK, RowsOK
<1>4. Owned(rows, flights) /\ Gapless(rows) /\ UsersExist(rows, flights)
  BY ConsistentParts
<1>5. /\ DOMAIN rows \subseteq DOMAIN rows'
      /\ \A x \in DOMAIN rows : rows'[x] = rows[x] /\ rows'[x].flight # f
  BY <1>2, <1>4 DEF AddsRows, Owned
<1>6. \A x \in DOMAIN rows' \ DOMAIN rows :
        \E i \in 1 .. Len(list) : x = r + i - 1 /\ rows'[x] = Row(f, 1 + i - 1, list[i])
  <2>1. ASSUME NEW x \in DOMAIN rows' \ DOMAIN rows PROVE IsAdded(rows', x, f, 1, r, list)
    BY <1>2, <1>3, AddedRow
  <2> QED
    BY <2>1 DEF IsAdded
<1>7. \A i \in 1 .. Len(list) :
        /\ r + i - 1 \in DOMAIN rows' \ DOMAIN rows
        /\ rows'[r + i - 1].flight = f /\ rows'[r + i - 1].seq = i
        /\ rows'[r + i - 1].recorded = list[i].recorded
        /\ rows'[r + i - 1].data = list[i].data
  <2>1. ASSUME NEW i \in 1 .. Len(list)
        PROVE  /\ r + i - 1 \in DOMAIN rows' \ DOMAIN rows
               /\ rows'[r + i - 1].flight = f /\ rows'[r + i - 1].seq = 1 + i - 1
               /\ rows'[r + i - 1].recorded = list[i].recorded
               /\ rows'[r + i - 1].data = list[i].data
    BY <1>2, <1>3, RowOfList DEF HasListed
  <2>2. \A i \in 1 .. Len(list) : 1 + i - 1 = i
    BY <1>3
  <2> QED
    BY <2>1, <2>2
<1>8. LogbookConsistent'
  <2>1. Gapless(rows')
    BY <1>2, <1>3, <1>4, AddedGapless
  <2>2. UniqueSeq(rows')
    BY DEF RecordsOK, RowsOK
  <2>3. Owned(rows', flights')
    <3>1. ASSUME NEW x \in DOMAIN rows' PROVE rows'[x].flight \in DOMAIN flights'
      <4>1. CASE x \in DOMAIN rows
        BY <1>2, <1>4, <1>5, <4>1 DEF Owned
      <4>2. CASE x \notin DOMAIN rows
        <5>1. PICK i \in 1 .. Len(list) : rows'[x] = Row(f, 1 + i - 1, list[i])
          BY <1>6, <4>2
        <5> QED
          BY <1>2, <5>1 DEF Row
      <4> QED
        BY <4>1, <4>2
    <3> QED
      BY <3>1 DEF Owned
  <2>4. UsersExist(rows', flights')
    <3>1. ASSUME NEW g \in DOMAIN flights PROVE HasRow(rows', g, flights'[g].user)
      <4>1. HasRow(rows, g, flights[g].user) /\ flights'[g] = flights[g]
        BY <1>2, <1>4 DEF UsersExist
      <4> QED
        BY <1>5, <4>1 DEF HasRow
    <3>2. HasRow(rows', f, flights'[f].user)
      BY <1>2, <1>7 DEF HasRow
    <3> QED
      BY <1>2, <3>1, <3>2 DEF UsersExist
  <2> QED
    BY <2>1, <2>2, <2>3, <2>4, ConsistentNext
<1> QED
  BY <1>5, <1>6, <1>7, <1>8

LEMMA StoreFlightKept ==
    ASSUME RecordsOK, RecordsOK', LogbookConsistent, ~recording',
           NEW fd \in FlightRecords, fd.user \in 1 .. Len(fd.aircraft), StoreFlight(fd)
    PROVE  LogbookConsistent' /\ CurrentOK' /\ Agrees'
<1>1. PICK f, r : StoresAs(fd, f, r)
  BY StoreFlightEffect DEF RecordsOK
<1> DEFINE list == fd.aircraft
<1>2. f \in FlightIds /\ r \in RowIds /\ DOMAIN flights' = DOMAIN flights \cup {f}
  BY <1>1 DEF StoresAs, AddsFlight
<1>3. Len(list) \in Nat
  BY DEF FlightRecords
<1>4. AddsFlight(fd, f, r)
  BY <1>1 DEF StoresAs
<1>5. \A x \in DOMAIN rows : rows'[x].flight # f
  BY <1>4, FlightAdded
<1>6. \A x \in DOMAIN rows' \ DOMAIN rows : \E i \in 1 .. Len(list) : x = r + i - 1
  BY <1>4, FlightAdded
<1>7. \A i \in 1 .. Len(list) :
        /\ r + i - 1 \in DOMAIN rows' \ DOMAIN rows
        /\ rows'[r + i - 1].flight = f /\ rows'[r + i - 1].seq = i
        /\ rows'[r + i - 1].recorded = list[i].recorded
        /\ rows'[r + i - 1].data = list[i].data
  BY <1>4, FlightAdded
<1>8. LogbookConsistent'
  BY <1>4, FlightAdded
<1>9. Known' /\ Held' = 1 .. Len(list)
  BY <1>1, <1>2 DEF StoresAs, Known, Held
<1>10. \A i \in Held' : flight'.aircraft[i].id = r + i - 1
  BY <1>1, <1>9 DEF StoresAs
<1>11. CurrentOK'
  <2>1. HeldHasRow'
    <3>1. ASSUME NEW i \in 1 .. Len(list)
          PROVE  /\ flight'.aircraft[i].id \in DOMAIN rows'
                 /\ rows'[flight'.aircraft[i].id].flight = flight'.id
                 /\ rows'[flight'.aircraft[i].id].seq >= i
      <4>1. flight'.aircraft[i].id = r + i - 1 /\ flight'.id = f /\ i \in Nat
        BY <1>1, <1>3, <1>9, <1>10 DEF StoresAs
      <4>2. rows'[flight'.aircraft[i].id].seq = i
        BY <1>7, <4>1
      <4> QED
        BY <1>7, <4>1, <4>2
    <3> QED
      BY <1>9, <3>1 DEF HeldHasRow
  <2>2. HeldOnce'
    <3>1. \A i, j \in 1 .. Len(list) : r + i - 1 = r + j - 1 => i = j
      BY <1>2, <1>3, BoundsAssumption DEF RowIds
    <3> QED
      BY <1>9, <1>10, <3>1 DEF HeldOnce
  <2> QED
    BY <1>9, <2>1, <2>2 DEF CurrentOK, NewIsEmpty, RecordsLast
<1>12. SameAircraft'
  <2>1. ASSUME NEW i \in 1 .. Len(list)
        PROVE  /\ rows'[flight'.aircraft[i].id].seq = i
               /\ rows'[flight'.aircraft[i].id].recorded = flight'.aircraft[i].recorded
               /\ rows'[flight'.aircraft[i].id].data = flight'.aircraft[i].data
    BY <1>1, <1>7, <1>9, <1>10 DEF StoresAs
  <2>2. ASSUME NEW x \in DOMAIN rows', rows'[x].flight = flight'.id
        PROVE  \E i \in 1 .. Len(list) : flight'.aircraft[i].id = x
    <3>1. x \notin DOMAIN rows
      BY <1>1, <1>5, <2>2 DEF StoresAs
    <3> QED
      BY <1>6, <1>9, <1>10, <3>1
  <2> QED
    BY <1>9, <2>1, <2>2 DEF SameAircraft, RowsOf
<1>13. SameFlight'
  BY <1>1 DEF StoresAs, AddsFlight, SameFlight
<1> QED
  BY <1>8, <1>11, <1>12, <1>13 DEF Agrees

\* A flight is stored beside the current one.
LEMMA StoreBesideKept ==
    ASSUME RecordsOK, RecordsOK', LogbookConsistent, CurrentOK, Agrees,
           NEW fd \in FlightRecords, fd.user \in 1 .. Len(fd.aircraft),
           NEW f \in FlightIds, NEW r \in RowIds, Stores(f, r, fd),
           UNCHANGED <<flight, recording, module, inStep>>
    PROVE  LogbookConsistent' /\ CurrentOK' /\ Agrees'
<1>1. AddsFlight(fd, f, r)
  BY StoresEffect DEF RecordsOK
<1>2. /\ f \notin DOMAIN flights /\ DOMAIN flights' = DOMAIN flights \cup {f}
      /\ \A g \in DOMAIN flights : flights'[g] = flights[g]
  BY <1>1 DEF AddsFlight
<1>3. /\ LogbookConsistent' /\ DOMAIN rows \subseteq DOMAIN rows'
      /\ \A x \in DOMAIN rows : rows'[x] = rows[x]
  BY <1>1, FlightAdded
<1>4. \A x \in DOMAIN rows' \ DOMAIN rows : rows'[x].flight = f
  <2>1. ASSUME NEW x \in DOMAIN rows' \ DOMAIN rows PROVE rows'[x].flight = f
    <3>1. PICK i \in 1 .. Len(fd.aircraft) : rows'[x] = Row(f, 1 + i - 1, fd.aircraft[i])
      BY <1>1, FlightAdded
    <3> QED
      BY <3>1 DEF Row
  <2> QED
    BY <2>1
<1>5. flight.id # f
  <2>1. CASE Known
    BY <1>2, <2>1 DEF Known
  <2>2. CASE ~Known
    BY <2>2, BoundsAssumption DEF CurrentOK, NewIsEmpty, FlightIds, InvalidId, RecordingId
  <2> QED
    BY <2>1, <2>2
<1>6. (Known' <=> Known) /\ Held' = Held
  BY <1>2, <1>5 DEF Known, Held
<1>7. RowsOf(flight.id)' = RowsOf(flight.id)
  BY <1>3, <1>4, <1>5 DEF RowsOf
<1>8. CurrentOK'
  BY <1>3, <1>6 DEF CurrentOK, NewIsEmpty, HeldHasRow, HeldOnce, RecordsLast
<1>9. SameAircraft'
  <2>1. ASSUME Exact', Known'
        PROVE  \A i \in Held : /\ flight.aircraft[i].id \in DOMAIN rows
                               /\ rows'[flight.aircraft[i].id].seq = i
                               /\ rows'[flight.aircraft[i].id].recorded = flight.aircraft[i].recorded
                               /\ rows'[flight.aircraft[i].id].data = flight.aircraft[i].data
    BY <1>3, <1>6, <2>1 DEF Exact, Agrees, SameAircraft, CurrentOK, HeldHasRow
  <2>2. Exact' /\ Known' => \A x \in RowsOf(flight.id) : \E i \in Held : flight.aircraft[i].id = x
    BY <1>6 DEF Exact, Agrees, SameAircraft
  <2> QED
    BY <1>6, <1>7, <2>1, <2>2 DEF SameAircraft
<1>10. SameFlight'
  BY <1>2, <1>6 DEF Agrees, SameFlight, Exact, Known
<1> QED
  BY <1>3, <1>8, <1>9, <1>10 DEF Agrees

-----------------------------------------------------------------------------
(***************************************************************************)
(* The steps of the session and of the window.                             *)
(***************************************************************************)
LEMMA DialogClosed == ASSUME dialog'.asks = "nothing" PROVE DialogOK'
BY DEF DialogOK

\* Nothing happens to flight and database.
LEMMA QuietKept ==
    ASSUME StoreInv, running, UNCHANGED <<db, flight, recording, running, inStep>>,
           recording => UNCHANGED module, DialogOK'
    PROVE  StoreInv'
<1>1. LogbookConsistent'
  BY SameDatabase DEF StoreInv, SoundFlight
<1>2. CurrentOK' /\ Agrees'
  BY SameCurrent DEF StoreInv, SoundFlight
<1> QED
  BY <1>1, <1>2 DEF StoreInv, SoundFlight

\* The current flight is given up for one that is not stored.
LEMMA ForgottenKept ==
    ASSUME StoreInv, RecordsOK', UNCHANGED db, running', DialogOK',
           flight'.id \in {InvalidId, RecordingId},
           Len(flight'.aircraft) = 1, ~flight'.aircraft[1].recorded
    PROVE  StoreInv'
<1>1. LogbookConsistent'
  BY SameDatabase DEF StoreInv, SoundFlight
<1>2. CurrentOK' /\ Agrees'
  BY NewFlightOK
<1> QED
  BY <1>1, <1>2 DEF StoreInv, SoundFlight

\* Signals of the session are handled only while no dialog is open, or reset the selection.
LEMMA SessionDialog ==
    ASSUME Undisturbed, selected' = 0, UNCHANGED dialog
    PROVE  DialogOK'
BY DEF Undisturbed, NoDialog, DialogOK

LEMMA RestartKept == ASSUME RecordsOK', StoreInv, Restart PROVE StoreInv'
<1>1. /\ flight'.id = InvalidId /\ Len(flight'.aircraft) = 1
      /\ ~flight'.aircraft[1].recorded
  BY NewFlightTyped DEF Restart
<1>2. UNCHANGED db /\ running' /\ ~recording' /\ DialogOK'
  BY DialogClosed DEF Restart
<1> QED
  BY <1>1, <1>2, ForgottenKept

LEMMA ActivateModuleKept ==
    ASSUME StoreInv, running, NEW m, ActivateModule(m) PROVE StoreInv'
<1>1. DialogOK' /\ ~recording /\ UNCHANGED <<db, flight, recording, running, inStep>>
  BY DialogClosed DEF ActivateModule, NoDialog
<1> QED
  BY <1>1, QuietKept

LEMMA ReplayStateChangedKept ==
    ASSUME StoreInv, running, ReplayStateChanged PROVE StoreInv'
<1>1. DialogOK' /\ UNCHANGED <<db, flight, recording, module, running, inStep>>
  BY SessionDialog DEF ReplayStateChanged
<1> QED
  BY <1>1, QuietKept

LEMMA ClearFlightKept ==
    ASSUME RecordsOK, RecordsOK', StoreInv, running, ClearFlight
    PROVE  StoreInv'
<1>1. flight.aircraft # <<>> /\ flight \in FlightRecords
  BY FlightFields DEF RecordsOK, FlightOK, StoreInv, SoundFlight
<1>2. /\ flight'.id = InvalidId /\ Len(flight'.aircraft) = 1
      /\ ~flight'.aircraft[1].recorded
  BY <1>1, ClearedEffect DEF ClearFlight
<1>3. UNCHANGED db /\ running' /\ ~recording' /\ DialogOK'
  BY DialogClosed DEF ClearFlight, Idle, NoDialog, StoreInv, SoundFlight
<1> QED
  BY <1>2, <1>3, ForgottenKept

\* Only a flight of the logbook has a recording before another one is added to it.
LEMMA RecordedIsKnown ==
    ASSUME RecordsOK, StoreInv, running,
           \/ flight.aircraft[flight.user].recorded
           \/ HasRecording(flight)
           \/ Len(flight.aircraft) > 1
    PROVE  Known
<1>1. /\ flight.user \in 1 .. Len(flight.aircraft)
      /\ DOMAIN flight.aircraft = 1 .. Len(flight.aircraft)
  BY FlightFields DEF RecordsOK
<1> SUFFICES ASSUME ~Known PROVE FALSE
  OBVIOUS
<1>2. Len(flight.aircraft) = 1 /\ ~flight.aircraft[1].recorded
  BY DEF StoreInv, SoundFlight, CurrentOK, NewIsEmpty
<1>3. flight.user = 1 /\ \A i \in DOMAIN flight.aircraft : i = 1
  BY <1>1, <1>2
<1> QED
  BY <1>2, <1>3 DEF HasRecording

LEMMA StartRecordingKept ==
    ASSUME RecordsOK, RecordsOK', StoreInv, running, StartRecording PROVE StoreInv'
<1>1. /\ flight \in FlightRecords /\ flight.aircraft # <<>>
      /\ Len(flight.aircraft) \in Nat \ {0}
      /\ DOMAIN flight.aircraft = 1 .. Len(flight.aircraft)
  BY FlightFields DEF RecordsOK, FlightOK, StoreInv, SoundFlight
<1>2. /\ UNCHANGED db /\ running' /\ ~recording /\ recording' /\ module' = module
      /\ DialogOK'
  BY SessionDialog DEF StartRecording, StoreInv, SoundFlight
<1>3. CASE flight' = [Cleared(flight) EXCEPT !.id = RecordingId]
  <2>1. flight'.id = RecordingId /\ flight'.aircraft = Cleared(flight).aircraft
    BY <1>1, <1>3, ClearedEffect DEF FlightRecords
  <2>2. Len(flight'.aircraft) = 1 /\ ~flight'.aircraft[1].recorded
    BY <1>1, <2>1, ClearedEffect
  <2> QED
    BY <1>2, <2>1, <2>2, ForgottenKept
<1>4. CASE /\ module = "Formation" /\ flight.aircraft[flight.user].recorded
           /\ flight' = RecordingAdded /\ UNCHANGED inStep
  <2>1. /\ flight'.id = flight.id /\ flight'.title = flight.title
        /\ flight'.user = Len(flight.aircraft) + 1
        /\ Len(flight'.aircraft) = Len(flight.aircraft) + 1
        /\ \A i \in 1 .. Len(flight.aircraft) : flight'.aircraft[i] = flight.aircraft[i]
        /\ flight'.aircraft[Len(flight.aircraft) + 1].id = RecordingId
    BY <1>1, <1>4, RecordingAddedEffect DEF NewAircraft
  <2>2. Known /\ Known' /\ UNCHANGED <<flights, rows>>
    BY <1>2, <1>4, <2>1, RecordedIsKnown DEF Known, db
  <2>3. Held = 1 .. Len(flight.aircraft) /\ Held' = Held
    <3>1. Len(flight'.aircraft) - 1 = Len(flight.aircraft)
      BY <1>1, <2>1
    <3> QED
      BY <1>2, <3>1 DEF Held
  <2>4. \A i \in Held : flight'.aircraft[i] = flight.aircraft[i]
    BY <2>1, <2>3
  <2>5. CurrentOK /\ Agrees
    BY DEF StoreInv, SoundFlight
  <2>6. HeldHasRow' /\ HeldOnce' /\ SameAircraft'
    BY <1>4, <2>1, <2>2, <2>3, <2>4, <2>5, SameHeld
  <2>7. NewIsEmpty'
    BY <2>2 DEF NewIsEmpty
  <2>8. RecordsLast'
    <3>1. Len(flight'.aircraft) > 1 /\ flight'.user = Len(flight'.aircraft)
      BY <1>1, <2>1
    <3> QED
      BY <1>2, <1>4, <2>1, <3>1 DEF RecordsLast
  <2>9. SameFlight'
    BY <1>2, <1>4, <2>1, <2>2, <2>5 DEF Agrees, SameFlight, Exact
  <2>10. LogbookConsistent'
    BY <1>2, SameDatabase DEF StoreInv, SoundFlight
  <2> QED
    BY <1>2, <2>6, <2>7, <2>8, <2>9, <2>10 DEF StoreInv, SoundFlight, CurrentOK, Agrees
<1> QED
  BY <1>3, <1>4 DEF StartRecording, RecordingAdded

-----------------------------------------------------------------------------
(***************************************************************************)
(* Aircraft that are added to the current flight and its copy: one that    *)
(* has been recorded, or those imported.                                   *)
(***************************************************************************)
LEMMA AddedConsistent ==
    ASSUME RecordsOK, RecordsOK', LogbookConsistent,
           NEW f \in DOMAIN flights, NEW n \in Nat \ {0}, NEW r \in RowIds,
           IsNext(r, DOMAIN rows), NEW list \in Seq(AircraftRecords),
           r + Len(list) - 1 <= MaxRows, n = 1 \/ HasRow(rows, f, n - 1),
           rows' = WithRows(f, n, r, list), NEW u \in Nat \ {0},
           flights' = WithUser(f, u), HasRow(rows', f, u)
    PROVE  LogbookConsistent'
<1>1. RowsTyped(rows) /\ FlightsOK /\ f \in Int
  BY BoundsAssumption DEF RecordsOK, RowsOK, FlightsOK, FlightIds
<1>2. Owned(rows, flights) /\ Gapless(rows) /\ UsersExist(rows, flights)
  BY ConsistentParts
<1>3. Gapless(rows')
  BY <1>1, <1>2, AddedGapless
<1>4. UniqueSeq(rows')
  BY DEF RecordsOK, RowsOK
<1>5. /\ DOMAIN flights' = DOMAIN flights
      /\ \A g \in DOMAIN flights : flights'[g].user = IF g = f THEN u ELSE flights[g].user
  BY <1>1, WithUserEffect
<1>6. AddsRows(rows', f, n, r, list)
  BY <1>1, WithRowsEffect
<1>7. Owned(rows', flights')
  <2>1. ASSUME NEW x \in DOMAIN rows' PROVE rows'[x].flight \in DOMAIN flights'
    <3>1. CASE x \in DOMAIN rows
      BY <1>2, <1>5, <1>6, <3>1 DEF Owned, AddsRows
    <3>2. CASE x \notin DOMAIN rows
      <4>1. n \in Nat
        OBVIOUS
      <4>2. IsAdded(rows', x, f, n, r, list)
        BY <1>1, <1>6, <3>2, <4>1, AddedRow
      <4>3. rows'[x].flight = f
        BY <4>2 DEF IsAdded, Row
      <4> QED
        BY <1>5, <4>3
    <3> QED
      BY <3>1, <3>2
  <2> QED
    BY <2>1 DEF Owned
<1>8. UsersExist(rows', flights')
  <2>1. \A g, k : HasRow(rows, g, k) => HasRow(rows', g, k)
    BY <1>1, AddedUsers
  <2>2. ASSUME NEW g \in DOMAIN flights PROVE HasRow(rows', g, flights'[g].user)
    <3>1. CASE g = f
      BY <1>5, <3>1
    <3>2. CASE g # f
      <4>1. flights'[g].user = flights[g].user /\ HasRow(rows, g, flights[g].user)
        BY <1>2, <1>5, <3>2 DEF UsersExist
      <4> QED
        BY <2>1, <4>1
    <3> QED
      BY <3>1, <3>2
  <2> QED
    BY <1>5, <2>2 DEF UsersExist
<1> QED
  BY <1>3, <1>4, <1>7, <1>8, ConsistentNext

LEMMA AddedCurrent ==
    ASSUME RecordsOK, Known, CurrentOK, Agrees, NEW n \in Nat \ {0},
           NEW r \in RowIds, NEW list \in Seq(AircraftRecords),
           AddsRows(rows', flight.id, n, r, list),
           Held = 1 .. n - 1, Held' = 1 .. n - 1 + Len(list), flight'.id = flight.id,
           \A i \in 1 .. n - 1 : /\ flight'.aircraft[i].id = flight.aircraft[i].id
                                 /\ flight'.aircraft[i].recorded = flight.aircraft[i].recorded
                                 /\ flight'.aircraft[i].data = flight.aircraft[i].data,
           \A i \in 1 .. Len(list) : /\ flight'.aircraft[n - 1 + i].id = r + i - 1
                                     /\ flight'.aircraft[n - 1 + i].recorded = list[i].recorded
                                     /\ flight'.aircraft[n - 1 + i].data = list[i].data,
           inStep' => inStep
    PROVE  HeldHasRow' /\ HeldOnce' /\ SameAircraft'
<1> DEFINE a(i) == flight.aircraft[i]
           b(i) == flight'.aircraft[i]
           old == 1 .. n - 1
           m == Len(list)
<1>1. m \in Nat /\ r \in Nat /\ RowsTyped(rows)
  BY BoundsAssumption DEF RowIds, RecordsOK, RowsOK
<1>2. \A i \in old : b(i).id = a(i).id /\ b(i).recorded = a(i).recorded /\ b(i).data = a(i).data
  OBVIOUS
<1>3. \A i \in old : /\ a(i).id \in DOMAIN rows
                     /\ rows[a(i).id].flight = flight.id /\ rows[a(i).id].seq >= i
  BY DEF CurrentOK, HeldHasRow
<1>4. \A i, j \in old : a(i).id = a(j).id => i = j
  BY DEF CurrentOK, HeldOnce
<1>5. Exact => /\ \A i \in old : /\ rows[a(i).id].seq = i
                                  /\ rows[a(i).id].recorded = a(i).recorded
                                  /\ rows[a(i).id].data = a(i).data
               /\ \A x \in DOMAIN rows : rows[x].flight = flight.id
                                            => \E i \in old : a(i).id = x
  BY DEF Agrees, SameAircraft, RowsOf
<1>6. /\ DOMAIN rows \subseteq DOMAIN rows'
      /\ \A x \in DOMAIN rows : rows'[x] = rows[x]
  BY DEF AddsRows
<1>7. \A i \in 1 .. m : b(n - 1 + i).id = r + i - 1 /\ b(n - 1 + i).recorded = list[i].recorded
                        /\ b(n - 1 + i).data = list[i].data
  OBVIOUS
<1>8. \A i \in 1 .. n - 1 + m : i \in old \/ \E k \in 1 .. m : i = n - 1 + k
  <2>1. \A i \in 1 .. n - 1 + m : i \notin old => i - (n - 1) \in 1 .. m /\ i = n - 1 + (i - (n - 1))
    BY <1>1
  <2> QED
    BY <2>1
<1>9. Held' = 1 .. n - 1 + m
  OBVIOUS
<1> HIDE DEF a, b, old, m
<1>10. \A k \in 1 .. m :
         LET x == b(n - 1 + k).id
         IN  /\ x \in DOMAIN rows' \ DOMAIN rows
             /\ rows'[x].flight = flight.id /\ rows'[x].seq = n - 1 + k
             /\ rows'[x].recorded = b(n - 1 + k).recorded /\ rows'[x].data = b(n - 1 + k).data
  <2>1. ASSUME NEW k \in 1 .. m
        PROVE  /\ r + k - 1 \in DOMAIN rows' \ DOMAIN rows
               /\ rows'[r + k - 1].flight = flight.id /\ rows'[r + k - 1].seq = n + k - 1
               /\ rows'[r + k - 1].recorded = list[k].recorded
               /\ rows'[r + k - 1].data = list[k].data
    <3>1. k \in 1 .. Len(list) /\ n \in Nat
      BY DEF m
    <3>2. HasListed(rows', flight.id, n, r, list, k)
      BY <1>1, <3>1, RowOfList
    <3> QED
      BY <3>2 DEF HasListed
  <2>2. \A k \in 1 .. m : n + k - 1 = n - 1 + k
    BY <1>1
  <2> QED
    BY <1>7, <2>1, <2>2
<1>11. \A i \in old : rows'[b(i).id] = rows[a(i).id] /\ b(i).id \in DOMAIN rows
  BY <1>2, <1>3, <1>6
<1>12. HeldHasRow'
  <2>1. ASSUME NEW i \in 1 .. n - 1 + m
        PROVE  /\ b(i).id \in DOMAIN rows'
               /\ rows'[b(i).id].flight = flight.id /\ rows'[b(i).id].seq >= i
    <3>1. CASE i \in old
      BY <1>3, <1>6, <1>11, <3>1
    <3>2. CASE i \notin old
      <4>1. PICK k \in 1 .. m : i = n - 1 + k
        BY <1>8, <3>2
      <4>2. n - 1 + k >= n - 1 + k
        BY <1>1
      <4> QED
        BY <1>10, <4>1, <4>2
    <3> QED
      BY <3>1, <3>2
  <2> QED
    BY <1>9, <2>1 DEF HeldHasRow, b
<1>13. HeldOnce'
  <2>1. ASSUME NEW i \in 1 .. n - 1 + m, NEW j \in 1 .. n - 1 + m, b(i).id = b(j).id
        PROVE  i = j
    <3>1. CASE i \in old /\ j \in old
      BY <1>2, <1>4, <2>1, <3>1
    <3>2. CASE i \notin old /\ j \notin old
      <4>1. PICK k \in 1 .. m : i = n - 1 + k
        BY <1>8, <3>2
      <4>2. PICK l \in 1 .. m : j = n - 1 + l
        BY <1>8, <3>2
      <4>3. r + k - 1 = r + l - 1
        BY <1>7, <2>1, <4>1, <4>2
      <4>4. k = l
        BY <1>1, <4>3
      <4> QED
        BY <4>1, <4>2, <4>4
    <3>3. CASE i \in old /\ j \notin old
      <4>1. PICK l \in 1 .. m : j = n - 1 + l
        BY <1>8, <3>3
      <4> QED
        BY <1>10, <1>11, <2>1, <3>3, <4>1
    <3>4. CASE i \notin old /\ j \in old
      <4>1. PICK k \in 1 .. m : i = n - 1 + k
        BY <1>8, <3>4
      <4> QED
        BY <1>10, <1>11, <2>1, <3>4, <4>1
    <3> QED
      BY <3>1, <3>2, <3>3, <3>4
  <2> QED
    BY <1>9, <2>1 DEF HeldOnce, b
<1>14. SameAircraft'
  <2> SUFFICES ASSUME Exact PROVE SameAircraft'
    BY DEF SameAircraft, Exact
  <2>1. ASSUME NEW i \in 1 .. n - 1 + m
        PROVE  /\ rows'[b(i).id].seq = i /\ rows'[b(i).id].recorded = b(i).recorded
               /\ rows'[b(i).id].data = b(i).data
    <3>1. CASE i \in old
      BY <1>2, <1>5, <1>11, <3>1
    <3>2. CASE i \notin old
      <4>1. PICK k \in 1 .. m : i = n - 1 + k
        BY <1>8, <3>2
      <4> QED
        BY <1>10, <4>1
    <3> QED
      BY <3>1, <3>2
  <2>2. ASSUME NEW x \in DOMAIN rows', rows'[x].flight = flight.id
        PROVE  \E i \in 1 .. n - 1 + m : b(i).id = x
    <3>1. CASE x \in DOMAIN rows
      <4>1. PICK i \in old : a(i).id = x
        BY <1>5, <1>6, <2>2, <3>1
      <4>2. i \in 1 .. n - 1 + m /\ b(i).id = x
        BY <1>1, <1>2, <4>1 DEF old
      <4> QED
        BY <4>2
    <3>2. CASE x \notin DOMAIN rows
      <4>1. n \in Nat
        OBVIOUS
      <4>2. IsAdded(rows', x, flight.id, n, r, list)
        BY <1>1, <3>2, <4>1, AddedRow
      <4>3. PICK k \in 1 .. m : x = r + k - 1
        BY <4>2 DEF IsAdded, m
      <4>4. b(n - 1 + k).id = x
        BY <1>7, <4>3
      <4>5. n - 1 + k \in 1 .. n - 1 + m
        BY <1>1
      <4> QED
        BY <4>4, <4>5
    <3> QED
      BY <3>1, <3>2
  <2> QED
    BY <1>9, <2>1, <2>2 DEF SameAircraft, RowsOf, b
<1> QED
  BY <1>12, <1>13, <1>14

\* The recording ends: a flight is stored, or an aircraft of one, or it is removed.
LEMMA StopRecordingKept ==
    ASSUME Regular, RecordsOK, RecordsOK', StoreInv, running, StopRecording PROVE StoreInv'
<1>1. /\ flight \in FlightRecords /\ Len(flight.aircraft) \in Nat \ {0}
      /\ DOMAIN flight.aircraft = 1 .. Len(flight.aircraft)
      /\ flight.user \in DOMAIN flight.aircraft /\ flight.user \in Nat \ {0}
      /\ RowsTyped(rows) /\ FlightsOK
  BY FlightFields DEF RecordsOK, FlightOK, StoreInv, SoundFlight, RowsOK
<1>2. /\ running' /\ recording /\ ~recording' /\ module' = module /\ DialogOK'
      /\ LogbookConsistent /\ CurrentOK /\ Agrees
  BY SessionDialog DEF StopRecording, StoreInv, SoundFlight
<1>3. PICK rec \in BOOLEAN : StopFirstRecording(rec) \/ StopFormationRecording(rec)
  BY DEF StopRecording
<1> DEFINE fd == Recorded(rec)
           n  == Len(flight.aircraft)
<1>4. /\ fd \in FlightRecords /\ fd.id = flight.id /\ fd.user = flight.user
      /\ fd.title = flight.title
      /\ Len(fd.aircraft) = n /\ DOMAIN fd.aircraft = 1 .. n
      /\ \A i \in 1 .. n : i # flight.user => fd.aircraft[i] = flight.aircraft[i]
  BY <1>1, RecordedEffect
<1> HIDE DEF fd
<1>5. CASE StopFirstRecording(rec)
  <2>1. StoreFlight(fd)
    BY <1>5, FlightsAreStored DEF StopFirstRecording, fd
  <2>2. fd.user \in 1 .. Len(fd.aircraft)
    BY <1>1, <1>4
  <2>3. LogbookConsistent' /\ CurrentOK' /\ Agrees'
    BY <1>2, <1>4, <2>1, <2>2, StoreFlightKept
  <2> QED
    BY <1>2, <2>3 DEF StoreInv, SoundFlight
<1>6. CASE StopFormationRecording(rec)
  <2>1. n > 1 /\ Known
    BY <1>6, RecordedIsKnown DEF StopFormationRecording
  <2>2. flight.user = n /\ Held = 1 .. n - 1
    BY <1>2, <2>1 DEF CurrentOK, RecordsLast, Held
  <2>3. \A i \in 1 .. n - 1 : i # n /\ i \in 1 .. n
    BY <1>1
  <2>4. \A i \in 1 .. n - 1 : fd.aircraft[i] = flight.aircraft[i]
    BY <1>4, <2>2, <2>3
  <2>5. CASE StoreAircraft(fd) /\ UNCHANGED inStep
    <3>1. PICK r \in RowIds :
            /\ IsNext(r, DOMAIN rows)
            /\ rows' = WithRows(fd.id, n, r, <<fd.aircraft[n]>>)
            /\ flights' = WithUser(fd.id, fd.user)
            /\ flight' = [fd EXCEPT !.aircraft[n].id = r]
      BY <1>4, <2>5 DEF StoreAircraft
    <3> DEFINE list == <<fd.aircraft[n]>>
    <3>2. n \in 1 .. n /\ fd.aircraft[n] \in AircraftRecords
      BY <1>1, <1>4 DEF FlightRecords
    <3>3. list \in Seq(AircraftRecords) /\ Len(list) = 1 /\ list[1] = fd.aircraft[n]
      BY <3>2, OneElement
    <3> HIDE DEF list
    <3>4. r + Len(list) - 1 <= MaxRows /\ r \in Nat
      BY <3>3, BoundsAssumption DEF RowIds
    <3>5. rows' = WithRows(flight.id, n, r, list) /\ flights' = WithUser(flight.id, n)
      BY <1>4, <2>2, <3>1 DEF list
    <3>6. flight.id \in DOMAIN flights /\ flight.id \in Int
      BY <1>1, <2>1, BoundsAssumption DEF Known, FlightsOK, FlightIds
    <3>7. AddsRows(rows', flight.id, n, r, list)
      BY <1>1, <3>1, <3>3, <3>4, <3>5, <3>6, WithRowsEffect
    <3>8. /\ flight'.id = flight.id /\ flight'.user = n /\ flight'.title = flight.title
          /\ Len(flight'.aircraft) = n
          /\ \A j \in 1 .. n :
               /\ flight'.aircraft[j].id = IF j = n THEN r ELSE fd.aircraft[j].id
               /\ flight'.aircraft[j].recorded = fd.aircraft[j].recorded
               /\ flight'.aircraft[j].data = fd.aircraft[j].data
      BY <1>4, <2>2, <3>1, <3>2, AircraftIdEffect
    <3>9. LogbookConsistent'
      <4>1. HasRow(rows, flight.id, n - 1)
        <5>1. n - 1 \in Held
          BY <1>1, <2>1, <2>2
        <5> QED
          BY <1>2, <2>1, <5>1, HeldNumbers
      <4>2. HasRow(rows', flight.id, n)
        <5>1. 1 \in 1 .. Len(list) /\ r + 1 - 1 = r /\ n + 1 - 1 = n /\ n \in Nat
          BY <1>1, <3>3, <3>4
        <5>2. HasListed(rows', flight.id, n, r, list, 1)
          BY <1>1, <3>3, <3>7, <5>1, RowOfList
        <5> QED
          BY <5>1, <5>2 DEF HasRow, HasListed
      <4> QED
        BY <1>1, <1>2, <3>1, <3>3, <3>4, <3>5, <3>6, <4>1, <4>2, AddedConsistent
    <3>10. Known' /\ Held' = 1 .. n
      <4>1. DOMAIN flights' = DOMAIN flights
        BY <3>5 DEF WithUser
      <4> QED
        BY <1>2, <3>6, <3>8, <4>1 DEF Known, Held
    <3>11. HeldHasRow' /\ HeldOnce' /\ SameAircraft'
      <4>1. n - 1 + Len(list) = n /\ n \in Nat \ {0}
        BY <1>1, <3>3
      <4>2. \A i \in 1 .. n - 1 : /\ flight'.aircraft[i].id = flight.aircraft[i].id
                                  /\ flight'.aircraft[i].recorded = flight.aircraft[i].recorded
                                  /\ flight'.aircraft[i].data = flight.aircraft[i].data
        BY <2>3, <2>4, <3>8
      <4>3. \A i \in 1 .. Len(list) :
              /\ flight'.aircraft[n - 1 + i].id = r + i - 1
              /\ flight'.aircraft[n - 1 + i].recorded = list[i].recorded
              /\ flight'.aircraft[n - 1 + i].data = list[i].data
        <5>1. \A i \in 1 .. Len(list) : i = 1 /\ n - 1 + i = n /\ r + i - 1 = r
          BY <1>1, <3>3, <3>4
        <5> QED
          BY <3>2, <3>3, <3>8, <5>1
      <4> QED
        BY <1>2, <2>1, <2>2, <2>5, <3>3, <3>7, <3>8, <3>10, <4>1, <4>2, <4>3, AddedCurrent
    <3>12. SameFlight'
      <4>1. flights'[flight.id].user = n /\ flights'[flight.id].title = flights[flight.id].title
        BY <1>1, <3>5, <3>6, WithUserEffect
      <4> QED
        BY <1>2, <2>1, <2>5, <3>8, <4>1 DEF SameFlight, Agrees, Exact
    <3>13. NewIsEmpty' /\ RecordsLast'
      BY <1>2, <3>10 DEF NewIsEmpty, RecordsLast
    <3> QED
      BY <1>2, <3>9, <3>11, <3>12, <3>13 DEF StoreInv, SoundFlight, CurrentOK, Agrees
  <2>6. CASE flight' = RemoveAircraft(fd, n) /\ inStep' = FALSE /\ UNCHANGED db
    <3>1. n \in 1 .. Len(fd.aircraft) /\ Len(fd.aircraft) > 1
          /\ fd.user \in 1 .. Len(fd.aircraft)
      BY <1>1, <1>4, <2>1
    <3>2. /\ flight'.id = flight.id /\ flight'.title = flight.title
          /\ Len(flight'.aircraft) = n - 1
          /\ \A j \in 1 .. n - 1 :
               flight'.aircraft[j] = IF j < n THEN fd.aircraft[j] ELSE fd.aircraft[j + 1]
      <4>1. Removes(RemoveAircraft(fd, n), fd, n)
        BY <1>4, <3>1, RemovesEffect
      <4> QED
        BY <1>4, <2>6, <4>1 DEF Removes
    <3>3. \A i \in 1 .. n - 1 : i < n
      BY <1>1
    <3>4. \A i \in Held : flight'.aircraft[i] = flight.aircraft[i]
      BY <2>2, <2>4, <3>2, <3>3
    <3>5. Known' /\ Held' = Held /\ UNCHANGED <<flights, rows>>
      BY <1>2, <2>1, <2>2, <2>6, <3>2 DEF Known, Held, db
    <3>6. HeldHasRow' /\ HeldOnce' /\ SameAircraft'
      BY <1>2, <2>1, <2>6, <3>2, <3>4, <3>5, SameHeld
    <3>7. NewIsEmpty' /\ RecordsLast' /\ SameFlight'
      BY <1>2, <2>6, <3>5 DEF NewIsEmpty, RecordsLast, SameFlight, Exact
    <3>8. LogbookConsistent'
      BY <1>2, <2>6, SameDatabase
    <3> QED
      BY <1>2, <3>6, <3>7, <3>8 DEF StoreInv, SoundFlight, CurrentOK, Agrees
  <2> QED
    BY <1>4, <1>6, <2>5, <2>6 DEF StopFormationRecording, fd
<1> QED
  BY <1>3, <1>5, <1>6

LEMMA ImportFlightKept ==
    ASSUME Regular, RecordsOK, RecordsOK', StoreInv, running, NEW n \in 1 .. MaxAircraft,
           NEW recs \in [1 .. n -> BOOLEAN], NEW u \in 1 .. n, ImportFlight(recs, u)
    PROVE  StoreInv'
<1> DEFINE fd == ImportedFlight(recs, u)
<1>1. /\ running' /\ ~recording' /\ DialogOK' /\ LogbookConsistent /\ CurrentOK /\ Agrees
      /\ UNCHANGED <<recording, module>>
  BY DialogClosed DEF ImportFlight, Idle, NoDialog, StoreInv, SoundFlight
<1>2. n \in Nat
  BY BoundsAssumption
<1>3. fd \in FlightRecords /\ fd.user \in 1 .. Len(fd.aircraft)
  BY <1>2, ImportedEffect, ImportedFlightEffect
<1> HIDE DEF fd
<1>4. CASE ImportAsCurrentFlight(fd)
  <2>1. StoreFlight(fd)
    BY <1>4, FlightsAreStored DEF ImportAsCurrentFlight
  <2>2. LogbookConsistent' /\ CurrentOK' /\ Agrees'
    BY <1>1, <1>3, <2>1, StoreFlightKept
  <2> QED
    BY <1>1, <2>2 DEF StoreInv, SoundFlight
<1>5. CASE ImportIntoLogbook(fd)
  <2>1. PICK f \in FlightIds, r \in RowIds : Stores(f, r, fd)
    BY <1>5 DEF ImportIntoLogbook
  <2>2. LogbookConsistent' /\ CurrentOK' /\ Agrees'
    BY <1>1, <1>3, <1>5, <2>1, StoreBesideKept DEF ImportIntoLogbook
  <2> QED
    BY <1>1, <2>2 DEF StoreInv, SoundFlight
<1> QED
  BY <1>4, <1>5 DEF ImportFlight, fd

\* An import in which every aircraft has a recording
AllOf(n) == [i \in 1 .. n |-> TRUE]

AddsImported(n, k, r) ==
    /\ IsNext(r, DOMAIN rows)
    /\ r + k - 1 <= MaxRows
    /\ rows' = WithRows(flight.id, Len(flight.aircraft) + 1, r, ImportedAircraft(AllOf(k)))
    /\ flight' = [flight EXCEPT !.aircraft =
                    IF k < n THEN @
                    ELSE IF flight.aircraft[flight.user].recorded
                    THEN @ \o Identified(ImportedAircraft(AllOf(n)), r)
                    ELSE Identified(ImportedAircraft(AllOf(n)), r)]

ImportsAllOf(n, k) ==
    /\ Idle /\ HasRecording(flight)
    /\ flight.aircraft[flight.user].recorded \/ May("importReplaces")
    /\ \E r \in RowIds : AddsImported(n, k, r)
    /\ flights' = IF k = 0 THEN flights ELSE WithUser(flight.id, flight.user)
    /\ running' = (flight.user <= Len(flight'.aircraft))
    /\ inStep' = (inStep /\ (k = 0 \/ k = n))
    /\ UNCHANGED <<recording, module, dialog>>

LEMMA AllRecorded ==
    ASSUME NEW n \in Nat, NEW recs \in [1 .. n -> BOOLEAN],
           Cardinality(RecordedUpTo(recs, n)) = n
    PROVE  /\ recs = AllOf(n)
           /\ \A r : IdentifiedIfRecorded(recs, r) = Identified(ImportedAircraft(recs), r)
<1>1. IsFiniteSet(1 .. n) /\ Cardinality(1 .. n) = n
  BY FS_Interval
<1>2. RecordedUpTo(recs, n) = 1 .. n
  <2>1. RecordedUpTo(recs, n) \in SUBSET (1 .. n)
    BY DEF RecordedUpTo
  <2> QED
    BY <1>1, <2>1, FS_Subset
<1>3. \A i \in 1 .. n : recs[i] = TRUE
  BY <1>2 DEF RecordedUpTo
<1>4. recs = AllOf(n)
  BY <1>3 DEF AllOf
<1>5. ASSUME NEW i \in 1 .. n PROVE Cardinality(RecordedUpTo(recs, i)) = i
  <2>1. RecordedUpTo(recs, i) = 1 .. i
    BY <1>3 DEF RecordedUpTo
  <2>2. Cardinality(1 .. i) = i
    BY FS_Interval
  <2> QED
    BY <2>1, <2>2
<1>6. ASSUME NEW r PROVE IdentifiedIfRecorded(recs, r) = Identified(ImportedAircraft(recs), r)
  <2>1. DOMAIN ImportedAircraft(recs) = 1 .. n /\ DOMAIN recs = 1 .. n
    BY DEF ImportedAircraft
  <2> DEFINE list == ImportedAircraft(recs)
  <2> HIDE DEF list
  <2>2. IdentifiedIfRecorded(recs, r) = [i \in 1 .. n |-> [list[i] EXCEPT !.id = r + i - 1]]
    BY <1>3, <1>5, <2>1 DEF IdentifiedIfRecorded, list
  <2> QED
    BY <2>1, <2>2 DEF Identified, list
<1> QED
  BY <1>4, <1>6

LEMMA ImportAircraftEffect ==
    ASSUME Regular, NEW n \in 1 .. MaxAircraft, NEW recs \in [1 .. n -> BOOLEAN], NEW k \in 0 .. n,
           ImportAircraft(recs, k)
    PROVE  ImportsAllOf(n, k)
<1>1. n \in Nat /\ Len(recs) = n
  BY BoundsAssumption
<1>2. Cardinality(RecordedUpTo(recs, n)) = n
  BY <1>1, RegularHazards DEF ImportAircraft
<1>3. recs = AllOf(n)
  BY <1>1, <1>2, AllRecorded
<1>4. \A r : IdentifiedIfRecorded(recs, r) = Identified(ImportedAircraft(AllOf(n)), r)
  BY <1>1, <1>2, <1>3, AllRecorded
<1>5. PICK r \in RowIds :
        /\ IsNext(r, DOMAIN rows)
        /\ r + k - 1 <= MaxRows
        /\ rows' = WithRows(flight.id, Len(flight.aircraft) + 1, r, ImportedAircraft(AllOf(k)))
        /\ flight' = [flight EXCEPT !.aircraft =
                        IF k < n THEN @
                        ELSE IF flight.aircraft[flight.user].recorded
                        THEN @ \o IdentifiedIfRecorded(recs, r)
                        ELSE IdentifiedIfRecorded(recs, r)]
  BY <1>1, <1>2 DEF ImportAircraft, AllOf
<1>6. AddsImported(n, k, r)
  BY <1>4, <1>5 DEF AddsImported
<1>7. /\ Idle /\ HasRecording(flight)
      /\ flight.aircraft[flight.user].recorded \/ May("importReplaces")
      /\ flights' = IF k = 0 THEN flights ELSE WithUser(flight.id, flight.user)
      /\ running' = (flight.user <= Len(flight'.aircraft))
      /\ UNCHANGED <<recording, module, dialog>>
  BY DEF ImportAircraft
<1>8. inStep' = (inStep /\ (k = 0 \/ k = n))
  BY <1>1, <1>2 DEF ImportAircraft
<1> QED
  BY <1>6, <1>7, <1>8 DEF ImportsAllOf

LEMMA ImportAircraftKept ==
    ASSUME RecordsOK, RecordsOK', StoreInv, running,
           NEW n \in 1 .. MaxAircraft, NEW k \in 0 .. n, ImportsAllOf(n, k)
    PROVE  StoreInv'
<1> DEFINE len == Len(flight.aircraft)
<1>1. /\ flight \in FlightRecords /\ len \in Nat \ {0} /\ flight.user \in 1 .. len
      /\ flight.user \in Nat \ {0} /\ flight.aircraft \in Seq(AircraftRecords)
      /\ RowsTyped(rows) /\ FlightsOK
  BY FlightFields DEF RecordsOK, FlightOK, StoreInv, SoundFlight, RowsOK
<1>2. n \in Nat \ {0} /\ k \in Nat /\ k <= n
  BY BoundsAssumption
<1>3. /\ ~recording /\ ~recording' /\ DialogOK' /\ running /\ module' = module
      /\ LogbookConsistent /\ CurrentOK /\ Agrees
  BY DialogClosed DEF ImportsAllOf, Idle, NoDialog, StoreInv, SoundFlight
<1>4. Known /\ (Faithful => flight.aircraft[flight.user].recorded)
  BY RecordedIsKnown DEF ImportsAllOf, Faithful
<1>5. flight.id \in DOMAIN flights /\ flight.id \in Int
  BY <1>1, <1>4, BoundsAssumption DEF Known, FlightsOK, FlightIds
<1>6. PICK r \in RowIds :
        /\ IsNext(r, DOMAIN rows)
        /\ r + k - 1 <= MaxRows
        /\ rows' = WithRows(flight.id, len + 1, r, ImportedAircraft(AllOf(k)))
        /\ flight' = [flight EXCEPT !.aircraft =
                        IF k < n THEN @
                        ELSE IF flight.aircraft[flight.user].recorded
                        THEN @ \o Identified(ImportedAircraft(AllOf(n)), r)
                        ELSE Identified(ImportedAircraft(AllOf(n)), r)]
  BY DEF ImportsAllOf, AddsImported
<1>7. /\ flights' = IF k = 0 THEN flights ELSE WithUser(flight.id, flight.user)
      /\ running' = (flight.user <= Len(flight'.aircraft))
      /\ inStep' = (inStep /\ (k = 0 \/ k = n))
  BY DEF ImportsAllOf
<1>8. Held = 1 .. len
  BY <1>3 DEF Held
<1> DEFINE list == ImportedAircraft(AllOf(k))
<1>9. list \in Seq(AircraftRecords) /\ Len(list) = k
  <2>1. AllOf(k) \in [1 .. k -> BOOLEAN]
    BY DEF AllOf
  <2> QED
    BY <1>2, <2>1, ImportedEffect
<1>10. k < n => flight' = flight /\ running'
  <2> SUFFICES ASSUME k < n PROVE flight' = flight /\ running'
    OBVIOUS
  <2>1. flight' = [flight EXCEPT !.aircraft = @]
    BY <1>6
  <2>2. flight' = flight
    BY <1>1, <2>1 DEF FlightRecords
  <2>3. flight.user <= len
    BY <1>1
  <2>4. running'
    BY <1>7, <2>2, <2>3
  <2> QED
    BY <2>2, <2>4
<1> HIDE DEF list
<1> DEFINE next == len + 1
<1>11. rows' = WithRows(flight.id, next, r, list) /\ r + Len(list) - 1 <= MaxRows
  BY <1>6, <1>9 DEF list
<1>12. next \in Nat \ {0} /\ next - 1 = len /\ len \in Held /\ flight.user \in Held
  BY <1>1, <1>8
<1> HIDE DEF next
<1>13. AddsRows(rows', flight.id, next, r, list)
  BY <1>1, <1>5, <1>6, <1>9, <1>11, <1>12, WithRowsEffect
<1>14. k # 0 => LogbookConsistent'
  <2> SUFFICES ASSUME k # 0 PROVE LogbookConsistent'
    OBVIOUS
  <2>1. HasRow(rows, flight.id, next - 1) /\ HasRow(rows, flight.id, flight.user)
    BY <1>3, <1>4, <1>12, HeldNumbers
  <2>2. HasRow(rows', flight.id, flight.user)
    BY <1>13, <2>1 DEF HasRow, AddsRows
  <2>3. flights' = WithUser(flight.id, flight.user)
    BY <1>7
  <2> QED
    BY <1>1, <1>3, <1>5, <1>6, <1>9, <1>11, <1>12, <2>1, <2>2, <2>3, AddedConsistent
<1>15. Known' <=> flight'.id \in DOMAIN flights
  BY <1>7 DEF Known, WithUser
<1>16. CASE k = 0
  <2>1. flights' = flights /\ (inStep' <=> inStep) /\ flight' = flight /\ running'
    <3>1. k < n
      BY <1>2, <1>16
    <3> QED
      BY <1>7, <1>10, <1>16, <3>1
  <2>2. rows' = rows
    BY <1>1, <1>9, <1>11, <1>16, WithNoRows
  <2>3. inStep' = inStep
    BY <2>1 DEF RecordsOK, ControlsOK
  <2>4. UNCHANGED <<db, flight, recording, running, inStep>>
    BY <1>3, <2>1, <2>2, <2>3 DEF db, RecordsOK, ControlsOK
  <2> QED
    BY <1>3, <2>4, QuietKept
<1>17. CASE k # 0 /\ k < n
  <2>1. flight' = flight /\ running' /\ ~inStep'
    <3>1. k # n
      BY <1>2, <1>17
    <3> QED
      BY <1>7, <1>10, <1>17, <3>1
  <2>2. Known' /\ Held' = Held
    BY <1>3, <1>5, <1>15, <2>1 DEF Held
  <2>3. HeldHasRow'
    <3>1. ASSUME NEW i \in Held
          PROVE  /\ flight.aircraft[i].id \in DOMAIN rows'
                 /\ rows'[flight.aircraft[i].id].flight = flight.id
                 /\ rows'[flight.aircraft[i].id].seq >= i
      <4>1. /\ flight.aircraft[i].id \in DOMAIN rows
            /\ rows[flight.aircraft[i].id].flight = flight.id
            /\ rows[flight.aircraft[i].id].seq >= i
        BY <1>3, <1>4 DEF CurrentOK, HeldHasRow
      <4>2. /\ flight.aircraft[i].id \in DOMAIN rows'
            /\ rows'[flight.aircraft[i].id] = rows[flight.aircraft[i].id]
        BY <1>13, <4>1 DEF AddsRows
      <4> QED
        BY <4>1, <4>2
    <3> QED
      BY <2>1, <2>2, <3>1 DEF HeldHasRow
  <2>4. HeldOnce'
    BY <1>3, <1>4, <2>1, <2>2 DEF CurrentOK, HeldOnce
  <2>5. NewIsEmpty' /\ RecordsLast' /\ SameAircraft' /\ SameFlight'
    BY <1>3, <2>1, <2>2 DEF NewIsEmpty, RecordsLast, SameAircraft, SameFlight, Exact
  <2> QED
    BY <1>3, <1>14, <1>17, <2>1, <2>3, <2>4, <2>5 DEF StoreInv, SoundFlight, CurrentOK, Agrees
<1>18. CASE k = n /\ flight.aircraft[flight.user].recorded
  <2> DEFINE new == Identified(list, r)
  <2>1. /\ new \in Seq(AircraftRecords) /\ Len(new) = n
        /\ \A i \in 1 .. n : /\ new[i].id = r + i - 1 /\ new[i].recorded = list[i].recorded
                             /\ new[i].data = list[i].data
    <3>1. r + Len(list) - 1 <= MaxRows /\ Len(list) = n /\ list \in Seq(AircraftRecords)
      BY <1>9, <1>11, <1>18
    <3>2. /\ new \in Seq(AircraftRecords) /\ Len(new) = Len(list)
          /\ \A i \in 1 .. Len(list) :
               /\ new[i].id = r + i - 1 /\ new[i].recorded = list[i].recorded
               /\ new[i].data = list[i].data
      BY <3>1, IdentifiedEffect
    <3> QED
      BY <3>1, <3>2
  <2>2. flight' = [flight EXCEPT !.aircraft = flight.aircraft \o new]
    <3>1. ~(k < n)
      BY <1>2, <1>18
    <3> QED
      BY <1>4, <1>6, <1>18, <3>1 DEF list
  <2> HIDE DEF new
  <2>3. /\ flight'.id = flight.id /\ flight'.user = flight.user /\ flight'.title = flight.title
        /\ flight'.aircraft = flight.aircraft \o new
    BY <1>1, <2>2 DEF FlightRecords
  <2>4. /\ Len(flight'.aircraft) = len + n
        /\ \A i \in 1 .. len + n :
             flight'.aircraft[i] = IF i <= len THEN flight.aircraft[i] ELSE new[i - len]
    <3> DEFINE old == flight.aircraft
    <3>1. old \in Seq(AircraftRecords)
      BY <1>1
    <3> HIDE DEF old
    <3>2. /\ Len(old \o new) = Len(old) + Len(new)
          /\ \A i \in 1 .. Len(old) + Len(new) :
               (old \o new)[i] = IF i <= Len(old) THEN old[i] ELSE new[i - Len(old)]
      BY <2>1, <3>1, ConcatProperties
    <3> QED
      BY <2>1, <2>3, <3>2 DEF old
  <2>5. running'
    <3>1. flight.user <= len + n
      BY <1>1, <1>2
    <3> QED
      BY <1>7, <2>4, <3>1
  <2>6. inStep' => inStep
    BY <1>7
  <2>7. Known' /\ Held' = 1 .. len + n
    BY <1>3, <1>5, <1>15, <2>3, <2>4 DEF Held
  <2>8. HeldHasRow' /\ HeldOnce' /\ SameAircraft'
    <3>1. Held = 1 .. next - 1 /\ Held' = 1 .. next - 1 + Len(list)
      BY <1>8, <1>9, <1>12, <1>18, <2>7
    <3>2. \A i \in 1 .. len : flight'.aircraft[i] = flight.aircraft[i]
      <4>1. \A i \in 1 .. len : i \in 1 .. len + n /\ i <= len
        BY <1>1, <1>2
      <4> QED
        BY <2>4, <4>1
    <3>3. \A i \in 1 .. next - 1 :
            /\ flight'.aircraft[i].id = flight.aircraft[i].id
            /\ flight'.aircraft[i].recorded = flight.aircraft[i].recorded
            /\ flight'.aircraft[i].data = flight.aircraft[i].data
      BY <1>12, <3>2
    <3>4. \A i \in 1 .. n : flight'.aircraft[len + i] = new[i]
      <4>1. \A i \in 1 .. n : len + i \in 1 .. len + n /\ ~(len + i <= len) /\ (len + i) - len = i
        BY <1>1, <1>2
      <4> QED
        BY <2>4, <4>1
    <3>5. \A i \in 1 .. Len(list) :
            /\ flight'.aircraft[next - 1 + i].id = r + i - 1
            /\ flight'.aircraft[next - 1 + i].recorded = list[i].recorded
            /\ flight'.aircraft[next - 1 + i].data = list[i].data
      <4>1. ASSUME NEW i \in 1 .. n
            PROVE  /\ flight'.aircraft[len + i].id = r + i - 1
                   /\ flight'.aircraft[len + i].recorded = list[i].recorded
                   /\ flight'.aircraft[len + i].data = list[i].data
        <5>1. flight'.aircraft[len + i] = new[i]
          BY <3>4
        <5>2. /\ new[i].id = r + i - 1 /\ new[i].recorded = list[i].recorded
              /\ new[i].data = list[i].data
          BY <2>1
        <5> QED
          BY <5>1, <5>2
      <4>2. Len(list) = n /\ next - 1 = len
        BY <1>9, <1>12, <1>18
      <4> QED
        BY <4>1, <4>2
    <3> QED
      BY <1>3, <1>4, <1>9, <1>12, <1>13, <2>3, <2>6, <3>1, <3>3, <3>5, AddedCurrent
  <2>9. NewIsEmpty' /\ RecordsLast'
    BY <1>3, <2>7 DEF NewIsEmpty, RecordsLast
  <2>10. SameFlight'
    <3>1. /\ flights' = WithUser(flight.id, flight.user)
      BY <1>2, <1>7, <1>18
    <3>2. /\ flights'[flight.id].user = flight.user
          /\ flights'[flight.id].title = flights[flight.id].title
      BY <1>1, <1>5, <3>1, WithUserEffect
    <3> QED
      BY <1>3, <1>4, <2>3, <2>6, <3>2 DEF SameFlight, Agrees, Exact
  <2> QED
    BY <1>2, <1>3, <1>14, <1>18, <2>5, <2>8, <2>9, <2>10
    DEF StoreInv, SoundFlight, CurrentOK, Agrees
<1>19. CASE k = n /\ ~flight.aircraft[flight.user].recorded
  <2> DEFINE new == Identified(list, r)
  <2>1. /\ Len(new) = n
        /\ \A i \in 1 .. n : new[i].id = r + i - 1
    <3>1. r + Len(list) - 1 <= MaxRows /\ Len(list) = n /\ list \in Seq(AircraftRecords)
      BY <1>9, <1>11, <1>19
    <3>2. Len(new) = Len(list) /\ \A i \in 1 .. Len(list) : new[i].id = r + i - 1
      BY <3>1, IdentifiedEffect
    <3> QED
      BY <3>1, <3>2
  <2>2. flight' = [flight EXCEPT !.aircraft = new]
    <3>1. ~(k < n)
      BY <1>2, <1>19
    <3> QED
      BY <1>6, <1>19, <3>1 DEF list
  <2> HIDE DEF new
  <2>3. flight'.id = flight.id /\ flight'.aircraft = new
    BY <1>1, <2>2 DEF FlightRecords
  <2>4. Known' /\ Held' = 1 .. n
    BY <1>3, <1>5, <1>15, <2>1, <2>3 DEF Held
  <2>5. ~Faithful /\ ~Calm /\ ~Exact' /\ ~Faithful'
    <3>1. ~Faithful
      BY <1>4, <1>19
    <3> QED
      BY <3>1 DEF Faithful, Calm, May, Exact
  <2>6. ASSUME NEW i \in 1 .. n
        PROVE  /\ r + i - 1 \in DOMAIN rows'
               /\ rows'[r + i - 1].flight = flight.id /\ rows'[r + i - 1].seq >= i
    <3>1. i \in 1 .. Len(list) /\ next \in Nat
      BY <1>9, <1>12, <1>19
    <3>2. HasListed(rows', flight.id, next, r, list, i)
      BY <1>1, <1>9, <1>13, <3>1, RowOfList
    <3>3. next + i - 1 >= i
      BY <1>2, <1>12
    <3> QED
      BY <3>2, <3>3 DEF HasListed
  <2>7. HeldHasRow'
    BY <2>1, <2>3, <2>4, <2>6 DEF HeldHasRow
  <2>8. HeldOnce'
    <3>1. ASSUME NEW i \in 1 .. n, NEW j \in 1 .. n, new[i].id = new[j].id PROVE i = j
      <4>1. new[i].id = r + i - 1 /\ new[j].id = r + j - 1 /\ r \in Nat
        BY <2>1, BoundsAssumption DEF RowIds
      <4>2. r + i - 1 = r + j - 1
        BY <3>1, <4>1
      <4>3. i \in Nat /\ j \in Nat
        BY <1>2
      <4> HIDE DEF new
      <4> QED
        BY <4>1, <4>2, <4>3
    <3> QED
      BY <2>3, <2>4, <3>1 DEF HeldOnce
  <2>9. NewIsEmpty' /\ RecordsLast' /\ SameAircraft' /\ SameFlight'
    BY <1>3, <2>4, <2>5 DEF NewIsEmpty, RecordsLast, SameAircraft, SameFlight
  <2> QED
    BY <1>2, <1>3, <1>14, <1>19, <2>5, <2>7, <2>8, <2>9
       DEF StoreInv, SoundFlight, CurrentOK, Agrees
<1> QED
  BY <1>2, <1>16, <1>17, <1>18, <1>19

\* The flight that is loaded has all its aircraft, in the order of their numbers.
Loads(g, id, read, ok) ==
    /\ g \in FlightRecords
    /\ g.id = id /\ g.title = flights[id].title
    /\ g.user = IF ok THEN flights[id].user ELSE 0
    /\ Len(g.aircraft) = Cardinality(read)
    /\ \A i \in 1 .. Cardinality(read) : g.aircraft[i] = Aircraft(RowOfRank(read, i))

LEMMA LoadsEffect ==
    ASSUME FlightsOK, RowsOK, NEW id \in DOMAIN flights, NEW read \in SUBSET RowsOf(id),
           NEW ok \in BOOLEAN
    PROVE  Loads(LoadedFlight(id, read, ok), id, read, ok)
BY LoadedEffect DEF Loads

\* Aircraft are left out, and the others move up: the number of a row is not below its
\* place.
LEMMA ReadInOrder ==
    ASSUME RowsOK, NEW id, NEW read \in SUBSET RowsOf(id), NEW i \in 1 .. Cardinality(read)
    PROVE  /\ RowOfRank(read, i) \in read
           /\ Cardinality(LowerRows(read, RowOfRank(read, i))) = i - 1
           /\ rows[RowOfRank(read, i)].seq >= i
<1> DEFINE at == RowOfRank(read, i)
           S  == LowerRows(read, at)
<1>1. /\ read \in SUBSET DOMAIN rows /\ RowsTyped(rows)
      /\ \A r, s \in read : rows[r].seq = rows[s].seq => r = s
      /\ \A r \in read : rows[r].seq \in Nat \ {0}
  BY DEF RowsOf, RowsOK, UniqueSeq, RowsTyped, RowRecords
<1>2. at \in read /\ Cardinality(S) = i - 1
  BY <1>1, RankedRows
<1> HIDE DEF at
<1>3. S \in SUBSET read /\ \A r \in S : rows[r].seq < rows[at].seq
  BY DEF LowerRows
<1> HIDE DEF S
<1> DEFINE q == rows[at].seq
           number == [r \in S |-> rows[r].seq]
<1>4. q \in Nat \ {0}
  BY <1>1, <1>2
<1> HIDE DEF q
<1>5. \A r \in S : rows[r].seq \in 1 .. q - 1
  BY <1>1, <1>3, <1>4 DEF q
<1>6. number \in Injection(S, 1 .. q - 1)
  BY <1>1, <1>3, <1>5 DEF Injection, IsInjective
<1>7. IsFiniteSet(1 .. q - 1) /\ Cardinality(1 .. q - 1) = q - 1
  BY <1>4, FS_Interval
<1>8. Cardinality(S) <= Cardinality(1 .. q - 1)
  BY <1>6, <1>7, FS_Injection
<1>9. q >= i
  <2>1. i - 1 <= q - 1
    BY <1>2, <1>7, <1>8
  <2>2. i \in Int
    OBVIOUS
  <2> QED
    BY <1>4, <2>1, <2>2
<1> QED
  BY <1>2, <1>9 DEF q, at, S

\* The flight that is loaded has no aircraft twice, and all of them unless reading fails.
LEMMA LoadFlightKept ==
    ASSUME RecordsOK, RecordsOK', StoreInv, running, NEW id \in DOMAIN flights, LoadFlight(id)
    PROVE  StoreInv'
<1>1. /\ ~recording' /\ DialogOK' /\ UNCHANGED <<flights, rows>> /\ LogbookConsistent
      /\ FlightsOK /\ RowsOK /\ RowsTyped(rows)
  BY DialogClosed DEF LoadFlight, Idle, NoDialog, StoreInv, db, RecordsOK, RowsOK
<1>2. PICK read \in SUBSET RowsOf(id), ok \in BOOLEAN :
        /\ flight' = LoadedFlight(id, read, ok)
        /\ running' = (flight'.user \in DOMAIN flight'.aircraft)
        /\ ~May("load") => read = RowsOf(id) /\ ok
  BY DEF LoadFlight
<1> DEFINE S == RowsOf(id)
           m == Cardinality(read)
           at(i) == RowOfRank(read, i)
<1>3. /\ flight' \in FlightRecords
      /\ flight'.id = id /\ flight'.title = flights[id].title
      /\ flight'.user = IF ok THEN flights[id].user ELSE 0
      /\ Len(flight'.aircraft) = m
      /\ \A i \in 1 .. m : flight'.aircraft[i] = Aircraft(at(i))
  <2>1. Loads(LoadedFlight(id, read, ok), id, read, ok)
    BY <1>1, LoadsEffect
  <2> QED
    BY <1>2, <2>1 DEF Loads
<1>4. ~May("load") => Numbered(read, m)
  BY <1>1, <1>2, ConsistentParts, RowsNumbered
<1>5. S = {r \in DOMAIN rows : rows[r].flight = id} /\ read \subseteq S
  BY DEF RowsOf
<1>6. Known' /\ Held' = 1 .. m
  BY <1>1, <1>3 DEF Known, Held
<1>7. \A r \in S, q \in S : rows[r].seq = rows[q].seq => r = q
  BY <1>1, <1>5 DEF RowsOK, UniqueSeq
<1>8. m \in Nat
  BY <1>1, <1>5, RowsAreFinite
<1>9. ASSUME NEW i \in 1 .. m
      PROVE  at(i) \in read /\ rows[at(i)].seq >= i
  BY <1>1, ReadInOrder
<1>10. ASSUME NEW i \in 1 .. m, NEW j \in 1 .. m, at(i) = at(j) PROVE i = j
  <2>1. /\ Cardinality(LowerRows(read, at(i))) = i - 1
        /\ Cardinality(LowerRows(read, at(j))) = j - 1
    BY <1>1, ReadInOrder
  <2> HIDE DEF m, at
  <2>2. i - 1 = j - 1 /\ i \in Int /\ j \in Int
    BY <1>10, <2>1
  <2> QED
    BY <2>2
<1>11. ~May("load") => /\ \A r \in read : rows[r].seq \in 1 .. m
                       /\ \A i \in 1 .. m : rows[at(i)].seq = i
  BY <1>4 DEF Numbered
<1> HIDE DEF S, m, at
<1>12. \A i \in 1 .. m : /\ flight'.aircraft[i].id = at(i)
                         /\ flight'.aircraft[i].recorded = rows[at(i)].recorded
                         /\ flight'.aircraft[i].data = rows[at(i)].data
  <2>1. ASSUME NEW i \in 1 .. m
        PROVE  /\ flight'.aircraft[i].id = at(i)
               /\ flight'.aircraft[i].recorded = rows[at(i)].recorded
               /\ flight'.aircraft[i].data = rows[at(i)].data
    <3>1. flight'.aircraft[i] = Aircraft(at(i))
      BY <1>3
    <3> QED
      BY <3>1 DEF Aircraft
  <2> QED
    BY <2>1
<1>13. ~May("load") => running'
  <2> SUFFICES ASSUME ~May("load") PROVE running'
    OBVIOUS
  <2>1. HasRow(rows, id, flights[id].user)
    BY <1>1, ConsistentParts DEF UsersExist
  <2>2. read = S
    BY <1>2 DEF S
  <2>3. flights[id].user \in 1 .. m
    BY <1>5, <1>11, <2>1, <2>2 DEF HasRow
  <2>4. DOMAIN flight'.aircraft = 1 .. m
    BY <1>3 DEF FlightRecords
  <2> QED
    BY <1>2, <1>3, <2>3, <2>4
<1>14. HeldHasRow'
  <2>1. ASSUME NEW i \in 1 .. m
        PROVE  /\ flight'.aircraft[i].id \in DOMAIN rows
               /\ rows[flight'.aircraft[i].id].flight = id
               /\ rows[flight'.aircraft[i].id].seq >= i
    BY <1>5, <1>9, <1>12
  <2> QED
    BY <1>1, <1>3, <1>6, <2>1 DEF HeldHasRow
<1>15. HeldOnce'
  <2>1. \A i, j \in 1 .. m : flight'.aircraft[i].id = flight'.aircraft[j].id => i = j
    BY <1>10, <1>12
  <2> QED
    BY <1>6, <2>1 DEF HeldOnce
<1>16. SameAircraft'
  <2> SUFFICES ASSUME ~May("load") PROVE SameAircraft'
    BY DEF SameAircraft, Exact, Faithful
  <2>1. \A i \in 1 .. m : /\ rows[flight'.aircraft[i].id].seq = i
                          /\ rows[flight'.aircraft[i].id].recorded = flight'.aircraft[i].recorded
                          /\ rows[flight'.aircraft[i].id].data = flight'.aircraft[i].data
    BY <1>11, <1>12
  <2>2. ASSUME NEW r \in S PROVE \E i \in 1 .. m : flight'.aircraft[i].id = r
    <3> DEFINE i == rows[r].seq
    <3>1. r \in read
      BY <1>2 DEF S
    <3>2. i \in 1 .. m
      BY <1>11, <3>1
    <3>3. at(i) \in S /\ rows[at(i)].seq = rows[r].seq
      BY <1>5, <1>9, <1>11, <3>2
    <3>4. at(i) = r
      BY <1>7, <3>3
    <3> QED
      BY <1>12, <3>2, <3>4
  <2>3. RowsOf(flight.id)' = S
    BY <1>1, <1>3, <1>5 DEF RowsOf
  <2> QED
    BY <1>1, <1>6, <2>1, <2>2, <2>3 DEF SameAircraft
<1>17. SameFlight'
  <2>1. ~May("load") => flight'.user = flights[id].user
    BY <1>2, <1>3
  <2> QED
    BY <1>1, <1>3, <2>1 DEF SameFlight, Exact, Faithful
<1>18. NewIsEmpty' /\ RecordsLast'
  BY <1>1, <1>6 DEF NewIsEmpty, RecordsLast
<1>19. LogbookConsistent'
  BY <1>1, SameDatabase DEF db
<1>20. Calm => running'
  BY <1>13 DEF Calm, May
<1> QED
  BY <1>1, <1>14, <1>15, <1>16, <1>17, <1>18, <1>19, <1>20
     DEF StoreInv, SoundFlight, CurrentOK, Agrees

-----------------------------------------------------------------------------
(***************************************************************************)
(* The Logbook and Formation modules.                                      *)
(***************************************************************************)
LEMMA AskedKept ==
    ASSUME RecordsOK, StoreInv, running, NEW id, NEW i,
           \/ AskDeleteFlight(id) \/ AskDeleteAircraft \/ Keep \/ Select(i)
    PROVE  StoreInv'
<1>1. UNCHANGED <<db, flight, recording, module, running, inStep>>
  BY DEF AskDeleteFlight, AskDeleteAircraft, Keep, Select
<1>2. DialogOK'
  <2>1. CASE AskDeleteFlight(id)
    BY <2>1 DEF AskDeleteFlight, Idle, DialogOK
  <2>2. CASE AskDeleteAircraft
    BY <2>2 DEF AskDeleteAircraft, Idle, DialogOK
  <2>3. CASE Keep
    BY <2>3, DialogClosed DEF Keep
  <2>4. CASE Select(i)
    <3>1. dialog.asks = "nothing" /\ dialog' = dialog
      BY <2>4 DEF Select, NoDialog
    <3> QED
      BY <3>1, DialogClosed
  <2> QED
    BY <2>1, <2>2, <2>3, <2>4
<1> QED
  BY <1>1, <1>2, QuietKept

\* Nothing but the flights' own data are changed.
LEMMA SameUsers ==
    ASSUME LogbookConsistent, UNCHANGED rows, DOMAIN flights' = DOMAIN flights,
           \A f \in DOMAIN flights : HasRow(rows, f, flights'[f].user)
    PROVE  LogbookConsistent'
<1>1. Owned(rows, flights) /\ UniqueSeq(rows) /\ Gapless(rows)
  BY ConsistentParts
<1>2. Owned(rows', flights') /\ UniqueSeq(rows') /\ Gapless(rows') /\ UsersExist(rows', flights')
  BY <1>1 DEF Owned, UsersExist
<1> QED
  BY <1>2, ConsistentNext

LEMMA DeleteFlightKept ==
    ASSUME RecordsOK, RecordsOK', StoreInv, running, DeleteFlight PROVE StoreInv'
<1> DEFINE d == dialog.id
<1>1. /\ recording' = recording /\ running' /\ DialogOK' /\ module' = module
      /\ LogbookConsistent /\ CurrentOK /\ Agrees
  BY DialogClosed DEF DeleteFlight, StoreInv, SoundFlight
<1>2. /\ flight' = IF flight.id = d THEN Cleared(flight) ELSE flight
      /\ inStep' = (inStep \/ flight.id = d)
      /\ \/ /\ flights' = [f \in DOMAIN flights \ {d} |-> flights[f]]
            /\ rows' = WithoutRowsOf(d)
         \/ UNCHANGED db
  BY DEF DeleteFlight
<1>3. RowsOK
  BY DEF RecordsOK
<1>4. Owned(rows, flights) /\ UniqueSeq(rows) /\ Gapless(rows) /\ UsersExist(rows, flights)
  BY <1>1, ConsistentParts
<1> HIDE DEF d
<1>5. CASE /\ flights' = [f \in DOMAIN flights \ {d} |-> flights[f]]
           /\ rows' = WithoutRowsOf(d)
  <2>1. /\ DOMAIN rows' = {x \in DOMAIN rows : rows[x].flight # d}
        /\ \A r \in DOMAIN rows' : rows'[r] = rows[r]
    BY <1>3, <1>5, WithoutRowsOfEffect
  <2>2. /\ DOMAIN flights' = DOMAIN flights \ {d}
        /\ \A f \in DOMAIN flights' : flights'[f] = flights[f]
    BY <1>5
  <2>3. Owned(rows', flights')
    BY <1>4, <2>1, <2>2 DEF Owned
  <2>4. UniqueSeq(rows')
    BY DEF RecordsOK, RowsOK
  <2>5. Gapless(rows')
    <3>1. ASSUME NEW r \in DOMAIN rows', rows'[r].seq > 1
          PROVE  HasRow(rows', rows'[r].flight, rows'[r].seq - 1)
      <4>1. r \in DOMAIN rows /\ rows[r].flight # d /\ rows'[r] = rows[r]
        BY <2>1
      <4>2. PICK s \in DOMAIN rows :
              rows[s].flight = rows[r].flight /\ rows[s].seq = rows[r].seq - 1
        BY <1>4, <3>1, <4>1 DEF Gapless
      <4>3. s \in DOMAIN rows' /\ rows'[s] = rows[s]
        BY <2>1, <4>1, <4>2
      <4> QED
        BY <4>1, <4>2, <4>3 DEF HasRow
    <3> QED
      BY <3>1 DEF Gapless, HasRow
  <2>6. UsersExist(rows', flights')
    BY <1>4, <2>1, <2>2 DEF UsersExist, HasRow
  <2>7. LogbookConsistent'
    BY <2>3, <2>4, <2>5, <2>6, ConsistentNext
  <2>8. CASE flight.id = d
    <3>1. flight \in FlightRecords /\ flight.aircraft # <<>>
      BY FlightFields DEF RecordsOK, FlightOK, StoreInv, SoundFlight
    <3>2. /\ flight'.id = InvalidId /\ Len(flight'.aircraft) = 1
          /\ ~flight'.aircraft[1].recorded
      BY <1>2, <2>8, <3>1, ClearedEffect
    <3>3. CurrentOK' /\ Agrees'
      BY <1>1, <3>2, NewFlightOK
    <3> QED
      BY <1>1, <2>7, <3>3 DEF StoreInv, SoundFlight
  <2>9. CASE flight.id # d
    <3>1. flight' = flight /\ (inStep' => inStep)
      BY <1>2, <2>9
    <3>2. (Known' <=> Known) /\ Held' = Held /\ (Exact' => Exact)
      BY <1>1, <2>2, <2>9, <3>1 DEF Known, Held, Exact
    <3>3. ASSUME Known, NEW i \in Held
          PROVE  /\ flight.aircraft[i].id \in DOMAIN rows'
                 /\ rows'[flight.aircraft[i].id] = rows[flight.aircraft[i].id]
                 /\ rows[flight.aircraft[i].id].flight = flight.id
                 /\ rows[flight.aircraft[i].id].seq >= i
      <4>1. /\ flight.aircraft[i].id \in DOMAIN rows
            /\ rows[flight.aircraft[i].id].flight = flight.id
            /\ rows[flight.aircraft[i].id].seq >= i
        BY <1>1, <3>3 DEF CurrentOK, HeldHasRow
      <4> QED
        BY <2>1, <2>9, <4>1
    <3>4. HeldHasRow' /\ HeldOnce' /\ NewIsEmpty' /\ RecordsLast'
      <4>1. HeldHasRow'
        BY <3>1, <3>2, <3>3 DEF HeldHasRow
      <4>2. HeldOnce' /\ NewIsEmpty' /\ RecordsLast'
        BY <1>1, <3>1, <3>2 DEF CurrentOK, HeldOnce, NewIsEmpty, RecordsLast
      <4> QED
        BY <4>1, <4>2
    <3>5. SameAircraft'
      <4> SUFFICES ASSUME Exact, Known PROVE SameAircraft'
        BY <3>1, <3>2 DEF SameAircraft
      <4>1. RowsOf(flight.id)' = RowsOf(flight.id)
        BY <2>1, <2>9, <3>1 DEF RowsOf
      <4>2. /\ \A i \in Held :
                 /\ rows[flight.aircraft[i].id].seq = i
                 /\ rows[flight.aircraft[i].id].recorded = flight.aircraft[i].recorded
                 /\ rows[flight.aircraft[i].id].data = flight.aircraft[i].data
            /\ \A r \in RowsOf(flight.id) : \E i \in Held : flight.aircraft[i].id = r
        BY <1>1 DEF Agrees, SameAircraft
      <4>3. \A i \in Held :
                 /\ rows'[flight.aircraft[i].id].seq = i
                 /\ rows'[flight.aircraft[i].id].recorded = flight.aircraft[i].recorded
                 /\ rows'[flight.aircraft[i].id].data = flight.aircraft[i].data
        BY <3>3, <4>2
      <4> QED
        BY <3>1, <3>2, <4>1, <4>2, <4>3 DEF SameAircraft
    <3>6. SameFlight'
      BY <1>1, <2>2, <3>1, <3>2 DEF Agrees, SameFlight, Known
    <3> QED
      BY <1>1, <2>7, <3>4, <3>5, <3>6 DEF StoreInv, SoundFlight, CurrentOK, Agrees
  <2> QED
    BY <2>8, <2>9
<1>6. CASE UNCHANGED db
  <2>1. CASE flight.id = d
    <3>1. flight \in FlightRecords /\ flight.aircraft # <<>>
      BY FlightFields DEF RecordsOK, FlightOK, StoreInv, SoundFlight
    <3>2. /\ flight'.id = InvalidId /\ Len(flight'.aircraft) = 1
          /\ ~flight'.aircraft[1].recorded
      BY <1>2, <2>1, <3>1, ClearedEffect
    <3> QED
      BY <1>1, <1>6, <3>2, ForgottenKept
  <2>2. CASE flight.id # d
    <3>1. flight' = flight /\ inStep' = inStep
      BY <1>2, <2>2 DEF RecordsOK, ControlsOK
    <3>2. recording' = recording /\ running' = running
      BY DEF DeleteFlight
    <3>3. UNCHANGED <<db, flight, recording, running, inStep>>
      BY <1>6, <3>1, <3>2
    <3> QED
      BY <1>1, <3>3, QuietKept
  <2> QED
    BY <2>1, <2>2
<1> QED
  BY <1>2, <1>5, <1>6

LEMMA UpdateTitleKept ==
    ASSUME RecordsOK, RecordsOK', StoreInv, running, NEW id, NEW title \in Titles,
           UpdateTitle(id, title)
    PROVE  StoreInv'
<1>1. /\ running' /\ recording' = recording /\ module' = module /\ DialogOK'
      /\ UNCHANGED rows /\ inStep' = inStep
      /\ LogbookConsistent /\ CurrentOK /\ Agrees
  BY DialogClosed DEF UpdateTitle, NoDialog, StoreInv, SoundFlight
<1>2. /\ flight'.id = flight.id /\ flight'.user = flight.user
      /\ flight'.aircraft = flight.aircraft
      /\ flight'.title = IF flight.id = id THEN title ELSE flight.title
  BY DEF UpdateTitle, RecordsOK, FlightOK, FlightRecords
<1>3. /\ DOMAIN flights' = DOMAIN flights
      /\ \A f \in DOMAIN flights :
           /\ flights'[f].user = flights[f].user
           /\ flights'[f].title = IF f = id THEN title ELSE flights[f].title
  BY WithTitleEffect DEF UpdateTitle, RecordsOK
<1>4. (Known' <=> Known) /\ Held' = Held
  BY <1>1, <1>2, <1>3 DEF Known, Held
<1>5. HeldHasRow' /\ HeldOnce' /\ SameAircraft'
  <2>1. CASE Known
    BY <1>1, <1>2, <1>4, <2>1, SameHeld
  <2>2. CASE ~Known
    BY <1>4, <2>2 DEF HeldHasRow, HeldOnce, SameAircraft
  <2> QED
    BY <2>1, <2>2
<1>6. NewIsEmpty' /\ RecordsLast'
  BY <1>1, <1>2, <1>4 DEF CurrentOK, NewIsEmpty, RecordsLast
<1>7. SameFlight'
  <2>1. Exact' <=> Exact
    BY <1>1 DEF Exact
  <2> QED
    BY <1>1, <1>2, <1>3, <1>4, <2>1 DEF Agrees, SameFlight, Known
<1>8. LogbookConsistent'
  <2>1. UsersExist(rows, flights)
    BY <1>1, ConsistentParts
  <2>2. \A f \in DOMAIN flights : HasRow(rows, f, flights'[f].user)
    BY <1>3, <2>1 DEF UsersExist
  <2> QED
    BY <1>1, <1>3, <2>2, SameUsers
<1> QED
  BY <1>1, <1>5, <1>6, <1>7, <1>8 DEF StoreInv, SoundFlight, CurrentOK, Agrees

\* An aircraft is selected if any index is.
LEMMA SelectedExists ==
    ASSUME Regular, RecordsOK
    PROVE  /\ selected \in 0 .. Len(flight.aircraft)
           /\ selected \in DOMAIN flight.aircraft <=> selected # 0
<1>1. selected \in 0 .. Len(flight.aircraft)
  BY RegularHazards DEF RecordsOK, FlightOK, MaySelectReplaced
<1>2. DOMAIN flight.aircraft = 1 .. Len(flight.aircraft) /\ Len(flight.aircraft) \in Nat
  BY FlightFields DEF RecordsOK
<1> QED
  BY <1>1, <1>2

LEMMA SwitchUserAircraftKept ==
    ASSUME Regular, RecordsOK, RecordsOK', StoreInv, running, SwitchUserAircraft PROVE StoreInv'
<1>1. /\ running' /\ ~recording /\ ~recording' /\ module' = module /\ DialogOK'
      /\ UNCHANGED rows
      /\ LogbookConsistent /\ CurrentOK /\ Agrees
  <2>1. running'
    BY SelectedExists, RegularHazards DEF SwitchUserAircraft
  <2> QED
    BY <2>1, DialogClosed DEF SwitchUserAircraft, Idle, NoDialog, StoreInv, SoundFlight
<1>2. /\ flight \in FlightRecords /\ Len(flight.aircraft) \in Nat
      /\ flight.user \in 1 .. Len(flight.aircraft)
      /\ selected \in 0 .. Len(flight.aircraft) /\ selected # 0 /\ selected # flight.user
      /\ FlightsOK
  BY FlightFields, SelectedExists, RegularHazards DEF RecordsOK, FlightOK, SwitchUserAircraft
<1>3. selected \in 1 .. Len(flight.aircraft) /\ selected \in Nat \ {0} /\ Len(flight.aircraft) > 1
  BY <1>2
<1>4. Known
  BY <1>3, RecordedIsKnown
<1>5. /\ flight'.id = flight.id /\ flight'.user = selected /\ flight'.title = flight.title
      /\ flight'.aircraft = flight.aircraft
  BY <1>2, <1>3 DEF SwitchUserAircraft, FlightRecords
<1>6. \/ flights' = WithUser(flight.id, selected) /\ inStep' = inStep
      \/ flights' = flights /\ ~inStep'
  BY SelectedExists, RegularHazards DEF SwitchUserAircraft
<1>7. DOMAIN flights' = DOMAIN flights
  BY <1>6 DEF WithUser
<1>8. Known' /\ Held' = Held /\ Held = 1 .. Len(flight.aircraft)
  BY <1>1, <1>4, <1>5, <1>7 DEF Known, Held
<1>9. HeldHasRow' /\ HeldOnce' /\ SameAircraft'
  BY <1>1, <1>4, <1>5, <1>6, <1>8, SameHeld
<1>10. NewIsEmpty' /\ RecordsLast'
  BY <1>1, <1>8 DEF NewIsEmpty, RecordsLast
<1>11. SameFlight'
  <2>1. CASE flights' = WithUser(flight.id, selected)
    <3>1. /\ flights'[flight.id].user = selected
          /\ flights'[flight.id].title = flights[flight.id].title
      BY <1>2, <1>3, <1>4, <2>1, WithUserEffect DEF Known
    <3> QED
      BY <1>1, <1>4, <1>5, <1>6, <3>1 DEF Agrees, SameFlight, Exact
  <2>2. CASE ~inStep'
    BY <2>2 DEF SameFlight, Exact
  <2> QED
    BY <1>6, <2>1, <2>2
<1>12. LogbookConsistent'
  <2>1. HasRow(rows, flight.id, selected)
    BY <1>1, <1>3, <1>4, <1>8, HeldNumbers
  <2>2. UsersExist(rows, flights)
    BY <1>1, ConsistentParts
  <2>3. ASSUME NEW f \in DOMAIN flights PROVE HasRow(rows, f, flights'[f].user)
    <3>1. CASE flights' = WithUser(flight.id, selected)
      <4>1. flights'[f].user = IF f = flight.id THEN selected ELSE flights[f].user
        BY <1>2, <1>3, <3>1, WithUserEffect
      <4> QED
        BY <2>1, <2>2, <4>1 DEF UsersExist
    <3>2. CASE flights' = flights
      BY <2>2, <3>2 DEF UsersExist
    <3> QED
      BY <1>6, <3>1, <3>2
  <2> QED
    BY <1>1, <1>7, <2>3, SameUsers
<1> QED
  BY <1>1, <1>9, <1>10, <1>11, <1>12 DEF StoreInv, SoundFlight, CurrentOK, Agrees

\* The numbers of the rows stay.
LEMMA SameNumbers ==
    ASSUME LogbookConsistent, UNCHANGED flights, RecordsOK', DOMAIN rows' = DOMAIN rows,
           \A r \in DOMAIN rows : rows'[r].flight = rows[r].flight /\ rows'[r].seq = rows[r].seq
    PROVE  LogbookConsistent'
<1>1. Owned(rows, flights) /\ Gapless(rows) /\ UsersExist(rows, flights)
  BY ConsistentParts
<1>2. Owned(rows', flights')
  BY <1>1 DEF Owned
<1>3. Gapless(rows')
  <2>1. ASSUME NEW r \in DOMAIN rows', rows'[r].seq > 1
        PROVE  HasRow(rows', rows'[r].flight, rows'[r].seq - 1)
    <3>1. rows[r].seq > 1 /\ r \in DOMAIN rows
      BY <2>1
    <3>2. PICK s \in DOMAIN rows : rows[s].flight = rows[r].flight /\ rows[s].seq = rows[r].seq - 1
      BY <1>1, <3>1 DEF Gapless
    <3> QED
      BY <3>1, <3>2 DEF HasRow
  <2> QED
    BY <2>1 DEF Gapless, HasRow
<1>4. UsersExist(rows', flights')
  <2>1. \A f, n : HasRow(rows, f, n) => HasRow(rows', f, n)
    BY DEF HasRow
  <2> QED
    BY <1>1, <2>1 DEF UsersExist
<1>5. UniqueSeq(rows')
  BY DEF RecordsOK, RowsOK
<1> QED
  BY <1>2, <1>3, <1>4, <1>5, ConsistentNext

\* An edit changes an aircraft of the current flight and its row, if there is one.
EditsOne(i, data) ==
    /\ NoDialog /\ module = "Formation"
    /\ IsValid(flight.id) \/ May("editCleared")
    /\ flight.aircraft[i].id # InvalidId
    /\ flight' = [flight EXCEPT !.aircraft[i].data = data]
    /\ rows' = WithData(flight.aircraft[i].id, data)
    /\ UNCHANGED <<flights, recording, module, selected, dialog, running, inStep>>

LEMMA EditAircraftEffect ==
    ASSUME Regular, RecordsOK, NEW data \in Data, EditAircraft(data)
    PROVE  selected \in DOMAIN flight.aircraft /\ EditsOne(selected, data)
<1>1. selected \in DOMAIN flight.aircraft
  BY SelectedExists, RegularHazards DEF EditAircraft
<1> QED
  BY <1>1 DEF EditAircraft, EditsOne

LEMMA EditAircraftKept ==
    ASSUME RecordsOK, RecordsOK', StoreInv, running,
           NEW i \in DOMAIN flight.aircraft, NEW data \in Data, EditsOne(i, data)
    PROVE  StoreInv'
<1> DEFINE a(j) == flight.aircraft[j]
           b(j) == flight'.aircraft[j]
<1>1. /\ running' /\ recording' = recording /\ module' = module /\ DialogOK'
      /\ flights' = flights /\ inStep' = inStep
      /\ LogbookConsistent /\ CurrentOK /\ Agrees
  BY DialogClosed DEF EditsOne, NoDialog, StoreInv, SoundFlight
<1>2. /\ flight \in FlightRecords /\ Len(flight.aircraft) \in Nat
      /\ DOMAIN flight.aircraft = 1 .. Len(flight.aircraft)
      /\ RowsOK /\ RowsTyped(rows)
  BY FlightFields DEF RecordsOK, FlightOK, RowsOK
<1>3. /\ flight'.id = flight.id /\ flight'.user = flight.user /\ flight'.title = flight.title
      /\ Len(flight'.aircraft) = Len(flight.aircraft)
      /\ \A j \in DOMAIN flight.aircraft :
           /\ b(j).id = a(j).id /\ b(j).recorded = a(j).recorded
           /\ b(j).data = IF j = i THEN data ELSE a(j).data
  BY <1>2, AircraftDataEffect DEF EditsOne
<1>4. /\ DOMAIN rows' = DOMAIN rows
      /\ \A r \in DOMAIN rows :
           /\ rows'[r].flight = rows[r].flight /\ rows'[r].seq = rows[r].seq
           /\ rows'[r].recorded = rows[r].recorded
           /\ rows'[r].data = IF r = a(i).id THEN data ELSE rows[r].data
  BY <1>2, WithDataEffect DEF EditsOne
<1>5. (Known' <=> Known) /\ Held' = Held
  BY <1>1, <1>3 DEF Known, Held
<1>6. Held \subseteq DOMAIN flight.aircraft
  BY <1>2 DEF Held
<1>7. Known => \A j \in Held : /\ a(j).id \in DOMAIN rows
                               /\ rows[a(j).id].flight = flight.id /\ rows[a(j).id].seq >= j
  BY <1>1 DEF CurrentOK, HeldHasRow
<1>8. Known => \A j, k \in Held : a(j).id = a(k).id => j = k
  BY <1>1 DEF CurrentOK, HeldOnce
<1>9. Known /\ i \notin Held => a(i).id \notin DOMAIN rows
  <2> SUFFICES ASSUME Known, i \notin Held PROVE a(i).id \notin DOMAIN rows
    OBVIOUS
  <2>1. recording /\ i = Len(flight.aircraft)
    BY <1>2 DEF Held
  <2>2. a(i).id = RecordingId
    BY <1>1, <2>1 DEF CurrentOK, RecordsLast
  <2>3. RecordingId \notin RowIds
    BY BoundsAssumption DEF RowIds, RecordingId
  <2> QED
    BY <1>2, <2>2, <2>3 DEF RowsTyped
<1>10. NewIsEmpty'
  <2>1. ~Known => 1 \in DOMAIN flight.aircraft
    BY <1>1, <1>2 DEF CurrentOK, NewIsEmpty
  <2> QED
    BY <1>1, <1>3, <1>5, <2>1 DEF CurrentOK, NewIsEmpty
<1>11. RecordsLast'
  <2>1. Len(flight.aircraft) > 1 => Len(flight.aircraft) \in DOMAIN flight.aircraft
    BY <1>2
  <2> QED
    BY <1>1, <1>3, <1>5, <2>1 DEF CurrentOK, RecordsLast
<1> HIDE DEF a, b
<1>12. HeldHasRow'
  <2>1. ASSUME Known, NEW j \in Held
        PROVE  /\ b(j).id \in DOMAIN rows'
               /\ rows'[b(j).id].flight = flight.id /\ rows'[b(j).id].seq >= j
    BY <1>3, <1>4, <1>6, <1>7, <2>1
  <2> QED
    BY <1>3, <1>5, <2>1 DEF HeldHasRow, b
<1>13. HeldOnce'
  <2>1. Known => \A j, k \in Held : b(j).id = b(k).id => j = k
    BY <1>3, <1>6, <1>8
  <2> QED
    BY <1>5, <2>1 DEF HeldOnce, b
<1>14. SameAircraft'
  <2> SUFFICES ASSUME Exact, Known PROVE SameAircraft'
    BY <1>1, <1>5 DEF SameAircraft, Exact
  <2>1. RowsOf(flight.id)' = RowsOf(flight.id)
    BY <1>3, <1>4 DEF RowsOf
  <2>2. /\ \A j \in Held : /\ rows[a(j).id].seq = j
                           /\ rows[a(j).id].recorded = a(j).recorded
                           /\ rows[a(j).id].data = a(j).data
        /\ \A r \in RowsOf(flight.id) : \E j \in Held : a(j).id = r
    BY <1>1 DEF Agrees, SameAircraft, a
  <2>3. ASSUME NEW j \in Held
        PROVE  /\ rows'[b(j).id].seq = j
               /\ rows'[b(j).id].recorded = b(j).recorded
               /\ rows'[b(j).id].data = b(j).data
    <3>1. b(j).id = a(j).id /\ a(j).id \in DOMAIN rows /\ b(j).recorded = a(j).recorded
          /\ b(j).data = IF j = i THEN data ELSE a(j).data
      BY <1>3, <1>6, <1>7
    <3>2. j = i <=> a(j).id = a(i).id
      BY <1>7, <1>8, <1>9
    <3> QED
      BY <1>4, <2>2, <3>1, <3>2
  <2>4. \A r \in RowsOf(flight.id) : \E j \in Held : b(j).id = r
    BY <1>3, <1>6, <2>2
  <2> QED
    BY <1>5, <2>1, <2>3, <2>4 DEF SameAircraft, b
<1>15. SameFlight'
  BY <1>1, <1>3, <1>5 DEF Agrees, SameFlight, Exact
<1>16. LogbookConsistent'
  BY <1>1, <1>4, SameNumbers
<1> QED
  BY <1>1, <1>10, <1>11, <1>12, <1>13, <1>14, <1>15, <1>16
  DEF StoreInv, SoundFlight, CurrentOK, Agrees

\* An aircraft is removed from the flight; its row as well, or the transaction fails.
LEMMA RemoveAircraftKept ==
    ASSUME Regular, RecordsOK, RecordsOK', StoreInv, running, DeleteAircraft,
           Len(flight.aircraft) # 1, selected # 0
    PROVE  StoreInv'
<1> DEFINE a(j) == flight.aircraft[j]
           b(j) == flight'.aircraft[j]
           len  == Len(flight.aircraft)
           n    == selected
           id   == a(n).id
           from(j) == IF j < n THEN j ELSE j + 1
           without == WithoutRow(flight.id, id, n)
<1>1. /\ ~recording /\ ~recording' /\ running /\ running' /\ DialogOK' /\ module' = module
      /\ LogbookConsistent /\ CurrentOK /\ Agrees
      /\ len > 1 /\ n # 0
  <2>1. LogbookConsistent /\ CurrentOK /\ Agrees /\ DialogOK
    BY DEF StoreInv, SoundFlight
  <2>2. /\ dialog.asks = "deleteAircraft" /\ dialog'.asks = "nothing"
        /\ UNCHANGED <<recording, module, running>>
    BY SelectedExists DEF DeleteAircraft
  <2>3. len > 1
    <3>1. len \in Nat /\ flight.user \in 1 .. len /\ len # 1
      BY FlightFields DEF RecordsOK
    <3>2. \A k \in Nat : \A u \in 1 .. k : k # 1 => k > 1
      OBVIOUS
    <3> HIDE DEF len
    <3> QED
      BY <3>1, <3>2
  <2> QED
    BY <2>1, <2>2, <2>3, DialogClosed DEF DialogOK
<1>2. /\ flight \in FlightRecords /\ len \in Nat /\ flight.user \in 1 .. len
      /\ n \in 0 .. len /\ FlightsOK /\ RowsOK /\ RowsTyped(rows)
  BY FlightFields, SelectedExists DEF RecordsOK, FlightOK, StoreInv, SoundFlight, RowsOK
<1>3. n \in 1 .. len /\ n \in Nat \ {0}
  BY <1>1, <1>2
<1>4. /\ flight' = RemoveAircraft(flight, n)
      /\ \/ /\ UniqueSeq(without)
            /\ rows' = without
            /\ flights' = WithUser(flight.id, flight'.user)
            /\ inStep' = inStep
         \/ UNCHANGED db /\ ~inStep'
  <2>1. len \in Nat /\ len > 1 /\ n \in DOMAIN flight.aircraft
    BY <1>1, <1>2, SelectedExists
  <2> HIDE DEF len, n
  <2>2. len # 1 /\ n \in DOMAIN flight.aircraft
    BY <2>1
  <2> QED
    BY <2>2 DEF DeleteAircraft, len, n
<1>5. Known
  BY <1>1, RecordedIsKnown
<1>6. Held = 1 .. len
  BY <1>1 DEF Held
<1>7. /\ flight'.id = flight.id /\ flight'.title = flight.title
      /\ flight'.user \in 1 .. len - 1 /\ Len(flight'.aircraft) = len - 1
      /\ \A j \in 1 .. len - 1 : b(j) = IF j < n THEN a(j) ELSE a(j + 1)
  <2>1. Removes(RemoveAircraft(flight, n), flight, n)
    BY <1>1, <1>2, <1>3, RemovesEffect
  <2> QED
    BY <1>4, <2>1 DEF Removes
<1>8. \A j \in 1 .. len - 1 : b(j) = a(from(j))
  BY <1>7
<1>9. \A j \in 1 .. len - 1 : /\ from(j) \in 1 .. len /\ from(j) # n /\ from(j) >= j
                              /\ j = IF from(j) > n THEN from(j) - 1 ELSE from(j)
  BY <1>2, <1>3
<1>10. \A j, k \in 1 .. len - 1 : from(j) = from(k) => j = k
  BY <1>2, <1>3
<1>11. \A i \in 1 .. len : i # n => \E j \in 1 .. len - 1 : from(j) = i
  <2>1. ASSUME NEW i \in 1 .. len, i < n PROVE i \in 1 .. len - 1 /\ from(i) = i
    BY <1>2, <1>3, <2>1
  <2>2. ASSUME NEW i \in 1 .. len, i > n PROVE i - 1 \in 1 .. len - 1 /\ from(i - 1) = i
    BY <1>2, <1>3, <2>2
  <2>3. \A i \in 1 .. len : i # n => i < n \/ i > n
    BY <1>2, <1>3
  <2> HIDE DEF from
  <2> QED
    BY <2>1, <2>2, <2>3
<1>12. Held' = 1 .. len - 1
  BY <1>1, <1>7 DEF Held
<1>13. Known' /\ flight.id \in DOMAIN flights /\ DOMAIN flights' = DOMAIN flights
  <2>1. DOMAIN flights' = DOMAIN flights
    BY <1>4 DEF WithUser, db
  <2> QED
    BY <1>5, <1>7, <2>1 DEF Known
<1>14. \A i \in 1 .. len : /\ a(i).id \in DOMAIN rows
                           /\ rows[a(i).id].flight = flight.id /\ rows[a(i).id].seq >= i
  BY <1>1, <1>5, <1>6 DEF CurrentOK, HeldHasRow
<1>15. \A i, j \in 1 .. len : a(i).id = a(j).id => i = j
  BY <1>1, <1>5, <1>6 DEF CurrentOK, HeldOnce
<1>16. \A r \in DOMAIN rows : rows[r].seq \in Nat
  BY <1>2 DEF RowsTyped, RowRecords
<1> HIDE DEF a, b, from, len, n, id, without
<1>17. NewIsEmpty' /\ RecordsLast'
  BY <1>1, <1>13 DEF NewIsEmpty, RecordsLast
<1>18. HeldOnce'
  <2>1. \A j, k \in 1 .. len - 1 : b(j).id = b(k).id => j = k
    BY <1>8, <1>9, <1>10, <1>15
  <2> QED
    BY <1>12, <2>1 DEF HeldOnce, b
<1>19. CASE UNCHANGED db /\ ~inStep'
  <2>1. LogbookConsistent'
    BY <1>1, <1>19, SameDatabase
  <2>2. HeldHasRow'
    <3>1. ASSUME NEW j \in 1 .. len - 1
          PROVE  /\ b(j).id \in DOMAIN rows
                 /\ rows[b(j).id].flight = flight.id /\ rows[b(j).id].seq >= j
      <4>1. /\ from(j) \in 1 .. len /\ from(j) >= j /\ b(j) = a(from(j))
            /\ from(j) \in Nat /\ j \in Nat
        BY <1>2, <1>8, <1>9 DEF len
      <4>2. /\ b(j).id \in DOMAIN rows
            /\ rows[b(j).id].flight = flight.id /\ rows[b(j).id].seq >= from(j)
            /\ rows[b(j).id].seq \in Nat
        BY <1>14, <1>16, <4>1
      <4> QED
        BY <4>1, <4>2
    <3> QED
      BY <1>7, <1>12, <1>19, <3>1 DEF HeldHasRow, b, db
  <2>3. SameAircraft' /\ SameFlight'
    BY <1>19 DEF SameAircraft, SameFlight, Exact
  <2> QED
    BY <1>1, <1>17, <1>18, <2>1, <2>2, <2>3 DEF StoreInv, SoundFlight, CurrentOK, Agrees
<1>20. CASE /\ UniqueSeq(without) /\ rows' = without
            /\ flights' = WithUser(flight.id, flight'.user) /\ inStep' = inStep
  <2>1. id \in DOMAIN rows /\ rows[id].flight = flight.id /\ n <= rows[id].seq
    BY <1>3, <1>14, <1>16 DEF id
  <2>2. ClosesGap(rows', flight.id, id, n)
    BY <1>2, <1>3, <1>20, WithoutRowEffect DEF without
  <2>3. Gapless(rows')
    <3>1. UniqueSeq(WithoutRow(rows[id].flight, id, n)) /\ Gapless(rows)
      BY <1>1, <1>20, <2>1, ConsistentParts DEF without
    <3>2. Gapless(WithoutRow(rows[id].flight, id, n))
      BY <1>2, <1>3, <2>1, <3>1, WithoutRowGapless
    <3> QED
      BY <1>20, <2>1, <3>2 DEF without
  <2>4. \A j \in 1 .. len - 1 :
          LET i == from(j)
          IN  /\ i \in 1 .. len /\ b(j) = a(i) /\ a(i).id \in DOMAIN rows \ {id}
              /\ rows'[a(i).id].flight = flight.id
              /\ rows'[a(i).id].recorded = rows[a(i).id].recorded
              /\ rows'[a(i).id].data = rows[a(i).id].data
              /\ rows'[a(i).id].seq = IF rows[a(i).id].seq > n THEN rows[a(i).id].seq - 1
                                                              ELSE rows[a(i).id].seq
    <3>1. ASSUME NEW j \in 1 .. len - 1
          PROVE  from(j) \in 1 .. len /\ b(j) = a(from(j)) /\ a(from(j)).id \in DOMAIN rows \ {id}
                 /\ rows[a(from(j)).id].flight = flight.id
      BY <1>3, <1>8, <1>9, <1>14, <1>15 DEF id
    <3> QED
      BY <2>2, <3>1 DEF ClosesGap
  <2>5. ASSUME NEW j \in 1 .. len - 1
        PROVE  /\ b(j).id \in DOMAIN rows'
               /\ rows'[b(j).id].flight = flight.id /\ rows'[b(j).id].seq >= j
    <3> DEFINE i == from(j)
               q == rows[a(i).id].seq
    <3>1. /\ i \in 1 .. len /\ b(j) = a(i) /\ a(i).id \in DOMAIN rows \ {id}
          /\ rows'[a(i).id].flight = flight.id
          /\ rows'[a(i).id].seq = IF q > n THEN q - 1 ELSE q
      BY <2>4
    <3>2. q >= i /\ q \in Nat /\ i \in Nat /\ j \in Nat
      BY <1>2, <1>14, <1>16, <3>1 DEF len
    <3>3. i # n /\ j = IF i > n THEN i - 1 ELSE i
      BY <1>9
    <3> HIDE DEF i, q
    <3>4. (IF q > n THEN q - 1 ELSE q) >= j
      BY <1>3, <3>2, <3>3
    <3>5. a(i).id \in DOMAIN rows'
      BY <2>2, <3>1 DEF ClosesGap
    <3> QED
      BY <3>1, <3>4, <3>5
  <2>6. HeldHasRow'
    BY <1>7, <1>12, <2>5 DEF HeldHasRow, b
  <2>7. SameAircraft'
    <3> SUFFICES ASSUME Exact PROVE SameAircraft'
      BY <1>20 DEF SameAircraft, Exact
    <3>1. /\ \A i \in 1 .. len : /\ rows[a(i).id].seq = i
                                 /\ rows[a(i).id].recorded = a(i).recorded
                                 /\ rows[a(i).id].data = a(i).data
          /\ \A x \in DOMAIN rows : rows[x].flight = flight.id
                                      => \E i \in 1 .. len : a(i).id = x
      BY <1>1, <1>5, <1>6 DEF Agrees, SameAircraft, RowsOf, a
    <3>2. ASSUME NEW j \in 1 .. len - 1
          PROVE  /\ rows'[b(j).id].seq = j /\ rows'[b(j).id].recorded = b(j).recorded
                 /\ rows'[b(j).id].data = b(j).data
      BY <1>9, <2>4, <3>1
    <3>3. ASSUME NEW x \in DOMAIN rows', rows'[x].flight = flight.id
          PROVE  \E j \in 1 .. len - 1 : b(j).id = x
      <4>1. x \in DOMAIN rows /\ x # id /\ rows[x].flight = flight.id
        BY <2>2, <3>3 DEF ClosesGap
      <4>2. PICK i \in 1 .. len : a(i).id = x
        BY <3>1, <4>1
      <4>3. i # n
        BY <4>1, <4>2 DEF id
      <4>4. PICK j \in 1 .. len - 1 : from(j) = i
        BY <1>11, <4>3
      <4> QED
        BY <1>8, <4>2, <4>4
    <3> QED
      BY <1>7, <1>12, <3>2, <3>3 DEF SameAircraft, RowsOf, b
  <2>8. flight'.user \in Nat \ {0} /\ len - 1 \in 1 .. len - 1 /\ len - 1 \in Nat
    BY <1>1, <1>2, <1>7 DEF len
  <2>9. \A f \in DOMAIN flights :
          /\ flights'[f].user = IF f = flight.id THEN flight'.user ELSE flights[f].user
          /\ flights'[f].title = flights[f].title
    BY <1>2, <1>20, <2>8, WithUserEffect
  <2>10. SameFlight'
    BY <1>1, <1>5, <1>7, <1>13, <1>20, <2>9 DEF Agrees, SameFlight, Exact
  <2>11. LogbookConsistent'
    <3>1. Owned(rows, flights) /\ UsersExist(rows, flights)
      BY <1>1, ConsistentParts
    <3>2. Owned(rows', flights')
      BY <1>13, <2>2, <3>1 DEF Owned, ClosesGap
    <3>3. UniqueSeq(rows')
      BY <1>20
    <3>4. HasRow(rows', flight.id, flight'.user)
      <4> DEFINE x == b(len - 1).id
      <4>1. x \in DOMAIN rows' /\ rows'[x].flight = flight.id /\ rows'[x].seq >= len - 1
        BY <2>5, <2>8
      <4>2. RowsTyped(rows')
        BY <2>2 DEF ClosesGap
      <4> HIDE DEF x
      <4>3. rows'[x].seq \in Nat
        BY <4>1, <4>2 DEF RowsTyped, RowRecords
      <4>4. flight'.user \in 1 .. rows'[x].seq
        BY <1>7, <2>8, <4>1, <4>3
      <4> QED
        BY <2>3, <4>1, <4>2, <4>4, RowsBelow
    <3>5. ASSUME NEW f \in DOMAIN flights PROVE HasRow(rows', f, flights'[f].user)
      <4>1. CASE f = flight.id
        BY <2>9, <3>4, <4>1
      <4>2. CASE f # flight.id
        <5>1. PICK r \in DOMAIN rows : rows[r].flight = f /\ rows[r].seq = flights[f].user
          BY <3>1 DEF UsersExist, HasRow
        <5>2. r # id
          BY <2>1, <4>2, <5>1
        <5>3. r \in DOMAIN rows' /\ rows'[r].flight = f /\ rows'[r].seq = flights[f].user
          BY <2>2, <4>2, <5>1, <5>2 DEF ClosesGap
        <5> QED
          BY <2>9, <4>2, <5>3 DEF HasRow
      <4> QED
        BY <4>1, <4>2
    <3>6. UsersExist(rows', flights')
      BY <1>13, <3>5 DEF UsersExist
    <3> QED
      BY <2>3, <3>2, <3>3, <3>6, ConsistentNext
  <2> QED
    BY <1>1, <1>17, <1>18, <2>6, <2>7, <2>10, <2>11 DEF StoreInv, SoundFlight, CurrentOK, Agrees
<1> QED
  BY <1>4, <1>19, <1>20

\* If the session has reset the selection meanwhile, nothing is removed.
LEMMA DeleteAircraftKept ==
    ASSUME Regular, RecordsOK, RecordsOK', StoreInv, running, DeleteAircraft PROVE StoreInv'
<1>1. CASE Len(flight.aircraft) # 1 /\ selected # 0
  BY <1>1, RemoveAircraftKept
<1>2. CASE Len(flight.aircraft) = 1 \/ selected = 0
  <2>1. /\ dialog.asks = "deleteAircraft" /\ dialog'.asks = "nothing"
        /\ UNCHANGED <<db, flight, recording, module, inStep>>
        /\ running' \in {running, FALSE}
    BY <1>2, SelectedExists DEF DeleteAircraft
  <2>2. ~Calm
    <3> SUFFICES ASSUME Calm PROVE FALSE
      OBVIOUS
    <3>1. Len(flight.aircraft) > 1 /\ selected # 0
      BY <2>1, CalmHazards DEF StoreInv, SoundFlight, DialogOK
    <3>2. Len(flight.aircraft) \in Nat
      BY FlightFields DEF RecordsOK
    <3>3. Len(flight.aircraft) # 1
      <4> DEFINE k == Len(flight.aircraft)
      <4>1. k \in Nat /\ k > 1
        BY <3>1, <3>2
      <4> HIDE DEF k
      <4>2. k # 1
        BY <4>1
      <4> QED
        BY <4>2 DEF k
    <3> QED
      BY <1>2, <3>1, <3>3
  <2>3. CurrentOK' /\ Agrees'
    BY <2>1, SameCurrent DEF StoreInv, SoundFlight
  <2>4. LogbookConsistent' /\ DialogOK'
    BY <2>1, SameDatabase, DialogClosed DEF StoreInv
  <2> QED
    BY <2>2, <2>3, <2>4 DEF StoreInv, SoundFlight
<1> QED
  BY <1>1, <1>2

-----------------------------------------------------------------------------
(***************************************************************************)
(* The invariant and what follows from it.                                 *)
(***************************************************************************)
LEMMA InitStore == Init => StoreInv
<1> SUFFICES ASSUME Init PROVE StoreInv
  OBVIOUS
<1>1. DOMAIN flights = {} /\ DOMAIN rows = {} /\ running
  BY DEF Init
<1>2. LogbookConsistent
  BY <1>1 DEF LogbookConsistent, UniqueSeq
<1>3. ~Known
  BY <1>1 DEF Known
<1>4. CurrentOK
  BY <1>3, NewFlightTyped
     DEF Init, CurrentOK, NewIsEmpty, HeldHasRow, HeldOnce, RecordsLast
<1>5. DialogOK /\ Agrees
  BY <1>3 DEF Init, DialogOK, Agrees, SameAircraft, SameFlight
<1> QED
  BY <1>1, <1>2, <1>4, <1>5 DEF StoreInv, SoundFlight

\* A program that has been terminated changes nothing before it is started again.
LEMMA StoreUnchanged == ASSUME StoreInv, UNCHANGED vars PROVE StoreInv'
<1>1. UNCHANGED <<db, flight, recording, running, inStep, module, dialog, selected>>
  BY DEF vars, db
<1>2. LogbookConsistent'
  BY <1>1, SameDatabase DEF StoreInv
<1>3. CASE running \/ Faithful
  <2>1. CurrentOK' /\ Agrees'
    BY <1>1, <1>3, SameCurrent DEF StoreInv, SoundFlight
  <2>2. DialogOK'
    BY <1>1, <1>3 DEF StoreInv, SoundFlight, DialogOK
  <2> QED
    BY <1>1, <1>2, <2>1, <2>2 DEF StoreInv, SoundFlight
<1>4. CASE ~running /\ ~Faithful
  <2>1. ~running' /\ ~Faithful' /\ ~Calm
    BY <1>1, <1>4 DEF Faithful, Calm, May
  <2> QED
    BY <1>2, <2>1 DEF StoreInv
<1> QED
  BY <1>3, <1>4

LEMMA StoreKept ==
    Regular /\ RecordsOK /\ RecordsOK' /\ StoreInv /\ [Next]_vars => StoreInv'
<1> SUFFICES ASSUME Regular, RecordsOK, RecordsOK', StoreInv, [Next]_vars
             PROVE  StoreInv'
  OBVIOUS
<1>1. CASE Restart
  BY <1>1, RestartKept
<1>2. CASE UNCHANGED vars
  BY <1>2, StoreUnchanged
<1>3. CASE running /\ ~Restart /\ ~UNCHANGED vars
  <2>1. CASE StartRecording \/ StopRecording \/ ReplayStateChanged \/ ClearFlight
    BY <1>3, <2>1, StartRecordingKept, StopRecordingKept, ReplayStateChangedKept,
       ClearFlightKept
  <2>2. CASE \E m \in {"Logbook", "Formation"} : ActivateModule(m)
    BY <1>3, <2>2, ActivateModuleKept
  <2>3. ASSUME NEW n \in 1 .. MaxAircraft, NEW recs \in [1 .. n -> BOOLEAN]
        PROVE  /\ \A u \in DOMAIN recs : ImportFlight(recs, u) => StoreInv'
               /\ \A k \in 0 .. Len(recs) : ImportAircraft(recs, k) => StoreInv'
    <3>1. DOMAIN recs = 1 .. n /\ Len(recs) = n
      BY BoundsAssumption
    <3>2. ASSUME NEW u \in 1 .. n, ImportFlight(recs, u) PROVE StoreInv'
      BY <1>3, <3>2, ImportFlightKept
    <3>3. ASSUME NEW k \in 0 .. n, ImportAircraft(recs, k) PROVE StoreInv'
      BY <1>3, <3>3, ImportAircraftEffect, ImportAircraftKept
    <3> QED
      BY <3>1, <3>2, <3>3
  <2>4. ASSUME NEW recs \in Imports
        PROVE  /\ \A u \in DOMAIN recs : ImportFlight(recs, u) => StoreInv'
               /\ \A k \in 0 .. Len(recs) : ImportAircraft(recs, k) => StoreInv'
    BY <2>3 DEF Imports
  <2>5. ASSUME NEW id \in DOMAIN flights, LoadFlight(id) \/ AskDeleteFlight(id) PROVE StoreInv'
    BY <1>3, <2>5, LoadFlightKept, AskedKept
  <2>6. CASE DeleteFlight
    BY <1>3, <2>6, DeleteFlightKept
  <2>7. ASSUME NEW id \in DOMAIN flights \cup {flight.id}, NEW title \in Titles,
               UpdateTitle(id, title)
        PROVE  StoreInv'
    BY <1>3, <2>7, UpdateTitleKept
  <2>8. ASSUME NEW i \in {0} \cup DOMAIN flight.aircraft, Select(i) PROVE StoreInv'
    BY <1>3, <2>8, AskedKept
  <2>9. CASE SwitchUserAircraft
    BY <1>3, <2>9, SwitchUserAircraftKept
  <2>10. ASSUME NEW data \in Data, EditAircraft(data) PROVE StoreInv'
    BY <1>3, <2>10, EditAircraftEffect, EditAircraftKept
  <2>11. CASE DeleteAircraft
    BY <1>3, <2>11, DeleteAircraftKept
  <2>12. CASE AskDeleteAircraft \/ Keep
    BY <1>3, <2>12, AskedKept
  <2> QED
    BY <1>3, <2>1, <2>2, <2>4, <2>5, <2>6, <2>7, <2>8, <2>9, <2>10, <2>11, <2>12
       DEF Next
<1> QED
  BY <1>1, <1>2, <1>3 DEF Next

LEMMA CalmIndices == Calm /\ RecordsOK /\ StoreInv => IndicesExist
BY SelectedExists DEF Calm, RecordsOK, FlightOK, StoreInv, IndicesExist

\* The database is consistent at any time, although no foreign key says so, and also after
\* the program has crashed or any other transaction has failed, if no flight fails to be
\* stored (what does not get stored keeps identifiers that other rows get later), no
\* aircraft is imported without a recording (it is in the flight, but has no row), and the
\* user aircraft is not switched while none is selected (0 is written to the database).
THEOREM DatabaseConsistent ==
    ASSUME Regular
    PROVE  Spec => []LogbookConsistent
<1>1. Init => RecordsOK /\ StoreInv
  BY InitRecords, InitStore
<1>2. RecordsOK /\ StoreInv /\ [Next]_vars => (RecordsOK /\ StoreInv)'
  BY RecordsKept, StoreKept
<1>3. StoreInv => LogbookConsistent
  BY DEF StoreInv
<1> QED
  BY <1>1, <1>2, <1>3, PTL DEF Spec

\* The program is not terminated by an index out of range: the user aircraft and the
\* selection name an aircraft of the flight while aircraft are added, removed and imported
\* and flights are loaded, also after transactions that failed to store or delete an
\* aircraft or to edit one.  The assumption excludes each case in which the code itself
\* uses an index that is out of range.
THEOREM IndicesInRange ==
    ASSUME Calm
    PROVE  Spec => []IndicesExist
<1>1. Init => RecordsOK /\ StoreInv
  BY InitRecords, InitStore
<1>2. RecordsOK /\ StoreInv /\ [Next]_vars => (RecordsOK /\ StoreInv)'
  BY RecordsKept, StoreKept DEF Calm
<1>3. RecordsOK /\ StoreInv => IndicesExist
  BY CalmIndices
<1> QED
  BY <1>1, <1>2, <1>3, PTL DEF Spec

\* As long as nothing has failed, the flight in memory is the one in the database, also
\* when the session goes on while a dialog is open.  The assumption excludes the cases in
\* which they differ although nobody is told: flights that are read in part, aircraft that
\* are replaced, and those that are added although they are not stored.
THEOREM MemoryAgrees ==
    ASSUME Regular, Hazards \cap {"load", "importReplaces"} = {}
    PROVE  Spec => []StoreAgrees
<1>1. Faithful
  BY DEF May, Faithful
<1>2. Init => RecordsOK /\ StoreInv
  BY InitRecords, InitStore
<1>3. RecordsOK /\ StoreInv /\ [Next]_vars => (RecordsOK /\ StoreInv)'
  BY <1>1, RecordsKept, StoreKept
<1>4. RecordsOK /\ StoreInv => StoreAgrees
  BY <1>1, AgreesStored DEF StoreInv, SoundFlight
<1> QED
  BY <1>2, <1>3, <1>4, PTL DEF Spec

-----------------------------------------------------------------------------
(***************************************************************************)
(* Refinement: the tables as flights with a list of aircraft each.         *)
(***************************************************************************)

\* The list of the data of a flight's aircraft, in the order of their numbers.
IsListOf(list, rs, id) ==
    /\ list \in Seq(Data)
    /\ \A r \in DOMAIN rs : rs[r].flight = id =>
         rs[r].seq \in 1 .. Len(list) /\ list[rs[r].seq] = rs[r].data
    /\ \A i \in 1 .. Len(list) : HasRow(rs, id, i)

IsCopyOf(e, id) ==
    /\ e = [title |-> flights[id].title, user |-> flights[id].user, aircraft |-> e.aircraft]
    /\ IsListOf(e.aircraft, rows, id)
    /\ L!IsEntry(e)

LEMMA StoredCopies ==
    RecordsOK /\ LogbookConsistent =>
        /\ DOMAIN Stored = DOMAIN flights
        /\ \A id \in DOMAIN flights : IsCopyOf(Stored[id], id)
<1> SUFFICES ASSUME RecordsOK, LogbookConsistent, NEW id \in DOMAIN flights
             PROVE  IsCopyOf(Stored[id], id)
  BY DEF Stored
<1> DEFINE S == RowsOf(id)
           m == Cardinality(S)
           list == [n \in 1 .. m |-> DataOf(id, n)]
<1>1. /\ RowsOK /\ RowsTyped(rows) /\ FlightsOK
      /\ Gapless(rows) /\ UsersExist(rows, flights)
  BY ConsistentParts DEF RecordsOK, RowsOK
<1>2. S = {r \in DOMAIN rows : rows[r].flight = id}
  BY DEF RowsOf
<1>3. Numbered(S, m)
  BY <1>1, RowsNumbered
<1>4. Stored[id] = [title |-> flights[id].title, user |-> flights[id].user, aircraft |-> list]
  BY DEF Stored
<1>5. ASSUME NEW r \in S PROVE DataOf(id, rows[r].seq) = rows[r].data
  <2> DEFINE there == {q \in RowsOf(id) : rows[q].seq = rows[r].seq}
  <2>1. there = {r}
    BY <1>1, <1>2 DEF RowsOK, UniqueSeq
  <2>2. (CHOOSE q \in there : TRUE) = r
    BY <2>1
  <2> QED
    BY <2>1, <2>2 DEF DataOf
<1> HIDE DEF S, m
<1>6. m \in Nat /\ \A r \in S : rows[r].seq \in 1 .. m
  BY <1>3 DEF Numbered
<1>7. \A i \in 1 .. m : \E r \in S : rows[r].seq = i
  BY <1>3 DEF Numbered
<1>8. \A r \in S : rows[r].data \in Data
  BY <1>1, <1>2 DEF RowsTyped, RowRecords
<1>9. \A i \in 1 .. m : DataOf(id, i) \in Data
  BY <1>5, <1>7, <1>8
<1>10. list \in Seq(Data) /\ Len(list) = m /\ DOMAIN list = 1 .. m
  BY <1>6, <1>9
<1>11. \A r \in S : list[rows[r].seq] = rows[r].data
  BY <1>5, <1>6
<1> HIDE DEF list
<1>12. \A i \in 1 .. m : HasRow(rows, id, i)
  BY <1>2, <1>7 DEF HasRow
<1>13. IsListOf(list, rows, id)
  BY <1>2, <1>6, <1>10, <1>11, <1>12 DEF IsListOf
<1>14. flights[id].user \in 1 .. m
  <2>1. PICK r \in DOMAIN rows : rows[r].flight = id /\ rows[r].seq = flights[id].user
    BY <1>1 DEF UsersExist, HasRow
  <2> QED
    BY <1>2, <1>6, <2>1
<1>15. flights[id].title \in Titles
  BY <1>1 DEF FlightsOK, FlightEntries
<1>16. \A i \in DOMAIN list : list[i] \in Data
  BY <1>10
<1>17. L!IsEntry(Stored[id])
  BY <1>4, <1>10, <1>14, <1>15, <1>16 DEF L!IsEntry
<1> QED
  BY <1>4, <1>13, <1>17 DEF IsCopyOf

LEMMA StoredCopiesNext ==
    (RecordsOK /\ LogbookConsistent)' =>
        /\ DOMAIN Stored' = DOMAIN flights'
        /\ \A id \in DOMAIN flights' : IsCopyOf(Stored[id], id)'
<1>1. (RecordsOK /\ LogbookConsistent =>
          /\ DOMAIN Stored = DOMAIN flights
          /\ \A id \in DOMAIN flights : IsCopyOf(Stored[id], id))'
  BY StoredCopies, PTL
<1> QED
  BY <1>1

\* Rows with the same numbers and data are the same list.
LEMMA SameList ==
    ASSUME NEW l1, NEW l2, NEW rs1, NEW rs2, NEW id,
           IsListOf(l1, rs1, id), IsListOf(l2, rs2, id),
           \A r \in DOMAIN rs1 : rs1[r].flight = id =>
             r \in DOMAIN rs2 /\ rs2[r].flight = id
             /\ rs2[r].seq = rs1[r].seq /\ rs2[r].data = rs1[r].data,
           \A r \in DOMAIN rs2 : rs2[r].flight = id => r \in DOMAIN rs1 /\ rs1[r].flight = id
    PROVE  l1 = l2
<1>1. l1 \in Seq(Data) /\ l2 \in Seq(Data) /\ Len(l1) \in Nat /\ Len(l2) \in Nat
  BY DEF IsListOf
<1>2. \A i \in 1 .. Len(l1) : i \in 1 .. Len(l2) /\ l1[i] = l2[i]
  <2>1. ASSUME NEW i \in 1 .. Len(l1) PROVE i \in 1 .. Len(l2) /\ l1[i] = l2[i]
    <3>1. PICK r \in DOMAIN rs1 : rs1[r].flight = id /\ rs1[r].seq = i
      BY DEF IsListOf, HasRow
    <3>2. l1[i] = rs1[r].data
      BY <3>1 DEF IsListOf
    <3>3. r \in DOMAIN rs2 /\ rs2[r].flight = id /\ rs2[r].seq = i /\ rs2[r].data = rs1[r].data
      BY <3>1
    <3> QED
      BY <3>2, <3>3 DEF IsListOf
  <2> QED
    BY <2>1
<1>3. \A i \in 1 .. Len(l2) : i \in 1 .. Len(l1)
  <2>1. ASSUME NEW i \in 1 .. Len(l2) PROVE i \in 1 .. Len(l1)
    <3>1. PICK r \in DOMAIN rs2 : rs2[r].flight = id /\ rs2[r].seq = i
      BY DEF IsListOf, HasRow
    <3>2. r \in DOMAIN rs1 /\ rs1[r].flight = id /\ rs1[r].seq = i
      BY <3>1
    <3> QED
      BY <3>2 DEF IsListOf
  <2> QED
    BY <2>1
<1>4. Len(l1) = Len(l2)
  <2>1. \A a, b \in Nat : (\A i \in 1 .. a : i \in 1 .. b) /\ (\A i \in 1 .. b : i \in 1 .. a)
                            => a = b
    <3>1. ASSUME NEW a \in Nat, NEW b \in Nat, \A i \in 1 .. a : i \in 1 .. b PROVE a <= b
      <4>1. CASE a = 0
        BY <4>1
      <4>2. CASE a # 0
        <5>1. a \in 1 .. a
          BY <4>2
        <5> QED
          BY <3>1, <5>1
      <4> QED
        BY <4>1, <4>2
    <3> QED
      BY <3>1
  <2> QED
    BY <1>1, <1>2, <1>3, <2>1
<1> QED
  BY <1>1, <1>2, <1>4, SeqEqual

\* A flight that is not touched.
LEMMA SameEntry ==
    ASSUME RecordsOK, LogbookConsistent, RecordsOK', LogbookConsistent',
           NEW g \in DOMAIN flights \cap DOMAIN flights',
           flights'[g].title = flights[g].title, flights'[g].user = flights[g].user,
           \A r \in DOMAIN rows : rows[r].flight = g =>
             r \in DOMAIN rows' /\ rows'[r].flight = g
             /\ rows'[r].seq = rows[r].seq /\ rows'[r].data = rows[r].data,
           \A r \in DOMAIN rows' : rows'[r].flight = g => r \in DOMAIN rows /\ rows[r].flight = g
    PROVE  Stored'[g] = Stored[g]
<1>1. IsCopyOf(Stored[g], g)
  BY StoredCopies
<1>2. IsCopyOf(Stored[g], g)'
  BY StoredCopiesNext
<1> DEFINE e1 == Stored[g]
           e2 == Stored'[g]
<1>3. /\ e1 = [title |-> flights[g].title, user |-> flights[g].user, aircraft |-> e1.aircraft]
      /\ IsListOf(e1.aircraft, rows, g)
  BY <1>1 DEF IsCopyOf
<1>4. /\ e2 = [title |-> flights'[g].title, user |-> flights'[g].user, aircraft |-> e2.aircraft]
      /\ IsListOf(e2.aircraft, rows', g)
  BY <1>2 DEF IsCopyOf
<1> HIDE DEF e1, e2
<1>5. e1.aircraft = e2.aircraft
  BY <1>3, <1>4, SameList
<1>6. e1 = e2
  BY <1>3, <1>4, <1>5
<1> QED
  BY <1>6 DEF e1, e2

\* The database stays as it is: the flight is loaded or given up, or nothing happens.
LEMMA UnchangedRefines ==
    ASSUME UNCHANGED db, Current' \in {Current, InvalidId} \/ Current' \in DOMAIN flights
    PROVE  [L!Next]_(L!vars)
<1>1. Stored' = Stored
  BY DEF db, Stored, RowsOf, DataOf
<1>2. DOMAIN Stored = DOMAIN flights
  BY DEF Stored
<1>3. CASE Current' = Current
  BY <1>1, <1>3 DEF L!vars
<1>4. CASE Current' = InvalidId
  BY <1>1, <1>4 DEF L!Next, L!Forget
<1>5. CASE Current' \in DOMAIN flights
  BY <1>1, <1>2, <1>5 DEF L!Next, L!Load
<1> QED
  BY <1>3, <1>4, <1>5

\* A flight of the logbook is the current one, or none is.
LEMMA CurrentKnown ==
    RecordsOK /\ CurrentOK => Current = IF Known THEN flight.id ELSE InvalidId
<1> SUFFICES ASSUME RecordsOK, CurrentOK
             PROVE  Current = IF Known THEN flight.id ELSE InvalidId
  OBVIOUS
<1>1. CASE Known
  <2>1. flight.id \in FlightIds
    BY <1>1 DEF Known, RecordsOK, FlightsOK
  <2>2. IsValid(flight.id)
    BY <2>1, BoundsAssumption DEF FlightIds, IsValid, InvalidId, RecordingId
  <2> QED
    BY <1>1, <2>2 DEF Current
<1>2. CASE ~Known
  <2>1. ~IsValid(flight.id)
    BY <1>2 DEF CurrentOK, NewIsEmpty, IsValid
  <2> QED
    BY <1>2, <2>1 DEF Current
<1> QED
  BY <1>1, <1>2

LEMMA CurrentStays == ASSUME flight'.id = flight.id PROVE Current' = Current
BY DEF Current

LEMMA CurrentKnownNext == ASSUME RecordsOK', Known' PROVE Current' = flight'.id
<1>1. flight'.id \in FlightIds
  BY DEF Known, RecordsOK, FlightsOK
<1>2. IsValid(flight'.id)
  BY <1>1, BoundsAssumption DEF FlightIds, IsValid, InvalidId, RecordingId
<1> QED
  BY <1>2 DEF Current

\* The current flight is amended, if its aircraft are.
LEMMA AmendRefines ==
    ASSUME RecordsOK, LogbookConsistent, RecordsOK', LogbookConsistent',
           Known, flight'.id = flight.id, DOMAIN flights' = DOMAIN flights,
           \A g \in DOMAIN flights :
             /\ flights'[g].title = flights[g].title
             /\ g # flight.id => flights'[g].user = flights[g].user,
           \A r \in DOMAIN rows : rows[r].flight # flight.id =>
             r \in DOMAIN rows' /\ rows'[r].flight = rows[r].flight
             /\ rows'[r].seq = rows[r].seq /\ rows'[r].data = rows[r].data,
           \A r \in DOMAIN rows' : rows'[r].flight # flight.id =>
             r \in DOMAIN rows /\ rows[r].flight = rows'[r].flight,
           \A old, new : IsListOf(old, rows, flight.id) /\ IsListOf(new, rows', flight.id)
                           => L!Amends(old, new)
    PROVE  L!Amend
<1>1. LogbookConsistent /\ LogbookConsistent'
  OBVIOUS
<1>2. flight.id \in DOMAIN flights /\ flight.id \in DOMAIN flights' /\ Known'
  BY DEF Known
<1>3. Current' = flight.id /\ Current = flight.id
  <2>1. Current' = flight.id
    BY <1>2, CurrentKnownNext
  <2> QED
    BY <2>1, CurrentStays
<1>4. DOMAIN Stored = DOMAIN flights /\ DOMAIN Stored' = DOMAIN flights
  BY <1>1, StoredCopies, StoredCopiesNext
<1>5. IsCopyOf(Stored[flight.id], flight.id)
  BY <1>1, <1>2, StoredCopies
<1>6. /\ IsListOf(Stored'[flight.id].aircraft, rows', flight.id)
      /\ Stored'[flight.id].title = flights'[flight.id].title
      /\ L!IsEntry(Stored'[flight.id])
  <2>1. IsCopyOf(Stored[flight.id], flight.id)'
    BY <1>1, <1>2, StoredCopiesNext
  <2> DEFINE e == Stored'[flight.id]
  <2>2. /\ e = [title |-> flights'[flight.id].title, user |-> flights'[flight.id].user,
                aircraft |-> e.aircraft]
        /\ IsListOf(e.aircraft, rows', flight.id)
        /\ L!IsEntry(e)
    BY <2>1 DEF IsCopyOf
  <2> HIDE DEF e
  <2>3. e.title = flights'[flight.id].title
    BY <2>2
  <2> QED
    BY <2>2, <2>3 DEF e
<1>7. Stored[flight.id].title = flights[flight.id].title
      /\ IsListOf(Stored[flight.id].aircraft, rows, flight.id)
  BY <1>5 DEF IsCopyOf
<1>8. L!Amends(Stored[flight.id].aircraft, Stored'[flight.id].aircraft)
  BY <1>6, <1>7
<1>9. ASSUME NEW g \in DOMAIN flights, g # flight.id PROVE Stored'[g] = Stored[g]
  <2>1. g \in DOMAIN flights \cap DOMAIN flights'
    OBVIOUS
  <2>2. flights'[g].title = flights[g].title /\ flights'[g].user = flights[g].user
    BY <1>9
  <2>3. \A r \in DOMAIN rows : rows[r].flight = g =>
             r \in DOMAIN rows' /\ rows'[r].flight = g
             /\ rows'[r].seq = rows[r].seq /\ rows'[r].data = rows[r].data
    BY <1>9
  <2>4. \A r \in DOMAIN rows' : rows'[r].flight = g => r \in DOMAIN rows /\ rows[r].flight = g
    BY <1>9
  <2> QED
    BY <1>1, <2>1, <2>2, <2>3, <2>4, SameEntry
<1>10. L!OnlyChanges(flight.id)
  BY <1>4, <1>9 DEF L!OnlyChanges
<1>11. Stored'[flight.id].title = Stored[flight.id].title
  BY <1>2, <1>6, <1>7
<1> QED
  BY <1>2, <1>3, <1>4, <1>6, <1>8, <1>10, <1>11 DEF L!Amend

\* Rows that are added come at the end.
LEMMA ListPrefix ==
    ASSUME NEW old, NEW new, NEW rs1, NEW rs2, NEW id,
           IsListOf(old, rs1, id), IsListOf(new, rs2, id),
           \A r \in DOMAIN rs1 : r \in DOMAIN rs2 /\ rs2[r] = rs1[r]
    PROVE  L!Amends(old, new)
<1>1. old \in Seq(Data) /\ new \in Seq(Data) /\ Len(old) \in Nat /\ Len(new) \in Nat
  BY DEF IsListOf
<1>2. ASSUME NEW i \in 1 .. Len(old) PROVE i \in 1 .. Len(new) /\ old[i] = new[i]
  <2>1. PICK r \in DOMAIN rs1 : rs1[r].flight = id /\ rs1[r].seq = i
    BY DEF IsListOf, HasRow
  <2>2. old[i] = rs1[r].data
    BY <2>1 DEF IsListOf
  <2>3. r \in DOMAIN rs2 /\ rs2[r] = rs1[r]
    OBVIOUS
  <2> QED
    BY <2>1, <2>2, <2>3 DEF IsListOf
<1>3. Len(old) <= Len(new)
  <2>1. CASE Len(old) = 0
    BY <1>1, <2>1
  <2>2. CASE Len(old) # 0
    <3>1. Len(old) \in 1 .. Len(old)
      BY <1>1, <2>2
    <3> QED
      BY <1>1, <1>2, <3>1
  <2> QED
    BY <2>1, <2>2
<1>4. SubSeq(old, 1, Len(old)) = SubSeq(new, 1, Len(old))
  <2>1. /\ SubSeq(old, 1, Len(old)) \in Seq(Data) /\ Len(SubSeq(old, 1, Len(old))) = Len(old)
        /\ \A i \in 1 .. Len(old) : SubSeq(old, 1, Len(old))[i] = old[i]
    BY <1>1
  <2>2. /\ SubSeq(new, 1, Len(old)) \in Seq(Data) /\ Len(SubSeq(new, 1, Len(old))) = Len(old)
        /\ \A i \in 1 .. Len(old) : SubSeq(new, 1, Len(old))[i] = new[i]
    BY <1>1, <1>3
  <2> QED
    BY <1>2, <2>1, <2>2, SeqEqual
<1> QED
  BY <1>3, <1>4 DEF L!Amends, L!IsPrefix

LEMMA CurrentForgotten ==
    ASSUME flight'.id \in {InvalidId, RecordingId} PROVE Current' = InvalidId
BY DEF Current, IsValid

\* A flight that is added to the tables is stored.
LEMMA AddedRefines ==
    ASSUME RecordsOK, LogbookConsistent, RecordsOK', LogbookConsistent',
           NEW fd \in FlightRecords, NEW f, NEW r, AddsFlight(fd, f, r),
           Current' \in {f, Current}
    PROVE  L!Store
<1>1. LogbookConsistent /\ LogbookConsistent'
  OBVIOUS
<1>3. /\ f \notin DOMAIN flights /\ DOMAIN flights' = DOMAIN flights \cup {f}
      /\ \A g \in DOMAIN flights : flights'[g] = flights[g]
      /\ AddsRows(rows', f, 1, r, fd.aircraft)
      /\ r \in RowIds
  BY DEF AddsFlight
<1>4. /\ DOMAIN Stored = DOMAIN flights /\ DOMAIN Stored' = DOMAIN flights'
      /\ \A id \in DOMAIN flights' : IsCopyOf(Stored[id], id)'
  BY <1>1, StoredCopies, StoredCopiesNext
<1>5. L!IsEntry(Stored'[f])
  BY <1>3, <1>4 DEF IsCopyOf
<1>6. \A x \in DOMAIN rows : x \in DOMAIN rows' /\ rows'[x] = rows[x] /\ rows[x].flight # f
  BY <1>1, <1>3, ConsistentParts DEF AddsRows, Owned
<1>7. \A x \in DOMAIN rows' \ DOMAIN rows : rows'[x].flight = f
  <2>1. ASSUME NEW x \in DOMAIN rows' \ DOMAIN rows PROVE rows'[x].flight = f
    <3>1. RowsTyped(rows) /\ 1 \in Nat /\ fd.aircraft \in Seq(AircraftRecords)
      BY DEF RecordsOK, RowsOK, FlightRecords
    <3>2. IsAdded(rows', x, f, 1, r, fd.aircraft)
      BY <1>3, <3>1, AddedRow
    <3> QED
      BY <3>2 DEF IsAdded, Row
  <2> QED
    BY <2>1
<1>8. ASSUME NEW g \in DOMAIN flights PROVE Stored'[g] = Stored[g]
  <2>1. g \in DOMAIN flights \cap DOMAIN flights' /\ g # f /\ flights'[g] = flights[g]
    BY <1>3
  <2>2. \A x \in DOMAIN rows : rows[x].flight = g =>
             x \in DOMAIN rows' /\ rows'[x].flight = g
             /\ rows'[x].seq = rows[x].seq /\ rows'[x].data = rows[x].data
    BY <1>6
  <2>3. \A x \in DOMAIN rows' : rows'[x].flight = g => x \in DOMAIN rows /\ rows[x].flight = g
    BY <1>6, <1>7, <2>1
  <2> QED
    BY <1>1, <2>1, <2>2, <2>3, SameEntry
<1> QED
  BY <1>3, <1>4, <1>5, <1>8 DEF L!Store, L!OnlyChanges

\* It becomes the current one, ...
LEMMA StoreRefines ==
    ASSUME RecordsOK, LogbookConsistent, RecordsOK', LogbookConsistent',
           NEW fd \in FlightRecords, StoreFlight(fd)
    PROVE  L!Store
<1>1. PICK f, r : StoresAs(fd, f, r)
  BY StoreFlightEffect DEF RecordsOK
<1>2. AddsFlight(fd, f, r) /\ flight'.id = f /\ f \in DOMAIN flights'
  BY <1>1 DEF StoresAs, AddsFlight
<1>3. Current' = f
  BY <1>2, CurrentKnownNext DEF Known
<1> QED
  BY <1>2, <1>3, AddedRefines

\* ... or the current one stays as it is.
LEMMA StoreBesideRefines ==
    ASSUME RecordsOK, LogbookConsistent, RecordsOK', LogbookConsistent',
           NEW fd \in FlightRecords, ImportIntoLogbook(fd)
    PROVE  L!Store
<1>1. PICK f \in FlightIds, r \in RowIds : Stores(f, r, fd)
  BY DEF ImportIntoLogbook
<1>2. AddsFlight(fd, f, r)
  BY <1>1, StoresEffect DEF RecordsOK
<1>3. Current' = Current
  BY CurrentStays DEF ImportIntoLogbook
<1> QED
  BY <1>2, <1>3, AddedRefines

\* So do aircraft that are added to the current flight amend it.
LEMMA AddRefines ==
    ASSUME RecordsOK, LogbookConsistent, RecordsOK', LogbookConsistent',
           Known, flight'.id = flight.id, NEW n \in Nat,
           NEW r \in RowIds, NEW list \in Seq(AircraftRecords),
           AddsRows(rows', flight.id, n, r, list),
           NEW u \in Nat \ {0}, flights' = WithUser(flight.id, u)
    PROVE  L!Amend
<1>1. FlightsOK /\ RowsTyped(rows)
  BY DEF RecordsOK, RowsOK
<1>2. /\ DOMAIN flights' = DOMAIN flights
      /\ \A g \in DOMAIN flights :
           /\ flights'[g].title = flights[g].title
           /\ g # flight.id => flights'[g].user = flights[g].user
  BY <1>1, WithUserEffect
<1>3. \A x \in DOMAIN rows : x \in DOMAIN rows' /\ rows'[x] = rows[x]
  BY DEF AddsRows
<1>4. \A x \in DOMAIN rows' \ DOMAIN rows : rows'[x].flight = flight.id
  <2>1. ASSUME NEW x \in DOMAIN rows' \ DOMAIN rows PROVE rows'[x].flight = flight.id
    <3>1. IsAdded(rows', x, flight.id, n, r, list)
      BY <1>1, AddedRow
    <3> QED
      BY <3>1 DEF IsAdded, Row
  <2> QED
    BY <2>1
<1>5. \A old, new : IsListOf(old, rows, flight.id) /\ IsListOf(new, rows', flight.id)
                      => L!Amends(old, new)
  BY <1>3, ListPrefix
<1> QED
  BY <1>2, <1>3, <1>4, <1>5, AmendRefines

LEMMA StopRecordingRefines ==
    ASSUME Regular, RecordsOK, StoreInv, running, RecordsOK', StoreInv', StopRecording
    PROVE  [L!Next]_(L!vars)
<1>1. /\ flight \in FlightRecords /\ Len(flight.aircraft) \in Nat \ {0}
      /\ DOMAIN flight.aircraft = 1 .. Len(flight.aircraft)
      /\ flight.user \in DOMAIN flight.aircraft /\ flight.user \in Nat \ {0}
      /\ flight.id \in Int
      /\ RowsTyped(rows) /\ FlightsOK
  BY FlightFields DEF RecordsOK, FlightOK, StoreInv, SoundFlight, RowsOK
<1>2. PICK rec \in BOOLEAN : StopFirstRecording(rec) \/ StopFormationRecording(rec)
  BY DEF StopRecording
<1> DEFINE fd == Recorded(rec)
           n  == Len(flight.aircraft)
<1>3. /\ fd \in FlightRecords /\ fd.id = flight.id /\ fd.user = flight.user
      /\ Len(fd.aircraft) = n /\ DOMAIN fd.aircraft = 1 .. n
  BY <1>1, RecordedEffect
<1> HIDE DEF fd
<1>4. CASE StopFirstRecording(rec)
  <2>1. StoreFlight(fd)
    BY <1>4, FlightsAreStored DEF StopFirstRecording, fd
  <2>2. L!Store
    BY <1>3, <2>1, StoreRefines DEF StoreInv
  <2> QED
    BY <2>2 DEF L!Next
<1>5. CASE StopFormationRecording(rec)
  <2>1. Known /\ n > 1
    BY <1>5, RecordedIsKnown DEF StopFormationRecording
  <2>2. CASE StoreAircraft(fd)
    <3>1. PICK r \in RowIds :
            /\ IsNext(r, DOMAIN rows)
            /\ rows' = WithRows(fd.id, n, r, <<fd.aircraft[n]>>)
            /\ flights' = WithUser(fd.id, fd.user)
            /\ flight' = [fd EXCEPT !.aircraft[n].id = r]
      BY <1>3, <2>2 DEF StoreAircraft
    <3> DEFINE list == <<fd.aircraft[n]>>
    <3>2. n \in 1 .. n /\ fd.aircraft[n] \in AircraftRecords
      BY <1>1, <1>3 DEF FlightRecords
    <3>3. list \in Seq(AircraftRecords) /\ Len(list) = 1
      BY <3>2, OneElement
    <3> HIDE DEF list
    <3>4. r + Len(list) - 1 <= MaxRows
      BY <3>3, BoundsAssumption DEF RowIds
    <3>5. rows' = WithRows(flight.id, n, r, list) /\ flights' = WithUser(flight.id, flight.user)
      BY <1>3, <3>1 DEF list
    <3>6. AddsRows(rows', flight.id, n, r, list)
      BY <1>1, <3>1, <3>3, <3>4, <3>5, WithRowsEffect
    <3>7. flight'.id = flight.id
      BY <1>3, <3>1 DEF FlightRecords
    <3>8. L!Amend
      BY <1>1, <2>1, <3>3, <3>5, <3>6, <3>7, AddRefines DEF StoreInv
    <3> QED
      BY <3>8 DEF L!Next
  <2>3. CASE flight' = RemoveAircraft(fd, n) /\ UNCHANGED db
    <3>1. flight'.id = flight.id
      BY <1>3, <2>3 DEF RemoveAircraft, FlightRecords
    <3> QED
      BY <2>3, <3>1, CurrentStays, UnchangedRefines
  <2> QED
    BY <1>3, <1>5, <2>2, <2>3 DEF StopFormationRecording, fd
<1> QED
  BY <1>2, <1>4, <1>5

LEMMA ImportFlightRefines ==
    ASSUME Regular, RecordsOK, StoreInv, running, RecordsOK', StoreInv', NEW n \in 1 .. MaxAircraft,
           NEW recs \in [1 .. n -> BOOLEAN], NEW u \in 1 .. n, ImportFlight(recs, u)
    PROVE  [L!Next]_(L!vars)
<1> DEFINE fd == ImportedFlight(recs, u)
<1>1. fd \in FlightRecords
  BY BoundsAssumption, ImportedFlightEffect
<1> HIDE DEF fd
<1>2. CASE ImportAsCurrentFlight(fd)
  <2>1. StoreFlight(fd)
    BY <1>2, FlightsAreStored DEF ImportAsCurrentFlight
  <2> QED
    BY <1>1, <2>1, StoreRefines DEF StoreInv, L!Next
<1>3. CASE ImportIntoLogbook(fd)
  BY <1>1, <1>3, StoreBesideRefines DEF StoreInv, L!Next
<1> QED
  BY <1>2, <1>3 DEF ImportFlight, fd

LEMMA ImportAircraftRefines ==
    ASSUME RecordsOK, StoreInv, running, RecordsOK', StoreInv',
           NEW n \in 1 .. MaxAircraft, NEW k \in 0 .. n, ImportsAllOf(n, k)
    PROVE  [L!Next]_(L!vars)
<1> DEFINE next == Len(flight.aircraft) + 1
           list == ImportedAircraft(AllOf(k))
<1>1. /\ flight \in FlightRecords /\ next \in Nat \ {0} /\ flight.user \in Nat \ {0}
      /\ flight.id \in Int /\ RowsTyped(rows) /\ FlightsOK
  BY FlightFields DEF RecordsOK, FlightOK, StoreInv, SoundFlight, RowsOK
<1>2. Known
  BY RecordedIsKnown DEF ImportsAllOf
<1>3. PICK r \in RowIds :
        /\ IsNext(r, DOMAIN rows) /\ r + k - 1 <= MaxRows
        /\ rows' = WithRows(flight.id, next, r, list)
        /\ flight' = [flight EXCEPT !.aircraft =
                        IF k < n THEN @
                        ELSE IF flight.aircraft[flight.user].recorded
                        THEN @ \o Identified(ImportedAircraft(AllOf(n)), r)
                        ELSE Identified(ImportedAircraft(AllOf(n)), r)]
  BY DEF ImportsAllOf, AddsImported
<1>4. flight'.id = flight.id
  BY <1>1, <1>3 DEF FlightRecords
<1>5. flights' = IF k = 0 THEN flights ELSE WithUser(flight.id, flight.user)
  BY DEF ImportsAllOf
<1>6. k \in Nat /\ AllOf(k) \in [1 .. k -> BOOLEAN]
  BY DEF AllOf
<1>7. list \in Seq(AircraftRecords) /\ Len(list) = k
  BY <1>6, ImportedEffect
<1> HIDE DEF list, next
<1>8. CASE k = 0
  <2>1. rows' = rows
    BY <1>1, <1>3, <1>7, <1>8, WithNoRows
  <2>2. UNCHANGED db
    BY <1>5, <1>8, <2>1 DEF db
  <2> QED
    BY <1>4, <2>2, CurrentStays, UnchangedRefines
<1>9. CASE k # 0
  <2>1. AddsRows(rows', flight.id, next, r, list)
    BY <1>1, <1>3, <1>7, WithRowsEffect
  <2>2. next \in Nat
    BY <1>1
  <2>3. L!Amend
    BY <1>1, <1>2, <1>4, <1>5, <1>7, <1>9, <2>1, <2>2, AddRefines DEF StoreInv
  <2> QED
    BY <2>3 DEF L!Next
<1> QED
  BY <1>8, <1>9

LEMMA DeleteFlightRefines ==
    ASSUME RecordsOK, StoreInv, running, RecordsOK', StoreInv', DeleteFlight
    PROVE  [L!Next]_(L!vars)
<1> DEFINE d == dialog.id
<1>1. /\ flight' = IF flight.id = d THEN Cleared(flight) ELSE flight
      /\ \/ /\ flights' = [f \in DOMAIN flights \ {d} |-> flights[f]]
            /\ rows' = WithoutRowsOf(d)
         \/ UNCHANGED db
  BY DEF DeleteFlight
<1>2. /\ LogbookConsistent /\ CurrentOK /\ LogbookConsistent'
      /\ RowsOK /\ FlightsOK /\ Owned(rows, flights)
  BY ConsistentParts DEF StoreInv, SoundFlight, RecordsOK
<1> HIDE DEF d
<1>3. Current' = IF flight.id = d THEN InvalidId ELSE Current
  <2>1. CASE flight.id = d
    <3>1. flight \in FlightRecords /\ flight.aircraft # <<>>
      BY FlightFields DEF RecordsOK, FlightOK, StoreInv, SoundFlight
    <3>2. flight'.id = InvalidId
      BY <1>1, <2>1, <3>1, ClearedEffect
    <3> QED
      BY <2>1, <3>2, CurrentForgotten
  <2>2. CASE flight.id # d
    BY <1>1, <2>2, CurrentStays
  <2> QED
    BY <2>1, <2>2
<1>4. CASE UNCHANGED db
  BY <1>3, <1>4, UnchangedRefines
<1>5. CASE /\ flights' = [f \in DOMAIN flights \ {d} |-> flights[f]]
           /\ rows' = WithoutRowsOf(d)
  <2>1. /\ DOMAIN rows' = {x \in DOMAIN rows : rows[x].flight # d}
        /\ \A r \in DOMAIN rows' : rows'[r] = rows[r]
    BY <1>2, <1>5, WithoutRowsOfEffect
  <2>2. CASE d \notin DOMAIN flights
    <3>1. flights' = flights
      <4>1. DOMAIN flights \ {d} = DOMAIN flights
        BY <2>2
      <4> QED
        BY <1>2, <1>5, <4>1 DEF FlightsOK
    <3>2. rows' = rows
      <4>1. {x \in DOMAIN rows : rows[x].flight # d} = DOMAIN rows
        BY <1>2, <2>2 DEF Owned
      <4>2. rows' = [r \in DOMAIN rows |-> rows[r]]
        BY <1>5, <4>1 DEF WithoutRowsOf
      <4> QED
        BY <1>2, <4>2 DEF RowsOK, RowsTyped
    <3> QED
      BY <1>3, <3>1, <3>2, UnchangedRefines DEF db
  <2>3. CASE d \in DOMAIN flights
    <3>1. DOMAIN Stored = DOMAIN flights /\ DOMAIN Stored' = DOMAIN flights \ {d}
      BY <1>2, <1>5, StoredCopies, StoredCopiesNext
    <3>2. ASSUME NEW g \in DOMAIN flights \ {d} PROVE Stored'[g] = Stored[g]
      <4>1. g \in DOMAIN flights \cap DOMAIN flights' /\ g # d /\ flights'[g] = flights[g]
        BY <1>5
      <4>2. \A x \in DOMAIN rows : rows[x].flight = g =>
               x \in DOMAIN rows' /\ rows'[x].flight = g
               /\ rows'[x].seq = rows[x].seq /\ rows'[x].data = rows[x].data
        BY <2>1
      <4>3. \A x \in DOMAIN rows' : rows'[x].flight = g => x \in DOMAIN rows /\ rows[x].flight = g
        BY <2>1
      <4> QED
        BY <1>2, <4>1, <4>2, <4>3, SameEntry
    <3>3. L!OnlyChanges(d)
      BY <3>1, <3>2 DEF L!OnlyChanges
    <3>4. Current' = IF Current = d THEN InvalidId ELSE Current
      <4>1. Current = IF Known THEN flight.id ELSE InvalidId
        BY <1>2, CurrentKnown
      <4>2. d # InvalidId
        BY <1>2, <2>3, BoundsAssumption DEF FlightsOK, FlightIds, InvalidId
      <4> QED
        BY <1>3, <2>3, <4>1, <4>2 DEF Known
    <3>5. L!Delete
      BY <2>3, <3>1, <3>3, <3>4 DEF L!Delete
    <3> QED
      BY <3>5 DEF L!Next
  <2> QED
    BY <2>2, <2>3
<1> QED
  BY <1>1, <1>4, <1>5

LEMMA UpdateTitleRefines ==
    ASSUME RecordsOK, StoreInv, running, RecordsOK', StoreInv', NEW id, NEW title \in Titles,
           UpdateTitle(id, title)
    PROVE  [L!Next]_(L!vars)
<1>1. LogbookConsistent /\ (LogbookConsistent)' /\ FlightsOK
  BY DEF StoreInv, SoundFlight, RecordsOK
<1>2. flights' = WithTitle(id, title) /\ rows' = rows
  BY DEF UpdateTitle
<1>3. flight'.id = flight.id
  BY DEF UpdateTitle, RecordsOK, FlightOK, FlightRecords
<1>4. Current' = Current
  BY <1>3, CurrentStays
<1>5. CASE id \notin DOMAIN flights
  <2>1. flights' = flights
    BY <1>1, <1>2, <1>5 DEF WithTitle, FlightsOK
  <2> QED
    BY <1>2, <1>4, <2>1, UnchangedRefines DEF db
<1>6. CASE id \in DOMAIN flights
  <2>1. /\ DOMAIN flights' = DOMAIN flights
        /\ \A f \in DOMAIN flights :
             /\ flights'[f].user = flights[f].user
             /\ flights'[f].title = IF f = id THEN title ELSE flights[f].title
    BY <1>1, <1>2, WithTitleEffect
  <2>2. DOMAIN Stored = DOMAIN flights /\ DOMAIN Stored' = DOMAIN flights
    BY <1>1, <2>1, StoredCopies, StoredCopiesNext
  <2>3. ASSUME NEW g \in DOMAIN flights, g # id PROVE Stored'[g] = Stored[g]
    <3>1. g \in DOMAIN flights \cap DOMAIN flights'
          /\ flights'[g].user = flights[g].user /\ flights'[g].title = flights[g].title
      BY <2>1, <2>3
    <3> QED
      BY <1>1, <1>2, <3>1, SameEntry
  <2>4. L!OnlyChanges(id)
    BY <2>2, <2>3 DEF L!OnlyChanges
  <2> DEFINE e1 == Stored[id]
             e2 == Stored'[id]
  <2>5. /\ e1 = [title |-> flights[id].title, user |-> flights[id].user, aircraft |-> e1.aircraft]
        /\ IsListOf(e1.aircraft, rows, id)
    BY <1>1, <1>6, StoredCopies DEF IsCopyOf
  <2>6. /\ e2 = [title |-> flights'[id].title, user |-> flights'[id].user, aircraft |-> e2.aircraft]
        /\ IsListOf(e2.aircraft, rows', id)
    <3>1. IsCopyOf(Stored[id], id)'
      BY <1>1, <1>6, <2>1, StoredCopiesNext
    <3> QED
      BY <3>1 DEF IsCopyOf
  <2> HIDE DEF e1, e2
  <2>7. e1.aircraft = e2.aircraft
    BY <1>2, <2>5, <2>6, SameList
  <2>8. e2 = [e1 EXCEPT !.title = e2.title] /\ e2.title = title
    BY <1>6, <2>1, <2>5, <2>6, <2>7
  <2>9. L!Retitle
    BY <1>4, <1>6, <2>2, <2>4, <2>8 DEF L!Retitle, e1, e2
  <2> QED
    BY <2>9 DEF L!Next
<1> QED
  BY <1>5, <1>6

\* The numbers of the aircraft stay, and there are as many as before.
LEMMA ListLength ==
    ASSUME NEW old, NEW new, NEW rs1, NEW rs2, NEW id,
           IsListOf(old, rs1, id), IsListOf(new, rs2, id), DOMAIN rs2 = DOMAIN rs1,
           \A r \in DOMAIN rs1 : rs2[r].flight = rs1[r].flight /\ rs2[r].seq = rs1[r].seq
    PROVE  L!Amends(old, new)
<1>1. Len(old) \in Nat /\ Len(new) \in Nat
  BY DEF IsListOf
<1>2. \A i : HasRow(rs1, id, i) <=> HasRow(rs2, id, i)
  BY DEF HasRow
<1>3. \A i \in 1 .. Len(old) : i \in 1 .. Len(new)
  BY <1>2 DEF IsListOf, HasRow
<1>4. \A i \in 1 .. Len(new) : i \in 1 .. Len(old)
  BY <1>2 DEF IsListOf, HasRow
<1>5. Len(old) = Len(new)
  <2>1. Len(old) <= Len(new)
    <3>1. Len(old) # 0 => Len(old) \in 1 .. Len(old)
      BY <1>1
    <3> QED
      BY <1>1, <1>3, <3>1
  <2>2. Len(new) <= Len(old)
    <3>1. Len(new) # 0 => Len(new) \in 1 .. Len(new)
      BY <1>1
    <3> QED
      BY <1>1, <1>4, <3>1
  <2> QED
    BY <1>1, <2>1, <2>2
<1> QED
  BY <1>5 DEF L!Amends

LEMMA SwitchUserAircraftRefines ==
    ASSUME Regular, RecordsOK, StoreInv, running, RecordsOK', StoreInv', SwitchUserAircraft
    PROVE  [L!Next]_(L!vars)
<1>1. /\ flight \in FlightRecords /\ Len(flight.aircraft) \in Nat
      /\ flight.user \in 1 .. Len(flight.aircraft)
      /\ selected \in 0 .. Len(flight.aircraft) /\ selected # 0 /\ selected # flight.user
      /\ FlightsOK
  BY FlightFields, SelectedExists, RegularHazards DEF RecordsOK, FlightOK, SwitchUserAircraft
<1>2. selected \in Nat \ {0} /\ Len(flight.aircraft) > 1
  BY <1>1
<1>3. Known
  BY <1>2, RecordedIsKnown
<1>4. flight'.id = flight.id /\ rows' = rows
  BY <1>1 DEF SwitchUserAircraft, FlightRecords
<1>5. CASE flights' = flights
  BY <1>4, <1>5, CurrentStays, UnchangedRefines DEF db
<1>6. CASE flights' = WithUser(flight.id, selected)
  <2>1. /\ DOMAIN flights' = DOMAIN flights
        /\ \A g \in DOMAIN flights :
             /\ flights'[g].title = flights[g].title
             /\ g # flight.id => flights'[g].user = flights[g].user
    BY <1>1, <1>2, <1>6, WithUserEffect
  <2>2. \A old, new : IsListOf(old, rows, flight.id) /\ IsListOf(new, rows', flight.id)
                        => L!Amends(old, new)
    BY <1>4, ListLength
  <2>3. L!Amend
    BY <1>3, <1>4, <2>1, <2>2, AmendRefines DEF StoreInv
  <2> QED
    BY <2>3 DEF L!Next
<1> QED
  BY <1>5, <1>6 DEF SwitchUserAircraft

\* The row that is edited is one of the current flight, unless there is none.
LEMMA EditedRow ==
    ASSUME ~May("editCleared"), RecordsOK, StoreInv, running,
           NEW i \in DOMAIN flight.aircraft, NEW data \in Data, EditsOne(i, data)
    PROVE  /\ Known
           /\ flight.aircraft[i].id \in DOMAIN rows
                => rows[flight.aircraft[i].id].flight = flight.id
<1>1. Known
  <2>1. IsValid(flight.id)
    BY DEF EditsOne
  <2> QED
    BY <2>1 DEF StoreInv, SoundFlight, CurrentOK, NewIsEmpty, IsValid
<1>2. CASE i \in Held
  BY <1>1, <1>2 DEF StoreInv, SoundFlight, CurrentOK, HeldHasRow
<1>3. CASE i \notin Held
  <2>1. Len(flight.aircraft) \in Nat /\ i \in 1 .. Len(flight.aircraft)
    BY FlightFields DEF RecordsOK
  <2>2. recording /\ i = Len(flight.aircraft)
    BY <1>3, <2>1 DEF Held
  <2>3. flight.aircraft[i].id = RecordingId
    BY <1>1, <2>2 DEF StoreInv, SoundFlight, CurrentOK, RecordsLast
  <2>4. RecordingId \notin RowIds
    BY BoundsAssumption DEF RowIds, RecordingId
  <2> QED
    BY <1>1, <2>3, <2>4 DEF RecordsOK, RowsOK, RowsTyped
<1> QED
  BY <1>1, <1>2, <1>3

LEMMA EditAircraftRefines ==
    ASSUME ~May("editCleared"), RecordsOK, StoreInv, running, RecordsOK', StoreInv',
           NEW i \in DOMAIN flight.aircraft, NEW data \in Data, EditsOne(i, data)
    PROVE  [L!Next]_(L!vars)
<1>1. /\ Known
      /\ flight.aircraft[i].id \in DOMAIN rows
           => rows[flight.aircraft[i].id].flight = flight.id
  BY EditedRow
<1>2. flight'.id = flight.id /\ flights' = flights
  BY AircraftDataEffect DEF EditsOne, RecordsOK, FlightOK
<1>3. /\ DOMAIN rows' = DOMAIN rows
      /\ \A r \in DOMAIN rows :
           /\ rows'[r].flight = rows[r].flight /\ rows'[r].seq = rows[r].seq
           /\ rows'[r].data = IF r = flight.aircraft[i].id THEN data ELSE rows[r].data
  BY WithDataEffect DEF EditsOne, RecordsOK
<1>4. \A old, new : IsListOf(old, rows, flight.id) /\ IsListOf(new, rows', flight.id)
                      => L!Amends(old, new)
  BY <1>3, ListLength
<1>5. \A r \in DOMAIN rows : rows[r].flight # flight.id =>
         r \in DOMAIN rows' /\ rows'[r].flight = rows[r].flight
         /\ rows'[r].seq = rows[r].seq /\ rows'[r].data = rows[r].data
  BY <1>1, <1>3
<1>6. \A r \in DOMAIN rows' : rows'[r].flight # flight.id =>
         r \in DOMAIN rows /\ rows[r].flight = rows'[r].flight
  BY <1>3
<1>7. L!Amend
  BY <1>1, <1>2, <1>4, <1>5, <1>6, AmendRefines DEF StoreInv
<1> QED
  BY <1>7 DEF L!Next

\* One place is gone, and those behind it have moved up.
LEMMA ListWithout ==
    ASSUME NEW old, NEW new, NEW rs1, NEW rs2, NEW f, NEW id \in DOMAIN rs1,
           IsListOf(old, rs1, f), IsListOf(new, rs2, f), rs1[id].flight = f,
           DOMAIN rs2 = DOMAIN rs1 \ {id},
           \A r \in DOMAIN rs2 : rs1[r].flight = f =>
             /\ rs2[r].flight = f /\ rs2[r].data = rs1[r].data /\ rs1[r].seq # rs1[id].seq
             /\ rs2[r].seq = IF rs1[r].seq < rs1[id].seq THEN rs1[r].seq ELSE rs1[r].seq - 1,
           \A r \in DOMAIN rs2 : rs2[r].flight = f => rs1[r].flight = f
    PROVE  L!Amends(old, new)
<1> DEFINE m == Len(old)
           q == rs1[id].seq
<1>1. m \in Nat /\ Len(new) \in Nat /\ q \in 1 .. m
  BY DEF IsListOf
<1>2. DOMAIN old = 1 .. m /\ DOMAIN new = 1 .. Len(new)
  BY DEF IsListOf
<1>3. ASSUME NEW i \in 1 .. m, i # q
      PROVE  LET j == IF i < q THEN i ELSE i - 1
             IN  j \in 1 .. Len(new) /\ new[j] = old[i]
  <2>1. PICK r \in DOMAIN rs1 : rs1[r].flight = f /\ rs1[r].seq = i
    BY DEF IsListOf, HasRow
  <2>2. r \in DOMAIN rs2
    BY <1>3, <2>1
  <2>3. /\ rs2[r].flight = f /\ rs2[r].data = rs1[r].data
        /\ rs2[r].seq = IF i < q THEN i ELSE i - 1
    BY <2>1, <2>2
  <2>4. old[i] = rs1[r].data
    BY <2>1 DEF IsListOf
  <2> QED
    BY <2>2, <2>3, <2>4 DEF IsListOf
<1>4. ASSUME NEW j \in 1 .. Len(new) PROVE j <= m - 1
  <2>1. PICK r \in DOMAIN rs2 : rs2[r].flight = f /\ rs2[r].seq = j
    BY DEF IsListOf, HasRow
  <2>2. /\ rs1[r].flight = f /\ rs1[r].seq # q
        /\ j = IF rs1[r].seq < q THEN rs1[r].seq ELSE rs1[r].seq - 1
    BY <2>1
  <2>3. rs1[r].seq \in 1 .. m
    BY <2>1, <2>2 DEF IsListOf
  <2> DEFINE s == rs1[r].seq
  <2> HIDE DEF s, m, q
  <2>4. s # q /\ s \in 1 .. m /\ j = IF s < q THEN s ELSE s - 1
    BY <2>2, <2>3 DEF s, q
  <2> QED
    BY <1>1, <2>4
<1> HIDE DEF m, q
<1>5. ASSUME NEW j \in 1 .. m - 1
      PROVE  j \in 1 .. Len(new) /\ new[j] = IF j < q THEN old[j] ELSE old[j + 1]
  <2>1. CASE j < q
    <3>1. j \in 1 .. m /\ j # q
      BY <1>1, <2>1
    <3> QED
      BY <1>3, <2>1, <3>1
  <2>2. CASE ~(j < q)
    <3>1. j + 1 \in 1 .. m /\ j + 1 # q /\ ~(j + 1 < q) /\ (j + 1) - 1 = j
      BY <1>1, <2>2
    <3> QED
      BY <1>3, <2>2, <3>1
  <2> QED
    BY <2>1, <2>2
<1>6. Len(new) = m - 1
  <2>1. Len(new) <= m - 1
    <3>1. Len(new) # 0 => Len(new) \in 1 .. Len(new)
      BY <1>1
    <3> QED
      BY <1>1, <1>4, <3>1
  <2>2. m - 1 <= Len(new)
    <3>1. m - 1 # 0 => m - 1 \in 1 .. m - 1
      BY <1>1
    <3> QED
      BY <1>1, <1>5, <3>1
  <2> QED
    BY <1>1, <2>1, <2>2
<1>7. \A j \in DOMAIN new : new[j] = IF j < q THEN old[j] ELSE old[j + 1]
  BY <1>2, <1>5, <1>6
<1> QED
  BY <1>1, <1>2, <1>6, <1>7 DEF L!Amends, m

LEMMA RemoveAircraftRefines ==
    ASSUME Regular, RecordsOK, StoreInv, running, RecordsOK', StoreInv', DeleteAircraft,
           Len(flight.aircraft) # 1, selected # 0
    PROVE  [L!Next]_(L!vars)
<1> DEFINE len == Len(flight.aircraft)
           n   == selected
           id  == flight.aircraft[n].id
           without == WithoutRow(flight.id, id, n)
<1>1. ~recording /\ len > 1 /\ n # 0 /\ LogbookConsistent /\ CurrentOK
  <2>1. ~recording /\ LogbookConsistent /\ CurrentOK
    BY DEF DeleteAircraft, StoreInv, SoundFlight, DialogOK
  <2>2. len > 1
    <3>1. len \in Nat /\ flight.user \in 1 .. len /\ len # 1
      BY FlightFields DEF RecordsOK
    <3>2. \A k \in Nat : \A u \in 1 .. k : k # 1 => k > 1
      OBVIOUS
    <3> HIDE DEF len
    <3> QED
      BY <3>1, <3>2
  <2> QED
    BY <2>1, <2>2
<1>2. /\ flight \in FlightRecords /\ len \in Nat /\ flight.user \in 1 .. len
      /\ n \in 0 .. len /\ FlightsOK /\ RowsOK /\ RowsTyped(rows)
  BY FlightFields, SelectedExists DEF RecordsOK, FlightOK, StoreInv, SoundFlight, RowsOK
<1>3. n \in 1 .. len /\ n \in Nat \ {0}
  BY <1>1, <1>2
<1>4. /\ flight' = RemoveAircraft(flight, n)
      /\ \/ /\ UniqueSeq(without)
            /\ rows' = without
            /\ flights' = WithUser(flight.id, flight'.user)
         \/ UNCHANGED db
  <2>1. len \in Nat /\ len > 1 /\ n \in DOMAIN flight.aircraft
    BY <1>1, <1>2, SelectedExists
  <2> HIDE DEF len, n
  <2>2. len # 1 /\ n \in DOMAIN flight.aircraft
    BY <2>1
  <2> QED
    BY <2>2 DEF DeleteAircraft, len, n
<1>5. Known
  BY <1>1, RecordedIsKnown
<1>6. flight'.id = flight.id /\ flight'.user \in 1 .. len - 1
  <2>1. Removes(RemoveAircraft(flight, n), flight, n)
    BY <1>1, <1>2, <1>3, RemovesEffect
  <2> QED
    BY <1>4, <2>1 DEF Removes
<1>7. CASE UNCHANGED db
  BY <1>6, <1>7, CurrentStays, UnchangedRefines
<1>8. CASE UniqueSeq(without) /\ rows' = without /\ flights' = WithUser(flight.id, flight'.user)
  <2>1. n \in Held
    BY <1>1, <1>3 DEF Held
  <2>2. id \in DOMAIN rows /\ rows[id].flight = flight.id /\ n <= rows[id].seq
    <3>1. id \in DOMAIN rows /\ rows[id].flight = flight.id /\ rows[id].seq >= n
      BY <1>1, <1>5, <2>1 DEF CurrentOK, HeldHasRow
    <3>2. rows[id].seq \in Nat
      BY <1>2, <3>1 DEF RowsTyped, RowRecords
    <3> QED
      BY <1>3, <3>1, <3>2
  <2> HIDE DEF id, n, len
  <2>3. rows[id].seq \in {n, n + 1}
    <3>1. UniqueSeq(WithoutRow(rows[id].flight, id, n)) /\ Gapless(rows)
      BY <1>1, <1>8, <2>2, ConsistentParts DEF without
    <3> QED
      BY <1>2, <1>3, <2>2, <3>1, WithoutRowGapless
  <2>4. ClosesGap(rows', flight.id, id, n)
    BY <1>2, <1>3, <1>8, WithoutRowEffect DEF without
  <2>5. flight'.user \in Nat \ {0}
    BY <1>2, <1>6
  <2>6. /\ DOMAIN flights' = DOMAIN flights
        /\ \A g \in DOMAIN flights :
             /\ flights'[g].title = flights[g].title
             /\ g # flight.id => flights'[g].user = flights[g].user
    BY <1>2, <1>8, <2>5, WithUserEffect
  <2> HIDE DEF without
  <2>7. DOMAIN rows' = DOMAIN rows \ {id} /\ \A r \in DOMAIN rows' : rows'[r].flight = rows[r].flight
    BY <2>4 DEF ClosesGap
  <2>8. \A r \in DOMAIN rows : rows[r].flight # flight.id =>
           r \in DOMAIN rows' /\ rows'[r].flight = rows[r].flight
           /\ rows'[r].seq = rows[r].seq /\ rows'[r].data = rows[r].data
    BY <2>2, <2>4 DEF ClosesGap
  <2>9. ASSUME NEW r \in DOMAIN rows', rows[r].flight = flight.id
        PROVE  /\ rows'[r].flight = flight.id /\ rows'[r].data = rows[r].data
               /\ rows[r].seq # rows[id].seq
               /\ rows'[r].seq = IF rows[r].seq < rows[id].seq THEN rows[r].seq
                                                               ELSE rows[r].seq - 1
    <3>1. r \in DOMAIN rows /\ r # id
      BY <2>7
    <3>2. /\ rows'[r].flight = flight.id /\ rows'[r].data = rows[r].data
          /\ rows'[r].seq = IF rows[r].seq > n THEN rows[r].seq - 1 ELSE rows[r].seq
      BY <2>4, <2>9, <3>1 DEF ClosesGap
    <3>3. rows[r].seq # rows[id].seq
      BY <1>2, <2>2, <2>9, <3>1 DEF RowsOK, UniqueSeq
    <3>4. rows[r].seq \in Nat /\ rows[id].seq \in Nat
      BY <1>2, <2>2, <3>1 DEF RowsTyped, RowRecords
    <3>5. rows[id].seq = n + 1 => rows[r].seq <= n \/ rows[r].seq > n + 1
      BY <1>3, <3>3, <3>4
    <3> QED
      BY <1>3, <2>3, <3>2, <3>3, <3>4, <3>5
  <2>10. \A old, new : IsListOf(old, rows, flight.id) /\ IsListOf(new, rows', flight.id)
                         => L!Amends(old, new)
    BY <2>2, <2>7, <2>9, ListWithout
  <2>11. L!Amend
    BY <1>5, <1>6, <2>6, <2>7, <2>8, <2>10, AmendRefines DEF StoreInv
  <2> QED
    BY <2>11 DEF L!Next
<1> QED
  BY <1>4, <1>7, <1>8

LEMMA DeleteAircraftRefines ==
    ASSUME Regular, RecordsOK, StoreInv, running, RecordsOK', StoreInv', DeleteAircraft
    PROVE  [L!Next]_(L!vars)
<1>1. CASE Len(flight.aircraft) # 1 /\ selected # 0
  BY <1>1, RemoveAircraftRefines
<1>2. CASE Len(flight.aircraft) = 1 \/ selected = 0
  <2>1. UNCHANGED <<db, flight>>
    BY <1>2, SelectedExists DEF DeleteAircraft
  <2> QED
    BY <2>1, CurrentStays, UnchangedRefines
<1> QED
  BY <1>1, <1>2

\* The database stays as it is, and the flight becomes one that is not stored, stays
\* itself or is one of the logbook.
LEMMA QuietRefines ==
    ASSUME UNCHANGED db,
           \/ flight'.id \in {flight.id, InvalidId, RecordingId}
           \/ RecordsOK' /\ flight'.id \in DOMAIN flights
    PROVE  [L!Next]_(L!vars)
<1>1. CASE flight'.id = flight.id
  BY <1>1, CurrentStays, UnchangedRefines
<1>2. CASE flight'.id \in {InvalidId, RecordingId}
  BY <1>2, CurrentForgotten, UnchangedRefines
<1>3. CASE RecordsOK' /\ flight'.id \in DOMAIN flights
  <2>1. Known'
    BY <1>3 DEF Known, db
  <2>2. Current' \in DOMAIN flights
    BY <1>3, <2>1, CurrentKnownNext
  <2> QED
    BY <2>2, UnchangedRefines
<1> QED
  BY <1>1, <1>2, <1>3

LEMMA StartRecordingRefines ==
    ASSUME RecordsOK, StoreInv, running, StartRecording PROVE [L!Next]_(L!vars)
<1>1. flight \in FlightRecords /\ flight.aircraft # <<>>
  BY FlightFields DEF RecordsOK, FlightOK, StoreInv, SoundFlight
<1>2. UNCHANGED db
  BY DEF StartRecording
<1>3. CASE flight' = [Cleared(flight) EXCEPT !.id = RecordingId]
  <2>1. flight'.id = RecordingId
    BY <1>1, <1>3, ClearedEffect DEF FlightRecords
  <2> QED
    BY <1>2, <2>1, QuietRefines
<1>4. CASE flight' = RecordingAdded
  <2>1. flight'.id = flight.id
    BY <1>1, <1>4, RecordingAddedEffect
  <2> QED
    BY <1>2, <2>1, QuietRefines
<1> QED
  BY <1>3, <1>4 DEF StartRecording, RecordingAdded

\* The current flight is given up, or another one is loaded.
LEMMA FlightChangedRefines ==
    ASSUME RecordsOK, RecordsOK',
           (running /\ ClearFlight) \/ \E id \in DOMAIN flights : LoadFlight(id)
    PROVE  [L!Next]_(L!vars)
<1>1. CASE running /\ ClearFlight
  <2>1. flight \in FlightRecords /\ flight.aircraft # <<>>
    BY <1>1, FlightFields DEF RecordsOK, FlightOK
  <2>2. UNCHANGED db /\ flight'.id = InvalidId
    BY <1>1, <2>1, ClearedEffect DEF ClearFlight
  <2> QED
    BY <2>2, QuietRefines
<1>2. CASE \E id \in DOMAIN flights : LoadFlight(id)
  <2>1. PICK id \in DOMAIN flights : LoadFlight(id)
    BY <1>2
  <2>2. UNCHANGED db /\ flight'.id = id
    BY <2>1 DEF LoadFlight, LoadedFlight
  <2> QED
    BY <2>2, QuietRefines
<1> QED
  BY <1>1, <1>2

\* Nothing happens to flight and database.
LEMMA AskedRefines ==
    ASSUME NEW m, NEW id, NEW i,
           \/ ActivateModule(m) \/ ReplayStateChanged \/ AskDeleteFlight(id)
           \/ AskDeleteAircraft \/ Keep \/ Select(i)
    PROVE  UNCHANGED <<db, flight>> /\ [L!Next]_(L!vars)
<1>1. UNCHANGED <<db, flight>>
  BY DEF ActivateModule, ReplayStateChanged, AskDeleteFlight, AskDeleteAircraft, Keep,
         Select, db
<1> QED
  BY <1>1, QuietRefines

LEMMA StepRefines ==
    Regular /\ ~May("editCleared") /\ RecordsOK /\ RecordsOK' /\ StoreInv /\ StoreInv'
      /\ [Next]_vars => [L!Next]_(L!vars)
<1> SUFFICES ASSUME Regular, ~May("editCleared"), RecordsOK, RecordsOK', StoreInv,
                    StoreInv', [Next]_vars
             PROVE  [L!Next]_(L!vars)
  OBVIOUS
<1>1. CASE Restart
  BY <1>1, QuietRefines DEF Restart, NewFlight
<1>2. CASE UNCHANGED vars
  BY <1>2, QuietRefines DEF vars, db
<1>3. CASE running /\ ~Restart /\ ~UNCHANGED vars
  <2>1. CASE ClearFlight \/ \E id \in DOMAIN flights : LoadFlight(id)
    BY <1>3, <2>1, FlightChangedRefines
  <2>2. CASE StartRecording
    BY <1>3, <2>2, StartRecordingRefines
  <2>3. CASE StopRecording
    BY <1>3, <2>3, StopRecordingRefines
  <2>4. ASSUME NEW m, NEW id, NEW i,
               \/ ActivateModule(m) \/ ReplayStateChanged \/ AskDeleteFlight(id)
               \/ AskDeleteAircraft \/ Keep \/ Select(i)
        PROVE  [L!Next]_(L!vars)
    BY <2>4, AskedRefines
  <2>5. ASSUME NEW n \in 1 .. MaxAircraft, NEW recs \in [1 .. n -> BOOLEAN]
        PROVE  /\ \A u \in DOMAIN recs : ImportFlight(recs, u) => [L!Next]_(L!vars)
               /\ \A k \in 0 .. Len(recs) : ImportAircraft(recs, k) => [L!Next]_(L!vars)
    <3>1. DOMAIN recs = 1 .. n /\ Len(recs) = n
      BY BoundsAssumption
    <3>2. ASSUME NEW u \in 1 .. n, ImportFlight(recs, u) PROVE [L!Next]_(L!vars)
      BY <1>3, <3>2, ImportFlightRefines
    <3>3. ASSUME NEW k \in 0 .. n, ImportAircraft(recs, k) PROVE [L!Next]_(L!vars)
      BY <1>3, <3>3, ImportAircraftEffect, ImportAircraftRefines
    <3> QED
      BY <3>1, <3>2, <3>3
  <2>6. ASSUME NEW recs \in Imports
        PROVE  /\ \A u \in DOMAIN recs : ImportFlight(recs, u) => [L!Next]_(L!vars)
               /\ \A k \in 0 .. Len(recs) : ImportAircraft(recs, k) => [L!Next]_(L!vars)
    BY <2>5 DEF Imports
  <2>7. CASE DeleteFlight
    BY <1>3, <2>7, DeleteFlightRefines
  <2>8. ASSUME NEW id \in DOMAIN flights \cup {flight.id}, NEW title \in Titles,
               UpdateTitle(id, title)
        PROVE  [L!Next]_(L!vars)
    BY <1>3, <2>8, UpdateTitleRefines
  <2>9. CASE SwitchUserAircraft
    BY <1>3, <2>9, SwitchUserAircraftRefines
  <2>10. ASSUME NEW data \in Data, EditAircraft(data) PROVE [L!Next]_(L!vars)
    BY <1>3, <2>10, EditAircraftEffect, EditAircraftRefines
  <2>11. CASE DeleteAircraft
    BY <1>3, <2>11, DeleteAircraftRefines
  <2> QED
    BY <1>3, <2>1, <2>2, <2>3, <2>4, <2>6, <2>7, <2>8, <2>9, <2>10, <2>11 DEF Next
<1> QED
  BY <1>1, <1>2, <1>3 DEF Next

LEMMA InitRefines == Init => L!Init
<1> SUFFICES ASSUME Init PROVE L!Init
  OBVIOUS
<1>1. DOMAIN flights = {}
  BY DEF Init
<1>2. Stored = <<>>
  BY <1>1 DEF Stored
<1>3. Current = InvalidId
  BY DEF Init, NewFlight, Current, IsValid
<1> QED
  BY <1>2, <1>3 DEF L!Init

\* Each transaction changes at most one flight of the logbook in one of the ways that
\* Logbook allows, also after a crash, after any other failed transaction and half-way
\* through an import of several flights.  The assumption excludes each case in which the
\* code itself changes the logbook in another way.
THEOREM ImplementsTheLogbook ==
    ASSUME Regular, "editCleared" \notin Hazards
    PROVE  Spec => ImplementsLogbook
<1>1. ~May("editCleared")
  BY DEF May
<1>2. Init => RecordsOK /\ StoreInv /\ L!Init
  BY InitRecords, InitStore, InitRefines
<1>3. RecordsOK /\ StoreInv /\ [Next]_vars => (RecordsOK /\ StoreInv)'
  BY <1>1, RecordsKept, StoreKept
<1>4. RecordsOK /\ RecordsOK' /\ StoreInv /\ StoreInv' /\ [Next]_vars => [L!Next]_(L!vars)
  BY <1>1, StepRefines
<1> QED
  BY <1>2, <1>3, <1>4, PTL DEF Spec, ImplementsLogbook, L!Spec

-----------------------------------------------------------------------------
(***************************************************************************)
(* Only an edit changes the data of an aircraft.                           *)
(***************************************************************************)
SameData == \A r \in DOMAIN rows \cap DOMAIN rows' : rows'[r].data = rows[r].data

EditsHere ==
    \A r \in DOMAIN rows \cap DOMAIN rows' :
        rows'[r].data # rows[r].data => rows[r].flight = flight.id

\* Rows are added after the others, or deleted, or stay as they are.
LEMMA AddedSameData ==
    ASSUME NEW f, NEW n, NEW r, NEW list, rows' = WithRows(f, n, r, list) PROVE SameData
BY DEF WithRows, SameData

LEMMA DeletedSameData ==
    ASSUME RowsTyped(rows), DOMAIN flight.aircraft \subseteq Nat \ {0},
           DeleteFlight \/ DeleteAircraft
    PROVE  SameData
<1>1. CASE UNCHANGED rows
  BY <1>1 DEF SameData
<1>2. CASE DeleteFlight
  <2>1. rows' = WithoutRowsOf(dialog.id) \/ UNCHANGED rows
    BY <1>2 DEF DeleteFlight, db
  <2> QED
    BY <1>1, <2>1 DEF WithoutRowsOf, SameData
<1>3. CASE DeleteAircraft
  <2> DEFINE id == flight.aircraft[selected].id
  <2>1. \/ UNCHANGED rows
        \/ selected \in DOMAIN flight.aircraft /\ rows' = WithoutRow(flight.id, id, selected)
    BY <1>3 DEF DeleteAircraft, db
  <2> HIDE DEF id
  <2>2. CASE selected \in DOMAIN flight.aircraft /\ rows' = WithoutRow(flight.id, id, selected)
    <3>1. ClosesGap(rows', flight.id, id, selected)
      BY <2>2, WithoutRowEffect
    <3> QED
      BY <3>1 DEF ClosesGap, SameData
  <2> QED
    BY <1>1, <2>1, <2>2
<1> QED
  BY <1>2, <1>3

LEMMA StoredSameData ==
    ASSUME NEW recs, NEW u, NEW k,
           StopRecording \/ ImportFlight(recs, u) \/ ImportAircraft(recs, k)
    PROVE  SameData
<1>1. CASE UNCHANGED rows
  BY <1>1 DEF SameData
<1>2. ASSUME NEW fd,
             \/ StoreFlight(fd) \/ ImportIntoLogbook(fd)
             \/ StoreFlightFails(fd) \/ StoreAircraft(fd)
      PROVE  SameData
  <2>1. CASE StoreFlight(fd) \/ ImportIntoLogbook(fd)
    <3>1. PICK f \in FlightIds, r \in RowIds : Stores(f, r, fd)
      BY <2>1, Zenon DEF StoreFlight, ImportIntoLogbook
    <3>2. rows' = WithRows(f, 1, r, fd.aircraft)
      BY <3>1 DEF Stores
    <3> QED
      BY <3>2, AddedSameData
  <2>2. CASE StoreAircraft(fd)
    <3>1. PICK r \in RowIds :
            rows' = WithRows(fd.id, Len(fd.aircraft), r, <<fd.aircraft[Len(fd.aircraft)]>>)
      BY <2>2, Zenon DEF StoreAircraft
    <3> QED
      BY <3>1, AddedSameData
  <2>3. CASE StoreFlightFails(fd)
    <3>1. UNCHANGED rows
      BY <2>3, Zenon DEF StoreFlightFails, db
    <3> QED
      BY <1>1, <3>1
  <2> QED
    BY <1>2, <2>1, <2>2, <2>3
<1>3. CASE StopRecording
  BY <1>1, <1>2, <1>3
     DEF StopRecording, StopFirstRecording, StopFormationRecording, db
<1>4. CASE ImportFlight(recs, u)
  BY <1>1, <1>2, <1>4 DEF ImportFlight, ImportAsCurrentFlight
<1>5. CASE ImportAircraft(recs, k)
  BY <1>5, AddedSameData DEF ImportAircraft
<1> QED
  BY <1>3, <1>4, <1>5

LEMMA StepEdits ==
    Regular /\ ~May("editCleared") /\ RecordsOK /\ StoreInv /\ [Next]_vars => EditsHere
<1> SUFFICES ASSUME Regular, ~May("editCleared"), RecordsOK, StoreInv, [Next]_vars PROVE EditsHere
  OBVIOUS
<1>1. CASE UNCHANGED rows
  BY <1>1 DEF EditsHere
<1>2. CASE SameData
  BY <1>2 DEF SameData, EditsHere
<1>3. ASSUME running, NEW data \in Data, EditAircraft(data) PROVE EditsHere
  <2>1. selected \in DOMAIN flight.aircraft /\ EditsOne(selected, data)
    BY <1>3, EditAircraftEffect
  <2>2. \A r \in DOMAIN rows' : rows'[r].data # rows[r].data => r = flight.aircraft[selected].id
    BY <2>1 DEF EditsOne, WithData
  <2>3. flight.aircraft[selected].id \in DOMAIN rows
          => rows[flight.aircraft[selected].id].flight = flight.id
    BY <1>3, <2>1, EditedRow
  <2> QED
    BY <2>2, <2>3 DEF EditsHere
<1>4. CASE \/ StopRecording
           \/ \E recs \in Imports : \E u \in DOMAIN recs : ImportFlight(recs, u)
           \/ \E recs \in Imports : \E k \in 0 .. Len(recs) : ImportAircraft(recs, k)
  BY <1>2, <1>4, StoredSameData
<1>5. CASE DeleteFlight \/ DeleteAircraft
  <2>1. RowsTyped(rows) /\ DOMAIN flight.aircraft \subseteq Nat \ {0}
    BY FlightFields DEF RecordsOK, RowsOK
  <2> QED
    BY <1>2, <1>5, <2>1, DeletedSameData
<1>6. CASE UNCHANGED <<rows>> \/ UNCHANGED vars
  BY <1>1, <1>6 DEF vars
<1> QED
  BY <1>3, <1>4, <1>5, <1>6
     DEF Next, Restart, ActivateModule, StartRecording, ReplayStateChanged, ClearFlight,
         LoadFlight, AskDeleteFlight, UpdateTitle, Select, SwitchUserAircraft,
         AskDeleteAircraft, Keep, db

\* An edit writes an aircraft of the current flight, and no other, if no aircraft of a
\* flight that is not stored is edited and the identifiers in memory are those of rows of
\* this flight, which takes the invariant.
THEOREM EditsOfThisFlight ==
    ASSUME Regular, "editCleared" \notin Hazards
    PROVE  Spec => EditsStayInFlight
<1>1. ~May("editCleared")
  BY DEF May
<1>2. Init => RecordsOK /\ StoreInv
  BY InitRecords, InitStore
<1>3. RecordsOK /\ StoreInv /\ [Next]_vars => (RecordsOK /\ StoreInv)'
  BY <1>1, RecordsKept, StoreKept
<1>4. RecordsOK /\ StoreInv /\ [Next]_vars => EditsHere
  BY <1>1, StepEdits
<1> QED
  BY <1>2, <1>3, <1>4, PTL DEF Spec, EditsStayInFlight, EditsHere

=============================================================================
