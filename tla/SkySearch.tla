----------------------------- MODULE SkySearch -----------------------------
(***************************************************************************)
(* The samples of one kind of simulation variables of an aircraft          *)
(* (AbstractComponent: Position, Engine, Light...) and their               *)
(* interpolation: SkySearch finds the samples around a timestamp, starting *)
(* from the index that the previous search has found, with a linear search *)
(* close to it and a binary search elsewhere.                              *)
(*                                                                         *)
(* A search runs to its end within one call; its loops are modelled        *)
(* iteration by iteration because the question is whether they end, stay   *)
(* within the samples and find the right one.  Indices count from 1, and   *)
(* Invalid is 0; the middle of two indices is the same either way.         *)
(***************************************************************************)
EXTENDS Integers, Sequences, FiniteSets

CONSTANTS
    Window,         \* DefaultInterpolationWindow
    Threshold,      \* BinaryIntervalSearchThreshold
    MaxSamples,     \* bound of the samples that are recorded
    MaxTime         \* bound of the timestamps

ASSUME SearchAssumption == Window \in Nat /\ Threshold \in Nat
ASSUME BoundsAssumption == MaxSamples \in Nat /\ MaxTime \in Nat

VARIABLES
    kind,       \* the interpolation of the component: "cubic" or "linear"
    samples,    \* m_data: the timestamps of the samples
    index,      \* m_currentIndex
    cache,      \* m_currentTimestamp and m_currentAccess of the latest data
    pc,         \* "idle", the loop of the search, or "found"
    target,     \* the timestamp that is searched
    access,     \* TimeVariableData::Access
    low, high   \* the interval of the binary search

data   == <<kind, samples>>
search == <<pc, target, access, low, high>>
vars   == <<data, index, cache, search>>

Invalid  == 0
NoTime   == -1
Kinds    == {"cubic", "linear"}
Accesses == {"linear", "seek"}

Size   == Len(samples)
Smaller(a, b) == IF a < b THEN a ELSE b
Larger(a, b)  == IF a > b THEN a ELSE b

Ascending(s) == \A i, j \in 1..Len(s) : i < j => s[i] < s[j]

-----------------------------------------------------------------------------
Init ==
    /\ kind \in Kinds
    /\ samples = <<>>
    /\ index = Invalid
    /\ cache = [timestamp |-> NoTime, access |-> "linear"]
    /\ pc = "idle"
    /\ target = 0
    /\ access = "linear"
    /\ low = 0
    /\ high = 0

(***************************************************************************)
(* The samples change.                                                     *)
(***************************************************************************)

\* A sample with the timestamp of the last one replaces it.
UpsertLast(s, t) == IF s # <<>> /\ s[Len(s)] = t THEN s ELSE Append(s, t)

\* A sample is recorded, or imported: normally in the order of time, but not if the
\* clock of a recording moves back (SamplesInOrder of ReplayClock).
Record(t) ==
    /\ pc = "idle"
    /\ Size < MaxSamples
    /\ samples' = UpsertLast(samples, t)
    /\ UNCHANGED <<kind, index, cache, search>>

\* The samples, in minutes, of the start and landing procedures of an engine for a
\* flight of that duration; in a short flight they overlap, and one at a timestamp
\* that is taken already replaces it (upsert).
ProcedureTimes(duration) ==
    {0, Smaller(2, duration), Smaller(5, duration)}
    \cup {Larger(duration - 5, 0), Larger(duration - 2, 0), duration}

\* They are sorted when all of them are there (std::sort).
Sorted(times) == {s \in [1..Cardinality(times) -> times] : Ascending(s)}

\* An imported aircraft gets a start and a landing procedure.
Augment(duration) ==
    /\ pc = "idle"
    /\ kind = "linear"
    /\ samples = <<>>
    /\ samples' \in Sorted(ProcedureTimes(duration))
    /\ UNCHANGED <<kind, index, cache, search>>

\* Mutant: the index stays.
ClearData ==
    /\ pc = "idle"
    /\ samples' = <<>>
    /\ UNCHANGED <<kind, index, cache, search>>

\* The access of the cache stays.
Clear ==
    /\ pc = "idle"
    /\ samples' = <<>>
    /\ index' = Invalid
    /\ cache' = [cache EXCEPT !.timestamp = NoTime]
    /\ UNCHANGED <<kind, search>>

(***************************************************************************)
(* updateStartIndex                                                        *)
(***************************************************************************)

FoundAt(i) == pc' = "found" /\ index' = i /\ UNCHANGED <<low, high>>

\* The beginning of binaryIntervalSearch: the ends of the samples need no loop.
SearchBinary(t, lo, hi) ==
    \/ /\ samples[lo] > t \/ samples[hi] < t
       /\ FoundAt(Invalid)
    \/ /\ samples[lo] <= t /\ t <= samples[hi]
       /\ \/ samples[1] = t /\ FoundAt(1)
          \/ samples[1] # t /\ samples[Size] = t /\ FoundAt(Size)
          \/ /\ samples[1] # t /\ samples[Size] # t
             /\ pc' = "binary"
             /\ low' = lo
             /\ high' = hi
             /\ UNCHANGED index

\* Mutant: moving back is not noticed.
IsFarAhead(t) == t - Threshold > samples[index]

\* The timestamp has moved back, or far ahead.
IsFar(t) == t < samples[index] \/ t - Threshold > samples[index]

StartSearch(t) ==
    \/ Size = 0 /\ FoundAt(Invalid)
    \/ Size > 0 /\ t >= samples[Size] /\ FoundAt(Size)
    \/ /\ Size > 0
       /\ t < samples[Size]
       /\ \/ index = Invalid /\ SearchBinary(t, 1, Size)
          \/ /\ index # Invalid /\ IsFar(t)
             /\ IF t < samples[index]
                THEN SearchBinary(t, 1, index)
                ELSE SearchBinary(t, index, Size)
          \/ /\ index # Invalid /\ ~IsFar(t)
             /\ pc' = "linear"
             /\ UNCHANGED <<index, low, high>>

\* interpolate, with the timestamp that the time offset of the aircraft gives.  The
\* data of the previous call are returned when timestamp and access are the same.
Interpolate(t, a) ==
    /\ pc = "idle"
    /\ cache.timestamp # t \/ cache.access # a
    /\ target' = t
    /\ access' = a
    /\ StartSearch(t)
    /\ UNCHANGED <<data, cache>>

\* An iteration of linearIntervalSearch
LinearStep ==
    /\ pc = "linear"
    /\ IF index < Size /\ samples[index + 1] <= target
       THEN index' = index + 1 /\ UNCHANGED pc
       ELSE pc' = "found" /\ UNCHANGED index
    /\ UNCHANGED <<data, cache, target, access, low, high>>

Middle == (low + high) \div 2

\* Mutant: an off-by-one at the lower end.
EnclosesAfter(i) ==
    samples[i] < target /\ (i = high \/ target < samples[i + 1])

Encloses(i) ==
    samples[i] <= target /\ (i = high \/ target < samples[i + 1])

\* An iteration of binaryIntervalSearch: the middle stays in the interval.
BinaryStep ==
    /\ pc = "binary"
    /\ IF low <= high /\ ~Encloses(Middle)
       THEN /\ IF target < samples[Middle]
               THEN high' = Middle /\ UNCHANGED low
               ELSE low' = Middle /\ UNCHANGED high
            /\ UNCHANGED <<pc, index>>
       ELSE FoundAt(IF low <= high THEN Middle ELSE Invalid)
    /\ UNCHANGED <<data, cache, target, access>>

(***************************************************************************)
(* The samples that the data at the timestamp are computed from.           *)
(***************************************************************************)

Next1(i) == Smaller(i + 1, Size)

\* getCubicInterpolationSupportData, with the infinite window: four samples
CubicSupport ==
    IF index # Invalid
    THEN <<Larger(index - 1, 1), index, Next1(index), Next1(index + 1)>>
    ELSE IF Size = 0 THEN <<>>
    ELSE IF target < samples[1] THEN <<1, 1, 1, 1>>
    ELSE <<Size, Size, Size, Size>>

\* Mutant: a later sample is used however far away it is.
LinearSupportUnbounded ==
    IF index # Invalid
    THEN IF target - samples[index] > Window THEN <<>> ELSE <<index, Next1(index)>>
    ELSE IF Size > 0 /\ target - samples[Size] <= Window THEN <<Size, Size>> ELSE <<>>

\* getLinearInterpolationSupportData: two samples.  Without an index, the timestamp is
\* before the first sample, and the last one is used.
LinearSupport ==
    IF index # Invalid
    THEN IF target - samples[index] > Window THEN <<>>
         ELSE IF samples[Next1(index)] - target > Window THEN <<index, index>>
         ELSE <<index, Next1(index)>>
    ELSE IF Size > 0 /\ target - samples[Size] <= Window THEN <<Size, Size>> ELSE <<>>

\* A seek takes the sample before the timestamp, however old it is.
SeekSupport == IF index # Invalid THEN <<index, index>> ELSE <<>>

Support ==
    IF kind = "cubic" THEN CubicSupport
    ELSE IF access = "seek" THEN SeekSupport ELSE LinearSupport

\* The end of interpolate; what was needed for the search is forgotten.
Finish ==
    /\ pc = "found"
    /\ cache' = [timestamp |-> target, access |-> access]
    /\ pc' = "idle"
    /\ target' = 0 /\ access' = "linear" /\ low' = 0 /\ high' = 0
    /\ UNCHANGED <<data, index>>

-----------------------------------------------------------------------------
Changing ==
    \/ \E t \in 0..MaxTime : Record(t) \/ Augment(t)
    \/ Clear

Searching == LinearStep \/ BinaryStep \/ Finish

Next ==
    \/ Changing
    \/ \E t \in 0..MaxTime, a \in Accesses : Interpolate(t, a)
    \/ Searching

Spec == Init /\ [][Next]_vars

\* A call runs to its end.
FairSpec == Spec /\ WF_vars(Searching)

-----------------------------------------------------------------------------
(***************************************************************************)
(* Properties.                                                             *)
(***************************************************************************)

\* Every variable keeps to its type, and every index to the samples, also the one
\* that is kept from one call to the next while samples come and go: reading
\* outside of them would terminate the program (at() in functions that are noexcept).
TypeOK ==
    /\ kind \in Kinds
    /\ samples \in Seq(Nat)
    /\ index \in 0..Size
    /\ cache \in [timestamp : Nat \cup {NoTime}, access : Accesses]
    /\ pc \in {"idle", "linear", "binary", "found"}
    /\ target \in Nat
    /\ access \in Accesses
    /\ low \in 0..Size
    /\ high \in 0..Size
    /\ pc = "linear" => index # Invalid
    /\ pc = "binary" => 1 <= low /\ low < high

\* Whatever index the previous search has left, the search finds the last sample that
\* is not after the timestamp, and none exactly when the timestamp is before all
\* samples (the contract of binaryIntervalSearch, for ascending timestamps).
SearchFindsInterval ==
    pc = "found" /\ Ascending(samples) =>
        IF index = Invalid
        THEN Size > 0 => target < samples[1]
        ELSE /\ samples[index] <= target
             /\ index < Size => target < samples[index + 1]

\* A search ends, also in samples that are not in ascending order.
SearchEnds == pc # "idle" ~> pc = "idle"

\* Each iteration of the binary search that goes on makes its interval smaller, in
\* whatever order the samples are: a search never blocks the event loop, although
\* the middle stays in the interval (while loop of binaryIntervalSearch).
SearchAdvances ==
    pc = "binary" /\ ~Encloses(Middle) =>
        IF target < samples[Middle] THEN Middle < high ELSE low < Middle

\* The two samples between which the data are interpolated: p1 and p2.
P1 == samples[IF kind = "cubic" THEN Support[2] ELSE Support[1]]
P2 == samples[IF kind = "cubic" THEN Support[3] ELSE Support[2]]

\* Only samples that exist are used, and the position of an aircraft is known at any
\* timestamp once there is one.  In ascending samples, those used are in the order of time,
\* so that an aircraft does not jump back; from the first sample on, the data lie between
\* the last sample that is not after the timestamp and the next one, if they are used, and
\* "only sampled data within that time window is considered for interpolation"
\* (SkySearch.h:49).  Before the first sample the code does not keep to its window: other
\* data than the position are those of the very last sample, however far away
\* (getLinearInterpolationSupportData takes it for a timestamp "past the last sample").
SupportSurrounds ==
    pc = "found" =>
        /\ \A i \in 1..Len(Support) : Support[i] \in 1..Size
        /\ kind = "cubic" => (Support = <<>> <=> samples = <<>>)
        /\ Ascending(samples) =>
             /\ \A i, j \in 1..Len(Support) :
                    i <= j => samples[Support[i]] <= samples[Support[j]]
             /\ Support # <<>> /\ samples[1] <= target =>
                  /\ P1 <= target /\ (P2 = P1 \/ target < P2)
                  /\ \A k \in 1..Size :
                         samples[k] <= P1 \/ (target < samples[k] /\ P2 <= samples[k])
                  /\ kind = "linear" /\ access = "linear"
                       => target - P1 <= Window /\ P2 - target <= Window
=============================================================================
