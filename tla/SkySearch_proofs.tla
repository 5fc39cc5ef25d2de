-------------------------- MODULE SkySearch_proofs --------------------------
(***************************************************************************)
(* Proofs about SkySearch, for every window, threshold and bound: a search *)
(* stays within its samples, advances in any samples, and finds the right  *)
(* interval in ascending ones.                                             *)
(***************************************************************************)
EXTENDS SkySearch, FiniteSetTheorems, TLAPS

\* What the loops rely on: the timestamp lies between the ends of their interval;
\* between calls there is none.
Bracketed ==
    /\ pc = "idle" => low = 0 /\ high = 0
    /\ pc = "linear" => samples[index] <= target /\ target < samples[Size]
    /\ pc = "binary" => samples[low] <= target /\ target < samples[high]

IInv == TypeOK /\ Bracketed /\ SearchFindsInterval

-----------------------------------------------------------------------------
(***************************************************************************)
(* The operators of the model.                                             *)
(***************************************************************************)

\* upsertLast keeps a sequence of timestamps.
LEMMA UpsertTyped ==
    ASSUME NEW s \in Seq(Nat), NEW t \in Nat
    PROVE  UpsertLast(s, t) \in Seq(Nat)
BY DEF UpsertLast

\* The procedures of an imported aircraft are finitely many samples within its flight.
LEMMA AugmentedTyped ==
    ASSUME NEW duration \in Nat, NEW s \in Sorted(ProcedureTimes(duration))
    PROVE  s \in Seq(Nat)
<1>1. ProcedureTimes(duration) \subseteq 0..duration
  BY DEF ProcedureTimes, Smaller, Larger
<1>2. Cardinality(ProcedureTimes(duration)) \in Nat
  <2>1. IsFiniteSet(0..duration)
    BY FS_Interval
  <2>2. IsFiniteSet(ProcedureTimes(duration))
    BY <1>1, <2>1, FS_Subset
  <2> QED
    BY <2>2, FS_CardinalityType
<1>3. s \in [1..Cardinality(ProcedureTimes(duration)) -> Nat]
  BY <1>1 DEF Sorted
<1> QED
  BY <1>2, <1>3

\* The middle of an interval of two indices or more is one of them, and not the last.
LEMMA MiddleInside ==
    ASSUME NEW lo \in Nat, NEW hi \in Nat, lo < hi
    PROVE  /\ (lo + hi) \div 2 \in Nat
           /\ lo <= (lo + hi) \div 2
           /\ (lo + hi) \div 2 < hi
OBVIOUS

\* Every timestamp of the samples is a number.
LEMMA SampleTyped ==
    ASSUME TypeOK
    PROVE  Size \in Nat /\ \A i \in 1..Size : samples[i] \in Nat
BY DEF TypeOK, Size

\* The samples that the data are computed from are those of the component, in order.
LEMMA SupportSound ==
    ASSUME TypeOK, pc = "found"
    PROVE  /\ \A i \in 1..Len(Support) : Support[i] \in 1..Size
           /\ \A i, j \in 1..Len(Support) : i <= j => Support[i] <= Support[j]
           /\ kind = "cubic" => (Support = <<>> <=> samples = <<>>)
<1>1. Size \in Nat /\ index \in 0..Size /\ (Size = 0 <=> samples = <<>>)
  BY DEF TypeOK, Size
<1>2. CASE Support = <<>> /\ (kind = "cubic" => Size = 0)
  BY <1>1, <1>2
<1>3. CASE \E a, b \in 1..Size : Support = <<a, b>> /\ a <= b /\ kind # "cubic"
  BY <1>1, <1>3
<1>4. CASE \E a, b, c, d \in 1..Size :
              Support = <<a, b, c, d>> /\ a <= b /\ b <= c /\ c <= d /\ Size > 0
  BY <1>1, <1>4
<1>5. CASE kind = "cubic"
  <2>1. Support = CubicSupport
    BY <1>5 DEF Support
  <2>2. CASE index # Invalid
    <3>1. /\ Larger(index - 1, 1) \in 1..Size
          /\ Next1(index) \in 1..Size /\ Next1(index + 1) \in 1..Size
          /\ Larger(index - 1, 1) <= index /\ index <= Next1(index)
          /\ Next1(index) <= Next1(index + 1)
          /\ index \in 1..Size /\ Size > 0
      BY <1>1, <2>2 DEF Larger, Smaller, Next1, Invalid
    <3> QED
      BY <1>4, <2>1, <2>2, <3>1 DEF CubicSupport
  <2>3. CASE index = Invalid /\ Size > 0
    <3>1. 1 \in 1..Size /\ Size \in 1..Size /\ Size # 0
      BY <1>1, <2>3
    <3> QED
      BY <1>1, <1>4, <2>1, <2>3, <3>1 DEF CubicSupport
  <2>4. CASE index = Invalid /\ Size = 0
    BY <1>2, <2>1, <2>4 DEF CubicSupport
  <2> QED
    BY <1>1, <2>2, <2>3, <2>4
<1>6. CASE kind # "cubic"
  <2>1. index # Invalid => index \in 1..Size /\ Next1(index) \in 1..Size /\ index <= Next1(index)
    BY <1>1 DEF Next1, Smaller, Invalid
  <2>2. Size > 0 => Size \in 1..Size /\ Size <= Size
    BY <1>1
  <2>3. Support = <<>> \/ \E a, b \in 1..Size : Support = <<a, b>> /\ a <= b
    BY <1>6, <2>1, <2>2 DEF Support, SeekSupport, LinearSupport
  <2> QED
    BY <1>2, <1>3, <1>6, <2>3
<1> QED
  BY <1>5, <1>6

\* In ascending samples, a later one has a later timestamp.
LEMMA AscendingUpTo ==
    ASSUME Ascending(samples), \A i \in 1..Size : samples[i] \in Nat,
           NEW i \in 1..Size, NEW j \in 1..Size, i <= j
    PROVE  samples[i] <= samples[j]
BY DEF Ascending, Size

\* The data lie between the samples found and the next one, within the window.
LEMMA SupportClosest ==
    ASSUME TypeOK, SearchFindsInterval, pc = "found", Ascending(samples), Support # <<>>,
           samples[1] <= target
    PROVE  /\ P1 <= target /\ (P2 = P1 \/ target < P2)
           /\ \A k \in 1..Size : samples[k] <= P1 \/ (target < samples[k] /\ P2 <= samples[k])
           /\ kind = "linear" /\ access = "linear"
                => target - P1 <= Window /\ P2 - target <= Window
<1>1. /\ Size \in Nat /\ target \in Nat /\ Window \in Nat
      /\ \A i \in 1..Size : samples[i] \in Nat
  BY SampleTyped, SearchAssumption DEF TypeOK, Size
<1>2. Size > 0
  <2>1. \A i \in 1..Len(Support) : Support[i] \in 1..Size
    BY SupportSound
  <2> QED
    BY <1>1, <2>1 DEF Support, CubicSupport, LinearSupport, SeekSupport, TypeOK, Invalid
<1>3. /\ index \in 1..Size /\ samples[index] <= target
      /\ index < Size => target < samples[index + 1]
  <2>1. samples[1] \in Nat /\ ~(target < samples[1])
    BY <1>1, <1>2
  <2>2. index # Invalid
    BY <1>2, <2>1 DEF SearchFindsInterval
  <2> QED
    BY <2>2 DEF SearchFindsInterval, TypeOK, Invalid
<1>4. CASE P1 = samples[index] /\ P2 = samples[index]
  <2>1. ASSUME NEW k \in 1..Size PROVE samples[k] <= P1 \/ target < samples[k]
    <3>1. CASE k <= index
      BY <1>1, <1>3, <1>4, <3>1, AscendingUpTo
    <3>2. CASE ~(k <= index)
      <4>1. index + 1 \in 1..Size /\ index + 1 <= k /\ index < Size
        BY <1>1, <1>3, <3>2
      <4>2. samples[index + 1] <= samples[k]
        BY <1>1, <4>1, AscendingUpTo
      <4> QED
        BY <1>1, <1>3, <4>1, <4>2
    <3> QED
      BY <3>1, <3>2
  <2>2. kind = "linear" /\ access = "linear" => target - P1 <= Window
    BY <1>1, <1>3, <1>4 DEF Support, LinearSupport, Invalid
  <2>3. \A k \in 1..Size : target < samples[k] => P2 <= samples[k]
    BY <1>1, <1>3, <1>4
  <2> QED
    BY <1>1, <1>3, <1>4, <2>1, <2>2, <2>3
<1>5. CASE /\ index < Size
           /\ P1 = samples[index] /\ P2 = samples[index + 1]
           /\ kind = "linear" /\ access = "linear"
                => target - P1 <= Window /\ P2 - target <= Window
  <2>1. ASSUME NEW k \in 1..Size
        PROVE  samples[k] <= P1 \/ (target < samples[k] /\ P2 <= samples[k])
    <3>1. CASE k <= index
      BY <1>1, <1>3, <1>5, <3>1, AscendingUpTo
    <3>2. CASE ~(k <= index)
      <4>1. index + 1 \in 1..Size /\ index + 1 <= k
        BY <1>1, <1>3, <3>2
      <4>2. samples[index + 1] <= samples[k]
        BY <1>1, <4>1, AscendingUpTo
      <4> QED
        BY <1>1, <1>3, <1>5, <4>1, <4>2
    <3> QED
      BY <3>1, <3>2
  <2> QED
    BY <1>1, <1>3, <1>5, <2>1
<1>6. /\ index < Size => Next1(index) = index + 1
      /\ ~(index < Size) => Next1(index) = index
  BY <1>1, <1>3 DEF Next1, Smaller
<1>7. CASE kind = "cubic"
  <2>1. P1 = samples[index] /\ P2 = samples[Next1(index)]
    BY <1>3, <1>7 DEF P1, P2, Support, CubicSupport, Invalid
  <2> QED
    BY <1>4, <1>5, <1>6, <1>7, <2>1
<1>8. CASE kind # "cubic"
  <2>1. Support = <<index, index>> \/ Support = <<index, Next1(index)>>
    BY <1>3, <1>8 DEF Support, LinearSupport, SeekSupport, Invalid
  <2>2. CASE Support = <<index, index>>
    BY <1>4, <1>8, <2>2 DEF P1, P2
  <2>3. CASE Support = <<index, Next1(index)>> /\ ~(index < Size)
    BY <1>4, <1>6, <1>8, <2>3 DEF P1, P2
  <2>4. CASE Support = <<index, Next1(index)>> /\ index < Size
    <3>1. P1 = samples[index] /\ P2 = samples[index + 1] /\ index # index + 1
      BY <1>3, <1>6, <1>8, <2>4 DEF P1, P2
    <3>2. ASSUME access = "linear" PROVE target - P1 <= Window /\ P2 - target <= Window
      <4>1. Support = LinearSupport /\ samples[index + 1] \in Nat
        BY <1>1, <1>3, <1>8, <2>4, <3>2 DEF Support
      <4>2. /\ ~(target - samples[index] > Window)
            /\ ~(samples[index + 1] - target > Window)
        <5>1. LinearSupport # <<>> /\ LinearSupport # <<index, index>>
          BY <1>6, <2>4, <3>1, <4>1
        <5>2. index # Invalid /\ Next1(index) = index + 1
          BY <1>3, <1>6, <2>4 DEF Invalid
        <5> QED
          BY <5>1, <5>2 DEF LinearSupport
      <4> QED
        BY <1>1, <1>3, <3>1, <4>1, <4>2
    <3> QED
      BY <1>5, <2>4, <3>1, <3>2
  <2> QED
    BY <2>1, <2>2, <2>3, <2>4
<1> QED
  BY <1>7, <1>8

-----------------------------------------------------------------------------
(***************************************************************************)
(* The search keeps the invariant.                                         *)
(***************************************************************************)

\* What a search that is found, or goes on, has to leave.
SearchSound(t) ==
    /\ index' \in 0..Size /\ low' \in 0..Size /\ high' \in 0..Size
    /\ pc' \in {"linear", "binary", "found"}
    /\ pc' = "linear" =>
          index' # Invalid /\ samples[index'] <= t /\ t < samples[Size]
    /\ pc' = "binary" =>
          1 <= low' /\ low' < high' /\ samples[low'] <= t /\ t < samples[high']
    /\ pc' = "found" /\ Ascending(samples) =>
          IF index' = Invalid
          THEN Size > 0 => t < samples[1]
          ELSE samples[index'] <= t /\ (index' < Size => t < samples[index' + 1])

\* A binary search that starts around the timestamp, or at the first sample.
LEMMA BinaryStarts ==
    ASSUME TypeOK, NEW t \in Nat, NEW lo \in 1..Size, NEW hi \in 1..Size,
           lo <= hi, samples[lo] <= t \/ lo = 1,
           t < samples[hi], t < samples[Size],
           SearchBinary(t, lo, hi)
    PROVE  SearchSound(t)
<1>1. /\ Size \in Nat /\ Size > 0
      /\ \A i \in 1..Size : samples[i] \in Nat
      /\ low \in 0..Size /\ high \in 0..Size /\ index \in 0..Size
  BY SampleTyped DEF TypeOK
<1>2. CASE /\ samples[lo] > t \/ samples[hi] < t
           /\ FoundAt(Invalid)
  BY <1>1, <1>2 DEF SearchSound, FoundAt, Invalid
<1>3. CASE samples[1] = t /\ FoundAt(1)
  <2>1. 1 < Size /\ Ascending(samples) => t < samples[2]
    BY <1>1, <1>3 DEF Ascending, Size
  <2> QED
    BY <1>1, <1>3, <2>1 DEF SearchSound, FoundAt, Invalid
<1>4. CASE /\ samples[lo] <= t /\ t <= samples[hi]
           /\ pc' = "binary"
           /\ low' = lo
           /\ high' = hi
           /\ UNCHANGED index
  <2>1. lo # hi
    BY <1>1, <1>4
  <2>2. lo < hi
    BY <1>1, <2>1
  <2> QED
    BY <1>1, <1>4, <2>2 DEF SearchSound
<1> QED
  BY <1>1, <1>2, <1>3, <1>4 DEF SearchBinary

\* A search that starts is found at once, or goes on between samples around t.
LEMMA SearchStarts ==
    ASSUME TypeOK, NEW t \in Nat, StartSearch(t)
    PROVE  SearchSound(t)
<1>1. /\ Size \in Nat
      /\ \A i \in 1..Size : samples[i] \in Nat
      /\ low \in 0..Size /\ high \in 0..Size /\ index \in 0..Size
  BY SampleTyped DEF TypeOK
<1>2. CASE Size = 0 /\ FoundAt(Invalid)
  BY <1>1, <1>2 DEF SearchSound, FoundAt, Invalid
<1>3. CASE Size > 0 /\ t >= samples[Size] /\ FoundAt(Size)
  BY <1>1, <1>3 DEF SearchSound, FoundAt, Invalid
<1>4. CASE Size > 0 /\ t < samples[Size] /\ index = Invalid /\ SearchBinary(t, 1, Size)
  <2>1. 1 \in 1..Size /\ Size \in 1..Size /\ 1 <= Size
    BY <1>1, <1>4
  <2> QED
    BY <1>4, <2>1, BinaryStarts
<1>5. CASE /\ Size > 0 /\ t < samples[Size]
           /\ index # Invalid
           /\ IF t < samples[index]
              THEN SearchBinary(t, 1, index)
              ELSE SearchBinary(t, index, Size)
  <2>1. /\ 1 \in 1..Size /\ Size \in 1..Size
        /\ index \in 1..Size /\ 1 <= index /\ index <= Size
    BY <1>1, <1>5 DEF Invalid
  <2>2. CASE t < samples[index]
    BY <1>5, <2>1, <2>2, BinaryStarts
  <2>3. CASE ~(t < samples[index])
    <3>1. samples[index] <= t
      BY <1>1, <2>1, <2>3
    <3> QED
      BY <1>5, <2>1, <2>3, <3>1, BinaryStarts
  <2> QED
    BY <2>2, <2>3
<1>6. CASE /\ t < samples[Size]
           /\ index # Invalid /\ ~IsFar(t)
           /\ pc' = "linear"
           /\ UNCHANGED <<index, low, high>>
  <2>1. samples[index] <= t
    BY <1>1, <1>6 DEF IsFar, Invalid
  <2> QED
    BY <1>1, <1>6, <2>1 DEF SearchSound
<1> QED
  BY <1>2, <1>3, <1>4, <1>5, <1>6 DEF StartSearch

\* A call of interpolate starts in an invariant state and leaves one.
LEMMA InterpolateKeeps ==
    ASSUME IInv, NEW t \in Nat, NEW a \in Accesses, Interpolate(t, a)
    PROVE  IInv'
<1>1. SearchSound(t)
  BY SearchStarts DEF IInv, Interpolate
<1>2. /\ samples' = samples /\ kind' = kind /\ cache' = cache
      /\ target' = t /\ access' = a
      /\ Size' = Size /\ (Ascending(samples))' = Ascending(samples)
  BY DEF Interpolate, data, Size
<1>3. TypeOK'
  BY <1>1, <1>2 DEF IInv, TypeOK, SearchSound
<1>4. Bracketed'
  BY <1>1, <1>2 DEF Bracketed, SearchSound
<1>5. SearchFindsInterval'
  BY <1>1, <1>2 DEF SearchFindsInterval, SearchSound
<1> QED
  BY <1>3, <1>4, <1>5 DEF IInv

\* An iteration of the linear search stays before a sample that is after the
\* timestamp, so that the end of the samples is never reached.
LEMMA LinearStepKeeps ==
    ASSUME IInv, LinearStep
    PROVE  IInv'
<1>1. /\ samples' = samples /\ kind' = kind /\ cache' = cache
      /\ target' = target /\ access' = access /\ low' = low /\ high' = high
      /\ Size' = Size /\ (Ascending(samples))' = Ascending(samples)
      /\ pc = "linear"
  BY DEF LinearStep, data, Size
<1>2. /\ Size \in Nat /\ index \in 1..Size /\ target \in Nat
      /\ \A i \in 1..Size : samples[i] \in Nat
      /\ samples[index] <= target /\ target < samples[Size]
  BY <1>1, SampleTyped DEF IInv, TypeOK, Bracketed, Invalid
<1>3. CASE /\ index < Size /\ samples[index + 1] <= target
           /\ index' = index + 1 /\ pc' = pc
  <2>1. TypeOK'
    BY <1>1, <1>2, <1>3 DEF IInv, TypeOK, Invalid
  <2>2. Bracketed' /\ SearchFindsInterval'
    BY <1>1, <1>2, <1>3 DEF Bracketed, SearchFindsInterval
  <2> QED
    BY <2>1, <2>2 DEF IInv
<1>4. CASE /\ ~(index < Size /\ samples[index + 1] <= target)
           /\ index' = index /\ pc' = "found"
  <2>1. TypeOK'
    BY <1>1, <1>2, <1>4 DEF IInv, TypeOK, Invalid
  <2>2. Bracketed'
    BY <1>4 DEF Bracketed
  <2>3. index < Size => target < samples[index + 1]
    BY <1>2, <1>4
  <2>4. SearchFindsInterval'
    BY <1>1, <1>2, <1>4, <2>3 DEF SearchFindsInterval, Invalid
  <2> QED
    BY <2>1, <2>2, <2>4 DEF IInv
<1> QED
  BY <1>3, <1>4 DEF LinearStep

\* An iteration of the binary search halves an interval that stays around the
\* timestamp, whatever the order of the samples in it.
LEMMA BinaryStepKeeps ==
    ASSUME IInv, BinaryStep
    PROVE  IInv'
<1>1. /\ samples' = samples /\ kind' = kind /\ cache' = cache
      /\ target' = target /\ access' = access
      /\ Size' = Size /\ (Ascending(samples))' = Ascending(samples)
      /\ pc = "binary"
  BY DEF BinaryStep, data, Size
<1>2. /\ Size \in Nat /\ low \in 1..Size /\ high \in 1..Size /\ low < high
      /\ index \in 0..Size /\ target \in Nat
      /\ \A i \in 1..Size : samples[i] \in Nat
      /\ samples[low] <= target /\ target < samples[high]
  BY <1>1, SampleTyped DEF IInv, TypeOK, Bracketed
<1>3. Middle \in 1..Size /\ low <= Middle /\ Middle < high
  BY <1>2, MiddleInside DEF Middle
<1>4. CASE Encloses(Middle)
  <2>1. pc' = "found" /\ index' = Middle /\ low' = low /\ high' = high
    BY <1>2, <1>4 DEF BinaryStep, FoundAt
  <2>2. samples[Middle] <= target /\ target < samples[Middle + 1]
    BY <1>3, <1>4 DEF Encloses
  <2>3. TypeOK'
    BY <1>1, <1>2, <1>3, <2>1 DEF IInv, TypeOK
  <2>4. Bracketed'
    BY <2>1 DEF Bracketed
  <2>5. SearchFindsInterval'
    BY <1>1, <1>2, <1>3, <2>1, <2>2 DEF SearchFindsInterval, Invalid
  <2> QED
    BY <2>3, <2>4, <2>5 DEF IInv
<1>5. CASE ~Encloses(Middle) /\ target < samples[Middle]
  <2>1. high' = Middle /\ low' = low /\ pc' = pc /\ index' = index
    BY <1>2, <1>5 DEF BinaryStep
  <2>2. low < Middle
    BY <1>2, <1>3, <1>5
  <2>3. TypeOK'
    BY <1>1, <1>2, <1>3, <2>1, <2>2 DEF IInv, TypeOK
  <2>4. Bracketed' /\ SearchFindsInterval'
    BY <1>1, <1>2, <1>5, <2>1 DEF Bracketed, SearchFindsInterval
  <2> QED
    BY <2>3, <2>4 DEF IInv
<1>6. CASE ~Encloses(Middle) /\ ~(target < samples[Middle])
  <2>1. low' = Middle /\ high' = high /\ pc' = pc /\ index' = index
    BY <1>2, <1>6 DEF BinaryStep
  <2>2. TypeOK'
    BY <1>1, <1>2, <1>3, <2>1 DEF IInv, TypeOK
  <2>3. samples[Middle] <= target
    BY <1>2, <1>3, <1>6
  <2>4. Bracketed' /\ SearchFindsInterval'
    BY <1>1, <1>2, <2>1, <2>3 DEF Bracketed, SearchFindsInterval
  <2> QED
    BY <2>2, <2>4 DEF IInv
<1> QED
  BY <1>4, <1>5, <1>6

\* The end of a call leaves the index for the next one.
LEMMA FinishKeeps ==
    ASSUME IInv, Finish
    PROVE  IInv'
<1>1. /\ samples' = samples /\ kind' = kind /\ index' = index /\ pc' = "idle"
      /\ target' = 0 /\ access' = "linear" /\ low' = 0 /\ high' = 0
      /\ cache' = [timestamp |-> target, access |-> access]
      /\ Size' = Size /\ Size \in Nat
  BY SampleTyped DEF IInv, Finish, data, Size
<1>2. TypeOK'
  BY <1>1 DEF IInv, TypeOK, Accesses
<1> QED
  BY <1>1, <1>2 DEF IInv, Bracketed, SearchFindsInterval

\* Samples come and go between calls: the index that is kept stays within them.
LEMMA ChangingKeeps ==
    ASSUME IInv, Changing
    PROVE  IInv'
<1>1. CASE \E t \in 0..MaxTime : Record(t)
  <2>1. PICK t \in 0..MaxTime : Record(t)
    BY <1>1
  <2>2. /\ pc = "idle" /\ samples' = UpsertLast(samples, t)
        /\ UNCHANGED <<kind, index, cache, pc, target, access, low, high>>
    BY <2>1 DEF Record, search
  <2>3. samples' \in Seq(Nat)
    BY <2>2, UpsertTyped DEF IInv, TypeOK
  <2>4. Size' \in Nat /\ Size \in Nat /\ Size <= Size'
    BY <2>2, <2>3 DEF IInv, TypeOK, Size, UpsertLast
  <2>5. TypeOK'
    BY <2>2, <2>3, <2>4 DEF IInv, TypeOK
  <2> QED
    BY <2>2, <2>5 DEF IInv, Bracketed, SearchFindsInterval
<1>2. CASE \E t \in 0..MaxTime : Augment(t)
  <2>1. PICK t \in 0..MaxTime : Augment(t)
    BY <1>2
  <2>2. /\ pc = "idle" /\ samples = <<>>
        /\ samples' \in Sorted(ProcedureTimes(t)) /\ t \in Nat
        /\ UNCHANGED <<kind, index, cache, pc, target, access, low, high>>
    BY <2>1, BoundsAssumption DEF Augment, search
  <2>3. samples' \in Seq(Nat)
    BY <2>2, AugmentedTyped
  <2>4. Size' \in Nat /\ Size = 0
    BY <2>2, <2>3 DEF Size
  <2>5. TypeOK'
    BY <2>2, <2>3, <2>4 DEF IInv, TypeOK
  <2> QED
    BY <2>2, <2>5 DEF IInv, Bracketed, SearchFindsInterval
<1>3. CASE Clear
  <2>1. /\ pc = "idle" /\ samples' = <<>> /\ index' = 0
        /\ cache' = [cache EXCEPT !.timestamp = NoTime]
        /\ UNCHANGED <<kind, pc, target, access, low, high>>
    BY <1>3 DEF Clear, search, Invalid
  <2>2. Size' = 0 /\ samples' \in Seq(Nat)
    BY <2>1 DEF Size
  <2>3. low = 0 /\ high = 0
    BY <2>1 DEF IInv, Bracketed
  <2>4. TypeOK'
    BY <2>1, <2>2, <2>3 DEF IInv, TypeOK
  <2> QED
    BY <2>1, <2>4 DEF IInv, Bracketed, SearchFindsInterval
<1> QED
  BY <1>1, <1>2, <1>3 DEF Changing

-----------------------------------------------------------------------------
(***************************************************************************)
(* The theorems.                                                           *)
(***************************************************************************)

\* The inductive invariant of the search, in samples of any order.
THEOREM SpecIInv == Spec => []IInv
<1>1. Init => IInv
  <2> SUFFICES ASSUME Init PROVE IInv
    OBVIOUS
  <2>1. samples = <<>> /\ Size = 0 /\ <<>> \in Seq(Nat)
    BY DEF Init, Size
  <2>2. TypeOK
    BY <2>1 DEF Init, TypeOK, NoTime, Invalid, Accesses
  <2> QED
    BY <2>2 DEF Init, IInv, Bracketed, SearchFindsInterval
<1>2. IInv /\ [Next]_vars => IInv'
  <2> SUFFICES ASSUME IInv, [Next]_vars PROVE IInv'
    OBVIOUS
  <2>1. CASE Changing
    BY <2>1, ChangingKeeps
  <2>2. CASE \E t \in 0..MaxTime, a \in Accesses : Interpolate(t, a)
    <3>1. PICK t \in 0..MaxTime, a \in Accesses : Interpolate(t, a)
      BY <2>2
    <3>2. t \in Nat
      BY <3>1, BoundsAssumption
    <3> QED
      BY <3>1, <3>2, InterpolateKeeps
  <2>3. CASE LinearStep
    BY <2>3, LinearStepKeeps
  <2>4. CASE BinaryStep
    BY <2>4, BinaryStepKeeps
  <2>5. CASE Finish
    BY <2>5, FinishKeeps
  <2>6. CASE UNCHANGED vars
    <3>1. /\ UNCHANGED <<kind, samples, index, cache, pc, target, access, low, high>>
          /\ Size' = Size /\ (Ascending(samples))' = Ascending(samples)
      BY <2>6 DEF vars, data, search, Size
    <3>2. TypeOK' /\ Bracketed' /\ SearchFindsInterval'
      BY <3>1 DEF IInv, TypeOK, Bracketed, SearchFindsInterval
    <3> QED
      BY <3>2 DEF IInv
  <2> QED
    BY <2>1, <2>2, <2>3, <2>4, <2>5, <2>6 DEF Next, Searching
<1> QED
  BY <1>1, <1>2, PTL DEF Spec

\* Every index stays within the samples, whatever is recorded, added or removed
\* between two searches, for every window and threshold.
THEOREM TypeCorrect == Spec => []TypeOK
<1>1. IInv => TypeOK
  BY DEF IInv
<1> QED
  BY <1>1, SpecIInv, PTL

\* In ascending samples a search finds the last sample that is not after the
\* timestamp, from whatever index the previous search has left.
THEOREM FindsInterval == Spec => []SearchFindsInterval
<1>1. IInv => SearchFindsInterval
  BY DEF IInv
<1> QED
  BY <1>1, SpecIInv, PTL

\* Every iteration of the binary search makes its interval smaller, in samples of any
\* number and order, although the middle stays in the interval.
THEOREM Advances == Spec => []SearchAdvances
<1>1. IInv => SearchAdvances
  <2> SUFFICES ASSUME IInv, pc = "binary", ~Encloses(Middle)
               PROVE  IF target < samples[Middle] THEN Middle < high ELSE low < Middle
    BY DEF SearchAdvances
  <2>1. /\ low \in 1..Size /\ high \in 1..Size /\ low < high
        /\ Size \in Nat /\ target \in Nat
        /\ \A i \in 1..Size : samples[i] \in Nat
        /\ samples[low] <= target /\ target < samples[high]
    BY SampleTyped DEF IInv, TypeOK, Bracketed
  <2>2. Middle \in Nat /\ low <= Middle /\ Middle < high
    BY <2>1, MiddleInside DEF Middle
  <2>3. Middle \in 1..Size /\ Middle + 1 \in 1..Size
    BY <2>1, <2>2
  <2>4. CASE ~(target < samples[Middle])
    <3>1. ~(target < samples[Middle + 1])
      BY <2>1, <2>2, <2>3, <2>4 DEF Encloses
    <3>2. Middle = low => Middle + 1 # high
      BY <2>1, <3>1
    <3> QED
      BY <2>1, <2>2, <2>3, <3>1, <3>2 DEF Middle
  <2> QED
    BY <2>2, <2>4
<1> QED
  BY <1>1, SpecIInv, PTL

\* Only samples that exist are used, and the position is known once there is one; in
\* ascending samples, the data at a timestamp from the first sample on lie between the
\* samples next to it, as far as they are within the window.
THEOREM Supports == Spec => []SupportSurrounds
<1>1. IInv => SupportSurrounds
  <2> SUFFICES ASSUME IInv, pc = "found" PROVE SupportSurrounds
    BY DEF SupportSurrounds
  <2>1. /\ \A i \in 1..Len(Support) : Support[i] \in 1..Size
        /\ \A i, j \in 1..Len(Support) : i <= j => Support[i] <= Support[j]
        /\ kind = "cubic" => (Support = <<>> <=> samples = <<>>)
    BY SupportSound DEF IInv
  <2>2. \A i \in 1..Size : samples[i] \in Nat
    BY SampleTyped DEF IInv
  <2>3. ASSUME Ascending(samples), NEW i \in 1..Len(Support), NEW j \in 1..Len(Support), i <= j
        PROVE  samples[Support[i]] <= samples[Support[j]]
    BY <2>1, <2>2, <2>3, AscendingUpTo
  <2>4. ASSUME Ascending(samples), Support # <<>>, samples[1] <= target
        PROVE  /\ P1 <= target /\ (P2 = P1 \/ target < P2)
               /\ \A k \in 1..Size :
                    samples[k] <= P1 \/ (target < samples[k] /\ P2 <= samples[k])
               /\ kind = "linear" /\ access = "linear"
                    => target - P1 <= Window /\ P2 - target <= Window
    BY <2>4, SupportClosest DEF IInv
  <2> QED
    BY <2>1, <2>3, <2>4 DEF SupportSurrounds
<1> QED
  BY <1>1, SpecIInv, PTL
=============================================================================
