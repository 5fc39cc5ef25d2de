------------------------ MODULE SqlMigration_proofs ------------------------
(***************************************************************************)
(* Proofs about SqlMigration, for any number of releases and steps: what   *)
(* is registered has been applied, whatever fails; and, as long as the   *)
(* code does not go on after a failure, the steps are applied in order,    *)
(* upgrades are backed up and logbooks of newer releases are not opened.   *)
(***************************************************************************)
EXTENDS SqlMigration, TLAPS

-----------------------------------------------------------------------------
(***************************************************************************)
(* The steps.                                                              *)
(***************************************************************************)

\* The step that is next is one of the file, and of a release that the application knows.
LEMMA CurrentIsStep ==
    ASSUME TypeOK, phase \in Files, ~AtEnd
    PROVE  /\ Current \in Steps
           /\ Current[1] = phase /\ Release(Current) = at[1]
           /\ at[1] \in 1 .. app /\ Release(Current) <= app
           /\ IsSql(Current) <=> phase \in SqlFiles
BY BoundsAssumption DEF TypeOK, AtEnd, Current, Steps, Release, IsSql

LEMMA AdvanceTyped ==
    ASSUME TypeOK, ~AtEnd, Advance
    PROVE  at' \in (1 .. Releases + 1) \X (1 .. StepsPerRelease)
BY BoundsAssumption DEF TypeOK, AtEnd, Advance

LEMMA FirstTyped == First \in (1 .. Releases + 1) \X (1 .. StepsPerRelease)
BY BoundsAssumption DEF First

\* What a transaction does to its steps, and to the others.
LEMMA ApplyEffect ==
    ASSUME TypeOK, NEW S \in SUBSET Steps, Apply(S)
    PROVE  /\ version' \in 0 .. Releases
           /\ effects' \in [Steps -> Nat]
           /\ migr' \in [Steps -> {"none", "failed", "done"}]
           /\ \A s \in S : effects'[s] = effects[s] + 1 /\ migr'[s] = "done"
           /\ \A s \in Steps \ S : effects'[s] = effects[s] /\ migr'[s] = migr[s]
<1>1. version' \in 0 .. Releases
  <2>1. CASE \E s \in S : IsBump(s) /\ version' = Release(s)
    BY <2>1, BoundsAssumption DEF Steps, Release
  <2>2. CASE version' = version
    BY <2>2 DEF TypeOK
  <2> QED
    BY <2>1, <2>2 DEF Apply
<1>2. effects' \in [Steps -> Nat] /\ migr' \in [Steps -> {"none", "failed", "done"}]
  BY DEF Apply, TypeOK
<1>3. \A s \in S : effects'[s] = effects[s] + 1 /\ migr'[s] = "done"
  BY DEF Apply
<1>4. \A s \in Steps \ S : effects'[s] = effects[s] /\ migr'[s] = migr[s]
  BY DEF Apply
<1> QED
  BY <1>1, <1>2, <1>3, <1>4

\* An attempt that fails does not undo a registration.
LEMMA FailedEffect ==
    ASSUME TypeOK, NEW t \in Steps, ~Done(t),
           migr' = [migr EXCEPT ![t] = "failed"] \/ UNCHANGED migr
    PROVE  /\ migr' \in [Steps -> {"none", "failed", "done"}]
           /\ \A s \in Steps : Done(s)' <=> Done(s)
BY DEF TypeOK, Done

-----------------------------------------------------------------------------
(***************************************************************************)
(* What is registered has been applied, whatever happens.                  *)
(***************************************************************************)

\* A transaction that could not be committed holds no statement that is registered; a
\* location whose row is registered next is in the table, or in that transaction.
PendingSound ==
    /\ \A s \in pending : IsSql(s) => ~Done(s)
    /\ inserted => /\ phase = "csv" /\ ~AtEnd
                   /\ pending = {} => Applied(Current)

IInv == TypeOK /\ AppliedAsRegistered /\ PendingSound

LEMMA InitTyped == Init => IInv
<1> SUFFICES ASSUME Init PROVE IInv
  OBVIOUS
<1>1. TypeOK
  <2>1. app \in 1 .. Releases /\ version \in 0 .. Releases /\ disturbed \in Nat
    BY BoundsAssumption DEF Init
  <2>2. effects \in [Steps -> Nat] /\ migr \in [Steps -> {"none", "failed", "done"}]
    BY DEF Init
  <2>3. at \in (1 .. Releases + 1) \X (1 .. StepsPerRelease)
    BY FirstTyped DEF Init
  <2>4. /\ backups \subseteq 1 .. Releases /\ used \subseteq 1 .. Releases
        /\ pending \subseteq Steps
        /\ phase \in Files \cup {"closed", "backup", "open"}
        /\ ok \in BOOLEAN /\ inserted \in BOOLEAN
    BY DEF Init
  <2> QED
    BY <2>1, <2>2, <2>3, <2>4 DEF TypeOK
<1>2. AppliedAsRegistered
  BY DEF Init, AppliedAsRegistered, Applied, Done
<1>3. PendingSound
  BY DEF Init, PendingSound
<1> QED
  BY <1>1, <1>2, <1>3 DEF IInv

\* Closing the logbook, also after a failure that was registered.
LEMMA ClosesKeepsIInv ==
    ASSUME IInv, Closes, UNCHANGED <<app, version, effects, history, disturbed>>,
           migr' \in [Steps -> {"none", "failed", "done"}],
           \A s \in Steps : Done(s)' <=> Done(s)
    PROVE  IInv'
<1>1. TypeOK'
  BY FirstTyped DEF IInv, TypeOK, Closes, history
<1>2. AppliedAsRegistered'
  BY DEF IInv, AppliedAsRegistered, Applied
<1>3. PendingSound'
  BY DEF Closes, PendingSound
<1> QED
  BY <1>1, <1>2, <1>3 DEF IInv

\* A step that is applied together with its registration, and others with it.
LEMMA ApplyKeepsRegistered ==
    ASSUME IInv, NEW S \in SUBSET Steps, Apply(S), \A s \in S : IsSql(s) => ~Done(s)
    PROVE  AppliedAsRegistered'
<1> SUFFICES ASSUME NEW s \in Steps
             PROVE  IF IsSql(s) THEN effects'[s] = (IF Done(s)' THEN 1 ELSE 0)
                    ELSE Done(s)' => effects'[s] > 0
  BY DEF AppliedAsRegistered, Applied
<1>1. effects[s] \in Nat
  BY DEF IInv, TypeOK
<1>2. IF IsSql(s) THEN effects[s] = (IF Done(s) THEN 1 ELSE 0) ELSE Done(s) => effects[s] > 0
  BY DEF IInv, AppliedAsRegistered, Applied
<1>3. CASE s \in S
  BY <1>1, <1>2, <1>3, ApplyEffect DEF IInv, Done
<1>4. CASE s \notin S
  BY <1>2, <1>4, ApplyEffect DEF IInv, Done
<1> QED
  BY <1>3, <1>4

\* Every step keeps the invariant.
LEMMA NextTyped == IInv /\ [Next]_vars => IInv'
<1> SUFFICES ASSUME IInv, [Next]_vars PROVE IInv'
  OBVIOUS
<1> USE DEF file, history, csv
<1>1. CASE Close
  <2>1. \A s \in Steps : Done(s)' <=> Done(s)
    BY <1>1 DEF Close, Done
  <2> QED
    BY <1>1, <2>1, ClosesKeepsIInv DEF Close, IInv, TypeOK
<1>2. ASSUME NEW r \in 1 .. Releases, Install(r) PROVE IInv'
  BY <1>2 DEF Install, IInv, TypeOK, AppliedAsRegistered, PendingSound, Applied, Done, Current
<1>3. CASE Open
  <2>1. phase' \in {"backup", "logbook"} /\ at' = First
        /\ UNCHANGED <<app, file, history, csv, pending>>
    BY <1>3 DEF Open, Enters
  <2>3. disturbed' \in Nat
    BY <1>3 DEF Open, Disturbs, IInv, TypeOK
  <2>2. ~inserted
    BY <1>3 DEF Open, IInv, PendingSound
  <2> QED
    BY <2>1, <2>2, <2>3, FirstTyped
    DEF IInv, TypeOK, AppliedAsRegistered, PendingSound, Applied, Done, Files, SqlFiles
<1>4. CASE Backup
  <2>1. phase' = "logbook" /\ at' = First
        /\ UNCHANGED <<app, file, used, csv, pending>>
    BY <1>4 DEF Backup, Enters
  <2>2. backups' \subseteq 1 .. Releases /\ disturbed' \in Nat
    <3>1. backups \subseteq 1 .. Releases /\ disturbed \in Nat
      BY DEF IInv, TypeOK
    <3>2. CASE /\ backups' = backups \cup {r \in 1 .. Releases : Untouched(r)}
               /\ UNCHANGED disturbed
      BY <3>1, <3>2
    <3>3. CASE Disturbs /\ UNCHANGED backups
      BY <3>1, <3>3 DEF Disturbs
    <3> QED
      BY <1>4, <3>2, <3>3 DEF Backup
  <2>3. ~inserted
    BY <1>4 DEF Backup, IInv, PendingSound
  <2> QED
    BY <2>1, <2>2, <2>3, FirstTyped
    DEF IInv, TypeOK, AppliedAsRegistered, PendingSound, Applied, Done, Files, SqlFiles
<1>5. CASE Skip
  <2>1. ~AtEnd /\ ~inserted /\ Advance
        /\ UNCHANGED <<app, file, history, phase, csv, pending, disturbed>>
    BY <1>5 DEF Skip
  <2> QED
    BY <2>1, AdvanceTyped
    DEF IInv, TypeOK, AppliedAsRegistered, PendingSound, Applied, Done
<1>6. CASE ExecuteStep
  <2>1. /\ phase \in SqlFiles /\ ~AtEnd /\ ~Done(Current) /\ pending = {}
        /\ Apply({Current}) /\ Advance
        /\ UNCHANGED <<app, history, phase, csv, pending, disturbed>>
    BY <1>6 DEF ExecuteStep, InSql, IsApplied
  <2>2. Current \in Steps /\ ~inserted
    BY <2>1, CurrentIsStep DEF IInv, Files, SqlFiles, PendingSound
  <2>3. AppliedAsRegistered'
    BY <2>1, <2>2, ApplyKeepsRegistered
  <2>4. TypeOK'
    <3>1. {Current} \in SUBSET Steps
      BY <2>2
    <3>2. /\ version' \in 0 .. Releases
          /\ effects' \in [Steps -> Nat]
          /\ migr' \in [Steps -> {"none", "failed", "done"}]
      BY <2>1, <3>1, ApplyEffect DEF IInv
    <3> QED
      BY <2>1, <3>2, AdvanceTyped DEF IInv, TypeOK
  <2>5. PendingSound'
    BY <2>1, <2>2 DEF PendingSound
  <2> QED
    BY <2>3, <2>4, <2>5 DEF IInv
<1>7. CASE StepFails
  <2>1. Current \in Steps /\ ~Done(Current)
    BY <1>7, CurrentIsStep DEF StepFails, InSql, IsApplied, IInv, Files
  <2>2. migr' = [migr EXCEPT ![Current] = "failed"] \/ UNCHANGED migr
    BY <1>7 DEF StepFails
  <2> QED
    BY <1>7, <2>1, <2>2, FailedEffect, ClosesKeepsIInv DEF StepFails, RolledBack, IInv
<1>8. CASE RegistrationFails
  <2>1. /\ phase \in SqlFiles /\ ~AtEnd /\ ~Done(Current) /\ Advance
        /\ pending' \in {{}, {Current}} /\ disturbed' \in Nat
        /\ UNCHANGED <<app, file, history, phase, csv>>
    BY <1>8 DEF RegistrationFails, InSql, IsApplied, Disturbs, IInv, TypeOK
  <2>2. Current \in Steps /\ ~inserted
    BY <2>1, CurrentIsStep DEF IInv, Files, SqlFiles, PendingSound
  <2> QED
    BY <2>1, <2>2, AdvanceTyped
    DEF IInv, TypeOK, AppliedAsRegistered, PendingSound, Applied, Done
<1>9. CASE EndFile
  <2>1. phase' \in {"location", "csv"} /\ at' = First /\ phase \in SqlFiles
        /\ UNCHANGED <<app, file, history, csv, pending, disturbed>>
    BY <1>9 DEF EndFile, Enters
  <2>2. ~inserted
    BY <2>1 DEF IInv, PendingSound, SqlFiles
  <2> QED
    BY <2>1, <2>2, FirstTyped
    DEF IInv, TypeOK, AppliedAsRegistered, PendingSound, Applied, Done, Files, SqlFiles
<1>10. CASE InsertLocation
  <2>1. /\ phase = "csv" /\ ~AtEnd /\ ~Done(Current) /\ inserted' = TRUE /\ ok' = TRUE
        /\ UNCHANGED <<app, version, migr, history, phase, at, disturbed>>
    BY <1>10 DEF InsertLocation, InCsv, IsApplied
  <2>2. Current \in Steps /\ ~IsSql(Current)
    BY <2>1, CurrentIsStep DEF IInv, Files, SqlFiles
  <2>3. CASE pending = {}
    <3>1. effects' = [effects EXCEPT ![Current] = @ + 1] /\ pending' = {}
      BY <1>10, <2>3 DEF InsertLocation
    <3>2. TypeOK' /\ effects'[Current] > 0
      BY <2>1, <2>2, <3>1 DEF IInv, TypeOK
    <3>3. AppliedAsRegistered'
      BY <2>1, <2>2, <3>1, <3>2 DEF IInv, TypeOK, AppliedAsRegistered, Applied, Done
    <3>4. PendingSound'
      BY <2>1, <3>1, <3>2 DEF PendingSound, AtEnd, Applied, Current
    <3> QED
      BY <3>2, <3>3, <3>4 DEF IInv
  <2>4. CASE pending # {}
    <3>1. pending' = pending \cup {Current} /\ UNCHANGED effects
      BY <1>10, <2>4 DEF InsertLocation
    <3> QED
      BY <2>1, <2>2, <3>1
      DEF IInv, TypeOK, AppliedAsRegistered, PendingSound, AtEnd, Applied, Done
  <2> QED
    BY <2>3, <2>4
<1>11. CASE LocationFails
  <2>1. /\ phase = "csv" /\ ~AtEnd /\ ~Done(Current) /\ ~inserted /\ ok' = FALSE /\ Advance
        /\ UNCHANGED <<app, version, effects, history, phase, inserted, pending, disturbed>>
    BY <1>11 DEF LocationFails, InCsv, IsApplied
  <2>2. Current \in Steps
    BY <2>1, CurrentIsStep DEF IInv, Files
  <2>3. migr' = [migr EXCEPT ![Current] = "failed"] \/ UNCHANGED migr
    BY <1>11 DEF LocationFails
  <2>4. /\ migr' \in [Steps -> {"none", "failed", "done"}]
        /\ \A s \in Steps : Done(s)' <=> Done(s)
    BY <2>1, <2>2, <2>3, FailedEffect DEF IInv
  <2>5. TypeOK'
    BY <2>1, <2>4, AdvanceTyped DEF IInv, TypeOK
  <2>6. AppliedAsRegistered'
    BY <2>1, <2>4 DEF IInv, AppliedAsRegistered, Applied
  <2>7. PendingSound'
    BY <2>1, <2>4 DEF IInv, TypeOK, PendingSound
  <2> QED
    BY <2>5, <2>6, <2>7 DEF IInv
<1>12. CASE RegisterLocation
  <2>1. /\ phase = "csv" /\ ~AtEnd /\ inserted /\ inserted' = FALSE /\ Advance
        /\ UNCHANGED <<app, history, phase, ok, disturbed>>
    BY <1>12 DEF RegisterLocation, InCsv
  <2>2. Current \in Steps /\ ~IsSql(Current)
    BY <2>1, CurrentIsStep DEF IInv, Files, SqlFiles
  <2>3. CASE /\ pending = {} /\ migr' = [migr EXCEPT ![Current] = "done"]
             /\ UNCHANGED <<version, effects, pending, disturbed>>
    <3>1. Applied(Current)
      BY <2>1, <2>3 DEF IInv, PendingSound
    <3>2. TypeOK'
      BY <2>1, <2>2, <2>3, AdvanceTyped DEF IInv, TypeOK
    <3>3. AppliedAsRegistered'
      BY <2>2, <2>3, <3>1 DEF IInv, TypeOK, AppliedAsRegistered, Applied, Done
    <3>4. PendingSound'
      BY <2>1, <2>3 DEF PendingSound
    <3> QED
      BY <3>2, <3>3, <3>4 DEF IInv
  <2>4. CASE Apply(pending) /\ pending' = {}
    <3>1. pending \in SUBSET Steps /\ \A s \in pending : IsSql(s) => ~Done(s)
      BY DEF IInv, TypeOK, PendingSound
    <3>2. /\ version' \in 0 .. Releases
          /\ effects' \in [Steps -> Nat]
          /\ migr' \in [Steps -> {"none", "failed", "done"}]
      BY <2>4, <3>1, ApplyEffect DEF IInv
    <3>3. TypeOK'
      BY <2>1, <2>4, <3>2, AdvanceTyped DEF IInv, TypeOK
    <3>4. AppliedAsRegistered'
      BY <2>4, <3>1, ApplyKeepsRegistered
    <3>5. PendingSound'
      BY <2>1, <2>4 DEF PendingSound
    <3> QED
      BY <3>3, <3>4, <3>5 DEF IInv
  <2>5. CASE UNCHANGED <<file, pending, disturbed>>
    BY <2>1, <2>5, AdvanceTyped
    DEF IInv, TypeOK, AppliedAsRegistered, PendingSound, Applied, Done
  <2> QED
    BY <1>12, <2>3, <2>4, <2>5 DEF RegisterLocation
<1>13. CASE Connect
  <2>1. /\ phase' = "open" /\ ~inserted /\ used' \in {used, used \cup {app}}
        /\ UNCHANGED <<app, file, backups, at, csv, pending, disturbed>>
    BY <1>13 DEF Connect
  <2> QED
    BY <2>1 DEF IInv, TypeOK, AppliedAsRegistered, PendingSound, Applied, Done, Files, SqlFiles
<1>14. CASE NotConnected
  <2>1. \A s \in Steps : Done(s)' <=> Done(s)
    BY <1>14 DEF NotConnected, Done
  <2> QED
    BY <1>14, <2>1, ClosesKeepsIInv DEF NotConnected, IInv, TypeOK
<1>15. CASE UNCHANGED vars
  BY <1>15 DEF vars, IInv, TypeOK, AppliedAsRegistered, PendingSound, Applied, Done, Current, AtEnd
<1> QED
  BY <1>1, <1>2, <1>3, <1>4, <1>5, <1>6, <1>7, <1>8, <1>9, <1>10, <1>11, <1>12, <1>13,
     <1>14, <1>15 DEF Next, Proceeding, Failing

\* The variables keep their types, for all releases and whatever fails.
THEOREM TypeCorrect == Spec => []TypeOK
<1>1. IInv => TypeOK
  BY DEF IInv
<1> QED
  BY <1>1, InitTyped, NextTyped, PTL DEF Spec

\* What is registered has been applied, and statements exactly once, for all releases and
\* whatever fails (execute, registerMigration).
THEOREM RegisteredCorrect == Spec => []AppliedAsRegistered
<1>1. IInv => AppliedAsRegistered
  BY DEF IInv
<1> QED
  BY <1>1, InitTyped, NextTyped, PTL DEF Spec

-----------------------------------------------------------------------------
(***************************************************************************)
(* As long as the code has not gone on after a failure.                    *)
(***************************************************************************)

\* The steps of the current file that are behind.
Passed(s) == s[2] < at[1] \/ (s[2] = at[1] /\ s[3] < at[2])

\* The steps of a file are registered in their order, and those for the logbook before
\* those for the locations of the same release.
InOrder ==
    /\ pending = {}
    /\ \A s, t \in Steps : IsSql(t) /\ Done(t) /\ Before(s, t) => Done(s)
    /\ \A s, t \in Steps :
          s[1] = "logbook" /\ t[1] = "location" /\ Done(t) /\ Release(s) <= Release(t)
              => Done(s)

\* What has been done so far of the current migration.
Progress ==
    /\ phase \in SqlFiles => \A s \in Steps : s[1] = phase /\ Passed(s) => Done(s)
    /\ phase \in {"location", "csv", "open"} =>
          \A s \in Steps : s[1] = "logbook" /\ Release(s) <= app => Done(s)
    /\ phase \in {"csv", "open"} =>
          \A s \in Steps : s[1] = "location" /\ Release(s) <= app => Done(s)

\* The version goes back only when no later step for the locations has been applied.
VersionSound ==
    /\ \A t \in Steps : t[1] = "location" /\ IsBump(t) /\ Done(t) => Release(t) <= version
    /\ version # 0 => \E t \in Steps : IsBump(t) /\ Done(t) /\ Release(t) = version

\* A logbook that has been used with a release has all statements of it, and is backed up
\* when it is migrated to a later one.
UpgradesSound ==
    /\ \A r \in used : \A s \in Steps : IsSql(s) /\ Release(s) <= r => Done(s)
    /\ phase # "closed" => \A r \in used : r <= app
    /\ phase \in Files \cup {"open"} => \A r \in used : r < app => r \in backups
    /\ \A r \in used : Untouched(r) \/ r \in backups

CalmInv == Calm => InOrder /\ Progress /\ VersionSound /\ UpgradesSound

\* Once disturbed, always disturbed.
LEMMA CalmBefore ==
    ASSUME IInv, [Next]_vars, Calm'
    PROVE  Calm
<1>1. disturbed' = disturbed \/ disturbed' = disturbed + 1
  BY DEF Next, Proceeding, Failing, Open, Backup, Skip, ExecuteStep, EndFile, InsertLocation,
         RegisterLocation, Connect, NotConnected, StepFails, Close, RegistrationFails,
         LocationFails, Install, Disturbs, vars
<1> QED
  BY <1>1 DEF Calm, IInv, TypeOK

\* Behind the next step are those that were behind before, and the one that was next.
LEMMA AdvancePasses ==
    ASSUME TypeOK, phase \in Files, ~AtEnd, Advance,
           NEW s \in Steps, s[1] = phase, Passed(s)'
    PROVE  Passed(s) \/ s = Current
<1>1. s[2] \in Nat /\ s[3] \in 1 .. StepsPerRelease /\ s = <<s[1], s[2], s[3]>>
  BY DEF Steps
<1>2. at[1] \in Nat /\ at[2] \in 1 .. StepsPerRelease
  BY BoundsAssumption DEF TypeOK
<1>3. CASE at[2] < StepsPerRelease
  <2>1. at'[1] = at[1] /\ at'[2] = at[2] + 1
    BY <1>3 DEF Advance
  <2>2. Passed(s) \/ (s[2] = at[1] /\ s[3] = at[2])
    BY <1>1, <1>2, <2>1, BoundsAssumption DEF Passed
  <2> QED
    BY <1>1, <2>2 DEF Current
<1>4. CASE ~(at[2] < StepsPerRelease)
  <2>1. at'[1] = at[1] + 1 /\ at'[2] = 1 /\ at[2] = StepsPerRelease
    BY <1>2, <1>4, BoundsAssumption DEF Advance
  <2>2. Passed(s) \/ (s[2] = at[1] /\ s[3] = at[2])
    BY <1>1, <1>2, <2>1, BoundsAssumption DEF Passed
  <2> QED
    BY <1>1, <2>2 DEF Current
<1> QED
  BY <1>3, <1>4

\* At the start of a file nothing is behind.
LEMMA NothingPassed ==
    ASSUME at' = First, NEW s \in Steps
    PROVE  ~Passed(s)'
<1>1. s[2] \in Nat /\ s[3] \in Nat /\ s[2] >= 1 /\ s[3] >= 1
  BY BoundsAssumption DEF Steps
<1>2. at'[1] = 1 /\ at'[2] = 1
  BY DEF First
<1> QED
  BY <1>1, <1>2 DEF Passed

\* At the end of a file all known steps are behind.
LEMMA AllPassed ==
    ASSUME TypeOK, AtEnd, NEW s \in Steps, Release(s) <= app
    PROVE  Passed(s)
BY BoundsAssumption DEF TypeOK, AtEnd, Steps, Release, Passed

\* The order and the version depend on the registered statements only.
LEMMA OrderKept ==
    ASSUME InOrder, VersionSound, pending' = {}, UNCHANGED version,
           \A s \in Steps : IsSql(s) => (Done(s)' <=> Done(s))
    PROVE  InOrder' /\ VersionSound'
<1>1. \A s, t \in Steps : IsSql(t) /\ Before(s, t) => IsSql(s)
  BY DEF IsSql, Before
<1>2. \A s \in Steps : s[1] \in SqlFiles => (Done(s)' <=> Done(s))
  BY DEF IsSql
<1>3. "logbook" \in SqlFiles /\ "location" \in SqlFiles
  BY DEF SqlFiles
<1>4. InOrder'
  BY <1>1, <1>2, <1>3 DEF InOrder
<1>5. VersionSound'
  BY <1>2, <1>3 DEF VersionSound, IsBump, IsSql
<1> QED
  BY <1>4, <1>5

\* Statements are registered, none is undone: what is required of used logbooks stays.
LEMMA UsedKept ==
    ASSUME UpgradesSound, UNCHANGED <<used, app>>,
           backups \subseteq backups',
           phase' = "closed" \/ (phase # "closed" /\ phase' = phase),
           \A s \in Steps : Done(s) => Done(s)',
           \A r \in used : Untouched(r) => Untouched(r)' \/ r \in backups'
    PROVE  UpgradesSound'
<1>1. \A r \in used' : \A s \in Steps : IsSql(s) /\ Release(s) <= r => Done(s)'
  BY DEF UpgradesSound
<1>2. phase' # "closed" => \A r \in used' : r <= app'
  BY DEF UpgradesSound
<1>3. phase' \in Files \cup {"open"} => \A r \in used' : r < app' => r \in backups'
  BY DEF UpgradesSound, Files, SqlFiles
<1>4. \A r \in used' : Untouched(r)' \/ r \in backups'
  BY DEF UpgradesSound
<1> QED
  BY <1>1, <1>2, <1>3, <1>4 DEF UpgradesSound

\* Applying a step that is next leaves used logbooks alone that have no backup.
LEMMA UntouchedKept ==
    ASSUME TypeOK, UpgradesSound, phase \in Files, ~AtEnd,
           \A s \in Steps : s # Current => effects'[s] = effects[s],
           NEW r \in used, Untouched(r)
    PROVE  Untouched(r)' \/ r \in backups
<1>1. CASE r < app
  BY <1>1 DEF UpgradesSound
<1>2. CASE ~(r < app)
  <2>1. r \in Nat /\ app \in Nat /\ Current \in Steps /\ Release(Current) <= app
    BY CurrentIsStep, BoundsAssumption DEF TypeOK
  <2>2. \A s \in Steps : Release(s) > r => s # Current
    BY <1>2, <2>1, BoundsAssumption DEF Release, Steps
  <2> QED
    BY <2>2 DEF Untouched, Applied
<1> QED
  BY <1>1, <1>2

-----------------------------------------------------------------------------
(***************************************************************************)
(* Every operation keeps CalmInv.                                          *)
(***************************************************************************)
CalmState == InOrder /\ Progress /\ VersionSound /\ UpgradesSound

LEMMA InitCalm == Init => CalmInv
<1> SUFFICES ASSUME Init PROVE CalmState
  BY DEF CalmInv, CalmState
<1>1. \A s \in Steps : ~Done(s)
  BY DEF Init, Done
<1>2. InOrder
  BY <1>1 DEF Init, InOrder
<1>3. Progress /\ VersionSound /\ UpgradesSound
  BY <1>1 DEF Init, Progress, SqlFiles, Files, VersionSound, UpgradesSound
<1> QED
  BY <1>2, <1>3 DEF CalmState

\* The logbook is closed.
LEMMA ClosesKeepsCalm ==
    ASSUME CalmState, Closes, UNCHANGED <<app, version, effects, history>>,
           \A s \in Steps : Done(s)' <=> Done(s)
    PROVE  CalmState'
<1>1. InOrder' /\ VersionSound'
  BY OrderKept DEF CalmState, Closes
<1>2. Progress'
  BY DEF Closes, Progress, SqlFiles
<1>3. UpgradesSound'
  <2>1. \A r \in used : Untouched(r) => Untouched(r)'
    BY DEF Untouched, Applied
  <2> QED
    BY <2>1, UsedKept DEF CalmState, Closes, history
<1> QED
  BY <1>1, <1>2, <1>3 DEF CalmState

\* A newer version is not opened, and an older one is backed up.
LEMMA OpenKeepsCalm ==
    ASSUME IInv, CalmState, Open, UNCHANGED disturbed
    PROVE  CalmState'
<1>1. /\ phase = "closed" /\ phase' = IF NeedsBackup(version) THEN "backup" ELSE "logbook"
      /\ at' = First /\ version <= app
      /\ UNCHANGED <<app, version, effects, migr, backups, used, pending>>
  BY DEF Open, IsSupported, Enters, Disturbs, IInv, TypeOK, file, history
<1>2. \A s \in Steps : Done(s)' <=> Done(s)
  BY <1>1 DEF Done
<1>3. InOrder' /\ VersionSound'
  BY <1>1, <1>2, OrderKept DEF CalmState, InOrder
<1>4. Progress'
  BY <1>1, NothingPassed DEF Progress, SqlFiles
<1>5. \A r \in used : r <= version /\ r \in 1 .. Releases
  <2> SUFFICES ASSUME NEW r \in used PROVE r <= version /\ r \in 1 .. Releases
    OBVIOUS
  <2>1. r \in 1 .. Releases
    BY DEF IInv, TypeOK
  <2> DEFINE t == <<"location", r, StepsPerRelease>>
  <2>2. t \in Steps /\ IsSql(t) /\ IsBump(t) /\ Release(t) = r /\ t[1] = "location"
    BY <2>1, BoundsAssumption DEF Steps, Files, SqlFiles, IsSql, IsBump, Release
  <2>3. Done(t)
    BY <2>1, <2>2 DEF CalmState, UpgradesSound
  <2> HIDE DEF t
  <2> QED
    BY <2>1, <2>2, <2>3 DEF CalmState, VersionSound
<1>6. version \in Nat /\ app \in Nat
  BY DEF IInv, TypeOK
<1>7. \A r \in used : Untouched(r)' <=> Untouched(r)
  BY <1>1 DEF Untouched, Applied
<1>8. ASSUME ~NeedsBackup(version), NEW r \in used, r < app PROVE r \in backups
  <2>1. r \in Nat /\ r >= 1 /\ version = app
    BY <1>1, <1>5, <1>6, <1>8 DEF NeedsBackup
  <2>2. PICK t \in Steps : IsBump(t) /\ Done(t) /\ Release(t) = app
    BY <1>6, <1>8, <2>1 DEF CalmState, VersionSound
  <2>3. Applied(t)
    BY <2>2 DEF IInv, TypeOK, AppliedAsRegistered, Applied, IsBump
  <2>4. ~Untouched(r)
    BY <1>6, <1>8, <2>1, <2>2, <2>3 DEF Untouched
  <2> QED
    BY <2>4 DEF CalmState, UpgradesSound
<1>9. UpgradesSound'
  <2>1. \A r \in used' : \A s \in Steps : IsSql(s) /\ Release(s) <= r => Done(s)'
    BY <1>1, <1>2 DEF CalmState, UpgradesSound
  <2>2. \A r \in used' : r <= app'
    BY <1>1, <1>5, <1>6
  <2>3. phase' \in Files \cup {"open"} => \A r \in used' : r < app' => r \in backups'
    BY <1>1, <1>8 DEF Files, SqlFiles
  <2>4. \A r \in used' : Untouched(r)' \/ r \in backups'
    BY <1>1, <1>7 DEF CalmState, UpgradesSound
  <2> QED
    BY <2>1, <2>2, <2>3, <2>4 DEF UpgradesSound
<1> QED
  BY <1>3, <1>4, <1>9 DEF CalmState

\* Whatever has been used and not changed since is in the backup.
LEMMA BackupKeepsCalm ==
    ASSUME IInv, CalmState, Backup, UNCHANGED disturbed
    PROVE  CalmState'
<1>1. /\ phase = "backup" /\ phase' = "logbook" /\ at' = First
      /\ backups' = backups \cup {r \in 1 .. Releases : Untouched(r)}
      /\ UNCHANGED <<app, version, effects, migr, used, pending>>
  BY DEF Backup, Enters, Disturbs, IInv, TypeOK, file
<1>2. \A s \in Steps : Done(s)' <=> Done(s)
  BY <1>1 DEF Done
<1>3. InOrder' /\ VersionSound'
  BY <1>1, <1>2, OrderKept DEF CalmState, InOrder
<1>4. Progress'
  BY <1>1, NothingPassed DEF Progress, SqlFiles
<1>5. \A r \in used : r \in backups'
  BY <1>1 DEF IInv, TypeOK, CalmState, UpgradesSound
<1>6. UpgradesSound'
  BY <1>1, <1>2, <1>5 DEF CalmState, UpgradesSound
<1> QED
  BY <1>3, <1>4, <1>6 DEF CalmState

\* A statement is applied and registered.
LEMMA ExecuteKeepsCalm ==
    ASSUME IInv, CalmState, ExecuteStep
    PROVE  CalmState'
<1> DEFINE t == Current
<1>1. /\ phase \in SqlFiles /\ phase \in Files /\ ~AtEnd /\ ~Done(t) /\ pending = {}
      /\ Apply({t}) /\ Advance
      /\ UNCHANGED <<app, backups, used, phase, pending>>
  BY DEF ExecuteStep, InSql, IsApplied, history, Files
<1>2. TypeOK
  BY DEF IInv
<1>3. /\ t \in Steps /\ t[1] = phase /\ IsSql(t) /\ Release(t) = at[1] /\ Release(t) <= app
      /\ app \in Nat /\ Release(t) \in Nat
  BY <1>1, <1>2, CurrentIsStep, BoundsAssumption DEF TypeOK
<1>4. /\ \A s \in Steps : Done(s)' <=> Done(s) \/ s = t
      /\ \A s \in Steps : s # t => effects'[s] = effects[s]
      /\ version' = IF IsBump(t) THEN Release(t) ELSE version
  BY <1>1, <1>2, <1>3 DEF Apply, TypeOK, Done
<1> HIDE DEF t
<1>5. \A s \in Steps : s[1] = phase /\ Before(s, t) => Done(s)
  <2>1. \A s \in Steps : Before(s, t) => Passed(s)
    BY DEF Before, Passed, Current, t
  <2> QED
    BY <1>1, <2>1 DEF CalmState, Progress
<1>6. InOrder'
  <2>1. \A s \in Steps : Before(s, t) => Done(s)
    BY <1>3, <1>5 DEF Before
  <2>2. \A s \in Steps : t[1] = "location" /\ s[1] = "logbook" /\ Release(s) <= Release(t)
                         => Done(s)
    <3> SUFFICES ASSUME NEW s \in Steps, t[1] = "location", s[1] = "logbook",
                        Release(s) <= Release(t)
                 PROVE  Done(s)
      OBVIOUS
    <3>1. Release(s) <= app
      BY <1>3 DEF Release, Steps
    <3> QED
      BY <1>3, <3>1 DEF CalmState, Progress
  <2> QED
    BY <1>1, <1>4, <2>1, <2>2 DEF CalmState, InOrder
<1>7. Progress'
  <2>1. \A s \in Steps : s[1] = phase /\ Passed(s)' => Passed(s) \/ s = t
    BY <1>1, <1>2, AdvancePasses DEF t
  <2> QED
    BY <1>1, <1>4, <2>1 DEF CalmState, Progress
<1>8. VersionSound'
  <2>1. ASSUME NEW s \in Steps, s[1] = "location", IsBump(s), Done(s)'
        PROVE  Release(s) <= version'
    <3>1. Release(s) \in Nat
      BY DEF Release, Steps
    <3>2. CASE ~IsBump(t)
      BY <1>4, <2>1, <3>2 DEF CalmState, VersionSound
    <3>3. CASE IsBump(t) /\ Release(s) > Release(t)
      <4>1. Done(s)
        BY <1>4, <2>1, <1>3, <3>1, <3>3
      <4>2. CASE t[1] = "location"
        <5>1. Before(t, s)
          BY <2>1, <1>3, <3>1, <3>3, <4>2 DEF Before, Release
        <5>2. IsSql(s)
          BY <2>1 DEF IsBump
        <5> QED
          BY <1>1, <1>3, <4>1, <5>1, <5>2 DEF CalmState, InOrder
      <4>3. CASE t[1] = "logbook"
        BY <1>1, <1>3, <2>1, <3>1, <3>3, <4>1, <4>3 DEF CalmState, InOrder
      <4> QED
        BY <1>3, <4>2, <4>3 DEF IsSql, SqlFiles
    <3> QED
      BY <1>3, <1>4, <3>1, <3>2, <3>3
  <2>2. version' # 0 => \E s \in Steps : IsBump(s) /\ Done(s)' /\ Release(s) = version'
    BY <1>3, <1>4 DEF CalmState, VersionSound
  <2> QED
    BY <2>1, <2>2 DEF VersionSound
<1>9. UpgradesSound'
  <2>1. \A r \in used : Untouched(r) => Untouched(r)' \/ r \in backups'
    BY <1>1, <1>2, <1>4, UntouchedKept DEF CalmState, t
  <2> QED
    BY <1>1, <1>4, <2>1, UsedKept DEF CalmState, Files, SqlFiles
<1> QED
  BY <1>6, <1>7, <1>8, <1>9 DEF CalmState

\* The next file: all statements of this one are registered.
LEMMA EndFileKeepsCalm ==
    ASSUME IInv, CalmState, EndFile
    PROVE  CalmState'
<1>1. /\ phase \in SqlFiles /\ AtEnd /\ at' = First
      /\ phase' = (IF phase = "logbook" THEN "location" ELSE "csv")
      /\ UNCHANGED <<app, version, effects, migr, backups, used, pending>>
  BY DEF EndFile, Enters, file, history
<1>2. \A s \in Steps : Done(s)' <=> Done(s)
  BY <1>1 DEF Done
<1>3. InOrder' /\ VersionSound'
  BY <1>1, <1>2, OrderKept DEF CalmState, InOrder
<1>4. \A s \in Steps : s[1] = phase /\ Release(s) <= app => Done(s)
  BY <1>1, AllPassed DEF IInv, CalmState, Progress
<1>5. Progress'
  BY <1>1, <1>2, <1>4, NothingPassed DEF CalmState, Progress, SqlFiles
<1>6. UpgradesSound'
  <2>1. \A r \in used : Untouched(r)' <=> Untouched(r)
    BY <1>1 DEF Untouched, Applied
  <2> QED
    BY <1>1, <1>2, <2>1 DEF CalmState, UpgradesSound, Files, SqlFiles
<1> QED
  BY <1>3, <1>5, <1>6 DEF CalmState

\* Rows and steps that leave the statements alone; the ones applied are of known releases.
LEMMA RowKeepsCalm ==
    ASSUME IInv, CalmState, phase \in Files, ~AtEnd, pending' = {},
           UNCHANGED <<app, version, backups, used, phase>>,
           \A s \in Steps : Done(s) => Done(s)',
           \A s \in Steps : IsSql(s) => (Done(s)' <=> Done(s)),
           \A s \in Steps : s # Current => effects'[s] = effects[s],
           phase \in SqlFiles => Advance /\ Done(Current)
    PROVE  CalmState'
<1>1. InOrder' /\ VersionSound'
  BY OrderKept DEF CalmState
<1>2. Progress'
  <2>1. phase \in SqlFiles => \A s \in Steps : s[1] = phase /\ Passed(s)' => Done(s)'
    BY AdvancePasses DEF IInv, CalmState, Progress
  <2> QED
    BY <2>1 DEF CalmState, Progress
<1>3. UpgradesSound'
  <2>1. \A r \in used : Untouched(r) => Untouched(r)' \/ r \in backups'
    BY UntouchedKept DEF IInv, CalmState
  <2> QED
    BY <2>1, UsedKept DEF CalmState, Files, SqlFiles
<1> QED
  BY <1>1, <1>2, <1>3 DEF CalmState

\* The logbook is connected with a release whose statements it all has.
LEMMA ConnectKeepsCalm ==
    ASSUME IInv, CalmState, Connect
    PROVE  CalmState'
<1>1. /\ phase = "csv" /\ phase' = "open"
      /\ used' = IF Untouched(app) THEN used \cup {app} ELSE used
      /\ UNCHANGED <<app, version, effects, migr, backups, pending>>
  BY DEF Connect, file
<1>2. \A s \in Steps : Done(s)' <=> Done(s)
  BY <1>1 DEF Done
<1>3. InOrder' /\ VersionSound'
  BY <1>1, <1>2, OrderKept DEF CalmState, InOrder
<1>4. Progress'
  BY <1>1, <1>2 DEF CalmState, Progress, SqlFiles
<1>5. \A s \in Steps : IsSql(s) /\ Release(s) <= app => Done(s)
  BY <1>1 DEF CalmState, Progress, IsSql, SqlFiles
<1>6. \A r \in used' : Untouched(r)' <=> Untouched(r)
  BY <1>1 DEF Untouched, Applied
<1>7. app \in Nat
  BY DEF IInv, TypeOK
<1>8. UpgradesSound'
  BY <1>1, <1>2, <1>5, <1>6, <1>7 DEF CalmState, UpgradesSound, Files
<1> QED
  BY <1>3, <1>4, <1>8 DEF CalmState

LEMMA NextCalm == IInv /\ CalmInv /\ [Next]_vars => CalmInv'
<1> SUFFICES ASSUME IInv, CalmInv, [Next]_vars, Calm' PROVE CalmState'
  BY DEF CalmInv, CalmState
<1>1. CalmState /\ Calm /\ pending = {}
  BY CalmBefore DEF CalmInv, CalmState, InOrder
<1>2. ~Disturbs
  BY <1>1 DEF Calm, Disturbs
<1>3. CASE Close
  <2>1. \A s \in Steps : Done(s)' <=> Done(s)
    BY <1>3 DEF Close, file, Done
  <2> QED
    BY <1>1, <1>3, <2>1, ClosesKeepsCalm DEF Close, file
<1>4. ASSUME NEW r \in 1 .. Releases, Install(r) PROVE CalmState'
  <2>1. phase = "closed" /\ UNCHANGED <<version, effects, migr, backups, used, phase, pending>>
    BY <1>4 DEF Install, file, history
  <2>2. \A s \in Steps : Done(s)' <=> Done(s)
    BY <2>1 DEF Done
  <2>3. InOrder' /\ VersionSound'
    BY <1>1, <2>1, <2>2, OrderKept DEF CalmState
  <2>4. \A u \in used : Untouched(u)' <=> Untouched(u)
    BY <2>1 DEF Untouched, Applied
  <2>5. Progress' /\ UpgradesSound'
    BY <1>1, <2>1, <2>2, <2>4 DEF CalmState, Progress, UpgradesSound, Files, SqlFiles
  <2> QED
    BY <2>3, <2>5 DEF CalmState
<1>5. CASE Open
  <2>1. UNCHANGED disturbed
    BY <1>2, <1>5 DEF Open
  <2> QED
    BY <1>1, <1>5, <2>1, OpenKeepsCalm
<1>6. CASE Backup
  <2>1. UNCHANGED disturbed
    BY <1>2, <1>6 DEF Backup
  <2> QED
    BY <1>1, <1>6, <2>1, BackupKeepsCalm
<1>7. CASE Skip
  <2>1. /\ phase \in Files /\ ~AtEnd /\ Done(Current) /\ Advance
        /\ UNCHANGED <<app, version, effects, migr, backups, used, phase, pending>>
    BY <1>7 DEF Skip, IsApplied, file, history
  <2>2. \A s \in Steps : Done(s)' <=> Done(s)
    BY <2>1 DEF Done
  <2> QED
    BY <1>1, <2>1, <2>2, RowKeepsCalm
<1>8. CASE ExecuteStep
  BY <1>1, <1>8, ExecuteKeepsCalm
<1>9. CASE StepFails
  <2>1. Current \in Steps /\ ~Done(Current)
    BY <1>9, CurrentIsStep DEF StepFails, InSql, IsApplied, IInv, Files
  <2>2. migr' = [migr EXCEPT ![Current] = "failed"] \/ UNCHANGED migr
    BY <1>9 DEF StepFails
  <2>3. \A s \in Steps : Done(s)' <=> Done(s)
    BY <2>1, <2>2, FailedEffect DEF IInv
  <2> QED
    BY <1>1, <1>9, <2>3, ClosesKeepsCalm DEF StepFails, RolledBack
<1>10. CASE RegistrationFails
  <2>1. phase \in SqlFiles /\ ~AtEnd /\ ~Done(Current) /\ ~CanRegister(Current)
    BY <1>2, <1>10 DEF RegistrationFails, InSql, IsApplied
  <2>2. Current \in Steps
    BY <2>1, CurrentIsStep DEF IInv, Files
  <2> QED
    BY <2>1, <2>2 DEF CanRegister, Done, IInv, TypeOK
<1>11. CASE EndFile
  BY <1>1, <1>11, EndFileKeepsCalm
<1>12. CASE InsertLocation
  <2>1. /\ phase = "csv" /\ ~AtEnd
        /\ effects' = [effects EXCEPT ![Current] = @ + 1]
        /\ UNCHANGED <<app, version, migr, backups, used, phase, pending>>
    BY <1>1, <1>12 DEF InsertLocation, InCsv, history
  <2>2. \A s \in Steps : Done(s)' <=> Done(s)
    BY <2>1 DEF Done
  <2>3. \A s \in Steps : s # Current => effects'[s] = effects[s]
    BY <2>1 DEF IInv, TypeOK
  <2> QED
    BY <1>1, <2>1, <2>2, <2>3, RowKeepsCalm DEF Files, SqlFiles
<1>13. CASE LocationFails
  <2>1. /\ phase = "csv" /\ ~AtEnd /\ ~Done(Current)
        /\ UNCHANGED <<app, version, effects, backups, used, phase, pending>>
    BY <1>13 DEF LocationFails, InCsv, IsApplied, history
  <2>2. Current \in Steps
    BY <2>1, CurrentIsStep DEF IInv, Files
  <2>3. migr' = [migr EXCEPT ![Current] = "failed"] \/ UNCHANGED migr
    BY <1>13 DEF LocationFails
  <2>4. \A s \in Steps : Done(s)' <=> Done(s)
    BY <2>1, <2>2, <2>3, FailedEffect DEF IInv
  <2> QED
    BY <1>1, <2>1, <2>4, RowKeepsCalm DEF Files, SqlFiles
<1>14. CASE RegisterLocation
  <2>1. phase = "csv" /\ ~AtEnd /\ UNCHANGED <<app, backups, used, phase>>
    BY <1>14 DEF RegisterLocation, InCsv, history
  <2>2. Current \in Steps /\ ~IsSql(Current)
    BY <2>1, CurrentIsStep DEF IInv, Files, SqlFiles
  <2>3. /\ migr' = [migr EXCEPT ![Current] = "done"] \/ UNCHANGED migr
        /\ UNCHANGED <<version, effects, pending>>
    BY <1>1, <1>14 DEF RegisterLocation, file
  <2>4. /\ \A s \in Steps : Done(s) => Done(s)'
        /\ \A s \in Steps : s # Current => (Done(s)' <=> Done(s))
    BY <2>2, <2>3 DEF Done, IInv, TypeOK
  <2> QED
    BY <1>1, <2>1, <2>2, <2>3, <2>4, RowKeepsCalm DEF Files, SqlFiles
<1>15. CASE Connect
  BY <1>1, <1>15, ConnectKeepsCalm
<1>16. CASE NotConnected
  <2>1. \A s \in Steps : Done(s)' <=> Done(s)
    BY <1>16 DEF NotConnected, file, Done
  <2> QED
    BY <1>1, <1>16, <2>1, ClosesKeepsCalm DEF NotConnected, file
<1>17. CASE UNCHANGED vars
  BY <1>1, <1>17
  DEF vars, CalmState, InOrder, Progress, VersionSound, UpgradesSound, Done, Untouched,
      Applied, Passed
<1> QED
  BY <1>3, <1>4, <1>5, <1>6, <1>7, <1>8, <1>9, <1>10, <1>11, <1>12, <1>13, <1>14, <1>15,
     <1>16, <1>17 DEF Next, Proceeding, Failing

LEMMA CalmAlways == Spec => [](IInv /\ CalmInv)
BY InitTyped, InitCalm, NextTyped, NextCalm, PTL DEF Spec

\* The statements are applied in their order, and a logbook that is open has all that the
\* application relies on (migrateSql).
THEOREM OrderCorrect == Spec => []MigratedInOrder
<1>1. IInv /\ CalmInv => MigratedInOrder
  <2> SUFFICES ASSUME IInv, CalmState
               PROVE  /\ \A s, t \in Steps : IsSql(t) /\ Applied(t) /\ Before(s, t) => Applied(s)
                      /\ phase = "open" => \A s \in Known : IsSql(s) => Applied(s)
    BY DEF CalmInv, CalmState, MigratedInOrder
  <2>1. \A s \in Steps : IsSql(s) => (Applied(s) <=> Done(s))
    BY DEF IInv, AppliedAsRegistered, Applied
  <2>2. \A s, t \in Steps : IsSql(t) /\ Before(s, t) => IsSql(s)
    BY DEF IsSql, Before
  <2>3. phase = "open" => \A s \in Known : IsSql(s) => Done(s)
    BY DEF CalmState, Progress, Known, IsSql, SqlFiles
  <2> QED
    BY <2>1, <2>2, <2>3 DEF CalmState, InOrder, Known
<1> QED
  BY <1>1, CalmAlways, PTL

\* A logbook that has been used is not changed by a later release without a backup of it
\* (checkDatabaseVersion, DatabaseService::backup).
THEOREM BackupsCorrect == Spec => []UpgradesAreBackedUp
<1>1. CalmInv => UpgradesAreBackedUp
  BY DEF CalmInv, UpgradesSound, UpgradesAreBackedUp
<1> QED
  BY <1>1, CalmAlways, PTL

\* A logbook that has been used with a newer release is not opened (checkDatabaseVersion).
THEOREM VersionsCorrect == Spec => []NewerIsNotOpened
<1>1. CalmInv => NewerIsNotOpened
  BY DEF CalmInv, UpgradesSound, NewerIsNotOpened
<1> QED
  BY <1>1, CalmAlways, PTL
=============================================================================
