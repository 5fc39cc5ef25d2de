---------------------------- MODULE SqlMigration ----------------------------
(***************************************************************************)
(* Opening a logbook (PersistenceManager::connectWithLogbook): the check   *)
(* of its version, the backup and the migration (SqlMigration), whose      *)
(* steps are tagged statements of two files, LogbookMigration.sql and      *)
(* LocationMigration.sql, and the rows of Locations.csv.  Every release of *)
(* the application adds steps to each file.  The last one of a release     *)
(* sets the version of the logbook, in both files: while the steps for the *)
(* locations are applied the version goes back and grows again.            *)
(*                                                                         *)
(* Statements may fail, the program may end at any time, and the user may  *)
(* install another release, also an older one.                             *)
(***************************************************************************)
EXTENDS Integers

CONSTANTS
    Releases,       \* bound: number of releases
    StepsPerRelease,\* bound: steps, or rows, that a release adds to a file
    MaxCopies,      \* bound: copies of a location that interruptions leave
    MaxDisturbances \* bound: failures after which the code goes on, see disturbed

ASSUME BoundsAssumption ==
    /\ Releases \in Nat \ {0} /\ StepsPerRelease \in Nat \ {0} /\ MaxCopies \in Nat \ {0}
    /\ MaxDisturbances \in Nat

SqlFiles == {"logbook", "location"}
Files    == SqlFiles \cup {"csv"}
Steps    == Files \X (1 .. Releases) \X (1 .. StepsPerRelease)

Release(s) == s[2]
IsSql(s)   == s[1] \in SqlFiles
IsBump(s)  == IsSql(s) /\ s[3] = StepsPerRelease

VARIABLES
    app,        \* the release that is installed
    version,    \* metadata.app_version of the logbook, 0 if there is none
    effects,    \* how often each step has been applied
    migr,       \* table migr: what is registered for each step
    backups,    \* external: the releases whose untouched logbook is in a backup file
    used,       \* auxiliary: the releases with which the logbook has been used
    phase,      \* what connectWithLogbook does
    at,         \* the step, or row, that is next
    ok,         \* result of migrateCsv so far
    inserted,   \* the location of this row is in the table
    pending,    \* the steps of a transaction that could not be committed
    disturbed   \* auxiliary: how often a registration has failed, the version could not
                \* be read or no name was left for a backup: the code goes on then

file    == <<version, effects, migr>>
history == <<backups, used>>
csv     == <<ok, inserted>>
vars    == <<app, version, effects, migr, backups, used, phase, at, ok, inserted, pending, disturbed>>

Calm     == disturbed = 0
Disturbs == disturbed < MaxDisturbances /\ disturbed' = disturbed + 1

Applied(s) == effects[s] > 0
Done(s)    == migr[s] = "done"
Known      == {s \in Steps : Release(s) <= app}
Untouched(r) == \A s \in Steps : Release(s) > r => ~Applied(s)

\* An interruption leaves another copy of a location, here up to MaxCopies.
MayRepeat(s) == effects[s] < MaxCopies

First == <<1, 1>>
Current == <<phase, at[1], at[2]>>
AtEnd   == at[1] > app

\* Mutant: one step too many per release.
AdvanceTooFar ==
    at' = IF at[2] <= StepsPerRelease THEN <<at[1], at[2] + 1>> ELSE <<at[1] + 1, 1>>

Advance == at' = IF at[2] < StepsPerRelease THEN <<at[1], at[2] + 1>> ELSE <<at[1] + 1, 1>>

Init ==
    /\ app \in 1 .. Releases
    /\ version = 0
    /\ effects = [s \in Steps |-> 0]
    /\ migr = [s \in Steps |-> "none"]
    /\ backups = {}
    /\ used = {}
    /\ phase = "closed"
    /\ at = First
    /\ ok = TRUE
    /\ inserted = FALSE
    /\ pending = {}
    /\ disturbed = 0

-----------------------------------------------------------------------------
(***************************************************************************)
(* connectWithLogbook                                                      *)
(***************************************************************************)

\* A transaction that is open is rolled back, by SQLite (external).
Closes ==
    /\ phase' = "closed"
    /\ at' = First
    /\ ok' = TRUE
    /\ inserted' = FALSE
    /\ pending' = {}

Enters(p) == phase' = p /\ at' = First

\* The program ends, or the connection is closed or fails: disconnectFromLogbook.
Close ==
    /\ phase # "closed"
    /\ inserted => MayRepeat(Current)
    /\ Closes
    /\ UNCHANGED <<app, file, history, disturbed>>

\* Another release of the application is installed.
Install(r) ==
    /\ phase = "closed"
    /\ app' = r
    /\ UNCHANGED <<file, history, phase, at, csv, pending, disturbed>>

\* Mutants: a logbook of the previous release is not backed up; the version check is missing.
NeedsBackupOfOlder(v) == v # 0 /\ v + 1 < app
IsSupportedAlways(v)  == v \in Nat

\* checkDatabaseVersion; a logbook without a version is a new one.
IsSupported(v) == app >= v
NeedsBackup(v) == v # 0 /\ v < app

\* A logbook of a newer version is not opened: the user is asked for another one.
Open ==
    /\ phase = "closed"
    /\ \E v \in {version, 0} :
          /\ IsSupported(v)
          /\ Enters(IF NeedsBackup(v) THEN "backup" ELSE "logbook")
          /\ IF v = version THEN UNCHANGED disturbed ELSE Disturbs
    /\ UNCHANGED <<app, file, history, csv, pending>>

\* DatabaseService::backup, before anything is changed.  What it fails with closes
\* the logbook, except that no name is left for the backup.
Backup ==
    /\ phase = "backup"
    /\ \/ backups' = backups \cup {r \in 1 .. Releases : Untouched(r)} /\ UNCHANGED disturbed
       \/ Disturbs /\ UNCHANGED backups
    /\ Enters("logbook")
    /\ UNCHANGED <<app, file, used, csv, pending>>

-----------------------------------------------------------------------------
(***************************************************************************)
(* migrateSql: each step in a transaction together with its registration   *)
(***************************************************************************)

\* Mutant: a step that failed before is not tried again.
IsAttempted(s) == migr[s] # "none"

\* checkApplied
IsApplied(s) == Done(s)

Skip ==
    /\ phase \in Files
    /\ ~AtEnd /\ ~inserted
    /\ IsApplied(Current)
    /\ Advance
    /\ UNCHANGED <<app, file, history, phase, csv, pending, disturbed>>

\* Mutant: the registration is an insert, also after an attempt that failed.
CanRegisterFirst(s) == migr[s] = "none"

\* registerMigration: an insert, or an update after an attempt that failed
CanRegister(s) == migr[s] \in {"none", "failed"}

\* Mutant: a step that failed half-way is not rolled back.
AppliedInPart(s) ==
    /\ effects' = [effects EXCEPT ![s] = @ + 1]
    /\ UNCHANGED version

\* What a failing step leaves, after its rollback.
RolledBack(s) == UNCHANGED <<version, effects>>

\* The steps of S, in one transaction with their registration.
Apply(S) ==
    /\ effects' = [s \in Steps |-> IF s \in S THEN effects[s] + 1 ELSE effects[s]]
    /\ migr' = [s \in Steps |-> IF s \in S THEN "done" ELSE migr[s]]
    /\ \/ \E s \in S : IsBump(s) /\ version' = Release(s)
       \/ (\A s \in S : ~IsBump(s)) /\ version' = version

InSql == phase \in SqlFiles /\ ~AtEnd /\ ~IsApplied(Current)

\* execute
ExecuteStep ==
    /\ InSql /\ pending = {}
    /\ CanRegister(Current)
    /\ Apply({Current})
    /\ Advance
    /\ UNCHANGED <<app, history, phase, csv, pending, disturbed>>

\* A statement fails, or a transaction is open already: the failure is registered, if
\* possible, and the logbook closed.
StepFails ==
    /\ InSql
    /\ RolledBack(Current)
    /\ \/ pending = {} /\ migr' = [migr EXCEPT ![Current] = "failed"]
       \/ UNCHANGED migr
    /\ Closes
    /\ UNCHANGED <<app, history, disturbed>>

\* The step is applied, but not its registration: rolled back, or still in its
\* transaction, when the commit has failed.  execute returns success.
RegistrationFails ==
    /\ InSql /\ pending = {}
    /\ IF CanRegister(Current) THEN Disturbs ELSE UNCHANGED disturbed
    /\ pending' \in {{}, {Current}}
    /\ Advance
    /\ UNCHANGED <<app, file, history, phase, csv>>

EndFile ==
    /\ phase \in SqlFiles
    /\ AtEnd
    /\ Enters(IF phase = "logbook" THEN "location" ELSE "csv")
    /\ UNCHANGED <<app, file, history, csv, pending, disturbed>>

-----------------------------------------------------------------------------
(***************************************************************************)
(* migrateCsv: the location is inserted, then the row registered           *)
(***************************************************************************)
InCsv == phase = "csv" /\ ~AtEnd /\ ~IsApplied(Current)

\* migrateLocation, in the transaction that an earlier step has left open, if any
InsertLocation ==
    /\ InCsv /\ ~inserted
    /\ IF pending = {}
       THEN effects' = [effects EXCEPT ![Current] = @ + 1] /\ UNCHANGED pending
       ELSE pending' = pending \cup {Current} /\ UNCHANGED effects
    /\ inserted' = TRUE
    /\ ok' = TRUE
    /\ UNCHANGED <<app, version, migr, history, phase, at, disturbed>>

\* A location that fails is forgotten with the next one that does not.
LocationFails ==
    /\ InCsv /\ ~inserted
    /\ ok' = FALSE
    /\ \/ pending = {} /\ migr' = [migr EXCEPT ![Current] = "failed"]
       \/ UNCHANGED migr
    /\ Advance
    /\ UNCHANGED <<app, version, effects, history, phase, inserted, pending, disturbed>>

\* registerMigration, whose failure nobody is told; it also commits a transaction that
\* an earlier step has left open.
RegisterLocation ==
    /\ InCsv /\ inserted
    /\ inserted' = FALSE
    /\ Advance
    /\ \/ /\ pending = {}
          /\ CanRegister(Current)
          /\ migr' = [migr EXCEPT ![Current] = "done"]
          /\ UNCHANGED <<version, effects, pending>>
       \/ pending # {} /\ Apply(pending) /\ pending' = {}
       \/ MayRepeat(Current) /\ UNCHANGED <<file, pending>>
    /\ UNCHANGED <<app, history, phase, ok, disturbed>>

\* The logbook is connected; there may be no Locations.csv, too.
Connect ==
    /\ phase = "csv"
    /\ AtEnd \/ at = First
    /\ ~inserted /\ ok
    /\ phase' = "open"
    /\ used' = IF Untouched(app) THEN used \cup {app} ELSE used
    /\ UNCHANGED <<app, file, backups, at, csv, pending, disturbed>>

\* The last location has failed.
NotConnected ==
    /\ phase = "csv"
    /\ AtEnd /\ ~ok
    /\ Closes
    /\ UNCHANGED <<app, file, history, disturbed>>

Proceeding ==
    \/ Backup \/ Skip \/ ExecuteStep \/ EndFile
    \/ InsertLocation \/ RegisterLocation \/ Connect \/ NotConnected
    \/ pending # {} /\ StepFails

Failing == Close \/ StepFails \/ RegistrationFails \/ LocationFails

Next ==
    \/ Open
    \/ Proceeding
    \/ Failing
    \/ \E r \in 1 .. Releases : Install(r)

Spec == Init /\ [][Next]_vars

\* The program goes on.
FairSpec == Spec /\ WF_vars(Proceeding)

-----------------------------------------------------------------------------
(***************************************************************************)
(* Properties.                                                             *)
(***************************************************************************)

\* The values that the variables take.
TypeOK ==
    /\ app \in 1 .. Releases
    /\ version \in 0 .. Releases
    /\ effects \in [Steps -> Nat]
    /\ migr \in [Steps -> {"none", "failed", "done"}]
    /\ backups \subseteq 1 .. Releases
    /\ used \subseteq 1 .. Releases
    /\ phase \in Files \cup {"closed", "backup", "open"}
    /\ at \in (1 .. Releases + 1) \X (1 .. StepsPerRelease)
    /\ ok \in BOOLEAN
    /\ inserted \in BOOLEAN
    /\ pending \subseteq Steps
    /\ disturbed \in Nat

\* Whatever fails, and whenever the program ends, each statement of the migration has
\* been applied exactly once if it is registered, and not at all otherwise; a location
\* that is registered is there (execute, registerMigration).
AppliedAsRegistered ==
    \A s \in Steps :
        IF IsSql(s) THEN effects[s] = (IF Done(s) THEN 1 ELSE 0)
        ELSE Done(s) => Applied(s)

\* The steps of a file are applied in their order, across failures and releases; when
\* the logbook is open, it has all steps that the application relies on.
Before(s, t) ==
    /\ s[1] = t[1]
    /\ s[2] < t[2] \/ (s[2] = t[2] /\ s[3] < t[3])

MigratedInOrder ==
    Calm =>
        /\ \A s, t \in Steps : IsSql(t) /\ Applied(t) /\ Before(s, t) => Applied(s)
        /\ phase = "open" => \A s \in Known : IsSql(s) => Applied(s)

\* A logbook that has been used with a release is only changed by the migration to a
\* later one when there is a backup of it as it was, however often that is interrupted.
UpgradesAreBackedUp == Calm => \A r \in used : Untouched(r) \/ r \in backups

\* "Logbooks created with newer versions cannot be opened": once a logbook has been used
\* with a release, earlier ones never open it, although a migration sets the version of
\* the logbook back and may be interrupted then.
NewerIsNotOpened == Calm /\ phase # "closed" => \A r \in used : r <= app

\* A step that has failed is tried again and, when it does not fail any more, applied:
\* a logbook that is opened again and again gets connected.
LeftAlone == <>[][Open \/ Proceeding]_vars

FailuresAreRetried == LeftAlone /\ []<>(phase # "closed") => <>(phase = "open")
=============================================================================
