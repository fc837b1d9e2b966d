-------------------------- MODULE GlobalDBUpgrade ---------------------------
(***************************************************************************)
(* Opening the global DB at the start of the process: the check for an     *)
(* unfinished upgrade and initialize_globaldb (globaldb/handler.py), and   *)
(* maybe_upgrade_globaldb (globaldb/upgrades/manager.py), with failing     *)
(* upgrades, crashes at any step and other versions of rotki between two   *)
(* starts.  Unlike the user DB, the backup is stored next to the DB before *)
(* the upgrade is flagged, and resuming from it needs no approval.         *)
(***************************************************************************)
EXTENDS Integers, WalFile

CONSTANTS
    MinSupported,     \* MIN_SUPPORTED_GLOBAL_DB_VERSION
    Latest,           \* the newest GLOBAL_DB_VERSION
    Scripted,         \* the upgrades that commit on their way
    None, Half, Mixed, Torn, NoFile

Versions == MinSupported .. Latest

\* The rows of the settings table, and the pages of a DB file
Settings == [version : Versions, ongoing : Versions \cup {None}]
SettingsPages == Settings \cup {Torn}
SchemaPages == Versions \cup {Half, Mixed, Torn}
Files == [settings : SettingsPages, schema : SchemaPages]

ASSUME GlobalUpgradeAssumption ==
    /\ MinSupported \in Nat /\ Latest \in Nat /\ MinSupported <= Latest
    /\ Scripted \subseteq Versions

\* The values that are not versions, and the absence of a frame or of a file, are
\* told apart from what a page or a file may hold.
ASSUME DistinctAssumption ==
    /\ None \notin Versions
    /\ {Half, Mixed, Torn} \cap Versions = {}
    /\ Half # Mixed /\ Torn \notin {Half, Mixed}
    /\ Torn \notin Settings
    /\ Nothing \notin SettingsPages \cup SchemaPages
    /\ NoFile \notin Files

VARIABLES
    pc,          \* the next step of initialize_globaldb, "open", "exit" or "closed"
    software,    \* GLOBAL_DB_VERSION of the running process
    dbVersion,   \* db_version of maybe_upgrade_globaldb, or the version to resume from
    round,       \* upgrade.from_version of its loop
    backups,     \* the latest backup of each version in global_dir
    mishaps      \* history: what happened to backups because of the -wal file

vars == <<main, wal, backfilled, pc, software, dbVersion, round, backups, mishaps>>

DBFile(version, ongoing, schema) ==
    [settings |-> [version |-> version, ongoing |-> ongoing], schema |-> schema]
Upgraded(v) == DBFile(v, None, v)
TornFile == [settings |-> Torn, schema |-> Torn]
IsTorn(file) == Torn \in {file.settings, file.schema}

CommitSettings(version, ongoing) ==
    CommitPages([settings |-> [version |-> version, ongoing |-> ongoing],
                 schema |-> Nothing])
CommitSchema(schema) == CommitPages([settings |-> Nothing, schema |-> schema])

At(here, next) == pc = here /\ pc' = next

Init ==
    /\ \E v \in Versions : main = Upgraded(v)
    /\ wal = NoFrames(main)
    /\ backfilled = TRUE
    /\ pc = "closed"
    /\ software \in Versions
    /\ dbVersion = MinSupported
    /\ round = MinSupported
    /\ backups = [v \in Versions |-> NoFile]
    /\ mishaps = {}

-----------------------------------------------------------------------------
Connect ==
    /\ pc = "closed"
    /\ software' \in Versions
    /\ pc' = IF IsTorn(Content) THEN "exit" ELSE "check"
    /\ UNCHANGED <<main, wal, backfilled, dbVersion, round, backups, mishaps>>

NoUnfinishedUpgrade ==
    /\ At("check", "upgrade")
    /\ Content.settings.ongoing = None
    /\ UNCHANGED <<main, wal, backfilled, software, dbVersion, round, backups, mishaps>>

\* connection.close(), then the search for a backup of the flagged version
FindBackup ==
    /\ pc = "check"
    /\ Content.settings.ongoing # None
    /\ CloseFile
    /\ dbVersion' = Content.settings.ongoing
    /\ pc' = IF backups[Content.settings.ongoing] = NoFile THEN "exit" ELSE "resume"
    /\ UNCHANGED <<software, round, backups, mishaps>>

UseBackup ==
    /\ pc = "resume"
    /\ ReplaceMain(backups[dbVersion])
    /\ pc' = IF IsTorn(backups[dbVersion]) THEN "exit" ELSE "upgrade"
    /\ UNCHANGED <<software, dbVersion, round, backups, mishaps>>

\* The head of maybe_upgrade_globaldb
ReadVersion ==
    /\ pc = "upgrade"
    /\ dbVersion' = Content.settings.version
    /\ pc' = IF dbVersion' < MinSupported \/ dbVersion' > software THEN "exit" ELSE "round"
    /\ round' = MinSupported
    /\ UNCHANGED <<main, wal, backfilled, software, backups, mishaps>>

SkipUpgrade ==
    /\ At("round", "round")
    /\ round < software /\ dbVersion # round
    /\ round' = round + 1
    /\ UNCHANGED <<main, wal, backfilled, software, dbVersion, backups, mishaps>>

\* The copy of the database file, without its -wal file
CreateBackup ==
    /\ At("round", "flag")
    /\ round < software /\ dbVersion = round
    /\ backups' = [backups EXCEPT ![round] = main]
    /\ mishaps' = IF main # Content THEN mishaps \cup {"missed_commits"} ELSE mishaps
    /\ UNCHANGED <<main, wal, backfilled, software, dbVersion, round>>

\* mutant of SetFlag: no flag
SetFlagForgotten ==
    /\ At("flag", "function")
    /\ CommitSettings(Content.settings.version, None)
    /\ UNCHANGED <<software, dbVersion, round, backups, mishaps>>

\* mutant of SetFlag: the flag names the version after the upgrade
SetFlagToVersion ==
    /\ At("flag", "function")
    /\ CommitSettings(Content.settings.version, round + 1)
    /\ UNCHANGED <<software, dbVersion, round, backups, mishaps>>

SetFlag ==
    /\ At("flag", "function")
    /\ CommitSettings(Content.settings.version, round)
    /\ UNCHANGED <<software, dbVersion, round, backups, mishaps>>

RunFunction ==
    /\ At("function", "done")
    /\ round \notin Scripted
    /\ CommitSchema(IF Content.schema = round THEN round + 1 ELSE Mixed)
    /\ UNCHANGED <<software, dbVersion, round, backups, mishaps>>

\* migrate_to_v3 switches the foreign keys off and on: each switch is a script,
\* which commits what its write context did so far and goes on in a new transaction.
RunFirstHalf ==
    /\ At("function", "second")
    /\ round \in Scripted
    /\ CommitSchema(IF Content.schema = round THEN Half ELSE Mixed)
    /\ UNCHANGED <<software, dbVersion, round, backups, mishaps>>

\* a later switch commits more of it
RunNextPart ==
    /\ At("second", "second")
    /\ CommitSchema(Content.schema)
    /\ UNCHANGED <<software, dbVersion, round, backups, mishaps>>

\* the end of the write context
RunSecondHalf ==
    /\ At("second", "done")
    /\ CommitSchema(IF Content.schema = Half THEN round + 1 ELSE Mixed)
    /\ UNCHANGED <<software, dbVersion, round, backups, mishaps>>

FailFunction ==
    /\ pc \in {"function", "second"} /\ pc' = "restore"
    /\ UNCHANGED <<main, wal, backfilled, software, dbVersion, round, backups, mishaps>>

\* The frames of half an upgrade are in the -wal file and the flag is not, because
\* a checkpoint came between the two.
HalfWithoutFlag == wal.settings = Nothing /\ wal.schema # Nothing

\* The backup is copied over the open database file, under the frames of the -wal
\* file; the ValueError ends the process.
RestoreBackup ==
    /\ At("restore", "exit")
    /\ ReplaceMain(backups[round])
    /\ mishaps' = IF HalfWithoutFlag THEN mishaps \cup {"restored_under_half"} ELSE mishaps
    /\ UNCHANGED <<software, dbVersion, round, backups>>

\* mutant of FinishUpgrade: the next upgrade of the list is skipped
FinishUpgradeSkips ==
    /\ At("done", "round")
    /\ CommitSettings(round + 1, None)
    /\ dbVersion' = round + 1
    /\ round' = round + 2
    /\ UNCHANGED <<software, backups, mishaps>>

FinishUpgrade ==
    /\ At("done", "round")
    /\ CommitSettings(round + 1, None)
    /\ dbVersion' = round + 1
    /\ round' = round + 1
    /\ UNCHANGED <<software, backups, mishaps>>

\* After the loop: schema_sanity_check finds the tables of another version, but
\* those an upgrade mangled may pass.
SanityCheck ==
    /\ pc = "round" /\ round = software
    /\ \/ Content.schema \in {software, Half, Mixed} /\ pc' = "open"
       \/ Content.schema # software /\ pc' = "exit"
    /\ UNCHANGED <<main, wal, backfilled, software, dbVersion, round, backups, mishaps>>

-----------------------------------------------------------------------------
\* Writes of the process reach neither page; their commits may checkpoint.
Work ==
    /\ At("open", "open")
    /\ CommitPages(NoFrames(main))
    /\ UNCHANGED <<software, dbVersion, round, backups, mishaps>>

\* GlobalDBHandler.cleanup, or the interpreter closes the connection on its way out
Exit ==
    /\ pc \in {"open", "exit"} /\ pc' = "closed"
    /\ CloseFile
    /\ UNCHANGED <<software, dbVersion, round, backups, mishaps>>

\* The process dies. A copy that is under way leaves a truncated file.
Crash ==
    /\ pc # "closed" /\ pc' = "closed"
    /\ backfilled' = FALSE
    /\ main' \in {main} \cup (IF pc \in {"resume", "restore"} THEN {TornFile} ELSE {})
    /\ backups' \in {backups}
          \cup (IF pc = "round" /\ round < software /\ dbVersion = round
                THEN {[backups EXCEPT ![round] = TornFile]} ELSE {})
    /\ UNCHANGED <<wal, software, dbVersion, round, mishaps>>

Next ==
    \/ Connect \/ NoUnfinishedUpgrade \/ FindBackup \/ UseBackup \/ ReadVersion
    \/ SkipUpgrade \/ CreateBackup \/ SetFlag \/ RunFunction \/ RunFirstHalf
    \/ RunNextPart \/ RunSecondHalf \/ FailFunction \/ RestoreBackup \/ FinishUpgrade \/ SanityCheck \/ Work \/ Exit \/ Crash

Spec == Init /\ [][Next]_vars

-----------------------------------------------------------------------------
\* what can spoil a backup or the file it is put back into
Mishaps == {"missed_commits", "restored_under_half"}

\* The variables stay in their types.
TypeOK ==
    /\ main \in Files
    /\ wal \in [settings : SettingsPages \cup {Nothing}, schema : SchemaPages \cup {Nothing}]
    /\ backups \in [Versions -> Files \cup {NoFile}]
    /\ backfilled \in BOOLEAN /\ mishaps \subseteq Mishaps
    /\ pc \in {"closed", "exit", "check", "resume", "upgrade", "round", "flag",
              "function", "second", "restore", "done", "open"}
    /\ {software, dbVersion, round} \subseteq Versions

\* Unless a backup was made while commits were only in the -wal file, or put back
\* under frames of half an upgrade without its flag, the process only ever works on
\* a global DB that is completely upgraded to its version: initialize_globaldb
\* returns with version, tables and flag agreeing, however many upgrades a start
\* runs and wherever one that commits on its way fails or dies.
OpenIsUpgraded == pc = "open" /\ mishaps = {} => Content = Upgraded(software)

\* Unless one of the same two mishaps came before, whenever the check for unfinished
\* upgrades finds the flag, there is a complete backup of the flagged version next to
\* the DB, because it is written before the flag is.
FlaggedHasBackup ==
    pc = "check" /\ Content.settings.ongoing # None /\ mishaps = {}
        => backups[Content.settings.ongoing] = Upgraded(Content.settings.ongoing)
=============================================================================
