--------------------------- MODULE UserDBUpgrade ----------------------------
(***************************************************************************)
(* Opening the user DB: DBHandler.__init__ (db/dbhandler.py) and the       *)
(* upgrades of DBUpgradeManager (db/upgrade_manager.py), with failing      *)
(* upgrades, crashes at any step, logins that resume from a backup, and    *)
(* installations of a different version of rotki between two starts.       *)
(*                                                                         *)
(* The DB has two pages: "settings" holds the version and the flag of an   *)
(* ongoing upgrade, "schema" stands for all other tables.  Its value is    *)
(* the version whose upgrade last rewrote them, Half in the middle of an   *)
(* upgrade that commits more than once, Mixed once an upgrade ran on       *)
(* tables it was not written for, and NoTables in a new file.              *)
(***************************************************************************)
EXTENDS Integers, WalFile

CONSTANTS
    MinSupported,     \* MIN_SUPPORTED_USER_DB_VERSION
    Latest,           \* the newest ROTKEHLCHEN_DB_VERSION
    Cases,            \* see Case below
    None, Half, Mixed, NoTables, Torn, NoFile

Versions == MinSupported .. Latest

VARIABLES
    case,        \* which user, which upgrades: does not change
    pc,          \* the step of DBHandler.__init__ that is next, "open" or "closed"
    software,    \* ROTKEHLCHEN_DB_VERSION of the running process
    approved,    \* resume_from_backup of this login
    round,       \* upgrade.from_version of the loop in run_upgrades
    tmp,         \* the backup in the TemporaryDirectory
    backups      \* the latest backup of each version in user_data_dir

vars == <<main, wal, backfilled, case, pc, software, approved, round, tmp, backups>>

Settings == [version : Versions \cup {None}, ongoing : Versions \cup {None}]
SettingsPages == Settings \cup {NoTables, Torn}
SchemaPages == Versions \cup {Half, Mixed, NoTables, Torn}
Files == [settings : SettingsPages, schema : SchemaPages]

\* The file the account starts from, the values of resume_from_backup that its
\* user passes, the upgrades whose executescript commits halfway, and those that
\* run VACUUM after their commit
Case == [file : Files, approvals : SUBSET BOOLEAN,
         scripted : SUBSET Versions, vacuumed : SUBSET Versions]

ASSUME UpgradeAssumption ==
    /\ MinSupported \in Nat /\ Latest \in Nat /\ MinSupported <= Latest
    /\ Cases \subseteq Case

\* The values that are not versions, and the absence of a frame or of a file, are
\* told apart from what a page or a file may hold.
ASSUME DistinctAssumption ==
    /\ None \notin Versions
    /\ {Half, Mixed, NoTables, Torn} \cap Versions = {}
    /\ Half # Mixed /\ {Half, Mixed} \cap {NoTables, Torn} = {} /\ NoTables # Torn
    /\ {NoTables, Torn} \cap Settings = {}
    /\ Nothing \notin SettingsPages \cup SchemaPages
    /\ NoFile \notin Files

DBFile(version, ongoing, schema) ==
    [settings |-> [version |-> version, ongoing |-> ongoing], schema |-> schema]
Upgraded(v) == DBFile(v, None, v)
EmptyFile == [settings |-> NoTables, schema |-> NoTables]
TornFile == [settings |-> Torn, schema |-> Torn]

HasTables(file) == file.settings \notin {NoTables, Torn}
IsTorn(file) == Torn \in {file.settings, file.schema}

\* get_setting(cursor, 'version'): the software's own version when there is no row
GetVersion ==
    IF Content.settings.version = None THEN software ELSE Content.settings.version

CommitSettings(version, ongoing) ==
    CommitPages([settings |-> [version |-> version, ongoing |-> ongoing],
                 schema |-> Nothing])
CommitSchema(schema) == CommitPages([settings |-> Nothing, schema |-> schema])

At(here, next) == pc = here /\ pc' = next

Init ==
    /\ case \in Cases
    /\ main = case.file
    /\ wal = NoFrames(main)
    /\ backfilled = TRUE
    /\ pc = "closed"
    /\ software \in Versions
    /\ approved = FALSE
    /\ round = MinSupported
    /\ tmp = NoFile
    /\ backups = [v \in Versions |-> NoFile]

-----------------------------------------------------------------------------
\* DataHandler.unlock and DBHandler._connect. A failed login leaves its
\* connection in CONNECTION_MAP; the DBConnection of the next one takes its
\* place there, which closes it.
Connect ==
    /\ pc \in {"closed", "failed"}
    /\ \E s \in Versions : (pc = "failed" => s = software) /\ software' = s
    /\ approved' \in case.approvals
    /\ IF pc = "failed" THEN CloseFile ELSE UNCHANGED fileVars
    /\ pc' = IF IsTorn(Content) THEN "failed" ELSE "check"
    /\ UNCHANGED <<round, tmp, backups>>

\* mutant of NoUnfinishedUpgrade: the flag is not looked at
NoUnfinishedUpgradeUnchecked ==
    /\ At("check", "upgrade")
    /\ UNCHANGED <<main, wal, backfilled, software, approved, round, tmp, backups>>

\* _check_unfinished_upgrades: a new file, or one without the flag
NoUnfinishedUpgrade ==
    /\ At("check", "upgrade")
    /\ HasTables(Content) => Content.settings.ongoing = None
    /\ UNCHANGED <<main, wal, backfilled, software, approved, round, tmp, backups>>

RefuseUnfinished ==
    /\ At("check", "failed")
    /\ HasTables(Content) /\ Content.settings.ongoing # None
    /\ ~approved
    /\ UNCHANGED <<main, wal, backfilled, software, approved, round, tmp, backups>>

\* disconnect(), then the search for a backup of the flagged version
FindBackup ==
    /\ pc = "check"
    /\ HasTables(Content) /\ Content.settings.ongoing # None
    /\ approved
    /\ CloseFile
    /\ round' = Content.settings.ongoing
    /\ pc' = IF backups[Content.settings.ongoing] = NoFile THEN "failed" ELSE "resume"
    /\ UNCHANGED <<software, approved, tmp, backups>>

\* The backup replaces the DB and _connect() runs again. The flag is not
\* looked at again.
UseBackup ==
    /\ pc = "resume"
    /\ ReplaceMain(backups[round])
    /\ pc' = IF IsTorn(backups[round]) THEN "failed" ELSE "upgrade"
    /\ UNCHANGED <<software, approved, round, tmp, backups>>

-----------------------------------------------------------------------------
\* mutant of RunUpgrades: the list starts one version too early
RunUpgradesEarly ==
    /\ pc = "upgrade"
    /\ pc' = IF ~HasTables(Content) THEN "create"
             ELSE IF GetVersion < MinSupported \/ GetVersion > software THEN "failed"
             ELSE "round"
    /\ round' = MinSupported - 1
    /\ UNCHANGED <<main, wal, backfilled, software, approved, tmp, backups>>

\* The head of run_upgrades
RunUpgrades ==
    /\ pc = "upgrade"
    /\ pc' = IF ~HasTables(Content) THEN "create"
             ELSE IF GetVersion < MinSupported \/ GetVersion > software THEN "failed"
             ELSE "round"
    /\ round' = MinSupported
    /\ UNCHANGED <<main, wal, backfilled, software, approved, tmp, backups>>

\* _perform_single_upgrade of a version the DB is not at
SkipUpgrade ==
    /\ At("round", "round")
    /\ round < software /\ GetVersion # round
    /\ round' = round + 1
    /\ UNCHANGED <<main, wal, backfilled, software, approved, tmp, backups>>

\* The backup is a copy of the database file, without its -wal file.
BackupToTmp ==
    /\ At("round", "flag")
    /\ round < software /\ GetVersion = round
    /\ tmp' = main
    /\ UNCHANGED <<main, wal, backfilled, software, approved, round, backups>>

SetFlag ==
    /\ At("flag", "function")
    /\ CommitSettings(Content.settings.version, round)
    /\ UNCHANGED <<software, approved, round, tmp, backups>>

AfterFunction == IF round \in case.vacuumed THEN "vacuum" ELSE "keep"

\* An upgrade function whose only commit is the one of its user_write()
RunFunction ==
    /\ At("function", AfterFunction)
    /\ round \notin case.scripted
    /\ CommitSchema(IF Content.schema = round THEN round + 1 ELSE Mixed)
    /\ UNCHANGED <<software, approved, round, tmp, backups>>

\* executescript commits what the function did so far; the statements after it
\* run outside of a transaction.
RunFirstHalf ==
    /\ At("function", "second")
    /\ round \in case.scripted
    /\ CommitSchema(IF Content.schema = round THEN Half ELSE Mixed)
    /\ UNCHANGED <<software, approved, round, tmp, backups>>

\* One of these statements, which commits by itself
RunStatement ==
    /\ At("second", "second")
    /\ CommitSchema(Content.schema)
    /\ UNCHANGED <<software, approved, round, tmp, backups>>

\* The last of them
RunSecondHalf ==
    /\ At("second", AfterFunction)
    /\ CommitSchema(IF Content.schema = Half THEN round + 1 ELSE Mixed)
    /\ UNCHANGED <<software, approved, round, tmp, backups>>

\* VACUUM rewrites every page and changes none.
Vacuum ==
    /\ At("vacuum", "keep")
    /\ CommitPages(Content)
    /\ UNCHANGED <<software, approved, round, tmp, backups>>

\* The function raises; write_ctx rolls back what it did not commit.
FailFunction ==
    /\ pc \in {"function", "second", "vacuum"}
    /\ pc' = "restore"
    /\ UNCHANGED <<main, wal, backfilled, software, approved, round, tmp, backups>>

\* The except branch: the backup is copied over the open database file.
RestoreBackup ==
    /\ At("restore", "failed")
    /\ ReplaceMain(tmp)
    /\ tmp' = NoFile
    /\ UNCHANGED <<software, approved, round, backups>>

KeepBackup ==
    /\ At("keep", "done")
    /\ backups' = [backups EXCEPT ![round] = tmp]
    /\ tmp' = NoFile
    /\ UNCHANGED <<main, wal, backfilled, software, approved, round>>

\* mutant of FinishUpgrade: the flag goes, the version stays
FinishUpgradeKeepsVersion ==
    /\ At("done", "round")
    /\ CommitSettings(round, None)
    /\ round' = round + 1
    /\ UNCHANGED <<software, approved, tmp, backups>>

FinishUpgrade ==
    /\ At("done", "round")
    /\ CommitSettings(round + 1, None)
    /\ round' = round + 1
    /\ UNCHANGED <<software, approved, tmp, backups>>

\* The tail of run_upgrades: the version is set, whatever the loop did.
SetVersion ==
    /\ At("round", "sanity")
    /\ round = software
    /\ CommitSettings(software, Content.settings.ongoing)
    /\ UNCHANGED <<software, approved, round, tmp, backups>>

-----------------------------------------------------------------------------
\* _run_actions_after_first_connection of a new file
CreateTables ==
    /\ At("create", "insert")
    /\ CommitPages([settings |-> [version |-> None, ongoing |-> None],
                    schema |-> software])
    /\ UNCHANGED <<software, approved, round, tmp, backups>>

InsertVersion ==
    /\ At("insert", "sanity")
    /\ CommitSettings(software, Content.settings.ongoing)
    /\ UNCHANGED <<software, approved, round, tmp, backups>>

\* schema_sanity_check compares the tables with the software's. It finds the
\* tables of another version; those of a half done upgrade may pass.
SanityCheck ==
    /\ pc = "sanity"
    /\ \/ Content.schema \in {software, Half, Mixed} /\ pc' = "open"
       \/ Content.schema # software /\ pc' = "failed"
    /\ UNCHANGED <<main, wal, backfilled, software, approved, round, tmp, backups>>

-----------------------------------------------------------------------------
\* Writes of the session reach neither page; their commits may checkpoint.
Work ==
    /\ At("open", "open")
    /\ CommitPages(NoFrames(main))
    /\ UNCHANGED <<software, approved, round, tmp, backups>>

\* mutant of CreateDBBackup: the name has the version before
CreateDBBackupMisnamed ==
    /\ At("open", "open")
    /\ backups' = [v \in Versions |-> IF v = GetVersion - 1 THEN main ELSE backups[v]]
    /\ UNCHANGED <<main, wal, backfilled, software, approved, round, tmp>>

\* create_db_backup
CreateDBBackup ==
    /\ At("open", "open")
    /\ backups' = [backups EXCEPT ![GetVersion] = main]
    /\ UNCHANGED <<main, wal, backfilled, software, approved, round, tmp>>

Logout ==
    /\ At("open", "closed")
    /\ CloseFile
    /\ UNCHANGED <<software, approved, round, tmp, backups>>

\* The process dies. The temporary directory is not looked at again. A copy that
\* is under way leaves a truncated file.
Crash ==
    /\ pc # "closed" /\ pc' = "closed"
    /\ backfilled' = FALSE
    /\ main' \in {main} \cup (IF pc \in {"resume", "restore"} THEN {TornFile} ELSE {})
    /\ backups' \in {backups}
          \cup (IF pc = "keep" THEN {[backups EXCEPT ![round] = TornFile]} ELSE {})
          \cup (IF pc = "open" THEN {[backups EXCEPT ![GetVersion] = TornFile]} ELSE {})
    /\ tmp' = NoFile
    /\ UNCHANGED <<wal, software, approved, round>>

Step ==
    \/ Connect \/ NoUnfinishedUpgrade \/ RefuseUnfinished \/ FindBackup \/ UseBackup
    \/ RunUpgrades \/ SkipUpgrade \/ BackupToTmp \/ SetFlag \/ RunFunction
    \/ RunFirstHalf \/ RunStatement \/ RunSecondHalf \/ Vacuum \/ FailFunction \/ RestoreBackup
    \/ KeepBackup \/ FinishUpgrade \/ SetVersion \/ CreateTables \/ InsertVersion
    \/ SanityCheck \/ Work \/ CreateDBBackup \/ Logout \/ Crash

Next == Step /\ UNCHANGED case

Spec == Init /\ [][Next]_vars

-----------------------------------------------------------------------------
\* The variables stay in their types.
TypeOK ==
    /\ case \in Cases
    /\ main \in Files
    /\ wal \in [settings : SettingsPages \cup {Nothing}, schema : SchemaPages \cup {Nothing}]
    /\ backfilled \in BOOLEAN
    /\ pc \in {"closed", "failed", "check", "resume", "upgrade", "round", "flag",
              "function", "second", "vacuum", "restore", "keep", "done", "create",
              "insert", "sanity", "open"}
    /\ software \in Versions
    /\ approved \in BOOLEAN
    /\ round \in Versions
    /\ tmp \in Files \cup {NoFile}
    /\ backups \in [Versions -> Files \cup {NoFile}]

\* What the next process reads if this one dies now
Replayed == Overlay(main, wal)

\* The tables are those of the recorded version, or the file says that an
\* upgrade is under way.
Sound(file) ==
    HasTables(file) => \/ file.settings.ongoing # None
                       \/ file.settings.version \in {None, file.schema}

\* The account was created completely, its user resumes nothing from a backup,
\* and the commit of its tables is the last thing that an upgrade on its way does.
Plain ==
    /\ \E v \in Versions : case.file = Upgraded(v)
    /\ case.approvals = {FALSE} /\ case.scripted = {} /\ case.vacuumed = {}

\* A session of a plain account only ever works on a DB that is completely
\* upgraded to the version of the running software: DBHandler.__init__ returns
\* with the version, the tables and the flag all agreeing, whatever failed or
\* crashed before.
OpenIsUpgraded == Plain /\ pc = "open" => Content = Upgraded(software)

\* The DB of a plain account whose tables do not match its version carries the
\* flag that _check_unfinished_upgrades looks for, at every moment, so that a
\* login after a crash or a failed upgrade cannot mistake it for a whole one.
HalfUpgradedIsFlagged ==
    Plain /\ pc \in {"closed", "failed"} =>
        \A file \in {Content, Replayed} : IsTorn(file) \/ Sound(file)

\* A backup named after version v never holds a newer DB, so that resuming an
\* upgrade from v cannot end in "Your database version is newer than the version
\* expected by the executable".
BackupsAreNotNewer ==
    \A v \in Versions : backups[v] # NoFile /\ HasTables(backups[v])
                         => backups[v].settings.version \in {None} \cup (MinSupported .. v)

\* "If something went wrong during upgrade restore backup and quit"
\* (_perform_single_upgrade): after a failed upgrade the DB is not left marked
\* as half upgraded.
FailedUpgradeIsRestored ==
    [][RestoreBackup => Content'.settings.ongoing = None]_vars
=============================================================================
