---------------------------- MODULE PremiumSync ----------------------------
(***************************************************************************)
(* Premium synchronisation of the user DB with the rotki server: the check *)
(* at login (try_premium_at_start), the automatic and the forced upload,   *)
(* and the download that replaces the local DB (premium/sync.py,           *)
(* data_handler.py, DBHandler.import_unencrypted).                         *)
(*                                                                         *)
(* A few devices share one premium account.  A DB is the set of user edits *)
(* it holds and the settings that the synchronisation looks at.  The size  *)
(* of a DB is the number of its edits.  Requests to the server may fail,   *)
(* an answer may be lost, the program may crash at any step, and the       *)
(* clocks of the devices differ by Ahead.                                  *)
(***************************************************************************)
EXTENDS Integers, FiniteSets

CONSTANTS Device,      \* installations of rotki with the same premium keys
          MaxAhead,    \* bound: how much a clock may be fast
          Ahead,       \* Ahead[d]: how much the clock of d is fast
          AppVersion,  \* AppVersion[d]: ROTKEHLCHEN_DB_VERSION of d's rotki
          MaxClock,    \* bound: last moment of the run
          MaxEdits,    \* bound: edits the user makes on all devices
          MaxLogins,   \* bound: times the accounts are opened
          MaxTransfers,\* bound: uploads and downloads that are started
          NoFile       \* there is no such file

ASSUME SyncAssumption ==
  /\ MaxAhead \in Nat /\ Ahead \in [Device -> 0..MaxAhead]
  /\ AppVersion \in [Device -> Nat \ {0}]
  /\ MaxClock \in Nat /\ MaxEdits \in Nat /\ MaxLogins \in Nat /\ MaxTransfers \in Nat

VARIABLES
  clock,    \* seconds since the start
  logins, transfers,   \* how many there were, for the bounds on them
  entered,  \* entered[d]: the edits the user made on d
  disk,     \* disk[d]: the DB of d, its -wal file included, or NoFile
  main,     \* main[d]: the edits that are in the DB's main file already
  temp,     \* temp[d]: the edits in rotkehlchen_temp_backup.db, or NoFile
  dated,    \* dated[d][t]: the edits in the *.backup file that is named after second t
  moved,    \* moved[d]: the edits in auto_backup_* directories
  remote,   \* the DB at the server and the last_modify_ts of its metadata
  sess,     \* sess[d]: where the session of d is
  approval, \* approval[d]: the sync_approval of the next login on d
  pull,     \* pull[d]: where _sync_data_from_server_and_replace_local is
  up,       \* up[d][k]: where maybe_upload_data_to_server is
  walOnly,  \* history: edits that were not in the main file when it was backed up
  overwritten, \* history: edits of a dated backup that another one has replaced
  unsaved   \* history: edits made during an import, and those of walOnly
            \* whose temporary backup is gone

counts == <<clock, logins, transfers>>
backups == <<temp, dated, moved, walOnly, overwritten, unsaved>>
files  == <<disk, main, backups>>
vars   == <<counts, entered, files, remote, sess, approval, pull, up>>

-----------------------------------------------------------------------------
Edit   == 1..MaxEdits
Upload == {"auto", "api"}   \* the background task and the API call (forced)
Time   == 0..(MaxClock + MaxAhead)
Version == {AppVersion[d] : d \in Device}

DB == [edits : SUBSET Edit, ts : Time, sync : BOOLEAN, version : Version]

\* A file that is missing is told apart from a DB and from the edits in a backup.
ASSUME NoFileAssumption == NoFile \notin DB /\ \A s \in SUBSET Edit : s # NoFile

\* ts is the setting last_write_ts, sync the setting premium_should_sync.
EmptyDB(d) == [edits |-> {}, ts |-> 0, sync |-> FALSE, version |-> AppVersion[d]]
Size(db)   == IF db = NoFile THEN 0 ELSE Cardinality(db.edits)
EditsOf(file) == IF file = NoFile THEN {} ELSE file

ts_now(d) == clock + Ahead[d]

\* The edits of d that are in a dated backup or in a directory moved away
Kept(d) == moved[d] \cup UNION {dated[d][t] : t \in Time}

NoSession == [pc |-> "out", new |-> FALSE, premium |-> FALSE, left |-> 0]
NoPull    == [pc |-> "idle", blob |-> NoFile]
NoUpload  == [pc |-> "idle", meta |-> NoFile, ts |-> 0, blob |-> NoFile]
NoRemote  == [db |-> NoFile, ts |-> 0]

Init ==
  /\ clock = 0 /\ logins = 0 /\ transfers = 0
  /\ entered = [d \in Device |-> {}]
  /\ disk = [d \in Device |-> NoFile]
  /\ main = [d \in Device |-> {}]
  /\ temp = [d \in Device |-> NoFile]
  /\ dated = [d \in Device |-> [t \in Time |-> {}]]
  /\ moved = [d \in Device |-> {}]
  /\ remote = NoRemote
  /\ sess = [d \in Device |-> NoSession]
  /\ approval = [d \in Device |-> "unknown"]
  /\ pull = [d \in Device |-> NoPull]
  /\ up = [d \in Device |-> [k \in Upload |-> NoUpload]]
  /\ walOnly = [d \in Device |-> {}]
  /\ overwritten = [d \in Device |-> {}]
  /\ unsaved = [d \in Device |-> {}]

-----------------------------------------------------------------------------
(* The connection.  While import_unencrypted copies the received DB,        *)
(* self.conn is a connection to a temporary file with that DB, which other  *)
(* greenlets then use; while it reconnects self.conn is None.               *)

Current(d)   == IF pull[d].pc = "copy" THEN pull[d].blob ELSE disk[d]
Connected(d) == pull[d].pc # "reconnect"

\* What a user_write leaves: write_ctx sets last_write_ts before the commit.
Written(d, db) == [db EXCEPT !.ts = ts_now(d)]

\* A user_write of another greenlet than the one that imports.  A write to the
\* temporary file is lost when its table has been copied already.
user_write(d, db) ==
  /\ Connected(d)
  /\ \/ /\ pull[d].pc # "copy"
        /\ disk' = [disk EXCEPT ![d] = Written(d, db)]
        /\ pull' = pull
     \/ /\ pull[d].pc = "copy"
        /\ pull' \in {pull, [pull EXCEPT ![d].blob = Written(d, db)]}
        /\ disk' = disk

-----------------------------------------------------------------------------
(* Login.                                                                   *)

\* DBHandler.__init__ on an existing file: run_upgrades refuses a DB of a newer
\* version, otherwise it writes the version; the user_write at the end follows.
Opened(d, db) == Written(d, [db EXCEPT !.version = AppVersion[d]])

\* left is a history until the check is over: the last_write_ts that the last
\* session left.
NewSession(d, new) ==
  [NoSession EXCEPT !.pc = "opened", !.new = new, !.left = IF new THEN 0 ELSE disk[d].ts]

\* unlock_user up to try_premium_at_start, for an account that exists.
Login(d) ==
  /\ sess[d].pc = "out"
  /\ logins < MaxLogins /\ logins' = logins + 1
  /\ disk[d] # NoFile /\ disk[d].version <= AppVersion[d]
  /\ sess' = [sess EXCEPT ![d] = NewSession(d, FALSE)]
  /\ disk' = [disk EXCEPT ![d] = Opened(d, disk[d])]
  /\ UNCHANGED <<clock, transfers, entered, main, backups, remote, approval, pull, up>>

\* The same for a new account, with initial settings that turn the
\* synchronisation on.  A directory without a DB file may exist.
CreateAccount(d) ==
  /\ sess[d].pc = "out"
  /\ logins < MaxLogins /\ logins' = logins + 1
  /\ disk[d] = NoFile
  /\ sess' = [sess EXCEPT ![d] = NewSession(d, TRUE)]
  /\ disk' = [disk EXCEPT ![d] = Opened(d, [EmptyDB(d) EXCEPT !.sync = TRUE])]
  /\ main' = [main EXCEPT ![d] = {}]
  /\ UNCHANGED <<clock, transfers, entered, backups, remote, approval, pull, up>>

\* The user's directory, with all backups in it, becomes auto_backup_<user>_<ts>.
MoveDirectory(d, edits) ==
  /\ moved' = [moved EXCEPT ![d] = edits \cup EditsOf(temp[d]) \cup Kept(d)]
  /\ dated' = [dated EXCEPT ![d] = [t \in Time |-> {}]]
  /\ temp' = [temp EXCEPT ![d] = NoFile]

\* DataHandler.unlock of a directory whose DB file is missing.
LoginWithoutFile(d) ==
  /\ sess[d].pc = "out"
  /\ disk[d] = NoFile /\ temp[d] # NoFile
  /\ MoveDirectory(d, {})
  /\ UNCHANGED <<counts, entered, disk, main, walOnly, overwritten, unsaved, remote,
                 sess, approval, pull, up>>

\* The last connection is closed: sqlite checkpoints the -wal file.
CloseDB(d) == main' = [main EXCEPT ![d] = disk[d].edits]

\* mutant of PremiumRejected: the directory of a new account is moved away, but
\* no exception ends the login
PremiumRejectedGoesOn(d) ==
  /\ sess[d].pc = "opened"
  /\ sess' = [sess EXCEPT ![d].pc = "migrate", ![d].left = 0]
  /\ IF sess[d].new
     THEN /\ MoveDirectory(d, disk[d].edits)
          /\ disk' = [disk EXCEPT ![d] = NoFile]
          /\ main' = [main EXCEPT ![d] = {}]
     ELSE UNCHANGED <<disk, main, temp, dated, moved>>
  /\ UNCHANGED <<counts, entered, walOnly, overwritten, unsaved, remote, approval, pull,
                 up>>

\* premium_create_and_verify raises: the keys are rejected or the server is
\* not reached.  _abort_new_syncing_premium_user removes a new account, an
\* old one goes on without premium.
PremiumRejected(d) ==
  /\ sess[d].pc = "opened"
  /\ \/ /\ sess[d].new
        /\ MoveDirectory(d, disk[d].edits)
        /\ disk' = [disk EXCEPT ![d] = NoFile]
        /\ main' = [main EXCEPT ![d] = {}]
        /\ sess' = [sess EXCEPT ![d] = NoSession]
     \/ /\ ~sess[d].new
        /\ sess' = [sess EXCEPT ![d].pc = "migrate", ![d].left = 0]
        /\ UNCHANGED <<disk, main, temp, dated, moved>>
  /\ UNCHANGED <<counts, entered, walOnly, overwritten, unsaved, remote, approval, pull,
                 up>>

\* _can_sync_data_from_server when the metadata arrives.
can_sync_data_from_server(d) ==
  IF sess[d].new THEN "yes"
  ELSE IF ~disk[d].sync \/ disk[d].ts >= remote.ts THEN "no"
  ELSE "ask"

\* _sync_if_allowed: whether the remote DB is to be pulled.
MayPull(d, result) ==
  \/ result = "yes"
  \/ result = "ask" /\ approval[d] = "yes"

\* try_premium_at_start with accepted keys.  sync_database is only looked at
\* for a new account; result is "failed" when the metadata did not arrive.
CheckAtLogin(d, result, sync_database) ==
  /\ ~(result = "ask" /\ approval[d] = "unknown")
  /\ LET pulls == MayPull(d, result) /\ sync_database IN
       /\ sess' = [sess EXCEPT ![d].pc = IF pulls THEN "pull" ELSE "migrate",
                               ![d].premium = TRUE, ![d].left = 0]
       /\ pull' = IF pulls THEN [pull EXCEPT ![d].pc = "pull"] ELSE pull
  /\ UNCHANGED <<counts, entered, files, remote, approval, up>>

\* RotkehlchenPermissionError: the login fails, the DB is closed, and the user
\* says what the next login shall do.
AskUser(d) ==
  /\ sess[d].pc = "opened"
  /\ can_sync_data_from_server(d) = "ask" /\ approval[d] = "unknown"
  /\ \E answer \in {"yes", "no"} : approval' = [approval EXCEPT ![d] = answer]
  /\ sess' = [sess EXCEPT ![d] = NoSession]
  /\ CloseDB(d)
  /\ UNCHANGED <<counts, entered, disk, backups, remote, pull, up>>

TryPremiumAtStart(d) ==
  \/ PremiumRejected(d)
  \/ AskUser(d)
  \/ /\ sess[d].pc = "opened"
     /\ \E result \in {"failed", can_sync_data_from_server(d)},
           sync_database \in (IF sess[d].new THEN BOOLEAN ELSE {TRUE}) :
          CheckAtLogin(d, result, sync_database)

\* The rest of unlock_user: maybe_migrate_data always writes a setting.
FinishLogin(d) ==
  /\ sess[d].pc = "migrate"
  /\ sess' = [sess EXCEPT ![d].pc = "in", ![d].new = FALSE]
  /\ approval' = [approval EXCEPT ![d] = "unknown"]
  /\ disk' = [disk EXCEPT ![d] = Written(d, @)]
  /\ UNCHANGED <<counts, entered, main, backups, remote, pull, up>>

-----------------------------------------------------------------------------
(* _sync_data_from_server_and_replace_local.                                *)

\* The pull is over and the session goes on: a login ignores what the pull
\* returned, and the error of a DB that cannot be decrypted too.
EndPull(d) ==
  /\ pull' = [pull EXCEPT ![d] = NoPull]
  /\ sess' = IF sess[d].pc = "pull" THEN [sess EXCEPT ![d].pc = "migrate"] ELSE sess

\* sync_data('download').
Download(d) ==
  /\ sess[d].pc = "in" /\ sess[d].premium
  /\ pull[d].pc = "idle" /\ up[d]["api"].pc = "idle"
  /\ transfers < MaxTransfers /\ transfers' = transfers + 1
  /\ pull' = [pull EXCEPT ![d].pc = "pull"]
  /\ UNCHANGED <<clock, logins, entered, files, remote, sess, approval, up>>

\* pull_data answers, fails, or finds nothing.
PullData(d) ==
  /\ pull[d].pc = "pull"
  /\ \/ /\ remote.db # NoFile
        /\ pull' = [pull EXCEPT ![d] = [pc |-> "replace", blob |-> remote.db]]
        /\ sess' = sess
     \/ EndPull(d)
  /\ UNCHANGED <<counts, entered, files, remote, approval, up>>

\* decompress_and_decrypt_db: copyfile takes the main file only, and overwrites
\* the backup of another download in the same second.
Backup(d) ==
  /\ dated' = [dated EXCEPT ![d][ts_now(d)] = main[d]]
  /\ overwritten' = [overwritten EXCEPT ![d] = @ \cup (dated[d][ts_now(d)] \ main[d])]
  /\ walOnly' = [walOnly EXCEPT ![d] = @ \cup (disk[d].edits \ main[d])]

\* The remote DB has another password.
UnableToDecrypt(d) ==
  /\ pull[d].pc = "replace"
  /\ \/ /\ ~sess[d].new
        /\ Backup(d)
        /\ EndPull(d)
        /\ UNCHANGED <<disk, main, temp, moved, unsaved>>
     \/ /\ sess[d].new   \* _abort_new_syncing_premium_user
        /\ MoveDirectory(d, disk[d].edits)
        /\ disk' = [disk EXCEPT ![d] = NoFile]
        /\ main' = [main EXCEPT ![d] = {}]
        /\ sess' = [sess EXCEPT ![d] = NoSession]
        /\ pull' = [pull EXCEPT ![d] = NoPull]
        /\ UNCHANGED <<walOnly, overwritten, unsaved>>
  /\ UNCHANGED <<counts, entered, remote, approval, up>>

\* What is only in a temporary backup goes with it.
DropTemp(d) == unsaved' = [unsaved EXCEPT ![d] = @ \cup (EditsOf(temp[d]) \cap walOnly[d])]

\* mutant of ReplaceFile: the DB file is removed without a copy
ReplaceWithoutCopy(d) ==
  /\ pull[d].pc = "replace"
  /\ Backup(d)
  /\ disk' = [disk EXCEPT ![d] = NoFile]
  /\ main' = [main EXCEPT ![d] = {}]
  /\ pull' = [pull EXCEPT ![d].pc = "copy"]
  /\ UNCHANGED <<counts, entered, temp, moved, unsaved, remote, sess, approval, up>>

\* The start of import_unencrypted: wal_checkpoint, disconnect, copy, unlink.
ReplaceFile(d) ==
  /\ pull[d].pc = "replace"
  /\ Backup(d)
  /\ DropTemp(d)
  /\ temp' = [temp EXCEPT ![d] = disk[d].edits]
  /\ disk' = [disk EXCEPT ![d] = NoFile]
  /\ main' = [main EXCEPT ![d] = {}]
  /\ pull' = [pull EXCEPT ![d].pc = "copy"]
  /\ UNCHANGED <<counts, entered, moved, remote, sess, approval, up>>

\* sqlcipher_export into the new file.
CopyDB(d) ==
  /\ pull[d].pc = "copy"
  /\ disk' = [disk EXCEPT ![d] = pull[d].blob]
  /\ main' = [main EXCEPT ![d] = pull[d].blob.edits]
  /\ pull' = [pull EXCEPT ![d].pc = "reconnect"]
  /\ UNCHANGED <<counts, entered, backups, remote, sess, approval, up>>

\* _connect and _run_actions_after_first_connection, then the unlink of the
\* temporary backup; an API call also runs maybe_migrate_data.
Reconnect(d) ==
  /\ pull[d].pc = "reconnect" /\ disk[d].version <= AppVersion[d]
  /\ disk' = [disk EXCEPT ![d] = Opened(d, @)]
  /\ DropTemp(d)
  /\ temp' = [temp EXCEPT ![d] = NoFile]
  /\ EndPull(d)
  /\ UNCHANGED <<counts, entered, main, dated, moved, walOnly, overwritten, remote,
                 approval, up>>

\* DBUpgradeError: the received DB is of a newer version.  A login fails with
\* it; an API call fails and the session stays connected to that DB.
ReconnectTooNew(d) ==
  /\ pull[d].pc = "reconnect" /\ disk[d].version > AppVersion[d]
  /\ pull' = [pull EXCEPT ![d] = NoPull]
  /\ sess' = IF sess[d].pc = "pull" THEN [sess EXCEPT ![d] = NoSession] ELSE sess
  /\ UNCHANGED <<counts, entered, files, remote, approval, up>>

ReplaceLocal(d) ==
  \/ Download(d) \/ PullData(d) \/ UnableToDecrypt(d) \/ ReplaceFile(d)
  \/ CopyDB(d) \/ Reconnect(d) \/ ReconnectTooNew(d)

-----------------------------------------------------------------------------
(* maybe_upload_data_to_server.                                             *)

\* The upload ends: refused, failed or done.
EndUpload(d, k) == up' = [up EXCEPT ![d][k] = NoUpload]

\* Whether the hour since the last attempt is over is left open.
check_if_should_sync(d, k) ==
  /\ sess[d].premium
  /\ k = "auto" => Current(d).sync

\* The metadata arrives and our_last_write_ts is read.  When the metadata does
\* not arrive, or an automatic upload finds the remote DB more recent, the
\* attempt is over and nothing has changed.
UploadCheck(d, k) ==
  /\ sess[d].pc = "in" /\ Connected(d)
  /\ up[d][k].pc = "idle"
  /\ transfers < MaxTransfers /\ transfers' = transfers + 1
  /\ k = "api" => pull[d].pc = "idle"
  /\ check_if_should_sync(d, k)
  /\ k = "auto" => Current(d).ts > remote.ts
  /\ up' = [up EXCEPT ![d][k] =
              [pc |-> "export", meta |-> IF k = "auto" THEN remote.db ELSE NoFile,
               ts |-> Current(d).ts, blob |-> NoFile]]
  /\ UNCHANGED <<clock, logins, entered, files, remote, sess, approval, pull>>

\* mutant of Sendable: sizes are not compared
SendableAnySize(db, meta) == db # meta

\* The automatic upload sends nothing that has the same hash as the remote DB,
\* and nothing smaller.
Sendable(db, meta) == db # meta /\ Size(db) >= Size(meta)

\* compress_and_encrypt_db in its critical section, which also checkpoints.
UploadExport(d, k) ==
  /\ up[d][k].pc = "export" /\ Connected(d)
  /\ main' = IF pull[d].pc = "copy" THEN main
             ELSE [main EXCEPT ![d] = disk[d].edits]
  /\ IF k = "api" \/ Sendable(Current(d), up[d][k].meta)
     THEN up' = [up EXCEPT ![d][k].pc = "send", ![d][k].blob = Current(d)]
     ELSE EndUpload(d, k)
  /\ UNCHANGED <<counts, entered, disk, backups, remote, sess, approval, pull>>

\* upload_data: it may fail, and it may fail although the server has the data.
UploadSend(d, k) ==
  /\ up[d][k].pc = "send"
  /\ LET sent == [db |-> up[d][k].blob, ts |-> up[d][k].ts] IN
       \/ remote' = sent /\ up' = [up EXCEPT ![d][k] = [NoUpload EXCEPT !.pc = "mark"]]
       \/ remote' \in {remote, sent} /\ EndUpload(d, k)
  /\ UNCHANGED <<counts, entered, files, sess, approval, pull>>

\* LAST_DATA_UPLOAD_TS is written to the DB, which moves its last_write_ts.
UploadMark(d, k) ==
  /\ up[d][k].pc = "mark"
  /\ user_write(d, Current(d))
  /\ EndUpload(d, k)
  /\ UNCHANGED <<counts, entered, main, backups, remote, sess, approval>>

\* An exception nobody expects: self.conn is None while a download reconnects.
UploadDies(d, k) ==
  /\ up[d][k].pc \in {"export", "mark"} /\ ~Connected(d)
  /\ EndUpload(d, k)
  /\ UNCHANGED <<counts, entered, files, remote, sess, approval, pull>>

MaybeUpload(d) ==
  \E k \in Upload : \/ UploadCheck(d, k) \/ UploadExport(d, k)
                     \/ UploadSend(d, k)  \/ UploadMark(d, k) \/ UploadDies(d, k)

-----------------------------------------------------------------------------
(* The user, time and failures.                                             *)

\* Some API call that writes to the DB.
MakeEdit(d) ==
  /\ sess[d].pc = "in"
  /\ LET e == Cardinality(UNION {entered[x] : x \in Device}) + 1 IN
       /\ e \in Edit
       /\ entered' = [entered EXCEPT ![d] = @ \cup {e}]
       /\ user_write(d, [Current(d) EXCEPT !.edits = @ \cup {e}])
       /\ unsaved' = IF pull[d].pc # "copy" THEN unsaved
                     ELSE [unsaved EXCEPT ![d] = @ \cup {e}]
  /\ UNCHANGED <<counts, main, temp, dated, moved, walOnly, overwritten, remote, sess,
                 approval, up>>

EndSession(d) ==
  /\ sess' = [sess EXCEPT ![d] = NoSession]
  /\ pull' = [pull EXCEPT ![d] = NoPull]
  /\ up' = [up EXCEPT ![d] = [k \in Upload |-> NoUpload]]

\* _logout kills the tasks and closes the DB.  A download it kills leaves the
\* same files as a crash.
Logout(d) ==
  /\ sess[d].pc = "in" /\ pull[d].pc = "idle"
  /\ EndSession(d)
  /\ CloseDB(d)
  /\ UNCHANGED <<counts, entered, disk, backups, remote, approval>>

\* The files a crash leaves: what sqlcipher_export had copied so far.
AfterCrash(d) ==
  IF pull[d].pc = "copy"
  THEN {NoFile} \cup {[EmptyDB(d) EXCEPT !.edits = s] : s \in SUBSET pull[d].blob.edits}
  ELSE {disk[d]}

Crash(d) ==
  /\ sess[d].pc # "out"
  /\ EndSession(d)
  /\ \E db \in AfterCrash(d) :
       /\ disk' = [disk EXCEPT ![d] = db]
       /\ main' = IF pull[d].pc = "copy" /\ db # NoFile
                  THEN [main EXCEPT ![d] = db.edits] ELSE main
  /\ approval' = [approval EXCEPT ![d] = "unknown"]
  /\ UNCHANGED <<counts, entered, backups, remote>>

Tick ==
  /\ clock < MaxClock
  /\ clock' = clock + 1
  /\ UNCHANGED <<logins, transfers, entered, files, remote, sess, approval, pull, up>>

Next ==
  \/ \E d \in Device :
       \/ Login(d) \/ CreateAccount(d) \/ LoginWithoutFile(d)
       \/ TryPremiumAtStart(d) \/ FinishLogin(d)
       \/ ReplaceLocal(d) \/ MaybeUpload(d)
       \/ MakeEdit(d) \/ Logout(d) \/ Crash(d)
  \/ Tick

Spec == Init /\ [][Next]_vars

-----------------------------------------------------------------------------
\* Every variable keeps its type; a session that is logged in has a DB file
\* unless a download is replacing it.
TypeOK ==
  /\ clock \in 0..MaxClock /\ logins \in 0..MaxLogins /\ transfers \in 0..MaxTransfers
  /\ entered \in [Device -> SUBSET Edit]
  /\ \A d \in Device :
       /\ disk[d] \in DB \cup {NoFile}
       /\ EditsOf(temp[d]) \subseteq Edit
       /\ disk[d] = NoFile => sess[d].pc = "out" \/ pull[d].pc = "copy"
       /\ pull[d].pc # "idle" => sess[d].pc \in {"pull", "in"}
  /\ main \in [Device -> SUBSET Edit] /\ \A d \in Device : Kept(d) \subseteq Edit
  /\ remote \in [db : DB \cup {NoFile}, ts : Time]
  /\ unsaved \in [Device -> SUBSET Edit]

\* What the user enters on a device stays in a file of that device (its DB, the
\* temporary backup of import_unencrypted, a dated backup, or the directory
\* that unlock or a failed account creation moved away), whatever is pulled
\* over it and wherever the program crashes.  There are three exceptions, which
\* the histories record and which lose edits: an edit made while an import runs;
\* an edit of the -wal file, which the dated backup does not have, once the
\* temporary backup is removed; and an edit of a dated backup that a second
\* download in the same second overwrites, since both get the same name.
EditsSurvive ==
  \A d \in Device :
    entered[d] \subseteq (IF disk[d] = NoFile THEN {} ELSE disk[d].edits)
                         \cup EditsOf(temp[d]) \cup Kept(d)
                         \cup unsaved[d] \cup overwritten[d]

\* The remote DB gets smaller only by an upload the user forces, or by an
\* automatic one that was checked against a remote DB that another upload has
\* replaced since: maybe_upload_data_to_server compares sizes, but not at the
\* moment of the upload.
ShrinksOnlyByForceOrRace ==
  [][Size(remote'.db) < Size(remote.db) =>
       \E d \in Device, k \in Upload :
         /\ up[d][k].pc = "send" /\ up'[d][k].pc # "send"
         /\ k = "api" \/ up[d][k].meta # remote.db]_vars

\* When the remote DB was modified after the last session of this device, the
\* check at login finds it more recent than the local one and has the user
\* asked.
NewerRemoteIsAskedFor ==
  \A d \in Device :
    sess[d].pc = "opened" /\ ~sess[d].new /\ disk[d].sync /\ remote.ts > sess[d].left
      => can_sync_data_from_server(d) = "ask"
=============================================================================
