------------------------- MODULE PremiumSyncProofs -------------------------
(***************************************************************************)
(* Proofs of TypeOK, EditsSurvive and ShrinksOnlyByForceOrRace of          *)
(* PremiumSync for any number of devices, edits, logins and transfers, any *)
(* clocks and any versions.                                                *)
(*                                                                         *)
(* EditsSurvive is not inductive.  An edit may be in the temporary backup  *)
(* only, which the next import overwrites, so the invariant also says that *)
(* whatever is in it is in a dated backup, or was in one that has been     *)
(* overwritten, or is counted in walOnly.  And a step may only read or     *)
(* replace a file that is there, which depends on where the session and    *)
(* the download are (FileInv).  All of it speaks of one device, and a step *)
(* changes the files of one device (OtherDevices).                         *)
(***************************************************************************)
EXTENDS PremiumSync, FiniteSetTheorems, TLAPS

File    == DB \cup {NoFile}
Session == [pc : {"out", "opened", "pull", "migrate", "in"}, new : BOOLEAN,
            premium : BOOLEAN, left : Time]
Pull    == [pc : {"idle", "pull", "replace", "copy", "reconnect"}, blob : File]
Sending == [pc : {"idle", "export", "send", "mark"}, meta : File, ts : Time, blob : File]

Types ==
  /\ clock \in 0..MaxClock /\ logins \in 0..MaxLogins /\ transfers \in 0..MaxTransfers
  /\ entered \in [Device -> SUBSET Edit]
  /\ disk \in [Device -> File]
  /\ main \in [Device -> SUBSET Edit]
  /\ temp \in [Device -> {NoFile} \cup SUBSET Edit]
  /\ dated \in [Device -> [Time -> SUBSET Edit]]
  /\ moved \in [Device -> SUBSET Edit]
  /\ walOnly \in [Device -> SUBSET Edit]
  /\ overwritten \in [Device -> SUBSET Edit]
  /\ unsaved \in [Device -> SUBSET Edit]
  /\ remote \in [db : File, ts : Time]
  /\ sess \in [Device -> Session]
  /\ approval \in [Device -> {"unknown", "yes", "no"}]
  /\ pull \in [Device -> Pull]
  /\ up \in [Device -> [Upload -> Sending]]

\* Which files and blobs are there at each point of a session on d
FileInv(d) ==
  /\ disk[d] = NoFile => sess[d].pc = "out" \/ pull[d].pc = "copy"
  /\ pull[d].pc = "copy" => disk[d] = NoFile
  /\ pull[d].pc # "idle" => sess[d].pc \in {"pull", "in"}
  /\ pull[d].pc \in {"replace", "copy", "reconnect"} => pull[d].blob # NoFile
  /\ sess[d].pc = "pull" => pull[d].pc # "idle"
  /\ sess[d].new => sess[d].pc \in {"opened", "pull", "migrate"}
  /\ \A k \in Upload : up[d][k].pc # "idle" => sess[d].pc = "in"

\* The edits of d are in its files or lost in one of the ways that are recorded,
\* and those of a temporary backup are also in a dated one, or were in one that
\* has been overwritten, or in the -wal file when that was made.
EditsInv(d) ==
  /\ entered[d] \subseteq (IF disk[d] = NoFile THEN {} ELSE disk[d].edits)
                          \cup EditsOf(temp[d]) \cup Kept(d)
                          \cup unsaved[d] \cup overwritten[d]
  /\ EditsOf(temp[d]) \subseteq Kept(d) \cup walOnly[d] \cup overwritten[d]

\* What an automatic upload is about to send is not smaller than the DB that was
\* at the server when it looked.
SizeInv(d) == up[d]["auto"].pc = "send" => Size(up[d]["auto"].blob) >= Size(up[d]["auto"].meta)

DeviceInv(d) == FileInv(d) /\ EditsInv(d) /\ SizeInv(d)

Inv == Types /\ \A d \in Device : DeviceInv(d)

-----------------------------------------------------------------------------
\* What a user_write and the opening of a DB keep
LEMMA DBFacts ==
  ASSUME Types, NEW d \in Device, NEW db \in DB
  PROVE  /\ ts_now(d) \in Time
         /\ Written(d, db) \in DB /\ Written(d, db).edits = db.edits
         /\ Written(d, db).ts = ts_now(d)
         /\ Opened(d, db) \in DB /\ Opened(d, db).edits = db.edits
         /\ Opened(d, db).ts = ts_now(d)
<1>1. ts_now(d) \in Time
  BY SyncAssumption DEF Types, ts_now, Time
<1>2. AppVersion[d] \in Version
  BY Zenon DEF Version
<1>3. ASSUME NEW x \in DB
      PROVE  Written(d, x) \in DB /\ Written(d, x).edits = x.edits
             /\ Written(d, x).ts = ts_now(d)
  BY Zenon, <1>1, <1>3 DEF Written, DB
<1>4. [db EXCEPT !.version = AppVersion[d]] \in DB
      /\ [db EXCEPT !.version = AppVersion[d]].edits = db.edits
  BY Zenon, <1>2 DEF DB
<1>. QED
  BY Zenon, <1>1, <1>3, <1>4 DEF Opened

\* A new DB, and what a crash leaves of one that is being filled
LEMMA EmptyFacts ==
  ASSUME Types, NEW d \in Device, NEW s \in SUBSET Edit
  PROVE  /\ [EmptyDB(d) EXCEPT !.sync = TRUE] \in DB
         /\ [EmptyDB(d) EXCEPT !.edits = s] \in DB
         /\ [EmptyDB(d) EXCEPT !.edits = s].edits = s
<1>1. 0 \in Time
  BY SyncAssumption DEF Time
<1>. QED
  BY Zenon, <1>1 DEF EmptyDB, DB, Version

\* The values a session, a download and an upload start from
LEMMA IdleFacts == NoSession \in Session /\ NoPull \in Pull /\ NoUpload \in Sending
                   /\ [NoUpload EXCEPT !.pc = "mark"] \in Sending
<1>1. 0 \in Time
  BY SyncAssumption DEF Time
<1>. QED
  BY Zenon, <1>1 DEF NoSession, NoPull, NoUpload, Session, Pull, Sending, File

\* Only device d is touched.
Local(d) ==
  \A e \in Device \ {d} :
       /\ disk'[e] = disk[e] /\ main'[e] = main[e] /\ temp'[e] = temp[e]
       /\ dated'[e] = dated[e] /\ moved'[e] = moved[e] /\ walOnly'[e] = walOnly[e]
       /\ overwritten'[e] = overwritten[e] /\ unsaved'[e] = unsaved[e]
       /\ entered'[e] = entered[e]
       /\ sess'[e] = sess[e] /\ pull'[e] = pull[e] /\ up'[e] = up[e]

LEMMA OtherDevices ==
  ASSUME NEW d \in Device, Local(d), \A e \in Device : DeviceInv(e), DeviceInv(d)'
  PROVE  \A e \in Device : DeviceInv(e)'
<1>1. SUFFICES ASSUME NEW e \in Device \ {d}
               PROVE  DeviceInv(e)'
  BY Zenon
<1>. USE DEF Local, DeviceInv
<1>2. FileInv(e)'
  BY DEF FileInv
<1>3. EditsInv(e)'
  <2>1. dated'[e] = dated[e] /\ moved'[e] = moved[e]
    BY Zenon
  <2>2. Kept(e)' = Kept(e)
    BY <2>1 DEF Kept
  <2>. QED
    BY Zenon, <2>2 DEF EditsInv
<1>4. SizeInv(e)'
  BY Zenon DEF SizeInv
<1>. QED
  BY Zenon, <1>2, <1>3, <1>4

\* A step that leaves the backups alone keeps what is in them.
LEMMA BackupsKept ==
  ASSUME NEW d \in Device, UNCHANGED backups
  PROVE  /\ temp' = temp /\ walOnly' = walOnly /\ overwritten' = overwritten
         /\ unsaved' = unsaved /\ Kept(d)' = Kept(d)
<1>1. UNCHANGED <<temp, dated, moved, walOnly, overwritten, unsaved>>
  BY Zenon DEF backups
<1>2. Kept(d)' = Kept(d)
  BY Zenon, <1>1 DEF Kept
<1>. QED
  BY Zenon, <1>1, <1>2

\* A step that leaves the edits and the files of d where they are keeps what is
\* said of them.
LEMMA EditsKept ==
  ASSUME NEW d \in Device, DeviceInv(d), UNCHANGED <<entered, disk, backups>>
  PROVE  EditsInv(d)'
BY Zenon, BackupsKept DEF DeviceInv, EditsInv

-----------------------------------------------------------------------------
(* Login.                                                                   *)

LEMMA LoginStep ==
  ASSUME Inv, NEW d \in Device, Login(d)
  PROVE  Types' /\ Local(d) /\ DeviceInv(d)'
<1>1. /\ Opened(d, disk[d]) \in DB /\ Opened(d, disk[d]).edits = disk[d].edits
      /\ Opened(d, disk[d]).ts = ts_now(d) /\ ts_now(d) \in Time
      /\ disk[d].ts \in Time
  BY DBFacts DEF Inv, Types, File, Login, DB
<1>2. NewSession(d, FALSE) \in Session /\ NewSession(d, FALSE).pc = "opened"
      /\ NewSession(d, FALSE).new = FALSE
  BY Zenon, <1>1, IdleFacts DEF NewSession, NoSession, Session
<1>3. Types'
  <2>1. logins' \in 0..MaxLogins
    BY SyncAssumption DEF Inv, Types, Login
  <2>2. disk' \in [Device -> File]
    BY Zenon, <1>1 DEF Inv, Types, Login, File
  <2>3. sess' \in [Device -> Session]
    BY Zenon, <1>2 DEF Inv, Types, Login
  <2>. QED
    BY Zenon, <2>1, <2>2, <2>3 DEF Inv, Types, Login, backups
<1>4. Local(d)
  BY Zenon DEF Inv, Types, Login, Local, backups
<1>5. /\ disk[d] # NoFile /\ disk'[d] = Opened(d, disk[d]) /\ sess'[d] = NewSession(d, FALSE)
      /\ sess[d].pc = "out"
      /\ UNCHANGED <<main, backups, entered, pull, up>>
  BY Zenon DEF Inv, Types, Login
<1>6. DeviceInv(d)
  BY Zenon DEF Inv
<1>7. FileInv(d)'
  BY Zenon, <1>1, <1>2, <1>5, <1>6, NoFileAssumption DEF FileInv, DeviceInv
<1>8. EditsInv(d)'
  BY Zenon, <1>1, <1>5, <1>6, NoFileAssumption, BackupsKept DEF EditsInv, DeviceInv
<1>9. SizeInv(d)'
  BY Zenon, <1>5, <1>6 DEF SizeInv, DeviceInv
<1>. QED
  BY Zenon, <1>3, <1>4, <1>7, <1>8, <1>9 DEF DeviceInv

LEMMA CreateAccountStep ==
  ASSUME Inv, NEW d \in Device, CreateAccount(d)
  PROVE  Types' /\ Local(d) /\ DeviceInv(d)'
<1>. DEFINE db == Opened(d, [EmptyDB(d) EXCEPT !.sync = TRUE])
<1>1. db \in DB /\ db.ts = ts_now(d) /\ ts_now(d) \in Time
  BY Zenon, DBFacts, EmptyFacts DEF Inv
<1>2. NewSession(d, TRUE) \in Session /\ NewSession(d, TRUE).pc = "opened"
  <2>1. 0 \in Time
    BY SyncAssumption DEF Time
  <2>. QED
    BY Zenon, <1>1, <2>1, IdleFacts DEF NewSession, NoSession, Session
<1>. HIDE DEF db
<1>3. Types'
  <2>1. logins' \in 0..MaxLogins
    BY SyncAssumption DEF Inv, Types, CreateAccount
  <2>2. disk' \in [Device -> File] /\ main' \in [Device -> SUBSET Edit]
    BY Zenon, <1>1 DEF Inv, Types, CreateAccount, File, db
  <2>3. sess' \in [Device -> Session]
    BY Zenon, <1>2 DEF Inv, Types, CreateAccount
  <2>. QED
    BY Zenon, <2>1, <2>2, <2>3 DEF Inv, Types, CreateAccount, backups
<1>4. Local(d)
  BY Zenon DEF Inv, Types, CreateAccount, Local, backups
<1>5. /\ disk[d] = NoFile /\ disk'[d] = db /\ sess'[d] = NewSession(d, TRUE)
      /\ sess[d].pc = "out"
      /\ UNCHANGED <<backups, entered, pull, up>>
  BY Zenon DEF Inv, Types, CreateAccount, db
<1>6. DeviceInv(d)
  BY Zenon DEF Inv
<1>7. FileInv(d)'
  BY Zenon, <1>1, <1>2, <1>5, <1>6, NoFileAssumption DEF FileInv, DeviceInv
<1>8. EditsInv(d)'
  BY Zenon, <1>1, <1>5, <1>6, NoFileAssumption, BackupsKept DEF EditsInv, DeviceInv
<1>9. SizeInv(d)'
  BY Zenon, <1>5, <1>6 DEF SizeInv, DeviceInv
<1>. QED
  BY Zenon, <1>3, <1>4, <1>7, <1>8, <1>9 DEF DeviceInv

LEMMA KeptType ==
  ASSUME Types, NEW d \in Device
  PROVE  Kept(d) \subseteq Edit
<1>1. moved[d] \in SUBSET Edit /\ dated[d] \in [Time -> SUBSET Edit]
  BY Zenon DEF Types
<1>2. \A t \in Time : dated[d][t] \in SUBSET Edit
  BY Zenon, <1>1
<1>. QED
  BY <1>1, <1>2 DEF Kept

MoveTypes ==
  /\ moved' \in [Device -> SUBSET Edit] /\ dated' \in [Device -> [Time -> SUBSET Edit]]
  /\ temp' \in [Device -> {NoFile} \cup SUBSET Edit]

\* The edits of a directory that is moved away are kept.
LEMMA MoveFacts ==
  ASSUME Inv, NEW d \in Device, NEW edits \in SUBSET Edit, MoveDirectory(d, edits)
  PROVE  /\ MoveTypes
         /\ edits \cup EditsOf(temp[d]) \cup Kept(d) \subseteq Kept(d)' /\ EditsOf(temp'[d]) = {}
         /\ \A e \in Device \ {d} : /\ dated'[e] = dated[e] /\ moved'[e] = moved[e]
                                     /\ temp'[e] = temp[e]
<1>1. EditsOf(temp[d]) \subseteq Edit /\ Kept(d) \subseteq Edit
  BY Zenon, KeptType DEF Inv, Types, EditsOf
<1>2. /\ moved' \in [Device -> SUBSET Edit]
      /\ moved'[d] = edits \cup EditsOf(temp[d]) \cup Kept(d)
      /\ \A e \in Device \ {d} : moved'[e] = moved[e]
  BY Zenon, <1>1 DEF MoveDirectory, Inv, Types
<1>3. /\ dated' \in [Device -> [Time -> SUBSET Edit]]
      /\ \A e \in Device \ {d} : dated'[e] = dated[e]
  BY Zenon DEF MoveDirectory, Inv, Types
<1>4. /\ temp' \in [Device -> {NoFile} \cup SUBSET Edit] /\ EditsOf(temp'[d]) = {}
      /\ \A e \in Device \ {d} : temp'[e] = temp[e]
  BY Zenon DEF MoveDirectory, Inv, Types, EditsOf
<1>5. moved'[d] \subseteq Kept(d)'
  BY Zenon DEF Kept
<1>. QED
  BY Zenon, <1>2, <1>3, <1>4, <1>5 DEF MoveTypes

LEMMA LoginWithoutFileStep ==
  ASSUME Inv, NEW d \in Device, LoginWithoutFile(d)
  PROVE  Types' /\ Local(d) /\ DeviceInv(d)'
<1>1. /\ MoveTypes
      /\ EditsOf(temp[d]) \cup Kept(d) \subseteq Kept(d)' /\ EditsOf(temp'[d]) = {}
      /\ \A e \in Device \ {d} : /\ dated'[e] = dated[e] /\ moved'[e] = moved[e]
                                  /\ temp'[e] = temp[e]
  BY Zenon, MoveFacts DEF LoginWithoutFile
<1>2. UNCHANGED <<counts, entered, disk, main, walOnly, overwritten, unsaved, remote, sess,
                  approval, pull, up>>
  BY Zenon DEF LoginWithoutFile
<1>3. Types'
  BY Zenon, <1>1, <1>2 DEF Inv, Types, counts, backups, MoveTypes
<1>4. Local(d)
  BY Zenon, <1>1, <1>2 DEF Local
<1>5. DeviceInv(d)
  BY Zenon DEF Inv
<1>6. FileInv(d)' /\ SizeInv(d)'
  BY Zenon, <1>2, <1>5 DEF DeviceInv, FileInv, SizeInv
<1>7. EditsInv(d)'
  BY Zenon, <1>1, <1>2, <1>5 DEF DeviceInv, EditsInv
<1>. QED
  BY Zenon, <1>3, <1>4, <1>6, <1>7 DEF DeviceInv

\* The directory of a new account is moved away and the login fails.
LEMMA AbortFacts ==
  ASSUME Inv, NEW d \in Device, disk[d] # NoFile, sess[d].pc \in {"opened", "pull"},
         MoveDirectory(d, disk[d].edits),
         disk' = [disk EXCEPT ![d] = NoFile],
         main' = [main EXCEPT ![d] = {}],
         sess' = [sess EXCEPT ![d] = NoSession],
         pull' \in [Device -> Pull], pull'[d].pc = "idle",
         \A e \in Device \ {d} : pull'[e] = pull[e],
         UNCHANGED <<counts, entered, walOnly, overwritten, unsaved, remote, approval, up>>
  PROVE  Types' /\ Local(d) /\ DeviceInv(d)'
<1>1. disk[d] \in DB /\ disk[d].edits \in SUBSET Edit
  BY Zenon DEF Inv, Types, File, DB
<1>2. /\ MoveTypes
      /\ disk[d].edits \cup EditsOf(temp[d]) \cup Kept(d) \subseteq Kept(d)'
      /\ EditsOf(temp'[d]) = {}
      /\ \A e \in Device \ {d} : /\ dated'[e] = dated[e] /\ moved'[e] = moved[e]
                                  /\ temp'[e] = temp[e]
  BY Zenon, <1>1, MoveFacts
<1>3. Types'
  <2>1. disk' \in [Device -> File] /\ main' \in [Device -> SUBSET Edit]
    BY Zenon DEF Inv, Types, File
  <2>2. sess' \in [Device -> Session]
    BY Zenon, IdleFacts DEF Inv, Types
  <2>. QED
    BY Zenon, <1>2, <2>1, <2>2 DEF Inv, Types, counts, backups, MoveTypes
<1>4. Local(d)
  BY Zenon, <1>2 DEF Local, Inv, Types
<1>5. /\ disk'[d] = NoFile /\ sess'[d] = NoSession
      /\ UNCHANGED <<entered, unsaved, walOnly, overwritten, up>>
  BY Zenon DEF Inv, Types
<1>6. DeviceInv(d)
  BY Zenon DEF Inv
<1>7. FileInv(d)' /\ SizeInv(d)'
  BY <1>5, <1>6 DEF DeviceInv, FileInv, SizeInv, NoSession
<1>8. EditsInv(d)'
  BY Zenon, <1>2, <1>5, <1>6 DEF DeviceInv, EditsInv
<1>. QED
  BY Zenon, <1>3, <1>4, <1>7, <1>8 DEF DeviceInv

LEMMA PremiumRejectedStep ==
  ASSUME Inv, NEW d \in Device, PremiumRejected(d)
  PROVE  Types' /\ Local(d) /\ DeviceInv(d)'
<1>1. DeviceInv(d) /\ sess[d].pc = "opened" /\ pull[d].pc = "idle" /\ disk[d] # NoFile
  BY Zenon DEF Inv, PremiumRejected, DeviceInv, FileInv
<1>2. CASE sess[d].new
  <2>1. pull' = pull /\ pull \in [Device -> Pull]
    BY Zenon DEF PremiumRejected, Inv, Types
  <2>. QED
    BY Zenon, <1>1, <1>2, <2>1, AbortFacts DEF PremiumRejected
<1>3. CASE ~sess[d].new
  <2>1. /\ sess' = [sess EXCEPT ![d].pc = "migrate", ![d].left = 0]
        /\ UNCHANGED <<counts, entered, files, remote, approval, pull, up>>
    BY Zenon, <1>3 DEF PremiumRejected, files, backups
  <2>2. sess' \in [Device -> Session] /\ sess'[d].pc = "migrate"
        /\ \A e \in Device \ {d} : sess'[e] = sess[e]
    <3>1. sess \in [Device -> Session] /\ 0 \in Time
      BY SyncAssumption DEF Inv, Types, Time
    <3>. DEFINE x == [sess[d] EXCEPT !.pc = "migrate", !.left = 0]
    <3>2. sess' = [sess EXCEPT ![d] = x]
      BY Zenon, <2>1, <3>1
    <3>3. x \in Session /\ x.pc = "migrate"
      BY Zenon, <3>1 DEF Session
    <3>. HIDE DEF x
    <3>. QED
      BY Zenon, <3>1, <3>2, <3>3
  <2>3. Types' /\ Local(d)
    BY Zenon, <2>1, <2>2 DEF Inv, Types, Local, counts, files, backups
  <2>4. EditsInv(d)'
    BY Zenon, <1>1, <2>1, EditsKept DEF files, backups
  <2>5. FileInv(d)' /\ SizeInv(d)'
    BY Zenon, <1>1, <2>1, <2>2 DEF DeviceInv, FileInv, SizeInv, files, backups
  <2>. QED
    BY Zenon, <2>3, <2>4, <2>5 DEF DeviceInv
<1>. QED
  BY Zenon, <1>2, <1>3

LEMMA CheckAtLoginStep ==
  ASSUME Inv, NEW d \in Device, sess[d].pc = "opened", NEW result, NEW sync_database,
         CheckAtLogin(d, result, sync_database)
  PROVE  Types' /\ Local(d) /\ DeviceInv(d)'
<1>. DEFINE pulls == MayPull(d, result) /\ sync_database
<1>1. DeviceInv(d) /\ pull[d].pc = "idle" /\ disk[d] # NoFile
  BY Zenon DEF Inv, DeviceInv, FileInv
<1>2. /\ sess' = [sess EXCEPT ![d].pc = IF pulls THEN "pull" ELSE "migrate",
                              ![d].premium = TRUE, ![d].left = 0]
      /\ pull' = IF pulls THEN [pull EXCEPT ![d].pc = "pull"] ELSE pull
      /\ UNCHANGED <<counts, entered, files, remote, approval, up>>
  BY Zenon DEF CheckAtLogin
<1>. HIDE DEF pulls
<1>3. /\ sess' \in [Device -> Session] /\ \A e \in Device \ {d} : sess'[e] = sess[e]
      /\ sess'[d].pc = (IF pulls THEN "pull" ELSE "migrate")
      /\ sess'[d].new = sess[d].new
  <2>1. sess \in [Device -> Session] /\ 0 \in Time
    BY SyncAssumption DEF Inv, Types, Time
  <2>. DEFINE x == [sess[d] EXCEPT !.pc = IF pulls THEN "pull" ELSE "migrate",
                                   !.premium = TRUE, !.left = 0]
  <2>2. sess' = [sess EXCEPT ![d] = x]
    BY Zenon, <1>2, <2>1
  <2>3. /\ x \in Session /\ x.pc = (IF pulls THEN "pull" ELSE "migrate")
        /\ x.new = sess[d].new
    BY Zenon, <2>1 DEF Session
  <2>. HIDE DEF x
  <2>. QED
    BY Zenon, <2>1, <2>2, <2>3
<1>4. /\ pull' \in [Device -> Pull] /\ \A e \in Device \ {d} : pull'[e] = pull[e]
      /\ pull'[d].pc = (IF pulls THEN "pull" ELSE "idle")
  BY Zenon, <1>1, <1>2 DEF Inv, Types, Pull
<1>5. Types' /\ Local(d)
  BY Zenon, <1>2, <1>3, <1>4 DEF Inv, Types, Local, counts, files, backups
<1>6. EditsInv(d)'
  BY Zenon, <1>1, <1>2, EditsKept DEF files, backups
<1>7. FileInv(d)' /\ SizeInv(d)'
  BY <1>1, <1>2, <1>3, <1>4 DEF DeviceInv, FileInv, SizeInv, files, backups
<1>. QED
  BY Zenon, <1>5, <1>6, <1>7 DEF DeviceInv

LEMMA AskUserStep ==
  ASSUME Inv, NEW d \in Device, AskUser(d)
  PROVE  Types' /\ Local(d) /\ DeviceInv(d)'
<1>1. DeviceInv(d) /\ pull[d].pc = "idle" /\ disk[d] # NoFile /\ sess[d].pc = "opened"
  BY Zenon DEF Inv, DeviceInv, FileInv, AskUser
<1>2. /\ sess' = [sess EXCEPT ![d] = NoSession] /\ main' = [main EXCEPT ![d] = disk[d].edits]
      /\ UNCHANGED <<counts, entered, disk, backups, remote, pull, up>>
  BY Zenon DEF AskUser, CloseDB
<1>3. approval' \in [Device -> {"unknown", "yes", "no"}]
  BY Zenon DEF AskUser, Inv, Types
<1>4. disk[d].edits \in SUBSET Edit
  BY Zenon, <1>1 DEF Inv, Types, File, DB
<1>5. Types' /\ Local(d) /\ sess'[d] = NoSession
  BY Zenon, <1>2, <1>3, <1>4, IdleFacts DEF Inv, Types, Local, counts, backups
<1>6. EditsInv(d)'
  BY Zenon, <1>1, <1>2, EditsKept
<1>7. FileInv(d)' /\ SizeInv(d)'
  BY <1>1, <1>2, <1>5 DEF DeviceInv, FileInv, SizeInv, NoSession
<1>. QED
  BY Zenon, <1>5, <1>6, <1>7 DEF DeviceInv

LEMMA FinishLoginStep ==
  ASSUME Inv, NEW d \in Device, FinishLogin(d)
  PROVE  Types' /\ Local(d) /\ DeviceInv(d)'
<1>1. DeviceInv(d) /\ pull[d].pc = "idle" /\ disk[d] # NoFile /\ sess[d].pc = "migrate"
  BY Zenon DEF Inv, DeviceInv, FileInv, FinishLogin
<1>2. disk[d] \in DB /\ Written(d, disk[d]) \in DB /\ Written(d, disk[d]).edits = disk[d].edits
  BY Zenon, <1>1, DBFacts DEF Inv, Types, File
<1>3. /\ sess' = [sess EXCEPT ![d].pc = "in", ![d].new = FALSE]
      /\ approval' = [approval EXCEPT ![d] = "unknown"]
      /\ disk' = [disk EXCEPT ![d] = Written(d, disk[d])]
      /\ UNCHANGED <<counts, entered, main, backups, remote, pull, up>>
  BY Zenon DEF FinishLogin, Inv, Types
<1>4. /\ sess' \in [Device -> Session] /\ \A e \in Device \ {d} : sess'[e] = sess[e]
      /\ sess'[d].pc = "in" /\ sess'[d].new = FALSE
  <2>1. sess \in [Device -> Session]
    BY Zenon DEF Inv, Types
  <2>. DEFINE x == [sess[d] EXCEPT !.pc = "in", !.new = FALSE]
  <2>2. sess' = [sess EXCEPT ![d] = x]
    BY Zenon, <1>3, <2>1
  <2>3. x \in Session /\ x.pc = "in" /\ x.new = FALSE
    BY Zenon, <2>1 DEF Session
  <2>. HIDE DEF x
  <2>. QED
    BY Zenon, <2>1, <2>2, <2>3
<1>5. /\ disk' \in [Device -> File] /\ \A e \in Device \ {d} : disk'[e] = disk[e]
      /\ disk'[d] = Written(d, disk[d]) /\ disk'[d] # NoFile
  BY Zenon, <1>2, <1>3, NoFileAssumption DEF Inv, Types, File
<1>6. Types' /\ Local(d)
  BY Zenon, <1>3, <1>4, <1>5 DEF Inv, Types, Local, counts, backups
<1>7. EditsInv(d)'
  BY Zenon, <1>1, <1>2, <1>3, <1>5, BackupsKept DEF DeviceInv, EditsInv
<1>8. FileInv(d)' /\ SizeInv(d)'
  BY Zenon, <1>1, <1>3, <1>4, <1>5 DEF DeviceInv, FileInv, SizeInv
<1>. QED
  BY Zenon, <1>6, <1>7, <1>8 DEF DeviceInv

-----------------------------------------------------------------------------
(* The download that replaces the local DB.                                 *)

LEMMA EndPullFacts ==
  ASSUME Inv, NEW d \in Device, EndPull(d)
  PROVE  /\ sess' \in [Device -> Session] /\ \A e \in Device \ {d} : sess'[e] = sess[e]
         /\ sess'[d].pc = (IF sess[d].pc = "pull" THEN "migrate" ELSE sess[d].pc)
         /\ sess'[d].new = sess[d].new
         /\ pull' \in [Device -> Pull] /\ \A e \in Device \ {d} : pull'[e] = pull[e]
         /\ pull'[d] = NoPull
<1>1. sess \in [Device -> Session] /\ pull \in [Device -> Pull]
  BY Zenon DEF Inv, Types
<1>2. /\ pull' \in [Device -> Pull] /\ \A e \in Device \ {d} : pull'[e] = pull[e]
      /\ pull'[d] = NoPull
  BY Zenon, <1>1, IdleFacts DEF EndPull
<1>3. /\ sess' \in [Device -> Session] /\ \A e \in Device \ {d} : sess'[e] = sess[e]
      /\ sess'[d].pc = (IF sess[d].pc = "pull" THEN "migrate" ELSE sess[d].pc)
      /\ sess'[d].new = sess[d].new
  BY <1>1 DEF EndPull, Session
<1>. QED
  BY Zenon, <1>2, <1>3

LEMMA DownloadStep ==
  ASSUME Inv, NEW d \in Device, Download(d)
  PROVE  Types' /\ Local(d) /\ DeviceInv(d)'
<1>1. DeviceInv(d) /\ sess[d].pc = "in" /\ pull[d].pc = "idle"
  BY Zenon DEF Inv, Download
<1>2. /\ pull' = [pull EXCEPT ![d].pc = "pull"]
      /\ UNCHANGED <<clock, logins, entered, files, remote, sess, approval, up>>
  BY Zenon DEF Download
<1>3. /\ pull' \in [Device -> Pull] /\ \A e \in Device \ {d} : pull'[e] = pull[e]
      /\ pull'[d].pc = "pull"
  BY Zenon, <1>2 DEF Inv, Types, Pull
<1>4. transfers' \in 0..MaxTransfers
  BY SyncAssumption DEF Inv, Types, Download
<1>5. Types' /\ Local(d)
  BY Zenon, <1>2, <1>3, <1>4 DEF Inv, Types, Local, files, backups
<1>6. EditsInv(d)'
  BY Zenon, <1>1, <1>2, EditsKept DEF files, backups
<1>7. FileInv(d)' /\ SizeInv(d)'
  BY Zenon, <1>1, <1>2, <1>3 DEF DeviceInv, FileInv, SizeInv, files, backups
<1>. QED
  BY Zenon, <1>5, <1>6, <1>7 DEF DeviceInv

LEMMA PullDataStep ==
  ASSUME Inv, NEW d \in Device, PullData(d)
  PROVE  Types' /\ Local(d) /\ DeviceInv(d)'
<1>1. DeviceInv(d) /\ sess[d].pc \in {"pull", "in"} /\ pull[d].pc = "pull"
      /\ UNCHANGED <<counts, entered, files, remote, approval, up>>
  BY Zenon DEF Inv, DeviceInv, FileInv, PullData
<1>2. EditsInv(d)'
  BY Zenon, <1>1, EditsKept DEF files, backups
<1>3. CASE /\ remote.db # NoFile
           /\ pull' = [pull EXCEPT ![d] = [pc |-> "replace", blob |-> remote.db]]
           /\ sess' = sess
  <2>1. /\ pull' \in [Device -> Pull] /\ \A e \in Device \ {d} : pull'[e] = pull[e]
        /\ pull'[d].pc = "replace" /\ pull'[d].blob # NoFile
    BY Zenon, <1>3 DEF Inv, Types, Pull
  <2>2. Types' /\ Local(d)
    BY Zenon, <1>1, <1>3, <2>1 DEF Inv, Types, Local, counts, files, backups
  <2>3. FileInv(d)' /\ SizeInv(d)'
    BY Zenon, <1>1, <1>3, <2>1 DEF DeviceInv, FileInv, SizeInv, files, backups
  <2>. QED
    BY Zenon, <1>2, <2>2, <2>3 DEF DeviceInv
<1>4. CASE EndPull(d)
  <2>1. Types' /\ Local(d)
    BY Zenon, <1>1, <1>4, EndPullFacts DEF Inv, Types, Local, counts, files, backups
  <2>2. FileInv(d)' /\ SizeInv(d)'
    BY <1>1, <1>4, EndPullFacts DEF DeviceInv, FileInv, SizeInv, files, backups, NoPull
  <2>. QED
    BY Zenon, <1>2, <2>1, <2>2 DEF DeviceInv
<1>. QED
  BY Zenon, <1>3, <1>4 DEF PullData

BackupTypes ==
  /\ dated' \in [Device -> [Time -> SUBSET Edit]]
  /\ walOnly' \in [Device -> SUBSET Edit] /\ overwritten' \in [Device -> SUBSET Edit]

\* The dated backup has the edits of the main file, walOnly counts the others,
\* and overwritten counts those of an earlier backup that it replaces.
LEMMA BackupFacts ==
  ASSUME Inv, NEW d \in Device, disk[d] # NoFile, Backup(d), moved' = moved
  PROVE  /\ BackupTypes
         /\ \A e \in Device \ {d} : /\ dated'[e] = dated[e] /\ walOnly'[e] = walOnly[e]
                                     /\ overwritten'[e] = overwritten[e]
         /\ Kept(d) \subseteq Kept(d)' \cup overwritten'[d]
         /\ walOnly[d] \subseteq walOnly'[d] /\ overwritten[d] \subseteq overwritten'[d]
         /\ disk[d].edits \subseteq Kept(d)' \cup walOnly'[d]
         /\ disk[d].edits \in SUBSET Edit
<1>1. /\ disk[d] \in DB /\ disk[d].edits \in SUBSET Edit /\ main[d] \in SUBSET Edit
      /\ dated \in [Device -> [Time -> SUBSET Edit]]
      /\ walOnly \in [Device -> SUBSET Edit] /\ overwritten \in [Device -> SUBSET Edit]
  BY Zenon DEF Inv, Types, File, DB
<1>2. ts_now(d) \in Time
  BY Zenon, <1>1, DBFacts DEF Inv
<1>. DEFINE now == ts_now(d)
<1>3. /\ dated' = [dated EXCEPT ![d][now] = main[d]]
      /\ overwritten' = [overwritten EXCEPT ![d] = @ \cup (dated[d][now] \ main[d])]
      /\ walOnly' = [walOnly EXCEPT ![d] = @ \cup (disk[d].edits \ main[d])]
  BY Zenon DEF Backup
<1>. HIDE DEF now
<1>4. dated[d][now] \in SUBSET Edit
  BY Zenon, <1>1, <1>2 DEF now
<1>5. /\ dated' \in [Device -> [Time -> SUBSET Edit]]
      /\ \A e \in Device \ {d} : dated'[e] = dated[e]
      /\ dated'[d][now] = main[d]
      /\ \A t \in Time \ {now} : dated'[d][t] = dated[d][t]
  BY Zenon, <1>1, <1>2, <1>3 DEF now
<1>6. /\ walOnly' \in [Device -> SUBSET Edit]
      /\ \A e \in Device \ {d} : walOnly'[e] = walOnly[e]
      /\ walOnly'[d] = walOnly[d] \cup (disk[d].edits \ main[d])
  BY Zenon, <1>1, <1>3
<1>7. /\ overwritten' \in [Device -> SUBSET Edit]
      /\ \A e \in Device \ {d} : overwritten'[e] = overwritten[e]
      /\ overwritten'[d] = overwritten[d] \cup (dated[d][now] \ main[d])
  BY Zenon, <1>1, <1>3, <1>4
<1>8. main[d] \subseteq Kept(d)'
  BY Zenon, <1>2, <1>5 DEF Kept, now
<1>9. ASSUME NEW x \in Kept(d)
      PROVE  x \in Kept(d)' \cup overwritten'[d]
  <2>1. CASE x \in moved[d]
    BY Zenon, <2>1 DEF Kept
  <2>2. CASE x \notin moved[d]
    <3>1. PICK t \in Time : x \in dated[d][t]
      BY Zenon, <1>9, <2>2 DEF Kept
    <3>2. CASE t = now
      BY Zenon, <1>7, <1>8, <3>1, <3>2
    <3>3. CASE t # now
      BY Zenon, <1>5, <3>1, <3>3 DEF Kept
    <3>. QED
      BY Zenon, <3>2, <3>3
  <2>. QED
    BY Zenon, <2>1, <2>2
<1>. QED
  BY Zenon, <1>1, <1>5, <1>6, <1>7, <1>8, <1>9 DEF BackupTypes

LEMMA UnableToDecryptStep ==
  ASSUME Inv, NEW d \in Device, UnableToDecrypt(d)
  PROVE  Types' /\ Local(d) /\ DeviceInv(d)'
<1>1. DeviceInv(d) /\ sess[d].pc \in {"pull", "in"} /\ pull[d].pc = "replace"
      /\ disk[d] # NoFile
  BY Zenon DEF Inv, DeviceInv, FileInv, UnableToDecrypt
<1>2. CASE ~sess[d].new
  <2>1. /\ Backup(d) /\ EndPull(d)
        /\ UNCHANGED <<counts, entered, disk, main, temp, moved, unsaved, remote, approval, up>>
    BY Zenon, <1>2 DEF UnableToDecrypt
  <2>2. Types' /\ Local(d)
    <3>1. /\ BackupTypes
          /\ \A e \in Device \ {d} : /\ dated'[e] = dated[e] /\ walOnly'[e] = walOnly[e]
                                      /\ overwritten'[e] = overwritten[e]
      BY Zenon, <1>1, <2>1, BackupFacts
    <3>2. /\ sess' \in [Device -> Session] /\ \A e \in Device \ {d} : sess'[e] = sess[e]
          /\ pull' \in [Device -> Pull] /\ \A e \in Device \ {d} : pull'[e] = pull[e]
      BY Zenon, <2>1, EndPullFacts
    <3>3. Types'
      BY Zenon, <2>1, <3>1, <3>2 DEF Inv, Types, counts, backups, BackupTypes
    <3>. QED
      BY Zenon, <2>1, <3>1, <3>2, <3>3 DEF Local
  <2>3. EditsInv(d)'
    BY Zenon, <1>1, <2>1, BackupFacts DEF DeviceInv, EditsInv
  <2>4. FileInv(d)' /\ SizeInv(d)'
    BY <1>1, <2>1, EndPullFacts DEF DeviceInv, FileInv, SizeInv, NoPull
  <2>. QED
    BY Zenon, <2>2, <2>3, <2>4 DEF DeviceInv
<1>3. CASE sess[d].new
  <2>1. sess[d].pc = "pull"
    BY Zenon, <1>1, <1>3 DEF DeviceInv, FileInv
  <2>2. pull' = [pull EXCEPT ![d] = NoPull]
    BY Zenon, <1>3 DEF UnableToDecrypt
  <2>3. /\ pull' \in [Device -> Pull] /\ pull'[d].pc = "idle"
        /\ \A e \in Device \ {d} : pull'[e] = pull[e]
    BY Zenon, <2>2, IdleFacts DEF Inv, Types, NoPull
  <2>. QED
    BY Zenon, <1>1, <1>3, <2>1, <2>3, AbortFacts DEF UnableToDecrypt
<1>. QED
  BY Zenon, <1>2, <1>3

LEMMA ReplaceFileStep ==
  ASSUME Inv, NEW d \in Device, ReplaceFile(d)
  PROVE  Types' /\ Local(d) /\ DeviceInv(d)'
<1>1. DeviceInv(d) /\ sess[d].pc \in {"pull", "in"} /\ pull[d].pc = "replace"
      /\ disk[d] # NoFile
  BY Zenon DEF Inv, DeviceInv, FileInv, ReplaceFile
<1>2. /\ Backup(d) /\ moved' = moved
      /\ unsaved' = [unsaved EXCEPT ![d] = @ \cup (EditsOf(temp[d]) \cap walOnly[d])]
      /\ temp' = [temp EXCEPT ![d] = disk[d].edits]
      /\ disk' = [disk EXCEPT ![d] = NoFile]
      /\ main' = [main EXCEPT ![d] = {}]
      /\ pull' = [pull EXCEPT ![d].pc = "copy"]
      /\ UNCHANGED <<counts, entered, remote, sess, approval, up>>
  BY Zenon DEF ReplaceFile, DropTemp
<1>3. /\ temp' \in [Device -> {NoFile} \cup SUBSET Edit]
      /\ \A e \in Device \ {d} : temp'[e] = temp[e]
      /\ temp'[d] = disk[d].edits /\ temp'[d] # NoFile
  BY <1>1, <1>2, BackupFacts, NoFileAssumption DEF Inv, Types
<1>4. /\ disk' \in [Device -> File] /\ main' \in [Device -> SUBSET Edit]
      /\ \A e \in Device \ {d} : disk'[e] = disk[e] /\ main'[e] = main[e]
      /\ disk'[d] = NoFile
  BY Zenon, <1>2 DEF Inv, Types, File
<1>5. /\ pull' \in [Device -> Pull] /\ \A e \in Device \ {d} : pull'[e] = pull[e]
      /\ pull'[d].pc = "copy" /\ pull'[d].blob = pull[d].blob
  BY Zenon, <1>2 DEF Inv, Types, Pull
<1>6. /\ unsaved' \in [Device -> SUBSET Edit]
      /\ \A e \in Device \ {d} : unsaved'[e] = unsaved[e]
      /\ unsaved'[d] = unsaved[d] \cup (EditsOf(temp[d]) \cap walOnly[d])
  BY Zenon, <1>2 DEF Inv, Types
<1>7. Types' /\ Local(d)
  <2>1. /\ BackupTypes
        /\ \A e \in Device \ {d} : /\ dated'[e] = dated[e] /\ walOnly'[e] = walOnly[e]
                                    /\ overwritten'[e] = overwritten[e]
    BY Zenon, <1>1, <1>2, BackupFacts
  <2>2. Types'
    BY Zenon, <1>2, <1>3, <1>4, <1>5, <1>6, <2>1 DEF Inv, Types, counts, backups, BackupTypes
  <2>. QED
    BY Zenon, <1>2, <1>3, <1>4, <1>5, <1>6, <2>1, <2>2 DEF Local
<1>8. EditsInv(d)'
  BY Zenon, <1>1, <1>2, <1>3, <1>4, <1>6, BackupFacts DEF DeviceInv, EditsInv, EditsOf
<1>9. FileInv(d)' /\ SizeInv(d)'
  BY Zenon, <1>1, <1>2, <1>4, <1>5 DEF DeviceInv, FileInv, SizeInv
<1>. QED
  BY Zenon, <1>7, <1>8, <1>9 DEF DeviceInv

LEMMA CopyDBStep ==
  ASSUME Inv, NEW d \in Device, CopyDB(d)
  PROVE  Types' /\ Local(d) /\ DeviceInv(d)'
<1>1. /\ DeviceInv(d) /\ sess[d].pc \in {"pull", "in"} /\ pull[d].pc = "copy"
      /\ disk[d] = NoFile /\ pull[d].blob \in DB
  BY Zenon DEF Inv, Types, Pull, File, DeviceInv, FileInv, CopyDB
<1>2. /\ disk' = [disk EXCEPT ![d] = pull[d].blob]
      /\ main' = [main EXCEPT ![d] = pull[d].blob.edits]
      /\ pull' = [pull EXCEPT ![d].pc = "reconnect"]
      /\ UNCHANGED <<counts, entered, backups, remote, sess, approval, up>>
  BY Zenon DEF CopyDB
<1>3. pull[d].blob.edits \in SUBSET Edit
  BY Zenon, <1>1 DEF DB
<1>4. /\ disk' \in [Device -> File] /\ main' \in [Device -> SUBSET Edit]
      /\ \A e \in Device \ {d} : disk'[e] = disk[e] /\ main'[e] = main[e]
      /\ disk'[d] # NoFile
  BY Zenon, <1>1, <1>2, <1>3, NoFileAssumption DEF Inv, Types, File
<1>5. /\ pull' \in [Device -> Pull] /\ \A e \in Device \ {d} : pull'[e] = pull[e]
      /\ pull'[d].pc = "reconnect" /\ pull'[d].blob = pull[d].blob
  BY Zenon, <1>2 DEF Inv, Types, Pull
<1>6. Types' /\ Local(d)
  BY Zenon, <1>2, <1>4, <1>5 DEF Inv, Types, Local, counts, backups
<1>7. EditsInv(d)'
  <2>1. UNCHANGED <<entered, backups>>
    BY Zenon, <1>2
  <2>2. EditsInv(d) /\ disk[d] = NoFile
    BY Zenon, <1>1 DEF DeviceInv
  <2>. QED
    BY Zenon, <1>4, <2>1, <2>2, BackupsKept DEF EditsInv
<1>8. FileInv(d)' /\ SizeInv(d)'
  BY Zenon, <1>1, <1>2, <1>4, <1>5 DEF DeviceInv, FileInv, SizeInv
<1>. QED
  BY Zenon, <1>6, <1>7, <1>8 DEF DeviceInv

LEMMA ReconnectStep ==
  ASSUME Inv, NEW d \in Device, Reconnect(d)
  PROVE  Types' /\ Local(d) /\ DeviceInv(d)'
<1>1. /\ DeviceInv(d) /\ sess[d].pc \in {"pull", "in"} /\ pull[d].pc = "reconnect"
      /\ disk[d] # NoFile /\ disk[d] \in DB
  BY Zenon DEF Inv, Types, File, DeviceInv, FileInv, Reconnect
<1>2. /\ disk' = [disk EXCEPT ![d] = Opened(d, disk[d])]
      /\ unsaved' = [unsaved EXCEPT ![d] = @ \cup (EditsOf(temp[d]) \cap walOnly[d])]
      /\ temp' = [temp EXCEPT ![d] = NoFile]
      /\ EndPull(d)
      /\ UNCHANGED <<counts, entered, main, dated, moved, walOnly, overwritten, remote,
                     approval, up>>
  BY Zenon DEF Reconnect, DropTemp, Inv, Types
<1>3. Opened(d, disk[d]) \in DB /\ Opened(d, disk[d]).edits = disk[d].edits
  BY Zenon, <1>1, DBFacts DEF Inv
<1>4. /\ disk' \in [Device -> File] /\ temp' \in [Device -> {NoFile} \cup SUBSET Edit]
      /\ \A e \in Device \ {d} : disk'[e] = disk[e] /\ temp'[e] = temp[e]
      /\ disk'[d] # NoFile /\ disk'[d].edits = disk[d].edits /\ temp'[d] = NoFile
  BY Zenon, <1>2, <1>3, NoFileAssumption DEF Inv, Types, File
<1>5. /\ unsaved' \in [Device -> SUBSET Edit]
      /\ \A e \in Device \ {d} : unsaved'[e] = unsaved[e]
      /\ unsaved'[d] = unsaved[d] \cup (EditsOf(temp[d]) \cap walOnly[d])
  BY Zenon, <1>2 DEF Inv, Types
<1>6. Types' /\ Local(d)
  BY <1>2, <1>4, <1>5, EndPullFacts DEF Inv, Types, Local, counts, backups
<1>7. EditsInv(d)'
  <2>0. dated' = dated /\ moved' = moved /\ EditsOf(temp[d])' = {}
    BY Zenon, <1>2, <1>4 DEF EditsOf
  <2>1. Kept(d)' = Kept(d)
    BY Zenon, <2>0 DEF Kept
  <2>2. entered[d] \subseteq disk[d].edits \cup EditsOf(temp[d]) \cup Kept(d)
                            \cup unsaved[d] \cup overwritten[d]
    BY Zenon, <1>1 DEF DeviceInv, EditsInv
  <2>3. EditsOf(temp[d]) \subseteq Kept(d) \cup walOnly[d] \cup overwritten[d]
    BY Zenon, <1>1 DEF DeviceInv, EditsInv
  <2>4. entered[d] \subseteq disk[d].edits \cup Kept(d) \cup unsaved'[d] \cup overwritten[d]
    BY Zenon, <1>5, <2>2, <2>3
  <2>. QED
    BY Zenon, <1>2, <1>4, <2>0, <2>1, <2>4 DEF EditsInv
<1>8. FileInv(d)' /\ SizeInv(d)'
  <2>0. NoPull.pc = "idle"
    BY DEF NoPull
  <2>1. /\ sess'[d].pc = (IF sess[d].pc = "pull" THEN "migrate" ELSE sess[d].pc)
        /\ sess'[d].new = sess[d].new /\ pull'[d].pc = "idle"
    BY Zenon, <1>2, <2>0, EndPullFacts
  <2>2. FileInv(d)'
    BY <1>1, <1>2, <1>4, <2>1 DEF DeviceInv, FileInv
  <2>4. SizeInv(d)'
    BY Zenon, <1>1, <1>2 DEF DeviceInv, SizeInv
  <2>. QED
    BY Zenon, <2>2, <2>4
<1>. QED
  BY Zenon, <1>6, <1>7, <1>8 DEF DeviceInv

LEMMA ReconnectTooNewStep ==
  ASSUME Inv, NEW d \in Device, ReconnectTooNew(d)
  PROVE  Types' /\ Local(d) /\ DeviceInv(d)'
<1>1. /\ DeviceInv(d) /\ sess[d].pc \in {"pull", "in"} /\ pull[d].pc = "reconnect"
      /\ disk[d] # NoFile
  BY Zenon DEF Inv, DeviceInv, FileInv, ReconnectTooNew
<1>2. /\ pull' = [pull EXCEPT ![d] = NoPull]
      /\ sess' = IF sess[d].pc = "pull" THEN [sess EXCEPT ![d] = NoSession] ELSE sess
      /\ UNCHANGED <<counts, entered, files, remote, approval, up>>
  BY Zenon DEF ReconnectTooNew
<1>3. /\ sess' \in [Device -> Session] /\ \A e \in Device \ {d} : sess'[e] = sess[e]
      /\ sess'[d] = (IF sess[d].pc = "pull" THEN NoSession ELSE sess[d])
  BY Zenon, <1>2, IdleFacts DEF Inv, Types
<1>4. /\ pull' \in [Device -> Pull] /\ \A e \in Device \ {d} : pull'[e] = pull[e]
      /\ pull'[d] = NoPull
  BY Zenon, <1>2, IdleFacts DEF Inv, Types
<1>5. Types' /\ Local(d)
  BY Zenon, <1>2, <1>3, <1>4 DEF Inv, Types, Local, counts, files, backups
<1>6. EditsInv(d)'
  BY Zenon, <1>1, <1>2, EditsKept DEF files, backups
<1>7. FileInv(d)' /\ SizeInv(d)'
  BY Zenon, <1>1, <1>2, <1>3, <1>4
     DEF DeviceInv, FileInv, SizeInv, files, backups, NoPull, NoSession
<1>. QED
  BY Zenon, <1>5, <1>6, <1>7 DEF DeviceInv

-----------------------------------------------------------------------------
(* The upload.                                                              *)

\* While a session is in use, its connection reaches a DB.
LEMMA CurrentFacts ==
  ASSUME Inv, NEW d \in Device, sess[d].pc = "in"
  PROVE  Current(d) \in DB
BY DEF Inv, Types, File, Pull, DeviceInv, FileInv, Current

\* An upload k of d takes a step to the given point.
Sends(d, k, value) ==
  /\ up' \in [Device -> [Upload -> Sending]]
  /\ \A e \in Device \ {d} : up'[e] = up[e]
  /\ \A j \in Upload \ {k} : up'[d][j] = up[d][j]
  /\ up'[d][k] = value

LEMMA EndUploadFacts ==
  ASSUME Inv, NEW d \in Device, NEW k \in Upload, EndUpload(d, k)
  PROVE  Sends(d, k, NoUpload)
BY Zenon, IdleFacts DEF Inv, Types, EndUpload, Sends

\* What is said of the device after a step of an upload that leaves its files and
\* its session alone
LEMMA SendsFacts ==
  ASSUME Inv, NEW d \in Device, NEW k \in Upload, NEW value, Sends(d, k, value),
         UNCHANGED <<sess, disk, pull>>,
         value.pc # "idle" => sess[d].pc = "in",
         k = "auto" /\ value.pc = "send" => Size(value.blob) >= Size(value.meta)
  PROVE  FileInv(d)' /\ SizeInv(d)'
<1>1. DeviceInv(d)
  BY Zenon DEF Inv
<1>2. FileInv(d)'
  BY Zenon, <1>1 DEF DeviceInv, FileInv, Sends
<1>4. SizeInv(d)'
  BY Zenon, <1>1 DEF DeviceInv, SizeInv, Sends, Upload
<1>. QED
  BY Zenon, <1>2, <1>4

LEMMA UploadCheckStep ==
  ASSUME Inv, NEW d \in Device, NEW k \in Upload, UploadCheck(d, k)
  PROVE  Types' /\ Local(d) /\ DeviceInv(d)'
<1>. DEFINE value == [pc |-> "export", meta |-> IF k = "auto" THEN remote.db ELSE NoFile,
                      ts |-> Current(d).ts, blob |-> NoFile]
<1>1. /\ DeviceInv(d) /\ sess[d].pc = "in"
      /\ UNCHANGED <<clock, logins, entered, files, remote, sess, approval, pull>>
      /\ up' = [up EXCEPT ![d][k] = value]
  BY Zenon DEF Inv, UploadCheck
<1>2. value \in Sending /\ value.pc = "export"
  BY Zenon, <1>1, CurrentFacts DEF Inv, Types, DB, File, Sending
<1>. HIDE DEF value
<1>3. Sends(d, k, value)
  BY Zenon, <1>1, <1>2 DEF Inv, Types, Sends
<1>4. transfers' \in 0..MaxTransfers
  BY SyncAssumption DEF Inv, Types, UploadCheck
<1>5. Types' /\ Local(d)
  BY Zenon, <1>1, <1>3, <1>4 DEF Inv, Types, Local, files, backups, Sends
<1>6. EditsInv(d)'
  BY Zenon, <1>1, EditsKept DEF files, backups
<1>7. FileInv(d)' /\ SizeInv(d)'
  BY Zenon, <1>1, <1>2, <1>3, SendsFacts DEF files, backups
<1>. QED
  BY Zenon, <1>5, <1>6, <1>7 DEF DeviceInv

LEMMA UploadExportStep ==
  ASSUME Inv, NEW d \in Device, NEW k \in Upload, UploadExport(d, k)
  PROVE  Types' /\ Local(d) /\ DeviceInv(d)'
<1>1. /\ DeviceInv(d) /\ sess[d].pc = "in" /\ up[d][k].pc = "export"
      /\ UNCHANGED <<counts, entered, disk, backups, remote, sess,
                     approval, pull>>
  BY Zenon DEF Inv, DeviceInv, FileInv, UploadExport
<1>2. main' \in [Device -> SUBSET Edit] /\ \A e \in Device \ {d} : main'[e] = main[e]
  <2>1. CASE pull[d].pc = "copy"
    BY Zenon, <2>1 DEF UploadExport, Inv, Types
  <2>2. CASE pull[d].pc # "copy"
    <3>1. disk[d].edits \in SUBSET Edit
      BY Zenon, <1>1, <2>2 DEF DeviceInv, FileInv, Inv, Types, File, DB
    <3>. QED
      BY Zenon, <2>2, <3>1 DEF UploadExport, Inv, Types
  <2>. QED
    BY Zenon, <2>1, <2>2
<1>3. EditsInv(d)'
  BY Zenon, <1>1, EditsKept
<1>4. CASE k = "api" \/ Sendable(Current(d), up[d][k].meta)
  <2>. DEFINE value == [up[d][k] EXCEPT !.pc = "send", !.blob = Current(d)]
  <2>1. up \in [Device -> [Upload -> Sending]] /\ up[d][k] \in Sending
    BY DEF Inv, Types
  <2>2. up' = [up EXCEPT ![d][k] = value]
    BY Zenon, <1>4, <2>1 DEF UploadExport
  <2>3. /\ value \in Sending /\ value.pc = "send"
        /\ value.blob = Current(d) /\ value.meta = up[d][k].meta
    BY Zenon, <1>1, <2>1, CurrentFacts DEF Sending, File
  <2>4. k = "auto" => Size(value.blob) >= Size(value.meta)
    BY Zenon, <1>4, <2>3 DEF Sendable
  <2>. HIDE DEF value
  <2>5. Sends(d, k, value)
    BY Zenon, <2>1, <2>2, <2>3 DEF Sends
  <2>6. Types' /\ Local(d)
    BY Zenon, <1>1, <1>2, <2>5 DEF Inv, Types, Local, counts, backups, Sends
  <2>7. FileInv(d)' /\ SizeInv(d)'
    BY Zenon, <1>1, <2>4, <2>5, SendsFacts
  <2>. QED
    BY Zenon, <1>3, <2>6, <2>7 DEF DeviceInv
<1>5. CASE ~(k = "api" \/ Sendable(Current(d), up[d][k].meta))
  <2>1. Sends(d, k, NoUpload)
    BY Zenon, <1>5, EndUploadFacts DEF UploadExport
  <2>2. Types' /\ Local(d)
    BY Zenon, <1>1, <1>2, <2>1 DEF Inv, Types, Local, counts, backups, Sends
  <2>3. FileInv(d)' /\ SizeInv(d)'
    BY Zenon, <1>1, <2>1, SendsFacts DEF NoUpload
  <2>. QED
    BY Zenon, <1>3, <2>2, <2>3 DEF DeviceInv
<1>. QED
  BY Zenon, <1>4, <1>5

LEMMA UploadSendStep ==
  ASSUME Inv, NEW d \in Device, NEW k \in Upload, UploadSend(d, k)
  PROVE  Types' /\ Local(d) /\ DeviceInv(d)'
<1>. DEFINE sent == [db |-> up[d][k].blob, ts |-> up[d][k].ts]
            marking == [NoUpload EXCEPT !.pc = "mark"]
<1>1. /\ DeviceInv(d) /\ sess[d].pc = "in" /\ up[d][k].pc = "send"
      /\ UNCHANGED <<counts, entered, files, sess, approval, pull>>
      /\ remote' \in {remote, sent}
  BY Zenon DEF Inv, DeviceInv, FileInv, UploadSend
<1>2. up[d][k] \in Sending /\ remote' \in [db : File, ts : Time]
  BY <1>1 DEF Inv, Types, Sending
<1>3. PICK value \in {marking, NoUpload} : Sends(d, k, value)
  <2>1. CASE up' = [up EXCEPT ![d][k] = marking]
    <3>1. Sends(d, k, marking)
      BY Zenon, <2>1, IdleFacts DEF Inv, Types, Sends
    <3>. QED
      BY Zenon, <3>1
  <2>2. CASE EndUpload(d, k)
    BY Zenon, <2>2, EndUploadFacts
  <2>. QED
    BY Zenon, <2>1, <2>2 DEF UploadSend
<1>4. value.pc \in {"mark", "idle"}
  BY DEF NoUpload
<1>5. Types' /\ Local(d)
  BY Zenon, <1>1, <1>2, <1>3 DEF Inv, Types, Local, counts, files, backups, Sends
<1>6. EditsInv(d)'
  BY Zenon, <1>1, EditsKept DEF files, backups
<1>7. FileInv(d)' /\ SizeInv(d)'
  BY Zenon, <1>1, <1>3, <1>4, SendsFacts DEF files, backups
<1>. QED
  BY Zenon, <1>5, <1>6, <1>7 DEF DeviceInv

LEMMA UploadDiesStep ==
  ASSUME Inv, NEW d \in Device, NEW k \in Upload, UploadDies(d, k)
  PROVE  Types' /\ Local(d) /\ DeviceInv(d)'
<1>1. /\ DeviceInv(d) /\ UNCHANGED <<counts, entered, files, remote, sess, approval, pull>>
      /\ Sends(d, k, NoUpload)
  BY Zenon, EndUploadFacts DEF Inv, UploadDies
<1>2. Types' /\ Local(d)
  BY Zenon, <1>1 DEF Inv, Types, Local, counts, files, backups, Sends
<1>3. EditsInv(d)'
  BY Zenon, <1>1, EditsKept DEF files, backups
<1>4. FileInv(d)' /\ SizeInv(d)'
  BY Zenon, <1>1, SendsFacts DEF files, backups, NoUpload
<1>. QED
  BY Zenon, <1>2, <1>3, <1>4 DEF DeviceInv

\* A user_write reaches the DB, or the temporary file that an import reads from.
LEMMA UserWriteFacts ==
  ASSUME Inv, NEW d \in Device, NEW db \in DB, user_write(d, db)
  PROVE  /\ disk' \in [Device -> File] /\ pull' \in [Device -> Pull]
         /\ \A e \in Device \ {d} : disk'[e] = disk[e] /\ pull'[e] = pull[e]
         /\ pull'[d].pc = pull[d].pc
         /\ pull[d].pc # "copy" => /\ disk'[d] # NoFile /\ disk'[d].edits = db.edits
                                   /\ pull' = pull
         /\ pull[d].pc = "copy" => /\ disk' = disk
                                   /\ pull'[d].blob = pull[d].blob \/ pull'[d].blob # NoFile
<1>1. Written(d, db) \in DB /\ Written(d, db).edits = db.edits
  BY Zenon, DBFacts DEF Inv
<1>2. disk \in [Device -> File] /\ pull \in [Device -> Pull]
  BY Zenon DEF Inv, Types
<1>3. CASE /\ pull[d].pc # "copy"
           /\ disk' = [disk EXCEPT ![d] = Written(d, db)]
           /\ pull' = pull
  BY Zenon, <1>1, <1>2, <1>3, NoFileAssumption DEF File
<1>4. CASE pull[d].pc = "copy" /\ pull' = pull /\ disk' = disk
  BY Zenon, <1>2, <1>4
<1>5. CASE /\ pull[d].pc = "copy" /\ disk' = disk
           /\ pull' = [pull EXCEPT ![d].blob = Written(d, db)]
  <2>1. /\ pull' \in [Device -> Pull] /\ \A e \in Device \ {d} : pull'[e] = pull[e]
        /\ pull'[d].pc = pull[d].pc /\ pull'[d].blob = Written(d, db)
    BY Zenon, <1>1, <1>2, <1>5 DEF Pull, File
  <2>. QED
    BY Zenon, <1>1, <1>2, <1>5, <2>1, NoFileAssumption
<1>. QED
  BY Zenon, <1>3, <1>4, <1>5 DEF user_write

LEMMA UploadMarkStep ==
  ASSUME Inv, NEW d \in Device, NEW k \in Upload, UploadMark(d, k)
  PROVE  Types' /\ Local(d) /\ DeviceInv(d)'
<1>1. /\ DeviceInv(d) /\ sess[d].pc = "in" /\ user_write(d, Current(d))
      /\ UNCHANGED <<counts, entered, main, backups, remote, sess, approval>>
      /\ Sends(d, k, NoUpload)
  BY Zenon, EndUploadFacts DEF Inv, DeviceInv, FileInv, UploadMark
<1>2. /\ disk' \in [Device -> File] /\ pull' \in [Device -> Pull]
      /\ \A e \in Device \ {d} : disk'[e] = disk[e] /\ pull'[e] = pull[e]
      /\ pull'[d].pc = pull[d].pc
      /\ pull[d].pc # "copy" => /\ disk'[d] # NoFile /\ disk'[d].edits = Current(d).edits
                                /\ pull' = pull
      /\ pull[d].pc = "copy" => /\ disk' = disk
                                /\ pull'[d].blob = pull[d].blob \/ pull'[d].blob # NoFile
  BY Zenon, <1>1, CurrentFacts, UserWriteFacts
<1>3. Types' /\ Local(d)
  BY Zenon, <1>1, <1>2 DEF Inv, Types, Local, counts, backups, Sends
<1>4. EditsInv(d)'
  BY Zenon, <1>1, <1>2, BackupsKept DEF DeviceInv, EditsInv, Current, FileInv
<1>5. FileInv(d)'
  BY Zenon, <1>1, <1>2 DEF DeviceInv, FileInv, Sends, NoUpload
<1>6. SizeInv(d)'
  BY <1>1 DEF DeviceInv, SizeInv, Sends, NoUpload, Upload
<1>. QED
  BY Zenon, <1>3, <1>4, <1>5, <1>6 DEF DeviceInv

-----------------------------------------------------------------------------
(* The user and failures.                                                   *)

LEMMA MakeEditStep ==
  ASSUME Inv, NEW d \in Device, MakeEdit(d)
  PROVE  Types' /\ Local(d) /\ DeviceInv(d)'
<1>1. PICK e \in Edit :
        /\ entered' = [entered EXCEPT ![d] = @ \cup {e}]
        /\ user_write(d, [Current(d) EXCEPT !.edits = @ \cup {e}])
        /\ unsaved' = IF pull[d].pc # "copy" THEN unsaved
                      ELSE [unsaved EXCEPT ![d] = @ \cup {e}]
  BY Zenon DEF MakeEdit
<1>2. /\ DeviceInv(d) /\ sess[d].pc = "in"
      /\ UNCHANGED <<counts, main, temp, dated, moved, walOnly, overwritten, remote, sess,
                     approval, up>>
  BY Zenon DEF Inv, MakeEdit
<1>. DEFINE db == [Current(d) EXCEPT !.edits = @ \cup {e}]
<1>3. db \in DB /\ db.edits = Current(d).edits \cup {e}
  BY Zenon, <1>2, CurrentFacts DEF DB
<1>4. user_write(d, db)
  BY Zenon, <1>1
<1>. HIDE DEF db
<1>5. /\ disk' \in [Device -> File] /\ pull' \in [Device -> Pull]
      /\ \A x \in Device \ {d} : disk'[x] = disk[x] /\ pull'[x] = pull[x]
      /\ pull'[d].pc = pull[d].pc
      /\ pull[d].pc # "copy" => /\ disk'[d] # NoFile /\ disk'[d].edits = db.edits
                                /\ pull' = pull
      /\ pull[d].pc = "copy" => /\ disk' = disk
                                /\ pull'[d].blob = pull[d].blob \/ pull'[d].blob # NoFile
  BY Zenon, <1>3, <1>4, UserWriteFacts
<1>6. /\ entered' \in [Device -> SUBSET Edit] /\ entered'[d] = entered[d] \cup {e}
      /\ \A x \in Device \ {d} : entered'[x] = entered[x]
  BY Zenon, <1>1 DEF Inv, Types
<1>11. /\ unsaved' \in [Device -> SUBSET Edit]
       /\ \A x \in Device \ {d} : unsaved'[x] = unsaved[x]
       /\ unsaved[d] \subseteq unsaved'[d] /\ (pull[d].pc = "copy" => e \in unsaved'[d])
  BY Zenon, <1>1 DEF Inv, Types
<1>12. Kept(d)' = Kept(d)
  BY Zenon, <1>2 DEF Kept
<1>7. Types' /\ Local(d)
  BY Zenon, <1>1, <1>2, <1>5, <1>6, <1>11 DEF Inv, Types, Local, counts, backups
<1>8. EditsInv(d)'
  BY Zenon, <1>2, <1>3, <1>5, <1>6, <1>11, <1>12 DEF DeviceInv, EditsInv, FileInv, Current
<1>9. FileInv(d)'
  BY Zenon, <1>2, <1>5 DEF DeviceInv, FileInv
<1>10. SizeInv(d)'
  BY Zenon, <1>2 DEF DeviceInv, SizeInv
<1>. QED
  BY Zenon, <1>7, <1>8, <1>9, <1>10 DEF DeviceInv

LEMMA EndSessionFacts ==
  ASSUME Inv, NEW d \in Device, EndSession(d)
  PROVE  /\ sess' \in [Device -> Session] /\ pull' \in [Device -> Pull]
         /\ up' \in [Device -> [Upload -> Sending]]
         /\ \A e \in Device \ {d} : sess'[e] = sess[e] /\ pull'[e] = pull[e] /\ up'[e] = up[e]
         /\ sess'[d].pc = "out" /\ ~sess'[d].new /\ pull'[d].pc = "idle"
         /\ \A k \in Upload : up'[d][k].pc = "idle"
<1>1. /\ sess' \in [Device -> Session] /\ pull' \in [Device -> Pull]
      /\ \A e \in Device \ {d} : sess'[e] = sess[e] /\ pull'[e] = pull[e]
      /\ sess'[d] = NoSession /\ pull'[d] = NoPull
  BY Zenon, IdleFacts DEF Inv, Types, EndSession
<1>2. /\ up' \in [Device -> [Upload -> Sending]]
      /\ \A e \in Device \ {d} : up'[e] = up[e]
      /\ \A k \in Upload : up'[d][k] = NoUpload
  BY Zenon, IdleFacts DEF Inv, Types, EndSession
<1>. QED
  BY <1>1, <1>2 DEF NoSession, NoPull, NoUpload

LEMMA LogoutStep ==
  ASSUME Inv, NEW d \in Device, Logout(d)
  PROVE  Types' /\ Local(d) /\ DeviceInv(d)'
<1>1. /\ DeviceInv(d) /\ sess[d].pc = "in" /\ pull[d].pc = "idle" /\ disk[d] # NoFile
      /\ EndSession(d) /\ main' = [main EXCEPT ![d] = disk[d].edits]
      /\ UNCHANGED <<counts, entered, disk, backups, remote, approval>>
  BY Zenon DEF Inv, DeviceInv, FileInv, Logout, CloseDB
<1>2. disk[d].edits \in SUBSET Edit
  BY Zenon, <1>1 DEF Inv, Types, File, DB
<1>3. main' \in [Device -> SUBSET Edit] /\ \A e \in Device \ {d} : main'[e] = main[e]
  BY Zenon, <1>1, <1>2 DEF Inv, Types
<1>4. Types' /\ Local(d)
  BY Zenon, <1>1, <1>3, EndSessionFacts DEF Inv, Types, Local, counts, backups
<1>5. EditsInv(d)'
  BY Zenon, <1>1, EditsKept
<1>6. FileInv(d)' /\ SizeInv(d)'
  BY Zenon, <1>1, EndSessionFacts DEF FileInv, SizeInv, Upload
<1>. QED
  BY Zenon, <1>4, <1>5, <1>6 DEF DeviceInv

LEMMA CrashStep ==
  ASSUME Inv, NEW d \in Device, Crash(d)
  PROVE  Types' /\ Local(d) /\ DeviceInv(d)'
<1>1. PICK db \in AfterCrash(d) :
        /\ disk' = [disk EXCEPT ![d] = db]
        /\ main' = IF pull[d].pc = "copy" /\ db # NoFile
                   THEN [main EXCEPT ![d] = db.edits] ELSE main
  BY Zenon DEF Crash
<1>2. /\ DeviceInv(d) /\ EndSession(d)
      /\ approval' = [approval EXCEPT ![d] = "unknown"]
      /\ UNCHANGED <<counts, entered, backups, remote>>
  BY Zenon DEF Inv, Crash
<1>3. db \in File /\ (pull[d].pc # "copy" => db = disk[d])
  <2>1. CASE pull[d].pc = "copy"
    <3>1. pull[d].blob.edits \in SUBSET Edit
      BY Zenon, <1>2, <2>1 DEF DeviceInv, FileInv, Inv, Types, Pull, File, DB
    <3>2. \A s \in SUBSET pull[d].blob.edits : [EmptyDB(d) EXCEPT !.edits = s] \in DB
      BY Zenon, <3>1, EmptyFacts DEF Inv
    <3>. QED
      BY Zenon, <2>1, <3>2 DEF AfterCrash, File
  <2>2. CASE pull[d].pc # "copy"
    BY <2>2 DEF AfterCrash, Inv, Types
  <2>. QED
    BY Zenon, <2>1, <2>2
<1>4. db # NoFile => db.edits \in SUBSET Edit
  BY Zenon, <1>3 DEF File, DB
<1>5. /\ disk' \in [Device -> File] /\ main' \in [Device -> SUBSET Edit]
      /\ \A e \in Device \ {d} : disk'[e] = disk[e] /\ main'[e] = main[e]
      /\ disk'[d] = db
  BY Zenon, <1>1, <1>3, <1>4 DEF Inv, Types
<1>6. approval' \in [Device -> {"unknown", "yes", "no"}]
  BY Zenon, <1>2 DEF Inv, Types
<1>7. Types' /\ Local(d)
  BY <1>2, <1>5, <1>6, EndSessionFacts DEF Inv, Types, Local, counts, backups
<1>8. EditsInv(d)'
  BY Zenon, <1>2, <1>3, <1>5, BackupsKept DEF DeviceInv, EditsInv, FileInv
<1>9. FileInv(d)' /\ SizeInv(d)'
  BY Zenon, <1>2, EndSessionFacts DEF FileInv, SizeInv, Upload
<1>. QED
  BY Zenon, <1>7, <1>8, <1>9 DEF DeviceInv

-----------------------------------------------------------------------------
LEMMA InvInit == Init => Inv
<1>. SUFFICES ASSUME Init PROVE Inv
  BY Zenon
<1>1. NoRemote \in [db : File, ts : Time]
  BY SyncAssumption DEF NoRemote, File, Time
<1>2. Types
  BY <1>1, IdleFacts, SyncAssumption DEF Init, Types, File
<1>3. ASSUME NEW d \in Device
      PROVE  DeviceInv(d)
  <2>1. FileInv(d)
    BY Zenon DEF Init, FileInv, NoSession, NoPull, NoUpload
  <2>2. EditsInv(d)
    BY Zenon DEF Init, EditsInv, EditsOf, Kept
  <2>3. SizeInv(d)
    BY Zenon DEF Init, SizeInv, NoSession, NoUpload, Upload
  <2>. QED
    BY Zenon, <2>1, <2>2, <2>3 DEF DeviceInv
<1>. QED
  BY Zenon, <1>2, <1>3 DEF Inv

LEMMA InvStep == Inv /\ [Next]_vars => Inv'
<1>. SUFFICES ASSUME Inv, [Next]_vars
              PROVE  Inv'
  BY Zenon
<1>0. ASSUME NEW d \in Device, Types', Local(d), DeviceInv(d)'
      PROVE  Inv'
  BY Zenon, <1>0, OtherDevices DEF Inv
<1>1. ASSUME NEW d \in Device, Login(d) \/ CreateAccount(d) \/ LoginWithoutFile(d)
      PROVE  Inv'
  BY Zenon, <1>0, <1>1, LoginStep, CreateAccountStep, LoginWithoutFileStep
<1>2. ASSUME NEW d \in Device, TryPremiumAtStart(d)
      PROVE  Inv'
  <2>1. CASE PremiumRejected(d) \/ AskUser(d)
    BY Zenon, <1>0, <2>1, PremiumRejectedStep, AskUserStep
  <2>2. CASE /\ sess[d].pc = "opened"
             /\ \E result \in {"failed", can_sync_data_from_server(d)},
                   sync_database \in (IF sess[d].new THEN BOOLEAN ELSE {TRUE}) :
                  CheckAtLogin(d, result, sync_database)
    BY Zenon, <1>0, <2>2, CheckAtLoginStep
  <2>. QED
    BY Zenon, <1>2, <2>1, <2>2 DEF TryPremiumAtStart
<1>3. ASSUME NEW d \in Device, FinishLogin(d)
      PROVE  Inv'
  BY Zenon, <1>0, <1>3, FinishLoginStep
<1>4. ASSUME NEW d \in Device, ReplaceLocal(d)
      PROVE  Inv'
  BY Zenon, <1>0, <1>4, DownloadStep, PullDataStep, UnableToDecryptStep, ReplaceFileStep,
     CopyDBStep,
     ReconnectStep, ReconnectTooNewStep DEF ReplaceLocal
<1>5. ASSUME NEW d \in Device, MaybeUpload(d)
      PROVE  Inv'
  BY Zenon, <1>0, <1>5, UploadCheckStep, UploadExportStep, UploadSendStep, UploadMarkStep,
     UploadDiesStep DEF MaybeUpload
<1>6. ASSUME NEW d \in Device, MakeEdit(d) \/ Logout(d) \/ Crash(d)
      PROVE  Inv'
  BY Zenon, <1>0, <1>6, MakeEditStep, LogoutStep, CrashStep
<1>7. ASSUME Tick \/ UNCHANGED vars
      PROVE  Inv'
  <2>1. UNCHANGED <<logins, transfers, entered, files, remote, sess, approval, pull, up>>
        /\ clock' \in 0..MaxClock
    BY <1>7, SyncAssumption DEF Tick, vars, counts, backups, Inv, Types
  <2>2. Types'
    BY Zenon, <2>1 DEF Inv, Types, files, backups
  <2>3. ASSUME NEW d \in Device
        PROVE  DeviceInv(d)'
    <3>1. DeviceInv(d)
      BY Zenon DEF Inv
    <3>2. EditsInv(d)'
      BY Zenon, <2>1, <3>1, EditsKept DEF files, backups
    <3>3. FileInv(d)' /\ SizeInv(d)'
      BY Zenon, <2>1, <3>1 DEF DeviceInv, FileInv, SizeInv, files, backups
    <3>. QED
      BY Zenon, <3>2, <3>3 DEF DeviceInv
  <2>. QED
    BY Zenon, <2>2, <2>3 DEF Inv
<1>. QED
  BY Zenon, <1>1, <1>2, <1>3, <1>4, <1>5, <1>6, <1>7 DEF Next

\* Only an upload replaces the DB at the server.
LEMMA OnlyUploadsReplaceRemote ==
  ASSUME Next, remote' # remote
  PROVE  \E d \in Device, k \in Upload : UploadSend(d, k)
<1>1. Tick => remote' = remote
  BY Zenon DEF Tick
<1>2. PICK d \in Device :
        \/ Login(d) \/ CreateAccount(d) \/ LoginWithoutFile(d)
        \/ TryPremiumAtStart(d) \/ FinishLogin(d)
        \/ ReplaceLocal(d) \/ MaybeUpload(d)
        \/ MakeEdit(d) \/ Logout(d) \/ Crash(d)
  BY Zenon, <1>1 DEF Next
<1>3. Login(d) \/ CreateAccount(d) \/ LoginWithoutFile(d) => remote' = remote
  BY Zenon DEF Login, CreateAccount, LoginWithoutFile
<1>4. TryPremiumAtStart(d) => remote' = remote
  BY Zenon DEF TryPremiumAtStart, PremiumRejected, CheckAtLogin, AskUser
<1>5. ReplaceLocal(d) => remote' = remote
  BY Zenon DEF ReplaceLocal, Download, PullData, UnableToDecrypt, ReplaceFile, CopyDB, Reconnect,
         ReconnectTooNew
<1>6. MaybeUpload(d) => remote' = remote \/ \E k \in Upload : UploadSend(d, k)
  BY Zenon DEF MaybeUpload, UploadCheck, UploadExport, UploadMark, UploadDies
<1>7. FinishLogin(d) \/ MakeEdit(d) \/ Logout(d) \/ Crash(d) => remote' = remote
  BY Zenon DEF FinishLogin, MakeEdit, Logout, Crash
<1>. QED
  BY Zenon, <1>2, <1>3, <1>4, <1>5, <1>6, <1>7

-----------------------------------------------------------------------------
\* For any number of devices, edits, logins and transfers, every variable keeps
\* its type, and a session has a DB file unless a download is replacing it.
THEOREM TypeCorrect == Spec => []TypeOK
<1>1. Inv => TypeOK
  BY Zenon, KeptType DEF Inv, Types, TypeOK, File, DeviceInv, FileInv, EditsOf
<1>. QED
  BY <1>1, InvInit, InvStep, PTL DEF Spec

\* Whatever is pulled over the DB of a device and wherever the program crashes
\* in import_unencrypted or in a login, what the user entered on the device is in
\* a file of it, but for edits made during an import, edits of the -wal file whose
\* temporary backup is gone, and edits of a dated backup that another download of
\* the same second has overwritten.
THEOREM EditsAreNotLost == Spec => []EditsSurvive
<1>1. Inv => EditsSurvive
  BY Zenon DEF Inv, DeviceInv, EditsInv, EditsSurvive
<1>. QED
  BY <1>1, InvInit, InvStep, PTL DEF Spec

LEMMA SizeType ==
  ASSUME NEW db \in File
  PROVE  Size(db) \in Nat
<1>1. CASE db = NoFile
  BY Zenon, <1>1 DEF Size
<1>2. CASE db \in DB
  <2>1. IsFiniteSet(Edit)
    BY FS_Interval, SyncAssumption DEF Edit
  <2>2. db.edits \subseteq Edit
    BY Zenon, <1>2 DEF DB
  <2>3. Cardinality(db.edits) \in Nat
    BY Zenon, <2>1, <2>2, FS_Subset, FS_CardinalityType
  <2>. QED
    BY Zenon, <1>2, <2>3 DEF Size
<1>. QED
  BY Zenon, <1>1, <1>2 DEF File

\* With any number of devices, the DB at the server gets smaller only by an
\* upload that the user forced, or by an automatic one for which
\* maybe_upload_data_to_server had looked at another DB than the one it replaces.
THEOREM ShrinksByForceOrRace == Spec => ShrinksOnlyByForceOrRace
<1>. DEFINE Shrinks == Size(remote'.db) < Size(remote.db) =>
       \E d \in Device, k \in Upload :
         /\ up[d][k].pc = "send" /\ up'[d][k].pc # "send"
         /\ k = "api" \/ up[d][k].meta # remote.db
<1>1. Inv /\ [Next]_vars => [Shrinks]_vars
  <2>. SUFFICES ASSUME Inv, Next, Size(remote'.db) < Size(remote.db)
                PROVE  \E d \in Device, k \in Upload :
                         /\ up[d][k].pc = "send" /\ up'[d][k].pc # "send"
                         /\ k = "api" \/ up[d][k].meta # remote.db
    BY Zenon DEF vars
  <2>1. Size(remote.db) \in Nat
    BY Zenon, SizeType DEF Inv, Types
  <2>2. remote' # remote
    BY <2>1
  <2>3. PICK d \in Device, k \in Upload : UploadSend(d, k)
    BY Zenon, <2>2, OnlyUploadsReplaceRemote
  <2>4. up[d][k].pc = "send" /\ remote'.db = up[d][k].blob
    BY <2>2, <2>3 DEF UploadSend
  <2>5. up'[d][k].pc # "send"
    BY <2>3 DEF UploadSend, EndUpload, NoUpload, Inv, Types
  <2>6. ASSUME k = "auto", up[d][k].meta = remote.db
        PROVE  FALSE
    <3>1. Size(up[d][k].blob) >= Size(remote.db)
      BY Zenon, <2>4, <2>6 DEF Inv, DeviceInv, SizeInv
    <3>2. Size(up[d][k].blob) \in Nat
      BY SizeType DEF Inv, Types, Sending
    <3>. QED
      BY <2>1, <2>4, <3>1, <3>2
  <2>. QED
    BY Zenon, <2>4, <2>5, <2>6 DEF Upload
<1>. QED
  BY <1>1, InvInit, InvStep, PTL DEF Spec, ShrinksOnlyByForceOrRace
=============================================================================
