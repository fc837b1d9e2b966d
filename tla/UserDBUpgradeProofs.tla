------------------------ MODULE UserDBUpgradeProofs -------------------------
(***************************************************************************)
(* Proofs of TypeOK, BackupsAreNotNewer, OpenIsUpgraded and                *)
(* HalfUpgradedIsFlagged of UserDBUpgrade for any range of versions and    *)
(* any set of accounts.                                                    *)
(*                                                                         *)
(* The lemmas up to CommitStepFacts say what a commit leaves in the        *)
(* database file and its -wal file for the connection and for the next     *)
(* process.  On them rest four inductive invariants: the types and which   *)
(* files a step of an upgrade has at hand (Shape); that a crash does not   *)
(* change what is read, except after a restore that left the -wal file     *)
(* behind (CrashSafe); that no copy of the database is newer than what is  *)
(* read (VersionInv); and, for an account that starts from a finished      *)
(* upgrade and whose upgrades commit once, exactly which settings and      *)
(* tables are read at each step (PlainInv).                                *)
(***************************************************************************)
EXTENDS UserDBUpgrade, TLAPS

Frames == [settings : SettingsPages \cup {Nothing}, schema : SchemaPages \cup {Nothing}]

LEMMA OverlayFields ==
    ASSUME NEW file \in Files, NEW frames \in Frames
    PROVE  /\ Overlay(file, frames) \in Files
           /\ Overlay(file, frames).settings =
                 IF frames.settings = Nothing THEN file.settings ELSE frames.settings
           /\ Overlay(file, frames).schema =
                 IF frames.schema = Nothing THEN file.schema ELSE frames.schema
BY Zenon DEF Overlay, Files, Frames

\* What a connection and what the next process read is typed, the tables are
\* there in every step that looks at them, an upgrade on its way has a version
\* below the software's and its backup, and a resume has its file.
WithTables == {"round", "flag", "function", "second", "vacuum", "restore", "keep",
               "done", "insert", "sanity", "open"}
Upgrading  == {"flag", "function", "second", "vacuum", "restore", "keep"}

Shape ==
    /\ TypeOK
    /\ pc \in WithTables => Content.settings \in Settings
    /\ pc \in Upgrading => tmp # NoFile
    /\ pc \in Upgrading \cup {"done"} => round < software
    /\ pc = "resume" => /\ backups[round] # NoFile
                        /\ backfilled /\ wal = NoFrames(main)

\* Except between a restore and the next login, a crash changes nothing of what
\* is read: frames that are in the database file already agree with it.
CrashSafe == pc # "failed" => Replayed = Content

\* settings page a is not newer than settings page b
NotNewer(a, b) ==
    a \in Settings /\ a.version # None
        => b \in Settings /\ b.version # None /\ a.version <= b.version

\* The database file, and a backup made of it, are never newer than what the
\* connection reads, nor than what the next process would read.
VersionInv ==
    /\ NotNewer(main.settings, Content.settings)
    /\ NotNewer(main.settings, Replayed.settings)
    /\ pc \in Upgrading =>
          /\ NotNewer(tmp.settings, Content.settings)
          /\ Content.settings.version = round
    /\ pc = "done" => Content.settings.version = round
    /\ pc = "round" => GetVersion <= software
    /\ pc = "create" => Content.settings \notin Settings
    /\ pc = "insert" => Content.settings.version = None

\* torn, or sound with a recorded version
Usable(file) ==
    \/ IsTorn(file)
    \/ /\ file.settings \in Settings /\ file.settings.version # None
       /\ file.settings.ongoing # None \/ file.schema = file.settings.version

\* What each step of a login to a plain account finds in the DB
PlainStep ==
    /\ pc \notin {"resume", "second", "vacuum", "create", "insert"}
    /\ pc = "check" => ~approved /\ ~IsTorn(Content)
    /\ pc = "upgrade" => \E v \in Versions : Content = Upgraded(v)
    /\ pc = "round" => \E v \in round .. software : Content = Upgraded(v)
    /\ pc = "flag" => Content = Upgraded(round)
    /\ pc \in {"function", "restore"} => /\ Content = DBFile(round, round, round)
                                        /\ wal.settings = Content.settings
    /\ pc \in {"keep", "done"} => Content = DBFile(round, round, round + 1)
    /\ pc \in {"sanity", "open"} => Content = Upgraded(software)

PlainInv ==
    Plain => /\ Usable(main) /\ Usable(Content) /\ Usable(Replayed)
             /\ pc \in Upgrading => Usable(tmp)
             /\ PlainStep
-----------------------------------------------------------------------------
(* What the operations of WalFile do to what is read.                       *)

FileTypes == main \in Files /\ wal \in Frames /\ backfilled \in BOOLEAN

LEMMA ReadTypes ==
    ASSUME FileTypes
    PROVE  Content \in Files /\ Replayed \in Files
BY Zenon, OverlayFields DEF FileTypes, Content, Replayed

LEMMA FileExtensional ==
    ASSUME NEW f \in Files, NEW g \in Files, f.settings = g.settings, f.schema = g.schema
    PROVE  f = g
BY DEF Files

\* A commit is read at once and survives a crash, with or without a checkpoint.
LEMMA CommitFacts ==
    ASSUME FileTypes, NEW pages \in Frames, CommitPages(pages)
    PROVE  /\ FileTypes'
           /\ Content' = Overlay(Content, pages)
           /\ Replayed' = Content'
           /\ main' = main \/ main' = Content'
           /\ pages.settings # Nothing => wal'.settings = pages.settings
<1>. Content \in Files /\ Overlay(Content, pages) \in Files
  BY Zenon, ReadTypes, OverlayFields
<1>1. wal' \in Frames /\ backfilled' \in BOOLEAN /\ main' \in Files
  BY Zenon, OverlayFields DEF FileTypes, CommitPages, Frames, Overlay
<1>2. CASE backfilled
  <2>1. wal' = pages /\ Content = main
    BY Zenon, <1>2 DEF CommitPages, Content
  <2>. QED
    BY <1>1, <1>2, <2>1, OverlayFields, FileExtensional
       DEF FileTypes, CommitPages, Content, Replayed
<1>3. CASE ~backfilled
  <2>1. wal' = Overlay(wal, pages) /\ Content = Overlay(main, wal)
    BY Zenon, <1>3 DEF CommitPages, Content
  <2>2. /\ wal'.settings = IF pages.settings = Nothing THEN wal.settings ELSE pages.settings
        /\ wal'.schema = IF pages.schema = Nothing THEN wal.schema ELSE pages.schema
    BY Zenon, <2>1 DEF Overlay, Frames, FileTypes
  <2>3. Overlay(main, wal') = Overlay(Content, pages)
    <3>. DEFINE f == Overlay(main, wal')
                g == Overlay(Content, pages)
    <3>1. f \in Files /\ g \in Files
      BY Zenon, <1>1, OverlayFields DEF FileTypes
    <3>2. /\ g.settings = IF pages.settings = Nothing THEN Content.settings ELSE pages.settings
          /\ g.schema = IF pages.schema = Nothing THEN Content.schema ELSE pages.schema
      BY Zenon, OverlayFields
    <3>3. /\ Content.settings = IF wal.settings = Nothing THEN main.settings ELSE wal.settings
          /\ Content.schema = IF wal.schema = Nothing THEN main.schema ELSE wal.schema
      BY Zenon, <2>1, OverlayFields DEF FileTypes
    <3>4. /\ f.settings = IF wal'.settings = Nothing THEN main.settings ELSE wal'.settings
          /\ f.schema = IF wal'.schema = Nothing THEN main.schema ELSE wal'.schema
      BY Zenon, <1>1, OverlayFields DEF FileTypes
    <3>. HIDE DEF f, g
    <3>5. f.settings = g.settings
      BY Zenon, <2>2, <3>2, <3>3, <3>4
    <3>6. f.schema = g.schema
      BY Zenon, <2>2, <3>2, <3>3, <3>4
    <3>. QED
      BY Zenon, <3>1, <3>5, <3>6, FileExtensional DEF f, g
  <2>4. CASE main' = main /\ backfilled' = FALSE
    BY Zenon, <1>1, <2>2, <2>3, <2>4 DEF Content, Replayed, FileTypes
  <2>5. CASE main' = Overlay(Content, pages) /\ backfilled' = TRUE
    <3>. DEFINE f == Overlay(main', wal')
    <3>1. f = main'
      <4>1. f \in Files
        BY Zenon, <1>1, OverlayFields
      <4>2. /\ f.settings = IF wal'.settings = Nothing THEN main'.settings ELSE wal'.settings
            /\ f.schema = IF wal'.schema = Nothing THEN main'.schema ELSE wal'.schema
        BY Zenon, <1>1, OverlayFields
      <4>3. f = Overlay(main', wal') /\ Overlay(main, wal') = main'
        BY Zenon, <2>3, <2>5
      <4>4. /\ main'.settings = IF wal'.settings = Nothing THEN main.settings ELSE wal'.settings
            /\ main'.schema = IF wal'.schema = Nothing THEN main.schema ELSE wal'.schema
        BY Zenon, <1>1, <4>3, OverlayFields DEF FileTypes
      <4>. HIDE DEF f
      <4>5. f.settings = main'.settings
        BY Zenon, <4>2, <4>4
      <4>6. f.schema = main'.schema
        BY Zenon, <4>2, <4>4
      <4>. QED
        BY Zenon, <1>1, <4>1, <4>5, <4>6, FileExtensional
    <3>. QED
      BY Zenon, <1>1, <2>2, <2>5, <3>1 DEF Content, Replayed, FileTypes
  <2>. QED
    BY Zenon, <2>4, <2>5 DEF CommitPages
<1>. QED
  BY Zenon, <1>2, <1>3 DEF FileTypes

\* A commit to the settings,
LEMMA CommitSettingsFacts ==
    ASSUME FileTypes, NEW version \in Versions \cup {None},
           NEW ongoing \in Versions \cup {None}, CommitSettings(version, ongoing)
    PROVE  /\ FileTypes' /\ Content' \in Files
           /\ Content'.settings = [version |-> version, ongoing |-> ongoing]
           /\ Content'.settings \in Settings
           /\ Content'.schema = Content.schema
           /\ Replayed' = Content'
           /\ main' = main \/ main' = Content'
           /\ wal'.settings = Content'.settings
<1>. DEFINE row == [version |-> version, ongoing |-> ongoing]
            pages == [settings |-> row, schema |-> Nothing]
<1>1. row \in Settings /\ row # Nothing /\ pages \in Frames
  BY DistinctAssumption DEF Settings, SettingsPages, Frames
<1>2. CommitPages(pages)
  BY Zenon DEF CommitSettings
<1>3. pages.settings = row /\ pages.schema = Nothing
  BY Zenon
<1>. HIDE DEF pages
<1>4. Content \in Files
  BY Zenon, ReadTypes
<1>. QED
  BY <1>1, <1>2, <1>3, <1>4, CommitFacts, OverlayFields

\* one to the other tables.
LEMMA CommitSchemaFacts ==
    ASSUME FileTypes, NEW schema \in SchemaPages, CommitSchema(schema)
    PROVE  /\ FileTypes' /\ Content' \in Files
           /\ Content'.settings = Content.settings
           /\ Content'.schema = schema
           /\ Replayed' = Content'
           /\ main' = main \/ main' = Content'
<1>. DEFINE pages == [settings |-> Nothing, schema |-> schema]
<1>1. schema # Nothing /\ pages \in Frames
  BY Zenon, DistinctAssumption DEF Frames
<1>2. CommitPages(pages)
  BY Zenon DEF CommitSchema
<1>3. pages.settings = Nothing /\ pages.schema = schema
  BY Zenon
<1>. HIDE DEF pages
<1>4. Content \in Files
  BY Zenon, ReadTypes
<1>. QED
  BY <1>1, <1>2, <1>3, <1>4, CommitFacts, OverlayFields

\* Closing the connection leaves one file that holds what was read.
LEMMA CloseFacts ==
    ASSUME FileTypes, CloseFile
    PROVE  /\ FileTypes' /\ backfilled' /\ wal' = NoFrames(main')
           /\ main' = Content /\ Content' = Content /\ Replayed' = Content
<1>1. Content \in Files
  BY Zenon, ReadTypes
<1>2. wal' \in Frames /\ wal'.settings = Nothing /\ wal'.schema = Nothing
  BY Zenon DEF CloseFile, NoFrames, FileTypes, Files, Frames
<1>3. wal' = NoFrames(main')
  BY Zenon, <1>1 DEF CloseFile, NoFrames, FileTypes, Files
<1>. QED
  BY <1>1, <1>2, <1>3, OverlayFields, FileExtensional
     DEF CloseFile, FileTypes, Content, Replayed
-----------------------------------------------------------------------------
(* Types, and what each step may rely on.                                   *)

\* The files stay as they are.
LEMMA QuietFacts ==
    ASSUME UNCHANGED fileVars
    PROVE  Content' = Content /\ Replayed' = Replayed
BY Zenon DEF fileVars, Content, Replayed, Overlay

LEMMA ShapeInit == Init => Shape
<1>. SUFFICES ASSUME Init PROVE Shape
  BY Zenon
<1>1. main \in Files /\ case \in Cases
  BY Zenon, UpgradeAssumption DEF Init, Case
<1>2. wal \in Frames
  BY Zenon, <1>1 DEF Init, NoFrames, Files, Frames
<1>3. TypeOK
  <2>1. round \in Versions /\ software \in Versions
    BY UpgradeAssumption DEF Init, Versions
  <2>2. backfilled \in BOOLEAN /\ approved \in BOOLEAN
    BY Zenon DEF Init
  <2>3. backups \in [Versions -> Files \cup {NoFile}]
    BY Zenon DEF Init
  <2>. QED
    BY Zenon, <1>1, <1>2, <2>1, <2>2, <2>3 DEF Init, TypeOK, Frames
<1>. QED
  BY Zenon, <1>3 DEF Init, Shape, WithTables, Upgrading

LEMMA ShapeTypes ==
    ASSUME Shape
    PROVE  /\ FileTypes /\ Content \in Files /\ Replayed \in Files
           /\ tmp \in Files \cup {NoFile} /\ backups \in [Versions -> Files \cup {NoFile}]
           /\ round \in Int /\ software \in Int /\ round >= MinSupported /\ software <= Latest
           /\ MinSupported \in Nat /\ Latest \in Nat
           /\ round \in Versions /\ software \in Versions
BY ReadTypes, UpgradeAssumption DEF Shape, TypeOK, FileTypes, Frames, Versions

LEMMA ShapeQuiet ==
    ASSUME Shape, UNCHANGED case,
           \/ NoUnfinishedUpgrade \/ RefuseUnfinished \/ RunUpgrades \/ SkipUpgrade
           \/ BackupToTmp \/ FailFunction \/ KeepBackup \/ SanityCheck \/ CreateDBBackup
    PROVE  Shape'
<1>. USE ShapeTypes, QuietFacts DEF Shape, TypeOK, At, fileVars
<1>1. CASE NoUnfinishedUpgrade
  BY Zenon, <1>1, DistinctAssumption, UpgradeAssumption DEF NoUnfinishedUpgrade, WithTables,
     Upgrading, Versions, FileTypes
<1>2. CASE RefuseUnfinished
  BY Zenon, <1>2, DistinctAssumption, UpgradeAssumption DEF RefuseUnfinished, WithTables,
     Upgrading, Versions, FileTypes
<1>3. CASE RunUpgrades
  BY <1>3, DistinctAssumption, UpgradeAssumption DEF RunUpgrades, WithTables, Upgrading,
     Versions, FileTypes, HasTables, SettingsPages, Files
<1>4. CASE SkipUpgrade
  BY <1>4, DistinctAssumption, UpgradeAssumption DEF SkipUpgrade, WithTables, Upgrading,
     Versions, FileTypes
<1>5. CASE BackupToTmp
  BY Zenon, <1>5, DistinctAssumption, UpgradeAssumption DEF BackupToTmp, WithTables, Upgrading,
     Versions, FileTypes
<1>6. CASE FailFunction
  BY Zenon, <1>6, DistinctAssumption, UpgradeAssumption DEF FailFunction, WithTables, Upgrading,
     Versions, FileTypes
<1>7. CASE KeepBackup
  BY Zenon, <1>7, DistinctAssumption, UpgradeAssumption DEF KeepBackup, WithTables, Upgrading,
     Versions, FileTypes
<1>8. CASE SanityCheck
  BY Zenon, <1>8, DistinctAssumption, UpgradeAssumption DEF SanityCheck, WithTables, Upgrading,
     Versions, FileTypes
<1>9. CASE CreateDBBackup
  BY Zenon, <1>9, DistinctAssumption, UpgradeAssumption DEF CreateDBBackup, WithTables,
     Upgrading, Versions, FileTypes
<1>. QED
  BY Zenon, <1>1, <1>2, <1>3, <1>4, <1>5, <1>6, <1>7, <1>8, <1>9

\* A commit leaves this file for every reader.
Writes(settings, schema) ==
    /\ FileTypes'
    /\ Content' = [settings |-> settings, schema |-> schema]
    /\ Replayed' = Content'
    /\ main' = main \/ main' = Content'

Row(version, ongoing) == [version |-> version, ongoing |-> ongoing]

LEMMA WritesSettings ==
    ASSUME FileTypes, NEW version \in Versions \cup {None},
           NEW ongoing \in Versions \cup {None}, CommitSettings(version, ongoing)
    PROVE  /\ Writes(Row(version, ongoing), Content.schema)
           /\ wal'.settings = Row(version, ongoing)
<1>1. Content' \in Files /\ [settings |-> Row(version, ongoing), schema |-> Content.schema] \in Files
  BY Zenon, ReadTypes, CommitSettingsFacts DEF Row, Files, SettingsPages, Settings
<1>. QED
  BY Zenon, <1>1, CommitSettingsFacts, FileExtensional DEF Writes, Row

LEMMA WritesSchema ==
    ASSUME FileTypes, NEW schema \in SchemaPages, CommitSchema(schema)
    PROVE  Writes(Content.settings, schema)
<1>1. Content' \in Files /\ [settings |-> Content.settings, schema |-> schema] \in Files
  BY Zenon, ReadTypes, CommitSchemaFacts DEF Files
<1>. QED
  BY Zenon, <1>1, CommitSchemaFacts, FileExtensional DEF Writes

\* What the steps that commit write, and that they find the settings.
LEMMA CommitSteps ==
    ASSUME Shape
    PROVE  /\ SetFlag => /\ Writes(Row(Content.settings.version, round), Content.schema)
                         /\ wal'.settings = Row(Content.settings.version, round)
           /\ RunFunction => Writes(Content.settings,
                                    IF Content.schema = round THEN round + 1 ELSE Mixed)
           /\ RunFirstHalf => Writes(Content.settings,
                                     IF Content.schema = round THEN Half ELSE Mixed)
           /\ RunStatement => Writes(Content.settings, Content.schema)
           /\ RunSecondHalf => Writes(Content.settings,
                                      IF Content.schema = Half THEN round + 1 ELSE Mixed)
           /\ FinishUpgrade => Writes(Row(round + 1, None), Content.schema)
           /\ SetVersion => Writes(Row(software, Content.settings.ongoing), Content.schema)
           /\ InsertVersion => Writes(Row(software, Content.settings.ongoing), Content.schema)
           /\ Vacuum => Writes(Content.settings, Content.schema)
           /\ Work => Writes(Content.settings, Content.schema)
           /\ CreateTables => Writes(Row(None, None), software)
<1>. USE ShapeTypes DEF At
<1>1. ASSUME SetFlag
      PROVE  Writes(Row(Content.settings.version, round), Content.schema) /\ wal'.settings = Row(Content.settings.version, round)
  <2>1. Content.settings \in Settings
    BY Zenon, <1>1 DEF Shape, SetFlag, WithTables
  <2>2. Content.settings.version \in Versions \cup {None}
    BY Zenon, <1>1, <2>1, UpgradeAssumption
       DEF Shape, SetFlag, Upgrading, Settings, Versions, Files, SchemaPages
  <2>. QED
    BY Zenon, <1>1, <2>2, WritesSettings DEF SetFlag
<1>2. ASSUME RunFunction
      PROVE  Writes(Content.settings, IF Content.schema = round THEN round + 1 ELSE Mixed)
  <2>1. Content.settings \in Settings
    BY Zenon, <1>2 DEF Shape, RunFunction, WithTables
  <2>2. (IF Content.schema = round THEN round + 1 ELSE Mixed) \in SchemaPages
    BY <1>2, <2>1, UpgradeAssumption
       DEF Shape, RunFunction, Upgrading, Settings, Versions, Files, SchemaPages
  <2>. QED
    BY Zenon, <1>2, <2>2, WritesSchema DEF RunFunction
<1>3. ASSUME RunFirstHalf
      PROVE  Writes(Content.settings, IF Content.schema = round THEN Half ELSE Mixed)
  <2>1. Content.settings \in Settings
    BY Zenon, <1>3 DEF Shape, RunFirstHalf, WithTables
  <2>2. (IF Content.schema = round THEN Half ELSE Mixed) \in SchemaPages
    BY Zenon, <1>3, <2>1, UpgradeAssumption
       DEF Shape, RunFirstHalf, Upgrading, Settings, Versions, Files, SchemaPages
  <2>. QED
    BY Zenon, <1>3, <2>2, WritesSchema DEF RunFirstHalf
<1>4. ASSUME RunStatement
      PROVE  Writes(Content.settings, Content.schema)
  <2>1. Content.settings \in Settings
    BY Zenon, <1>4 DEF Shape, RunStatement, WithTables
  <2>2. Content.schema \in SchemaPages
    BY Zenon, <1>4, <2>1, UpgradeAssumption
       DEF Shape, RunStatement, Upgrading, Settings, Versions, Files, SchemaPages
  <2>. QED
    BY Zenon, <1>4, <2>2, WritesSchema DEF RunStatement
<1>5. ASSUME RunSecondHalf
      PROVE  Writes(Content.settings, IF Content.schema = Half THEN round + 1 ELSE Mixed)
  <2>1. Content.settings \in Settings
    BY Zenon, <1>5 DEF Shape, RunSecondHalf, WithTables
  <2>2. (IF Content.schema = Half THEN round + 1 ELSE Mixed) \in SchemaPages
    BY <1>5, <2>1, UpgradeAssumption
       DEF Shape, RunSecondHalf, Upgrading, Settings, Versions, Files, SchemaPages
  <2>. QED
    BY Zenon, <1>5, <2>2, WritesSchema DEF RunSecondHalf
<1>6. ASSUME FinishUpgrade
      PROVE  Writes(Row(round + 1, None), Content.schema)
  <2>1. Content.settings \in Settings
    BY Zenon, <1>6 DEF Shape, FinishUpgrade, WithTables
  <2>2. round + 1 \in Versions
    BY <1>6, <2>1, UpgradeAssumption
       DEF Shape, FinishUpgrade, Upgrading, Settings, Versions, Files, SchemaPages
  <2>. QED
    BY Zenon, <1>6, <2>2, WritesSettings DEF FinishUpgrade
<1>7. ASSUME SetVersion
      PROVE  Writes(Row(software, Content.settings.ongoing), Content.schema)
  <2>1. Content.settings \in Settings
    BY Zenon, <1>7 DEF Shape, SetVersion, WithTables
  <2>2. Content.settings.ongoing \in Versions \cup {None}
    BY Zenon, <1>7, <2>1, UpgradeAssumption
       DEF Shape, SetVersion, Upgrading, Settings, Versions, Files, SchemaPages
  <2>. QED
    BY Zenon, <1>7, <2>2, WritesSettings DEF SetVersion
<1>8. ASSUME InsertVersion
      PROVE  Writes(Row(software, Content.settings.ongoing), Content.schema)
  <2>1. Content.settings \in Settings
    BY Zenon, <1>8 DEF Shape, InsertVersion, WithTables
  <2>2. Content.settings.ongoing \in Versions \cup {None}
    BY Zenon, <1>8, <2>1, UpgradeAssumption
       DEF Shape, InsertVersion, Upgrading, Settings, Versions, Files, SchemaPages
  <2>. QED
    BY Zenon, <1>8, <2>2, WritesSettings DEF InsertVersion
<1>9. ASSUME Vacuum PROVE Writes(Content.settings, Content.schema)
  <2>1. Content \in Frames /\ Content.settings # Nothing /\ Content.schema # Nothing
    BY Zenon, DistinctAssumption DEF Files, Frames
  <2>2. Overlay(Content, Content) = Content
    BY Zenon, <2>1, OverlayFields, FileExtensional
  <2>3. Content = [settings |-> Content.settings, schema |-> Content.schema]
    BY Zenon DEF Files
  <2>. QED
    BY Zenon, <1>9, <2>1, <2>2, <2>3, CommitFacts DEF Vacuum, Writes
<1>10. ASSUME Work PROVE Writes(Content.settings, Content.schema)
  <2>1. /\ NoFrames(main) \in Frames
        /\ NoFrames(main).settings = Nothing /\ NoFrames(main).schema = Nothing
    BY Zenon DEF FileTypes, Files, Frames, NoFrames
  <2>2. Overlay(Content, NoFrames(main)) = Content
    BY <2>1, OverlayFields, FileExtensional
  <2>3. Content = [settings |-> Content.settings, schema |-> Content.schema]
    BY Zenon DEF Files
  <2>. QED
    BY Zenon, <1>10, <2>1, <2>2, <2>3, CommitFacts DEF Work, Writes
<1>11. ASSUME CreateTables PROVE Writes(Row(None, None), software)
  <2>. DEFINE pages == [settings |-> Row(None, None), schema |-> software]
  <2>1. pages \in Frames /\ pages \in Files /\ pages.settings # Nothing /\ pages.schema # Nothing
    BY DistinctAssumption DEF Row, Frames, Files, Settings, SettingsPages, SchemaPages
  <2>2. CommitPages(pages)
    BY Zenon, <1>11 DEF CreateTables, Row
  <2>. HIDE DEF pages
  <2>3. Overlay(Content, pages) = pages
    BY <2>1, OverlayFields, FileExtensional
  <2>. QED
    BY Zenon, <2>1, <2>2, <2>3, CommitFacts DEF Writes, pages
<1>. QED
  BY Zenon, <1>1, <1>2, <1>3, <1>4, <1>5, <1>6, <1>7, <1>8, <1>9, <1>10, <1>11

CommitStep ==
    \/ SetFlag \/ RunFunction \/ RunFirstHalf \/ RunStatement \/ RunSecondHalf
    \/ Vacuum \/ FinishUpgrade \/ SetVersion \/ CreateTables \/ InsertVersion \/ Work

\* After any of them there are settings.
LEMMA CommitStepFacts ==
    ASSUME Shape, CommitStep
    PROVE  /\ FileTypes' /\ Content' \in Files /\ Content'.settings \in Settings
           /\ Replayed' = Content'
           /\ main' = main \/ main' = Content'
<1>1. PICK settings, schema : Writes(settings, schema) /\ settings \in Settings
  <2>1. CASE CreateTables
    BY <2>1, CommitSteps DEF Row, Settings
  <2>2. CASE ~CreateTables
    <3>1. Content.settings \in Settings
      BY Zenon, <2>2 DEF CommitStep, Shape, WithTables, At, SetFlag, RunFunction, RunFirstHalf,
         RunStatement, RunSecondHalf, Vacuum, FinishUpgrade, SetVersion, InsertVersion, Work
    <3>2. CASE FinishUpgrade
      <4>1. Row(round + 1, None) \in Settings
        BY <3>2, ShapeTypes, UpgradeAssumption
           DEF FinishUpgrade, At, Shape, Upgrading, Row, Settings, Versions
      <4>. QED  BY Zenon, <3>2, <4>1, CommitSteps
    <3>3. CASE SetFlag \/ SetVersion \/ InsertVersion
      <4>1. /\ Row(Content.settings.version, round) \in Settings
            /\ Row(software, Content.settings.ongoing) \in Settings
        BY Zenon, <3>1, ShapeTypes DEF Row, Settings
      <4>. QED  BY Zenon, <3>3, <4>1, CommitSteps
    <3>4. CASE RunFunction \/ RunFirstHalf \/ RunStatement \/ RunSecondHalf \/ Vacuum \/ Work
      BY Zenon, <3>1, <3>4, CommitSteps
    <3>. QED  BY Zenon, <2>2, <3>2, <3>3, <3>4 DEF CommitStep
  <2>. QED  BY Zenon, <2>1, <2>2
<1>2. Content' \in Files
  BY Zenon, <1>1, OverlayFields DEF Writes, FileTypes, Content
<1>. QED
  BY Zenon, <1>1, <1>2 DEF Writes

LEMMA ShapeCommit ==
    ASSUME Shape, UNCHANGED case, CommitStep
    PROVE  Shape'
<1>1. FileTypes' /\ Content'.settings \in Settings
  BY Zenon, CommitStepFacts
<1>. USE ShapeTypes DEF At, CommitStep
<1>2. UNCHANGED <<case, software, approved, backups, tmp>> /\ round' \in Versions
  BY UpgradeAssumption DEF Shape, Upgrading, Versions, SetFlag, RunFunction, RunFirstHalf,
     RunStatement, RunSecondHalf, Vacuum, FinishUpgrade, SetVersion, CreateTables,
     InsertVersion, Work
<1>3. TypeOK'
  BY Zenon, <1>1, <1>2 DEF FileTypes, Frames, Shape, TypeOK, SetFlag, RunFunction, RunFirstHalf,
     RunStatement, RunSecondHalf, Vacuum, FinishUpgrade, SetVersion, CreateTables,
     InsertVersion, Work,
     AfterFunction
<1>4. /\ (pc \in Upgrading => tmp # NoFile)'
      /\ (pc \in Upgrading \cup {"done"} => round < software)'
      /\ pc' # "resume"
  BY Zenon, <1>2 DEF Shape, Upgrading, SetFlag, RunFunction, RunFirstHalf,
     RunStatement, RunSecondHalf, Vacuum, FinishUpgrade, SetVersion, CreateTables,
     InsertVersion, Work,
     AfterFunction
<1>. QED
  BY Zenon, <1>1, <1>3, <1>4 DEF Shape

LEMMA ShapeRest ==
    ASSUME Shape, UNCHANGED case,
           Connect \/ FindBackup \/ UseBackup \/ RestoreBackup \/ Logout \/ Crash
    PROVE  Shape'
<1>. USE ShapeTypes
<1>1. CASE Connect
  <2>1. FileTypes'
    BY Zenon, <1>1, CloseFacts DEF Connect, fileVars, FileTypes
  <2>2. approved' \in BOOLEAN
    BY Zenon, <1>1, UpgradeAssumption DEF Connect, Shape, TypeOK, Case
  <2>3. TypeOK'
    BY Zenon, <1>1, <2>1, <2>2 DEF Connect, Shape, TypeOK, FileTypes, Frames
  <2>. QED
    BY Zenon, <1>1, <2>3 DEF Connect, Shape, WithTables, Upgrading
<1>2. CASE FindBackup
  <2>1. Content.settings \in Settings /\ Content.settings.ongoing \in Versions
    BY Zenon, <1>2 DEF FindBackup, HasTables, Files, SettingsPages, Settings
  <2>2. FileTypes' /\ backfilled' /\ wal' = NoFrames(main')
    BY Zenon, <1>2, CloseFacts DEF FindBackup
  <2>3. TypeOK'
    BY Zenon, <1>2, <2>1, <2>2 DEF FindBackup, Shape, TypeOK, FileTypes, Frames
  <2>4. pc' = "resume" => backups'[round'] # NoFile
    BY Zenon, <1>2 DEF FindBackup
  <2>. QED
    BY Zenon, <1>2, <2>2, <2>3, <2>4 DEF FindBackup, Shape, WithTables, Upgrading
<1>3. CASE UseBackup
  <2>1. backups[round] \in Files
    BY Zenon, <1>3 DEF UseBackup, Shape
  <2>2. TypeOK'
    BY Zenon, <1>3, <2>1 DEF UseBackup, Shape, TypeOK, ReplaceMain
  <2>. QED
    BY Zenon, <1>3, <2>2 DEF UseBackup, Shape, WithTables, Upgrading
<1>4. CASE RestoreBackup
  <2>1. tmp \in Files
    BY Zenon, <1>4 DEF RestoreBackup, At, Shape, Upgrading
  <2>2. TypeOK'
    BY Zenon, <1>4, <2>1 DEF RestoreBackup, At, Shape, TypeOK, ReplaceMain
  <2>. QED
    BY Zenon, <1>4, <2>2 DEF RestoreBackup, At, Shape, WithTables, Upgrading
<1>5. CASE Logout
  <2>1. FileTypes'
    BY Zenon, <1>5, CloseFacts DEF Logout
  <2>2. TypeOK'
    BY Zenon, <1>5, <2>1 DEF Logout, At, Shape, TypeOK, FileTypes, Frames
  <2>. QED
    BY Zenon, <1>5, <2>2 DEF Logout, At, Shape, WithTables, Upgrading
<1>6. CASE Crash
  <2>1. TornFile \in Files
    BY Zenon DEF TornFile, Files, SettingsPages, SchemaPages
  <2>2. main' \in Files
    BY Zenon, <1>6, <2>1 DEF Crash, FileTypes
  <2>3. backups' \in [Versions -> Files \cup {NoFile}]
    BY Zenon, <1>6, <2>1 DEF Crash
  <2>4. backfilled' \in BOOLEAN
    BY Zenon, <1>6 DEF Crash
  <2>5. TypeOK'
    BY Zenon, <1>6, <2>2, <2>3, <2>4 DEF Crash, Shape, TypeOK
  <2>. QED
    BY Zenon, <1>6, <2>5 DEF Crash, Shape, WithTables, Upgrading
<1>. QED
  BY Zenon, <1>1, <1>2, <1>3, <1>4, <1>5, <1>6

LEMMA ShapeStep == Shape /\ [Next]_vars => Shape'
<1>. SUFFICES ASSUME Shape, [Next]_vars PROVE Shape'
  BY Zenon
<1>1. CASE UNCHANGED vars
  <2>1. UNCHANGED fileVars
    BY Zenon, <1>1 DEF vars, fileVars
  <2>. QED
    BY <1>1, <2>1, QuietFacts DEF vars, Shape, TypeOK, NoFrames
<1>2. CASE Next
  BY Zenon, <1>2, ShapeQuiet, ShapeCommit, ShapeRest DEF Next, Step, CommitStep
<1>. QED
  BY Zenon, <1>1, <1>2

\* Every variable keeps its type, whatever fails or crashes.
THEOREM TypeCorrect == Spec => []TypeOK
<1>1. Shape => TypeOK
  BY Zenon DEF Shape
<1>. QED
  BY <1>1, ShapeInit, ShapeStep, PTL DEF Spec

-----------------------------------------------------------------------------
(* A crash loses nothing, and the file never gets ahead of the connection.   *)

QuietStep ==
    \/ NoUnfinishedUpgrade \/ RefuseUnfinished \/ RunUpgrades \/ SkipUpgrade
    \/ BackupToTmp \/ FailFunction \/ KeepBackup \/ SanityCheck \/ CreateDBBackup

LEMMA QuietStepFacts ==
    ASSUME QuietStep
    PROVE  UNCHANGED <<fileVars, software, approved>> /\ pc # "failed"
           /\ Content' = Content /\ Replayed' = Replayed
BY Zenon, QuietFacts DEF QuietStep, NoUnfinishedUpgrade, RefuseUnfinished, RunUpgrades,
   SkipUpgrade, BackupToTmp,
   FailFunction, KeepBackup, SanityCheck, CreateDBBackup, At, fileVars

\* UseBackup finds the -wal file empty.
LEMMA UseBackupFacts ==
    ASSUME Shape, UseBackup
    PROVE  /\ backups[round] \in Files /\ main' = backups[round]
           /\ Content' = main' /\ Replayed' = main'
<1>1. backups[round] \in Files /\ main' = backups[round] /\ wal' = wal /\ backfilled'
  BY Zenon, ShapeTypes DEF Shape, UseBackup, ReplaceMain
<1>2. wal \in Frames /\ wal.settings = Nothing /\ wal.schema = Nothing
  BY Zenon, ShapeTypes DEF Shape, UseBackup, NoFrames, FileTypes, Files
<1>3. Overlay(main', wal') = main'
  BY Zenon, <1>1, <1>2, OverlayFields, FileExtensional
<1>. QED
  BY Zenon, <1>1, <1>3 DEF Content, Replayed

LEMMA CrashFacts ==
    ASSUME Shape, Crash
    PROVE  /\ Content' = Replayed' /\ wal' = wal
           /\ \/ main' = main /\ Replayed' = Replayed
              \/ /\ pc \in {"resume", "restore"} /\ main' = TornFile
                 /\ Replayed' = Overlay(TornFile, wal)
<1>1. backfilled' = FALSE /\ wal' = wal
  BY Zenon DEF Crash
<1>2. main' = main \/ (pc \in {"resume", "restore"} /\ main' = TornFile)
  BY Zenon DEF Crash
<1>. QED
  BY Zenon, <1>1, <1>2 DEF Content, Replayed

LEMMA CrashSafeStep == Shape /\ CrashSafe /\ [Next]_vars => CrashSafe'
<1>. SUFFICES ASSUME Shape, CrashSafe, [Next]_vars, pc' # "failed"
              PROVE  Replayed' = Content'
  BY Zenon DEF CrashSafe
<1>1. CASE UNCHANGED vars
  BY Zenon, <1>1, QuietFacts DEF vars, fileVars, CrashSafe
<1>2. CASE QuietStep
  BY Zenon, <1>2, QuietStepFacts DEF CrashSafe
<1>3. CASE CommitStep
  BY Zenon, <1>3, CommitStepFacts
<1>4. CASE FindBackup \/ Logout
  BY Zenon, <1>4, ShapeTypes, CloseFacts DEF FindBackup, Logout
<1>5. CASE Connect
  BY <1>5, ShapeTypes, CloseFacts, QuietFacts DEF Connect, CrashSafe
<1>6. CASE UseBackup
  BY Zenon, <1>6, UseBackupFacts
<1>7. CASE Crash
  BY Zenon, <1>7, CrashFacts
<1>8. CASE RestoreBackup
  BY Zenon, <1>8 DEF RestoreBackup, At
<1>. QED
  BY Zenon, <1>1, <1>2, <1>3, <1>4, <1>5, <1>6, <1>7, <1>8 DEF Next, Step, QuietStep, CommitStep

LEMMA NotNewerFacts ==
    ASSUME NEW a \in SettingsPages, NEW b \in SettingsPages, NEW c \in SettingsPages
    PROVE  /\ NotNewer(a, a)
           /\ NotNewer(a, b) /\ NotNewer(b, c) => NotNewer(a, c)
<1>. \A s \in Settings : s.version # None => s.version \in Int
  BY UpgradeAssumption DEF Settings, Versions
<1>. QED
  BY DEF NotNewer

\* A commit never lowers the version.
LEMMA CommitNotNewer ==
    ASSUME Shape, VersionInv, CommitStep
    PROVE  NotNewer(Content.settings, Content'.settings)
<1>. USE ShapeTypes
<1>0. Content.settings \in SettingsPages /\ Content'.settings \in SettingsPages
  BY Zenon, CommitStepFacts DEF Files
<1>v. Content.settings \in Settings => Content.settings.version = None \/ Content.settings.version \in Int
  BY UpgradeAssumption DEF Settings, Versions
<1>1. CASE RunFunction \/ RunFirstHalf \/ RunStatement \/ RunSecondHalf \/ Vacuum \/ Work
  <2>1. Content'.settings = Content.settings
    BY <1>1, CommitSteps DEF Writes
  <2>. QED
    BY Zenon, <1>0, <2>1, NotNewerFacts
<1>2. CASE SetFlag
  <2>1. Content'.settings = Row(Content.settings.version, round) /\ Content'.settings \in Settings
    BY <1>2, CommitSteps, CommitStepFacts DEF Writes
  <2>. QED
    BY <1>v, <2>1 DEF NotNewer, Row
<1>3. CASE FinishUpgrade
  <2>1. Content'.settings = Row(round + 1, None) /\ Content'.settings \in Settings
    BY <1>3, CommitSteps, CommitStepFacts DEF Writes
  <2>2. Content.settings.version = round /\ round + 1 # None
    BY <1>3, <2>1, UpgradeAssumption, DistinctAssumption
       DEF VersionInv, FinishUpgrade, At, Shape, Upgrading, Versions
  <2>. QED
    BY <1>v, <2>1, <2>2 DEF NotNewer, Row
<1>4. CASE SetVersion
  <2>1. /\ Content'.settings = Row(software, Content.settings.ongoing)
        /\ Content'.settings \in Settings
    BY <1>4, CommitSteps, CommitStepFacts DEF Writes
  <2>2. GetVersion <= software /\ software # None
    BY Zenon, <1>4, DistinctAssumption DEF VersionInv, SetVersion, At
  <2>. QED
    BY <1>v, <2>1, <2>2 DEF NotNewer, Row, GetVersion
<1>5. CASE InsertVersion \/ CreateTables
  BY Zenon, <1>5 DEF VersionInv, InsertVersion, CreateTables, At, NotNewer
<1>. QED
  BY Zenon, <1>1, <1>2, <1>3, <1>4, <1>5 DEF CommitStep

\* what VersionInv says of the files
FilesNotNewer ==
    /\ NotNewer(main.settings, Content.settings)
    /\ NotNewer(main.settings, Replayed.settings)

LEMMA FilesNotNewerStep ==
    ASSUME Shape, CrashSafe, VersionInv, [Next]_vars
    PROVE  FilesNotNewer'
<1>. USE ShapeTypes
<1>a. FilesNotNewer
  BY Zenon DEF VersionInv, FilesNotNewer
<1>b. /\ main.settings \in SettingsPages /\ Content.settings \in SettingsPages
      /\ Replayed.settings \in SettingsPages
  BY Zenon DEF FileTypes, Files
<1>1. CASE UNCHANGED vars
  BY Zenon, <1>a, <1>1, QuietFacts DEF vars, fileVars, FilesNotNewer
<1>2. CASE QuietStep
  BY Zenon, <1>a, <1>2, QuietStepFacts DEF FilesNotNewer, fileVars
<1>3. CASE CommitStep
  <2>1. Content'.settings \in SettingsPages /\ Replayed' = Content'
    BY Zenon, <1>3, CommitStepFacts DEF Files
  <2>2. NotNewer(Content.settings, Content'.settings)
    BY Zenon, <1>3, CommitNotNewer
  <2>3. NotNewer(main'.settings, Content'.settings)
    BY Zenon, <1>3, <1>a, <1>b, <2>1, <2>2, CommitStepFacts, NotNewerFacts DEF FilesNotNewer
  <2>. QED
    BY Zenon, <2>1, <2>3 DEF FilesNotNewer
<1>4. CASE FindBackup \/ Logout
  BY Zenon, <1>b, <1>4, CloseFacts, NotNewerFacts DEF FindBackup, Logout, FilesNotNewer
<1>5. CASE Connect
  BY Zenon, <1>a, <1>b, <1>5, CloseFacts, QuietFacts, NotNewerFacts
     DEF Connect, FilesNotNewer, fileVars
<1>6. CASE UseBackup
  <2>1. main'.settings \in SettingsPages
    BY Zenon, <1>6, UseBackupFacts DEF Files
  <2>. QED
    BY Zenon, <1>6, <2>1, UseBackupFacts, NotNewerFacts DEF FilesNotNewer
<1>7. CASE Crash
  <2>1. TornFile.settings \notin Settings
    BY Zenon, DistinctAssumption DEF TornFile
  <2>. QED
    BY Zenon, <1>a, <1>7, <2>1, CrashFacts DEF FilesNotNewer, NotNewer
<1>8. CASE RestoreBackup
  <2>1. tmp \in Files /\ main' = tmp /\ wal' = wal /\ backfilled' = backfilled
    BY Zenon, <1>8 DEF RestoreBackup, At, ReplaceMain, Shape, Upgrading
  <2>2. NotNewer(tmp.settings, Content.settings) /\ tmp.settings \in SettingsPages
    BY Zenon, <1>8, <2>1 DEF RestoreBackup, At, VersionInv, Upgrading, Files
  <2>3. wal.settings = Nothing \/ wal.settings = Content.settings
    <3>1. Replayed = Content
      BY Zenon, <1>8 DEF RestoreBackup, At, CrashSafe
    <3>. QED
      BY Zenon, <3>1, OverlayFields DEF Replayed, FileTypes
  <2>4. Overlay(tmp, wal).settings \in {tmp.settings, Content.settings}
    BY Zenon, <2>1, <2>3, OverlayFields DEF FileTypes
  <2>5. /\ Content' = tmp \/ Content' = Overlay(tmp, wal)
        /\ Replayed' = Overlay(tmp, wal)
    BY Zenon, <2>1 DEF Content, Replayed
  <2>. QED
    BY Zenon, <2>1, <2>2, <2>4, <2>5, NotNewerFacts DEF FilesNotNewer
<1>. QED
  BY Zenon, <1>1, <1>2, <1>3, <1>4, <1>5, <1>6, <1>7, <1>8 DEF Next, Step, QuietStep, CommitStep

\* the rest of VersionInv
RoundInv ==
    /\ pc \in Upgrading =>
          /\ NotNewer(tmp.settings, Content.settings)
          /\ Content.settings.version = round
    /\ pc = "done" => Content.settings.version = round
    /\ pc = "round" => GetVersion <= software
    /\ pc = "create" => Content.settings \notin Settings
    /\ pc = "insert" => Content.settings.version = None

LEMMA RoundInvStep ==
    ASSUME Shape, CrashSafe, VersionInv, [Next]_vars
    PROVE  RoundInv'
<1>. USE ShapeTypes
<1>a. RoundInv
  BY Zenon DEF VersionInv, RoundInv
<1>1. CASE UNCHANGED vars
  BY Zenon, <1>a, <1>1, QuietFacts DEF vars, fileVars, RoundInv, GetVersion
<1>2. CASE QuietStep
  <2>. USE <1>a, QuietStepFacts DEF QuietStep
  <2>1. CASE NoUnfinishedUpgrade \/ RefuseUnfinished \/ SanityCheck \/ CreateDBBackup
    BY Zenon, <2>1 DEF NoUnfinishedUpgrade, RefuseUnfinished, SanityCheck, CreateDBBackup, At,
       RoundInv, Upgrading
  <2>2. CASE RunUpgrades
    <3>1. pc' = "create" => Content.settings \notin Settings
      BY Zenon, <2>2, DistinctAssumption DEF RunUpgrades, HasTables
    <3>2. pc' = "round" => GetVersion <= software
      <4>1. pc' = "round" => GetVersion \in Int
        BY <2>2 DEF RunUpgrades, HasTables, Files, SettingsPages, Settings, GetVersion, Versions
      <4>. QED
        BY <2>2, <4>1 DEF RunUpgrades
    <3>. QED
      BY Zenon, <2>2, <3>1, <3>2 DEF RunUpgrades, RoundInv, Upgrading, GetVersion
  <2>3. CASE SkipUpgrade
    BY Zenon, <2>3 DEF SkipUpgrade, At, RoundInv, Upgrading, GetVersion
  <2>4. CASE BackupToTmp
    <3>1. Content.settings.version = round
      BY <2>4 DEF BackupToTmp, GetVersion
    <3>2. NotNewer(tmp'.settings, Content'.settings)
      BY Zenon, <2>4 DEF BackupToTmp, VersionInv
    <3>. QED
      BY Zenon, <2>4, <3>1, <3>2 DEF BackupToTmp, At, RoundInv, Upgrading
  <2>5. CASE FailFunction \/ KeepBackup
    BY Zenon, <2>5 DEF FailFunction, KeepBackup, At, RoundInv, Upgrading
  <2>. QED
    BY Zenon, <1>2, <2>1, <2>2, <2>3, <2>4, <2>5
<1>3. CASE CommitStep
  <2>. USE <1>a
  <2>1. CASE SetFlag \/ RunFunction \/ RunFirstHalf \/ RunStatement \/ RunSecondHalf \/ Vacuum
    <3>1. pc \in Upgrading /\ pc' \in Upgrading /\ UNCHANGED <<round, tmp>>
      BY Zenon, <2>1 DEF SetFlag, RunFunction, RunFirstHalf, RunStatement, RunSecondHalf,
         Vacuum, At,
         AfterFunction, Upgrading
    <3>2. Content'.settings.version = Content.settings.version
      BY <2>1, CommitSteps DEF Writes, Row
    <3>3. NotNewer(Content.settings, Content'.settings)
      BY Zenon, <1>3, CommitNotNewer
    <3>4. /\ tmp.settings \in SettingsPages /\ Content.settings \in SettingsPages
          /\ Content'.settings \in SettingsPages
      BY Zenon, <1>3, <3>1, CommitStepFacts DEF Files, Shape
    <3>5. NotNewer(tmp.settings, Content'.settings)
      BY Zenon, <3>1, <3>3, <3>4, NotNewerFacts DEF RoundInv
    <3>. QED
      BY Zenon, <3>1, <3>2, <3>5 DEF RoundInv, Upgrading
  <2>2. CASE FinishUpgrade
    <3>1. Content'.settings.version = round + 1
      BY <2>2, CommitSteps DEF Writes, Row
    <3>2. GetVersion' <= software'
      BY <2>2, <3>1, DistinctAssumption, UpgradeAssumption
         DEF FinishUpgrade, At, GetVersion, Shape, Upgrading, Versions
    <3>. QED
      BY Zenon, <2>2, <3>2 DEF FinishUpgrade, At, RoundInv, Upgrading
  <2>3. CASE CreateTables
    <3>1. Content'.settings.version = None
      BY <2>3, CommitSteps DEF Writes, Row
    <3>. QED
      BY Zenon, <2>3, <3>1 DEF CreateTables, At, RoundInv, Upgrading
  <2>4. CASE SetVersion \/ InsertVersion \/ Work
    BY Zenon, <2>4 DEF SetVersion, InsertVersion, Work, At, RoundInv, Upgrading
  <2>. QED
    BY Zenon, <1>3, <2>1, <2>2, <2>3, <2>4 DEF CommitStep
<1>4. CASE Connect \/ FindBackup \/ UseBackup \/ RestoreBackup \/ Logout \/ Crash
  <2>1. pc' \in {"failed", "check", "resume", "upgrade", "closed"}
    BY Zenon, <1>4 DEF Connect, FindBackup, UseBackup, RestoreBackup, Logout, Crash, At
  <2>. QED
    BY Zenon, <2>1 DEF RoundInv, Upgrading
<1>. QED
  BY Zenon, <1>1, <1>2, <1>3, <1>4 DEF Next, Step, QuietStep, CommitStep

VersionIInv == Shape /\ CrashSafe /\ VersionInv

LEMMA VersionIInvInit == Init => VersionIInv
<1>. SUFFICES ASSUME Init PROVE VersionIInv
  BY Zenon
<1>1. Shape
  BY Zenon, ShapeInit
<1>2. main \in Files /\ wal \in Frames /\ wal.settings = Nothing /\ wal.schema = Nothing
  BY Zenon, <1>1 DEF Shape, TypeOK, Frames, Init, NoFrames, Files
<1>3. Content = main /\ Replayed = main
  BY Zenon, <1>2, OverlayFields, FileExtensional DEF Init, Content, Replayed
<1>4. NotNewer(main.settings, main.settings)
  BY Zenon, <1>2, NotNewerFacts DEF Files
<1>. QED
  BY Zenon, <1>1, <1>3, <1>4 DEF Init, VersionIInv, CrashSafe, VersionInv, Upgrading

LEMMA VersionIInvStep == VersionIInv /\ [Next]_vars => VersionIInv'
BY Zenon, ShapeStep, CrashSafeStep, FilesNotNewerStep, RoundInvStep
   DEF VersionIInv, VersionInv, FilesNotNewer, RoundInv

\* backup named v
NamedRight(file, v) ==
    file # NoFile /\ HasTables(file) => file.settings.version \in {None} \cup (MinSupported .. v)

LEMMA NamedRightFacts ==
    ASSUME NEW file \in Files, NEW s \in Settings, NEW v \in Versions,
           NotNewer(file.settings, s), s.version \in {None, v}
    PROVE  NamedRight(file, v)
BY UpgradeAssumption DEF NamedRight, NotNewer, HasTables, Files, SettingsPages, Settings, Versions

LEMMA BackupsStep ==
    ASSUME VersionIInv, BackupsAreNotNewer, [Next]_vars
    PROVE  BackupsAreNotNewer'
<1>. USE ShapeTypes DEF VersionIInv
<1>. SUFFICES ASSUME NEW v \in Versions
              PROVE  NamedRight(backups'[v], v)
  BY Zenon DEF BackupsAreNotNewer, NamedRight, HasTables
<1>a. NamedRight(backups[v], v)
  BY Zenon DEF BackupsAreNotNewer, NamedRight
<1>2. CASE KeepBackup
  <2>1. backups'[v] = backups[v] \/ (v = round /\ backups'[v] = tmp)
    BY Zenon, <1>2 DEF KeepBackup
  <2>2. tmp \in Files /\ NotNewer(tmp.settings, Content.settings)
        /\ Content.settings \in Settings /\ Content.settings.version = round
    BY Zenon, <1>2 DEF KeepBackup, At, Shape, VersionInv, Upgrading, WithTables
  <2>. QED
    BY Zenon, <1>a, <2>1, <2>2, NamedRightFacts
<1>3. CASE CreateDBBackup
  <2>1. backups'[v] = backups[v] \/ (v = GetVersion /\ backups'[v] = main)
    BY Zenon, <1>3 DEF CreateDBBackup
  <2>2. /\ main \in Files /\ NotNewer(main.settings, Content.settings)
        /\ Content.settings \in Settings /\ Content.settings.version \in {None, GetVersion}
    BY Zenon, <1>3 DEF CreateDBBackup, At, Shape, VersionInv, WithTables, FileTypes, GetVersion
  <2>. QED
    BY Zenon, <1>a, <2>1, <2>2, NamedRightFacts
<1>4. CASE Crash
  <2>1. backups'[v] = backups[v] \/ backups'[v] = TornFile
    BY Zenon, <1>4 DEF Crash
  <2>2. NamedRight(TornFile, v)
    BY Zenon DEF NamedRight, HasTables, TornFile
  <2>. QED
    BY Zenon, <1>a, <2>1, <2>2
<1>5. CASE UNCHANGED backups
  BY Zenon, <1>a, <1>5
<1>. QED
  BY Zenon, <1>2, <1>3, <1>4, <1>5 DEF Next, Step, vars, Connect, NoUnfinishedUpgrade,
     RefuseUnfinished, FindBackup, UseBackup, RunUpgrades, SkipUpgrade, BackupToTmp, SetFlag,
     RunFunction, RunFirstHalf, RunStatement, RunSecondHalf, Vacuum, FailFunction, RestoreBackup,
     FinishUpgrade, SetVersion, CreateTables, InsertVersion, SanityCheck, Work, Logout

\* For any number of versions, logins, failures and crashes, and for any account, a
\* backup named after a version never holds a newer DB: neither the copies that
\* _perform_single_upgrade keeps nor those of create_db_backup.
THEOREM BackupsNotNewer == Spec => []BackupsAreNotNewer
<1>1. Init => BackupsAreNotNewer
  BY Zenon DEF Init, BackupsAreNotNewer
<1>2. VersionIInv /\ BackupsAreNotNewer /\ [Next]_vars => BackupsAreNotNewer'
  BY Zenon, BackupsStep
<1>. QED
  BY <1>1, <1>2, VersionIInvInit, VersionIInvStep, PTL DEF Spec

-----------------------------------------------------------------------------
(* Plain accounts.                                                           *)

\* A flagged file is usable, whatever its tables are.
LEMMA FlaggedFacts ==
    ASSUME NEW v \in Versions, NEW file \in Files, file.settings = Row(v, v)
    PROVE  Usable(file)
BY DistinctAssumption DEF Usable, Row, Settings

LEMMA UpgradedFacts ==
    ASSUME NEW v \in Versions
    PROVE  /\ Upgraded(v) \in Files /\ Usable(Upgraded(v)) /\ ~IsTorn(Upgraded(v))
           /\ Upgraded(v).settings = Row(v, None) /\ Upgraded(v).schema = v
           /\ HasTables(Upgraded(v)) /\ Upgraded(v).settings.version = v
           /\ Upgraded(v).settings.ongoing = None
BY DistinctAssumption DEF Upgraded, DBFile, Row, Files, Settings, SettingsPages, SchemaPages,
   Usable, IsTorn, HasTables

\* what PlainInv says of the files
PlainFiles ==
    /\ Usable(main) /\ Usable(Content) /\ Usable(Replayed)
    /\ pc \in Upgrading => Usable(tmp)

\* The commits of a plain login
LEMMA PlainCommit ==
    ASSUME Shape, Plain, PlainFiles, PlainStep, CommitStep
    PROVE  PlainFiles' /\ PlainStep'
<1>. USE ShapeTypes, UpgradeAssumption
<1>0. ASSUME Usable(Content')
      PROVE  /\ Usable(main') /\ Usable(Content') /\ Usable(Replayed')
  BY Zenon, <1>0, CommitStepFacts DEF PlainFiles
<1>1. CASE SetFlag
  <2>1. Content = Upgraded(round) /\ pc \in Upgrading /\ pc' = "function"
        /\ UNCHANGED <<software, approved, round, tmp>>
    BY Zenon, <1>1 DEF SetFlag, At, PlainStep, Upgrading
  <2>2. Content.settings.version = round /\ Content.schema = round
    BY Zenon, <2>1, UpgradedFacts
  <2>3. /\ Content' = DBFile(round, round, round) /\ Content'.settings = Row(round, round)
        /\ wal'.settings = Content'.settings
    <3>1. /\ Writes(Row(Content.settings.version, round), Content.schema)
          /\ wal'.settings = Row(Content.settings.version, round)
      BY Zenon, <1>1, CommitSteps
    <3>. QED
      BY Zenon, <2>2, <3>1 DEF Writes, DBFile, Row
  <2>4. Usable(Content')
    BY Zenon, <2>3, FlaggedFacts, CommitStepFacts
  <2>. QED
    BY Zenon, <1>0, <2>1, <2>3, <2>4 DEF PlainFiles, PlainStep, Upgrading
<1>2. CASE RunFunction
  <2>1. /\ Content = DBFile(round, round, round) /\ pc \in Upgrading /\ pc' = "keep"
        /\ UNCHANGED <<software, approved, round, tmp>>
    BY Zenon, <1>2 DEF RunFunction, At, AfterFunction, PlainStep, Upgrading, Plain
  <2>2. Content' = DBFile(round, round, round + 1) /\ Content'.settings = Row(round, round)
    <3>1. Writes(Content.settings, IF Content.schema = round THEN round + 1 ELSE Mixed)
      BY Zenon, <1>2, CommitSteps
    <3>. QED
      BY Zenon, <2>1, <3>1 DEF Writes, DBFile, Row
  <2>3. Usable(Content')
    BY Zenon, <2>2, FlaggedFacts, CommitStepFacts
  <2>. QED
    BY Zenon, <1>0, <2>1, <2>2, <2>3 DEF PlainFiles, PlainStep, Upgrading
<1>3. CASE FinishUpgrade
  <2>1. /\ Content = DBFile(round, round, round + 1) /\ pc' = "round"
        /\ round < software /\ round' = round + 1 /\ UNCHANGED <<software, approved, tmp>>
    BY Zenon, <1>3 DEF FinishUpgrade, At, PlainStep, Shape
  <2>2. Content' = Upgraded(round + 1) /\ round + 1 \in Versions
    <3>1. Writes(Row(round + 1, None), Content.schema)
      BY Zenon, <1>3, CommitSteps
    <3>2. round + 1 \in Versions
      BY <2>1 DEF Versions
    <3>. QED
      BY Zenon, <2>1, <3>1, <3>2 DEF Writes, DBFile, Row, Upgraded
  <2>3. Usable(Content')
    BY Zenon, <2>2, UpgradedFacts
  <2>4. round + 1 \in round' .. software'
    BY <2>1
  <2>. QED
    BY Zenon, <1>0, <2>1, <2>2, <2>3, <2>4 DEF PlainFiles, PlainStep, Upgrading
<1>4. CASE SetVersion
  <2>1. Content = Upgraded(software) /\ pc' = "sanity" /\ UNCHANGED <<software, approved, tmp>>
    BY <1>4 DEF SetVersion, At, PlainStep
  <2>2. Content' = Upgraded(software)
    <3>1. Content.settings.ongoing = None /\ Content.schema = software
      BY Zenon, <2>1, UpgradedFacts
    <3>. QED
      BY Zenon, <1>4, <3>1, CommitSteps DEF Writes, DBFile, Row, Upgraded
  <2>3. Usable(Content')
    BY Zenon, <2>2, UpgradedFacts
  <2>. QED
    BY Zenon, <1>0, <2>1, <2>2, <2>3 DEF PlainFiles, PlainStep, Upgrading
<1>5. CASE Work
  <2>1. Content = Upgraded(software) /\ pc' = "open" /\ UNCHANGED <<software, approved, tmp>>
    BY Zenon, <1>5 DEF Work, At, PlainStep
  <2>2. Content' = Content
    BY <1>5, CommitSteps, FileExtensional, CommitStepFacts DEF Writes
  <2>3. Usable(Content')
    BY Zenon, <2>1, <2>2, UpgradedFacts
  <2>. QED
    BY Zenon, <1>0, <2>1, <2>2, <2>3 DEF PlainFiles, PlainStep, Upgrading
<1>6. CASE RunFirstHalf \/ RunStatement \/ RunSecondHalf \/ Vacuum \/ CreateTables \/ InsertVersion
  BY Zenon, <1>6 DEF RunFirstHalf, RunStatement, RunSecondHalf, Vacuum, CreateTables,
     InsertVersion, At,
     PlainStep, Plain
<1>. QED
  BY Zenon, <1>1, <1>2, <1>3, <1>4, <1>5, <1>6 DEF CommitStep

LEMMA PlainQuiet ==
    ASSUME Shape, Plain, PlainFiles, PlainStep, QuietStep
    PROVE  PlainFiles' /\ PlainStep'
<1>. USE ShapeTypes, UpgradeAssumption, QuietStepFacts
<1>0. Usable(main') /\ Usable(Content') /\ Usable(Replayed')
  BY Zenon DEF PlainFiles, fileVars
<1>1. CASE NoUnfinishedUpgrade
  <2>1. ~IsTorn(Content) /\ Usable(Content) /\ pc' = "upgrade"
    BY Zenon, <1>1 DEF NoUnfinishedUpgrade, At, PlainStep, PlainFiles
  <2>2. Content.settings \in Settings /\ Content.settings.version # None
        /\ (Content.settings.ongoing # None \/ Content.schema = Content.settings.version)
    BY Zenon, <2>1 DEF Usable
  <2>3. Content.settings.ongoing = None
    BY Zenon, <1>1, <2>2, DistinctAssumption DEF NoUnfinishedUpgrade, HasTables
  <2>4. PICK v \in Versions : v = Content.settings.version
    BY Zenon, <2>2 DEF Settings
  <2>5. Content.settings = Row(v, None) /\ Content.schema = v
    BY Zenon, <2>2, <2>3, <2>4 DEF Settings, Row
  <2>6. Content = Upgraded(v)
    BY <2>5, UpgradedFacts, FileExtensional
  <2>. QED
    BY Zenon, <1>0, <2>1, <2>6 DEF PlainFiles, PlainStep, Upgrading
<1>2. CASE RefuseUnfinished
  BY Zenon, <1>0, <1>2 DEF RefuseUnfinished, At, PlainFiles, PlainStep, Upgrading
<1>3. CASE RunUpgrades
  <2>1. PICK v \in Versions : Content = Upgraded(v)
    BY Zenon, <1>3 DEF RunUpgrades, PlainStep
  <2>2. HasTables(Content) /\ GetVersion = v
    BY Zenon, <2>1, UpgradedFacts, DistinctAssumption DEF GetVersion
  <2>3. pc' = "failed" \/ (pc' = "round" /\ v <= software)
    BY <1>3, <2>2 DEF RunUpgrades, Versions
  <2>4. round' = MinSupported
    BY Zenon, <1>3 DEF RunUpgrades
  <2>5. pc' = "round" => v \in round' .. software'
    BY <2>3, <2>4 DEF Versions, fileVars
  <2>. QED
    BY Zenon, <1>0, <2>1, <2>3, <2>5 DEF PlainFiles, PlainStep, Upgrading
<1>4. CASE SkipUpgrade
  <2>1. PICK v \in round .. software : Content = Upgraded(v)
    BY Zenon, <1>4 DEF SkipUpgrade, At, PlainStep
  <2>2. v \in Versions
    BY DEF Versions
  <2>3. GetVersion = v
    BY Zenon, <2>1, <2>2, UpgradedFacts, DistinctAssumption DEF GetVersion
  <2>4. v \in round' .. software' /\ pc' = "round"
    BY <1>4, <2>3 DEF SkipUpgrade, At
  <2>. QED
    BY Zenon, <1>0, <2>1, <2>4 DEF PlainFiles, PlainStep, Upgrading
<1>5. CASE BackupToTmp
  <2>1. PICK v \in round .. software : Content = Upgraded(v)
    BY Zenon, <1>5 DEF BackupToTmp, At, PlainStep
  <2>2. v \in Versions
    BY DEF Versions
  <2>3. GetVersion = v
    BY Zenon, <2>1, <2>2, UpgradedFacts, DistinctAssumption DEF GetVersion
  <2>4. pc' = "flag" /\ Content' = Upgraded(round') /\ Usable(tmp')
    BY Zenon, <1>5, <2>1, <2>3 DEF BackupToTmp, At, PlainFiles
  <2>. QED
    BY Zenon, <1>0, <2>4 DEF PlainFiles, PlainStep, Upgrading
<1>6. CASE FailFunction \/ KeepBackup \/ CreateDBBackup
  BY Zenon, <1>0, <1>6 DEF FailFunction, KeepBackup, CreateDBBackup, At, PlainFiles, PlainStep,
     Upgrading,
     fileVars
<1>7. CASE SanityCheck
  BY Zenon, <1>0, <1>7 DEF SanityCheck, PlainFiles, PlainStep, Upgrading
<1>. QED
  BY Zenon, <1>1, <1>2, <1>3, <1>4, <1>5, <1>6, <1>7 DEF QuietStep

LEMMA PlainRest ==
    ASSUME Shape, CrashSafe, Plain, PlainFiles, PlainStep,
           Connect \/ FindBackup \/ UseBackup \/ RestoreBackup \/ Logout \/ Crash
    PROVE  PlainFiles' /\ PlainStep'
<1>. USE ShapeTypes
<1>1. CASE Connect
  <2>1. /\ Content' = Content /\ Usable(main') /\ Usable(Content') /\ Usable(Replayed')
    BY Zenon, <1>1, CloseFacts, QuietFacts DEF Connect, fileVars, PlainFiles
  <2>2. ~approved' /\ (pc' = "failed" \/ (pc' = "check" /\ ~IsTorn(Content')))
    BY Zenon, <1>1, <2>1 DEF Connect, Plain
  <2>. QED
    BY Zenon, <2>1, <2>2 DEF PlainFiles, PlainStep, Upgrading
<1>2. CASE FindBackup \/ UseBackup
  BY Zenon, <1>2 DEF FindBackup, UseBackup, PlainStep
<1>3. CASE Logout
  <2>1. Usable(main') /\ Usable(Content') /\ Usable(Replayed') /\ pc' = "closed"
    BY Zenon, <1>3, CloseFacts DEF Logout, At, PlainFiles
  <2>. QED
    BY Zenon, <2>1 DEF PlainFiles, PlainStep, Upgrading
<1>4. ASSUME pc = "restore"
      PROVE  wal.settings = Row(round, round) /\ wal.settings # Nothing
  BY <1>4, DistinctAssumption DEF PlainStep, DBFile, Row, SettingsPages, Settings
<1>5. ASSUME pc = "restore", NEW file \in Files
      PROVE  Usable(Overlay(file, wal))
  BY Zenon, <1>4, <1>5, OverlayFields, FlaggedFacts DEF FileTypes
<1>6. CASE RestoreBackup
  <2>1. /\ pc = "restore" /\ pc' = "failed" /\ tmp \in Files /\ Usable(tmp)
        /\ main' = tmp /\ wal' = wal
    BY Zenon, <1>6 DEF RestoreBackup, At, ReplaceMain, Shape, Upgrading, PlainFiles
  <2>2. Usable(Overlay(tmp, wal))
    BY Zenon, <1>5, <2>1
  <2>3. Usable(main') /\ Usable(Content') /\ Usable(Replayed')
    BY Zenon, <2>1, <2>2 DEF Content, Replayed
  <2>. QED
    BY Zenon, <2>1, <2>3 DEF PlainFiles, PlainStep, Upgrading
<1>7. CASE Crash
  <2>1. pc' = "closed" /\ TornFile \in Files /\ Usable(TornFile)
    BY Zenon, <1>7 DEF Crash, TornFile, Files, SettingsPages, SchemaPages, Usable, IsTorn
  <2>2. pc # "resume"
    BY Zenon DEF PlainStep
  <2>3. Usable(main') /\ Usable(Content') /\ Usable(Replayed')
    BY Zenon, <1>5, <1>7, <2>1, <2>2, CrashFacts DEF PlainFiles
  <2>. QED
    BY Zenon, <2>1, <2>3 DEF PlainFiles, PlainStep, Upgrading
<1>. QED
  BY Zenon, <1>1, <1>2, <1>3, <1>6, <1>7

LEMMA PlainInvStep == VersionIInv /\ PlainInv /\ [Next]_vars => PlainInv'
<1>. SUFFICES ASSUME VersionIInv, PlainInv, [Next]_vars, Plain'
              PROVE  PlainFiles' /\ PlainStep'
  BY Zenon DEF PlainInv, PlainFiles
<1>1. UNCHANGED case
  BY Zenon DEF Next, vars
<1>2. Plain /\ PlainFiles /\ PlainStep /\ Shape /\ CrashSafe
  BY Zenon, <1>1 DEF PlainInv, PlainFiles, Plain, VersionIInv
<1>3. CASE UNCHANGED vars
  <2>1. Content' = Content /\ Replayed' = Replayed
    BY Zenon, <1>3, QuietFacts DEF vars, fileVars
  <2>. QED
    BY Zenon, <1>2, <1>3, <2>1 DEF vars, PlainFiles, PlainStep
<1>4. CASE Next
  BY Zenon, <1>2, <1>4, PlainCommit, PlainQuiet, PlainRest DEF Next, Step, CommitStep, QuietStep
<1>. QED
  BY Zenon, <1>3, <1>4

LEMMA PlainInvInit == Init => PlainInv
<1>. SUFFICES ASSUME Init, Plain PROVE PlainFiles /\ PlainStep
  BY Zenon DEF PlainInv, PlainFiles
<1>1. PICK v \in Versions : main = Upgraded(v)
  BY Zenon DEF Init, Plain
<1>2. main \in Files /\ wal \in Frames /\ wal.settings = Nothing /\ wal.schema = Nothing
  BY Zenon, ShapeInit DEF Shape, TypeOK, Frames, Init, NoFrames, Files
<1>3. Content = main /\ Replayed = main
  BY Zenon, <1>2, OverlayFields, FileExtensional DEF Init, Content, Replayed
<1>. QED
  BY Zenon, <1>1, <1>3, UpgradedFacts DEF Init, PlainFiles, PlainStep, Upgrading

\* For any number of versions, logins, failed upgrades and crashes, a session of a
\* plain account works on a DB that is completely upgraded to the version of the
\* running software.
THEOREM OpenUpgraded == Spec => []OpenIsUpgraded
<1>1. PlainInv => OpenIsUpgraded
  BY Zenon DEF PlainInv, PlainStep, OpenIsUpgraded
<1>. QED
  BY <1>1, VersionIInvInit, VersionIInvStep, PlainInvInit, PlainInvStep, PTL DEF Spec

\* Under the same conditions, the DB of a plain account that a login may find is
\* torn, carries the flag of _check_unfinished_upgrades or is whole.
THEOREM HalfUpgradedFlagged == Spec => []HalfUpgradedIsFlagged
<1>1. ASSUME NEW file, Usable(file)
      PROVE  IsTorn(file) \/ Sound(file)
  BY Zenon, <1>1 DEF Usable, Sound
<1>2. PlainInv => HalfUpgradedIsFlagged
  BY Zenon, <1>1 DEF PlainInv, HalfUpgradedIsFlagged
<1>. QED
  BY <1>2, VersionIInvInit, VersionIInvStep, PlainInvInit, PlainInvStep, PTL DEF Spec
=============================================================================
