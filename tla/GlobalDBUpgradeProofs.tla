----------------------- MODULE GlobalDBUpgradeProofs ------------------------
(***************************************************************************)
(* Proofs of TypeOK, OpenIsUpgraded and FlaggedHasBackup of                *)
(* GlobalDBUpgrade for any range of versions.                              *)
(*                                                                         *)
(* The lemmas up to WritesSchema say what a commit leaves in the database  *)
(* file and its -wal file for the connection and for the next process.  On *)
(* them rest two inductive invariants: the types and which files a step    *)
(* has at hand (Shape), and, as long as no mishap came, what is read at    *)
(* each step and what it would be after a crash (Whole): a finished        *)
(* upgrade, a torn file, or a file flagged with a version whose backup is  *)
(* complete.  An upgrade that commits on its way may have pushed its flag  *)
(* out of the -wal file; Whole follows where the flag is.                  *)
(***************************************************************************)
EXTENDS GlobalDBUpgrade, TLAPS

\* what the next process reads after a crash
Replayed == Overlay(main, wal)

Frames == [settings : SettingsPages \cup {Nothing}, schema : SchemaPages \cup {Nothing}]

LEMMA OverlayFields ==
    ASSUME NEW file \in Files, NEW frames \in Frames
    PROVE  /\ Overlay(file, frames) \in Files
           /\ Overlay(file, frames).settings =
                 IF frames.settings = Nothing THEN file.settings ELSE frames.settings
           /\ Overlay(file, frames).schema =
                 IF frames.schema = Nothing THEN file.schema ELSE frames.schema
BY DEF Overlay, Files, Frames

Row(version, ongoing) == [version |-> version, ongoing |-> ongoing]

\* What is read has settings in every step that looks at them, an upgrade on its way
\* starts below the software's version and has its backup, and a resume has its file.
Upgrading == {"flag", "function", "second", "restore", "done"}
WithSettings == Upgrading \cup {"check", "upgrade", "round", "open"}

Shape ==
    /\ TypeOK
    /\ pc \in WithSettings => Content.settings \in Settings
    /\ pc \in Upgrading => round < software /\ backups[round] # NoFile
    /\ pc = "resume" => /\ backups[dbVersion] # NoFile
                        /\ backfilled /\ wal = NoFrames(main)

\* With these backups, a start can go on from the file, or refuses it.
Sound(file, copies) ==
    \/ IsTorn(file)
    \/ \E v \in Versions : file = Upgraded(v)
    \/ \E v \in Versions : file.settings = Row(v, v) /\ copies[v] = Upgraded(v)

\* What each step finds in the DB
WholeStep ==
    /\ pc = "check" => ~IsTorn(Content)
    /\ pc = "resume" => backups[dbVersion] = Upgraded(dbVersion)
    /\ pc = "upgrade" => \E v \in Versions : Content = Upgraded(v)
    /\ pc = "round" => Content = Upgraded(dbVersion) /\ dbVersion \in round .. software
    /\ pc \in Upgrading => backups[round] = Upgraded(round)
    /\ pc = "flag" => Content = Upgraded(round)
    /\ pc = "function" => /\ Content = DBFile(round, round, round)
                          /\ wal.settings = Row(round, round)
    /\ pc = "second" => Content = DBFile(round, round, Half) /\ wal.schema = Half
    /\ pc \in {"second", "restore"} => wal.settings = Row(round, round) \/ HalfWithoutFlag
    /\ pc = "done" => Content = DBFile(round, round, round + 1)
    /\ pc = "open" => Content = Upgraded(software)

\* Except after a restore, a crash does not change what is read.
WholeFiles ==
    /\ \A v \in Versions : backups[v] \in {NoFile, TornFile, Upgraded(v)}
    /\ Sound(Content, backups) /\ Sound(Replayed, backups)
    /\ pc # "exit" => Replayed = Content

Whole == mishaps = {} => WholeFiles /\ WholeStep
-----------------------------------------------------------------------------
(* What the operations of WalFile do to what is read.                       *)

FileTypes == main \in Files /\ wal \in Frames /\ backfilled \in BOOLEAN

LEMMA ReadTypes ==
    ASSUME FileTypes
    PROVE  Content \in Files /\ Replayed \in Files
BY OverlayFields DEF FileTypes, Content, Replayed

LEMMA FileExtensional ==
    ASSUME NEW f \in Files, NEW g \in Files, f.settings = g.settings, f.schema = g.schema
    PROVE  f = g
BY DEF Files

\* A commit is read at once and survives a crash, with or without a checkpoint.
LEMMA CommitFacts ==
    ASSUME FileTypes, NEW pages \in Frames, CommitPages(pages)
    PROVE  /\ FileTypes'
           /\ Content' = Overlay(Content, pages)
           /\ Replayed' = Content'
           /\ main' = main \/ main' = Content'
           /\ pages.settings # Nothing => wal'.settings = pages.settings
           /\ pages.settings = Nothing => wal'.settings \in {wal.settings, Nothing}
           /\ pages.schema # Nothing => wal'.schema = pages.schema
<1>. Content \in Files /\ Overlay(Content, pages) \in Files
  BY ReadTypes, OverlayFields
<1>1. wal' \in Frames /\ backfilled' \in BOOLEAN /\ main' \in Files
  BY Zenon, OverlayFields DEF FileTypes, CommitPages, Frames, Overlay
<1>2. CASE backfilled
  <2>1. wal' = pages /\ Content = main
    BY <1>2 DEF CommitPages, Content
  <2>. QED
    BY <1>1, <1>2, <2>1, OverlayFields, FileExtensional
       DEF FileTypes, CommitPages, Content, Replayed
<1>3. CASE ~backfilled
  <2>1. wal' = Overlay(wal, pages) /\ Content = Overlay(main, wal)
    BY <1>3 DEF CommitPages, Content
  <2>2. /\ wal'.settings = IF pages.settings = Nothing THEN wal.settings ELSE pages.settings
        /\ wal'.schema = IF pages.schema = Nothing THEN wal.schema ELSE pages.schema
    BY <2>1 DEF Overlay, Frames, FileTypes
  <2>3. Overlay(main, wal') = Overlay(Content, pages)
    <3>. DEFINE f == Overlay(main, wal')
                g == Overlay(Content, pages)
    <3>1. f \in Files /\ g \in Files
      BY <1>1, OverlayFields DEF FileTypes
    <3>2. /\ g.settings = IF pages.settings = Nothing THEN Content.settings ELSE pages.settings
          /\ g.schema = IF pages.schema = Nothing THEN Content.schema ELSE pages.schema
      BY OverlayFields
    <3>3. /\ Content.settings = IF wal.settings = Nothing THEN main.settings ELSE wal.settings
          /\ Content.schema = IF wal.schema = Nothing THEN main.schema ELSE wal.schema
      BY <2>1, OverlayFields DEF FileTypes
    <3>4. /\ f.settings = IF wal'.settings = Nothing THEN main.settings ELSE wal'.settings
          /\ f.schema = IF wal'.schema = Nothing THEN main.schema ELSE wal'.schema
      BY <1>1, OverlayFields DEF FileTypes
    <3>. HIDE DEF f, g
    <3>5. f.settings = g.settings
      BY <2>2, <3>2, <3>3, <3>4
    <3>6. f.schema = g.schema
      BY <2>2, <3>2, <3>3, <3>4
    <3>. QED
      BY <3>1, <3>5, <3>6, FileExtensional DEF f, g
  <2>4. CASE main' = main /\ backfilled' = FALSE
    BY <1>1, <2>2, <2>3, <2>4 DEF Content, Replayed, FileTypes
  <2>5. CASE main' = Overlay(Content, pages) /\ backfilled' = TRUE
    <3>. DEFINE f == Overlay(main', wal')
    <3>1. f = main'
      <4>1. f \in Files
        BY <1>1, OverlayFields
      <4>2. /\ f.settings = IF wal'.settings = Nothing THEN main'.settings ELSE wal'.settings
            /\ f.schema = IF wal'.schema = Nothing THEN main'.schema ELSE wal'.schema
        BY <1>1, OverlayFields
      <4>3. f = Overlay(main', wal') /\ Overlay(main, wal') = main'
        BY <2>3, <2>5
      <4>4. /\ main'.settings = IF wal'.settings = Nothing THEN main.settings ELSE wal'.settings
            /\ main'.schema = IF wal'.schema = Nothing THEN main.schema ELSE wal'.schema
        BY Zenon, <1>1, <4>3, OverlayFields DEF FileTypes
      <4>. HIDE DEF f
      <4>5. f.settings = main'.settings
        BY <4>2, <4>4
      <4>6. f.schema = main'.schema
        BY <4>2, <4>4
      <4>. QED
        BY <1>1, <4>1, <4>5, <4>6, FileExtensional
    <3>. QED
      BY <1>1, <2>2, <2>5, <3>1 DEF Content, Replayed, FileTypes
  <2>. QED
    BY Zenon, <2>4, <2>5 DEF CommitPages
<1>. QED
  BY <1>2, <1>3 DEF FileTypes

\* A commit to the settings,
LEMMA CommitSettingsFacts ==
    ASSUME FileTypes, NEW version \in Versions,
           NEW ongoing \in Versions \cup {None}, CommitSettings(version, ongoing)
    PROVE  /\ FileTypes' /\ Content' \in Files
           /\ Content'.settings = [version |-> version, ongoing |-> ongoing]
           /\ Content'.settings \in Settings
           /\ Content'.schema = Content.schema
           /\ Replayed' = Content'
           /\ main' = main \/ main' = Content'
           /\ wal'.settings = Content'.settings
<1>. DEFINE row == [version |-> version, ongoing |-> ongoing]
            pages == [settings |-> row, schema |-> Nothing]
<1>1. row \in Settings /\ row # Nothing /\ pages \in Frames
  BY DistinctAssumption DEF Settings, SettingsPages, Frames
<1>2. CommitPages(pages)
  BY DEF CommitSettings
<1>3. pages.settings = row /\ pages.schema = Nothing
  OBVIOUS
<1>. HIDE DEF pages
<1>4. Content \in Files
  BY ReadTypes
<1>. QED
  BY <1>1, <1>2, <1>3, <1>4, CommitFacts, OverlayFields

\* one to the other tables.
LEMMA CommitSchemaFacts ==
    ASSUME FileTypes, NEW schema \in SchemaPages, CommitSchema(schema)
    PROVE  /\ FileTypes' /\ Content' \in Files
           /\ Content'.settings = Content.settings
           /\ Content'.schema = schema
           /\ Replayed' = Content'
           /\ main' = main \/ main' = Content'
           /\ wal'.schema = schema /\ wal'.settings \in {wal.settings, Nothing}
<1>. DEFINE pages == [settings |-> Nothing, schema |-> schema]
<1>1. schema # Nothing /\ pages \in Frames
  BY DistinctAssumption DEF Frames
<1>2. CommitPages(pages)
  BY DEF CommitSchema
<1>3. pages.settings = Nothing /\ pages.schema = schema
  OBVIOUS
<1>. HIDE DEF pages
<1>4. Content \in Files
  BY ReadTypes
<1>. QED
  BY <1>1, <1>2, <1>3, <1>4, CommitFacts, OverlayFields

\* Closing the connection leaves one file that holds what was read.
LEMMA CloseFacts ==
    ASSUME FileTypes, CloseFile
    PROVE  /\ FileTypes' /\ backfilled' /\ wal' = NoFrames(main')
           /\ main' = Content /\ Content' = Content /\ Replayed' = Content
<1>1. Content \in Files
  BY ReadTypes
<1>2. wal' \in Frames /\ wal'.settings = Nothing /\ wal'.schema = Nothing
  BY DEF CloseFile, NoFrames, FileTypes, Files, Frames
<1>3. wal' = NoFrames(main')
  BY <1>1 DEF CloseFile, NoFrames, FileTypes, Files
<1>. QED
  BY <1>1, <1>2, <1>3, OverlayFields, FileExtensional
     DEF CloseFile, FileTypes, Content, Replayed

\* A commit leaves this file for every reader.
Writes(settings, schema) ==
    /\ FileTypes'
    /\ Content' = [settings |-> settings, schema |-> schema]
    /\ Replayed' = Content'
    /\ main' = main \/ main' = Content'

LEMMA WritesSettings ==
    ASSUME FileTypes, NEW version \in Versions,
           NEW ongoing \in Versions \cup {None}, CommitSettings(version, ongoing)
    PROVE  /\ Writes(Row(version, ongoing), Content.schema)
           /\ wal'.settings = Row(version, ongoing)
<1>1. Content' \in Files /\ [settings |-> Row(version, ongoing), schema |-> Content.schema] \in Files
  BY Zenon, ReadTypes, CommitSettingsFacts DEF Row, Files, SettingsPages, Settings
<1>. QED
  BY <1>1, CommitSettingsFacts, FileExtensional DEF Writes, Row

LEMMA WritesSchema ==
    ASSUME FileTypes, NEW schema \in SchemaPages, CommitSchema(schema)
    PROVE  /\ Writes(Content.settings, schema)
           /\ wal'.schema = schema /\ wal'.settings \in {wal.settings, Nothing}
<1>1. Content' \in Files /\ [settings |-> Content.settings, schema |-> schema] \in Files
  BY ReadTypes, CommitSchemaFacts DEF Files
<1>. QED
  BY <1>1, CommitSchemaFacts, FileExtensional DEF Writes

\* The files stay as they are.
LEMMA QuietFacts ==
    ASSUME UNCHANGED fileVars
    PROVE  Content' = Content /\ Replayed' = Replayed
BY DEF fileVars, Content, Replayed, Overlay

-----------------------------------------------------------------------------
(* Types, and what each step may rely on.                                   *)

LEMMA FileConstants ==
    ASSUME NEW v \in Versions
    PROVE  /\ TornFile \in Files /\ IsTorn(TornFile)
           /\ Upgraded(v) \in Files /\ ~IsTorn(Upgraded(v))
           /\ Upgraded(v).settings = Row(v, None) /\ Upgraded(v).schema = v
           /\ Upgraded(v).settings.version = v /\ Upgraded(v).settings.ongoing = None
           /\ Row(v, v) # Nothing /\ Row(v, v).ongoing = v
BY DistinctAssumption DEF Upgraded, DBFile, Row, Files, Settings, SettingsPages, SchemaPages,
   IsTorn, TornFile

LEMMA VersionFacts ==
    /\ MinSupported \in Versions /\ MinSupported \in Nat /\ Latest \in Nat
    /\ \A v \in Versions : v \in Int /\ v >= MinSupported /\ v <= Latest
    /\ \A v, w \in Versions : v < w => v + 1 \in Versions /\ v + 1 <= w
BY GlobalUpgradeAssumption DEF Versions

LEMMA InitFacts ==
    ASSUME Init
    PROVE  /\ \E v \in Versions : main = Upgraded(v)
           /\ FileTypes /\ Content = main /\ Replayed = main
<1>1. PICK v \in Versions : main = Upgraded(v)
  BY DEF Init
<1>2. main \in Files
  BY <1>1, FileConstants
<1>3. wal \in Frames /\ wal.settings = Nothing /\ wal.schema = Nothing
  BY <1>2 DEF Init, NoFrames, Files, Frames
<1>4. backfilled
  BY DEF Init
<1>5. Overlay(main, wal) = main
  BY <1>2, <1>3, OverlayFields, FileExtensional
<1>. QED
  BY <1>1, <1>2, <1>3, <1>4, <1>5 DEF FileTypes, Content, Replayed

LEMMA ShapeInit == Init => Shape
<1>. SUFFICES ASSUME Init PROVE Shape
  OBVIOUS
<1>1. backups \in [Versions -> Files \cup {NoFile}] /\ backfilled \in BOOLEAN /\ mishaps \subseteq Mishaps
  BY Zenon DEF Init
<1>2. {software, dbVersion, round} \subseteq Versions
  BY VersionFacts DEF Init
<1>. QED
  BY Zenon, <1>1, <1>2, InitFacts DEF Init, Shape, TypeOK, FileTypes, Frames, WithSettings,
     Upgrading

LEMMA ShapeTypes ==
    ASSUME Shape
    PROVE  /\ FileTypes /\ Content \in Files /\ Replayed \in Files
           /\ backups \in [Versions -> Files \cup {NoFile}] /\ mishaps \subseteq Mishaps
           /\ software \in Versions /\ dbVersion \in Versions /\ round \in Versions
BY ReadTypes DEF Shape, TypeOK, FileTypes, Frames

\* What the steps that commit write.
LEMMA CommitSteps ==
    ASSUME Shape
    PROVE  /\ SetFlag => /\ Writes(Row(Content.settings.version, round), Content.schema)
                         /\ wal'.settings = Row(Content.settings.version, round)
                         /\ Row(Content.settings.version, round) \in Settings
           /\ RunFunction => /\ Writes(Content.settings,
                                       IF Content.schema = round THEN round + 1 ELSE Mixed)
                             /\ Content.settings \in Settings
           /\ RunFirstHalf => /\ Writes(Content.settings,
                                        IF Content.schema = round THEN Half ELSE Mixed)
                              /\ Content.settings \in Settings
                              /\ wal'.settings \in {wal.settings, Nothing}
                              /\ wal'.schema = IF Content.schema = round THEN Half ELSE Mixed
           /\ RunNextPart => /\ Writes(Content.settings, Content.schema)
                             /\ Content.settings \in Settings
                             /\ wal'.settings \in {wal.settings, Nothing}
                             /\ wal'.schema = Content.schema
           /\ RunSecondHalf => /\ Writes(Content.settings,
                                         IF Content.schema = Half THEN round + 1 ELSE Mixed)
                               /\ Content.settings \in Settings
           /\ FinishUpgrade => /\ Writes(Row(round + 1, None), Content.schema)
                               /\ Row(round + 1, None) \in Settings
           /\ Work => /\ Writes(Content.settings, Content.schema)
                      /\ Content.settings \in Settings
<1>. USE ShapeTypes
<1>1. ASSUME SetFlag
      PROVE  /\ Writes(Row(Content.settings.version, round), Content.schema)
             /\ wal'.settings = Row(Content.settings.version, round)
             /\ Row(Content.settings.version, round) \in Settings
  <2>1. Content.settings \in Settings
    BY Zenon, <1>1 DEF Shape, SetFlag, At, WithSettings, Upgrading
  <2>2. Content.settings.version \in Versions /\ Row(Content.settings.version, round) \in Settings
    BY <2>1 DEF Settings, Row
  <2>. QED
    BY Zenon, <1>1, <2>2, WritesSettings DEF SetFlag
<1>2. ASSUME RunFunction
      PROVE  /\ Writes(Content.settings, IF Content.schema = round THEN round + 1 ELSE Mixed)
             /\ Content.settings \in Settings
  <2>1. Content.settings \in Settings /\ round < software
    BY Zenon, <1>2 DEF Shape, RunFunction, At, WithSettings, Upgrading
  <2>2. (IF Content.schema = round THEN round + 1 ELSE Mixed) \in SchemaPages
    BY <2>1, VersionFacts DEF SchemaPages
  <2>. QED
    BY Zenon, <1>2, <2>1, <2>2, WritesSchema DEF RunFunction
<1>5. ASSUME RunFirstHalf
      PROVE  /\ Writes(Content.settings, IF Content.schema = round THEN Half ELSE Mixed)
             /\ Content.settings \in Settings
             /\ wal'.settings \in {wal.settings, Nothing}
             /\ wal'.schema = IF Content.schema = round THEN Half ELSE Mixed
  <2>1. Content.settings \in Settings
    BY Zenon, <1>5 DEF Shape, RunFirstHalf, At, WithSettings, Upgrading
  <2>2. (IF Content.schema = round THEN Half ELSE Mixed) \in SchemaPages
    BY DEF SchemaPages
  <2>. QED
    BY Zenon, <1>5, <2>1, <2>2, WritesSchema DEF RunFirstHalf
<1>6. ASSUME RunNextPart
      PROVE  /\ Writes(Content.settings, Content.schema)
             /\ Content.settings \in Settings
             /\ wal'.settings \in {wal.settings, Nothing}
             /\ wal'.schema = Content.schema
  <2>1. Content.settings \in Settings
    BY Zenon, <1>6 DEF Shape, RunNextPart, At, WithSettings, Upgrading
  <2>2. Content.schema \in SchemaPages
    BY DEF Files
  <2>. QED
    BY Zenon, <1>6, <2>1, <2>2, WritesSchema DEF RunNextPart
<1>7. ASSUME RunSecondHalf
      PROVE  /\ Writes(Content.settings, IF Content.schema = Half THEN round + 1 ELSE Mixed)
             /\ Content.settings \in Settings
  <2>1. Content.settings \in Settings /\ round < software
    BY Zenon, <1>7 DEF Shape, RunSecondHalf, At, WithSettings, Upgrading
  <2>2. (IF Content.schema = Half THEN round + 1 ELSE Mixed) \in SchemaPages
    BY <2>1, VersionFacts DEF SchemaPages
  <2>. QED
    BY Zenon, <1>7, <2>1, <2>2, WritesSchema DEF RunSecondHalf
<1>3. ASSUME FinishUpgrade
      PROVE  /\ Writes(Row(round + 1, None), Content.schema)
             /\ Row(round + 1, None) \in Settings
  <2>1. round < software
    BY Zenon, <1>3 DEF Shape, FinishUpgrade, At, Upgrading
  <2>2. round + 1 \in Versions
    BY <2>1, VersionFacts
  <2>3. Row(round + 1, None) \in Settings
    BY <2>2 DEF Row, Settings
  <2>. QED
    BY Zenon, <1>3, <2>2, <2>3, WritesSettings DEF FinishUpgrade
<1>4. ASSUME Work
      PROVE  Writes(Content.settings, Content.schema) /\ Content.settings \in Settings
  <2>1. /\ NoFrames(main) \in Frames
        /\ NoFrames(main).settings = Nothing /\ NoFrames(main).schema = Nothing
    BY DEF FileTypes, Files, Frames, NoFrames
  <2>2. Overlay(Content, NoFrames(main)) = Content
    BY <2>1, OverlayFields, FileExtensional
  <2>3. Content = [settings |-> Content.settings, schema |-> Content.schema]
    BY DEF Files
  <2>4. Content.settings \in Settings
    BY Zenon, <1>4 DEF Shape, Work, At, WithSettings
  <2>. QED
    BY <1>4, <2>1, <2>2, <2>3, <2>4, CommitFacts DEF Work, Writes
<1>. QED
  BY Zenon, <1>1, <1>2, <1>3, <1>4, <1>5, <1>6, <1>7

CommitStep ==
    \/ SetFlag \/ RunFunction \/ RunFirstHalf \/ RunNextPart \/ RunSecondHalf
    \/ FinishUpgrade \/ Work
QuietStep ==
    \/ Connect \/ NoUnfinishedUpgrade \/ ReadVersion \/ SkipUpgrade \/ CreateBackup
    \/ FailFunction \/ SanityCheck

LEMMA QuietStepFacts ==
    ASSUME QuietStep
    PROVE  UNCHANGED <<main, wal, backfilled>> /\ Content' = Content /\ Replayed' = Replayed
BY Zenon, QuietFacts DEF QuietStep, fileVars, Connect, NoUnfinishedUpgrade, ReadVersion,
   SkipUpgrade,
   CreateBackup, FailFunction, SanityCheck

\* UseBackup finds the -wal file empty.
LEMMA UseBackupFacts ==
    ASSUME Shape, UseBackup
    PROVE  /\ backups[dbVersion] \in Files /\ main' = backups[dbVersion] /\ wal' = wal
           /\ backfilled' = backfilled
           /\ Content' = main' /\ Replayed' = main'
<1>1. /\ backups[dbVersion] \in Files /\ main' = backups[dbVersion] /\ wal' = wal /\ backfilled'
      /\ backfilled' = backfilled
  BY Zenon, ShapeTypes DEF Shape, UseBackup, ReplaceMain
<1>2. wal \in Frames /\ wal.settings = Nothing /\ wal.schema = Nothing
  BY Zenon, ShapeTypes DEF Shape, UseBackup, NoFrames, FileTypes, Files
<1>3. Overlay(main', wal') = main'
  BY <1>1, <1>2, OverlayFields, FileExtensional
<1>. QED
  BY <1>1, <1>3 DEF Content, Replayed

LEMMA CrashFacts ==
    ASSUME Shape, Crash
    PROVE  /\ Content' = Replayed' /\ wal' = wal /\ main' \in Files
           /\ \/ main' = main /\ Replayed' = Replayed
              \/ pc \in {"resume", "restore"} /\ Replayed' = Overlay(TornFile, wal)
<1>1. backfilled' = FALSE /\ wal' = wal
  BY DEF Crash
<1>2. main' = main \/ (pc \in {"resume", "restore"} /\ main' = TornFile)
  BY DEF Crash
<1>3. main' \in Files
  BY <1>2, ShapeTypes, FileConstants DEF FileTypes
<1>. QED
  BY <1>1, <1>2, <1>3 DEF Content, Replayed

\* Only these two change the backups.
LEMMA BackupFacts ==
    ASSUME Shape, [Next]_vars
    PROVE  /\ mishaps' = {} => mishaps = {}
           /\ \/ UNCHANGED backups
              \/ CreateBackup /\ backups' = [backups EXCEPT ![round] = main]
              \/ /\ Crash /\ pc = "round" /\ dbVersion = round
                 /\ backups' = [backups EXCEPT ![round] = TornFile]
           /\ backups' \in [Versions -> Files \cup {NoFile}]
<1>. USE ShapeTypes
<1>1. CASE CreateBackup
  <2>1. mishaps' = {} => mishaps = {}
    BY <1>1 DEF CreateBackup
  <2>. QED
    BY Zenon, <1>1, <2>1 DEF CreateBackup, FileTypes
<1>2. CASE Crash
  <2>1. TornFile \in Files
    BY FileConstants
  <2>2. /\ mishaps' = mishaps
        /\ \/ backups' = backups
           \/ /\ pc = "round" /\ dbVersion = round
              /\ backups' = [backups EXCEPT ![round] = TornFile]
    BY <1>2 DEF Crash
  <2>. QED
    BY Zenon, <1>2, <2>1, <2>2
<1>3. CASE ~CreateBackup /\ ~Crash /\ ~RestoreBackup
  <2>1. UNCHANGED <<backups, mishaps>>
    BY Zenon, <1>3 DEF Next, vars, Connect, NoUnfinishedUpgrade, FindBackup, UseBackup, ReadVersion,
       SkipUpgrade, SetFlag, RunFunction, RunFirstHalf, RunNextPart, RunSecondHalf, FailFunction,
       FinishUpgrade, SanityCheck, Work, Exit
  <2>. QED
    BY Zenon, <2>1
<1>4. CASE RestoreBackup
  <2>1. mishaps' = {} => mishaps = {}
    BY <1>4 DEF RestoreBackup
  <2>. QED
    BY Zenon, <1>4, <2>1 DEF RestoreBackup
<1>. QED
  BY Zenon, <1>1, <1>2, <1>3, <1>4

LEMMA ShapeQuiet ==
    ASSUME Shape, QuietStep, backups' \in [Versions -> Files \cup {NoFile}]
    PROVE  Shape'
<1>. USE ShapeTypes, QuietStepFacts
<1>t. ASSUME pc' \in {"closed", "exit", "check", "resume", "upgrade", "round", "flag",
                      "function", "second", "restore", "done", "open"},
             {software', dbVersion', round'} \subseteq Versions, mishaps' \subseteq Mishaps
      PROVE  TypeOK'
  BY Zenon, <1>t DEF TypeOK, FileTypes, Frames
<1>1. CASE Connect
  <2>1. pc' = "exit" \/ (pc' = "check" /\ Content.settings \in Settings)
    BY <1>1 DEF Connect, IsTorn, Files, SettingsPages
  <2>2. TypeOK'
    BY Zenon, <1>t, <1>1, <2>1 DEF Connect
  <2>. QED
    BY Zenon, <2>1, <2>2 DEF Shape, WithSettings, Upgrading
<1>2. CASE NoUnfinishedUpgrade \/ FailFunction
  <2>1. TypeOK'
    BY Zenon, <1>t, <1>2 DEF NoUnfinishedUpgrade, FailFunction, At
  <2>. QED
    BY Zenon, <1>2, <2>1 DEF NoUnfinishedUpgrade, FailFunction, At, Shape, WithSettings, Upgrading
<1>3. CASE ReadVersion
  <2>1. Content.settings \in Settings
    BY Zenon, <1>3 DEF ReadVersion, Shape, WithSettings
  <2>2. dbVersion' \in Versions /\ round' \in Versions
    BY <1>3, <2>1, VersionFacts DEF ReadVersion, Settings
  <2>3. TypeOK'
    BY Zenon, <1>t, <1>3, <2>2 DEF ReadVersion
  <2>. QED
    BY Zenon, <1>3, <2>1, <2>3 DEF ReadVersion, Shape, WithSettings, Upgrading
<1>4. CASE SkipUpgrade
  <2>1. round' \in Versions
    BY <1>4, VersionFacts DEF SkipUpgrade
  <2>2. TypeOK'
    BY Zenon, <1>t, <1>4, <2>1 DEF SkipUpgrade, At
  <2>. QED
    BY Zenon, <1>4, <2>2 DEF SkipUpgrade, At, Shape, WithSettings, Upgrading
<1>5. CASE CreateBackup
  <2>1. mishaps' \subseteq Mishaps
    BY <1>5 DEF CreateBackup, Mishaps
  <2>2. TypeOK'
    BY Zenon, <1>t, <1>5, <2>1 DEF CreateBackup, At
  <2>3. backups'[round'] = main /\ main # NoFile
    BY <1>5, DistinctAssumption DEF CreateBackup, FileTypes
  <2>. QED
    BY Zenon, <1>5, <2>2, <2>3 DEF CreateBackup, At, Shape, WithSettings, Upgrading
<1>6. CASE SanityCheck
  <2>1. TypeOK'
    BY Zenon, <1>t, <1>6 DEF SanityCheck
  <2>. QED
    BY Zenon, <1>6, <2>1 DEF SanityCheck, Shape, WithSettings, Upgrading
<1>. QED
  BY Zenon, <1>1, <1>2, <1>3, <1>4, <1>5, <1>6 DEF QuietStep

LEMMA ShapeCommit ==
    ASSUME Shape, CommitStep
    PROVE  Shape'
<1>. USE ShapeTypes
<1>1. FileTypes' /\ Content'.settings \in Settings
  BY CommitSteps DEF CommitStep, Writes
<1>2. /\ UNCHANGED <<software, backups, mishaps>>
      /\ \/ ~FinishUpgrade /\ UNCHANGED <<dbVersion, round>>
         \/ FinishUpgrade /\ dbVersion' = round + 1 /\ round' = round + 1
  BY Zenon DEF CommitStep, SetFlag, RunFunction, RunFirstHalf, RunNextPart, RunSecondHalf,
     FinishUpgrade, Work
<1>3. dbVersion' \in Versions /\ round' \in Versions
  BY <1>2, VersionFacts DEF Shape, FinishUpgrade, At, Upgrading
<1>4. TypeOK'
  BY Zenon, <1>1, <1>2, <1>3 DEF TypeOK, FileTypes, Frames, CommitStep, SetFlag, RunFunction,
     RunFirstHalf, RunNextPart, RunSecondHalf, FinishUpgrade, Work, At
<1>. QED
  BY Zenon, <1>1, <1>2, <1>4 DEF Shape, CommitStep, SetFlag, RunFunction, RunFirstHalf,
     RunNextPart, RunSecondHalf, FinishUpgrade, Work, At, Upgrading, WithSettings

LEMMA ShapeRest ==
    ASSUME Shape, FindBackup \/ UseBackup \/ RestoreBackup \/ Exit \/ Crash,
           backups' \in [Versions -> Files \cup {NoFile}]
    PROVE  Shape'
<1>. USE ShapeTypes
<1>1. CASE FindBackup
  <2>1. Content.settings \in Settings
    BY Zenon, <1>1 DEF FindBackup, Shape, WithSettings
  <2>2. Content.settings.ongoing \in Versions
    BY <1>1, <2>1 DEF FindBackup, Settings
  <2>3. FileTypes' /\ backfilled' /\ wal' = NoFrames(main')
    BY Zenon, <1>1, CloseFacts DEF FindBackup
  <2>4. TypeOK'
    BY Zenon, <1>1, <2>2, <2>3 DEF FindBackup, TypeOK, FileTypes, Frames
  <2>. QED
    BY Zenon, <1>1, <2>3, <2>4 DEF FindBackup, Shape, WithSettings, Upgrading
<1>2. CASE UseBackup
  <2>1. main' \in Files /\ wal' = wal /\ backfilled' = backfilled /\ Content' = main'
    BY Zenon, <1>2, UseBackupFacts
  <2>2. pc' = "exit" \/ (pc' = "upgrade" /\ Content'.settings \in Settings)
    <3>1. pc' = "exit" \/ (pc' = "upgrade" /\ ~IsTorn(main'))
      BY Zenon, <1>2, UseBackupFacts DEF UseBackup
    <3>. QED
      BY <2>1, <3>1 DEF IsTorn, Files, SettingsPages
  <2>3. TypeOK'
    BY Zenon, <1>2, <2>1, <2>2 DEF UseBackup, TypeOK, FileTypes, Frames
  <2>. QED
    BY Zenon, <2>2, <2>3 DEF Shape, WithSettings, Upgrading
<1>3. CASE RestoreBackup
  <2>1. backups[round] \in Files
    BY Zenon, <1>3 DEF RestoreBackup, At, Shape, Upgrading
  <2>2. mishaps' \subseteq Mishaps
    BY <1>3 DEF RestoreBackup, Mishaps
  <2>3. TypeOK'
    BY Zenon, <1>3, <2>1, <2>2 DEF RestoreBackup, At, ReplaceMain, TypeOK, FileTypes, Frames
  <2>. QED
    BY Zenon, <1>3, <2>3 DEF RestoreBackup, At, Shape, WithSettings, Upgrading
<1>4. CASE Exit
  <2>1. FileTypes'
    BY Zenon, <1>4, CloseFacts DEF Exit
  <2>2. TypeOK'
    BY Zenon, <1>4, <2>1 DEF Exit, TypeOK, FileTypes, Frames
  <2>. QED
    BY Zenon, <1>4, <2>2 DEF Exit, Shape, WithSettings, Upgrading
<1>5. CASE Crash
  <2>1. backfilled' \in BOOLEAN
    BY Zenon, <1>5 DEF Crash
  <2>2. TypeOK'
    BY Zenon, <1>5, <2>1, CrashFacts DEF Crash, TypeOK, FileTypes, Frames
  <2>. QED
    BY Zenon, <1>5, <2>2 DEF Crash, Shape, WithSettings, Upgrading
<1>. QED
  BY Zenon, <1>1, <1>2, <1>3, <1>4, <1>5

LEMMA ShapeStep == Shape /\ [Next]_vars => Shape'
<1>. SUFFICES ASSUME Shape, [Next]_vars PROVE Shape'
  OBVIOUS
<1>1. CASE UNCHANGED vars
  <2>1. Content' = Content
    BY <1>1, QuietFacts DEF vars, fileVars
  <2>. QED
    BY Zenon, <1>1, <2>1 DEF vars, Shape, TypeOK
<1>2. CASE Next
  BY Zenon, <1>2, BackupFacts, ShapeQuiet, ShapeCommit, ShapeRest DEF Next, QuietStep, CommitStep
<1>. QED
  BY Zenon, <1>1, <1>2

\* Every variable keeps its type, whatever fails or crashes, also once a backup
\* missed commits or was put back under half an upgrade.
THEOREM TypeCorrect == Spec => []TypeOK
<1>1. Shape => TypeOK
  BY DEF Shape
<1>. QED
  BY <1>1, ShapeInit, ShapeStep, PTL DEF Spec

-----------------------------------------------------------------------------
(* Backups without mishap.                                                   *)

WholeBackups == \A v \in Versions : backups[v] \in {NoFile, TornFile, Upgraded(v)}

\* The steps that neither commit nor copy the database file.
LEMMA WholeQuiet ==
    ASSUME Shape, WholeFiles, WholeStep, QuietStep, mishaps' = {}
    PROVE  WholeFiles' /\ WholeStep'
<1>. USE ShapeTypes, QuietStepFacts
<1>0. ASSUME UNCHANGED backups, pc # "exit"
      PROVE  WholeFiles'
  BY Zenon, <1>0 DEF WholeFiles
<1>1. CASE Connect
  <2>1. pc' = "exit" \/ (pc' = "check" /\ ~IsTorn(Content'))
    BY Zenon, <1>1 DEF Connect
  <2>. QED
    BY Zenon, <1>0, <1>1, <2>1 DEF Connect, WholeStep, Upgrading
<1>2. CASE NoUnfinishedUpgrade
  <2>1. /\ ~IsTorn(Content) /\ Sound(Content, backups) /\ Content.settings.ongoing = None
        /\ pc' = "upgrade"
    BY Zenon, <1>2 DEF NoUnfinishedUpgrade, At, WholeStep, WholeFiles
  <2>2. \A v \in Versions : Content.settings # Row(v, v)
    BY <2>1, DistinctAssumption DEF Row
  <2>3. \E v \in Versions : Content = Upgraded(v)
    BY Zenon, <2>1, <2>2 DEF Sound
  <2>. QED
    BY Zenon, <1>0, <1>2, <2>1, <2>3 DEF NoUnfinishedUpgrade, At, WholeStep, Upgrading
<1>3. CASE ReadVersion
  <2>1. PICK v \in Versions : Content = Upgraded(v)
    BY Zenon, <1>3 DEF ReadVersion, WholeStep
  <2>2. dbVersion' = v
    BY Zenon, <1>3, <2>1, FileConstants DEF ReadVersion
  <2>3. pc' = "exit" \/ (pc' = "round" /\ dbVersion' \in round' .. software')
    BY <1>3, <2>2, VersionFacts DEF ReadVersion
  <2>. QED
    BY Zenon, <1>0, <1>3, <2>1, <2>2, <2>3 DEF ReadVersion, WholeStep, Upgrading
<1>4. CASE SkipUpgrade
  <2>1. Content = Upgraded(dbVersion) /\ dbVersion \in round .. software /\ dbVersion # round
        /\ round' = round + 1 /\ pc' = "round"
        /\ UNCHANGED <<software, dbVersion, backups>>
    BY Zenon, <1>4 DEF SkipUpgrade, At, WholeStep
  <2>2. dbVersion' \in round' .. software'
    <3>1. round \in Int /\ software \in Int /\ dbVersion \in Int
      BY Zenon, VersionFacts
    <3>. QED
      BY <2>1, <3>1
  <2>. QED
    BY Zenon, <1>0, <1>4, <2>1, <2>2 DEF SkipUpgrade, At, WholeStep, Upgrading
<1>5. CASE CreateBackup
  <2>0. main = Content
    BY <1>5 DEF CreateBackup
  <2>1. /\ Content = Upgraded(round) /\ main = Content /\ pc' = "flag" /\ pc = "round"
        /\ backups' = [backups EXCEPT ![round] = main]
        /\ UNCHANGED <<software, dbVersion, round>>
    BY Zenon, <1>5, <2>0 DEF CreateBackup, At, WholeStep
  <2>2. backups'[round] = Upgraded(round)
    BY Zenon, <2>1
  <2>3. WholeBackups'
    BY Zenon, <2>1 DEF WholeBackups, WholeFiles
  <2>4. Sound(Content', backups') /\ Replayed' = Content'
    BY Zenon, <2>1 DEF Sound, WholeFiles
  <2>. QED
    BY Zenon, <2>1, <2>2, <2>3, <2>4 DEF WholeFiles, WholeBackups, WholeStep, Upgrading
<1>6. CASE FailFunction
  BY Zenon, <1>0, <1>6 DEF FailFunction, WholeStep, Upgrading, HalfWithoutFlag
<1>7. CASE SanityCheck
  <2>1. /\ Content = Upgraded(dbVersion) /\ dbVersion \in round .. software /\ round = software
        /\ pc' \in {"open", "exit"} /\ software' = software
    BY Zenon, <1>7 DEF SanityCheck, WholeStep
  <2>2. Content' = Upgraded(software')
    BY <2>1, VersionFacts
  <2>. QED
    BY Zenon, <1>0, <1>7, <2>1, <2>2 DEF SanityCheck, WholeStep, Upgrading
<1>. QED
  BY Zenon, <1>1, <1>2, <1>3, <1>4, <1>5, <1>6, <1>7 DEF QuietStep

LEMMA WholeCommit ==
    ASSUME Shape, WholeFiles, WholeStep, CommitStep
    PROVE  WholeFiles' /\ WholeStep'
<1>. USE ShapeTypes
<1>a. UNCHANGED <<backups, software>>
  BY Zenon DEF CommitStep, SetFlag, RunFunction, RunFirstHalf, RunNextPart, RunSecondHalf,
     FinishUpgrade, Work
<1>b. Replayed' = Content'
  BY Zenon, CommitSteps DEF CommitStep, Writes
<1>0. ASSUME Sound(Content', backups)
      PROVE  WholeFiles'
  BY Zenon, <1>0, <1>a, <1>b DEF WholeFiles
<1>h. ASSUME wal'.schema = Half, wal'.settings \in {Row(round, round), Nothing},
             round' = round
      PROVE  (wal.settings = Row(round, round) \/ HalfWithoutFlag)'
  BY <1>h, DistinctAssumption DEF HalfWithoutFlag, SchemaPages, Row
<1>1. CASE SetFlag
  <2>1. /\ Content = Upgraded(round) /\ backups[round] = Upgraded(round)
        /\ pc' = "function" /\ round' = round
    BY Zenon, <1>1 DEF SetFlag, At, WholeStep, Upgrading
  <2>2. Content.settings.version = round /\ Content.schema = round
    BY Zenon, <2>1, FileConstants
  <2>3. Writes(Row(round, round), round) /\ wal'.settings = Row(round, round)
    BY Zenon, <1>1, <2>2, CommitSteps
  <2>4. /\ Content' = DBFile(round, round, round) /\ Content'.settings = Row(round, round)
    BY Zenon, <2>3 DEF Writes, DBFile, Row
  <2>5. Sound(Content', backups)
    BY Zenon, <2>1, <2>4 DEF Sound
  <2>. QED
    BY Zenon, <1>0, <1>a, <2>1, <2>3, <2>4, <2>5 DEF WholeStep, Upgrading
<1>2. CASE RunFunction
  <2>1. /\ Content = DBFile(round, round, round) /\ backups[round] = Upgraded(round)
        /\ pc' = "done" /\ round' = round
    BY Zenon, <1>2 DEF RunFunction, At, WholeStep, Upgrading
  <2>2. Content.settings = Row(round, round) /\ Content.schema = round
    BY Zenon, <2>1 DEF DBFile, Row
  <2>3. Writes(Row(round, round), round + 1)
    BY Zenon, <1>2, <2>2, CommitSteps
  <2>4. /\ Content' = DBFile(round, round, round + 1) /\ Content'.settings = Row(round, round)
    BY Zenon, <2>3 DEF Writes, DBFile, Row
  <2>5. Sound(Content', backups)
    BY Zenon, <2>1, <2>4 DEF Sound
  <2>. QED
    BY Zenon, <1>0, <1>a, <2>1, <2>4, <2>5 DEF WholeStep, Upgrading
<1>5. CASE RunFirstHalf
  <2>1. /\ Content = DBFile(round, round, round) /\ backups[round] = Upgraded(round)
        /\ wal.settings = Row(round, round) /\ pc' = "second" /\ round' = round
    BY Zenon, <1>5 DEF RunFirstHalf, At, WholeStep, Upgrading
  <2>2. Content.settings = Row(round, round) /\ Content.schema = round
    BY Zenon, <2>1 DEF DBFile, Row
  <2>3. /\ Writes(Row(round, round), Half)
        /\ wal'.schema = Half /\ wal'.settings \in {Row(round, round), Nothing}
    BY Zenon, <1>5, <2>1, <2>2, CommitSteps
  <2>4. /\ Content' = DBFile(round, round, Half) /\ Content'.settings = Row(round, round)
    BY Zenon, <2>3 DEF Writes, DBFile, Row
  <2>. QED
    BY Zenon, <1>0, <1>a, <1>h, <2>1, <2>3, <2>4 DEF WholeStep, Upgrading, Sound
<1>6. CASE RunNextPart
  <2>1. /\ Content = DBFile(round, round, Half) /\ backups[round] = Upgraded(round)
        /\ wal.settings \in {Row(round, round), Nothing}
        /\ pc' = "second" /\ round' = round
    BY Zenon, <1>6 DEF RunNextPart, At, WholeStep, Upgrading, HalfWithoutFlag
  <2>2. Content.settings = Row(round, round) /\ Content.schema = Half
    BY Zenon, <2>1 DEF DBFile, Row
  <2>3. /\ Writes(Row(round, round), Half)
        /\ wal'.schema = Half /\ wal'.settings \in {Row(round, round), Nothing}
    BY Zenon, <1>6, <2>1, <2>2, CommitSteps
  <2>4. /\ Content' = DBFile(round, round, Half) /\ Content'.settings = Row(round, round)
    BY Zenon, <2>3 DEF Writes, DBFile, Row
  <2>. QED
    BY Zenon, <1>0, <1>a, <1>h, <2>1, <2>3, <2>4 DEF WholeStep, Upgrading, Sound
<1>7. CASE RunSecondHalf
  <2>1. /\ Content = DBFile(round, round, Half) /\ backups[round] = Upgraded(round)
        /\ pc' = "done" /\ round' = round
    BY Zenon, <1>7 DEF RunSecondHalf, At, WholeStep, Upgrading
  <2>2. Content.settings = Row(round, round) /\ Content.schema = Half
    BY Zenon, <2>1 DEF DBFile, Row
  <2>3. Writes(Row(round, round), round + 1)
    BY Zenon, <1>7, <2>2, CommitSteps
  <2>4. /\ Content' = DBFile(round, round, round + 1) /\ Content'.settings = Row(round, round)
    BY Zenon, <2>3 DEF Writes, DBFile, Row
  <2>. QED
    BY Zenon, <1>0, <1>a, <2>1, <2>4 DEF WholeStep, Upgrading, Sound
<1>3. CASE FinishUpgrade
  <2>1. /\ Content = DBFile(round, round, round + 1) /\ pc' = "round" /\ round < software
        /\ round' = round + 1 /\ dbVersion' = round + 1
    BY Zenon, <1>3 DEF FinishUpgrade, At, WholeStep, Shape, Upgrading
  <2>2. Writes(Row(round + 1, None), round + 1)
    <3>1. Content.schema = round + 1
      BY Zenon, <2>1 DEF DBFile
    <3>. QED
      BY Zenon, <1>3, <3>1, CommitSteps
  <2>3. Content' = Upgraded(round + 1)
    BY Zenon, <2>2 DEF Writes, DBFile, Row, Upgraded
  <2>4. round + 1 \in Versions /\ dbVersion' \in round' .. software
    <3>1. round \in Int /\ software \in Int
      BY Zenon, VersionFacts
    <3>2. round + 1 \in Versions /\ round + 1 <= software
      BY Zenon, <2>1, VersionFacts
    <3>. QED
      BY <2>1, <3>1, <3>2
  <2>5. Sound(Content', backups)
    BY Zenon, <2>3, <2>4 DEF Sound
  <2>. QED
    BY Zenon, <1>0, <1>a, <2>1, <2>3, <2>4, <2>5 DEF WholeStep, Upgrading
<1>4. CASE Work
  <2>1. Content = Upgraded(software) /\ pc' = "open"
    BY Zenon, <1>4 DEF Work, At, WholeStep
  <2>2. Content' = Content
    <3>1. Content = [settings |-> Content.settings, schema |-> Content.schema]
      BY DEF Files
    <3>. QED
      BY Zenon, <1>4, <3>1, CommitSteps DEF Writes
  <2>3. Sound(Content', backups)
    BY Zenon, <2>1, <2>2 DEF Sound
  <2>. QED
    BY Zenon, <1>0, <1>a, <2>1, <2>2, <2>3 DEF WholeStep, Upgrading
<1>. QED
  BY Zenon, <1>1, <1>2, <1>3, <1>4, <1>5, <1>6, <1>7 DEF CommitStep

LEMMA WholeRest ==
    ASSUME Shape, WholeFiles, WholeStep, [Next]_vars, mishaps' = {},
           FindBackup \/ UseBackup \/ RestoreBackup \/ Exit \/ Crash
    PROVE  WholeFiles' /\ WholeStep'
<1>. USE ShapeTypes
<1>1. CASE FindBackup
  <2>1. /\ ~IsTorn(Content) /\ Sound(Content, backups) /\ Content.settings.ongoing # None
        /\ dbVersion' = Content.settings.ongoing /\ UNCHANGED backups
        /\ pc' \in {"exit", "resume"}
    BY Zenon, <1>1 DEF FindBackup, WholeStep, WholeFiles
  <2>2. PICK v \in Versions : Content.settings = Row(v, v) /\ backups[v] = Upgraded(v)
    BY Zenon, <2>1, FileConstants DEF Sound
  <2>3. dbVersion' = v
    BY Zenon, <2>1, <2>2, FileConstants
  <2>4. Content' = Content /\ Replayed' = Content
    BY Zenon, <1>1, CloseFacts DEF FindBackup
  <2>. QED
    BY Zenon, <2>1, <2>2, <2>3, <2>4 DEF WholeFiles, WholeStep, Upgrading
<1>2. CASE UseBackup
  <2>1. backups[dbVersion] = Upgraded(dbVersion) /\ UNCHANGED backups
    BY Zenon, <1>2 DEF UseBackup, WholeStep
  <2>2. Content' = Upgraded(dbVersion) /\ Replayed' = Upgraded(dbVersion)
    BY Zenon, <1>2, <2>1, UseBackupFacts
  <2>3. Sound(Content', backups')
    BY Zenon, <2>2 DEF Sound
  <2>4. pc' \in {"exit", "upgrade"}
    BY Zenon, <1>2 DEF UseBackup
  <2>. QED
    BY Zenon, <2>1, <2>2, <2>3, <2>4 DEF WholeFiles, WholeStep, Upgrading
<1>3. ASSUME pc = "restore", wal.settings = Row(round, round), NEW file \in Files
      PROVE  Sound(Overlay(file, wal), backups)
  <2>1. backups[round] = Upgraded(round)
    BY Zenon, <1>3 DEF WholeStep, Upgrading
  <2>2. Overlay(file, wal).settings = Row(round, round)
    BY <1>3, FileConstants, OverlayFields DEF FileTypes
  <2>. QED
    BY Zenon, <2>1, <2>2 DEF Sound
<1>t. ASSUME wal.settings = Nothing
      PROVE  Sound(Overlay(TornFile, wal), backups)
  <2>1. TornFile \in Files
    BY FileConstants
  <2>2. Overlay(TornFile, wal).settings = Torn
    BY <1>t, <2>1, OverlayFields DEF TornFile, FileTypes
  <2>. QED
    BY Zenon, <2>2 DEF Sound, IsTorn
<1>4. CASE RestoreBackup
  <2>1. /\ pc = "restore" /\ pc' = "exit" /\ UNCHANGED <<backups, wal>>
        /\ backups[round] = Upgraded(round) /\ main' = Upgraded(round)
    BY Zenon, <1>4 DEF RestoreBackup, At, ReplaceMain, WholeStep, Upgrading
  <2>0. wal.settings = Row(round, round)
    <3>1. ~HalfWithoutFlag
      BY <1>4 DEF RestoreBackup
    <3>. QED
      BY Zenon, <2>1, <3>1 DEF WholeStep
  <2>2. Sound(main', backups)
    BY Zenon, <2>1 DEF Sound
  <2>3. Sound(Overlay(main', wal'), backups)
    BY Zenon, <1>3, <2>0, <2>1, FileConstants
  <2>4. Sound(Content', backups') /\ Sound(Replayed', backups')
    BY Zenon, <2>1, <2>2, <2>3 DEF Content, Replayed
  <2>. QED
    BY Zenon, <2>1, <2>4 DEF WholeFiles, WholeStep, Upgrading
<1>5. CASE Exit
  <2>1. Content' = Content /\ Replayed' = Content /\ pc' = "closed" /\ UNCHANGED backups
    BY Zenon, <1>5, CloseFacts DEF Exit
  <2>. QED
    BY Zenon, <2>1 DEF WholeFiles, WholeStep, Upgrading
<1>6. CASE Crash
  <2>1. pc' = "closed"
    BY Zenon, <1>6 DEF Crash
  <2>2. WholeBackups'
    <3>1. UNCHANGED backups \/ backups' = [backups EXCEPT ![round] = TornFile]
      BY Zenon, <1>6 DEF Crash
    <3>. QED
      BY Zenon, <3>1 DEF WholeBackups, WholeFiles
  <2>3. Sound(Content', backups')
    <3>1. CASE UNCHANGED backups
      <4>1. CASE Replayed' = Replayed
        BY Zenon, <1>6, <3>1, <4>1, CrashFacts DEF WholeFiles
      <4>2. CASE pc = "restore" /\ Replayed' = Overlay(TornFile, wal)
        <5>1. wal.settings = Row(round, round) \/ wal.settings = Nothing
          BY Zenon, <4>2 DEF WholeStep, HalfWithoutFlag
        <5>2. Sound(Overlay(TornFile, wal), backups)
          BY Zenon, <1>3, <1>t, <4>2, <5>1, FileConstants
        <5>. QED
          BY Zenon, <1>6, <3>1, <4>2, <5>2, CrashFacts
      <4>3. CASE pc = "resume" /\ Replayed' = Overlay(TornFile, wal)
        <5>1. wal.settings = Nothing
          BY Zenon, <4>3 DEF Shape, NoFrames, FileTypes, Files
        <5>. QED
          BY Zenon, <1>t, <1>6, <3>1, <4>3, <5>1, CrashFacts
      <4>. QED
        BY Zenon, <1>6, <4>1, <4>2, <4>3, CrashFacts
    <3>2. CASE pc = "round" /\ dbVersion = round
      <4>1. Content = Upgraded(dbVersion) /\ Replayed = Content /\ Content' = Replayed
        BY Zenon, <1>6, <3>2, CrashFacts DEF WholeStep, WholeFiles
      <4>. QED
        BY Zenon, <4>1 DEF Sound
    <3>. QED
      BY Zenon, <1>6, <3>1, <3>2, BackupFacts DEF CreateBackup, Crash, At
  <2>. QED
    BY Zenon, <1>6, <2>1, <2>2, <2>3, CrashFacts DEF WholeFiles, WholeBackups, WholeStep, Upgrading
<1>. QED
  BY Zenon, <1>1, <1>2, <1>4, <1>5, <1>6

IInv == Shape /\ Whole

LEMMA WholeInit == Init => IInv
<1>. SUFFICES ASSUME Init PROVE IInv
  OBVIOUS
<1>1. Sound(Content, backups) /\ Replayed = Content
  BY Zenon, InitFacts DEF Sound
<1>. QED
  BY Zenon, <1>1, ShapeInit DEF Init, IInv, Whole, WholeFiles, WholeStep, Upgrading

LEMMA WholeNext == IInv /\ [Next]_vars => IInv'
<1>. SUFFICES ASSUME Shape, Whole, [Next]_vars, mishaps' = {} PROVE WholeFiles' /\ WholeStep'
  BY ShapeStep DEF IInv, Whole
<1>1. WholeFiles /\ WholeStep
  BY Zenon, BackupFacts DEF Whole
<1>2. CASE UNCHANGED vars
  <2>1. Content' = Content /\ Replayed' = Replayed
    BY <1>2, QuietFacts DEF vars, fileVars
  <2>2. /\ UNCHANGED <<backups, pc, round, dbVersion, software>>
        /\ UNCHANGED <<wal.settings, wal.schema>>
    BY <1>2 DEF vars
  <2>3. WholeFiles'
    BY Zenon, <1>1, <2>1, <2>2 DEF WholeFiles
  <2>4. WholeStep'
    BY <1>1, <2>1, <2>2 DEF WholeStep, HalfWithoutFlag
  <2>. QED
    BY <2>3, <2>4
<1>3. CASE Next
  BY Zenon, <1>1, <1>3, WholeQuiet, WholeCommit, WholeRest DEF Next, QuietStep, CommitStep
<1>. QED
  BY Zenon, <1>2, <1>3

\* For any number of versions, starts, failed upgrades and crashes: as long as
\* no backup missed commits in the -wal file or was put back under half an upgrade
\* without its flag, initialize_globaldb only returns with a DB that is completely
\* upgraded to the version of the running software.
THEOREM OpenUpgraded == Spec => []OpenIsUpgraded
<1>1. IInv => OpenIsUpgraded
  BY Zenon DEF IInv, Whole, WholeStep, OpenIsUpgraded
<1>. QED
  BY <1>1, WholeInit, WholeNext, PTL DEF Spec

\* Under the same conditions, a start that finds the flag of an unfinished upgrade
\* finds a complete backup of the flagged version to resume from.
THEOREM FlaggedBackedUp == Spec => []FlaggedHasBackup
<1>1. ASSUME IInv, pc = "check", Content.settings.ongoing # None, mishaps = {}
      PROVE  backups[Content.settings.ongoing] = Upgraded(Content.settings.ongoing)
  <2>1. ~IsTorn(Content) /\ Sound(Content, backups)
    BY Zenon, <1>1 DEF IInv, Whole, WholeStep, WholeFiles
  <2>2. PICK v \in Versions : Content.settings = Row(v, v) /\ backups[v] = Upgraded(v)
    BY Zenon, <1>1, <2>1, FileConstants DEF Sound
  <2>. QED
    BY Zenon, <2>2, FileConstants
<1>2. IInv => FlaggedHasBackup
  BY Zenon, <1>1 DEF FlaggedHasBackup
<1>. QED
  BY <1>2, WholeInit, WholeNext, PTL DEF Spec
=============================================================================
