------------------------------ MODULE WalFile -------------------------------
(***************************************************************************)
(* A database file in sqlite's WAL mode, as dbhandler.py and               *)
(* globaldb/handler.py use it: the file itself, the frames that commits    *)
(* appended to the "-wal" file next to it, and what each of open, commit,  *)
(* checkpoint, close, a crash and a plain copy of the file does to them.   *)
(* sqlite is not part of the repository: this module is the assumption the *)
(* upgrade modules rest on.                                                *)
(***************************************************************************)

CONSTANTS Nothing    \* a page the -wal file holds no frame of

VARIABLES
    main,            \* the database file: a function from pages to what they hold
    wal,             \* the latest frame of each page in the -wal file, or Nothing
    backfilled       \* all frames are already in the database file

fileVars == <<main, wal, backfilled>>

\* file with the given frames on top
Overlay(file, frames) ==
    [p \in DOMAIN file |-> IF frames[p] = Nothing THEN file[p] ELSE frames[p]]

NoFrames(file) == [p \in DOMAIN file |-> Nothing]

\* what a connection reads
Content == IF backfilled THEN main ELSE Overlay(main, wal)

\* A commit that changes the given pages. The first one after a complete
\* checkpoint starts the -wal file anew. Once the -wal file is long enough, the
\* commit also runs a checkpoint.
CommitPages(pages) ==
    /\ wal' = IF backfilled THEN pages ELSE Overlay(wal, pages)
    /\ \/ main' = main /\ backfilled' = FALSE
       \/ main' = Overlay(Content, pages) /\ backfilled' = TRUE

\* shutil.copyfile onto the database file leaves the -wal file as it is.
ReplaceMain(file) ==
    /\ main' = file
    /\ UNCHANGED <<wal, backfilled>>

\* Closing the last connection checkpoints and deletes the -wal file.
CloseFile ==
    /\ main' = Content
    /\ wal' = NoFrames(main)
    /\ backfilled' = TRUE

\* After a crash the next connection replays every frame of the -wal file,
\* whether or not it had reached the database file.
CrashFile ==
    /\ backfilled' = FALSE
    /\ UNCHANGED <<main, wal>>
=============================================================================
