------------------------------- MODULE Sqlite -------------------------------
(***************************************************************************)
(* The part of SQLite (and of Python's sqlite3 / pysqlcipher3 modules on   *)
(* top of it) that rotki's DB driver relies on: ONE connection opened with *)
(* isolation_level=None, its transaction, its savepoint stack and the      *)
(* durable contents.  The library is not part of the repository; it is     *)
(* modelled from how rotkehlchen/db/drivers/gevent.py uses it.             *)
(*                                                                         *)
(* The contents of the database are a set of rows.  Every greenlet shares  *)
(* the connection, so all of them see `data`, committed or not.            *)
(***************************************************************************)
EXTENDS Integers, Sequences

VARIABLES
    begun,   \* BEGIN TRANSACTION ran and neither COMMIT nor ROLLBACK followed
    marks,   \* stack of open savepoints: [name, saved], saved = data at SAVEPOINT
    data,    \* the rows a statement of this connection sees
    disk     \* the rows that are committed

sqlVars == <<begun, marks, data, disk>>

\* Connection.in_transaction
InTransaction == begun \/ marks # <<>>

SqlInit ==
    /\ begun = FALSE
    /\ marks = <<>>
    /\ data = {}
    /\ disk = {}

\* "BEGIN TRANSACTION"; an OperationalError when InTransaction
SqlBegin ==
    /\ ~InTransaction
    /\ begun' = TRUE
    /\ UNCHANGED <<marks, data, disk>>

\* Connection.commit(): does nothing outside of a transaction (data = disk then)
SqlCommit ==
    /\ begun' = FALSE
    /\ marks' = <<>>
    /\ disk' = data
    /\ UNCHANGED data

\* Connection.rollback(): does nothing outside of a transaction
SqlRollback ==
    /\ begun' = FALSE
    /\ marks' = <<>>
    /\ data' = disk
    /\ UNCHANGED disk

\* a data statement that adds a row; it commits at once outside of a transaction
SqlInsert(row) ==
    /\ data' = data \union {row}
    /\ disk' = IF InTransaction THEN disk ELSE disk \union {row}
    /\ UNCHANGED <<begun, marks>>

\* "SAVEPOINT name"
SqlSavepoint(name) ==
    /\ marks' = Append(marks, [name |-> name, saved |-> data])
    /\ UNCHANGED <<begun, data, disk>>

HasMark(name) == \E i \in 1..Len(marks) : marks[i].name = name

\* position i of the stack is the most recent savepoint of that name
IsLatest(name, i) ==
    /\ marks[i].name = name
    /\ \A j \in (i + 1)..Len(marks) : marks[j].name # name

(***************************************************************************)
(* "RELEASE SAVEPOINT" of the one at position i, and of those above it,    *)
(* when the contents at that moment are `now`.  Releasing the outermost    *)
(* savepoint of a transaction that no BEGIN opened is a COMMIT             *)
(* (https://www.sqlite.org/lang_savepoint.html).                           *)
(***************************************************************************)
SqlReleaseAt(i, now) ==
    /\ marks' = SubSeq(marks, 1, i - 1)
    /\ data' = now
    /\ disk' = IF i = 1 /\ ~begun THEN now ELSE disk
    /\ UNCHANGED begun

SqlRelease(name) ==
    \E i \in 1..Len(marks) : IsLatest(name, i) /\ SqlReleaseAt(i, data)

\* "ROLLBACK TO SAVEPOINT name" followed by "RELEASE SAVEPOINT name"
SqlRollbackAndRelease(name) ==
    \E i \in 1..Len(marks) : IsLatest(name, i) /\ SqlReleaseAt(i, marks[i].saved)
=============================================================================
