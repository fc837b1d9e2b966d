---------------------------- MODULE DBConnection ----------------------------
(***************************************************************************)
(* rotki's DB driver: class DBConnection of                                *)
(* rotkehlchen/db/drivers/gevent.py.                                       *)
(*                                                                         *)
(* Every greenlet of the process shares one sqlite connection.  Greenlets  *)
(* are cooperative: `running` is the one that executes, and the others get *)
(* a turn only when it yields to the hub: on a semaphore that is taken, in *)
(* the polling loops of write_ctx and _enter_savepoint, in the sleep(0) of *)
(* sqlite's progress callback, and wherever the body of a context calls    *)
(* something that blocks (the greenlets in Yielders).                      *)
(*                                                                         *)
(* A greenlet opens contexts (`with conn.write_ctx()` ...), adds rows in   *)
(* them and leaves them normally or by an exception.  One row stands for   *)
(* all the statements of one context.                                      *)
(***************************************************************************)
EXTENDS Sqlite, FiniteSets

CONSTANTS
    Greenlets,
    Writers,        \* greenlets that use write_ctx
    Savepointers,   \* greenlets that use savepoint_ctx, then commit() or rollback()
    Exporters,      \* greenlets that use critical_section around executescript
    Updaters,       \* greenlets that use critical_section around a write_ctx
    Detachers,      \* greenlets that use critical_section_and_transaction_lock
    Committers,     \* greenlets that execute without a context, then commit()
    Yielders,       \* greenlets that may yield in the body of a context
    KillErrors,     \* what Greenlet.kill throws: "Exception", "GreenletExit"
    Names,          \* savepoint names
    NoOne,          \* a free semaphore; None; as `running`: gevent's hub
    MaxOpened,      \* bound: contexts a greenlet opens
    MaxKills        \* bound: number of kills

ASSUME RolesAssumption ==
    /\ UNION {Writers, Savepointers, Exporters, Updaters, Detachers,
              Committers, Yielders} \subseteq Greenlets
    /\ KillErrors \subseteq {"Exception", "GreenletExit"}
    /\ NoOne \notin Greenlets
    /\ MaxOpened \in Nat
    /\ MaxKills \in Nat

VARIABLES
    in_callback,            \* holder of the semaphore, or NoOne
    transaction_lock,       \* holder of the semaphore, or NoOne
    handler,                \* is the progress handler installed in sqlite?
    savepoints,             \* the ordered set of open savepoint names
    savepoint_greenlet_id,
    write_greenlet_id,
    running,                \* the greenlet that executes, NoOne for the hub
    pc,                     \* where each greenlet is
    want,                   \* the kind of context a greenlet is entering
    raised,                 \* the exception a greenlet is unwinding with
    frames,                 \* the open contexts of each greenlet, innermost last
    opened,                 \* contexts opened so far, numbers the rows
    kills,                  \* kills so far
    acked                   \* rows of outermost contexts that were left normally

lockVars == <<in_callback, transaction_lock, handler>>
idVars   == <<savepoints, savepoint_greenlet_id, write_greenlet_id>>
ctxVars  == <<want, raised, frames, opened, kills, acked>>
vars     == <<sqlVars, lockVars, idVars, ctxVars, running, pc>>

Rows == Greenlets \X (0..MaxOpened)
Kinds == {"write", "savepoint", "critical", "critical_lock"}
Frame == [kind : Kinds, name : Names \union {"none"}, rows : SUBSET Rows]
Labels == {"run", "callback", "wait_savepoints", "cs_enter", "lock", "begin",
           "sp_enter", "sp_wait_tx", "sp_create", "cs_exit", "commit",
           "rollback", "raise", "done"}

Errors == {"Exception", "GreenletExit"}

Init ==
    /\ SqlInit
    /\ in_callback = NoOne
    /\ transaction_lock = NoOne
    /\ handler = TRUE
    /\ savepoints = <<>>
    /\ savepoint_greenlet_id = NoOne
    /\ write_greenlet_id = NoOne
    /\ running = NoOne
    /\ pc = [g \in Greenlets |-> "run"]
    /\ want = [g \in Greenlets |-> "write"]
    /\ raised = [g \in Greenlets |-> "Exception"]
    /\ frames = [g \in Greenlets |-> <<>>]
    /\ opened = [g \in Greenlets |-> 0]
    /\ kills = 0
    /\ acked = {}
-----------------------------------------------------------------------------
(* Helpers *)

Top(g) == frames[g][Len(frames[g])]
TopIs(g, kind) == frames[g] # <<>> /\ Top(g).kind = kind
InBody(g) == frames[g] # <<>>
InTx(g) == TopIs(g, "write") \/ TopIs(g, "savepoint")
HasKind(g, kind) == \E i \in 1..Len(frames[g]) : frames[g][i].kind = kind
OpenRows(g) == UNION {frames[g][i].rows : i \in 1..Len(frames[g])}

At(g, label) == running = g /\ pc[g] = label
Goto(g, label) == pc' = [pc EXCEPT ![g] = label]

Push(g, kind, name) ==
    frames' = [frames EXCEPT ![g] =
                 Append(@, [kind |-> kind, name |-> name, rows |-> {}])]

\* leave the innermost context and forget its rows
Pop(g) == frames' = [frames EXCEPT ![g] = SubSeq(@, 1, Len(@) - 1)]

\* leave the innermost context; its rows become part of the enclosing one
PopInto(g) ==
    LET n == Len(frames[g])
        outer == SubSeq(frames[g], 1, n - 1)
    IN  frames' = [frames EXCEPT ![g] =
                     [outer EXCEPT ![n - 1].rows = @ \union Top(g).rows]]

\* the innermost context is the outermost one that holds rows
Outermost(g) ==
    LET n == Len(frames[g])
    IN  n = 1 \/ frames[g][n - 1].kind \in {"critical", "critical_lock"}

IsSavepoint(name) == \E i \in 1..Len(savepoints) : savepoints[i] = name

\* savepoints up to, not including, `name`
SavepointsBelow(name) ==
    SubSeq(savepoints, 1,
           (CHOOSE i \in 1..Len(savepoints) : savepoints[i] = name) - 1)
-----------------------------------------------------------------------------
(* Scheduling by gevent's hub, and sqlite's progress callback *)

\* what g waits for has not happened: the semaphore is taken, or the polling
\* loop it is in would only sleep again
Blocked(g) ==
    \/ pc[g] \in {"cs_enter", "cs_exit", "commit", "rollback"} /\ in_callback # NoOne
    \/ pc[g] = "lock" /\ transaction_lock # NoOne
    \/ pc[g] = "wait_savepoints" /\ savepoint_greenlet_id # NoOne
    \/ pc[g] = "sp_wait_tx" /\ write_greenlet_id # NoOne
    \/ pc[g] = "sp_create" /\ savepoint_greenlet_id \notin {NoOne, g}

\* the hub switches to a greenlet that can go on
Switch(g) ==
    /\ running = NoOne
    /\ pc[g] # "done"
    /\ ~Blocked(g)
    /\ running' = g
    /\ UNCHANGED <<sqlVars, lockVars, idVars, ctxVars, pc>>

\* a semaphore acquire that has to wait, or gevent.sleep(CONTEXT_SWITCH_WAIT)
Block(g) ==
    /\ running = g
    /\ Blocked(g)
    /\ running' = NoOne
    /\ UNCHANGED <<sqlVars, lockVars, idVars, ctxVars, pc>>

\* the code outside of the contexts, or the body of a context, blocks on
\* something else: the network, a sleep, another connection
Yield(g) ==
    /\ At(g, "run")
    /\ InBody(g) => g \in Yielders
    /\ running' = NoOne
    /\ UNCHANGED <<sqlVars, lockVars, idVars, ctxVars, pc>>

\* _progress_callback: a long statement (a query included) of g enters it.
\* When in_callback is taken the callback returns at once, which changes nothing.
Callback(g) ==
    /\ At(g, "run")
    /\ handler
    /\ in_callback = NoOne
    /\ in_callback' = g
    /\ running' = NoOne
    /\ Goto(g, "callback")
    /\ UNCHANGED <<sqlVars, idVars, ctxVars, transaction_lock, handler>>

\* mutant: the `with conn.in_callback` is left without its release
CallbackReturnKeepsSemaphore(g) ==
    /\ At(g, "callback")
    /\ Goto(g, "run")
    /\ UNCHANGED <<sqlVars, idVars, ctxVars, lockVars, running>>

\* sleep(0) is over; the callback returns and the statement goes on
CallbackReturn(g) ==
    /\ At(g, "callback")
    /\ in_callback' = NoOne
    /\ Goto(g, "run")
    /\ UNCHANGED <<sqlVars, idVars, ctxVars, transaction_lock, handler, running>>

\* Greenlet.kill throws the exception where g waits.  One that is thrown inside
\* the callback reaches the statement as sqlite's OperationalError "interrupted".
Kill(g, error) ==
    /\ running = NoOne
    /\ kills < MaxKills
    /\ pc[g] \notin {"raise", "done"}
    /\ kills' = kills + 1
    /\ running' = g
    /\ Goto(g, "raise")
    /\ raised' = [raised EXCEPT ![g] =
                    IF pc[g] = "callback" THEN "Exception" ELSE error]
    /\ in_callback' = IF pc[g] = "callback" THEN NoOne ELSE in_callback
    /\ UNCHANGED <<sqlVars, idVars, transaction_lock, handler, want, frames,
                   opened, acked>>

Finish(g) ==
    /\ At(g, "run")
    /\ ~InBody(g)
    /\ running' = NoOne
    /\ Goto(g, "done")
    /\ UNCHANGED <<sqlVars, lockVars, idVars, ctxVars>>
-----------------------------------------------------------------------------
(* write_ctx, critical_section, critical_section_and_transaction_lock *)

\* `with conn.<kind>_ctx()`: one more context is being opened
Request(g, kind) ==
    /\ At(g, "run")
    /\ opened[g] < MaxOpened
    /\ want' = [want EXCEPT ![g] = kind]
    /\ opened' = [opened EXCEPT ![g] = @ + 1]
    /\ UNCHANGED <<sqlVars, lockVars, idVars, raised, frames, kills, acked, running>>

\* write_ctx up to the critical section.  transaction_lock is not reentrant: no
\* code opens a write_ctx while it holds it, except below a savepoint.
WriteCtx(g) ==
    /\ g \in Writers \union Updaters
    /\ Request(g, "write")
    /\ g \in Updaters \ Writers => TopIs(g, "critical")
    /\ ~HasKind(g, "critical_lock")
    /\ HasKind(g, "write") => TopIs(g, "savepoint")
    /\ Goto(g, IF savepoints = <<>> THEN "cs_enter"
               ELSE IF savepoint_greenlet_id # g THEN "wait_savepoints"
               ELSE "sp_enter")

\* savepoint_greenlet_id became None: continue with the normal write context
WaitSavepoints(g) ==
    /\ At(g, "wait_savepoints")
    /\ savepoint_greenlet_id = NoOne
    /\ Goto(g, "cs_enter")
    /\ UNCHANGED <<sqlVars, lockVars, idVars, ctxVars, running>>

CriticalCtx(g) ==
    /\ g \in Exporters \union Updaters
    /\ ~InBody(g)
    /\ Request(g, "critical")
    /\ Goto(g, "cs_enter")

CriticalLockCtx(g) ==
    /\ g \in Detachers
    /\ ~InBody(g)
    /\ Request(g, "critical_lock")
    /\ Goto(g, "cs_enter")

\* mutant: critical_section leaves the handler installed
CriticalEnterWithHandler(g) ==
    /\ At(g, "cs_enter")
    /\ in_callback = NoOne
    /\ IF want[g] = "critical"
         THEN Push(g, "critical", "none") /\ Goto(g, "run")
         ELSE UNCHANGED frames /\ Goto(g, "lock")
    /\ UNCHANGED <<sqlVars, idVars, lockVars, running, want, raised, opened, kills, acked>>

\* mutant: critical_section removes the handler without `with self.in_callback`
CriticalEnterUnguarded(g) ==
    /\ At(g, "cs_enter")
    /\ handler' = FALSE
    /\ IF want[g] = "critical"
         THEN Push(g, "critical", "none") /\ Goto(g, "run")
         ELSE UNCHANGED frames /\ Goto(g, "lock")
    /\ UNCHANGED <<sqlVars, idVars, in_callback, transaction_lock, running,
                   want, raised, opened, kills, acked>>

\* critical_section before its yield: the handler is removed under in_callback
CriticalEnter(g) ==
    /\ At(g, "cs_enter")
    /\ in_callback = NoOne
    /\ handler' = FALSE
    /\ IF want[g] = "critical"
         THEN Push(g, "critical", "none") /\ Goto(g, "run")
         ELSE UNCHANGED frames /\ Goto(g, "lock")
    /\ UNCHANGED <<sqlVars, idVars, in_callback, transaction_lock, running,
                   want, raised, opened, kills, acked>>

AcquireLock(g) ==
    /\ At(g, "lock")
    /\ transaction_lock = NoOne
    /\ transaction_lock' = g
    /\ IF want[g] = "critical_lock"
         THEN Push(g, "critical_lock", "none") /\ Goto(g, "run")
         ELSE UNCHANGED frames /\ Goto(g, "begin")
    /\ UNCHANGED <<sqlVars, idVars, in_callback, handler, running,
                   want, raised, opened, kills, acked>>

\* BEGIN TRANSACTION, which is before the try: when it fails only the lock is
\* released, write_greenlet_id stays set and the handler stays removed
Begin(g) ==
    /\ At(g, "begin")
    /\ write_greenlet_id' = g
    /\ \/ /\ SqlBegin
          /\ Push(g, "write", "none")
          /\ Goto(g, "run")
          /\ UNCHANGED <<transaction_lock, raised>>
       \/ /\ InTransaction
          /\ transaction_lock' = NoOne
          /\ raised' = [raised EXCEPT ![g] = "Exception"]
          /\ Goto(g, "raise")
          /\ UNCHANGED <<sqlVars, frames>>
    /\ UNCHANGED <<in_callback, handler, savepoints, savepoint_greenlet_id,
                   running, want, opened, kills, acked>>

\* the statements of the innermost context
Insert(g) ==
    /\ At(g, "run")
    /\ InTx(g)
    /\ SqlInsert(<<g, opened[g]>>)
    /\ frames' = [frames EXCEPT ![g][Len(frames[g])].rows = @ \union {<<g, opened[g]>>}]
    /\ UNCHANGED <<lockVars, idVars, running, pc, want, raised, opened, kills, acked>>

\* the body of write_ctx ends: COMMIT, finally, release of the lock
ExitWrite(g) ==
    /\ At(g, "run")
    /\ TopIs(g, "write")
    /\ SqlCommit
    /\ acked' = acked \union Top(g).rows
    /\ write_greenlet_id' = NoOne
    /\ transaction_lock' = NoOne
    /\ Pop(g)
    /\ Goto(g, "cs_exit")
    /\ UNCHANGED <<in_callback, handler, savepoints, savepoint_greenlet_id,
                   running, want, raised, opened, kills>>

\* Cursor.executescript in a critical section commits whatever is open first
ExecuteScript(g) ==
    /\ At(g, "run")
    /\ g \in Exporters
    /\ TopIs(g, "critical")
    /\ SqlCommit
    /\ UNCHANGED <<lockVars, idVars, ctxVars, running, pc>>

ExitCritical(g) ==
    /\ At(g, "run")
    /\ TopIs(g, "critical")
    /\ Pop(g)
    /\ Goto(g, "cs_exit")
    /\ UNCHANGED <<sqlVars, lockVars, idVars, running, want, raised, opened, kills, acked>>

ExitCriticalLock(g) ==
    /\ At(g, "run")
    /\ TopIs(g, "critical_lock")
    /\ transaction_lock' = NoOne
    /\ Pop(g)
    /\ Goto(g, "cs_exit")
    /\ UNCHANGED <<sqlVars, idVars, in_callback, handler, running,
                   want, raised, opened, kills, acked>>

\* critical_section after its yield: the handler is installed under in_callback
CriticalExit(g) ==
    /\ At(g, "cs_exit")
    /\ in_callback = NoOne
    /\ handler' = TRUE
    /\ Goto(g, "run")
    /\ UNCHANGED <<sqlVars, idVars, ctxVars, in_callback, transaction_lock, running>>
-----------------------------------------------------------------------------
(* savepoint_ctx, _enter_savepoint, _modify_savepoint *)

SavepointCtx(g) ==
    /\ g \in Savepointers
    /\ Request(g, "savepoint")
    /\ Goto(g, "sp_enter")

\* is a transaction open in a different greenlet?
EnterSavepoint(g) ==
    /\ At(g, "sp_enter")
    /\ Goto(g, IF InTransaction /\ write_greenlet_id # g THEN "sp_wait_tx" ELSE "sp_create")
    /\ UNCHANGED <<sqlVars, lockVars, idVars, ctxVars, running>>

WaitTransaction(g) ==
    /\ At(g, "sp_wait_tx")
    /\ write_greenlet_id = NoOne
    /\ Goto(g, "sp_create")
    /\ UNCHANGED <<sqlVars, lockVars, idVars, ctxVars, running>>

\* no other greenlet has savepoints any more.  A name the caller chose may already
\* be in use; write_ctx, which opens a savepoint inside of one, takes a new uuid.
CreateSavepoint(g, name) ==
    /\ At(g, "sp_create")
    /\ savepoint_greenlet_id \in {NoOne, g}
    /\ \/ /\ ~IsSavepoint(name)
          /\ SqlSavepoint(name)
          /\ savepoints' = Append(savepoints, name)
          /\ savepoint_greenlet_id' = g
          /\ Push(g, "savepoint", name)
          /\ Goto(g, "run")
          /\ UNCHANGED raised
       \/ /\ IsSavepoint(name) /\ want[g] = "savepoint"       \* ContextError
          /\ raised' = [raised EXCEPT ![g] = "Exception"]
          /\ Goto(g, "raise")
          /\ UNCHANGED <<sqlVars, savepoints, savepoint_greenlet_id, frames>>
    /\ UNCHANGED <<lockVars, write_greenlet_id, running, want, opened, kills, acked>>

\* mutant: _modify_savepoint does not reset savepoint_greenlet_id
ForgetSavepointKeepsId(name) ==
    /\ savepoints' = SavepointsBelow(name)
    /\ UNCHANGED <<savepoint_greenlet_id, write_greenlet_id>>

\* the bookkeeping of _modify_savepoint('RELEASE')
ForgetSavepoint(name) ==
    /\ savepoints' = SavepointsBelow(name)
    /\ savepoint_greenlet_id' =
         IF SavepointsBelow(name) = <<>> THEN NoOne ELSE savepoint_greenlet_id
    /\ UNCHANGED write_greenlet_id

\* release_savepoint raises: ContextError, or sqlite's "no such savepoint"
Unreleasable(name) == ~IsSavepoint(name) \/ ~HasMark(name)

\* the body of savepoint_ctx ends
ExitSavepoint(g) ==
    LET name == Top(g).name IN
    /\ At(g, "run")
    /\ TopIs(g, "savepoint")
    /\ \/ /\ ~Unreleasable(name)
          /\ SqlRelease(name)
          /\ ForgetSavepoint(name)
          /\ IF Outermost(g)
               THEN Pop(g) /\ acked' = acked \union Top(g).rows
               ELSE PopInto(g) /\ UNCHANGED acked
          /\ UNCHANGED <<pc, raised>>
       \/ /\ Unreleasable(name)
          /\ Pop(g)
          /\ raised' = [raised EXCEPT ![g] = "Exception"]
          /\ Goto(g, "raise")
          /\ UNCHANGED <<sqlVars, idVars, acked>>
    /\ UNCHANGED <<lockVars, running, want, opened, kills>>
-----------------------------------------------------------------------------
(* Exceptions *)

\* the code in the body of a context raises
Raise(g) ==
    /\ At(g, "run")
    /\ InBody(g)
    /\ raised' = [raised EXCEPT ![g] = "Exception"]
    /\ Goto(g, "raise")
    /\ UNCHANGED <<sqlVars, lockVars, idVars, want, frames, opened, kills, acked, running>>

\* mutant: write_ctx commits in `finally`, after an exception too
UnwindWriteCommits(g) ==
    /\ At(g, "raise")
    /\ TopIs(g, "write")
    /\ SqlCommit
    /\ write_greenlet_id' = NoOne
    /\ transaction_lock' = NoOne
    /\ Pop(g)
    /\ UNCHANGED <<in_callback, handler, savepoints, savepoint_greenlet_id,
                   running, pc, want, raised, opened, kills, acked>>

\* mutant: write_ctx does not roll back
UnwindWriteLeavesOpen(g) ==
    /\ At(g, "raise")
    /\ TopIs(g, "write")
    /\ write_greenlet_id' = NoOne
    /\ transaction_lock' = NoOne
    /\ Pop(g)
    /\ UNCHANGED <<sqlVars, in_callback, handler, savepoints, savepoint_greenlet_id,
                   running, pc, want, raised, opened, kills, acked>>

\* mutant: transaction_lock is acquired without `with`
UnwindWriteKeepsLock(g) ==
    /\ At(g, "raise")
    /\ TopIs(g, "write")
    /\ IF raised[g] = "Exception" THEN SqlRollback ELSE UNCHANGED sqlVars
    /\ write_greenlet_id' = NoOne
    /\ Pop(g)
    /\ UNCHANGED <<lockVars, savepoints, savepoint_greenlet_id,
                   running, pc, want, raised, opened, kills, acked>>

\* an exception leaves write_ctx: `except Exception` rolls back, a GreenletExit
\* passes by it; finally; no code after critical_section's yield runs
UnwindWrite(g) ==
    /\ At(g, "raise")
    /\ TopIs(g, "write")
    /\ IF raised[g] = "Exception" THEN SqlRollback ELSE UNCHANGED sqlVars
    /\ write_greenlet_id' = NoOne
    /\ transaction_lock' = NoOne
    /\ Pop(g)
    /\ UNCHANGED <<in_callback, handler, savepoints, savepoint_greenlet_id,
                   running, pc, want, raised, opened, kills, acked>>

\* mutant: savepoint_ctx releases without rolling back
UnwindSavepointReleases(g) ==
    LET name == Top(g).name IN
    /\ At(g, "raise")
    /\ TopIs(g, "savepoint")
    /\ Pop(g)
    /\ ~Unreleasable(name)
    /\ SqlRelease(name)
    /\ ForgetSavepoint(name)
    /\ UNCHANGED <<lockVars, running, pc, want, raised, opened, kills, acked>>

\* an exception leaves savepoint_ctx: rollback (not for a GreenletExit), release
UnwindSavepoint(g) ==
    LET name == Top(g).name IN
    /\ At(g, "raise")
    /\ TopIs(g, "savepoint")
    /\ Pop(g)
    /\ \/ /\ ~Unreleasable(name)
          /\ IF raised[g] = "Exception" THEN SqlRollbackAndRelease(name) ELSE SqlRelease(name)
          /\ ForgetSavepoint(name)
          /\ UNCHANGED raised
       \/ /\ Unreleasable(name)
          /\ raised' = [raised EXCEPT ![g] = "Exception"]
          /\ UNCHANGED <<sqlVars, idVars>>
    /\ UNCHANGED <<lockVars, running, pc, want, opened, kills, acked>>

\* an exception leaves a critical section: the handler stays removed
UnwindCritical(g) ==
    /\ At(g, "raise")
    /\ TopIs(g, "critical") \/ TopIs(g, "critical_lock")
    /\ transaction_lock' = IF TopIs(g, "critical_lock") THEN NoOne ELSE transaction_lock
    /\ Pop(g)
    /\ UNCHANGED <<sqlVars, idVars, in_callback, handler, running, pc, want,
                   raised, opened, kills, acked>>

\* the code around the context catches the exception
Catch(g) ==
    /\ At(g, "raise")
    /\ raised[g] = "Exception"
    /\ Goto(g, "run")
    /\ UNCHANGED <<sqlVars, lockVars, idVars, ctxVars, running>>

\* an exception that nobody catches ends the greenlet
Die(g) ==
    /\ At(g, "raise")
    /\ ~InBody(g)
    /\ running' = NoOne
    /\ Goto(g, "done")
    /\ UNCHANGED <<sqlVars, lockVars, idVars, ctxVars>>
-----------------------------------------------------------------------------
(* DBConnection.commit() and rollback() outside of the contexts *)

\* set_rotkehlchen_premium: cursor().execute() and then conn.commit()
ExecuteDirect(g) ==
    /\ g \in Committers
    /\ ~InBody(g)
    /\ At(g, "run")
    /\ opened[g] < MaxOpened
    /\ opened' = [opened EXCEPT ![g] = @ + 1]
    /\ SqlInsert(<<g, opened[g] + 1>>)
    /\ acked' = acked \union {<<g, opened[g] + 1>>}
    /\ Goto(g, "commit")
    /\ UNCHANGED <<lockVars, idVars, running, want, raised, frames, kills>>

\* AssetsUpdater._perform_update: savepoints, then commit() or rollback()
EndUpdate(g) ==
    /\ g \in Savepointers
    /\ ~InBody(g)
    /\ At(g, "run")
    /\ \/ Goto(g, "commit")
       \/ Goto(g, "rollback")
    /\ UNCHANGED <<sqlVars, lockVars, idVars, ctxVars, running>>

Commit(g) ==
    /\ At(g, "commit")
    /\ in_callback = NoOne
    /\ SqlCommit
    /\ Goto(g, "run")
    /\ UNCHANGED <<lockVars, idVars, ctxVars, running>>

Rollback(g) ==
    /\ At(g, "rollback")
    /\ in_callback = NoOne
    /\ SqlRollback
    /\ Goto(g, "run")
    /\ UNCHANGED <<lockVars, idVars, ctxVars, running>>
-----------------------------------------------------------------------------
(* one step of the running greenlet that ends its body or goes on towards it *)
Progress(g) ==
    \/ Block(g) \/ CallbackReturn(g) \/ Finish(g) \/ Die(g)
    \/ WaitSavepoints(g) \/ CriticalEnter(g) \/ AcquireLock(g) \/ Begin(g)
    \/ ExitWrite(g) \/ ExitCritical(g) \/ ExitCriticalLock(g) \/ CriticalExit(g)
    \/ EnterSavepoint(g) \/ WaitTransaction(g) \/ ExitSavepoint(g)
    \/ \E name \in Names : CreateSavepoint(g, name)
    \/ UnwindWrite(g) \/ UnwindSavepoint(g) \/ UnwindCritical(g)
    \/ Commit(g) \/ Rollback(g)

Step(g) ==
    \/ Progress(g)
    \/ Switch(g) \/ Yield(g) \/ Callback(g)
    \/ WriteCtx(g) \/ CriticalCtx(g) \/ CriticalLockCtx(g) \/ SavepointCtx(g)
    \/ Insert(g) \/ ExecuteScript(g) \/ ExecuteDirect(g) \/ EndUpdate(g)
    \/ Raise(g) \/ Catch(g)
    \/ \E error \in KillErrors : Kill(g, error)

AllDone == (\A g \in Greenlets : pc[g] = "done") /\ UNCHANGED vars

Next == (\E g \in Greenlets : Step(g)) \/ AllDone

Spec == Init /\ [][Next]_vars

\* the body of the innermost context, or the greenlet, comes to its end
Leave(g) ==
    \/ Finish(g) \/ ExitWrite(g) \/ ExitCritical(g) \/ ExitCriticalLock(g)
    \/ ExitSavepoint(g)

(***************************************************************************)
(* The hub gives every greenlet that can run a turn, code that runs goes   *)
(* on, and every body comes to an end: a statement enters the callback     *)
(* finitely often.                                                         *)
(***************************************************************************)
Fairness ==
    \A g \in Greenlets :
        WF_vars(Progress(g)) /\ SF_vars(Switch(g)) /\ SF_vars(Leave(g))

FairSpec == Spec /\ Fairness
-----------------------------------------------------------------------------
(* Properties *)

OwnerOrNoOne == Greenlets \union {NoOne}

\* Every variable keeps its type, and in_callback is held between two switches only
\* by a greenlet that is inside the progress callback.
TypeOK ==
    /\ begun \in BOOLEAN
    /\ marks \in Seq([name : Names, saved : SUBSET Rows])
    /\ data \in SUBSET Rows
    /\ disk \in SUBSET Rows
    /\ in_callback \in OwnerOrNoOne
    /\ in_callback # NoOne => pc[in_callback] = "callback"
    /\ transaction_lock \in OwnerOrNoOne
    /\ handler \in BOOLEAN
    /\ savepoints \in Seq(Names)
    /\ savepoint_greenlet_id \in OwnerOrNoOne
    /\ write_greenlet_id \in OwnerOrNoOne
    /\ running \in OwnerOrNoOne
    /\ pc \in [Greenlets -> Labels]
    /\ want \in [Greenlets -> Kinds]
    /\ raised \in [Greenlets -> Errors]
    /\ frames \in [Greenlets -> Seq(Frame)]
    /\ opened \in [Greenlets -> 0..MaxOpened]
    /\ kills \in 0..MaxKills
    /\ acked \in SUBSET Rows

\* What is committed is exactly what the contexts that were left normally wrote:
\* no context is committed half way, by itself or by another greenlet, a context
\* that raised leaves nothing behind, and one that returned is durable.
AllOrNothing == disk = acked

\* What the connection holds beyond the committed rows belongs to contexts that
\* are open: no rollback takes rows of another greenlet's open context away, and
\* no transaction outlives its context.
NoStrayRows == data = disk \union UNION {OpenRows(g) : g \in Greenlets}

\* The greenlet that executes sees committed rows and its own: no dirty reads,
\* although all greenlets share one connection.
Isolation == \A g \in Greenlets : running = g => data \ disk \subseteq OpenRows(g)

\* At most one greenlet is between BEGIN TRANSACTION and the end of its write_ctx,
\* whatever yields, fails or is killed.
MutualExclusion ==
    \A g, h \in Greenlets : HasKind(g, "write") /\ HasKind(h, "write") => g = h

\* BEGIN TRANSACTION never meets a transaction that is already open.
BeginSucceeds == \A g \in Greenlets : pc[g] = "begin" => ~InTransaction

\* The driver's list of savepoints is sqlite's stack of savepoints, and they
\* belong to one greenlet, in the order it opened them.
SavepointsMatch ==
    /\ Len(savepoints) = Len(marks)
    /\ \A i \in 1..Len(marks) : marks[i].name = savepoints[i]
    /\ savepoints = <<>> <=> savepoint_greenlet_id = NoOne
    /\ \A g \in Greenlets : HasKind(g, "savepoint") => g = savepoint_greenlet_id

\* While a greenlet is inside the progress callback no other greenlet ends the
\* connection's transaction or replaces its progress handler.
CallbackUndisturbed ==
    [][in_callback # NoOne /\ in_callback' = in_callback
         => handler' = handler /\ (begun => begun')]_vars

\* No other greenlet gets a turn while one is in a critical section.
CriticalSectionRunsAlone ==
    \A g \in Greenlets : HasKind(g, "critical") => running = g

\* Every greenlet gets through all the semaphores and polling loops: nobody waits
\* for ever, and nobody waits for one that waits for them.
EveryGreenletFinishes == <>(\A g \in Greenlets : pc[g] = "done")

\* Contexts behave like the atomic contexts of TransactionalStore.
Store == INSTANCE TransactionalStore WITH
             Clients <- Greenlets,
             store <- disk,
             open <- [g \in Greenlets |-> OpenRows(g)],
             returned <- acked
ActsAsTransactionalStore == Store!StoreSpec
-----------------------------------------------------------------------------
(* What the comments, docs and tests of the repository say, and does not hold *)

\* write_ctx waits until the savepoints of another greenlet are done.
WriteWaitsForSavepoints ==
    \A g \in Greenlets : pc[g] = "begin" => savepoint_greenlet_id \in {NoOne, g}
=============================================================================
