# A TLA+ verification project for rotki's backend

rotki is a portfolio tracker and accounting tool. Its Python backend
(`src/rotkehlchen`) is one process that runs many gevent greenlets in one thread,
on top of sqlite databases: the encrypted *user DB* of the account, a *transient
DB* beside it and the *global DB* of assets and prices. This directory models the
parts of the backend whose correctness depends on order: greenlets that share a
connection, upgrades that fail or are cut off by a crash, queries that overlap,
logins that race with logouts, devices that synchronise one account, and the
bookkeeping of a PnL report.

## 1. The system and its parts

| Part | Source (below `src/rotkehlchen`) | Modules | What is hard about it |
|---|---|---|---|
| DB driver | `db/drivers/gevent.py` | `DBConnection`, `Sqlite`, `TransactionalStore` | greenlets switch in the middle of a statement; kills; waiting loops |
| User DB upgrades, backups | `db/upgrade_manager.py`, `db/dbhandler.py` | `UserDBUpgrade`, `WalFile` | crashes between commits, copies of a file in WAL mode |
| Global DB upgrades | `globaldb/upgrades/manager.py`, `globaldb/handler.py` | `GlobalDBUpgrade`, `WalFile` | the same, with an automatic resume |
| Used query ranges, exchange and EVM history queries | `db/ranges.py`, `exchanges/exchange.py`, `chain/evm/transactions.py` | `HistoryQueries` | overlapping queries, cancellations between two writes |
| PnL reports and cost basis | `accounting/` | `PnlReports`, `CostBasis` | exact use of acquisitions, one pot for all reports |
| Async tasks, task manager, login and logout | `api/rest.py`, `rotkehlchen.py`, `data_handler.py`, `tasks/manager.py`, `greenlets/manager.py` | `Sessions` | kills while a lock is held, logout during a login or a schedule |
| Premium sync | `premium/sync.py`, `data_handler.py`, `db/dbhandler.py` | `PremiumSync` | two devices, clocks, an import that replaces the DB |

How they interact: every part below the API stores its data through the driver.
The driver's promise, *a context is one atomic step*, is the abstract
specification `TransactionalStore`; the other modules use it by making a write
context one action. `UserDBUpgrade` and `GlobalDBUpgrade` look below it, at the
files, where a crash between two commits is visible; `PremiumSync` replaces whole
files. `Sessions` composes the API, the login, the scheduler and the logout.
`PROJECT.json` lists the remaining parts (section 5), the line each definition
models, and every hazard with the properties that would catch it.

## 2. Modules

Definitions called "mutant of X" are deliberately wrong variants of X. They are
used by no specification; putting one in place of X must make TLC report the
property that `PROJECT.json` names. `MC...` modules hold the constants of the
instances for TLC.

**DB driver.** `Sqlite` (external) is one connection: its transaction, its
savepoint stack and its durable rows. `DBConnection` is the class of that name;
the semaphores, `savepoints` and the two greenlet ids keep their names. `running`
is the greenlet that executes; control passes on only where the code yields: at
a taken semaphore, in the polling loops, in the progress callback, and in the
body of a context of the greenlets in `Yielders`. `frames[g]` is the stack of
open contexts of a greenlet; each context manager is split at its yield points
into one action per stretch of code. A kill throws into a waiting greenlet. What
a greenlet may do is set by constants: `Writers` open write contexts,
`Savepointers` savepoints, `Exporters` critical sections, `Detachers` critical
sections under `transaction_lock`, `Committers` execute and commit outside of
contexts. In `TransactionalStore` a client collects rows in an open context; when
the outermost context returns they become durable in one step.

**Upgrades.** `WalFile` (external) is a database file in WAL mode. A commit puts
frames in the `-wal` file and may checkpoint; a copy of the database file lacks
them; a replaced database file is overlaid by them; closing checkpoints; after a
crash all frames are replayed. `UserDBUpgrade` has `DBHandler.__init__`,
`_check_unfinished_upgrades`, `run_upgrades`, `_perform_single_upgrade`,
`create_db_backup` and `logout`. The DB has a settings page (version, flag) and
a schema page (the version of the tables); `pc` is the next step; every commit
and every file copy is a step of its own, and the process may die before any of
them. `case` says what kind of account it is: the *plain* cases are those that
exist already, whose upgrades commit once and run no VACUUM, and whose user does
not approve a resume. `GlobalDBUpgrade` does the same for the global DB, whose
backup is stored next to it before the flag is set. An upgrade of `Scripted`
commits on its way, like `migrate_to_v3`, in which every `switch_foreign_keys` is a
script that ends the transaction (`db/drivers/gevent.py:114`); the others commit
once. `mishaps` records that a backup was made while commits were only in the
`-wal` file (`missed_commits`), or put back under the frames of half an upgrade
whose flag a checkpoint had already moved to the file (`restored_under_half`).

**History queries.** `HistoryQueries` follows one name of one of six kinds
(trades, movements and margins of an exchange; three kinds of transactions of an
address): the row `saved` of `used_query_ranges`, the entries `stored`, and per
greenlet the periods `todo` that `get_location_query_ranges` returned. The
history `remote` is fixed. `causes` collects the events after which the row may
claim too much: a query without a lock overlapped another one, data was deleted
while a query ran, kraken answered for a shorter period, an exchange swallowed a
remote error (kraken's movements ignore the result of `query_kraken_ledgers`,
`kraken.py:593`; gemini's trades of a symbol, `gemini.py:428`) and the rest was
taken for the whole period, a query was interrupted below the row or within the
second the row ends with, the token query failed.

**PnL reports.** `CostBasis` has the four cost basis methods as operators on the
list of acquisitions, with their spends, and the rounding of `FVal` (`Digits`
stands for its 78 digits). `PnlReports` has `process_history`, the pot's
`add_in_event` and `add_out_event`, the WETH and pre-fork special cases, missing
prices and cancellations, and several reports on the one pot they share. `ghost`
keeps the balance that a reference would compute. HIFO means the highest rate
first, as in the code, in the docstring of `HIFOCostBasisMethod.add_in_event`
(`cost_basis/base.py:333`) and in the test data; two other docstrings speak of the
highest amount (`base.py:116`, `tests/unit/test_cost_basis.py:667`).

**Sessions.** Requests start, poll and cancel asynchronous tasks and log out; a
task is a query or a login. A login opens the DB, runs upgrades, the premium
check and migrations, and may fail or be cancelled in each. The main loop
schedules background tasks while it holds `schedule_lock`. DB handlers and task
managers are numbered in the order in which logins create them. The client may
send any number of logins, also while a login or a logout is under way: `login_lock`
is released as soon as the greenlet of an asynchronous login is spawned, so two
logins can both pass the check of `user_is_logged_in`. `overlapped` records that
the last login to pass it ran beside another one.

**Premium sync.** Devices with one account: a DB is the set of edits it contains
with its version, its setting to sync and its time; a device has a DB file, what
is only in its `-wal` file, a temporary backup, dated backups that are named after
the second they are made in (`data_handler.py:232`), directories that were moved
away, its session and a clock that may be ahead. Actions: login with the check of the remote DB, creation of the
account from it, automatic and forced upload, download and import step by step,
edits, logout, failing requests and lost answers, crashes.

## 3. Runs

Runs that must pass:

| Run | Shows |
|---|---|
| `driver_user_db` | used like the user DB's connection, with an export, a detach, a bare commit and one kill: contexts are atomic and isolated, BEGIN never fails, critical sections run alone, the callback is undisturbed |
| `driver_savepoints` | savepoints, nested and mixed with write contexts, and one kill: the driver's list is sqlite's stack, no stray rows, the abstract store is implemented, nobody waits for ever |
| `userdb_upgrades` | plain accounts: a session only opens a completely upgraded DB, and a half upgraded one is flagged; all accounts: a backup is never newer than its name |
| `globaldb_upgrades` | up to two upgrades in a start: one of which commits on its way: as long as no mishap happened, only complete DBs are opened and a flagged DB has a complete backup |
| `history_queries` | without a cause, the row claims nothing that is missing and a query that ends normally is complete; every query ends unless the removal of the address kept its lock |
| `pnl_reports` | the acquisitions hold the balance, explain every spend, are used in the method's order, and a forked asset follows its parent; a skipped event exists; errors need lost digits |
| `sessions` | a cancelled task is removed, who is logged in, by a login that ran beside no other, has an open DB and a task manager that works on it, logout and scheduler exclude each other; requests are answered and tasks get outcomes |
| `premium_sync` | edits stay in a file of their device but for three recorded exceptions, the remote DB shrinks only by force or by a race |

Runs in which TLC must find a disagreement between the code and what a comment,
docstring, test or document of the repository says (quoted in `PROJECT.json`):

| Run | Shows |
|---|---|
| `driver_write_during_savepoint` | the savepoint check of `write_ctx` is stale after its waits |
| `userdb_failed_upgrade` | the restored backup is overlaid by the `-wal` file, with the flag |
| `pnl_overlap` | a second report resets the pot, and the settings, of the first |
| `premium_login` | opening the DB sets `last_write_ts` to now before it is compared with the remote DB's, so a newer remote DB is not asked for |

**Conditions.** The restriction of `userdb_upgrades` to plain accounts is needed.
A resumed login takes the stale backup of a second upgrade. An upgrade that
commits halfway and then fails leaves its frames over the restored file. A VACUUM
that fails after the commit (`upgrades/v38_v39.py:341`, `v39_v40.py:415`) is
followed by a restore that leaves an unflagged half upgraded DB. A new account
without a version row gets the version of the next software that opens it.
The two mishaps of `globaldb_upgrades`, the causes of `history_queries` and
`overlapped` in `sessions` are needed too: without any one of them TLC finds a
violation. An overlap of logins contradicts the docstring of `login_lock`
(`api/rest.py:358`): the login that fails closes the DB of the other one, whose
user stays logged in without a name and can neither log out nor log in again.
`EditsSurvive` excepts edits made while an import runs; edits that were only
in the `-wal` file when the dated backup was made, once the temporary backup is
removed; and edits of a dated backup that a second download in the same second
overwrites. `BackupsAreNotNewer` is one-sided: a backup may be older than its
name. `AllOrNothing` is checked for bodies that do not yield; a body that yields
and is killed by GreenletExit leaves its transaction open. `ForkFollowsParent` is
for one report at a time and until a spend fails halfway or a change is made to
WETH or ETC themselves. `SkippedEventExists` does not say that the event named in
the message is the one that failed. `ShrinksOnlyByForceOrRace` does not rule out
the race. `RequestsAreAnswered` and `TasksGetOutcomes` except what a cancelled
login leads to: the upgrade and migration managers swallow the exception of the kill
(`BaseException`), the login goes on, and the cancelling request waits for it with
`task_lock` held (`CancelIsStuck`); a task that is about to write its result when
it is cancelled is in the same state until the exception reaches it.

The results about the `-wal` file depend on `WalFile`; its rules about replaced
files were compared with the behaviour of sqlite.

**Bounds.** *Driver*: two or three greenlets with at most `MaxOpened` = 2
contexts each and `MaxKills` = 1; two greenlets give every pair of contexts, a
third one waits behind them. *Upgrades*: three versions give two consecutive
upgrades and downgrades, and for the global DB the first of the two commits on its
way (`Scripted` = {1}); a new account meets users who resume, or upgrades that
commit halfway and run VACUUM, an old one both at once. *History queries*: two
greenlets, two or fewer queries in all, times 0 to 3, batches of two; enough for
a row with a gap on both sides and for a batch boundary inside a second.
*PnL reports*: a report on up to four entries, then a short one, so that what the
first leaves in the pot is visible in the second. *Sessions*: two requests, two
tasks, two sessions, so that two logins, or a login, a cancellation and a logout,
meet; `MaxTasksNum` = 1, and `running` is counted up to it, since the scheduler
only asks whether a place is free. *Premium
sync*: two devices, `MaxLogins` = 3, `MaxTransfers` = 3, one edit and one tick per
clock; instances with two edits (5.3 million states) and with two ticks (3.7
million) were checked too.

**Fairness.** *Driver*: weak fairness of the code that runs, strong fairness of
the hub's switch to each greenlet and of leaving a context. The hub runs every
ready greenlet in turn and semaphores serve their waiters in order; the last
conjunct says that bodies come to an end although their statements may enter the
progress callback before they do. *History queries*: weak fairness of a query's
steps and of the removal, strong fairness of taking the lock. *Sessions*: strong
fairness of each request, task, dead task's handler and of the main loop, weak
fairness of a thrown exception. Nothing else is assumed to happen: no user
action, kill, remote answer of a kind or crash.

**Deadlock** is checked for the driver and the upgrades. The other systems may
stop: when their bounded queries, reports, sessions or transfers are used up, and
in `Sessions` when a cancelled login is stuck.

## 4. Proofs

The theorems hold for every value of the constants: any number of greenlets,
requests, devices, versions, entries and any bounds. They use only the named
assumptions of the modules (`RolesAssumption`, `UpgradeAssumption`,
`GlobalUpgradeAssumption`, the two `DistinctAssumption`, `QueryAssumption`,
`SessionsAssumption`, `SyncAssumption`, `NoFileAssumption`, `ReportsAssumption`,
`DigitsAssumption`), which say that bounds are naturals, that sets of roles are sets
of greenlets, and that "nobody", "nothing" and the like are none of the values.
`DigitsAssumption` also says that a power of ten is a positive natural: the provers
know nothing of exponents. Conditions of use are stated as
assumptions of the single theorem. TLC checked each inductive invariant on small
instances before it was proved.

**`DBConnectionProofs`**, under every use of the connection.
* `WritersExcludeEachOther`: at most one write context is open
  (`MutualExclusion`). The invariant `LockIInv` says that a greenlet with a
  locking context on its stack, or about to BEGIN, holds `transaction_lock`, and
  has at most one such context; mutual exclusion alone does not say that the lock
  of the open context is the one the next writer waits for.
* `TypeCorrect`: the types (`TypeIInv`, with `LockIInv`).
* `CriticalSectionsRunAlone`: no other greenlet gets a turn while one is inside
  `critical_section`, provided the code in it opens no other context and does
  not yield (`CriticalBodiesRunThrough`): then nothing in it can wait, since the
  handler that calls the progress callback is removed.

The second half of the module is about connections without savepoints, which is
how the user DB is used.
* `Yielding...`: if greenlets only use `write_ctx` and kills are ordinary
  exceptions (`OnlyWriteContexts`), then however bodies yield, contexts are
  atomic, BEGIN never fails, no rows are left over, and the abstract store is
  implemented. `WriteInv` adds to `LockIInv` that uncommitted rows are those of
  the lock holder's context.
* `User...`: if bodies do not yield (`BodiesRunThrough`), the same holds with
  exports, bare commits and GreenletExit, and in addition isolation and an
  undisturbed callback. `UserInv` adds that whoever is inside a locking context,
  or entering one, is the greenlet that runs, with the handler removed and nobody
  inside the callback.

**`DBConnectionSavepoints`**, with savepoints nested in each other and in write
contexts, which is how the global DB is used. The condition is
`SavepointsRunThrough`: bodies switch greenlets only through sqlite's callback or
the driver, and write contexts are not opened in a critical section.
* `SavepointsStayMatched`: the driver's `savepoints` is sqlite's stack, whatever
  fails or is killed. The invariant says who may have a context open: whoever
  has one executes or waits in the callback (`AloneInv`), a stack is savepoints
  with at most one other context below them (`PlaceInv`), sqlite's transaction is
  the one of a write context (`TxInv`), and list, stack and the contexts of
  `savepoint_greenlet_id` are the same (`StackInv`).
* `SavepointsBeginSucceeds`: BEGIN never fails. (With yielding bodies it does,
  see `driver_write_during_savepoint`.)
* `SavepointsAreAtomic`, `SavepointsLeaveNothing`, `SavepointsRefineStore`: if in
  addition nobody executes outside of contexts (`Committers = {}`; such a row
  would fall into another greenlet's savepoint), contexts are atomic, no rows are
  left over and the abstract store is implemented. `RowsInv` says that each open
  savepoint recalls the committed rows and the rows of the contexts below it, so
  that rolling back to it takes away exactly the rows of its context.

Isolation does not hold with savepoints: another greenlet may run, and read, while
the owner of a savepoint waits in the callback.

**`UserDBUpgradeProofs`**: `TypeCorrect`, `BackupsNotNewer`, `OpenUpgraded`,
`HalfUpgradedFlagged`. The invariant says what the file, its replay after a crash
and the temporary backup look like at each step (`Shape`, `PlainInv`), that both
the file and the replayed file are acceptable (`CrashSafe`), and that versions
only grow within a login (`VersionInv`).

**`GlobalDBUpgradeProofs`**: `TypeCorrect`, `OpenUpgraded`, `FlaggedBackedUp`, for any
set of upgrades that commit on their way, from `Shape` (what each step of a start
finds in file, flag and backups) and `Whole` (as long as there was no mishap, an
unflagged DB is complete and a flagged one has its complete backup, also after the
replay of the frames that a crash leaves).

**`HistoryQueriesProofs`**: `TypeCorrect`, `SavedStored`, `DoneComplete`. Types need
that the lock is held (`LockHeld`) and that the locals a step reads are set
(`StepInv`). For the other two: without a cause, at most one query has read the
row and may still write it (`OneQuery`); the period spanned by the row and the
time it wants (`Hull`) does not change while it runs, and every entry in it is
stored or in a part still to come (`HullCovered`); what is left of a period whose
first batches are in the row is above the row (`RestAboveRow`).

**`SessionsProofs`**: `CancelPopsItsTask`, `LogoutExcludesSchedule`,
`LoggedInMeansOpen`, `TypeCorrect`. The invariant has six parts: the fields that the argument
reads are of their types (`TypeInv`), tasks have ids of their own (`CountInv`),
`task_lock` is held by the request inside it (`LockInv`), `schedule_lock` by the
main loop or the logout inside it (`ScheduleInv`), one request at a time logs out
(`LogoutInv`), and for a login that ran beside no other what is open at each point
of `unlock_user`, at most one login being past its start (`UserInv`). The types
need that the list names each task once (`ListInv`) and that exceptions are thrown
at live tasks and only dead ones have results (`DeadInv`).

**`PremiumSyncProofs`**: `TypeCorrect`, `EditsAreNotLost`,
`ShrinksByForceOrRace`. A step touches one device, so the invariant is stated per
device: which files exist at each step of an import (`FileInv`), which of them
hold the edits (`EditsInv`), and that an automatic upload sends no less than the
remote DB it looked at (`SizeInv`).

**`PnlReportsProofs`**: what `calculate_spend_cost_basis` and `reduce_asset_amount`
compute, and what a report makes of it.
* The loop over the heap is a recursive function `turn`, the sums are recursive
  functions too. Induction over them is done with sets of naturals: the set of the
  positions up to which the claim holds contains 0 and the successor of each member.
  The lemmas take this principle as a hypothesis (`Inductive`), which the last
  section of the module derives from the well-foundedness of <. Loop invariants: the heap that
  is left is the rest of the old one in the same order, with at most its first
  acquisition reduced (`Shape`); as long as no sum reaches `Limit`, what is matched,
  what is left and what is still to be found add up, and `current_amount` is what
  the rest of the heap holds (`Exact`).
* `TypeCorrect`, `AcquisitionsUsedInOrder`: for any reports, interleaved in any way,
  and with rounding. `Good` says that a heap is in the order of the method, with
  distinct ids below the counter; it is what makes the head of the heap the next
  acquisition of the method. `UnusedPot` covers the pot before its first reset.
* `AmountsAreBalances`, `SpendsAddUp`, `ErrorsNeedLostDigits`: heap, `current_amount`
  and plain arithmetic on totals agree (`Agree`) until an amount needs more digits
  than an FVal keeps. The error of the average cost basis then cannot occur, since
  `current_amount` is the sum of a heap that is not empty.
* `SkippedEventsExist`: while an event is processed its entries are not counted yet
  (`LocalOK`).
* `ForksFollow`: under the condition that no report starts while
  another one runs (`~Overlap`). `Alone` says that at most one report runs, that the
  pot has its settings, and where the pools of ETH and ETC are at each point of
  `add_in_event` and `add_out_event` (`ForkOK`): equal between changes, apart by the
  amount of the change within one. `ForksFollow` is for the time until digits are
  lost; after that two heaps with the same history may be rounded differently, as
  heapq says nothing of the order of equal entries.

**Only model-checked.** Liveness: `EveryGreenletFinishes`, `QueriesEnd`,
`RequestsAreAnswered`, `TasksGetOutcomes`; the provers handle neither fairness nor
ENABLED. `ForkFollowsParent` after digits were lost, which the run covers on its
instance.

## 5. Not modelled

Within the modelled parts:
* *Driver*: the map from connection types to connections (a second connection of a
  type replaces the first), the iteration of cursors, `switch_foreign_keys`, the
  schema sanity check; a changed password, which is written to two files.
* *Upgrades*: what an upgrade function does to the tables, other than moving them to
  the next version in one or two commits; the installation of the packaged global
  DB; sqlite's choice of when to checkpoint is left open.
* *History queries*: receipts, pages of more than 10000 results, transactions shared
  by addresses, customized events on deletion, an end of the period after now.
* *PnL reports*: only the ETH/ETC fork; bought costs and PnL totals; ignored forked
  assets; entries with equal keys leave the heap in any order; the accounting
  rules that turn an event into changes; export.
* *Sessions*: synchronous logins, shutdown, what the scheduling functions check, the
  construction of the chain and exchange managers. Two observations that the model
  shares with the code: a killed background task stays in the list and counts
  against `max_tasks_num`, and the main loop ends when it schedules on a closed DB.
* *Premium sync*: the size of a DB is the number of its edits (no deletions); the
  hour between two automatic uploads is left open; setting, deleting and
  deactivating the keys and turning the setting off; a download that a logout
  kills is a crash; one sync request of the API at a time. A DB of a newer version
  locks the account out, and an approved pull that fails is ignored, in the model
  as in the code.

Other parts: data migrations, asset updates, messages and the websocket notifier,
the settings cache (each a candidate for a module of its own); EVM decoding,
exchange and external API clients, price oracles, CSV importers and icons, which
are parsing and I/O; process start-up.
