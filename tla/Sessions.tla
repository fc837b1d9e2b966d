------------------------------ MODULE Sessions ------------------------------
(***************************************************************************)
(* The user's session of one backend process: asynchronous API tasks       *)
(* (api/rest.py), login and logout (api/rest.py, rotkehlchen.py,           *)
(* data_handler.py), and the main loop with its scheduler of background    *)
(* tasks (rotkehlchen.py, tasks/manager.py, greenlets/manager.py).         *)
(*                                                                         *)
(* Everything runs in greenlets of one thread, so a step is what a         *)
(* greenlet does between two waits: for a semaphore, for the death of a    *)
(* killed greenlet, or inside the body of a query, an upgrade, the premium *)
(* check or a migration.                                                   *)
(*                                                                         *)
(* A login opens a new DBHandler; DBHandlers are numbered 1, 2, ... in the *)
(* order they are opened and 0 stands for None.  A TaskManager goes by the *)
(* id of the login task that creates it.                                   *)
(*                                                                         *)
(* The client may start, poll and cancel tasks and log in at any time, also *)
(* while a login or a logout is under way; it sends one logout at a time.  *)
(***************************************************************************)
EXTENDS Naturals, Sequences, FiniteSets, Functions

CONSTANTS
    Requests,       \* handler greenlets of the API server
    NoOne,          \* None: nobody holds a semaphore, there is no TaskManager
    MaxTasks,       \* bound: async tasks started (_new_task_id)
    MaxSessions,    \* bound: DBHandlers opened (data.unlock)
    MaxTasksNum     \* DEFAULT_MAX_TASKS_NUM

ASSUME SessionsAssumption ==
    /\ {MaxTasks, MaxSessions, MaxTasksNum} \subseteq Nat
    /\ NoOne \notin Requests \cup {"main"} \cup Nat
    /\ "main" \notin Requests

VARIABLES
    request,     \* [Requests -> what the handler greenlet is doing]
    task,        \* the async tasks, by task id (0 ..), dead ones included
    greenlets,   \* api_task_greenlets, a list of task ids
    results,     \* keys of task_results
    handlers,    \* tasks whose _handle_killed_greenlets is still to run
    taskLock,    \* holder of task_lock
    data,        \* DataHandler: db, logged_in, and whether username is set
    open,        \* DBHandlers whose connection is open
    opened,      \* number of DBHandlers opened so far
    session,     \* Rotkehlchen: user_is_logged_in and task_manager
    should,      \* TaskManagers whose should_schedule is True
    database,    \* DBHandler each TaskManager works on
    overlapped,  \* history: the last login to pass the check ran beside another
    scheduleLock,\* holder of each TaskManager's schedule_lock
    running,     \* live greenlets of the GreenletManager, up to MaxTasksNum
    main         \* the main loop

taskVars == <<task, greenlets, results, handlers, taskLock>>
userVars == <<data, open, opened, session, should, database, overlapped>>
backVars == <<scheduleLock, running, main>>
vars == <<request, taskVars, userVars, backVars>>

TaskIds == 0 .. MaxTasks - 1

\* list.pop(idx)
Pop(list, idx) == SubSeq(list, 1, idx - 1) \o SubSeq(list, idx + 1, Len(list))

Idle == [pc |-> "idle"]

\* A request that logs out, from user_logout to the end of Rotkehlchen.logout.
LoggingOut(r) == request[r].pc \in {"killall", "schedule_lock", "clear", "close"}

Alive(t) == task[t].pc # "dead"

\* Task t is between the check of user_is_logged_in and the end of unlock_user.
Unlocking(t) == task[t].pc \in {"upgrade", "premium", "migrate"}

Init ==
    /\ request = [r \in Requests |-> Idle]
    /\ task = [t \in {} |-> Idle]
    /\ greenlets = <<>>
    /\ results = {}
    /\ handlers = {}
    /\ taskLock = NoOne
    /\ data = [db |-> 0, loggedIn |-> FALSE, named |-> FALSE]
    /\ open = {}
    /\ opened = 0
    /\ session = [loggedIn |-> FALSE, manager |-> NoOne]
    /\ should = {}
    /\ database = [m \in TaskIds |-> 0]
    /\ overlapped = FALSE
    /\ scheduleLock = [m \in TaskIds |-> NoOne]
    /\ running = 0
    /\ main = [pc |-> "wait_event"]

-----------------------------------------------------------------------------
(* Asynchronous tasks: rest.py *)

\* An endpoint with async_query: require_loggedin_user for a query; then
\* _query_async waits for task_lock in _new_task_id.  A login waits for
\* login_lock before that and holds it until its greenlet is spawned, no longer:
\* it only puts the logins that wait here in some order.
QueryAsync(r, kind) ==
    /\ request[r].pc = "idle"
    /\ kind = "query" => session.loggedIn
    /\ Cardinality(DOMAIN task)
         + Cardinality({q \in Requests : request[q].pc = "new_id"}) < MaxTasks
    /\ request' = [request EXCEPT ![r] = [pc |-> "new_id", kind |-> kind]]
    /\ UNCHANGED <<taskVars, userVars, backVars>>

\* _new_task_id and the rest of _query_async: the greenlet is spawned.
NewTask(r) ==
    /\ request[r].pc = "new_id"
    /\ taskLock = NoOne
    /\ LET id == Cardinality(DOMAIN task)
       IN  /\ task' = [t \in DOMAIN task \cup {id} |->
                         IF t = id
                         THEN [kind |-> request[r].kind, pc |-> "start", thrown |-> {}]
                         ELSE task[t]]
           /\ greenlets' = Append(greenlets, id)
    /\ request' = [request EXCEPT ![r] = Idle]
    /\ UNCHANGED <<results, handlers, taskLock, userVars, backVars>>

\* mutant of QueryTasksOutcome: the outcome is taken without task_lock
QueryTasksOutcomeUnlocked(idx) ==
    /\ idx \in DOMAIN greenlets
    /\ greenlets[idx] \in results
    /\ results' = results \ {greenlets[idx]}
    /\ greenlets' = Pop(greenlets, idx)
    /\ UNCHANGED <<request, task, handlers, taskLock, userVars, backVars>>

\* Polling a task whose result is there hands it out and forgets the task; any
\* other poll changes nothing.
QueryTasksOutcome(idx) ==
    /\ taskLock = NoOne
    /\ idx \in DOMAIN greenlets
    /\ greenlets[idx] \in results
    /\ results' = results \ {greenlets[idx]}
    /\ greenlets' = Pop(greenlets, idx)
    /\ UNCHANGED <<request, task, handlers, taskLock, userVars, backVars>>

\* mutant of DeleteAsyncTask: a dead greenlet is killed again
DeleteAsyncTaskDead(r, idx) ==
    /\ request[r].pc = "idle"
    /\ taskLock = NoOne
    /\ idx \in DOMAIN greenlets
    /\ task' = [task EXCEPT ![greenlets[idx]].thrown = @ \cup {"killed"}]
    /\ taskLock' = r
    /\ request' = [request EXCEPT
                     ![r] = [pc |-> "kill", task |-> greenlets[idx], idx |-> idx]]
    /\ UNCHANGED <<greenlets, results, handlers, userVars, backVars>>

\* delete_async_task up to the wait in greenlet.kill, which it does while it
\* holds task_lock.
DeleteAsyncTask(r, idx) ==
    /\ request[r].pc = "idle"
    /\ taskLock = NoOne
    /\ idx \in DOMAIN greenlets
    /\ Alive(greenlets[idx])
    /\ task' = [task EXCEPT ![greenlets[idx]].thrown = @ \cup {"killed"}]
    /\ taskLock' = r
    /\ request' = [request EXCEPT
                     ![r] = [pc |-> "kill", task |-> greenlets[idx], idx |-> idx]]
    /\ UNCHANGED <<greenlets, results, handlers, userVars, backVars>>

\* The killed greenlet is dead: the lock is released and the index popped.
TaskDeleted(r) ==
    /\ request[r].pc = "kill"
    /\ ~Alive(request[r].task)
    /\ taskLock' = NoOne
    /\ greenlets' = Pop(greenlets, request[r].idx)
    /\ request' = [request EXCEPT ![r] = Idle]
    /\ UNCHANGED <<task, results, handlers, userVars, backVars>>

\* _write_task_result at the end of _do_query_async.
WriteTaskResult(t) ==
    /\ task[t].pc = "write"
    /\ taskLock = NoOne
    /\ results' = results \cup {t}
    /\ task' = [task EXCEPT ![t].pc = "dead", ![t].thrown = {}]
    /\ UNCHANGED <<request, greenlets, handlers, taskLock, userVars, backVars>>

\* mutant of HandleKilledGreenlet: no result is written
HandleKilledGreenletSilently(t) ==
    /\ t \in handlers
    /\ taskLock = NoOne
    /\ handlers' = handlers \ {t}
    /\ UNCHANGED <<request, task, greenlets, results, taskLock, userVars, backVars>>

\* _handle_killed_greenlets, in a greenlet of its own: the empty message of a
\* cancelled task, or the error message of one that died.
HandleKilledGreenlet(t) ==
    /\ t \in handlers
    /\ taskLock = NoOne
    /\ handlers' = handlers \ {t}
    /\ results' = results \cup {t}
    /\ UNCHANGED <<request, task, greenlets, taskLock, userVars, backVars>>

\* Task t ends with an exception.  link_exception starts the handler unless the
\* exception is a GreenletExit, which gevent takes for a normal end.
Dies(t, isExit) ==
    /\ task' = [task EXCEPT ![t].pc = "dead", ![t].thrown = {}]
    /\ handlers' = IF isExit THEN handlers ELSE handlers \cup {t}

\* The body of a query returns.  query_balances also lets the scheduler start.
QueryReturns(t) ==
    /\ task[t].kind = "query" /\ task[t].pc = "run"
    /\ task' = [task EXCEPT ![t].pc = "write"]
    /\ \/ should' = should
       \/ session.manager # NoOne /\ should' = should \cup {session.manager}
    /\ UNCHANGED <<request, greenlets, results, handlers, taskLock,
                   data, open, opened, session, database, overlapped, backVars>>

\* The body of a query raises, for example because its user has logged out.
QueryRaises(t) ==
    /\ task[t].kind = "query" /\ task[t].pc = "run"
    /\ Dies(t, FALSE)
    /\ UNCHANGED <<request, greenlets, results, taskLock, userVars, backVars>>

-----------------------------------------------------------------------------
(* Login: user_login or create_new_user in an async task, then unlock_user *)

\* data.logout(): the current DBHandler is closed, if there is one.
DataLogout ==
    IF data.loggedIn
    THEN /\ open' = open \ {data.db}
         /\ data' = [data EXCEPT !.loggedIn = FALSE, !.named = FALSE]
    ELSE UNCHANGED <<open, data>>

\* spawn_and_track, n times.  Greenlets are counted up to MaxTasksNum: with that
\* many _schedule has no free place, and more make no difference to it.
SpawnAndTrack(n) ==
    running' = IF running + n <= MaxTasksNum THEN running + n ELSE MaxTasksNum

\* mutant of TaskStarts: a login does not look whether a user is logged in
TaskStartsUnchecked(t) ==
    /\ task[t].pc = "start"
    /\ task' = [task EXCEPT
                  ![t].pc = IF task[t].kind = "query" THEN "run" ELSE "upgrade"]
    /\ overlapped' = IF task[t].kind = "query" THEN overlapped
                     ELSE \E u \in DOMAIN task : Unlocking(u)
    /\ UNCHANGED <<request, greenlets, results, handlers, taskLock,
                   data, open, opened, session, should, database, backVars>>

\* The greenlet starts to run.  A login is refused when a user is logged in;
\* otherwise data.unlock connects to the DB and upgrades it, also while another
\* login is in unlock_user.
TaskStarts(t) ==
    /\ task[t].pc = "start"
    /\ task' = [task EXCEPT
                  ![t].pc = IF task[t].kind = "query" THEN "run"
                            ELSE IF session.loggedIn THEN "write" ELSE "upgrade"]
    /\ overlapped' = IF task[t].kind = "query" \/ session.loggedIn THEN overlapped
                     ELSE \E u \in DOMAIN task : Unlocking(u)
    /\ UNCHANGED <<request, greenlets, results, handlers, taskLock,
                   data, open, opened, session, should, database, backVars>>

\* data.unlock returns, the DB integrity check is spawned and
\* try_premium_at_start talks to the server.
Unlocked(t) ==
    /\ task[t].pc = "upgrade"
    /\ opened < MaxSessions
    /\ opened' = opened + 1
    /\ open' = open \cup {opened + 1}
    /\ data' = [db |-> opened + 1, loggedIn |-> TRUE, named |-> TRUE]
    /\ SpawnAndTrack(1)
    /\ task' = [task EXCEPT ![t].pc = "premium"]
    /\ UNCHANGED <<request, greenlets, results, handlers, taskLock,
                   session, should, database, overlapped, scheduleLock, main>>

\* A wrong password, a failed upgrade or a permission that must be asked for:
\* reset_after_failed_account_creation_or_login, and an answer for the client.
LoginFails(t) ==
    /\ task[t].pc \in {"upgrade", "premium"}
    /\ DataLogout
    /\ task' = [task EXCEPT ![t].pc = "write"]
    /\ UNCHANGED <<request, greenlets, results, handlers, taskLock,
                   opened, session, should, database, overlapped, backVars>>

\* The rest of unlock_user up to the new TaskManager, which works on the DB that
\* the DataHandler has now; usage analytics are spawned and the data migrations
\* start.
TaskManagerCreated(t) ==
    /\ task[t].pc = "premium"
    /\ data.db \in open
    /\ session' = [session EXCEPT !.manager = t]
    /\ database' = [database EXCEPT ![t] = data.db]
    /\ SpawnAndTrack(1)
    /\ task' = [task EXCEPT ![t].pc = "migrate"]
    /\ UNCHANGED <<request, greenlets, results, handlers, taskLock,
                   data, open, opened, should, overlapped, scheduleLock, main>>

\* The DB that the DataHandler has now was closed by another login that failed:
\* its conn is None, and unlock_user or the migrations raise.
LoginRaises(t) ==
    /\ task[t].pc \in {"premium", "migrate"}
    /\ data.db \notin open
    /\ Dies(t, FALSE)
    /\ UNCHANGED <<request, greenlets, results, taskLock, userVars, backVars>>

\* The migrations are over: the icons query and the data updates are spawned
\* and the user is logged in.  user_login then reads the settings from the DB,
\* which raises if another login has closed it.
LoggedIn(t) ==
    /\ task[t].pc = "migrate"
    /\ SpawnAndTrack(2)
    /\ session' = [session EXCEPT !.loggedIn = TRUE]
    /\ \/ data.db \in open /\ task' = [task EXCEPT ![t].pc = "write"] /\ UNCHANGED handlers
       \/ data.db \notin open /\ Dies(t, FALSE)
    /\ UNCHANGED <<request, greenlets, results, taskLock,
                   data, open, opened, should, database, overlapped, scheduleLock, main>>

\* A thrown exception ends the task at the wait it is in.
ThrownEnds(t, error) ==
    /\ error \in task[t].thrown
    /\ Dies(t, error = "exit")
    /\ UNCHANGED <<request, greenlets, results, taskLock, userVars, backVars>>

\* DBUpgradeManager catches every exception of an upgrade function and raises
\* a DBUpgradeError, with which the login fails and answers.
ThrownInUpgrade(t, error) ==
    /\ error \in task[t].thrown
    /\ task[t].pc = "upgrade"
    /\ DataLogout
    /\ task' = [task EXCEPT ![t].pc = "write", ![t].thrown = @ \ {error}]
    /\ UNCHANGED <<request, greenlets, results, handlers, taskLock,
                   opened, session, should, database, overlapped, backVars>>

\* DataMigrationManager catches every exception of a migration; the login goes on.
ThrownInMigration(t, error) ==
    /\ error \in task[t].thrown
    /\ task[t].pc = "migrate"
    /\ task' = [task EXCEPT ![t].thrown = @ \ {error}]
    /\ UNCHANGED <<request, greenlets, results, handlers, taskLock, userVars, backVars>>

-----------------------------------------------------------------------------
(* Logout *)

\* user_logout: GreenletExit is thrown into every task of the list.
UserLogout(r) ==
    /\ request[r].pc = "idle"
    /\ \A q \in Requests : ~LoggingOut(q)
    /\ session.loggedIn /\ data.named
    /\ LET killed == {t \in Range(greenlets) : Alive(t)}
       IN  /\ task' = [t \in DOMAIN task |->
                         IF t \in killed
                         THEN [task[t] EXCEPT !.thrown = @ \cup {"exit"}]
                         ELSE task[t]]
           /\ request' = [request EXCEPT ![r] = [pc |-> "killall", killed |-> killed]]
    /\ UNCHANGED <<greenlets, results, handlers, taskLock, userVars, backVars>>

\* All of them are dead: the results are forgotten, and Rotkehlchen.logout
\* goes for the schedule_lock of the TaskManager it finds.
TasksKilled(r) ==
    /\ request[r].pc = "killall"
    /\ \A t \in request[r].killed : ~Alive(t)
    /\ taskLock = NoOne
    /\ results' = {}
    /\ request' = [request EXCEPT
                     ![r] = IF session.manager = NoOne THEN Idle
                            ELSE [pc |-> "schedule_lock", manager |-> session.manager]]
    /\ UNCHANGED <<task, greenlets, handlers, taskLock, userVars, backVars>>

\* mutant of LogoutLocked: logout does not wait for schedule_lock
LogoutUnlocked(r) ==
    /\ request[r].pc = "schedule_lock"
    /\ request' = [request EXCEPT ![r] = IF session.loggedIn
                                         THEN [pc |-> "clear", manager |-> @.manager] ELSE Idle]
    /\ UNCHANGED <<taskVars, userVars, backVars>>

\* schedule_lock is acquired; _logout has nothing to do if no user is logged in.
LogoutLocked(r) ==
    /\ request[r].pc = "schedule_lock"
    /\ scheduleLock[request[r].manager] = NoOne
    /\ IF session.loggedIn
       THEN /\ request' = [request EXCEPT
                              ![r] = [pc |-> "clear", manager |-> @.manager]]
            /\ scheduleLock' = [scheduleLock EXCEPT ![request[r].manager] = r]
       ELSE /\ request' = [request EXCEPT ![r] = Idle]
            /\ UNCHANGED scheduleLock
    /\ UNCHANGED <<taskVars, userVars, running, main>>

\* GreenletManager.clear has killed the background greenlets and waited for
\* them; data.logout forgets the user's name and reads the DB.
GreenletsCleared(r) ==
    /\ request[r].pc = "clear"
    /\ running' = 0
    /\ data' = [data EXCEPT !.named = FALSE]
    /\ request' = [request EXCEPT ![r] = [pc |-> "close", manager |-> @.manager]]
    /\ UNCHANGED <<taskVars, open, opened, session, should, database, overlapped,
                   scheduleLock, main>>

\* The DB is closed, and the TaskManager and the user are gone.
LoggedOut(r) ==
    /\ request[r].pc = "close"
    /\ DataLogout
    /\ session' = [loggedIn |-> FALSE, manager |-> NoOne]
    /\ scheduleLock' = [scheduleLock EXCEPT ![request[r].manager] = NoOne]
    /\ request' = [request EXCEPT ![r] = Idle]
    /\ UNCHANGED <<taskVars, opened, should, database, overlapped, running, main>>

-----------------------------------------------------------------------------
(* The main loop and the background greenlets *)

\* main_loop calls schedule() of the TaskManager it finds, which goes for its
\* schedule_lock once should_schedule is set.
MainLoop ==
    /\ main.pc = "wait_event"
    /\ session.manager \in should
    /\ main' = [pc |-> "schedule_lock", manager |-> session.manager]
    /\ UNCHANGED <<request, taskVars, userVars, scheduleLock, running>>

ScheduleLocked ==
    /\ main.pc = "schedule_lock"
    /\ scheduleLock[main.manager] = NoOne
    /\ scheduleLock' = [scheduleLock EXCEPT ![main.manager] = "main"]
    /\ main' = [pc |-> "schedule", manager |-> main.manager]
    /\ UNCHANGED <<request, taskVars, userVars, running>>

\* Free places for background tasks, once clear_finished has dropped the dead.
FreePlaces == IF running + Len(greenlets) >= MaxTasksNum
              THEN 0 ELSE MaxTasksNum - running - Len(greenlets)

\* mutant of Schedule: schedule_lock is kept when there is too much to do
ScheduleKeepsLock ==
    /\ main.pc = "schedule"
    /\ \E spawned \in 0 .. FreePlaces : running' = running + spawned
    /\ main' = [pc |-> "wait_event"]
    /\ scheduleLock' = IF FreePlaces = 0 THEN scheduleLock
                       ELSE [scheduleLock EXCEPT ![main.manager] = NoOne]
    /\ UNCHANGED <<request, taskVars, userVars>>

\* _schedule spawns at most as many tasks as there are free places.  If the DB
\* of the TaskManager is closed (its conn is None), the first scheduling
\* function that reads it raises and ends the main loop; only the cryptocompare
\* query can be spawned without a read.
Schedule ==
    /\ main.pc = "schedule"
    /\ \E spawned \in 0 .. FreePlaces :
          /\ database[main.manager] \notin open => spawned <= 1
          /\ running' = running + spawned
          /\ main' = IF database[main.manager] \in open \/ spawned = FreePlaces
                     THEN [pc |-> "wait_event"] ELSE [pc |-> "dead"]
    /\ scheduleLock' = [scheduleLock EXCEPT ![main.manager] = NoOne]
    /\ UNCHANGED <<request, taskVars, userVars>>

\* A background greenlet returns or raises.
GreenletEnds ==
    /\ running > 0
    /\ running' = running - 1
    /\ UNCHANGED <<request, taskVars, userVars, scheduleLock, main>>

-----------------------------------------------------------------------------

\* A handler greenlet goes on after a wait.
RequestStep(r) ==
    \/ NewTask(r)
    \/ TaskDeleted(r)
    \/ TasksKilled(r)
    \/ LogoutLocked(r)
    \/ GreenletsCleared(r)
    \/ LoggedOut(r)

\* The body of a task makes progress.
TaskStep(t) ==
    \/ TaskStarts(t)
    \/ QueryReturns(t)
    \/ QueryRaises(t)
    \/ Unlocked(t)
    \/ LoginFails(t)
    \/ TaskManagerCreated(t)
    \/ LoginRaises(t)
    \/ LoggedIn(t)
    \/ WriteTaskResult(t)

\* gevent throws an exception of kill or killall into the task.
Thrown(t) ==
    \E error \in {"exit", "killed"} :
        \/ ThrownEnds(t, error)
        \/ ThrownInUpgrade(t, error)
        \/ ThrownInMigration(t, error)

MainStep == MainLoop \/ ScheduleLocked \/ Schedule

Next ==
    \/ \E r \in Requests :
          \/ \E kind \in {"query", "login"} : QueryAsync(r, kind)
          \/ \E idx \in 1 .. MaxTasks : DeleteAsyncTask(r, idx)
          \/ UserLogout(r)
          \/ RequestStep(r)
    \/ \E t \in DOMAIN task :
          \/ TaskStep(t)
          \/ Thrown(t)
          \/ HandleKilledGreenlet(t)
    \/ \E idx \in 1 .. MaxTasks : QueryTasksOutcome(idx)
    \/ MainStep
    \/ GreenletEnds

Spec == Init /\ [][Next]_vars

\* gevent resumes every greenlet that can run and hands a semaphore to those
\* that wait for it in their order; the bodies of tasks end.
FairSpec ==
    /\ Spec
    /\ \A r \in Requests : SF_vars(RequestStep(r))
    /\ \A t \in TaskIds :
          /\ SF_vars(t \in DOMAIN task /\ TaskStep(t))
          /\ WF_vars(t \in DOMAIN task /\ Thrown(t))
          /\ SF_vars(HandleKilledGreenlet(t))
    /\ SF_vars(MainStep)

-----------------------------------------------------------------------------
(* Properties *)

Request ==
    {Idle}
      \cup [pc : {"new_id"}, kind : {"query", "login"}]
      \cup [pc : {"kill"}, task : TaskIds, idx : 1 .. MaxTasks]
      \cup [pc : {"killall"}, killed : SUBSET TaskIds]
      \cup [pc : {"schedule_lock", "clear", "close"}, manager : TaskIds]

Task == [kind : {"query", "login"},
         pc : {"start", "run", "upgrade", "premium", "migrate", "write", "dead"},
         thrown : SUBSET {"exit", "killed"}]

\* Every variable has its type; only live tasks have exceptions thrown at them,
\* and a task whose handler is still to run is dead.
TypeOK ==
    /\ request \in [Requests -> Request]
    /\ DOMAIN task \subseteq TaskIds
    /\ \A t \in DOMAIN task : task[t] \in Task
    /\ \A t \in DOMAIN task : task[t].thrown # {} => Alive(t)
    /\ IsInjective(greenlets) /\ Range(greenlets) \subseteq DOMAIN task
    /\ results \cup handlers \subseteq {t \in DOMAIN task : ~Alive(t)}
    /\ taskLock \in Requests \cup {NoOne}
    /\ data \in [db : 0 .. opened, loggedIn : BOOLEAN, named : BOOLEAN]
    /\ open \subseteq 1 .. opened
    /\ opened \in 0 .. MaxSessions
    /\ session \in [loggedIn : BOOLEAN, manager : TaskIds \cup {NoOne}]
    /\ should \subseteq TaskIds
    /\ database \in [TaskIds -> 0 .. opened]
    /\ overlapped \in BOOLEAN
    /\ scheduleLock \in [TaskIds -> Requests \cup {NoOne, "main"}]
    /\ running \in 0 .. MaxTasksNum
    /\ main \in [pc : {"wait_event", "dead"}]
                \cup [pc : {"schedule_lock", "schedule"}, manager : TaskIds]

\* delete_async_task finds the index of the task, waits for the greenlet's
\* death and then pops the index: the task it pops is the one it cancelled,
\* whatever the other requests did to the list meanwhile (rest.py:546).
CancelledIsPopped ==
    \A r \in Requests :
        request[r].pc = "kill" =>
            /\ request[r].idx \in DOMAIN greenlets
            /\ greenlets[request[r].idx] = request[r].task

\* While a user is logged in, the DB of the DataHandler is open and the task
\* manager works on it, however the logins before were refused, cancelled or
\* failed (user_login, unlock_user, reset_after_failed_account_creation_or_login),
\* unless the login ran beside another one.  login_lock says that it avoids this
\* race between async logins (rest.py:358); it is released when the greenlet is
\* spawned (rest.py:363, 435), so both pass the check of user_is_logged_in, and
\* the one that fails closes the DB of the other, whose user stays logged in.
LoggedInIsOpen ==
    session.loggedIn /\ ~overlapped =>
        /\ data.loggedIn
        /\ data.db \in open
        /\ session.manager # NoOne
        /\ database[session.manager] = data.db

\* A task manager schedules nothing while the logout of its user kills the
\* background greenlets and closes the DB (schedule_lock in TaskManager.schedule
\* and in logout).
ScheduleExcludesLogout ==
    main.pc = "schedule" =>
        \A r \in Requests :
            request[r].pc \in {"clear", "close"} => request[r].manager # main.manager

\* A cancelled login that swallowed the exception waits for task_lock, which
\* the request that cancelled it holds until the login is dead.  So does, for a
\* moment, a task that was about to write its result when it was cancelled.
CancelIsStuck ==
    \E r \in Requests : request[r].pc = "kill" /\ task[request[r].task].pc = "write"

\* Every request gets its answer: none waits for ever on task_lock, on
\* schedule_lock or for a killed greenlet, unless a cancelled login is stuck.
RequestsAreAnswered ==
    \A r \in Requests :
        (request[r].pc # "idle") ~> (request[r].pc = "idle" \/ CancelIsStuck)

\* Every task that runs gets an outcome for the client to poll or is removed
\* from the list, also if it dies; only a logout (or a stuck cancellation)
\* leaves a task without an outcome.
TasksGetOutcomes ==
    \A t \in TaskIds :
        (t \in DOMAIN task /\ Alive(t) /\ t \in Range(greenlets))
            ~> (\/ t \in results
                \/ t \notin Range(greenlets)
                \/ \E r \in Requests : LoggingOut(r)
                \/ CancelIsStuck)
=============================================================================
