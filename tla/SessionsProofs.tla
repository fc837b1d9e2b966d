--------------------------- MODULE SessionsProofs ---------------------------
(***************************************************************************)
(* Proofs of CancelledIsPopped, ScheduleExcludesLogout, LoggedInIsOpen and *)
(* TypeOK of Sessions for any number of requests, tasks and logins.        *)
(*                                                                         *)
(* The inductive invariant has six parts: the types (TypeInv); that tasks  *)
(* have ids of their own (CountInv); that a cancelling request holds       *)
(* task_lock (LockInv); that who schedules or clears holds the             *)
(* schedule_lock of the task manager (ScheduleInv); that one request at a  *)
(* time logs out, and clears and closes only under a user who is logged in *)
(* (LogoutInv); and what is open at each point of unlock_user, of a login  *)
(* that ran beside no other (UserInv).  The types need ListInv and DeadInv *)
(* besides.                                                                *)
(***************************************************************************)
EXTENDS Sessions, FiniteSetTheorems, TLAPS

TypeInv ==
    /\ DOMAIN request = Requests
    /\ \A r \in Requests : request[r].pc = "new_id" => request[r].kind \in {"query", "login"}
    /\ IsFiniteSet(DOMAIN task)
    /\ \A t \in DOMAIN task : task[t] \in Task
    /\ greenlets \in Seq(Nat)
    /\ data \in [db : 0 .. MaxSessions, loggedIn : BOOLEAN, named : BOOLEAN]
    /\ opened \in 0 .. MaxSessions
    /\ session \in [loggedIn : BOOLEAN, manager : TaskIds \cup {NoOne}]
    /\ should \subseteq TaskIds
    /\ DOMAIN database = TaskIds
    /\ DOMAIN scheduleLock = TaskIds

LockInv ==
    \A r \in Requests :
        request[r].pc = "kill" =>
            /\ taskLock = r
            /\ request[r].idx \in 1 .. Len(greenlets)
            /\ greenlets[request[r].idx] = request[r].task

ScheduleInv ==
    /\ \A r \in Requests :
         request[r].pc \in {"schedule_lock", "clear", "close"} => request[r].manager \in TaskIds
    /\ \A r \in Requests :
         request[r].pc \in {"clear", "close"} => scheduleLock[request[r].manager] = r
    /\ main.pc \in {"schedule_lock", "schedule"} => main.manager \in TaskIds
    /\ main.pc = "schedule" => scheduleLock[main.manager] = "main"

\* Where task t is in unlock_user tells what is open.
UnlockInv(t) ==
    /\ Unlocking(t) => ~session.loggedIn
    /\ task[t].pc \in {"premium", "migrate"} => data.loggedIn /\ data.db \in open
    /\ task[t].pc = "migrate" => session.manager = t /\ database[t] = data.db

UserOpen ==
    /\ data.loggedIn /\ data.db \in open
    /\ session.manager # NoOne /\ database[session.manager] = data.db

\* What holds as long as a login runs beside no other one.
Orderly ==
    /\ \A t, u \in DOMAIN task : Unlocking(t) /\ Unlocking(u) => t = u
    /\ session.loggedIn => UserOpen
    /\ \A t \in DOMAIN task : UnlockInv(t)

UserInv == ~overlapped => Orderly

LogoutInv ==
    /\ \A r \in Requests : request[r].pc \in {"clear", "close"} => session.loggedIn
    /\ \A r, q \in Requests : LoggingOut(r) /\ LoggingOut(q) => r = q

\* requests that wait for task_lock in _new_task_id
Waiting == {q \in Requests : request[q].pc = "new_id"}

\* Task ids are given in order, and those who wait for one will get one.
CountInv ==
    /\ DOMAIN task = 0 .. Cardinality(DOMAIN task) - 1
    /\ IsFiniteSet(Waiting)
    /\ Cardinality(DOMAIN task) + Cardinality(Waiting) <= MaxTasks

\* All task ids are in their bound.
LEMMA IdsBounded ==
    ASSUME TypeInv, CountInv
    PROVE  DOMAIN task \subseteq TaskIds /\ NoOne \notin TaskIds
  <1>1. Cardinality(DOMAIN task) \in Nat /\ Cardinality(Waiting) \in Nat /\ MaxTasks \in Nat
    BY Zenon, FS_CardinalityType, SessionsAssumption DEF TypeInv, CountInv
  <1>. QED
    BY <1>1, SessionsAssumption DEF CountInv, TaskIds

\* Popping an index leaves a list of the same elements' type.
LEMMA PopType ==
    ASSUME NEW S, NEW s \in Seq(S), NEW i \in DOMAIN s
    PROVE  Pop(s, i) \in Seq(S)
  BY DEF Pop

TaskPcs == {"start", "run", "upgrade", "premium", "migrate", "write", "dead"}

\* Task u of g is what task u of f was, but for its pc and what is thrown at it.
Changed(f, g, t, pc, thrown) ==
    /\ DOMAIN g = DOMAIN f
    /\ \A u \in DOMAIN f : u # t => g[u] = f[u]
    /\ g[t].kind = f[t].kind /\ g[t].pc = pc /\ g[t].thrown = thrown
    /\ \A u \in DOMAIN g : g[u] \in Task

\* The three ways a step changes a task.
LEMMA TaskChange ==
    ASSUME NEW f, \A u \in DOMAIN f : f[u] \in Task, NEW t \in DOMAIN f,
           NEW pc \in TaskPcs, NEW thrown \in SUBSET {"exit", "killed"}
    PROVE  /\ Changed(f, [f EXCEPT ![t].pc = pc, ![t].thrown = thrown], t, pc, thrown)
           /\ Changed(f, [f EXCEPT ![t].pc = pc], t, pc, f[t].thrown)
           /\ Changed(f, [f EXCEPT ![t].thrown = thrown], t, f[t].pc, thrown)
  <1>1. f[t] \in Task
    BY Zenon
  <1>2. DEFINE a == [f[t] EXCEPT !.pc = pc]
               b == [a EXCEPT !.thrown = thrown]
               c == [f[t] EXCEPT !.thrown = thrown]
  <1>3. /\ a \in Task /\ a.kind = f[t].kind /\ a.pc = pc /\ a.thrown = f[t].thrown
        /\ b \in Task /\ b.kind = f[t].kind /\ b.pc = pc /\ b.thrown = thrown
        /\ c \in Task /\ c.kind = f[t].kind /\ c.pc = f[t].pc /\ c.thrown = thrown
    BY <1>1, Zenon DEF Task, TaskPcs
  <1>4. /\ [f EXCEPT ![t].pc = pc] = [f EXCEPT ![t] = a]
        /\ [f EXCEPT ![t].thrown = thrown] = [f EXCEPT ![t] = c]
        /\ [f EXCEPT ![t].pc = pc, ![t].thrown = thrown] = [f EXCEPT ![t] = b]
    BY <1>1, Zenon DEF Task
  <1>. HIDE DEF a, b, c
  <1>. QED
    BY <1>3, <1>4 DEF Changed

\* What every step of a task does to it.
LEMMA TaskEffects ==
    ASSUME TypeInv, NEW t \in DOMAIN task
    PROVE  /\ WriteTaskResult(t) \/ QueryRaises(t) \/ LoginRaises(t) =>
                Changed(task, task', t, "dead", {})
           /\ TaskStarts(t) =>
                \E pc \in {"run", "write", "upgrade"} :
                    /\ Changed(task, task', t, pc, task[t].thrown)
                    /\ IF pc = "upgrade"
                       THEN /\ ~session.loggedIn
                            /\ overlapped' = \E u \in DOMAIN task : Unlocking(u)
                       ELSE overlapped' = overlapped
           /\ Unlocked(t) => Changed(task, task', t, "premium", task[t].thrown)
           /\ TaskManagerCreated(t) => Changed(task, task', t, "migrate", task[t].thrown)
           /\ QueryReturns(t) \/ LoginFails(t) =>
                Changed(task, task', t, "write", task[t].thrown)
           /\ LoggedIn(t) => \/ Changed(task, task', t, "write", task[t].thrown)
                             \/ Changed(task, task', t, "dead", {})
           /\ \A error :
                /\ ThrownEnds(t, error) => Changed(task, task', t, "dead", {})
                /\ ThrownInUpgrade(t, error) =>
                     Changed(task, task', t, "write", task[t].thrown \ {error})
                /\ ThrownInMigration(t, error) =>
                     Changed(task, task', t, "migrate", task[t].thrown \ {error})
  <1>. DEFINE pc1 == IF task[t].kind = "query" THEN "run"
                     ELSE IF session.loggedIn THEN "write" ELSE "upgrade"
  <1>1. /\ \A u \in DOMAIN task : task[u] \in Task
        /\ task[t].thrown \in SUBSET {"exit", "killed"}
        /\ task[t].kind \in {"query", "login"}
        /\ task[t].pc \in TaskPcs
    BY Zenon DEF TypeInv, Task, TaskPcs
  <1>2. {"run", "write", "upgrade", "premium", "migrate", "dead"} \subseteq TaskPcs
    BY Zenon DEF TaskPcs
  <1>3. ASSUME NEW pc \in TaskPcs, NEW thrown \in SUBSET {"exit", "killed"}
        PROVE
           /\ Changed(task, [task EXCEPT ![t].pc = pc, ![t].thrown = thrown], t, pc, thrown)
           /\ Changed(task, [task EXCEPT ![t].pc = pc], t, pc, task[t].thrown)
           /\ Changed(task, [task EXCEPT ![t].thrown = thrown], t, task[t].pc, thrown)
    BY <1>1, TaskChange, Zenon
  <1>. DEFINE Set(pc, thrown) == [task EXCEPT ![t].pc = pc, ![t].thrown = thrown]
  <1>11. Changed(task, Set("dead", {}), t, "dead", {})
    <2>1. "dead" \in TaskPcs /\ {} \in SUBSET {"exit", "killed"}
      BY Zenon, <1>2
    <2>. QED
      BY <2>1, <1>3, Zenon
  <1>4. WriteTaskResult(t) \/ QueryRaises(t) \/ LoginRaises(t) =>
          Changed(task, task', t, "dead", {})
    <2>1. WriteTaskResult(t) => task' = Set("dead", {})
      BY Zenon DEF WriteTaskResult
    <2>2. QueryRaises(t) \/ LoginRaises(t) => task' = Set("dead", {})
      BY Zenon DEF QueryRaises, LoginRaises, Dies
    <2>. HIDE DEF Set
    <2>. QED
      BY Zenon, <2>1, <2>2, <1>11
  <1>. DEFINE SetPc(pc) == [task EXCEPT ![t].pc = pc]
  <1>12. \A pc \in TaskPcs : Changed(task, SetPc(pc), t, pc, task[t].thrown)
    BY <1>1, <1>3, Zenon
  <1>13. /\ TaskStarts(t) => task' = SetPc(pc1)
         /\ Unlocked(t) => task' = SetPc("premium")
         /\ TaskManagerCreated(t) => task' = SetPc("migrate")
         /\ QueryReturns(t) => task' = SetPc("write")
         /\ LoginFails(t) => task' = SetPc("write")
    BY Zenon DEF TaskStarts, Unlocked, TaskManagerCreated, QueryReturns, LoginFails
  <1>14. LoggedIn(t) => task' = SetPc("write") \/ task' = Set("dead", {})
    BY Zenon DEF LoggedIn, Dies
  <1>. HIDE DEF SetPc
  <1>5. TaskStarts(t) => Changed(task, task', t, pc1, task[t].thrown)
    BY Zenon, <1>2, <1>12, <1>13
  <1>6. /\ pc1 \in {"run", "write", "upgrade"}
        /\ pc1 = "upgrade" <=> ~(task[t].kind = "query" \/ session.loggedIn)
    BY Zenon, <1>1
  <1>15. ASSUME TaskStarts(t)
         PROVE  IF pc1 = "upgrade"
                THEN ~session.loggedIn /\ overlapped' = \E u \in DOMAIN task : Unlocking(u)
                ELSE overlapped' = overlapped
    <2>. HIDE DEF pc1
    <2>. QED
      BY Zenon, <1>6, <1>15 DEF TaskStarts
  <1>7. Unlocked(t) => Changed(task, task', t, "premium", task[t].thrown)
    BY Zenon, <1>2, <1>12, <1>13
  <1>8. TaskManagerCreated(t) => Changed(task, task', t, "migrate", task[t].thrown)
    BY Zenon, <1>2, <1>12, <1>13
  <1>9. /\ QueryReturns(t) \/ LoginFails(t) => Changed(task, task', t, "write", task[t].thrown)
        /\ LoggedIn(t) => \/ Changed(task, task', t, "write", task[t].thrown)
                          \/ Changed(task, task', t, "dead", {})
    <2>. HIDE DEF Set
    <2>. QED
      BY Zenon, <1>2, <1>11, <1>12, <1>13, <1>14
  <1>10. ASSUME NEW error
         PROVE  /\ ThrownEnds(t, error) => Changed(task, task', t, "dead", {})
                /\ ThrownInUpgrade(t, error) =>
                     Changed(task, task', t, "write", task[t].thrown \ {error})
                /\ ThrownInMigration(t, error) =>
                     Changed(task, task', t, "migrate", task[t].thrown \ {error})
    <2>1. ThrownEnds(t, error) => Changed(task, task', t, "dead", {})
      <3>1. ThrownEnds(t, error) => task' = Set("dead", {})
        BY Zenon DEF ThrownEnds, Dies
      <3>. HIDE DEF Set
      <3>. QED
        BY Zenon, <3>1, <1>11
    <2>2. task[t].thrown \ {error} \in SUBSET {"exit", "killed"}
      BY Zenon, <1>1
    <2>3. ThrownInUpgrade(t, error) =>
            Changed(task, task', t, "write", task[t].thrown \ {error})
      <3>1. Changed(task, Set("write", task[t].thrown \ {error}), t, "write",
                    task[t].thrown \ {error})
        BY <1>2, <1>3, <2>2, Zenon
      <3>2. ThrownInUpgrade(t, error) => task' = Set("write", task[t].thrown \ {error})
        BY Zenon, <1>1 DEF ThrownInUpgrade, Task
      <3>. HIDE DEF Set
      <3>. QED
        BY Zenon, <3>1, <3>2
    <2>4. ThrownInMigration(t, error) =>
            Changed(task, task', t, "migrate", task[t].thrown \ {error})
      <3>1. Changed(task, [task EXCEPT ![t].thrown = task[t].thrown \ {error}], t, task[t].pc,
                    task[t].thrown \ {error})
        BY <1>1, <1>3, <2>2, Zenon
      <3>. QED
        BY <3>1, Zenon DEF ThrownInMigration
    <2>. QED
      BY Zenon, <2>1, <2>3, <2>4
  <1>. HIDE DEF pc1
  <1>. QED
    BY Zenon, <1>4, <1>5, <1>6, <1>7, <1>8, <1>9, <1>10, <1>15

SameTasks == DOMAIN task' = DOMAIN task /\ \A u \in DOMAIN task' : task'[u] \in Task

\* No step of a task or of gevent into a task makes or removes one.
LEMMA TasksKept ==
    ASSUME TypeInv, NEW t \in DOMAIN task, TaskStep(t) \/ Thrown(t)
    PROVE  SameTasks
  <1>1. ASSUME NEW pc, NEW thrown, Changed(task, task', t, pc, thrown)
        PROVE  SameTasks
    BY Zenon, <1>1 DEF Changed, SameTasks
  <1>2. TaskStep(t) => \E pc, thrown : Changed(task, task', t, pc, thrown)
    BY TaskEffects, Zenon DEF TaskStep
  <1>3. Thrown(t) => \E pc, thrown : Changed(task, task', t, pc, thrown)
    BY TaskEffects, Zenon DEF Thrown
  <1>. QED
    BY Zenon, <1>1, <1>2, <1>3

SamePcs == \A u \in DOMAIN task : task'[u].kind = task[u].kind /\ task'[u].pc = task[u].pc

\* A cancellation and a logout only throw exceptions into tasks.
LEMMA OnlyThrown ==
    ASSUME TypeInv, NEW r, UserLogout(r) \/ \E idx : DeleteAsyncTask(r, idx)
    PROVE  SameTasks /\ SamePcs
  <1>. USE DEF TypeInv
  <1>1. CASE UserLogout(r)
    <2>1. ASSUME NEW u \in DOMAIN task
          PROVE  LET new == [task[u] EXCEPT !.thrown = task[u].thrown \cup {"exit"}]
                 IN  new \in Task /\ new.kind = task[u].kind /\ new.pc = task[u].pc
      BY Zenon DEF Task
    <2>. QED
      BY <1>1, <2>1, Zenon DEF UserLogout, SameTasks, SamePcs
  <1>2. ASSUME NEW idx, DeleteAsyncTask(r, idx)
        PROVE  SameTasks /\ SamePcs
    <2>. DEFINE t == greenlets[idx]
                thrown == task[t].thrown \cup {"killed"}
    <2>1. CASE t \in DOMAIN task
      <3>1. thrown \in SUBSET {"exit", "killed"}
        BY Zenon, <2>1 DEF Task
      <3>2. task[t].pc \in TaskPcs
        BY Zenon, <2>1 DEF Task, TaskPcs
      <3>3. Changed(task, [task EXCEPT ![t].thrown = thrown], t, task[t].pc, thrown)
        BY <2>1, <3>1, <3>2, TaskChange, Zenon
      <3>. QED
        BY <1>2, <3>3, Zenon DEF DeleteAsyncTask, Changed, SameTasks, SamePcs
    <2>2. CASE t \notin DOMAIN task
      BY <1>2, <2>2 DEF DeleteAsyncTask, SameTasks, SamePcs
    <2>. QED
      BY Zenon, <2>1, <2>2
  <1>. QED
    BY Zenon, <1>1, <1>2

\* Every step keeps the types.
LEMMA TypeStep == TypeInv /\ CountInv /\ LockInv /\ Next => TypeInv'
  <1>. SUFFICES ASSUME TypeInv, CountInv, LockInv PROVE Next => TypeInv'
    BY Zenon
  <1>. USE DEF TypeInv, taskVars, userVars, backVars
  <1>1. ASSUME NEW r \in Requests, NEW kind \in {"query", "login"}, QueryAsync(r, kind)
        PROVE  TypeInv'
    BY Zenon, <1>1 DEF QueryAsync
  <1>2. ASSUME NEW r \in Requests, NewTask(r)
        PROVE  TypeInv'
    <2>1. Cardinality(DOMAIN task) \in Nat
      BY Zenon, FS_CardinalityType
    <2>2. IsFiniteSet(DOMAIN task')
      BY Zenon, <1>2, FS_AddElement DEF NewTask
    <2>3. greenlets' \in Seq(Nat)
      BY <1>2, <2>1 DEF NewTask
    <2>4. \A t \in DOMAIN task' : task'[t] \in Task
      BY Zenon, <1>2 DEF NewTask, Task
    <2>5. /\ DOMAIN request' = Requests
          /\ \A q \in Requests : request'[q].pc = "new_id" => request'[q].kind \in {"query", "login"}
      BY Zenon, <1>2 DEF NewTask, Idle
    <2>6. UNCHANGED <<data, opened, session, should, database, scheduleLock>>
      BY Zenon, <1>2 DEF NewTask
    <2>. QED
      BY Zenon, <2>2, <2>3, <2>4, <2>5, <2>6
  <1>3. ASSUME NEW idx, QueryTasksOutcome(idx) PROVE TypeInv'
    BY Zenon, <1>3, PopType DEF QueryTasksOutcome
  <1>4. ASSUME NEW r \in Requests, NEW idx, DeleteAsyncTask(r, idx) PROVE TypeInv'
    <2>1. SameTasks
      BY <1>4, OnlyThrown, Zenon DEF TypeInv
    <2>. QED
      BY <1>4, <2>1, Zenon DEF DeleteAsyncTask, SameTasks
  <1>5. ASSUME NEW r \in Requests, TaskDeleted(r) PROVE TypeInv'
    BY <1>5, PopType DEF TaskDeleted, LockInv, Idle
  <1>6. ASSUME NEW t \in DOMAIN task, WriteTaskResult(t) PROVE TypeInv'
    <2>1. SameTasks
      BY Zenon, <1>6, TasksKept DEF TaskStep
    <2>. QED
      BY Zenon, <1>6, <2>1 DEF SameTasks, WriteTaskResult
  <1>7. ASSUME NEW t, HandleKilledGreenlet(t) PROVE TypeInv'
    BY Zenon, <1>7 DEF HandleKilledGreenlet
  <1>8. ASSUME NEW t \in DOMAIN task, QueryReturns(t) PROVE TypeInv'
    <2>1. SameTasks
      BY Zenon, <1>8, TasksKept DEF TaskStep
    <2>. QED
      BY <1>8, <2>1, Zenon DEF SameTasks, QueryReturns
  <1>9. ASSUME NEW t \in DOMAIN task, QueryRaises(t) \/ LoginRaises(t) PROVE TypeInv'
    <2>1. SameTasks
      BY Zenon, <1>9, TasksKept DEF TaskStep
    <2>. QED
      BY Zenon, <1>9, <2>1 DEF SameTasks, QueryRaises, LoginRaises
  <1>10. ASSUME NEW t \in DOMAIN task, TaskStarts(t) PROVE TypeInv'
    <2>1. SameTasks
      BY Zenon, <1>10, TasksKept DEF TaskStep
    <2>. QED
      BY <1>10, <2>1, Zenon DEF SameTasks, TaskStarts
  <1>11. ASSUME NEW t \in DOMAIN task, Unlocked(t) PROVE TypeInv'
    <2>1. SameTasks
      BY Zenon, <1>11, TasksKept DEF TaskStep
    <2>2. opened + 1 \in 0 .. MaxSessions
      BY <1>11, SessionsAssumption DEF Unlocked
    <2>3. /\ data' \in [db : 0 .. MaxSessions, loggedIn : BOOLEAN, named : BOOLEAN]
          /\ opened' \in 0 .. MaxSessions
      BY Zenon, <1>11, <2>2 DEF Unlocked
    <2>4. UNCHANGED <<request, greenlets, session, should, database, scheduleLock>>
      BY Zenon, <1>11 DEF Unlocked
    <2>. QED
      BY Zenon, <2>1, <2>3, <2>4 DEF SameTasks
  <1>12. ASSUME NEW t \in DOMAIN task, LoginFails(t) PROVE TypeInv'
    <2>1. SameTasks
      BY Zenon, <1>12, TasksKept DEF TaskStep
    <2>. QED
      BY <1>12, <2>1, Zenon DEF SameTasks, LoginFails, DataLogout
  <1>13. ASSUME NEW t \in DOMAIN task, TaskManagerCreated(t) PROVE TypeInv'
    <2>1. SameTasks
      BY Zenon, <1>13, TasksKept DEF TaskStep
    <2>2. t \in TaskIds
      BY Zenon, IdsBounded DEF TypeInv
    <2>3. session' \in [loggedIn : BOOLEAN, manager : TaskIds \cup {NoOne}]
      BY Zenon, <1>13, <2>2 DEF TaskManagerCreated
    <2>. QED
      BY <1>13, <2>1, <2>3, Zenon DEF SameTasks, TaskManagerCreated
  <1>14. ASSUME NEW t \in DOMAIN task, LoggedIn(t) PROVE TypeInv'
    <2>1. SameTasks
      BY Zenon, <1>14, TasksKept DEF TaskStep
    <2>. QED
      BY <1>14, <2>1, Zenon DEF SameTasks, LoggedIn
  <1>15. ASSUME NEW t \in DOMAIN task, NEW error \in {"exit", "killed"},
               ThrownEnds(t, error) PROVE TypeInv'
    <2>1. SameTasks
      BY Zenon, <1>15, TasksKept DEF Thrown
    <2>. QED
      BY Zenon, <1>15, <2>1 DEF SameTasks, ThrownEnds
  <1>16. ASSUME NEW t \in DOMAIN task, NEW error \in {"exit", "killed"},
               ThrownInUpgrade(t, error) PROVE TypeInv'
    <2>1. SameTasks
      BY Zenon, <1>16, TasksKept DEF Thrown
    <2>. QED
      BY <1>16, <2>1, Zenon DEF SameTasks, ThrownInUpgrade, DataLogout
  <1>17. ASSUME NEW t \in DOMAIN task, NEW error \in {"exit", "killed"},
               ThrownInMigration(t, error) PROVE TypeInv'
    <2>1. SameTasks
      BY Zenon, <1>17, TasksKept DEF Thrown
    <2>. QED
      BY <1>17, <2>1, Zenon DEF SameTasks, ThrownInMigration
  <1>18. ASSUME NEW r \in Requests, UserLogout(r) PROVE TypeInv'
    <2>1. SameTasks
      BY Zenon, <1>18, OnlyThrown DEF TypeInv
    <2>. QED
      BY Zenon, <1>18, <2>1 DEF UserLogout, SameTasks
  <1>19. ASSUME NEW r \in Requests, TasksKilled(r) PROVE TypeInv'
    BY Zenon, <1>19 DEF TasksKilled, Idle
  <1>20. ASSUME NEW r \in Requests, LogoutLocked(r) PROVE TypeInv'
    BY <1>20 DEF LogoutLocked, Idle
  <1>21. ASSUME NEW r \in Requests, GreenletsCleared(r) PROVE TypeInv'
    BY <1>21, Zenon DEF GreenletsCleared
  <1>22. ASSUME NEW r \in Requests, LoggedOut(r) PROVE TypeInv'
    <2>1. data' \in [db : 0 .. MaxSessions, loggedIn : BOOLEAN, named : BOOLEAN]
      BY <1>22, Zenon DEF LoggedOut, DataLogout
    <2>2. session' \in [loggedIn : BOOLEAN, manager : TaskIds \cup {NoOne}]
      BY Zenon, <1>22 DEF LoggedOut
    <2>3. /\ DOMAIN request' = Requests
          /\ \A q \in Requests : request'[q].pc = "new_id" => request'[q].kind \in {"query", "login"}
          /\ DOMAIN scheduleLock' = TaskIds
      BY Zenon, <1>22 DEF LoggedOut, Idle
    <2>. QED
      BY Zenon, <1>22, <2>1, <2>2, <2>3 DEF LoggedOut
  <1>23. CASE MainLoop
    BY Zenon, <1>23 DEF MainLoop
  <1>24. CASE ScheduleLocked
    BY Zenon, <1>24 DEF ScheduleLocked
  <1>25. CASE Schedule
    BY Zenon, <1>25 DEF Schedule
  <1>26. CASE GreenletEnds
    BY Zenon, <1>26 DEF GreenletEnds
  <1>. HIDE DEF TypeInv, taskVars, userVars, backVars
  <1>27. ASSUME NEW t \in DOMAIN task, TaskStep(t) \/ Thrown(t) PROVE TypeInv'
    BY Zenon, <1>6, <1>8, <1>9, <1>10, <1>11, <1>12, <1>13, <1>14, <1>15, <1>16, <1>17, <1>27
    DEF TaskStep, Thrown
  <1>28. ASSUME NEW r \in Requests, RequestStep(r) PROVE TypeInv'
    BY Zenon, <1>2, <1>5, <1>19, <1>20, <1>21, <1>22, <1>28 DEF RequestStep
  <1>. QED
    BY <1>1, <1>3, <1>4, <1>7, <1>18, <1>23, <1>24, <1>25, <1>26, <1>27, <1>28, Zenon
    DEF Next, MainStep

\* Tasks, and what gevent throws into them, touch no request, list or lock.
LEMMA TaskFrame ==
    ASSUME NEW t, TaskStep(t) \/ Thrown(t) \/ HandleKilledGreenlet(t)
    PROVE  UNCHANGED <<request, greenlets, taskLock, scheduleLock, main>>
  <1>. USE DEF userVars, backVars
  <1>1. CASE HandleKilledGreenlet(t)
    BY Zenon, <1>1 DEF HandleKilledGreenlet
  <1>2. CASE TaskStarts(t) \/ QueryReturns(t) \/ QueryRaises(t) \/ WriteTaskResult(t)
    BY <1>2, Zenon DEF TaskStarts, QueryReturns, QueryRaises, WriteTaskResult
  <1>3. CASE \/ Unlocked(t) \/ LoginFails(t) \/ TaskManagerCreated(t)
             \/ LoginRaises(t) \/ LoggedIn(t)
    BY Zenon, <1>3 DEF Unlocked, LoginFails, TaskManagerCreated, LoginRaises, LoggedIn
  <1>4. CASE Thrown(t)
    BY Zenon, <1>4 DEF Thrown, ThrownEnds, ThrownInUpgrade, ThrownInMigration
  <1>. QED
    BY Zenon, <1>1, <1>2, <1>3, <1>4 DEF TaskStep

\* While a request waits for the greenlet it kills, it holds task_lock, so
\* nobody else changes the list it has indexed.
LEMMA LockStep == TypeInv /\ LockInv /\ Next => LockInv'
  <1>. SUFFICES ASSUME TypeInv, LockInv PROVE Next => LockInv'
    BY Zenon
  <1>. USE SessionsAssumption DEF LockInv, TypeInv, taskVars, userVars, backVars
  <1>1. ASSUME NEW r \in Requests, NEW kind \in {"query", "login"}, QueryAsync(r, kind)
        PROVE  LockInv'
    BY Zenon, <1>1 DEF QueryAsync
  <1>2. ASSUME NEW r \in Requests, NewTask(r) PROVE LockInv'
    BY Zenon, <1>2 DEF NewTask, Idle
  <1>3. ASSUME NEW idx, QueryTasksOutcome(idx) PROVE LockInv'
    BY Zenon, <1>3 DEF QueryTasksOutcome
  <1>4. ASSUME NEW r \in Requests, NEW idx, DeleteAsyncTask(r, idx) PROVE LockInv'
    BY <1>4 DEF DeleteAsyncTask
  <1>5. ASSUME NEW r \in Requests, TaskDeleted(r) PROVE LockInv'
    BY Zenon, <1>5 DEF TaskDeleted, Idle
  <1>6. ASSUME NEW r \in Requests, UserLogout(r) PROVE LockInv'
    BY Zenon, <1>6 DEF UserLogout
  <1>7. ASSUME NEW r \in Requests, TasksKilled(r) PROVE LockInv'
    BY Zenon, <1>7 DEF TasksKilled, Idle
  <1>8. ASSUME NEW r \in Requests, LogoutLocked(r) PROVE LockInv'
    BY <1>8 DEF LogoutLocked, Idle
  <1>9. ASSUME NEW r \in Requests, GreenletsCleared(r) PROVE LockInv'
    BY Zenon, <1>9 DEF GreenletsCleared
  <1>10. ASSUME NEW r \in Requests, LoggedOut(r) PROVE LockInv'
    BY Zenon, <1>10 DEF LoggedOut, Idle
  <1>11. ASSUME NEW t, TaskStep(t) \/ Thrown(t) \/ HandleKilledGreenlet(t) PROVE LockInv'
    BY <1>11, TaskFrame
  <1>12. CASE MainStep \/ GreenletEnds
    BY <1>12 DEF MainStep, MainLoop, ScheduleLocked, Schedule, GreenletEnds
  <1>. HIDE DEF LockInv, TypeInv
  <1>. QED
    BY Zenon, <1>1, <1>2, <1>3, <1>4, <1>5, <1>6, <1>7, <1>8, <1>9, <1>10, <1>11, <1>12
    DEF Next, RequestStep

\* A request that clears the greenlets or closes the DB holds the schedule_lock
\* of the task manager it found, and so does the main loop while it schedules.
LEMMA ScheduleStep == TypeInv /\ ScheduleInv /\ Next => ScheduleInv'
  <1>. SUFFICES ASSUME TypeInv, ScheduleInv PROVE Next => ScheduleInv'
    BY Zenon
  <1>. USE SessionsAssumption DEF ScheduleInv, TypeInv, taskVars, userVars, backVars
  <1>1. ASSUME NEW r \in Requests, NEW kind \in {"query", "login"}, QueryAsync(r, kind)
        PROVE  ScheduleInv'
    BY Zenon, <1>1 DEF QueryAsync
  <1>2. ASSUME NEW r \in Requests, NewTask(r) PROVE ScheduleInv'
    BY Zenon, <1>2 DEF NewTask, Idle
  <1>3. ASSUME NEW idx, QueryTasksOutcome(idx) PROVE ScheduleInv'
    BY Zenon, <1>3 DEF QueryTasksOutcome
  <1>4. ASSUME NEW r \in Requests, NEW idx, DeleteAsyncTask(r, idx) PROVE ScheduleInv'
    BY Zenon, <1>4 DEF DeleteAsyncTask
  <1>5. ASSUME NEW r \in Requests, TaskDeleted(r) PROVE ScheduleInv'
    BY Zenon, <1>5 DEF TaskDeleted, Idle
  <1>6. ASSUME NEW r \in Requests, UserLogout(r) PROVE ScheduleInv'
    BY Zenon, <1>6 DEF UserLogout
  <1>7. ASSUME NEW r \in Requests, TasksKilled(r) PROVE ScheduleInv'
    <2>1. session.manager # NoOne => session.manager \in TaskIds
      BY Zenon
    <2>. QED
      BY Zenon, <1>7, <2>1 DEF TasksKilled, Idle
  <1>8. ASSUME NEW r \in Requests, LogoutLocked(r) PROVE ScheduleInv'
    <2>1. CASE session.loggedIn
      <3>1. /\ request' = [request EXCEPT ![r] = [pc |-> "clear", manager |-> request[r].manager]]
            /\ scheduleLock' = [scheduleLock EXCEPT ![request[r].manager] = r]
            /\ main' = main
            /\ request[r].manager \in TaskIds
            /\ scheduleLock[request[r].manager] = NoOne
        BY Zenon, <1>8, <2>1 DEF LogoutLocked
      <3>. QED
        BY <3>1
    <2>2. CASE ~session.loggedIn
      BY <1>8, <2>2 DEF LogoutLocked, Idle
    <2>. QED
      BY Zenon, <2>1, <2>2
  <1>9. ASSUME NEW r \in Requests, GreenletsCleared(r) PROVE ScheduleInv'
    BY <1>9 DEF GreenletsCleared
  <1>10. ASSUME NEW r \in Requests, LoggedOut(r) PROVE ScheduleInv'
    BY <1>10 DEF LoggedOut, Idle
  <1>11. ASSUME NEW t, TaskStep(t) \/ Thrown(t) \/ HandleKilledGreenlet(t) PROVE ScheduleInv'
    BY Zenon, <1>11, TaskFrame
  <1>12. ASSUME MainLoop PROVE ScheduleInv'
    BY Zenon, <1>12 DEF MainLoop
  <1>13. ASSUME ScheduleLocked PROVE ScheduleInv'
    BY <1>13 DEF ScheduleLocked
  <1>14. ASSUME Schedule PROVE ScheduleInv'
    <2>1. main'.pc \in {"wait_event", "dead"}
      BY <1>14 DEF Schedule
    <2>. QED
      BY <1>14, <2>1 DEF Schedule
  <1>15. ASSUME GreenletEnds PROVE ScheduleInv'
    BY Zenon, <1>15 DEF GreenletEnds
  <1>. HIDE DEF ScheduleInv, TypeInv, taskVars, userVars, backVars
  <1>16. MainStep => ScheduleInv'
    BY Zenon, <1>12, <1>13, <1>14 DEF MainStep
  <1>. QED
    BY <1>1, <1>2, <1>3, <1>4, <1>5, <1>6, <1>7, <1>8, <1>9, <1>10, <1>11, <1>15, <1>16
    DEF Next, RequestStep

\* A request that neither asked for an id nor asks for one now.
LEMMA WaitingSame ==
    ASSUME TypeInv, NEW r \in Requests, NEW v, request' = [request EXCEPT ![r] = v],
           request[r].pc # "new_id", v.pc # "new_id"
    PROVE  Waiting' = Waiting
  BY Zenon DEF TypeInv, Waiting

\* Nobody gets or asks for an id.
LEMMA CountSame ==
    ASSUME CountInv, DOMAIN task' = DOMAIN task, Waiting' = Waiting
    PROVE  CountInv'
  BY Zenon DEF CountInv

\* Every step keeps the ids in order and leaves room for those who wait.
LEMMA CountStep == TypeInv /\ CountInv /\ Next => CountInv'
  <1>. SUFFICES ASSUME TypeInv, CountInv PROVE Next => CountInv'
    BY Zenon
  <1>. USE DEF taskVars, userVars, backVars
  <1>. DEFINE n == Cardinality(DOMAIN task)
              w == Cardinality(Waiting)
  <1>1. n \in Nat /\ w \in Nat /\ MaxTasks \in Nat /\ IsFiniteSet(DOMAIN task)
        /\ DOMAIN request = Requests
    BY Zenon, FS_CardinalityType, SessionsAssumption DEF TypeInv, CountInv
  <1>2. ASSUME NEW r \in Requests, NEW kind \in {"query", "login"}, QueryAsync(r, kind)
        PROVE  CountInv'
    <2>1. Waiting' = Waiting \cup {r} /\ r \notin Waiting /\ task' = task /\ n + w < MaxTasks
      BY Zenon, <1>1, <1>2 DEF QueryAsync, Waiting
    <2>2. IsFiniteSet(Waiting') /\ Cardinality(Waiting') = w + 1
      BY Zenon, <2>1, FS_AddElement DEF CountInv
    <2>. QED
      BY <1>1, <2>1, <2>2 DEF CountInv
  <1>3. ASSUME NEW r \in Requests, NewTask(r) PROVE CountInv'
    <2>1. Waiting' = Waiting \ {r} /\ r \in Waiting
      BY Zenon, <1>1, <1>3 DEF NewTask, Waiting, Idle
    <2>2. IsFiniteSet(Waiting') /\ Cardinality(Waiting') = w - 1
      BY Zenon, <2>1, FS_RemoveElement DEF CountInv
    <2>3. DOMAIN task' = DOMAIN task \cup {n} /\ n \notin DOMAIN task
      BY <1>1, <1>3 DEF NewTask, CountInv
    <2>4. Cardinality(DOMAIN task') = n + 1
      BY Zenon, <1>1, <2>3, FS_AddElement
    <2>5. DOMAIN task' = 0 .. n
      BY <1>1, <2>3 DEF CountInv
    <2>. QED
      BY <1>1, <2>2, <2>4, <2>5 DEF CountInv
  <1>4. ASSUME NEW r \in Requests,
               UserLogout(r) \/ \E idx \in 1 .. MaxTasks : DeleteAsyncTask(r, idx)
        PROVE  CountInv'
    <2>1. DOMAIN task' = DOMAIN task
      BY Zenon, <1>4, OnlyThrown DEF SameTasks
    <2>2. ASSUME UserLogout(r) PROVE Waiting' = Waiting
      <3>. DEFINE v == [pc |-> "killall", killed |-> {t \in Range(greenlets) : Alive(t)}]
      <3>1. request[r].pc = "idle" /\ request' = [request EXCEPT ![r] = v]
        BY <2>2, Zenon DEF UserLogout
      <3>2. v.pc # "new_id" /\ request[r].pc # "new_id"
        BY Zenon, <3>1
      <3>. HIDE DEF v
      <3>. QED
        BY Zenon, <3>1, <3>2, WaitingSame
    <2>3. ASSUME NEW idx, DeleteAsyncTask(r, idx) PROVE Waiting' = Waiting
      <3>. DEFINE v == [pc |-> "kill", task |-> greenlets[idx], idx |-> idx]
      <3>1. request[r].pc = "idle" /\ request' = [request EXCEPT ![r] = v]
        BY <2>3, Zenon DEF DeleteAsyncTask
      <3>2. v.pc # "new_id" /\ request[r].pc # "new_id"
        BY Zenon, <3>1
      <3>. HIDE DEF v
      <3>. QED
        BY Zenon, <3>1, <3>2, WaitingSame
    <2>. QED
      BY Zenon, <1>4, <2>1, <2>2, <2>3, CountSame
  <1>5. ASSUME NEW r \in Requests, TaskDeleted(r) \/ TasksKilled(r) \/ LogoutLocked(r)
                                     \/ GreenletsCleared(r) \/ LoggedOut(r)
        PROVE  CountInv'
    <2>1. PICK v : /\ request' = [request EXCEPT ![r] = v]
                   /\ request[r].pc # "new_id" /\ v.pc # "new_id"
      BY <1>5 DEF TaskDeleted, TasksKilled, LogoutLocked, GreenletsCleared, LoggedOut, Idle
    <2>2. task' = task
      BY Zenon, <1>5 DEF TaskDeleted, TasksKilled, LogoutLocked, GreenletsCleared, LoggedOut
    <2>. QED
      BY Zenon, <2>1, <2>2, WaitingSame, CountSame
  <1>6. ASSUME NEW t \in DOMAIN task, TaskStep(t) \/ Thrown(t) \/ HandleKilledGreenlet(t)
        PROVE  CountInv'
    <2>1. request' = request
      BY Zenon, <1>6, TaskFrame
    <2>2. DOMAIN task' = DOMAIN task
      BY Zenon, <1>6, TasksKept DEF SameTasks, HandleKilledGreenlet
    <2>3. Waiting' = Waiting
      BY Zenon, <2>1 DEF Waiting
    <2>. QED
      BY Zenon, <2>2, <2>3, CountSame
  <1>7. ASSUME MainStep \/ GreenletEnds \/ \E idx \in 1 .. MaxTasks : QueryTasksOutcome(idx)
        PROVE  CountInv'
    <2>1. task' = task /\ request' = request
      BY Zenon, <1>7 DEF MainStep, MainLoop, ScheduleLocked, Schedule, GreenletEnds,
         QueryTasksOutcome
    <2>2. Waiting' = Waiting
      BY Zenon, <2>1 DEF Waiting
    <2>. QED
      BY Zenon, <2>1, <2>2, CountSame
  <1>. QED
    BY Zenon, <1>2, <1>3, <1>4, <1>5, <1>6, <1>7 DEF Next, RequestStep

\* A login that starts alone finds what Orderly says; a task that starts as
\* anything else, or beside another login, changes nothing of it.
LEMMA UserTaskStarts ==
    ASSUME TypeInv, UserInv, NEW t \in DOMAIN task, TaskStarts(t)
    PROVE  UserInv'
  <1>1. UNCHANGED <<data, open, session, database>>
    BY Zenon DEF TaskStarts
  <1>2. PICK pc \in {"run", "write", "upgrade"} :
           /\ Changed(task, task', t, pc, task[t].thrown)
           /\ IF pc = "upgrade"
              THEN ~session.loggedIn /\ overlapped' = \E u \in DOMAIN task : Unlocking(u)
              ELSE overlapped' = overlapped
    BY Zenon, TaskEffects
  <1>3. CASE pc # "upgrade"
    <2>. SUFFICES ASSUME Orderly PROVE Orderly'
      BY Zenon, <1>2, <1>3 DEF UserInv
    <2>1. \A u \in DOMAIN task' : u \in DOMAIN task /\ (task'[u].pc = task[u].pc
                                     \/ task'[u].pc \notin {"upgrade", "premium", "migrate"})
      BY Zenon, <1>2, <1>3 DEF Changed
    <2>2. \A u \in DOMAIN task' : (Unlocking(u)' => Unlocking(u)) /\ UnlockInv(u)'
      BY Zenon, <1>1, <2>1 DEF Orderly, UnlockInv, Unlocking
    <2>3. session'.loggedIn => UserOpen'
      BY Zenon, <1>1 DEF Orderly, UserOpen
    <2>. QED
      BY Zenon, <2>1, <2>2, <2>3 DEF Orderly
  <1>4. CASE pc = "upgrade"
    <2>. SUFFICES ASSUME ~overlapped' PROVE Orderly'
      BY Zenon DEF UserInv
    <2>1. \A u \in DOMAIN task : ~Unlocking(u)
      BY Zenon, <1>2, <1>4
    <2>2. \A u \in DOMAIN task' : Unlocking(u)' => u = t
      BY Zenon, <1>2, <2>1 DEF Unlocking, Changed
    <2>3. task'[t].pc = "upgrade" /\ ~session'.loggedIn
      BY Zenon, <1>1, <1>2, <1>4 DEF Changed
    <2>4. \A u \in DOMAIN task' : UnlockInv(u)'
      BY Zenon, <2>2, <2>3 DEF UnlockInv, Unlocking
    <2>. QED
      BY Zenon, <2>2, <2>3, <2>4 DEF Orderly
  <1>. QED
    BY Zenon, <1>3, <1>4

\* Only a login that passes the check looks at the others.
LEMMA OverlappedKept ==
    ASSUME NEW t, TaskStep(t) \/ Thrown(t), ~TaskStarts(t)
    PROVE  overlapped' = overlapped
  <1>. USE DEF userVars
  <1>1. CASE TaskStep(t)
    BY Zenon, <1>1 DEF TaskStep, QueryReturns, QueryRaises, Unlocked, LoginFails,
       TaskManagerCreated, LoginRaises, LoggedIn, WriteTaskResult
  <1>2. CASE Thrown(t)
    BY Zenon, <1>2 DEF Thrown, ThrownEnds, ThrownInUpgrade, ThrownInMigration
  <1>. QED
    BY Zenon, <1>1, <1>2

\* The steps of tasks, for a user who stays what they are: logging in, in or out.
LEMMA UserTaskStep ==
    ASSUME TypeInv, CountInv, UserInv, NEW t \in DOMAIN task, TaskStep(t) \/ Thrown(t)
    PROVE  UserInv'
  <1>. USE DEF userVars
  <1>1. CASE TaskStarts(t)
    BY Zenon, <1>1, UserTaskStarts
  <1>. SUFFICES ASSUME ~TaskStarts(t), ~overlapped, Orderly PROVE Orderly'
    BY Zenon, <1>1, OverlappedKept DEF UserInv
  <1>2. /\ \A u \in DOMAIN task : Unlocking(t) /\ Unlocking(u) => u = t
        /\ session.loggedIn => \A u \in DOMAIN task : ~Unlocking(u)
        /\ Unlocking(t) => ~session.loggedIn
        /\ t \in TaskIds /\ t # NoOne
    BY Zenon, IdsBounded DEF Orderly, UnlockInv
  <1>3. ASSUME UNCHANGED <<data, open, session, database>>, NEW pc, NEW thrown,
               Changed(task, task', t, pc, thrown),
               pc \notin {"upgrade", "premium", "migrate"} \/ pc = task[t].pc
        PROVE  Orderly'
    <2>1. \A u \in DOMAIN task' : u \in DOMAIN task /\ (task'[u].pc = task[u].pc
                                     \/ task'[u].pc \notin {"upgrade", "premium", "migrate"})
      BY Zenon, <1>3 DEF Changed
    <2>2. \A u \in DOMAIN task' : (Unlocking(u)' => Unlocking(u)) /\ UnlockInv(u)'
      BY Zenon, <1>3, <2>1 DEF Orderly, UnlockInv, Unlocking
    <2>3. session'.loggedIn => UserOpen'
      BY Zenon, <1>3 DEF Orderly, UserOpen
    <2>. QED
      BY Zenon, <2>1, <2>2, <2>3 DEF Orderly
  <1>13. ASSUME Unlocking(t), NEW pc, NEW thrown, Changed(task, task', t, pc, thrown)
         PROVE  \A u \in DOMAIN task' : Unlocking(u)' => u = t
    BY Zenon, <1>2, <1>13 DEF Unlocking, Changed
  <1>14. ASSUME Unlocking(t), NEW pc, NEW thrown, Changed(task, task', t, pc, thrown),
                session'.loggedIn => UserOpen', UnlockInv(t)'
         PROVE  Orderly'
    <2>1. \A u \in DOMAIN task' : Unlocking(u)' => u = t
      BY Zenon, <1>13, <1>14
    <2>2. \A u \in DOMAIN task' : UnlockInv(u)'
      BY Zenon, <2>1, <1>14 DEF UnlockInv, Unlocking
    <2>. QED
      BY Zenon, <1>14, <2>1, <2>2 DEF Orderly
  <1>4. CASE WriteTaskResult(t) \/ QueryRaises(t) \/ LoginRaises(t)
    <2>1. UNCHANGED <<data, open, session, database>>
      BY Zenon, <1>4 DEF WriteTaskResult, QueryRaises, LoginRaises
    <2>. QED
      BY Zenon, <1>4, <2>1, <1>3, TaskEffects
  <1>5. CASE QueryReturns(t)
    <2>1. UNCHANGED <<data, open, session, database>>
      BY Zenon, <1>5 DEF QueryReturns
    <2>. QED
      BY Zenon, <1>5, <2>1, <1>3, TaskEffects
  <1>7. CASE Unlocked(t)
    <2>1. /\ data'.db = opened + 1 /\ data'.loggedIn
          /\ opened + 1 \in open'
          /\ session' = session
          /\ Unlocking(t)
      BY Zenon, <1>7 DEF Unlocked, Unlocking
    <2>2. Changed(task, task', t, "premium", task[t].thrown)
      BY Zenon, <1>7, TaskEffects
    <2>3. UnlockInv(t)'
      BY Zenon, <1>2, <2>1, <2>2 DEF UnlockInv, Changed
    <2>. QED
      BY Zenon, <1>2, <1>14, <2>1, <2>2, <2>3
  <1>8. ASSUME LoginFails(t) \/ \E error : ThrownInUpgrade(t, error)
        PROVE  Orderly'
    <2>1. session' = session /\ Unlocking(t)
      BY <1>8, Zenon DEF LoginFails, ThrownInUpgrade, Unlocking
    <2>2. PICK thrown : Changed(task, task', t, "write", thrown)
      BY <1>8, TaskEffects, Zenon
    <2>3. UnlockInv(t)'
      BY Zenon, <2>2 DEF UnlockInv, Unlocking, Changed
    <2>. QED
      BY Zenon, <1>2, <1>14, <2>1, <2>2, <2>3
  <1>9. CASE TaskManagerCreated(t)
    <2>1. /\ UNCHANGED <<data, open>>
          /\ session'.loggedIn = session.loggedIn /\ session'.manager = t
          /\ database'[t] = data.db
          /\ task[t].pc = "premium" /\ Unlocking(t)
      BY Zenon, <1>2, <1>9 DEF TaskManagerCreated, TypeInv, Unlocking
    <2>2. Changed(task, task', t, "migrate", task[t].thrown)
      BY Zenon, <1>9, TaskEffects
    <2>3. data.loggedIn /\ data.db \in open
      BY Zenon, <2>1 DEF Orderly, UnlockInv
    <2>4. UnlockInv(t)'
      BY Zenon, <1>2, <2>1, <2>2, <2>3 DEF UnlockInv
    <2>. QED
      BY Zenon, <1>2, <1>14, <2>1, <2>2, <2>4
  <1>10. CASE LoggedIn(t)
    <2>1. /\ UNCHANGED <<data, open, database>>
          /\ session'.manager = session.manager
          /\ task[t].pc = "migrate" /\ Unlocking(t)
      BY Zenon, <1>10 DEF LoggedIn, TypeInv, Unlocking
    <2>2. PICK pc \in {"write", "dead"} : \E thrown : Changed(task, task', t, pc, thrown)
      BY Zenon, <1>10, TaskEffects
    <2>3. data.loggedIn /\ data.db \in open /\ session.manager = t /\ database[t] = data.db
      BY Zenon, <2>1 DEF Orderly, UnlockInv
    <2>4. UserOpen'
      BY Zenon, <1>2, <2>1, <2>3 DEF UserOpen
    <2>5. UnlockInv(t)'
      BY Zenon, <2>2 DEF UnlockInv, Unlocking, Changed
    <2>. QED
      BY Zenon, <1>14, <2>1, <2>2, <2>4, <2>5
  <1>11. ASSUME NEW error, ThrownEnds(t, error) PROVE Orderly'
    <2>1. UNCHANGED <<data, open, session, database>>
      BY Zenon, <1>11 DEF ThrownEnds
    <2>. QED
      BY <1>11, <2>1, <1>3, TaskEffects, Zenon
  <1>12. ASSUME NEW error, ThrownInMigration(t, error) PROVE Orderly'
    <2>1. UNCHANGED <<data, open, session, database>> /\ task[t].pc = "migrate"
      BY Zenon, <1>12 DEF ThrownInMigration
    <2>. QED
      BY <1>12, <2>1, <1>3, TaskEffects, Zenon
  <1>. QED
    BY Zenon, <1>4, <1>5, <1>7, <1>8, <1>9, <1>10, <1>11, <1>12 DEF TaskStep, Thrown

\* Every step keeps what is known of the user; only the last step of a logout
\* closes an open DB under a user who is logged in, and logs that user out.
LEMMA UserStep == TypeInv /\ CountInv /\ LogoutInv /\ UserInv /\ Next => UserInv'
  <1>. SUFFICES ASSUME TypeInv, CountInv, LogoutInv, UserInv PROVE Next => UserInv'
    BY Zenon
  <1>. USE DEF taskVars, userVars, backVars
  <1>1. ASSUME UNCHANGED <<open, session, database, overlapped>>, data'.db = data.db,
               data'.loggedIn = data.loggedIn, DOMAIN task' = DOMAIN task, SamePcs
        PROVE  UserInv'
    BY Zenon, <1>1 DEF UserInv, Orderly, UserOpen, UnlockInv, Unlocking, SamePcs
  <1>2. task' = task => DOMAIN task' = DOMAIN task /\ SamePcs
    BY Zenon DEF SamePcs
  <1>3. ASSUME NEW r \in Requests, NEW kind \in {"query", "login"}, QueryAsync(r, kind)
        PROVE  UserInv'
    BY Zenon, <1>3, <1>1, <1>2 DEF QueryAsync
  <1>4. ASSUME NEW r \in Requests, NewTask(r) PROVE UserInv'
    <2>1. UNCHANGED <<data, open, session, database, overlapped>>
      BY Zenon, <1>4 DEF NewTask
    <2>2. \A t \in DOMAIN task' :
             task'[t].pc = "start" \/ (t \in DOMAIN task /\ task'[t] = task[t])
      BY Zenon, <1>4 DEF NewTask
    <2>. QED
      BY Zenon, <2>1, <2>2 DEF UserInv, Orderly, UserOpen, UnlockInv, Unlocking
  <1>5. ASSUME NEW idx, QueryTasksOutcome(idx) PROVE UserInv'
    BY Zenon, <1>5, <1>1, <1>2 DEF QueryTasksOutcome
  <1>6. ASSUME NEW r \in Requests, UserLogout(r) \/ \E idx : DeleteAsyncTask(r, idx)
        PROVE  UserInv'
    <2>1. UNCHANGED <<data, open, session, database, overlapped>>
      BY <1>6, Zenon DEF UserLogout, DeleteAsyncTask
    <2>. QED
      BY Zenon, <1>6, <2>1, <1>1, OnlyThrown DEF SameTasks
  <1>7. ASSUME NEW r \in Requests, TaskDeleted(r) \/ TasksKilled(r) \/ LogoutLocked(r)
        PROVE  UserInv'
    BY Zenon, <1>7, <1>1, <1>2 DEF TaskDeleted, TasksKilled, LogoutLocked
  <1>8. ASSUME NEW r \in Requests, GreenletsCleared(r) PROVE UserInv'
    BY Zenon, <1>8, <1>1, <1>2 DEF GreenletsCleared, TypeInv
  <1>9. ASSUME NEW r \in Requests, LoggedOut(r) PROVE UserInv'
    <2>1. session.loggedIn
      BY Zenon, <1>9 DEF LoggedOut, LogoutInv
    <2>2. task' = task /\ ~session'.loggedIn /\ overlapped' = overlapped
      BY Zenon, <1>9 DEF LoggedOut
    <2>. QED
      BY Zenon, <2>1, <2>2 DEF UserInv, Orderly, UnlockInv, Unlocking
  <1>10. ASSUME NEW t \in DOMAIN task, HandleKilledGreenlet(t) PROVE UserInv'
    BY Zenon, <1>10, <1>1, <1>2 DEF HandleKilledGreenlet
  <1>11. ASSUME NEW t \in DOMAIN task, TaskStep(t) \/ Thrown(t) PROVE UserInv'
    BY Zenon, <1>11, UserTaskStep
  <1>12. ASSUME MainStep \/ GreenletEnds PROVE UserInv'
    BY Zenon, <1>12, <1>1, <1>2 DEF MainStep, MainLoop, ScheduleLocked, Schedule, GreenletEnds
  <1>. HIDE DEF taskVars, userVars, backVars
  <1>. QED
    BY Zenon, <1>3, <1>4, <1>5, <1>6, <1>7, <1>8, <1>9, <1>10, <1>11, <1>12 DEF Next, RequestStep

\* One request at a time logs out, and none but it logs the user out.
LEMMA LogoutStep == TypeInv /\ LogoutInv /\ Next => LogoutInv'
  <1>. SUFFICES ASSUME TypeInv, LogoutInv PROVE Next => LogoutInv'
    BY Zenon
  <1>. USE DEF LogoutInv, LoggingOut, TypeInv, taskVars, userVars, backVars
  <1>1. ASSUME NEW r \in Requests, NEW kind \in {"query", "login"}, QueryAsync(r, kind)
        PROVE  LogoutInv'
    BY <1>1 DEF QueryAsync
  <1>2. ASSUME NEW r \in Requests, NewTask(r) PROVE LogoutInv'
    <2>1. request' = [request EXCEPT ![r] = Idle] /\ session' = session
      BY Zenon, <1>2 DEF NewTask
    <2>. QED
      BY <2>1 DEF Idle
  <1>3. ASSUME NEW idx, QueryTasksOutcome(idx) PROVE LogoutInv'
    BY <1>3, Zenon DEF QueryTasksOutcome
  <1>4. ASSUME NEW r \in Requests, NEW idx, DeleteAsyncTask(r, idx) PROVE LogoutInv'
    BY <1>4 DEF DeleteAsyncTask
  <1>5. ASSUME NEW r \in Requests, TaskDeleted(r) PROVE LogoutInv'
    BY <1>5 DEF TaskDeleted, Idle
  <1>6. ASSUME NEW r \in Requests, UserLogout(r) PROVE LogoutInv'
    BY <1>6 DEF UserLogout
  <1>7. ASSUME NEW r \in Requests, TasksKilled(r) PROVE LogoutInv'
    BY <1>7 DEF TasksKilled, Idle
  <1>8. ASSUME NEW r \in Requests, LogoutLocked(r) PROVE LogoutInv'
    BY <1>8 DEF LogoutLocked, Idle
  <1>9. ASSUME NEW r \in Requests, GreenletsCleared(r) PROVE LogoutInv'
    BY <1>9 DEF GreenletsCleared
  <1>10. ASSUME NEW r \in Requests, LoggedOut(r) PROVE LogoutInv'
    BY <1>10 DEF LoggedOut, Idle
  <1>11. ASSUME NEW t, TaskStep(t) \/ Thrown(t) \/ HandleKilledGreenlet(t) PROVE LogoutInv'
    <2>1. request' = request
      BY Zenon, <1>11, TaskFrame
    <2>2. session.loggedIn => session'.loggedIn
      BY <1>11, Zenon DEF TaskStep, TaskStarts, QueryReturns, QueryRaises, Unlocked, LoginFails,
                   TaskManagerCreated, LoginRaises, LoggedIn, WriteTaskResult, Thrown, ThrownEnds,
                   ThrownInUpgrade, ThrownInMigration, HandleKilledGreenlet
    <2>. QED
      BY <2>1, <2>2
  <1>12. ASSUME MainStep \/ GreenletEnds PROVE LogoutInv'
    BY Zenon, <1>12 DEF MainStep, MainLoop, ScheduleLocked, Schedule, GreenletEnds
  <1>. HIDE DEF LogoutInv, LoggingOut, TypeInv, taskVars, userVars, backVars
  <1>. QED
    BY <1>1, <1>2, <1>3, <1>4, <1>5, <1>6, <1>7, <1>8, <1>9, <1>10, <1>11, <1>12
    DEF Next, RequestStep

Inv == TypeInv /\ CountInv /\ LockInv /\ ScheduleInv /\ LogoutInv /\ UserInv

\* The parts of the invariant hold together, of every behaviour.
LEMMA Invariance == Spec => []Inv
  <1>1. Init => Inv
    <2>. SUFFICES ASSUME Init PROVE Inv
      BY Zenon
    <2>. USE DEF Init
    <2>1. TypeInv
      BY SessionsAssumption, FS_EmptySet DEF TypeInv, Idle
    <2>2. LockInv /\ ScheduleInv /\ LogoutInv
      BY Zenon DEF LockInv, ScheduleInv, LogoutInv, LoggingOut, Idle
    <2>3. CountInv
      <3>1. Waiting = {} /\ DOMAIN task = {}
        BY Zenon DEF Waiting, Idle
      <3>. QED
        BY <3>1, FS_EmptySet, SessionsAssumption DEF CountInv
    <2>4. UserInv
      BY Zenon DEF UserInv, Orderly
    <2>. QED
      BY Zenon, <2>1, <2>2, <2>3, <2>4 DEF Inv
  <1>2. Inv /\ Next => Inv'
    BY Zenon, TypeStep, CountStep, LockStep, ScheduleStep, UserStep, LogoutStep DEF Inv
  <1>3. Inv /\ UNCHANGED vars => Inv'
    <2>. SUFFICES ASSUME Inv, UNCHANGED vars PROVE Inv'
      BY Zenon
    <2>. USE DEF vars, taskVars, userVars, backVars
    <2>1. TypeInv' /\ CountInv'
      BY Zenon DEF Inv, TypeInv, CountInv, Waiting
    <2>2. LockInv' /\ ScheduleInv' /\ LogoutInv'
      BY Zenon DEF Inv, LockInv, ScheduleInv, LogoutInv, LoggingOut
    <2>3. UserInv'
      BY Zenon DEF Inv, UserInv, Orderly, UserOpen, UnlockInv, Unlocking
    <2>. QED
      BY Zenon, <2>1, <2>2, <2>3 DEF Inv
  <1>. QED
    BY <1>1, <1>2, <1>3, PTL DEF Spec

\* delete_async_task pops the task it cancelled, however many requests poll,
\* cancel and start tasks while it waits (rest.py:546).
THEOREM CancelPopsItsTask == Spec => []CancelledIsPopped
  <1>1. Inv => CancelledIsPopped
    BY DEF Inv, TypeInv, LockInv, CancelledIsPopped
  <1>. QED
    BY <1>1, Invariance, PTL

\* A task manager schedules nothing while the logout of its user kills the
\* background greenlets and closes the DB.
THEOREM LogoutExcludesSchedule == Spec => []ScheduleExcludesLogout
  <1>1. Inv => ScheduleExcludesLogout
    BY Zenon, SessionsAssumption DEF Inv, ScheduleInv, ScheduleExcludesLogout
  <1>. QED
    BY <1>1, Invariance, PTL

\* A user who is logged in has an open DB and a task manager that works on it,
\* after any sequence of logins, failures, cancellations and logouts, if the login
\* ran beside no other login: login_lock does not see to that (rest.py:363).
THEOREM LoggedInMeansOpen == Spec => []LoggedInIsOpen
  <1>1. Inv => LoggedInIsOpen
    BY Zenon DEF Inv, UserInv, Orderly, UserOpen, LoggedInIsOpen
  <1>. QED
    BY <1>1, Invariance, PTL

-----------------------------------------------------------------------------
(* TypeOK: the list of tasks, what is dead, and the rest *)

\* Each task is in the list once.
ListInv == Range(greenlets) \subseteq DOMAIN task /\ IsInjective(greenlets)

\* Only live tasks have exceptions thrown at them, only dead ones have results.
DeadInv ==
    /\ \A t \in DOMAIN task : task[t].thrown # {} => Alive(t)
    /\ results \cup handlers \subseteq {t \in DOMAIN task : ~Alive(t)}

\* The elements of a concatenation.
LEMMA ConcatElement ==
    ASSUME NEW S, NEW a \in Seq(S), NEW b \in Seq(S), NEW j \in 1 .. Len(a) + Len(b)
    PROVE  (a \o b)[j] = IF j <= Len(a) THEN a[j] ELSE b[j - Len(a)]
  OBVIOUS

\* Popping an index moves the later ones by one.
LEMMA PopElements ==
    ASSUME NEW S, NEW s \in Seq(S), NEW i \in DOMAIN s
    PROVE  /\ DOMAIN Pop(s, i) = 1 .. Len(s) - 1
           /\ \A j \in 1 .. Len(s) - 1 : Pop(s, i)[j] = IF j < i THEN s[j] ELSE s[j + 1]
  <1>. DEFINE a == SubSeq(s, 1, i - 1)
              b == SubSeq(s, i + 1, Len(s))
  <1>1. DOMAIN Pop(s, i) = 1 .. Len(s) - 1
    BY DEF Pop
  <1>2. ASSUME NEW j \in 1 .. Len(s) - 1
        PROVE  (a \o b)[j] = IF j < i THEN s[j] ELSE s[j + 1]
    <2>1. a \in Seq(S) /\ Len(a) = i - 1 /\ \A k \in 1 .. i - 1 : a[k] = s[k]
      OBVIOUS
    <2>2. b \in Seq(S) /\ Len(b) = Len(s) - i /\ \A k \in 1 .. Len(s) - i : b[k] = s[i + k]
      OBVIOUS
    <2>. HIDE DEF a, b
    <2>3. j \in 1 .. Len(a) + Len(b)
      BY <2>1, <2>2
    <2>4. (a \o b)[j] = IF j <= Len(a) THEN a[j] ELSE b[j - Len(a)]
      BY Zenon, <2>1, <2>2, <2>3, ConcatElement
    <2>5. CASE j < i
      BY <2>1, <2>4, <2>5
    <2>6. CASE ~(j < i)
      <3>1. j - (i - 1) \in 1 .. Len(s) - i /\ i + (j - (i - 1)) = j + 1
        BY <2>6
      <3>. QED
        BY <2>1, <2>2, <2>4, <2>6, <3>1
    <2>. QED
      BY Zenon, <2>5, <2>6
  <1>. QED
    BY Zenon, <1>1, <1>2 DEF Pop

\* Popping an index keeps the list inside the tasks and without repetition.
LEMMA PopKeeps ==
    ASSUME NEW S, NEW s \in Seq(S), NEW i \in DOMAIN s, NEW T, Range(s) \subseteq T,
           IsInjective(s)
    PROVE  Range(Pop(s, i)) \subseteq T /\ IsInjective(Pop(s, i))
  <1>. DEFINE u == Pop(s, i)
              At(j) == IF j < i THEN j ELSE j + 1
  <1>1. /\ DOMAIN s = 1 .. Len(s) /\ Len(s) \in Nat /\ i \in 1 .. Len(s)
        /\ DOMAIN u = 1 .. Len(s) - 1
        /\ \A j \in 1 .. Len(s) - 1 : u[j] = s[At(j)]
    BY PopElements
  <1>2. \A j \in 1 .. Len(s) - 1 : At(j) \in 1 .. Len(s)
    BY <1>1
  <1>3. \A j, k \in 1 .. Len(s) - 1 : At(j) = At(k) => j = k
    BY <1>1
  <1>. HIDE DEF u, At
  <1>4. IsInjective(u)
    BY <1>1, <1>2, <1>3 DEF IsInjective
  <1>5. Range(u) \subseteq T
    BY Zenon, <1>1, <1>2 DEF Range
  <1>. QED
    BY Zenon, <1>4, <1>5 DEF u

\* Every step keeps each task once in the list.
LEMMA ListStep == TypeInv /\ LockInv /\ CountInv /\ ListInv /\ Next => ListInv'
  <1>. SUFFICES ASSUME TypeInv, LockInv, CountInv, ListInv PROVE Next => ListInv'
    BY Zenon
  <1>. USE DEF taskVars, userVars, backVars
  <1>1. greenlets \in Seq(Nat) /\ Range(greenlets) \subseteq DOMAIN task /\ IsInjective(greenlets)
    BY Zenon DEF TypeInv, ListInv
  <1>2. ASSUME NEW i \in DOMAIN greenlets, greenlets' = Pop(greenlets, i),
               DOMAIN task' = DOMAIN task
        PROVE  ListInv'
    BY Zenon, <1>1, <1>2, PopKeeps DEF ListInv
  <1>3. ASSUME greenlets' = greenlets, DOMAIN task' = DOMAIN task
        PROVE  ListInv'
    BY Zenon, <1>1, <1>3 DEF ListInv
  <1>4. ASSUME NEW r \in Requests, NewTask(r) PROVE ListInv'
    <2>. DEFINE n == Cardinality(DOMAIN task)
    <2>1. n \in Nat /\ n \notin DOMAIN task
      BY FS_CardinalityType DEF TypeInv, CountInv
    <2>2. DOMAIN task' = DOMAIN task \cup {n} /\ greenlets' = Append(greenlets, n)
      BY Zenon, <1>4 DEF NewTask
    <2>. HIDE DEF n
    <2>3. /\ DOMAIN greenlets' = 1 .. Len(greenlets) + 1
          /\ \A i \in 1 .. Len(greenlets) : greenlets'[i] = greenlets[i] /\ greenlets[i] # n
                                            /\ greenlets[i] \in DOMAIN task
          /\ greenlets'[Len(greenlets) + 1] = n
          /\ Len(greenlets) \in Nat /\ DOMAIN greenlets = 1 .. Len(greenlets)
      BY <1>1, <2>1, <2>2 DEF Range
    <2>4. \A i \in 1 .. Len(greenlets) + 1 : i \in 1 .. Len(greenlets) \/ i = Len(greenlets) + 1
      BY <2>3
    <2>5. Range(greenlets') \subseteq DOMAIN task'
      BY <2>2, <2>3, <2>4, Zenon DEF Range
    <2>6. IsInjective(greenlets')
      BY <1>1, <2>3, <2>4, Zenon DEF IsInjective
    <2>. QED
      BY Zenon, <2>5, <2>6 DEF ListInv
  <1>5. ASSUME NEW idx, QueryTasksOutcome(idx) PROVE ListInv'
    BY Zenon, <1>2, <1>5 DEF QueryTasksOutcome
  <1>6. ASSUME NEW r \in Requests, TaskDeleted(r) PROVE ListInv'
    <2>1. request[r].idx \in DOMAIN greenlets
      BY <1>1, <1>6 DEF TaskDeleted, LockInv
    <2>. QED
      BY Zenon, <1>2, <1>6, <2>1 DEF TaskDeleted
  <1>7. ASSUME NEW r \in Requests,
               UserLogout(r) \/ \E idx \in 1 .. MaxTasks : DeleteAsyncTask(r, idx)
        PROVE  ListInv'
    <2>1. DOMAIN task' = DOMAIN task
      BY Zenon, <1>7, OnlyThrown DEF SameTasks
    <2>. QED
      BY Zenon, <1>3, <1>7, <2>1 DEF UserLogout, DeleteAsyncTask
  <1>8. ASSUME NEW t \in DOMAIN task, TaskStep(t) \/ Thrown(t) \/ HandleKilledGreenlet(t)
        PROVE  ListInv'
    <2>1. greenlets' = greenlets
      BY Zenon, <1>8, TaskFrame
    <2>2. DOMAIN task' = DOMAIN task
      BY Zenon, <1>8, TasksKept DEF SameTasks, HandleKilledGreenlet
    <2>. QED
      BY Zenon, <1>3, <2>1, <2>2
  <1>9. ASSUME NEW r \in Requests, \/ TasksKilled(r) \/ LogoutLocked(r) \/ GreenletsCleared(r)
                                   \/ LoggedOut(r) \/ \E kind : QueryAsync(r, kind)
        PROVE  ListInv'
    BY Zenon, <1>3, <1>9 DEF TasksKilled, LogoutLocked, GreenletsCleared, LoggedOut, QueryAsync
  <1>10. ASSUME MainStep \/ GreenletEnds PROVE ListInv'
    BY Zenon, <1>3, <1>10 DEF MainStep, MainLoop, ScheduleLocked, Schedule, GreenletEnds
  <1>. QED
    BY Zenon, <1>4, <1>5, <1>6, <1>7, <1>8, <1>9, <1>10 DEF Next, RequestStep

\* Every step keeps exceptions at live tasks and results at dead ones.
LEMMA DeadStep == TypeInv /\ CountInv /\ ListInv /\ DeadInv /\ Next => DeadInv'
  <1>. SUFFICES ASSUME TypeInv, CountInv, ListInv, DeadInv PROVE Next => DeadInv'
    BY Zenon
  <1>. USE DEF taskVars, userVars, backVars
  <1>1. ASSUME NEW t \in DOMAIN task, NEW pc, NEW thrown, Changed(task, task', t, pc, thrown),
               pc = "dead" => thrown = {}, pc # "dead" => Alive(t),
               results' \cup handlers' \subseteq results \cup handlers \cup {t},
               pc # "dead" => results' \cup handlers' \subseteq results \cup handlers
        PROVE  DeadInv'
    BY <1>1 DEF Changed, DeadInv, Alive
  <1>2. ASSUME UNCHANGED task, results' \cup handlers' \subseteq results \cup handlers
        PROVE  DeadInv'
    BY Zenon, <1>2 DEF DeadInv, Alive
  <1>3. ASSUME NEW t \in DOMAIN task, WriteTaskResult(t) \/ QueryRaises(t) \/ LoginRaises(t)
        PROVE  DeadInv'
    <2>1. Changed(task, task', t, "dead", {})
      BY Zenon, <1>3, TaskEffects
    <2>2. results' \cup handlers' \subseteq results \cup handlers \cup {t}
      BY Zenon, <1>3 DEF WriteTaskResult, QueryRaises, LoginRaises, Dies
    <2>. QED
      BY Zenon, <1>1, <2>1, <2>2
  <1>4. ASSUME NEW t \in DOMAIN task, \/ TaskStarts(t) \/ Unlocked(t) \/ TaskManagerCreated(t)
                                      \/ QueryReturns(t) \/ LoginFails(t)
        PROVE  DeadInv'
    <2>1. PICK pc \in {"run", "write", "upgrade", "premium", "migrate"} :
            Changed(task, task', t, pc, task[t].thrown)
      BY Zenon, <1>4, TaskEffects
    <2>2. Alive(t) /\ results' = results /\ handlers' = handlers
      BY Zenon, <1>4 DEF TaskStarts, Unlocked, TaskManagerCreated, QueryReturns, LoginFails,
         Alive
    <2>. QED
      BY Zenon, <1>1, <2>1, <2>2
  <1>13. ASSUME NEW t \in DOMAIN task, LoggedIn(t) PROVE DeadInv'
    <2>1. Alive(t) /\ results' = results
      BY Zenon, <1>13 DEF LoggedIn, Alive
    <2>2. CASE data.db \in open
      <3>1. task' = [task EXCEPT ![t].pc = "write"] /\ handlers' = handlers
        BY Zenon, <1>13, <2>2 DEF LoggedIn
      <3>2. Changed(task, task', t, "write", task[t].thrown)
        BY Zenon, <3>1, TaskChange DEF TypeInv, TaskPcs, Task
      <3>. QED
        BY Zenon, <1>1, <2>1, <3>1, <3>2
    <2>3. CASE data.db \notin open
      <3>1. task' = [task EXCEPT ![t].pc = "dead", ![t].thrown = {}] /\ handlers' = handlers \cup {t}
        BY Zenon, <1>13, <2>3 DEF LoggedIn, Dies
      <3>2. Changed(task, task', t, "dead", {})
        BY Zenon, <3>1, TaskChange DEF TypeInv, TaskPcs
      <3>. QED
        BY Zenon, <1>1, <2>1, <3>1, <3>2
    <2>. QED
      BY Zenon, <2>2, <2>3
  <1>5. ASSUME NEW t \in DOMAIN task, NEW error, ThrownEnds(t, error) PROVE DeadInv'
    <2>1. Changed(task, task', t, "dead", {})
      BY Zenon, <1>5, TaskEffects
    <2>2. results' \cup handlers' \subseteq results \cup handlers \cup {t}
      BY Zenon, <1>5 DEF ThrownEnds, Dies
    <2>. QED
      BY Zenon, <1>1, <2>1, <2>2
  <1>6. ASSUME NEW t \in DOMAIN task, NEW error,
               ThrownInUpgrade(t, error) \/ ThrownInMigration(t, error)
        PROVE  DeadInv'
    <2>1. PICK pc \in {"write", "migrate"} :
            Changed(task, task', t, pc, task[t].thrown \ {error})
      BY Zenon, <1>6, TaskEffects
    <2>2. Alive(t) /\ results' = results /\ handlers' = handlers
      BY Zenon, <1>6 DEF ThrownInUpgrade, ThrownInMigration, Alive
    <2>. QED
      BY Zenon, <1>1, <2>1, <2>2
  <1>7. ASSUME NEW r \in Requests, NEW idx, DeleteAsyncTask(r, idx) PROVE DeadInv'
    <2>. DEFINE t == greenlets[idx]
                thrown == task[t].thrown \cup {"killed"}
    <2>1. /\ t \in DOMAIN task /\ Alive(t) /\ results' = results /\ handlers' = handlers
          /\ task' = [task EXCEPT ![t].thrown = thrown]
      BY Zenon, <1>7 DEF DeleteAsyncTask, ListInv, Range
    <2>2. /\ thrown \in SUBSET {"exit", "killed"} /\ task[t].pc \in TaskPcs
          /\ \A u \in DOMAIN task : task[u] \in Task
      BY Zenon, <2>1 DEF TypeInv, Task, TaskPcs
    <2>. HIDE DEF t, thrown
    <2>3. Changed(task, task', t, task[t].pc, thrown)
      BY <2>1, <2>2, TaskChange, Zenon
    <2>. QED
      BY Zenon, <1>1, <2>1, <2>3 DEF Alive
  <1>8. ASSUME NEW r \in Requests, UserLogout(r) PROVE DeadInv'
    <2>1. /\ DOMAIN task' = DOMAIN task /\ results' = results /\ handlers' = handlers
          /\ \A u \in DOMAIN task :
               task'[u] = IF u \in Range(greenlets) /\ Alive(u)
                          THEN [task[u] EXCEPT !.thrown = task[u].thrown \cup {"exit"}]
                          ELSE task[u]
      BY Zenon, <1>8 DEF UserLogout
    <2>2. \A u \in DOMAIN task : /\ task'[u].pc = task[u].pc
                                 /\ task'[u].thrown = task[u].thrown \/ Alive(u)
      BY <2>1 DEF TypeInv, Task
    <2>. QED
      BY Zenon, <2>1, <2>2 DEF DeadInv, Alive
  <1>9. ASSUME NEW t \in DOMAIN task, HandleKilledGreenlet(t) PROVE DeadInv'
    BY Zenon, <1>2, <1>9 DEF HandleKilledGreenlet
  <1>10. ASSUME NEW r \in Requests, NewTask(r) PROVE DeadInv'
    <2>. DEFINE n == Cardinality(DOMAIN task)
    <2>1. n \notin DOMAIN task
      BY FS_CardinalityType DEF TypeInv, CountInv
    <2>2. /\ DOMAIN task' = DOMAIN task \cup {n} /\ results' = results /\ handlers' = handlers
          /\ task'[n].pc = "start" /\ task'[n].thrown = {}
          /\ \A u \in DOMAIN task : task'[u] = task[u]
      BY Zenon, <1>10, <2>1 DEF NewTask
    <2>. HIDE DEF n
    <2>. QED
      BY Zenon, <2>1, <2>2 DEF DeadInv, Alive
  <1>11. ASSUME NEW r \in Requests,
                \/ TaskDeleted(r) \/ TasksKilled(r) \/ LogoutLocked(r) \/ GreenletsCleared(r)
                \/ LoggedOut(r) \/ \E kind : QueryAsync(r, kind)
         PROVE  DeadInv'
    BY Zenon, <1>2, <1>11 DEF TaskDeleted, TasksKilled, LogoutLocked, GreenletsCleared, LoggedOut,
       QueryAsync
  <1>12. ASSUME \/ MainStep \/ GreenletEnds \/ \E idx \in 1 .. MaxTasks : QueryTasksOutcome(idx)
         PROVE  DeadInv'
    BY Zenon, <1>2, <1>12 DEF MainStep, MainLoop, ScheduleLocked, Schedule, GreenletEnds,
       QueryTasksOutcome
  <1>. QED
    BY Zenon, <1>3, <1>4, <1>5, <1>6, <1>7, <1>8, <1>9, <1>10, <1>11, <1>12, <1>13
    DEF Next, RequestStep, TaskStep, Thrown

\* The session's DB and those of the task managers are among those that logins opened.
UserTypes ==
    /\ data \in [db : 0 .. opened, loggedIn : BOOLEAN, named : BOOLEAN]
    /\ open \subseteq 1 .. opened
    /\ session \in [loggedIn : BOOLEAN, manager : TaskIds \cup {NoOne}]
    /\ should \subseteq TaskIds
    /\ database \in [TaskIds -> 0 .. opened]
    /\ overlapped \in BOOLEAN

BackTypes ==
    /\ taskLock \in Requests \cup {NoOne}
    /\ scheduleLock \in [TaskIds -> Requests \cup {NoOne, "main"}]
    /\ running \in 0 .. MaxTasksNum
    /\ main \in [pc : {"wait_event", "dead"}]
                \cup [pc : {"schedule_lock", "schedule"}, manager : TaskIds]

\* Every step keeps the types of requests.
LEMMA RequestTypeStep ==
    ASSUME TypeInv, ScheduleInv, CountInv, ListInv, request \in [Requests -> Request], Next
    PROVE  request' \in [Requests -> Request]
  <1>. USE DEF taskVars, userVars, backVars
  <1>1. ASSUME NEW r \in Requests, NEW v \in Request, request' = [request EXCEPT ![r] = v]
        PROVE  request' \in [Requests -> Request]
    BY <1>1, Zenon
  <1>2. ASSUME request' = request PROVE request' \in [Requests -> Request]
    BY Zenon, <1>2
  <1>3. Idle \in Request
    BY Zenon DEF Request
  <1>4. ASSUME NEW m \in TaskIds, NEW pc \in {"schedule_lock", "clear", "close"}
        PROVE  [pc |-> pc, manager |-> m] \in Request
    BY Zenon DEF Request
  <1>5. ASSUME NEW r \in Requests, NEW kind \in {"query", "login"}, QueryAsync(r, kind)
        PROVE  request' \in [Requests -> Request]
    <2>1. [pc |-> "new_id", kind |-> kind] \in Request
      BY Zenon DEF Request
    <2>. QED
      BY Zenon, <1>1, <1>5, <2>1 DEF QueryAsync
  <1>6. ASSUME NEW r \in Requests, NewTask(r) \/ TaskDeleted(r) \/ LoggedOut(r)
        PROVE  request' \in [Requests -> Request]
    BY Zenon, <1>1, <1>3, <1>6 DEF NewTask, TaskDeleted, LoggedOut
  <1>7. ASSUME NEW r \in Requests, NEW idx \in 1 .. MaxTasks, DeleteAsyncTask(r, idx)
        PROVE  request' \in [Requests -> Request]
    <2>1. greenlets[idx] \in TaskIds
      BY Zenon, <1>7, IdsBounded DEF DeleteAsyncTask, ListInv, Range
    <2>2. [pc |-> "kill", task |-> greenlets[idx], idx |-> idx] \in Request
      BY Zenon, <2>1 DEF Request
    <2>. QED
      BY Zenon, <1>1, <1>7, <2>2 DEF DeleteAsyncTask
  <1>8. ASSUME NEW r \in Requests, UserLogout(r) PROVE request' \in [Requests -> Request]
    <2>. DEFINE killed == {t \in Range(greenlets) : Alive(t)}
    <2>1. killed \in SUBSET TaskIds
      BY Zenon, IdsBounded DEF ListInv
    <2>2. request' = [request EXCEPT ![r] = [pc |-> "killall", killed |-> killed]]
      BY <1>8, Zenon DEF UserLogout
    <2>. HIDE DEF killed
    <2>3. [pc |-> "killall", killed |-> killed] \in Request
      BY Zenon, <2>1 DEF Request
    <2>. QED
      BY Zenon, <1>1, <2>2, <2>3
  <1>9. ASSUME NEW r \in Requests, TasksKilled(r) PROVE request' \in [Requests -> Request]
    <2>1. session.manager # NoOne => session.manager \in TaskIds
      BY Zenon DEF TypeInv
    <2>. QED
      BY Zenon, <1>1, <1>3, <1>4, <1>9, <2>1 DEF TasksKilled
  <1>10. ASSUME NEW r \in Requests, LogoutLocked(r) PROVE request' \in [Requests -> Request]
    <2>1. request[r].manager \in TaskIds
      BY Zenon, <1>10 DEF LogoutLocked, ScheduleInv
    <2>. QED
      BY Zenon, <1>1, <1>3, <1>4, <1>10, <2>1 DEF LogoutLocked
  <1>11. ASSUME NEW r \in Requests, GreenletsCleared(r) PROVE request' \in [Requests -> Request]
    <2>1. request[r].manager \in TaskIds
      BY Zenon, <1>11 DEF GreenletsCleared, ScheduleInv
    <2>. QED
      BY Zenon, <1>1, <1>4, <1>11, <2>1 DEF GreenletsCleared
  <1>12. ASSUME NEW t, TaskStep(t) \/ Thrown(t) \/ HandleKilledGreenlet(t)
         PROVE  request' \in [Requests -> Request]
    BY Zenon, <1>2, <1>12, TaskFrame
  <1>13. ASSUME \/ MainStep \/ GreenletEnds \/ \E idx \in 1 .. MaxTasks : QueryTasksOutcome(idx)
         PROVE  request' \in [Requests -> Request]
    BY Zenon, <1>2, <1>13 DEF MainStep, MainLoop, ScheduleLocked, Schedule, GreenletEnds,
       QueryTasksOutcome
  <1>. QED
    BY Zenon, <1>5, <1>6, <1>7, <1>8, <1>9, <1>10, <1>11, <1>12, <1>13 DEF Next, RequestStep

\* Every step keeps the types of the session.
LEMMA UserTypeStep == TypeInv /\ CountInv /\ UserTypes /\ Next => UserTypes'
  <1>. SUFFICES ASSUME TypeInv, CountInv, UserTypes PROVE Next => UserTypes'
    BY Zenon
  <1>. USE DEF taskVars, userVars, backVars
  <1>1. ASSUME UNCHANGED userVars PROVE UserTypes'
    BY <1>1, Zenon DEF UserTypes
  <1>2. opened \in Nat /\ MaxSessions \in Nat
    BY SessionsAssumption DEF TypeInv
  <1>3. DataLogout =>
          /\ data' \in [db : 0 .. opened, loggedIn : BOOLEAN, named : BOOLEAN]
          /\ open' \subseteq 1 .. opened
    BY Zenon DEF DataLogout, UserTypes
  <1>4. ASSUME NEW t, Unlocked(t) PROVE UserTypes'
    <2>1. 0 .. opened \subseteq 0 .. opened + 1 /\ 1 .. opened \subseteq 1 .. opened + 1
          /\ opened + 1 \in 1 .. opened + 1 /\ opened + 1 \in 0 .. opened + 1
      BY <1>2
    <2>2. data' \in [db : 0 .. opened + 1, loggedIn : BOOLEAN, named : BOOLEAN]
      BY Zenon, <1>4, <2>1 DEF Unlocked
    <2>3. database' \in [TaskIds -> 0 .. opened + 1]
      BY Zenon, <1>4, <2>1 DEF Unlocked, UserTypes
    <2>4. /\ open' \subseteq 1 .. opened + 1 /\ opened' = opened + 1
          /\ UNCHANGED <<session, should, overlapped>>
      BY <1>4, <2>1, Zenon DEF Unlocked, UserTypes
    <2>. QED
      BY Zenon, <2>2, <2>3, <2>4 DEF UserTypes
  <1>5. ASSUME NEW t, LoginFails(t) \/ \E error : ThrownInUpgrade(t, error) PROVE UserTypes'
    <2>1. DataLogout /\ UNCHANGED <<opened, session, should, database, overlapped>>
      BY Zenon, <1>5 DEF LoginFails, ThrownInUpgrade
    <2>. QED
      BY Zenon, <1>3, <2>1 DEF UserTypes
  <1>6. ASSUME NEW t \in DOMAIN task, TaskManagerCreated(t) PROVE UserTypes'
    <2>1. /\ UNCHANGED <<data, open, opened, should, overlapped>>
          /\ session' = [session EXCEPT !.manager = t]
          /\ database' = [database EXCEPT ![t] = data.db]
      BY Zenon, <1>6 DEF TaskManagerCreated
    <2>2. session' \in [loggedIn : BOOLEAN, manager : TaskIds \cup {NoOne}]
      BY Zenon, <2>1, IdsBounded DEF UserTypes
    <2>3. database' \in [TaskIds -> 0 .. opened]
      BY Zenon, <2>1 DEF UserTypes
    <2>. QED
      BY Zenon, <2>1, <2>2, <2>3 DEF UserTypes
  <1>13. ASSUME NEW t \in DOMAIN task, LoggedIn(t) PROVE UserTypes'
    BY Zenon, <1>13 DEF LoggedIn, UserTypes
  <1>14. ASSUME NEW t \in DOMAIN task, TaskStarts(t) PROVE UserTypes'
    <2>1. UNCHANGED <<data, open, opened, session, should, database>>
      BY Zenon, <1>14 DEF TaskStarts
    <2>2. overlapped' \in BOOLEAN
      BY Zenon, <1>14 DEF TaskStarts, UserTypes
    <2>. QED
      BY Zenon, <2>1, <2>2 DEF UserTypes
  <1>7. ASSUME NEW t, QueryReturns(t) PROVE UserTypes'
    BY Zenon, <1>7 DEF QueryReturns, UserTypes
  <1>8. ASSUME NEW r \in Requests, LoggedOut(r) PROVE UserTypes'
    <2>1. session' \in [loggedIn : BOOLEAN, manager : TaskIds \cup {NoOne}]
      BY Zenon, <1>8 DEF LoggedOut
    <2>. QED
      BY Zenon, <1>3, <1>8, <2>1 DEF LoggedOut, UserTypes
  <1>9. ASSUME NEW r \in Requests, GreenletsCleared(r) PROVE UserTypes'
    BY Zenon, <1>9 DEF GreenletsCleared, UserTypes
  <1>10. ASSUME NEW t, \/ LoginRaises(t) \/ QueryRaises(t) \/ WriteTaskResult(t)
                       \/ HandleKilledGreenlet(t)
                       \/ \E error : ThrownEnds(t, error) \/ ThrownInMigration(t, error)
         PROVE  UserTypes'
    BY <1>1, <1>10, Zenon DEF LoginRaises, QueryRaises, WriteTaskResult, HandleKilledGreenlet,
       ThrownEnds, ThrownInMigration
  <1>11. ASSUME NEW r \in Requests,
                \/ NewTask(r) \/ TaskDeleted(r) \/ TasksKilled(r) \/ LogoutLocked(r)
                \/ UserLogout(r) \/ \E kind : QueryAsync(r, kind)
                \/ \E idx \in 1 .. MaxTasks : DeleteAsyncTask(r, idx)
         PROVE  UserTypes'
    BY <1>1, <1>11, Zenon DEF NewTask, TaskDeleted, TasksKilled, LogoutLocked, UserLogout,
       QueryAsync, DeleteAsyncTask
  <1>12. ASSUME \/ MainStep \/ GreenletEnds \/ \E idx \in 1 .. MaxTasks : QueryTasksOutcome(idx)
         PROVE  UserTypes'
    BY <1>1, <1>12, Zenon DEF MainStep, MainLoop, ScheduleLocked, Schedule, GreenletEnds,
       QueryTasksOutcome
  <1>. QED
    BY Zenon, <1>4, <1>5, <1>6, <1>7, <1>8, <1>9, <1>10, <1>11, <1>12, <1>13, <1>14
    DEF Next, RequestStep, TaskStep, Thrown

\* Every step keeps the types of the locks and of the background greenlets.
LEMMA BackTypeStep == TypeInv /\ ScheduleInv /\ BackTypes /\ Next => BackTypes'
  <1>. SUFFICES ASSUME TypeInv, ScheduleInv, BackTypes PROVE Next => BackTypes'
    BY Zenon
  <1>. USE DEF taskVars, userVars, backVars
  <1>1. ASSUME taskLock' = taskLock, UNCHANGED backVars PROVE BackTypes'
    BY <1>1, Zenon DEF BackTypes
  <1>2. ASSUME taskLock' = taskLock, running' \in 0 .. MaxTasksNum, UNCHANGED <<scheduleLock, main>>
        PROVE  BackTypes'
    BY <1>2, Zenon DEF BackTypes
  <1>3. ASSUME taskLock' \in Requests \cup {NoOne}, UNCHANGED backVars PROVE BackTypes'
    BY <1>3, Zenon DEF BackTypes
  <1>4. ASSUME NEW m, NEW holder \in Requests \cup {NoOne, "main"}, taskLock' = taskLock,
               scheduleLock' = [scheduleLock EXCEPT ![m] = holder], UNCHANGED <<running, main>>
        PROVE  BackTypes'
    BY <1>4, Zenon DEF BackTypes
  <1>5. ASSUME NEW t, Unlocked(t) \/ TaskManagerCreated(t) \/ LoggedIn(t) PROVE BackTypes'
    <2>1. SpawnAndTrack(1) \/ SpawnAndTrack(2)
      BY Zenon, <1>5 DEF Unlocked, TaskManagerCreated, LoggedIn
    <2>2. running' \in 0 .. MaxTasksNum
      BY <2>1, SessionsAssumption DEF SpawnAndTrack, BackTypes
    <2>. QED
      BY <1>2, <1>5, <2>2, Zenon DEF Unlocked, TaskManagerCreated, LoggedIn
  <1>6. ASSUME NEW t, \/ TaskStarts(t) \/ QueryReturns(t) \/ QueryRaises(t) \/ LoginFails(t)
                      \/ LoginRaises(t) \/ WriteTaskResult(t) \/ HandleKilledGreenlet(t)
                      \/ \E error : \/ ThrownEnds(t, error) \/ ThrownInUpgrade(t, error)
                                    \/ ThrownInMigration(t, error)
        PROVE  BackTypes'
    BY <1>1, <1>6, Zenon DEF TaskStarts, QueryReturns, QueryRaises, LoginFails,
       LoginRaises, WriteTaskResult, HandleKilledGreenlet, ThrownEnds, ThrownInUpgrade, ThrownInMigration
  <1>7. ASSUME NEW r \in Requests,
               \/ NewTask(r) \/ TasksKilled(r) \/ UserLogout(r) \/ \E kind : QueryAsync(r, kind)
        PROVE  BackTypes'
    BY <1>1, <1>7, Zenon DEF NewTask, TasksKilled, UserLogout, QueryAsync
  <1>8. ASSUME NEW r \in Requests,
               TaskDeleted(r) \/ \E idx \in 1 .. MaxTasks : DeleteAsyncTask(r, idx)
        PROVE  BackTypes'
    BY <1>3, <1>8, Zenon DEF TaskDeleted, DeleteAsyncTask
  <1>9. ASSUME NEW r \in Requests, LogoutLocked(r) \/ LoggedOut(r) PROVE BackTypes'
    BY <1>1, <1>4, <1>9, Zenon DEF LogoutLocked, LoggedOut
  <1>10. ASSUME NEW r \in Requests, GreenletsCleared(r) PROVE BackTypes'
    <2>1. running' \in 0 .. MaxTasksNum
      BY <1>10, SessionsAssumption DEF GreenletsCleared
    <2>. QED
      BY <1>2, <1>10, <2>1, Zenon DEF GreenletsCleared
  <1>11. ASSUME MainLoop \/ ScheduleLocked PROVE BackTypes'
    <2>1. main' \in [pc : {"schedule_lock", "schedule"}, manager : TaskIds]
      BY <1>11 DEF MainLoop, ScheduleLocked, TypeInv, ScheduleInv
    <2>. QED
      BY <1>11, <2>1, Zenon DEF MainLoop, ScheduleLocked, BackTypes
  <1>12. ASSUME Schedule PROVE BackTypes'
    <2>1. running' \in 0 .. MaxTasksNum
      <3>1. FreePlaces \in Nat /\ running + FreePlaces \in 0 .. MaxTasksNum
        BY SessionsAssumption DEF FreePlaces, BackTypes, TypeInv
      <3>2. PICK spawned \in 0 .. FreePlaces : running' = running + spawned
        BY Zenon, <1>12 DEF Schedule
      <3>. QED
        BY <3>1, <3>2, SessionsAssumption DEF BackTypes
    <2>2. main' \in [pc : {"wait_event", "dead"}]
      BY <1>12 DEF Schedule
    <2>. QED
      BY <1>12, <2>1, <2>2, Zenon DEF Schedule, BackTypes
  <1>13. ASSUME GreenletEnds PROVE BackTypes'
    <2>1. running' \in 0 .. MaxTasksNum
      BY <1>13, SessionsAssumption DEF GreenletEnds, BackTypes
    <2>. QED
      BY <1>2, <1>13, <2>1, Zenon DEF GreenletEnds
  <1>14. ASSUME NEW idx, QueryTasksOutcome(idx) PROVE BackTypes'
    BY <1>1, <1>14, Zenon DEF QueryTasksOutcome
  <1>. QED
    BY Zenon, <1>5, <1>6, <1>7, <1>8, <1>9, <1>10, <1>11, <1>12, <1>13, <1>14
    DEF Next, RequestStep, TaskStep, Thrown, MainStep

AllTypes ==
    /\ Inv /\ ListInv /\ DeadInv
    /\ request \in [Requests -> Request] /\ UserTypes /\ BackTypes

\* Every variable keeps its type with any number of requests, tasks and logins: a task
\* has an id of its own and is in the list at most once, exceptions are thrown only at
\* live tasks, and only dead ones have results.
THEOREM TypeCorrect == Spec => []TypeOK
  <1>1. Init => ListInv /\ DeadInv /\ request \in [Requests -> Request]
                /\ UserTypes /\ BackTypes
    <2>. SUFFICES ASSUME Init PROVE /\ ListInv /\ DeadInv
                                    /\ request \in [Requests -> Request]
                                    /\ UserTypes /\ BackTypes
      BY Zenon
    <2>. USE DEF Init
    <2>2. ListInv /\ DeadInv
      BY DEF ListInv, DeadInv, Range, IsInjective
    <2>3. request \in [Requests -> Request]
      BY Zenon DEF Request
    <2>4. UserTypes
      <3>1. 0 \in 0 .. 0
        OBVIOUS
      <3>. QED
        BY Zenon, <3>1 DEF UserTypes
    <2>5. BackTypes
      <3>1. 0 \in 0 .. MaxTasksNum
        BY SessionsAssumption
      <3>. QED
        BY Zenon, <3>1 DEF BackTypes
    <2>. QED
      BY Zenon, <2>2, <2>3, <2>4, <2>5
  <1>2. Inv /\ AllTypes /\ [Next]_vars /\ Inv' => AllTypes'
    <2>. SUFFICES ASSUME AllTypes, [Next]_vars, Inv' PROVE AllTypes'
      BY Zenon
    <2>1. CASE Next
      BY <2>1, ListStep, DeadStep, RequestTypeStep, UserTypeStep, BackTypeStep, Zenon
      DEF AllTypes, Inv
    <2>2. CASE UNCHANGED vars
      BY <2>2, Zenon DEF AllTypes, ListInv, DeadInv, Alive, UserTypes,
         BackTypes, vars, taskVars, userVars, backVars
    <2>. QED
      BY Zenon, <2>1, <2>2
  <1>3. AllTypes => TypeOK
    <2>. SUFFICES ASSUME AllTypes PROVE TypeOK
      BY Zenon
    <2>1. DOMAIN task \subseteq TaskIds
      BY Zenon, IdsBounded DEF AllTypes, Inv
    <2>. QED
      BY <2>1, Zenon DEF AllTypes, Inv, TypeInv, ListInv, DeadInv, UserTypes, BackTypes, TypeOK
  <1>4. Inv /\ ListInv /\ DeadInv /\ request \in [Requests -> Request]
        /\ UserTypes /\ BackTypes => AllTypes
    BY Zenon DEF AllTypes
  <1>. QED
    BY <1>1, <1>2, <1>3, <1>4, Invariance, PTL DEF Spec
=============================================================================
