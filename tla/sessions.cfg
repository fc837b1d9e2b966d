SPECIFICATION FairSpec
CONSTANTS
    r1 = r1
    r2 = r2
    Requests = {r1, r2}
    NoOne = NoOne
    MaxTasks = 2
    MaxSessions = 2
    MaxTasksNum = 1
CHECK_DEADLOCK FALSE
INVARIANT TypeOK
INVARIANT CancelledIsPopped
INVARIANT LoggedInIsOpen
INVARIANT ScheduleExcludesLogout
PROPERTY RequestsAreAnswered
PROPERTY TasksGetOutcomes
