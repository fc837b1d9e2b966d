SPECIFICATION FairSpec
CONSTANTS
    Tasks = {t1, t2}
    Kinds = {"trades", "movements", "margins", "txs", "internaltxs", "tokentxs"}
    Remotes <- SmallHistories
    MaxTs = 3
    BatchNum = 2
    MaxQueries = 2
    Remover = Remover
    Free = Free
INVARIANTS TypeOK SavedIsStored
PROPERTIES DoneIsComplete QueriesEnd
CHECK_DEADLOCK FALSE
