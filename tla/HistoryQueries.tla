--------------------------- MODULE HistoryQueries ---------------------------
(***************************************************************************)
(* Querying the history of one account and remembering which period has    *)
(* been queried: DBQueryRanges (db/ranges.py), the history queries of      *)
(* ExchangeInterface (exchanges/exchange.py) and the transaction queries   *)
(* of EvmTransactions (chain/evm/transactions.py) on top of the batches of *)
(* Etherscan.get_transactions (externalapis/etherscan.py).                 *)
(*                                                                         *)
(* A row of used_query_ranges says that everything between its two         *)
(* timestamps was asked for and stored.  Rows of different names never     *)
(* meet, so the module follows one name, of any kind:                      *)
(*   "trades", "movements"  exchange queries that run under a lock         *)
(*                          ("movements" stands for the asset movements    *)
(*                          and for the income/loss events alike);         *)
(*   "margins"              the exchange query that takes no lock;         *)
(*   "txs", "internaltxs", "tokentxs"  the three queries of an address.    *)
(* A write context is one step: DBConnection shows that it is.             *)
(***************************************************************************)
EXTENDS Integers, Sequences, FiniteSets

CONSTANTS
    Tasks,        \* greenlets that run a query
    Kinds,        \* the kinds of names
    Remotes,      \* the histories the remote may have: timestamps in order
    MaxTs,        \* bound: the last second of the model's time
    BatchNum,     \* TRANSACTIONS_BATCH_NUM
    MaxQueries,   \* bound on the number of queries
    Remover,      \* the request that removes the address
    Free          \* nobody holds the lock

Time == 0 .. MaxTs
ExchangeKinds == {"trades", "movements", "margins"}
EvmKinds == {"txs", "internaltxs", "tokentxs"}

ASSUME QueryAssumption ==
    /\ MaxTs \in Nat /\ BatchNum \in Nat \ {0} /\ MaxQueries \in Nat
    /\ Kinds \subseteq ExchangeKinds \cup EvmKinds
    /\ Remotes \subseteq Seq(Time \ {0})
    /\ \A history \in Remotes : \A i, j \in DOMAIN history :
         i <= j => history[i] <= history[j]
    /\ Remover \notin Tasks /\ Free \notin Tasks \cup {Remover}

VARIABLES
    kind,       \* the kind of the name
    remote,     \* the timestamp of every entry the remote has
    saved,      \* the row of used_query_ranges, or NoRange
    stored,     \* the entries in the DB
    lock,       \* the query lock of the exchange, or address_tx_locks[address]
    remover,    \* the progress of remove_single_blockchain_accounts
    pc,         \* the next step of each task
    want,       \* its start_ts and end_ts
    todo,       \* ranges_to_query from the one being queried on
    fetched,    \* the entries of the answer that is to be saved
    answer,     \* the range the answer is said to cover
    at,         \* the last entry stored of the range being queried, 0 if none
    unlocked,   \* tasks that query without the lock
    begun,      \* the number of queries begun
    causes      \* history: what happened that can lose entries

taskVars == <<pc, want, todo, fetched, answer, at>>
vars == <<kind, remote, saved, stored, lock, remover, taskVars, unlocked, begun, causes>>

Ranges == [lo : Time, hi : Time]
NoRange == [lo |-> 0, hi |-> -1]
Period(lo, hi) == [lo |-> lo, hi |-> hi]
Within(r) == {i \in DOMAIN remote : r.lo <= remote[i] /\ remote[i] <= r.hi}

-----------------------------------------------------------------------------
\* DBQueryRanges

\* mutant of get_location_query_ranges: the end is taken as exclusive
RangesWithOpenEnd(row, start, end) ==
    LET below == IF start < row.lo THEN <<Period(start, row.lo)>> ELSE <<>>
    IN  IF row = NoRange THEN <<Period(start, end + 1)>>
        ELSE IF end > row.hi THEN Append(below, Period(row.hi, end + 1)) ELSE below

\* mutant of get_location_query_ranges: only later entries are looked for
RangesAfterRow(row, start, end) ==
    IF row = NoRange THEN <<Period(start, end)>>
    ELSE IF end > row.hi THEN <<Period(row.hi + 1, end)>> ELSE <<>>

get_location_query_ranges(row, start, end) ==
    LET below == IF start < row.lo THEN <<Period(start, row.lo - 1)>> ELSE <<>>
    IN  IF row = NoRange THEN <<Period(start, end)>>
        ELSE IF end > row.hi THEN Append(below, Period(row.hi + 1, end)) ELSE below

update_used_query_range(row, r) ==
    IF row = NoRange THEN r
    ELSE Period(IF r.lo < row.lo THEN r.lo ELSE row.lo,
               IF r.hi > row.hi THEN r.hi ELSE row.hi)

-----------------------------------------------------------------------------
\* What all queries share

Init ==
    /\ kind \in Kinds /\ remote \in Remotes
    /\ saved = NoRange /\ stored = {}
    /\ lock = Free /\ remover = "idle"
    /\ pc = [t \in Tasks |-> "idle"]
    /\ want = [t \in Tasks |-> NoRange] /\ answer = [t \in Tasks |-> NoRange]
    /\ todo = [t \in Tasks |-> <<>>] /\ fetched = [t \in Tasks |-> {}]
    /\ at = [t \in Tasks |-> 0]
    /\ unlocked = {} /\ begun = 0 /\ causes = {}

\* a query that has read the row and may still write it
Querying(t) == pc[t] \in {"query", "save", "mark"}

Begin(t, start, end) ==
    /\ pc[t] = "idle" /\ begun < MaxQueries
    /\ want' = [want EXCEPT ![t] = Period(start, end)]
    /\ begun' = begun + 1
    /\ UNCHANGED <<kind, remote, saved, stored, lock, remover,
                   todo, fetched, answer, at, causes>>

\* query_trade_history and the like, and single_address_query_transactions
BeginLocked(t) ==
    /\ kind # "margins"
    /\ \E start, end \in Time : start <= end /\ Begin(t, start, end)
    /\ pc' = [pc EXCEPT ![t] = "lock"]
    /\ UNCHANGED unlocked

\* query_margin_history, and ensure_genesis_tx_data_exists, which asks for the
\* second 0 of every tracked address without its lock
BeginUnlocked(t) ==
    /\ \/ kind = "margins" /\ \E start, end \in Time : start <= end /\ Begin(t, start, end)
       \/ kind = "txs" /\ Begin(t, 0, 0)
    /\ pc' = [pc EXCEPT ![t] = "read"]
    /\ unlocked' = unlocked \cup {t}

Acquire(t) ==
    /\ pc[t] = "lock" /\ lock = Free
    /\ lock' = t
    /\ pc' = [pc EXCEPT ![t] = "read"]
    /\ UNCHANGED <<kind, remote, saved, stored, remover, want, todo, fetched,
                   answer, at, unlocked, begun, causes>>

ReadRanges(t) ==
    /\ pc[t] = "read"
    /\ todo' = [todo EXCEPT ![t] =
                  get_location_query_ranges(saved, want[t].lo, want[t].hi)]
    /\ at' = [at EXCEPT ![t] = 0]
    /\ pc' = [pc EXCEPT ![t] = "query"]
    /\ causes' = IF \E u \in Tasks \ {t} : Querying(u) /\ {t, u} \cap unlocked # {}
                   THEN causes \cup {"overlap"} ELSE causes
    /\ UNCHANGED <<kind, remote, saved, stored, lock, remover, want, fetched,
                   answer, unlocked, begun>>

\* mutant of Leave: the lock is acquired without with
LeaveWithLock(t) ==
    /\ pc' = [pc EXCEPT ![t] = "idle"]
    /\ want' = [want EXCEPT ![t] = NoRange] /\ answer' = [answer EXCEPT ![t] = NoRange]
    /\ todo' = [todo EXCEPT ![t] = <<>>] /\ fetched' = [fetched EXCEPT ![t] = {}]
    /\ at' = [at EXCEPT ![t] = 0]
    /\ UNCHANGED lock /\ unlocked' = unlocked \ {t}

\* The query ends: its locals are gone, and the with statement around it gives
\* the lock back however it ends.
Leave(t) ==
    /\ pc' = [pc EXCEPT ![t] = "idle"]
    /\ lock' = IF lock = t THEN Free ELSE lock
    /\ want' = [want EXCEPT ![t] = NoRange] /\ answer' = [answer EXCEPT ![t] = NoRange]
    /\ todo' = [todo EXCEPT ![t] = <<>>] /\ fetched' = [fetched EXCEPT ![t] = {}]
    /\ at' = [at EXCEPT ![t] = 0]
    /\ unlocked' = unlocked \ {t}

\* What an interruption of an address query can lose: the rest of a period just
\* below the row, once a first batch of it has been entered in the row, and the
\* other entries of the second the row ends with.
Interrupted(t) ==
    IF kind \notin EvmKinds \/ ~Querying(t) \/ at[t] = 0 THEN {}
    ELSE (IF Head(todo[t]).hi < saved.hi THEN {"interrupted_below"} ELSE {})
         \cup (IF \E i \in DOMAIN remote : i > at[t] /\ remote[i] = remote[at[t]]
                 THEN {"interrupted_second"} ELSE {})

\* the task is cancelled, the user logs out or the address is removed
Kill(t) ==
    /\ pc[t] # "idle"
    /\ Leave(t)
    /\ causes' = causes \cup Interrupted(t)
    /\ UNCHANGED <<kind, remote, saved, stored, remover, begun>>

-----------------------------------------------------------------------------
\* ExchangeInterface

\* the entries of the answer, and the period they are said to be all entries of
Answer(t, entries, period) ==
    /\ fetched' = [fetched EXCEPT ![t] = entries]
    /\ answer' = [answer EXCEPT ![t] = period]

\* query_online_...: everything in the period. When kraken failed before the last
\* page, its trades come with a shorter period. Elsewhere such an error only leaves
\* a message (kraken's movements, gemini's trades of a symbol), like an entry that
\* cannot be read: the rest is taken for the whole period.
QueryOnline(t) ==
    /\ kind \in ExchangeKinds
    /\ pc[t] = "query" /\ todo[t] # <<>>
    /\ \/ Answer(t, Within(Head(todo[t])), Head(todo[t])) /\ UNCHANGED causes
       \/ /\ kind = "trades"
          /\ \E got \in SUBSET Within(Head(todo[t])) :
             \E max_ts \in {0} \cup {remote[i] : i \in got} :
               /\ \A i \in got : remote[i] <= max_ts
               /\ Answer(t, got, Period(Head(todo[t]).lo, max_ts))
          /\ causes' = causes \cup {"short_answer"}
       \/ /\ kind \in {"trades", "movements"}
          /\ \E got \in SUBSET Within(Head(todo[t])) \ {Within(Head(todo[t]))} :
               Answer(t, got, Head(todo[t]))
          /\ causes' = causes \cup {"swallowed_error"}
    /\ pc' = [pc EXCEPT ![t] = "save"]
    /\ UNCHANGED <<kind, remote, saved, stored, lock, remover, want, todo, at,
                   unlocked, begun>>

\* one write context: the entries and the range
SaveAnswer(t) ==
    /\ pc[t] = "save"
    /\ stored' = stored \cup fetched[t]
    /\ saved' = update_used_query_range(saved, answer[t])
    /\ todo' = [todo EXCEPT ![t] = Tail(todo[t])]
    /\ fetched' = [fetched EXCEPT ![t] = {}] /\ answer' = [answer EXCEPT ![t] = NoRange]
    /\ pc' = [pc EXCEPT ![t] = "query"]
    /\ UNCHANGED <<kind, remote, lock, remover, want, at, unlocked, begun, causes>>

\* query_online_... raises RemoteError
ExchangeFails(t) ==
    /\ kind \in ExchangeKinds
    /\ pc[t] = "query" /\ todo[t] # <<>>
    /\ Leave(t)
    /\ UNCHANGED <<kind, remote, saved, stored, remover, begun, causes>>

ExchangeDone(t) ==
    /\ kind \in ExchangeKinds
    /\ pc[t] = "query" /\ todo[t] = <<>>
    /\ Leave(t)
    /\ UNCHANGED <<kind, remote, saved, stored, remover, begun, causes>>

\* purge_exchange_data: the margin positions stay
PurgeExchangeData ==
    /\ kind \in ExchangeKinds
    /\ saved' = NoRange
    /\ stored' = IF kind = "margins" THEN stored ELSE {}
    /\ causes' = IF \E t \in Tasks : Querying(t) THEN causes \cup {"purged"} ELSE causes
    /\ UNCHANGED <<kind, remote, lock, remover, taskVars, unlocked, begun>>

-----------------------------------------------------------------------------
\* EvmTransactions

\* the entries of the period that are still to come
Rest(t) == {i \in Within(Head(todo[t])) : i > at[t]}

\* get_transactions ends a batch of at least BatchNum transactions before the
\* first one that is later than the batch's first
StartsBatch(t, i) ==
    \E first \in Rest(t) : /\ \A j \in Rest(t) : first <= j
                          /\ remote[i] > remote[first] /\ i - first >= BatchNum

\* the last of the entries that are stored together; internal transactions and
\* token transfers are stored one at a time
EndsBatch(t, last) ==
    \/ /\ kind = "txs"
       /\ \A i \in Rest(t) : i <= last => ~StartsBatch(t, i)
       /\ \A i \in Rest(t) : i > last => \E j \in Rest(t) : j = last + 1 /\ StartsBatch(t, j)
    \/ kind # "txs" /\ \A i \in Rest(t) : last <= i

\* add_evm_transactions, add_evm_internal_transactions, get_or_create_transaction
StoreBatch(t) ==
    /\ kind \in EvmKinds
    /\ pc[t] = "query" /\ todo[t] # <<>>
    /\ \E last \in Rest(t) :
         /\ EndsBatch(t, last)
         /\ stored' = stored \cup {i \in Rest(t) : i <= last}
         /\ at' = [at EXCEPT ![t] = last]
    /\ pc' = [pc EXCEPT ![t] = "mark"]
    /\ UNCHANGED <<kind, remote, saved, lock, remover, want, todo, fetched,
                   answer, unlocked, begun, causes>>

\* a second write context enters the period up to the last entry of the batch
MarkBatch(t) ==
    /\ pc[t] = "mark"
    /\ saved' = update_used_query_range(saved, Period(Head(todo[t]).lo, remote[at[t]]))
    /\ pc' = [pc EXCEPT ![t] = "query"]
    /\ UNCHANGED <<kind, remote, stored, lock, remover, want, todo, fetched,
                   answer, at, unlocked, begun, causes>>

NextRange(t) ==
    /\ todo' = [todo EXCEPT ![t] = Tail(todo[t])]
    /\ at' = [at EXCEPT ![t] = 0]

RangeDone(t) ==
    /\ kind \in EvmKinds
    /\ pc[t] = "query" /\ todo[t] # <<>> /\ Rest(t) = {}
    /\ NextRange(t)
    /\ UNCHANGED <<kind, remote, saved, stored, lock, remover, pc, want, fetched,
                   answer, unlocked, begun, causes>>

\* mutant of EvmFails: no transaction query returns on an error
EvmFailsAndGoesOn(t) ==
    /\ kind \in EvmKinds
    /\ pc[t] = "query" /\ todo[t] # <<>>
    /\ NextRange(t)
    /\ causes' = IF kind = "tokentxs" THEN causes \cup {"token_error"} ELSE causes
    /\ UNCHANGED <<kind, remote, saved, stored, lock, remover, pc, want, fetched,
                   answer, unlocked, begun>>

\* RemoteError: the transaction queries return, the token query goes on to the
\* next period
EvmFails(t) ==
    /\ kind \in EvmKinds
    /\ pc[t] = "query" /\ todo[t] # <<>>
    /\ \/ /\ kind # "tokentxs"
          /\ Leave(t)
          /\ causes' = causes \cup Interrupted(t)
       \/ /\ kind = "tokentxs"
          /\ NextRange(t)
          /\ causes' = causes \cup {"token_error"}
          /\ UNCHANGED <<pc, lock, want, fetched, answer, unlocked>>
    /\ UNCHANGED <<kind, remote, saved, stored, remover, begun>>

\* entire range is now considered queried
EvmDone(t) ==
    /\ kind \in EvmKinds
    /\ pc[t] = "query" /\ todo[t] = <<>>
    /\ saved' = update_used_query_range(saved, want[t])
    /\ Leave(t)
    /\ UNCHANGED <<kind, remote, stored, remover, begun, causes>>

\* remove_single_blockchain_accounts: wait_until_no_query_for takes the locks of
\* the addresses one by one; delete_transactions runs with all of them
RemoveLocks ==
    /\ kind \in EvmKinds
    /\ remover = "idle" /\ lock = Free
    /\ lock' = Remover /\ remover' = "holding"
    /\ UNCHANGED <<kind, remote, saved, stored, taskVars, unlocked, begun, causes>>

RemoveAddress ==
    /\ remover = "holding"
    /\ saved' = NoRange /\ stored' = {}
    /\ lock' = Free /\ remover' = "idle"
    /\ causes' = IF \E t \in Tasks : Querying(t) THEN causes \cup {"purged"} ELSE causes
    /\ UNCHANGED <<kind, remote, taskVars, unlocked, begun>>

\* cancelled while it waits for another lock: no finally gives this one back
RemoveKilled ==
    /\ remover = "holding"
    /\ remover' = "killed"
    /\ UNCHANGED <<kind, remote, saved, stored, lock, taskVars, unlocked, begun, causes>>

-----------------------------------------------------------------------------
Step(t) ==
    \/ Acquire(t) \/ ReadRanges(t)
    \/ QueryOnline(t) \/ SaveAnswer(t) \/ ExchangeFails(t) \/ ExchangeDone(t)
    \/ StoreBatch(t) \/ MarkBatch(t) \/ RangeDone(t) \/ EvmFails(t) \/ EvmDone(t)

Next ==
    \/ \E t \in Tasks : BeginLocked(t) \/ BeginUnlocked(t) \/ Step(t) \/ Kill(t)
    \/ PurgeExchangeData
    \/ RemoveLocks \/ RemoveAddress \/ RemoveKilled

Spec == Init /\ [][Next]_vars

\* gevent resumes every greenlet that can run, and hands a semaphore to those
\* that wait for it in their order
FairSpec ==
    /\ Spec
    /\ \A t \in Tasks : WF_vars(Step(t)) /\ SF_vars(Acquire(t))
    /\ WF_vars(RemoveAddress \/ RemoveKilled)
-----------------------------------------------------------------------------
\* Properties

\* what can make the row claim too much
Causes ==
    {"overlap", "purged", "short_answer", "swallowed_error", "interrupted_below",
     "interrupted_second", "token_error"}

\* Every variable holds what the code can put there: DBQueryRanges never writes
\* a row that reaches outside the time that was queried.
TypeOK ==
    /\ kind \in Kinds /\ remote \in Remotes
    /\ saved \in Ranges \cup {NoRange}
    /\ stored \subseteq DOMAIN remote
    /\ lock \in Tasks \cup {Free, Remover}
    /\ remover \in {"idle", "holding", "killed"}
    /\ pc \in [Tasks -> {"idle", "lock", "read", "query", "save", "mark"}]
    /\ want \in [Tasks -> Ranges \cup {NoRange}]
    /\ todo \in [Tasks -> Seq(Ranges)]
    /\ fetched \in [Tasks -> SUBSET DOMAIN remote]
    /\ answer \in [Tasks -> Ranges \cup {NoRange}]
    /\ at \in [Tasks -> {0} \cup DOMAIN remote]
    /\ unlocked \subseteq Tasks /\ begun \in 0 .. MaxQueries
    /\ causes \subseteq Causes

\* every entry inside the row is in the DB, or about to be
RowIsStored ==
    \A i \in Within(saved) :
        i \in stored \/ \E t \in Tasks : Querying(t) /\ todo[t] # <<>> /\ i \in Rest(t)

\* The row never covers an entry that is neither in the DB nor in the period a
\* running query is still to get (get_location_query_ranges would never ask for
\* it again), whatever queries run, fail or are cancelled, unless: a query without
\* a lock overlapped another one, data was deleted while a query ran, kraken
\* answered for a shorter period, an exchange swallowed an error of the remote and
\* left out entries, a query was interrupted below the row or within the second the
\* row ends with, or the token query failed.
SavedIsStored == causes = {} => RowIsStored

\* As long as none of the same things happened, a query that ends normally leaves
\* all entries of the time it was asked for in the DB and that time inside the row,
\* so that what query_trade_history and the others then read from the DB is complete.
DoneIsComplete ==
    [][\A t \in Tasks :
         (ExchangeDone(t) \/ EvmDone(t)) /\ causes = {} =>
            /\ Within(want[t]) \subseteq stored'
            /\ saved'.lo <= want[t].lo /\ want[t].hi <= saved'.hi]_vars

\* A query that begins comes to an end, unless the removal of the address was
\* cancelled between two locks and kept this one: wait_until_no_query_for has no
\* finally.
QueriesEnd ==
    \A t \in Tasks : pc[t] # "idle" ~> (pc[t] = "idle" \/ remover = "killed")
=============================================================================
