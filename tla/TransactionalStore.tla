------------------------- MODULE TransactionalStore -------------------------
(***************************************************************************)
(* What rotki's code expects of write_ctx and savepoint_ctx, without locks,*)
(* polling loops, callbacks or savepoint stacks: each client collects rows *)
(* in its own open context, may lose some or all of them again (an inner   *)
(* context or the whole one raised), and when its outermost context returns*)
(* all the rows it still holds become durable in ONE step.  Nothing else   *)
(* ever changes the store, and no client commits or drops rows of another. *)
(***************************************************************************)
CONSTANTS
    Clients,
    Rows

VARIABLES
    store,      \* the durable rows
    open,       \* the rows of each client's open contexts
    returned    \* the rows of contexts that reported success to their caller

storeVars == <<store, open, returned>>

StoreInit ==
    /\ store = {}
    /\ open = [c \in Clients |-> {}]
    /\ returned = {}

Write(c, row) ==
    /\ open' = [open EXCEPT ![c] = @ \union {row}]
    /\ UNCHANGED <<store, returned>>

Discard(c) ==
    /\ \E kept \in SUBSET open[c] : open' = [open EXCEPT ![c] = kept]
    /\ UNCHANGED <<store, returned>>

CommitContext(c) ==
    /\ store' = store \union open[c]
    /\ returned' = returned \union open[c]
    /\ open' = [open EXCEPT ![c] = {}]

\* a statement outside of any context is durable on its own
AutoCommit(c, row) ==
    /\ store' = store \union {row}
    /\ returned' = returned \union {row}
    /\ UNCHANGED open

StoreNext ==
    \E c \in Clients :
        \/ \E row \in Rows : Write(c, row) \/ AutoCommit(c, row)
        \/ Discard(c)
        \/ CommitContext(c)

StoreSpec == StoreInit /\ [][StoreNext]_storeVars
=============================================================================
