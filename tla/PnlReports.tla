----------------------------- MODULE PnlReports -----------------------------
(***************************************************************************)
(* PnL reports: Accountant.process_history (accounting/accountant.py), the *)
(* accounting pot that all reports share (accounting/pot.py), the cost     *)
(* basis calculator in it and the acquisitions of forked assets            *)
(* (accounting/cost_basis/prefork.py).                                     *)
(*                                                                         *)
(* Each report runs in a greenlet of its own.  A step goes from one point  *)
(* where the greenlet may switch (a price query, a write to the transient  *)
(* DB) to the next.  A report reads the history one event at a time; an    *)
(* event is [entries, ops], the number of history entries it takes from    *)
(* the iterator and the changes it makes to the pot.  A change is          *)
(* [dir, asset, amount, taxable, counted, given]: counted is               *)
(* count_cost_basis_pnl (FALSE for KFEE), given tells whether the caller   *)
(* passes a price.                                                         *)
(***************************************************************************)
EXTENDS CostBasis

CONSTANTS
    Overlap,        \* whether a report may start while another one runs
    Events,         \* the events that a history may hold
    Settings,       \* [method, period]: cost_basis_method, taxfree_after_period
    Rates,          \* the prices that the oracles answer with
    Fiat,           \* the assets with is_fiat()
    ForkTime,       \* ETH_DAO_FORK_TS
    MaxEvents       \* bound: the history entries that each report reads, in the
                    \* order in which the reports start

Reports == DOMAIN MaxEvents    \* the calls of process_history

Pools == {"ETH", "ETC", "EUR"}    \* the assets with acquisitions of their own

Changes == [dir : {"in", "out"}, asset : Pools \cup {"WETH"}, amount : Nat,
            taxable : BOOLEAN, counted : BOOLEAN, given : BOOLEAN]

ASSUME ReportsAssumption ==
    /\ Overlap \in BOOLEAN
    /\ Events \subseteq [entries : Nat \ {0}, ops : Seq(Changes)]
    /\ Settings \subseteq [method : Methods, period : Nat] /\ Settings # {}
    /\ Rates \subseteq Nat
    /\ Fiat \subseteq Pools
    /\ ForkTime \in Nat /\ MaxEvents \in Seq(Nat) /\ MaxEvents # <<>>

VARIABLES
    pc,         \* what each report does next
    local,      \* its [settings, read, count, ops, entries, rate]
    pot,        \* [settings, report, managers, missing] of pots[0]
    spent,      \* the CostBasisInfo of the change made last, or NoSpend
    ghost       \* what happened to the pot since its reset, see Fresh

vars == <<pc, local, pot, spent, ghost>>

NoSpend == [amount |-> 0, taxable |-> 0, matched |-> <<>>, ts |-> 0, missing |-> 0]

Idle == [settings |-> CHOOSE s \in Settings : TRUE,
         read |-> 0, count |-> 0, ops |-> <<>>, entries |-> 0, rate |-> 0]

\* get_events: WETH shares the acquisitions of ETH
Pool(asset) == IF asset = "WETH" THEN "ETH" ELSE asset

\* two events share each moment, except for the first
Time(l) == l.read \div 2

\* The amounts that the changes since the last reset leave, and what they did
\* not find, by plain arithmetic on totals; whether digits may have been lost;
\* whether a change left the forked assets apart from their parent.
Fresh == [balance |-> [a \in Pools |-> 0], short |-> [a \in Pools |-> 0],
          acquired |-> [a \in Pools |-> 0], large |-> FALSE, apart |-> FALSE]

FreshPot(settings, report) ==
    [settings |-> settings, report |-> report,
     managers |-> [a \in Pools |-> EmptyManager], missing |-> [a \in Pools |-> 0]]

Running(r) == pc[r] \notin {"new", "done", "error"}

Init ==
    /\ pc = [r \in Reports |-> "new"]
    /\ local = [r \in Reports |-> Idle]
    /\ pot = FreshPot(Idle.settings, 1)
    /\ spent = NoSpend
    /\ ghost = Fresh

-----------------------------------------------------------------------------
\* What the operations of the calculator do to the pot. at is where they are.

\* obtain_asset: the pots that it can lead to
ObtainAsset(p, asset, amount, ts, rate) ==
    {[p EXCEPT !.managers[Pool(asset)] = m] :
        m \in AddInEvent(p.managers[Pool(asset)], p.settings.method, amount, ts, rate)}

Acquired(g, asset, amount) ==
    [g EXCEPT !.balance[Pool(asset)] = @ + amount,
              !.acquired[Pool(asset)] = @ + amount,
              !.large = @ \/ g.acquired[Pool(asset)] + amount >= Limit]

Minus(a, b) == IF a < b THEN 0 ELSE a - b

\* reports: whether what is missing is added to missing_acquisitions
Spent(g, asset, amount, reports) ==
    LET held == g.balance[Pool(asset)]
    IN [g EXCEPT !.balance[Pool(asset)] = Minus(held, amount),
                 !.short[Pool(asset)] = IF reports THEN @ + Minus(amount, held) ELSE @,
                 !.large = @ \/ amount >= Limit]

\* reduce_asset_amount
Reduce(p, asset, amount) ==
    LET so == ReduceAssetAmount(p.managers[Pool(asset)], p.settings.method,
                                asset \in Fiat, amount)
    IN [error |-> so.error,
        pot |-> [p EXCEPT !.managers[Pool(asset)] = so.manager,
                          !.missing[Pool(asset)] = @ + so.missing]]

ReducedGhost(g, asset, amount) ==
    Spent(g, asset, amount, asset \notin Fiat /\ g.balance[Pool(asset)] > 0)

\* ETH that comes or goes before the fork takes as much ETC with it (prefork.py)
Forked(asset, ts) == asset = "ETH" /\ ts < ForkTime

Op(r) == Head(local[r].ops)
AtChange(r, dir) == pc[r] = "change" /\ local[r].ops # <<>> /\ Op(r).dir = dir

\* Greenlet r gets its turn and goes to step: a greenlet that does not wait is
\* not interrupted.
Goto(r, step) ==
    /\ \A q \in Reports \ {r} : pc[q] # "spend"
    /\ pc' = [pc EXCEPT ![r] = step]
EndChange(r) == local' = [local EXCEPT ![r].ops = Tail(@)] /\ Goto(r, "change")

-----------------------------------------------------------------------------
\* The head of process_history, up to the write of add_report
StartReport(r) ==
    /\ pc[r] = "new" /\ \A q \in 1 .. r - 1 : pc[q] # "new"
    /\ Overlap \/ \A q \in Reports : ~Running(q)
    /\ \E s \in Settings : local' = [local EXCEPT ![r].settings = s]
    /\ Goto(r, "reset")
    /\ UNCHANGED <<pot, spent, ghost>>

\* mutant of ResetPot: the list of missing acquisitions is not emptied
ResetPotKeepsMissing(r) ==
    /\ pc[r] = "reset"
    /\ pot' = [FreshPot(local[r].settings, r) EXCEPT !.missing = pot.missing]
    /\ spent' = NoSpend /\ ghost' = Fresh
    /\ Goto(r, "next")
    /\ UNCHANGED local

\* AccountingPot.reset and CostBasisCalculator.reset
ResetPot(r) ==
    /\ pc[r] = "reset"
    /\ pot' = FreshPot(local[r].settings, r)
    /\ spent' = NoSpend /\ ghost' = Fresh
    /\ Goto(r, "next")
    /\ UNCHANGED local

\* _process_event up to event.process(). A swap asks for its prices first. An
\* event that is ignored makes no change.
ReadEvent(r) ==
    /\ pc[r] = "next"
    /\ \E e \in Events :
          /\ local[r].read + e.entries <= MaxEvents[r]
          /\ local' = [local EXCEPT ![r].read = @ + e.entries, ![r].entries = e.entries,
                                   ![r].ops = e.ops]
          /\ Goto(r, IF Len(e.ops) > 1 THEN "prices" ELSE "change")
    /\ UNCHANGED <<pot, spent, ghost>>

\* get_prices_for_swap finds prices
SwapPrices(r) ==
    /\ pc[r] = "prices"
    /\ \E rate \in Rates : local' = [local EXCEPT ![r].rate = rate]
    /\ Goto(r, "change")
    /\ UNCHANGED <<pot, spent, ghost>>

\* It returns None. A swap whose fee was read as well says that it consumed two.
NoSwapPrices(r) ==
    /\ pc[r] = "prices"
    /\ local' = [local EXCEPT ![r].count = @ + (IF local[r].entries > 2 THEN 2 ELSE local[r].entries),
                             ![r].ops = <<>>]
    /\ Goto(r, "next")
    /\ UNCHANGED <<pot, spent, ghost>>

\* mutant of EndEvent: a swap counts its changes and itself
EndEventCountsMore(r) ==
    /\ pc[r] = "change" /\ local[r].ops = <<>>
    /\ local' = [local EXCEPT ![r].count = @ + 1 + local[r].entries]
    /\ Goto(r, "next")
    /\ UNCHANGED <<pot, spent, ghost>>

\* event.process() returned
EndEvent(r) ==
    /\ pc[r] = "change" /\ local[r].ops = <<>>
    /\ local' = [local EXCEPT ![r].count = @ + local[r].entries]
    /\ Goto(r, "next")
    /\ UNCHANGED <<pot, spent, ghost>>

\* the greenlet is gone
End(r, step) == Goto(r, step) /\ local' = [local EXCEPT ![r] = Idle]

\* No more events, or the limit of a free user: add_report_overview
EndReport(r) ==
    /\ pc[r] = "next"
    /\ End(r, "done")
    /\ UNCHANGED <<pot, spent, ghost>>

-----------------------------------------------------------------------------
\* "do nothing for zero acquisitions", "do nothing for zero spends"
ZeroChange(r) ==
    /\ pc[r] = "change" /\ local[r].ops # <<>> /\ Op(r).amount = 0
    /\ EndChange(r)
    /\ UNCHANGED <<pot, spent, ghost>>

\* add_in_event, up to the row of the forked asset if there is one. A price that
\* the oracles do not have counts as zero.
AddInEventOf(r) ==
    /\ AtChange(r, "in") /\ Op(r).amount > 0
    /\ \E rate \in IF Op(r).given THEN {local[r].rate} ELSE Rates \cup {0} :
          LET ts == Time(local[r])
              asset == IF Forked(Op(r).asset, ts) THEN "ETC" ELSE Op(r).asset
          IN /\ pot' \in ObtainAsset(pot, asset, Op(r).amount, ts, rate)
             /\ ghost' = [Acquired(ghost, asset, Op(r).amount)
                             EXCEPT !.apart = @ \/ Op(r).asset \in {"WETH", "ETC"}]
             /\ IF Forked(Op(r).asset, ts)
                THEN Goto(r, "obtain") /\ local' = [local EXCEPT ![r].rate = rate]
                ELSE EndChange(r)
    /\ spent' = NoSpend

\* the rest of add_in_event
Obtain(r) ==
    /\ pc[r] = "obtain"
    /\ pot' \in ObtainAsset(pot, Op(r).asset, Op(r).amount, Time(local[r]), local[r].rate)
    /\ ghost' = Acquired(ghost, Op(r).asset, Op(r).amount)
    /\ EndChange(r)
    /\ UNCHANGED spent

\* The AccountingError that stops the report. What was used before it stays used.
StopOnError(r, reached) ==
    /\ End(r, "error")
    /\ pot' = reached
    /\ UNCHANGED <<spent, ghost>>

\* mutant of AddOutEvent: no forked asset is spent
AddOutEventAlone(r) ==
    /\ AtChange(r, "out") /\ Op(r).amount > 0
    /\ Goto(r, IF Op(r).given THEN "spend" ELSE "price")
    /\ spent' = NoSpend
    /\ UNCHANGED <<local, pot, ghost>>

\* add_out_event, up to its price query: handle_prefork_asset_spends
AddOutEvent(r) ==
    /\ AtChange(r, "out") /\ Op(r).amount > 0
    /\ LET amount == Op(r).amount
           forked == Forked(Op(r).asset, Time(local[r]))
           so == Reduce(pot, "ETC", amount)
       IN IF forked /\ so.error THEN StopOnError(r, so.pot)
          ELSE /\ Goto(r, IF Op(r).given THEN "spend" ELSE "price")
               /\ pot' = IF forked THEN so.pot ELSE pot
               /\ ghost' = IF forked THEN ReducedGhost(ghost, "ETC", amount) ELSE ghost
               /\ spent' = NoSpend
               /\ UNCHANGED local

PriceFound(r) ==
    /\ pc[r] = "price"
    /\ Goto(r, "spend")
    /\ UNCHANGED <<local, pot, spent, ghost>>

\* the rest of add_out_event, without a cost basis
SpendUncounted(r) ==
    /\ pc[r] = "spend"
    /\ ~Op(r).counted
    /\ ghost' = [ghost EXCEPT !.apart = TRUE]
    /\ EndChange(r)
    /\ UNCHANGED <<pot, spent>>

\* the rest of add_out_event, with spend_asset
SpendAsset(r) ==
    /\ pc[r] = "spend"
    /\ Op(r).counted
    /\ LET asset == Op(r).asset
           amount == Op(r).amount
           taxable == Op(r).taxable /\ asset \notin Fiat
           info == SpendCostBasis(pot.managers[Pool(asset)], pot.settings.method,
                                  pot.settings.period, amount, Time(local[r]))
           reduced == Reduce(pot, asset, amount)
           after == IF taxable
                    THEN [pot EXCEPT !.managers[Pool(asset)] = info.manager,
                                     !.missing[Pool(asset)] = @ + info.missing]
                    ELSE reduced.pot
           spentGhost == IF taxable THEN Spent(ghost, asset, amount, TRUE)
                         ELSE ReducedGhost(ghost, asset, amount)
       IN IF (IF taxable THEN info.error ELSE reduced.error) THEN StopOnError(r, after)
          ELSE /\ pot' = after
               /\ spent' = IF taxable THEN [k \in DOMAIN NoSpend |-> info[k]] ELSE NoSpend
               /\ ghost' = [spentGhost EXCEPT !.apart = @ \/ asset \in {"WETH", "ETC"}]
               /\ EndChange(r)

-----------------------------------------------------------------------------
\* PriceQueryUnsupportedAsset or RemoteError from add_out_event:
\* _process_skipping_exception names events[count]
SkipEvent(r) ==
    /\ pc[r] = "price"
    /\ local' = [local EXCEPT ![r].ops = <<>>, ![r].count = @ + 1]
    /\ ghost' = [ghost EXCEPT !.apart = TRUE]
    /\ Goto(r, "next")
    /\ UNCHANGED <<pot, spent>>

\* NoPriceForGivenTimestamp: the event goes to missing_prices and is not counted
SkipForNoPrice(r) ==
    /\ \/ pc[r] \in {"prices", "price"}
       \/ AtChange(r, "in") /\ Op(r).amount > 0 /\ ~Op(r).given
    /\ local' = [local EXCEPT ![r].ops = <<>>]
    /\ ghost' = [ghost EXCEPT !.apart = @ \/ pc[r] = "price"]
    /\ Goto(r, "next")
    /\ UNCHANGED <<pot, spent>>

\* the task is cancelled while the greenlet waits
CancelReport(r) ==
    /\ Running(r) /\ pc[r] # "spend"
    /\ End(r, "done")
    /\ ghost' = [ghost EXCEPT !.apart = @ \/ pc[r] \in {"obtain", "price"}]
    /\ UNCHANGED <<pot, spent>>

Next == \E r \in Reports :
    \/ StartReport(r) \/ ResetPot(r) \/ ReadEvent(r) \/ SwapPrices(r) \/ NoSwapPrices(r)
    \/ EndEvent(r) \/ EndReport(r) \/ ZeroChange(r) \/ AddInEventOf(r) \/ Obtain(r)
    \/ AddOutEvent(r) \/ PriceFound(r) \/ SpendUncounted(r) \/ SpendAsset(r)
    \/ SkipEvent(r) \/ SkipForNoPrice(r) \/ CancelReport(r)

Spec == Init /\ [][Next]_vars

-----------------------------------------------------------------------------
Steps == {"new", "reset", "next", "prices", "change", "obtain", "price", "spend",
          "done", "error"}

\* The variables stay in their types: an acquisition that is used up is not in
\* the heap, and nothing is in the heap twice.
TypeOK ==
    /\ pc \in [Reports -> Steps]
    /\ \A r \in Reports : /\ local[r].settings \in Settings
                          /\ local[r].read \in 0 .. MaxEvents[r]
                          /\ pc[r] \in {"obtain", "price", "spend"} => local[r].ops # <<>>
    /\ pot.settings \in Settings /\ pot.report \in Reports
    /\ \A a \in Pools :
          /\ pot.missing[a] \in Nat
          /\ \A i, j \in DOMAIN pot.managers[a].heap :
                /\ pot.managers[a].heap[i].left \in Nat \ {0}
                /\ pot.managers[a].heap[i].id = pot.managers[a].heap[j].id => i = j

Total(terms) ==
    LET sum[i \in 0 .. Len(terms)] == IF i = 0 THEN 0 ELSE sum[i - 1] + terms[i]
    IN  sum[Len(terms)]

Lefts(heap) == Total([i \in DOMAIN heap |-> heap[i].left])
Amounts(matched) == Total([i \in DOMAIN matched |-> matched[i].amount])

\* Whatever the cost basis method, the order of the acquisitions, the skipped
\* events and the cancelled reports before, get_calculated_asset_amount is
\* exactly what came in minus what went out since the report began (never below
\* zero), and missing_acquisitions holds what went out without having come in,
\* as long as no amount needs more digits than an FVal keeps.
HeldIsBalance ==
    ~ghost.large =>
        /\ \A a \in Pools : CalculatedAmount(pot.managers[a]) = ghost.balance[a]
        /\ pot.missing = ghost.short

\* A spend takes from an acquisition only when everything that the cost basis
\* method puts before it is used up: first in, last in or highest rate first.
\* For HIFO the repository disagrees with itself.  The heap is ordered by the
\* rate, as the docstring of HIFOCostBasisMethod.add_in_event says ("using the
\* negated rate") and as the amounts and rates of test_accounting_simple_hifo_order
\* need; the docstring of AssetAcquisitionHeapElement ("the acquisition with the
\* highest amount comes first") and the one of that test ("the one with the
\* highest amount is used") say the amount, which does not hold.
UsedInMethodOrder ==
    [][pot'.report = pot.report =>
       \A a \in Pools :
         LET old == pot.managers[a].heap
             new == pot'.managers[a].heap
             Untouched(x) == \E k \in DOMAIN new : new[k] = x
             Gone(x) == \A k \in DOMAIN new : new[k].id # x.id
         IN \A i, j \in DOMAIN old :
                Before(pot.settings.method, old[j], old[i]) /\ ~Untouched(old[i])
                    => Gone(old[j])]_vars

\* The cost basis information of a spend adds up: what it matched and what is
\* missing are the amount, and it is taxable except for what was acquired longer
\* ago than taxfree_after_period.
SpendAddsUp ==
    ~ghost.large =>
        LET old(x) == pot.settings.period > 0 /\ spent.ts - x.ts > pot.settings.period
            taxfree == Total([i \in DOMAIN spent.matched |->
                                  IF old(spent.matched[i]) THEN spent.matched[i].amount ELSE 0])
        IN /\ Amounts(spent.matched) + spent.missing = spent.amount
           /\ spent.taxable = spent.amount - taxfree

\* current_amount of the average cost basis is zero under processing_iterator
\* ("this shouldn't happen but a user reported it") only after amounts that need
\* more digits than an FVal keeps.
ErrorNeedsLostDigits ==
    [][\A r \in Reports : pc[r] # "error" /\ pc'[r] = "error" => ghost.large]_vars

\* Before the fork there is as much ETC as ETH, whatever is bought, spent, swapped
\* or reduced, unless a spend was skipped, cancelled or left out of the cost basis
\* after its forked part was taken, or WETH or ETC itself was bought or spent,
\* which counts for one side only.  It is about one report at a time.
ForkFollowsParent ==
    \A r \in Reports :
        /\ pc[r] \in {"next", "prices", "change"}
        /\ Time(local[r]) < ForkTime /\ ~ghost.apart
        => Lefts(pot.managers["ETC"].heap) = Lefts(pot.managers["ETH"].heap)

\* events[count] of _process_skipping_exception exists: the count of processed
\* events never gets ahead of the events taken from the iterator, and is behind
\* it when an event fails.  Whether it is the event that failed is not said: an
\* event without a price is not counted, and a failed swap counts as one event.
SkippedEventExists ==
    \A r \in Reports : /\ local[r].count <= local[r].read
                       /\ pc[r] = "price" => local[r].count < local[r].read

\* "Ask the DB for the settings once at the start of processing so we got the
\* same settings through the entire task" (process_history): the pot of a running
\* report works with the settings the report read.
SameSettingsThroughout ==
    \A r \in Reports : Running(r) /\ pc[r] # "reset" => pot.settings = local[r].settings
=============================================================================
