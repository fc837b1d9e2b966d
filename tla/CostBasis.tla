----------------------------- MODULE CostBasis ------------------------------
(***************************************************************************)
(* The cost basis methods of accounting/cost_basis/base.py on one asset.   *)
(*                                                                         *)
(* A manager is [heap, count, current].  heap holds the acquisitions in    *)
(* the order in which heapq hands them out, count numbers them, current is *)
(* current_amount of the average cost basis method.  An acquisition is     *)
(* [id, left, ts, rate]; left is its remaining_amount.  Amounts are        *)
(* integers, in the smallest unit of the asset.  FVal rounds the result of *)
(* an operation to a number of decimal digits, and so does Round.          *)
(***************************************************************************)
EXTENDS Integers, Sequences

CONSTANT Digits    \* DefaultContext.prec

\* the first number that needs more digits than an FVal keeps
Limit == 10 ^ Digits

ASSUME DigitsAssumption == Digits \in Nat \ {0} /\ Limit \in Nat \ {0}

Methods == {"FIFO", "LIFO", "HIFO", "ACB"}

\* the weight of the last digit that an FVal of this size keeps
Weight(n) ==
    LET weight[k \in 0 .. n] == IF k < Limit THEN 1 ELSE 10 * weight[k \div 10]
    IN  weight[n]

\* ROUND_HALF_EVEN of n to a multiple of w
HalfEven(n, w) ==
    LET kept == n \div w
        cut == n % w
        up == 2 * cut > w \/ (2 * cut = w /\ kept % 2 = 1)
    IN (IF up THEN kept + 1 ELSE kept) * w

\* an FVal: rounded to the digits of the context
Round(x) ==
    LET n == IF x < 0 THEN -x ELSE x
    IN IF n < Limit THEN x ELSE (IF x < 0 THEN -1 ELSE 1) * HalfEven(n, Weight(n))

EmptyManager == [heap |-> <<>>, count |-> 0, current |-> 0]

\* The priorities of the add_in_event methods. HIFO's is the negated rate (not the
\* amount, as the docstring of AssetAcquisitionHeapElement has it), then
\* AssetAcquisitionEvent.__lt__ decides.
Before(method, a, b) ==
    CASE method \in {"FIFO", "ACB"} -> a.id < b.id
      [] method = "LIFO"            -> a.id > b.id
      [] method = "HIFO"            -> a.rate > b.rate \/ (a.rate = b.rate /\ a.ts < b.ts)

\* mutant of AddInEvent: the acquisition goes to the end of the list
AddInEventLast(manager, method, amount, ts, rate) ==
    {[heap    |-> Append(manager.heap,
                         [id |-> manager.count, left |-> amount, ts |-> ts, rate |-> rate]),
      count   |-> manager.count + 1,
      current |-> Round(manager.current + amount)]}

\* add_in_event: the managers that heappush can lead to. heapq says nothing of
\* the order of two acquisitions of which neither comes before the other.
AddInEvent(manager, method, amount, ts, rate) ==
    LET heap == manager.heap
        new == [id |-> manager.count, left |-> amount, ts |-> ts, rate |-> rate]
        fits(i) == /\ \A j \in 1 .. i - 1 : ~Before(method, new, heap[j])
                   /\ \A j \in i .. Len(heap) : ~Before(method, heap[j], new)
    IN {[heap    |-> SubSeq(heap, 1, i - 1) \o <<new>> \o SubSeq(heap, i, Len(heap)),
         count   |-> manager.count + 1,
         current |-> Round(manager.current + amount)] : i \in {j \in 1 .. Len(heap) + 1 : fits(j)}}

\* mutant of Consume: an acquisition that is used up is not popped
ConsumeKeepsEmpty(method, so, a) ==
    LET part == so.rest < a.left
        used == IF part THEN so.rest ELSE a.left
        left == Round(a.left - used)
    IN IF so.stop THEN [so EXCEPT !.heap = Append(@, a)]
       ELSE IF method = "ACB" /\ so.current = 0
       THEN [so EXCEPT !.heap = Append(@, a), !.stop = TRUE, !.error = TRUE]
       ELSE [rest    |-> IF part THEN 0 ELSE Round(so.rest - a.left),
             stop    |-> part,
             error   |-> FALSE,
             current |-> Round(so.current - used),
             matched |-> Append(so.matched, [id |-> a.id, ts |-> a.ts, amount |-> used]),
             heap    |-> Append(so.heap, [a EXCEPT !.left = left])]

\* mutant of Consume: current_amount is reduced by the parent class as well
ConsumeTwice(method, so, a) ==
    LET part == so.rest < a.left
        used == IF part THEN so.rest ELSE a.left
        left == Round(a.left - used)
    IN IF so.stop THEN [so EXCEPT !.heap = Append(@, a)]
       ELSE IF method = "ACB" /\ so.current = 0
       THEN [so EXCEPT !.heap = Append(@, a), !.stop = TRUE, !.error = TRUE]
       ELSE [rest    |-> IF part THEN 0 ELSE Round(so.rest - a.left),
             stop    |-> part,
             error   |-> FALSE,
             current |-> Round(so.current - 2 * used),
             matched |-> Append(so.matched, [id |-> a.id, ts |-> a.ts, amount |-> used]),
             heap    |-> IF left = 0 THEN so.heap ELSE Append(so.heap, [a EXCEPT !.left = left])]

\* One turn of the loops of calculate_spend_cost_basis and reduce_asset_amount,
\* with consume_result: acquisition a is the head of the heap, so.rest is still
\* to be found. so.error is the AccountingError of the average cost basis.
Consume(method, so, a) ==
    LET part == so.rest < a.left
        used == IF part THEN so.rest ELSE a.left
        left == Round(a.left - used)
    IN IF so.stop THEN [so EXCEPT !.heap = Append(@, a)]
       ELSE IF method = "ACB" /\ so.current = 0
       THEN [so EXCEPT !.heap = Append(@, a), !.stop = TRUE, !.error = TRUE]
       ELSE [rest    |-> IF part THEN 0 ELSE Round(so.rest - a.left),
             stop    |-> part,
             error   |-> FALSE,
             current |-> Round(so.current - used),
             matched |-> Append(so.matched, [id |-> a.id, ts |-> a.ts, amount |-> used]),
             heap    |-> IF left = 0 THEN so.heap ELSE Append(so.heap, [a EXCEPT !.left = left])]

\* The loops themselves: reduce_asset_amount "does the same as
\* calculate_spend_cost_basis as far as consuming acquisitions is concerned".
Deplete(manager, method, amount) ==
    LET start == [rest |-> amount, stop |-> FALSE, error |-> FALSE,
                  current |-> manager.current, matched |-> <<>>, heap |-> <<>>]
        turn[i \in 0 .. Len(manager.heap)] ==
            IF i = 0 THEN start ELSE Consume(method, turn[i - 1], manager.heap[i])
    IN  turn[Len(manager.heap)]

\* the manager after a loop
Depleted(manager, so) == [manager EXCEPT !.heap = so.heap, !.current = so.current]

\* what FVals add up to when they are added one after the other
RoundedSum(terms) ==
    LET sum[i \in 0 .. Len(terms)] == IF i = 0 THEN 0 ELSE Round(sum[i - 1] + terms[i])
    IN  sum[Len(terms)]

\* mutant of TaxFree: an acquisition is free on the day the period ends
TaxFreeEarly(period, acquired, spent) == period # 0 /\ acquired + period <= spent

\* at_taxfree_period. A period of 0 stands for taxfree_after_period = None.
TaxFree(period, acquired, spent) == period # 0 /\ acquired + period < spent

\* calculate_spend_cost_basis, of the average cost basis too
SpendCostBasis(manager, method, period, amount, ts) ==
    LET so == Deplete(manager, method, amount)
        free(i) == TaxFree(period, so.matched[i].ts, ts)
        taxable_amount == RoundedSum([i \in DOMAIN so.matched |->
                                          IF free(i) THEN 0 ELSE so.matched[i].amount])
        taxfree_amount == RoundedSum([i \in DOMAIN so.matched |->
                                          IF free(i) THEN so.matched[i].amount ELSE 0])
    IN IF method = "ACB" /\ manager.current = 0
       THEN [manager |-> manager, error |-> FALSE, matched |-> <<>>, ts |-> ts,
             amount |-> amount, taxable |-> amount, missing |-> amount]
       ELSE [manager |-> Depleted(manager, so), error |-> so.error,
             matched |-> so.matched, ts |-> ts, amount |-> amount,
             taxable |-> IF so.rest = 0 THEN taxable_amount ELSE Round(amount - taxfree_amount),
             missing |-> IF so.error THEN 0 ELSE so.rest]

\* reduce_asset_amount. What is missing is not reported for fiat, nor when there
\* is no acquisition at all.
ReduceAssetAmount(manager, method, fiat, amount) ==
    LET so == Deplete(manager, method, amount)
    IN [manager |-> Depleted(manager, so), error |-> so.error,
        missing |-> IF fiat \/ manager.heap = <<>> \/ so.error THEN 0 ELSE so.rest]

\* get_calculated_asset_amount
CalculatedAmount(manager) ==
    RoundedSum([i \in DOMAIN manager.heap |-> manager.heap[i].left])
=============================================================================
