---------------------------- MODULE MCPnlReports ----------------------------
\* Instances of PnlReports for TLC.
EXTENDS PnlReports

In(asset, amount) ==
    [dir |-> "in", asset |-> asset, amount |-> amount, taxable |-> TRUE,
     counted |-> TRUE, given |-> FALSE]
Out(asset, amount, taxable) ==
    [dir |-> "out", asset |-> asset, amount |-> amount, taxable |-> taxable,
     counted |-> TRUE, given |-> FALSE]
Given(op) == [op EXCEPT !.given = TRUE]
Uncounted(op) == [op EXCEPT !.counted = FALSE]
Change(op) == [entries |-> 1, ops |-> <<op>>]

\* acquisitions and spends of one asset
SimpleEvents ==
    {Change(In("ETH", 1)), Change(In("ETH", 5)), Change(In("ETH", 10)),
     Change(Out("ETH", 5, TRUE)),
     Change(Out("ETH", 10, TRUE)), Change(Out("ETH", 1, FALSE))}
\* WETH, fees in EUR, swaps with and without a fee, ignored and zero events
OtherEvents ==
    {Change(In("WETH", 1)), Change(Uncounted(Out("ETH", 1, TRUE))),
     Change(In("ETH", 0)), [entries |-> 1, ops |-> <<>>],
     [entries |-> 2, ops |-> <<Given(Out("ETH", 1, TRUE)), Given(In("EUR", 5))>>],
     [entries |-> 3, ops |-> <<Given(Out("EUR", 5, TRUE)), Given(In("ETH", 5)), Out("EUR", 1, FALSE)>>]}
AllEvents == SimpleEvents \cup OtherEvents

\* every method, with and without a tax free period
AllMethods == {[method |-> "FIFO", period |-> 1], [method |-> "LIFO", period |-> 0],
               [method |-> "HIFO", period |-> 1], [method |-> "ACB", period |-> 0]}

\* a report on four history entries and then one on a single entry
LongThenShort == <<4, 1>>
TwoShort == <<1, 1>>
=============================================================================
