-------------------------- MODULE MCHistoryQueries --------------------------
\* Instances of HistoryQueries for TLC.
EXTENDS HistoryQueries

\* entries of their own second, and seconds that several entries share
SmallHistories == {<<1, 3>>, <<1, 2, 2>>, <<1, 1, 2>>}
=============================================================================
