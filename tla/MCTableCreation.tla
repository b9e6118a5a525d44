-------------------------- MODULE MCTableCreation ---------------------------
\* Small values for the constants of TableCreation.
EXTENDS TableCreation

\* The addresses of today, and of a day when one recipient was replaced.
TwoLists == {<< "a", "b", "c" >>, << "a", "d", "c" >>}
\* Too little, just enough, less than a wallet's rent more, that much more,
\* and enough for two tables.
FiveBalances == {9, 10, 12, 13, 23}
=============================================================================
