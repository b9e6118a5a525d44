--------------------------- MODULE MCLookupTables ---------------------------
\* Two tables, requests that repeat one, and callers with their own snapshots.
EXTENDS LookupTables

TwoKeys == {"first", "second"}
SomeRequests == {<< "first", "first", "second" >>, << "second" >>}
SomeCallerTables ==
    {<< >>, << Snapshot("first", 2, 2) >>,
     << Snapshot("second", 1, 1), Snapshot("second", 2, 2) >>}
=============================================================================
