--------------------------- MODULE TableCreation ----------------------------
(***************************************************************************)
(* The program that makes a shared lookup table (create_shared_alt): it    *)
(* may crash, or be told an error, at any point of a create and some       *)
(* extends, and is resumed by naming the table.  A transaction it sent may *)
(* land after the run that sent it.  One run at a time; the chain is the   *)
(* finalized one the program reads, and what it sent stays in flight until *)
(* it is final.  A table is known by the slot its address derives from.    *)
(***************************************************************************)
EXTENDS ListOps, FiniteSets, SequencesExt

CONSTANTS
    Lists,      \* what shared_lookup_addresses may return
    Balances,   \* what the payer may hold
    Chunk,      \* EXTEND_CHUNK_SIZE
    Capacity,   \* LOOKUP_TABLE_MAX_ADDRESSES
    Attempts,   \* ACTIVATION_ATTEMPTS
    Life,       \* slots a blockhash lives
    MaxSlot,    \* bound: the last slot a table can be made in
    MaxRuns     \* bound: runs of the program

Addresses == UNION {Range(l) : l \in Lists}

ASSUME CreationAssumption ==
    /\ Chunk \in Nat \ {0} /\ Capacity \in Nat /\ Attempts \in Nat \ {0}
    /\ Life \in Nat /\ MaxSlot \in Nat \ {0} /\ MaxRuns \in Nat
    /\ Balances \subseteq Nat
    /\ \A l \in Lists : l \in Seq(Addresses) /\ IsInjective(l)

VARIABLES
    slot,
    tables,     \* slot -> [state, addresses, extended]
    balance,    \* the payer's
    flight,     \* transactions that may still land
    final,      \* transactions that did, and whether they succeeded
    announced,  \* tables and transactions printed so far
    runs,       \* runs started
    hasty,      \* a run began before the last one's transactions had ended
    run         \* the running program

chain == << tables, balance, final >>
vars == << slot, chain, flight, announced, runs, hasty, run >>

Tables == 1..MaxSlot
NoTable == 0
NoTx == [op |-> "none", table |-> NoTable, chunk |-> << >>, until |-> 0]
Unmade == [state |-> "none", addresses |-> << >>, extended |-> 0]

\* Not running: how the last run ended.
Ended(result) ==
    [stage |-> "ended", result |-> result, table |-> NoTable, desired |-> << >>,
     stored |-> << >>, missing |-> << >>, rent |-> 0, margin |-> 0, tx |-> NoTx,
     extended |-> 0, attempts |-> 0]

Init ==
    /\ slot = 1
    /\ tables = [t \in Tables |-> Unmade]
    /\ balance \in Balances
    /\ flight = {} /\ final = {} /\ announced = {}
    /\ runs = 0 /\ hasty = FALSE
    /\ run = Ended("never")

-----------------------------------------------------------------------------
\* What the network asks for, in small units.

Fee == 1
WalletRent == 3
RentOf(n) == 4 + n

CostOf(tx) ==
    Fee + IF tx.op = "create" THEN RentOf(0) ELSE Len(tx.chunk)

PayerCan(cost) == balance - cost = 0 \/ balance - cost >= WalletRent

TableAllows(tx) ==
    LET t == tables[tx.table]
    IN  IF tx.op = "create" THEN t.state = "none"
        ELSE t.state = "active" /\ Len(t.addresses) + Len(tx.chunk) <= Capacity

Succeeds(tx) == TableAllows(tx) /\ PayerCan(CostOf(tx))

Applied(tx) ==
    IF tx.op = "create" THEN [Unmade EXCEPT !.state = "active"]
    ELSE [tables[tx.table] EXCEPT !.addresses = @ \o tx.chunk, !.extended = slot]

\* A transaction in flight becomes final once, in a slot after the one it was
\* signed in and while its blockhash lives, or never.
Land(tx) ==
    /\ slot \in (tx.until - Life + 1)..tx.until
    /\ flight' = flight \ {tx}
    /\ final' = final \cup {[tx |-> tx, ok |-> Succeeds(tx)]}
    /\ IF Succeeds(tx)
       THEN tables' = [tables EXCEPT ![tx.table] = Applied(tx)] /\ balance' = balance - CostOf(tx)
       ELSE tables' = tables /\ balance >= Fee /\ balance' = balance - Fee
    /\ UNCHANGED << slot, announced, runs, hasty, run >>

Lose(tx) ==
    /\ flight' = flight \ {tx}
    /\ UNCHANGED << slot, chain, announced, runs, hasty, run >>

\* Beyond MaxSlot slots pass only for a transaction that is waited for.
NextSlot ==
    /\ slot < MaxSlot \/ (run.stage = "await" /\ slot <= run.tx.until)
    /\ slot' = slot + 1
    /\ UNCHANGED << chain, flight, announced, runs, hasty, run >>

\* Between runs the operator may retire a table.
Deactivate(t) ==
    /\ run.stage = "ended"
    /\ tables[t].state = "active"
    /\ tables' = [tables EXCEPT ![t].state = "deactivating"]
    /\ UNCHANGED << slot, balance, final, flight, announced, runs, hasty, run >>

-----------------------------------------------------------------------------
\* The program.

Chain == UNCHANGED << slot, chain, runs, hasty >>
Steps(fields) == run' = fields /\ UNCHANGED << flight, announced >> /\ Chain
End(result) == Steps(Ended(result))

\* With --table the operator names one that was printed.
Start(table, desired) ==
    /\ run.stage = "ended" /\ runs < MaxRuns
    /\ IF table = NoTable THEN slot <= MaxSlot ELSE table \in announced
    /\ runs' = runs + 1
    /\ hasty' = (hasty \/ flight # {})
    /\ run' = [Ended("running") EXCEPT !.stage = "read", !.table = table, !.desired = desired]
    /\ UNCHANGED << slot, chain, flight, announced >>

\* Slip: what the table holds already is sent again.
Missing_All(desired, stored) == desired

Missing(desired, stored) == Only(desired, {a \in Addresses : ~Contains(stored, a)})

\* read_owned_table, and what is missing from it.
Read ==
    /\ run.stage = "read"
    /\ LET t == tables[run.table]
           stored == IF run.table = NoTable THEN << >> ELSE t.addresses
           missing == Missing(run.desired, stored)
       IN  IF run.table # NoTable /\ t.state # "active" THEN End("unusable")
           ELSE IF Len(stored) + Len(missing) > Capacity THEN End("full")
           ELSE Steps([run EXCEPT !.stage = "rent", !.stored = stored, !.missing = missing])

\* The rent still to be paid, by the table's balance now.
PriceRent ==
    /\ run.stage = "rent"
    /\ LET whole == RentOf(Len(run.stored) + Len(run.missing))
           paid == IF run.table = NoTable THEN 0 ELSE RentOf(Len(tables[run.table].addresses))
       IN  Steps([run EXCEPT !.stage = "fund", !.rent = IF paid >= whole THEN 0 ELSE whole - paid])

\* Slip: the transaction that creates the table is not counted.
TransactionCount_Extends(n, table) == (n + Chunk - 1) \div Chunk

TransactionCount(n, table) == (n + Chunk - 1) \div Chunk + IF table = NoTable THEN 1 ELSE 0

\* check_funding; margin, what it finds beyond the need, is history.
CheckFunding ==
    /\ run.stage = "fund"
    /\ LET needed == run.rent + Fee * TransactionCount(Len(run.missing), run.table)
       IN  IF balance < needed THEN End("short")
           ELSE Steps([run EXCEPT !.margin = balance - needed,
                            !.stage = IF run.table = NoTable THEN "create" ELSE "chunks"])

Tx(op, table, chunk) == [op |-> op, table |-> table, chunk |-> chunk, until |-> slot + Life]

\* send: the transaction is signed over a fresh blockhash and printed.
Sign(tx) == [run EXCEPT !.stage = "relay", !.table = tx.table, !.tx = tx]

\* Slip: the address is printed once the table is confirmed.
CreateTable_PrintLater ==
    /\ run.stage = "create"
    /\ run' = Sign(Tx("create", slot, << >>))
    /\ UNCHANGED << flight, announced >> /\ Chain

\* create: the address, from a recent slot, is printed before anything is sent.
CreateTable ==
    /\ run.stage = "create"
    /\ LET tx == Tx("create", slot, << >>)
       IN  run' = Sign(tx) /\ announced' = announced \cup {tx.table}
    /\ UNCHANGED flight /\ Chain

NextChunk(missing) == SubSeq(missing, 1, IF Len(missing) < Chunk THEN Len(missing) ELSE Chunk)

ExtendTable ==
    /\ run.stage = "chunks"
    /\ IF run.missing = << >> THEN Steps([run EXCEPT !.stage = "look"])
       ELSE Steps(Sign(Tx("extend", run.table, NextChunk(run.missing))))

\* Preflight refuses what would fail now.
Refused ==
    /\ run.stage = "relay"
    /\ ~Succeeds(run.tx)
    /\ End(IF TableAllows(run.tx) THEN "no funds" ELSE "refused")

Fresh(tx) == tx \notin {f.tx : f \in final}

\* One that is known already is not run again.
Relay ==
    /\ run.stage = "relay"
    /\ Succeeds(run.tx) \/ ~Fresh(run.tx)
    /\ flight' = flight \cup {tx \in {run.tx} : Fresh(tx)}
    /\ run' = [run EXCEPT !.stage = "await"]
    /\ UNCHANGED announced /\ Chain

Confirmed ==
    /\ run.stage = "await"
    /\ [tx |-> run.tx, ok |-> TRUE] \in final
    /\ Steps([run EXCEPT !.stage = "chunks",
                 !.missing = IF run.tx.op = "create" THEN @
                             ELSE SubSeq(@, Len(run.tx.chunk) + 1, Len(@))])

\* Slip: a transaction is waited for although its blockhash is dead.
Unconfirmed_Patient ==
    /\ run.stage = "await"
    /\ [tx |-> run.tx, ok |-> FALSE] \in final
    /\ End("unconfirmed")

\* send_and_confirm polls until the transaction failed on chain, or is not
\* there when its blockhash is dead.
Unconfirmed ==
    /\ run.stage = "await"
    /\ [tx |-> run.tx, ok |-> TRUE] \notin final
    /\ [tx |-> run.tx, ok |-> FALSE] \in final \/ slot > run.tx.until
    /\ End("unconfirmed")

Complete(t) == \A i \in DOMAIN run.desired : Contains(t.addresses, run.desired[i])

AfterMiss ==
    IF run.attempts + 1 = Attempts THEN End("inactive")
    ELSE Steps([run EXCEPT !.stage = "look", !.attempts = @ + 1])

\* Slip: the slot of the extension itself will do.
Warm_Same(extended) == slot >= extended

Warm(extended) == slot > extended

\* wait_until_active reads the account, then the slot.
Look ==
    /\ run.stage = "look"
    /\ LET t == tables[run.table]
       IN  IF Complete(t) THEN Steps([run EXCEPT !.stage = "slot", !.extended = t.extended])
           ELSE AfterMiss

CompareSlot ==
    /\ run.stage = "slot"
    /\ IF Warm(run.extended)
       THEN run' = [run EXCEPT !.stage = "ended", !.result = "ready"]
            /\ UNCHANGED << flight, announced >> /\ Chain
       ELSE AfterMiss

\* A crash or an RPC error; a transaction being relayed may have been taken.
Stop ==
    /\ run.stage # "ended"
    /\ run' = Ended("stopped")
    /\ flight' \in {flight} \cup
          {flight \cup {tx} : tx \in {x \in {run.tx} : run.stage = "relay" /\ Fresh(x) /\ Succeeds(x)}}
    /\ UNCHANGED announced /\ Chain

Program ==
    \/ Read \/ PriceRent \/ CheckFunding \/ CreateTable \/ ExtendTable \/ Refused \/ Relay
    \/ Confirmed \/ Unconfirmed \/ Look \/ CompareSlot

Next ==
    \/ Program \/ Stop \/ NextSlot
    \/ \E table \in Tables \cup {NoTable}, desired \in Lists : Start(table, desired)
    \/ \E tx \in flight : Land(tx) \/ Lose(tx)
    \/ \E t \in Tables : Deactivate(t)

Spec == Init /\ [][Next]_vars

\* The program takes its next step when its RPC has answered, which it does,
\* and slots go on passing; nothing sent need ever land.
FairSpec == Spec /\ WF_vars(Program) /\ WF_vars(NextSlot)

-----------------------------------------------------------------------------
Copies(t, a) == Cardinality({i \in DOMAIN t.addresses : t.addresses[i] = a})

\* Variables range as in the code, and a table never outgrows its capacity.
TypeOK ==
    /\ slot \in Nat \ {0}
    /\ \A t \in Tables : Len(tables[t].addresses) <= Capacity
    /\ balance \in Nat
    /\ flight \cap {f.tx : f \in final} = {}
    /\ run.stage \in {"ended", "read", "rent", "fund", "create", "chunks", "relay", "await",
                      "look", "slot"}
    /\ run.stage \in {"relay", "await"} => run.tx.table = run.table

\* create_shared_alt.rs:199 "so an ambiguous RPC error can be checked without
\* recreating a table": wherever a run crashes or fails, every table that
\* exists or may still come to exist was printed, so it can be resumed.
TablesAreResumable ==
    {t \in Tables : tables[t].state # "none"} \cup {tx.table : tx \in flight} \subseteq announced

\* However often the program is stopped and resumed, it pays for no address
\* twice, unless it was resumed while a transaction could still land.
NoAddressPaidTwice ==
    ~hasty => \A t \in Tables : \A i \in DOMAIN tables[t].addresses :
                 Copies(tables[t], tables[t].addresses[i]) = 1

\* A run that passed check_funding with the rent of a wallet to spare is not
\* refused for lack of funds half way (create_shared_alt.rs:171), unless a
\* transaction of an earlier run spends as well.
FundedRunFinishes ==
    (run.stage = "relay" /\ run.margin >= WalletRent /\ ~hasty) => PayerCan(CostOf(run.tx))

\* "Ready for any trading wallet": every table reported ready holds every
\* address asked for and is past its last extension, which is what the client's
\* loader asks (LookupTables.Loadable) of a table its owner has not retired
\* since, unless an earlier run's transaction extended it between the two reads.
ReadyIsLoadable ==
    run.result = "ready" =>
        LET t == tables[run.table]
        IN  /\ \A i \in DOMAIN run.desired : Contains(t.addresses, run.desired[i])
            /\ ~hasty => slot > t.extended

\* A run ends although transactions are lost: each is waited for no longer than
\* its blockhash lives, and the table is looked at a limited number of times.
RunEnds == run.stage = "read" ~> run.stage = "ended"
=============================================================================
