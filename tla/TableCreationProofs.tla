------------------------ MODULE TableCreationProofs -------------------------
(***************************************************************************)
(* Proofs about TableCreation for any lists, balances, limits and number   *)
(* of runs: what was printed (PrintedInv), and, on an invariant of the     *)
(* chain and one per stage of the running program (CreationInv), what is   *)
(* paid for, with what, and what "Ready" says.                             *)
(***************************************************************************)
EXTENDS TableCreation, SequenceFacts, FiniteSetTheorems

Fields == DOMAIN Ended("never")

Existing == {t \in Tables : tables[t].state # "none"}

\* Whatever exists, is in flight or is being worked on was printed; a run that
\* sends something or looks at a table has one.
PrintedInv ==
    /\ DOMAIN tables = Tables
    /\ DOMAIN run = Fields
    /\ \A t \in Existing : t \in announced
    /\ \A tx \in flight : tx.table \in announced
    /\ run.table # NoTable => run.table \in announced
    /\ run.stage \in {"chunks", "relay", "await", "look", "slot"} => run.table \in announced
    /\ run.stage \in {"relay", "await"} => run.tx.table = run.table

LEMMA FieldNames ==
    Fields = {"stage", "result", "table", "desired", "stored", "missing", "rent", "margin",
              "tx", "extended", "attempts"}
  BY DEF Fields, Ended

LEMMA EndedRun ==
    ASSUME NEW result
    PROVE  /\ DOMAIN Ended(result) = Fields /\ Ended(result).stage = "ended"
           /\ Ended(result).table = NoTable
  BY DEF Ended, Fields

LEMMA InitPrinted == Init => PrintedInv
  <1> SUFFICES ASSUME Init PROVE PrintedInv  OBVIOUS
  <1>1. DOMAIN tables = Tables /\ Existing = {}
    BY DEF Init, Existing, Unmade
  <1>2. DOMAIN run = Fields /\ run.stage = "ended" /\ run.table = NoTable
    BY EndedRun DEF Init
  <1>3. flight = {}  BY DEF Init
  <1> QED  BY <1>1, <1>2, <1>3 DEF PrintedInv

\* A step of the program that leaves the chain and what was printed alone.
LEMMA ProgramStep ==
    ASSUME PrintedInv, tables' = tables, announced \subseteq announced',
           DOMAIN run' = Fields,
           \A tx \in flight' : tx.table \in announced',
           run'.table # NoTable => run'.table \in announced',
           run'.stage \in {"chunks", "relay", "await", "look", "slot"}
              => run'.table \in announced',
           run'.stage \in {"relay", "await"} => run'.tx.table = run'.table
    PROVE  PrintedInv'
  <1>1. Existing' = Existing  BY DEF Existing
  <1> QED  BY <1>1 DEF PrintedInv

LEMMA EndKeepsPrinted ==
    ASSUME NEW result
    PROVE  PrintedInv /\ End(result) => PrintedInv'
  <1> SUFFICES ASSUME PrintedInv, End(result) PROVE PrintedInv'  OBVIOUS
  <1>1. run' = Ended(result) /\ UNCHANGED << tables, flight, announced >>
    BY DEF End, Steps, Chain, chain
  <1>2. DOMAIN run' = Fields /\ run'.stage = "ended" /\ run'.table = NoTable
    BY <1>1, EndedRun
  <1>3. \A tx \in flight' : tx.table \in announced'  BY <1>1 DEF PrintedInv
  <1> QED  BY <1>1, <1>2, <1>3, ProgramStep

\* A step that keeps the table and the transaction of the run.
LEMMA StepKeepsPrinted ==
    ASSUME PrintedInv, UNCHANGED << tables, flight, announced >>,
           DOMAIN run' = Fields, run'.table = run.table, run'.tx = run.tx,
           \/ run'.stage \notin {"chunks", "relay", "await", "look", "slot"}
           \/ run'.stage \in {"chunks", "look", "slot"} /\ run.table \in announced
           \/ run'.stage = "await" /\ run.stage = "relay"
    PROVE  PrintedInv'
  <1>1. \A tx \in flight' : tx.table \in announced'  BY DEF PrintedInv
  <1>2. run'.table # NoTable => run'.table \in announced'  BY DEF PrintedInv
  <1>3. run'.stage \in {"chunks", "relay", "await", "look", "slot"}
           => run'.table \in announced'
    BY DEF PrintedInv
  <1>4. run'.stage \in {"relay", "await"} => run'.tx.table = run'.table
    BY DEF PrintedInv
  <1> QED  BY <1>1, <1>2, <1>3, <1>4, ProgramStep

-----------------------------------------------------------------------------
(* The program. *)

LEMMA PreparingKeepsPrinted ==
    PrintedInv /\ (Read \/ PriceRent \/ CheckFunding) => PrintedInv'
  <1> SUFFICES ASSUME PrintedInv, Read \/ PriceRent \/ CheckFunding PROVE PrintedInv'
    OBVIOUS
  <1>1. \A result : End(result) => PrintedInv'  BY EndKeepsPrinted
  <1>2. CASE Read
    <2>1. CASE \E result : End(result)  BY <1>1, <2>1
    <2>2. CASE \E stored, missing :
                 Steps([run EXCEPT !.stage = "rent", !.stored = stored, !.missing = missing])
      <3>1. /\ UNCHANGED << tables, flight, announced >>
            /\ DOMAIN run' = Fields /\ run'.table = run.table /\ run'.tx = run.tx
            /\ run'.stage = "rent"
        BY <2>2, FieldNames DEF Steps, Chain, chain, PrintedInv
      <3> QED  BY <3>1, StepKeepsPrinted
    <2> QED  BY <1>2, <2>1, <2>2 DEF Read
  <1>3. CASE PriceRent
    <2>1. PICK rent : Steps([run EXCEPT !.stage = "fund", !.rent = rent])
      BY <1>3 DEF PriceRent
    <2>2. /\ UNCHANGED << tables, flight, announced >>
          /\ DOMAIN run' = Fields /\ run'.table = run.table /\ run'.tx = run.tx
          /\ run'.stage = "fund"
      BY <2>1, FieldNames DEF Steps, Chain, chain, PrintedInv
    <2> QED  BY <2>2, StepKeepsPrinted
  <1>4. CASE CheckFunding
    <2>1. CASE \E result : End(result)  BY <1>1, <2>1
    <2>2. CASE \E margin :
                 Steps([run EXCEPT !.margin = margin,
                            !.stage = IF run.table = NoTable THEN "create" ELSE "chunks"])
      <3>1. /\ UNCHANGED << tables, flight, announced >>
            /\ DOMAIN run' = Fields /\ run'.table = run.table /\ run'.tx = run.tx
            /\ run'.stage = IF run.table = NoTable THEN "create" ELSE "chunks"
        BY <2>2, FieldNames DEF Steps, Chain, chain, PrintedInv
      <3>2. run.table # NoTable => run.table \in announced  BY DEF PrintedInv
      <3> QED  BY <3>1, <3>2, StepKeepsPrinted
    <2> QED  BY <1>4, <2>1, <2>2 DEF CheckFunding
  <1> QED  BY <1>2, <1>3, <1>4

\* The address is printed in the step that signs the creation.
LEMMA CreateKeepsPrinted == PrintedInv /\ CreateTable => PrintedInv'
  <1> SUFFICES ASSUME PrintedInv, CreateTable PROVE PrintedInv'  OBVIOUS
  <1> DEFINE tx == Tx("create", slot, << >>)
  <1>1. /\ run' = Sign(tx) /\ announced' = announced \cup {tx.table}
        /\ UNCHANGED << tables, flight >>
    BY DEF CreateTable, Chain, chain
  <1>2. DOMAIN run' = Fields /\ run'.table = tx.table /\ run'.tx = tx
    <2> HIDE DEF tx
    <2> QED  BY <1>1, FieldNames DEF Sign, PrintedInv
  <1>3. announced \subseteq announced' /\ run'.table \in announced'
    BY <1>1, <1>2
  <1>4. \A f \in flight' : f.table \in announced'  BY <1>1 DEF PrintedInv
  <1> QED  BY <1>1, <1>2, <1>3, <1>4, ProgramStep

LEMMA ExtendKeepsPrinted == PrintedInv /\ ExtendTable => PrintedInv'
  <1> SUFFICES ASSUME PrintedInv, ExtendTable PROVE PrintedInv'  OBVIOUS
  <1>1. run.stage = "chunks" /\ run.table \in announced
    BY DEF ExtendTable, PrintedInv
  <1>2. CASE Steps([run EXCEPT !.stage = "look"])
    <2>1. /\ UNCHANGED << tables, flight, announced >>
          /\ DOMAIN run' = Fields /\ run'.table = run.table /\ run'.tx = run.tx
          /\ run'.stage = "look"
      BY <1>2, FieldNames DEF Steps, Chain, chain, PrintedInv
    <2> QED  BY <1>1, <2>1, StepKeepsPrinted
  <1>3. CASE Steps(Sign(Tx("extend", run.table, NextChunk(run.missing))))
    <2>1. PICK tx : tx = Tx("extend", run.table, NextChunk(run.missing))  OBVIOUS
    <2>2. tx.table = run.table  BY <2>1 DEF Tx
    <2>3. run' = Sign(tx) /\ UNCHANGED << tables, flight, announced >>
      BY <1>3, <2>1 DEF Steps, Chain, chain
    <2>4. DOMAIN run' = Fields /\ run'.table = tx.table /\ run'.tx = tx
      BY <2>3, FieldNames DEF Sign, PrintedInv
    <2>5. \A f \in flight' : f.table \in announced'  BY <2>3 DEF PrintedInv
    <2> QED  BY <1>1, <2>2, <2>3, <2>4, <2>5, ProgramStep
  <1> QED  BY <1>2, <1>3 DEF ExtendTable

LEMMA RelayKeepsPrinted == PrintedInv /\ Relay => PrintedInv'
  <1> SUFFICES ASSUME PrintedInv, Relay PROVE PrintedInv'  OBVIOUS
  <1>1. /\ run.stage = "relay" /\ UNCHANGED << tables, announced >>
        /\ flight' \subseteq flight \cup {run.tx}
        /\ run' = [run EXCEPT !.stage = "await"]
    BY DEF Relay, Chain, chain
  <1>2. /\ DOMAIN run' = Fields /\ run'.table = run.table /\ run'.tx = run.tx
        /\ run'.stage = "await"
    BY <1>1, FieldNames DEF PrintedInv
  <1>3. run.tx.table = run.table /\ run.table \in announced  BY <1>1 DEF PrintedInv
  <1>4. \A f \in flight' : f.table \in announced'  BY <1>1, <1>3 DEF PrintedInv
  <1> QED  BY <1>1, <1>2, <1>3, <1>4, ProgramStep

LEMMA AwaitingKeepsPrinted ==
    PrintedInv /\ (Refused \/ Confirmed \/ Unconfirmed) => PrintedInv'
  <1> SUFFICES ASSUME PrintedInv, Refused \/ Confirmed \/ Unconfirmed PROVE PrintedInv'
    OBVIOUS
  <1>1. CASE Refused \/ Unconfirmed  BY <1>1, EndKeepsPrinted DEF Refused, Unconfirmed
  <1>2. CASE Confirmed
    <2>1. PICK missing : Steps([run EXCEPT !.stage = "chunks", !.missing = missing])
      BY <1>2 DEF Confirmed
    <2>2. /\ UNCHANGED << tables, flight, announced >>
          /\ DOMAIN run' = Fields /\ run'.table = run.table /\ run'.tx = run.tx
          /\ run'.stage = "chunks"
      BY <2>1, FieldNames DEF Steps, Chain, chain, PrintedInv
    <2>3. run.table \in announced  BY <1>2 DEF Confirmed, PrintedInv
    <2> QED  BY <2>2, <2>3, StepKeepsPrinted
  <1> QED  BY <1>1, <1>2

LEMMA LookingKeepsPrinted == PrintedInv /\ (Look \/ CompareSlot) => PrintedInv'
  <1> SUFFICES ASSUME PrintedInv, Look \/ CompareSlot PROVE PrintedInv'  OBVIOUS
  <1>1. run.table \in announced  BY DEF Look, CompareSlot, PrintedInv
  <1>2. CASE End("inactive")  BY <1>2, EndKeepsPrinted
  <1>3. CASE Steps([run EXCEPT !.stage = "look", !.attempts = @ + 1])
    <2>1. /\ UNCHANGED << tables, flight, announced >>
          /\ DOMAIN run' = Fields /\ run'.table = run.table /\ run'.tx = run.tx
          /\ run'.stage = "look"
      BY <1>3, FieldNames DEF Steps, Chain, chain, PrintedInv
    <2> QED  BY <1>1, <2>1, StepKeepsPrinted
  <1>4. CASE Steps([run EXCEPT !.stage = "slot", !.extended = tables[run.table].extended])
    <2>1. /\ UNCHANGED << tables, flight, announced >>
          /\ DOMAIN run' = Fields /\ run'.table = run.table /\ run'.tx = run.tx
          /\ run'.stage = "slot"
      BY <1>4, FieldNames DEF Steps, Chain, chain, PrintedInv
    <2> QED  BY <1>1, <2>1, StepKeepsPrinted
  <1>5. CASE /\ run' = [run EXCEPT !.stage = "ended", !.result = "ready"]
             /\ UNCHANGED << flight, announced >> /\ Chain
    <2>1. /\ UNCHANGED << tables, flight, announced >>
          /\ DOMAIN run' = Fields /\ run'.table = run.table /\ run'.tx = run.tx
          /\ run'.stage = "ended"
      BY <1>5, FieldNames DEF Chain, chain, PrintedInv
    <2> QED  BY <2>1, StepKeepsPrinted
  <1> QED  BY <1>2, <1>3, <1>4, <1>5 DEF Look, CompareSlot, AfterMiss

LEMMA StopKeepsPrinted == PrintedInv /\ Stop => PrintedInv'
  <1> SUFFICES ASSUME PrintedInv, Stop PROVE PrintedInv'  OBVIOUS
  <1>1. run' = Ended("stopped") /\ UNCHANGED << tables, announced >>
    BY DEF Stop, Chain, chain
  <1>2. DOMAIN run' = Fields /\ run'.stage = "ended" /\ run'.table = NoTable
    BY <1>1, EndedRun
  <1>3. \A f \in flight' : f \in flight \/ (f = run.tx /\ run.stage = "relay")
    BY DEF Stop
  <1>4. \A f \in flight' : f.table \in announced'  BY <1>1, <1>3 DEF PrintedInv
  <1> QED  BY <1>1, <1>2, <1>4, ProgramStep

-----------------------------------------------------------------------------
(* The operator and the network. *)

LEMMA StartKeepsPrinted ==
    ASSUME NEW table, NEW desired
    PROVE  PrintedInv /\ Start(table, desired) => PrintedInv'
  <1> SUFFICES ASSUME PrintedInv, Start(table, desired) PROVE PrintedInv'  OBVIOUS
  <1>1. /\ run' = [Ended("running") EXCEPT !.stage = "read", !.table = table,
                                           !.desired = desired]
        /\ UNCHANGED << tables, flight, announced >>
        /\ table # NoTable => table \in announced
    BY DEF Start, chain
  <1>2. DOMAIN Ended("running") = Fields  BY EndedRun
  <1>3. DOMAIN run' = Fields /\ run'.stage = "read" /\ run'.table = table
    BY <1>1, <1>2, FieldNames
  <1>4. \A f \in flight' : f.table \in announced'  BY <1>1 DEF PrintedInv
  <1> QED  BY <1>1, <1>3, <1>4, ProgramStep

\* A table comes to exist only by a transaction in flight.
LEMMA NetworkKeepsPrinted ==
    ASSUME PrintedInv, UNCHANGED << run, announced >>, flight' \subseteq flight,
           DOMAIN tables' = DOMAIN tables,
           \A t \in Tables : tables'[t] = tables[t] \/ t \in announced
    PROVE  PrintedInv'
  <1>1. \A t \in Existing' : t \in announced
    BY DEF PrintedInv, Existing
  <1> QED  BY <1>1 DEF PrintedInv

LEMMA LandKeepsPrinted ==
    ASSUME NEW tx \in flight
    PROVE  PrintedInv /\ (Land(tx) \/ Lose(tx)) => PrintedInv'
  <1> SUFFICES ASSUME PrintedInv, Land(tx) \/ Lose(tx) PROVE PrintedInv'  OBVIOUS
  <1>1. UNCHANGED << run, announced >> /\ flight' \subseteq flight
    BY DEF Land, Lose
  <1>2. \/ tables' = tables
        \/ tables' = [tables EXCEPT ![tx.table] = Applied(tx)]
    BY DEF Land, Lose, chain
  <1>3. tx.table \in announced  BY DEF PrintedInv
  <1>4. DOMAIN tables' = DOMAIN tables  BY <1>2
  <1>5. \A t \in Tables : tables'[t] = tables[t] \/ t \in announced
    BY <1>2, <1>3 DEF PrintedInv
  <1> QED  BY <1>1, <1>4, <1>5, NetworkKeepsPrinted

LEMMA DeactivateKeepsPrinted ==
    ASSUME NEW t \in Tables
    PROVE  PrintedInv /\ Deactivate(t) => PrintedInv'
  <1> SUFFICES ASSUME PrintedInv, Deactivate(t) PROVE PrintedInv'  OBVIOUS
  <1>1. t \in announced  BY DEF Deactivate, PrintedInv, Existing
  <1>2. /\ UNCHANGED << run, announced >> /\ flight' \subseteq flight
        /\ DOMAIN tables' = DOMAIN tables
        /\ \A u \in Tables : tables'[u] = tables[u] \/ u \in announced
    BY <1>1 DEF Deactivate, PrintedInv
  <1> QED  BY <1>2, NetworkKeepsPrinted

LEMMA NextKeepsPrinted == PrintedInv /\ [Next]_vars => PrintedInv'
  <1> SUFFICES ASSUME PrintedInv, [Next]_vars PROVE PrintedInv'  OBVIOUS
  <1>1. CASE Program
    BY <1>1, PreparingKeepsPrinted, CreateKeepsPrinted, ExtendKeepsPrinted, RelayKeepsPrinted,
       AwaitingKeepsPrinted, LookingKeepsPrinted DEF Program
  <1>2. CASE Stop  BY <1>2, StopKeepsPrinted
  <1>3. CASE NextSlot \/ UNCHANGED vars
    <2>1. UNCHANGED << tables, flight, announced, run >>
      BY <1>3 DEF NextSlot, vars, chain
    <2> QED  BY <2>1, NetworkKeepsPrinted
  <1>4. CASE \E table \in Tables \cup {NoTable}, desired \in Lists : Start(table, desired)
    BY <1>4, StartKeepsPrinted
  <1>5. CASE \E tx \in flight : Land(tx) \/ Lose(tx)  BY <1>5, LandKeepsPrinted
  <1>6. CASE \E t \in Tables : Deactivate(t)  BY <1>6, DeactivateKeepsPrinted
  <1> QED  BY <1>1, <1>2, <1>3, <1>4, <1>5, <1>6 DEF Next

LEMMA PrintedImplies == PrintedInv => TablesAreResumable
  BY DEF PrintedInv, TablesAreResumable, Existing

\* create_shared_alt prints an address before anything that could make its
\* table is sent, so wherever runs crash, fail or overlap with transactions of
\* earlier ones, every table that exists or may come to exist can be resumed.
THEOREM TablesStayResumable == Spec => []TablesAreResumable
  BY InitPrinted, NextKeepsPrinted, PrintedImplies, PTL DEF Spec

-----------------------------------------------------------------------------
(* The other invariants rest on one about the chain, with what may still   *)
(* land on it, and one about the stage the running program is in.          *)

Moments == {"ended", "read", "rent", "fund", "create", "chunks", "relay", "await", "look", "slot"}
TableType == [state : {"none", "active", "deactivating"}, addresses : Seq(Addresses), extended : Nat]
TxType == [op : {"create", "extend"}, table : Tables, chunk : Seq(Addresses), until : Nat]

\* No address of s is in r.
Apart(s, r) == \A i \in 1..Len(s), j \in 1..Len(r) : s[i] # r[j]

\* Signed in a slot that is over or current, for a table of that slot at most.
OnTime(tx) == tx.table + Life <= tx.until /\ tx.until <= slot + Life

ChainTyped ==
    /\ slot \in Nat \ {0}
    /\ tables \in [Tables -> TableType]
    /\ balance \in Nat
    /\ flight \subseteq TxType
    /\ final \subseteq [tx : TxType, ok : BOOLEAN]
    /\ announced \subseteq 1..slot
    /\ hasty \in BOOLEAN

\* What is final ran in a slot after the one it was signed in, so that no
\* table holds an address before its own slot is over.
Timely ==
    /\ \A tx \in flight : OnTime(tx) /\ Fresh(tx)
    /\ \A f \in final : f.tx.until < slot + Life
    /\ \A t \in Tables : tables[t].addresses # << >> => t < slot
    /\ \A t \in Tables : tables[t].state = "none" => tables[t].addresses = << >>

\* While no run overlaps what an earlier one sent, at most one transaction may
\* still land, and it adds nothing its table holds.
Orderly ==
    ~hasty =>
        /\ \A x, y \in flight : x = y
        /\ \A t \in Tables : IsInjective(tables[t].addresses)
        /\ \A tx \in flight :
              tx.op = "extend" => IsInjective(tx.chunk) /\ Apart(tx.chunk, tables[tx.table].addresses)

ChainInv == ChainTyped /\ Timely /\ Orderly

Need(n) == n + (n + Chunk - 1) \div Chunk

\* What remains to be sent once the transaction of the run is done.
Rest == IF run.tx.op = "create" THEN run.missing
        ELSE SubSeq(run.missing, Len(run.tx.chunk) + 1, Len(run.missing))

Landed == [tx |-> run.tx, ok |-> TRUE] \in final

NothingTwice(missing) ==
    /\ IsInjective(missing)
    /\ run.table # NoTable => Apart(missing, tables[run.table].addresses)

RunTyped ==
    /\ DOMAIN run = Fields
    /\ run.stage \in Moments
    /\ run.stage # "ended" => run.result = "running"
    /\ run.table \in Tables \cup {NoTable} /\ run.table <= slot
    /\ run.desired \in Seq(Addresses) /\ IsInjective(run.desired)
    /\ run.stored \in Seq(Addresses) /\ run.missing \in Seq(Addresses)
    /\ run.rent \in Nat /\ run.margin \in Nat
    /\ run.stage \in {"chunks", "relay", "await", "look", "slot"} \/ run.result = "ready"
          => run.table \in Tables
    /\ run.stage = "create" => run.table = NoTable
    /\ run.stage \in {"read", "rent", "fund", "create"} /\ run.table = NoTable => slot \in Tables
    /\ run.stage \in {"relay", "await"} =>
          /\ run.tx \in TxType /\ run.tx.table = run.table
          /\ run.tx.op = "extend" => run.missing # << >> /\ run.tx.chunk = NextChunk(run.missing)

Still == ~hasty /\ run.stage \notin {"ended", "await"} => flight = {}

AtRent ==
    ~hasty /\ run.stage = "rent" =>
        /\ NothingTwice(run.missing)
        /\ run.stored = IF run.table = NoTable THEN << >> ELSE tables[run.table].addresses

AtFund ==
    ~hasty /\ run.stage = "fund" =>
        /\ NothingTwice(run.missing)
        /\ run.rent = Len(run.missing) + IF run.table = NoTable THEN RentOf(0) ELSE 0

AtCreate ==
    ~hasty /\ run.stage = "create" =>
        /\ IsInjective(run.missing)
        /\ balance >= run.margin + Fee + RentOf(0) + Need(Len(run.missing))

AtChunks ==
    ~hasty /\ run.stage = "chunks" =>
        /\ NothingTwice(run.missing)
        /\ balance >= run.margin + Need(Len(run.missing))

AtRelay ==
    run.stage = "relay" =>
        /\ OnTime(run.tx)
        /\ ~hasty => /\ Fresh(run.tx)
                     /\ NothingTwice(run.missing)
                     /\ balance >= run.margin + CostOf(run.tx) + Need(Len(Rest))

\* The transaction of the run is in flight, landed, or lost for good.
AtAwait ==
    ~hasty /\ run.stage = "await" =>
        /\ flight \subseteq {run.tx}
        /\ IsInjective(run.missing)
        /\ run.tx \in flight =>
              /\ NothingTwice(run.missing)
              /\ balance >= run.margin + CostOf(run.tx) + Need(Len(Rest))
        /\ Landed =>
              /\ NothingTwice(Rest)
              /\ balance >= run.margin + Need(Len(Rest))

AtSlot ==
    run.stage = "slot" =>
        /\ Complete(tables[run.table])
        /\ ~hasty => run.extended = tables[run.table].extended

WhenReady ==
    run.result = "ready" =>
        /\ Complete(tables[run.table])
        /\ ~hasty => flight = {} /\ slot > tables[run.table].extended

RunInv ==
    /\ RunTyped /\ Still
    /\ AtRent /\ AtFund /\ AtCreate /\ AtChunks /\ AtRelay /\ AtAwait /\ AtSlot /\ WhenReady

CreationInv == ChainInv /\ RunInv

-----------------------------------------------------------------------------
(* Lists of addresses and how many transactions they take. *)

LEMMA NoRepeats ==
    ASSUME NEW s \in Seq(Addresses)
    PROVE  IsInjective(s) <=> Injective(s)
  <1>1. DOMAIN s = 1..Len(s)  OBVIOUS
  <1> QED  BY <1>1 DEF IsInjective, Injective

LEMMA MissingFacts ==
    ASSUME NEW desired \in Seq(Addresses), IsInjective(desired), NEW stored \in Seq(Addresses)
    PROVE  /\ Missing(desired, stored) \in Seq(Addresses)
           /\ IsInjective(Missing(desired, stored))
           /\ Apart(Missing(desired, stored), stored)
  <1>1. PICK K : K = {a \in Addresses : ~Contains(stored, a)}  OBVIOUS
  <1>2. PICK m : m = Only(desired, K)  OBVIOUS
  <1>3. Missing(desired, stored) = m  BY <1>1, <1>2 DEF Missing
  <1>4. m \in Seq(Addresses)  BY <1>2, OnlyType
  <1>5. Injective(desired)  BY NoRepeats
  <1>6. Injective(m)  BY <1>2, <1>5, OnlyInjective
  <1>7. \A i \in 1..Len(m) : m[i] \in K  BY <1>2, OnlySelects
  <1>8. Apart(m, stored)  BY <1>1, <1>7 DEF Apart, Contains
  <1> QED  BY <1>3, <1>4, <1>6, <1>8, NoRepeats

LEMMA ConcatNoRepeats ==
    ASSUME NEW s \in Seq(Addresses), NEW r \in Seq(Addresses),
           IsInjective(s), IsInjective(r), Apart(r, s)
    PROVE  s \o r \in Seq(Addresses) /\ IsInjective(s \o r)
  <1>1. PICK c : c = s \o r  OBVIOUS
  <1>2. /\ c \in Seq(Addresses) /\ Len(c) = Len(s) + Len(r)
        /\ \A i \in 1..Len(s) : c[i] = s[i]
        /\ \A i \in 1..Len(r) : c[Len(s) + i] = r[i]
    BY <1>1
  <1>3. Len(s) \in Nat /\ Len(r) \in Nat  OBVIOUS
  <1>4. Injective(s) /\ Injective(r)  BY NoRepeats
  <1>5. ASSUME NEW i \in 1..Len(c), NEW j \in 1..Len(c), c[i] = c[j] PROVE i = j
    <2>1. i \in 1..Len(s) \/ (i - Len(s) \in 1..Len(r) /\ c[i] = r[i - Len(s)])
      <3>1. CASE i <= Len(s)  BY <1>3, <3>1
      <3>2. CASE i > Len(s)
        <4>1. i - Len(s) \in 1..Len(r) /\ Len(s) + (i - Len(s)) = i  BY <1>2, <1>3, <3>2
        <4> QED  BY <1>2, <4>1
      <3> QED  BY <1>3, <3>1, <3>2
    <2>2. j \in 1..Len(s) \/ (j - Len(s) \in 1..Len(r) /\ c[j] = r[j - Len(s)])
      <3>1. CASE j <= Len(s)  BY <1>3, <3>1
      <3>2. CASE j > Len(s)
        <4>1. j - Len(s) \in 1..Len(r) /\ Len(s) + (j - Len(s)) = j  BY <1>2, <1>3, <3>2
        <4> QED  BY <1>2, <4>1
      <3> QED  BY <1>3, <3>1, <3>2
    <2>3. CASE i \in 1..Len(s) /\ j \in 1..Len(s)  BY <1>2, <1>4, <1>5, <2>3 DEF Injective
    <2>4. CASE i - Len(s) \in 1..Len(r) /\ c[i] = r[i - Len(s)] /\ j \in 1..Len(s)
      BY <1>2, <1>5, <2>4 DEF Apart
    <2>5. CASE j - Len(s) \in 1..Len(r) /\ c[j] = r[j - Len(s)] /\ i \in 1..Len(s)
      BY <1>2, <1>5, <2>5 DEF Apart
    <2>6. CASE /\ i - Len(s) \in 1..Len(r) /\ c[i] = r[i - Len(s)]
               /\ j - Len(s) \in 1..Len(r) /\ c[j] = r[j - Len(s)]
      <3>1. i - Len(s) = j - Len(s)  BY <1>4, <1>5, <2>6 DEF Injective
      <3> QED  BY <1>3, <3>1
    <2> QED  BY <2>1, <2>2, <2>3, <2>4, <2>5, <2>6
  <1>6. Injective(c)  BY <1>5 DEF Injective
  <1> QED  BY <1>1, <1>2, <1>6, NoRepeats

\* The first chunk of a list, c, and what is left of it, r.
Split(m, c, r) ==
    /\ c \in Seq(Addresses) /\ r \in Seq(Addresses)
    /\ Len(c) = (IF Len(m) < Chunk THEN Len(m) ELSE Chunk) /\ Len(r) = Len(m) - Len(c)
    /\ Len(c) \in 1..Len(m)
    /\ \A i \in 1..Len(c) : c[i] = m[i]
    /\ \A i \in 1..Len(r) : r[i] = m[Len(c) + i]

LEMMA ChunkSplits ==
    ASSUME NEW m \in Seq(Addresses), m # << >>
    PROVE  Split(m, NextChunk(m), SubSeq(m, Len(NextChunk(m)) + 1, Len(m)))
  <1>1. PICK n, k : n = Len(m) /\ k = (IF n < Chunk THEN n ELSE Chunk)  OBVIOUS
  <1>2. n \in Nat /\ n >= 1  BY <1>1
  <1>3. k \in 1..n  BY <1>1, <1>2, CreationAssumption
  <1>4. PICK c : c = SubSeq(m, 1, k)  OBVIOUS
  <1>5. c = NextChunk(m)  BY <1>1, <1>4 DEF NextChunk
  <1>6. /\ c \in Seq(Addresses) /\ Len(c) = k
        /\ \A i \in 1..k : c[i] = m[i]
    <2>1. \A i \in 1..k : m[i] \in Addresses  BY <1>1, <1>3
    <2> QED  BY <1>1, <1>2, <1>3, <1>4, <2>1, SubSeqProperties
  <1>7. PICK r : r = SubSeq(m, k + 1, n)  OBVIOUS
  <1>8. /\ r \in Seq(Addresses) /\ Len(r) = n - k
        /\ \A i \in 1..(n - k) : r[i] = m[k + i]
    <2>1. \A i \in (k + 1)..n : m[i] \in Addresses  BY <1>1, <1>3
    <2> QED  BY <1>1, <1>2, <1>3, <1>7, <2>1, SubSeqProperties
  <1>9. Split(m, c, r)  BY <1>1, <1>3, <1>6, <1>8 DEF Split
  <1> QED  BY <1>1, <1>5, <1>6, <1>7, <1>9

\* Neither part repeats an address, and no address is in both.
LEMMA SplitNoRepeats ==
    ASSUME NEW m \in Seq(Addresses), NEW c, NEW r, Split(m, c, r), IsInjective(m)
    PROVE  IsInjective(c) /\ IsInjective(r) /\ Apart(r, c)
  <1>1. /\ c \in Seq(Addresses) /\ r \in Seq(Addresses)
        /\ Len(c) \in 1..Len(m) /\ Len(r) = Len(m) - Len(c)
        /\ \A i \in 1..Len(c) : c[i] = m[i]
        /\ \A i \in 1..Len(r) : r[i] = m[Len(c) + i]
    BY DEF Split
  <1>2. Len(m) \in Nat /\ Len(c) \in Nat /\ Len(r) \in Nat  BY <1>1
  <1>3. Injective(m)  BY NoRepeats
  <1>4. \A i \in 1..Len(c) : i \in 1..Len(m)  BY <1>1, <1>2
  <1>5. \A i \in 1..Len(r) : Len(c) + i \in 1..Len(m) /\ Len(c) + i > Len(c)  BY <1>1, <1>2
  <1>6. Injective(c)  BY <1>1, <1>3, <1>4 DEF Injective
  <1>7. Injective(r)
    <2> SUFFICES ASSUME NEW i \in 1..Len(r), NEW j \in 1..Len(r), r[i] = r[j] PROVE i = j
      BY DEF Injective
    <2>0. PICK u, v : u = Len(c) + i /\ v = Len(c) + j  OBVIOUS
    <2>1. u \in 1..Len(m) /\ v \in 1..Len(m) /\ m[u] = m[v]  BY <1>1, <1>5, <2>0
    <2>2. u = v  BY <1>3, <2>1 DEF Injective
    <2> QED  BY <1>2, <2>0, <2>2
  <1>8. Apart(r, c)
    <2> SUFFICES ASSUME NEW i \in 1..Len(r), NEW j \in 1..Len(c), r[i] = c[j] PROVE FALSE
      BY DEF Apart
    <2>1. Len(c) + i = j  BY <1>1, <1>3, <1>4, <1>5 DEF Injective
    <2> QED  BY <1>2, <1>5, <2>1
  <1> QED  BY <1>1, <1>6, <1>7, <1>8, NoRepeats

\* Each part holds nothing a table holds that the whole did not.
LEMMA SplitApart ==
    ASSUME NEW m \in Seq(Addresses), NEW c, NEW r, Split(m, c, r),
           NEW s \in Seq(Addresses), Apart(m, s)
    PROVE  Apart(c, s) /\ Apart(r, s)
  <1>1. /\ c \in Seq(Addresses) /\ r \in Seq(Addresses)
        /\ Len(c) \in 1..Len(m) /\ Len(r) = Len(m) - Len(c)
        /\ \A i \in 1..Len(c) : c[i] = m[i]
        /\ \A i \in 1..Len(r) : r[i] = m[Len(c) + i]
    BY DEF Split
  <1>2. Len(m) \in Nat /\ Len(c) \in Nat /\ Len(r) \in Nat  BY <1>1
  <1>3. \A i \in 1..Len(c) : i \in 1..Len(m)  BY <1>1, <1>2
  <1>4. \A i \in 1..Len(r) : Len(c) + i \in 1..Len(m)  BY <1>1, <1>2
  <1> QED  BY <1>1, <1>3, <1>4 DEF Apart

LEMMA ApartFromBoth ==
    ASSUME NEW r \in Seq(Addresses), NEW s \in Seq(Addresses), NEW c \in Seq(Addresses),
           Apart(r, s), Apart(r, c)
    PROVE  Apart(r, s \o c)
  <1>1. PICK t : t = s \o c  OBVIOUS
  <1>2. /\ t \in Seq(Addresses) /\ Len(t) = Len(s) + Len(c)
        /\ \A i \in 1..Len(s) : t[i] = s[i]
        /\ \A i \in 1..Len(c) : t[Len(s) + i] = c[i]
    BY <1>1
  <1>3. Len(s) \in Nat /\ Len(c) \in Nat  OBVIOUS
  <1>4. ASSUME NEW i \in 1..Len(r), NEW j \in 1..Len(t) PROVE r[i] # t[j]
    <2>1. CASE j <= Len(s)  BY <1>2, <1>3, <2>1 DEF Apart
    <2>2. CASE j > Len(s)
      <3>1. j - Len(s) \in 1..Len(c) /\ Len(s) + (j - Len(s)) = j  BY <1>2, <1>3, <2>2
      <3>2. t[j] = c[j - Len(s)]  BY <1>2, <3>1
      <3> QED  BY <3>1, <3>2 DEF Apart
    <2> QED  BY <1>3, <2>1, <2>2
  <1> QED  BY <1>1, <1>4 DEF Apart

LEMMA Quotient ==
    ASSUME NEW a \in Nat, NEW b \in Nat \ {0}
    PROVE  a \div b \in Nat /\ b * (a \div b) <= a /\ a < b * ((a \div b) + 1)
  OBVIOUS

LEMMA Times ==
    ASSUME NEW b \in Nat, NEW p \in Nat, NEW q \in Nat, p <= q
    PROVE  b * p <= b * q
  <1>1. q - p \in Nat /\ b * (q - p) \in Nat /\ b * (q - p) = b * q - b * p  OBVIOUS
  <1>2. b * p \in Nat /\ b * q \in Nat  OBVIOUS
  <1> QED  BY <1>1, <1>2

\* A chunk and its transaction are paid out of what the list needed.
LEMMA NeedSplits ==
    ASSUME NEW n \in Nat \ {0}, NEW k, k = (IF n < Chunk THEN n ELSE Chunk)
    PROVE  Need(n) \in Nat /\ Need(n - k) \in Nat /\ Need(n) >= Fee + k + Need(n - k)
  <1>1. Chunk \in Nat \ {0}  BY CreationAssumption
  <1>2. k \in Nat /\ n - k \in Nat /\ k <= Chunk /\ k >= 1  BY <1>1
  <1>3. PICK a, m, p, q : /\ a = n + Chunk - 1 /\ m = n - k + Chunk - 1
                          /\ p = a \div Chunk /\ q = m \div Chunk
    OBVIOUS
  <1>4. a \in Nat /\ m \in Nat /\ a = m + k  BY <1>1, <1>2, <1>3
  <1>5. p \in Nat /\ Chunk * p <= a /\ a < Chunk * (p + 1)  BY <1>1, <1>3, <1>4, Quotient
  <1>6. q \in Nat /\ Chunk * q <= m /\ m < Chunk * (q + 1)  BY <1>1, <1>3, <1>4, Quotient
  <1>7. p >= q + 1
    <2>1. CASE n < Chunk
      <3>1. m = Chunk - 1 /\ k = n  BY <1>1, <1>2, <1>3, <2>1
      <3>2. q = 0
        <4>1. CASE q >= 1
          <5>1. Chunk * 1 <= Chunk * q  BY <1>1, <1>6, <4>1, Times
          <5>2. Chunk * 1 = Chunk  BY <1>1
          <5> QED  BY <1>1, <1>6, <3>1, <5>1, <5>2
        <4> QED  BY <1>6, <4>1
      <3>3. p >= 1
        <4>1. CASE p = 0
          <5>1. Chunk * (p + 1) = Chunk  BY <1>1, <4>1
          <5> QED  BY <1>1, <1>3, <1>5, <5>1
        <4> QED  BY <1>5, <4>1
      <3> QED  BY <1>5, <3>2, <3>3
    <2>2. CASE n >= Chunk
      <3>1. a = m + Chunk  BY <1>1, <1>4, <2>2
      <3>2. Chunk * (q + 1) = Chunk * q + Chunk  BY <1>1, <1>6
      <3>3. Chunk * q \in Nat /\ Chunk * (p + 1) \in Nat  BY <1>1, <1>5, <1>6
      <3>4. Chunk * (q + 1) <= a  BY <1>1, <1>4, <1>6, <3>1, <3>2, <3>3
      <3>5. CASE p + 1 <= q + 1
        <4>1. Chunk * (p + 1) <= Chunk * (q + 1)  BY <1>1, <1>5, <1>6, <3>5, Times
        <4>2. Chunk * (q + 1) \in Nat  BY <1>1, <1>6
        <4> QED  BY <1>4, <1>5, <3>3, <3>4, <4>1, <4>2
      <3> QED  BY <1>5, <1>6, <3>5
    <2> QED  BY <1>1, <2>1, <2>2
  <1>8. Need(n) = n + p /\ Need(n - k) = n - k + q  BY <1>3 DEF Need
  <1> QED  BY <1>2, <1>5, <1>6, <1>7, <1>8 DEF Fee

LEMMA NeedNat ==
    ASSUME NEW n \in Nat
    PROVE  Need(n) \in Nat
  <1>1. Chunk \in Nat \ {0} /\ n + Chunk - 1 \in Nat  BY CreationAssumption
  <1> QED  BY <1>1, Quotient DEF Need

-----------------------------------------------------------------------------
(* Steps of the program. *)

LEMMA EndedFields ==
    ASSUME NEW result
    PROVE  /\ DOMAIN Ended(result) = Fields /\ Ended(result).stage = "ended"
           /\ Ended(result).result = result /\ Ended(result).table = NoTable
           /\ Ended(result).desired = << >> /\ Ended(result).stored = << >>
           /\ Ended(result).missing = << >> /\ Ended(result).rent = 0
           /\ Ended(result).margin = 0
  BY DEF Ended, Fields

\* Each stage's invariant says nothing of a run in another stage.
LEMMA Elsewhere ==
    /\ run'.stage # "rent" => AtRent'
    /\ run'.stage # "fund" => AtFund'
    /\ run'.stage # "create" => AtCreate'
    /\ run'.stage # "chunks" => AtChunks'
    /\ run'.stage # "relay" => AtRelay'
    /\ run'.stage # "await" => AtAwait'
    /\ run'.stage # "slot" => AtSlot'
    /\ run'.result # "ready" => WhenReady'
  BY DEF AtRent, AtFund, AtCreate, AtChunks, AtRelay, AtAwait, AtSlot, WhenReady

LEMMA NoAddresses == << >> \in Seq(Addresses) /\ IsInjective(<< >>)
  <1>1. << >> \in Seq(Addresses) /\ Len(<< >>) = 0  OBVIOUS
  <1>2. Injective(<< >>)  BY <1>1 DEF Injective
  <1> QED  BY <1>1, <1>2, NoRepeats

LEMMA ChainStays ==
    ASSUME ChainInv, UNCHANGED << slot, tables, balance, flight, final, hasty >>,
           announced' \subseteq 1..slot
    PROVE  ChainInv'
  <1>1. ChainTyped'  BY DEF ChainInv, ChainTyped
  <1>2. Timely'  BY DEF ChainInv, Timely, OnTime, Fresh
  <1>3. Orderly'  BY DEF ChainInv, Orderly
  <1> QED  BY <1>1, <1>2, <1>3 DEF ChainInv

LEMMA EndedHolds ==
    ASSUME NEW result, result # "ready", run' = Ended(result), slot' \in Nat
    PROVE  RunInv'
  <1>1. /\ DOMAIN run' = Fields /\ run'.stage = "ended"
        /\ run'.result # "ready" /\ run'.table = NoTable
        /\ run'.desired = << >> /\ run'.stored = << >> /\ run'.missing = << >>
        /\ run'.rent = 0 /\ run'.margin = 0
    BY EndedFields
  <1>2. RunTyped'  BY <1>1, NoAddresses DEF RunTyped, Moments, NoTable
  <1>3. Still'  BY <1>1 DEF Still
  <1> QED  BY <1>1, <1>2, <1>3, Elsewhere DEF RunInv

LEMMA EndKeeps ==
    ASSUME NEW result, result # "ready", CreationInv, End(result)
    PROVE  CreationInv'
  <1>1. /\ run' = Ended(result)
        /\ UNCHANGED << slot, tables, balance, flight, final, hasty, announced >>
    BY DEF End, Steps, Chain, chain
  <1>2. slot' \in Nat /\ announced' \subseteq 1..slot
    BY <1>1 DEF CreationInv, ChainInv, ChainTyped, Tables
  <1>3. ChainInv'  BY <1>1, <1>2, ChainStays DEF CreationInv
  <1>4. RunInv'  BY <1>1, <1>2, EndedHolds
  <1> QED  BY <1>3, <1>4 DEF CreationInv

\* A step within a run that changes nothing but the run.
Onward ==
    /\ UNCHANGED << slot, tables, balance, flight, final, hasty, announced >>
    /\ DOMAIN run' = Fields
    /\ run'.result = run.result /\ run'.table = run.table /\ run'.desired = run.desired

LEMMA OnwardChain ==
    ASSUME CreationInv, Onward
    PROVE  ChainInv' /\ slot \in Nat
  <1>1. UNCHANGED << slot, tables, balance, flight, final, hasty >>
        /\ announced' \subseteq 1..slot /\ slot \in Nat
    BY DEF Onward, CreationInv, ChainInv, ChainTyped, Tables
  <1> QED  BY <1>1, ChainStays DEF CreationInv

LEMMA TablesAreTyped ==
    ASSUME CreationInv, NEW t \in Tables
    PROVE  /\ tables[t].addresses \in Seq(Addresses)
           /\ Len(tables[t].addresses) \in Nat /\ tables[t].extended \in Nat
  BY DEF CreationInv, ChainInv, ChainTyped, TableType

LEMMA ReadKeeps ==
    ASSUME CreationInv, Read
    PROVE  CreationInv'
  <1>1. run.stage = "read" /\ RunTyped /\ Still  BY DEF CreationInv, RunInv, Read
  <1>2. PICK stored : stored = (IF run.table = NoTable THEN << >> ELSE tables[run.table].addresses)
    OBVIOUS
  <1>3. PICK missing : missing = Missing(run.desired, stored)  OBVIOUS
  <1>4. CASE End("unusable") \/ End("full")  BY <1>4, EndKeeps
  <1>5. CASE Steps([run EXCEPT !.stage = "rent", !.stored = stored, !.missing = missing])
    <2>1. /\ Onward
          /\ run'.stage = "rent" /\ run'.stored = stored /\ run'.missing = missing
          /\ run'.rent = run.rent /\ run'.margin = run.margin
      BY <1>1, <1>5, FieldNames DEF Steps, Chain, chain, Onward, RunTyped
    <2>2. ChainInv'  BY <2>1, OnwardChain
    <2>3. stored \in Seq(Addresses)
      <3>1. CASE run.table = NoTable  BY <1>2, <3>1, NoAddresses
      <3>2. CASE run.table # NoTable
        <4>1. run.table \in Tables  BY <1>1, <3>2 DEF RunTyped
        <4> QED  BY <1>2, <3>2, <4>1, TablesAreTyped
      <3> QED  BY <3>1, <3>2
    <2>4. missing \in Seq(Addresses) /\ IsInjective(missing) /\ Apart(missing, stored)
      BY <1>1, <1>3, <2>3, MissingFacts DEF RunTyped
    <2>5. RunTyped'
      BY <1>1, <2>1, <2>3, <2>4 DEF RunTyped, Onward, Moments
    <2>6. Still'  BY <1>1, <2>1 DEF Still, Onward
    <2>7. AtRent'  BY <1>2, <2>1, <2>4 DEF AtRent, NothingTwice, Onward
    <2>8. run'.result # "ready"  BY <1>1, <2>1 DEF Onward, RunTyped
    <2> QED  BY <2>1, <2>2, <2>5, <2>6, <2>7, <2>8, Elsewhere DEF CreationInv, RunInv
  <1> QED  BY <1>2, <1>3, <1>4, <1>5 DEF Read

LEMMA PriceRentKeeps ==
    ASSUME CreationInv, PriceRent
    PROVE  CreationInv'
  <1>1. run.stage = "rent" /\ RunTyped /\ Still /\ AtRent
    BY DEF CreationInv, RunInv, PriceRent
  <1>2. PICK n, m : n = Len(run.missing) /\ m = Len(run.stored)  OBVIOUS
  <1>3. n \in Nat /\ m \in Nat  BY <1>1, <1>2 DEF RunTyped
  <1>4. PICK paid : paid = (IF run.table = NoTable THEN 0
                            ELSE RentOf(Len(tables[run.table].addresses)))
    OBVIOUS
  <1>5. PICK whole : whole = RentOf(m + n)  OBVIOUS
  <1>6. PICK rent : rent = (IF paid >= whole THEN 0 ELSE whole - paid)  OBVIOUS
  <1>7. paid \in Nat /\ whole = 4 + (m + n) /\ rent \in Nat
    <2>1. paid \in Nat
      <3>1. CASE run.table = NoTable  BY <1>4, <3>1
      <3>2. CASE run.table # NoTable
        <4>1. run.table \in Tables  BY <1>1, <3>2 DEF RunTyped
        <4>2. Len(tables[run.table].addresses) \in Nat  BY <4>1, TablesAreTyped
        <4> QED  BY <1>4, <3>2, <4>2 DEF RentOf
      <3> QED  BY <3>1, <3>2
    <2>2. whole = 4 + (m + n)  BY <1>5 DEF RentOf
    <2> QED  BY <1>3, <1>6, <2>1, <2>2
  <1>8. Steps([run EXCEPT !.stage = "fund", !.rent = rent])
    BY <1>2, <1>4, <1>5, <1>6 DEF PriceRent
  <1>9. /\ Onward
        /\ run'.stage = "fund" /\ run'.rent = rent /\ run'.stored = run.stored
        /\ run'.missing = run.missing /\ run'.margin = run.margin
    BY <1>1, <1>8, FieldNames DEF Steps, Chain, chain, Onward, RunTyped
  <1>10. ChainInv'  BY <1>9, OnwardChain
  <1>11. RunTyped'  BY <1>1, <1>7, <1>9 DEF RunTyped, Onward, Moments
  <1>12. Still'  BY <1>1, <1>9 DEF Still, Onward
  <1>13. ~hasty => rent = n + IF run.table = NoTable THEN RentOf(0) ELSE 0
    <2> SUFFICES ASSUME ~hasty PROVE rent = n + IF run.table = NoTable THEN 4 ELSE 0
      BY DEF RentOf
    <2>1. run.stored = IF run.table = NoTable THEN << >> ELSE tables[run.table].addresses
      BY <1>1 DEF AtRent
    <2>2. CASE run.table = NoTable
      <3>1. m = 0 /\ paid = 0  BY <1>2, <1>4, <2>1, <2>2
      <3> QED  BY <1>3, <1>6, <1>7, <2>2, <3>1
    <2>3. CASE run.table # NoTable
      <3>1. paid = 4 + m  BY <1>2, <1>4, <2>1, <2>3 DEF RentOf
      <3> QED  BY <1>3, <1>6, <1>7, <2>3, <3>1
    <2> QED  BY <2>2, <2>3
  <1>14. AtFund'
    <2>1. ~hasty => NothingTwice(run.missing)  BY <1>1 DEF AtRent
    <2> QED  BY <1>2, <1>9, <1>13, <2>1 DEF AtFund, NothingTwice, Onward
  <1>15. run'.result # "ready"  BY <1>1, <1>9 DEF Onward, RunTyped
  <1> QED  BY <1>9, <1>10, <1>11, <1>12, <1>14, <1>15, Elsewhere DEF CreationInv, RunInv

LEMMA CheckFundingKeeps ==
    ASSUME CreationInv, CheckFunding
    PROVE  CreationInv'
  <1>1. run.stage = "fund" /\ RunTyped /\ Still /\ AtFund
    BY DEF CreationInv, RunInv, CheckFunding
  <1>2. PICK n, q : n = Len(run.missing) /\ q = (n + Chunk - 1) \div Chunk  OBVIOUS
  <1>3. n \in Nat  BY <1>1, <1>2 DEF RunTyped
  <1>4. q \in Nat /\ Need(n) = n + q
    <2>1. Chunk \in Nat \ {0} /\ n + Chunk - 1 \in Nat  BY <1>3, CreationAssumption
    <2> QED  BY <1>2, <2>1, Quotient DEF Need
  <1>5. PICK count, needed : /\ count = (q + IF run.table = NoTable THEN 1 ELSE 0)
                             /\ needed = run.rent + Fee * count
    OBVIOUS
  <1>6. count \in Nat /\ needed = run.rent + count /\ run.rent \in Nat /\ needed \in Nat
    BY <1>1, <1>4, <1>5 DEF RunTyped, Fee
  <1>7. balance \in Nat  BY DEF CreationInv, ChainInv, ChainTyped
  <1>8. count = TransactionCount(Len(run.missing), run.table)
    BY <1>2, <1>5 DEF TransactionCount
  <1>9. CASE balance < needed
    <2>1. End("short")  BY <1>5, <1>8, <1>9 DEF CheckFunding
    <2> QED  BY <2>1, EndKeeps
  <1>10. CASE ~(balance < needed)
    <2>1. PICK margin, next : /\ margin = balance - needed
                              /\ next = (IF run.table = NoTable THEN "create" ELSE "chunks")
      OBVIOUS
    <2>2. Steps([run EXCEPT !.margin = margin, !.stage = next])
      BY <1>5, <1>8, <1>10, <2>1 DEF CheckFunding
    <2>3. /\ Onward
          /\ run'.stage = next /\ run'.rent = run.rent /\ run'.stored = run.stored
          /\ run'.missing = run.missing /\ run'.margin = margin
      BY <1>1, <2>2, FieldNames DEF Steps, Chain, chain, Onward, RunTyped
    <2>4. margin \in Nat /\ balance = margin + needed  BY <1>6, <1>7, <1>10, <2>1
    <2>5. ChainInv'  BY <2>3, OnwardChain
    <2>6. RunTyped'  BY <1>1, <2>1, <2>3, <2>4 DEF RunTyped, Onward, Moments
    <2>7. Still'  BY <1>1, <2>1, <2>3 DEF Still, Onward
    <2>8. ~hasty => /\ NothingTwice(run.missing)
                    /\ run.rent = n + IF run.table = NoTable THEN 4 ELSE 0
      <3>1. RentOf(0) = 4  BY DEF RentOf
      <3>2. ~hasty => /\ NothingTwice(run.missing)
                      /\ run.rent = n + IF run.table = NoTable THEN RentOf(0) ELSE 0
        BY <1>1, <1>2 DEF AtFund
      <3> QED  BY <3>1, <3>2
    <2>9. AtCreate'
      <3>1. ~hasty /\ run.table = NoTable => balance >= margin + Fee + RentOf(0) + Need(n)
        BY <1>3, <1>4, <1>5, <1>6, <2>4, <2>8 DEF Fee, RentOf
      <3> QED  BY <1>2, <2>1, <2>3, <2>8, <3>1 DEF AtCreate, Onward, NothingTwice
    <2>10. AtChunks'
      <3>1. ~hasty /\ run.table # NoTable => balance >= margin + Need(n)
        BY <1>3, <1>4, <1>5, <1>6, <2>4, <2>8
      <3> QED  BY <1>2, <2>1, <2>3, <2>8, <3>1 DEF AtChunks, Onward, NothingTwice
    <2>11. run'.result # "ready"  BY <1>1, <2>3 DEF Onward, RunTyped
    <2> QED
      BY <2>1, <2>3, <2>5, <2>6, <2>7, <2>9, <2>10, <2>11, Elsewhere DEF CreationInv, RunInv
  <1> QED  BY <1>9, <1>10

\* Signing anything over a fresh blockhash: nothing final can be the same.
LEMMA SignedIsFresh ==
    ASSUME CreationInv, NEW tx, tx.until = slot + Life
    PROVE  Fresh(tx)
  <1>1. slot \in Nat /\ Life \in Nat
    BY CreationAssumption DEF CreationInv, ChainInv, ChainTyped, Tables
  <1>2. ASSUME NEW f \in final, f.tx = tx PROVE FALSE
    <2>1. f.tx.until < slot + Life  BY DEF CreationInv, ChainInv, Timely
    <2> QED  BY <1>1, <1>2, <2>1
  <1> QED  BY <1>2 DEF Fresh

LEMMA TxFields ==
    ASSUME NEW op, NEW table, NEW chunk
    PROVE  /\ Tx(op, table, chunk).op = op /\ Tx(op, table, chunk).table = table
           /\ Tx(op, table, chunk).chunk = chunk /\ Tx(op, table, chunk).until = slot + Life
  BY DEF Tx

LEMMA CreateKeeps ==
    ASSUME CreationInv, CreateTable
    PROVE  CreationInv'
  <1>1. run.stage = "create" /\ RunTyped /\ Still /\ AtCreate
    BY DEF CreationInv, RunInv, CreateTable
  <1>2. PICK tx : tx = Tx("create", slot, << >>)  OBVIOUS
  <1>3. /\ tx.op = "create" /\ tx.table = slot /\ tx.chunk = << >> /\ tx.until = slot + Life
    BY <1>2, TxFields
  <1>4. /\ run' = Sign(tx) /\ announced' = announced \cup {slot}
        /\ UNCHANGED << slot, tables, balance, flight, final, hasty >>
    BY <1>2, <1>3 DEF CreateTable, Chain, chain
  <1>5. /\ DOMAIN run' = Fields /\ run'.stage = "relay" /\ run'.tx = tx /\ run'.table = slot
        /\ run'.result = run.result /\ run'.desired = run.desired /\ run'.stored = run.stored
        /\ run'.missing = run.missing /\ run'.rent = run.rent /\ run'.margin = run.margin
    BY <1>1, <1>3, <1>4, FieldNames DEF Sign, RunTyped
  <1>6. slot \in Tables /\ slot \in Nat /\ slot \in 1..slot /\ announced \subseteq 1..slot
    BY <1>1 DEF CreationInv, ChainInv, ChainTyped, RunTyped
  <1>7. Life \in Nat /\ slot + Life \in Nat  BY <1>6, CreationAssumption
  <1>8. ChainInv'  BY <1>4, <1>6, ChainStays DEF CreationInv
  <1>9. tx \in TxType
    <2>1. tx = [op |-> "create", table |-> slot, chunk |-> << >>, until |-> slot + Life]
      BY <1>2 DEF Tx
    <2> QED  BY <1>6, <1>7, <2>1, NoAddresses DEF TxType
  <1>10. RunTyped'
    BY <1>1, <1>3, <1>4, <1>5, <1>6, <1>9 DEF RunTyped, Moments
  <1>11. Still'  BY <1>1, <1>4, <1>5 DEF Still
  <1>12. OnTime(tx)  BY <1>3, <1>6, <1>7 DEF OnTime
  <1>13. Fresh(tx)  BY <1>3, SignedIsFresh
  <1>14. tables[slot].addresses = << >>
    BY <1>6 DEF CreationInv, ChainInv, Timely
  <1>15. ~hasty => IsInjective(run.missing) /\ Apart(run.missing, tables[slot].addresses)
    <2>1. Len(tables[slot].addresses) = 0  BY <1>14
    <2> QED  BY <1>1, <2>1 DEF AtCreate, Apart
  <1>16. AtRelay'
    <2>1. CostOf(tx) = Fee + RentOf(0)  BY <1>3 DEF CostOf
    <2>2. Rest' = run.missing  BY <1>3, <1>5 DEF Rest
    <2>3. ~hasty => balance >= run.margin + Fee + RentOf(0) + Need(Len(run.missing))
      BY <1>1 DEF AtCreate
    <2>4. ~hasty => balance >= run.margin + CostOf(tx) + Need(Len(run.missing))
      <3>1. PICK need : need = Need(Len(run.missing))  OBVIOUS
      <3>2. need \in Nat  BY <1>1, <3>1, NeedNat DEF RunTyped
      <3>3. run.margin \in Nat  BY <1>1 DEF RunTyped
      <3> QED  BY <2>1, <2>3, <3>1, <3>2, <3>3 DEF Fee, RentOf
    <2>5. OnTime(run.tx)' /\ Fresh(run.tx)'
      BY <1>4, <1>5, <1>12, <1>13 DEF OnTime, Fresh
    <2>6. CostOf(run.tx)' = CostOf(tx)  BY <1>5 DEF CostOf
    <2>7. ~hasty => NothingTwice(run.missing)'
      BY <1>4, <1>5, <1>15 DEF NothingTwice
    <2>8. /\ OnTime(run.tx)'
          /\ ~hasty' => /\ Fresh(run.tx)' /\ NothingTwice(run.missing)'
                        /\ balance' >= run'.margin + CostOf(run.tx)' + Need(Len(Rest'))
      BY <1>4, <1>5, <2>2, <2>4, <2>5, <2>6, <2>7
    <2> QED  BY <2>8 DEF AtRelay
  <1>17. run'.result # "ready"  BY <1>1, <1>5 DEF RunTyped
  <1> QED  BY <1>5, <1>8, <1>10, <1>11, <1>16, <1>17, Elsewhere DEF CreationInv, RunInv

LEMMA ExtendKeeps ==
    ASSUME CreationInv, ExtendTable
    PROVE  CreationInv'
  <1>1. run.stage = "chunks" /\ RunTyped /\ Still /\ AtChunks
    BY DEF CreationInv, RunInv, ExtendTable
  <1>2. CASE run.missing = << >>
    <2>1. Steps([run EXCEPT !.stage = "look"])  BY <1>2 DEF ExtendTable
    <2>2. /\ Onward
          /\ run'.stage = "look" /\ run'.rent = run.rent /\ run'.stored = run.stored
          /\ run'.missing = run.missing /\ run'.margin = run.margin
      BY <1>1, <2>1, FieldNames DEF Steps, Chain, chain, Onward, RunTyped
    <2>3. ChainInv'  BY <2>2, OnwardChain
    <2>4. RunTyped'  BY <1>1, <2>2 DEF RunTyped, Onward, Moments
    <2>5. Still'  BY <1>1, <2>2 DEF Still, Onward
    <2>6. run'.result # "ready"  BY <1>1, <2>2 DEF Onward, RunTyped
    <2> QED  BY <2>2, <2>3, <2>4, <2>5, <2>6, Elsewhere DEF CreationInv, RunInv
  <1>3. CASE run.missing # << >>
    <2>1. PICK m, c, r : /\ m = run.missing /\ c = NextChunk(m)
                         /\ r = SubSeq(m, Len(c) + 1, Len(m))
      OBVIOUS
    <2>2. m \in Seq(Addresses) /\ m # << >>  BY <1>1, <1>3, <2>1 DEF RunTyped
    <2>3. Split(m, c, r)  BY <2>1, <2>2, ChunkSplits
    <2>4. PICK tx : tx = Tx("extend", run.table, c)  OBVIOUS
    <2>5. tx.op = "extend" /\ tx.table = run.table /\ tx.chunk = c /\ tx.until = slot + Life
      BY <2>4, TxFields
    <2>6. Steps(Sign(tx))  BY <1>3, <2>1, <2>4 DEF ExtendTable
    <2>7. /\ Onward
          /\ run'.stage = "relay" /\ run'.tx = tx /\ run'.rent = run.rent
          /\ run'.stored = run.stored /\ run'.missing = m /\ run'.margin = run.margin
      BY <1>1, <2>1, <2>5, <2>6, FieldNames DEF Steps, Sign, Chain, chain, Onward, RunTyped
    <2>8. ChainInv' /\ slot \in Nat  BY <2>7, OnwardChain
    <2>9. Life \in Nat /\ slot + Life \in Nat  BY <2>8, CreationAssumption
    <2>10. run.table \in Tables /\ run.table <= slot /\ run.table \in Nat
      BY <1>1 DEF RunTyped, Tables, NoTable
    <2>11. tx \in TxType
      <3>1. tx = [op |-> "extend", table |-> run.table, chunk |-> c, until |-> slot + Life]
        BY <2>4 DEF Tx
      <3> QED  BY <2>3, <2>9, <2>10, <3>1 DEF TxType, Split
    <2>12. RunTyped'
      BY <1>1, <1>3, <2>1, <2>2, <2>5, <2>7, <2>10, <2>11 DEF RunTyped, Onward, Moments
    <2>13. Still'  BY <1>1, <2>7 DEF Still, Onward
    <2>14. OnTime(tx)  BY <2>5, <2>8, <2>9, <2>10 DEF OnTime
    <2>15. Fresh(tx)  BY <2>5, SignedIsFresh
    <2>16. AtRelay'
      <3>1. PICK n, k : n = Len(m) /\ k = (IF n < Chunk THEN n ELSE Chunk)  OBVIOUS
      <3>2. n \in Nat \ {0} /\ Len(c) = k /\ Len(r) = n - k
        <4>1. n \in Nat \ {0}  BY <2>2, <3>1
        <4> QED  BY <2>3, <3>1, <4>1 DEF Split
      <3>3. Need(n) \in Nat /\ Need(n - k) \in Nat /\ Need(n) >= Fee + k + Need(n - k)
        BY <3>1, <3>2, NeedSplits
      <3>4. k \in Nat /\ run.margin \in Nat /\ balance \in Nat
        BY <1>1, <2>3, <3>2 DEF Split, RunTyped, CreationInv, ChainInv, ChainTyped
      <3>5. CostOf(tx) = Fee + k  BY <2>5, <3>2 DEF CostOf
      <3>6. ~hasty => balance >= run.margin + Need(n)  BY <1>1, <2>1, <3>1 DEF AtChunks
      <3>7. ~hasty => balance >= run.margin + CostOf(tx) + Need(n - k)
        BY <3>3, <3>4, <3>5, <3>6 DEF Fee
      <3>8. Rest' = r  BY <2>1, <2>5, <2>7 DEF Rest
      <3>9. CostOf(run.tx)' = CostOf(tx)  BY <2>7 DEF CostOf
      <3>10. OnTime(run.tx)' /\ Fresh(run.tx)'
        BY <2>7, <2>14, <2>15 DEF OnTime, Fresh, Onward
      <3>11. ~hasty => NothingTwice(run.missing)'
        BY <1>1, <2>1, <2>7 DEF AtChunks, NothingTwice, Onward
      <3>12. hasty' = hasty /\ balance' = balance  BY <2>7 DEF Onward
      <3>13. /\ OnTime(run.tx)'
             /\ ~hasty' => /\ Fresh(run.tx)' /\ NothingTwice(run.missing)'
                           /\ balance' >= run'.margin + CostOf(run.tx)' + Need(Len(Rest'))
        BY <2>7, <3>2, <3>7, <3>8, <3>9, <3>10, <3>11, <3>12
      <3> QED  BY <3>13 DEF AtRelay
    <2>17. run'.result # "ready"  BY <1>1, <2>7 DEF Onward, RunTyped
    <2> QED
      BY <2>7, <2>8, <2>12, <2>13, <2>16, <2>17, Elsewhere DEF CreationInv, RunInv
  <1> QED  BY <1>2, <1>3

\* The transaction the program signed is taken, and may land from now on.
LEMMA TakenKeepsChain ==
    ASSUME CreationInv, run.stage = "relay", Fresh(run.tx),
           flight' = flight \cup {run.tx},
           UNCHANGED << slot, tables, balance, final, hasty, announced >>
    PROVE  ChainInv'
  <1>1. ChainTyped /\ Timely /\ Orderly /\ RunTyped /\ AtRelay /\ Still
    BY DEF CreationInv, ChainInv, RunInv
  <1>2. run.tx \in TxType /\ run.tx.table = run.table /\ run.table \in Tables
    BY <1>1 DEF RunTyped
  <1>3. ChainTyped'  BY <1>1, <1>2 DEF ChainTyped
  <1>4. Timely'
    <2>1. OnTime(run.tx)  BY <1>1 DEF AtRelay
    <2> QED  BY <1>1, <2>1 DEF Timely, OnTime, Fresh
  <1>5. Orderly'
    <2>1. CASE hasty  BY <2>1 DEF Orderly
    <2>2. CASE ~hasty
      <3>1. flight' = {run.tx}  BY <1>1, <2>2 DEF Still
      <3>2. ASSUME run.tx.op = "extend"
            PROVE  /\ IsInjective(run.tx.chunk)
                   /\ Apart(run.tx.chunk, tables[run.tx.table].addresses)
        <4>1. PICK m, c, r : /\ m = run.missing /\ c = NextChunk(m)
                             /\ r = SubSeq(m, Len(c) + 1, Len(m))
          OBVIOUS
        <4>2. m \in Seq(Addresses) /\ m # << >> /\ run.tx.chunk = c
          BY <1>1, <3>2, <4>1 DEF RunTyped
        <4>3. Split(m, c, r)  BY <4>1, <4>2, ChunkSplits
        <4>4. IsInjective(m) /\ Apart(m, tables[run.table].addresses)
          <5>1. run.table # NoTable  BY <1>2 DEF Tables, NoTable
          <5> QED  BY <1>1, <2>2, <4>1, <5>1 DEF AtRelay, NothingTwice
        <4>5. IsInjective(c)  BY <4>2, <4>3, <4>4, SplitNoRepeats
        <4>6. tables[run.table].addresses \in Seq(Addresses)  BY <1>2, TablesAreTyped
        <4>7. Apart(c, tables[run.table].addresses)  BY <4>2, <4>3, <4>4, <4>6, SplitApart
        <4> QED  BY <1>2, <4>2, <4>5, <4>7
      <3>3. \A t \in Tables : IsInjective(tables'[t].addresses)  BY <1>1, <2>2 DEF Orderly
      <3>4. \A tx \in flight' : tx.op = "extend" =>
              IsInjective(tx.chunk) /\ Apart(tx.chunk, tables'[tx.table].addresses)
        BY <3>1, <3>2
      <3>5. \A x, y \in flight' : x = y  BY <3>1
      <3> QED  BY <3>3, <3>4, <3>5 DEF Orderly
    <2> QED  BY <2>1, <2>2
  <1> QED  BY <1>3, <1>4, <1>5 DEF ChainInv

LEMMA RelayKeeps ==
    ASSUME CreationInv, Relay
    PROVE  CreationInv'
  <1>1. run.stage = "relay" /\ RunTyped /\ Still /\ AtRelay
    BY DEF CreationInv, RunInv, Relay
  <1>2. /\ flight' = flight \cup {tx \in {run.tx} : Fresh(tx)}
        /\ run' = [run EXCEPT !.stage = "await"]
        /\ UNCHANGED << slot, tables, balance, final, hasty, announced >>
    BY DEF Relay, Chain, chain
  <1>3. /\ DOMAIN run' = Fields /\ run'.stage = "await" /\ run'.tx = run.tx
        /\ run'.table = run.table /\ run'.result = run.result /\ run'.desired = run.desired
        /\ run'.stored = run.stored /\ run'.missing = run.missing /\ run'.rent = run.rent
        /\ run'.margin = run.margin
    BY <1>1, <1>2, FieldNames DEF RunTyped
  <1>4. ChainInv'
    <2>1. CASE Fresh(run.tx)
      <3>1. flight' = flight \cup {run.tx}  BY <1>2, <2>1
      <3> QED  BY <1>1, <1>2, <2>1, <3>1, TakenKeepsChain
    <2>2. CASE ~Fresh(run.tx)
      <3>1. flight' = flight  BY <1>2, <2>2
      <3>2. announced' \subseteq 1..slot  BY <1>2 DEF CreationInv, ChainInv, ChainTyped
      <3> QED  BY <1>2, <3>1, <3>2, ChainStays DEF CreationInv
    <2> QED  BY <2>1, <2>2
  <1>5. RunTyped'  BY <1>1, <1>2, <1>3 DEF RunTyped, Moments
  <1>6. Still'  BY <1>3 DEF Still
  <1>7. AtAwait'
    <2>1. CASE hasty  BY <1>2, <2>1 DEF AtAwait
    <2>2. CASE ~hasty
      <3>1. /\ Fresh(run.tx) /\ NothingTwice(run.missing)
            /\ balance >= run.margin + CostOf(run.tx) + Need(Len(Rest))
        BY <1>1, <2>2 DEF AtRelay
      <3>2. flight' \subseteq {run.tx}  BY <1>1, <1>2, <2>2 DEF Still
      <3>3. ~Landed  BY <3>1 DEF Landed, Fresh
      <3>4. ~Landed'  BY <1>2, <1>3, <3>3 DEF Landed
      <3>5. NothingTwice(run.missing)' /\ IsInjective(run'.missing)
        BY <1>2, <1>3, <3>1 DEF NothingTwice
      <3>6. Rest' = Rest /\ CostOf(run.tx)' = CostOf(run.tx)  BY <1>3 DEF Rest, CostOf
      <3>7. balance' >= run'.margin + CostOf(run.tx)' + Need(Len(Rest'))
        BY <1>2, <1>3, <3>1, <3>6
      <3> QED  BY <1>3, <3>2, <3>4, <3>5, <3>7 DEF AtAwait
    <2> QED  BY <2>1, <2>2
  <1>8. run'.result # "ready"  BY <1>1, <1>3 DEF RunTyped
  <1> QED  BY <1>3, <1>4, <1>5, <1>6, <1>7, <1>8, Elsewhere DEF CreationInv, RunInv

LEMMA ConfirmedKeeps ==
    ASSUME CreationInv, Confirmed
    PROVE  CreationInv'
  <1>1. run.stage = "await" /\ RunTyped /\ AtAwait /\ Landed /\ Timely
    BY DEF CreationInv, RunInv, ChainInv, Confirmed, Landed
  <1>2. PICK rest : rest = Rest  OBVIOUS
  <1>3. run.tx \in TxType  BY <1>1 DEF RunTyped
  <1>4. run.tx.op \in {"create", "extend"}  BY <1>3 DEF TxType
  <1>5. Steps([run EXCEPT !.stage = "chunks", !.missing = rest])
    <2>1. CASE run.tx.op = "create"
      BY <1>2, <2>1 DEF Confirmed, Rest
    <2>2. CASE run.tx.op # "create"
      BY <1>2, <2>2 DEF Confirmed, Rest
    <2> QED  BY <2>1, <2>2
  <1>6. /\ Onward
        /\ run'.stage = "chunks" /\ run'.missing = rest /\ run'.rent = run.rent
        /\ run'.stored = run.stored /\ run'.margin = run.margin
    BY <1>1, <1>5, FieldNames DEF Steps, Chain, chain, Onward, RunTyped
  <1>7. ChainInv'  BY <1>6, OnwardChain
  <1>8. rest \in Seq(Addresses)
    <2>1. CASE run.tx.op = "create"  BY <1>1, <1>2, <2>1 DEF Rest, RunTyped
    <2>2. CASE run.tx.op = "extend"
      <3>1. PICK m, c : m = run.missing /\ c = NextChunk(m)  OBVIOUS
      <3>2. m \in Seq(Addresses) /\ m # << >> /\ run.tx.chunk = c
        BY <1>1, <2>2, <3>1 DEF RunTyped
      <3>3. rest = SubSeq(m, Len(c) + 1, Len(m))  BY <1>2, <2>2, <3>1, <3>2 DEF Rest
      <3> QED  BY <3>1, <3>2, <3>3, ChunkSplits DEF Split
    <2> QED  BY <1>4, <2>1, <2>2
  <1>9. RunTyped'  BY <1>1, <1>6, <1>8 DEF RunTyped, Onward, Moments
  <1>10. Still'
    <2>1. run.tx \notin flight  BY <1>1 DEF Timely, Fresh, Landed
    <2>2. ~hasty => flight = {}  BY <1>1, <2>1 DEF AtAwait
    <2> QED  BY <1>6, <2>2 DEF Still, Onward
  <1>11. AtChunks'
    <2>1. ~hasty => NothingTwice(rest) /\ balance >= run.margin + Need(Len(rest))
      BY <1>1, <1>2 DEF AtAwait
    <2> QED  BY <1>6, <2>1 DEF AtChunks, NothingTwice, Onward
  <1>12. run'.result # "ready"  BY <1>1, <1>6 DEF Onward, RunTyped
  <1> QED
    BY <1>6, <1>7, <1>9, <1>10, <1>11, <1>12, Elsewhere DEF CreationInv, RunInv

LEMMA AfterMissKeeps ==
    ASSUME CreationInv, run.stage \in {"look", "slot"}, AfterMiss
    PROVE  CreationInv'
  <1>1. RunTyped /\ Still  BY DEF CreationInv, RunInv
  <1>2. CASE End("inactive")  BY <1>2, EndKeeps
  <1>3. CASE Steps([run EXCEPT !.stage = "look", !.attempts = @ + 1])
    <2>1. /\ Onward
          /\ run'.stage = "look" /\ run'.missing = run.missing /\ run'.rent = run.rent
          /\ run'.stored = run.stored /\ run'.margin = run.margin
      BY <1>1, <1>3, FieldNames DEF Steps, Chain, chain, Onward, RunTyped
    <2>2. ChainInv'  BY <2>1, OnwardChain
    <2>3. RunTyped'  BY <1>1, <2>1 DEF RunTyped, Onward, Moments
    <2>4. Still'  BY <1>1, <2>1 DEF Still, Onward
    <2>5. run'.result # "ready"  BY <1>1, <2>1 DEF Onward, RunTyped
    <2> QED  BY <2>1, <2>2, <2>3, <2>4, <2>5, Elsewhere DEF CreationInv, RunInv
  <1> QED  BY <1>2, <1>3 DEF AfterMiss

LEMMA LookKeeps ==
    ASSUME CreationInv, Look
    PROVE  CreationInv'
  <1>1. run.stage = "look" /\ RunTyped /\ Still  BY DEF CreationInv, RunInv, Look
  <1>2. CASE ~Complete(tables[run.table])
    <2>1. AfterMiss  BY <1>2 DEF Look
    <2> QED  BY <1>1, <2>1, AfterMissKeeps
  <1>3. CASE Complete(tables[run.table])
    <2>1. PICK extended : extended = tables[run.table].extended  OBVIOUS
    <2>2. Steps([run EXCEPT !.stage = "slot", !.extended = extended])
      BY <1>3, <2>1 DEF Look
    <2>3. /\ Onward
          /\ run'.stage = "slot" /\ run'.missing = run.missing /\ run'.rent = run.rent
          /\ run'.stored = run.stored /\ run'.margin = run.margin /\ run'.extended = extended
      BY <1>1, <2>2, FieldNames DEF Steps, Chain, chain, Onward, RunTyped
    <2>4. ChainInv'  BY <2>3, OnwardChain
    <2>5. RunTyped'  BY <1>1, <2>3 DEF RunTyped, Onward, Moments
    <2>6. Still'  BY <1>1, <2>3 DEF Still, Onward
    <2>7. AtSlot'  BY <1>3, <2>1, <2>3 DEF AtSlot, Complete, Onward
    <2>8. run'.result # "ready"  BY <1>1, <2>3 DEF Onward, RunTyped
    <2> QED  BY <2>3, <2>4, <2>5, <2>6, <2>7, <2>8, Elsewhere DEF CreationInv, RunInv
  <1> QED  BY <1>2, <1>3

LEMMA CompareSlotKeeps ==
    ASSUME CreationInv, CompareSlot
    PROVE  CreationInv'
  <1>1. run.stage = "slot" /\ RunTyped /\ Still /\ AtSlot
    BY DEF CreationInv, RunInv, CompareSlot
  <1>2. CASE ~Warm(run.extended)
    <2>1. AfterMiss  BY <1>2 DEF CompareSlot
    <2> QED  BY <1>1, <2>1, AfterMissKeeps
  <1>3. CASE Warm(run.extended)
    <2>1. /\ run' = [run EXCEPT !.stage = "ended", !.result = "ready"]
          /\ UNCHANGED << slot, tables, balance, flight, final, hasty, announced >>
      BY <1>3 DEF CompareSlot, Chain, chain
    <2>2. /\ DOMAIN run' = Fields /\ run'.stage = "ended" /\ run'.result = "ready"
          /\ run'.table = run.table /\ run'.desired = run.desired /\ run'.stored = run.stored
          /\ run'.missing = run.missing /\ run'.rent = run.rent /\ run'.margin = run.margin
      BY <1>1, <2>1, FieldNames DEF RunTyped
    <2>3. announced' \subseteq 1..slot  BY <2>1 DEF CreationInv, ChainInv, ChainTyped
    <2>4. ChainInv'  BY <2>1, <2>3, ChainStays DEF CreationInv
    <2>5. RunTyped'  BY <1>1, <2>1, <2>2 DEF RunTyped, Moments
    <2>6. Still'  BY <2>2 DEF Still
    <2>7. WhenReady'
      <3>1. Complete(tables[run.table])'  BY <1>1, <2>1, <2>2 DEF AtSlot, Complete
      <3>2. ~hasty => flight = {} /\ slot > tables[run.table].extended
        BY <1>1, <1>3 DEF Still, AtSlot, Warm
      <3> QED  BY <2>1, <2>2, <3>1, <3>2 DEF WhenReady
    <2> QED  BY <2>2, <2>4, <2>5, <2>6, <2>7, Elsewhere DEF CreationInv, RunInv
  <1> QED  BY <1>2, <1>3

LEMMA StopKeeps ==
    ASSUME CreationInv, Stop
    PROVE  CreationInv'
  <1>1. /\ run' = Ended("stopped")
        /\ UNCHANGED << slot, tables, balance, final, hasty, announced >>
    BY DEF Stop, Chain, chain
  <1>2. slot' \in Nat /\ announced' \subseteq 1..slot
    BY <1>1 DEF CreationInv, ChainInv, ChainTyped, Tables
  <1>3. RunInv'  BY <1>1, <1>2, EndedHolds
  <1>4. ChainInv'
    <2>1. CASE flight' = flight  BY <1>1, <1>2, <2>1, ChainStays DEF CreationInv
    <2>2. CASE run.stage = "relay" /\ Fresh(run.tx) /\ flight' = flight \cup {run.tx}
      BY <1>1, <2>2, TakenKeepsChain
    <2> QED  BY <2>1, <2>2 DEF Stop
  <1> QED  BY <1>3, <1>4 DEF CreationInv

-----------------------------------------------------------------------------
(* Steps of the operator and the network. *)

LEMMA StartKeeps ==
    ASSUME CreationInv, NEW table \in Tables \cup {NoTable}, NEW desired \in Lists,
           Start(table, desired)
    PROVE  CreationInv'
  <1>1. /\ run' = [Ended("running") EXCEPT !.stage = "read", !.table = table, !.desired = desired]
        /\ table # NoTable => table \in announced
        /\ hasty' = (hasty \/ flight # {})
        /\ UNCHANGED << slot, tables, balance, final, flight, announced >>
        /\ table = NoTable => slot <= MaxSlot
    BY DEF Start, chain
  <1>2. /\ DOMAIN run' = Fields /\ run'.stage = "read" /\ run'.result = "running"
        /\ run'.table = table /\ run'.desired = desired /\ run'.stored = << >>
        /\ run'.missing = << >> /\ run'.rent = 0 /\ run'.margin = 0
    BY <1>1, EndedFields, FieldNames
  <1>3. /\ slot \in Nat /\ announced \subseteq 1..slot /\ hasty \in BOOLEAN
        /\ table = NoTable => slot \in Tables
        /\ ChainTyped /\ Timely /\ Orderly
    BY <1>1, CreationAssumption DEF CreationInv, ChainInv, ChainTyped, Tables
  <1>4. ChainInv'
    <2>1. hasty' \in BOOLEAN  BY <1>1
    <2>2. ChainTyped'  BY <1>1, <1>3, <2>1 DEF ChainTyped
    <2>3. Timely'  BY <1>1, <1>3 DEF Timely, OnTime, Fresh
    <2>4. Orderly'  BY <1>1, <1>3 DEF Orderly
    <2> QED  BY <2>2, <2>3, <2>4 DEF ChainInv
  <1>5. table <= slot
    <2>1. CASE table = NoTable  BY <1>3, <2>1 DEF NoTable
    <2>2. CASE table # NoTable
      <3>1. table \in 1..slot  BY <1>1, <1>3, <2>2
      <3> QED  BY <3>1
    <2> QED  BY <2>1, <2>2
  <1>6. desired \in Seq(Addresses) /\ IsInjective(desired)  BY CreationAssumption
  <1>7. RunTyped'
    <2>1. run'.table \in Tables \cup {NoTable} /\ run'.table <= slot'  BY <1>1, <1>2, <1>5
    <2>2. run'.desired \in Seq(Addresses) /\ IsInjective(run'.desired)  BY <1>2, <1>6
    <2>3. run'.stored \in Seq(Addresses) /\ run'.missing \in Seq(Addresses)
      BY <1>2, NoAddresses
    <2> QED  BY <1>1, <1>2, <1>3, <2>1, <2>2, <2>3 DEF RunTyped, Moments
  <1>8. Still'  BY <1>1 DEF Still
  <1> QED  BY <1>2, <1>4, <1>7, <1>8, Elsewhere DEF CreationInv, RunInv

\* Time passing.
LEMMA NextSlotKeeps ==
    ASSUME CreationInv, NextSlot
    PROVE  CreationInv'
  <1>1. /\ slot < MaxSlot \/ run.stage = "await"
        /\ slot' = slot + 1
        /\ UNCHANGED << tables, balance, final, flight, announced, hasty, run >>
    BY DEF NextSlot, chain
  <1>2. /\ ChainTyped /\ Timely /\ Orderly /\ RunInv /\ slot \in Nat \ {0}
        /\ announced \subseteq 1..slot
    BY DEF CreationInv, ChainInv, ChainTyped, Tables
  <1>3. MaxSlot \in Nat /\ Life \in Nat  BY CreationAssumption
  <1>4. ChainTyped'
    <2>1. slot' \in Nat \ {0}  BY <1>1, <1>2
    <2>2. 1..slot \subseteq 1..(slot + 1)  BY <1>2
    <2> QED  BY <1>1, <1>2, <2>1, <2>2 DEF ChainTyped
  <1>5. \A tx \in flight : tx.until \in Nat  BY <1>2 DEF ChainTyped, TxType
  <1>6. ASSUME NEW tx, OnTime(tx), tx.until \in Nat PROVE OnTime(tx)'
    BY <1>1, <1>2, <1>3, <1>6 DEF OnTime
  <1>7. Timely'
    <2>1. \A tx \in flight' : OnTime(tx)' /\ Fresh(tx)'
      BY <1>1, <1>2, <1>5, <1>6 DEF Timely, Fresh
    <2>2. ASSUME NEW f \in final' PROVE f.tx.until < slot' + Life
      <3>1. PICK u : u = f.tx.until  OBVIOUS
      <3>2. f \in [tx : TxType, ok : BOOLEAN] /\ u < slot + Life
        BY <1>1, <1>2, <3>1 DEF ChainTyped, Timely
      <3>3. u \in Nat  BY <3>1, <3>2 DEF TxType
      <3> QED  BY <1>1, <1>2, <1>3, <3>1, <3>2, <3>3
    <2>3. \A t \in Tables : tables'[t].addresses # << >> => t < slot'
      BY <1>1, <1>2 DEF Timely, Tables
    <2>4. \A t \in Tables : tables'[t].state = "none" => tables'[t].addresses = << >>
      BY <1>1, <1>2 DEF Timely
    <2> QED  BY <2>1, <2>2, <2>3, <2>4 DEF Timely
  <1>8. Orderly'  BY <1>1, <1>2 DEF Orderly
  <1>9. RunTyped /\ Still /\ AtRelay /\ WhenReady  BY <1>2 DEF RunInv
  <1>10. RunTyped'
    <2>1. run.table <= slot'
      <3>1. run.table \in Int /\ run.table <= slot  BY <1>9 DEF RunTyped, Tables, NoTable
      <3> QED  BY <1>1, <1>2, <3>1
    <2>2. run.stage \in {"read", "rent", "fund", "create"} /\ run.table = NoTable
             => slot' \in Tables
      BY <1>1, <1>2, <1>3, <1>9 DEF Tables, RunTyped
    <2> QED  BY <1>1, <1>9, <2>1, <2>2 DEF RunTyped
  <1>11. AtRelay'
    <2>1. ASSUME run.stage = "relay" PROVE OnTime(run.tx)'
      <3>1. PICK tx : tx = run.tx  OBVIOUS
      <3>2. OnTime(tx) /\ tx \in TxType  BY <1>9, <2>1, <3>1 DEF AtRelay, RunTyped
      <3>3. tx.until \in Nat  BY <3>2 DEF TxType
      <3>4. OnTime(tx)'  BY <1>6, <3>2, <3>3
      <3>5. run.tx' = tx  BY <1>1, <3>1
      <3> QED  BY <3>4, <3>5 DEF OnTime
    <2> QED  BY <1>1, <1>9, <2>1 DEF AtRelay, Fresh, NothingTwice, CostOf, Rest
  <1>12. WhenReady'
    <2>1. ASSUME run.result = "ready", ~hasty PROVE slot' > tables[run.table].extended
      <3>1. run.table \in Tables /\ slot > tables[run.table].extended
        BY <1>9, <2>1 DEF WhenReady, RunTyped
      <3>2. tables[run.table].extended \in Nat  BY <3>1, TablesAreTyped
      <3> QED  BY <1>1, <1>2, <3>1, <3>2
    <2> QED  BY <1>1, <1>9, <2>1 DEF WhenReady, Complete
  <1>13. Still' /\ AtRent' /\ AtFund' /\ AtCreate' /\ AtChunks'
    BY <1>1, <1>2 DEF RunInv, Still, AtRent, AtFund, AtCreate, AtChunks, NothingTwice
  <1>14. AtAwait'
    BY <1>1, <1>2 DEF RunInv, AtAwait, NothingTwice, Rest, Landed, CostOf
  <1>15. AtSlot'  BY <1>1, <1>2 DEF RunInv, AtSlot, Complete
  <1> QED
    BY <1>4, <1>7, <1>8, <1>10, <1>11, <1>12, <1>13, <1>14, <1>15
    DEF CreationInv, ChainInv, RunInv

LEMMA LoseKeeps ==
    ASSUME CreationInv, NEW tx \in flight, Lose(tx)
    PROVE  CreationInv'
  <1>1. /\ flight' \subseteq flight
        /\ UNCHANGED << slot, tables, balance, final, announced, hasty, run >>
    BY DEF Lose, chain
  <1>2. ChainTyped /\ Timely /\ Orderly /\ RunInv  BY DEF CreationInv, ChainInv
  <1>3. ChainTyped'  BY <1>1, <1>2 DEF ChainTyped
  <1>4. Timely'  BY <1>1, <1>2 DEF Timely, OnTime, Fresh
  <1>5. Orderly'  BY <1>1, <1>2 DEF Orderly
  <1>6. RunTyped'  BY <1>1, <1>2 DEF RunInv, RunTyped
  <1>7. Still' /\ AtRent' /\ AtFund' /\ AtCreate' /\ AtChunks'
    BY <1>1, <1>2 DEF RunInv, Still, AtRent, AtFund, AtCreate, AtChunks, NothingTwice
  <1>8. AtRelay'
    BY <1>1, <1>2 DEF RunInv, AtRelay, OnTime, Fresh, NothingTwice, CostOf, Rest
  <1>9. AtAwait'
    BY <1>1, <1>2 DEF RunInv, AtAwait, NothingTwice, Rest, Landed, CostOf
  <1>10. AtSlot'  BY <1>1, <1>2 DEF RunInv, AtSlot, Complete
  <1>11. WhenReady'  BY <1>1, <1>2 DEF RunInv, WhenReady, Complete
  <1> QED
    BY <1>3, <1>4, <1>5, <1>6, <1>7, <1>8, <1>9, <1>10, <1>11 DEF CreationInv, ChainInv, RunInv

LEMMA DeactivateKeeps ==
    ASSUME CreationInv, NEW u \in Tables, Deactivate(u)
    PROVE  CreationInv'
  <1>1. /\ run.stage = "ended" /\ tables[u].state = "active"
        /\ tables' = [tables EXCEPT ![u].state = "deactivating"]
        /\ UNCHANGED << slot, balance, final, flight, announced, hasty, run >>
    BY DEF Deactivate
  <1>2. ChainTyped /\ Timely /\ Orderly /\ RunTyped /\ WhenReady
    BY DEF CreationInv, ChainInv, RunInv
  <1>3. /\ tables' \in [Tables -> TableType]
        /\ \A t \in Tables : /\ tables'[t].addresses = tables[t].addresses
                             /\ tables'[t].extended = tables[t].extended
                             /\ tables'[t].state = "none" => tables[t].state = "none"
    <2>1. tables \in [Tables -> TableType]  BY <1>2 DEF ChainTyped
    <2>2. PICK x : x = [tables[u] EXCEPT !.state = "deactivating"]  OBVIOUS
    <2>3. /\ x \in TableType /\ x.addresses = tables[u].addresses
          /\ x.extended = tables[u].extended /\ x.state = "deactivating"
      BY <2>1, <2>2 DEF TableType
    <2>4. tables' = [tables EXCEPT ![u] = x]  BY <1>1, <2>2
    <2> QED  BY <2>1, <2>3, <2>4
  <1>4. ChainTyped'  BY <1>1, <1>2, <1>3 DEF ChainTyped
  <1>5. Timely'  BY <1>1, <1>2, <1>3 DEF Timely, OnTime, Fresh
  <1>6. Orderly'
    <2>1. \A tx \in flight : tx.table \in Tables  BY <1>2 DEF ChainTyped, TxType
    <2> QED  BY <1>1, <1>2, <1>3, <2>1 DEF Orderly
  <1>7. RunTyped'  BY <1>1, <1>2 DEF RunTyped
  <1>8. Still'  BY <1>1 DEF Still
  <1>9. WhenReady'
    <2>1. run.result = "ready" => run.table \in Tables  BY <1>2 DEF RunTyped
    <2> QED  BY <1>1, <1>2, <1>3, <2>1 DEF WhenReady, Complete
  <1>10. run'.stage = "ended"  BY <1>1
  <1> QED
    BY <1>4, <1>5, <1>6, <1>7, <1>8, <1>9, <1>10, Elsewhere DEF CreationInv, ChainInv, RunInv

LEMMA ConcatFacts ==
    ASSUME NEW s \in Seq(Addresses), NEW c \in Seq(Addresses)
    PROVE  /\ s \o c \in Seq(Addresses) /\ Len(s \o c) = Len(s) + Len(c)
           /\ \A i \in 1..Len(s) : (s \o c)[i] = s[i]
  OBVIOUS

\* What a table holds after tx landed on it: all it held, and the chunk of
\* an extension.
LEMMA AppliedFacts ==
    ASSUME CreationInv, NEW tx \in flight, Succeeds(tx)
    PROVE  /\ tx.table \in Tables
           /\ Applied(tx) \in TableType
           /\ Applied(tx).state = "active"
           /\ tx.op = "create" => Applied(tx).addresses = << >> /\ tables[tx.table].addresses = << >>
           /\ tx.op = "extend" =>
                 Applied(tx).addresses = tables[tx.table].addresses \o tx.chunk
           /\ \A a : Contains(tables[tx.table].addresses, a) => Contains(Applied(tx).addresses, a)
  <1>1. tx \in TxType /\ slot \in Nat  BY DEF CreationInv, ChainInv, ChainTyped, Tables
  <1>2. tx.table \in Tables /\ tx.chunk \in Seq(Addresses) /\ tx.op \in {"create", "extend"}
    BY <1>1 DEF TxType
  <1>3. PICK old : old = tables[tx.table]  OBVIOUS
  <1>4. old \in TableType  BY <1>2, <1>3 DEF CreationInv, ChainInv, ChainTyped
  <1>5. CASE tx.op = "create"
    <2>1. old.state = "none"  BY <1>3, <1>5 DEF Succeeds, TableAllows
    <2>2. old.addresses = << >>  BY <1>2, <1>3, <2>1 DEF CreationInv, ChainInv, Timely
    <2>3. Applied(tx) = [state |-> "active", addresses |-> << >>, extended |-> 0]
      BY <1>5 DEF Applied, Unmade
    <2>4. Applied(tx) \in TableType  BY <2>3, NoAddresses DEF TableType
    <2> QED  BY <1>2, <1>3, <1>5, <2>2, <2>3, <2>4
  <1>6. CASE tx.op = "extend"
    <2>1. old.state = "active"  BY <1>3, <1>6 DEF Succeeds, TableAllows
    <2>2. PICK s, c, new : s = old.addresses /\ c = tx.chunk /\ new = s \o c  OBVIOUS
    <2>3. s \in Seq(Addresses) /\ c \in Seq(Addresses)  BY <1>2, <1>4, <2>2 DEF TableType
    <2>4. /\ new \in Seq(Addresses) /\ Len(new) = Len(s) + Len(c)
          /\ \A i \in 1..Len(s) : new[i] = s[i]
      <3>1. new = s \o c  BY <2>2
      <3> QED  BY <2>3, <3>1, ConcatFacts
    <2>5. Applied(tx) = [old EXCEPT !.addresses = new, !.extended = slot]
      BY <1>3, <1>6, <2>2 DEF Applied
    <2>6. /\ Applied(tx) \in TableType /\ Applied(tx).state = "active"
          /\ Applied(tx).addresses = new
      BY <1>1, <1>4, <2>1, <2>4, <2>5 DEF TableType
    <2>7. ASSUME NEW a, Contains(s, a) PROVE Contains(new, a)
      <3>1. PICK i \in 1..Len(s) : s[i] = a  BY <2>7 DEF Contains
      <3>2. Len(s) \in Nat /\ Len(c) \in Nat  BY <2>3
      <3>3. i \in 1..Len(new)  BY <2>4, <3>2
      <3> QED  BY <2>4, <3>1, <3>3 DEF Contains
    <2> QED  BY <1>2, <1>3, <1>6, <2>2, <2>6, <2>7
  <1> QED  BY <1>2, <1>5, <1>6

\* What landing does to the chain, in one place.
LEMMA LandFacts ==
    ASSUME CreationInv, NEW tx \in flight, Land(tx)
    PROVE  /\ tx \in TxType /\ OnTime(tx) /\ Fresh(tx) /\ slot \in Nat /\ Life \in Nat
           /\ tx.until < slot + Life /\ tx.table \in Tables /\ tx.table < slot
           /\ CostOf(tx) \in Nat
           /\ flight' = flight \ {tx}
           /\ UNCHANGED << slot, announced, hasty, run >>
           /\ balance' \in Nat
           /\ tables' \in [Tables -> TableType]
           /\ \A t \in Tables : t # tx.table => tables'[t] = tables[t]
           /\ \/ /\ Succeeds(tx) /\ final' = final \cup {[tx |-> tx, ok |-> TRUE]}
                 /\ tables'[tx.table] = Applied(tx) /\ balance' = balance - CostOf(tx)
              \/ /\ final' = final \cup {[tx |-> tx, ok |-> FALSE]}
                 /\ tables' = tables
  <1>1. ChainTyped /\ Timely  BY DEF CreationInv, ChainInv
  <1>2. tx \in TxType /\ OnTime(tx) /\ Fresh(tx) /\ slot \in Nat /\ Life \in Nat
    BY <1>1, CreationAssumption DEF ChainTyped, Timely, Tables
  <1>3. tx.until \in Nat /\ tx.table \in Tables /\ tx.table \in Nat /\ tx.chunk \in Seq(Addresses)
    BY <1>2 DEF TxType, Tables
  <1>4. /\ slot \in (tx.until - Life + 1)..tx.until
        /\ flight' = flight \ {tx}
        /\ UNCHANGED << slot, announced, hasty, run >>
    BY DEF Land
  <1>5. tx.until < slot + Life /\ tx.table < slot
    <2>1. tx.until - Life + 1 <= slot  BY <1>2, <1>3, <1>4
    <2>2. tx.table + Life <= tx.until  BY <1>2 DEF OnTime
    <2> QED  BY <1>2, <1>3, <2>1, <2>2
  <1>6. CostOf(tx) \in Nat  BY <1>3 DEF CostOf, Fee, RentOf
  <1>7. balance \in Nat /\ tables \in [Tables -> TableType]  BY <1>1 DEF ChainTyped
  <1>8. CASE Succeeds(tx)
    <2>1. /\ final' = final \cup {[tx |-> tx, ok |-> TRUE]}
          /\ tables' = [tables EXCEPT ![tx.table] = Applied(tx)]
          /\ balance' = balance - CostOf(tx)
      BY <1>8 DEF Land
    <2>2. balance' \in Nat  BY <1>6, <1>7, <1>8, <2>1 DEF Succeeds, PayerCan, WalletRent
    <2>3. Applied(tx) \in TableType  BY <1>8, AppliedFacts
    <2>4. /\ tables' \in [Tables -> TableType] /\ tables'[tx.table] = Applied(tx)
          /\ \A t \in Tables : t # tx.table => tables'[t] = tables[t]
      BY <1>3, <1>7, <2>1, <2>3
    <2> QED  BY <1>2, <1>3, <1>4, <1>5, <1>6, <1>8, <2>1, <2>2, <2>4
  <1>9. CASE ~Succeeds(tx)
    <2>0. Succeeds(tx) = FALSE  BY <1>9 DEF Succeeds, TableAllows, PayerCan
    <2>1. /\ final' = final \cup {[tx |-> tx, ok |-> FALSE]}
          /\ tables' = tables /\ balance >= Fee /\ balance' = balance - Fee
      BY <2>0 DEF Land
    <2>2. balance' \in Nat  BY <1>7, <2>1 DEF Fee
    <2> QED  BY <1>2, <1>3, <1>4, <1>5, <1>6, <1>7, <2>1, <2>2
  <1> QED  BY <1>8, <1>9

\* No address is lost, and one that a table already had is not gained again.
LEMMA LandKeepsAddresses ==
    ASSUME CreationInv, NEW tx \in flight, Land(tx), NEW t \in Tables
    PROVE  /\ \A a : Contains(tables[t].addresses, a) => Contains(tables'[t].addresses, a)
           /\ ~hasty => IsInjective(tables'[t].addresses)
  <1>1. CASE t # tx.table \/ tables' = tables
    <2>1. tables'[t] = tables[t]  BY <1>1, LandFacts
    <2>2. ~hasty => IsInjective(tables[t].addresses)
      BY DEF CreationInv, ChainInv, Orderly
    <2> QED  BY <2>1, <2>2
  <1>2. CASE t = tx.table /\ Succeeds(tx) /\ tables'[tx.table] = Applied(tx)
    <2>1. \A a : Contains(tables[t].addresses, a) => Contains(tables'[t].addresses, a)
      BY <1>2, AppliedFacts
    <2>2. tx \in TxType  BY LandFacts
    <2>3. tx.op \in {"create", "extend"} /\ tx.chunk \in Seq(Addresses)  BY <2>2 DEF TxType
    <2>4. ASSUME ~hasty, tx.op = "create" PROVE IsInjective(tables'[t].addresses)
      <3>1. tables'[t].addresses = << >>  BY <1>2, <2>4, AppliedFacts
      <3> QED  BY <3>1, NoAddresses
    <2>5. ASSUME ~hasty, tx.op = "extend" PROVE IsInjective(tables'[t].addresses)
      <3>1. tables'[t].addresses = tables[t].addresses \o tx.chunk
        BY <1>2, <2>5, AppliedFacts
      <3>2. /\ IsInjective(tables[t].addresses) /\ IsInjective(tx.chunk)
            /\ Apart(tx.chunk, tables[t].addresses)
        BY <1>2, <2>5 DEF CreationInv, ChainInv, Orderly
      <3>3. tables[t].addresses \in Seq(Addresses)  BY TablesAreTyped
      <3> QED  BY <2>3, <3>1, <3>2, <3>3, ConcatNoRepeats
    <2> QED  BY <2>1, <2>3, <2>4, <2>5
  <1> QED  BY <1>1, <1>2, LandFacts

LEMMA LandKeepsChain ==
    ASSUME CreationInv, NEW tx \in flight, Land(tx)
    PROVE  ChainInv'
  <1>1. ChainTyped /\ Timely /\ Orderly  BY DEF CreationInv, ChainInv
  <1>2. /\ tx \in TxType /\ tx.until < slot + Life /\ tx.table < slot
        /\ flight' = flight \ {tx} /\ UNCHANGED << slot, announced, hasty, run >>
        /\ balance' \in Nat /\ tables' \in [Tables -> TableType]
        /\ \A t \in Tables : t # tx.table => tables'[t] = tables[t]
    BY LandFacts
  <1>3. \E ok \in BOOLEAN : final' = final \cup {[tx |-> tx, ok |-> ok]}
    BY LandFacts
  <1>4. PICK ok \in BOOLEAN : final' = final \cup {[tx |-> tx, ok |-> ok]}
    BY <1>3
  <1>5. PICK f : f = [tx |-> tx, ok |-> ok]  OBVIOUS
  <1>6. final' = final \cup {f} /\ f.tx = tx /\ f \in [tx : TxType, ok : BOOLEAN]
    BY <1>2, <1>4, <1>5
  <1>7. ChainTyped'  BY <1>1, <1>2, <1>6 DEF ChainTyped
  <1>8. Timely'
    <2>1. \A x \in flight' : OnTime(x)' /\ Fresh(x)'
      BY <1>1, <1>2, <1>6 DEF Timely, OnTime, Fresh
    <2>2. \A g \in final' : g.tx.until < slot' + Life  BY <1>1, <1>2, <1>6 DEF Timely
    <2>3. \A t \in Tables : tables'[t].addresses # << >> => t < slot'
      BY <1>1, <1>2 DEF Timely
    <2>4. \A t \in Tables : tables'[t].state = "none" => tables'[t].addresses = << >>
      <3>1. tables' = tables \/ tables'[tx.table].state = "active"
        BY LandFacts, AppliedFacts
      <3> QED  BY <1>1, <1>2, <3>1 DEF Timely
    <2> QED  BY <2>1, <2>2, <2>3, <2>4 DEF Timely
  <1>9. Orderly'
    <2>1. ~hasty => \A t \in Tables : IsInjective(tables'[t].addresses)
      BY LandKeepsAddresses
    <2>2. ~hasty => flight' = {}  BY <1>1, <1>2 DEF Orderly
    <2> QED  BY <1>2, <2>1, <2>2 DEF Orderly
  <1> QED  BY <1>7, <1>8, <1>9 DEF ChainInv

\* The transaction the run waits for: if it succeeded, what is left to be
\* sent is still new to the table and still paid for.
LEMMA LandKeepsAwait ==
    ASSUME CreationInv, NEW tx \in flight, Land(tx), ~hasty, run.stage = "await"
    PROVE  AtAwait'
  <1>1. RunTyped /\ AtAwait  BY DEF CreationInv, RunInv
  <1>2. /\ flight \subseteq {run.tx} /\ IsInjective(run.missing)
        /\ run.tx \in flight =>
              /\ NothingTwice(run.missing)
              /\ balance >= run.margin + CostOf(run.tx) + Need(Len(Rest))
    BY <1>1 DEF AtAwait
  <1>3. /\ run.tx = tx /\ NothingTwice(run.missing)
        /\ balance >= run.margin + CostOf(tx) + Need(Len(Rest))
    BY <1>2
  <1>4. /\ flight' = {} /\ UNCHANGED << slot, announced, hasty, run >>
        /\ CostOf(tx) \in Nat /\ Fresh(tx) /\ tx \in TxType
    BY <1>2, <1>3, LandFacts
  <1>5. /\ run.missing \in Seq(Addresses) /\ run.margin \in Nat /\ run.tx.table = run.table
        /\ run.table \in Tables /\ run.table # NoTable
    BY <1>1 DEF RunTyped, Tables, NoTable
  <1>6. PICK rest : rest = Rest  OBVIOUS
  <1>7. Rest' = rest /\ IsInjective(run'.missing) /\ flight' \subseteq {run'.tx}
    BY <1>2, <1>4, <1>6 DEF Rest
  <1>8. balance \in Nat /\ tables[run.table].addresses \in Seq(Addresses)
    BY <1>5, TablesAreTyped DEF CreationInv, ChainInv, ChainTyped
  <1>9. CASE ~Landed'  BY <1>4, <1>7, <1>9 DEF AtAwait
  <1>10. CASE Landed'
    <2>1. /\ Succeeds(tx) /\ tables'[tx.table] = Applied(tx) /\ balance' = balance - CostOf(tx)
      <3>1. [tx |-> tx, ok |-> TRUE] \in final'  BY <1>3, <1>4, <1>10 DEF Landed
      <3>2. [tx |-> tx, ok |-> TRUE] \notin final  BY <1>4 DEF Fresh
      <3>3. [tx |-> tx, ok |-> TRUE] # [tx |-> tx, ok |-> FALSE]
        <4>1. [tx |-> tx, ok |-> TRUE].ok # [tx |-> tx, ok |-> FALSE].ok  OBVIOUS
        <4> QED  BY <4>1
      <3> QED  BY <3>1, <3>2, <3>3, LandFacts
    <2>2. NothingTwice(rest)' /\ Len(rest) \in Nat
      <3>1. CASE tx.op = "create"
        <4>1. rest = run.missing  BY <1>3, <1>6, <3>1 DEF Rest
        <4>2. tables'[run.table].addresses = << >>  BY <1>3, <1>5, <2>1, <3>1, AppliedFacts
        <4>3. Len(<< >>) = 0  OBVIOUS
        <4>4. Apart(rest, tables'[run.table].addresses)  BY <4>2, <4>3 DEF Apart
        <4>5. Len(rest) \in Nat  BY <1>5, <4>1
        <4> QED  BY <1>2, <1>4, <4>1, <4>4, <4>5 DEF NothingTwice
      <3>2. CASE tx.op = "extend"
        <4>1. PICK m, c : m = run.missing /\ c = NextChunk(m)  OBVIOUS
        <4>2. m \in Seq(Addresses) /\ m # << >> /\ tx.chunk = c
          BY <1>1, <1>3, <1>5, <3>2, <4>1, run.stage = "await" DEF RunTyped
        <4>3. rest = SubSeq(m, Len(c) + 1, Len(m))  BY <1>3, <1>6, <3>2, <4>1, <4>2 DEF Rest
        <4>4. Split(m, c, rest)  BY <4>1, <4>2, <4>3, ChunkSplits
        <4>5. IsInjective(m) /\ Apart(m, tables[run.table].addresses)
          BY <1>2, <1>3, <1>5, <4>1 DEF NothingTwice
        <4>6. IsInjective(rest) /\ Apart(rest, c)  BY <4>2, <4>4, <4>5, SplitNoRepeats
        <4>7. Apart(rest, tables[run.table].addresses)
          BY <1>8, <4>2, <4>4, <4>5, SplitApart
        <4>8. tables'[run.table].addresses = tables[run.table].addresses \o c
          BY <1>3, <1>5, <2>1, <3>2, <4>2, AppliedFacts
        <4>9. rest \in Seq(Addresses) /\ c \in Seq(Addresses) /\ Len(rest) \in Nat
          BY <4>4 DEF Split
        <4>10. Apart(rest, tables'[run.table].addresses)
          BY <1>8, <4>6, <4>7, <4>8, <4>9, ApartFromBoth
        <4> QED  BY <1>4, <4>6, <4>9, <4>10 DEF NothingTwice
      <3> QED  BY <1>4, <3>1, <3>2 DEF TxType
    <2>3. balance' >= run.margin + Need(Len(rest))
      <3>1. PICK need : need = Need(Len(rest))  OBVIOUS
      <3>2. need \in Nat  BY <2>2, <3>1, NeedNat
      <3>3. balance >= run.margin + CostOf(tx) + need  BY <1>3, <1>6, <3>1
      <3> QED  BY <1>4, <1>5, <1>8, <2>1, <3>1, <3>2, <3>3
    <2>4. NothingTwice(Rest)' /\ balance' >= run'.margin + Need(Len(Rest'))
      BY <1>4, <1>7, <2>2, <2>3 DEF NothingTwice
    <2> QED  BY <1>4, <1>7, <2>4 DEF AtAwait
  <1> QED  BY <1>9, <1>10

LEMMA LandKeeps ==
    ASSUME CreationInv, NEW tx \in flight, Land(tx)
    PROVE  CreationInv'
  <1>1. ChainInv'  BY LandKeepsChain
  <1>2. RunInv  BY DEF CreationInv
  <1>3. /\ flight' = flight \ {tx} /\ UNCHANGED << slot, announced, hasty, run >>
    BY LandFacts
  <1>4. RunTyped'  BY <1>2, <1>3 DEF RunInv, RunTyped
  <1>5. Still'  BY <1>2, <1>3 DEF RunInv, Still
  <1>6. ~hasty => run.stage \in {"ended", "await"} /\ run.result # "ready"
    BY <1>2 DEF RunInv, Still, WhenReady
  <1>7. AtRent' /\ AtFund' /\ AtCreate' /\ AtChunks'
    BY <1>3, <1>6 DEF AtRent, AtFund, AtCreate, AtChunks
  <1>8. AtRelay'  BY <1>2, <1>3, <1>6 DEF RunInv, AtRelay, OnTime
  <1>9. AtAwait'
    <2>1. CASE ~hasty /\ run.stage = "await"  BY <2>1, LandKeepsAwait
    <2>2. CASE ~(~hasty /\ run.stage = "await")  BY <1>3, <2>2 DEF AtAwait
    <2> QED  BY <2>1, <2>2
  <1>10. ASSUME Complete(tables[run.table]), run.table \in Tables
         PROVE  Complete(tables[run.table])'
    <2>1. \A a : Contains(tables[run.table].addresses, a)
                   => Contains(tables'[run.table].addresses, a)
      BY <1>10, LandKeepsAddresses
    <2>2. \A i \in DOMAIN run.desired : Contains(tables'[run.table].addresses, run.desired[i])
      BY <1>10, <2>1 DEF Complete
    <2> QED  BY <1>3, <2>2 DEF Complete
  <1>11. AtSlot'
    <2>1. run.stage = "slot" => Complete(tables[run.table]) /\ run.table \in Tables /\ hasty
      BY <1>2, <1>6 DEF RunInv, AtSlot, RunTyped, ChainInv, ChainTyped
    <2> QED  BY <1>3, <1>10, <2>1 DEF AtSlot
  <1>12. WhenReady'
    <2>1. run.result = "ready" => Complete(tables[run.table]) /\ run.table \in Tables /\ hasty
      BY <1>2, <1>6 DEF RunInv, WhenReady, RunTyped
    <2> QED  BY <1>3, <1>10, <2>1 DEF WhenReady
  <1> QED
    BY <1>1, <1>4, <1>5, <1>7, <1>8, <1>9, <1>11, <1>12 DEF CreationInv, RunInv

-----------------------------------------------------------------------------
(* The invariant. *)

LEMMA InitCreation == Init => CreationInv
  <1> SUFFICES ASSUME Init PROVE CreationInv  OBVIOUS
  <1>1. slot = 1 /\ slot \in Nat \ {0}  BY DEF Init
  <1>2. ChainTyped
    <2>1. Unmade \in TableType  BY NoAddresses DEF Unmade, TableType
    <2> QED  BY <1>1, <2>1, CreationAssumption DEF Init, ChainTyped
  <1>3. \A t \in Tables : tables[t].addresses = << >>  BY DEF Init, Unmade
  <1>4. Timely  BY <1>3 DEF Init, Timely
  <1>5. Orderly  BY <1>3, NoAddresses DEF Init, Orderly
  <1>6. PICK run0 : run0 = Ended("never")  OBVIOUS
  <1>7. /\ DOMAIN run = Fields /\ run.stage = "ended" /\ run.result # "ready"
        /\ run.table = NoTable /\ run.desired = << >> /\ run.stored = << >>
        /\ run.missing = << >> /\ run.rent = 0 /\ run.margin = 0
    BY EndedFields DEF Init
  <1>8. RunTyped  BY <1>1, <1>7, NoAddresses DEF RunTyped, Moments, NoTable
  <1>9. Still  BY <1>7 DEF Still
  <1>10. AtRent /\ AtFund /\ AtCreate /\ AtChunks /\ AtRelay /\ AtAwait /\ AtSlot /\ WhenReady
    BY <1>7 DEF AtRent, AtFund, AtCreate, AtChunks, AtRelay, AtAwait, AtSlot, WhenReady
  <1> QED
    BY <1>2, <1>4, <1>5, <1>8, <1>9, <1>10 DEF CreationInv, ChainInv, RunInv

LEMMA NextKeeps == CreationInv /\ [Next]_vars => CreationInv'
  <1> SUFFICES ASSUME CreationInv, [Next]_vars PROVE CreationInv'  OBVIOUS
  <1>1. CASE Refused \/ Unconfirmed
    <2>1. End("no funds") \/ End("refused") \/ End("unconfirmed")
      BY <1>1 DEF Refused, Unconfirmed
    <2> QED  BY <2>1, EndKeeps
  <1>2. CASE Program /\ ~(Refused \/ Unconfirmed)
    BY <1>2, ReadKeeps, PriceRentKeeps, CheckFundingKeeps, CreateKeeps, ExtendKeeps,
       RelayKeeps, ConfirmedKeeps, LookKeeps, CompareSlotKeeps DEF Program
  <1>3. CASE Stop  BY <1>3, StopKeeps
  <1>4. CASE NextSlot  BY <1>4, NextSlotKeeps
  <1>5. CASE \E table \in Tables \cup {NoTable}, desired \in Lists : Start(table, desired)
    BY <1>5, StartKeeps
  <1>6. CASE \E tx \in flight : Land(tx) \/ Lose(tx)  BY <1>6, LandKeeps, LoseKeeps
  <1>7. CASE \E t \in Tables : Deactivate(t)  BY <1>7, DeactivateKeeps
  <1>8. CASE UNCHANGED vars
    <2>1. UNCHANGED << slot, tables, balance, flight, final, announced, hasty, run >>
      BY <1>8 DEF vars, chain
    <2>2. ChainInv'
      <3>1. announced' \subseteq 1..slot  BY <2>1 DEF CreationInv, ChainInv, ChainTyped
      <3> QED  BY <2>1, <3>1, ChainStays DEF CreationInv
    <2>3. RunInv  BY DEF CreationInv
    <2>4. RunTyped' /\ Still' /\ AtRent' /\ AtFund' /\ AtCreate' /\ AtChunks'
      BY <2>1, <2>3
      DEF RunInv, RunTyped, Still, AtRent, AtFund, AtCreate, AtChunks, NothingTwice
    <2>5. AtRelay' /\ AtAwait'
      BY <2>1, <2>3
      DEF RunInv, AtRelay, AtAwait, OnTime, Fresh, NothingTwice, CostOf, Rest, Landed
    <2>6. AtSlot' /\ WhenReady'  BY <2>1, <2>3 DEF RunInv, AtSlot, WhenReady, Complete
    <2> QED  BY <2>2, <2>4, <2>5, <2>6 DEF CreationInv, RunInv
  <1> QED
    BY <1>1, <1>2, <1>3, <1>4, <1>5, <1>6, <1>7, <1>8 DEF Next

LEMMA CreationSafety == Spec => []CreationInv
  BY InitCreation, NextKeeps, PTL DEF Spec

-----------------------------------------------------------------------------
(* What it means for the program. *)

LEMMA CreationImpliesOnce == CreationInv => NoAddressPaidTwice
  <1> SUFFICES ASSUME CreationInv, ~hasty, NEW t \in Tables,
                      NEW i \in DOMAIN tables[t].addresses
               PROVE  Copies(tables[t], tables[t].addresses[i]) = 1
    BY DEF NoAddressPaidTwice
  <1>1. IsInjective(tables[t].addresses)  BY DEF CreationInv, ChainInv, Orderly
  <1>2. {j \in DOMAIN tables[t].addresses : tables[t].addresses[j] = tables[t].addresses[i]} = {i}
    BY <1>1 DEF IsInjective
  <1> QED  BY <1>2, FS_Singleton DEF Copies

LEMMA CreationImpliesFunded == CreationInv => FundedRunFinishes
  <1> SUFFICES ASSUME CreationInv, run.stage = "relay", run.margin >= WalletRent, ~hasty
               PROVE  PayerCan(CostOf(run.tx))
    BY DEF FundedRunFinishes
  <1>1. /\ run.missing \in Seq(Addresses) /\ run.margin \in Nat /\ run.tx \in TxType
        /\ run.tx.op = "extend" => run.missing # << >> /\ run.tx.chunk = NextChunk(run.missing)
    BY DEF CreationInv, RunInv, RunTyped
  <1>2. balance >= run.margin + CostOf(run.tx) + Need(Len(Rest)) /\ balance \in Nat
    BY DEF CreationInv, RunInv, ChainInv, ChainTyped, AtRelay
  <1>3. Need(Len(Rest)) \in Nat
    <2>1. run.tx.op \in {"create", "extend"}  BY <1>1 DEF TxType
    <2>2. CASE run.tx.op = "create"
      <3>1. Rest = run.missing /\ Len(run.missing) \in Nat  BY <1>1, <2>2 DEF Rest
      <3> QED  BY <3>1, NeedNat
    <2>3. CASE run.tx.op = "extend"
      <3>1. PICK m, c, rest : m = run.missing /\ c = NextChunk(m)
                              /\ rest = SubSeq(m, Len(c) + 1, Len(m))
        OBVIOUS
      <3>2. Rest = rest  BY <1>1, <2>3, <3>1 DEF Rest
      <3>3. Split(m, c, rest)  BY <1>1, <2>3, <3>1, ChunkSplits
      <3>4. Len(rest) \in Nat  BY <3>3 DEF Split
      <3> QED  BY <3>2, <3>4, NeedNat
    <2> QED  BY <2>1, <2>2, <2>3
  <1>4. CostOf(run.tx) \in Nat
    <2>1. run.tx.chunk \in Seq(Addresses)  BY <1>1 DEF TxType
    <2> QED  BY <2>1 DEF CostOf, Fee, RentOf
  <1> QED  BY <1>1, <1>2, <1>3, <1>4 DEF PayerCan, WalletRent

LEMMA CreationImpliesReady == CreationInv => ReadyIsLoadable
  BY DEF CreationInv, RunInv, WhenReady, Complete, ReadyIsLoadable

\* An extension is only taken while the table has room for it.
Roomy == \A t \in Tables : Len(tables[t].addresses) <= Capacity

LEMMA LandKeepsRoom ==
    ASSUME CreationInv, Roomy, NEW tx \in flight, Land(tx)
    PROVE  Roomy'
  <1>1. CASE tables' = tables  BY <1>1 DEF Roomy
  <1>2. CASE Succeeds(tx) /\ tables'[tx.table] = Applied(tx)
    <2>1. tx \in TxType /\ \A t \in Tables : t # tx.table => tables'[t] = tables[t]
      BY LandFacts
    <2>2. tx.op \in {"create", "extend"} /\ tx.chunk \in Seq(Addresses) /\ tx.table \in Tables
      BY <2>1 DEF TxType
    <2>3. CASE tx.op = "create"
      <3>1. Applied(tx).addresses = << >> /\ Len(<< >>) = 0  BY <1>2, <2>3, AppliedFacts
      <3> QED  BY <1>2, <2>1, <3>1, CreationAssumption DEF Roomy
    <2>4. CASE tx.op = "extend"
      <3>1. PICK s, c : s = tables[tx.table].addresses /\ c = tx.chunk  OBVIOUS
      <3>2. Len(s) + Len(c) <= Capacity  BY <1>2, <2>4, <3>1 DEF Succeeds, TableAllows
      <3>3. s \in Seq(Addresses) /\ c \in Seq(Addresses)  BY <2>2, <3>1, TablesAreTyped
      <3>4. Applied(tx).addresses = s \o c  BY <1>2, <2>4, <3>1, AppliedFacts
      <3>5. Len(s \o c) <= Capacity  BY <3>2, <3>3, ConcatFacts
      <3> QED  BY <1>2, <2>1, <3>4, <3>5 DEF Roomy
    <2> QED  BY <2>2, <2>3, <2>4
  <1> QED  BY <1>1, <1>2, LandFacts

LEMMA NextKeepsRoom == CreationInv /\ Roomy /\ [Next]_vars => Roomy'
  <1> SUFFICES ASSUME CreationInv, Roomy, [Next]_vars PROVE Roomy'  OBVIOUS
  <1>1. ASSUME tables' = tables PROVE Roomy'  BY <1>1 DEF Roomy
  <1>2. CASE Program
    <2>1. tables' = tables
      BY <1>2
      DEF Program, Read, PriceRent, CheckFunding, CreateTable, ExtendTable, Refused, Relay,
          Confirmed, Unconfirmed, Look, CompareSlot, AfterMiss, End, Steps, Chain, chain
    <2> QED  BY <1>1, <2>1
  <1>3. CASE \E tx \in flight : Land(tx)  BY <1>3, LandKeepsRoom
  <1>4. CASE \E t \in Tables : Deactivate(t)
    <2>1. PICK t \in Tables : Deactivate(t)  BY <1>4
    <2>2. tables \in [Tables -> TableType]  BY DEF CreationInv, ChainInv, ChainTyped
    <2>3. tables' = [tables EXCEPT ![t].state = "deactivating"]  BY <2>1 DEF Deactivate
    <2>4. \A u \in Tables : tables'[u].addresses = tables[u].addresses
      BY <2>2, <2>3 DEF TableType
    <2> QED  BY <2>4 DEF Roomy
  <1>5. CASE \/ Stop \/ NextSlot \/ UNCHANGED vars
             \/ \E table \in Tables \cup {NoTable}, desired \in Lists : Start(table, desired)
             \/ \E tx \in flight : Lose(tx)
    <2>1. tables' = tables  BY <1>5 DEF Stop, NextSlot, Start, Lose, Chain, chain, vars
    <2> QED  BY <1>1, <2>1
  <1> QED  BY <1>2, <1>3, <1>4, <1>5 DEF Next

LEMMA CreationImpliesTypes == CreationInv /\ Roomy => TypeOK
  <1> SUFFICES ASSUME CreationInv, Roomy PROVE TypeOK  OBVIOUS
  <1>1. slot \in Nat \ {0} /\ balance \in Nat
    BY DEF CreationInv, ChainInv, ChainTyped, Tables
  <1>2. flight \cap {f.tx : f \in final} = {}
    BY DEF CreationInv, ChainInv, Timely, Fresh
  <1>3. /\ run.stage \in Moments
        /\ run.stage \in {"relay", "await"} => run.tx.table = run.table
    BY DEF CreationInv, RunInv, RunTyped
  <1> QED  BY <1>1, <1>2, <1>3 DEF TypeOK, Roomy, Moments

LEMMA InitRoom == Init => Roomy
  <1> SUFFICES ASSUME Init PROVE Roomy  OBVIOUS
  <1>1. \A t \in Tables : tables[t].addresses = << >> /\ Len(<< >>) = 0
    BY DEF Init, Unmade
  <1> QED  BY <1>1, CreationAssumption DEF Roomy

\* Variables range as in create_shared_alt; no table outgrows the 256
\* addresses of LOOKUP_TABLE_MAX_ADDRESSES, although the program checks that
\* once, before its first extension, and transactions of earlier runs may land
\* in between; and no transaction is final while it is in flight.
THEOREM ChainIsTyped == Spec => []TypeOK
  BY CreationSafety, InitRoom, NextKeepsRoom, CreationImpliesTypes, PTL DEF Spec

\* create_shared_alt sends what it read to be missing, chunk by chunk, and a
\* chunk that was refused or lost leaves the rest as it was: however often the
\* program is stopped and resumed by --table, no table holds, and nobody paid
\* for, an address twice, unless a run began while a transaction could land.
THEOREM AddressesPaidOnce == Spec => []NoAddressPaidTwice
  BY CreationSafety, CreationImpliesOnce, PTL

\* check_funding compares the balance with the rent and the fees of every
\* transaction yet to be sent: with the rent of a wallet to spare, none of
\* them is refused for lack of funds, whatever was stored before and however
\* many chunks are left.
THEOREM FundedRunsFinish == Spec => []FundedRunFinishes
  BY CreationSafety, CreationImpliesFunded, PTL

\* wait_until_active reads the table and then the slot: while "Ready" is what
\* the last run said, its table holds every address that run asked for, and its
\* last extension is over unless an earlier run's transaction made another.
THEOREM ReadyTablesLoad == Spec => []ReadyIsLoadable
  BY CreationSafety, CreationImpliesReady, PTL
=============================================================================
