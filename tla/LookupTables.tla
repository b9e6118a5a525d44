---------------------------- MODULE LookupTables ----------------------------
(***************************************************************************)
(* The client's shared address lookup tables: loaded one RPC answer at a   *)
(* time while authorities extend, deactivate and close them, kept without  *)
(* being checked again, refreshed as a whole, and merged with the caller's *)
(* own tables when a swap is submitted.  A table is known by its length:   *)
(* addresses are only ever appended.                                       *)
(***************************************************************************)
EXTENDS ListOps, FiniteSets, SequencesExt

CONSTANTS
    Keys,          \* table addresses
    Requests,      \* lists of keys a client may be given
    CallerTables,  \* lists of snapshots a submit may be given
    Cooldown,      \* slots between deactivating a table and closing it
    MaxSlot,       \* bound: the last slot
    MaxLength      \* bound: addresses in a table

\* What a caller or the client keeps of a table; loaded_at is history.
Snapshots == [key : Keys, length : 0..MaxLength, loaded_at : 0..MaxSlot]

ASSUME LookupAssumption ==
    /\ Cooldown \in Nat /\ MaxSlot \in Nat \ {0} /\ MaxLength \in Nat \ {0}
    /\ Requests \subseteq Seq(Keys)
    /\ CallerTables \subseteq Seq(Snapshots)

VARIABLES
    slot,      \* the slot of the bank the RPC answers from
    chain,     \* key -> [state, at: slot of deactivation, added: slot per address]
    op,        \* idle, load or refresh; dropped once a failed load consumed the client
    pending,   \* keys the running operation has still to load
    loaded,    \* snapshots the running operation has loaded
    shared,    \* shared_lookup_tables
    combined   \* the tables of the last submitted swap

vars == << slot, chain, op, pending, loaded, shared, combined >>

Snapshot(k, length, now) == [key |-> k, length |-> length, loaded_at |-> now]

KeysOf(tables) == [i \in 1..Len(tables) |-> tables[i].key]

Init ==
    /\ slot = 1
    /\ chain = [k \in Keys |-> [state |-> "active", at |-> 0, added |-> << 0 >>]]
    /\ op = "idle"
    /\ pending = << >>
    /\ loaded = << >>
    /\ shared = << >>
    /\ combined = << >>

-----------------------------------------------------------------------------
\* Keep the first of the elements that agree on a key.
FirstOfEach(tables) ==
    LET new == {i \in 1..Len(tables) : \A j \in 1..(i - 1) : tables[j].key # tables[i].key}
        kept == Only([i \in 1..Len(tables) |-> i], new)
    IN  [i \in 1..Len(kept) |-> tables[kept[i]]]

\* merge_lookup_tables.
Merge(primary, supplemental) == FirstOfEach(primary \o supplemental)

Distinct(keys) == KeysOf(FirstOfEach([i \in 1..Len(keys) |-> [key |-> keys[i]]]))

LastExtended(k) == Last(chain[k].added)

\* Slip: a table that is being deactivated is taken.
Loadable_Deactivating(k) == chain[k].state # "closed" /\ slot > LastExtended(k)

\* decode_lookup_table: active, and extended before the answering slot.
Loadable(k) == chain[k].state = "active" /\ slot > LastExtended(k)

-----------------------------------------------------------------------------
\* The client; &mut self keeps its operations apart.

Begin(kind, keys) ==
    /\ op = "idle"
    /\ op' = kind
    /\ pending' = keys
    /\ loaded' = << >>
    /\ UNCHANGED << slot, chain, shared, combined >>

\* with_shared_lookup_table_addresses loads each key once.
StartLoad == \E keys \in Requests : Begin("load", Distinct(keys))

StartRefresh == Begin("refresh", KeysOf(shared))

Running == op \in {"load", "refresh"}

LoadOne ==
    /\ Running
    /\ pending # << >>
    /\ LET k == Head(pending)
       IN  /\ Loadable(k)
           /\ loaded' = Append(loaded, Snapshot(k, Len(chain[k].added), slot))
    /\ pending' = Tail(pending)
    /\ UNCHANGED << slot, chain, op, shared, combined >>

Finish ==
    /\ Running
    /\ pending = << >>
    /\ shared' = loaded
    /\ op' = "idle"
    /\ loaded' = << >>
    /\ UNCHANGED << slot, chain, pending, combined >>

\* Slip: what was loaded so far is kept.
AfterFailure_Partial == loaded

AfterFailure == shared

\* The table is not loadable, the RPC fails or the caller drops the future: a
\* refresh leaves the client as it was, a load has consumed it.
GiveUp ==
    /\ Running
    /\ op' = IF op = "load" THEN "dropped" ELSE "idle"
    /\ shared' = IF op = "load" THEN << >> ELSE AfterFailure
    /\ pending' = << >>
    /\ loaded' = << >>
    /\ UNCHANGED << slot, chain, combined >>

\* with_shared_lookup_tables takes the caller's word for the snapshots.
\* They are read from the chain now or earlier, as those of a submit.
Readable(tables) ==
    \A i \in 1..Len(tables) :
        LET t == tables[i]
        IN  /\ t.loaded_at <= slot
            /\ chain[t.key].state = "active" \/ t.loaded_at <= chain[t.key].at
            /\ t.length <= Len(chain[t.key].added)
            /\ \A j \in 1..t.length : chain[t.key].added[j] < t.loaded_at

UseTables ==
    /\ op = "idle"
    /\ \E tables \in CallerTables : Readable(tables) /\ shared' = Merge(tables, << >>)
    /\ UNCHANGED << slot, chain, op, pending, loaded, combined >>

\* submit_with_lookup_tables: the caller's tables first.
Submit ==
    /\ op = "idle"
    /\ \E tables \in CallerTables : Readable(tables) /\ combined' = Merge(tables, shared)
    /\ UNCHANGED << slot, chain, op, pending, loaded, shared >>

-----------------------------------------------------------------------------
\* The chain.

Outside == UNCHANGED << op, pending, loaded, shared, combined >>

NextSlot == slot < MaxSlot /\ slot' = slot + 1 /\ UNCHANGED chain /\ Outside

Extend(k) ==
    /\ chain[k].state = "active"
    /\ Len(chain[k].added) < MaxLength
    /\ chain' = [chain EXCEPT ![k].added = Append(@, slot)]
    /\ UNCHANGED slot /\ Outside

Deactivate(k) ==
    /\ chain[k].state = "active"
    /\ chain' = [chain EXCEPT ![k].state = "deactivating", ![k].at = slot]
    /\ UNCHANGED slot /\ Outside

Close(k) ==
    /\ chain[k].state = "deactivating"
    /\ slot > chain[k].at + Cooldown
    /\ chain' = [chain EXCEPT ![k].state = "closed"]
    /\ UNCHANGED slot /\ Outside

Next ==
    \/ StartLoad \/ StartRefresh \/ LoadOne \/ Finish \/ GiveUp \/ UseTables \/ Submit
    \/ NextSlot
    \/ \E k \in Keys : Extend(k) \/ Deactivate(k) \/ Close(k)

Spec == Init /\ [][Next]_vars

-----------------------------------------------------------------------------
\* Variables range as in the code, and no list names a table twice.
TypeOK ==
    /\ slot \in 1..MaxSlot
    /\ op \in {"idle", "load", "refresh", "dropped"}
    /\ \A tables \in {loaded, shared, combined} :
        /\ \A i \in 1..Len(tables) : tables[i] \in Snapshots
        /\ Cardinality({tables[i].key : i \in 1..Len(tables)}) = Len(tables)
    /\ op = "idle" => loaded = << >> /\ pending = << >>

\* What a transaction needs of table k to use its first n addresses now.
Resolves(k, n) ==
    /\ chain[k].state # "closed"
    /\ n <= Len(chain[k].added)
    /\ \A i \in 1..n : chain[k].added[i] < slot

\* lookup_table.rs:75: only active and warm tables are kept, so although they
\* are never checked again, what was loaded resolves for a cooldown at least,
\* however the authority extends, deactivates and closes the table.
SnapshotsResolve ==
    \A i \in 1..Len(shared) :
        slot <= shared[i].loaded_at + Cooldown => Resolves(shared[i].key, shared[i].length)

\* client.rs:124: a failed or abandoned refresh changes nothing, and one that
\* succeeds keeps every table, in its place, and never shortens it.
RefreshIsAtomic ==
    [][op = "refresh" /\ shared' # shared =>
          /\ KeysOf(shared') = KeysOf(shared)
          /\ \A i \in 1..Len(shared) : shared'[i].length >= shared[i].length]_vars

=============================================================================
