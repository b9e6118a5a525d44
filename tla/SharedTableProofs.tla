-------------------------- MODULE SharedTableProofs -------------------------
(***************************************************************************)
(* Proofs about the shared lookup tables: of LookupTables, how they are    *)
(* loaded and refreshed, for any keys, requests, caller's tables, cooldown *)
(* and bounds; of VenueAccounts, that they serve every native trade, and   *)
(* the setup every sponsored one, for any settings, pools and curves.      *)
(***************************************************************************)
EXTENDS LookupTables, VenueAccounts, SequenceFacts, FiniteSetTheorems

-----------------------------------------------------------------------------
(* Lists of tables. *)

LEMMA KeysOfFacts ==
    ASSUME NEW T, NEW K, \A t \in T : t.key \in K, NEW tables \in Seq(T)
    PROVE  /\ KeysOf(tables) \in Seq(K) /\ Len(KeysOf(tables)) = Len(tables)
           /\ \A i \in 1..Len(tables) : KeysOf(tables)[i] = tables[i].key
  <1>1. \A i \in 1..Len(tables) : tables[i].key \in K  OBVIOUS
  <1>2. Len(tables) \in Nat  OBVIOUS
  <1> QED  BY <1>1, <1>2 DEF KeysOf

\* No two tables of a list have one key.
DistinctKeys(tables) ==
    \A i, j \in 1..Len(tables) : tables[i].key = tables[j].key => i = j

\* Keeping the first of each key leaves tables of the list, and no key twice.
LEMMA FirstOfEachKeeps ==
    ASSUME NEW T, NEW tables \in Seq(T)
    PROVE  /\ FirstOfEach(tables) \in Seq(T)
           /\ \A i \in 1..Len(FirstOfEach(tables)) :
                 \E j \in 1..Len(tables) : FirstOfEach(tables)[i] = tables[j]
           /\ DistinctKeys(FirstOfEach(tables))
  <1> DEFINE all == [i \in 1..Len(tables) |-> i]
             new == {i \in 1..Len(tables) : \A j \in 1..(i - 1) : tables[j].key # tables[i].key}
             kept == Only(all, new)
             first == FirstOfEach(tables)
  <1>1. /\ all \in Seq(1..Len(tables)) /\ Len(all) = Len(tables)
        /\ \A i \in 1..Len(all) : all[i] = i
    <2>1. Len(tables) \in Nat  OBVIOUS
    <2> QED  BY <2>1
  <1>2. Injective(all)  BY <1>1 DEF Injective
  <1>3. first = [i \in 1..Len(kept) |-> tables[kept[i]]]  BY DEF FirstOfEach
  <1> HIDE DEF all, new, kept, first
  <1>4. kept \in Seq(1..Len(tables))  BY <1>1, OnlyType DEF kept
  <1>5. Injective(kept)  BY <1>1, <1>2, OnlyInjective DEF kept
  <1>6. \A i \in 1..Len(kept) : kept[i] \in new /\ kept[i] \in 1..Len(tables)
    <2> SUFFICES ASSUME NEW i \in 1..Len(kept) PROVE kept[i] \in new
      BY <1>4
    <2>1. i \in 1..Len(Only(all, new))  BY DEF kept
    <2>2. Only(all, new)[i] \in new  BY <1>1, <2>1, OnlySelects
    <2> QED  BY <2>2 DEF kept
  <1>7. /\ Len(kept) \in Nat /\ first \in Seq(T) /\ Len(first) = Len(kept)
        /\ \A i \in 1..Len(kept) : first[i] = tables[kept[i]]
    <2>1. Len(kept) \in Nat  BY <1>4
    <2>2. \A i \in 1..Len(kept) : tables[kept[i]] \in T  BY <1>6
    <2> QED  BY <1>3, <2>1, <2>2
  <1>8. DistinctKeys(first)
    <2> SUFFICES ASSUME NEW i \in 1..Len(kept), NEW j \in 1..Len(kept),
                        tables[kept[i]].key = tables[kept[j]].key
                 PROVE  i = j
      BY <1>7 DEF DistinctKeys
    <2>1. /\ kept[i] \in 1..Len(tables) /\ kept[j] \in 1..Len(tables)
          /\ ~ kept[i] < kept[j] /\ ~ kept[j] < kept[i]
      <3>1. kept[i] \in new /\ kept[j] \in new
            /\ kept[i] \in 1..Len(tables) /\ kept[j] \in 1..Len(tables)
        BY <1>6
      <3>2. \A a, b \in new : a \in 1..(b - 1) => tables[a].key # tables[b].key
        BY DEF new
      <3>3. \A a, b \in 1..Len(tables) : a < b => a \in 1..(b - 1)  OBVIOUS
      <3> QED  BY <3>1, <3>2, <3>3
    <2>2. kept[i] = kept[j]  BY <2>1
    <2> QED  BY <1>5, <2>2 DEF Injective
  <1> QED  BY <1>6, <1>7, <1>8 DEF first

LEMMA MergeKeeps ==
    ASSUME NEW T, NEW p \in Seq(T), NEW q \in Seq(T)
    PROVE  /\ Merge(p, q) \in Seq(T) /\ DistinctKeys(Merge(p, q))
           /\ \A i \in 1..Len(Merge(p, q)) :
                 \/ \E j \in 1..Len(p) : Merge(p, q)[i] = p[j]
                 \/ \E j \in 1..Len(q) : Merge(p, q)[i] = q[j]
  <1> DEFINE all == p \o q
             m == Merge(p, q)
  <1>1. /\ all \in Seq(T)
        /\ \A i \in 1..Len(all) : \/ \E j \in 1..Len(p) : all[i] = p[j]
                                  \/ \E j \in 1..Len(q) : all[i] = q[j]
    <2>1. /\ all \in Seq(T) /\ Len(all) = Len(p) + Len(q)
          /\ Len(p) \in Nat /\ Len(q) \in Nat
          /\ \A i \in 1..Len(p) : all[i] = p[i]
          /\ \A i \in 1..Len(all) :
                i \notin 1..Len(p) => i - Len(p) \in 1..Len(q) /\ all[i] = q[i - Len(p)]
      OBVIOUS
    <2> HIDE DEF all
    <2>2. ASSUME NEW i \in 1..Len(all)
          PROVE  \/ \E j \in 1..Len(p) : all[i] = p[j]
                 \/ \E j \in 1..Len(q) : all[i] = q[j]
      <3>1. CASE i \in 1..Len(p)  BY <2>1, <3>1
      <3>2. CASE i \notin 1..Len(p)  BY <2>1, <3>2
      <3> QED  BY <3>1, <3>2
    <2> QED  BY <2>1, <2>2
  <1>2. m = FirstOfEach(all)  BY DEF Merge
  <1> HIDE DEF all, m
  <1>3. m \in Seq(T) /\ DistinctKeys(m)
        /\ \A i \in 1..Len(m) : \E j \in 1..Len(all) : m[i] = all[j]
    BY <1>1, <1>2, FirstOfEachKeeps
  <1> QED  BY <1>1, <1>3 DEF m

LEMMA DistinctFacts ==
    ASSUME NEW K, NEW keys \in Seq(K)
    PROVE  Distinct(keys) \in Seq(K) /\ Injective(Distinct(keys))
  <1> DEFINE T == [key : K]
             wrapped == [i \in 1..Len(keys) |-> [key |-> keys[i]]]
             first == FirstOfEach(wrapped)
  <1>1. wrapped \in Seq(T)
    <2>1. Len(keys) \in Nat /\ \A i \in 1..Len(keys) : keys[i] \in K  OBVIOUS
    <2> QED  BY <2>1
  <1> HIDE DEF wrapped
  <1>2. first \in Seq(T) /\ DistinctKeys(first)  BY <1>1, FirstOfEachKeeps
  <1> HIDE DEF first
  <1>3. \A t \in T : t.key \in K  OBVIOUS
  <1> HIDE DEF T
  <1>4. /\ KeysOf(first) \in Seq(K) /\ Len(KeysOf(first)) = Len(first)
        /\ \A i \in 1..Len(first) : KeysOf(first)[i] = first[i].key
    BY <1>2, <1>3, KeysOfFacts
  <1>5. Distinct(keys) = KeysOf(first)  BY DEF Distinct, first, wrapped
  <1> QED  BY <1>2, <1>4, <1>5 DEF DistinctKeys, Injective

LEMMA SnapshotsFields ==
    ASSUME NEW t \in Snapshots
    PROVE  t.key \in Keys /\ t.length \in 0..MaxLength /\ t.loaded_at \in 0..MaxSlot
  BY DEF Snapshots

-----------------------------------------------------------------------------
(* The inductive invariant. *)

States == {"active", "deactivating", "closed"}

\* A table's addresses were added in order and no later than now, and it was
\* closed only after its cooldown.
TableSound(k) ==
    LET t == chain[k]
    IN  /\ t.state \in States /\ t.at \in Nat /\ t.added \in Seq(Nat)
        /\ Len(t.added) \in 1..MaxLength
        /\ \A i \in 1..Len(t.added) : t.added[i] <= t.added[Len(t.added)]
        /\ t.added[Len(t.added)] <= slot
        /\ t.state = "closed" => slot > t.at + Cooldown

\* A snapshot of an active table whose addresses were all added before.
SnapshotSound(t) ==
    /\ t.loaded_at <= slot
    /\ chain[t.key].state = "active" \/ t.loaded_at <= chain[t.key].at
    /\ t.length <= Len(chain[t.key].added)
    /\ \A j \in 1..t.length : chain[t.key].added[j] < t.loaded_at

AllSound(tables) == \A i \in 1..Len(tables) : SnapshotSound(tables[i])

\* What a running operation has loaded and has still to load, without a key
\* twice; a refresh goes through the tables it replaces, none now shorter.
Progress ==
    /\ Injective(KeysOf(loaded) \o pending)
    /\ op = "refresh" =>
          /\ KeysOf(loaded) \o pending = KeysOf(shared)
          /\ \A i \in 1..Len(loaded) : loaded[i].length >= shared[i].length

Typed ==
    /\ slot \in 1..MaxSlot
    /\ DOMAIN chain = Keys
    /\ \A k \in Keys : DOMAIN chain[k] = {"state", "at", "added"}
    /\ op \in {"idle", "load", "refresh", "dropped"}
    /\ pending \in Seq(Keys)
    /\ loaded \in Seq(Snapshots) /\ shared \in Seq(Snapshots) /\ combined \in Seq(Snapshots)
    /\ op \in {"idle", "dropped"} => loaded = << >> /\ pending = << >>

NoKeyTwice == DistinctKeys(shared) /\ DistinctKeys(combined)

TablesInv ==
    /\ Typed
    /\ \A k \in Keys : TableSound(k)
    /\ AllSound(loaded) /\ AllSound(shared)
    /\ NoKeyTwice
    /\ Progress

LEMMA EmptyList ==
    /\ << >> \in Seq(Snapshots) /\ << >> \in Seq(Keys) /\ Len(<< >>) = 0
    /\ KeysOf(<< >>) = << >> /\ DistinctKeys(<< >>) /\ AllSound(<< >>)
    /\ Injective(<< >>)
    /\ << >> \o << >> = << >>
    /\ \A q \in Seq(Keys) : << >> \o q = q
  BY DEF KeysOf, DistinctKeys, AllSound, Injective

LEMMA TablesInit == Init => TablesInv
  <1> SUFFICES ASSUME Init PROVE TablesInv  OBVIOUS
  <1>1. Typed  BY LookupAssumption, EmptyList DEF Init, Typed
  <1>2. \A k \in Keys : TableSound(k)
    <2> SUFFICES ASSUME NEW k \in Keys PROVE TableSound(k)  OBVIOUS
    <2>1. chain[k].state = "active" /\ chain[k].at = 0 /\ chain[k].added = << 0 >> /\ slot = 1
      BY DEF Init
    <2> QED  BY <2>1, LookupAssumption DEF TableSound, States
  <1>3. AllSound(loaded) /\ AllSound(shared) /\ NoKeyTwice
    BY EmptyList DEF Init, NoKeyTwice
  <1>4. Progress  BY EmptyList DEF Init, Progress
  <1> QED  BY <1>1, <1>2, <1>3, <1>4 DEF TablesInv

-----------------------------------------------------------------------------
(* The chain moves. *)

ChainStep == NextSlot \/ \E k \in Keys : Extend(k) \/ Deactivate(k) \/ Close(k)

\* Nothing the chain does makes a sound snapshot unsound: addresses are only
\* appended, slots only pass, and a table is closed only after its cooldown.
LEMMA ChainStepSound ==
    ASSUME TablesInv, ChainStep
    PROVE  /\ slot' \in 1..MaxSlot /\ DOMAIN chain' = Keys
           /\ \A k \in Keys : DOMAIN chain'[k] = {"state", "at", "added"}
           /\ \A k \in Keys : TableSound(k)'
           /\ \A t \in Snapshots : SnapshotSound(t) => SnapshotSound(t)'
  <1>0. /\ slot \in 1..MaxSlot /\ DOMAIN chain = Keys /\ Cooldown \in Nat /\ MaxSlot \in Nat
        /\ \A k \in Keys : DOMAIN chain[k] = {"state", "at", "added"} /\ TableSound(k)
        /\ MaxLength \in Nat /\ slot \in Int
    BY LookupAssumption DEF TablesInv, Typed
  <1>1. CASE NextSlot
    <2>1. slot' = slot + 1 /\ chain' = chain /\ slot' \in 1..MaxSlot
      BY <1>0, <1>1 DEF NextSlot
    <2>2. \A k \in Keys : TableSound(k)'
      <3> SUFFICES ASSUME NEW k \in Keys PROVE TableSound(k)'  OBVIOUS
      <3>1. TableSound(k)  BY <1>0
      <3>2. chain[k].added[Len(chain[k].added)] \in Int  BY <3>1 DEF TableSound
      <3> QED  BY <1>0, <2>1, <3>1, <3>2 DEF TableSound
    <2>3. \A t \in Snapshots : SnapshotSound(t) => SnapshotSound(t)'
      BY <1>0, <2>1, SnapshotsFields DEF SnapshotSound
    <2> QED  BY <1>0, <2>1, <2>2, <2>3
  <1>2. ASSUME NEW k \in Keys, Extend(k)
        PROVE  /\ slot' \in 1..MaxSlot /\ DOMAIN chain' = Keys
               /\ \A j \in Keys : DOMAIN chain'[j] = {"state", "at", "added"}
               /\ \A j \in Keys : TableSound(j)'
               /\ \A t \in Snapshots : SnapshotSound(t) => SnapshotSound(t)'
    <2> DEFINE old == chain[k].added
               new == Append(old, slot)
    <2>1. /\ chain' = [chain EXCEPT ![k].added = new] /\ slot' = slot
          /\ chain[k].state = "active" /\ Len(old) < MaxLength
      BY <1>2 DEF Extend
    <2>2. TableSound(k)  BY <1>0
    <2>3. /\ old \in Seq(Nat) /\ slot \in Nat /\ Len(old) \in 1..MaxLength
          /\ \A i \in 1..Len(old) : old[i] <= old[Len(old)]
          /\ old[Len(old)] <= slot /\ old[Len(old)] \in Nat
      BY <1>0, <2>2 DEF TableSound
    <2>4. /\ new \in Seq(Nat) /\ Len(new) = Len(old) + 1 /\ new[Len(new)] = slot
          /\ \A i \in 1..Len(old) : new[i] = old[i] /\ new[i] \in Nat
          /\ 1..Len(new) = 1..Len(old) \cup {Len(new)}
      <3>1. \A i \in 1..Len(old) : old[i] \in Nat  BY <2>3
      <3>2. /\ Len(new) = Len(old) + 1 /\ new[Len(old) + 1] = slot
            /\ \A i \in 1..Len(old) : new[i] = old[i]
            /\ 1..Len(new) = 1..Len(old) \cup {Len(old) + 1}
        BY <2>3, Appended
      <3>3. new \in Seq(Nat)  BY <2>3
      <3> HIDE DEF new, old
      <3> QED  BY <3>1, <3>2, <3>3
    <2> HIDE DEF old, new
    <2>5. /\ DOMAIN chain' = Keys /\ \A j \in Keys \ {k} : chain'[j] = chain[j]
          /\ chain'[k] = [chain[k] EXCEPT !.added = new]
      BY <1>0, <2>1
    <2>6. /\ chain'[k].added = new /\ chain'[k].state = "active" /\ chain'[k].at = chain[k].at
          /\ DOMAIN chain'[k] = {"state", "at", "added"}
      BY <1>0, <2>1, <2>5
    <2>7. TableSound(k)'
      <3>1. Len(new) \in 1..MaxLength /\ \A i \in 1..Len(new) : new[i] <= new[Len(new)]
        <4>1. \A i \in 1..Len(old) : new[i] <= slot  BY <2>3, <2>4
        <4> QED  BY <1>0, <2>1, <2>3, <2>4, <4>1
      <3>2. chain[k].at \in Nat  BY <2>2 DEF TableSound
      <3> QED  BY <2>1, <2>3, <2>4, <2>6, <3>1, <3>2 DEF TableSound, States
    <2>8. \A j \in Keys : TableSound(j)'
      BY <1>0, <2>1, <2>5, <2>7 DEF TableSound
    <2>9. ASSUME NEW t \in Snapshots, SnapshotSound(t) PROVE SnapshotSound(t)'
      <3>1. t.length \in Nat /\ t.key \in Keys  BY SnapshotsFields, <1>0
      <3>2. CASE t.key # k
        BY <2>1, <2>5, <2>9, <3>1, <3>2 DEF SnapshotSound
      <3>3. CASE t.key = k
        <4>1. /\ t.loaded_at <= slot /\ t.length <= Len(old)
              /\ \A j \in 1..t.length : old[j] < t.loaded_at
          BY <2>9, <3>3 DEF SnapshotSound, old
        <4>2. t.length <= Len(new) /\ \A j \in 1..t.length : new[j] < t.loaded_at
          <5>1. \A j \in 1..t.length : j \in 1..Len(old)  BY <2>3, <3>1, <4>1
          <5>2. t.length <= Len(new)  BY <2>3, <2>4, <3>1, <4>1
          <5> QED  BY <2>4, <4>1, <5>1, <5>2
        <4> QED  BY <2>1, <2>6, <3>3, <4>1, <4>2 DEF SnapshotSound
      <3> QED  BY <3>2, <3>3
    <2> QED  BY <1>0, <2>1, <2>5, <2>6, <2>8, <2>9
  <1>3. ASSUME NEW k \in Keys, Deactivate(k) \/ Close(k)
        PROVE  /\ slot' \in 1..MaxSlot /\ DOMAIN chain' = Keys
               /\ \A j \in Keys : DOMAIN chain'[j] = {"state", "at", "added"}
               /\ \A j \in Keys : TableSound(j)'
               /\ \A t \in Snapshots : SnapshotSound(t) => SnapshotSound(t)'
    <2>1. /\ slot' = slot /\ DOMAIN chain' = Keys
          /\ \A j \in Keys \ {k} : chain'[j] = chain[j]
          /\ chain'[k].added = chain[k].added /\ DOMAIN chain'[k] = {"state", "at", "added"}
          /\ \/ /\ chain[k].state = "active"
                /\ chain'[k].state = "deactivating" /\ chain'[k].at = slot
             \/ /\ chain[k].state = "deactivating" /\ slot > chain[k].at + Cooldown
                /\ chain'[k].state = "closed" /\ chain'[k].at = chain[k].at
      BY <1>0, <1>3 DEF Deactivate, Close
    <2>2. TableSound(k)'
      <3>1. TableSound(k) /\ slot \in Nat  BY <1>0
      <3>2. chain'[k].at \in Nat /\ chain'[k].state \in States
        BY <2>1, <3>1 DEF TableSound, States
      <3>3. chain'[k].state = "closed" => slot > chain'[k].at + Cooldown
        BY <2>1
      <3> QED  BY <2>1, <3>1, <3>2, <3>3 DEF TableSound
    <2>3. \A j \in Keys : TableSound(j)'
      BY <1>0, <2>1, <2>2 DEF TableSound
    <2>4. ASSUME NEW t \in Snapshots, SnapshotSound(t) PROVE SnapshotSound(t)'
      <3>1. t.key \in Keys  BY SnapshotsFields
      <3>2. CASE t.key # k  BY <2>1, <2>4, <3>1, <3>2 DEF SnapshotSound
      <3>3. CASE t.key = k  BY <2>1, <2>4, <3>3 DEF SnapshotSound
      <3> QED  BY <3>2, <3>3
    <2> QED  BY <1>0, <2>1, <2>3, <2>4
  <1> QED  BY <1>1, <1>2, <1>3 DEF ChainStep

LEMMA ChainStepKeeps ==
    ASSUME TablesInv, ChainStep
    PROVE  TablesInv'
  <1>1. UNCHANGED << op, pending, loaded, shared, combined >>
    BY DEF ChainStep, NextSlot, Extend, Deactivate, Close, Outside
  <1>2. Typed'  BY <1>1, ChainStepSound DEF TablesInv, Typed
  <1>3. AllSound(loaded)' /\ AllSound(shared)'
    <2>1. /\ \A i \in 1..Len(loaded) : loaded[i] \in Snapshots
          /\ \A i \in 1..Len(shared) : shared[i] \in Snapshots
      BY DEF TablesInv, Typed
    <2> QED  BY <1>1, <2>1, ChainStepSound DEF TablesInv, AllSound
  <1>4. NoKeyTwice' /\ Progress'
    <2>1. KeysOf(loaded)' = KeysOf(loaded) /\ KeysOf(shared)' = KeysOf(shared)
      BY <1>1 DEF KeysOf
    <2>2. (KeysOf(loaded) \o pending)' = KeysOf(loaded) \o pending  BY <1>1, <2>1
    <2>3. NoKeyTwice'  BY <1>1 DEF TablesInv, NoKeyTwice, DistinctKeys
    <2>4. Injective(KeysOf(loaded) \o pending)'  BY <2>2 DEF TablesInv, Progress, Injective
    <2> QED  BY <1>1, <2>1, <2>3, <2>4 DEF TablesInv, Progress
  <1> QED  BY <1>2, <1>3, <1>4, ChainStepSound DEF TablesInv

-----------------------------------------------------------------------------
(* The client moves. *)

LEMMA SameChain ==
    ASSUME UNCHANGED << slot, chain >>
    PROVE  /\ \A k : TableSound(k)' = TableSound(k)
           /\ \A t : SnapshotSound(t)' = SnapshotSound(t)
           /\ \A tables : AllSound(tables)' = AllSound(tables)
  BY DEF TableSound, SnapshotSound, AllSound

\* A warm, active table gives a sound snapshot.
LEMMA LoadedIsSound ==
    ASSUME TablesInv, NEW k \in Keys, Loadable(k)
    PROVE  /\ Snapshot(k, Len(chain[k].added), slot) \in Snapshots
           /\ SnapshotSound(Snapshot(k, Len(chain[k].added), slot))
  <1> DEFINE added == chain[k].added
             t == Snapshot(k, Len(chain[k].added), slot)
  <1>1. TableSound(k) /\ slot \in 1..MaxSlot /\ MaxSlot \in Nat /\ MaxLength \in Nat
    BY LookupAssumption DEF TablesInv, Typed
  <1>2. t.key = k /\ t.length = Len(added) /\ t.loaded_at = slot  BY DEF Snapshot
  <1>3. t \in Snapshots  BY <1>1 DEF Snapshot, Snapshots, TableSound
  <1>4. /\ added \in Seq(Nat) /\ Len(added) \in Nat /\ Len(added) >= 1
        /\ \A i \in 1..Len(added) : added[i] <= added[Len(added)] /\ added[i] \in Nat
    BY <1>1 DEF TableSound
  <1>5. chain[k].state = "active" /\ slot > added[Len(added)]
    BY DEF Loadable, LastExtended, Last
  <1>6. \A j \in 1..Len(added) : added[j] < slot  BY <1>1, <1>4, <1>5
  <1> QED  BY <1>1, <1>2, <1>3, <1>4, <1>5, <1>6 DEF SnapshotSound

LEMMA ReadableIsSound ==
    ASSUME NEW tables \in CallerTables, Readable(tables)
    PROVE  tables \in Seq(Snapshots) /\ AllSound(tables)
  BY LookupAssumption DEF Readable, AllSound, SnapshotSound

LEMMA BeginKeeps ==
    ASSUME TablesInv, NEW kind \in {"load", "refresh"}, NEW keys \in Seq(Keys), Injective(keys),
           Begin(kind, keys), kind = "refresh" => keys = KeysOf(shared)
    PROVE  TablesInv'
  <1>1. /\ op' = kind /\ pending' = keys /\ loaded' = << >>
        /\ UNCHANGED << slot, chain, shared, combined >>
    BY DEF Begin
  <1>2. Typed'  BY <1>1, EmptyList DEF TablesInv, Typed
  <1>3. Progress'
    <2>1. KeysOf(loaded') \o pending' = keys  BY <1>1, EmptyList
    <2>2. KeysOf(shared)' = KeysOf(shared)  BY <1>1 DEF KeysOf
    <2>3. Len(loaded') = 0  BY <1>1, EmptyList
    <2> QED  BY <1>1, <2>1, <2>2, <2>3 DEF Progress, KeysOf
  <1>4. AllSound(loaded)' /\ AllSound(shared)' /\ NoKeyTwice'
    BY <1>1 DEF TablesInv, AllSound, SnapshotSound, NoKeyTwice, DistinctKeys
  <1>5. \A k \in Keys : TableSound(k)'  BY <1>1, SameChain DEF TablesInv
  <1> QED  BY <1>2, <1>3, <1>4, <1>5 DEF TablesInv

\* The head of one sequence moves to the end of another.
LEMMA MoveHead ==
    ASSUME NEW T, NEW a \in Seq(T), NEW p \in Seq(T), p # << >>
    PROVE  /\ Head(p) \in T /\ Tail(p) \in Seq(T)
           /\ Append(a, Head(p)) \o Tail(p) = a \o p
           /\ (a \o p)[Len(a) + 1] = Head(p) /\ Len(a) + 1 \in 1..Len(a \o p)
  <1> DEFINE h == Head(p)
             t == Tail(p)
             b == Append(a, h)
             r == b \o t
  <1>1. /\ h \in T /\ h = p[1] /\ t \in Seq(T) /\ Len(t) = Len(p) - 1 /\ Len(p) \in Nat
        /\ Len(p) >= 1 /\ Len(a) \in Nat /\ \A i \in 1..Len(t) : t[i] = p[i + 1]
    OBVIOUS
  <1> HIDE DEF h, t
  <1>2. /\ b \in Seq(T) /\ Len(b) = Len(a) + 1 /\ b[Len(a) + 1] = h
        /\ \A i \in 1..Len(a) : b[i] = a[i]
    BY <1>1
  <1> HIDE DEF b
  <1>3. /\ r \in Seq(T) /\ Len(r) = Len(b) + Len(t)
        /\ \A i \in 1..Len(b) : r[i] = b[i]
        /\ \A i \in 1..Len(t) : r[Len(b) + i] = t[i]
    <2>1. b \in Seq(T) /\ t \in Seq(T)  BY <1>1, <1>2
    <2> QED  BY <2>1
  <1> HIDE DEF r
  <1>4. Len(r) = Len(a) + Len(p) /\ \A i \in 1..Len(a) : r[i] = a[i]
    BY <1>1, <1>2, <1>3
  <1>5. \A i \in 1..Len(p) : r[Len(a) + i] = p[i]
    <2> SUFFICES ASSUME NEW i \in 1..Len(p) PROVE r[Len(a) + i] = p[i]
      OBVIOUS
    <2>1. CASE i = 1  BY <1>1, <1>2, <1>3, <2>1
    <2>2. CASE i # 1
      <3>1. i - 1 \in 1..Len(t) /\ Len(b) + (i - 1) = Len(a) + i  BY <1>1, <1>2, <2>2
      <3>2. r[Len(b) + (i - 1)] = t[i - 1] /\ t[i - 1] = p[(i - 1) + 1]  BY <1>1, <1>3, <3>1
      <3>3. (i - 1) + 1 = i  BY <1>1
      <3> QED  BY <3>1, <3>2, <3>3
    <2> QED  BY <2>1, <2>2
  <1>6. r = a \o p  BY <1>3, <1>4, <1>5, IsConcat
  <1>7. r[Len(a) + 1] = h /\ Len(a) + 1 \in 1..Len(r)  BY <1>1, <1>4, <1>5
  <1> QED  BY <1>1, <1>6, <1>7 DEF r, b, h, t

LEMMA LoadOneKeeps ==
    ASSUME TablesInv, LoadOne
    PROVE  TablesInv'
  <1> DEFINE k == Head(pending)
             t == Snapshot(k, Len(chain[k].added), slot)
             n == Len(loaded)
  <1>1. /\ op \in {"load", "refresh"} /\ pending # << >> /\ Loadable(k)
        /\ loaded' = Append(loaded, t) /\ pending' = Tail(pending)
        /\ UNCHANGED << slot, chain, op, shared, combined >>
    BY DEF LoadOne, Running
  <1>2. /\ pending \in Seq(Keys) /\ loaded \in Seq(Snapshots) /\ shared \in Seq(Snapshots)
        /\ AllSound(loaded) /\ AllSound(shared) /\ Progress
    BY DEF TablesInv, Typed
  <1>3. KeysOf(loaded) \in Seq(Keys) /\ Len(KeysOf(loaded)) = n
        /\ \A i \in 1..n : KeysOf(loaded)[i] = loaded[i].key
    BY <1>2, KeysOfFacts, SnapshotsFields
  <1>4. /\ k \in Keys /\ pending' \in Seq(Keys)
        /\ Append(KeysOf(loaded), k) \o pending' = KeysOf(loaded) \o pending
        /\ (KeysOf(loaded) \o pending)[n + 1] = k
        /\ n + 1 \in 1..Len(KeysOf(loaded) \o pending)
    BY <1>1, <1>2, <1>3, MoveHead
  <1>5. t \in Snapshots /\ SnapshotSound(t)  BY <1>1, <1>4, LoadedIsSound
  <1>6. t.key = k /\ t.length = Len(chain[k].added)  BY DEF Snapshot
  <1> HIDE DEF t, k
  <1>7. /\ loaded' \in Seq(Snapshots) /\ Len(loaded') = n + 1 /\ loaded'[n + 1] = t
        /\ \A i \in 1..n : loaded'[i] = loaded[i]
        /\ 1..Len(loaded') = 1..n \cup {n + 1} /\ n \in Nat
    BY <1>1, <1>2, <1>5, Appended
  <1>8. KeysOf(loaded') = Append(KeysOf(loaded), k)
    <2>1. /\ KeysOf(loaded') \in Seq(Keys) /\ Len(KeysOf(loaded')) = n + 1
          /\ \A i \in 1..(n + 1) : KeysOf(loaded')[i] = loaded'[i].key
      BY <1>7, KeysOfFacts, SnapshotsFields
    <2>2. /\ Append(KeysOf(loaded), k) \in Seq(Keys)
          /\ Len(Append(KeysOf(loaded), k)) = n + 1
          /\ Append(KeysOf(loaded), k)[n + 1] = k
          /\ \A i \in 1..n : Append(KeysOf(loaded), k)[i] = loaded[i].key
      BY <1>3, <1>4, Appended
    <2>3. \A i \in 1..(n + 1) : KeysOf(loaded')[i] = Append(KeysOf(loaded), k)[i]
      BY <1>6, <1>7, <2>1, <2>2
    <2> QED  BY <2>1, <2>2, <2>3
  <1>9. KeysOf(loaded)' \o pending' = KeysOf(loaded) \o pending
    BY <1>4, <1>8 DEF KeysOf
  <1>10. Progress'
    <2>1. Injective(KeysOf(loaded) \o pending)'  BY <1>2, <1>9 DEF Progress, Injective
    <2>2. ASSUME op' = "refresh"
          PROVE  /\ (KeysOf(loaded) \o pending = KeysOf(shared))'
                 /\ \A i \in 1..Len(loaded') : loaded'[i].length >= shared'[i].length
      <3>1. /\ KeysOf(loaded) \o pending = KeysOf(shared)
            /\ \A i \in 1..n : loaded[i].length >= shared[i].length
        BY <1>1, <1>2, <2>2 DEF Progress
      <3>2. KeysOf(shared)' = KeysOf(shared) /\ shared' = shared  BY <1>1 DEF KeysOf
      <3>3. Len(KeysOf(shared)) = Len(shared)
            /\ \A i \in 1..Len(shared) : KeysOf(shared)[i] = shared[i].key
        BY <1>2, KeysOfFacts, SnapshotsFields
      <3>4. n + 1 \in 1..Len(shared) /\ shared[n + 1].key = k
        BY <1>4, <3>1, <3>3
      <3>5. SnapshotSound(shared[n + 1]) /\ shared[n + 1] \in Snapshots
        BY <1>2, <3>4 DEF AllSound
      <3>6. shared[n + 1].length <= Len(chain[k].added)  BY <3>4, <3>5 DEF SnapshotSound
      <3>7. shared[n + 1].length \in Int /\ t.length \in Int
        BY <1>5, <3>5, SnapshotsFields, LookupAssumption
      <3>8. loaded'[n + 1].length >= shared[n + 1].length  BY <1>6, <1>7, <3>6, <3>7
      <3> QED  BY <1>7, <1>9, <3>1, <3>2, <3>8
    <2> QED  BY <2>1, <2>2 DEF Progress
  <1>11. Typed'  BY <1>1, <1>4, <1>7 DEF TablesInv, Typed
  <1>12. AllSound(loaded)' /\ AllSound(shared)'
    <2>1. \A i \in 1..Len(loaded') : SnapshotSound(loaded'[i])
      BY <1>2, <1>5, <1>7 DEF AllSound
    <2> QED  BY <1>1, <1>2, <2>1 DEF AllSound, SnapshotSound
  <1>13. NoKeyTwice'  BY <1>1 DEF TablesInv, NoKeyTwice, DistinctKeys
  <1>14. \A j \in Keys : TableSound(j)'  BY <1>1, SameChain DEF TablesInv
  <1> QED  BY <1>10, <1>11, <1>12, <1>13, <1>14 DEF TablesInv

\* An operation that has loaded everything replaces the tables as a whole.
LEMMA FinishKeeps ==
    ASSUME TablesInv, Finish
    PROVE  /\ TablesInv'
           /\ op = "refresh" =>
                 /\ KeysOf(loaded) = KeysOf(shared)
                 /\ \A i \in 1..Len(shared) : loaded[i].length >= shared[i].length
  <1>1. /\ op \in {"load", "refresh"} /\ pending = << >> /\ shared' = loaded /\ op' = "idle"
        /\ loaded' = << >> /\ UNCHANGED << slot, chain, pending, combined >>
    BY DEF Finish, Running
  <1>2. /\ loaded \in Seq(Snapshots) /\ shared \in Seq(Snapshots) /\ Progress
        /\ AllSound(loaded)
    BY DEF TablesInv, Typed
  <1>3. KeysOf(loaded) \in Seq(Keys) /\ Len(KeysOf(loaded)) = Len(loaded)
        /\ \A i \in 1..Len(loaded) : KeysOf(loaded)[i] = loaded[i].key
    BY <1>2, KeysOfFacts, SnapshotsFields
  <1>4. KeysOf(loaded) \o pending = KeysOf(loaded)  BY <1>1, <1>3
  <1>5. DistinctKeys(loaded)
    BY <1>2, <1>3, <1>4 DEF Progress, Injective, DistinctKeys
  <1>6. op = "refresh" => KeysOf(loaded) = KeysOf(shared) /\ Len(loaded) = Len(shared)
                          /\ \A i \in 1..Len(shared) : loaded[i].length >= shared[i].length
    <2>1. Len(KeysOf(shared)) = Len(shared)  BY <1>2, KeysOfFacts, SnapshotsFields
    <2> QED  BY <1>2, <1>3, <1>4, <2>1 DEF Progress
  <1>7. Typed'  BY <1>1, <1>2, EmptyList DEF TablesInv, Typed
  <1>8. AllSound(loaded)' /\ AllSound(shared)'
    <2>1. Len(loaded') = 0  BY <1>1, EmptyList
    <2> QED  BY <1>1, <1>2, <2>1 DEF AllSound, SnapshotSound
  <1>9. NoKeyTwice'  BY <1>1, <1>5 DEF TablesInv, NoKeyTwice, DistinctKeys
  <1>10. Progress'
    <2>1. (KeysOf(loaded) \o pending)' = << >>  BY <1>1, EmptyList DEF KeysOf
    <2> QED  BY <1>1, <2>1, EmptyList DEF Progress, Injective
  <1>11. \A k \in Keys : TableSound(k)'  BY <1>1, SameChain DEF TablesInv
  <1> QED  BY <1>6, <1>7, <1>8, <1>9, <1>10, <1>11 DEF TablesInv

LEMMA GiveUpKeeps ==
    ASSUME TablesInv, GiveUp
    PROVE  TablesInv'
  <1>1. /\ op' \in {"idle", "dropped"} /\ (shared' = << >> \/ shared' = shared)
        /\ pending' = << >> /\ loaded' = << >> /\ UNCHANGED << slot, chain, combined >>
    BY DEF GiveUp, AfterFailure
  <1>2. Typed'  BY <1>1, EmptyList DEF TablesInv, Typed
  <1>3. AllSound(loaded)' /\ AllSound(shared)' /\ NoKeyTwice'
    <2>1. Len(loaded') = 0 /\ (Len(shared') = 0 \/ shared' = shared)  BY <1>1, EmptyList
    <2> QED
      BY <1>1, <2>1 DEF TablesInv, AllSound, SnapshotSound, NoKeyTwice, DistinctKeys
  <1>4. Progress'
    <2>1. (KeysOf(loaded) \o pending)' = << >>  BY <1>1, EmptyList DEF KeysOf
    <2> QED  BY <1>1, <2>1, EmptyList DEF Progress, Injective
  <1>5. \A k \in Keys : TableSound(k)'  BY <1>1, SameChain DEF TablesInv
  <1> QED  BY <1>2, <1>3, <1>4, <1>5 DEF TablesInv

LEMMA UseTablesKeeps ==
    ASSUME TablesInv, UseTables \/ Submit
    PROVE  TablesInv'
  <1>1. op = "idle" /\ loaded = << >> /\ pending = << >>
        /\ UNCHANGED << slot, chain, op, pending, loaded >>
    BY DEF UseTables, Submit, TablesInv, Typed
  <1>2. PICK tables \in CallerTables :
           /\ Readable(tables)
           /\ \/ shared' = Merge(tables, << >>) /\ combined' = combined
              \/ combined' = Merge(tables, shared) /\ shared' = shared
    BY DEF UseTables, Submit
  <1>3. tables \in Seq(Snapshots) /\ AllSound(tables) /\ shared \in Seq(Snapshots)
        /\ combined \in Seq(Snapshots) /\ << >> \in Seq(Snapshots) /\ Len(<< >>) = 0
    BY <1>2, ReadableIsSound, EmptyList DEF TablesInv, Typed
  <1>4. CASE shared' = Merge(tables, << >>) /\ combined' = combined
    <2>1. /\ shared' \in Seq(Snapshots) /\ DistinctKeys(shared')
          /\ \A i \in 1..Len(shared') : \E j \in 1..Len(tables) : shared'[i] = tables[j]
      <3>0. PICK none : none = << >>  OBVIOUS
      <3>1. none \in Seq(Snapshots) /\ 1..Len(none) = {}  BY <1>3, <3>0
      <3>2. shared' = Merge(tables, none)  BY <1>4, <3>0
      <3>3. /\ Merge(tables, none) \in Seq(Snapshots) /\ DistinctKeys(Merge(tables, none))
            /\ \A i \in 1..Len(Merge(tables, none)) :
                  \/ \E j \in 1..Len(tables) : Merge(tables, none)[i] = tables[j]
                  \/ \E j \in 1..Len(none) : Merge(tables, none)[i] = none[j]
        BY <1>3, <3>1, MergeKeeps
      <3> QED  BY <3>1, <3>2, <3>3
    <2>2. AllSound(shared')  BY <1>3, <2>1 DEF AllSound
    <2>3. AllSound(loaded)' /\ AllSound(shared)'
      BY <1>1, <2>2 DEF TablesInv, AllSound, SnapshotSound
    <2>4. NoKeyTwice'  BY <1>4, <2>1 DEF TablesInv, NoKeyTwice, DistinctKeys
    <2>5. Typed'  BY <1>1, <1>3, <1>4, <2>1 DEF TablesInv, Typed
    <2>6. Progress'  BY <1>1 DEF TablesInv, Progress, KeysOf, Injective
    <2>7. \A k \in Keys : TableSound(k)'  BY <1>1, SameChain DEF TablesInv
    <2> QED  BY <2>3, <2>4, <2>5, <2>6, <2>7 DEF TablesInv
  <1>5. CASE combined' = Merge(tables, shared) /\ shared' = shared
    <2>1. combined' \in Seq(Snapshots) /\ DistinctKeys(combined')
      BY <1>3, <1>5, MergeKeeps
    <2>2. AllSound(loaded)' /\ AllSound(shared)'
      BY <1>1, <1>5 DEF TablesInv, AllSound, SnapshotSound
    <2>3. NoKeyTwice'  BY <1>5, <2>1 DEF TablesInv, NoKeyTwice, DistinctKeys
    <2>4. Typed'  BY <1>1, <1>3, <1>5, <2>1 DEF TablesInv, Typed
    <2>5. Progress'  BY <1>1 DEF TablesInv, Progress, KeysOf, Injective
    <2>6. \A k \in Keys : TableSound(k)'  BY <1>1, SameChain DEF TablesInv
    <2> QED  BY <2>2, <2>3, <2>4, <2>5, <2>6 DEF TablesInv
  <1> QED  BY <1>2, <1>4, <1>5

LEMMA TablesNext == TablesInv /\ [Next]_vars => TablesInv'
  <1> SUFFICES ASSUME TablesInv, [Next]_vars PROVE TablesInv'
    OBVIOUS
  <1>1. CASE StartLoad
    <2>1. PICK keys \in Requests : Begin("load", Distinct(keys))  BY <1>1 DEF StartLoad
    <2>2. Distinct(keys) \in Seq(Keys) /\ Injective(Distinct(keys))
      BY LookupAssumption, DistinctFacts
    <2> QED  BY <2>1, <2>2, BeginKeeps
  <1>2. CASE StartRefresh
    <2>1. KeysOf(shared) \in Seq(Keys) /\ Len(KeysOf(shared)) = Len(shared)
          /\ \A i \in 1..Len(shared) : KeysOf(shared)[i] = shared[i].key
      BY KeysOfFacts, SnapshotsFields DEF TablesInv, Typed
    <2>2. Injective(KeysOf(shared))
      BY <2>1 DEF TablesInv, NoKeyTwice, DistinctKeys, Injective
    <2> QED  BY <1>2, <2>1, <2>2, BeginKeeps DEF StartRefresh
  <1>3. CASE LoadOne  BY <1>3, LoadOneKeeps
  <1>4. CASE Finish  BY <1>4, FinishKeeps
  <1>5. CASE GiveUp  BY <1>5, GiveUpKeeps
  <1>6. CASE UseTables \/ Submit  BY <1>6, UseTablesKeeps
  <1>7. CASE ChainStep  BY <1>7, ChainStepKeeps
  <1>8. CASE UNCHANGED vars
    <2>1. UNCHANGED << slot, chain, op, pending, loaded, shared, combined >>
      BY <1>8 DEF vars
    <2>2. KeysOf(loaded)' = KeysOf(loaded) /\ KeysOf(shared)' = KeysOf(shared)
      BY <2>1 DEF KeysOf
    <2>3. Progress'  BY <2>1, <2>2 DEF TablesInv, Progress, Injective
    <2>4. Typed' /\ NoKeyTwice'  BY <2>1 DEF TablesInv, Typed, NoKeyTwice, DistinctKeys
    <2>5. AllSound(loaded)' /\ AllSound(shared)'
      BY <2>1 DEF TablesInv, AllSound, SnapshotSound
    <2>6. \A k \in Keys : TableSound(k)'  BY <2>1, SameChain DEF TablesInv
    <2> QED  BY <2>3, <2>4, <2>5, <2>6 DEF TablesInv
  <1> QED
    BY <1>1, <1>2, <1>3, <1>4, <1>5, <1>6, <1>7, <1>8 DEF Next, ChainStep

-----------------------------------------------------------------------------
(* The theorems. *)

LEMMA DistinctCount ==
    ASSUME NEW tables \in Seq(Snapshots), DistinctKeys(tables)
    PROVE  Cardinality({tables[i].key : i \in 1..Len(tables)}) = Len(tables)
  <1> DEFINE S == 1..Len(tables)
             T == {tables[i].key : i \in S}
             f == [i \in S |-> tables[i].key]
  <1>1. Len(tables) \in Nat  OBVIOUS
  <1>2. IsFiniteSet(S) /\ Cardinality(S) = Len(tables)
    BY <1>1, FS_Interval
  <1>3. f \in Surjection(S, T) /\ f \in Injection(S, T)
    BY DEF Surjection, Injection, IsInjective, DistinctKeys
  <1>4. Cardinality(T) = Cardinality(S)
    <2> HIDE DEF S, T, f
    <2> QED  BY <1>2, <1>3, FS_Bijection DEF ExistsBijection, Bijection
  <1> QED  BY <1>2, <1>4

\* Variables range as in the code, and no list of tables that is loaded,
\* refreshed or merged ever names a table twice.
THEOREM NoTableTwice == Spec => []TypeOK
  <1>1. TablesInv => TypeOK
    <2> SUFFICES ASSUME TablesInv PROVE TypeOK  OBVIOUS
    <2>1. /\ loaded \in Seq(Snapshots) /\ shared \in Seq(Snapshots)
          /\ combined \in Seq(Snapshots) /\ pending \in Seq(Keys)
      BY DEF TablesInv, Typed
    <2>2. DistinctKeys(loaded)
      <3>1. KeysOf(loaded) \in Seq(Keys) /\ Len(KeysOf(loaded)) = Len(loaded)
            /\ \A i \in 1..Len(loaded) : KeysOf(loaded)[i] = loaded[i].key
        BY <2>1, KeysOfFacts, SnapshotsFields
      <3> DEFINE q == KeysOf(loaded) \o pending
      <3>2. /\ Len(q) = Len(loaded) + Len(pending) /\ Len(loaded) \in Nat /\ Len(pending) \in Nat
            /\ \A i \in 1..Len(loaded) : q[i] = loaded[i].key
        <4>1. /\ Len(q) = Len(KeysOf(loaded)) + Len(pending)
              /\ \A i \in 1..Len(KeysOf(loaded)) : q[i] = KeysOf(loaded)[i]
          BY <2>1, <3>1
        <4>2. Len(loaded) \in Nat /\ Len(pending) \in Nat  BY <2>1
        <4> HIDE DEF q
        <4> QED  BY <3>1, <4>1, <4>2
      <3>3. Injective(q)  BY DEF TablesInv, Progress
      <3> HIDE DEF q
      <3>4. \A i \in 1..Len(loaded) : i \in 1..Len(q)  BY <3>2
      <3> QED  BY <3>2, <3>3, <3>4 DEF Injective, DistinctKeys
    <2>3. DistinctKeys(shared) /\ DistinctKeys(combined)  BY DEF TablesInv, NoKeyTwice
    <2>4. \A tables \in {loaded, shared, combined} :
             /\ \A i \in 1..Len(tables) : tables[i] \in Snapshots
             /\ Cardinality({tables[i].key : i \in 1..Len(tables)}) = Len(tables)
      BY <2>1, <2>2, <2>3, DistinctCount
    <2> QED  BY <2>4 DEF TablesInv, Typed, TypeOK
  <1> QED  BY <1>1, TablesInit, TablesNext, PTL DEF Spec

\* A shared table is only checked when it is loaded; for a cooldown after, its
\* addresses resolve whatever its authority does.
THEOREM SnapshotsAlwaysResolve == Spec => []SnapshotsResolve
  <1>1. TablesInv => SnapshotsResolve
    <2> SUFFICES ASSUME TablesInv, NEW i \in 1..Len(shared),
                        slot <= shared[i].loaded_at + Cooldown
                 PROVE  Resolves(shared[i].key, shared[i].length)
      BY DEF SnapshotsResolve
    <2> DEFINE t == shared[i]
               k == t.key
    <2>1. t \in Snapshots /\ SnapshotSound(t)
      BY DEF TablesInv, Typed, AllSound
    <2>2. k \in Keys /\ t.length \in Nat /\ t.loaded_at \in Nat
      BY <2>1, SnapshotsFields, LookupAssumption
    <2>3. TableSound(k) /\ slot \in Nat /\ Cooldown \in Nat
      BY <2>2, LookupAssumption DEF TablesInv, Typed
    <2>4. chain[k].state # "closed"
      <3>1. chain[k].at \in Nat  BY <2>3 DEF TableSound
      <3>2. ASSUME chain[k].state = "closed" PROVE FALSE
        <4>1. slot > chain[k].at + Cooldown /\ t.loaded_at <= chain[k].at
          BY <2>1, <2>3, <3>2 DEF TableSound, SnapshotSound
        <4> QED  BY <2>2, <2>3, <3>1, <4>1
      <3> QED  BY <3>2
    <2>5. t.length <= Len(chain[k].added) /\ \A j \in 1..t.length : chain[k].added[j] < slot
      <3>1. chain[k].added \in Seq(Nat) /\ Len(chain[k].added) \in Nat
        BY <2>3 DEF TableSound
      <3>2. t.length <= Len(chain[k].added) /\ t.loaded_at <= slot
            /\ \A j \in 1..t.length : chain[k].added[j] < t.loaded_at
        BY <2>1 DEF SnapshotSound
      <3>3. \A j \in 1..t.length : chain[k].added[j] \in Nat
        <4>1. PICK added, n : added = chain[k].added /\ n = t.length  OBVIOUS
        <4>2. added \in Seq(Nat) /\ n \in Nat /\ Len(added) \in Nat /\ n <= Len(added)
          BY <2>2, <3>1, <3>2, <4>1
        <4>3. \A j \in 1..n : j \in 1..Len(added)  BY <4>2
        <4>4. \A j \in 1..n : added[j] \in Nat  BY <4>2, <4>3
        <4> QED  BY <4>1, <4>4
      <3>4. ASSUME NEW j \in 1..t.length PROVE chain[k].added[j] < slot
        <4>1. chain[k].added[j] < t.loaded_at /\ chain[k].added[j] \in Nat  BY <3>2, <3>3
        <4> QED  BY <2>2, <2>3, <3>2, <4>1
      <3> QED  BY <3>2, <3>4
    <2> QED  BY <2>4, <2>5 DEF Resolves
  <1> QED  BY <1>1, TablesInit, TablesNext, PTL DEF Spec

\* A refresh that fails or is abandoned changes nothing; one that succeeds
\* keeps every table in its place and shortens none.
THEOREM RefreshesAreAtomic == Spec => RefreshIsAtomic
  <1>1. TablesInv /\ [Next]_vars =>
          [op = "refresh" /\ shared' # shared =>
             /\ KeysOf(shared') = KeysOf(shared)
             /\ \A i \in 1..Len(shared) : shared'[i].length >= shared[i].length]_vars
    <2> SUFFICES ASSUME TablesInv, Next, op = "refresh", shared' # shared
                 PROVE  /\ KeysOf(shared') = KeysOf(shared)
                        /\ \A i \in 1..Len(shared) : shared'[i].length >= shared[i].length
      OBVIOUS
    <2>1. Finish
      BY DEF Next, StartLoad, StartRefresh, Begin, LoadOne, GiveUp, AfterFailure, UseTables,
             Submit, NextSlot, Extend, Deactivate, Close, Outside
    <2> QED  BY <2>1, FinishKeeps DEF Finish
  <1> QED  BY <1>1, TablesInit, TablesNext, PTL DEF Spec, RefreshIsAtomic

-----------------------------------------------------------------------------
(* Addresses, and what a trade names of its own. *)

Addresses == Pubkeys \cup Derived \cup TokenAccounts

LEMMA KeyNames ==
    {SYSTEM, TOKEN, TOKEN_2022, ATA, BUDGET, WSOL, USDC, FEE_PROGRAM, PumpFun, PumpSwap,
     Wallet, NoKey} \subseteq Pubkeys
  BY AccountsAssumption DEF Programs

LEMMA AddressKinds ==
    /\ \A a \in Pubkeys : a \notin Derived /\ a \notin TokenAccounts
    /\ \A a \in Derived : a \notin TokenAccounts
  <1>1. \A a \in Pubkeys : DOMAIN a = {"key"}  BY DEF Pubkeys
  <1>2. \A a \in Derived : DOMAIN a = {"program", "seed", "of"}  BY DEF Derived
  <1>3. \A a \in TokenAccounts : DOMAIN a = {"owner", "mint", "token"}  BY DEF TokenAccounts
  <1> QED  BY <1>1, <1>2, <1>3

LEMMA KeyMentioned ==
    ASSUME NEW roots, NEW a \in Pubkeys, a \in roots
    PROVE  a \in Addresses /\ Rooted(a, roots) /\ Mentions(a, roots)
  BY AddressKinds DEF Rooted, Mentions, Addresses

LEMMA DerivedMentioned ==
    ASSUME NEW roots, NEW program \in Pubkeys, NEW seed \in Seeds,
           NEW of \in Pubkeys, of \in roots,
           NEW a, a = Pda(program, seed, of)
    PROVE  a \in Derived /\ a \in Addresses /\ Rooted(a, roots) /\ Mentions(a, roots)
  <1>1. a \in Derived /\ a.of = of  BY DEF Pda, Derived
  <1> QED  BY <1>1, AddressKinds DEF Rooted, Mentions, Addresses

LEMMA AtaMentioned ==
    ASSUME NEW roots, NEW owner \in Pubkeys \cup Derived, Rooted(owner, roots),
           NEW mint \in Pubkeys, NEW token \in Pubkeys,
           NEW a, a = Ata(owner, mint, token)
    PROVE  a \in Addresses /\ Mentions(a, roots)
  <1>1. a \in TokenAccounts /\ a.owner = owner  BY DEF Ata, TokenAccounts
  <1> QED  BY <1>1 DEF Mentions, Addresses

-----------------------------------------------------------------------------
(* Routes over a set of addresses. *)

Ops == {"ata", "transfer", "sync", "close", "pumpswap", "pumpfun_buy", "pumpfun_sell"}

IxOver(C) ==
    [op : Ops, program : C, accounts : Seq(C), signers : SUBSET Pubkeys, data : Nat]

LEMMA IxType ==
    ASSUME NEW C, NEW name \in Ops, NEW program \in C, NEW list \in Seq(C),
           NEW signers \in SUBSET Pubkeys, NEW data \in Nat
    PROVE  Ix(name, program, list, signers, data) \in IxOver(C)
  BY DEF Ix, IxOver

\* The addresses every route may name.
CommonIn(C) ==
    /\ {SYSTEM, TOKEN, TOKEN_2022, ATA, WSOL, USDC, Wallet} \subseteq C
    /\ VenueAddresses(PumpFun) \subseteq C /\ VenueAddresses(PumpSwap) \subseteq C
    /\ UserVolume(PumpFun) \in C /\ UserVolume(PumpSwap) \in C

LEMMA AtaIx ==
    ASSUME NEW C, CommonIn(C), NEW mint \in C, NEW token \in {TOKEN, TOKEN_2022},
           Ata(Wallet, mint, token) \in C
    PROVE  CreateAta(Wallet, Wallet, mint, token) \in IxOver(C)
  <1> DEFINE list == << Wallet, Ata(Wallet, mint, token), Wallet, mint, SYSTEM, token >>
  <1>1. list \in Seq(C)  BY DEF CommonIn
  <1>2. ATA \in C /\ {Wallet} \in SUBSET Pubkeys  BY KeyNames DEF CommonIn
  <1> HIDE DEF list
  <1>3. "ata" \in Ops /\ 1 \in Nat  BY DEF Ops
  <1>4. Ix("ata", ATA, list, {Wallet}, 1) \in IxOver(C)  BY <1>1, <1>2, <1>3, IxType
  <1> QED  BY <1>4 DEF CreateAta, list

\* What a curve trade names, with the fees its adapter keeps.
CurveIn(C, curve, fees) ==
    /\ {fees.standard, fees.mayhem, fees.buyback} \subseteq C
    /\ {curve.address, curve.mint, CreatorVault(PumpFun, curve.creator),
        Second(PumpFun, curve.mint), Ata(curve.address, curve.mint, curve.token),
        Ata(Wallet, curve.mint, curve.token)} \subseteq C

LEMMA CurveRouteOver ==
    ASSUME NEW C, CommonIn(C), NEW curve \in Curves, NEW fees, CurveIn(C, curve, fees),
           NEW side \in {"Buy", "Sell"}
    PROVE  CurveRoute(side, curve, fees) \in Seq(IxOver(C))
  <1>1. Recipient(fees, curve.mayhem) \in C  BY DEF Recipient, CurveIn
  <1>2. curve.token \in {TOKEN, TOKEN_2022} /\ curve.token \in C
    BY DEF Curves, CommonIn
  <1>3. {PumpFun, FEE_PROGRAM, Global(PumpFun), EventAuthority(PumpFun), GlobalVolume(PumpFun),
         FeeConfig(PumpFun)} \subseteq C
    BY DEF CommonIn, VenueAddresses
  <1>4. CurveStart(curve, fees) \in Seq(C)
    BY <1>1, <1>2, <1>3 DEF CurveStart, CurveIn, CommonIn
  <1> DEFINE buys == << curve.token, CreatorVault(PumpFun, curve.creator), EventAuthority(PumpFun),
                        PumpFun, GlobalVolume(PumpFun), UserVolume(PumpFun), FeeConfig(PumpFun),
                        FEE_PROGRAM, Second(PumpFun, curve.mint), fees.buyback >>
             sells == << CreatorVault(PumpFun, curve.creator), curve.token, EventAuthority(PumpFun),
                         PumpFun, FeeConfig(PumpFun), FEE_PROGRAM >>
             volume == IF curve.cashback THEN << UserVolume(PumpFun) >> ELSE << >>
             last == << Second(PumpFun, curve.mint), fees.buyback >>
  <1>5. buys \in Seq(C)  BY <1>2, <1>3 DEF CurveIn, CommonIn
  <1>6. sells \in Seq(C)  BY <1>2, <1>3 DEF CurveIn
  <1>7. volume \in Seq(C)  BY DEF CommonIn
  <1>8. last \in Seq(C)  BY DEF CurveIn
  <1> HIDE DEF buys, sells, volume, last
  <1>9. CurveBuyAccounts(curve, fees) \in Seq(C)
    <2>1. CurveStart(curve, fees) \o buys \in Seq(C)  BY <1>4, <1>5
    <2> QED  BY <2>1 DEF CurveBuyAccounts, buys
  <1>10. CurveSellAccounts(curve, fees) \in Seq(C)
    <2>1. CurveStart(curve, fees) \o sells \o volume \o last \in Seq(C)
      BY <1>4, <1>6, <1>7, <1>8
    <2> QED  BY <2>1 DEF CurveSellAccounts, sells, volume, last
  <1>11. {Wallet} \in SUBSET Pubkeys /\ PumpFun \in C  BY <1>3, KeyNames
  <1>12. CreateAta(Wallet, Wallet, curve.mint, curve.token) \in IxOver(C)
    BY <1>2, AtaIx DEF CurveIn
  <1>13. /\ Ix("pumpfun_buy", PumpFun, CurveBuyAccounts(curve, fees), {Wallet}, 25) \in IxOver(C)
         /\ Ix("pumpfun_sell", PumpFun, CurveSellAccounts(curve, fees), {Wallet}, 24) \in IxOver(C)
    <2>1. "pumpfun_buy" \in Ops /\ "pumpfun_sell" \in Ops /\ 24 \in Nat /\ 25 \in Nat
      BY DEF Ops
    <2>2. Ix("pumpfun_buy", PumpFun, CurveBuyAccounts(curve, fees), {Wallet}, 25) \in IxOver(C)
      BY <1>9, <1>11, <2>1, IxType
    <2>3. Ix("pumpfun_sell", PumpFun, CurveSellAccounts(curve, fees), {Wallet}, 24) \in IxOver(C)
      BY <1>10, <1>11, <2>1, IxType
    <2> QED  BY <2>2, <2>3
  <1> DEFINE buy == Ix("pumpfun_buy", PumpFun, CurveBuyAccounts(curve, fees), {Wallet}, 25)
             sell == Ix("pumpfun_sell", PumpFun, CurveSellAccounts(curve, fees), {Wallet}, 24)
             create == CreateAta(Wallet, Wallet, curve.mint, curve.token)
             ixs == IxOver(C)
  <1>14. buy \in ixs /\ sell \in ixs /\ create \in ixs  BY <1>12, <1>13
  <1>15. CurveRoute(side, curve, fees) = IF side = "Buy" THEN << create, buy >> ELSE << sell >>
    BY DEF CurveRoute
  <1> HIDE DEF buy, sell, create, ixs
  <1>16. CurveRoute(side, curve, fees) \in Seq(ixs)  BY <1>14, <1>15
  <1> QED  BY <1>16 DEF ixs

\* What a pool's swap names, with the fees its adapter keeps.
PoolIn(C, pool, fees) ==
    /\ {fees.standard, fees.mayhem, fees.buyback} \subseteq C
    /\ \A r \in {fees.standard, fees.mayhem, fees.buyback} : Ata(r, pool.quote, TOKEN) \in C
    /\ {pool.address, pool.mint, pool.base_vault, pool.quote_vault} \subseteq C
    /\ CreatorVault(PumpSwap, pool.creator) \in C
    /\ Ata(CreatorVault(PumpSwap, pool.creator), pool.quote, TOKEN) \in C
    /\ Ata(UserVolume(PumpSwap), pool.quote, TOKEN) \in C
    /\ Second(PumpSwap, pool.mint) \in C
    /\ Ata(Wallet, pool.mint, pool.token) \in C
    /\ Ata(Wallet, pool.quote, TOKEN) \in C

LEMMA NamedOver ==
    ASSUME NEW C, CommonIn(C), NEW pool \in Pools, NEW fees, PoolIn(C, pool, fees)
    PROVE  NamedAccounts(pool, fees) \in Seq(C)
  <1> DEFINE recipient == Recipient(fees, pool.mayhem)
             vault == CreatorVault(PumpSwap, pool.creator)
             userBase == Ata(Wallet, pool.mint, pool.token)
             userQuote == Ata(Wallet, pool.quote, TOKEN)
             paid == Ata(recipient, pool.quote, TOKEN)
             vaultQuote == Ata(vault, pool.quote, TOKEN)
             global == Global(PumpSwap)
             events == EventAuthority(PumpSwap)
  <1>1. recipient \in {fees.standard, fees.mayhem, fees.buyback}  BY DEF Recipient
  <1>2. recipient \in C /\ paid \in C
    <2> HIDE DEF recipient
    <2> QED  BY <1>1 DEF PoolIn
  <1>3. vault \in C /\ vaultQuote \in C /\ userBase \in C /\ userQuote \in C
    BY DEF PoolIn
  <1>4. global \in C /\ events \in C /\ PumpSwap \in C  BY DEF CommonIn, VenueAddresses
  <1>5. pool.token \in C /\ pool.quote \in C /\ TOKEN \in C /\ SYSTEM \in C /\ ATA \in C
        /\ Wallet \in C
    BY DEF Pools, CommonIn
  <1>6. pool.address \in C /\ pool.mint \in C /\ pool.base_vault \in C /\ pool.quote_vault \in C
    BY DEF PoolIn
  <1>7. NamedAccounts(pool, fees) =
          << pool.address, Wallet, global, pool.mint, pool.quote, userBase, userQuote,
             pool.base_vault, pool.quote_vault, recipient, paid, pool.token, TOKEN, SYSTEM, ATA,
             events, PumpSwap, vaultQuote, vault >>
    BY DEF NamedAccounts
  <1> HIDE DEF recipient, vault, userBase, userQuote, paid, vaultQuote, global, events
  <1> QED  BY <1>2, <1>3, <1>4, <1>5, <1>6, <1>7

LEMMA SwapAccountsOver ==
    ASSUME NEW C, CommonIn(C), NEW pool \in Pools, NEW fees, PoolIn(C, pool, fees), NEW side
    PROVE  SwapAccounts(side, pool, fees) \in Seq(C)
  <1> DEFINE volumes == IF side = "Buy" THEN << GlobalVolume(PumpSwap), UserVolume(PumpSwap) >>
                        ELSE << >>
             config == << FeeConfig(PumpSwap), FEE_PROGRAM >>
             owned == << Ata(UserVolume(PumpSwap), pool.quote, TOKEN) >>
             own == IF side = "Sell" THEN << UserVolume(PumpSwap) >> ELSE << >>
             back == IF pool.cashback THEN owned \o own ELSE << >>
             second == IF pool.creator # SYSTEM THEN << Second(PumpSwap, pool.mint) >> ELSE << >>
             buyback == << fees.buyback, Ata(fees.buyback, pool.quote, TOKEN) >>
  <1>1. volumes \in Seq(C)  BY DEF CommonIn, VenueAddresses
  <1>2. config \in Seq(C)  BY DEF CommonIn, VenueAddresses
  <1>3. owned \in Seq(C)  BY DEF PoolIn
  <1>4. own \in Seq(C)  BY DEF CommonIn
  <1>5. second \in Seq(C)  BY DEF PoolIn
  <1>6. buyback \in Seq(C)  BY DEF PoolIn
  <1>7. back \in Seq(C)
    <2> HIDE DEF owned, own
    <2> QED  BY <1>3, <1>4
  <1>8. RemainingAccounts(side, pool, fees) = back \o second \o buyback
    BY DEF RemainingAccounts
  <1>9. SwapAccounts(side, pool, fees) =
          NamedAccounts(pool, fees) \o volumes \o config \o RemainingAccounts(side, pool, fees)
    BY DEF SwapAccounts
  <1> HIDE DEF volumes, config, back, second, buyback
  <1>10. RemainingAccounts(side, pool, fees) \in Seq(C)  BY <1>5, <1>6, <1>7, <1>8
  <1> QED  BY <1>1, <1>2, <1>9, <1>10, NamedOver

LEMMA PoolRouteOver ==
    ASSUME NEW C, CommonIn(C), NEW pool \in Pools, NEW fees, PoolIn(C, pool, fees),
           NEW side \in {"Buy", "Sell"}
    PROVE  PoolRoute(side, pool, fees) \in Seq(IxOver(C))
  <1> DEFINE ixs == IxOver(C)
             base == CreateAta(Wallet, Wallet, pool.mint, pool.token)
             quote == CreateAta(Wallet, Wallet, pool.quote, TOKEN)
             wrap == Transfer(Wallet, UserQuote(pool))
             sync == Ix("sync", TOKEN, << UserQuote(pool) >>, {}, 1)
             close == Ix("close", TOKEN, << UserQuote(pool), Wallet, Wallet >>, {Wallet}, 1)
             buy == Ix("pumpswap", PumpSwap, SwapAccounts("Buy", pool, fees), {Wallet}, 25)
             sell == Ix("pumpswap", PumpSwap, SwapAccounts("Sell", pool, fees), {Wallet}, 24)
  <1>1. pool.token \in {TOKEN, TOKEN_2022} /\ pool.mint \in C /\ pool.quote \in C
        /\ Wallet \in C /\ TOKEN \in C /\ SYSTEM \in C /\ PumpSwap \in C /\ UserQuote(pool) \in C
    BY DEF Pools, CommonIn, PoolIn, VenueAddresses, UserQuote
  <1>2. {Wallet} \in SUBSET Pubkeys /\ {} \in SUBSET Pubkeys  BY KeyNames
  <1>3. base \in ixs /\ quote \in ixs  BY <1>1, AtaIx DEF PoolIn
  <1>4. wrap \in ixs
    <2>1. "transfer" \in Ops /\ 12 \in Nat /\ << Wallet, UserQuote(pool) >> \in Seq(C)
      BY <1>1 DEF Ops
    <2>2. Ix("transfer", SYSTEM, << Wallet, UserQuote(pool) >>, {Wallet}, 12) \in IxOver(C)
      BY <1>1, <1>2, <2>1, IxType
    <2> QED  BY <2>2 DEF Transfer
  <1>5. sync \in ixs
    <2>1. "sync" \in Ops /\ 1 \in Nat /\ << UserQuote(pool) >> \in Seq(C)  BY <1>1 DEF Ops
    <2> QED  BY <1>1, <1>2, <2>1, IxType
  <1>6. close \in ixs
    <2>1. "close" \in Ops /\ 1 \in Nat /\ << UserQuote(pool), Wallet, Wallet >> \in Seq(C)
      BY <1>1 DEF Ops
    <2> QED  BY <1>1, <1>2, <2>1, IxType
  <1>7. buy \in ixs
    <2>1. "pumpswap" \in Ops /\ 25 \in Nat  BY DEF Ops
    <2>2. SwapAccounts("Buy", pool, fees) \in Seq(C)  BY SwapAccountsOver
    <2> QED  BY <1>1, <1>2, <2>1, <2>2, IxType
  <1>8. sell \in ixs
    <2>1. "pumpswap" \in Ops /\ 24 \in Nat  BY DEF Ops
    <2>2. SwapAccounts("Sell", pool, fees) \in Seq(C)  BY SwapAccountsOver
    <2> QED  BY <1>1, <1>2, <2>1, <2>2, IxType
  <1>9. CloseQuote(pool) = IF pool.quote = WSOL THEN << close >> ELSE << >>
    BY DEF CloseQuote
  <1>10. PoolBuyRoute(pool, fees) =
           << base, quote >> \o (IF pool.quote = WSOL THEN << wrap, sync >> ELSE << >>)
           \o << buy >> \o CloseQuote(pool)
    BY DEF PoolBuyRoute
  <1>11. PoolSellRoute(pool, fees) = << quote, sell >> \o CloseQuote(pool)
    BY DEF PoolSellRoute
  <1> HIDE DEF ixs, base, quote, wrap, sync, close, buy, sell
  <1>12. CloseQuote(pool) \in Seq(ixs)  BY <1>6, <1>9
  <1>13. PoolBuyRoute(pool, fees) \in Seq(ixs)
    <2> DEFINE wrapped == IF pool.quote = WSOL THEN << wrap, sync >> ELSE << >>
    <2>1. << base, quote >> \in Seq(ixs)  BY <1>3
    <2>2. wrapped \in Seq(ixs)  BY <1>4, <1>5
    <2>3. << buy >> \in Seq(ixs)  BY <1>7
    <2> HIDE DEF wrapped
    <2>4. << base, quote >> \o wrapped \o << buy >> \o CloseQuote(pool) \in Seq(ixs)
      BY <1>12, <2>1, <2>2, <2>3
    <2> QED  BY <1>10, <2>4 DEF wrapped
  <1>14. PoolSellRoute(pool, fees) \in Seq(ixs)
    <2>1. << quote, sell >> \in Seq(ixs)  BY <1>3, <1>8
    <2> QED  BY <1>11, <1>12, <2>1
  <1> QED  BY <1>13, <1>14 DEF PoolRoute, ixs

LEMMA NativeRouteOver ==
    ASSUME NEW C, CommonIn(C), NEW side \in {"Buy", "Sell"}, NEW settlement,
           NEW target \in Curves \cup Pools, NEW pool \in Pools, NEW funs, NEW swaps,
           target \in Curves => CurveIn(C, target, funs),
           target \in Pools => PoolIn(C, target, swaps), PoolIn(C, pool, swaps)
    PROVE  NativeRoute(side, settlement, target, pool, funs, swaps) \in Seq(IxOver(C))
  <1> DEFINE ixs == IxOver(C)
             leg == Leg(side, target, funs, swaps)
  <1>1. leg \in Seq(ixs)
    <2>1. CASE target \in Curves
      <3>1. target.venue = "PumpFun"  BY <2>1 DEF Curves
      <3> QED  BY <2>1, <3>1, CurveRouteOver DEF Leg
    <2>2. CASE target \in Pools
      <3>1. target.venue # "PumpFun"  BY <2>2 DEF Pools
      <3> QED  BY <2>2, <3>1, PoolRouteOver DEF Leg
    <2> QED  BY <2>1, <2>2
  <1>2. Other(side) \in {"Buy", "Sell"}  BY DEF Other
  <1> DEFINE there == PoolRoute(side, pool, swaps)
             back == PoolRoute(Other(side), pool, swaps)
             quote == IF target.venue = "PumpFun" THEN WSOL ELSE target.quote
  <1>3. there \in Seq(ixs) /\ back \in Seq(ixs)  BY <1>2, PoolRouteOver
  <1>4. NativeRoute(side, settlement, target, pool, funs, swaps) =
          IF (settlement = "Usdc") <=> (quote = USDC) THEN leg
          ELSE IF settlement = "Usdc" THEN IF side = "Buy" THEN back \o leg ELSE leg \o back
          ELSE IF side = "Buy" THEN there \o leg ELSE leg \o there
    BY DEF NativeRoute
  <1> HIDE DEF ixs, leg, there, back, quote
  <1>5. /\ back \o leg \in Seq(ixs) /\ leg \o back \in Seq(ixs)
        /\ there \o leg \in Seq(ixs) /\ leg \o there \in Seq(ixs)
    BY <1>1, <1>3
  <1>6. NativeRoute(side, settlement, target, pool, funs, swaps) \in Seq(ixs)
    BY <1>1, <1>4, <1>5
  <1> QED  BY <1>6 DEF ixs

-----------------------------------------------------------------------------
(* The states of a client, and what its trade finds in its table. *)

\* A trade is built once both adapters and the whole table have been read.
BuiltReady ==
    built # NotRead =>
        /\ funFees # NotRead /\ swapFees # NotRead
        /\ tableFun # NotRead /\ tableSwap # NotRead /\ tableBridge # NotRead

AccountsInv == AccountsTypeOK /\ BuiltReady

\* What an adapter holds is the first of each list of one read.
FirstsOf(fees, configs) ==
    fees # NotRead =>
        \E c \in configs : << fees.standard, fees.mayhem, fees.buyback >>
                          = << c.standard[1], c.mayhem[1], c.buyback[1] >>

LEMMA AccountsTypeParts ==
    AccountsTypeOK <=>
        /\ fun \in FunConfigs /\ swap \in SwapConfigs /\ bridge \in BridgePools
        /\ changes \in 0..MaxChanges
        /\ FirstsOf(funFees, FunConfigs) /\ FirstsOf(swapFees, SwapConfigs)
        /\ tableFun \in {NotRead} \cup FunConfigs
        /\ tableSwap \in {NotRead} \cup SwapConfigs
        /\ tableBridge \in {NotRead} \cup BridgePools
        /\ built \in {NotRead} \cup Trades
  BY DEF AccountsTypeOK, FirstsOf

LEMMA SettingsFirsts ==
    ASSUME NEW configs, NEW c \in configs
    PROVE  FirstsOf(SettingsOf(c), configs)
  BY DEF FirstsOf, SettingsOf

LEMMA AccountsStart == AccountsInit => AccountsInv
  <1> SUFFICES ASSUME AccountsInit PROVE AccountsInv  OBVIOUS
  <1>1. 0 \in 0..MaxChanges  BY AccountsAssumption
  <1>2. FirstsOf(NotRead, FunConfigs) /\ FirstsOf(NotRead, SwapConfigs)  BY DEF FirstsOf
  <1>3. AccountsTypeOK  BY <1>1, <1>2, AccountsTypeParts DEF AccountsInit
  <1>4. BuiltReady  BY DEF AccountsInit, BuiltReady
  <1> QED  BY <1>3, <1>4 DEF AccountsInv

LEMMA AccountsTypePrimed ==
    AccountsTypeOK' <=>
        /\ fun' \in FunConfigs /\ swap' \in SwapConfigs /\ bridge' \in BridgePools
        /\ changes' \in 0..MaxChanges
        /\ FirstsOf(funFees', FunConfigs) /\ FirstsOf(swapFees', SwapConfigs)
        /\ tableFun' \in {NotRead} \cup FunConfigs
        /\ tableSwap' \in {NotRead} \cup SwapConfigs
        /\ tableBridge' \in {NotRead} \cup BridgePools
        /\ built' \in {NotRead} \cup Trades
  BY DEF AccountsTypeOK, FirstsOf

LEMMA AccountsStep == AccountsInv /\ [AccountsNext]_accounts_vars => AccountsInv'
  <1> SUFFICES ASSUME AccountsInv, [AccountsNext]_accounts_vars PROVE AccountsInv'
    OBVIOUS
  <1> USE DEF accounts_vars, venues, adapters, table
  <1>0. AccountsTypeOK /\ BuiltReady  BY DEF AccountsInv
  <1> USE AccountsTypeParts, AccountsTypePrimed
  <1>1. CASE Reconfigure
    <2>1. changes' \in 0..MaxChanges
      BY <1>0, <1>1, AccountsAssumption DEF Reconfigure
    <2>2. AccountsTypeOK'  BY <1>0, <1>1, <2>1 DEF Reconfigure
    <2>3. BuiltReady'  BY <1>0, <1>1 DEF Reconfigure, BuiltReady
    <2> QED  BY <2>2, <2>3 DEF AccountsInv
  <1>2. CASE UseFun
    <2>1. FirstsOf(funFees', FunConfigs)  BY <1>0, <1>2, SettingsFirsts DEF UseFun
    <2>2. AccountsTypeOK'  BY <1>0, <1>2, <2>1 DEF UseFun
    <2>3. BuiltReady'  BY <1>2 DEF UseFun, BuiltReady
    <2> QED  BY <2>2, <2>3 DEF AccountsInv
  <1>3. CASE UseSwap
    <2>1. FirstsOf(swapFees', SwapConfigs)  BY <1>0, <1>3, SettingsFirsts DEF UseSwap
    <2>2. AccountsTypeOK'  BY <1>0, <1>3, <2>1 DEF UseSwap
    <2>3. BuiltReady'  BY <1>3 DEF UseSwap, BuiltReady
    <2> QED  BY <2>2, <2>3 DEF AccountsInv
  <1>4. CASE ListFun
    <2>1. AccountsTypeOK'  BY <1>0, <1>4 DEF ListFun
    <2>2. BuiltReady'  BY <1>4 DEF ListFun, BuiltReady
    <2> QED  BY <2>1, <2>2 DEF AccountsInv
  <1>5. CASE ListSwap
    <2>1. AccountsTypeOK'  BY <1>0, <1>5 DEF ListSwap
    <2>2. BuiltReady'  BY <1>5 DEF ListSwap, BuiltReady
    <2> QED  BY <2>1, <2>2 DEF AccountsInv
  <1>6. CASE ListBridge
    <2>1. AccountsTypeOK'  BY <1>0, <1>6 DEF ListBridge
    <2>2. BuiltReady'  BY <1>6 DEF ListBridge, BuiltReady
    <2> QED  BY <2>1, <2>2 DEF AccountsInv
  <1>7. CASE Build
    <2>1. built' \in Trades  BY <1>7 DEF Build
    <2>2. AccountsTypeOK'  BY <1>0, <1>7, <2>1 DEF Build
    <2>3. BuiltReady'  BY <1>7 DEF Build, BuiltReady
    <2> QED  BY <2>2, <2>3 DEF AccountsInv
  <1>8. CASE UNCHANGED accounts_vars
    <2>1. AccountsTypeOK'  BY <1>0, <1>8
    <2>2. BuiltReady'  BY <1>0, <1>8 DEF BuiltReady
    <2> QED  BY <2>1, <2>2 DEF AccountsInv
  <1> QED
    BY <1>1, <1>2, <1>3, <1>4, <1>5, <1>6, <1>7, <1>8 DEF AccountsNext

\* The addresses a built trade may name.
Covered == {a \in Addresses : a \in Table \/ Mentions(a, OwnOf(built.target))}

LEMMA BuiltParts ==
    ASSUME AccountsInv, built # NotRead, TableIsCurrent
    PROVE  /\ built.side \in {"Buy", "Sell"} /\ built.target \in Curves \cup Pools
           /\ bridge \in Pools /\ bridge.mint = USDC /\ bridge.token = TOKEN
           /\ bridge.quote = WSOL /\ tableBridge = bridge
           /\ tableFun \in Configs /\ tableSwap \in Configs
           /\ funFees.standard \in ToSet(tableFun.standard)
           /\ funFees.mayhem \in ToSet(tableFun.mayhem)
           /\ funFees.buyback \in ToSet(tableFun.buyback)
           /\ swapFees.standard \in ToSet(tableSwap.standard)
           /\ swapFees.mayhem \in ToSet(tableSwap.mayhem)
           /\ swapFees.buyback \in ToSet(tableSwap.buyback)
           /\ swapFees.standard # SYSTEM /\ swapFees.mayhem # SYSTEM /\ swapFees.buyback # SYSTEM
  <1>1. /\ bridge \in BridgePools /\ FirstsOf(swapFees, SwapConfigs)
        /\ tableFun \in {NotRead} \cup FunConfigs /\ tableSwap \in {NotRead} \cup SwapConfigs
        /\ built \in {NotRead} \cup Trades
    BY AccountsTypeParts DEF AccountsInv
  <1>2. swapFees # NotRead /\ tableFun \in FunConfigs /\ tableSwap \in SwapConfigs
    BY <1>1 DEF AccountsInv, BuiltReady
  <1>3. built \in Trades  BY <1>1
  <1>4. built.side \in {"Buy", "Sell"} /\ built.target \in Targets  BY <1>3 DEF Trades
  <1>5. Targets \subseteq Curves \cup Pools  BY AccountsAssumption
  <1>6. bridge \in {p \in Pools : p.mint = USDC /\ p.token = TOKEN /\ p.quote = WSOL}
    BY <1>1, AccountsAssumption
  <1>7. tableFun \in Configs /\ tableSwap \in Configs  BY <1>2, AccountsAssumption
  <1>8. PICK c \in SwapConfigs : << swapFees.standard, swapFees.mayhem, swapFees.buyback >>
                               = << c.standard[1], c.mayhem[1], c.buyback[1] >>
    BY <1>1, <1>2 DEF FirstsOf
  <1>9. /\ swapFees.standard = c.standard[1] /\ swapFees.mayhem = c.mayhem[1]
        /\ swapFees.buyback = c.buyback[1]
    BY <1>8
  <1>10. \A list \in {c.standard, c.mayhem, c.buyback} : list[1] # SYSTEM
    BY AccountsAssumption
  <1>11. swapFees.standard # SYSTEM /\ swapFees.mayhem # SYSTEM /\ swapFees.buyback # SYSTEM
    BY <1>9, <1>10
  <1>12. tableBridge = bridge  BY DEF TableIsCurrent
  <1>13. /\ funFees.standard \in ToSet(tableFun.standard)
         /\ funFees.mayhem \in ToSet(tableFun.mayhem)
         /\ funFees.buyback \in ToSet(tableFun.buyback)
         /\ swapFees.standard \in ToSet(tableSwap.standard)
         /\ swapFees.mayhem \in ToSet(tableSwap.mayhem)
         /\ swapFees.buyback \in ToSet(tableSwap.buyback)
    BY DEF TableIsCurrent
  <1> QED  BY <1>4, <1>5, <1>6, <1>7, <1>11, <1>12, <1>13

LEMMA RecipientKeys ==
    ASSUME NEW config \in Configs
    PROVE  /\ RecipientsOf(config) \subseteq Pubkeys
           /\ \A r \in ToSet(config.standard) : r \in RecipientsOf(config)
           /\ \A r \in ToSet(config.mayhem) : r \in RecipientsOf(config)
           /\ \A r \in ToSet(config.buyback) : r \in RecipientsOf(config)
  <1>1. config.standard \in Seq(Pubkeys) /\ config.mayhem \in Seq(Pubkeys)
        /\ config.buyback \in Seq(Pubkeys)
    BY DEF Configs
  <1>2. \A s \in Seq(Pubkeys) : ToSet(s) \subseteq Pubkeys  BY DEF ToSet
  <1> QED  BY <1>1, <1>2 DEF RecipientsOf

\* Each of the addresses the client derives is one.
LEMMA PdaAddress ==
    ASSUME NEW program \in Pubkeys, NEW seed \in Seeds, NEW of \in Pubkeys
    PROVE  Pda(program, seed, of) \in Derived /\ Pda(program, seed, of) \in Addresses
  BY DEF Pda, Derived, Addresses

LEMMA AtaAddress ==
    ASSUME NEW owner \in Pubkeys \cup Derived, NEW mint \in Pubkeys, NEW token \in Pubkeys
    PROVE  Ata(owner, mint, token) \in Addresses
  BY DEF Ata, TokenAccounts, Addresses

LEMMA VenueDerived ==
    ASSUME NEW program \in {PumpFun, PumpSwap}
    PROVE  VenueAddresses(program) \subseteq Addresses
  <1>1. program \in Pubkeys /\ FEE_PROGRAM \in Pubkeys /\ NoKey \in Pubkeys  BY KeyNames
  <1>2. /\ Global(program) \in Addresses /\ EventAuthority(program) \in Addresses
        /\ GlobalVolume(program) \in Addresses /\ FeeConfig(program) \in Addresses
    <2>1. {"global", "event_authority", "global_volume", "fee_config"} \subseteq Seeds
      BY DEF Seeds
    <2> QED  BY <1>1, <2>1, PdaAddress DEF Global, EventAuthority, GlobalVolume, FeeConfig
  <1>3. program \in Addresses /\ FEE_PROGRAM \in Addresses  BY <1>1 DEF Addresses
  <1> QED  BY <1>2, <1>3 DEF VenueAddresses

LEMMA CommonCovered ==
    ASSUME AccountsInv, built # NotRead, TableIsCurrent
    PROVE  CommonIn(Covered)
  <1>1. {SYSTEM, TOKEN, TOKEN_2022, ATA, WSOL, USDC} \subseteq Covered
    <2>1. {SYSTEM, TOKEN, TOKEN_2022, ATA, WSOL, USDC} \subseteq CommonAddresses
      BY DEF CommonAddresses
    <2>2. {SYSTEM, TOKEN, TOKEN_2022, ATA, WSOL, USDC} \subseteq Addresses
      BY KeyNames DEF Addresses
    <2> QED  BY <2>1, <2>2 DEF Covered, Table
  <1>2. Wallet \in Pubkeys /\ Wallet \in OwnOf(built.target)  BY KeyNames DEF OwnOf
  <1>3. Wallet \in Covered  BY <1>2, KeyMentioned DEF Covered
  <1>4. VenueAddresses(PumpFun) \subseteq Covered
    BY VenueDerived DEF Covered, Table, FunAddresses
  <1>5. VenueAddresses(PumpSwap) \subseteq Covered
    BY VenueDerived DEF Covered, Table, SwapAddresses
  <1>6. \A program \in {PumpFun, PumpSwap} : UserVolume(program) \in Covered
    <2> SUFFICES ASSUME NEW program \in {PumpFun, PumpSwap}
                 PROVE  UserVolume(program) \in Covered
      OBVIOUS
    <2>1. program \in Pubkeys /\ "user_volume" \in Seeds  BY KeyNames DEF Seeds
    <2>2. UserVolume(program) = Pda(program, "user_volume", Wallet)  BY DEF UserVolume
    <2> QED  BY <1>2, <2>1, <2>2, DerivedMentioned DEF Covered
  <1> QED  BY <1>1, <1>3, <1>4, <1>5, <1>6 DEF CommonIn

LEMMA CurveCovered ==
    ASSUME AccountsInv, built # NotRead, TableIsCurrent, built.target \in Curves
    PROVE  CurveIn(Covered, built.target, funFees)
  <1> DEFINE target == built.target
             own == OwnOf(target)
  <1>1. /\ target.address \in Pubkeys \cup Derived
        /\ target.address \in Derived => target.address.of = target.mint
        /\ target.mint \in Pubkeys /\ target.creator \in Pubkeys
        /\ target.token \in {TOKEN, TOKEN_2022}
    <2>1. Pda(PumpFun, "curve", target.mint).of = target.mint  BY DEF Pda
    <2> QED  BY <2>1 DEF Curves
  <1>2. target.token \in Pubkeys /\ PumpFun \in Pubkeys /\ Wallet \in Pubkeys
    BY <1>1, KeyNames
  <1>3. Wallet \in own /\ target.mint \in own /\ target.creator \in own
        /\ target.address \in own
    BY DEF OwnOf
  <1>4. "creator_vault" \in Seeds /\ "v2" \in Seeds  BY DEF Seeds
  <1>5. RecipientsOf(tableFun) \subseteq Covered
    <2>1. RecipientsOf(tableFun) \subseteq Addresses
      BY BuiltParts, RecipientKeys DEF Addresses
    <2> QED  BY <2>1 DEF Covered, Table, FunAddresses
  <1>6. {funFees.standard, funFees.mayhem, funFees.buyback} \subseteq Covered
    BY <1>5, BuiltParts, RecipientKeys
  <1> HIDE DEF target, own
  <1>7. target.mint \in Covered  BY <1>1, <1>3, KeyMentioned DEF Covered, target, own
  <1>8. target.address \in Covered /\ Rooted(target.address, own)
    <2>1. Rooted(target.address, own)  BY <1>1, <1>3 DEF Rooted
    <2>2. target.address \in Addresses /\ target.address \notin TokenAccounts
      BY <1>1, AddressKinds DEF Addresses
    <2>3. Mentions(target.address, own)  BY <2>1, <2>2 DEF Mentions
    <2> QED  BY <2>1, <2>2, <2>3 DEF Covered, target, own
  <1>9. CreatorVault(PumpFun, target.creator) \in Covered
    <2>1. CreatorVault(PumpFun, target.creator) = Pda(PumpFun, "creator_vault", target.creator)
      BY DEF CreatorVault
    <2> QED  BY <1>1, <1>2, <1>3, <1>4, <2>1, DerivedMentioned DEF Covered, target, own
  <1>10. Second(PumpFun, target.mint) \in Covered
    <2>1. Second(PumpFun, target.mint) = Pda(PumpFun, "v2", target.mint)  BY DEF Second
    <2> QED  BY <1>1, <1>2, <1>3, <1>4, <2>1, DerivedMentioned DEF Covered, target, own
  <1>11. Ata(target.address, target.mint, target.token) \in Covered
    BY <1>1, <1>2, <1>8, AtaMentioned DEF Covered, target, own
  <1>12. Rooted(Wallet, own)  BY <1>2, <1>3, KeyMentioned
  <1>13. Ata(Wallet, target.mint, target.token) \in Covered
    BY <1>1, <1>2, <1>12, AtaMentioned DEF Covered, target, own
  <1> QED
    BY <1>6, <1>7, <1>8, <1>9, <1>10, <1>11, <1>13 DEF CurveIn, target

\* What any pool's swap pays, and the user's own accounts of its quote.
LEMMA PaidCovered ==
    ASSUME AccountsInv, built # NotRead, TableIsCurrent, NEW quote \in {WSOL, USDC}
    PROVE  /\ \A r \in {swapFees.standard, swapFees.mayhem, swapFees.buyback} :
                r \in Covered /\ Ata(r, quote, TOKEN) \in Covered
           /\ Ata(UserVolume(PumpSwap), quote, TOKEN) \in Covered
           /\ Ata(Wallet, quote, TOKEN) \in Covered
  <1> DEFINE own == OwnOf(built.target)
  <1>1. quote \in Pubkeys /\ TOKEN \in Pubkeys /\ Wallet \in Pubkeys /\ PumpSwap \in Pubkeys
    BY KeyNames
  <1>2. Wallet \in own  BY DEF OwnOf
  <1>3. \A r \in {swapFees.standard, swapFees.mayhem, swapFees.buyback} :
          r \in RecipientsOf(tableSwap) \ {SYSTEM} /\ r \in Pubkeys
    BY BuiltParts, RecipientKeys
  <1>4. \A r \in RecipientsOf(tableSwap) \ {SYSTEM} :
          {r, Ata(r, WSOL, TOKEN), Ata(r, USDC, TOKEN)} \subseteq Table
    BY DEF Table, SwapAddresses
  <1> HIDE DEF own
  <1>5. \A r \in {swapFees.standard, swapFees.mayhem, swapFees.buyback} :
          r \in Covered /\ Ata(r, quote, TOKEN) \in Covered
    <2> SUFFICES ASSUME NEW r \in {swapFees.standard, swapFees.mayhem, swapFees.buyback}
                 PROVE  r \in Covered /\ Ata(r, quote, TOKEN) \in Covered
      OBVIOUS
    <2>1. r \in Pubkeys /\ {r, Ata(r, WSOL, TOKEN), Ata(r, USDC, TOKEN)} \subseteq Table
      BY <1>3, <1>4
    <2>2. r \in Addresses  BY <2>1 DEF Addresses
    <2>3. Ata(r, quote, TOKEN) \in Addresses  BY <1>1, <2>1, AtaAddress
    <2>4. Ata(r, quote, TOKEN) \in Table  BY <2>1
    <2> QED  BY <2>1, <2>2, <2>3, <2>4 DEF Covered
  <1>6. UserVolume(PumpSwap) \in Derived /\ Rooted(UserVolume(PumpSwap), own)
    <2>1. "user_volume" \in Seeds  BY DEF Seeds
    <2>2. UserVolume(PumpSwap) = Pda(PumpSwap, "user_volume", Wallet)  BY DEF UserVolume
    <2> QED  BY <1>1, <1>2, <2>1, <2>2, DerivedMentioned
  <1>7. Ata(UserVolume(PumpSwap), quote, TOKEN) \in Covered
    BY <1>1, <1>6, AtaMentioned DEF Covered, own
  <1>8. Rooted(Wallet, own)  BY <1>1, <1>2, KeyMentioned
  <1>9. Ata(Wallet, quote, TOKEN) \in Covered
    BY <1>1, <1>8, AtaMentioned DEF Covered, own
  <1> QED  BY <1>5, <1>7, <1>9

LEMMA PoolCovered ==
    ASSUME AccountsInv, built # NotRead, TableIsCurrent, built.target \in Pools
    PROVE  PoolIn(Covered, built.target, swapFees)
  <1> DEFINE target == built.target
             own == OwnOf(target)
             vault == CreatorVault(PumpSwap, target.creator)
  <1>1. /\ target.venue = "PumpSwap" /\ target.address \in Pubkeys /\ target.mint \in Pubkeys
        /\ target.creator \in Pubkeys /\ target.token \in {TOKEN, TOKEN_2022}
        /\ target.quote \in {WSOL, USDC}
        /\ target.base_vault \in Pubkeys /\ target.quote_vault \in Pubkeys
    BY DEF Pools
  <1>2. target.token \in Pubkeys /\ target.quote \in Pubkeys /\ PumpSwap \in Pubkeys
        /\ Wallet \in Pubkeys /\ TOKEN \in Pubkeys
    BY <1>1, KeyNames
  <1>3. /\ Wallet \in own /\ target.mint \in own /\ target.creator \in own
        /\ target.address \in own /\ target.base_vault \in own /\ target.quote_vault \in own
    BY <1>1 DEF OwnOf
  <1>4. "creator_vault" \in Seeds /\ "v2" \in Seeds  BY DEF Seeds
  <1>5. vault = Pda(PumpSwap, "creator_vault", target.creator)  BY DEF CreatorVault
  <1> HIDE DEF target, own, vault
  <1>6. {target.address, target.mint, target.base_vault, target.quote_vault} \subseteq Covered
    BY <1>1, <1>3, KeyMentioned DEF Covered, target, own
  <1>7. vault \in Derived /\ vault \in Addresses /\ Rooted(vault, own) /\ Mentions(vault, own)
    BY <1>1, <1>2, <1>3, <1>4, <1>5, DerivedMentioned
  <1>8. vault \in Covered  BY <1>7 DEF Covered, target, own
  <1>9. Ata(vault, target.quote, TOKEN) \in Covered
    BY <1>2, <1>7, AtaMentioned DEF Covered, target, own
  <1>10. Second(PumpSwap, target.mint) \in Covered
    <2>1. Second(PumpSwap, target.mint) = Pda(PumpSwap, "v2", target.mint)  BY DEF Second
    <2> QED  BY <1>1, <1>2, <1>3, <1>4, <2>1, DerivedMentioned DEF Covered, target, own
  <1>11. Rooted(Wallet, own)  BY <1>2, <1>3, KeyMentioned
  <1>12. Ata(Wallet, target.mint, target.token) \in Covered
    BY <1>1, <1>2, <1>11, AtaMentioned DEF Covered, target, own
  <1>13. /\ \A r \in {swapFees.standard, swapFees.mayhem, swapFees.buyback} :
              r \in Covered /\ Ata(r, target.quote, TOKEN) \in Covered
         /\ Ata(UserVolume(PumpSwap), target.quote, TOKEN) \in Covered
         /\ Ata(Wallet, target.quote, TOKEN) \in Covered
    BY <1>1, PaidCovered
  <1>14. {swapFees.standard, swapFees.mayhem, swapFees.buyback} \subseteq Covered  BY <1>13
  <1>15. PoolIn(Covered, target, swapFees)
    BY <1>6, <1>8, <1>9, <1>10, <1>12, <1>13, <1>14 DEF PoolIn, vault
  <1> QED  BY <1>15 DEF target

LEMMA BridgeCovered ==
    ASSUME AccountsInv, built # NotRead, TableIsCurrent
    PROVE  PoolIn(Covered, bridge, swapFees)
  <1> DEFINE vault == CreatorVault(PumpSwap, bridge.creator)
  <1>1. /\ bridge.address \in Pubkeys /\ bridge.creator \in Pubkeys
        /\ bridge.mint = USDC /\ bridge.token = TOKEN /\ bridge.quote = WSOL
        /\ bridge.base_vault \in Pubkeys /\ bridge.quote_vault \in Pubkeys
    BY BuiltParts DEF Pools
  <1>2. USDC \in Pubkeys /\ WSOL \in Pubkeys /\ TOKEN \in Pubkeys /\ PumpSwap \in Pubkeys
    BY KeyNames
  <1>3. "creator_vault" \in Seeds /\ "v2" \in Seeds  BY DEF Seeds
  <1>4. vault = Pda(PumpSwap, "creator_vault", bridge.creator)  BY DEF CreatorVault
  <1>5. BridgeAddresses(bridge) =
          {bridge.address, bridge.mint, bridge.quote, bridge.base_vault, bridge.quote_vault, vault,
           Ata(vault, bridge.quote, TOKEN), Second(PumpSwap, bridge.mint)}
    BY DEF BridgeAddresses
  <1>6. BridgeAddresses(bridge) \subseteq Table
    <2>1. tableBridge = bridge  BY BuiltParts
    <2> QED  BY <2>1 DEF Table
  <1> HIDE DEF vault
  <1>7. vault \in Derived /\ vault \in Addresses  BY <1>1, <1>2, <1>3, <1>4, PdaAddress
  <1>8. Ata(vault, bridge.quote, TOKEN) \in Addresses  BY <1>1, <1>2, <1>7, AtaAddress
  <1>9. Second(PumpSwap, bridge.mint) \in Addresses
    BY <1>1, <1>2, <1>3, PdaAddress DEF Second
  <1>10. {bridge.address, bridge.mint, bridge.base_vault, bridge.quote_vault} \subseteq Addresses
    BY <1>1, <1>2 DEF Addresses
  <1>11. {bridge.address, bridge.mint, bridge.base_vault, bridge.quote_vault} \subseteq Covered
    BY <1>5, <1>6, <1>10 DEF Covered
  <1>12. vault \in Covered  BY <1>5, <1>6, <1>7 DEF Covered
  <1>13. Ata(vault, bridge.quote, TOKEN) \in Covered  BY <1>5, <1>6, <1>8 DEF Covered
  <1>14. Second(PumpSwap, bridge.mint) \in Covered  BY <1>5, <1>6, <1>9 DEF Covered
  <1>15. /\ \A r \in {swapFees.standard, swapFees.mayhem, swapFees.buyback} :
              r \in Covered /\ Ata(r, bridge.quote, TOKEN) \in Covered
         /\ Ata(UserVolume(PumpSwap), bridge.quote, TOKEN) \in Covered
         /\ Ata(Wallet, bridge.quote, TOKEN) \in Covered
    BY <1>1, PaidCovered
  <1>16. Ata(Wallet, bridge.mint, bridge.token) \in Covered  BY <1>1, PaidCovered
  <1>17. {swapFees.standard, swapFees.mayhem, swapFees.buyback} \subseteq Covered  BY <1>15
  <1> QED
    BY <1>11, <1>12, <1>13, <1>14, <1>15, <1>16, <1>17 DEF PoolIn, vault

LEMMA TableEnough == AccountsInv => TableCovers
  <1> SUFFICES ASSUME AccountsInv, built # NotRead, TableIsCurrent,
                      NEW i \in DOMAIN Route,
                      NEW a \in Accounts(Route[i]) \cup {Route[i].program}
               PROVE  a \in Table \/ Mentions(a, OwnOf(built.target))
    BY DEF TableCovers
  <1>1. Route \in Seq(IxOver(Covered))
    <2>1. built.target \in Curves => CurveIn(Covered, built.target, funFees)  BY CurveCovered
    <2>2. built.target \in Pools => PoolIn(Covered, built.target, swapFees)  BY PoolCovered
    <2>3. PoolIn(Covered, bridge, swapFees) /\ CommonIn(Covered)
      BY BridgeCovered, CommonCovered
    <2>4. built.side \in {"Buy", "Sell"} /\ built.target \in Curves \cup Pools /\ bridge \in Pools
      BY BuiltParts
    <2> HIDE DEF Covered
    <2>5. NativeRoute(built.side, built.settlement, built.target, bridge, funFees, swapFees)
            \in Seq(IxOver(Covered))
      BY <2>1, <2>2, <2>3, <2>4, NativeRouteOver
    <2> QED  BY <2>5 DEF Route
  <1>2. Route[i] \in IxOver(Covered)  BY <1>1
  <1>3. Route[i].program \in Covered /\ Route[i].accounts \in Seq(Covered)
    BY <1>2 DEF IxOver
  <1>4. Accounts(Route[i]) \subseteq Covered
    <2>1. \A s \in Seq(Covered) : ToSet(s) \subseteq Covered  BY DEF ToSet
    <2> QED  BY <1>3, <2>1 DEF Accounts
  <1>5. a \in Covered  BY <1>3, <1>4
  <1> QED  BY <1>5 DEF Covered

\* The accounts of every state are those of the types: the adapters hold the
\* first recipients of one read of a venue's config, and the table what its
\* program read of each.
THEOREM AccountsTypes == AccountsSpec => []AccountsTypeOK
  <1>1. AccountsInv => AccountsTypeOK  BY DEF AccountsInv
  <1> QED  BY <1>1, AccountsStart, AccountsStep, PTL DEF AccountsSpec

\* Every address of every native route is in a current table or is the
\* trade's own, whatever the venues' recipients, pools, targets and clients.
THEOREM TableServesTrades == AccountsSpec => []TableCovers
  BY AccountsStart, AccountsStep, TableEnough, PTL DEF AccountsSpec

-----------------------------------------------------------------------------
(* What is open before each instruction of a program. *)

\* Lists of anything: the proofs append to them and compare their elements.
IsList(s) == \E T : s \in Seq(T)

LEMMA ListAppend ==
    ASSUME NEW s, IsList(s), NEW x
    PROVE  /\ IsList(Append(s, x)) /\ Len(s) \in Nat /\ Len(Append(s, x)) = Len(s) + 1
           /\ Append(s, x)[Len(s) + 1] = x
           /\ \A i \in 1..Len(s) : Append(s, x)[i] = s[i]
           /\ DOMAIN s = 1..Len(s) /\ DOMAIN Append(s, x) = 1..Len(s) + 1
  <1>1. PICK T : s \in Seq(T)  BY DEF IsList
  <1> DEFINE U == T \cup {x}
  <1>2. s \in Seq(U) /\ x \in U  BY <1>1
  <1> HIDE DEF U
  <1>3. Append(s, x) \in Seq(U)  BY <1>2
  <1>4. IsList(Append(s, x))  BY <1>3 DEF IsList
  <1> QED  BY <1>2, <1>4

LEMMA ListEmpty == IsList(<< >>) /\ Len(<< >>) = 0 /\ DOMAIN << >> = {}
  <1>1. << >> \in Seq({})  OBVIOUS
  <1>2. IsList(<< >>)  BY <1>1 DEF IsList
  <1> QED  BY <1>2

\* The recursive function OpenBefore takes its value from.
OpenAfters(m) ==
    CHOOSE f : f = [k \in 0..Len(m) |->
                      IF k = 0 THEN Existing ELSE (f[k - 1] \cup Opens(m[k])) \ Closes(m[k])]

LEMMA OpenAftersSteps ==
    ASSUME NEW m, Len(m) \in Nat
    PROVE  /\ \A i : OpenBefore(m, i) = OpenAfters(m)[i - 1]
           /\ OpenAfters(m)[0] = Existing
           /\ \A k \in 1..Len(m) :
                OpenAfters(m)[k] = (OpenAfters(m)[k - 1] \cup Opens(m[k])) \ Closes(m[k])
  <1> DEFINE Equation(f) ==
                 f = [k \in 0..Len(m) |->
                        IF k = 0 THEN Existing ELSE (f[k - 1] \cup Opens(m[k])) \ Closes(m[k])]
             U == Existing \cup UNION {Opens(m[k]) : k \in 1..Len(m)}
             step == [k \in 1..Len(m) |-> [o \in SUBSET U |-> (o \cup Opens(m[k])) \ Closes(m[k])]]
  <1> HIDE DEF Existing, Opens, Closes
  <1>1. \E f : Equation(f)
    <2>1. step \in [1..Len(m) -> [SUBSET U -> SUBSET U]] /\ Existing \in SUBSET U
      OBVIOUS
    <2>2. PICK f : Follows(f, Len(m), SUBSET U, Existing, step)
      <3> HIDE DEF step, U
      <3> QED  BY <2>1, Recursion
    <2>3. f \in [0..Len(m) -> SUBSET U] /\ f[0] = Existing
      BY <2>2 DEF Follows
    <2>4. \A k \in 1..Len(m) : f[k] = (f[k - 1] \cup Opens(m[k])) \ Closes(m[k])
      <3>1. \A k \in 1..Len(m) : k - 1 \in 0..Len(m)  OBVIOUS
      <3>2. \A k \in 1..Len(m) : f[k - 1] \in SUBSET U
        <4> HIDE DEF step, U
        <4> QED  BY <2>3, <3>1
      <3>3. \A k \in 1..Len(m) : f[k] = step[k][f[k - 1]]  BY <2>2 DEF Follows
      <3> HIDE DEF U
      <3> QED  BY <3>2, <3>3
    <2> HIDE DEF U, step
    <2>5. Equation(f)  BY <2>3, <2>4
    <2> QED  BY <2>5
  <1> DEFINE g == OpenAfters(m)
  <1>2. Equation(g)
    <2>1. g = CHOOSE f : Equation(f)  BY DEF OpenAfters
    <2> HIDE DEF Equation, g
    <2> QED  BY <1>1, <2>1
  <1>3. \A i : OpenBefore(m, i) = g[i - 1]  BY DEF OpenBefore, OpenAfters
  <1>4. g[0] = Existing /\ \A k \in 1..Len(m) : g[k] = (g[k - 1] \cup Opens(m[k])) \ Closes(m[k])
    <2> HIDE DEF g
    <2> QED  BY <1>2
  <1> QED  BY <1>3, <1>4

\* One more instruction leaves what was open before the others.
LEMMA OpenBeforeAppend ==
    ASSUME NEW m, IsList(m), NEW ix, NEW longer, longer = Append(m, ix)
    PROVE  /\ \A i \in 1..Len(m) + 1 : OpenBefore(longer, i) = OpenBefore(m, i)
           /\ OpenBefore(longer, Len(m) + 2) =
                (OpenBefore(m, Len(m) + 1) \cup Opens(ix)) \ Closes(ix)
  <1>1. /\ Len(m) \in Nat /\ Len(longer) = Len(m) + 1 /\ longer[Len(m) + 1] = ix
        /\ \A i \in 1..Len(m) : longer[i] = m[i]
    BY ListAppend
  <1> DEFINE f == OpenAfters(m)
             g == OpenAfters(longer)
             S == {k \in 0..Len(m) : g[k] = f[k]}
  <1>2. /\ g[0] = Existing
        /\ \A k \in 1..Len(m) + 1 : g[k] = (g[k - 1] \cup Opens(longer[k])) \ Closes(longer[k])
        /\ \A i : OpenBefore(longer, i) = g[i - 1]
    <2>1. /\ g[0] = Existing
          /\ \A k \in 1..Len(longer) : g[k] = (g[k - 1] \cup Opens(longer[k])) \ Closes(longer[k])
          /\ \A i : OpenBefore(longer, i) = g[i - 1]
      <3>1. Len(longer) \in Nat  BY <1>1
      <3> HIDE DEF Opens, Closes, Existing
      <3> QED  BY <3>1, OpenAftersSteps
    <2> HIDE DEF g, Opens, Closes, Existing
    <2> QED  BY <1>1, <2>1
  <1>3. /\ f[0] = Existing
        /\ \A k \in 1..Len(m) : f[k] = (f[k - 1] \cup Opens(m[k])) \ Closes(m[k])
        /\ \A i : OpenBefore(m, i) = f[i - 1]
    BY <1>1, OpenAftersSteps
  <1> HIDE DEF f, g, Opens, Closes, Existing
  <1>4. 0 \in S  BY <1>1, <1>2, <1>3
  <1>5. ASSUME NEW k \in 1..Len(m), k - 1 \in S PROVE k \in S
    <2>1. k \in 1..Len(m) + 1 /\ longer[k] = m[k]  BY <1>1
    <2>2. g[k] = (g[k - 1] \cup Opens(m[k])) \ Closes(m[k])  BY <1>2, <2>1
    <2>3. f[k] = (f[k - 1] \cup Opens(m[k])) \ Closes(m[k])  BY <1>3
    <2>4. g[k] = f[k]  BY <1>5, <2>2, <2>3
    <2>5. k \in 0..Len(m)  BY <1>1
    <2> QED  BY <2>4, <2>5
  <1>6. 0..Len(m) \subseteq S
    <2> HIDE DEF S
    <2> QED  BY <1>1, <1>4, <1>5, InductionTo
  <1>7. \A k \in 0..Len(m) : g[k] = f[k]  BY <1>6
  <1>8. ASSUME NEW i \in 1..Len(m) + 1 PROVE OpenBefore(longer, i) = OpenBefore(m, i)
    <2>1. i - 1 \in 0..Len(m)  BY <1>1
    <2> QED  BY <1>2, <1>3, <1>7, <2>1
  <1>9. OpenBefore(longer, Len(m) + 2) = (OpenBefore(m, Len(m) + 1) \cup Opens(ix)) \ Closes(ix)
    <2>1. Len(m) + 1 \in 1..Len(m) + 1 /\ Len(m) \in 0..Len(m) /\ (Len(m) + 1) - 1 = Len(m)
          /\ (Len(m) + 2) - 1 = Len(m) + 1
      BY <1>1
    <2>2. OpenBefore(longer, Len(m) + 2) = g[Len(m) + 1]  BY <1>2, <2>1
    <2>3. g[Len(m) + 1] = (g[Len(m)] \cup Opens(ix)) \ Closes(ix)
      BY <1>1, <1>2, <2>1
    <2>4. OpenBefore(m, Len(m) + 1) = f[Len(m)]  BY <1>3, <2>1
    <2>5. g[Len(m)] = f[Len(m)]  BY <1>7, <2>1
    <2> QED  BY <2>2, <2>3, <2>4, <2>5
  <1> QED  BY <1>8, <1>9

-----------------------------------------------------------------------------
(* The builder of a sponsored program, and what each of its steps keeps. *)

IsBuilder(b) == b = [open |-> b.open, ixs |-> b.ixs, refund |-> b.refund]

\* Every swap of m finds open what it needs.
Served(m) == \A i \in 1..Len(m) : Venue(m[i]) => Needs(m[i]) \subseteq OpenBefore(m, i)

\* What the sponsor opens in m a later instruction uses, or it is in A.
Used(m, A) ==
    \A i \in 1..Len(m) :
        Sponsor \in m[i].signers /\ m[i].op # "transfer" =>
            \/ Opens(m[i]) # {} /\ Opens(m[i]) \subseteq A
            \/ \E j \in 1..Len(m) : j > i /\ Opens(m[i]) \subseteq Accounts(m[j])

\* A builder whose program is as it should be so far, but that accounts in A
\* wait for the swap they were opened for.
Sound(b, A) ==
    /\ IsBuilder(b) /\ IsList(b.ixs)
    /\ b.open \subseteq OpenBefore(b.ixs, Len(b.ixs) + 1)
    /\ Served(b.ixs)
    /\ Used(b.ixs, A)

\* One more instruction, after which at most what it leaves is taken for open.
LEMMA SoundAppend ==
    ASSUME NEW b, NEW A, Sound(b, A), NEW ix, NEW open, NEW refund, NEW B,
           open \subseteq (b.open \cup Opens(ix)) \ Closes(ix),
           Venue(ix) => Needs(ix) \subseteq b.open,
           A \subseteq B \/ A \subseteq Accounts(ix),
           Sponsor \in ix.signers /\ ix.op # "transfer" => Opens(ix) # {} /\ Opens(ix) \subseteq B,
           NEW c, c = [open |-> open, ixs |-> Append(b.ixs, ix), refund |-> refund]
    PROVE  Sound(c, B)
  <1> DEFINE m == b.ixs
             n == Len(m)
             l == Append(m, ix)
  <1>1. /\ IsList(m) /\ b.open \subseteq OpenBefore(m, n + 1) /\ Served(m) /\ Used(m, A)
    BY DEF Sound
  <1>2. /\ IsList(l) /\ n \in Nat /\ Len(l) = n + 1 /\ l[n + 1] = ix
        /\ \A i \in 1..n : l[i] = m[i]
    BY <1>1, ListAppend
  <1>3. /\ \A i \in 1..n + 1 : OpenBefore(l, i) = OpenBefore(m, i)
        /\ OpenBefore(l, n + 2) = (OpenBefore(m, n + 1) \cup Opens(ix)) \ Closes(ix)
    BY <1>1, OpenBeforeAppend
  <1>4. c.open = open /\ c.ixs = l /\ c.refund = refund /\ IsBuilder(c)  BY DEF IsBuilder
  <1> HIDE DEF m, n, l
  <1>5. open \subseteq OpenBefore(l, Len(l) + 1)
    <2>1. Len(l) + 1 = n + 2  BY <1>2
    <2> HIDE DEF Opens, Closes
    <2> QED  BY <1>1, <1>3, <2>1
  <1>6. Served(l)
    <2> SUFFICES ASSUME NEW i \in 1..Len(l), Venue(l[i])
                 PROVE  Needs(l[i]) \subseteq OpenBefore(l, i)
      BY DEF Served
    <2>1. i \in 1..n + 1  BY <1>2
    <2>2. CASE i = n + 1
      <3>1. l[i] = ix /\ OpenBefore(l, i) = OpenBefore(m, n + 1)  BY <1>2, <1>3, <2>1, <2>2
      <3> QED  BY <1>1, <3>1
    <2>3. CASE i # n + 1
      <3>1. i \in 1..n  BY <1>2, <2>1, <2>3
      <3>2. l[i] = m[i] /\ OpenBefore(l, i) = OpenBefore(m, i)  BY <1>2, <1>3, <2>1, <3>1
      <3>3. Venue(m[i]) /\ i \in 1..Len(m)  BY <3>1, <3>2 DEF n
      <3> QED  BY <1>1, <3>2, <3>3 DEF Served
    <2> QED  BY <2>2, <2>3
  <1>7. Used(l, B)
    <2> SUFFICES ASSUME NEW i \in 1..Len(l), Sponsor \in l[i].signers, l[i].op # "transfer"
                 PROVE  \/ Opens(l[i]) # {} /\ Opens(l[i]) \subseteq B
                        \/ \E j \in 1..Len(l) : j > i /\ Opens(l[i]) \subseteq Accounts(l[j])
      BY DEF Used
    <2> HIDE DEF Opens, Accounts
    <2>1. i \in 1..n + 1  BY <1>2
    <2>2. CASE i = n + 1  BY <1>2, <2>2
    <2>3. CASE i # n + 1
      <3>1. i \in 1..n /\ l[i] = m[i]  BY <1>2, <2>1, <2>3
      <3>2. CASE Opens(m[i]) # {} /\ Opens(m[i]) \subseteq A
        <4>1. CASE A \subseteq B  BY <3>1, <3>2, <4>1
        <4>2. CASE A \subseteq Accounts(ix)
          <5>1. n + 1 \in 1..Len(l) /\ n + 1 > i /\ l[n + 1] = ix  BY <1>2, <3>1
          <5>2. Opens(l[i]) \subseteq Accounts(l[n + 1])  BY <3>1, <3>2, <4>2, <5>1
          <5> QED  BY <5>1, <5>2
        <4> QED  BY <4>1, <4>2
      <3>3. CASE \E j \in 1..Len(m) : j > i /\ Opens(m[i]) \subseteq Accounts(m[j])
        <4>1. PICK j \in 1..n : j > i /\ Opens(m[i]) \subseteq Accounts(m[j])
          BY <3>3 DEF n
        <4>2. j \in 1..Len(l) /\ l[j] = m[j]  BY <1>2, <4>1
        <4> QED  BY <3>1, <4>1, <4>2
      <3>4. (Opens(m[i]) # {} /\ Opens(m[i]) \subseteq A)
            \/ \E j \in 1..Len(m) : j > i /\ Opens(m[i]) \subseteq Accounts(m[j])
        BY <1>1, <3>1 DEF Used, n
      <3> QED  BY <3>2, <3>3, <3>4
    <2> QED  BY <2>2, <2>3
  <1> QED  BY <1>2, <1>4, <1>5, <1>6, <1>7 DEF Sound

LEMMA SoundWiden ==
    ASSUME NEW b, NEW A, Sound(b, A), NEW B, A \subseteq B
    PROVE  Sound(b, B)
  <1>1. Used(b.ixs, B)
    <2> HIDE DEF Opens, Accounts
    <2> QED  BY DEF Sound, Used
  <1> QED  BY <1>1 DEF Sound

LEMMA Signing ==
    /\ Sponsor # Wallet /\ Sponsor \notin {Wallet} /\ Sponsor \notin {}
  BY DEF Sponsor, Wallet, Key

\* create_ata: the account is open afterwards.
LEMMA SoundCreate ==
    ASSUME NEW b, NEW A, Sound(b, A), NEW owner, NEW mint, NEW token,
           NEW a, a = Ata(owner, mint, token),
           NEW c, c = Create(b, Sponsor, owner, mint, token)
    PROVE  Sound(c, A \cup {a}) /\ a \in c.open /\ b.open \subseteq c.open
  <1> DEFINE ix == CreateAta(Sponsor, owner, mint, token)
             refund == b.refund \/ a = Ata(Wallet, WSOL, TOKEN)
  <1>1. CASE a \in b.open
    <2>1. c = b  BY <1>1 DEF Create
    <2> QED  BY <1>1, <2>1, SoundWiden
  <1>2. CASE a \notin b.open
    <2>1. IsBuilder(b)  BY DEF Sound
    <2>2. c = [b EXCEPT !.open = @ \cup {a}, !.ixs = Append(@, ix), !.refund = refund]
      BY <1>2 DEF Create
    <2>3. c = [open |-> b.open \cup {a}, ixs |-> Append(b.ixs, ix), refund |-> refund]
      <3> HIDE DEF ix, refund
      <3> QED  BY <2>1, <2>2 DEF IsBuilder
    <2>4. ix.op = "ata" /\ ix.accounts[2] = a /\ ~Venue(ix)  BY DEF CreateAta, Ix, Venue
    <2>5. Opens(ix) = {a} /\ Closes(ix) = {}  BY <2>4 DEF Opens, Closes
    <2> HIDE DEF ix, refund
    <2>6. Sound(c, A \cup {a})  BY <2>3, <2>4, <2>5, SoundAppend
    <2> QED  BY <2>3, <2>6
  <1> QED  BY <1>1, <1>2

LEMMA BuilderGrows ==
    ASSUME NEW b, IsBuilder(b), NEW a, NEW ix,
           NEW c, c = [b EXCEPT !.open = @ \cup {a}, !.ixs = Append(@, ix)]
    PROVE  c = [open |-> b.open \cup {a}, ixs |-> Append(b.ixs, ix), refund |-> b.refund]
  BY DEF IsBuilder

\* init_volume: if the swap lists the user's volume, it is open afterwards.
LEMMA SoundVolume ==
    ASSUME NEW b, NEW A, Sound(b, A), NEW ix, NEW volume, volume = UserVolume(ix.program),
           NEW c, c = InitVolume(b, Sponsor, ix)
    PROVE  /\ Sound(c, A \cup (Accounts(ix) \cap {volume})) /\ b.open \subseteq c.open
           /\ volume \in Accounts(ix) => volume \in c.open
  <1> DEFINE made == Ix("volume", ix.program,
                        << Sponsor, Wallet, volume, SYSTEM, EventAuthority(ix.program),
                           ix.program >>, {Sponsor}, 8)
             B == A \cup (Accounts(ix) \cap {volume})
  <1>1. CASE volume \notin Accounts(ix) \/ volume \in b.open
    <2>1. c = b  BY <1>1 DEF InitVolume
    <2>2. Sound(c, B)
      <3> HIDE DEF Accounts
      <3> QED  BY <2>1, SoundWiden
    <2> QED  BY <1>1, <2>1, <2>2
  <1>2. CASE volume \in Accounts(ix) /\ volume \notin b.open
    <2>1. IsBuilder(b)  BY DEF Sound
    <2>2. c = [b EXCEPT !.open = @ \cup {volume}, !.ixs = Append(@, made)]
      BY <1>2 DEF InitVolume
    <2>3. c = [open |-> b.open \cup {volume}, ixs |-> Append(b.ixs, made), refund |-> b.refund]
      <3> HIDE DEF made
      <3> QED  BY <2>1, <2>2 DEF IsBuilder
    <2>4. made.op = "volume" /\ made.accounts[3] = volume /\ ~Venue(made)  BY DEF Ix, Venue
    <2>5. Opens(made) = {volume} /\ Closes(made) = {}  BY <2>4 DEF Opens, Closes
    <2>6. {volume} \subseteq B /\ A \subseteq B  BY <1>2
    <2> HIDE DEF made, B
    <2>7. Sound(c, B)  BY <2>3, <2>4, <2>5, <2>6, SoundAppend
    <2> QED  BY <2>3, <2>7 DEF B
  <1> QED  BY <1>1, <1>2

\* What pumpswap_setup creates for a swap besides the user's volume: the
\* accounts of its owners, and if it is in the list that of the volume.
Paid(ix) ==
    {Ata(OwnersToFund(ix)[1], ix.accounts[5], ix.accounts[13]),
     Ata(OwnersToFund(ix)[2], ix.accounts[5], ix.accounts[13]),
     Ata(OwnersToFund(ix)[3], ix.accounts[5], ix.accounts[13])}
Back(ix) == Ata(UserVolume(PumpSwap), ix.accounts[5], ix.accounts[13])

\* pumpswap_setup and the swap itself, if its list is one the adapter makes:
\* its owners' accounts are opened, and used by the swap.
LEMMA SoundPumpSwap ==
    ASSUME NEW b, NEW A, Sound(b, A), NEW ix, ix.op = "pumpswap", ix.program = PumpSwap,
           Sponsor \notin ix.signers, Paid(ix) \subseteq Accounts(ix), A \subseteq Accounts(ix),
           Needs(ix) \subseteq b.open \cup Paid(ix) \cup {UserVolume(PumpSwap), Back(ix)},
           NEW c, c = Keep(PumpSwapSetup(b, Sponsor, ix), ix)
    PROVE  Sound(c, {}) /\ b.open \subseteq c.open
  <1> DEFINE mint == ix.accounts[5]
             token == ix.accounts[13]
             owners == OwnersToFund(ix)
             paid == Paid(ix)
             volume == UserVolume(PumpSwap)
             ready == InitVolume(b, Sponsor, ix)
             one == Create(ready, Sponsor, owners[1], mint, token)
             two == Create(one, Sponsor, owners[2], mint, token)
             three == Create(two, Sponsor, owners[3], mint, token)
             back == Ata(volume, mint, token)
             last == IF back \in Accounts(ix) THEN Create(three, Sponsor, volume, mint, token)
                     ELSE three
             all == Accounts(ix)
  <1>1. PumpSwapSetup(b, Sponsor, ix) = last  BY DEF PumpSwapSetup
  <1>0. /\ paid = {Ata(owners[1], mint, token), Ata(owners[2], mint, token),
                   Ata(owners[3], mint, token)}
        /\ back = Back(ix) /\ volume = UserVolume(ix.program)
    BY DEF Paid, Back
  <1> HIDE DEF mint, token, owners, paid
  <1>2. Sound(ready, A \cup (all \cap {volume})) /\ b.open \subseteq ready.open
        /\ (volume \in all => volume \in ready.open)
    BY <1>0, SoundVolume
  <1> HIDE DEF ready, all
  <1>3. Sound(ready, all)
    <2>1. A \cup (all \cap {volume}) \subseteq all  BY DEF all
    <2> QED  BY <1>2, <2>1, SoundWiden
  <1>4. ASSUME NEW d, Sound(d, all), NEW owner, Ata(owner, mint, token) \in all,
               NEW e, e = Create(d, Sponsor, owner, mint, token)
        PROVE  Sound(e, all) /\ Ata(owner, mint, token) \in e.open /\ d.open \subseteq e.open
    <2>1. all \cup {Ata(owner, mint, token)} = all  BY <1>4
    <2>2. Sound(e, all \cup {Ata(owner, mint, token)}) /\ Ata(owner, mint, token) \in e.open
          /\ d.open \subseteq e.open
      BY <1>4, SoundCreate
    <2> QED  BY <2>1, <2>2
  <1>5. Ata(owners[1], mint, token) \in all /\ Ata(owners[2], mint, token) \in all
        /\ Ata(owners[3], mint, token) \in all
    BY <1>0 DEF all, paid
  <1>6. Sound(one, all) /\ Ata(owners[1], mint, token) \in one.open
        /\ ready.open \subseteq one.open
    BY <1>3, <1>4, <1>5
  <1> HIDE DEF one
  <1>7. Sound(two, all) /\ Ata(owners[2], mint, token) \in two.open /\ one.open \subseteq two.open
    BY <1>4, <1>5, <1>6
  <1> HIDE DEF two
  <1>8. Sound(three, all) /\ Ata(owners[3], mint, token) \in three.open
        /\ two.open \subseteq three.open
    BY <1>4, <1>5, <1>7
  <1> HIDE DEF three, back
  <1>9. Sound(last, all) /\ three.open \subseteq last.open
        /\ (back \in all => back \in last.open)
    <2>1. CASE back \in all
      <3>1. last = Create(three, Sponsor, volume, mint, token)  BY <2>1 DEF all
      <3> QED  BY <1>4, <1>8, <2>1, <3>1 DEF back
    <2>2. CASE back \notin all
      <3>1. last = three  BY <2>2 DEF all
      <3> QED  BY <1>8, <2>2, <3>1
    <2> QED  BY <2>1, <2>2
  <1> HIDE DEF last
  <1>10. b.open \cup paid \subseteq last.open
    BY <1>0, <1>2, <1>6, <1>7, <1>8, <1>9
  <1>11. Needs(ix) \subseteq last.open
    <2>1. Needs(ix) \subseteq all  BY DEF Needs, all
    <2>2. volume \in all => volume \in last.open  BY <1>2, <1>6, <1>7, <1>8, <1>9
    <2>3. back \in all => back \in last.open  BY <1>9
    <2>4. Needs(ix) \subseteq b.open \cup paid \cup {volume, back}  BY <1>0 DEF paid
    <2> HIDE DEF Needs
    <2> QED  BY <1>10, <2>1, <2>2, <2>3, <2>4
  <1>12. Opens(ix) = {} /\ Closes(ix) = {}  BY DEF Opens, Closes
  <1>13. c = [open |-> last.open, ixs |-> Append(last.ixs, ix), refund |-> last.refund]
    <2>1. c = Keep(last, ix)  BY <1>1
    <2>2. IsBuilder(last)  BY <1>9 DEF Sound
    <2> QED  BY <2>1, <2>2 DEF Keep, IsBuilder
  <1>14. Sound(c, {})
    <2>1. all \subseteq Accounts(ix)  BY DEF all
    <2> HIDE DEF Needs, Accounts
    <2> QED  BY <1>9, <1>11, <1>12, <1>13, <2>1, SoundAppend
  <1> QED  BY <1>10, <1>13, <1>14

\* A swap the setup knows what to open for, with what is open.
SwapKnown(ix, A, open) ==
    /\ ix.op = "pumpswap" /\ ix.program = PumpSwap /\ Sponsor \notin ix.signers
    /\ Paid(ix) \subseteq Accounts(ix) /\ A \subseteq Accounts(ix)
    /\ Needs(ix) \subseteq open \cup Paid(ix) \cup {UserVolume(PumpSwap), Back(ix)}

SwapSet(b, ix, c) == c = Keep(PumpSwapSetup(b, Sponsor, ix), ix)

LEMMA SoundSwap ==
    ASSUME NEW b, NEW A, Sound(b, A), NEW ix, SwapKnown(ix, A, b.open),
           NEW c, SwapSet(b, ix, c), NEW none, none = {}
    PROVE  Sound(c, none) /\ b.open \subseteq c.open
  <1>1. ix.op = "pumpswap" /\ ix.program = PumpSwap /\ Sponsor \notin ix.signers
    BY DEF SwapKnown
  <1>2. Paid(ix) \subseteq Accounts(ix)  BY DEF SwapKnown
  <1>3. A \subseteq Accounts(ix)  BY DEF SwapKnown
  <1>4. Needs(ix) \subseteq b.open \cup Paid(ix) \cup {UserVolume(PumpSwap), Back(ix)}
    BY DEF SwapKnown
  <1>5. c = Keep(PumpSwapSetup(b, Sponsor, ix), ix)  BY DEF SwapSet
  <1> HIDE DEF Needs, Accounts
  <1>6. Sound(c, {}) /\ b.open \subseteq c.open
    BY <1>1, <1>2, <1>3, <1>4, <1>5, SoundPumpSwap
  <1> QED  BY <1>6

\* pumpfun_setup and the trade itself: the creator's vault is filled.
LEMMA SoundPumpFun ==
    ASSUME NEW b, NEW A, Sound(b, A), NEW ix, ix.op \in {"pumpfun_buy", "pumpfun_sell"},
           Sponsor \notin ix.signers, A \subseteq Accounts(ix),
           NEW vault, vault = ix.accounts[IF ix.op = "pumpfun_sell" THEN 9 ELSE 10],
           Needs(ix) \subseteq b.open \cup {vault, UserVolume(ix.program)},
           NEW c, c = Keep(PumpFunSetup(b, Sponsor, ix), ix)
    PROVE  Sound(c, {}) /\ b.open \subseteq c.open
  <1> DEFINE volume == UserVolume(ix.program)
             all == Accounts(ix)
             ready == InitVolume(b, Sponsor, ix)
             filled == [open |-> ready.open \cup {vault},
                        ixs |-> Append(ready.ixs, Transfer(Sponsor, vault)),
                        refund |-> ready.refund]
             last == IF vault \in ready.open THEN ready ELSE filled
  <1>1. Sound(ready, A \cup (all \cap {volume})) /\ b.open \subseteq ready.open
        /\ (volume \in all => volume \in ready.open)
    BY SoundVolume
  <1> HIDE DEF ready, all, volume
  <1>2. Sound(ready, all)
    <2>1. A \cup (all \cap {volume}) \subseteq all  BY DEF all
    <2> QED  BY <1>1, <2>1, SoundWiden
  <1>3. PumpFunSetup(b, Sponsor, ix) = last
    <2>1. IsBuilder(ready)  BY <1>2 DEF Sound
    <2>2. PumpFunSetup(b, Sponsor, ix) =
            IF vault \in ready.open THEN ready
            ELSE [ready EXCEPT !.open = @ \cup {vault},
                               !.ixs = Append(@, Transfer(Sponsor, vault))]
      BY DEF PumpFunSetup, ready
    <2> DEFINE t == Transfer(Sponsor, vault)
               grown == [ready EXCEPT !.open = @ \cup {vault}, !.ixs = Append(@, t)]
    <2>3. grown = filled
      <3>1. grown = [ready EXCEPT !.open = @ \cup {vault}, !.ixs = Append(@, t)]  OBVIOUS
      <3> HIDE DEF grown, t
      <3>2. grown = [open |-> ready.open \cup {vault}, ixs |-> Append(ready.ixs, t),
                     refund |-> ready.refund]
        BY <2>1, <3>1, BuilderGrows
      <3> QED  BY <3>2 DEF t
    <2> QED  BY <2>2, <2>3
  <1>4. Sound(filled, all)
    <2> DEFINE t == Transfer(Sponsor, vault)
    <2>1. t.op = "transfer" /\ t.accounts[2] = vault /\ ~Venue(t)  BY DEF Transfer, Ix, Venue
    <2>2. Opens(t) = {vault} /\ Closes(t) = {}  BY <2>1 DEF Opens, Closes
    <2> DEFINE made == filled
    <2>3. made = [open |-> ready.open \cup {vault}, ixs |-> Append(ready.ixs, t),
                  refund |-> ready.refund]
      OBVIOUS
    <2> HIDE DEF t, made
    <2>4. Sound(made, all)  BY <1>2, <2>1, <2>2, <2>3, SoundAppend
    <2> QED  BY <2>4 DEF made
  <1>5. Sound(last, all) /\ b.open \cup {vault} \subseteq last.open
        /\ (volume \in all => volume \in last.open)
    <2>1. filled.open = ready.open \cup {vault}  OBVIOUS
    <2> HIDE DEF filled
    <2> QED  BY <1>1, <1>2, <1>4, <2>1
  <1> HIDE DEF last, filled
  <1>6. Needs(ix) \subseteq last.open
    <2>1. Needs(ix) \subseteq all  BY DEF Needs, all
    <2>2. Needs(ix) \subseteq b.open \cup {vault, volume}  BY DEF volume
    <2> HIDE DEF Needs
    <2> QED  BY <1>5, <2>1, <2>2
  <1>7. Opens(ix) = {} /\ Closes(ix) = {}  BY DEF Opens, Closes
  <1>8. c = [open |-> last.open, ixs |-> Append(last.ixs, ix), refund |-> last.refund]
    <2>1. c = Keep(last, ix)  BY <1>3
    <2>2. IsBuilder(last)  BY <1>5 DEF Sound
    <2> QED  BY <2>1, <2>2 DEF Keep, IsBuilder
  <1>9. Sound(c, {})
    <2>1. all \subseteq Accounts(ix)  BY DEF all
    <2> HIDE DEF Needs, Accounts
    <2> QED  BY <1>5, <1>6, <1>7, <1>8, <2>1, SoundAppend
  <1> QED  BY <1>5, <1>8, <1>9

\* The refund after a close opens nothing that is relied on.
LEMMA SoundRefund ==
    ASSUME NEW b, Sound(b, {}), NEW t, t = Transfer(Wallet, Sponsor), NEW refund,
           NEW c, c = [open |-> b.open, ixs |-> Append(b.ixs, t), refund |-> refund]
    PROVE  Sound(c, {})
  <1>1. t.op = "transfer" /\ t.signers = {Wallet} /\ ~Venue(t)  BY DEF Transfer, Ix, Venue
  <1>2. Closes(t) = {} /\ Sponsor \notin t.signers  BY <1>1, Signing DEF Closes
  <1>3. b.open \subseteq (b.open \cup Opens(t)) \ Closes(t)  BY <1>2
  <1> QED  BY <1>1, <1>2, <1>3, SoundAppend

\* The close of the WSOL account, and the refund that follows a deposit.
LEMMA SoundClose ==
    ASSUME NEW b, Sound(b, {}), NEW ix, ix.op = "close", Sponsor \notin ix.signers,
           NEW c, c = CloseWsol(b, Sponsor, ix)
    PROVE  Sound(c, {})
  <1> DEFINE open == b.open \ {ix.accounts[1]}
             closed == [open |-> open, ixs |-> Append(b.ixs, ix), refund |-> FALSE]
             t == Transfer(Wallet, Sponsor)
  <1>1. IsBuilder(b) /\ IsList(b.ixs)  BY DEF Sound
  <1>2. ~Venue(ix) /\ Opens(ix) = {} /\ Closes(ix) = {ix.accounts[1]}
    BY DEF Venue, Opens, Closes
  <1>3. Sound(closed, {})
    <2> DEFINE made == closed
    <2>1. made = [open |-> open, ixs |-> Append(b.ixs, ix), refund |-> FALSE]  OBVIOUS
    <2>2. open \subseteq (b.open \cup Opens(ix)) \ Closes(ix)  BY <1>2
    <2> HIDE DEF made, open
    <2>3. Sound(made, {})  BY <1>2, <2>1, <2>2, SoundAppend
    <2> QED  BY <2>3 DEF made
  <1>4. c = [b EXCEPT !.open = open,
                      !.ixs = @ \o << ix >> \o IF b.refund THEN << t >> ELSE << >>,
                      !.refund = FALSE]
    BY DEF CloseWsol
  <1> DEFINE tail == IF b.refund THEN << t >> ELSE << >>
  <1>5. c = [open |-> open, ixs |-> b.ixs \o << ix >> \o tail, refund |-> FALSE]
    <2> HIDE DEF open, t
    <2> QED  BY <1>1, <1>4 DEF IsBuilder
  <1>6. PICK T : b.ixs \in Seq(T)  BY <1>1 DEF IsList
  <1>7. b.ixs \o << ix >> = Append(b.ixs, ix)
    BY <1>6
  <1>8. CASE ~b.refund
    <2>1. Append(b.ixs, ix) \o << >> = Append(b.ixs, ix)
      <3>1. Append(b.ixs, ix) \in Seq(T \cup {ix})  BY <1>6
      <3> QED  BY <3>1
    <2>2. b.ixs \o << ix >> \o tail = Append(b.ixs, ix)  BY <1>7, <1>8, <2>1
    <2>3. c = closed
      <3> HIDE DEF open, tail
      <3> QED  BY <1>5, <2>2
    <2> QED  BY <1>3, <2>3
  <1>9. CASE b.refund
    <2>1. Append(b.ixs, ix) \o << t >> = Append(Append(b.ixs, ix), t)
      <3>1. Append(b.ixs, ix) \in Seq(T \cup {ix})  BY <1>6
      <3> HIDE DEF t
      <3> QED  BY <3>1
    <2>2. tail = << t >>  BY <1>9
    <2>3. b.ixs \o << ix >> \o tail = Append(closed.ixs, t)
      <3> HIDE DEF t, tail
      <3> QED  BY <1>7, <2>1, <2>2
    <2>4. c = [open |-> closed.open, ixs |-> Append(closed.ixs, t), refund |-> FALSE]
      <3>1. closed.open = open  OBVIOUS
      <3> HIDE DEF open, t, tail, closed
      <3> QED  BY <1>5, <2>3, <3>1
    <2> HIDE DEF closed
    <2> QED  BY <1>3, <2>4, SoundRefund
  <1> QED  BY <1>8, <1>9

\* A transfer or a sync of the route is kept as it is.
LEMMA SoundKeep ==
    ASSUME NEW b, NEW A, Sound(b, A), NEW ix, ix.op \in {"transfer", "sync"},
           Sponsor \notin ix.signers, NEW c, c = Keep(b, ix)
    PROVE  Sound(c, A) /\ c.open = b.open
  <1>1. IsBuilder(b)  BY DEF Sound
  <1>2. c = [open |-> b.open, ixs |-> Append(b.ixs, ix), refund |-> b.refund]
    BY <1>1 DEF Keep, IsBuilder
  <1>3. ~Venue(ix) /\ Closes(ix) = {}  BY DEF Venue, Closes
  <1>4. b.open \subseteq (b.open \cup Opens(ix)) \ Closes(ix)  BY <1>3
  <1>5. Sound(c, A)
    <2> HIDE DEF Opens, Closes
    <2> QED  BY <1>2, <1>3, <1>4, SoundAppend
  <1> QED  BY <1>2, <1>5

-----------------------------------------------------------------------------
(* The positions of a swap's accounts. *)

LEMMA VenueKinds ==
    ASSUME NEW program \in {PumpFun, PumpSwap}
    PROVE  /\ VenueAddresses(program) \subseteq Pubkeys \cup Derived
           /\ UserVolume(program) \in Derived
           /\ \A a \in VenueAddresses(program) \cup {UserVolume(program)} :
                a \in Derived => a.seed # "creator_vault"
  <1>1. program \in Pubkeys /\ FEE_PROGRAM \in Pubkeys /\ NoKey \in Pubkeys /\ Wallet \in Pubkeys
    BY KeyNames
  <1>2. {"global", "event_authority", "global_volume", "fee_config", "user_volume"} \subseteq Seeds
    BY DEF Seeds
  <1>3. /\ Global(program) \in Derived /\ Global(program).seed = "global"
        /\ EventAuthority(program) \in Derived /\ EventAuthority(program).seed = "event_authority"
    <2>1. Global(program).seed = "global" /\ EventAuthority(program).seed = "event_authority"
      BY DEF Global, EventAuthority, Pda
    <2> QED  BY <1>1, <1>2, <2>1, PdaAddress DEF Global, EventAuthority
  <1>4. /\ GlobalVolume(program) \in Derived /\ GlobalVolume(program).seed = "global_volume"
        /\ FeeConfig(program) \in Derived /\ FeeConfig(program).seed = "fee_config"
    <2>1. GlobalVolume(program).seed = "global_volume" /\ FeeConfig(program).seed = "fee_config"
      BY DEF GlobalVolume, FeeConfig, Pda
    <2> QED  BY <1>1, <1>2, <2>1, PdaAddress DEF GlobalVolume, FeeConfig
  <1>5. UserVolume(program) \in Derived /\ UserVolume(program).seed = "user_volume"
    <2>1. UserVolume(program).seed = "user_volume"  BY DEF UserVolume, Pda
    <2> QED  BY <1>1, <1>2, <2>1, PdaAddress DEF UserVolume
  <1>6. program \notin Derived /\ FEE_PROGRAM \notin Derived  BY <1>1, AddressKinds
  <1>7. VenueAddresses(program) = {program, FEE_PROGRAM, Global(program), EventAuthority(program),
                                   GlobalVolume(program), FeeConfig(program)}
    BY DEF VenueAddresses
  <1> QED  BY <1>1, <1>3, <1>4, <1>5, <1>6, <1>7

\* The token accounts and the user's volume are all a PumpSwap swap needs.
LEMMA PoolNeeds ==
    ASSUME NEW ix, ix.op = "pumpswap", ix.program = PumpSwap, NEW tokens,
           Accounts(ix) \subseteq Pubkeys \cup Derived \cup tokens
    PROVE  Needs(ix) \subseteq tokens \cup {UserVolume(PumpSwap)}
  <1>1. PumpSwap # PumpFun  BY DEF PumpSwap, PumpFun, Key
  <1>2. \A a \in Pubkeys \cup Derived : "owner" \notin DOMAIN a  BY DEF Pubkeys, Derived
  <1> SUFFICES ASSUME NEW a \in Needs(ix) PROVE a \in tokens \cup {UserVolume(PumpSwap)}
    OBVIOUS
  <1>3. a \in Accounts(ix) /\ ("owner" \in DOMAIN a \/ a = UserVolume(PumpSwap))
    BY <1>1 DEF Needs
  <1> HIDE DEF Accounts
  <1> QED  BY <1>2, <1>3

\* A swap's list by its ends.
LEMMA SwapParts ==
    ASSUME NEW C, CommonIn(C), NEW pool \in Pools, NEW fees, PoolIn(C, pool, fees), NEW side
    PROVE  /\ NamedAccounts(pool, fees) \in Seq(C)
           /\ \E rest \in Seq(C) :
                /\ Len(rest) >= 2
                /\ SwapAccounts(side, pool, fees) =
                     NamedAccounts(pool, fees) \o rest
                     \o << fees.buyback, Ata(fees.buyback, pool.quote, TOKEN) >>
  <1> DEFINE named == NamedAccounts(pool, fees)
             volumes == IF side = "Buy" THEN << GlobalVolume(PumpSwap), UserVolume(PumpSwap) >>
                        ELSE << >>
             config == << FeeConfig(PumpSwap), FEE_PROGRAM >>
             owned == << Ata(UserVolume(PumpSwap), pool.quote, TOKEN) >>
             own == IF side = "Sell" THEN << UserVolume(PumpSwap) >> ELSE << >>
             back == IF pool.cashback THEN owned \o own ELSE << >>
             second == IF pool.creator # SYSTEM THEN << Second(PumpSwap, pool.mint) >> ELSE << >>
             buyback == << fees.buyback, Ata(fees.buyback, pool.quote, TOKEN) >>
  <1>1. volumes \in Seq(C)  BY DEF CommonIn, VenueAddresses
  <1>2. config \in Seq(C) /\ Len(config) = 2  BY DEF CommonIn, VenueAddresses
  <1>3. owned \in Seq(C)  BY DEF PoolIn
  <1>4. own \in Seq(C)  BY DEF CommonIn
  <1>5. second \in Seq(C)  BY DEF PoolIn
  <1>6. buyback \in Seq(C)  BY DEF PoolIn
  <1>7. back \in Seq(C)
    <2> HIDE DEF owned, own
    <2> QED  BY <1>3, <1>4
  <1>8. named \in Seq(C)  BY NamedOver
  <1>9. SwapAccounts(side, pool, fees) = named \o volumes \o config \o (back \o second \o buyback)
    BY DEF SwapAccounts, RemainingAccounts
  <1> HIDE DEF named, volumes, config, back, second, buyback
  <1> DEFINE rest == volumes \o config \o back \o second
  <1>10. rest \in Seq(C) /\ Len(rest) >= 2
    <2> DEFINE three == volumes \o config \o back
    <2>1. volumes \o config \in Seq(C) /\ Len(volumes \o config) = Len(volumes) + Len(config)
      BY <1>1, <1>2, ConcatProperties
    <2>2. three \in Seq(C) /\ Len(three) = Len(volumes \o config) + Len(back)
      BY <1>7, <2>1, ConcatProperties
    <2>3. rest = three \o second  OBVIOUS
    <2> HIDE DEF three, rest
    <2>4. rest \in Seq(C) /\ Len(rest) = Len(three) + Len(second)
      BY <1>5, <2>2, <2>3, ConcatProperties
    <2>5. Len(volumes) \in Nat /\ Len(back) \in Nat /\ Len(second) \in Nat
      BY <1>1, <1>5, <1>7
    <2> QED  BY <1>2, <2>1, <2>2, <2>4, <2>5
  <1>11. named \o volumes \o config \o (back \o second \o buyback) = named \o rest \o buyback
    <2>1. named \o volumes \o config = named \o (volumes \o config)
      BY <1>1, <1>2, <1>8, ConcatAssociative
    <2> DEFINE front == volumes \o config
    <2>2. front \in Seq(C)  BY <1>1, <1>2
    <2>3. back \o second \in Seq(C)  BY <1>5, <1>7
    <2> HIDE DEF front
    <2> DEFINE far == named \o front
               mid == back \o second
    <2>4. far \in Seq(C)  BY <1>8, <2>2
    <2>5. mid \in Seq(C)  BY <2>3
    <2>6. (named \o front) \o ((back \o second) \o buyback)
            = ((named \o front) \o (back \o second)) \o buyback
      <3> HIDE DEF far, mid
      <3>1. far \o (mid \o buyback) = (far \o mid) \o buyback
        BY <1>6, <2>4, <2>5, ConcatAssociative
      <3> QED  BY <3>1 DEF far, mid
    <2>7. (named \o front) \o (back \o second) = named \o (front \o (back \o second))
      <3> HIDE DEF mid
      <3>1. (named \o front) \o mid = named \o (front \o mid)
        BY <1>8, <2>2, <2>5, ConcatAssociative
      <3> QED  BY <3>1 DEF mid
    <2>8. front \o (back \o second) = front \o back \o second
      BY <1>5, <1>7, <2>2, ConcatAssociative
    <2>9. rest = front \o back \o second  BY DEF front
    <2> QED  BY <2>1, <2>6, <2>7, <2>8, <2>9 DEF front
  <1>12. SwapAccounts(side, pool, fees) = named \o rest \o buyback  BY <1>9, <1>11
  <1> HIDE DEF rest
  <1> QED  BY <1>8, <1>10, <1>12 DEF named, buyback

\* What the adapters read: recipients are keys.
FeeKeys(fees) == fees.standard \in Pubkeys /\ fees.mayhem \in Pubkeys /\ fees.buyback \in Pubkeys

\* Whatever the side and the pool, the accounts the setup reads are where it
\* reads them, and the list holds just these token accounts.
LEMMA SwapList ==
    ASSUME NEW pool \in Pools, NEW fees, FeeKeys(fees), NEW side,
           NEW l, l = SwapAccounts(side, pool, fees),
           NEW recipient, recipient = Recipient(fees, pool.mayhem),
           NEW vault, vault = CreatorVault(PumpSwap, pool.creator)
    PROVE  /\ Len(l) \in Nat /\ Len(l) >= 23
           /\ l[1] = pool.address /\ l[2] = Wallet /\ l[5] = pool.quote /\ l[10] = recipient
           /\ l[13] = TOKEN /\ l[19] = vault /\ l[Len(l) - 1] = fees.buyback
           /\ {Ata(Wallet, pool.mint, pool.token), Ata(Wallet, pool.quote, TOKEN),
               Ata(recipient, pool.quote, TOKEN), Ata(vault, pool.quote, TOKEN),
               Ata(fees.buyback, pool.quote, TOKEN)} \subseteq ToSet(l)
           /\ ToSet(l) \subseteq Pubkeys \cup Derived \cup
                 {Ata(Wallet, pool.mint, pool.token), Ata(Wallet, pool.quote, TOKEN),
                  Ata(recipient, pool.quote, TOKEN), Ata(vault, pool.quote, TOKEN),
                  Ata(fees.buyback, pool.quote, TOKEN),
                  Ata(UserVolume(PumpSwap), pool.quote, TOKEN)}
  <1> DEFINE tokens == {Ata(Wallet, pool.mint, pool.token), Ata(Wallet, pool.quote, TOKEN),
                        Ata(recipient, pool.quote, TOKEN), Ata(vault, pool.quote, TOKEN),
                        Ata(fees.buyback, pool.quote, TOKEN),
                        Ata(UserVolume(PumpSwap), pool.quote, TOKEN)}
             C == Pubkeys \cup Derived \cup tokens
             paying == [standard |-> recipient, mayhem |-> recipient, buyback |-> fees.buyback]
  <1>1. CommonIn(C)
    <2>1. VenueAddresses(PumpFun) \subseteq C /\ VenueAddresses(PumpSwap) \subseteq C
      BY VenueKinds
    <2>2. UserVolume(PumpFun) \in C /\ UserVolume(PumpSwap) \in C
      BY VenueKinds
    <2> HIDE DEF tokens
    <2>3. {SYSTEM, TOKEN, TOKEN_2022, ATA, WSOL, USDC, Wallet} \subseteq C  BY KeyNames
    <2> HIDE DEF C
    <2> QED  BY <2>1, <2>2, <2>3 DEF CommonIn
  <1>2. recipient \in Pubkeys /\ fees.buyback \in Pubkeys  BY DEF FeeKeys, Recipient
  <1>3. /\ pool.address \in Pubkeys /\ pool.mint \in Pubkeys /\ pool.creator \in Pubkeys
        /\ pool.base_vault \in Pubkeys /\ pool.quote_vault \in Pubkeys
    BY DEF Pools
  <1>4. vault \in Derived /\ Second(PumpSwap, pool.mint) \in Derived
    <2>1. PumpSwap \in Pubkeys /\ "creator_vault" \in Seeds /\ "v2" \in Seeds
      BY KeyNames DEF Seeds
    <2> QED  BY <1>3, <2>1, PdaAddress DEF CreatorVault, Second
  <1>5. PoolIn(C, pool, paying)
    <2>1. {paying.standard, paying.mayhem, paying.buyback} = {recipient, fees.buyback}
      OBVIOUS
    <2>2. /\ Ata(recipient, pool.quote, TOKEN) \in C /\ Ata(fees.buyback, pool.quote, TOKEN) \in C
          /\ Ata(vault, pool.quote, TOKEN) \in C /\ Ata(UserVolume(PumpSwap), pool.quote, TOKEN) \in C
          /\ Ata(Wallet, pool.mint, pool.token) \in C /\ Ata(Wallet, pool.quote, TOKEN) \in C
      OBVIOUS
    <2> HIDE DEF tokens
    <2>3. {recipient, fees.buyback} \subseteq C
          /\ {pool.address, pool.mint, pool.base_vault, pool.quote_vault} \subseteq C
          /\ vault \in C /\ Second(PumpSwap, pool.mint) \in C
      BY <1>2, <1>3, <1>4
    <2> HIDE DEF C, paying
    <2> QED  BY <2>1, <2>2, <2>3 DEF PoolIn
  <1>6. /\ SwapAccounts(side, pool, paying) = l
        /\ NamedAccounts(pool, paying) = NamedAccounts(pool, fees)
    <2>1. Recipient(paying, pool.mayhem) = Recipient(fees, pool.mayhem)
          /\ paying.buyback = fees.buyback
      BY DEF Recipient
    <2> HIDE DEF paying
    <2>2. NamedAccounts(pool, paying) = NamedAccounts(pool, fees)  BY <2>1 DEF NamedAccounts
    <2>3. RemainingAccounts(side, pool, paying) = RemainingAccounts(side, pool, fees)
      BY <2>1 DEF RemainingAccounts
    <2> QED  BY <2>2, <2>3 DEF SwapAccounts
  <1> DEFINE named == NamedAccounts(pool, fees)
             paid == Ata(fees.buyback, pool.quote, TOKEN)
             buyback == << fees.buyback, paid >>
  <1>7. /\ Len(named) = 19 /\ named[1] = pool.address /\ named[2] = Wallet
        /\ named[5] = pool.quote /\ named[10] = recipient /\ named[13] = TOKEN /\ named[19] = vault
        /\ named[6] = Ata(Wallet, pool.mint, pool.token)
        /\ named[7] = Ata(Wallet, pool.quote, TOKEN)
        /\ named[11] = Ata(recipient, pool.quote, TOKEN)
        /\ named[18] = Ata(vault, pool.quote, TOKEN)
    BY DEF NamedAccounts
  <1>8. l \in Seq(C) /\ named \in Seq(C)
        /\ \E rest \in Seq(C) : Len(rest) >= 2 /\ l = named \o rest \o buyback
    <2>1. paying.buyback = fees.buyback  OBVIOUS
    <2> HIDE DEF paying, C
    <2>2. SwapAccounts(side, pool, paying) \in Seq(C)  BY <1>1, <1>5, SwapAccountsOver
    <2>3. /\ NamedAccounts(pool, paying) \in Seq(C)
          /\ \E rest \in Seq(C) :
               /\ Len(rest) >= 2
               /\ SwapAccounts(side, pool, paying) =
                    NamedAccounts(pool, paying) \o rest
                    \o << paying.buyback, Ata(paying.buyback, pool.quote, TOKEN) >>
      BY <1>1, <1>5, SwapParts
    <2> QED  BY <1>6, <2>1, <2>2, <2>3
  <1>9. ToSet(l) \subseteq C
    <2> HIDE DEF C
    <2> QED  BY <1>8 DEF ToSet
  <1>10. PICK rest \in Seq(C) : Len(rest) >= 2 /\ l = named \o rest \o buyback  BY <1>8
  <1>11. paid \in C /\ fees.buyback \in C  BY <1>2
  <1> HIDE DEF named, paid, C
  <1>12. /\ Len(l) \in Nat /\ Len(l) = 19 + Len(rest) + 2
         /\ \A i \in 1..19 : l[i] = named[i]
         /\ l[Len(l) - 1] = fees.buyback /\ l[Len(l)] = paid
    <2>1. buyback \in Seq(C) /\ Len(buyback) = 2 /\ buyback[1] = fees.buyback /\ buyback[2] = paid
      BY <1>11
    <2> DEFINE front == named \o rest
    <2>2. Len(rest) \in Nat /\ l = front \o buyback  BY <1>10
    <2>3. /\ front \in Seq(C) /\ Len(front) = 19 + Len(rest)
          /\ \A i \in 1..19 + Len(rest) : front[i] = IF i <= 19 THEN named[i] ELSE rest[i - 19]
      <3>1. /\ named \o rest \in Seq(C) /\ Len(named \o rest) = Len(named) + Len(rest)
            /\ \A i \in 1..Len(named) + Len(rest) : (named \o rest)[i] =
                  IF i <= Len(named) THEN named[i] ELSE rest[i - Len(named)]
        BY <1>8, ConcatProperties
      <3> QED  BY <1>7, <3>1
    <2> HIDE DEF front, buyback
    <2>4. /\ Len(l) = Len(front) + 2
          /\ \A i \in 1..Len(front) + 2 :
                l[i] = IF i <= Len(front) THEN front[i] ELSE buyback[i - Len(front)]
      <3>1. /\ Len(front \o buyback) = Len(front) + Len(buyback)
            /\ \A i \in 1..Len(front) + Len(buyback) : (front \o buyback)[i] =
                  IF i <= Len(front) THEN front[i] ELSE buyback[i - Len(front)]
        BY <2>1, <2>3, ConcatProperties
      <3> QED  BY <2>1, <2>2, <3>1
    <2>5. /\ Len(front) \in Nat /\ Len(front) >= 19
          /\ Len(l) - 1 = Len(front) + 1 /\ Len(l) = Len(front) + 2
      BY <2>2, <2>3, <2>4
    <2>6. l[Len(front) + 1] = buyback[1]
      <3>1. Len(front) + 1 \in 1..Len(front) + 2 /\ ~(Len(front) + 1 <= Len(front))
            /\ (Len(front) + 1) - Len(front) = 1
        BY <2>5
      <3> QED  BY <2>4, <3>1
    <2>7. l[Len(front) + 2] = buyback[2]
      <3>1. Len(front) + 2 \in 1..Len(front) + 2 /\ ~(Len(front) + 2 <= Len(front))
            /\ (Len(front) + 2) - Len(front) = 2
        BY <2>5
      <3> QED  BY <2>4, <3>1
    <2>8. ASSUME NEW i \in 1..19 PROVE l[i] = named[i]
      <3>1. i \in 1..Len(front) + 2 /\ i <= Len(front) /\ i \in 1..19 + Len(rest) /\ i <= 19
        BY <2>2, <2>5
      <3> QED  BY <2>3, <2>4, <3>1
    <2>9. Len(l) \in Nat /\ Len(l) = 19 + Len(rest) + 2  BY <2>2, <2>3, <2>5
    <2> QED  BY <2>1, <2>5, <2>6, <2>7, <2>8, <2>9
  <1>13. Len(l) >= 23  BY <1>10, <1>12
  <1>14. /\ l[1] = pool.address /\ l[2] = Wallet /\ l[5] = pool.quote /\ l[10] = recipient
         /\ l[13] = TOKEN /\ l[19] = vault
    BY <1>7, <1>12
  <1>15. {l[6], l[7], l[11], l[18], l[Len(l)]} \subseteq ToSet(l)
    <2>1. DOMAIN l = 1..Len(l)  BY <1>8
    <2>2. {6, 7, 11, 18, Len(l)} \subseteq 1..Len(l)  BY <1>12, <1>13
    <2> QED  BY <2>1, <2>2 DEF ToSet
  <1>16. {Ata(Wallet, pool.mint, pool.token), Ata(Wallet, pool.quote, TOKEN),
          Ata(recipient, pool.quote, TOKEN), Ata(vault, pool.quote, TOKEN), paid} \subseteq ToSet(l)
    BY <1>7, <1>12, <1>15
  <1> QED  BY <1>9, <1>12, <1>13, <1>14, <1>16 DEF C, paid

-----------------------------------------------------------------------------
(* The legs of a sponsored route, as lists of steps of the builder. *)

AppendedBy(b, ix, c) == c = AppendIx(Sponsor, b, ix)

\* The builder's program is as it should be but for A, and P is open.
Ready(b, A, P) == Sound(b, A) /\ P \subseteq b.open

\* From such a builder to such another, by an instruction the setup knows.
Moves(ix, A, P, B, Q) ==
    \A b, c : AppendedBy(b, ix, c) /\ Ready(b, A, P) => Recognised(ix) /\ Ready(c, B, Q)

\* The builder goes from f[p] through leg.
Runs(f, p, leg) == \A i \in 1..Len(leg) : AppendedBy(f[p + i - 1], leg[i], f[p + i])

Carries(leg, A, P, B, Q) ==
    \A f : \A p \in Nat :
        Runs(f, p, leg) /\ Ready(f[p], A, P)
          => /\ Ready(f[p + Len(leg)], B, Q)
             /\ \A i \in 1..Len(leg) : Recognised(leg[i])

LEMMA NoneCarries ==
    ASSUME NEW A, NEW P, NEW leg, Len(leg) = 0
    PROVE  Carries(leg, A, P, A, P)
  <1>1. \A p \in Nat : p + 0 = p  OBVIOUS
  <1>2. 1..0 = {}  OBVIOUS
  <1> QED  BY <1>1, <1>2 DEF Carries

LEMMA OneCarries ==
    ASSUME NEW A, NEW P, NEW B, NEW Q, NEW x, Moves(x, A, P, B, Q),
           NEW leg, Len(leg) = 1, leg[1] = x
    PROVE  Carries(leg, A, P, B, Q)
  <1> SUFFICES ASSUME NEW f, NEW p \in Nat, Runs(f, p, leg), Ready(f[p], A, P)
               PROVE  Ready(f[p + 1], B, Q) /\ \A i \in 1..1 : Recognised(leg[i])
    BY DEF Carries
  <1>1. 1 \in 1..Len(leg) /\ p + 1 - 1 = p  OBVIOUS
  <1>2. AppendedBy(f[p], x, f[p + 1])  BY <1>1 DEF Runs
  <1>3. Recognised(x) /\ Ready(f[p + 1], B, Q)  BY <1>2 DEF Moves
  <1>4. \A i \in 1..1 : i = 1  OBVIOUS
  <1> QED  BY <1>3, <1>4

LEMMA TwoCarry ==
    ASSUME NEW A, NEW P, NEW B, NEW Q, NEW C, NEW W,
           NEW x, Moves(x, A, P, B, Q), NEW y, Moves(y, B, Q, C, W),
           NEW leg, Len(leg) = 2, leg[1] = x, leg[2] = y
    PROVE  Carries(leg, A, P, C, W)
  <1> SUFFICES ASSUME NEW f, NEW p \in Nat, Runs(f, p, leg), Ready(f[p], A, P)
               PROVE  Ready(f[p + 2], C, W) /\ \A i \in 1..2 : Recognised(leg[i])
    BY DEF Carries
  <1>1. 1 \in 1..Len(leg) /\ p + 1 - 1 = p  OBVIOUS
  <1>2. 2 \in 1..Len(leg) /\ p + 2 - 1 = p + 1  OBVIOUS
  <1>3. AppendedBy(f[p], x, f[p + 1])  BY <1>1 DEF Runs
  <1>4. AppendedBy(f[p + 1], y, f[p + 2])  BY <1>2 DEF Runs
  <1>5. Recognised(x) /\ Ready(f[p + 1], B, Q)  BY <1>3 DEF Moves
  <1>6. Recognised(y) /\ Ready(f[p + 2], C, W)  BY <1>4, <1>5 DEF Moves
  <1>7. \A i \in 1..2 : i = 1 \/ i = 2  OBVIOUS
  <1> QED  BY <1>5, <1>6, <1>7

LEMMA BothCarry ==
    ASSUME NEW T, NEW first \in Seq(T), NEW second \in Seq(T),
           NEW A, NEW P, NEW B, NEW Q, NEW C, NEW W,
           Carries(first, A, P, B, Q), Carries(second, B, Q, C, W),
           NEW both, both = first \o second
    PROVE  Carries(both, A, P, C, W)
  <1> DEFINE n == Len(first)
             m == Len(second)
  <1>1. n \in Nat /\ m \in Nat  OBVIOUS
  <1>2. /\ Len(both) = n + m
        /\ \A i \in 1..n + m : both[i] = IF i <= n THEN first[i] ELSE second[i - n]
    <2>1. /\ Len(first \o second) = Len(first) + Len(second)
          /\ \A i \in 1..Len(first) + Len(second) : (first \o second)[i] =
                IF i <= Len(first) THEN first[i] ELSE second[i - Len(first)]
      BY ConcatProperties
    <2> QED  BY <2>1
  <1>3. \A i \in 1..n : both[i] = first[i]
    <2> SUFFICES ASSUME NEW i \in 1..n PROVE both[i] = first[i]  OBVIOUS
    <2>1. i \in 1..n + m /\ i <= n  BY <1>1
    <2> HIDE DEF n, m
    <2> QED  BY <1>2, <2>1
  <1>4. \A i \in 1..m : both[n + i] = second[i]
    <2> SUFFICES ASSUME NEW i \in 1..m PROVE both[n + i] = second[i]  OBVIOUS
    <2>1. n + i \in 1..n + m /\ ~(n + i <= n) /\ (n + i) - n = i  BY <1>1
    <2> HIDE DEF n, m
    <2> QED  BY <1>2, <2>1
  <1> SUFFICES ASSUME NEW f, NEW p \in Nat, Runs(f, p, both), Ready(f[p], A, P)
               PROVE  /\ Ready(f[p + Len(both)], C, W)
                      /\ \A i \in 1..Len(both) : Recognised(both[i])
    BY DEF Carries
  <1>5. \A i \in 1..n + m : AppendedBy(f[p + i - 1], both[i], f[p + i])
    BY <1>2 DEF Runs
  <1>6. Runs(f, p, first)
    <2> SUFFICES ASSUME NEW i \in 1..n PROVE AppendedBy(f[p + i - 1], first[i], f[p + i])
      BY DEF Runs
    <2>1. i \in 1..n + m /\ both[i] = first[i]  BY <1>1, <1>3
    <2> QED  BY <1>5, <2>1
  <1>7. Ready(f[p + n], B, Q) /\ \A i \in 1..n : Recognised(first[i])
    BY <1>6 DEF Carries
  <1>8. Runs(f, p + n, second)
    <2> SUFFICES ASSUME NEW i \in 1..m
                 PROVE  AppendedBy(f[p + n + i - 1], second[i], f[p + n + i])
      BY DEF Runs
    <2>1. n + i \in 1..n + m /\ p + (n + i) = p + n + i /\ p + (n + i) - 1 = p + n + i - 1
          /\ both[n + i] = second[i]
      BY <1>1, <1>4
    <2>2. AppendedBy(f[p + (n + i) - 1], both[n + i], f[p + (n + i)])  BY <1>5, <2>1
    <2> QED  BY <2>1, <2>2
  <1>9. p + n \in Nat /\ p + n + m = p + Len(both)  BY <1>1, <1>2
  <1>10. Ready(f[p + n + m], C, W) /\ \A i \in 1..m : Recognised(second[i])
    BY <1>7, <1>8, <1>9 DEF Carries
  <1>11. ASSUME NEW i \in 1..Len(both) PROVE Recognised(both[i])
    <2>1. i \in 1..n + m  BY <1>2
    <2>2. CASE i \in 1..n  BY <1>3, <1>7, <2>2
    <2>3. CASE i \notin 1..n
      <3>1. i - n \in 1..m /\ n + (i - n) = i  BY <1>1, <2>1, <2>3
      <3>2. both[i] = second[i - n]  BY <1>4, <3>1
      <3> QED  BY <1>10, <3>1, <3>2
    <2> QED  BY <2>2, <2>3
  <1> QED  BY <1>9, <1>10, <1>11

\* The user's own account of a mint is created at the sponsor's expense.
LEMMA AtaMoves ==
    ASSUME NEW mint, NEW token, NEW ix, ix = CreateAta(Wallet, Wallet, mint, token),
           NEW a, a = Ata(Wallet, mint, token), NEW A, NEW P,
           NEW B, B = A \cup {a}, NEW Q, Q = P \cup {a}
    PROVE  Moves(ix, A, P, B, Q)
  <1> SUFFICES ASSUME NEW b, NEW c, AppendedBy(b, ix, c), Ready(b, A, P)
               PROVE  Recognised(ix) /\ Ready(c, B, Q)
    BY DEF Moves
  <1>1. /\ ix.op = "ata" /\ Len(ix.accounts) = 6
        /\ ix.accounts[3] = Wallet /\ ix.accounts[4] = mint /\ ix.accounts[6] = token
    BY DEF CreateAta, Ix
  <1>2. Recognised(ix)  BY <1>1 DEF Recognised
  <1>3. c = Create(b, Sponsor, Wallet, mint, token)  BY <1>1 DEF AppendedBy, AppendIx
  <1>4. Sound(b, A) /\ P \subseteq b.open  BY DEF Ready
  <1>5. Sound(c, A \cup {a}) /\ a \in c.open /\ b.open \subseteq c.open
    BY <1>3, <1>4, SoundCreate
  <1> QED  BY <1>2, <1>4, <1>5 DEF Ready

LEMMA KeepMoves ==
    ASSUME NEW ix, ix.op \in {"transfer", "sync"}, ix.signers \subseteq {Wallet},
           NEW A, NEW P
    PROVE  Moves(ix, A, P, A, P)
  <1> SUFFICES ASSUME NEW b, NEW c, AppendedBy(b, ix, c), Ready(b, A, P)
               PROVE  Recognised(ix) /\ Ready(c, A, P)
    BY DEF Moves
  <1>1. Recognised(ix)  BY DEF Recognised
  <1>2. c = Keep(b, ix)  BY DEF AppendedBy, AppendIx
  <1>3. Sponsor \notin ix.signers  BY Signing
  <1>4. Sound(b, A) /\ P \subseteq b.open  BY DEF Ready
  <1>5. Sound(c, A) /\ c.open = b.open  BY <1>2, <1>3, <1>4, SoundKeep
  <1> QED  BY <1>1, <1>4, <1>5 DEF Ready

LEMMA CloseMoves ==
    ASSUME NEW pool, pool.quote = WSOL,
           NEW ix, ix = Ix("close", TOKEN, << UserQuote(pool), Wallet, Wallet >>, {Wallet}, 1)
    PROVE  Moves(ix, {}, {}, {}, {})
  <1> SUFFICES ASSUME NEW b, NEW c, AppendedBy(b, ix, c), Ready(b, {}, {})
               PROVE  Recognised(ix) /\ Ready(c, {}, {})
    BY DEF Moves
  <1>1. /\ ix.op = "close" /\ ix.signers = {Wallet} /\ Len(ix.accounts) = 3
        /\ ix.accounts[1] = UserQuote(pool) /\ ix.accounts[2] = Wallet /\ ix.accounts[3] = Wallet
    BY DEF Ix
  <1>2. Recognised(ix)  BY <1>1 DEF Recognised
  <1>3. ix.accounts[1] = Ata(Wallet, WSOL, TOKEN)  BY <1>1 DEF UserQuote
  <1>4. c = CloseWsol(b, Sponsor, ix)  BY <1>1, <1>3 DEF AppendedBy, AppendIx
  <1>5. ix.op = "close" /\ Sponsor \notin ix.signers  BY <1>1, Signing
  <1>6. Sound(b, {})  BY DEF Ready
  <1>7. Sound(c, {})  BY <1>4, <1>5, <1>6, SoundClose
  <1> QED  BY <1>2, <1>7 DEF Ready

\* A swap of a pool whose two token accounts of the user are open.
LEMMA PoolMoves ==
    ASSUME NEW pool \in Pools, NEW fees, FeeKeys(fees), NEW side, NEW data,
           NEW ix, ix = Ix("pumpswap", PumpSwap, SwapAccounts(side, pool, fees), {Wallet}, data),
           NEW base, base = Ata(Wallet, pool.mint, pool.token),
           NEW quote, quote = Ata(Wallet, pool.quote, TOKEN),
           NEW A, A \subseteq {base, quote}, NEW P, P = {base, quote}
    PROVE  Moves(ix, A, P, {}, {})
  <1> SUFFICES ASSUME NEW b, NEW c, AppendedBy(b, ix, c), Ready(b, A, P)
               PROVE  Recognised(ix) /\ Ready(c, {}, {})
    BY DEF Moves
  <1>0. Sound(b, A) /\ {base, quote} \subseteq b.open  BY DEF Ready
  <1> DEFINE l == SwapAccounts(side, pool, fees)
             recipient == Recipient(fees, pool.mayhem)
             vault == CreatorVault(PumpSwap, pool.creator)
             paid == Paid(ix)
             volume == UserVolume(PumpSwap)
             back == Ata(volume, pool.quote, TOKEN)
  <1>1. ix.op = "pumpswap" /\ ix.program = PumpSwap /\ ix.accounts = l /\ ix.signers = {Wallet}
    BY DEF Ix
  <1> HIDE DEF l, recipient, vault, volume, back
  <1>2. /\ Len(l) \in Nat /\ Len(l) >= 23
        /\ l[1] = pool.address /\ l[2] = Wallet /\ l[5] = pool.quote /\ l[10] = recipient
        /\ l[13] = TOKEN /\ l[19] = vault /\ l[Len(l) - 1] = fees.buyback
        /\ {base, quote, Ata(recipient, pool.quote, TOKEN), Ata(vault, pool.quote, TOKEN),
            Ata(fees.buyback, pool.quote, TOKEN)} \subseteq ToSet(l)
        /\ ToSet(l) \subseteq Pubkeys \cup Derived \cup
              {base, quote, Ata(recipient, pool.quote, TOKEN), Ata(vault, pool.quote, TOKEN),
               Ata(fees.buyback, pool.quote, TOKEN), back}
    BY SwapList DEF l, recipient, vault, back, volume
  <1>3. Recognised(ix)  BY <1>1, <1>2 DEF Recognised
  <1>4. OwnersToFund(ix) = << recipient, vault, fees.buyback >>  BY <1>1, <1>2 DEF OwnersToFund
  <1>5. paid = {Ata(recipient, pool.quote, TOKEN), Ata(vault, pool.quote, TOKEN),
                Ata(fees.buyback, pool.quote, TOKEN)}
    <2>1. ix.accounts[5] = pool.quote /\ ix.accounts[13] = TOKEN  BY <1>1, <1>2
    <2> QED  BY <1>4, <2>1 DEF Paid
  <1> HIDE DEF paid
  <1>6. Accounts(ix) = ToSet(l)  BY <1>1 DEF Accounts
  <1>7. paid \subseteq Accounts(ix) /\ A \subseteq Accounts(ix)
    <2> DEFINE x == Ata(recipient, pool.quote, TOKEN)
               y == Ata(vault, pool.quote, TOKEN)
               z == Ata(fees.buyback, pool.quote, TOKEN)
    <2>1. {base, quote, x, y, z} \subseteq ToSet(l) /\ paid = {x, y, z}  BY <1>2, <1>5
    <2> HIDE DEF x, y, z
    <2>2. {base, quote, x, y, z} \subseteq Accounts(ix)  BY <1>6, <2>1
    <2>3. paid \subseteq Accounts(ix)  BY <2>1, <2>2
    <2>4. {base, quote} \subseteq Accounts(ix)  BY <2>2
    <2> QED  BY <2>3, <2>4
  <1>8. Needs(ix) \subseteq b.open \cup paid \cup {volume, back}
    <2> DEFINE tokens == {base, quote} \cup paid \cup {back}
    <2>1. Accounts(ix) \subseteq Pubkeys \cup Derived \cup tokens
      BY <1>2, <1>5, <1>6
    <2> HIDE DEF tokens
    <2>2. ix.op = "pumpswap" /\ ix.program = PumpSwap  BY <1>1
    <2>3. Needs(ix) \subseteq tokens \cup {UserVolume(PumpSwap)}
      <3> HIDE DEF Needs, Accounts
      <3> QED  BY <2>1, <2>2, PoolNeeds
    <2> QED  BY <1>0, <2>3 DEF tokens, volume
  <1>9. c = Keep(PumpSwapSetup(b, Sponsor, ix), ix)  BY <1>1 DEF AppendedBy, AppendIx
  <1>10. Sponsor \notin ix.signers  BY <1>1, Signing
  <1>11. back = Back(ix)  BY <1>1, <1>2 DEF Back, back, volume
  <1>12. Sound(c, {}) /\ b.open \subseteq c.open
    <2>1. ix.op = "pumpswap" /\ ix.program = PumpSwap  BY <1>1
    <2>2. Needs(ix) \subseteq b.open \cup Paid(ix) \cup {UserVolume(PumpSwap), Back(ix)}
      BY <1>8, <1>11 DEF volume, paid
    <2>3. Paid(ix) \subseteq Accounts(ix)  BY <1>7 DEF paid
    <2>4. Sound(b, A)  BY <1>0
    <2>5. A \subseteq Accounts(ix)  BY <1>7
    <2>6. SwapKnown(ix, A, b.open)  BY <1>10, <2>1, <2>2, <2>3, <2>5 DEF SwapKnown
    <2>7. SwapSet(b, ix, c)  BY <1>9 DEF SwapSet
    <2> DEFINE none == {}
    <2>8. none = {}  OBVIOUS
    <2> HIDE DEF none
    <2>9. Sound(c, none)  BY <2>4, <2>6, <2>7, <2>8, SoundSwap
    <2>10. b.open \subseteq c.open  BY <2>4, <2>6, <2>7, <2>8, SoundSwap
    <2> QED  BY <2>9, <2>10 DEF none
  <1> QED  BY <1>3, <1>12 DEF Ready

\* A list in three parts.
InARow(start, next, far) == start \o next \o far

\* Three lists in a row, the first of eight: the places a curve's trade is read at.
LEMMA AfterEight ==
    ASSUME NEW C, NEW start \in Seq(C), Len(start) = 8, NEW next \in Seq(C), Len(next) >= 2,
           NEW far \in Seq(C), NEW list, list = InARow(start, next, far)
    PROVE  /\ list \in Seq(C) /\ Len(list) = 8 + Len(next) + Len(far)
           /\ list[4] = start[4] /\ list[6] = start[6] /\ list[7] = start[7]
           /\ list[9] = next[1] /\ list[10] = next[2]
  <1> DEFINE near == start \o next
  <1>0. far \in Seq(C)  OBVIOUS
  <1>1. /\ near \in Seq(C) /\ Len(near) = 8 + Len(next)
        /\ \A i \in 1..8 + Len(next) : near[i] = IF i <= 8 THEN start[i] ELSE next[i - 8]
    <2>1. /\ start \o next \in Seq(C) /\ Len(start \o next) = Len(start) + Len(next)
          /\ \A i \in 1..Len(start) + Len(next) : (start \o next)[i] =
                IF i <= Len(start) THEN start[i] ELSE next[i - Len(start)]
      BY ConcatProperties
    <2> QED  BY <2>1
  <1>2. list = near \o far  BY DEF InARow
  <1> HIDE DEF near
  <1>3. /\ near \o far \in Seq(C) /\ Len(near \o far) = Len(near) + Len(far)
        /\ \A i \in 1..Len(near) + Len(far) : (near \o far)[i] =
              IF i <= Len(near) THEN near[i] ELSE far[i - Len(near)]
    <2>1. near \in Seq(C)  BY <1>1
    <2> QED  BY <1>0, <2>1, ConcatProperties
  <1>4. Len(next) \in Nat /\ Len(far) \in Nat  OBVIOUS
  <1>5. \A i \in 1..8 + Len(next) : list[i] = near[i]
    BY <1>1, <1>2, <1>3, <1>4
  <1>6. {4, 6, 7, 9, 10} \subseteq 1..8 + Len(next)  BY <1>4
  <1>7. /\ near[4] = start[4] /\ near[6] = start[6] /\ near[7] = start[7]
        /\ near[9] = next[1] /\ near[10] = next[2]
    BY <1>1, <1>6
  <1>8. /\ list[4] = near[4] /\ list[6] = near[6] /\ list[7] = near[7]
        /\ list[9] = near[9] /\ list[10] = near[10]
    BY <1>5, <1>6
  <1> QED  BY <1>1, <1>2, <1>3, <1>7, <1>8

\* The lists of a curve's trades: the setup finds the curve, the wallet and the
\* creator's vault where it reads them.
LEMMA CurveLists ==
    ASSUME NEW C, CommonIn(C), NEW curve \in Curves, NEW fees, CurveIn(C, curve, fees),
           NEW buy, buy = CurveBuyAccounts(curve, fees),
           NEW sell, sell = CurveSellAccounts(curve, fees)
    PROVE  /\ buy \in Seq(C) /\ Len(buy) >= 14 /\ buy[4] = curve.address
           /\ buy[6] = Ata(Wallet, curve.mint, curve.token) /\ buy[7] = Wallet
           /\ buy[10] = CreatorVault(PumpFun, curve.creator)
           /\ sell \in Seq(C) /\ Len(sell) >= 14 /\ sell[4] = curve.address
           /\ sell[6] = Ata(Wallet, curve.mint, curve.token) /\ sell[7] = Wallet
           /\ sell[9] = CreatorVault(PumpFun, curve.creator)
  <1> DEFINE start == CurveStart(curve, fees)
             vault == CreatorVault(PumpFun, curve.creator)
             base == Ata(Wallet, curve.mint, curve.token)
  <1>1. Recipient(fees, curve.mayhem) \in C  BY DEF Recipient, CurveIn
  <1>2. curve.token \in C  BY DEF Curves, CommonIn
  <1>3. {PumpFun, FEE_PROGRAM, Global(PumpFun), EventAuthority(PumpFun), GlobalVolume(PumpFun),
         FeeConfig(PumpFun)} \subseteq C
    BY DEF CommonIn, VenueAddresses
  <1>4. start \in Seq(C) /\ Len(start) = 8
    BY <1>1, <1>2, <1>3 DEF CurveStart, CurveIn, CommonIn
  <1>5. start[4] = curve.address /\ start[6] = base /\ start[7] = Wallet
    BY DEF CurveStart
  <1> DEFINE buys == << curve.token, vault, EventAuthority(PumpFun),
                        PumpFun, GlobalVolume(PumpFun), UserVolume(PumpFun), FeeConfig(PumpFun),
                        FEE_PROGRAM, Second(PumpFun, curve.mint), fees.buyback >>
             sells == << vault, curve.token, EventAuthority(PumpFun),
                         PumpFun, FeeConfig(PumpFun), FEE_PROGRAM >>
             volume == IF curve.cashback THEN << UserVolume(PumpFun) >> ELSE << >>
             last == << Second(PumpFun, curve.mint), fees.buyback >>
  <1>6. buys \in Seq(C) /\ Len(buys) = 10 /\ buys[2] = vault
    BY <1>2, <1>3 DEF CurveIn, CommonIn
  <1>7. sells \in Seq(C) /\ Len(sells) = 6 /\ sells[1] = vault  BY <1>2, <1>3 DEF CurveIn
  <1>8. volume \in Seq(C)  BY DEF CommonIn
  <1>9. last \in Seq(C)  BY DEF CurveIn
  <1>10. buy = start \o buys  BY DEF CurveBuyAccounts
  <1>11. sell = start \o sells \o volume \o last  BY DEF CurveSellAccounts
  <1> HIDE DEF start, vault, base, buys, sells, volume, last
  <1>13. /\ buy \in Seq(C) /\ Len(buy) = 18
         /\ buy[4] = start[4] /\ buy[6] = start[6] /\ buy[7] = start[7] /\ buy[10] = vault
    <2> DEFINE none == << >>
    <2>1. none \in Seq(C) /\ Len(none) = 0  OBVIOUS
    <2>2. start \o buys \in Seq(C)  BY <1>4, <1>6
    <2>3. buy = InARow(start, buys, none)  BY <1>10, <2>2 DEF InARow
    <2> HIDE DEF none
    <2>4. Len(buys) >= 2  BY <1>6
    <2>5. start \in Seq(C) /\ Len(start) = 8 /\ buys \in Seq(C) /\ Len(buys) >= 2 /\ none \in Seq(C)
      BY <1>4, <1>6, <2>1, <2>4
    <2>6. buy \in Seq(C)  BY <2>3, <2>5, AfterEight
    <2>7. Len(buy) = 8 + Len(buys) + Len(none)  BY <2>3, <2>5, AfterEight
    <2>8. buy[4] = start[4]  BY <2>3, <2>5, AfterEight, SMTT(60)
    <2>9. buy[6] = start[6]  BY <2>3, <2>5, AfterEight, SMTT(60)
    <2>10. buy[7] = start[7]  BY <2>3, <2>5, AfterEight, SMTT(60)
    <2>11. buy[10] = buys[2]  BY <2>3, <2>5, AfterEight, SMTT(60)
    <2> QED  BY <1>6, <2>1, <2>6, <2>7, <2>8, <2>9, <2>10, <2>11
  <1>14. /\ sell \in Seq(C) /\ Len(sell) >= 14
         /\ sell[4] = start[4] /\ sell[6] = start[6] /\ sell[7] = start[7] /\ sell[9] = vault
    <2> DEFINE far == volume \o last
    <2>1. far \in Seq(C) /\ Len(far) \in Nat  BY <1>8, <1>9
    <2>2. start \o sells \in Seq(C)  BY <1>4, <1>7
    <2>3. sell = InARow(start, sells, far)
      <3>1. (start \o sells) \o (volume \o last) = ((start \o sells) \o volume) \o last
        <4> DEFINE near == start \o sells
        <4>1. near \in Seq(C)  BY <2>2
        <4> HIDE DEF near
        <4>2. near \o (volume \o last) = (near \o volume) \o last
          BY <1>8, <1>9, <4>1, ConcatAssociative
        <4> QED  BY <4>2 DEF near
      <3> QED  BY <1>11, <3>1 DEF InARow
    <2> HIDE DEF far
    <2>4. Len(sells) >= 2  BY <1>7
    <2>5. start \in Seq(C) /\ Len(start) = 8 /\ sells \in Seq(C) /\ Len(sells) >= 2 /\ far \in Seq(C)
      BY <1>4, <1>7, <2>1, <2>4
    <2>6. sell \in Seq(C)  BY <2>3, <2>5, AfterEight
    <2>7. Len(sell) = 8 + Len(sells) + Len(far)  BY <2>3, <2>5, AfterEight
    <2>8. sell[4] = start[4]  BY <2>3, <2>5, AfterEight, SMTT(60)
    <2>9. sell[6] = start[6]  BY <2>3, <2>5, AfterEight, SMTT(60)
    <2>10. sell[7] = start[7]  BY <2>3, <2>5, AfterEight, SMTT(60)
    <2>11. sell[9] = sells[1]  BY <2>3, <2>5, AfterEight, SMTT(60)
    <2> QED  BY <1>7, <2>1, <2>6, <2>7, <2>8, <2>9, <2>10, <2>11
  <1> QED  BY <1>5, <1>13, <1>14 DEF base, vault

\* What the lists of a curve's trades may hold.
CurveKinds(curve) ==
    {a \in Pubkeys \cup Derived : a \in Derived => a.seed # "creator_vault"}
    \cup {CreatorVault(PumpFun, curve.creator), Ata(curve.address, curve.mint, curve.token),
          Ata(Wallet, curve.mint, curve.token)}

LEMMA CurveKindsHold ==
    ASSUME NEW curve \in Curves, NEW fees, FeeKeys(fees)
    PROVE  CommonIn(CurveKinds(curve)) /\ CurveIn(CurveKinds(curve), curve, fees)
  <1> DEFINE C == CurveKinds(curve)
             plain == {a \in Pubkeys \cup Derived : a \in Derived => a.seed # "creator_vault"}
  <1>1. plain \subseteq C  BY DEF CurveKinds
  <1>2. \A a \in Pubkeys : a \in plain  BY AddressKinds
  <1>3. CommonIn(C)
    <2>1. {SYSTEM, TOKEN, TOKEN_2022, ATA, WSOL, USDC, Wallet} \subseteq C
      <3> HIDE DEF C, plain
      <3> QED  BY <1>1, <1>2, KeyNames
    <2>2. VenueAddresses(PumpFun) \subseteq plain /\ VenueAddresses(PumpSwap) \subseteq plain
          /\ UserVolume(PumpFun) \in plain /\ UserVolume(PumpSwap) \in plain
      BY VenueKinds
    <2> HIDE DEF C, plain
    <2> QED  BY <1>1, <2>1, <2>2 DEF CommonIn
  <1>4. {fees.standard, fees.mayhem, fees.buyback} \subseteq plain  BY <1>2 DEF FeeKeys
  <1>5. /\ curve.address \in Pubkeys \cup Derived
        /\ curve.address \in Derived => curve.address = Pda(PumpFun, "curve", curve.mint)
        /\ curve.mint \in Pubkeys
    BY DEF Curves
  <1>6. curve.address \in plain
    <2>1. Pda(PumpFun, "curve", curve.mint).seed # "creator_vault"  BY DEF Pda
    <2> QED  BY <1>5, <2>1
  <1>7. curve.mint \in plain  BY <1>2, <1>5
  <1>8. Second(PumpFun, curve.mint) \in plain
    <2>1. PumpFun \in Pubkeys /\ "v2" \in Seeds  BY KeyNames DEF Seeds
    <2>2. Second(PumpFun, curve.mint) \in Derived  BY <1>5, <2>1, PdaAddress DEF Second
    <2>3. Second(PumpFun, curve.mint).seed # "creator_vault"  BY DEF Second, Pda
    <2> QED  BY <2>2, <2>3
  <1>9. {CreatorVault(PumpFun, curve.creator), Ata(curve.address, curve.mint, curve.token),
         Ata(Wallet, curve.mint, curve.token)} \subseteq C
    BY DEF CurveKinds
  <1> HIDE DEF C, plain
  <1>10. CurveIn(C, curve, fees)  BY <1>1, <1>4, <1>6, <1>7, <1>8, <1>9 DEF CurveIn
  <1> QED  BY <1>3, <1>10 DEF C

\* Of a curve's trade the user's token account, the creator's vault and the
\* user's volume need be open.
LEMMA CurveNeeds ==
    ASSUME NEW curve \in Curves, NEW ix, ix.op # "pumpswap", ix.program = PumpFun,
           ix.accounts[4] = curve.address, Accounts(ix) \subseteq CurveKinds(curve)
    PROVE  Needs(ix) \subseteq {Ata(Wallet, curve.mint, curve.token),
                                CreatorVault(PumpFun, curve.creator), UserVolume(PumpFun)}
  <1> SUFFICES ASSUME NEW a \in Needs(ix)
               PROVE  a \in {Ata(Wallet, curve.mint, curve.token),
                             CreatorVault(PumpFun, curve.creator), UserVolume(PumpFun)}
    OBVIOUS
  <1>1. /\ a \in Accounts(ix)
        /\ \/ "owner" \in DOMAIN a /\ a.owner # curve.address
           \/ a = UserVolume(PumpFun)
           \/ "program" \in DOMAIN a /\ a.seed = "creator_vault"
    BY DEF Needs
  <1>2. a \in CurveKinds(curve)
    <2> HIDE DEF Accounts
    <2> QED  BY <1>1
  <1>3. CASE a \in Pubkeys \cup Derived /\ (a \in Derived => a.seed # "creator_vault")
    <2>1. "owner" \notin DOMAIN a  BY <1>3 DEF Pubkeys, Derived
    <2>2. a \in Pubkeys => "program" \notin DOMAIN a  BY DEF Pubkeys
    <2> HIDE DEF Accounts
    <2> QED  BY <1>1, <1>3, <2>1, <2>2
  <1>4. CASE a = CreatorVault(PumpFun, curve.creator)  BY <1>4
  <1>5. CASE a = Ata(curve.address, curve.mint, curve.token)
    <2>1. DOMAIN a = {"owner", "mint", "token"} /\ a.owner = curve.address  BY <1>5 DEF Ata
    <2>2. "program" \notin DOMAIN a  BY <2>1
    <2> HIDE DEF Accounts
    <2> QED  BY <1>1, <2>1, <2>2
  <1>6. CASE a = Ata(Wallet, curve.mint, curve.token)  BY <1>6
  <1> QED  BY <1>2, <1>3, <1>4, <1>5, <1>6 DEF CurveKinds

\* A trade of a curve whose token account of the user is open.
LEMMA CurveMoves ==
    ASSUME NEW curve \in Curves, NEW fees, FeeKeys(fees), NEW data,
           NEW ix, \/ ix = Ix("pumpfun_buy", PumpFun, CurveBuyAccounts(curve, fees), {Wallet}, data)
                   \/ ix = Ix("pumpfun_sell", PumpFun, CurveSellAccounts(curve, fees), {Wallet},
                              data),
           NEW base, base = Ata(Wallet, curve.mint, curve.token),
           NEW A, A \subseteq {base}, NEW P, P = {base}
    PROVE  Moves(ix, A, P, {}, {})
  <1> SUFFICES ASSUME NEW b, NEW c, AppendedBy(b, ix, c), Ready(b, A, P)
               PROVE  Recognised(ix) /\ Ready(c, {}, {})
    BY DEF Moves
  <1>0. Sound(b, A) /\ base \in b.open  BY DEF Ready
  <1> DEFINE C == CurveKinds(curve)
             vault == CreatorVault(PumpFun, curve.creator)
             buy == CurveBuyAccounts(curve, fees)
             sell == CurveSellAccounts(curve, fees)
             l == ix.accounts
  <1>1. CommonIn(C) /\ CurveIn(C, curve, fees)  BY CurveKindsHold
  <1> HIDE DEF C, vault, buy, sell
  <1>2. /\ buy \in Seq(C) /\ Len(buy) >= 14 /\ buy[4] = curve.address
        /\ buy[6] = base /\ buy[7] = Wallet /\ buy[10] = vault
        /\ sell \in Seq(C) /\ Len(sell) >= 14 /\ sell[4] = curve.address
        /\ sell[6] = base /\ sell[7] = Wallet /\ sell[9] = vault
    BY <1>1, CurveLists DEF vault, buy, sell
  <1>3. /\ ix.op \in {"pumpfun_buy", "pumpfun_sell"} /\ ix.program = PumpFun
        /\ ix.signers = {Wallet}
        /\ ix.op = "pumpfun_buy" => l = buy
        /\ ix.op = "pumpfun_sell" => l = sell
    BY DEF Ix, buy, sell
  <1> HIDE DEF l
  <1>4. /\ l \in Seq(C) /\ Len(l) >= 14 /\ l[4] = curve.address /\ l[6] = base /\ l[7] = Wallet
        /\ vault = l[IF ix.op = "pumpfun_sell" THEN 9 ELSE 10]
    BY <1>2, <1>3
  <1>5. Recognised(ix)  BY <1>3, <1>4 DEF Recognised, l
  <1>6. Accounts(ix) = ToSet(l)  BY DEF Accounts, l
  <1>7. DOMAIN l = 1..Len(l) /\ Len(l) \in Nat  BY <1>4
  <1>8. Accounts(ix) \subseteq C  BY <1>4, <1>6, <1>7 DEF ToSet
  <1>9. base \in Accounts(ix)
    <2>1. 6 \in 1..Len(l)  BY <1>4, <1>7
    <2> QED  BY <1>4, <1>6, <1>7, <2>1 DEF ToSet
  <1>10. Needs(ix) \subseteq b.open \cup {vault, UserVolume(ix.program)}
    <2>1. ix.op # "pumpswap" /\ ix.program = PumpFun /\ ix.accounts[4] = curve.address
      BY <1>3, <1>4 DEF l
    <2>2. Needs(ix) \subseteq {base, vault, UserVolume(PumpFun)}
      <3> HIDE DEF Accounts, Needs
      <3> QED  BY <1>8, <2>1, CurveNeeds DEF C, vault
    <2> HIDE DEF Accounts, Needs
    <2> QED  BY <1>0, <2>1, <2>2
  <1>11. c = Keep(PumpFunSetup(b, Sponsor, ix), ix)  BY <1>3 DEF AppendedBy, AppendIx
  <1>12. Sponsor \notin ix.signers  BY <1>3, Signing
  <1>13. A \subseteq Accounts(ix)  BY <1>9
  <1>14. vault = ix.accounts[IF ix.op = "pumpfun_sell" THEN 9 ELSE 10]  BY <1>4 DEF l
  <1>15. ix.op \in {"pumpfun_buy", "pumpfun_sell"}  BY <1>3
  <1>16. Sound(c, {}) /\ b.open \subseteq c.open
    <2> HIDE DEF Needs, Accounts
    <2> QED  BY <1>0, <1>10, <1>11, <1>12, <1>13, <1>14, <1>15, SoundPumpFun
  <1> QED  BY <1>5, <1>16 DEF Ready

\* A purchase from a curve needs nothing open; a sale to it, what it sells.
LEMMA CurveCarries ==
    ASSUME NEW curve \in Curves, NEW fees, FeeKeys(fees),
           NEW P, P = {Ata(Wallet, curve.mint, curve.token)}
    PROVE  /\ Carries(CurveRoute("Buy", curve, fees), {}, {}, {}, {})
           /\ Carries(CurveRoute("Sell", curve, fees), {}, P, {}, {})
           /\ IsList(CurveRoute("Buy", curve, fees)) /\ IsList(CurveRoute("Sell", curve, fees))
  <1> DEFINE create == CreateAta(Wallet, Wallet, curve.mint, curve.token)
             base == Ata(Wallet, curve.mint, curve.token)
             buy == Ix("pumpfun_buy", PumpFun, CurveBuyAccounts(curve, fees), {Wallet}, 25)
             sell == Ix("pumpfun_sell", PumpFun, CurveSellAccounts(curve, fees), {Wallet}, 24)
             bought == << create, buy >>
             sold == << sell >>
  <1>1. CurveRoute("Buy", curve, fees) = bought /\ CurveRoute("Sell", curve, fees) = sold
    BY DEF CurveRoute
  <1>2. /\ Len(bought) = 2 /\ bought[1] = create /\ bought[2] = buy
        /\ Len(sold) = 1 /\ sold[1] = sell
    <2> HIDE DEF create, buy, sell
    <2> QED  OBVIOUS
  <1>3. Moves(create, {}, {}, P, P)
    <2> DEFINE ix == create
               none == {}
    <2>1. ix = CreateAta(Wallet, Wallet, curve.mint, curve.token)  OBVIOUS
    <2>2. base = Ata(Wallet, curve.mint, curve.token)  OBVIOUS
    <2>3. P = none \cup {base}  OBVIOUS
    <2> HIDE DEF ix, base, none
    <2>4. Moves(ix, none, none, P, P)  BY <2>1, <2>2, <2>3, AtaMoves
    <2> QED  BY <2>4 DEF ix, none
  <1>4. Moves(buy, P, P, {}, {})
    <2> DEFINE ix == buy
    <2>1. \/ ix = Ix("pumpfun_buy", PumpFun, CurveBuyAccounts(curve, fees), {Wallet}, 25)
          \/ ix = Ix("pumpfun_sell", PumpFun, CurveSellAccounts(curve, fees), {Wallet}, 25)
      OBVIOUS
    <2>2. base = Ata(Wallet, curve.mint, curve.token) /\ P \subseteq {base} /\ P = {base}
      OBVIOUS
    <2> HIDE DEF ix, base
    <2>3. Moves(ix, P, P, {}, {})  BY <2>1, <2>2, CurveMoves
    <2> QED  BY <2>3 DEF ix
  <1>5. Moves(sell, {}, P, {}, {})
    <2> DEFINE ix == sell
               none == {}
    <2>1. \/ ix = Ix("pumpfun_buy", PumpFun, CurveBuyAccounts(curve, fees), {Wallet}, 24)
          \/ ix = Ix("pumpfun_sell", PumpFun, CurveSellAccounts(curve, fees), {Wallet}, 24)
      OBVIOUS
    <2>2. base = Ata(Wallet, curve.mint, curve.token) /\ none \subseteq {base} /\ P = {base}
      OBVIOUS
    <2> HIDE DEF ix, base, none
    <2>3. Moves(ix, none, P, {}, {})  BY <2>1, <2>2, CurveMoves
    <2> QED  BY <2>3 DEF ix, none
  <1>0. IsList(bought) /\ IsList(sold)
    <2> DEFINE T == {create, buy, sell}
    <2>1. create \in T /\ buy \in T /\ sell \in T  OBVIOUS
    <2> HIDE DEF create, buy, sell, T
    <2>2. bought \in Seq(T) /\ sold \in Seq(T)  BY <2>1
    <2> HIDE DEF bought, sold
    <2> QED  BY <2>2 DEF IsList
  <1> HIDE DEF create, buy, sell, bought, sold
  <1>6. Carries(bought, {}, {}, {}, {})  BY <1>2, <1>3, <1>4, TwoCarry
  <1>7. Carries(sold, {}, P, {}, {})  BY <1>2, <1>5, OneCarries
  <1> QED  BY <1>0, <1>1, <1>6, <1>7

\* A purchase from a pool needs nothing open; a sale to it, what it sells.
LEMMA PoolCarries ==
    ASSUME NEW pool \in Pools, NEW fees, FeeKeys(fees),
           NEW S, S = {Ata(Wallet, pool.mint, pool.token)}
    PROVE  /\ Carries(PoolRoute("Buy", pool, fees), {}, {}, {}, {})
           /\ Carries(PoolRoute("Sell", pool, fees), {}, S, {}, {})
           /\ IsList(PoolRoute("Buy", pool, fees)) /\ IsList(PoolRoute("Sell", pool, fees))
  <1> DEFINE base == Ata(Wallet, pool.mint, pool.token)
             quote == Ata(Wallet, pool.quote, TOKEN)
             P == {base, quote}
             Q == {quote}
             makeBase == CreateAta(Wallet, Wallet, pool.mint, pool.token)
             makeQuote == CreateAta(Wallet, Wallet, pool.quote, TOKEN)
             wrap == Transfer(Wallet, UserQuote(pool))
             sync == Ix("sync", TOKEN, << UserQuote(pool) >>, {}, 1)
             close == Ix("close", TOKEN, << UserQuote(pool), Wallet, Wallet >>, {Wallet}, 1)
             buy == Ix("pumpswap", PumpSwap, SwapAccounts("Buy", pool, fees), {Wallet}, 25)
             sell == Ix("pumpswap", PumpSwap, SwapAccounts("Sell", pool, fees), {Wallet}, 24)
             closing == IF pool.quote = WSOL THEN << close >> ELSE << >>
             wrapping == IF pool.quote = WSOL THEN << wrap, sync >> ELSE << >>
             making == << makeBase, makeQuote >>
             buying == << buy >>
             selling == << makeQuote, sell >>
             T == {makeBase, makeQuote, wrap, sync, close, buy, sell}
  <1>1. /\ PoolRoute("Buy", pool, fees) = making \o wrapping \o buying \o closing
        /\ PoolRoute("Sell", pool, fees) = selling \o closing
    BY DEF PoolRoute, PoolBuyRoute, PoolSellRoute, CloseQuote
  <1>2. makeBase = CreateAta(Wallet, Wallet, pool.mint, pool.token)
        /\ makeQuote = CreateAta(Wallet, Wallet, pool.quote, TOKEN)
    OBVIOUS
  <1>3. /\ wrap.op \in {"transfer", "sync"} /\ wrap.signers \subseteq {Wallet}
        /\ sync.op \in {"transfer", "sync"} /\ sync.signers \subseteq {Wallet}
    BY DEF Transfer, Ix
  <1>4. close = Ix("close", TOKEN, << UserQuote(pool), Wallet, Wallet >>, {Wallet}, 1)  OBVIOUS
  <1>5. /\ buy = Ix("pumpswap", PumpSwap, SwapAccounts("Buy", pool, fees), {Wallet}, 25)
        /\ sell = Ix("pumpswap", PumpSwap, SwapAccounts("Sell", pool, fees), {Wallet}, 24)
    OBVIOUS
  <1>6. base = Ata(Wallet, pool.mint, pool.token) /\ quote = Ata(Wallet, pool.quote, TOKEN)
    OBVIOUS
  <1>7. S = {base}  OBVIOUS
  <1> HIDE DEF makeBase, makeQuote, base, quote, wrap, sync, close, buy, sell
  <1>8. /\ making \in Seq(T) /\ Len(making) = 2 /\ making[1] = makeBase /\ making[2] = makeQuote
        /\ selling \in Seq(T) /\ Len(selling) = 2 /\ selling[1] = makeQuote /\ selling[2] = sell
        /\ buying \in Seq(T) /\ Len(buying) = 1 /\ buying[1] = buy
    <2>1. {makeBase, makeQuote, wrap, sync, close, buy, sell} \subseteq T  OBVIOUS
    <2> HIDE DEF T
    <2>2. making \in Seq(T) /\ Len(making) = 2 /\ making[1] = makeBase /\ making[2] = makeQuote
      BY <2>1
    <2>3. selling \in Seq(T) /\ Len(selling) = 2 /\ selling[1] = makeQuote /\ selling[2] = sell
      BY <2>1
    <2>4. buying \in Seq(T) /\ Len(buying) = 1 /\ buying[1] = buy  BY <2>1
    <2> QED  BY <2>2, <2>3, <2>4
  <1>9. /\ wrapping \in Seq(T) /\ closing \in Seq(T)
        /\ pool.quote = WSOL => /\ Len(wrapping) = 2 /\ wrapping[1] = wrap /\ wrapping[2] = sync
                                /\ Len(closing) = 1 /\ closing[1] = close
        /\ pool.quote # WSOL => Len(wrapping) = 0 /\ Len(closing) = 0
    <2>1. {makeBase, makeQuote, wrap, sync, close, buy, sell} \subseteq T  OBVIOUS
    <2> HIDE DEF T
    <2>2. wrapping \in Seq(T)  BY <2>1
    <2>3. closing \in Seq(T)  BY <2>1
    <2>4. pool.quote = WSOL => Len(wrapping) = 2 /\ wrapping[1] = wrap /\ wrapping[2] = sync
      OBVIOUS
    <2>5. pool.quote = WSOL => Len(closing) = 1 /\ closing[1] = close  OBVIOUS
    <2>6. pool.quote # WSOL => Len(wrapping) = 0 /\ Len(closing) = 0  OBVIOUS
    <2> HIDE DEF wrapping, closing
    <2> QED  BY <2>2, <2>3, <2>4, <2>5, <2>6
  <1> HIDE DEF making, selling, buying, wrapping, closing, T
  <1>10. Moves(makeBase, {}, {}, S, S)
    <2> DEFINE none == {}
    <2>1. S = none \cup {base}  BY <1>7
    <2> HIDE DEF none
    <2>2. Moves(makeBase, none, none, S, S)  BY <1>2, <1>6, <2>1, AtaMoves
    <2> QED  BY <2>2 DEF none
  <1>11. Moves(makeQuote, S, S, P, P)
    <2>1. P = S \cup {quote}  BY <1>7
    <2> HIDE DEF P
    <2> QED  BY <1>2, <1>6, <2>1, AtaMoves
  <1>12. Moves(makeQuote, {}, S, Q, P)
    <2> DEFINE none == {}
    <2>1. P = S \cup {quote} /\ Q = none \cup {quote}  BY <1>7
    <2> HIDE DEF none, P, Q
    <2>2. Moves(makeQuote, none, S, Q, P)  BY <1>2, <1>6, <2>1, AtaMoves
    <2> QED  BY <2>2 DEF none
  <1>13. Moves(buy, P, P, {}, {}) /\ Moves(sell, Q, P, {}, {})
    <2>1. P \subseteq {base, quote} /\ P = {base, quote} /\ Q \subseteq {base, quote}  OBVIOUS
    <2> HIDE DEF P, Q
    <2>2. Moves(buy, P, P, {}, {})  BY <1>5, <1>6, <2>1, PoolMoves
    <2>3. Moves(sell, Q, P, {}, {})
      <3> DEFINE ix == sell
                 side == "Sell"
      <3>1. ix = Ix("pumpswap", PumpSwap, SwapAccounts(side, pool, fees), {Wallet}, 24)
        BY <1>5
      <3>2. Q \subseteq {base, quote}  BY <2>1
      <3>3. P = {base, quote}  BY <2>1
      <3> HIDE DEF ix, side
      <3>4. Moves(ix, Q, P, {}, {})  BY <1>6, <3>1, <3>2, <3>3, PoolMoves
      <3> QED  BY <3>4 DEF ix
    <2> QED  BY <2>2, <2>3
  <1> HIDE DEF P, Q
  <1>14. Carries(wrapping, P, P, P, P)
    <2>1. CASE pool.quote = WSOL
      <3>1. Moves(wrap, P, P, P, P) /\ Moves(sync, P, P, P, P)  BY <1>3, KeepMoves
      <3> QED  BY <1>9, <2>1, <3>1, TwoCarry
    <2>2. CASE pool.quote # WSOL  BY <1>9, <2>2, NoneCarries
    <2> QED  BY <2>1, <2>2
  <1>15. Carries(closing, {}, {}, {}, {})
    <2>1. CASE pool.quote = WSOL
      <3>1. Moves(close, {}, {}, {}, {})  BY <1>4, <2>1, CloseMoves
      <3> QED  BY <1>9, <2>1, <3>1, OneCarries
    <2>2. CASE pool.quote # WSOL  BY <1>9, <2>2, NoneCarries
    <2> QED  BY <2>1, <2>2
  <1>16. Carries(making, {}, {}, P, P)  BY <1>8, <1>10, <1>11, TwoCarry
  <1>17. Carries(selling, {}, S, {}, {})  BY <1>8, <1>12, <1>13, TwoCarry
  <1>18. Carries(buying, P, P, {}, {})  BY <1>8, <1>13, OneCarries
  <1>19. Carries(selling \o closing, {}, S, {}, {})  BY <1>8, <1>9, <1>15, <1>17, BothCarry
  <1>20. Carries(making \o wrapping \o buying \o closing, {}, {}, {}, {})
    <2> DEFINE made == making \o wrapping
               all == made \o buying
    <2>1. made \in Seq(T)  BY <1>8, <1>9
    <2>2. Carries(made, {}, {}, P, P)  BY <1>8, <1>9, <1>14, <1>16, BothCarry
    <2> HIDE DEF made
    <2>3. all \in Seq(T)  BY <1>8, <2>1
    <2>4. Carries(all, {}, {}, {}, {})  BY <1>8, <1>18, <2>1, <2>2, BothCarry
    <2> HIDE DEF all
    <2>5. Carries(all \o closing, {}, {}, {}, {})  BY <1>9, <1>15, <2>3, <2>4, BothCarry
    <2> QED  BY <2>5 DEF all, made
  <1>21. IsList(selling \o closing) /\ IsList(making \o wrapping \o buying \o closing)
    <2> DEFINE short == selling \o closing
               long == making \o wrapping \o buying \o closing
    <2>1. short \in Seq(T) /\ long \in Seq(T)  BY <1>8, <1>9
    <2> HIDE DEF short, long
    <2>2. IsList(short) /\ IsList(long)  BY <2>1 DEF IsList
    <2> QED  BY <2>2 DEF short, long
  <1> QED  BY <1>1, <1>19, <1>20, <1>21

-----------------------------------------------------------------------------
(* The route of a sponsored trade, and the program made of it. *)

LEMMA CarriesWithMore ==
    ASSUME NEW leg, NEW A, NEW P, NEW B, NEW Q, Carries(leg, A, P, B, Q), NEW W, P \subseteq W
    PROVE  Carries(leg, A, W, B, Q)
  <1>1. \A b : Ready(b, A, W) => Ready(b, A, P)  BY DEF Ready
  <1> QED  BY <1>1 DEF Carries

LEMMA ListsCarry ==
    ASSUME NEW first, IsList(first), NEW second, IsList(second),
           NEW A, NEW P, NEW B, NEW Q, NEW C, NEW W,
           Carries(first, A, P, B, Q), Carries(second, B, Q, C, W)
    PROVE  Carries(first \o second, A, P, C, W) /\ IsList(first \o second)
  <1>1. PICK T, U : first \in Seq(T) /\ second \in Seq(U)  BY DEF IsList
  <1> DEFINE V == T \cup U
  <1>2. first \in Seq(V) /\ second \in Seq(V)  BY <1>1
  <1> HIDE DEF V
  <1> DEFINE both == first \o second
  <1>3. both \in Seq(V) /\ both = first \o second  BY <1>2
  <1> HIDE DEF both
  <1>4. Carries(both, A, P, C, W)  BY <1>2, <1>3, BothCarry
  <1>5. IsList(both)  BY <1>3 DEF IsList
  <1> QED  BY <1>4, <1>5 DEF both

\* One leg of a route, of a curve or a pool.
LEMMA LegCarries ==
    ASSUME NEW target \in Curves \cup Pools, NEW funs, FeeKeys(funs), NEW swaps, FeeKeys(swaps),
           NEW S, S = {Ata(Wallet, target.mint, target.token)}
    PROVE  /\ Carries(Leg("Buy", target, funs, swaps), {}, {}, {}, {})
           /\ Carries(Leg("Sell", target, funs, swaps), {}, S, {}, {})
           /\ IsList(Leg("Buy", target, funs, swaps)) /\ IsList(Leg("Sell", target, funs, swaps))
  <1>1. CASE target \in Curves
    <2>1. target.venue = "PumpFun"  BY <1>1 DEF Curves
    <2>2. \A side : Leg(side, target, funs, swaps) = CurveRoute(side, target, funs)
      BY <2>1 DEF Leg
    <2> QED  BY <1>1, <2>2, CurveCarries
  <1>2. CASE target \in Pools
    <2>1. target.venue # "PumpFun"  BY <1>2 DEF Pools
    <2>2. \A side : Leg(side, target, funs, swaps) = PoolRoute(side, target, swaps)
      BY <2>1 DEF Leg
    <2> QED  BY <1>2, <2>2, PoolCarries
  <1> QED  BY <1>1, <1>2

LEMMA FirstKeys ==
    ASSUME NEW configs, configs \subseteq FunConfigs \cup SwapConfigs, NEW fees, fees # NotRead,
           FirstsOf(fees, configs)
    PROVE  FeeKeys(fees)
  <1>1. PICK c \in configs : << fees.standard, fees.mayhem, fees.buyback >>
                             = << c.standard[1], c.mayhem[1], c.buyback[1] >>
    BY DEF FirstsOf
  <1>2. c \in FunConfigs \cup SwapConfigs  OBVIOUS
  <1>3. c \in Configs  BY <1>2, AccountsAssumption
  <1>4. \A list \in {c.standard, c.mayhem, c.buyback} : list # << >>
    BY <1>2, AccountsAssumption
  <1>5. \A list \in {c.standard, c.mayhem, c.buyback} : list \in Seq(Pubkeys)
    BY <1>3 DEF Configs
  <1>6. \A list \in Seq(Pubkeys) : list # << >> => list[1] \in Pubkeys
    <2> HIDE DEF Pubkeys
    <2> QED  OBVIOUS
  <1>7. \A list \in {c.standard, c.mayhem, c.buyback} : list[1] \in Pubkeys
    BY <1>4, <1>5, <1>6
  <1>8. fees.standard = c.standard[1] /\ fees.mayhem = c.mayhem[1] /\ fees.buyback = c.buyback[1]
    BY <1>1
  <1> QED  BY <1>7, <1>8 DEF FeeKeys

\* What a sponsored trade is made of.
LEMMA SponsoredParts ==
    ASSUME AccountsInv, Sponsored
    PROVE  /\ built.side \in {"Buy", "Sell"} /\ built.target \in Curves \cup Pools
           /\ built.settlement = "Usdc"
           /\ bridge \in Pools /\ bridge.mint = USDC /\ bridge.token = TOKEN
           /\ FeeKeys(funFees) /\ FeeKeys(swapFees)
  <1>1. /\ bridge \in BridgePools /\ FirstsOf(funFees, FunConfigs)
        /\ FirstsOf(swapFees, SwapConfigs) /\ built \in {NotRead} \cup Trades
    BY AccountsTypeParts DEF AccountsInv
  <1>2. built # NotRead  BY DEF Sponsored
  <1>3. funFees # NotRead /\ swapFees # NotRead  BY <1>2 DEF AccountsInv, BuiltReady
  <1>4. built.side \in {"Buy", "Sell"} /\ built.target \in Targets  BY <1>1, <1>2 DEF Trades
  <1>5. built.target \in Curves \cup Pools  BY <1>4, AccountsAssumption
  <1>6. bridge \in {p \in Pools : p.mint = USDC /\ p.token = TOKEN /\ p.quote = WSOL}
    BY <1>1, AccountsAssumption
  <1>7. built.settlement = "Usdc"  BY Signing DEF Sponsored, PayerOf
  <1>8. FeeKeys(funFees)  BY <1>1, <1>3, FirstKeys
  <1>9. FeeKeys(swapFees)  BY <1>1, <1>3, FirstKeys
  <1> QED  BY <1>4, <1>5, <1>6, <1>7, <1>8, <1>9

\* All of a sponsored route needs open at first is the asset it sells.
LEMMA RouteCarries ==
    ASSUME AccountsInv, Sponsored
    PROVE  Carries(Route, {}, {SoldAsset}, {}, {}) /\ IsList(Route)
  <1> DEFINE side == built.side
             target == built.target
             sold == {SoldAsset}
             quote == IF target.venue = "PumpFun" THEN WSOL ELSE target.quote
             buy == Leg("Buy", target, funFees, swapFees)
             sell == Leg("Sell", target, funFees, swapFees)
             there == PoolRoute("Buy", bridge, swapFees)
             back == PoolRoute("Sell", bridge, swapFees)
             leg == IF side = "Buy" THEN buy ELSE sell
  <1>1. /\ side \in {"Buy", "Sell"} /\ target \in Curves \cup Pools
        /\ built.settlement = "Usdc"
        /\ bridge \in Pools /\ bridge.mint = USDC /\ bridge.token = TOKEN
        /\ FeeKeys(funFees) /\ FeeKeys(swapFees)
    BY SponsoredParts
  <1>2. side = "Sell" => sold = {Ata(Wallet, target.mint, target.token)}  BY DEF SoldAsset
  <1>3. side = "Buy" => sold = {Ata(Wallet, bridge.mint, bridge.token)}  BY <1>1 DEF SoldAsset
  <1>4. Route = IF quote = USDC THEN leg
                ELSE IF side = "Buy" THEN back \o buy ELSE sell \o there
    <2>1. Leg(side, target, funFees, swapFees) = leg  BY <1>1
    <2>2. PoolRoute(Other(side), bridge, swapFees) = IF side = "Buy" THEN back ELSE there
      BY <1>1 DEF Other
    <2> HIDE DEF buy, sell, there, back, leg, quote, side, target
    <2>3. NativeRoute(side, built.settlement, target, bridge, funFees, swapFees) =
            LET l == Leg(side, target, funFees, swapFees)
                b == PoolRoute(Other(side), bridge, swapFees)
            IN  IF quote = USDC THEN l ELSE IF side = "Buy" THEN b \o l ELSE l \o b
      BY <1>1 DEF NativeRoute, quote
    <2>4. Route = NativeRoute(side, built.settlement, target, bridge, funFees, swapFees)
      BY DEF Route, side, target
    <2>5. side = "Buy" => leg = buy  BY DEF leg
    <2>6. side # "Buy" => leg = sell  BY DEF leg
    <2> QED  BY <2>1, <2>2, <2>3, <2>4, <2>5, <2>6
  <1>5. /\ Carries(buy, {}, {}, {}, {}) /\ IsList(buy) /\ IsList(sell)
        /\ side = "Sell" => Carries(sell, {}, sold, {}, {})
    <2> DEFINE S == {Ata(Wallet, target.mint, target.token)}
    <2>1. side = "Sell" => sold = S  BY <1>2
    <2>2. S = {Ata(Wallet, target.mint, target.token)}  OBVIOUS
    <2> HIDE DEF S, sold, side, target
    <2>3. /\ Carries(Leg("Buy", target, funFees, swapFees), {}, {}, {}, {})
          /\ Carries(Leg("Sell", target, funFees, swapFees), {}, S, {}, {})
          /\ IsList(Leg("Buy", target, funFees, swapFees))
          /\ IsList(Leg("Sell", target, funFees, swapFees))
      BY <1>1, <2>2, LegCarries
    <2> QED  BY <2>1, <2>3
  <1>6. /\ Carries(there, {}, {}, {}, {}) /\ IsList(there) /\ IsList(back)
        /\ side = "Buy" => Carries(back, {}, sold, {}, {})
    <2> DEFINE S == {Ata(Wallet, bridge.mint, bridge.token)}
    <2>1. side = "Buy" => sold = S  BY <1>3
    <2>2. S = {Ata(Wallet, bridge.mint, bridge.token)}  OBVIOUS
    <2> HIDE DEF S, sold, side
    <2>3. /\ Carries(PoolRoute("Buy", bridge, swapFees), {}, {}, {}, {})
          /\ Carries(PoolRoute("Sell", bridge, swapFees), {}, S, {}, {})
          /\ IsList(PoolRoute("Buy", bridge, swapFees))
          /\ IsList(PoolRoute("Sell", bridge, swapFees))
      BY <1>1, <2>2, PoolCarries
    <2> QED  BY <2>1, <2>3
  <1> HIDE DEF side, target, sold, quote, buy, sell, there, back
  <1>7. Carries(buy, {}, sold, {}, {})
    <2> DEFINE none == {}
    <2>1. Carries(buy, none, none, none, none) /\ none \subseteq sold  BY <1>5
    <2> HIDE DEF none
    <2>2. Carries(buy, none, sold, none, none)  BY <2>1, CarriesWithMore
    <2> QED  BY <2>2 DEF none
  <1>8. Carries(Route, {}, sold, {}, {}) /\ IsList(Route)
    <2> DEFINE none == {}
    <2>1. Carries(buy, none, none, none, none) /\ Carries(there, none, none, none, none)
          /\ Carries(buy, none, sold, none, none)
          /\ (side = "Sell" => Carries(sell, none, sold, none, none))
          /\ (side = "Buy" => Carries(back, none, sold, none, none))
      BY <1>5, <1>6, <1>7
    <2> HIDE DEF none
    <2>2. CASE side = "Buy"
      <3>1. leg = buy  BY <2>2
      <3>2. Carries(back, none, sold, none, none)  BY <2>1, <2>2
      <3>3. Carries(back \o buy, none, sold, none, none) /\ IsList(back \o buy)
        BY <1>5, <1>6, <2>1, <3>2, ListsCarry
      <3> HIDE DEF leg
      <3>4. Route = buy \/ Route = back \o buy  BY <1>4, <2>2, <3>1
      <3>5. Carries(Route, none, sold, none, none)  BY <2>1, <3>3, <3>4
      <3>6. IsList(Route)  BY <1>5, <3>3, <3>4
      <3> QED  BY <3>5, <3>6 DEF none
    <2>3. CASE side = "Sell"
      <3>1. leg = sell  BY <2>3
      <3>2. Carries(sell, none, sold, none, none)  BY <2>1, <2>3
      <3>3. Carries(sell \o there, none, sold, none, none) /\ IsList(sell \o there)
        BY <1>5, <1>6, <2>1, <3>2, ListsCarry
      <3> HIDE DEF leg
      <3>4. Route = sell \/ Route = sell \o there  BY <1>4, <2>3, <3>1
      <3>5. Carries(Route, none, sold, none, none)  BY <3>2, <3>3, <3>4
      <3>6. IsList(Route)  BY <1>5, <3>3, <3>4
      <3> QED  BY <3>5, <3>6 DEF none
    <2> QED  BY <1>1, <2>2, <2>3
  <1> QED  BY <1>8 DEF sold

\* The recursive function FundNativeSetup takes its program from.
Builders(route, existing) ==
    CHOOSE f : f = [k \in 0..Len(route) |->
                      IF k = 0 THEN [open |-> existing, ixs |-> << >>, refund |-> FALSE]
                      ELSE AppendIx(Sponsor, f[k - 1], route[k])]

LEMMA BuildersRun ==
    ASSUME NEW route, Len(route) \in Nat, NEW existing
    PROVE  /\ FundNativeSetup(route, Sponsor, existing) = Builders(route, existing)[Len(route)].ixs
           /\ Builders(route, existing)[0] = [open |-> existing, ixs |-> << >>, refund |-> FALSE]
           /\ Runs(Builders(route, existing), 0, route)
  <1> DEFINE start == [open |-> existing, ixs |-> << >>, refund |-> FALSE]
             To(f, n) == f = [k \in 0..n |-> IF k = 0 THEN start
                                             ELSE AppendIx(Sponsor, f[k - 1], route[k])]
             S == {n \in 0..Len(route) : \E f : To(f, n)}
             g == Builders(route, existing)
  <1>1. g = CHOOSE f : To(f, Len(route))  BY DEF Builders
  <1>2. FundNativeSetup(route, Sponsor, existing) = g[Len(route)].ixs
    BY DEF FundNativeSetup, Builders
  <1> HIDE DEF start
  <1>3. 0 \in S
    <2> DEFINE f == [k \in 0..0 |-> start]
    <2>1. 0 \in 0..Len(route)  OBVIOUS
    <2>2. \A k \in 0..0 : k = 0  OBVIOUS
    <2>3. To(f, 0)  BY <2>2
    <2> HIDE DEF f, To
    <2> QED  BY <2>1, <2>3
  <1>4. ASSUME NEW n \in 1..Len(route), n - 1 \in S PROVE n \in S
    <2>1. PICK f : To(f, n - 1)  BY <1>4
    <2> DEFINE h == [k \in 0..n |-> IF k = n THEN AppendIx(Sponsor, f[n - 1], route[n]) ELSE f[k]]
    <2>2. f[0] = start /\ \A k \in 1..n - 1 : f[k] = AppendIx(Sponsor, f[k - 1], route[k])
      BY <2>1
    <2>3. h[0] = start
      <3>1. 0 \in 0..n /\ 0 # n  OBVIOUS
      <3> QED  BY <2>2, <3>1
    <2>4. ASSUME NEW k \in 1..n PROVE h[k] = AppendIx(Sponsor, h[k - 1], route[k])
      <3>1. k \in 0..n /\ k - 1 \in 0..n /\ k - 1 # n  OBVIOUS
      <3>2. h[k - 1] = f[k - 1]  BY <3>1
      <3>3. CASE k = n
        <4>1. h[k] = AppendIx(Sponsor, f[n - 1], route[n])  BY <3>1, <3>3
        <4> HIDE DEF h
        <4> QED  BY <3>2, <3>3, <4>1
      <3>4. CASE k # n
        <4>1. k \in 1..n - 1  BY <3>4
        <4>2. h[k] = f[k]  BY <3>1, <3>4
        <4>3. f[k] = AppendIx(Sponsor, f[k - 1], route[k])  BY <2>2, <4>1
        <4> HIDE DEF h
        <4> QED  BY <3>2, <4>2, <4>3
      <3> QED  BY <3>3, <3>4
    <2>5. h = [k \in 0..n |-> h[k]]  OBVIOUS
    <2> HIDE DEF h
    <2>6. \A k \in 0..n : k = 0 \/ k \in 1..n  OBVIOUS
    <2>7. \A k \in 0..n :
            h[k] = IF k = 0 THEN start ELSE AppendIx(Sponsor, h[k - 1], route[k])
      BY <2>3, <2>4, <2>6
    <2>8. To(h, n)  BY <2>5, <2>7
    <2>9. n \in 0..Len(route)  OBVIOUS
    <2> HIDE DEF To
    <2> QED  BY <2>8, <2>9
  <1>5. To(g, Len(route))
    <2>1. 0..Len(route) \subseteq S
      <3> HIDE DEF S
      <3> QED  BY <1>3, <1>4, InductionTo
    <2>2. Len(route) \in S  BY <2>1
    <2>3. \E f : To(f, Len(route))  BY <2>2
    <2> HIDE DEF To, g
    <2> QED  BY <1>1, <2>3
  <1> HIDE DEF g
  <1>6. g[0] = start  BY <1>5
  <1>7. ASSUME NEW i \in 1..Len(route)
        PROVE  g[0 + i] = AppendIx(Sponsor, g[0 + i - 1], route[i])
    <2>1. i \in 0..Len(route) /\ i # 0 /\ 0 + i = i  OBVIOUS
    <2> QED  BY <1>5, <2>1
  <1>8. Runs(g, 0, route)  BY <1>7 DEF Runs, AppendedBy
  <1> QED  BY <1>2, <1>6, <1>8 DEF start, g

\* Before the first instruction of the route what exists is open.
LEMMA BuilderStarts ==
    ASSUME NEW b, b = [open |-> Existing, ixs |-> << >>, refund |-> FALSE]
    PROVE  Ready(b, {}, {SoldAsset})
  <1>1. IsBuilder(b) /\ b.open = Existing /\ b.ixs = << >>  BY DEF IsBuilder
  <1>2. IsList(<< >>) /\ Len(<< >>) = 0  BY ListEmpty
  <1>3. OpenBefore(<< >>, 1) = Existing
    <2> DEFINE none == << >>
    <2>1. Len(none) \in Nat  OBVIOUS
    <2> HIDE DEF none, Existing
    <2>2. OpenBefore(none, 1) = OpenAfters(none)[1 - 1] /\ OpenAfters(none)[0] = Existing
      BY <2>1, OpenAftersSteps
    <2>3. 1 - 1 = 0  OBVIOUS
    <2> QED  BY <2>2, <2>3 DEF none
  <1>4. 1..0 = {}  OBVIOUS
  <1>5. Served(b.ixs) /\ Used(b.ixs, {})  BY <1>1, <1>2, <1>4 DEF Served, Used
  <1>6. b.open \subseteq OpenBefore(b.ixs, Len(b.ixs) + 1)
    <2>1. 0 + 1 = 1  OBVIOUS
    <2> HIDE DEF Existing
    <2> QED  BY <1>1, <1>2, <1>3, <2>1
  <1>7. Sound(b, {})
    <2> HIDE DEF Existing
    <2> QED  BY <1>1, <1>2, <1>5, <1>6 DEF Sound
  <1>8. {SoldAsset} \subseteq b.open  BY <1>1 DEF Existing
  <1> QED  BY <1>7, <1>8 DEF Ready

LEMMA SetupEnough == AccountsInv => SetupOpensWhatSwapsNeed
  <1> SUFFICES ASSUME AccountsInv, Sponsored PROVE SetupOpensWhatSwapsNeed
    BY DEF SetupOpensWhatSwapsNeed
  <1> DEFINE f == Builders(Route, Existing)
             m == FundNativeSetup(Route, Sponsor, Existing)
             n == Len(Route)
  <1>1. Carries(Route, {}, {SoldAsset}, {}, {}) /\ IsList(Route)  BY RouteCarries
  <1>2. n \in Nat /\ DOMAIN Route = 1..n  BY <1>1, ListAppend
  <1>3. /\ m = f[n].ixs /\ Runs(f, 0, Route)
        /\ f[0] = [open |-> Existing, ixs |-> << >>, refund |-> FALSE]
    <2> DEFINE existing == Existing
               route == Route
    <2>1. Len(route) \in Nat  BY <1>2
    <2> HIDE DEF existing, route
    <2>2. /\ FundNativeSetup(route, Sponsor, existing) = Builders(route, existing)[Len(route)].ixs
          /\ Builders(route, existing)[0] = [open |-> existing, ixs |-> << >>, refund |-> FALSE]
          /\ Runs(Builders(route, existing), 0, route)
      BY <2>1, BuildersRun
    <2> QED  BY <2>2 DEF existing, route
  <1> HIDE DEF f, m
  <1>4. Ready(f[0], {}, {SoldAsset})  BY <1>3, BuilderStarts
  <1>5. Ready(f[n], {}, {}) /\ \A i \in 1..n : Recognised(Route[i])
    <2>1. 0 \in Nat /\ 0 + n = n  BY <1>2
    <2> HIDE DEF SoldAsset, Route
    <2>2. Ready(f[0 + n], {}, {}) /\ \A i \in 1..n : Recognised(Route[i])
      BY <1>1, <1>3, <1>4, <2>1 DEF Carries
    <2> QED  BY <2>1, <2>2
  <1>6. Served(m) /\ Used(m, {}) /\ IsList(m)  BY <1>3, <1>5 DEF Ready, Sound
  <1>7. Program = m  BY DEF Program, m
  <1>8. DOMAIN m = 1..Len(m)  BY <1>6, ListAppend
  <1>9. ASSUME NEW i \in DOMAIN m
        PROVE  /\ Venue(m[i]) => Needs(m[i]) \subseteq OpenBefore(m, i)
               /\ Sponsor \in m[i].signers /\ m[i].op # "transfer" =>
                    \E j \in DOMAIN m : j > i /\ Opens(m[i]) \subseteq Accounts(m[j])
    <2>1. i \in 1..Len(m)  BY <1>8
    <2>2. Venue(m[i]) => Needs(m[i]) \subseteq OpenBefore(m, i)  BY <1>6, <2>1 DEF Served
    <2>3. ASSUME Sponsor \in m[i].signers, m[i].op # "transfer"
          PROVE  \E j \in DOMAIN m : j > i /\ Opens(m[i]) \subseteq Accounts(m[j])
      <3> HIDE DEF Opens, Accounts
      <3>1. (Opens(m[i]) # {} /\ Opens(m[i]) \subseteq {})
            \/ \E j \in 1..Len(m) : j > i /\ Opens(m[i]) \subseteq Accounts(m[j])
        BY <1>6, <2>1, <2>3 DEF Used
      <3>2. ~(Opens(m[i]) # {} /\ Opens(m[i]) \subseteq {})  OBVIOUS
      <3> QED  BY <1>8, <3>1, <3>2
    <2> QED  BY <2>2, <2>3
  <1> QED  BY <1>2, <1>5, <1>7, <1>9 DEF SetupOpensWhatSwapsNeed

\* Whatever the venues' settings, the pools, the curves and what the user
\* already has: a sponsored native route is never refused as unsupported, each
\* of its swaps finds open every account it needs, and what the sponsor opens
\* some later instruction uses.
THEOREM SetupServesSwaps == AccountsSpec => []SetupOpensWhatSwapsNeed
  BY AccountsStart, AccountsStep, SetupEnough, PTL DEF AccountsSpec
=============================================================================
