-------------------------- MODULE GuildStorageProofs --------------------------
(***************************************************************************)
(* Proofs about GuildStorage, for every number of members, items, slots,      *)
(* packets, leaves and breaks.                                                *)
(***************************************************************************)
EXTENDS GuildStorage, SequenceTheorems, FiniteSetTheorems, TLAPS

USE StorageAssumption, NoStoreAssumption

----------------------------------------------------------------------------
(* Types, slots, and who has the storage open. *)

\* What fits into the slots: the storage, its rows, and what packets carry of it.
Stores    == {g \in Storage : Cardinality(g.items) <= g.max}
ToCharFit == {p \in ToChar : p.cmd = "savestore" => Cardinality(p.items) <= Cap}
ToMapFit  == {p \in ToMap : p.cmd = "loaded" => Cardinality(p.items) <= Cap}

\* The map server's copy and those who have it open.
Copy ==
  /\ gstor \in Stores \cup {NoStore}
  /\ flag \in [Char -> BOOLEAN]
  /\ \A c \in Char : flag[c] => Known /\ gstor.max = Cap
  /\ StatusHasHolder
  /\ LockMeansClosed

Others ==
  /\ place \in [Char -> {"off", "loading", "on"}]
  /\ inv \in [Char -> SUBSET Item]
  /\ member \subseteq Char /\ roll \subseteq Char
  /\ dbStore \subseteq Item /\ Cardinality(dbStore) <= Cap
  /\ dbInv \in [Char -> SUBSET Item]
  /\ toChar \in Seq(ToCharFit) /\ toMap \in Seq(ToMapFit)
  /\ up \in BOOLEAN /\ apart \in BOOLEAN
  /\ broken \in 0 .. Breaks

LEMMA CapType == Cap \in Nat \ {0} /\ Breaks \in Nat /\ NoStore \notin Storage /\ NoStore \notin SUBSET Item
<1>1. NoStore \notin Storage
  BY ZenonT(20)
<1>2. NoStore \notin SUBSET Item
  BY ZenonT(20)
<1> QED
  BY <1>1, <1>2

LEMMA ItemsFinite ==
  ASSUME NEW S \in SUBSET Item
  PROVE  IsFiniteSet(S) /\ Cardinality(S) \in Nat
BY FS_Subset, FS_CardinalityType

LEMMA TypesHold ==
  ASSUME Copy, Others
  PROVE  TypeOK
<1>1. toChar \in Seq(ToChar) /\ toMap \in Seq(ToMap)
  BY SeqMonotonic DEF Others, ToCharFit, ToMapFit
<1> QED
  BY <1>1 DEF Copy, Others, TypeOK, Stores, Known

LEMMA StorType ==
  ASSUME Copy
  PROVE  /\ Stor \in Stores /\ Stor \in Storage
         /\ Known => gstor \in Storage /\ gstor = Stor
         /\ ~Known => Stor.max = 0 /\ Stor.items = {} /\ ~Stor.status /\ ~Stor.dirty /\ ~Stor.lock
<1>1. Cardinality({}) = 0
  BY FS_EmptySet
<1> QED
  BY <1>1, CapType DEF Copy, Known, Stor, Stores, Storage

\* What is added fits (storage_guild_additem).
LEMMA AddedFits ==
  ASSUME NEW g \in Stores, NEW items \in SUBSET Item, NEW s \in Fits(g, items)
  PROVE  Added(g, s) \in Stores /\ s \subseteq items
<1>1. /\ g \in Storage /\ g.items \in SUBSET Item /\ g.max \in Nat
      /\ Cardinality(g.items) <= g.max
  BY CapType DEF Stores, Storage
<1>2. s \in SUBSET items /\ s \in SUBSET Item
  BY DEF Fits
<1>3. /\ Cardinality(g.items) \in Nat /\ Cardinality(s) \in Nat /\ Cardinality(items) \in Nat
      /\ IsFiniteSet(g.items) /\ IsFiniteSet(s)
  BY <1>1, <1>2, ItemsFinite
<1>4. Cardinality(s) <= g.max - Cardinality(g.items)
  BY <1>1, <1>3 DEF Fits
<1>5. Cardinality(g.items \cup s) <= g.max
  <2>1. /\ Cardinality(g.items \cup s) =
             Cardinality(g.items) + Cardinality(s) - Cardinality(g.items \cap s)
        /\ Cardinality(g.items \cap s) \in Nat
    <3>1. IsFiniteSet(g.items \cap s)
      BY <1>3, FS_Intersection
    <3> QED
      BY <1>3, <3>1, FS_Union, FS_CardinalityType
  <2> QED
    BY <1>1, <1>3, <1>4, <2>1
<1>6. Added(g, s) = [g EXCEPT !.items = g.items \cup s, !.dirty = g.dirty \/ s # {}]
  BY DEF Added
<1> DEFINE h == [g EXCEPT !.items = g.items \cup s, !.dirty = g.dirty \/ s # {}]
<1>7. h \in Storage /\ h.items = g.items \cup s /\ h.max = g.max
  BY <1>1, <1>2 DEF Storage
<1> HIDE DEF h
<1>8. h \in Stores
  BY <1>5, <1>7 DEF Stores
<1> QED
  BY <1>2, <1>6, <1>8 DEF h

LEMMA ClosedStore ==
  ASSUME NEW g \in Stores, NEW l \in BOOLEAN
  PROVE  /\ Closed(g) \in Stores /\ [Closed(g) EXCEPT !.lock = l] \in Stores
         /\ ~Closed(g).status /\ ~[Closed(g) EXCEPT !.lock = l].status
         /\ Closed(g).max = g.max /\ [Closed(g) EXCEPT !.lock = l].max = g.max
         /\ Closed(g).items = g.items /\ [Closed(g) EXCEPT !.lock = l].items = g.items
         /\ Closed(g).dirty = g.dirty /\ [Closed(g) EXCEPT !.lock = l].dirty = g.dirty
BY DEF Closed, Stores, Storage

LEMMA EmptyFit == <<>> \in Seq(ToCharFit)
OBVIOUS

LEMMA InventoryFit ==
  ASSUME Others, NEW c \in Char
  PROVE  InventorySave(c) \in Seq(ToCharFit)
<1> DEFINE iv == inv[c]
           p == [cmd |-> "saveinv", char |-> c, items |-> iv]
<1>1. iv \in SUBSET Item
  BY DEF Others
<1> HIDE DEF iv
<1>2. p \in ToCharFit
  BY <1>1 DEF ToCharFit, ToChar
<1>3. InventorySave(c) = <<p>>
  BY DEF InventorySave, iv
<1> HIDE DEF p
<1> QED
  BY <1>2, <1>3

LEMMA StorageFit ==
  ASSUME Copy, NEW c \in Char
  PROVE  StorageSave(c) \in Seq(ToCharFit)
<1>1. CASE ~(flag[c] /\ Known /\ Stor.dirty)
  <2>1. StorageSave(c) = <<>>
    BY <1>1 DEF StorageSave
  <2> QED
    BY <2>1, EmptyFit
<1>2. CASE flag[c] /\ Known /\ Stor.dirty
  <2> DEFINE st == Stor.items
             p == [cmd |-> "savestore", char |-> c, items |-> st]
  <2>1. st \in SUBSET Item /\ Cardinality(st) <= Cap
    BY <1>2, StorType DEF Copy, Stores, Storage
  <2>2. StorageSave(c) = <<p>>
    BY <1>2 DEF StorageSave
  <2> HIDE DEF st
  <2>3. p \in ToCharFit
    BY <2>1 DEF ToCharFit, ToChar
  <2> HIDE DEF p
  <2> QED
    BY <2>2, <2>3
<1> QED
  BY <1>1, <1>2

LEMMA SaveOfFit ==
  ASSUME Copy, Others, NEW c \in Char, NEW b \in BOOLEAN
  PROVE  /\ SaveOf(c, b) \in Seq(ToCharFit)
         /\ CloseSave(c) \in Seq(ToCharFit)
         /\ CloseSave(c) \o InventorySave(c) \in Seq(ToCharFit)
<1>1. ASSUME NEW x \in BOOLEAN PROVE SaveOf(c, x) \in Seq(ToCharFit)
  <2> DEFINE i == IF x THEN InventorySave(c) ELSE <<>>
             t == StorageSave(c)
  <2>1. i \in Seq(ToCharFit) /\ t \in Seq(ToCharFit)
    BY InventoryFit, StorageFit, EmptyFit, Zenon
  <2>2. SaveOf(c, x) = i \o t
    BY DEF SaveOf
  <2> HIDE DEF i, t
  <2> QED
    BY <2>1, <2>2, ConcatProperties
<1>2. SaveOf(c, TRUE) \in Seq(ToCharFit) /\ SaveOf(c, b) \in Seq(ToCharFit)
  BY <1>1
<1>3. CloseSave(c) \in Seq(ToCharFit)
  BY <1>2, EmptyFit, Zenon DEF CloseSave
<1>4. CloseSave(c) \o InventorySave(c) \in Seq(ToCharFit)
  BY <1>3, InventoryFit, ConcatProperties
<1> QED
  BY <1>2, <1>3, <1>4

LEMMA CloseFit ==
  ASSUME Copy, Others, NEW c \in Char
  PROVE  CloseSave(c) \in Seq(ToCharFit) /\ CloseHolders(c) \in Seq(ToCharFit)
<1>0. ASSUME NEW b \in BOOLEAN PROVE CloseSave(c) \in Seq(ToCharFit)
  BY SaveOfFit
<1>1. CloseSave(c) \in Seq(ToCharFit)
  BY <1>0
<1>2. <<>> \in Seq(ToCharFit)
  OBVIOUS
<1> QED
  BY <1>1, <1>2, Zenon DEF CloseHolders

LEMMA SendsFit ==
  ASSUME Others, NEW ms \in Seq(ToCharFit), Sends(ms)
  PROVE  toChar' \in Seq(ToCharFit)
BY ConcatProperties DEF Others, Sends

LEMMA SendsOneFit ==
  ASSUME Others, NEW p \in ToCharFit, Sends(<<p>>)
  PROVE  toChar' \in Seq(ToCharFit)
<1>1. <<p>> \in Seq(ToCharFit)
  OBVIOUS
<1> QED
  BY <1>1, SendsFit

LEMMA SameCopy ==
  ASSUME Copy, UNCHANGED <<gstor, flag>>
  PROVE  Copy'
BY DEF Copy, StatusHasHolder, LockMeansClosed, Known, Holders

\* A step that leaves the storage closed, and opens it to nobody.
LEMMA ClosingKeeps ==
  ASSUME Copy, gstor' \in Stores, ~gstor'.status, Known => gstor'.max = gstor.max,
         flag' \in [Char -> BOOLEAN], \A c \in Char : flag'[c] => flag[c]
  PROVE  Copy'
<1>1. Known'
  BY CapType DEF Known, Stores
<1> QED
  BY <1>1 DEF Copy, StatusHasHolder, LockMeansClosed, Known

\* storage_guild_storageopen
LEMMA OpensKeeps ==
  ASSUME Copy, NEW g \in Stores, NEW c \in Char, g.max = Cap,
         OpenRefused(g) => g = gstor, Opens(g, c)
  PROVE  Copy'
<1>1. CASE OpenRefused(g)
  BY <1>1, SameCopy DEF Opens
<1>2. CASE ~OpenRefused(g)
  <2>1. gstor' = [g EXCEPT !.status = TRUE] /\ flag' = [flag EXCEPT ![c] = TRUE]
    BY <1>2 DEF Opens
  <2>2. gstor' \in Stores /\ gstor'.max = Cap /\ gstor'.lock = g.lock /\ ~g.lock
    BY <1>2, <2>1 DEF Stores, Storage, OpenRefused
  <2>3. Known'
    BY <2>2, CapType DEF Known, Stores
  <2>4. flag' \in [Char -> BOOLEAN] /\ flag'[c]
    BY <2>1 DEF Copy
  <2>5. Holders' # {}
    BY <2>4 DEF Holders
  <2> QED
    BY <2>2, <2>3, <2>4, <2>5 DEF Copy, StatusHasHolder, LockMeansClosed, Known
<1> QED
  BY <1>1, <1>2

LEMMA StorageCloseKeeps ==
  ASSUME Copy, Others, NEW c \in Char, flag[c], StorageClose(c), UNCHANGED <<charVars, up, broken>>
  PROVE  Copy' /\ Others'
<1>1. Known /\ gstor \in Stores
  BY DEF Copy, Known
<1>2. Copy'
  <2>1. gstor' \in Stores /\ ~gstor'.status /\ gstor'.max = gstor.max
    BY <1>1, ClosedStore DEF StorageClose
  <2>2. flag' \in [Char -> BOOLEAN] /\ \A d \in Char : flag'[d] => flag[d]
    BY DEF StorageClose, Copy
  <2> QED
    BY <2>1, <2>2, ClosingKeeps
<1>3. toChar' \in Seq(ToCharFit)
  BY SaveOfFit, SendsFit DEF StorageClose
<1> QED
  BY <1>2, <1>3 DEF Others, StorageClose, charVars

LEMMA StorageOpenKeeps ==
  ASSUME Copy, Others, NEW c \in Char, StorageOpen(c), UNCHANGED <<charVars, up, broken>>
  PROVE  Copy' /\ Others'
<1>1. CASE Stor.max # Cap
  <2>1. Sends(<<[cmd |-> "load", char |-> c]>>) /\ UNCHANGED <<gstor, flag>>
    BY <1>1 DEF StorageOpen
  <2>2. [cmd |-> "load", char |-> c] \in ToCharFit
    BY DEF ToCharFit, ToChar
  <2> DEFINE p == [cmd |-> "load", char |-> c]
  <2>3. Sends(<<p>>) /\ p \in ToCharFit
    BY <2>1, <2>2
  <2> HIDE DEF p
  <2>4. toChar' \in Seq(ToCharFit)
    BY <2>3, SendsOneFit
  <2> QED
    BY <2>1, <2>4, SameCopy DEF Others, StorageOpen, charVars
<1>2. CASE Stor.max = Cap
  <2>1. Opens(gstor, c) /\ UNCHANGED toChar
    BY <1>2 DEF StorageOpen
  <2>2. gstor \in Stores /\ gstor.max = Cap
    BY <1>2, StorType, CapType DEF Copy, Known
  <2>3. Copy'
    BY <2>1, <2>2, OpensKeeps
  <2> QED
    BY <2>1, <2>3 DEF Others, StorageOpen, charVars
<1> QED
  BY <1>1, <1>2

LEMMA StorageAddKeeps ==
  ASSUME Copy, Others, NEW c \in Char, NEW i \in Item, StorageAdd(c, i), UNCHANGED <<charVars, up, broken>>
  PROVE  Copy' /\ Others'
<1>0. Known /\ gstor \in Stores /\ flag[c] /\ gstor.status /\ ~gstor.lock
  BY DEF StorageAdd, Copy, Known, LockMeansClosed
<1>1. /\ {i} \in Fits(gstor, {i}) /\ gstor' = Added(gstor, {i})
      /\ inv' = [inv EXCEPT ![c] = @ \ {i}]
      /\ UNCHANGED <<flag, place, member, toChar, toMap, apart>>
  BY <1>0 DEF StorageAdd
<1>2. gstor' \in Stores
  BY <1>0, <1>1, AddedFits
<1>3. gstor'.status = gstor.status /\ gstor'.lock = gstor.lock /\ gstor'.max = gstor.max
  BY <1>0, <1>1 DEF Added, Stores, Storage
<1>4. Known'
  BY <1>2, CapType DEF Known, Stores
<1>5. Copy'
  BY <1>0, <1>1, <1>2, <1>3, <1>4 DEF Copy, StatusHasHolder, LockMeansClosed, Known, Holders
<1>6. inv' \in [Char -> SUBSET Item]
  BY <1>1 DEF Others
<1> QED
  BY <1>1, <1>5, <1>6 DEF Others, charVars

LEMMA StorageGetKeeps ==
  ASSUME Copy, Others, NEW c \in Char, NEW i \in Item, StorageGet(c, i), UNCHANGED <<charVars, up, broken>>
  PROVE  Copy' /\ Others'
<1>0. Known /\ gstor \in Stores /\ gstor \in Storage /\ flag[c] /\ gstor.status /\ ~gstor.lock
  BY DEF StorageGet, Copy, Known, LockMeansClosed, Stores
<1>1. /\ gstor' = [gstor EXCEPT !.items = @ \ {i}, !.dirty = TRUE]
      /\ inv' = [inv EXCEPT ![c] = @ \cup {i}]
      /\ UNCHANGED <<flag, place, member, toChar, toMap, apart>>
  BY <1>0 DEF StorageGet
<1>2. gstor'.status = gstor.status /\ gstor'.lock = gstor.lock /\ gstor'.max = gstor.max
      /\ gstor' \in Storage /\ gstor'.items = gstor.items \ {i}
  BY <1>0, <1>1 DEF Storage
<1>3. gstor' \in Stores
  <2>1. gstor.items \in SUBSET Item /\ IsFiniteSet(gstor.items)
    BY <1>0, ItemsFinite DEF Storage
  <2>2. Cardinality(gstor.items \ {i}) <= Cardinality(gstor.items)
    BY <2>1, FS_Subset
  <2>3. Cardinality(gstor.items \ {i}) \in Nat /\ Cardinality(gstor.items) \in Nat
    BY <2>1, ItemsFinite
  <2>4. Cardinality(gstor.items) <= gstor.max /\ gstor.max \in Nat
    BY <1>0, CapType DEF Stores, Storage
  <2> QED
    BY <1>2, <2>2, <2>3, <2>4 DEF Stores
<1>4. Known'
  BY <1>3, CapType DEF Known, Stores
<1>5. Copy'
  BY <1>0, <1>1, <1>2, <1>3, <1>4 DEF Copy, StatusHasHolder, LockMeansClosed, Known, Holders
<1>6. inv' \in [Char -> SUBSET Item]
  BY <1>1 DEF Others
<1> QED
  BY <1>1, <1>5, <1>6 DEF Others, charVars

LEMMA SavingKeeps ==
  ASSUME Copy, Others, NEW c \in Char, Autosave(c) \/ SaveStatus(c), UNCHANGED <<charVars, up, broken>>
  PROVE  Copy' /\ Others'
<1>1. /\ UNCHANGED <<mapVars, toMap>> /\ apart' \in BOOLEAN
      /\ Sends(SaveOf(c, TRUE)) \/ Sends(SaveOf(c, FALSE))
  BY DEF Autosave, SaveStatus, Others
<1>2. toChar' \in Seq(ToCharFit)
  BY <1>1, SaveOfFit, SendsFit
<1> QED
  BY <1>1, <1>2, SameCopy DEF Others, charVars, mapVars

LEMMA CountItemKeeps ==
  ASSUME Copy, Others, NEW c \in Char, CountItem(c), UNCHANGED <<charVars, up, broken>>
  PROVE  Copy' /\ Others'
<1>1. gstor' \in Stores /\ ~gstor'.status /\ gstor'.max = Stor.max
  <2>1. Stor \in Stores /\ gstor' = [Closed(Stor) EXCEPT !.lock = FALSE]
    BY StorType DEF CountItem
  <2> QED
    BY <2>1, ClosedStore
<1>2. Copy'
  BY <1>1, ClosingKeeps, StorType DEF CountItem, Copy
<1>3. toChar' \in Seq(ToCharFit)
  BY SaveOfFit, SendsFit DEF CountItem
<1>4. apart' \in BOOLEAN
  BY StorType DEF CountItem, Others, Storage
<1> QED
  BY <1>2, <1>3, <1>4 DEF CountItem, Others, charVars

LEMMA EnterKeeps ==
  ASSUME Copy, Others, NEW c \in Char, Enter(c), UNCHANGED <<charVars, up, broken>>
  PROVE  Copy' /\ Others'
<1> DEFINE p == [cmd |-> "getinv", char |-> c]
<1>1. Sends(<<p>>) /\ p \in ToCharFit
  BY DEF ToCharFit, ToChar, Enter
<1> HIDE DEF p
<1>2. toChar' \in Seq(ToCharFit)
  BY <1>1, SendsOneFit
<1> QED
  BY <1>2, SameCopy DEF Enter, Others, charVars

LEMMA QuitKeeps ==
  ASSUME Copy, Others, NEW c \in Char, Quit(c), UNCHANGED <<charVars, up, broken>>
  PROVE  Copy' /\ Others'
<1>1. flag' \in [Char -> BOOLEAN] /\ \A d \in Char : flag'[d] => flag[d]
  BY DEF Quit, Copy
<1>0. flag' = [flag EXCEPT ![c] = FALSE] /\ flag \in [Char -> BOOLEAN]
  BY DEF Quit, Copy
<1>2. ASSUME flag[c] PROVE Copy'
  <2>1. gstor \in Stores
    BY <1>2 DEF Copy, Known
  <2>2. gstor' \in Stores /\ ~gstor'.status /\ gstor'.max = gstor.max
    BY <1>2, <2>1, ClosedStore DEF Quit
  <2> QED
    BY <1>1, <2>2, ClosingKeeps
<1>3. ASSUME ~flag[c] PROVE Copy'
  <2>1. gstor' = gstor
    BY <1>3 DEF Quit
  <2>2. flag' = flag
    BY <1>0, <1>3
  <2> QED
    BY <2>1, <2>2, SameCopy
<1>4. toChar' \in Seq(ToCharFit)
  <2>1. CloseSave(c) \o InventorySave(c) \in Seq(ToCharFit)
    BY SaveOfFit
  <2>2. InventorySave(c) \in Seq(ToCharFit)
    BY InventoryFit
  <2>3. Sends(CloseSave(c) \o InventorySave(c)) \/ Sends(InventorySave(c))
    BY DEF Quit
  <2> QED
    BY <2>1, <2>2, <2>3, SendsFit
<1> QED
  BY <1>2, <1>3, <1>4 DEF Quit, Others, charVars

LEMMA LeaveKeeps ==
  ASSUME Copy, Others, NEW c \in Char, Leave(c), UNCHANGED <<charVars, up, broken>>
  PROVE  Copy' /\ Others'
<1> DEFINE p == [cmd |-> "leave", char |-> c]
<1>1. Sends(<<p>>) /\ p \in ToCharFit
  BY DEF ToCharFit, ToChar, Leave
<1> HIDE DEF p
<1>2. toChar' \in Seq(ToCharFit)
  BY <1>1, SendsOneFit
<1> QED
  BY <1>2, SameCopy DEF Leave, Others, charVars, mapVars

LEMMA ClientsKeep ==
  ASSUME Copy, Others, Clients, UNCHANGED <<charVars, up, broken>>
  PROVE  Copy' /\ Others'
<1>1. PICK c \in Char :
        \/ StorageOpen(c) \/ CloseStorage(c)
        \/ \E i \in Item : StorageAdd(c, i) \/ StorageGet(c, i)
        \/ Autosave(c) \/ SaveStatus(c) \/ CountItem(c)
        \/ Enter(c) \/ Quit(c) \/ Leave(c)
  BY DEF Clients
<1>2. CASE CloseStorage(c)
  BY <1>2, StorageCloseKeeps DEF CloseStorage
<1> QED
  BY <1>1, <1>2, StorageOpenKeeps, StorageAddKeeps, StorageGetKeeps, SavingKeeps,
     CountItemKeeps, EnterKeeps, QuitKeeps, LeaveKeeps

\* What the fields of a packet hold.
LEMMA PacketFields ==
  /\ \A p \in ToMapFit :
       /\ p.cmd \in {"loaded", "inv", "saved", "unlock", "withdraw", "store2g"}
       /\ p.cmd \in {"loaded", "inv", "withdraw"} => p.char \in Char
       /\ p.cmd \in {"loaded", "inv", "store2g"} => p.items \in SUBSET Item
       /\ p.cmd = "loaded" => Cardinality(p.items) <= Cap
  /\ \A p \in ToCharFit :
       /\ p.cmd \in {"load", "getinv", "leave", "retrieve", "saveinv", "savestore"}
       /\ p.cmd # "savestore" => p.char \in Char
       /\ p.cmd = "savestore" => p.char \in Char \cup {NoStore}
       /\ p.cmd \in {"saveinv", "savestore"} => p.items \in SUBSET Item
       /\ p.cmd = "savestore" => Cardinality(p.items) <= Cap
BY DEF ToMapFit, ToMap, ToCharFit, ToChar

LEMMA QueueHeads ==
  ASSUME Others
  PROVE  /\ toMap # <<>> => Head(toMap) \in ToMapFit /\ Tail(toMap) \in Seq(ToMapFit)
         /\ toChar # <<>> => Head(toChar) \in ToCharFit /\ Tail(toChar) \in Seq(ToCharFit)
BY DEF Others

LEMMA LoadedKeeps ==
  ASSUME Copy, Others, NEW p \in ToMapFit, p.cmd = "loaded", Loaded(p)
  PROVE  Copy'
<1>1. p.char \in Char /\ p.items \in SUBSET Item /\ Cardinality(p.items) <= Cap
  BY PacketFields
<1> DEFINE fresh == [items |-> p.items, status |-> FALSE, dirty |-> FALSE, lock |-> FALSE, max |-> Cap]
<1>2. fresh \in Stores /\ ~fresh.status /\ ~fresh.lock /\ fresh.max = Cap
  BY <1>1 DEF Stores, Storage
<1>3. CASE place[p.char] = "off"
  BY <1>3, SameCopy DEF Loaded
<1>4. CASE place[p.char] # "off" /\ LoadIgnored(Stor)
  <2>1. gstor' = gstor /\ flag' = flag
    BY <1>4, StorType DEF Loaded, LoadIgnored
  <2> QED
    BY <2>1, SameCopy
<1>5. CASE place[p.char] # "off" /\ ~LoadIgnored(Stor) /\ p.char \in member /\ ~flag[p.char]
  <2>1. Opens(fresh, p.char)
    BY <1>5 DEF Loaded
  <2> HIDE DEF fresh
  <2>2. ~OpenRefused(fresh)
    BY <1>2 DEF OpenRefused
  <2> QED
    BY <1>1, <1>2, <2>1, <2>2, OpensKeeps
<1>6. CASE place[p.char] # "off" /\ ~LoadIgnored(Stor) /\ ~(p.char \in member /\ ~flag[p.char])
  <2>1. gstor' = fresh /\ flag' = flag
    BY <1>6 DEF Loaded
  <2> HIDE DEF fresh
  <2>2. Known'
    BY <1>2, <2>1, CapType DEF Known, Stores
  <2> QED
    BY <1>2, <2>1, <2>2 DEF Copy, StatusHasHolder, LockMeansClosed, Known
<1> QED
  BY <1>3, <1>4, <1>5, <1>6

\* storage_guild_storagesaved, and the packet that takes the lock away.
LEMMA MarkKeeps ==
  ASSUME Copy,
         UNCHANGED flag,
         \/ Saved
         \/ gstor' = IF Known THEN [gstor EXCEPT !.lock = FALSE] ELSE gstor
  PROVE  Copy'
<1>1. CASE gstor' = gstor
  BY <1>1, SameCopy
<1>2. CASE Known /\ gstor' \in {[gstor EXCEPT !.dirty = FALSE], [gstor EXCEPT !.lock = FALSE]}
  <2>1. gstor \in Stores
    BY <1>2 DEF Copy, Known
  <2>2. /\ gstor' \in Stores /\ gstor'.status = gstor.status /\ gstor'.max = gstor.max
        /\ gstor'.lock => gstor.lock
    BY <1>2, <2>1 DEF Stores, Storage
  <2>3. Known'
    BY <2>2, CapType DEF Known, Stores
  <2> QED
    BY <1>2, <2>2, <2>3 DEF Copy, StatusHasHolder, LockMeansClosed, Known, Holders
<1> QED
  BY <1>1, <1>2, Zenon DEF Saved

LEMMA WithdrawOnlineKeeps ==
  ASSUME Copy, Others, NEW c \in Char, WithdrawOnline(c)
  PROVE  /\ Copy' /\ toChar' \in Seq(ToCharFit) /\ inv' \in [Char -> SUBSET Item]
         /\ apart' \in BOOLEAN
<1> DEFINE bound == inv[c] \cap Bound
<1>0. bound \in SUBSET Item /\ Stor \in Stores
  BY StorType DEF Others
<1>1. CASE bound # {}
  <2> DEFINE keep == [FlagsClosed EXCEPT ![c] = FALSE]
  <2>1. PICK first \in (IF Stor.status /\ Holders # {} THEN Holders ELSE {c}), s \in Fits(Stor, bound) :
          /\ Sends(CloseHolders(first))
          /\ gstor' = Added(Closed(Stor), s)
          /\ flag' = keep
          /\ inv' = [inv EXCEPT ![c] = @ \ bound]
          /\ apart' = TRUE
    BY <1>1, Zenon DEF WithdrawOnline
  <2>2. first \in Char
    BY DEF Holders
  <2>3. CloseHolders(first) \in Seq(ToCharFit)
    BY <2>2, CloseFit
  <2>4. toChar' \in Seq(ToCharFit)
    BY <2>1, <2>3, SendsFit
  <2>5. Closed(Stor) \in Stores /\ ~Closed(Stor).status /\ Closed(Stor).max = Stor.max
        /\ Closed(Stor).items = Stor.items
    BY <1>0, ClosedStore
  <2>6. s \in Fits(Closed(Stor), bound)
    BY <2>5 DEF Fits
  <2>7. gstor' \in Stores
    BY <1>0, <2>1, <2>5, <2>6, AddedFits
  <2>8. gstor'.status = Closed(Stor).status /\ gstor'.max = Closed(Stor).max
    BY <2>1, <2>5 DEF Added, Stores, Storage
  <2>9. FlagsClosed \in [Char -> BOOLEAN] /\ \A d \in Char : FlagsClosed[d] => flag[d]
    BY DEF FlagsClosed, Copy
  <2>10. flag' \in [Char -> BOOLEAN] /\ \A d \in Char : flag'[d] => flag[d]
    BY <2>1, <2>9
  <2>11. Copy'
    BY <2>5, <2>7, <2>8, <2>10, ClosingKeeps, StorType
  <2> QED
    BY <2>1, <2>4, <2>11 DEF Others
<1>2. CASE bound = {} /\ flag[c]
  <2>1. /\ gstor' = Closed(gstor)
        /\ flag' = [flag EXCEPT ![c] = FALSE]
        /\ Sends(CloseSave(c))
        /\ UNCHANGED <<inv, apart>>
    BY <1>2 DEF WithdrawOnline
  <2>2. Known /\ gstor \in Stores
    BY <1>2 DEF Copy, Known
  <2>3. gstor' \in Stores /\ ~gstor'.status /\ gstor'.max = gstor.max
    BY <2>1, <2>2, ClosedStore
  <2>4. flag' \in [Char -> BOOLEAN] /\ \A d \in Char : flag'[d] => flag[d]
    BY <2>1 DEF Copy
  <2>5. Copy'
    BY <2>3, <2>4, ClosingKeeps
  <2>6. toChar' \in Seq(ToCharFit)
    BY <2>1, SaveOfFit, SendsFit
  <2> QED
    BY <2>1, <2>5, <2>6 DEF Others
<1>3. CASE bound = {} /\ ~flag[c]
  <2>1. UNCHANGED <<gstor, flag, inv, apart, toChar>>
    BY <1>3 DEF WithdrawOnline
  <2> QED
    BY <2>1, SameCopy DEF Others
<1> QED
  BY <1>1, <1>2, <1>3

LEMMA WithdrawOfflineKeeps ==
  ASSUME Copy, Others, NEW c \in Char, WithdrawOffline(c)
  PROVE  /\ Copy' /\ toChar' \in Seq(ToCharFit) /\ UNCHANGED <<inv, apart>>
<1> DEFINE p == [cmd |-> "retrieve", char |-> c]
<1>1. PICK first \in (IF Holders # {} THEN Holders ELSE {c}) :
        /\ Sends(CloseHolders(first) \o <<p>>)
        /\ flag' = FlagsClosed
        /\ gstor' = IF Known THEN [Closed(gstor) EXCEPT !.lock = TRUE] ELSE gstor
        /\ UNCHANGED <<inv, apart>>
  BY DEF WithdrawOffline
<1>2. p \in ToCharFit
  BY DEF ToCharFit, ToChar
<1> HIDE DEF p
<1>3. CloseHolders(first) \in Seq(ToCharFit)
  <2>1. first \in Char
    BY DEF Holders
  <2> QED
    BY <2>1, CloseFit
<1>4. toChar' \in Seq(ToCharFit)
  <2>1. <<p>> \in Seq(ToCharFit)
    BY <1>2
  <2> HIDE DEF p
  <2>2. CloseHolders(first) \o <<p>> \in Seq(ToCharFit)
    BY <1>3, <2>1, ConcatProperties
  <2> QED
    BY <1>1, <2>2, SendsFit
<1>5. FlagsClosed \in [Char -> BOOLEAN] /\ \A d \in Char : FlagsClosed[d] => flag[d]
  BY DEF FlagsClosed, Copy
<1>6. ASSUME Known PROVE Copy'
  <2>1. gstor \in Stores /\ gstor' = [Closed(gstor) EXCEPT !.lock = TRUE]
    BY <1>1, <1>6 DEF Copy, Known
  <2>2. gstor' \in Stores /\ ~gstor'.status /\ gstor'.max = gstor.max
    BY <2>1, ClosedStore
  <2> QED
    BY <1>1, <1>5, <2>2, ClosingKeeps
<1>7. ASSUME ~Known PROVE Copy'
  <2>1. ~Stor.status
    BY <1>7, StorType
  <2>2. flag' = flag /\ gstor' = gstor
    BY <1>1, <1>7, <2>1 DEF FlagsClosed
  <2> QED
    BY <2>2, SameCopy
<1> QED
  BY <1>1, <1>4, <1>6, <1>7

LEMMA Store2GKeeps ==
  ASSUME Copy, NEW items \in SUBSET Item, Store2G(items), UNCHANGED flag
  PROVE  Copy'
<1>1. PICK s \in Fits(Stor, items) : gstor' = [Added(Closed(Stor), s) EXCEPT !.lock = FALSE]
  BY DEF Store2G
<1>2. Stor \in Stores
  BY StorType
<1>3. Closed(Stor) \in Stores /\ ~Closed(Stor).status /\ Closed(Stor).max = Stor.max
      /\ Closed(Stor).items = Stor.items
  BY <1>2, ClosedStore
<1>4. s \in Fits(Closed(Stor), items)
  BY <1>3 DEF Fits
<1> DEFINE g == Added(Closed(Stor), s)
<1>5. g \in Stores
  BY <1>3, <1>4, AddedFits
<1>6. g.status = Closed(Stor).status /\ g.max = Closed(Stor).max
  BY <1>3 DEF Added, Stores, Storage
<1> HIDE DEF g
<1>7. [g EXCEPT !.lock = FALSE] \in Stores /\ [g EXCEPT !.lock = FALSE].status = g.status
      /\ [g EXCEPT !.lock = FALSE].max = g.max
  BY <1>5 DEF Stores, Storage
<1>8. gstor' \in Stores /\ ~gstor'.status /\ gstor'.max = Stor.max
  BY <1>1, <1>3, <1>6, <1>7 DEF g
<1>9. flag' \in [Char -> BOOLEAN] /\ \A d \in Char : flag'[d] => flag[d]
  BY DEF Copy
<1> QED
  BY <1>8, <1>9, ClosingKeeps, StorType

LEMMA IntifParseKeeps ==
  ASSUME Copy, Others, IntifParse, UNCHANGED <<charVars, up, broken>>
  PROVE  Copy' /\ Others'
<1> DEFINE p == Head(toMap)
<1>1. /\ p \in ToMapFit /\ toMap' = Tail(toMap) /\ toMap' \in Seq(ToMapFit)
      /\ UNCHANGED <<roll, dbStore, dbInv, up, broken>>
  BY QueueHeads DEF IntifParse, charVars
<1>2. \/ /\ p.cmd = "loaded" /\ Loaded(p)
         /\ UNCHANGED <<place, inv, member, toChar, apart>>
      \/ /\ p.cmd = "inv"
         /\ place' = [place EXCEPT ![p.char] = "on"]
         /\ inv' = [inv EXCEPT ![p.char] = p.items]
         /\ UNCHANGED <<gstor, flag, member, toChar, apart>>
      \/ /\ \/ Saved
            \/ gstor' = IF Known THEN [gstor EXCEPT !.lock = FALSE] ELSE gstor
         /\ UNCHANGED <<flag, place, inv, member, toChar, apart>>
      \/ /\ p.cmd = "withdraw" /\ Withdraw(p.char)
         /\ UNCHANGED place
      \/ /\ p.cmd = "store2g" /\ Store2G(p.items)
         /\ UNCHANGED <<flag, place, inv, member, toChar, apart>>
  BY Zenon DEF IntifParse
<1> HIDE DEF p
<1>3. CASE /\ p.cmd = "loaded" /\ Loaded(p)
           /\ UNCHANGED <<place, inv, member, toChar, apart>>
  <2>1. Copy'
    BY <1>1, <1>3, LoadedKeeps
  <2> QED
    BY <1>1, <1>3, <2>1 DEF Others
<1>4. CASE /\ p.cmd = "inv"
           /\ place' = [place EXCEPT ![p.char] = "on"]
           /\ inv' = [inv EXCEPT ![p.char] = p.items]
           /\ UNCHANGED <<gstor, flag, member, toChar, apart>>
  <2>1. Copy'
    BY <1>4, SameCopy
  <2>2. p.char \in Char /\ p.items \in SUBSET Item
    BY <1>1, <1>4, PacketFields
  <2>3. inv' \in [Char -> SUBSET Item] /\ place' \in [Char -> {"off", "loading", "on"}]
    BY <1>4, <2>2 DEF Others
  <2> QED
    BY <1>1, <1>4, <2>1, <2>3 DEF Others
<1>5. CASE /\ \/ Saved
              \/ gstor' = IF Known THEN [gstor EXCEPT !.lock = FALSE] ELSE gstor
           /\ UNCHANGED <<flag, place, inv, member, toChar, apart>>
  <2>1. Copy'
    BY <1>5, MarkKeeps
  <2> QED
    BY <1>1, <1>5, <2>1 DEF Others
<1>6. CASE /\ p.cmd = "withdraw" /\ Withdraw(p.char)
           /\ UNCHANGED place
  <2>1. p.char \in Char
    BY <1>1, <1>6, PacketFields
  <2>2. CASE p.char \notin member
    <3>1. UNCHANGED <<gstor, flag, inv, member, apart, toChar>>
      BY <1>6, <2>2 DEF Withdraw
    <3> QED
      BY <1>1, <1>6, <3>1, SameCopy DEF Others
  <2>3. CASE p.char \in member
    <3>1. member' \subseteq Char /\ (WithdrawOffline(p.char) \/ WithdrawOnline(p.char))
      BY <1>6, <2>3 DEF Withdraw, Others
    <3>2. /\ Copy' /\ toChar' \in Seq(ToCharFit) /\ inv' \in [Char -> SUBSET Item]
          /\ apart' \in BOOLEAN
      <4>1. ASSUME WithdrawOffline(p.char) PROVE <3>2!1
        <5>1. Copy' /\ toChar' \in Seq(ToCharFit) /\ UNCHANGED <<inv, apart>>
          BY <2>1, <4>1, WithdrawOfflineKeeps
        <5> QED
          BY <5>1 DEF Others
      <4> QED
        BY <2>1, <3>1, WithdrawOnlineKeeps, WithdrawOfflineKeeps DEF Others
    <3> QED
      BY <1>1, <1>6, <3>1, <3>2 DEF Others
  <2> QED
    BY <2>2, <2>3
<1>7. CASE /\ p.cmd = "store2g" /\ Store2G(p.items)
           /\ UNCHANGED <<flag, place, inv, member, toChar, apart>>
  <2>1. p.items \in SUBSET Item
    BY <1>1, <1>7, PacketFields
  <2>2. Copy'
    BY <1>7, <2>1, Store2GKeeps
  <2> QED
    BY <1>1, <1>7, <2>2 DEF Others
<1> QED
  BY <1>2, <1>3, <1>4, <1>5, <1>6, <1>7

LEMMA RepliesOneFit ==
  ASSUME Others, NEW q \in ToMapFit, Replies(<<q>>)
  PROVE  toMap' \in Seq(ToMapFit)
<1>1. <<q>> \in Seq(ToMapFit)
  OBVIOUS
<1>2. toMap \o <<q>> \in Seq(ToMapFit)
  BY <1>1, ConcatProperties DEF Others
<1> QED
  BY <1>2 DEF Replies

LEMMA RepliesNoneFit ==
  ASSUME Others, Replies(<<>>)
  PROVE  toMap' = toMap
BY ConcatEmptySeq DEF Others, Replies

LEMMA InterParseKeeps ==
  ASSUME Copy, Others, InterParse, UNCHANGED <<mapVars, up, broken>>
  PROVE  Copy' /\ Others'
<1> DEFINE p == Head(toChar)
<1>1. /\ p \in ToCharFit /\ toChar' \in Seq(ToCharFit)
      /\ UNCHANGED <<gstor, flag, place, inv, member, up, broken>>
  BY QueueHeads DEF InterParse, mapVars
<1>2. \/ /\ p.cmd = "load"
         /\ Replies(<<[cmd |-> "loaded", char |-> p.char, items |-> dbStore]>>)
         /\ UNCHANGED <<roll, dbStore, dbInv, apart>>
      \/ /\ p.cmd = "getinv"
         /\ Replies(<<[cmd |-> "inv", char |-> p.char, items |-> dbInv[p.char]]>>)
         /\ UNCHANGED <<roll, dbStore, dbInv, apart>>
      \/ p.cmd = "saveinv" /\ SaveInventory(p.char, p.items) /\ UNCHANGED <<roll, dbStore, apart>>
      \/ p.cmd = "savestore" /\ SaveGuildStorage(p.items) /\ UNCHANGED <<roll, dbInv, apart>>
      \/ p.cmd = "leave" /\ GuildLeave(p.char) /\ UNCHANGED <<dbStore, dbInv, apart>>
      \/ p.cmd = "retrieve" /\ RetrieveBound(p.char) /\ UNCHANGED <<roll, dbStore>>
  BY Zenon DEF InterParse, charVars
<1> HIDE DEF p
<1>3. Copy'
  BY <1>1, SameCopy
<1>4. CASE /\ p.cmd = "load"
           /\ Replies(<<[cmd |-> "loaded", char |-> p.char, items |-> dbStore]>>)
           /\ UNCHANGED <<roll, dbStore, dbInv, apart>>
  <2>1. p.char \in Char
    BY <1>1, <1>4, PacketFields
  <2> DEFINE q == [cmd |-> "loaded", char |-> p.char, items |-> dbStore]
  <2>2. q \in ToMapFit /\ Replies(<<q>>)
    BY <1>4, <2>1 DEF ToMapFit, ToMap, Others
  <2> HIDE DEF q
  <2>3. toMap' \in Seq(ToMapFit)
    BY <2>2, RepliesOneFit
  <2> QED
    BY <1>1, <1>3, <1>4, <2>3 DEF Others
<1>5. CASE /\ p.cmd = "getinv"
           /\ Replies(<<[cmd |-> "inv", char |-> p.char, items |-> dbInv[p.char]]>>)
           /\ UNCHANGED <<roll, dbStore, dbInv, apart>>
  <2>1. p.char \in Char
    BY <1>1, <1>5, PacketFields
  <2> DEFINE q == [cmd |-> "inv", char |-> p.char, items |-> dbInv[p.char]]
  <2>2. q \in ToMapFit /\ Replies(<<q>>)
    BY <1>5, <2>1 DEF ToMapFit, ToMap, Others
  <2> HIDE DEF q
  <2>3. toMap' \in Seq(ToMapFit)
    BY <2>2, RepliesOneFit
  <2> QED
    BY <1>1, <1>3, <1>5, <2>3 DEF Others
<1>6. CASE p.cmd = "saveinv" /\ SaveInventory(p.char, p.items) /\ UNCHANGED <<roll, dbStore, apart>>
  <2>1. p.items \in SUBSET Item
    BY <1>1, <1>6, PacketFields
  <2>2. dbInv' \in [Char -> SUBSET Item]
    BY <1>6, <2>1 DEF SaveInventory, Others
  <2>3. toMap' \in Seq(ToMapFit)
    BY <1>6, RepliesNoneFit DEF SaveInventory, Others
  <2> QED
    BY <1>1, <1>3, <1>6, <2>2, <2>3 DEF Others
<1>6a. CASE p.cmd = "savestore" /\ SaveGuildStorage(p.items) /\ UNCHANGED <<roll, dbInv, apart>>
  <2>1. p.items \in SUBSET Item /\ Cardinality(p.items) <= Cap
    BY <1>1, <1>6a, PacketFields
  <2>2. dbStore' \in SUBSET Item /\ Cardinality(dbStore') <= Cap
    BY <1>6a, <2>1 DEF SaveGuildStorage
  <2> DEFINE q == [cmd |-> "saved"]
  <2>3. q \in ToMapFit /\ Replies(<<q>>)
    BY <1>6a DEF SaveGuildStorage, ToMapFit, ToMap
  <2> HIDE DEF q
  <2>4. toMap' \in Seq(ToMapFit)
    BY <2>3, RepliesOneFit
  <2> QED
    BY <1>1, <1>3, <1>6a, <2>2, <2>4 DEF Others
<1>7. CASE p.cmd = "leave" /\ GuildLeave(p.char) /\ UNCHANGED <<dbStore, dbInv, apart>>
  <2>1. p.char \in Char /\ roll' \subseteq Char
    BY <1>1, <1>7, PacketFields DEF GuildLeave, Others
  <2> DEFINE q == [cmd |-> "withdraw", char |-> p.char]
  <2>2. q \in ToMapFit /\ (Replies(<<q>>) \/ Replies(<<>>))
    BY <1>7, <2>1 DEF GuildLeave, ToMapFit, ToMap
  <2> HIDE DEF q
  <2>3. toMap' \in Seq(ToMapFit)
    BY <2>2, RepliesOneFit, RepliesNoneFit DEF Others
  <2> QED
    BY <1>1, <1>3, <1>7, <2>1, <2>3 DEF Others
<1>8. CASE p.cmd = "retrieve" /\ RetrieveBound(p.char) /\ UNCHANGED <<roll, dbStore>>
  <2>1. p.char \in Char
    BY <1>1, <1>8, PacketFields
  <2> DEFINE bound == dbInv[p.char] \cap Bound
  <2>2. bound \in SUBSET Item
    BY <2>1 DEF Others
  <2>3. dbInv' \in [Char -> SUBSET Item] /\ apart' \in BOOLEAN
    BY <1>8, <2>1 DEF RetrieveBound, Others
  <2> DEFINE q == [cmd |-> "unlock"]
             r == [cmd |-> "store2g", items |-> bound]
  <2>4. Replies(<<q>>) \/ Replies(<<r>>)
    BY <1>8 DEF RetrieveBound
  <2>5. q \in ToMapFit
    BY DEF ToMapFit, ToMap
  <2> HIDE DEF bound
  <2>6. r \in ToMapFit
    BY <2>2 DEF ToMapFit, ToMap
  <2> HIDE DEF q, r
  <2>7. toMap' \in Seq(ToMapFit)
    BY <2>4, <2>5, <2>6, RepliesOneFit
  <2> QED
    BY <1>1, <1>3, <1>8, <2>3, <2>7 DEF Others
<1> QED
  BY <1>2, <1>4, <1>5, <1>6, <1>6a, <1>7, <1>8

LEMMA LinkBreaksKeeps ==
  ASSUME Copy, Others, LinkBreaks
  PROVE  Copy' /\ Others'
<1>1. Copy'
  BY SameCopy DEF LinkBreaks
<1>2. place' \in [Char -> {"off", "loading", "on"}]
  BY DEF LinkBreaks, Others
<1>3. broken' \in 0 .. Breaks
  BY CapType DEF LinkBreaks, Others
<1>4. <<>> \in Seq(ToCharFit) /\ <<>> \in Seq(ToMapFit)
  OBVIOUS
<1> QED
  BY <1>1, <1>2, <1>3, <1>4 DEF LinkBreaks, Others, charVars

LEMMA ReconnectsKeeps ==
  ASSUME Copy, Others, Reconnects
  PROVE  Copy' /\ Others'
<1>1. UNCHANGED <<gstor, flag, place, inv, member, roll, dbStore, dbInv, toMap, broken, apart>>
  BY DEF Reconnects, mapVars, charVars
<1>2. toChar' \in Seq(ToCharFit)
  <2> DEFINE p == [cmd |-> "savestore", char |-> NoStore, items |-> gstor.items]
  <2>1. toChar' = <<>> \/ (Known /\ toChar' = <<p>>)
    BY DEF Reconnects
  <2>2. ASSUME Known PROVE p \in ToCharFit
    <3>1. gstor.items \in SUBSET Item /\ Cardinality(gstor.items) <= Cap
      <4>1. gstor \in Storage /\ Cardinality(gstor.items) <= gstor.max /\ Cardinality(gstor.items) \in Nat
        BY <2>2, ItemsFinite DEF Copy, Known, Stores, Storage
      <4> QED
        BY <4>1, CapType DEF Storage
    <3> DEFINE st == gstor.items
    <3> HIDE DEF st
    <3>2. [cmd |-> "savestore", char |-> NoStore, items |-> st] \in ToCharFit
      BY <3>1 DEF ToCharFit, ToChar, st
    <3> QED
      BY <3>2 DEF st
  <2> HIDE DEF p
  <2>3. <<>> \in Seq(ToCharFit)
    OBVIOUS
  <2>4. CASE Known /\ toChar' = <<p>>
    BY <2>2, <2>4
  <2> QED
    BY <2>1, <2>3, <2>4
<1> QED
  BY <1>1, <1>2, SameCopy DEF Reconnects, Others

\* The inductive invariant of the types, the slots and the lock.
StoreInv == Copy /\ Others

LEMMA StoreInit == Init => StoreInv
<1> SUFFICES ASSUME Init PROVE StoreInv
  OBVIOUS
<1>1. Cardinality({}) = 0
  BY FS_EmptySet
<1>2. dbInv \in [Char -> SUBSET Item]
  BY DEF Init
<1>3. <<>> \in Seq(ToCharFit) /\ <<>> \in Seq(ToMapFit)
  OBVIOUS
<1>4. Copy
  BY DEF Init, Copy, StatusHasHolder, LockMeansClosed, Known
<1>5. /\ place \in [Char -> {"off", "loading", "on"}] /\ inv \in [Char -> SUBSET Item]
      /\ member \subseteq Char /\ roll \subseteq Char
      /\ up \in BOOLEAN /\ apart \in BOOLEAN
      /\ dbStore = {} /\ toChar = <<>> /\ toMap = <<>> /\ broken = 0
  BY DEF Init
<1>6. dbStore \subseteq Item /\ Cardinality(dbStore) <= Cap /\ broken \in 0 .. Breaks
  BY <1>1, <1>5, CapType
<1> QED
  BY <1>2, <1>3, <1>4, <1>5, <1>6 DEF StoreInv, Others

LEMMA StoreNext == StoreInv /\ [Next]_vars => StoreInv'
<1> SUFFICES ASSUME StoreInv, [Next]_vars PROVE StoreInv'
  OBVIOUS
<1>1. CASE UNCHANGED vars
  BY <1>1, SameCopy DEF StoreInv, Others, vars, mapVars, charVars
<1> QED
  BY <1>1, ClientsKeep, IntifParseKeeps, InterParseKeeps, LinkBreaksKeeps, ReconnectsKeeps
  DEF StoreInv, Next

\* Whatever members, scripts and both servers do: the map server's copy, the rows
\* and the packets stay within their types and within the slots of the storage.
THEOREM StoreInvariant == Spec => []StoreInv
BY StoreInit, StoreNext, PTL DEF Spec

\* ... the type invariant the runs check.
THEOREM StoreTypeCorrect == Spec => []TypeOK
<1>1. StoreInv => TypeOK
  BY TypesHold DEF StoreInv
<1> QED
  BY <1>1, StoreInvariant, PTL

\* A storage that is open has somebody who can close it (storage_guild_storage_quit,
\* guild_member_withdraw, storage_guild_storageclose).
THEOREM HolderCorrect == Spec => []StatusHasHolder
<1>1. StoreInv => StatusHasHolder
  BY DEF StoreInv, Copy
<1> QED
  BY <1>1, StoreInvariant, PTL

\* While the char server takes bound items from a member who is offline, the
\* storage is closed (guild_retrieveitembound).
THEOREM LockCorrect == Spec => []LockMeansClosed
<1>1. StoreInv => LockMeansClosed
  BY DEF StoreInv, Copy
<1> QED
  BY <1>1, StoreInvariant, PTL

----------------------------------------------------------------------------
(* What the saves under way do to the rows.                                 *)

Rows   == [inv : [Char -> SUBSET Item], store : SUBSET Item]
DbRows == [inv |-> dbInv, store |-> dbStore]

StoreSave(p)  == p.cmd = "savestore"
InvSave(p, c) == p.cmd = "saveinv" /\ p.char = c

\* The rows r after the char server has read the packet p.
Applied(r, p) ==
  [inv   |-> IF p.cmd = "saveinv" THEN [r.inv EXCEPT ![p.char] = p.items] ELSE r.inv,
   store |-> IF StoreSave(p) THEN p.items ELSE r.store]

\* Every item is in one place.
Once(r) ==
  /\ \A i \in Item : i \in r.store \/ \E c \in Char : i \in r.inv[c]
  /\ \A c \in Char : r.inv[c] \cap r.store = {}
  /\ \A c, d \in Char : c # d => r.inv[c] \cap r.inv[d] = {}

\* R: the rows between the packets of q, from r to F; F differs from them in what a
\* save still under way writes, and only those whose next packet is the second one of
\* a save, which makes them whole, may fail to have every item once.
Leads(R, q, r, F) ==
  /\ Len(R) = Len(q) + 1 /\ R[1] = r /\ R[Len(q) + 1] = F
  /\ \A k \in 1 .. Len(q) :
       /\ R[k + 1] = Applied(R[k], q[k])
       /\ Once(R[IF StoreSave(q[k]) THEN k + 1 ELSE k])
  /\ \A k \in 1 .. Len(q) + 1 :
       /\ F.store = R[k].store \/ \E j \in k .. Len(q) : StoreSave(q[j])
       /\ \A c \in Char : F.inv[c] = R[k].inv[c] \/ \E j \in k .. Len(q) : InvSave(q[j], c)

Reaches(q, r, F) == Once(F) /\ \E R \in Seq(Rows) : Leads(R, q, r, F)

LEMMA AppliedType ==
  ASSUME NEW r \in Rows, NEW p \in ToCharFit
  PROVE  /\ Applied(r, p) \in Rows
         /\ ~StoreSave(p) => Applied(r, p).store = r.store
         /\ \A c \in Char : ~InvSave(p, c) => Applied(r, p).inv[c] = r.inv[c]
<1>1. /\ p.cmd \in {"saveinv", "savestore"} => p.items \in SUBSET Item
      /\ p.cmd = "saveinv" => p.char \in Char
  BY PacketFields
<1> DEFINE iv == IF p.cmd = "saveinv" THEN [r.inv EXCEPT ![p.char] = p.items] ELSE r.inv
           st == IF StoreSave(p) THEN p.items ELSE r.store
<1>2. r.inv \in [Char -> SUBSET Item] /\ r.store \in SUBSET Item
  BY DEF Rows
<1>3. iv \in [Char -> SUBSET Item] /\ \A c \in Char : ~InvSave(p, c) => iv[c] = r.inv[c]
  BY <1>1, <1>2 DEF InvSave
<1>4. st \in SUBSET Item /\ (~StoreSave(p) => st = r.store)
  BY <1>1, <1>2 DEF StoreSave
<1>5. Applied(r, p) = [inv |-> iv, store |-> st]
  BY DEF Applied
<1> HIDE DEF iv, st
<1> QED
  BY <1>3, <1>4, <1>5 DEF Rows

LEMMA AppliedOther ==
  ASSUME NEW r \in Rows, NEW p \in ToCharFit, p.cmd \notin {"saveinv", "savestore"}
  PROVE  Applied(r, p) = r
BY DEF Applied, Rows, StoreSave

LEMMA AppendFacts ==
  ASSUME NEW S, NEW q \in Seq(S), NEW p \in S
  PROVE  /\ Append(q, p) \in Seq(S) /\ Len(Append(q, p)) = Len(q) + 1 /\ Len(q) \in Nat
         /\ Append(q, p)[Len(q) + 1] = p
         /\ \A k \in 1 .. Len(q) : Append(q, p)[k] = q[k]
         /\ q \o <<p>> = Append(q, p)
<1>1. q \o <<p>> = Append(q, p)
  BY AppendIsConcat
<1> QED
  BY <1>1

LEMMA QueueAppends ==
  ASSUME NEW t \in Seq(ToCharFit), NEW x \in Seq(ToCharFit), NEW y \in Seq(ToCharFit)
  PROVE  t \o (x \o y) = (t \o x) \o y
<1>1. (t \o x) \o y = t \o (x \o y)
  BY ConcatAssociative, SMTT(60)
<1> QED
  BY <1>1

LEMMA TailFacts ==
  ASSUME NEW S, NEW q \in Seq(S), q # <<>>
  PROVE  /\ Tail(q) \in Seq(S) /\ Len(Tail(q)) = Len(q) - 1 /\ Len(q) \in Nat /\ Len(q) >= 1
         /\ Head(q) = q[1] /\ Head(q) \in S
         /\ \A k \in 1 .. Len(q) - 1 : Tail(q)[k] = q[k + 1]
<1>1. Len(q) >= 1 /\ Len(q) \in Nat
  BY EmptySeq
<1> QED
  BY <1>1, HeadTailProperties

LEMMA ReachNow ==
  ASSUME NEW r \in Rows, Once(r)
  PROVE  Reaches(<<>>, r, r)
<1> DEFINE R == <<r>>
<1>1. R \in Seq(Rows) /\ Len(R) = 1 /\ R[1] = r /\ Len(<<>>) = 0
  OBVIOUS
<1> HIDE DEF R
<1>2. \A k \in 1 .. Len(<<>>) + 1 : k = 1
  BY <1>1
<1>3. Leads(R, <<>>, r, r)
  BY <1>1, <1>2 DEF Leads
<1> QED
  BY <1>1, <1>3 DEF Reaches

LEMMA ReachFacts ==
  ASSUME NEW q \in Seq(ToCharFit), NEW r, NEW F, Reaches(q, r, F)
  PROVE  /\ r \in Rows /\ F \in Rows /\ Once(F)
         /\ F.store = r.store \/ \E j \in 1 .. Len(q) : StoreSave(q[j])
         /\ \A c \in Char : F.inv[c] = r.inv[c] \/ \E j \in 1 .. Len(q) : InvSave(q[j], c)
<1>1. PICK R \in Seq(Rows) : Leads(R, q, r, F)
  BY DEF Reaches
<1>2. Len(q) \in Nat /\ 1 \in 1 .. Len(q) + 1 /\ Len(q) + 1 \in 1 .. Len(q) + 1
  OBVIOUS
<1>3. r \in Rows /\ F \in Rows
  BY <1>1, <1>2 DEF Leads
<1>4. Once(F)
  BY DEF Reaches
<1> QED
  BY <1>1, <1>2, <1>3, <1>4, Zenon DEF Leads

\* The rows have every item once, or will with the packet that is next.
LEMMA ReachWhole ==
  ASSUME NEW q \in Seq(ToCharFit), NEW r, NEW F, Reaches(q, r, F)
  PROVE  /\ q = <<>> => Once(r)
         /\ q # <<>> /\ ~StoreSave(q[1]) => Once(r)
         /\ q # <<>> /\ StoreSave(q[1]) => Once(Applied(r, q[1]))
<1>1. PICK R \in Seq(Rows) : Leads(R, q, r, F)
  BY DEF Reaches
<1>2. CASE q = <<>>
  <2>1. Len(q) = 0
    BY <1>2
  <2>2. F = r
    BY <1>1, <2>1 DEF Leads
  <2> QED
    BY <1>2, <2>2 DEF Reaches
<1>3. CASE q # <<>>
  <2>1. 1 \in 1 .. Len(q)
    BY <1>3, TailFacts
  <2>2. R[1] = r /\ R[2] = Applied(R[1], q[1]) /\ Once(R[IF StoreSave(q[1]) THEN 2 ELSE 1])
    BY <1>1, <2>1 DEF Leads
  <2> QED
    BY <1>3, <2>2
<1> QED
  BY <1>2, <1>3

LEMMA LeadsPush ==
  ASSUME NEW q \in Seq(ToCharFit), NEW r, NEW F \in Rows, NEW R \in Seq(Rows), Leads(R, q, r, F),
         NEW p \in ToCharFit, IF StoreSave(p) THEN Once(Applied(F, p)) ELSE Once(F)
  PROVE  \E S \in Seq(Rows) : Leads(S, Append(q, p), r, Applied(F, p))
<1> DEFINE G == Applied(F, p)
           S == Append(R, G)
           t == Append(q, p)
           n == Len(q)
<1>3. G \in Rows /\ (~StoreSave(p) => G.store = F.store)
      /\ \A c \in Char : ~InvSave(p, c) => G.inv[c] = F.inv[c]
  BY AppliedType
<1>4. /\ t \in Seq(ToCharFit) /\ Len(t) = n + 1 /\ n \in Nat /\ t[n + 1] = p
      /\ \A k \in 1 .. n : t[k] = q[k]
  BY AppendFacts
<1>5. Len(R) = n + 1 /\ R[1] = r /\ R[n + 1] = F
  BY DEF Leads
<1>6. /\ S \in Seq(Rows) /\ Len(S) = n + 2 /\ S[n + 2] = G
      /\ \A k \in 1 .. n + 1 : S[k] = R[k]
  BY <1>3, <1>4, <1>5, AppendFacts
<1>7. G = Applied(F, p) /\ Once(IF StoreSave(p) THEN G ELSE F)
  OBVIOUS
<1> HIDE DEF G, S, t, n
<1>8. S[1] = r
  BY <1>4, <1>5, <1>6
<1>9. ASSUME NEW k \in 1 .. n + 1
      PROVE  S[k + 1] = Applied(S[k], t[k]) /\ Once(S[IF StoreSave(t[k]) THEN k + 1 ELSE k])
  <2>1. CASE k = n + 1
    <3>1. k \in 1 .. n + 1 /\ S[k] = F /\ t[k] = p /\ S[k + 1] = G
      BY <1>4, <1>5, <1>6, <2>1
    <3> QED
      BY <1>7, <3>1
  <2>2. CASE k \in 1 .. n
    <3>1. R[k + 1] = Applied(R[k], q[k]) /\ Once(R[IF StoreSave(q[k]) THEN k + 1 ELSE k])
      BY <2>2 DEF Leads, n
    <3>2. t[k] = q[k] /\ S[k] = R[k] /\ S[k + 1] = R[k + 1]
      BY <1>4, <1>6, <2>2, SMTT(30)
    <3> QED
      BY <3>1, <3>2
  <2> QED
    BY <1>4, <2>1, <2>2
<1>10. ASSUME NEW k \in 1 .. n + 2
       PROVE  /\ G.store = S[k].store \/ \E j \in k .. n + 1 : StoreSave(t[j])
              /\ \A c \in Char : G.inv[c] = S[k].inv[c] \/ \E j \in k .. n + 1 : InvSave(t[j], c)
  <2>1. CASE k = n + 2
    BY <1>6, <1>7, <2>1
  <2>2. CASE k \in 1 .. n + 1
    <3>1. /\ F.store = R[k].store \/ \E j \in k .. n : StoreSave(q[j])
          /\ \A c \in Char : F.inv[c] = R[k].inv[c] \/ \E j \in k .. n : InvSave(q[j], c)
      BY <2>2 DEF Leads, n
    <3>2. S[k] = R[k] /\ n + 1 \in k .. n + 1 /\ \A j \in k .. n : j \in k .. n + 1 /\ t[j] = q[j]
      BY <1>4, <1>6, <2>2
    <3>3. G.store = S[k].store \/ \E j \in k .. n + 1 : StoreSave(t[j])
      <4>1. CASE StoreSave(p)
        BY <1>4, <3>2, <4>1
      <4>2. CASE ~StoreSave(p)
        BY <1>3, <3>1, <3>2, <4>2
      <4> QED
        BY <4>1, <4>2
    <3>4. ASSUME NEW c \in Char
          PROVE  G.inv[c] = S[k].inv[c] \/ \E j \in k .. n + 1 : InvSave(t[j], c)
      <4>1. CASE InvSave(p, c)
        BY <1>4, <3>2, <4>1
      <4>2. CASE ~InvSave(p, c)
        BY <1>3, <3>1, <3>2, <4>2
      <4> QED
        BY <4>1, <4>2
    <3> QED
      BY <3>1, <3>2, <3>3, <3>4
  <2> QED
    BY <1>4, <2>1, <2>2
<1>11. Leads(S, t, r, G)
  <2>1. Len(t) + 1 = n + 2
    BY <1>4
  <2> QED
    BY <1>4, <1>6, <1>8, <1>9, <1>10, <2>1 DEF Leads
<1> QED
  BY <1>6, <1>11 DEF G, t

\* A packet that goes out, ...
LEMMA ReachPush ==
  ASSUME NEW q \in Seq(ToCharFit), NEW r, NEW F, Reaches(q, r, F),
         NEW p \in ToCharFit, Once(Applied(F, p))
  PROVE  Reaches(Append(q, p), r, Applied(F, p))
<1>1. F \in Rows /\ Once(F)
  BY ReachFacts
<1>2. PICK R \in Seq(Rows) : Leads(R, q, r, F)
  BY DEF Reaches
<1>3. \E S \in Seq(Rows) : Leads(S, Append(q, p), r, Applied(F, p))
  BY <1>1, <1>2, LeadsPush
<1> QED
  BY <1>3 DEF Reaches

\* ... and two of which the second one makes the rows whole.
LEMMA ReachPushTwo ==
  ASSUME NEW q \in Seq(ToCharFit), NEW r, NEW F, Reaches(q, r, F),
         NEW p \in ToCharFit, ~StoreSave(p), NEW p2 \in ToCharFit, StoreSave(p2),
         Once(Applied(Applied(F, p), p2))
  PROVE  Reaches(Append(Append(q, p), p2), r, Applied(Applied(F, p), p2))
<1>1. F \in Rows /\ Once(F) /\ Applied(F, p) \in Rows
  BY ReachFacts, AppliedType
<1>2. PICK R \in Seq(Rows) : Leads(R, q, r, F)
  BY DEF Reaches
<1>3. PICK S \in Seq(Rows) : Leads(S, Append(q, p), r, Applied(F, p))
  BY <1>1, <1>2, LeadsPush
<1>4. Append(q, p) \in Seq(ToCharFit)
  BY AppendFacts
<1>5. \E T \in Seq(Rows) : Leads(T, Append(Append(q, p), p2), r, Applied(Applied(F, p), p2))
  BY <1>1, <1>3, <1>4, LeadsPush
<1> QED
  BY <1>5 DEF Reaches

LEMMA ReachPop ==
  ASSUME NEW q \in Seq(ToCharFit), NEW r, NEW F, Reaches(q, r, F), q # <<>>
  PROVE  Reaches(Tail(q), Applied(r, Head(q)), F)
<1>1. PICK R \in Seq(Rows) : Leads(R, q, r, F)
  BY DEF Reaches
<1> DEFINE S == Tail(R)
           t == Tail(q)
           n == Len(q)
<1>2. /\ t \in Seq(ToCharFit) /\ Len(t) = n - 1 /\ n \in Nat /\ n >= 1 /\ Head(q) = q[1]
      /\ \A k \in 1 .. n - 1 : t[k] = q[k + 1]
  BY TailFacts
<1>3. Len(R) = n + 1 /\ R[1] = r /\ R[n + 1] = F
  BY <1>1 DEF Leads
<1>4. R # <<>>
  BY <1>2, <1>3
<1>5. S \in Seq(Rows) /\ Len(S) = n /\ \A k \in 1 .. n : S[k] = R[k + 1]
  <2>1. S \in Seq(Rows) /\ Len(S) = Len(R) - 1 /\ \A k \in 1 .. Len(R) - 1 : S[k] = R[k + 1]
    BY <1>4, TailFacts
  <2> QED
    BY <1>2, <1>3, <2>1
<1> HIDE DEF S, t, n
<1>6. S[1] = Applied(r, Head(q)) /\ S[n] = F
  <2>1. R[2] = Applied(R[1], q[1])
    BY <1>1, <1>2 DEF Leads, n
  <2> QED
    BY <1>2, <1>3, <1>5, <2>1
<1>7. ASSUME NEW k \in 1 .. n - 1
      PROVE  S[k + 1] = Applied(S[k], t[k]) /\ Once(S[IF StoreSave(t[k]) THEN k + 1 ELSE k])
  <2>1. k + 1 \in 1 .. n /\ k \in 1 .. n
    BY <1>2
  <2>2. /\ R[(k + 1) + 1] = Applied(R[k + 1], q[k + 1])
        /\ Once(R[IF StoreSave(q[k + 1]) THEN (k + 1) + 1 ELSE k + 1])
    BY <1>1, <2>1 DEF Leads, n
  <2>3. t[k] = q[k + 1] /\ S[k] = R[k + 1] /\ S[k + 1] = R[(k + 1) + 1]
    BY <1>2, <1>5, <2>1
  <2> QED
    BY <2>2, <2>3
<1>8. ASSUME NEW k \in 1 .. n
      PROVE  /\ F.store = S[k].store \/ \E j \in k .. n - 1 : StoreSave(t[j])
             /\ \A c \in Char : F.inv[c] = S[k].inv[c] \/ \E j \in k .. n - 1 : InvSave(t[j], c)
  <2>1. k + 1 \in 1 .. n + 1
    BY <1>2
  <2>2. /\ F.store = R[k + 1].store \/ \E j \in k + 1 .. n : StoreSave(q[j])
        /\ \A c \in Char : F.inv[c] = R[k + 1].inv[c] \/ \E j \in k + 1 .. n : InvSave(q[j], c)
    BY <1>1, <2>1 DEF Leads, n
  <2>3. \A j \in k + 1 .. n : j - 1 \in k .. n - 1 /\ t[j - 1] = q[j]
    BY <1>2
  <2> QED
    BY <1>5, <2>2, <2>3
<1>9. Leads(S, t, Applied(r, Head(q)), F)
  <2>1. Len(t) + 1 = n
    BY <1>2
  <2> QED
    BY <1>2, <1>5, <1>6, <1>7, <1>8, <2>1 DEF Leads
<1> QED
  BY <1>5, <1>9 DEF Reaches, t

----------------------------------------------------------------------------
(* What is under way for one member, and for the storage; q goes to the char  *)
(* server, m to the map server.                                               *)

Asks(p, cmd, c) == p.cmd = cmd /\ p.char = c

\* A member waits for his inventory: it was asked for once, and nothing of his that
\* is under way changes the rows it is read from.
EnterOf(c, q, m, at, rows) ==
  /\ at # "loading" =>
       /\ \A k \in 1 .. Len(q) : ~Asks(q[k], "getinv", c)
       /\ \A k \in 1 .. Len(m) : ~Asks(m[k], "inv", c)
  /\ at = "loading" =>
       /\ \A k \in 1 .. Len(q) : ~InvSave(q[k], c) /\ ~Asks(q[k], "load", c)
       /\ \A k \in 1 .. Len(m) : ~Asks(m[k], "loaded", c)
  /\ \A k \in 1 .. Len(m) : Asks(m[k], "inv", c) => m[k].items = rows
  /\ \A j, k \in 1 .. Len(q) : Asks(q[j], "getinv", c) /\ Asks(q[k], "getinv", c) => j = k
  /\ \A j, k \in 1 .. Len(m) : Asks(m[j], "inv", c) /\ Asks(m[k], "inv", c) => j = k
  /\ \A j \in 1 .. Len(q), k \in 1 .. Len(m) : ~(Asks(q[j], "getinv", c) /\ Asks(m[k], "inv", c))

LEMMA EnterPush ==
  ASSUME NEW q \in Seq(ToCharFit), NEW m, NEW c \in Char, NEW at, NEW rows, NEW p \in ToCharFit,
         EnterOf(c, q, m, at, rows),
         ~Asks(p, "getinv", c), at = "loading" => ~InvSave(p, c) /\ ~Asks(p, "load", c)
  PROVE  EnterOf(c, Append(q, p), m, at, rows)
<1> DEFINE t == Append(q, p)
<1>1. /\ Len(t) = Len(q) + 1 /\ Len(q) \in Nat /\ t[Len(q) + 1] = p
      /\ \A k \in 1 .. Len(q) : t[k] = q[k]
  BY AppendFacts
<1> HIDE DEF t
<1>2. \A k \in 1 .. Len(t) : (k \in 1 .. Len(q) /\ t[k] = q[k]) \/ t[k] = p
  BY <1>1
<1>3. EnterOf(c, t, m, at, rows)
  BY <1>2 DEF EnterOf
<1> QED
  BY <1>3 DEF t

LEMMA EnterAsk ==
  ASSUME NEW q \in Seq(ToCharFit), NEW m, NEW c \in Char, NEW rows, NEW p \in ToCharFit,
         EnterOf(c, q, m, "off", rows), Asks(p, "getinv", c),
         \A k \in 1 .. Len(q) : q[k].char # c,
         \A k \in 1 .. Len(m) : ~Asks(m[k], "loaded", c)
  PROVE  EnterOf(c, Append(q, p), m, "loading", rows)
<1> DEFINE t == Append(q, p)
<1>1. /\ Len(t) = Len(q) + 1 /\ Len(q) \in Nat /\ t[Len(q) + 1] = p
      /\ \A k \in 1 .. Len(q) : t[k] = q[k]
  BY AppendFacts
<1> HIDE DEF t
<1>2. \A k \in 1 .. Len(t) :
        (k \in 1 .. Len(q) /\ t[k] = q[k] /\ t[k].char # c) \/ (k = Len(t) /\ t[k] = p)
  BY <1>1
<1>3. ~InvSave(p, c) /\ ~Asks(p, "load", c)
  BY DEF InvSave, Asks
<1>4. \A k \in 1 .. Len(t) : (~InvSave(t[k], c) /\ ~Asks(t[k], "load", c))
        /\ (Asks(t[k], "getinv", c) => k = Len(t))
  BY <1>2, <1>3 DEF InvSave, Asks
<1>5. EnterOf(c, t, m, "loading", rows)
  BY <1>4 DEF EnterOf
<1> QED
  BY <1>5 DEF t

LEMMA EnterPop ==
  ASSUME NEW q \in Seq(ToCharFit), NEW m, NEW c \in Char, NEW at, NEW rows,
         EnterOf(c, q, m, at, rows), q # <<>>
  PROVE  EnterOf(c, Tail(q), m, at, rows)
<1> DEFINE t == Tail(q)
<1>1. /\ Len(t) = Len(q) - 1 /\ Len(q) \in Nat
      /\ \A k \in 1 .. Len(q) - 1 : t[k] = q[k + 1]
  BY TailFacts
<1> HIDE DEF t
<1>2. \A k \in 1 .. Len(t) : k + 1 \in 1 .. Len(q) /\ t[k] = q[k + 1] /\ k \in Nat
  BY <1>1
<1>3. \A j, k \in 1 .. Len(t) : Asks(t[j], "getinv", c) /\ Asks(t[k], "getinv", c) => j = k
  <2> SUFFICES ASSUME NEW j \in 1 .. Len(t), NEW k \in 1 .. Len(t),
                      Asks(t[j], "getinv", c), Asks(t[k], "getinv", c)
               PROVE  j = k
    OBVIOUS
  <2>1. j + 1 = k + 1
    BY <1>2 DEF EnterOf
  <2> QED
    BY <2>1
<1>4. EnterOf(c, t, m, at, rows)
  BY <1>2, <1>3 DEF EnterOf
<1> QED
  BY <1>4 DEF t

LEMMA EnterTake ==
  ASSUME NEW q, NEW m \in Seq(ToMapFit), NEW c \in Char, NEW at, NEW rows,
         EnterOf(c, q, m, at, rows), m # <<>>
  PROVE  EnterOf(c, q, Tail(m), at, rows)
<1> DEFINE t == Tail(m)
<1>1. /\ Len(t) = Len(m) - 1 /\ Len(m) \in Nat
      /\ \A k \in 1 .. Len(m) - 1 : t[k] = m[k + 1]
  BY TailFacts
<1> HIDE DEF t
<1>2. \A k \in 1 .. Len(t) : k + 1 \in 1 .. Len(m) /\ t[k] = m[k + 1] /\ k \in Nat
  BY <1>1
<1>3. \A j, k \in 1 .. Len(t) : Asks(t[j], "inv", c) /\ Asks(t[k], "inv", c) => j = k
  <2> SUFFICES ASSUME NEW j \in 1 .. Len(t), NEW k \in 1 .. Len(t),
                      Asks(t[j], "inv", c), Asks(t[k], "inv", c)
               PROVE  j = k
    OBVIOUS
  <2>1. j + 1 = k + 1
    BY <1>2 DEF EnterOf
  <2> QED
    BY <2>1
<1>4. EnterOf(c, q, t, at, rows)
  BY <1>2, <1>3 DEF EnterOf
<1> QED
  BY <1>4 DEF t

\* His inventory has come.
LEMMA EnterGot ==
  ASSUME NEW q, NEW m \in Seq(ToMapFit), NEW c \in Char, NEW at, NEW rows,
         EnterOf(c, q, m, at, rows), m # <<>>, Asks(Head(m), "inv", c)
  PROVE  at = "loading" /\ Head(m).items = rows /\ EnterOf(c, q, Tail(m), "on", rows)
<1> DEFINE t == Tail(m)
<1>1. /\ Len(t) = Len(m) - 1 /\ Len(m) \in Nat /\ Len(m) >= 1 /\ Head(m) = m[1]
      /\ \A k \in 1 .. Len(m) - 1 : t[k] = m[k + 1]
  BY TailFacts
<1> HIDE DEF t
<1>2. 1 \in 1 .. Len(m) /\ Asks(m[1], "inv", c)
  BY <1>1
<1>3. at = "loading" /\ m[1].items = rows
  BY <1>2 DEF EnterOf
<1>4. \A j \in 1 .. Len(q) : ~Asks(q[j], "getinv", c)
  BY <1>2 DEF EnterOf
<1>5. \A k \in 1 .. Len(t) : ~Asks(t[k], "inv", c)
  <2> SUFFICES ASSUME NEW k \in 1 .. Len(t), Asks(t[k], "inv", c) PROVE FALSE
    OBVIOUS
  <2>1. k + 1 \in 1 .. Len(m) /\ Asks(m[k + 1], "inv", c)
    BY <1>1
  <2>2. k + 1 = 1
    BY <1>2, <2>1 DEF EnterOf
  <2> QED
    BY <2>2
<1>6. EnterOf(c, q, t, "on", rows)
  BY <1>4, <1>5 DEF EnterOf
<1> QED
  BY <1>1, <1>3, <1>6 DEF t

\* The char server answers something else.
LEMMA EnterReply ==
  ASSUME NEW q, NEW m \in Seq(ToMapFit), NEW c \in Char, NEW at, NEW rows, NEW p \in ToMapFit,
         EnterOf(c, q, m, at, rows),
         ~Asks(p, "inv", c), at = "loading" => ~Asks(p, "loaded", c)
  PROVE  EnterOf(c, q, Append(m, p), at, rows)
<1> DEFINE t == Append(m, p)
<1>1. /\ Len(t) = Len(m) + 1 /\ Len(m) \in Nat /\ t[Len(m) + 1] = p
      /\ \A k \in 1 .. Len(m) : t[k] = m[k]
  BY AppendFacts
<1> HIDE DEF t
<1>2. \A k \in 1 .. Len(t) : (k \in 1 .. Len(m) /\ t[k] = m[k]) \/ t[k] = p
  BY <1>1
<1>3. EnterOf(c, q, t, at, rows)
  BY <1>2 DEF EnterOf
<1> QED
  BY <1>3 DEF t

\* The char server answers with his inventory.
LEMMA EnterAnswer ==
  ASSUME NEW q \in Seq(ToCharFit), NEW m \in Seq(ToMapFit), NEW c \in Char, NEW at, NEW rows,
         NEW p \in ToMapFit,
         EnterOf(c, q, m, at, rows), q # <<>>, Asks(Head(q), "getinv", c),
         Asks(p, "inv", c), p.items = rows
  PROVE  EnterOf(c, Tail(q), Append(m, p), at, rows)
<1> DEFINE t == Append(m, p)
           u == Tail(q)
<1>1. /\ Len(t) = Len(m) + 1 /\ Len(m) \in Nat /\ t[Len(m) + 1] = p
      /\ \A k \in 1 .. Len(m) : t[k] = m[k]
  BY AppendFacts
<1>2. /\ Len(u) = Len(q) - 1 /\ Len(q) \in Nat /\ Len(q) >= 1 /\ Head(q) = q[1]
      /\ \A k \in 1 .. Len(q) - 1 : u[k] = q[k + 1]
  BY TailFacts
<1>3. EnterOf(c, u, m, at, rows)
  BY EnterPop
<1> HIDE DEF t, u
<1>4. 1 \in 1 .. Len(q) /\ Asks(q[1], "getinv", c)
  BY <1>2
<1>5. at = "loading"
  BY <1>4 DEF EnterOf
<1>6. \A k \in 1 .. Len(m) : ~Asks(m[k], "inv", c)
  BY <1>4 DEF EnterOf
<1>7. \A k \in 1 .. Len(u) : ~Asks(u[k], "getinv", c)
  <2> SUFFICES ASSUME NEW k \in 1 .. Len(u), Asks(u[k], "getinv", c) PROVE FALSE
    OBVIOUS
  <2>1. k + 1 \in 1 .. Len(q) /\ Asks(q[k + 1], "getinv", c)
    BY <1>2
  <2>2. k + 1 = 1
    BY <1>4, <2>1 DEF EnterOf
  <2> QED
    BY <2>2
<1>8. \A k \in 1 .. Len(t) : (k \in 1 .. Len(m) /\ t[k] = m[k]) \/ (t[k] = p /\ k = Len(t))
  BY <1>1
<1>9. \A k \in 1 .. Len(t) : Asks(t[k], "inv", c) => k = Len(t) /\ t[k].items = rows
  BY <1>6, <1>8
<1>10. \A k \in 1 .. Len(t) : ~Asks(t[k], "loaded", c)
  <2>1. ~Asks(p, "loaded", c)
    BY DEF Asks
  <2> QED
    BY <1>3, <1>5, <1>8, <2>1 DEF EnterOf
<1>11. EnterOf(c, u, t, at, rows)
  BY <1>3, <1>5, <1>7, <1>9, <1>10 DEF EnterOf
<1> QED
  BY <1>11 DEF t, u

LEMMA EnterRows ==
  ASSUME NEW q, NEW m, NEW c \in Char, NEW at, NEW rows, NEW new,
         EnterOf(c, q, m, at, rows), at = "loading" => new = rows
  PROVE  EnterOf(c, q, m, at, new)
BY DEF EnterOf

LEMMA EnterStop ==
  ASSUME NEW q, NEW m, NEW c \in Char, NEW rows, EnterOf(c, q, m, "on", rows)
  PROVE  EnterOf(c, q, m, "off", rows)
BY DEF EnterOf

----------------------------------------------------------------------------
Unsaved(q, m) ==
  /\ \A k \in 1 .. Len(q) : ~StoreSave(q[k])
  /\ \A k \in 1 .. Len(m) : m[k].cmd # "saved"

\* A load that is under way brings what the storage is going to be, unless it is
\* dirty; an acknowledgement never overtakes a load.
Loads(q, m, g, rows) ==
  /\ \A j, k \in 1 .. Len(m) : m[j].cmd = "loaded" /\ m[k].cmd = "saved" => j < k
  /\ \A j \in 1 .. Len(q) : q[j].cmd = "load" =>
       /\ \A k \in 1 .. Len(m) : m[k].cmd # "saved"
       /\ \A k \in 1 .. Len(q) : StoreSave(q[k]) => j < k
  /\ \/ /\ \A k \in 1 .. Len(q) : q[k].cmd # "load"
        /\ \A k \in 1 .. Len(m) : m[k].cmd # "loaded"
     \/ g.dirty
     \/ Unsaved(q, m) /\ \A k \in 1 .. Len(m) : m[k].cmd = "loaded" => m[k].items = rows
  /\ g.max # Cap => Unsaved(q, m) /\ ~g.dirty

LEMMA LoadsPush ==
  ASSUME NEW q \in Seq(ToCharFit), NEW m, NEW g \in Storage, NEW rows,
         NEW p \in ToCharFit, Loads(q, m, g, rows),
         p.cmd = "load" => g.max # Cap, StoreSave(p) => g.dirty /\ g.max = Cap
  PROVE  Loads(Append(q, p), m, g, rows)
<1> DEFINE t == Append(q, p)
<1>1. /\ Len(t) = Len(q) + 1 /\ Len(q) \in Nat /\ t[Len(q) + 1] = p
      /\ \A k \in 1 .. Len(q) : t[k] = q[k]
  BY AppendFacts
<1> HIDE DEF t
<1>2. \A k \in 1 .. Len(t) : (k \in 1 .. Len(q) /\ t[k] = q[k]) \/ (t[k] = p /\ k = Len(q) + 1)
  BY <1>1
<1>3. CASE p.cmd = "load"
  <2>1. ~StoreSave(p) /\ Unsaved(q, m) /\ ~g.dirty
    BY <1>3 DEF StoreSave, Loads
  <2>2. Unsaved(t, m)
    BY <1>2, <2>1 DEF Unsaved
  <2>3. \A k \in 1 .. Len(m) : m[k].cmd = "loaded" => m[k].items = rows
    BY <2>1 DEF Loads
  <2>4. Loads(t, m, g, rows)
    BY <2>1, <2>2, <2>3 DEF Loads, Unsaved
  <2> QED
    BY <2>4 DEF t
<1>4. CASE p.cmd # "load" /\ ~StoreSave(p)
  <2>1. Unsaved(q, m) => Unsaved(t, m)
    BY <1>2, <1>4 DEF Unsaved
  <2>2. Loads(t, m, g, rows)
    BY <1>2, <1>4, <2>1 DEF Loads
  <2> QED
    BY <2>2 DEF t
<1>5. CASE StoreSave(p)
  <2>1. g.dirty /\ g.max = Cap /\ p.cmd # "load"
    BY <1>5 DEF StoreSave
  <2>2. \A j \in 1 .. Len(t) : t[j].cmd = "load" =>
          /\ \A k \in 1 .. Len(m) : m[k].cmd # "saved"
          /\ \A k \in 1 .. Len(t) : StoreSave(t[k]) => j < k
    <3> SUFFICES ASSUME NEW j \in 1 .. Len(t), t[j].cmd = "load"
                 PROVE  /\ \A k \in 1 .. Len(m) : m[k].cmd # "saved"
                        /\ \A k \in 1 .. Len(t) : StoreSave(t[k]) => j < k
      OBVIOUS
    <3>1. j \in 1 .. Len(q) /\ q[j].cmd = "load"
      BY <1>2, <2>1
    <3> QED
      BY <1>1, <1>2, <3>1 DEF Loads
  <2>3. Loads(t, m, g, rows)
    BY <2>1, <2>2 DEF Loads
  <2> QED
    BY <2>3 DEF t
<1> QED
  BY <1>3, <1>4, <1>5

\* The map server's copy changes.
LEMMA LoadsStore ==
  ASSUME NEW q, NEW m, NEW g \in Storage, NEW h \in Storage, NEW rows,
         Loads(q, m, g, rows), g.dirty => h.dirty, g.max = Cap => h.max = Cap,
         h.max # Cap => ~h.dirty
  PROVE  Loads(q, m, h, rows)
BY DEF Loads

LEMMA LoadsTake ==
  ASSUME NEW q, NEW m \in Seq(ToMapFit), NEW g \in Storage, NEW rows,
         Loads(q, m, g, rows), m # <<>>
  PROVE  Loads(q, Tail(m), g, rows)
<1> DEFINE t == Tail(m)
<1>1. /\ Len(t) = Len(m) - 1 /\ Len(m) \in Nat
      /\ \A k \in 1 .. Len(m) - 1 : t[k] = m[k + 1]
  BY TailFacts
<1> HIDE DEF t
<1>2. \A k \in 1 .. Len(t) : k + 1 \in 1 .. Len(m) /\ t[k] = m[k + 1] /\ k \in Nat
  BY <1>1
<1>3. Unsaved(q, m) => Unsaved(q, t)
  BY <1>2 DEF Unsaved
<1>4. \A j, k \in 1 .. Len(t) : t[j].cmd = "loaded" /\ t[k].cmd = "saved" => j < k
  <2> SUFFICES ASSUME NEW j \in 1 .. Len(t), NEW k \in 1 .. Len(t),
                      t[j].cmd = "loaded", t[k].cmd = "saved"
               PROVE  j < k
    OBVIOUS
  <2>1. j + 1 < k + 1
    BY <1>2 DEF Loads
  <2> QED
    BY <1>2, <2>1
<1>5. Loads(q, t, g, rows)
  BY <1>2, <1>3, <1>4 DEF Loads
<1> QED
  BY <1>5 DEF t

\* A load is taken: if the storage is not dirty, it brings the rows.
LEMMA LoadsTakeLoaded ==
  ASSUME NEW q, NEW m \in Seq(ToMapFit), NEW g \in Storage, NEW rows,
         Loads(q, m, g, rows), ~g.dirty, m # <<>>, Head(m).cmd = "loaded"
  PROVE  Head(m).items = rows /\ Unsaved(q, m)
<1>1. Head(m) = m[1] /\ 1 \in 1 .. Len(m)
  BY TailFacts
<1> QED
  BY <1>1 DEF Loads

\* An acknowledgement is taken: no load is left.
LEMMA LoadsTakeSaved ==
  ASSUME NEW q, NEW m \in Seq(ToMapFit), NEW g \in Storage, NEW h \in Storage, NEW rows,
         Loads(q, m, g, rows), m # <<>>, Head(m).cmd = "saved", h.max = g.max
  PROVE  g.max = Cap /\ Loads(q, Tail(m), h, rows)
<1>1. Head(m) = m[1] /\ 1 \in 1 .. Len(m) /\ Len(m) \in Nat
  BY TailFacts
<1>2. g.max = Cap
  BY <1>1 DEF Loads, Unsaved
<1>3. \A k \in 1 .. Len(q) : q[k].cmd # "load"
  BY <1>1 DEF Loads
<1>4. \A k \in 1 .. Len(m) : m[k].cmd # "loaded"
  <2> SUFFICES ASSUME NEW k \in 1 .. Len(m), m[k].cmd = "loaded" PROVE FALSE
    OBVIOUS
  <2>1. k < 1
    BY <1>1 DEF Loads
  <2> QED
    BY <2>1
<1>5. Loads(q, m, h, rows)
  BY <1>2, <1>3, <1>4 DEF Loads
<1> QED
  BY <1>2, <1>5, LoadsTake

LEMMA LoadsPop ==
  ASSUME NEW q \in Seq(ToCharFit), NEW m, NEW g \in Storage, NEW rows,
         Loads(q, m, g, rows), q # <<>>
  PROVE  Loads(Tail(q), m, g, rows)
<1> DEFINE t == Tail(q)
<1>1. /\ Len(t) = Len(q) - 1 /\ Len(q) \in Nat
      /\ \A k \in 1 .. Len(q) - 1 : t[k] = q[k + 1]
  BY TailFacts
<1> HIDE DEF t
<1>2. \A k \in 1 .. Len(t) : k + 1 \in 1 .. Len(q) /\ t[k] = q[k + 1] /\ k \in Nat
  BY <1>1
<1>3. Unsaved(q, m) => Unsaved(t, m)
  BY <1>2 DEF Unsaved
<1>4. \A j \in 1 .. Len(t) : t[j].cmd = "load" =>
        /\ \A k \in 1 .. Len(m) : m[k].cmd # "saved"
        /\ \A k \in 1 .. Len(t) : StoreSave(t[k]) => j < k
  <2> SUFFICES ASSUME NEW j \in 1 .. Len(t), t[j].cmd = "load"
               PROVE  /\ \A k \in 1 .. Len(m) : m[k].cmd # "saved"
                      /\ \A k \in 1 .. Len(t) : StoreSave(t[k]) => j < k
    OBVIOUS
  <2>1. j + 1 \in 1 .. Len(q) /\ q[j + 1].cmd = "load"
    BY <1>2
  <2>2. \A k \in 1 .. Len(m) : m[k].cmd # "saved"
    BY <2>1 DEF Loads
  <2>3. ASSUME NEW k \in 1 .. Len(t), StoreSave(t[k]) PROVE j < k
    <3>1. j + 1 < k + 1
      BY <1>2, <2>1, <2>3 DEF Loads
    <3> QED
      BY <1>2, <3>1
  <2> QED
    BY <2>2, <2>3
<1>5. Loads(t, m, g, rows)
  BY <1>2, <1>3, <1>4 DEF Loads
<1> QED
  BY <1>5 DEF t

LEMMA LoadsReply ==
  ASSUME NEW q, NEW m \in Seq(ToMapFit), NEW g \in Storage, NEW rows,
         NEW p \in ToMapFit, Loads(q, m, g, rows), p.cmd \notin {"loaded", "saved"}
  PROVE  Loads(q, Append(m, p), g, rows)
<1> DEFINE t == Append(m, p)
<1>1. /\ Len(t) = Len(m) + 1 /\ Len(m) \in Nat /\ t[Len(m) + 1] = p
      /\ \A k \in 1 .. Len(m) : t[k] = m[k]
  BY AppendFacts
<1> HIDE DEF t
<1>2. \A k \in 1 .. Len(t) : (k \in 1 .. Len(m) /\ t[k] = m[k]) \/ t[k] = p
  BY <1>1
<1>3. Unsaved(q, m) => Unsaved(q, t)
  BY <1>2 DEF Unsaved
<1>4. Loads(q, t, g, rows)
  BY <1>2, <1>3 DEF Loads
<1> QED
  BY <1>4 DEF t

\* mapif_load_guild_storage
LEMMA LoadsReplyLoad ==
  ASSUME NEW q \in Seq(ToCharFit), NEW m \in Seq(ToMapFit), NEW g \in Storage, NEW rows, NEW p \in ToMapFit,
         Loads(q, m, g, rows), q # <<>>, Head(q).cmd = "load",
         p.cmd = "loaded", p.items = rows
  PROVE  Loads(Tail(q), Append(m, p), g, rows)
<1> DEFINE t == Append(m, p)
           u == Tail(q)
<1>0. Head(q) = q[1] /\ 1 \in 1 .. Len(q)
  BY TailFacts
<1>1. /\ Len(t) = Len(m) + 1 /\ Len(m) \in Nat /\ t[Len(m) + 1] = p
      /\ \A k \in 1 .. Len(m) : t[k] = m[k]
  BY AppendFacts
<1>2. Loads(u, m, g, rows)
  BY LoadsPop
<1> HIDE DEF t, u
<1>3. \A k \in 1 .. Len(t) : (k \in 1 .. Len(m) /\ t[k] = m[k]) \/ t[k] = p
  BY <1>1
<1>4. \A k \in 1 .. Len(m) : m[k].cmd # "saved"
  BY <1>0 DEF Loads
<1>5. \A k \in 1 .. Len(t) : t[k].cmd # "saved"
  BY <1>3, <1>4
<1>6. g.dirty \/ (Unsaved(q, m) /\ \A k \in 1 .. Len(m) : m[k].cmd = "loaded" => m[k].items = rows)
  BY <1>0 DEF Loads
<1>7. Unsaved(q, m) => Unsaved(u, m)
  <2>1. /\ Len(u) = Len(q) - 1 /\ Len(q) \in Nat
        /\ \A k \in 1 .. Len(q) - 1 : u[k] = q[k + 1]
    BY TailFacts DEF u
  <2>2. \A k \in 1 .. Len(u) : k + 1 \in 1 .. Len(q) /\ u[k] = q[k + 1]
    BY <2>1
  <2> QED
    BY <2>2 DEF Unsaved
<1>8. Unsaved(u, m) => Unsaved(u, t)
  BY <1>5 DEF Unsaved
<1>9. g.dirty \/ (Unsaved(u, t) /\ \A k \in 1 .. Len(t) : t[k].cmd = "loaded" => t[k].items = rows)
  BY <1>3, <1>6, <1>7, <1>8
<1>10. Loads(u, t, g, rows)
  BY <1>2, <1>5, <1>8, <1>9 DEF Loads
<1> QED
  BY <1>10 DEF t, u

\* mapif_parse_SaveGuildStorage
LEMMA LoadsReplySave ==
  ASSUME NEW q \in Seq(ToCharFit), NEW m \in Seq(ToMapFit), NEW g \in Storage, NEW rows, NEW new, NEW p \in ToMapFit,
         Loads(q, m, g, rows), q # <<>>, StoreSave(Head(q)), p.cmd = "saved"
  PROVE  Loads(Tail(q), Append(m, p), g, new)
<1> DEFINE t == Append(m, p)
           u == Tail(q)
<1>0. Head(q) = q[1] /\ 1 \in 1 .. Len(q)
  BY TailFacts
<1>1. /\ Len(t) = Len(m) + 1 /\ Len(m) \in Nat /\ t[Len(m) + 1] = p
      /\ \A k \in 1 .. Len(m) : t[k] = m[k]
  BY AppendFacts
<1>2. Loads(u, m, g, rows)
  BY LoadsPop
<1>3. /\ Len(u) = Len(q) - 1 /\ Len(q) \in Nat
      /\ \A k \in 1 .. Len(q) - 1 : u[k] = q[k + 1]
  BY TailFacts
<1> HIDE DEF t, u
<1>4. \A k \in 1 .. Len(t) : (k \in 1 .. Len(m) /\ t[k] = m[k]) \/ (t[k] = p /\ k = Len(m) + 1)
  BY <1>1
<1>5. g.max = Cap /\ ~Unsaved(q, m)
  BY <1>0 DEF Loads, Unsaved
<1>6. \A k \in 1 .. Len(q) : q[k].cmd # "load"
  <2> SUFFICES ASSUME NEW k \in 1 .. Len(q), q[k].cmd = "load" PROVE FALSE
    OBVIOUS
  <2>1. k < 1
    BY <1>0 DEF Loads
  <2> QED
    BY <2>1
<1>7. \A k \in 1 .. Len(u) : u[k].cmd # "load"
  BY <1>3, <1>6
<1>8. g.dirty \/ \A k \in 1 .. Len(m) : m[k].cmd # "loaded"
  BY <1>5 DEF Loads
<1>9. g.dirty \/ \A k \in 1 .. Len(t) : t[k].cmd # "loaded"
  BY <1>4, <1>8
<1>10. \A j, k \in 1 .. Len(t) : t[j].cmd = "loaded" /\ t[k].cmd = "saved" => j < k
  <2> SUFFICES ASSUME NEW j \in 1 .. Len(t), NEW k \in 1 .. Len(t),
                      t[j].cmd = "loaded", t[k].cmd = "saved"
               PROVE  j < k
    OBVIOUS
  <2>1. j \in 1 .. Len(m) /\ m[j].cmd = "loaded"
    BY <1>4
  <2>2. CASE k \in 1 .. Len(m) /\ t[k] = m[k]
    BY <2>1, <2>2 DEF Loads
  <2>3. CASE k = Len(m) + 1
    BY <1>1, <2>1, <2>3
  <2> QED
    BY <1>4, <2>2, <2>3
<1>11. Loads(u, t, g, new)
  BY <1>5, <1>7, <1>9, <1>10 DEF Loads
<1> QED
  BY <1>11 DEF t, u

----------------------------------------------------------------------------
(* What is under way for everybody.                                         *)

Flow(q, m, at, rows, g, store) ==
  /\ \A k \in 1 .. Len(m) : m[k].cmd # "store2g"
  /\ \A c \in Char : EnterOf(c, q, m, at[c], rows[c])
  /\ Loads(q, m, g, store)

LEMMA FlowPush ==
  ASSUME NEW q \in Seq(ToCharFit), NEW m, NEW at, NEW rows, NEW g \in Storage, NEW store, NEW p \in ToCharFit,
         Flow(q, m, at, rows, g, store),
         p.cmd # "getinv",
         p.cmd = "load" => g.max # Cap /\ at[p.char] # "loading",
         p.cmd = "saveinv" => at[p.char] # "loading",
         StoreSave(p) => g.dirty /\ g.max = Cap
  PROVE  Flow(Append(q, p), m, at, rows, g, store)
<1>1. Loads(Append(q, p), m, g, store)
  BY LoadsPush DEF Flow
<1>2. ASSUME NEW c \in Char PROVE EnterOf(c, Append(q, p), m, at[c], rows[c])
  <2>1. EnterOf(c, q, m, at[c], rows[c])
    BY DEF Flow
  <2>2. ~Asks(p, "getinv", c) /\ (at[c] = "loading" => ~InvSave(p, c) /\ ~Asks(p, "load", c))
    BY DEF Asks, InvSave
  <2> QED
    BY <2>1, <2>2, EnterPush
<1> QED
  BY <1>1, <1>2 DEF Flow

LEMMA FlowStore ==
  ASSUME NEW q, NEW m, NEW at, NEW rows, NEW g \in Storage, NEW h \in Storage, NEW store,
         Flow(q, m, at, rows, g, store), g.dirty => h.dirty, g.max = Cap => h.max = Cap,
         h.max # Cap => ~h.dirty
  PROVE  Flow(q, m, at, rows, h, store)
BY LoadsStore DEF Flow

LEMMA FlowTake ==
  ASSUME NEW q, NEW m \in Seq(ToMapFit), NEW at, NEW rows, NEW g \in Storage, NEW store,
         Flow(q, m, at, rows, g, store), m # <<>>
  PROVE  Flow(q, Tail(m), at, rows, g, store)
<1>1. Loads(q, Tail(m), g, store)
  BY LoadsTake DEF Flow
<1>2. \A c \in Char : EnterOf(c, q, Tail(m), at[c], rows[c])
  BY EnterTake DEF Flow
<1>3. \A k \in 1 .. Len(Tail(m)) : Tail(m)[k].cmd # "store2g"
  <2> DEFINE t == Tail(m)
  <2>1. Len(t) = Len(m) - 1 /\ Len(m) \in Nat /\ \A k \in 1 .. Len(m) - 1 : t[k] = m[k + 1]
    BY TailFacts
  <2> HIDE DEF t
  <2>2. \A k \in 1 .. Len(t) : k + 1 \in 1 .. Len(m) /\ t[k] = m[k + 1]
    BY <2>1
  <2>3. \A k \in 1 .. Len(t) : t[k].cmd # "store2g"
    BY <2>2 DEF Flow
  <2> QED
    BY <2>3 DEF t
<1> QED
  BY <1>1, <1>2, <1>3 DEF Flow

LEMMA FlowPop ==
  ASSUME NEW q \in Seq(ToCharFit), NEW m, NEW at, NEW rows, NEW g \in Storage, NEW store,
         Flow(q, m, at, rows, g, store), q # <<>>
  PROVE  Flow(Tail(q), m, at, rows, g, store)
<1>1. Loads(Tail(q), m, g, store)
  BY LoadsPop DEF Flow
<1>2. \A c \in Char : EnterOf(c, Tail(q), m, at[c], rows[c])
  BY EnterPop DEF Flow
<1> QED
  BY <1>1, <1>2 DEF Flow

LEMMA NoStore2G ==
  ASSUME NEW m \in Seq(ToMapFit), NEW p \in ToMapFit, p.cmd # "store2g",
         \A k \in 1 .. Len(m) : m[k].cmd # "store2g"
  PROVE  \A k \in 1 .. Len(Append(m, p)) : Append(m, p)[k].cmd # "store2g"
<1> DEFINE t == Append(m, p)
<1>1. /\ Len(t) = Len(m) + 1 /\ Len(m) \in Nat /\ t[Len(m) + 1] = p
      /\ \A k \in 1 .. Len(m) : t[k] = m[k]
  BY AppendFacts
<1> HIDE DEF t
<1>2. \A k \in 1 .. Len(t) : (k \in 1 .. Len(m) /\ t[k] = m[k]) \/ t[k] = p
  BY <1>1
<1>3. \A k \in 1 .. Len(t) : t[k].cmd # "store2g"
  BY <1>2
<1> QED
  BY <1>3 DEF t

LEMMA FlowReply ==
  ASSUME NEW q, NEW m \in Seq(ToMapFit), NEW at, NEW rows, NEW g \in Storage, NEW store, NEW p \in ToMapFit,
         Flow(q, m, at, rows, g, store), p.cmd \in {"unlock", "withdraw"}
  PROVE  Flow(q, Append(m, p), at, rows, g, store)
<1>1. Loads(q, Append(m, p), g, store)
  BY LoadsReply DEF Flow
<1>2. \A c \in Char : EnterOf(c, q, Append(m, p), at[c], rows[c])
  BY EnterReply DEF Flow, Asks
<1>3. \A k \in 1 .. Len(Append(m, p)) : Append(m, p)[k].cmd # "store2g"
  BY NoStore2G DEF Flow
<1> QED
  BY <1>1, <1>2, <1>3 DEF Flow

----------------------------------------------------------------------------
(* The memory of the map server, and the rows F once all saves have arrived.  *)

Memory(F) ==
  /\ \A c \in Char : place[c] # "on" => inv[c] = {} /\ ~flag[c]
  /\ \A c \in Char : flag[c] => gstor.status
  /\ \A c, d \in Char : flag[c] /\ flag[d] => c = d
  /\ \A c \in Char : place[c] = "on" => (flag[c] /\ gstor.dirty) \/ inv[c] = F.inv[c]
  /\ Known /\ gstor.max = Cap /\ ~(gstor.status /\ gstor.dirty) => gstor.items = F.store
  /\ \A c \in Char : flag[c] =>
       /\ inv[c] \cap gstor.items = {}
       /\ inv[c] \cup gstor.items = F.inv[c] \cup F.store

\* Memory and rows agree.
Exact(F) ==
  /\ \A c \in Char : place[c] = "on" => inv[c] = F.inv[c]
  /\ Known /\ gstor.max = Cap => gstor.items = F.store

Synced ==
  /\ up \/ (toChar = <<>> /\ toMap = <<>>)
  /\ Flow(toChar, toMap, place, dbInv, Stor, dbStore)
  /\ \E F \in Rows : Reaches(toChar, DbRows, F) /\ Memory(F)

\* As long as nothing was saved apart.
Sync == ~apart => Synced

LEMMA ClosedExact ==
  ASSUME Copy, NEW F \in Rows, Memory(F), ~Stor.status
  PROVE  Exact(F) /\ \A c \in Char : ~flag[c]
<1>1. Known => gstor = Stor
  BY DEF Stor
<1>2. \A c \in Char : ~flag[c]
  BY <1>1 DEF Copy, Memory
<1> QED
  BY <1>1, <1>2 DEF Memory, Exact

OneSave(c, p, F, G) == StorageSave(c) = <<>> /\ G = Applied(F, p)
TwoSaves(c, p, t, F, G) ==
  /\ StorageSave(c) = <<t>> /\ StoreSave(t) /\ t.char = c
  /\ Stor.dirty /\ Stor.max = Cap
  /\ G = Applied(Applied(F, p), t)

\* chrif_save: with the one or two packets it sends, the rows he and the storage get
\* have every item once again.
LEMMA SavedRows ==
  ASSUME Copy, Others, NEW F \in Rows, Once(F), Memory(F), NEW c \in Char, place[c] = "on"
  PROVE  \E p \in ToCharFit, G \in Rows :
           /\ InventorySave(c) = <<p>> /\ p.cmd = "saveinv" /\ p.char = c
           /\ Once(G) /\ Memory(G) /\ G.inv[c] = inv[c]
           /\ flag[c] => Exact(G)
           /\ ~flag[c] => G = F
           /\ OneSave(c, p, F, G) \/ \E t \in ToCharFit : TwoSaves(c, p, t, F, G)
<1> DEFINE st == IF flag[c] /\ Known /\ Stor.dirty THEN Stor.items ELSE NoStore
           iv == inv[c]
           p == [cmd |-> "saveinv", char |-> c, items |-> iv]
           G == [inv |-> [F.inv EXCEPT ![c] = inv[c]], store |-> IF st # NoStore THEN st ELSE F.store]
<1>1. InventorySave(c) = <<p>>
  BY DEF InventorySave
<1>2. inv[c] \in SUBSET Item /\ inv[c] # NoStore
  BY CapType DEF Others
<1>3. Stor \in Storage /\ Stor.items \in SUBSET Item /\ Stor.items # NoStore
  BY StorType, CapType DEF Storage
<1>4. flag[c] => Known /\ Stor = gstor /\ gstor.max = Cap /\ gstor.status
  BY StorType DEF Copy, Memory
<1>5. st \in (SUBSET Item) \cup {NoStore} /\ (st # NoStore => flag[c] /\ Stor.dirty /\ Stor.max = Cap)
  BY <1>3, <1>4
<1>6. flag[c] /\ Stor.dirty => st = gstor.items /\ st # NoStore
  BY <1>3, <1>4
<1>7. ~flag[c] \/ ~Stor.dirty => st = NoStore
  OBVIOUS
<1>8. p \in ToCharFit /\ p.cmd = "saveinv" /\ p.char = c /\ p.items = inv[c]
  <2>1. iv \in SUBSET Item
    BY <1>2
  <2> HIDE DEF iv
  <2>2. p \in ToCharFit /\ p.cmd = "saveinv" /\ p.char = c /\ p.items = iv
    BY <2>1 DEF ToCharFit, ToChar
  <2> HIDE DEF p
  <2> QED
    BY <2>2 DEF iv
<1>8a. st # NoStore => StorageSave(c) = <<[cmd |-> "savestore", char |-> c, items |-> st]>>
  BY DEF StorageSave
<1>8b. st = NoStore => StorageSave(c) = <<>>
  <2> SUFFICES ASSUME st = NoStore PROVE StorageSave(c) = <<>>
    OBVIOUS
  <2>1. ~(flag[c] /\ Known /\ Stor.dirty)
    BY <1>3
  <2> QED
    BY <2>1 DEF StorageSave
<1>8c. Stor.items \in SUBSET Item /\ (st # NoStore => Cardinality(st) <= Cap)
  <2>1. Cardinality(Stor.items) <= Stor.max
    BY StorType DEF Stores
  <2> QED
    BY <1>3, <1>5, <2>1
<1> HIDE DEF st, p
<1>9. OneSave(c, p, F, G) \/ \E t \in ToCharFit : TwoSaves(c, p, t, F, G)
  <2>1. ~StoreSave(p)
    BY <1>8 DEF StoreSave
  <2>2. Applied(F, p) = [inv |-> [F.inv EXCEPT ![c] = inv[c]], store |-> F.store]
    BY <1>8, <2>1 DEF Applied
  <2>3. CASE st = NoStore
    BY <1>8b, <2>2, <2>3 DEF OneSave
  <2>4. CASE st # NoStore
    <3> DEFINE t == [cmd |-> "savestore", char |-> c, items |-> st]
    <3>1. t \in ToCharFit /\ StoreSave(t) /\ t.char = c /\ t.cmd = "savestore" /\ t.items = st
      BY <1>5, <1>8c, <2>4 DEF ToCharFit, ToChar, StoreSave
    <3>2. StorageSave(c) = <<t>>
      BY <1>8a, <2>4
    <3> HIDE DEF t
    <3>3. Applied(Applied(F, p), t) = G
      BY <2>2, <2>4, <3>1 DEF Applied
    <3>4. TwoSaves(c, p, t, F, G)
      BY <1>5, <2>4, <3>1, <3>2, <3>3 DEF TwoSaves
    <3> QED
      BY <3>1, <3>4
  <2> QED
    BY <2>3, <2>4
<1>10. /\ F.inv \in [Char -> SUBSET Item] /\ F.store \in SUBSET Item
       /\ F = [inv |-> F.inv, store |-> F.store]
  BY DEF Rows
<1>11. G.inv = [F.inv EXCEPT ![c] = inv[c]] /\ G.store = (IF st # NoStore THEN st ELSE F.store)
       /\ G = [inv |-> G.inv, store |-> G.store] /\ G \in Rows
  BY <1>2, <1>5, <1>10 DEF Rows
<1> HIDE DEF G
<1>12. G.inv[c] = inv[c] /\ \A d \in Char \ {c} : G.inv[d] = F.inv[d]
  BY <1>10, <1>11
<1>13. CASE flag[c]
  <2>1. G.store = gstor.items
    <3>1. ~gstor.dirty => gstor.items = F.store
      BY <1>4, <1>13 DEF Memory
    <3> QED
      BY <1>4, <1>6, <1>7, <1>11, <1>13, <3>1
  <2>2. inv[c] \cap gstor.items = {} /\ inv[c] \cup gstor.items = F.inv[c] \cup F.store
    BY <1>13 DEF Memory
  <2>3. Once(G)
    <3>1. ASSUME NEW i \in Item PROVE i \in G.store \/ \E d \in Char : i \in G.inv[d]
      <4>1. i \in F.store \/ \E d \in Char : i \in F.inv[d]
        BY DEF Once
      <4> QED
        BY <1>12, <2>1, <2>2, <4>1
    <3>2. ASSUME NEW d \in Char PROVE G.inv[d] \cap G.store = {}
      <4>1. CASE d = c
        BY <1>12, <2>1, <2>2, <4>1
      <4>2. CASE d # c
        <5>1. F.inv[d] \cap F.inv[c] = {} /\ F.inv[d] \cap F.store = {}
          BY <4>2 DEF Once
        <5> QED
          BY <1>12, <2>1, <2>2, <4>2, <5>1
      <4> QED
        BY <4>1, <4>2
    <3>3. ASSUME NEW d \in Char, NEW e \in Char, d # e PROVE G.inv[d] \cap G.inv[e] = {}
      <4>1. F.inv[d] \cap F.inv[e] = {} /\ F.inv[d] \cap F.store = {} /\ F.inv[e] \cap F.store = {}
        BY <3>3 DEF Once
      <4>2. CASE d = c
        BY <1>12, <2>2, <3>3, <4>1, <4>2
      <4>3. CASE e = c
        BY <1>12, <2>2, <3>3, <4>1, <4>3
      <4> QED
        BY <1>12, <4>1, <4>2, <4>3
    <3> QED
      BY <3>1, <3>2, <3>3 DEF Once
  <2>4. Exact(G)
    <3>1. ASSUME NEW d \in Char, place[d] = "on" PROVE inv[d] = G.inv[d]
      <4>1. CASE d = c
        BY <1>12, <4>1
      <4>2. CASE d # c
        BY <1>12, <1>13, <3>1, <4>2 DEF Memory
      <4> QED
        BY <4>1, <4>2
    <3> QED
      BY <2>1, <3>1 DEF Exact
  <2>5. Memory(G)
    <3>1. ASSUME NEW d \in Char, flag[d]
          PROVE inv[d] \cap gstor.items = {} /\ inv[d] \cup gstor.items = G.inv[d] \cup G.store
      <4>1. d = c
        BY <1>13, <3>1 DEF Memory
      <4> QED
        BY <1>12, <2>1, <2>2, <4>1
    <3> QED
      BY <2>4, <3>1 DEF Memory, Exact
  <2> QED
    BY <1>1, <1>8, <1>9, <1>11, <1>12, <1>13, <2>3, <2>4, <2>5, Zenon
<1>14. CASE ~flag[c]
  <2>1. inv[c] = F.inv[c]
    BY <1>14 DEF Memory
  <2>2. G.inv = F.inv
    BY <1>10, <1>11, <2>1
  <2>3. G = F
    BY <1>7, <1>10, <1>11, <1>14, <2>2
  <2> QED
    BY <1>1, <1>8, <1>9, <1>11, <1>12, <1>14, <2>3, Zenon
<1> QED
  BY <1>13, <1>14

\* The storage is closed, and nobody has it open.
LEMMA ClosedMemory ==
  ASSUME NEW G \in Rows, Exact(G), Memory(G),
         \A c \in Char : ~flag'[c],
         \A c \in Char : place'[c] = "on" => place[c] = "on" /\ inv'[c] = inv[c],
         \A c \in Char : place'[c] # "on" => inv'[c] = {},
         gstor' # NoStore /\ gstor'.max = Cap =>
            Known /\ gstor.max = Cap /\ gstor'.items = gstor.items
  PROVE  Memory(G)'
BY DEF Memory, Exact, Known

\* Nothing he sees changes.
LEMMA SameMemory ==
  ASSUME NEW F \in Rows, Memory(F), UNCHANGED <<flag, place, inv>>,
         \/ gstor' = gstor
         \/ /\ Known /\ Known'
            /\ gstor'.status = gstor.status /\ gstor'.dirty = gstor.dirty
            /\ gstor'.items = gstor.items /\ gstor'.max = gstor.max
  PROVE  Memory(F)'
BY DEF Memory, Known

----------------------------------------------------------------------------
(* The steps of the members, as long as nothing is saved apart.              *)

LEMMA StorBits ==
  ASSUME Copy
  PROVE  /\ Stor.max = Cap => Known
         /\ Stor.max \in {0, Cap} /\ (Stor.status => Known) /\ (Stor.dirty => Known)
BY StorType, CapType DEF Storage

LEMMA StorNow == StoreInv => Stor \in Storage
BY StorType DEF StoreInv

LEMMA SendsAll ==
  ASSUME Others, up, NEW ms, Sends(ms)
  PROVE  toChar' = toChar \o ms
BY DEF Sends

LEMMA SendsNothing ==
  ASSUME Others, Sends(<<>>)
  PROVE  toChar' = toChar
BY ConcatEmptySeq DEF Others, Sends

\* A packet that is no save goes out.
LEMMA OtherPushed ==
  ASSUME StoreInv, NEW q \in Seq(ToCharFit), NEW F, Reaches(q, DbRows, F),
         NEW m, NEW at, NEW p \in ToCharFit,
         Flow(q, m, at, dbInv, Stor, dbStore),
         \/ p.cmd \in {"leave", "retrieve"}
         \/ p.cmd = "load" /\ Stor.max # Cap /\ at[p.char] # "loading"
  PROVE  /\ Append(q, p) \in Seq(ToCharFit)
         /\ Flow(Append(q, p), m, at, dbInv, Stor, dbStore)
         /\ Reaches(Append(q, p), DbRows, F)
<1>1. F \in Rows /\ Once(F)
  BY ReachFacts
<1>2. p.cmd \notin {"saveinv", "savestore", "getinv"} /\ ~StoreSave(p)
  BY DEF StoreSave
<1>3. Applied(F, p) = F
  BY <1>1, <1>2, AppliedOther
<1>4. Reaches(Append(q, p), DbRows, F)
  BY <1>1, <1>3, ReachPush
<1>5. Stor \in Storage
  BY StorType DEF StoreInv
<1>6. Flow(Append(q, p), m, at, dbInv, Stor, dbStore)
  BY <1>2, <1>5, FlowPush
<1> QED
  BY <1>4, <1>6, AppendFacts

\* A save goes out.
LEMMA SavePushed ==
  ASSUME StoreInv, NEW F \in Rows, Reaches(toChar, DbRows, F), Memory(F),
         NEW m, Flow(toChar, m, place, dbInv, Stor, dbStore),
         NEW c \in Char, place[c] = "on"
  PROVE  \E G \in Rows, q \in Seq(ToCharFit) :
           /\ q = toChar \o SaveOf(c, TRUE)
           /\ Flow(q, m, place, dbInv, Stor, dbStore)
           /\ Reaches(q, DbRows, G) /\ Memory(G) /\ G.inv[c] = inv[c]
           /\ flag[c] => Exact(G)
           /\ ~flag[c] => G = F
<1>1. Copy /\ Others /\ toChar \in Seq(ToCharFit)
  BY DEF StoreInv, Others
<1>2. Once(F)
  BY <1>1, ReachFacts
<1>3. PICK p \in ToCharFit, G \in Rows :
           /\ InventorySave(c) = <<p>> /\ p.cmd = "saveinv" /\ p.char = c
           /\ Once(G) /\ Memory(G) /\ G.inv[c] = inv[c]
           /\ flag[c] => Exact(G)
           /\ ~flag[c] => G = F
           /\ OneSave(c, p, F, G) \/ \E t \in ToCharFit : TwoSaves(c, p, t, F, G)
  BY <1>1, <1>2, SavedRows
<1>4. Stor \in Storage
  BY <1>1, StorType
<1>5. p.cmd # "getinv" /\ p.cmd # "load" /\ ~StoreSave(p)
  BY <1>3 DEF StoreSave
<1> DEFINE q == Append(toChar, p)
<1>6. q \in Seq(ToCharFit) /\ q = toChar \o InventorySave(c)
  <2>1. q \in Seq(ToCharFit) /\ q = toChar \o <<p>>
    BY <1>1, AppendFacts
  <2> QED
    BY <1>3, <2>1
<1>7. Flow(q, m, place, dbInv, Stor, dbStore)
  BY <1>1, <1>3, <1>4, <1>5, FlowPush
<1>8. SaveOf(c, TRUE) = InventorySave(c) \o StorageSave(c) /\ InventorySave(c) \in Seq(ToCharFit)
  BY <1>1, InventoryFit DEF SaveOf
<1>9. CASE OneSave(c, p, F, G)
  <2>1. G = Applied(F, p) /\ StorageSave(c) = <<>>
    BY <1>9 DEF OneSave
  <2>2. Reaches(q, DbRows, G)
    BY <1>1, <1>3, <2>1, ReachPush
  <2>3. SaveOf(c, TRUE) = InventorySave(c)
    BY <1>8, <2>1, ConcatEmptySeq
  <2> HIDE DEF q
  <2> QED
    BY <1>3, <1>6, <1>7, <2>2, <2>3
<1>10. CASE \E t \in ToCharFit : TwoSaves(c, p, t, F, G)
  <2>1. PICK t \in ToCharFit : TwoSaves(c, p, t, F, G)
    BY <1>10
  <2>2. /\ StorageSave(c) = <<t>> /\ StoreSave(t) /\ t.cmd = "savestore"
        /\ Stor.dirty /\ Stor.max = Cap /\ G = Applied(Applied(F, p), t)
    BY <2>1 DEF TwoSaves, StoreSave
  <2>3. Reaches(Append(q, t), DbRows, G)
    BY <1>1, <1>3, <1>5, <2>2, ReachPushTwo
  <2> HIDE DEF q
  <2> DEFINE u == Append(q, t)
  <2>4. Flow(u, m, place, dbInv, Stor, dbStore)
    BY <1>4, <1>6, <1>7, <2>2, FlowPush
  <2>5. u \in Seq(ToCharFit) /\ u = q \o <<t>>
    BY <1>6, AppendFacts
  <2>6. u = toChar \o SaveOf(c, TRUE)
    <3>1. StorageSave(c) \in Seq(ToCharFit)
      BY <1>1, StorageFit
    <3>2. (toChar \o InventorySave(c)) \o StorageSave(c) = toChar \o (InventorySave(c) \o StorageSave(c))
      BY <1>1, <1>8, <3>1, QueueAppends
    <3> QED
      BY <1>6, <1>8, <2>2, <2>5, <3>2
  <2>7. Reaches(u, DbRows, G)
    BY <2>3
  <2> HIDE DEF u
  <2> QED
    BY <1>3, <2>4, <2>5, <2>6, <2>7
<1> QED
  BY <1>3, <1>9, <1>10

\* ... and an inventory that has not changed since.
LEMMA InventoryPushed ==
  ASSUME StoreInv, NEW q \in Seq(ToCharFit), NEW G \in Rows, Reaches(q, DbRows, G),
         NEW m, Flow(q, m, place, dbInv, Stor, dbStore),
         NEW c \in Char, place[c] = "on", G.inv[c] = inv[c]
  PROVE  \E t \in Seq(ToCharFit) :
           /\ t = q \o InventorySave(c)
           /\ Flow(t, m, place, dbInv, Stor, dbStore)
           /\ Reaches(t, DbRows, G)
<1> DEFINE iv == inv[c]
           p == [cmd |-> "saveinv", char |-> c, items |-> iv]
<1>1. iv \in SUBSET Item /\ InventorySave(c) = <<p>> /\ Stor \in Storage /\ G.inv[c] = iv
  BY StorNow DEF InventorySave, StoreInv, Others
<1> HIDE DEF iv
<1>2. p \in ToCharFit /\ p.cmd = "saveinv" /\ p.char = c /\ p.items = iv /\ ~StoreSave(p)
  BY <1>1 DEF ToCharFit, ToChar, StoreSave
<1> HIDE DEF p
<1>3. Applied(G, p) = G
  <2>1. [G.inv EXCEPT ![c] = iv] = G.inv
    BY <1>1 DEF Rows
  <2>2. G = [inv |-> G.inv, store |-> G.store]
    BY DEF Rows
  <2> QED
    BY <1>2, <2>1, <2>2 DEF Applied
<1>4. Once(G)
  BY ReachFacts
<1> DEFINE t == Append(q, p)
<1>5. Reaches(t, DbRows, G)
  BY <1>2, <1>3, <1>4, ReachPush
<1>6. Flow(t, m, place, dbInv, Stor, dbStore)
  BY <1>1, <1>2, FlowPush
<1>7. t \in Seq(ToCharFit) /\ t = q \o InventorySave(c)
  <2>1. t \in Seq(ToCharFit) /\ t = q \o <<p>>
    BY <1>2, AppendFacts
  <2> QED
    BY <1>1, <2>1
<1> HIDE DEF t
<1> QED
  BY <1>5, <1>6, <1>7

LEMMA SameStor ==
  ASSUME gstor' = gstor
  PROVE  Stor' = Stor /\ (Known' <=> Known)
BY DEF Stor, Known

LEMMA SameRows ==
  ASSUME UNCHANGED <<dbInv, dbStore>>
  PROVE  DbRows' = DbRows
BY DEF DbRows

\* Nothing goes out.
LEMMA QuietSync ==
  ASSUME StoreInv, StoreInv', NEW F \in Rows, Reaches(toChar, DbRows, F), Memory(F)',
         Synced, up \/ toMap' = toMap,
         Flow(toChar, toMap', place, dbInv, Stor, dbStore),
         UNCHANGED <<toChar, place, dbInv, dbStore, up>>,
         Stor.dirty => Stor'.dirty, Stor.max = Cap => Stor'.max = Cap,
         Stor'.max # Cap => ~Stor'.dirty
  PROVE  Synced'
<1>1. Stor \in Storage /\ Stor' \in Storage
  <2>1. StoreInv' => (Stor \in Storage)'
    BY StorNow, PTL
  <2> QED
    BY <2>1, StorNow
<1>2. Flow(toChar, toMap', place, dbInv, Stor', dbStore)
  BY <1>1, FlowStore
<1>3. DbRows' = DbRows
  BY SameRows
<1> QED
  BY <1>2, <1>3 DEF Synced

LEMMA OpenSync ==
  ASSUME StoreInv, StoreInv', Synced, NEW c \in Char, StorageOpen(c), UNCHANGED <<charVars, up, broken>>
  PROVE  Synced'
<1>1. Copy /\ Others /\ toChar \in Seq(ToCharFit)
  BY DEF StoreInv, Others
<1>2. PICK F \in Rows : Reaches(toChar, DbRows, F) /\ Memory(F)
  BY DEF Synced
<1>3. /\ Flow(toChar, toMap, place, dbInv, Stor, dbStore)
      /\ UNCHANGED <<place, inv, toMap, dbInv, dbStore, up>> /\ place[c] = "on" /\ ~flag[c]
  BY DEF Synced, StorageOpen, charVars
<1>0. CASE Stor.max # Cap /\ ~up
  <2>1. UNCHANGED <<gstor, flag, toChar>>
    BY <1>0 DEF StorageOpen, Sends
  <2>2. Memory(F)'
    BY <1>2, <1>3, <2>1, SameMemory
  <2> QED
    BY <1>3, <1>2, <2>1, <2>2, SameStor, SameRows DEF Synced
<1>4. CASE Stor.max # Cap /\ up
  <2> DEFINE p == [cmd |-> "load", char |-> c]
  <2>1. p \in ToCharFit /\ p.cmd = "load" /\ p.char = c
    BY DEF ToCharFit, ToChar
  <2>2. Sends(<<p>>) /\ UNCHANGED <<gstor, flag>>
    BY <1>4 DEF StorageOpen
  <2> HIDE DEF p
  <2>3. toChar' = Append(toChar, p)
    <3>1. toChar' = toChar \o <<p>>
      BY <1>1, <1>4, <2>2, SendsAll
    <3>2. Append(toChar, p) = toChar \o <<p>>
      BY <1>1, <2>1, AppendFacts
    <3> QED
      BY <3>1, <3>2
  <2>4. /\ Flow(toChar', toMap, place, dbInv, Stor, dbStore)
        /\ Reaches(toChar', DbRows, F)
    BY <1>1, <1>2, <1>3, <1>4, <2>1, <2>3, OtherPushed
  <2>5. Memory(F)'
    BY <1>2, <1>3, <2>2, SameMemory
  <2> QED
    BY <1>1, <1>3, <1>4, <2>2, <2>4, <2>5, SameStor, SameRows DEF Synced
<1>5. CASE Stor.max = Cap
  <2>1. Opens(gstor, c) /\ UNCHANGED toChar
    BY <1>5 DEF StorageOpen
  <2>2. Known /\ gstor = Stor /\ gstor \in Storage
    BY <1>1, <1>5, StorBits, StorType
  <2>3. CASE OpenRefused(gstor)
    <3>1. UNCHANGED <<gstor, flag>>
      BY <2>1, <2>3 DEF Opens
    <3>2. Memory(F)'
      BY <1>2, <1>3, <3>1, SameMemory
    <3> QED
      BY <1>1, <1>3, <1>2, <2>1, <3>1, <3>2, SameStor, SameRows DEF Synced
  <2>4. CASE ~OpenRefused(gstor)
    <3>1. gstor' = [gstor EXCEPT !.status = TRUE] /\ flag' = [flag EXCEPT ![c] = TRUE]
      BY <2>1, <2>4 DEF Opens
    <3>2. /\ ~gstor.status /\ gstor'.status /\ gstor'.items = gstor.items
          /\ gstor'.dirty = gstor.dirty /\ gstor'.max = gstor.max /\ gstor' \in Storage
      BY <2>2, <2>4, <3>1 DEF OpenRefused, Storage
    <3>3. Known' /\ Stor' = gstor'
      BY <3>2, CapType DEF Known, Stor
    <3>4. Exact(F) /\ \A d \in Char : ~flag[d]
      BY <1>1, <1>2, <2>2, <3>2, ClosedExact
    <3>5. \A d \in Char : flag'[d] <=> d = c
      BY <1>1, <3>1, <3>4 DEF Copy
    <3>6. F.inv[c] \cap F.store = {}
      BY <1>1, <1>2, ReachFacts DEF Once
    <3>7. inv[c] = F.inv[c] /\ gstor.items = F.store
      BY <1>3, <1>5, <2>2, <3>4 DEF Exact
    <3>8. Memory(F)'
      BY <1>2, <1>3, <3>2, <3>4, <3>5, <3>6, <3>7 DEF Memory, Exact
    <3> QED
      BY <1>1, <1>2, <1>3, <1>5, <2>1, <2>2, <3>2, <3>3, <3>8, QuietSync
  <2> QED
    BY <2>3, <2>4
<1> QED
  BY <1>0, <1>4, <1>5

\* One who has the storage open moves an item.
LEMMA MoveSync ==
  ASSUME StoreInv, StoreInv', Synced, NEW c \in Char, NEW i \in Item,
         StorageAdd(c, i) \/ StorageGet(c, i), UNCHANGED <<charVars, up, broken>>
  PROVE  Synced'
<1>1. Copy /\ Others /\ toChar \in Seq(ToCharFit)
  BY DEF StoreInv, Others
<1>2. PICK F \in Rows : Reaches(toChar, DbRows, F) /\ Memory(F)
  BY DEF Synced
<1>3. /\ Flow(toChar, toMap, place, dbInv, Stor, dbStore)
      /\ flag[c] /\ gstor.status /\ Known /\ gstor.max = Cap /\ ~gstor.lock
      /\ gstor \in Storage /\ Stor = gstor
  BY <1>1, StorType DEF Synced, StorageAdd, StorageGet, Copy, LockMeansClosed
<1>4. /\ UNCHANGED <<flag, place, member, toChar, toMap, dbInv, dbStore, up>>
      /\ \/ /\ i \in inv[c]
            /\ gstor' = Added(gstor, {i})
            /\ inv' = [inv EXCEPT ![c] = @ \ {i}]
         \/ /\ i \in gstor.items
            /\ gstor' = [gstor EXCEPT !.items = @ \ {i}, !.dirty = TRUE]
            /\ inv' = [inv EXCEPT ![c] = @ \cup {i}]
  BY <1>3 DEF StorageAdd, StorageGet, charVars
<1>5. /\ gstor'.status /\ gstor'.dirty /\ gstor'.max = Cap /\ gstor' \in Storage
      /\ \/ i \in inv[c] /\ gstor'.items = gstor.items \cup {i} /\ inv' = [inv EXCEPT ![c] = inv[c] \ {i}]
         \/ i \in gstor.items /\ gstor'.items = gstor.items \ {i} /\ inv' = [inv EXCEPT ![c] = inv[c] \cup {i}]
  <2>1. CASE i \in inv[c] /\ gstor' = Added(gstor, {i}) /\ inv' = [inv EXCEPT ![c] = @ \ {i}]
    <3>1. gstor' = [gstor EXCEPT !.items = gstor.items \cup {i}, !.dirty = TRUE]
      BY <1>3, <2>1 DEF Added, Storage
    <3>2. /\ gstor'.status /\ gstor'.dirty /\ gstor'.max = Cap /\ gstor' \in Storage
          /\ gstor'.items = gstor.items \cup {i}
      BY <1>3, <3>1 DEF Storage
    <3> QED
      BY <2>1, <3>2
  <2>2. CASE /\ i \in gstor.items /\ gstor' = [gstor EXCEPT !.items = @ \ {i}, !.dirty = TRUE]
             /\ inv' = [inv EXCEPT ![c] = @ \cup {i}]
    BY <1>3, <2>2 DEF Storage
  <2> QED
    BY <1>4, <2>1, <2>2
<1>6. Known' /\ Stor' = gstor'
  BY <1>5, CapType DEF Known, Stor
<1>7. inv \in [Char -> SUBSET Item]
  BY <1>1 DEF Others
<1>8. \A d \in Char \ {c} : inv'[d] = inv[d]
  BY <1>5, <1>7
<1>9. inv'[c] \cap gstor'.items = {} /\ inv'[c] \cup gstor'.items = inv[c] \cup gstor.items
  <2>1. inv[c] \cap gstor.items = {}
    BY <1>2, <1>3 DEF Memory
  <2>2. CASE i \in inv[c] /\ gstor'.items = gstor.items \cup {i} /\ inv'[c] = inv[c] \ {i}
    BY <2>1, <2>2
  <2>3. CASE i \in gstor.items /\ gstor'.items = gstor.items \ {i} /\ inv'[c] = inv[c] \cup {i}
    BY <2>1, <2>3
  <2> QED
    BY <1>5, <1>7, <2>2, <2>3
<1>10. \A d \in Char : flag[d] => d = c
  BY <1>2, <1>3 DEF Memory
<1>11. place[c] = "on"
  BY <1>2, <1>3 DEF Memory
<1>12. Memory(F)'
  BY <1>2, <1>3, <1>4, <1>5, <1>8, <1>9, <1>10, <1>11 DEF Memory
<1> QED
  BY <1>1, <1>2, <1>3, <1>4, <1>5, <1>6, <1>12, QuietSync

\* The storage is closed by one who has it open, and saved.
LEMMA CloseSync ==
  ASSUME StoreInv, StoreInv', Synced, NEW c \in Char, flag[c], up,
         gstor' = Closed(gstor), flag' = [flag EXCEPT ![c] = FALSE],
         Sends(SaveOf(c, TRUE)), UNCHANGED <<inv, place, dbInv, dbStore, up>>,
         toMap' = toMap \/ (toMap # <<>> /\ toMap' = Tail(toMap))
  PROVE  Synced'
<1>1. Copy /\ Others /\ toMap \in Seq(ToMapFit) /\ up
  BY DEF StoreInv, Others, Synced
<1>2. PICK F \in Rows : Reaches(toChar, DbRows, F) /\ Memory(F)
  BY DEF Synced
<1>3. /\ Stor \in Storage
      /\ Known /\ gstor = Stor /\ gstor \in Stores
  BY <1>1, StorBits, StorType DEF Copy
<1>4. Flow(toChar, toMap', place, dbInv, Stor, dbStore)
  <2>1. Flow(toChar, toMap, place, dbInv, Stor, dbStore)
    BY DEF Synced
  <2>2. toMap # <<>> => Flow(toChar, Tail(toMap), place, dbInv, Stor, dbStore)
    BY <1>1, <1>3, <2>1, FlowTake
  <2> QED
    BY <2>1, <2>2
<1>5. place[c] = "on"
  BY <1>2 DEF Memory
<1>6. PICK G \in Rows, q \in Seq(ToCharFit) :
           /\ q = toChar \o SaveOf(c, TRUE)
           /\ Flow(q, toMap', place, dbInv, Stor, dbStore)
           /\ Reaches(q, DbRows, G) /\ Memory(G)
           /\ flag[c] => Exact(G)
  BY <1>2, <1>4, <1>5, SavePushed
<1>7. toChar' = q
  BY <1>1, <1>6, SendsAll
<1>8. /\ gstor'.items = gstor.items /\ gstor'.dirty = gstor.dirty /\ gstor'.max = gstor.max
      /\ gstor' \in Stores
  BY <1>3, ClosedStore
<1>9. Stor' = gstor'
  BY <1>8, CapType DEF Stor, Known, Stores
<1>10. \A d \in Char : ~flag'[d]
  BY <1>1, <1>2 DEF Memory, Copy
<1>11. \A d \in Char : place[d] # "on" => inv[d] = {}
  BY <1>2 DEF Memory
<1>12. Memory(G)'
  BY <1>3, <1>6, <1>8, <1>10, <1>11, ClosedMemory
<1>13. DbRows' = DbRows
  BY SameRows
<1>14. up' /\ Stor'.dirty = Stor.dirty /\ Stor'.max = Stor.max
  BY <1>1, <1>3, <1>8, <1>9
<1>15. Flow(toChar', toMap', place', dbInv', Stor', dbStore')
  <2>0. StoreInv' => (Stor \in Storage)'
    BY StorNow, PTL
  <2>1. Stor' \in Storage
    BY <2>0
  <2>2. Stor.max # Cap => ~Stor.dirty
    BY <1>6 DEF Flow, Loads
  <2>3. Flow(q, toMap', place, dbInv, Stor', dbStore)
    BY <1>3, <1>6, <1>14, <2>1, <2>2, FlowStore
  <2> QED
    BY <1>7, <2>3
<1> QED
  BY <1>6, <1>7, <1>12, <1>13, <1>14, <1>15 DEF Synced

LEMMA AutosaveSync ==
  ASSUME StoreInv, StoreInv', Synced, NEW c \in Char, Autosave(c), UNCHANGED <<charVars, up, broken>>
  PROVE  Synced'
<1>1. Copy /\ Others
  BY DEF StoreInv
<1>2. PICK F \in Rows : Reaches(toChar, DbRows, F) /\ Memory(F)
  BY DEF Synced
<1>3. /\ UNCHANGED <<gstor, flag, place, inv, toMap, dbInv, dbStore, up>> /\ place[c] = "on"
      /\ Sends(SaveOf(c, TRUE))
      /\ Flow(toChar, toMap, place, dbInv, Stor, dbStore)
  BY DEF Autosave, mapVars, charVars, Synced
<1>a. CASE ~up
  <2>1. toChar' = toChar
    BY <1>3, <1>a DEF Sends
  <2>2. Memory(F)'
    BY <1>2, <1>3, SameMemory
  <2> QED
    BY <1>3, <1>2, <2>1, <2>2, SameStor, SameRows DEF Synced
<1>b. CASE up
  <2>4. PICK G \in Rows, q \in Seq(ToCharFit) :
             /\ q = toChar \o SaveOf(c, TRUE)
             /\ Flow(q, toMap, place, dbInv, Stor, dbStore)
             /\ Reaches(q, DbRows, G) /\ Memory(G)
    BY <1>2, <1>3, SavePushed
  <2>5. toChar' = q
    BY <1>1, <1>3, <1>b, <2>4, SendsAll
  <2>6. Memory(G)'
    BY <1>3, <2>4, SameMemory
  <2>7. Stor' = Stor /\ DbRows' = DbRows
    BY <1>3, SameStor, SameRows
  <2>8. up'
    BY <1>3, <1>b
  <2>9. Flow(toChar', toMap', place', dbInv', Stor', dbStore')
    BY <1>3, <2>4, <2>5, <2>7
  <2> QED
    BY <2>4, <2>5, <2>6, <2>7, <2>8, <2>9 DEF Synced
<1> QED
  BY <1>a, <1>b

LEMMA StorageCloseSync ==
  ASSUME StoreInv, StoreInv', Synced, NEW c \in Char, flag[c], StorageClose(c),
         UNCHANGED <<charVars, up, broken>>, ~apart'
  PROVE  Synced'
<1>1. Stor.status
  <2>1. Known /\ gstor.status
    BY DEF StoreInv, Copy, Synced, Memory
  <2> QED
    BY <2>1 DEF Stor
<1>2. Sends(SaveOf(c, TRUE))
  BY <1>1 DEF StorageClose, CloseSave
<1>3. up
  BY DEF StorageClose
<1> QED
  BY <1>2, <1>3, CloseSync DEF StorageClose, charVars

\* A script closes the storage of others: nothing is saved apart only if nobody has
\* it open.
LEMMA CountItemSync ==
  ASSUME StoreInv, StoreInv', Synced, NEW c \in Char, CountItem(c), ~apart',
         UNCHANGED <<charVars, up, broken>>
  PROVE  Synced'
<1>1. Copy /\ Others
  BY DEF StoreInv
<1>2. PICK F \in Rows : Reaches(toChar, DbRows, F) /\ Memory(F)
  BY DEF Synced
<1>0. apart' = (apart \/ Stor.status) /\ Stor.status \in BOOLEAN
  BY <1>1, StorType DEF CountItem, Storage
<1>3. /\ ~Stor.status /\ gstor' = [Closed(Stor) EXCEPT !.lock = FALSE] /\ Sends(CloseSave(c))
      /\ UNCHANGED <<flag, place, inv, toMap, dbInv, dbStore, up>>
  <2>1. ~Stor.status
    BY <1>0
  <2> QED
    BY <2>1 DEF CountItem, charVars
<1>4. toChar' = toChar
  BY <1>1, <1>3, SendsNothing DEF CloseSave
<1>5. Stor \in Stores
  BY <1>1, StorType
<1>6. /\ gstor'.items = Stor.items /\ gstor'.dirty = Stor.dirty /\ gstor'.max = Stor.max
      /\ gstor' \in Stores
  BY <1>3, <1>5, ClosedStore
<1>7. Stor' = gstor'
  BY <1>6, CapType DEF Stor, Known, Stores
<1>8. Exact(F) /\ \A d \in Char : ~flag[d]
  BY <1>1, <1>2, <1>3, ClosedExact
<1>9. gstor'.max = Cap => Known /\ gstor.max = Cap /\ gstor'.items = gstor.items
  BY <1>1, <1>6, StorBits, StorType
<1>10. \A d \in Char : place[d] # "on" => inv[d] = {}
  BY <1>2 DEF Memory
<1>11. Memory(F)'
  BY <1>2, <1>3, <1>8, <1>9, <1>10, ClosedMemory
<1>12. Flow(toChar, toMap, place, dbInv, Stor, dbStore)
  BY DEF Synced
<1>13. Stor.max # Cap => ~Stor.dirty
  BY <1>12 DEF Flow, Loads
<1> QED
  BY <1>1, <1>2, <1>3, <1>4, <1>6, <1>7, <1>11, <1>12, <1>13, QuietSync

LEMMA EnterSync ==
  ASSUME StoreInv, StoreInv', Synced, NEW c \in Char, Enter(c), UNCHANGED <<charVars, up, broken>>
  PROVE  Synced'
<1>1. Copy /\ Others /\ toChar \in Seq(ToCharFit) /\ up
  BY DEF StoreInv, Others, Enter
<1>2. PICK F \in Rows : Reaches(toChar, DbRows, F) /\ Memory(F)
  BY DEF Synced
<1> DEFINE p == [cmd |-> "getinv", char |-> c]
<1>3. p \in ToCharFit /\ p.cmd = "getinv" /\ p.char = c
  BY DEF ToCharFit, ToChar
<1>4. /\ Sends(<<p>>) /\ place[c] = "off" /\ place' = [place EXCEPT ![c] = "loading"] /\ Settled(c)
      /\ UNCHANGED <<gstor, flag, inv, toMap, dbInv, dbStore, up>>
  BY DEF Enter, charVars
<1> HIDE DEF p
<1>5. toChar' = Append(toChar, p)
  <2>1. toChar' = toChar \o <<p>>
    BY <1>1, <1>4, SendsAll
  <2>2. Append(toChar, p) = toChar \o <<p>>
    BY <1>1, <1>3, AppendFacts
  <2> QED
    BY <2>1, <2>2
<1>6. Flow(toChar, toMap, place, dbInv, Stor, dbStore)
  BY DEF Synced
<1>7. Flow(Append(toChar, p), toMap, place', dbInv, Stor, dbStore)
  <2>1. Loads(Append(toChar, p), toMap, Stor, dbStore)
    <3>1. ~StoreSave(p) /\ p.cmd # "load"
      BY <1>3 DEF StoreSave
    <3>2. Stor \in Storage
      BY <1>1, StorType
    <3>3. Loads(toChar, toMap, Stor, dbStore)
      BY <1>6 DEF Flow
    <3> QED
      BY <1>1, <1>3, <3>1, <3>2, <3>3, LoadsPush
  <2>2. ASSUME NEW d \in Char PROVE EnterOf(d, Append(toChar, p), toMap, place'[d], dbInv[d])
    <3>1. EnterOf(d, toChar, toMap, place[d], dbInv[d])
      BY <1>6 DEF Flow
    <3>2. place'[d] = IF d = c THEN "loading" ELSE place[d]
      BY <1>1, <1>4 DEF Others
    <3>3. CASE d = c
      <4>1. \A k \in 1 .. Len(toChar) : toChar[k].char # c
        BY <1>1, <1>4 DEF Settled
      <4>2. \A k \in 1 .. Len(toMap) : ~Asks(toMap[k], "loaded", c)
        <5>1. DOMAIN toMap = 1 .. Len(toMap)
          BY <1>1 DEF Others
        <5> QED
          BY <1>4, <5>1 DEF Settled, Asks
      <4>3. EnterOf(c, toChar, toMap, "off", dbInv[c]) /\ Asks(p, "getinv", c)
        BY <1>3, <1>4, <3>1, <3>3 DEF Asks
      <4>4. EnterOf(c, Append(toChar, p), toMap, "loading", dbInv[c])
        BY <1>1, <1>3, <4>1, <4>2, <4>3, EnterAsk
      <4> QED
        BY <3>2, <3>3, <4>4
    <3>4. CASE d # c
      <4>1. ~Asks(p, "getinv", d) /\ ~InvSave(p, d) /\ ~Asks(p, "load", d)
        BY <1>3, <3>4 DEF Asks, InvSave
      <4> QED
        BY <1>1, <1>3, <3>1, <3>2, <3>4, <4>1, EnterPush
    <3> QED
      BY <3>3, <3>4
  <2> QED
    BY <1>6, <2>1, <2>2 DEF Flow
<1>8. Applied(F, p) = F /\ Once(F)
  BY <1>1, <1>2, <1>3, AppliedOther, ReachFacts
<1>9. Reaches(Append(toChar, p), DbRows, F)
  BY <1>1, <1>2, <1>3, <1>8, ReachPush
<1>10. Memory(F)'
  <2>1. inv[c] = {} /\ ~flag[c]
    BY <1>2, <1>4 DEF Memory
  <2>2. \A d \in Char : place'[d] = IF d = c THEN "loading" ELSE place[d]
    BY <1>1, <1>4 DEF Others
  <2>3. Known' <=> Known
    BY <1>4, SameStor
  <2> QED
    BY <1>2, <1>4, <2>1, <2>2, <2>3 DEF Memory
<1>11. Stor' = Stor /\ DbRows' = DbRows
  BY <1>4, SameStor, SameRows
<1>12. up'
  BY <1>1, <1>4
<1>13. Flow(toChar', toMap', place', dbInv', Stor', dbStore')
  BY <1>4, <1>5, <1>7, <1>11
<1> QED
  BY <1>5, <1>9, <1>10, <1>11, <1>12, <1>13 DEF Synced

\* map_quit
LEMMA QuitSync ==
  ASSUME StoreInv, StoreInv', Synced, NEW c \in Char, Quit(c), UNCHANGED <<charVars, up, broken>>
  PROVE  Synced'
<1>1. Copy /\ Others /\ toChar \in Seq(ToCharFit) /\ up
  BY DEF StoreInv, Others, Quit
<1>2. PICK F \in Rows : Reaches(toChar, DbRows, F) /\ Memory(F)
  BY DEF Synced
<1>3. /\ place[c] = "on" /\ flag' = [flag EXCEPT ![c] = FALSE]
      /\ place' = [place EXCEPT ![c] = "off"] /\ inv' = [inv EXCEPT ![c] = {}]
      /\ UNCHANGED <<toMap, dbInv, dbStore, up>>
  BY DEF Quit, charVars
<1>4. /\ flag[c] => gstor' = Closed(gstor) /\ Known /\ gstor.status /\ gstor \in Stores
      /\ ~flag[c] => gstor' = gstor
  BY <1>1, <1>2 DEF Quit, Copy, Known, Memory
<1>6. Flow(toChar, toMap, place, dbInv, Stor, dbStore)
  BY DEF Synced
<1>7. PICK G \in Rows, q \in Seq(ToCharFit) :
           /\ toChar' = q
           /\ Flow(q, toMap, place, dbInv, Stor, dbStore)
           /\ Reaches(q, DbRows, G) /\ Memory(G)
           /\ flag[c] => Exact(G)
  <2>1. CASE flag[c]
    <3>1. Sends(SaveOf(c, TRUE) \o InventorySave(c))
      <4>1. CloseSave(c) = SaveOf(c, TRUE)
        BY <1>4, <2>1 DEF CloseSave, Stor
      <4>2. Sends(CloseSave(c) \o InventorySave(c))
        BY <2>1 DEF Quit
      <4> QED
        BY <4>1, <4>2
    <3>2. PICK G \in Rows, q \in Seq(ToCharFit) :
             /\ q = toChar \o SaveOf(c, TRUE)
             /\ Flow(q, toMap, place, dbInv, Stor, dbStore)
             /\ Reaches(q, DbRows, G) /\ Memory(G) /\ G.inv[c] = inv[c]
             /\ flag[c] => Exact(G)
      BY <1>2, <1>3, <1>6, SavePushed
    <3>3. PICK t \in Seq(ToCharFit) :
             /\ t = q \o InventorySave(c)
             /\ Flow(t, toMap, place, dbInv, Stor, dbStore)
             /\ Reaches(t, DbRows, G)
      BY <1>3, <3>2, InventoryPushed
    <3>4. toChar' = t
      <4>1. SaveOf(c, TRUE) \in Seq(ToCharFit) /\ InventorySave(c) \in Seq(ToCharFit)
        BY <1>1, SaveOfFit, InventoryFit
      <4>2. toChar' = toChar \o (SaveOf(c, TRUE) \o InventorySave(c))
        BY <1>1, <3>1, SendsAll
      <4>3. toChar \o (SaveOf(c, TRUE) \o InventorySave(c)) = (toChar \o SaveOf(c, TRUE)) \o InventorySave(c)
        BY <1>1, <4>1, QueueAppends
      <4> QED
        BY <3>2, <3>3, <4>2, <4>3
    <3> QED
      BY <3>2, <3>3, <3>4
  <2>2. CASE ~flag[c]
    <3>1. inv[c] = F.inv[c]
      BY <1>2, <1>3, <2>2 DEF Memory
    <3>2. PICK t \in Seq(ToCharFit) :
             /\ t = toChar \o InventorySave(c)
             /\ Flow(t, toMap, place, dbInv, Stor, dbStore)
             /\ Reaches(t, DbRows, F)
      BY <1>1, <1>2, <1>3, <1>6, <3>1, InventoryPushed
    <3>3. toChar' = t
      <4>1. Sends(InventorySave(c))
        BY <2>2 DEF Quit
      <4> QED
        BY <1>1, <3>2, <4>1, SendsAll
    <3> QED
      BY <1>2, <2>2, <3>2, <3>3
  <2> QED
    BY <2>1, <2>2
<1>9. /\ \A d \in Char : place'[d] = IF d = c THEN "off" ELSE place[d]
      /\ \A d \in Char : flag'[d] = IF d = c THEN FALSE ELSE flag[d]
      /\ \A d \in Char : inv'[d] = IF d = c THEN {} ELSE inv[d]
  BY <1>1, <1>3 DEF Others, Copy
<1>10. Flow(q, toMap, place', dbInv, Stor, dbStore)
  <2>1. ASSUME NEW d \in Char PROVE EnterOf(d, q, toMap, place'[d], dbInv[d])
    <3>1. EnterOf(d, q, toMap, place[d], dbInv[d])
      BY <1>7 DEF Flow
    <3> QED
      BY <1>3, <1>9, <3>1, EnterStop
  <2> QED
    BY <1>7, <2>1 DEF Flow
<1>11. Memory(G)' /\ Stor'.items = Stor.items /\ Stor'.dirty = Stor.dirty /\ Stor'.max = Stor.max
  <2>1. CASE flag[c]
    <3>1. /\ gstor'.items = gstor.items /\ gstor'.dirty = gstor.dirty /\ gstor'.max = gstor.max
          /\ gstor' \in Stores
      BY <1>4, <2>1, ClosedStore
    <3>2. Stor' = gstor' /\ Stor = gstor
      BY <1>4, <2>1, <3>1, CapType DEF Stor, Known, Stores
    <3>3. \A d \in Char : ~flag'[d]
      BY <1>2, <1>9, <2>1 DEF Memory
    <3>4. \A d \in Char : place'[d] # "on" => inv'[d] = {}
      BY <1>2, <1>9 DEF Memory
    <3>5. \A d \in Char : place'[d] = "on" => place[d] = "on" /\ inv'[d] = inv[d]
      BY <1>9
    <3>6. Memory(G)'
      BY <1>4, <1>7, <2>1, <3>1, <3>3, <3>4, <3>5, ClosedMemory
    <3> QED
      BY <3>1, <3>2, <3>6
  <2>2. CASE ~flag[c]
    <3>1. gstor' = gstor /\ Stor' = Stor /\ (Known' <=> Known)
      BY <1>4, <2>2, SameStor
    <3>2. Memory(G)'
      BY <1>7, <1>9, <2>2, <3>1 DEF Memory
    <3> QED
      BY <3>1, <3>2
  <2> QED
    BY <2>1, <2>2
<1>12. Flow(q, toMap, place', dbInv, Stor', dbStore)
  <2>1. StoreInv' => (Stor \in Storage)'
    BY StorNow, PTL
  <2>2. Stor.max # Cap => ~Stor.dirty
    BY <1>7 DEF Flow, Loads
  <2> QED
    BY <1>10, <1>11, <2>1, <2>2, StorNow, FlowStore
<1>13. DbRows' = DbRows
  BY <1>3, SameRows
<1>14. up'
  BY <1>1, <1>3
<1>15. Flow(toChar', toMap', place', dbInv', Stor', dbStore')
  BY <1>3, <1>7, <1>12
<1> QED
  BY <1>7, <1>11, <1>13, <1>14, <1>15 DEF Synced

LEMMA LeaveSync ==
  ASSUME StoreInv, StoreInv', Synced, NEW c \in Char, Leave(c), UNCHANGED <<charVars, up, broken>>
  PROVE  Synced'
<1>1. Copy /\ Others /\ toChar \in Seq(ToCharFit) /\ up
  BY DEF StoreInv, Others, Leave
<1>2. PICK F \in Rows : Reaches(toChar, DbRows, F) /\ Memory(F)
  BY DEF Synced
<1> DEFINE p == [cmd |-> "leave", char |-> c]
<1>3. p \in ToCharFit /\ p.cmd = "leave"
  BY DEF ToCharFit, ToChar
<1>4. /\ Sends(<<p>>)
      /\ UNCHANGED <<gstor, flag, place, inv, toMap, dbInv, dbStore, up>>
  BY DEF Leave, charVars, mapVars
<1> HIDE DEF p
<1>5. toChar' = Append(toChar, p)
  BY <1>1, <1>3, <1>4, SendsAll, AppendFacts, SMTT(30)
<1>6. Flow(toChar, toMap, place, dbInv, Stor, dbStore)
  BY DEF Synced
<1>7. /\ Flow(Append(toChar, p), toMap, place, dbInv, Stor, dbStore)
      /\ Reaches(Append(toChar, p), DbRows, F)
  BY <1>1, <1>2, <1>3, <1>6, OtherPushed
<1>8. Memory(F)'
  BY <1>2, <1>4, SameMemory
<1>9. Stor' = Stor /\ DbRows' = DbRows
  BY <1>4, SameStor, SameRows
<1>10. up'
  BY <1>1, <1>4
<1>11. Flow(toChar', toMap', place', dbInv', Stor', dbStore')
  BY <1>4, <1>5, <1>7, <1>9
<1> QED
  BY <1>5, <1>7, <1>8, <1>9, <1>10, <1>11 DEF Synced

LEMMA ClientsSync ==
  ASSUME StoreInv, StoreInv', Synced, Clients, UNCHANGED <<charVars, up, broken>>, ~apart'
  PROVE  Synced'
<1>1. PICK c \in Char :
        \/ StorageOpen(c) \/ CloseStorage(c)
        \/ \E i \in Item : StorageAdd(c, i) \/ StorageGet(c, i)
        \/ Autosave(c) \/ SaveStatus(c) \/ CountItem(c)
        \/ Enter(c) \/ Quit(c) \/ Leave(c)
  BY DEF Clients
<1>2. CASE CloseStorage(c)
  BY <1>2, StorageCloseSync DEF CloseStorage
<1>3. CASE SaveStatus(c)
  BY <1>3 DEF SaveStatus
<1> QED
  BY <1>1, <1>2, <1>3, OpenSync, MoveSync, AutosaveSync, CountItemSync, EnterSync, QuitSync, LeaveSync

----------------------------------------------------------------------------
(* The packets that arrive.                                                 *)

LEMMA TakenFlow ==
  ASSUME StoreInv, Synced, toMap # <<>>
  PROVE  /\ Flow(toChar, Tail(toMap), place, dbInv, Stor, dbStore)
         /\ Head(toMap) \in ToMapFit /\ Head(toMap).cmd # "store2g"
<1>1. toMap \in Seq(ToMapFit) /\ Stor \in Storage
  BY StorNow DEF StoreInv, Others
<1>2. Flow(toChar, toMap, place, dbInv, Stor, dbStore)
  BY DEF Synced
<1>3. Flow(toChar, Tail(toMap), place, dbInv, Stor, dbStore)
  BY <1>1, <1>2, FlowTake
<1>4. Head(toMap) = toMap[1] /\ 1 \in 1 .. Len(toMap) /\ Head(toMap) \in ToMapFit
  BY <1>1, TailFacts
<1> QED
  BY <1>2, <1>3, <1>4 DEF Flow

\* intif_parse_LoadGuildStorage: what is loaded is what the rows will be.
LEMMA LoadedSync ==
  ASSUME StoreInv, StoreInv', Synced, toMap # <<>>, toMap' = Tail(toMap),
         NEW p \in ToMapFit, p = Head(toMap), p.cmd = "loaded", Loaded(p),
         UNCHANGED <<place, inv, toChar, dbInv, dbStore, up>>
  PROVE  Synced'
<1>1. Copy /\ Others /\ up /\ Stor \in Storage /\ toMap \in Seq(ToMapFit)
  BY StorNow DEF StoreInv, Synced, Others
<1>2. PICK F \in Rows : Reaches(toChar, DbRows, F) /\ Memory(F)
  BY DEF Synced
<1>3. /\ Flow(toChar, toMap, place, dbInv, Stor, dbStore)
      /\ Flow(toChar, toMap', place, dbInv, Stor, dbStore)
  BY TakenFlow DEF Synced
<1>4. p.char \in Char /\ p.items \in SUBSET Item
  BY PacketFields
<1>5. Stor.max # Cap => ~Stor.dirty
  BY <1>3 DEF Flow, Loads
<1>6. ASSUME UNCHANGED <<gstor, flag>> PROVE Synced'
  <2>1. Memory(F)'
    BY <1>2, <1>6, SameMemory
  <2>2. Stor' = Stor
    BY <1>6, SameStor
  <2> QED
    BY <1>1, <1>2, <1>3, <1>5, <2>1, <2>2, QuietSync
<1>7. CASE place[p.char] = "off"
  BY <1>6, <1>7 DEF Loaded
<1>8. CASE place[p.char] # "off" /\ LoadIgnored(Stor)
  <2>1. gstor' = gstor /\ flag' = flag
    BY <1>1, <1>8, StorType DEF Loaded, LoadIgnored
  <2> QED
    BY <1>6, <2>1
<1>9. CASE place[p.char] # "off" /\ ~LoadIgnored(Stor)
  <2> DEFINE fresh == [items |-> p.items, status |-> FALSE, dirty |-> FALSE, lock |-> FALSE, max |-> Cap]
  <2>1. ~Stor.status /\ ~Stor.dirty
    BY <1>9 DEF LoadIgnored
  <2>2. Exact(F) /\ \A d \in Char : ~flag[d]
    BY <1>1, <1>2, <2>1, ClosedExact
  <2>3. p.items = dbStore /\ Unsaved(toChar, toMap)
    <3>1. Loads(toChar, toMap, Stor, dbStore)
      BY <1>3 DEF Flow
    <3> QED
      BY <1>1, <2>1, <3>1, LoadsTakeLoaded
  <2>4. p.items = F.store
    <3>1. F.store = DbRows.store
      BY <1>1, <1>2, <2>3, ReachFacts DEF Others, Unsaved
    <3> QED
      BY <2>3, <3>1 DEF DbRows
  <2>5. place[p.char] = "on"
    <3>1. EnterOf(p.char, toChar, toMap, place[p.char], dbInv[p.char])
      BY <1>3, <1>4 DEF Flow
    <3>2. 1 \in 1 .. Len(toMap) /\ toMap[1] = p
      BY <1>1, TailFacts
    <3>3. place[p.char] # "loading"
      BY <3>1, <3>2 DEF EnterOf, Asks
    <3> QED
      BY <1>1, <1>4, <1>9, <3>3 DEF Others
  <2>6. /\ fresh.items = p.items /\ ~fresh.dirty /\ fresh.max = Cap /\ ~fresh.status /\ ~fresh.lock
        /\ fresh \in Storage
    BY <1>4 DEF Storage
  <2>7. \/ Opens(fresh, p.char) /\ p.char \in member /\ ~flag[p.char]
        \/ gstor' = fresh /\ UNCHANGED flag
    BY <1>9 DEF Loaded
  <2> HIDE DEF fresh
  <2>8. \/ gstor' = [fresh EXCEPT !.status = TRUE] /\ flag' = [flag EXCEPT ![p.char] = TRUE]
        \/ gstor' = fresh /\ UNCHANGED flag
    BY <2>6, <2>7 DEF Opens, OpenRefused
  <2>9. gstor'.items = F.store /\ ~gstor'.dirty /\ gstor'.max = Cap /\ gstor' \in Storage
    BY <2>4, <2>6, <2>8 DEF Storage
  <2>10. Known' /\ Stor' = gstor'
    BY <2>9, CapType DEF Known, Stor
  <2>11. \A d \in Char : flag'[d] => d = p.char /\ gstor'.status
    BY <1>1, <2>2, <2>6, <2>8 DEF Copy, Storage
  <2>12. F.inv[p.char] \cap F.store = {}
    BY <1>1, <1>2, <1>4, ReachFacts DEF Once, Others
  <2>13. inv[p.char] = F.inv[p.char]
    BY <1>4, <2>2, <2>5 DEF Exact
  <2>14. Memory(F)'
    BY <1>2, <1>4, <2>2, <2>5, <2>9, <2>11, <2>12, <2>13 DEF Memory, Exact
  <2> QED
    BY <1>1, <1>2, <1>3, <2>1, <2>9, <2>10, <2>14, QuietSync
<1> QED
  BY <1>7, <1>8, <1>9

\* His inventory arrives: it is what the rows of it will be.
LEMMA InvSync ==
  ASSUME StoreInv, StoreInv', Synced, toMap # <<>>, toMap' = Tail(toMap),
         NEW p \in ToMapFit, p = Head(toMap), p.cmd = "inv",
         place' = [place EXCEPT ![p.char] = "on"],
         inv' = [inv EXCEPT ![p.char] = p.items],
         UNCHANGED <<gstor, flag, toChar, dbInv, dbStore, up>>
  PROVE  Synced'
<1>1. Copy /\ Others /\ up /\ Stor \in Storage /\ toMap \in Seq(ToMapFit) /\ toChar \in Seq(ToCharFit)
  BY StorNow DEF StoreInv, Synced, Others
<1>2. PICK F \in Rows : Reaches(toChar, DbRows, F) /\ Memory(F)
  BY DEF Synced
<1>3. /\ Flow(toChar, toMap, place, dbInv, Stor, dbStore)
      /\ Flow(toChar, toMap', place, dbInv, Stor, dbStore)
  BY TakenFlow DEF Synced
<1> DEFINE c == p.char
<1>4. c \in Char /\ p.items \in SUBSET Item /\ Asks(p, "inv", c)
  BY PacketFields DEF Asks
<1> HIDE DEF c
<1>5. EnterOf(c, toChar, toMap, place[c], dbInv[c])
  BY <1>3, <1>4 DEF Flow
<1>6. place[c] = "loading" /\ p.items = dbInv[c] /\ EnterOf(c, toChar, toMap', "on", dbInv[c])
  BY <1>1, <1>4, <1>5, EnterGot
<1>7. /\ \A d \in Char : place'[d] = IF d = c THEN "on" ELSE place[d]
      /\ \A d \in Char : inv'[d] = IF d = c THEN p.items ELSE inv[d]
  BY <1>1, <1>4 DEF Others, c
<1>8. F.inv[c] = dbInv[c]
  <2>1. \A k \in 1 .. Len(toChar) : ~InvSave(toChar[k], c)
    BY <1>5, <1>6 DEF EnterOf
  <2>2. F.inv[c] = DbRows.inv[c]
    BY <1>1, <1>2, <1>4, <2>1, ReachFacts
  <2> QED
    BY <2>2 DEF DbRows
<1>9. Memory(F)'
  <2>1. ~flag[c]
    BY <1>2, <1>4, <1>6 DEF Memory
  <2>2. Known' <=> Known
    BY SameStor
  <2> QED
    BY <1>2, <1>6, <1>7, <1>8, <2>1, <2>2 DEF Memory
<1>10. Flow(toChar, toMap', place', dbInv, Stor, dbStore)
  <2>1. ASSUME NEW d \in Char PROVE EnterOf(d, toChar, toMap', place'[d], dbInv[d])
    <3>1. EnterOf(d, toChar, toMap', place[d], dbInv[d])
      BY <1>3 DEF Flow
    <3> QED
      BY <1>6, <1>7, <3>1
  <2> QED
    BY <1>3, <2>1 DEF Flow
<1>11. Stor' = Stor /\ DbRows' = DbRows
  BY SameStor, SameRows
<1>12. up'
  BY <1>1
<1>13. Flow(toChar', toMap', place', dbInv', Stor', dbStore')
  BY <1>10, <1>11
<1> QED
  BY <1>2, <1>9, <1>11, <1>12, <1>13 DEF Synced

\* The storage was saved; if it is closed it is not dirty any more.
LEMMA SavedSync ==
  ASSUME StoreInv, StoreInv', Synced, toMap # <<>>, toMap' = Tail(toMap),
         Head(toMap).cmd = "saved", Saved,
         UNCHANGED <<flag, place, inv, toChar, dbInv, dbStore, up>>
  PROVE  Synced'
<1>1. Copy /\ Others /\ up /\ Stor \in Storage /\ toMap \in Seq(ToMapFit)
  BY StorNow DEF StoreInv, Synced, Others
<1>2. PICK F \in Rows : Reaches(toChar, DbRows, F) /\ Memory(F)
  BY DEF Synced
<1>3. /\ Flow(toChar, toMap, place, dbInv, Stor, dbStore)
      /\ Flow(toChar, toMap', place, dbInv, Stor, dbStore)
  BY TakenFlow DEF Synced
<1>4. CASE gstor' = gstor
  <2>1. Memory(F)'
    BY <1>2, <1>4, SameMemory
  <2>2. Stor' = Stor
    BY <1>4, SameStor
  <2>3. Stor.max # Cap => ~Stor.dirty
    BY <1>3 DEF Flow, Loads
  <2> QED
    BY <1>1, <1>2, <1>3, <2>1, <2>2, <2>3, QuietSync
<1>5. CASE Known /\ ~Stor.status /\ gstor' = [gstor EXCEPT !.dirty = FALSE]
  <2>1. gstor = Stor
    BY <1>5 DEF Stor
  <2>2. /\ gstor'.items = gstor.items /\ gstor'.max = gstor.max /\ ~gstor'.status /\ gstor' \in Storage
    BY <1>1, <1>5, <2>1 DEF Storage
  <2>3. Stor' = gstor' /\ Known'
    BY <2>2, CapType DEF Stor, Known
  <2>4. Exact(F) /\ \A d \in Char : ~flag[d]
    BY <1>1, <1>2, <1>5, ClosedExact
  <2>5. \A d \in Char : place[d] # "on" => inv[d] = {}
    BY <1>2 DEF Memory
  <2>6. Memory(F)'
    BY <1>2, <1>5, <2>2, <2>4, <2>5, ClosedMemory
  <2>7. Loads(toChar, Tail(toMap), Stor', dbStore)
    <3>1. Loads(toChar, toMap, Stor, dbStore)
      BY <1>3 DEF Flow
    <3> QED
      BY <1>1, <2>1, <2>2, <2>3, <3>1, LoadsTakeSaved
  <2>8. Flow(toChar, toMap', place, dbInv, Stor', dbStore)
    BY <1>3, <2>7 DEF Flow
  <2>9. DbRows' = DbRows
    BY SameRows
  <2>10. up'
    BY <1>1
  <2> QED
    BY <1>2, <2>6, <2>8, <2>9, <2>10 DEF Synced
<1> QED
  BY <1>4, <1>5, Zenon DEF Saved

LEMMA UnlockSync ==
  ASSUME StoreInv, StoreInv', Synced, toMap # <<>>, toMap' = Tail(toMap),
         gstor' = IF Known THEN [gstor EXCEPT !.lock = FALSE] ELSE gstor,
         UNCHANGED <<flag, place, inv, toChar, dbInv, dbStore, up>>
  PROVE  Synced'
<1>1. Copy /\ Others /\ up /\ Stor \in Storage
  BY StorNow DEF StoreInv, Synced
<1>2. PICK F \in Rows : Reaches(toChar, DbRows, F) /\ Memory(F)
  BY DEF Synced
<1>3. Flow(toChar, toMap', place, dbInv, Stor, dbStore)
  BY TakenFlow
<1>4. Stor.max # Cap => ~Stor.dirty
  BY <1>3 DEF Flow, Loads
<1>5. CASE Known
  <2>1. gstor = Stor /\ gstor' = [gstor EXCEPT !.lock = FALSE]
    BY <1>5 DEF Stor
  <2>2. /\ gstor'.items = gstor.items /\ gstor'.max = gstor.max /\ gstor'.dirty = gstor.dirty
        /\ gstor'.status = gstor.status /\ gstor' \in Storage
    BY <1>1, <2>1 DEF Storage
  <2>3. Stor' = gstor' /\ Known'
    BY <2>2, CapType DEF Stor, Known
  <2>4. Memory(F)'
    BY <1>2, <1>5, <2>2, <2>3, SameMemory
  <2> QED
    BY <1>1, <1>2, <1>3, <1>4, <2>1, <2>2, <2>3, <2>4, QuietSync
<1>6. CASE ~Known
  <2>1. gstor' = gstor
    BY <1>6
  <2>2. Memory(F)'
    BY <1>2, <2>1, SameMemory
  <2>3. Stor' = Stor
    BY <2>1, SameStor
  <2> QED
    BY <1>1, <1>2, <1>3, <1>4, <2>2, <2>3, QuietSync
<1> QED
  BY <1>5, <1>6

LEMMA WithdrawOnlineSync ==
  ASSUME StoreInv, StoreInv', Synced, toMap # <<>>, toMap' = Tail(toMap),
         NEW c \in Char, WithdrawOnline(c), ~apart',
         UNCHANGED <<place, dbInv, dbStore, up>>
  PROVE  Synced'
<1>1. Copy /\ Others /\ up /\ Stor \in Storage
  BY StorNow DEF StoreInv, Synced
<1>2. inv[c] \cap Bound = {}
  <2> SUFFICES ASSUME inv[c] \cap Bound # {} PROVE FALSE
    OBVIOUS
  <2>1. apart' = TRUE
    BY DEF WithdrawOnline
  <2> QED
    BY <2>1
<1>3. CASE flag[c]
  <2>1. /\ gstor' = Closed(gstor) /\ flag' = [flag EXCEPT ![c] = FALSE]
        /\ Sends(CloseSave(c)) /\ UNCHANGED <<inv, apart>>
    BY <1>2, <1>3 DEF WithdrawOnline
  <2>2. Stor.status
    <3>1. Known /\ gstor.status
      BY <1>1, <1>3 DEF Copy, Synced, Memory
    <3> QED
      BY <3>1 DEF Stor
  <2>3. Sends(SaveOf(c, TRUE))
    BY <2>1, <2>2 DEF CloseSave
  <2> QED
    BY <1>1, <1>3, <2>1, <2>3, CloseSync
<1>4. CASE ~flag[c]
  <2>1. UNCHANGED <<gstor, flag, inv, apart, toChar>>
    BY <1>2, <1>4 DEF WithdrawOnline
  <2>2. PICK F \in Rows : Reaches(toChar, DbRows, F) /\ Memory(F)
    BY DEF Synced
  <2>3. Flow(toChar, toMap', place, dbInv, Stor, dbStore)
    BY TakenFlow
  <2>4. Stor.max # Cap => ~Stor.dirty
    BY <2>3 DEF Flow, Loads
  <2>5. Memory(F)'
    BY <2>1, <2>2, SameMemory
  <2>6. Stor' = Stor
    BY <2>1, SameStor
  <2> QED
    BY <1>1, <2>1, <2>2, <2>3, <2>4, <2>5, <2>6, QuietSync
<1> QED
  BY <1>3, <1>4

\* The storage of a member who is offline is locked, and the char server asked to
\* retrieve his bound items; who had it open is closed.
LEMMA WithdrawOfflineSync ==
  ASSUME StoreInv, StoreInv', Synced, toMap # <<>>, toMap' = Tail(toMap),
         NEW c \in Char, WithdrawOffline(c),
         UNCHANGED <<place, dbInv, dbStore, up>>
  PROVE  Synced'
<1>1. Copy /\ Others /\ up /\ Stor \in Storage /\ toChar \in Seq(ToCharFit)
  BY StorNow DEF StoreInv, Synced, Others
<1>2. PICK F \in Rows : Reaches(toChar, DbRows, F) /\ Memory(F)
  BY DEF Synced
<1>3. Flow(toChar, toMap', place, dbInv, Stor, dbStore)
  BY TakenFlow
<1>4. Stor.max # Cap => ~Stor.dirty
  BY <1>3 DEF Flow, Loads
<1> DEFINE p == [cmd |-> "retrieve", char |-> c]
<1>5. p \in ToCharFit /\ p.cmd = "retrieve"
  BY DEF ToCharFit, ToChar
<1>6. PICK first \in (IF Holders # {} THEN Holders ELSE {c}) :
        /\ Sends(CloseHolders(first) \o <<p>>)
        /\ flag' = FlagsClosed
        /\ gstor' = IF Known THEN [Closed(gstor) EXCEPT !.lock = TRUE] ELSE gstor
        /\ UNCHANGED <<inv, apart>>
  BY DEF WithdrawOffline
<1> HIDE DEF p
<1>7. first \in Char
  BY DEF Holders
    \* What goes out before the request: a save if somebody had the storage open.
<1>8. PICK G \in Rows, q \in Seq(ToCharFit) :
        /\ q = toChar \o CloseHolders(first)
        /\ Flow(q, toMap', place, dbInv, Stor, dbStore)
        /\ Reaches(q, DbRows, G) /\ Memory(G) /\ Exact(G)
  <2>1. CASE Stor.status
    <3>1. Holders # {}
      BY <2>1 DEF Copy, StoreInv, StatusHasHolder, Stor
    <3>2. flag[first]
      BY <3>1 DEF Holders
    <3>3. place[first] = "on"
      BY <1>2, <1>7, <3>2 DEF Memory
    <3>4. CloseHolders(first) = SaveOf(first, TRUE)
      BY <2>1 DEF CloseHolders, CloseSave
    <3>5. PICK G \in Rows, q \in Seq(ToCharFit) :
             /\ q = toChar \o SaveOf(first, TRUE)
             /\ Flow(q, toMap', place, dbInv, Stor, dbStore)
             /\ Reaches(q, DbRows, G) /\ Memory(G)
             /\ flag[first] => Exact(G)
      BY <1>2, <1>3, <1>7, <3>3, SavePushed
    <3> QED
      BY <3>2, <3>4, <3>5
  <2>2. CASE ~Stor.status
    <3>1. Exact(F)
      BY <1>1, <1>2, <2>2, ClosedExact
    <3>2. CloseHolders(first) = <<>>
      BY <2>2 DEF CloseHolders
    <3>3. toChar \o <<>> = toChar
      BY <1>1, ConcatEmptySeq
    <3> QED
      BY <1>1, <1>2, <1>3, <3>1, <3>2, <3>3
  <2> QED
    BY <2>1, <2>2
<1>9. toChar' = Append(q, p)
  <2>1. CloseHolders(first) \in Seq(ToCharFit)
    BY <1>1, <1>7, CloseFit
  <2>2. <<p>> \in Seq(ToCharFit)
    BY <1>5
  <2>3. PICK h \in Seq(ToCharFit), l \in Seq(ToCharFit) : h = CloseHolders(first) /\ l = <<p>>
    BY <2>1, <2>2
  <2>4. toChar' = toChar \o (h \o l)
    BY <1>1, <1>6, <2>3, SendsAll
  <2>5. toChar \o (h \o l) = (toChar \o h) \o l
    BY <1>1, QueueAppends, SMTT(30)
  <2>6. toChar' = q \o <<p>>
    BY <1>8, <2>3, <2>4, <2>5
  <2>7. q \o <<p>> = Append(q, p)
    BY <1>5, AppendFacts
  <2> QED
    BY <2>6, <2>7
<1>10. /\ Flow(Append(q, p), toMap', place, dbInv, Stor, dbStore)
       /\ Reaches(Append(q, p), DbRows, G)
  BY <1>5, <1>8, OtherPushed
<1>11. \A d \in Char : ~flag'[d]
  <2>1. CASE Stor.status
    BY <1>6, <2>1 DEF FlagsClosed
  <2>2. CASE ~Stor.status
    BY <1>1, <1>2, <1>6, <2>2, ClosedExact DEF FlagsClosed
  <2> QED
    BY <2>1, <2>2
<1>12. \A d \in Char : place[d] # "on" => inv[d] = {}
  BY <1>2 DEF Memory
<1>13. /\ gstor' # NoStore /\ gstor'.max = Cap =>
            Known /\ gstor.max = Cap /\ gstor'.items = gstor.items
       /\ Stor'.dirty = Stor.dirty /\ Stor'.max = Stor.max /\ Stor' \in Storage
  <2>1. CASE Known
    <3>1. gstor \in Stores /\ Stor = gstor /\ gstor' = [Closed(gstor) EXCEPT !.lock = TRUE]
      BY <1>1, <1>6, <2>1, StorType DEF Copy, Stor
    <3>2. /\ gstor'.items = gstor.items /\ gstor'.dirty = gstor.dirty /\ gstor'.max = gstor.max
          /\ gstor' \in Stores
      BY <3>1, ClosedStore
    <3>3. Stor' = gstor' /\ gstor' \in Storage
      BY <3>2, CapType DEF Stor, Known, Stores
    <3> QED
      BY <2>1, <3>1, <3>2, <3>3
  <2>2. CASE ~Known
    <3>1. gstor' = gstor
      BY <1>6, <2>2
    <3>2. Stor' = Stor
      BY <3>1, SameStor
    <3> QED
      BY <1>1, <2>2, <3>1, <3>2 DEF Known
  <2> QED
    BY <2>1, <2>2
<1>14. Memory(G)'
  BY <1>6, <1>8, <1>11, <1>12, <1>13, ClosedMemory
<1>15. Flow(Append(q, p), toMap', place, dbInv, Stor', dbStore)
  BY <1>1, <1>4, <1>10, <1>13, FlowStore
<1>16. DbRows' = DbRows
  BY SameRows
<1>17. up'
  BY <1>1
<1>18. Flow(toChar', toMap', place', dbInv', Stor', dbStore')
  BY <1>9, <1>15
<1> QED
  BY <1>9, <1>10, <1>14, <1>16, <1>17, <1>18 DEF Synced

LEMMA IntifParseSync ==
  ASSUME StoreInv, StoreInv', Synced, IntifParse, UNCHANGED <<charVars, up, broken>>, ~apart'
  PROVE  Synced'
<1> DEFINE p == Head(toMap)
<1>1. /\ toMap # <<>> /\ toMap' = Tail(toMap) /\ UNCHANGED <<dbInv, dbStore, up>>
  BY DEF IntifParse, charVars
<1>2. p \in ToMapFit /\ p.cmd # "store2g"
  BY <1>1, TakenFlow
<1>3. \/ /\ p.cmd = "loaded" /\ Loaded(p)
         /\ UNCHANGED <<place, inv, member, toChar, apart>>
      \/ /\ p.cmd = "inv"
         /\ place' = [place EXCEPT ![p.char] = "on"]
         /\ inv' = [inv EXCEPT ![p.char] = p.items]
         /\ UNCHANGED <<gstor, flag, member, toChar, apart>>
      \/ /\ p.cmd = "saved" /\ Saved
         /\ UNCHANGED <<flag, place, inv, member, toChar, apart>>
      \/ /\ gstor' = IF Known THEN [gstor EXCEPT !.lock = FALSE] ELSE gstor
         /\ UNCHANGED <<flag, place, inv, member, toChar, apart>>
      \/ /\ p.cmd = "withdraw" /\ Withdraw(p.char)
         /\ UNCHANGED place
  BY <1>2, Zenon DEF IntifParse
<1> HIDE DEF p
<1>4. p = Head(toMap)
  BY DEF p
<1>5. CASE /\ p.cmd = "loaded" /\ Loaded(p)
           /\ UNCHANGED <<place, inv, member, toChar, apart>>
  BY <1>1, <1>2, <1>4, <1>5, LoadedSync
<1>6. CASE /\ p.cmd = "inv"
           /\ place' = [place EXCEPT ![p.char] = "on"]
           /\ inv' = [inv EXCEPT ![p.char] = p.items]
           /\ UNCHANGED <<gstor, flag, member, toChar, apart>>
  BY <1>1, <1>2, <1>4, <1>6, InvSync
<1>7. CASE /\ p.cmd = "saved" /\ Saved
           /\ UNCHANGED <<flag, place, inv, member, toChar, apart>>
  BY <1>1, <1>4, <1>7, SavedSync
<1>8. CASE /\ gstor' = IF Known THEN [gstor EXCEPT !.lock = FALSE] ELSE gstor
           /\ UNCHANGED <<flag, place, inv, member, toChar, apart>>
  BY <1>1, <1>8, UnlockSync
<1>9. CASE /\ p.cmd = "withdraw" /\ Withdraw(p.char)
           /\ UNCHANGED place
  <2>1. p.char \in Char
    BY <1>2, <1>9, PacketFields
  <2>2. CASE p.char \notin member
    <3>1. UNCHANGED <<gstor, flag, inv, member, apart, toChar>>
      BY <1>9, <2>2 DEF Withdraw
    <3>2. PICK F \in Rows : Reaches(toChar, DbRows, F) /\ Memory(F)
      BY DEF Synced
    <3>3. Flow(toChar, toMap', place, dbInv, Stor, dbStore) /\ up
      BY <1>1, TakenFlow DEF Synced
    <3>4. Stor.max # Cap => ~Stor.dirty
      BY <3>3 DEF Flow, Loads
    <3>5. Memory(F)'
      BY <1>9, <3>1, <3>2, SameMemory
    <3>6. Stor' = Stor
      BY <3>1, SameStor
    <3> QED
      BY <1>1, <1>9, <3>1, <3>2, <3>3, <3>4, <3>5, <3>6, QuietSync
  <2>3. CASE p.char \in member
    <3>1. WithdrawOffline(p.char) \/ WithdrawOnline(p.char)
      BY <1>9, <2>3 DEF Withdraw
    <3> QED
      BY <1>1, <1>9, <2>1, <3>1, WithdrawOfflineSync, WithdrawOnlineSync
  <2> QED
    BY <2>2, <2>3
<1> QED
  BY <1>3, <1>5, <1>6, <1>7, <1>8, <1>9

----------------------------------------------------------------------------
(* The char server.                                                         *)

\* A packet is read; what is to come of the rows stays the same.
LEMMA PoppedReach ==
  ASSUME StoreInv, toChar # <<>>, NEW F \in Rows, Reaches(toChar, DbRows, F),
         DbRows' = Applied(DbRows, Head(toChar)), toChar' = Tail(toChar)
  PROVE  Reaches(toChar', DbRows', F)
<1>1. toChar \in Seq(ToCharFit)
  BY DEF StoreInv, Others
<1> QED
  BY <1>1, ReachPop

LEMMA ReadSync ==
  ASSUME StoreInv, Synced, toChar # <<>>, toChar' = Tail(toChar),
         DbRows' = Applied(DbRows, Head(toChar)),
         Flow(toChar', toMap', place, dbInv', Stor, dbStore'),
         UNCHANGED <<gstor, flag, place, inv, up>>
  PROVE  Synced'
<1>1. PICK F \in Rows : Reaches(toChar, DbRows, F) /\ Memory(F)
  BY DEF Synced
<1>2. Reaches(toChar', DbRows', F)
  BY <1>1, PoppedReach
<1>3. Memory(F)'
  BY <1>1, SameMemory
<1>4. Stor' = Stor
  BY SameStor
<1>5. up'
  BY DEF Synced
<1>6. Flow(toChar', toMap', place', dbInv', Stor', dbStore')
  BY <1>4
<1> QED
  BY <1>2, <1>3, <1>5, <1>6 DEF Synced

LEMMA RepliesOne ==
  ASSUME StoreInv, NEW r \in ToMapFit, Replies(<<r>>)
  PROVE  toMap' = Append(toMap, r)
<1>1. toMap \in Seq(ToMapFit)
  BY DEF StoreInv, Others
<1>2. Append(toMap, r) = toMap \o <<r>>
  BY <1>1, AppendFacts
<1> QED
  BY <1>2 DEF Replies

LEMMA InterParseSync ==
  ASSUME StoreInv, StoreInv', Synced, InterParse, UNCHANGED <<mapVars, up, broken>>, ~apart'
  PROVE  Synced'
<1> DEFINE p == Head(toChar)
<1>1. /\ Copy /\ Others /\ toChar \in Seq(ToCharFit) /\ toMap \in Seq(ToMapFit)
      /\ Stor \in Storage /\ DbRows \in Rows
      /\ dbInv \in [Char -> SUBSET Item] /\ dbStore \in SUBSET Item
  BY StorNow DEF StoreInv, Others, DbRows, Rows
<1>2. /\ toChar # <<>> /\ toChar' = Tail(toChar) /\ p \in ToCharFit
      /\ UNCHANGED <<gstor, flag, place, inv, up>>
  BY <1>1, QueueHeads DEF InterParse, mapVars
<1>3. \/ /\ p.cmd = "load"
         /\ Replies(<<[cmd |-> "loaded", char |-> p.char, items |-> dbStore]>>)
         /\ UNCHANGED <<roll, dbStore, dbInv, apart>>
      \/ /\ p.cmd = "getinv"
         /\ Replies(<<[cmd |-> "inv", char |-> p.char, items |-> dbInv[p.char]]>>)
         /\ UNCHANGED <<roll, dbStore, dbInv, apart>>
      \/ p.cmd = "saveinv" /\ SaveInventory(p.char, p.items) /\ UNCHANGED <<roll, dbStore, apart>>
      \/ p.cmd = "savestore" /\ SaveGuildStorage(p.items) /\ UNCHANGED <<roll, dbInv, apart>>
      \/ p.cmd = "leave" /\ GuildLeave(p.char) /\ UNCHANGED <<dbStore, dbInv, apart>>
      \/ p.cmd = "retrieve" /\ RetrieveBound(p.char) /\ UNCHANGED <<roll, dbStore>>
  BY Zenon DEF InterParse, charVars
<1>4. Flow(toChar, toMap, place, dbInv, Stor, dbStore)
  BY DEF Synced
<1>5. Flow(toChar', toMap, place, dbInv, Stor, dbStore)
  BY <1>1, <1>2, <1>4, FlowPop
<1>6. p = Head(toChar)
  OBVIOUS
<1> HIDE DEF p
<1>7. p = toChar[1] /\ 1 \in 1 .. Len(toChar)
  BY <1>1, <1>2, <1>6, TailFacts
<1>8. Loads(toChar, toMap, Stor, dbStore) /\ Loads(toChar', toMap, Stor, dbStore)
  BY <1>4, <1>5 DEF Flow
<1>9. \A c \in Char : /\ EnterOf(c, toChar, toMap, place[c], dbInv[c])
                      /\ EnterOf(c, toChar', toMap, place[c], dbInv[c])
  BY <1>4, <1>5 DEF Flow
<1>10. \A k \in 1 .. Len(toMap) : toMap[k].cmd # "store2g"
  BY <1>4 DEF Flow
<1>11. ASSUME p.cmd \notin {"saveinv", "savestore"}, UNCHANGED <<dbInv, dbStore>> PROVE DbRows' = Applied(DbRows, p)
  <2>1. DbRows' = DbRows
    BY <1>11, SameRows
  <2> QED
    BY <1>1, <1>2, <1>11, <2>1, AppliedOther
<1>12. CASE /\ p.cmd = "load"
            /\ Replies(<<[cmd |-> "loaded", char |-> p.char, items |-> dbStore]>>)
            /\ UNCHANGED <<roll, dbStore, dbInv, apart>>
  <2> DEFINE r == [cmd |-> "loaded", char |-> p.char, items |-> dbStore]
  <2>1. p.char \in Char
    BY <1>2, <1>12, PacketFields
  <2>2. r \in ToMapFit /\ r.cmd = "loaded" /\ r.char = p.char /\ r.items = dbStore
    BY <1>1, <2>1 DEF ToMapFit, ToMap, Others
  <2>3. Replies(<<r>>)
    BY <1>12
  <2> HIDE DEF r
  <2>4. toMap' = Append(toMap, r)
    BY <2>2, <2>3, RepliesOne
  <2>5. Loads(toChar', toMap', Stor, dbStore)
    BY <1>1, <1>2, <1>6, <1>8, <1>12, <2>2, <2>4, LoadsReplyLoad
  <2>6. ASSUME NEW c \in Char PROVE EnterOf(c, toChar', toMap', place[c], dbInv[c])
    <3>1. ~Asks(r, "inv", c)
      BY <2>2 DEF Asks
    <3>2. place[c] = "loading" => ~Asks(r, "loaded", c)
      <4>1. EnterOf(c, toChar, toMap, place[c], dbInv[c])
        BY <1>9
      <4> QED
        BY <1>7, <1>12, <2>2, <4>1 DEF EnterOf, Asks
    <3>3. EnterOf(c, toChar', toMap, place[c], dbInv[c])
      BY <1>9
    <3> QED
      BY <1>1, <2>2, <2>4, <3>1, <3>2, <3>3, EnterReply
  <2>7. \A k \in 1 .. Len(toMap') : toMap'[k].cmd # "store2g"
    BY <1>1, <1>10, <2>2, <2>4, NoStore2G
  <2>8. Flow(toChar', toMap', place, dbInv', Stor, dbStore')
    BY <1>12, <2>5, <2>6, <2>7 DEF Flow
  <2> QED
    BY <1>2, <1>6, <1>11, <1>12, <2>8, ReadSync
<1>13. CASE /\ p.cmd = "getinv"
            /\ Replies(<<[cmd |-> "inv", char |-> p.char, items |-> dbInv[p.char]]>>)
            /\ UNCHANGED <<roll, dbStore, dbInv, apart>>
  <2> DEFINE r == [cmd |-> "inv", char |-> p.char, items |-> dbInv[p.char]]
  <2>1. p.char \in Char
    BY <1>2, <1>13, PacketFields
  <2>2. r \in ToMapFit /\ r.cmd = "inv" /\ r.char = p.char /\ r.items = dbInv[p.char]
    BY <1>1, <2>1 DEF ToMapFit, ToMap
  <2>3. Replies(<<r>>)
    BY <1>13
  <2> HIDE DEF r
  <2>4. toMap' = Append(toMap, r)
    BY <2>2, <2>3, RepliesOne
  <2>5. Loads(toChar', toMap', Stor, dbStore)
    BY <1>1, <1>8, <2>2, <2>4, LoadsReply
  <2>6. ASSUME NEW c \in Char PROVE EnterOf(c, toChar', toMap', place[c], dbInv[c])
    <3>1. CASE c = p.char
      <4>1. Asks(Head(toChar), "getinv", c) /\ Asks(r, "inv", c) /\ r.items = dbInv[c]
        BY <1>6, <1>13, <2>2, <3>1 DEF Asks
      <4>2. EnterOf(c, toChar, toMap, place[c], dbInv[c])
        BY <1>9
      <4> QED
        BY <1>1, <1>2, <2>2, <2>4, <4>1, <4>2, EnterAnswer
    <3>2. CASE c # p.char
      <4>1. ~Asks(r, "inv", c) /\ ~Asks(r, "loaded", c)
        BY <2>2, <3>2 DEF Asks
      <4>2. EnterOf(c, toChar', toMap, place[c], dbInv[c])
        BY <1>9
      <4> QED
        BY <1>1, <2>2, <2>4, <4>1, <4>2, EnterReply
    <3> QED
      BY <3>1, <3>2
  <2>7. \A k \in 1 .. Len(toMap') : toMap'[k].cmd # "store2g"
    BY <1>1, <1>10, <2>2, <2>4, NoStore2G
  <2>8. Flow(toChar', toMap', place, dbInv', Stor, dbStore')
    BY <1>13, <2>5, <2>6, <2>7 DEF Flow
  <2> QED
    BY <1>2, <1>6, <1>11, <1>13, <2>8, ReadSync
<1>14. CASE p.cmd = "saveinv" /\ SaveInventory(p.char, p.items) /\ UNCHANGED <<roll, dbStore, apart>>
  <2>1. p.char \in Char /\ p.items \in SUBSET Item
    BY <1>2, <1>14, PacketFields
  <2>2. dbInv' = [dbInv EXCEPT ![p.char] = p.items] /\ Replies(<<>>) /\ dbStore' = dbStore
    BY <1>14 DEF SaveInventory
  <2>3. toMap' = toMap
    BY <1>1, <2>2, RepliesNoneFit
  <2>4. DbRows' = Applied(DbRows, p)
    <3>1. DbRows' = [inv |-> dbInv', store |-> dbStore'] /\ DbRows.inv = dbInv /\ DbRows.store = dbStore
      BY DEF DbRows
    <3> QED
      BY <1>14, <2>2, <3>1 DEF Applied, StoreSave
  <2>5. ASSUME NEW c \in Char PROVE EnterOf(c, toChar', toMap, place[c], dbInv'[c])
    <3>1. EnterOf(c, toChar', toMap, place[c], dbInv[c]) /\ EnterOf(c, toChar, toMap, place[c], dbInv[c])
      BY <1>9
    <3>2. place[c] = "loading" => dbInv'[c] = dbInv[c]
      <4> SUFFICES ASSUME place[c] = "loading" PROVE dbInv'[c] = dbInv[c]
        OBVIOUS
      <4>1. ~InvSave(p, c)
        BY <1>7, <3>1 DEF EnterOf
      <4>2. p.char # c
        BY <1>14, <4>1 DEF InvSave
      <4> QED
        BY <1>1, <2>2, <4>2
    <3> QED
      BY <3>1, <3>2, EnterRows
  <2>6. Flow(toChar', toMap', place, dbInv', Stor, dbStore')
    BY <1>8, <1>10, <2>2, <2>3, <2>5 DEF Flow
  <2> QED
    BY <1>2, <1>6, <2>4, <2>6, ReadSync
<1>17. CASE p.cmd = "savestore" /\ SaveGuildStorage(p.items) /\ UNCHANGED <<roll, dbInv, apart>>
  <2> DEFINE r == [cmd |-> "saved"]
  <2>1. r \in ToMapFit /\ r.cmd = "saved"
    BY DEF ToMapFit, ToMap
  <2>2. dbStore' = p.items /\ Replies(<<r>>) /\ dbInv' = dbInv
    BY <1>17 DEF SaveGuildStorage
  <2> HIDE DEF r
  <2>3. toMap' = Append(toMap, r)
    BY <2>1, <2>2, RepliesOne
  <2>4. DbRows' = Applied(DbRows, p)
    <3>1. DbRows' = [inv |-> dbInv', store |-> dbStore'] /\ DbRows.inv = dbInv
      BY DEF DbRows
    <3> QED
      BY <1>17, <2>2, <3>1 DEF Applied, StoreSave
  <2>5. StoreSave(Head(toChar))
    BY <1>6, <1>17 DEF StoreSave
  <2>6. Loads(toChar', toMap', Stor, dbStore')
    BY <1>1, <1>2, <1>8, <2>1, <2>3, <2>5, LoadsReplySave
  <2>7. ASSUME NEW c \in Char PROVE EnterOf(c, toChar', toMap', place[c], dbInv'[c])
    <3>1. ~Asks(r, "inv", c) /\ ~Asks(r, "loaded", c)
      BY <2>1 DEF Asks
    <3>2. EnterOf(c, toChar', toMap, place[c], dbInv'[c])
      BY <1>9, <2>2
    <3> QED
      BY <1>1, <2>1, <2>3, <3>1, <3>2, EnterReply
  <2>8. \A k \in 1 .. Len(toMap') : toMap'[k].cmd # "store2g"
    BY <1>1, <1>10, <2>1, <2>3, NoStore2G
  <2>9. Flow(toChar', toMap', place, dbInv', Stor, dbStore')
    BY <2>6, <2>7, <2>8 DEF Flow
  <2> QED
    BY <1>2, <1>6, <2>4, <2>9, ReadSync
<1>15. CASE p.cmd = "leave" /\ GuildLeave(p.char) /\ UNCHANGED <<dbStore, dbInv, apart>>
  <2> DEFINE r == [cmd |-> "withdraw", char |-> p.char]
  <2>1. p.char \in Char
    BY <1>2, <1>15, PacketFields
  <2>2. r \in ToMapFit /\ r.cmd = "withdraw"
    BY <2>1 DEF ToMapFit, ToMap
  <2>3. Replies(<<r>>) \/ Replies(<<>>)
    BY <1>15 DEF GuildLeave
  <2> HIDE DEF r
  <2>4. toMap' = Append(toMap, r) \/ toMap' = toMap
    BY <1>1, <2>2, <2>3, RepliesOne, RepliesNoneFit
  <2>5. Flow(toChar', Append(toMap, r), place, dbInv, Stor, dbStore)
    BY <1>1, <1>5, <2>2, FlowReply
  <2>6. Flow(toChar', toMap', place, dbInv', Stor, dbStore')
    BY <1>5, <1>15, <2>4, <2>5
  <2> QED
    BY <1>2, <1>6, <1>11, <1>15, <2>6, ReadSync
<1>16. CASE p.cmd = "retrieve" /\ RetrieveBound(p.char) /\ UNCHANGED <<roll, dbStore>>
  <2>1. p.char \in Char
    BY <1>2, <1>16, PacketFields
  <2>2. dbInv[p.char] \cap Bound = {}
    <3> SUFFICES ASSUME dbInv[p.char] \cap Bound # {} PROVE FALSE
      OBVIOUS
    <3>1. apart' = TRUE
      BY <1>16 DEF RetrieveBound
    <3> QED
      BY <3>1
  <2>3. dbInv' = dbInv
    <3>1. dbInv' = [dbInv EXCEPT ![p.char] = dbInv[p.char]]
      BY <1>16, <2>2 DEF RetrieveBound
    <3> QED
      BY <1>1, <2>1, <3>1
  <2> DEFINE r == [cmd |-> "unlock"]
  <2>4. r \in ToMapFit /\ r.cmd = "unlock"
    BY DEF ToMapFit, ToMap
  <2>5. Replies(<<r>>)
    BY <1>16, <2>2 DEF RetrieveBound
  <2> HIDE DEF r
  <2>6. toMap' = Append(toMap, r)
    BY <2>4, <2>5, RepliesOne
  <2>7. Flow(toChar', toMap', place, dbInv', Stor, dbStore')
    BY <1>1, <1>5, <1>16, <2>3, <2>4, <2>6, FlowReply
  <2> QED
    BY <1>2, <1>6, <1>11, <1>16, <2>3, <2>7, ReadSync
<1> QED
  BY <1>3, <1>12, <1>13, <1>14, <1>15, <1>16, <1>17

----------------------------------------------------------------------------
(* The link breaks, and is there again.                                      *)

\* No save is lost: the rows are what they were going to be.
LEMMA LinkBreaksSync ==
  ASSUME StoreInv, StoreInv', Synced, LinkBreaks, ~apart'
  PROVE  Synced'
<1>1. /\ ~SaveLost /\ toChar' = <<>> /\ toMap' = <<>>
      /\ place' = [c \in Char |-> IF place[c] = "loading" THEN "off" ELSE place[c]]
      /\ UNCHANGED <<gstor, flag, inv, dbInv, dbStore>>
  BY DEF LinkBreaks, charVars
<1>2. PICK F \in Rows : Reaches(toChar, DbRows, F) /\ Memory(F)
  BY DEF Synced
<1>3. toChar \in Seq(ToCharFit) /\ DOMAIN toChar = 1 .. Len(toChar) /\ place \in [Char -> {"off", "loading", "on"}]
  BY DEF StoreInv, Others
<1>4. \A k \in 1 .. Len(toChar) : ~StoreSave(toChar[k]) /\ \A c \in Char : ~InvSave(toChar[k], c)
  BY <1>1, <1>3 DEF SaveLost, StoreSave, InvSave
<1>5. F = DbRows
  <2>1. DbRows \in Rows /\ F.store = DbRows.store /\ \A c \in Char : F.inv[c] = DbRows.inv[c]
    BY <1>2, <1>3, <1>4, ReachFacts
  <2>2. F.inv = DbRows.inv
    BY <2>1 DEF Rows
  <2> QED
    BY <2>1, <2>2 DEF Rows
<1>6. DbRows' = DbRows /\ Stor' = Stor /\ (Known' <=> Known)
  BY <1>1, SameRows, SameStor
<1>7. Reaches(<<>>, F, F)
  BY <1>2, <1>3, ReachFacts, ReachNow
<1>8. Reaches(toChar', DbRows', F)
  BY <1>1, <1>5, <1>6, <1>7
<1>9. \A c \in Char : place'[c] = "on" <=> place[c] = "on"
  BY <1>1, <1>3
<1>10. Memory(F)'
  BY <1>1, <1>2, <1>6, <1>9 DEF Memory
<1>11. Flow(toChar', toMap', place', dbInv', Stor', dbStore')
  <2>1. Len(toChar') = 0 /\ Len(toMap') = 0
    BY <1>1
  <2>2. Stor.max # Cap => ~Stor.dirty
    BY DEF Synced, Flow, Loads
  <2>3. Loads(toChar', toMap', Stor', dbStore')
    BY <1>6, <2>1, <2>2 DEF Loads, Unsaved
  <2>4. ASSUME NEW c \in Char PROVE EnterOf(c, toChar', toMap', place'[c], dbInv'[c])
    BY <2>1 DEF EnterOf
  <2> QED
    BY <2>1, <2>3, <2>4 DEF Flow
<1> QED
  BY <1>1, <1>8, <1>10, <1>11 DEF Synced

\* do_reconnect_storage: nobody has the storage open, it is what its rows are.
LEMMA ReconnectsSync ==
  ASSUME StoreInv, StoreInv', Synced, Reconnects
  PROVE  Synced'
<1>1. /\ ~up /\ up' /\ toChar = <<>> /\ toMap = <<>>
      /\ UNCHANGED <<gstor, flag, place, inv, dbInv, dbStore, toMap>>
  BY DEF Reconnects, Synced, mapVars, charVars
<1>2. PICK F \in Rows : Reaches(toChar, DbRows, F) /\ Memory(F)
  BY DEF Synced
<1>3. Copy /\ Others /\ toChar \in Seq(ToCharFit) /\ Stor \in Storage
  BY StorNow DEF StoreInv, Others
<1>4. Flow(toChar, toMap, place, dbInv, Stor, dbStore)
  BY DEF Synced
<1>5. Memory(F)'
  BY <1>1, <1>2, SameMemory
<1>6. DbRows' = DbRows /\ Stor' = Stor
  BY <1>1, SameRows, SameStor
<1>7. CASE ~(Known /\ Stor.dirty /\ ~Stor.status)
  <2>1. toChar' = toChar
    BY <1>1, <1>7 DEF Reconnects
  <2>2. Flow(toChar', toMap', place', dbInv', Stor', dbStore')
    BY <1>1, <1>4, <1>6, <2>1
  <2> QED
    BY <1>1, <1>2, <1>5, <1>6, <2>1, <2>2 DEF Synced
<1>8. CASE Known /\ Stor.dirty /\ ~Stor.status
  <2> DEFINE st == gstor.items
             p == [cmd |-> "savestore", char |-> NoStore, items |-> st]
  <2>1. toChar' = <<p>>
    BY <1>8 DEF Reconnects
  <2>2. Stor.max = Cap /\ gstor = Stor /\ gstor \in Stores
    <3>1. Stor.max = Cap
      BY <1>4, <1>8 DEF Flow, Loads
    <3> QED
      BY <1>3, <1>8, <3>1 DEF Stor, Known, Copy
  <2>3. st \in SUBSET Item /\ Cardinality(st) <= Cap /\ st = F.store
    <3>1. Exact(F)
      BY <1>2, <1>3, <1>8, ClosedExact
    <3> QED
      BY <1>8, <2>2, <3>1 DEF Exact, Stores, Storage
  <2> HIDE DEF st
  <2>4. p \in ToCharFit /\ p.cmd = "savestore" /\ p.items = st /\ StoreSave(p)
    BY <2>3 DEF ToCharFit, ToChar, StoreSave
  <2> HIDE DEF p
  <2>5. Applied(F, p) = F
    BY <2>3, <2>4 DEF Applied, Rows
  <2>6. toChar' = Append(toChar, p)
    BY <1>1, <2>1
  <2>7. Reaches(Append(toChar, p), DbRows, F)
    <3>1. Once(F)
      BY <1>2, <1>3, ReachFacts
    <3> QED
      BY <1>2, <1>3, <2>4, <2>5, <3>1, ReachPush
  <2>8. Flow(Append(toChar, p), toMap, place, dbInv, Stor, dbStore)
    BY <1>3, <1>4, <1>8, <2>2, <2>4, FlowPush
  <2>9. Flow(toChar', toMap', place', dbInv', Stor', dbStore')
    BY <1>1, <1>6, <2>6, <2>8
  <2> QED
    BY <1>1, <1>5, <1>6, <2>6, <2>7, <2>9 DEF Synced
<1> QED
  BY <1>7, <1>8

----------------------------------------------------------------------------
(* Data sync.                                                               *)

LEMMA ApartStays ==
  ASSUME StoreInv, Next, apart
  PROVE  apart'
<1>1. ASSUME Clients PROVE apart'
  <2>1. PICK c \in Char :
          \/ StorageOpen(c) \/ CloseStorage(c)
          \/ \E i \in Item : StorageAdd(c, i) \/ StorageGet(c, i)
          \/ Autosave(c) \/ SaveStatus(c) \/ CountItem(c)
          \/ Enter(c) \/ Quit(c) \/ Leave(c)
    BY <1>1 DEF Clients
  <2>2. apart' = apart \/ apart' = TRUE \/ apart' = (apart \/ Stor.status) \/ apart' = (apart \/ ~up)
    BY <2>1, Zenon DEF StorageOpen, CloseStorage, StorageAdd, StorageGet, Autosave, SaveStatus,
       CountItem, Enter, Quit, Leave, StorageClose
  <2> QED
    BY <2>2
<1>2. ASSUME IntifParse PROVE apart'
  <2>1. ASSUME NEW c, Withdraw(c) PROVE apart'
    BY <2>1 DEF Withdraw, WithdrawOffline, WithdrawOnline
  <2> QED
    BY <1>2, <2>1 DEF IntifParse
<1>3. ASSUME InterParse PROVE apart'
  BY <1>3 DEF InterParse, RetrieveBound
<1> QED
  BY <1>1, <1>2, <1>3 DEF Next, LinkBreaks, Reconnects

LEMMA SyncInit == Init => Sync
<1> SUFFICES ASSUME Init PROVE Synced
  BY DEF Sync
<1>1. StoreInv
  BY StoreInit
<1>2. PICK at \in [Item -> Char] : dbInv = [c \in Char |-> {i \in Item : at[i] = c}]
  BY DEF Init
<1>3. toChar = <<>> /\ toMap = <<>> /\ Len(toChar) = 0 /\ Len(toMap) = 0 /\ dbStore = {} /\ up
  BY DEF Init
<1>4. DbRows.inv = dbInv /\ DbRows.store = {} /\ DbRows \in Rows
  BY <1>1, <1>3 DEF DbRows, Rows, StoreInv, Others
<1>5. Once(DbRows)
  BY <1>2, <1>4 DEF Once
<1>6. Reaches(toChar, DbRows, DbRows)
  BY <1>3, <1>4, <1>5, ReachNow
<1>7. Memory(DbRows)
  BY DEF Init, Memory, Known
<1>8. ~Stor.dirty
  BY DEF Init, Stor, Known
<1>9. Loads(toChar, toMap, Stor, dbStore)
  BY <1>3, <1>8 DEF Loads, Unsaved
<1>10. ASSUME NEW c \in Char PROVE EnterOf(c, toChar, toMap, place[c], dbInv[c])
  BY <1>3 DEF EnterOf
<1>11. Flow(toChar, toMap, place, dbInv, Stor, dbStore)
  BY <1>3, <1>9, <1>10 DEF Flow
<1> QED
  BY <1>3, <1>4, <1>6, <1>7, <1>11 DEF Synced

LEMMA SyncNext == StoreInv /\ StoreInv' /\ Sync /\ [Next]_vars => Sync'
<1> SUFFICES ASSUME StoreInv, StoreInv', Sync, [Next]_vars, ~apart' PROVE Synced'
  BY DEF Sync
<1>1. CASE UNCHANGED vars
  <2>1. UNCHANGED <<gstor, flag, place, inv, toChar, toMap, dbInv, dbStore, up, apart>>
    BY <1>1 DEF vars, mapVars, charVars
  <2>2. Synced
    BY <2>1 DEF Sync
  <2>3. PICK F \in Rows : Reaches(toChar, DbRows, F) /\ Memory(F)
    BY <2>2 DEF Synced
  <2>4. Memory(F)'
    BY <2>1, <2>3, SameMemory
  <2>5. Stor' = Stor /\ DbRows' = DbRows
    BY <2>1, SameStor, SameRows
  <2>6. /\ up' \/ (toChar' = <<>> /\ toMap' = <<>>)
        /\ Flow(toChar, toMap, place, dbInv, Stor, dbStore)
    BY <2>1, <2>2 DEF Synced
  <2>7. Flow(toChar', toMap', place', dbInv', Stor', dbStore')
    BY <2>1, <2>5, <2>6
  <2> QED
    BY <2>1, <2>3, <2>4, <2>5, <2>6, <2>7 DEF Synced
<1>2. CASE Next
  <2>1. Synced
    BY <1>2, ApartStays DEF Sync
  <2> QED
    BY <1>2, <2>1, ClientsSync, IntifParseSync, InterParseSync, LinkBreaksSync, ReconnectsSync DEF Next
<1> QED
  BY <1>1, <1>2

LEMMA SyncInvariant == Spec => []Sync
BY SyncInit, SyncNext, StoreInvariant, PTL DEF Spec

\* "For data sync": the rows have every item in one place between any two saves, and
\* once the second packet is written if they are in the middle of one.
LEMMA SyncData == StoreInv /\ Sync => DataSync
<1> SUFFICES ASSUME StoreInv, Synced, NEW i \in Item PROVE Cardinality(Places(i)) = 1
  BY DEF Sync, DataSync, EachItemOnce
<1> DEFINE R == [inv |-> dbInv, store |-> WholeStore]
<1>1. Once(R)
  <2>1. PICK F \in Rows : Reaches(toChar, DbRows, F)
    BY DEF Synced
  <2>2. toChar \in Seq(ToCharFit)
    BY DEF StoreInv, Others
  <2>3. toChar # <<>> => Head(toChar) = toChar[1]
    BY <2>2, TailFacts
  <2>4. CASE HalfSaved
    <3>1. toChar # <<>> /\ StoreSave(toChar[1]) /\ toChar[1].cmd = "savestore"
      BY <2>3, <2>4 DEF HalfSaved, StoreSave
    <3>2. Once(Applied(DbRows, toChar[1]))
      BY <2>1, <2>2, <3>1, ReachWhole
    <3>3. Applied(DbRows, toChar[1]) = R
      BY <2>3, <2>4, <3>1 DEF Applied, DbRows, WholeStore
    <3> QED
      BY <3>2, <3>3
  <2>5. CASE ~HalfSaved
    <3>1. toChar = <<>> \/ ~StoreSave(toChar[1])
      BY <2>3, <2>5 DEF HalfSaved, StoreSave
    <3>2. Once(DbRows)
      BY <2>1, <2>2, <3>1, ReachWhole
    <3>3. DbRows = R
      BY <2>5 DEF DbRows, WholeStore
    <3> QED
      BY <3>2, <3>3
  <2> QED
    BY <2>4, <2>5
<1>2. /\ i \in WholeStore \/ \E c \in Char : i \in dbInv[c]
      /\ \A c \in Char : dbInv[c] \cap WholeStore = {}
      /\ \A c, d \in Char : c # d => dbInv[c] \cap dbInv[d] = {}
  BY <1>1 DEF Once
<1> HIDE DEF R
<1>3. \E x : Places(i) = {x}
  <2>1. CASE i \in WholeStore
    <3>1. \A c \in Char : i \notin dbInv[c]
      BY <1>2, <2>1
    <3>2. Places(i) = {NoStore}
      BY <2>1, <3>1 DEF Places
    <3> QED
      BY <3>2
  <2>2. CASE i \notin WholeStore
    <3>1. PICK c \in Char : i \in dbInv[c]
      BY <1>2, <2>2
    <3>2. \A d \in Char : i \in dbInv[d] => d = c
      BY <1>2, <3>1
    <3>3. Places(i) = {c}
      BY <2>2, <3>1, <3>2 DEF Places
    <3> QED
      BY <3>3
  <2> QED
    BY <2>1, <2>2
<1> QED
  BY <1>3, FS_Singleton

LEMMA SyncHolders == StoreInv /\ Sync => OneHolder
<1> SUFFICES ASSUME StoreInv, Synced PROVE Cardinality(Holders) <= 1
  BY DEF Sync, OneHolder
<1>1. \A c, d \in Char : flag[c] /\ flag[d] => c = d
  BY DEF Synced, Memory
<1>2. Holders = {} \/ \E c : Holders = {c}
  BY <1>1 DEF Holders
<1>3. CASE Holders = {}
  BY <1>3, FS_EmptySet
<1>4. CASE \E c : Holders = {c}
  <2>1. PICK c : Holders = {c}
    BY <1>4
  <2>2. Cardinality(Holders) = 1
    BY <2>1, FS_Singleton
  <2> QED
    BY <2>2
<1> QED
  BY <1>2, <1>3, <1>4

LEMMA SyncUnsaved == StoreInv /\ Sync => UnsavedIsDirty
<1> SUFFICES ASSUME StoreInv, Synced, Known, gstor.max # 0, ~gstor.dirty, ~SaveUnderWay
             PROVE  gstor.items = dbStore
  BY DEF Sync, UnsavedIsDirty, CleanIsSaved
<1>1. PICK F \in Rows : Reaches(toChar, DbRows, F) /\ Memory(F)
  BY DEF Synced
<1>2. toChar \in Seq(ToCharFit) /\ gstor \in Storage
  BY DEF StoreInv, Others, Copy, Known, Stores
<1>3. gstor.max = Cap
  BY <1>2 DEF Storage
<1>4. gstor.items = F.store
  BY <1>1, <1>3 DEF Memory
<1>5. \A k \in 1 .. Len(toChar) : ~StoreSave(toChar[k])
  <2>1. DOMAIN toChar = 1 .. Len(toChar)
    BY <1>2
  <2> QED
    BY <2>1 DEF SaveUnderWay, StoreSave
<1>6. F.store = DbRows.store
  BY <1>1, <1>2, <1>5, ReachFacts
<1> QED
  BY <1>4, <1>6 DEF DbRows

\* As long as inventory and storage are saved together - no save of one side only, none
\* lost with the link, no bound items on their way - a crash or a break finds every
\* item in one row, not lost and not doubled ("For data sync", chrif_save); between
\* the two packets of a save it does once the second one is written.
THEOREM DataSyncCorrect == Spec => []DataSync
BY SyncData, SyncInvariant, StoreInvariant, PTL

\* ... one member at a time has the storage open (storage_guild_storageopen)
THEOREM OneHolderCorrect == Spec => []OneHolder
BY SyncHolders, SyncInvariant, StoreInvariant, PTL

\* ... and what the char server has not got, and is not about to get, is dirty
\* (storage_guild_storagesaved, intif_parse_LoadGuildStorage).
THEOREM UnsavedCorrect == Spec => []UnsavedIsDirty
BY SyncUnsaved, SyncInvariant, StoreInvariant, PTL

=============================================================================
