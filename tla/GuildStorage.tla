---------------------------- MODULE GuildStorage ----------------------------
(***************************************************************************)
(* The storage of one guild: the copy a map server keeps of it while members  *)
(* open, fill and close it, the inventories of those members, the rows the    *)
(* char server has of both, and the packets between the two servers.  Bound    *)
(* items of a member who leaves the guild are moved into the storage, by the   *)
(* map server if he is online and by the char server if he is not.             *)
(***************************************************************************)
EXTENDS Integers, Sequences, FiniteSets

CONSTANTS
  Char,      \* the members of the guild on this map server
  Item,      \* items that do not stack
  Bound,     \* those bound to the guild
  Cap,       \* slots of the storage (inter_guild_storagemax)
  MaxQueue,  \* bound: packets in flight when a client acts
  Leaves,    \* bound: members who leave the guild
  Breaks,    \* bound: how often the link breaks
  NoStore    \* no storage in guild_storage_db; nothing to save

ASSUME StorageAssumption ==
  /\ Bound \subseteq Item
  /\ {Cap, MaxQueue, Leaves, Breaks} \subseteq Nat
  /\ Cap > 0
  /\ IsFiniteSet(Item)

VARIABLES
  gstor,    \* the map server's s_storage of the guild, or NoStore
  flag,     \* member -> sd->state.storage_flag = 2
  place,    \* member -> "off", "loading" (no inventory yet) or "on"
  inv,      \* member -> inventory in the map server's memory
  member,   \* the members the map server knows
  roll,     \* the members the char server knows
  dbStore,  \* rows of guild_storage
  dbInv,    \* member -> rows of inventory
  toChar, toMap, up,  \* the link
  broken,   \* history: how often it broke
  apart     \* history: a step saved the storage without the inventory it shares
            \* items with, or a save under way was lost

mapVars  == <<gstor, flag, place, inv, member>>
charVars == <<roll, dbStore, dbInv>>
vars == <<mapVars, charVars, toChar, toMap, up, broken, apart>>

Storage == [items : SUBSET Item, status : BOOLEAN, dirty : BOOLEAN, lock : BOOLEAN, max : {0, Cap}]

ASSUME NoStoreAssumption ==
  NoStore \notin Char /\ \A v \in (SUBSET Item) \cup Storage : v # NoStore

ToChar ==
       [cmd : {"load", "getinv", "leave", "retrieve"}, char : Char]
  \cup [cmd : {"saveinv"}, char : Char, items : SUBSET Item]
  \cup [cmd : {"savestore"}, char : Char \cup {NoStore}, items : SUBSET Item]
ToMap ==
       [cmd : {"loaded", "inv"}, char : Char, items : SUBSET Item]
  \cup [cmd : {"saved", "unlock"}]
  \cup [cmd : {"withdraw"}, char : Char]
  \cup [cmd : {"store2g"}, items : SUBSET Item]

\* SQL has some of the items in the storage and the rest with the members; the
\* map server has just started.
Init ==
  /\ gstor = NoStore
  /\ flag = [c \in Char |-> FALSE]
  /\ place = [c \in Char |-> "off"]
  /\ inv = [c \in Char |-> {}]
  /\ member = Char /\ roll = Char
  /\ dbStore = {}
  /\ \E at \in [Item -> Char] : dbInv = [c \in Char |-> {i \in Item : at[i] = c}]
  /\ toChar = <<>> /\ toMap = <<>> /\ up = TRUE
  /\ broken = 0 /\ apart = FALSE

----------------------------------------------------------------------------
(* The map server. *)

Known  == gstor # NoStore
\* what guild2storage returns: a storage that was never loaded is made empty,
\* with no slots
Stor   == IF Known THEN gstor
          ELSE [items |-> {}, status |-> FALSE, dirty |-> FALSE, lock |-> FALSE, max |-> 0]
FaultClosed(g) == g
Closed(g) == [g EXCEPT !.status = FALSE]
Holders == {c \in Char : flag[c]}

\* CheckForCharServer: nothing is sent without a char server
Sends(packets) == toChar' = IF up THEN toChar \o packets ELSE toChar
MayAct == Len(toChar) + Len(toMap) <= MaxQueue

\* chrif_save: the inventory if asked for, and "for data sync" the storage the
\* player has open, if it changed; a packet for each
InventorySave(c) == <<[cmd |-> "saveinv", char |-> c, items |-> inv[c]]>>
StorageSave(c) ==
  IF flag[c] /\ Known /\ Stor.dirty
  THEN <<[cmd |-> "savestore", char |-> c, items |-> Stor.items]>> ELSE <<>>
SaveOf(c, withInv) == (IF withInv THEN InventorySave(c) ELSE <<>>) \o StorageSave(c)

FaultCloseSave(c) == IF Stor.status THEN SaveOf(c, FALSE) ELSE <<>>

\* storage_guild_storageclose: saves only if the storage is open at all
CloseSave(c) == IF Stor.status THEN SaveOf(c, TRUE) ELSE <<>>

\* without a link the storage is closed, and what he moved is saved with neither
StorageClose(c) ==
  /\ gstor' = Closed(gstor)
  /\ flag' = [flag EXCEPT ![c] = FALSE]
  /\ Sends(CloseSave(c))
  /\ apart' = (apart \/ ~up)
  /\ UNCHANGED <<place, inv, member, toMap>>

\* guild_retrieveitembound: members who have the storage open are closed one
\* after the other; only the first finds it open and saves
CloseHolders(first) == IF Stor.status THEN CloseSave(first) ELSE <<>>
FlagsClosed == IF Stor.status THEN [c \in Char |-> FALSE] ELSE flag

FaultFits(g, items) == {items}

\* storage_guild_additem and _additem2, for every item of a set: what fits
Fits(g, items) ==
  LET room == g.max - Cardinality(g.items)
      n == IF Cardinality(items) <= room THEN Cardinality(items)
           ELSE IF room > 0 THEN room ELSE 0
  IN  {s \in SUBSET items : Cardinality(s) = n}
Added(g, items) == [g EXCEPT !.items = @ \cup items, !.dirty = @ \/ items # {}]

FaultLockIgnored(g)   == g.status
FaultStatusIgnored(g) == g.lock

\* storage_guild_storageopen, for a member whose storage_flag is not 2
OpenRefused(g) == g.status \/ g.lock
Opens(g, c) ==
  IF OpenRefused(g) THEN gstor' = g /\ UNCHANGED flag
  ELSE gstor' = [g EXCEPT !.status = TRUE] /\ flag' = [flag EXCEPT ![c] = TRUE]

StorageOpen(c) ==
  /\ place[c] = "on" /\ c \in member /\ ~flag[c] /\ MayAct
  /\ IF Stor.max # Cap
     THEN Sends(<<[cmd |-> "load", char |-> c]>>) /\ UNCHANGED <<gstor, flag>>
     ELSE Opens(gstor, c) /\ UNCHANGED toChar
  /\ UNCHANGED <<place, inv, member, toMap, apart>>

\* storage_guild_storageadd; with a lock the storage is closed instead
StorageAdd(c, i) ==
  /\ flag[c] /\ gstor.status /\ MayAct /\ i \in inv[c]
  /\ IF gstor.lock THEN StorageClose(c)
     ELSE /\ {i} \in Fits(gstor, {i})
          /\ gstor' = Added(gstor, {i})
          /\ inv' = [inv EXCEPT ![c] = @ \ {i}]
          /\ UNCHANGED <<flag, place, member, toChar, toMap, apart>>

\* storage_guild_storageget
StorageGet(c, i) ==
  /\ flag[c] /\ gstor.status /\ MayAct /\ i \in gstor.items
  /\ IF gstor.lock THEN StorageClose(c)
     ELSE /\ gstor' = [gstor EXCEPT !.items = @ \ {i}, !.dirty = TRUE]
          /\ inv' = [inv EXCEPT ![c] = @ \cup {i}]
          /\ UNCHANGED <<flag, place, member, toChar, toMap, apart>>

CloseStorage(c) == flag[c] /\ MayAct /\ StorageClose(c)

\* pc_autosave
Autosave(c) ==
  /\ place[c] = "on" /\ MayAct
  /\ Sends(SaveOf(c, TRUE))
  /\ UNCHANGED <<mapVars, toMap, apart>>

\* chrif_save(sd, CSAVE_NORMAL), as @save, quests and the bank call it: the
\* storage is saved without the inventory
SaveStatus(c) ==
  /\ flag[c] /\ gstor.dirty /\ MayAct
  /\ Sends(SaveOf(c, FALSE))
  /\ apart' = TRUE
  /\ UNCHANGED <<mapVars, toMap>>

\* buildin_guildstoragecountitem (and the other script commands that lock the
\* storage around what they do): closes it, whoever has it open
CountItem(c) ==
  /\ place[c] = "on" /\ c \in member /\ ~flag[c] /\ MayAct
  /\ gstor' = [Closed(Stor) EXCEPT !.lock = FALSE]
  /\ Sends(CloseSave(c))
  /\ apart' = (apart \/ Stor.status)
  /\ UNCHANGED <<flag, place, inv, member, toMap>>

\* The char server lets nobody in before his final save arrived, and its answer
\* to the map server (chrif_authok) comes after the answers to whatever he had
\* asked for before and after the news of who left.
Settled(c) ==
  /\ \A k \in DOMAIN toChar : toChar[k].char # c
  /\ \A k \in DOMAIN toMap : toMap[k].cmd \in {"loaded", "withdraw"} => toMap[k].char # c

\* pc_authok, and pc_reg_received: his inventory is asked for, his guild is the one
\* the char server has
Enter(c) ==
  /\ place[c] = "off" /\ up /\ MayAct
  /\ Settled(c)
  /\ place' = [place EXCEPT ![c] = "loading"]
  /\ member' = IF c \in roll THEN member ELSE member \ {c}
  /\ Sends(<<[cmd |-> "getinv", char |-> c]>>)
  /\ UNCHANGED <<gstor, flag, inv, toMap, apart>>

\* map_quit: unit_remove_map closes the storage (storage_guild_storage_quit) and
\* saves, then comes the final save, of the inventory alone.  Without a link the
\* node of the player waits for the reconnect (CharMap); he is not gone before.
Quit(c) ==
  /\ place[c] = "on" /\ up /\ MayAct
  /\ IF flag[c]
     THEN gstor' = Closed(gstor) /\ Sends(CloseSave(c) \o InventorySave(c))
     ELSE gstor' = gstor /\ Sends(InventorySave(c))
  /\ flag' = [flag EXCEPT ![c] = FALSE]
  /\ place' = [place EXCEPT ![c] = "off"]
  /\ inv' = [inv EXCEPT ![c] = {}]
  /\ UNCHANGED <<member, toMap, apart>>

\* guild_leave and guild_expulsion; the last member breaks the guild instead
Leave(c) ==
  /\ up /\ MayAct
  /\ c \in member /\ member # {c}
  /\ Cardinality(Char \ member) < Leaves
  /\ \E d \in member : place[d] = "on"
  /\ Sends(<<[cmd |-> "leave", char |-> c]>>)
  /\ UNCHANGED <<mapVars, toMap, apart>>

----------------------------------------------------------------------------
(* The packets of the char server (intif_parse). *)

FaultDirtyLoaded(g) == g.status

\* intif_parse_LoadGuildStorage: ignored if the storage is open, or changed
LoadIgnored(g) == g.status \/ g.dirty
Loaded(p) ==
  LET fresh == [items |-> p.items, status |-> FALSE, dirty |-> FALSE, lock |-> FALSE, max |-> Cap]
  IN  IF place[p.char] = "off" THEN UNCHANGED <<gstor, flag>>
      ELSE IF LoadIgnored(Stor) THEN gstor' = Stor /\ UNCHANGED flag
      ELSE IF p.char \in member /\ ~flag[p.char] THEN Opens(fresh, p.char)
      ELSE gstor' = fresh /\ UNCHANGED flag

FaultSaved == gstor' = IF Known THEN [gstor EXCEPT !.dirty = FALSE] ELSE gstor

\* storage_guild_storagesaved
Saved ==
  gstor' = IF Known /\ ~Stor.status THEN [gstor EXCEPT !.dirty = FALSE] ELSE gstor

\* guild_member_withdraw of a member who is online: his bound items go to the
\* storage and "close and save the storage" finds it closed
WithdrawOnline(c) ==
  LET bound == inv[c] \cap Bound
      keep  == [FlagsClosed EXCEPT ![c] = FALSE]
  IN  IF bound # {}
      THEN \E first \in (IF Stor.status /\ Holders # {} THEN Holders ELSE {c}), s \in Fits(Stor, bound) :
             /\ Sends(CloseHolders(first))
             /\ gstor' = Added(Closed(Stor), s)
             /\ flag' = keep
             /\ inv' = [inv EXCEPT ![c] = @ \ bound]
             /\ apart' = TRUE
      ELSE IF flag[c]
      THEN /\ gstor' = Closed(gstor)
           /\ flag' = [flag EXCEPT ![c] = FALSE]
           /\ Sends(CloseSave(c))
           /\ UNCHANGED <<inv, apart>>
      ELSE UNCHANGED <<gstor, flag, inv, apart, toChar>>

\* ... and of one who is not: the char server is asked to do it, and the storage
\* locked until it has
WithdrawOffline(c) ==
  \E first \in (IF Holders # {} THEN Holders ELSE {c}) :
    /\ Sends(CloseHolders(first) \o <<[cmd |-> "retrieve", char |-> c]>>)
    /\ flag' = FlagsClosed
    /\ gstor' = IF Known THEN [Closed(gstor) EXCEPT !.lock = TRUE] ELSE gstor
    /\ UNCHANGED <<inv, apart>>

\* guild_member_withdraw; the member stays in the list if nobody is online to inform
Withdraw(c) ==
  IF c \notin member THEN UNCHANGED <<gstor, flag, inv, member, apart, toChar>>
  ELSE /\ member' = IF \E d \in member : place[d] # "off" THEN member \ {c} ELSE member
       /\ IF place[c] = "off" THEN WithdrawOffline(c) ELSE WithdrawOnline(c)

\* intif_parse_itembound_store2gstorage
Store2G(items) ==
  \E s \in Fits(Stor, items) :
    gstor' = [Added(Closed(Stor), s) EXCEPT !.lock = FALSE]

IntifParse ==
  /\ toMap # <<>>
  /\ toMap' = Tail(toMap)
  /\ LET p == Head(toMap)
     IN  \/ /\ p.cmd = "loaded" /\ Loaded(p)
            /\ UNCHANGED <<place, inv, member, toChar, apart>>
         \/ /\ p.cmd = "inv"
            /\ place' = [place EXCEPT ![p.char] = "on"]
            /\ inv' = [inv EXCEPT ![p.char] = p.items]
            /\ UNCHANGED <<gstor, flag, member, toChar, apart>>
         \/ /\ p.cmd = "saved" /\ Saved
            /\ UNCHANGED <<flag, place, inv, member, toChar, apart>>
         \/ /\ p.cmd = "unlock"
            /\ gstor' = IF Known THEN [gstor EXCEPT !.lock = FALSE] ELSE gstor
            /\ UNCHANGED <<flag, place, inv, member, toChar, apart>>
         \/ /\ p.cmd = "withdraw" /\ Withdraw(p.char)
            /\ UNCHANGED place
         \/ /\ p.cmd = "store2g" /\ Store2G(p.items)
            /\ UNCHANGED <<flag, place, inv, member, toChar, apart>>

----------------------------------------------------------------------------
(* The char server (inter_parse_frommap). *)

Replies(packets) == toMap' = toMap \o packets

\* mapif_parse_StorageSave: its acknowledgement is nothing to the guild storage
SaveInventory(c, items) ==
  /\ dbInv' = [dbInv EXCEPT ![c] = items]
  /\ Replies(<<>>)
\* mapif_parse_SaveGuildStorage
SaveGuildStorage(items) ==
  /\ dbStore' = items
  /\ Replies(<<[cmd |-> "saved"]>>)

FaultRetrieveBound(c) ==
  LET bound == dbInv[c] \cap Bound
  IN  /\ dbInv' = [dbInv EXCEPT ![c] = @ \ bound]
      /\ Replies(IF bound = {} THEN <<>> ELSE <<[cmd |-> "store2g", items |-> bound]>>)
      /\ apart' = (apart \/ bound # {})

\* mapif_parse_itembound_retrieve: the rows are deleted before the items are
\* anywhere else
RetrieveBound(c) ==
  LET bound == dbInv[c] \cap Bound
  IN  /\ dbInv' = [dbInv EXCEPT ![c] = @ \ bound]
      /\ Replies(IF bound = {} THEN <<[cmd |-> "unlock"]>>
                 ELSE <<[cmd |-> "store2g", items |-> bound]>>)
      /\ apart' = (apart \/ bound # {})

\* mapif_parse_GuildLeave
GuildLeave(c) ==
  /\ roll' = roll \ {c}
  /\ Replies(IF c \in roll THEN <<[cmd |-> "withdraw", char |-> c]>> ELSE <<>>)

InterParse ==
  /\ toChar # <<>>
  /\ toChar' = Tail(toChar)
  /\ LET p == Head(toChar)
     IN  \/ /\ p.cmd = "load"   \* mapif_load_guild_storage
            /\ Replies(<<[cmd |-> "loaded", char |-> p.char, items |-> dbStore]>>)
            /\ UNCHANGED <<charVars, apart>>
         \/ /\ p.cmd = "getinv" \* mapif_parse_StorageLoad
            /\ Replies(<<[cmd |-> "inv", char |-> p.char, items |-> dbInv[p.char]]>>)
            /\ UNCHANGED <<charVars, apart>>
         \/ /\ p.cmd = "saveinv" /\ SaveInventory(p.char, p.items)
            /\ UNCHANGED <<roll, dbStore, apart>>
         \/ /\ p.cmd = "savestore" /\ SaveGuildStorage(p.items)
            /\ UNCHANGED <<roll, dbInv, apart>>
         \/ /\ p.cmd = "leave" /\ GuildLeave(p.char)
            /\ UNCHANGED <<dbStore, dbInv, apart>>
         \/ /\ p.cmd = "retrieve" /\ RetrieveBound(p.char)
            /\ UNCHANGED <<roll, dbStore>>

----------------------------------------------------------------------------
\* The link breaks: what is under way is lost.  Nobody is left waiting for his
\* inventory (pc_authfail).
SaveLost == \E k \in DOMAIN toChar : toChar[k].cmd \in {"saveinv", "savestore"}
LinkBreaks ==
  /\ up /\ broken < Breaks
  /\ up' = FALSE /\ broken' = broken + 1
  /\ apart' = (apart \/ SaveLost)
  /\ toChar' = <<>> /\ toMap' = <<>>
  /\ place' = [c \in Char |-> IF place[c] = "loading" THEN "off" ELSE place[c]]
  /\ UNCHANGED <<gstor, flag, inv, member, charVars>>

\* chrif_on_ready: do_reconnect_storage saves a storage that is closed and dirty
Reconnects ==
  /\ ~up /\ up' = TRUE
  /\ toChar' = IF Known /\ Stor.dirty /\ ~Stor.status
               THEN <<[cmd |-> "savestore", char |-> NoStore, items |-> gstor.items]>>
               ELSE <<>>
  /\ UNCHANGED <<mapVars, charVars, toMap, broken, apart>>

Clients ==
  \E c \in Char :
    \/ StorageOpen(c) \/ CloseStorage(c)
    \/ \E i \in Item : StorageAdd(c, i) \/ StorageGet(c, i)
    \/ Autosave(c) \/ SaveStatus(c) \/ CountItem(c)
    \/ Enter(c) \/ Quit(c) \/ Leave(c)

Next ==
  \/ Clients /\ UNCHANGED <<charVars, up, broken>>
  \/ IntifParse /\ UNCHANGED <<charVars, up, broken>>
  \/ InterParse /\ UNCHANGED <<mapVars, up, broken>>
  \/ LinkBreaks
  \/ Reconnects

Spec == Init /\ [][Next]_vars

\* Both servers read what arrives.
FairSpec ==
  /\ Spec
  /\ WF_vars(IntifParse /\ UNCHANGED <<charVars, up, broken>>)
  /\ WF_vars(InterParse /\ UNCHANGED <<mapVars, up, broken>>)

----------------------------------------------------------------------------
\* Every variable is a table, a set or a queue of the values it is declared with,
\* and a storage has no more items than slots.
TypeOK ==
  /\ gstor \in Storage \cup {NoStore}
  /\ Known => Cardinality(gstor.items) <= gstor.max
  /\ flag \in [Char -> BOOLEAN]
  /\ place \in [Char -> {"off", "loading", "on"}]
  /\ inv \in [Char -> SUBSET Item]
  /\ member \subseteq Char /\ roll \subseteq Char
  /\ dbStore \subseteq Item
  /\ dbInv \in [Char -> SUBSET Item]
  /\ toChar \in Seq(ToChar) /\ toMap \in Seq(ToMap)
  /\ up \in BOOLEAN /\ apart \in BOOLEAN
  /\ broken \in 0 .. Breaks

\* A storage that is open is open for somebody, who can close it: whatever quits,
\* leaves, is expelled or counts items, nobody is left locked out of it ("it will
\* remain locked forever and nobody will be able to access it",
\* clif_refresh_storagewindow).
StatusHasHolder == Known /\ gstor.status => Holders # {}

\* While bound items are retrieved (lock), the storage is closed: the cart
\* functions, which do not test the lock, cannot run into it.
LockMeansClosed == Known /\ gstor.lock => ~gstor.status

\* The inventory of a save has been written, the storage has not.
HalfSaved == toChar # <<>> /\ Head(toChar).cmd = "savestore"
\* The rows of the storage once the save that is being written is whole.
WholeStore == IF HalfSaved THEN Head(toChar).items ELSE dbStore

Places(i) == {c \in Char : i \in dbInv[c]} \cup (IF i \in WholeStore THEN {NoStore} ELSE {})
EachItemOnce == \A i \in Item : Cardinality(Places(i)) = 1

\* "For data sync" (chrif_save): whatever moves while saves are under way, each save
\* leaves every item in one row, of the storage or of one member's inventory: a
\* crash, or a break that loses no save, neither loses nor doubles one.  Between the
\* two packets of a save the rows alone do not have this (HalfSaved): what makes them
\* whole is the packet that is read next, and a break or a crash just then is left
\* out, as is what follows a step that saves one side only (apart).
DataSync == ~apart => EachItemOnce

\* ... and one member at a time has the storage open (storage_guild_storageopen).
OneHolder == ~apart => Cardinality(Holders) <= 1

SaveUnderWay == \E k \in DOMAIN toChar : toChar[k].cmd = "savestore"

\* What the char server has not got, and is not about to get, is dirty: it will be
\* saved (storage_guild_storagesaved, intif_parse_LoadGuildStorage).
CleanIsSaved ==
  Known => gstor.max = 0 \/ gstor.dirty \/ SaveUnderWay \/ gstor.items = dbStore
UnsavedIsDirty == ~apart => CleanIsSaved

\* On a link that holds, a storage locked for a retrieval is unlocked
\* (mapif_parse_itembound_retrieve answers in every case).
Locked == IF Known THEN gstor.lock ELSE FALSE
LockReleased == Locked /\ broken = 0 ~> ~Locked \/ broken > 0

=============================================================================
