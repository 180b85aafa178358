# brHades in TLA+

A specification of the servers of brHades (`src/src`): what state they keep, what each handler,
timer and packet does to it, and what must hold however clients, packets, timers, broken links
and restarts interleave. The modules are checked with TLC on small instances; part of the results is
proved with TLAPS for all values of the constants.

## 1. The system

Four processes; each is single-threaded (the web server excepted): a main loop that runs due timers
(`do_timer`) and then the parse function of every socket with data (`do_sockets`). A handler runs to its end
before anything else happens, so **a handler is an action**.

```
 game client ──login──► login server ◄──0x27xx── char server ◄──0x2axx/0x2bxx── map server(s)
      │                                              ▲                               ▲
      └──────────────── choose a character ──────────┘                               │
      └──────────────── play ────────────────────────────────────────────────────────┘
 web server: HTTP requests of the client, the same SQL database
```

A client logs in (login server), is given two random login ids (a *ticket*), shows them to the char
server, which asks the login server whether they are good; chooses a character, for which the
char server leaves an *auth node*; and shows the ids to a map server, which asks the char server,
receives the character's record and plays it. Saves travel back; a final save is acknowledged.

### Components

| component (sources) | state | operations | talks to | what makes it correct | here |
|---|---|---|---|---|---|
| **login server, sessions and tickets** (`login/login.cpp`, `loginclif.cpp`, `loginchrif.cpp`) | `online_db` (account → char server, disconnect timer), `auth_db` (account → ticket), links of char servers | log in; tickets redeemed; accounts set online / offline; lists; timers; char servers come and go | clients, char servers | a ticket is good once, only the newest; a dead login is forgotten; a live one is not | modelled, save for section 5 |
| **login server, account rows** (`account.cpp`) | SQL row, web token and its disable timer | load, save, enable / disable token | login, web server | an online account has a valid token, a gone one not for ever | token modelled |
| login server, IP bans, log, console | SQL rows | | | | no |
| **char server, sessions and hand-over** (`char.cpp`, `char_clif.cpp`, `char_logif.cpp`, `char_mapif.cpp`) | client sessions, `online_char_db` (account → character, map server, socket, AUTH_TIMEOUT timer), `auth_db`, `char_db` (cached records), `map_server[]` | connect, choose, kick, save, move, set on/offline, register a map server, cleanups | clients, login server, map servers | an account is in one place; nobody enters without a granted login; the cache is not older than SQL; timers and sockets named by an entry are its own | modelled, save for section 5 |
| **map server, link to the char server** (`chrif.cpp`, and what `clif.cpp`, `pc.cpp`, `map.cpp` do on entering, quitting and moving) | `auth_db` (nodes entering, leaving, moving), players, `chrif_state`, addresses of others' maps | enter, autosave, quit, move, back to the selection, reconnect, sweep | char server, clients | progress is not lost with a link or a restart; a node does not stay | modelled, save for section 5 |
| char server, character rows (`char_mmo_char_tosql`, create, delete, rename) | SQL | load, save, create, delete, rename | map servers, clients | a save writes what changed, also beside direct UPDATEs; a failed one is not acknowledged | no |
| guild and account storage (`int_storage.cpp`, `storage.cpp`, and what `guild.cpp`, `intif.cpp`, `chrif.cpp` do with them) | a copy of a guild's storage on the map server, its open, lock and dirty flags; inventories; rows of both | open, fill, close, quit, save, load, expulsion with the retrieval of bound items | char server | no item lost or doubled; never open or locked for nobody | guild storage modelled, save for section 5 |
| parties, guilds (`int_party`, `int_guild`, `party`, `guild`) | caches on both sides | invite, join, leave, leader | | both sides agree in the end | no |
| mail, auctions | SQL, end timers | send, take attachment, return, bid | | attachments are taken once | no |
| trades, shops (`trade.cpp`, `vending.cpp`, what they call in `pc.cpp`) | partner, window and locks of each player; shops, carts, the lists buyers look at | request, answer, add, lock, commit, cancel; fill the cart, open, close, look, buy | | windows are open in pairs; items and zeny are conserved; everybody gets what he saw | modelled, save for section 5 |
| timers (`common/timer.cpp`, the heap of `common/db.hpp`) | heap of timer ids, list of free ids, the timer that runs | add, delete, move, `do_timer` | all | fired in order; an id has one owner; `do_timer` ends | modelled, save for section 5 |
| sockets (`common/socket.cpp`) | FIFOs | read, write, flush | all | bytes keep their order | as environment |
| web server (`web/`) | SQL handles behind one mutex | HTTP handlers | login / char rows | no handler works on what it read under an earlier lock | no |
| combat, skills, scripts, NPCs, monsters, item and map databases, containers, tools, third-party code | game rules and data | | | | no |

### What is hard here

* **Timers against the events that should have cancelled them**: the AUTH_TIMEOUT timers of both account tables, the delayed web-token disable, the sweeps.
* **Names that are reused**: socket numbers and timer ids are handed to the next client or timer.
* **Copies**: a character exists as an SQL row, a cached record, a player, a node that waits for an ack and a packet on its way. Which one is newest must not depend on luck.
* **Links that break**: each side notices on its own, what is in flight or written meanwhile is lost, the handshake is repeated, and both sides send again what they think is missing.
* **Two parties acting at once**: a kick meets a hang-up, an authok or a move to another server; a second login replaces a ticket in the middle of the first.
* **Checks and effects apart**: a trade is filled, locked and committed by two players while their inventories change; a buyer answers to a list of a shop that has closed since; a storage is opened by an answer that was asked for earlier.
* **Two rows, two packets**: an inventory and a storage are saved one after the other, and the ack of one save meets the changes after it.
* **Handlers that stop half-way**: an early return that does not consume its packet.

`PROJECT.json` lists each hazard at its line with the properties that cover it, or why none does yet.

## 2. Modules

| module | what it is |
|---|---|
| `TicketService` | abstract: tickets are issued, spent once, or dropped |
| `LoginServer` | the login server among any char servers |
| `MCLoginServer` | instances for TLC |
| `LoginServerProofs` | theorems about `LoginServer` |
| `CharServerProofs` | what every step of the char server keeps; used by the next two |
| `CharOpenProofs` | theorems about `CharOpen` |
| `CharMapProofs` | theorems about `CharMap` |
| `GuildStorageProofs` | theorems about `GuildStorage` |
| `InductionProofs` | induction on numbers, loops that end, sums over finite sets |
| `TradeProofs` | theorems about `Trade` and `Market` |
| `TimersProofs` | theorems about `Timers` |
| `InterLinks` | accounts, characters, the links between the char server and its map servers, packets |
| `CharServer` | every operation of the char server's core |
| `CharOpen` | `CharServer` among map servers that send anything |
| `MapServer` | the map servers' side |
| `SingleWriter` | abstract: a character is played in one place, from all its progress |
| `CharMap` | `CharServer` and `MapServer` composed |
| `GuildStorage` | a guild's storage on one map server, its members' inventories, and the rows of the char server |
| `Trade` | trades of the players of one map server |
| `Market` | `Trade` with merchants, carts and shops |
| `Timers` | the heap of timers and `do_timer` |
| `MCCharOpen`, `MCCharMap`, `MCGuildStorage`, `MCTrade`, `MCMarket`, `MCTimers` | instances for TLC |

```
TicketService ◄─refines─ LoginServer       InterLinks ◄─ CharServer ◄─ CharOpen
SingleWriter  ◄─refines─ CharMap ─► CharServer, MapServer ─► InterLinks
Trade ◄─ Market            GuildStorage            Timers
```

### Correspondence

`map` in `PROJECT.json` gives the lines of each definition. Definitions keep the code's names where they can:
`ParseReqSaveChar` is `chmapif_parse_reqsavechar`, `WaitingDisconnect` is `char_chardb_waiting_disconnect`.

*Login server.* `online_db`, `auth_db` are the two maps of the same name; a value `AUTHED` stands for
`char_server == -1`. `timer[t]` is the account a pending disconnect timer is for. A ticket is the number of the login
it was issued in; `owner` (whose it was) and `granted` are history. Each link has a FIFO per direction. Packet 0x272d
is read at other offsets than it is written at, so it keeps its 16-bit halves (`Misread`).

*Char server.* `session[f]` is the session data on socket `f` with the eof flag; `asked` the requests at the login server;
`login_fd` its three meanings (connected, -1, and the 0 a failed reconnect leaves). `online_db[a]` is `online_char_data`, where
`server` is a map server, -1 or -2 as in the code. `cache` is `char_db`, `sql` the rows. `char_set_charselect`,
`char_set_char_online` and `char_set_char_offline` are the operators `SelectEntry`, `OnlineEntryAt` and `SetOffline` that
handlers use. A record is the progress in it (`ver`) and the map server that has its last map (`at`). The test in
0x2b01 reads the low byte of the character id, which is why `LowByteZero` is a constant.

*Map server.* `pc[m][a]` is the player of account `a` in the world of map server `m`; `auth_node[m][a]` its `auth_node`, whose
record is `NoUser` until the char server's answer has arrived (`chrif_authok`); from then on the registry is being loaded
and `RegReceived` completes the player. A player's socket is open, at eof, or gone (the ten seconds of `clif_delayquit`). All that a player
does to his character is one step, `Play`.

*Guild storage.* `gstor` is the `s_storage` in `guild_storage_db` with `status`, `dirty`, `lock` and `max_amount`; `flag[c]` is
`sd->state.storage_flag == 2`; `inv` the inventories the map server has, `dbStore` and `dbInv` the rows. `guild2storage` makes an empty storage
where none was loaded, with no slots (`Stor`). `intif_parse` and `inter_parse_frommap` are one action each, with a disjunct per packet. `chrif_save` sends the inventory (`InventorySave`,
`mapif_parse_StorageSave`) and, if it changed, the storage its player has open (`StorageSave`, `mapif_parse_SaveGuildStorage`) in packets of their own, which are read one at a time and may be lost one without the other. `apart` is
history: some step saved one side only (`@save`, a script that closes the storage, a retrieval, a storage closed without a link), or a save was lost with the link.

*Trades and shops.* `partner`, `trading`, `locked`, `deal`, `money` are `trade_partner.id`, `state.trading`, `state.deal_locked` and the two parts of
`sd->deal`. `Exchange` moves the items one by one as `trade_tradecommit` does, each with `pc_additem` and, if it worked, `pc_delitem`. `seen` (the other's side when he pressed Trade, if the other had locked it), `grown` (who got an item during the trade), `refilled` (and in a slot that is
in his window) and `mixed` are history. `MaxInventory` is `MAX_INVENTORY`, up to which `trade_check` looks for room, `OpenSlots` the player's `inventory_slots`, at which `pc_additem` stops.
In `Market`, `shop[p]` is `vender_id` with the list `sd->vending`, `cart` the merchant's cart, and `viewed[p]` what the client of a buyer was shown last, with the id his answer carries.

*Timers.* `heap` is `timer_heap` from position 1, `free` `free_timer_list` (its last element is used first), `num` `timer_data_num`. `do_timer` is three actions,
because the function it calls may add, move and delete timers (`Program`): `Call` pops the timer and marks it (`removed`, the bit `TIMER_REMOVE_HEAP`),
`Return` frees its id or starts it again, `Drop` frees one that was deleted. The loops of `BHEAP_SIFTUP` and `BHEAP_SIFTDOWN` are recursive functions of a heap and a position in it.

*Links.* `map_fd` and `char_fd` are the two ends. `Break` cuts both and empties the queues; each side notices in a step of
its own (`MapDisconnected`, `OnDisconnect`), and what it writes before is lost, as after `do_close`.

### Abstractions a reader should know

* SQL statements are atomic and do not fail. A save (`ToSql`, `CachedToo`) compares the record with `char_db` as a whole, where the code compares it in groups of columns, each with its own UPDATE. A record that looks the same in the model may differ in what it leaves out, so then the rows may or may not be written.
* The login server, seen from `CharServer`, grants a login at most once and may kick at any time. That is what `LoginServer` promises (`TicketsOnce`, proved, and `NewestLoginWins`); the two are not composed: `Grantable` is the link between them.
* Pincodes, slots, bans and the other tests that only refuse a client are left out: a client that may be refused may also not try.
* Autotraders (0x2b26 with its autotrade flag) are not modelled: they have no client and need no node.
* User counters, the server list and SQL's `online` column are written but never read by what is modelled.
* A map is on one map server. `DefaultMapAt` is the server that has the fallback map of `pc_authok`.
* In `GuildStorage` a player is in the world, not there, or waiting for his inventory; how he comes and goes is `CharMap`'s. A player leaves only over a working link and comes back only when his final save has arrived (`Settled`), which is what `CharMap` shows.
* A map server that reconnects takes its own entry of `map_server[]`, once the char server has noticed that the old link is gone (`ParseMapLogin`); the code takes the first free one, so a server whose old link is half-open may hold two for a while.
* The cart is left out of `GuildStorage`: it is one more inventory, with a packet of its own in the same `chrif_save`.
* Items do not stack in `GuildStorage`, `Trade` and `Market`: an item is in one slot or not there. Each weighs 1.
* A client answers to the shop it shows, and names a place of the cart once. The button Trade may be pressed as soon as the own side is locked, as `trade_tradecommit` has it.
* What else happens to players who trade is `Loot`, `UseUp`, `Zeny`, `Leave` and `AsksAgain`; a behaviour has `MaxEvents` of them, of which `AsksAgain` takes all.
* Table walks in an unspecified order (`unordered_map`, `DBMap`) are any order (`Orders`).

## 3. What is checked

Twelve runs: nine that pass, and three that show a disagreement between the code and one of its comments. Each property of a passing run has a mutant in `PROJECT.json`
(the `Fault…` operators beside the definitions they replace: a timer not deleted, a cached record not refreshed, a node not compared, a save not resent, a
window closed on one side, a weight not checked, …) that makes its run fail.

### Login server

| run | instance | shows |
|---|---|---|
| `login` | one account, one char server, three logins, two timer ids, fair timers and links | `TimersMatchEntries`, `AuthedHasDeadline`, `OnlineTokenEnabled`: no timer of an earlier login forgets a later one; every half-done login has its deadline; a web token is enabled while its account is online. `GrantedNotLive`, `NewestLoginWins` and the refinement of `TicketService` (`TicketsOnce`): a ticket is good once, only the newest. `AuthedResolved`, `LogoutDisablesToken`: a login nobody takes up is forgotten, the token of a logged-out account disabled in the end |
| `login_lost_server` | one account, one char server | **violation** of `NobodyOnLostServer`: "Set all chars from this char server to offline." — `login_online_db_setoffline` writes to copies |

Char servers may send any packet of the protocol at any time; a ticket they show was issued to somebody.

### Char server on its own (`CharOpen`)

| run | instance | shows |
|---|---|---|
| `char` | one account with two characters (one id with low byte 0), one socket, one timer id, a map server that sends anything about the account, breaks off and comes back, any number of restarts | `TimersMatchEntries`: a pending AUTH_TIMEOUT timer is its entry's, an entry's timer is pending; `CacheIsCurrent`: a record in `char_db` has the progress of SQL, although saves that seem to change nothing are skipped and moves change the cached record alone; `EntryFdIsItsSession`: the socket an entry names is open, authenticated and of that account |

### Char and map servers together (`CharMap`)

| run | instance | shows |
|---|---|---|
| `char_map_breaks` | one map server, two logins, one break anywhere, one restart of the char server, fair links | `NothingLost`, `OnlyGranted`, the refinement of `SingleWriter` (`PlayedOnce`), and `NodesResolve`: every node that waits is resolved |
| `char_map_moves` | two map servers, one login, moves, links to the map servers that hold, a link to the login server that breaks | `PlayedOnce` between two map servers |
| `char_map_links` | three map servers without players, a break, a restart | `MapsShared` |
| `char_map_saved` | two map servers, one break | **violation** of `NothingLost`: "Character is saved on reconnect." does not hold for a player who is moving |

### Guild storage

| run | instance | shows |
|---|---|---|
| `guild_storage` | two members, one bound item, one slot, one member who leaves, one break | `StatusHasHolder`, `OneHolder`: never open for nobody or for two; `LockMeansClosed`, `LockReleased`: closed while items are retrieved, and not for ever; `DataSync`: after every save the rows have each item once, and between the two packets of one they do once the second is written; `UnsavedIsDirty`: what was not saved is dirty |
| `guild_storage_ack` | two items, two slots | **violation** of `CleanIsSaved`: "Storage has been correctly saved." — the ack of the closing save clears the dirty flag of the items put in after it |

`DataSync`, `OneHolder` and `UnsavedIsDirty` are about behaviours in which no step saved one side only and no save was lost with the link; `apart` says which steps those are. They are the ones section 5 tells of. A break
that loses no save is covered, and the reconnection after it. Between the packet with the inventory and the one with the storage the rows have an item twice, or not at all: a crash or a break just then loses or doubles it, and no
property says otherwise. What `DataSync` (`HalfSaved`, `WholeStore`) does say is that the packet which is read next puts that right, whatever other saves, loads, answers and closings are in the queues.

### Trades and shops

| run | instance | shows |
|---|---|---|
| `trade` | three players with loads of one, two and three, three items, two disturbances anywhere, two of three slots open, one player who may ask for a trade from within one | `MutualUnlessMixed`: windows are open in pairs; `Conserved`: the button Trade makes and destroys nothing; `AsSeen`: what changes hands is what the first to press it saw; `WholeDealIfRoom`: all of it or nothing, where there is room |
| `market` | one merchant, a player who trades with him and buys, one who only buys and carries little; two shops | `VendorNotTrading`; `InStock`: a list names what is in the cart; `Sold`: what is paid for arrives, nothing is made or destroyed; `PaysWhatHeSaw`: also if the shop was closed and another opened |

`AsSeen` and `WholeDealIfRoom` each name what the code does not do. Of `AsSeen`: an item of the window that is used up and replaced in its slot by another (`refilled`) is given away in its place, since `impossible_trade_check` (`trade.cpp:205`)
compares only the amount that is there; and who presses the button before the other has locked has seen nothing final (`seen`). Of `WholeDealIfRoom`: room that only `trade_check` sees (`Room`); loads that grew at any time during the trade, since weight
is looked at when an item is put in the window and never again (`grown`); and windows that are not in pairs (`mixed`). Without any one of these TLC finds the property violated in this instance.

### Timers

| run | instance | shows |
|---|---|---|
| `timers` | one timer and three operations, or six timers and one operation, anywhere before, between and inside the functions they call | `HeapOrdered`; `IdsOnce`: two timers never share an id, and only those that their own function deleted are lost; `CatchesUp`: `do_timer` comes to an end although timers with intervals renew themselves |

The three violations are findings of `PROJECT.json`, with the line of the comment and of the code.

### Bounds

* One account in the runs of the servers: entries of different accounts share only sockets, timer ids and links, and everything else is about the ways one account can be in two places. In `login` this costs nothing for safety, which is proved for any set of accounts. `char` has two characters, for the low byte of the id.
* Three logins in `login`: a ticket, the one that replaces it, and the next, with two timer ids that are reused. Two in `char_map_breaks`.
* `MaxQueue` bounds what clients, players and (in the open modules) map servers add while packets are pending. Handlers are not bounded: their answers are always written, so no behaviour of the servers themselves is cut off. One pending packet in front of each already gives every order of two packets on different links and a reply crossing a request.
* `MaxVersion = 1`: one step of progress that is or is not in a copy tells the newest copy from the others.
* `Breaks`, `CharRestarts` = 1: one break gives a repeated handshake with whatever was in flight. In `CharOpen` restarts are not counted.
* `GuildStorage`: two members are one who has the storage open and one who leaves, or who asks meanwhile; one item and one slot give an empty and a full storage; what two items add is in `guild_storage_ack`. The run with a second item that is not bound (6.5 million states) passes as well.
* `Trade`: three players are a pair and one who asks one of them. Three items in three slots, of which two are open, are two in a window and one that comes in their place, or a full inventory; the three can carry one, two and three. `MaxZeny = 1` is a full purse or an empty one. Two events are what it takes to use an item up and find another. `Packed`: inventories have no gaps at first; they come about by what is used up and given.
* `Market`: `Window = 0`, since an item in a trade window is in no cart and the exchange is the `trade` run's; what shops and trades share is inventories, purses and who may open what. `Trader` and `Buyer` say who of the three does what. Two shops are one and the next of the same merchant.
* `Timers`: six timers are the fewest of which one can be taken from the middle of the heap and leave a place that a smaller one has to fill, and then one operation does it; with one timer, three operations reuse ids and delete and move what runs. `MaxTick = 2` with `Late = 1` has timers that are late and ones that are not.

### Timing (`Timely`)

`PlayedOnce` between two map servers needs an assumption the code makes silently: that a working link delivers before the
minute-long timers end. AUTH_TIMEOUT is 30 s, a delayed quit 10 s, the sweep of nodes 60 s. With `Timely = TRUE`, (1) the AUTH_TIMEOUT timer and the
sweep do not overtake packets and a kicked or fighting player of that account that are still to be dealt with (`InTime`), and (2) a client has left
one server — its hang-up noticed — when it arrives at the next (`ClientMoved`, `ClientAtSelect`): clients talk to one server at a time. The runs with one map server, in
which links break, do without it (`Timely = FALSE`).

### Fairness

* `LoginServer!FairSpec`: timers fire and packets are handled — the main loop runs `do_timer` and the parse functions for ever — and a char server reads what it is sent. Nothing makes a client log in, hang up or come back.
* `CharMap!FairSpec`: both ends handle packets, notice a broken link and reconnect (`check_connect_char_server` is an interval timer), and the registry a map server asked for arrives. Nobody has to play, leave or move; links may still break.

* `GuildStorage!FairSpec`: both servers read what arrives. `LockReleased` is about links that do not break before the answer.
* `Timers!FairSpec`: the main loop calls `do_timer` and the functions return. Time need not pass, and nobody has to add a timer.

No strong fairness is used.

## 4. What is proved

`LoginServerProofs`, for any sets of accounts, char servers, timer ids and requests, any bounds and any number of halves of a packet:

| theorem | statement |
|---|---|
| `TypeCorrect` | `Spec => []TypeOK` |
| `TimersCorrect` | `Spec => []TimersMatchEntries` |
| `DeadlineCorrect` | `Spec => []AuthedHasDeadline` |
| `TokenCorrect` | `Spec => []OnlineTokenEnabled` |
| `GrantsCorrect` | `Spec => []GrantedNotLive` |
| `NewestWins` | `Spec => NewestLoginWins` |
| `TicketsImplemented` | `Spec => TicketsOnce`, the refinement of `TicketService` |

The argument has three layers.

1. *Types.* `TypeOK` is inductive once every handler's effect on the tables is typed (`AddOnlineUsersType`, `RemoveOnlineUsersType`, `MisreadType` …).
2. *Timers.* None of the three properties of `online_db` is inductive alone: that an authed account keeps its timer needs that the timer which fires belongs to it, and that a token is on needs that only entries that are gone are disabled. Their conjunction `OnlineInv` is. `AddOnlineUsersInv` and `RemoveOnlineUsersInv` are the two facts every handler's step rests on.
3. *Tickets.* `TicketInv` adds to `GrantedNotLive` that a live node carries the newest ticket of its own account. `IssueTicket`, `GrantTicket` and `DropTickets` are the three things a step can do to tickets; the refinement maps them to `Issue`, `Spend` and `Drop`.

They rest on the named assumptions of `LoginServer` about its constants and on nothing else.

`CharOpenProofs`, for any accounts, characters, map servers, sockets, timer ids and bounds, and map servers that send anything:

| theorem | statement |
|---|---|
| `OpenTypeCorrect` | `OpenSpec => []TypeOK` |
| `TimersMatchCorrect` | `OpenSpec => []TimersMatchEntries` |
| `EntryFdCorrect` | `OpenSpec => []EntryFdIsItsSession` |
| `CacheCorrect` | `OpenSpec => []CacheIsCurrent` |

All four follow from one inductive invariant, `CharInv` (`CharServerProofs`). A timer that fires or is deleted must be its entry's, and no other entry may hold it: that two entries never
hold one timer is a consequence of the `<=>` in `TimersMatchEntries` (`OneWaits`). An entry that is nowhere has no timer (`NowhereNoTimer`), which the handlers that make or
remove an entry rely on. Each handler has one lemma, which says that it keeps `CharInv` whatever the map servers do; so the same lemmas serve `CharMap`.

`CharMapProofs`, for any accounts, map servers and bounds, breaks and restarts included, with and without `Timely`:

| theorem | statement |
|---|---|
| `CharMapTypeCorrect` | `Spec => []TypeOK`, the queues included |
| `OnlyGrantedCorrect` | `Spec => []OnlyGranted` |
| `MapsSharedCorrect` | `Spec => []MapsShared` |
| `NothingLostAlone` | `MapServer = {m}` implies `Spec => []NothingLost` |
| `PlayedOnceAlone` | `MapServer = {m}` implies `Spec => PlayedOnce`, the refinement of `SingleWriter` |

`OnlyGranted` speaks of players and nodes; what makes it inductive is that every login on its way there was granted as well: in a session, in an auth node of the char server, in a request or an
answer in a queue (`Granted`). The invariant is `CharMapInv`: `CharInv`, `Granted` and the types of the map servers' side (`WorldType`). `MapsShared` is about links with nothing in flight; inductive is
`Told`: a server whose maps are known is connected (`Known`), one that is ready or has the answer in its queue is known (`Declared`), and of two that are known each knows the other or is about to be told (`Heard`).

The last two theorems are about one map server, as the run `char_map_breaks` is, and need no assumption about timing. What is on its way to the char server and what comes back is one line: what is asked in
one queue is answered in the other, in the same order, and a break empties both. In this line the packets of a character are of three kinds: those that let it in (`Ins`: the request and its answer), those that
report it gone (`Outs`: the final save and its ack), and records older than its newest progress (`Old`). `Kept` says where the newest progress is, and what may be on its way meanwhile:

* while the character is played, with its player, and nothing that reports it gone is on its way (`Inside`);
* then in the node that waits for the ack (ST_LOGOUT); nothing that lets it in, or is older, is behind what reports it gone, and if the ack is on its way SQL has the progress (`Parting`);
* then in SQL; nothing older is on its way, and what reports it gone is in front of what lets it in (`Outside`);
* and in the record of an answered node, before the player enters (`Entering`).

`Settled` is `Kept` for all characters, with two facts about one map server: a player and a node are of the account they are found under, never both, and nobody is on his way to another server (`Owned`, `Alone`). Each line of the
queues' part is a lemma about one thing that can happen to the line: a packet is sent (`KeptSent`), handled and answered (`KeptMoved`, `KeptWritten`), received (`KeptReceived`), or both queues are cut off (`KeptCut`); each handler's lemma
(`AuthOkSettled`, `SaveAckSettled` …) picks the one that applies. `KeptQuit` and `KeptAcked` are where it could go wrong: a final save is sent again although the first arrived
(harmless, since nothing lets the character in before the second), and its ack frees the account.
`NothingLostAlone` reads `Kept`; for `PlayedOnceAlone` a handler changes who plays in one of three ways, which are the actions of `SingleWriter` (`EnterStep`, `AdvanceStep`, `LeaveStep`), or in none (`SameSeats`), and `Settled` gives `Enter` the newest record.

`GuildStorageProofs`, for any members, items, slots and bounds:

| theorem | statement |
|---|---|
| `StoreTypeCorrect` | `Spec => []TypeOK` |
| `HolderCorrect` | `Spec => []StatusHasHolder` |
| `LockCorrect` | `Spec => []LockMeansClosed` |
| `DataSyncCorrect` | `Spec => []DataSync` |
| `OneHolderCorrect` | `Spec => []OneHolder` |
| `UnsavedCorrect` | `Spec => []UnsavedIsDirty` |

Three of them hold of `StoreInv`: the map server's copy with those who have it open (`Copy`), and the types of the rest, in which nothing that is sent exceeds the slots (`Others`). The other three need
`Sync`: as long as nothing was saved on one side only and no save was lost, the packets under way lead through rows that have each item once, except where the second packet of a save comes next (`Leads`, `ReachWhole`), to rows that are what the map server
has in memory, but for the changes of the one member who has the storage open (`Memory`). What is pushed at the end of the queue is one packet that changes nothing or the two of a save (`ReachPush`, `ReachPushTwo`); what is read is its head (`ReachPop`); a break that loses
no save finds the rows at their end already (`LinkBreaksSync`). An inventory or a storage that is on its way to the map server must not be older than what it replaces there, and an acknowledgement must not meet a load that was asked for before it: `Flow` says
which requests and answers can be in the two queues together.

`TradeProofs`, for any finite set of players, any items, limits and weights, and in the market any merchants, carts and number of shops:

| theorem | statement |
|---|---|
| `MutualCorrect` | `Spec => []MutualUnlessMixed` |
| `TradeTypeCorrect` | `Spec => []TypeOK` |
| `ConservedCorrect` | `Spec => Conserved` |
| `AsSeenCorrect` | `Spec => AsSeen` |
| `WholeDealCorrect` | `Spec => WholeDealIfRoom` |
| `MarketMutual` | `MarketSpec => []MutualUnlessMixed` |
| `VendorCorrect` | `MarketSpec => []VendorNotTrading` |
| `StockCorrect` | `MarketSpec => []InStock` |
| `SoldCorrect` | `MarketSpec => Sold` |
| `PaysCorrect` | `MarketSpec => PaysWhatHeSaw` |

* *Windows.* `Mutual` alone is not inductive: that an answer opens both windows and a cancel closes both needs that somebody who has a partner without a window is named by nobody's window. `LinkInv` says so, and `TradeLinked` that every step of `Trade` keeps it, for both specifications. `VendorNotTrading` follows by the two guards that exclude each other (`MayOpen`, `MayTrade`), for which `ShopInv` adds `LinkInv` (an answer opens the window of the partner who asked, and of nobody else).
* *The exchange.* `Exchange` is a loop over the places of two windows in which each move may fail. One move conserves (`MovedKept`): the item is deleted on this side if and only if it was added on the other. An induction on the place carries that through the loop (`SwapKept`, `SwappedKept`). The zeny are added up over all players (`AddUpMoved`).
* *What was seen.* `SeenInv`: as long as nobody asked from within a trade, what is in a window can be carried by the other, unless he got something since (`Fitting`), and if the partner pressed the button when this side was locked, each place of the window holds what he saw or nothing, unless something came into such a place (`Looked`).
* *All of it.* The hypotheses are those of the property: neither got an item during the trade, and both have free slots among the open ones for all they are to get. Beside `SeenInv` the proof needs that every item has one place and every window its bounds (`WholeInv`): what is to be moved at one place of the loop is still there when the places before it are done. Each move finds a free slot below `inventory_slots`, since the moves before it took fewer than the deal has items (`Able`).
* *Shops.* `StockInv` has the types of carts and lists beside `InStock`, so that a purchase empties exactly the places it takes from the list; `MarketInv` adds what buyers were shown: a list that bears the id of an open shop says, of everything that is left there, what it is and its price (`Shown`).

`TimersProofs`, for any number of timers, any ticks and operations:

| theorem | statement |
|---|---|
| `TimersTypeCorrect` | `Spec => []TypeOK` |
| `HeapCorrect` | `Spec => []HeapOrdered` |
| `IdsCorrect` | `Spec => []IdsOnce` |

`Near` is the invariant of both sift loops: the heap is ordered but for one element, and what is above it expires before what is below. The loop that goes up ends where the element fits under its parent (`Under`); a round of it leaves it over its children (`Over`).
The loop that goes down keeps `Under` and ends with `Over`. `PushHeap` and `PopHeap` are the results: a heap again, with one element more or exactly the chosen one less. The last element, put in the place of one from the middle, may have to go up, as it comes from another
branch: `SiftDownOrders` has `Under` as a hypothesis, which only the loop before it provides (`FaultPopIndex`, the mutant, leaves that loop out). The invariant is `TimersInv`: the three properties and `RunningInv`, which says what has become of the timer whose function is running.

*Induction.* The prover cannot instantiate the library's induction theorems, whose parameter is an operator. `InductionProofs` does without: the numbers that have a property are a *set*, and a set of
numbers that is not empty has a least element (`Least`, from well-founded sets). Hence `Induction`; `Repeated` for folds over an interval; `LoopExists` and `LoopEnds` for recursive functions whose argument comes nearer to the end with every round;
and sums over finite sets (`AddUp…`).

All theorems rest on the named assumptions of the modules about their constants (most of them types; that players and items are finitely many; that `None` and `Nobody` are nobody) and on nothing else.

**Only model-checked**

* The liveness properties, `AuthedResolved`, `LogoutDisablesToken`, `NodesResolve`, `LockReleased` and `CatchesUp`, and with them fairness and `ENABLED`: out of the prover's reach.
* `PlayedOnce` between several map servers. What the run `char_map_moves` shows is for one login, a link that holds and no restart, with `Timely`; its proof has to relate the queues of all of them and the moves between them. `NothingLost` is false there: a link that breaks during a move loses progress (the run `char_map_saved`).
* The three violations, each of which is a counterexample.

## 5. What is not modelled

The components marked "no" above, and in those that are modelled:

* *Login and char server*: packets that only edit or forward an account row or a list (sex, e-mail, bans, VIP, fame, account variables, friends, status changes, cooldowns, bonus scripts), character creation, deletion and renaming, SQL failures, the byte level of the FIFOs, autotraders, configuration and shutdown order.
* *Storage*: several map servers (each keeps its own copy and the code promises nothing), a guild that is broken up, logs, the personal and premium storages, which one player alone opens.
* *Trades and shops*: items that stack, bound items, autotraders and the SQL rows a shop is opened from again, the vending tax, buying stores (`buyingstore.cpp`), the store search, the cash shop; a client that names a place of the cart twice.
* *Timers*: clocks and the wrap of ticks, the names of functions.

Parties and guilds, mail and auctions, character rows and the web server are state machines a model could take on as these were; the plan has them. Combat, skills, units, scripts and the
databases are game rules: formulas over tables, and an interpreter, that a finite model could only repeat.

Seen while modelling, in disagreement with a comment or document, and part of the models as the code has them, but checked by no run:
packet 0x272d is read at other offsets than `doc/packet_interserv.txt` gives (`Misread`); a pincode failure for an account without an entry is never skipped
and blocks its link (`ParsePincodeAuthFail`); two connections of one account may both reach the selection (`AuthOk`: the socket is recorded only in an entry that
exists); the cleanup of unknown accounts stops at the first connected one (`OnlineDataCleanup`); `other_mapserver_count` counts announcements, so it can be too high or,
after the loss of a server never learned of, too low (`RecvMap`, `RemoveMap`).

Other differences without a property are among the hazards: `chmapif_parse_setcharoffline` waits for 6 bytes and skips 10; `chmapif_parse_askrmfriend` does not skip
its packet when its query fails; `login_fd` becomes 0 after a failed reconnect, so that the test `login_fd < 0` no longer sees that there is no login server;
`chrif_removemap` compares the address in network order, so the maps of a lost server keep it; with two map servers, a final save resent after a break may overwrite progress
made elsewhere meanwhile; a client that hangs up during `ST_LOGIN` leaves its account online until the next kick; packet 0x2b01 tests byte 13, the low byte of the
character id in the record, beside the final-save flag (`char_mapif.cpp:424`), so a save of an offline character is refused only if that byte is 0 (`LowByteZero`).

In the storage: `chrif_save` with `CSAVE_NORMAL` (`@save`, quests, the bank) saves a storage that is open without the inventory, although it does so "For data sync" (`SaveStatus`); a storage
that was never loaded has no slots, so items that are retrieved into it are dropped (`Stor`, `Fits`); if the link breaks during a retrieval the lock stays (`LockReleased` says
`broken = 0`); a second load answer that was asked for before the first arrived is ignored only while the storage is open or dirty (`LoadIgnored`). In trades: a request from within a trade
takes the partner away and leaves `trading` and the window of both as they are (`Ask`, `mixed`). "trade is accepted and correct." (`trade.cpp:605`) is not so in three ways, and then a part of the deal moves and the rest stays where it was (`Conserved` holds all the same): `trade_check` counts
free slots up to `MAX_INVENTORY` (200 with the shipped `PACKETVER`, `mmo.hpp:45`) where `pc_additem` stops at `inventory_slots` (100, `main.sql:285`), so a partner with a hundred items and weight to spare gets none of it; the weight is
looked at when an item is put in the window and not again; and an item that came into the slot of one that was used up goes in its place. In shops: `vending_purchasereq` takes an item for one the buyer has by `nameid` alone, while `pc_additem` also compares
cards, binding and unique id; in buying stores
the result of `pc_additem` is not looked at either and only the answer "too many" of `pc_checkadditem` refuses, so a buyer who no longer has one of the kind and has no free slot pays for what is destroyed.
In timers: one that its own function deletes is neither freed nor found again (`orphan`); `npc.cpp:1134` and `1155`, `cashshop.cpp:229` and `247` and `pc.cpp:15816` do that.

## 6. Plan

Done: the login server, the char and map servers' core, guild storage, trades and shops, timers: models, compositions, refinements and runs, and the proofs of every safety property of the passing runs, `PlayedOnce` for one map server.

1. `PlayedOnce` between several map servers, as a theorem under exactly what `char_map_moves` assumes: one login for each account, no break and no restart, ids whose low byte is not 0, `Timely`. TLC finds it violated if any one of these is dropped. The invariant to look for says which server an account is at, in which of its forms the hand-over is (a node in `auth_db`, a request or an answer in a queue, an answered node, a player, none), and which version each of them carries.
2. `CharSave`: `char_mmo_char_tosql` as column groups compared with `char_db`, direct UPDATEs beside it, SQL errors and the ack.
3. `Cluster`: `LoginServer` with `CharServer` in place of its arbitrary char servers.
4. Parties and guilds across two map servers; mail attachments; buying stores; the web server's lock.

To run: `tlc -config Login.cfg MCLoginServer.tla`, likewise for the other runs with the module and file `PROJECT.json` names; `tlapm X.tla` for the modules with proofs (`LoginServerProofs`, `CharServerProofs`, `CharOpenProofs`, `CharMapProofs`, `GuildStorageProofs`, `InductionProofs`, `TradeProofs`, `TimersProofs`).
