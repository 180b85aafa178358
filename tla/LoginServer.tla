---------------------------- MODULE LoginServer ----------------------------
(***************************************************************************)
(* The login server (src/src/login): the table of online accounts           *)
(* (online_db), the one-use authentication nodes it hands to clients         *)
(* (auth_db), the AUTH_TIMEOUT timers that forget both, the web tokens that   *)
(* follow the online state, and the links to the char servers.  A client      *)
(* that logs in gets a ticket (login_id1/login_id2), shows it to a char       *)
(* server, and the char server redeems it here (0x2712).                      *)
(*                                                                            *)
(* The server is one thread: every handler runs to its end, so every handler  *)
(* is one action.  A link is a TCP connection: FIFO in both directions, and    *)
(* everything in flight is lost when it closes.                                *)
(***************************************************************************)
EXTENDS Integers, Sequences, FiniteSets

CONSTANTS
  Half,        \* the 16-bit halves of the account ids in play, 0 among them
  Account,     \* the rows of the account table, as <<high half, low half>>
  CharServer,  \* indices of ch_server[]
  Request,     \* request ids (client sockets of a char server) of 0x2712
  Tid,         \* timer ids
  MaxLogins,   \* bound: logins that are granted a ticket
  MaxQueue,    \* bound: packets in flight in one direction of a link
  MaxOnline,   \* bound: accounts in an online list
  NoUser       \* no entry in online_db or auth_db / timer id not in use

AccountId == Half \X Half

ASSUME LoginAssumption ==
  /\ 0 \in Half
  /\ Account \subseteq AccountId
  /\ CharServer \subseteq Nat
  /\ Tid \subseteq Nat
  /\ MaxLogins \in Nat
  /\ MaxQueue \in Nat
  /\ MaxOnline \in Nat
  /\ NoUser \notin AccountId
  /\ NoUser \notin [char_server : Int, waiting_disconnect : Int]
  /\ NoUser \notin Int

INVALID_TIMER == -1
AUTHED  == -1    \* online_login_data.char_server: authed, not on a char server
UNKNOWN == -2    \* online_login_data.char_server: its char server is gone

OnlineEntry == [char_server : CharServer \cup {AUTHED, UNKNOWN},
                waiting_disconnect : Tid \cup {INVALID_TIMER}]

Ticket == 1 .. MaxLogins

\* An online list of 0x272d.
OnlineList == UNION {[1 .. n -> Account] : n \in 0 .. MaxOnline}

\* The packets a char server sends (handlers below) and those it receives.
FromCharMsg ==
       [cmd : {"reqauth"}, aid : Account, ticket : Ticket, req : Request]
  \cup [cmd : {"setacconline", "setaccoffline", "pincode_authfail"}, aid : Account]
  \cup [cmd : {"updonlinedb"}, aids : OnlineList]
  \cup [cmd : {"setalloffline"}]
ToCharMsg ==
       [cmd : {"ackauth"}, aid : Account, ticket : Ticket, req : Request, ok : BOOLEAN]
  \cup [cmd : {"kick"}, aid : Account]
  \cup [cmd : {"connected"}]

VARIABLES
  online_db,     \* account id -> its online_login_data, or NoUser
  auth_db,       \* account -> the ticket of its auth_node, or NoUser
  timer,         \* timer id -> the account it will disconnect, or NoUser
  token_on,      \* accounts whose row has web_auth_token_enabled = '1'
  token_timer,   \* accounts with at least one account_disable_webtoken_timer
  link,          \* char server -> "down", "up" or "eof" (closed by the peer)
  fromChar,      \* char server -> packets on their way here
  toChar,        \* char server -> packets on their way there
  \* history
  owner,         \* the account of every ticket issued so far, in order
  granted        \* the tickets redeemed by a char server

serverVars == <<online_db, auth_db, timer, token_on, token_timer>>
linkVars   == <<link, fromChar, toChar>>
history    == <<owner, granted>>
vars       == <<serverVars, linkVars, history>>

Init ==
  /\ online_db = [a \in AccountId |-> NoUser]
  /\ auth_db = [a \in Account |-> NoUser]
  /\ timer = [t \in Tid |-> NoUser]
  /\ token_on = {}
  /\ token_timer = {}
  /\ link = [c \in CharServer |-> "down"]
  /\ fromChar = [c \in CharServer |-> <<>>]
  /\ toChar = [c \in CharServer |-> <<>>]
  /\ owner = <<>>
  /\ granted = {}

----------------------------------------------------------------------------
(* The helpers of login.cpp.                                               *)

\* A fault to tell from the code: delete_timer forgotten.
FaultTimersOf(ids) == {}

\* The timers the entries of ids hold: what delete_timer is called on.
TimersOf(ids) ==
  {online_db[a].waiting_disconnect : a \in {b \in ids : online_db[b] # NoUser}}

Without(ts) == [t \in Tid |-> IF t \in ts THEN NoUser ELSE timer[t]]

\* login_add_online_user(c, a) for every a of ids, on the table db: the timer of
\* an entry that exists is deleted, and the account's web token is enabled.
AddOnlineUsers(db, c, ids) ==
  /\ online_db' = [a \in AccountId |->
                     IF a \in ids
                     THEN [char_server |-> c, waiting_disconnect |-> INVALID_TIMER]
                     ELSE db[a]]
  /\ timer' = Without(TimersOf(ids))
  /\ token_on' = token_on \cup (ids \cap Account)
  /\ UNCHANGED token_timer

\* login_remove_online_user(a) for every a of ids: nothing for an account that
\* has no entry; else its timer goes and its web token gets a disable timer.
RemoveOnlineUsers(ids) ==
  /\ online_db' = [a \in AccountId |-> IF a \in ids THEN NoUser ELSE online_db[a]]
  /\ timer' = Without(TimersOf(ids))
  /\ token_timer' = token_timer \cup {a \in ids \cap Account : online_db[a] # NoUser}
  /\ UNCHANGED token_on

\* Faults to tell from the code: a lost server mistaken for "authed", or for the
\* next slot of ch_server[].
FaultOnlineDbSetOffline(db, c) ==
  [a \in AccountId |->
     IF db[a] # NoUser /\ db[a].char_server = c
     THEN [db[a] EXCEPT !.char_server = AUTHED] ELSE db[a]]
FaultServerOfNextSlot(db, c) ==
  [a \in AccountId |->
     IF db[a] # NoUser /\ db[a].char_server = c
     THEN [db[a] EXCEPT !.char_server = c + 1] ELSE db[a]]

\* login_online_db_setoffline(c), c >= 0: the loop variable is a copy of each
\* pair of the map, so "char_server = -2" is written to the copy and the table
\* stays as it is.
OnlineDbSetOffline(db, c) == db

\* Faults to tell from the code: an auth node that is not replaced (emplace for
\* operator[]), one that outlives its use, one that matches any ticket.
FaultAddAuthNode(a, n) ==
  IF auth_db[a] = NoUser THEN [auth_db EXCEPT ![a] = n] ELSE auth_db
FaultRemoveAuthNode(a) == auth_db
FaultNodeMatches(m)    == auth_db[m.aid] # NoUser

AddAuthNode(a, n)  == [auth_db EXCEPT ![a] = n]        \* login_add_auth_node
RemoveAuthNode(a)  == [auth_db EXCEPT ![a] = NoUser]   \* login_remove_auth_node
NodeMatches(m)     == auth_db[m.aid] = m.ticket        \* the test of 0x2712

Valid(c)  == link[c] # "down"      \* session_isValid: eof is still valid
Active(c) == link[c] = "up"        \* session_isActive
Room(c)   == Len(toChar[c]) < MaxQueue

\* logchrif_sendallwos(-1, m): to every valid link.
Broadcast(m) ==
  toChar' = [c \in CharServer |->
               IF Valid(c) THEN Append(toChar[c], m) ELSE toChar[c]]

----------------------------------------------------------------------------
(* Clients: login_mmo_auth succeeds (it saves the account with a fresh,      *)
(* enabled web token) and logclif_auth_ok runs.                             *)

\* No char server: "server closed" (1).
LoginNoCharServer(a) ==
  /\ \A c \in CharServer : ~Active(c)
  /\ token_on' = token_on \cup {a}
  /\ UNCHANGED <<online_db, auth_db, timer, token_timer, linkVars, history>>

\* Already on a char server: every char server is told to kick the account, a
\* timer is armed unless one runs, and the client is refused (8).
LoginAlreadyOnline(a) ==
  /\ \E c \in CharServer : Active(c)
  /\ \A c \in CharServer : Valid(c) => Room(c)
  /\ online_db[a] # NoUser
  /\ online_db[a].char_server > AUTHED
  /\ token_on' = token_on \cup {a}
  /\ Broadcast([cmd |-> "kick", aid |-> a])
  /\ IF online_db[a].waiting_disconnect = INVALID_TIMER
     THEN \E t \in Tid :
            /\ timer[t] = NoUser
            /\ timer' = [timer EXCEPT ![t] = a]
            /\ online_db' = [online_db EXCEPT ![a].waiting_disconnect = t]
     ELSE UNCHANGED <<online_db, timer>>
  /\ UNCHANGED <<auth_db, token_timer, link, fromChar, history>>

\* Accepted: a previous session that never reached a char server is wiped, the
\* client gets a fresh ticket, and an AUTH_TIMEOUT timer is armed.
LoginAccepted(a) ==
  /\ \E c \in CharServer : Active(c)
  /\ \/ online_db[a] = NoUser
     \/ online_db[a] # NoUser /\ online_db[a].char_server <= AUTHED
  /\ Len(owner) < MaxLogins
  /\ LET gone == TimersOf({a})
     IN  \E t \in Tid :
           /\ Without(gone)[t] = NoUser
           /\ timer' = [Without(gone) EXCEPT ![t] = a]
           /\ online_db' = [online_db EXCEPT ![a] =
                              [char_server |-> AUTHED, waiting_disconnect |-> t]]
  /\ auth_db' = AddAuthNode(a, Len(owner) + 1)
  /\ owner' = Append(owner, a)
  /\ token_on' = token_on \cup {a}
  /\ token_timer' = IF online_db[a] # NoUser /\ online_db[a].char_server = AUTHED
                    THEN token_timer \cup {a} ELSE token_timer
  /\ UNCHANGED <<granted, linkVars>>

----------------------------------------------------------------------------
(* Timers.  AUTH_TIMEOUT and disable_webtoken_delay are real time: a pending  *)
(* timer may fire before or after any packet.                                *)

\* Faults to tell from the code: the token's timer tests nothing, or the auth nodes
\* beside the online table; the disconnect timer drops the node and is armed again.
FaultTokenNotChecked(a) == TRUE
FaultTokenOfNode(a)     == online_db[a] = NoUser /\ auth_db[a] # NoUser
FaultWaitingDisconnectTimer(t) ==
  /\ timer[t] # NoUser
  /\ auth_db' = [b \in Account |-> IF b = timer[t] THEN NoUser ELSE auth_db[b]]
  /\ UNCHANGED <<online_db, timer, token_on, token_timer, linkVars, history>>

\* The tests the two timers make before they act.
TimerIsCurrent(a, t) == online_db[a] # NoUser /\ online_db[a].waiting_disconnect = t
TokenUnused(a)       == online_db[a] = NoUser

\* login_waiting_disconnect_timer
WaitingDisconnectTimer(t) ==
  /\ timer[t] # NoUser
  /\ LET a == timer[t]
     IN  IF TimerIsCurrent(a, t)
         THEN /\ online_db' = [online_db EXCEPT ![a] = NoUser]
              /\ token_timer' = token_timer \cup ({a} \cap Account)
              /\ auth_db' = [b \in Account |-> IF b = a THEN NoUser ELSE auth_db[b]]
         ELSE UNCHANGED <<online_db, token_timer, auth_db>>
  /\ timer' = [timer EXCEPT ![t] = NoUser]
  /\ UNCHANGED <<token_on, linkVars, history>>

\* account_disable_webtoken_timer; another one may still be pending.
DisableWebtokenTimer(a) ==
  /\ a \in token_timer
  /\ token_timer' \in {token_timer, token_timer \ {a}}
  /\ token_on' = IF TokenUnused(a) THEN token_on \ {a} ELSE token_on
  /\ UNCHANGED <<online_db, auth_db, timer, linkVars, history>>

\* login_online_data_cleanup, every ten minutes
OnlineDataCleanup ==
  /\ RemoveOnlineUsers({a \in AccountId : online_db[a] # NoUser
                                            /\ online_db[a].char_server = UNKNOWN})
  /\ UNCHANGED <<auth_db, linkVars, history>>

----------------------------------------------------------------------------
(* Packets of a char server: logchrif_parse and its handlers.               *)

Receive(c, cmd) ==
  /\ Active(c)
  /\ fromChar[c] # <<>>
  /\ Head(fromChar[c]).cmd = cmd
  /\ fromChar' = [fromChar EXCEPT ![c] = Tail(@)]

\* 0x2712: redeem a ticket; "each auth entry can only be used once".
ParseReqAuth(c) ==
  /\ Receive(c, "reqauth")
  /\ Room(c)
  /\ LET m  == Head(fromChar[c])
         ok == NodeMatches(m)
     IN  /\ toChar' = [toChar EXCEPT ![c] =
                         Append(@, [cmd |-> "ackauth", aid |-> m.aid,
                                    ticket |-> m.ticket, req |-> m.req, ok |-> ok])]
         /\ auth_db' = IF ok THEN RemoveAuthNode(m.aid) ELSE auth_db
         /\ granted' = IF ok THEN granted \cup {m.ticket} ELSE granted
  /\ UNCHANGED <<online_db, timer, token_on, token_timer, link, owner>>

\* 0x272b
ParseSetAccOnline(c) ==
  /\ Receive(c, "setacconline")
  /\ AddOnlineUsers(online_db, c, {Head(fromChar[c]).aid})
  /\ UNCHANGED <<auth_db, link, toChar, history>>

\* 0x272c: whichever char server the entry names.
ParseSetAccOffline(c) ==
  /\ Receive(c, "setaccoffline")
  /\ RemoveOnlineUsers({Head(fromChar[c]).aid})
  /\ UNCHANGED <<auth_db, link, toChar, history>>

\* The account ids the receiver of 0x272d reads.  The sender writes a 32-bit
\* count at 4 and the ids from 8 (char_logif.cpp); the receiver reads a 16-bit
\* count at 4 and the ids from 6: each id it sees is the high half of the
\* previous word (of the count, 0, for the first) and the low half of its own.
Misread(aids) ==
  [i \in 1 .. Len(aids) |->
     <<aids[i][2], IF i = 1 THEN 0 ELSE aids[i - 1][1]>>]

\* 0x272d: the online list of a char server that (re)connected.
ParseUpdOnlineDb(c) ==
  /\ Receive(c, "updonlinedb")
  /\ LET read == Misread(Head(fromChar[c]).aids)
     IN  AddOnlineUsers(OnlineDbSetOffline(online_db, c), c,
                        {read[i] : i \in 1 .. Len(read)})
  /\ UNCHANGED <<auth_db, link, toChar, history>>

\* 0x2737
ParseSetAllOffline(c) ==
  /\ Receive(c, "setalloffline")
  /\ online_db' = OnlineDbSetOffline(online_db, c)
  /\ UNCHANGED <<auth_db, timer, token_on, token_timer, link, toChar, history>>

\* 0x2739: for an account with no entry the handler returns before RFIFOSKIP,
\* so the packet stays at the head of the link: there is no step to take.
ParsePincodeAuthFail(c) ==
  /\ Receive(c, "pincode_authfail")
  /\ online_db[Head(fromChar[c]).aid] # NoUser
  /\ RemoveOnlineUsers({Head(fromChar[c]).aid})
  /\ UNCHANGED <<auth_db, link, toChar, history>>

----------------------------------------------------------------------------
(* Links and restarts.                                                      *)

\* logclif_parse_reqcharconnec (0x2710): refused while the slot is valid.
ParseReqCharConnec(c) ==
  /\ ~Valid(c)
  /\ link' = [link EXCEPT ![c] = "up"]
  /\ toChar' = [toChar EXCEPT ![c] = <<[cmd |-> "connected"]>>]
  /\ UNCHANGED <<serverVars, fromChar, history>>

\* The socket layer sees the connection of c closed.
LinkClosed(c) ==
  /\ Active(c)
  /\ link' = [link EXCEPT ![c] = "eof"]
  /\ UNCHANGED <<serverVars, fromChar, toChar, history>>

\* logchrif_parse on eof: logchrif_on_disconnect, logchrif_server_reset.
OnDisconnect(c) ==
  /\ link[c] = "eof"
  /\ link' = [link EXCEPT ![c] = "down"]
  /\ fromChar' = [fromChar EXCEPT ![c] = <<>>]
  /\ toChar' = [toChar EXCEPT ![c] = <<>>]
  /\ online_db' = OnlineDbSetOffline(online_db, c)
  /\ UNCHANGED <<auth_db, timer, token_on, token_timer, history>>

\* The process stops (or crashes) and starts again: both tables are in memory,
\* and account_db_sql_init clears the web tokens of every account.
Restart ==
  /\ online_db' = [a \in AccountId |-> NoUser]
  /\ auth_db' = [a \in Account |-> NoUser]
  /\ timer' = [t \in Tid |-> NoUser]
  /\ token_on' = {}
  /\ token_timer' = {}
  /\ link' = [c \in CharServer |-> "down"]
  /\ fromChar' = [c \in CharServer |-> <<>>]
  /\ toChar' = [c \in CharServer |-> <<>>]
  /\ UNCHANGED history

----------------------------------------------------------------------------
Login(a)   == LoginNoCharServer(a) \/ LoginAlreadyOnline(a) \/ LoginAccepted(a)

Parse(c) ==
  \/ ParseReqAuth(c)
  \/ ParseSetAccOnline(c)
  \/ ParseSetAccOffline(c)
  \/ ParseUpdOnlineDb(c)
  \/ ParseSetAllOffline(c)
  \/ ParsePincodeAuthFail(c)

\* What the server itself does.
Server ==
  \/ \E a \in Account : Login(a)
  \/ \E t \in Tid : WaitingDisconnectTimer(t)
  \/ \E a \in Account : DisableWebtokenTimer(a)
  \/ OnlineDataCleanup
  \/ \E c \in CharServer : Parse(c)
  \/ \E c \in CharServer : ParseReqCharConnec(c)
  \/ \E c \in CharServer : OnDisconnect(c)
  \/ Restart

\* Any char server: it sends any packet of the protocol (a ticket it shows was
\* issued to some client), takes what was sent to it, or goes away.
CharSends(c) ==
  /\ Active(c)
  /\ Len(fromChar[c]) < MaxQueue
  /\ \E m \in FromCharMsg :
       /\ m.cmd = "reqauth" => m.ticket \in 1 .. Len(owner)
       /\ fromChar' = [fromChar EXCEPT ![c] = Append(@, m)]
  /\ UNCHANGED <<serverVars, link, toChar, history>>

CharReceives(c) ==
  /\ toChar[c] # <<>>
  /\ toChar' = [toChar EXCEPT ![c] = Tail(@)]
  /\ UNCHANGED <<serverVars, link, fromChar, history>>

CharServers ==
  \E c \in CharServer : CharSends(c) \/ CharReceives(c) \/ LinkClosed(c)

Next == Server \/ CharServers

Spec == Init /\ [][Next]_vars

\* The main loop runs do_timer and the parse functions over and over, and a
\* peer reads what it was sent.
Fairness ==
  /\ \A t \in Tid : WF_vars(WaitingDisconnectTimer(t))
  /\ \A a \in Account : WF_vars(DisableWebtokenTimer(a))
  /\ \A c \in CharServer : WF_vars(Parse(c)) /\ WF_vars(OnDisconnect(c))
                           /\ WF_vars(CharReceives(c))

FairSpec == Spec /\ Fairness

----------------------------------------------------------------------------
(* Properties.                                                              *)

TypeOK ==
  /\ online_db \in [AccountId -> OnlineEntry \cup {NoUser}]
  /\ auth_db \in [Account -> Ticket \cup {NoUser}]
  /\ timer \in [Tid -> AccountId \cup {NoUser}]
  /\ token_on \subseteq Account
  /\ token_timer \subseteq Account
  /\ link \in [CharServer -> {"down", "up", "eof"}]
  /\ fromChar \in [CharServer -> Seq(FromCharMsg)]
  /\ toChar \in [CharServer -> Seq(ToCharMsg)]
  /\ owner \in Seq(Account)
  /\ Len(owner) <= MaxLogins
  /\ granted \subseteq Ticket

Waiting(a) == online_db[a].waiting_disconnect

\* Timer bookkeeping over every handler that touches online_db: a pending
\* disconnect timer is the one its account's entry holds and an entry's timer
\* is pending for that account, so a timer left over from an earlier session
\* never forgets a later one and no entry waits for a timer that is gone.
TimersMatchEntries ==
  /\ \A t \in Tid : timer[t] # NoUser =>
       /\ online_db[timer[t]] # NoUser
       /\ Waiting(timer[t]) = t
  /\ \A a \in AccountId : online_db[a] # NoUser /\ Waiting(a) # INVALID_TIMER =>
       timer[Waiting(a)] = a

\* An account that has authed and is on no char server always has its
\* AUTH_TIMEOUT timer pending, whatever packets arrived in between.
AuthedHasDeadline ==
  \A a \in AccountId :
    online_db[a] # NoUser /\ online_db[a].char_server = AUTHED =>
      Waiting(a) # INVALID_TIMER

\* "The new authtoken must be valid": however logouts, logins and delayed
\* disable timers interleave, an account that is online has its token enabled.
OnlineTokenEnabled ==
  \A a \in Account : online_db[a] # NoUser => a \in token_on

\* A ticket a char server has redeemed never opens the door again: no live
\* auth node carries a ticket that was granted, of any account.
GrantedNotLive ==
  \A a \in Account : auth_db[a] \notin granted

\* Only the newest login of an account gets in: when a ticket is granted, no
\* later ticket has been issued to the same account.
NewestLoginWins ==
  [][\A t \in granted' \ granted : \A n \in t + 1 .. Len(owner) : owner[n] # owner[t]]_vars

\* A redemption that was answered "ok" is the only one of its ticket, over all
\* char servers and however often the request is repeated.
Tickets == INSTANCE TicketService WITH live <- auth_db, spent <- granted
TicketsOnce == Tickets!Spec

\* An account that authed and never shows up on a char server is forgotten.
AuthedResolved ==
  \A a \in Account :
    (online_db[a] # NoUser /\ online_db[a].char_server = AUTHED)
      ~> (online_db[a] = NoUser \/ online_db[a].char_server # AUTHED)

\* After a logout the web token is disabled in the end, unless the account
\* comes back first.
LogoutDisablesToken ==
  \A a \in Account :
    (a \in token_timer) ~> (a \notin token_on \/ online_db[a] # NoUser)

----------------------------------------------------------------------------
(* What a comment of the repository says, and the code does not.            *)

\* login_online_db_setoffline: "Char server disconnected." marks its accounts
\* with an unknown server, so no entry names a char server whose slot is free.
NobodyOnLostServer ==
  \A c \in CharServer : link[c] = "down" =>
    \A a \in AccountId : online_db[a] # NoUser => online_db[a].char_server # c

=============================================================================
