--------------------------- MODULE TicketService ---------------------------
(***************************************************************************)
(* What the login server promises about the tickets it hands out: an account *)
(* has at most one live ticket, a newer one replaces it, a live ticket is      *)
(* spent at most once, and a ticket that is spent or dropped stays so.          *)
(***************************************************************************)
EXTENDS Naturals

CONSTANTS
  Account,    \* who tickets are issued to
  Ticket,     \* the tickets there are
  NoUser      \* no live ticket

VARIABLES
  live,       \* account -> its live ticket, or NoUser
  spent,      \* the tickets that have been spent
  owner       \* the account of each ticket issued so far, in order

vars == <<live, spent, owner>>

Init ==
  /\ live = [a \in Account |-> NoUser]
  /\ spent = {}
  /\ owner = <<>>

\* A ticket number that was never used becomes the account's only live ticket.
Issue(a) ==
  \E t \in Ticket :
    /\ t \notin DOMAIN owner
    /\ owner' = [n \in DOMAIN owner \cup {t} |-> IF n = t THEN a ELSE owner[n]]
    /\ live' = [live EXCEPT ![a] = t]
    /\ UNCHANGED spent

\* The live ticket of an account is spent, once.
Spend(a) ==
  /\ live[a] # NoUser
  /\ live[a] \notin spent
  /\ owner[live[a]] = a
  /\ spent' = spent \cup {live[a]}
  /\ live' = [live EXCEPT ![a] = NoUser]
  /\ UNCHANGED owner

\* Live tickets are forgotten unspent: timeouts, restarts.
Drop ==
  /\ \E gone \in SUBSET Account :
       live' = [a \in Account |-> IF a \in gone THEN NoUser ELSE live[a]]
  /\ UNCHANGED <<spent, owner>>

Next == (\E a \in Account : Issue(a) \/ Spend(a)) \/ Drop

Spec == Init /\ [][Next]_vars

=============================================================================
