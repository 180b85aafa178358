------------------------------- MODULE Trade -------------------------------
(***************************************************************************)
(* Trades between players of one map server (trade.cpp): the request, the     *)
(* window both fill, the two buttons, and the exchange, which moves the items *)
(* one by one with pc_additem and pc_delitem after it has checked that they   *)
(* fit.  Items do not stack, and each weighs 1.                               *)
(***************************************************************************)
EXTENDS Integers, Sequences, FiniteSets, FiniteSetsExt, SequencesExt

CONSTANTS
  Player,
  Free,         \* players who may ask for a trade during one: from a chat room,
                \* or with @trade
  Item,         \* bound: items there are
  MaxInventory, \* MAX_INVENTORY
  OpenSlots,    \* status.inventory_slots
  MaxWeight,    \* player -> max_weight
  MaxZeny,      \* MAX_ZENY
  Rich,         \* players who have that much at first; the others have none
  Window,       \* items the window takes
  MaxEvents,    \* bound: what disturbs their trades
  Nobody        \* no partner; no item

ASSUME TradeAssumption ==
  /\ IsFiniteSet(Player) /\ Nobody \notin Player /\ Nobody \notin Item
  /\ Free \subseteq Player /\ Rich \subseteq Player
  /\ {MaxInventory, OpenSlots, MaxZeny, Window, MaxEvents} \subseteq Nat
  /\ OpenSlots <= MaxInventory
  /\ MaxWeight \in [Player -> Nat]

Slot == 1 .. MaxInventory

VARIABLES
  here,     \* the players on the map server
  partner,  \* player -> trade_partner.id
  trading,  \* player -> state.trading
  locked,   \* player -> state.deal_locked
  deal,     \* player -> slots he put in the window
  money,    \* player -> zeny he put in the window
  inv,      \* player -> slot -> item
  zeny,     \* player -> zeny
  seen,     \* history: the other side of the window when he pressed Trade, if the
            \* other had locked it
  grown,    \* history: players who got an item during the trade
  refilled, \* history: and those who got it in a slot that is in their window
  mixed,    \* history: somebody asked for a trade during one
  events    \* bound

window == <<partner, trading, locked, deal, money, seen, grown, refilled, mixed>>
goods  == <<inv, zeny>>
vars   == <<here, window, goods, events>>

Items(slots)   == {slots[s] : s \in Slot} \ {Nobody}
Weight(slots)  == Cardinality({s \in Slot : slots[s] # Nobody})
FreeIn(slots)  == {s \in Slot : slots[s] = Nobody}
FirstFree(slots) == Min(FreeIn(slots) \cup {MaxInventory + 1})
Offer(p)       == {inv[p][deal[p][k]] : k \in DOMAIN deal[p]}
Side(p)        == [items |-> Offer(p), zeny |-> money[p]]
Present(p)     == p \in here  \* map_id2sd finds him; nobody is never found

\* the items there are, each in a slot of its own that its holder can carry
Placed ==
  \E at \in [Item -> Player \X (1 .. OpenSlots) \cup {<<Nobody, 0>>}] :
    /\ \A i, j \in Item : at[i] = at[j] => i = j \/ at[i][1] = Nobody
    /\ inv = [p \in Player |-> [s \in Slot |->
               IF \E i \in Item : at[i] = <<p, s>>
               THEN CHOOSE i \in Item : at[i] = <<p, s>> ELSE Nobody]]
    /\ \A p \in Player : Weight(inv[p]) <= MaxWeight[p]

\* Everybody is on the map server with some of the items.
Init ==
  /\ here = Player
  /\ partner = [p \in Player |-> Nobody]
  /\ trading = [p \in Player |-> FALSE]
  /\ locked = [p \in Player |-> 0]
  /\ deal = [p \in Player |-> <<>>]
  /\ money = [p \in Player |-> 0]
  /\ seen = [p \in Player |-> Nobody]
  /\ grown = {} /\ refilled = {} /\ mixed = FALSE /\ events = 0
  /\ zeny = [p \in Player |-> IF p \in Rich THEN MaxZeny ELSE 0]
  /\ Placed

----------------------------------------------------------------------------
(* The request. *)

Both(p) == IF Present(partner[p]) THEN {p, partner[p]} ELSE {p}
Apart(S) == [p \in Player |-> IF p \in S THEN Nobody ELSE partner[p]]

Forget(S) ==
  /\ seen' = [p \in Player |-> IF p \in S THEN Nobody ELSE seen[p]]
  /\ grown' = grown \ S
  /\ refilled' = refilled \ S

\* trade_traderequest; near: both may trade and are close enough.  The trade the
\* player was in loses its partners and nothing else.
Ask(p, q, near) ==
  LET before == IF partner[p] # Nobody THEN Apart(Both(p)) ELSE partner
  IN  /\ p \in here /\ q \in here /\ p # q
      /\ partner' = IF before[q] = Nobody /\ near
                    THEN [before EXCEPT ![q] = p, ![p] = q] ELSE before
      /\ mixed' = (mixed \/ trading[p])
      /\ UNCHANGED <<here, trading, locked, deal, money, seen, grown, refilled, goods>>

\* trade_tradeack: nothing happens, or the trade begins, or it fails; a refusal or
\* somebody who is busy unlocks both, one who is too far away does not
Starts(p, q) ==
  /\ partner' = partner
  /\ trading' = [trading EXCEPT ![p] = TRUE, ![q] = TRUE]
  /\ deal' = [deal EXCEPT ![p] = <<>>, ![q] = <<>>]
  /\ money' = [money EXCEPT ![p] = 0, ![q] = 0]
  /\ Forget({p, q})
  /\ UNCHANGED <<locked, mixed>>

Ackable(p, q) == q \in here /\ ~trading[q] /\ partner[q] = p

Ack(p) ==
  /\ p \in here /\ ~trading[p] /\ partner[p] # Nobody
  /\ LET q == partner[p]
     IN  \/ Ackable(p, q) /\ Starts(p, q)
         \/ /\ Ackable(p, q)
            /\ partner' = Apart({p, q})
            /\ locked' \in {locked, [locked EXCEPT ![p] = 0, ![q] = 0]}
            /\ UNCHANGED <<trading, deal, money, seen, grown, refilled, mixed>>
         \/ /\ ~Ackable(p, q)
            /\ partner' = Apart({p})
            /\ UNCHANGED <<trading, locked, deal, money, seen, grown, refilled, mixed>>
  /\ UNCHANGED <<here, goods>>

----------------------------------------------------------------------------
(* The window. *)

FaultEnded(p) == {p}

\* whose window closes with that of p
Ended(p) == Both(p)

\* trade_tradecancel
TradeCancel(p) ==
  /\ partner' = Apart(Both(p))
  /\ IF trading[p]
     THEN /\ trading' = [x \in Player |-> trading[x] /\ x \notin Ended(p)]
          /\ locked' = [x \in Player |-> IF x \in Ended(p) THEN 0 ELSE locked[x]]
          /\ deal' = [x \in Player |-> IF x \in Ended(p) THEN <<>> ELSE deal[x]]
          /\ money' = [x \in Player |-> IF x \in Ended(p) THEN 0 ELSE money[x]]
     ELSE UNCHANGED <<trading, locked, deal, money>>
  /\ Forget(Both(p))
  /\ UNCHANGED mixed

FaultMayChange(p) == trading[p]

MayChange(p) == trading[p] /\ locked[p] = 0

FaultAddable(p, s) == Len(deal[p]) < Window
FaultTooHeavy(p) == Weight(inv[partner[p]]) + 1 > MaxWeight[partner[p]]

\* trade_tradeadditem; adding a slot again adds none of it
Addable(p, s) == s \notin Range(deal[p]) /\ Len(deal[p]) < Window
TooHeavy(p)   == Weight(inv[partner[p]]) + Len(deal[p]) + 1 > MaxWeight[partner[p]]
AddItem(p, s) ==
  /\ p \in here /\ MayChange(p)
  /\ IF ~Present(partner[p]) THEN TradeCancel(p)
     ELSE /\ inv[p][s] # Nobody
          /\ Addable(p, s) /\ ~TooHeavy(p)
          /\ deal' = [deal EXCEPT ![p] = Append(@, s)]
          /\ UNCHANGED <<partner, trading, locked, money, seen, grown, refilled, mixed>>
  /\ UNCHANGED <<here, goods>>

\* trade_tradeaddzeny
AddZeny(p, z) ==
  /\ p \in here /\ MayChange(p)
  /\ IF ~Present(partner[p]) \/ z > zeny[p] \/ z > MaxZeny - zeny[partner[p]] THEN TradeCancel(p)
     ELSE /\ money' = [money EXCEPT ![p] = z]
          /\ UNCHANGED <<partner, trading, locked, deal, seen, grown, refilled, mixed>>
  /\ UNCHANGED <<here, goods>>

\* trade_tradeok
Ok(p) ==
  /\ p \in here /\ trading[p] /\ locked[p] = 0
  /\ IF ~Present(partner[p]) THEN TradeCancel(p)
     ELSE /\ locked' = [locked EXCEPT ![p] = 1]
          /\ UNCHANGED <<partner, trading, deal, money, seen, grown, refilled, mixed>>
  /\ UNCHANGED <<here, goods>>

Cancel(p) == p \in here /\ TradeCancel(p) /\ UNCHANGED <<here, goods>>

----------------------------------------------------------------------------
(* The exchange. *)

\* impossible_trade_check: he no longer has what he offers
Impossible(p) ==
  \/ money[p] > zeny[p]
  \/ \E k \in DOMAIN deal[p] : inv[p][deal[p][k]] = Nobody

\* trade_check: there is room for it; what the other gives frees no slot
Fits(p, q) ==
  /\ zeny[q] <= MaxZeny - money[p]
  /\ Len(deal[p]) <= Cardinality(FreeIn(inv[q]))

\* pc_additem, and pc_delitem if it worked
FaultGive(all, p, q, s) ==
  LET t == FirstFree(all[q])
  IN  IF t > OpenSlots \/ Weight(all[q]) >= MaxWeight[q] THEN [all EXCEPT ![p][s] = Nobody]
      ELSE [all EXCEPT ![q][t] = all[p][s], ![p][s] = Nobody]

Give(all, p, q, s) ==
  LET t == FirstFree(all[q])
  IN  IF t > OpenSlots \/ Weight(all[q]) >= MaxWeight[q] THEN all
      ELSE [all EXCEPT ![q][t] = all[p][s], ![p][s] = Nobody]

\* one position of the window, first of the one who pressed last
Swap(all, p, q, k) ==
  LET mine == IF k \in DOMAIN deal[p] THEN Give(all, p, q, deal[p][k]) ELSE all
  IN  IF k \in DOMAIN deal[q] THEN Give(mine, q, p, deal[q][k]) ELSE mine

\* pc_payzeny and pc_getzeny
Pay(purse, p, q, z) ==
  IF purse[p] < z THEN [purse EXCEPT ![q] = Min({MaxZeny, @ + z})]
  ELSE [purse EXCEPT ![p] = @ - z, ![q] = Min({MaxZeny, @ + z})]

Swapped(p, q) ==
  LET after[k \in 0 .. Window] == IF k = 0 THEN inv ELSE Swap(after[k - 1], p, q, k)
  IN  after[Window]

Exchange(p, q) ==
  /\ inv' = Swapped(p, q)
  /\ zeny' = Pay(Pay(zeny, p, q, money[p]), q, p, money[q])
  /\ partner' = Apart({p, q})
  /\ trading' = [trading EXCEPT ![p] = FALSE, ![q] = FALSE]
  /\ locked' = [locked EXCEPT ![p] = 0, ![q] = 0]
  /\ deal' = [deal EXCEPT ![p] = <<>>, ![q] = <<>>]
  /\ money' = [money EXCEPT ![p] = 0, ![q] = 0]
  /\ Forget({p, q})
  /\ UNCHANGED mixed

Possible(p, q) == ~Impossible(p) /\ ~Impossible(q) /\ Fits(p, q) /\ Fits(q, p)

\* trade_tradecommit
Commit(p) ==
  LET q == partner[p]
  IN  /\ p \in here /\ trading[p] /\ locked[p] > 0
      /\ \/ ~Present(q) /\ TradeCancel(p) /\ UNCHANGED goods
         \/ /\ Present(q) /\ locked[q] < 2
            /\ locked' = [locked EXCEPT ![p] = 2]
            /\ seen' = [seen EXCEPT ![p] = IF locked[q] > 0 THEN Side(q) ELSE Nobody]
            /\ UNCHANGED <<partner, trading, deal, money, grown, refilled, mixed, goods>>
         \/ /\ Present(q) /\ locked[q] = 2
            /\ IF Possible(p, q) THEN Exchange(p, q)
               ELSE /\ TradeCancel(IF Impossible(q) /\ ~Impossible(p) THEN q ELSE p)
                    /\ UNCHANGED goods
      /\ UNCHANGED here

----------------------------------------------------------------------------
(* What else happens to a player. *)

\* an item of his window is no longer there, and another arrives in its slot
Refills(p) ==
  /\ trading[p]
  /\ \E k \in DOMAIN deal[p] : inv[p][deal[p][k]] = Nobody /\ inv'[p][deal[p][k]] # Nobody

Gets(p) ==
  /\ grown' = (IF trading[p] THEN grown \cup {p} ELSE grown)
  /\ refilled' = (IF Refills(p) THEN refilled \cup {p} ELSE refilled)

\* an item arrives: a party member's loot, a script (pc_additem)
Loot(p, i) ==
  /\ p \in here /\ \A x \in Player : i \notin Items(inv[x])
  /\ Weight(inv[p]) < MaxWeight[p]
  /\ FirstFree(inv[p]) <= OpenSlots
  /\ inv' = [inv EXCEPT ![p][FirstFree(inv[p])] = i]
  /\ Gets(p)
  /\ UNCHANGED <<here, partner, trading, locked, deal, money, seen, mixed, zeny>>

\* an item is used up (pc_delitem)
UseUp(p, s) ==
  /\ p \in here /\ inv[p][s] # Nobody
  /\ inv' = [inv EXCEPT ![p][s] = Nobody]
  /\ UNCHANGED <<here, window, zeny>>

\* zeny is spent or earned (pc_payzeny, pc_getzeny)
Zeny(p, z) ==
  /\ p \in here /\ z # zeny[p]
  /\ zeny' = [zeny EXCEPT ![p] = z]
  /\ UNCHANGED <<here, window, inv>>

\* he leaves the map server (unit_remove_map), and comes back with a clean slate
Leave(p) ==
  /\ p \in here
  /\ here' = here \ {p}
  /\ IF partner[p] # Nobody THEN TradeCancel(p) ELSE UNCHANGED window
  /\ UNCHANGED goods

Enter(p) ==
  /\ p \notin here
  /\ here' = here \cup {p}
  /\ partner' = [partner EXCEPT ![p] = Nobody]
  /\ trading' = [trading EXCEPT ![p] = FALSE]
  /\ locked' = [locked EXCEPT ![p] = 0]
  /\ deal' = [deal EXCEPT ![p] = <<>>]
  /\ money' = [money EXCEPT ![p] = 0]
  /\ UNCHANGED <<seen, grown, refilled, mixed, goods>>

Asks(p) == \E q \in Player, near \in BOOLEAN : ~trading[p] /\ Ask(p, q, near)

InWindow(p) ==
  \/ Ok(p) \/ Cancel(p) \/ Commit(p)
  \/ \E s \in Slot : AddItem(p, s)
  \/ \E z \in 0 .. MaxZeny : AddZeny(p, z)

Changes(p) ==
  \/ \E i \in Item : Loot(p, i)
  \/ \E s \in Slot : UseUp(p, s)
  \/ \E z \in 0 .. MaxZeny : Zeny(p, z)

AsksAgain(p) == \E q \in Player, near \in BOOLEAN : trading[p] /\ p \in Free /\ Ask(p, q, near)

Next ==
  \E p \in Player :
    \/ (Asks(p) \/ Ack(p) \/ InWindow(p) \/ Enter(p)) /\ UNCHANGED events
    \/ events < MaxEvents /\ events' = events + 1 /\ (Changes(p) \/ Leave(p))
    \/ events = 0 /\ events' = MaxEvents /\ AsksAgain(p)  \* nothing else happens then

Spec == Init /\ [][Next]_vars

----------------------------------------------------------------------------
\* Every table holds what it is declared with: no slot is twice in a window, and
\* nobody has more zeny than MAX_ZENY.
TypeOK ==
  /\ here \subseteq Player
  /\ partner \in [Player -> Player \cup {Nobody}]
  /\ trading \in [Player -> BOOLEAN]
  /\ locked \in [Player -> 0 .. 2]
  /\ \A p \in Player : deal[p] \in Seq(Slot) /\ IsInjective(deal[p])
  /\ money \in [Player -> 0 .. MaxZeny]
  /\ inv \in [Player -> [Slot -> Item \cup {Nobody}]]
  /\ zeny \in [Player -> 0 .. MaxZeny]
  /\ grown \subseteq Player /\ refilled \subseteq Player
  /\ mixed \in BOOLEAN
  /\ events \in 0 .. MaxEvents

\* Whoever has the window open has it open with somebody who has it open with him.
Mutual ==
  \A p \in Player : trading[p] =>
    LET q == partner[p] IN q \in here /\ trading[q] /\ partner[q] = p

\* "If a character tries to trade to another one then cancel the previous one"
\* (trade_traderequest): true unless the one who asks is already in a trade.
MutualUnlessMixed == ~mixed => Mutual

Holders(i) == {at \in Player \X Slot : inv[at[1]][at[2]] = i}
Total == MapThenSumSet(LAMBDA p : zeny[p], Player)
Closes == \E p \in Player : locked[p] = 2 /\ locked'[p] = 0
Committing == \E p \in Player : Commit(p)

\* Whoever trades with whom, and whatever has changed since the window was filled:
\* the button Trade neither makes nor destroys an item or a zeny.
Conserved ==
  [][Closes /\ Committing => /\ Total' = Total
                   /\ \A i \in Item : Cardinality(Holders(i)') = Cardinality(Holders(i))]_vars

Exchanging(p) ==
  LET q == partner[p]
  IN  Commit(p) /\ Present(q) /\ locked[q] = 2 /\ Possible(p, q)

\* What changes hands is what the first to press Trade saw when he did, if the other had
\* locked his side by then, although items are used up, looted and spent meanwhile.  Not
\* if an item of the window was used up and another looted into its slot: the window
\* names slots, and impossible_trade_check compares the amount that is there now.
AsSeen ==
  [][Closes /\ ~mixed => \A p \in Player :
       Exchanging(p) /\ p \notin refilled /\ seen[partner[p]] # Nobody
         => Side(p) = seen[partner[p]]]_vars

\* "trade is accepted and correct" (trade_tradecommit): all of it changes hands, or
\* nothing does, if neither got an item during the trade, whose load then no check
\* counts, and both have room for it in the slots they may use.  trade_check looks for
\* room in all of MAX_INVENTORY: what it lets through beyond inventory_slots is moved
\* in part.
Whole(p, q) == Items(inv'[q]) = (Items(inv[q]) \ Offer(q)) \cup Offer(p)
Room(p, n) == n <= Cardinality(FreeIn(inv[p]) \cap 1 .. OpenSlots)
WholeDealIfRoom ==
  [][Closes /\ ~mixed => \A p \in Player :
       LET q == partner[p]
       IN  /\ Exchanging(p) /\ {p, q} \cap grown = {}
           /\ Room(p, Len(deal[q])) /\ Room(q, Len(deal[p]))
           => Whole(p, q) /\ Whole(q, p)]_vars

=============================================================================
