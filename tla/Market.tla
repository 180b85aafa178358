------------------------------- MODULE Market -------------------------------
(***************************************************************************)
(* Trade, together with the shops that merchants open from their carts        *)
(* (vending.cpp).  Trades and shops share inventories and purses: somebody who *)
(* has a trade window open may buy from a shop, but must not keep one.         *)
(***************************************************************************)
EXTENDS Trade

CONSTANTS
  Merchant,   \* players with a cart and the skill MC_VENDING
  Trader,     \* bound: players who trade
  Buyer,      \* bound: players who look at shops
  CartSize,   \* MAX_CART
  MaxShops,   \* bound: shops opened
  NoShop      \* no shop; no list

ASSUME MarketAssumption ==
  /\ Merchant \subseteq Player /\ Trader \subseteq Player /\ Buyer \subseteq Player
  /\ {CartSize, MaxShops} \subseteq Nat

Place == 1 .. CartSize

VARIABLES
  cart,     \* player -> place -> item
  prevend,  \* player -> state.prevend
  shop,     \* player -> his open shop: vender_id, and the list sd->vending, in which
            \* the client names a place in the cart once: place -> item and price
  viewed,   \* player -> the list he was shown last, and whose
  shops     \* shops opened so far (vending_nextid)

stalls     == <<cart, prevend, shop, viewed, shops>>
marketVars == <<vars, stalls>>

MarketInit ==
  /\ Init
  /\ cart = [p \in Player |-> [k \in Place |-> Nobody]]
  /\ prevend = [p \in Player |-> FALSE]
  /\ shop = [p \in Player |-> NoShop]
  /\ viewed = [p \in Player |-> NoShop]
  /\ shops = 0

Vends(p)   == shop[p] # NoShop
CanAct(p)  == ~trading[p] /\ ~Vends(p) /\ ~prevend[p]  \* pc_cant_act2
Filled(p)  == {k \in Place : cart[p][k] # Nobody}
Sum(price) == MapThenSumSet(LAMBDA k : price[k], DOMAIN price)

----------------------------------------------------------------------------
(* The merchant. *)

\* pc_additem: the first free slot, if the player may use it and can carry more
Additem(slots, p, i) ==
  LET t == FirstFree(slots)
  IN  IF t > OpenSlots \/ Weight(slots) >= MaxWeight[p] THEN slots
      ELSE [slots EXCEPT ![t] = i]

\* pc_putitemtocart
PutItemToCart(p, s) ==
  /\ p \in here \cap Merchant /\ CanAct(p)
  /\ inv[p][s] # Nobody /\ Filled(p) # Place
  /\ cart' = [cart EXCEPT ![p][Min(Place \ Filled(p))] = inv[p][s]]
  /\ inv' = [inv EXCEPT ![p][s] = Nobody]
  /\ UNCHANGED <<here, window, zeny, prevend, shop, viewed, shops, events>>

\* pc_getitemfromcart
GetItemFromCart(p, k) ==
  /\ p \in here \cap Merchant /\ CanAct(p)
  /\ cart[p][k] # Nobody
  /\ inv' = [inv EXCEPT ![p] = Additem(inv[p], p, cart[p][k])]
  /\ inv' # inv
  /\ cart' = [cart EXCEPT ![p][k] = Nobody]
  /\ UNCHANGED <<here, window, zeny, prevend, shop, viewed, shops, events>>

\* skill_castend_nodamage_id, MC_VENDING
Vending(p) ==
  /\ p \in here \cap Merchant /\ CanAct(p)
  /\ prevend' = [prevend EXCEPT ![p] = TRUE]
  /\ UNCHANGED <<vars, cart, shop, viewed, shops>>

FaultMayOpen(p) == prevend[p] /\ ~Vends(p)

\* vending_openvending, while the window in which the shop is prepared is open: not
\* for one who has accepted a trade meanwhile
MayOpen(p) == prevend[p] /\ ~Vends(p) /\ ~trading[p]
OpenVending(p) ==
  /\ p \in here /\ MayOpen(p) /\ shops < MaxShops
  /\ \E places \in SUBSET Filled(p) \ {{}}, price \in [Place -> 0 .. MaxZeny] :
       /\ \A k \in Place \ places : price[k] = 0
       /\ shop' = [shop EXCEPT ![p] =
                     [id |-> shops + 1, list |-> [k \in places |-> <<cart[p][k], price[k]>>]]]
  /\ prevend' = [prevend EXCEPT ![p] = FALSE]
  /\ shops' = shops + 1
  /\ UNCHANGED <<vars, cart, viewed>>

\* clif_parse_OpenVending with the result "canceled"
CancelVending(p) ==
  /\ p \in here /\ prevend[p]
  /\ prevend' = [prevend EXCEPT ![p] = FALSE]
  /\ UNCHANGED <<vars, cart, shop, viewed, shops>>

\* vending_closevending
CloseVending(p) ==
  /\ p \in here /\ Vends(p)
  /\ shop' = [shop EXCEPT ![p] = NoShop]
  /\ UNCHANGED <<vars, cart, prevend, viewed, shops>>

----------------------------------------------------------------------------
(* The buyer. *)

\* vending_vendinglistreq; the client shows the list until it has answered
VendingListReq(p, q) ==
  /\ p \in here \cap Buyer /\ q \in here /\ Vends(q)
  /\ viewed' = [viewed EXCEPT ![p] = [of |-> q, id |-> shop[q].id, list |-> shop[q].list]]
  /\ UNCHANGED <<vars, cart, prevend, shop, shops>>

FaultSameShop(p, q) == Vends(q)
FaultCanCarry(p, n) == Room(p, n)
FaultUnsold(list, want) == list

\* vending_purchasereq: "shop has changed"
SameShop(p, q) == Vends(q) /\ shop[q].id = viewed[p].id
\* pc_inventoryblank, and the weight
CanCarry(p, n) == Room(p, n) /\ Weight(inv[p]) + n <= MaxWeight[p]
\* "compact the vending list"
Unsold(list, want) == [k \in DOMAIN list \ want |-> list[k]]
Wanted(p, q, want) == [k \in want |-> shop[q].list[k][2]]

MayPurchase(p, q, want) ==
  /\ q \in here /\ q # p /\ SameShop(p, q)
  /\ want \subseteq DOMAIN shop[q].list
  /\ LET z == Sum(Wanted(p, q, want)) IN z <= zeny[p] /\ z + zeny[q] <= MaxZeny
  /\ CanCarry(p, Cardinality(want))

\* the items arrive one by one, in the order of the list
Bought(p, q, want) ==
  LET after[k \in 0 .. CartSize] ==
        IF k = 0 THEN inv[p]
        ELSE IF k \in want THEN Additem(after[k - 1], p, cart[q][k]) ELSE after[k - 1]
  IN  after[CartSize]

Sells(p, q, want) ==
  LET z == Sum(Wanted(p, q, want))
  IN  /\ zeny' = [zeny EXCEPT ![p] = @ - z, ![q] = Min({MaxZeny, @ + z})]
      /\ inv' = [inv EXCEPT ![p] = Bought(p, q, want)]
      /\ cart' = [cart EXCEPT ![q] = [k \in Place |-> IF k \in want THEN Nobody ELSE @[k]]]
      /\ shop' = [shop EXCEPT ![q].list = Unsold(@, want)]
      /\ Gets(p)

\* vending_purchasereq; in reach: the shop is near enough.  The window closes,
\* whatever came of it.
PurchaseReq(p, want, near) ==
  LET q == viewed[p].of
  IN  /\ p \in here /\ viewed[p] # NoShop /\ want \in SUBSET DOMAIN viewed[p].list \ {{}}
      /\ IF near /\ MayPurchase(p, q, want) THEN Sells(p, q, want)
         ELSE UNCHANGED <<zeny, inv, cart, shop, grown, refilled>>
      /\ viewed' = [viewed EXCEPT ![p] = NoShop]
      /\ UNCHANGED <<here, partner, trading, locked, deal, money, seen, mixed, prevend, shops, events>>

----------------------------------------------------------------------------
(* Both together. *)

\* clif_parse_TradeRequest
RequestTrade(p) ==
  /\ p \in Trader
  /\ CanAct(p) \/ p \in Free
  /\ Asks(p) /\ \A q \in Player \ Trader : partner'[q] = Nobody

\* trade_tradeack: with a shop, on either side, the trade fails
MayTrade(p) == ~Vends(p) /\ (Present(partner[p]) => ~Vends(partner[p]))
AckTrade(p) == Ack(p) /\ (trading' = trading \/ MayTrade(p))

\* map_quit; pc_setpos to another map server
LeaveMarket(p) ==
  /\ Leave(p)
  /\ shop' = [shop EXCEPT ![p] = NoShop]
  /\ prevend' = [prevend EXCEPT ![p] = FALSE]
  /\ viewed' = [viewed EXCEPT ![p] = NoShop]
  /\ UNCHANGED <<cart, shops>>

MarketNext ==
  \E p \in Player :
    \/ (RequestTrade(p) \/ AckTrade(p) \/ InWindow(p)) /\ UNCHANGED <<stalls, events>>
    \/ Enter(p) /\ UNCHANGED <<stalls, events>>
    \/ \E s \in Slot : PutItemToCart(p, s)
    \/ \E k \in Place : GetItemFromCart(p, k)
    \/ Vending(p) \/ CancelVending(p) \/ OpenVending(p) \/ CloseVending(p)
    \/ \E q \in Player : VendingListReq(p, q)
    \/ \E want \in SUBSET Place, near \in BOOLEAN : PurchaseReq(p, want, near)
    \/ LeaveMarket(p) /\ UNCHANGED events

MarketSpec == MarketInit /\ [][MarketNext]_marketVars

----------------------------------------------------------------------------
\* Nobody has a shop and a trade at once, although a shop can be prepared while a
\* trade is asked for, and a trade accepted while a shop is prepared
\* (vending_openvending, trade_tradeack).
VendorNotTrading == \A p \in Player : Vends(p) => ~trading[p]

\* As long as a shop is open, what its list names lies in the cart, whatever the
\* merchant does and however often was sold from it (vending_purchasereq compacts the
\* list, pc_getitemfromcart refuses): nobody pays for something that is not there, or
\* for something else.
InStock ==
  \A p \in Player : Vends(p) =>
    \A k \in DOMAIN shop[p].list : shop[p].list[k][1] # Nobody /\ cart[p][k] = shop[p].list[k][1]

Purchase(p, q) ==
  /\ viewed[p] # NoShop /\ viewed[p].of = q
  /\ \E want \in SUBSET Place : PurchaseReq(p, want, TRUE)
SoldBy(q) == {k \in Place : cart[q][k] # cart'[q][k]}

\* A purchase makes and destroys nothing: what leaves the cart is in the buyer's
\* inventory (the result of pc_additem is not looked at), and the money is all there.
Sold ==
  [][cart' # cart => \A p, q \in Player : Purchase(p, q) =>
       /\ Total' = Total
       /\ Items(inv[p])' = Items(inv[p]) \cup {cart[q][k] : k \in SoldBy(q)}]_marketVars

\* The buyer gets what he saw in the list, at the price he saw, or nothing: also if the
\* merchant has closed his shop and opened another in the meantime.
PaysWhatHeSaw ==
  [][cart' # cart => \A p, q \in Player : Purchase(p, q) =>
       LET list == viewed[p].list
       IN  /\ \A k \in SoldBy(q) : cart[q][k] = list[k][1]
           /\ zeny[p] - zeny'[p] = Sum([k \in SoldBy(q) |-> list[k][2]])]_marketVars

=============================================================================
