---------------------------- MODULE TradeProofs ----------------------------
(***************************************************************************)
(* Proofs about Trade and Market, for every set of players, every size of the *)
(* window, the inventory and the cart, and every bound.  The first part is    *)
(* about Trade alone and uses nothing of Market; the second shows that it      *)
(* holds beside shops as well, and what shops promise.                        *)
(***************************************************************************)
EXTENDS Market, InductionProofs

USE TradeAssumption

\* The variables that say who trades with whom.
LinkType ==
  /\ here \subseteq Player
  /\ partner \in [Player -> Player \cup {Nobody}]
  /\ trading \in [Player -> BOOLEAN]
  /\ mixed \in BOOLEAN

\* Partners are each other's, and on the map server; a trade has two sides.
Linked ==
  \A p \in Player :
    /\ partner[p] # Nobody => partner[p] \in here /\ partner[partner[p]] = p
    /\ trading[p] => partner[p] # Nobody /\ trading[partner[p]]

LinkInv == LinkType /\ (~mixed => Linked)

\* The end of a trade, or of a request, unlinks both sides, whether the one who ends
\* it stays (trade_tradecancel) or goes (unit_remove_map).
LEMMA CancelLinked ==
  ASSUME LinkInv, NEW p \in Player, TradeCancel(p), here' \in {here, here \ {p}}
  PROVE  LinkInv'
<1>1. LinkType'
  BY DEF LinkInv, LinkType, TradeCancel, Apart
<1>2. ASSUME ~mixed PROVE Linked'
  <2>1. Linked /\ LinkType
    BY <1>2 DEF LinkInv
  <2>2. \A x \in Player : partner'[x] = IF x \in Both(p) THEN Nobody ELSE partner[x]
    BY DEF TradeCancel, Apart
  <2>3. \A x \in Player : trading'[x] <=> trading[x] /\ x \notin Both(p)
    BY <2>1, ZenonT(60) DEF TradeCancel, Ended, Both, Linked, LinkType, Present
  <2>4. \A x \in Player : partner[x] # Nobody /\ x \notin Both(p) => partner[x] \notin Both(p)
    BY <2>1 DEF Both, Present, Linked, LinkType
  <2>5. p \in Both(p)
    BY DEF Both
  <2>6. ASSUME NEW x \in Player, x \notin Both(p)
        PROVE  /\ partner'[x] # Nobody => partner'[x] \in here' /\ partner'[partner'[x]] = x
               /\ trading'[x] => partner'[x] # Nobody /\ trading'[partner'[x]]
    <3>1. partner'[x] = partner[x]
      BY <2>2, <2>6
    <3>2. partner[x] # Nobody
          => partner[x] \in Player \ Both(p) /\ partner[x] \in here /\ partner[partner[x]] = x
      BY <2>1, <2>4, <2>6 DEF Linked, LinkType
    <3>3. partner'[x] # Nobody => partner'[x] \in here' /\ partner'[partner'[x]] = x
      BY <2>2, <2>5, <3>1, <3>2
    <3>4. trading'[x] => trading[x] /\ partner[x] # Nobody /\ trading[partner[x]]
      BY <2>1, <2>3 DEF Linked
    <3> QED
      BY <2>3, <3>1, <3>2, <3>3, <3>4
  <2>7. \A x \in Player \cap Both(p) : partner'[x] = Nobody /\ ~trading'[x]
    BY <2>2, <2>3
  <2> QED
    BY <2>6, <2>7 DEF Linked
<1> QED
  BY <1>1, <1>2 DEF LinkInv, TradeCancel

\* What links nobody differently keeps the links.
LEMMA UnlinkedSteps ==
  ASSUME LinkInv, UNCHANGED <<here, partner, trading, mixed>>
  PROVE  LinkInv'
BY DEF LinkInv, LinkType, Linked

\* trade_traderequest links two who had no partner, after it has unlinked the one
\* who asks; only somebody already in a trade (mixed) leaves a trade without partners.
LEMMA AskLinked ==
  ASSUME LinkInv, NEW p \in Player, NEW q \in Player, NEW near \in BOOLEAN, Ask(p, q, near)
  PROVE  LinkInv'
<1> DEFINE before == IF partner[p] # Nobody THEN Apart(Both(p)) ELSE partner
<1>1. /\ p \in here /\ q \in here /\ p # q
      /\ partner' = IF before[q] = Nobody /\ near
                    THEN [before EXCEPT ![q] = p, ![p] = q] ELSE before
      /\ mixed' = (mixed \/ trading[p])
      /\ UNCHANGED <<here, trading>>
  BY DEF Ask
<1>2. before \in [Player -> Player \cup {Nobody}]
  BY DEF LinkInv, LinkType, Apart
<1>3. LinkType'
  BY <1>1, <1>2 DEF LinkInv, LinkType
<1>4. ASSUME ~mixed' PROVE Linked'
  <2>1. Linked /\ LinkType /\ ~trading[p]
    BY <1>1, <1>4 DEF LinkInv, LinkType
  <2>2. before[p] = Nobody
    BY <2>1 DEF LinkType, Apart, Both
  <2>3. \A x \in Player : before[x] # Nobody => before[x] \in here /\ before[before[x]] = x
    BY <2>1 DEF LinkType, Linked, Apart, Both, Present
  <2>4. \A x \in Player : trading[x] => before[x] # Nobody /\ trading[before[x]]
    BY <2>1 DEF LinkType, Linked, Apart, Both, Present
  <2>5. \A x \in Player : before[x] # p
    BY <2>2, <2>3
  <2>6. CASE ~(before[q] = Nobody /\ near)
    BY <1>1, <2>3, <2>4, <2>6 DEF Linked
  <2>7. CASE before[q] = Nobody /\ near
    <3>1. /\ partner'[q] = p /\ partner'[p] = q
          /\ \A x \in Player \ {p, q} : partner'[x] = before[x]
      BY <1>1, <1>2, <2>7
    <3>2. \A x \in Player : before[x] # q
      BY <2>3, <2>7
    <3>3. ASSUME NEW x \in Player
          PROVE  partner'[x] # Nobody => partner'[x] \in here' /\ partner'[partner'[x]] = x
      BY <1>1, <1>2, <2>3, <2>5, <3>1, <3>2
    <3>4. ASSUME NEW x \in Player, trading'[x]
          PROVE  partner'[x] # Nobody /\ trading'[partner'[x]]
      BY <1>1, <1>2, <2>2, <2>4, <2>7, <3>1, <3>4
    <3> QED
      BY <3>3, <3>4 DEF Linked
  <2> QED
    BY <2>6, <2>7
<1> QED
  BY <1>3, <1>4 DEF LinkInv

\* trade_tradeack opens both windows, unlinks both, or, which takes partners who are
\* not each other's, unlinks one.
LEMMA AckLinked ==
  ASSUME LinkInv, NEW p \in Player, Ack(p)
  PROVE  LinkInv'
<1> DEFINE q == partner[p]
<1>1. p \in here /\ ~trading[p] /\ q # Nobody /\ here' = here
  BY DEF Ack
<1>2. CASE Ackable(p, q) /\ Starts(p, q)
  BY <1>1, <1>2 DEF Starts, Ackable, LinkInv, LinkType, Linked
<1>3. CASE Ackable(p, q) /\ partner' = Apart({p, q}) /\ UNCHANGED <<trading, mixed>>
  <2>1. LinkType'
    BY <1>1, <1>3 DEF LinkInv, LinkType, Apart
  <2>2. ASSUME ~mixed PROVE Linked'
    BY <1>1, <1>3, <2>2 DEF LinkInv, LinkType, Linked, Apart, Ackable
  <2> QED
    BY <1>3, <2>1, <2>2 DEF LinkInv
<1>4. CASE ~Ackable(p, q) /\ partner' = Apart({p}) /\ UNCHANGED <<trading, mixed>>
  <2>1. LinkType'
    BY <1>1, <1>4 DEF LinkInv, LinkType, Apart
  <2>2. mixed
    BY <1>1, <1>4 DEF LinkInv, LinkType, Linked, Ackable
  <2> QED
    BY <1>4, <2>1, <2>2 DEF LinkInv
<1> QED
  BY <1>2, <1>3, <1>4 DEF Ack

\* trade_tradecommit waits, ends the trade, or exchanges and unlinks both.
LEMMA CommitLinked ==
  ASSUME LinkInv, NEW p \in Player, Commit(p)
  PROVE  LinkInv'
<1> DEFINE q == partner[p]
<1>1. p \in here /\ trading[p] /\ here' = here
  BY DEF Commit
<1>2. CASE \E x \in {p, q} \cap Player : TradeCancel(x)
  BY <1>1, <1>2, CancelLinked
<1>3. CASE UNCHANGED <<partner, trading, mixed>>
  BY <1>1, <1>3, UnlinkedSteps
<1>4. CASE Present(q) /\ Exchange(p, q)
  <2>1. /\ q \in Player
        /\ partner' = Apart({p, q})
        /\ trading' = [trading EXCEPT ![p] = FALSE, ![q] = FALSE]
        /\ mixed' = mixed
    BY <1>4 DEF Exchange, Present, LinkInv, LinkType
  <2>2. LinkType'
    BY <1>1, <2>1 DEF LinkInv, LinkType, Apart
  <2>3. ASSUME ~mixed PROVE Linked'
    BY <1>1, <2>1, <2>3 DEF LinkInv, LinkType, Linked, Apart
  <2> QED
    BY <2>1, <2>2, <2>3 DEF LinkInv
<1>5. Present(q) => q \in Player
  BY DEF Present, LinkInv, LinkType
<1> QED
  BY <1>2, <1>3, <1>4, <1>5 DEF Commit

\* The other buttons of the window change it or end the trade.
LEMMA WindowLinked ==
  ASSUME LinkInv, NEW p \in Player,
         \/ Ok(p) \/ Cancel(p)
         \/ \E s \in Slot : AddItem(p, s)
         \/ \E z \in 0 .. MaxZeny : AddZeny(p, z)
  PROVE  LinkInv'
<1>1. here' = here /\ (TradeCancel(p) \/ UNCHANGED <<partner, trading, mixed>>)
  BY DEF Ok, Cancel, AddItem, AddZeny
<1> QED
  BY <1>1, CancelLinked, UnlinkedSteps

\* Whoever comes back had no partner and was nobody's partner.
LEMMA EnterLinked ==
  ASSUME LinkInv, NEW p \in Player, Enter(p)
  PROVE  LinkInv'
<1>1. LinkType'
  BY DEF Enter, LinkInv, LinkType
<1>2. ASSUME ~mixed PROVE Linked'
  <2>1. Linked /\ LinkType /\ p \notin here
    BY <1>2 DEF LinkInv, Enter
  <2>2. partner[p] = Nobody /\ ~trading[p]
    BY <2>1 DEF Linked, LinkType
  <2>3. partner' = partner /\ trading' = trading /\ here \subseteq here'
    BY <2>1, <2>2 DEF Enter, LinkType
  <2> QED
    BY <2>1, <2>3 DEF Linked
<1> QED
  BY <1>1, <1>2 DEF LinkInv, Enter

\* Whoever leaves ends his trade.
LEMMA LeaveLinked ==
  ASSUME LinkInv, NEW p \in Player, Leave(p)
  PROVE  LinkInv'
<1>1. CASE partner[p] # Nobody
  BY <1>1, CancelLinked DEF Leave
<1>2. CASE partner[p] = Nobody
  <2>1. here' = here \ {p} /\ UNCHANGED <<partner, trading, mixed>>
    BY <1>2 DEF Leave, window
  <2>2. ~mixed => \A x \in Player : partner[x] # p
    BY <1>2 DEF LinkInv, LinkType, Linked
  <2> QED
    BY <2>1, <2>2 DEF LinkInv, LinkType, Linked
<1> QED
  BY <1>1, <1>2

LEMMA TradeLinked ==
  ASSUME LinkInv, NEW p \in Player, Asks(p) \/ Ack(p) \/ InWindow(p) \/ AsksAgain(p)
  PROVE  LinkInv'
<1>1. CASE Asks(p) \/ AsksAgain(p)
  BY <1>1, AskLinked DEF Asks, AsksAgain
<1>2. CASE InWindow(p)
  BY <1>2, WindowLinked, CommitLinked DEF InWindow
<1> QED
  BY <1>1, <1>2, AckLinked

\* Unless somebody asks for a trade during one, whoever has the window open has it
\* open with a player who is there and has it open with him: no sequence of requests,
\* answers, cancels, exchanges and departures strands one side.
THEOREM MutualCorrect == Spec => []MutualUnlessMixed
<1>1. Init => LinkInv
  <2>1. ASSUME Init
        PROVE  LinkType /\ \A p \in Player : partner[p] = Nobody /\ ~trading[p]
    BY <2>1 DEF Init, LinkType
  <2> QED
    BY <2>1 DEF LinkInv, Linked
<1>2. LinkInv /\ [Next]_vars => LinkInv'
  <2>1. ASSUME LinkInv, UNCHANGED vars PROVE LinkInv'
    BY <2>1, UnlinkedSteps DEF vars, window
  <2>2. ASSUME LinkInv, NEW p \in Player, Asks(p) \/ Ack(p) \/ InWindow(p) \/ AsksAgain(p) \/ Leave(p)
        PROVE  LinkInv'
    BY <2>2, TradeLinked, LeaveLinked
  <2>3. ASSUME LinkInv, NEW p \in Player, Changes(p) PROVE LinkInv'
    BY <2>3, UnlinkedSteps DEF Changes, Loot, UseUp, Zeny, window
  <2> QED
    BY <2>1, <2>2, <2>3, EnterLinked DEF Next
<1>3. LinkInv => MutualUnlessMixed
  BY DEF LinkInv, LinkType, Linked, MutualUnlessMixed, Mutual
<1> QED
  BY <1>1, <1>2, <1>3, PTL DEF Spec


----------------------------------------------------------------------------
(* Types. *)

Table == [Player -> [Slot -> Item \cup {Nobody}]]

WindowType ==
  /\ locked \in [Player -> 0 .. 2]
  /\ deal = [p \in Player |-> deal[p]]
  /\ \A p \in Player : deal[p] \in Seq(Slot) /\ IsInjective(deal[p])
  /\ money \in [Player -> 0 .. MaxZeny]
  /\ seen = [p \in Player |-> seen[p]]
  /\ grown \subseteq Player /\ refilled \subseteq Player
  /\ \A p \in Player : partner[p] # p

GoodsType == inv \in Table /\ zeny \in [Player -> 0 .. MaxZeny]

TradeType == LinkInv /\ WindowType /\ GoodsType /\ events \in 0 .. MaxEvents

LEMMA Limits == MaxInventory \in Nat /\ OpenSlots \in Nat /\ MaxZeny \in Nat /\ Window \in Nat
                /\ MaxEvents \in Nat
OBVIOUS

LEMMA SetTwo ==
  ASSUME NEW V, NEW l \in [Player -> V], NEW p, NEW q, NEW v \in V
  PROVE  /\ [l EXCEPT ![p] = v, ![q] = v] \in [Player -> V]
         /\ \A x \in Player \ {p, q} : [l EXCEPT ![p] = v, ![q] = v][x] = l[x]
         /\ \A x \in Player \cap {p, q} : [l EXCEPT ![p] = v, ![q] = v][x] = v
OBVIOUS

LEMMA EmptyDeal == <<>> \in Seq(Slot) /\ IsInjective(<<>>)
BY DEF IsInjective

\* A slot that is not in the window yet can be added.
LEMMA AddedDeal ==
  ASSUME NEW d \in Seq(Slot), IsInjective(d), NEW s \in Slot, s \notin Range(d)
  PROVE  Append(d, s) \in Seq(Slot) /\ IsInjective(Append(d, s))
<1>1. Append(d, s) \in Seq(Slot) /\ DOMAIN Append(d, s) = 1 .. Len(d) + 1
  OBVIOUS
<1>2. \A k \in 1 .. Len(d) : Append(d, s)[k] = d[k] /\ d[k] # s
  BY DEF Range
<1>3. Append(d, s)[Len(d) + 1] = s
  OBVIOUS
<1>4. ASSUME NEW j \in 1 .. Len(d) + 1, NEW k \in 1 .. Len(d) + 1, Append(d, s)[j] = Append(d, s)[k]
      PROVE  j = k
  <2>1. j \in 1 .. Len(d) \/ j = Len(d) + 1
    OBVIOUS
  <2>2. k \in 1 .. Len(d) \/ k = Len(d) + 1
    OBVIOUS
  <2> QED
    BY <1>2, <1>3, <1>4, <2>1, <2>2 DEF IsInjective
<1> QED
  BY <1>1, <1>4 DEF IsInjective

LEMMA CancelWindow ==
  ASSUME LinkType, WindowType, NEW p \in Player, TradeCancel(p)
  PROVE  WindowType'
<1>1. \A x \in Player : partner'[x] \in {Nobody, partner[x]}
  BY DEF TradeCancel, Apart
<1>2. seen' = [x \in Player |-> seen'[x]] /\ grown' \subseteq Player /\ refilled' \subseteq Player
  BY DEF TradeCancel, Forget, WindowType
<1>3. CASE trading[p]
  <2>1. locked' \in [Player -> 0 .. 2]
    BY <1>3 DEF TradeCancel, WindowType
  <2>2. money' \in [Player -> 0 .. MaxZeny]
    BY <1>3, SMTT(30) DEF TradeCancel, WindowType
  <2>3. deal' = [x \in Player |-> deal'[x]] /\ \A x \in Player : deal'[x] \in {<<>>, deal[x]}
    BY <1>3 DEF TradeCancel
  <2> QED
    BY <1>1, <1>2, <2>1, <2>2, <2>3, EmptyDeal, ZenonT(60) DEF WindowType
<1>4. CASE ~trading[p]
  BY <1>1, <1>2, <1>4 DEF TradeCancel, WindowType
<1> QED
  BY <1>3, <1>4

LEMMA AskWindow ==
  ASSUME LinkType, WindowType, NEW p \in Player, NEW q \in Player, NEW near, Ask(p, q, near)
  PROVE  WindowType'
<1> DEFINE before == IF partner[p] # Nobody THEN Apart(Both(p)) ELSE partner
<1>1. before \in [Player -> Player \cup {Nobody}] /\ \A x \in Player : before[x] # x
  BY DEF LinkType, WindowType, Apart
<1>2. /\ p # q
      /\ partner' = IF before[q] = Nobody /\ near THEN [before EXCEPT ![q] = p, ![p] = q] ELSE before
      /\ UNCHANGED <<locked, deal, money, seen, grown, refilled>>
  BY DEF Ask
<1>3. \A x \in Player : partner'[x] # x
  <2> HIDE DEF before
  <2> QED
    BY <1>1, <1>2
<1> QED
  BY <1>2, <1>3 DEF WindowType

LEMMA AckWindow ==
  ASSUME LinkType, WindowType, NEW p \in Player, Ack(p)
  PROVE  WindowType'
<1> DEFINE q == partner[p]
<1>1. CASE Ackable(p, q) /\ Starts(p, q)
  <2>1. partner' = partner /\ q \in Player /\ UNCHANGED locked
    BY <1>1 DEF Starts, Ackable, LinkType
  <2>2. seen' = [x \in Player |-> seen'[x]] /\ grown' \subseteq Player /\ refilled' \subseteq Player
    BY <1>1 DEF Starts, Forget, WindowType
  <2>3. money' \in [Player -> 0 .. MaxZeny]
    <3>1. money \in [Player -> 0 .. MaxZeny] /\ 0 \in 0 .. MaxZeny
      BY Limits DEF WindowType
    <3> QED
      BY <1>1, <3>1, SetTwo DEF Starts
  <2>4. deal' = [x \in Player |-> deal'[x]] /\ \A x \in Player : deal'[x] \in {<<>>, deal[x]}
    BY <1>1 DEF Starts, WindowType
  <2> QED
    BY <2>1, <2>2, <2>3, <2>4, EmptyDeal DEF WindowType
<1>2. CASE /\ partner' \in {Apart({p, q}), Apart({p})}
           /\ locked' \in {locked, [locked EXCEPT ![p] = 0, ![q] = 0]}
           /\ UNCHANGED <<deal, money, seen, grown, refilled>>
  <2>1. \A x \in Player : partner'[x] \in {Nobody, partner[x]}
    BY <1>2 DEF Apart
  <2>2. locked \in [Player -> 0 .. 2] /\ 0 \in 0 .. 2
    BY DEF WindowType
  <2>3. locked' \in [Player -> 0 .. 2]
    BY <1>2, <2>2, SetTwo
  <2>4. \A x \in Player : partner'[x] # x
    BY <2>1 DEF WindowType
  <2>5. UNCHANGED <<deal, money, seen, grown, refilled>>
    BY <1>2
  <2> QED
    BY <2>3, <2>4, <2>5 DEF WindowType
<1> QED
  BY <1>1, <1>2 DEF Ack

LEMMA ExchangeWindow ==
  ASSUME LinkType, WindowType, NEW p \in Player, NEW q \in Player, Exchange(p, q)
  PROVE  WindowType'
<1>1. \A x \in Player : partner'[x] \in {Nobody, partner[x]}
  BY DEF Exchange, Apart
<1>2. seen' = [x \in Player |-> seen'[x]] /\ grown' \subseteq Player /\ refilled' \subseteq Player
  BY DEF Exchange, Forget, WindowType
<1>3. money' \in [Player -> 0 .. MaxZeny] /\ locked' \in [Player -> 0 .. 2]
  <2>1. /\ money \in [Player -> 0 .. MaxZeny] /\ 0 \in 0 .. MaxZeny
        /\ locked \in [Player -> 0 .. 2] /\ 0 \in 0 .. 2
    BY Limits DEF WindowType
  <2> QED
    BY <2>1, SetTwo DEF Exchange
<1>4. deal' = [x \in Player |-> deal'[x]] /\ \A x \in Player : deal'[x] \in {<<>>, deal[x]}
  <2>1. deal' = [deal EXCEPT ![p] = <<>>, ![q] = <<>>]
    BY DEF Exchange
  <2>2. deal = [x \in Player |-> deal[x]]
    BY DEF WindowType
  <2> QED
    BY <2>1, <2>2
<1>5. \A x \in Player : partner'[x] # x
  BY <1>1 DEF WindowType
<1> QED
  BY <1>2, <1>3, <1>4, <1>5, EmptyDeal DEF WindowType

LEMMA InWindowWindow ==
  ASSUME LinkType, WindowType, NEW p \in Player, InWindow(p)
  PROVE  WindowType'
<1>1. CASE TradeCancel(p)
  BY <1>1, CancelWindow
<1>2. ASSUME NEW s \in Slot, AddItem(p, s), ~TradeCancel(p) PROVE WindowType'
  <2>1. /\ s \notin Range(deal[p]) /\ deal' = [deal EXCEPT ![p] = Append(@, s)]
        /\ UNCHANGED <<partner, locked, money, seen, grown, refilled>>
    BY <1>2 DEF AddItem, Addable
  <2>2. deal' = [x \in Player |-> deal'[x]] /\ deal'[p] = Append(deal[p], s)
        /\ \A x \in Player \ {p} : deal'[x] = deal[x]
    BY <2>1 DEF WindowType
  <2>3. deal'[p] \in Seq(Slot) /\ IsInjective(deal'[p])
    BY <2>1, <2>2, AddedDeal DEF WindowType
  <2> QED
    BY <2>1, <2>2, <2>3 DEF WindowType
<1>3. ASSUME NEW z \in 0 .. MaxZeny, AddZeny(p, z), ~TradeCancel(p) PROVE WindowType'
  <2>1. money' = [money EXCEPT ![p] = z] /\ UNCHANGED <<partner, locked, deal, seen, grown, refilled>>
    BY <1>3 DEF AddZeny
  <2>2. money' \in [Player -> 0 .. MaxZeny]
    BY <2>1 DEF WindowType
  <2> QED
    BY <2>1, <2>2 DEF WindowType
<1>4. CASE Ok(p) /\ ~TradeCancel(p)
  <2>1. locked' = [locked EXCEPT ![p] = 1] /\ UNCHANGED <<partner, deal, money, seen, grown, refilled>>
    BY <1>4 DEF Ok
  <2>2. locked' \in [Player -> 0 .. 2]
    BY <2>1 DEF WindowType
  <2> QED
    BY <2>1, <2>2 DEF WindowType
<1>5. CASE Commit(p)
  <2> DEFINE q == partner[p]
  <2>1. Present(q) => q \in Player
    BY DEF Present, LinkType
  <2>2. CASE Present(q) /\ TradeCancel(IF Impossible(q) /\ ~Impossible(p) THEN q ELSE p)
    BY <2>1, <2>2, CancelWindow
  <2>3. CASE Present(q) /\ Exchange(p, q)
    BY <2>1, <2>3, ExchangeWindow
  <2>4. CASE /\ locked' = [locked EXCEPT ![p] = 2]
             /\ seen' = [seen EXCEPT ![p] = IF locked[q] > 0 THEN Side(q) ELSE Nobody]
             /\ UNCHANGED <<partner, deal, money, grown, refilled>>
    <3>1. locked' \in [Player -> 0 .. 2]
      BY <2>4 DEF WindowType
    <3>2. seen' = [x \in Player |-> seen'[x]]
      BY <2>4 DEF WindowType
    <3> QED
      BY <2>4, <3>1, <3>2 DEF WindowType
  <2> QED
    BY <1>1, <1>5, <2>2, <2>3, <2>4 DEF Commit
<1> QED
  BY <1>1, <1>2, <1>3, <1>4, <1>5 DEF InWindow, Cancel

LEMMA EnterWindow ==
  ASSUME LinkType, WindowType, NEW p \in Player, Enter(p)
  PROVE  WindowType'
<1>1. \A x \in Player : partner'[x] \in {Nobody, partner[x]}
  BY DEF Enter, LinkType
<1>2. money' \in [Player -> 0 .. MaxZeny] /\ locked' \in [Player -> 0 .. 2]
  BY Limits DEF Enter, WindowType
<1>3. deal' = [x \in Player |-> deal'[x]] /\ \A x \in Player : deal'[x] \in {<<>>, deal[x]}
  BY DEF Enter, WindowType
<1> QED
  BY <1>1, <1>2, <1>3, EmptyDeal DEF WindowType, Enter

LEMMA SameWindow ==
  ASSUME WindowType, UNCHANGED <<partner, locked, deal, money, seen>>, grown' \subseteq Player,
         refilled' \subseteq Player
  PROVE  WindowType'
BY DEF WindowType

----------------------------------------------------------------------------
(* Inventories and purses. *)

\* A lowest free slot.
LEMMA MinFact ==
  ASSUME NEW S \in SUBSET Nat, S # {}
  PROVE  Min(S) \in S /\ \A y \in S : Min(S) <= y
<1>1. PICK n \in S : \A m \in S : n <= m
  BY Least
<1> QED
  BY <1>1 DEF Min

LEMMA MinOfTwo ==
  ASSUME NEW a \in Nat, NEW b \in Nat
  PROVE  Min({a, b}) \in Nat /\ Min({a, b}) = IF a <= b THEN a ELSE b
<1>1. Min({a, b}) \in {a, b} /\ \A y \in {a, b} : Min({a, b}) <= y
  BY MinFact
<1> QED
  BY <1>1

\* Where pc_additem puts an item, if there is a free slot.
LEMMA FreePlace ==
  ASSUME NEW slots
  PROVE  /\ FirstFree(slots) \in 1 .. MaxInventory + 1
         /\ FirstFree(slots) <= OpenSlots
              => FirstFree(slots) \in Slot /\ slots[FirstFree(slots)] = Nobody
         /\ \A y \in FreeIn(slots) : FirstFree(slots) <= y
<1> DEFINE S == FreeIn(slots) \cup {MaxInventory + 1}
<1>1. S \in SUBSET Nat /\ S # {} /\ FreeIn(slots) \subseteq 1 .. MaxInventory
  BY Limits DEF FreeIn, Slot
<1>2. Min(S) \in S /\ \A y \in S : Min(S) <= y
  <2> HIDE DEF S
  <2> QED
    BY <1>1, MinFact
<1>3. FirstFree(slots) \in S /\ \A y \in S : FirstFree(slots) <= y
  BY <1>2 DEF FirstFree
<1>4. OpenSlots <= MaxInventory
  OBVIOUS
<1> QED
  BY <1>1, <1>3, <1>4, Limits DEF FreeIn, Slot

\* pc_additem and pc_delitem move an item into a free slot, or leave everything alone.
Moved(all, p, s, q, t) == [all EXCEPT ![q][t] = all[p][s], ![p][s] = Nobody]
Moves(all, one, p, q) ==
  \/ one = all
  \/ \E s, t \in Slot : all[q][t] = Nobody /\ one = Moved(all, p, s, q, t)

LEMMA GiveMoves ==
  ASSUME NEW all, NEW p, NEW q, NEW s \in Slot
  PROVE  Moves(all, Give(all, p, q, s), p, q)
<1> DEFINE t == FirstFree(all[q])
<1>1. t <= OpenSlots => t \in Slot /\ all[q][t] = Nobody
  BY FreePlace
<1>2. t \in 1 .. MaxInventory + 1
  BY FreePlace
<1>3. Give(all, p, q, s) = all \/ (t <= OpenSlots /\ Give(all, p, q, s) = Moved(all, p, s, q, t))
  <2> t \in Int /\ OpenSlots \in Int
    BY <1>2, Limits
  <2> HIDE DEF t
  <2> QED
    BY DEF Give, Moved, t
<1> HIDE DEF t
<1> QED
  BY <1>1, <1>3 DEF Moves

\* What moves is in one place before and after.
LEMMA MovedTo ==
  ASSUME NEW all \in Table, NEW p \in Player, NEW q \in Player \ {p}, NEW s \in Slot, NEW t \in Slot
  PROVE  LET one == Moved(all, p, s, q, t)
         IN  /\ one \in Table
             /\ one[q][t] = all[p][s] /\ one[p][s] = Nobody
             /\ \A x \in Slot \ {s} : one[p][x] = all[p][x]
             /\ \A x \in Slot \ {t} : one[q][x] = all[q][x]
             /\ \A x \in Player \ {p, q} : one[x] = all[x]
<1> DEFINE one == Moved(all, p, s, q, t)
           V == Item \cup {Nobody}
<1>1. all \in [Player -> [Slot -> V]] /\ all[p] \in [Slot -> V] /\ all[q] \in [Slot -> V] /\ all[p][s] \in V
  BY DEF Table
<1>2. one = [all EXCEPT ![q] = [all[q] EXCEPT ![t] = all[p][s]], ![p] = [all[p] EXCEPT ![s] = Nobody]]
  BY <1>1 DEF Moved
<1>3. [all[q] EXCEPT ![t] = all[p][s]] \in [Slot -> V] /\ [all[p] EXCEPT ![s] = Nobody] \in [Slot -> V]
  BY <1>1
<1>4. one \in [Player -> [Slot -> V]]
  <2> HIDE DEF V, one
  <2> QED
    BY <1>1, <1>2, <1>3
<1>5. one[q] = [all[q] EXCEPT ![t] = all[p][s]] /\ one[p] = [all[p] EXCEPT ![s] = Nobody]
      /\ \A x \in Player \ {p, q} : one[x] = all[x]
  <2> HIDE DEF V, one
  <2> QED
    BY <1>1, <1>2
<1>6. one[q][t] = all[p][s] /\ one[p][s] = Nobody
  <2> HIDE DEF V, one
  <2> QED
    BY <1>1, <1>5
<1>7. (\A x \in Slot \ {s} : one[p][x] = all[p][x]) /\ (\A x \in Slot \ {t} : one[q][x] = all[q][x])
  <2> HIDE DEF V, one
  <2> QED
    BY <1>1, <1>5
<1> HIDE DEF one
<1> QED
  BY <1>4, <1>5, <1>6, <1>7 DEF Table, one

LEMMA MovedTable ==
  ASSUME NEW all \in Table, NEW p \in Player, NEW q \in Player \ {p}, NEW one, Moves(all, one, p, q)
  PROVE  one \in Table /\ \A x \in Player \ {p, q} : one[x] = all[x]
BY MovedTo, SMTT(30) DEF Moves

At(all, i) == {at \in Player \X Slot : all[at[1]][at[2]] = i}

LEMMA AtFinite ==
  ASSUME NEW all, NEW i
  PROVE  IsFiniteSet(At(all, i))
<1>1. IsFiniteSet(Player) /\ IsFiniteSet(Slot)
  BY FS_Interval, Limits DEF Slot
<1>2. IsFiniteSet(Player \X Slot)
  BY <1>1, FS_Product
<1> QED
  BY <1>2, FS_Subset DEF At

LEMMA MovedAt ==
  ASSUME NEW all \in Table, NEW p \in Player, NEW q \in Player \ {p}, NEW one, Moves(all, one, p, q),
         NEW i \in Item
  PROVE  Cardinality(At(one, i)) = Cardinality(At(all, i))
<1>1. CASE one = all
  BY <1>1
<1>2. ASSUME NEW s \in Slot, NEW t \in Slot, all[q][t] = Nobody,
             one = Moved(all, p, s, q, t)
      PROVE  Cardinality(At(one, i)) = Cardinality(At(all, i))
  <2>1. /\ one[q][t] = all[p][s] /\ one[p][s] = Nobody
        /\ \A at \in Player \X Slot : at # <<p, s>> /\ at # <<q, t>> => one[at[1]][at[2]] = all[at[1]][at[2]]
    <3>1. /\ one[q][t] = all[p][s] /\ one[p][s] = Nobody
          /\ \A x \in Slot \ {s} : one[p][x] = all[p][x]
          /\ \A x \in Slot \ {t} : one[q][x] = all[q][x]
          /\ \A x \in Player \ {p, q} : one[x] = all[x]
      BY <1>2, MovedTo
    <3> QED
      BY <3>1
  <2>2. i # Nobody
    OBVIOUS
  <2>3. CASE all[p][s] = i
    <3>1. At(one, i) = (At(all, i) \ {<<p, s>>}) \cup {<<q, t>>}
      BY <1>2, <2>1, <2>2, <2>3 DEF At
    <3>2. <<p, s>> \in At(all, i) /\ <<q, t>> \notin At(all, i) \ {<<p, s>>}
      BY <1>2, <2>2, <2>3 DEF At
    <3> DEFINE rest == At(all, i) \ {<<p, s>>}
    <3>3. IsFiniteSet(rest) /\ Cardinality(rest) = Cardinality(At(all, i)) - 1
      BY <3>2, AtFinite, FS_RemoveElement
    <3>4. Cardinality(rest \cup {<<q, t>>}) = Cardinality(rest) + 1
      BY <3>2, <3>3, FS_AddElement
    <3>5. Cardinality(At(all, i)) \in Nat
      BY AtFinite, FS_CardinalityType
    <3> HIDE DEF rest
    <3>6. At(one, i) = rest \cup {<<q, t>>}
      BY <3>1 DEF rest
    <3> QED
      BY <3>3, <3>4, <3>5, <3>6
  <2>4. CASE all[p][s] # i
    <3>1. At(one, i) = At(all, i)
      BY <1>2, <2>1, <2>2, <2>4 DEF At
    <3> QED
      BY <3>1
  <2> QED
    BY <2>3, <2>4
<1> QED
  BY <1>1, <1>2 DEF Moves

\* What the exchange between p and q keeps: the inventories of the others, and the
\* number of places an item has.
Kept(p, q) == {all \in Table : /\ \A x \in Player \ {p, q} : all[x] = inv[x]
                               /\ \A i \in Item : Cardinality(At(all, i)) = Cardinality(At(inv, i))}

LEMMA MovedKept ==
  ASSUME NEW p \in Player, NEW q \in Player \ {p}, NEW all \in Kept(p, q), NEW one,
         Moves(all, one, p, q) \/ Moves(all, one, q, p)
  PROVE  one \in Kept(p, q)
<1>1. all \in Table
  BY DEF Kept
<1>2. one \in Table /\ \A x \in Player \ {p, q} : one[x] = all[x]
  BY <1>1, MovedTable
<1>3. \A i \in Item : Cardinality(At(one, i)) = Cardinality(At(all, i))
  BY <1>1, MovedAt
<1> QED
  BY <1>2, <1>3 DEF Kept

LEMMA SwapKept ==
  ASSUME WindowType, NEW p \in Player, NEW q \in Player \ {p}, NEW all \in Kept(p, q), NEW k
  PROVE  Swap(all, p, q, k) \in Kept(p, q)
<1> DEFINE mine == IF k \in DOMAIN deal[p] THEN Give(all, p, q, deal[p][k]) ELSE all
<1>1. (k \in DOMAIN deal[p] => deal[p][k] \in Slot) /\ (k \in DOMAIN deal[q] => deal[q][k] \in Slot)
  BY DEF WindowType
<1>2. mine \in Kept(p, q)
  BY <1>1, GiveMoves, MovedKept
<1>3. ASSUME k \in DOMAIN deal[q] PROVE Give(mine, q, p, deal[q][k]) \in Kept(p, q)
  <2> HIDE DEF mine
  <2>1. Moves(mine, Give(mine, q, p, deal[q][k]), q, p)
    BY <1>1, <1>3, GiveMoves
  <2> QED
    BY <1>2, <2>1, MovedKept
<1> QED
  BY <1>2, <1>3 DEF Swap

\* The inventories after each position of the window.
Positions(after, p, q) ==
  /\ after[0] = inv
  /\ \A k \in 1 .. Window : after[k] = Swap(after[k - 1], p, q, k)

LEMMA SwappedIs ==
  ASSUME WindowType, inv \in Table, NEW p \in Player, NEW q \in Player \ {p}
  PROVE  \E after : Positions(after, p, q) /\ Swapped(p, q) = after[Window]
<1> DEFINE Is(f) == f = [k \in 0 .. Window |-> IF k = 0 THEN inv ELSE Swap(f[k - 1], p, q, k)]
           it == CHOOSE f : Is(f)
           S == Kept(p, q)
           G == [pair \in S \X (1 .. Window) |-> Swap(pair[1], p, q, pair[2])]
<1>1. inv \in S
  BY DEF Kept
<1>2. G \in [S \X (1 .. Window) -> S]
  BY SwapKept
<1>3. \A x \in S, k \in 1 .. Window : G[<<x, k>>] = Swap(x, p, q, k)
  OBVIOUS
<1> HIDE DEF S, G
<1>4. PICK f \in [0 .. Window -> S] : Runs(f, inv, Window, G)
  BY <1>1, <1>2, Repeated, Limits
<1>5. ASSUME NEW k \in 0 .. Window, k # 0 PROVE f[k] = Swap(f[k - 1], p, q, k)
  <2>1. k - 1 \in 0 .. Window /\ k \in 1 .. Window
    BY <1>5, Limits
  <2>2. f[k - 1] \in S
    BY <2>1
  <2> QED
    BY <1>3, <1>4, <1>5, <2>1, <2>2 DEF Runs
<1>6. \A k \in 0 .. Window : f[k] = IF k = 0 THEN inv ELSE Swap(f[k - 1], p, q, k)
  BY <1>4, <1>5 DEF Runs
<1>7. Is(f)
  BY <1>6
<1>8. Is(it)
  BY <1>7
<1>9. Swapped(p, q) = it[Window]
  BY DEF Swapped
<1> HIDE DEF it
<1>10. Positions(it, p, q)
  <2>1. it[0] = inv
    BY <1>8, Limits
  <2>2. ASSUME NEW k \in 1 .. Window PROVE it[k] = Swap(it[k - 1], p, q, k)
    <3>1. k \in 0 .. Window /\ k # 0
      BY Limits
    <3> QED
      BY <1>8, <3>1
  <2> QED
    BY <2>1, <2>2 DEF Positions
<1> QED
  BY <1>9, <1>10

LEMMA SwappedKept ==
  ASSUME WindowType, inv \in Table, NEW p \in Player, NEW q \in Player \ {p}
  PROVE  Swapped(p, q) \in Kept(p, q)
<1>1. PICK after : Positions(after, p, q) /\ Swapped(p, q) = after[Window]
  BY SwappedIs
<1> DEFINE D == {k \in Nat : k <= Window => after[k] \in Kept(p, q)}
<1>2. 0 \in D
  BY <1>1 DEF Positions, Kept
<1>3. ASSUME NEW k \in Nat, k \in D PROVE k + 1 \in D
  <2>1. CASE k + 1 <= Window
    <3>1. k + 1 \in 1 .. Window /\ (k + 1) - 1 = k /\ k <= Window
      BY <2>1, Limits
    <3>2. after[k + 1] = Swap(after[k], p, q, k + 1)
      BY <1>1, <3>1 DEF Positions
    <3>3. after[k] \in Kept(p, q)
      BY <1>3, <3>1
    <3>4. after[k + 1] \in Kept(p, q)
      BY <3>2, <3>3, SwapKept
    <3> QED
      BY <3>4
  <2> QED
    BY <2>1
<1>4. Window \in D
  <2> HIDE DEF D
  <2> QED
    BY <1>2, <1>3, Limits, Induction
<1>5. after[Window] \in Kept(p, q)
  BY <1>4, Limits
<1> QED
  BY <1>1, <1>5

Purse == [Player -> 0 .. MaxZeny]

\* pc_payzeny and pc_getzeny keep a purse between nothing and MAX_ZENY; what the
\* payer has and the other can take is what changes hands.
LEMMA PayFacts ==
  ASSUME NEW purse \in Purse, NEW p \in Player, NEW q \in Player \ {p}, NEW z \in 0 .. MaxZeny
  PROVE  /\ Pay(purse, p, q, z) \in Purse
         /\ purse[p] >= z /\ purse[q] + z <= MaxZeny
              => /\ Pay(purse, p, q, z)[p] = purse[p] - z
                 /\ Pay(purse, p, q, z)[q] = purse[q] + z
                 /\ \A x \in Player \ {p, q} : Pay(purse, p, q, z)[x] = purse[x]
<1>1. purse[p] \in 0 .. MaxZeny /\ purse[q] \in 0 .. MaxZeny /\ MaxZeny \in Nat
  BY Limits DEF Purse
<1> DEFINE top == Min({MaxZeny, purse[q] + z})
<1>2. top \in 0 .. MaxZeny /\ (purse[q] + z <= MaxZeny => top = purse[q] + z)
  <2>1. purse[q] + z \in Nat
    BY <1>1
  <2>2. Min({MaxZeny, purse[q] + z}) \in Nat
        /\ Min({MaxZeny, purse[q] + z}) = IF MaxZeny <= purse[q] + z THEN MaxZeny ELSE purse[q] + z
    BY <1>1, <2>1, MinOfTwo
  <2> QED
    BY <1>1, <2>1, <2>2
<1>3. CASE purse[p] < z
  <2>1. Pay(purse, p, q, z) = [purse EXCEPT ![q] = top]
    BY <1>3 DEF Pay
  <2> HIDE DEF top
  <2>2. Pay(purse, p, q, z) \in Purse
    BY <1>2, <2>1 DEF Purse
  <2>3. ~(purse[p] >= z)
    BY <1>1, <1>3
  <2> QED
    BY <2>2, <2>3
<1>4. CASE ~(purse[p] < z)
  <2>1. Pay(purse, p, q, z) = [purse EXCEPT ![p] = purse[p] - z, ![q] = top]
    BY <1>4 DEF Pay, Purse
  <2>2. purse[p] - z \in 0 .. MaxZeny
    BY <1>1, <1>4
  <2> HIDE DEF top
  <2>3. Pay(purse, p, q, z) \in Purse
    BY <1>2, <2>1, <2>2 DEF Purse
  <2>4. /\ Pay(purse, p, q, z)[p] = purse[p] - z /\ Pay(purse, p, q, z)[q] = top
        /\ \A x \in Player \ {p, q} : Pay(purse, p, q, z)[x] = purse[x]
    BY <2>1 DEF Purse
  <2> QED
    BY <1>2, <2>3, <2>4
<1> QED
  BY <1>3, <1>4

\* An exchange that is possible makes and destroys no zeny.
LEMMA PaysOut ==
  ASSUME WindowType, GoodsType, NEW p \in Player, NEW q \in Player \ {p}
  PROVE  /\ Pay(Pay(zeny, p, q, money[p]), q, p, money[q]) \in Purse
         /\ Possible(p, q)
              => AddUp(Pay(Pay(zeny, p, q, money[p]), q, p, money[q]), Player) = AddUp(zeny, Player)
<1> DEFINE a == money[p]
           b == money[q]
           one == Pay(zeny, p, q, a)
           two == Pay(one, q, p, b)
<1>1. /\ zeny \in Purse /\ a \in 0 .. MaxZeny /\ b \in 0 .. MaxZeny
      /\ q \in Player /\ p \in Player \ {q}
  BY DEF WindowType, GoodsType, Purse
<1>2. one \in Purse
  BY <1>1, PayFacts
<1>3. two \in Purse
  <2> HIDE DEF one, a, b
  <2> QED
    BY <1>1, <1>2, PayFacts
<1>4. ASSUME Possible(p, q) PROVE AddUp(two, Player) = AddUp(zeny, Player)
  <2>1. /\ ~(a > zeny[p]) /\ ~(b > zeny[q])
        /\ zeny[q] <= MaxZeny - a /\ zeny[p] <= MaxZeny - b
    BY <1>4 DEF Possible, Impossible, Fits
  <2>2. zeny[p] \in 0 .. MaxZeny /\ zeny[q] \in 0 .. MaxZeny /\ MaxZeny \in Nat
    BY Limits DEF GoodsType
  <2>3. zeny[p] >= a /\ zeny[q] + a <= MaxZeny
    BY <1>1, <2>1, <2>2
  <2>4. /\ one[p] = zeny[p] - a /\ one[q] = zeny[q] + a
        /\ \A x \in Player \ {p, q} : one[x] = zeny[x]
    <3> HIDE DEF a
    <3> QED
      BY <1>1, <2>3, PayFacts
  <2>5. one[q] >= b /\ one[p] + b <= MaxZeny
    <3> HIDE DEF one, a, b
    <3> QED
      BY <1>1, <2>1, <2>2, <2>4
  <2>6. /\ two[q] = one[q] - b /\ two[p] = one[p] + b
        /\ \A x \in Player \ {p, q} : two[x] = one[x]
    <3> HIDE DEF one, a, b
    <3> QED
      BY <1>1, <1>2, <2>5, PayFacts
  <2>7. two[p] + two[q] = zeny[p] + zeny[q]
    <3> HIDE DEF two, one, a, b
    <3> QED
      BY <1>1, <2>2, <2>4, <2>6
  <2>8. \A x \in Player \ {p, q} : two[x] = zeny[x]
    BY <2>4, <2>6
  <2>9. two \in [Player -> Int] /\ zeny \in [Player -> Int]
    <3> HIDE DEF two
    <3> QED
      BY <1>1, <1>3, Limits DEF Purse
  <2>10. IsFiniteSet(Player)
    OBVIOUS
  <2> HIDE DEF two
  <2> QED
    BY <2>7, <2>8, <2>9, <2>10, AddUpMoved
<1> QED
  BY <1>3, <1>4

LEMMA TotalIs == Total = AddUp(zeny, Player)
BY DEF Total, AddUp, MapThenSumSet, MapThenFoldSet

LEMMA TotalNext == Total' = AddUp(zeny', Player)
BY DEF Total, AddUp, MapThenSumSet, MapThenFoldSet

LEMMA SameTotal ==
  ASSUME zeny' = zeny \/ AddUp(zeny', Player) = AddUp(zeny, Player)
  PROVE  Total' = Total
BY TotalIs, TotalNext

\* The button Trade keeps the goods what they are, and how many there are.
LEMMA CommitGoods ==
  ASSUME LinkType, WindowType, GoodsType, NEW p \in Player, Commit(p)
  PROVE  /\ GoodsType'
         /\ Total' = Total
         /\ \A i \in Item : Cardinality(Holders(i)') = Cardinality(Holders(i))
<1> DEFINE q == partner[p]
<1>1. CASE UNCHANGED goods
  <2>1. Total' = Total
    BY <1>1, SameTotal DEF goods
  <2> QED
    BY <1>1, <2>1 DEF goods, GoodsType, Holders
<1>2. ASSUME Present(q), Possible(p, q), Exchange(p, q)
      PROVE  /\ GoodsType'
             /\ Total' = Total
             /\ \A i \in Item : Cardinality(Holders(i)') = Cardinality(Holders(i))
  <2>1. q \in Player \ {p}
    BY <1>2 DEF Present, LinkType, WindowType
  <2>2. inv' \in Kept(p, q)
    <3>1. inv \in Table
      BY DEF GoodsType
    <3>2. inv' = Swapped(p, q)
      BY <1>2 DEF Exchange
    <3> QED
      BY <2>1, <3>1, <3>2, SwappedKept
  <2>3. zeny' \in Purse /\ AddUp(zeny', Player) = AddUp(zeny, Player)
    <3>1. zeny' = Pay(Pay(zeny, p, q, money[p]), q, p, money[q])
      BY <1>2 DEF Exchange
    <3> QED
      BY <1>2, <2>1, <3>1, PaysOut
  <2>4. GoodsType'
    BY <2>2, <2>3 DEF GoodsType, Kept, Purse
  <2>5. Total' = Total
    BY <2>3, SameTotal
  <2>6. \A i \in Item : Cardinality(Holders(i)') = Cardinality(Holders(i))
    BY <2>2 DEF Kept, Holders, At
  <2> QED
    BY <2>4, <2>5, <2>6
<1> QED
  BY <1>1, <1>2 DEF Commit

\* Loot, using up and spending keep the types.
LEMMA ChangesGoods ==
  ASSUME GoodsType, WindowType, NEW p \in Player, Changes(p)
  PROVE  GoodsType' /\ WindowType'
<1>1. UNCHANGED <<partner, locked, deal, money, seen>> /\ grown' \subseteq Player /\ refilled' \subseteq Player
  BY DEF Changes, Loot, Gets, UseUp, Zeny, window, WindowType
<1>2. WindowType'
  BY <1>1, SameWindow
<1>3. ASSUME NEW slots \in [Slot -> Item \cup {Nobody}], inv' = [inv EXCEPT ![p] = slots]
      PROVE  inv' \in Table
  BY <1>3 DEF GoodsType, Table
<1>4. inv[p] \in [Slot -> Item \cup {Nobody}]
  BY DEF GoodsType, Table
<1>5. ASSUME NEW i \in Item, Loot(p, i) PROVE GoodsType'
  <2>1. inv' = [inv EXCEPT ![p] = [inv[p] EXCEPT ![FirstFree(inv[p])] = i]] /\ zeny' = zeny
    BY <1>5 DEF Loot
  <2>2. [inv[p] EXCEPT ![FirstFree(inv[p])] = i] \in [Slot -> Item \cup {Nobody}]
    BY <1>4
  <2> QED
    BY <1>3, <2>1, <2>2 DEF GoodsType
<1>6. ASSUME NEW s \in Slot, UseUp(p, s) PROVE GoodsType'
  <2>1. inv' = [inv EXCEPT ![p] = [inv[p] EXCEPT ![s] = Nobody]] /\ zeny' = zeny
    BY <1>6 DEF UseUp
  <2>2. [inv[p] EXCEPT ![s] = Nobody] \in [Slot -> Item \cup {Nobody}]
    BY <1>4
  <2> QED
    BY <1>3, <2>1, <2>2 DEF GoodsType
<1>7. ASSUME NEW z \in 0 .. MaxZeny, Zeny(p, z) PROVE GoodsType'
  BY <1>7 DEF Zeny, GoodsType
<1> QED
  BY <1>2, <1>5, <1>6, <1>7 DEF Changes

\* What a player does outside the exchange leaves the goods alone.
LEMMA OtherGoods ==
  ASSUME NEW p \in Player, \/ Asks(p) \/ Ack(p) \/ Enter(p) \/ AsksAgain(p) \/ Leave(p)
                           \/ InWindow(p) /\ ~Commit(p)
  PROVE  UNCHANGED goods
BY DEF Asks, AsksAgain, Ask, Ack, Enter, Leave, InWindow, Ok, Cancel, AddItem, AddZeny

LEMMA NextTypes ==
  ASSUME LinkInv, WindowType, GoodsType, NEW p \in Player,
         \/ Asks(p) \/ Ack(p) \/ Enter(p) \/ AsksAgain(p) \/ Leave(p) \/ InWindow(p) \/ Changes(p)
  PROVE  WindowType' /\ GoodsType'
<1>1. LinkType
  BY DEF LinkInv
<1>2. CASE Changes(p)
  BY <1>2, ChangesGoods
<1>3. CASE InWindow(p)
  <2>1. WindowType'
    BY <1>1, <1>3, InWindowWindow
  <2>2. CASE Commit(p)
    BY <1>1, <2>1, <2>2, CommitGoods
  <2>3. CASE ~Commit(p)
    BY <1>3, <2>1, <2>3, OtherGoods DEF GoodsType, goods
  <2> QED
    BY <2>2, <2>3
<1>4. CASE Asks(p) \/ Ack(p) \/ Enter(p) \/ AsksAgain(p) \/ Leave(p)
  <2>1. GoodsType'
    BY <1>4, OtherGoods DEF GoodsType, goods
  <2>2. CASE Asks(p) \/ AsksAgain(p)
    BY <1>1, <2>1, <2>2, AskWindow DEF Asks, AsksAgain
  <2>3. CASE Leave(p)
    <3>1. CASE TradeCancel(p)
      BY <1>1, <2>1, <3>1, CancelWindow
    <3>2. CASE UNCHANGED window
      BY <2>1, <3>2, SameWindow DEF window, WindowType
    <3> QED
      BY <2>3, <3>1, <3>2 DEF Leave
  <2> QED
    BY <1>1, <1>4, <2>1, <2>2, <2>3, AckWindow, EnterWindow
<1> QED
  BY <1>2, <1>3, <1>4

\* Whoever has which items at first.
LEMMA PlacedType ==
  ASSUME Placed
  PROVE  inv \in Table
BY DEF Placed, Table

LEMMA TypesStart ==
  ASSUME Init
  PROVE  TradeType
<1>1. LinkType /\ \A p \in Player : partner[p] = Nobody /\ ~trading[p]
  BY DEF Init, LinkType
<1>2. WindowType
  BY EmptyDeal, Limits DEF Init, WindowType
<1>3. GoodsType
  BY PlacedType, Limits DEF Init, GoodsType
<1>4. events \in 0 .. MaxEvents
  BY Limits DEF Init
<1> QED
  BY <1>1, <1>2, <1>3, <1>4 DEF TradeType, LinkInv, Linked

LEMMA TypesNext ==
  ASSUME TradeType, [Next]_vars
  PROVE  TradeType'
<1>1. LinkInv /\ WindowType /\ GoodsType /\ events \in 0 .. MaxEvents
  BY DEF TradeType
<1>2. CASE UNCHANGED vars
  BY <1>1, <1>2, UnlinkedSteps, SameWindow DEF TradeType, vars, window, goods, GoodsType, WindowType
<1>3. ASSUME NEW p \in Player,
             \/ (Asks(p) \/ Ack(p) \/ InWindow(p) \/ Enter(p)) /\ UNCHANGED events
             \/ events < MaxEvents /\ events' = events + 1 /\ (Changes(p) \/ Leave(p))
             \/ events' = MaxEvents /\ AsksAgain(p)
      PROVE  TradeType'
  <2>1. WindowType' /\ GoodsType'
    BY <1>1, <1>3, NextTypes
  <2>2. events' \in 0 .. MaxEvents
    BY <1>1, <1>3, Limits
  <2>3. LinkInv'
    <3>1. CASE Changes(p)
      BY <1>1, <3>1, UnlinkedSteps DEF Changes, Loot, UseUp, Zeny, window
    <3> QED
      BY <1>1, <1>3, <3>1, TradeLinked, LeaveLinked, EnterLinked
  <2> QED
    BY <2>1, <2>2, <2>3 DEF TradeType
<1> QED
  BY <1>2, <1>3 DEF Next

\* Every table keeps its type: no slot comes twice into a window, nobody's purse runs
\* over or below nothing, and the exchange puts items in slots there are.
THEOREM TradeTypeCorrect == Spec => []TypeOK
<1>1. TradeType => TypeOK
  BY DEF TradeType, LinkInv, LinkType, WindowType, GoodsType, Table, TypeOK
<1> QED
  BY <1>1, TypesStart, TypesNext, PTL DEF Spec

\* The button Trade neither makes nor destroys an item or a zeny, whoever trades with
\* whom and whatever has changed since the window was filled: for any number of
\* players, items, slots and positions of the window.
THEOREM ConservedCorrect == Spec => Conserved
<1>1. TradeType /\ [Next]_vars
        => [Closes /\ Committing => /\ Total' = Total
                   /\ \A i \in Item : Cardinality(Holders(i)') = Cardinality(Holders(i))]_vars
  BY CommitGoods DEF TradeType, LinkInv, Committing
<1> QED
  BY <1>1, TypesStart, TypesNext, PTL DEF Spec, Conserved

\* Slots that hold something.
Used(slots) == {s \in Slot : slots[s] # Nobody}

LEMMA WeightIs ==
  ASSUME NEW slots
  PROVE  /\ IsFiniteSet(Used(slots))
         /\ Weight(slots) \in Nat /\ Weight(slots) = Cardinality(Used(slots))
         /\ Cardinality(FreeIn(slots)) = MaxInventory - Weight(slots)
<1>1. IsFiniteSet(Slot) /\ Cardinality(Slot) = MaxInventory
  BY FS_Interval, Limits DEF Slot
<1>2. /\ IsFiniteSet(Used(slots)) /\ IsFiniteSet(FreeIn(slots))
      /\ Used(slots) \cup FreeIn(slots) = Slot /\ Used(slots) \cap FreeIn(slots) = {}
  BY <1>1, FS_Subset DEF Used, FreeIn
<1>3. Cardinality(Slot) = Cardinality(Used(slots)) + Cardinality(FreeIn(slots)) - Cardinality({})
  BY <1>2, FS_Union
<1>4. Cardinality({}) = 0 /\ Cardinality(Used(slots)) \in Nat /\ Cardinality(FreeIn(slots)) \in Nat
  BY <1>2, FS_EmptySet, FS_CardinalityType
<1>5. Weight(slots) = Cardinality(Used(slots))
  BY DEF Weight, Used
<1> QED
  BY <1>1, <1>2, <1>3, <1>4, <1>5, Limits

\* Filling a slot adds at most one; emptying one adds nothing.
LEMMA WeightStep ==
  ASSUME NEW old, NEW new, NEW t, \A s \in Slot : s # t /\ new[s] # Nobody => old[s] # Nobody
  PROVE  /\ Weight(new) <= Weight(old) + 1
         /\ (t \in Slot => new[t] = Nobody) => Weight(new) <= Weight(old)
<1>1. Used(new) \subseteq Used(old) \cup {t}
  BY DEF Used
<1>2. IsFiniteSet(Used(old) \cup {t})
      /\ Cardinality(Used(old) \cup {t}) \in {Weight(old), Weight(old) + 1}
  BY WeightIs, FS_AddElement
<1>3. Weight(new) <= Cardinality(Used(old) \cup {t})
  BY <1>1, <1>2, WeightIs, FS_Subset
<1>4. ASSUME t \in Slot => new[t] = Nobody PROVE Weight(new) <= Weight(old)
  <2>1. Used(new) \subseteq Used(old)
    BY <1>4 DEF Used
  <2> QED
    BY <2>1, WeightIs, FS_Subset
<1> QED
  BY <1>2, <1>3, <1>4, WeightIs

----------------------------------------------------------------------------
(* What was seen, and what can be carried. *)

\* The partner of p has pressed Trade when p had locked his side: he saw the side of p
\* that there is still, except for items that p has used up since.
Looked(p) ==
  LET q == partner[p]
  IN  /\ locked[p] > 0
      /\ seen[q] = [items |-> seen[q].items, zeny |-> money[p]]
      /\ p \notin refilled =>
           \E F \in [DOMAIN deal[p] -> Item \cup {Nobody}] :
             /\ seen[q].items = {F[k] : k \in DOMAIN deal[p]}
             /\ \A k \in DOMAIN deal[p] : inv[p][deal[p][k]] \in {F[k], Nobody}

\* Who has got nothing can still carry what is in the window for him.
Fitting(p) ==
  LET q == partner[p]
  IN  q \notin grown /\ Len(deal[p]) > 0 => Weight(inv[q]) + Len(deal[p]) <= MaxWeight[q]

Pressed ==
  \A p \in Player :
    /\ locked[p] > 0 => trading[p]
    /\ trading[p] => Fitting(p)
    /\ trading[p] /\ seen[partner[p]] # Nobody => Looked(p)

SeenInv == ~mixed => Pressed

\* A step that does not touch the trade of x: he and his partner may use items up, or
\* get some, which is remembered.
Shrinks(x) == x \notin grown' => x \notin grown /\ \A s \in Slot : inv'[x][s] \in {inv[x][s], Nobody}
Steady(x)  ==
  x \notin refilled' =>
    /\ x \notin refilled
    /\ \A k \in DOMAIN deal[x] : inv'[x][deal[x][k]] \in {inv[x][deal[x][k]], Nobody}
Untouched(x) ==
  /\ trading'[x] = trading[x] /\ partner'[x] = partner[x]
  /\ locked[x] > 0 => locked'[x] > 0
  /\ deal'[x] = deal[x] /\ money'[x] = money[x]
  /\ seen'[partner[x]] = seen[partner[x]]
  /\ Steady(x) /\ Shrinks(partner[x])

\* What keeps an inventory keeps it from growing.
LEMMA SameShrinks ==
  ASSUME NEW x, inv'[x] = inv[x], x \notin grown' => x \notin grown, x \notin refilled' => x \notin refilled
  PROVE  Shrinks(x) /\ Steady(x)
BY DEF Shrinks, Steady

LEMMA FittingStays ==
  ASSUME WindowType, NEW x \in Player, partner[x] \in Player, partner'[x] = partner[x],
         deal'[x] = deal[x], Shrinks(partner[x]), Fitting(x)
  PROVE  Fitting(x)'
<1> DEFINE q == partner[x]
<1>1. ASSUME q \notin grown', Len(deal[x]) > 0
      PROVE  Weight(inv'[q]) + Len(deal[x]) <= MaxWeight[q]
  <2>1. q \notin grown /\ \A s \in Slot : inv'[q][s] \in {inv[q][s], Nobody}
    BY <1>1 DEF Shrinks
  <2>2. Weight(inv'[q]) <= Weight(inv[q])
    <3>1. \A s \in Slot : s # 0 /\ inv'[q][s] # Nobody => inv[q][s] # Nobody
      BY <2>1
    <3>2. 0 \notin Slot
      BY Limits DEF Slot
    <3> QED
      BY <3>1, <3>2, WeightStep
  <2>3. Weight(inv[q]) + Len(deal[x]) <= MaxWeight[q]
    BY <1>1, <2>1 DEF Fitting
  <2>4. Len(deal[x]) \in Nat /\ Weight(inv[q]) \in Nat /\ Weight(inv'[q]) \in Nat /\ MaxWeight[q] \in Nat
    BY WeightIs DEF WindowType
  <2> QED
    BY <2>2, <2>3, <2>4
<1> QED
  BY <1>1 DEF Fitting

LEMMA EmptyFits ==
  ASSUME NEW x, deal'[x] = <<>>
  PROVE  Fitting(x)'
BY DEF Fitting

LEMMA LookedStays ==
  ASSUME NEW x \in Player, Untouched(x), Looked(x)
  PROVE  Looked(x)'
<1>1. partner'[x] = partner[x] /\ locked'[x] > 0 /\ deal'[x] = deal[x] /\ money'[x] = money[x]
      /\ seen'[partner[x]] = seen[partner[x]]
  BY DEF Untouched, Looked
<1>2. seen[partner[x]] = [items |-> seen[partner[x]].items, zeny |-> money[x]]
  BY DEF Looked
<1>3. ASSUME x \notin refilled'
      PROVE  \E F \in [DOMAIN deal[x] -> Item \cup {Nobody}] :
               /\ seen[partner[x]].items = {F[k] : k \in DOMAIN deal[x]}
               /\ \A k \in DOMAIN deal[x] : inv'[x][deal[x][k]] \in {F[k], Nobody}
  <2>1. x \notin refilled
        /\ \A k \in DOMAIN deal[x] : inv'[x][deal[x][k]] \in {inv[x][deal[x][k]], Nobody}
    BY <1>3 DEF Untouched, Steady
  <2>2. PICK F \in [DOMAIN deal[x] -> Item \cup {Nobody}] :
             /\ seen[partner[x]].items = {F[k] : k \in DOMAIN deal[x]}
             /\ \A k \in DOMAIN deal[x] : inv[x][deal[x][k]] \in {F[k], Nobody}
    BY <2>1 DEF Looked
  <2>3. \A k \in DOMAIN deal[x] : inv'[x][deal[x][k]] \in {F[k], Nobody}
    BY <2>1, <2>2
  <2> QED
    BY <2>2, <2>3
<1> QED
  BY <1>1, <1>2, <1>3 DEF Looked

\* A step keeps Pressed if it leaves everybody's trade alone, ends it, leaves it to a
\* partner who has seen nothing, or is the press itself.
LEMMA PressedStays ==
  ASSUME LinkType, Linked, WindowType, Pressed,
         \A x \in Player : \/ ~trading'[x] /\ locked'[x] = 0
                           \/ /\ trading'[x] /\ Fitting(x)'
                              /\ seen'[partner'[x]] = Nobody \/ Looked(x)'
                           \/ trading[x] /\ Untouched(x)
  PROVE  Pressed'
<1>1. ASSUME NEW x \in Player
      PROVE  /\ locked'[x] > 0 => trading'[x]
             /\ trading'[x] => Fitting(x)'
             /\ trading'[x] /\ seen'[partner'[x]] # Nobody => Looked(x)'
  <2>1. CASE ~trading'[x] /\ locked'[x] = 0
    BY <2>1
  <2>2. CASE trading'[x] /\ Fitting(x)' /\ (seen'[partner'[x]] = Nobody \/ Looked(x)')
    BY <2>2
  <2>3. CASE trading[x] /\ Untouched(x)
    <3>1. trading'[x] = trading[x] /\ seen'[partner[x]] = seen[partner[x]]
          /\ partner'[x] = partner[x] /\ deal'[x] = deal[x] /\ Shrinks(partner[x])
      BY <2>3 DEF Untouched
    <3>2. Fitting(x)'
      BY <2>3, <3>1, FittingStays DEF Pressed, Linked, LinkType
    <3>3. CASE seen[partner[x]] # Nobody
      BY <2>3, <3>1, <3>2, <3>3, LookedStays DEF Pressed
    <3>4. CASE seen[partner[x]] = Nobody
      BY <2>3, <3>1, <3>2, <3>4 DEF Pressed
    <3> QED
      BY <3>3, <3>4
  <2> QED
    BY <2>1, <2>2, <2>3
<1> QED
  BY <1>1 DEF Pressed

\* Those whose trade, or request, ends are out of it; nobody else is touched.
LEMMA CancelPressed ==
  ASSUME LinkType, Linked, WindowType, Pressed, NEW p \in Player, TradeCancel(p), UNCHANGED inv
  PROVE  Pressed'
<1>1. p \in Both(p) /\ Both(p) \subseteq Player
  BY DEF Both, Present, LinkType
<1>2. \A x \in Player : partner'[x] = IF x \in Both(p) THEN Nobody ELSE partner[x]
  BY DEF TradeCancel, Apart
<1>3. \A x \in Player \ Both(p) : partner[x] # Nobody => partner[x] \in Player \ Both(p)
  BY DEF Both, Present, Linked, LinkType
<1>4. \A x \in Player \ Both(p) : /\ seen'[x] = seen[x]
                                  /\ Shrinks(x) /\ Steady(x)
  BY SameShrinks DEF TradeCancel, Forget
<1>5. \A x \in Both(p) : trading[x] = trading[p]
  BY DEF Both, Present, Linked, LinkType
<1>6. \A x \in Player : x \in Both(p) => ~trading'[x] /\ locked'[x] = 0
  <2>1. CASE trading[p]
    BY <2>1 DEF TradeCancel, Ended
  <2>2. CASE ~trading[p]
    <3>1. \A x \in Both(p) : locked[x] = 0
      <4>1. \A x \in Both(p) : x \in Player /\ ~trading[x]
        BY <1>1, <1>5, <2>2
      <4>2. \A x \in Player : ~trading[x] => ~(locked[x] > 0)
        BY DEF Pressed
      <4>3. \A x \in Player : locked[x] \in 0 .. 2
        BY DEF WindowType
      <4> QED
        BY <4>1, <4>2, <4>3
    <3> QED
      BY <1>1, <1>5, <2>2, <3>1 DEF TradeCancel
  <2> QED
    BY <2>1, <2>2
<1>7. \A x \in Player \ Both(p) : trading'[x] = trading[x] /\ locked'[x] = locked[x]
                                  /\ deal'[x] = deal[x] /\ money'[x] = money[x]
  BY SMTT(30) DEF TradeCancel, Ended, LinkType
<1>8. ASSUME NEW x \in Player \ Both(p), trading[x] PROVE Untouched(x)
  <2>1. partner[x] \in Player \ Both(p)
    BY <1>3, <1>8 DEF Linked
  <2> QED
    BY <1>2, <1>4, <1>7, <2>1 DEF Untouched
<1>9. ASSUME NEW x \in Player \ Both(p), ~trading[x] PROVE ~trading'[x] /\ locked'[x] = 0
  <2>1. ~(locked[x] > 0) /\ locked[x] \in 0 .. 2
    BY <1>9 DEF Pressed, WindowType
  <2> QED
    BY <1>7, <1>9, <2>1
<1> QED
  BY <1>6, <1>8, <1>9, PressedStays

\* Whoever trades with nobody has locked nothing; partners trade together.
LEMMA IdleSides ==
  ASSUME LinkType, Linked, WindowType, Pressed, NEW x \in Player
  PROVE  /\ ~trading[x] => locked[x] = 0
         /\ partner[x] # Nobody => /\ partner[x] \in Player \ {x} /\ partner[partner[x]] = x
                                   /\ trading[partner[x]] <=> trading[x]
         /\ trading[x] => partner[x] # Nobody
<1>1. locked[x] \in 0 .. 2 /\ (locked[x] > 0 => trading[x])
  BY DEF WindowType, Pressed
<1>2. partner[x] # Nobody => partner[x] \in Player \ {x} /\ partner[partner[x]] = x
  BY DEF LinkType, Linked, WindowType
<1> QED
  BY <1>1, <1>2 DEF Linked

\* A request unlinks, and links, only who has no window open.
LEMMA AskPressed ==
  ASSUME LinkType, Linked, WindowType, Pressed, NEW p \in Player, NEW q \in Player, NEW near,
         Ask(p, q, near), ~trading[p]
  PROVE  Pressed'
<1> DEFINE before == IF partner[p] # Nobody THEN Apart(Both(p)) ELSE partner
<1>1. /\ UNCHANGED <<trading, locked, deal, money, seen, grown, refilled, inv>>
      /\ partner' = IF before[q] = Nobody /\ near THEN [before EXCEPT ![q] = p, ![p] = q] ELSE before
  BY DEF Ask, goods
<1>2. before \in [Player -> Player \cup {Nobody}]
  BY DEF LinkType, Apart
<1>3. ASSUME NEW x \in Player, trading[x] PROVE x # p /\ before[x] = partner[x] /\ partner[x] # Nobody
  <2>1. x # p /\ partner[x] # Nobody /\ (partner[p] # Nobody => x # partner[p])
    BY <1>3, IdleSides
  <2>2. partner[p] # Nobody => Both(p) \subseteq {p, partner[p]}
    BY DEF Both
  <2> QED
    BY <2>1, <2>2 DEF Apart
<1>4. ASSUME NEW x \in Player, trading[x] PROVE Untouched(x)
  <2>1. partner'[x] = partner[x]
    <3>1. before[x] # Nobody
      BY <1>3, <1>4
    <3>2. before[q] = Nobody => x # q
      BY <3>1
    <3> HIDE DEF before
    <3> QED
      BY <1>1, <1>2, <1>3, <1>4, <3>2
  <2>2. \A y : Shrinks(y) /\ Steady(y)
    BY <1>1 DEF Shrinks, Steady
  <2> QED
    BY <1>1, <2>1, <2>2 DEF Untouched
<1>5. \A x \in Player : ~trading[x] => ~trading'[x] /\ locked'[x] = 0
  BY <1>1, IdleSides
<1> QED
  BY <1>4, <1>5, PressedStays

\* An answer opens the window for two who have locked nothing, or unlinks who has none.
LEMMA AckPressed ==
  ASSUME LinkType, Linked, WindowType, Pressed, NEW p \in Player, Ack(p)
  PROVE  Pressed'
<1> DEFINE q == partner[p]
<1>1. ~trading[p] /\ q # Nobody /\ q \in Player \ {p} /\ ~trading[q] /\ locked[p] = 0 /\ locked[q] = 0
      /\ partner[q] = p /\ UNCHANGED inv
  BY IdleSides DEF Ack, goods
<1>2. \A x \in Player \ {p, q} : partner[x] # Nobody => partner[x] \in Player \ {p, q}
  BY <1>1, IdleSides
<1>3. CASE Ackable(p, q) /\ Starts(p, q)
  <2>1. /\ \A x \in {p, q} : trading'[x] /\ locked'[x] = 0 /\ partner'[x] \in {p, q}
        /\ \A x \in Player \ {p, q} :
             /\ trading'[x] = trading[x] /\ deal'[x] = deal[x] /\ money'[x] = money[x]
             /\ seen'[x] = seen[x] /\ (x \notin grown' => x \notin grown)
             /\ (x \notin refilled' => x \notin refilled)
        /\ \A x \in {p, q} : seen'[x] = Nobody
        /\ partner' = partner /\ locked' = locked
    <3>1. /\ partner' = partner /\ locked' = locked
          /\ trading' = [trading EXCEPT ![p] = TRUE, ![q] = TRUE]
          /\ deal' = [deal EXCEPT ![p] = <<>>, ![q] = <<>>]
          /\ money' = [money EXCEPT ![p] = 0, ![q] = 0]
      BY <1>3 DEF Starts
    <3>2. /\ \A x \in Player \ {p, q} : /\ seen'[x] = seen[x] /\ (x \notin grown' => x \notin grown)
                                        /\ (x \notin refilled' => x \notin refilled)
          /\ \A x \in {p, q} : seen'[x] = Nobody
      BY <1>1, <1>3 DEF Starts, Forget
    <3>3. \A x \in Player \ {p, q} : trading'[x] = trading[x] /\ deal'[x] = deal[x] /\ money'[x] = money[x]
      BY <3>1 DEF LinkType, WindowType
    <3>4. \A x \in {p, q} : trading'[x]
      BY <1>1, <3>1 DEF LinkType
    <3> QED
      BY <1>1, <3>1, <3>2, <3>3, <3>4
  <2>2. \A x \in {p, q} : trading'[x] /\ Fitting(x)' /\ seen'[partner'[x]] = Nobody
    <3>1. \A x \in {p, q} : deal'[x] = <<>>
      BY <1>1, <1>3 DEF Starts, WindowType
    <3> QED
      BY <2>1, <3>1, EmptyFits
  <2>3. ASSUME NEW x \in Player \ {p, q}, trading[x] PROVE Untouched(x)
    <3>1. partner[x] \in Player \ {p, q}
      BY <1>2, <2>3, IdleSides
    <3>2. Steady(x) /\ Shrinks(partner[x])
      BY <1>1, <2>1, <3>1, SameShrinks
    <3> QED
      BY <1>1, <2>1, <3>1, <3>2 DEF Untouched
  <2>4. \A x \in Player \ {p, q} : ~trading[x] => ~trading'[x] /\ locked'[x] = 0
    BY <2>1, IdleSides
  <2> QED
    BY <2>2, <2>3, <2>4, PressedStays
<1>4. CASE /\ partner' \in {Apart({p, q}), Apart({p})}
           /\ locked' \in {locked, [locked EXCEPT ![p] = 0, ![q] = 0]}
           /\ UNCHANGED <<trading, deal, money, seen, grown, refilled>>
  <2>1. \A x \in Player : locked'[x] = locked[x]
    BY <1>1, <1>4 DEF WindowType
  <2>2. \A x \in Player \ {p, q} : partner'[x] = partner[x]
    BY <1>4 DEF Apart
  <2>3. ASSUME NEW x \in Player, trading[x] PROVE Untouched(x)
    <3>1. x \in Player \ {p, q} /\ partner[x] \in Player
      BY <1>1, <2>3, IdleSides
    <3>2. \A y : Shrinks(y) /\ Steady(y)
      BY <1>1, <1>4 DEF Shrinks, Steady
    <3> QED
      BY <1>1, <1>4, <2>1, <2>2, <3>1, <3>2 DEF Untouched
  <2>4. \A x \in Player : ~trading[x] => ~trading'[x] /\ locked'[x] = 0
    BY <1>4, <2>1, IdleSides
  <2> QED
    BY <2>3, <2>4, PressedStays
<1> QED
  BY <1>3, <1>4 DEF Ack

\* The window changes only while its owner has not locked it, so his partner has not
\* pressed Trade.
LEMMA FillPressed ==
  ASSUME LinkType, Linked, WindowType, Pressed, NEW p \in Player, MayChange(p),
         UNCHANGED <<partner, trading, seen, grown, refilled, inv>>,
         locked' \in {locked, [locked EXCEPT ![p] = 1]},
         \A x \in Player \ {p} : deal'[x] = deal[x] /\ money'[x] = money[x],
         Fitting(p)'
  PROVE  Pressed'
<1> DEFINE q == partner[p]
<1>1. trading[p] /\ locked[p] = 0 /\ q \in Player \ {p} /\ partner[q] = p /\ trading[q]
  BY IdleSides DEF MayChange
<1>2. seen[q] = Nobody
  <2>1. Looked(p) => locked[p] > 0
    BY DEF Looked
  <2>2. trading[p] /\ seen[q] # Nobody => Looked(p)
    BY DEF Pressed
  <2> QED
    BY <1>1, <2>1, <2>2
<1>3. \A x \in Player \ {p} : locked'[x] = locked[x]
  BY DEF WindowType
<1>4. trading'[p] /\ seen'[partner'[p]] = Nobody
  BY <1>1, <1>2
<1>5. \A y : Shrinks(y) /\ Steady(y)
  BY DEF Shrinks, Steady
<1>6. ASSUME NEW x \in Player \ {p}, trading[x] PROVE Untouched(x)
  BY <1>3, <1>5, <1>6 DEF Untouched
<1>7. \A x \in Player \ {p} : ~trading[x] => ~trading'[x] /\ locked'[x] = 0
  BY <1>3, IdleSides
<1> QED
  BY <1>4, <1>6, <1>7, PressedStays

\* Trade is pressed: if the other has locked his side, what is seen is what there is.
LEMMA LookPressed ==
  ASSUME LinkType, Linked, WindowType, GoodsType, Pressed, NEW p \in Player, trading[p],
         locked' = [locked EXCEPT ![p] = 2],
         seen' = [seen EXCEPT ![p] = IF locked[partner[p]] > 0 THEN Side(partner[p]) ELSE Nobody],
         UNCHANGED <<here, partner, trading, deal, money, grown, refilled, inv>>
  PROVE  Pressed'
<1> DEFINE q == partner[p]
<1>1. q \in Player \ {p} /\ partner[q] = p /\ trading[q] /\ Present(q)
  BY IdleSides DEF Linked, Present
<1>2. /\ locked'[p] = 2 /\ seen'[p] = IF locked[q] > 0 THEN Side(q) ELSE Nobody
      /\ \A x \in Player \ {p} : locked'[x] = locked[x] /\ seen'[x] = seen[x]
  BY DEF WindowType
<1>3. \A y : Shrinks(y) /\ Steady(y)
  BY DEF Shrinks, Steady
<1>4. Fitting(q)'
  BY <1>1, <1>3, FittingStays DEF Pressed
<1>5. ASSUME locked[q] > 0 PROVE Looked(q)'
  <2>1. locked'[q] > 0
    BY <1>1, <1>2, <1>5
  <2>2. seen'[p] = [items |-> seen'[p].items, zeny |-> money[q]]
    BY <1>2, <1>5 DEF Side
  <2> DEFINE F == [k \in DOMAIN deal[q] |-> inv[q][deal[q][k]]]
  <2>3. F \in [DOMAIN deal[q] -> Item \cup {Nobody}]
    <3>1. \A k \in DOMAIN deal[q] : deal[q][k] \in Slot
      BY <1>1 DEF WindowType
    <3>2. \A s \in Slot : inv[q][s] \in Item \cup {Nobody}
      BY <1>1 DEF GoodsType, Table
    <3> QED
      BY <3>1, <3>2
  <2>4. seen'[p].items = {F[k] : k \in DOMAIN deal[q]}
    <3>1. seen'[p].items = Offer(q)
      BY <1>2, <1>5 DEF Side
    <3>2. \A k \in DOMAIN deal[q] : F[k] = inv[q][deal[q][k]]
      OBVIOUS
    <3> HIDE DEF F
    <3> QED
      BY <3>1, <3>2 DEF Offer
  <2>5. \A k \in DOMAIN deal[q] : inv[q][deal[q][k]] \in {F[k], Nobody}
    OBVIOUS
  <2> HIDE DEF F
  <2>6. \E G \in [DOMAIN deal[q] -> Item \cup {Nobody}] :
          /\ seen'[p].items = {G[k] : k \in DOMAIN deal[q]}
          /\ \A k \in DOMAIN deal[q] : inv[q][deal[q][k]] \in {G[k], Nobody}
    BY <2>3, <2>4, <2>5
  <2> QED
    BY <1>1, <2>1, <2>2, <2>6 DEF Looked
<1>6. trading'[q] /\ Fitting(q)' /\ (seen'[partner'[q]] = Nobody \/ Looked(q)')
  BY <1>1, <1>2, <1>4, <1>5
<1>7. ASSUME NEW x \in Player \ {q}, trading[x] PROVE Untouched(x)
  <2>1. partner[x] \in Player \ {p} /\ locked[x] \in 0 .. 2
    BY <1>1, <1>7, IdleSides DEF WindowType
  <2> QED
    BY <1>2, <1>7, <1>3, <2>1 DEF Untouched
<1>8. \A x \in Player \ {q} : ~trading[x] => ~trading'[x] /\ locked'[x] = 0
  BY <1>2, IdleSides
<1> QED
  BY <1>6, <1>7, <1>8, PressedStays

\* The exchange ends the trade of two, and no other inventory changes.
LEMMA ExchangePressed ==
  ASSUME LinkType, Linked, WindowType, GoodsType, Pressed, NEW p \in Player, trading[p],
         Exchange(p, partner[p])
  PROVE  Pressed'
<1> DEFINE q == partner[p]
<1>1. q \in Player \ {p} /\ partner[q] = p /\ trading[q]
  BY IdleSides
<1>2. \A x \in Player \ {p, q} : inv'[x] = inv[x]
  <2>1. inv' = Swapped(p, q)
    BY DEF Exchange
  <2>2. Swapped(p, q) \in Kept(p, q)
    BY <1>1, SwappedKept DEF GoodsType
  <2> QED
    BY <2>1, <2>2 DEF Kept
<1>3. /\ partner' = Apart({p, q})
      /\ trading' = [trading EXCEPT ![p] = FALSE, ![q] = FALSE]
      /\ locked' = [locked EXCEPT ![p] = 0, ![q] = 0]
      /\ deal' = [deal EXCEPT ![p] = <<>>, ![q] = <<>>]
      /\ money' = [money EXCEPT ![p] = 0, ![q] = 0]
  BY DEF Exchange
<1>4. \A x \in Player \ {p, q} : /\ seen'[x] = seen[x] /\ (x \notin grown' => x \notin grown)
                                 /\ (x \notin refilled' => x \notin refilled)
  BY DEF Exchange, Forget
<1>5. \A x \in Player \ {p, q} : /\ partner'[x] = partner[x] /\ trading'[x] = trading[x]
                                 /\ locked'[x] = locked[x] /\ deal'[x] = deal[x] /\ money'[x] = money[x]
  BY <1>3 DEF Apart, LinkType, WindowType
<1>6. \A x \in {p, q} : ~trading'[x] /\ locked'[x] = 0
  BY <1>1, <1>3 DEF LinkType, WindowType
<1>7. ASSUME NEW x \in Player \ {p, q}, trading[x] PROVE Untouched(x)
  <2>1. partner[x] \in Player \ {p, q}
    BY <1>1, <1>7, IdleSides
  <2>2. Steady(x) /\ Shrinks(partner[x])
    BY <1>2, <1>4, <1>7, <2>1, SameShrinks
  <2> QED
    BY <1>2, <1>4, <1>5, <2>1, <2>2 DEF Untouched
<1>8. \A x \in Player \ {p, q} : ~trading[x] => ~trading'[x] /\ locked'[x] = 0
  BY <1>5, IdleSides
<1> QED
  BY <1>6, <1>7, <1>8, PressedStays

LEMMA InWindowPressed ==
  ASSUME LinkType, Linked, WindowType, GoodsType, Pressed, NEW p \in Player, InWindow(p)
  PROVE  Pressed'
<1>1. CASE TradeCancel(p) /\ UNCHANGED inv
  BY <1>1, CancelPressed
<1>2. ASSUME NEW s \in Slot, AddItem(p, s) PROVE Pressed'
  <2>1. CASE TradeCancel(p)
    BY <1>1, <1>2, <2>1 DEF AddItem, goods
  <2>2. CASE ~TradeCancel(p)
    <3>1. /\ MayChange(p) /\ UNCHANGED <<partner, trading, locked, money, seen, grown, refilled, inv>>
          /\ deal' = [deal EXCEPT ![p] = Append(@, s)]
      BY <1>2, <2>2 DEF AddItem, goods
    <3>2. \A x \in Player \ {p} : deal'[x] = deal[x] /\ money'[x] = money[x]
      BY <3>1 DEF WindowType
    <3>3. Fitting(p)'
      <4>1. Present(partner[p]) /\ ~TooHeavy(p)
        BY <1>2, <2>2 DEF AddItem
      <4>2. partner[p] \in Player /\ deal[p] \in Seq(Slot) /\ deal'[p] = Append(deal[p], s)
        BY <3>1, <4>1 DEF Present, LinkType, WindowType
      <4>3. Len(deal'[p]) = Len(deal[p]) + 1 /\ Len(deal[p]) \in Nat
        BY <4>2
      <4>4. Weight(inv[partner[p]]) \in Nat /\ MaxWeight[partner[p]] \in Nat
        BY <4>2, WeightIs
      <4>5. ~(Weight(inv[partner[p]]) + Len(deal[p]) + 1 > MaxWeight[partner[p]])
        BY <4>1 DEF TooHeavy
      <4>6. Weight(inv[partner[p]]) + Len(deal'[p]) <= MaxWeight[partner[p]]
        BY <4>3, <4>4, <4>5
      <4> QED
        BY <3>1, <4>6 DEF Fitting
    <3> QED
      BY <3>1, <3>2, <3>3, FillPressed
  <2> QED
    BY <2>1, <2>2
<1>3. ASSUME NEW z \in 0 .. MaxZeny, AddZeny(p, z) PROVE Pressed'
  <2>1. CASE TradeCancel(p)
    BY <1>1, <1>3, <2>1 DEF AddZeny, goods
  <2>2. CASE ~TradeCancel(p)
    <3>1. /\ MayChange(p) /\ UNCHANGED <<partner, trading, locked, deal, seen, grown, refilled, inv>>
          /\ money' = [money EXCEPT ![p] = z]
      BY <1>3, <2>2 DEF AddZeny, goods
    <3>2. \A x \in Player \ {p} : deal'[x] = deal[x] /\ money'[x] = money[x]
      BY <3>1 DEF WindowType
    <3>3. Fitting(p)'
      BY <3>1 DEF Fitting, Pressed, MayChange
    <3> QED
      BY <3>1, <3>2, <3>3, FillPressed
  <2> QED
    BY <2>1, <2>2
<1>4. CASE Ok(p)
  <2>1. CASE TradeCancel(p)
    BY <1>1, <1>4, <2>1 DEF Ok, goods
  <2>2. CASE ~TradeCancel(p)
    <3>1. /\ MayChange(p) /\ UNCHANGED <<partner, trading, deal, money, seen, grown, refilled, inv>>
          /\ locked' = [locked EXCEPT ![p] = 1]
      BY <1>4, <2>2 DEF Ok, goods, MayChange
    <3>2. Fitting(p)'
      BY <3>1 DEF Fitting, Pressed, MayChange
    <3> QED
      BY <3>1, <3>2, FillPressed
  <2> QED
    BY <2>1, <2>2
<1>5. CASE Cancel(p)
  BY <1>1, <1>5 DEF Cancel, goods
<1>6. CASE Commit(p)
  <2> DEFINE q == partner[p]
  <2>1. Present(q) => q \in Player
    BY DEF Present, LinkType
  <2>2. CASE Present(q) /\ TradeCancel(IF Impossible(q) /\ ~Impossible(p) THEN q ELSE p) /\ UNCHANGED goods
    BY <2>1, <2>2, CancelPressed DEF goods
  <2>3. CASE Exchange(p, q)
    BY <1>6, <2>3, ExchangePressed DEF Commit
  <2>4. CASE /\ Present(q) /\ locked' = [locked EXCEPT ![p] = 2]
             /\ seen' = [seen EXCEPT ![p] = IF locked[q] > 0 THEN Side(q) ELSE Nobody]
             /\ UNCHANGED <<partner, trading, deal, money, grown, refilled, mixed, goods>>
    BY <1>6, <2>4, LookPressed DEF Commit, goods
  <2>5. CASE TradeCancel(p) /\ UNCHANGED goods
    BY <1>1, <2>5 DEF goods
  <2> QED
    BY <1>6, <2>2, <2>3, <2>4, <2>5 DEF Commit
<1> QED
  BY <1>2, <1>3, <1>4, <1>5, <1>6 DEF InWindow

\* Items that are used up and zeny are nobody's window; an item that comes during a
\* trade is remembered.
LEMMA ChangesPressed ==
  ASSUME LinkType, Linked, WindowType, GoodsType, Pressed, NEW p \in Player, Changes(p)
  PROVE  Pressed'
<1>1. UNCHANGED <<partner, trading, locked, deal, money, seen>>
  BY DEF Changes, Loot, UseUp, Zeny, window
<1>2. \A x \in Player : ~trading[x] => ~trading'[x] /\ locked'[x] = 0
  BY <1>1, IdleSides
<1>3. ASSUME NEW x \in Player, trading[x] PROVE Shrinks(x) /\ Steady(x)
  <2>1. ASSUME NEW i \in Item, Loot(p, i) PROVE Shrinks(x) /\ Steady(x)
    <3>1. Gets(p) /\ inv' = [inv EXCEPT ![p][FirstFree(inv[p])] = i]
      BY <2>1 DEF Loot
    <3>2. CASE x # p
      <4>1. inv'[x] = inv[x] /\ (x \notin grown' => x \notin grown)
            /\ (x \notin refilled' => x \notin refilled)
        BY <3>1, <3>2 DEF Gets, GoodsType, Table
      <4> QED
        BY <4>1, SameShrinks
    <3>3. CASE x = p
      <4> DEFINE t == FirstFree(inv[p])
      <4>1. x \in grown'
        BY <1>3, <3>1, <3>3 DEF Gets
      <4>2. t \in Slot /\ inv[p][t] = Nobody
        BY <2>1, FreePlace DEF Loot
      <4> HIDE DEF t
      <4>3. \A s \in Slot \ {t} : inv'[p][s] = inv[p][s]
        BY <3>1 DEF GoodsType, Table, t
      <4>4. ASSUME x \notin refilled', NEW k \in DOMAIN deal[x]
            PROVE  inv'[x][deal[x][k]] \in {inv[x][deal[x][k]], Nobody}
        <5>1. ~Refills(p)
          BY <3>1, <3>3, <4>4 DEF Gets
        <5>2. inv[p][deal[p][k]] = Nobody => inv'[p][deal[p][k]] = Nobody
          BY <1>3, <3>3, <4>4, <5>1 DEF Refills
        <5>3. deal[p][k] \in Slot
          BY <3>3, <4>4 DEF WindowType
        <5> QED
          BY <3>3, <4>2, <4>3, <5>2, <5>3
      <4>5. x \notin refilled' => x \notin refilled
        BY <3>1, <3>3 DEF Gets
      <4> QED
        BY <4>1, <4>4, <4>5 DEF Shrinks, Steady
    <3> QED
      BY <3>2, <3>3
  <2>2. ASSUME NEW s \in Slot, UseUp(p, s) PROVE Shrinks(x) /\ Steady(x)
    <3>1. inv' = [inv EXCEPT ![p][s] = Nobody] /\ grown' = grown /\ refilled' = refilled
      BY <2>2 DEF UseUp, window
    <3>2. \A t \in Slot : inv'[x][t] \in {inv[x][t], Nobody}
      BY <3>1 DEF GoodsType, Table
    <3>3. \A k \in DOMAIN deal[x] : deal[x][k] \in Slot
      BY DEF WindowType
    <3> QED
      BY <3>1, <3>2, <3>3 DEF Shrinks, Steady
  <2>3. ASSUME NEW z \in 0 .. MaxZeny, Zeny(p, z) PROVE Shrinks(x) /\ Steady(x)
    BY <2>3, SameShrinks DEF Zeny, window
  <2> QED
    BY <2>1, <2>2, <2>3 DEF Changes
<1>4. ASSUME NEW x \in Player, trading[x] PROVE Untouched(x)
  <2>1. partner[x] \in Player /\ trading[partner[x]]
    BY <1>4, IdleSides
  <2>2. Steady(x) /\ Shrinks(partner[x])
    BY <1>3, <1>4, <2>1
  <2> QED
    BY <1>1, <2>2 DEF Untouched
<1> QED
  BY <1>2, <1>4, PressedStays

\* Who leaves ends his trade; who comes back has none.
LEMMA MovesPressed ==
  ASSUME LinkType, Linked, WindowType, GoodsType, Pressed, NEW p \in Player, Leave(p) \/ Enter(p)
  PROVE  Pressed'
<1>1. CASE TradeCancel(p) /\ UNCHANGED inv
  BY <1>1, CancelPressed
<1>2. CASE UNCHANGED <<window, inv>>
  <2>1. \A x \in Player : ~trading[x] => ~trading'[x] /\ locked'[x] = 0
    BY <1>2, IdleSides DEF window
  <2>2. \A x \in Player : trading[x] => Untouched(x)
    BY <1>2 DEF Untouched, Shrinks, Steady, window
  <2> QED
    BY <2>1, <2>2, PressedStays
<1>3. CASE Enter(p)
  <2>1. ~trading[p] /\ partner[p] = Nobody /\ UNCHANGED <<seen, grown, refilled, inv>>
    BY <1>3 DEF Enter, Linked, LinkType, goods
  <2>2. \A x \in Player : trading[x] => x # p /\ partner[x] # p
    BY <2>1, IdleSides
  <2>3. \A x \in Player \ {p} : /\ partner'[x] = partner[x] /\ trading'[x] = trading[x]
                                /\ locked'[x] = locked[x] /\ deal'[x] = deal[x] /\ money'[x] = money[x]
    BY <1>3 DEF Enter, LinkType, WindowType
  <2>4. ~trading'[p] /\ locked'[p] = 0
    BY <1>3 DEF Enter, LinkType, WindowType
  <2>5. \A x \in Player \ {p} : ~trading[x] => ~trading'[x] /\ locked'[x] = 0
    BY <2>3, IdleSides
  <2>6. ASSUME NEW x \in Player \ {p}, trading[x] PROVE Untouched(x)
    <3>1. partner[x] \in Player \ {p}
      BY <2>2, <2>6, IdleSides
    <3> QED
      BY <2>1, <2>3, <3>1 DEF Untouched, Shrinks, Steady
  <2> QED
    BY <2>4, <2>5, <2>6, PressedStays
<1> QED
  BY <1>1, <1>2, <1>3 DEF Leave, goods

LEMMA SeenNext ==
  ASSUME TradeType, SeenInv, [Next]_vars
  PROVE  SeenInv'
<1> SUFFICES ASSUME ~mixed' PROVE Pressed'
  BY DEF SeenInv
<1>1. LinkType /\ mixed \in BOOLEAN /\ (~mixed => Linked) /\ WindowType /\ GoodsType
  BY DEF TradeType, LinkInv, LinkType
<1>2. CASE UNCHANGED vars
  <2>1. Linked /\ Pressed
    BY <1>1, <1>2 DEF SeenInv, vars, window
  <2>2. \A x \in Player : ~trading[x] => ~trading'[x] /\ locked'[x] = 0
    BY <1>1, <1>2, <2>1, IdleSides DEF vars, window
  <2>3. \A x \in Player : trading[x] => Untouched(x)
    BY <1>2 DEF Untouched, Shrinks, Steady, vars, window, goods
  <2> QED
    BY <1>1, <2>1, <2>2, <2>3, PressedStays
<1>3. ASSUME NEW p \in Player,
             Asks(p) \/ Ack(p) \/ InWindow(p) \/ Enter(p) \/ Changes(p) \/ AsksAgain(p) \/ Leave(p)
      PROVE  Pressed'
  <2>1. CASE Asks(p) \/ AsksAgain(p)
    <3>1. PICK q \in Player, near \in BOOLEAN : Ask(p, q, near)
      BY <2>1 DEF Asks, AsksAgain
    <3>2. ~mixed /\ ~trading[p]
      BY <3>1 DEF Ask
    <3> QED
      BY <1>1, <3>1, <3>2, AskPressed DEF SeenInv
  <2>2. CASE Ack(p) \/ InWindow(p) \/ Enter(p) \/ Changes(p) \/ Leave(p)
    <3>1. mixed' = mixed
      <4>1. CASE Ack(p) \/ Enter(p) \/ Changes(p) \/ Leave(p)
        BY <4>1 DEF Ack, Starts, Enter, Changes, Loot, UseUp, Zeny, Leave, TradeCancel, window
      <4>2. CASE InWindow(p)
        BY <4>2 DEF InWindow, Ok, Cancel, Commit, AddItem, AddZeny, Exchange, TradeCancel
      <4> QED
        BY <2>2, <4>1, <4>2
    <3>2. Linked /\ Pressed
      BY <1>1, <3>1 DEF SeenInv
    <3> QED
      BY <1>1, <2>2, <3>2, AckPressed, InWindowPressed, ChangesPressed, MovesPressed
  <2> QED
    BY <1>3, <2>1, <2>2
<1> QED
  BY <1>2, <1>3 DEF Next

\* When the exchange takes place, what a side gives is what the first to press Trade saw
\* of it, if that side was locked when he pressed: unless an item came into a slot of its
\* window that had been used up (or somebody asked for a trade during one).
THEOREM AsSeenCorrect == Spec => AsSeen
<1>1. Init => SeenInv
  <2>1. ASSUME Init PROVE \A x \in Player : locked[x] = 0 /\ ~trading[x]
    BY <2>1 DEF Init
  <2> QED
    BY <2>1 DEF SeenInv, Pressed, Fitting
<1>2. ASSUME TradeType, SeenInv, ~mixed, NEW p \in Player, Exchanging(p), p \notin refilled,
             seen[partner[p]] # Nobody
      PROVE  Side(p) = seen[partner[p]]
  <2> DEFINE q == partner[p]
  <2>1. trading[p] /\ locked[q] = 2 /\ ~Impossible(p)
    BY <1>2 DEF Exchanging, Commit, Possible
  <2>2. Looked(p)
    BY <1>2, <2>1 DEF SeenInv, Pressed
  <2>3. seen[q] = [items |-> seen[q].items, zeny |-> money[p]]
    BY <2>2 DEF Looked
  <2>4. PICK F \in [DOMAIN deal[p] -> Item \cup {Nobody}] :
             /\ seen[q].items = {F[k] : k \in DOMAIN deal[p]}
             /\ \A k \in DOMAIN deal[p] : inv[p][deal[p][k]] \in {F[k], Nobody}
    BY <1>2, <2>2 DEF Looked
  <2>5. \A k \in DOMAIN deal[p] : inv[p][deal[p][k]] = F[k]
    BY <2>1, <2>4 DEF Impossible
  <2>6. Offer(p) = seen[q].items
    BY <2>4, <2>5 DEF Offer
  <2> QED
    BY <2>3, <2>6 DEF Side
<1>3. TradeType /\ SeenInv /\ [Next]_vars
        => [Closes /\ ~mixed => \A p \in Player :
              Exchanging(p) /\ p \notin refilled /\ seen[partner[p]] # Nobody
                => Side(p) = seen[partner[p]]]_vars
  BY <1>2
<1> QED
  BY <1>1, <1>3, TypesStart, TypesNext, SeenNext, PTL DEF Spec, AsSeen

----------------------------------------------------------------------------
(* All of the deal. *)

\* Items do not stack: an item is in one place.
Once(all) == \A i \in Item : \A x, y \in At(all, i) : x = y

LEMMA AtMostOne ==
  ASSUME NEW S, IsFiniteSet(S)
  PROVE  Cardinality(S) <= 1 <=> \A x, y \in S : x = y
<1>1. Cardinality(S) \in Nat /\ (Cardinality(S) = 0 <=> S = {}) /\ (Cardinality(S) = 1 <=> \E x : S = {x})
  BY FS_CardinalityType, FS_EmptySet, FS_Singleton
<1>2. ASSUME \A x, y \in S : x = y PROVE S = {} \/ \E x : S = {x}
  <2>1. ASSUME NEW x \in S PROVE S = {x}
    BY <1>2
  <2> QED
    BY <2>1
<1> QED
  BY <1>1, <1>2

LEMMA KeptOnce ==
  ASSUME Once(inv), NEW p, NEW q, NEW all \in Kept(p, q)
  PROVE  Once(all)
<1>1. ASSUME NEW i \in Item PROVE \A x, y \in At(all, i) : x = y
  <2>1. Cardinality(At(inv, i)) <= 1
    BY AtFinite, AtMostOne DEF Once
  <2>2. Cardinality(At(all, i)) <= 1
    BY <2>1 DEF Kept
  <2> QED
    BY <2>2, AtFinite, AtMostOne
<1> QED
  BY <1>1 DEF Once

\* The same without pairs.
LEMMA OncePlaces ==
  ASSUME NEW all, Once(all), NEW p \in Player, NEW q \in Player, NEW s \in Slot, NEW t \in Slot,
         all[p][s] \in Item, all[q][t] = all[p][s]
  PROVE  p = q /\ s = t
<1>1. <<p, s>> \in At(all, all[p][s]) /\ <<q, t>> \in At(all, all[p][s])
  BY DEF At
<1>2. <<p, s>> = <<q, t>>
  BY <1>1 DEF Once
<1> QED
  BY <1>2

Open(slots) == FreeIn(slots) \cap 1 .. OpenSlots

LEMMA OpenFinite ==
  ASSUME NEW slots
  PROVE  IsFiniteSet(Open(slots)) /\ Cardinality(Open(slots)) \in Nat
<1>1. IsFiniteSet(1 .. OpenSlots)
  BY FS_Interval, Limits
<1>2. IsFiniteSet(Open(slots))
  BY <1>1, FS_Subset DEF Open
<1> QED
  BY <1>2, FS_CardinalityType

\* Filling a slot closes at most one; emptying one closes none.
LEMMA OpenStep ==
  ASSUME NEW old, NEW new, NEW t, \A x \in Slot : x # t /\ new[x] # Nobody => old[x] # Nobody
  PROVE  /\ Cardinality(Open(old)) <= Cardinality(Open(new)) + 1
         /\ new[t] = Nobody => Cardinality(Open(old)) <= Cardinality(Open(new))
<1>1. Open(old) \subseteq Open(new) \cup {t}
  BY DEF Open, FreeIn
<1>2. IsFiniteSet(Open(new) \cup {t})
      /\ Cardinality(Open(new) \cup {t}) \in {Cardinality(Open(new)), Cardinality(Open(new)) + 1}
  BY OpenFinite, FS_AddElement
<1>3. Cardinality(Open(old)) <= Cardinality(Open(new) \cup {t})
  BY <1>1, <1>2, FS_Subset
<1>4. ASSUME new[t] = Nobody PROVE Cardinality(Open(old)) <= Cardinality(Open(new))
  <2>1. Open(old) \subseteq Open(new)
    BY <1>4 DEF Open, FreeIn
  <2> QED
    BY <2>1, OpenFinite, FS_Subset
<1> QED
  BY <1>2, <1>3, <1>4, OpenFinite

\* What p has given when a positions of his window are done, and what he still holds.
Given(p, a) == {inv[p][deal[p][k]] : k \in {j \in DOMAIN deal[p] : j <= a}}
Held(all, p, a) == \A k \in DOMAIN deal[p] : k > a => all[p][deal[p][k]] = inv[p][deal[p][k]]

Half(all, p, q, a, b) ==
  /\ Held(all, p, a)
  /\ Items(all[p]) = (Items(inv[p]) \ Given(p, a)) \cup Given(q, b)
  /\ Weight(all[p]) <= Weight(inv[p]) + b
  /\ Cardinality(Open(inv[p])) <= Cardinality(Open(all[p])) + b

\* The exchange with a positions of the one, and b of the other, done.
Stage(all, p, q, a, b) == all \in Kept(p, q) /\ Half(all, p, q, a, b) /\ Half(all, q, p, b, a)

LEMMA StageOther ==
  ASSUME NEW all, NEW p, NEW q, NEW a, NEW b, Stage(all, p, q, a, b)
  PROVE  Stage(all, q, p, b, a)
BY DEF Stage, Kept

\* A player can give what he offers, and take that many.
Able(p, q) ==
  /\ p \in Player /\ q \in Player \ {p}
  /\ ~Impossible(p)
  /\ \A k \in DOMAIN deal[p] : Weight(inv[q]) + k <= MaxWeight[q] /\ k <= Cardinality(Open(inv[q]))

\* A position that the window does not reach.
LEMMA StageSkip ==
  ASSUME WindowType, NEW p \in Player, NEW q \in Player \ {p}, NEW all, NEW a \in Nat, NEW b \in Nat,
         Stage(all, p, q, a, b), a + 1 \notin DOMAIN deal[p]
  PROVE  Stage(all, p, q, a + 1, b)
<1>1. DOMAIN deal[p] = 1 .. Len(deal[p]) /\ Len(deal[p]) \in Nat
  BY DEF WindowType
<1>2. \A k \in DOMAIN deal[p] : k <= a
  BY <1>1
<1>3. Given(p, a + 1) = Given(p, a) /\ Held(all, p, a + 1)
  <2>1. \A k \in DOMAIN deal[p] : k <= a /\ k <= a + 1 /\ ~(k > a + 1)
    BY <1>1, <1>2
  <2>2. {k \in DOMAIN deal[p] : k <= a + 1} = {k \in DOMAIN deal[p] : k <= a}
    BY <2>1
  <2> QED
    BY <2>1, <2>2 DEF Given, Held
<1>4. /\ Weight(all[q]) <= Weight(inv[q]) + (a + 1)
      /\ Cardinality(Open(inv[q])) <= Cardinality(Open(all[q])) + (a + 1)
  BY WeightIs, OpenFinite DEF Stage, Half
<1> QED
  BY <1>3, <1>4 DEF Stage, Half

\* pc_additem takes an item there is room for.
LEMMA GiveWorks ==
  ASSUME NEW all, NEW p, NEW q \in Player, NEW s,
         Weight(all[q]) < MaxWeight[q], Cardinality(Open(all[q])) > 0
  PROVE  \E t \in Slot : all[q][t] = Nobody /\ Give(all, p, q, s) = Moved(all, p, s, q, t)
<1> DEFINE t == FirstFree(all[q])
<1>1. Weight(all[q]) \in Nat
  BY WeightIs
<1>2. ASSUME Open(all[q]) = {} PROVE FALSE
  <2>1. Cardinality(Open(all[q])) = 0
    BY <1>2, FS_EmptySet
  <2> QED
    BY <2>1
<1>3. PICK y : y \in Open(all[q])
  BY <1>2
<1>4. y \in 1 .. OpenSlots /\ t <= y /\ t \in 1 .. MaxInventory + 1
  BY <1>3, FreePlace DEF Open
<1>5. t <= OpenSlots
  BY <1>4, Limits
<1>6. t \in Slot /\ all[q][t] = Nobody
  BY <1>5, FreePlace
<1>7. MaxWeight[q] \in Nat
  OBVIOUS
<1>8. ~(t > OpenSlots) /\ ~(Weight(all[q]) >= MaxWeight[q])
  <2> HIDE DEF t
  <2> QED
    BY <1>1, <1>4, <1>5, <1>7, Limits
<1>9. Give(all, p, q, s) = Moved(all, p, s, q, t)
  BY <1>8 DEF Give, Moved
<1> QED
  BY <1>6, <1>9

\* One position of one side.
LEMMA StageGive ==
  ASSUME WindowType, inv \in Table, Once(inv), NEW p, NEW q,
         Able(p, q), Able(q, p), NEW all, NEW a \in Nat, NEW b \in Nat,
         Stage(all, p, q, a, b), a + 1 \in DOMAIN deal[p]
  PROVE  Stage(Give(all, p, q, deal[p][a + 1]), p, q, a + 1, b)
<1> DEFINE s == deal[p][a + 1]
           i == inv[p][s]
<1>1. p \in Player /\ q \in Player \ {p} /\ p \in Player \ {q}
  BY DEF Able
<1>2. /\ \A k \in DOMAIN deal[p] : deal[p][k] \in Slot /\ k \in Int
      /\ \A k \in DOMAIN deal[q] : deal[q][k] \in Slot
      /\ \A k \in DOMAIN deal[p] : deal[p][k] = s => k = a + 1
  BY <1>1 DEF WindowType, IsInjective
<1>3. /\ \A k \in DOMAIN deal[p] : inv[p][deal[p][k]] \in Item
      /\ \A k \in DOMAIN deal[q] : inv[q][deal[q][k]] \in Item
  BY <1>1, <1>2 DEF Able, Impossible, Table
<1>4. s \in Slot /\ i \in Item /\ all[p][s] = i
  <2>1. a + 1 > a
    OBVIOUS
  <2> QED
    BY <1>2, <1>3, <2>1 DEF Stage, Half, Held
<1>5. Weight(all[q]) < MaxWeight[q] /\ Cardinality(Open(all[q])) > 0
  <2>1. Weight(inv[q]) + (a + 1) <= MaxWeight[q] /\ a + 1 <= Cardinality(Open(inv[q]))
    BY DEF Able
  <2>2. Weight(all[q]) <= Weight(inv[q]) + a /\ Cardinality(Open(inv[q])) <= Cardinality(Open(all[q])) + a
    BY DEF Stage, Half
  <2>3. /\ MaxWeight[q] \in Nat /\ Weight(all[q]) \in Nat /\ Weight(inv[q]) \in Nat
        /\ Cardinality(Open(inv[q])) \in Nat /\ Cardinality(Open(all[q])) \in Nat
    BY <1>1, WeightIs, OpenFinite
  <2> QED
    BY <2>1, <2>2, <2>3
<1>6. PICK t \in Slot : all[q][t] = Nobody /\ Give(all, p, q, s) = Moved(all, p, s, q, t)
  BY <1>1, <1>5, GiveWorks
<1> DEFINE one == Moved(all, p, s, q, t)
<1>7. all \in Table /\ all \in Kept(p, q) /\ Once(all)
  BY KeptOnce DEF Stage, Kept
<1> HIDE DEF s, i
<1>8. /\ one \in Table
      /\ one[q][t] = i /\ one[p][s] = Nobody
      /\ \A x \in Slot \ {s} : one[p][x] = all[p][x]
      /\ \A x \in Slot \ {t} : one[q][x] = all[q][x]
  BY <1>1, <1>4, <1>7, MovedTo
<1>9. one \in Kept(p, q)
  <2>1. Moves(all, one, p, q)
    BY <1>4, <1>6 DEF Moves
  <2> HIDE DEF one
  <2> QED
    BY <1>1, <1>7, <2>1, MovedKept
<1> HIDE DEF one
<1>10. Given(p, a + 1) = Given(p, a) \cup {i}
  <2>1. {k \in DOMAIN deal[p] : k <= a + 1} = {k \in DOMAIN deal[p] : k <= a} \cup {a + 1}
    BY <1>2
  <2> QED
    BY <2>1 DEF Given, s, i
<1>11. i \notin Given(q, b)
  <2>1. ASSUME NEW k \in DOMAIN deal[q], inv[q][deal[q][k]] = i PROVE FALSE
    BY <1>1, <1>2, <1>4, <2>1, OncePlaces DEF i
  <2> QED
    BY <2>1 DEF Given
<1>12. Items(one[p]) = Items(all[p]) \ {i}
  <2>1. ASSUME NEW x \in Slot, all[p][x] = i PROVE x = s
    BY <1>1, <1>4, <1>7, <2>1, OncePlaces
  <2>2. i # Nobody
    BY <1>4
  <2> QED
    BY <1>4, <1>8, <2>1, <2>2 DEF Items
<1>13. Items(one[q]) = Items(all[q]) \cup {i}
  <2>1. i # Nobody
    BY <1>4
  <2> QED
    BY <1>6, <1>8, <2>1 DEF Items
<1>14. Half(one, p, q, a + 1, b)
  <2>1. Held(one, p, a + 1)
    <3>1. ASSUME NEW k \in DOMAIN deal[p], k > a + 1 PROVE one[p][deal[p][k]] = inv[p][deal[p][k]]
      <4>1. k > a /\ k # a + 1
        BY <1>2, <3>1
      <4>2. deal[p][k] \in Slot \ {s}
        BY <1>2, <4>1
      <4> QED
        BY <1>8, <4>1, <4>2 DEF Stage, Half, Held
    <3> QED
      BY <3>1 DEF Held
  <2>2. Items(one[p]) = (Items(inv[p]) \ Given(p, a + 1)) \cup Given(q, b)
    <3>1. Items(all[p]) = (Items(inv[p]) \ Given(p, a)) \cup Given(q, b)
      BY DEF Stage, Half
    <3> QED
      BY <1>10, <1>11, <1>12, <3>1
  <2>3. Weight(one[p]) <= Weight(all[p])
    BY <1>8, WeightStep
  <2>4. Weight(all[p]) <= Weight(inv[p]) + b
    BY DEF Stage, Half
  <2>5. Weight(one[p]) <= Weight(inv[p]) + b
    BY <2>3, <2>4, WeightIs
  <2>6. Cardinality(Open(all[p])) <= Cardinality(Open(one[p]))
    BY <1>8, OpenStep
  <2>7. Cardinality(Open(inv[p])) <= Cardinality(Open(all[p])) + b
    BY DEF Stage, Half
  <2>8. Cardinality(Open(inv[p])) <= Cardinality(Open(one[p])) + b
    BY <2>6, <2>7, OpenFinite
  <2> QED
    BY <2>1, <2>2, <2>5, <2>8 DEF Half
<1>15. Half(one, q, p, b, a + 1)
  <2>1. Held(one, q, b)
    <3>1. ASSUME NEW k \in DOMAIN deal[q], k > b PROVE one[q][deal[q][k]] = inv[q][deal[q][k]]
      <4>1. all[q][deal[q][k]] = inv[q][deal[q][k]]
        BY <3>1 DEF Stage, Half, Held
      <4>2. deal[q][k] # t
        BY <1>3, <1>6, <4>1
      <4> QED
        BY <1>2, <1>8, <4>1, <4>2
    <3> QED
      BY <3>1 DEF Held
  <2>2. Items(one[q]) = (Items(inv[q]) \ Given(q, b)) \cup Given(p, a + 1)
    <3>1. Items(all[q]) = (Items(inv[q]) \ Given(q, b)) \cup Given(p, a)
      BY DEF Stage, Half
    <3> QED
      BY <1>10, <1>13, <3>1
  <2>3. Weight(one[q]) <= Weight(all[q]) + 1
    <3>1. \A x \in Slot : x # t /\ one[q][x] # Nobody => all[q][x] # Nobody
      BY <1>8
    <3> QED
      BY <3>1, WeightStep
  <2>4. Weight(all[q]) <= Weight(inv[q]) + a
    BY DEF Stage, Half
  <2>5. Weight(one[q]) <= Weight(inv[q]) + (a + 1)
    BY <2>3, <2>4, WeightIs
  <2>6. Cardinality(Open(all[q])) <= Cardinality(Open(one[q])) + 1
    <3>1. \A x \in Slot : x # t /\ one[q][x] # Nobody => all[q][x] # Nobody
      BY <1>8
    <3> QED
      BY <3>1, OpenStep
  <2>7. Cardinality(Open(inv[q])) <= Cardinality(Open(all[q])) + a
    BY DEF Stage, Half
  <2>8. Cardinality(Open(inv[q])) <= Cardinality(Open(one[q])) + (a + 1)
    BY <2>6, <2>7, OpenFinite
  <2> QED
    BY <2>1, <2>2, <2>5, <2>8 DEF Half
<1> QED
  BY <1>6, <1>9, <1>14, <1>15 DEF Stage, s, one

\* One position of both.
LEMMA StageSwap ==
  ASSUME WindowType, inv \in Table, Once(inv), NEW p, NEW q,
         Able(p, q), Able(q, p), NEW all, NEW k \in Nat, Stage(all, p, q, k, k)
  PROVE  Stage(Swap(all, p, q, k + 1), p, q, k + 1, k + 1)
<1> DEFINE mine == IF k + 1 \in DOMAIN deal[p] THEN Give(all, p, q, deal[p][k + 1]) ELSE all
           both == IF k + 1 \in DOMAIN deal[q] THEN Give(mine, q, p, deal[q][k + 1]) ELSE mine
<1>1. p \in Player /\ q \in Player \ {p} /\ p \in Player \ {q} /\ k + 1 \in Nat
  BY DEF Able
<1>2. Stage(mine, p, q, k + 1, k)
  BY <1>1, StageGive, StageSkip
<1>3. Stage(mine, q, p, k, k + 1)
  <2> HIDE DEF mine
  <2> QED
    BY <1>2, StageOther
<1>4. Stage(both, q, p, k + 1, k + 1)
  <2> HIDE DEF mine
  <2>1. k + 1 \in DOMAIN deal[q] => Stage(Give(mine, q, p, deal[q][k + 1]), q, p, k + 1, k + 1)
    BY <1>1, <1>3, StageGive
  <2>2. k + 1 \notin DOMAIN deal[q] => Stage(mine, q, p, k + 1, k + 1)
    BY <1>1, <1>3, StageSkip
  <2> QED
    BY <2>1, <2>2
<1>5. Stage(both, p, q, k + 1, k + 1)
  <2> HIDE DEF both
  <2> QED
    BY <1>4, StageOther
<1>6. Swap(all, p, q, k + 1) = both
  BY DEF Swap
<1> QED
  BY <1>5, <1>6

LEMMA StageAll ==
  ASSUME WindowType, inv \in Table, Once(inv), NEW p, NEW q,
         Able(p, q), Able(q, p)
  PROVE  Stage(Swapped(p, q), p, q, Window, Window)
<1>1. p \in Player /\ q \in Player \ {p}
  BY DEF Able
<1>2. PICK after : Positions(after, p, q) /\ Swapped(p, q) = after[Window]
  BY <1>1, SwappedIs
<1> DEFINE D == {k \in Nat : k <= Window => Stage(after[k], p, q, k, k)}
<1>3. 0 \in D
  <2>1. ASSUME NEW x \in {p, q}, NEW y \in {p, q} PROVE Half(inv, x, y, 0, 0)
    <3>1. Given(x, 0) = {} /\ Given(y, 0) = {}
      <4>1. \A z \in {x, y} : \A k \in DOMAIN deal[z] : ~(k <= 0)
        BY <1>1 DEF WindowType
      <4> QED
        BY <4>1 DEF Given
    <3>2. Weight(inv[x]) <= Weight(inv[x]) + 0 /\ Cardinality(Open(inv[x])) <= Cardinality(Open(inv[x])) + 0
      BY WeightIs, OpenFinite
    <3> QED
      BY <3>1, <3>2 DEF Half, Held
  <2>2. Stage(inv, p, q, 0, 0)
    BY <2>1 DEF Stage, Kept
  <2> QED
    BY <1>2, <2>2 DEF Positions
<1>4. ASSUME NEW k \in Nat, k \in D PROVE k + 1 \in D
  <2>1. CASE k + 1 <= Window
    <3>1. k + 1 \in 1 .. Window /\ (k + 1) - 1 = k /\ k <= Window
      BY <2>1, Limits
    <3>2. after[k + 1] = Swap(after[k], p, q, k + 1)
      BY <1>2, <3>1 DEF Positions
    <3>3. Stage(after[k], p, q, k, k)
      BY <1>4, <3>1
    <3>4. Stage(after[k + 1], p, q, k + 1, k + 1)
      BY <3>2, <3>3, StageSwap
    <3> QED
      BY <3>4
  <2> QED
    BY <2>1
<1>5. Window \in D
  <2> HIDE DEF D
  <2> QED
    BY <1>3, <1>4, Limits, Induction
<1>6. Stage(after[Window], p, q, Window, Window)
  BY <1>5, Limits
<1> QED
  BY <1>2, <1>6

Short == \A p \in Player : Len(deal[p]) <= Window
WholeInv == Once(inv) /\ Short

\* Every item has one place at first.
LEMMA PlacedOnce ==
  ASSUME Placed
  PROVE  Once(inv)
<1>1. PICK at \in [Item -> Player \X (1 .. OpenSlots) \cup {<<Nobody, 0>>}] :
             inv = [p \in Player |-> [s \in Slot |->
               IF \E i \in Item : at[i] = <<p, s>>
               THEN CHOOSE i \in Item : at[i] = <<p, s>> ELSE Nobody]]
  BY DEF Placed
<1>2. ASSUME NEW i \in Item, NEW p \in Player, NEW s \in Slot, inv[p][s] = i PROVE at[i] = <<p, s>>
  <2>1. inv[p][s] = IF \E j \in Item : at[j] = <<p, s>>
                    THEN CHOOSE j \in Item : at[j] = <<p, s>> ELSE Nobody
    BY <1>1
  <2>2. i # Nobody
    OBVIOUS
  <2>3. \E j \in Item : at[j] = <<p, s>>
    BY <1>2, <2>1, <2>2
  <2> QED
    BY <1>2, <2>1, <2>3
<1>3. ASSUME NEW i \in Item, NEW x \in At(inv, i) PROVE at[i] = x
  <2>1. x = <<x[1], x[2]>> /\ x[1] \in Player /\ x[2] \in Slot /\ inv[x[1]][x[2]] = i
    BY DEF At
  <2> QED
    BY <1>2, <2>1
<1> QED
  BY <1>3 DEF Once

\* Using an item up takes one place away; loot is an item that has no place.
LEMMA ChangesOnce ==
  ASSUME GoodsType, Once(inv), NEW p \in Player, Changes(p)
  PROVE  Once(inv')
<1>1. ASSUME NEW i \in Item, Loot(p, i) PROVE Once(inv')
  <2> DEFINE t == FirstFree(inv[p])
  <2>1. t \in Slot
    BY <1>1, FreePlace DEF Loot
  <2> HIDE DEF t
  <2>2. inv' = [inv EXCEPT ![p] = [inv[p] EXCEPT ![t] = i]] /\ inv[p] \in [Slot -> Item \cup {Nobody}]
    BY <1>1 DEF Loot, GoodsType, Table, t
  <2>3. \A x \in Player, s \in Slot : <<x, s>> # <<p, t>> => inv'[x][s] = inv[x][s]
    <3>1. inv \in [Player -> [Slot -> Item \cup {Nobody}]]
      BY DEF GoodsType, Table
    <3> QED
      BY <2>2, <3>1
  <2>4. At(inv, i) = {}
    BY <1>1 DEF Loot, At, Items
  <2>5. At(inv', i) \subseteq {<<p, t>>}
    BY <2>3, <2>4 DEF At
  <2>6. inv'[p][t] = i
    BY <2>1, <2>2 DEF GoodsType, Table
  <2>7. \A j \in Item \ {i} : At(inv', j) \subseteq At(inv, j)
    BY <2>3, <2>6 DEF At
  <2> QED
    BY <2>5, <2>7 DEF Once
<1>2. ASSUME NEW s \in Slot, UseUp(p, s) PROVE Once(inv')
  <2>1. \A x \in Player, t \in Slot : inv'[x][t] \in {inv[x][t], Nobody}
    BY <1>2 DEF UseUp, GoodsType, Table
  <2>2. \A j \in Item : At(inv', j) \subseteq At(inv, j)
    BY <2>1 DEF At
  <2> QED
    BY <2>2 DEF Once
<1>3. ASSUME NEW z \in 0 .. MaxZeny, Zeny(p, z) PROVE Once(inv')
  BY <1>3 DEF Zeny
<1> QED
  BY <1>1, <1>2, <1>3 DEF Changes

LEMMA StepOnce ==
  ASSUME TradeType, Once(inv), [Next]_vars
  PROVE  Once(inv')
<1>1. CASE UNCHANGED inv
  BY <1>1
<1>2. ASSUME NEW p \in Player, Commit(p), inv' # inv PROVE Once(inv')
  <2>1. partner[p] \in Player \ {p} /\ Exchange(p, partner[p])
    BY <1>2 DEF Commit, goods, TradeType, WindowType, LinkInv, LinkType, Present
  <2>2. inv' \in Kept(p, partner[p])
    <3>1. WindowType /\ inv \in Table
      BY DEF TradeType, GoodsType
    <3> QED
      BY <2>1, <3>1, SwappedKept DEF Exchange
  <2> QED
    BY <2>2, KeptOnce
<1>3. ASSUME NEW p \in Player, Changes(p) PROVE Once(inv')
  BY <1>3, ChangesOnce DEF TradeType
<1> QED
  BY <1>1, <1>2, <1>3, OtherGoods DEF Next, vars, goods

LEMMA StepShort ==
  ASSUME TradeType, Short, [Next]_vars
  PROVE  Short'
<1>1. ASSUME \A x \in Player : deal'[x] \in {<<>>, deal[x]} PROVE Short'
  BY <1>1, Limits DEF Short
<1>2. CASE UNCHANGED vars
  BY <1>1, <1>2 DEF vars, window
<1>3. ASSUME NEW p \in Player, TradeCancel(p) PROVE Short'
  BY <1>1, <1>3 DEF TradeCancel
<1>4. ASSUME NEW p \in Player, NEW s \in Slot, AddItem(p, s), ~TradeCancel(p) PROVE Short'
  <2>1. deal' = [deal EXCEPT ![p] = Append(@, s)] /\ Len(deal[p]) < Window
    BY <1>4 DEF AddItem, Addable
  <2>2. deal[p] \in Seq(Slot) /\ deal = [x \in Player |-> deal[x]]
    BY DEF TradeType, WindowType
  <2>3. Len(deal'[p]) = Len(deal[p]) + 1 /\ Len(deal[p]) \in Nat
    BY <2>1, <2>2
  <2>4. \A x \in Player \ {p} : deal'[x] = deal[x]
    BY <2>1, <2>2
  <2> QED
    BY <2>1, <2>3, <2>4, Limits DEF Short
<1>5. ASSUME NEW p \in Player,
             \/ Asks(p) \/ Ack(p) \/ Enter(p) \/ Changes(p) \/ AsksAgain(p) \/ Leave(p)
             \/ Ok(p) \/ Cancel(p) \/ Commit(p) \/ \E z \in 0 .. MaxZeny : AddZeny(p, z),
             ~TradeCancel(p)
      PROVE  Short'
  <2>1. deal = [x \in Player |-> deal[x]]
    BY DEF TradeType, WindowType
  <2>2. CASE Commit(p)
    <3>1. CASE UNCHANGED deal
      BY <1>1, <3>1
    <3>2. CASE Exchange(p, partner[p])
      BY <1>1, <2>1, <3>2 DEF Exchange
    <3>3. CASE \E x \in Player : TradeCancel(x)
      BY <1>3, <3>3
    <3> QED
      BY <2>2, <3>1, <3>2, <3>3 DEF Commit, TradeType, LinkInv, LinkType, Present
  <2>3. CASE ~Commit(p)
    <3>1. \A x \in Player : deal'[x] \in {<<>>, deal[x]}
      BY <1>5, <2>1, <2>3 DEF Asks, Ask, Ack, Starts, Enter, Changes, Loot, UseUp, Zeny, AsksAgain,
           Leave, Ok, Cancel, AddZeny, window
    <3> QED
      BY <1>1, <3>1
  <2> QED
    BY <2>2, <2>3
<1> QED
  BY <1>2, <1>3, <1>4, <1>5 DEF Next, InWindow

\* Who offers what the other can carry and has room for, and still has it.
LEMMA CanExchange ==
  ASSUME TradeType, Pressed, NEW p \in Player, NEW q \in Player \ {p}, trading[p], partner[p] = q,
         q \notin grown, ~Impossible(p), Room(q, Len(deal[p]))
  PROVE  Able(p, q)
<1>1. DOMAIN deal[p] = 1 .. Len(deal[p]) /\ Len(deal[p]) \in Nat
  BY DEF TradeType, WindowType
<1>2. Len(deal[p]) > 0 => Weight(inv[q]) + Len(deal[p]) <= MaxWeight[q]
  BY DEF Pressed, Fitting
<1>3. Len(deal[p]) <= Cardinality(Open(inv[q]))
  BY DEF Room, Open
<1>4. Weight(inv[q]) \in Nat /\ MaxWeight[q] \in Nat /\ Cardinality(Open(inv[q])) \in Nat
  BY WeightIs, OpenFinite
<1>5. ASSUME NEW k \in DOMAIN deal[p]
      PROVE  Weight(inv[q]) + k <= MaxWeight[q] /\ k <= Cardinality(Open(inv[q]))
  BY <1>1, <1>2, <1>3, <1>4
<1> QED
  BY <1>5 DEF Able

\* A deal that passes the checks is done in full, where both have room for it in the
\* slots they may use and neither got an item during the trade: each side ends with what
\* it had, less what it offered, plus what the other offered.  Giving item by item,
\* while the other gives too, then meets no full inventory and no load too heavy, for
\* any number of items and any positions in the window.
THEOREM WholeDealCorrect == Spec => WholeDealIfRoom
<1>1. Init => SeenInv /\ WholeInv
  <2>1. ASSUME Init PROVE \A x \in Player : locked[x] = 0 /\ ~trading[x] /\ deal[x] = <<>>
    BY <2>1 DEF Init
  <2>2. ASSUME Init PROVE Placed
    BY <2>2 DEF Init
  <2> QED
    BY <2>1, <2>2, PlacedOnce, Limits DEF SeenInv, Pressed, Fitting, WholeInv, Short
<1>2. TradeType /\ WholeInv /\ [Next]_vars => WholeInv'
  <2>1. ASSUME Once(inv)' PROVE Once(inv')
    BY <2>1
  <2>2. ASSUME Once(inv') PROVE Once(inv)'
    BY <2>2
  <2> QED
    BY <2>2, StepOnce, StepShort DEF WholeInv
<1>3. ASSUME TradeType, SeenInv, WholeInv, ~mixed, NEW p \in Player, Exchanging(p),
             {p, partner[p]} \cap grown = {},
             Room(p, Len(deal[partner[p]])), Room(partner[p], Len(deal[p]))
      PROVE  Whole(p, partner[p]) /\ Whole(partner[p], p)
  <2> DEFINE q == partner[p]
  <2>1. /\ trading[p] /\ locked[q] = 2 /\ Present(q)
        /\ ~Impossible(p) /\ ~Impossible(q)
    BY <1>3 DEF Exchanging, Commit, Possible
  <2>2. LinkType /\ Linked /\ WindowType /\ Pressed /\ inv \in Table /\ Once(inv)
    BY <1>3 DEF TradeType, LinkInv, SeenInv, WholeInv, GoodsType
  <2>3. q \in Player \ {p} /\ p \in Player \ {q} /\ partner[q] = p /\ trading[q]
    BY <2>1, <2>2, IdleSides
  <2>4. Able(p, q) /\ Able(q, p)
    BY <1>3, <2>1, <2>2, <2>3, CanExchange
  <2>5. inv' = Swapped(p, q)
    <3>1. Exchange(p, q)
      BY <1>3, <2>1 DEF Exchanging, Commit
    <3> QED
      BY <3>1 DEF Exchange
  <2>6. Stage(inv', p, q, Window, Window)
    BY <2>2, <2>4, <2>5, StageAll
  <2>7. ASSUME NEW x \in Player PROVE Given(x, Window) = Offer(x)
    <3>1. \A k \in DOMAIN deal[x] : k <= Window
      BY <1>3, <2>2, Limits DEF WindowType, WholeInv, Short
    <3> QED
      BY <3>1 DEF Given, Offer
  <2>8. Given(p, Window) = Offer(p) /\ Given(q, Window) = Offer(q)
    BY <2>3, <2>7
  <2> QED
    BY <2>6, <2>8 DEF Stage, Half, Whole
<1>4. TradeType /\ SeenInv /\ WholeInv /\ [Next]_vars
        => [Closes /\ ~mixed => \A p \in Player :
              LET q == partner[p]
              IN  /\ Exchanging(p) /\ {p, q} \cap grown = {}
                  /\ Room(p, Len(deal[q])) /\ Room(q, Len(deal[p]))
                  => Whole(p, q) /\ Whole(q, p)]_vars
  BY <1>3
<1> QED
  BY <1>1, <1>2, <1>4, TypesStart, TypesNext, SeenNext, PTL DEF Spec, WholeDealIfRoom

----------------------------------------------------------------------------
(* Market. *)

USE MarketAssumption

\* Shops leave the variables that say who trades with whom alone.
StallStep(p) ==
  \/ \E s \in Slot : PutItemToCart(p, s)
  \/ \E k \in Place : GetItemFromCart(p, k)
  \/ Vending(p) \/ CancelVending(p) \/ OpenVending(p) \/ CloseVending(p)
  \/ \E q \in Player : VendingListReq(p, q)
  \/ \E want \in SUBSET Place, near \in BOOLEAN : PurchaseReq(p, want, near)

TradeStep(p) ==
  \/ (RequestTrade(p) \/ AckTrade(p) \/ InWindow(p) \/ Enter(p)) /\ UNCHANGED stalls
  \/ LeaveMarket(p)

LEMMA StallUnlinked ==
  ASSUME NEW p \in Player, StallStep(p)
  PROVE  UNCHANGED <<here, partner, trading, mixed>>
BY DEF StallStep, PutItemToCart, GetItemFromCart, Vending, CancelVending, OpenVending,
       CloseVending, VendingListReq, PurchaseReq, vars, window

LEMMA MarketSteps ==
  ASSUME [MarketNext]_marketVars
  PROVE  UNCHANGED marketVars \/ \E p \in Player : StallStep(p) \/ TradeStep(p)
BY DEF MarketNext, StallStep, TradeStep, stalls

LEMMA MarketLinked ==
  ASSUME LinkInv, [MarketNext]_marketVars
  PROVE  LinkInv'
<1>1. CASE UNCHANGED marketVars
  BY <1>1, UnlinkedSteps DEF marketVars, vars, window
<1>2. ASSUME NEW p \in Player, StallStep(p) PROVE LinkInv'
  BY <1>2, StallUnlinked, UnlinkedSteps
<1>3. ASSUME NEW p \in Player, TradeStep(p) PROVE LinkInv'
  BY <1>3, TradeLinked, EnterLinked, LeaveLinked
  DEF TradeStep, RequestTrade, AckTrade, LeaveMarket
<1> QED
  BY <1>1, <1>2, <1>3, MarketSteps

LEMMA MarketStart ==
  ASSUME MarketInit
  PROVE  LinkInv /\ shop = [p \in Player |-> NoShop]
<1>1. LinkType /\ \A p \in Player : partner[p] = Nobody /\ ~trading[p]
  BY DEF MarketInit, Init, LinkType
<1> QED
  BY <1>1 DEF LinkInv, Linked, MarketInit

\* Windows stay open in pairs beside shops, too.
THEOREM MarketMutual == MarketSpec => []MutualUnlessMixed
<1>1. LinkInv => MutualUnlessMixed
  BY DEF LinkInv, LinkType, Linked, MutualUnlessMixed, Mutual
<1> QED
  BY <1>1, MarketStart, MarketLinked, PTL DEF MarketSpec

----------------------------------------------------------------------------
\* Shops are a table, and exclude trades.
ShopInv ==
  /\ LinkInv
  /\ shop = [p \in Player |-> shop[p]]
  /\ VendorNotTrading

\* Only an answer begins a trade.
LEMMA NoNewTrade ==
  ASSUME LinkInv, NEW p \in Player, Asks(p) \/ InWindow(p) \/ Enter(p) \/ Leave(p)
  PROVE  \A x \in Player : trading'[x] => trading[x]
<1>1. \A y : TradeCancel(y) => \A x \in Player : trading'[x] => trading[x]
  BY DEF TradeCancel
<1>2. CASE Asks(p)
  BY <1>2 DEF Asks, Ask
<1>3. CASE Enter(p)
  BY <1>3 DEF Enter, LinkInv, LinkType
<1>4. CASE Leave(p)
  BY <1>1, <1>4 DEF Leave, window
<1>5. CASE Commit(p)
  BY <1>1, <1>5 DEF Commit, Exchange, LinkInv, LinkType
<1>6. CASE InWindow(p) /\ ~Commit(p)
  BY <1>1, <1>6 DEF InWindow, Ok, Cancel, AddItem, AddZeny
<1> QED
  BY <1>2, <1>3, <1>4, <1>5, <1>6

\* An answer that begins one finds no shop on either side.
LEMMA AckShopless ==
  ASSUME LinkInv, NEW p \in Player, AckTrade(p), NEW x \in Player, trading'[x]
  PROVE  trading[x] \/ ~Vends(x)
<1>1. CASE trading' = trading
  BY <1>1
<1>2. CASE trading' # trading
  <2>1. MayTrade(p) /\ Ackable(p, partner[p]) /\ Starts(p, partner[p])
    BY <1>2 DEF AckTrade, Ack
  <2>2. ~Vends(p) /\ ~Vends(partner[p])
    BY <2>1 DEF MayTrade, Ackable, Present
  <2>3. x \in {p, partner[p]} \/ trading'[x] = trading[x]
    BY <2>1 DEF Starts, LinkInv, LinkType
  <2> QED
    BY <2>2, <2>3
<1> QED
  BY <1>1, <1>2

\* A shop is opened by nobody who trades.
LEMMA StallShops ==
  ASSUME ShopInv, NEW p \in Player, StallStep(p)
  PROVE  /\ shop' = [x \in Player |-> shop'[x]]
         /\ \A x \in Player : Vends(x)' => Vends(x) \/ ~trading[x]
<1>1. CASE OpenVending(p)
  BY <1>1 DEF OpenVending, MayOpen, ShopInv, Vends
<1>2. CASE CloseVending(p)
  BY <1>2 DEF CloseVending, ShopInv, Vends
<1>3. ASSUME NEW want, NEW near, PurchaseReq(p, want, near)
      PROVE  /\ shop' = [x \in Player |-> shop'[x]]
             /\ \A x \in Player : Vends(x)' => Vends(x)
  <2> DEFINE q == viewed[p].of
  <2>1. CASE UNCHANGED shop
    BY <2>1 DEF ShopInv, Vends
  <2>2. CASE MayPurchase(p, q, want) /\ Sells(p, q, want)
    <3>1. Vends(q)
      BY <2>2 DEF MayPurchase, SameShop
    <3>2. shop' = [shop EXCEPT ![q].list = Unsold(@, want)]
      BY <2>2 DEF Sells
    <3> QED
      BY <3>1, <3>2 DEF ShopInv, Vends
  <2> QED
    BY <1>3, <2>1, <2>2 DEF PurchaseReq
<1>4. CASE UNCHANGED shop
  BY <1>4 DEF ShopInv, Vends
<1> QED
  BY <1>1, <1>2, <1>3, <1>4
  DEF StallStep, PutItemToCart, GetItemFromCart, Vending, CancelVending, VendingListReq

\* Nobody has a shop and a trade at once, whatever is asked for, prepared, accepted
\* and opened in between.
THEOREM VendorCorrect == MarketSpec => []VendorNotTrading
<1>1. MarketInit => ShopInv
  BY MarketStart DEF ShopInv, VendorNotTrading, Vends
<1>2. ASSUME ShopInv, [MarketNext]_marketVars PROVE ShopInv'
  <2>1. LinkInv /\ LinkInv'
    BY <1>2, MarketLinked DEF ShopInv
  <2>2. CASE UNCHANGED marketVars
    BY <1>2, <2>1, <2>2 DEF ShopInv, VendorNotTrading, Vends, marketVars, stalls, vars, window
  <2>3. ASSUME NEW p \in Player, StallStep(p) PROVE ShopInv'
    BY <1>2, <2>1, <2>3, StallShops, StallUnlinked DEF ShopInv, VendorNotTrading
  <2>4. ASSUME NEW p \in Player, TradeStep(p) PROVE ShopInv'
    <3>1. CASE LeaveMarket(p)
      <4>1. Leave(p) /\ shop' = [shop EXCEPT ![p] = NoShop]
        BY <3>1 DEF LeaveMarket
      <4>2. shop' = [x \in Player |-> shop'[x]] /\ \A x \in Player : Vends(x)' => Vends(x)
        BY <1>2, <4>1 DEF ShopInv, Vends
      <4> QED
        BY <1>2, <2>1, <4>1, <4>2, NoNewTrade DEF ShopInv, VendorNotTrading
    <3>2. CASE UNCHANGED shop
      <4>1. \A x \in Player : trading'[x] => trading[x] \/ ~Vends(x)
        BY <2>1, <2>4, NoNewTrade, AckShopless DEF TradeStep, RequestTrade, LeaveMarket
      <4> QED
        BY <1>2, <2>1, <3>2, <4>1 DEF ShopInv, VendorNotTrading, Vends
    <3> QED
      BY <2>4, <3>1, <3>2 DEF TradeStep, stalls
  <2> QED
    BY <1>2, <2>2, <2>3, <2>4, MarketSteps
<1>3. ShopInv => VendorNotTrading
  BY DEF ShopInv
<1> QED
  BY <1>1, <1>2, <1>3, PTL DEF MarketSpec

----------------------------------------------------------------------------
\* Carts and shops are tables, and what a list names is in the cart.
Tables ==
  /\ LinkInv
  /\ cart = [p \in Player |-> [k \in Place |-> cart[p][k]]]
  /\ shop = [p \in Player |-> shop[p]]
Stocked(x) ==
  /\ DOMAIN shop[x].list \subseteq Place
  /\ shop[x] = [id |-> shop[x].id, list |-> shop[x].list]
  /\ \A k \in DOMAIN shop[x].list :
       shop[x].list[k][1] # Nobody /\ cart[x][k] = shop[x].list[k][1]
StockInv == Tables /\ \A p \in Player : Vends(p) => Stocked(p)

LEMMA SameStock ==
  ASSUME NEW x, Vends(x) => Stocked(x), cart'[x] = cart[x], shop'[x] = shop[x]
  PROVE  Vends(x)' => Stocked(x)'
BY DEF Vends, Stocked

\* What a merchant without a shop does to his cart is nothing to the shops.
LEMMA CartSteps ==
  ASSUME StockInv, LinkInv', NEW p \in Player, ~Vends(p),
         NEW k, NEW i, cart' = [cart EXCEPT ![p][k] = i], UNCHANGED shop
  PROVE  StockInv'
<1>1. \A x \in Player \ {p} : cart'[x] = cart[x]
  BY DEF StockInv, Tables
<1>2. cart' = [x \in Player |-> [j \in Place |-> cart'[x][j]]]
  BY DEF StockInv, Tables
<1>3. ASSUME NEW x \in Player PROVE Vends(x)' => Stocked(x)'
  <2>1. CASE x = p
    BY <2>1 DEF Vends
  <2>2. CASE x # p
    BY <1>1, <2>2, SameStock DEF StockInv
  <2> QED
    BY <2>1, <2>2
<1> QED
  BY <1>2, <1>3 DEF StockInv, Tables

\* A shop is opened with what lies in the cart.
LEMMA OpenSteps ==
  ASSUME StockInv, LinkInv', NEW p \in Player, OpenVending(p)
  PROVE  StockInv'
<1>1. PICK places \in SUBSET Filled(p) \ {{}}, price \in [Place -> 0 .. MaxZeny] :
        shop' = [shop EXCEPT ![p] =
                   [id |-> shops + 1, list |-> [k \in places |-> <<cart[p][k], price[k]>>]]]
  BY DEF OpenVending
<1>2. places \subseteq Place /\ \A k \in places : cart[p][k] # Nobody
  BY <1>1 DEF Filled
<1>3. cart' = cart
  BY DEF OpenVending
<1>4. shop' = [x \in Player |-> shop'[x]] /\ \A x \in Player \ {p} : shop'[x] = shop[x]
  BY <1>1 DEF StockInv, Tables
<1>5. shop'[p] = [id |-> shops + 1, list |-> [k \in places |-> <<cart[p][k], price[k]>>]]
  BY <1>1 DEF StockInv, Tables
<1>6. Stocked(p)'
  BY <1>2, <1>3, <1>5 DEF Stocked
<1>7. ASSUME NEW x \in Player PROVE Vends(x)' => Stocked(x)'
  <2>1. CASE x # p
    BY <1>3, <1>4, <2>1, SameStock DEF StockInv
  <2> QED
    BY <1>6, <2>1
<1> QED
  BY <1>3, <1>4, <1>7 DEF StockInv, Tables

\* A purchase takes the same places out of the cart and out of the list.
LEMMA SaleSteps ==
  ASSUME StockInv, LinkInv', NEW p, NEW q \in Player, NEW want \in SUBSET Place,
         Vends(q), Sells(p, q, want)
  PROVE  StockInv'
<1> DEFINE left == [k \in DOMAIN shop[q].list \ want |-> shop[q].list[k]]
<1>1. cart' = [cart EXCEPT ![q] = [k \in Place |-> IF k \in want THEN Nobody ELSE @[k]]]
  BY DEF Sells
<1>2. shop' = [shop EXCEPT ![q].list = left]
  BY DEF Sells, Unsold
<1>3. \A x \in Player \ {q} : cart'[x] = cart[x] /\ shop'[x] = shop[x]
  BY <1>1, <1>2 DEF StockInv, Tables
<1>4. \A k \in Place \ want : cart'[q][k] = cart[q][k]
  BY <1>1 DEF StockInv, Tables
<1>5. shop'[q] = [id |-> shop[q].id, list |-> left]
  <2>1. shop'[q] = [shop[q] EXCEPT !.list = left]
    BY <1>2 DEF StockInv, Tables
  <2>2. shop[q] = [id |-> shop[q].id, list |-> shop[q].list]
    BY DEF StockInv, Stocked
  <2> QED
    BY <2>1, <2>2
<1>6. cart' = [x \in Player |-> [k \in Place |-> cart'[x][k]]]
  BY <1>1 DEF StockInv, Tables
<1>7. shop' = [x \in Player |-> shop'[x]]
  BY <1>2 DEF StockInv, Tables
<1>8. Stocked(q)'
  <2>1. shop'[q].list = left /\ shop'[q].id = shop[q].id
    BY <1>5
  <2>2. Stocked(q)
    BY DEF StockInv
  <2> QED
    BY <1>4, <1>5, <2>1, <2>2 DEF Stocked
<1>9. ASSUME NEW x \in Player PROVE Vends(x)' => Stocked(x)'
  <2>1. CASE x # q
    BY <1>3, <2>1, SameStock DEF StockInv
  <2> QED
    BY <1>8, <2>1
<1> QED
  BY <1>6, <1>7, <1>9 DEF StockInv, Tables

\* A shop that is closed is none.
LEMMA CloseSteps ==
  ASSUME StockInv, LinkInv', NEW p \in Player,
         cart' = cart, shop' = [shop EXCEPT ![p] = NoShop]
  PROVE  StockInv'
<1>1. shop' = [x \in Player |-> shop'[x]] /\ \A x \in Player \ {p} : shop'[x] = shop[x]
  BY DEF StockInv, Tables
<1>2. shop'[p] = NoShop
  BY DEF StockInv, Tables
<1>3. ASSUME NEW x \in Player PROVE Vends(x)' => Stocked(x)'
  <2>1. CASE x # p
    BY <1>1, <2>1, SameStock DEF StockInv
  <2> QED
    BY <1>2, <2>1 DEF Vends
<1> QED
  BY <1>1, <1>3 DEF StockInv, Tables

LEMMA StockNext ==
  ASSUME StockInv, [MarketNext]_marketVars
  PROVE  StockInv'
<1>0. LinkInv'
  BY MarketLinked DEF StockInv, Tables
<1>1. ASSUME UNCHANGED <<cart, shop>> PROVE StockInv'
  BY <1>0, <1>1, SameStock DEF StockInv, Tables
<1>2. ASSUME NEW p \in Player, TradeStep(p) PROVE StockInv'
  BY <1>0, <1>1, <1>2, CloseSteps DEF TradeStep, LeaveMarket, stalls
<1>3. ASSUME NEW p \in Player, StallStep(p) PROVE StockInv'
  <2>1. ASSUME NEW s \in Slot, PutItemToCart(p, s) PROVE StockInv'
    BY <1>0, <2>1, CartSteps DEF PutItemToCart, CanAct
  <2>2. ASSUME NEW k \in Place, GetItemFromCart(p, k) PROVE StockInv'
    BY <1>0, <2>2, CartSteps DEF GetItemFromCart, CanAct
  <2>3. CASE CloseVending(p)
    BY <1>0, <2>3, CloseSteps DEF CloseVending
  <2>4. ASSUME NEW want \in SUBSET Place, NEW near, PurchaseReq(p, want, near) PROVE StockInv'
    <3> DEFINE q == viewed[p].of
    <3>1. CASE UNCHANGED <<cart, shop>>
      BY <1>1, <3>1
    <3>2. CASE MayPurchase(p, q, want) /\ Sells(p, q, want)
      <4>1. q \in Player /\ Vends(q)
        BY <3>2 DEF MayPurchase, SameShop, StockInv, Tables, LinkInv, LinkType
      <4> QED
        BY <1>0, <3>2, <4>1, SaleSteps
    <3> QED
      BY <2>4, <3>1, <3>2 DEF PurchaseReq
  <2>5. CASE OpenVending(p)
    BY <1>0, <2>5, OpenSteps
  <2>6. CASE Vending(p) \/ CancelVending(p) \/ \E q \in Player : VendingListReq(p, q)
    BY <1>1, <2>6 DEF Vending, CancelVending, VendingListReq
  <2> QED
    BY <1>3, <2>1, <2>2, <2>3, <2>4, <2>5, <2>6 DEF StallStep
<1> QED
  BY <1>1, <1>2, <1>3, MarketSteps DEF marketVars, stalls

\* What a shop's list names is in the cart, for any number of shops, places and
\* buyers.
THEOREM StockCorrect == MarketSpec => []InStock
<1>1. MarketInit => StockInv
  BY MarketStart DEF MarketInit, StockInv, Tables, Vends
<1>2. StockInv => InStock
  BY DEF StockInv, Stocked, InStock
<1> QED
  BY <1>1, <1>2, StockNext, PTL DEF MarketSpec

----------------------------------------------------------------------------
(* What a purchase brings. *)

Slots == [Slot -> Item \cup {Nobody}]
\* pc_additem takes one item more where a slot is open and the load allows it.
Takes(slots, one, i) ==
  /\ Items(one) = Items(slots) \cup {i}
  /\ Weight(one) <= Weight(slots) + 1
  /\ Cardinality(Open(slots)) <= Cardinality(Open(one)) + 1

LEMMA AdditemTakes ==
  ASSUME NEW slots \in Slots, NEW p \in Player, NEW i \in Item \cup {Nobody}
  PROVE  /\ Additem(slots, p, i) \in Slots
         /\ i # Nobody /\ Weight(slots) < MaxWeight[p] /\ Cardinality(Open(slots)) > 0
              => Takes(slots, Additem(slots, p, i), i)
<1> DEFINE t == FirstFree(slots)
           one == [slots EXCEPT ![t] = i]
<1>1. Additem(slots, p, i) \in {slots, one}
  BY DEF Additem
<1>2. one \in Slots
  BY DEF Slots
<1>3. ASSUME i # Nobody, Weight(slots) < MaxWeight[p], Cardinality(Open(slots)) > 0
      PROVE  Takes(slots, Additem(slots, p, i), i)
  <2>1. Open(slots) # {}
    <3>1. Cardinality({}) = 0
      BY FS_EmptySet
    <3> QED
      BY <1>3, <3>1
  <2>2. PICK y : y \in Open(slots)
    BY <2>1
  <2>3. y \in FreeIn(slots) /\ y \in 1 .. OpenSlots
    BY <2>2 DEF Open
  <2>4. t \in 1 .. MaxInventory + 1 /\ t <= y
    BY <2>3, FreePlace
  <2>5. t <= OpenSlots
    BY <2>3, <2>4, Limits
  <2>6. t \in Slot /\ slots[t] = Nobody
    BY <2>5, FreePlace
  <2>7. Additem(slots, p, i) = one
    <3>1. ~(Weight(slots) >= MaxWeight[p])
      BY <1>3, WeightIs
    <3>2. ~(t > OpenSlots)
      <4> HIDE DEF t
      <4> QED
        BY <2>4, <2>5, Limits
    <3> QED
      BY <3>1, <3>2 DEF Additem
  <2> HIDE DEF t
  <2>8. one[t] = i /\ \A x \in Slot \ {t} : one[x] = slots[x]
    BY <2>6 DEF Slots
  <2> HIDE DEF one
  <2>9. Items(one) = Items(slots) \cup {i}
    BY <1>3, <2>6, <2>8 DEF Items
  <2>10. Weight(one) <= Weight(slots) + 1
    <3>1. \A x \in Slot : x # t /\ one[x] # Nobody => slots[x] # Nobody
      BY <2>8
    <3> QED
      BY <3>1, WeightStep
  <2>11. Cardinality(Open(slots)) <= Cardinality(Open(one)) + 1
    <3>1. \A x \in Slot : x # t /\ one[x] # Nobody => slots[x] # Nobody
      BY <2>8
    <3> QED
      BY <3>1, OpenStep
  <2> QED
    BY <2>7, <2>9, <2>10, <2>11 DEF Takes
<1> QED
  BY <1>1, <1>2, <1>3

\* The inventories as the items of a purchase arrive.
Arrivals(after, p, q, want) ==
  /\ after[0] = inv[p]
  /\ \A k \in 1 .. CartSize :
       after[k] = IF k \in want THEN Additem(after[k - 1], p, cart[q][k]) ELSE after[k - 1]

CartType == cart \in [Player -> [Place -> Item \cup {Nobody}]]

LEMMA CartLimit == CartSize \in Nat /\ MaxShops \in Nat
OBVIOUS

LEMMA PlaceIs ==
  /\ IsFiniteSet(Place)
  /\ \A k \in Place : k \in Nat /\ k > 0 /\ k <= CartSize /\ ~(k <= 0)
<1>1. IsFiniteSet(1 .. CartSize)
  BY FS_Interval, CartLimit
<1> QED
  BY <1>1, CartLimit DEF Place

LEMMA BoughtIs ==
  ASSUME inv \in Table, CartType, NEW p \in Player, NEW q \in Player, NEW want \in SUBSET Place
  PROVE  \E after \in [0 .. CartSize -> Slots] :
           Arrivals(after, p, q, want) /\ Bought(p, q, want) = after[CartSize]
<1> DEFINE Is(f) == f = [k \in 0 .. CartSize |->
                         IF k = 0 THEN inv[p]
                         ELSE IF k \in want THEN Additem(f[k - 1], p, cart[q][k]) ELSE f[k - 1]]
           it == CHOOSE f : Is(f)
           G == [pair \in Slots \X (1 .. CartSize) |->
                   IF pair[2] \in want THEN Additem(pair[1], p, cart[q][pair[2]]) ELSE pair[1]]
<1>1. inv[p] \in Slots
  BY DEF Slots, Table
<1>2. ASSUME NEW x \in Slots, NEW k \in 1 .. CartSize
      PROVE  /\ G[<<x, k>>] = IF k \in want THEN Additem(x, p, cart[q][k]) ELSE x
             /\ (IF k \in want THEN Additem(x, p, cart[q][k]) ELSE x) \in Slots
  <2>1. cart[q][k] \in Item \cup {Nobody}
    BY DEF CartType, Place
  <2>2. Additem(x, p, cart[q][k]) \in Slots
    BY <2>1, AdditemTakes
  <2> QED
    BY <2>2
<1>3. G \in [Slots \X (1 .. CartSize) -> Slots]
  BY <1>2
<1> HIDE DEF G
<1>4. PICK f \in [0 .. CartSize -> Slots] : Runs(f, inv[p], CartSize, G)
  BY <1>1, <1>3, Repeated, CartLimit
<1>5. ASSUME NEW k \in 0 .. CartSize, k # 0
      PROVE  f[k] = IF k \in want THEN Additem(f[k - 1], p, cart[q][k]) ELSE f[k - 1]
  <2>1. k - 1 \in 0 .. CartSize /\ k \in 1 .. CartSize
    BY <1>5, CartLimit
  <2>2. f[k - 1] \in Slots
    BY <2>1
  <2> QED
    BY <1>2, <1>4, <1>5, <2>1, <2>2 DEF Runs
<1>6. Is(f)
  <2>1. \A k \in 0 .. CartSize :
          f[k] = IF k = 0 THEN inv[p]
                 ELSE IF k \in want THEN Additem(f[k - 1], p, cart[q][k]) ELSE f[k - 1]
    BY <1>4, <1>5 DEF Runs
  <2> QED
    BY <2>1
<1>7. Is(it)
  BY <1>6
<1>8. Bought(p, q, want) = it[CartSize]
  BY DEF Bought
<1> HIDE DEF it
<1>9. \A k \in 0 .. CartSize :
        it[k] = IF k = 0 THEN inv[p]
                ELSE IF k \in want THEN Additem(it[k - 1], p, cart[q][k]) ELSE it[k - 1]
  BY <1>7
<1>10. Arrivals(it, p, q, want)
  <2>1. it[0] = inv[p]
    BY <1>9, CartLimit
  <2>2. ASSUME NEW k \in 1 .. CartSize
        PROVE  it[k] = IF k \in want THEN Additem(it[k - 1], p, cart[q][k]) ELSE it[k - 1]
    <3>1. k \in 0 .. CartSize /\ k # 0
      BY CartLimit
    <3> QED
      BY <1>9, <3>1
  <2> QED
    BY <2>1, <2>2 DEF Arrivals
<1> DEFINE D == {k \in Nat : k <= CartSize => it[k] \in Slots}
<1>11. 0 \in D
  BY <1>1, <1>10 DEF Arrivals
<1>12. ASSUME NEW k \in Nat, k \in D PROVE k + 1 \in D
  <2>1. CASE k + 1 <= CartSize
    <3>1. k + 1 \in 1 .. CartSize /\ (k + 1) - 1 = k /\ k <= CartSize
      BY <2>1, CartLimit
    <3>2. it[k + 1] = IF k + 1 \in want THEN Additem(it[k], p, cart[q][k + 1]) ELSE it[k]
      BY <1>10, <3>1 DEF Arrivals
    <3>3. it[k] \in Slots
      BY <1>12, <3>1
    <3>4. it[k + 1] \in Slots
      <4>1. CASE k + 1 \in want
        <5>1. cart[q][k + 1] \in Item \cup {Nobody}
          BY <4>1 DEF CartType
        <5> QED
          BY <3>2, <3>3, <4>1, <5>1, AdditemTakes
      <4> QED
        BY <3>2, <3>3, <4>1
    <3> QED
      BY <3>4
  <2> QED
    BY <2>1
<1>13. \A k \in Nat : k \in D
  <2> HIDE DEF D
  <2> QED
    BY <1>11, <1>12, Induction
<1>14. it \in [0 .. CartSize -> Slots]
  <2>1. \A k \in 0 .. CartSize : it[k] \in Slots
    BY <1>13, CartLimit
  <2> QED
    BY <1>7, <2>1
<1> QED
  BY <1>8, <1>10, <1>14

\* The places of a purchase that have been served after place k.
Done(want, k) == {j \in want : j <= k}

LEMMA DoneCount ==
  ASSUME NEW want \in SUBSET Place, NEW k \in Nat
  PROVE  /\ IsFiniteSet(want) /\ Cardinality(want) \in Nat
         /\ Cardinality(Done(want, k)) \in Nat /\ Cardinality(Done(want, k)) <= Cardinality(want)
         /\ k + 1 \in want => /\ Done(want, k + 1) = Done(want, k) \cup {k + 1}
                              /\ Cardinality(Done(want, k + 1)) = Cardinality(Done(want, k)) + 1
         /\ k + 1 \notin want => Done(want, k + 1) = Done(want, k)
<1>1. IsFiniteSet(want) /\ Cardinality(want) \in Nat
  BY PlaceIs, FS_Subset, FS_CardinalityType
<1>2. IsFiniteSet(Done(want, k)) /\ Cardinality(Done(want, k)) <= Cardinality(want)
  <2>1. Done(want, k) \subseteq want
    BY DEF Done
  <2> QED
    BY <1>1, <2>1, FS_Subset
<1>3. Cardinality(Done(want, k)) \in Nat
  BY <1>2, FS_CardinalityType
<1>4. \A j \in want : j \in Int
  BY PlaceIs
<1>5. ASSUME k + 1 \in want
      PROVE  /\ Done(want, k + 1) = Done(want, k) \cup {k + 1}
             /\ Cardinality(Done(want, k + 1)) = Cardinality(Done(want, k)) + 1
  <2>1. Done(want, k + 1) = Done(want, k) \cup {k + 1} /\ k + 1 \notin Done(want, k)
    BY <1>4, <1>5 DEF Done
  <2> QED
    BY <1>2, <2>1, FS_AddElement
<1>6. k + 1 \notin want => Done(want, k + 1) = Done(want, k)
  BY <1>4 DEF Done
<1> QED
  BY <1>1, <1>2, <1>3, <1>5, <1>6

\* The inventory when the places up to k have been served.
Served(slots, p, q, want, k) ==
  /\ Items(slots) = Items(inv[p]) \cup {cart[q][j] : j \in Done(want, k)}
  /\ Weight(slots) <= Weight(inv[p]) + Cardinality(Done(want, k))
  /\ Cardinality(Open(inv[p])) <= Cardinality(Open(slots)) + Cardinality(Done(want, k))

LEMMA ServedNext ==
  ASSUME CartType, NEW p \in Player, NEW q \in Player, NEW want \in SUBSET Place,
         \A k \in want : cart[q][k] # Nobody,
         CanCarry(p, Cardinality(want)),
         NEW slots \in Slots, NEW k \in Nat, k + 1 \in want, Served(slots, p, q, want, k)
  PROVE  Served(Additem(slots, p, cart[q][k + 1]), p, q, want, k + 1)
<1> DEFINE i == cart[q][k + 1]
           one == Additem(slots, p, i)
           n == Cardinality(Done(want, k))
<1>1. /\ n \in Nat /\ Cardinality(want) \in Nat /\ n + 1 <= Cardinality(want)
      /\ Done(want, k + 1) = Done(want, k) \cup {k + 1} /\ Cardinality(Done(want, k + 1)) = n + 1
  <2>1. Cardinality(Done(want, k + 1)) <= Cardinality(want) /\ k + 1 \in Nat
    BY DoneCount
  <2> QED
    BY <2>1, DoneCount
<1>2. /\ Weight(slots) \in Nat /\ Weight(inv[p]) \in Nat /\ MaxWeight[p] \in Nat
      /\ Cardinality(Open(slots)) \in Nat /\ Cardinality(Open(inv[p])) \in Nat
  BY WeightIs, OpenFinite
<1>3. /\ Cardinality(want) <= Cardinality(Open(inv[p]))
      /\ Weight(inv[p]) + Cardinality(want) <= MaxWeight[p]
  BY DEF CanCarry, Room, Open
<1>4. Weight(slots) <= Weight(inv[p]) + n /\ Cardinality(Open(inv[p])) <= Cardinality(Open(slots)) + n
  BY DEF Served
<1>5. i \in Item \cup {Nobody} /\ i # Nobody
  BY DEF CartType
<1> HIDE DEF n, i
<1>6. Weight(slots) < MaxWeight[p] /\ Cardinality(Open(slots)) > 0
  BY <1>1, <1>2, <1>3, <1>4
<1>7. Takes(slots, one, i)
  BY <1>5, <1>6, AdditemTakes
<1> HIDE DEF one
<1>8. Weight(one) \in Nat /\ Cardinality(Open(one)) \in Nat
  BY WeightIs, OpenFinite
<1>9. Items(one) = Items(inv[p]) \cup {cart[q][j] : j \in Done(want, k + 1)}
  <2>1. Items(slots) = Items(inv[p]) \cup {cart[q][j] : j \in Done(want, k)}
    BY DEF Served
  <2> QED
    BY <1>1, <1>7, <2>1 DEF Takes, i
<1>10. Weight(one) <= Weight(inv[p]) + (n + 1)
  BY <1>1, <1>2, <1>4, <1>7, <1>8 DEF Takes
<1>11. Cardinality(Open(inv[p])) <= Cardinality(Open(one)) + (n + 1)
  BY <1>1, <1>2, <1>4, <1>7, <1>8 DEF Takes
<1> QED
  BY <1>1, <1>9, <1>10, <1>11 DEF Served, one, i

\* Everything that was bought has arrived.
LEMMA BoughtAll ==
  ASSUME inv \in Table, CartType, NEW p \in Player, NEW q \in Player, NEW want \in SUBSET Place
  PROVE  /\ Bought(p, q, want) \in Slots
         /\ (\A k \in want : cart[q][k] # Nobody) /\ CanCarry(p, Cardinality(want))
              => Items(Bought(p, q, want)) = Items(inv[p]) \cup {cart[q][k] : k \in want}
<1>1. PICK after \in [0 .. CartSize -> Slots] :
             Arrivals(after, p, q, want) /\ Bought(p, q, want) = after[CartSize]
  BY BoughtIs
<1>2. Bought(p, q, want) \in Slots
  BY <1>1, CartLimit
<1>3. ASSUME \A k \in want : cart[q][k] # Nobody, CanCarry(p, Cardinality(want))
      PROVE  Items(Bought(p, q, want)) = Items(inv[p]) \cup {cart[q][k] : k \in want}
  <2> DEFINE D == {k \in Nat : k <= CartSize => Served(after[k], p, q, want, k)}
  <2>1. 0 \in D
    <3>1. Done(want, 0) = {}
      BY PlaceIs DEF Done
    <3>2. Cardinality({}) = 0
      BY FS_EmptySet
    <3>3. Weight(inv[p]) <= Weight(inv[p]) + 0 /\ Cardinality(Open(inv[p])) <= Cardinality(Open(inv[p])) + 0
      BY WeightIs, OpenFinite
    <3> QED
      BY <1>1, <3>1, <3>2, <3>3 DEF Arrivals, Served
  <2>2. ASSUME NEW k \in Nat, k \in D PROVE k + 1 \in D
    <3>1. CASE k + 1 <= CartSize
      <4>1. k + 1 \in 1 .. CartSize /\ (k + 1) - 1 = k /\ k <= CartSize /\ k \in 0 .. CartSize
        BY <3>1, CartLimit
      <4>2. after[k + 1] = IF k + 1 \in want THEN Additem(after[k], p, cart[q][k + 1]) ELSE after[k]
        BY <1>1, <4>1 DEF Arrivals
      <4>3. after[k] \in Slots /\ Served(after[k], p, q, want, k)
        BY <2>2, <4>1
      <4>4. CASE k + 1 \in want
        <5>1. Served(after[k + 1], p, q, want, k + 1)
          BY <1>3, <4>2, <4>3, <4>4, ServedNext
        <5> QED
          BY <5>1
      <4>5. CASE k + 1 \notin want
        <5>1. Done(want, k + 1) = Done(want, k)
          BY <4>5, DoneCount
        <5>2. Served(after[k + 1], p, q, want, k + 1)
          BY <4>2, <4>3, <4>5, <5>1 DEF Served
        <5> QED
          BY <5>2
      <4> QED
        BY <4>4, <4>5
    <3> QED
      BY <3>1
  <2>3. CartSize \in D
    <3> HIDE DEF D
    <3> QED
      BY <2>1, <2>2, CartLimit, Induction
  <2>4. Served(after[CartSize], p, q, want, CartSize)
    BY <2>3, CartLimit
  <2>5. Done(want, CartSize) = want
    BY PlaceIs DEF Done
  <2> QED
    BY <1>1, <2>4, <2>5 DEF Served
<1> QED
  BY <1>2, <1>3

----------------------------------------------------------------------------
(* Types, and what a buyer was shown. *)

\* An open shop has a number that was given out, and prices.
Priced(p) ==
  /\ shop[p].id \in Nat /\ shop[p].id <= shops
  /\ \A k \in DOMAIN shop[p].list : shop[p].list[k][2] \in 0 .. MaxZeny

\* A list that was shown is that of a shop that is gone, or says of what is left to buy
\* there what there is, at its price.
Shown(p) ==
  LET q == viewed[p].of
  IN  /\ viewed[p].id \in Nat /\ viewed[p].id <= shops
      /\ q \in Player /\ Vends(q) /\ shop[q].id = viewed[p].id
           => \A k \in DOMAIN shop[q].list : viewed[p].list[k] = shop[q].list[k]

Lists ==
  /\ shops \in Nat
  /\ viewed = [p \in Player |-> viewed[p]]
  /\ \A p \in Player : Vends(p) => Priced(p)
  /\ \A p \in Player : viewed[p] # NoShop => Shown(p)

MarketInv == StockInv /\ WindowType /\ GoodsType /\ CartType /\ Lists

LEMMA SumIs == ASSUME NEW price PROVE Sum(price) = AddUp(price, DOMAIN price)
BY DEF Sum, AddUp, MapThenSumSet, MapThenFoldSet

\* What a purchase costs.
LEMMA CostIs ==
  ASSUME StockInv, Lists, NEW p, NEW q \in Player, Vends(q),
         NEW want \in SUBSET DOMAIN shop[q].list
  PROVE  /\ want \in SUBSET Place
         /\ Sum(Wanted(p, q, want)) \in Nat
<1>1. want \subseteq Place /\ IsFiniteSet(want)
  <2>1. DOMAIN shop[q].list \subseteq Place
    BY DEF StockInv, Stocked
  <2> QED
    BY <2>1, PlaceIs, FS_Subset
<1>2. Wanted(p, q, want) \in [want -> Nat]
  <2>1. \A k \in want : shop[q].list[k][2] \in 0 .. MaxZeny
    BY DEF Lists, Priced
  <2> QED
    BY <2>1, Limits DEF Wanted
<1>3. AddUp(Wanted(p, q, want), want) \in Nat
  BY <1>1, <1>2, AddUpNat
<1>4. DOMAIN Wanted(p, q, want) = want
  BY DEF Wanted
<1> QED
  BY <1>1, <1>3, <1>4, SumIs

\* The money of a purchase.
LEMMA SaleZeny ==
  ASSUME GoodsType, NEW p \in Player, NEW q \in Player \ {p}, NEW z \in Nat,
         z <= zeny[p], z + zeny[q] <= MaxZeny,
         zeny' = [zeny EXCEPT ![p] = @ - z, ![q] = Min({MaxZeny, @ + z})]
  PROVE  /\ zeny' \in Purse
         /\ zeny'[p] = zeny[p] - z
         /\ AddUp(zeny', Player) = AddUp(zeny, Player)
<1>1. zeny \in Purse /\ zeny[p] \in 0 .. MaxZeny /\ zeny[q] \in 0 .. MaxZeny /\ MaxZeny \in Nat
  BY Limits DEF GoodsType, Purse
<1>2. Min({MaxZeny, zeny[q] + z}) = zeny[q] + z
  <2>1. zeny[q] + z \in Nat /\ zeny[q] + z <= MaxZeny
    BY <1>1
  <2> QED
    BY <1>1, <2>1, MinOfTwo
<1>3. zeny[p] - z \in 0 .. MaxZeny /\ zeny[q] + z \in 0 .. MaxZeny
  BY <1>1
<1>4. zeny' = [zeny EXCEPT ![p] = zeny[p] - z, ![q] = zeny[q] + z]
  BY <1>1, <1>2 DEF Purse
<1>5. zeny' \in Purse
  BY <1>1, <1>3, <1>4 DEF Purse
<1>6. zeny'[p] = zeny[p] - z /\ zeny'[q] = zeny[q] + z /\ \A x \in Player \ {p, q} : zeny'[x] = zeny[x]
  BY <1>1, <1>4 DEF Purse
<1>7. zeny'[p] + zeny'[q] = zeny[p] + zeny[q]
  BY <1>1, <1>6
<1>8. zeny \in [Player -> Int] /\ zeny' \in [Player -> Int]
  BY <1>1, <1>5, Limits DEF Purse
<1>9. IsFiniteSet(Player)
  OBVIOUS
<1>10. AddUp(zeny', Player) = AddUp(zeny, Player)
  BY <1>6, <1>7, <1>8, <1>9, AddUpMoved
<1> QED
  BY <1>5, <1>6, <1>10

\* A purchase that goes through.
Sale(p, q, want) ==
  /\ p \in Player /\ q \in Player \ {p} /\ want \in SUBSET Place
  /\ viewed[p].of = q /\ MayPurchase(p, q, want) /\ Sells(p, q, want)

LEMMA SaleFacts ==
  ASSUME MarketInv, NEW p, NEW q, NEW want, Sale(p, q, want)
  PROVE  /\ Vends(q) /\ shop[q].id = viewed[p].id /\ want \subseteq DOMAIN shop[q].list
         /\ Sum(Wanted(p, q, want)) \in Nat
         /\ zeny' \in Purse /\ AddUp(zeny', Player) = AddUp(zeny, Player)
         /\ zeny'[p] = zeny[p] - Sum(Wanted(p, q, want))
         /\ inv' \in Table
         /\ Items(inv'[p]) = Items(inv[p]) \cup {cart[q][k] : k \in want}
         /\ CartType'
         /\ \A k \in Place : cart'[q][k] = IF k \in want THEN Nobody ELSE cart[q][k]
         /\ \A k \in want : cart[q][k] = shop[q].list[k][1] /\ cart[q][k] # Nobody
<1>1. p \in Player /\ q \in Player \ {p} /\ want \in SUBSET Place
  BY DEF Sale
<1>2. Vends(q) /\ shop[q].id = viewed[p].id /\ want \subseteq DOMAIN shop[q].list
      /\ CanCarry(p, Cardinality(want))
  BY DEF Sale, MayPurchase, SameShop
<1>3. Sum(Wanted(p, q, want)) \in Nat
  BY <1>1, <1>2, CostIs DEF MarketInv
<1>4. /\ zeny' \in Purse /\ AddUp(zeny', Player) = AddUp(zeny, Player)
      /\ zeny'[p] = zeny[p] - Sum(Wanted(p, q, want))
  <2> DEFINE z == Sum(Wanted(p, q, want))
  <2>1. z <= zeny[p] /\ z + zeny[q] <= MaxZeny
    BY DEF Sale, MayPurchase
  <2>2. zeny' = [zeny EXCEPT ![p] = @ - z, ![q] = Min({MaxZeny, @ + z})]
    BY DEF Sale, Sells
  <2>3. GoodsType
    BY DEF MarketInv
  <2> HIDE DEF z
  <2>4. z \in Nat
    BY <1>3 DEF z
  <2>5. /\ zeny' \in Purse /\ AddUp(zeny', Player) = AddUp(zeny, Player)
        /\ zeny'[p] = zeny[p] - z
    BY <1>1, <2>1, <2>2, <2>3, <2>4, SaleZeny
  <2> QED
    BY <2>5 DEF z
<1>5. \A k \in want : cart[q][k] = shop[q].list[k][1] /\ cart[q][k] # Nobody
  <2>1. Stocked(q)
    BY <1>1, <1>2 DEF MarketInv, StockInv
  <2> QED
    BY <1>2, <2>1 DEF Stocked
<1>6. inv \in Table /\ CartType
  BY DEF MarketInv, GoodsType
<1>7. Bought(p, q, want) \in Slots
      /\ Items(Bought(p, q, want)) = Items(inv[p]) \cup {cart[q][k] : k \in want}
  BY <1>1, <1>2, <1>5, <1>6, BoughtAll
<1>8. inv' \in Table /\ inv'[p] = Bought(p, q, want)
  <2>1. inv' = [inv EXCEPT ![p] = Bought(p, q, want)]
    BY DEF Sale, Sells
  <2> QED
    BY <1>1, <1>6, <1>7, <2>1 DEF Table, Slots
<1>9. /\ CartType'
      /\ \A k \in Place : cart'[q][k] = IF k \in want THEN Nobody ELSE cart[q][k]
  <2>1. cart' = [cart EXCEPT ![q] = [k \in Place |-> IF k \in want THEN Nobody ELSE cart[q][k]]]
    BY <1>1, <1>6 DEF Sale, Sells, CartType
  <2>2. [k \in Place |-> IF k \in want THEN Nobody ELSE cart[q][k]] \in [Place -> Item \cup {Nobody}]
    BY <1>1, <1>6 DEF CartType
  <2> QED
    BY <1>1, <1>6, <2>1, <2>2 DEF CartType
<1> QED
  BY <1>2, <1>3, <1>4, <1>5, <1>7, <1>8, <1>9

\* The step of a buyer either is a sale or changes no goods.
LEMMA PurchaseIs ==
  ASSUME MarketInv, NEW p \in Player, NEW want \in SUBSET Place, NEW near, PurchaseReq(p, want, near)
  PROVE  \/ Sale(p, viewed[p].of, want)
         \/ UNCHANGED <<zeny, inv, cart, shop, grown, refilled>>
<1> DEFINE q == viewed[p].of
<1>1. ASSUME MayPurchase(p, q, want), Sells(p, q, want) PROVE Sale(p, q, want)
  <2>1. q \in Player \ {p}
    BY <1>1 DEF MayPurchase, MarketInv, StockInv, Tables, LinkInv, LinkType
  <2> QED
    BY <1>1, <2>1 DEF Sale
<1> QED
  BY <1>1 DEF PurchaseReq

\* Shops keep the types of inventories, purses and carts.
LEMMA StallGoods ==
  ASSUME MarketInv, NEW p \in Player, StallStep(p)
  PROVE  WindowType' /\ GoodsType' /\ CartType'
<1>1. inv \in Table /\ zeny \in Purse /\ CartType /\ WindowType
  BY DEF MarketInv, GoodsType, Purse
<1>2. WindowType'
  <2>1. UNCHANGED <<partner, locked, deal, money, seen>>
    BY DEF StallStep, PutItemToCart, GetItemFromCart, Vending, CancelVending, OpenVending,
           CloseVending, VendingListReq, PurchaseReq, vars, window
  <2>2. grown' \subseteq Player /\ refilled' \subseteq Player
    <3>1. ASSUME NEW want, NEW near, PurchaseReq(p, want, near)
          PROVE  grown' \in {grown, grown \cup {p}} /\ refilled' \in {refilled, refilled \cup {p}}
      BY <3>1 DEF PurchaseReq, Sells, Gets
    <3>2. grown' \in {grown, grown \cup {p}} /\ refilled' \in {refilled, refilled \cup {p}}
      BY <3>1 DEF StallStep, PutItemToCart, GetItemFromCart, Vending, CancelVending, OpenVending,
         CloseVending, VendingListReq, vars, window
    <3> QED
      BY <1>1, <3>2 DEF WindowType
  <2> QED
    BY <1>1, <2>1, <2>2, SameWindow
<1>3. ASSUME NEW x \in Slots, inv' = [inv EXCEPT ![p] = x] PROVE inv' \in Table
  BY <1>1, <1>3 DEF Table, Slots
<1>4. inv[p] \in Slots
  BY <1>1 DEF Table, Slots
<1>5. ASSUME NEW k, NEW i \in Item \cup {Nobody}, cart' = [cart EXCEPT ![p][k] = i] PROVE CartType'
  <2>1. [cart[p] EXCEPT ![k] = i] \in [Place -> Item \cup {Nobody}]
    BY <1>1 DEF CartType
  <2>2. cart' = [cart EXCEPT ![p] = [cart[p] EXCEPT ![k] = i]]
    BY <1>1, <1>5 DEF CartType
  <2> QED
    BY <1>1, <2>1, <2>2 DEF CartType
<1>6. ASSUME NEW t \in Slot, PutItemToCart(p, t) PROVE GoodsType' /\ CartType'
  <2>1. inv' = [inv EXCEPT ![p] = [inv[p] EXCEPT ![t] = Nobody]] /\ zeny' = zeny
        /\ cart' = [cart EXCEPT ![p][Min(Place \ Filled(p))] = inv[p][t]]
    BY <1>6 DEF PutItemToCart
  <2>2. inv[p][t] \in Item \cup {Nobody} /\ [inv[p] EXCEPT ![t] = Nobody] \in Slots
    BY <1>4 DEF Slots
  <2>3. inv' \in Table
    BY <1>3, <2>1, <2>2
  <2>4. CartType'
    BY <1>5, <2>1, <2>2
  <2> QED
    BY <1>1, <2>1, <2>3, <2>4 DEF GoodsType, Purse
<1>7. ASSUME NEW k \in Place, GetItemFromCart(p, k) PROVE GoodsType' /\ CartType'
  <2>1. /\ inv' = [inv EXCEPT ![p] = Additem(inv[p], p, cart[p][k])] /\ zeny' = zeny
        /\ cart' = [cart EXCEPT ![p][k] = Nobody]
    BY <1>7 DEF GetItemFromCart
  <2>2. cart[p][k] \in Item \cup {Nobody}
    BY <1>1 DEF CartType
  <2>3. Additem(inv[p], p, cart[p][k]) \in Slots
    BY <1>4, <2>2, AdditemTakes
  <2>4. inv' \in Table
    BY <1>3, <2>1, <2>3
  <2>5. CartType'
    BY <1>5, <2>1
  <2> QED
    BY <1>1, <2>1, <2>4, <2>5 DEF GoodsType, Purse
<1>8. CASE UNCHANGED <<inv, zeny, cart>>
  <2>1. GoodsType'
    BY <1>1, <1>8 DEF GoodsType, Purse
  <2>2. CartType'
    BY <1>1, <1>8 DEF CartType
  <2>3. WindowType'
    BY <1>2
  <2> QED
    BY <2>1, <2>2, <2>3
<1>9. CASE Vending(p) \/ CancelVending(p) \/ OpenVending(p) \/ CloseVending(p)
           \/ \E q \in Player : VendingListReq(p, q)
  <2>1. UNCHANGED <<inv, zeny, cart>>
    BY <1>9 DEF Vending, CancelVending, OpenVending, CloseVending, VendingListReq, vars, goods
  <2> QED
    BY <1>8, <2>1
<1>10. ASSUME NEW want \in SUBSET Place, NEW near, PurchaseReq(p, want, near)
       PROVE  GoodsType' /\ CartType'
  <2>1. CASE Sale(p, viewed[p].of, want)
    BY <2>1, SaleFacts DEF GoodsType, Purse
  <2>2. CASE UNCHANGED <<zeny, inv, cart>>
    BY <1>8, <2>2
  <2> QED
    BY <1>10, <2>1, <2>2, PurchaseIs
<1> QED
  BY <1>2, <1>6, <1>7, <1>9, <1>10 DEF StallStep

\* What keeps a shop, and its number, keeps what was shown of it.
LEMMA ListsStay ==
  ASSUME Lists, shops' = shops, viewed' = [x \in Player |-> viewed'[x]],
         \A x \in Player : viewed'[x] \in {viewed[x], NoShop},
         \A x \in Player : shop'[x] \in {shop[x], NoShop}
  PROVE  Lists'
<1>1. \A x \in Player : Vends(x)' => Vends(x) /\ shop'[x] = shop[x]
  BY DEF Vends
<1>2. ASSUME NEW x \in Player, Vends(x)' PROVE Priced(x)'
  BY <1>1, <1>2 DEF Lists, Priced
<1>3. ASSUME NEW x \in Player, viewed'[x] # NoShop PROVE Shown(x)'
  <2>1. viewed'[x] = viewed[x] /\ Shown(x)
    BY <1>3 DEF Lists
  <2> QED
    BY <1>1, <2>1 DEF Shown
<1> QED
  BY <1>2, <1>3 DEF Lists

\* A new shop has a number nobody was shown.
LEMMA OpenLists ==
  ASSUME StockInv, Lists, NEW p \in Player, OpenVending(p)
  PROVE  Lists'
<1>1. PICK places \in SUBSET Filled(p) \ {{}}, price \in [Place -> 0 .. MaxZeny] :
        shop' = [shop EXCEPT ![p] =
                   [id |-> shops + 1, list |-> [k \in places |-> <<cart[p][k], price[k]>>]]]
  BY DEF OpenVending
<1>2. shops' = shops + 1 /\ viewed' = viewed
  BY DEF OpenVending
<1>3. \A x \in Player \ {p} : shop'[x] = shop[x]
  BY <1>1 DEF StockInv, Tables
<1>4. shop'[p] = [id |-> shops + 1, list |-> [k \in places |-> <<cart[p][k], price[k]>>]]
  BY <1>1 DEF StockInv, Tables
<1>5. shops \in Nat
  BY DEF Lists
<1>6. Priced(p)'
  <2>1. \A k \in places : shop'[p].list[k][2] = price[k] /\ price[k] \in 0 .. MaxZeny
    BY <1>1, <1>4 DEF Filled
  <2>2. DOMAIN shop'[p].list = places /\ shop'[p].id = shops + 1
    BY <1>4
  <2> QED
    BY <1>2, <1>5, <2>1, <2>2 DEF Priced
<1>7. ASSUME NEW x \in Player \ {p}, Vends(x)' PROVE Priced(x)'
  <2>1. shop'[x] = shop[x] /\ Vends(x)
    BY <1>3, <1>7 DEF Vends
  <2>2. Priced(x)
    BY <2>1 DEF Lists
  <2> QED
    BY <1>2, <1>5, <2>1, <2>2 DEF Priced
<1>8. ASSUME NEW x \in Player, viewed'[x] # NoShop PROVE Shown(x)'
  <2> DEFINE q == viewed[x].of
  <2>1. Shown(x) /\ viewed'[x] = viewed[x]
    BY <1>2, <1>8 DEF Lists
  <2>2. viewed[x].id \in Nat /\ viewed[x].id <= shops
    BY <2>1 DEF Shown
  <2>3. ASSUME q \in Player, Vends(q)', shop'[q].id = viewed[x].id
        PROVE  \A k \in DOMAIN shop'[q].list : viewed[x].list[k] = shop'[q].list[k]
    <3>1. q # p
      <4>1. shop'[p].id = shops + 1
        BY <1>4
      <4>2. viewed[x].id # shops + 1
        BY <1>5, <2>2
      <4> QED
        BY <2>3, <4>1, <4>2
    <3>2. shop'[q] = shop[q] /\ Vends(q)
      BY <1>2, <1>3, <2>3, <3>1 DEF Vends
    <3> QED
      BY <2>1, <2>3, <3>2 DEF Shown
  <2> QED
    BY <1>2, <1>5, <2>1, <2>2, <2>3 DEF Shown
<1> QED
  BY <1>2, <1>5, <1>6, <1>7, <1>8 DEF Lists

\* A list that is shown is the list there is.
LEMMA ListReqLists ==
  ASSUME Lists, NEW p \in Player, NEW q \in Player, VendingListReq(p, q)
  PROVE  Lists'
<1>1. /\ viewed' = [viewed EXCEPT ![p] = [of |-> q, id |-> shop[q].id, list |-> shop[q].list]]
      /\ UNCHANGED <<shop, shops>> /\ Vends(q)
  BY DEF VendingListReq
<1>2. viewed' = [x \in Player |-> viewed'[x]] /\ \A x \in Player \ {p} : viewed'[x] = viewed[x]
  BY <1>1 DEF Lists
<1>3. viewed'[p] = [of |-> q, id |-> shop[q].id, list |-> shop[q].list]
  BY <1>1 DEF Lists
<1>4. Shown(p)'
  BY <1>1, <1>3 DEF Shown, Lists, Priced
<1>5. ASSUME NEW x \in Player \ {p}, viewed'[x] # NoShop PROVE Shown(x)'
  BY <1>1, <1>2, <1>5 DEF Shown, Lists, Vends
<1>6. ASSUME NEW x \in Player, Vends(x)' PROVE Priced(x)'
  BY <1>1, <1>6 DEF Priced, Lists, Vends
<1> QED
  BY <1>1, <1>2, <1>4, <1>5, <1>6 DEF Lists

\* A sale takes what was sold off the list and changes no price.
LEMMA SaleLists ==
  ASSUME MarketInv, NEW p, NEW q, NEW want, Sale(p, q, want),
         viewed' = [viewed EXCEPT ![p] = NoShop], shops' = shops
  PROVE  Lists'
<1>1. q \in Player /\ Vends(q)
  BY DEF Sale, MayPurchase, SameShop
<1>2. /\ \A x \in Player \ {q} : shop'[x] = shop[x]
      /\ shop'[q] = [id |-> shop[q].id, list |-> Unsold(shop[q].list, want)]
  <2>1. shop' = [shop EXCEPT ![q].list = Unsold(@, want)]
    BY DEF Sale, Sells
  <2>2. shop[q] = [id |-> shop[q].id, list |-> shop[q].list] /\ shop = [x \in Player |-> shop[x]]
    BY <1>1 DEF MarketInv, StockInv, Stocked, Tables
  <2> QED
    BY <1>1, <2>1, <2>2
<1>3. \A k \in DOMAIN Unsold(shop[q].list, want) :
        k \in DOMAIN shop[q].list /\ Unsold(shop[q].list, want)[k] = shop[q].list[k]
  BY DEF Unsold
<1>4. Lists
  BY DEF MarketInv
<1>5. \A x \in Player : Vends(x)' => /\ Vends(x) /\ shop'[x].id = shop[x].id
                                     /\ \A k \in DOMAIN shop'[x].list :
                                          /\ k \in DOMAIN shop[x].list
                                          /\ shop'[x].list[k] = shop[x].list[k]
  BY <1>1, <1>2, <1>3 DEF Vends
<1>6. ASSUME NEW x \in Player, Vends(x)' PROVE Priced(x)'
  BY <1>4, <1>5, <1>6 DEF Priced, Lists
<1>7. viewed' = [x \in Player |-> viewed'[x]] /\ \A x \in Player : viewed'[x] \in {viewed[x], NoShop}
  BY <1>4 DEF Lists
<1>8. ASSUME NEW x \in Player, viewed'[x] # NoShop PROVE Shown(x)'
  <2>1. viewed'[x] = viewed[x] /\ Shown(x)
    BY <1>4, <1>7, <1>8 DEF Lists
  <2> QED
    BY <1>5, <2>1 DEF Shown
<1> QED
  BY <1>4, <1>6, <1>7, <1>8 DEF Lists

LEMMA StallLists ==
  ASSUME MarketInv, NEW p \in Player, StallStep(p)
  PROVE  Lists'
<1>1. Lists /\ StockInv
  BY DEF MarketInv
<1>2. CASE UNCHANGED <<shop, viewed, shops>>
  <2>1. viewed' = [x \in Player |-> viewed'[x]]
    BY <1>1, <1>2 DEF Lists
  <2> QED
    BY <1>1, <1>2, <2>1, ListsStay
<1>3. CASE CloseVending(p)
  <2>1. shop' = [shop EXCEPT ![p] = NoShop] /\ viewed' = viewed /\ shops' = shops
    BY <1>3 DEF CloseVending
  <2>2. \A x \in Player : shop'[x] \in {shop[x], NoShop}
    BY <1>1, <2>1 DEF StockInv, Tables
  <2>3. viewed' = [x \in Player |-> viewed'[x]]
    BY <1>1, <2>1 DEF Lists
  <2> QED
    BY <1>1, <2>1, <2>2, <2>3, ListsStay
<1>4. ASSUME NEW want \in SUBSET Place, NEW near, PurchaseReq(p, want, near) PROVE Lists'
  <2>1. viewed' = [viewed EXCEPT ![p] = NoShop] /\ shops' = shops
    BY <1>4 DEF PurchaseReq
  <2>2. CASE Sale(p, viewed[p].of, want)
    BY <2>1, <2>2, SaleLists
  <2>3. CASE UNCHANGED shop
    <3>1. viewed' = [x \in Player |-> viewed'[x]] /\ \A x \in Player : viewed'[x] \in {viewed[x], NoShop}
      BY <1>1, <2>1 DEF Lists
    <3> QED
      BY <1>1, <2>1, <2>3, <3>1, ListsStay
  <2> QED
    BY <1>4, <2>2, <2>3, PurchaseIs
<1>5. CASE (\E s \in Slot : PutItemToCart(p, s)) \/ (\E k \in Place : GetItemFromCart(p, k))
           \/ Vending(p) \/ CancelVending(p)
  BY <1>2, <1>5 DEF PutItemToCart, GetItemFromCart, Vending, CancelVending
<1> QED
  BY <1>1, <1>3, <1>4, <1>5, OpenLists, ListReqLists DEF StallStep

\* A step of a trade, and a departure, leave the carts alone.
LEMMA TradeMarket ==
  ASSUME MarketInv, NEW p \in Player, TradeStep(p)
  PROVE  WindowType' /\ GoodsType' /\ CartType' /\ Lists'
<1>1. LinkInv /\ WindowType /\ GoodsType /\ CartType /\ Lists /\ StockInv
  BY DEF MarketInv, StockInv, Tables
<1>2. Asks(p) \/ Ack(p) \/ InWindow(p) \/ Enter(p) \/ Leave(p)
  BY DEF TradeStep, RequestTrade, AckTrade, LeaveMarket
<1>3. WindowType' /\ GoodsType'
  BY <1>1, <1>2, NextTypes
<1>4. cart' = cart /\ shops' = shops
  BY DEF TradeStep, LeaveMarket, stalls
<1>5. CartType'
  BY <1>1, <1>4 DEF CartType
<1>6. /\ viewed' = [x \in Player |-> viewed'[x]]
      /\ \A x \in Player : viewed'[x] \in {viewed[x], NoShop}
      /\ \A x \in Player : shop'[x] \in {shop[x], NoShop}
  BY <1>1 DEF TradeStep, LeaveMarket, stalls, Lists, StockInv, Tables
<1> QED
  BY <1>1, <1>3, <1>4, <1>5, <1>6, ListsStay

LEMMA MarketInvStart ==
  ASSUME MarketInit
  PROVE  MarketInv
<1>1. TradeType
  BY TypesStart DEF MarketInit
<1>2. StockInv
  BY MarketStart DEF MarketInit, StockInv, Tables, Vends
<1>3. CartType
  BY DEF MarketInit, CartType
<1>4. Lists
  BY CartLimit DEF MarketInit, Lists, Vends
<1> QED
  BY <1>1, <1>2, <1>3, <1>4 DEF MarketInv, TradeType

LEMMA MarketInvNext ==
  ASSUME MarketInv, [MarketNext]_marketVars
  PROVE  MarketInv'
<1>1. StockInv'
  BY StockNext DEF MarketInv
<1>2. CASE UNCHANGED marketVars
  <2>1. WindowType'
    BY <1>2, SameWindow DEF MarketInv, WindowType, marketVars, vars, window
  <2>2. GoodsType' /\ CartType'
    BY <1>2 DEF MarketInv, GoodsType, CartType, marketVars, vars, goods, stalls
  <2>3. UNCHANGED <<shop, viewed, shops>>
    BY <1>2 DEF marketVars, stalls
  <2>4. viewed' = [x \in Player |-> viewed'[x]]
    BY <2>3 DEF MarketInv, Lists
  <2>5. Lists'
    BY <2>3, <2>4, ListsStay DEF MarketInv
  <2> QED
    BY <1>1, <2>1, <2>2, <2>5 DEF MarketInv
<1>3. ASSUME NEW p \in Player, StallStep(p) \/ TradeStep(p) PROVE MarketInv'
  BY <1>1, <1>3, StallGoods, StallLists, TradeMarket DEF MarketInv
<1> QED
  BY <1>2, <1>3, MarketSteps

\* A step that empties places in a cart, and may be somebody's purchase, is his sale.
LEMMA PurchaseSale ==
  ASSUME MarketInv, cart' # cart, NEW p \in Player, NEW q \in Player, Purchase(p, q)
  PROVE  \E want : Sale(p, q, want) /\ SoldBy(q) = want
<1>1. PICK want \in SUBSET Place : PurchaseReq(p, want, TRUE)
  BY DEF Purchase
<1>2. viewed[p].of = q
  BY DEF Purchase
<1>3. Sale(p, q, want)
  BY <1>1, <1>2, PurchaseIs
<1>4. /\ \A k \in Place : cart'[q][k] = IF k \in want THEN Nobody ELSE cart[q][k]
      /\ \A k \in want : cart[q][k] # Nobody
  BY <1>3, SaleFacts
<1>5. SoldBy(q) = want
  BY <1>1, <1>4 DEF SoldBy
<1> QED
  BY <1>3, <1>5

\* A purchase makes and destroys nothing: the zeny of all players stay the same, and
\* everything that leaves the cart arrives in the inventory of the buyer, however many
\* items, slots and players there are.
THEOREM SoldCorrect == MarketSpec => Sold
<1>1. ASSUME MarketInv, cart' # cart, NEW p \in Player, NEW q \in Player, Purchase(p, q)
      PROVE  /\ Total' = Total
             /\ Items(inv[p])' = Items(inv[p]) \cup {cart[q][k] : k \in SoldBy(q)}
  <2>1. PICK want : Sale(p, q, want) /\ SoldBy(q) = want
    BY <1>1, PurchaseSale
  <2>2. /\ AddUp(zeny', Player) = AddUp(zeny, Player)
        /\ Items(inv'[p]) = Items(inv[p]) \cup {cart[q][k] : k \in want}
    BY <1>1, <2>1, SaleFacts
  <2>3. Total' = Total
    BY <2>2, SameTotal
  <2> QED
    BY <2>1, <2>2, <2>3
<1>2. MarketInv /\ [MarketNext]_marketVars
        => [cart' # cart => \A p, q \in Player : Purchase(p, q) =>
              /\ Total' = Total
              /\ Items(inv[p])' = Items(inv[p]) \cup {cart[q][k] : k \in SoldBy(q)}]_marketVars
  BY <1>1
<1> QED
  BY <1>2, MarketInvStart, MarketInvNext, PTL DEF MarketSpec, Sold

\* The buyer gets what he saw, at the price he saw: the shop he buys from is the one
\* whose list he was shown, and what is left on it is what it was.
THEOREM PaysCorrect == MarketSpec => PaysWhatHeSaw
<1>1. ASSUME MarketInv, cart' # cart, NEW p \in Player, NEW q \in Player, Purchase(p, q)
      PROVE  /\ \A k \in SoldBy(q) : cart[q][k] = viewed[p].list[k][1]
             /\ zeny[p] - zeny'[p] = Sum([k \in SoldBy(q) |-> viewed[p].list[k][2]])
  <2>1. PICK want : Sale(p, q, want) /\ SoldBy(q) = want
    BY <1>1, PurchaseSale
  <2>2. /\ Vends(q) /\ shop[q].id = viewed[p].id /\ want \subseteq DOMAIN shop[q].list
        /\ Sum(Wanted(p, q, want)) \in Nat
        /\ zeny'[p] = zeny[p] - Sum(Wanted(p, q, want))
        /\ \A k \in want : cart[q][k] = shop[q].list[k][1]
    BY <1>1, <2>1, SaleFacts
  <2>3. Shown(p) /\ viewed[p].of = q
    BY <1>1 DEF Purchase, MarketInv, Lists
  <2>4. \A k \in want : viewed[p].list[k] = shop[q].list[k]
    BY <2>2, <2>3 DEF Shown
  <2>5. [k \in want |-> viewed[p].list[k][2]] = Wanted(p, q, want)
    BY <2>4 DEF Wanted
  <2>6. zeny[p] \in Int
    BY <1>1, Limits DEF MarketInv, GoodsType
  <2>7. zeny[p] - zeny'[p] = Sum(Wanted(p, q, want))
    <3> DEFINE z == Sum(Wanted(p, q, want))
    <3>1. z \in Nat /\ zeny'[p] = zeny[p] - z
      BY <2>2
    <3> HIDE DEF z
    <3>2. zeny[p] - zeny'[p] = z
      BY <2>6, <3>1
    <3> QED
      BY <3>2 DEF z
  <2> QED
    BY <2>1, <2>2, <2>4, <2>5, <2>7
<1>2. MarketInv /\ [MarketNext]_marketVars
        => [cart' # cart => \A p, q \in Player : Purchase(p, q) =>
              LET list == viewed[p].list
              IN  /\ \A k \in SoldBy(q) : cart[q][k] = list[k][1]
                  /\ zeny[p] - zeny'[p] = Sum([k \in SoldBy(q) |-> list[k][2]])]_marketVars
  BY <1>1
<1> QED
  BY <1>2, MarketInvStart, MarketInvNext, PTL DEF MarketSpec, PaysWhatHeSaw

=============================================================================
