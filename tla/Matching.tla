-------------------------------- MODULE Matching --------------------------------
(***************************************************************************)
(* What the server does with an order (MySockTask::getMsg): it asks        *)
(* IsHaveOpponent whether a level of the other side reaches the order's    *)
(* price, then either matches it with Order::MakeOrder or gives it to the  *)
(* walk of PriceBook.  One thread; one step per loop iteration.            *)
(*                                                                         *)
(* MakeOrder has a branch for buys, too.  It is not modelled: no buy gets  *)
(* there (OnlySellsMatched).  The copy of the order that MakeOrder changes *)
(* goes back to the client; of it, only the quantity still wanted steers   *)
(* the loop.                                                               *)
(*                                                                         *)
(* Left out, too: an order of neither side, which is pushed and changes no *)
(* level, and the failures of PushOrder, which getMsg ignores.             *)
(***************************************************************************)
EXTENDS PriceBook

VARIABLES
  orderQty,   \* what the order still wants
  traded,     \* SetSellNumber > 0: MakeOrder has found a bid to trade with
  misplaced   \* AddBidNodeByOrder has run at some time (not in the code)

matchVars == <<orderQty, traded, misplaced>>
allVars == <<vars, matchVars>>

Opposite(side) == IF side = "bid" THEN "offer" ELSE "bid"
Opponent == level[Opposite(order.side)][index]

Keeps == UNCHANGED <<book, scanned, misplaced>> /\ Stays

(***************************************************************************)
(* MySockTask::getMsg and IsHaveOpponent.                                  *)
(***************************************************************************)
\* An order comes in; the search starts at the best level of the other side.
getMsg ==
  /\ pc = "idle" /\ nextOrder < OrderMax
  /\ \E o \in Orders, q \in Quantities :
       /\ PushOrder(o)
       /\ orderQty' = q
       /\ index' = list[Opposite(o.side)][o.stock].best
  /\ traded' = FALSE
  /\ pc' = "opponent"
  /\ UNCHANGED <<scanned, misplaced>>

\* Does the level the search stands at reach the order's price?
Reached == index # NULL_INDEX /\ ~Ahead(Opposite(order.side), order.price, Opponent.price)

\* Mutant of SkipUncounted: the search stays at the level it skips.
SkipInPlace ==
  /\ pc = "opponent" /\ orderQty # 0
  /\ Reached /\ Opponent.orderNumber = 0
  /\ Keeps /\ UNCHANGED <<index, pc, orderQty, traded>>

\* A level without orders of this phase does not count.
SkipUncounted ==
  /\ pc = "opponent" /\ orderQty # 0
  /\ Reached /\ Opponent.orderNumber = 0
  /\ index' = Opponent.next
  /\ Keeps /\ UNCHANGED <<pc, orderQty, traded>>

\* IsHaveOpponent is FALSE: UpdateBidByOrder or UpdateOfferByOrder takes the order.
NoOpponent ==
  /\ pc = "opponent"
  /\ orderQty = 0 \/ ~Reached
  /\ index' = list[order.side][order.stock].best
  /\ pc' = "walk"
  /\ Keeps /\ UNCHANGED <<orderQty, traded>>

\* Mutant of MakeOrder: the matching starts at the level the list ends with.
MakeOrderFromWorst ==
  /\ pc = "opponent" /\ orderQty # 0
  /\ Reached /\ Opponent.orderNumber > 0
  /\ index' = list[Opposite(order.side)][order.stock].worst
  /\ pc' = "match"
  /\ Keeps /\ UNCHANGED <<orderQty, traded>>

\* IsHaveOpponent is TRUE: MakeOrder begins at the best level of the other side.
MakeOrder ==
  /\ pc = "opponent" /\ orderQty # 0
  /\ Reached /\ Opponent.orderNumber > 0
  /\ index' = list[Opposite(order.side)][order.stock].best
  /\ pc' = "match"
  /\ Keeps /\ UNCHANGED <<orderQty, traded>>

(***************************************************************************)
(* The loop of MakeOrder for a sell.  It runs while bidIndex > 0, so slot  *)
(* 0 ends it.                                                              *)
(***************************************************************************)
Bid == level["bid"][index]
AtBid == pc = "match" /\ order.side = "offer" /\ index > 0
Tradable == order.price < Bid.price /\ Bid.orderNumber # 0

\* The loop breaks when something is left to sell, or no balance is.
Breaks(left) == order.balance - left * order.price <= 0 \/ left # 0

\* Mutant of Trade: the bid gives what the order wants, not what it has.
TradeWanted ==
  /\ AtBid /\ Tradable
  /\ level' = [level EXCEPT !["bid"][index].orderAmount = @ - orderQty]
  /\ orderQty' = 0
  /\ traded' = TRUE
  /\ IF Breaks(orderQty') THEN pc' = "idle" /\ UNCHANGED index
                          ELSE index' = Bid.next /\ UNCHANGED pc
  /\ UNCHANGED <<list, nextLevel, nextPrice, owner, scanned, misplaced>> /\ Stays

\* Mutant of Trade: a bid with nothing left is reset, still in its list.
TradeAndReset ==
  LET deal == IF orderQty < Bid.orderAmount THEN orderQty ELSE Bid.orderAmount IN
  /\ AtBid /\ Tradable
  /\ level' = [level EXCEPT !["bid"][index] =
       IF deal = @.orderAmount THEN InitBid ELSE [@ EXCEPT !.orderAmount = @ - deal]]
  /\ orderQty' = orderQty - deal
  /\ traded' = TRUE
  /\ IF Breaks(orderQty') THEN pc' = "idle" /\ UNCHANGED index
                          ELSE index' = Bid.next /\ UNCHANGED pc
  /\ UNCHANGED <<list, nextLevel, nextPrice, owner, scanned, misplaced>> /\ Stays

\* The bid and the order lose the smaller of their quantities; the bid stays in its
\* list when it has none left.
Trade ==
  LET deal == IF orderQty < Bid.orderAmount THEN orderQty ELSE Bid.orderAmount IN
  /\ AtBid /\ Tradable
  /\ level' = [level EXCEPT !["bid"][index].orderAmount = @ - deal]
  /\ orderQty' = orderQty - deal
  /\ traded' = TRUE
  /\ IF Breaks(orderQty') THEN pc' = "idle" /\ UNCHANGED index
                          ELSE index' = Bid.next /\ UNCHANGED pc
  /\ UNCHANGED <<list, nextLevel, nextPrice, owner, scanned, misplaced>> /\ Stays

\* A bid not to trade with, after one that was.
PassBid ==
  /\ AtBid /\ ~Tradable /\ traded
  /\ index' = Bid.next
  /\ Keeps /\ UNCHANGED <<pc, orderQty, traded>>

\* Order::NextBid finds a free slot i places after nextBid, or none.
FirstBid == IF nextLevel["bid"] >= LevelMax THEN 0 ELSE nextLevel["bid"]
BidAfter(i) == (FirstBid + i) % LevelMax
NextBid == {BidAfter(i) : i \in {n \in Slot : /\ ~Used("bid", BidAfter(n))
                                              /\ \A m \in 0..(n - 1) : Used("bid", BidAfter(m))}}

\* Order::AddNewBuyNode: a bid level for the order, not counted.
AddNewBuyNode(new) ==
  [level["bid"] EXCEPT ![new] =
     [InitBid EXCEPT !.price = order.price, !.orderAmount = order.balance,
                     !.firstOrder = orderProcessNo, !.lastOrder = orderProcessNo]]

\* The bids once level new is linked before slot k, with what is in front of k.
Relinked(bids, new, k) ==
  LET prev == bids[k].prev
      linked == [bids EXCEPT ![new].next = k, ![new].prev = prev]
      front == IF prev = NULL_INDEX THEN linked ELSE [linked EXCEPT ![prev].next = new]
  IN  [front EXCEPT ![k].prev = new]

\* No bid traded with so far: the sell becomes a bid of its own, and is linked before
\* the bid whose slot has the number of the lowest offer.  Without an offer there
\* is none: GetBid is NULL, and reading its prev ends the process.
AddBidNodeByOrder ==
  LET k == list["offer"][order.stock].best IN
  /\ AtBid /\ ~Tradable /\ ~traded
  /\ \E new \in NextBid :
       LET bids == AddNewBuyNode(new)
           l == list["bid"][order.stock]
       IN
       /\ nextLevel' = [nextLevel EXCEPT !["bid"] = new + 1]
       /\ owner' = [owner EXCEPT !["bid"][new] = order.stock]
       /\ IF k = NULL_INDEX
          THEN /\ level' = [level EXCEPT !["bid"] = bids]
               /\ list' = [list EXCEPT !["bid"][order.stock].number = @ + 1]
               /\ pc' = "crashed"
               /\ UNCHANGED index
          ELSE /\ level' = [level EXCEPT !["bid"] = Relinked(bids, new, k)]
               /\ list' = [list EXCEPT !["bid"][order.stock] =
                    [l EXCEPT !.number = @ + 1,
                              !.best = IF @ = k \/ bids[k].prev = NULL_INDEX THEN new ELSE @]]
               /\ index' = level'["bid"][index].next
               /\ UNCHANGED pc
  /\ misplaced' = TRUE
  /\ UNCHANGED <<nextPrice, scanned, orderQty, traded>> /\ Stays

\* Order::NextBid has looked at every slot: it sleeps for ever.
BidsExhausted ==
  /\ AtBid /\ ~Tradable /\ ~traded
  /\ NextBid = {}
  /\ pc' = "stuck"
  /\ Keeps /\ UNCHANGED <<index, orderQty, traded>>

EndMatch ==
  /\ pc = "match" /\ order.side = "offer" /\ index <= 0
  /\ pc' = "idle"
  /\ Keeps /\ UNCHANGED <<index, orderQty, traded>>
-----------------------------------------------------------------------------
InitMatching == Init /\ orderQty = 0 /\ traded = FALSE /\ misplaced = FALSE

Work ==
  \/ SkipUncounted \/ NoOpponent \/ MakeOrder
  \/ Trade \/ PassBid \/ AddBidNodeByOrder \/ BidsExhausted \/ EndMatch
  \/ Walk /\ UNCHANGED matchVars

NextMatching == getMsg \/ Work

\* The thread runs on; nothing makes another order come.
SpecMatching == InitMatching /\ [][NextMatching]_allVars /\ WF_allVars(Work)
-----------------------------------------------------------------------------
\* Types: no amount is ever negative, and every link stays inside the arrays, also once
\* AddBidNodeByOrder has tied the lists in knots.
MatchTypes ==
  /\ DataTypes
  /\ \A side \in Side, k \in Slot : level[side][k].orderAmount >= 0
  /\ pc \in {"idle", "opponent", "match", "walk", "scan", "stuck", "crashed"}
  /\ orderQty \in Nat
  /\ traded \in BOOLEAN /\ misplaced \in BOOLEAN

\* MakeOrder's branch for buys is dead code: AddNewOfferNode never counts an order, so
\* IsHaveOpponent finds no offer that counts (price.c:534-548, 1071-1081).
OnlySellsMatched == pc = "match" => order.side = "offer"

\* Trading changes no list: as long as AddBidNodeByOrder has not run, the levels are
\* linked as PriceBook promises, used-up bids included (MatchingOrder.cpp:69-99).
LinkedUntilMisplaced == ~misplaced => LevelsLinked

\* While the lists are linked, a sell takes from a bid only when no bid of its stock
\* with a better price has anything left (MatchingOrder.cpp:68-98).
BestBidFirst ==
  [][\A k \in Slot :
       ~misplaced /\ level'["bid"][k].price # 0
       /\ level'["bid"][k].orderAmount < level["bid"][k].orderAmount =>
         \A j \in Slot :
           owner["bid"][j] = owner["bid"][k] /\ level["bid"][j].price > level["bid"][k].price
             => level["bid"][j].orderAmount = 0]_allVars

\* While the lists are linked, every order is dealt with: no loop of getMsg,
\* IsHaveOpponent, MakeOrder or the walks runs for ever (MySockTask.cpp:43-65).
ServedUntilMisplaced ==
  pc \notin {"idle", "stuck"} ~> pc \in {"idle", "stuck"} \/ misplaced

\* "丢卖方队列" (MatchingOrder.cpp:96), "不能撮合成交 发回应 丢价位对列" (MySockTask.cpp:57):
\* a sell that has traded with no bid ends up in its stock's offers.
UntradedSellQueued ==
  pc = "idle" /\ nextOrder > 0 /\ order.side = "offer" /\ ~traded =>
    \E k \in Slot :
      Used("offer", k) /\ owner["offer"][k] = order.stock /\ level["offer"][k].price = order.price
=============================================================================
