------------------------------- MODULE PriceBook -------------------------------
(***************************************************************************)
(* The price levels of the order book (price.c).  Every stock has a list   *)
(* of bid levels, best (highest) price first, and a list of offer levels,  *)
(* best (lowest) price first.  The levels of all stocks live in two fixed  *)
(* arrays in shared memory; NextBid and NextOffer hand out the slots.      *)
(*                                                                         *)
(* An order takes the walk of UpdateBidByOrder or UpdateOfferByOrder one   *)
(* loop iteration at a time.  The calls are those price.c is written for:  *)
(* one thread and a positive price.  The queue of a level is linked by     *)
(* orderProcessNo as if it were the order's index in the order table;      *)
(* nothing makes it so, and the repository's client leaves it 0.           *)
(***************************************************************************)
EXTENDS Integers

CONSTANTS
  Stocks,      \* the stock numbers GetStock knows
  Prices,      \* prices an order may carry
  Quantities,  \* balances an order may carry
  Phases,      \* what IsTradingPhase may say of an order
  Numbers,     \* Numbers[n]: the orderProcessNos the order with index n may carry
  LevelMax,    \* bidMax and offerMax
  OrderMax     \* orders pushed in one behaviour: the bound of the model

ASSUME StockAssumption == Stocks \subseteq Nat
ASSUME PriceAssumption == Prices \subseteq Nat \ {0}
ASSUME QuantityAssumption == Quantities \subseteq Nat
ASSUME PhaseAssumption == Phases \subseteq BOOLEAN
ASSUME LevelAssumption == LevelMax \in Nat \ {0}
ASSUME OrderAssumption == OrderMax \in Nat
\* PushOrder turns negative numbers away.  No entry has a number past the table: linking
\* it would end the process.
ASSUME NumberAssumption == Numbers \in [0..(OrderMax - 1) -> SUBSET (0..(OrderMax - 1))]

NULL_INDEX == -1
Side == {"bid", "offer"}
Slot == 0..(LevelMax - 1)
OrderNo == 0..(OrderMax - 1)
NoStock == -1

\* The orders price.c is called with; inPhase is what IsTradingPhase says of one.
Orders == [side : Side, stock : Stocks, price : Prices, balance : Quantities, inPhase : Phases]

VARIABLES
  level,      \* level[side][k]: slot k of the bid or offer array
  list,       \* list[side][s]: first and last level of a stock, and how many
  nextLevel,  \* nextLevel[side]: where NextBid or NextOffer searches next
  nextOrder,  \* orders pushed so far; the index of the next one
  nextPrice,  \* nextPrice[n]: the order behind order n at its price
  order,      \* the order being worked on
  orderProcessNo, \* the number it carries
  index,      \* bidIndex or offerIndex: the level the walk stands at
  scanned,    \* i of NextBid or NextOffer: how many slots it has looked at
  pc,         \* where the thread is
  (* Not in the code. *)
  owner,      \* owner[side][k]: the stock slot k was taken for
  misnumbered \* an order has carried a number that is not its index

book == <<level, list, nextLevel, nextPrice, owner>>
vars == <<book, nextOrder, order, orderProcessNo, misnumbered, index, scanned, pc>>

\* Does price p stand before price q in the list of that side?
Ahead(side, p, q) == IF side = "bid" THEN p > q ELSE p < q

Used(side, k) == level[side][k].price > 0

(***************************************************************************)
(* Slots.  The shared memory starts out as zeros.                          *)
(***************************************************************************)
ZeroLevel == [price |-> 0, orderNumber |-> 0, orderAmount |-> 0,
              firstOrder |-> 0, lastOrder |-> 0, prev |-> 0, next |-> 0]

InitBid == [price |-> 0, orderNumber |-> 0, orderAmount |-> 0,
            firstOrder |-> NULL_INDEX, lastOrder |-> NULL_INDEX,
            prev |-> NULL_INDEX, next |-> NULL_INDEX]

\* A bid is counted while its order takes part in the current phase.
AddNewBidNode(o, n) ==
  [InitBid EXCEPT
     !.price = o.price,
     !.orderNumber = IF o.inPhase THEN 1 ELSE 0,
     !.orderAmount = IF o.inPhase THEN o.balance ELSE 0,
     !.firstOrder = n,
     !.lastOrder = n]

\* The lines that would count an offer are commented out.
AddNewOfferNode(o, n) ==
  [InitBid EXCEPT !.price = o.price, !.orderAmount = o.balance, !.firstOrder = n, !.lastOrder = n]

\* Mutant of NewLevel: an offer's orders are counted as a bid's are.
NewLevelCounted(o, n) == AddNewBidNode(o, n)

NewLevel(o, n) == IF o.side = "bid" THEN AddNewBidNode(o, n) ELSE AddNewOfferNode(o, n)

(***************************************************************************)
(* The three ways a walk ends, for order o with number n.                  *)
(***************************************************************************)
\* Mutant of JoinLevel: the order that was last is not told who follows it.
JoinUnlinked(o, n, k) ==
  /\ level' = [level EXCEPT ![o.side][k].lastOrder = n]
  /\ UNCHANGED <<list, nextLevel, nextPrice, owner>>

\* UpdateBidNodeByOrder, UpdateOfferNodeByOrder: join the level at its price.
JoinLevel(o, n, k) ==
  LET last == level[o.side][k].lastOrder IN
  /\ level' = [level EXCEPT ![o.side][k].lastOrder = n]
  /\ nextPrice' = IF last = NULL_INDEX THEN nextPrice ELSE [nextPrice EXCEPT ![last] = n]
  /\ UNCHANGED <<list, nextLevel, owner>>

\* Mutant of LinkLevel: the level behind is not told who is in front of it now.
LinkForward(o, n, new, prev, next) ==
  LET old == level[o.side] IN
  /\ level' = [level EXCEPT ![o.side] =
       [k \in Slot |->
          IF k = new THEN [NewLevel(o, n) EXCEPT !.prev = prev, !.next = next]
          ELSE IF k = prev THEN [old[k] EXCEPT !.next = new]
          ELSE old[k]]]
  /\ nextLevel' = [nextLevel EXCEPT ![o.side] = new + 1]
  /\ owner' = [owner EXCEPT ![o.side][new] = o.stock]
  /\ UNCHANGED nextPrice

\* What AddNewBidNode and AddNewOfferNode fill in, and the slot new linked between
\* the levels prev and next (either may be NULL_INDEX).
LinkLevel(o, n, new, prev, next) ==
  LET old == level[o.side] IN
  /\ level' = [level EXCEPT ![o.side] =
       [k \in Slot |->
          IF k = new THEN [NewLevel(o, n) EXCEPT !.prev = prev, !.next = next]
          ELSE IF k = prev THEN [old[k] EXCEPT !.next = new]
          ELSE IF k = next THEN [old[k] EXCEPT !.prev = new]
          ELSE old[k]]]
  /\ nextLevel' = [nextLevel EXCEPT ![o.side] = new + 1]
  /\ owner' = [owner EXCEPT ![o.side][new] = o.stock]
  /\ UNCHANGED nextPrice

\* Mutant of InsertLevel: the stock's levels are counted only at the list's end.
InsertUncounted(o, n, k, new) ==
  LET prev == level[o.side][k].prev IN
  /\ LinkLevel(o, n, new, prev, k)
  /\ list' = [list EXCEPT ![o.side][o.stock].best =
       IF @ = k \/ prev = NULL_INDEX THEN new ELSE @]

\* InsertBidNodeByOrder, InsertOfferNodeByOrder: a new level before level k.
InsertLevel(o, n, k, new) ==
  LET l == list[o.side][o.stock]
      prev == level[o.side][k].prev
      first == l.best = k \/ prev = NULL_INDEX
  IN
  /\ LinkLevel(o, n, new, prev, k)
  /\ list' = [list EXCEPT ![o.side][o.stock] =
       [number |-> l.number + 1, best |-> IF first THEN new ELSE l.best, worst |-> l.worst]]

\* InsertLastBidNodeByOrder, InsertLastOfferNodeByOrder: a new level at the end.
InsertLastLevel(o, n, new) ==
  LET l == list[o.side][o.stock]
      empty == l.best < 0
  IN
  /\ LinkLevel(o, n, new, IF empty THEN NULL_INDEX ELSE l.worst, NULL_INDEX)
  /\ list' = [list EXCEPT ![o.side][o.stock] =
       [number |-> l.number + 1, best |-> IF empty THEN new ELSE l.best, worst |-> new]]

(***************************************************************************)
(* UpdateBidByOrder and UpdateOfferByOrder.                                *)
(***************************************************************************)
Current == level[order.side][index]

\* The index of the order being worked on.
OrderIndex == nextOrder - 1

Stays == UNCHANGED <<nextOrder, order, orderProcessNo, misnumbered>>

\* The order becomes the next one of the table, linked to no other.
PushOrder(o) ==
  /\ order' = o
  /\ orderProcessNo' \in Numbers[nextOrder]
  /\ nextPrice' = [nextPrice EXCEPT ![nextOrder] = NULL_INDEX]
  /\ nextOrder' = nextOrder + 1
  /\ misnumbered' = (misnumbered \/ orderProcessNo' # nextOrder)
  /\ UNCHANGED <<level, list, nextLevel, owner>>

\* Its walk starts at its stock's best level.
Enter(o) ==
  /\ PushOrder(o)
  /\ index' = list[o.side][o.stock].best
  /\ pc' = "walk"
  /\ UNCHANGED scanned

UpdateByOrder ==
  /\ pc = "idle"
  /\ nextOrder < OrderMax
  /\ \E o \in Orders : Enter(o)

\* Mutant of WalkOn: the index is left where it is.
WalkInPlace ==
  /\ pc = "walk" /\ index # NULL_INDEX
  /\ Ahead(order.side, Current.price, order.price)
  /\ UNCHANGED <<book, index, scanned, pc>> /\ Stays

\* This level is ahead of the order's price: look at the next one.
WalkOn ==
  /\ pc = "walk" /\ index # NULL_INDEX
  /\ Ahead(order.side, Current.price, order.price)
  /\ index' = Current.next
  /\ UNCHANGED <<book, scanned, pc>> /\ Stays

UpdateNode ==
  /\ pc = "walk" /\ index # NULL_INDEX
  /\ Current.price = order.price
  /\ JoinLevel(order, orderProcessNo, index)
  /\ pc' = "idle"
  /\ UNCHANGED <<index, scanned>> /\ Stays

\* The order's price has no level: take a slot for one.
NeedLevel ==
  /\ pc = "walk"
  /\ index # NULL_INDEX => Ahead(order.side, order.price, Current.price)
  /\ nextLevel' = [nextLevel EXCEPT ![order.side] = IF @ >= LevelMax THEN 0 ELSE @]
  /\ scanned' = 0
  /\ pc' = "scan"
  /\ UNCHANGED <<level, list, nextPrice, owner, index>> /\ Stays

\* Mutant of SkipUsed: the search does not stop after a round.
SkipUsedForever ==
  LET k == nextLevel[order.side] IN
  /\ pc = "scan"
  /\ Used(order.side, k)
  /\ nextLevel' = [nextLevel EXCEPT ![order.side] = IF k + 1 >= LevelMax THEN 0 ELSE k + 1]
  /\ scanned' = scanned + 1
  /\ UNCHANGED <<level, list, nextPrice, owner, index, pc>> /\ Stays

\* NextBid, NextOffer: a slot with a price is in use, try the one after it.
SkipUsed ==
  LET k == nextLevel[order.side] IN
  /\ pc = "scan" /\ scanned < LevelMax
  /\ Used(order.side, k)
  /\ nextLevel' = [nextLevel EXCEPT ![order.side] = IF k + 1 >= LevelMax THEN 0 ELSE k + 1]
  /\ scanned' = scanned + 1
  /\ UNCHANGED <<level, list, nextPrice, owner, index, pc>> /\ Stays

\* They return a free slot, and the walk's level decides where it is linked.
InsertNode ==
  LET k == nextLevel[order.side] IN
  /\ pc = "scan" /\ scanned < LevelMax
  /\ ~Used(order.side, k)
  /\ IF index # NULL_INDEX THEN InsertLevel(order, orderProcessNo, index, k)
                           ELSE InsertLastLevel(order, orderProcessNo, k)
  /\ pc' = "idle"
  /\ UNCHANGED <<index, scanned>> /\ Stays

\* They have looked at bidMax (offerMax) slots: log and sleep for ever.
LevelsExhausted ==
  /\ pc = "scan" /\ scanned = LevelMax
  /\ pc' = "stuck"
  /\ UNCHANGED <<book, index, scanned>> /\ Stays

Init ==
  /\ level = [side \in Side |-> [k \in Slot |-> ZeroLevel]]
  /\ list = [side \in Side |->
       [s \in Stocks |-> [best |-> NULL_INDEX, worst |-> NULL_INDEX, number |-> 0]]]
  /\ nextLevel = [side \in Side |-> 0]
  /\ nextOrder = 0
  /\ nextPrice = [n \in OrderNo |-> 0]
  /\ order \in Orders
  /\ orderProcessNo = 0
  /\ misnumbered = FALSE
  /\ index = NULL_INDEX
  /\ scanned = 0
  /\ pc = "idle"
  /\ owner = [side \in Side |-> [k \in Slot |-> NoStock]]

Walk == WalkOn \/ UpdateNode \/ NeedLevel \/ SkipUsed \/ InsertNode \/ LevelsExhausted

Next == UpdateByOrder \/ Walk

\* The thread that has taken an order runs on; nothing makes another one come.
Spec == Init /\ [][Next]_vars /\ WF_vars(Walk)
-----------------------------------------------------------------------------

Levels == [price : Prices \cup {0}, orderNumber : {0, 1}, orderAmount : Int,
           firstOrder : OrderNo \cup {0, NULL_INDEX}, lastOrder : OrderNo \cup {0, NULL_INDEX},
           prev : Slot \cup {0, NULL_INDEX}, next : Slot \cup {0, NULL_INDEX}]

Ends == [best : Slot \cup {NULL_INDEX}, worst : Slot \cup {NULL_INDEX}, number : Int]

DataTypes ==
  /\ level \in [Side -> [Slot -> Levels]]
  /\ list \in [Side -> [Stocks -> Ends]]
  /\ nextLevel \in [Side -> 0..LevelMax]
  /\ nextOrder \in 0..OrderMax
  /\ nextPrice \in [OrderNo -> OrderNo \cup {0, NULL_INDEX}]
  /\ order \in Orders
  /\ orderProcessNo \in OrderNo \cup {0}
  /\ misnumbered \in BOOLEAN
  /\ index \in Slot \cup {NULL_INDEX}
  /\ scanned \in 0..LevelMax
  /\ owner \in [Side -> [Slot -> Stocks \cup {NoStock}]]
  /\ pc # "idle" => nextOrder > 0 /\ orderProcessNo \in OrderNo

\* Types of the book and of the walk: every index is inside its array, or NULL_INDEX.
TypeOK == DataTypes /\ pc \in {"idle", "walk", "scan", "stuck"}

\* The neighbours of a level in use: both links agree, both levels belong to the
\* same stock, and the one in front has the strictly better price.
Neighbours(side, j, k) ==
  /\ Used(side, j) /\ Used(side, k)
  /\ owner[side][j] = owner[side][k]
  /\ level[side][j].next = k /\ level[side][k].prev = j
  /\ Ahead(side, level[side][j].price, level[side][k].price)

\* A level in use belongs to a stock; it has its neighbours, or it is at an end.
InList(side, k) ==
  LET l == level[side][k]
      ends == list[side][owner[side][k]]
  IN
  /\ owner[side][k] \in Stocks
  /\ IF l.next = NULL_INDEX THEN ends.worst = k ELSE l.next \in Slot /\ Neighbours(side, k, l.next)
  /\ IF l.prev = NULL_INDEX THEN ends.best = k ELSE l.prev \in Slot /\ Neighbours(side, l.prev, k)

\* The ends a stock remembers are levels of its own with nothing beyond them.
EndsOf(side, s) ==
  LET best == list[side][s].best
      worst == list[side][s].worst
  IN
  /\ best = NULL_INDEX <=> worst = NULL_INDEX
  /\ best # NULL_INDEX =>
       Used(side, best) /\ owner[side][best] = s /\ level[side][best].prev = NULL_INDEX
  /\ worst # NULL_INDEX =>
       Used(side, worst) /\ owner[side][worst] = s /\ level[side][worst].next = NULL_INDEX

\* Inserting, whatever the walks did before (price.c:810-871, 979-1041), keeps every
\* list doubly linked, in strict price order, apart from the lists of other stocks
\* in the same array, and between the two ends its stock remembers.
LevelsLinked ==
  \A side \in Side :
    /\ \A k \in Slot : Used(side, k) => InList(side, k)
    /\ \A s \in Stocks : EndsOf(side, s)

\* The loop of UpdateBidByOrder and UpdateOfferByOrder ends for every order: the
\* list it walks has no cycle (price.c:246-270, 297-324).
WalkEnds == pc \in {"walk", "scan"} ~> pc \in {"idle", "stuck"}
=============================================================================
