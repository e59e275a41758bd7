------------------------------ MODULE Withdrawals ------------------------------
(***************************************************************************)
(* The life of an order in the book of one stock: AttachOrder takes it     *)
(* through the walk of PriceBook, withdraw.c changes or removes it, and    *)
(* the phase of the stock changes.  Beside the levels, each step keeps the *)
(* sums of the stock (order.c), of the levels (price.c) and of the members *)
(* (PbuTable).                                                             *)
(*                                                                         *)
(* One thread calls it, as ModifyOrder adds an order again: AttachOrder,   *)
(* StockStatAdd, PBUOrderStatAdd, UpdatePBUOrderSortList; and AddWithdraw  *)
(* before CancelOrder, ModifyOrder or DeleteOrder.  Money and the counts   *)
(* of withdrawn orders go with the amounts and are left out.               *)
(***************************************************************************)
EXTENDS PriceBook, PbuTable

CONSTANTS
  OrderKinds,   \* [side, price, type, firm, ice, balance, remPeakQty] of the orders
  NewTypes,     \* restrictions a withdrawal may carry: AddWithdraw leaves it empty, its
                \* caller, which is not in the repository, may fill it in
  TradePhases,  \* what prcsStsValCod may become
  SortLength,   \* WITHDRAW_SORT_LENGTH
  Bounds        \* orders, withdrawals and phase changes: the bounds of the model

Kinds == [side : Side, price : Prices, type : STRING, firm : Firms, ice : BOOLEAN,
          balance : Nat, remPeakQty : Nat]

ASSUME KindAssumption ==
  /\ OrderKinds \subseteq Kinds /\ \A o \in OrderKinds : o.balance > 0 /\ Shown(o) \in Quantities
  /\ NewTypes \subseteq STRING
  /\ \A o \in OrderKinds, p \in TradePhases : IsTradingPhase(o, p) \in Phases
ASSUME LifeAssumption ==
  /\ Stocks # {}
  /\ Bounds \subseteq [orders : 0..OrderMax, withdrawals : Nat, phases : Nat]

VARIABLES
  placed,       \* the order table: the kind, priceLevel and orderQty of order n at n + 1
  phase,        \* prcsStsValCod of the stock
  phaseNum,     \* tradePhaseOrderNum of the bid levels, by slot and restriction
  sums,         \* of the stock: order[side], and tradePhaseStat as phase[restriction][side]
  pbu,
  withdraws,    \* the withdraw table: the orders of the withdrawals
  listed,       \* the stock's list of withdrawals, from firstWithdraw on
  sortList,     \* by side: the ranked withdrawals, the biggest order first
  left,         \* orders, withdrawals and phase changes still to come
  (* Histories. *)
  live,         \* orders that are in the book and its sums
  freed,        \* orders whose level was freed while they were linked to it
  stale,        \* such an order has been withdrawn
  again,        \* an order was changed after its removal
  iced,         \* an iceberg order was changed or removed, or there when the phase changed
  rephased,     \* the phase changed under orders in the book
  skewed,       \* a phase change took out other restrictions than the old phase had
  ranked        \* nothing but the phase has changed since the members were ranked

sumVars == <<phaseNum, sums, pbu>>
withdrawVars == <<withdraws, listed, sortList>>
historyVars == <<live, freed, stale, again, iced, rephased, skewed, ranked>>
lifeVars == <<placed, phase, sumVars, withdrawVars, left, historyVars>>
orderVars == <<vars, lifeVars>>

TheStock == CHOOSE s \in Stocks : TRUE
Counts(o) == IsTradingPhase(o, phase)
-----------------------------------------------------------------------------
\* UpdateStockAdd and UpdateStockDel.
UpdateStock(s, o, sign) ==
  [s EXCEPT !.order[o.side] = [number |-> @.number + sign, amount |-> @.amount + sign * Shown(o)]]

\* StockStatAdd, and StockStatDel of the order's whole balance.
StockStat(s, o, sign) ==
  IF o.type \notin Types THEN s
  ELSE [s EXCEPT !.phase[o.type][o.side] =
         [number |-> @.number + sign, amount |-> @.amount + sign * o.balance]]

\* BidStatAdd, and BidStatDel of an amount.
BidStatAdd(num, k, o) == IF o.type \in Types THEN [num EXCEPT ![k][o.type] = @ + 1] ELSE num

BidStatDel(num, k, o, amount) ==
  IF o.type \in Types /\ o.balance = amount THEN [num EXCEPT ![k][o.type] = @ - 1] ELSE num

NoOrders == [t \in Types |-> 0]

\* GetBidOrderTotalNum: the orders counted in the phase the level was made in, and those
\* of the restrictions that do not count now.
GetBidOrderTotalNum(num, k) ==
  level["bid"][k].orderNumber + SumFunctionOnSet(num[k], Types \ TypesOf(phase))
-----------------------------------------------------------------------------
\* An order comes in; PriceBook sees the amount it shows.
AddOrder ==
  /\ pc = "idle" /\ left.orders > 0
  /\ \E o \in OrderKinds :
       /\ Enter([side |-> o.side, stock |-> TheStock, price |-> o.price, balance |-> Shown(o),
                 inPhase |-> Counts(o)])
       /\ placed' = Append(placed, [kind |-> o, priceLevel |-> NULL_INDEX, orderQty |-> 0])
  /\ left' = [left EXCEPT !.orders = @ - 1]
  /\ UNCHANGED <<phase, sumVars, withdrawVars, historyVars>>

\* The end of AttachOrder, in level k, and what its caller does then.
Attached(k) ==
  LET o == Last(placed).kind
  IN  /\ placed' = [placed EXCEPT ![Len(placed)].priceLevel = k]
      /\ sums' = StockStat(IF Counts(o) THEN UpdateStock(sums, o, 1) ELSE sums, o, 1)
      /\ pbu' = UpdatePBUOrderSortList(PBUOrderStatAdd(pbu, o, phase), o)
      /\ live' = live \cup {OrderIndex}
      /\ ranked' = FALSE
      /\ UNCHANGED <<phase, withdrawVars, left, freed, stale, again, iced, rephased, skewed>>

Attach ==
  \/ (WalkOn \/ NeedLevel \/ SkipUsed \/ LevelsExhausted) /\ UNCHANGED lifeVars
  \/ UpdateNode /\ Attached(index) /\ UNCHANGED phaseNum
  \/ /\ InsertNode /\ Attached(nextLevel[order.side])
     /\ phaseNum' = IF order.side = "offer" THEN phaseNum
                    ELSE LET k == nextLevel["bid"]
                         IN  BidStatAdd([phaseNum EXCEPT ![k] = NoOrders], k, Last(placed).kind)
-----------------------------------------------------------------------------
BidOf(n) == placed[n + 1].priceLevel

\* Mutant: the level in front keeps its link to the freed one.
FreeBidLinked(k) ==
  LET l == level["bid"][k] IN
  /\ level' = [level EXCEPT !["bid"] = [j \in Slot |->
       IF j = k THEN InitBid
       ELSE IF j = l.next THEN [level["bid"][j] EXCEPT !.prev = l.prev]
       ELSE level["bid"][j]]]
  /\ list' = [list EXCEPT !["bid"][TheStock] =
       [number |-> @.number - 1,
        best |-> IF l.prev >= 0 THEN @.best ELSE l.next,
        worst |-> IF l.next >= 0 THEN @.worst ELSE l.prev]]
  /\ owner' = [owner EXCEPT !["bid"][k] = NoStock]

\* UpdateBidByWithdraw takes a level out of the list.
FreeBid(k) ==
  LET l == level["bid"][k] IN
  /\ level' = [level EXCEPT !["bid"] = [j \in Slot |->
       IF j = k THEN InitBid
       ELSE IF j = l.prev THEN [level["bid"][j] EXCEPT !.next = l.next]
       ELSE IF j = l.next THEN [level["bid"][j] EXCEPT !.prev = l.prev]
       ELSE level["bid"][j]]]
  /\ list' = [list EXCEPT !["bid"][TheStock] =
       [number |-> @.number - 1,
        best |-> IF l.prev >= 0 THEN @.best ELSE l.next,
        worst |-> IF l.next >= 0 THEN @.worst ELSE l.prev]]
  /\ owner' = [owner EXCEPT !["bid"][k] = NoStock]

\* UpdateBidByWithdraw, of what order n shows.  The order stays linked to its level, which
\* is freed when nothing seems to be left in it.
UpdateBidByWithdraw(n) ==
  LET o == placed[n + 1].kind
      k == BidOf(n)
      num == BidStatDel(phaseNum, k, o, Shown(o))
  IN  IF GetBidOrderTotalNum(num, k) = 0
      THEN /\ FreeBid(k)
           /\ phaseNum' = [num EXCEPT ![k] = NoOrders]
           /\ freed' = freed \cup {m \in 0..Len(placed) - 1 :
                                     placed[m + 1].kind.side = "bid" /\ BidOf(m) = k}
      ELSE /\ level' = [level EXCEPT !["bid"][k].orderAmount =
                          IF Counts(o) THEN @ - Shown(o) ELSE @]
           /\ phaseNum' = num
           /\ UNCHANGED <<list, owner, freed>>

\* DetachOrder, which does nothing about the level of a sell, and StockStatDel.
DetachOrder(n) ==
  LET o == placed[n + 1].kind
  IN  /\ IF o.side = "bid" THEN UpdateBidByWithdraw(n)
         ELSE UNCHANGED <<level, list, owner, phaseNum, freed>>
      /\ stale' = (stale \/ (o.side = "bid" /\ n \in freed))
      /\ sums' = StockStat(IF Counts(o) THEN UpdateStock(sums, o, -1) ELSE sums, o, -1)

\* What CancelOrder, DeleteOrder and the freezing ModifyOrder have in common.
Removed(n) ==
  LET o == placed[n + 1].kind
  IN  /\ DetachOrder(n)
      /\ pbu' = UpdatePBUOrderSortList(PBUOrderStatDel(pbu, o, phase), o)
      /\ live' = live \ {n}
      /\ again' = (again \/ n \notin live)
      /\ iced' = (iced \/ o.ice)
      /\ UNCHANGED placed

\* CancelOrder, and ModifyOrder with status 'Y': they differ in the order's status, which
\* nothing asks for.
CancelOrder(n) == Removed(n) /\ UNCHANGED <<listed, sortList>>

\* UpdateWithdrawSortList: withdrawal w goes before the first of a smaller order, and the list
\* gives up the withdrawal of the same order behind it, or the last.  No place is ever empty:
\* the list starts as zeros, which stand for withdrawal 0.
UpdateWithdrawSortList(side, w) ==
  LET ws == sortList[side]
      o == placed[withdraws'[w + 1] + 1]
      orderAt(i) == withdraws'[ws[i] + 1]
      end == Min({SortLength} \cup {i \in DOMAIN ws : orderAt(i) = withdraws'[w + 1]})
      smaller == {i \in 1..end : placed[orderAt(i) + 1].orderQty < o.orderQty}
  IN  IF o.orderQty > o.kind.balance \/ smaller = {} THEN ws
      ELSE InsertAt(RemoveAt(ws, end), Min(smaller), w)

\* DeleteOrder of a stock of category A or B.
DeleteOrder(n) ==
  LET w == Len(withdraws)
      side == placed[n + 1].kind.side
  IN  /\ listed' = Append(listed, w)
      /\ sortList' = [sortList EXCEPT ![side] = UpdateWithdrawSortList(side, w)]
      /\ Removed(n)

\* ModifyOrder of the quantity.  An iceberg order's sums are left as they are.
Requantified(s, p, o, new) ==
  IF new.balance = o.balance \/ o.ice THEN <<s, p>>
  ELSE LET out == StockStat(IF Counts(o) THEN UpdateStock(s, o, -1) ELSE s, o, -1)
       IN  <<StockStat(IF Counts(new) THEN UpdateStock(out, new, 1) ELSE out, new, 1),
             UpdatePBUOrderSortList(PBUOrderStatAdd(PBUOrderStatDel(p, o, phase), new, phase), new)>>

\* Mutant: an order that counts from now on is not added to the stock's sums.
RestrictedSilently(s, p, o, new) ==
  LET moved == StockStat(StockStat(s, o, -1), new, 1)
  IN  IF new.type = o.type THEN <<s, p>>
      ELSE <<IF Counts(o) /\ ~Counts(new) THEN UpdateStock(moved, new, -1) ELSE moved,
             UpdatePBUOrderSortList(PBUOrderStatAdd(PBUOrderStatDel(p, o, phase), new, phase), new)>>

\* ModifyOrder of the restriction.
Restricted(s, p, o, new) ==
  LET moved == StockStat(StockStat(s, o, -1), new, 1)
  IN  IF new.type = o.type THEN <<s, p>>
      ELSE <<CASE Counts(o) /\ ~Counts(new) -> UpdateStock(moved, new, -1)
               [] Counts(new) /\ ~Counts(o) -> UpdateStock(moved, new, 1)
               [] OTHER -> moved,
             UpdatePBUOrderSortList(PBUOrderStatAdd(PBUOrderStatDel(p, o, phase), new, phase), new)>>

\* ModifyOrder with status 'N'.  When the order counts no more, the level's count of its new
\* restriction goes down, though it was counted, if at all, under the old one.
ModifyOrder(n) ==
  LET o == placed[n + 1].kind
      k == BidOf(n)
  IN  \E q \in Quantities, t \in NewTypes :
        LET o1 == [o EXCEPT !.balance = q]
            o2 == [o1 EXCEPT !.type = t]
            first == Requantified(sums, pbu, o, o1)
            both == Restricted(first[1], first[2], o1, o2)
        IN  /\ o2 # o
            /\ placed' = [placed EXCEPT ![n + 1].kind = o2, ![n + 1].orderQty = @ + q - o.balance]
            /\ sums' = both[1] /\ pbu' = both[2]
            /\ level' = IF o.ice \/ ~Counts(o) THEN level
                        ELSE [level EXCEPT ![o.side][k].orderAmount = @ + q - o.balance]
            /\ phaseNum' = IF o.side = "offer" \/ t = o.type \/ Counts(o1) = Counts(o2) THEN phaseNum
                           ELSE IF Counts(o2) THEN BidStatAdd(phaseNum, k, o2)
                           ELSE BidStatDel(phaseNum, k, o2, q)
            /\ again' = (again \/ n \notin live)
            /\ iced' = (iced \/ o.ice)
            /\ UNCHANGED <<list, owner, listed, sortList, live, freed, stale>>

Withdraw ==
  /\ pc = "idle" /\ left.withdrawals > 0
  /\ left' = [left EXCEPT !.withdrawals = @ - 1]
  /\ \E n \in 0..Len(placed) - 1 :
       /\ withdraws' = Append(withdraws, n)
       /\ CancelOrder(n) \/ DeleteOrder(n) \/ ModifyOrder(n)
  /\ ranked' = FALSE
  /\ UNCHANGED <<nextLevel, nextPrice, index, scanned, pc>> /\ Stays
  /\ UNCHANGED <<phase, rephased, skewed>>
-----------------------------------------------------------------------------
\* The phase changes, and the members' sums and ranking with it.
StatusChange ==
  /\ pc = "idle" /\ left.phases > 0
  /\ left' = [left EXCEPT !.phases = @ - 1]
  /\ phase' \in TradePhases \ {phase}
  /\ pbu' = ResortPBUSortList(PBUStatusChange(pbu, phase, phase'))
  /\ ranked' = TRUE
  /\ rephased' = (rephased \/ live # {})
  /\ iced' = (iced \/ \E n \in live : placed[n + 1].kind.ice)
  /\ skewed' = (skewed \/ \/ phase \in Mistaken /\ phase' \notin Mistaken
                          \/ phase' \in Mistaken /\ phase \notin BalancePhases \cup {"OCALL", "ICALL"})
  /\ UNCHANGED <<vars, placed, phaseNum, sums, withdrawVars, live, freed, stale, again>>

InitLife ==
  /\ Init /\ order = CHOOSE o \in Orders : TRUE
  /\ placed = <<>>
  /\ phase \in TradePhases
  /\ phaseNum = [k \in Slot |-> NoOrders]
  /\ sums = [order |-> [side \in Side |-> [number |-> 0, amount |-> 0]],
             phase |-> [t \in Types |-> [side \in Side |-> [number |-> 0, amount |-> 0]]]]
  /\ pbu = InitPBU
  /\ withdraws = <<>> /\ listed = <<>> /\ sortList = [side \in Side |-> [i \in 1..SortLength |-> 0]]
  /\ left \in Bounds
  /\ live = {} /\ freed = {}
  /\ stale = FALSE /\ again = FALSE /\ iced = FALSE
  /\ rephased = FALSE /\ skewed = FALSE /\ ranked = FALSE

NextLife == AddOrder \/ Attach \/ Withdraw \/ StatusChange

LifeSpec == InitLife /\ [][NextLife]_orderVars
-----------------------------------------------------------------------------
\* Freeing levels keeps the lists of levels linked, in order and between their ends, until
\* an order is withdrawn whose level was freed under it.
LinkedUntilStale == stale \/ LevelsLinked

Sum(f) == SumFunction(f)

\* The orders that are in the sums, of a side, that satisfy a test.
LiveOrders(side, Test(_)) ==
  {n \in live : placed[n + 1].kind.side = side /\ Test(placed[n + 1].kind)}

Total(orders, Amount(_)) == Sum([n \in orders |-> Amount(placed[n + 1].kind)])

\* The sums are those of the orders in the book: per restriction, for the stock and for
\* every member, unless an iceberg order was changed; for the stock's current sum, unless the
\* phase changed under orders; for a member's, through phase changes, unless one of them
\* mistook the phase or there was an iceberg order.  An order changed after its removal
\* spoils all of them.
SumsKept ==
  again \/ \A side \in Side :
    LET current == LiveOrders(side, Counts)
        balance(o) == o.balance
    IN  /\ rephased \/ sums.order[side] =
             [number |-> Cardinality(current), amount |-> Total(current, Shown)]
        /\ iced \/ \A t \in Types :
             LET tied == LiveOrders(side, LAMBDA o : o.type = t)
             IN  sums.phase[t][side] =
                   [number |-> Cardinality(tied), amount |-> Total(tied, balance)]
        /\ iced \/ \A f \in Firms :
             LET ofFirm(o) == o.firm = f
             IN  /\ \A t \in Types : pbu.data[f].of[side][t] =
                      Total(LiveOrders(side, LAMBDA o : o.firm = f /\ o.type = t), balance)
                 /\ skewed \/ pbu.data[f].current[side] =
                      Total(LiveOrders(side, LAMBDA o : o.firm = f /\ Counts(o)), Shown)

\* A phase change leaves every member that has ordered in the ranking, in its place.
PbuRanked == ranked => \A side \in Side : Ranked(pbu, side)
=============================================================================
