------------------------------- MODULE BookProofs -------------------------------
(***************************************************************************)
(* Theorems about the order book, for every set of stocks, prices and      *)
(* quantities, and every number of slots and orders: the price levels      *)
(* (PriceBook), what trading (Matching) and withdrawals (Withdrawals) do   *)
(* to them.  The three share the walks of an order through the levels.     *)
(***************************************************************************)
EXTENDS Matching, Withdrawals, MCPriceBook, WellFoundedInduction, FiniteSetTheorems,
        SequenceTheorems, TLAPS

USE DEF NULL_INDEX, Side, Slot, OrderNo, DataTypes

\* NextBid and NextOffer look only at slots that exist.  This is what makes
\* TypeOK inductive: nextLevel may be LevelMax between two searches.
TypeInv ==
  /\ TypeOK
  /\ pc = "scan" => nextLevel[order.side] \in Slot

\* The assumptions about prices and quantities, one element at a time.
LEMMA Positive ==
  /\ \A q \in Quantities : q \in Int /\ q >= 0
  /\ \A p \in Prices : p \in Int /\ p > 0
<1>1. (\A q \in Quantities : q \in Nat) /\ (\A p \in Prices : p \in Nat \ {0})
  BY QuantityAssumption, PriceAssumption
<1>2. QED
  BY <1>1

LEMMA NewLevelType ==
  ASSUME NEW o \in Orders, NEW n \in OrderNo
  PROVE  /\ NewLevel(o, n) \in Levels
         /\ NewLevel(o, n).price = o.price /\ NewLevel(o, n).orderAmount >= 0
         /\ o.side = "offer" => NewLevel(o, n).orderNumber = 0
<1>1. o.balance \in Int /\ o.balance >= 0 /\ o.inPhase \in BOOLEAN /\ o.price \in Prices
  BY Positive, PhaseAssumption DEF Orders
<1>2. \A number \in {0, 1}, amount \in Int :
        LET l == [price |-> o.price, orderNumber |-> number, orderAmount |-> amount,
                  firstOrder |-> n, lastOrder |-> n, prev |-> NULL_INDEX, next |-> NULL_INDEX]
        IN  l \in Levels
  BY <1>1 DEF Levels
<1>3. CASE o.side = "bid"
  <2>1. PICK number \in {0, 1}, amount \in {0, o.balance} :
          NewLevel(o, n) =
            [price |-> o.price, orderNumber |-> number, orderAmount |-> amount,
             firstOrder |-> n, lastOrder |-> n, prev |-> NULL_INDEX, next |-> NULL_INDEX]
    BY <1>3, Zenon DEF NewLevel, AddNewBidNode, InitBid
  <2>2. QED
    BY <1>1, <1>2, <1>3, <2>1
<1>4. CASE o.side # "bid"
  <2>1. NewLevel(o, n) =
          [price |-> o.price, orderNumber |-> 0, orderAmount |-> o.balance,
           firstOrder |-> n, lastOrder |-> n, prev |-> NULL_INDEX, next |-> NULL_INDEX]
    BY <1>4 DEF NewLevel, AddNewOfferNode, InitBid
  <2>2. QED
    BY <1>1, <1>2, <2>1
<1>5. QED
  BY <1>3, <1>4

LEMMA RelinkType ==
  ASSUME NEW l \in Levels, NEW i \in Slot \cup {0, NULL_INDEX}
  PROVE  /\ [l EXCEPT !.next = i] \in Levels /\ [l EXCEPT !.prev = i] \in Levels
         /\ [l EXCEPT !.next = i].next = i /\ [l EXCEPT !.next = i].prev = l.prev
         /\ [l EXCEPT !.prev = i].prev = i /\ [l EXCEPT !.prev = i].next = l.next
         /\ [l EXCEPT !.next = i].price = l.price /\ [l EXCEPT !.prev = i].price = l.price
BY DEF Levels

\* Linking a new level between two others, or at an end, keeps the types.
LEMMA LinkKeepsType ==
  ASSUME TypeOK, NEW o \in Orders, NEW n \in OrderNo, NEW new \in Slot,
         NEW prev \in Slot \cup {0, NULL_INDEX}, NEW next \in Slot \cup {0, NULL_INDEX},
         LinkLevel(o, n, new, prev, next)
  PROVE  /\ level' \in [Side -> [Slot -> Levels]]
         /\ nextLevel' \in [Side -> 0..LevelMax]
         /\ nextPrice' \in [OrderNo -> OrderNo \cup {0, NULL_INDEX}]
         /\ owner' \in [Side -> [Slot -> Stocks \cup {NoStock}]]
<1> DEFINE old == level[o.side]
           linked(k) == IF k = new THEN [NewLevel(o, n) EXCEPT !.prev = prev, !.next = next]
                        ELSE IF k = prev THEN [old[k] EXCEPT !.next = new]
                        ELSE IF k = next THEN [old[k] EXCEPT !.prev = new]
                        ELSE old[k]
<1>1. o.side \in Side /\ o.stock \in Stocks
  BY DEF Orders
<1>2. old \in [Slot -> Levels]
  BY <1>1 DEF TypeOK
<1>3. ASSUME NEW k \in Slot PROVE linked(k) \in Levels
  <2>1. CASE k = new
    <3>1. [NewLevel(o, n) EXCEPT !.prev = prev] \in Levels
      BY NewLevelType, RelinkType
    <3>2. [[NewLevel(o, n) EXCEPT !.prev = prev] EXCEPT !.next = next] \in Levels
      BY <3>1, RelinkType
    <3>3. QED
      BY <2>1, <3>2
  <2>2. CASE k # new /\ k = prev
    BY <2>2, <1>2, RelinkType
  <2>3. CASE k # new /\ k # prev /\ k = next
    BY <2>3, <1>2, RelinkType
  <2>4. CASE k # new /\ k # prev /\ k # next
    BY <2>4, <1>2
  <2>5. QED
    BY <2>1, <2>2, <2>3, <2>4
<1>4. level' = [level EXCEPT ![o.side] = [k \in Slot |-> linked(k)]]
  BY DEF LinkLevel
<1>5. level' \in [Side -> [Slot -> Levels]]
  <2> HIDE DEF linked
  <2>1. [k \in Slot |-> linked(k)] \in [Slot -> Levels]
    BY <1>3
  <2>2. QED
    BY <1>1, <1>4, <2>1 DEF TypeOK
<1>6. nextPrice' \in [OrderNo -> OrderNo \cup {0, NULL_INDEX}]
  BY DEF LinkLevel, TypeOK
<1>7. owner' \in [Side -> [Slot -> Stocks \cup {NoStock}]]
  BY <1>1 DEF LinkLevel, TypeOK
<1>8. nextLevel' \in [Side -> 0..LevelMax]
  BY SMTT(40), <1>1, LevelAssumption DEF LinkLevel, TypeOK
<1>9. QED
  BY <1>5, <1>6, <1>7, <1>8

\* The inductive step behind TypeCorrect: one case per action.
LEMMA TypeInductive ==
  ASSUME TypeInv, [Next]_vars
  PROVE  TypeInv'
<1> USE LevelAssumption, OrderAssumption
<1>1. CASE UNCHANGED vars
  BY <1>1 DEF vars, book, TypeInv, TypeOK
<1>2. CASE UpdateByOrder
  <2>1. PICK o \in Orders : Enter(o)
    BY <1>2 DEF UpdateByOrder
  <2>2. list[o.side][o.stock].best \in Slot \cup {NULL_INDEX}
    BY DEF TypeInv, TypeOK, Orders, Ends
  <2>3. QED
    <3>1. /\ nextOrder \in OrderNo /\ nextOrder' \in 0..OrderMax /\ nextOrder' > 0
          /\ orderProcessNo' \in OrderNo
      BY <1>2, <2>1, NumberAssumption DEF UpdateByOrder, Enter, PushOrder, TypeInv, TypeOK
    <3>2. nextPrice' \in [OrderNo -> OrderNo \cup {0, NULL_INDEX}] /\ misnumbered' \in BOOLEAN
      BY <2>1, <3>1 DEF Enter, PushOrder, TypeInv, TypeOK
    <3>3. QED
      BY <1>2, <2>1, <2>2, <3>1, <3>2 DEF UpdateByOrder, Enter, PushOrder, TypeInv, TypeOK
<1> DEFINE side == order.side
<1>3. order \in Orders /\ side \in Side /\ order.stock \in Stocks
  BY DEF TypeInv, TypeOK, Orders
<1>4. ASSUME index # NULL_INDEX PROVE index \in Slot /\ Current \in Levels
  BY <1>3, <1>4 DEF TypeInv, TypeOK, Current
<1>5. ASSUME pc # "idle" PROVE orderProcessNo \in OrderNo
  BY <1>5 DEF TypeInv, TypeOK
<1>6. CASE WalkOn
  <2>1. Current.next \in Slot \cup {NULL_INDEX}
    BY <1>4, <1>6 DEF WalkOn, Levels
  <2>2. QED
    BY <1>6, <2>1 DEF WalkOn, Stays, book, TypeInv, TypeOK
<1>7. CASE UpdateNode
  <2>1. Current.lastOrder \in OrderNo \cup {0, NULL_INDEX} /\ orderProcessNo \in OrderNo
    BY <1>4, <1>5, <1>7 DEF UpdateNode, Levels
  <2>2. [Current EXCEPT !.lastOrder = orderProcessNo] \in Levels
    BY <1>4, <1>7, <2>1 DEF UpdateNode, Levels
  <2>3. level' = [level EXCEPT ![side][index] = [Current EXCEPT !.lastOrder = orderProcessNo]]
    BY <1>7 DEF UpdateNode, JoinLevel, Current
  <2>4. level' \in [Side -> [Slot -> Levels]]
    BY <1>3, <1>4, <1>7, <2>2, <2>3 DEF UpdateNode, TypeInv, TypeOK
  <2>5. nextPrice' \in [OrderNo -> OrderNo \cup {0, NULL_INDEX}]
    BY <1>7, <2>1 DEF UpdateNode, JoinLevel, Current, TypeInv, TypeOK
  <2>6. QED
    BY <1>7, <2>4, <2>5 DEF UpdateNode, JoinLevel, Stays, TypeInv, TypeOK
<1>8. CASE NeedLevel
  BY <1>3, <1>8 DEF NeedLevel, Stays, TypeInv, TypeOK
<1>9. CASE SkipUsed
  BY <1>3, <1>9 DEF SkipUsed, Stays, TypeInv, TypeOK
<1>10. CASE InsertNode
  <2> DEFINE new == nextLevel[side]
             l == list[side][order.stock]
  <2>1. new \in Slot /\ orderProcessNo \in OrderNo
    BY <1>5, <1>10 DEF InsertNode, TypeInv
  <2>2. l \in Ends
    BY <1>3 DEF TypeInv, TypeOK
  <2>3. CASE index # NULL_INDEX
    <3>1. InsertLevel(order, orderProcessNo, index, new)
      BY <1>10, <2>3 DEF InsertNode
    <3>2. level[side][index].prev \in Slot \cup {0, NULL_INDEX}
      BY <1>4, <2>3 DEF Current, Levels
    <3>3. LinkLevel(order, orderProcessNo, new, level[side][index].prev, index)
      BY <3>1 DEF InsertLevel
    <3> DEFINE first == l.best = index \/ level[side][index].prev = NULL_INDEX
               ends == [number |-> l.number + 1, best |-> IF first THEN new ELSE l.best, worst |-> l.worst]
    <3>4. ends \in Ends /\ list' = [list EXCEPT ![side][order.stock] = ends]
      BY <2>1, <2>2, <3>1 DEF Ends, InsertLevel
    <3> HIDE DEF ends
    <3>5. list' \in [Side -> [Stocks -> Ends]]
      BY <1>3, <3>4 DEF TypeInv, TypeOK
    <3>6. QED
      BY <1>3, <1>4, <1>10, <2>1, <2>3, <3>2, <3>3, <3>5, LinkKeepsType
      DEF InsertNode, Stays, TypeInv, TypeOK
  <2>4. CASE index = NULL_INDEX
    <3>1. InsertLastLevel(order, orderProcessNo, new)
      BY <1>10, <2>4 DEF InsertNode
    <3> DEFINE prev == IF l.best < 0 THEN NULL_INDEX ELSE l.worst
               ends == [number |-> l.number + 1, best |-> IF l.best < 0 THEN new ELSE l.best, worst |-> new]
    <3>2. prev \in Slot \cup {NULL_INDEX} /\ ends \in Ends
      BY <2>1, <2>2 DEF Ends
    <3>3. LinkLevel(order, orderProcessNo, new, prev, NULL_INDEX) /\ list' = [list EXCEPT ![side][order.stock] = ends]
      BY <3>1 DEF InsertLastLevel
    <3> HIDE DEF ends
    <3>5. list' \in [Side -> [Stocks -> Ends]]
      BY <1>3, <3>2, <3>3 DEF TypeInv, TypeOK
    <3>4. QED
      BY <1>3, <1>10, <2>1, <2>4, <3>2, <3>3, <3>5, LinkKeepsType
      DEF InsertNode, Stays, TypeInv, TypeOK
  <2>5. QED
    BY <2>3, <2>4
<1>11. CASE LevelsExhausted
  BY <1>11 DEF LevelsExhausted, book, Stays, TypeInv, TypeOK
<1>12. QED
  BY <1>1, <1>2, <1>6, <1>7, <1>8, <1>9, <1>10, <1>11 DEF Next, Walk

LEMMA TypeInitial ==
  ASSUME Init
  PROVE  TypeInv
<1>1. ZeroLevel \in Levels
  BY DEF ZeroLevel, Levels
<1>2. level \in [Side -> [Slot -> Levels]]
  BY <1>1 DEF Init
<1>3. /\ list \in [Side -> [Stocks -> Ends]]
      /\ nextLevel \in [Side -> 0..LevelMax] /\ nextOrder \in 0..OrderMax
      /\ nextPrice \in [OrderNo -> OrderNo \cup {0, NULL_INDEX}]
  BY LevelAssumption, OrderAssumption DEF Init, Ends
<1>4. /\ order \in Orders /\ orderProcessNo \in OrderNo \cup {0}
      /\ index \in Slot \cup {NULL_INDEX} /\ scanned \in 0..LevelMax /\ pc = "idle"
      /\ owner \in [Side -> [Slot -> Stocks \cup {NoStock}]]
  BY LevelAssumption DEF Init
<1>5. misnumbered \in BOOLEAN
  BY Zenon DEF Init
<1>6. QED
  BY <1>2, <1>3, <1>4, <1>5 DEF TypeInv, TypeOK

\* Every index of the book stays inside its array, or is NULL_INDEX: no slot, stock
\* or order that does not exist is ever read or written (price.c:236-325, 773-1181).
THEOREM TypeCorrect == Spec => []TypeOK
<1>1. Spec => []TypeInv
  BY TypeInitial, TypeInductive, PTL DEF Spec
<1>2. TypeInv => TypeOK
  BY DEF TypeInv
<1>3. QED
  BY <1>1, <1>2, PTL
-----------------------------------------------------------------------------
(***************************************************************************)
(* The lists.  LevelsLinked alone is not inductive: a slot is linked where *)
(* the walk stands, so the invariant also says what the walk has learned   *)
(* about the levels in front of it.                                        *)
(***************************************************************************)

\* The levels in front of the walk have better prices than the order; once it
\* needs a level of its own, the one it stands at has a worse price.
Cursor ==
  LET side == order.side
      worst == list[side][order.stock].worst
      front == level[side][index].prev
  IN
  pc \in {"walk", "scan"} =>
    IF index = NULL_INDEX
    THEN worst # NULL_INDEX => Ahead(side, level[side][worst].price, order.price)
    ELSE /\ Used(side, index) /\ owner[side][index] = order.stock
         /\ front # NULL_INDEX => Ahead(side, level[side][front].price, order.price)
         /\ pc = "scan" => Ahead(side, order.price, level[side][index].price)

ListInv == TypeInv /\ LevelsLinked /\ Cursor

SideLinked(side) ==
  /\ \A k \in Slot : Used(side, k) => InList(side, k)
  /\ \A s \in Stocks : EndsOf(side, s)

\* What a side's links say depends on its own levels, ends and owners only.
LEMMA SideUntouched ==
  ASSUME NEW side \in Side, SideLinked(side),
         level'[side] = level[side], list'[side] = list[side], owner'[side] = owner[side]
  PROVE  SideLinked(side)'
<1>1. ASSUME NEW k PROVE Used(side, k)' <=> Used(side, k)
  BY DEF Used
<1>2. ASSUME NEW j, NEW k PROVE Neighbours(side, j, k)' <=> Neighbours(side, j, k)
  BY <1>1 DEF Neighbours, Ahead
<1>3. ASSUME NEW k \in Slot, Used(side, k)' PROVE InList(side, k)'
  <2>1. InList(side, k)
    BY <1>1, <1>3 DEF SideLinked
  <2>2. QED
    BY <1>2, <2>1 DEF InList
<1>4. ASSUME NEW s \in Stocks PROVE EndsOf(side, s)'
  <2>1. EndsOf(side, s)
    BY DEF SideLinked
  <2>2. QED
    BY <1>1, <2>1 DEF EndsOf
<1>5. QED
  BY <1>3, <1>4 DEF SideLinked

\* The heart of the argument: a free slot linked between two neighbours of a
\* list, or beyond an end of it, leaves a linked list.
LEMMA LinkKeepsLists ==
  ASSUME TypeOK, NEW o \in Orders, SideLinked(o.side),
         NEW n \in OrderNo, NEW new \in Slot, ~Used(o.side, new),
         NEW prev \in Slot \cup {NULL_INDEX}, NEW next \in Slot \cup {NULL_INDEX},
         LinkLevel(o, n, new, prev, next),
         prev # NULL_INDEX => /\ Used(o.side, prev) /\ owner[o.side][prev] = o.stock
                              /\ level[o.side][prev].next = next
                              /\ Ahead(o.side, level[o.side][prev].price, o.price),
         next # NULL_INDEX => /\ Used(o.side, next) /\ owner[o.side][next] = o.stock
                              /\ level[o.side][next].prev = prev
                              /\ Ahead(o.side, o.price, level[o.side][next].price),
         prev = NULL_INDEX => list[o.side][o.stock].best = next,
         next = NULL_INDEX => list[o.side][o.stock].worst = prev,
         NEW number \in Int,
         list' = [list EXCEPT ![o.side][o.stock] =
                    [number |-> number,
                     best |-> IF prev = NULL_INDEX THEN new ELSE list[o.side][o.stock].best,
                     worst |-> IF next = NULL_INDEX THEN new ELSE list[o.side][o.stock].worst]]
  PROVE  SideLinked(o.side)'
<1> DEFINE side == o.side
           s0 == o.stock
           price(k) == level[side][k].price
           nx(k) == level[side][k].next
           pv(k) == level[side][k].prev
           own(k) == owner[side][k]
           best(s) == list[side][s].best
           worst(s) == list[side][s].worst
           price2(k) == level'[side][k].price
           nx2(k) == level'[side][k].next
           pv2(k) == level'[side][k].prev
           own2(k) == owner'[side][k]
           best2(s) == list'[side][s].best
           worst2(s) == list'[side][s].worst
           better(p, q) == Ahead(side, p, q)
           used(k) == price(k) > 0
           link(k) == IF k = new THEN [NewLevel(o, n) EXCEPT !.prev = prev, !.next = next]
                      ELSE IF k = prev THEN [level[side][k] EXCEPT !.next = new]
                      ELSE IF k = next THEN [level[side][k] EXCEPT !.prev = new]
                      ELSE level[side][k]
<1>1. side \in Side /\ s0 \in Stocks /\ o.price \in Nat /\ o.price > 0
  BY PriceAssumption DEF Orders
<1>2. \A k \in Slot : level[side][k] \in Levels
  BY <1>1 DEF TypeOK
<1>3. \A k \in Slot : price(k) \in Nat
  <2>1. \A q \in Prices \cup {0} : q \in Nat
    BY PriceAssumption
  <2>2. QED
    BY <1>2, <2>1 DEF Levels
<1>4. \A k \in Slot : level'[side][k] = link(k)
  <2>1. level' = [level EXCEPT ![side] = [k \in Slot |-> link(k)]]
    BY DEF LinkLevel
  <2> HIDE DEF link, side
  <2>2. QED
    BY <1>1, <2>1 DEF TypeOK
<1>5. \A k \in Slot :
        /\ price2(k) = IF k = new THEN o.price ELSE price(k)
        /\ nx2(k) = IF k = new THEN next ELSE IF k = prev THEN new ELSE nx(k)
        /\ pv2(k) = IF k = new THEN prev ELSE IF k = next /\ k # prev THEN new ELSE pv(k)
  <2> SUFFICES ASSUME NEW k \in Slot
               PROVE  /\ price2(k) = IF k = new THEN o.price ELSE price(k)
                      /\ nx2(k) = IF k = new THEN next ELSE IF k = prev THEN new ELSE nx(k)
                      /\ pv2(k) = IF k = new THEN prev ELSE IF k = next /\ k # prev THEN new ELSE pv(k)
    OBVIOUS
  <2>1. CASE k = new
    <3>1. NewLevel(o, n) \in Levels /\ NewLevel(o, n).price = o.price
      BY NewLevelType DEF NewLevel, AddNewBidNode, AddNewOfferNode, InitBid
    <3> DEFINE half == [NewLevel(o, n) EXCEPT !.prev = prev]
    <3>2. half \in Levels /\ half.prev = prev /\ half.price = o.price
      BY <3>1, RelinkType
    <3> HIDE DEF half
    <3>3. [half EXCEPT !.next = next].next = next /\ [half EXCEPT !.next = next].prev = prev
          /\ [half EXCEPT !.next = next].price = o.price
      BY <3>2, RelinkType
    <3>4. level'[side][k] = [half EXCEPT !.next = next]
      BY <1>4, <2>1 DEF half
    <3>5. QED
      BY <2>1, <3>3, <3>4
  <2>2. CASE k # new /\ k = prev
    <3>1. level'[side][k] = [level[side][k] EXCEPT !.next = new]
      BY <1>4, <2>2
    <3>2. QED
      BY <1>2, <2>2, <3>1, RelinkType
  <2>3. CASE k # new /\ k # prev /\ k = next
    <3>1. level'[side][k] = [level[side][k] EXCEPT !.prev = new]
      BY <1>4, <2>3
    <3>2. QED
      BY <1>2, <2>3, <3>1, RelinkType
  <2>4. CASE k # new /\ k # prev /\ k # next
    BY <1>4, <2>4
  <2>5. QED
    BY <2>1, <2>2, <2>3, <2>4
<1>6. \A k \in Slot : own2(k) = IF k = new THEN s0 ELSE own(k)
  BY <1>1 DEF LinkLevel, TypeOK
<1>7. \A s \in Stocks :
        /\ best2(s) = IF s = s0 /\ prev = NULL_INDEX THEN new ELSE best(s)
        /\ worst2(s) = IF s = s0 /\ next = NULL_INDEX THEN new ELSE worst(s)
  BY <1>1 DEF TypeOK
<1>8. \A k \in Slot : used(k) =>
        /\ own(k) \in Stocks
        /\ IF nx(k) = NULL_INDEX THEN worst(own(k)) = k
           ELSE /\ nx(k) \in Slot /\ used(nx(k)) /\ own(nx(k)) = own(k) /\ pv(nx(k)) = k
                /\ better(price(k), price(nx(k)))
        /\ IF pv(k) = NULL_INDEX THEN best(own(k)) = k
           ELSE /\ pv(k) \in Slot /\ used(pv(k)) /\ own(pv(k)) = own(k) /\ nx(pv(k)) = k
                /\ better(price(pv(k)), price(k))
  BY ZenonT(40) DEF SideLinked, InList, Neighbours, Used
<1>9. \A s \in Stocks : best(s) \in Slot \cup {NULL_INDEX} /\ worst(s) \in Slot \cup {NULL_INDEX}
  BY <1>1 DEF TypeOK, Ends
<1>10. \A s \in Stocks :
        /\ best(s) = NULL_INDEX <=> worst(s) = NULL_INDEX
        /\ best(s) # NULL_INDEX => used(best(s)) /\ own(best(s)) = s /\ pv(best(s)) = NULL_INDEX
        /\ worst(s) # NULL_INDEX => used(worst(s)) /\ own(worst(s)) = s /\ nx(worst(s)) = NULL_INDEX
  BY DEF SideLinked, EndsOf, Used
<1>11. \A k \in Slot : ~better(price(k), price(k))
  BY <1>3 DEF Ahead
<1>12. /\ ~used(new)
       /\ prev # NULL_INDEX => used(prev) /\ own(prev) = s0 /\ nx(prev) = next /\ better(price(prev), o.price)
       /\ next # NULL_INDEX => used(next) /\ own(next) = s0 /\ pv(next) = prev /\ better(o.price, price(next))
       /\ prev = NULL_INDEX => best(s0) = next
       /\ next = NULL_INDEX => worst(s0) = prev
  BY DEF Used
<1> DEFINE used2(k) == price2(k) > 0
<1>13. \A k \in Slot : used2(k) <=> k = new \/ used(k)
  BY <1>1, <1>5
<1>14. ASSUME NEW k \in Slot, used2(k) PROVE
        /\ own2(k) \in Stocks
        /\ IF nx2(k) = NULL_INDEX THEN worst2(own2(k)) = k
           ELSE /\ nx2(k) \in Slot /\ used2(nx2(k)) /\ own2(nx2(k)) = own2(k) /\ pv2(nx2(k)) = k
                /\ better(price2(k), price2(nx2(k)))
        /\ IF pv2(k) = NULL_INDEX THEN best2(own2(k)) = k
           ELSE /\ pv2(k) \in Slot /\ used2(pv2(k)) /\ own2(pv2(k)) = own2(k) /\ nx2(pv2(k)) = k
                /\ better(price2(pv2(k)), price2(k))
  <2> HIDE DEF side, s0, price, nx, pv, own, best, worst, better, used, link,
               price2, nx2, pv2, own2, best2, worst2, used2
  <2>1. CASE k = new
    BY <1>1, <1>5, <1>6, <1>7, <1>8, <1>9, <1>10, <1>11, <1>12, <1>13, <2>1
  <2>2. CASE k # new /\ k = prev
    BY <1>1, <1>5, <1>6, <1>7, <1>8, <1>9, <1>10, <1>11, <1>12, <1>13, <1>14, <2>2
  <2>3. CASE k # new /\ k # prev /\ k = next
    BY <1>1, <1>5, <1>6, <1>7, <1>8, <1>9, <1>10, <1>11, <1>12, <1>13, <1>14, <2>3
  <2>4. CASE k # new /\ k # prev /\ k # next
    BY <1>1, <1>5, <1>6, <1>7, <1>8, <1>9, <1>10, <1>11, <1>12, <1>13, <1>14, <2>4
  <2>5. QED
    BY <2>1, <2>2, <2>3, <2>4
<1>15. ASSUME NEW s \in Stocks PROVE
        /\ best2(s) = NULL_INDEX <=> worst2(s) = NULL_INDEX
        /\ best2(s) # NULL_INDEX => used2(best2(s)) /\ own2(best2(s)) = s /\ pv2(best2(s)) = NULL_INDEX
        /\ worst2(s) # NULL_INDEX => used2(worst2(s)) /\ own2(worst2(s)) = s /\ nx2(worst2(s)) = NULL_INDEX
  <2> HIDE DEF side, s0, price, nx, pv, own, best, worst, better, used, link,
               price2, nx2, pv2, own2, best2, worst2, used2
  <2>1. QED
    BY <1>1, <1>5, <1>6, <1>7, <1>9, <1>10, <1>12, <1>13
<1>16. ASSUME NEW k \in Slot, Used(side, k)' PROVE InList(side, k)'
  BY ZenonT(40), <1>14, <1>16 DEF InList, Neighbours, Used, Ahead
<1>17. ASSUME NEW s \in Stocks PROVE EndsOf(side, s)'
  BY <1>15 DEF EndsOf, Used
<1>18. QED
  BY <1>16, <1>17 DEF SideLinked

\* LevelsLinked reads only these three variables.
LEMMA ListsUntouched ==
  ASSUME LevelsLinked, UNCHANGED <<level, list, owner>>
  PROVE  LevelsLinked'
<1>1. ASSUME NEW side \in Side, NEW k \in Slot PROVE Used(side, k)' = Used(side, k)
  BY DEF Used
<1>2. ASSUME NEW side \in Side, NEW k \in Slot, InList(side, k) PROVE InList(side, k)'
  BY <1>2 DEF InList, Neighbours, Used, Ahead
<1>3. ASSUME NEW side \in Side, NEW s \in Stocks, EndsOf(side, s) PROVE EndsOf(side, s)'
  BY <1>3 DEF EndsOf, Used
<1>4. QED
  BY <1>1, <1>2, <1>3, Zenon DEF LevelsLinked

\* An order that joins a level changes none of the links between levels.
LEMMA JoinKeepsLists ==
  ASSUME TypeOK, LevelsLinked, NEW k \in Slot, NEW n \in OrderNo, JoinLevel(order, n, k)
  PROVE  LevelsLinked'
<1>1. order.side \in Side
  BY DEF TypeOK, Orders
<1>2. \A side \in Side, j \in Slot : level[side][j] \in Levels
  BY DEF TypeOK
<1>3. level' = [level EXCEPT ![order.side][k] = [level[order.side][k] EXCEPT !.lastOrder = n]]
      /\ UNCHANGED <<list, owner>>
  BY DEF JoinLevel
<1>4. ASSUME NEW side \in Side, NEW j \in Slot
      PROVE  /\ level'[side][j].price = level[side][j].price
             /\ level'[side][j].next = level[side][j].next
             /\ level'[side][j].prev = level[side][j].prev
  <2>1. CASE side = order.side /\ j = k
    <3>1. level'[side][j] = [level[side][j] EXCEPT !.lastOrder = n]
      BY <1>1, <1>3, <2>1 DEF TypeOK
    <3>2. QED
      BY <1>2, <3>1 DEF Levels
  <2>2. CASE ~(side = order.side /\ j = k)
    BY <1>1, <1>3, <2>2 DEF TypeOK
  <2>3. QED
    BY <2>1, <2>2
<1>5. ASSUME NEW side \in Side, NEW j \in Slot, Used(side, j)' PROVE InList(side, j)'
  <2>1. Used(side, j) /\ InList(side, j)
    BY <1>4, <1>5 DEF Used, LevelsLinked
  <2> DEFINE nx == level[side][j].next
             pv == level[side][j].prev
  <2>2. level'[side][j].next = nx /\ level'[side][j].prev = pv /\ list' = list /\ owner' = owner
    BY <1>3, <1>4
  <2>3. ASSUME NEW a \in Slot, NEW b \in Slot, Neighbours(side, a, b) PROVE Neighbours(side, a, b)'
    BY <1>4, <2>2, <2>3 DEF Neighbours, Used, Ahead
  <2>5. QED
    BY <2>1, <2>2, <2>3 DEF InList
<1>6. ASSUME NEW side \in Side, NEW s \in Stocks PROVE EndsOf(side, s)'
  <2>1. EndsOf(side, s) /\ list[side][s] \in Ends
    BY DEF LevelsLinked, TypeOK
  <2>2. list[side][s].best \in Slot \cup {NULL_INDEX} /\ list[side][s].worst \in Slot \cup {NULL_INDEX}
    BY <2>1 DEF Ends
  <2>3. list' = list /\ owner' = owner
    BY <1>3, <1>4
  <2>4. \A j \in Slot : /\ Used(side, j)' <=> Used(side, j)
                       /\ level'[side][j].next = level[side][j].next
                       /\ level'[side][j].prev = level[side][j].prev
    BY <1>3, <1>4 DEF Used
  <2>5. QED
    BY <2>1, <2>2, <2>3, <2>4 DEF EndsOf
<1>7. QED
  BY <1>5, <1>6 DEF LevelsLinked

\* A new level is linked where the walk stands: the neighbours Cursor describes.
LEMMA InsertKeepsLists ==
  ASSUME ListInv, InsertNode
  PROVE  LevelsLinked'
<1>1. PICK o \in Orders : o = order
  BY DEF ListInv, TypeInv, TypeOK
<1> DEFINE side == o.side
           n == orderProcessNo
           new == nextLevel[side]
           l == list[side][o.stock]
<1>2. side \in Side /\ o.stock \in Stocks /\ new \in Slot /\ n \in OrderNo
      /\ l \in Ends /\ ~Used(side, new) /\ SideLinked(side) /\ TypeOK
  <2>1. side \in Side /\ o.stock \in Stocks
    BY DEF Orders
  <2>2. TypeOK /\ SideLinked(side)
    BY <2>1 DEF ListInv, TypeInv, LevelsLinked, SideLinked
  <2>3. new \in Slot /\ n \in OrderNo
    <3>1. pc = "scan" /\ orderProcessNo \in OrderNo
      BY <2>2 DEF InsertNode, TypeOK
    <3>2. QED
      BY <1>1, <3>1 DEF ListInv, TypeInv
  <2>4. l \in Ends /\ ~Used(side, new)
    BY <1>1, <2>1, <2>2 DEF TypeOK, InsertNode
  <2>5. QED
    BY <2>1, <2>2, <2>3, <2>4
<1>3. SideLinked(side)'
  <2>1. CASE index # NULL_INDEX
    <3> DEFINE prev == level[side][index].prev
               first == l.best = index \/ prev = NULL_INDEX
    <3>1. index \in Slot /\ Used(side, index) /\ owner[side][index] = o.stock
          /\ Ahead(side, o.price, level[side][index].price)
          /\ (prev # NULL_INDEX => Ahead(side, level[side][prev].price, o.price))
      BY <1>1, <2>1 DEF ListInv, Cursor, TypeInv, TypeOK, InsertNode
    <3>2. InList(side, index) /\ EndsOf(side, o.stock)
      BY <1>2, <3>1 DEF SideLinked
    <3>3. prev \in Slot \cup {NULL_INDEX}
          /\ (prev # NULL_INDEX => /\ Used(side, prev) /\ owner[side][prev] = o.stock
                                   /\ level[side][prev].next = index)
          /\ (prev = NULL_INDEX => l.best = index)
      BY <3>1, <3>2 DEF InList, Neighbours
    <3>4. l.best = index => prev = NULL_INDEX
      BY <2>1, <3>2 DEF EndsOf
    <3>5. InsertLevel(o, n, index, new)
      BY <1>1, <2>1 DEF InsertNode
    <3>6. LinkLevel(o, n, new, prev, index)
      BY <3>5 DEF InsertLevel
    <3>7. list' = [list EXCEPT ![side][o.stock] =
                     [number |-> l.number + 1,
                      best |-> IF prev = NULL_INDEX THEN new ELSE l.best,
                      worst |-> IF index = NULL_INDEX THEN new ELSE l.worst]]
      BY <2>1, <3>4, <3>5 DEF InsertLevel
    <3>8. l.number + 1 \in Int
      BY <1>2 DEF Ends
    <3>9. /\ prev # NULL_INDEX => /\ Used(side, prev) /\ owner[side][prev] = o.stock
                                  /\ level[side][prev].next = index
                                  /\ Ahead(side, level[side][prev].price, o.price)
          /\ index # NULL_INDEX => /\ Used(side, index) /\ owner[side][index] = o.stock
                                   /\ level[side][index].prev = prev
                                   /\ Ahead(side, o.price, level[side][index].price)
          /\ prev = NULL_INDEX => l.best = index
          /\ index = NULL_INDEX => l.worst = prev
          /\ prev \in Slot \cup {NULL_INDEX} /\ index \in Slot \cup {NULL_INDEX}
      BY <2>1, <3>1, <3>3
    <3> HIDE DEF n, new, prev
    <3>10. QED
      BY <1>2, <3>6, <3>7, <3>8, <3>9, LinkKeepsLists, ZenonT(60)
  <2>2. CASE index = NULL_INDEX
    <3> DEFINE empty == l.best < 0
               prev == IF empty THEN NULL_INDEX ELSE l.worst
    <3>1. EndsOf(side, o.stock)
      BY <1>2 DEF SideLinked
    <3>2. l.worst # NULL_INDEX => Ahead(side, level[side][l.worst].price, o.price)
      BY <1>1, <2>2 DEF ListInv, Cursor, InsertNode
    <3>3. l.best \in Slot \cup {NULL_INDEX} /\ l.worst \in Slot \cup {NULL_INDEX} /\ l.number + 1 \in Int
      BY <1>2 DEF Ends
    <3>4. (empty <=> l.best = NULL_INDEX) /\ prev = l.worst
      <4>1. l.best = NULL_INDEX <=> l.worst = NULL_INDEX
        BY <3>1 DEF EndsOf
      <4>2. l.best < 0 <=> l.best = NULL_INDEX
        BY <3>3, LevelAssumption
      <4>3. QED
        BY <4>1, <4>2
    <3>5. prev \in Slot \cup {NULL_INDEX}
          /\ (prev # NULL_INDEX => /\ Used(side, prev) /\ owner[side][prev] = o.stock
                                   /\ level[side][prev].next = NULL_INDEX
                                   /\ Ahead(side, level[side][prev].price, o.price))
          /\ (prev = NULL_INDEX => l.best = NULL_INDEX)
      BY <3>1, <3>2, <3>3, <3>4 DEF EndsOf
    <3>6. InsertLastLevel(o, n, new)
      BY <1>1, <2>2 DEF InsertNode
    <3>7. LinkLevel(o, n, new, prev, NULL_INDEX)
      BY <3>6 DEF InsertLastLevel
    <3>8. list' = [list EXCEPT ![side][o.stock] =
                     [number |-> l.number + 1,
                      best |-> IF prev = NULL_INDEX THEN new ELSE l.best, worst |-> new]]
      BY <3>1, <3>4, <3>6 DEF InsertLastLevel, EndsOf
    <3>9. QED
      BY ZenonT(40), <1>2, <3>3, <3>4, <3>5, <3>7, <3>8, LinkKeepsLists
  <2>3. QED
    BY <2>1, <2>2
<1>4. ASSUME NEW other \in Side, other # side PROVE SideLinked(other)'
  <2>1. level'[other] = level[other] /\ list'[other] = list[other] /\ owner'[other] = owner[other]
    BY <1>1, <1>2, <1>4 DEF InsertNode, InsertLevel, InsertLastLevel, LinkLevel, TypeOK
  <2>2. SideLinked(other)
    BY DEF ListInv, LevelsLinked, SideLinked
  <2>3. QED
    BY <2>1, <2>2, SideUntouched
<1>5. QED
  BY <1>3, <1>4 DEF LevelsLinked, SideLinked

\* The walk: what it has learned about the levels in front of it stays true.
LEMMA CursorKept ==
  ASSUME ListInv, [Next]_vars
  PROVE  Cursor'
<1>1. TypeOK /\ LevelsLinked /\ order \in Orders /\ order.side \in Side /\ order.stock \in Stocks
  BY DEF ListInv, TypeInv, TypeOK, Orders
<1>2. CASE UNCHANGED vars
  BY <1>2 DEF vars, book, ListInv, Cursor, Used, Ahead
<1>3. CASE UpdateByOrder
  <2>1. PICK o \in Orders : Enter(o)
    BY <1>3 DEF UpdateByOrder
  <2>2. o.side \in Side /\ o.stock \in Stocks
    BY DEF Orders
  <2>3. EndsOf(o.side, o.stock)
    BY <1>1, <2>2 DEF LevelsLinked
  <2>4. QED
    BY <2>1, <2>3 DEF Enter, PushOrder, Cursor, EndsOf, Used, Ahead
<1>4. CASE WalkOn
  <2> DEFINE side == order.side
             next == level[side][index].next
  <2>1. index \in Slot /\ Used(side, index) /\ owner[side][index] = order.stock
        /\ Ahead(side, level[side][index].price, order.price)
    BY <1>1, <1>4 DEF ListInv, Cursor, WalkOn, Current, TypeOK
  <2>2. InList(side, index)
    BY <1>1, <2>1 DEF LevelsLinked
  <2>3. pc' = "walk" /\ index' = next /\ UNCHANGED <<level, list, owner, order>>
    BY <1>4 DEF WalkOn, Current, book, Stays
  <2>4. CASE next = NULL_INDEX
    BY <2>1, <2>2, <2>3, <2>4 DEF Cursor, InList, Ahead
  <2>5. CASE next # NULL_INDEX
    BY <2>1, <2>2, <2>3, <2>5 DEF Cursor, InList, Neighbours, Used, Ahead
  <2>6. QED
    BY <2>4, <2>5
<1>5. CASE UpdateNode \/ InsertNode \/ LevelsExhausted
  BY <1>5 DEF UpdateNode, InsertNode, LevelsExhausted, Cursor
<1>6. CASE NeedLevel
  BY <1>6 DEF NeedLevel, Current, Stays, ListInv, Cursor, Used, Ahead
<1>7. CASE SkipUsed
  BY <1>7 DEF SkipUsed, Stays, ListInv, Cursor, Used, Ahead
<1>8. QED
  BY <1>2, <1>3, <1>4, <1>5, <1>6, <1>7 DEF Next, Walk

LEMMA ListInductive ==
  ASSUME ListInv, [Next]_vars
  PROVE  ListInv'
<1>1. TypeInv' /\ Cursor' /\ TypeOK /\ LevelsLinked
  BY TypeInductive, CursorKept DEF ListInv, TypeInv
<1>2. CASE UNCHANGED <<level, list, owner>>
  BY <1>1, <1>2, ListsUntouched DEF ListInv
<1>3. CASE UpdateNode
  <2>1. index \in Slot /\ orderProcessNo \in OrderNo
    BY <1>1, <1>3, OrderAssumption DEF UpdateNode, TypeOK
  <2>2. QED
    BY <1>1, <1>3, <2>1, JoinKeepsLists DEF UpdateNode, ListInv
<1>4. CASE InsertNode
  BY <1>1, <1>4, InsertKeepsLists DEF ListInv
<1>5. QED
  BY <1>2, <1>3, <1>4
  DEF Next, Walk, vars, book, UpdateByOrder, Enter, PushOrder, WalkOn, NeedLevel, SkipUsed,
      LevelsExhausted

LEMMA ListInitial ==
  ASSUME Init
  PROVE  ListInv
<1>1. /\ level = [side \in Side |-> [k \in Slot |-> ZeroLevel]] /\ pc = "idle"
      /\ list = [side \in Side |->
           [s \in Stocks |-> [best |-> NULL_INDEX, worst |-> NULL_INDEX, number |-> 0]]]
  BY DEF Init
<1>2. LevelsLinked /\ Cursor
  BY <1>1 DEF LevelsLinked, EndsOf, Used, ZeroLevel, Cursor
<1>3. QED
  BY <1>2, TypeInitial DEF ListInv

\* However the orders of several stocks interleave in the shared arrays, every list
\* stays doubly linked, in strict price order and between the ends its stock
\* remembers (price.c:810-871, 979-1041).
THEOREM ListsStayLinked == Spec => []LevelsLinked
<1>2. Spec => []ListInv
  BY ListInitial, ListInductive, PTL DEF Spec
<1>3. ListInv => LevelsLinked
  BY DEF ListInv
<1>4. QED
  BY <1>2, <1>3, PTL
-----------------------------------------------------------------------------
(***************************************************************************)
(* What a walk along the links relies on.  It starts at the best end and   *)
(* only ever looks at the levels it passes: that no level it never sees is *)
(* better follows from the links alone, for a level in front of every      *)
(* other has nothing in front of it, and only one level has.               *)
(***************************************************************************)

\* Of some natural numbers, one is the smallest.
LEMMA LeastNat ==
  ASSUME NEW S, S \subseteq Nat, S # {}
  PROVE  \E m \in S : \A k \in S : m <= k
<1>1. PICK m \in S : \A k \in S : <<k, m>> \notin OpToRel(<, Nat)
  BY NatLessThanWellFounded, WFMin, Zenon
<1>2. \A k \in S : ~(k < m)
  BY <1>1, Zenon DEF OpToRel
<1>3. QED
  BY <1>2

\* Of some slots, one has the largest number of those f gives them.
LEMMA LargestSlot ==
  ASSUME NEW f \in [Slot -> Int], NEW P, P \subseteq Slot, P # {}
  PROVE  \E k \in P : \A j \in P : f[j] <= f[k]
<1> DEFINE below(m) == {k \in P : k < m}
           largest(m) == \E k \in below(m) : \A j \in below(m) : f[j] <= f[k]
           wrong == {m \in Nat : below(m) # {} /\ ~largest(m)}
<1> HIDE DEF largest
<1>0. \A k \in P : k \in Int /\ 0 <= k /\ k < LevelMax
  BY LevelAssumption
<1>1. \A m \in Nat : below(m) # {} => largest(m)
  <2> SUFFICES ASSUME wrong # {} PROVE FALSE
    OBVIOUS
  <2>1. PICK m \in wrong : \A i \in wrong : m <= i
    BY LeastNat
  <2>2. m \in Nat /\ below(m) # {} /\ ~largest(m)
    BY <2>1
  <2>3. \A i \in Nat : i < m /\ below(i) # {} => largest(i)
    BY <2>1
  <2> HIDE DEF wrong
  <2>4. m # 0
    <3>1. PICK i \in P : i < m
      BY <2>2
    <3>2. QED
      BY <1>0, <3>1
  <2>5. m - 1 \in Nat /\ m - 1 < m
    BY <2>2, <2>4
  <2>6. below(m) = below(m - 1) \cup (P \cap {m - 1})
    <3>1. \A k \in P : k < m <=> k < m - 1 \/ k = m - 1
      BY <1>0, <2>2, <2>5
    <3>2. QED
      BY <3>1
  <2> HIDE DEF below
  <2>7. CASE m - 1 \notin P
    <3>1. below(m) = below(m - 1)
      BY <2>6, <2>7
    <3>2. largest(m - 1)
      BY <2>2, <2>3, <2>5, <3>1
    <3>3. QED
      BY <2>2, <3>1, <3>2 DEF largest
  <2>8. CASE m - 1 \in P /\ below(m - 1) = {}
    <3>1. below(m) = {m - 1} /\ f[m - 1] \in Int
      BY <2>6, <2>8
    <3>2. QED
      BY <2>2, <3>1 DEF largest
  <2>9. CASE m - 1 \in P /\ below(m - 1) # {}
    <3>1. largest(m - 1)
      BY <2>3, <2>5, <2>9
    <3>2. PICK k \in below(m - 1) : \A j \in below(m - 1) : f[j] <= f[k]
      BY <3>1 DEF largest
    <3>3. below(m) \subseteq P
      BY DEF below
    <3>4. \A j \in below(m) : f[j] \in Int
      BY <3>3
    <3>5. m - 1 \in below(m) /\ k \in below(m)
      BY <2>6, <2>9
    <3>6. \A j \in below(m) : j = m - 1 \/ f[j] <= f[k]
      BY <2>6, <3>2
    <3>7. CASE f[m - 1] <= f[k]
      <4>1. \A j \in below(m) : f[j] <= f[k]
        BY <3>6, <3>7
      <4>2. QED
        BY <2>2, <3>5, <4>1 DEF largest
    <3>8. CASE ~(f[m - 1] <= f[k])
      <4>1. \A j \in below(m) : f[j] <= f[m - 1]
        BY <3>4, <3>5, <3>6, <3>8
      <4>2. QED
        BY <2>2, <3>5, <4>1 DEF largest
    <3>9. QED
      BY <3>7, <3>8
  <2>10. QED
    BY <2>7, <2>8, <2>9
<1>2. LevelMax \in Nat /\ below(LevelMax) = P
  BY <1>0, LevelAssumption
<1>3. largest(LevelMax)
  BY <1>1, <1>2
<1>4. QED
  BY <1>2, <1>3 DEF largest

\* The best end of a linked list is the level with the best price: every other level
\* of the stock is behind it.
LEMMA BestIsAhead ==
  ASSUME DataTypes, LevelsLinked, NEW side \in Side, NEW j \in Slot, Used(side, j)
  PROVE  LET best == list[side][owner[side][j]].best IN
         /\ best \in Slot /\ Used(side, best) /\ owner[side][best] = owner[side][j]
         /\ j = best \/ Ahead(side, level[side][best].price, level[side][j].price)
<1> DEFINE s == owner[side][j]
           best == list[side][s].best
           P == {k \in Slot : Used(side, k) /\ owner[side][k] = s}
           f == [k \in Slot |-> IF side = "bid" THEN level[side][k].price ELSE 0 - level[side][k].price]
<1>1. \A k \in Slot : level[side][k].price \in Nat
  <2>1. \A k \in Slot : level[side][k].price \in Prices \cup {0}
    BY DEF Levels
  <2>2. \A q \in Prices \cup {0} : q \in Nat
    BY PriceAssumption
  <2>3. QED
    BY <2>1, <2>2
<1>2. f \in [Slot -> Int] /\ P \subseteq Slot /\ j \in P
  BY <1>1
<1> HIDE DEF P, f
<1>3. PICK k \in P : \A i \in P : f[i] <= f[k]
  BY <1>2, LargestSlot
<1>4. k \in Slot /\ Used(side, k) /\ owner[side][k] = s /\ InList(side, k)
  BY <1>3 DEF P, LevelsLinked
<1>5. level[side][k].prev = NULL_INDEX
  <2> SUFFICES ASSUME level[side][k].prev # NULL_INDEX PROVE FALSE
    OBVIOUS
  <2> DEFINE i == level[side][k].prev
  <2>1. i \in Slot /\ Used(side, i) /\ owner[side][i] = s /\ Ahead(side, level[side][i].price, level[side][k].price)
    BY <1>4 DEF InList, Neighbours
  <2>2. f[i] <= f[k]
    BY <1>3, <2>1 DEF P
  <2>3. level[side][i].price \in Nat /\ level[side][k].price \in Nat
    BY <1>1, <1>4, <2>1
  <2> HIDE DEF i
  <2>4. CASE side = "bid"
    BY <1>4, <2>1, <2>2, <2>3, <2>4 DEF f, Ahead
  <2>5. CASE side # "bid"
    BY SMTT(40), <1>4, <2>1, <2>2, <2>3, <2>5 DEF f, Ahead
  <2>6. QED
    BY <2>4, <2>5
<1>6. best = k
  BY <1>4, <1>5 DEF InList
<1>7. ASSUME j # best PROVE Ahead(side, level[side][best].price, level[side][j].price)
  <2>1. InList(side, j)
    BY DEF LevelsLinked
  <2>2. level[side][j].prev # NULL_INDEX
    BY <1>7, <2>1 DEF InList
  <2> DEFINE i == level[side][j].prev
  <2>3. i \in Slot /\ Used(side, i) /\ owner[side][i] = s /\ Ahead(side, level[side][i].price, level[side][j].price)
    BY <2>1, <2>2 DEF InList, Neighbours
  <2>4. f[i] <= f[k]
    BY <1>3, <2>3 DEF P
  <2>5. level[side][i].price \in Nat /\ level[side][k].price \in Nat /\ level[side][j].price \in Nat
    BY <1>1, <1>4, <2>3
  <2> HIDE DEF i
  <2>6. CASE side = "bid"
    <3>1. level[side][i].price <= level[side][k].price /\ level[side][i].price > level[side][j].price
      BY <1>4, <2>3, <2>4, <2>6 DEF f, Ahead
    <3>2. QED
      BY <1>6, <2>5, <2>6, <3>1 DEF Ahead
  <2>7. CASE side # "bid"
    <3>1. level[side][k].price <= level[side][i].price /\ level[side][i].price < level[side][j].price
      BY SMTT(40), <1>4, <2>3, <2>4, <2>5, <2>7 DEF f, Ahead
    <3>2. QED
      BY <1>6, <2>5, <2>7, <3>1 DEF Ahead
  <2>8. QED
    BY <2>6, <2>7
<1>8. QED
  BY <1>4, <1>6, <1>7
-----------------------------------------------------------------------------
(***************************************************************************)
(* What a step of a walk leaves of the levels: all as they were, but for   *)
(* the links, and for a free slot it may take.                             *)
(***************************************************************************)
Kept(side, k) ==
  /\ level'[side][k].price = level[side][k].price
  /\ level'[side][k].orderNumber = level[side][k].orderNumber
  /\ level'[side][k].orderAmount = level[side][k].orderAmount
  /\ owner'[side][k] = owner[side][k]

Taken(side, k) ==
  /\ side = order.side /\ k = nextLevel[side] /\ ~Used(side, k)
  /\ level'[side][k].price = order.price
  /\ side = "offer" => level'[side][k].orderNumber = 0
  /\ level'[side][k].orderAmount >= 0
  /\ owner'[side][k] = order.stock

LEMMA LinkFills ==
  ASSUME DataTypes, NEW n \in OrderNo, ~Used(order.side, nextLevel[order.side]),
         nextLevel[order.side] \in Slot,
         NEW prev \in Slot \cup {0, NULL_INDEX}, NEW next \in Slot \cup {0, NULL_INDEX},
         LinkLevel(order, n, nextLevel[order.side], prev, next),
         NEW side \in Side, NEW k \in Slot
  PROVE  IF side = order.side /\ k = nextLevel[side] THEN Taken(side, k) ELSE Kept(side, k)
<1> DEFINE new == nextLevel[order.side]
           old == level[order.side]
           linked(j) == IF j = new THEN [NewLevel(order, n) EXCEPT !.prev = prev, !.next = next]
                        ELSE IF j = prev THEN [old[j] EXCEPT !.next = new]
                        ELSE IF j = next THEN [old[j] EXCEPT !.prev = new]
                        ELSE old[j]
<1>1. /\ level' = [level EXCEPT ![order.side] = [j \in Slot |-> linked(j)]]
      /\ owner' = [owner EXCEPT ![order.side][new] = order.stock]
  BY DEF LinkLevel
<1>2. order.side \in Side /\ order.balance >= 0 /\ level[side][k] \in Levels
  BY Positive DEF Orders
<1>3. CASE side = order.side /\ k = new
  <2>1. NewLevel(order, n) \in Levels /\ NewLevel(order, n).price = order.price
        /\ NewLevel(order, n).orderAmount >= 0
        /\ (side = "offer" => NewLevel(order, n).orderNumber = 0)
    BY <1>2, <1>3, NewLevelType
  <2>2. /\ linked(k).price = NewLevel(order, n).price
        /\ linked(k).orderAmount = NewLevel(order, n).orderAmount
        /\ linked(k).orderNumber = NewLevel(order, n).orderNumber
    BY <1>3, <2>1 DEF Levels
  <2> HIDE DEF linked
  <2>3. level'[side][k] = linked(k) /\ owner'[side][k] = order.stock
    BY <1>1, <1>2, <1>3
  <2>4. QED
    BY <1>3, <2>1, <2>2, <2>3 DEF Taken
<1>4. CASE side = order.side /\ k # new
  <2>1. /\ linked(k).price = level[side][k].price
        /\ linked(k).orderAmount = level[side][k].orderAmount
        /\ linked(k).orderNumber = level[side][k].orderNumber
    BY <1>2, <1>4 DEF Levels
  <2> HIDE DEF linked
  <2>2. level'[side][k] = linked(k) /\ owner'[side][k] = owner[side][k]
    BY <1>1, <1>2, <1>4
  <2>3. QED
    BY <1>4, <2>1, <2>2 DEF Kept
<1>5. CASE side # order.side
  <2> HIDE DEF linked
  <2>1. level'[side] = level[side] /\ owner'[side] = owner[side]
    BY <1>1, <1>2, <1>5
  <2>2. QED
    BY <1>5, <2>1 DEF Kept
<1>6. QED
  BY <1>3, <1>4, <1>5

LEMMA InsertFills ==
  ASSUME TypeInv, InsertNode, NEW side \in Side, NEW k \in Slot
  PROVE  IF side = order.side /\ k = nextLevel[side] THEN Taken(side, k) ELSE Kept(side, k)
<1>0. DataTypes /\ order.side \in Side /\ order.stock \in Stocks
  BY DEF TypeInv, TypeOK, Orders
<1> DEFINE new == nextLevel[order.side]
           l == list[order.side][order.stock]
<1>1. new \in Slot /\ ~Used(order.side, new) /\ orderProcessNo \in OrderNo
  BY <1>0, OrderAssumption DEF InsertNode, TypeInv
<1>2. CASE index # NULL_INDEX
  <2>1. LinkLevel(order, orderProcessNo, new, level[order.side][index].prev, index) /\ index \in Slot
    BY <1>0, <1>2 DEF InsertNode, InsertLevel
  <2>2. level[order.side][index].prev \in Slot \cup {0, NULL_INDEX}
    BY <1>0, <2>1 DEF Levels
  <2>3. QED
    BY <1>0, <1>1, <2>1, <2>2, LinkFills
<1>3. CASE index = NULL_INDEX
  <2> DEFINE prev == IF l.best < 0 THEN NULL_INDEX ELSE l.worst
  <2>1. LinkLevel(order, orderProcessNo, new, prev, NULL_INDEX)
    BY <1>3 DEF InsertNode, InsertLastLevel
  <2>2. prev \in Slot \cup {0, NULL_INDEX}
    BY <1>0 DEF Ends
  <2>3. QED
    BY <1>0, <1>1, <2>1, <2>2, LinkFills
<1>5. QED
  BY <1>2, <1>3

LEMMA WalkFills ==
  ASSUME TypeInv, Walk, NEW side \in Side, NEW k \in Slot
  PROVE  Kept(side, k) \/ Taken(side, k)
<1>1. DataTypes /\ order.side \in Side /\ order.stock \in Stocks /\ level[side][k] \in Levels
  BY DEF TypeInv, TypeOK, Orders
<1>2. CASE UNCHANGED <<level, owner>>
  BY <1>2 DEF Kept
<1>3. CASE UpdateNode
  <2>1. index \in Slot /\ owner' = owner
        /\ level' = [level EXCEPT ![order.side][index].lastOrder = orderProcessNo]
    BY <1>1, <1>3 DEF UpdateNode, JoinLevel
  <2>2. QED
    BY <1>1, <2>1 DEF Kept, Levels
<1>4. CASE InsertNode
  BY <1>4, InsertFills
<1>5. QED
  BY <1>2, <1>3, <1>4 DEF Walk, WalkOn, NeedLevel, SkipUsed, LevelsExhausted, book
-----------------------------------------------------------------------------
(***************************************************************************)
(* What the lists reach.  Every slot taken for a stock is found by         *)
(* starting at the stock's best level and following the links, and the     *)
(* number the stock keeps counts those slots.                              *)
(***************************************************************************)

\* Some level of a set has a price no other level of the set is ahead of.
LEMMA BestPriced ==
  ASSUME DataTypes, NEW side \in Side, NEW P, P \subseteq Slot, P # {}
  PROVE  \E k \in P : \A i \in P : ~Ahead(side, level[side][i].price, level[side][k].price)
<1> DEFINE price(k) == level[side][k].price
           f == [k \in Slot |-> IF side = "bid" THEN price(k) ELSE 0 - price(k)]
<1>1. \A k \in Slot : price(k) \in Nat
  <2>1. \A k \in Slot : price(k) \in Prices \cup {0}
    BY DEF Levels
  <2>2. QED
    BY <2>1, Positive
<1>2. f \in [Slot -> Int]
  BY <1>1
<1> HIDE DEF f
<1>3. PICK k \in P : \A i \in P : f[i] <= f[k]
  BY <1>2, LargestSlot
<1>4. ASSUME NEW i \in P PROVE ~Ahead(side, price(i), price(k))
  <2>1. f[i] <= f[k] /\ i \in Slot /\ k \in Slot /\ price(i) \in Nat /\ price(k) \in Nat
    BY <1>1, <1>3
  <2>2. CASE side = "bid"
    BY <2>1, <2>2 DEF f, Ahead
  <2>3. CASE side # "bid"
    BY SMTT(40), <2>1, <2>3 DEF f, Ahead
  <2>4. QED
    BY <2>2, <2>3
<1>5. QED
  BY <1>4

\* The slots taken for a stock.
Owned(side, s) == {k \in Slot : Used(side, k) /\ owner[side][k] = s}

LEMMA ListReachesAll ==
  ASSUME DataTypes, LevelsLinked, NEW side \in Side, NEW s \in Stocks
  PROVE  LevelsOf(side, s) = Owned(side, s)
<1> DEFINE best == list[side][s].best
           next(k) == level[side][k].next
           prev(k) == level[side][k].prev
           HasAll(S) == /\ best # NULL_INDEX => best \in S
                        /\ \A k \in S : next(k) # NULL_INDEX => next(k) \in S
<1>1. LevelsOf(side, s) = {k \in Slot : \A S \in SUBSET Slot : HasAll(S) => k \in S}
  BY DEF LevelsOf
<1>2. \A k \in Owned(side, s) : k \in Slot /\ InList(side, k)
  BY DEF Owned, LevelsLinked
<1>3. HasAll(Owned(side, s))
  <2>1. best # NULL_INDEX => best \in Slot /\ Used(side, best) /\ owner[side][best] = s
    BY DEF LevelsLinked, EndsOf, Ends
  <2>2. ASSUME NEW k \in Owned(side, s), next(k) # NULL_INDEX PROVE next(k) \in Owned(side, s)
    BY <1>2, <2>2 DEF Owned, InList, Neighbours
  <2>3. QED
    BY <2>1, <2>2 DEF Owned
<1>4. ASSUME NEW S \in SUBSET Slot, HasAll(S) PROVE Owned(side, s) \subseteq S
  <2> DEFINE P == Owned(side, s) \ S
  <2> SUFFICES ASSUME P # {} PROVE FALSE
    OBVIOUS
  <2>1. P \subseteq Slot
    BY DEF Owned
  <2> HIDE DEF P
  <2>2. PICK k \in P : \A i \in P : ~Ahead(side, level[side][i].price, level[side][k].price)
    BY <2>1, BestPriced
  <2>3. k \in Owned(side, s) /\ k \notin S /\ InList(side, k) /\ owner[side][k] = s /\ k \in Slot
    BY <1>2, <2>2 DEF P, Owned
  <2>4. CASE prev(k) = NULL_INDEX
    <3>1. best = k /\ k # NULL_INDEX
      BY <2>3, <2>4 DEF InList
    <3>2. QED
      BY <1>4, <2>3, <3>1
  <2>5. CASE prev(k) # NULL_INDEX
    <3>1. PICK i \in Slot : i = prev(k)
      BY <2>3, <2>5 DEF InList
    <3>2. Neighbours(side, i, k)
      BY <2>3, <2>5, <3>1 DEF InList
    <3>3. i \in Owned(side, s) /\ next(i) = k /\ Ahead(side, level[side][i].price, level[side][k].price)
      BY <2>3, <3>2 DEF Neighbours, Owned
    <3>4. i \in S
      BY <2>2, <3>3 DEF P
    <3>5. QED
      BY <1>4, <2>3, <3>3, <3>4
  <2>6. QED
    BY <2>4, <2>5
<1>5. Owned(side, s) \in SUBSET Slot
  BY DEF Owned
<1> HIDE DEF HasAll
<1>6. QED
  BY <1>1, <1>3, <1>4, <1>5

\* The number a stock keeps is the number of slots taken for it.
Counted == \A side \in Side, s \in Stocks : list[side][s].number = Cardinality(Owned(side, s))

LEMMA CountInductive ==
  ASSUME ListInv, Counted, [Next]_vars
  PROVE  Counted'
<1>1. TypeInv /\ DataTypes /\ order.side \in Side /\ order.stock \in Stocks
  BY DEF ListInv, TypeInv, TypeOK, Orders
<1>2. CASE UNCHANGED <<level, list, owner>>
  BY <1>2 DEF Counted, Owned, Used
<1>3. CASE UpdateNode
  <2>1. \A side \in Side, k \in Slot : level'[side][k].price = level[side][k].price
    <3>1. index \in Slot /\ level' = [level EXCEPT ![order.side][index].lastOrder = orderProcessNo]
      BY <1>1, <1>3 DEF UpdateNode, JoinLevel
    <3>2. QED
      BY <1>1, <3>1 DEF Levels
  <2>2. UNCHANGED <<list, owner>>
    BY <1>3 DEF UpdateNode, JoinLevel
  <2>3. \A side \in Side, s \in Stocks : Owned(side, s)' = Owned(side, s)
    BY <2>1, <2>2 DEF Owned, Used
  <2>4. QED
    BY <2>2, <2>3 DEF Counted
<1>4. CASE InsertNode
  <2>1. PICK side0 \in Side, s0 \in Stocks, new \in Slot :
          /\ side0 = order.side /\ s0 = order.stock /\ new = nextLevel[side0]
          /\ ~Used(side0, new)
    BY <1>1, <1>4 DEF InsertNode, TypeInv
  <2>2. \A side \in Side, s \in Stocks :
          list'[side][s].number = list[side][s].number + (IF side = side0 /\ s = s0 THEN 1 ELSE 0)
    <3>1. PICK b, w : list' = [list EXCEPT ![side0][s0] =
                         [number |-> list[side0][s0].number + 1, best |-> b, worst |-> w]]
      BY <1>4, <2>1 DEF InsertNode, InsertLevel, InsertLastLevel
    <3>2. \A side \in Side, s \in Stocks : list[side][s].number \in Int
      BY <1>1 DEF Ends
    <3>3. QED
      BY <1>1, <3>1, <3>2
  <2>3. order.price \in Int /\ order.price > 0
    BY <1>1, Positive DEF Orders
  <2>4. \A side \in Side, k \in Slot :
          /\ Used(side, k)' <=> Used(side, k) \/ (side = side0 /\ k = new)
          /\ owner'[side][k] = IF side = side0 /\ k = new THEN s0 ELSE owner[side][k]
    BY <1>1, <1>4, <2>1, <2>3, InsertFills DEF Taken, Kept, Used
  <2>5. ASSUME NEW side \in Side, NEW s \in Stocks
        PROVE  list'[side][s].number = Cardinality(Owned(side, s)')
    <3>1. list[side][s].number = Cardinality(Owned(side, s))
      BY DEF Counted
    <3>2. IsFiniteSet(Owned(side, s))
      <4>1. IsFiniteSet(Slot)
        BY LevelAssumption, FS_Interval
      <4>2. Owned(side, s) \subseteq Slot
        BY DEF Owned
      <4>3. QED
        BY <4>1, <4>2, FS_Subset
    <3>3. CASE side = side0 /\ s = s0
      <4>1. Owned(side, s)' = Owned(side, s) \cup {new} /\ new \notin Owned(side, s)
        BY <2>1, <2>4, <3>3 DEF Owned
      <4>2. Cardinality(Owned(side, s)') = Cardinality(Owned(side, s)) + 1
        BY <3>2, <4>1, FS_AddElement
      <4>3. QED
        BY <2>2, <3>1, <3>3, <4>2
    <3>4. CASE ~(side = side0 /\ s = s0)
      <4>1. Owned(side, s)' = Owned(side, s)
        BY <2>1, <2>4, <3>4 DEF Owned
      <4>2. list[side][s].number \in Int
        BY <1>1 DEF Ends
      <4>3. QED
        BY <2>2, <3>1, <3>4, <4>1, <4>2
    <3>5. QED
      BY <3>3, <3>4
  <2>6. QED
    BY <2>5 DEF Counted
<1>5. QED
  BY <1>2, <1>3, <1>4
  DEF Next, Walk, vars, book, UpdateByOrder, Enter, PushOrder, WalkOn, NeedLevel, SkipUsed,
      LevelsExhausted

LEMMA CountInitial ==
  ASSUME Init
  PROVE  Counted
<1>1. \A side \in Side, s \in Stocks : list[side][s].number = 0
  BY DEF Init
<1>2. \A side \in Side, k \in Slot : ~Used(side, k)
  BY DEF Init, Used, ZeroLevel
<1>3. \A side \in Side, s \in Stocks : Owned(side, s) = {}
  BY <1>2 DEF Owned
<1>4. QED
  BY <1>1, <1>3, FS_EmptySet DEF Counted

\* bidNumber and offerNumber are the numbers of levels that following next from the
\* best end finds, and no slot in use is out of reach or on two stocks' lists: what
\* the book shows of a stock is all that waits for it (price.c:923, 1093).
THEOREM EveryLevelCounted == Spec => []LevelsCounted
<1>1. ListInv /\ Counted => LevelsCounted
  <2> SUFFICES ASSUME ListInv, Counted PROVE LevelsCounted
    OBVIOUS
  <2>1. DataTypes /\ LevelsLinked
    BY DEF ListInv, TypeInv, TypeOK
  <2>2. \A side \in Side, s \in Stocks : LevelsOf(side, s) = Owned(side, s)
    BY <2>1, ListReachesAll
  <2>3. ASSUME NEW side \in Side, NEW s \in Stocks
        PROVE  list[side][s].number = Cardinality(LevelsOf(side, s))
    BY <2>2 DEF Counted
  <2>4. ASSUME NEW side \in Side, NEW k \in Slot, Used(side, k)
        PROVE  Cardinality({s \in Stocks : k \in LevelsOf(side, s)}) = 1
    <3>1. owner[side][k] \in Stocks
      BY <2>1, <2>4 DEF LevelsLinked, InList
    <3>2. {s \in Stocks : k \in LevelsOf(side, s)} = {owner[side][k]}
      BY <2>2, <2>4, <3>1 DEF Owned
    <3>3. QED
      BY <3>2, FS_Singleton
  <2>5. QED
    BY <2>3, <2>4 DEF LevelsCounted
<1>2. Spec => [](ListInv /\ Counted)
  BY ListInitial, ListInductive, CountInitial, CountInductive, PTL DEF Spec
<1>3. QED
  BY <1>1, <1>2, PTL
-----------------------------------------------------------------------------
(***************************************************************************)
(* The queues.  Two levels of a stock never have the same price, so a      *)
(* price has one queue; and nextPrice, followed from a level's first       *)
(* order, has exactly one way to go.                                       *)
(***************************************************************************)

\* A level x is out of order when it is behind the level y but not behind the one
\* that follows y.  The best of those has in front of it either y or an even better one.
LEMMA PricesDiffer ==
  ASSUME DataTypes, LevelsLinked, NEW side \in Side, NEW j \in Slot, NEW k \in Slot,
         Used(side, j), Used(side, k), owner[side][j] = owner[side][k],
         level[side][j].price = level[side][k].price
  PROVE  j = k
<1> DEFINE s == owner[side][j]
           best == list[side][s].best
           ahead(x, y) == Ahead(side, level[side][x].price, level[side][y].price)
           next(x) == level[side][x].next
           prev(x) == level[side][x].prev
           wrong(x, y) == /\ next(y) # NULL_INDEX /\ x # next(y)
                          /\ ahead(y, x) /\ ~ahead(next(y), x)
           P == {x \in Owned(side, s) : \E y \in Owned(side, s) : wrong(x, y)}
<1>1. \A x \in Owned(side, s) : x \in Slot /\ Used(side, x) /\ owner[side][x] = s /\ InList(side, x)
  BY DEF Owned, LevelsLinked
<1>2. \A x, y, z \in Slot :
        /\ ~ahead(x, x)
        /\ ahead(x, y) /\ ahead(y, z) => ahead(x, z)
        /\ ahead(x, z) => ahead(x, y) \/ ahead(y, z)
  <2>1. \A x \in Slot : level[side][x].price \in Prices \cup {0}
    BY DEF Levels
  <2>2. \A x \in Slot : level[side][x].price \in Int
    BY <2>1, Positive
  <2>3. \A a, b, c \in Int :
          /\ ~Ahead(side, a, a)
          /\ Ahead(side, a, b) /\ Ahead(side, b, c) => Ahead(side, a, c)
          /\ Ahead(side, a, c) => Ahead(side, a, b) \/ Ahead(side, b, c)
    BY DEF Ahead
  <2>4. QED
    BY SMTT(40), <2>2, <2>3
<1>3. \A x \in Owned(side, s) :
        /\ best \in Owned(side, s) /\ (x = best \/ ahead(best, x))
        /\ next(x) # NULL_INDEX => next(x) \in Owned(side, s) /\ prev(next(x)) = x /\ ahead(x, next(x))
        /\ prev(x) # NULL_INDEX => prev(x) \in Owned(side, s) /\ next(prev(x)) = x /\ ahead(prev(x), x)
        /\ prev(x) = NULL_INDEX => x = best
  <2> SUFFICES ASSUME NEW x \in Owned(side, s)
               PROVE  /\ best \in Owned(side, s) /\ (x = best \/ ahead(best, x))
                      /\ next(x) # NULL_INDEX => next(x) \in Owned(side, s) /\ prev(next(x)) = x /\ ahead(x, next(x))
                      /\ prev(x) # NULL_INDEX => prev(x) \in Owned(side, s) /\ next(prev(x)) = x /\ ahead(prev(x), x)
                      /\ prev(x) = NULL_INDEX => x = best
    OBVIOUS
  <2>1. x \in Slot /\ Used(side, x) /\ owner[side][x] = s /\ InList(side, x)
    BY <1>1
  <2>2. best \in Owned(side, s) /\ (x = best \/ ahead(best, x))
    BY ZenonT(40), <2>1, BestIsAhead DEF Owned
  <2>3. QED
    BY <2>1, <2>2 DEF InList, Neighbours, Owned
<1>4. j \in Owned(side, s) /\ k \in Owned(side, s) /\ ~ahead(j, k) /\ ~ahead(k, j)
  <2>1. j \in Owned(side, s) /\ k \in Owned(side, s)
    BY DEF Owned
  <2>2. ~ahead(j, j) /\ (ahead(j, k) <=> ahead(j, j)) /\ (ahead(k, j) <=> ahead(j, j))
    BY <1>2
  <2>3. QED
    BY <2>1, <2>2
<1> HIDE DEF s, best, ahead, next, prev
<1>5. P = {}
  <2> SUFFICES ASSUME P # {} PROVE FALSE
    OBVIOUS
  <2>1. P \subseteq Slot
    BY <1>1
  <2>2. PICK x \in P : \A i \in P : ~ahead(i, x)
    <3> HIDE DEF P
    <3>1. QED
      BY <2>1, BestPriced DEF ahead
  <2>3. PICK y \in Owned(side, s) : wrong(x, y)
    BY <2>2
  <2>4. x \in Owned(side, s) /\ x \in Slot /\ y \in Slot /\ best \in Slot
    BY <1>1, <1>3, <2>2, <2>3
  <2> HIDE DEF P
  <2>5. prev(x) # NULL_INDEX
    BY <1>2, <1>3, <2>3, <2>4
  <2>6. PICK w \in Owned(side, s) : w = prev(x) /\ next(w) = x /\ ahead(w, x) /\ w \in Slot
    BY <1>1, <1>3, <2>4, <2>5
  <2>7. next(y) \in Slot /\ next(y) \in Owned(side, s)
    BY <1>1, <1>3, <2>3
  <2>8. CASE ahead(y, w)
    <3>1. w # next(y) /\ ~ahead(next(y), w)
      BY <1>2, <2>3, <2>4, <2>6, <2>7
    <3>2. w \in P
      BY <2>3, <2>6, <2>8, <3>1 DEF P
    <3>3. QED
      BY <2>2, <2>6, <3>2
  <2>9. CASE ahead(w, y)
    <3>1. x \in Slot /\ x # NULL_INDEX /\ ~ahead(x, y) /\ y # x
      BY <1>2, <2>3, <2>4, LevelAssumption
    <3>2. y \in P
      BY <2>6, <2>9, <3>1 DEF P
    <3>3. QED
      BY <2>2, <2>3, <3>2
  <2>10. CASE ~ahead(y, w) /\ ~ahead(w, y)
    <3>1. w # y
      BY <2>3, <2>6
    <3>2. prev(w) # NULL_INDEX
      BY <1>3, <2>6, <2>10, <3>1
    <3>3. PICK u \in Owned(side, s) : next(u) = w /\ ahead(u, w) /\ u \in Slot
      BY <1>1, <1>3, <2>6, <3>2
    <3>4. ahead(u, y) /\ y # w /\ w # NULL_INDEX
      BY <1>2, <2>4, <2>6, <2>10, <3>1, <3>3, LevelAssumption
    <3>5. y \in P
      BY <2>10, <3>3, <3>4 DEF P
    <3>6. QED
      BY <2>2, <2>3, <3>5
  <2>11. QED
    BY <2>8, <2>9, <2>10
<1>6. QED
  <2> SUFFICES ASSUME j # k PROVE FALSE
    OBVIOUS
  <2>1. prev(j) # NULL_INDEX
    BY <1>3, <1>4
  <2>2. PICK u \in Owned(side, s) : next(u) = j /\ ahead(u, j) /\ u \in Slot
    BY <1>1, <1>3, <1>4, <2>1
  <2>3. ahead(u, k) /\ j # NULL_INDEX
    BY <1>1, <1>2, <1>4, <2>2, LevelAssumption
  <2>4. k \in P
    BY <1>4, <2>2, <2>3
  <2>5. QED
    BY <1>5, <2>4

LEMMA FollowsPrefix ==
  ASSUME NEW q \in Seq(OrderNo), NEW r \in Seq(OrderNo), NEW first,
         Follows(q, first), Follows(r, first), NEW i \in 1..Len(q)
  PROVE  i \in 1..Len(r) /\ r[i] = q[i]
<1> DEFINE wrong == {m \in Nat : m \in 1..Len(q) /\ ~(m \in 1..Len(r) /\ r[m] = q[m])}
<1> SUFFICES ASSUME wrong # {} PROVE FALSE
  OBVIOUS
<1>1. PICK a \in Nat, b \in Nat : a = Len(q) /\ b = Len(r)
  OBVIOUS
<1>2. \A m \in 1..a : q[m] \in OrderNo
  BY <1>1, ElementOfSeq
<1>3. \A m \in 1..b : r[m] \in OrderNo
  BY <1>1, ElementOfSeq
<1>4. \A m \in OrderNo : m # NULL_INDEX
  BY OrderAssumption
<1>5. PICK m \in wrong : \A x \in wrong : m <= x
  BY LeastNat
<1>6. m \in 1..a /\ ~(m \in 1..b /\ r[m] = q[m])
  BY <1>1, <1>5
<1>7. \A x \in 1..(m - 1) : x \in 1..b /\ r[x] = q[x]
  BY <1>1, <1>5, <1>6
<1> HIDE DEF wrong
<1>8. q # <<>> /\ q[1] = first
  BY <1>1, <1>6 DEF Follows
<1>9. r # <<>> /\ r[1] = first /\ b >= 1
  BY <1>1, <1>2, <1>4, <1>6, <1>8 DEF Follows
<1>10. m > 1
  BY <1>6, <1>8, <1>9
<1>11. m - 1 \in 1..a /\ m - 1 # a /\ m - 1 \in 1..b /\ r[m - 1] = q[m - 1]
  BY <1>6, <1>7, <1>10
<1>12. nextPrice[q[m - 1]] = q[m] /\ q[m] # NULL_INDEX
  BY <1>1, <1>2, <1>4, <1>6, <1>8, <1>11 DEF Follows
<1>13. m - 1 # b /\ r[m] = q[m]
  <2>1. nextPrice[r[m - 1]] = IF m - 1 = b THEN NULL_INDEX ELSE r[m - 1 + 1]
    BY <1>1, <1>9, <1>11 DEF Follows
  <2>2. QED
    BY <1>6, <1>11, <1>12, <2>1
<1>14. QED
  BY <1>6, <1>11, <1>13

\* So the orders of a level can be told from its first one.
LEMMA ChainFound ==
  ASSUME NEW q \in Seq(OrderNo), Len(q) <= OrderMax, NEW first, Follows(q, first)
  PROVE  Chain(first) = q
<1>1. \A m \in 0..OrderMax : [1..m -> OrderNo] \subseteq SeqOf(OrderNo, OrderMax)
  BY DEF SeqOf
<1>2. q \in SeqOf(OrderNo, OrderMax)
  <2>1. PICK a \in Nat : a = Len(q)
    OBVIOUS
  <2>2. q \in [1..a -> OrderNo] /\ a \in 0..OrderMax
    BY <2>1, OrderAssumption
  <2>3. QED
    BY <1>1, <2>2
<1>3. SeqOf(OrderNo, OrderMax) \subseteq Seq(OrderNo)
  BY OrderAssumption DEF SeqOf
<1>4. Chain(first) \in SeqOf(OrderNo, OrderMax) /\ Follows(Chain(first), first)
  BY <1>2, Zenon DEF Chain
<1>5. PICK r \in Seq(OrderNo) : r = Chain(first) /\ Follows(r, first)
  BY <1>3, <1>4
<1>6. \A i \in 1..Len(q) : i \in 1..Len(r) /\ r[i] = q[i]
  BY <1>5, FollowsPrefix
<1>7. \A i \in 1..Len(r) : i \in 1..Len(q)
  BY <1>5, FollowsPrefix
<1>8. Len(q) = Len(r)
  <2>1. PICK a \in Nat, b \in Nat : a = Len(q) /\ b = Len(r)
    OBVIOUS
  <2>2. (\A i \in 1..a : i \in 1..b) /\ (\A i \in 1..b : i \in 1..a)
    BY <1>6, <1>7, <2>1
  <2>3. QED
    BY <2>1, <2>2
<1>9. QED
  BY <1>5, <1>6, <1>8, SeqEqual

\* How many orders are in the book: the one the thread works on is not, yet.
Entered == IF pc = "idle" THEN nextOrder ELSE nextOrder - 1

\* q holds the orders of level k: nextPrice leads from the first to the last of them,
\* all are in the book, and there are no more of them than orders came.
Chained(q, side, k) ==
  /\ q # <<>>
  /\ Follows(q, level[side][k].firstOrder)
  /\ q[Len(q)] = level[side][k].lastOrder
  /\ \A i \in 1..Len(q) : i - 1 <= q[i] /\ q[i] < Entered

\* What the refinement rests on: while the orders' numbers are their indices, every level
\* has its chain of orders, no two end in the same order, so that appending to one chain
\* leaves the others alone, and the order on its way has no other behind it.
QueueInv ==
  ~misnumbered =>
    /\ \A side \in Side, k \in Slot :
         Used(side, k) => \E q \in Seq(OrderNo) : Chained(q, side, k)
    /\ \A side, other \in Side, k, j \in Slot :
         Used(side, k) /\ Used(other, j) /\ level[side][k].lastOrder = level[other][j].lastOrder
           => side = other /\ k = j
    /\ pc # "idle" => orderProcessNo = OrderIndex /\ nextPrice[OrderIndex] = NULL_INDEX

LEMMA ChainFits ==
  ASSUME DataTypes, NEW side \in Side, NEW k \in Slot, NEW q \in Seq(OrderNo), Chained(q, side, k)
  PROVE  /\ Len(q) \in 1..OrderMax /\ q[Len(q)] = level[side][k].lastOrder
         /\ level[side][k].lastOrder \in OrderNo
         /\ nextPrice[level[side][k].lastOrder] = NULL_INDEX
         /\ level[side][k].lastOrder < Entered
<1>1. PICK a \in Nat : a = Len(q)
  OBVIOUS
<1>2. a # 0
  BY <1>1, EmptySeq DEF Chained
<1>3. a \in 1..a /\ a \in 1..Len(q) /\ q[a] \in OrderNo
  <2>1. a \in 1..a
    BY <1>2
  <2>2. QED
    BY <1>1, <2>1, ElementOfSeq
<1>4. a - 1 <= q[a] /\ q[a] < Entered /\ q[a] = level[side][k].lastOrder /\ nextPrice[q[a]] = NULL_INDEX
  BY <1>1, <1>3 DEF Chained, Follows
<1>5. q[a] \in Int /\ q[a] < OrderMax
  BY <1>3, OrderAssumption
<1>6. a <= OrderMax
  BY <1>4, <1>5, OrderAssumption
<1>7. QED
  BY <1>1, <1>2, <1>3, <1>4, <1>6

\* The queue of a price is the chain of the level that has it; it is empty if none has.
LevelQueues ==
  \A side \in Side, k \in Slot, q \in Seq(OrderNo) :
    Used(side, k) /\ Chained(q, side, k) => QueueAt(side, owner[side][k], level[side][k].price) = q

EmptyQueues ==
  \A side \in Side, s \in Stocks, p \in Prices :
    (\A k \in Slot : ~(Used(side, k) /\ owner[side][k] = s /\ level[side][k].price = p))
      => QueueAt(side, s, p) = <<>>

\* The ends of the price are those of that level.
LevelEnds ==
  \A side \in Side, k \in Slot :
    Used(side, k) => EndsAt(side, owner[side][k], level[side][k].price)
                       = <<level[side][k].firstOrder, level[side][k].lastOrder>>

EmptyEnds ==
  \A side \in Side, s \in Stocks, p \in Prices :
    (\A k \in Slot : ~(Used(side, k) /\ owner[side][k] = s /\ level[side][k].price = p))
      => EndsAt(side, s, p) = <<>>

PricesApart ==
  \A side \in Side, j, k \in Slot :
    Used(side, j) /\ Used(side, k) /\ owner[side][j] = owner[side][k]
      /\ level[side][j].price = level[side][k].price => j = k

LEMMA LevelOfPrice ==
  ASSUME ListInv, NEW side \in Side, NEW k \in Slot, Used(side, k)
  PROVE  /\ LevelsAt(side, owner[side][k], level[side][k].price) = {k}
         /\ LevelAt(side, owner[side][k], level[side][k].price) = level[side][k]
<1> DEFINE s == owner[side][k]
           p == level[side][k].price
           at == LevelsAt(side, s, p)
<1>1. DataTypes /\ LevelsLinked /\ s \in Stocks
  BY DEF ListInv, TypeInv, TypeOK, LevelsLinked, InList
<1>2. LevelsOf(side, s) = Owned(side, s)
  BY <1>1, ListReachesAll
<1>3. at = {k}
  <2>1. k \in at
    BY <1>2 DEF Owned, LevelsAt
  <2>2. \A j \in at : j = k
    BY <1>1, <1>2, PricesDiffer DEF Owned, LevelsAt
  <2>3. QED
    BY <2>1, <2>2
<1>4. (CHOOSE j \in at : TRUE) = k
  BY <1>3
<1>5. QED
  BY <1>3, <1>4 DEF LevelAt

LEMMA NoLevelOfPrice ==
  ASSUME ListInv, NEW side \in Side, NEW s \in Stocks, NEW p \in Prices,
         \A k \in Slot : ~(Used(side, k) /\ owner[side][k] = s /\ level[side][k].price = p)
  PROVE  LevelsAt(side, s, p) = {}
<1>1. LevelsOf(side, s) = Owned(side, s)
  BY ListReachesAll DEF ListInv, TypeInv, TypeOK
<1>2. QED
  BY <1>1 DEF Owned, LevelsAt

LEMMA QueueOfLevel == ListInv => LevelQueues
<1> SUFFICES ASSUME ListInv, NEW side \in Side, NEW k \in Slot, NEW q \in Seq(OrderNo),
                    Used(side, k), Chained(q, side, k)
             PROVE  QueueAt(side, owner[side][k], level[side][k].price) = q
  BY DEF LevelQueues
<1>1. QueueAt(side, owner[side][k], level[side][k].price) = Chain(level[side][k].firstOrder)
  BY LevelOfPrice DEF QueueAt
<1>2. Len(q) <= OrderMax
  <2>1. Len(q) \in 1..OrderMax
    BY ChainFits DEF ListInv, TypeInv, TypeOK
  <2>2. QED
    BY <2>1, OrderAssumption
<1>3. QED
  BY <1>1, <1>2, ChainFound DEF Chained

LEMMA NoQueue == ListInv => EmptyQueues
BY NoLevelOfPrice DEF EmptyQueues, QueueAt

LEMMA EndsOfLevel == ListInv => LevelEnds /\ EmptyEnds
<1>1. ListInv => LevelEnds
  BY LevelOfPrice DEF LevelEnds, EndsAt
<1>2. ListInv => EmptyEnds
  BY NoLevelOfPrice DEF EmptyEnds, EndsAt
<1>3. QED
  BY <1>1, <1>2

LEMMA QueuesKnown ==
  ListInv => LevelQueues /\ EmptyQueues /\ LevelEnds /\ EmptyEnds /\ PricesApart
<1>1. ListInv => PricesApart
  BY PricesDiffer DEF ListInv, TypeInv, TypeOK, PricesApart
<1>2. QED
  BY <1>1, QueueOfLevel, NoQueue, EndsOfLevel

LEMMA NextQueuesKnown ==
  ListInv' => LevelQueues' /\ EmptyQueues' /\ LevelEnds' /\ EmptyEnds' /\ PricesApart'
BY QueuesKnown, PTL

\* A step leaves a level its place in the book and its first and last order.
Undisturbed(side, k) ==
  /\ owner'[side][k] = owner[side][k]
  /\ level'[side][k].price = level[side][k].price
  /\ level'[side][k].firstOrder = level[side][k].firstOrder
  /\ level'[side][k].lastOrder = level[side][k].lastOrder

LEMMA ChainKept ==
  ASSUME NEW side \in Side, NEW k \in Slot, NEW q \in Seq(OrderNo), Chained(q, side, k),
         Undisturbed(side, k), \A i \in 1..Len(q) : nextPrice'[q[i]] = nextPrice[q[i]],
         Entered \in Int, Entered' \in Int, Entered <= Entered'
  PROVE  Chained(q, side, k)'
<1>1. \A i \in 1..Len(q) : q[i] \in Int
  <2>1. \A i \in 1..Len(q) : q[i] \in OrderNo
    BY ElementOfSeq
  <2>2. QED
    BY <2>1, OrderAssumption
<1>2. \A i \in 1..Len(q) : q[i] < Entered'
  BY <1>1 DEF Chained
<1>3. QED
  BY <1>2 DEF Chained, Follows, Undisturbed

\* An order with number n comes to level k: as its last, or alone in a level taken for it.
Joins(side, k, n) ==
  /\ Used(side, k)' /\ owner'[side][k] = order.stock
  /\ level'[side][k].price = order.price /\ level'[side][k].lastOrder = n
  /\ IF Used(side, k)
     THEN /\ owner[side][k] = order.stock /\ level[side][k].price = order.price
          /\ level'[side][k].firstOrder = level[side][k].firstOrder
     ELSE level'[side][k].firstOrder = n
  /\ \A other \in Side, j \in Slot : (other # side \/ j # k) => Undisturbed(other, j)

\* It enters the queue of the level at the end, and no other.
Extends(side, k, n) ==
  /\ IF Used(side, k)
     THEN \A q \in Seq(OrderNo) : Chained(q, side, k) => Chained(Append(q, n), side, k)'
     ELSE Chained(<<n>>, side, k)'
  /\ \A other \in Side, j \in Slot : (other # side \/ j # k) =>
       \A q \in Seq(OrderNo) :
         Used(other, j) /\ Chained(q, other, j) => Chained(q, other, j)'

LEMMA JoinKeepsQueues ==
  ASSUME ListInv, QueueInv, NEW side \in Side, NEW k \in Slot, NEW n \in OrderNo,
         n = Entered, Joins(side, k, n), ~misnumbered, Extends(side, k, n), pc' = "idle"
  PROVE  QueueInv'
<1>1. DataTypes
  BY DEF ListInv, TypeInv, TypeOK
<1>2. \A other \in Side, j \in Slot : (other # side \/ j # k) =>
        /\ Used(other, j)' <=> Used(other, j)
        /\ level'[other][j].lastOrder = level[other][j].lastOrder
  BY DEF Joins, Undisturbed, Used
<1>3. ASSUME NEW other \in Side, NEW j \in Slot, Used(other, j)'
      PROVE  \E q \in Seq(OrderNo) : Chained(q, other, j)'
  <2>1. CASE other # side \/ j # k
    <3>1. PICK q \in Seq(OrderNo) : Chained(q, other, j) /\ Used(other, j)
      BY <1>2, <1>3, <2>1 DEF QueueInv
    <3>2. QED
      BY <2>1, <3>1 DEF Extends
  <2>2. CASE other = side /\ j = k /\ Used(side, k)
    <3>1. PICK q \in Seq(OrderNo) : Chained(q, side, k)
      BY <2>2 DEF QueueInv
    <3>2. Append(q, n) \in Seq(OrderNo)
      BY <3>1
    <3>3. QED
      BY <2>2, <3>1, <3>2 DEF Extends
  <2>3. CASE other = side /\ j = k /\ ~Used(side, k)
    <3>1. <<n>> \in Seq(OrderNo)
      OBVIOUS
    <3>2. QED
      BY <2>3, <3>1 DEF Extends
  <2>4. QED
    BY <2>1, <2>2, <2>3
<1>4. \A other \in Side, j \in Slot :
        (other # side \/ j # k) /\ Used(other, j) => level[other][j].lastOrder # n
  <2> SUFFICES ASSUME NEW other \in Side, NEW j \in Slot, Used(other, j)
               PROVE  level[other][j].lastOrder # n
    OBVIOUS
  <2>1. PICK q \in Seq(OrderNo) : Chained(q, other, j)
    BY DEF QueueInv
  <2>2. level[other][j].lastOrder < Entered /\ level[other][j].lastOrder \in OrderNo
    BY <1>1, <2>1, ChainFits
  <2>3. QED
    BY <2>2, OrderAssumption
<1>5. level'[side][k].lastOrder = n
  BY DEF Joins
<1>6. QED
  <2>1. \A other \in Side, j \in Slot :
          Used(other, j)' => (other = side /\ j = k) \/ level'[other][j].lastOrder # n
    BY <1>2, <1>4
  <2>2. \A a, b \in Side, i, j \in Slot :
          Used(a, i)' /\ Used(b, j)' /\ level'[a][i].lastOrder = level'[b][j].lastOrder
            => a = b /\ i = j
    BY SMTT(40), <1>2, <1>5, <2>1 DEF QueueInv
  <2>3. QED
    BY <1>3, <2>2 DEF QueueInv

LEMMA JoinAppends ==
  ASSUME ListInv, ListInv', QueueInv, NEW side \in Side, NEW k \in Slot, NEW n \in OrderNo,
         Joins(side, k, n), ~misnumbered, Extends(side, k, n), NEW s \in Stocks, NEW p \in Prices,
         s = order.stock, p = order.price,
         NEW other \in Side, NEW t \in Stocks, NEW x \in Prices
  PROVE  QueueAt(other, t, x)' =
           IF other = side /\ t = s /\ x = p THEN Append(QueueAt(other, t, x), n)
           ELSE QueueAt(other, t, x)
<1> DEFINE at(j) == Used(other, j) /\ owner[other][j] = t /\ level[other][j].price = x
           at2(j) == Used(other, j)' /\ owner'[other][j] = t /\ level'[other][j].price = x
<1>1. \A j \in Slot, q \in Seq(OrderNo) : at(j) /\ Chained(q, other, j) => QueueAt(other, t, x) = q
  BY QueueOfLevel DEF LevelQueues
<1>2. (\A j \in Slot : ~at(j)) => QueueAt(other, t, x) = <<>>
  BY NoQueue DEF EmptyQueues
<1>3. \A j \in Slot, q \in Seq(OrderNo) : at2(j) /\ Chained(q, other, j)' => QueueAt(other, t, x)' = q
  BY NextQueuesKnown DEF LevelQueues
<1>4. (\A j \in Slot : ~at2(j)) => QueueAt(other, t, x)' = <<>>
  BY NextQueuesKnown DEF EmptyQueues
<1>5. \A j \in Slot : other # side \/ j # k => (at2(j) <=> at(j))
  BY DEF Joins, Undisturbed, Used
<1>6. at2(k) /\ other = side => t = s /\ x = p
  BY DEF Joins
<1>7. Used(side, k)' /\ owner'[side][k] = s /\ level'[side][k].price = p
  BY DEF Joins
<1>8. CASE other = side /\ t = s /\ x = p
  <2>1. at2(k)
    BY <1>7, <1>8
  <2>2. CASE Used(side, k)
    <3>1. at(k)
      BY <1>8, <2>2 DEF Joins
    <3>2. PICK q \in Seq(OrderNo) : Chained(q, side, k)
      BY <2>2 DEF QueueInv
    <3>3. Append(q, n) \in Seq(OrderNo) /\ Chained(Append(q, n), side, k)'
      BY <2>2, <3>2 DEF Extends
    <3>4. QueueAt(other, t, x)' = Append(q, n) /\ QueueAt(other, t, x) = q
      BY <1>1, <1>3, <1>8, <2>1, <3>1, <3>2, <3>3
    <3>5. QED
      BY <1>8, <3>4
  <2>3. CASE ~Used(side, k)
    <3>1. \A j \in Slot : ~at(j)
      <4> SUFFICES ASSUME NEW j \in Slot, at(j) PROVE FALSE
        OBVIOUS
      <4>1. j # k /\ at2(j)
        BY <1>5, <1>8, <2>3
      <4>2. j = k
        BY <1>8, <2>1, <4>1, NextQueuesKnown DEF PricesApart
      <4>3. QED
        BY <4>1, <4>2
    <3>2. <<n>> \in Seq(OrderNo) /\ Chained(<<n>>, side, k)'
      BY <2>3 DEF Extends
    <3>3. QueueAt(other, t, x)' = <<n>> /\ QueueAt(other, t, x) = <<>>
      BY <1>2, <1>3, <1>8, <2>1, <3>1, <3>2
    <3>4. Append(<<>>, n) = <<n>>
      OBVIOUS
    <3>5. QED
      BY <1>8, <3>3, <3>4
  <2>4. QED
    BY <2>2, <2>3
<1>9. CASE ~(other = side /\ t = s /\ x = p)
  <2>1. CASE \E j \in Slot : at2(j)
    <3>1. PICK j \in Slot : at2(j)
      BY <2>1
    <3>2. (other # side \/ j # k) /\ at(j)
      BY <1>5, <1>7, <1>9, <3>1
    <3>3. PICK q \in Seq(OrderNo) : Chained(q, other, j)
      BY <3>2 DEF QueueInv
    <3>4. Chained(q, other, j)'
      BY <3>2, <3>3 DEF Extends
    <3>5. QED
      BY <1>1, <1>3, <1>9, <3>1, <3>2, <3>3, <3>4
  <2>2. CASE \A j \in Slot : ~at2(j)
    <3>1. \A j \in Slot : ~at(j)
      <4>1. at(k) /\ other = side => at2(k)
        <5>1. at(k) /\ other = side => t = s /\ x = p
          BY DEF Joins
        <5>2. QED
          BY <1>9, <5>1
      <4>2. QED
        BY <1>5, <2>2, <4>1
    <3>2. QED
      BY <1>2, <1>4, <1>9, <2>2, <3>1
  <2>3. QED
    BY <2>1, <2>2
<1>10. QED
  BY <1>8, <1>9

\* The ends of the prices, whatever the numbers.
LEMMA JoinMovesEnd ==
  ASSUME ListInv, ListInv', NEW side \in Side, NEW k \in Slot, NEW n \in OrderNo,
         Joins(side, k, n), NEW s \in Stocks, NEW p \in Prices,
         s = order.stock, p = order.price,
         NEW other \in Side, NEW t \in Stocks, NEW x \in Prices
  PROVE  EndsAt(other, t, x)' =
           IF other = side /\ t = s /\ x = p
           THEN IF EndsAt(other, t, x) = <<>> THEN <<n, n>> ELSE <<EndsAt(other, t, x)[1], n>>
           ELSE EndsAt(other, t, x)
<1> DEFINE at(j) == Used(other, j) /\ owner[other][j] = t /\ level[other][j].price = x
           at2(j) == Used(other, j)' /\ owner'[other][j] = t /\ level'[other][j].price = x
<1>1. \A j \in Slot : at(j) =>
        EndsAt(other, t, x) = <<level[other][j].firstOrder, level[other][j].lastOrder>>
  BY EndsOfLevel DEF LevelEnds
<1>2. (\A j \in Slot : ~at(j)) => EndsAt(other, t, x) = <<>>
  BY EndsOfLevel DEF EmptyEnds
<1>3. \A j \in Slot : at2(j) =>
        EndsAt(other, t, x)' = <<level'[other][j].firstOrder, level'[other][j].lastOrder>>
  BY NextQueuesKnown DEF LevelEnds
<1>4. (\A j \in Slot : ~at2(j)) => EndsAt(other, t, x)' = <<>>
  BY NextQueuesKnown DEF EmptyEnds
<1>5. \A j \in Slot : other # side \/ j # k => (at2(j) <=> at(j))
  BY DEF Joins, Undisturbed, Used
<1>6. at2(k) /\ other = side => t = s /\ x = p
  BY DEF Joins
<1>7. CASE other = side /\ t = s /\ x = p
  <2>1. at2(k)
    BY <1>7 DEF Joins
  <2>2. CASE Used(side, k)
    <3>1. at(k)
      BY <1>7, <2>2 DEF Joins
    <3>2. level'[side][k].firstOrder = level[side][k].firstOrder /\ level'[side][k].lastOrder = n
      BY <2>2 DEF Joins
    <3>3. PICK first, last : first = level[side][k].firstOrder /\ last = level[side][k].lastOrder
      OBVIOUS
    <3>4. EndsAt(other, t, x) = <<first, last>>
      BY <1>1, <1>7, <3>1, <3>3
    <3>5. EndsAt(other, t, x)' = <<first, n>>
      BY <1>3, <1>7, <2>1, <3>2, <3>3
    <3>6. QED
      BY <1>7, <3>4, <3>5
  <2>3. CASE ~Used(side, k)
    <3>1. \A j \in Slot : ~at(j)
      <4> SUFFICES ASSUME NEW j \in Slot, at(j) PROVE FALSE
        OBVIOUS
      <4>1. j # k /\ at2(j)
        BY <1>5, <1>7, <2>3
      <4>2. j = k
        BY <1>7, <2>1, <4>1, NextQueuesKnown DEF PricesApart
      <4>3. QED
        BY <4>1, <4>2
    <3>2. EndsAt(other, t, x) = <<>>
      BY <1>2, <3>1
    <3>3. level'[side][k].firstOrder = n /\ level'[side][k].lastOrder = n
      BY <2>3 DEF Joins
    <3>4. EndsAt(other, t, x)' = <<n, n>>
      BY <1>3, <1>7, <2>1, <3>3
    <3>5. QED
      BY <1>7, <3>2, <3>4
  <2>4. QED
    BY <2>2, <2>3
<1>8. CASE ~(other = side /\ t = s /\ x = p)
  <2>1. \A j \in Slot : at2(j) <=> at(j)
    <3>1. other = side => ~at2(k) /\ ~at(k)
      <4>1. other = side => ~at2(k)
        BY <1>6, <1>8
      <4>2. other = side /\ at(k) => t = s /\ x = p
        BY DEF Joins
      <4>3. QED
        BY <1>8, <4>1, <4>2
    <3>2. QED
      BY <1>5, <3>1
  <2>2. CASE \E j \in Slot : at(j)
    <3>1. PICK j \in Slot : at(j)
      BY <2>2
    <3>2. other # side \/ j # k
      <4>1. other = side /\ at(k) => t = s /\ x = p
        BY DEF Joins
      <4>2. QED
        BY <1>8, <3>1, <4>1
    <3>3. /\ level'[other][j].firstOrder = level[other][j].firstOrder
          /\ level'[other][j].lastOrder = level[other][j].lastOrder
      BY <3>2 DEF Joins, Undisturbed
    <3>4. QED
      BY <1>1, <1>3, <1>8, <2>1, <3>1, <3>3
  <2>3. CASE \A j \in Slot : ~at(j)
    BY <1>2, <1>4, <1>8, <2>1, <2>3
  <2>4. QED
    BY <2>2, <2>3
<1>9. QED
  BY <1>7, <1>8

\* UpdateNode makes the order the last of the level the walk stands at.
LEMMA UpdateJoins ==
  ASSUME ListInv, UpdateNode
  PROVE  index \in Slot /\ Joins(order.side, index, orderProcessNo)
<1>1. PICK side \in Side, s \in Stocks, p \in Prices, k \in Slot, n \in OrderNo :
        side = order.side /\ s = order.stock /\ p = order.price /\ k = index /\ n = orderProcessNo
  <2>1. DataTypes /\ index # NULL_INDEX
    BY DEF ListInv, TypeInv, TypeOK, UpdateNode
  <2>2. order.side \in Side /\ order.stock \in Stocks /\ order.price \in Prices /\ index \in Slot
    BY <2>1 DEF Orders
  <2>3. orderProcessNo \in OrderNo
    BY <2>1 DEF UpdateNode
  <2>4. QED
    BY <2>2, <2>3
<1>2. DataTypes /\ p > 0
  BY <1>1, Positive DEF ListInv, TypeInv, TypeOK
<1>3. Used(side, k) /\ owner[side][k] = s /\ level[side][k].price = p
  BY <1>1 DEF UpdateNode, Current, ListInv, Cursor
<1>4. /\ level' = [level EXCEPT ![side][k] = [level[side][k] EXCEPT !.lastOrder = n]]
      /\ owner' = owner
  BY <1>1 DEF UpdateNode, JoinLevel
<1>5. /\ level'[side][k].price = p /\ level'[side][k].lastOrder = n
      /\ level'[side][k].firstOrder = level[side][k].firstOrder
  <2>1. PICK l \in Levels : l = level[side][k]
    BY <1>2
  <2>2. level'[side][k] = [l EXCEPT !.lastOrder = n]
    BY <1>2, <1>4, <2>1
  <2>3. QED
    BY <1>3, <2>1, <2>2 DEF Levels
<1>6. \A other \in Side, j \in Slot : (other # side \/ j # k) => Undisturbed(other, j)
  BY <1>2, <1>4 DEF Undisturbed
<1>7. Joins(side, k, n)
  <2>1. Used(side, k)'
    BY <1>2, <1>5, Positive DEF Used
  <2>2. owner'[side][k] = order.stock
    BY <1>1, <1>3, <1>4
  <2>3. QED
    BY <1>1, <1>3, <1>5, <1>6, <2>1, <2>2 DEF Joins
<1>8. QED
  BY <1>1, <1>7

\* It puts the order at the end of the level's chain.
LEMMA UpdateExtends ==
  ASSUME ListInv, QueueInv, ~misnumbered, UpdateNode
  PROVE  Extends(order.side, index, orderProcessNo)
<1>1. PICK side \in Side, s \in Stocks, k \in Slot, n \in OrderNo :
        side = order.side /\ s = order.stock /\ k = index /\ n = orderProcessNo
  <2>1. DataTypes /\ index # NULL_INDEX
    BY DEF ListInv, TypeInv, TypeOK, UpdateNode
  <2>2. order.side \in Side /\ order.stock \in Stocks /\ index \in Slot
    BY <2>1 DEF Orders
  <2>3. orderProcessNo \in OrderNo
    BY <2>1 DEF UpdateNode
  <2>4. QED
    BY <2>2, <2>3
<1>2. DataTypes /\ n = OrderIndex /\ nextPrice[n] = NULL_INDEX /\ pc' = "idle"
  BY <1>1 DEF ListInv, TypeInv, TypeOK, UpdateNode, QueueInv
<1>3. Used(side, k) /\ Joins(side, k, n)
  BY <1>1, UpdateJoins DEF UpdateNode, Current, ListInv, Cursor
<1>4. PICK last : last = level[side][k].lastOrder
  OBVIOUS
<1>5. /\ last \in OrderNo /\ last < n /\ nextPrice[last] = NULL_INDEX
      /\ Entered = n /\ Entered' = n + 1
  <2>1. PICK q \in Seq(OrderNo) : Chained(q, side, k)
    BY <1>3 DEF QueueInv
  <2>2. Entered = n /\ Entered' = n + 1
    BY <1>1, <1>2, OrderAssumption DEF UpdateNode, Stays, Entered, OrderIndex
  <2>3. QED
    BY <1>2, <1>4, <2>1, <2>2, ChainFits
<1>6. nextPrice' = [nextPrice EXCEPT ![last] = n]
  BY <1>1, <1>4, <1>5, OrderAssumption DEF UpdateNode, JoinLevel
<1>7. \A m \in OrderNo : nextPrice'[m] = IF m = last THEN n ELSE nextPrice[m]
  BY <1>2, <1>5, <1>6
<1>8. level'[side][k].lastOrder = n /\ level'[side][k].firstOrder = level[side][k].firstOrder
  BY <1>3 DEF Joins
<1>9. \A other \in Side, j \in Slot : (other # side \/ j # k) => Undisturbed(other, j)
  BY <1>3 DEF Joins
<1>10. ASSUME NEW other \in Side, NEW j \in Slot, NEW q \in Seq(OrderNo), Chained(q, other, j)
       PROVE  \A i \in 1..Len(q) :
                /\ q[i] \in OrderNo /\ q[i] # n
                /\ q[i] = last => i = Len(q)
  <2> SUFFICES ASSUME NEW i \in 1..Len(q)
               PROVE  q[i] \in OrderNo /\ q[i] # n /\ (q[i] = last => i = Len(q))
    OBVIOUS
  <2>1. q[i] \in OrderNo /\ q[i] < n
    BY <1>5, <1>10, ElementOfSeq DEF Chained
  <2>2. i # Len(q) => nextPrice[q[i]] # NULL_INDEX
    <3>1. PICK a \in Nat : a = Len(q)
      OBVIOUS
    <3>2. i # a => i + 1 \in 1..Len(q)
      BY <3>1
    <3>3. i # a => q[i + 1] \in OrderNo /\ nextPrice[q[i]] = q[i + 1]
      BY <1>10, <3>1, <3>2, ElementOfSeq DEF Chained, Follows
    <3>4. QED
      BY <3>1, <3>3, OrderAssumption
  <2>3. QED
    BY <1>5, <2>1, <2>2, OrderAssumption
<1>11. ASSUME NEW other \in Side, NEW j \in Slot, NEW q \in Seq(OrderNo),
              other # side \/ j # k, Used(other, j), Chained(q, other, j)
       PROVE  Chained(q, other, j)'
  <2>1. \A i \in 1..Len(q) : q[i] # last
    <3>1. Len(q) \in Nat /\ q[Len(q)] = level[other][j].lastOrder
      BY <1>2, <1>11, ChainFits
    <3>2. level[other][j].lastOrder # last
      BY <1>3, <1>4, <1>11 DEF QueueInv
    <3>3. QED
      BY <1>10, <1>11, <3>1, <3>2
  <2>2. \A i \in 1..Len(q) : nextPrice'[q[i]] = nextPrice[q[i]]
    BY <1>7, <1>10, <1>11, <2>1
  <2>3. Entered \in Int /\ Entered' \in Int /\ Entered <= Entered'
    BY <1>5
  <2>4. QED
    BY <1>9, <1>11, <2>2, <2>3, ChainKept
<1>12. ASSUME NEW q \in Seq(OrderNo), Chained(q, side, k)
       PROVE  Chained(Append(q, n), side, k)'
  <2>1. PICK a \in Nat : a = Len(q)
    OBVIOUS
  <2>2. PICK r \in Seq(OrderNo) : r = Append(q, n)
    BY <1>2, AppendProperties
  <2>3. /\ Len(r) = a + 1 /\ r[a + 1] = n
        /\ \A i \in 1..a : r[i] = q[i] /\ q[i] \in OrderNo
    <3>1. \A i \in 1..Len(q) : q[i] \in OrderNo
      BY ElementOfSeq
    <3>2. /\ Len(Append(q, n)) = Len(q) + 1 /\ Append(q, n)[Len(q) + 1] = n
          /\ \A i \in 1..Len(q) : Append(q, n)[i] = q[i]
      BY <1>2, AppendProperties
    <3>3. QED
      BY <2>1, <2>2, <3>1, <3>2
  <2>4. a >= 1 /\ q[a] = last /\ q[1] = level[side][k].firstOrder /\ q # <<>>
    <3>1. a \in 1..OrderMax /\ q[a] = last
      BY <1>2, <1>4, <1>12, <2>1, ChainFits
    <3>2. QED
      BY <1>12, <3>1, OrderAssumption DEF Chained, Follows
  <2>5. r # <<>>
    BY <2>1, <2>3, EmptySeq
  <2>6. ASSUME NEW i \in 1..(a + 1)
        PROVE  nextPrice'[r[i]] = IF i = a + 1 THEN NULL_INDEX ELSE r[i + 1]
    <3>1. CASE i = a + 1
      BY <1>2, <1>5, <1>7, <2>3, <3>1, OrderAssumption
    <3>2. CASE i = a
      <4>1. r[i] = last
        BY <2>3, <2>4, <3>2
      <4>2. QED
        BY <1>5, <1>7, <2>1, <2>3, <3>2, <4>1
    <3>3. CASE i # a + 1 /\ i # a
      <4>1. i \in 1..a /\ i + 1 \in 1..a
        BY <2>1, <3>3
      <4>2. q[i] \in OrderNo /\ q[i] # n /\ q[i] # last
        BY <1>10, <1>12, <2>1, <3>3, <4>1
      <4>3. nextPrice[q[i]] = q[i + 1]
        BY <1>12, <2>1, <2>4, <3>3, <4>1 DEF Chained, Follows
      <4>4. QED
        BY <1>7, <2>3, <3>3, <4>1, <4>2, <4>3
    <3>4. QED
      BY <3>1, <3>2, <3>3
  <2>7. ASSUME NEW i \in 1..(a + 1) PROVE i - 1 <= r[i] /\ r[i] < n + 1
    <3>1. CASE i = a + 1
      <4>1. a - 1 <= q[a] /\ q[a] < n
        BY <1>5, <1>12, <2>1, <2>4 DEF Chained
      <4>2. QED
        BY SMTT(40), <1>2, <1>5, <2>1, <2>3, <2>4, <3>1, <4>1, OrderAssumption
    <3>2. CASE i # a + 1
      <4>1. i \in 1..a
        BY <2>1, <3>2
      <4>2. i - 1 <= q[i] /\ q[i] < n
        BY <1>5, <1>12, <2>1, <4>1 DEF Chained
      <4>3. r[i] = q[i] /\ q[i] \in Int
        BY <2>3, <4>1, OrderAssumption
      <4>4. QED
        BY <4>2, <4>3
    <3>3. QED
      BY <3>1, <3>2
  <2>8. r[1] = level'[side][k].firstOrder /\ r[Len(r)] = level'[side][k].lastOrder
    BY <1>8, <2>1, <2>3, <2>4
  <2>9. Chained(r, side, k)'
    BY <1>5, <2>3, <2>5, <2>6, <2>7, <2>8 DEF Chained, Follows
  <2>10. QED
    BY <2>2, <2>9
<1>13. Extends(side, k, n)
  BY <1>3, <1>11, <1>12 DEF Extends
<1>14. QED
  BY <1>1, <1>13

\* A level taken for an order starts with that order alone; the links of its
\* neighbours change, their orders do not.
LEMMA LinkKeepsOrders ==
  ASSUME DataTypes, NEW n \in OrderNo, NEW new \in Slot,
         NEW prev \in Slot \cup {0, NULL_INDEX}, NEW next \in Slot \cup {0, NULL_INDEX},
         LinkLevel(order, n, new, prev, next), NEW side \in Side, NEW k \in Slot
  PROVE  IF side = order.side /\ k = new
         THEN level'[side][k].firstOrder = n /\ level'[side][k].lastOrder = n
         ELSE /\ level'[side][k].firstOrder = level[side][k].firstOrder
              /\ level'[side][k].lastOrder = level[side][k].lastOrder
<1> DEFINE old == level[order.side]
           linked(j) == IF j = new THEN [NewLevel(order, n) EXCEPT !.prev = prev, !.next = next]
                        ELSE IF j = prev THEN [old[j] EXCEPT !.next = new]
                        ELSE IF j = next THEN [old[j] EXCEPT !.prev = new]
                        ELSE old[j]
<1>1. level' = [level EXCEPT ![order.side] = [j \in Slot |-> linked(j)]]
  BY DEF LinkLevel
<1>2. order.side \in Side /\ level[side][k] \in Levels
  BY DEF Orders
<1>3. CASE side = order.side /\ k = new
  <2>1. PICK l \in Levels : l = NewLevel(order, n)
    BY NewLevelType
  <2>2. NewLevel(order, n).firstOrder = n /\ NewLevel(order, n).lastOrder = n
    BY DEF NewLevel, AddNewBidNode, AddNewOfferNode, InitBid
  <2>3. linked(k).firstOrder = n /\ linked(k).lastOrder = n
    BY <1>3, <2>1, <2>2 DEF Levels
  <2> HIDE DEF linked
  <2>4. level'[side][k] = linked(k)
    BY <1>1, <1>2, <1>3
  <2>5. QED
    BY <1>3, <2>3, <2>4
<1>4. CASE side = order.side /\ k # new
  <2>1. linked(k).firstOrder = level[side][k].firstOrder /\ linked(k).lastOrder = level[side][k].lastOrder
    BY <1>2, <1>4 DEF Levels
  <2> HIDE DEF linked
  <2>2. level'[side][k] = linked(k)
    BY <1>1, <1>2, <1>4
  <2>3. QED
    BY <1>4, <2>1, <2>2
<1>5. CASE side # order.side
  <2> HIDE DEF linked
  <2>1. level'[side] = level[side]
    BY <1>1, <1>2, <1>5
  <2>2. QED
    BY <1>5, <2>1
<1>6. QED
  BY <1>3, <1>4, <1>5

\* InsertNode makes it the only one of the level it takes.
LEMMA InsertJoins ==
  ASSUME ListInv, InsertNode
  PROVE  nextLevel[order.side] \in Slot /\ Joins(order.side, nextLevel[order.side], orderProcessNo)
<1>1. DataTypes /\ TypeInv
  BY DEF ListInv, TypeInv, TypeOK
<1>2. PICK side \in Side, s \in Stocks, p \in Prices, new \in Slot, n \in OrderNo :
        side = order.side /\ s = order.stock /\ p = order.price /\ new = nextLevel[side]
        /\ n = orderProcessNo
  <2>1. order.side \in Side /\ order.stock \in Stocks /\ order.price \in Prices
    BY <1>1 DEF Orders
  <2>2. nextLevel[order.side] \in Slot
    BY <1>1 DEF InsertNode, TypeInv
  <2>3. orderProcessNo \in OrderNo
    BY <1>1 DEF InsertNode
  <2>4. QED
    BY <2>1, <2>2, <2>3
<1>3. ~Used(side, new) /\ p \in Int /\ p > 0
  BY <1>1, <1>2, Positive DEF InsertNode
<1>4. PICK prev \in Slot \cup {0, NULL_INDEX}, next \in Slot \cup {0, NULL_INDEX} :
        LinkLevel(order, n, new, prev, next)
  <2>1. CASE index # NULL_INDEX
    <3>1. LinkLevel(order, n, new, level[side][index].prev, index)
      BY <1>2, <2>1 DEF InsertNode, InsertLevel
    <3>2. index \in Slot /\ level[side][index].prev \in Slot \cup {0, NULL_INDEX}
      BY <1>1, <2>1 DEF Levels
    <3>3. QED
      BY <3>1, <3>2
  <2>2. CASE index = NULL_INDEX
    <3> DEFINE prev == IF list[side][s].best < 0 THEN NULL_INDEX ELSE list[side][s].worst
    <3>1. LinkLevel(order, n, new, prev, NULL_INDEX)
      BY <1>2, <2>2 DEF InsertNode, InsertLastLevel
    <3>2. prev \in Slot \cup {0, NULL_INDEX}
      BY <1>1 DEF Ends
    <3> HIDE DEF prev
    <3>3. QED
      BY <3>1, <3>2
  <2>3. QED
    BY <2>1, <2>2
<1>6. /\ level'[side][new].firstOrder = n /\ level'[side][new].lastOrder = n
      /\ level'[side][new].price = p /\ owner'[side][new] = s
  BY SMTT(40), <1>1, <1>2, <1>4, LinkKeepsOrders, InsertFills DEF Taken
<1>7. ASSUME NEW other \in Side, NEW j \in Slot, other # side \/ j # new
      PROVE  Undisturbed(other, j)
  <2>1. Kept(other, j)
    BY <1>1, <1>2, <1>7, InsertFills
  <2>2. /\ level'[other][j].firstOrder = level[other][j].firstOrder
        /\ level'[other][j].lastOrder = level[other][j].lastOrder
    <3>1. IF other = order.side /\ j = new
          THEN level'[other][j].firstOrder = n /\ level'[other][j].lastOrder = n
          ELSE /\ level'[other][j].firstOrder = level[other][j].firstOrder
               /\ level'[other][j].lastOrder = level[other][j].lastOrder
      BY <1>1, <1>4, LinkKeepsOrders
    <3>2. QED
      BY <1>2, <1>7, <3>1
  <2>3. QED
    BY <2>1, <2>2 DEF Kept, Undisturbed
<1>8. Joins(side, new, n)
  <2>1. Used(side, new)'
    BY <1>3, <1>6 DEF Used
  <2>2. QED
    BY <1>2, <1>3, <1>6, <1>7, <2>1 DEF Joins
<1>9. QED
  BY <1>2, <1>8

\* A chain of its own starts with the order.
LEMMA InsertExtends ==
  ASSUME ListInv, QueueInv, ~misnumbered, InsertNode
  PROVE  Extends(order.side, nextLevel[order.side], orderProcessNo)
<1>1. DataTypes /\ TypeInv
  BY DEF ListInv, TypeInv, TypeOK
<1>2. PICK side \in Side, s \in Stocks, p \in Prices, new \in Slot, n \in OrderNo :
        side = order.side /\ s = order.stock /\ p = order.price /\ new = nextLevel[side]
        /\ n = orderProcessNo
  <2>1. order.side \in Side /\ order.stock \in Stocks /\ order.price \in Prices
    BY <1>1 DEF Orders
  <2>2. nextLevel[order.side] \in Slot
    BY <1>1 DEF InsertNode, TypeInv
  <2>3. orderProcessNo \in OrderNo
    BY <1>1 DEF InsertNode
  <2>4. QED
    BY <2>1, <2>2, <2>3
<1>3. /\ ~Used(side, new) /\ Joins(side, new, n) /\ nextPrice[n] = NULL_INDEX
      /\ Entered = n /\ Entered' = n + 1 /\ nextPrice' = nextPrice
  <2>1. ~Used(side, new) /\ Joins(side, new, n)
    BY <1>2, InsertJoins DEF InsertNode
  <2>2. pc = "scan" /\ pc' = "idle" /\ nextOrder' = nextOrder /\ nextPrice' = nextPrice
    BY DEF InsertNode, InsertLevel, InsertLastLevel, LinkLevel, Stays
  <2>3. n = OrderIndex /\ nextPrice[n] = NULL_INDEX
    BY <1>2, <2>2 DEF QueueInv
  <2>4. QED
    BY <1>1, <2>1, <2>2, <2>3, OrderAssumption DEF Entered, OrderIndex
<1>6. level'[side][new].firstOrder = n /\ level'[side][new].lastOrder = n
  BY <1>3 DEF Joins
<1>7. ASSUME NEW other \in Side, NEW j \in Slot, other # side \/ j # new
      PROVE  Undisturbed(other, j)
  BY <1>3, <1>7 DEF Joins
<1>8. ASSUME NEW other \in Side, NEW j \in Slot, NEW q \in Seq(OrderNo),
             other # side \/ j # new, Chained(q, other, j)
      PROVE  Chained(q, other, j)'
  <2>1. \A i \in 1..Len(q) : nextPrice'[q[i]] = nextPrice[q[i]]
    BY <1>3
  <2>2. Entered \in Int /\ Entered' \in Int /\ Entered <= Entered'
    BY <1>3, OrderAssumption
  <2>3. QED
    BY <1>7, <1>8, <2>1, <2>2, ChainKept
<1>9. Chained(<<n>>, side, new)'
  <2>1. PICK q \in Seq(OrderNo) : q = <<n>> /\ q # <<>> /\ Len(q) = 1 /\ q[1] = n
    <3>1. <<n>> \in Seq(OrderNo) /\ <<n>> # <<>> /\ Len(<<n>>) = 1 /\ <<n>>[1] = n
      OBVIOUS
    <3>2. QED
      BY <3>1
  <2>2. nextPrice'[n] = NULL_INDEX /\ 0 <= n /\ n < n + 1 /\ n \in Int
    BY <1>3, OrderAssumption
  <2>3. \A i \in 1..Len(q) : i = 1
    BY <2>1
  <2>4. Chained(q, side, new)'
    BY <1>3, <1>6, <2>1, <2>2, <2>3 DEF Chained, Follows
  <2>5. QED
    BY <2>1, <2>4
<1>10. Extends(side, new, n)
  BY <1>3, <1>8, <1>9 DEF Extends
<1>11. QED
  BY <1>2, <1>10

\* The two together: how an order gets into the book.
LEMMA OrderJoins ==
  ASSUME ListInv, QueueInv, UpdateNode \/ InsertNode
  PROVE  \E k \in Slot :
           /\ Joins(order.side, k, orderProcessNo)
           /\ ~misnumbered => Extends(order.side, k, orderProcessNo)
<1>1. CASE UpdateNode
  BY <1>1, UpdateJoins, UpdateExtends
<1>2. CASE InsertNode
  BY <1>2, InsertJoins, InsertExtends
<1>3. QED
  BY <1>1, <1>2

\* Coming into the table links an order to no other, and disturbs no chain.
LEMMA PushKeepsChains ==
  ASSUME ListInv, UpdateByOrder, NEW side \in Side, NEW k \in Slot,
         NEW q \in Seq(OrderNo), Chained(q, side, k)
  PROVE  Chained(q, side, k)'
<1>1. DataTypes /\ pc = "idle" /\ nextOrder \in OrderNo
  BY OrderAssumption DEF ListInv, TypeInv, TypeOK, UpdateByOrder
<1>2. /\ UNCHANGED <<level, owner>> /\ nextOrder' = nextOrder + 1 /\ pc' = "walk"
      /\ nextPrice' = [nextPrice EXCEPT ![nextOrder] = NULL_INDEX]
  BY DEF UpdateByOrder, Enter, PushOrder
<1>3. /\ Entered = nextOrder /\ Entered' = nextOrder
      /\ Entered \in Int /\ Entered' \in Int /\ Entered <= Entered'
  BY <1>1, <1>2, OrderAssumption DEF Entered
<1>4. \A i \in 1..Len(q) : q[i] \in OrderNo /\ q[i] < nextOrder
  BY <1>3, ElementOfSeq DEF Chained
<1>5. \A i \in 1..Len(q) : nextPrice'[q[i]] = nextPrice[q[i]]
  BY <1>1, <1>2, <1>4, OrderAssumption
<1>6. Undisturbed(side, k)
  BY <1>2 DEF Undisturbed
<1>7. QED
  BY <1>3, <1>5, <1>6, ChainKept

LEMMA PushKeepsQueues ==
  ASSUME ListInv, QueueInv, UpdateByOrder
  PROVE  QueueInv'
<1> SUFFICES ASSUME ~misnumbered' PROVE QueueInv'
  BY DEF QueueInv
<1>1. DataTypes /\ nextOrder \in OrderNo
  BY OrderAssumption DEF ListInv, TypeInv, TypeOK, UpdateByOrder
<1>2. /\ ~misnumbered /\ orderProcessNo' = nextOrder /\ UNCHANGED <<level, owner>>
      /\ nextPrice' = [nextPrice EXCEPT ![nextOrder] = NULL_INDEX]
      /\ nextOrder' = nextOrder + 1
  BY DEF UpdateByOrder, Enter, PushOrder
<1>3. \A side \in Side, k \in Slot :
        /\ Used(side, k)' <=> Used(side, k)
        /\ level'[side][k].lastOrder = level[side][k].lastOrder
  BY <1>2 DEF Used
<1>4. ASSUME NEW side \in Side, NEW k \in Slot, Used(side, k)'
      PROVE  \E q \in Seq(OrderNo) : Chained(q, side, k)'
  BY <1>2, <1>3, <1>4, PushKeepsChains DEF QueueInv
<1>5. \A side, other \in Side, k, j \in Slot :
        Used(side, k)' /\ Used(other, j)' /\ level'[side][k].lastOrder = level'[other][j].lastOrder
          => side = other /\ k = j
  BY <1>2, <1>3 DEF QueueInv
<1>6. orderProcessNo' = OrderIndex' /\ nextPrice'[OrderIndex'] = NULL_INDEX
  BY <1>1, <1>2, OrderAssumption DEF OrderIndex
<1>7. QED
  BY <1>4, <1>5, <1>6 DEF QueueInv

LEMMA PushMovesNone ==
  ASSUME ListInv, ListInv', QueueInv, ~misnumbered, UpdateByOrder,
         NEW other \in Side, NEW t \in Stocks, NEW x \in Prices
  PROVE  QueueAt(other, t, x)' = QueueAt(other, t, x)
<1> DEFINE at(j) == Used(other, j) /\ owner[other][j] = t /\ level[other][j].price = x
           at2(j) == Used(other, j)' /\ owner'[other][j] = t /\ level'[other][j].price = x
<1>1. UNCHANGED <<level, owner>>
  BY DEF UpdateByOrder, Enter, PushOrder
<1>2. \A j \in Slot : at2(j) <=> at(j)
  BY <1>1 DEF Used
<1>3. CASE \E j \in Slot : at(j)
  <2>1. PICK j \in Slot : at(j)
    BY <1>3
  <2>2. PICK q \in Seq(OrderNo) : Chained(q, other, j)
    BY <2>1 DEF QueueInv
  <2>3. Chained(q, other, j)'
    BY <2>2, PushKeepsChains
  <2>4. QueueAt(other, t, x) = q
    BY <2>1, <2>2, QueueOfLevel DEF LevelQueues
  <2>5. QueueAt(other, t, x)' = q
    BY <1>2, <2>1, <2>3, NextQueuesKnown DEF LevelQueues
  <2>6. QED
    BY <2>4, <2>5
<1>4. CASE \A j \in Slot : ~at(j)
  <2>1. QueueAt(other, t, x) = <<>>
    BY <1>4, NoQueue DEF EmptyQueues
  <2>2. QueueAt(other, t, x)' = <<>>
    BY <1>2, <1>4, NextQueuesKnown DEF EmptyQueues
  <2>3. QED
    BY <2>1, <2>2
<1>5. QED
  BY <1>3, <1>4

\* The other steps change no level, no link between orders and no owner.
LEMMA QueueInductive ==
  ASSUME ListInv, QueueInv, [Next]_vars
  PROVE  QueueInv'
<1>1. DataTypes /\ order.side \in Side
  BY DEF ListInv, TypeInv, TypeOK, Orders
<1>2. CASE /\ UNCHANGED <<level, nextPrice, owner, misnumbered, nextOrder, orderProcessNo>>
           /\ pc' # "idle" <=> pc # "idle"
  <2> SUFFICES ASSUME ~misnumbered PROVE QueueInv'
    BY <1>2 DEF QueueInv
  <2>1. Entered \in Int /\ Entered' = Entered /\ OrderIndex' = OrderIndex
    BY <1>1, <1>2, OrderAssumption DEF Entered, OrderIndex
  <2>2. \A side \in Side, k \in Slot : Undisturbed(side, k) /\ (Used(side, k)' <=> Used(side, k))
    BY <1>2 DEF Undisturbed, Used
  <2>3. ASSUME NEW side \in Side, NEW k \in Slot, Used(side, k)'
        PROVE  \E q \in Seq(OrderNo) : Chained(q, side, k)'
    <3>1. PICK q \in Seq(OrderNo) : Chained(q, side, k)
      BY <2>2, <2>3 DEF QueueInv
    <3>2. Entered <= Entered' /\ Entered' \in Int
      BY <2>1
    <3>3. QED
      BY <1>2, <2>1, <2>2, <3>1, <3>2, ChainKept
  <2>4. \A side, other \in Side, k, j \in Slot :
          Used(side, k)' /\ Used(other, j)' /\ level'[side][k].lastOrder = level'[other][j].lastOrder
            => side = other /\ k = j
    BY <2>2 DEF QueueInv, Undisturbed
  <2>5. pc' # "idle" => orderProcessNo' = OrderIndex' /\ nextPrice'[OrderIndex'] = NULL_INDEX
    BY <1>2, <2>1 DEF QueueInv
  <2>6. QED
    BY <2>3, <2>4, <2>5 DEF QueueInv
<1>3. CASE UpdateNode \/ InsertNode
  <2>1. misnumbered' = misnumbered /\ pc' = "idle"
    BY <1>3 DEF UpdateNode, InsertNode, Stays
  <2> SUFFICES ASSUME ~misnumbered PROVE QueueInv'
    BY <2>1 DEF QueueInv
  <2>2. PICK side \in Side, k \in Slot, n \in OrderNo :
          n = Entered /\ Joins(side, k, n) /\ Extends(side, k, n)
    <3>1. orderProcessNo = Entered /\ orderProcessNo \in OrderNo
      BY <1>1, <1>3 DEF UpdateNode, InsertNode, QueueInv, Entered, OrderIndex
    <3>2. QED
      BY <1>1, <1>3, <3>1, OrderJoins
  <2>3. QED
    BY <2>1, <2>2, JoinKeepsQueues
<1>4. CASE UpdateByOrder
  BY <1>4, PushKeepsQueues
<1>5. CASE WalkOn \/ NeedLevel \/ SkipUsed \/ LevelsExhausted \/ UNCHANGED vars
  BY <1>2, <1>5 DEF vars, book, WalkOn, NeedLevel, SkipUsed, LevelsExhausted, Stays
<1>6. QED
  BY <1>3, <1>4, <1>5 DEF Next, Walk

LEMMA QueueInitial ==
  ASSUME Init
  PROVE  QueueInv
<1>1. \A side \in Side, k \in Slot : ~Used(side, k)
  BY DEF Init, Used, ZeroLevel
<1>2. pc = "idle"
  BY DEF Init
<1>3. QED
  BY <1>1, <1>2 DEF QueueInv

\* One place of a function on the places changes.
LEMMA PlaceChanges ==
  ASSUME NEW f, f = [y \in Places |-> f[y]], NEW g, g = [y \in Places |-> g[y]],
         NEW at \in Places, NEW v, \A y \in Places : g[y] = IF y = at THEN v ELSE f[y]
  PROVE  g = [f EXCEPT ![at] = v]
<1>1. [f EXCEPT ![at] = v] = [y \in Places |-> IF y = at THEN v ELSE f[y]]
  OBVIOUS
<1>2. QED
  BY <1>1

\* What LimitOrderBook's variables stand for: the queue and the ends of every place, and
\* where the order on its way is going.
QueueOf == [at \in Places |-> QueueAt(at[1], at[2], at[3])]
Queues == IF misnumbered THEN <<>> ELSE QueueOf
AllEnds == [at \in Places |-> EndsAt(at[1], at[2], at[3])]
Coming == IF pc = "idle" THEN <<>> ELSE <<order.side, order.stock, order.price>>

LEMMA BookStarts == Init => Abstract!BookInit
<1> SUFFICES ASSUME Init PROVE Abstract!BookInit
  OBVIOUS
<1>1. ListInv /\ \A side \in Side, k \in Slot : ~Used(side, k)
  <2>1. level = [side \in Side |-> [k \in Slot |-> ZeroLevel]]
    BY DEF Init
  <2>2. QED
    BY <2>1, ListInitial DEF Used, ZeroLevel
<1>2. \A side \in Side, s \in Stocks, p \in Prices :
        QueueAt(side, s, p) = <<>> /\ EndsAt(side, s, p) = <<>>
  BY <1>1, NoQueue, EndsOfLevel DEF EmptyQueues, EmptyEnds
<1>3. QueueOf = [at \in Places |-> <<>>] /\ AllEnds = [at \in Places |-> <<>>]
  BY <1>2 DEF Places, QueueOf, AllEnds
<1>4. ~misnumbered /\ pc = "idle" /\ orderProcessNo = 0 /\ nextOrder = 0
  BY DEF Init
<1>5. QED
  BY <1>3, <1>4 DEF QueueOf, AllEnds, Abstract!BookInit

\* The order and the numbers of its place's ends, and the queue while it can be told.
LEMMA BookJoined ==
  ASSUME ListInv, ListInv', QueueInv, UpdateNode \/ InsertNode
  PROVE  Abstract!Join
<1>1. DataTypes /\ order.side \in Side /\ order.stock \in Stocks /\ order.price \in Prices
  BY DEF ListInv, TypeInv, TypeOK, Orders
<1>2. PICK side \in Side, s \in Stocks, p \in Prices, k \in Slot, n \in OrderNo :
        /\ side = order.side /\ s = order.stock /\ p = order.price /\ n = orderProcessNo
        /\ Joins(side, k, n) /\ (~misnumbered => Extends(side, k, n))
  <2>1. orderProcessNo \in OrderNo
    BY <1>1 DEF UpdateNode, InsertNode
  <2>2. QED
    BY <1>1, <2>1, OrderJoins
<1>3. /\ Coming = <<side, s, p>> /\ Coming # <<>> /\ Coming \in Places /\ Coming' = <<>>
      /\ UNCHANGED <<misnumbered, orderProcessNo, nextOrder>>
  BY <1>2 DEF UpdateNode, InsertNode, Stays, Coming, Places
<1>4. AllEnds' = [AllEnds EXCEPT ![Coming] = IF @ = <<>> THEN <<n, n>> ELSE <<@[1], n>>]
  <2>1. \A other \in Side, t \in Stocks, x \in Prices :
          EndsAt(other, t, x)' =
            IF other = side /\ t = s /\ x = p
            THEN IF EndsAt(other, t, x) = <<>> THEN <<n, n>> ELSE <<EndsAt(other, t, x)[1], n>>
            ELSE EndsAt(other, t, x)
    BY SMTT(40), <1>2, JoinMovesEnd
  <2> DEFINE v == IF AllEnds[Coming] = <<>> THEN <<n, n>> ELSE <<AllEnds[Coming][1], n>>
  <2>2. ASSUME NEW at \in Places PROVE AllEnds'[at] = IF at = Coming THEN v ELSE AllEnds[at]
    <3>1. PICK other \in Side, t \in Stocks, x \in Prices : at = <<other, t, x>>
      BY DEF Places
    <3>2. at = Coming <=> other = side /\ t = s /\ x = p
      BY <1>3, <3>1
    <3>3. AllEnds[at] = EndsAt(other, t, x)
      BY <3>1 DEF AllEnds
    <3>4. AllEnds'[at] = EndsAt(other, t, x)'
      BY <3>1 DEF AllEnds
    <3>5. at = Coming => AllEnds[Coming] = EndsAt(other, t, x)
      BY <3>3
    <3>6. QED
      BY <2>1, <3>2, <3>3, <3>4, <3>5
  <2> HIDE DEF v
  <2>3. AllEnds = [y \in Places |-> AllEnds[y]] /\ AllEnds' = [y \in Places |-> AllEnds'[y]]
    BY DEF AllEnds
  <2>4. AllEnds' = [AllEnds EXCEPT ![Coming] = v]
    BY <1>3, <2>2, <2>3, PlaceChanges
  <2>5. QED
    BY <2>4 DEF v
<1>5. ASSUME ~misnumbered PROVE QueueOf' = [QueueOf EXCEPT ![Coming] = Append(@, n)]
  <2>1. \A other \in Side, t \in Stocks, x \in Prices :
          QueueAt(other, t, x)' =
            IF other = side /\ t = s /\ x = p THEN Append(QueueAt(other, t, x), n)
            ELSE QueueAt(other, t, x)
    BY SMTT(40), <1>2, <1>5, JoinAppends
  <2> DEFINE v == Append(QueueOf[Coming], n)
  <2>2. ASSUME NEW at \in Places PROVE QueueOf'[at] = IF at = Coming THEN v ELSE QueueOf[at]
    <3>1. PICK other \in Side, t \in Stocks, x \in Prices : at = <<other, t, x>>
      BY DEF Places
    <3>2. at = Coming <=> other = side /\ t = s /\ x = p
      BY <1>3, <3>1
    <3>3. QueueOf[at] = QueueAt(other, t, x)
      BY <3>1 DEF QueueOf
    <3>4. QueueOf'[at] = QueueAt(other, t, x)'
      BY <3>1 DEF QueueOf
    <3>5. at = Coming => QueueOf[Coming] = QueueAt(other, t, x)
      BY <3>3
    <3>6. QED
      BY <2>1, <3>2, <3>3, <3>4, <3>5
  <2> HIDE DEF v
  <2>3. QueueOf = [y \in Places |-> QueueOf[y]] /\ QueueOf' = [y \in Places |-> QueueOf'[y]]
    BY DEF QueueOf
  <2>4. QueueOf' = [QueueOf EXCEPT ![Coming] = v]
    BY <1>3, <2>2, <2>3, PlaceChanges
  <2>5. QED
    BY <2>4 DEF v
<1>6. Queues' = IF misnumbered THEN <<>> ELSE [Queues EXCEPT ![Coming] = Append(@, n)]
  BY <1>3, <1>5 DEF Queues
<1>7. QED
  BY <1>2, <1>3, <1>4, <1>6 DEF Abstract!Join, Queues, QueueOf, AllEnds, Coming

\* For every stock and price the numbers of the first and the last order sent there are
\* right, and following the lists of the code yields all of them in the order they came,
\* until an order carries a number that is not its index: the walks, the slots and the links
\* between orders implement a queue for each price (price.c:236-325, 773-1181).
THEOREM QueuesImplemented == Spec => ImplementsBook
<1>1. ListInv /\ ListInv' /\ QueueInv /\ [Next]_vars => [Abstract!Arrive \/ Abstract!Join]_(Abstract!bookvars)
  <2> SUFFICES ASSUME ListInv, ListInv', QueueInv, [Next]_vars
               PROVE  [Abstract!Arrive \/ Abstract!Join]_(Abstract!bookvars)
    OBVIOUS
  <2>1. UNCHANGED <<level, list>> => AllEnds' = AllEnds
    BY DEF AllEnds, EndsAt, LevelAt, LevelsAt, LevelsOf
  <2>2. UNCHANGED <<level, list, nextPrice>> => QueueOf' = QueueOf
    BY DEF QueueOf, QueueAt, LevelAt, LevelsAt, LevelsOf, Chain, Follows
  <2>3. CASE \/ UNCHANGED vars
             \/ WalkOn \/ NeedLevel \/ SkipUsed \/ LevelsExhausted
    <3>1. /\ UNCHANGED <<level, list, nextPrice, misnumbered, orderProcessNo, nextOrder>>
          /\ Coming' = Coming
      BY <2>3 DEF vars, book, WalkOn, NeedLevel, SkipUsed, LevelsExhausted, Stays, Coming
    <3>2. Queues' = Queues /\ AllEnds' = AllEnds
      BY <2>1, <2>2, <3>1 DEF Queues
    <3>3. QED
      BY <3>1, <3>2 DEF Abstract!bookvars, Queues, QueueOf, AllEnds, Coming
  <2>4. CASE UpdateByOrder
    <3>1. PICK o \in Orders : Enter(o) /\ pc = "idle"
      BY <2>4 DEF UpdateByOrder
    <3>2. Coming = <<>> /\ Coming' = <<o.side, o.stock, o.price>> /\ Coming' \in Places
      BY <3>1 DEF Enter, PushOrder, Coming, Places, Orders
    <3>3. /\ nextOrder' = nextOrder + 1 /\ orderProcessNo' \in Nat
          /\ misnumbered' = (misnumbered \/ orderProcessNo' # nextOrder)
      <4>1. orderProcessNo' \in OrderNo \cup {0}
        BY DEF ListInv, TypeInv, TypeOK
      <4>2. QED
        BY <3>1, <4>1, OrderAssumption DEF Enter, PushOrder
    <3>4. AllEnds' = AllEnds
      BY <2>1, <3>1 DEF Enter, PushOrder
    <3>5. Queues' = IF misnumbered' THEN <<>> ELSE Queues
      <4> SUFFICES ASSUME ~misnumbered' PROVE QueueOf' = QueueOf /\ ~misnumbered
        BY DEF Queues
      <4>1. QueueInv' /\ ~misnumbered
        BY <2>4, <3>3, PushKeepsQueues
      <4>2. ASSUME NEW other \in Side, NEW t \in Stocks, NEW x \in Prices
            PROVE  QueueAt(other, t, x)' = QueueAt(other, t, x)
        BY <2>4, <4>1, PushMovesNone
      <4>3. QED
        BY <4>1, <4>2 DEF QueueOf, Places
    <3>6. QED
      BY <3>2, <3>3, <3>4, <3>5 DEF Abstract!Arrive, Queues, QueueOf, AllEnds, Coming
  <2>5. CASE UpdateNode \/ InsertNode
    BY <2>5, BookJoined
  <2>6. QED
    BY <2>3, <2>4, <2>5 DEF Next, Walk
<1>2. QED
  BY <1>1, BookStarts, ListInitial, ListInductive, QueueInitial, QueueInductive, PTL
  DEF Spec, ImplementsBook, Abstract!BookSpec
-----------------------------------------------------------------------------
(***************************************************************************)
(* Matching.  The walks are dealt with; what is left is the work of getMsg *)
(* and MakeOrder.                                                          *)
(***************************************************************************)
OffersUncounted == \A k \in Slot : level["offer"][k].orderNumber = 0

NoneNegative == \A side \in Side, k \in Slot : level[side][k].orderAmount >= 0

\* What the types rest on: NextBid and NextOffer stay inside the arrays, and no offer
\* is ever counted.
MatchInv ==
  /\ MatchTypes
  /\ pc = "scan" => nextLevel[order.side] \in Slot
  /\ OffersUncounted
  /\ OnlySellsMatched

\* In a step of a walk the book has the types PriceBook gives it.
LEMMA WalkHasTypes ==
  ASSUME MatchInv, Walk
  PROVE  TypeInv /\ pc \in {"walk", "scan"} /\ pc' \in {"idle", "walk", "scan", "stuck"}
<1>1. pc \in {"walk", "scan"}
  BY DEF Walk, WalkOn, UpdateNode, NeedLevel, SkipUsed, InsertNode, LevelsExhausted
<1>2. TypeInv
  BY <1>1 DEF MatchInv, MatchTypes, TypeInv, TypeOK
<1>3. TypeInv'
  BY <1>2, TypeInductive DEF Next
<1>4. QED
  BY <1>1, <1>2, <1>3 DEF TypeInv, TypeOK

\* No step of a walk counts an offer, or makes an amount negative.
LEMMA WalkCountsNoOffer ==
  ASSUME MatchInv, Walk
  PROVE  OffersUncounted' /\ NoneNegative'
<1>1. \A side \in Side, k \in Slot : Kept(side, k) \/ Taken(side, k)
  BY WalkHasTypes, WalkFills
<1>2. OffersUncounted /\ NoneNegative
  BY DEF MatchInv, MatchTypes, NoneNegative
<1>3. QED
  BY <1>1, <1>2 DEF OffersUncounted, NoneNegative, Kept, Taken

\* Order::NextBid returns a slot of the array, and a free one.
LEMMA NextBidFree ==
  ASSUME DataTypes, NEW new \in NextBid
  PROVE  new \in Slot /\ ~Used("bid", new)
<1>1. FirstBid \in Nat
  BY LevelAssumption DEF FirstBid
<1>2. PICK i \in Slot : new = BidAfter(i) /\ ~Used("bid", BidAfter(i))
  BY DEF NextBid
<1>3. (FirstBid + i) % LevelMax \in Slot
  BY <1>1, LevelAssumption
<1>4. QED
  BY <1>2, <1>3 DEF BidAfter

\* The bid levels stay levels when one is added for a sell.
LEMMA RelinkedTypes ==
  ASSUME DataTypes, orderProcessNo \in OrderNo, NEW new \in Slot, NEW k \in Slot
  PROVE  /\ AddNewBuyNode(new) \in [Slot -> Levels]
         /\ Relinked(AddNewBuyNode(new), new, k) \in [Slot -> Levels]
<1> DEFINE bids == AddNewBuyNode(new)
           prev == bids[k].prev
<1>1. bids \in [Slot -> Levels]
  <2> DEFINE node == [InitBid EXCEPT !.price = order.price, !.orderAmount = order.balance,
                                     !.firstOrder = orderProcessNo, !.lastOrder = orderProcessNo]
  <2>1. node \in Levels
    BY Positive DEF InitBid, Levels, Orders
  <2>2. bids = [level["bid"] EXCEPT ![new] = node]
    BY DEF AddNewBuyNode
  <2> HIDE DEF bids, node
  <2>3. QED
    BY <2>1, <2>2
<1> HIDE DEF bids
<1>2. prev \in Slot \cup {0, NULL_INDEX}
  BY <1>1 DEF Levels
<1> HIDE DEF prev
<1> DEFINE node == [[bids[new] EXCEPT !.next = k] EXCEPT !.prev = prev]
           linked == [bids EXCEPT ![new] = node]
           front == IF prev = NULL_INDEX THEN linked
                    ELSE [linked EXCEPT ![prev] = [linked[prev] EXCEPT !.next = new]]
<1>3. node \in Levels
  <2>1. [bids[new] EXCEPT !.next = k] \in Levels
    BY <1>1, RelinkType
  <2>2. QED
    BY <1>2, <2>1, RelinkType
<1> HIDE DEF node
<1>4. linked \in [Slot -> Levels]
  BY <1>1, <1>3
<1> HIDE DEF linked
<1>5. front \in [Slot -> Levels]
  <2>1. CASE prev = NULL_INDEX
    BY <1>4, <2>1
  <2>2. CASE prev # NULL_INDEX
    <3>1. prev \in Slot
      BY <1>2, <2>2, LevelAssumption
    <3>2. [linked[prev] EXCEPT !.next = new] \in Levels
      BY <1>4, <3>1, RelinkType
    <3>3. QED
      BY <1>4, <2>2, <3>1, <3>2
  <2>3. QED
    BY <2>1, <2>2
<1> HIDE DEF front
<1>6. [front EXCEPT ![k] = [front[k] EXCEPT !.prev = new]] \in [Slot -> Levels]
  <2>1. [front[k] EXCEPT !.prev = new] \in Levels
    BY <1>5, RelinkType
  <2>2. QED
    BY <1>5, <2>1
<1>7. Relinked(bids, new, k) = [front EXCEPT ![k] = [front[k] EXCEPT !.prev = new]]
  BY DEF Relinked, front, linked, node, prev
<1>8. QED
  BY <1>1, <1>6, <1>7 DEF bids

\* No bid loses anything: it keeps its amount, or its slot was free and is taken.
Undiminished ==
  \A k \in Slot :
    \/ /\ level'["bid"][k].orderAmount = level["bid"][k].orderAmount
       /\ Used("bid", k) => Used("bid", k)'
    \/ ~Used("bid", k) /\ Used("bid", k)'

\* Relinking writes links only.
LEMMA RelinkedKeeps ==
  ASSUME NEW bids \in [Slot -> Levels], NEW new \in Slot, NEW k \in Slot, NEW j \in Slot
  PROVE  /\ Relinked(bids, new, k)[j].price = bids[j].price
         /\ Relinked(bids, new, k)[j].orderAmount = bids[j].orderAmount
<1> DEFINE prev == bids[k].prev
           node == [[bids[new] EXCEPT !.next = k] EXCEPT !.prev = prev]
           linked == [bids EXCEPT ![new] = node]
           front == IF prev = NULL_INDEX THEN linked
                    ELSE [linked EXCEPT ![prev] = [linked[prev] EXCEPT !.next = new]]
           same(f, g) == \A i \in Slot : f[i].price = g[i].price /\ f[i].orderAmount = g[i].orderAmount
<1>1. prev \in Slot \cup {0, NULL_INDEX} /\ 0 \in Slot
  BY LevelAssumption DEF Levels
<1>2. node \in Levels /\ node.price = bids[new].price /\ node.orderAmount = bids[new].orderAmount
  <2> HIDE DEF prev
  <2>1. [bids[new] EXCEPT !.next = k] \in Levels
    BY RelinkType
  <2>2. node \in Levels
    BY <1>1, <2>1, RelinkType
  <2>3. QED
    BY <2>2 DEF Levels
<1> HIDE DEF prev, node
<1>3. linked \in [Slot -> Levels] /\ same(linked, bids)
  BY <1>2
<1> HIDE DEF linked
<1>4. front \in [Slot -> Levels] /\ same(front, bids)
  <2>1. CASE prev = NULL_INDEX
    BY <1>3, <2>1
  <2>2. CASE prev # NULL_INDEX
    <3>1. prev \in Slot
      BY <1>1, <2>2
    <3>2. [linked[prev] EXCEPT !.next = new] \in Levels
      BY <1>3, <3>1, RelinkType
    <3>3. /\ [linked[prev] EXCEPT !.next = new].price = linked[prev].price
          /\ [linked[prev] EXCEPT !.next = new].orderAmount = linked[prev].orderAmount
      BY <1>3, <3>1 DEF Levels
    <3>4. QED
      BY <1>3, <2>2, <3>1, <3>2, <3>3
  <2>3. QED
    BY <2>1, <2>2
<1> HIDE DEF front
<1>5. /\ [front[k] EXCEPT !.prev = new].price = front[k].price
      /\ [front[k] EXCEPT !.prev = new].orderAmount = front[k].orderAmount
  BY <1>4 DEF Levels
<1>6. Relinked(bids, new, k) = [front EXCEPT ![k] = [front[k] EXCEPT !.prev = new]]
  BY DEF Relinked, front, linked, node, prev
<1>7. QED
  BY <1>4, <1>5, <1>6

\* The bid of AddBidNodeByOrder takes from no other.
LEMMA MisplacedTakesNothing ==
  ASSUME MatchInv, AddBidNodeByOrder
  PROVE  Undiminished /\ NoneNegative'
<1> DEFINE k == list["offer"][order.stock].best
<1>1. DataTypes /\ order \in Orders /\ order.stock \in Stocks
  BY DEF MatchInv, MatchTypes, Orders
<1>2. PICK new \in NextBid :
        level' = [level EXCEPT !["bid"] = IF k = NULL_INDEX THEN AddNewBuyNode(new)
                                          ELSE Relinked(AddNewBuyNode(new), new, k)]
  BY DEF AddBidNodeByOrder
<1>3. new \in Slot /\ ~Used("bid", new)
  BY <1>1, NextBidFree
<1>4. orderProcessNo \in OrderNo
  BY <1>1, OrderAssumption DEF AddBidNodeByOrder, AtBid
<1>5. k \in Slot \cup {NULL_INDEX}
  BY <1>1 DEF Ends
<1> DEFINE bids == AddNewBuyNode(new)
<1>6. bids \in [Slot -> Levels]
  BY <1>1, <1>3, <1>4, RelinkedTypes
<1>7. bids[new].price > 0 /\ bids[new].orderAmount >= 0
      /\ \A j \in Slot : j # new => bids[j] = level["bid"][j]
  <2>1. level["bid"] \in [Slot -> Levels]
    BY <1>1
  <2>2. order.price \in Prices /\ order.balance >= 0
    BY <1>1, Positive DEF Orders
  <2>3. \A q \in Prices : q > 0
    BY PriceAssumption
  <2>4. QED
    BY <1>3, <2>1, <2>2, <2>3 DEF AddNewBuyNode, InitBid
<1> HIDE DEF bids, k
<1>8. PICK after \in {bids, Relinked(bids, new, k)} :
        /\ level'["bid"] = after
        /\ after = bids \/ k \in Slot
  BY <1>1, <1>2, <1>5 DEF bids
<1>9. \A j \in Slot : after[j].price = bids[j].price /\ after[j].orderAmount = bids[j].orderAmount
  <2>1. CASE after = bids
    BY <2>1
  <2>2. CASE after = Relinked(bids, new, k) /\ k \in Slot
    BY ZenonT(40), <1>3, <1>6, <2>2, RelinkedKeeps
  <2>3. QED
    BY <1>8, <2>1, <2>2
<1>10. level'["offer"] = level["offer"]
  BY <1>1, <1>2
<1>11. NoneNegative
  BY DEF MatchInv, MatchTypes, NoneNegative
<1>12. NoneNegative'
  BY <1>7, <1>8, <1>9, <1>10, <1>11 DEF NoneNegative
<1>13. QED
  BY <1>3, <1>7, <1>8, <1>9, <1>12 DEF Undiminished, Used

\* The inductive step behind MatchTypesHold and OnlySellsReachMatch: one case per action.
LEMMA MatchInductive ==
  ASSUME MatchInv, [NextMatching]_allVars
  PROVE  MatchInv'
<1> USE LevelAssumption, OrderAssumption
<1>1. DataTypes /\ order \in Orders /\ order.side \in Side /\ order.stock \in Stocks
  BY DEF MatchInv, MatchTypes, Orders
<1>2. \A side \in Side, s \in Stocks : list[side][s].best \in Slot \cup {NULL_INDEX}
  BY <1>1 DEF Ends
<1>3. \A side \in Side, k \in Slot : level[side][k] \in Levels
  BY <1>1
<1>4. \A side \in Side, k \in Slot : level[side][k].next \in Slot \cup {NULL_INDEX}
  BY <1>3 DEF Levels
<1>5. CASE UNCHANGED allVars
  BY <1>5 DEF allVars, vars, book, matchVars, MatchInv, MatchTypes, OffersUncounted, OnlySellsMatched
<1>6. CASE getMsg
  <2>1. PICK o \in Orders, q \in Quantities :
          PushOrder(o) /\ orderQty' = q /\ index' = list[Opposite(o.side)][o.stock].best
    BY <1>6, Zenon DEF getMsg
  <2>2. Opposite(o.side) \in Side /\ o.stock \in Stocks
    BY DEF Orders, Opposite
  <2>3. index' \in Slot \cup {NULL_INDEX} /\ orderQty' \in Nat
    BY <1>2, <2>1, <2>2, QuantityAssumption
  <2>4. QED
    <3>1. pc' = "opponent" /\ traded' = FALSE /\ UNCHANGED <<scanned, misplaced>>
      BY <1>6 DEF getMsg
    <3>2. /\ nextOrder \in OrderNo /\ nextOrder' \in 0..OrderMax /\ nextOrder' > 0
          /\ orderProcessNo' \in OrderNo /\ order' = o /\ UNCHANGED <<level, list, nextLevel, owner>>
      BY <1>1, <1>6, <2>1, NumberAssumption DEF getMsg, PushOrder
    <3>3. nextPrice' \in [OrderNo -> OrderNo \cup {0, NULL_INDEX}] /\ misnumbered' \in BOOLEAN
      BY <1>1, <2>1, <3>2 DEF PushOrder
    <3>4. DataTypes'
      BY <1>1, <2>3, <3>1, <3>2, <3>3
    <3>5. QED
      BY <2>3, <3>1, <3>2, <3>4 DEF MatchInv, MatchTypes, OffersUncounted, OnlySellsMatched
<1>7. CASE SkipUncounted
  <2>1. index \in Slot /\ Opposite(order.side) \in Side
    BY <1>1, <1>7 DEF SkipUncounted, Reached, Opposite
  <2>2. index' \in Slot \cup {NULL_INDEX}
    BY <1>4, <1>7, <2>1 DEF SkipUncounted, Opponent
  <2>3. QED
    BY <1>1, <1>7, <2>2
       DEF SkipUncounted, Keeps, Stays, book, MatchInv, MatchTypes, OffersUncounted, OnlySellsMatched
<1>8. CASE NoOpponent
  BY <1>1, <1>2, <1>8 DEF NoOpponent, Keeps, Stays, book, MatchInv, MatchTypes, OffersUncounted, OnlySellsMatched
<1>9. CASE MakeOrder
  <2>1. index \in Slot /\ Opponent.orderNumber > 0
    BY <1>1, <1>9 DEF MakeOrder, Reached
  <2>2. order.side = "offer"
    BY <1>1, <2>1 DEF Opponent, Opposite, MatchInv, OffersUncounted
  <2>3. index' \in Slot \cup {NULL_INDEX}
    BY <1>1, <1>2, <1>9 DEF MakeOrder, Opposite
  <2>4. QED
    BY <1>1, <1>9, <2>2, <2>3 DEF MakeOrder, Keeps, Stays, book, MatchInv, MatchTypes, OffersUncounted, OnlySellsMatched
<1>10. ASSUME AtBid PROVE index \in Slot /\ orderProcessNo \in OrderNo
  BY <1>1, <1>10 DEF AtBid
<1>11. CASE Trade
  <2> DEFINE deal == IF orderQty < Bid.orderAmount THEN orderQty ELSE Bid.orderAmount
             after == [Bid EXCEPT !.orderAmount = Bid.orderAmount - deal]
  <2>1. index \in Slot /\ Bid \in Levels /\ orderQty \in Nat
    BY <1>3, <1>10, <1>11 DEF Trade, Bid, MatchInv, MatchTypes
  <2>2. Bid.orderAmount \in Nat /\ Bid.orderAmount - deal \in Nat /\ orderQty - deal \in Nat
    <3>1. Bid.orderAmount >= 0 /\ Bid.orderAmount \in Int
      BY <1>1, <2>1 DEF Levels, Bid, MatchInv, MatchTypes
    <3>2. QED
      BY <2>1, <3>1
  <2>3. after \in Levels
    BY <2>1, <2>2 DEF Levels
  <2>4. level' = [level EXCEPT !["bid"][index] = after] /\ orderQty' = orderQty - deal
    BY <1>11 DEF Trade, Bid
  <2>5. index' \in Slot \cup {NULL_INDEX}
    BY <1>4, <1>11, <2>1 DEF Trade, Bid
  <2>6. pc' \in {"idle", "match"} /\ (pc' = "match" => pc = "match") /\ pc # "idle"
    BY <1>11 DEF Trade, AtBid
  <2> HIDE DEF after, deal
  <2>7. level' \in [Side -> [Slot -> Levels]] /\ OffersUncounted' /\ NoneNegative'
    <3>1. after.orderAmount >= 0
      BY <2>1, <2>2 DEF after, Levels
    <3>2. OffersUncounted /\ NoneNegative
      BY DEF MatchInv, MatchTypes, NoneNegative
    <3>3. QED
      BY <1>1, <2>1, <2>3, <2>4, <3>1, <3>2 DEF OffersUncounted, NoneNegative
  <2>8. traded' \in BOOLEAN /\ UNCHANGED <<list, nextLevel, nextPrice, owner, scanned, misplaced, nextOrder, order, orderProcessNo, misnumbered>>
    BY <1>11 DEF Trade, Stays
  <2>9. DataTypes'
    BY <1>1, <2>5, <2>6, <2>7, <2>8
  <2>10. QED
    BY <2>2, <2>4, <2>6, <2>7, <2>8, <2>9 DEF MatchInv, MatchTypes, OnlySellsMatched, NoneNegative
<1>12. CASE PassBid
  <2>1. index' \in Slot \cup {NULL_INDEX}
    BY <1>4, <1>10, <1>12 DEF PassBid, Bid
  <2>2. QED
    BY <1>1, <1>12, <2>1 DEF PassBid, Keeps, Stays, book, MatchInv, MatchTypes, OffersUncounted, OnlySellsMatched
<1>13. CASE AddBidNodeByOrder
  <2> DEFINE k == list["offer"][order.stock].best
             l == list["bid"][order.stock]
  <2>1. PICK new \in NextBid :
          /\ nextLevel' = [nextLevel EXCEPT !["bid"] = new + 1]
          /\ owner' = [owner EXCEPT !["bid"][new] = order.stock]
          /\ IF k = NULL_INDEX
             THEN /\ level' = [level EXCEPT !["bid"] = AddNewBuyNode(new)]
                  /\ list' = [list EXCEPT !["bid"][order.stock].number = @ + 1]
                  /\ pc' = "crashed"
                  /\ UNCHANGED index
             ELSE /\ level' = [level EXCEPT !["bid"] = Relinked(AddNewBuyNode(new), new, k)]
                  /\ list' = [list EXCEPT !["bid"][order.stock] =
                       [l EXCEPT !.number = @ + 1,
                                 !.best = IF @ = k \/ AddNewBuyNode(new)[k].prev = NULL_INDEX THEN new ELSE @]]
                  /\ index' = level'["bid"][index].next
                  /\ UNCHANGED pc
    BY <1>13 DEF AddBidNodeByOrder
  <2>2. new \in Slot /\ index \in Slot /\ orderProcessNo \in OrderNo /\ k \in Slot \cup {NULL_INDEX}
    BY <1>1, <1>2, <1>10, <1>13, NextBidFree DEF AddBidNodeByOrder
  <2>3. l \in Ends
    BY <1>1
  <2>4. level'["offer"] = level["offer"] /\ level' \in [Side -> [Slot -> Levels]]
    BY SMTT(40), <1>1, <2>1, <2>2, RelinkedTypes
  <2>5. nextLevel' \in [Side -> 0..LevelMax] /\ owner' \in [Side -> [Slot -> Stocks \cup {NoStock}]]
    BY SMTT(40), <1>1, <2>1, <2>2
  <2>6. list' \in [Side -> [Stocks -> Ends]]
    <3>1. CASE k = NULL_INDEX
      <4>1. [l EXCEPT !.number = l.number + 1] \in Ends
        BY <2>3 DEF Ends
      <4>2. list' = [list EXCEPT !["bid"][order.stock] = [l EXCEPT !.number = l.number + 1]]
        BY <2>1, <3>1
      <4>3. QED
        BY <1>1, <4>1, <4>2
    <3>2. CASE k # NULL_INDEX
      <4> DEFINE best == IF l.best = k \/ AddNewBuyNode(new)[k].prev = NULL_INDEX THEN new ELSE l.best
      <4>1. best \in Slot \cup {NULL_INDEX}
        BY <2>2, <2>3 DEF Ends
      <4>2. list' = [list EXCEPT !["bid"][order.stock] = [l EXCEPT !.number = l.number + 1, !.best = best]]
        BY <2>1, <3>2
      <4> HIDE DEF best
      <4>3. [l EXCEPT !.number = l.number + 1, !.best = best] \in Ends
        <5>1. [l EXCEPT !.number = l.number + 1] \in Ends
          BY <2>3 DEF Ends
        <5>2. [[l EXCEPT !.number = l.number + 1] EXCEPT !.best = best] \in Ends
          BY <4>1, <5>1 DEF Ends
        <5>3. QED
          BY <5>2
      <4>4. QED
        BY <1>1, <4>2, <4>3
    <3>3. QED
      BY <3>1, <3>2
  <2>7. index' \in Slot \cup {NULL_INDEX} /\ pc' \in {"match", "crashed"} /\ pc = "match"
    <3>1. level'["bid"][index].next \in Slot \cup {NULL_INDEX} \cup {0}
      <4>1. level'["bid"][index] \in Levels
        BY <2>2, <2>4 DEF Side
      <4>2. QED
        BY <4>1 DEF Levels
    <3>2. QED
      BY <1>13, <2>1, <2>2, <3>1 DEF AddBidNodeByOrder, AtBid
  <2>8. /\ orderQty' = orderQty /\ traded' = traded /\ misplaced' = TRUE
        /\ UNCHANGED <<nextPrice, scanned, nextOrder, order, orderProcessNo, misnumbered>>
    BY <1>13 DEF AddBidNodeByOrder, Stays
  <2>9. DataTypes'
    BY <1>1, <2>4, <2>5, <2>6, <2>7, <2>8
  <2>10. QED
    BY <1>13, <2>4, <2>7, <2>8, <2>9, MisplacedTakesNothing
       DEF MatchInv, MatchTypes, NoneNegative, OffersUncounted, OnlySellsMatched
<1>14. CASE BidsExhausted
  BY <1>1, <1>14 DEF BidsExhausted, AtBid, Keeps, Stays, book, MatchInv, MatchTypes, OffersUncounted, OnlySellsMatched
<1>15. CASE EndMatch
  BY <1>1, <1>15 DEF EndMatch, Keeps, Stays, book, MatchInv, MatchTypes, OffersUncounted, OnlySellsMatched
<1>16. CASE Walk /\ UNCHANGED matchVars
  <2>1. TypeInv /\ pc' \in {"idle", "walk", "scan", "stuck"}
    BY <1>16, WalkHasTypes
  <2>2. TypeInv'
    BY <1>16, <2>1, TypeInductive DEF Next
  <2>3. QED
    BY <1>16, <2>1, <2>2, WalkCountsNoOffer
    DEF matchVars, MatchInv, MatchTypes, NoneNegative, OnlySellsMatched, TypeInv, TypeOK
<1>17. QED
  BY <1>5, <1>6, <1>7, <1>8, <1>9, <1>11, <1>12, <1>13, <1>14, <1>15, <1>16 DEF NextMatching, Work

LEMMA MatchInitial ==
  ASSUME InitMatching
  PROVE  MatchInv
<1>1. DataTypes
  BY TypeInitial DEF InitMatching, TypeInv, TypeOK
<1>2. level = [side \in Side |-> [k \in Slot |-> ZeroLevel]] /\ pc = "idle"
  BY DEF InitMatching, Init
<1>3. OffersUncounted
  BY <1>2 DEF OffersUncounted, ZeroLevel
<1>4. NoneNegative
  BY <1>2 DEF NoneNegative, ZeroLevel
<1>5. QED
  BY <1>1, <1>2, <1>3, <1>4 DEF NoneNegative, InitMatching, MatchInv, MatchTypes, OnlySellsMatched

\* No step of the server, the misplaced bids of MakeOrder included, ever makes an amount
\* negative or an index leave its array (MySockTask.cpp:43-65, MatchingOrder.cpp:64-215).
THEOREM MatchTypesHold == SpecMatching => []MatchTypes
<1>1. MatchInv => MatchTypes
  BY DEF MatchInv
<1>2. QED
  BY <1>1, MatchInitial, MatchInductive, PTL DEF SpecMatching

\* MakeOrder's branch for buys is never reached (MatchingOrder.cpp:25-62).
THEOREM OnlySellsReachMatch == SpecMatching => []OnlySellsMatched
<1>1. MatchInv => OnlySellsMatched
  BY DEF MatchInv
<1>2. QED
  BY <1>1, MatchInitial, MatchInductive, PTL DEF SpecMatching
-----------------------------------------------------------------------------
(***************************************************************************)
(* The lists, until AddBidNodeByOrder runs: the invariant of PriceBook,    *)
(* which Trade keeps because it touches no link, price or end.             *)
(***************************************************************************)
LinkedInv == MatchInv /\ (~misplaced => LevelsLinked /\ Cursor)

\* A level stays in its list if its links, its list's ends and its neighbours stay.
LEMMA InListKept ==
  ASSUME UNCHANGED <<list, owner>>, NEW side \in Side, NEW k \in Slot, InList(side, k),
         level'[side][k].next = level[side][k].next, level'[side][k].prev = level[side][k].prev,
         \A i, j \in Slot : Neighbours(side, i, j)' <=> Neighbours(side, i, j)
  PROVE  InList(side, k)'
<1> DEFINE nx == level[side][k].next
           pv == level[side][k].prev
<1>1. level'[side][k].next = nx /\ level'[side][k].prev = pv /\ list' = list /\ owner' = owner
  OBVIOUS
<1>2. /\ nx \in Slot => (Neighbours(side, k, nx)' <=> Neighbours(side, k, nx))
      /\ pv \in Slot => (Neighbours(side, pv, k)' <=> Neighbours(side, pv, k))
  OBVIOUS
<1>3. QED
  BY <1>1, <1>2 DEF InList

\* Lists are linked as long as prices, links, ends and owners stay.
LEMMA AmountsNotLinked ==
  ASSUME LevelsLinked, UNCHANGED <<list, owner>>,
         \A side \in Side, k \in Slot :
           /\ level'[side][k].price = level[side][k].price
           /\ level'[side][k].next = level[side][k].next
           /\ level'[side][k].prev = level[side][k].prev,
         DataTypes
  PROVE  LevelsLinked'
<1>1. \A side \in Side, k \in Slot : Used(side, k)' <=> Used(side, k)
  BY DEF Used
<1>2. \A side \in Side, j, k \in Slot : Neighbours(side, j, k)' <=> Neighbours(side, j, k)
  BY <1>1 DEF Neighbours, Ahead
<1>3. \A side \in Side, k \in Slot : InList(side, k) => InList(side, k)'
  BY <1>2, InListKept
<1>4. \A side \in Side, s \in Stocks : EndsOf(side, s) => EndsOf(side, s)'
  <2> SUFFICES ASSUME NEW side \in Side, NEW s \in Stocks, EndsOf(side, s) PROVE EndsOf(side, s)'
    OBVIOUS
  <2>1. list[side][s].best \in Slot \cup {NULL_INDEX} /\ list[side][s].worst \in Slot \cup {NULL_INDEX}
    BY DEF Ends
  <2>2. QED
    BY <1>1, <2>1 DEF EndsOf
<1>5. QED
  BY <1>1, <1>3, <1>4 DEF LevelsLinked

LEMMA LinkedInductive ==
  ASSUME LinkedInv, [NextMatching]_allVars
  PROVE  LinkedInv'
<1>1. MatchInv /\ MatchInv'
  BY MatchInductive DEF LinkedInv
<1> SUFFICES ASSUME ~misplaced' PROVE LevelsLinked' /\ Cursor'
  BY <1>1 DEF LinkedInv
<1>2. CASE UNCHANGED allVars
  <2>1. UNCHANGED <<level, list, owner, misplaced, order, index, pc>> /\ LevelsLinked /\ Cursor
    BY <1>2 DEF allVars, vars, book, matchVars, LinkedInv
  <2>2. LevelsLinked'
    BY <2>1, ListsUntouched
  <2>3. Cursor'
    BY <2>1 DEF Cursor, Used, Ahead
  <2>4. QED
    BY <2>2, <2>3
<1>3. CASE getMsg \/ SkipUncounted \/ MakeOrder \/ PassBid \/ BidsExhausted \/ EndMatch
  <2>1. UNCHANGED <<level, list, owner, misplaced>> /\ pc' \notin {"walk", "scan"}
    BY <1>3 DEF getMsg, PushOrder, SkipUncounted, MakeOrder, PassBid, BidsExhausted, EndMatch, AtBid, Keeps, Stays, book
  <2>2. LevelsLinked'
    BY <2>1, ListsUntouched DEF LinkedInv
  <2>3. QED
    BY <2>1, <2>2 DEF Cursor
<1>4. CASE NoOpponent
  <2>1. UNCHANGED <<level, list, owner, order>> /\ pc' = "walk" /\ index' = list[order.side][order.stock].best
    BY <1>4 DEF NoOpponent, Keeps, Stays, book
  <2>2. LevelsLinked /\ ~misplaced
    BY <1>4 DEF NoOpponent, Keeps, LinkedInv
  <2>3. EndsOf(order.side, order.stock)
    BY <1>1, <2>2 DEF MatchInv, MatchTypes, Orders, LevelsLinked
  <2>4. Cursor'
    BY <2>1, <2>3 DEF EndsOf, Cursor, Used
  <2>5. QED
    BY <2>1, <2>2, <2>4, ListsUntouched
<1>5. CASE Trade
  <2>1. DataTypes /\ index \in Slot /\ UNCHANGED <<list, owner, misplaced>>
    BY <1>1, <1>5 DEF Trade, AtBid, MatchInv, MatchTypes
  <2>2. PICK amount : level' = [level EXCEPT !["bid"][index].orderAmount = amount]
    BY <1>5 DEF Trade
  <2>3. \A side \in Side, k \in Slot : level[side][k] \in Levels
    BY <2>1
  <2>4. \A side \in Side, k \in Slot :
          /\ level'[side][k].price = level[side][k].price
          /\ level'[side][k].next = level[side][k].next
          /\ level'[side][k].prev = level[side][k].prev
    BY <2>1, <2>2, <2>3 DEF Levels
  <2>5. LevelsLinked'
    BY <2>1, <2>4, AmountsNotLinked DEF LinkedInv
  <2>6. pc' \notin {"walk", "scan"}
    BY <1>5 DEF Trade, AtBid
  <2>7. QED
    BY <2>5, <2>6 DEF Cursor
<1>6. CASE AddBidNodeByOrder
  BY <1>6 DEF AddBidNodeByOrder
<1>7. CASE Walk /\ UNCHANGED matchVars
  <2>1. ListInv
    BY <1>1, <1>7, WalkHasTypes DEF LinkedInv, ListInv, matchVars
  <2>2. QED
    BY <1>7, <2>1, ListInductive DEF Next, ListInv
<1>8. QED
  BY <1>2, <1>3, <1>4, <1>5, <1>6, <1>7 DEF NextMatching, Work

\* As long as no sell has been misplaced, trading and walking keep every list linked
\* and in price order (MatchingOrder.cpp:69-99).
THEOREM TradesKeepLists == SpecMatching => []LinkedUntilMisplaced
<1>1. InitMatching => LinkedInv
  <2> SUFFICES ASSUME InitMatching PROVE LinkedInv
    OBVIOUS
  <2>1. Init
    BY DEF InitMatching
  <2>2. LevelsLinked /\ Cursor
    BY <2>1 DEF Init, LevelsLinked, EndsOf, Used, ZeroLevel, Cursor
  <2>3. QED
    BY <2>2, MatchInitial DEF LinkedInv
<1>2. LinkedInv => LinkedUntilMisplaced
  BY DEF LinkedInv, LinkedUntilMisplaced
<1>3. QED
  BY <1>1, <1>2, LinkedInductive, PTL DEF SpecMatching
-----------------------------------------------------------------------------
(***************************************************************************)
(* Price priority.  Only Trade takes from a bid, and what it takes from is *)
(* the best end of the list: the loop of MakeOrder starts there, and it    *)
(* goes on after a trade only when the order wants nothing more.           *)
(***************************************************************************)
FreeEmpty == \A k \in Slot : ~Used("bid", k) => level["bid"][k].orderAmount = 0

AtFront ==
  /\ pc = "opponent" => ~traded
  /\ pc = "match" /\ ~misplaced => orderQty = 0 \/ (~traded /\ index = list["bid"][order.stock].best)

FrontInv == LinkedInv /\ FreeEmpty /\ AtFront

\* No step of a walk takes from a bid.
LEMMA WalkTakesNothing ==
  ASSUME MatchInv, Walk
  PROVE  Undiminished
<1>1. \A k \in Slot : Kept("bid", k) \/ Taken("bid", k)
  BY WalkHasTypes, WalkFills
<1>2. order.price > 0
  BY Positive DEF MatchInv, MatchTypes, Orders
<1>3. QED
  BY <1>1, <1>2 DEF Undiminished, Used, Kept, Taken

\* What Trade takes comes from the bid it stands at, and nothing is taken once the
\* order wants nothing.
LEMMA TradeTakesHere ==
  ASSUME MatchInv, Trade
  PROVE  /\ \A k \in Slot : level'["bid"][k].price = level["bid"][k].price
         /\ \A k \in Slot : level'["bid"][k].orderAmount # level["bid"][k].orderAmount => k = index /\ orderQty # 0
         /\ index \in Slot
         /\ pc' = "match" => orderQty' = 0
<1> DEFINE deal == IF orderQty < Bid.orderAmount THEN orderQty ELSE Bid.orderAmount
<1>1. DataTypes /\ index \in Slot /\ orderQty \in Nat /\ Bid \in Levels
  <2>1. DataTypes /\ orderQty \in Nat
    BY DEF MatchInv, MatchTypes
  <2>2. index \in Slot
    BY <2>1 DEF Trade, AtBid
  <2>3. QED
    BY <2>1, <2>2 DEF Bid
<1>2. Bid.orderAmount \in Nat
  BY <1>1 DEF Levels, Bid, MatchInv, MatchTypes
<1>3. orderQty = 0 => Bid.orderAmount - deal = Bid.orderAmount
  BY <1>1, <1>2
<1>4. level' = [level EXCEPT !["bid"][index].orderAmount = Bid.orderAmount - deal] /\ orderQty' = orderQty - deal
  BY DEF Trade, Bid
<1>5. pc' = "match" => orderQty' = 0
  BY DEF Trade, Breaks, AtBid
<1> HIDE DEF deal
<1>6. \A k \in Slot : level["bid"][k] \in Levels
  BY <1>1
<1>7. \A k \in Slot : /\ level'["bid"][k].price = level["bid"][k].price
                      /\ level'["bid"][k].orderAmount =
                           IF k = index THEN Bid.orderAmount - deal ELSE level["bid"][k].orderAmount
  BY <1>1, <1>4, <1>6 DEF Levels
<1>8. QED
  BY <1>1, <1>3, <1>5, <1>7 DEF Bid

LEMMA FrontInductive ==
  ASSUME FrontInv, [NextMatching]_allVars
  PROVE  FrontInv'
<1>1. MatchInv /\ LinkedInv' /\ MatchInv'
  BY LinkedInductive DEF FrontInv, LinkedInv
<1>2. ASSUME Undiminished PROVE FreeEmpty'
  BY <1>2 DEF FrontInv, FreeEmpty, Undiminished, Used
<1>3. ASSUME level' = level PROVE FreeEmpty'
  BY <1>3 DEF FrontInv, FreeEmpty, Used
<1>4. CASE UNCHANGED allVars
  BY <1>1, <1>3, <1>4 DEF FrontInv, AtFront, allVars, vars, book, matchVars
<1>5. CASE getMsg \/ SkipUncounted \/ NoOpponent \/ BidsExhausted \/ EndMatch
  <2>1. level' = level /\ pc' # "match" /\ (pc' = "opponent" => ~traded' \/ (pc = "opponent" /\ traded' = traded))
    BY <1>5 DEF getMsg, PushOrder, SkipUncounted, NoOpponent, BidsExhausted, EndMatch, Keeps, Stays, book
  <2>2. QED
    BY <1>1, <1>3, <2>1 DEF FrontInv, AtFront
<1>6. CASE MakeOrder
  <2>1. UNCHANGED <<level, list, order, traded, orderQty, misplaced>> /\ pc' = "match"
        /\ index' = list[Opposite(order.side)][order.stock].best
    BY <1>6 DEF MakeOrder, Keeps, Stays, book
  <2>2. order.side = "offer"
    BY <1>1, <2>1 DEF MatchInv, OnlySellsMatched
  <2>3. ~traded
    BY <1>6 DEF MakeOrder, FrontInv, AtFront
  <2>4. QED
    BY <1>1, <1>3, <2>1, <2>2, <2>3 DEF FrontInv, AtFront, Opposite
<1>7. CASE Trade
  <2>1. /\ \A k \in Slot : level'["bid"][k].price = level["bid"][k].price
        /\ \A k \in Slot : level'["bid"][k].orderAmount # level["bid"][k].orderAmount => k = index
        /\ pc' = "match" => orderQty' = 0
    BY <1>1, <1>7, TradeTakesHere
  <2>2. Used("bid", index)
    <3>1. order.price \in Nat /\ level["bid"][index].price \in Nat /\ order.price < level["bid"][index].price
      <4>1. order.price < Bid.price /\ index \in Slot /\ order.price \in Prices
        BY <1>1, <1>7, TradeTakesHere DEF Trade, Tradable, MatchInv, MatchTypes, Orders
      <4>2. level["bid"][index].price \in Prices \cup {0}
        BY <1>1, <4>1 DEF MatchInv, MatchTypes, Levels
      <4>3. \A q \in Prices \cup {0} : q \in Nat
        BY PriceAssumption
      <4>4. QED
        BY <4>1, <4>2, <4>3 DEF Bid
    <3>2. QED
      BY <3>1 DEF Used
  <2>3. FreeEmpty'
    BY <2>1, <2>2 DEF FrontInv, FreeEmpty, Used
  <2>4. pc' # "opponent"
    BY <1>7 DEF Trade, AtBid
  <2>5. QED
    BY <1>1, <2>1, <2>3, <2>4 DEF FrontInv, AtFront
<1>8. CASE PassBid
  BY <1>1, <1>3, <1>8 DEF PassBid, AtBid, Keeps, Stays, book, FrontInv, AtFront
<1>9. CASE AddBidNodeByOrder
  <2>1. misplaced' /\ pc' # "opponent"
    BY <1>9 DEF AddBidNodeByOrder, AtBid
  <2>2. QED
    BY <1>1, <1>2, <1>9, <2>1, MisplacedTakesNothing DEF FrontInv, AtFront
<1>10. CASE Walk /\ UNCHANGED matchVars
  <2>1. pc' \notin {"match", "opponent"}
    BY <1>1, <1>10, WalkHasTypes
  <2>2. QED
    BY <1>1, <1>2, <1>10, <2>1, WalkTakesNothing DEF FrontInv, AtFront
<1>11. QED
  BY <1>4, <1>5, <1>6, <1>7, <1>8, <1>9, <1>10 DEF NextMatching, Work

LEMMA FrontInitial ==
  ASSUME InitMatching
  PROVE  FrontInv
<1>1. Init /\ level = [side \in Side |-> [k \in Slot |-> ZeroLevel]] /\ pc = "idle"
  BY DEF InitMatching, Init
<1>2. LevelsLinked /\ Cursor
  BY <1>1 DEF Init, LevelsLinked, EndsOf, Used, ZeroLevel, Cursor
<1>3. FreeEmpty /\ AtFront
  BY <1>1 DEF FreeEmpty, AtFront, ZeroLevel
<1>4. QED
  BY <1>2, <1>3, MatchInitial DEF LinkedInv, FrontInv

\* What one step takes, it takes from the best bid there is.
LEMMA TakesFromBest ==
  ASSUME FrontInv, [NextMatching]_allVars,
         NEW k \in Slot, ~misplaced, level'["bid"][k].price # 0,
         level'["bid"][k].orderAmount < level["bid"][k].orderAmount,
         NEW j \in Slot, owner["bid"][j] = owner["bid"][k],
         level["bid"][j].price > level["bid"][k].price
  PROVE  level["bid"][j].orderAmount = 0
<1>1. MatchInv /\ DataTypes /\ MatchInv' /\ LevelsLinked
  BY MatchInductive DEF FrontInv, LinkedInv, MatchInv, MatchTypes
<1>2. level["bid"][k] \in Levels /\ level["bid"][j] \in Levels /\ level'["bid"][k] \in Levels
  BY <1>1 DEF MatchInv, MatchTypes
<1>3. /\ level["bid"][k].orderAmount \in Int /\ level["bid"][k].price \in Nat
      /\ level'["bid"][k].orderAmount \in Int /\ level'["bid"][k].orderAmount >= 0
      /\ level["bid"][j].price \in Nat
  <2>1. \A q \in Prices \cup {0} : q \in Nat
    BY Positive
  <2>2. QED
    BY <1>1, <1>2, <2>1 DEF Levels, MatchInv, MatchTypes
<1>4. ~Undiminished
  <2>1. ~Used("bid", k) => level["bid"][k].orderAmount = 0
    BY DEF FrontInv, FreeEmpty
  <2>2. QED
    BY <1>3, <2>1 DEF Undiminished
<1>5. level' # level
  BY <1>3
<1>6. CASE Trade
  <2>1. k = index /\ orderQty # 0 /\ Used("bid", k)
    BY <1>1, <1>3, <1>6, TradeTakesHere DEF FrontInv, FreeEmpty
  <2>2. ~traded /\ index = list["bid"][order.stock].best
    BY <1>6, <2>1 DEF Trade, AtBid, FrontInv, AtFront
  <2>3. owner["bid"][k] = order.stock
    <3>1. EndsOf("bid", order.stock) /\ k # NULL_INDEX
      BY <1>1 DEF LevelsLinked, Orders
    <3>2. QED
      BY <2>1, <2>2, <3>1 DEF EndsOf
  <2>4. Used("bid", j)
    BY <1>3 DEF Used
  <2>5. j = k \/ level["bid"][k].price > level["bid"][j].price
    <3>1. "bid" \in Side /\ owner["bid"][j] = order.stock
      BY <2>3
    <3>2. j = list["bid"][owner["bid"][j]].best
          \/ Ahead("bid", level["bid"][list["bid"][owner["bid"][j]].best].price, level["bid"][j].price)
      BY <1>1, <2>4, <3>1, BestIsAhead
    <3>3. list["bid"][owner["bid"][j]].best = k
      BY <2>1, <2>2, <3>1
    <3>4. QED
      BY <3>2, <3>3 DEF Ahead
  <2>6. QED
    BY <1>3, <2>5
<1>7. QED
  BY <1>1, <1>4, <1>5, <1>6, WalkTakesNothing, MisplacedTakesNothing
     DEF NextMatching, Work, allVars, vars, book, getMsg, PushOrder, SkipUncounted, NoOpponent, MakeOrder,
         PassBid, BidsExhausted, EndMatch, Keeps

\* A sell is served from the best bid of its stock: while the lists are linked, a bid
\* loses something only when no better one of the stock has anything left, whatever
\* the orders before did to the lists (MatchingOrder.cpp:68-98).
THEOREM BestBidServedFirst == SpecMatching => BestBidFirst
<1>1. ASSUME FrontInv, [NextMatching]_allVars
      PROVE  [\A k \in Slot :
                ~misplaced /\ level'["bid"][k].price # 0
                /\ level'["bid"][k].orderAmount < level["bid"][k].orderAmount =>
                  \A j \in Slot :
                    owner["bid"][j] = owner["bid"][k] /\ level["bid"][j].price > level["bid"][k].price
                      => level["bid"][j].orderAmount = 0]_allVars
  BY <1>1, TakesFromBest
<1>2. SpecMatching => []FrontInv
  BY FrontInitial, FrontInductive, PTL DEF SpecMatching
<1>3. QED
  BY <1>1, <1>2, PTL DEF SpecMatching, BestBidFirst
-----------------------------------------------------------------------------
(***************************************************************************)
(* Withdrawals.  UpdateBidByWithdraw unlinks a level and makes it free; it *)
(* is a level of the list as long as no order of a freed level comes back. *)
(***************************************************************************)
\* A level taken out of its list leaves a linked list.
LEMMA UnlinkKeepsLists ==
  ASSUME DataTypes, SideLinked("bid"), TheStock \in Stocks,
         NEW k \in Slot, Used("bid", k), owner["bid"][k] = TheStock, FreeBid(k)
  PROVE  SideLinked("bid")'
<1> DEFINE s0 == TheStock
           price(j) == level["bid"][j].price
           nx(j) == level["bid"][j].next
           pv(j) == level["bid"][j].prev
           own(j) == owner["bid"][j]
           best(s) == list["bid"][s].best
           worst(s) == list["bid"][s].worst
           price2(j) == level'["bid"][j].price
           nx2(j) == level'["bid"][j].next
           pv2(j) == level'["bid"][j].prev
           own2(j) == owner'["bid"][j]
           best2(s) == list'["bid"][s].best
           worst2(s) == list'["bid"][s].worst
           used(j) == price(j) > 0
           used2(j) == price2(j) > 0
           prev == pv(k)
           next == nx(k)
           left2(j) == IF j = k THEN InitBid
                       ELSE IF j = prev THEN [level["bid"][j] EXCEPT !.next = next]
                       ELSE IF j = next THEN [level["bid"][j] EXCEPT !.prev = prev]
                       ELSE level["bid"][j]
<1>1. \A j \in Slot : level["bid"][j] \in Levels /\ price(j) \in Int
  <2>1. \A j \in Slot : level["bid"][j] \in Levels
    OBVIOUS
  <2>2. \A p \in Prices \cup {0} : p \in Int
    BY Positive
  <2>3. QED
    BY <2>1, <2>2 DEF Levels
<1>2. \A j \in Slot : level'["bid"][j] = left2(j)
  <2>1. level' = [level EXCEPT !["bid"] = [j \in Slot |-> left2(j)]]
    BY DEF FreeBid
  <2> HIDE DEF left2
  <2>2. QED
    BY <2>1
<1>3. \A j \in Slot : used(j) =>
        /\ own(j) \in Stocks
        /\ IF nx(j) = NULL_INDEX THEN worst(own(j)) = j
           ELSE /\ nx(j) \in Slot /\ used(nx(j)) /\ own(nx(j)) = own(j) /\ pv(nx(j)) = j
                /\ price(j) > price(nx(j))
        /\ IF pv(j) = NULL_INDEX THEN best(own(j)) = j
           ELSE /\ pv(j) \in Slot /\ used(pv(j)) /\ own(pv(j)) = own(j) /\ nx(pv(j)) = j
                /\ price(pv(j)) > price(j)
  BY DEF SideLinked, InList, Neighbours, Used, Ahead
<1>4. \A s \in Stocks : best(s) \in Slot \cup {NULL_INDEX} /\ worst(s) \in Slot \cup {NULL_INDEX}
  BY DEF Ends
<1>5. \A s \in Stocks :
        /\ best(s) = NULL_INDEX <=> worst(s) = NULL_INDEX
        /\ best(s) # NULL_INDEX => used(best(s)) /\ own(best(s)) = s /\ pv(best(s)) = NULL_INDEX
        /\ worst(s) # NULL_INDEX => used(worst(s)) /\ own(worst(s)) = s /\ nx(worst(s)) = NULL_INDEX
  BY DEF SideLinked, EndsOf, Used
<1>6. /\ used(k) /\ own(k) = s0
      /\ prev \in Slot \cup {NULL_INDEX} /\ next \in Slot \cup {NULL_INDEX}
      /\ prev # k /\ next # k /\ (prev = next => prev = NULL_INDEX)
  <2>1. used(k) /\ own(k) = s0
    BY DEF Used
  <2> HIDE DEF price, nx, pv, own, best, worst
  <2>2. QED
    BY <1>1, <1>3, <2>1
<1>7. \A j \in Slot :
        /\ price2(j) = IF j = k THEN 0 ELSE price(j)
        /\ nx2(j) = IF j = k THEN NULL_INDEX ELSE IF j = prev THEN next ELSE nx(j)
        /\ pv2(j) = IF j = k THEN NULL_INDEX ELSE IF j = next THEN prev ELSE pv(j)
  <2> SUFFICES ASSUME NEW j \in Slot
               PROVE  /\ price2(j) = IF j = k THEN 0 ELSE price(j)
                      /\ nx2(j) = IF j = k THEN NULL_INDEX ELSE IF j = prev THEN next ELSE nx(j)
                      /\ pv2(j) = IF j = k THEN NULL_INDEX ELSE IF j = next THEN prev ELSE pv(j)
    OBVIOUS
  <2>1. CASE j = k
    <3>1. level'["bid"][j] = InitBid
      BY <1>2, <2>1
    <3>2. InitBid.price = 0 /\ InitBid.next = NULL_INDEX /\ InitBid.prev = NULL_INDEX
      BY DEF InitBid
    <3>3. QED
      BY <2>1, <3>1, <3>2
  <2>2. CASE j # k /\ j = prev
    <3>1. j # next
      BY <1>6, <2>2
    <3>4. level'["bid"][j] = [level["bid"][j] EXCEPT !.next = next]
      BY <1>2, <2>2
    <3>2. QED
      BY <1>1, <1>6, <2>2, <3>1, <3>4, RelinkType
  <2>3. CASE j # k /\ j # prev /\ j = next
    <3>1. level'["bid"][j] = [level["bid"][j] EXCEPT !.prev = prev]
      BY <1>2, <2>3
    <3>2. QED
      BY <1>1, <1>6, <2>3, <3>1, RelinkType
  <2>4. CASE j # k /\ j # prev /\ j # next
    BY <1>2, <2>4
  <2>5. QED
    BY <2>1, <2>2, <2>3, <2>4
<1>8. \A j \in Slot : own2(j) = IF j = k THEN NoStock ELSE own(j)
  BY DEF FreeBid
<1>9. \A s \in Stocks :
        /\ best2(s) = IF s = s0 /\ prev = NULL_INDEX THEN next ELSE best(s)
        /\ worst2(s) = IF s = s0 /\ next = NULL_INDEX THEN prev ELSE worst(s)
  <2>1. list' = [list EXCEPT !["bid"][s0] =
          [number |-> list["bid"][s0].number - 1,
           best |-> IF prev >= 0 THEN best(s0) ELSE next,
           worst |-> IF next >= 0 THEN worst(s0) ELSE prev]]
    BY DEF FreeBid
  <2>2. (prev >= 0 <=> prev # NULL_INDEX) /\ (next >= 0 <=> next # NULL_INDEX)
    BY <1>6
  <2>3. QED
    BY <2>1, <2>2
<1>10. \A j \in Slot : used2(j) <=> j # k /\ used(j)
  BY <1>7
<1> HIDE DEF price, nx, pv, own, best, worst, used, left2, prev, next, s0,
             price2, nx2, pv2, own2, best2, worst2, used2
<1>11. prev = pv(k) /\ next = nx(k)
  BY DEF prev, next
<1>12. ASSUME NEW j \in Slot, used2(j) PROVE
        /\ own2(j) \in Stocks
        /\ IF nx2(j) = NULL_INDEX THEN worst2(own2(j)) = j
           ELSE /\ nx2(j) \in Slot /\ used2(nx2(j)) /\ own2(nx2(j)) = own2(j) /\ pv2(nx2(j)) = j
                /\ price2(j) > price2(nx2(j))
        /\ IF pv2(j) = NULL_INDEX THEN best2(own2(j)) = j
           ELSE /\ pv2(j) \in Slot /\ used2(pv2(j)) /\ own2(pv2(j)) = own2(j) /\ nx2(pv2(j)) = j
                /\ price2(pv2(j)) > price2(j)
  <2>1. CASE j = prev
    BY SMTT(40), <1>1, <1>3, <1>4, <1>5, <1>6, <1>7, <1>8, <1>9, <1>10, <1>11, <1>12, <2>1
  <2>2. CASE j # prev /\ j = next
    BY SMTT(40), <1>1, <1>3, <1>4, <1>5, <1>6, <1>7, <1>8, <1>9, <1>10, <1>11, <1>12, <2>2
  <2>3. CASE j # prev /\ j # next
    <3>1. used(j) /\ j # k /\ nx2(j) = nx(j) /\ pv2(j) = pv(j) /\ own2(j) = own(j) /\ price2(j) = price(j)
      BY <1>7, <1>8, <1>10, <1>12, <2>3
    <3>2. nx(j) # NULL_INDEX => nx(j) # k /\ nx(j) \in Slot
      BY <1>3, <1>11, <2>3, <3>1
    <3>3. pv(j) # NULL_INDEX => pv(j) # k /\ pv(j) \in Slot
      BY <1>3, <1>11, <2>3, <3>1
    <3>4. /\ own2(j) \in Stocks
          /\ IF nx2(j) = NULL_INDEX THEN worst2(own2(j)) = j
             ELSE /\ nx2(j) \in Slot /\ used2(nx2(j)) /\ own2(nx2(j)) = own2(j)
                  /\ price2(j) > price2(nx2(j))
      BY <1>3, <1>6, <1>7, <1>8, <1>9, <1>10, <1>11, <2>3, <3>1, <3>2
    <3>5. /\ IF pv2(j) = NULL_INDEX THEN best2(own2(j)) = j
             ELSE /\ pv2(j) \in Slot /\ used2(pv2(j)) /\ own2(pv2(j)) = own2(j)
                  /\ price2(pv2(j)) > price2(j)
      BY <1>3, <1>6, <1>7, <1>8, <1>9, <1>10, <1>11, <2>3, <3>1, <3>3
    <3>6. nx(j) # NULL_INDEX => pv2(nx(j)) = j
      BY <1>3, <1>6, <1>7, <1>11, <2>3, <3>1, <3>2
    <3>7. pv(j) # NULL_INDEX => nx2(pv(j)) = j
      BY <1>3, <1>6, <1>7, <1>11, <2>3, <3>1, <3>3
    <3>8. QED
      BY <3>1, <3>4, <3>5, <3>6, <3>7
  <2>4. QED
    BY <2>1, <2>2, <2>3
<1>13. ASSUME NEW s \in Stocks PROVE
        /\ best2(s) = NULL_INDEX <=> worst2(s) = NULL_INDEX
        /\ best2(s) # NULL_INDEX => used2(best2(s)) /\ own2(best2(s)) = s /\ pv2(best2(s)) = NULL_INDEX
        /\ worst2(s) # NULL_INDEX => used2(worst2(s)) /\ own2(worst2(s)) = s /\ nx2(worst2(s)) = NULL_INDEX
  <2>1. CASE s # s0
    <3>1. /\ prev # NULL_INDEX => own(prev) = s0
          /\ next # NULL_INDEX => own(next) = s0
      BY <1>3, <1>6, <1>11
    <3>2. /\ best(s) # NULL_INDEX => best(s) \in Slot /\ best(s) \notin {k, prev, next}
          /\ worst(s) # NULL_INDEX => worst(s) \in Slot /\ worst(s) \notin {k, prev, next}
      BY <1>4, <1>5, <1>6, <2>1, <3>1
    <3>3. best2(s) = best(s) /\ worst2(s) = worst(s)
      BY <1>9, <2>1
    <3>4. QED
      BY <1>5, <1>7, <1>8, <1>10, <3>2, <3>3
  <2>2. CASE s = s0
    <3>1. best(s) = k <=> prev = NULL_INDEX
      BY <1>3, <1>4, <1>5, <1>6, <1>11, <2>2
    <3>2. worst(s) = k <=> next = NULL_INDEX
      BY <1>3, <1>4, <1>5, <1>6, <1>11, <2>2
    <3>3. prev # NULL_INDEX => used(prev) /\ own(prev) = s /\ nx(prev) = k
      BY <1>3, <1>6, <1>11, <2>2
    <3>4. next # NULL_INDEX => used(next) /\ own(next) = s /\ pv(next) = k
      BY <1>3, <1>6, <1>11, <2>2
    <3>5. best2(s) # NULL_INDEX => used2(best2(s)) /\ own2(best2(s)) = s /\ pv2(best2(s)) = NULL_INDEX
      BY <1>4, <1>5, <1>6, <1>7, <1>8, <1>9, <1>10, <2>2, <3>1, <3>4
    <3>6. worst2(s) # NULL_INDEX => used2(worst2(s)) /\ own2(worst2(s)) = s /\ nx2(worst2(s)) = NULL_INDEX
      BY <1>4, <1>5, <1>6, <1>7, <1>8, <1>9, <1>10, <2>2, <3>2, <3>3
    <3>7. best2(s) = NULL_INDEX <=> worst2(s) = NULL_INDEX
      BY <1>4, <1>5, <1>6, <1>9, <2>2, <3>1, <3>2, <3>3, <3>4
    <3>8. QED
      BY <3>5, <3>6, <3>7
  <2>3. QED
    BY <2>1, <2>2
<1>14. ASSUME NEW j \in Slot, Used("bid", j)' PROVE InList("bid", j)'
  BY <1>12, <1>14 DEF InList, Neighbours, Used, Ahead, price2, nx2, pv2, own2, best2, worst2, used2
<1>15. ASSUME NEW s \in Stocks PROVE EndsOf("bid", s)'
  BY <1>13 DEF EndsOf, Used, price2, nx2, pv2, own2, best2, worst2, used2
<1>16. QED
  BY <1>14, <1>15 DEF SideLinked

(***************************************************************************)
(* The orders of the table and the levels they are in.                     *)
(***************************************************************************)
Rows == [kind : Kinds, priceLevel : Slot \cup {NULL_INDEX}, orderQty : Int]

\* Order n was put into a level, and a buy is still in it unless the level was freed.
InLevel(n) ==
  /\ BidOf(n) \in Slot
  /\ placed[n + 1].kind.side = "bid" /\ n \notin freed =>
       Used("bid", BidOf(n)) /\ owner["bid"][BidOf(n)] = TheStock

Numbered ==
  /\ phase \in TradePhases
  /\ left \in [orders : Int, withdrawals : Int, phases : Int]
  /\ nextOrder + left.orders <= OrderMax
  /\ placed \in Seq(Rows) /\ Len(placed) = nextOrder
  /\ pc # "idle" => order.stock = TheStock /\ order.side = placed[nextOrder].kind.side

AllInLevels == \A n \in 0..Len(placed) - 1 : pc = "idle" \/ n + 1 < Len(placed) => InLevel(n)

LifeInv == ListInv /\ Numbered /\ AllInLevels

LEMMA TheStockKnown == TheStock \in Stocks
BY LifeAssumption DEF TheStock

\* What an order shows is a number.
LEMMA ShownType ==
  ASSUME NEW o \in Kinds
  PROVE  Shown(o) \in Int
BY DEF Shown, Kinds

\* A new order is one PriceBook knows.
LEMMA AddOrderEnters ==
  ASSUME LifeInv, AddOrder
  PROVE  /\ UpdateByOrder
         /\ Numbered'
         /\ \A n \in 0..Len(placed) - 1 : placed'[n + 1] = placed[n + 1]
<1>1. pc = "idle" /\ left.orders > 0 /\ nextOrder \in Nat /\ nextOrder < OrderMax
  BY OrderAssumption DEF AddOrder, LifeInv, ListInv, TypeInv, TypeOK, Numbered
<1> DEFINE coming(o) == [side |-> o.side, stock |-> TheStock, price |-> o.price,
                         balance |-> Shown(o), inPhase |-> Counts(o)]
           row(o) == [kind |-> o, priceLevel |-> NULL_INDEX, orderQty |-> 0]
<1>2. PICK o \in OrderKinds : Enter(coming(o)) /\ placed' = Append(placed, row(o))
  BY DEF AddOrder
<1>3. o \in Kinds /\ Shown(o) \in Quantities /\ Counts(o) \in Phases
  BY KindAssumption DEF LifeInv, Numbered, Counts
<1>4. coming(o) \in Orders
  BY <1>3, TheStockKnown DEF Orders, Kinds
<1>5. UpdateByOrder
  BY <1>1, <1>2, <1>4 DEF UpdateByOrder
<1>6. placed \in Seq(Rows) /\ Len(placed) = nextOrder
  BY DEF LifeInv, Numbered
<1>7. row(o) \in Rows
  BY <1>3 DEF Rows
<1> HIDE DEF row
<1>8. placed' \in Seq(Rows) /\ Len(placed') = nextOrder + 1 /\ placed'[nextOrder + 1] = row(o)
      /\ \A n \in 0..Len(placed) - 1 : placed'[n + 1] = placed[n + 1]
  BY <1>1, <1>2, <1>6, <1>7
<1>9. order' = coming(o) /\ nextOrder' = nextOrder + 1 /\ phase' = phase
      /\ left' = [left EXCEPT !.orders = left.orders - 1]
  BY <1>2 DEF AddOrder, Enter, PushOrder
<1>10. left' \in [orders : Int, withdrawals : Int, phases : Int] /\ nextOrder' + left'.orders <= OrderMax
  <2>1. left \in [orders : Int, withdrawals : Int, phases : Int] /\ nextOrder + left.orders <= OrderMax
    BY DEF LifeInv, Numbered
  <2>2. QED
    BY <1>1, <1>9, <2>1, OrderAssumption
<1>11. order'.stock = TheStock /\ order'.side = placed'[nextOrder'].kind.side
  BY <1>8, <1>9 DEF row
<1>12. QED
  BY <1>5, <1>8, <1>9, <1>10, <1>11 DEF LifeInv, Numbered

\* A step of the walk leaves every order where it is, and puts the new one into a level.
LEMMA AttachKeeps ==
  ASSUME LifeInv, Attach
  PROVE  Walk /\ Numbered' /\ AllInLevels'
<1>1. DataTypes /\ order.side \in Side /\ order.stock \in Stocks /\ TypeInv
  BY DEF LifeInv, ListInv, TypeInv, TypeOK, Orders
<1>2. Walk /\ pc # "idle"
  BY DEF Attach, Walk, WalkOn, UpdateNode, NeedLevel, SkipUsed, InsertNode, LevelsExhausted
<1>3. order.price > 0
  BY <1>1, Positive DEF Orders
<1>4. \A k \in Slot :
        /\ Used("bid", k) => Used("bid", k)' /\ owner'["bid"][k] = owner["bid"][k]
        /\ InsertNode /\ order.side = "bid" /\ k = nextLevel["bid"] =>
             Used("bid", k)' /\ owner'["bid"][k] = order.stock
  BY <1>1, <1>2, <1>3, WalkFills, InsertFills DEF Used, Kept, Taken
<1>5. nextOrder > 0 /\ nextOrder \in Nat /\ order' = order /\ nextOrder' = nextOrder
  BY <1>1, <1>2, OrderAssumption
     DEF Walk, WalkOn, UpdateNode, NeedLevel, SkipUsed, InsertNode, LevelsExhausted, Stays
<1>6. /\ placed \in Seq(Rows) /\ Len(placed) = nextOrder
      /\ order.stock = TheStock /\ order.side = placed[nextOrder].kind.side
  BY <1>2 DEF LifeInv, Numbered
<1>7. \A n \in 0..Len(placed) - 1 : n + 1 < Len(placed) => InLevel(n)
  BY DEF LifeInv, AllInLevels
<1>8. CASE UNCHANGED lifeVars /\ pc' # "idle"
  <2>1. UNCHANGED <<placed, phase, left, freed>>
    BY <1>8 DEF lifeVars, historyVars
  <2>2. Numbered'
    BY <1>5, <1>6, <2>1 DEF LifeInv, Numbered
  <2>3. ASSUME NEW n \in 0..Len(placed') - 1, n + 1 < Len(placed') PROVE InLevel(n)'
    <3>1. InLevel(n)
      BY <1>7, <2>1, <2>3
    <3>2. QED
      BY <1>4, <2>1, <3>1 DEF InLevel, BidOf
  <2>4. AllInLevels'
    BY <1>8, <2>3, Zenon DEF AllInLevels
  <2>5. QED
    BY <1>2, <2>2, <2>4
<1>9. ASSUME NEW k \in Slot, Attached(k), pc' = "idle",
             order.side = "bid" => Used("bid", k)' /\ owner'["bid"][k] = TheStock
      PROVE  Numbered' /\ AllInLevels'
  <2>1. placed' = [placed EXCEPT ![nextOrder].priceLevel = k] /\ UNCHANGED <<phase, left, freed>>
    BY <1>6, <1>9 DEF Attached
  <2>2. \A i \in 1..nextOrder : placed[i] \in Rows
    BY <1>5, <1>6
  <2>3. nextOrder \in 1..Len(placed)
    BY <1>5, <1>6
  <2>4. /\ placed' \in Seq(Rows) /\ Len(placed') = nextOrder
        /\ \A i \in 1..nextOrder : placed'[i].kind = placed[i].kind
        /\ \A i \in 1..nextOrder : placed'[i].priceLevel = IF i = nextOrder THEN k ELSE placed[i].priceLevel
    <3>1. [placed[nextOrder] EXCEPT !.priceLevel = k] \in Rows
          /\ [placed[nextOrder] EXCEPT !.priceLevel = k].kind = placed[nextOrder].kind
          /\ [placed[nextOrder] EXCEPT !.priceLevel = k].priceLevel = k
      BY <1>6, <2>2, <2>3 DEF Rows
    <3> DEFINE row == [placed[nextOrder] EXCEPT !.priceLevel = k]
    <3>2. placed' = [placed EXCEPT ![nextOrder] = row]
      BY <2>1
    <3> HIDE DEF row
    <3>3. placed' \in Seq(Rows) /\ Len(placed') = nextOrder
          /\ \A i \in 1..nextOrder : placed'[i] = IF i = nextOrder THEN row ELSE placed[i]
      BY <1>6, <2>3, <3>1, <3>2 DEF row
    <3>4. QED
      BY <3>1, <3>3 DEF row
  <2>5. Numbered'
    BY <1>5, <1>9, <2>1, <2>4 DEF LifeInv, Numbered
  <2>6. ASSUME NEW n \in 0..Len(placed') - 1 PROVE InLevel(n)'
    <3>1. n + 1 \in 1..nextOrder
      BY <1>5, <2>4
    <3>2. CASE n + 1 = nextOrder
      <4>1. BidOf(n)' = k /\ placed'[n + 1].kind.side = order.side
        BY <1>6, <2>4, <3>1, <3>2 DEF BidOf
      <4>2. QED
        BY <1>9, <4>1 DEF InLevel
    <3>3. CASE n + 1 # nextOrder
      <4>1. InLevel(n) /\ BidOf(n)' = BidOf(n) /\ placed'[n + 1].kind = placed[n + 1].kind
        BY <1>5, <1>6, <1>7, <2>4, <3>1, <3>3 DEF BidOf
      <4>2. QED
        BY <1>4, <2>1, <4>1 DEF InLevel
    <3>4. QED
      BY <3>2, <3>3
  <2>7. QED
    BY <2>5, <2>6 DEF AllInLevels
<1>10. CASE UpdateNode /\ Attached(index)
  <2>1. PICK k \in Slot : k = index
    BY <1>1, <1>10 DEF UpdateNode
  <2>2. order.side = "bid" => Used("bid", k) /\ owner["bid"][k] = TheStock
    BY <1>6, <1>10, <2>1 DEF UpdateNode, LifeInv, ListInv, Cursor
  <2>4. Attached(k) /\ pc' = "idle"
    BY <1>10, <2>1 DEF UpdateNode
  <2>3. QED
    <3>1. order.side = "bid" => Used("bid", k)' /\ owner'["bid"][k] = TheStock
      BY <1>4, <2>2
    <3>2. QED
      BY <1>2, <1>9, <2>4, <3>1
<1>11. CASE InsertNode /\ Attached(nextLevel[order.side])
  <2>1. PICK k \in Slot : k = nextLevel[order.side]
    BY <1>1, <1>11 DEF InsertNode, TypeInv
  <2>2. Attached(k) /\ pc' = "idle"
    BY <1>11, <2>1 DEF InsertNode
  <2>3. QED
    <3>1. order.side = "bid" => Used("bid", k)' /\ owner'["bid"][k] = TheStock
      BY <1>4, <1>6, <1>11, <2>1
    <3>2. QED
      BY <1>2, <1>9, <2>2, <3>1
<1>12. QED
  <2>1. WalkOn \/ NeedLevel \/ SkipUsed \/ LevelsExhausted => pc' # "idle"
    BY DEF WalkOn, NeedLevel, SkipUsed, LevelsExhausted
  <2>2. QED
    BY <1>2, <1>8, <1>10, <1>11, <2>1 DEF Attach

\* The book as a withdrawal finds it and leaves it: nothing but levels, ends and owners change.
LEMMA BookAfterWithdraw ==
  ASSUME TypeInv, pc = "idle",
         UNCHANGED <<nextLevel, nextPrice, index, scanned, pc>>, Stays,
         level' \in [Side -> [Slot -> Levels]],
         list' \in [Side -> [Stocks -> Ends]],
         owner' \in [Side -> [Slot -> Stocks \cup {NoStock}]],
         LevelsLinked'
  PROVE  ListInv'
BY DEF ListInv, TypeInv, TypeOK, Cursor, Stays

\* Changing an amount changes no link.
LEMMA AmountOnly ==
  ASSUME DataTypes, NEW side \in Side, NEW k \in Slot, NEW amount \in Int,
         level' = [level EXCEPT ![side][k].orderAmount = amount]
  PROVE  /\ level' \in [Side -> [Slot -> Levels]]
         /\ \A d \in Side, j \in Slot : /\ level'[d][j].price = level[d][j].price
                                      /\ level'[d][j].next = level[d][j].next
                                      /\ level'[d][j].prev = level[d][j].prev
<1>1. PICK r \in Levels : r = level[side][k]
  OBVIOUS
<1> DEFINE l == [r EXCEPT !.orderAmount = amount]
<1>2. l.price = r.price /\ l.next = r.next /\ l.prev = r.prev
  BY DEF Levels
<1>3. l \in Levels
  BY DEF Levels
<1>4. level' = [level EXCEPT ![side][k] = l]
  BY <1>1
<1> HIDE DEF l
<1> DEFINE row == [level[side] EXCEPT ![k] = l]
<1>5. row \in [Slot -> Levels] /\ \A j \in Slot : row[j] = IF j = k THEN l ELSE level[side][j]
  BY <1>3
<1>6. level' = [level EXCEPT ![side] = row]
  BY <1>4
<1> HIDE DEF row
<1>8. \A d \in Side : level'[d] = IF d = side THEN row ELSE level[d]
  BY <1>6
<1>9. level' \in [Side -> [Slot -> Levels]]
  BY <1>5, <1>6
<1>10. QED
  BY <1>1, <1>2, <1>5, <1>8, <1>9

\* UpdateBidByWithdraw, of an order that is in its level.
LEMMA BidWithdrawn ==
  ASSUME LifeInv, pc = "idle", NEW n \in 0..Len(placed) - 1,
         placed[n + 1].kind.side = "bid", n \notin freed,
         UpdateBidByWithdraw(n), UNCHANGED placed
  PROVE  /\ level' \in [Side -> [Slot -> Levels]]
         /\ list' \in [Side -> [Stocks -> Ends]]
         /\ owner' \in [Side -> [Slot -> Stocks \cup {NoStock}]]
         /\ LevelsLinked'
         /\ \A m \in 0..Len(placed) - 1 : InLevel(m)'
<1> DEFINE o == placed[n + 1].kind
           k == BidOf(n)
<1>1. DataTypes /\ LevelsLinked /\ SideLinked("bid") /\ SideLinked("offer")
  BY DEF LifeInv, ListInv, TypeInv, TypeOK, LevelsLinked, SideLinked
<1>2. \A m \in 0..Len(placed) - 1 : InLevel(m)
  BY DEF LifeInv, AllInLevels
<1>3. k \in Slot /\ Used("bid", k) /\ owner["bid"][k] = TheStock
  BY <1>2 DEF InLevel
<1>4. TheStock \in Stocks
  BY TheStockKnown
<1>5. CASE FreeBid(k) /\ freed' = freed \cup {m \in 0..Len(placed) - 1 :
                                     placed[m + 1].kind.side = "bid" /\ BidOf(m) = k}
  <2> DEFINE l == level["bid"][k]
             linked(j) == IF j = k THEN InitBid
                          ELSE IF j = l.prev THEN [level["bid"][j] EXCEPT !.next = l.next]
                          ELSE IF j = l.next THEN [level["bid"][j] EXCEPT !.prev = l.prev]
                          ELSE level["bid"][j]
             ends == [number |-> list["bid"][TheStock].number - 1,
                      best |-> IF l.prev >= 0 THEN list["bid"][TheStock].best ELSE l.next,
                      worst |-> IF l.next >= 0 THEN list["bid"][TheStock].worst ELSE l.prev]
  <2>1. /\ level' = [level EXCEPT !["bid"] = [j \in Slot |-> linked(j)]]
        /\ list' = [list EXCEPT !["bid"][TheStock] = ends]
        /\ owner' = [owner EXCEPT !["bid"][k] = NoStock]
    BY <1>5 DEF FreeBid
  <2>2. /\ InitBid \in Levels /\ InitBid.price = 0
        /\ \A j \in Slot : level["bid"][j] \in Levels
    <3>1. InitBid \in Levels
      BY DEF InitBid, Levels
    <3>2. InitBid.price = 0
      BY DEF InitBid
    <3>3. QED
      BY <1>1, <3>1, <3>2
  <2>3. l.next \in Slot \cup {NULL_INDEX} /\ l.prev \in Slot \cup {NULL_INDEX}
    BY <1>1, <1>3 DEF SideLinked, InList
  <2>4. \A j \in Slot : linked(j) \in Levels /\ (j # k => linked(j).price = level["bid"][j].price)
    <3> HIDE DEF l
    <3> SUFFICES ASSUME NEW j \in Slot
                 PROVE  linked(j) \in Levels /\ (j # k => linked(j).price = level["bid"][j].price)
      OBVIOUS
    <3>1. /\ [level["bid"][j] EXCEPT !.next = l.next] \in Levels
          /\ [level["bid"][j] EXCEPT !.next = l.next].price = level["bid"][j].price
          /\ [level["bid"][j] EXCEPT !.prev = l.prev] \in Levels
          /\ [level["bid"][j] EXCEPT !.prev = l.prev].price = level["bid"][j].price
      BY ZenonT(40), <2>2, <2>3, RelinkType
    <3>2. QED
      BY <2>2, <3>1
  <2>5. ends \in Ends
    BY <1>1, <1>4, <2>3 DEF Ends
  <2> HIDE DEF linked, ends, l
  <2>6. [j \in Slot |-> linked(j)] \in [Slot -> Levels]
    BY <2>4
  <2>7. level' \in [Side -> [Slot -> Levels]] /\ level'["offer"] = level["offer"]
        /\ \A j \in Slot : level'["bid"][j] = linked(j)
    BY <1>1, <2>1, <2>6
  <2>8. list' \in [Side -> [Stocks -> Ends]] /\ list'["offer"] = list["offer"]
    BY <1>1, <1>4, <2>1, <2>5
  <2>9. owner' \in [Side -> [Slot -> Stocks \cup {NoStock}]] /\ owner'["offer"] = owner["offer"]
        /\ \A j \in Slot : j # k => owner'["bid"][j] = owner["bid"][j]
    BY <1>1, <1>3, <2>1
  <2>10. SideLinked("bid")'
    BY <1>1, <1>3, <1>4, <1>5, UnlinkKeepsLists
  <2>11. SideLinked("offer")'
    BY <1>1, <2>7, <2>8, <2>9, SideUntouched DEF Side
  <2>12. LevelsLinked'
    BY <2>10, <2>11 DEF LevelsLinked, SideLinked
  <2>13. ASSUME NEW m \in 0..Len(placed) - 1 PROVE InLevel(m)'
    <3>1. BidOf(m)' = BidOf(m) /\ placed' = placed
      BY DEF BidOf
    <3>2. CASE placed[m + 1].kind.side = "bid" /\ m \notin freed'
      <4>1. BidOf(m) # k /\ m \notin freed
        BY <1>5, <3>2
      <4>2. BidOf(m) \in Slot /\ Used("bid", BidOf(m)) /\ owner["bid"][BidOf(m)] = TheStock
        BY <1>2, <3>2, <4>1 DEF InLevel
      <4>3. QED
        BY <2>4, <2>7, <2>9, <3>1, <4>1, <4>2 DEF InLevel, Used
    <3>3. CASE ~(placed[m + 1].kind.side = "bid" /\ m \notin freed')
      BY <1>2, <3>1, <3>3 DEF InLevel
    <3>4. QED
      BY <3>2, <3>3
  <2>14. QED
    BY <2>7, <2>8, <2>9, <2>12, <2>13
<1>6. CASE /\ level' = [level EXCEPT !["bid"][k].orderAmount = IF Counts(o) THEN @ - Shown(o) ELSE @]
           /\ UNCHANGED <<list, owner, freed>>
  <2> DEFINE amount == IF Counts(o) THEN level["bid"][k].orderAmount - Shown(o)
                       ELSE level["bid"][k].orderAmount
  <2>1. placed[n + 1] \in Rows
    BY DEF LifeInv, Numbered
  <2>2. Shown(o) \in Int
    BY <2>1, ShownType DEF Rows
  <2>3. level["bid"][k].orderAmount \in Int
    BY <1>1, <1>3 DEF Levels
  <2>4. amount \in Int
    BY <2>2, <2>3
  <2>5. level' = [level EXCEPT !["bid"][k].orderAmount = amount]
    BY <1>6
  <2> HIDE DEF amount
  <2>6. /\ level' \in [Side -> [Slot -> Levels]]
        /\ \A d \in Side, j \in Slot : /\ level'[d][j].price = level[d][j].price
                                     /\ level'[d][j].next = level[d][j].next
                                     /\ level'[d][j].prev = level[d][j].prev
    BY <1>1, <1>3, <2>4, <2>5, AmountOnly
  <2>7. LevelsLinked'
    BY <1>1, <1>6, <2>6, AmountsNotLinked
  <2>8. ASSUME NEW m \in 0..Len(placed) - 1 PROVE InLevel(m)'
    <3>1. InLevel(m) /\ BidOf(m)' = BidOf(m)
      BY <1>2 DEF BidOf
    <3>2. QED
      BY <1>6, <2>6, <3>1 DEF InLevel, Used
  <2>9. QED
    BY <1>1, <1>6, <2>6, <2>7, <2>8
<1>7. QED
  BY <1>5, <1>6 DEF UpdateBidByWithdraw

\* Cancelling and deleting: the buy is taken out of its level, the sell out of nothing.
LEMMA RemovedKeeps ==
  ASSUME LifeInv, pc = "idle", ~stale', NEW n \in 0..Len(placed) - 1, Removed(n), UNCHANGED placed
  PROVE  /\ level' \in [Side -> [Slot -> Levels]]
         /\ list' \in [Side -> [Stocks -> Ends]]
         /\ owner' \in [Side -> [Slot -> Stocks \cup {NoStock}]]
         /\ LevelsLinked'
         /\ \A m \in 0..Len(placed) - 1 : InLevel(m)'
<1>1. DataTypes /\ LevelsLinked
  BY DEF LifeInv, ListInv, TypeInv, TypeOK
<1>2. CASE placed[n + 1].kind.side = "bid"
  <2>1. UpdateBidByWithdraw(n)
    BY <1>2 DEF Removed, DetachOrder
  <2>2. n \notin freed
    <3>1. stale' = (stale \/ (placed[n + 1].kind.side = "bid" /\ n \in freed))
      BY Zenon DEF Removed, DetachOrder
    <3>2. QED
      BY <1>2, <3>1, Zenon
  <2>3. QED
    BY <1>2, <2>1, <2>2, BidWithdrawn
<1>3. CASE placed[n + 1].kind.side # "bid"
  <2>1. UNCHANGED <<level, list, owner, freed>>
    BY <1>3 DEF Removed, DetachOrder
  <2>2. LevelsLinked'
    BY <1>1, <2>1, ListsUntouched
  <2>3. ASSUME NEW m \in 0..Len(placed) - 1 PROVE InLevel(m)'
    <3>1. InLevel(m) /\ BidOf(m)' = BidOf(m)
      BY DEF LifeInv, AllInLevels, BidOf
    <3>2. QED
      BY <2>1, <3>1 DEF InLevel, Used
  <2>4. QED
    BY <1>1, <2>1, <2>2, <2>3
<1>4. QED
  BY <1>2, <1>3

\* Changing an order in place: only the amount of its level changes.
LEMMA ModifyKeeps ==
  ASSUME LifeInv, pc = "idle", NEW n \in 0..Len(placed) - 1, ModifyOrder(n)
  PROVE  /\ level' \in [Side -> [Slot -> Levels]]
         /\ UNCHANGED <<list, owner>>
         /\ LevelsLinked'
         /\ placed' \in Seq(Rows) /\ Len(placed') = Len(placed)
         /\ \A m \in 0..Len(placed) - 1 : InLevel(m)'
<1> DEFINE o == placed[n + 1].kind
           k == BidOf(n)
           o2(q, t) == [[o EXCEPT !.balance = q] EXCEPT !.type = t]
<1>1. DataTypes /\ LevelsLinked /\ placed \in Seq(Rows)
  BY DEF LifeInv, ListInv, TypeInv, TypeOK, Numbered
<1>2. PICK q \in Quantities, t \in NewTypes :
        /\ placed' = [placed EXCEPT ![n + 1].kind = o2(q, t), ![n + 1].orderQty = @ + q - o.balance]
        /\ level' = IF o.ice \/ ~Counts(o) THEN level
                    ELSE [level EXCEPT ![o.side][k].orderAmount = @ + q - o.balance]
        /\ UNCHANGED <<list, owner, freed>>
  BY ZenonT(40) DEF ModifyOrder
<1>3. \A m \in 0..Len(placed) - 1 : InLevel(m)
  BY DEF LifeInv, AllInLevels
<1>4. q \in Nat /\ t \in STRING
  BY QuantityAssumption, KindAssumption
<1>5. n + 1 \in 1..Len(placed)
  BY <1>1
<1>6. PICK row \in Rows : row = placed[n + 1]
  BY <1>1, <1>5
<1>7. o = row.kind /\ o \in Kinds /\ row.orderQty \in Int
  BY <1>6 DEF Rows
<1>8. o2(q, t) \in Kinds /\ o2(q, t).side = o.side
  <2> HIDE DEF o
  <2>1. PICK half : half = [o EXCEPT !.balance = q]
    OBVIOUS
  <2>2. half \in Kinds /\ half.side = o.side
    BY <1>4, <1>7, <2>1 DEF Kinds
  <2>3. [half EXCEPT !.type = t] \in Kinds /\ [half EXCEPT !.type = t].side = half.side
    BY <1>4, <2>2 DEF Kinds
  <2>4. QED
    BY <2>1, <2>2, <2>3
<1>9. o.balance \in Int /\ o.side \in Side
  BY <1>7 DEF Kinds
<1> HIDE DEF o, o2
<1> DEFINE kind2 == o2(q, t)
           row2 == [[row EXCEPT !.kind = kind2] EXCEPT !.orderQty = row.orderQty + q - o.balance]
<1>10. row2 \in Rows /\ row2.kind = kind2 /\ row2.priceLevel = row.priceLevel
  <2> HIDE DEF kind2
  <2>1. PICK half : half = [row EXCEPT !.kind = kind2]
    OBVIOUS
  <2>2. half \in Rows /\ half.kind = kind2 /\ half.priceLevel = row.priceLevel
    BY <1>8, <2>1 DEF Rows, kind2
  <2>3. PICK qty \in Int : qty = row.orderQty + q - o.balance
    BY <1>4, <1>7, <1>9
  <2>4. /\ [half EXCEPT !.orderQty = qty] \in Rows /\ [half EXCEPT !.orderQty = qty].kind = half.kind
        /\ [half EXCEPT !.orderQty = qty].priceLevel = half.priceLevel
    BY <2>2 DEF Rows
  <2>5. QED
    BY <2>1, <2>2, <2>3, <2>4
<1>11. placed' = [placed EXCEPT ![n + 1] = row2]
  BY <1>1, <1>2, <1>5, <1>6 DEF o
<1> HIDE DEF row2, kind2, k
<1>12. placed' \in Seq(Rows) /\ Len(placed') = Len(placed)
       /\ \A i \in 1..Len(placed) : placed'[i] = IF i = n + 1 THEN row2 ELSE placed[i]
  BY <1>1, <1>5, <1>10, <1>11
<1>13. ASSUME NEW m \in 0..Len(placed) - 1
       PROVE  BidOf(m)' = BidOf(m) /\ placed'[m + 1].kind.side = placed[m + 1].kind.side
  <2>1. m + 1 \in 1..Len(placed)
    BY <1>1
  <2>2. CASE m = n
    BY <1>6, <1>7, <1>8, <1>10, <1>12, <2>1, <2>2 DEF BidOf, kind2
  <2>3. CASE m # n
    BY <1>12, <2>1, <2>3 DEF BidOf
  <2>4. QED
    BY <2>2, <2>3
<1>14. k \in Slot
  BY <1>3 DEF InLevel, k
<1>15. PICK amount \in Int : level' = [level EXCEPT ![o.side][k].orderAmount = amount]
  <2>1. level[o.side][k] \in Levels
    BY <1>1, <1>9, <1>14
  <2>2. level[o.side][k].orderAmount \in Int
    BY <2>1 DEF Levels
  <2>3. CASE level' = level
    <3>1. [level[o.side][k] EXCEPT !.orderAmount = level[o.side][k].orderAmount] = level[o.side][k]
      BY <2>1 DEF Levels
    <3>2. level = [level EXCEPT ![o.side][k] = level[o.side][k]]
      BY <1>1, <1>9, <1>14
    <3>3. QED
      BY <2>2, <2>3, <3>1, <3>2
  <2>4. CASE level' = [level EXCEPT ![o.side][k].orderAmount = @ + q - o.balance]
    <3>1. PICK amount \in Int : amount = level[o.side][k].orderAmount + q - o.balance
      BY <1>4, <1>9, <2>2
    <3>2. QED
      BY <2>4, <3>1
  <2>5. QED
    BY <1>2, <2>3, <2>4
<1>16. /\ level' \in [Side -> [Slot -> Levels]]
       /\ \A d \in Side, j \in Slot : /\ level'[d][j].price = level[d][j].price
                                    /\ level'[d][j].next = level[d][j].next
                                    /\ level'[d][j].prev = level[d][j].prev
  BY <1>1, <1>9, <1>14, <1>15, AmountOnly
<1>17. LevelsLinked'
  BY <1>1, <1>2, <1>16, AmountsNotLinked
<1>18. ASSUME NEW m \in 0..Len(placed) - 1 PROVE InLevel(m)'
  <2>1. InLevel(m)
    BY <1>3
  <2>2. QED
    BY ZenonT(40), <1>2, <1>13, <1>16, <2>1 DEF InLevel, Used
<1>19. QED
  BY <1>2, <1>12, <1>16, <1>17, <1>18

LEMMA WithdrawKeeps ==
  ASSUME LifeInv, Withdraw, ~stale'
  PROVE  LifeInv'
<1>1. PICK n \in 0..Len(placed) - 1 : CancelOrder(n) \/ DeleteOrder(n) \/ ModifyOrder(n)
  BY DEF Withdraw
<1>2. /\ pc = "idle" /\ left' = [left EXCEPT !.withdrawals = left.withdrawals - 1] /\ phase' = phase
      /\ UNCHANGED <<nextLevel, nextPrice, index, scanned, pc>> /\ Stays
  BY DEF Withdraw
<1>3. TypeInv /\ DataTypes /\ Numbered
  BY DEF LifeInv, ListInv, TypeInv, TypeOK
<1>4. /\ level' \in [Side -> [Slot -> Levels]]
      /\ list' \in [Side -> [Stocks -> Ends]]
      /\ owner' \in [Side -> [Slot -> Stocks \cup {NoStock}]]
      /\ LevelsLinked'
      /\ placed' \in Seq(Rows) /\ Len(placed') = Len(placed)
      /\ \A m \in 0..Len(placed) - 1 : InLevel(m)'
  <2>1. CASE CancelOrder(n) \/ DeleteOrder(n)
    <3>1. Removed(n) /\ placed' = placed
      BY <2>1 DEF CancelOrder, DeleteOrder, Removed
    <3>2. QED
      BY <1>2, <1>3, <3>1, RemovedKeeps DEF Numbered
  <2>2. CASE ModifyOrder(n)
    BY <1>2, <1>3, <2>2, ModifyKeeps
  <2>3. QED
    BY <1>1, <2>1, <2>2
<1>5. ListInv'
  BY <1>2, <1>3, <1>4, BookAfterWithdraw
<1>6. left' \in [orders : Int, withdrawals : Int, phases : Int] /\ left'.orders = left.orders
  BY SMTT(40), <1>2, <1>3 DEF Numbered
<1>7. Numbered'
  BY <1>2, <1>3, <1>4, <1>6 DEF Numbered, Stays
<1>8. AllInLevels'
  BY <1>4, Zenon DEF AllInLevels
<1>9. QED
  BY <1>5, <1>7, <1>8 DEF LifeInv

\* An order of a freed level may come back at any time; nothing is promised from then on.
LEMMA LifeInductive ==
  ASSUME stale \/ LifeInv, [NextLife]_orderVars
  PROVE  stale' \/ LifeInv'
<1>1. CASE stale
  <2>1. stale => stale'
    <3>1. ASSUME NEW n, Removed(n), stale PROVE stale'
      <4>1. stale' = (stale \/ (placed[n + 1].kind.side = "bid" /\ n \in freed))
        BY <3>1, Zenon DEF Removed, DetachOrder
      <4>2. QED
        BY <3>1, <4>1, Zenon
    <3>2. ASSUME NEW k, Attached(k) PROVE stale' = stale
      BY <3>2 DEF Attached
    <3>3. ASSUME Withdraw, stale PROVE stale'
      <4>1. PICK n \in 0..Len(placed) - 1 : CancelOrder(n) \/ DeleteOrder(n) \/ ModifyOrder(n)
        BY <3>3 DEF Withdraw
      <4>2. CASE CancelOrder(n) \/ DeleteOrder(n)
        BY <3>1, <3>3, <4>2 DEF CancelOrder, DeleteOrder
      <4>3. CASE ModifyOrder(n)
        BY <3>3, <4>3 DEF ModifyOrder
      <4>4. QED
        BY <4>1, <4>2, <4>3
    <3>4. ASSUME Attach PROVE stale' = stale
      BY <3>2, <3>4 DEF Attach, lifeVars, historyVars
    <3>5. ASSUME AddOrder \/ StatusChange \/ UNCHANGED orderVars PROVE stale' = stale
      BY <3>5 DEF AddOrder, StatusChange, orderVars, lifeVars, historyVars
    <3>6. QED
      BY <3>3, <3>4, <3>5 DEF NextLife
  <2>2. QED
    BY <1>1, <2>1
<1>2. CASE LifeInv /\ ~stale'
  <2>1. ListInv /\ Numbered /\ AllInLevels
    BY <1>2 DEF LifeInv
  <2>2. CASE AddOrder
    <3>1. UpdateByOrder /\ Numbered' /\ \A n \in 0..Len(placed) - 1 : placed'[n + 1] = placed[n + 1]
      BY <1>2, <2>2, AddOrderEnters
    <3>2. ListInv'
      BY <2>1, <3>1, ListInductive DEF Next
    <3>3. UNCHANGED <<level, owner, freed>> /\ pc' # "idle" /\ pc = "idle"
      BY <2>2 DEF AddOrder, Enter, PushOrder, historyVars
    <3>4. Len(placed') = Len(placed) + 1 /\ Len(placed) \in Nat
      <4>1. \E row : placed' = Append(placed, row)
        BY <2>2 DEF AddOrder
      <4>2. QED
        BY <2>1, <4>1 DEF Numbered
    <3>5. ASSUME NEW n \in 0..Len(placed') - 1, n + 1 < Len(placed') PROVE InLevel(n)'
      <4>1. n \in 0..Len(placed) - 1
        BY <3>4, <3>5
      <4>2. InLevel(n) /\ BidOf(n)' = BidOf(n) /\ placed'[n + 1] = placed[n + 1]
        BY <2>1, <3>1, <3>3, <4>1 DEF AllInLevels, BidOf
      <4>3. QED
        BY <3>3, <4>2 DEF InLevel, Used
    <3>6. AllInLevels'
      BY <3>3, <3>5, Zenon DEF AllInLevels
    <3>7. QED
      BY <3>1, <3>2, <3>6 DEF LifeInv
  <2>3. CASE Attach
    <3>1. Walk /\ Numbered' /\ AllInLevels'
      BY <1>2, <2>3, AttachKeeps
    <3>2. ListInv'
      BY <2>1, <3>1, ListInductive DEF Next
    <3>3. QED
      BY <3>1, <3>2 DEF LifeInv
  <2>4. CASE Withdraw
    BY <1>2, <2>4, WithdrawKeeps
  <2>5. CASE StatusChange \/ UNCHANGED orderVars
    <3>1. UNCHANGED <<vars, placed, freed>>
      BY <2>5 DEF StatusChange, orderVars, lifeVars, historyVars
    <3>2. ListInv'
      BY <2>1, <3>1, ListInductive
    <3>3. UNCHANGED <<level, owner, nextOrder, order, pc>>
      BY <3>1 DEF vars, book
    <3>4. phase' \in TradePhases /\ left' \in [orders : Int, withdrawals : Int, phases : Int]
          /\ left'.orders = left.orders
      BY <2>1, <2>5 DEF StatusChange, orderVars, lifeVars, Numbered
    <3>5. Numbered'
      BY <2>1, <3>1, <3>3, <3>4 DEF Numbered
    <3>6. ASSUME NEW n \in 0..Len(placed) - 1, InLevel(n) PROVE InLevel(n)'
      BY <3>1, <3>3, <3>6 DEF InLevel, BidOf, Used
    <3>7. placed' = placed /\ pc' = pc
      BY <3>1, <3>3
    <3>8. AllInLevels'
      BY <2>1, <3>6, <3>7, Zenon DEF AllInLevels
    <3>9. QED
      BY <3>2, <3>5, <3>8 DEF LifeInv
  <2>6. QED
    BY <2>2, <2>3, <2>4, <2>5 DEF NextLife
<1>3. QED
  BY <1>1, <1>2

LEMMA LifeInitial ==
  ASSUME InitLife
  PROVE  LifeInv
<1>1. ListInv
  BY ListInitial DEF InitLife
<1>2. nextOrder = 0 /\ pc = "idle" /\ placed = <<>> /\ phase \in TradePhases /\ left \in Bounds
  BY DEF InitLife, Init
<1>3. PICK b \in [orders : 0..OrderMax, withdrawals : Nat, phases : Nat] : b = left
  BY <1>2, LifeAssumption
<1>4. left \in [orders : Int, withdrawals : Int, phases : Int] /\ nextOrder + left.orders <= OrderMax
  BY <1>2, <1>3, OrderAssumption
<1>5. QED
  BY <1>1, <1>2, <1>4 DEF LifeInv, Numbered, AllInLevels

\* Withdrawals may free levels in any order and between any orders, and the phase may
\* change: the lists stay linked, in order and between their ends until an order is
\* withdrawn whose level was freed under it (withdraw.c; price.c:342-410).
THEOREM FreeingKeepsLists == LifeSpec => []LinkedUntilStale
<1>1. stale \/ LifeInv => LinkedUntilStale
  BY DEF LifeInv, ListInv, LinkedUntilStale
<1>2. QED
  BY <1>1, LifeInitial, LifeInductive, PTL DEF LifeSpec
=============================================================================
