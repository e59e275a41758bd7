------------------------------ MODULE MCPriceBook ------------------------------
(***************************************************************************)
(* Model checking PriceBook, and the mapping that shows it implements      *)
(* LimitOrderBook.                                                         *)
(***************************************************************************)
EXTENDS PriceBook, FiniteSets, SequencesExt

\* An order carries its index or the 0 the client sends; the last one, its index.
SomeNumbers == [n \in OrderNo |-> {n} \cup (IF n < OrderMax - 1 THEN {0} ELSE {})]

\* The levels of a stock: the best one, and with each level the one its next leads to.
LevelsOf(side, s) ==
  LET best == list[side][s].best
      HasAll(S) ==
        /\ best # NULL_INDEX => best \in S
        /\ \A k \in S : level[side][k].next # NULL_INDEX => level[side][k].next \in S
  IN  {k \in Slot : \A S \in SUBSET Slot : HasAll(S) => k \in S}

\* Starting with order first, nextPrice leads through the orders of q, and no further.
Follows(q, first) ==
  IF q = <<>> THEN first = NULL_INDEX
  ELSE /\ q[1] = first
       /\ \A i \in 1..Len(q) : nextPrice[q[i]] = IF i = Len(q) THEN NULL_INDEX ELSE q[i + 1]

\* The orders from order first along nextPrice.
Chain(first) == CHOOSE q \in SeqOf(OrderNo, OrderMax) : Follows(q, first)

\* The level a stock has for a price, if any.
LevelsAt(side, s, p) == {k \in LevelsOf(side, s) : level[side][k].price = p}
LevelAt(side, s, p) == level[side][CHOOSE k \in LevelsAt(side, s, p) : TRUE]

\* The numbers of the first and the last order a stock has waiting at a price.
EndsAt(side, s, p) ==
  IF LevelsAt(side, s, p) = {} THEN <<>>
  ELSE <<LevelAt(side, s, p).firstOrder, LevelAt(side, s, p).lastOrder>>

\* All of them, while the orders' numbers are their indices.
QueueAt(side, s, p) ==
  IF LevelsAt(side, s, p) = {} THEN <<>> ELSE Chain(LevelAt(side, s, p).firstOrder)

Places == Side \X Stocks \X Prices

Abstract == INSTANCE LimitOrderBook WITH
  Nowhere <- <<>>,
  ends <- [at \in Places |-> EndsAt(at[1], at[2], at[3])],
  queue <- IF misnumbered THEN <<>> ELSE [at \in Places |-> QueueAt(at[1], at[2], at[3])],
  lost <- misnumbered,
  coming <- IF pc = "idle" THEN <<>> ELSE <<order.side, order.stock, order.price>>,
  number <- orderProcessNo,
  joined <- nextOrder

\* A price of a stock has the numbers of the first and the last order sent there.  Following
\* the lists of the code yields all of them in the order they came, none lost, listed twice
\* or overtaken, until an order carries a number that is not its index (order.c:138).
ImplementsBook == Abstract!BookSpec

\* bidNumber and offerNumber count the levels reachable from the best one, and
\* every slot in use is reachable from exactly one stock (price.c:923, 1093).
LevelsCounted ==
  \A side \in Side :
    /\ \A s \in Stocks : list[side][s].number = Cardinality(LevelsOf(side, s))
    /\ \A k \in Slot : Used(side, k) =>
         Cardinality({s \in Stocks : k \in LevelsOf(side, s)}) = 1
=============================================================================
