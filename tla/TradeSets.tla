------------------------------- MODULE TradeSets -------------------------------
(***************************************************************************)
(* The trades (trade.c) and the sets they are listed in (set_map.c), over  *)
(* the stock table they look codes up in.  A set is a chain of pieces of   *)
(* setSizeMax trades out of one array; NextSet hands the pieces out.       *)
(*                                                                         *)
(* One thread calls it, AddSetMap right after AddTrade, over a new segment,*)
(* which is all zeros: the only call of InitSetMap, which would say that   *)
(* no set has a piece yet, is commented out (memory.c:103).  So every set  *)
(* has piece 0 for its first and its last one, all sets fill it together,  *)
(* and the branch for a set without a piece (set_map.c:277) is never taken.*)
(* A set is alone in the pieces it gets behind piece 0.                    *)
(*                                                                         *)
(* AddStock, and what categories and rankings do with the table, may come  *)
(* in between.                                                             *)
(***************************************************************************)
EXTENDS StockTable

CONSTANTS
  TradedCodes,   \* codes trades are reported of
  OrderStocks,   \* stock numbers that the orders trades are of have
  Bounds,        \* <<trades, entries into categories>> a behaviour may have, with trades
                 \* up to tradeMax: the bounds of the model
  SetIds,        \* the set ids there are: 0..setIdMapMax - 1
  SetMax,        \* setMax: pieces
  SetSizeMax     \* trades in a piece

ASSUME SetAssumption ==
  /\ TradedCodes \cup OrderStocks \cup SetIds \subseteq Nat
  /\ Bounds \subseteq Nat \X Nat /\ {SetMax, SetSizeMax} \subseteq Nat \ {0}

VARIABLES
  tradeMax,
  trade,          \* sequence of [isinCod, stockNo, index]; number n is trade[n + 1]
  adding,         \* the trade AddTrade has just added, or NULL_INDEX
  lastSetOffset,  \* by set: its last piece.  Its firstSetOffset stays 0
  setStats,       \* by piece: nextSetMap and lastSetMember
  setMap,         \* by piece and member: tradeIndex and tradeProcessNo
  nextSet,
  crashed,        \* a null pointer was followed
  kept            \* by set: the entries it has got behind piece 0: [piece, member, trade]
                  \* (history)

setVars == <<lastSetOffset, setStats, setMap, nextSet, crashed, kept>>
tradeVars == <<stockVars, tradeMax, trade, adding, setVars>>

Pieces == 0..SetMax - 1
-----------------------------------------------------------------------------
\* AddTrade: the trade of an order has its stock, one without an order the stock with its
\* code now.  The trade of an order number or of a code that is not in its table is
\* written and not counted.
AddTrade(code) ==
  /\ Len(trade) < tradeMax /\ adding = NULL_INDEX
  /\ \E stockNo \in OrderStocks \cup ({GetStockByIsinCod(code)} \ {NULL_INDEX}) :
       trade' = Append(trade, [isinCod |-> code, stockNo |-> stockNo, index |-> NULL_INDEX])
  /\ adding' = Len(trade)
  /\ UNCHANGED setVars

\* A trade becomes member m of a piece.
Listed(setId, piece, m, index, t) ==
  /\ setMap' = [setMap EXCEPT ![piece][m] = [tradeIndex |-> index, tradeProcessNo |-> t]]
  /\ trade' = [trade EXCEPT ![t + 1].index = index]
  /\ kept' = IF piece = 0 THEN kept
             ELSE [kept EXCEPT ![setId] = Append(@, [piece |-> piece, member |-> m, trade |-> t])]

\* The piece that was handed out last but is none is followed.
NoPiece(setId) ==
  /\ lastSetOffset[setId] = SetMax
  /\ crashed' = TRUE
  /\ UNCHANGED <<trade, lastSetOffset, setStats, setMap, nextSet, kept>>

\* The last piece of a set is full.
NeedsPiece(setId) ==
  LET last == lastSetOffset[setId]
  IN  last \in Pieces /\ setStats[last].lastSetMember = SetSizeMax - 1

\* The first member of a piece that was handed out to a set, behind piece last.
PieceAfter(setId, last, index, t) ==
  /\ lastSetOffset' = [lastSetOffset EXCEPT ![setId] = nextSet]
  /\ IF nextSet = SetMax THEN UNCHANGED <<trade, setMap, nextSet, kept>>
     ELSE Listed(setId, nextSet, 0, index, t) /\ nextSet' = nextSet + 1
  /\ setStats' = [p \in Pieces |->
       [nextSetMap |-> IF p = last THEN nextSet ELSE setStats[p].nextSetMap,
        lastSetMember |-> IF p = nextSet THEN 0 ELSE setStats[p].lastSetMember]]
  /\ UNCHANGED crashed

\* Mutant: the members of a new piece are numbered from 0 again.
NewPieceRestart(setId, t) ==
  NeedsPiece(setId) /\ PieceAfter(setId, lastSetOffset[setId], 0, t)

\* The test whether there is one is off by one: behind the last piece the trade is not
\* listed, though the answer is TRUE.  The first piece handed out is piece 0 again.
NewPiece(setId, t) ==
  LET last == lastSetOffset[setId]
  IN  /\ NeedsPiece(setId)
      /\ PieceAfter(setId, last, setMap[last][SetSizeMax - 1].tradeIndex + 1, t)

NextMember(setId, t) ==
  LET last == lastSetOffset[setId]
      m == setStats[last].lastSetMember
  IN  /\ last \in Pieces /\ ~NeedsPiece(setId)
      /\ Listed(setId, last, m + 1, setMap[last][m].tradeIndex + 1, t)
      /\ setStats' = [setStats EXCEPT ![last].lastSetMember = m + 1]
      /\ UNCHANGED <<lastSetOffset, nextSet, crashed>>

AddSetMap(setId, t) ==
  /\ t # NULL_INDEX /\ adding' = NULL_INDEX
  /\ NoPiece(setId) \/ NewPiece(setId, t) \/ NextMember(setId, t)
-----------------------------------------------------------------------------
NULL == <<>>

\* The entry behind one: the next of its piece, or the first of the next piece, if its
\* number says that it follows.
GetNextSetMap(at) ==
  LET this == setMap[at[1]][at[2]].tradeIndex
      behind == IF this % SetSizeMax # SetSizeMax - 1 THEN <<at[1], at[2] + 1>>
                ELSE <<setStats[at[1]].nextSetMap, 0>>
  IN  IF behind[1] \in Pieces /\ setMap[behind[1]][behind[2]].tradeIndex = this + 1
      THEN behind ELSE NULL
-----------------------------------------------------------------------------
TradeInit ==
  /\ StockInit /\ \E b \in Bounds : tradeMax = b[1] /\ joinMax = b[2]
  /\ trade = <<>> /\ adding = NULL_INDEX
  /\ lastSetOffset = [id \in SetIds |-> 0]
  /\ setStats = [p \in Pieces |-> [nextSetMap |-> 0, lastSetMember |-> 0]]
  /\ setMap = [p \in Pieces |-> [m \in 0..SetSizeMax - 1 |-> [tradeIndex |-> 0, tradeProcessNo |-> 0]]]
  /\ nextSet = 0 /\ crashed = FALSE
  /\ kept = [id \in SetIds |-> <<>>]

TradeNext ==
  /\ ~crashed /\ UNCHANGED tradeMax
  /\ \/ adding = NULL_INDEX /\ StockNext /\ UNCHANGED <<trade, adding, setVars>>
     \/ (\E code \in TradedCodes : AddTrade(code)) /\ UNCHANGED stockVars
     \/ (\E id \in SetIds : AddSetMap(id, adding)) /\ UNCHANGED stockVars

TradeSpec == TradeInit /\ [][TradeNext]_tradeVars
-----------------------------------------------------------------------------
\* bsearch finds every code that was added, and no other, in whatever order they came and
\* though the same code may be added twice.
FoundByCode ==
  LET Listing == {stock[p].isinCod : p \in 0..nextStock - 1}
  IN  \A code \in Codes :
        LET p == GetStockByIsinCod(code)
        IN  IF code \in Listing THEN p # NULL_INDEX /\ stock[p].isinCod = code
            ELSE p = NULL_INDEX

\* Entry i of a ranking goes before entry j of the stocks it ranks: more, or as much and
\* longer in the category.
RanksBefore(listed, i, j) ==
  \/ stock[listed[i]].amount > stock[listed[j]].amount
  \/ stock[listed[i]].amount = stock[listed[j]].amount /\ i < j

\* The ranking of those listed that are among some stocks and have an amount: each is
\* behind those that rank before it.
IsRanking(ranking, listed, stocks) ==
  LET with == {i \in DOMAIN listed : listed[i] \in stocks /\ stock[listed[i]].amount > 0}
      rank(i) == 1 + Cardinality({j \in with : RanksBefore(listed, j, i)})
      ranked == {i \in with : rank(i) <= SortLength}
  IN  /\ Len(ranking) = Cardinality(ranked)
      /\ \A i \in ranked : ranking[rank(i)] = listed[i]

\* A ranking has the biggest amounts of the category's stocks, in order: unless, since they
\* entered it, one of them was moved by a new stock or went to another category.
RankedUntilMoved ==
  moved \/ \A c \in 0..CategoryMax - 1 :
    /\ IsRanking(GetShareWithdrawRanking(c), members[c], Place)
    /\ IsRanking(GetShareOrderRanking(c), members[c], InTrade)

\* The entries a set has got behind piece 0 stay its own, whatever the other sets do:
\* each has its trade, which knows the number of the entry, and leads to the next one, over
\* all pieces of the set.  The last one leads nowhere (unless the set met the end of the
\* pieces: its piece then leads to the memory behind them).
OwnPiecesWhole ==
  \A id \in SetIds : \A i \in 1..Len(kept[id]) :
    LET e == kept[id][i]
        at(k) == <<kept[id][k].piece, kept[id][k].member>>
    IN  /\ setMap[e.piece][e.member] = [tradeIndex |-> trade[e.trade + 1].index,
                                       tradeProcessNo |-> e.trade]
        /\ \/ i < Len(kept[id]) /\ GetNextSetMap(at(i)) = at(i + 1)
           \/ i = Len(kept[id]) /\ (lastSetOffset[id] = SetMax \/ GetNextSetMap(at(i)) = NULL)
=============================================================================
