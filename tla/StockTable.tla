------------------------------ MODULE StockTable ------------------------------
(***************************************************************************)
(* The stock table (stock.c), the categories (category.c) and the rankings *)
(* of the stocks of a category (sort.c).                                   *)
(*                                                                         *)
(* The table is sorted by code, so a new stock moves those behind it by    *)
(* one place; a category holds its stocks as a list of table positions.    *)
(* The four rankings are the same algorithm over four fields of a stock:   *)
(* amount stands for each of them.                                         *)
(***************************************************************************)
EXTENDS Integers, Sequences, FiniteSets, SequencesExt

CONSTANTS
  Codes,          \* isinCod, as numbers in the order of strcmp
  StockMax,       \* stockMax: places of the table
  CategoryIds,    \* ids of the categories
  CategoryMax,    \* categoryMax
  Markets,        \* amount, prePrcsStsValCod and prcsStsValCod a stock may get
  SortLength      \* SHARE_ORDER_SORT_LENGTH, SHARE_WITHDRAW_SORT_LENGTH

ASSUME StockAssumption ==
  /\ Codes \subseteq Nat
  /\ {StockMax, CategoryMax, SortLength} \subseteq Nat \ {0}

ASSUME MarketAssumption == \A m \in Markets : m.amount \in Int

NULL_INDEX == -1
Place == 0..StockMax - 1

VARIABLES
  stock, nextStock,        \* GetStockList(), and how many there are
  category, nextCategory,  \* GetCategory(i), and how many there are
  members,                 \* by category: its stocks in the order they came (history)
  joinMax,                 \* stocks that may enter categories: a bound of the model
  moved                    \* a stock of a category changed its place or its category (history)

categoryVars == <<category, nextCategory, members, joinMax>>
stockVars == <<stock, nextStock, categoryVars, moved>>
-----------------------------------------------------------------------------
Greater(code) == {p \in 0..nextStock - 1 : stock[p].isinCod > code}

\* Mutant: the new stock goes behind the first greater one.
InsertPlaceBehind(code) == IF Greater(code) = {} THEN nextStock ELSE Min(Greater(code)) + 1

\* Where AddStock stops: before the first greater code.
InsertPlace(code) == Min(Greater(code) \cup {nextStock})

\* AddStock.  The fields it does not assign, the amounts and phases among them, stay as
\* the stock left them that stood there; what refers to a moved stock is not corrected.
AddStock(code) ==
  LET p == InsertPlace(code)
      Renumbered(q) == IF q = p THEN [stock[p] EXCEPT !.isinCod = code, !.stockNo = p,
                                        !.categoryNo = NULL_INDEX, !.nextCategory = NULL_INDEX]
                       ELSE [stock[q - 1] EXCEPT !.stockNo = q]
  IN  /\ nextStock < StockMax
      /\ stock' = [q \in Place |-> IF q \in p..nextStock THEN Renumbered(q) ELSE stock[q]]
      /\ nextStock' = nextStock + 1
      /\ moved' = (moved \/ \E c \in DOMAIN members : \E i \in DOMAIN members[c] : members[c][i] >= p)
      /\ UNCHANGED categoryVars

\* bsearch in the places from r[1] to before r[2]: the place of the code, or NULL_INDEX.
GetStockByIsinCod(code) ==
  LET search[r \in (0..StockMax) \X (0..StockMax)] ==
        LET m == (r[1] + r[2]) \div 2
        IN  IF r[1] >= r[2] THEN NULL_INDEX
            ELSE IF code < stock[m].isinCod THEN search[<<r[1], m>>]
            ELSE IF code > stock[m].isinCod THEN search[<<m + 1, r[2]>>]
            ELSE m
  IN  search[<<0, nextStock>>]
-----------------------------------------------------------------------------
\* Behind the counter nothing is read, so a category is added by its id.
AddCategory(id) ==
  /\ nextCategory < CategoryMax
  /\ category' = [category EXCEPT ![nextCategory] =
       [id |-> id, firstStock |-> NULL_INDEX, lastStock |-> NULL_INDEX, securitiesNumber |-> 0]]
  /\ nextCategory' = nextCategory + 1
  /\ UNCHANGED <<stock, nextStock, members, joinMax, moved>>

\* The first category with that id, or NULL_INDEX.
GetCategoryById(id) ==
  LET found == {c \in 0..nextCategory - 1 : category[c].id = id}
  IN  IF found = {} THEN NULL_INDEX ELSE Min(found)

Joined == FoldFunction(LAMBDA list, n : Len(list) + n, 0, members)

\* AddCategoryStock.  A stock that was in another category keeps its nextCategory, and the
\* other category keeps the stock.
AddCategoryStock(id, p) ==
  LET c == GetCategoryById(id)
      first == category[c].firstStock < 0
      last == category[c].lastStock
      entered == [stock EXCEPT ![p].categoryNo = id]
  IN  /\ c # NULL_INDEX /\ stock[p].categoryNo # id /\ Joined < joinMax
      /\ category' = [category EXCEPT
           ![c].securitiesNumber = @ + 1,
           ![c].firstStock = IF first THEN stock[p].stockNo ELSE @,
           ![c].lastStock = stock[p].stockNo]
      /\ stock' = IF first THEN entered
                  ELSE [entered EXCEPT ![last].nextCategory = stock[p].stockNo]
      /\ members' = [members EXCEPT ![c] = Append(@, p)]
      /\ moved' = (moved \/ stock[p].categoryNo # NULL_INDEX)
      /\ UNCHANGED <<nextStock, nextCategory, joinMax>>
-----------------------------------------------------------------------------
\* The market: orders and withdrawals change the amounts, StatusChange the phase.
Trading(p) ==
  /\ p < nextStock
  /\ \E m \in Markets :
       stock' = [stock EXCEPT ![p].amount = m.amount, ![p].prePrcsStsValCod = m.prePhase,
                              ![p].prcsStsValCod = m.phase]
  /\ UNCHANGED <<nextStock, categoryVars, moved>>

\* Phases in which the orders of a stock are ranked, with the phases they may not follow.
CheckTradePhase(s) ==
  /\ s.prcsStsValCod \in {"TRADE", "BREAK", "HALT", "SUSP", "CLOSE", "POSTR", "ENDTR", "BETW"}
  /\ <<s.prePrcsStsValCod, s.prcsStsValCod>> \notin
       {<<"PRETR", "BREAK">>, <<"OCALL", "HALT">>, <<"ICALL", "HALT">>, <<"OCALL", "SUSP">>}

\* The stocks the loop of a ranking comes by: securitiesNumber links from firstStock on, or
\* to the first link that leads nowhere.
Visited(c) ==
  LET n == category[c].securitiesNumber
      at[i \in 0..n] == IF i = 0 THEN category[c].firstStock
                        ELSE IF at[i - 1] \in Place THEN stock[at[i - 1]].nextCategory
                        ELSE NULL_INDEX
      end == Min({i \in 0..n : i = n \/ at[i] \notin Place})
  IN  [i \in 1..end |-> at[i - 1]]

\* Mutant: among equal amounts the later one goes first.
InsertRankedBefore(list, p) ==
  LET full == Len(list) = SortLength
      smaller == {i \in DOMAIN list : stock[list[i]].amount <= stock[p].amount}
      at == Min(smaller \cup {Len(list) + 1})
  IN  IF stock[p].amount <= 0 \/ (full /\ stock[p].amount <= stock[Last(list)].amount) THEN list
      ELSE SubSeq(InsertAt(list, at, p), 1, IF full THEN SortLength ELSE Len(list) + 1)

\* One stock goes before the first with a smaller amount; the last of a full list goes out.
InsertRanked(list, p) ==
  LET full == Len(list) = SortLength
      smaller == {i \in DOMAIN list : stock[list[i]].amount < stock[p].amount}
      at == Min(smaller \cup {Len(list) + 1})
  IN  IF stock[p].amount <= 0 \/ (full /\ stock[p].amount <= stock[Last(list)].amount) THEN list
      ELSE SubSeq(InsertAt(list, at, p), 1, IF full THEN SortLength ELSE Len(list) + 1)

\* The loop of a ranking over a category's stocks, but for those it skips.
RankAmong(c, stocks) ==
  FoldLeft(LAMBDA list, p : IF p \in stocks THEN InsertRanked(list, p) ELSE list, <<>>, Visited(c))

InTrade == {p \in Place : CheckTradePhase(stock[p])}

GetShareOrderRanking(c) == RankAmong(c, InTrade)

GetShareWithdrawRanking(c) == RankAmong(c, Place)
-----------------------------------------------------------------------------
\* The shared memory starts out as zeros.
StockInit ==
  /\ stock = [p \in Place |-> [isinCod |-> 0, stockNo |-> 0, categoryNo |-> 0,
                               nextCategory |-> 0, amount |-> 0,
                               prePrcsStsValCod |-> "", prcsStsValCod |-> ""]]
  /\ nextStock = 0
  /\ category = [c \in 0..CategoryMax - 1 |-> [id |-> 0, firstStock |-> 0, lastStock |-> 0,
                                               securitiesNumber |-> 0]]
  /\ nextCategory = 0
  /\ members = [c \in 0..CategoryMax - 1 |-> <<>>]
  /\ moved = FALSE

\* Only rankings tell the amounts and the categories apart: they stay as they are where no
\* stock may enter a category.
StockNext ==
  \/ \E code \in Codes : AddStock(code)
  \/ /\ joinMax > 0
     /\ \/ \E id \in CategoryIds : AddCategory(id)
        \/ \E id \in CategoryIds, p \in 0..nextStock - 1 : AddCategoryStock(id, p)
        \/ \E p \in Place : Trading(p)
=============================================================================
