----------------------------- MODULE MCTradeSets -----------------------------
EXTENDS TradeSets

\* Two amounts in a phase that is ranked, and one in a phase that is not after the one
\* before it.
SomeMarkets ==
  {[amount |-> 1, prePhase |-> "", phase |-> "TRADE"],
   [amount |-> 2, prePhase |-> "", phase |-> "TRADE"],
   [amount |-> 2, prePhase |-> "PRETR", phase |-> "BREAK"]}

\* Trades use up the sets while no stock is in a category, or the other way round.
SomeBounds == {<<8, 0>>, <<0, 3>>}
=============================================================================
