----------------------------- MODULE MCWithdrawals -----------------------------
EXTENDS Withdrawals

Kind(side, price, type, firm, ice, balance) ==
  [side |-> side, price |-> price, type |-> type, firm |-> firm, ice |-> ice,
   balance |-> balance, remPeakQty |-> 1]

\* Buys at two prices that count in one phase or the other, or in every one.
SomeKinds ==
  {Kind("bid", 1, "OA", 1, FALSE, 1), Kind("bid", 1, "SU", 2, FALSE, 2),
   Kind("bid", 2, "SU", 3, FALSE, 1), Kind("bid", 2, "", 4, FALSE, 2),
   Kind("bid", 1, "OA", 2, TRUE, 2), Kind("offer", 2, "OA", 2, FALSE, 1)}

\* What withdraw.c does depends on no number.
ItsIndex == [n \in OrderNo |-> {n}]

SomeBounds ==
  {[orders |-> 2, withdrawals |-> 2, phases |-> 1], [orders |-> 3, withdrawals |-> 1, phases |-> 1],
   [orders |-> 4, withdrawals |-> 0, phases |-> 1]}
=============================================================================
