----------------------------- MODULE LimitOrderBook -----------------------------
(***************************************************************************)
(* What the price levels promise: for every side, stock and price, the     *)
(* queue of the orders that wait there, in the order of their arrival.     *)
(* An order joins the end of its own queue, once, and no other queue       *)
(* changes.  The orders name each other by the numbers they carry: once a  *)
(* number is not that of the order's arrival, the queues are lost, and     *)
(* what is known of a place is the number that came first and the last.    *)
(***************************************************************************)
EXTENDS Naturals, Sequences

CONSTANTS
  Places,  \* the queues there are: side, stock and price
  Nowhere  \* no order is on the way

VARIABLES
  ends,    \* ends[p]: numbers of the first and the last order of place p
  queue,   \* queue[p]: numbers of the orders waiting at place p, unless they are lost
  lost,    \* an order has come with another number than that of its arrival
  coming,  \* the place of the order on its way into the book
  number,  \* the number it carries
  joined   \* how many orders have arrived, in the book or on the way to it

bookvars == <<ends, queue, lost, coming, number, joined>>

BookInit ==
  /\ ends = [p \in Places |-> <<>>]
  /\ queue = [p \in Places |-> <<>>]
  /\ lost = FALSE
  /\ coming = Nowhere
  /\ number = 0
  /\ joined = 0

Arrive ==
  /\ coming = Nowhere
  /\ coming' \in Places
  /\ number' \in Nat
  /\ joined' = joined + 1
  /\ lost' = (lost \/ number' # joined)
  /\ queue' = IF lost' THEN <<>> ELSE queue
  /\ UNCHANGED ends

Join ==
  /\ coming # Nowhere
  /\ ends' = [ends EXCEPT ![coming] = IF @ = <<>> THEN <<number, number>> ELSE <<@[1], number>>]
  /\ queue' = IF lost THEN <<>> ELSE [queue EXCEPT ![coming] = Append(@, number)]
  /\ coming' = Nowhere
  /\ UNCHANGED <<lost, number, joined>>

BookSpec == BookInit /\ [][Arrive \/ Join]_bookvars
=============================================================================
