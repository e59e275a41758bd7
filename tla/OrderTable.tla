------------------------------- MODULE OrderTable -------------------------------
(***************************************************************************)
(* The order table in shared memory and PushOrder (order.c:113-176).  The  *)
(* io threads of the server call it, each for the orders of its own        *)
(* connections, and take no lock.  One step is one access to the table or  *)
(* to nextOrder; the fields written before GetStockByIsinCod and those     *)
(* written after it are one step each.                                     *)
(***************************************************************************)
EXTENDS Naturals, FiniteSets

CONSTANTS
  Threads,   \* the io threads
  orderMax,  \* size of the table
  MaxPush    \* calls of PushOrder in one behaviour: the bound of the model

ASSUME TableAssumption == orderMax \in Nat
ASSUME PushAssumption == MaxPush \in Nat

Entry == 0..(orderMax - 1)
Push == 1..MaxPush
NoPush == 0
Failed == orderMax  \* what PushOrder returns when it fails, -1 in the code

VARIABLES
  orders,     \* orders[k]: whose fields stand in entry k; .stock is NULL_INDEX when unknown
  nextOrder,  \* where the next order goes
  pc,         \* where each thread is
  current,    \* current[t]: the push t is working on
  known,      \* known[t]: does GetStockByIsinCod find its security
  index,      \* index[t]: nextOrder as t read it first
  loaded,     \* loaded[t]: nextOrder as t read it to increment it
  pushes,     \* pushes begun so far
  result,     \* result[p]: what push p returned (not in the code)
  overlapping \* pushes that were under way together with another (not in the code)

table == <<orders, nextOrder>>
locals == <<current, known, index, loaded>>
history == <<pushes, result, overlapping>>
vars == <<table, pc, locals, history>>

Empty == [order |-> NoPush, stock |-> NoPush, known |-> FALSE]
Goto(t, l) == pc' = [pc EXCEPT ![t] = l]
Busy == {t \in Threads : pc[t] # "idle"}

\* The thread takes the next message.
Begin(t) ==
  /\ pc[t] = "idle" /\ pushes < MaxPush
  /\ pushes' = pushes + 1

\* The push that begins, and those it comes between.
NoteOverlap ==
  overlapping' = IF Busy = {} THEN overlapping
                 ELSE overlapping \cup {pushes'} \cup {current[u] : u \in Busy}

\* Mutant of PushOrder: a full table is filled from its beginning again.
PushOrderRing(t) ==
  /\ Begin(t) /\ NoteOverlap
  /\ nextOrder < 2 * orderMax
  /\ index' = [index EXCEPT ![t] = nextOrder % orderMax]
  /\ current' = [current EXCEPT ![t] = pushes']
  /\ known' \in {[known EXCEPT ![t] = b] : b \in BOOLEAN}
  /\ Goto(t, "fill")
  /\ UNCHANGED <<table, loaded, result>>

\* The entry is taken: nextOrder is read, and found inside the table.
PushOrder(t) ==
  /\ Begin(t) /\ NoteOverlap
  /\ nextOrder < orderMax
  /\ index' = [index EXCEPT ![t] = nextOrder]
  /\ current' = [current EXCEPT ![t] = pushes']
  /\ known' \in {[known EXCEPT ![t] = b] : b \in BOOLEAN}
  /\ Goto(t, "fill")
  /\ UNCHANGED <<table, loaded, result>>

\* The table is full, or the order's process number is negative.
PushRefused(t) ==
  /\ Begin(t)
  /\ result' = [result EXCEPT ![pushes'] = Failed]
  /\ UNCHANGED <<table, pc, locals, overlapping>>

\* The fields copied from the order.
FillOrder(t) ==
  /\ pc[t] = "fill"
  /\ orders' = [orders EXCEPT ![index[t]].order = current[t]]
  /\ Goto(t, "stock")
  /\ UNCHANGED <<nextOrder, locals, history>>

\* stockNo, and the links of an order whose security is known.
FillStock(t) ==
  /\ pc[t] = "stock"
  /\ orders' = [orders EXCEPT ![index[t]] =
       [order |-> @.order, stock |-> current[t], known |-> known[t]]]
  /\ Goto(t, "load")
  /\ UNCHANGED <<nextOrder, locals, history>>

\* nextOrder++ is a load and a store.
LoadNext(t) ==
  /\ pc[t] = "load"
  /\ loaded' = [loaded EXCEPT ![t] = nextOrder]
  /\ Goto(t, "store")
  /\ UNCHANGED <<table, current, known, index, history>>

\* Mutant of StoreNext: an order whose security is unknown leaves nextOrder alone.
StoreNextKnown(t) ==
  /\ pc[t] = "store"
  /\ nextOrder' = IF known[t] THEN loaded[t] + 1 ELSE nextOrder
  /\ result' = [result EXCEPT ![current[t]] = IF known[t] THEN index[t] ELSE Failed]
  /\ Goto(t, "idle")
  /\ UNCHANGED <<orders, locals, pushes, overlapping>>

\* The order is in; the caller is told where, unless its security is unknown.
StoreNext(t) ==
  /\ pc[t] = "store"
  /\ nextOrder' = loaded[t] + 1
  /\ result' = [result EXCEPT ![current[t]] = IF known[t] THEN index[t] ELSE Failed]
  /\ Goto(t, "idle")
  /\ UNCHANGED <<orders, locals, pushes, overlapping>>
-----------------------------------------------------------------------------
Init ==
  /\ orders = [k \in Entry |-> Empty]
  /\ nextOrder = 0
  /\ pc = [t \in Threads |-> "idle"]
  /\ current = [t \in Threads |-> NoPush]
  /\ known = [t \in Threads |-> FALSE]
  /\ index = [t \in Threads |-> 0]
  /\ loaded = [t \in Threads |-> 0]
  /\ pushes = 0
  /\ result = [p \in Push |-> Failed]
  /\ overlapping = {}

Step(t) ==
  \/ PushOrder(t) \/ PushRefused(t)
  \/ FillOrder(t) \/ FillStock(t) \/ LoadNext(t) \/ StoreNext(t)

Next == \E t \in Threads : Step(t)

Spec == Init /\ [][Next]_vars
-----------------------------------------------------------------------------
\* The type invariant.
TypeOK ==
  /\ orders \in [Entry -> [order : Push \cup {NoPush}, stock : Push \cup {NoPush}, known : BOOLEAN]]
  /\ nextOrder \in Nat
  /\ pc \in [Threads -> {"idle", "fill", "stock", "load", "store"}]
  /\ current \in [Threads -> Push \cup {NoPush}]
  /\ known \in [Threads -> BOOLEAN]
  /\ index \in [Threads -> Nat]
  /\ loaded \in [Threads -> Nat]
  /\ pushes \in 0..MaxPush
  /\ result \in [Push -> Entry \cup {Failed}]
  /\ overlapping \in SUBSET Push

\* The order pushed by p is whole and where p was told it is.
Kept(p) ==
  result[p] # Failed =>
    orders[result[p]] = [order |-> p, stock |-> p, known |-> TRUE]

\* PushOrder reports "the position of the new order" (order.c:104): the caller finds
\* its order there.
AcceptedKept == \A p \in Push : Kept(p)

\* As long as no two pushes overlap, every accepted order stays whole at its own
\* position, and the entries below nextOrder are exactly those ever written, which is
\* what the loops to GetOrderNumber rely on (order.c:95-98, 113-176).
SerialTable ==
  overlapping = {} =>
    /\ AcceptedKept
    /\ \A p, q \in Push : result[p] = result[q] /\ result[p] # Failed => p = q
    /\ nextOrder <= orderMax
    /\ \A k \in Entry :
         /\ k < nextOrder => orders[k].order = orders[k].stock /\ orders[k].order # NoPush
         /\ k > nextOrder => orders[k] = Empty
         /\ k = nextOrder /\ Busy = {} => orders[k] = Empty

\* The race on nextOrder never reaches back: an order pushed while no other push was under
\* way stays whole where its caller was told it is, whatever pushes overlapped before it
\* and however those after it lose or set back nextOrder (order.c:118-133, 161-172).
AloneKept == \A p \in Push \ overlapping : Kept(p)
=============================================================================
