------------------------------ MODULE TablesProofs ------------------------------
(***************************************************************************)
(* Theorems about OrderTable, for any number of threads and entries, and   *)
(* about TradeSets, for any sizes of the stock table, the rankings and the *)
(* sets.                                                                   *)
(***************************************************************************)
EXTENDS OrderTable, TradeSets, WellFoundedInduction, FiniteSetTheorems, SequenceTheorems,
        TLAPS

\* A thread at work knows its push and holds an index inside the table.
TableInv ==
  /\ TypeOK
  /\ \A t \in Busy : index[t] \in Entry /\ current[t] \in Push

\* The entry of a push under way, as far as its thread has got.
Filled(t) ==
  LET e == orders[index[t]] IN
  /\ pc[t] = "stock" => e.order = current[t]
  /\ pc[t] \in {"load", "store"} =>
       e = [order |-> current[t], stock |-> current[t], known |-> known[t]]

\* While pushes come one after the other: the only thread at work is at nextOrder, and
\* what was accepted stands whole below it.
Serial ==
  /\ \A t, u \in Busy : t = u
  /\ \A t \in Busy :
       /\ index[t] = nextOrder /\ current[t] <= pushes /\ result[current[t]] = Failed
       /\ pc[t] = "store" => loaded[t] = nextOrder
       /\ Filled(t)
  /\ \A p \in Push : p > pushes => result[p] = Failed
  /\ \A p \in Push : result[p] # Failed => result[p] < nextOrder /\ Kept(p)
  /\ nextOrder <= orderMax
  /\ \A k \in Entry :
       /\ k < nextOrder => orders[k].order = orders[k].stock /\ orders[k].order # NoPush
       /\ k > nextOrder => orders[k] = Empty
       /\ k = nextOrder /\ Busy = {} => orders[k] = Empty

SerialInv == TableInv /\ (overlapping = {} => Serial)

\* The shared table starts empty, and nobody is at work.
LEMMA TableInitial == Init => TableInv
<1> SUFFICES ASSUME Init PROVE TableInv
  OBVIOUS
<1>1. TypeOK
  <2>1. orders \in [Entry -> [order : Push \cup {NoPush}, stock : Push \cup {NoPush}, known : BOOLEAN]]
    BY DEF Init, Empty
  <2>2. pc \in [Threads -> {"idle", "fill", "stock", "load", "store"}] /\ overlapping \in SUBSET Push
    BY DEF Init
  <2>3. result \in [Push -> Entry \cup {Failed}] /\ current \in [Threads -> Push \cup {NoPush}]
    BY DEF Init
  <2>4. known \in [Threads -> BOOLEAN]
    BY DEF Init
  <2>5. /\ nextOrder \in Nat /\ pushes \in 0..MaxPush
        /\ index \in [Threads -> Nat] /\ loaded \in [Threads -> Nat]
    BY PushAssumption DEF Init
  <2>6. QED
    BY <2>1, <2>2, <2>3, <2>4, <2>5 DEF TypeOK
<1>2. Busy = {}
  BY DEF Init, Busy
<1>3. QED
  BY <1>1, <1>2 DEF TableInv

\* Every step keeps the types, and the index a thread writes at was checked.
LEMMA TableInductive == TableInv /\ [Next]_vars => TableInv'
<1> SUFFICES ASSUME TableInv, [Next]_vars PROVE TableInv'
  OBVIOUS
<1> USE TableAssumption, PushAssumption
    DEF TableInv, TypeOK, Busy, Entry, Push, NoPush, Failed
<1>1. CASE UNCHANGED vars
  BY <1>1 DEF vars, table, locals, history
<1>2. ASSUME NEW t \in Threads, PushOrder(t) PROVE TableInv'
  <2>1. current' = [current EXCEPT ![t] = pushes'] /\ pushes' \in Push
    BY <1>2 DEF PushOrder, Begin
  <2>2. index' = [index EXCEPT ![t] = nextOrder] /\ nextOrder \in Entry
    BY <1>2 DEF PushOrder
  <2>3. pc' = [pc EXCEPT ![t] = "fill"] /\ known' \in [Threads -> BOOLEAN]
    BY <1>2 DEF PushOrder, Goto
  <2>4. TypeOK'
    <3>1. pushes' \in 0..MaxPush /\ UNCHANGED <<orders, nextOrder, loaded, result>>
      BY <1>2 DEF PushOrder, Begin, table
    <3>2. overlapping' \in SUBSET Push
      <4>1. overlapping' \in {overlapping, overlapping \cup {pushes'} \cup {current[u] : u \in Busy}}
        BY <1>2, Zenon DEF PushOrder, NoteOverlap
      <4>2. \A u \in Busy : current[u] \in Push
        OBVIOUS
      <4>3. overlapping \in SUBSET Push
        OBVIOUS
      <4>4. QED
        BY ONLY <2>1, <4>1, <4>2, <4>3
    <3>3. QED
      BY <2>1, <2>2, <2>3, <3>1, <3>2
  <2>5. QED
    BY <2>1, <2>2, <2>3, <2>4
<1>3. ASSUME NEW t \in Threads, PushRefused(t) PROVE TableInv'
  BY SMTT(40), <1>3 DEF PushRefused, Begin, table, locals
<1>4. ASSUME NEW t \in Threads, FillOrder(t) PROVE TableInv'
  BY ZenonT(40), <1>4 DEF FillOrder, Goto, locals, history
<1>5. ASSUME NEW t \in Threads, FillStock(t) PROVE TableInv'
  BY <1>5 DEF FillStock, Goto, locals, history
<1>6. ASSUME NEW t \in Threads, LoadNext(t) PROVE TableInv'
  BY <1>6 DEF LoadNext, Goto, table, history
<1>7. ASSUME NEW t \in Threads, StoreNext(t) PROVE TableInv'
  BY <1>7 DEF StoreNext, Goto, locals
<1>8. QED
  BY <1>1, <1>2, <1>3, <1>4, <1>5, <1>6, <1>7 DEF Next, Step

\* An empty table is a serial one.
LEMMA SerialInitial == Init => Serial
<1> SUFFICES ASSUME Init PROVE Serial
  OBVIOUS
<1>1. Busy = {} /\ nextOrder = 0 /\ \A p \in Push : result[p] = Failed
  BY DEF Init, Busy
<1>2. \A k \in Entry : orders[k] = Empty /\ ~(k < nextOrder)
  BY <1>1, TableAssumption DEF Init, Entry
<1>3. QED
  BY <1>1, <1>2, TableAssumption DEF Serial

\* A step that leaves pushes serial keeps the table serial: the thread that takes the
\* step is the only one at work, and it is at nextOrder.
LEMMA SerialInductive == SerialInv /\ [Next]_vars /\ overlapping' = {} => Serial'
<1> SUFFICES ASSUME SerialInv, [Next]_vars, overlapping' = {} PROVE Serial'
  OBVIOUS
<1>0. TableInv /\ TableInv'
  BY TableInductive DEF SerialInv
<1>a. overlapping = {} => Serial
  BY DEF SerialInv
<1> USE TableAssumption, PushAssumption, <1>0
    DEF TableInv, TypeOK, Entry, Push, NoPush, Failed
<1>1. CASE UNCHANGED vars
  BY <1>1, <1>a DEF vars, table, locals, history, Serial, Filled, Kept, Busy
<1>2. ASSUME NEW t \in Threads, PushOrder(t) PROVE Serial'
  <2>1. Serial /\ Busy = {} /\ Busy' = {t}
    <3>1. overlapping = {} /\ Busy = {}
      BY <1>2 DEF PushOrder, NoteOverlap
    <3>2. pc' = [pc EXCEPT ![t] = "fill"]
      BY <1>2 DEF PushOrder, Goto
    <3>3. Busy' = {t}
      BY <3>1, <3>2 DEF Busy
    <3>4. QED
      BY <3>1, <3>3, <1>a
  <2>2. index'[t] = nextOrder /\ current'[t] = pushes' /\ pushes' = pushes + 1 /\ pc'[t] = "fill"
    BY <1>2 DEF PushOrder, Begin, Goto
  <2>3. UNCHANGED <<orders, nextOrder, result>>
    BY <1>2 DEF PushOrder, table
  <2>4. Filled(t)'
    BY <2>2 DEF Filled
  <2>5. pushes' \in Push /\ result[pushes'] = Failed
    BY <2>1, <2>2 DEF Serial
  <2>6. \A p \in Push : Kept(p)' <=> Kept(p)
    BY <2>3 DEF Kept
  <2>7. \A k \in Entry : k = nextOrder => orders[k] = Empty
    BY <2>1 DEF Serial
  <2>8. QED
    BY <2>1, <2>2, <2>3, <2>4, <2>5, <2>6, <2>7 DEF Serial
<1>3. ASSUME NEW t \in Threads, PushRefused(t) PROVE Serial'
  <2>1. Serial /\ Busy' = Busy /\ pushes' = pushes + 1
    BY <1>3, <1>a DEF PushRefused, Begin, Busy
  <2>2. UNCHANGED <<orders, nextOrder, pc, current, known, index, loaded>>
    BY <1>3 DEF PushRefused, table, locals
  <2>3. result' = result
    BY <1>3, <2>1 DEF PushRefused, Serial
  <2>4. \A p \in Push : Kept(p)' <=> Kept(p)
    BY <2>2, <2>3 DEF Kept
  <2>5. \A u : Filled(u)' <=> Filled(u)
    BY <2>2 DEF Filled
  <2>6. QED
    BY <2>1, <2>2, <2>3, <2>4, <2>5 DEF Serial
<1>4. ASSUME NEW t \in Threads, FillOrder(t) PROVE Serial'
  <2> USE <1>4 DEF FillOrder, Goto, locals, history
  <2>1. Serial /\ Busy' = Busy /\ Busy = {t}
    BY <1>a DEF Busy, Serial
  <2>2. index[t] = nextOrder /\ nextOrder \in Entry
    BY <2>1 DEF Serial
  <2>3. \A k \in Entry : k # nextOrder => orders'[k] = orders[k]
    BY <2>2
  <2>4. Filled(t)'
    BY <2>2 DEF Filled
  <2>5. ASSUME NEW p \in Push PROVE Kept(p)' <=> Kept(p)
    <3>1. result'[p] = result[p] /\ (result[p] # Failed => result[p] \in Entry /\ result[p] # nextOrder)
      BY <2>1 DEF Serial
    <3>2. QED
      BY <3>1, <2>3 DEF Kept
  <2>6. QED
    BY <2>1, <2>2, <2>3, <2>4, <2>5 DEF Serial
<1>5. ASSUME NEW t \in Threads, FillStock(t) PROVE Serial'
  <2> USE <1>5 DEF FillStock, Goto, locals, history
  <2>1. Serial /\ Busy' = Busy /\ Busy = {t}
    BY <1>a DEF Busy, Serial
  <2>2. index[t] = nextOrder /\ nextOrder \in Entry
    BY <2>1 DEF Serial
  <2>3. \A k \in Entry : k # nextOrder => orders'[k] = orders[k]
    BY <2>2
  <2>4. Filled(t)'
    <3>1. orders[nextOrder].order = current[t]
      BY <2>1, <2>2 DEF Filled, Serial
    <3>2. orders'[nextOrder] = [order |-> orders[nextOrder].order, stock |-> current[t], known |-> known[t]]
      BY <2>2
    <3>3. orders'[nextOrder] = [order |-> current[t], stock |-> current[t], known |-> known[t]]
      BY <3>1, <3>2
    <3>4. QED
      BY <2>2, <3>3 DEF Filled
  <2>5. ASSUME NEW p \in Push PROVE Kept(p)' <=> Kept(p)
    <3>1. result'[p] = result[p] /\ (result[p] # Failed => result[p] \in Entry /\ result[p] # nextOrder)
      BY <2>1 DEF Serial
    <3>2. QED
      BY <3>1, <2>3 DEF Kept
  <2>6. QED
    BY <2>1, <2>2, <2>3, <2>4, <2>5 DEF Serial
<1>6. ASSUME NEW t \in Threads, LoadNext(t) PROVE Serial'
  <2> USE <1>6 DEF LoadNext, Goto, table, history
  <2>1. Serial /\ Busy' = Busy /\ Busy = {t}
    BY <1>a DEF Busy, Serial
  <2>2. Filled(t)' /\ \A p \in Push : Kept(p)' <=> Kept(p)
    BY <2>1 DEF Filled, Kept, Serial
  <2>3. QED
    BY <2>1, <2>2 DEF Serial
<1>7. ASSUME NEW t \in Threads, StoreNext(t) PROVE Serial'
  <2> USE <1>7 DEF StoreNext, Goto, locals
  <2>1. Serial /\ Busy' = {} /\ Busy = {t}
    BY <1>a DEF Busy, Serial
  <2>2. /\ index[t] = nextOrder /\ nextOrder \in Entry /\ nextOrder' = nextOrder + 1
        /\ current[t] <= pushes /\ current[t] \in Push
    BY <2>1 DEF Serial
  <2>3. orders[nextOrder] = [order |-> current[t], stock |-> current[t], known |-> known[t]]
    BY <2>1, <2>2 DEF Serial, Filled
  <2>4. result' = [result EXCEPT ![current[t]] = IF known[t] THEN nextOrder ELSE Failed]
    BY <2>2
  <2>5. ASSUME NEW p \in Push, result'[p] # Failed PROVE result'[p] < nextOrder' /\ Kept(p)'
    <3>1. CASE p = current[t]
      <4>1. known[t] /\ result'[p] = nextOrder
        BY <3>1, <2>2, <2>4, <2>5
      <4>2. orders'[nextOrder] = [order |-> p, stock |-> p, known |-> TRUE]
        BY <3>1, <2>3, <4>1
      <4>3. QED
        <5>1. orders'[result'[p]] = [order |-> p, stock |-> p, known |-> TRUE]
          BY ONLY <4>1, <4>2
        <5>2. result'[p] < nextOrder'
          BY <2>2, <4>1
        <5>3. QED
          BY ONLY <5>1, <5>2 DEF Kept
    <3>2. CASE p # current[t]
      BY <3>2, <2>1, <2>2, <2>4, <2>5 DEF Kept, Serial
    <3>3. QED
      BY <3>1, <3>2
  <2>6. \A p \in Push : p > pushes' => result'[p] = Failed
    BY <2>1, <2>2, <2>4 DEF Serial
  <2>7. \A k \in Entry : k < nextOrder' => orders[k].order = orders[k].stock /\ orders[k].order # NoPush
    BY SMTT(40), <2>1, <2>2, <2>3 DEF Serial
  <2>8. \A k \in Entry : k >= nextOrder' => orders[k] = Empty
    BY <2>1, <2>2 DEF Serial
  <2>9. QED
    BY <2>1, <2>2, <2>5, <2>6, <2>7, <2>8 DEF Serial
<1>8. QED
  BY <1>1, <1>2, <1>3, <1>4, <1>5, <1>6, <1>7 DEF Next, Step

\* Every state has the types of TypeOK.
THEOREM TypeCorrect == Spec => []TypeOK
<1>1. TableInv => TypeOK
  BY DEF TableInv
<1>2. QED
  BY <1>1, TableInitial, TableInductive, PTL DEF Spec

\* Pushes that come one after the other keep every accepted order, at a position of its
\* own, in a table without holes (order.c:113-176).
THEOREM SerialPushesKeepTable == Spec => []SerialTable
<1>1. Init => SerialInv
  BY TableInitial, SerialInitial DEF SerialInv
<1>2. SerialInv /\ [Next]_vars => SerialInv'
  BY TableInductive, SerialInductive DEF SerialInv
<1>3. SerialInv => SerialTable
  <2> SUFFICES ASSUME SerialInv, overlapping = {} PROVE SerialTable
    BY DEF SerialTable
  <2>1. Serial
    BY DEF SerialInv
  <2>2. ASSUME NEW p \in Push, NEW q \in Push, result[p] = result[q], result[p] # Failed
        PROVE  p = q
    <3>1. orders[result[p]].order = p /\ orders[result[q]].order = q
      <4>1. Kept(p) /\ Kept(q)
        BY <2>1, <2>2 DEF Serial
      <4>2. orders[result[p]] = [order |-> p, stock |-> p, known |-> TRUE]
        BY <4>1, <2>2, Zenon DEF Kept
      <4>3. orders[result[q]] = [order |-> q, stock |-> q, known |-> TRUE]
        BY <4>1, <2>2, Zenon DEF Kept
      <4>4. QED
        BY <4>2, <4>3
    <3>2. QED
      BY <2>2, <3>1
  <2>3. AcceptedKept
    BY <2>1, Zenon DEF Serial, AcceptedKept, Kept
  <2>4. QED
    BY <2>1, <2>2, <2>3 DEF Serial, SerialTable
<1>4. QED
  BY <1>1, <1>2, <1>3, PTL DEF Spec

\* A thread at work is past every order that was pushed alone, and so is nextOrder; a push
\* that has been alone so far has its entry to itself.
PastAlone(k) ==
  /\ k < nextOrder
  /\ \A t \in Busy : k < index[t] /\ (pc[t] = "store" => k < loaded[t])

Alone(t) ==
  /\ index[t] = nextOrder /\ (pc[t] = "store" => loaded[t] = nextOrder)
  /\ Filled(t)

AloneInv ==
  /\ \A t, u \in Busy : t # u => current[t] \in overlapping
  /\ \A t \in Busy : current[t] \notin overlapping => Alone(t)
  /\ \A p \in Push \ overlapping : result[p] # Failed => PastAlone(result[p]) /\ Kept(p)

\* A step does not touch an order that was pushed alone, nor go back behind it.
LEMMA AloneInductive == TableInv /\ AloneInv /\ [Next]_vars => AloneInv'
<1> SUFFICES ASSUME TableInv, AloneInv, [Next]_vars PROVE AloneInv'
  OBVIOUS
<1>0. TableInv'
  BY TableInductive
<1> USE TableAssumption, PushAssumption, <1>0 DEF TableInv, TypeOK, Entry, Push, NoPush, Failed
<1>1. CASE UNCHANGED vars
  BY <1>1 DEF vars, table, locals, history, AloneInv, Alone, PastAlone, Filled, Kept, Busy
<1>2. ASSUME NEW t \in Threads, PushOrder(t) PROVE AloneInv'
  <2>1. /\ pc' = [pc EXCEPT ![t] = "fill"] /\ index' = [index EXCEPT ![t] = nextOrder]
        /\ current' = [current EXCEPT ![t] = pushes'] /\ pc[t] = "idle"
        /\ UNCHANGED <<orders, nextOrder, loaded, result>>
    BY <1>2 DEF PushOrder, Begin, Goto, table
  <2>2. Busy' = Busy \cup {t} /\ t \notin Busy
    BY <2>1 DEF Busy
  <2>3. /\ overlapping \subseteq overlapping'
        /\ Busy # {} => \A u \in Busy' : current'[u] \in overlapping'
    BY <1>2, <2>1, <2>2 DEF PushOrder, NoteOverlap, Busy
  <2>4. ASSUME NEW p \in Push, p \notin overlapping', result'[p] # Failed
        PROVE  PastAlone(result[p])' /\ Kept(p)'
    <3>1. PastAlone(result[p]) /\ Kept(p) /\ result'[p] = result[p]
      BY <2>1, <2>3, <2>4 DEF AloneInv
    <3>2. ASSUME NEW u \in Busy'
          PROVE  result[p] < index'[u] /\ (pc'[u] = "store" => result[p] < loaded'[u])
      BY <2>1, <2>2, <3>1 DEF PastAlone, Busy
    <3>3. QED
      BY <2>1, <3>1, <3>2 DEF PastAlone, Kept
  <2>5. ASSUME NEW u \in Busy', current'[u] \notin overlapping' PROVE Alone(u)'
    <3>1. u = t
      BY <2>2, <2>3, <2>5
    <3>2. QED
      BY <2>1, <3>1 DEF Alone, Filled
  <2>6. \A u, v \in Busy' : u # v => current'[u] \in overlapping'
    BY <2>2, <2>3
  <2>7. QED
    BY <2>4, <2>5, <2>6 DEF AloneInv
<1>3. ASSUME NEW t \in Threads, PushRefused(t) PROVE AloneInv'
  <2>1. /\ UNCHANGED <<orders, nextOrder, pc, current, known, index, loaded, overlapping>>
        /\ result' = [result EXCEPT ![pushes'] = Failed]
    BY <1>3 DEF PushRefused, table, locals
  <2>2. Busy' = Busy
    BY <2>1 DEF Busy
  <2>3. ASSUME NEW p \in Push, p \notin overlapping', result'[p] # Failed
        PROVE  PastAlone(result[p])' /\ Kept(p)'
    <3>1. result'[p] = result[p] /\ PastAlone(result[p]) /\ Kept(p)
      BY <2>1, <2>3 DEF AloneInv
    <3>2. QED
      BY <2>1, <2>2, <3>1 DEF PastAlone, Kept
  <2>4. QED
    BY <2>1, <2>2, <2>3 DEF AloneInv, Alone, Filled
<1>4. ASSUME NEW t \in Threads, FillOrder(t) \/ FillStock(t) PROVE AloneInv'
  <2>1. /\ t \in Busy /\ UNCHANGED <<nextOrder, current, known, index, loaded, result, overlapping>>
        /\ \A k \in Entry : k # index[t] => orders'[k] = orders[k]
    BY <1>4 DEF FillOrder, FillStock, locals, history, Busy
  <2>2. /\ pc' \in [Threads -> {"idle", "fill", "stock", "load", "store"}]
        /\ pc'[t] \in {"stock", "load"} /\ \A u \in Threads : u # t => pc'[u] = pc[u]
    BY <1>4 DEF FillOrder, FillStock, Goto
  <2>3. Busy' = Busy
    BY <2>1, <2>2 DEF Busy
  <2>4. ASSUME NEW p \in Push, p \notin overlapping', result'[p] # Failed
        PROVE  PastAlone(result[p])' /\ Kept(p)'
    <3>1. PastAlone(result[p]) /\ Kept(p) /\ result[p] \in Entry
      BY <2>1, <2>4 DEF AloneInv
    <3>2. result[p] < index[t]
      BY <2>1, <3>1 DEF PastAlone
    <3>3. orders'[result[p]] = orders[result[p]]
      BY <2>1, <3>1, <3>2
    <3>4. ASSUME NEW u \in Busy'
          PROVE  result[p] < index'[u] /\ (pc'[u] = "store" => result[p] < loaded'[u])
      <4>1. u \in Busy /\ u \in Threads /\ (pc'[u] = "store" => pc[u] = "store")
        BY <2>2, <2>3 DEF Busy
      <4>2. QED
        BY <2>1, <3>1, <4>1 DEF PastAlone
    <3>5. PastAlone(result[p])'
      BY <2>1, <3>1, <3>4 DEF PastAlone
    <3>6. Kept(p)'
      BY ONLY <2>1, <3>1, <3>3 DEF Kept
    <3>7. QED
      BY <3>5, <3>6
  <2>5. ASSUME NEW u \in Busy', current'[u] \notin overlapping' PROVE Alone(u)'
    <3>1. u = t
      BY <2>1, <2>3, <2>5 DEF AloneInv
    <3>2. Alone(t)
      BY <2>1, <2>5, <3>1 DEF AloneInv
    <3>3. Filled(t)'
      <4>1. CASE FillOrder(t)
        BY <4>1, <2>1 DEF FillOrder, Goto, Filled
      <4>2. CASE FillStock(t)
        <5>1. pc[t] = "stock" /\ orders[index[t]].order = current[t]
          BY <3>2, <4>2 DEF FillStock, Alone, Filled
        <5>2. orders'[index[t]] =
                [order |-> orders[index[t]].order, stock |-> current[t], known |-> known[t]]
          BY <2>1, <4>2 DEF FillStock
        <5>3. orders'[index[t]] = [order |-> current[t], stock |-> current[t], known |-> known[t]]
          BY <5>1, <5>2
        <5>4. pc'[t] = "load"
          BY <4>2 DEF FillStock, Goto
        <5>5. QED
          BY <2>1, <5>3, <5>4 DEF Filled
      <4>3. QED
        BY <1>4, <4>1, <4>2
    <3>4. QED
      BY <2>1, <2>2, <3>1, <3>2, <3>3 DEF Alone
  <2>6. QED
    BY <2>1, <2>3, <2>4, <2>5 DEF AloneInv
<1>5. ASSUME NEW t \in Threads, LoadNext(t) PROVE AloneInv'
  <2>1. /\ pc[t] = "load" /\ pc' = [pc EXCEPT ![t] = "store"] /\ loaded' = [loaded EXCEPT ![t] = nextOrder]
        /\ UNCHANGED <<orders, nextOrder, current, known, index, result, overlapping>>
    BY <1>5 DEF LoadNext, Goto, table, history
  <2>2. Busy' = Busy /\ t \in Busy
    BY <2>1 DEF Busy
  <2>3. ASSUME NEW p \in Push, p \notin overlapping', result'[p] # Failed
        PROVE  PastAlone(result[p])' /\ Kept(p)'
    <3>1. PastAlone(result[p]) /\ Kept(p)
      BY <2>1, <2>3 DEF AloneInv
    <3>2. ASSUME NEW u \in Busy'
          PROVE  result[p] < index'[u] /\ (pc'[u] = "store" => result[p] < loaded'[u])
      BY <2>1, <2>2, <3>1 DEF PastAlone, Busy
    <3>3. QED
      BY <2>1, <3>1, <3>2 DEF PastAlone, Kept
  <2>4. ASSUME NEW u \in Busy', current'[u] \notin overlapping' PROVE Alone(u)'
    <3>1. u = t /\ Alone(t)
      BY <2>1, <2>2, <2>4 DEF AloneInv
    <3>2. QED
      BY <2>1, <3>1 DEF Alone, Filled
  <2>5. QED
    BY <2>1, <2>2, <2>3, <2>4 DEF AloneInv
<1>6. ASSUME NEW t \in Threads, StoreNext(t) PROVE AloneInv'
  <2>1. /\ pc[t] = "store" /\ pc' = [pc EXCEPT ![t] = "idle"] /\ nextOrder' = loaded[t] + 1
        /\ result' = [result EXCEPT ![current[t]] = IF known[t] THEN index[t] ELSE Failed]
        /\ UNCHANGED <<orders, current, known, index, loaded, overlapping>>
    BY <1>6 DEF StoreNext, Goto, locals
  <2>2. Busy' = Busy \ {t} /\ t \in Busy /\ current[t] \in Push
    BY <2>1 DEF Busy
  <2>3. ASSUME NEW p \in Push, p \notin overlapping', result'[p] # Failed, p # current[t]
        PROVE  PastAlone(result[p])' /\ Kept(p)'
    <3>1. PastAlone(result[p]) /\ Kept(p) /\ result'[p] = result[p] /\ result[p] \in Entry
      BY <2>1, <2>3 DEF AloneInv
    <3>2. result[p] < loaded[t]
      BY <2>1, <2>2, <3>1 DEF PastAlone
    <3>3. \A u \in Busy' : u \in Busy /\ pc'[u] = pc[u]
      BY <2>1, <2>2 DEF Busy
    <3>4. loaded[t] \in Nat /\ result[p] \in Nat
      BY <2>2, <3>1 DEF Busy
    <3>5. PastAlone(result[p])'
      <4>1. result'[p] < nextOrder'
        BY <2>1, <3>1, <3>2, <3>4
      <4>2. QED
        BY <2>1, <3>1, <3>3, <4>1 DEF PastAlone
    <3>6. Kept(p)'
      BY ONLY <2>1, <3>1 DEF Kept
    <3>7. QED
      BY <3>5, <3>6
  <2>4. ASSUME current[t] \notin overlapping, result'[current[t]] # Failed
        PROVE  PastAlone(result[current[t]])' /\ Kept(current[t])'
    <3>1. Alone(t) /\ Busy = {t}
      BY <2>2, <2>4 DEF AloneInv
    <3>2. known[t] /\ result'[current[t]] = index[t] /\ index[t] = nextOrder /\ nextOrder \in Entry
          /\ loaded[t] = nextOrder
      BY <2>1, <2>2, <2>4, <3>1 DEF Alone
    <3>3. orders[index[t]] = [order |-> current[t], stock |-> current[t], known |-> known[t]]
      BY <2>1, <3>1 DEF Alone, Filled
    <3>4. known[t] = TRUE
      BY <3>2
    <3>5. Kept(current[t])'
      BY ONLY <2>1, <3>2, <3>3, <3>4 DEF Kept
    <3>6. PastAlone(result[current[t]])'
      BY <2>1, <2>2, <3>1, <3>2 DEF PastAlone
    <3>7. QED
      BY <3>5, <3>6
  <2>5. ASSUME NEW u \in Busy', current'[u] \notin overlapping' PROVE Alone(u)'
    BY <2>1, <2>2, <2>5 DEF AloneInv
  <2>6. QED
    BY <2>1, <2>2, <2>3, <2>4, <2>5 DEF AloneInv
<1>7. QED
  BY <1>1, <1>2, <1>3, <1>4, <1>5, <1>6 DEF Next, Step

\* For any number of threads and entries: whatever races on nextOrder come before or after
\* it, an order that was pushed alone stays whole where its caller was told it is.
THEOREM AlonePushesKept == Spec => []AloneKept
<1>1. Init => TableInv /\ AloneInv
  BY TableInitial, Zenon DEF Init, AloneInv, Busy, Push
<1>2. TableInv /\ AloneInv /\ [Next]_vars => TableInv' /\ AloneInv'
  BY TableInductive, AloneInductive
<1>3. AloneInv => AloneKept
  BY DEF AloneInv, AloneKept, Kept
<1>4. QED
  BY <1>1, <1>2, <1>3, PTL DEF Spec
-----------------------------------------------------------------------------
\* Some numbers that are not negative have a least one.
LEMMA LeastNat ==
  ASSUME NEW S, S \subseteq Nat, S # {}
  PROVE  \E m \in S : \A k \in S : m <= k
<1>1. PICK m \in S : \A k \in S : <<k, m>> \notin OpToRel(<, Nat)
  BY NatLessThanWellFounded, WFMin, Zenon
<1>2. \A k \in S : ~(k < m)
  BY <1>1, Zenon DEF OpToRel
<1>3. QED
  BY <1>2

\* What Min chooses is the least.
LEMMA MinChosen ==
  ASSUME NEW S, S \subseteq Nat, S # {}
  PROVE  Min(S) \in S /\ \A k \in S : Min(S) <= k
<1>1. \E m \in S : \A k \in S : m <= k
  BY LeastNat
<1>2. QED
  BY <1>1 DEF Min

\* One round of the search for a code, where f answers for the rounds behind it.
Halves == (0..StockMax) \X (0..StockMax)

Halved(code, f, r) ==
  LET m == (r[1] + r[2]) \div 2
  IN  IF r[1] >= r[2] THEN NULL_INDEX
      ELSE IF code < stock[m].isinCod THEN f[<<r[1], m>>]
      ELSE IF code > stock[m].isinCod THEN f[<<m + 1, r[2]>>]
      ELSE m

Searches(code, f) == f = [r \in Halves |-> Halved(code, f, r)]

\* The places left grow fewer in each round.
LEMMA HalvesShrink ==
  ASSUME NEW l \in 0..StockMax, NEW u \in 0..StockMax, l < u, NEW m, m = (l + u) \div 2
  PROVE  /\ m \in 0..StockMax /\ m + 1 \in 0..StockMax
         /\ l <= m /\ m < u
BY StockAssumption

\* A round asks only for fewer places than it has.
LEMMA AsksForFewer ==
  ASSUME NEW code, NEW l \in 0..StockMax, NEW u \in 0..StockMax, NEW f, NEW g,
         \A i, j \in 0..StockMax : j - i < u - l => f[<<i, j>>] = g[<<i, j>>]
  PROVE  Halved(code, f, <<l, u>>) = Halved(code, g, <<l, u>>)
<1>1. CASE l >= u
  BY <1>1 DEF Halved
<1>2. CASE l < u
  <2>1. PICK m : m = (l + u) \div 2
    OBVIOUS
  <2>2. m \in 0..StockMax /\ m + 1 \in 0..StockMax /\ l <= m /\ m < u
    BY <1>2, <2>1, HalvesShrink
  <2>3. m - l < u - l /\ u - (m + 1) < u - l
    BY <2>2, StockAssumption
  <2>4. f[<<l, m>>] = g[<<l, m>>] /\ f[<<m + 1, u>>] = g[<<m + 1, u>>]
    BY <2>2, <2>3
  <2>5. QED
    BY <2>1, <2>4 DEF Halved
<1>3. QED
  BY <1>1, <1>2, StockAssumption

\* There is a function that does what the search does.
LEMMA SearchExists ==
  ASSUME NEW code
  PROVE  \E f : Searches(code, f)
<1> DEFINE Answers(n, f) == \A l, u \in 0..StockMax : u - l < n =>
                              f[<<l, u>>] = Halved(code, f, <<l, u>>)
           Round(f) == [r \in Halves |-> Halved(code, f, r)]
           wrong == {n \in Nat : ~\E f : Answers(n, f)}
<1>0. ASSUME NEW n \in Nat, NEW g, Answers(n, g)
      PROVE  \A l, u \in 0..StockMax : u - l < n + 1 =>
               /\ Round(g)[<<l, u>>] = Halved(code, g, <<l, u>>)
               /\ Halved(code, g, <<l, u>>) = Halved(code, Round(g), <<l, u>>)
  <2> SUFFICES ASSUME NEW l \in 0..StockMax, NEW u \in 0..StockMax, u - l < n + 1
               PROVE  /\ Round(g)[<<l, u>>] = Halved(code, g, <<l, u>>)
                      /\ Halved(code, g, <<l, u>>) = Halved(code, Round(g), <<l, u>>)
    OBVIOUS
  <2>1. \A i, j \in 0..StockMax : Round(g)[<<i, j>>] = Halved(code, g, <<i, j>>)
    BY DEF Halves
  <2>2. \A i, j \in 0..StockMax : j - i < u - l => j - i < n
    BY StockAssumption
  <2>3. \A i, j \in 0..StockMax : j - i < u - l => g[<<i, j>>] = Round(g)[<<i, j>>]
    BY <1>0, <2>1, <2>2
  <2> HIDE DEF Round
  <2>4. QED
    BY <2>1, <2>3, AsksForFewer
<1>1. wrong = {}
  <2> SUFFICES ASSUME wrong # {} PROVE FALSE
    OBVIOUS
  <2>1. PICK n \in wrong : \A k \in wrong : n <= k
    <3>1. wrong \subseteq Nat
      OBVIOUS
    <3> HIDE DEF wrong
    <3>2. QED
      BY <3>1, LeastNat
  <2>2. n \in Nat /\ ~\E f : Answers(n, f)
    BY <2>1
  <2>3. n # 0
    <3> DEFINE none == [r \in Halves |-> NULL_INDEX]
    <3>1. ASSUME NEW l \in 0..StockMax, NEW u \in 0..StockMax, u - l < 0
          PROVE  none[<<l, u>>] = Halved(code, none, <<l, u>>)
      <4>1. l >= u
        BY <3>1, StockAssumption
      <4>2. none[<<l, u>>] = NULL_INDEX
        BY DEF Halves
      <4>3. QED
        BY <4>1, <4>2 DEF Halved
    <3>2. Answers(0, none)
      BY <3>1
    <3> HIDE DEF none, Answers
    <3>3. QED
      BY <2>2, <3>2
  <2>4. n - 1 \in Nat /\ ~(n <= n - 1)
    BY <2>2, <2>3
  <2>5. PICK g : Answers(n - 1, g)
    <3>1. n - 1 \notin wrong
      <4> HIDE DEF wrong
      <4>1. QED
        BY <2>1, <2>4
    <3> HIDE DEF Answers
    <3>2. QED
      BY <2>4, <3>1
  <2>6. Answers(n, Round(g))
    <3> HIDE DEF Round
    <3>1. (n - 1) + 1 = n
      BY <2>2
    <3>2. \A l, u \in 0..StockMax : u - l < (n - 1) + 1 =>
               /\ Round(g)[<<l, u>>] = Halved(code, g, <<l, u>>)
               /\ Halved(code, g, <<l, u>>) = Halved(code, Round(g), <<l, u>>)
      <4> HIDE DEF Answers
      <4>1. QED
        BY <1>0, <2>4, <2>5
    <3>3. QED
      BY <3>1, <3>2
  <2>7. QED
    BY <2>2, <2>6
<1>2. PICK g : Answers(StockMax + 1, g)
  <2>1. StockMax + 1 \in Nat
    BY StockAssumption
  <2>2. QED
    BY <1>1, <2>1
<1>3. \A l, u \in 0..StockMax : Round(g)[<<l, u>>] = Halved(code, Round(g), <<l, u>>)
  <2>1. \A l, u \in 0..StockMax : u - l < StockMax + 1 /\ u - l < (StockMax + 1) + 1
    BY StockAssumption
  <2> HIDE DEF Round
  <2>2. \A l, u \in 0..StockMax : u - l < (StockMax + 1) + 1 =>
             /\ Round(g)[<<l, u>>] = Halved(code, g, <<l, u>>)
             /\ Halved(code, g, <<l, u>>) = Halved(code, Round(g), <<l, u>>)
    <3> HIDE DEF Answers
    <3>1. StockMax + 1 \in Nat
      BY StockAssumption
    <3>2. QED
      BY <1>0, <1>2, <3>1
  <2>3. QED
    BY <2>1, <2>2
<1>4. Round(g) = [r \in Halves |-> Halved(code, Round(g), r)]
  <2>1. \A r \in Halves : Halved(code, g, r) = Halved(code, Round(g), r)
    <3> SUFFICES ASSUME NEW r \in Halves PROVE Halved(code, g, r) = Halved(code, Round(g), r)
      OBVIOUS
    <3>1. PICK l \in 0..StockMax, u \in 0..StockMax : r = <<l, u>>
      BY DEF Halves
    <3>2. Round(g)[<<l, u>>] = Halved(code, g, <<l, u>>)
      BY DEF Halves
    <3> HIDE DEF Round
    <3>3. QED
      BY <1>3, <3>1, <3>2
  <2>2. \A h : (\A r \in Halves : Halved(code, g, r) = Halved(code, h, r))
               => [r \in Halves |-> Halved(code, g, r)] = [r \in Halves |-> Halved(code, h, r)]
    OBVIOUS
  <2>3. QED
    BY <2>1, <2>2
<1>5. QED
  BY <1>4 DEF Searches

\* GetStockByIsinCod answers what such a function does about the whole table.
LEMMA SearchAnswers ==
  ASSUME NEW code
  PROVE  \E f : Searches(code, f) /\ GetStockByIsinCod(code) = f[<<0, nextStock>>]
<1>1. GetStockByIsinCod(code) = (CHOOSE f : Searches(code, f))[<<0, nextStock>>]
  BY DEF GetStockByIsinCod, Searches, Halved, Halves
<1>2. Searches(code, CHOOSE f : Searches(code, f))
  BY SearchExists
<1>3. QED
  BY <1>1, <1>2

\* What stands in a place of the table.
Amounts == {0} \cup {m.amount : m \in Markets}
PhasesBefore == {""} \cup {m.prePhase : m \in Markets}
Phases == {""} \cup {m.phase : m \in Markets}
Stocks == [isinCod : Nat, stockNo : Int, categoryNo : CategoryIds \cup {0, NULL_INDEX},
           nextCategory : Int, amount : Amounts,
           prePrcsStsValCod : PhasesBefore, prcsStsValCod : Phases]

\* The stocks stand in the order of their codes.
SortedInv ==
  /\ nextStock \in 0..StockMax
  /\ stock \in [Place -> Stocks]
  /\ \A p, q \in 0..nextStock - 1 : p < q => stock[p].isinCod <= stock[q].isinCod

\* The answer a search for a code ought to give.
RightAnswer(code, a) ==
  \/ a \in 0..nextStock - 1 /\ stock[a].isinCod = code
  \/ a = NULL_INDEX /\ \A p \in 0..nextStock - 1 : stock[p].isinCod # code

\* The places before l have smaller codes, those from u on greater ones.
Narrowed(code, l, u) ==
  \A p \in 0..nextStock - 1 : /\ p < l => stock[p].isinCod < code
                              /\ p >= u => stock[p].isinCod > code

LEMMA ListedCodes ==
  ASSUME SortedInv, NEW p \in 0..nextStock - 1
  PROVE  stock[p].isinCod \in Nat
<1>1. p \in Place
  BY StockAssumption DEF SortedInv, Place
<1>2. stock[p] \in Stocks
  BY <1>1 DEF SortedInv
<1>3. QED
  BY <1>2 DEF Stocks

\* In a sorted table a round of the search leaves out only places without the code.
LEMMA RoundNarrows ==
  ASSUME SortedInv, NEW code \in Nat, NEW f, NEW l \in 0..nextStock, NEW u \in 0..nextStock,
         l <= u, Narrowed(code, l, u),
         \A i, j \in 0..nextStock : /\ i <= j /\ j - i < u - l /\ Narrowed(code, i, j)
                                    => RightAnswer(code, f[<<i, j>>])
  PROVE  RightAnswer(code, Halved(code, f, <<l, u>>))
<1>1. \A p \in 0..nextStock - 1 : stock[p].isinCod \in Nat
  BY ListedCodes
<1>2. CASE l = u
  <2>1. \A p \in 0..nextStock - 1 : stock[p].isinCod # code
    BY <1>1, <1>2 DEF Narrowed, SortedInv
  <2>2. Halved(code, f, <<l, u>>) = NULL_INDEX
    BY <1>2 DEF Halved, SortedInv
  <2>3. QED
    BY <2>1, <2>2 DEF RightAnswer
<1>3. CASE l < u
  <2>1. PICK m : m = (l + u) \div 2
    OBVIOUS
  <2>2. m \in 0..nextStock - 1 /\ m + 1 \in 0..nextStock /\ l <= m /\ m < u
    <3>1. nextStock \in 0..StockMax
      BY DEF SortedInv
    <3>2. QED
      BY <1>3, <2>1, <3>1, StockAssumption
  <2>3. m - l < u - l /\ u - (m + 1) < u - l /\ m + 1 <= u /\ m \in 0..nextStock
    BY <2>2 DEF SortedInv
  <2>4. stock[m].isinCod \in Nat
    BY <1>1, <2>2
  <2>5. CASE code < stock[m].isinCod
    <3>1. Narrowed(code, l, m)
      <4> SUFFICES ASSUME NEW p \in 0..nextStock - 1
                   PROVE  /\ p < l => stock[p].isinCod < code
                          /\ p >= m => stock[p].isinCod > code
        BY DEF Narrowed
      <4>1. m < p => stock[m].isinCod <= stock[p].isinCod
        BY <2>2 DEF SortedInv
      <4>2. m < p \/ m = p \/ p < m
        BY <2>2
      <4>3. QED
        BY <1>1, <2>2, <2>4, <2>5, <4>1, <4>2 DEF Narrowed
    <3>2. RightAnswer(code, f[<<l, m>>])
      BY <2>2, <2>3, <3>1
    <3>3. Halved(code, f, <<l, u>>) = f[<<l, m>>]
      BY <1>3, <2>1, <2>5 DEF Halved, SortedInv
    <3>4. QED
      BY <3>2, <3>3
  <2>6. CASE code > stock[m].isinCod
    <3>1. Narrowed(code, m + 1, u)
      <4> SUFFICES ASSUME NEW p \in 0..nextStock - 1
                   PROVE  /\ p < m + 1 => stock[p].isinCod < code
                          /\ p >= u => stock[p].isinCod > code
        BY DEF Narrowed
      <4>1. p < m => stock[p].isinCod <= stock[m].isinCod
        BY <2>2 DEF SortedInv
      <4>2. m < p \/ m = p \/ p < m
        BY <2>2
      <4>3. QED
        BY <1>1, <2>2, <2>4, <2>6, <4>1, <4>2 DEF Narrowed
    <3>2. RightAnswer(code, f[<<m + 1, u>>])
      BY <2>2, <2>3, <3>1
    <3>3. Halved(code, f, <<l, u>>) = f[<<m + 1, u>>]
      BY <1>3, <2>1, <2>4, <2>6 DEF Halved, SortedInv
    <3>4. QED
      BY <3>2, <3>3
  <2>7. CASE code = stock[m].isinCod
    <3>1. Halved(code, f, <<l, u>>) = m
      BY <1>3, <2>1, <2>4, <2>7 DEF Halved, SortedInv
    <3>2. QED
      BY <2>2, <2>7, <3>1 DEF RightAnswer
  <2>8. QED
    BY <2>4, <2>5, <2>6, <2>7
<1>4. QED
  BY <1>2, <1>3 DEF SortedInv

\* In a sorted table the search is right about every code.
LEMMA SearchFinds ==
  ASSUME SortedInv, NEW code \in Nat
  PROVE  RightAnswer(code, GetStockByIsinCod(code))
<1>1. PICK f : Searches(code, f) /\ GetStockByIsinCod(code) = f[<<0, nextStock>>]
  BY SearchAnswers
<1> DEFINE Open(l, u) == l <= u /\ Narrowed(code, l, u) /\ ~RightAnswer(code, f[<<l, u>>])
           wrong == {n \in Nat : \E l, u \in 0..nextStock : u - l = n /\ Open(l, u)}
<1>2. \A l, u \in 0..nextStock : f[<<l, u>>] = Halved(code, f, <<l, u>>)
  <2>1. 0..nextStock \subseteq 0..StockMax
    BY StockAssumption DEF SortedInv
  <2>2. QED
    BY <1>1, <2>1 DEF Searches, Halves
<1>3. ASSUME wrong # {} PROVE FALSE
  <2>1. PICK n \in wrong : \A k \in wrong : n <= k
    <3>1. wrong \subseteq Nat
      OBVIOUS
    <3> HIDE DEF wrong
    <3>2. QED
      BY <1>3, <3>1, LeastNat
  <2>2. PICK l \in 0..nextStock, u \in 0..nextStock : n = u - l /\ Open(l, u)
    BY <2>1
  <2>3. ASSUME NEW i \in 0..nextStock, NEW j \in 0..nextStock,
               i <= j, j - i < u - l, Narrowed(code, i, j)
        PROVE  RightAnswer(code, f[<<i, j>>])
    <3>1. j - i \in Nat /\ ~(n <= j - i)
      BY <2>2, <2>3 DEF SortedInv
    <3>2. j - i \notin wrong
      <4> HIDE DEF wrong
      <4>1. QED
        BY <2>1, <3>1
    <3>3. ~Open(i, j)
      <4> HIDE DEF Open
      <4>1. QED
        BY <3>1, <3>2
    <3>4. QED
      BY <2>3, <3>3
  <2>4. RightAnswer(code, Halved(code, f, <<l, u>>))
    BY <2>2, <2>3, RoundNarrows
  <2>5. QED
    BY <1>2, <2>2, <2>4
<1>4. Narrowed(code, 0, nextStock) /\ 0 <= nextStock /\ 0 \in 0..nextStock /\ nextStock \in 0..nextStock
  BY StockAssumption DEF Narrowed, SortedInv
<1>5. nextStock - 0 \notin wrong
  BY <1>3
<1>6. nextStock - 0 \in Nat
  BY <1>4
<1>7. QED
  BY <1>1, <1>4, <1>5, <1>6

\* A step that changes only other fields leaves the order alone.
LEMMA SameCodes ==
  ASSUME SortedInv, nextStock' = nextStock, stock' \in [Place -> Stocks],
         \A p \in Place : stock'[p].isinCod = stock[p].isinCod
  PROVE  SortedInv'
<1>1. 0..nextStock - 1 \subseteq Place
  BY StockAssumption DEF SortedInv, Place
<1>2. QED
  BY <1>1 DEF SortedInv

\* The new stock goes behind the codes that are not greater, those that are move up.
LEMMA AddedInOrder ==
  ASSUME SortedInv, NEW code \in Nat, AddStock(code)
  PROVE  SortedInv'
<1>0. nextStock \in Nat /\ nextStock < StockMax /\ StockMax \in Nat
  BY StockAssumption DEF SortedInv, AddStock
<1>1. PICK p : p = InsertPlace(code)
  OBVIOUS
<1>2. /\ p \in 0..nextStock
      /\ p # nextStock => stock[p].isinCod > code
      /\ \A q \in 0..nextStock - 1 : q < p => ~(stock[q].isinCod > code)
  <2> DEFINE S == Greater(code) \cup {nextStock}
  <2>1. S \subseteq Nat /\ S # {} /\ nextStock \in S
    BY <1>0 DEF Greater
  <2>2. Min(S) \in S /\ \A k \in S : Min(S) <= k
    <3> HIDE DEF S
    <3>1. QED
      BY <2>1, MinChosen
  <2>3. p = Min(S)
    BY <1>1 DEF InsertPlace
  <2>4. p \in S /\ \A k \in S : p <= k
    BY <2>2, <2>3
  <2>5. QED
    BY <1>0, <2>1, <2>4 DEF Greater
<1> DEFINE new == [stock[p] EXCEPT !.isinCod = code, !.stockNo = p,
                                   !.categoryNo = NULL_INDEX, !.nextCategory = NULL_INDEX]
           up(q) == [stock[q - 1] EXCEPT !.stockNo = q]
<1>3. /\ stock' = [q \in Place |-> IF q \in p..nextStock THEN (IF q = p THEN new ELSE up(q)) ELSE stock[q]]
      /\ nextStock' = nextStock + 1
  BY <1>1 DEF AddStock
<1>4. p \in Place /\ \A q \in Place : stock[q] \in Stocks
  BY <1>0, <1>2 DEF SortedInv, Place
<1>5. new \in Stocks /\ new.isinCod = code
  <2>1. PICK r \in Stocks : r = stock[p]
    BY <1>4
  <2>2. p \in Int /\ NULL_INDEX \in Int
    BY <1>2 DEF NULL_INDEX
  <2>3. QED
    BY <2>1, <2>2 DEF Stocks
<1>6. \A q \in Place : q \in p..nextStock /\ q # p =>
        q - 1 \in Place /\ up(q) \in Stocks /\ up(q).isinCod = stock[q - 1].isinCod
  <2> SUFFICES ASSUME NEW q \in Place, q \in p..nextStock, q # p
               PROVE  q - 1 \in Place /\ up(q) \in Stocks /\ up(q).isinCod = stock[q - 1].isinCod
    OBVIOUS
  <2>1. q - 1 \in Place /\ q \in Int
    BY <1>0, <1>2 DEF Place
  <2>2. PICK r \in Stocks : r = stock[q - 1]
    BY <1>4, <2>1
  <2>3. QED
    BY <2>1, <2>2 DEF Stocks
<1> HIDE DEF new, up
<1>7. stock' \in [Place -> Stocks]
  BY <1>3, <1>4, <1>5, <1>6
<1>8. /\ nextStock' \in 0..StockMax
      /\ 0..nextStock' - 1 \subseteq Place
  BY <1>0, <1>3 DEF Place
<1>9. \A q \in 0..nextStock : stock'[q].isinCod = IF q < p THEN stock[q].isinCod
                                                  ELSE IF q = p THEN code ELSE stock[q - 1].isinCod
  <2> SUFFICES ASSUME NEW q \in 0..nextStock
               PROVE  stock'[q].isinCod = IF q < p THEN stock[q].isinCod
                                          ELSE IF q = p THEN code ELSE stock[q - 1].isinCod
    OBVIOUS
  <2>1. q \in Place
    BY <1>0 DEF Place
  <2>2. CASE q < p
    BY <1>2, <1>3, <2>1, <2>2
  <2>3. CASE q = p
    BY <1>2, <1>3, <1>5, <2>1, <2>3
  <2>4. CASE q > p
    BY <1>2, <1>3, <1>6, <2>1, <2>4
  <2>5. QED
    BY <1>2, <2>2, <2>3, <2>4
<1>10. \A q \in 0..nextStock - 1 : stock[q].isinCod \in Nat
  <2>1. \A q \in 0..nextStock - 1 : q \in Place
    BY <1>0 DEF Place
  <2>2. QED
    BY <1>4, <2>1 DEF Stocks
<1>11. ASSUME NEW i \in 0..nextStock, NEW j \in 0..nextStock, i < j
       PROVE  stock'[i].isinCod <= stock'[j].isinCod
  <2>1. \A q, r \in 0..nextStock - 1 : q < r => stock[q].isinCod <= stock[r].isinCod
    BY DEF SortedInv
  <2>2. /\ i < p => i \in 0..nextStock - 1 /\ stock[i].isinCod <= code
        /\ j < p => j \in 0..nextStock - 1
        /\ i > p => i - 1 \in 0..nextStock - 1 /\ i - 1 < j - 1
        /\ j > p => j - 1 \in 0..nextStock - 1 /\ (i < p => i < j - 1)
    BY <1>0, <1>2, <1>10, <1>11
  <2>3. p < nextStock => \A q \in 0..nextStock - 1 : q >= p => stock[q].isinCod > code
    <3> SUFFICES ASSUME p < nextStock, NEW q \in 0..nextStock - 1, q >= p PROVE stock[q].isinCod > code
      OBVIOUS
    <3>1. p \in 0..nextStock - 1 /\ stock[p].isinCod > code
      BY <1>0, <1>2
    <3>2. q = p \/ stock[p].isinCod <= stock[q].isinCod
      BY <2>1, <3>1
    <3>3. QED
      BY <1>10, <3>1, <3>2
  <2>4. CASE j < p
    BY <1>2, <1>9, <2>1, <2>2, <2>4, <1>11
  <2>5. CASE j = p
    BY <1>2, <1>9, <2>2, <2>5, <1>11
  <2>6. CASE j > p /\ i < p
    BY <1>2, <1>9, <2>1, <2>2, <2>6, <1>11
  <2>7. CASE j > p /\ i = p
    <3>1. j - 1 >= p /\ p < nextStock /\ j - 1 \in 0..nextStock - 1
      BY <1>0, <1>2, <2>7
    <3>2. stock[j - 1].isinCod > code
      BY <2>3, <3>1
    <3>3. QED
      BY <1>2, <1>9, <1>10, <2>7, <3>1, <3>2
  <2>8. CASE i > p
    BY <1>2, <1>9, <2>1, <2>2, <2>8, <1>11
  <2>9. QED
    BY <1>2, <2>4, <2>5, <2>6, <2>7, <2>8, <1>11
<1>12. 0..nextStock' - 1 = 0..nextStock
  BY <1>0, <1>3
<1>13. QED
  BY <1>7, <1>8, <1>11, <1>12 DEF SortedInv

\* The codes stay in order whatever categories and the market change.
LEMMA SortedInductive ==
  ASSUME SortedInv, [TradeNext]_tradeVars
  PROVE  SortedInv'
<1>0. \A p \in Place : stock[p] \in Stocks
  BY DEF SortedInv
<1>1. ASSUME NEW code \in Codes, AddStock(code) PROVE SortedInv'
  BY <1>1, AddedInOrder, StockAssumption
<1>2. ASSUME NEW id \in CategoryIds, NEW p \in 0..nextStock - 1, AddCategoryStock(id, p) PROVE SortedInv'
  <2>1. PICK last : last = category[GetCategoryById(id)].lastStock
    OBVIOUS
  <2>2. p \in Place /\ nextStock' = nextStock
    BY <1>2, StockAssumption DEF SortedInv, Place, AddCategoryStock
  <2>3. PICK no \in Int : no = stock[p].stockNo
    BY <1>0, <2>2 DEF Stocks
  <2> DEFINE entered == [stock EXCEPT ![p].categoryNo = id]
  <2>4. stock' = entered \/ stock' = [entered EXCEPT ![last].nextCategory = no]
    BY <1>2, <2>1, <2>3 DEF AddCategoryStock
  <2>5. \A q \in Place : entered[q] \in Stocks /\ entered[q].isinCod = stock[q].isinCod
    BY <1>0 DEF SortedInv, Stocks
  <2>6. entered \in [Place -> Stocks]
    BY <2>5 DEF SortedInv
  <2> HIDE DEF entered
  <2>7. /\ stock' \in [Place -> Stocks]
        /\ \A q \in Place : stock'[q].isinCod = entered[q].isinCod
    BY <2>4, <2>6 DEF Stocks
  <2>8. QED
    BY <2>2, <2>5, <2>7, SameCodes
<1>3. ASSUME NEW p \in Place, Trading(p) PROVE SortedInv'
  <2>1. PICK m \in Markets : stock' = [stock EXCEPT ![p].amount = m.amount,
                               ![p].prePrcsStsValCod = m.prePhase, ![p].prcsStsValCod = m.phase]
    BY <1>3 DEF Trading
  <2>2. PICK a \in Amounts, b \in PhasesBefore, c \in Phases :
          a = m.amount /\ b = m.prePhase /\ c = m.phase
    BY DEF Amounts, PhasesBefore, Phases
  <2>3. stock' = [stock EXCEPT ![p].amount = a, ![p].prePrcsStsValCod = b, ![p].prcsStsValCod = c]
    BY <2>1, <2>2
  <2>4. stock' \in [Place -> Stocks] /\ \A q \in Place : stock'[q].isinCod = stock[q].isinCod
    BY ZenonT(40), <2>3 DEF SortedInv, Stocks
  <2>5. nextStock' = nextStock
    BY <1>3 DEF Trading
  <2>6. QED
    BY <2>4, <2>5, SameCodes
<1>4. CASE UNCHANGED <<stock, nextStock>>
  BY <1>4 DEF SortedInv
<1>5. QED
  BY <1>1, <1>2, <1>3, <1>4 DEF TradeNext, StockNext, tradeVars, stockVars, AddCategory

LEMMA SortedInitial ==
  ASSUME TradeInit
  PROVE  SortedInv
<1>1. 0 \in Nat /\ 0 \in CategoryIds \cup {0, NULL_INDEX} /\ 0 \in Amounts /\ "" \in PhasesBefore /\ "" \in Phases
  BY DEF Amounts, PhasesBefore, Phases
<1>2. stock \in [Place -> Stocks]
  <2>1. [isinCod |-> 0, stockNo |-> 0, categoryNo |-> 0, nextCategory |-> 0, amount |-> 0,
         prePrcsStsValCod |-> "", prcsStsValCod |-> ""] \in Stocks
    <3>1. PICK a \in Amounts, b \in PhasesBefore, c \in Phases, d \in CategoryIds \cup {0, NULL_INDEX} :
            a = 0 /\ b = "" /\ c = "" /\ d = 0
      BY <1>1
    <3>2. [isinCod |-> 0, stockNo |-> 0, categoryNo |-> d, nextCategory |-> 0, amount |-> a,
           prePrcsStsValCod |-> b, prcsStsValCod |-> c] \in Stocks
      BY DEF Stocks
    <3>3. QED
      BY <3>1, <3>2
  <2>2. QED
    BY <2>1 DEF TradeInit, StockInit
<1>3. nextStock = 0
  BY DEF TradeInit, StockInit
<1>4. QED
  BY <1>2, <1>3, StockAssumption DEF SortedInv

\* However codes come, once or several times, and whatever else happens to the stocks:
\* the table stays in their order, so the search finds every code that was added and no
\* other (stock.c:109-125, 236-306).
THEOREM CodesFound == TradeSpec => []FoundByCode
<1>1. SortedInv => FoundByCode
  <2> SUFFICES ASSUME SortedInv, NEW code \in Codes
               PROVE  LET p == GetStockByIsinCod(code)
                      IN  IF code \in {stock[q].isinCod : q \in 0..nextStock - 1}
                          THEN p # NULL_INDEX /\ stock[p].isinCod = code
                          ELSE p = NULL_INDEX
    BY DEF FoundByCode
  <2>1. RightAnswer(code, GetStockByIsinCod(code))
    BY SearchFinds, StockAssumption
  <2>2. nextStock \in Nat
    BY StockAssumption DEF SortedInv
  <2>3. QED
    BY <2>1, <2>2 DEF RightAnswer, NULL_INDEX
<1>2. QED
  BY <1>1, SortedInitial, SortedInductive, PTL DEF TradeSpec
-----------------------------------------------------------------------------
(***************************************************************************)
(* The sets.  Number x of a set is member x % SetSizeMax of a piece.       *)
(***************************************************************************)
LEMMA Divided ==
  ASSUME NEW x \in Nat
  PROVE  /\ x \div SetSizeMax \in Nat /\ x % SetSizeMax \in 0..SetSizeMax - 1
         /\ x = SetSizeMax * (x \div SetSizeMax) + (x % SetSizeMax)
<1>1. PICK n \in Nat \ {0} : n = SetSizeMax
  BY SetAssumption
<1>2. x \div n \in Nat /\ x % n \in 0..n - 1 /\ x = n * (x \div n) + (x % n)
  OBVIOUS
<1>3. QED
  BY <1>1, <1>2

\* A quotient and a rest determine each other.
LEMMA DividedOnce ==
  ASSUME NEW n \in Nat \ {0}, NEW a \in Int, NEW b \in Int, NEW p \in 0..n - 1, NEW q \in 0..n - 1,
         n * a + p = n * b + q
  PROVE  a = b /\ p = q
<1>1. CASE a < b
  <2>1. n * (b - a) >= n
    BY <1>1
  <2>2. n * (b - a) = p - q
    OBVIOUS
  <2>3. QED
    BY <2>1, <2>2
<1>2. CASE a > b
  <2>1. n * (a - b) >= n
    BY <1>2
  <2>2. n * (a - b) = q - p
    OBVIOUS
  <2>3. QED
    BY <2>1, <2>2
<1>3. QED
  BY <1>1, <1>2

\* The next trade goes to the next member, or to member 0 of the next piece.
LEMMA NextCell ==
  ASSUME NEW x \in Nat
  PROVE  /\ x % SetSizeMax # SetSizeMax - 1 =>
              /\ (x + 1) \div SetSizeMax = x \div SetSizeMax
              /\ (x + 1) % SetSizeMax = (x % SetSizeMax) + 1
         /\ x % SetSizeMax = SetSizeMax - 1 =>
              /\ (x + 1) \div SetSizeMax = (x \div SetSizeMax) + 1
              /\ (x + 1) % SetSizeMax = 0
<1>1. PICK n \in Nat \ {0} : n = SetSizeMax
  BY SetAssumption
<1>2. PICK a \in Nat, p \in 0..n - 1 : a = x \div n /\ p = x % n /\ x = n * a + p
  BY <1>1, Divided
<1>3. PICK b \in Nat, q \in 0..n - 1 : b = (x + 1) \div n /\ q = (x + 1) % n /\ x + 1 = n * b + q
  BY <1>1, Divided
<1>4. CASE p # n - 1
  <2>1. n * b + q = n * a + (p + 1) /\ p + 1 \in 0..n - 1
    BY <1>2, <1>3, <1>4
  <2>2. b = a /\ q = p + 1
    BY <2>1, DividedOnce
  <2>3. QED
    BY <1>1, <1>2, <1>3, <1>4, <2>2
<1>5. CASE p = n - 1
  <2>1. n * (a + 1) = n * a + n
    OBVIOUS
  <2>2. n * b + q = n * (a + 1) + 0 /\ 0 \in 0..n - 1
    BY <1>2, <1>3, <1>5, <2>1
  <2>3. b = a + 1 /\ q = 0
    BY <2>2, DividedOnce
  <2>4. QED
    BY <1>1, <1>2, <1>3, <1>5, <2>3
<1>6. QED
  BY <1>4, <1>5

\* Twice the size of a piece is where a piece begins.
LEMMA TwicePiece == (2 * SetSizeMax) % SetSizeMax = 0
<1>1. PICK n \in Nat \ {0} : n = SetSizeMax
  BY SetAssumption
<1>2. 2 * n \in Nat /\ 2 * n = n * 2
  OBVIOUS
<1>3. PICK b \in Nat, q \in 0..n - 1 : q = (2 * n) % n /\ 2 * n = n * b + q
  BY <1>1, <1>2, Divided
<1>4. n * 2 + 0 = n * b + q /\ 0 \in 0..n - 1
  BY <1>2, <1>3
<1>5. q = 0
  BY <1>4, DividedOnce
<1>6. QED
  BY <1>1, <1>3, <1>5

Members == 0..SetSizeMax - 1
Number(p, m) == setMap[p][m].tradeIndex
TradeAt(p, m) == setMap[p][m].tradeProcessNo
LastOf(p) == setStats[p].lastSetMember
NextOf(p) == setStats[p].nextSetMap

Trades == [isinCod : TradedCodes, stockNo : Int, index : Int]
Entries == [piece : Pieces, member : Members, trade : Nat]

SetTypes ==
  /\ nextSet \in 0..SetMax
  /\ lastSetOffset \in [SetIds -> 0..SetMax]
  /\ setStats \in [Pieces -> [nextSetMap : 0..SetMax, lastSetMember : Members]]
  /\ setMap \in [Pieces -> [Members -> [tradeIndex : Nat, tradeProcessNo : Nat]]]
  /\ trade \in Seq(Trades)
  /\ kept \in [SetIds -> Seq(Entries)]

\* The trade being added is the last and has no entry yet.
Adding ==
  /\ adding # NULL_INDEX => adding \in Nat /\ adding < Len(trade)
  /\ \A id \in SetIds : \A i \in 1..Len(kept[id]) :
       kept[id][i].trade < Len(trade) /\ (adding # NULL_INDEX => kept[id][i].trade < adding)

\* Piece 0 is filled twice by all sets together: that is why the numbers of a set's own
\* pieces begin at twice the size of one.
SharedNumbers ==
  \A m \in Members : m <= LastOf(0) => Number(0, m) = m + (IF nextSet = 0 THEN 0 ELSE SetSizeMax)

\* The other pieces: the numbers of the members they have say which members they are, those
\* they do not have yet have number 0.
PieceNumbers(p) ==
  /\ \A m \in Members :
       IF p < nextSet /\ m <= LastOf(p)
       THEN Number(p, m) % SetSizeMax = m /\ Number(p, m) >= 2 * SetSizeMax
       ELSE Number(p, m) = 0
  /\ p >= nextSet => LastOf(p) = 0 /\ NextOf(p) = 0

Numbers == SharedNumbers /\ \A p \in Pieces : p # 0 => PieceNumbers(p)

\* A set is still in piece 0, or alone in a piece of its own which leads nowhere yet, or met
\* the end of the pieces.
LastPiece(id) ==
  LET last == lastSetOffset[id]
  IN  /\ last = 0 => Len(kept[id]) = 0
      /\ last = SetMax => nextSet = SetMax
      /\ last \in 1..SetMax - 1 =>
           /\ last < nextSet /\ NextOf(last) = 0 /\ Len(kept[id]) > 0
           /\ \A jd \in SetIds : lastSetOffset[jd] = last => jd = id

LastPieces == \A id \in SetIds : LastPiece(id)

\* An entry is in a piece that was handed out, with its trade.
OwnEntry(e) ==
  /\ e.piece # 0 /\ e.piece < nextSet /\ e.member <= LastOf(e.piece)
  /\ TradeAt(e.piece, e.member) = e.trade
  /\ Number(e.piece, e.member) = trade[e.trade + 1].index

\* One entry of a set follows another; a full piece that is followed is no set's last one.
GoesTo(e, f) ==
  /\ Number(f.piece, f.member) = Number(e.piece, e.member) + 1
  /\ IF e.member # SetSizeMax - 1 THEN f.piece = e.piece /\ f.member = e.member + 1
     ELSE /\ f.piece = NextOf(e.piece) /\ f.member = 0
          /\ \A jd \in SetIds : lastSetOffset[jd] # e.piece

\* The last entry of a set is the last of its last piece.
IsLast(id, e) == e.piece = lastSetOffset[id] /\ e.member = LastOf(e.piece)

ListKept(id, list) ==
  /\ \A i \in 1..Len(list) : OwnEntry(list[i])
  /\ \A i \in 1..Len(list) - 1 : GoesTo(list[i], list[i + 1])
  /\ Len(list) > 0 /\ lastSetOffset[id] # SetMax => IsLast(id, list[Len(list)])

EntriesKept == \A id \in SetIds : ListKept(id, kept[id])

SetInv == SetTypes /\ Adding /\ Numbers /\ LastPieces /\ EntriesKept

LEMMA EntryTypes ==
  ASSUME SetTypes, NEW id \in SetIds, NEW i \in 1..Len(kept[id])
  PROVE  /\ Len(kept[id]) \in Nat /\ kept[id][i] \in Entries
         /\ kept[id][i].piece \in Pieces /\ kept[id][i].member \in Members /\ kept[id][i].trade \in Nat
<1>1. kept[id] \in Seq(Entries) /\ Len(kept[id]) \in Nat
  BY DEF SetTypes
<1>2. kept[id][i] \in Entries
  BY <1>1, ElementOfSeq
<1>3. QED
  BY <1>1, <1>2 DEF Entries

LEMMA StatsTypes ==
  ASSUME SetTypes
  PROVE  /\ \A p \in Pieces : LastOf(p) \in Members /\ NextOf(p) \in 0..SetMax
         /\ \A p \in Pieces, m \in Members : Number(p, m) \in Nat /\ TradeAt(p, m) \in Nat
         /\ 0 \in Pieces /\ 0 \in Members /\ SetSizeMax - 1 \in Members
         /\ Members \subseteq Nat /\ Pieces \subseteq Nat /\ nextSet \in Nat
<1>1. \A p \in Pieces : LastOf(p) \in Members /\ NextOf(p) \in 0..SetMax
  BY DEF SetTypes, LastOf, NextOf
<1>2. \A p \in Pieces, m \in Members : Number(p, m) \in Nat /\ TradeAt(p, m) \in Nat
  BY DEF SetTypes, Number, TradeAt
<1>3. /\ 0 \in Pieces /\ 0 \in Members /\ SetSizeMax - 1 \in Members
      /\ Members \subseteq Nat /\ Pieces \subseteq Nat
  BY SetAssumption DEF Pieces, Members
<1>4. nextSet \in Nat
  <2>1. SetMax \in Nat /\ nextSet \in 0..SetMax
    BY SetAssumption DEF SetTypes
  <2>2. QED
    BY <2>1
<1>5. QED
  BY <1>1, <1>2, <1>3, <1>4

\* What GetNextSetMap answers, entry by entry.
LEMMA EntriesLead == SetInv => OwnPiecesWhole
<1> SUFFICES ASSUME SetInv, NEW id \in SetIds, NEW i \in 1..Len(kept[id])
             PROVE  LET at(k) == <<kept[id][k].piece, kept[id][k].member>>
                        d == kept[id][i]
                    IN  /\ setMap[d.piece][d.member] = [tradeIndex |-> trade[d.trade + 1].index,
                                                        tradeProcessNo |-> d.trade]
                        /\ \/ i < Len(kept[id]) /\ GetNextSetMap(at(i)) = at(i + 1)
                           \/ i = Len(kept[id]) /\ (lastSetOffset[id] = SetMax \/ GetNextSetMap(at(i)) = NULL)
  BY DEF OwnPiecesWhole
<1>0. SetTypes /\ Numbers /\ LastPieces /\ EntriesKept
  BY DEF SetInv
<1>1. PICK e \in Entries, n \in Nat : e = kept[id][i] /\ n = Len(kept[id]) /\ OwnEntry(e)
  BY <1>0, EntryTypes DEF EntriesKept, ListKept
<1>2. PICK p \in Pieces, m \in Members, t \in Nat : p = e.piece /\ m = e.member /\ t = e.trade
  BY DEF Entries
<1>3. /\ p # 0 /\ p < nextSet /\ m <= LastOf(p) /\ p \in Nat /\ m \in Nat
      /\ TradeAt(p, m) = t /\ Number(p, m) = trade[t + 1].index
  BY <1>0, <1>1, <1>2, StatsTypes DEF OwnEntry
<1>4. PICK x \in Nat : x = Number(p, m) /\ x % SetSizeMax = m /\ x >= 2 * SetSizeMax
  <2>1. PieceNumbers(p)
    BY <1>0, <1>3 DEF Numbers
  <2>2. Number(p, m) \in Nat
    BY <1>0, StatsTypes
  <2>3. QED
    BY <1>3, <2>1, <2>2 DEF PieceNumbers
<1>5. setMap[p][m] = [tradeIndex |-> trade[t + 1].index, tradeProcessNo |-> t]
  <2>1. setMap[p][m] \in [tradeIndex : Nat, tradeProcessNo : Nat]
    BY <1>0 DEF SetTypes
  <2>2. setMap[p][m].tradeIndex = trade[t + 1].index /\ setMap[p][m].tradeProcessNo = t
    BY <1>3 DEF Number, TradeAt
  <2>3. QED
    BY <2>1, <2>2
\* where GetNextSetMap looks, and when it is content
<1> DEFINE b == IF m # SetSizeMax - 1 THEN <<p, m + 1>> ELSE <<NextOf(p), 0>>
<1>6. GetNextSetMap(<<p, m>>) = IF b[1] \in Pieces /\ Number(b[1], b[2]) = x + 1 THEN b ELSE NULL
  <2>1. <<p, m>>[1] = p /\ <<p, m>>[2] = m
    OBVIOUS
  <2>2. x = setMap[p][m].tradeIndex
    BY <1>4 DEF Number
  <2>3. QED
    BY <1>4, <2>1, <2>2 DEF GetNextSetMap, Number, NextOf
<1>7. CASE i < n
  <2>1. i + 1 \in 1..n /\ i \in 1..n - 1
    BY <1>1, <1>7
  <2>2. PICK f \in Entries : f = kept[id][i + 1] /\ GoesTo(e, f)
    BY <1>0, <1>1, <2>1, EntryTypes DEF EntriesKept, ListKept
  <2>3. PICK q \in Pieces, k \in Members : q = f.piece /\ k = f.member
    BY DEF Entries
  <2>4. Number(q, k) = x + 1 /\ (IF m # SetSizeMax - 1 THEN q = p /\ k = m + 1 ELSE q = NextOf(p) /\ k = 0)
    BY <1>2, <1>4, <2>2, <2>3 DEF GoesTo
  <2>5. b = <<q, k>>
    BY <2>4
  <2>6. GetNextSetMap(<<p, m>>) = <<q, k>>
    BY <1>6, <2>4, <2>5
  <2>7. QED
    BY <1>1, <1>2, <1>5, <1>7, <2>2, <2>3, <2>6
<1>8. CASE i = n /\ lastSetOffset[id] # SetMax
  <2>1. p = lastSetOffset[id] /\ m = LastOf(p)
    BY <1>0, <1>1, <1>2, <1>8 DEF EntriesKept, ListKept, IsLast
  <2>2. NextOf(p) = 0
    <3>1. p \in 1..SetMax - 1
      BY <1>3, SetAssumption DEF Pieces
    <3>2. QED
      BY <1>0, <2>1, <3>1 DEF LastPieces, LastPiece
  <2>3. CASE m # SetSizeMax - 1
    <3>1. m + 1 \in Members /\ ~(m + 1 <= LastOf(p))
      BY <1>3, <2>1, <2>3, SetAssumption DEF Members
    <3>2. Number(p, m + 1) = 0
      BY <1>0, <1>3, <3>1 DEF Numbers, PieceNumbers
    <3>3. b = <<p, m + 1>>
      BY <2>3
    <3>4. GetNextSetMap(<<p, m>>) = NULL
      BY <1>6, <3>2, <3>3
    <3>5. QED
      BY <1>1, <1>2, <1>5, <1>8, <3>4
  <2>4. CASE m = SetSizeMax - 1
    <3>1. Number(0, 0) <= SetSizeMax /\ Number(0, 0) \in Nat
      <4>1. 0 <= LastOf(0) /\ 0 \in Members /\ Number(0, 0) \in Nat
        BY <1>0, StatsTypes
      <4>2. QED
        BY <1>0, <4>1, SetAssumption DEF Numbers, SharedNumbers
    <3>2. Number(0, 0) # x + 1
      BY <1>4, <3>1, SetAssumption
    <3>3. b = <<0, 0>>
      BY <2>2, <2>4
    <3>4. GetNextSetMap(<<p, m>>) = NULL
      BY <1>6, <3>2, <3>3
    <3>5. QED
      BY <1>1, <1>2, <1>5, <1>8, <3>4
  <2>5. QED
    BY <2>3, <2>4
<1>9. CASE i = n /\ lastSetOffset[id] = SetMax
  BY <1>1, <1>2, <1>5, <1>9
<1>10. QED
  BY <1>1, <1>7, <1>8, <1>9

\* The trade being added is in no set yet.
LEMMA BeingAdded ==
  ASSUME SetTypes, Adding, adding # NULL_INDEX
  PROVE  /\ adding \in Nat /\ adding + 1 \in 1..Len(trade)
         /\ \A jd \in SetIds : \A i \in 1..Len(kept[jd]) :
              kept[jd][i].trade + 1 \in 1..Len(trade) /\ kept[jd][i].trade # adding
<1>1. adding \in Nat /\ adding < Len(trade) /\ Len(trade) \in Nat
  BY DEF Adding, SetTypes
<1>2. ASSUME NEW jd \in SetIds, NEW i \in 1..Len(kept[jd])
      PROVE  kept[jd][i].trade + 1 \in 1..Len(trade) /\ kept[jd][i].trade # adding
  <2>1. kept[jd][i].trade \in Nat
    BY EntryTypes
  <2>2. kept[jd][i].trade < Len(trade) /\ kept[jd][i].trade < adding
    BY DEF Adding
  <2>3. QED
    BY <1>1, <2>1, <2>2
<1>3. QED
  BY <1>1, <1>2

\* The trade being added becomes member m of piece q with number x: what changes ...
Becomes(id, q, m, x) ==
  /\ setMap' \in [Pieces -> [Members -> [tradeIndex : Nat, tradeProcessNo : Nat]]]
  /\ \A p \in Pieces, k \in Members :
       /\ setMap'[p][k].tradeIndex = IF p = q /\ k = m THEN x ELSE Number(p, k)
       /\ setMap'[p][k].tradeProcessNo = IF p = q /\ k = m THEN adding ELSE TradeAt(p, k)
  /\ trade' \in Seq(Trades) /\ Len(trade') = Len(trade) /\ trade'[adding + 1].index = x
  /\ \A jd \in SetIds : \A i \in 1..Len(kept[jd]) :
       trade'[kept[jd][i].trade + 1].index = trade[kept[jd][i].trade + 1].index
  /\ IF q = 0 THEN kept' = kept
     ELSE /\ kept' \in [SetIds -> Seq(Entries)] /\ Len(kept'[id]) = Len(kept[id]) + 1
          /\ kept'[id][Len(kept[id]) + 1] = [piece |-> q, member |-> m, trade |-> adding]
          /\ \A i \in 1..Len(kept[id]) : kept'[id][i] = kept[id][i]
          /\ \A jd \in SetIds : jd # id => kept'[jd] = kept[jd]

LEMMA ListedOnce ==
  ASSUME SetTypes, Adding, adding # NULL_INDEX, NEW id \in SetIds, NEW q \in Pieces,
         NEW m \in Members, NEW x \in Nat, Listed(id, q, m, x, adding)
  PROVE  Becomes(id, q, m, x)
<1>1. PICK t \in Nat : t = adding /\ t + 1 \in 1..Len(trade)
  BY BeingAdded
<1>2. trade \in Seq(Trades)
  BY DEF SetTypes
<1>3. PICK r \in Trades : r = trade[t + 1]
  BY <1>1, <1>2, ElementOfSeq
<1>4. PICK w \in Trades : w = [r EXCEPT !.index = x] /\ w.index = x
  <2>1. [r EXCEPT !.index = x].index = x /\ [r EXCEPT !.index = x] \in Trades
    BY DEF Trades
  <2>2. QED
    BY <2>1
<1>5. trade' = [trade EXCEPT ![t + 1] = w]
  BY <1>1, <1>3, <1>4 DEF Listed
<1>6. /\ trade' \in Seq(Trades) /\ Len(trade') = Len(trade)
      /\ \A i \in 1..Len(trade) : trade'[i] = IF i = t + 1 THEN w ELSE trade[i]
  BY <1>1, <1>2, <1>5, ExceptSeq
<1>7. ASSUME NEW jd \in SetIds, NEW i \in 1..Len(kept[jd])
      PROVE  trade'[kept[jd][i].trade + 1].index = trade[kept[jd][i].trade + 1].index
  <2>1. PICK u \in Nat : u = kept[jd][i].trade /\ u + 1 \in 1..Len(trade) /\ u # t
    BY <1>1, BeingAdded, EntryTypes
  <2>2. QED
    BY <1>1, <1>6, <2>1
<1>8. PICK e \in [tradeIndex : Nat, tradeProcessNo : Nat] :
        e = [tradeIndex |-> x, tradeProcessNo |-> t] /\ e.tradeIndex = x /\ e.tradeProcessNo = t
  <2>1. [tradeIndex |-> x, tradeProcessNo |-> t] \in [tradeIndex : Nat, tradeProcessNo : Nat]
    OBVIOUS
  <2>2. QED
    BY <2>1
<1>9. setMap' = [setMap EXCEPT ![q][m] = e]
  BY <1>1, <1>8 DEF Listed
<1>10. setMap \in [Pieces -> [Members -> [tradeIndex : Nat, tradeProcessNo : Nat]]]
  BY DEF SetTypes
<1>11. /\ setMap' \in [Pieces -> [Members -> [tradeIndex : Nat, tradeProcessNo : Nat]]]
       /\ setMap'[q][m] = e
       /\ \A p \in Pieces : p # q => setMap'[p] = setMap[p]
       /\ \A k \in Members : k # m => setMap'[q][k] = setMap[q][k]
  BY <1>9, <1>10
<1>12. ASSUME NEW p \in Pieces, NEW k \in Members
       PROVE  setMap'[p][k] = IF p = q /\ k = m THEN e ELSE setMap[p][k]
  BY <1>11
<1>13. ASSUME NEW p \in Pieces, NEW k \in Members
       PROVE  /\ setMap'[p][k].tradeIndex = IF p = q /\ k = m THEN x ELSE Number(p, k)
              /\ setMap'[p][k].tradeProcessNo = IF p = q /\ k = m THEN adding ELSE TradeAt(p, k)
  BY <1>1, <1>8, <1>12 DEF Number, TradeAt
<1>14. CASE q = 0
  <2>1. kept' = kept
    BY <1>14 DEF Listed
  <2>2. QED
    BY <1>1, <1>4, <1>6, <1>7, <1>11, <1>13, <1>14, <2>1 DEF Becomes
<1>15. CASE q # 0
  <2>1. PICK s \in Seq(Entries) : s = kept[id]
    BY DEF SetTypes
  <2>2. PICK d \in Entries : d = [piece |-> q, member |-> m, trade |-> t]
    BY DEF Entries
  <2>3. kept' = [kept EXCEPT ![id] = Append(s, d)]
    BY <1>1, <1>15, <2>1, <2>2 DEF Listed
  <2>4. Append(s, d) \in Seq(Entries) /\ Len(Append(s, d)) = Len(s) + 1
    BY AppendProperties
  <2>5. \A i \in 1..Len(s) : Append(s, d)[i] = s[i]
    BY AppendProperties
  <2>6. Append(s, d)[Len(s) + 1] = d
    BY AppendProperties
  <2>7. kept'[id] = Append(s, d) /\ \A jd \in SetIds : jd # id => kept'[jd] = kept[jd]
    BY <2>3 DEF SetTypes
  <2>8. kept' \in [SetIds -> Seq(Entries)]
    BY <2>3, <2>4 DEF SetTypes
  <2>9. /\ kept' \in [SetIds -> Seq(Entries)] /\ Len(kept'[id]) = Len(kept[id]) + 1
        /\ kept'[id][Len(kept[id]) + 1] = [piece |-> q, member |-> m, trade |-> adding]
        /\ \A i \in 1..Len(kept[id]) : kept'[id][i] = kept[id][i]
        /\ \A jd \in SetIds : jd # id => kept'[jd] = kept[jd]
    BY <1>1, <2>1, <2>2, <2>4, <2>5, <2>6, <2>7, <2>8
  <2>10. QED
    BY <1>1, <1>4, <1>6, <1>7, <1>11, <1>13, <1>15, <2>9 DEF Becomes
<1>16. QED
  BY <1>14, <1>15

\* Then no trade is being added.
LEMMA AddingEnds ==
  ASSUME SetTypes, Adding, adding # NULL_INDEX, adding' = NULL_INDEX, Len(trade') = Len(trade),
         \/ kept' = kept
         \/ \E id \in SetIds, q \in Pieces, m \in Members, x \in Nat : Becomes(id, q, m, x)
  PROVE  Adding'
<1>1. SUFFICES ASSUME NEW jd \in SetIds, NEW i \in 1..Len(kept'[jd])
               PROVE  kept'[jd][i].trade < Len(trade)
  BY DEF Adding
<1>2. adding < Len(trade) /\ \A kd \in SetIds : \A j \in 1..Len(kept[kd]) : kept[kd][j].trade < Len(trade)
  BY DEF Adding
<1>3. CASE kept' = kept
  BY <1>1, <1>2, <1>3
<1>4. ASSUME NEW id \in SetIds, NEW q \in Pieces, NEW m \in Members, NEW x \in Nat,
             Becomes(id, q, m, x), kept' # kept
      PROVE  kept'[jd][i].trade < Len(trade)
  <2>1. /\ Len(kept'[id]) = Len(kept[id]) + 1
        /\ kept'[id][Len(kept[id]) + 1] = [piece |-> q, member |-> m, trade |-> adding]
        /\ \A j \in 1..Len(kept[id]) : kept'[id][j] = kept[id][j]
        /\ \A kd \in SetIds : kd # id => kept'[kd] = kept[kd]
    BY <1>4 DEF Becomes
  <2>2. PICK n \in Nat : n = Len(kept[id])
    BY DEF SetTypes
  <2>3. CASE jd # id
    BY <1>1, <1>2, <2>1, <2>3
  <2>4. CASE jd = id
    <3>1. i = n + 1 \/ i \in 1..n
      BY <1>1, <2>1, <2>2, <2>4
    <3>2. QED
      BY <1>2, <2>1, <2>2, <2>4, <3>1
  <2>5. QED
    BY <2>3, <2>4
<1>5. QED
  BY <1>3, <1>4

\* ... and where: behind the last member of the set's last piece, in it or, when it is full, in
\* the piece that was handed out.
Moves(id, q, m, x) ==
  LET last == lastSetOffset[id]
  IN  /\ x = Number(last, LastOf(last)) + 1 /\ last \in Pieces
      /\ lastSetOffset' \in [SetIds -> 0..SetMax] /\ lastSetOffset'[id] = q
      /\ \A jd \in SetIds : jd # id => lastSetOffset'[jd] = lastSetOffset[jd]
      /\ \A p \in Pieces : setStats'[p].lastSetMember = IF p = q THEN m ELSE LastOf(p)
      /\ \/ /\ LastOf(last) # SetSizeMax - 1 /\ q = last /\ m = LastOf(last) + 1 /\ nextSet' = nextSet
            /\ \A p \in Pieces : setStats'[p].nextSetMap = NextOf(p)
         \/ /\ LastOf(last) = SetSizeMax - 1 /\ q = nextSet /\ m = 0 /\ nextSet' = nextSet + 1
            /\ \A p \in Pieces : setStats'[p].nextSetMap = IF p = last THEN q ELSE NextOf(p)

\* Where a set is: its last piece was handed out, or is piece 0.
LEMMA LastIsKnown ==
  ASSUME SetTypes, LastPieces, NEW id \in SetIds, lastSetOffset[id] \in Pieces
  PROVE  lastSetOffset[id] = 0 \/ (lastSetOffset[id] \in 1..SetMax - 1 /\ lastSetOffset[id] < nextSet)
<1>1. lastSetOffset[id] = 0 \/ lastSetOffset[id] \in 1..SetMax - 1
  BY SetAssumption DEF Pieces
<1>2. LastPiece(id)
  BY DEF LastPieces
<1>3. QED
  BY <1>1, <1>2 DEF LastPiece

LEMMA NumbersKept ==
  ASSUME SetTypes, Numbers, LastPieces, NEW id \in SetIds, NEW q \in Pieces, NEW m \in Members,
         NEW x \in Nat, Becomes(id, q, m, x), Moves(id, q, m, x)
  PROVE  Numbers'
<1>1. PICK last \in Pieces, l \in Members : last = lastSetOffset[id] /\ l = LastOf(last)
  BY StatsTypes DEF Moves
<1>2. last = 0 \/ (last # 0 /\ last < nextSet)
  BY <1>1, LastIsKnown, SetAssumption
<1>3. PICK n \in Nat, w \in Nat : n = nextSet /\ w = nextSet'
  <2>1. nextSet' = nextSet \/ nextSet' = nextSet + 1
    BY DEF Moves
  <2>2. nextSet \in Nat
    BY StatsTypes
  <2>3. QED
    BY <2>1, <2>2
<1>4. PICK s \in Nat \ {0} : s = SetSizeMax /\ Members = 0..s - 1
  BY SetAssumption DEF Members
<1>5. \A p \in Pieces, k \in Members : Number(p, k) \in Nat /\ LastOf(p) \in Members
  BY StatsTypes
<1>6. \A p \in Pieces, k \in Members : Number(p, k)' = IF p = q /\ k = m THEN x ELSE Number(p, k)
  BY DEF Becomes, Number
<1>7. x = Number(last, l) + 1 /\ \A p \in Pieces : LastOf(p)' = IF p = q THEN m ELSE LastOf(p)
  BY <1>1 DEF Moves, LastOf
<1>8. \/ /\ l # s - 1 /\ q = last /\ m = l + 1 /\ w = n
         /\ \A p \in Pieces : NextOf(p)' = NextOf(p)
      \/ /\ l = s - 1 /\ q = n /\ m = 0 /\ w = n + 1
         /\ \A p \in Pieces : NextOf(p)' = IF p = last THEN q ELSE NextOf(p)
  BY <1>1, <1>3, <1>4 DEF Moves, NextOf
<1>9. Pieces \subseteq Nat /\ 0 \in Pieces /\ 0 \in Members
  BY StatsTypes
<1>10. \A k \in Members : k <= LastOf(0) => Number(0, k) = k + (IF n = 0 THEN 0 ELSE s)
  BY <1>3, <1>4 DEF Numbers, SharedNumbers
<1>11. SharedNumbers'
  <2> SUFFICES ASSUME NEW k \in Members, k <= LastOf(0)'
               PROVE  Number(0, k)' = k + (IF w = 0 THEN 0 ELSE s)
    BY <1>3, <1>4 DEF SharedNumbers
  <2>1. CASE q # 0
    <3>1. (n = 0) <=> (w = 0)
      BY <1>2, <1>3, <1>8, <2>1
    <3>2. LastOf(0)' = LastOf(0) /\ Number(0, k)' = Number(0, k)
      BY <1>6, <1>7, <1>9, <2>1
    <3>3. QED
      BY <1>10, <3>1, <3>2
  <2>2. CASE q = 0 /\ q = last /\ m = l + 1 /\ w = n
    <3>1. LastOf(0)' = m /\ l = LastOf(0) /\ k \in Nat /\ m \in Nat /\ l \in Nat
      BY <1>1, <1>4, <1>7, <1>9, <2>2
    <3>2. CASE k = m
      BY <1>6, <1>7, <1>9, <1>10, <2>2, <3>1, <3>2
    <3>3. CASE k # m
      BY <1>6, <1>9, <1>10, <2>2, <3>1, <3>3
    <3>4. QED
      BY <3>2, <3>3
  <2>3. CASE q = 0 /\ l = s - 1 /\ q = n /\ m = 0 /\ w = n + 1
    <3>1. last = 0
      BY <1>2, <1>3, <1>9, <2>3
    <3>2. Number(0, l) = s - 1
      <4>1. l = LastOf(0)
        BY <1>1, <3>1
      <4>2. l <= LastOf(0) /\ n = 0
        BY <1>4, <2>3, <4>1
      <4>3. QED
        BY <1>10, <2>3, <4>1, <4>2
    <3>3. LastOf(0)' = 0 /\ k = 0
      BY <1>4, <1>7, <1>9, <2>3
    <3>4. QED
      BY <1>6, <1>7, <1>9, <2>3, <3>1, <3>2, <3>3
  <2>4. QED
    BY <1>8, <2>1, <2>2, <2>3
<1>12. ASSUME NEW p \in Pieces, p # 0 PROVE PieceNumbers(p)'
  <2>1. \A k \in Members : IF p < n /\ k <= LastOf(p)
                           THEN Number(p, k) % s = k /\ Number(p, k) >= 2 * s
                           ELSE Number(p, k) = 0
    BY <1>3, <1>4, <1>12 DEF Numbers, PieceNumbers
  <2>2. p >= n => LastOf(p) = 0 /\ NextOf(p) = 0
    BY <1>3, <1>12 DEF Numbers, PieceNumbers
  <2>3. SUFFICES /\ \A k \in Members : IF p < w /\ k <= LastOf(p)'
                                       THEN Number(p, k)' % s = k /\ Number(p, k)' >= 2 * s
                                       ELSE Number(p, k)' = 0
                 /\ p >= w => LastOf(p)' = 0 /\ NextOf(p)' = 0
    BY <1>3, <1>4 DEF PieceNumbers
  <2>4. CASE p # q
    <3>1. LastOf(p)' = LastOf(p) /\ \A k \in Members : Number(p, k)' = Number(p, k)
      BY <1>6, <1>7, <2>4
    <3>2. (p < n <=> p < w) /\ (p >= n <=> p >= w) /\ (p >= n => NextOf(p)' = NextOf(p))
      BY <1>2, <1>3, <1>8, <1>9, <1>12, <2>4
    <3>3. QED
      BY <2>1, <2>2, <3>1, <3>2
  <2>5. CASE p = q /\ q = last /\ l # s - 1 /\ m = l + 1 /\ w = n
    <3>1. p < n /\ LastOf(p)' = m /\ LastOf(p) = l /\ p \in Nat
      BY <1>1, <1>2, <1>3, <1>7, <1>9, <1>12, <2>5
    <3>2. Number(p, l) % s = l /\ Number(p, l) >= 2 * s /\ Number(p, l) \in Nat /\ l \in Nat
      BY <1>4, <1>5, <2>1, <3>1
    <3>3. x % s = m /\ x >= 2 * s
      <4>1. (Number(p, l) + 1) % s = l + 1
        BY <1>4, <2>5, <3>2, NextCell
      <4>2. QED
        BY <1>7, <2>5, <3>2, <4>1
    <3>4. ASSUME NEW k \in Members
          PROVE  IF k <= m THEN Number(p, k)' % s = k /\ Number(p, k)' >= 2 * s ELSE Number(p, k)' = 0
      <4>1. CASE k = m
        BY <1>4, <1>6, <2>5, <3>3, <4>1
      <4>2. CASE k # m
        <5>1. Number(p, k)' = Number(p, k) /\ (k <= m <=> k <= l)
          BY <1>4, <1>6, <2>5, <4>2
        <5>2. QED
          BY <2>1, <3>1, <5>1
      <4>3. QED
        BY <4>1, <4>2
    <3>5. QED
      BY <1>3, <2>5, <3>1, <3>4
  <2>6. CASE p = q /\ l = s - 1 /\ q = n /\ m = 0 /\ w = n + 1
    <3>1. p < w /\ ~(p < n) /\ LastOf(p)' = 0
      BY <1>3, <1>7, <1>9, <2>6
    <3>2. x % s = 0 /\ x >= 2 * s
      <4>1. CASE last = 0
        <5>1. n # 0 /\ l <= LastOf(0)
          <6>1. l = LastOf(0)
            BY <1>1, <4>1
          <6>2. QED
            BY <1>4, <1>12, <2>6, <6>1
        <5>2. x = 2 * s
          BY <1>4, <1>5, <1>7, <1>9, <1>10, <2>6, <4>1, <5>1
        <5>3. QED
          BY <1>4, <5>2, TwicePiece
      <4>2. CASE last # 0
        <5>1. PieceNumbers(last)
          BY <4>2 DEF Numbers
        <5>2. last < nextSet /\ l <= LastOf(last)
          BY <1>1, <1>2, <1>4, <4>2
        <5>3. Number(last, l) % s = l /\ Number(last, l) >= 2 * s /\ Number(last, l) \in Nat
          BY <1>4, <1>5, <5>1, <5>2 DEF PieceNumbers
        <5>4. (Number(last, l) + 1) % s = 0
          BY <1>4, <2>6, <5>3, NextCell
        <5>5. QED
          BY <1>7, <5>3, <5>4
      <4>3. QED
        BY <4>1, <4>2
    <3>3. ASSUME NEW k \in Members
          PROVE  IF k <= 0 THEN Number(p, k)' % s = k /\ Number(p, k)' >= 2 * s ELSE Number(p, k)' = 0
      <4>1. CASE k = 0
        BY <1>6, <2>6, <3>2, <4>1
      <4>2. CASE k # 0
        BY <1>4, <1>6, <2>1, <2>6, <3>1, <4>2
      <4>3. QED
        BY <4>1, <4>2
    <3>4. QED
      BY <1>3, <1>9, <3>1, <3>3
  <2>7. QED
    BY <1>8, <2>4, <2>5, <2>6
<1>13. QED
  BY <1>11, <1>12 DEF Numbers

LEMMA LastPiecesKept ==
  ASSUME SetTypes, Numbers, LastPieces, NEW id \in SetIds, NEW q \in Pieces, NEW m \in Members,
         NEW x \in Nat, Becomes(id, q, m, x), Moves(id, q, m, x)
  PROVE  LastPieces'
<1>1. PICK last \in Pieces : last = lastSetOffset[id]
  BY DEF Moves
<1>2. last = 0 \/ (last \in 1..SetMax - 1 /\ last < nextSet)
  BY <1>1, LastIsKnown
<1>3. PICK n \in 0..SetMax, w \in Nat : n = nextSet /\ w = nextSet'
  <2>1. nextSet' = nextSet \/ nextSet' = nextSet + 1
    BY DEF Moves
  <2>2. QED
    BY <2>1, SetAssumption DEF SetTypes
<1>4. \/ q = last /\ w = n /\ \A p \in Pieces : NextOf(p)' = NextOf(p)
      \/ /\ q = n /\ w = n + 1
         /\ \A p \in Pieces : NextOf(p)' = IF p = last THEN q ELSE NextOf(p)
  BY <1>1, <1>3 DEF Moves, NextOf
<1>5. /\ lastSetOffset' \in [SetIds -> 0..SetMax] /\ lastSetOffset'[id] = q
      /\ \A jd \in SetIds : jd # id => lastSetOffset'[jd] = lastSetOffset[jd]
  BY DEF Moves
<1>6. SetMax \in Nat \ {0} /\ Pieces = 0..SetMax - 1 /\ \A jd \in SetIds : Len(kept[jd]) \in Nat
  BY SetAssumption DEF Pieces, SetTypes
<1>7. \A jd \in SetIds : jd # id => kept'[jd] = kept[jd]
  BY DEF Becomes
<1>8. \A jd \in SetIds : LastPiece(jd)
  BY DEF LastPieces
<1>9. LastPiece(id)'
  <2>1. CASE q = 0
    <3>1. last = 0 /\ kept' = kept
      BY <1>2, <1>3, <1>4, <2>1 DEF Becomes
    <3>2. Len(kept'[id]) = 0
      BY <1>1, <1>8, <3>1 DEF LastPiece
    <3>3. lastSetOffset'[id] = 0 /\ 0 # SetMax /\ 0 \notin 1..SetMax - 1
      BY <1>5, <1>6, <2>1
    <3>4. QED
      BY <3>2, <3>3 DEF LastPiece
  <2>2. CASE q # 0
    <3>1. Len(kept'[id]) > 0
      BY <1>6, <2>2 DEF Becomes
    <3>2. q < w
      BY <1>2, <1>3, <1>4, <1>6, <2>2
    <3>3. NextOf(q)' = 0
      <4>1. CASE q = last /\ \A p \in Pieces : NextOf(p)' = NextOf(p)
        BY <1>1, <1>2, <1>8, <2>2, <4>1 DEF LastPiece
      <4>2. CASE q = n /\ \A p \in Pieces : NextOf(p)' = IF p = last THEN q ELSE NextOf(p)
        <5>1. q # last /\ q >= nextSet
          BY <1>2, <1>3, <1>6, <2>2, <4>2
        <5>2. QED
          BY <2>2, <4>2, <5>1 DEF Numbers, PieceNumbers
      <4>3. QED
        BY <1>4, <4>1, <4>2
    <3>4. ASSUME NEW jd \in SetIds, lastSetOffset'[jd] = q, jd # id PROVE FALSE
      <4>1. lastSetOffset[jd] = q /\ q \in 1..SetMax - 1
        BY <1>5, <1>6, <2>2, <3>4
      <4>2. q < nextSet /\ \A kd \in SetIds : lastSetOffset[kd] = q => kd = jd
        BY <1>8, <4>1 DEF LastPiece
      <4>3. QED
        BY <1>1, <1>3, <1>4, <1>6, <3>4, <4>2
    <3>5. QED
      BY <1>3, <1>5, <1>6, <2>2, <3>1, <3>2, <3>3, <3>4 DEF LastPiece
  <2>3. QED
    BY <2>1, <2>2
<1>10. ASSUME NEW jd \in SetIds, jd # id PROVE LastPiece(jd)'
  <2>1. PICK o \in 0..SetMax : o = lastSetOffset[jd] /\ o = lastSetOffset'[jd]
    BY <1>5, <1>10 DEF SetTypes
  <2>2. kept'[jd] = kept[jd]
    BY <1>7, <1>10
  <2>3. o = 0 => Len(kept'[jd]) = 0
    BY <1>8, <2>1, <2>2 DEF LastPiece
  <2>4. o = SetMax => w = SetMax
    <3>1. o = SetMax => n = SetMax
      BY <1>3, <1>8, <2>1 DEF LastPiece
    <3>2. QED
      BY <1>3, <1>4, <1>6, <3>1
  <2>5. ASSUME o \in 1..SetMax - 1
        PROVE  /\ o < w /\ NextOf(o)' = 0 /\ Len(kept'[jd]) > 0
               /\ \A kd \in SetIds : lastSetOffset'[kd] = o => kd = jd
    <3>1. /\ o < nextSet /\ NextOf(o) = 0 /\ Len(kept[jd]) > 0
          /\ \A kd \in SetIds : lastSetOffset[kd] = o => kd = jd
      BY <1>8, <2>1, <2>5 DEF LastPiece
    <3>2. last # o
      BY <1>1, <1>10, <3>1
    <3>3. o < w /\ NextOf(o)' = 0
      BY <1>3, <1>4, <1>6, <2>5, <3>1, <3>2
    <3>4. q # o
      BY <1>3, <1>4, <1>6, <2>5, <3>1, <3>2
    <3>5. QED
      BY <1>5, <2>2, <3>1, <3>3, <3>4
  <2>6. QED
    BY <1>3, <2>1, <2>3, <2>4, <2>5 DEF LastPiece
<1>11. QED
  BY <1>9, <1>10 DEF LastPieces

\* What an entry and the way to the one behind it need of a step to stay as they are.
LEMMA EntryStays ==
  ASSUME SetTypes, NEW e \in Entries, OwnEntry(e), nextSet' \in Nat, nextSet <= nextSet',
         LastOf(e.piece)' \in Nat, LastOf(e.piece) <= LastOf(e.piece)',
         Number(e.piece, e.member)' = Number(e.piece, e.member),
         TradeAt(e.piece, e.member)' = TradeAt(e.piece, e.member),
         trade'[e.trade + 1].index = trade[e.trade + 1].index
  PROVE  OwnEntry(e)'
<1>1. e.piece \in Pieces /\ e.member \in Members
  BY DEF Entries
<1>2. e.piece \in Nat /\ e.member \in Nat /\ LastOf(e.piece) \in Nat /\ nextSet \in Nat
  BY <1>1, StatsTypes
<1>3. e.piece # 0 /\ e.piece < nextSet' /\ e.member <= LastOf(e.piece)'
  BY <1>2 DEF OwnEntry
<1>4. TradeAt(e.piece, e.member)' = e.trade /\ Number(e.piece, e.member)' = trade'[e.trade + 1].index
  BY DEF OwnEntry
<1>5. QED
  BY <1>3, <1>4 DEF OwnEntry

LEMMA WayStays ==
  ASSUME SetTypes, NEW e \in Entries, NEW f \in Entries, OwnEntry(e), GoesTo(e, f),
         Number(e.piece, e.member)' = Number(e.piece, e.member),
         Number(f.piece, f.member)' = Number(f.piece, f.member),
         NEW id \in SetIds, lastSetOffset'[id] = lastSetOffset[id] \/ lastSetOffset'[id] >= nextSet,
         \A jd \in SetIds : jd # id => lastSetOffset'[jd] = lastSetOffset[jd],
         \A p \in Pieces : p # lastSetOffset[id] => NextOf(p)' = NextOf(p)
  PROVE  GoesTo(e, f)'
<1>1. Number(f.piece, f.member)' = Number(e.piece, e.member)' + 1
  BY DEF GoesTo
<1>2. CASE e.member # SetSizeMax - 1
  BY <1>1, <1>2 DEF GoesTo
<1>3. CASE e.member = SetSizeMax - 1
  <2>1. e.piece \in Pieces /\ e.piece \in Nat /\ e.piece < nextSet /\ nextSet \in Nat
    BY StatsTypes DEF Entries, OwnEntry
  <2>2. /\ f.piece = NextOf(e.piece) /\ f.member = 0
        /\ \A jd \in SetIds : lastSetOffset[jd] # e.piece
    BY <1>3 DEF GoesTo
  <2>3. f.piece = NextOf(e.piece)'
    BY <2>1, <2>2
  <2>4. \A jd \in SetIds : lastSetOffset'[jd] # e.piece
    BY <2>1, <2>2
  <2>5. QED
    BY <1>1, <1>3, <2>2, <2>3, <2>4 DEF GoesTo
<1>4. QED
  BY <1>2, <1>3

LEMMA EntriesStillKept ==
  ASSUME SetInv, adding # NULL_INDEX, NEW id \in SetIds, NEW q \in Pieces, NEW m \in Members,
         NEW x \in Nat, Becomes(id, q, m, x), Moves(id, q, m, x)
  PROVE  EntriesKept'
<1>0. SetTypes /\ Adding /\ Numbers /\ LastPieces /\ EntriesKept
  BY DEF SetInv
<1>1. PICK last \in Pieces, l \in Members : last = lastSetOffset[id] /\ l = LastOf(last)
  BY <1>0, StatsTypes DEF Moves
<1>2. last = 0 \/ (last \in 1..SetMax - 1 /\ last < nextSet)
  BY <1>0, <1>1, LastIsKnown
<1>3. PICK n \in Nat, w \in Nat : n = nextSet /\ w = nextSet'
  <2>1. nextSet' = nextSet \/ nextSet' = nextSet + 1
    BY DEF Moves
  <2>2. nextSet \in Nat
    BY <1>0, StatsTypes
  <2>3. QED
    BY <2>1, <2>2
<1>4. \/ /\ l # SetSizeMax - 1 /\ q = last /\ m = l + 1 /\ w = n
         /\ \A p \in Pieces : NextOf(p)' = NextOf(p)
      \/ /\ l = SetSizeMax - 1 /\ q = n /\ m = 0 /\ w = n + 1
         /\ \A p \in Pieces : NextOf(p)' = IF p = last THEN q ELSE NextOf(p)
  BY <1>1, <1>3 DEF Moves, NextOf
<1>5. x = Number(last, l) + 1 /\ \A p \in Pieces : LastOf(p)' = IF p = q THEN m ELSE LastOf(p)
  BY <1>1 DEF Moves, LastOf
<1>6. /\ lastSetOffset' \in [SetIds -> 0..SetMax] /\ lastSetOffset'[id] = q
      /\ \A jd \in SetIds : jd # id => lastSetOffset'[jd] = lastSetOffset[jd]
  BY DEF Moves
<1>7. \A p \in Pieces, k \in Members :
        /\ Number(p, k)' = IF p = q /\ k = m THEN x ELSE Number(p, k)
        /\ TradeAt(p, k)' = IF p = q /\ k = m THEN adding ELSE TradeAt(p, k)
  BY DEF Becomes, Number, TradeAt
<1>8. /\ \A p \in Pieces : LastOf(p) \in Members /\ NextOf(p) \in 0..SetMax
      /\ Members \subseteq Nat /\ Pieces \subseteq Nat
  BY <1>0, StatsTypes
\* an entry there was is not where the trade goes, and stays
<1>9. ASSUME NEW jd \in SetIds, NEW i \in 1..Len(kept[jd]), NEW e \in Entries, e = kept[jd][i]
      PROVE  OwnEntry(e) /\ OwnEntry(e)' /\ Number(e.piece, e.member)' = Number(e.piece, e.member)
  <2>1. OwnEntry(e)
    BY <1>0, <1>9 DEF EntriesKept, ListKept
  <2>2. PICK p \in Pieces, k \in Members : p = e.piece /\ k = e.member
    BY DEF Entries
  <2>3. p # 0 /\ p < n /\ k <= LastOf(p)
    BY <1>3, <2>1, <2>2 DEF OwnEntry
  <2>4. ~(p = q /\ k = m) /\ LastOf(p) <= LastOf(p)' /\ LastOf(p)' \in Nat
    <3>1. p \in Nat /\ k \in Nat /\ m \in Nat /\ LastOf(p) \in Nat
      BY <1>8
    <3>2. LastOf(p)' = IF p = q THEN m ELSE LastOf(p)
      BY <1>5
    <3>3. CASE q = last /\ m = l + 1
      BY <1>1, <1>8, <2>3, <3>1, <3>2, <3>3
    <3>4. CASE q = n
      BY <2>3, <3>1, <3>2, <3>4
    <3>5. QED
      BY <1>4, <3>3, <3>4
  <2>5. Number(p, k)' = Number(p, k) /\ TradeAt(p, k)' = TradeAt(p, k)
    BY <1>7, <2>4
  <2>6. trade'[e.trade + 1].index = trade[e.trade + 1].index
    BY <1>9 DEF Becomes
  <2>7. w \in Nat /\ n <= w
    BY <1>3, <1>4
  <2>8. OwnEntry(e)'
    BY <1>0, <1>3, <2>1, <2>2, <2>4, <2>5, <2>6, <2>7, EntryStays
  <2>9. QED
    BY <2>1, <2>2, <2>5, <2>8
<1>10. ASSUME NEW jd \in SetIds, NEW i \in 1..Len(kept[jd]) - 1, NEW e \in Entries, NEW f \in Entries,
              e = kept[jd][i], f = kept[jd][i + 1]
       PROVE  GoesTo(e, f)'
  <2>1. Len(kept[jd]) \in Nat /\ i \in 1..Len(kept[jd]) /\ i + 1 \in 1..Len(kept[jd])
    <3>1. kept[jd] \in Seq(Entries)
      BY <1>0 DEF SetTypes
    <3>2. PICK k0 \in Nat : k0 = Len(kept[jd])
      BY <3>1
    <3>3. i \in 1..k0 /\ i + 1 \in 1..k0
      BY <3>2
    <3>4. QED
      BY <3>2, <3>3
  <2>2. /\ OwnEntry(e) /\ Number(e.piece, e.member)' = Number(e.piece, e.member)
        /\ Number(f.piece, f.member)' = Number(f.piece, f.member)
    BY <1>9, <1>10, <2>1
  <2>3. GoesTo(e, f)
    BY <1>0, <1>10 DEF EntriesKept, ListKept
  <2>4. \A p \in Pieces : p # lastSetOffset[id] => NextOf(p)' = NextOf(p)
    BY <1>1, <1>4
  <2>5. lastSetOffset'[id] = lastSetOffset[id] \/ lastSetOffset'[id] >= nextSet
    BY <1>1, <1>3, <1>4, <1>6
  <2>6. QED
    BY <1>0, <1>6, <2>2, <2>3, <2>4, <2>5, WayStays
\* the other sets
<1>11. ASSUME NEW jd \in SetIds, Len(kept[jd]) > 0, NEW e \in Entries, e = kept[jd][Len(kept[jd])],
              lastSetOffset[jd] # SetMax
       PROVE  /\ IsLast(jd, e) /\ e.piece \in 1..SetMax - 1 /\ e.piece < nextSet
              /\ jd # id => IsLast(jd, e)'
  <2>1. IsLast(jd, e)
    BY <1>0, <1>11 DEF EntriesKept, ListKept
  <2>2. Len(kept[jd]) \in 1..Len(kept[jd])
    BY <1>0, <1>11 DEF SetTypes
  <2>3. OwnEntry(e)
    BY <1>0, <1>11, <2>2 DEF EntriesKept, ListKept
  <2>4. PICK p \in Pieces, k \in Members : p = e.piece /\ k = e.member
    BY DEF Entries
  <2>5. p \in 1..SetMax - 1 /\ p < nextSet
    BY <1>8, <2>3, <2>4, SetAssumption DEF Pieces, OwnEntry
  <2>6. p = lastSetOffset[jd] /\ k = LastOf(p)
    BY <2>1, <2>4 DEF IsLast
  <2>7. ASSUME jd # id PROVE IsLast(jd, e)'
    <3>1. p # last
      <4>1. LastPiece(jd)
        BY <1>0 DEF LastPieces
      <4>2. \A kd \in SetIds : lastSetOffset[kd] = p => kd = jd
        BY <2>5, <2>6, <4>1 DEF LastPiece
      <4>3. QED
        BY <1>1, <2>7, <4>2
    <3>2. p # q
      BY <1>3, <1>4, <1>8, <2>5, <3>1
    <3>3. LastOf(p)' = LastOf(p) /\ lastSetOffset'[jd] = lastSetOffset[jd]
      BY <1>5, <1>6, <2>7, <3>2
    <3>4. QED
      BY <2>4, <2>6, <3>3 DEF IsLast
  <2>8. QED
    BY <2>1, <2>4, <2>5, <2>7
<1>12. \A jd \in SetIds : \A i \in 1..Len(kept[jd]) : kept[jd][i] \in Entries
  BY <1>0, EntryTypes
<1>13. ASSUME NEW jd \in SetIds, jd # id PROVE ListKept(jd, kept[jd])'
  <2>1. PICK s \in Seq(Entries), n0 \in Nat : s = kept[jd] /\ s = kept'[jd] /\ n0 = Len(s)
    <3>1. kept[jd] \in Seq(Entries)
      BY <1>0 DEF SetTypes
    <3>2. kept'[jd] = kept[jd]
      BY <1>13 DEF Becomes
    <3>3. QED
      BY <3>1, <3>2
  <2>2. \A i \in 1..n0 : OwnEntry(s[i])'
    BY <1>9, <1>12, <2>1
  <2>3. ASSUME NEW i \in 1..n0 - 1 PROVE GoesTo(s[i], s[i + 1])'
    <3>1. i \in 1..n0 /\ i + 1 \in 1..n0
      BY <2>1
    <3>2. QED
      BY <1>10, <1>12, <2>1, <3>1
  <2>4. n0 > 0 /\ lastSetOffset'[jd] # SetMax => IsLast(jd, s[n0])'
    <3>1. n0 > 0 => n0 \in 1..n0
      OBVIOUS
    <3>2. lastSetOffset'[jd] = lastSetOffset[jd]
      BY <1>6, <1>13
    <3>3. QED
      BY <1>11, <1>12, <1>13, <2>1, <3>1, <3>2
  <2>5. ListKept(jd, s)'
    BY <2>1, <2>2, <2>3, <2>4 DEF ListKept
  <2>6. QED
    BY <2>1, <2>5
<1>14. ListKept(id, kept[id])'
  <2>1. PICK s \in Seq(Entries), k0 \in Nat : s = kept[id] /\ k0 = Len(s)
    BY <1>0 DEF SetTypes
  <2>2. ASSUME NEW i \in 1..k0 PROVE OwnEntry(s[i])'
    BY <1>9, <1>12, <2>1
  <2>3. ASSUME NEW i \in 1..k0 - 1 PROVE GoesTo(s[i], s[i + 1])'
    <3>1. i \in 1..k0 /\ i + 1 \in 1..k0
      OBVIOUS
    <3>2. QED
      BY <1>10, <1>12, <2>1, <3>1
  <2>4. last # SetMax /\ (last = 0 => k0 = 0)
    <3>1. LastPiece(id)
      BY <1>0 DEF LastPieces
    <3>2. QED
      BY <1>1, <1>2, <2>1, <3>1, SetAssumption DEF LastPiece
  <2>5. CASE q = 0
    <3>1. kept'[id] = s /\ k0 = 0
      BY <1>1, <1>2, <1>3, <1>4, <2>1, <2>4, <2>5 DEF Becomes
    <3>2. ListKept(id, s)'
      BY <2>1, <2>2, <2>3, <3>1 DEF ListKept
    <3>3. QED
      BY <3>1, <3>2
  <2>6. CASE q # 0
    <3>1. PICK t \in Nat : t = adding
      BY <1>0, BeingAdded
    <3>2. PICK d \in Entries : /\ d = [piece |-> q, member |-> m, trade |-> t]
                               /\ d.piece = q /\ d.member = m /\ d.trade = t
      <4>1. [piece |-> q, member |-> m, trade |-> t] \in Entries
        BY DEF Entries
      <4>2. QED
        BY <4>1
    <3>3. PICK r \in Seq(Entries) : r = kept'[id] /\ Len(r) = k0 + 1 /\ r[k0 + 1] = d
                                    /\ \A i \in 1..k0 : r[i] = s[i]
      BY <2>1, <2>6, <3>1, <3>2 DEF Becomes
    <3>4. OwnEntry(d)'
      <4>1. q < w /\ m <= LastOf(q)' /\ LastOf(q)' = m
        BY <1>2, <1>3, <1>4, <1>5, <1>8, <2>6
      <4>2. Number(q, m)' = x /\ TradeAt(q, m)' = t /\ trade'[t + 1].index = x
        BY <1>7, <3>1 DEF Becomes
      <4>3. QED
        BY <1>3, <2>6, <3>2, <4>1, <4>2 DEF OwnEntry
    <3>5. IsLast(id, d)'
      BY <1>5, <1>6, <3>2 DEF IsLast
    <3>6. ASSUME k0 > 0 PROVE GoesTo(s[k0], d)'
      <4>1. k0 \in 1..k0
        BY <3>6
      <4>2. PICK e \in Entries : e = s[k0] /\ e = kept[id][Len(kept[id])]
        BY <1>12, <2>1, <4>1
      <4>3. IsLast(id, e) /\ e.piece \in 1..SetMax - 1 /\ e.piece < nextSet
        BY <1>1, <1>11, <2>1, <2>4, <3>6, <4>2
      <4>4. e.piece = last /\ e.member = l
        BY <1>1, <4>3 DEF IsLast
      <4>5. Number(e.piece, e.member)' = Number(e.piece, e.member)
        BY <1>9, <2>1, <4>1, <4>2
      <4>6. Number(d.piece, d.member)' = Number(e.piece, e.member)' + 1
        BY <1>5, <1>7, <3>2, <4>4, <4>5
      <4>7. CASE l # SetSizeMax - 1
        <5>1. d.piece = e.piece /\ d.member = e.member + 1
          BY <1>4, <3>2, <4>4, <4>7
        <5>2. QED
          BY <4>2, <4>4, <4>6, <4>7, <5>1 DEF GoesTo
      <4>8. CASE l = SetSizeMax - 1
        <5>1. d.piece = NextOf(e.piece)' /\ d.member = 0
          BY <1>4, <3>2, <4>4, <4>8
        <5>2. ASSUME NEW jd \in SetIds PROVE lastSetOffset'[jd] # e.piece
          <6>1. CASE jd = id
            BY <1>3, <1>4, <1>6, <1>8, <4>3, <4>8, <6>1
          <6>2. CASE jd # id
            <7>1. LastPiece(id)
              BY <1>0 DEF LastPieces
            <7>2. last \in 1..SetMax - 1 /\ lastSetOffset[id] = last
              BY <1>1, <4>3, <4>4
            <7>3. lastSetOffset[jd] = last => jd = id
              BY <7>1, <7>2 DEF LastPiece
            <7>4. QED
              BY <1>6, <4>4, <6>2, <7>3
          <6>3. QED
            BY <6>1, <6>2
        <5>3. QED
          BY <4>2, <4>4, <4>6, <4>8, <5>1, <5>2 DEF GoesTo
      <4>9. QED
        BY <4>7, <4>8
    <3>7. \A i \in 1..k0 + 1 : OwnEntry(r[i])'
      <4>1. \A i \in 1..k0 + 1 : i \in 1..k0 \/ i = k0 + 1
        OBVIOUS
      <4>2. QED
        BY <2>2, <3>3, <3>4, <4>1
    <3>8. ASSUME NEW i \in 1..(k0 + 1) - 1 PROVE GoesTo(r[i], r[i + 1])'
      <4>1. i \in 1..k0 /\ ((i \in 1..k0 - 1 /\ i + 1 \in 1..k0) \/ (i = k0 /\ k0 > 0))
        OBVIOUS
      <4>2. CASE i \in 1..k0 - 1 /\ i + 1 \in 1..k0
        BY <2>3, <3>3, <4>1, <4>2
      <4>3. CASE i = k0 /\ k0 > 0
        BY <3>3, <3>6, <4>1, <4>3
      <4>4. QED
        BY <4>1, <4>2, <4>3
    <3>9. ListKept(id, r)'
      BY <3>3, <3>5, <3>7, <3>8 DEF ListKept
    <3>10. QED
      BY <3>3, <3>9
  <2>7. QED
    BY <2>5, <2>6
<1>15. QED
  BY <1>13, <1>14 DEF EntriesKept

\* The next member of a piece that has room.
LEMMA MemberAdded ==
  ASSUME SetInv, NEW id \in SetIds, adding # NULL_INDEX, adding' = NULL_INDEX, NextMember(id, adding)
  PROVE  SetInv'
<1>0. SetTypes /\ Adding /\ Numbers /\ LastPieces /\ EntriesKept
  BY DEF SetInv
<1>1. PICK q \in Pieces, l \in Members : q = lastSetOffset[id] /\ l = LastOf(q)
  <2>1. lastSetOffset[id] \in Pieces
    BY DEF NextMember
  <2>2. QED
    BY <1>0, <2>1, StatsTypes
<1>2. l # SetSizeMax - 1
  BY <1>1 DEF NextMember, NeedsPiece, LastOf
<1>3. PICK m \in Members : m = l + 1
  BY <1>2, SetAssumption DEF Members
<1>4. PICK x \in Nat : x = Number(q, l) + 1
  <2>1. Number(q, l) \in Nat
    BY <1>0, StatsTypes
  <2>2. QED
    BY <2>1
<1>5. /\ Listed(id, q, m, x, adding)
      /\ setStats' = [setStats EXCEPT ![q].lastSetMember = m]
      /\ UNCHANGED <<lastSetOffset, nextSet, crashed>>
  BY <1>1, <1>3, <1>4 DEF NextMember, LastOf, Number
<1>6. Becomes(id, q, m, x)
  BY <1>0, <1>5, ListedOnce
<1>7. /\ setStats' \in [Pieces -> [nextSetMap : 0..SetMax, lastSetMember : Members]]
      /\ \A p \in Pieces : /\ setStats'[p].lastSetMember = IF p = q THEN m ELSE LastOf(p)
                           /\ setStats'[p].nextSetMap = NextOf(p)
  <2>1. setStats \in [Pieces -> [nextSetMap : 0..SetMax, lastSetMember : Members]]
    BY <1>0 DEF SetTypes
  <2>2. PICK d \in [nextSetMap : 0..SetMax, lastSetMember : Members] :
          d = [setStats[q] EXCEPT !.lastSetMember = m] /\ d.lastSetMember = m /\ d.nextSetMap = setStats[q].nextSetMap
    <3>1. PICK u \in [nextSetMap : 0..SetMax, lastSetMember : Members] : u = setStats[q]
      BY <2>1
    <3>2. /\ [u EXCEPT !.lastSetMember = m] \in [nextSetMap : 0..SetMax, lastSetMember : Members]
          /\ [u EXCEPT !.lastSetMember = m].lastSetMember = m
          /\ [u EXCEPT !.lastSetMember = m].nextSetMap = u.nextSetMap
      OBVIOUS
    <3>3. QED
      BY <3>1, <3>2
  <2>3. setStats' = [setStats EXCEPT ![q] = d]
    BY <1>5, <2>2
  <2>4. QED
    BY <2>1, <2>2, <2>3 DEF LastOf, NextOf
<1>8. Moves(id, q, m, x)
  BY <1>0, <1>1, <1>2, <1>3, <1>4, <1>5, <1>7 DEF Moves, SetTypes
<1>9. SetTypes'
  BY <1>0, <1>5, <1>6, <1>7 DEF SetTypes, Becomes
<1>10. Adding'
  <2>1. Len(trade') = Len(trade)
    BY <1>6 DEF Becomes
  <2>2. QED
    BY <1>0, <1>6, <2>1, AddingEnds
<1>11. Numbers' /\ LastPieces' /\ EntriesKept'
  BY <1>0, <1>6, <1>8, NumbersKept, LastPiecesKept, EntriesStillKept
<1>12. QED
  BY <1>9, <1>10, <1>11 DEF SetInv

\* What PieceAfter makes of the pieces.
LEMMA PieceStats ==
  ASSUME SetTypes, NEW id \in SetIds, NEW last \in Pieces, NEW x \in Nat, PieceAfter(id, last, x, adding)
  PROVE  /\ setStats' \in [Pieces -> [nextSetMap : 0..SetMax, lastSetMember : Members]]
         /\ \A p \in Pieces : /\ setStats'[p].lastSetMember = IF p = nextSet THEN 0 ELSE LastOf(p)
                              /\ setStats'[p].nextSetMap = IF p = last THEN nextSet ELSE NextOf(p)
         /\ lastSetOffset' \in [SetIds -> 0..SetMax] /\ lastSetOffset'[id] = nextSet
         /\ \A jd \in SetIds : jd # id => lastSetOffset'[jd] = lastSetOffset[jd]
<1>1. PICK n \in 0..SetMax : n = nextSet
  BY DEF SetTypes
<1>2. setStats' = [p \in Pieces |-> [nextSetMap |-> IF p = last THEN n ELSE NextOf(p),
                                     lastSetMember |-> IF p = n THEN 0 ELSE LastOf(p)]]
  BY <1>1 DEF PieceAfter, NextOf, LastOf
<1>3. \A p \in Pieces : /\ (IF p = last THEN n ELSE NextOf(p)) \in 0..SetMax
                        /\ (IF p = n THEN 0 ELSE LastOf(p)) \in Members
  BY StatsTypes
<1>4. \A p \in Pieces : setStats'[p] = [nextSetMap |-> IF p = last THEN n ELSE NextOf(p),
                                        lastSetMember |-> IF p = n THEN 0 ELSE LastOf(p)]
  BY <1>2
<1>5. setStats' \in [Pieces -> [nextSetMap : 0..SetMax, lastSetMember : Members]]
  BY <1>2, <1>3
<1>6. \A p \in Pieces : /\ setStats'[p].lastSetMember = IF p = nextSet THEN 0 ELSE LastOf(p)
                        /\ setStats'[p].nextSetMap = IF p = last THEN nextSet ELSE NextOf(p)
  <2> SUFFICES ASSUME NEW p \in Pieces
               PROVE  /\ setStats'[p].lastSetMember = IF p = nextSet THEN 0 ELSE LastOf(p)
                      /\ setStats'[p].nextSetMap = IF p = last THEN nextSet ELSE NextOf(p)
    OBVIOUS
  <2>1. PICK a, b : a = (IF p = last THEN n ELSE NextOf(p)) /\ b = (IF p = n THEN 0 ELSE LastOf(p))
    OBVIOUS
  <2>2. setStats'[p] = [nextSetMap |-> a, lastSetMember |-> b]
    BY <1>4, <2>1
  <2>3. setStats'[p].nextSetMap = a /\ setStats'[p].lastSetMember = b
    BY <2>2
  <2>4. QED
    BY <1>1, <2>1, <2>3
<1>7. lastSetOffset' = [lastSetOffset EXCEPT ![id] = n]
  BY <1>1 DEF PieceAfter
<1>8. /\ lastSetOffset' \in [SetIds -> 0..SetMax] /\ lastSetOffset'[id] = nextSet
      /\ \A jd \in SetIds : jd # id => lastSetOffset'[jd] = lastSetOffset[jd]
  BY <1>1, <1>7 DEF SetTypes
<1>9. QED
  BY <1>5, <1>6, <1>8

\* What NewPiece needs of the set, and hands to PieceAfter.
LEMMA PieceNeeded ==
  ASSUME SetTypes, NEW id \in SetIds, NewPiece(id, adding)
  PROVE  LET last == lastSetOffset[id]
         IN  /\ last \in Pieces /\ LastOf(last) = SetSizeMax - 1 /\ Number(last, LastOf(last)) + 1 \in Nat
             /\ PieceAfter(id, last, Number(last, LastOf(last)) + 1, adding)
<1>1. PICK last \in Pieces : last = lastSetOffset[id] /\ LastOf(last) = SetSizeMax - 1
  BY DEF NewPiece, NeedsPiece, LastOf
<1>2. Number(last, SetSizeMax - 1) \in Nat
  BY StatsTypes
<1>3. PieceAfter(id, last, Number(last, SetSizeMax - 1) + 1, adding)
  BY <1>1 DEF NewPiece, Number
<1>4. QED
  BY <1>1, <1>2, <1>3

\* The first member of a piece that was handed out.
LEMMA PieceAdded ==
  ASSUME SetInv, NEW id \in SetIds, adding # NULL_INDEX, adding' = NULL_INDEX, NewPiece(id, adding),
         nextSet # SetMax
  PROVE  SetInv'
<1>0. SetTypes /\ Adding /\ Numbers /\ LastPieces /\ EntriesKept
  BY DEF SetInv
<1>1. PICK last \in Pieces, x \in Nat :
        /\ last = lastSetOffset[id] /\ LastOf(last) = SetSizeMax - 1
        /\ x = Number(last, LastOf(last)) + 1 /\ PieceAfter(id, last, x, adding)
  BY <1>0, PieceNeeded
<1>2. PICK q \in Pieces, m \in Members : q = nextSet /\ m = 0
  <2>1. nextSet \in Pieces
    BY <1>0, SetAssumption DEF SetTypes, Pieces
  <2>2. QED
    BY <1>0, <2>1, StatsTypes
<1>3. Listed(id, q, m, x, adding) /\ nextSet' = nextSet + 1
  BY <1>1, <1>2 DEF PieceAfter
<1>4. Becomes(id, q, m, x)
  BY <1>0, <1>3, ListedOnce
<1>5. /\ setStats' \in [Pieces -> [nextSetMap : 0..SetMax, lastSetMember : Members]]
      /\ \A p \in Pieces : /\ setStats'[p].lastSetMember = IF p = nextSet THEN 0 ELSE LastOf(p)
                           /\ setStats'[p].nextSetMap = IF p = last THEN nextSet ELSE NextOf(p)
      /\ lastSetOffset' \in [SetIds -> 0..SetMax] /\ lastSetOffset'[id] = nextSet
      /\ \A jd \in SetIds : jd # id => lastSetOffset'[jd] = lastSetOffset[jd]
  BY <1>0, <1>1, PieceStats
<1>6. Moves(id, q, m, x)
  BY <1>1, <1>2, <1>3, <1>5 DEF Moves
<1>7. nextSet' \in 0..SetMax
  BY <1>0, <1>3, SetAssumption DEF SetTypes
<1>8. SetTypes'
  BY <1>0, <1>4, <1>5, <1>7 DEF SetTypes, Becomes
<1>9. Adding'
  <2>1. Len(trade') = Len(trade)
    BY <1>4 DEF Becomes
  <2>2. QED
    BY <1>0, <1>4, <2>1, AddingEnds
<1>10. Numbers' /\ LastPieces' /\ EntriesKept'
  BY <1>0, <1>4, <1>6, NumbersKept, LastPiecesKept, EntriesStillKept
<1>11. QED
  BY <1>8, <1>9, <1>10 DEF SetInv

\* Behind the last piece a set gets none: its last full piece leads out of the pieces.
LEMMA PieceMissed ==
  ASSUME SetInv, NEW id \in SetIds, adding # NULL_INDEX, adding' = NULL_INDEX, NewPiece(id, adding),
         nextSet = SetMax
  PROVE  SetInv'
<1>0. SetTypes /\ Adding /\ Numbers /\ LastPieces /\ EntriesKept
  BY DEF SetInv
<1>1. PICK last \in Pieces, x \in Nat :
        last = lastSetOffset[id] /\ LastOf(last) = SetSizeMax - 1 /\ PieceAfter(id, last, x, adding)
  BY <1>0, PieceNeeded
<1>2. UNCHANGED <<trade, setMap, nextSet, kept>>
  BY <1>1 DEF PieceAfter
<1>3. SetMax \in Nat \ {0} /\ SetMax \notin Pieces /\ Pieces = 0..SetMax - 1
  BY SetAssumption DEF Pieces
<1>4. /\ setStats' \in [Pieces -> [nextSetMap : 0..SetMax, lastSetMember : Members]]
      /\ \A p \in Pieces : /\ setStats'[p].lastSetMember = IF p = nextSet THEN 0 ELSE LastOf(p)
                           /\ setStats'[p].nextSetMap = IF p = last THEN nextSet ELSE NextOf(p)
      /\ lastSetOffset' \in [SetIds -> 0..SetMax] /\ lastSetOffset'[id] = nextSet
      /\ \A jd \in SetIds : jd # id => lastSetOffset'[jd] = lastSetOffset[jd]
  BY <1>0, <1>1, PieceStats
<1>5. \A p \in Pieces : LastOf(p)' = LastOf(p) /\ (p # last => NextOf(p)' = NextOf(p))
  BY <1>3, <1>4 DEF LastOf, NextOf
<1>6. \A p, k : Number(p, k)' = Number(p, k) /\ TradeAt(p, k)' = TradeAt(p, k)
  BY <1>2 DEF Number, TradeAt
<1>7. SetTypes'
  BY <1>0, <1>2, <1>4 DEF SetTypes
<1>8. Adding'
  BY <1>0, <1>2, AddingEnds
<1>9. Numbers'
  <2>1. SharedNumbers'
    <3>1. LastOf(0)' = LastOf(0)
      BY <1>3, <1>5
    <3>2. QED
      BY <1>0, <1>2, <1>6, <3>1 DEF Numbers, SharedNumbers
  <2>2. ASSUME NEW p \in Pieces, p # 0 PROVE PieceNumbers(p)'
    <3>1. PieceNumbers(p)
      BY <1>0, <2>2 DEF Numbers
    <3>2. ~(p >= nextSet)
      BY <1>3
    <3>3. QED
      BY <1>2, <1>5, <1>6, <3>1, <3>2 DEF PieceNumbers
  <2>3. QED
    BY <2>1, <2>2 DEF Numbers
<1>10. LastPieces'
  <2>1. LastPiece(id)'
    <3>1. SetMax # 0 /\ SetMax \notin 1..SetMax - 1
      BY <1>3
    <3>2. QED
      BY <1>2, <1>4, <3>1 DEF LastPiece
  <2>2. ASSUME NEW jd \in SetIds, jd # id PROVE LastPiece(jd)'
    <3>1. PICK o \in 0..SetMax : o = lastSetOffset[jd] /\ o = lastSetOffset'[jd]
      BY <1>0, <1>4, <2>2 DEF SetTypes
    <3>2. /\ o = 0 => Len(kept[jd]) = 0
          /\ o \in 1..SetMax - 1 =>
               /\ o < nextSet /\ NextOf(o) = 0 /\ Len(kept[jd]) > 0
               /\ \A kd \in SetIds : lastSetOffset[kd] = o => kd = jd
      BY <1>0, <3>1 DEF LastPieces, LastPiece
    <3>3. ASSUME o \in 1..SetMax - 1
          PROVE  NextOf(o)' = 0 /\ \A kd \in SetIds : lastSetOffset'[kd] = o => kd = jd
      <4>1. o # last
        BY <1>1, <2>2, <3>2, <3>3
      <4>2. o \in Pieces /\ o # SetMax
        BY <1>3, <3>3
      <4>3. QED
        BY <1>4, <1>5, <3>2, <3>3, <4>1, <4>2
    <3>4. QED
      BY <1>2, <3>1, <3>2, <3>3 DEF LastPiece
  <2>3. QED
    BY <2>1, <2>2 DEF LastPieces
<1>11. EntriesKept'
  <2> SUFFICES ASSUME NEW jd \in SetIds PROVE ListKept(jd, kept[jd])'
    BY DEF EntriesKept
  <2>1. PICK s \in Seq(Entries), n \in Nat : s = kept[jd] /\ s = kept'[jd] /\ n = Len(s)
    BY <1>0, <1>2 DEF SetTypes
  <2>2. ListKept(jd, s)
    BY <1>0, <2>1 DEF EntriesKept
  <2>3. ASSUME NEW i \in 1..n PROVE s[i] \in Entries /\ OwnEntry(s[i]) /\ OwnEntry(s[i])'
    <3>1. PICK e \in Entries : e = s[i] /\ OwnEntry(e)
      BY <2>1, <2>2, ElementOfSeq DEF ListKept
    <3>2. LastOf(e.piece)' = LastOf(e.piece) /\ LastOf(e.piece) \in Nat /\ nextSet \in Nat
      BY <1>0, <1>5, StatsTypes DEF Entries
    <3>3. OwnEntry(e)'
      BY <1>2, <1>6, <3>1, <3>2 DEF OwnEntry
    <3>4. QED
      BY <3>1, <3>3
  <2>4. ASSUME NEW i \in 1..n - 1 PROVE GoesTo(s[i], s[i + 1])'
    <3>1. i \in 1..n /\ i + 1 \in 1..n
      BY <2>1
    <3>2. PICK e \in Entries, f \in Entries : e = s[i] /\ f = s[i + 1] /\ OwnEntry(e) /\ GoesTo(e, f)
      BY <2>1, <2>2, <2>3, <2>4, <3>1 DEF ListKept
    <3>3. lastSetOffset'[id] >= nextSet
      BY <1>0, <1>4, StatsTypes
    <3>4. \A p \in Pieces : p # lastSetOffset[id] => NextOf(p)' = NextOf(p)
      BY <1>1, <1>5
    <3>5. /\ Number(e.piece, e.member)' = Number(e.piece, e.member)
          /\ Number(f.piece, f.member)' = Number(f.piece, f.member)
      BY <1>6
    <3>6. GoesTo(e, f)'
      BY <1>0, <1>4, <3>2, <3>3, <3>4, <3>5, WayStays
    <3>7. QED
      BY <3>2, <3>6
  <2>5. ASSUME n > 0, lastSetOffset'[jd] # SetMax PROVE IsLast(jd, s[n])'
    <3>1. jd # id /\ lastSetOffset'[jd] = lastSetOffset[jd] /\ n \in 1..n
      BY <1>4, <2>5
    <3>2. PICK e \in Entries : e = s[n] /\ IsLast(jd, e)
      BY <2>1, <2>2, <2>3, <2>5, <3>1 DEF ListKept
    <3>3. LastOf(e.piece)' = LastOf(e.piece)
      BY <1>5 DEF Entries
    <3>4. QED
      BY <3>1, <3>2, <3>3 DEF IsLast
  <2>6. ListKept(jd, s)'
    BY <2>1, <2>3, <2>4, <2>5 DEF ListKept
  <2>7. QED
    BY <2>1, <2>6
<1>12. QED
  BY <1>7, <1>8, <1>9, <1>10, <1>11 DEF SetInv

\* A step that only adds to the trades leaves the sets as they are.
LEMMA SetsUntouched ==
  ASSUME SetInv, UNCHANGED <<lastSetOffset, setStats, setMap, nextSet, kept>>, SetTypes', Adding',
         \A id \in SetIds : \A i \in 1..Len(kept[id]) :
           trade'[kept[id][i].trade + 1].index = trade[kept[id][i].trade + 1].index
  PROVE  SetInv'
<1>0. SetTypes /\ Adding /\ Numbers /\ LastPieces /\ EntriesKept
  BY DEF SetInv
<1>1. \A p, k : /\ Number(p, k)' = Number(p, k) /\ TradeAt(p, k)' = TradeAt(p, k)
                /\ LastOf(p)' = LastOf(p) /\ NextOf(p)' = NextOf(p)
  BY DEF Number, TradeAt, LastOf, NextOf
<1>2. SharedNumbers' /\ \A p \in Pieces : p # 0 => PieceNumbers(p)'
  BY <1>0, <1>1 DEF Numbers, SharedNumbers, PieceNumbers
<1>3. Numbers'
  BY <1>2 DEF Numbers
<1>4. LastPieces'
  BY <1>0, <1>1 DEF LastPieces, LastPiece
<1>5. EntriesKept'
  <2> SUFFICES ASSUME NEW jd \in SetIds PROVE ListKept(jd, kept[jd])'
    BY DEF EntriesKept
  <2>1. PICK s \in Seq(Entries), n \in Nat : s = kept[jd] /\ s = kept'[jd] /\ n = Len(s)
    BY <1>0 DEF SetTypes
  <2>2. ListKept(jd, s)
    BY <1>0, <2>1 DEF EntriesKept
  <2>3. \A i \in 1..n : OwnEntry(s[i])'
    BY <1>1, <2>1, <2>2 DEF ListKept, OwnEntry
  <2>4. \A i \in 1..n - 1 : GoesTo(s[i], s[i + 1])'
    BY <1>1, <2>1, <2>2 DEF ListKept, GoesTo
  <2>5. n > 0 /\ lastSetOffset[jd] # SetMax => IsLast(jd, s[n])'
    BY <1>1, <2>1, <2>2 DEF ListKept, IsLast
  <2>6. ListKept(jd, s)'
    BY <2>1, <2>3, <2>4, <2>5 DEF ListKept
  <2>7. QED
    BY <2>1, <2>6
<1>6. QED
  BY <1>3, <1>4, <1>5 DEF SetInv

LEMMA SetsInductive ==
  ASSUME SortedInv, SetInv, [TradeNext]_tradeVars
  PROVE  SetInv'
<1>0. SetTypes /\ Adding
  BY DEF SetInv
<1>1. ASSUME UNCHANGED <<trade, adding, setVars>> PROVE SetInv'
  <2>1. SetTypes'
    BY <1>0, <1>1 DEF SetTypes, setVars
  <2>2. Adding'
    BY <1>0, <1>1 DEF Adding, setVars
  <2>3. QED
    BY <1>1, <2>1, <2>2, SetsUntouched DEF setVars
<1>2. ASSUME NEW code \in TradedCodes, AddTrade(code) PROVE SetInv'
  <2>1. PICK p \in Int : trade' = Append(trade, [isinCod |-> code, stockNo |-> p, index |-> NULL_INDEX])
    <3>1. RightAnswer(code, GetStockByIsinCod(code))
      BY SearchFinds, SetAssumption
    <3>2. nextStock \in Nat
      BY StockAssumption DEF SortedInv
    <3>3. GetStockByIsinCod(code) \in Int
      BY <3>1, <3>2 DEF RightAnswer, NULL_INDEX
    <3>4. \A p \in OrderStocks \cup ({GetStockByIsinCod(code)} \ {NULL_INDEX}) : p \in Int
      BY <3>3, SetAssumption
    <3>5. QED
      BY <1>2, <3>4 DEF AddTrade
  <2>2. PICK w \in Trades : w = [isinCod |-> code, stockNo |-> p, index |-> NULL_INDEX]
    <3>1. NULL_INDEX \in Int
      BY DEF NULL_INDEX
    <3>2. QED
      BY <3>1 DEF Trades
  <2>3. PICK s \in Seq(Trades), n \in Nat : s = trade /\ n = Len(s)
    BY <1>0 DEF SetTypes
  <2>4. trade' = Append(s, w) /\ adding' = n /\ UNCHANGED setVars
    BY <1>2, <2>1, <2>2, <2>3 DEF AddTrade
  <2>5. trade' \in Seq(Trades) /\ Len(trade') = n + 1 /\ \A i \in 1..n : trade'[i] = s[i]
    <3>1. Append(s, w) \in Seq(Trades) /\ Len(Append(s, w)) = Len(s) + 1
      BY AppendProperties
    <3>2. \A i \in 1..Len(s) : Append(s, w)[i] = s[i]
      BY AppendProperties
    <3>3. QED
      BY <2>3, <2>4, <3>1, <3>2
  <2>6. \A id \in SetIds : \A i \in 1..Len(kept[id]) : kept[id][i].trade \in Nat /\ kept[id][i].trade < n
    <3>1. \A id \in SetIds : \A i \in 1..Len(kept[id]) : kept[id][i].trade \in Nat
      BY <1>0, EntryTypes
    <3>2. QED
      BY <1>0, <2>3, <3>1 DEF Adding
  <2>7. SetTypes'
    BY <1>0, <2>4, <2>5 DEF SetTypes, setVars
  <2>8. Adding'
    <3>1. kept' = kept /\ n < n + 1 /\ n \in Nat
      BY <2>4 DEF setVars
    <3>2. \A id \in SetIds : \A i \in 1..Len(kept[id]) : kept[id][i].trade < n + 1
      BY <2>6
    <3>3. QED
      BY <2>4, <2>5, <2>6, <3>1, <3>2 DEF Adding
  <2>9. \A id \in SetIds : \A i \in 1..Len(kept[id]) :
          trade'[kept[id][i].trade + 1].index = trade[kept[id][i].trade + 1].index
    <3>1. \A id \in SetIds : \A i \in 1..Len(kept[id]) : kept[id][i].trade + 1 \in 1..n
      BY <2>6
    <3>2. QED
      BY <2>3, <2>5, <3>1
  <2>10. QED
    BY <2>4, <2>7, <2>8, <2>9, SetsUntouched DEF setVars
<1>3. ASSUME NEW id \in SetIds, AddSetMap(id, adding) PROVE SetInv'
  <2>1. adding # NULL_INDEX /\ adding' = NULL_INDEX
    BY <1>3 DEF AddSetMap
  <2>2. CASE NoPiece(id)
    <3>1. UNCHANGED <<trade, lastSetOffset, setStats, setMap, nextSet, kept>>
      BY <2>2 DEF NoPiece
    <3>2. SetTypes'
      BY <1>0, <3>1 DEF SetTypes
    <3>3. Adding'
      BY <1>0, <2>1, <3>1, AddingEnds
    <3>4. QED
      BY <3>1, <3>2, <3>3, SetsUntouched
  <2>3. CASE NewPiece(id, adding)
    BY <2>1, <2>3, PieceAdded, PieceMissed
  <2>4. CASE NextMember(id, adding)
    BY <2>1, <2>4, MemberAdded
  <2>5. QED
    BY <1>3, <2>2, <2>3, <2>4 DEF AddSetMap
<1>4. QED
  BY <1>1, <1>2, <1>3 DEF TradeNext, tradeVars

LEMMA SetsInitial ==
  ASSUME TradeInit
  PROVE  SetInv
<1>1. /\ trade = <<>> /\ adding = NULL_INDEX /\ nextSet = 0
      /\ lastSetOffset = [id \in SetIds |-> 0]
      /\ setStats = [p \in Pieces |-> [nextSetMap |-> 0, lastSetMember |-> 0]]
      /\ setMap = [p \in Pieces |-> [m \in Members |-> [tradeIndex |-> 0, tradeProcessNo |-> 0]]]
      /\ kept = [id \in SetIds |-> <<>>]
  BY DEF TradeInit, Members
<1>2. /\ SetMax \in Nat \ {0} /\ SetSizeMax \in Nat \ {0} /\ Pieces = 0..SetMax - 1
      /\ Members = 0..SetSizeMax - 1
  BY SetAssumption DEF Pieces, Members
<1>3. 0 \in 0..SetMax /\ 0 \in Members /\ 0 \in Pieces
  BY <1>2
<1>4. SetTypes
  BY <1>1, <1>3 DEF SetTypes
<1>5. Adding
  BY <1>1 DEF Adding
<1>6. \A p \in Pieces, m \in Members : LastOf(p) = 0 /\ NextOf(p) = 0 /\ Number(p, m) = 0
  BY <1>1 DEF LastOf, NextOf, Number
<1>7. Numbers
  <2>1. SharedNumbers
    BY <1>1, <1>2, <1>3, <1>6 DEF SharedNumbers
  <2>2. ASSUME NEW p \in Pieces, p # 0 PROVE PieceNumbers(p)
    BY <1>1, <1>2, <1>3, <1>6, <2>2 DEF PieceNumbers
  <2>3. QED
    BY <2>1, <2>2 DEF Numbers
<1>8. LastPieces
  BY <1>1, <1>2 DEF LastPieces, LastPiece
<1>9. EntriesKept
  BY <1>1 DEF EntriesKept, ListKept
<1>10. QED
  BY <1>4, <1>5, <1>7, <1>8, <1>9 DEF SetInv

\* However the sets take turns with the pieces, over zeroed memory: behind piece 0, which they
\* share, the entries of a set stay its own and GetNextSetMap leads from each to the next one
\* (set_map.c:195-221, 259-343).
THEOREM OwnPiecesStayWhole == TradeSpec => []OwnPiecesWhole
<1>1. SortedInv /\ SetInv => OwnPiecesWhole
  BY EntriesLead
<1>2. TradeInit => SortedInv /\ SetInv
  BY SortedInitial, SetsInitial
<1>3. SortedInv /\ SetInv /\ [TradeNext]_tradeVars => SortedInv' /\ SetInv'
  BY SortedInductive, SetsInductive
<1>4. QED
  BY <1>1, <1>2, <1>3, PTL DEF TradeSpec
-----------------------------------------------------------------------------
(***************************************************************************)
(* The rankings.  Positions in the list of a category's stocks are ranked  *)
(* by the amounts am, among equal ones the earlier first; J are the r best *)
(* positions of a set W, in their order, or all of it.                     *)
(***************************************************************************)
Before(am, x, y) == am[x] > am[y] \/ (am[x] = am[y] /\ x < y)

RankedBy(am, J, r) == \A a, b \in 1..r : a < b => Before(am, J[a], J[b])

LeftOut(am, W, J, r) ==
  \A x \in W : (\E a \in 1..r : J[a] = x) \/ (r = SortLength /\ \A a \in 1..r : Before(am, J[a], x))

Best(am, W, J, r) ==
  /\ r \in 0..SortLength
  /\ \A a \in 1..r : J[a] \in W
  /\ RankedBy(am, J, r)
  /\ LeftOut(am, W, J, r)

AmountsUpTo(am, k) == \A x \in 1..k : am[x] \in Int

LEMMA BeforeAll ==
  ASSUME NEW k \in Nat, NEW am, AmountsUpTo(am, k), NEW x \in 1..k, NEW y \in 1..k, NEW z \in 1..k
  PROVE  /\ ~Before(am, x, x)
         /\ Before(am, x, y) => ~Before(am, y, x)
         /\ Before(am, x, y) /\ Before(am, y, z) => Before(am, x, z)
         /\ Before(am, x, y) => am[x] >= am[y]
<1>1. am[x] \in Int /\ am[y] \in Int /\ am[z] \in Int
  BY DEF AmountsUpTo
<1>2. QED
  BY <1>1 DEF Before

\* A position goes into the ranking at a place.
Entering(J, at, x, r) == [a \in 1..r |-> IF a < at THEN J[a] ELSE IF a = at THEN x ELSE J[a - 1]]

LEMMA BestWithNew ==
  ASSUME NEW k \in Nat, NEW am, AmountsUpTo(am, k + 1), NEW W, W \subseteq 1..k, NEW J, NEW r,
         Best(am, W, J, r), NEW at \in 1..r + 1, NEW q \in {r, r + 1},
         q = r => r = SortLength /\ at <= r, q <= SortLength,
         \A a \in 1..r : a < at => am[J[a]] >= am[k + 1],
         at <= r => am[J[at]] < am[k + 1]
  PROVE  Best(am, W \cup {k + 1}, Entering(J, at, k + 1, q), q)
<1> DEFINE H == Entering(J, at, k + 1, q)
<1>1. SortLength \in Nat \ {0} /\ r \in Nat /\ r <= SortLength /\ at \in Nat /\ q \in Nat
  BY StockAssumption DEF Best
<1>2. \A a \in 1..q : H[a] = IF a < at THEN J[a] ELSE IF a = at THEN k + 1 ELSE J[a - 1]
  BY DEF Entering
<1> HIDE DEF H
<1>3. /\ \A x \in 1..k + 1 : am[x] \in Int
      /\ \A a \in 1..r : J[a] \in W /\ J[a] \in 1..k /\ J[a] \in 1..k + 1
  <2>1. \A x \in 1..k + 1 : am[x] \in Int
    BY DEF AmountsUpTo
  <2>2. \A x \in 1..k : x \in 1..k + 1
    OBVIOUS
  <2>3. \A a \in 1..r : J[a] \in W /\ J[a] \in 1..k
    BY DEF Best
  <2>4. QED
    BY <2>1, <2>2, <2>3
<1>4. k + 1 \in 1..k + 1 /\ k + 1 \in Int
  OBVIOUS
<1>5. \A a \in 1..r : a < at => Before(am, J[a], k + 1)
  BY <1>3, <1>4 DEF Before
<1>6. \A a \in 1..r : a >= at => Before(am, k + 1, J[a])
  <2> SUFFICES ASSUME NEW a \in 1..r, a >= at PROVE Before(am, k + 1, J[a])
    OBVIOUS
  <2>1. at \in 1..r /\ am[J[at]] < am[k + 1]
    BY <1>1
  <2>2. am[J[at]] >= am[J[a]]
    <3>1. a = at \/ Before(am, J[at], J[a])
      BY <1>1, <2>1 DEF Best, RankedBy
    <3>2. QED
      BY <1>3, <2>1, <3>1 DEF Before
  <2>3. QED
    BY <1>3, <1>4, <2>1, <2>2 DEF Before
<1>7. \A a \in 1..q : /\ a < at => a \in 1..r
                      /\ a > at => a - 1 \in 1..r
  BY <1>1
<1>8. \A a \in 1..q : H[a] \in W \cup {k + 1}
  BY <1>2, <1>3, <1>7, <1>1
<1>9. RankedBy(am, H, q)
  <2> SUFFICES ASSUME NEW a \in 1..q, NEW b \in 1..q, a < b PROVE Before(am, H[a], H[b])
    BY DEF RankedBy
  <2>1. CASE b < at
    <3>1. H[a] = J[a] /\ H[b] = J[b] /\ a \in 1..r /\ b \in 1..r
      BY <1>1, <1>2, <1>7, <2>1
    <3>2. QED
      BY <3>1 DEF Best, RankedBy
  <2>2. CASE b = at
    <3>1. H[a] = J[a] /\ H[b] = k + 1 /\ a \in 1..r
      BY <1>1, <1>2, <1>7, <2>2
    <3>2. QED
      BY <1>5, <2>2, <3>1
  <2>3. CASE b > at /\ a < at
    <3>1. H[a] = J[a] /\ H[b] = J[b - 1] /\ a \in 1..r /\ b - 1 \in 1..r /\ a < b - 1
      BY <1>1, <1>2, <1>7, <2>3
    <3>2. QED
      BY <3>1 DEF Best, RankedBy
  <2>4. CASE b > at /\ a = at
    <3>1. H[a] = k + 1 /\ H[b] = J[b - 1] /\ b - 1 \in 1..r /\ b - 1 >= at
      BY <1>1, <1>2, <1>7, <2>4
    <3>2. QED
      BY <1>6, <3>1
  <2>5. CASE a > at
    <3>1. H[a] = J[a - 1] /\ H[b] = J[b - 1] /\ a - 1 \in 1..r /\ b - 1 \in 1..r /\ a - 1 < b - 1
      BY <1>1, <1>2, <1>7, <2>5
    <3>2. QED
      BY <3>1 DEF Best, RankedBy
  <2>6. QED
    BY <1>1, <2>1, <2>2, <2>3, <2>4, <2>5
<1>10. LeftOut(am, W \cup {k + 1}, H, q)
  <2> SUFFICES ASSUME NEW x \in W \cup {k + 1}
               PROVE  \/ \E a \in 1..q : H[a] = x
                      \/ q = SortLength /\ \A a \in 1..q : Before(am, H[a], x)
    BY DEF LeftOut
  <2>1. CASE x = k + 1
    <3>1. at \in 1..q /\ H[at] = k + 1
      BY <1>1, <1>2
    <3>2. QED
      BY <2>1, <3>1
  <2>2. ASSUME NEW a \in 1..r, J[a] = x, a < at PROVE \E b \in 1..q : H[b] = x
    <3>1. a \in 1..q /\ H[a] = J[a]
      BY <1>1, <1>2, <2>2
    <3>2. QED
      BY <2>2, <3>1
  <2>3. ASSUME NEW a \in 1..r, J[a] = x, a >= at, a < q PROVE \E b \in 1..q : H[b] = x
    <3>1. a + 1 \in 1..q /\ H[a + 1] = J[a]
      BY <1>1, <1>2, <2>3
    <3>2. QED
      BY <2>3, <3>1
  <2>4. ASSUME NEW a \in 1..r, J[a] = x, a = q PROVE q = SortLength /\ \A b \in 1..q : Before(am, H[b], x)
    <3>1. q = r /\ r = SortLength /\ at <= r /\ a = r
      BY <1>1, <2>4
    <3>2. ASSUME NEW b \in 1..q PROVE Before(am, H[b], x)
      <4>1. CASE b < at
        <5>1. H[b] = J[b] /\ b < r /\ b \in 1..r
          BY <1>1, <1>2, <3>1, <4>1
        <5>2. QED
          BY <2>4, <3>1, <5>1 DEF Best, RankedBy
      <4>2. CASE b = at
        <5>1. H[b] = k + 1 /\ a >= at
          BY <1>1, <1>2, <3>1, <4>2
        <5>2. QED
          BY <1>6, <2>4, <5>1
      <4>3. CASE b > at
        <5>1. H[b] = J[b - 1] /\ b - 1 < r /\ b - 1 \in 1..r
          BY <1>1, <1>2, <3>1, <4>3
        <5>2. QED
          BY <2>4, <3>1, <5>1 DEF Best, RankedBy
      <4>4. QED
        BY <1>1, <4>1, <4>2, <4>3
    <3>3. QED
      BY <3>1, <3>2
  <2>5. ASSUME x \in W, r = SortLength, \A a \in 1..r : Before(am, J[a], x)
        PROVE  q = SortLength /\ \A b \in 1..q : Before(am, H[b], x)
    <3>1. q = r /\ at <= r
      BY <1>1, <2>5
    <3>2. x \in 1..k + 1 /\ at \in 1..r
      BY <1>1, <2>5, <3>1
    <3>3. Before(am, k + 1, x)
      <4>1. J[at] \in 1..k + 1 /\ Before(am, k + 1, J[at]) /\ Before(am, J[at], x)
        BY <1>1, <1>3, <1>6, <2>5, <3>2
      <4>2. k + 1 \in Nat
        OBVIOUS
      <4>3. QED
        BY <1>4, <3>2, <4>1, <4>2, BeforeAll
    <3>4. QED
      BY <1>1, <1>2, <1>7, <2>5, <3>1, <3>3
  <2>6. QED
    <3>1. CASE x \in W
      <4>1. \/ \E a \in 1..r : J[a] = x
            \/ r = SortLength /\ \A a \in 1..r : Before(am, J[a], x)
        BY <3>1 DEF Best, LeftOut
      <4>2. ASSUME NEW a \in 1..r, J[a] = x
            PROVE  \/ \E b \in 1..q : H[b] = x
                   \/ q = SortLength /\ \A b \in 1..q : Before(am, H[b], x)
        <5>1. a < at \/ (a >= at /\ a < q) \/ a = q
          BY <1>1
        <5>2. QED
          BY <2>2, <2>3, <2>4, <4>2, <5>1
      <4>3. QED
        BY <2>5, <3>1, <4>1, <4>2
    <3>2. QED
      BY <2>1, <3>1
<1>11. QED
  BY <1>1, <1>8, <1>9, <1>10 DEF Best, H

\* A position that is no better than a full ranking is left out.
LEMMA BestWithout ==
  ASSUME NEW k \in Nat, NEW am, AmountsUpTo(am, k + 1), NEW W, W \subseteq 1..k, NEW J, NEW r,
         Best(am, W, J, r), r = SortLength, am[k + 1] <= am[J[r]]
  PROVE  Best(am, W \cup {k + 1}, J, r)
<1>1. SortLength \in Nat \ {0} /\ r \in 1..r
  BY StockAssumption
<1>2. /\ \A x \in 1..k + 1 : am[x] \in Int
      /\ \A a \in 1..r : J[a] \in 1..k /\ J[a] \in 1..k + 1 /\ J[a] \in W
  <2>1. \A x \in 1..k + 1 : am[x] \in Int
    BY DEF AmountsUpTo
  <2>2. \A x \in 1..k : x \in 1..k + 1
    OBVIOUS
  <2>3. \A a \in 1..r : J[a] \in W /\ J[a] \in 1..k
    BY DEF Best
  <2>4. QED
    BY <2>1, <2>2, <2>3
<1>3. ASSUME NEW a \in 1..r PROVE Before(am, J[a], k + 1)
  <2>1. am[J[a]] >= am[J[r]]
    <3>1. a = r \/ Before(am, J[a], J[r])
      BY <1>1 DEF Best, RankedBy
    <3>2. QED
      BY <1>1, <1>2, <3>1 DEF Before
  <2>2. k + 1 \in 1..k + 1
    OBVIOUS
  <2>3. QED
    BY <1>1, <1>2, <2>1, <2>2 DEF Before
<1>4. LeftOut(am, W \cup {k + 1}, J, r)
  BY <1>3 DEF Best, LeftOut
<1>5. QED
  BY <1>2, <1>4 DEF Best

Ahead(am, W, x) == {y \in W : Before(am, y, x)}
FirstOf(J, r) == {J[a] : a \in 1..r}

Places(am, W, J, r) ==
  /\ \A a \in 1..r : Cardinality(Ahead(am, W, J[a])) = a - 1
  /\ \A x \in W : \/ \E a \in 1..r : J[a] = x
                  \/ Cardinality(Ahead(am, W, x)) >= SortLength
  /\ Cardinality(FirstOf(J, r)) = r

\* The place of a position is one more than the number of those that rank before it.
LEMMA BestAreRanked ==
  ASSUME NEW n \in Nat, NEW am, AmountsUpTo(am, n), NEW W \in SUBSET (1..n), NEW J, NEW r,
         Best(am, W, J, r)
  PROVE  Places(am, W, J, r)
<1>1. SortLength \in Nat \ {0} /\ r \in Nat /\ IsFiniteSet(W)
  <2>1. IsFiniteSet(1..n)
    BY FS_Interval
  <2>2. IsFiniteSet(W)
    BY <2>1, FS_Subset
  <2>3. QED
    BY <2>2, StockAssumption DEF Best
<1>2. \A a \in 1..r : J[a] \in W /\ J[a] \in 1..n
  BY DEF Best
<1>3. \A a, b \in 1..r : a < b => Before(am, J[a], J[b]) /\ ~Before(am, J[b], J[a]) /\ J[a] # J[b]
  <2> SUFFICES ASSUME NEW a \in 1..r, NEW b \in 1..r, a < b
               PROVE  Before(am, J[a], J[b]) /\ ~Before(am, J[b], J[a]) /\ J[a] # J[b]
    OBVIOUS
  <2>1. Before(am, J[a], J[b])
    BY DEF Best, RankedBy
  <2>2. J[a] \in 1..n /\ J[b] \in 1..n
    BY <1>2
  <2>3. QED
    BY <2>1, <2>2, BeforeAll
<1>4. \A m \in 0..r : Cardinality({J[a] : a \in 1..m}) = m
  <2> SUFFICES ASSUME NEW m \in 0..r PROVE Cardinality({J[a] : a \in 1..m}) = m
    OBVIOUS
  <2>1. PICK h : h = [a \in 1..m |-> J[a]]
    OBVIOUS
  <2>2. PICK T : T = {J[a] : a \in 1..m}
    OBVIOUS
  <2>3. \A a, b \in 1..m : a # b => J[a] # J[b]
    <3> SUFFICES ASSUME NEW a \in 1..m, NEW b \in 1..m, a # b PROVE J[a] # J[b]
      OBVIOUS
    <3>1. a \in 1..r /\ b \in 1..r /\ (a < b \/ b < a)
      BY <1>1
    <3>2. QED
      BY <1>3, <3>1
  <2>4. h \in Bijection(1..m, T)
    <3>1. h \in Injection(1..m, T)
      BY <2>1, <2>2, <2>3 DEF Injection, IsInjective
    <3>2. h \in Surjection(1..m, T)
      BY <2>1, <2>2 DEF Surjection
    <3>3. QED
      BY <3>1, <3>2 DEF Bijection
  <2>5. ExistsBijection(1..m, T)
    BY <2>4 DEF ExistsBijection
  <2>6. m \in Nat
    BY <1>1
  <2>7. Cardinality(T) = m
    BY <2>5, <2>6, FS_CountingElements
  <2>8. QED
    BY <2>2, <2>7
<1>5. ASSUME NEW a \in 1..r PROVE Cardinality({y \in W : Before(am, y, J[a])}) = a - 1
  <2>1. \A b \in 1..a - 1 : b \in 1..r /\ b < a /\ J[b] \in W /\ Before(am, J[b], J[a])
    BY <1>1, <1>2, <1>3
  <2>2. ASSUME NEW y \in W, Before(am, y, J[a]) PROVE \E b \in 1..a - 1 : J[b] = y
    <3>1. CASE \E b \in 1..r : J[b] = y
      <4>1. PICK b \in 1..r : J[b] = y
        BY <3>1
      <4>2. ~(a < b)
        BY <1>3, <2>2, <4>1
      <4>3. a # b
        <5>1. ~Before(am, J[a], J[a])
          BY <1>2, BeforeAll
        <5>2. QED
          BY <2>2, <4>1, <5>1
      <4>4. b \in 1..a - 1
        BY <1>1, <4>2, <4>3
      <4>5. QED
        BY <4>1, <4>4
    <3>2. CASE Before(am, J[a], y)
      <4>1. J[a] \in 1..n /\ y \in 1..n
        BY <1>2
      <4>2. FALSE
        BY <2>2, <3>2, <4>1, BeforeAll
      <4>3. QED
        BY <4>2
    <3>3. QED
      BY <3>1, <3>2 DEF Best, LeftOut
  <2>3. {y \in W : Before(am, y, J[a])} = {J[b] : b \in 1..a - 1}
    BY <2>1, <2>2
  <2>4. a - 1 \in 0..r
    BY <1>1
  <2>5. QED
    BY <1>4, <2>3, <2>4
<1>6. ASSUME NEW x \in W, r = SortLength, \A a \in 1..r : Before(am, J[a], x)
      PROVE  Cardinality({y \in W : Before(am, y, x)}) >= SortLength
  <2>1. PICK B : B = {y \in W : Before(am, y, x)}
    OBVIOUS
  <2>2. PICK T : T = {J[a] : a \in 1..r}
    OBVIOUS
  <2>3. T \subseteq B /\ IsFiniteSet(B)
    <3>1. T \subseteq B
      BY <1>2, <1>6, <2>1, <2>2
    <3>2. B \subseteq W
      BY <2>1
    <3>3. QED
      BY <1>1, <3>1, <3>2, FS_Subset
  <2>4. Cardinality(T) <= Cardinality(B) /\ Cardinality(T) = r
    <3>1. r \in 0..r
      BY <1>1
    <3>2. QED
      BY <1>4, <2>2, <2>3, <3>1, FS_Subset
  <2>5. Cardinality(B) \in Nat
    BY <2>3, FS_CardinalityType
  <2>6. Cardinality(B) >= SortLength
    BY <1>1, <1>6, <2>4, <2>5
  <2>7. QED
    BY <2>1, <2>6
<1>7. \A x \in W : \/ \E a \in 1..r : J[a] = x
                   \/ Cardinality({y \in W : Before(am, y, x)}) >= SortLength
  BY <1>6 DEF Best, LeftOut
<1>8. Cardinality({J[a] : a \in 1..r}) = r
  <2>1. r \in 0..r
    BY <1>1
  <2>2. QED
    BY <1>4, <2>1
<1>9. QED
  BY <1>5, <1>7, <1>8 DEF Ahead, FirstOf, Places

\* A list of places ranked as they should be.
WithAmount(list, stocks, k) == {x \in 1..k : list[x] \in stocks /\ stock[list[x]].amount > 0}
AmountsIn(list) == [x \in 1..Len(list) |-> stock[list[x]].amount]

Names(ranking, list, J, r) == /\ ranking \in Seq(Place) /\ Len(ranking) = r
                              /\ \A a \in 1..r : ranking[a] = list[J[a]]

LEMMA BestIsRanking ==
  ASSUME NEW list \in Seq(Place), NEW stocks, AmountsUpTo(AmountsIn(list), Len(list)),
         NEW J, NEW r, Best(AmountsIn(list), WithAmount(list, stocks, Len(list)), J, r),
         NEW ranking, Names(ranking, list, J, r)
  PROVE  IsRanking(ranking, list, stocks)
<1> DEFINE rank(x) == 1 + Cardinality({y \in WithAmount(list, stocks, Len(list)) : RanksBefore(list, y, x)})
           ranked == {x \in WithAmount(list, stocks, Len(list)) : rank(x) <= SortLength}
<1>1. PICK n, am, W : /\ n = Len(list) /\ n \in Nat /\ am = AmountsIn(list)
                     /\ W = WithAmount(list, stocks, Len(list))
  OBVIOUS
<1>2. W \subseteq 1..n /\ r \in Nat /\ r <= SortLength /\ SortLength \in Nat \ {0}
  BY <1>1, StockAssumption DEF WithAmount, Best
<1>3. \A x, y \in W : RanksBefore(list, x, y) <=> Before(am, x, y)
  BY <1>1, <1>2 DEF RanksBefore, Before, AmountsIn
<1>4. \A x \in W : rank(x) = 1 + Cardinality(Ahead(am, W, x))
  <2> SUFFICES ASSUME NEW x \in W PROVE rank(x) = 1 + Cardinality(Ahead(am, W, x))
    OBVIOUS
  <2>1. Ahead(am, W, x) = {y \in W : RanksBefore(list, y, x)}
    BY <1>3 DEF Ahead
  <2>2. QED
    BY <1>1, <2>1
<1>5. /\ \A a \in 1..r : Cardinality(Ahead(am, W, J[a])) = a - 1
      /\ \A x \in W : \/ \E a \in 1..r : J[a] = x
                      \/ Cardinality(Ahead(am, W, x)) >= SortLength
      /\ Cardinality(FirstOf(J, r)) = r
  <2>1. AmountsUpTo(am, n) /\ Best(am, W, J, r) /\ n \in Nat
    BY <1>1
  <2>2. W \in SUBSET (1..n)
    BY <1>2
  <2>3. Places(am, W, J, r)
    BY <2>1, <2>2, BestAreRanked
  <2>4. QED
    BY <2>3 DEF Places
<1> HIDE DEF rank
<1>6. \A a \in 1..r : J[a] \in W /\ rank(J[a]) = a
  <2> SUFFICES ASSUME NEW a \in 1..r PROVE J[a] \in W /\ rank(J[a]) = a
    OBVIOUS
  <2>1. J[a] \in W
    BY <1>1 DEF Best
  <2>2. rank(J[a]) = 1 + (a - 1)
    BY <1>4, <1>5, <2>1
  <2>3. QED
    BY <1>2, <2>1, <2>2
<1>7. \A x \in W : rank(x) <= SortLength => \E a \in 1..r : J[a] = x
  <2> SUFFICES ASSUME NEW x \in W, rank(x) <= SortLength, ~\E a \in 1..r : J[a] = x PROVE FALSE
    OBVIOUS
  <2>1. PICK k : k = Cardinality(Ahead(am, W, x))
    OBVIOUS
  <2>2. k \in Nat
    <3>1. IsFiniteSet(1..n)
      BY <1>1, FS_Interval
    <3>2. IsFiniteSet(Ahead(am, W, x))
      BY <1>2, <3>1, FS_Subset DEF Ahead
    <3>3. QED
      BY <2>1, <3>2, FS_CardinalityType
  <2>3. k >= SortLength /\ rank(x) = 1 + k
    BY <1>4, <1>5, <2>1
  <2>4. QED
    BY <1>2, <2>2, <2>3
<1>8. ranked = FirstOf(J, r)
  BY <1>1, <1>2, <1>6, <1>7 DEF FirstOf
<1>9. Len(ranking) = Cardinality(ranked)
  BY <1>5, <1>8 DEF Names
<1>10. \A x \in ranked : ranking[rank(x)] = list[x]
  BY <1>6, <1>8 DEF Names, FirstOf
<1>11. DOMAIN list = 1..Len(list)
  OBVIOUS
<1>12. QED
  BY <1>9, <1>10, <1>11, Zenon DEF IsRanking, rank, WithAmount

\* What InsertRanked makes of a list.
Inserted(t, s, at, e, q) ==
  /\ t \in Seq(Place) /\ Len(t) = q
  /\ \A a \in 1..q : t[a] = IF a < at THEN s[a] ELSE IF a = at THEN e ELSE s[a - 1]

LEMMA InsertedAt ==
  ASSUME NEW s \in Seq(Place), NEW at \in 1..Len(s) + 1, NEW e \in Place, NEW q \in {Len(s), Len(s) + 1}
  PROVE  Inserted(SubSeq(InsertAt(s, at, e), 1, q), s, at, e, q)
<1>1. PICK n \in Nat : n = Len(s)
  OBVIOUS
<1>2. PICK u, v : u = SubSeq(s, 1, at - 1) /\ v = SubSeq(s, at, n)
  OBVIOUS
<1>3. u \in Seq(Place) /\ Len(u) = at - 1 /\ \A a \in 1..at - 1 : u[a] = s[a]
  BY <1>1, <1>2
<1>4. v \in Seq(Place) /\ Len(v) = n - at + 1 /\ \A a \in 1..n - at + 1 : v[a] = s[at + a - 1]
  <2>1. \A a \in at..n : s[a] \in Place
    BY <1>1
  <2>2. QED
    BY <1>1, <1>2, <2>1
<1>5. PICK w : w = u \o <<e>>
  OBVIOUS
<1>6. w \in Seq(Place) /\ Len(w) = at /\ \A a \in 1..at : w[a] = IF a < at THEN s[a] ELSE e
  BY <1>1, <1>3, <1>5
<1>7. PICK t : t = w \o v
  OBVIOUS
<1>8. t \in Seq(Place) /\ Len(t) = n + 1
  <2>1. Len(t) = Len(w) + Len(v) /\ t \in Seq(Place)
    BY <1>4, <1>6, <1>7, ConcatProperties
  <2>2. QED
    BY <1>1, <1>4, <1>6, <2>1
<1>9. \A a \in 1..n + 1 : t[a] = IF a < at THEN s[a] ELSE IF a = at THEN e ELSE s[a - 1]
  <2> SUFFICES ASSUME NEW a \in 1..n + 1
               PROVE  t[a] = IF a < at THEN s[a] ELSE IF a = at THEN e ELSE s[a - 1]
    OBVIOUS
  <2>1. CASE a <= at
    <3>1. t[a] = w[a] /\ a \in 1..at
      BY <1>1, <1>4, <1>6, <1>7, <2>1
    <3>2. QED
      BY <1>1, <1>6, <2>1, <3>1
  <2>2. CASE a > at
    <3>1. t[a] = v[a - at] /\ a - at \in 1..n - at + 1 /\ at + (a - at) - 1 = a - 1
      BY <1>1, <1>4, <1>6, <1>7, <2>2
    <3>2. QED
      BY <1>1, <1>4, <2>2, <3>1
  <2>3. QED
    BY <1>1, <2>1, <2>2
<1>10. InsertAt(s, at, e) = t
  BY <1>1, <1>2, <1>5, <1>7 DEF InsertAt
<1>11. PICK x : x = SubSeq(t, 1, q)
  OBVIOUS
<1>12. q \in 0..n + 1
  BY <1>1
<1>13. x \in Seq(Place) /\ Len(x) = q /\ \A a \in 1..q : x[a] = t[a]
  BY <1>1, <1>8, <1>11, <1>12
<1>14. \A a \in 1..q : x[a] = IF a < at THEN s[a] ELSE IF a = at THEN e ELSE s[a - 1]
  BY <1>9, <1>12, <1>13
<1>15. QED
  BY <1>10, <1>11, <1>13, <1>14 DEF Inserted

RanksFirst(list, stocks, k, ranking) ==
  \E J, r : Best(AmountsIn(list), WithAmount(list, stocks, k), J, r) /\ Names(ranking, list, J, r)

RankStep(stocks, ranking, p) == IF p \in stocks THEN InsertRanked(ranking, p) ELSE ranking

\* One more stock of the list is ranked.
LEMMA StepRanks ==
  ASSUME NEW list \in Seq(Place), AmountsUpTo(AmountsIn(list), Len(list)), NEW stocks,
         NEW k \in Nat, k + 1 <= Len(list), NEW ranking, RanksFirst(list, stocks, k, ranking)
  PROVE  RanksFirst(list, stocks, k + 1, RankStep(stocks, ranking, list[k + 1]))
<1>1. PICK n, am, W, V : /\ n = Len(list) /\ n \in Nat /\ am = AmountsIn(list)
                         /\ W = WithAmount(list, stocks, k)
                         /\ V = WithAmount(list, stocks, k + 1)
  OBVIOUS
<1>2. PICK J, r : Best(am, W, J, r) /\ Names(ranking, list, J, r)
  BY <1>1 DEF RanksFirst
<1>3. PICK p : p = list[k + 1]
  OBVIOUS
<1>4. k + 1 \in 1..n /\ p \in Place /\ am[k + 1] = stock[p].amount
  BY <1>1, <1>3 DEF AmountsIn
<1>5. AmountsUpTo(am, k + 1) /\ am[k + 1] \in Int
  BY <1>1, <1>4 DEF AmountsUpTo
<1>6. W \subseteq 1..k /\ r \in 0..SortLength /\ SortLength \in Nat \ {0} /\ r \in Nat
  BY <1>1, <1>2, StockAssumption DEF WithAmount, Best
<1>7. \A a \in 1..r : /\ J[a] \in 1..k /\ J[a] \in 1..n /\ ranking[a] = list[J[a]]
                      /\ am[J[a]] = stock[ranking[a]].amount /\ am[J[a]] \in Int
  <2> SUFFICES ASSUME NEW a \in 1..r
               PROVE  /\ J[a] \in 1..k /\ J[a] \in 1..n /\ ranking[a] = list[J[a]]
                      /\ am[J[a]] = stock[ranking[a]].amount /\ am[J[a]] \in Int
    OBVIOUS
  <2>1. J[a] \in 1..k
    BY <1>2, <1>6 DEF Best
  <2>2. J[a] \in 1..n /\ ranking[a] = list[J[a]]
    BY <1>1, <1>2, <2>1 DEF Names
  <2>3. am[J[a]] = stock[list[J[a]]].amount /\ am[J[a]] \in Int
    BY <1>1, <2>2 DEF AmountsIn, AmountsUpTo
  <2>4. QED
    BY <2>1, <2>2, <2>3
<1>8. CASE p \notin stocks \/ am[k + 1] <= 0
  <2>1. RankStep(stocks, ranking, p) = ranking
    BY <1>4, <1>8 DEF RankStep, InsertRanked
  <2>2. V = W
    BY <1>1, <1>3, <1>4, <1>5, <1>8 DEF WithAmount
  <2>3. QED
    BY <1>1, <1>2, <1>3, <2>1, <2>2 DEF RanksFirst
<1>9. CASE p \in stocks /\ ~(am[k + 1] <= 0)
  <2>1. V = W \cup {k + 1}
    BY <1>1, <1>3, <1>4, <1>5, <1>9 DEF WithAmount
  <2>2. ranking \in Seq(Place) /\ Len(ranking) = r
    BY <1>2 DEF Names
  <2>3. CASE r = SortLength /\ am[k + 1] <= am[J[r]]
    <3>1. r \in 1..r /\ stock[Last(ranking)].amount = am[J[r]]
      BY <1>6, <1>7, <2>2, <2>3 DEF Last
    <3>2. RankStep(stocks, ranking, p) = ranking
      BY <1>4, <2>2, <2>3, <3>1 DEF RankStep, InsertRanked
    <3>3. Best(am, V, J, r)
      BY <1>2, <1>5, <1>6, <2>1, <2>3, BestWithout
    <3>4. QED
      BY <1>1, <1>2, <1>3, <3>2, <3>3 DEF RanksFirst
  <2>4. CASE ~(r = SortLength /\ am[k + 1] <= am[J[r]])
    <3>1. PICK S : S = {a \in DOMAIN ranking : stock[ranking[a]].amount < stock[p].amount} \cup {r + 1}
      OBVIOUS
    <3>2. PICK at : at = Min(S)
      OBVIOUS
    <3>3. DOMAIN ranking = 1..r
      BY <2>2
    <3>4. S \subseteq Nat /\ S # {}
      BY <1>6, <3>1, <3>3
    <3>5. at \in S /\ \A a \in S : at <= a
      BY <3>2, <3>4, MinChosen
    <3>6. at \in 1..r + 1
      BY <1>6, <3>1, <3>3, <3>5
    <3>7. \A a \in 1..r : a < at => am[J[a]] >= am[k + 1]
      <4> SUFFICES ASSUME NEW a \in 1..r, a < at PROVE am[J[a]] >= am[k + 1]
        OBVIOUS
      <4>1. a \notin S
        BY <1>6, <3>5, <3>6
      <4>2. ~(stock[ranking[a]].amount < stock[p].amount)
        BY <3>1, <3>3, <4>1
      <4>3. QED
        BY <1>4, <1>5, <1>7, <4>2
    <3>8. at <= r => am[J[at]] < am[k + 1]
      <4> SUFFICES ASSUME at <= r PROVE am[J[at]] < am[k + 1]
        OBVIOUS
      <4>1. at \in 1..r /\ at # r + 1
        BY <1>6, <3>6
      <4>2. stock[ranking[at]].amount < stock[p].amount
        BY <3>1, <3>5, <4>1
      <4>3. QED
        BY <1>4, <1>7, <4>1, <4>2
    <3>9. PICK q : q = IF r = SortLength THEN SortLength ELSE r + 1
      OBVIOUS
    <3>10. q \in {r, r + 1} /\ q <= SortLength /\ (q = r => r = SortLength)
      BY <1>6, <3>9
    <3>11. q = r => at <= r
      <4> SUFFICES ASSUME q = r PROVE at <= r
        OBVIOUS
      <4>1. r = SortLength /\ r \in 1..r
        BY <1>6, <3>10
      <4>2. stock[ranking[r]].amount < stock[p].amount
        BY <1>4, <1>5, <1>7, <2>4, <4>1
      <4>3. r \in S
        BY <3>1, <3>3, <4>1, <4>2
      <4>4. QED
        BY <3>5, <4>3
    <3>12. PICK H, R : /\ H = Entering(J, at, k + 1, q)
                       /\ R = SubSeq(InsertAt(ranking, at, p), 1, q)
      OBVIOUS
    <3>13. Best(am, V, H, q)
      <4>1. q \in {r, r + 1} /\ q <= SortLength /\ (q = r => r = SortLength /\ at <= r)
        BY <3>10, <3>11
      <4>2. Best(am, W \cup {k + 1}, Entering(J, at, k + 1, q), q)
        BY <1>2, <1>5, <1>6, <3>6, <3>7, <3>8, <4>1, BestWithNew
      <4>3. QED
        BY <2>1, <3>12, <4>2
    <3>14. /\ R \in Seq(Place) /\ Len(R) = q
           /\ \A a \in 1..q : R[a] = IF a < at THEN ranking[a] ELSE IF a = at THEN p ELSE ranking[a - 1]
      <4>1. at \in 1..Len(ranking) + 1 /\ q \in {Len(ranking), Len(ranking) + 1}
        BY <2>2, <3>6, <3>10
      <4>2. Inserted(R, ranking, at, p, q)
        BY <1>4, <2>2, <3>12, <4>1, InsertedAt
      <4>3. QED
        BY <4>2 DEF Inserted
    <3>15. \A a \in 1..q : R[a] = list[H[a]]
      <4> SUFFICES ASSUME NEW a \in 1..q PROVE R[a] = list[H[a]]
        OBVIOUS
      <4>1. H[a] = IF a < at THEN J[a] ELSE IF a = at THEN k + 1 ELSE J[a - 1]
        BY <3>12 DEF Entering
      <4>2. /\ a < at => a \in 1..r
            /\ a > at => a - 1 \in 1..r
        BY <1>6, <3>6, <3>10
      <4>3. CASE a < at
        BY <1>7, <3>14, <4>1, <4>2, <4>3
      <4>4. CASE a = at
        BY <1>3, <3>14, <4>1, <4>4
      <4>5. CASE a > at
        <5>1. R[a] = ranking[a - 1] /\ H[a] = J[a - 1]
          BY <3>6, <3>14, <4>1, <4>5
        <5>2. QED
          BY <1>7, <4>2, <4>5, <5>1
      <4>6. QED
        BY <3>6, <3>10, <1>6, <4>3, <4>4, <4>5
    <3>16. RankStep(stocks, ranking, p) = R
      <4>1. stock[p].amount > 0
        BY <1>4, <1>5, <1>9
      <4>2. ~(Len(ranking) = SortLength /\ stock[p].amount <= stock[Last(ranking)].amount)
        <5> SUFFICES ASSUME r = SortLength PROVE ~(stock[p].amount <= stock[Last(ranking)].amount)
          BY <2>2
        <5>1. r \in 1..r
          BY <1>6
        <5>2. QED
          BY <1>4, <1>7, <2>2, <2>4, <5>1 DEF Last
      <4>3. ~(stock[p].amount <= 0)
        BY <1>4, <1>9
      <4>4. InsertRanked(ranking, p) = SubSeq(InsertAt(ranking, at, p), 1, q)
        BY <2>2, <3>1, <3>2, <3>9, <4>2, <4>3 DEF InsertRanked
      <4>5. QED
        BY <1>9, <3>12, <4>4 DEF RankStep
    <3>17. Names(R, list, H, q)
      BY <3>14, <3>15 DEF Names
    <3>18. QED
      BY <1>1, <1>3, <3>13, <3>16, <3>17 DEF RanksFirst
  <2>5. QED
    BY <2>3, <2>4
<1>10. QED
  BY <1>8, <1>9

(***************************************************************************)
(* RankAmong folds over the positions of the list: a function on their     *)
(* subsets, of which each has the ranking of all but the last position.    *)
(***************************************************************************)
Top(s) == Max(s)

Iterated(g, list, stocks, s) == IF s = {} THEN <<>> ELSE RankStep(stocks, g[s \ {Top(s)}], list[Top(s)])

Iterates(g, list, stocks, k) == g = [s \in SUBSET (1..k) |-> Iterated(g, list, stocks, s)]

LEMMA TopIsLast ==
  ASSUME NEW k \in Nat, NEW s \in SUBSET (1..k), s # {}
  PROVE  Top(s) \in s /\ \A x \in s : Top(s) >= x
<1>1. \A x \in s : x \in Nat /\ k - x \in Nat
  OBVIOUS
<1> DEFINE D == {k - x : x \in s}
<1>2. PICK d \in D : \A e \in D : d <= e
  <2>1. D \subseteq Nat /\ D # {}
    BY <1>1
  <2> HIDE DEF D
  <2>2. QED
    BY <2>1, LeastNat
<1>3. PICK x \in s : d = k - x
  BY <1>2
<1>4. \A y \in s : x >= y
  BY <1>1, <1>2, <1>3
<1>5. \E y \in s : \A z \in s : y >= z
  BY <1>4
<1>6. QED
  BY <1>5, Zenon DEF Top, Max

LEMMA WithoutTop ==
  ASSUME NEW k \in Nat, NEW s \in SUBSET (1..k + 1), s # {}
  PROVE  s \ {Top(s)} \in SUBSET (1..k)
<1>1. k + 1 \in Nat
  OBVIOUS
<1>2. Top(s) \in s /\ \A x \in s : Top(s) >= x
  BY <1>1, TopIsLast
<1>3. ASSUME NEW x \in s \ {Top(s)} PROVE x \in 1..k
  <2>1. PICK m \in 1..k + 1 : m = Top(s)
    BY <1>2
  <2>2. x \in 1..k + 1 /\ x # m /\ m >= x
    BY <1>2, <1>3, <2>1
  <2>3. QED
    BY <2>1, <2>2
<1>4. QED
  BY <1>3

LEMMA MoreIterates ==
  ASSUME NEW k \in Nat, NEW list, NEW stocks, NEW g, Iterates(g, list, stocks, k)
  PROVE  \E h : Iterates(h, list, stocks, k + 1)
<1>1. PICK h : h = [s \in SUBSET (1..k + 1) |-> Iterated(g, list, stocks, s)]
  OBVIOUS
<1>2. \A s \in SUBSET (1..k) : s \in SUBSET (1..k + 1)
  OBVIOUS
<1>3. \A s \in SUBSET (1..k) : h[s] = g[s]
  BY <1>1, <1>2 DEF Iterates
<1>4. ASSUME NEW s \in SUBSET (1..k + 1)
      PROVE  Iterated(g, list, stocks, s) = Iterated(h, list, stocks, s)
  <2>1. CASE s = {}
    BY <2>1 DEF Iterated
  <2>2. CASE s # {}
    <3>1. s \ {Top(s)} \in SUBSET (1..k)
      BY <2>2, WithoutTop
    <3>2. h[s \ {Top(s)}] = g[s \ {Top(s)}]
      BY <1>3, <3>1
    <3>3. QED
      BY <3>2 DEF Iterated
  <2>3. QED
    BY <2>1, <2>2
<1>5. h = [s \in SUBSET (1..k + 1) |-> Iterated(h, list, stocks, s)]
  BY <1>1, <1>4
<1>6. QED
  BY <1>5 DEF Iterates

LEMMA IteratesExist ==
  ASSUME NEW k \in Nat, NEW list, NEW stocks
  PROVE  \E g : Iterates(g, list, stocks, k)
<1> DEFINE Bad == {j \in Nat : ~\E g : Iterates(g, list, stocks, j)}
<1>1. SUFFICES ASSUME Bad # {} PROVE FALSE
  OBVIOUS
<1>2. PICK j \in Bad : \A m \in Bad : j <= m
  BY <1>1, LeastNat
<1>3. j # 0
  <2>1. PICK g : g = [s \in SUBSET (1..0) |-> <<>>]
    OBVIOUS
  <2>2. \A s \in SUBSET (1..0) : Iterated(g, list, stocks, s) = <<>>
    BY DEF Iterated
  <2>3. Iterates(g, list, stocks, 0)
    BY <2>1, <2>2 DEF Iterates
  <2>4. QED
    BY <1>2, <2>3
<1>4. PICK i \in Nat : i = j - 1 /\ i + 1 = j /\ i \notin Bad
  BY <1>2, <1>3
<1>5. PICK g : Iterates(g, list, stocks, i)
  BY <1>4
<1>6. \E h : Iterates(h, list, stocks, i + 1)
  BY <1>5, MoreIterates
<1>7. QED
  BY <1>2, <1>4, <1>6

\* The loop of RankAmong over a list.
RankAll(list, stocks) ==
  FoldLeft(LAMBDA ranking, p : IF p \in stocks THEN InsertRanked(ranking, p) ELSE ranking, <<>>, list)

LEMMA RankAllChosen ==
  ASSUME NEW list, NEW stocks
  PROVE  RankAll(list, stocks) =
           (CHOOSE g : g = [s \in SUBSET DOMAIN list |-> Iterated(g, list, stocks, s)])[DOMAIN list]
BY DEF RankAll, FoldLeft, MapThenFoldSet, Iterated, RankStep, Top

LEMMA RankAllRanks ==
  ASSUME NEW list \in Seq(Place), AmountsUpTo(AmountsIn(list), Len(list)), NEW stocks
  PROVE  IsRanking(RankAll(list, stocks), list, stocks)
<1>1. PICK n \in Nat : n = Len(list) /\ DOMAIN list = 1..n
  OBVIOUS
<1>2. PICK g : g = CHOOSE h : h = [s \in SUBSET DOMAIN list |-> Iterated(h, list, stocks, s)]
  OBVIOUS
<1>3. Iterates(g, list, stocks, n)
  <2>1. \E h : h = [s \in SUBSET DOMAIN list |-> Iterated(h, list, stocks, s)]
    <3>1. PICK h : Iterates(h, list, stocks, n)
      BY IteratesExist
    <3>2. QED
      BY <1>1, <3>1 DEF Iterates
  <2>2. g = [s \in SUBSET DOMAIN list |-> Iterated(g, list, stocks, s)]
    BY <1>2, <2>1, Zenon
  <2>3. QED
    BY <1>1, <2>2 DEF Iterates
<1> DEFINE Bad == {k \in Nat : k <= n /\ ~RanksFirst(list, stocks, k, g[1..k])}
<1>4. ASSUME Bad # {} PROVE FALSE
  <2>1. PICK k \in Bad : \A m \in Bad : k <= m
    <3>1. Bad \subseteq Nat
      OBVIOUS
    <3> HIDE DEF Bad
    <3>2. QED
      BY <1>4, <3>1, LeastNat
  <2>2. k \in Nat /\ k <= n /\ ~RanksFirst(list, stocks, k, g[1..k])
    BY <2>1
  <2>3. 1..k \in SUBSET (1..n)
    BY <2>2
  <2>4. k # 0
    <3> SUFFICES ASSUME k = 0 PROVE FALSE
      OBVIOUS
    <3>1. 1..k = {}
      OBVIOUS
    <3>2. g[1..k] = <<>>
      BY <1>3, <2>3, <3>1 DEF Iterates, Iterated
    <3>3. WithAmount(list, stocks, k) = {}
      BY <3>1 DEF WithAmount
    <3>4. Best(AmountsIn(list), {}, <<>>, 0)
      BY StockAssumption DEF Best, RankedBy, LeftOut
    <3>5. Names(<<>>, list, <<>>, 0)
      BY DEF Names
    <3>6. QED
      BY <2>2, <3>2, <3>3, <3>4, <3>5 DEF RanksFirst
  <2>5. PICK j \in Nat : j + 1 = k /\ j = k - 1
    BY <2>2, <2>4
  <2>6. RanksFirst(list, stocks, j, g[1..j])
    <3>1. j \notin Bad /\ j <= n
      <4> HIDE DEF Bad
      <4>1. QED
        BY <2>1, <2>2, <2>5
    <3>2. QED
      BY <3>1
  <2>7. Top(1..k) = k
    <3>1. k \in 1..k /\ 1..k \in SUBSET (1..k)
      BY <2>2, <2>4
    <3>2. Top(1..k) \in 1..k /\ \A x \in 1..k : Top(1..k) >= x
      BY <2>2, <3>1, TopIsLast
    <3>3. QED
      BY <2>2, <3>1, <3>2
  <2>8. (1..k) \ {k} = 1..j /\ 1..k # {}
    <3>1. k \in 1..k
      BY <2>2, <2>4
    <3>2. \A x : x \in (1..k) \ {k} <=> x \in 1..j
      BY <2>2, <2>5
    <3>3. QED
      BY <3>1, <3>2, Zenon
  <2>9. g[1..k] = RankStep(stocks, g[1..j], list[k])
    <3>1. g[1..k] = Iterated(g, list, stocks, 1..k)
      BY <1>3, <2>3 DEF Iterates
    <3>2. QED
      BY <2>7, <2>8, <3>1 DEF Iterated
  <2>10. RanksFirst(list, stocks, j + 1, RankStep(stocks, g[1..j], list[j + 1]))
    <3>1. j + 1 <= Len(list)
      BY <1>1, <2>2, <2>5
    <3>2. PICK R : R = g[1..j]
      OBVIOUS
    <3>3. RanksFirst(list, stocks, j, R)
      BY <2>6, <3>2
    <3>4. RanksFirst(list, stocks, j + 1, RankStep(stocks, R, list[j + 1]))
      BY <3>1, <3>3, StepRanks
    <3>5. QED
      BY <3>2, <3>4
  <2>11. QED
    BY <2>2, <2>5, <2>9, <2>10
<1>5. RanksFirst(list, stocks, n, g[1..n])
  BY <1>4
<1>6. RankAll(list, stocks) = g[1..n]
  BY <1>1, <1>2, RankAllChosen
<1>7. PICK R : R = g[1..n]
  OBVIOUS
<1>8. PICK J, r : Best(AmountsIn(list), WithAmount(list, stocks, Len(list)), J, r) /\ Names(R, list, J, r)
  BY <1>1, <1>5, <1>7 DEF RanksFirst
<1>9. IsRanking(R, list, stocks)
  BY <1>8, BestIsRanking
<1>10. QED
  BY <1>6, <1>7, <1>9

(***************************************************************************)
(* The lists of the categories, until a stock of one is moved: each leads  *)
(* from its first stock through all that entered it.                       *)
(***************************************************************************)
Categories == 0..CategoryMax - 1

JoinTypes ==
  /\ nextCategory \in 0..CategoryMax
  /\ category \in [Categories -> [id : CategoryIds \cup {0}, firstStock : Int, lastStock : Int,
                                  securitiesNumber : Nat]]
  /\ members \in [Categories -> Seq(Nat)]

\* The list of a category, and its stocks in the order they came.
Leads(cat, listed, open) ==
  /\ cat.securitiesNumber = Len(listed)
  /\ open /\ Len(listed) = 0 => cat.firstStock = NULL_INDEX
  /\ ~open => Len(listed) = 0
  /\ Len(listed) > 0 => cat.firstStock = listed[1] /\ cat.lastStock = listed[Len(listed)]

Links(listed) ==
  \A x \in 1..Len(listed) :
    /\ listed[x] \in 0..nextStock - 1
    /\ stock[listed[x]].categoryNo # NULL_INDEX
    /\ stock[listed[x]].nextCategory = IF x = Len(listed) THEN NULL_INDEX ELSE listed[x + 1]

ListsLead == \A c \in Categories : Leads(category[c], members[c], c < nextCategory)
ListsLinked == \A c \in Categories : Links(members[c])

\* No stock is in two places.
Apart ==
  \A c, d \in Categories : \A x \in 1..Len(members[c]), y \in 1..Len(members[d]) :
    members[c][x] = members[d][y] => c = d /\ x = y

\* Stocks know their place, and those that never entered a category lead nowhere.
PlacesKnown ==
  \A p \in 0..nextStock - 1 :
    /\ stock[p].stockNo = p
    /\ stock[p].categoryNo = NULL_INDEX => stock[p].nextCategory = NULL_INDEX

JoinedWhole == JoinTypes /\ ListsLead /\ ListsLinked /\ Apart /\ PlacesKnown

JoinInv == SortedInv /\ (moved \/ JoinedWhole)

\* The links of a list, as far as a walk has come.
Follows(f, c, k) ==
  f = [x \in 0..k |-> IF x = 0 THEN category[c].firstStock
                      ELSE IF f[x - 1] \in Place THEN stock[f[x - 1]].nextCategory
                      ELSE NULL_INDEX]

VisitedBy(f, n) == [x \in 1..Min({x \in 0..n : x = n \/ f[x] \notin Place}) |-> f[x - 1]]

LEMMA VisitedChosen ==
  ASSUME NEW c, NEW n, n = category[c].securitiesNumber
  PROVE  Visited(c) = VisitedBy(CHOOSE h : Follows(h, c, n), n)
<1>1. Visited(c) = VisitedBy(CHOOSE h : Follows(h, c, category[c].securitiesNumber),
                             category[c].securitiesNumber)
  BY DEF Visited, Follows, VisitedBy
<1>2. QED
  BY <1>1

\* The loop of a ranking comes by all stocks of the category, in the order they came.
LEMMA AllVisited ==
  ASSUME SortedInv, JoinedWhole, NEW c \in Categories
  PROVE  Visited(c) = members[c]
<1>1. PICK m \in Seq(Nat), n \in Nat : m = members[c] /\ n = Len(m)
  BY DEF JoinedWhole, JoinTypes
<1>2. /\ category[c].securitiesNumber = n
      /\ n > 0 => category[c].firstStock = m[1]
      /\ \A x \in 1..n : /\ m[x] \in Place
                         /\ stock[m[x]].nextCategory = IF x = n THEN NULL_INDEX ELSE m[x + 1]
  <2>1. Leads(category[c], m, c < nextCategory) /\ Links(m)
    BY <1>1 DEF JoinedWhole, ListsLead, ListsLinked
  <2>2. \A x \in 1..n : m[x] \in 0..nextStock - 1
    BY <1>1, <2>1 DEF Links
  <2>3. 0..nextStock - 1 \subseteq Place
    BY StockAssumption DEF SortedInv, Place
  <2>4. category[c].securitiesNumber = n /\ (n > 0 => category[c].firstStock = m[1])
    BY <1>1, <2>1 DEF Leads
  <2>5. \A x \in 1..n : stock[m[x]].nextCategory = IF x = n THEN NULL_INDEX ELSE m[x + 1]
    BY <1>1, <2>1 DEF Links
  <2>6. QED
    BY <2>2, <2>3, <2>4, <2>5
<1>3. PICK f : f = (CHOOSE h : Follows(h, c, n)) /\ Visited(c) = VisitedBy(f, n)
  <2>1. n = category[c].securitiesNumber
    BY <1>2
  <2>2. Visited(c) = VisitedBy(CHOOSE h : Follows(h, c, n), n)
    BY <2>1, VisitedChosen
  <2>3. QED
    BY <2>2
<1>4. Follows(f, c, n)
  <2>1. PICK h : h = [x \in 0..n |-> IF x = 0 THEN category[c].firstStock
                                     ELSE IF x = n THEN NULL_INDEX ELSE m[x + 1]]
    OBVIOUS
  <2>2. \A x \in 0..n : x # 0 => /\ h[x - 1] = m[x] /\ m[x] \in Place
                                 /\ h[x] = stock[h[x - 1]].nextCategory
    <3> SUFFICES ASSUME NEW x \in 0..n, x # 0
                 PROVE  /\ h[x - 1] = m[x] /\ m[x] \in Place
                        /\ h[x] = stock[h[x - 1]].nextCategory
      OBVIOUS
    <3>1. x - 1 \in 0..n /\ x - 1 # n /\ x \in 1..n /\ (x - 1) + 1 = x
      OBVIOUS
    <3>2. h[x - 1] = m[x]
      BY <1>2, <2>1, <3>1
    <3>3. QED
      BY <1>2, <2>1, <3>1, <3>2
  <2>3. h[0] = category[c].firstStock
    BY <2>1
  <2>4. \A x \in 0..n : h[x] = IF x = 0 THEN category[c].firstStock
                               ELSE IF h[x - 1] \in Place THEN stock[h[x - 1]].nextCategory
                               ELSE NULL_INDEX
    BY <2>2, <2>3
  <2>5. h = [x \in 0..n |-> h[x]]
    BY <2>1
  <2>6. Follows(h, c, n)
    BY <2>4, <2>5 DEF Follows
  <2>7. QED
    BY <1>3, <2>6, Zenon
<1>5. \A x \in 0..n : f[x] = IF x = 0 THEN category[c].firstStock
                             ELSE IF f[x - 1] \in Place THEN stock[f[x - 1]].nextCategory
                             ELSE NULL_INDEX
  BY <1>4 DEF Follows
<1> DEFINE Bad == {x \in Nat : x < n /\ f[x] # m[x + 1]}
<1>6. ASSUME Bad # {} PROVE FALSE
  <2>1. PICK x \in Bad : \A y \in Bad : x <= y
    <3>1. Bad \subseteq Nat
      OBVIOUS
    <3> HIDE DEF Bad
    <3>2. QED
      BY <1>6, <3>1, LeastNat
  <2>2. x \in Nat /\ x < n /\ f[x] # m[x + 1]
    BY <2>1
  <2>3. x # 0
    BY <1>2, <1>5, <2>2
  <2>4. PICK y \in Nat : y = x - 1 /\ y + 1 = x /\ y < n /\ x \in 1..n /\ x \in 0..n /\ x # n /\ ~(x <= y)
    BY <2>2, <2>3
  <2>5. f[y] = m[x]
    <3>1. y \notin Bad
      <4> HIDE DEF Bad
      <4>1. QED
        BY <2>1, <2>4
    <3>2. QED
      BY <2>4, <3>1
  <2>6. m[x] \in Place /\ stock[m[x]].nextCategory = m[x + 1]
    BY <1>2, <2>4
  <2>7. f[x] = IF f[y] \in Place THEN stock[f[y]].nextCategory ELSE NULL_INDEX
    BY <1>5, <2>3, <2>4
  <2>8. QED
    BY <2>2, <2>5, <2>6, <2>7
<1>7. \A x \in 0..n : x # n => f[x] = m[x + 1] /\ f[x] \in Place
  <2> SUFFICES ASSUME NEW x \in 0..n, x # n PROVE f[x] = m[x + 1] /\ f[x] \in Place
    OBVIOUS
  <2>1. x \in Nat /\ x < n /\ x + 1 \in 1..n
    OBVIOUS
  <2>2. f[x] = m[x + 1]
    BY <1>6, <2>1
  <2>3. QED
    BY <1>2, <2>1, <2>2
<1>8. Min({x \in 0..n : x = n \/ f[x] \notin Place}) = n
  <2>1. {x \in 0..n : x = n \/ f[x] \notin Place} = {n}
    BY <1>7
  <2>2. Min({n}) = n
    <3>1. {n} \subseteq Nat /\ {n} # {}
      OBVIOUS
    <3>2. PICK S : S = {n}
      OBVIOUS
    <3>3. Min(S) \in S
      BY <3>1, <3>2, MinChosen
    <3>4. QED
      BY <3>2, <3>3
  <2>3. QED
    BY <2>1, <2>2
<1>9. Visited(c) = [x \in 1..n |-> f[x - 1]]
  BY <1>3, <1>8 DEF VisitedBy
<1>10. \A x \in 1..n : f[x - 1] = m[x]
  <2> SUFFICES ASSUME NEW x \in 1..n PROVE f[x - 1] = m[x]
    OBVIOUS
  <2>1. x - 1 \in 0..n /\ x - 1 # n /\ (x - 1) + 1 = x
    OBVIOUS
  <2>2. QED
    BY <1>7, <2>1
<1>11. m = [x \in 1..n |-> m[x]]
  BY <1>1
<1>12. QED
  BY <1>1, <1>9, <1>10, <1>11

LEMMA JoinedRanked ==
  ASSUME JoinInv
  PROVE  RankedUntilMoved
<1> SUFFICES ASSUME ~moved, NEW c \in Categories
             PROVE  /\ IsRanking(GetShareWithdrawRanking(c), members[c], Place)
                    /\ IsRanking(GetShareOrderRanking(c), members[c], InTrade)
  BY DEF RankedUntilMoved, Categories
<1>1. SortedInv /\ JoinedWhole
  BY DEF JoinInv
<1>2. PICK list : list = members[c]
  OBVIOUS
<1>3. list \in Seq(Place)
  <2>1. list \in Seq(Nat) /\ Links(list)
    BY <1>1, <1>2 DEF JoinedWhole, JoinTypes, ListsLinked
  <2>2. \A x \in 1..Len(list) : list[x] \in 0..nextStock - 1
    BY <2>1 DEF Links
  <2>3. 0..nextStock - 1 \subseteq Place
    BY <1>1, StockAssumption DEF SortedInv, Place
  <2>4. \A x \in 1..Len(list) : list[x] \in Place
    BY <2>2, <2>3
  <2>5. list = [x \in 1..Len(list) |-> list[x]] /\ Len(list) \in Nat
    BY <2>1
  <2>6. QED
    BY <2>4, <2>5
<1>4. AmountsUpTo(AmountsIn(list), Len(list))
  <2>1. \A x \in 1..Len(list) : stock[list[x]].amount \in Int
    <3> SUFFICES ASSUME NEW x \in 1..Len(list) PROVE stock[list[x]].amount \in Int
      OBVIOUS
    <3>1. list[x] \in Place
      BY <1>3
    <3>2. stock[list[x]] \in Stocks
      BY <1>1, <3>1 DEF SortedInv
    <3>3. stock[list[x]].amount \in Amounts
      BY <3>2 DEF Stocks
    <3>4. QED
      BY <3>3, MarketAssumption DEF Amounts
  <2>2. QED
    BY <2>1 DEF AmountsUpTo, AmountsIn
<1>5. Visited(c) = list
  BY <1>1, <1>2, AllVisited
<1>6. \A stocks : RankAmong(c, stocks) = RankAll(list, stocks)
  BY <1>5 DEF RankAmong, RankAll
<1>7. \A stocks : IsRanking(RankAmong(c, stocks), list, stocks)
  <2> TAKE stocks
  <2>1. IsRanking(RankAll(list, stocks), list, stocks)
    BY <1>3, <1>4, RankAllRanks
  <2>2. QED
    BY <1>6, <2>1
<1>8. QED
  BY <1>2, <1>7 DEF GetShareOrderRanking, GetShareWithdrawRanking

\* What stays when the stocks of the lists keep where they are and what they lead to.
LEMMA ListsKept ==
  ASSUME JoinedWhole, UNCHANGED members, nextStock \in Nat, nextStock' \in Nat, nextStock <= nextStock',
         \A c \in Categories : \A x \in 1..Len(members[c]) :
           /\ stock'[members[c][x]].categoryNo = stock[members[c][x]].categoryNo
           /\ stock'[members[c][x]].nextCategory = stock[members[c][x]].nextCategory
  PROVE  ListsLinked' /\ Apart'
<1>1. Apart'
  BY DEF JoinedWhole, Apart
<1>2. ASSUME NEW c \in Categories PROVE Links(members[c])'
  <2>1. PICK m : m = members[c] /\ members'[c] = m
    OBVIOUS
  <2>2. Links(m)
    BY <2>1 DEF JoinedWhole, ListsLinked
  <2>3. \A x \in 1..Len(m) : /\ m[x] \in 0..nextStock' - 1
                             /\ stock'[m[x]].categoryNo # NULL_INDEX
                             /\ stock'[m[x]].nextCategory = IF x = Len(m) THEN NULL_INDEX ELSE m[x + 1]
    <3> SUFFICES ASSUME NEW x \in 1..Len(m)
                 PROVE  /\ m[x] \in 0..nextStock' - 1
                        /\ stock'[m[x]].categoryNo # NULL_INDEX
                        /\ stock'[m[x]].nextCategory = IF x = Len(m) THEN NULL_INDEX ELSE m[x + 1]
      OBVIOUS
    <3>1. m[x] \in 0..nextStock - 1
      BY <2>2 DEF Links
    <3>2. m[x] \in 0..nextStock' - 1
      BY <3>1
    <3>3. /\ stock[m[x]].categoryNo # NULL_INDEX
          /\ stock[m[x]].nextCategory = IF x = Len(m) THEN NULL_INDEX ELSE m[x + 1]
      BY <2>2 DEF Links
    <3>4. /\ stock'[m[x]].categoryNo = stock[m[x]].categoryNo
          /\ stock'[m[x]].nextCategory = stock[m[x]].nextCategory
      BY <2>1
    <3>5. QED
      BY <3>2, <3>3, <3>4
  <2>4. Links(m)'
    BY <2>3 DEF Links
  <2>5. QED
    BY <2>1, <2>4
<1>3. QED
  BY <1>1, <1>2 DEF ListsLinked

LEMMA TradingKeepsLists ==
  ASSUME SortedInv, JoinedWhole, NEW p \in Place, Trading(p)
  PROVE  JoinedWhole'
<1>1. PICK m \in Markets : stock' = [stock EXCEPT ![p].amount = m.amount,
                             ![p].prePrcsStsValCod = m.prePhase, ![p].prcsStsValCod = m.phase]
  BY DEF Trading
<1>2. UNCHANGED <<nextStock, category, nextCategory, members>> /\ nextStock \in Nat
  BY StockAssumption DEF Trading, categoryVars, SortedInv
<1>3. \A q \in Place : /\ stock'[q].categoryNo = stock[q].categoryNo
                       /\ stock'[q].nextCategory = stock[q].nextCategory
                       /\ stock'[q].stockNo = stock[q].stockNo
  BY ZenonT(40), <1>1 DEF SortedInv, Stocks
<1>4. 0..nextStock - 1 \subseteq Place
  BY StockAssumption DEF SortedInv, Place
<1>5. PlacesKnown'
  BY <1>2, <1>3, <1>4 DEF JoinedWhole, PlacesKnown
<1>6. \A c \in Categories : \A x \in 1..Len(members[c]) : members[c][x] \in Place
  BY <1>4 DEF JoinedWhole, ListsLinked, Links
<1>7. ListsLinked' /\ Apart'
  BY <1>2, <1>3, <1>6, ListsKept
<1>8. JoinTypes' /\ ListsLead'
  BY <1>2 DEF JoinedWhole, JoinTypes, ListsLead, Leads
<1>9. QED
  BY <1>5, <1>7, <1>8 DEF JoinedWhole

LEMMA AddCategoryKeepsLists ==
  ASSUME SortedInv, JoinedWhole, NEW id \in CategoryIds, AddCategory(id)
  PROVE  JoinedWhole'
<1>1. PICK cat : cat = [id |-> id, firstStock |-> NULL_INDEX, lastStock |-> NULL_INDEX,
                        securitiesNumber |-> 0]
  OBVIOUS
<1>2. /\ UNCHANGED <<stock, nextStock, members>> /\ nextStock \in Nat
      /\ category' = [category EXCEPT ![nextCategory] = cat] /\ nextCategory' = nextCategory + 1
  BY <1>1, StockAssumption DEF AddCategory, SortedInv
<1>3. nextCategory \in Categories /\ nextCategory \in Nat /\ nextCategory' \in 0..CategoryMax
  BY <1>2, StockAssumption DEF AddCategory, JoinedWhole, JoinTypes, Categories
<1>4. cat \in [id : CategoryIds \cup {0}, firstStock : Int, lastStock : Int, securitiesNumber : Nat]
  BY <1>1 DEF NULL_INDEX
<1>5. JoinTypes'
  BY <1>2, <1>3, <1>4 DEF JoinedWhole, JoinTypes
<1>6. ListsLead'
  <2> SUFFICES ASSUME NEW c \in Categories
               PROVE  Leads(category'[c], members[c], c < nextCategory + 1)
    BY <1>2 DEF ListsLead, Leads
  <2>1. Leads(category[c], members[c], c < nextCategory)
    BY DEF JoinedWhole, ListsLead
  <2>2. CASE c = nextCategory
    <3>1. category'[c] = cat /\ Len(members[c]) = 0
      BY <1>2, <1>3, <2>1, <2>2 DEF JoinedWhole, JoinTypes, Leads
    <3>2. QED
      BY <1>1, <1>3, <2>2, <3>1 DEF Leads
  <2>3. CASE c # nextCategory
    <3>1. category'[c] = category[c] /\ ((c < nextCategory + 1) <=> (c < nextCategory))
      BY <1>2, <1>3, <2>3, StockAssumption DEF Categories, JoinedWhole, JoinTypes
    <3>2. QED
      BY <2>1, <3>1 DEF Leads
  <2>4. QED
    BY <2>2, <2>3
<1>7. ListsLinked' /\ Apart'
  BY <1>2, ListsKept
<1>8. PlacesKnown'
  BY <1>2 DEF JoinedWhole, PlacesKnown
<1>9. QED
  BY <1>5, <1>6, <1>7, <1>8 DEF JoinedWhole

LEMMA InsertPlaceIn ==
  ASSUME SortedInv, NEW code
  PROVE  InsertPlace(code) \in 0..nextStock
<1> DEFINE S == Greater(code) \cup {nextStock}
<1>1. nextStock \in Nat /\ S \subseteq 0..nextStock
  BY StockAssumption DEF SortedInv, Greater
<1>2. S \subseteq Nat /\ S # {}
  BY <1>1
<1>3. Min(S) \in S
  <2> HIDE DEF S
  <2>1. QED
    BY <1>2, MinChosen
<1>4. QED
  BY <1>1, <1>3 DEF InsertPlace

\* A new stock that moves none of the lists' stocks leaves the lists alone.
LEMMA AddStockKeepsLists ==
  ASSUME SortedInv, JoinedWhole, NEW code \in Codes, AddStock(code), ~moved'
  PROVE  JoinedWhole'
<1>1. PICK p : p = InsertPlace(code)
  OBVIOUS
<1>2. p \in 0..nextStock /\ nextStock \in Nat /\ nextStock < StockMax /\ StockMax \in Nat
  BY <1>1, InsertPlaceIn, StockAssumption DEF SortedInv, AddStock
<1> DEFINE new == [stock[p] EXCEPT !.isinCod = code, !.stockNo = p,
                                   !.categoryNo = NULL_INDEX, !.nextCategory = NULL_INDEX]
           up(q) == [stock[q - 1] EXCEPT !.stockNo = q]
<1>3. /\ stock' = [q \in Place |-> IF q \in p..nextStock THEN (IF q = p THEN new ELSE up(q)) ELSE stock[q]]
      /\ nextStock' = nextStock + 1
      /\ UNCHANGED <<category, nextCategory, members>>
      /\ \A c \in DOMAIN members : \A x \in DOMAIN members[c] : ~(members[c][x] >= p)
  BY <1>1 DEF AddStock, categoryVars
<1>4. p \in Place /\ \A q \in Place : stock[q] \in Stocks
  BY <1>2 DEF SortedInv, Place
<1>5. new.stockNo = p /\ new.nextCategory = NULL_INDEX
  <2>1. PICK s \in Stocks : s = stock[p]
    BY <1>4
  <2>2. QED
    BY <2>1 DEF Stocks
<1>6. \A q \in Place : q \in p..nextStock /\ q # p =>
        /\ q - 1 \in 0..nextStock - 1 /\ up(q).stockNo = q
        /\ up(q).categoryNo = stock[q - 1].categoryNo
        /\ up(q).nextCategory = stock[q - 1].nextCategory
  <2> SUFFICES ASSUME NEW q \in Place, q \in p..nextStock, q # p
               PROVE  /\ q - 1 \in 0..nextStock - 1 /\ up(q).stockNo = q
                      /\ up(q).categoryNo = stock[q - 1].categoryNo
                      /\ up(q).nextCategory = stock[q - 1].nextCategory
    OBVIOUS
  <2>1. q - 1 \in Place /\ q \in Int /\ q - 1 \in 0..nextStock - 1
    BY <1>2 DEF Place
  <2>2. PICK s \in Stocks : s = stock[q - 1]
    BY <1>4, <2>1
  <2>3. QED
    BY <2>1, <2>2 DEF Stocks
<1> HIDE DEF new, up
<1>7. ASSUME NEW q \in 0..nextStock
      PROVE  /\ stock'[q].stockNo = q
             /\ stock'[q].categoryNo = NULL_INDEX => stock'[q].nextCategory = NULL_INDEX
  <2>1. q \in Place
    BY <1>2 DEF Place
  <2>2. CASE q < p
    <3>1. q \in 0..nextStock - 1 /\ stock'[q] = stock[q]
      BY <1>2, <1>3, <2>1, <2>2
    <3>2. QED
      BY <3>1 DEF JoinedWhole, PlacesKnown
  <2>3. CASE q = p
    <3>1. stock'[q] = new
      BY <1>2, <1>3, <2>1, <2>3
    <3>2. QED
      BY <1>5, <2>3, <3>1
  <2>4. CASE q > p
    <3>1. stock'[q] = up(q) /\ q \in p..nextStock /\ q # p
      BY <1>2, <1>3, <2>1, <2>4
    <3>2. QED
      BY <1>6, <2>1, <3>1 DEF JoinedWhole, PlacesKnown
  <2>5. QED
    BY <1>2, <2>2, <2>3, <2>4
<1>8. PlacesKnown'
  <2>1. 0..nextStock' - 1 = 0..nextStock
    BY <1>2, <1>3
  <2>2. QED
    BY <1>7, <2>1 DEF PlacesKnown
<1>9. ASSUME NEW c \in Categories, NEW x \in 1..Len(members[c])
      PROVE  stock'[members[c][x]] = stock[members[c][x]]
  <2>1. PICK q : q = members[c][x]
    OBVIOUS
  <2>2. q \in 0..nextStock - 1
    BY <2>1 DEF JoinedWhole, ListsLinked, Links
  <2>3. ~(q >= p)
    <3>1. c \in DOMAIN members /\ x \in DOMAIN members[c]
      BY DEF JoinedWhole, JoinTypes
    <3>2. QED
      BY <1>3, <2>1, <3>1
  <2>4. q \in Place /\ q \notin p..nextStock
    BY <1>2, <2>2, <2>3 DEF Place
  <2>5. QED
    BY <1>3, <2>1, <2>4
<1>10. ListsLinked' /\ Apart'
  <2>1. nextStock' \in Nat /\ nextStock <= nextStock'
    BY <1>2, <1>3
  <2>2. QED
    BY <1>2, <1>3, <1>9, <2>1, ListsKept
<1>11. JoinTypes' /\ ListsLead'
  BY <1>3 DEF JoinedWhole, JoinTypes, ListsLead, Leads
<1>12. QED
  BY <1>8, <1>10, <1>11 DEF JoinedWhole

LEMMA CategoryFound ==
  ASSUME JoinTypes, NEW id, GetCategoryById(id) # NULL_INDEX
  PROVE  GetCategoryById(id) \in 0..nextCategory - 1 /\ GetCategoryById(id) \in Categories
<1>1. PICK S : S = {c \in 0..nextCategory - 1 : category[c].id = id}
  OBVIOUS
<1>2. S # {} /\ GetCategoryById(id) = Min(S)
  BY <1>1 DEF GetCategoryById
<1>3. S \subseteq Nat
  BY <1>1, StockAssumption DEF JoinTypes
<1>4. Min(S) \in S
  BY <1>2, <1>3, MinChosen
<1>5. QED
  BY <1>1, <1>2, <1>4, StockAssumption DEF JoinTypes, Categories

\* The stock comes last in the list of its category.
LEMMA AddCategoryStockKeepsLists ==
  ASSUME SortedInv, JoinedWhole, NEW id \in CategoryIds, NEW p \in 0..nextStock - 1,
         AddCategoryStock(id, p), ~moved'
  PROVE  JoinedWhole'
<1>1. PICK c, m, n : c = GetCategoryById(id) /\ m = members[c] /\ n = Len(m)
  OBVIOUS
<1>2. c \in Categories /\ c \in 0..nextCategory - 1
  BY <1>1, CategoryFound DEF JoinedWhole, AddCategoryStock
<1>3. m \in Seq(Nat) /\ n \in Nat
  BY <1>1, <1>2 DEF JoinedWhole, JoinTypes
<1>4. nextStock \in Nat /\ 0..nextStock - 1 \subseteq Place /\ p \in Place /\ p \in Nat
  BY StockAssumption DEF SortedInv, Place
<1>5. stock[p].stockNo = p /\ stock[p].categoryNo = NULL_INDEX /\ stock[p].nextCategory = NULL_INDEX
  BY DEF JoinedWhole, PlacesKnown, AddCategoryStock
<1>6. id # NULL_INDEX /\ UNCHANGED <<nextStock, nextCategory>>
  BY <1>5 DEF AddCategoryStock
<1>7. PICK cat : cat = category[c]
  OBVIOUS
<1>8. /\ cat \in [id : CategoryIds \cup {0}, firstStock : Int, lastStock : Int, securitiesNumber : Nat]
      /\ cat.securitiesNumber = n
      /\ n = 0 => cat.firstStock = NULL_INDEX
      /\ n > 0 => cat.firstStock = m[1] /\ cat.lastStock = m[n]
  <2>1. cat \in [id : CategoryIds \cup {0}, firstStock : Int, lastStock : Int, securitiesNumber : Nat]
    BY <1>2, <1>7 DEF JoinedWhole, JoinTypes
  <2>2. c < nextCategory
    BY <1>2 DEF JoinedWhole, JoinTypes
  <2>3. QED
    BY <1>1, <1>2, <1>7, <2>1, <2>2 DEF JoinedWhole, ListsLead, Leads
<1>9. \A d \in Categories : \A x \in 1..Len(members[d]) :
        /\ members[d][x] \in 0..nextStock - 1 /\ members[d][x] \in Place
        /\ members[d][x] # p /\ stock[members[d][x]].categoryNo # NULL_INDEX
  BY <1>4, <1>5 DEF JoinedWhole, ListsLinked, Links
<1>10. \A x \in 1..n : m[x] \in 0..nextStock - 1 /\ m[x] \in Place /\ m[x] # p
  BY <1>1, <1>2, <1>9
<1>11. (cat.firstStock < 0) <=> n = 0
  <2>1. n > 0 => m[1] \in 0..nextStock - 1
    BY <1>3, <1>10
  <2>2. QED
    BY <1>3, <1>8, <2>1 DEF NULL_INDEX
<1>12. PICK new : new = [cat EXCEPT !.securitiesNumber = n + 1,
                           !.firstStock = IF n = 0 THEN p ELSE cat.firstStock, !.lastStock = p]
  OBVIOUS
<1>13. category' = [category EXCEPT ![c] = new]
  <2>1. category' = [category EXCEPT
           ![c].securitiesNumber = @ + 1,
           ![c].firstStock = IF cat.firstStock < 0 THEN stock[p].stockNo ELSE @,
           ![c].lastStock = stock[p].stockNo]
    BY <1>1, <1>7 DEF AddCategoryStock
  <2>2. QED
    BY <1>2, <1>5, <1>7, <1>8, <1>11, <1>12, <2>1 DEF JoinedWhole, JoinTypes
<1>14. members' = [members EXCEPT ![c] = Append(m, p)]
  BY <1>1 DEF AddCategoryStock
<1>15. /\ new \in [id : CategoryIds \cup {0}, firstStock : Int, lastStock : Int, securitiesNumber : Nat]
       /\ new.securitiesNumber = n + 1 /\ new.lastStock = p
       /\ new.firstStock = IF n = 0 THEN p ELSE m[1]
  <2>1. n > 0 => m[1] \in Int
    BY <1>3, <1>10
  <2>2. PICK first \in Int : first = IF n = 0 THEN p ELSE cat.firstStock
    BY <1>4, <1>8
  <2>3. PICK many \in Nat : many = n + 1
    BY <1>3
  <2>4. PICK last \in Int : last = p
    BY <1>4
  <2>5. new = [cat EXCEPT !.securitiesNumber = many, !.firstStock = first, !.lastStock = last]
    BY <1>12, <2>2, <2>3, <2>4
  <2>6. /\ new \in [id : CategoryIds \cup {0}, firstStock : Int, lastStock : Int, securitiesNumber : Nat]
        /\ new.securitiesNumber = many /\ new.lastStock = last /\ new.firstStock = first
    BY <1>8, <2>5
  <2>7. first = IF n = 0 THEN p ELSE m[1]
    BY <1>3, <1>8, <2>2
  <2>8. QED
    BY <2>3, <2>4, <2>6, <2>7
<1>16. /\ members'[c] = Append(m, p) /\ category'[c] = new
       /\ \A d \in Categories : d # c => members'[d] = members[d] /\ category'[d] = category[d]
  BY <1>2, <1>13, <1>14 DEF JoinedWhole, JoinTypes
<1>17. /\ Append(m, p) \in Seq(Nat) /\ Len(Append(m, p)) = n + 1
       /\ Append(m, p)[n + 1] = p /\ \A x \in 1..n : Append(m, p)[x] = m[x]
  BY <1>1, <1>3, <1>4
<1>18. JoinTypes'
  BY <1>2, <1>6, <1>13, <1>14, <1>15, <1>17 DEF JoinedWhole, JoinTypes
<1>19. ListsLead'
  <2>1. ASSUME NEW d \in Categories PROVE Leads(category'[d], members'[d], d < nextCategory)
    <3>1. CASE d = c
      <4>1. c < nextCategory
        BY <1>2 DEF JoinedWhole, JoinTypes
      <4>2. Append(m, p)[1] = IF n = 0 THEN p ELSE m[1]
        BY <1>3, <1>17
      <4>3. Leads(new, Append(m, p), c < nextCategory)
        BY <1>3, <1>15, <1>17, <4>1, <4>2 DEF Leads
      <4>4. QED
        BY <1>16, <3>1, <4>3
    <3>2. CASE d # c
      BY <1>16, <3>2 DEF JoinedWhole, ListsLead
    <3>3. QED
      BY <3>1, <3>2
  <2>2. QED
    BY <1>6, <2>1 DEF ListsLead, Leads
<1>20. \A q \in Place :
         /\ stock'[q].stockNo = stock[q].stockNo
         /\ stock'[q].categoryNo = IF q = p THEN id ELSE stock[q].categoryNo
         /\ stock'[q].nextCategory = IF n > 0 /\ q = m[n] THEN p ELSE stock[q].nextCategory
  <2>1. PICK entered : entered = [stock EXCEPT ![p].categoryNo = id]
    OBVIOUS
  <2>2. \A q \in Place : /\ entered[q].stockNo = stock[q].stockNo
                         /\ entered[q].categoryNo = IF q = p THEN id ELSE stock[q].categoryNo
                         /\ entered[q].nextCategory = stock[q].nextCategory
                         /\ entered[q] \in [isinCod : Nat, stockNo : Int,
                              categoryNo : CategoryIds \cup {0, NULL_INDEX}, nextCategory : Int,
                              amount : Amounts, prePrcsStsValCod : PhasesBefore,
                              prcsStsValCod : Phases]
    BY <1>4, <2>1 DEF SortedInv, Stocks
  <2>3. entered \in [Place -> Stocks]
    BY <2>1, <2>2 DEF SortedInv, Stocks
  <2>4. CASE n = 0
    <3>1. stock' = entered
      BY <1>1, <1>7, <1>11, <2>1, <2>4 DEF AddCategoryStock
    <3>2. QED
      BY <2>2, <2>4, <3>1
  <2>5. CASE n > 0
    <3>1. PICK l \in Place : l = m[n]
      BY <1>3, <1>10, <2>5
    <3>2. stock' = [entered EXCEPT ![l].nextCategory = p]
      <4>1. stock' = IF cat.firstStock < 0 THEN entered
                       ELSE [entered EXCEPT ![cat.lastStock].nextCategory = stock[p].stockNo]
        BY <1>1, <1>7, <2>1 DEF AddCategoryStock
      <4>2. ~(cat.firstStock < 0) /\ cat.lastStock = l
        BY <1>3, <1>8, <1>11, <2>5, <3>1
      <4>3. QED
        BY <1>5, <4>1, <4>2
    <3>3. \A q \in Place : /\ stock'[q].stockNo = entered[q].stockNo
                           /\ stock'[q].categoryNo = entered[q].categoryNo
                           /\ stock'[q].nextCategory = IF q = l THEN p ELSE entered[q].nextCategory
      BY <2>3, <3>1, <3>2 DEF Stocks
    <3>4. QED
      BY <2>2, <2>5, <3>1, <3>3
  <2>6. QED
    BY <1>3, <2>4, <2>5
<1>21. ListsLinked'
  <2>1. ASSUME NEW d \in Categories, d # c PROVE Links(members[d])'
    <3>1. PICK l : l = members[d] /\ members'[d] = l
      BY <1>16, <2>1
    <3>2. \A x \in 1..Len(l) : /\ stock'[l[x]].categoryNo = stock[l[x]].categoryNo
                               /\ stock'[l[x]].nextCategory = stock[l[x]].nextCategory
      <4> SUFFICES ASSUME NEW x \in 1..Len(l)
                   PROVE  /\ stock'[l[x]].categoryNo = stock[l[x]].categoryNo
                          /\ stock'[l[x]].nextCategory = stock[l[x]].nextCategory
        OBVIOUS
      <4>1. l[x] \in Place /\ l[x] # p
        BY <1>9, <3>1
      <4>2. n > 0 => l[x] # m[n]
        <5>1. n > 0 => n \in 1..Len(members[c])
          BY <1>1, <1>3
        <5>2. QED
          BY <1>1, <1>2, <2>1, <3>1, <5>1 DEF JoinedWhole, Apart
      <4>3. QED
        BY <1>20, <4>1, <4>2
    <3>3. QED
      BY <1>6, <3>1, <3>2 DEF JoinedWhole, ListsLinked, Links
  <2>2. Links(members[c])'
    <3>1. PICK l : l = Append(m, p) /\ members'[c] = l
      BY <1>16
    <3>2. ASSUME NEW x \in 1..n + 1
          PROVE  /\ l[x] \in 0..nextStock - 1
                 /\ stock'[l[x]].categoryNo # NULL_INDEX
                 /\ stock'[l[x]].nextCategory = IF x = n + 1 THEN NULL_INDEX ELSE l[x + 1]
      <4>1. CASE x = n + 1
        <5>1. l[x] = p
          BY <1>17, <3>1, <4>1
        <5>2. n > 0 => p # m[n]
          BY <1>3, <1>10
        <5>3. QED
          BY <1>4, <1>5, <1>6, <1>20, <4>1, <5>1, <5>2
      <4>2. CASE x # n + 1
        <5>1. x \in 1..n /\ l[x] = m[x] /\ n > 0
          BY <1>3, <1>17, <3>1, <4>2
        <5>2. /\ m[x] \in 0..nextStock - 1 /\ m[x] \in Place /\ m[x] # p
              /\ stock[m[x]].categoryNo # NULL_INDEX
              /\ stock[m[x]].nextCategory = IF x = n THEN NULL_INDEX ELSE m[x + 1]
          BY <1>1, <1>2, <1>10, <5>1 DEF JoinedWhole, ListsLinked, Links
        <5>3. CASE x = n
          BY <1>17, <1>20, <3>1, <4>2, <5>1, <5>2, <5>3
        <5>4. CASE x # n
          <6>1. x + 1 \in 1..n /\ l[x + 1] = m[x + 1] /\ n \in 1..n
            BY <1>3, <1>17, <3>1, <5>1, <5>4
          <6>2. m[x] # m[n]
            BY <1>1, <1>2, <5>1, <5>4, <6>1 DEF JoinedWhole, Apart
          <6>3. QED
            BY <1>20, <4>2, <5>1, <5>2, <5>4, <6>1, <6>2
        <5>5. QED
          BY <5>3, <5>4
      <4>3. QED
        BY <4>1, <4>2
    <3>3. Len(l) = n + 1
      BY <1>17, <3>1
    <3>4. QED
      BY <1>6, <3>1, <3>2, <3>3 DEF Links
  <2>3. QED
    BY <2>1, <2>2 DEF ListsLinked
<1>22. Apart'
  <2>1. ASSUME NEW d \in Categories, NEW x \in 1..Len(members'[d])
        PROVE  \/ d = c /\ x = n + 1 /\ members'[d][x] = p
               \/ /\ x \in 1..Len(members[d]) /\ members'[d][x] = members[d][x]
                  /\ members[d][x] # p
    <3>1. CASE d = c /\ x = n + 1
      BY <1>16, <1>17, <3>1
    <3>2. CASE d = c /\ x # n + 1
      <4>1. x \in 1..n
        BY <1>3, <1>16, <1>17, <3>2
      <4>2. QED
        BY <1>1, <1>2, <1>9, <1>16, <1>17, <3>2, <4>1
    <3>3. CASE d # c
      BY <1>9, <1>16, <3>3
    <3>4. QED
      BY <3>1, <3>2, <3>3
  <2>2. ASSUME NEW d \in Categories, NEW e \in Categories, NEW x \in 1..Len(members'[d]),
               NEW y \in 1..Len(members'[e]), members'[d][x] = members'[e][y]
        PROVE  d = e /\ x = y
    <3>1. CASE x \in 1..Len(members[d]) /\ members'[d][x] = members[d][x] /\ members[d][x] # p
      <4>1. y \in 1..Len(members[e]) /\ members'[e][y] = members[e][y]
        BY <2>1, <2>2, <3>1
      <4>2. members[d][x] = members[e][y]
        BY <2>2, <3>1, <4>1
      <4>3. Apart
        BY DEF JoinedWhole
      <4>4. QED
        BY <3>1, <4>1, <4>2, <4>3 DEF Apart
    <3>2. CASE d = c /\ x = n + 1 /\ members'[d][x] = p
      BY <2>1, <2>2, <3>2
    <3>3. QED
      BY <2>1, <3>1, <3>2
  <2>3. QED
    BY <2>2 DEF Apart
<1>23. PlacesKnown'
  <2>1. ASSUME NEW q \in 0..nextStock - 1
        PROVE  /\ stock'[q].stockNo = q
               /\ stock'[q].categoryNo = NULL_INDEX => stock'[q].nextCategory = NULL_INDEX
    <3>1. q \in Place
      BY <1>4
    <3>2. /\ stock[q].stockNo = q
          /\ stock[q].categoryNo = NULL_INDEX => stock[q].nextCategory = NULL_INDEX
      BY DEF JoinedWhole, PlacesKnown
    <3>3. n > 0 /\ q = m[n] => stock[q].categoryNo # NULL_INDEX
      <4>1. n > 0 => n \in 1..Len(members[c])
        BY <1>1, <1>3
      <4>2. QED
        BY <1>1, <1>2, <1>9, <4>1
    <3>4. QED
      BY <1>6, <1>20, <3>1, <3>2, <3>3
  <2>2. QED
    BY <1>6, <2>1 DEF PlacesKnown
<1>24. QED
  BY <1>18, <1>19, <1>21, <1>22, <1>23 DEF JoinedWhole

LEMMA JoinInductive ==
  ASSUME JoinInv, [TradeNext]_tradeVars
  PROVE  JoinInv'
<1>1. SortedInv /\ SortedInv'
  BY SortedInductive DEF JoinInv
<1>2. SUFFICES ASSUME ~moved' PROVE JoinedWhole'
  BY <1>1 DEF JoinInv
<1>3. ASSUME NEW code \in Codes, AddStock(code) PROVE JoinedWhole'
  <2>1. JoinedWhole
    BY <1>2, <1>3 DEF JoinInv, AddStock
  <2>2. QED
    BY <1>1, <1>2, <1>3, <2>1, AddStockKeepsLists
<1>4. ASSUME NEW id \in CategoryIds, AddCategory(id) PROVE JoinedWhole'
  <2>1. JoinedWhole
    BY <1>2, <1>4 DEF JoinInv, AddCategory
  <2>2. QED
    BY <1>1, <1>4, <2>1, AddCategoryKeepsLists
<1>5. ASSUME NEW id \in CategoryIds, NEW p \in 0..nextStock - 1, AddCategoryStock(id, p)
      PROVE  JoinedWhole'
  <2>1. JoinedWhole
    BY <1>2, <1>5 DEF JoinInv, AddCategoryStock
  <2>2. QED
    BY <1>1, <1>2, <1>5, <2>1, AddCategoryStockKeepsLists
<1>6. ASSUME NEW p \in Place, Trading(p) PROVE JoinedWhole'
  <2>1. JoinedWhole
    BY <1>2, <1>6 DEF JoinInv, Trading
  <2>2. QED
    BY <1>1, <1>6, <2>1, TradingKeepsLists
<1>7. CASE UNCHANGED stockVars
  <2>1. UNCHANGED <<stock, nextStock, category, nextCategory, members, moved>>
    BY <1>7 DEF stockVars, categoryVars
  <2>2. JoinedWhole
    BY <1>2, <2>1 DEF JoinInv
  <2>3. JoinTypes' /\ ListsLead' /\ Apart' /\ PlacesKnown'
    <3>1. JoinTypes'
      BY <2>1, <2>2 DEF JoinedWhole, JoinTypes
    <3>2. ListsLead'
      BY <2>1, <2>2 DEF JoinedWhole, ListsLead, Leads
    <3>3. Apart' /\ PlacesKnown'
      BY <2>1, <2>2 DEF JoinedWhole, Apart, PlacesKnown
    <3>4. QED
      BY <3>1, <3>2, <3>3
  <2>4. ListsLinked'
    BY <2>1, <2>2 DEF JoinedWhole, ListsLinked, Links
  <2>5. QED
    BY <2>3, <2>4 DEF JoinedWhole
<1>8. QED
  BY <1>3, <1>4, <1>5, <1>6, <1>7 DEF TradeNext, StockNext, tradeVars

LEMMA JoinInitial ==
  ASSUME TradeInit
  PROVE  JoinInv
<1>1. SortedInv
  BY SortedInitial
<1>2. /\ nextStock = 0 /\ nextCategory = 0
      /\ category = [c \in Categories |-> [id |-> 0, firstStock |-> 0, lastStock |-> 0,
                                           securitiesNumber |-> 0]]
      /\ members = [c \in Categories |-> <<>>]
  BY DEF TradeInit, StockInit, Categories
<1>3. \A c \in Categories : c >= 0 /\ ~(c < nextCategory) /\ members[c] = <<>> /\ Len(members[c]) = 0
  BY <1>2, StockAssumption DEF Categories
<1>4. JoinTypes
  <2>1. [id |-> 0, firstStock |-> 0, lastStock |-> 0, securitiesNumber |-> 0] \in
          [id : CategoryIds \cup {0}, firstStock : Int, lastStock : Int, securitiesNumber : Nat]
    OBVIOUS
  <2>2. <<>> \in Seq(Nat)
    OBVIOUS
  <2>3. QED
    BY <1>2, <2>1, <2>2, StockAssumption DEF JoinTypes
<1>5. ListsLead
  <2>1. \A c \in Categories : category[c].securitiesNumber = 0
    BY <1>2
  <2>2. QED
    BY <1>3, <2>1 DEF ListsLead, Leads
<1>6. ListsLinked /\ Apart /\ PlacesKnown
  BY <1>2, <1>3 DEF ListsLinked, Links, Apart, PlacesKnown
<1>7. QED
  BY <1>1, <1>4, <1>5, <1>6 DEF JoinInv, JoinedWhole

\* The four rankings of sort.c hold the biggest amounts of a category, the earlier stock first
\* among equal ones, as long as AddStock (stock.c:249-258) moves no stock of a category and
\* AddCategoryStock (category.c:209-232) takes none away from another.
THEOREM RankingsRight == TradeSpec => []RankedUntilMoved
  BY JoinInitial, JoinInductive, JoinedRanked, PTL DEF TradeSpec
=============================================================================
