---------------------------- MODULE StockLockProofs ----------------------------
(***************************************************************************)
(* Proofs about the stock lock, for every MaxSpin, BufferSize and choice   *)
(* of memory behaviours.                                                   *)
(***************************************************************************)
EXTENDS StockLock, TLAPS

\* Only shared memory and the buffers have a type worth a lemma: a store keeps it.
LEMMA StoreKeepsType ==
  ASSUME TypeOK, NEW p \in Process, NEW st \in Stores, Store(p, st)
  PROVE  /\ lockFLag' \in [Process -> BOOLEAN]
         /\ turn' \in Process
         /\ buffer' \in [Process -> Seq(Stores)]
         /\ ~buffered => \A q \in Process : buffer'[q] = <<>>
<1>1. CASE ~buffered /\ InMemory(st) /\ UNCHANGED buffer
  BY <1>1 DEF TypeOK, InMemory, Stores
<1>2. CASE buffered /\ buffer' = [buffer EXCEPT ![p] = Append(@, st)] /\ UNCHANGED <<lockFLag, turn>>
  BY <1>2 DEF TypeOK
<1>3. QED
  BY <1>1, <1>2 DEF Store

\* A process still in the loop has not used up its rounds: without this the
\* bound on i in TypeOK is not inductive.
RoundsLeft ==
  \A p \in Process : pc[p] \in {"set_flag", "set_turn", "test_turn", "test_flag"} => i[p] <= MaxSpin

\* The inductive step behind TypeCorrect: one case per action.
LEMMA TypeInductive == Spec => [](TypeOK /\ RoundsLeft)
<1>1. Init => TypeOK /\ RoundsLeft
  BY BufferAssumption, SpinAssumption DEF Init, TypeOK, RoundsLeft, Process
<1>2. TypeOK /\ RoundsLeft /\ [Next]_vars => TypeOK' /\ RoundsLeft'
  <2> SUFFICES ASSUME TypeOK, RoundsLeft, [Next]_vars PROVE TypeOK' /\ RoundsLeft'
    OBVIOUS
  <2> USE SpinAssumption DEF RoundsLeft
  <2>1. CASE UNCHANGED vars
    BY <2>1 DEF vars, TypeOK
  <2>2. ASSUME NEW p \in Process, Call(p) PROVE TypeOK' /\ RoundsLeft'
    BY <2>2 DEF Call, Goto, TypeOK, Waiting
  <2>3. ASSUME NEW p \in Process, SetFlag(p) PROVE TypeOK' /\ RoundsLeft'
    <3>1. FlagStore(p, TRUE) \in Stores
      BY DEF FlagStore, Stores
    <3>2. QED
      BY <2>3, <3>1, StoreKeepsType DEF SetFlag, Goto, TypeOK, Waiting
  <2>4. ASSUME NEW p \in Process, SetTurn(p) PROVE TypeOK' /\ RoundsLeft'
    <3>1. TurnStore(p) \in Stores
      BY DEF TurnStore, Stores
    <3>2. QED
      BY <2>4, <3>1, StoreKeepsType DEF SetTurn, Goto, TypeOK, Waiting
  <2>5. ASSUME NEW p \in Process, TestTurn(p) PROVE TypeOK' /\ RoundsLeft'
    BY <2>5 DEF TestTurn, Goto, TypeOK, Waiting
  <2>6. ASSUME NEW p \in Process, TestFlagFree(p) PROVE TypeOK' /\ RoundsLeft'
    BY <2>6 DEF TestFlagFree, Goto, TypeOK, Waiting
  <2>7. ASSUME NEW p \in Process, TestFlagBusy(p) PROVE TypeOK' /\ RoundsLeft'
    <3>1. i[p] \in 0..MaxSpin
      BY <2>7 DEF TypeOK, TestFlagBusy, Goto
    <3>2. i' = [i EXCEPT ![p] = i[p] + 1] /\ i[p] + 1 \in 0..(MaxSpin + 1)
      BY <2>7, <3>1 DEF TestFlagBusy
    <3>3. i' \in [Process -> 0..(MaxSpin + 1)]
      BY <3>2 DEF TypeOK
    <3>4. QED
      BY <2>7, <3>2, <3>3 DEF TestFlagBusy, Goto, TypeOK, Waiting
  <2>8. ASSUME NEW p \in Process, ForceUnlock(p) PROVE TypeOK' /\ RoundsLeft'
    <3>1. FlagStore(Other(p), FALSE) \in Stores
      BY DEF FlagStore, Stores, Other, Process
    <3>2. QED
      BY <2>8, <3>1, StoreKeepsType DEF ForceUnlock, Goto, TypeOK, Waiting
  <2>9. ASSUME NEW p \in Process, StockUnlock(p) PROVE TypeOK' /\ RoundsLeft'
    <3>1. FlagStore(p, FALSE) \in Stores
      BY DEF FlagStore, Stores
    <3>2. QED
      BY <2>9, <3>1, StoreKeepsType DEF StockUnlock, Goto, TypeOK, Waiting
  <2>10. ASSUME NEW p \in Process, Drain(p) PROVE TypeOK' /\ RoundsLeft'
    <3>1. Head(buffer[p]) \in Stores /\ Tail(buffer[p]) \in Seq(Stores) /\ buffered
      BY <2>10 DEF Drain, TypeOK
    <3>2. QED
      BY <2>10, <3>1 DEF Drain, InMemory, TypeOK, Stores
  <2>11. ASSUME NEW p \in Process, Die(p) PROVE TypeOK' /\ RoundsLeft'
    BY <2>11 DEF Die, Goto, TypeOK
  <2>12. ASSUME NEW p \in Process, Restart(p) PROVE TypeOK' /\ RoundsLeft'
    BY <2>12 DEF Restart, Goto, TypeOK
  <2>13. QED
    BY <2>1, <2>2, <2>3, <2>4, <2>5, <2>6, <2>7, <2>8, <2>9, <2>10, <2>11, <2>12 DEF Next, LockStep
<1>3. QED
  BY <1>1, <1>2, PTL DEF Spec

\* The rounds, flags, turn and buffers always have their types, and a process
\* that does not buffer its stores has none outstanding (stock.c:953-989).
THEOREM TypeCorrect == Spec => []TypeOK
  BY TypeInductive, PTL

-----------------------------------------------------------------------------

\* The strengthening that makes the exclusion inductive: when p is inside with its
\* flag up and the other process waits with its flag up, the other one asked last,
\* so its test of turn keeps it in the loop.
AskedLast ==
  ~buffered =>
    \A p \in Process :
      /\ pc[p] = "holds"
      /\ lockFLag[p] /\ lockFLag[Other(p)]
      /\ pc[Other(p)] \in {"test_turn", "test_flag", "force"}
      => turn = Other(p)

IInv == TypeOK /\ AskedLast /\ ExclusionUntilForced

\* Without buffered stores a process reads what is in memory.
LEMMA ReadsMemory ==
  ASSUME TypeOK, ~buffered, NEW p \in Process, NEW q \in Process
  PROVE  SeesFlag(p, q) = lockFLag[q] /\ SeesTurn(p) = turn
<1>1. buffer[p] = <<>>
  BY DEF TypeOK
<1>2. DOMAIN buffer[p] = {}
  BY <1>1
<1>3. QED
  BY <1>2 DEF SeesFlag, SeesTurn, Pending

\* Two processes are inside together only after a forced unlock (stock.c:981-985
\* took a flag away), for every limit of the wait and across deaths and restarts.
THEOREM ExclusionHolds == Spec => []ExclusionUntilForced
<1>1. Init => AskedLast /\ ExclusionUntilForced
  BY DEF Init, AskedLast, ExclusionUntilForced, Process
<1>2. IInv /\ TypeOK' /\ [Next]_vars => AskedLast' /\ ExclusionUntilForced'
  <2> SUFFICES ASSUME IInv, TypeOK', [Next]_vars PROVE AskedLast' /\ ExclusionUntilForced'
    OBVIOUS
  <2> USE DEF AskedLast, ExclusionUntilForced, Other, Process
  <2>1. CASE buffered'
    BY <2>1
  <2>2. CASE ~buffered'
    <3>1. ~buffered
      BY <2>2 DEF Next, LockStep, Goto, vars, Call, SetFlag, SetTurn, TestTurn, TestFlagFree,
                  TestFlagBusy, ForceUnlock, StockUnlock, Drain, Die, Restart
    <3> USE <3>1 DEF IInv
    <3>2. CASE UNCHANGED vars
      BY <3>2 DEF vars
    <3>3. ASSUME NEW p \in Process, Call(p) PROVE AskedLast' /\ ExclusionUntilForced'
      BY <3>3 DEF Call, Goto, TypeOK
    <3>4. ASSUME NEW p \in Process, SetFlag(p) PROVE AskedLast' /\ ExclusionUntilForced'
      BY <3>4 DEF SetFlag, Goto, Store, InMemory, FlagStore, TypeOK
    <3>5. ASSUME NEW p \in Process, SetTurn(p) PROVE AskedLast' /\ ExclusionUntilForced'
      BY <3>5 DEF SetTurn, Goto, Store, InMemory, TurnStore, TypeOK
    <3>6. ASSUME NEW p \in Process, TestTurn(p) PROVE AskedLast' /\ ExclusionUntilForced'
      <4>1. SeesTurn(p) = turn
        BY ReadsMemory
      <4>2. QED
        BY <3>6, <4>1 DEF TestTurn, Goto, TypeOK
    <3>7. ASSUME NEW p \in Process, TestFlagFree(p) PROVE AskedLast' /\ ExclusionUntilForced'
      <4>1. ~lockFLag[Other(p)]
        BY <3>7, ReadsMemory DEF TestFlagFree
      <4>2. QED
        BY <3>7, <4>1 DEF TestFlagFree, Goto, TypeOK
    <3>8. ASSUME NEW p \in Process, TestFlagBusy(p) PROVE AskedLast' /\ ExclusionUntilForced'
      BY <3>8 DEF TestFlagBusy, Goto, TypeOK
    <3>9. ASSUME NEW p \in Process, ForceUnlock(p) PROVE AskedLast' /\ ExclusionUntilForced'
      BY <3>9 DEF ForceUnlock, Goto, Store, InMemory, FlagStore, TypeOK
    <3>10. ASSUME NEW p \in Process, StockUnlock(p) PROVE AskedLast' /\ ExclusionUntilForced'
      BY <3>10 DEF StockUnlock, Goto, Store, InMemory, FlagStore, TypeOK
    <3>11. ASSUME NEW p \in Process, Drain(p) PROVE AskedLast' /\ ExclusionUntilForced'
      BY <3>11 DEF Drain, TypeOK
    <3>12. ASSUME NEW p \in Process, Die(p) PROVE AskedLast' /\ ExclusionUntilForced'
      BY <3>12 DEF Die, Goto, TypeOK
    <3>13. ASSUME NEW p \in Process, Restart(p) PROVE AskedLast' /\ ExclusionUntilForced'
      BY <3>13 DEF Restart, Goto, TypeOK
    <3>14. QED
      BY <3>2, <3>3, <3>4, <3>5, <3>6, <3>7, <3>8, <3>9, <3>10, <3>11, <3>12, <3>13
      DEF Next, LockStep
  <2>3. QED
    BY <2>1, <2>2
<1>3. QED
  BY <1>1, <1>2, TypeCorrect, PTL DEF Spec, IInv
=============================================================================
