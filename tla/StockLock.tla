------------------------------- MODULE StockLock -------------------------------
(***************************************************************************)
(* The software lock of one stock (StockLock and StockUnlock, stock.c): a  *)
(* two-process lock whose state lives in shared memory and whose waiting   *)
(* loop is bounded.  After MaxSpin rounds the waiter clears the other      *)
(* process's flag and goes on as if the lock had been released.            *)
(*                                                                         *)
(* lockFLag and turn are plain integers that two processes write without   *)
(* a fence.  An x86 processor may hold a process's stores back in a FIFO   *)
(* buffer that only that process reads; "buffered" says whether it does.   *)
(***************************************************************************)
EXTENDS Integers, Sequences, FiniteSetsExt

CONSTANTS
  MaxSpin,       \* rounds a waiter sleeps before it forces the lock open (200)
  StoreBuffers,  \* which of the two memory behaviours are considered
  BufferSize     \* stores a processor can hold back before it stalls

ASSUME SpinAssumption == MaxSpin \in Nat
ASSUME SizeAssumption == BufferSize \in Nat \ {0}
ASSUME BufferAssumption == StoreBuffers \subseteq BOOLEAN

Process == {0, 1}      \* PROCESS_STUB and PROCESS_VENDER
Other(p) == 1 - p

VARIABLES
  lockFLag,  \* lockFLag[p]: p wants the lock or holds it
  turn,      \* the process that last asked for the lock
  pc,        \* where each process is in StockLock
  i,         \* the rounds each process has waited
  buffered,  \* do stores pass through a store buffer?
  buffer     \* the stores of each process that memory has not seen yet

vars == <<lockFLag, turn, pc, i, buffered, buffer>>

Waiting == {"set_flag", "set_turn", "test_turn", "test_flag", "force"}

FlagStore(q, v) == [loc |-> "flag", of |-> q, val |-> v]
TurnStore(p) == [loc |-> "turn", of |-> p, val |-> TRUE]
Stores == [loc : {"flag", "turn"}, of : Process, val : BOOLEAN]

(***************************************************************************)
(* Memory.  A store reaches memory at once or joins the process's buffer;  *)
(* a load takes the newest store of the process's own buffer, if any.      *)
(***************************************************************************)
InMemory(st) ==
  /\ lockFLag' = IF st.loc = "flag" THEN [lockFLag EXCEPT ![st.of] = st.val] ELSE lockFLag
  /\ turn' = IF st.loc = "turn" THEN st.of ELSE turn

Store(p, st) ==
  \/ /\ ~buffered
     /\ InMemory(st)
     /\ UNCHANGED buffer
  \/ /\ buffered
     /\ Len(buffer[p]) < BufferSize
     /\ buffer' = [buffer EXCEPT ![p] = Append(@, st)]
     /\ UNCHANGED <<lockFLag, turn>>

Pending(p, loc, q) == {k \in DOMAIN buffer[p] : buffer[p][k].loc = loc /\ buffer[p][k].of = q}

SeesFlag(p, q) ==
  IF Pending(p, "flag", q) = {} THEN lockFLag[q] ELSE buffer[p][Max(Pending(p, "flag", q))].val

SeesTurn(p) == IF Pending(p, "turn", p) = {} THEN turn ELSE p

Drain(p) ==
  /\ buffer[p] # <<>>
  /\ InMemory(Head(buffer[p]))
  /\ buffer' = [buffer EXCEPT ![p] = Tail(@)]
  /\ UNCHANGED <<pc, i, buffered>>

Goto(p, from, to) ==
  /\ pc[p] = from
  /\ pc' = [pc EXCEPT ![p] = to]
  /\ UNCHANGED buffered

(***************************************************************************)
(* StockLock, one action per access to shared memory.                      *)
(***************************************************************************)
CallKeepsCount(p) ==   \* mutant: the round counter is not reset
  /\ Goto(p, "out", "set_flag")
  /\ UNCHANGED <<lockFLag, turn, i, buffer>>

Call(p) ==
  /\ Goto(p, "out", "set_flag")
  /\ i' = [i EXCEPT ![p] = 0]
  /\ UNCHANGED <<lockFLag, turn, buffer>>

SetFlag(p) ==
  /\ Goto(p, "set_flag", "set_turn")
  /\ Store(p, FlagStore(p, TRUE))
  /\ UNCHANGED i

SetTurnToOther(p) ==   \* mutant: yields the turn, which the test below reads the other way
  /\ Goto(p, "set_turn", "test_turn")
  /\ Store(p, TurnStore(Other(p)))
  /\ UNCHANGED i

SetTurn(p) ==
  /\ Goto(p, "set_turn", "test_turn")
  /\ Store(p, TurnStore(p))
  /\ UNCHANGED i

TestTurn(p) ==
  /\ Goto(p, "test_turn", IF SeesTurn(p) = p THEN "test_flag" ELSE "holds")
  /\ UNCHANGED <<lockFLag, turn, i, buffer>>

\* The other process's flag is down: the loop ends.
TestFlagFree(p) ==
  /\ ~SeesFlag(p, Other(p))
  /\ Goto(p, "test_flag", "holds")
  /\ UNCHANGED <<lockFLag, turn, i, buffer>>

\* It is up: count the round, sleep, and test again or give up waiting.
TestFlagForever(p) ==   \* mutant: the wait has no limit
  /\ SeesFlag(p, Other(p))
  /\ Goto(p, "test_flag", "test_turn")
  /\ UNCHANGED <<lockFLag, turn, i, buffer>>

TestFlagBusy(p) ==
  /\ SeesFlag(p, Other(p))
  /\ Goto(p, "test_flag", IF i[p] + 1 > MaxSpin THEN "force" ELSE "test_turn")
  /\ i' = [i EXCEPT ![p] = @ + 1]
  /\ UNCHANGED <<lockFLag, turn, buffer>>

ForceUnlock(p) ==
  /\ Goto(p, "force", "holds")
  /\ Store(p, FlagStore(Other(p), FALSE))
  /\ UNCHANGED i

StockUnlock(p) ==
  /\ Goto(p, "holds", "out")
  /\ Store(p, FlagStore(p, FALSE))
  /\ UNCHANGED i

(***************************************************************************)
(* The processes.  Either may die anywhere, leaving its flag as it is, and *)
(* be started again on the memory it left behind.                          *)
(***************************************************************************)
Die(p) ==
  /\ pc[p] # "dead"
  /\ Goto(p, pc[p], "dead")
  /\ UNCHANGED <<lockFLag, turn, i, buffer>>

Restart(p) ==
  /\ Goto(p, "dead", "out")
  /\ UNCHANGED <<lockFLag, turn, i, buffer>>

Init ==
  /\ lockFLag = [p \in Process |-> FALSE]
  /\ turn = 0
  /\ pc = [p \in Process |-> "out"]
  /\ i = [p \in Process |-> 0]
  /\ buffered \in StoreBuffers
  /\ buffer = [p \in Process |-> <<>>]

\* What a process inside StockLock does next.
LockStep(p) ==
  SetFlag(p) \/ SetTurn(p) \/ TestTurn(p) \/ TestFlagFree(p) \/ TestFlagBusy(p) \/ ForceUnlock(p)

Next ==
  \E p \in Process :
    Call(p) \/ LockStep(p) \/ StockUnlock(p) \/ Drain(p) \/ Die(p) \/ Restart(p)

\* A live process runs and the processor writes its buffer back.  Nothing says
\* that a holder ever unlocks, that a process asks again, or that it survives.
Fairness == \A p \in Process : WF_vars(LockStep(p)) /\ WF_vars(Drain(p))

Spec == Init /\ [][Next]_vars /\ Fairness

-----------------------------------------------------------------------------

\* Types: the rounds never exceed the limit by more than the last one, and a
\* process that does not buffer its stores has none outstanding.
TypeOK ==
  /\ lockFLag \in [Process -> BOOLEAN]
  /\ turn \in Process
  /\ pc \in [Process -> Waiting \cup {"out", "holds", "dead"}]
  /\ i \in [Process -> 0..(MaxSpin + 1)]
  /\ buffered \in BOOLEAN
  /\ buffer \in [Process -> Seq(Stores)]
  /\ ~buffered => \A p \in Process : buffer[p] = <<>>

\* What is left of it once a waiter may force the lock: while memory is
\* sequentially consistent, two processes are inside together only if a forced
\* unlock has taken the flag of one of them away, whatever crashed or restarted.
ExclusionUntilForced ==
  (~buffered /\ \A p \in Process : pc[p] = "holds") => \E p \in Process : ~lockFLag[p]

\* The bounded wait (stock.c:975-986) gets a live process through, even when the
\* other one died inside or never unlocks, and with stores delayed.
LockGranted == \A p \in Process : pc[p] \in Waiting ~> pc[p] \in {"holds", "dead"}
=============================================================================
