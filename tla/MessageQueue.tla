------------------------------ MODULE MessageQueue ------------------------------
(***************************************************************************)
(* The queue of one connection (base/mq.h, base/MyQueue.h).  The io thread *)
(* of the connection pushes the messages it receives (MySockTask::getMsg); *)
(* the message thread takes them out (MyServerMsgProcess::run).  A ring of *)
(* flagged slots lies between them; messages that find the ring full wait  *)
(* in cacheQueue.  There is no lock: each side owns a position, and a flag *)
(* hands a slot over.  One step is one access to shared memory.            *)
(*                                                                         *)
(* Stores become visible in program order: the flags are volatile, the     *)
(* Makefile compiles without optimisation, and x86 keeps stores in order.  *)
(***************************************************************************)
EXTENDS Naturals, Sequences

CONSTANTS
  QUEUE_SIZE,  \* slots of the ring
  MaxPush      \* messages pushed in one behaviour: the bound of the model

ASSUME SizeAssumption == QUEUE_SIZE \in Nat \ {0}
ASSUME PushAssumption == MaxPush \in Nat

Position == 0..(QUEUE_SIZE - 1)
Message == 1..MaxPush
NoMessage == 0

VARIABLES
  first,      \* first[k]: slot k holds a message
  second,     \* second[k]: the message last put into slot k
  readPos,    \* where the message thread reads
  writePos,   \* where the io thread writes
  cacheQueue, \* messages that found the ring full
  live,       \* buffers allocated and not deleted
  pushed,     \* messages pushed so far; the newest one is in the producer's hand
  ppc,        \* where the io thread is
  cpc,        \* where the message thread is
  delivered,  \* what cmdParse has been given, in that order (not in the code)
  cached      \* the messages that went through cacheQueue (not in the code)

producer == <<writePos, cacheQueue, pushed, ppc, cached>>
consumer == <<readPos, cpc, delivered>>
vars == <<first, second, live, producer, consumer>>

Following(k) == (k + 1) % QUEUE_SIZE
-----------------------------------------------------------------------------
(***************************************************************************)
(* The io thread: pushMsg and, at its start, processCache.                 *)
(***************************************************************************)
PushMsg ==
  /\ ppc = "idle" /\ pushed < MaxPush
  /\ pushed' = pushed + 1
  /\ live' = live \cup {pushed'}
  /\ ppc' = "cache"
  /\ UNCHANGED <<first, second, writePos, cacheQueue, cached, consumer>>

\* processCache: the oldest waiting message moves into the free slot.
MoveSecond ==
  /\ ppc = "cache"
  /\ cacheQueue # <<>> /\ ~first[writePos]
  /\ second' = [second EXCEPT ![writePos] = Head(cacheQueue)]
  /\ ppc' = "move"
  /\ UNCHANGED <<first, live, writePos, cacheQueue, pushed, cached, consumer>>

\* Mutant of MoveFirst: the message stays in cacheQueue.
MoveWithoutPop ==
  /\ ppc = "move"
  /\ first' = [first EXCEPT ![writePos] = TRUE]
  /\ writePos' = Following(writePos)
  /\ ppc' = "cache"
  /\ UNCHANGED <<second, live, cacheQueue, pushed, cached, consumer>>

MoveFirst ==
  /\ ppc = "move"
  /\ first' = [first EXCEPT ![writePos] = TRUE]
  /\ writePos' = Following(writePos)
  /\ cacheQueue' = Tail(cacheQueue)
  /\ ppc' = "cache"
  /\ UNCHANGED <<second, live, pushed, cached, consumer>>

\* processCache returns, after a look at the slot that pushMsg will not believe.
CacheDone ==
  /\ ppc = "cache"
  /\ cacheQueue = <<>> \/ first[writePos]
  /\ ppc' = "place"
  /\ UNCHANGED <<first, second, live, writePos, cacheQueue, pushed, cached, consumer>>

\* Mutant of PlaceSecond: the slot is not looked at again.
PlaceUnchecked ==
  /\ ppc = "place"
  /\ second' = [second EXCEPT ![writePos] = pushed]
  /\ ppc' = "fill"
  /\ UNCHANGED <<first, live, writePos, cacheQueue, pushed, cached, consumer>>

PlaceSecond ==
  /\ ppc = "place"
  /\ ~first[writePos]
  /\ second' = [second EXCEPT ![writePos] = pushed]
  /\ ppc' = "fill"
  /\ UNCHANGED <<first, live, writePos, cacheQueue, pushed, cached, consumer>>

\* Mutant of PlaceFirst: the position stays where it is.
PlaceInPlace ==
  /\ ppc = "fill"
  /\ first' = [first EXCEPT ![writePos] = TRUE]
  /\ ppc' = "idle"
  /\ UNCHANGED <<second, live, writePos, cacheQueue, pushed, cached, consumer>>

PlaceFirst ==
  /\ ppc = "fill"
  /\ first' = [first EXCEPT ![writePos] = TRUE]
  /\ writePos' = Following(writePos)
  /\ ppc' = "idle"
  /\ UNCHANGED <<second, live, cacheQueue, pushed, cached, consumer>>

\* Mutant of Spill: the newest message goes before those that wait already.
SpillFront ==
  /\ ppc = "place"
  /\ first[writePos]
  /\ cacheQueue' = <<pushed>> \o cacheQueue
  /\ cached' = cached \cup {pushed}
  /\ ppc' = "idle"
  /\ UNCHANGED <<first, second, live, writePos, pushed, consumer>>

Spill ==
  /\ ppc = "place"
  /\ first[writePos]
  /\ cacheQueue' = Append(cacheQueue, pushed)
  /\ cached' = cached \cup {pushed}
  /\ ppc' = "idle"
  /\ UNCHANGED <<first, second, live, writePos, pushed, consumer>>
-----------------------------------------------------------------------------
(***************************************************************************)
(* The message thread: processMsg calls getMsg, cmdParse and pop until     *)
(* getMsg finds nothing.                                                   *)
(***************************************************************************)
GetMsg ==
  /\ cpc = "idle"
  /\ first[readPos]
  /\ cpc' = "parse"
  /\ UNCHANGED <<first, second, live, producer, readPos, delivered>>

CmdParse ==
  /\ cpc = "parse"
  /\ delivered' = Append(delivered, second[readPos])
  /\ cpc' = "pop"
  /\ UNCHANGED <<first, second, live, producer, readPos>>

\* Mutant of PopDelete: the slot is cleared and its buffer forgotten.
PopWithoutDelete ==
  /\ cpc = "pop"
  /\ cpc' = "clear"
  /\ UNCHANGED <<first, second, live, producer, readPos, delivered>>

\* pop, when the flag still stands as getMsg saw it: HandedOver says it does, so
\* the other branch of pop, which would run processCache in this thread, is dead.
PopDelete ==
  /\ cpc = "pop" /\ first[readPos]
  /\ live' = live \ {second[readPos]}
  /\ cpc' = "clear"
  /\ UNCHANGED <<first, second, producer, readPos, delivered>>

PopFirst ==
  /\ cpc = "clear"
  /\ first' = [first EXCEPT ![readPos] = FALSE]
  /\ readPos' = Following(readPos)
  /\ cpc' = "idle"
  /\ UNCHANGED <<second, live, producer, delivered>>
-----------------------------------------------------------------------------
Init ==
  /\ first = [k \in Position |-> FALSE]
  /\ second = [k \in Position |-> NoMessage]
  /\ readPos = 0 /\ writePos = 0
  /\ cacheQueue = <<>>
  /\ live = {}
  /\ pushed = 0
  /\ ppc = "idle" /\ cpc = "idle"
  /\ delivered = <<>>
  /\ cached = {}

Finish == MoveSecond \/ MoveFirst \/ CacheDone \/ PlaceSecond \/ PlaceFirst \/ Spill
Consume == GetMsg \/ CmdParse \/ PopDelete \/ PopFirst

Next == PushMsg \/ Finish \/ Consume

\* Both threads keep running; nothing makes another message arrive.
Spec == Init /\ [][Next]_vars /\ WF_vars(Finish) /\ WF_vars(Consume)
-----------------------------------------------------------------------------
Held == {second[k] : k \in {j \in Position : first[j]}}
Waiting == {cacheQueue[k] : k \in DOMAIN cacheQueue}
InHand == IF ppc = "idle" \/ pushed = 0 THEN {} ELSE {pushed}
Deleted == IF cpc = "clear" THEN {second[readPos]} ELSE {}

TypeOK ==
  /\ first \in [Position -> BOOLEAN]
  /\ second \in [Position -> Message \cup {NoMessage}]
  /\ readPos \in Position /\ writePos \in Position
  /\ cacheQueue \in Seq(Message)
  /\ live \subseteq Message
  /\ pushed \in 0..MaxPush
  /\ ppc \in {"idle", "cache", "move", "place", "fill"}
  /\ cpc \in {"idle", "parse", "pop", "clear"}
  /\ delivered \in Seq(Message \cup {NoMessage})
  /\ cached \subseteq Message
  /\ ppc # "idle" => pushed > 0
  /\ ppc = "move" => cacheQueue # <<>>

\* A slot has one user: the io thread writes only into a slot whose flag is down,
\* the message thread works only on one whose flag is up, though each looked at the
\* flag before (mq.h:29-32, 49-52, 65-68, 90-94).  So no message is read half
\* written, and pop never takes the branch that would run processCache in the
\* message thread (mq.h:73-83).
HandedOver ==
  /\ ppc \in {"move", "fill"} => ~first[writePos]
  /\ cpc \in {"parse", "pop", "clear"} => first[readPos]

\* Every buffer has one owner: the producer's hand, the cache or one slot of the
\* ring; exactly the owned ones are allocated.  No message is used after pop has
\* deleted it, none is deleted twice and none is leaked (mq.h:21-41, 67).
BuffersOwned ==
  /\ live = (Held \cup Waiting \cup InHand) \ Deleted
  /\ Held \cap Waiting = {} /\ Held \cap InHand = {} /\ Waiting \cap InHand = {}
  /\ \A j, k \in Position : first[j] /\ first[k] /\ second[j] = second[k] => j = k
  /\ \A j, k \in DOMAIN cacheQueue : cacheQueue[j] = cacheQueue[k] => j = k

\* pushMsg may see a slot free up that processCache has just found taken, and let
\* its message go before the waiting ones (mq.h:28-29, 90-102).  Only messages that
\* went through the cache are overtaken, and never by one another.
OvertakesOnlyCached ==
  \A i, j \in DOMAIN delivered :
    i < j /\ delivered[i] > delivered[j] => delivered[j] \in cached /\ delivered[i] \notin cached

\* A message that stands in the ring is given to cmdParse, whatever is pushed or
\* not pushed after it.
RingDelivered ==
  \A m \in Message : m \in Held ~> \E k \in DOMAIN delivered : delivered[k] = m
=============================================================================
