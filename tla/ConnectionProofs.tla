---------------------------- MODULE ConnectionProofs ----------------------------
(***************************************************************************)
(* Theorems about MessageQueue, for every size of the ring and every       *)
(* number of messages, and about ClientPool, for every set of tasks,       *)
(* number of orders, limit of descriptors and number of broken             *)
(* connections.                                                            *)
(***************************************************************************)
EXTENDS MCMessageQueue, ClientPool, SequenceTheorems, TLAPS

LEMMA FollowingType ==
  ASSUME NEW k \in Position
  PROVE  Following(k) \in Position
BY SizeAssumption, SMT DEF Following, Position

\* The inductive step behind TypeCorrect: one case per action.
LEMMA TypeInductive ==
  ASSUME TypeOK, [Next]_vars
  PROVE  TypeOK'
<1> USE PushAssumption DEF TypeOK, producer, consumer
<1>1. CASE UNCHANGED vars
  BY <1>1 DEF vars
<1>2. CASE PushMsg
  BY <1>2 DEF PushMsg, Message
<1>3. CASE MoveSecond
  BY <1>3 DEF MoveSecond, Message
<1>4. CASE MoveFirst
  BY <1>4, FollowingType DEF MoveFirst
<1>5. CASE CacheDone
  BY <1>5 DEF CacheDone
<1>6. CASE PlaceSecond
  BY <1>6 DEF PlaceSecond, Message
<1>7. CASE PlaceFirst
  BY <1>7, FollowingType DEF PlaceFirst
<1>8. CASE Spill
  BY <1>8 DEF Spill, Message
<1>9. CASE GetMsg
  BY <1>9 DEF GetMsg
<1>10. CASE CmdParse
  BY <1>10 DEF CmdParse
<1>11. CASE PopDelete
  BY <1>11 DEF PopDelete
<1>12. CASE PopFirst
  BY <1>12, FollowingType DEF PopFirst
<1>13. QED
  BY <1>1, <1>2, <1>3, <1>4, <1>5, <1>6, <1>7, <1>8, <1>9, <1>10, <1>11, <1>12
  DEF Next, Finish, Consume

LEMMA TypeInitial ==
  ASSUME Init
  PROVE  TypeOK
BY SizeAssumption, PushAssumption DEF Init, TypeOK, Position

\* Both positions stay inside the ring and only messages that were pushed are ever
\* found in it (base/mq.h:18-105).
THEOREM TypeCorrect == Spec => []TypeOK
  BY TypeInitial, TypeInductive, PTL DEF Spec
-----------------------------------------------------------------------------
\* Each side may look at a flag and use the slot later: only its owner turns it.
LEMMA HandedOverInductive ==
  ASSUME TypeOK, HandedOver, [Next]_vars
  PROVE  HandedOver'
<1> USE DEF TypeOK, HandedOver, producer, consumer
<1>1. CASE UNCHANGED vars
  BY <1>1 DEF vars
<1>2. CASE PushMsg \/ Finish
  BY <1>2 DEF PushMsg, Finish, MoveSecond, MoveFirst, CacheDone, PlaceSecond, PlaceFirst, Spill
<1>3. CASE Consume
  BY <1>3 DEF Consume, GetMsg, CmdParse, PopDelete, PopFirst
<1>4. QED
  BY <1>1, <1>2, <1>3 DEF Next

\* The flags alone hand the slots over: for no size of the ring, and in no
\* interleaving, do the two threads use a slot at the same time, and pop never finds
\* a flag down (mq.h:29-32, 49-52, 65-84, 90-94).
THEOREM SlotsHandedOver == Spec => []HandedOver
<1>1. Init => TypeOK /\ HandedOver
  BY TypeInitial DEF Init, HandedOver
<1>2. TypeOK /\ HandedOver /\ [Next]_vars => TypeOK' /\ HandedOver'
  BY TypeInductive, HandedOverInductive
<1>3. QED
  BY <1>1, <1>2, PTL DEF Spec
-----------------------------------------------------------------------------
\* BuffersOwned is not inductive: it has to be known that no number is in the
\* queue before its push, and what the two half-done writes have written.
Numbered ==
  /\ \A m \in Held \cup Waiting : m \in 1..pushed
  /\ ppc = "move" => second[writePos] = Head(cacheQueue)
  /\ ppc = "fill" => second[writePos] = pushed

OwnerInv == TypeOK /\ HandedOver /\ BuffersOwned /\ Numbered

LEMMA WaitingTail ==
  ASSUME NEW s \in Seq(Message), s # <<>>,
         \A j, k \in DOMAIN s : s[j] = s[k] => j = k
  PROVE  /\ {Tail(s)[k] : k \in DOMAIN Tail(s)} = {s[k] : k \in DOMAIN s} \ {Head(s)}
         /\ \A j, k \in DOMAIN Tail(s) : Tail(s)[j] = Tail(s)[k] => j = k
<1>1. \A k \in DOMAIN Tail(s) : k + 1 \in DOMAIN s /\ Tail(s)[k] = s[k + 1]
  OBVIOUS
<1>2. \A k \in DOMAIN s : k # 1 => k - 1 \in DOMAIN Tail(s) /\ Tail(s)[k - 1] = s[k]
  OBVIOUS
<1>3. 1 \in DOMAIN s /\ Head(s) = s[1] /\ DOMAIN s \subseteq Nat /\ DOMAIN Tail(s) \subseteq Nat
      /\ \A k \in DOMAIN Tail(s) : k > 0
  OBVIOUS
<1> DEFINE tail == Tail(s)
           all == {s[k] : k \in DOMAIN s}
<1> HIDE DEF tail
<1>4. ASSUME NEW k \in DOMAIN tail PROVE tail[k] \in all /\ tail[k] # Head(s)
  <2>1. k + 1 \in DOMAIN s /\ tail[k] = s[k + 1] /\ k > 0 /\ k \in Nat
    BY <1>1, <1>3, <1>4 DEF tail
  <2>2. s[k + 1] # s[1]
    BY <1>3, <2>1
  <2>3. QED
    BY <1>3, <2>1, <2>2
<1>5. ASSUME NEW k \in DOMAIN s, s[k] # Head(s) PROVE s[k] \in {tail[j] : j \in DOMAIN tail}
  BY <1>2, <1>3, <1>5 DEF tail
<1>6. ASSUME NEW j \in DOMAIN tail, NEW k \in DOMAIN tail, tail[j] = tail[k] PROVE j = k
  <2>1. j + 1 = k + 1
    BY <1>1, <1>6 DEF tail
  <2>2. QED
    BY <1>3, <2>1 DEF tail
<1>7. QED
  BY <1>4, <1>5, <1>6 DEF tail

LEMMA WaitingAppend ==
  ASSUME NEW s \in Seq(Message), NEW m \in Message
  PROVE  /\ {Append(s, m)[k] : k \in DOMAIN Append(s, m)} = {s[k] : k \in DOMAIN s} \cup {m}
         /\ (\A j, k \in DOMAIN s : s[j] = s[k] => j = k) /\ m \notin {s[k] : k \in DOMAIN s}
            => \A j, k \in DOMAIN Append(s, m) : Append(s, m)[j] = Append(s, m)[k] => j = k
<1>1. DOMAIN Append(s, m) = DOMAIN s \cup {Len(s) + 1} /\ Append(s, m)[Len(s) + 1] = m
  OBVIOUS
<1>2. \A k \in DOMAIN s : Append(s, m)[k] = s[k] /\ k # Len(s) + 1
  OBVIOUS
<1>3. QED
  BY <1>1, <1>2

\* Raising the flag of a slot adds its message to the ring; writing into a slot
\* whose flag is down, or working on one, changes what the ring holds by nothing.
LEMMA HeldRaised ==
  ASSUME TypeOK, NEW p \in Position, ~first[p], first' = [first EXCEPT ![p] = TRUE], second' = second
  PROVE  Held' = Held \cup {second[p]}
BY DEF Held, TypeOK

LEMMA HeldWritten ==
  ASSUME TypeOK, NEW p \in Position, ~first[p], first' = first,
         NEW m \in Message, second' = [second EXCEPT ![p] = m]
  PROVE  Held' = Held /\ \A k \in Position : first[k] => second'[k] = second[k]
BY DEF Held, TypeOK

LEMMA HeldLowered ==
  ASSUME TypeOK, NEW p \in Position, first[p], first' = [first EXCEPT ![p] = FALSE], second' = second,
         \A j, k \in Position : first[j] /\ first[k] /\ second[j] = second[k] => j = k
  PROVE  Held' = Held \ {second[p]}
BY DEF Held, TypeOK

\* The inductive step behind OneOwner: one case per action.
LEMMA OwnerInductive ==
  ASSUME OwnerInv, [Next]_vars
  PROVE  BuffersOwned' /\ Numbered'
<1> USE DEF OwnerInv, producer, consumer
<1>0. TypeOK /\ TypeOK' /\ HandedOver /\ HandedOver' /\ BuffersOwned /\ Numbered
  BY TypeInductive, HandedOverInductive
<1>1. Deleted \subseteq Held
  BY <1>0 DEF Deleted, Held, HandedOver, TypeOK
<1>2. CASE UNCHANGED vars
  BY <1>0, <1>2 DEF vars, BuffersOwned, Numbered, Held, Waiting, InHand, Deleted
<1>3. CASE PushMsg
  <2>1. pushed' = pushed + 1 /\ pushed \in Nat /\ pushed' # 0
    BY <1>0, <1>3 DEF PushMsg, TypeOK
  <2>2. Held' = Held /\ Waiting' = Waiting /\ Deleted' = Deleted /\ InHand = {} /\ InHand' = {pushed'}
    BY <1>3, <2>1 DEF PushMsg, Held, Waiting, Deleted, InHand
  <2>3. pushed' \notin Held \cup Waiting
    BY <1>0, <2>1 DEF Numbered
  <2>4. BuffersOwned'
    BY <1>0, <1>1, <1>3, <2>2, <2>3 DEF BuffersOwned, PushMsg
  <2>5. Numbered'
    BY <1>0, <1>3, <2>1, <2>2 DEF Numbered, PushMsg
  <2>6. QED
    BY <2>4, <2>5
<1>4. CASE MoveSecond
  <2>1. Head(cacheQueue) \in Message /\ writePos \in Position /\ ~first[writePos]
    BY <1>0, <1>4 DEF MoveSecond, TypeOK
  <2>2. Held' = Held /\ \A k \in Position : first[k] => second'[k] = second[k]
    BY <1>0, <1>4, <2>1, HeldWritten DEF MoveSecond
  <2>3. Waiting' = Waiting /\ Deleted' = Deleted /\ InHand' = InHand
    <3>1. cpc = "clear" => readPos \in Position /\ first[readPos]
      BY <1>0 DEF TypeOK, HandedOver
    <3>2. Deleted' = Deleted
      BY <1>4, <2>2, <3>1 DEF MoveSecond, Deleted
    <3>3. Waiting' = Waiting /\ InHand' = InHand
      BY <1>4 DEF MoveSecond, Waiting, InHand
    <3>4. QED
      BY <3>2, <3>3
  <2>4. BuffersOwned'
    BY <1>0, <1>4, <2>2, <2>3 DEF BuffersOwned, MoveSecond
  <2>5. Numbered'
    BY <1>0, <1>4, <2>1, <2>2, <2>3 DEF Numbered, MoveSecond, TypeOK
  <2>6. QED
    BY <2>4, <2>5
<1>5. CASE MoveFirst
  <2>1. writePos \in Position /\ ~first[writePos] /\ second[writePos] = Head(cacheQueue) /\ cacheQueue # <<>>
    BY <1>0, <1>5 DEF MoveFirst, TypeOK, HandedOver, Numbered
  <2>2. Held' = Held \cup {second[writePos]}
    BY <1>0, <1>5, <2>1, HeldRaised DEF MoveFirst
  <2>3. Waiting' = Waiting \ {Head(cacheQueue)}
        /\ \A j, k \in DOMAIN cacheQueue' : cacheQueue'[j] = cacheQueue'[k] => j = k
    <3>1. cacheQueue' = Tail(cacheQueue) /\ cacheQueue \in Seq(Message)
      BY <1>0, <1>5 DEF MoveFirst, TypeOK
    <3>2. \A j, k \in DOMAIN cacheQueue : cacheQueue[j] = cacheQueue[k] => j = k
      BY <1>0 DEF BuffersOwned
    <3>3. Waiting' = {Tail(cacheQueue)[k] : k \in DOMAIN Tail(cacheQueue)}
      BY <3>1 DEF Waiting
    <3>4. QED
      BY <2>1, <3>1, <3>2, <3>3, WaitingTail DEF Waiting
  <2>4. Head(cacheQueue) \in Waiting
    BY <1>0, <2>1 DEF Waiting, TypeOK
  <2>5. Deleted' = Deleted /\ InHand' = InHand
    BY <1>5 DEF MoveFirst, Deleted, InHand
  <2>6. \A j, k \in Position : first'[j] /\ first'[k] /\ second'[j] = second'[k] => j = k
    <3>1. \A k \in Position : first[k] => second[k] # second[writePos]
      BY <1>0, <2>1, <2>4 DEF BuffersOwned, Held
    <3>2. QED
      BY <1>0, <1>5, <2>1, <3>1 DEF MoveFirst, BuffersOwned, TypeOK
  <2>7. BuffersOwned'
    BY <1>0, <1>1, <1>5, <2>1, <2>2, <2>3, <2>4, <2>5, <2>6 DEF BuffersOwned, MoveFirst
  <2>8. Numbered'
    BY <1>0, <1>5, <2>1, <2>2, <2>3, <2>4 DEF Numbered, MoveFirst
  <2>9. QED
    BY <2>7, <2>8
<1>6. CASE CacheDone
  BY <1>0, <1>6 DEF CacheDone, BuffersOwned, Numbered, Held, Waiting, InHand, Deleted
<1>7. CASE PlaceSecond
  <2>1. pushed \in Message /\ writePos \in Position /\ ~first[writePos]
    BY <1>0, <1>7, PushAssumption DEF PlaceSecond, TypeOK, Message
  <2>2. Held' = Held /\ \A k \in Position : first[k] => second'[k] = second[k]
    BY <1>0, <1>7, <2>1, HeldWritten DEF PlaceSecond
  <2>3. Waiting' = Waiting /\ Deleted' = Deleted /\ InHand' = InHand
    <3>1. cpc = "clear" => readPos \in Position /\ first[readPos]
      BY <1>0 DEF TypeOK, HandedOver
    <3>2. Deleted' = Deleted
      BY <1>7, <2>2, <3>1 DEF PlaceSecond, Deleted
    <3>3. Waiting' = Waiting /\ InHand' = InHand
      BY <1>7 DEF PlaceSecond, Waiting, InHand
    <3>4. QED
      BY <3>2, <3>3
  <2>4. BuffersOwned'
    BY <1>0, <1>7, <2>2, <2>3 DEF BuffersOwned, PlaceSecond
  <2>5. Numbered'
    BY <1>0, <1>7, <2>1, <2>2, <2>3 DEF Numbered, PlaceSecond, TypeOK
  <2>6. QED
    BY <2>4, <2>5
<1>8. CASE PlaceFirst
  <2>1. writePos \in Position /\ ~first[writePos] /\ second[writePos] = pushed /\ pushed > 0 /\ pushed \in Nat
    BY <1>0, <1>8 DEF PlaceFirst, TypeOK, HandedOver, Numbered
  <2>2. Held' = Held \cup {pushed}
    BY <1>0, <1>8, <2>1, HeldRaised DEF PlaceFirst
  <2>3. Waiting' = Waiting /\ Deleted' = Deleted /\ InHand = {pushed} /\ InHand' = {}
    BY <1>8, <2>1 DEF PlaceFirst, Waiting, Deleted, InHand
  <2>4. \A j, k \in Position : first'[j] /\ first'[k] /\ second'[j] = second'[k] => j = k
    <3>1. \A k \in Position : first[k] => second[k] # pushed
      BY <1>0, <2>3 DEF BuffersOwned, Held
    <3>2. QED
      BY <1>0, <1>8, <2>1, <3>1 DEF PlaceFirst, BuffersOwned, TypeOK
  <2>5. BuffersOwned'
    BY <1>0, <1>1, <1>8, <2>2, <2>3, <2>4 DEF BuffersOwned, PlaceFirst
  <2>6. Numbered'
    BY <1>0, <1>8, <2>1, <2>2, <2>3 DEF Numbered, PlaceFirst
  <2>7. QED
    BY <2>5, <2>6
<1>9. CASE Spill
  <2>1. pushed \in Message /\ pushed > 0
    BY <1>0, <1>9, PushAssumption DEF Spill, TypeOK, Message
  <2>2. Held' = Held /\ Deleted' = Deleted /\ InHand = {pushed} /\ InHand' = {}
    BY <1>9, <2>1 DEF Spill, Held, Deleted, InHand
  <2>3. Waiting' = Waiting \cup {pushed}
        /\ \A j, k \in DOMAIN cacheQueue' : cacheQueue'[j] = cacheQueue'[k] => j = k
    <3>1. pushed \notin Waiting
      BY <1>0, <2>2 DEF BuffersOwned
    <3>2. cacheQueue' = Append(cacheQueue, pushed) /\ cacheQueue \in Seq(Message)
      BY <1>0, <1>9 DEF Spill, TypeOK
    <3>3. \A j, k \in DOMAIN cacheQueue : cacheQueue[j] = cacheQueue[k] => j = k
      BY <1>0 DEF BuffersOwned
    <3>4. Waiting' = {Append(cacheQueue, pushed)[k] : k \in DOMAIN Append(cacheQueue, pushed)}
      BY <3>2 DEF Waiting
    <3>5. QED
      BY <2>1, <3>1, <3>2, <3>3, <3>4, WaitingAppend DEF Waiting
  <2>4. BuffersOwned'
    BY <1>0, <1>9, <2>2, <2>3 DEF BuffersOwned, Spill
  <2>5. Numbered'
    BY <1>0, <1>9, <2>1, <2>2, <2>3 DEF Numbered, Spill, Message
  <2>6. QED
    BY <2>4, <2>5
<1>10. CASE GetMsg \/ CmdParse
  BY <1>0, <1>10 DEF GetMsg, CmdParse, BuffersOwned, Numbered, Held, Waiting, InHand, Deleted
<1>11. CASE PopDelete
  <2>1. Held' = Held /\ Waiting' = Waiting /\ InHand' = InHand
        /\ Deleted = {} /\ Deleted' = {second[readPos]}
    BY <1>11 DEF PopDelete, Held, Waiting, InHand, Deleted
  <2>2. BuffersOwned'
    BY <1>0, <1>11, <2>1 DEF BuffersOwned, PopDelete
  <2>3. QED
    BY <1>0, <1>11, <2>1, <2>2 DEF Numbered, PopDelete
<1>12. CASE PopFirst
  <2>1. readPos \in Position /\ first[readPos] /\ Deleted = {second[readPos]}
    BY <1>0, <1>12 DEF PopFirst, TypeOK, HandedOver, Deleted
  <2>2. Held' = Held \ {second[readPos]}
    BY <1>0, <1>12, <2>1, HeldLowered DEF PopFirst, BuffersOwned
  <2>3. Waiting' = Waiting /\ InHand' = InHand /\ Deleted' = {}
    BY <1>12 DEF PopFirst, Waiting, InHand, Deleted
  <2>4. second[readPos] \in Held
    BY <2>1 DEF Held
  <2>5. \A k \in Position : first'[k] => first[k] /\ second'[k] = second[k]
    BY <1>0, <1>12, <2>1 DEF PopFirst, TypeOK
  <2>6. BuffersOwned'
    BY <1>0, <1>12, <2>1, <2>2, <2>3, <2>4, <2>5 DEF BuffersOwned, PopFirst
  <2>7. Numbered'
    BY <1>0, <1>12, <2>2, <2>3 DEF Numbered, PopFirst
  <2>8. QED
    BY <2>6, <2>7
<1>13. QED
  BY <1>2, <1>3, <1>4, <1>5, <1>6, <1>7, <1>8, <1>9, <1>10, <1>11, <1>12 DEF Next, Finish, Consume

\* No buffer is leaked, freed twice or used after it was freed, for every size of
\* the ring and whatever the two threads do (mq.h:18-85, MyQueue.h:18-30).
THEOREM OneOwner == Spec => []BuffersOwned
<1>1. Init => OwnerInv
  BY TypeInitial DEF Init, OwnerInv, HandedOver, BuffersOwned, Numbered, Held, Waiting, InHand, Deleted
<1>2. OwnerInv /\ [Next]_vars => OwnerInv'
  BY TypeInductive, HandedOverInductive, OwnerInductive DEF OwnerInv
<1>3. OwnerInv => BuffersOwned
  BY DEF OwnerInv
<1>4. QED
  BY <1>1, <1>2, <1>3, PTL DEF Spec
-----------------------------------------------------------------------------
(***************************************************************************)
(* The ring as a sequence.  The flags that stand are those of the slots    *)
(* from readPos up to writePos, though no step looks at both positions;    *)
(* so raising the flag at writePos appends a message, and lowering the one *)
(* at readPos takes the first one out.                                     *)
(***************************************************************************)
RingFrom(n) ==
  /\ \A i \in 0..(n - 1) : first[SlotAt(i)]
  /\ \A i \in n..(QUEUE_SIZE - 1) : ~first[SlotAt(i)]
  /\ writePos = SlotAt(n)

RingWhole == \E n \in 0..QUEUE_SIZE : RingFrom(n)

LEMMA FollowingSlot ==
  ASSUME NEW k \in Position
  PROVE  Following(k) = IF k + 1 = QUEUE_SIZE THEN 0 ELSE k + 1
<1>1. QUEUE_SIZE \in Nat \ {0} /\ k \in Nat /\ k < QUEUE_SIZE
  BY SizeAssumption DEF Position
<1>2. CASE k + 1 = QUEUE_SIZE
  <2>1. (k + 1) % QUEUE_SIZE = 0
    BY <1>1, <1>2, SMT
  <2>2. QED
    BY <1>2, <2>1 DEF Following
<1>3. CASE k + 1 # QUEUE_SIZE
  <2>1. k + 1 < QUEUE_SIZE
    BY <1>1, <1>3
  <2>2. (k + 1) % QUEUE_SIZE = k + 1
    BY <1>1, <2>1, SMT
  <2>3. QED
    BY <1>3, <2>2 DEF Following
<1>4. QED
  BY <1>2, <1>3

LEMMA OnceRound ==
  ASSUME NEW q \in Nat \ {0}, NEW a \in Nat, a < 2 * q
  PROVE  a % q = IF a < q THEN a ELSE a - q
<1>1. a < q => a % q = a
  BY SMT
<1>2. a >= q => a % q = a - q
  BY SMT
<1>3. QED
  BY <1>1, <1>2

\* The slots behind a position, counted round the end of the ring.
LEMMA SlotPlaces ==
  ASSUME NEW p \in Position, NEW i \in 0..QUEUE_SIZE
  PROVE  (p + i) % QUEUE_SIZE = IF p + i < QUEUE_SIZE THEN p + i ELSE p + i - QUEUE_SIZE
<1>1. QUEUE_SIZE \in Nat \ {0} /\ p \in Nat /\ i \in Nat /\ p + i < 2 * QUEUE_SIZE
  BY SizeAssumption DEF Position
<1>2. PICK a \in Nat : a = p + i
  BY <1>1
<1>3. a % QUEUE_SIZE = IF a < QUEUE_SIZE THEN a ELSE a - QUEUE_SIZE
  BY <1>1, <1>2, OnceRound
<1>4. QED
  BY <1>1, <1>2, <1>3

LEMMA SlotsDiffer ==
  ASSUME readPos \in Position
  PROVE  /\ \A i \in 0..QUEUE_SIZE : SlotAt(i) \in Position
         /\ SlotAt(0) = readPos /\ SlotAt(QUEUE_SIZE) = readPos
         /\ \A i \in 0..(QUEUE_SIZE - 1) : Following(SlotAt(i)) = SlotAt(i + 1)
         /\ \A i, j \in 0..(QUEUE_SIZE - 1) : SlotAt(i) = SlotAt(j) => i = j
         /\ readPos' = Following(readPos) =>
              \A i \in 0..(QUEUE_SIZE - 1) : SlotAt(i)' = SlotAt(i + 1)
<1>1. QUEUE_SIZE \in Nat \ {0} /\ readPos \in Nat /\ readPos < QUEUE_SIZE
  BY SizeAssumption DEF Position
<1>2. \A i \in 0..QUEUE_SIZE :
        SlotAt(i) = IF readPos + i < QUEUE_SIZE THEN readPos + i ELSE readPos + i - QUEUE_SIZE
  BY SlotPlaces DEF SlotAt
<1>3. \A i \in 0..QUEUE_SIZE : SlotAt(i) \in Position
  BY <1>1, <1>2 DEF Position
<1>4. SlotAt(0) = readPos /\ SlotAt(QUEUE_SIZE) = readPos
  BY <1>1, <1>2
<1>5. ASSUME NEW i \in 0..(QUEUE_SIZE - 1) PROVE Following(SlotAt(i)) = SlotAt(i + 1)
  <2>1. i \in 0..QUEUE_SIZE /\ i + 1 \in 0..QUEUE_SIZE
    BY <1>1
  <2>2. Following(SlotAt(i)) = IF SlotAt(i) + 1 = QUEUE_SIZE THEN 0 ELSE SlotAt(i) + 1
    BY <1>3, <2>1, FollowingSlot
  <2>3. QED
    BY <1>1, <1>2, <2>1, <2>2
<1>6. \A i, j \in 0..(QUEUE_SIZE - 1) : SlotAt(i) = SlotAt(j) => i = j
  BY <1>1, <1>2
<1>7. ASSUME readPos' = Following(readPos), NEW i \in 0..(QUEUE_SIZE - 1)
      PROVE  SlotAt(i)' = SlotAt(i + 1)
  <2>1. i \in 0..QUEUE_SIZE /\ i + 1 \in 0..QUEUE_SIZE
    BY <1>1
  <2>2. readPos' = IF readPos + 1 = QUEUE_SIZE THEN 0 ELSE readPos + 1
    BY <1>7, FollowingSlot
  <2>3. readPos' \in Position
    BY <1>1, <2>2 DEF Position
  <2>4. SlotAt(i)' = IF readPos' + i < QUEUE_SIZE THEN readPos' + i ELSE readPos' + i - QUEUE_SIZE
    BY <2>1, <2>3, SlotPlaces DEF SlotAt
  <2>5. QED
    BY <1>1, <1>2, <2>1, <2>2, <2>4
<1>8. QED
  BY <1>3, <1>4, <1>5, <1>6, <1>7

\* Standing is the number it describes: there is only one.
LEMMA CountOf ==
  ASSUME NEW f, NEW p, NEW n \in 0..QUEUE_SIZE,
         \A i \in 0..(n - 1) : f[(p + i) % QUEUE_SIZE],
         n < QUEUE_SIZE => ~f[(p + n) % QUEUE_SIZE]
  PROVE  n = CHOOSE m \in 0..QUEUE_SIZE :
               /\ \A i \in 0..(m - 1) : f[(p + i) % QUEUE_SIZE]
               /\ m < QUEUE_SIZE => ~f[(p + m) % QUEUE_SIZE]
<1> DEFINE up(i) == f[(p + i) % QUEUE_SIZE]
           counts(m) == (\A i \in 0..(m - 1) : up(i)) /\ (m < QUEUE_SIZE => ~up(m))
<1>1. counts(n)
  OBVIOUS
<1>2. ASSUME NEW m \in 0..QUEUE_SIZE, counts(m) PROVE m = n
  <2> HIDE DEF up
  <2>1. QUEUE_SIZE \in Nat /\ m \in Nat /\ n \in Nat /\ m <= QUEUE_SIZE /\ n <= QUEUE_SIZE
    BY SizeAssumption
  <2>2. ~(m < n)
    BY <1>1, <1>2, <2>1
  <2>3. ~(n < m)
    BY <1>1, <1>2, <2>1
  <2>4. QED
    BY <2>1, <2>2, <2>3
<1> HIDE DEF counts
<1>3. n = CHOOSE m \in 0..QUEUE_SIZE : counts(m)
  BY <1>1, <1>2
<1>4. QED
  BY <1>3 DEF counts

LEMMA RingIs ==
  ASSUME readPos \in Position, NEW n \in 0..QUEUE_SIZE, RingFrom(n)
  PROVE  Ring = [i \in 1..n |-> second[SlotAt(i - 1)]]
<1>1. n < QUEUE_SIZE => n \in n..(QUEUE_SIZE - 1)
  BY SizeAssumption
<1>2. n = Standing
  BY <1>1, CountOf DEF RingFrom, Standing, SlotAt
<1>3. QED
  BY <1>2 DEF Ring

\* The same of the state after a step.
LEMMA RingIsNext ==
  ASSUME NEW n \in 0..QUEUE_SIZE, RingFrom(n)'
  PROVE  Ring' = [i \in 1..n |-> second'[SlotAt(i - 1)']]
<1>1. n < QUEUE_SIZE => n \in n..(QUEUE_SIZE - 1)
  BY SizeAssumption
<1>2. n = Standing'
  BY <1>1, CountOf DEF RingFrom, Standing, SlotAt
<1>3. QED
  BY <1>2 DEF Ring

LEMMA RingFacts ==
  ASSUME TypeOK, RingWhole
  PROVE  /\ Ring \in Seq(Message \cup {NoMessage})
         /\ first[readPos] => Ring # <<>> /\ Head(Ring) = second[readPos]
         /\ first[writePos] => Len(Ring) = QUEUE_SIZE
<1>1. PICK n \in 0..QUEUE_SIZE : RingFrom(n)
  BY DEF RingWhole
<1>2. readPos \in Position /\ QUEUE_SIZE \in Nat \ {0} /\ n \in Nat /\ n <= QUEUE_SIZE
  BY SizeAssumption DEF TypeOK
<1>3. Ring = [i \in 1..n |-> second[SlotAt(i - 1)]]
  BY <1>1, <1>2, RingIs
<1>4. \A i \in 1..n : SlotAt(i - 1) \in Position
  BY <1>2, SlotsDiffer
<1>5. Ring \in Seq(Message \cup {NoMessage}) /\ Len(Ring) = n
  BY <1>2, <1>3, <1>4 DEF TypeOK
<1>6. ASSUME first[readPos] PROVE Ring # <<>> /\ Head(Ring) = second[readPos]
  <2>1. n # 0
    BY <1>1, <1>2, <1>6, SlotsDiffer DEF RingFrom
  <2>2. QED
    BY <1>2, <1>3, <1>5, <2>1, SlotsDiffer
<1>7. ASSUME first[writePos] PROVE n = QUEUE_SIZE
  BY <1>1, <1>2, <1>7 DEF RingFrom
<1>8. QED
  BY <1>5, <1>6, <1>7

LEMMA RingKept ==
  ASSUME RingWhole, UNCHANGED <<first, second, readPos, writePos>>
  PROVE  RingWhole' /\ Ring' = Ring
BY DEF RingWhole, RingFrom, Ring, Standing, SlotAt

\* Writing a message into a slot whose flag is down changes the ring by nothing.
LEMMA RingWritten ==
  ASSUME TypeOK, RingWhole, ~first[writePos], NEW m,
         second' = [second EXCEPT ![writePos] = m], UNCHANGED <<first, readPos, writePos>>
  PROVE  RingWhole' /\ Ring' = Ring
<1>1. PICK n \in 0..QUEUE_SIZE : RingFrom(n)
  BY DEF RingWhole
<1>2. RingFrom(n)'
  BY <1>1 DEF RingFrom, SlotAt
<1>3. \A i \in 1..n : SlotAt(i - 1)' = SlotAt(i - 1) /\ SlotAt(i - 1) \in Position /\ first[SlotAt(i - 1)]
  <2>1. \A i \in 1..n : i - 1 \in 0..(n - 1) /\ i - 1 \in 0..QUEUE_SIZE
    BY SizeAssumption
  <2>2. QED
    BY <1>1, <2>1, SlotsDiffer DEF TypeOK, RingFrom, SlotAt
<1>4. \A i \in 1..n : second'[SlotAt(i - 1)'] = second[SlotAt(i - 1)]
  BY <1>3 DEF TypeOK
<1>5. Ring = [i \in 1..n |-> second[SlotAt(i - 1)]] /\ Ring' = [i \in 1..n |-> second'[SlotAt(i - 1)']]
  BY <1>1, <1>2, RingIs, RingIsNext DEF TypeOK
<1>6. QED
  BY <1>2, <1>4, <1>5 DEF RingWhole

LEMMA RingRaised ==
  ASSUME TypeOK, RingWhole, ~first[writePos], first' = [first EXCEPT ![writePos] = TRUE],
         writePos' = Following(writePos), UNCHANGED <<second, readPos>>
  PROVE  RingWhole' /\ Ring' = Append(Ring, second[writePos]) /\ Len(Ring) < QUEUE_SIZE
<1>1. PICK n \in 0..QUEUE_SIZE : RingFrom(n)
  BY DEF RingWhole
<1>2. readPos \in Position /\ QUEUE_SIZE \in Nat \ {0} /\ n \in Nat /\ n <= QUEUE_SIZE
  BY SizeAssumption DEF TypeOK
<1>3. n < QUEUE_SIZE
  <2>1. n = QUEUE_SIZE => writePos = SlotAt(0) /\ 0 \in 0..(n - 1)
    BY <1>1, <1>2, SlotsDiffer DEF RingFrom
  <2>2. QED
    BY <1>1, <1>2, <2>1 DEF RingFrom
<1>4. n \in 0..(QUEUE_SIZE - 1) /\ n + 1 \in 0..QUEUE_SIZE
  BY <1>2, <1>3
<1>5. \A i \in 0..QUEUE_SIZE : SlotAt(i)' = SlotAt(i) /\ SlotAt(i) \in Position
  BY <1>2, SlotsDiffer DEF SlotAt
<1>6. \A i \in 0..(QUEUE_SIZE - 1) : first'[SlotAt(i)] <=> i = n \/ first[SlotAt(i)]
  <2>1. \A i \in 0..(QUEUE_SIZE - 1) : SlotAt(i) \in Position /\ (SlotAt(i) = writePos <=> i = n)
    BY <1>1, <1>2, <1>4, SlotsDiffer DEF RingFrom
  <2>2. QED
    BY <2>1 DEF TypeOK
<1>7. RingFrom(n + 1)'
  <2>1. \A i \in 0..n : first'[SlotAt(i)]
    BY <1>1, <1>2, <1>3, <1>6 DEF RingFrom
  <2>2. \A i \in (n + 1)..(QUEUE_SIZE - 1) : ~first'[SlotAt(i)]
    BY <1>1, <1>2, <1>3, <1>6 DEF RingFrom
  <2>3. writePos' = SlotAt(n + 1)
    BY <1>1, <1>2, <1>4, SlotsDiffer DEF RingFrom
  <2>4. n + 1 - 1 = n
    BY <1>2
  <2>5. \A i \in 0..n : i \in 0..QUEUE_SIZE
    BY <1>2, <1>4
  <2>6. \A i \in (n + 1)..(QUEUE_SIZE - 1) : i \in 0..QUEUE_SIZE
    BY <1>2, <1>4
  <2>7. QED
    BY <1>4, <1>5, <2>1, <2>2, <2>3, <2>4, <2>5, <2>6 DEF RingFrom
<1>8. Ring' = [i \in 1..(n + 1) |-> second[SlotAt(i - 1)]]
  <2>1. Ring' = [i \in 1..(n + 1) |-> second'[SlotAt(i - 1)']]
    BY <1>4, <1>7, RingIsNext
  <2>2. \A i \in 1..(n + 1) : i - 1 \in 0..QUEUE_SIZE
    BY <1>2, <1>3
  <2>3. QED
    BY <1>5, <2>1, <2>2
<1>9. Ring = [i \in 1..n |-> second[SlotAt(i - 1)]]
  BY <1>1, <1>2, RingIs
<1>10. SlotAt(n + 1 - 1) = writePos
  BY <1>1, <1>2 DEF RingFrom
<1>11. QED
  BY <1>2, <1>3, <1>4, <1>7, <1>8, <1>9, <1>10 DEF RingWhole

LEMMA RingLowered ==
  ASSUME TypeOK, RingWhole, first[readPos], first' = [first EXCEPT ![readPos] = FALSE],
         readPos' = Following(readPos), UNCHANGED <<second, writePos>>
  PROVE  RingWhole' /\ Ring' = Tail(Ring)
<1>1. PICK n \in 0..QUEUE_SIZE : RingFrom(n)
  BY DEF RingWhole
<1>2. readPos \in Position /\ QUEUE_SIZE \in Nat \ {0} /\ n \in Nat /\ n <= QUEUE_SIZE
  BY SizeAssumption DEF TypeOK
<1>3. n # 0
  BY <1>1, <1>2, SlotsDiffer DEF RingFrom
<1>4. n - 1 \in 0..(QUEUE_SIZE - 1) /\ n - 1 \in 0..QUEUE_SIZE
  BY <1>2, <1>3
<1>5. \A i \in 0..(QUEUE_SIZE - 1) : SlotAt(i)' = SlotAt(i + 1) /\ SlotAt(i + 1) \in Position
  BY <1>2, SlotsDiffer
<1>6. \A i \in 0..(QUEUE_SIZE - 1) : first'[SlotAt(i)] <=> i # 0 /\ first[SlotAt(i)]
  <2>1. \A i \in 0..(QUEUE_SIZE - 1) : SlotAt(i) \in Position /\ (SlotAt(i) = readPos <=> i = 0)
    BY <1>2, SlotsDiffer
  <2>2. QED
    BY <2>1 DEF TypeOK
<1>7. RingFrom(n - 1)'
  <2>1. ASSUME NEW i \in 0..(n - 1 - 1) PROVE first'[SlotAt(i)']
    <3>1. i \in 0..(QUEUE_SIZE - 1) /\ i + 1 \in 0..(QUEUE_SIZE - 1) /\ i + 1 \in 0..(n - 1) /\ i + 1 # 0
      BY <1>2
    <3>2. QED
      BY <1>1, <1>5, <1>6, <3>1 DEF RingFrom
  <2>2. ASSUME NEW i \in (n - 1)..(QUEUE_SIZE - 1) PROVE ~first'[SlotAt(i)']
    <3>1. i \in 0..(QUEUE_SIZE - 1) /\ SlotAt(i)' = SlotAt(i + 1)
      BY <1>4, <1>5
    <3>2. CASE i + 1 = QUEUE_SIZE
      <4>1. SlotAt(i)' = readPos
        BY <1>2, <3>1, <3>2, SlotsDiffer
      <4>2. QED
        BY <1>2, <4>1 DEF TypeOK
    <3>3. CASE i + 1 # QUEUE_SIZE
      <4>1. i + 1 \in 0..(QUEUE_SIZE - 1) /\ i + 1 \in n..(QUEUE_SIZE - 1)
        BY <1>2, <3>1, <3>3
      <4>2. QED
        BY <1>1, <1>6, <3>1, <4>1 DEF RingFrom
    <3>4. QED
      BY <3>2, <3>3
  <2>3. writePos' = SlotAt(n - 1)'
    <3>1. SlotAt(n - 1)' = SlotAt(n - 1 + 1) /\ n - 1 + 1 = n
      BY <1>2, <1>4, <1>5
    <3>2. QED
      BY <1>1, <3>1 DEF RingFrom
  <2>4. QED
    BY <2>1, <2>2, <2>3 DEF RingFrom
<1>8. Ring' = [i \in 1..(n - 1) |-> second[SlotAt(i)]]
  <2>1. Ring' = [i \in 1..(n - 1) |-> second'[SlotAt(i - 1)']]
    BY <1>4, <1>7, RingIsNext
  <2>2. \A i \in 1..(n - 1) : i - 1 \in 0..(QUEUE_SIZE - 1) /\ i - 1 + 1 = i
    BY <1>2
  <2>3. QED
    BY <1>5, <2>1, <2>2
<1>9. Ring = [i \in 1..n |-> second[SlotAt(i - 1)]]
  BY <1>1, <1>2, RingIs
<1>10. \A i \in 1..(n - 1) : second[SlotAt(i)] = Ring[i + 1]
  <2>1. \A i \in 1..(n - 1) : i + 1 \in 1..n /\ i + 1 - 1 = i
    BY <1>2
  <2>2. QED
    BY <1>9, <2>1
<1>11. Ring \in Seq(Message \cup {NoMessage}) /\ Len(Ring) = n
  <2>1. \A i \in 1..n : i - 1 \in 0..QUEUE_SIZE
    BY <1>2
  <2>2. \A i \in 1..n : second[SlotAt(i - 1)] \in Message \cup {NoMessage}
    BY <1>2, <2>1, SlotsDiffer DEF TypeOK
  <2>3. QED
    BY <1>2, <1>9, <2>2
<1>12. /\ Tail(Ring) \in Seq(Message \cup {NoMessage}) /\ Len(Tail(Ring)) = n - 1
       /\ \A i \in 1..(n - 1) : Tail(Ring)[i] = Ring[i + 1]
  <2>1. Ring # <<>>
    BY <1>3, <1>11
  <2>2. QED
    BY <1>11, <2>1, HeadTailProperties
<1>13. Ring' = Tail(Ring)
  <2>1. Ring' = [i \in 1..(n - 1) |-> Tail(Ring)[i]]
    BY <1>8, <1>10, <1>12
  <2>2. PICK k \in Nat : k = n - 1
    BY <1>2, <1>3
  <2> DEFINE rest == [i \in 1..k |-> Tail(Ring)[i]]
             M == Message \cup {NoMessage}
  <2> HIDE DEF M
  <2>3. rest \in Seq(M) /\ Len(rest) = k /\ \A i \in 1..k : rest[i] = Tail(Ring)[i]
    BY <1>12, <2>2 DEF M
  <2> HIDE DEF rest
  <2>4. rest = Tail(Ring)
    BY <1>12, <2>2, <2>3, SeqEqual DEF M
  <2>5. QED
    BY <2>1, <2>2, <2>4 DEF rest
<1>14. QED
  BY <1>4, <1>7, <1>13 DEF RingWhole
-----------------------------------------------------------------------------
(***************************************************************************)
(* Every step is one of the channel, or none of it: the mapping of         *)
(* MCMessageQueue.                                                         *)
(***************************************************************************)
QueueInv == OwnerInv /\ RingWhole

\* What a step does to the channel, and which messages it puts into the overflow.
ChannelStep ==
  \/ Channel!Accept /\ cached' = cached
  \/ Channel!Overflow /\ cached' = cached \cup {Accepted'}
  \/ Channel!Promote /\ cached' = cached
  \/ Channel!Receive /\ cached' = cached
  \/ UNCHANGED <<Unread, cacheQueue, Accepted, delivered, cached>>

LEMMA TailAppend ==
  ASSUME NEW S, NEW s \in Seq(S), s # <<>>, NEW e \in S
  PROVE  Tail(Append(s, e)) = Append(Tail(s), e)
<1>1. Append(s, e) \in Seq(S) /\ Len(Append(s, e)) = Len(s) + 1 /\ Append(s, e) # <<>>
  OBVIOUS
<1>2. Tail(s) \in Seq(S) /\ Len(Tail(s)) = Len(s) - 1 /\ \A i \in 1..(Len(s) - 1) : Tail(s)[i] = s[i + 1]
  BY HeadTailProperties
<1>3. Tail(Append(s, e)) \in Seq(S) /\ Len(Tail(Append(s, e))) = Len(s)
      /\ \A i \in 1..Len(s) : Tail(Append(s, e))[i] = Append(s, e)[i + 1]
  BY <1>1, HeadTailProperties
<1>4. Append(Tail(s), e) \in Seq(S) /\ Len(Append(Tail(s), e)) = Len(s)
  BY <1>2
<1>5. ASSUME NEW i \in 1..Len(s) PROVE Append(s, e)[i + 1] = Append(Tail(s), e)[i]
  <2>1. Len(s) \in Nat
    OBVIOUS
  <2>2. CASE i = Len(s)
    <3>1. Append(s, e)[i + 1] = e
      BY <2>2
    <3>2. Append(Tail(s), e)[i] = e
      BY <1>2, <2>1, <2>2
    <3>3. QED
      BY <3>1, <3>2
  <2>3. CASE i # Len(s)
    <3>1. i \in 1..(Len(s) - 1) /\ i + 1 \in 1..Len(s)
      BY <2>1, <2>3
    <3>2. Append(s, e)[i + 1] = s[i + 1]
      BY <3>1
    <3>3. Append(Tail(s), e)[i] = Tail(s)[i]
      BY <1>2, <3>1
    <3>4. QED
      BY <1>2, <3>1, <3>2, <3>3
  <2>4. QED
    BY <2>2, <2>3
<1>6. QED
  BY <1>3, <1>4, <1>5, SeqEqual

\* A message appended to the ring is appended to the channel.
LEMMA UnreadRaised ==
  ASSUME QueueInv, NEW m \in Message, Ring' = Append(Ring, m), cpc' = cpc, Len(Ring) < QUEUE_SIZE
  PROVE  Unread' = Append(Unread, m) /\ Len(Unread) < QUEUE_SIZE
<1> DEFINE M == Message \cup {NoMessage}
<1>1. Ring \in Seq(M) /\ m \in M
  BY RingFacts DEF QueueInv, OwnerInv
<1>2. CASE cpc \in {"pop", "clear"}
  <2>1. Ring # <<>>
    BY <1>2, RingFacts DEF QueueInv, OwnerInv, HandedOver
  <2> HIDE DEF M
  <2>2. Tail(Append(Ring, m)) = Append(Tail(Ring), m)
    BY <1>1, <2>1, TailAppend
  <2>3. Len(Tail(Ring)) = Len(Ring) - 1 /\ Len(Ring) \in Nat
    BY <1>1, <2>1, HeadTailProperties
  <2>4. QED
    BY <1>2, <2>2, <2>3, SizeAssumption DEF Unread
<1>3. CASE cpc \notin {"pop", "clear"}
  BY <1>3 DEF Unread
<1>4. QED
  BY <1>2, <1>3

\* One case per action.
LEMMA QueueStep ==
  ASSUME QueueInv, [Next]_vars
  PROVE  RingWhole' /\ ChannelStep
<1> USE DEF producer, consumer
<1>1. TypeOK /\ HandedOver /\ RingWhole /\ Numbered
  BY DEF QueueInv, OwnerInv
<1>2. ASSUME UNCHANGED <<first, second, readPos, writePos>>
      PROVE  RingWhole' /\ Ring' = Ring
  BY <1>1, <1>2, RingKept
<1>3. pushed \in Nat /\ (ppc # "idle" => pushed > 0)
  BY <1>1 DEF TypeOK
<1>4. CASE UNCHANGED vars
  BY <1>2, <1>4 DEF vars, ChannelStep, Unread, Accepted
<1>5. CASE PushMsg
  <2>1. RingWhole' /\ Ring' = Ring
    BY <1>2, <1>5 DEF PushMsg
  <2>2. Accepted' = Accepted
    BY <1>3, <1>5 DEF PushMsg, Accepted
  <2>3. QED
    BY <1>5, <2>1, <2>2 DEF PushMsg, ChannelStep, Unread
<1>6. CASE MoveSecond \/ PlaceSecond
  <2>1. /\ ~first[writePos]
        /\ \E m : second' = [second EXCEPT ![writePos] = m]
        /\ UNCHANGED <<first, readPos, writePos>>
    BY <1>6 DEF MoveSecond, PlaceSecond
  <2>2. RingWhole' /\ Ring' = Ring
    BY <1>1, <2>1, RingWritten
  <2>3. UNCHANGED <<cpc, cacheQueue, delivered, cached, pushed>> /\ ppc # "idle" /\ ppc' # "idle"
    BY <1>6 DEF MoveSecond, PlaceSecond
  <2>4. QED
    BY <2>2, <2>3 DEF ChannelStep, Unread, Accepted
<1>7. CASE MoveFirst
  <2>1. ~first[writePos] /\ cacheQueue # <<>> /\ second[writePos] = Head(cacheQueue)
    BY <1>1, <1>7 DEF MoveFirst, HandedOver, TypeOK, Numbered
  <2>2. RingWhole' /\ Ring' = Append(Ring, Head(cacheQueue)) /\ Len(Ring) < QUEUE_SIZE
    BY <1>1, <1>7, <2>1, RingRaised DEF MoveFirst
  <2>3. Head(cacheQueue) \in Message
    BY <1>1, <2>1 DEF TypeOK
  <2>4. Unread' = Append(Unread, Head(cacheQueue)) /\ Len(Unread) < QUEUE_SIZE
    BY <1>7, <2>2, <2>3, UnreadRaised DEF MoveFirst
  <2>5. Channel!Promote
    BY <1>7, <2>1, <2>4 DEF MoveFirst, Channel!Promote, Accepted
  <2>6. QED
    BY <1>7, <2>2, <2>5 DEF MoveFirst, ChannelStep
<1>8. CASE CacheDone
  BY <1>2, <1>8 DEF CacheDone, ChannelStep, Unread, Accepted
<1>9. CASE PlaceFirst
  <2>1. ~first[writePos] /\ second[writePos] = pushed
    BY <1>1, <1>9 DEF PlaceFirst, HandedOver, Numbered
  <2>2. RingWhole' /\ Ring' = Append(Ring, pushed) /\ Len(Ring) < QUEUE_SIZE
    BY <1>1, <1>9, <2>1, RingRaised DEF PlaceFirst
  <2>3. pushed \in Message
    BY <1>1, <1>3, <1>9, PushAssumption DEF PlaceFirst, TypeOK, Message
  <2>4. Unread' = Append(Unread, pushed) /\ Len(Unread) < QUEUE_SIZE
    BY <1>9, <2>2, <2>3, UnreadRaised DEF PlaceFirst
  <2>5. Accepted' = Accepted + 1 /\ Accepted' = pushed
    BY <1>3, <1>9 DEF PlaceFirst, Accepted
  <2>6. Channel!Accept
    BY <1>9, <2>4, <2>5 DEF PlaceFirst, Channel!Accept
  <2>7. QED
    BY <1>9, <2>2, <2>6 DEF PlaceFirst, ChannelStep
<1>10. CASE Spill
  <2>1. Len(Ring) = QUEUE_SIZE /\ Ring \in Seq(Message \cup {NoMessage})
    BY <1>1, <1>10, RingFacts DEF Spill
  <2>2. Len(Unread) >= QUEUE_SIZE - 1
    <3>1. Ring # <<>>
      BY <2>1, SizeAssumption
    <3>2. Len(Tail(Ring)) = Len(Ring) - 1
      BY <2>1, <3>1, HeadTailProperties
    <3>3. QED
      BY <2>1, <3>2, SizeAssumption DEF Unread
  <2>3. RingWhole' /\ Unread' = Unread
    BY <1>2, <1>10 DEF Spill, Unread
  <2>4. Accepted' = Accepted + 1 /\ Accepted' = pushed
    BY <1>3, <1>10 DEF Spill, Accepted
  <2>5. Channel!Overflow
    BY <1>10, <2>2, <2>3, <2>4 DEF Spill, Channel!Overflow
  <2>6. QED
    BY <1>10, <2>3, <2>4, <2>5 DEF Spill, ChannelStep
<1>11. CASE GetMsg \/ PopDelete
  <2>1. RingWhole' /\ Unread' = Unread
    BY <1>2, <1>11 DEF GetMsg, PopDelete, Unread
  <2>2. QED
    BY <1>11, <2>1 DEF GetMsg, PopDelete, ChannelStep, Accepted
<1>12. CASE CmdParse
  <2>1. Ring # <<>> /\ Head(Ring) = second[readPos]
    BY <1>1, <1>12, RingFacts DEF CmdParse, HandedOver
  <2>2. RingWhole' /\ Ring' = Ring
    BY <1>2, <1>12 DEF CmdParse
  <2>3. Unread = Ring /\ Unread' = Tail(Ring)
    BY <1>12, <2>2 DEF CmdParse, Unread
  <2>4. Channel!Receive
    BY <1>12, <2>1, <2>3 DEF CmdParse, Channel!Receive, Accepted
  <2>5. QED
    BY <1>12, <2>2, <2>4 DEF CmdParse, ChannelStep
<1>13. CASE PopFirst
  <2>1. RingWhole' /\ Ring' = Tail(Ring)
    BY <1>1, <1>13, RingLowered DEF PopFirst, HandedOver
  <2>2. Unread' = Unread
    BY <1>13, <2>1 DEF PopFirst, Unread
  <2>3. QED
    BY <1>13, <2>1, <2>2 DEF PopFirst, ChannelStep, Accepted
<1>14. QED
  BY <1>4, <1>5, <1>6, <1>7, <1>8, <1>9, <1>10, <1>11, <1>12, <1>13 DEF Next, Finish, Consume

LEMMA QueueInitial ==
  ASSUME Init
  PROVE  QueueInv /\ Unread = <<>> /\ Ring = <<>>
<1>1. OwnerInv
  BY TypeInitial DEF Init, OwnerInv, HandedOver, BuffersOwned, Numbered, Held, Waiting, InHand, Deleted
<1>2. readPos \in Position /\ 0 \in 0..QUEUE_SIZE
  BY SizeAssumption DEF Init, Position
<1>3. RingFrom(0)
  <2>1. \A i \in 0..(QUEUE_SIZE - 1) : SlotAt(i) \in Position
    BY <1>2, SlotsDiffer, SizeAssumption
  <2>2. writePos = SlotAt(0)
    BY <1>2, SlotsDiffer DEF Init
  <2>3. QED
    BY <2>1, <2>2 DEF Init, RingFrom
<1>4. Ring = <<>>
  BY <1>2, <1>3, RingIs
<1>5. QED
  BY <1>1, <1>2, <1>3, <1>4 DEF QueueInv, RingWhole, Unread, Init

\* Two threads, a ring of flags, two positions and a cache, without a lock, are one
\* bounded channel with an overflow, whatever the size of the ring: every message
\* pushed is received once, none is invented, and none takes the way through the cache
\* but when the ring is full or full but for the message being taken out (mq.h:18-105).
THEOREM QueueIsChannel == Spec => ImplementsChannel
<1>1. Init => QueueInv /\ Channel!ChannelInit
  BY QueueInitial DEF Init, Channel!ChannelInit, Accepted
<1>2. QueueInv /\ [Next]_vars => QueueInv' /\ ChannelStep
  BY TypeInductive, HandedOverInductive, OwnerInductive, QueueStep DEF QueueInv, OwnerInv
<1>3. ChannelStep => [Channel!Accept \/ Channel!Overflow \/ Channel!Promote \/ Channel!Receive]_(Channel!channelvars)
  BY DEF ChannelStep, Channel!channelvars
<1>4. QED
  BY <1>1, <1>2, <1>3, PTL DEF Spec, ImplementsChannel, Channel!ChannelSpec
-----------------------------------------------------------------------------
(***************************************************************************)
(* Overtaking, on the channel: the messages received and those in the      *)
(* channel stand in one line, which grows only at its end; what waits in   *)
(* the overflow comes after it.                                            *)
(***************************************************************************)
Line == delivered \o Unread

\* Line l, overflow c, messages k that went through the overflow, a accepted so far.
Ordered(l, c, k, a) ==
  /\ \A i, j \in DOMAIN l : i < j /\ l[i] > l[j] => l[j] \in k /\ l[i] \notin k
  /\ \A i \in DOMAIN l, j \in DOMAIN c : l[i] > c[j] => l[i] \notin k
  /\ \A i, j \in DOMAIN c : i < j => c[i] < c[j]
  /\ \A j \in DOMAIN c : c[j] \in k /\ c[j] <= a
  /\ \A i \in DOMAIN l : l[i] <= a
  /\ \A m \in k : m <= a

InOrder == Ordered(Line, cacheQueue, cached, Accepted)

\* A message that joins the line is larger than all there are.
LEMMA OrderedAccept ==
  ASSUME NEW l \in Seq(Nat), NEW c \in Seq(Nat), NEW k \in SUBSET Nat, NEW a \in Nat,
         Ordered(l, c, k, a)
  PROVE  Ordered(Append(l, a + 1), c, k, a + 1)
<1> DEFINE n == Append(l, a + 1)
<1>1. /\ DOMAIN n = DOMAIN l \cup {Len(l) + 1} /\ n[Len(l) + 1] = a + 1
      /\ \A i \in DOMAIN l : n[i] = l[i] /\ i \in Nat /\ i <= Len(l) /\ l[i] \in Nat
      /\ \A j \in DOMAIN c : c[j] \in Nat
      /\ Len(l) \in Nat
  OBVIOUS
<1> HIDE DEF n
<1>2. \A i, j \in DOMAIN n : i < j /\ n[i] > n[j] => n[j] \in k /\ n[i] \notin k
  BY <1>1 DEF Ordered
<1>3. \A i \in DOMAIN n, j \in DOMAIN c : n[i] > c[j] => n[i] \notin k
  BY <1>1 DEF Ordered
<1>4. \A i \in DOMAIN n : n[i] <= a + 1
  BY <1>1 DEF Ordered
<1>5. /\ \A j \in DOMAIN c : c[j] \in k /\ c[j] <= a + 1
      /\ \A m \in k : m <= a + 1
  BY <1>1 DEF Ordered
<1>6. QED
  BY <1>2, <1>3, <1>4, <1>5 DEF Ordered, n

LEMMA OrderedOverflow ==
  ASSUME NEW l \in Seq(Nat), NEW c \in Seq(Nat), NEW k \in SUBSET Nat, NEW a \in Nat,
         Ordered(l, c, k, a)
  PROVE  Ordered(l, Append(c, a + 1), k \cup {a + 1}, a + 1)
<1> DEFINE n == Append(c, a + 1)
<1>1. /\ DOMAIN n = DOMAIN c \cup {Len(c) + 1} /\ n[Len(c) + 1] = a + 1
      /\ \A j \in DOMAIN c : n[j] = c[j] /\ j \in Nat /\ j <= Len(c) /\ c[j] \in Nat
      /\ \A i \in DOMAIN l : l[i] \in Nat
      /\ Len(c) \in Nat
  OBVIOUS
<1> HIDE DEF n
<1>2. \A i \in DOMAIN l : l[i] # a + 1 /\ l[i] <= a + 1 /\ ~(l[i] > a + 1)
  BY <1>1 DEF Ordered
<1>3. \A i, j \in DOMAIN l : i < j /\ l[i] > l[j] => l[j] \in k \cup {a + 1} /\ l[i] \notin k \cup {a + 1}
  BY <1>2 DEF Ordered
<1>4. \A i \in DOMAIN l, j \in DOMAIN n : l[i] > n[j] => l[i] \notin k \cup {a + 1}
  BY <1>1, <1>2 DEF Ordered
<1>5. \A i, j \in DOMAIN n : i < j => n[i] < n[j]
  BY <1>1 DEF Ordered
<1>6. \A j \in DOMAIN n : n[j] \in k \cup {a + 1} /\ n[j] <= a + 1
  BY <1>1 DEF Ordered
<1>7. \A m \in k \cup {a + 1} : m <= a + 1
  BY <1>1 DEF Ordered
<1>8. QED
  BY <1>2, <1>3, <1>4, <1>5, <1>6, <1>7 DEF Ordered, n

LEMMA OrderedPromote ==
  ASSUME NEW l \in Seq(Nat), NEW c \in Seq(Nat), NEW k \in SUBSET Nat, NEW a \in Nat,
         Ordered(l, c, k, a), c # <<>>
  PROVE  Ordered(Append(l, c[1]), Tail(c), k, a)
<1> DEFINE n == Append(l, c[1])
           t == Tail(c)
<1>1. c[1] \in Nat /\ 1 \in DOMAIN c
  OBVIOUS
<1>2. /\ DOMAIN n = DOMAIN l \cup {Len(l) + 1} /\ n[Len(l) + 1] = c[1]
      /\ \A i \in DOMAIN l : n[i] = l[i] /\ i \in Nat /\ i <= Len(l) /\ l[i] \in Nat
      /\ Len(l) \in Nat
  BY <1>1
<1>3. \A j \in DOMAIN c : c[j] \in Nat /\ j \in Nat
  OBVIOUS
<1>4. \A j \in DOMAIN t : j \in Nat /\ j > 0 /\ j + 1 \in DOMAIN c /\ t[j] = c[j + 1]
  BY HeadTailProperties
<1> HIDE DEF n, t
<1>5. \A i, j \in DOMAIN n : i < j /\ n[i] > n[j] => n[j] \in k /\ n[i] \notin k
  BY <1>1, <1>2 DEF Ordered
<1>6. \A i \in DOMAIN n, j \in DOMAIN t : n[i] > t[j] => n[i] \notin k
  <2>1. \A j \in DOMAIN t : c[1] < t[j] /\ t[j] \in Nat
    BY <1>1, <1>3, <1>4 DEF Ordered
  <2>2. \A i \in DOMAIN l, j \in DOMAIN t : l[i] > t[j] => l[i] \notin k
    BY <1>4 DEF Ordered
  <2>3. QED
    BY <1>1, <1>2, <2>1, <2>2
<1>7. \A i, j \in DOMAIN t : i < j => t[i] < t[j]
  BY <1>4 DEF Ordered
<1>8. (\A j \in DOMAIN t : t[j] \in k /\ t[j] <= a) /\ (\A i \in DOMAIN n : n[i] <= a)
  BY <1>1, <1>2, <1>4 DEF Ordered
<1>9. QED
  BY <1>5, <1>6, <1>7, <1>8 DEF Ordered, n, t

LEMMA UnreadType ==
  ASSUME QueueInv
  PROVE  Unread \in Seq(Message \cup {NoMessage}) /\ Accepted \in Nat
<1>1. Ring \in Seq(Message \cup {NoMessage})
  BY RingFacts DEF QueueInv, OwnerInv
<1>2. cpc \in {"pop", "clear"} => Ring # <<>>
  BY RingFacts DEF QueueInv, OwnerInv, HandedOver
<1>3. Unread \in Seq(Message \cup {NoMessage})
  BY <1>1, <1>2, HeadTailProperties DEF Unread
<1>4. Accepted \in Nat
  BY DEF Accepted, QueueInv, OwnerInv, TypeOK
<1>5. QED
  BY <1>3, <1>4

LEMMA LineAppended ==
  ASSUME NEW S, NEW d \in Seq(S), NEW u \in Seq(S), NEW e \in S
  PROVE  d \o Append(u, e) = Append(d \o u, e)
<1>1. /\ d \o Append(u, e) \in Seq(S) /\ Append(d \o u, e) \in Seq(S)
      /\ Len(d \o Append(u, e)) = Len(d) + Len(u) + 1 /\ Len(Append(d \o u, e)) = Len(d) + Len(u) + 1
  OBVIOUS
<1>2. ASSUME NEW i \in 1..(Len(d) + Len(u) + 1) PROVE (d \o Append(u, e))[i] = Append(d \o u, e)[i]
  <2>1. CASE i <= Len(d) + Len(u)
    <3>1. Append(d \o u, e)[i] = (d \o u)[i]
      BY <2>1
    <3>2. (d \o Append(u, e))[i] = (d \o u)[i]
      BY <2>1
    <3>3. QED
      BY <3>1, <3>2
  <2>2. CASE i = Len(d) + Len(u) + 1
    BY <2>2
  <2>3. QED
    BY <2>1, <2>2
<1>3. QED
  BY <1>1, <1>2, SeqEqual

LEMMA LineMoved ==
  ASSUME NEW S, NEW d \in Seq(S), NEW u \in Seq(S), u # <<>>
  PROVE  Append(d, Head(u)) \o Tail(u) = d \o u
<1>1. Head(u) = u[1] /\ u[1] \in S /\ Len(u) >= 1
  OBVIOUS
<1>2. Tail(u) \in Seq(S) /\ Len(Tail(u)) = Len(u) - 1 /\ \A i \in 1..(Len(u) - 1) : Tail(u)[i] = u[i + 1]
  BY HeadTailProperties
<1> DEFINE t == Tail(u)
<1> HIDE DEF t
<1>3. Append(d, u[1]) \in Seq(S) /\ Len(Append(d, u[1])) = Len(d) + 1
  BY <1>1
<1>4. /\ Append(d, u[1]) \o t \in Seq(S) /\ d \o u \in Seq(S)
      /\ Len(Append(d, u[1]) \o t) = Len(d) + Len(u) /\ Len(d \o u) = Len(d) + Len(u)
  BY <1>1, <1>2, <1>3 DEF t
<1>5. PICK n \in Nat : n = Len(d)
  OBVIOUS
<1>6. ASSUME NEW i \in 1..(n + Len(u)) PROVE (Append(d, u[1]) \o t)[i] = (d \o u)[i]
  <2>1. CASE i <= n + 1
    BY <1>1, <1>2, <1>3, <1>5, <2>1 DEF t
  <2>2. CASE i > n + 1
    <3>1. (Append(d, u[1]) \o t)[i] = t[i - Len(d) - 1]
      BY <1>1, <1>2, <1>3, <1>5, <2>2 DEF t
    <3>2. t[i - Len(d) - 1] = u[i - Len(d)]
      BY <1>2, <1>5, <2>2 DEF t
    <3>3. (d \o u)[i] = u[i - Len(d)]
      BY <1>5, <2>2
    <3>4. QED
      BY <3>1, <3>2, <3>3
  <2>3. i <= n + 1 \/ i > n + 1
    BY <1>5
  <2>4. QED
    BY <2>1, <2>2, <2>3
<1>7. QED
  BY <1>1, <1>4, <1>5, <1>6, SeqEqual DEF t

LEMMA OrderInductive ==
  ASSUME QueueInv, QueueInv', InOrder, ChannelStep
  PROVE  InOrder'
<1> DEFINE M == Message \cup {NoMessage}
           a == Accepted
           c == cacheQueue
<1>1. /\ delivered \in Seq(M) /\ Unread \in Seq(M) /\ a \in Nat /\ c \in Seq(Message)
      /\ cached \in SUBSET Message
  BY UnreadType DEF QueueInv, OwnerInv, TypeOK
<1>2. Message \subseteq M /\ M \subseteq Nat
  BY PushAssumption DEF Message, NoMessage
<1> HIDE DEF M
<1>3. delivered \in Seq(Nat) /\ Unread \in Seq(Nat) /\ c \in Seq(Nat) /\ cached \in SUBSET Nat
  BY <1>1, <1>2, SeqMonotonic
<1>4. Line \in Seq(Nat)
  BY <1>3 DEF Line
<1>5. CASE Channel!Accept /\ cached' = cached
  <2>1. Accepted' = a + 1 /\ Unread' = Append(Unread, a + 1) /\ c' = c /\ delivered' = delivered
    BY <1>5 DEF Channel!Accept
  <2>2. Line' = Append(Line, a + 1)
    BY <1>1, <1>3, <2>1, LineAppended DEF Line
  <2>3. QED
    BY <1>1, <1>3, <1>4, <1>5, <2>1, <2>2, OrderedAccept DEF InOrder
<1>6. CASE Channel!Overflow /\ cached' = cached \cup {Accepted'}
  <2>1. Accepted' = a + 1 /\ Unread' = Unread /\ c' = Append(c, a + 1) /\ delivered' = delivered
    BY <1>6 DEF Channel!Overflow
  <2>2. Line' = Line
    BY <2>1 DEF Line
  <2>3. QED
    BY <1>1, <1>3, <1>4, <1>6, <2>1, <2>2, OrderedOverflow DEF InOrder
<1>7. CASE Channel!Promote /\ cached' = cached
  <2>1. Accepted' = a /\ Unread' = Append(Unread, Head(c)) /\ c # <<>> /\ c' = Tail(c) /\ delivered' = delivered
    BY <1>7 DEF Channel!Promote
  <2>2. Head(c) = c[1] /\ c[1] \in Nat
    BY <1>3, <2>1
  <2>3. delivered \o Append(Unread, c[1]) = Append(delivered \o Unread, c[1])
    BY SMTT(40), <1>3, <2>2, LineAppended
  <2>4. Line' = Append(Line, c[1])
    BY <2>1, <2>2, <2>3 DEF Line
  <2>5. QED
    BY <1>1, <1>3, <1>4, <1>7, <2>1, <2>4, OrderedPromote DEF InOrder
<1>8. CASE Channel!Receive /\ cached' = cached
  <2>1. Accepted' = a /\ c' = c /\ Line' = Line
    BY <1>3, <1>8, LineMoved DEF Channel!Receive, Line
  <2>2. QED
    BY <1>8, <2>1 DEF InOrder
<1>9. CASE UNCHANGED <<Unread, cacheQueue, Accepted, delivered, cached>>
  BY <1>9 DEF InOrder, Line
<1>10. QED
  BY <1>5, <1>6, <1>7, <1>8, <1>9 DEF ChannelStep

\* For every ring and any number of messages, a message overtakes only messages that
\* went through the cache, without having been there itself: two messages that took
\* the same way arrive in the order they were pushed (mq.h:28-29, 90-102).
THEOREM OvertakingBounded == Spec => []OvertakesOnlyCached
<1>1. Init => QueueInv /\ InOrder
  <2> SUFFICES ASSUME Init PROVE QueueInv /\ InOrder
    OBVIOUS
  <2>1. QueueInv /\ Line = <<>> /\ cacheQueue = <<>> /\ cached = {}
    BY QueueInitial DEF Init, Line
  <2>2. QED
    BY <2>1 DEF InOrder, Ordered
<1>2. QueueInv /\ InOrder /\ [Next]_vars => QueueInv' /\ InOrder'
  <2> SUFFICES ASSUME QueueInv, InOrder, [Next]_vars PROVE QueueInv' /\ InOrder'
    OBVIOUS
  <2>1. QueueInv' /\ ChannelStep
    BY TypeInductive, HandedOverInductive, OwnerInductive, QueueStep DEF QueueInv, OwnerInv
  <2>2. QED
    BY <2>1, OrderInductive
<1>3. QueueInv /\ InOrder => OvertakesOnlyCached
  <2> SUFFICES ASSUME QueueInv, InOrder, NEW i \in DOMAIN delivered, NEW j \in DOMAIN delivered,
                      i < j, delivered[i] > delivered[j]
               PROVE  delivered[j] \in cached /\ delivered[i] \notin cached
    BY DEF OvertakesOnlyCached
  <2>1. delivered \in Seq(Message \cup {NoMessage}) /\ Unread \in Seq(Message \cup {NoMessage})
    BY UnreadType DEF QueueInv, OwnerInv, TypeOK
  <2>2. \A n \in DOMAIN delivered : n \in DOMAIN Line /\ Line[n] = delivered[n]
    BY <2>1 DEF Line
  <2>3. QED
    BY <2>2 DEF InOrder, Ordered
<1>4. QED
  BY <1>1, <1>2, <1>3, PTL DEF Spec
-----------------------------------------------------------------------------
(***************************************************************************)
(* Sending.  What a round has sent so far says how often each order can    *)
(* have been written: every round but one that left a gap began with all   *)
(* orders unwritten.                                                       *)
(***************************************************************************)
SendInv ==
  /\ next \in 1..NumOrders + 1 /\ count \in 0..next - 1
  /\ offered \in [Orders -> Nat] /\ gap \in BOOLEAN /\ m_sendflag \in BOOLEAN
  /\ count = next - 1 => \A o \in Orders : o < next => offered[o] > 0
  /\ ~gap => \A o \in Orders : offered[o] <= 1
  /\ ~gap /\ ~m_sendflag =>
       \A o \in Orders : o >= next \/ count = 0 => offered[o] = 0
  /\ m_sendflag => \A o \in Orders : offered[o] > 0

LEMMA SendInductive ==
  ASSUME SendInv, [ClientNext]_clientVars
  PROVE  SendInv'
<1>1. NumOrders \in Nat \ {0}
  BY ClientAssumption
<1>2. CASE UNCHANGED mainVars
  BY <1>2 DEF mainVars, SendInv
<1>3. CASE TestSend
  <2>1. PICK n \in Int, c \in Int : n = next /\ c = count /\ n >= 1 /\ n <= NumOrders /\ c >= 0 /\ c <= n - 1
    BY <1>1, <1>3 DEF SendInv, TestSend
  <2>2. n \in Orders /\ next' = n + 1 /\ UNCHANGED <<gap, m_sendflag>> /\ ~m_sendflag
    BY <1>1, <1>3, <2>1 DEF Orders, TestSend
  <2>3. CASE UNCHANGED <<count, offered>>
    <3>1. \A o \in Orders : o \in Int
      BY DEF Orders
    <3>2. QED
      BY <1>1, <2>1, <2>2, <2>3, <3>1 DEF SendInv
  <2>4. CASE count' = c + 1 /\ offered' = [offered EXCEPT ![n] = @ + 1]
    <3>1. offered' \in [Orders -> Nat] /\ \A o \in Orders : o \in Int /\ offered[o] \in Nat
      BY <2>2, <2>4 DEF SendInv, Orders
    <3>2. \A o \in Orders : offered'[o] = IF o = n THEN offered[o] + 1 ELSE offered[o]
      BY <2>4 DEF SendInv
    <3>3. ~gap => offered[n] = 0
      BY <2>1, <2>2 DEF SendInv
    <3>4. ~gap' => \A o \in Orders : offered'[o] <= 1
      BY <2>2, <3>1, <3>2, <3>3 DEF SendInv
    <3>5. ~gap' => \A o \in Orders : o >= n + 1 => offered'[o] = 0
      BY <2>1, <2>2, <3>1, <3>2 DEF SendInv
    <3>6. c + 1 = n => \A o \in Orders : o < n + 1 => offered'[o] > 0
      BY <2>1, <3>1, <3>2 DEF SendInv
    <3>7. QED
      BY <1>1, <2>1, <2>2, <2>4, <3>1, <3>4, <3>5, <3>6 DEF SendInv
  <2>5. QED
    BY <1>3, <2>1, <2>3, <2>4 DEF TestSend
<1>4. CASE EndTestSend
  <2>1. next = NumOrders + 1 /\ next' = 1 /\ count' = 0 /\ offered' = offered /\ ~m_sendflag
    BY <1>1, <1>4 DEF EndTestSend, SendInv
  <2>2. \A o \in Orders : o \in Int /\ o < NumOrders + 1 /\ offered[o] \in Nat /\ o >= 1
    BY <1>1 DEF SendInv, Orders
  <2>3. count \in 0..NumOrders /\ m_sendflag' = (count = NumOrders) /\ gap' = (gap \/ count \in 1..NumOrders - 1)
    BY <1>1, <1>4, <2>1 DEF EndTestSend, SendInv
  <2>4. m_sendflag' \in BOOLEAN /\ gap' \in BOOLEAN
    BY <2>3
  <2>5. m_sendflag' => \A o \in Orders : offered[o] > 0
    BY <1>1, <2>1, <2>2, <2>3 DEF SendInv
  <2>6. ~gap' => ~gap /\ (count = 0 \/ m_sendflag')
    <3>1. count = 0 \/ count = NumOrders \/ count \in 1..NumOrders - 1
      BY <1>1, <2>3
    <3>2. QED
      BY <2>3, <3>1, Zenon
  <2>7. ~gap' => \A o \in Orders : offered[o] <= 1
    BY <2>6 DEF SendInv
  <2>8. ~gap' /\ ~m_sendflag' => \A o \in Orders : offered[o] = 0
    BY <2>1, <2>2, <2>6 DEF SendInv
  <2>9. next' \in 1..NumOrders + 1 /\ count' \in 0..next' - 1
    BY <1>1, <2>1
  <2>10. count' = next' - 1 => \A o \in Orders : o < next' => offered'[o] > 0
    BY <2>1, <2>2
  <2>11. QED
    BY <2>1, <2>4, <2>5, <2>7, <2>8, <2>9, <2>10 DEF SendInv
<1>5. QED
  BY <1>2, <1>3, <1>4
  DEF ClientNext, Main, Recycle, Io, Server, clientVars, RecycleCheckQueue, Conn, SetSocket, ConnFails,
      NoDescriptor, IoCheckQueue, EpollWait, RcvBuffer, SyncSendBuf, EndRound, Reply, Break

LEMMA SendInitial ==
  ASSUME ClientInit
  PROVE  SendInv
<1>1. NumOrders \in Nat \ {0}
  BY ClientAssumption
<1>2. next \in 1..NumOrders + 1 /\ count \in 0..next - 1
  BY <1>1 DEF ClientInit
<1>3. /\ offered \in [Orders -> Nat] /\ gap \in BOOLEAN /\ m_sendflag \in BOOLEAN
      /\ ~m_sendflag /\ \A o \in Orders : offered[o] = 0
  BY DEF ClientInit
<1>4. next = 1 /\ count = 0 /\ \A o \in Orders : ~(o < next)
  BY DEF ClientInit, Orders
<1>5. QED
  BY <1>2, <1>3, <1>4 DEF SendInv

\* Although connections come and go between two orders of a round: an order is written
\* again only after a round that sent some and not others, and when testSend stops for
\* good every order has been written (MyClientTaskManager.cpp).
THEOREM WrittenOnceUnlessGap == ClientSpec => []OfferedOnceUnlessGap
<1>1. SendInv => OfferedOnceUnlessGap
  BY DEF SendInv, OfferedOnceUnlessGap
<1>2. QED
  BY <1>1, SendInitial, SendInductive, PTL DEF ClientSpec
-----------------------------------------------------------------------------
(***************************************************************************)
(* Receiving.  As long as no task has a broken socket registered next to   *)
(* its present one, every registration is of the present socket, so what   *)
(* epoll reported readable is what rcvBuffer reads.                        *)
(***************************************************************************)

\* The number of the newest socket a task or epoll can know of.
Newest == IF connecting = <<>> THEN Len(sockets) ELSE Len(sockets) - 1

SocketInv ==
  /\ sockets \in Seq({"open", "broken", "failed"})
  /\ mSock \in [Tasks -> 0..Newest]
  /\ \A t, u \in Tasks : mSock[t] = mSock[u] /\ mSock[t] # NoSocket => t = u
  /\ recycleQueue \subseteq Tasks /\ recycleSet \subseteq Tasks
  /\ ioQueue \subseteq Tasks /\ taskWillDel \subseteq Tasks
  /\ epoll \subseteq Tasks \X (1..Newest)
  /\ events \subseteq Tasks \X (1..Newest) \X {"in", "out"}
  /\ \A e \in events : <<e[1], e[2]>> \in epoll
  /\ connecting # <<>> =>
       /\ connecting \in Tasks \X (1..Len(sockets))
       /\ connecting[1] \in recycleSet /\ connecting[2] = Len(sockets)

\* A broken socket is still registered for a task that has another one now.
Stale == \E r \in epoll : sockets[r[2]] = "broken" /\ mSock[r[1]] # r[2]

\* A task is reconnected only when the socket it has is broken, and registered.
Fresh ==
  /\ \A r \in epoll : mSock[r[1]] = r[2]
  /\ \A t \in recycleQueue \cup recycleSet \cup taskWillDel :
       mSock[t] # NoSocket => sockets[mSock[t]] = "broken" /\ <<t, mSock[t]>> \in epoll
  /\ \A t \in Tasks : mSock[t] = NoSocket =>
       t \notin taskWillDel /\ ~(t \in recycleQueue /\ t \in recycleSet)
  /\ \A e \in events : e[3] = "in" => e[2] \in inbox \/ sockets[e[2]] = "broken"

\* What the sockets are can change in three ways, and none mends a broken one.
LEMMA SocketSteps ==
  ASSUME SocketInv, [ClientNext]_clientVars
  PROVE  /\ sockets' \in Seq({"open", "broken", "failed"})
         /\ Len(sockets) \in Nat /\ Len(sockets') \in Nat /\ Len(sockets') >= Len(sockets)
         /\ \A s \in 1..Len(sockets) : sockets[s] = "broken" => sockets'[s] = "broken"
<1>1. CASE UNCHANGED sockets
  BY <1>1 DEF SocketInv
<1>2. ASSUME NEW state \in {"open", "failed"}, sockets' = Append(sockets, state)
      PROVE  /\ sockets' \in Seq({"open", "broken", "failed"})
             /\ Len(sockets) \in Nat /\ Len(sockets') \in Nat /\ Len(sockets') = Len(sockets) + 1
             /\ \A s \in 1..Len(sockets) : sockets'[s] = sockets[s]
  BY <1>2, AppendProperties DEF SocketInv
<1>3. ASSUME NEW b \in DOMAIN sockets, sockets' = [sockets EXCEPT ![b] = "broken"]
      PROVE  /\ sockets' \in Seq({"open", "broken", "failed"})
             /\ Len(sockets) \in Nat /\ Len(sockets') \in Nat /\ Len(sockets') = Len(sockets)
             /\ \A s \in 1..Len(sockets) : sockets[s] = "broken" => sockets'[s] = "broken"
  BY <1>3, ExceptSeq DEF SocketInv
<1>4. \/ UNCHANGED sockets
      \/ \E state \in {"open", "failed"} : sockets' = Append(sockets, state)
      \/ \E b \in DOMAIN sockets : sockets' = [sockets EXCEPT ![b] = "broken"]
  BY DEF ClientNext, Main, Recycle, Io, Server, clientVars, netVars, TestSend, EndTestSend, RecycleCheckQueue,
         Conn, SetSocket, ConnFails, NoDescriptor, IoCheckQueue, EpollWait, RcvBuffer,
         SyncSendBuf, EndRound, Reply, Break
<1>5. QED
  BY <1>1, <1>2, <1>3, <1>4

LEMMA SocketInductive ==
  ASSUME SocketInv, [ClientNext]_clientVars
  PROVE  SocketInv'
<1>1. /\ sockets' \in Seq({"open", "broken", "failed"})
      /\ Len(sockets) \in Nat /\ Len(sockets') \in Nat /\ Len(sockets') >= Len(sockets)
  BY SocketSteps
<1>2. CASE UNCHANGED <<mSock, recycleQueue, recycleSet, connecting, ioQueue, epoll, events, taskWillDel>>
  <2>1. connecting = <<>> \/ Len(sockets') = Len(sockets)
    <3>1. CASE UNCHANGED sockets
      BY <3>1
    <3>2. CASE \E b \in DOMAIN sockets : sockets' = [sockets EXCEPT ![b] = "broken"]
      BY <3>2, ExceptSeq DEF SocketInv
    <3>3. QED
      BY <3>1, <3>2
      DEF ClientNext, Main, Recycle, Io, Server, clientVars, netVars, TestSend, EndTestSend, RecycleCheckQueue,
          Conn, SetSocket, ConnFails, NoDescriptor, IoCheckQueue, EpollWait, RcvBuffer,
          SyncSendBuf, EndRound, Reply, Break
  <2>2. Newest \in Int /\ Newest' \in Int /\ Newest <= Newest'
    BY <1>1, <1>2 DEF Newest
  <2>3. 0..Newest \subseteq 0..Newest' /\ 1..Newest \subseteq 1..Newest'
    BY <2>2
  <2>4. mSock' \in [Tasks -> 0..Newest'] /\ epoll' \subseteq Tasks \X (1..Newest')
        /\ events' \subseteq Tasks \X (1..Newest') \X {"in", "out"}
    BY <1>2, <2>3 DEF SocketInv
  <2>5. QED
    BY <1>1, <1>2, <2>1, <2>4 DEF SocketInv
<1>3. CASE RecycleCheckQueue
  BY <1>3 DEF RecycleCheckQueue, SocketInv, Newest, mainVars, ioVars, netVars
<1>4. ASSUME NEW t \in Tasks, Conn(t) PROVE SocketInv'
  <2>1. connecting = <<>> /\ connecting' = <<t, Len(sockets')>> /\ Len(sockets') = Len(sockets) + 1
    BY <1>4, AppendProperties DEF Conn, SocketInv
  <2>2. connecting' # <<>> /\ connecting'[1] = t /\ connecting'[2] = Len(sockets')
        /\ connecting' \in Tasks \X (1..Len(sockets'))
    BY <1>1, <2>1
  <2>3. Newest' = Newest
    BY <1>1, <2>1, <2>2 DEF Newest
  <2>4. QED
    BY <1>1, <1>4, <2>2, <2>3 DEF Conn, SocketInv, mainVars, ioVars
<1>5. CASE SetSocket
  <2>1. PICK t \in Tasks, n \in 1..Len(sockets) :
          t = connecting[1] /\ n = connecting[2] /\ n = Len(sockets) /\ t \in recycleSet
    BY <1>5 DEF SetSocket, SocketInv
  <2>2. /\ mSock' = [mSock EXCEPT ![t] = n] /\ ioQueue' = ioQueue \cup {t}
        /\ recycleSet' = recycleSet \ {t} /\ connecting' = <<>>
        /\ UNCHANGED <<recycleQueue, epoll, events, taskWillDel, sockets>>
    BY <1>5, <2>1 DEF SetSocket, ioVars, netVars
  <2>3. Newest = n - 1 /\ Newest' = n
    BY <1>5, <2>1, <2>2 DEF SetSocket, Newest
  <2>4. 0..Newest \subseteq 0..Newest' /\ 1..Newest \subseteq 1..Newest' /\ n \notin 0..Newest /\ n \in 0..Newest'
    BY <2>1, <2>3
  <2>5. mSock' \in [Tasks -> 0..Newest'] /\ epoll' \subseteq Tasks \X (1..Newest')
        /\ events' \subseteq Tasks \X (1..Newest') \X {"in", "out"}
    BY <2>2, <2>4 DEF SocketInv
  <2>6. \A u, v \in Tasks : mSock'[u] = mSock'[v] /\ mSock'[u] # NoSocket => u = v
    BY <2>2, <2>4 DEF SocketInv
  <2>7. QED
    BY <1>1, <2>2, <2>5, <2>6 DEF SocketInv
<1>6. ASSUME NEW t \in Tasks, NoDescriptor(t) PROVE SocketInv'
  BY <1>6 DEF NoDescriptor, SocketInv, Newest, mainVars, ioVars, netVars
<1>7. CASE IoCheckQueue
  <2>1. /\ epoll' = epoll \cup {<<t, mSock[t]>> : t \in {u \in ioQueue : mSock[u] # NoSocket}}
        /\ ioQueue' = {} /\ Newest' = Newest
        /\ UNCHANGED <<mSock, recycleQueue, recycleSet, connecting, events, taskWillDel, sockets>>
    BY <1>7 DEF IoCheckQueue, Newest, recycleVars, netVars
  <2>2. \A t \in Tasks : mSock[t] # NoSocket => mSock[t] \in 1..Newest
    BY DEF SocketInv, NoSocket
  <2>3. {<<t, mSock[t]>> : t \in {u \in ioQueue : mSock[u] # NoSocket}} \subseteq Tasks \X (1..Newest)
    BY <2>2 DEF SocketInv
  <2>4. epoll' \subseteq Tasks \X (1..Newest)
    BY <2>1, <2>3 DEF SocketInv
  <2>5. QED
    BY <2>1, <2>4 DEF SocketInv
<1>8. CASE EpollWait
  <2>1. PICK R \in SUBSET epoll : events' = {<<r[1], r[2], Kind(r[2])>> : r \in R}
    BY <1>8 DEF EpollWait, kSubset
  <2>2. Newest' = Newest
        /\ UNCHANGED <<mSock, recycleQueue, recycleSet, connecting, ioQueue, epoll, taskWillDel, sockets>>
    BY <1>8 DEF EpollWait, Newest, recycleVars, netVars
  <2>3. \A e \in events' : e \in Tasks \X (1..Newest) \X {"in", "out"} /\ <<e[1], e[2]>> \in epoll
    <3>1. ASSUME NEW r \in R
          PROVE  /\ <<r[1], r[2], Kind(r[2])>> \in Tasks \X (1..Newest) \X {"in", "out"}
                 /\ <<r[1], r[2]>> \in epoll
      <4>1. PICK t \in Tasks, s \in 1..Newest : r = <<t, s>>
        BY DEF SocketInv
      <4>2. Kind(s) \in {"in", "out"}
        BY DEF Kind
      <4>3. QED
        BY <4>1, <4>2
    <3>2. QED
      <4>1. ASSUME NEW e \in events'
            PROVE  e \in Tasks \X (1..Newest) \X {"in", "out"} /\ <<e[1], e[2]>> \in epoll
        <5>1. PICK r \in R : e = <<r[1], r[2], Kind(r[2])>>
          BY <2>1
        <5>2. e[1] = r[1] /\ e[2] = r[2]
          BY <5>1
        <5>3. QED
          BY <3>1, <5>1, <5>2
      <4>2. QED
        BY <4>1
  <2>4. QED
    BY <2>2, <2>3 DEF SocketInv
<1>9. ASSUME NEW e \in events, RcvBuffer(e) PROVE SocketInv'
  <2>1. PICK t \in Tasks : t = e[1]
    BY DEF SocketInv
  <2>2. events' \subseteq events /\ taskWillDel' \subseteq taskWillDel \cup {t} /\ Newest' = Newest
        /\ UNCHANGED <<mSock, recycleQueue, recycleSet, connecting, ioQueue, epoll, sockets>>
    BY <1>9, <2>1 DEF RcvBuffer, Newest, recycleVars
  <2>3. QED
    BY <2>2 DEF SocketInv
<1>10. ASSUME NEW e \in events, SyncSendBuf(e) PROVE SocketInv'
  <2>1. PICK t \in Tasks : t = e[1]
    BY DEF SocketInv
  <2>2. events' \subseteq events /\ taskWillDel' \subseteq taskWillDel \cup {t} /\ Newest' = Newest
        /\ UNCHANGED <<mSock, recycleQueue, recycleSet, connecting, ioQueue, epoll, sockets>>
    BY <1>10, <2>1 DEF SyncSendBuf, Newest, recycleVars
  <2>3. QED
    BY <2>2 DEF SocketInv
<1>11. CASE EndRound
  BY <1>11 DEF EndRound, SocketInv, Newest, recycleVars, netVars
<1>12. QED
  BY <1>2, <1>3, <1>4, <1>5, <1>6, <1>7, <1>8, <1>9, <1>10, <1>11
  DEF ClientNext, Main, Recycle, Io, Server, clientVars, recycleVars, ioVars, TestSend, EndTestSend,
      ConnFails, Reply, Break

\* Nothing is ever taken out of epoll, and a socket is not given to a task twice.
LEMMA StaleStays ==
  ASSUME SocketInv, Stale, [ClientNext]_clientVars
  PROVE  Stale'
<1>1. PICK t \in Tasks, s \in 1..Newest : <<t, s>> \in epoll /\ sockets[s] = "broken" /\ mSock[t] # s
  <2>1. PICK r \in epoll : sockets[r[2]] = "broken" /\ mSock[r[1]] # r[2]
    BY DEF Stale
  <2>2. PICK t \in Tasks, s \in 1..Newest : r = <<t, s>>
    BY DEF SocketInv
  <2>3. QED
    BY <2>1, <2>2
<1>2. s \in 1..Len(sockets) /\ sockets'[s] = "broken"
  <2>1. Len(sockets) \in Nat
    BY SocketSteps
  <2>2. s \in 1..Len(sockets)
    BY <2>1 DEF Newest
  <2>3. QED
    BY <1>1, <2>2, SocketSteps
<1>3. <<t, s>> \in epoll'
  <2>1. UNCHANGED epoll \/ IoCheckQueue
    BY DEF ClientNext, Main, Recycle, Io, Server, clientVars, ioVars, TestSend, EndTestSend, RecycleCheckQueue,
           Conn, SetSocket, ConnFails, NoDescriptor, EpollWait, RcvBuffer, SyncSendBuf, EndRound,
           Reply, Break
  <2>2. QED
    BY <1>1, <2>1 DEF IoCheckQueue
<1>4. mSock'[t] # s
  <2>1. UNCHANGED mSock \/ SetSocket
    BY DEF ClientNext, Main, Recycle, Io, Server, clientVars, TestSend, EndTestSend, RecycleCheckQueue,
           Conn, ConnFails, NoDescriptor, IoCheckQueue, EpollWait, RcvBuffer, SyncSendBuf,
           EndRound, Reply, Break
  <2>2. CASE SetSocket
    <3>1. PICK n \in 1..Len(sockets) : n = connecting[2] /\ n = Len(sockets)
      BY <2>2 DEF SetSocket, SocketInv
    <3>2. s # n
      BY <2>2, <3>1 DEF SetSocket, Newest
    <3>3. mSock' = [mSock EXCEPT ![connecting[1]] = n]
      BY <2>2, <3>1 DEF SetSocket
    <3>4. QED
      BY <1>1, <3>2, <3>3 DEF SocketInv
  <2>3. QED
    BY <1>1, <2>1, <2>2
<1>5. PICK r : r = <<t, s>>
  OBVIOUS
<1>6. r \in epoll' /\ sockets'[r[2]] = "broken" /\ mSock'[r[1]] # r[2]
  BY <1>2, <1>3, <1>4, <1>5
<1>7. QED
  BY <1>6 DEF Stale

LEMMA FreshInductive ==
  ASSUME SocketInv, Fresh, [ClientNext]_clientVars
  PROVE  Stale' \/ Fresh'
<1>1. \A t \in Tasks : mSock[t] # NoSocket => mSock[t] \in 1..Len(sockets)
  <2>1. Len(sockets) \in Nat
    BY SocketSteps
  <2>2. QED
    BY <2>1 DEF SocketInv, Newest, NoSocket
<1>2. \A e \in events : e[2] \in 1..Len(sockets) /\ e[1] \in Tasks /\ mSock[e[1]] = e[2] /\ e[2] # NoSocket
  <2>1. Len(sockets) \in Nat
    BY SocketSteps
  <2>2. ASSUME NEW e \in events
        PROVE  e[2] \in 1..Len(sockets) /\ e[1] \in Tasks /\ mSock[e[1]] = e[2] /\ e[2] # NoSocket
    <3>1. e[1] \in Tasks /\ e[2] \in 1..Newest /\ <<e[1], e[2]>> \in epoll
      BY DEF SocketInv
    <3>2. PICK r \in epoll : r = <<e[1], e[2]>>
      BY <3>1
    <3>3. mSock[e[1]] = e[2]
      BY <3>2 DEF Fresh
    <3>4. QED
      BY <2>1, <3>1, <3>3 DEF Newest, NoSocket
  <2>3. QED
    BY <2>2
<1>3. CASE UNCHANGED <<mSock, recycleQueue, recycleSet, epoll, events, taskWillDel>> /\ inbox \subseteq inbox'
  <2>1. \A t \in Tasks : mSock[t] # NoSocket /\ sockets[mSock[t]] = "broken" => sockets'[mSock[t]] = "broken"
    BY <1>1, SocketSteps
  <2>2. \A e \in events : e[2] \in inbox \/ sockets[e[2]] = "broken" => e[2] \in inbox' \/ sockets'[e[2]] = "broken"
    BY <1>2, <1>3, SocketSteps
  <2>3. recycleQueue \cup recycleSet \cup taskWillDel \subseteq Tasks
    BY DEF SocketInv
  <2>4. QED
    BY <1>3, <2>1, <2>2, <2>3 DEF Fresh
<1>4. CASE RecycleCheckQueue
  <2>1. recycleSet' = recycleSet \cup recycleQueue /\ recycleQueue' = {}
        /\ UNCHANGED <<mSock, epoll, events, taskWillDel, sockets, inbox>>
    BY <1>4 DEF RecycleCheckQueue, ioVars, netVars
  <2>2. QED
    BY <2>1 DEF Fresh
<1>5. CASE SetSocket
  <2>1. PICK t \in Tasks, n \in 1..Len(sockets) :
          t = connecting[1] /\ n = connecting[2] /\ n = Len(sockets) /\ t \in recycleSet
    BY <1>5 DEF SetSocket, SocketInv
  <2>2. /\ mSock' = [mSock EXCEPT ![t] = n] /\ recycleSet' = recycleSet \ {t}
        /\ UNCHANGED <<recycleQueue, epoll, events, taskWillDel, sockets, inbox>>
    BY <1>5, <2>1 DEF SetSocket, ioVars, netVars
  <2>3. \A u \in Tasks : mSock'[u] = IF u = t THEN n ELSE mSock[u]
    BY <2>2 DEF SocketInv
  <2>4. CASE mSock[t] = NoSocket
    <3>1. t \notin recycleQueue \cup recycleSet' \cup taskWillDel
      BY <2>1, <2>2, <2>4 DEF Fresh
    <3>2. \A r \in epoll : r[1] \in Tasks /\ r[2] # NoSocket
      BY DEF SocketInv, NoSocket
    <3>3. \A r \in epoll : mSock'[r[1]] = r[2]
      BY <2>3, <2>4, <3>2 DEF Fresh
    <3>4. recycleQueue \cup recycleSet \cup taskWillDel \subseteq Tasks
      BY DEF SocketInv
    <3>5. \A u \in recycleQueue' \cup recycleSet' \cup taskWillDel' :
            mSock'[u] # NoSocket => sockets'[mSock'[u]] = "broken" /\ <<u, mSock'[u]>> \in epoll'
      BY <2>2, <2>3, <3>1, <3>4 DEF Fresh
    <3>6. \A u \in Tasks : mSock'[u] = NoSocket =>
            u \notin taskWillDel' /\ ~(u \in recycleQueue' /\ u \in recycleSet')
      BY <2>2, <2>3, <3>1 DEF Fresh
    <3>7. QED
      BY <2>2, <3>3, <3>5, <3>6 DEF Fresh
  <2>5. CASE mSock[t] # NoSocket
    <3>1. sockets[mSock[t]] = "broken" /\ <<t, mSock[t]>> \in epoll
      BY <2>1, <2>5 DEF Fresh
    <3>2. mSock[t] # n
      BY <1>5, <2>1 DEF SetSocket, SocketInv, Newest
    <3>3. PICK r : r = <<t, mSock[t]>>
      OBVIOUS
    <3>4. r \in epoll' /\ sockets'[r[2]] = "broken" /\ mSock'[r[1]] # r[2]
      BY <2>2, <2>3, <3>1, <3>2, <3>3
    <3>5. QED
      BY <3>4 DEF Stale
  <2>6. QED
    BY <2>4, <2>5
<1>6. ASSUME NEW t \in Tasks, NoDescriptor(t) PROVE Fresh'
  <2>1. recycleSet' = recycleSet \ {t}
        /\ UNCHANGED <<mSock, recycleQueue, epoll, events, taskWillDel, sockets, inbox>>
    BY <1>6 DEF NoDescriptor, ioVars, netVars
  <2>2. QED
    BY <2>1 DEF Fresh
<1>7. CASE IoCheckQueue
  <2>1. /\ epoll' = epoll \cup {<<t, mSock[t]>> : t \in {u \in ioQueue : mSock[u] # NoSocket}}
        /\ UNCHANGED <<mSock, recycleQueue, recycleSet, events, taskWillDel, sockets, inbox>>
    BY <1>7 DEF IoCheckQueue, recycleVars, netVars
  <2>2. \A r \in epoll' : mSock[r[1]] = r[2]
    BY <2>1 DEF Fresh
  <2>3. QED
    BY <2>1, <2>2 DEF Fresh
<1>8. CASE EpollWait
  <2>1. PICK R \in SUBSET epoll : events' = {<<r[1], r[2], Kind(r[2])>> : r \in R}
    BY <1>8 DEF EpollWait, kSubset
  <2>2. UNCHANGED <<mSock, recycleQueue, recycleSet, epoll, taskWillDel, sockets, inbox>>
    BY <1>8 DEF EpollWait, recycleVars, netVars
  <2>3. ASSUME NEW e \in events', e[3] = "in" PROVE e[2] \in inbox \/ sockets[e[2]] = "broken"
    <3>1. PICK r \in R : e = <<r[1], r[2], Kind(r[2])>>
      BY <2>1
    <3>2. e[2] = r[2] /\ e[3] = Kind(r[2])
      BY <3>1
    <3>3. QED
      BY <2>3, <3>2 DEF Kind
  <2>4. QED
    BY <2>2, <2>3 DEF Fresh
<1>9. ASSUME NEW e \in events, RcvBuffer(e) PROVE Fresh'
  <2>1. PICK t \in Tasks, s \in 1..Len(sockets) :
          t = e[1] /\ s = mSock[t] /\ s = e[2] /\ s # NoSocket /\ e[3] = "in" /\ <<t, s>> \in epoll
    BY <1>2, <1>9 DEF RcvBuffer, SocketInv
  <2>2. /\ events' = events \ {e}
        /\ UNCHANGED <<mSock, recycleQueue, recycleSet, epoll, sockets>>
        /\ \/ inbox' = inbox \ {s} /\ taskWillDel' = taskWillDel
           \/ inbox' = inbox /\ sockets[s] = "broken" /\ taskWillDel' = taskWillDel \cup {t}
    BY <1>9, <2>1 DEF RcvBuffer, recycleVars
  <2>3. ASSUME NEW f \in events', f[3] = "in" PROVE f[2] \in inbox' \/ sockets'[f[2]] = "broken"
    <3>1. f \in events /\ f # e
      BY <2>2
    <3>2. f[2] # s
      <4>1. PICK u \in Tasks, x \in 1..Newest, kind \in {"in", "out"} : f = <<u, x, kind>>
        BY <3>1 DEF SocketInv
      <4>2. PICK v \in Tasks, y \in 1..Newest, kind2 \in {"in", "out"} : e = <<v, y, kind2>>
        BY DEF SocketInv
      <4>3. kind = "in" /\ kind2 = "in" /\ v = t /\ y = s
        BY <2>1, <2>3, <4>1, <4>2
      <4>4. x = s => u = t
        <5>1. mSock[u] = x
          BY <1>2, <3>1, <4>1
        <5>2. QED
          BY <2>1, <5>1 DEF SocketInv
      <4>5. QED
        BY <3>1, <4>1, <4>2, <4>3, <4>4
    <3>3. QED
      BY <2>2, <2>3, <3>1, <3>2 DEF Fresh
  <2>4. \A u \in recycleQueue' \cup recycleSet' \cup taskWillDel' :
          mSock'[u] # NoSocket => sockets'[mSock'[u]] = "broken" /\ <<u, mSock'[u]>> \in epoll'
    BY <2>1, <2>2 DEF Fresh
  <2>5. \A u \in Tasks : mSock'[u] = NoSocket =>
          u \notin taskWillDel' /\ ~(u \in recycleQueue' /\ u \in recycleSet')
    BY <2>1, <2>2 DEF Fresh
  <2>6. QED
    BY <2>2, <2>3, <2>4, <2>5 DEF Fresh
<1>10. ASSUME NEW e \in events, SyncSendBuf(e) PROVE Fresh'
  <2>1. PICK t \in Tasks, s \in 1..Len(sockets) :
          t = e[1] /\ s = mSock[t] /\ s # NoSocket /\ <<t, s>> \in epoll
    BY <1>2 DEF SocketInv
  <2>2. /\ events' = events \ {e}
        /\ UNCHANGED <<mSock, recycleQueue, recycleSet, epoll, sockets, inbox>>
        /\ \/ taskWillDel' = taskWillDel
           \/ sockets[s] = "broken" /\ taskWillDel' = taskWillDel \cup {t}
    BY <1>10, <2>1 DEF SyncSendBuf, recycleVars
  <2>3. \A u \in recycleQueue' \cup recycleSet' \cup taskWillDel' :
          mSock'[u] # NoSocket => sockets'[mSock'[u]] = "broken" /\ <<u, mSock'[u]>> \in epoll'
    BY <2>1, <2>2 DEF Fresh
  <2>4. \A u \in Tasks : mSock'[u] = NoSocket =>
          u \notin taskWillDel' /\ ~(u \in recycleQueue' /\ u \in recycleSet')
    BY <2>1, <2>2 DEF Fresh
  <2>5. QED
    BY <2>2, <2>3, <2>4 DEF Fresh
<1>11. CASE EndRound
  <2>1. recycleQueue' = recycleQueue \cup taskWillDel /\ taskWillDel' = {}
        /\ UNCHANGED <<mSock, recycleSet, epoll, events, sockets, inbox>>
    BY <1>11 DEF EndRound, recycleVars, netVars
  <2>2. QED
    BY <2>1 DEF Fresh
<1>12. QED
  BY <1>3, <1>4, <1>5, <1>6, <1>7, <1>8, <1>9, <1>10, <1>11
  DEF ClientNext, Main, Recycle, Io, Server, clientVars, recycleVars, ioVars, netVars, TestSend, EndTestSend,
      Conn, ConnFails, Reply, Break

\* The io thread blocks in recv, with every other connection waiting behind it, only
\* in a client that has reconnected: for a task whose old socket, broken, is still
\* registered (MySockClientTaskPool.cpp).
THEOREM StuckNeedsStale == ClientSpec => []StuckOnlyAfterReconnect
<1>1. ClientInit => SocketInv /\ Fresh
  <2> SUFFICES ASSUME ClientInit PROVE SocketInv /\ Fresh
    OBVIOUS
  <2>1. sockets = <<>> /\ connecting = <<>> /\ Newest = 0 /\ sockets \in Seq({"open", "broken", "failed"})
    BY DEF ClientInit, Newest
  <2>2. \A t \in Tasks : mSock[t] = NoSocket
    BY DEF ClientInit
  <2>3. mSock \in [Tasks -> 0..Newest]
    BY <2>1 DEF ClientInit, NoSocket
  <2>4. epoll = {} /\ events = {} /\ taskWillDel = {} /\ recycleSet = {} /\ recycleQueue = Tasks /\ ioQueue = {}
    BY DEF ClientInit
  <2>5. QED
    BY <2>1, <2>2, <2>3, <2>4 DEF SocketInv, Fresh
<1>2. SocketInv /\ (Stale \/ Fresh) /\ [ClientNext]_clientVars => SocketInv' /\ (Stale \/ Fresh)'
  BY SocketInductive, StaleStays, FreshInductive
<1>3. SocketInv /\ (Stale \/ Fresh) => StuckOnlyAfterReconnect
  <2> SUFFICES ASSUME SocketInv, Fresh, NEW e \in events, e[3] = "in",
                      mSock[e[1]] \notin inbox, sockets[mSock[e[1]]] = "open"
               PROVE  FALSE
    BY DEF StuckOnlyAfterReconnect, StuckInRecv, Stale
  <2>1. <<e[1], e[2]>> \in epoll
    BY DEF SocketInv
  <2>2. PICK r \in epoll : r = <<e[1], e[2]>>
    BY <2>1
  <2>3. mSock[e[1]] = e[2]
    BY <2>2 DEF Fresh
  <2>4. QED
    BY <2>3 DEF Fresh
<1>4. QED
  BY <1>1, <1>2, <1>3, PTL DEF ClientSpec
=============================================================================
