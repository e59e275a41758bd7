----------------------------- MODULE MCMessageQueue -----------------------------
(***************************************************************************)
(* Model checking MessageQueue, and the mapping that shows it implements   *)
(* MessageChannel.                                                         *)
(***************************************************************************)
EXTENDS MessageQueue

\* The slot i places behind the one to read.
SlotAt(i) == (readPos + i) % QUEUE_SIZE

\* The messages in the ring from readPos on, as far as the flags stand.
Standing ==
  CHOOSE n \in 0..QUEUE_SIZE :
    /\ \A i \in 0..(n - 1) : first[SlotAt(i)]
    /\ n < QUEUE_SIZE => ~first[SlotAt(n)]

Ring == [i \in 1..Standing |-> second[SlotAt(i - 1)]]

\* Between cmdParse and the end of pop the message being taken out is received.
Unread == IF cpc \in {"pop", "clear"} THEN Tail(Ring) ELSE Ring

\* A message is accepted when pushMsg returns.
Accepted == IF ppc = "idle" THEN pushed ELSE pushed - 1

Channel == INSTANCE MessageChannel WITH
  Size <- QUEUE_SIZE,
  channel <- Unread,
  overflow <- cacheQueue,
  accepted <- Accepted,
  received <- delivered

\* The ring, the cache and the positions the two threads keep by themselves are a
\* bounded channel with an overflow: no message is lost, invented or received twice,
\* and none takes the overflow without need.
ImplementsChannel == Channel!ChannelSpec
=============================================================================
