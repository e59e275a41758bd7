----------------------------- MODULE MessageChannel -----------------------------
(***************************************************************************)
(* What the queue of a connection promises: a bounded channel with an      *)
(* overflow.  A message is accepted once and received once; it may go to   *)
(* the overflow only when the channel is full, or full but for the message *)
(* being received, and the overflow empties into the channel in its order. *)
(***************************************************************************)
EXTENDS Naturals, Sequences

CONSTANT Size

VARIABLES
  channel,   \* accepted and not yet received, oldest first
  overflow,  \* accepted while the channel was full, oldest first
  accepted,  \* how many messages have been accepted; they are numbered
  received   \* the messages received, in that order

channelvars == <<channel, overflow, accepted, received>>

ChannelInit ==
  /\ channel = <<>> /\ overflow = <<>> /\ received = <<>>
  /\ accepted = 0

Accept ==
  /\ Len(channel) < Size
  /\ accepted' = accepted + 1
  /\ channel' = Append(channel, accepted')
  /\ UNCHANGED <<overflow, received>>

Overflow ==
  /\ Len(channel) >= Size - 1
  /\ accepted' = accepted + 1
  /\ overflow' = Append(overflow, accepted')
  /\ UNCHANGED <<channel, received>>

Promote ==
  /\ overflow # <<>> /\ Len(channel) < Size
  /\ channel' = Append(channel, Head(overflow))
  /\ overflow' = Tail(overflow)
  /\ UNCHANGED <<accepted, received>>

Receive ==
  /\ channel # <<>>
  /\ received' = Append(received, Head(channel))
  /\ channel' = Tail(channel)
  /\ UNCHANGED <<overflow, accepted>>

ChannelSpec ==
  ChannelInit /\ [][Accept \/ Overflow \/ Promote \/ Receive]_channelvars
=============================================================================
