------------------------------ MODULE PacketStream ------------------------------
(***************************************************************************)
(* What MySocket promises to the two ends of a connection: in each         *)
(* direction the packets written are read whole, once and in order, until  *)
(* the stream of a direction is garbled.  After that anything may be read. *)
(***************************************************************************)
EXTENDS Naturals, Sequences

CONSTANT Ends

VARIABLES
  written,  \* per end, how many packets it has written; they are numbered
  read,     \* per end, the packets of that end its peer has read
  garbled   \* the ends whose stream is no longer the packets they wrote

streamvars == <<written, read, garbled>>

StreamInit ==
  /\ written = [e \in Ends |-> 0]
  /\ read = [e \in Ends |-> <<>>]
  /\ garbled = {}

Write(e) == written' = [written EXCEPT ![e] = @ + 1]

Read(e) ==
  /\ Len(read[e]) < written[e]
  /\ read' = [read EXCEPT ![e] = Append(@, Len(@) + 1)]

Garble(e) ==
  /\ garbled' = garbled \cup {e}
  /\ UNCHANGED <<written, read>>

ReadGarbled(e) ==
  /\ e \in garbled
  /\ \E n \in 0..written[e] : read' = [read EXCEPT ![e] = Append(@, n)]

\* Reading a packet of one end may write one of the other: the reply.
StreamNext ==
  \E e \in Ends :
    \/ Write(e) /\ UNCHANGED <<read, garbled>>
    \/ /\ Read(e) \/ ReadGarbled(e)
       /\ UNCHANGED garbled
       /\ \/ UNCHANGED written
          \/ \E f \in Ends \ {e} : Write(f)
    \/ Garble(e)

StreamSpec == StreamInit /\ [][StreamNext]_streamvars
=============================================================================
