------------------------------- MODULE MCFraming -------------------------------
(***************************************************************************)
(* Model checking Framing, and the mapping to the stream of packets that   *)
(* a connection promises.                                                  *)
(***************************************************************************)
EXTENDS Framing

\* The server's stream is garbled once it has repeated a part of a send.
Stream == INSTANCE PacketStream WITH
  Ends <- Peers, written <- sent, read <- delivered, garbled <- cut

\* Through two buffers, partial sends, the kernel and receptions cut anywhere, every
\* packet arrives whole, once and in order, as long as no send was interrupted.
ImplementsStream == Stream!StreamSpec
=============================================================================
