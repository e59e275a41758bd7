------------------------------- MODULE MCMatching -------------------------------
EXTENDS Matching

\* The client sends every order with number 0.
ClientNumbers == [n \in OrderNo |-> {0}]
=============================================================================
