----------------------------- MODULE MCShareMemory -----------------------------
(***************************************************************************)
(* Model checking ShareMemory: three tables whose entries have sizes that  *)
(* do not divide each other, and two configurations, each of which is the  *)
(* larger one in some table.                                               *)
(***************************************************************************)
EXTENDS ShareMemory, Sequences, TLC

MCSize == <<3, 2, 5>>
MCMax == ("small" :> <<1, 2, 1>>) @@ ("large" :> <<2, 0, 3>>)

Symmetry == Permutations(Procs)
=============================================================================
