--------------------------- MODULE MCGraphRunner ---------------------------
(* GraphRunner on graphs of a few interchangeable nodes. *)
EXTENDS GraphRunner

NodeSymmetry == Permutations(Nodes)
=============================================================================
