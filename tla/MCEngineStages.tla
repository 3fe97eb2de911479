--------------------------- MODULE MCEngineStages ---------------------------
(* EngineStages for TLC: the requests are interchangeable. *)
EXTENDS EngineStages, TLC

Symmetry == Permutations(Requests)
=============================================================================
