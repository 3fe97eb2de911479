----------------------------- MODULE MCAdapter -----------------------------
(* Adapter for TLC: a pair of instants in order and one out of order.  They *)
(* are as wide as a run, so that a generation that starts later rejects the *)
(* first, and one that has just started rejects it as lying in the future.  *)
EXTENDS Adapter, TLC

MCInstants == {<<0, 1>>, <<1, 0>>}

MCClocks == {[before |-> -1, wall |-> 0, after |-> 1]}

Symmetry == Permutations(Calls) \cup Permutations(Ids) \cup Permutations(Seqs)
=============================================================================
