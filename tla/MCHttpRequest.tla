--------------------------- MODULE MCHttpRequest ---------------------------
(* HttpRequest for TLC: the requests are interchangeable. *)
EXTENDS HttpRequest, TLC

Symmetry == Permutations(Requests)
=============================================================================
