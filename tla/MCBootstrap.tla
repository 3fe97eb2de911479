---------------------------- MODULE MCBootstrap ----------------------------
(* Bootstrap for TLC: every contract is known, or all but one or two.       *)
EXTENDS Bootstrap

Builds == {"app.build", "api.build"}

MCContracts ==
  {Functions, Functions \ Builds} \cup
  {Functions \ {f, g} : f \in Functions \ Builds, g \in Functions \ Builds}
=============================================================================
