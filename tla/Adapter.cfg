\* Two calls of generate() of two sequences each, with ids of their own or the
\* same one, in one HTTP request or outside of any.
SPECIFICATION Spec
CONSTANTS
  Calls = {c1, c2}
  Ids = {i1, i2}
  Https = {h1}
  Seqs = {s1, s2}
  Instants <- MCInstants
  Clocks <- MCClocks
  MaxTime = 1
  None = None
INVARIANTS
  TypeOK
  NoStaleEntry
  Correlated
  ReportedInFull
  InsideGeneration
  
PROPERTIES
  EndedIsFrozen
SYMMETRY Symmetry
CHECK_DEADLOCK FALSE
