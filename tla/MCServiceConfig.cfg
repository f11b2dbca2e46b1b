\* An operator's edit and two turns of calibration or refresh, with lookups in one
\* process and failures.
SPECIFICATION FairSpec
CONSTANTS
  s1 = s1
  e1 = e1
  k1 = k1
  k2 = k2
  n1 = n1
  n2 = n2
  earlier = earlier
  nobody = nobody
  nothing = nothing
  Segments = {s1}
  Drafts <- MCDrafts
  Edits = {e1}
  Tuners = {k1, k2}
  Nodes = {n1}
  NodeOf <- MCNodeOf
  Earlier = earlier
  Nobody = nobody
  Nothing = nothing
  Faults = TRUE
INVARIANTS OneRowUnlessRaced
PROPERTIES TuningKeepsOperatorsPart ConfigSettles
CHECK_DEADLOCK FALSE
