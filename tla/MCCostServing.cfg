\* An ingestion and a deletion of an earlier one, or two edits of overrides, with a
\* ticker, over two days, and one statement that fails.
SPECIFICATION MCSpec
CONSTANTS
  m1 = m1
  m2 = m2
  c1 = c1
  c2 = c2
  k1 = k1
  k2 = k2
  i0 = i0
  i1 = i1
  i2 = i2
  x1 = x1
  e1 = e1
  e2 = e2
  tick = tick
  Merchants = {m1, m2}
  Clusters = {c1}
  Connectors = {k1}
  Ingests = {i0, i1}
  Before = {i0}
  Undos = {x1}
  Editors = {e1, e2}
  Ticker = tick
  Capped = {i1}
  Sparse = {}
  MaxChunks = 2
  MaxDay = 2
  MaxFaults = 1
INVARIANTS  OverridesAreListed
PROPERTIES ServedCatchesUp
CHECK_DEADLOCK FALSE
