\* Two feedback tasks and a decider race on one gateway, with Redis faults, a
\* resize and a flush.
SPECIFICATION Spec
CONSTANTS
  g1 = g1
  g2 = g2
  f1 = f1
  f2 = f2
  f3 = f3
  d1 = d1
  Gateways = {g1}
  Feedbacks = {f1, f2}
  Deciders = {d1}
  Sizes = {1, 2}
  LostZeros = {}
  RedisFaults = TRUE
SYMMETRY Sym
INVARIANTS WindowIsNewest ScoreExplained
PROPERTIES WipeOnlyWhenMisled
