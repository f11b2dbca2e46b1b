\* A decider reads two gateways and resets the lagging one while feedback and a
\* flush go on, at the smallest bucket size whose zeros do not all survive rounding.
SPECIFICATION Spec
CONSTANTS
  g1 = g1
  g2 = g2
  f1 = f1
  f2 = f2
  f3 = f3
  d1 = d1
  Gateways = {g1, g2}
  Feedbacks = {f1}
  Deciders = {d1}
  Sizes = {22}
  LostZeros <- SmallestLost
  RedisFaults = FALSE
INVARIANTS ListMatchesScoreKey
PROPERTIES KeepsContract
