\* Two updates and two deciders on two merchants' keys and one shared key, with failures.
SPECIFICATION Spec
CONSTANTS
  m1 = m1
  m2 = m2
  g1 = g1
  t1 = t1
  t2 = t2
  d1 = d1
  d2 = d2
  Merchants = {m1, m2}
  GlobalKeys = {g1}
  Tasks = {t1, t2}
  Deciders = {d1, d2}
  Top = 2
  RewardStep = 1
  Threshold = 2
  MaxCount = 1
  Limits = {1, 2}
  HardTtl = 3
  Margin = 1
  SoftTtl = 1
  MaxTime = 4
  Faults = TRUE
SYMMETRY Sym
INVARIANTS LowScoreIsCounted CountedOnce
PROPERTIES RecordOutlivesItsTtl ResetsAreSpaced
CHECK_DEADLOCK FALSE
