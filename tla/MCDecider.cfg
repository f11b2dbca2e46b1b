\* One payment over three gateways, any of them offered, out or eliminated; rates
\* around those of a penalised gateway.
SPECIFICATION Spec
CONSTANTS
  g1 = g1
  g2 = g2
  g3 = g3
  NoGateway = NoGateway
  Gateways = {g1, g2, g3}
  Name <- MCName
  Lists <- MCLists
  SrScores = {250000, 225000, 45000}
  CostTables <- MCCostTables
  Margins = {0, 50, 1000}
INVARIANTS EligibleUnlessOut PenaltiesNeverPromote HedgedStaysHedged PromotionSavesCost
CHECK_DEADLOCK FALSE
