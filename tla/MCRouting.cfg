\* One payment of any kind over four gateways and six accounts, where lists in Redis
\* may be out of reach; or two requests and an evaluation on three algorithms of two
\* kinds, with failures.
SPECIFICATION MCSpec
CONSTANTS
  g1 = g1
  g2 = g2
  g3 = g3
  g4 = g4
  a1 = a1
  a2 = a2
  a3 = a3
  a4 = a4
  a5 = a5
  a6 = a6
  b1 = b1
  b2 = b2
  p1 = p1
  r1 = r1
  r2 = r2
  e1 = e1
  earlier = earlier
  absent = absent
  Gateways = {g1, g2, g3, g4}
  Accounts = {a1, a2, a3, a4, a5, a6}
  GatewayOf <- MCGatewayOf
  Referenced = {a1, a2, a3, a4, a5}
  Flows = {"otm", "pix"}
  Enforces <- MCEnforces
  Only <- MCOnly
  Also <- MCAlso
  Faults = TRUE
  Algorithms = {b1, b2, p1}
  AlgorithmKinds = {"payment", "payout"}
  KindOf <- MCKindOf
  Requests = {r1, r2}
  Evaluations = {e1}
  Earlier = earlier
  Absent = absent
INVARIANTS GatewaysAreThoseOfAccounts RefusedStaysRefused OneAccountEach MethodIsServed
  CacheReflectsActive
PROPERTIES RunningIsLeftAlone ServedSettles
CHECK_DEADLOCK FALSE
