\* Two routing calls and two outcomes of one payment, with Redis faults; or two syncs of
\* the account tree and a session, in two processes, with failures and deletions.
SPECIFICATION MCSpec
CONSTANTS
  d1 = d1
  d2 = d2
  o1 = o1
  o2 = o2
  o3 = o3
  g1 = g1
  p1 = p1
  p2 = p2
  m1 = m1
  m2 = m2
  org1 = org1
  s1 = s1
  s2 = s2
  w1 = w1
  n1 = n1
  n2 = n2
  Decisions = {d1, d2}
  Outcomes = {o1, o2}
  Gateways = {g1}
  Faults = TRUE
  Profiles = {p1, p2}
  HsMerchants = {m1, m2}
  Orgs = {org1}
  Root = root
  Unplaced = unplaced
  Syncs = {s1, s2}
  TreeOf <- MCTreeOf
  OrgOf <- MCOrgOf
  Walks = {w1}
  Nodes = {n1, n2}
  NodeOf <- MCNodeOf
  MaxMishaps = 1
SYMMETRY Sym
INVARIANTS FirstOnceIfUndisturbed SuccessEndsLifeIfUndisturbed
  SyncedIsReachable
PROPERTIES GrantsFollowTree
CHECK_DEADLOCK FALSE
