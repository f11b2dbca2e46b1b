\* Two workers, an upload and a delete request share a queue; nothing crashes.
SPECIFICATION FairSpec
CONSTANTS
  r1 = r1
  r2 = r2
  m1 = m1
  m2 = m2
  c1 = c1
  c2 = c2
  w1 = w1
  w2 = w2
  u1 = u1
  x1 = x1
  x2 = x2
  Reports = {r1, r2}
  Days = {m1}
  MaxJobs = 2
  Batch = 2
  Deliveries = {c1}
  Workers = {w1, w2}
  Uploads = {u1}
  Undos = {x1}
  Faults = FALSE
  Losses = FALSE
PROPERTIES JobsFinish QueueKeepsContract
CHECK_DEADLOCK FALSE
