\* Two workers, an upload, two deliveries and a delete request over two reports and a
\* day, with failures.
SPECIFICATION Spec
CONSTANTS
  r1 = r1
  r2 = r2
  m1 = m1
  m2 = m2
  c1 = c1
  c2 = c2
  w1 = w1
  w2 = w2
  u1 = u1
  x1 = x1
  x2 = x2
  Reports = {r1, r2}
  Days = {m1}
  MaxJobs = 2
  Batch = 2
  Deliveries = {c1, c2}
  Workers = {w1, w2}
  Uploads = {u1}
  Undos = {x1}
  Faults = TRUE
  Losses = TRUE
SYMMETRY Sym
INVARIANTS OneRunPerJob ReportQueuedOnce AckedMeansQueued BucketsHaveAJob
CHECK_DEADLOCK FALSE
