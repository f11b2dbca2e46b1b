\* Two deliveries of one payment race for the locks under fair scheduling; Redis and
\* the merchant table may fail, the server may stop.
SPECIFICATION FairSpec
CONSTANTS
  d1 = d1
  d2 = d2
  g1 = g1
  k1 = k1
  Deliveries = {d1, d2}
  Gateways = {g1}
  Statuses = {"success", "pending"}
  ElimKeys = {k1}
  LockEnabled = TRUE
  Faults = TRUE
  MayStop = TRUE
INVARIANTS OneEntryPerClass LockMeansClassified
PROPERTIES Settles HolderFinishes
CHECK_DEADLOCK FALSE
