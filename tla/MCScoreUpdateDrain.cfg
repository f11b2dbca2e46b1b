\* A drain that ends cleanly while elimination updates are still to run.
SPECIFICATION Spec
CONSTANTS
  d1 = d1
  d2 = d2
  g1 = g1
  k1 = k1
  Deliveries = {d1}
  Gateways = {g1}
  Statuses = {"success", "failure", "pending", "other"}
  ElimKeys = {k1}
  LockEnabled = TRUE
  Faults = TRUE
  MayStop = TRUE
PROPERTIES CleanDrainLosesNothing
CHECK_DEADLOCK FALSE
