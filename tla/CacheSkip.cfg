SPECIFICATION Spec
CONSTANTS
  r1 = r1
  r2 = r2
  r3 = r3
  k1 = k1
  k2 = k2
  None = None
  Requests = {r1, r2}
  Keys = {k1}
  KeyOf <- SameKeyOf
  KindOf <- AllCachable
  MaxFailures = 0
  MaxCrashes = 0
PROPERTIES
  SkippedEntriesAreThere
\* Every request may be settled, and the process may stay down.
CHECK_DEADLOCK FALSE
