SPECIFICATION Spec
CONSTANTS
  r1 = r1
  r2 = r2
  r3 = r3
  k1 = k1
  k2 = k2
  None = None
  Requests = {r1, r2, r3}
  Keys = {k1, k2}
  KeyOf <- TwoKeysOf
  KindOf <- CarKindOf
  MaxFailures = 1
  MaxCrashes = 1
INVARIANTS
  TypeOK
  BackendBehindLookups
  HeaderBeforeBody
  OneAnswerPerEntry
  CondemnedUnlinked
  ServedAsStored
\* Every request may be settled, and the process may stay down.
CHECK_DEADLOCK FALSE
