SPECIFICATION FairSpec
CONSTANTS
  r1 = r1
  r2 = r2
  r3 = r3
  k1 = k1
  k2 = k2
  None = None
  Requests = {r1, r2, r3}
  Keys = {k1}
  KeyOf <- SameKeyOf
  KindOf <- PlainKindOf
  MaxFailures = 1
  MaxCrashes = 1
PROPERTIES
  ImplementsContract
  LookupsEnd
  StoresEnd
\* Every request may be settled, and the process may stay down.
CHECK_DEADLOCK FALSE
