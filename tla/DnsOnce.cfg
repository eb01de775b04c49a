SPECIFICATION NetSpec
CONSTANTS
  k1 = k1
  k2 = k2
  k3 = k3
  h1 = h1
  h2 = h2
  Lookups <- ThreeLookups
  Hosts <- TwoHosts
  MaxResults = 1
  MaxLost = 1
  r1 = r1
  r2 = r2
  Null = Null
  Requests <- TwoRequests
  Codes <- TwoCodes
INVARIANT DoneCalledOnce
\* Everything asked for may be answered.
CHECK_DEADLOCK FALSE
