SPECIFICATION Spec
CONSTANTS
  g1 = g1
  g2 = g2
  Gateways <- TwoGateways
  Registered <- Discovering
  Affinities = {0, 1}
  MaxRate = 2
  MaxThresh = 3
INVARIANTS
  TypeOK
  BigChangesAreSaved
  LastIsWhatGetsSaved
  GatewaysOnlyGrow
