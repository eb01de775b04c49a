SPECIFICATION RoutesSpec
CONSTANTS
  l1 = l1
  l2 = l2
  u1 = u1
  u2 = u2
  Urls <- TwoUrls
  Loaders <- TwoLoaders
  MaxReports = 1
INVARIANT ReportCompletes
CHECK_DEADLOCK FALSE
