SPECIFICATION Spec
CONSTANTS
  Commands = {"one", "two"}
  Header = {"a", "b", "s", "x"}
  Includes <- TwoOrders
  Boring = {"s"}
  OpenSsl = {"x"}
  ByMacro <- Macros
  Dir <- TwoDirs
  Nothing = "nothing"
INVARIANTS TypeOK NothingMissedSilently DiesAsNamed
PROPERTY RunEnds
CHECK_DEADLOCK FALSE
