SPECIFICATION Spec
CONSTANTS
  Tracked = {"m", "DEPS", ".electron.gni"}
  Added = {"a", "n/x"}
  NewDir = {"n/x"}
  Drifted = {"DEPS"}
  Hidden = {".electron.gni"}
  Unnamed = {"DEPS"}
  Foreign = {".electron.gni"}
  Hunk = {"ipfs", "more"}
  Telltale = {"ipfs"}
  Telling = {}
  Version = {"near", "also", "tag"}
  Tag = "tag"
  Distance <- MCDistance
  NameLength <- MCNameLength
  Listed <- MCListed
  Shipped <- MCShipped
  Upstream <- MCUpstream
  MaxDev = 2
  MaxKills = 1
  Source = {"f"}
  Text = {"v1", "v2"}
  FirstText = "v1"
INVARIANTS TypeOK FinishedMeansInEffect RecordingComesBack
  BuildSeesSources GnKnowsTheList LibraryIsWhole SetUpGapsAreCuts
PROPERTIES ApplyKeepsWork RerunChangesNothing
CHECK_DEADLOCK FALSE
