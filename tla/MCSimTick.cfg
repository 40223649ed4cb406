\* A scout that searches, a relay and a base.
CONSTANTS
  NumEntities = 3
  Radio <- Radios
  Nodes = {7, 40, 90, 91}
  PhyReach = 1
  Scenario <- Scenarios
  Options <- OneFault
  Length = 3
  UpdateInterval = 2
  CotInterval = 2
  Period = 2
SPECIFICATION Spec
INVARIANTS
  TypeOK
  WaypointsExist
  EventsExplainLinks
  LinksFitPositions
  UnauthorizedStay
PROPERTIES
  ExportsCrossLinks
  RelayFollowsFrames
  SearchesCover
