\* The signals alone.
SPECIFICATION FleetSpec
CONSTANTS
  SourceIds = {"source"}
  Reports <- const_Reports
  MaxTime = 2
  MaxReports = 3
  ShortFor = 1
  BlockedFor = 2
  DecisionFor = 3
  Forever = 100
  Provider <- const_Provider
  Model <- const_Model
  Listings <- const_Listings
  FirstWorld <- const_FirstWorld
  FirstRows <- const_FirstRows
  Reachable = {"beelink"}
  StaticModels <- const_StaticModels
  MaxChanges = 1
  RegistryMayFail = TRUE
  Desired <- const_Desired
  Swappable = {"beelink"}
  UnloadAllowed = {"small"}
  MaxAge = 0
  Ttl = 1
  BackoffCount = 2
  BackoffFor = 2
  FleetTime = 1
  Operator = {"op1", "op2"}
  LoadsMayFail = TRUE
  Responses <- const_Responses
  MaxResponses = 3
  ConfidenceFloor = 500
  Scenes = {"signals"}
CHECK_DEADLOCK FALSE
INVARIANTS SignalsAreFound
