\* Two changes of the endpoints (or restarts), three clock readings; two runs of the
\* builder over two nodes, where a drop of more than a third is a collapse.
SPECIFICATION MCFleetSpec
CONSTANTS
  SourceIds = {"source"}
  Reports <- const_Reports
  MaxTime = 2
  MaxReports = 3
  ShortFor = 1
  BlockedFor = 2
  DecisionFor = 3
  Forever = 100
  Provider <- const_Provider
  Model <- const_Model
  Listings <- const_Listings
  FirstWorld <- const_FirstWorld
  FirstRows <- const_FirstRows
  Reachable = {"beelink"}
  StaticModels <- const_StaticModels
  MaxChanges = 1
  RegistryMayFail = TRUE
  Desired <- const_Desired
  Swappable = {"beelink"}
  UnloadAllowed = {"small"}
  MaxAge = 0
  Ttl = 1
  BackoffCount = 2
  BackoffFor = 2
  FleetTime = 1
  Operator = {"op1", "op2"}
  LoadsMayFail = TRUE
  Responses <- const_Responses
  MaxResponses = 3
  ConfidenceFloor = 500
  Scenes = {"models", "placement", "deployed", "signals", "evidence"}
  Node <- const_Node
  ModelKey <- const_ModelKey
  Hosted <- const_Hosted
  Run = {1, 2}
  Registries <- const_Registries
  Reviewer <- const_Reviewer
  WorkerFirst = TRUE
  NeedsReview = TRUE
  DropNum = 1
  DropDen = 3
CHECK_DEADLOCK FALSE
INVARIANTS BackoffBounded RoleIsEarned CurrentIsWhole
PROPERTIES NewestKept PublishedIsCurrent NoSilentCollapse
