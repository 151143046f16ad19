\* Two submissions at a time; the remote service has a public address.
SPECIFICATION Spec
CONSTANTS
  Memory <- const_Memory
  Ingests <- const_Ingests
  Lifecycles <- const_Lifecycles
  Reports <- const_Reports
  Limit = 1
  RemoteUrl = "public"
  Job <- const_Job
  MaxSubmissions = 2
  Payloads <- const_Payloads
  Worker <- const_Worker
  Toolsets <- const_Toolsets
  AllowedPriorities <- const_AllowedPriorities
  Rank <- const_Rank
  RouteRequests <- const_RouteRequests
  Providers <- const_Providers
  HasContext = TRUE
  KnownModels <- const_KnownModels
  KnownProviders <- const_KnownProviders
  Dispatcher = TRUE
  Items <- const_Items
  Plans <- const_Plans
INVARIANTS CreditedOnce PrivateStaysLocal
PROPERTIES NoResurrection Settles
