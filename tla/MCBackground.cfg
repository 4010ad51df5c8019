CONSTANTS
  r1 = r1
  r2 = r2
  s1 = s1
  Requests <- MCRequests
  Streams <- MCStreams
  NTasks = 3
  Optional <- MCOptional
  Eager <- MCEager
  Samples <- MCSamples
  Window = 2
  Duration = 2
  Modes <- MCModes
  MaxFaults = 1
  e1 = e1
  e2 = e2
  e3 = e3
  Endpoints <- MCEndpoints
  Kinds <- MCKinds
  ExoHint <- MCExoHint
  HasLlm = TRUE
  Answers <- MCAnswers
  Configured <- MCConfigured
  Ports <- MCPorts
  LocalIp <- MCLocalIp
  SubnetSize = 4
  SubnetScan = TRUE
  Serves <- MCServes
  Hints <- MCHints
  MaxProbes = 2
SPECIFICATION MCSpec
INVARIANTS
  TasksOutliveResponses
  NoResponseIsCut
  AlertsHaveACause
  EventsTellTheCache
  FoundOnce
PROPERTIES
  StopsOnceClientsLeave
  PressureIsRaised
CHECK_DEADLOCK FALSE
