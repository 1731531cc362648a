SPECIFICATION Spec
CONSTANTS
  Servers <- MCServers
  UserWrites <- MCUserWrites
  Configs <- MCConfigs
  Commands <- MCCommands
  MaxCommands = 4
  MaxUserWrites = 1
  MaxFailures = 1
INVARIANTS
  BenchIsRecognized
  RestoredAsRecorded
  DriftIsExact
  
PROPERTIES
  BenchSparesOthers
CHECK_DEADLOCK FALSE
