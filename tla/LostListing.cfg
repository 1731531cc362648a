SPECIFICATION Spec
CONSTANTS
  Servers <- MCServers
  UserWrites <- MCUserWrites
  Configs <- MCConfigs
  Commands <- MCCommands
  MaxCommands = 2
  MaxUserWrites = 0
  MaxFailures = 1
INVARIANTS
  ReportedGoneIsGone
CHECK_DEADLOCK FALSE
