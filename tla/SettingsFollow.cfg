SPECIFICATION SettingsFairSpec
CONSTANTS
  Procs <- MCProcs
  Picks <- MCPicks
  Values <- MCValues
  MaxChanges = 2
INVARIANTS
  EngineIsCurrent
  ShownIsUsed
  PlainZhuyinKept
PROPERTIES
  EngineCatchesUp
  MigrationEnds
