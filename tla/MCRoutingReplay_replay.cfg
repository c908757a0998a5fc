SPECIFICATION Spec
CONSTANTS
  Definitions <- MCDefinitions
  IsFallback <- MCFallbacks
  ActiveSets <- MCActiveSets
  Configs <- MCConfigs
  Settings <- MCSettings
  FallbackOf <- MCFallbackOf
  Default = "plain"
  Asks <- MCAsks
  Messages <- MCMessages
  None = None
  RecentLimit = 1
  ReplayLimit = 3
  MaxMessages = 4
  MaxTime = 1
CHECK_DEADLOCK FALSE
INVARIANT ReplayPredicts
