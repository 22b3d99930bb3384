CONSTANTS
  MaxVersion = 3
  Misbuilt = {}
  Unrunnable = {3}
  MaxFiles = 3
  MaxBackups = 2
  MaxFaults = 1
SPECIFICATION FairSpec
CHECK_DEADLOCK FALSE
INVARIANTS ExecutableSurvives RollbackIsReady NoStrayFile
PROPERTIES ShutdownsEnd RestartRequiredSticks BackupsAreKept NeverDowngrades
