SPECIFICATION CyclesSpec
CONSTANTS
  None = None
  Named = {"lake", "mart"}
  Providers = {"default", "mart"}
  Tokenizing = {"default"}
  NeedsKey = {"mart"}
  Buckets = {"share", "vault", "warehouse"}
  Updates <- MCUpdates
  MountSets <- MCMountSets
  TargetSets <- MCTargetSets
  Deployments <- MCDeployments
  Ids = {"sales", "parts"}
  Files = {"f1", "f2", "f3"}
  Undated = {"f3"}
  MaxFaults = 1
  MaxStops = 1

  
PROPERTIES
  ApplySurvivesRestart
  UpkeepIsHarmless
CHECK_DEADLOCK FALSE
