CONSTANTS
    None = None
    BackendOf <- MCBackends
    Deployments <- MCDeployments
    Ttl = 2
    MaxClock = 5
    MaxEvents = 4
SPECIFICATION Spec
INVARIANTS
  KeysFreshWithinTtl
  RestoreIsWhole
PROPERTIES
  SaveSurvivesRestart
CHECK_DEADLOCK FALSE
