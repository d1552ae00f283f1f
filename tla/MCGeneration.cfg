SPECIFICATION Spec
CONSTANTS
    Coordinators = {1, 2}
    Workers = {11}
    Splits = {0, 1}
    Deployments <- MCDeployments
    MaxVersion = 2
INVARIANTS
  DeclaredBytesAreServed
  ImageIsWhole
PROPERTIES
  CurrentNeverRewinds
  BuildRecovers
CHECK_DEADLOCK FALSE
