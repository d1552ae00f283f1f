CONSTANTS
    None = None
    Managers = {"m1", "m2"}
    Primary = "east"
    Replicas = {"near", "west"}
    LocationOf <- MCLocations
    Deployments <- MCDeployments
    MaxClock = 3
    MaxGenerations = 2
    Nil = Nil
    Clients = {"c", "d"}
    Roots = {"lease"}
    RecordKeys = {"r", "s"}
    Immutables = {"i"}
    Plain = {"p"}
    Contents = {"a1", "a2", "b1"}
    TokenOf <- MCTokenOf
    Batches <- MCBatches
    Backends = {"memory", "local", "azure", "s3", "gcs"}
    MaxCalls = 2
SPECIFICATION MCSpec
INVARIANTS
  PointersAreWhole
  
PROPERTIES
  CatalogIsFenced
  LandsAsChecked
CHECK_DEADLOCK FALSE
