\* Two generations of one table, an Agent that may never answer, one operator retry.
SPECIFICATION FairSpec
CONSTANTS
    Tables = {t1}
    Splits = {s1}
    Agents = {a1}
    LeaseTicks = 1
    DeadlineTicks = 1
    MaxAttempts = 1
    RetryBase = 1
    RetryMax = 1
    Elastic = TRUE
    Iceberg = FALSE
    Interrupts = FALSE
    Lapses = TRUE
    MaxGen = 2
    MaxTokens = 2
    MaxTerm = 1
    MaxLease = 1
    MaxWorkerFence = 0
    MaxCreates = 1
    MaxRetries = 1
INVARIANTS
  SnapshotIsOneRequest
PROPERTIES
  
  SnapshotNeverGoesBack
