SPECIFICATION Spec
CONSTANTS
    Tables = {t1}
    Splits = {s1, s2}
    Agents = {a1}
    LeaseTicks = 1
    DeadlineTicks = 1
    MaxAttempts = 1
    RetryBase = 1
    RetryMax = 1
    Elastic = TRUE
    Iceberg = TRUE
    Interrupts = TRUE
    Lapses = FALSE
    MaxGen = 1
    MaxTokens = 2
    MaxTerm = 2
    MaxLease = 1
    MaxWorkerFence = 0
    MaxCreates = 2
    MaxRetries = 0
SYMMETRY Symmetry
INVARIANTS
  LatestClaimWins
  SucceededIsPublishable
  RecoveryCleansUp
PROPERTIES
  AcceptedWhileInForce
