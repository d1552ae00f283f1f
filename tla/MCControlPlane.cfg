SPECIFICATION Spec
CONSTANTS
    Managers = {m1, m2}
    Nobody = Nobody
    Agents = {a1}
    Drain = Drain
    Deliveries <- OneClaim
    MaxDone = 1
    PromptLoops = TRUE
    MaxTerm = 2
    MaxLease = 2
    MaxDrains = 1
SYMMETRY Symmetry
INVARIANTS
  
  RunsOnce
  CommandsStayWithLease
