\* One Agent that may be scaled to two and back, two requests in flight, a
\* second term, crash loops after two rapid restarts.
SPECIFICATION Spec
CONSTANTS
    a = a
    b = b
    Operators <- TwoRequests
    AgentCount = 1
    Targets = {1, 2}
    MaxRapid = 2
    MaxSups = 2
    MaxProcs = 3
    MaxOps = 2
    MaxTerms = 2
SYMMETRY Symmetry
INVARIANTS
  NoOrphan
  
  
CHECK_DEADLOCK FALSE
