\* Which Agent a task is given to, under every policy revision and across passes.
CONSTANTS
    None = None
    Agents <- MCAgents
    Tasks <- MCTasks
    Documents <- MCDocuments
    Deployments <- MCDeployments
SPECIFICATION Spec
INVARIANTS
  ClaimsStayInside
  ClaimsWithinLimits
PROPERTIES
  PolicyNeverRollsBack
CHECK_DEADLOCK FALSE
