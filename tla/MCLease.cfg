\* Two Managers that contend for the lease, commit state records under it and
\* write queue objects through it.  A tick is longer than the TTL, so a lease
\* that was not renewed since the last tick has lapsed.
SPECIFICATION Spec
CONSTANTS
    Managers = {m1, m2}
    NoOwner = NoOwner
    StateNames = {registry}
    TTL = 0
    AcquireTries = 2
    MutateTries = 2
    MaxTime = 2
    MaxFence = 3
    MaxWrites = 1
SYMMETRY Symmetry
INVARIANTS
  LeadersHaveDistinctTerms
PROPERTIES
  StateFollowsTermOrder
  LostUpdateNeedsTermChange
