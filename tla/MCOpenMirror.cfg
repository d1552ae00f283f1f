\* One publisher that can fail anywhere; both strategies, with and without
\* prepared payloads.
SPECIFICATION FairSpec
CONSTANTS
    Keys <- TwoKeys
    Publishers = {"scheduler"}
    Strategies = {"watermark", "snapshot"}
    TokenChoices = {TRUE, FALSE}
    PageSize = 1
    MaxChanges = 2
    MaxContent = 2
    MaxFaults = 1
    MaxLoads = 1
    MaxEdits = 2
INVARIANTS
  StateMatchesLanded
PROPERTIES
  FilesAreAppended
  
