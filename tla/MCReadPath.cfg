\* The Python Agent, a mount and the native Agent under nine deployments.
SPECIFICATION ReadSpec
CONSTANTS
  Rows <- MCRows
  Encodings = {1, 2}
  Deployments <- MCDeployments
  MaxChanges = 2
  FolderOf <- MCFolderOf
  Images <- MCImages
  Requests <- MCRequests
  Workers = {"w1", "w2"}
  MaxInflight = 2
  MaxTotal = 3
INVARIANTS
  
  ListingIsExact
PROPERTIES
  EventuallyFresh
  NativeCatchesUp
CHECK_DEADLOCK FALSE
