\* Two peers, a link that is up but carries one document a tick.
CONSTANTS
  NumDocs = 2
  NumEntities = 2
  Peer = {1, 2}
  Author <- TwoAuthors
  Kind <- TwoKinds
  Interval = 1
  MaxBudget = 1
  MaxRevision = 2
  Renumber = TRUE
SPECIFICATION PathSpec
PROPERTIES
  TaskingArrives
