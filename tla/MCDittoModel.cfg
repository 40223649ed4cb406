\* Two peers and, between them, a waypoint that has a radio; one document of
\* each kind, links of up to two documents a tick.
CONSTANTS
  NumDocs = 3
  NumEntities = 3
  Peer = {1, 3}
  Author <- Authors
  Kind <- Kinds
  Interval = 2
  MaxBudget = 2
  MaxRevision = 3
  Renumber = FALSE
SPECIFICATION PathSpec

  
PROPERTIES
  OnlyLearnsFromHolders
  EverybodyCatchesUp
