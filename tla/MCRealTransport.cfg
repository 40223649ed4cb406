\* Three peers, a document with an author and one without, failing calls.
CONSTANTS
  NumPeers = 3
  NumDocs = 2
  Link <- Line
  Author <- LastThenNobody
  Fallback = 2
  CallsFail = TRUE
  MayRestart = TRUE
  MaxRevision <- TwoThenOne
SPECIFICATION Spec
INVARIANTS
  TypeOK
  ConvergedIsLatest
  ConnectionsFollowAppliedLinks
PROPERTIES
  ReplicasStay
  OnlyLearnsFromHolders
  RevisionsAreWritten
