\* Three peers, a document with an author and one without, failing calls.
CONSTANTS
  NumPeers = 3
  NumDocs = 2
  Link <- Line
  Author <- LastThenNobody
  Fallback = 2
  CallsFail = TRUE
  MayRestart = FALSE
  MaxRevision <- TwoThenOne
SPECIFICATION Safe
INVARIANTS
  ConnectionsFollowLinks
