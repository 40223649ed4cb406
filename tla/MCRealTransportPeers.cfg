\* Three peers, a document with an author and one without, no failures.
CONSTANTS
  NumPeers = 3
  NumDocs = 2
  Link <- Line
  Author <- LastThenNobody
  Fallback = 2
  CallsFail = FALSE
  MayRestart = FALSE
  MaxRevision <- TwoThenOne
SPECIFICATION Safe
INVARIANTS
  PeerConvergedMeansLatest
