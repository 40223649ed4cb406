\* Three tankers, one reload slot, two cells: the queue reaches length two,
\* and every timer has ticks in which it has not run.
CONSTANTS
  NumTankers = 3
  NumCells = 2
  ReloadSlots = 1
  MaxLevel = 2
  Threshold = 1
  LaunchTicks = 2
  OnStationTicks = 2
  DropTicks = 3
  EgressTicks = 2
  ReloadTicks = 2
SPECIFICATION Safe
INVARIANTS
  SlotsNeverOverbooked
  QueueHoldsOnlyWaiters
  AssignmentIsOneToOne
  StatusMatchesClaim
  LoadMatchesMission
  LaunchesAreSpaced
  FrontIsServed
  Inv
