\* Three tankers share one reload slot and no time passes between launches
\* or on the way home: zero where the scenario file may say zero.
CONSTANTS
  NumTankers = 3
  NumCells = 1
  ReloadSlots = 1
  MaxLevel = 1
  Threshold = 0
  LaunchTicks = 0
  OnStationTicks = 2
  DropTicks = 3
  EgressTicks = 0
  ReloadTicks = 2
SPECIFICATION Spec
PROPERTIES
  ServesInOrder
  QueuedTankersReload
  MissionsComplete
