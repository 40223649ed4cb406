\* Two clients, up to two switches, receivers that lag, ticks that fail (for
\* ever, but for what SnapshotsSettle and StreamsSettle assume), handlers that
\* are dropped.
CONSTANTS
  Scenario = {isr, wildfire}
  Client = {c1, c2}
  NoFrame = NoFrame
  Capacity = 2
  TicksFail = TRUE
  MayDrop = TRUE
  MaxRun = 2
  MaxSeq = 2
SPECIFICATION StartedSpec
INVARIANTS
  TypeOK
  OnlyInitialIsLate
  StreamsShowTheSnapshot
  ActiveFollowsLoneSwitches
PROPERTIES
  SnapshotsSettle
  StreamsSettle
