\* Started with a third scenario; two requests, one for each of the others.
CONSTANTS
  Scenario = {isr, wildfire, thin_slice}
  Client = {c1, c2}
  NoFrame = NoFrame
  Capacity = 1
  TicksFail = FALSE
  MayDrop = FALSE
  MaxRun = 2
  MaxSeq = 1
SPECIFICATION Safe
INVARIANTS
  ActiveNamesTheSimulation
