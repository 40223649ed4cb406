\* One switch while a stream is open; no tick fails.
CONSTANTS
  Scenario = {isr, wildfire}
  Client = {c1, c2}
  NoFrame = NoFrame
  Capacity = 2
  TicksFail = FALSE
  MayDrop = FALSE
  MaxRun = 1
  MaxSeq = 2
SPECIFICATION Safe
INVARIANTS
  SequenceIncreasesByOne
