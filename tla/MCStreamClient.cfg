\* Two scenarios, a page, and other clients that ask for either.
CONSTANTS
  Page = {p1}
  Scenario = {isr, wildfire}
  None = None
  Capacity = 2
  MaxOthers = 1
  MaxSeq = 2
SPECIFICATION Spec
INVARIANTS
  Inv
  TrailsFitHeading
  ChoiceSurvives
  HandledPagesShowTheLatest
PROPERTIES
  PagesSettle
