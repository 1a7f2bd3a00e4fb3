SPECIFICATION Spec
CONSTANTS
  Depth = 2
  Ratios <- MCRatios
  WaitStates = TRUE
  ReadLimit = 2
INVARIANTS TakenIsThere TakenIsServiced RatioKept
PROPERTIES RequestsServed
