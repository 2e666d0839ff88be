SPECIFICATION FairSpec
CONSTANT MaxHeight = 3
INVARIANTS
  SoloInv
PROPERTIES
  StaleJobAbandoned
