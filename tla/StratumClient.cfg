SPECIFICATION FairSpec
CONSTANTS
  Ladder <- WholeLadder
  Variants <- SomeVariants
  Auths = 2
  Forms <- TwoForms
  MaxShares = 1
  MaxSent = 2
  MaxWire = 2
INVARIANTS
  StratumClientInv
  VerdictsAreTrue
  LoginSettles
PROPERTIES
  ImplementsSession
  CallsReturn
CHECK_DEADLOCK FALSE
