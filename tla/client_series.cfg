SPECIFICATION Spec
CONSTANTS
  Drafted = TRUE
  Tokens = TRUE
  Allowance = TRUE
  Battles = 2
  Turns = 2
  Picks = 2
  Dials = 1
  Redials = 0
  Patient = TRUE
  Offered <- PairingAndJoin
INVARIANTS
  AskedIsShown
CHECK_DEADLOCK FALSE
