SPECIFICATION FairSpec
CONSTANTS
  Drafted = TRUE
  Tokens = TRUE
  Allowance = TRUE
  Battles = 1
  Turns = 2
  Picks = 2
  Dials = 1
  Redials = 1
  Patient = TRUE
  Offered <- PairingAndJoin
INVARIANT
  KeystrokeIsHeard
PROPERTIES
  AnswersAreForTheirPrompt
  UpdateReturns
  LeavingEndsThePlay
CHECK_DEADLOCK FALSE
