SPECIFICATION FairRegistrySpec
CONSTANTS
  h1 = h1
  h2 = h2
  c1 = c1
  c2 = c2
  p1 = p1
  p2 = p2
  w1 = w1
  w2 = w2
  NoHandle = NoHandle
  Codes <- TwoCodes
  Handles <- TwoRooms
  Callers <- TwoCallers
  Closers <- TwoClosers
  Waiters <- OneWaiter
INVARIANT
  CodeIsItsRooms
PROPERTIES
  UnknownMeansGone
  CallersAreAnswered
CHECK_DEADLOCK FALSE
