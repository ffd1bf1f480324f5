SPECIFICATION Spec
CONSTANTS
  fork = fork
  c1 = c1
  c2 = c2
  c3 = c3
  c4 = c4
  c5 = c5
  furthest = furthest
  left = left
  last = last
  Nobody = Nobody
  NoStage = NoStage
  Pool <- Pool6
  Names <- BothNames
  Resolve <- Resolve6
  Cells <- TwoCells
  PicksPerSide = 2
  BansPerSide = 1
  First = "host"
SYMMETRY Plain
INVARIANTS
  NeverDry
  Exclusive
  SecretUntilBoth
CHECK_DEADLOCK FALSE
