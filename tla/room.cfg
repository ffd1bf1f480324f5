SPECIFICATION ClockSpec
CONSTANTS
  Battles = 3
  TurnCap = 2
  MaxSkips = 1
  MaxTokens = 4
  DeciderHome = "guest"
  Drafts = TRUE
  IssuesTokens = TRUE
  Watchable = TRUE
  c1 = c1
  c2 = c2
  c3 = c3
  c4 = c4
  furthest = furthest
  last = last
  Nobody = Nobody
  NoStage = NoStage
  Pool <- TinyPool
  Names <- OneName
  Resolve <- TinyResolve
  Cells <- OneCell
  PicksPerSide = 1
  BansPerSide = 0
INVARIANTS
  NeverStuck
  RecordIsTheMatch
PROPERTIES
  SeatsKeepTheirHolders
  MatchSpec
  EveryMatchEnds
CHECK_DEADLOCK FALSE
