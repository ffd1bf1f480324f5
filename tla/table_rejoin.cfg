SPECIFICATION TableSpec
CONSTANTS
  Battles = 1
  TurnCap = 2
  MaxSkips = 0
  MaxTokens = 2
  DeciderHome = "guest"
  Drafts = FALSE
  IssuesTokens = TRUE
  Watchable = TRUE
  p1 = p1
  p2 = p2
  furthest = furthest
  last = last
  Nobody = Nobody
  NoStage = NoStage
  Pool <- TinyPool
  Names <- OneName
  Resolve <- TinyResolve
  Cells <- OneCell
  PicksPerSide = 1
  BansPerSide = 0
  c1 = c1
  c2 = c2
  c3 = c3
  c4 = c4
  Absent = Absent
  Conns <- ThreeConns
  MaxTables = 1
  MaxWatchers = 1
  Timings <- HostServes
SYMMETRY Alike
INVARIANTS
  SeatIsAccountedFor
  ClockFollowsTheRoom
  SeatedSeeTheMatch
PROPERTIES
  WatchersMissNothing
  NobodySittingIsReported
CHECK_DEADLOCK FALSE
