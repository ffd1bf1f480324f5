SPECIFICATION MirrorSpec
CONSTANTS
  Battles = 3
  TurnCap = 2
  MaxSkips = 0
  MaxTokens = 2
  DeciderHome = "host"
  Drafts = TRUE
  IssuesTokens = TRUE
  Watchable = FALSE
  Returns = 0
  Window = 1
  p1 = p1
  p2 = p2
  furthest = furthest
  last = last
  Nobody = Nobody
  NoStage = NoStage
  Pool <- TinyPool
  Names <- OneName
  Resolve <- TinyResolve
  Cells <- OneCell
  PicksPerSide = 1
  BansPerSide = 0
INVARIANTS
  MirrorInStep
  DraftInStep
  OneQuestionAtATime
CHECK_DEADLOCK FALSE
