SPECIFICATION FairMirrorSpec
CONSTANTS
  Battles = 1
  TurnCap = 3
  MaxSkips = 1
  MaxTokens = 2
  DeciderHome = "host"
  Drafts = FALSE
  IssuesTokens = TRUE
  Watchable = FALSE
  Returns = 2
  Window = 2
  p1 = p1
  p2 = p2
  furthest = furthest
  last = last
  Nobody = Nobody
  NoStage = NoStage
  Pool <- TinyPool
  Names <- OneName
  Resolve <- TinyResolve
  Cells <- OneCell
  PicksPerSide = 1
  BansPerSide = 0
PROPERTIES
  ActsAnswerTheirPrompt
  ClientSeesTheEnd
CHECK_DEADLOCK FALSE
