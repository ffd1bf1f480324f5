SPECIFICATION Spec
CONSTANTS
  Base = 10
  LevelCap = 4
  SkillSlots = 1
  TraitSlots = 1
  MaxSquadSize = 2
  Neutral = "neutral"
  Blank = ""
  Chart <- MCChart
  Ceilings <- MCCeilings
  Bounds <- MCBounds
  Limits <- MCLimits
  Formation <- MCTwoCells
  Slugs <- MCSlugs
  Pictures = {"art"}
  Sessions = {"author"}
  Readers = {}
  Shipped <- MCOffered
  Powers = {0}
  Unread = "nothing"
  CharacterDrafts = {}
  OriginDrafts = {}
  SpeciesDrafts = {}
  SkillDrafts = {}
  SquadDrafts = {}
  Logs = {}
  Author = "author"
  TypedIds = {"elm"}
  TypedTitles = {"Elm"}
  TypedAffinities <- MCAffinities
  TypedLevels = {2}
  Elements = {"fire"}
  Arts = {"art"}
  Effort = 4
INVARIANTS
  WorkIsInFront
  CleanIsOnDisk
  NoTwoMembersClash
  WayBack
PROPERTY
  WorkIsKept
CHECK_DEADLOCK FALSE
