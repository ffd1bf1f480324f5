SPECIFICATION ForgeSpec
CONSTANTS
  Base = 10
  LevelCap = 4
  SkillSlots = 2
  TraitSlots = 1
  MaxSquadSize = 2
  Neutral = "neutral"
  Blank = ""
  Chart <- MCChart
  Ceilings <- MCCeilings
  Bounds <- MCBounds
  Limits <- MCLimits
  Formation <- MCFormation
  Slugs <- MCSlugs
  Pictures = {"art"}
  Sessions = {"author", "reader"}
  Readers = {"reader"}
  Shipped <- MCShipped
  Powers = {0, 1, 2, 3}
  Unread = "nothing"
  CharacterDrafts <- MCCharacterDrafts
  OriginDrafts <- MCOriginDrafts
  SpeciesDrafts <- MCSpeciesDrafts
  SkillDrafts <- MCSkillDrafts
  SquadDrafts <- MCSquadDrafts
  Logs = {"first-vs-first"}
INVARIANTS
  DirectoryLoads
  LibraryIsTheDirectory
PROPERTY
  NothingElseIsLost
CHECK_DEADLOCK FALSE
