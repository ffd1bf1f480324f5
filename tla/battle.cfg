CONSTANTS
    Base = 10
    Scale = 12
    Rules <- MCRules
    Chart <- MCChart
    Ceilings <- MCCeilings
    Bounds <- MCBounds
    Pattern <- MCPattern
    SplashPower = 5
    MaxEffectiveHP = 40
    Nothing = "neutral"
    StatusBook <- MCStatuses
    SkillBook <- MCSkills
    PassiveBook <- MCPassives
    BonusBook <- MCBonuses
    MaxSquadSize = 5
    MaxSpendPower = 40
    MaxSpendRestore = 20
    MaxStacks = 3
    MaxCounterStacks = 5
    MaxDuration = 5
    MaxTargets = 4
    MaxSummonCount = 3
    Rosters <- Fought
    Fates <- MCFates
    MaxTurns = 8
SPECIFICATION Spec
INVARIANTS
  HealthUnderMaximum
  QueueFollowsTheUnits
  GatesMatchHealth
  SummonsLeaveInTime
PROPERTY
  ContestSpec
