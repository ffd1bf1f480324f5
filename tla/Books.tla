------------------------------- MODULE Books -------------------------------
(***************************************************************************)
(* What the books of content refuse when they are loaded: the validators   *)
(* of status, pattern, skill and passive, as predicates on what a battle   *)
(* is played with.  A battle is only ever played with books they let       *)
(* through, so the model assumes them, and TLC checks that the content of  *)
(* the runs satisfies them.                                                *)
(***************************************************************************)
EXTENDS Battle

CONSTANTS MaxStacks,            \* of any status ...
          MaxCounterStacks,     \* ... and of a counter
          MaxDuration,
          MaxTargets,           \* the cells a shape may cover
          MaxSummonCount

-----------------------------------------------------------------------------
(* The records content is made of.                                         *)

GateType == [below : 0..Base, above : 0..Base]
ScalingType == [stat : Stat \ {"hp"}, source : {"base", "current"}]
TermType == [target : Stat \cup {"affinity"}, mode : {"flat", "percent"}, amount : Int]
KindType ==
    [category : Categories, maxStacks : Nat, duration : Nat, permanent : BOOLEAN,
     tickPower : Nat, healShare : Int, poolPower : Nat, pierce : 0..Base, ward : 0..Base,
     modifiers : Seq(TermType)]
ApplicationType == [status : DOMAIN StatusBook, chance : 1..Base, stacks : Nat \ {0}]
ConditionType ==
    [status : DOMAIN StatusBook \cup {""}, minStacks : Nat, belowHealth : 0..Base,
     belowStacks : Nat, gates : BOOLEAN, bonusPower : Nat, consume : BOOLEAN,
     consumeStacks : Nat, chains : BOOLEAN, arcPower : Nat, stackPower : 0..MaxSpendPower,
     stackRestore : 0..MaxSpendRestore, applies : Seq(ApplicationType)]
SummonType ==
    [count : 0..MaxSummonCount, share : 0..Base, shareOfBase : 0..Base, stats : [Stat -> Nat],
     affinity : Element \cup {""}, skills : Seq(DOMAIN SkillBook), lasts : Nat, bound : BOOLEAN,
     splits : 0..Base-1]
SkillType ==
    [element : Element, range : 0..FormationCols, pattern : DOMAIN Pattern, power : Nat,
     strikes : Nat, repeat : 0..Base, maxStrikes : Nat, accuracy : 0..Base, pierce : 0..Base,
     unblockable : BOOLEAN, crit : 0..Base, scaling : ScalingType,
     applies : Seq(ApplicationType), selfApplies : Seq(ApplicationType),
     requires : ConditionType, selfRequires : ConditionType, selfGradient : Nat,
     strips : [categories : SUBSET Categories, stacks : Nat], restrict : SUBSET Element,
     summons : SummonType, restores : Nat, drains : 0..Base, cost : 0..Base-1, cooldown : Nat,
     target : {"enemy", "ally", "self", "all"}]
GrantType ==
    [status : DOMAIN StatusBook, stacks : Nat \ {0}, power : Nat, scaling : Stat, while : GateType]
ReplyType == [power : Nat, scaling : ScalingType, applies : Seq(ApplicationType)]
PassiveShape(p) ==
    /\ p.grants \in Seq(GrantType) /\ p.replies \in ReplyType /\ p.while \in GateType
    /\ p.applies \in Seq(ApplicationType) /\ p.renews \in Seq(ApplicationType)
    /\ p.drains \in 0..Base /\ p.converts \in 0..Base /\ p.spares \in 0..Base

AwardType == [status : DOMAIN StatusBook, stacks : Nat \ {0}]
BonusType ==
    [axis : {"element", "column"}, value : STRING, scope : {"squad", "sharers"},
     rungs : Seq([at : Nat, grants : Seq(AwardType)])]
EntryType ==
    [side : Side, slot : (0..FormationCols-1) \X (0..Rows-1), affinity : Seq(Element),
     base : [Stat -> Int], skills : Seq(DOMAIN SkillBook), passives : Seq(DOMAIN PassiveBook)]

-----------------------------------------------------------------------------
(* What the validators ask beyond that.                                    *)

RulesHold ==
    /\ Rules.defenseConstant > 0 /\ Rules.minimumDamage >= 0 /\ Rules.criticalMultiplier > Base
    /\ 0 < Rules.minHitChance /\ Rules.minHitChance < Base

\* How long a status lasts and how high it stacks.
ValidLife(kind) ==
    LET cap == IF Counter(kind.category) THEN MaxCounterStacks ELSE MaxStacks IN
    /\ kind.maxStacks \in 1..cap
    /\ IF kind.permanent THEN kind.duration = 0 /\ kind.category \notin {"dot", "regen"}
       ELSE kind.duration \in 1..MaxDuration

\* What it does, which is what its category does and nothing else.
ValidWork(kind) ==
    /\ IF kind.category \in {"dot", "regen"} THEN kind.tickPower > 0 ELSE kind.tickPower = 0
    /\ CASE kind.category = "heal_cut"  -> kind.healShare \in (-Base)..(-1)
         [] kind.category = "heal_mend" -> kind.healShare \in 1..Base
         [] OTHER -> kind.healShare = 0
    /\ IF kind.category = "absorb" THEN kind.poolPower > 0 ELSE kind.poolPower = 0

\* A counter that is spent changes nothing while it is held; and health is only ever
\* raised, for good.
ValidModifiers(kind) ==
    LET terms == ToSet(kind.modifiers) IN
    /\ Counter(kind.category) => kind.ward = 0 /\ kind.pierce = 0 /\ terms = {}
    /\ \A term \in terms :
          /\ ValidTerm(term) /\ term.target # "affinity"
          /\ term.target = "hp" => kind.permanent /\ term.amount > 0

ValidKind(kind) == kind \in KindType /\ ValidLife(kind) /\ ValidWork(kind) /\ ValidModifiers(kind)

ValidPattern(splash) ==
    /\ 1 + Len(splash) <= MaxTargets
    /\ \A k \in DOMAIN splash : splash[k] # <<>> /\ ToSet(splash[k]) \subseteq DOMAIN Step

ValidApplications(applications) ==
    /\ \A k, l \in DOMAIN applications :
          applications[k].status = applications[l].status => k = l
    /\ \A k \in DOMAIN applications :
          applications[k].stacks <= Kind(applications[k].status).maxStacks

\* A condition asks something that can be met ...
ValidQuestion(c, ofTarget) ==
    LET cap == Kind(c.status).maxStacks IN
    /\ Declared(c)
    /\ IF c.status = "" THEN c.minStacks = 0 /\ c.belowStacks = 0
       ELSE /\ c.minStacks <= cap /\ c.belowStacks <= cap
            /\ c.belowStacks > 0 => c.minStacks < c.belowStacks
            /\ c.belowStacks = 0 => c.minStacks > 0
    /\ c.gates => c.status # "" /\ ~ofTarget /\ (c.consume \/ c.belowStacks > 0)

\* ... is asked of the unit that can answer it, and never pays without being paid for ...
ValidSides(c, ofTarget) ==
    /\ IF ofTarget THEN c.stackPower = 0 /\ c.stackRestore = 0
       ELSE ~c.chains /\ c.arcPower = 0 /\ c.applies = <<>>
    /\ ~c.consume => /\ c.consumeStacks = 0 /\ c.stackPower = 0 /\ c.stackRestore = 0
                     /\ ~c.chains /\ c.arcPower = 0

\* ... and buys something with what it takes, once, in one coin.
ValidPrice(c) ==
    LET coins == <<c.bonusPower, c.arcPower, c.stackPower, c.stackRestore>>
        paid == {n \in DOMAIN coins : coins[n] # 0}
    IN  /\ Cardinality(paid) <= 1
        /\ c.consume => c.status # "" /\ (c.gates \/ paid # {} \/ c.applies # <<>>)

ValidCondition(c, ofTarget) ==
    \/ ~Declared(c) /\ ~c.gates /\ ~c.consume /\ c.bonusPower = 0 /\ c.applies = <<>>
    \/ /\ ValidQuestion(c, ofTarget) /\ ValidSides(c, ofTarget) /\ ValidPrice(c)
       /\ ValidApplications(c.applies)

\* A summons says once what it is made of, knows something, and cannot summon in turn.
ValidSummons(s) ==
    \/ s.count = 0
    \/ /\ s.share = 0 \/ s.shareOfBase = 0
       /\ s.skills # <<>> /\ IsInjective(s.skills)
       /\ \A n \in DOMAIN s.skills : SkillBook[s.skills[n]].summons.count = 0
       /\ s.splits * s.count < Base

\* What a skill does: something, and with a blow only what a blow can do.
ValidEffect(k) ==
    LET strikes == IF k.strikes < 1 THEN 1 ELSE k.strikes IN
    /\ \/ k.power > 0 \/ k.applies # <<>> \/ k.selfApplies # <<>> \/ k.strips.stacks > 0
       \/ k.restores > 0 \/ k.summons.count > 0 \/ k.selfRequires.stackRestore > 0
    /\ k.power = 0 => /\ k.drains = 0 /\ k.repeat = 0 /\ k.pierce = 0 /\ ~k.unblockable
                      /\ k.crit = 0 /\ k.requires.arcPower = 0
    /\ k.power > 0 => k.accuracy > 0
    /\ k.cost > 0 => \/ k.power > 0 \/ k.restores > 0 \/ k.applies # <<>> \/ k.selfApplies # <<>>
                     \/ k.strips.stacks > 0 \/ k.summons.count > 0
    /\ IF k.repeat > 0 THEN k.maxStrikes > strikes ELSE k.maxStrikes = 0
    /\ k.target = "enemy" => k.restores = 0 /\ k.selfRequires.stackRestore = 0

\* Whom it reaches, and what it reads.
ValidReach(k) ==
    /\ IF k.target = "self" THEN k.range = 0 /\ Pattern[k.pattern] = <<>>
       ELSE k.range >= 1
    /\ k.target = "self" => k.selfRequires.bonusPower = 0
    /\ k.strips.categories = {} <=> k.strips.stacks = 0

ValidGradient(k) ==
    k.selfGradient > 0 => k.power > 0 /\ k.target # "self" /\ k.selfRequires.belowHealth = 0

ValidSkill(k) ==
    /\ k \in SkillType /\ ValidEffect(k) /\ ValidReach(k) /\ ValidGradient(k) /\ ValidSummons(k.summons)
    /\ ValidApplications(k.applies) /\ ValidApplications(k.selfApplies)
    /\ ValidCondition(k.requires, TRUE) /\ ValidCondition(k.selfRequires, FALSE)

ValidGate(gate) == gate.below = 0 \/ gate.above = 0

\* A grant is permanent; a gated one raises no health and holds no pool.
ValidGrant(p, grant) ==
    LET kind == Kind(grant.status) IN
    /\ kind.permanent /\ grant.stacks <= kind.maxStacks
    /\ ValidGate(grant.while) /\ ~(Gated(grant.while) /\ Gated(p.while))
    /\ Gated(GateOver(p, grant)) =>
          kind.category # "absorb" /\ \A term \in ToSet(kind.modifiers) : term.target # "hp"
    /\ kind.category = "absorb" <=> grant.power > 0
    /\ grant.power > 0 => grant.scaling # "hp"

\* What it refuses is harmful, and what it makes worse is a wound that ticks.
ValidShares(p) ==
    /\ \A id \in DOMAIN p.resists :
          Harmful(Kind(id).category) /\ p.resists[id] \in (-Base)..Base \ {0}
    /\ \A id \in DOMAIN p.amplifies :
          LET by == p.amplifies[id] IN
          /\ by.effect \in 0..Base /\ by.chance \in 0..Base /\ by.effect + by.chance > 0
          /\ by.effect > 0 => Kind(id).category = "dot"

\* It puts nothing on anybody for good.
ValidRiders(p) ==
    \A applications \in {p.applies, p.renews, p.replies.applies} :
        /\ ValidApplications(applications)
        /\ \A k \in DOMAIN applications : ~Kind(applications[k].status).permanent

ValidPassive(p) ==
    /\ PassiveShape(p) /\ ValidGate(p.while) /\ ValidShares(p) /\ ValidRiders(p)
    /\ \A k, l \in DOMAIN p.grants : p.grants[k].status = p.grants[l].status => k = l
    /\ \A k \in DOMAIN p.grants : ValidGrant(p, p.grants[k])

ASSUME BooksAssumption ==
    /\ RulesHold /\ BoundsHold /\ ChartIsFair
    /\ "single" \in DOMAIN Pattern /\ SplashPower \in 0..Base
    /\ \A name \in DOMAIN Pattern : ValidPattern(Pattern[name])
    /\ \A id \in DOMAIN StatusBook : ValidKind(StatusBook[id])
    /\ \A id \in DOMAIN SkillBook : ValidSkill(SkillBook[id])
    /\ \A id \in DOMAIN PassiveBook : ValidPassive(PassiveBook[id])
    /\ \A n \in DOMAIN BonusBook : ValidBonus(BonusBook[n])

\* The types the loaders give what they read, and a ceiling on speed that no push takes
\* past the length of a cycle: where a wait is less than a tick, speeds tell nobody apart.
ASSUME ContentAssumption ==
    /\ \A name \in DOMAIN Pattern : Pattern[name] \in Seq(Seq(DOMAIN Step))
    /\ BonusBook \in Seq(BonusType)
    /\ \A roster \in Rosters : roster \in Seq(EntryType)
    /\ Ceilings \in [Stat -> Nat \ {0}]
    /\ Bounds.headroom \in Nat /\ Bounds.floorFraction \in Nat
    /\ Share(Ceilings["speed"], Bounds.headroom) <= Scale
=============================================================================
