------------------------------- MODULE MCBattle -------------------------------
(***************************************************************************)
(* Content for TLC to fight battles with: a whole is 10 parts, health is   *)
(* at most a dozen, and every skill and trait is there for one case of the *)
(* engine.  A run names the rosters it opens with.                         *)
(***************************************************************************)
EXTENDS Books, Lead

MCRules == [defenseConstant |-> 10, minimumDamage |-> 1, criticalMultiplier |-> 20,
            minHitChance |-> 3]
MCChart == [cycles |-> {<<"fire", "wind", "earth">>}, mutual |-> {<<"light", "dark">>},
            inert |-> {"neutral"}, neutral |-> 10, advantage |-> 15, disadvantage |-> 7]
MCCeilings == [hp |-> 16, attack |-> 10, defense |-> 10, speed |-> 6, accuracy |-> 10, dodge |-> 10]
MCBounds == [headroom |-> 15, floorFraction |-> 5, maxAffinityScale |-> 5]
MCPattern == [single |-> <<>>, row |-> <<<<"up">>, <<"down">>>>]
MCFates == {<<TRUE>>, <<FALSE>>, <<TRUE, FALSE>>}

-----------------------------------------------------------------------------
Plain == [category |-> "buff", maxStacks |-> 1, duration |-> 2, permanent |-> FALSE,
          tickPower |-> 0, healShare |-> 0, poolPower |-> 0, pierce |-> 0, ward |-> 0,
          modifiers |-> <<>>]
Lasting == [Plain EXCEPT !.permanent = TRUE, !.duration = 0]
More(stat, mode, amount) == [target |-> stat, mode |-> mode, amount |-> amount]

MCStatuses ==
    [burn    |-> [Plain EXCEPT !.category = "dot", !.tickPower = 10, !.maxStacks = 2],
     regrow  |-> [Plain EXCEPT !.category = "regen", !.tickPower = 5],
     spark   |-> [Plain EXCEPT !.category = "charge", !.maxStacks = 3],
     wound   |-> [Plain EXCEPT !.category = "heal_cut", !.healShare = -5],
     bubble  |-> [Plain EXCEPT !.category = "absorb", !.poolPower = 10],
     slow    |-> [Plain EXCEPT !.category = "stat_debuff",
                               !.modifiers = <<More("speed", "percent", -5)>>],
     block   |-> [Plain EXCEPT !.category = "shield", !.maxStacks = 2],
     stun    |-> [Plain EXCEPT !.category = "control", !.duration = 1],
     taunting |-> [Plain EXCEPT !.category = "taunt"],
     burrowed |-> [Plain EXCEPT !.duration = 3],
     rage    |-> [Lasting EXCEPT !.modifiers = <<More("speed", "flat", 3), More("attack", "flat", 2)>>],
     vigour  |-> [Lasting EXCEPT !.modifiers = <<More("hp", "flat", 4)>>]]

None == [status |-> "", minStacks |-> 0, belowHealth |-> 0, belowStacks |-> 0, gates |-> FALSE,
         bonusPower |-> 0, consume |-> FALSE, consumeStacks |-> 0, chains |-> FALSE, arcPower |-> 0,
         stackPower |-> 0, stackRestore |-> 0, applies |-> <<>>]
Nobody == [count |-> 0, share |-> 0, shareOfBase |-> 0, stats |-> [stat \in Stat |-> 0],
           affinity |-> "", skills |-> <<>>, lasts |-> 0, bound |-> FALSE, splits |-> 0]
Wisp == [stat \in Stat |-> IF stat = "speed" THEN 6 ELSE 3]
Sure(status) == [status |-> status, chance |-> 10, stacks |-> 1]

Hit == [element |-> "neutral", range |-> 3, pattern |-> "single", power |-> 10, strikes |-> 1,
        repeat |-> 0, maxStrikes |-> 0, accuracy |-> 10, pierce |-> 0, unblockable |-> FALSE,
        crit |-> 0, scaling |-> [stat |-> "attack", source |-> "current"], applies |-> <<>>,
        selfApplies |-> <<>>, requires |-> None, selfRequires |-> None, selfGradient |-> 0,
        strips |-> [categories |-> {}, stacks |-> 0], restrict |-> {}, summons |-> Nobody,
        restores |-> 0, drains |-> 0, cost |-> 0, cooldown |-> 0, target |-> "enemy"]
Own == [Hit EXCEPT !.target = "self", !.range = 0, !.power = 0, !.accuracy = 0]

MCSkills ==
    [hit   |-> Hit,
     torch |-> [Hit EXCEPT !.element = "fire", !.applies = <<Sure("burn")>>, !.accuracy = 8],
     sweep |-> [Hit EXCEPT !.pattern = "row", !.power = 8, !.cooldown = 1],
     sap   |-> [Hit EXCEPT !.drains = 5, !.applies = <<Sure("slow")>>],
     flurry |-> [Hit EXCEPT !.power = 5, !.strikes = 2, !.repeat = 5, !.maxStrikes = 3],
     pay   |-> [Hit EXCEPT !.power = 12, !.cost = 4],
     heal  |-> [Hit EXCEPT !.target = "ally", !.power = 0, !.restores = 10, !.accuracy = 10],
     mend  |-> [Own EXCEPT !.selfApplies = <<Sure("regrow")>>,
                           !.strips = [categories |-> {"dot", "stat_debuff"}, stacks |-> 1]],
     guard |-> [Own EXCEPT !.selfApplies = <<Sure("block"), Sure("taunting")>>, !.cooldown = 1],
     bubble |-> [Own EXCEPT !.selfApplies = <<Sure("bubble")>>, !.cooldown = 2],
     dig   |-> [Own EXCEPT !.selfApplies = <<Sure("burrowed")>>],
     jolt  |-> [Hit EXCEPT !.power = 5, !.pattern = "row", !.applies = <<Sure("spark")>>],
     bolt  |-> [Hit EXCEPT !.power = 5,
                  !.requires = [None EXCEPT !.status = "spark", !.minStacks = 1, !.consume = TRUE,
                                            !.chains = TRUE, !.arcPower = 10]],
     daze  |-> [Hit EXCEPT !.power = 0, !.applies = <<Sure("stun")>>, !.cooldown = 2],
     call  |-> [Own EXCEPT !.summons = [Nobody EXCEPT !.count = 1, !.stats = Wisp,
                             !.skills = <<"hit">>, !.lasts = 1], !.cooldown = 1],
     twin  |-> [Own EXCEPT !.summons = [Nobody EXCEPT !.count = 1, !.share = 5,
                             !.skills = <<"hit">>, !.bound = TRUE], !.cooldown = 3],
     spawn |-> [Own EXCEPT !.summons = [Nobody EXCEPT !.count = 2, !.shareOfBase = 10,
                             !.skills = <<"hit">>, !.splits = 3], !.cooldown = 3]]

Trait == [grants |-> <<>>, applies |-> <<>>, renews |-> <<>>,
          replies |-> [power |-> 0, scaling |-> [stat |-> "attack", source |-> "current"],
                       applies |-> <<>>],
          while |-> [below |-> 0, above |-> 0], resists |-> <<>>, drains |-> 0, converts |-> 0,
          spares |-> 0, amplifies |-> <<>>]
Grant(status, power) ==
    [status |-> status, stacks |-> 1, power |-> power, scaling |-> "attack",
     while |-> [below |-> 0, above |-> 0]]

MCPassives ==
    [fury   |-> [Trait EXCEPT !.grants = <<Grant("rage", 0)>>, !.while.below = 5],
     leech  |-> [Trait EXCEPT !.drains = 4],
     hardy  |-> [Trait EXCEPT !.grants = <<Grant("vigour", 0)>>],
     thorns |-> [Trait EXCEPT !.replies.power = 5, !.replies.applies = <<Sure("wound")>>],
     spring |-> [Trait EXCEPT !.renews = <<Sure("regrow")>>, !.while.below = 5]]

MCBonuses == <<[axis |-> "column", value |-> "", scope |-> "sharers",
                rungs |-> <<[at |-> 2, grants |-> <<[status |-> "vigour", stacks |-> 1]>>]>>]>>

-----------------------------------------------------------------------------
Body == [hp |-> 10, attack |-> 4, defense |-> 2, speed |-> 3, accuracy |-> 1, dodge |-> 1]
Fighter(side, slot, element, base, skills, passives) ==
    [side |-> side, slot |-> slot, affinity |-> <<element>>, base |-> base, skills |-> skills,
     passives |-> passives]
Fast == [Body EXCEPT !.speed = 4]
Frail == [Body EXCEPT !.hp = 6, !.speed = 4]

\* Rage and a spring of health below half, against everything that moves health.
Furious == <<Fighter("ally", <<2, 1>>, "wind", Body, <<"sap", "mend">>, <<"fury", "leech">>),
             Fighter("enemy", <<2, 1>>, "fire", Fast, <<"torch">>, <<"thorns">>)>>
\* Summons that run out and a bound one, swept by an area skill that takes a turn to cool.
Called == <<Fighter("ally", <<2, 1>>, "neutral", Body, <<"call", "twin">>, <<>>),
            Fighter("enemy", <<2, 1>>, "neutral", Fast, <<"sweep", "hit">>, <<>>)>>
\* A charge that jumps between neighbours, who share a column and are healthier for it.
Charged == <<Fighter("ally", <<2, 1>>, "wind", Fast, <<"jolt", "bolt">>, <<>>),
             Fighter("enemy", <<2, 1>>, "wind", Frail, <<"heal">>, <<>>),
             Fighter("enemy", <<2, 2>>, "wind", Frail, <<"hit">>, <<"hardy">>)>>
\* Blows in number against a guard, a taunt and a shield that swallows.
Guarded == <<Fighter("ally", <<2, 1>>, "fire", Frail, <<"flurry">>, <<>>),
             Fighter("enemy", <<2, 1>>, "wind", Body, <<"guard", "bubble">>, <<"thorns", "spring">>)>>
\* Nobody to aim at: one hides, the other is held.
Hidden == <<Fighter("ally", <<2, 1>>, "neutral", Body, <<"hit", "daze">>, <<>>),
            Fighter("enemy", <<2, 1>>, "neutral", Fast, <<"dig">>, <<>>)>>
\* One skill that is paid for in health, one that parts its caster.
Spent == <<Fighter("ally", <<2, 1>>, "neutral", Body, <<"pay", "hit">>, <<>>),
           Fighter("enemy", <<2, 1>>, "neutral", Fast, <<"spawn", "hit">>, <<>>)>>
Fought == {Lined(roster) : roster \in {Furious, Called, Charged, Guarded, Hidden, Spent}}

-----------------------------------------------------------------------------
(* What the order promises, of two squads of at most three at two speeds.  *)
Squads == UNION {[1..n -> 1..2] : n \in 1..3}
SidesOf(home, away) == [n \in 1..Len(home) + Len(away) |-> IF n <= Len(home) THEN "ally" ELSE "enemy"]
PlaceIn(order, n) == CHOOSE k \in DOMAIN order : order[k] = n
\* The pairs of a group: the first of one side with the first of the other, and so on.
Ties(sides, speeds) ==
    UNION {LET ours == Half(sides, speeds, v, "ally") theirs == Half(sides, speeds, v, "enemy") IN
           {<<ours[i], theirs[i]>> : i \in DOMAIN ours \cap DOMAIN theirs} : v \in 1..2}
Level(sides, speeds) ==
    \A v \in 1..2 : Len(Half(sides, speeds, v, "ally")) = Len(Half(sides, speeds, v, "enemy"))

\* Everybody is enlisted once, a side's units of one speed stay in their order, and where
\* the groups are level each side wins half of the ties, to within one (lead.go:52-55).
ASSUME LeadsAlternate ==
    \A home, away \in Squads :
        LET sides  == SidesOf(home, away)
            speeds == home \o away
            order  == Alternated(sides, speeds)
            won    == {t \in Ties(sides, speeds) : PlaceIn(order, t[1]) < PlaceIn(order, t[2])}
            lost   == Ties(sides, speeds) \ won
        IN  /\ Len(order) = Len(sides) /\ ToSet(order) = DOMAIN sides
            /\ \A m, n \in DOMAIN sides :
                  m < n /\ sides[m] = sides[n] /\ speeds[m] = speeds[n]
                     => PlaceIn(order, m) < PlaceIn(order, n)
            /\ Level(sides, speeds) => Cardinality(won) - Cardinality(lost) \in {0, 1}

=============================================================================
