------------------------------- MODULE Battle -------------------------------
(***************************************************************************)
(* A battle (internal/core/battle: battle.go, turn.go, summon.go).         *)
(*                                                                         *)
(* The engine is sequential: Advance brings the next unit to its turn, and *)
(* Act or Pass ends it.  What makes it hard is that one call runs through  *)
(* a dozen helpers that each change some unit and lean on what the others  *)
(* left: a strike wounds, the wound opens a gate, the gate changes a       *)
(* maximum and a speed, the target's trait answers, the answer kills the   *)
(* actor in the middle of its own skill.  So the state is one record, as   *)
(* it is one struct in the code, and each helper is an operator from a     *)
(* battle to a battle.  A unit's id is its index in units.                 *)
(*                                                                         *)
(* The record of events, names and what a prompt says are left out: they   *)
(* are read by whoever shows or replays the battle and by nothing here.    *)
(***************************************************************************)
EXTENDS Board, Composition, Skills, TurnQueue

CONSTANTS Pattern,      \* name -> the chains of steps of a shape
          SplashPower,  \* the share an area skill keeps off its primary cell
          MaxEffectiveHP,
          Nothing,      \* the element that pairs with none
          Rosters,      \* the rosters a battle may open with: sequences of entries
          Fates,        \* the answers the source of randomness may give during a call
          MaxTurns      \* how many turns are taken; RunToEndWith has such a bound

VARIABLES fight,        \* the battle
          taken         \* turns taken so far

vars == <<fight, taken>>

\* The statuses the engine knows by name.
Block == "block"
Stun == "stun"
Taunting == "taunting"
Burrowed == "burrowed"

-----------------------------------------------------------------------------
(* Reading a unit.                                                         *)

Current(u) == [stat \in Stat |-> StatOf(Terms(u.statuses), stat, u.base[stat])]
MaxHP(u) == StatOf(Terms(u.statuses), "hp", u.base.hp)
SpeedOf(u) == StatOf(Terms(u.statuses), "speed", u.base.speed)
Scaling(u, by) == PickScaling(by.source, u.base[by.stat], Current(u)[by.stat])
SeenFor(u, condition) == Seen(Stacks(u.statuses, condition.status), u.hp, MaxHP(u))

InForce(u, passive) == GateHolds(passive.while, u.hp, MaxHP(u))
TraitsInForce(u) ==
    LET traits == [n \in DOMAIN u.passives |-> PassiveBook[u.passives[n]]] IN
    Only(traits, {p \in ToSet(traits) : InForce(u, p)})
Lifesteal(u) == Total(TraitsInForce(u), LAMBDA p : p.drains)
Spared(u) == AtMost(Total(TraitsInForce(u), LAMBDA p : p.spares), Base)
Converts(u) == AtMost(Total(TraitsInForce(u), LAMBDA p : p.converts), Base)
Riders(u) == Flattened([n \in DOMAIN TraitsInForce(u) |-> TraitsInForce(u)[n].applies])
HealingFor(u, amount) == Share(amount, Positive(Base + HealShare(u.statuses)))

\* The chance a status has left once the target's wards and traits have refused it.
Resisted(target, status, chance) ==
    LET Refuse(left, p) == (left * (Base - Refuses(p, status))) \div Base
        warded == (Base * (Base - WardShare(target.statuses))) \div Base
        surviving == FoldLeft(Refuse, warded, TraitsInForce(target))
    IN  IF chance <= 0 THEN chance ELSE (chance * surviving) \div Base
Boosted(actor, status) ==
    FoldLeft(LAMBDA by, p : [effect |-> Share(by.effect, Base + Boosts(p, status).effect),
                             chance |-> Share(by.chance, Base + Boosts(p, status).chance)],
             [effect |-> Base, chance |-> Base], TraitsInForce(actor))
Raised(value, by) == IF by <= Base THEN value ELSE Share(value, by)

-----------------------------------------------------------------------------
(* Reading the battle.                                                     *)

Ids(b) == DOMAIN b.units
InOrder(b) == [i \in Ids(b) |-> i]
Living(b) == {i \in Ids(b) : ~b.units[i].dead}
OnSide(b, side) == {i \in Living(b) : b.units[i].side = side}
\* The living unit on a cell, as a set of at most one.
Occupant(b, cell) == {i \in Living(b) : b.units[i].cell = cell}

\* The occupied ranks of the other side a skill's range takes in, nearest first.
InRange(b, i, known) ==
    LET front == Opposing(b.units[i].side)
        Count(acc, depth) ==
          LET held == {cell \in Rank(front, depth) : Occupant(b, cell) # {}}
          IN  IF held = {} \/ acc.spent = known.range THEN acc
              ELSE [spent |-> acc.spent + 1, cells |-> acc.cells \cup held]
    IN  FoldLeft(Count, [spent |-> 0, cells |-> {}],
                 [d \in 1..FormationCols |-> d]).cells

Taunters(b, i) ==
    {b.units[j].cell : j \in {k \in OnSide(b, Opposing(b.units[i].side)) :
                                Holds(b.units[k].statuses, Taunting)}}

\* The cells a skill may be aimed at.  A taunt leaves an attack no other choice, not
\* even the choice its reach would leave it.
Aims(b, i, known) ==
    LET u == b.units[i]
        open == {j \in Living(b) :
                   /\ Reaches(known.target, u.side, SideOf(b.units[j].cell))
                   /\ j = i \/ ~Holds(b.units[j].statuses, Burrowed)
                   /\ \/ SideOf(b.units[j].cell) = u.side
                      \/ b.units[j].cell \in InRange(b, i, known)}
    IN  CASE known.target = "self" -> {u.cell}
          [] known.target = "enemy" /\ Taunters(b, i) # {} -> Taunters(b, i)
          [] OTHER -> {b.units[j].cell : j \in open}

\* What a prompt offers: the skills not cooling down, not gated shut, with their aims.
Offered(b, i) ==
    {choice \in (DOMAIN b.units[i].skills) \X ((0..Cols-1) \X (0..Rows-1)) :
        LET known == SkillBook[b.units[i].skills[choice[1]]] IN
        /\ b.units[i].cool[choice[1]] = 0
        /\ ~GateCloses(known.selfRequires,
                       Stacks(b.units[i].statuses, known.selfRequires.status))
        /\ choice[2] \in Aims(b, i, known)}

\* Nothing anyone can do changes the position: nobody can be aimed at, ever again.
CanAimAtAnEnemy(b, i) ==
    \E n \in DOMAIN b.units[i].skills :
        LET known == SkillBook[b.units[i].skills[n]] IN
        \/ known.summons.count > 0
        \/ known.target \notin {"self", "ally"} /\ Aims(b, i, known) # {}
Frozen(b) ==
    \A i \in Living(b) : /\ ~TimedIn(b.units[i].statuses, {"dot"})
                         /\ ~CanAimAtAnEnemy(b, i)

-----------------------------------------------------------------------------
(* The end, and the ways out of a battle.                                  *)

\* Mutant: whoever is left, the allies won.
CheckEndForAllies(b) ==
    IF b.finished \/ {side \in Side : OnSide(b, side) # {}} = Side THEN b
    ELSE [b EXCEPT !.finished = TRUE, !.outcome = "victory", !.winner = "ally"]

CheckEnd(b) ==
    LET standing == {side \in Side : OnSide(b, side) # {}} IN
    CASE b.finished \/ standing = Side -> b
      [] ~b.finished /\ standing = {} -> [b EXCEPT !.finished = TRUE, !.outcome = "annihilation"]
      [] OTHER -> [b EXCEPT !.finished = TRUE, !.outcome = "victory",
                            !.winner = CHOOSE side \in standing : TRUE]

Settle(b) ==
    LET c == CheckEnd(b) IN
    IF c.finished \/ ~Frozen(c) THEN c
    ELSE [c EXCEPT !.finished = TRUE, !.outcome = "stalemate"]

Struck(b, i) == [b EXCEPT !.units[i].dead = TRUE, !.units[i].hp = 0,
                          !.queue = RemoveFrom(@, i)]
Dismiss(b, i) == IF b.units[i].dead THEN b ELSE CheckEnd(Struck(b, i))
\* Whoever was bound to a unit leaves with it.
DismissBound(b, i) ==
    FoldLeft(LAMBDA c, j : IF c.units[j].bound /\ c.units[j].summoner = i
                           THEN Dismiss(c, j) ELSE c,
             b, InOrder(b))
\* Mutant: a summoner that falls alone.
KillAlone(b, i) == IF b.units[i].dead THEN b ELSE CheckEnd(Struck(b, i))
Kill(b, i) == IF b.units[i].dead THEN b ELSE CheckEnd(DismissBound(Struck(b, i), i))

-----------------------------------------------------------------------------
(* Health, and what follows it: gates, maxima, speeds.                     *)

\* Every living unit is queued at the speed it now has.
RetuneAll(b) ==
    [b EXCEPT !.queue.entries =
        [i \in Queued(b.queue) |-> Reschedule(b.queue, i, SpeedOf(b.units[i])).entries[i]]]

Granted(u, grant) ==
    IF grant.power <= 0 THEN 0 ELSE Restored(u.base[grant.scaling], grant.power)
GrantsOf(u) ==
    Flattened([n \in DOMAIN u.passives |->
        LET p == PassiveBook[u.passives[n]] IN
        [k \in DOMAIN p.grants |-> [grant |-> p.grants[k], gate |-> GateOver(p, p.grants[k])]]])

\* A gated grant is held exactly while its gate stands open, grant by grant.
Regated(acc, g) ==
    LET u == acc.unit
        wanted == GateHolds(g.gate, u.hp, MaxHP(u))
    IN  IF ~Gated(g.gate) \/ wanted = Holds(u.statuses, g.grant.status) THEN acc
        ELSE [changed |-> TRUE, unit |-> [u EXCEPT !.statuses =
               IF wanted THEN Hold(@, g.grant.status, Granted(u, g.grant), g.grant.stacks)
               ELSE Release(@, g.grant.status)]]
Moved(b, i, moved) ==
    IF moved.changed THEN RetuneAll([b EXCEPT !.units[i] = moved.unit]) ELSE b
Reconsider(b, i) ==
    IF b.units[i].dead \/ b.units[i].hp <= 0 THEN b
    ELSE Moved(b, i, FoldLeft(Regated, [changed |-> FALSE, unit |-> b.units[i]],
                              GrantsOf(b.units[i])))

\* Mutant: healing that does not stop at the maximum.
HealUnbounded(b, i, amount) ==
    IF amount <= 0 \/ b.units[i].dead THEN b
    ELSE Reconsider([b EXCEPT !.units[i].hp = @ + HealingFor(b.units[i], amount)], i)

Heal(b, i, amount) ==
    LET u == b.units[i]
        room == MaxHP(u) - u.hp
        landed == HealingFor(u, amount)
    IN  IF amount <= 0 \/ u.dead \/ room <= 0 \/ landed = 0 THEN b
        ELSE Reconsider([b EXCEPT !.units[i].hp = @ + AtMost(landed, room)], i)
Drain(b, i, dealt, share) == Heal(b, i, Share(dealt, AtMost(share, Base)))
Fed(b, i, dealt, share) == IF dealt > 0 /\ share > 0 THEN Drain(b, i, dealt, share) ELSE b

\* Mutant: a wound that asks no gate.
WoundUngated(b, i, damage) ==
    LET hurt == [b EXCEPT !.units[i].hp = @ - damage] IN
    IF hurt.units[i].hp <= 0 THEN Kill(hurt, i) ELSE hurt

Hurt(b, i) == IF b.units[i].hp <= 0 THEN Kill(b, i) ELSE Reconsider(b, i)
Wound(b, i, damage) == Hurt([b EXCEPT !.units[i].hp = @ - damage], i)

\* A skill's price in health leaves its caster alive.
SpendHealth(b, i, known) ==
    LET u == b.units[i]
        asked == Share(Share(MaxHP(u), known.cost), Base - Spared(u))
        paid == AtMost(asked, u.hp - 1)
    IN  IF known.cost <= 0 \/ paid <= 0 THEN b ELSE [b EXCEPT !.units[i].hp = @ - paid]

-----------------------------------------------------------------------------
(* Statuses from one unit to another.                                      *)

\* "from" is the skill's or the trait's element and scaling.
AmountOf(a, t, from, kind, boost) ==
    CASE kind.category = "dot" ->
           Raised(Damage(Scaling(a, from.scaling), Current(t).defense, kind.tickPower,
                         MultiplierAgainst(from.element, t.affinity)), boost.effect)
      [] kind.category = "regen"  -> Restored(Scaling(a, from.scaling), kind.tickPower)
      [] kind.category = "absorb" -> Restored(Scaling(a, from.scaling), kind.poolPower)
      [] OTHER -> 0
Inflicted(b, drawn, target, application, amount) ==
    IF ~drawn.yes THEN [b EXCEPT !.source = drawn.source]
    ELSE [b EXCEPT !.source = drawn.source,
                   !.units[target].statuses =
                       ApplyTimes(@, application.status, amount, application.stacks)]
Boosting(b, actor, target, from, application, boost) ==
    LET t == b.units[target] IN
    Inflicted(b, Draw(b.source, AtMost(Resisted(t, application.status,
                                                Raised(application.chance, boost.chance)), Base)),
              target, application,
              AmountOf(b.units[actor], t, from, Kind(application.status), boost))
Inflict(b, actor, target, from, application) ==
    IF actor # target /\ Holds(b.units[target].statuses, Burrowed) THEN b
    ELSE Boosting(b, actor, target, from, application,
                  Boosted(b.units[actor], application.status))

InflictAll(b, actor, target, from, applications) ==
    FoldLeft(LAMBDA c, application : Inflict(c, actor, target, from, application),
             b, applications)

FromSkill(known) == [element |-> known.element, scaling |-> known.scaling]
FromTrait(p) == [element |-> Nothing, scaling |-> p.replies.scaling]

\* A trait that answers a blow: it may wound, drain, kill and mark the attacker.
ReplyDamage(h, a, p) ==
    Damage(Scaling(h, p.replies.scaling), Current(a).defense, p.replies.power,
           MultiplierAgainst(Nothing, a.affinity))
Marking(b, holder, attacker, p) ==
    IF b.units[attacker].dead THEN b
    ELSE InflictAll(b, holder, attacker, FromTrait(p), p.replies.applies)
Reply(b, holder, attacker, p) ==
    LET damage == ReplyDamage(b.units[holder], b.units[attacker], p)
        Sated(c) == Fed(c, holder, damage, Lifesteal(c.units[holder]))
    IN  Marking(IF p.replies.power <= 0 THEN b
                ELSE Hurt(Sated([b EXCEPT !.units[attacker].hp = Positive(@ - damage)]), attacker),
                holder, attacker, p)

Replied(b, actor) == [b |-> b, done |-> b.units[actor].dead]
Answering(acc, p, actor, holder) ==
    IF acc.done \/ ~Answers(p) \/ ~InForce(acc.b.units[holder], p) THEN acc
    ELSE Replied(Reply(acc.b, holder, actor, p), actor)
Answer(b, actor, holder) ==
    IF holder = actor \/ b.units[holder].dead \/ b.units[holder].hp <= 0 THEN b
    ELSE FoldLeft(LAMBDA acc, id : Answering(acc, PassiveBook[id], actor, holder),
                  [b |-> b, done |-> FALSE], b.units[holder].passives).b

Renew(b, i) ==
    IF b.units[i].dead THEN b
    ELSE FoldLeft(LAMBDA c, id :
                      IF ~InForce(c.units[i], PassiveBook[id]) THEN c
                      ELSE InflictAll(c, i, i, FromTrait(PassiveBook[id]), PassiveBook[id].renews),
                  b, b.units[i].passives)

Nursed(b, i, statuses) ==
    FoldLeft(LAMBDA c, e : IF Kind(e.kind).category # "regen" THEN c
                           ELSE Heal(c, i, Total(e.stacks, LAMBDA stack : stack.tick)),
             b, statuses)
TickStatuses(b, i) ==
    LET before == b.units[i].statuses
        aged == [b EXCEPT !.units[i].statuses = Aged(@)]
        Suffered(c) == IF TickDamage(before) > 0 THEN Wound(c, i, TickDamage(before)) ELSE c
    IN  Suffered(Nursed(aged, i, before))

Strip(b, target, known) ==
    [b EXCEPT !.units[target].statuses = Cleanse(@, known.strips.categories, known.strips.stacks)]

Restore(b, actor, target, known, brought, position) ==
    LET whole == known.restores + brought.restore
        share == IF position > 1 THEN Scaled(whole, SplashPower) ELSE whole
    IN  IF whole <= 0 THEN b
        ELSE Heal(b, target, Restored(Scaling(b.units[actor], known.scaling), share))

\* The caster's own condition: what it asked for is spent before anything lands.
Spend(b, i, known) ==
    LET condition == known.selfRequires
        seen == SeenFor(b.units[i], condition)
    IN  IF ~MetBy(condition, seen) \/ ~condition.consume THEN b
        ELSE RetuneAll([b EXCEPT !.units[i].statuses =
                           Take(@, condition.status, Takes(condition, seen.stacks))])

-----------------------------------------------------------------------------
(* A discharge: a charge held by the cell aimed at goes off, and through   *)
(* its neighbours as far as they hold one too.                             *)

Around == <<"lower_right", "upper_right", "up", "upper_left", "lower_left", "down">>
Neighbours(cell) ==
    LET cube == Cube(cell)
        around == [n \in DOMAIN Around |->
                      Offset(<<cube[1] + Step[Around[n]][1], cube[2] + Step[Around[n]][2]>>)]
    IN  Only(around, {near \in ToSet(around) : OnBoard(near)})

Sparks(b, known, j) == Amplified(known, SeenFor(b.units[j], known.requires))
Linked(b, actor, known, chain, cell) ==
    chain \o Only(InOrder(b),
                  {j \in Occupant(b, cell) :
                      /\ Reaches(known.target, b.units[actor].side, SideOf(cell))
                      /\ Sparks(b, known, j) /\ ~Contains(chain, j)})
Grown(b, actor, known, chain, n) ==
    IF n > Len(chain) THEN chain
    ELSE FoldLeft(LAMBDA links, cell : Linked(b, actor, known, links, cell),
                  chain, Neighbours(b.units[chain[n]].cell))
ChainFrom(b, actor, known, aim) ==
    LET head == Only(InOrder(b), {j \in Occupant(b, aim) : Sparks(b, known, j)})
    IN  IF ~known.requires.chains THEN head
        ELSE FoldLeft(LAMBDA chain, n : Grown(b, actor, known, chain, n), head, InOrder(b))

Sparked(acc, hurt, j) ==
    [b |-> hurt, dealt |-> acc.dealt + acc.b.units[j].hp - hurt.units[j].hp]
Spark(acc, j, actor, known) ==
    LET status == known.requires.status
        u == acc.b.units[j]
        held == Removed(u.statuses, status, Takes(known.requires, Stacks(u.statuses, status)))
        spent == [acc.b EXCEPT !.units[j].statuses = Take(@, status, held)]
        amount == Damage(Scaling(spent.units[actor], known.scaling),
                         Current(spent.units[j]).defense, known.requires.arcPower * held,
                         MultiplierAgainst(known.element, u.affinity))
    IN  CASE acc.b.finished \/ held = 0 -> acc
          [] ~acc.b.finished /\ held > 0 /\ amount <= 0 -> [acc EXCEPT !.b = spent]
          [] OTHER -> Sparked(acc, Wound(spent, j, amount), j)
Discharge(b, actor, known, aim) ==
    FoldLeft(LAMBDA acc, j : Spark(acc, j, actor, known),
             [b |-> b, dealt |-> 0], ChainFrom(b, actor, known, aim))

-----------------------------------------------------------------------------
(* A skill against one target.                                             *)

HitOf(b, actor, target, known, power) ==
    LET a == b.units[actor]
        t == b.units[target]
    IN  [scaling |-> Scaling(a, known.scaling), multiplier |-> power,
         strikes |-> known.strikes, repeat |-> known.repeat, maxStrikes |-> known.maxStrikes,
         affinity |-> Stretched(Terms(a.statuses), MultiplierAgainst(known.element, t.affinity)),
         defense |-> Current(t).defense, pierce |-> known.pierce + PierceShare(a.statuses),
         convert |-> Converts(a), crit |-> known.crit, skillAccuracy |-> known.accuracy,
         accuracy |-> Current(a).accuracy, dodge |-> Current(t).dodge]

\* What follows a strike that hurt: the drain, and the answer of the target's traits.
Answered(b, actor, target, attempt, dealt, known) ==
    LET fed == Fed(b, actor, dealt, known.drains + Lifesteal(b.units[actor])) IN
    IF attempt.outcome = "struck" /\ attempt.damage > 0 THEN Answer(fed, actor, target) ELSE fed

\* A strike over: whether the volley goes on.
Outcome(acc, attempt, b, actor, target) ==
    LET struck == attempt.outcome = "struck" IN
    [b |-> b, out |-> FALSE,
     done |-> \/ struck /\ attempt.damage > 0 /\ b.units[actor].dead
              \/ b.units[target].hp <= 0,
     connected |-> acc.connected \/ struck,
     blocked |-> acc.blocked \/ attempt.outcome = "blocked"]

\* One strike: the blow, the charge it sets off, the gates it opens, what its caster
\* drains, what the target's traits answer.  "out" is a battle that ended inside it.
AfterShot(acc, attempt, shot, actor, target, known, shoots) ==
    IF shot.b.finished /\ shoots THEN [acc EXCEPT !.b = shot.b, !.out = TRUE, !.done = TRUE]
    ELSE Outcome(acc, attempt,
                 Answered(IF attempt.outcome = "struck" THEN Reconsider(shot.b, target) ELSE shot.b,
                          actor, target, attempt, attempt.damage + shot.dealt, known),
                 actor, target)
StrikeOnce(acc, attempt, actor, target, known, aim, conduit) ==
    LET shoots == conduit /\ attempt.outcome # "missed"
        hit == [acc.b EXCEPT !.units[target].hp =
                   IF attempt.outcome = "struck" THEN Positive(@ - attempt.damage) ELSE @]
    IN  IF acc.done THEN acc
        ELSE AfterShot(acc, attempt,
                       IF shoots THEN Discharge(hit, actor, known, aim)
                       ELSE [b |-> hit, dealt |-> 0],
                       actor, target, known, shoots)

Strikes(b, actor, target, known, aim, conduit, hit) ==
    LET held == b.units[target].statuses
        charges == IF known.unblockable THEN 0 ELSE Stacks(held, Block)
        rolled == Roll(hit, charges, b.source)
        guard == IF known.unblockable THEN 0 ELSE PoolIn(held, "absorb")
        absorbed == Absorb(rolled.attempts, guard)
        met == [b EXCEPT !.source = rolled.source,
                  !.units[target].statuses =
                     SpendPool(Take(@, Block, charges - rolled.blocks), "absorb",
                               guard - absorbed.pool)]
    IN  FoldLeft(LAMBDA acc, attempt :
                     StrikeOnce(acc, attempt, actor, target, known, aim, conduit),
                 [b |-> met, out |-> FALSE, done |-> FALSE, connected |-> FALSE, blocked |-> FALSE],
                 absorbed.attempts)

Blow(b, actor, target, known, aim, conduit, power) ==
    LET hit == HitOf(b, actor, target, known, power)
        drawn == Draw(b.source, Chance(hit))
    IN  IF power > 0 THEN Strikes(b, actor, target, known, aim, conduit, hit)
        ELSE [b |-> [b EXCEPT !.source = drawn.source], out |-> FALSE,
              connected |-> drawn.yes, blocked |-> FALSE]

\* What a blow that arrived leaves behind: the skill's statuses, then the actor's traits'.
Marked(blow, actor, target, known, carried, power) ==
    LET Rides(app) == blow.connected \/ OutlastsAShield(Kind(app.status).category)
        Mark(b, applications) ==
          InflictAll(b, actor, target, FromSkill(known),
                     Only(applications, {app \in ToSet(applications) : Rides(app)}))
        Ridden(b) == IF power <= 0 THEN b ELSE Mark(b, Riders(b.units[actor]))
    IN  IF blow.connected \/ blow.blocked THEN Ridden(Mark(blow.b, carried)) ELSE blow.b

Felled(b, target) == IF b.units[target].hp <= 0 THEN Kill(b, target) ELSE b

ResolveAgainst(b, actor, target, known, position, aim, brought) ==
    LET stripped == Strip(b, target, known)
        condition == known.requires
        seen == SeenFor(stripped.units[target], condition)
        amplified == position = 1 /\ Amplified(known, seen)
        conduit == amplified /\ condition.arcPower > 0
        eased == IF amplified /\ condition.consume /\ ~conduit
                 THEN [stripped EXCEPT !.units[target].statuses =
                          Take(@, condition.status, Takes(condition, seen.stacks))]
                 ELSE stripped
        swung == Swung(IF amplified THEN PowerAgainst(known, seen) ELSE known.power,
                       brought.bonus, brought.share)
        power == IF position > 1 THEN Scaled(swung, SplashPower) ELSE swung
        carried == known.applies \o (IF amplified THEN condition.applies ELSE <<>>)
        Left(blow) ==
          IF blow.out THEN blow.b
          ELSE Felled(Restore(Marked(blow, actor, target, known, carried, power),
                              actor, target, known, brought, position), target)
    IN  Left(Blow(eased, actor, target, known, aim, conduit, power))

-----------------------------------------------------------------------------
(* Enlisting: at the start, and by a skill that summons.                   *)

EffectiveHP(base) ==
    LET reduction == (Base * Rules.defenseConstant) \div (Rules.defenseConstant + Positive(base.defense))
    IN  IF reduction <= 0 THEN base.hp ELSE (base.hp * Base) \div reduction

\* What enlist refuses of an entry, the seats and the numbers of a side aside.
MayEnlist(entry) ==
    /\ entry.slot[1] \in 0..FormationCols-1 /\ entry.slot[2] \in 0..Rows-1
    /\ ValidAffinity(entry.affinity, Nothing)
    /\ \A stat \in Stat : entry.base[stat] <= Ceilings[stat]
    /\ EffectiveHP(entry.base) <= MaxEffectiveHP
    /\ entry.skills # <<>> /\ IsInjective(entry.skills) /\ IsInjective(entry.passives)
    /\ \A n \in DOMAIN entry.skills :
          CanCarry(entry.affinity, SkillBook[entry.skills[n]], Nothing)

UnitOf(entry) ==
    [side |-> entry.side, cell |-> Place(entry.side, entry.slot), affinity |-> entry.affinity,
     base |-> entry.base, hp |-> entry.base.hp, dead |-> FALSE, skills |-> entry.skills,
     cool |-> [n \in DOMAIN entry.skills |-> 0], statuses |-> <<>>, passives |-> entry.passives,
     summoner |-> 0, leaves |-> 0, bound |-> FALSE]

\* Each trait in turn takes its gates at the full health the ones before it left.
Bestow(v, p, grant) ==
    IF GateHolds(GateOver(p, grant), v.hp, MaxHP(v))
    THEN [v EXCEPT !.statuses = Hold(@, grant.status, Granted(v, grant), grant.stacks)] ELSE v
Filled(u) == [u EXCEPT !.hp = MaxHP(u)]
Granting(u, id) ==
    FoldLeft(LAMBDA v, grant : Bestow(v, PassiveBook[id], grant), Filled(u), PassiveBook[id].grants)
Enlisted(entry, awards) ==
    LET granted == FoldLeft(Granting, UnitOf(entry), entry.passives) IN
    Filled([granted EXCEPT !.statuses =
               FoldLeft(LAMBDA s, g : Hold(s, g.status, 0, g.stacks), @, awards)])

Joined(b, u) ==
    [b EXCEPT !.units = Append(@, u), !.queue = AddTo(@, Len(b.units) + 1, SpeedOf(u))]

\* A roster New takes: both sides fielded, nobody on another's cell.
MayOpen(roster) ==
    /\ \A n \in DOMAIN roster : MayEnlist(roster[n])
    /\ \A side \in Side : \E n \in DOMAIN roster : roster[n].side = side
    /\ \A n, k \in DOMAIN roster :
          n # k => <<roster[n].side, roster[n].slot>> # <<roster[k].side, roster[k].slot>>

\* What an entry of a roster is awarded for the company it is in.
AwardsOf(roster, n) ==
    LET squad == Only(roster, {e \in ToSet(roster) : e.side = roster[n].side})
    IN  Awarded(squad, CHOOSE k \in DOMAIN squad : squad[k] = roster[n])
Empty == [units |-> <<>>, queue |-> NewQueue, asked |-> 0, finished |-> FALSE,
          winner |-> "none", outcome |-> "undecided",
          source |-> [fate |-> <<TRUE>>, at |-> 0]]
New(roster) ==
    FoldLeft(LAMBDA b, n : Joined(b, Enlisted(roster[n], AwardsOf(roster, n))),
             Empty, [n \in DOMAIN roster |-> n])

\* The numbers of what a skill summons: its own, or a share of its caster's.
SummonBase(u, summons) ==
    LET from == IF summons.shareOfBase > 0 THEN u.base ELSE Current(u)
        share == IF summons.shareOfBase > 0 THEN summons.shareOfBase ELSE summons.share
        base == IF summons.share + summons.shareOfBase = 0 THEN summons.stats
                ELSE [stat \in Stat |-> Share(from[stat], share)]
        hp == IF summons.splits > 0 THEN Share(u.base.hp, summons.splits) ELSE base.hp
    IN  IF summons.share + summons.shareOfBase = 0 THEN base
        ELSE [base EXCEPT !.hp = IF hp < 1 THEN 1 ELSE hp]

\* A cell is taken by whoever started the battle on it, dead or not, and by the living.
FreeSlots(b, side) ==
    LET held == {j \in Ids(b) : ~b.units[j].dead \/ b.units[j].summoner = 0}
        slots == [n \in 1..BoardSlots |-> <<FormationCols - 1 - (n - 1) \div Rows, (n - 1) % Rows>>]
        crowd == Cardinality({j \in held : b.units[j].side = side})
        free == Only(slots, {slot \in ToSet(slots) :
                               \A j \in held : b.units[j].cell # Place(side, slot)})
    IN  SubSeq(free, 1, AtMost(BoardSlots - crowd, Len(free)))

\* A copy split off takes its health from its caster, who is never left with none.
Parted(u, summons) ==
    LET moved == Share(u.base.hp, summons.splits)
        AtLeast(n) == IF n < 1 THEN 1 ELSE n
        base == AtLeast(u.base.hp - moved)
    IN  IF moved <= 0 THEN u
        ELSE [u EXCEPT !.base.hp = base, !.hp = AtMost(AtLeast(@ - moved), base)]

EntryOf(u, summons, slot) ==
    [side |-> u.side, slot |-> slot, skills |-> summons.skills, passives |-> <<>>,
     affinity |-> IF summons.affinity = "" THEN u.affinity ELSE <<summons.affinity>>,
     base |-> SummonBase(u, summons)]
CopyOf(b, i, summons, slot) ==
    [Enlisted(EntryOf(b.units[i], summons, slot), <<>>) EXCEPT
        !.summoner = i, !.bound = summons.bound,
        !.leaves = IF summons.lasts > 0 THEN summons.lasts ELSE -1]
Summon(b, i, known) ==
    LET summons == known.summons
        free == FreeSlots(b, b.units[i].side)
    IN  IF summons.count = 0 \/ free = <<>> \/ ~MayEnlist(EntryOf(b.units[i], summons, free[1]))
        THEN b
        ELSE FoldLeft(LAMBDA c, slot :
                          Joined([c EXCEPT !.units[i] = Parted(@, summons)],
                                 CopyOf(b, i, summons, slot)),
                      b, SubSeq(free, 1, AtMost(summons.count, Len(free))))

-----------------------------------------------------------------------------
(* The calls.                                                              *)

SpendCooldowns(b, i) ==
    [b EXCEPT !.units[i].cool = [n \in DOMAIN @ |-> IF @[n] > 0 THEN @[n] - 1 ELSE 0]]

Advanced(b) ==
    LET i == Foremost(b.queue)
        begun == [b EXCEPT !.queue = TurnOf(@, i)]
        expired == b.units[i].summoner # 0 /\ b.units[i].leaves = 0
        served == IF b.units[i].summoner # 0 /\ b.units[i].leaves > 0
                  THEN [begun EXCEPT !.units[i].leaves = @ - 1] ELSE begun
        controlled == Holds(b.units[i].statuses, Stun)
        Prompted(b2) ==
          CASE b2.units[i].dead -> Settle(b2)
            [] ~b2.units[i].dead /\ controlled -> Settle(SpendCooldowns(b2, i))
            [] OTHER -> [b2 EXCEPT !.asked = i]
    IN  IF expired THEN Settle(Dismiss(begun, i))
        ELSE Prompted(RetuneAll(Renew(TickStatuses(served, i), i)))

\* The target of a skill, cell by cell; the actor may fall, or the battle end, midway.
Stepped(b, i) == [b |-> b, done |-> b.finished \/ b.units[i].dead]
StrikeCell(acc, i, known, cell, position, aim, brought) ==
    LET on == Occupant(acc.b, cell) IN
    IF acc.done \/ on = {} THEN acc
    ELSE Stepped(ResolveAgainst(acc.b, i, CHOOSE j \in on : TRUE, known, position, aim, brought), i)
Over(b) == IF b.finished THEN b ELSE Settle(RetuneAll(b))
Landed(b, i, known, aim, brought) ==
    LET cells == Covered(Pattern[known.pattern], aim, known.target = "all", b.units[i].side) IN
    Over(FoldLeft(LAMBDA acc, n : StrikeCell(acc, i, known, cells[n], n, aim, brought),
                  [b |-> b, done |-> FALSE], [n \in DOMAIN cells |-> n]).b)
Aimed(b, i, known, aim, brought) ==
    IF known.target = "self"
    THEN Settle(RetuneAll(Restore(Strip(b, i, known), i, i, known, brought, 1)))
    ELSE Landed(b, i, known, aim, brought)

Acted(b, n, aim) ==
    LET i == b.asked
        known == SkillBook[b.units[i].skills[n]]
        brought == Swing(known, SeenFor(b.units[i], known.selfRequires))
        begun == [SpendCooldowns(b, i) EXCEPT !.units[i].cool[n] = known.cooldown, !.asked = 0]
        paid == Spend(SpendHealth(begun, i, known), i, known)
    IN  Aimed(Summon(InflictAll(paid, i, i, FromSkill(known), known.selfApplies), i, known),
              i, known, aim, brought)

Passed(b) == Settle(SpendCooldowns([b EXCEPT !.asked = 0], b.asked))

\* Between calls the source is nobody's business: a call brings its own answers.
Under(b, fate) == [b EXCEPT !.source = [fate |-> fate, at |-> 0]]
Quiet(b) == [b EXCEPT !.source = [fate |-> <<TRUE>>, at |-> 0]]

Init == /\ \E roster \in Rosters : MayOpen(roster) /\ fight = New(roster)
        /\ taken = 0

Advance ==
    /\ ~fight.finished /\ fight.asked = 0 /\ taken < MaxTurns
    /\ \E fate \in Fates : fight' = Quiet(Advanced(Under(fight, fate)))
    /\ taken' = taken + 1

Act ==
    /\ ~fight.finished /\ fight.asked # 0
    /\ \E choice \in Offered(fight, fight.asked), fate \in Fates :
          fight' = Quiet(Acted(Under(fight, fate), choice[1], choice[2]))
    /\ UNCHANGED taken

Pass ==
    /\ fight.asked # 0
    /\ fight' = Passed(fight)
    /\ UNCHANGED taken

\* A battle that is over, or was taken as far as it is to be, stays as it is.
Rest ==
    /\ fight.finished \/ (fight.asked = 0 /\ taken = MaxTurns)
    /\ UNCHANGED vars

Next ==
    \/ Advance
    \/ Act
    \/ Pass
    \/ Rest

Spec == Init /\ [][Next]_vars

-----------------------------------------------------------------------------
(* What has to be true between two calls.                                  *)

\* The living have health and no more of it than their maximum; the fallen have none.
\* A maximum is computed, never kept, so whatever changes a status moves it.
HealthUnderMaximum ==
    \A i \in Ids(fight) :
        LET u == fight.units[i] IN
        IF u.dead THEN u.hp = 0 ELSE u.hp \in 1..MaxHP(u)

\* The queue holds the living and nobody else, each at the speed it has now, with a turn
\* that is not in the past and not more than one whole wait away.  Speeds change in the
\* middle of turns, from statuses that come, go and run out.
QueueFollowsTheUnits ==
    /\ Queued(fight.queue) = Living(fight)
    /\ ~fight.finished => \A i \in Living(fight) :
          fight.queue.entries[i].speed = AtLeastOne(SpeedOf(fight.units[i]))
    /\ WaitsAreOwed(fight.queue)

\* A grant behind a gate of health is held exactly while the gate stands open.
GatesMatchHealth ==
    \A i \in Living(fight) :
        \A g \in ToSet(GrantsOf(fight.units[i])) :
            LET u == fight.units[i] IN
            Gated(g.gate) => (Holds(u.statuses, g.grant.status) <=> GateHolds(g.gate, u.hp, MaxHP(u)))

\* Nobody stays whose stay is over: a bound summon falls with its summoner, and a timed
\* one has as many turns in all as its skill gave it.
SummonsLeaveInTime ==
    \A i \in Living(fight) :
        LET u == fight.units[i] IN
        /\ u.bound => ~fight.units[u.summoner].dead
        /\ u.leaves >= 0 /\ u.summoner # 0 =>
              \E n \in DOMAIN fight.units[u.summoner].skills :
                  LET summons == SkillBook[fight.units[u.summoner].skills[n]].summons IN
                  summons.lasts = u.leaves + fight.queue.entries[i].turns

\* A battle keeps the promise of a contest.
Standing == {side \in Side : OnSide(fight, side) # {}}
Promise == INSTANCE Contest WITH
    Sides <- Side, Nobody <- "nobody", standing <- Standing,
    asked <- IF fight.asked = 0 THEN "nobody" ELSE fight.units[fight.asked].side,
    verdict <- CASE ~fight.finished -> "open"
                 [] fight.finished /\ fight.winner \in Side -> fight.winner
                 [] OTHER -> "draw"
ContestSpec == Promise!Spec
=============================================================================
