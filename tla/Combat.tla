------------------------------- MODULE Combat -------------------------------
(***************************************************************************)
(* What a blow is worth and whether it lands (internal/core/combat, with   *)
(* core/rng).                                                              *)
(*                                                                         *)
(* A source of randomness is the list of answers it still has to give,     *)
(* used in a circle, and how many it has given: [fate, at].  A chance of   *)
(* nothing and a certainty ask it nothing, as in the code.                 *)
(***************************************************************************)
EXTENDS Shares

CONSTANT Rules          \* the rules the code reads, as Rules.Validate let them through

Draw(source, permille) ==
    IF permille <= 0 \/ permille >= Base
    THEN [yes |-> permille >= Base, source |-> source]
    ELSE [yes |-> source.fate[1 + (source.at % Len(source.fate))],
          source |-> [source EXCEPT !.at = @ + 1]]

Restored(stat, multiplier) == Scaled(stat, multiplier)
PickScaling(source, base, current) == IF source = "base" THEN base ELSE current

Pierced(defense, pierce) ==
    CASE defense <= 0 \/ pierce >= Base -> 0
      [] defense > 0 /\ pierce <= 0     -> defense
      [] OTHER                          -> Scaled(defense, Base - pierce)

Divided(attack, defense, multiplier, affinity, crit) ==
    IF attack <= 0 \/ multiplier <= 0 \/ affinity <= 0 THEN 0
    ELSE (attack * multiplier * affinity * crit * Rules.defenseConstant)
           \div (Base * Base * Base * (Rules.defenseConstant + Positive(defense)))

Strike(hit, crit) ==
    LET soft == Pierced(hit.defense, hit.pierce)
        whole == Divided(hit.scaling, soft, hit.multiplier, hit.affinity, crit)
        split == Divided(hit.scaling, soft, Scaled(hit.multiplier, Base - hit.convert),
                         hit.affinity, crit)
                 + Divided(hit.scaling, 0, Scaled(hit.multiplier, hit.convert), hit.affinity, crit)
        dealt == IF hit.convert <= 0 THEN whole ELSE split
        harmless == hit.scaling <= 0 \/ hit.multiplier <= 0 \/ hit.affinity <= 0
    IN  IF hit.convert <= 0 /\ harmless THEN 0
        ELSE IF dealt < Rules.minimumDamage THEN Rules.minimumDamage ELSE dealt

Damage(scaling, defense, power, affinity) ==
    Strike([scaling |-> scaling, defense |-> defense, pierce |-> 0, multiplier |-> power,
            affinity |-> affinity, convert |-> 0], Base)

\* Accuracy fills part of what the skill may miss; dodge takes it back, to a floor.
Chance(hit) ==
    LET accuracy == Positive(hit.skillAccuracy)
        landed == accuracy + Saturate(0, Positive(hit.accuracy), Base - accuracy, 0)
    IN  CASE hit.skillAccuracy >= Base -> Base
          [] hit.skillAccuracy < Base /\ (hit.dodge <= 0 \/ landed <= Rules.minHitChance) -> landed
          [] OTHER -> Saturate(landed, -hit.dodge, Base, Rules.minHitChance)

\* The strikes a skill starts with, and one more for as long as it repeats.
Again(hit, acc, n) ==
    LET drawn == Draw(acc.source, hit.repeat) IN
    IF acc.done THEN acc
    ELSE [count |-> IF drawn.yes THEN n ELSE acc.count,
          source |-> drawn.source, done |-> ~drawn.yes]
RollStrikes(hit, source) ==
    LET least == IF hit.strikes < 1 THEN 1 ELSE hit.strikes IN
    FoldLeft(LAMBDA acc, n : Again(hit, acc, n),
             [count |-> least, source |-> source, done |-> hit.repeat <= 0],
             [i \in 1..(hit.maxStrikes - least) |-> least + i])

\* Roll: each strike misses, or is turned by a block, or strikes, critically or not.
Tried(acc, source, outcome, damage) ==
    [acc EXCEPT !.source = source,
                !.blocks = IF outcome = "blocked" THEN @ - 1 ELSE @,
                !.attempts = Append(@, [outcome |-> outcome, damage |-> damage])]
Connected(acc, hit, crit) ==
    Tried(acc, crit.source, "struck",
          Strike(hit, IF crit.yes THEN Rules.criticalMultiplier ELSE Base))
Attempt(acc, hit, landed) ==
    CASE ~landed.yes -> Tried(acc, landed.source, "missed", 0)
      [] landed.yes /\ acc.blocks > 0 -> Tried(acc, landed.source, "blocked", 0)
      [] OTHER -> Connected(acc, hit, Draw(landed.source, hit.crit))
RollCounted(hit, blocks, count) ==
    FoldLeft(LAMBDA acc, n : Attempt(acc, hit, Draw(acc.source, Chance(hit))),
             [source |-> count.source, blocks |-> blocks, attempts |-> <<>>],
             [n \in 1..count.count |-> n])
Roll(hit, blocks, source) == RollCounted(hit, blocks, RollStrikes(hit, source))

\* Absorb: a pool swallows the damage of the strikes in order until it is empty.
Eaten(acc, attempt, eaten) ==
    [pool |-> acc.pool - eaten,
     attempts |-> Append(acc.attempts, [attempt EXCEPT !.damage = @ - eaten])]
Absorb(attempts, pool) ==
    FoldLeft(LAMBDA acc, attempt : Eaten(acc, attempt, AtMost(attempt.damage, acc.pool)),
             [pool |-> Positive(pool), attempts |-> <<>>], attempts)

\* A share that grows as health falls, whole only at nothing.
Gradient(health, maximum, atEmpty) ==
    CASE maximum <= 0 \/ atEmpty <= 0 \/ health >= maximum -> 0
      [] maximum > 0 /\ atEmpty > 0 /\ health <= 0 -> atEmpty
      [] OTHER -> (atEmpty * (maximum - health)) \div maximum

Swung(power, bonus, share) ==
    ((Positive(power) + Positive(bonus)) * (Base + Positive(share))) \div Base
=============================================================================
