------------------------------- MODULE Skills -------------------------------
(***************************************************************************)
(* What a skill asks and offers (internal/core/skill) and what a trait     *)
(* does for as long as it is in force (internal/core/passive).  A field    *)
(* the code keeps as a pointer is a record here that means nothing when    *)
(* its first field is empty: the books refuse to load such a one.          *)
(***************************************************************************)
EXTENDS Elements, Combat

CONSTANTS SkillBook,            \* id -> skill
          PassiveBook,          \* id -> passive
          MaxSpendPower,        \* the most one spend of a counter may buy in power ...
          MaxSpendRestore       \* ... and in healing

Reaches(target, from, at) ==
    CASE target = "all"  -> TRUE
      [] target = "ally" -> at = from
      [] target = "self" -> FALSE
      [] OTHER           -> at # from

\* A condition on a status or on health: of the target (Requires), of the caster
\* (SelfRequires).  "seen" is how many stacks it holds, its health and its maximum.
Declared(condition) == condition.status # "" \/ condition.belowHealth > 0
Seen(stacks, health, maximum) == [stacks |-> stacks, health |-> health, maximum |-> maximum]
MetBy(condition, seen) ==
    /\ Declared(condition)
    /\ condition.status # "" => seen.stacks >= condition.minStacks
    /\ condition.belowStacks > 0 => seen.stacks < condition.belowStacks
    /\ condition.belowHealth > 0 =>
          AtOrBelowShare(seen.health, seen.maximum, condition.belowHealth)

\* How many stacks a use of the condition takes: what is asked, no more than are held,
\* and no more than the spend may pay for.
Takes(condition, held) ==
    LET asked == IF condition.consumeStacks <= 0 THEN held ELSE AtMost(condition.consumeStacks, held)
        paid  == IF condition.stackPower > 0
                 THEN AtMost(asked, MaxSpendPower \div condition.stackPower) ELSE asked
    IN  CASE ~Declared(condition) \/ ~condition.consume -> 0
          [] condition.consume /\ condition.stackRestore > 0 ->
                AtMost(paid, MaxSpendRestore \div condition.stackRestore)
          [] OTHER -> paid

\* Whether a gated skill is refused: too little fuel held, or its uses all spent.
GateCloses(condition, held) ==
    /\ Declared(condition) /\ condition.gates
    /\ \/ held < condition.minStacks
       \/ condition.belowStacks > 0 /\ held >= condition.belowStacks

Amplified(known, seen) == MetBy(known.requires, seen)
PowerAgainst(known, seen) ==
    known.power + IF Amplified(known, seen) THEN known.requires.bonusPower ELSE 0

\* What its caster brings to every strike of one use, read once, before it pays.
Swing(known, seen) ==
    LET met == MetBy(known.selfRequires, seen)
        taken == Takes(known.selfRequires, seen.stacks)
    IN  [bonus   |-> CASE ~met -> 0
                       [] met /\ known.selfRequires.stackPower > 0 ->
                             known.selfRequires.stackPower * taken
                       [] OTHER -> known.selfRequires.bonusPower,
         share   |-> Gradient(seen.health, seen.maximum, known.selfGradient),
         restore |-> IF met THEN known.selfRequires.stackRestore * taken ELSE 0]

\* Who may carry a skill, by element and by the elements it is restricted to.
CanCarry(affinity, known, nothing) ==
    /\ known.element = nothing \/ known.element \in ToSet(affinity)
    /\ known.restrict = {} \/ known.restrict \cap ToSet(affinity) # {}

-----------------------------------------------------------------------------
(* Traits.  A gate is [below, above], neither set when there is none.      *)

Gated(gate) == gate.below > 0 \/ gate.above > 0
GateHolds(gate, health, maximum) ==
    CASE gate.above > 0 -> AtOrAboveShare(health, maximum, gate.above)
      [] gate.above = 0 /\ gate.below > 0 -> AtOrBelowShare(health, maximum, gate.below)
      [] OTHER -> TRUE
\* A grant's own gate stands in for the trait's.
GateOver(passive, grant) == IF Gated(grant.while) THEN grant.while ELSE passive.while
Answers(passive) == passive.replies.power > 0 \/ passive.replies.applies # <<>>
\* How much of a status a trait refuses, and how much more of it a trait gives.
Refuses(passive, status) ==
    IF status \in DOMAIN passive.resists THEN passive.resists[status] ELSE 0
Boosts(passive, status) ==
    IF status \in DOMAIN passive.amplifies THEN passive.amplifies[status]
    ELSE [effect |-> 0, chance |-> 0]
=============================================================================
