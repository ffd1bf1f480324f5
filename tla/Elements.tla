------------------------------ MODULE Elements ------------------------------
(***************************************************************************)
(* The element chart (internal/core/element) and the terms statuses put on *)
(* a unit's numbers (internal/core/modifier).  The chart is authored as    *)
(* cycles, pairs that beat each other and elements outside both; an        *)
(* affinity is one element or two.                                         *)
(***************************************************************************)
EXTENDS Shares

CONSTANTS Chart,        \* [cycles, mutual, inert, neutral, advantage, disadvantage]
          Ceilings,     \* stat -> the most a unit may be listed with
          Bounds        \* [headroom, floorFraction, maxAffinityScale]

Stat == {"hp", "attack", "defense", "speed", "accuracy", "dodge"}

Beats ==
    UNION {{<<chain[i], chain[1 + (i % Len(chain))]>> : i \in DOMAIN chain} : chain \in Chart.cycles}
    \cup UNION {{<<pair[1], pair[2]>>, <<pair[2], pair[1]>>} : pair \in Chart.mutual}
InACycle == UNION {ToSet(chain) : chain \in Chart.cycles}
InAPair == UNION {ToSet(pair) : pair \in Chart.mutual}
Element == InACycle \cup InAPair \cup Chart.inert

\* What ParseChart refuses: an element in two classes, a pair nobody declared that
\* beats each other, and cycles that give their members unequal degrees.
ChartIsFair ==
    LET strengths(e) == Cardinality({d \in Element : <<e, d>> \in Beats})
        weaknesses(e) == Cardinality({a \in Element : <<a, e>> \in Beats})
        edges == Total(SetToSeq(Chart.cycles), Len) + 2 * Cardinality(Chart.mutual)
    IN  /\ 0 < Chart.disadvantage /\ Chart.disadvantage < Chart.neutral
        /\ Chart.neutral < Chart.advantage
        /\ \A chain \in Chart.cycles : Len(chain) >= 3
        /\ Cardinality(Beats) = edges /\ \A e \in Element : <<e, e>> \notin Beats
        /\ InACycle \cap InAPair = {} /\ Chart.inert \cap (InACycle \cup InAPair) = {}
        /\ \A a, d \in Element : <<a, d>> \in Beats /\ <<d, a>> \in Beats =>
              \E pair \in Chart.mutual : ToSet(pair) = {a, d}
        /\ \A e \in InAPair : strengths(e) = 1 /\ weaknesses(e) = 1
        /\ \A e, f \in InACycle : strengths(e) = weaknesses(e) /\ strengths(e) = strengths(f)

Multiplier(attacker, defender) ==
    CASE <<attacker, defender>> \in Beats -> Chart.advantage
      [] <<attacker, defender>> \notin Beats /\ <<defender, attacker>> \in Beats ->
            Chart.disadvantage
      [] OTHER -> Chart.neutral

MultiplierAgainst(attacker, affinity) ==
    LET first == Multiplier(attacker, affinity[1]) IN
    IF Len(affinity) = 1 THEN first
    ELSE (first * Multiplier(attacker, affinity[2])) \div Chart.neutral

\* Two elements make an affinity when neither is inert nor counters the other.
ValidAffinity(affinity, nothing) ==
    \/ Len(affinity) = 1 /\ affinity[1] \in Element
    \/ /\ Len(affinity) = 2 /\ ToSet(affinity) \subseteq Element
       /\ affinity[1] # affinity[2] /\ nothing \notin ToSet(affinity)
       /\ <<affinity[1], affinity[2]>> \notin Beats /\ <<affinity[2], affinity[1]>> \notin Beats

-----------------------------------------------------------------------------
(* Terms: [target, mode, amount], the flat ones and the shares summed apart. *)

ValidTerm(term) ==
    /\ term.target \in Stat \cup {"affinity"} /\ term.mode \in {"flat", "percent"}
    /\ term.target = "affinity" => term.mode = "percent"
    /\ term.amount # 0
BoundsHold ==
    /\ Bounds.headroom > Base /\ Bounds.maxAffinityScale >= 0
    /\ 0 < Bounds.floorFraction /\ Bounds.floorFraction < Base

SumOf(terms, target, mode) ==
    Total(terms, LAMBDA t : IF t.target = target /\ t.mode = mode THEN t.amount ELSE 0)
Raw(terms, stat, base) ==
    Share(base + SumOf(terms, stat, "flat"), Base + SumOf(terms, stat, "percent"))
\* What a stat comes to: pushed towards its ceiling or its floor, and never under one.
StatOf(terms, stat, base) ==
    LET value == Saturate(base, Raw(terms, stat, base) - base,
                          Share(Ceilings[stat], Bounds.headroom),
                          Share(base, Bounds.floorFraction))
    IN  IF value < 1 THEN 1 ELSE value
\* Terms on affinity stretch an advantage and leave a disadvantage alone.
Stretched(terms, multiplier) ==
    LET factor == Clamped(SumOf(terms, "affinity", "percent"),
                          -Bounds.maxAffinityScale, Bounds.maxAffinityScale)
        shifted == Chart.neutral + Share(multiplier - Chart.neutral, Base + factor)
    IN  IF multiplier <= Chart.neutral THEN multiplier
        ELSE IF shifted < Chart.neutral THEN Chart.neutral ELSE shifted
=============================================================================
