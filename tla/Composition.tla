----------------------------- MODULE Composition -----------------------------
(***************************************************************************)
(* What a squad is awarded for what its members share                      *)
(* (internal/core/composition): an element, or a column of the formation.  *)
(* It is counted once, over the roster a battle opens with, and held from  *)
(* then on by everyone or by those who share.                              *)
(***************************************************************************)
EXTENDS Status, Elements, FiniteSets

CONSTANTS BonusBook,    \* the bonuses, as ParseBook let them through
          MaxSquadSize

MinimumRung == 2

ColumnValue == <<"column0", "column1", "column2">>

\* What a member counts towards: its elements but the inert ones, or its column.
Values(axis, member) ==
    IF axis = "column" THEN {ColumnValue[member.slot[1] + 1]} ELSE ToSet(member.affinity) \ Chart.inert

Sharers(members, axis, value) == {n \in DOMAIN members : value \in Values(axis, members[n])}

\* The highest rung a count reaches, as a set of at most one.
Reached(bonus, count) ==
    {rung \in ToSet(bonus.rungs) :
        /\ count >= rung.at
        /\ \A higher \in ToSet(bonus.rungs) : higher.at > rung.at => count < higher.at}

\* The grants one member of a squad holds, in the order of the book.
Awarded(members, n) ==
    LET Counted(bonus) ==
          {value \in UNION {Values(bonus.axis, members[k]) : k \in DOMAIN members} :
              /\ bonus.value \in {"", value}
              /\ bonus.scope = "squad" \/ value \in Values(bonus.axis, members[n])}
        From(bonus, value) ==
          {rung.grants : rung \in Reached(bonus,
                            Cardinality(Sharers(members, bonus.axis, value)))}
        Of(bonus) == Flattened(Flattened(
            [k \in 1..Cardinality(Counted(bonus)) |->
                SetToSeq(From(bonus, SetToSeq(Counted(bonus))[k]))]))
    IN  Flattened([k \in DOMAIN BonusBook |-> Of(BonusBook[k])])

\* What ParseBook refuses of a bonus.
ValidBonus(bonus) ==
    /\ bonus.axis \in {"element", "column"} /\ bonus.scope \in {"squad", "sharers"}
    /\ bonus.axis = "element" => bonus.value \notin Chart.inert
    /\ bonus.rungs # <<>>
    /\ \A k \in DOMAIN bonus.rungs :
         LET rung == bonus.rungs[k] IN
         /\ rung.at \in MinimumRung..MaxSquadSize
         /\ k > 1 => rung.at > bonus.rungs[k - 1].at
         /\ rung.grants # <<>>
         /\ \A g \in DOMAIN rung.grants :
              /\ Kind(rung.grants[g].status).permanent
              /\ rung.grants[g].stacks \in 1..Kind(rung.grants[g].status).maxStacks
              /\ \A h \in DOMAIN rung.grants :
                    rung.grants[h].status = rung.grants[g].status => h = g
=============================================================================
