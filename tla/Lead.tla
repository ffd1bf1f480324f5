-------------------------------- MODULE Lead --------------------------------
(***************************************************************************)
(* In which order a room enlists its two squads (internal/room/lead.go).   *)
(* Two units of one speed act in the order they were enlisted in for as    *)
(* long as neither speed moves, so the lead of each tie alternates between *)
(* the sides.  An entry stands for itself by its place in the roster.      *)
(***************************************************************************)
EXTENDS Battle

\* The speeds the turn queue will read: a battle opened for them and thrown away.
EnlistedSpeeds(roster) == [n \in DOMAIN roster |-> SpeedOf(New(roster).units[n])]

\* The speeds there are, each where it first appears.
Groups(speeds) ==
    FoldLeft(LAMBDA order, speed : IF speed \in ToSet(order) THEN order ELSE Append(order, speed),
             <<>>, speeds)
\* The units of one side in one group, in the order they were authored in.
Half(sides, speeds, speed, side) ==
    SelectSeq([n \in DOMAIN sides |-> n], LAMBDA n : sides[n] = side /\ speeds[n] = speed)

Pair(leads, follow, i) ==
    SubSeq(leads, i, AtMost(i, Len(leads))) \o SubSeq(follow, i, AtMost(i, Len(follow)))
\* Pair by pair, and the lead passes with every pair, one that lacks a half included.
Contested(acc, ours, theirs) ==
    FoldLeft(LAMBDA a, i : [out |-> a.out \o IF a.leading THEN Pair(ours, theirs, i)
                                             ELSE Pair(theirs, ours, i),
                            leading |-> ~a.leading],
             acc, [i \in 1..Max({Len(ours), Len(theirs)}) |-> i])
\* A group of one side is nobody's tie: it keeps its order, and the lead where it is.
Enlist(acc, ours, theirs) ==
    IF ours = <<>> \/ theirs = <<>> THEN [acc EXCEPT !.out = @ \o ours \o theirs]
    ELSE Contested(acc, ours, theirs)

\* alternateContested; the home squad is the ally half, and leads the first pair.
Alternated(sides, speeds) ==
    FoldLeft(LAMBDA acc, speed : Enlist(acc, Half(sides, speeds, speed, "ally"),
                                             Half(sides, speeds, speed, "enemy")),
             [out |-> <<>>, leading |-> TRUE], Groups(speeds)).out
Lined(roster) ==
    LET order == Alternated([n \in DOMAIN roster |-> roster[n].side], EnlistedSpeeds(roster))
    IN  [k \in DOMAIN order |-> roster[order[k]]]
=============================================================================
