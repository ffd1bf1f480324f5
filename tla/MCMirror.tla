------------------------------ MODULE MCMirror ------------------------------
(***************************************************************************)
(* Instances of Mirror for TLC: a series between two squads, and one whose   *)
(* battles are drafted over the smallest pool there is.                      *)
(***************************************************************************)
EXTENDS Mirror, TLC

CONSTANTS p1, p2, furthest, last

TinyPool == {p1, p2}
OneName == {furthest}
TinyResolve == [c \in TinyPool |-> (furthest :> last)]
OneCell == {1}

=============================================================================
