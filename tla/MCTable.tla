------------------------------ MODULE MCTable ------------------------------
(***************************************************************************)
(* Instances of Table for TLC: one room that does not draft, and the         *)
(* connections that come and go around it.                                   *)
(***************************************************************************)
EXTENDS Table, TLC

CONSTANTS c1, c2, c3, c4, p1, p2, furthest, last

TinyPool == {p1, p2}
OneName == {furthest}
TinyResolve == [c \in TinyPool |-> (furthest :> last)]
OneCell == {1}

TwoConns == {c1, c2}
ThreeConns == {c1, c2, c3}
FourConns == {c1, c2, c3, c4}

Alike == Permutations(FourConns)

HostServes == AwkwardTimings \ {"shutdown"}
HostStops == {"shutdown"}

=============================================================================
