----------------------------- MODULE MCRegistry -----------------------------
(***************************************************************************)
(* An instance of Registry for TLC: two codes and two rooms, so a code is    *)
(* reopened while its last room is on its way out, or stands beside another. *)
(***************************************************************************)
EXTENDS Registry, TLC

CONSTANTS h1, h2, c1, c2, p1, p2, w1, w2

TwoCodes == {0, 1}
TwoRooms == {h1, h2}
TwoCallers == {c1, c2}
TwoClosers == {p1, p2}
OneWaiter == {w1}

=============================================================================
