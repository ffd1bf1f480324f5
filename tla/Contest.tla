------------------------------- MODULE Contest -------------------------------
(***************************************************************************)
(* What a battle promises whoever watches only who is left: two sides      *)
(* stand until one of them does not, a unit of a standing side is asked,   *)
(* and the verdict is the side that is left.  Neither a side nor a battle  *)
(* comes back.                                                             *)
(***************************************************************************)
CONSTANTS Sides, Nobody

VARIABLES asked,        \* the side whose unit is being asked, or Nobody
          standing,     \* the sides with somebody alive
          verdict       \* "open", a side, or "draw"

contestVars == <<asked, standing, verdict>>

Init == asked = Nobody /\ standing = Sides /\ verdict = "open"

Ask == /\ verdict = "open" /\ asked = Nobody
       /\ asked' \in Sides
       /\ UNCHANGED <<standing, verdict>>

\* A turn, or what a unit suffers before it, ends with the same two sides or with one.
TurnTaken ==
    /\ verdict = "open" /\ asked' = Nobody
    /\ \/ UNCHANGED standing /\ verdict' \in {"open", "draw"}
       \/ \E side \in Sides : standing' = {side} /\ verdict' = side

Next == Ask \/ TurnTaken

Spec == Init /\ [][Next]_contestVars
=============================================================================
