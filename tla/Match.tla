------------------------------- MODULE Match -------------------------------
(***************************************************************************)
(* What a room promises the two players, whatever happens inside it: a      *)
(* match is a series of at most Battles battles, it is decided as soon as   *)
(* one side has a majority of them or all are fought, nobody loses a win,   *)
(* and once it is over it is over for good.  Room implements it.            *)
(***************************************************************************)
EXTENDS Naturals

CONSTANTS Battles, Player

VARIABLES phase, wins, fought, verdict

vars == <<phase, wins, fought, verdict>>

Majority(p) == 2 * wins[p] > Battles

Init ==
  /\ phase = "gathering"
  /\ wins = [p \in Player |-> 0]
  /\ fought = 0
  /\ verdict = "unfinished"

Start ==
  /\ phase = "gathering"
  /\ phase' = "playing"
  /\ UNCHANGED <<wins, fought, verdict>>

\* One more battle is over, won by a player or by nobody.
Fight ==
  /\ phase = "playing"
  /\ fought' = fought + 1
  /\ \E winner \in Player \cup {"none"} :
       wins' = [p \in Player |-> IF p = winner THEN wins[p] + 1 ELSE wins[p]]
  /\ IF fought' = Battles \/ (\E p \in Player : Majority(p)')
     THEN /\ phase' = "over"
          /\ verdict' = IF \E p \in Player : \A q \in Player \ {p} : wins'[p] > wins'[q]
                        THEN "won" ELSE "drawn"
     ELSE UNCHANGED <<phase, verdict>>

\* A player left, or the draft ran out of time: nobody wins what is left.
Abandon ==
  /\ phase = "playing"
  /\ phase' = "over"
  /\ verdict' = "abandoned"
  /\ UNCHANGED <<wins, fought>>

Next == Start \/ Fight \/ Abandon

Spec == Init /\ [][Next]_vars

=============================================================================
