------------------------------ MODULE MCDraft ------------------------------
(***************************************************************************)
(* Instances of Draft for TLC.  `fork` is a line that forks (its furthest   *)
(* form has no answer and the name has to be given), the rest are not.      *)
(***************************************************************************)
EXTENDS Draft, TLC

CONSTANTS fork, c1, c2, c3, c4, c5, furthest, left, last

Pool6 == {fork, c1, c2, c3, c4, c5}

BothNames == {furthest, left}

ResolveIn(pool) ==
  [c \in pool |->
     IF c = fork THEN (furthest :> NoStage @@ left :> left)
                 ELSE (furthest :> last @@ left :> NoStage)]

Resolve6 == ResolveIn(Pool6)

TwoCells == {1, 3}

Plain == Permutations({c1, c2, c3, c4, c5})

=============================================================================
