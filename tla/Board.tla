------------------------------- MODULE Board -------------------------------
(***************************************************************************)
(* The board (internal/core/hex) and the shapes of an area skill           *)
(* (internal/core/pattern).  A cell is <<column, row>>; the ally side is   *)
(* columns 0 to 2 with its front at 2, the enemy side 3 to 5 with its      *)
(* front at 3.  Columns are hexes, odd ones half a cell lower, so a step   *)
(* is taken on the cube <<x, z>> (y is -x-z) and converted back.           *)
(***************************************************************************)
EXTENDS Integers, Sequences, SequencesExt

Cols == 6
Rows == 3
FormationCols == 3
BoardSlots == FormationCols * Rows
Side == {"ally", "enemy"}

Opposing(side) == IF side = "ally" THEN "enemy" ELSE "ally"
OnBoard(cell) == cell[1] \in 0..Cols-1 /\ cell[2] \in 0..Rows-1
SideOf(cell) == IF cell[1] < FormationCols THEN "ally" ELSE "enemy"

\* A formation is authored on the ally half; the enemy stands turned half a circle.
Place(side, cell) ==
    IF side = "enemy" THEN <<Cols - 1 - cell[1], Rows - 1 - cell[2]>> ELSE cell

Cube(cell) == <<cell[1], cell[2] - (cell[1] - (cell[1] % 2)) \div 2>>
Offset(cube) == <<cube[1], cube[2] + (cube[1] - (cube[1] % 2)) \div 2>>
Step == [up |-> <<0, -1>>, down |-> <<0, 1>>, upper_right |-> <<1, -1>>,
         lower_right |-> <<1, 0>>, upper_left |-> <<-1, 0>>, lower_left |-> <<-1, 1>>]

\* The rows of a side from the front to the back.
Rank(side, depth) ==
    {<<IF side = "ally" THEN FormationCols - depth ELSE FormationCols - 1 + depth, row>> :
        row \in 0..Rows-1}

\* Where a chain of steps leads, in the eyes of the caster's side.
Walk(side, cell, chain) ==
    LET Go(cube, direction) == <<cube[1] + Step[direction][1], cube[2] + Step[direction][2]>>
    IN  Place(side, Offset(FoldLeft(Go, Cube(Place(side, cell)), chain)))

\* The cells a shape covers, the one aimed at first: each once, none off the board,
\* and unless the skill reaches across, none on the other half.
Covered(splash, primary, across, side) ==
    LET Add(cells, chain) ==
          LET cell == Walk(side, primary, chain)
          IN  IF /\ OnBoard(cell) /\ ~Contains(cells, cell)
                 /\ across \/ SideOf(cell) = SideOf(primary)
              THEN Append(cells, cell) ELSE cells
    IN  FoldLeft(Add, <<primary>>, splash)
=============================================================================
