------------------------------- MODULE MCRoom -------------------------------
(***************************************************************************)
(* Instances of Room for TLC.  A room that drafts does it over the smallest *)
(* pool with a choice in it; Draft's own runs vary the draft.               *)
(***************************************************************************)
EXTENDS Room, TLC

CONSTANTS c1, c2, c3, c4, furthest, last

TinyPool == {c1, c2}

OneName == {furthest}

TinyResolve == [c \in TinyPool |-> (furthest :> last)]

OneCell == {1}

=============================================================================
