------------------------------ MODULE MCClient ------------------------------
(***************************************************************************)
(* Instances of Client for TLC: which entries of the menu the reader uses.  *)
(***************************************************************************)
EXTENDS Client, TLC

PairingAndJoin == {"pairing", "join"}

=============================================================================
