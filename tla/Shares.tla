------------------------------- MODULE Shares -------------------------------
(***************************************************************************)
(* Shares of a whole in integers (internal/core/scale), with the helpers   *)
(* the rest of the battle counts with.  The code multiplies on 128 bits    *)
(* where 64 could overflow and stops at the largest amount; integers do    *)
(* not overflow here, so what is left of that arithmetic is its order:     *)
(* everything is multiplied first and divided once, downwards.             *)
(***************************************************************************)
EXTENDS Integers, Sequences, SequencesExt

CONSTANT Base           \* a whole, in parts: 1000 in the code

ASSUME BaseAssumption == Base \in Nat \ {0}

\* The elements of a sequence that are in a set, and the sequences of a sequence one after
\* the other: folds, where the libraries recur.
Only(seq, set) == FoldLeft(LAMBDA kept, x : IF x \in set THEN Append(kept, x) ELSE kept, <<>>, seq)
Flattened(seqs) == FoldLeft(LAMBDA joined, seq : joined \o seq, <<>>, seqs)

Total(seq, Of(_)) == FoldLeft(LAMBDA sum, x : sum + Of(x), 0, seq)
Positive(n) == IF n < 0 THEN 0 ELSE n
AtMost(n, cap) == IF n > cap THEN cap ELSE n
Clamped(n, low, high) == IF n < low THEN low ELSE AtMost(n, high)
\* Go divides towards nothing, TLA+ downwards.
Quot(n, d) == IF n < 0 THEN -((-n) \div d) ELSE n \div d
Share(value, share) == Quot(value * share, Base)
Scaled(value, share) == IF value <= 0 \/ share <= 0 THEN 0 ELSE Share(value, share)

AtOrBelowShare(value, maximum, share) == maximum > 0 /\ value * Base <= share * maximum
AtOrAboveShare(value, maximum, share) == maximum > 0 /\ value * Base >= share * maximum

\* A value moves part of the way to its limit, further the stronger the push, never past.
Saturate(base, delta, ceiling, floor) ==
    LET up == ceiling - base
        down == base - floor
    IN  CASE delta > 0 /\ up > 0   -> base + (up * delta) \div (up + delta)
          [] delta < 0 /\ down > 0 -> base - (down * (-delta)) \div (down - delta)
          [] OTHER                 -> base
=============================================================================
