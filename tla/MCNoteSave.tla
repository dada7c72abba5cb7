----------------------------- MODULE MCNoteSave -----------------------------
(* A few calls that save the same note. *)
EXTENDS NoteSave, TLC

CONSTANTS c1, c2

CallSymmetry == Permutations(Calls)

=============================================================================
