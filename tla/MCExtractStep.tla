--------------------------- MODULE MCExtractStep ---------------------------
(* ExtractStep for TLC: two jobs, two accounts, transactions the two share. *)
EXTENDS ExtractStep, TLC
CONSTANTS j1, j2, t1, t2
MCSymmetry == Permutations({j1, j2}) \cup Permutations({t1, t2})
=============================================================================
