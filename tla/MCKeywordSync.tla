--------------------------- MODULE MCKeywordSync ---------------------------
(* KeywordSync with small sets of everything. *)
EXTENDS KeywordSync, TLC

CONSTANTS t1, t2, w1, w2, p1, p2

Symmetry == Permutations(Tasks) \cup Permutations(Words) \cup Permutations(Prices)

=============================================================================
