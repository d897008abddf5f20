--------------------------- MODULE MCProjectRows ---------------------------
(* Instances of ProjectRows for TLC. *)
EXTENDS ProjectRows, TLC

Symmetry == Permutations(Projects) \cup Permutations(Points) \cup Permutations(Threads)

=============================================================================
