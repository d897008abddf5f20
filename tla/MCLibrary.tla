----------------------------- MODULE MCLibrary -----------------------------
(* A root folder with two folders of one file each. *)
EXTENDS Library

CONSTANTS a, b, dirA, dirB

MCUp == (a :> dirA) @@ (b :> dirB) @@ (dirA :> Root) @@ (dirB :> Root)
MCOlder == (a :> 10) @@ (b :> 11) @@ [n \in 1..5 |-> IF n = 1 THEN 1 ELSE 10 + n]
MCFresh == [COURSE |-> 1, BOOK |-> 4, MISTAKE_BOOK |-> 2]
Symmetric == Permutations(Points)
=============================================================================
