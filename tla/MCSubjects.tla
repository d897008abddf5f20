----------------------------- MODULE MCSubjects -----------------------------
(* A small instance of Subjects for TLC. *)
EXTENDS Subjects, TLC

\* Calls differ in what they do, titles in nothing.
SubjectsSymmetry == Permutations(Threads) \cup Permutations(Titles)
=============================================================================
