----------------------------- MODULE MCMembership -----------------------------
(* A small instance of Membership for TLC. *)
EXTENDS Membership, TLC

\* Users differ in nothing but their rows.
UserSymmetry == Permutations(Users)
=============================================================================
