----------------------------- MODULE MCAccounts -----------------------------
(* A small instance of Accounts for TLC: the mixes of requests that meet.  *)
EXTENDS Accounts, TLC

MCMixes ==
    { {"register", "backup"},
      {"role", "backup"},
      {"register", "role"},
      {"register", "login"},
      {"login", "tick"},
      {"login", "password", "logout"},
      {"login", "status"},
      {"friend", "answer", "unfriend"},
      {"study"} }

\* Requests differ in nothing but what they do.
ThreadSymmetry == Permutations(Threads)
=============================================================================
