--------------------------- MODULE MCReviewEngine ---------------------------
(* Small instances of ReviewEngine for TLC. *)
EXTENDS ReviewEngine, TLC

Config(template, kNode, kPoint, enabled) ==
    [template |-> template, kNode |-> kNode, kPoint |-> kPoint, enabled |-> enabled]

\* the code's 10 nodes / 200 points, scaled down
MCDefault == Config(<<"CONVERGENCE">>, 2, 3, TRUE)
\* another order of elements, other thresholds, no threshold roll-up
MCOther == {Config(<<"REVIEW_TASK", "CONVERGENCE">>, 1, 3, FALSE)}

\* threads differ in nothing but their fuel (used without liveness properties)
ThreadSymmetry == Permutations(Threads)
=============================================================================
