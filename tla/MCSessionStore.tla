--------------------------- MODULE MCSessionStore ---------------------------
(* SessionStore for TLC, over both kinds of store: two threads over the    *)
(* JSON store, where every write is a session, or one thread over an SQL   *)
(* store, whose direct writes and reloads are safe only when alone.        *)
EXTENDS SessionStore

VARIABLE sql    \* which store this behaviour runs over

Sql == INSTANCE SessionStore WITH SqlStore <- TRUE
Alone == CHOOSE t \in Threads : TRUE

MCInit == Init /\ sql \in BOOLEAN

MCNext ==
    \/ ~sql /\ UNCHANGED sql /\ Next
    \/ sql /\ UNCHANGED sql /\ Sql!Restart
    \/ sql /\ UNCHANGED sql /\ Sql!Step(Alone)

\* the fairness of SessionStore
MCFairSpec == MCInit /\ [][MCNext]_<<vars, sql>> /\ \A t \in Threads : WF_vars(Progress(t))
=============================================================================
