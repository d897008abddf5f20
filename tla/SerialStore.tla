----------------------------- MODULE SerialStore -----------------------------
(***************************************************************************)
(* What the mutation sessions of Learning-Pyramid promise (docs/spec.md,   *)
(* 0b.1-0b.4): project states change one commit at a time, a commit adds   *)
(* its own objects to everything committed before, and a deleted project   *)
(* stays deleted.                                                          *)
(***************************************************************************)
EXTENDS Naturals

CONSTANTS Projects, Ids

VARIABLE store      \* the committed projects: a function on those created

Project == [state: {"ACTIVE", "DELETED"}, objects: SUBSET Ids]

Init == store = [p \in {} |-> {}]

Put(p, value) == store' = [q \in DOMAIN store \cup {p} |-> IF q = p THEN value ELSE store[q]]

Active(p) == p \in DOMAIN store /\ store[p].state = "ACTIVE"

Create(p) ==
    /\ p \notin DOMAIN store
    /\ Put(p, [state |-> "ACTIVE", objects |-> {}])

Commit(p, new) ==
    /\ Active(p)
    /\ new # {} /\ new \cap store[p].objects = {}
    /\ Put(p, [state |-> "ACTIVE", objects |-> store[p].objects \cup new])

Delete(p) ==
    /\ Active(p)
    /\ Put(p, [state |-> "DELETED", objects |-> {}])

Next == \E p \in Projects : Create(p) \/ Delete(p) \/ \E new \in SUBSET Ids : Commit(p, new)

Spec == Init /\ [][Next]_store

=============================================================================
