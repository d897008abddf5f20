---------------------------- MODULE SessionStore ----------------------------
(***************************************************************************)
(* Mutation sessions over the project store (backend/system/               *)
(* inmemory_system.py, api.py): the process-wide write lock, a session's   *)
(* fixed baseline and its staged objects, commit as persist-then-publish,  *)
(* and a restart that reloads memory from the database.                    *)
(*                                                                         *)
(* With an SQL store, projects are created and deleted by writing the      *)
(* database directly and reloading every project into memory, without the  *)
(* write lock (_create_project_sql_direct, _delete_project_sql_direct).    *)
(*                                                                         *)
(* One action runs from one point where CPython may switch threads (a      *)
(* call, a loop, I/O) to the next that matters.  Between the test of the   *)
(* lock and its assignment there is none, so Enter is atomic.  A read-only *)
(* session keeps a reference to a ProjectStore that is never changed in    *)
(* place and touches nothing modelled here.                                *)
(***************************************************************************)
EXTENDS Naturals, FiniteSets

CONSTANTS
    Threads,    \* server threads
    Projects,   \* project ids
    SqlStore,   \* TRUE: SQLite or PostgreSQL; FALSE: the JSON snapshot store
    MaxIds      \* bound: objects ever created in one project

ASSUME SessionAssumption == SqlStore \in BOOLEAN /\ MaxIds \in Nat

VARIABLES
    mem,        \* g.projects: the published ProjectStores
    ids,        \* g.idgen._counters: the last id given out in each project
    disk,       \* the database: [projects, ids]
    lock,       \* g._write_lock_held
    thread,     \* what each server thread is doing
    acked       \* history: the objects of commits that have returned

vars == <<mem, ids, disk, lock, thread, acked>>

Nothing == [p \in {} |-> {}]
With(f, p, value) == [q \in DOMAIN f \cup {p} |-> IF q = p THEN value ELSE f[q]]
ActiveIn(f, p) == p \in DOMAIN f /\ f[p].state = "ACTIVE"

Live(objects) == [state |-> "ACTIVE", objects |-> objects]
New == Live({})
Deleted == [state |-> "DELETED", objects |-> {}]

Idle == [pc |-> "idle"]
At(t, pc) == thread[t].pc = pc
Goto(t, r) == thread' = [thread EXCEPT ![t] = r]

\* a session: kind tells an update from a bootstrap and a delete
Session(pc, p, kind, base, staged) ==
    [pc |-> pc, project |-> p, kind |-> kind, base |-> base, staged |-> staged]

Init ==
    /\ mem = Nothing /\ disk = [projects |-> Nothing, ids |-> [p \in Projects |-> 0]]
    /\ ids = [p \in Projects |-> 0]
    /\ lock = FALSE
    /\ thread = [t \in Threads |-> Idle]
    /\ acked = [p \in Projects |-> {}]

-----------------------------------------------------------------------------
(* Opening a session.                                                      *)

\* _ensure_project_active
CheckActive(t, p) ==
    /\ At(t, "idle")
    /\ ActiveIn(mem, p)
    /\ Goto(t, [pc |-> "checked", project |-> p])
    /\ UNCHANGED <<mem, ids, disk, lock, acked>>

\* The lock is taken, then the baseline is fetched: if a reload has emptied the
\* memory in the meantime, g.projects[...] raises KeyError and nothing releases
\* the lock.
Enter(t) ==
    /\ At(t, "checked")
    /\ LET p == thread[t].project
       IN  Goto(t, IF ~lock /\ p \in DOMAIN mem
                   THEN Session("open", p, "update", mem[p].objects, {})
                   ELSE Idle)
    /\ lock' = TRUE
    /\ UNCHANGED <<mem, ids, disk, acked>>

\* _begin_project_bootstrap_session: create_project of a store without SQL
Bootstrap(t, p) ==
    /\ ~SqlStore
    /\ At(t, "idle") /\ ~lock
    /\ p \notin DOMAIN mem
    /\ lock' = TRUE
    /\ Goto(t, Session("open", p, "create", {}, {}))
    /\ UNCHANGED <<mem, ids, disk, acked>>

-----------------------------------------------------------------------------
(* Inside a session.                                                       *)

\* a repository's add: a fresh id, refused when the session sees it already
Stage(t) ==
    /\ At(t, "open")
    /\ LET s == thread[t]
           n == ids[s.project] + 1
       IN  /\ s.kind = "update" /\ n <= MaxIds
           /\ ids' = [ids EXCEPT ![s.project] = n]
           /\ IF n \in s.base
              THEN Goto(t, Idle) /\ lock' = FALSE
              ELSE Goto(t, [s EXCEPT !.staged = @ \cup {n}]) /\ UNCHANGED lock
    /\ UNCHANGED <<mem, disk, acked>>

\* delete_project of a store without SQL
MarkDeleted(t) ==
    /\ ~SqlStore
    /\ At(t, "open") /\ thread[t].kind = "update" /\ thread[t].staged = {}
    /\ Goto(t, [thread[t] EXCEPT !.kind = "delete"])
    /\ UNCHANGED <<mem, ids, disk, lock, acked>>

\* rollback(), and every path that fails inside the session
Rollback(t) ==
    /\ At(t, "open")
    /\ lock' = FALSE
    /\ Goto(t, Idle)
    /\ UNCHANGED <<mem, ids, disk, acked>>

-----------------------------------------------------------------------------
(* commit(): check, persist, publish.                                      *)

\* mutant: only the objects of this session are written
FinalStaged(s) == IF s.kind = "delete" THEN Deleted ELSE Live(s.staged)

Final(s) == IF s.kind = "delete" THEN Deleted ELSE Live(s.base \cup s.staged)

\* the project must still be registered and ACTIVE; a bootstrap has no baseline
CommitAllowed(s) ==
    IF s.project \in DOMAIN mem THEN mem[s.project].state = "ACTIVE" ELSE s.kind = "create"

BeginCommit(t) ==
    /\ At(t, "open")
    /\ LET s == thread[t]
       IN  /\ s.kind = "update" => s.staged # {}
           /\ IF CommitAllowed(s)
              THEN Goto(t, [s EXCEPT !.pc = "persist"]) /\ UNCHANGED lock
              ELSE Goto(t, Idle) /\ lock' = FALSE
    /\ UNCHANGED <<mem, ids, disk, acked>>

\* mutant: nothing is saved
PersistSkipped(t) ==
    /\ At(t, "persist")
    /\ Goto(t, [thread[t] EXCEPT !.pc = "publish"])
    /\ UNCHANGED <<mem, ids, disk, lock, acked>>

\* save_project_snapshot: the project and all id counters in one transaction
Persist(t) ==
    /\ At(t, "persist")
    /\ disk' = [projects |-> With(disk.projects, thread[t].project, Final(thread[t])), ids |-> ids]
    /\ Goto(t, [thread[t] EXCEPT !.pc = "publish"])
    /\ UNCHANGED <<mem, ids, lock, acked>>

\* the transaction fails: the session is FAILED and the lock released
PersistFails(t) ==
    /\ At(t, "persist")
    /\ lock' = FALSE
    /\ Goto(t, Idle)
    /\ UNCHANGED <<mem, ids, disk, acked>>

\* mutant: the lock is kept
PublishKeepsLock(t) ==
    /\ At(t, "publish")
    /\ LET s == thread[t]
       IN  /\ mem' = With(mem, s.project, Final(s))
           /\ acked' = [acked EXCEPT ![s.project] = @ \cup s.staged]
    /\ Goto(t, Idle)
    /\ UNCHANGED <<ids, disk, lock>>

Publish(t) ==
    /\ At(t, "publish")
    /\ LET s == thread[t]
       IN  /\ mem' = With(mem, s.project, Final(s))
           /\ acked' = [acked EXCEPT ![s.project] = @ \cup s.staged]
    /\ lock' = FALSE
    /\ Goto(t, Idle)
    /\ UNCHANGED <<ids, disk>>

-----------------------------------------------------------------------------
(* The direct path of an SQL store.                                        *)

\* the bootstrap rows, refused when the project exists
DirectCreate(t, p) ==
    /\ SqlStore
    /\ At(t, "idle")
    /\ p \notin DOMAIN disk.projects
    /\ disk' = [projects |-> With(disk.projects, p, New), ids |-> ids]
    /\ Goto(t, [pc |-> "clear"])
    /\ UNCHANGED <<mem, ids, lock, acked>>

\* the tombstone: ACTIVE is tested in memory and again in the transaction
DirectDelete(t, p) ==
    /\ SqlStore
    /\ At(t, "idle")
    /\ ActiveIn(mem, p) /\ ActiveIn(disk.projects, p)
    /\ disk' = [projects |-> With(disk.projects, p, Deleted), ids |-> ids]
    /\ Goto(t, [pc |-> "clear"])
    /\ UNCHANGED <<mem, ids, lock, acked>>

\* _reload_sql_state: clear the memory, read a snapshot, take its counters,
\* then register its projects one after the other
ReloadClear(t) ==
    /\ At(t, "clear")
    /\ mem' = Nothing
    /\ Goto(t, [pc |-> "read"])
    /\ UNCHANGED <<ids, disk, lock, acked>>

ReloadRead(t) ==
    /\ At(t, "read")
    /\ Goto(t, [pc |-> "counters", snapshot |-> disk])
    /\ UNCHANGED <<mem, ids, disk, lock, acked>>

ReloadCounters(t) ==
    /\ At(t, "counters")
    /\ LET snapshot == thread[t].snapshot
       IN  /\ ids' = snapshot.ids
           /\ Goto(t, [pc |-> "fill", from |-> snapshot.projects, todo |-> DOMAIN snapshot.projects])
    /\ UNCHANGED <<mem, disk, lock, acked>>

\* mutant: the last project of the snapshot is left out
ReloadFillShort(t) ==
    /\ At(t, "fill")
    /\ LET r == thread[t]
       IN  IF Cardinality(r.todo) <= 1
           THEN Goto(t, Idle) /\ UNCHANGED mem
           ELSE \E p \in r.todo :
                   /\ mem' = With(mem, p, r.from[p])
                   /\ Goto(t, [r EXCEPT !.todo = @ \ {p}])
    /\ UNCHANGED <<ids, disk, lock, acked>>

ReloadFill(t) ==
    /\ At(t, "fill")
    /\ LET r == thread[t]
       IN  IF r.todo = {}
           THEN Goto(t, Idle) /\ UNCHANGED mem
           ELSE \E p \in r.todo :
                   /\ mem' = With(mem, p, r.from[p])
                   /\ Goto(t, [r EXCEPT !.todo = @ \ {p}])
    /\ UNCHANGED <<ids, disk, lock, acked>>

\* the process is killed and started again
Restart ==
    /\ mem' = disk.projects /\ ids' = disk.ids
    /\ lock' = FALSE
    /\ thread' = [t \in Threads |-> Idle]
    /\ UNCHANGED <<disk, acked>>

-----------------------------------------------------------------------------
\* what a thread does by itself once its call is under way
Progress(t) ==
    \/ Enter(t) \/ BeginCommit(t) \/ Rollback(t)
    \/ Persist(t) \/ PersistFails(t) \/ Publish(t)
    \/ ReloadClear(t) \/ ReloadRead(t) \/ ReloadCounters(t) \/ ReloadFill(t)

Step(t) ==
    \/ \E p \in Projects : CheckActive(t, p) \/ Bootstrap(t, p)
                           \/ DirectCreate(t, p) \/ DirectDelete(t, p)
    \/ Stage(t) \/ MarkDeleted(t)
    \/ Progress(t)

Next == Restart \/ \E t \in Threads : Step(t)

Spec == Init /\ [][Next]_vars

\* A thread is never preempted for ever inside a call: it commits or rolls back.
FairSpec == Spec /\ \A t \in Threads : WF_vars(Progress(t))

-----------------------------------------------------------------------------
(* Types.                                                                  *)

ProjectValue == [state: {"ACTIVE", "DELETED"}, objects: SUBSET (1 .. MaxIds)]
Store == UNION {[P -> ProjectValue] : P \in SUBSET Projects}
Counters == [Projects -> 0 .. MaxIds]
Database == [projects: Store, ids: Counters]

BareState == [pc: {"idle", "clear", "read"}]
CheckedState == [pc: {"checked"}, project: Projects]
SessionState ==
    [pc: {"open", "persist", "publish"}, project: Projects,
     kind: {"create", "update", "delete"},
     base: SUBSET (1 .. MaxIds), staged: SUBSET (1 .. MaxIds)]
CountersState == [pc: {"counters"}, snapshot: Database]
FillState ==
    {r \in [pc: {"fill"}, from: Store, todo: SUBSET Projects] : r.todo \subseteq DOMAIN r.from}
ThreadState == BareState \cup CheckedState \cup SessionState \cup CountersState \cup FillState

\* Memory, database and threads hold values of the shapes the code declares.
TypeOK ==
    /\ mem \in Store /\ ids \in Counters /\ disk \in Database
    /\ lock \in BOOLEAN
    /\ thread \in [Threads -> ThreadState]
    /\ acked \in [Projects -> SUBSET (1 .. MaxIds)]

-----------------------------------------------------------------------------
(* Properties.                                                             *)

InSession(t) == thread[t].pc \in {"open", "persist", "publish"}

\* Spec 0b.4, single writer: at any time at most one READ_WRITE session is open,
\* from begin_session to the end of its commit or rollback.
OneWriter == \A t, u \in Threads : InSession(t) /\ InSession(u) => t = u

\* An acknowledged commit is never lost: its project and its objects are in the
\* database until the project is deleted, whatever other sessions, reloads and
\* restarts do.
AckedIsDurable ==
    \A p \in Projects :
        acked[p] # {} => /\ p \in DOMAIN disk.projects
                         /\ disk.projects[p].state = "ACTIVE"
                               => acked[p] \subseteq disk.projects[p].objects

\* When every call has returned, memory and database agree: what the next session
\* takes for its baseline is what was committed last, and the next id is a new one,
\* before and after a restart.
QuietMeansEqual ==
    (\A t \in Threads : thread[t].pc = "idle") =>
        /\ mem = disk.projects
        /\ \A p \in DOMAIN mem : mem[p].objects \subseteq 1 .. ids[p] \cap 1 .. disk.ids[p]

\* The sessions implement the serial store; a commit takes effect when it is
\* persisted.
Serial == INSTANCE SerialStore WITH store <- disk.projects, Ids <- 1 .. MaxIds
ImplementsSerial == Serial!Spec

\* A session cannot starve the others: the write lock is always released.
LockIsReleased == lock ~> ~lock

=============================================================================
