------------------------- MODULE SessionStoreProofs -------------------------
(***************************************************************************)
(* Theorems about SessionStore, for every number of threads, projects and  *)
(* objects: the shapes of the state and the single writer, for both kinds  *)
(* of store and any interleaving, and the implementation of SerialStore    *)
(* for requests that come one at a time or a store whose every write goes  *)
(* through a session.                                                      *)
(***************************************************************************)
EXTENDS SessionStore, TLAPS

-----------------------------------------------------------------------------
(* With, and the sets of values.                                           *)

\* With(f, p, value) is f with p mapped to value.
LEMMA WithFacts ==
    ASSUME NEW f, NEW p, NEW value
    PROVE  /\ DOMAIN With(f, p, value) = DOMAIN f \cup {p}
           /\ With(f, p, value)[p] = value
           /\ \A q \in DOMAIN f : q # p => With(f, p, value)[q] = f[q]
BY DEF With

\* With stays inside the stores.
LEMMA WithType ==
    ASSUME NEW f \in Store, NEW p \in Projects, NEW value \in ProjectValue
    PROVE  With(f, p, value) \in Store
<1>1. PICK P \in SUBSET Projects : f \in [P -> ProjectValue]
  BY DEF Store
<1>2. With(f, p, value) \in [P \cup {p} -> ProjectValue]
  BY <1>1 DEF With
<1>3. P \cup {p} \in SUBSET Projects
  OBVIOUS
<1> QED
  BY <1>2, <1>3 DEF Store

\* A store maps some projects to project values.
LEMMA StoreFacts ==
    ASSUME NEW f \in Store
    PROVE  /\ DOMAIN f \subseteq Projects
           /\ \A p \in DOMAIN f : f[p] \in ProjectValue
BY DEF Store

\* Stores with the same projects and the same values are equal.
LEMMA StoreEquality ==
    ASSUME NEW f \in Store, NEW g \in Store, DOMAIN f = DOMAIN g, \A p \in DOMAIN f : f[p] = g[p]
    PROVE  f = g
<1>1. PICK P \in SUBSET Projects : f \in [P -> ProjectValue]
  BY DEF Store
<1>2. PICK Q \in SUBSET Projects : g \in [Q -> ProjectValue]
  BY DEF Store
<1>3. f = [p \in DOMAIN f |-> f[p]] /\ g = [p \in DOMAIN g |-> g[p]]
  BY <1>1, <1>2
<1> QED
  BY <1>3

\* The empty memory is a store.
LEMMA NothingType == Nothing \in Store
<1>1. Nothing \in [{} -> ProjectValue]
  BY DEF Nothing
<1> QED
  BY <1>1 DEF Store

\* A thread's pc tells which of the shapes its record has.
LEMMA ThreadShapes ==
    ASSUME NEW r \in ThreadState
    PROVE  /\ r.pc = "checked" => r \in CheckedState
           /\ r.pc \in {"open", "persist", "publish"} => r \in SessionState
           /\ r.pc = "counters" => r \in CountersState
           /\ r.pc = "fill" => r \in FillState
BY DEF ThreadState, BareState, CheckedState, SessionState, CountersState, FillState

\* A session record that takes another pc, kind or more staged objects.
LEMMA SessionUpdates ==
    ASSUME NEW s \in SessionState
    PROVE  /\ [s EXCEPT !.pc = "persist"] \in SessionState
           /\ [s EXCEPT !.pc = "publish"] \in SessionState
           /\ [s EXCEPT !.kind = "delete"] \in SessionState
           /\ \A n \in 1 .. MaxIds : [s EXCEPT !.staged = @ \cup {n}] \in SessionState
           /\ Final(s) \in ProjectValue
BY DEF SessionState, Final, Live, Deleted, ProjectValue

-----------------------------------------------------------------------------
(* Types.                                                                  *)

\* The initial state has the declared shapes.
LEMMA TypeInit == Init => TypeOK
<1> SUFFICES ASSUME Init PROVE TypeOK
  OBVIOUS
<1>1. [p \in Projects |-> 0] \in Counters
  BY SessionAssumption DEF Counters
<1>2. disk \in Database
  BY <1>1, NothingType DEF Init, Database
<1>3. Idle \in ThreadState
  BY DEF Idle, ThreadState, BareState
<1> QED
  BY <1>1, <1>2, <1>3, NothingType DEF Init, TypeOK

\* Every step keeps them.
LEMMA TypeStep == TypeOK /\ [Next]_vars => TypeOK'
<1> SUFFICES ASSUME TypeOK, [Next]_vars PROVE TypeOK'
  OBVIOUS
<1> USE DEF TypeOK, Goto, At
<1>a. Idle \in ThreadState
  BY DEF Idle, ThreadState, BareState
<1>b. \A pc \in {"clear", "read"} : [pc |-> pc] \in ThreadState
  BY DEF ThreadState, BareState
<1>c. SessionState \subseteq ThreadState /\ CheckedState \subseteq ThreadState
      /\ CountersState \subseteq ThreadState /\ FillState \subseteq ThreadState
  BY DEF ThreadState
<1>d. New \in ProjectValue /\ Deleted \in ProjectValue
  BY DEF New, Live, Deleted, ProjectValue
<1>1. ASSUME NEW t \in Threads, NEW p \in Projects, CheckActive(t, p) PROVE TypeOK'
  <2>1. [pc |-> "checked", project |-> p] \in ThreadState
    BY <1>c DEF CheckedState
  <2> QED
    BY <1>1, <2>1 DEF CheckActive
<1>2. ASSUME NEW t \in Threads, NEW p \in Projects, Bootstrap(t, p) PROVE TypeOK'
  <2>1. Session("open", p, "create", {}, {}) \in ThreadState
    BY <1>c DEF Session, SessionState
  <2> QED
    BY <1>2, <2>1 DEF Bootstrap
<1>3. ASSUME NEW t \in Threads, NEW p \in Projects, DirectCreate(t, p) PROVE TypeOK'
  <2>1. With(disk.projects, p, New) \in Store
    BY <1>d, WithType DEF Database
  <2> QED
    BY <1>3, <1>b, <2>1 DEF DirectCreate, Database
<1>4. ASSUME NEW t \in Threads, NEW p \in Projects, DirectDelete(t, p) PROVE TypeOK'
  <2>1. With(disk.projects, p, Deleted) \in Store
    BY <1>d, WithType DEF Database
  <2> QED
    BY <1>4, <1>b, <2>1 DEF DirectDelete, Database
<1>5. ASSUME NEW t \in Threads, Stage(t) PROVE TypeOK'
  <2>1. thread[t] \in SessionState
    BY <1>5, ThreadShapes DEF Stage
  <2>2. ids[thread[t].project] + 1 \in 1 .. MaxIds
    BY <1>5, <2>1, SessionAssumption DEF Stage, Counters, SessionState
  <2>3. [thread[t] EXCEPT !.staged = @ \cup {ids[thread[t].project] + 1}] \in ThreadState
    BY <2>1, <2>2, <1>c, SessionUpdates
  <2>4. ids' \in Counters
    <3>1. ids' = [ids EXCEPT ![thread[t].project] = ids[thread[t].project] + 1]
      BY <1>5 DEF Stage
    <3>2. ids[thread[t].project] + 1 \in 0 .. MaxIds
      BY <2>2, SessionAssumption
    <3> QED
      BY <3>1, <3>2 DEF Counters
  <2>5. thread' \in [Threads -> ThreadState]
    BY <1>5, <2>3, <1>a DEF Stage
  <2> QED
    BY <1>5, <2>4, <2>5 DEF Stage
<1>6. ASSUME NEW t \in Threads, MarkDeleted(t) PROVE TypeOK'
  BY <1>6, <1>c, ThreadShapes, SessionUpdates DEF MarkDeleted
<1>7. ASSUME NEW t \in Threads, Enter(t) PROVE TypeOK'
  <2>1. thread[t] \in CheckedState
    BY <1>7, ThreadShapes DEF Enter
  <2>2. ASSUME thread[t].project \in DOMAIN mem
        PROVE  Session("open", thread[t].project, "update", mem[thread[t].project].objects, {})
                  \in ThreadState
    BY <2>1, <2>2, <1>c, StoreFacts DEF Session, SessionState, CheckedState, ProjectValue
  <2> QED
    BY <1>7, <2>2, <1>a DEF Enter
<1>8. ASSUME NEW t \in Threads, BeginCommit(t) PROVE TypeOK'
  <2>1. [thread[t] EXCEPT !.pc = "persist"] \in ThreadState
    BY <1>8, <1>c, ThreadShapes, SessionUpdates DEF BeginCommit
  <2> QED
    BY <1>8, <2>1, <1>a DEF BeginCommit
<1>9. ASSUME NEW t \in Threads, Rollback(t) PROVE TypeOK'
  BY <1>9, <1>a DEF Rollback
<1>10. ASSUME NEW t \in Threads, Persist(t) PROVE TypeOK'
  <2>1. thread[t] \in SessionState
    BY <1>10, ThreadShapes DEF Persist
  <2>2. With(disk.projects, thread[t].project, Final(thread[t])) \in Store
    BY <2>1, SessionUpdates, WithType DEF Database, SessionState
  <2>3. [thread[t] EXCEPT !.pc = "publish"] \in ThreadState
    BY <2>1, <1>c, SessionUpdates
  <2> QED
    BY <1>10, <2>2, <2>3 DEF Persist, Database
<1>11. ASSUME NEW t \in Threads, PersistFails(t) PROVE TypeOK'
  BY <1>11, <1>a DEF PersistFails
<1>12. ASSUME NEW t \in Threads, Publish(t) PROVE TypeOK'
  <2>1. thread[t] \in SessionState
    BY <1>12, ThreadShapes DEF Publish
  <2>2. mem' \in Store
    BY <1>12, <2>1, SessionUpdates, WithType DEF Publish, SessionState
  <2>3. acked' \in [Projects -> SUBSET (1 .. MaxIds)]
    BY <1>12, <2>1 DEF Publish, SessionState
  <2> QED
    BY <1>12, <1>a, <2>2, <2>3 DEF Publish
<1>13. ASSUME NEW t \in Threads, ReloadClear(t) PROVE TypeOK'
  BY <1>13, <1>b, NothingType DEF ReloadClear
<1>14. ASSUME NEW t \in Threads, ReloadRead(t) PROVE TypeOK'
  <2>1. [pc |-> "counters", snapshot |-> disk] \in ThreadState
    BY <1>c DEF CountersState
  <2> QED
    BY <1>14, <2>1 DEF ReloadRead
<1>15. ASSUME NEW t \in Threads, ReloadCounters(t) PROVE TypeOK'
  <2>1. thread[t].snapshot \in Database
    BY <1>15, ThreadShapes DEF ReloadCounters, CountersState
  <2>2. thread[t].snapshot.ids \in Counters /\ thread[t].snapshot.projects \in Store
    BY <2>1 DEF Database
  <2>3. [pc |-> "fill", from |-> thread[t].snapshot.projects,
         todo |-> DOMAIN thread[t].snapshot.projects] \in ThreadState
    BY <2>2, <1>c, StoreFacts DEF FillState
  <2> QED
    BY <1>15, <2>2, <2>3 DEF ReloadCounters
<1>16. ASSUME NEW t \in Threads, ReloadFill(t) PROVE TypeOK'
  <2>1. thread[t] \in FillState
    BY <1>16, ThreadShapes DEF ReloadFill
  <2>2. CASE thread[t].todo = {}
    BY <1>16, <2>2, <1>a DEF ReloadFill
  <2>3. CASE thread[t].todo # {}
    <3>1. PICK p \in thread[t].todo :
             /\ mem' = With(mem, p, thread[t].from[p])
             /\ thread' = [thread EXCEPT ![t] = [thread[t] EXCEPT !.todo = @ \ {p}]]
      BY <1>16, <2>3 DEF ReloadFill
    <3>2. [thread[t] EXCEPT !.todo = @ \ {p}] \in ThreadState
      BY <2>1, <1>c DEF FillState
    <3>3. thread' \in [Threads -> ThreadState]
      BY <3>1, <3>2
    <3>4. mem' \in Store
      BY <2>1, <3>1, WithType, StoreFacts DEF FillState
    <3> QED
      BY <1>16, <3>3, <3>4 DEF ReloadFill
  <2> QED
    BY <2>2, <2>3
<1>17. CASE Restart
  BY <1>17, <1>a DEF Restart, Database
<1>18. CASE UNCHANGED vars
  BY <1>18 DEF vars
<1> QED
  BY <1>1, <1>2, <1>3, <1>4, <1>5, <1>6, <1>7, <1>8, <1>9, <1>10, <1>11, <1>12, <1>13,
     <1>14, <1>15, <1>16, <1>17, <1>18 DEF Next, Step, Progress

\* The state always has the declared shapes.
THEOREM TypeSafety == Spec => []TypeOK
BY TypeInit, TypeStep, PTL DEF Spec

-----------------------------------------------------------------------------
(* The single writer.  OneWriter alone is not inductive: begin_session     *)
(* looks at the lock, not at the other sessions.                           *)

Locked == \A t \in Threads : InSession(t) => lock
WriterInv == TypeOK /\ Locked /\ OneWriter

\* No thread is in a session at the start.
LEMMA WriterInit == Init => WriterInv
BY TypeInit DEF Init, WriterInv, Locked, OneWriter, InSession, Idle

\* A thread that goes from outside a session to outside, the lock kept or taken.
LEMMA WriterOutside ==
    ASSUME WriterInv, NEW t \in Threads, NEW r, Goto(t, r), lock' \in {lock, TRUE},
           ~InSession(t), r.pc \notin {"open", "persist", "publish"}
    PROVE  (Locked /\ OneWriter)'
BY DEF WriterInv, TypeOK, Locked, OneWriter, InSession, Goto

\* A thread that goes on in its session, the lock kept.
LEMMA WriterInside ==
    ASSUME WriterInv, NEW t \in Threads, NEW r, Goto(t, r), lock' = lock, InSession(t)
    PROVE  (Locked /\ OneWriter)'
BY DEF WriterInv, TypeOK, Locked, OneWriter, InSession, Goto

\* A thread that leaves its session and releases the lock.
LEMMA WriterLeaves ==
    ASSUME WriterInv, NEW t \in Threads, Goto(t, Idle), lock' = FALSE, InSession(t)
    PROVE  (Locked /\ OneWriter)'
BY DEF WriterInv, TypeOK, Locked, OneWriter, InSession, Goto, Idle

\* A thread that opens a session with the lock it found free.
LEMMA WriterEnters ==
    ASSUME WriterInv, NEW t \in Threads, NEW r, Goto(t, r), ~lock, lock' = TRUE
    PROVE  (Locked /\ OneWriter)'
BY DEF WriterInv, TypeOK, Locked, OneWriter, InSession, Goto

\* Every step keeps the lock with the session.
LEMMA WriterStep == WriterInv /\ [Next]_vars => WriterInv'
<1> SUFFICES ASSUME WriterInv, [Next]_vars PROVE (Locked /\ OneWriter)'
  BY TypeStep DEF WriterInv
<1> USE DEF At
<1>1. ASSUME NEW t \in Threads, NEW p \in Projects,
             CheckActive(t, p) \/ DirectCreate(t, p) \/ DirectDelete(t, p)
      PROVE  (Locked /\ OneWriter)'
  BY <1>1, WriterOutside DEF CheckActive, DirectCreate, DirectDelete, InSession
<1>2. ASSUME NEW t \in Threads, NEW p \in Projects, Bootstrap(t, p) PROVE (Locked /\ OneWriter)'
  BY <1>2, WriterEnters DEF Bootstrap
<1>3. ASSUME NEW t \in Threads, Enter(t) PROVE (Locked /\ OneWriter)'
  <2>1. CASE ~lock /\ thread[t].project \in DOMAIN mem
    BY <1>3, <2>1, WriterEnters DEF Enter
  <2>2. CASE ~(~lock /\ thread[t].project \in DOMAIN mem)
    BY <1>3, <2>2, WriterOutside DEF Enter, InSession, Idle
  <2> QED
    BY <2>1, <2>2
<1>4. ASSUME NEW t \in Threads, Stage(t) PROVE (Locked /\ OneWriter)'
  BY <1>4, WriterInside, WriterLeaves DEF Stage, InSession
<1>5. ASSUME NEW t \in Threads, MarkDeleted(t) \/ Persist(t) PROVE (Locked /\ OneWriter)'
  BY <1>5, WriterInside DEF MarkDeleted, Persist, InSession
<1>6. ASSUME NEW t \in Threads, BeginCommit(t) PROVE (Locked /\ OneWriter)'
  BY <1>6, WriterInside, WriterLeaves DEF BeginCommit, InSession
<1>7. ASSUME NEW t \in Threads, Rollback(t) \/ PersistFails(t) \/ Publish(t)
      PROVE  (Locked /\ OneWriter)'
  BY <1>7, WriterLeaves DEF Rollback, PersistFails, Publish, InSession
<1>8. ASSUME NEW t \in Threads, ReloadClear(t) \/ ReloadRead(t) \/ ReloadCounters(t)
      PROVE  (Locked /\ OneWriter)'
  BY <1>8, WriterOutside DEF ReloadClear, ReloadRead, ReloadCounters, InSession
<1>9. ASSUME NEW t \in Threads, ReloadFill(t) PROVE (Locked /\ OneWriter)'
  <2>1. ~InSession(t) /\ lock' = lock
    BY <1>9 DEF ReloadFill, InSession
  <2>2. CASE thread[t].todo = {}
    BY <1>9, <2>1, <2>2, WriterOutside DEF ReloadFill, Idle
  <2>3. CASE thread[t].todo # {}
    <3>1. PICK p \in thread[t].todo : Goto(t, [thread[t] EXCEPT !.todo = @ \ {p}])
      BY <1>9, <2>3 DEF ReloadFill
    <3>2. [thread[t] EXCEPT !.todo = @ \ {p}].pc = "fill"
      BY <1>9, ThreadShapes DEF ReloadFill, WriterInv, TypeOK, FillState
    <3> QED
      BY <2>1, <3>1, <3>2, WriterOutside
  <2> QED
    BY <2>2, <2>3
<1>10. CASE Restart
  BY <1>10 DEF Restart, Locked, OneWriter, InSession, Idle
<1>11. CASE UNCHANGED vars
  BY <1>11 DEF vars, WriterInv, Locked, OneWriter, InSession
<1> QED
  BY <1>1, <1>2, <1>3, <1>4, <1>5, <1>6, <1>7, <1>8, <1>9, <1>10, <1>11 DEF Next, Step, Progress

\* Spec 0b.4 for every number of threads, with either kind of store: at most one
\* READ_WRITE session is open.
THEOREM SingleWriter == Spec => []OneWriter
<1>1. WriterInv => OneWriter
  BY DEF WriterInv
<1> QED
  BY WriterInit, WriterStep, <1>1, PTL DEF Spec

-----------------------------------------------------------------------------
(* The implementation of the serial store, while nobody writes the store   *)
(* directly.  Memory is the database except between persist and publish, and *)
(* the lock keeps every session's baseline current until it commits.       *)

Baseline(s) ==
    /\ s.kind = "create" => s.base = {} /\ s.staged = {}
    /\ s.kind = "delete" => s.staged = {}
    /\ s.base \cap s.staged = {}
    /\ s.pc \in {"persist", "publish"} /\ s.kind = "update" => s.staged # {}

Current(s) ==
    /\ s.pc \in {"open", "persist"} =>
          IF s.kind = "create" THEN s.project \notin DOMAIN mem
          ELSE s.project \in DOMAIN mem /\ mem[s.project].objects = s.base
    /\ s.pc = "persist" /\ s.kind # "create" => mem[s.project].state = "ACTIVE"
    /\ s.pc = "publish" => disk.projects = With(mem, s.project, Final(s))

Recorded(p) ==
    IF p \in DOMAIN disk.projects
    THEN disk.projects[p].state = "ACTIVE" => acked[p] \subseteq disk.projects[p].objects
    ELSE acked[p] = {}

SerialInv ==
    /\ WriterInv
    /\ \A t \in Threads : thread[t].pc \in {"idle", "checked", "open", "persist", "publish"}
    /\ (\A t \in Threads : thread[t].pc # "publish") => mem = disk.projects
    /\ \A t \in Threads : InSession(t) => Baseline(thread[t]) /\ Current(thread[t])
    /\ \A p \in Projects : Recorded(p)

\* The parts of SerialInv a step has to keep, given the single writer.
SerialParts ==
    /\ \A t \in Threads : thread[t].pc \in {"idle", "checked", "open", "persist", "publish"}
    /\ (\A t \in Threads : thread[t].pc # "publish") => mem = disk.projects
    /\ \A t \in Threads : InSession(t) => Baseline(thread[t]) /\ Current(thread[t])
    /\ \A p \in Projects : Recorded(p)

\* Nothing is stored and nobody is in a session at the start.
LEMMA SerialInit == Init => SerialInv
BY WriterInit DEF Init, SerialInv, InSession, Idle, Recorded, Nothing

\* A step that changes only the thread, which is in no session afterwards and
\* was not about to publish.
LEMMA SerialAside ==
    ASSUME SerialInv, NEW t \in Threads, NEW r, Goto(t, r), UNCHANGED <<mem, disk, acked>>,
           r.pc \in {"idle", "checked"}, thread[t].pc # "publish"
    PROVE  SerialParts'
<1> USE DEF SerialInv, SerialParts, WriterInv, TypeOK, Goto
<1>1. \A u \in Threads : u # t => thread'[u] = thread[u]
  OBVIOUS
<1>2. thread'[t] = r
  OBVIOUS
<1>3. (\A u \in Threads : thread'[u].pc # "publish") => mem' = disk'.projects
  BY <1>1
<1>4. \A u \in Threads : InSession(u)' => Baseline(thread'[u]) /\ Current(thread[u])'
  BY <1>1, <1>2 DEF InSession, Baseline, Current
<1>5. \A p \in Projects : Recorded(p)'
  BY DEF Recorded
<1> QED
  BY <1>1, <1>2, <1>3, <1>4, <1>5 DEF Baseline

\* A step that changes only the thread, to a session whose baseline is right.
LEMMA SerialSession ==
    ASSUME SerialInv, NEW t \in Threads, NEW r, Goto(t, r), UNCHANGED <<mem, disk, acked>>,
           r.pc \in {"open", "persist"}, thread[t].pc # "publish",
           Baseline(r), Current(r)
    PROVE  SerialParts'
<1> USE DEF SerialInv, SerialParts, WriterInv, TypeOK, Goto
<1>1. \A u \in Threads : u # t => thread'[u] = thread[u]
  OBVIOUS
<1>2. thread'[t] = r
  OBVIOUS
<1>3. (\A u \in Threads : thread'[u].pc # "publish") => mem' = disk'.projects
  BY <1>1
<1>4. \A u \in Threads : InSession(u)' => Baseline(thread'[u]) /\ Current(thread[u])'
  BY <1>1, <1>2 DEF InSession, Baseline, Current
<1>5. \A p \in Projects : Recorded(p)'
  BY DEF Recorded
<1> QED
  BY <1>1, <1>2, <1>3, <1>4, <1>5 DEF Baseline

\* While a thread is in its session and not about to publish, nobody is.
LEMMA NobodyPublishes ==
    ASSUME SerialInv, NEW t \in Threads, InSession(t), thread[t].pc # "publish"
    PROVE  mem = disk.projects
BY DEF SerialInv, WriterInv, OneWriter, InSession

\* Persist is a step of the serial store, and publish will close the gap.
LEMMA PersistIsSerial ==
    ASSUME SerialInv, NEW t \in Threads, Persist(t)
    PROVE  SerialParts' /\ Serial!Next
<1> DEFINE s == thread[t]
           p == s.project
           value == Final(s)
<1>1. s \in SessionState /\ InSession(t)
  BY ThreadShapes DEF Persist, At, SerialInv, WriterInv, TypeOK, InSession
<1>2. p \in Projects /\ s.kind \in {"create", "update", "delete"}
      /\ s.base \subseteq 1 .. MaxIds /\ s.staged \subseteq 1 .. MaxIds
  BY <1>1 DEF SessionState
<1>3. mem = disk.projects
  BY <1>1, NobodyPublishes DEF Persist, At
<1>4. Baseline(s) /\ Current(s) /\ s.pc = "persist"
  BY <1>1 DEF SerialInv, Persist, At
<1>5. disk'.projects = With(disk.projects, p, value)
  BY DEF Persist
<1>6. thread' = [thread EXCEPT ![t] = [s EXCEPT !.pc = "publish"]]
  BY DEF Persist, Goto
<1>7. /\ thread'[t] = [s EXCEPT !.pc = "publish"]
      /\ \A u \in Threads : u # t => thread'[u] = thread[u]
  BY <1>6 DEF SerialInv, WriterInv, TypeOK
<1>8. /\ thread'[t].pc = "publish" /\ thread'[t].project = p /\ thread'[t].kind = s.kind
      /\ thread'[t].base = s.base /\ thread'[t].staged = s.staged
  BY <1>1, <1>7 DEF SessionState
<1>9. \A u \in Threads : u # t => ~InSession(u) /\ ~InSession(u)'
  BY <1>1, <1>7 DEF SerialInv, WriterInv, OneWriter, InSession
<1>10. Serial!Next
  <2>1. Serial!Put(p, value)
    BY <1>5 DEF Serial!Put, With
  <2>2. CASE s.kind = "create"
    <3>1. p \notin DOMAIN disk.projects
      BY <2>2, <1>3, <1>4 DEF Current
    <3>2. value = [state |-> "ACTIVE", objects |-> {}]
      BY <2>2, <1>4 DEF Final, Live, Baseline
    <3>3. Serial!Create(p)
      BY <2>1, <3>1, <3>2 DEF Serial!Create
    <3> QED
      BY <1>2, <3>3 DEF Serial!Next
  <2>3. CASE s.kind # "create"
    <3>1. p \in DOMAIN disk.projects /\ disk.projects[p].objects = s.base
          /\ disk.projects[p].state = "ACTIVE"
      BY <2>3, <1>3, <1>4 DEF Current
    <3>2. Serial!Active(p)
      BY <3>1 DEF Serial!Active
    <3>3. CASE s.kind = "delete"
      <4>1. value = [state |-> "DELETED", objects |-> {}]
        BY <3>3 DEF Final, Deleted
      <4>2. Serial!Delete(p)
        BY <2>1, <3>2, <4>1 DEF Serial!Delete
      <4> QED
        BY <1>2, <4>2 DEF Serial!Next
    <3>4. CASE s.kind = "update"
      <4>1. value = [state |-> "ACTIVE", objects |-> disk.projects[p].objects \cup s.staged]
        BY <3>1, <3>4 DEF Final, Live
      <4>2. s.staged # {} /\ s.staged \cap disk.projects[p].objects = {}
        BY <1>4, <3>1, <3>4 DEF Baseline
      <4>3. Serial!Commit(p, s.staged)
        BY <2>1, <3>2, <4>1, <4>2 DEF Serial!Commit
      <4> QED
        BY <1>2, <4>3 DEF Serial!Next
    <3> QED
      BY <1>2, <2>3, <3>3, <3>4
  <2> QED
    BY <2>2, <2>3
<1>11. \A q \in Projects : Recorded(q)'
  <2> SUFFICES ASSUME NEW q \in Projects PROVE Recorded(q)'
    OBVIOUS
  <2>1. acked' = acked /\ Recorded(q)
    BY DEF Persist, SerialInv
  <2>2. CASE q # p
    <3>1. /\ q \in DOMAIN disk'.projects <=> q \in DOMAIN disk.projects
          /\ q \in DOMAIN disk.projects => disk'.projects[q] = disk.projects[q]
      BY <1>5, <2>2 DEF With
    <3> QED
      BY <2>1, <3>1 DEF Recorded
  <2>3. CASE q = p
    <3>1. disk'.projects[p] = value /\ p \in DOMAIN disk'.projects
      BY <1>5 DEF With
    <3>2. CASE s.kind = "create"
      <4>1. acked[p] = {}
        BY <1>3, <1>4, <2>1, <2>3, <3>2 DEF Recorded, Current
      <4> QED
        BY <2>1, <2>3, <3>1, <4>1 DEF Recorded
    <3>3. CASE s.kind = "update"
      <4>1. acked[p] \subseteq s.base
        BY <1>3, <1>4, <2>1, <2>3, <3>3 DEF Recorded, Current
      <4>2. value.objects = s.base \cup s.staged
        BY <3>3 DEF Final, Live
      <4> QED
        BY <2>1, <2>3, <3>1, <4>1, <4>2 DEF Recorded
    <3>4. CASE s.kind = "delete"
      <4>1. value.state = "DELETED"
        BY <3>4 DEF Final, Deleted
      <4> QED
        BY <2>1, <2>3, <3>1, <4>1 DEF Recorded
    <3> QED
      BY <1>2, <3>2, <3>3, <3>4
  <2> QED
    BY <2>2, <2>3
<1>12. Baseline(thread'[t])
  BY <1>4, <1>8 DEF Baseline
<1>13. Current(thread[t])'
  <2>1. Final(thread'[t]) = value
    BY <1>8 DEF Final
  <2>2. mem' = disk.projects
    BY <1>3 DEF Persist
  <2> QED
    BY <1>5, <1>8, <2>1, <2>2 DEF Current
<1>14. \A u \in Threads : thread'[u].pc \in {"idle", "checked", "open", "persist", "publish"}
  BY <1>7, <1>8 DEF SerialInv
<1> QED
  BY <1>8, <1>9, <1>10, <1>11, <1>12, <1>13, <1>14 DEF SerialParts

\* Publish brings memory up to date and acknowledges what the database holds.
LEMMA PublishIsSilent ==
    ASSUME SerialInv, NEW t \in Threads, Publish(t)
    PROVE  SerialParts' /\ UNCHANGED disk.projects
<1> DEFINE s == thread[t]
           p == s.project
<1>1. s \in SessionState /\ InSession(t)
  BY ThreadShapes DEF Publish, At, SerialInv, WriterInv, TypeOK, InSession
<1>2. p \in Projects /\ s.kind \in {"create", "update", "delete"}
  BY <1>1 DEF SessionState
<1>3. Baseline(s) /\ disk.projects = With(mem, p, Final(s))
  BY <1>1 DEF SerialInv, Publish, At, Current
<1>4. mem' = disk'.projects /\ disk' = disk
  BY <1>3 DEF Publish
<1>5. /\ thread'[t] = Idle
      /\ \A u \in Threads : u # t => thread'[u] = thread[u]
  BY DEF Publish, Goto, SerialInv, WriterInv, TypeOK
<1>6. \A u \in Threads : ~InSession(u)'
  BY <1>1, <1>5 DEF SerialInv, WriterInv, OneWriter, InSession, Idle
<1>7. \A q \in Projects : Recorded(q)'
  <2> SUFFICES ASSUME NEW q \in Projects PROVE Recorded(q)'
    OBVIOUS
  <2>1. Recorded(q) /\ acked' = [acked EXCEPT ![p] = @ \cup s.staged]
    BY DEF SerialInv, Publish
  <2>2. acked \in [Projects -> SUBSET (1 .. MaxIds)]
    BY DEF SerialInv, WriterInv, TypeOK
  <2>3. CASE q # p
    BY <1>4, <2>1, <2>2, <2>3 DEF Recorded
  <2>4. CASE q = p
    <3>1. disk.projects[p] = Final(s) /\ p \in DOMAIN disk.projects
      BY <1>3 DEF With
    <3>2. Final(s).state = "ACTIVE" => s.staged \subseteq Final(s).objects
      BY DEF Final, Live, Deleted
    <3>3. acked'[p] = acked[p] \cup s.staged
      BY <1>2, <2>1, <2>2
    <3> QED
      BY <1>4, <2>1, <2>4, <3>1, <3>2, <3>3 DEF Recorded
  <2> QED
    BY <2>3, <2>4
<1>8. \A u \in Threads : thread'[u].pc \in {"idle", "checked", "open", "persist", "publish"}
  BY <1>5 DEF SerialInv, Idle
<1> QED
  BY <1>4, <1>6, <1>7, <1>8 DEF SerialParts

\* Every step but a direct write keeps the invariant and is a step of the serial
\* store or a stutter.
LEMMA SerialStep ==
    ASSUME SerialInv, [Next]_vars,
           \A t \in Threads, p \in Projects : ~DirectCreate(t, p) /\ ~DirectDelete(t, p)
    PROVE  SerialParts' /\ [Serial!Next]_(disk.projects)
<1> USE DEF At
<1>0. \A t \in Threads : thread[t].pc \in {"idle", "checked", "open", "persist", "publish"}
  BY DEF SerialInv
<1>a. ASSUME NEW t \in Threads, thread[t].pc \in {"open", "persist", "publish"}
      PROVE  thread[t] \in SessionState /\ InSession(t) /\ Baseline(thread[t]) /\ Current(thread[t])
  BY <1>a, ThreadShapes DEF SerialInv, WriterInv, TypeOK, InSession
<1>1. ASSUME NEW t \in Threads, NEW p \in Projects, CheckActive(t, p)
      PROVE  SerialParts' /\ UNCHANGED disk.projects
  BY <1>1, SerialAside DEF CheckActive
<1>2. ASSUME NEW t \in Threads, NEW p \in Projects, Bootstrap(t, p)
      PROVE  SerialParts' /\ UNCHANGED disk.projects
  <2>1. Baseline(Session("open", p, "create", {}, {}))
    BY DEF Baseline, Session
  <2>2. Current(Session("open", p, "create", {}, {}))
    BY <1>2 DEF Current, Session, Bootstrap
  <2>3. Session("open", p, "create", {}, {}).pc = "open"
    BY DEF Session
  <2> QED
    BY <1>2, <2>1, <2>2, <2>3, SerialSession DEF Bootstrap
<1>3. ASSUME NEW t \in Threads, Stage(t) PROVE SerialParts' /\ UNCHANGED disk.projects
  <2> DEFINE n == ids[thread[t].project] + 1
             r == [thread[t] EXCEPT !.staged = @ \cup {n}]
  <2>1. CASE n \in thread[t].base
    BY <1>3, <2>1, SerialAside DEF Stage, Idle
  <2>2. CASE n \notin thread[t].base
    <3>1. thread[t] \in SessionState /\ Baseline(thread[t]) /\ Current(thread[t])
          /\ thread[t].pc = "open" /\ thread[t].kind = "update"
      BY <1>3, <1>a DEF Stage
    <3>2. /\ r.pc = "open" /\ r.kind = "update" /\ r.project = thread[t].project
          /\ r.base = thread[t].base /\ r.staged = thread[t].staged \cup {n}
      BY <3>1 DEF SessionState
    <3>3. Baseline(r) /\ Current(r)
      BY <2>2, <3>1, <3>2 DEF Baseline, Current
    <3> QED
      BY <1>3, <2>2, <3>1, <3>2, <3>3, SerialSession DEF Stage
  <2> QED
    BY <2>1, <2>2
<1>4. ASSUME NEW t \in Threads, MarkDeleted(t) PROVE SerialParts' /\ UNCHANGED disk.projects
  <2> DEFINE r == [thread[t] EXCEPT !.kind = "delete"]
  <2>1. thread[t] \in SessionState /\ Baseline(thread[t]) /\ Current(thread[t])
        /\ thread[t].pc = "open" /\ thread[t].kind = "update" /\ thread[t].staged = {}
    BY <1>4, <1>a DEF MarkDeleted
  <2>2. /\ r.pc = "open" /\ r.kind = "delete" /\ r.project = thread[t].project
        /\ r.base = thread[t].base /\ r.staged = {}
    BY <2>1 DEF SessionState
  <2>3. Baseline(r) /\ Current(r)
    BY <2>1, <2>2 DEF Baseline, Current
  <2> QED
    BY <1>4, <2>1, <2>2, <2>3, SerialSession DEF MarkDeleted
<1>5. ASSUME NEW t \in Threads, Enter(t) PROVE SerialParts' /\ UNCHANGED disk.projects
  <2> DEFINE p == thread[t].project
             r == Session("open", p, "update", mem[p].objects, {})
  <2>1. CASE ~lock /\ p \in DOMAIN mem
    <3>1. r.pc = "open" /\ Baseline(r) /\ Current(r)
      BY <2>1 DEF Session, Baseline, Current
    <3> QED
      BY <1>5, <2>1, <3>1, SerialSession DEF Enter
  <2>2. CASE ~(~lock /\ p \in DOMAIN mem)
    BY <1>5, <2>2, SerialAside DEF Enter, Idle
  <2> QED
    BY <2>1, <2>2
<1>6. ASSUME NEW t \in Threads, BeginCommit(t) PROVE SerialParts' /\ UNCHANGED disk.projects
  <2> DEFINE r == [thread[t] EXCEPT !.pc = "persist"]
  <2>1. thread[t] \in SessionState /\ Baseline(thread[t]) /\ Current(thread[t])
        /\ thread[t].pc = "open" /\ (thread[t].kind = "update" => thread[t].staged # {})
    BY <1>6, <1>a DEF BeginCommit
  <2>2. CASE CommitAllowed(thread[t])
    <3>1. /\ r.pc = "persist" /\ r.kind = thread[t].kind /\ r.project = thread[t].project
          /\ r.base = thread[t].base /\ r.staged = thread[t].staged
      BY <2>1 DEF SessionState
    <3>2. Baseline(r) /\ Current(r)
      BY <2>1, <2>2, <3>1 DEF Baseline, Current, CommitAllowed
    <3> QED
      BY <1>6, <2>1, <2>2, <3>1, <3>2, SerialSession DEF BeginCommit
  <2>3. CASE ~CommitAllowed(thread[t])
    BY <1>6, <2>1, <2>3, SerialAside DEF BeginCommit, Idle
  <2> QED
    BY <2>2, <2>3
<1>7. ASSUME NEW t \in Threads, Rollback(t) \/ PersistFails(t)
      PROVE  SerialParts' /\ UNCHANGED disk.projects
  BY <1>7, SerialAside DEF Rollback, PersistFails, Idle
<1>8. ASSUME NEW t \in Threads, Persist(t) PROVE SerialParts' /\ Serial!Next
  BY <1>8, PersistIsSerial
<1>9. ASSUME NEW t \in Threads, Publish(t) PROVE SerialParts' /\ UNCHANGED disk.projects
  BY <1>9, PublishIsSilent
<1>10. ASSUME NEW t \in Threads
       PROVE  ~ReloadClear(t) /\ ~ReloadRead(t) /\ ~ReloadCounters(t) /\ ~ReloadFill(t)
  BY <1>0 DEF ReloadClear, ReloadRead, ReloadCounters, ReloadFill
<1>11. CASE Restart
  <2>1. SerialParts'
    BY <1>11 DEF Restart, SerialInv, SerialParts, InSession, Idle, Recorded
  <2> QED
    BY <1>11, <2>1 DEF Restart
<1>12. CASE UNCHANGED vars
  <2>1. SerialParts'
    BY <1>12 DEF vars, SerialInv, SerialParts, InSession, Recorded, Baseline, Current
  <2> QED
    BY <1>12, <2>1 DEF vars
<1> QED
  BY <1>1, <1>2, <1>3, <1>4, <1>5, <1>6, <1>7, <1>8, <1>9, <1>10, <1>11, <1>12
  DEF Next, Step, Progress

-----------------------------------------------------------------------------
(* The direct writes of an SQL store, when requests come one at a time: the *)
(* reload then runs alone and ends with memory equal to the database.       *)

\* The requests that write come one at a time, or the store has no direct path.
Sequential == SqlStore => \A t, u \in Threads : t = u

\* How far the reload of the only thread has come.
Reloading(t) ==
    \/ thread[t].pc = "clear"
    \/ thread[t].pc = "read" /\ mem = Nothing
    \/ thread[t].pc = "counters" /\ mem = Nothing /\ thread[t].snapshot.projects = disk.projects
    \/ /\ thread[t].pc = "fill"
       /\ thread[t].from = disk.projects
       /\ DOMAIN mem = DOMAIN disk.projects \ thread[t].todo
       /\ \A p \in DOMAIN mem : mem[p] = disk.projects[p]

ReloadInv ==
    /\ WriterInv
    /\ \A t, u \in Threads : t = u
    /\ \E t \in Threads : Reloading(t)
    /\ \A p \in Projects : Recorded(p)

\* The start of a reload: a project is created or deleted in the database.
LEMMA DirectWriteIsSerial ==
    ASSUME SerialInv, \A t, u \in Threads : t = u, WriterInv',
           NEW t \in Threads, NEW p \in Projects, DirectCreate(t, p) \/ DirectDelete(t, p)
    PROVE  ReloadInv' /\ Serial!Next
<1>1. Reloading(t)'
  BY DEF DirectCreate, DirectDelete, Goto, SerialInv, WriterInv, TypeOK, Reloading
<1>2. CASE DirectCreate(t, p)
  <2>1. Serial!Create(p)
    BY <1>2 DEF DirectCreate, Serial!Create, Serial!Put, With, New, Live
  <2>2. \A q \in Projects : Recorded(q)'
    BY <1>2 DEF DirectCreate, SerialInv, Recorded, With, New, Live
  <2> QED
    BY <1>1, <2>1, <2>2 DEF ReloadInv, Serial!Next
<1>3. CASE DirectDelete(t, p)
  <2>1. Serial!Delete(p)
    BY <1>3 DEF DirectDelete, Serial!Delete, Serial!Active, Serial!Put, With, Deleted, ActiveIn
  <2>2. \A q \in Projects : Recorded(q)'
    BY <1>3 DEF DirectDelete, SerialInv, Recorded, With, Deleted, ActiveIn
  <2> QED
    BY <1>1, <2>1, <2>2 DEF ReloadInv, Serial!Next
<1> QED
  BY <1>2, <1>3

\* The reload leaves the database alone; at its end memory is the database.
LEMMA ReloadStep ==
    ASSUME ReloadInv, WriterInv', [Next]_vars
    PROVE  (ReloadInv \/ SerialInv)' /\ UNCHANGED disk.projects
<1> PICK t \in Threads : Reloading(t)
  BY DEF ReloadInv
<1>1. \A u \in Threads : u = t
  BY DEF ReloadInv
<1>2. thread[t].pc \in {"clear", "read", "counters", "fill"}
  BY DEF Reloading
<1>3. CASE ReloadClear(t)
  <2>1. Reloading(t)' /\ UNCHANGED disk
    BY <1>3 DEF ReloadClear, Goto, ReloadInv, WriterInv, TypeOK, Reloading
  <2> QED
    BY <1>3, <2>1 DEF ReloadInv, ReloadClear, Recorded
<1>4. CASE ReloadRead(t)
  <2>1. Reloading(t)' /\ UNCHANGED disk
    BY <1>4 DEF ReloadRead, At, Goto, ReloadInv, WriterInv, TypeOK, Reloading
  <2> QED
    BY <1>4, <2>1 DEF ReloadInv, ReloadRead, Recorded
<1>5. CASE ReloadCounters(t)
  <2>1. thread[t].snapshot.projects = disk.projects /\ mem = Nothing
    BY <1>5 DEF ReloadCounters, At, Reloading
  <2>2. thread'[t] = [pc |-> "fill", from |-> disk.projects, todo |-> DOMAIN disk.projects]
    BY <1>5, <2>1 DEF ReloadCounters, Goto, ReloadInv, WriterInv, TypeOK
  <2>3. Reloading(t)' /\ UNCHANGED disk
    BY <1>5, <2>1, <2>2 DEF ReloadCounters, Reloading, Nothing
  <2> QED
    BY <1>5, <2>3 DEF ReloadInv, ReloadCounters, Recorded
<1>6. CASE ReloadFill(t)
  <2>1. /\ thread[t].from = disk.projects
        /\ DOMAIN mem = DOMAIN disk.projects \ thread[t].todo
        /\ \A p \in DOMAIN mem : mem[p] = disk.projects[p]
    BY <1>6 DEF ReloadFill, At, Reloading
  <2>2. mem \in Store /\ disk.projects \in Store
    BY DEF ReloadInv, WriterInv, TypeOK, Database
  <2>3. CASE thread[t].todo = {}
    <3>1. mem = disk.projects
      BY <2>1, <2>2, <2>3, StoreEquality
    <3>2. thread'[t] = Idle /\ UNCHANGED <<mem, disk, acked>>
      BY <1>6, <2>3 DEF ReloadFill, Goto, ReloadInv, WriterInv, TypeOK
    <3>3. SerialInv'
      BY <1>1, <3>1, <3>2 DEF ReloadInv, SerialInv, Recorded, Idle, InSession
    <3> QED
      BY <3>2, <3>3
  <2>4. CASE thread[t].todo # {}
    <3>1. PICK p \in thread[t].todo :
              /\ mem' = With(mem, p, thread[t].from[p])
              /\ thread' = [thread EXCEPT ![t] = [thread[t] EXCEPT !.todo = @ \ {p}]]
      BY <1>6, <2>4 DEF ReloadFill, Goto
    <3>2. thread[t] \in FillState
      BY <1>6 DEF ReloadFill, At, ReloadInv, WriterInv, TypeOK, ThreadState, BareState, CheckedState,
                  SessionState, CountersState, FillState
    <3>3. p \in DOMAIN disk.projects
      BY <2>1, <3>2 DEF FillState
    <3>4. /\ thread'[t].pc = "fill" /\ thread'[t].from = disk.projects
          /\ thread'[t].todo = thread[t].todo \ {p}
      BY <2>1, <3>1, <3>2 DEF FillState, ReloadInv, WriterInv, TypeOK
    <3>5. UNCHANGED <<disk, acked>>
      BY <1>6 DEF ReloadFill
    <3>6. Reloading(t)'
      BY <2>1, <3>1, <3>3, <3>4, <3>5 DEF Reloading, With
    <3> QED
      BY <3>5, <3>6 DEF ReloadInv, Recorded
  <2> QED
    BY <2>3, <2>4
<1>7. CASE Restart
  <2>1. SerialInv'
    BY <1>7 DEF Restart, ReloadInv, SerialInv, InSession, Idle, Recorded
  <2> QED
    BY <1>7, <2>1 DEF Restart
<1>8. CASE UNCHANGED vars
  BY <1>8 DEF vars, ReloadInv, Reloading, Recorded
<1>9. ASSUME NEW u \in Threads
      PROVE  /\ \A p \in Projects : /\ ~CheckActive(u, p) /\ ~Bootstrap(u, p)
                                    /\ ~DirectCreate(u, p) /\ ~DirectDelete(u, p)
             /\ ~Stage(u) /\ ~MarkDeleted(u) /\ ~Enter(u) /\ ~BeginCommit(u) /\ ~Rollback(u)
             /\ ~Persist(u) /\ ~PersistFails(u) /\ ~Publish(u)
  BY <1>1, <1>2 DEF CheckActive, Bootstrap, DirectCreate, DirectDelete, Stage, MarkDeleted, Enter,
                    BeginCommit, Rollback, Persist, PersistFails, Publish, At
<1> QED
  BY <1>1, <1>3, <1>4, <1>5, <1>6, <1>7, <1>8, <1>9 DEF Next, Step, Progress

\* The two invariants together are inductive, and every step is a serial one.
LEMMA SequentialStep ==
    ASSUME Sequential, SerialInv \/ ReloadInv, [Next]_vars
    PROVE  (SerialInv \/ ReloadInv)' /\ [Serial!Next]_(disk.projects)
<1>1. WriterInv'
  BY WriterStep DEF SerialInv, ReloadInv
<1>2. CASE ReloadInv
  BY <1>1, <1>2, ReloadStep
<1>3. CASE SerialInv /\ \A t \in Threads, p \in Projects : ~DirectCreate(t, p) /\ ~DirectDelete(t, p)
  <2>1. SerialParts' /\ [Serial!Next]_(disk.projects)
    BY <1>3, SerialStep
  <2> QED
    BY <1>1, <2>1 DEF SerialInv, SerialParts
<1>4. ASSUME SerialInv, NEW t \in Threads, NEW p \in Projects, DirectCreate(t, p) \/ DirectDelete(t, p)
      PROVE  ReloadInv' /\ Serial!Next
  <2>1. \A x, y \in Threads : x = y
    BY <1>4 DEF DirectCreate, DirectDelete, Sequential
  <2> QED
    BY <1>1, <1>4, <2>1, DirectWriteIsSerial
<1> QED
  BY <1>2, <1>3, <1>4

\* When requests come one at a time, and for any number of threads over a store
\* without direct writes, the sessions implement the serial store: commits take
\* effect one at a time, each on top of everything committed before it.
THEOREM SessionsAreSerial ==
    ASSUME Sequential
    PROVE  Spec => ImplementsSerial
<1>1. Init => Serial!Init
  BY DEF Init, Serial!Init, Nothing
<1>2. (SerialInv \/ ReloadInv) /\ [Next]_vars
         => (SerialInv \/ ReloadInv)' /\ [Serial!Next]_(disk.projects)
  BY SequentialStep
<1> QED
  BY SerialInit, <1>1, <1>2, PTL DEF Spec, ImplementsSerial, Serial!Spec

\* Under the same assumption no acknowledged commit is ever lost, restarts and
\* reloads included.
THEOREM AckedCommitsAreDurable ==
    ASSUME Sequential
    PROVE  Spec => []AckedIsDurable
<1>1. SerialInv \/ ReloadInv => AckedIsDurable
  BY StoreFacts DEF SerialInv, ReloadInv, WriterInv, TypeOK, Database, Recorded, AckedIsDurable
<1>2. (SerialInv \/ ReloadInv) /\ [Next]_vars => (SerialInv \/ ReloadInv)'
  BY SequentialStep
<1> QED
  BY SerialInit, <1>1, <1>2, PTL DEF Spec

-----------------------------------------------------------------------------
(* Ids are not given out twice.  The counters in memory are never behind   *)
(* those of the database, and those cover every object that is stored.     *)

CountInv ==
    /\ \A p \in Projects : disk.ids[p] <= ids[p]
    /\ \A p \in DOMAIN disk.projects : disk.projects[p].objects \subseteq 1 .. disk.ids[p]
    /\ \A t \in Threads : InSession(t) => thread[t].staged \subseteq 1 .. ids[thread[t].project]
    /\ \A t \in Threads : thread[t].pc = "counters" => thread[t].snapshot = disk

LEMMA CountInit == Init => CountInv
<1> SUFFICES ASSUME Init PROVE CountInv
  OBVIOUS
<1>1. DOMAIN disk.projects = {} /\ \A p \in Projects : disk.ids[p] = 0 /\ ids[p] = 0
  BY DEF Init, Nothing
<1>2. \A t \in Threads : thread[t].pc = "idle"
  BY DEF Init, Idle
<1> QED
  BY <1>1, <1>2 DEF CountInv, InSession

\* What the types say of the counters.
LEMMA CounterTypes ==
    ASSUME TypeOK
    PROVE  /\ ids \in [Projects -> Nat] /\ disk.ids \in [Projects -> Nat]
           /\ DOMAIN disk.projects \subseteq Projects
           /\ \A t \in Threads : InSession(t) =>
                 /\ thread[t] \in SessionState /\ thread[t].project \in Projects
                 /\ thread[t].pc \in {"open", "persist"}
                       => [thread[t] EXCEPT !.pc = "persist"] \in SessionState
<1>1. disk.projects \in Store /\ disk.ids \in Counters /\ ids \in Counters
  BY DEF TypeOK, Database
<1>2. ASSUME NEW t \in Threads, InSession(t) PROVE thread[t] \in SessionState
  BY <1>2, ThreadShapes DEF TypeOK, InSession
<1>3. Counters \subseteq [Projects -> Nat]
  BY SessionAssumption DEF Counters
<1> QED
  BY <1>1, <1>2, <1>3, StoreFacts, SessionUpdates DEF SessionState

\* A state of thread t that adds nothing to its session.
AddsNothing(t, r) ==
    \/ r.pc \in {"idle", "checked", "clear", "read", "fill"}
    \/ r.pc = "counters" /\ r.snapshot = disk
    \/ r.pc = "open" /\ r.staged = {}
    \/ /\ r.pc \in {"open", "persist"} /\ InSession(t)
       /\ r.staged = thread[t].staged /\ r.project = thread[t].project

\* A step that keeps the database and the counters.
LEMMA CountAside ==
    ASSUME CountInv, TypeOK, NEW t \in Threads, NEW r, Goto(t, r), AddsNothing(t, r),
           UNCHANGED <<ids, disk>>
    PROVE  CountInv'
<1>1. thread'[t] = r /\ \A u \in Threads : u # t => thread'[u] = thread[u]
  BY DEF TypeOK, Goto
<1>2. ASSUME NEW u \in Threads
      PROVE  /\ InSession(u)' => thread'[u].staged \subseteq 1 .. ids[thread'[u].project]
             /\ thread'[u].pc = "counters" => thread'[u].snapshot = disk
  <2>1. CASE u = t
    BY <1>1, <2>1 DEF InSession, CountInv, AddsNothing
  <2>2. CASE u # t
    BY <1>1, <2>2 DEF InSession, CountInv
  <2> QED
    BY <2>1, <2>2
<1> QED
  BY <1>2 DEF CountInv

\* A commit saves the counters with the project.
LEMMA CountPersist ==
    ASSUME CountInv, SerialInv, NEW t \in Threads, Persist(t)
    PROVE  CountInv'
<1> DEFINE s == thread[t]
           p == s.project
<1>1. TypeOK /\ InSession(t) /\ s.pc = "persist" /\ Baseline(s) /\ Current(s)
  BY DEF SerialInv, WriterInv, Persist, At, InSession
<1>2. s \in SessionState /\ p \in Projects
  BY <1>1, CounterTypes
<1>3. mem = disk.projects
  BY <1>1, NobodyPublishes
<1>4. s.base \subseteq 1 .. disk.ids[p]
  BY <1>1, <1>2, <1>3 DEF Baseline, Current, CountInv
<1>5. /\ ids \in [Projects -> Nat] /\ disk.ids \in [Projects -> Nat]
      /\ DOMAIN disk.projects \subseteq Projects /\ \A q \in Projects : disk.ids[q] <= ids[q]
  BY <1>1, CounterTypes DEF CountInv
<1>6. \A q \in Projects : 1 .. disk.ids[q] \subseteq 1 .. ids[q]
  BY <1>5
<1>7. Final(s).objects \subseteq 1 .. ids[p]
  <2>1. s.staged \subseteq 1 .. ids[p]
    BY <1>1 DEF CountInv
  <2> QED
    BY <1>2, <1>4, <1>6, <2>1 DEF Final, Live, Deleted
<1>8. /\ disk'.ids = ids /\ ids' = ids
      /\ DOMAIN disk'.projects = DOMAIN disk.projects \cup {p}
      /\ disk'.projects[p] = Final(s)
      /\ \A q \in DOMAIN disk.projects : q # p => disk'.projects[q] = disk.projects[q]
  <2>1. disk'.projects = With(disk.projects, p, Final(s)) /\ disk'.ids = ids /\ ids' = ids
    BY DEF Persist
  <2> DEFINE w == With(disk.projects, p, Final(s))
  <2>2. /\ DOMAIN w = DOMAIN disk.projects \cup {p} /\ w[p] = Final(s)
        /\ \A q \in DOMAIN disk.projects : q # p => w[q] = disk.projects[q]
    BY DEF With
  <2> QED
    BY <2>1, <2>2
<1>9. \A q \in DOMAIN disk'.projects : disk'.projects[q].objects \subseteq 1 .. ids[q]
  BY <1>5, <1>6, <1>7, <1>8 DEF CountInv
<1>10. /\ thread'[t].pc = "publish" /\ thread'[t].staged = s.staged /\ thread'[t].project = p
       /\ \A u \in Threads : u # t => thread'[u] = thread[u]
  <2>1. thread' = [thread EXCEPT ![t] = [s EXCEPT !.pc = "publish"]]
    BY DEF Persist, Goto
  <2> QED
    BY <1>1, <1>2, <2>1 DEF TypeOK, SessionState
<1>11. ASSUME NEW u \in Threads
       PROVE  /\ InSession(u)' => thread'[u].staged \subseteq 1 .. ids[thread'[u].project]
              /\ thread'[u].pc # "counters"
  <2>1. CASE u = t
    BY <1>1, <1>10, <2>1 DEF CountInv
  <2>2. CASE u # t
    BY <1>10, <2>2 DEF InSession, CountInv, SerialInv
  <2> QED
    BY <2>1, <2>2
<1> QED
  BY <1>5, <1>8, <1>9, <1>11 DEF CountInv

\* A new id is above every stored one, and a session's own.
LEMMA CountStage ==
    ASSUME CountInv, TypeOK, NEW t \in Threads, Stage(t)
    PROVE  CountInv'
<1> DEFINE s == thread[t]
           p == s.project
           n == ids[p] + 1
<1>1. InSession(t) /\ s.pc = "open"
  BY DEF Stage, At, InSession
<1>2. s \in SessionState /\ p \in Projects
  BY <1>1, CounterTypes
<1>3. ids \in [Projects -> Nat] /\ disk.ids \in [Projects -> Nat] /\ disk' = disk
  BY CounterTypes DEF Stage
<1>4. ids'[p] = n /\ \A q \in Projects : q # p => ids'[q] = ids[q]
  BY <1>2, <1>3 DEF Stage
<1>5. \A q \in Projects : ids'[q] \in Nat /\ ids[q] <= ids'[q] /\ 1 .. ids[q] \subseteq 1 .. ids'[q]
  BY <1>2, <1>3, <1>4
<1>6. \A q \in Projects : disk.ids[q] <= ids'[q]
  BY <1>3, <1>5 DEF CountInv
<1>7. /\ \A u \in Threads : u # t => thread'[u] = thread[u]
      /\ \/ thread'[t] = Idle
         \/ thread'[t].pc = "open" /\ thread'[t].staged = s.staged \cup {n} /\ thread'[t].project = p
  BY <1>1, <1>2 DEF Stage, Goto, TypeOK, SessionState
<1>8. n \in 1 .. ids'[p]
  BY <1>2, <1>3, <1>4
<1>9. ASSUME NEW u \in Threads
      PROVE  /\ InSession(u)' => thread'[u].staged \subseteq 1 .. ids'[thread'[u].project]
             /\ thread'[u].pc = "counters" => thread'[u].snapshot = disk
  <2>1. CASE u = t
    <3>1. s.staged \subseteq 1 .. ids'[p]
      BY <1>1, <1>2, <1>5 DEF CountInv
    <3> QED
      BY <1>7, <1>8, <2>1, <3>1 DEF Idle, InSession
  <2>2. CASE u # t
    <3>1. thread'[u] = thread[u]
      BY <1>7, <2>2
    <3>2. InSession(u) => thread[u].project \in Projects
      BY CounterTypes
    <3> QED
      BY <1>5, <3>1, <3>2 DEF CountInv, InSession
  <2> QED
    BY <2>1, <2>2
<1> QED
  BY <1>3, <1>6, <1>9 DEF CountInv

\* A direct write saves the counters too, and a new project is empty.
LEMMA CountDirect ==
    ASSUME CountInv, SerialInv, NEW t \in Threads, NEW p \in Projects,
           DirectCreate(t, p) \/ DirectDelete(t, p)
    PROVE  CountInv'
<1>1. /\ ids \in [Projects -> Nat] /\ disk.ids \in [Projects -> Nat] /\ TypeOK
      /\ DOMAIN disk.projects \subseteq Projects /\ \A q \in Projects : disk.ids[q] <= ids[q]
  BY CounterTypes DEF CountInv, SerialInv, WriterInv
<1>2. \A q \in Projects : 1 .. disk.ids[q] \subseteq 1 .. ids[q]
  BY <1>1
<1>3. /\ disk'.ids = ids /\ ids' = ids
      /\ DOMAIN disk'.projects = DOMAIN disk.projects \cup {p}
      /\ disk'.projects[p].objects = {}
      /\ \A q \in DOMAIN disk.projects : q # p => disk'.projects[q] = disk.projects[q]
  <2>1. /\ disk'.ids = ids /\ ids' = ids
        /\ \E value \in {New, Deleted} : disk'.projects = With(disk.projects, p, value)
    BY DEF DirectCreate, DirectDelete
  <2>2. PICK value \in {New, Deleted} : disk'.projects = With(disk.projects, p, value)
    BY <2>1
  <2>3. value.objects = {}
    BY DEF New, Live, Deleted
  <2> DEFINE w == With(disk.projects, p, value)
  <2>4. /\ DOMAIN w = DOMAIN disk.projects \cup {p} /\ w[p] = value
        /\ \A q \in DOMAIN disk.projects : q # p => w[q] = disk.projects[q]
    BY DEF With
  <2> QED
    BY <2>1, <2>2, <2>3, <2>4
<1>4. \A q \in DOMAIN disk'.projects : disk'.projects[q].objects \subseteq 1 .. ids[q]
  BY <1>1, <1>2, <1>3 DEF CountInv
<1>5. /\ thread'[t] = [pc |-> "clear"]
      /\ \A u \in Threads : u # t => thread'[u] = thread[u]
  BY <1>1 DEF DirectCreate, DirectDelete, Goto, TypeOK
<1>6. ASSUME NEW u \in Threads
      PROVE  /\ InSession(u)' => thread'[u].staged \subseteq 1 .. ids[thread'[u].project]
             /\ thread'[u].pc # "counters"
  BY <1>5 DEF InSession, CountInv, SerialInv
<1> QED
  BY <1>1, <1>3, <1>4, <1>6 DEF CountInv

\* Memory takes the counters of the database: those it would continue with anyway.
LEMMA CountReset ==
    ASSUME CountInv, TypeOK, disk' = disk, ids' = disk.ids,
           \A t \in Threads : ~InSession(t)' /\ thread'[t].pc # "counters"
    PROVE  CountInv'
<1>1. disk.ids \in [Projects -> Nat]
  BY CounterTypes
<1> QED
  BY <1>1 DEF CountInv

LEMMA CountStep ==
    ASSUME CountInv, SerialInv \/ ReloadInv, [Next]_vars
    PROVE  CountInv'
<1> USE DEF At
<1>0. TypeOK
  BY DEF SerialInv, ReloadInv, WriterInv
<1>1. \A t \in Threads : thread[t].pc \in {"idle", "checked", "open", "persist", "publish"} => SerialInv
  <2>1. ASSUME ReloadInv, NEW t \in Threads
        PROVE  thread[t].pc \in {"clear", "read", "counters", "fill"}
    <3>1. PICK u \in Threads : Reloading(u)
      BY <2>1 DEF ReloadInv
    <3>2. t = u
      BY <2>1 DEF ReloadInv
    <3> QED
      BY <3>1, <3>2 DEF Reloading
  <2> QED
    BY <2>1
<1>2. ASSUME NEW t \in Threads, NEW p \in Projects, CheckActive(t, p) \/ Bootstrap(t, p) PROVE CountInv'
  <2> DEFINE s == Session("open", p, "create", {}, {})
             c == [pc |-> "checked", project |-> p]
  <2>1. AddsNothing(t, s) /\ AddsNothing(t, c)
    BY DEF Session, AddsNothing
  <2> HIDE DEF s, c
  <2>2. (Goto(t, c) \/ Goto(t, s)) /\ UNCHANGED <<ids, disk>>
    BY <1>2 DEF CheckActive, Bootstrap, s, c
  <2> QED
    BY <1>0, <2>1, <2>2, CountAside
<1>3. ASSUME NEW t \in Threads, NEW p \in Projects, DirectCreate(t, p) \/ DirectDelete(t, p)
      PROVE  CountInv'
  BY <1>1, <1>3, CountDirect DEF DirectCreate, DirectDelete
<1>4. ASSUME NEW t \in Threads, Enter(t) PROVE CountInv'
  <2> DEFINE p == thread[t].project
             s == Session("open", p, "update", mem[p].objects, {})
  <2>1. AddsNothing(t, s) /\ AddsNothing(t, Idle)
    BY DEF Session, Idle, AddsNothing
  <2> HIDE DEF s
  <2>2. Goto(t, IF ~lock /\ p \in DOMAIN mem THEN s ELSE Idle) /\ UNCHANGED <<ids, disk>>
    BY <1>4, Zenon DEF Enter, s
  <2> QED
    BY <1>0, <2>1, <2>2, CountAside
<1>5. ASSUME NEW t \in Threads, Stage(t) PROVE CountInv'
  BY <1>0, <1>5, CountStage
<1>6. ASSUME NEW t \in Threads, MarkDeleted(t) \/ BeginCommit(t) PROVE CountInv'
  <2> DEFINE s == thread[t]
  <2>1. s \in SessionState /\ InSession(t)
    BY <1>0, <1>6, CounterTypes DEF MarkDeleted, BeginCommit, InSession
  <2>2. /\ s.pc = "open" => AddsNothing(t, [s EXCEPT !.kind = "delete"])
        /\ AddsNothing(t, [s EXCEPT !.pc = "persist"]) /\ AddsNothing(t, Idle)
    BY <2>1 DEF SessionState, AddsNothing, Idle
  <2>3. \/ Goto(t, Idle)
        \/ Goto(t, [s EXCEPT !.kind = "delete"]) /\ s.pc = "open"
        \/ Goto(t, [s EXCEPT !.pc = "persist"])
    BY <1>6 DEF MarkDeleted, BeginCommit
  <2>4. UNCHANGED <<ids, disk>>
    BY <1>6 DEF MarkDeleted, BeginCommit
  <2> HIDE DEF s
  <2> QED
    BY <1>0, <2>2, <2>3, <2>4, CountAside
<1>7. ASSUME NEW t \in Threads, Rollback(t) \/ PersistFails(t) \/ Publish(t) PROVE CountInv'
  <2>1. Goto(t, Idle) /\ AddsNothing(t, Idle) /\ UNCHANGED <<ids, disk>>
    BY <1>7 DEF Rollback, PersistFails, Publish, Idle, AddsNothing
  <2> QED
    BY <1>0, <2>1, CountAside
<1>8. ASSUME NEW t \in Threads, Persist(t) PROVE CountInv'
  BY <1>1, <1>8, CountPersist DEF Persist
<1>9. ASSUME NEW t \in Threads, ReloadClear(t) \/ ReloadRead(t) PROVE CountInv'
  <2> DEFINE a == [pc |-> "read"]
             b == [pc |-> "counters", snapshot |-> disk]
  <2>1. AddsNothing(t, a) /\ AddsNothing(t, b)
    BY DEF AddsNothing
  <2> HIDE DEF a, b
  <2>2. (Goto(t, a) \/ Goto(t, b)) /\ UNCHANGED <<ids, disk>>
    BY <1>9 DEF ReloadClear, ReloadRead, a, b
  <2> QED
    BY <1>0, <2>1, <2>2, CountAside
<1>10. ASSUME NEW t \in Threads, ReloadCounters(t) PROVE CountInv'
  <2>1. thread[t].snapshot = disk /\ disk' = disk /\ ids' = disk.ids
    BY <1>10 DEF ReloadCounters, CountInv
  <2>2. \A u \in Threads : u = t
    BY <1>10 DEF ReloadCounters, SerialInv, ReloadInv
  <2>3. thread'[t].pc = "fill"
    BY <1>0, <1>10 DEF ReloadCounters, Goto, TypeOK
  <2> QED
    BY <1>0, <2>1, <2>2, <2>3, CountReset DEF InSession
<1>11. ASSUME NEW t \in Threads, ReloadFill(t) PROVE CountInv'
  <2>1. thread[t] \in FillState
    BY <1>0, <1>11, ThreadShapes DEF ReloadFill, TypeOK
  <2>2. \/ Goto(t, Idle)
        \/ \E p \in thread[t].todo : Goto(t, [thread[t] EXCEPT !.todo = @ \ {p}])
    BY <1>11 DEF ReloadFill
  <2>3. UNCHANGED <<ids, disk>>
    BY <1>11 DEF ReloadFill
  <2>4. AddsNothing(t, Idle) /\ \A p : AddsNothing(t, [thread[t] EXCEPT !.todo = @ \ {p}])
    BY <2>1 DEF FillState, AddsNothing, Idle
  <2> QED
    BY <1>0, <2>2, <2>3, <2>4, CountAside
<1>12. CASE Restart
  <2>1. \A t \in Threads : ~InSession(t)' /\ thread'[t].pc # "counters"
    BY <1>12 DEF Restart, InSession, Idle
  <2> QED
    BY <1>0, <1>12, <2>1, CountReset DEF Restart
<1>13. CASE UNCHANGED vars
  BY <1>13 DEF vars, CountInv, InSession
<1> QED
  BY <1>2, <1>3, <1>4, <1>5, <1>6, <1>7, <1>8, <1>9, <1>10, <1>11, <1>12, <1>13 DEF Next, Step, Progress

\* Under the same assumption, whenever every call has returned memory is the database, and
\* the next id of a project is above the ids of all its objects, before and after a restart.
THEOREM QuietStoresAgree ==
    ASSUME Sequential
    PROVE  Spec => []QuietMeansEqual
<1>1. ASSUME SerialInv \/ ReloadInv, CountInv PROVE QuietMeansEqual
  <2> SUFFICES ASSUME \A t \in Threads : thread[t].pc = "idle"
               PROVE  /\ mem = disk.projects
                      /\ \A p \in DOMAIN mem :
                            mem[p].objects \subseteq 1 .. ids[p] \cap 1 .. disk.ids[p]
    BY DEF QuietMeansEqual
  <2>1. SerialInv
    BY <1>1 DEF ReloadInv, Reloading
  <2>2. mem = disk.projects /\ TypeOK
    BY <2>1 DEF SerialInv, WriterInv
  <2>3. /\ ids \in [Projects -> Nat] /\ disk.ids \in [Projects -> Nat]
        /\ DOMAIN disk.projects \subseteq Projects
    BY <2>2, CounterTypes
  <2>4. \A p \in Projects : 1 .. disk.ids[p] \subseteq 1 .. ids[p]
    BY <1>1, <2>3 DEF CountInv
  <2> QED
    BY <1>1, <2>2, <2>3, <2>4 DEF CountInv
<1>2. (SerialInv \/ ReloadInv) /\ [Next]_vars => (SerialInv \/ ReloadInv)'
  BY SequentialStep
<1>3. (SerialInv \/ ReloadInv) /\ CountInv /\ [Next]_vars => CountInv'
  BY CountStep
<1> QED
  BY SerialInit, CountInit, <1>1, <1>2, <1>3, PTL DEF Spec

=============================================================================
