---------------------------- MODULE ProjectRows ----------------------------
(***************************************************************************)
(* How projects are stored (backend/system/persistence_store.py,           *)
(* postgres_store.py, persistence_json.py, backend/repositories) and read  *)
(* back (InMemorySystem._load_persisted): the JSON file, the SQL row of a  *)
(* project with its compatibility shell and its index tables, the formats  *)
(* of earlier versions, their import and migration, and the save of all    *)
(* projects that goes with the global settings.                            *)
(*                                                                         *)
(* A payload is the JSON form of a project.  None stands for a missing     *)
(* field.  Of the fields, those are kept that are not simply written to    *)
(* one column and read from it; tasks stands for those that are.           *)
(*                                                                         *)
(* A session is one step.  What a thread does outside a lock is a step of  *)
(* its own; a crash may come between any two.                              *)
(***************************************************************************)
EXTENDS Naturals, FiniteSets

CONSTANTS
    Projects,    \* project ids
    Points,      \* recall points
    Threads,     \* server threads
    MaxSaves,    \* bound: sessions, creations, deletions and settings saved
    None

ASSUME RowsAssumption == MaxSaves \in Nat

VARIABLES
    backend,   \* the kind of store the process was configured with
    file,      \* the JSON file: the store itself, or what an SQL store imports
    db,        \* the SQL database
    mem,       \* memory: g.projects and g.global_llm_settings
    up,        \* the process has been constructed
    thread,    \* what each thread is doing
    saves,     \* saves so far
    acked      \* history: points each project was told are stored

vars == <<backend, file, db, mem, up, thread, saves, acked>>

Empty == [x \in {} |-> None]
With(f, x, value) == [y \in DOMAIN f \cup {x} |-> IF y = x THEN value ELSE f[y]]
OrElse(value, default) == IF value # None THEN value ELSE default

-----------------------------------------------------------------------------
(* Payloads. *)

DefaultK == 1
QuietLayer == [k |-> DefaultK, cycle |-> "DONE", pending |-> FALSE, quota |-> 1]

Blank ==
    [state |-> "ACTIVE", binding |-> None, storage |-> None, config |-> None,
     absolute |-> FALSE, points |-> Empty, tasks |-> {}, queue |-> None,
     layer |-> None, artifact |-> None, allowlist |-> None]

\* the minimum create_project stores
Bootstrap ==
    [Blank EXCEPT !.binding = "server", !.storage = "startup", !.config = DefaultK,
                  !.queue = "idle", !.layer = QuietLayer]

Tombstone == [Blank EXCEPT !.state = "DELETED"]

\* Projects of earlier versions: no binding, no project config, layers without
\* their control fields, and one of three forms of the storage config.
Older ==
    {[Blank EXCEPT !.storage = storage, !.absolute = absolute,
                   !.points = [x \in Points |-> IF x = gone THEN "DELETED" ELSE "ACTIVE"],
                   !.tasks = Points, !.queue = "idle", !.layer = [QuietLayer EXCEPT !.k = 0],
                   !.artifact = "DESKTOP_WEB", !.allowlist = "list"] :
        storage \in {None, "scan", "dot"}, absolute \in BOOLEAN, gone \in Points}

\* What a session may change.
Edited(m) ==
    {[m EXCEPT !.points = With(@, x, "ACTIVE"), !.tasks = @ \cup {x}, !.queue = "busy"] :
        x \in Points \ DOMAIN m.points}
    \cup {[m EXCEPT !.points[x] = "DELETED"] :
             x \in {y \in DOMAIN m.points : m.points[y] = "ACTIVE"}}
    \cup {[m EXCEPT !.config = k, !.layer.k = k] : k \in {1, 2} \ {m.config}}
    \cup {[m EXCEPT !.layer = [@ EXCEPT !.cycle = "CLEARING", !.pending = TRUE, !.quota = 0],
                    !.queue = "idle"]}

States == {"ACTIVE", "DELETED"}
PointMaps == UNION {[xs -> States] : xs \in SUBSET Points}
Layers == [k : Nat, cycle : {"DONE", "CLEARING"}, pending : BOOLEAN, quota : Nat]

Fields ==
    [state : States, binding : {None, "server"},
     storage : {None, "scan", "dot", "startup", "disabled"}, config : Nat \cup {None},
     absolute : BOOLEAN, points : PointMaps, tasks : SUBSET Points,
     queue : {None, "idle", "busy"}, layer : Layers \cup {None},
     artifact : {None, "DESKTOP_WEB", "DESKTOP_NATIVE"}, allowlist : {None, "list"}]

\* The payloads of all versions; a deleted project keeps nothing.
Payloads == {m \in Fields : IF m.state = "DELETED" THEN m = Tombstone ELSE m.layer # None}
SnapshotsOf(ps) == [settings : {None, "set"}, projects : [ps -> Payloads]]

ASSUME NoneAssumption ==
    /\ None \notin {"server", "scan", "dot", "startup", "disabled", "idle", "busy", "row",
                    "any", "DESKTOP_WEB", "DESKTOP_NATIVE", "list", "set"} \cup States
    /\ None \notin Nat \cup PointMaps \cup Layers
    /\ \A ps \in SUBSET Projects : None \notin SnapshotsOf(ps)

-----------------------------------------------------------------------------
(* Writing a project: one row, its shell, and the index tables. *)

\* _strip_externalized_project_payload: the shell keeps what has no table
Shell(payload) ==
    [binding |-> payload.binding, storage |-> payload.storage, config |-> payload.config,
     points |-> None, queue |-> None, allowlist |-> None]

\* a projectScanConfig has no row
StorageRow(payload) == IF payload.storage = "scan" THEN None ELSE payload.storage

\* mutant: the pending parent is not written
LayerRowForgetsPending(payload) ==
    IF payload.layer = None THEN None
    ELSE [payload.layer EXCEPT !.k = IF @ = 0 THEN DefaultK ELSE @, !.pending = FALSE]

\* a control field missing from its map is written as its default
LayerRow(payload) ==
    IF payload.layer = None THEN None
    ELSE [payload.layer EXCEPT !.k = IF @ = 0 THEN DefaultK ELSE @]

\* producerRuntimeKind has no column
ArtifactRow(payload) == IF payload.artifact = None THEN None ELSE "row"

\* Tables whose rows hold every field: instances and their nodes, recall
\* points, learning and review tasks, the review queue, the allowlist.
InstanceRows(payload) == payload.absolute
PointRows(payload) == payload.points
TaskRows(payload) == payload.tasks
QueueRow(payload) == payload.queue
AllowlistRow(payload) == payload.allowlist

Row(payload) ==
    [state |-> payload.state, shell |-> Shell(payload),
     storage |-> StorageRow(payload), config |-> payload.config,
     absolute |-> InstanceRows(payload), points |-> PointRows(payload),
     tasks |-> TaskRows(payload), queue |-> QueueRow(payload), layer |-> LayerRow(payload),
     artifact |-> ArtifactRow(payload), allowlist |-> AllowlistRow(payload)]

\* A row of an earlier version: the points are in the shell, their index rows
\* hold only text, and there are no config rows.
OldRow(payload) ==
    [Row(payload) EXCEPT !.storage = None, !.config = None,
                         !.points = [x \in DOMAIN payload.points |-> None],
                         !.shell.points = payload.points,
                         !.shell.queue = payload.queue, !.queue = None]

NoRow == Row(Tombstone)

-----------------------------------------------------------------------------
(* Reading a project. *)

\* _recall_point_payload_from_index_row: the stored payload, else the shell's,
\* else a point made up from the text, which is ACTIVE
PointOf(row, x) ==
    IF row.points[x] # None THEN row.points[x]
    ELSE IF row.shell.points # None /\ x \in DOMAIN row.shell.points THEN row.shell.points[x]
    ELSE "ACTIVE"

\* a missing row of these falls back to the shell
StorageOf(row) == OrElse(row.storage, row.shell.storage)
ConfigOf(row) == OrElse(row.config, row.shell.config)
QueueOf(row) == OrElse(row.queue, row.shell.queue)
AllowlistOf(row) == OrElse(row.allowlist, row.shell.allowlist)

\* the default of AsrArtifact
ArtifactOf(row) == IF row.artifact = None THEN None ELSE "DESKTOP_NATIVE"

TasksOf(row) == row.tasks
LayerOf(row) == row.layer

\* _hydrate_project_payload: the index tables decide
Hydrated(row) ==
    [state |-> row.state, binding |-> row.shell.binding,
     storage |-> StorageOf(row), config |-> ConfigOf(row), absolute |-> row.absolute,
     points |-> [x \in DOMAIN row.points |-> PointOf(row, x)],
     tasks |-> TasksOf(row), queue |-> QueueOf(row), layer |-> LayerOf(row),
     artifact |-> ArtifactOf(row), allowlist |-> AllowlistOf(row)]

\* _project_payload_uses_externalized_fields
UsesExternalized(row) ==
    row.shell.points # None \/ row.shell.queue # None \/ row.shell.allowlist # None

NeedsConfigBackfill(rows) == \E p \in DOMAIN rows : rows[p].storage = None \/ rows[p].config = None
NeedsPointBackfill(rows) ==
    \E p \in DOMAIN rows : \E x \in DOMAIN rows[p].points : rows[p].points[x] = None
NeedsCompaction(rows) == \E p \in DOMAIN rows : UsesExternalized(rows[p])

-----------------------------------------------------------------------------
(* Snapshots: the settings and a payload for each project. *)

NoSnapshot == [settings |-> None, projects |-> Empty]

\* the database after save_snapshot: projects the snapshot lacks are deleted,
\* their index rows by cascade
Saved(snapshot) ==
    [system |-> TRUE, settings |-> snapshot.settings, slot |-> None,
     rows |-> [p \in DOMAIN snapshot.projects |-> Row(snapshot.projects[p])]]

\* after save_project_snapshot
SavedProject(d, p, payload) ==
    [d EXCEPT !.system = TRUE, !.rows = With(@, p, Row(payload)), !.slot = None]

Sharded(d) == d.system \/ d.settings # None \/ DOMAIN d.rows # {}
Hydrate(settings, rows) ==
    [settings |-> settings, projects |-> [p \in DOMAIN rows |-> Hydrated(rows[p])]]

\* What a load returns: the sharded tables, else the legacy row, else the file.
Source(d, f) ==
    IF backend = "json" THEN OrElse(f, NoSnapshot)
    ELSE IF Sharded(d) THEN Hydrate(d.settings, d.rows)
    ELSE OrElse(d.slot, OrElse(f, NoSnapshot))

-----------------------------------------------------------------------------
(* _load_persisted: decoding and migration of a project. *)

\* decode_project_payload turns a scan config into a storage config
Decoded(payload) == [payload EXCEPT !.storage = IF @ = "scan" THEN "startup" ELSE @]

\* the default for a project without storage config; "." as root of the library
\* is a config of an earlier version
MigratedStorage(m) ==
    CASE m.storage = None -> "disabled" [] m.storage = "dot" -> "startup" [] OTHER -> m.storage

\* _infer_legacy_startup_sync_config: absolute files under the default config
InferredStorage(m) ==
    IF MigratedStorage(m) = "disabled" /\ m.absolute THEN "startup" ELSE MigratedStorage(m)

MigratedLayer(m) ==
    IF m.layer = None THEN None
    ELSE [m.layer EXCEPT !.k = IF @ > 0 THEN @ ELSE DefaultK, !.quota = IF @ # 0 THEN 1 ELSE 0]

\* _migrated_project_config_from_layer0
MigratedConfig(m) ==
    IF m.config # None THEN m.config
    ELSE IF m.layer # None THEN MigratedLayer(m).k ELSE DefaultK

Migrated(m) ==
    IF m.state = "DELETED" THEN m
    ELSE [m EXCEPT !.storage = InferredStorage(m), !.binding = OrElse(@, "server"),
                   !.layer = MigratedLayer(m), !.config = MigratedConfig(m)]

\* needs_persist; filling in the control fields of a layer does not count
NeedsPersist(m) ==
    m.state # "DELETED" /\ (InferredStorage(m) # m.storage \/ m.binding = None \/ m.config = None)

Decode(snapshot) == [p \in DOMAIN snapshot.projects |-> Decoded(snapshot.projects[p])]
Memory(snapshot) ==
    [settings |-> snapshot.settings,
     projects |-> [p \in DOMAIN snapshot.projects |-> Migrated(Decode(snapshot)[p])]]

-----------------------------------------------------------------------------
(* Starting, and loading. *)

Idle == [pc |-> "idle"]
At(t, pc) == thread[t].pc = pc
Goto(t, r) == thread' = [thread EXCEPT ![t] = r]
Quiet == \A t \in Threads : thread[t].pc = "idle"

\* the constructor, once per process
Start(t) ==
    /\ ~up /\ Quiet
    /\ Goto(t, [pc |-> "load", boot |-> TRUE])
    /\ UNCHANGED <<backend, file, db, mem, up, saves, acked>>

Load(t, snapshot, next) ==
    Goto(t, [pc |-> next, boot |-> thread[t].boot, snapshot |-> snapshot])

JsonLoad(t) ==
    /\ backend = "json" /\ At(t, "load")
    /\ Load(t, Source(db, file), "fill")
    /\ UNCHANGED <<backend, file, db, mem, up, saves, acked>>

\* mutant: the file is archived before it is imported
SqliteLoadArchives(t) ==
    /\ backend = "sqlite" /\ At(t, "load")
    /\ file' = None
    /\ Load(t, Source(db, file), "resave")
    /\ UNCHANGED <<backend, db, mem, up, saves, acked>>

\* load_snapshot of the SQLite store holds the lock of the units of work from
\* the read to the save
SqliteLoad(t) ==
    /\ backend = "sqlite" /\ At(t, "load")
    /\ LET snapshot == Source(db, file)
           stale == NeedsConfigBackfill(db.rows) \/ NeedsPointBackfill(db.rows)
                    \/ NeedsCompaction(db.rows)
           import == ~Sharded(db) /\ snapshot # NoSnapshot
       IN  /\ db' = IF import \/ (Sharded(db) /\ stale) THEN Saved(snapshot) ELSE db
           /\ Load(t, snapshot, IF Sharded(db) \/ db.slot = None THEN "archive" ELSE "fill")
    /\ UNCHANGED <<backend, file, mem, up, saves, acked>>

\* _archive_legacy_snapshot; an error is ignored and leaves the file
Archive(t) ==
    /\ At(t, "archive")
    /\ file' \in {None, file}
    /\ Load(t, thread[t].snapshot, "fill")
    /\ UNCHANGED <<backend, db, mem, up, saves, acked>>

\* The PostgreSQL store reads table by table, each statement for itself.
PgReadProjects(t) ==
    /\ backend = "postgres" /\ At(t, "load")
    /\ Goto(t, [pc |-> "configs", boot |-> thread[t].boot, settings |-> db.settings,
                sharded |-> Sharded(db),
                rows |-> [p \in DOMAIN db.rows |-> [NoRow EXCEPT !.state = db.rows[p].state,
                                                                 !.shell = db.rows[p].shell]]])
    /\ UNCHANGED <<backend, file, db, mem, up, saves, acked>>

Current(p) == IF p \in DOMAIN db.rows THEN db.rows[p] ELSE NoRow

PgRead(t, from, to, Columns(_, _)) ==
    /\ At(t, from)
    /\ Goto(t, [thread[t] EXCEPT !.pc = to,
                                 !.rows = [p \in DOMAIN @ |-> Columns(@[p], Current(p))]])
    /\ UNCHANGED <<backend, file, db, mem, up, saves, acked>>

PgReadConfigs(t) ==
    PgRead(t, "configs", "points",
           LAMBDA row, now : [row EXCEPT !.storage = now.storage, !.config = now.config,
                                         !.absolute = now.absolute])
PgReadPoints(t) ==
    PgRead(t, "points", "reviews", LAMBDA row, now : [row EXCEPT !.points = now.points])
PgReadReviews(t) ==
    PgRead(t, "reviews", "layers",
           LAMBDA row, now : [row EXCEPT !.tasks = now.tasks, !.queue = now.queue])
PgReadLayers(t) ==
    PgRead(t, "layers", "logs", LAMBDA row, now : [row EXCEPT !.layer = now.layer])
PgReadLogs(t) ==
    PgRead(t, "logs", "decide",
           LAMBDA row, now : [row EXCEPT !.artifact = now.artifact, !.allowlist = now.allowlist])

\* the two questions about the tables and the legacy row are read last
PgDecide(t) ==
    /\ At(t, "decide")
    /\ LET r == thread[t]
           stale == NeedsConfigBackfill(db.rows) \/ NeedsPointBackfill(db.rows)
                    \/ NeedsCompaction(r.rows)
       IN  IF r.sharded
           THEN Load(t, Hydrate(r.settings, r.rows), IF stale THEN "resave" ELSE "archive")
           ELSE IF db.slot # None THEN Load(t, db.slot, "import")
           ELSE IF file # None THEN Load(t, file, "resave")
           ELSE Load(t, NoSnapshot, "fill")
    /\ UNCHANGED <<backend, file, db, mem, up, saves, acked>>

PgSave(t) ==
    /\ At(t, "resave") \/ At(t, "import")
    /\ db' = Saved(thread[t].snapshot)
    /\ Load(t, thread[t].snapshot, IF At(t, "resave") THEN "archive" ELSE "fill")
    /\ UNCHANGED <<backend, file, mem, up, saves, acked>>

\* _load_persisted overwrites the projects that were read and leaves the others;
\* the constructor then persists what was migrated
Filled(m, loaded) ==
    [settings |-> loaded.settings,
     projects |-> [p \in DOMAIN m.projects \cup DOMAIN loaded.projects |->
                      IF p \in DOMAIN loaded.projects THEN loaded.projects[p]
                      ELSE m.projects[p]]]

Fill(t) ==
    /\ At(t, "fill")
    /\ LET snapshot == thread[t].snapshot
           d == Decode(snapshot)
           migrated == \E p \in DOMAIN d : NeedsPersist(d[p])
       IN  /\ mem' = Filled(mem, Memory(snapshot))
           /\ IF thread[t].boot
              THEN IF migrated THEN Goto(t, [pc |-> "persist"]) /\ UNCHANGED up
                   ELSE Goto(t, Idle) /\ up' = TRUE
              ELSE Goto(t, Idle) /\ UNCHANGED up
    /\ UNCHANGED <<backend, file, db, saves, acked>>

\* _persist_to_disk
SaveAll(snapshot) ==
    IF backend = "json" THEN file' = snapshot /\ UNCHANGED db
    ELSE db' = Saved(snapshot) /\ UNCHANGED file

BootPersist(t) ==
    /\ At(t, "persist")
    /\ SaveAll(mem)
    /\ up' = TRUE
    /\ Goto(t, Idle)
    /\ UNCHANGED <<backend, mem, saves, acked>>

-----------------------------------------------------------------------------
(* Serving. *)

Locked == \E t \in Threads : thread[t].pc = "settings"

Serving(t) == up /\ At(t, "idle") /\ saves < MaxSaves
ActiveIn(m, p) == p \in DOMAIN m.projects /\ m.projects[p].state = "ACTIVE"

\* mutant: the file is written without its other projects
StoreAlone(p, payload) ==
    IF backend = "json"
    THEN /\ file' = [NoSnapshot EXCEPT !.projects = With(@, p, payload)]
         /\ UNCHANGED db
    ELSE db' = SavedProject(db, p, payload) /\ UNCHANGED file

\* save_project_snapshot of either kind of store
Store(p, payload) ==
    IF backend = "json"
    THEN /\ file' = [OrElse(file, NoSnapshot) EXCEPT !.projects = With(@, p, payload)]
         /\ UNCHANGED db
    ELSE db' = SavedProject(db, p, payload) /\ UNCHANGED file

\* a session that changes a project: persisted, then published
Commit(t, p) ==
    /\ Serving(t) /\ ~Locked
    /\ ActiveIn(mem, p)
    /\ \E payload \in Edited(mem.projects[p]) :
          /\ Store(p, payload)
          /\ mem' = [mem EXCEPT !.projects = With(@, p, payload)]
          /\ acked' = [acked EXCEPT ![p] = DOMAIN payload.points]
    /\ saves' = saves + 1
    /\ UNCHANGED <<backend, up, thread>>

\* create_project and delete_project of the JSON store are sessions too
SessionCreate(t, p) ==
    /\ Serving(t) /\ ~Locked
    /\ backend = "json" /\ p \notin DOMAIN mem.projects
    /\ Store(p, Bootstrap)
    /\ mem' = [mem EXCEPT !.projects = With(@, p, Bootstrap)]
    /\ saves' = saves + 1
    /\ UNCHANGED <<backend, up, thread, acked>>

SessionDelete(t, p) ==
    /\ Serving(t) /\ ~Locked
    /\ backend = "json" /\ ActiveIn(mem, p)
    /\ Store(p, Tombstone)
    /\ mem' = [mem EXCEPT !.projects[p] = Tombstone]
    /\ acked' = [acked EXCEPT ![p] = {}]
    /\ saves' = saves + 1
    /\ UNCHANGED <<backend, up, thread>>

\* With an SQL store they write the rows without the write lock, and every
\* project is loaded again.
Reload(t) == Goto(t, [pc |-> "clear", boot |-> FALSE])

\* create_bootstrap; the rows are those of a saved bootstrap payload
DirectCreate(t, p) ==
    /\ Serving(t)
    /\ backend # "json" /\ p \notin DOMAIN db.rows
    /\ db' = [db EXCEPT !.system = TRUE, !.rows = With(@, p, Row(Bootstrap))]
    /\ Reload(t)
    /\ saves' = saves + 1
    /\ UNCHANGED <<backend, file, mem, up, acked>>

\* replace_with_deleted_tombstone clears all index tables
DirectDelete(t, p) ==
    /\ Serving(t)
    /\ backend # "json" /\ ActiveIn(mem, p)
    /\ p \in DOMAIN db.rows /\ db.rows[p].state = "ACTIVE"
    /\ db' = [db EXCEPT !.system = TRUE, !.rows[p] = Row(Tombstone)]
    /\ acked' = [acked EXCEPT ![p] = {}]
    /\ Reload(t)
    /\ saves' = saves + 1
    /\ UNCHANGED <<backend, file, mem, up>>

\* _reload_sql_state empties the memory first
ReloadClear(t) ==
    /\ At(t, "clear")
    /\ mem' = [mem EXCEPT !.projects = Empty]
    /\ Goto(t, [pc |-> "load", boot |-> FALSE])
    /\ UNCHANGED <<backend, file, db, up, saves, acked>>

\* update_global_llm_settings holds the write lock, encodes the memory and
\* saves it all
EncodeSettings(t) ==
    /\ Serving(t) /\ ~Locked
    /\ mem' = [mem EXCEPT !.settings = "set"]
    /\ Goto(t, [pc |-> "settings", snapshot |-> mem'])
    /\ saves' = saves + 1
    /\ UNCHANGED <<backend, file, db, up, acked>>

SaveSettings(t) ==
    /\ At(t, "settings")
    /\ SaveAll(thread[t].snapshot)
    /\ Goto(t, Idle)
    /\ UNCHANGED <<backend, mem, up, saves, acked>>

\* The process is killed; memory is lost.
Crash ==
    /\ up' = FALSE
    /\ mem' = NoSnapshot
    /\ thread' = [t \in Threads |-> Idle]
    /\ UNCHANGED <<backend, file, db, saves, acked>>

-----------------------------------------------------------------------------
NoDb == [system |-> FALSE, settings |-> None, rows |-> Empty, slot |-> None]
OldSnapshot(p, payload) == [settings |-> None, projects |-> With(Empty, p, payload)]

Init ==
    /\ mem = NoSnapshot /\ up = FALSE /\ saves = 0
    /\ thread = [t \in Threads |-> Idle]
    /\ \/ /\ backend \in {"json", "sqlite", "postgres"}
          /\ file = None /\ db = NoDb
          /\ acked = [p \in Projects |-> {}]
       \/ \E p \in Projects, payload \in Older :
             /\ acked = [q \in Projects |-> IF q = p THEN Points ELSE {}]
             /\ \/ /\ backend \in {"json", "sqlite", "postgres"}
                   /\ file = OldSnapshot(p, payload) /\ db = NoDb
                \/ /\ backend \in {"sqlite", "postgres"}
                   /\ file = None
                   /\ \/ db = [NoDb EXCEPT !.slot = OldSnapshot(p, payload)]
                      \/ db = [NoDb EXCEPT !.system = TRUE, !.rows = With(Empty, p, OldRow(payload))]

Next ==
    \/ Crash
    \/ \E t \in Threads :
          \/ Start(t) \/ JsonLoad(t) \/ SqliteLoad(t) \/ Archive(t)
          \/ PgReadProjects(t) \/ PgReadConfigs(t) \/ PgReadPoints(t) \/ PgReadReviews(t)
          \/ PgReadLayers(t) \/ PgReadLogs(t) \/ PgDecide(t) \/ PgSave(t)
          \/ Fill(t) \/ BootPersist(t)
          \/ ReloadClear(t) \/ EncodeSettings(t) \/ SaveSettings(t)
          \/ \E p \in Projects : \/ Commit(t, p)
                                 \/ SessionCreate(t, p) \/ SessionDelete(t, p)
                                 \/ DirectCreate(t, p) \/ DirectDelete(t, p)

Spec == Init /\ [][Next]_vars

-----------------------------------------------------------------------------
(* Properties. *)

\* The runtime that made an artifact is the one field the tables do not keep.
Stored(m) == [m EXCEPT !.artifact = IF @ = None THEN None ELSE "any"]

\* What is written is what is read: when nothing is under way, the projects a
\* restart would find are those in memory, field by field, whatever the store,
\* the version that wrote the project, and the sessions since; and no migration is
\* left to do.
RestartIsExact ==
    up /\ Quiet =>
        LET m == Memory(Source(db, file))
        IN  /\ m.settings = mem.settings /\ DOMAIN m.projects = DOMAIN mem.projects
            /\ \A p \in DOMAIN m.projects : Stored(m.projects[p]) = Stored(mem.projects[p])
            /\ LET d == Decode(Source(db, file)) IN \A p \in DOMAIN d : ~NeedsPersist(d[p])

\* A point whose project was told it is stored is in what the next start would
\* load, at every moment: during an import, a compaction, a migration, a reload.
AckedSurvives ==
    LET s == Source(db, file).projects
    IN  \A p \in Projects : acked[p] # {} => p \in DOMAIN s /\ acked[p] \subseteq DOMAIN s[p].points

\* Spec: deleting a project is the only way to clear its objects.  A deleted
\* point or project never comes back, and a stored project never disappears.
TombstonesStay ==
    [][LET s == Source(db, file).projects
           n == Source(db', file').projects
       IN  \A p \in DOMAIN s :
              /\ p \in DOMAIN n
              /\ s[p].state = "DELETED" => n[p].state = "DELETED"
              /\ n[p].state = "ACTIVE" =>
                    \A x \in DOMAIN s[p].points :
                       /\ x \in DOMAIN n[p].points
                       /\ s[p].points[x] = "DELETED" => n[p].points[x] = "DELETED"]_vars

=============================================================================
