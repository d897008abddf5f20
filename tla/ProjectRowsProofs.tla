------------------------- MODULE ProjectRowsProofs -------------------------
EXTENDS ProjectRows, TLAPS

Kept(m) == Stored(Migrated(Decoded(m)))
Unsettled(m) == NeedsPersist(Decoded(m))

\* Two snapshots in which a start finds the same.
Alike(s, n) ==
    /\ s.settings = n.settings /\ DOMAIN s.projects = DOMAIN n.projects
    /\ \A p \in DOMAIN s.projects :
          /\ Kept(s.projects[p]) = Kept(n.projects[p])
          /\ Unsettled(s.projects[p]) <=> Unsettled(n.projects[p])

IsSnapshot(s) == \E ps \in SUBSET Projects : s \in SnapshotsOf(ps)

RowColumns == {"state", "shell", "storage", "config", "absolute", "points", "tasks",
               "queue", "layer", "artifact", "allowlist"}

DbOk(d) ==
    /\ DOMAIN d = {"system", "settings", "slot", "rows"}
    /\ d.system \in BOOLEAN
    /\ d.settings \in {None, "set"}
    /\ d.slot = None \/ IsSnapshot(d.slot)
    /\ DOMAIN d.rows \in SUBSET Projects
    /\ \A p \in DOMAIN d.rows : Hydrated(d.rows[p]) \in Payloads

\* A payload that a start leaves as it is.
Settled(m) == Migrated(Decoded(m)) = m /\ ~Unsettled(m)

MemOk(m) == IsSnapshot(m) /\ \A p \in DOMAIN m.projects : Settled(m.projects[p])

\* Memory holds what a start would find.
InMemory(m, s) ==
    /\ DOMAIN m.projects = DOMAIN s.projects
    /\ \A p \in DOMAIN s.projects : Kept(s.projects[p]) = Stored(m.projects[p])

\* There is no migration left to do.
Clean(s) == \A p \in DOMAIN s.projects : ~Unsettled(s.projects[p])

\* An SQL store has left the files and rows of earlier versions behind.
Held(b, d, s) == b # "json" => Sharded(d) \/ s = NoSnapshot

\* What has been acknowledged is stored.
Survives(k, s) ==
    \A p \in Projects :
        k[p] # {} => p \in DOMAIN s.projects /\ k[p] \subseteq DOMAIN s.projects[p].points

\* Nothing stored disappears, nothing deleted comes back.
NoLoss(s, n) ==
    \A p \in DOMAIN s.projects :
        /\ p \in DOMAIN n.projects
        /\ s.projects[p].state = "DELETED" => n.projects[p].state = "DELETED"
        /\ n.projects[p].state = "ACTIVE" =>
              \A x \in DOMAIN s.projects[p].points :
                 /\ x \in DOMAIN n.projects[p].points
                 /\ s.projects[p].points[x] = "DELETED" => n.projects[p].points[x] = "DELETED"

-----------------------------------------------------------------------------
(* The inductive invariant.  Stage says how far the one thread that starts *)
(* or reloads has come.                                                    *)

Src == Source(db, file)

Reading == {"configs", "points", "reviews", "layers", "logs", "decide"}
Carrying == {"resave", "import", "archive", "fill"}
Loading == {"load"} \cup Carrying \cup Reading
Stages == {"idle", "clear", "persist", "settings"} \cup Loading

\* The columns a reload of the PostgreSQL store has read by then.
Read(pc) ==
    {"state", "shell"}
    \cup (IF pc \in Reading \ {"configs"} THEN {"storage", "config", "absolute"} ELSE {})
    \cup (IF pc \in Reading \ {"configs", "points"} THEN {"points"} ELSE {})
    \cup (IF pc \in {"layers", "logs", "decide"} THEN {"tasks", "queue"} ELSE {})
    \cup (IF pc \in {"logs", "decide"} THEN {"layer"} ELSE {})
    \cup (IF pc = "decide" THEN {"artifact", "allowlist"} ELSE {})

RowsRead(r, d) ==
    /\ DOMAIN r = {"pc", "boot", "settings", "sharded", "rows"}
    /\ r.settings = d.settings /\ r.sharded = Sharded(d)
    /\ DOMAIN r.rows = DOMAIN d.rows
    /\ \A p \in DOMAIN d.rows :
          DOMAIN r.rows[p] = RowColumns /\ \A f \in Read(r.pc) : r.rows[p][f] = d.rows[p][f]

StageAt(r, b, d, m, u, s) ==
    /\ r.pc \in Stages
    /\ r.pc \in Loading => r.boot \in BOOLEAN /\ u = ~r.boot /\ (b = "json" => r.boot)
    /\ r.pc \in Reading => b = "postgres" /\ RowsRead(r, d)
    /\ r.pc \in Carrying => IsSnapshot(r.snapshot) /\ Alike(r.snapshot, s)
    /\ r.pc \in {"resave", "import"} => b = "postgres"
    /\ r.pc = "archive" => b # "json"
    /\ r.pc \in {"archive", "fill"} => Held(b, d, s)
    /\ r.pc = "persist" => ~u /\ InMemory(m, s) /\ m.settings = s.settings
    /\ r.pc = "clear" => u /\ r.boot = FALSE /\ b # "json"
    /\ r.pc = "settings" => u /\ r.snapshot = m /\ InMemory(m, s)

Stage(r) == StageAt(r, backend, db, mem, up, Src)

\* The requests that write come one at a time, or the store is the JSON file.
Orderly == backend = "json" \/ \A s, t \in Threads : s = t

Stores ==
    /\ backend \in {"json", "sqlite", "postgres"}
    /\ file = None \/ IsSnapshot(file)
    /\ DbOk(db) /\ MemOk(mem)
    /\ up \in BOOLEAN
    /\ up => Clean(Src) /\ Held(backend, db, Src)
    /\ acked \in [Projects -> SUBSET Points] /\ Survives(acked, Src)

OneBusy ==
    /\ DOMAIN thread = Threads
    /\ \A t \in Threads : Stage(thread[t])
    /\ \A s, t \in Threads : s # t => thread[s].pc = "idle" \/ thread[t].pc = "idle"

Served == up /\ Quiet => InMemory(mem, Src) /\ mem.settings = Src.settings

IInv == Orderly /\ Stores /\ OneBusy /\ Served

\* What is loaded is loaded into an empty memory: of a new process, or of one whose
\* projects were cleared first.
Bare ==
    (\E t \in Threads : thread[t].pc \in Loading) \/ (~up /\ Quiet) => mem.projects = Empty

-----------------------------------------------------------------------------
(* Payloads and rows. *)

USE DEF States

LEMMA NoneApart ==
    /\ None \notin {"ACTIVE", "DELETED", "server", "scan", "dot", "startup", "disabled", "idle",
                    "busy", "DESKTOP_WEB", "DESKTOP_NATIVE", "list", "set", "row", "any"}
    /\ \A n \in Nat : n # None
    /\ \A f \in PointMaps : f # None
    /\ \A f \in Layers : f # None
BY NoneAssumption

LEMMA SnapshotIsNot == \A s : IsSnapshot(s) => s # None
BY NoneAssumption DEF IsSnapshot

\* The fields of a payload, or of what is compared of one.
Views ==
    [state : States, binding : {None, "server"},
     storage : {None, "scan", "dot", "startup", "disabled"}, config : Nat \cup {None},
     absolute : BOOLEAN, points : PointMaps, tasks : SUBSET Points,
     queue : {None, "idle", "busy"}, layer : Layers \cup {None},
     artifact : {None, "DESKTOP_WEB", "DESKTOP_NATIVE", "any"}, allowlist : {None, "list"}]

LEMMA FieldsAreViews == Fields \subseteq Views
BY DEF Fields, Views

\* Two payloads that agree in every field.
LEMMA SameFields ==
    ASSUME NEW m \in Views, NEW n \in Views,
           m.state = n.state, m.binding = n.binding, m.storage = n.storage,
           m.config = n.config, m.absolute = n.absolute, m.points = n.points,
           m.tasks = n.tasks, m.queue = n.queue, m.layer = n.layer,
           m.artifact = n.artifact, m.allowlist = n.allowlist
    PROVE  m = n
BY DEF Views

LEMMA EmptyIsPoints == Empty \in PointMaps
BY DEF Empty, PointMaps

LEMMA QuietLayerOk == QuietLayer \in Layers /\ QuietLayer # None
<1>1. QuietLayer \in Layers
  BY DEF QuietLayer, Layers, DefaultK
<1> QED
  BY <1>1, NoneApart

LEMMA BlankIs == Blank \in Fields /\ Blank.points = Empty /\ Blank.tasks = {}
BY EmptyIsPoints DEF Blank, Fields

LEMMA TombstoneIs ==
    /\ Tombstone \in Fields /\ Tombstone.state = "DELETED" /\ Tombstone.points = Empty
    /\ Tombstone.layer = None /\ Tombstone.artifact = None /\ Tombstone.storage = None
    /\ Tombstone.queue = None /\ Tombstone.allowlist = None /\ Tombstone.config = None
BY BlankIs DEF Tombstone, Fields, Blank

LEMMA TombstoneOk == Tombstone \in Payloads
BY TombstoneIs DEF Payloads

LEMMA BootstrapIs ==
    /\ Bootstrap \in Fields /\ Bootstrap.state = "ACTIVE" /\ Bootstrap.points = Empty
    /\ Bootstrap.binding = "server" /\ Bootstrap.storage = "startup"
    /\ Bootstrap.config = DefaultK /\ Bootstrap.layer = QuietLayer
    /\ Bootstrap.artifact = None
<1> DefaultK \in Nat
  BY DEF DefaultK
<1> QED
  BY BlankIs, QuietLayerOk DEF Bootstrap, Fields, Blank

LEMMA BootstrapOk == Bootstrap \in Payloads
BY BootstrapIs, QuietLayerOk DEF Payloads

\* What the layer table keeps of a layer, and what a start makes of one.
RowLayer(y) ==
    [k |-> IF y.k = 0 THEN DefaultK ELSE y.k, cycle |-> y.cycle, pending |-> y.pending,
     quota |-> y.quota]
StartLayer(y) ==
    [k |-> IF y.k = 0 THEN DefaultK ELSE y.k, cycle |-> y.cycle, pending |-> y.pending,
     quota |-> IF y.quota # 0 THEN 1 ELSE 0]

LEMMA LayerTypes ==
    ASSUME NEW y \in Layers
    PROVE  /\ RowLayer(y) \in Layers /\ StartLayer(y) \in Layers
           /\ StartLayer(RowLayer(y)) = StartLayer(y)
           /\ RowLayer(StartLayer(y)) = StartLayer(y)
           /\ StartLayer(StartLayer(y)) = StartLayer(y)
           /\ StartLayer(y).k = RowLayer(y).k
           /\ y # None
BY NoneApart DEF Layers, RowLayer, StartLayer, DefaultK

LEMMA SameLayer ==
    ASSUME NEW y \in Layers, NEW z \in Layers, y.k = z.k, y.cycle = z.cycle,
           y.pending = z.pending, y.quota = z.quota
    PROVE  y = z
BY DEF Layers

\* The updates of the two operators.
WithK(y, k) == [y EXCEPT !.k = k]
WithQuota(y, k, quota) == [y EXCEPT !.k = k, !.quota = quota]

LEMMA LayerUpdate ==
    ASSUME NEW y \in Layers, NEW k \in Nat, NEW quota \in Nat, NEW z \in Layers,
           z.k = k, z.cycle = y.cycle, z.pending = y.pending
    PROVE  /\ z.quota = y.quota => WithK(y, k) = z
           /\ z.quota = quota => WithQuota(y, k, quota) = z
<1> DEFINE a == WithK(y, k)
           b == WithQuota(y, k, quota)
<1>1. /\ a \in Layers /\ a.k = k /\ a.cycle = y.cycle /\ a.pending = y.pending
      /\ a.quota = y.quota
  BY DEF Layers, WithK
<1>2. /\ b \in Layers /\ b.k = k /\ b.cycle = y.cycle /\ b.pending = y.pending
      /\ b.quota = quota
  BY DEF Layers, WithQuota
<1> HIDE DEF a, b
<1>5. z.quota = y.quota => a = z
  BY <1>1, SameLayer
<1>6. z.quota = quota => b = z
  BY <1>2, SameLayer
<1> QED
  BY <1>5, <1>6, Zenon DEF a, b

LEMMA LayerRowIs ==
    ASSUME NEW m, m.layer \in Layers
    PROVE  LayerRow(m) = RowLayer(m.layer) /\ MigratedLayer(m) = StartLayer(m.layer)
<1> DEFINE y == m.layer
           k == IF y.k = 0 THEN DefaultK ELSE y.k
           kk == IF y.k > 0 THEN y.k ELSE DefaultK
           quota == IF y.quota # 0 THEN 1 ELSE 0
<1>1. y \in Layers /\ y # None
  BY NoneApart
<1>2. y.k \in Nat /\ k \in Nat /\ quota \in Nat /\ kk = k
  BY <1>1 DEF Layers, DefaultK
<1>3. LayerRow(m) = WithK(y, k)
  BY <1>1, Zenon DEF LayerRow, WithK
<1>4. MigratedLayer(m) = WithQuota(y, kk, quota)
  BY <1>1, Zenon DEF MigratedLayer, WithQuota
<1>5. /\ RowLayer(y).k = k /\ RowLayer(y).cycle = y.cycle
      /\ RowLayer(y).pending = y.pending /\ RowLayer(y).quota = y.quota
  BY DEF RowLayer
<1>6. /\ StartLayer(y).k = k /\ StartLayer(y).cycle = y.cycle
      /\ StartLayer(y).pending = y.pending /\ StartLayer(y).quota = quota
  BY DEF StartLayer
<1>7. RowLayer(y) \in Layers /\ StartLayer(y) \in Layers
  BY <1>1, LayerTypes
<1> HIDE DEF y, k, kk, quota
<1>8. WithK(y, k) = RowLayer(y)
  BY <1>1, <1>2, <1>5, <1>7, LayerUpdate
<1>9. WithQuota(y, k, quota) = StartLayer(y)
  BY <1>1, <1>2, <1>6, <1>7, LayerUpdate
<1>10. LayerRow(m) = RowLayer(y) /\ MigratedLayer(m) = StartLayer(y)
  BY <1>2, <1>3, <1>4, <1>8, <1>9
<1> QED
  BY <1>10 DEF y

\* What a start makes of a storage config.
StartStorage(storage, absolute) ==
    IF storage \in {"scan", "dot", "startup"} \/ absolute THEN "startup" ELSE "disabled"

\* What a start makes of a project in use, field by field.
Starts(m, n) ==
    /\ n \in Fields
    /\ n.state = m.state /\ n.binding = "server"
    /\ n.storage = StartStorage(m.storage, m.absolute)
    /\ n.config = (IF m.config # None THEN m.config ELSE StartLayer(m.layer).k)
    /\ n.absolute = m.absolute /\ n.points = m.points /\ n.tasks = m.tasks
    /\ n.queue = m.queue /\ n.layer = StartLayer(m.layer)
    /\ n.artifact = m.artifact /\ n.allowlist = m.allowlist

LEMMA DecodedIs ==
    ASSUME NEW m \in Fields
    PROVE  /\ Decoded(m) \in Fields
           /\ Decoded(m).storage = IF m.storage = "scan" THEN "startup" ELSE m.storage
           /\ Decoded(m).state = m.state /\ Decoded(m).binding = m.binding
           /\ Decoded(m).config = m.config /\ Decoded(m).absolute = m.absolute
           /\ Decoded(m).points = m.points /\ Decoded(m).tasks = m.tasks
           /\ Decoded(m).queue = m.queue /\ Decoded(m).layer = m.layer
           /\ Decoded(m).artifact = m.artifact /\ Decoded(m).allowlist = m.allowlist
<1> DEFINE s == IF m.storage = "scan" THEN "startup" ELSE m.storage
           d == [m EXCEPT !.storage = s]
<1>1. s \in {None, "scan", "dot", "startup", "disabled"}
  BY DEF Fields
<1>2. Decoded(m) = d
  BY Zenon DEF Decoded
<1> HIDE DEF s
<1>3. /\ d \in Fields /\ d.storage = s
      /\ d.state = m.state /\ d.binding = m.binding
      /\ d.config = m.config /\ d.absolute = m.absolute /\ d.points = m.points
      /\ d.tasks = m.tasks /\ d.queue = m.queue /\ d.layer = m.layer
      /\ d.artifact = m.artifact /\ d.allowlist = m.allowlist
  BY <1>1 DEF Fields
<1> HIDE DEF d
<1> QED
  BY <1>2, <1>3 DEF s

LEMMA ActiveLayer ==
    ASSUME NEW m \in Payloads, m.state # "DELETED"
    PROVE  m \in Fields /\ m.state = "ACTIVE" /\ m.layer \in Layers
BY DEF Payloads, Fields

LEMMA InferredIs ==
    ASSUME NEW m \in Fields
    PROVE  InferredStorage(Decoded(m)) = StartStorage(m.storage, m.absolute)
<1> DEFINE d == Decoded(m)
<1>1. /\ d.storage = IF m.storage = "scan" THEN "startup" ELSE m.storage
      /\ d.absolute = m.absolute
  BY DecodedIs
<1> HIDE DEF d
<1>2. m.storage \in {None, "scan", "dot", "startup", "disabled"} /\ m.absolute \in BOOLEAN
  BY DEF Fields
<1>3. CASE m.absolute
  BY <1>1, <1>2, <1>3, NoneApart DEF InferredStorage, MigratedStorage, StartStorage, d
<1>4. CASE ~m.absolute
  BY <1>1, <1>2, <1>4, NoneApart DEF InferredStorage, MigratedStorage, StartStorage, d
<1> QED
  BY <1>3, <1>4

LEMMA MigratedIs ==
    ASSUME NEW m \in Payloads, m.state # "DELETED"
    PROVE  Starts(m, Migrated(Decoded(m)))
<1> DEFINE d == Decoded(m)
           binding == OrElse(d.binding, "server")
           storage == InferredStorage(d)
           layer == MigratedLayer(d)
           config == MigratedConfig(d)
           n == [d EXCEPT !.storage = storage, !.binding = binding, !.layer = layer,
                          !.config = config]
<1>1. m \in Fields /\ m.layer \in Layers
  BY ActiveLayer
<1>2. d \in Fields /\ d.layer = m.layer /\ d.config = m.config /\ d.binding = m.binding
  BY <1>1, DecodedIs
<1>3. Migrated(d) = n
  BY <1>1, DecodedIs DEF Migrated
<1>4. layer = StartLayer(m.layer) /\ layer \in Layers
  BY <1>1, <1>2, LayerRowIs, LayerTypes
<1>5. storage = StartStorage(m.storage, m.absolute)
  BY <1>1, InferredIs
<1>6. binding = "server"
  BY <1>1, <1>2 DEF OrElse, Fields
<1>7. config = (IF m.config # None THEN m.config ELSE StartLayer(m.layer).k)
  BY <1>1, <1>2, <1>4, NoneApart DEF MigratedConfig
<1>8. storage \in {"startup", "disabled"} /\ config \in Nat
  BY <1>1, <1>4, <1>5, <1>7 DEF StartStorage, Fields, Layers
<1> HIDE DEF d, binding, storage, layer, config
<1>9. /\ n \in Fields /\ n.state = d.state /\ n.binding = binding /\ n.storage = storage
      /\ n.config = config /\ n.absolute = d.absolute /\ n.points = d.points
      /\ n.tasks = d.tasks /\ n.queue = d.queue /\ n.layer = layer
      /\ n.artifact = d.artifact /\ n.allowlist = d.allowlist
  BY <1>2, <1>4, <1>6, <1>8 DEF Fields
<1> HIDE DEF n
<1>10. /\ d.state = m.state /\ d.absolute = m.absolute /\ d.points = m.points
       /\ d.tasks = m.tasks /\ d.queue = m.queue /\ d.artifact = m.artifact
       /\ d.allowlist = m.allowlist
  BY <1>1, DecodedIs DEF d
<1>11. Starts(m, n)
  BY <1>4, <1>5, <1>6, <1>7, <1>9, <1>10 DEF Starts
<1> QED
  BY <1>3, <1>11 DEF d

LEMMA StoredIs ==
    ASSUME NEW n \in Fields
    PROVE  /\ Stored(n) \in Views
           /\ Stored(n).state = n.state /\ Stored(n).binding = n.binding
           /\ Stored(n).storage = n.storage /\ Stored(n).config = n.config
           /\ Stored(n).absolute = n.absolute /\ Stored(n).points = n.points
           /\ Stored(n).tasks = n.tasks /\ Stored(n).queue = n.queue
           /\ Stored(n).layer = n.layer /\ Stored(n).allowlist = n.allowlist
           /\ Stored(n).artifact = IF n.artifact = None THEN None ELSE "any"
<1> DEFINE x == IF n.artifact = None THEN None ELSE "any"
           d == [n EXCEPT !.artifact = x]
<1>1. x \in {None, "any"}
  OBVIOUS
<1>2. Stored(n) = d
  BY Zenon DEF Stored
<1> HIDE DEF x
<1>3. /\ d \in Views /\ d.artifact = x
      /\ d.state = n.state /\ d.binding = n.binding /\ d.storage = n.storage
      /\ d.config = n.config /\ d.absolute = n.absolute /\ d.points = n.points
      /\ d.tasks = n.tasks /\ d.queue = n.queue /\ d.layer = n.layer
      /\ d.allowlist = n.allowlist
  BY <1>1 DEF Fields, Views
<1> HIDE DEF d
<1> QED
  BY <1>2, <1>3 DEF x

\* The deleted project is the same in every form.
LEMMA TombstoneKept ==
    /\ Decoded(Tombstone) = Tombstone /\ Migrated(Decoded(Tombstone)) = Tombstone
    /\ Stored(Tombstone) = Tombstone /\ Kept(Tombstone) = Tombstone
    /\ ~Unsettled(Tombstone) /\ Settled(Tombstone)
<1>1. Tombstone \in Fields /\ Tombstone \in Views
  BY TombstoneIs, FieldsAreViews
<1>2. Tombstone.state = "DELETED" /\ Tombstone.storage = None /\ Tombstone.artifact = None
  BY TombstoneIs
<1> DEFINE d == Decoded(Tombstone)
           s == Stored(Tombstone)
<1>3. d \in Fields /\ d \in Views
  BY <1>1, DecodedIs, FieldsAreViews
<1>4. d = Tombstone
  <2>1. /\ d.storage = Tombstone.storage /\ d.state = Tombstone.state
        /\ d.binding = Tombstone.binding /\ d.config = Tombstone.config
        /\ d.absolute = Tombstone.absolute /\ d.points = Tombstone.points
        /\ d.tasks = Tombstone.tasks /\ d.queue = Tombstone.queue
        /\ d.layer = Tombstone.layer /\ d.artifact = Tombstone.artifact
        /\ d.allowlist = Tombstone.allowlist
    BY <1>1, <1>2, NoneApart, DecodedIs
  <2> HIDE DEF d
  <2> QED
    BY <1>1, <1>3, <2>1, SameFields
<1>5. s = Tombstone
  <2>1. /\ s \in Views /\ s.storage = Tombstone.storage /\ s.state = Tombstone.state
        /\ s.binding = Tombstone.binding /\ s.config = Tombstone.config
        /\ s.absolute = Tombstone.absolute /\ s.points = Tombstone.points
        /\ s.tasks = Tombstone.tasks /\ s.queue = Tombstone.queue
        /\ s.layer = Tombstone.layer /\ s.artifact = Tombstone.artifact
        /\ s.allowlist = Tombstone.allowlist
    BY <1>1, <1>2, StoredIs
  <2> HIDE DEF s
  <2> QED
    BY <1>1, <2>1, SameFields
<1>6. Migrated(Tombstone) = Tombstone
  BY <1>2 DEF Migrated
<1>7. ~NeedsPersist(Tombstone)
  BY <1>2 DEF NeedsPersist
<1> QED
  BY <1>4, <1>5, <1>6, <1>7 DEF Kept, Unsettled, Settled

LEMMA DeletedIs == \A m \in Payloads : m.state = "DELETED" <=> m = Tombstone
BY TombstoneIs DEF Payloads

LEMMA UnsettledIs ==
    ASSUME NEW m \in Payloads, m.state # "DELETED"
    PROVE  Unsettled(m) <=> \/ StartStorage(m.storage, m.absolute)
                                  # (IF m.storage = "scan" THEN "startup" ELSE m.storage)
                            \/ m.binding = None \/ m.config = None
<1> DEFINE d == Decoded(m)
<1>1. m \in Fields
  BY ActiveLayer
<1>2. /\ InferredStorage(d) = StartStorage(m.storage, m.absolute)
      /\ d.storage = IF m.storage = "scan" THEN "startup" ELSE m.storage
      /\ d.state = m.state /\ d.binding = m.binding /\ d.config = m.config
  BY <1>1, DecodedIs, InferredIs
<1> HIDE DEF d
<1> QED
  BY <1>2 DEF Unsettled, NeedsPersist, d

\* A start finds the same in two payloads that differ in nothing but what the
\* tables do not keep.
LEMMA SameKept ==
    ASSUME NEW m \in Payloads, NEW n \in Payloads, m.state = "ACTIVE", n.state = "ACTIVE",
           m.binding = n.binding, m.storage = n.storage, m.config = n.config,
           m.absolute = n.absolute, m.points = n.points, m.tasks = n.tasks,
           m.queue = n.queue, StartLayer(m.layer) = StartLayer(n.layer),
           m.artifact = None <=> n.artifact = None, m.allowlist = n.allowlist
    PROVE  Kept(m) = Kept(n) /\ (Unsettled(m) <=> Unsettled(n))
<1> DEFINE a == Migrated(Decoded(m))
           b == Migrated(Decoded(n))
<1>1. Starts(m, a) /\ Starts(n, b)
  BY MigratedIs
<1>2. Kept(m) = Stored(a) /\ Kept(n) = Stored(b)
  BY DEF Kept
<1>3. Unsettled(m) <=> Unsettled(n)
  BY UnsettledIs
<1> HIDE DEF a, b
<1>4. a \in Fields /\ b \in Fields
  BY <1>1 DEF Starts
<1> DEFINE x == Stored(a)
           y == Stored(b)
<1>5. /\ x \in Views /\ y \in Views
      /\ x.state = y.state /\ x.binding = y.binding /\ x.storage = y.storage
      /\ x.config = y.config /\ x.absolute = y.absolute /\ x.points = y.points
      /\ x.tasks = y.tasks /\ x.queue = y.queue /\ x.layer = y.layer
      /\ x.artifact = y.artifact /\ x.allowlist = y.allowlist
  BY <1>1, <1>4, StoredIs DEF Starts
<1> HIDE DEF x, y
<1>6. x = y
  BY <1>5, SameFields
<1> QED
  BY <1>2, <1>3, <1>6 DEF x, y

\* What a start finds has the points and the state of what was stored.
LEMMA KeptPoints ==
    ASSUME NEW m \in Payloads
    PROVE  Kept(m).points = m.points /\ Kept(m).state = m.state
<1>1. CASE m.state = "DELETED"
  BY <1>1, DeletedIs, TombstoneKept
<1>2. CASE m.state # "DELETED"
  BY <1>2, MigratedIs, StoredIs DEF Kept, Starts
<1> QED
  BY <1>1, <1>2

\* A row, read back, is the project that was written.
LEMMA RowRead ==
    ASSUME NEW m \in Payloads
    PROVE  /\ Hydrated(Row(m)) \in Payloads
           /\ Kept(Hydrated(Row(m))) = Kept(m)
           /\ Unsettled(Hydrated(Row(m))) <=> Unsettled(m)
           /\ Hydrated(Row(m)).state = m.state /\ Hydrated(Row(m)).points = m.points
<1> DEFINE row == Row(m)
           h == Hydrated(row)
<1>1. m \in Fields
  BY DEF Payloads
<1>2. /\ row.state = m.state /\ row.shell = Shell(m) /\ row.storage = StorageRow(m)
      /\ row.config = m.config /\ row.absolute = m.absolute /\ row.points = m.points
      /\ row.tasks = m.tasks /\ row.queue = m.queue /\ row.layer = LayerRow(m)
      /\ row.artifact = ArtifactRow(m) /\ row.allowlist = m.allowlist
  BY DEF Row, InstanceRows, PointRows, TaskRows, QueueRow, AllowlistRow
<1>3. /\ row.shell.binding = m.binding /\ row.shell.storage = m.storage
      /\ row.shell.config = m.config /\ row.shell.queue = None
      /\ row.shell.allowlist = None
  BY <1>2 DEF Shell
<1> HIDE DEF row
<1>4. /\ h.state = row.state /\ h.binding = row.shell.binding
      /\ h.storage = StorageOf(row) /\ h.config = ConfigOf(row)
      /\ h.absolute = row.absolute
      /\ h.points = [x \in DOMAIN row.points |-> PointOf(row, x)]
      /\ h.tasks = row.tasks /\ h.queue = QueueOf(row) /\ h.layer = row.layer
      /\ h.artifact = ArtifactOf(row) /\ h.allowlist = AllowlistOf(row)
  BY DEF Hydrated, TasksOf, LayerOf
<1>5. h.points = m.points
  <2>1. m.points \in PointMaps
    BY <1>1 DEF Fields
  <2>2. PICK xs \in SUBSET Points : m.points \in [xs -> States]
    BY <2>1 DEF PointMaps
  <2>3. \A x \in xs : PointOf(row, x) = m.points[x]
    BY <1>2, <2>2, NoneApart DEF PointOf
  <2> QED
    BY <1>2, <1>4, <2>2, <2>3
<1>6. /\ h.state = m.state /\ h.binding = m.binding /\ h.storage = m.storage
      /\ h.config = m.config /\ h.absolute = m.absolute /\ h.tasks = m.tasks
      /\ h.queue = m.queue /\ h.layer = LayerRow(m) /\ h.allowlist = m.allowlist
      /\ h.artifact = IF m.artifact = None THEN None ELSE "DESKTOP_NATIVE"
  BY <1>2, <1>3, <1>4, NoneApart
     DEF OrElse, StorageOf, ConfigOf, QueueOf, AllowlistOf, StorageRow, ArtifactOf, ArtifactRow
<1>7. CASE m.state = "DELETED"
  <2>1. m = Tombstone
    BY <1>7, DeletedIs
  <2>2. m.layer = None /\ m.artifact = None
    BY <2>1, TombstoneIs
  <2>3. h.layer = None /\ h.artifact = None
    BY <1>6, <2>2, NoneApart DEF LayerRow
  <2>4. h \in Fields
    <3>1. h = [state |-> h.state, binding |-> h.binding, storage |-> h.storage,
               config |-> h.config, absolute |-> h.absolute, points |-> h.points,
               tasks |-> h.tasks, queue |-> h.queue, layer |-> h.layer,
               artifact |-> h.artifact, allowlist |-> h.allowlist]
      BY DEF Hydrated
    <3> HIDE DEF h
    <3> QED
      BY <1>1, <1>5, <1>6, <2>3, <3>1 DEF Fields
  <2> HIDE DEF h
  <2>5. h = m
    BY <1>1, <1>5, <1>6, <2>2, <2>3, <2>4, FieldsAreViews, SameFields
  <2> QED
    BY <2>5 DEF h, row
<1>8. CASE m.state # "DELETED"
  <2>1. m.layer \in Layers /\ m.state = "ACTIVE"
    BY <1>8, ActiveLayer
  <2>2. h.layer = RowLayer(m.layer) /\ h.layer \in Layers
    BY <1>6, <2>1, LayerRowIs, LayerTypes
  <2>3. StartLayer(h.layer) = StartLayer(m.layer) /\ h.layer # None
    BY <2>1, <2>2, LayerTypes
  <2>4. h \in Fields
    <3>1. h = [state |-> h.state, binding |-> h.binding, storage |-> h.storage,
               config |-> h.config, absolute |-> h.absolute, points |-> h.points,
               tasks |-> h.tasks, queue |-> h.queue, layer |-> h.layer,
               artifact |-> h.artifact, allowlist |-> h.allowlist]
      BY DEF Hydrated
    <3> HIDE DEF h
    <3> QED
      BY <1>1, <1>5, <1>6, <2>2, <3>1 DEF Fields
  <2> HIDE DEF h
  <2>5. h \in Payloads
    BY <1>6, <2>1, <2>3, <2>4 DEF Payloads
  <2>6. h.artifact = None <=> m.artifact = None
    BY <1>6, NoneApart
  <2>7. Kept(h) = Kept(m) /\ (Unsettled(h) <=> Unsettled(m))
    BY <1>5, <1>6, <2>1, <2>3, <2>5, <2>6, SameKept
  <2> QED
    BY <1>5, <1>6, <2>5, <2>7 DEF h, row
<1> QED
  BY <1>7, <1>8

LEMMA OldRowRead ==
    ASSUME NEW m \in Payloads, m.state = "ACTIVE"
    PROVE  Hydrated(OldRow(m)) \in Payloads /\ Hydrated(OldRow(m)).points = m.points
<1> DEFINE row == OldRow(m)
           h == Hydrated(row)
<1>1. m \in Fields /\ m.layer \in Layers
  BY ActiveLayer
<1>2. /\ row.state = m.state /\ row.storage = None
      /\ row.config = None /\ row.absolute = m.absolute
      /\ row.points = [x \in DOMAIN m.points |-> None]
      /\ row.tasks = m.tasks /\ row.queue = None /\ row.layer = LayerRow(m)
      /\ row.artifact = ArtifactRow(m) /\ row.allowlist = m.allowlist
  BY DEF OldRow, Row, InstanceRows, PointRows, TaskRows, QueueRow, AllowlistRow
<1>3. /\ row.shell.binding = m.binding /\ row.shell.storage = m.storage
      /\ row.shell.config = m.config /\ row.shell.queue = m.queue
      /\ row.shell.allowlist = None /\ row.shell.points = m.points
  BY ZenonT(40) DEF OldRow, Row, Shell, QueueRow, PointRows
<1> HIDE DEF row
<1>4. /\ h.state = row.state /\ h.binding = row.shell.binding
      /\ h.storage = StorageOf(row) /\ h.config = ConfigOf(row)
      /\ h.absolute = row.absolute
      /\ h.points = [x \in DOMAIN row.points |-> PointOf(row, x)]
      /\ h.tasks = row.tasks /\ h.queue = QueueOf(row) /\ h.layer = row.layer
      /\ h.artifact = ArtifactOf(row) /\ h.allowlist = AllowlistOf(row)
      /\ h = [state |-> h.state, binding |-> h.binding, storage |-> h.storage,
              config |-> h.config, absolute |-> h.absolute, points |-> h.points,
              tasks |-> h.tasks, queue |-> h.queue, layer |-> h.layer,
              artifact |-> h.artifact, allowlist |-> h.allowlist]
  BY DEF Hydrated, TasksOf, LayerOf
<1> HIDE DEF h
<1>5. h.points = m.points
  <2>1. m.points \in PointMaps /\ m.points # None
    BY <1>1, NoneApart DEF Fields
  <2>2. PICK xs \in SUBSET Points : m.points \in [xs -> States]
    BY <2>1 DEF PointMaps
  <2>3. \A x \in xs : PointOf(row, x) = m.points[x]
    BY <1>2, <1>3, <2>1, <2>2, NoneApart DEF PointOf
  <2> QED
    BY <1>2, <1>4, <2>2, <2>3
<1>6. /\ h.state = m.state /\ h.binding = m.binding /\ h.storage = m.storage
      /\ h.config = m.config /\ h.absolute = m.absolute /\ h.tasks = m.tasks
      /\ h.queue = m.queue /\ h.layer = LayerRow(m)
      /\ h.allowlist = m.allowlist
      /\ h.artifact = IF m.artifact = None THEN None ELSE "DESKTOP_NATIVE"
  BY <1>2, <1>3, <1>4, NoneApart
     DEF OrElse, StorageOf, ConfigOf, QueueOf, AllowlistOf, ArtifactOf, ArtifactRow
<1>7. h.layer \in Layers /\ h.layer # None
  BY <1>1, <1>6, LayerRowIs, LayerTypes
<1>8. h \in Fields
  BY <1>1, <1>4, <1>5, <1>6, <1>7 DEF Fields
<1> QED
  BY <1>5, <1>6, <1>7, <1>8 DEF Payloads, h, row

-----------------------------------------------------------------------------
(* Snapshots. *)

LEMMA AlikeSame == \A s : Alike(s, s)
BY DEF Alike

LEMMA AlikeTurns == \A s, n : Alike(s, n) => Alike(n, s)
BY DEF Alike

LEMMA AlikeChains == \A r, s, n : Alike(r, s) /\ Alike(s, n) => Alike(r, n)
BY DEF Alike

LEMMA SnapshotIs ==
    ASSUME NEW s, IsSnapshot(s)
    PROVE  /\ s.settings \in {None, "set"} /\ DOMAIN s.projects \in SUBSET Projects
           /\ \A p \in DOMAIN s.projects : s.projects[p] \in Payloads
           /\ s.projects \in [DOMAIN s.projects -> Payloads]
           /\ DOMAIN s = {"settings", "projects"}
BY DEF IsSnapshot, SnapshotsOf

LEMMA SnapshotMade ==
    ASSUME NEW x \in {None, "set"}, NEW ps \in SUBSET Projects, NEW f \in [ps -> Payloads]
    PROVE  IsSnapshot([settings |-> x, projects |-> f])
BY DEF IsSnapshot, SnapshotsOf

LEMMA NoSnapshotOk ==
    IsSnapshot(NoSnapshot) /\ NoSnapshot.settings = None /\ DOMAIN NoSnapshot.projects = {}
<1>1. Empty \in [{} -> Payloads]
  BY DEF Empty
<1> QED
  BY <1>1 DEF IsSnapshot, SnapshotsOf, NoSnapshot, Empty

\* Reading rows, whoever wrote them.
LEMMA HydrateOk ==
    ASSUME NEW d, DbOk(d)
    PROVE  /\ IsSnapshot(Hydrate(d.settings, d.rows))
           /\ Hydrate(d.settings, d.rows).settings = d.settings
           /\ DOMAIN Hydrate(d.settings, d.rows).projects = DOMAIN d.rows
           /\ \A p \in DOMAIN d.rows :
                 Hydrate(d.settings, d.rows).projects[p] = Hydrated(d.rows[p])
<1> DEFINE f == [p \in DOMAIN d.rows |-> Hydrated(d.rows[p])]
<1>1. f \in [DOMAIN d.rows -> Payloads] /\ DOMAIN d.rows \in SUBSET Projects
      /\ d.settings \in {None, "set"}
  BY DEF DbOk
<1>2. IsSnapshot([settings |-> d.settings, projects |-> f])
  <2> HIDE DEF f
  <2> QED
    BY <1>1, SnapshotMade
<1> QED
  BY <1>2 DEF Hydrate

\* save_snapshot, read back.
LEMMA SavedOk ==
    ASSUME NEW s, IsSnapshot(s), NEW f, backend # "json"
    PROVE  /\ DbOk(Saved(s)) /\ Sharded(Saved(s))
           /\ IsSnapshot(Source(Saved(s), f)) /\ Alike(Source(Saved(s), f), s)
<1> DEFINE d == Saved(s)
           n == Hydrate(d.settings, d.rows)
<1>1. /\ s.settings \in {None, "set"} /\ DOMAIN s.projects \in SUBSET Projects
      /\ \A p \in DOMAIN s.projects : s.projects[p] \in Payloads
  BY SnapshotIs
<1>2. /\ DOMAIN d = {"system", "settings", "slot", "rows"} /\ d.system = TRUE
      /\ d.settings = s.settings /\ d.slot = None
      /\ d.rows = [p \in DOMAIN s.projects |-> Row(s.projects[p])]
  BY DEF Saved
<1> HIDE DEF d
<1>3. DbOk(d)
  BY <1>1, <1>2, RowRead DEF DbOk
<1>4. Sharded(d)
  BY <1>2 DEF Sharded
<1>5. Source(d, f) = n
  BY <1>4 DEF Source
<1>6. /\ IsSnapshot(n) /\ n.settings = s.settings /\ DOMAIN n.projects = DOMAIN s.projects
      /\ \A p \in DOMAIN s.projects : n.projects[p] = Hydrated(Row(s.projects[p]))
  BY <1>2, <1>3, HydrateOk
<1> HIDE DEF n
<1>7. Alike(n, s)
  BY <1>1, <1>6, RowRead DEF Alike
<1> QED
  BY <1>3, <1>4, <1>5, <1>6, <1>7 DEF d

\* What a load would return is a snapshot.
LEMMA SourceOk ==
    ASSUME NEW d, DbOk(d), NEW f, f = None \/ IsSnapshot(f)
    PROVE  IsSnapshot(Source(d, f))
BY HydrateOk, NoSnapshotOk DEF Source, OrElse, DbOk

-----------------------------------------------------------------------------
(* What a start leaves as it is, and what a session makes of it. *)

LEMMA StartedLayer ==
    ASSUME NEW y \in Layers
    PROVE  StartLayer(y) = y <=> y.k # 0 /\ y.quota \in {0, 1}
<1>1. StartLayer(y) \in Layers
  BY LayerTypes
<1>2. /\ StartLayer(y).k = IF y.k = 0 THEN DefaultK ELSE y.k
      /\ StartLayer(y).cycle = y.cycle /\ StartLayer(y).pending = y.pending
      /\ StartLayer(y).quota = IF y.quota # 0 THEN 1 ELSE 0
  BY DEF StartLayer
<1>3. y.k # 0 /\ y.quota \in {0, 1} => StartLayer(y) = y
  BY <1>1, <1>2, SameLayer
<1>4. StartLayer(y) = y => y.k # 0 /\ y.quota \in {0, 1}
  BY <1>2 DEF DefaultK
<1> QED
  BY <1>3, <1>4

Steady(m) ==
    /\ m.binding = "server" /\ m.storage \in {"startup", "disabled"}
    /\ m.storage = "disabled" => ~m.absolute
    /\ m.config # None /\ StartLayer(m.layer) = m.layer

LEMMA SettledIs ==
    ASSUME NEW m \in Payloads, m.state # "DELETED"
    PROVE  Settled(m) <=> Steady(m)
<1> DEFINE n == Migrated(Decoded(m))
<1>1. Starts(m, n) /\ m \in Fields /\ m.layer \in Layers
  BY MigratedIs, ActiveLayer
<1>2. Settled(m) <=> n = m /\ ~Unsettled(m)
  BY DEF Settled
<1> HIDE DEF n
<1>3. ASSUME n = m, ~Unsettled(m) PROVE Steady(m)
  <2>1. m.binding = "server" /\ m.config # None /\ StartLayer(m.layer) = m.layer
    BY <1>1, <1>3, UnsettledIs DEF Starts
  <2>2. m.storage = StartStorage(m.storage, m.absolute)
    BY <1>1, <1>3 DEF Starts
  <2> QED
    BY <2>1, <2>2 DEF Steady, StartStorage
<1>4. ASSUME Steady(m) PROVE n = m /\ ~Unsettled(m)
  <2>1. StartStorage(m.storage, m.absolute) = m.storage /\ m.storage # "scan"
    BY <1>4 DEF Steady, StartStorage
  <2>2. n = m
    BY <1>1, <1>4, <2>1, FieldsAreViews, SameFields DEF Starts, Steady
  <2>3. ~Unsettled(m)
    BY <1>4, <2>1, NoneApart, UnsettledIs DEF Steady
  <2> QED
    BY <2>2, <2>3
<1> QED
  BY <1>2, <1>3, <1>4

\* After a start a project is settled, and a second start finds the same.
LEMMA MigratedSettles ==
    ASSUME NEW m \in Payloads
    PROVE  /\ Migrated(Decoded(m)) \in Payloads /\ Settled(Migrated(Decoded(m)))
           /\ Kept(m) = Stored(Migrated(Decoded(m)))
<1> DEFINE n == Migrated(Decoded(m))
<1>1. CASE m.state = "DELETED"
  BY <1>1, DeletedIs, TombstoneKept, TombstoneOk DEF Kept
<1>2. CASE m.state # "DELETED"
  <2>1. Starts(m, n) /\ m \in Fields /\ m.layer \in Layers /\ m.state = "ACTIVE"
    BY <1>2, MigratedIs, ActiveLayer
  <2> HIDE DEF n
  <2>2. StartLayer(m.layer) \in Layers /\ StartLayer(m.layer) # None
        /\ StartLayer(StartLayer(m.layer)) = StartLayer(m.layer)
    BY <2>1, LayerTypes
  <2>3. n \in Payloads /\ n.state = "ACTIVE"
    BY <2>1, <2>2 DEF Starts, Payloads
  <2>4. StartLayer(m.layer).k # None
    BY <2>2, NoneApart DEF Layers
  <2>5. n.config # None
    BY <2>1, <2>4 DEF Starts
  <2>6. Steady(n)
    BY <2>1, <2>2, <2>5 DEF Steady, Starts, StartStorage
  <2>7. Settled(n)
    BY <2>3, <2>6, SettledIs
  <2> QED
    BY <2>3, <2>7 DEF Kept, n
<1> QED
  BY <1>1, <1>2

LEMMA SettledKept == \A m : Settled(m) => Kept(m) = Stored(m) /\ ~Unsettled(m)
BY DEF Settled, Kept

LEMMA BootstrapSettled == Settled(Bootstrap) /\ Bootstrap.state = "ACTIVE"
<1>1. StartLayer(QuietLayer) = QuietLayer
  BY QuietLayerOk, StartedLayer DEF QuietLayer, DefaultK
<1>2. Steady(Bootstrap)
  BY <1>1, BootstrapIs, NoneApart DEF Steady, DefaultK
<1> QED
  BY <1>2, BootstrapIs, BootstrapOk, SettledIs

\* What a session may have made of a project.
EditOk(m, e) ==
    /\ e \in Payloads /\ e.state = "ACTIVE" /\ Settled(e)
    /\ \A x \in DOMAIN m.points :
          /\ x \in DOMAIN e.points
          /\ m.points[x] = "DELETED" => e.points[x] = "DELETED"

\* It keeps what makes the project settled.
EditKeeps(m, e) ==
    /\ e \in Fields /\ e.state = m.state /\ e.binding = m.binding /\ e.storage = m.storage
    /\ e.absolute = m.absolute /\ e.config # None
    /\ e.layer \in Layers /\ e.layer.k # 0 /\ e.layer.quota \in {0, 1}

LEMMA EditKeepsSettled ==
    ASSUME NEW m \in Payloads, m.state = "ACTIVE", Settled(m), NEW e, EditKeeps(m, e)
    PROVE  e \in Payloads /\ e.state = "ACTIVE" /\ Settled(e)
<1>1. Steady(m)
  BY SettledIs
<1>2. e.layer # None /\ e.state = "ACTIVE"
  BY NoneApart DEF EditKeeps
<1>3. e \in Payloads
  BY <1>2 DEF EditKeeps, Payloads
<1>4. StartLayer(e.layer) = e.layer
  BY StartedLayer DEF EditKeeps
<1>5. Steady(e)
  BY <1>1, <1>4 DEF EditKeeps, Steady
<1> QED
  BY <1>2, <1>3, <1>5, SettledIs

LEMMA EditedOk ==
    ASSUME NEW m \in Payloads, m.state = "ACTIVE", Settled(m), NEW e \in Edited(m)
    PROVE  EditOk(m, e)
<1>1. m \in Fields /\ m.layer \in Layers
  BY ActiveLayer
<1>2. m.layer.k # 0 /\ m.layer.quota \in {0, 1} /\ m.config # None
  BY <1>1, SettledIs, StartedLayer DEF Steady
<1>3. PICK xs \in SUBSET Points : m.points \in [xs -> States]
  BY <1>1 DEF Fields, PointMaps
<1>4. ASSUME NEW x \in Points \ DOMAIN m.points,
             e = [m EXCEPT !.points = With(@, x, "ACTIVE"), !.tasks = @ \cup {x}, !.queue = "busy"]
      PROVE  EditOk(m, e)
  <2> DEFINE ys == With(m.points, x, "ACTIVE")
             ts == m.tasks \cup {x}
  <2>1. ys \in [xs \cup {x} -> States] /\ \A y \in xs : ys[y] = m.points[y]
    BY <1>3, <1>4 DEF With
  <2>2. xs \cup {x} \in SUBSET Points
    BY <1>4
  <2>3. ys \in PointMaps
    BY <2>1, <2>2 DEF PointMaps
  <2>4. ts \in SUBSET Points
    BY <1>1 DEF Fields
  <2>5. e = [m EXCEPT !.points = ys, !.tasks = ts, !.queue = "busy"]
    BY <1>4
  <2> HIDE DEF ys, ts
  <2>6. EditKeeps(m, e) /\ e.points = ys
    BY <1>1, <1>2, <2>3, <2>4, <2>5 DEF EditKeeps, Fields
  <2> QED
    BY <1>3, <2>1, <2>6, EditKeepsSettled DEF EditOk
<1>5. ASSUME NEW x \in DOMAIN m.points, e = [m EXCEPT !.points[x] = "DELETED"]
      PROVE  EditOk(m, e)
  <2> DEFINE ys == [m.points EXCEPT ![x] = "DELETED"]
  <2>1. ys \in [xs -> States] /\ \A y \in xs : m.points[y] = "DELETED" => ys[y] = "DELETED"
    BY <1>3, <1>5
  <2>2. ys \in PointMaps
    BY <2>1 DEF PointMaps
  <2>3. e = [m EXCEPT !.points = ys]
    BY <1>5
  <2> HIDE DEF ys
  <2>4. EditKeeps(m, e) /\ e.points = ys
    BY <1>1, <1>2, <2>2, <2>3 DEF EditKeeps, Fields
  <2> QED
    BY <1>3, <2>1, <2>4, EditKeepsSettled DEF EditOk
<1>6. ASSUME NEW k \in {1, 2}, e = [m EXCEPT !.config = k, !.layer.k = k]
      PROVE  EditOk(m, e)
  <2> DEFINE y == [m.layer EXCEPT !.k = k]
  <2>1. y \in Layers /\ y.k = k /\ y.quota = m.layer.quota
    BY <1>1 DEF Layers
  <2>2. e = [m EXCEPT !.config = k, !.layer = y]
    BY <1>6
  <2>3. k \in Nat /\ k # None /\ k # 0
    BY NoneApart
  <2> HIDE DEF y
  <2>4. e \in Fields /\ e.config = k /\ e.layer = y /\ e.state = m.state /\ e.binding = m.binding
        /\ e.storage = m.storage /\ e.absolute = m.absolute /\ e.points = m.points
    BY <1>1, <2>1, <2>2, <2>3 DEF Fields
  <2>5. EditKeeps(m, e)
    BY <1>2, <2>1, <2>3, <2>4 DEF EditKeeps
  <2> QED
    BY <2>4, <2>5, EditKeepsSettled DEF EditOk
<1>7. ASSUME e = [m EXCEPT !.layer = [@ EXCEPT !.cycle = "CLEARING", !.pending = TRUE, !.quota = 0],
                           !.queue = "idle"]
      PROVE  EditOk(m, e)
  <2> DEFINE y == [m.layer EXCEPT !.cycle = "CLEARING", !.pending = TRUE, !.quota = 0]
  <2>1. y \in Layers /\ y.k = m.layer.k /\ y.quota = 0
    BY <1>1 DEF Layers
  <2>2. e = [m EXCEPT !.layer = y, !.queue = "idle"]
    BY <1>7
  <2> HIDE DEF y
  <2>3. EditKeeps(m, e) /\ e.points = m.points
    BY <1>1, <1>2, <2>1, <2>2 DEF EditKeeps, Fields
  <2> QED
    BY <2>3, EditKeepsSettled DEF EditOk
<1> QED
  BY <1>4, <1>5, <1>6, <1>7 DEF Edited

-----------------------------------------------------------------------------
(* What carries over between two snapshots in which a start finds the same. *)

LEMMA AlikeCarries ==
    ASSUME NEW s, IsSnapshot(s), NEW n, IsSnapshot(n), Alike(s, n)
    PROVE  /\ Clean(s) => Clean(n)
           /\ \A k : Survives(k, s) => Survives(k, n)
           /\ \A m : InMemory(m, s) => InMemory(m, n)
           /\ NoLoss(s, n)
<1>1. \A p \in DOMAIN s.projects :
         /\ s.projects[p].points = n.projects[p].points
         /\ s.projects[p].state = n.projects[p].state
  BY SnapshotIs, KeptPoints DEF Alike
<1>2. Clean(s) => Clean(n)
  BY DEF Alike, Clean
<1>3. \A k : Survives(k, s) => Survives(k, n)
  BY <1>1 DEF Alike, Survives
<1>4. \A m : InMemory(m, s) => InMemory(m, n)
  BY DEF Alike, InMemory
<1>5. NoLoss(s, n)
  BY <1>1 DEF Alike, NoLoss
<1> QED
  BY <1>2, <1>3, <1>4, <1>5

\* A start finds settled projects as they are in memory.
LEMMA LoadedMemory ==
    ASSUME NEW s, IsSnapshot(s)
    PROVE  /\ MemOk(Memory(s)) /\ Memory(s).settings = s.settings
           /\ InMemory(Memory(s), s)
           /\ DOMAIN Memory(s).projects = DOMAIN s.projects
<1> DEFINE f == [p \in DOMAIN s.projects |-> Migrated(Decode(s)[p])]
<1>1. /\ s.settings \in {None, "set"} /\ DOMAIN s.projects \in SUBSET Projects
      /\ \A p \in DOMAIN s.projects : s.projects[p] \in Payloads
  BY SnapshotIs
<1>2. \A p \in DOMAIN s.projects : f[p] = Migrated(Decoded(s.projects[p]))
  BY DEF Decode
<1>3. Memory(s) = [settings |-> s.settings, projects |-> f]
  BY DEF Memory
<1>4. DOMAIN f = DOMAIN s.projects
  OBVIOUS
<1> HIDE DEF f
<1>5. \A p \in DOMAIN s.projects :
         f[p] \in Payloads /\ Settled(f[p]) /\ Kept(s.projects[p]) = Stored(f[p])
  BY <1>1, <1>2, MigratedSettles
<1>6. f \in [DOMAIN s.projects -> Payloads]
  BY <1>2, <1>4, <1>5 DEF f
<1>7. IsSnapshot(Memory(s))
  BY <1>1, <1>3, <1>6, SnapshotMade
<1> QED
  BY <1>3, <1>4, <1>5, <1>7 DEF MemOk, InMemory

\* Settled projects that are stored are found as they were.
LEMMA StoredMemory ==
    ASSUME NEW m, MemOk(m), NEW s, IsSnapshot(s), Alike(s, m)
    PROVE  InMemory(m, s) /\ Clean(s) /\ s.settings = m.settings
BY SettledKept DEF MemOk, Alike, InMemory, Clean

-----------------------------------------------------------------------------
(* One thread at a time. *)

Alone(t) == \A s \in Threads \ {t} : thread[s].pc = "idle"

LEMMA IdleStageAt == \A r, b, d, m, u, s : r.pc = "idle" => StageAt(r, b, d, m, u, s)
BY DEF StageAt, Stages, Loading, Carrying, Reading

LEMMA Busy ==
    ASSUME IInv, NEW t \in Threads, thread[t].pc # "idle"
    PROVE  Alone(t) /\ Stage(thread[t]) /\ ~Quiet
BY DEF IInv, OneBusy, Alone, Quiet

\* A request is served by a thread that is alone.
LEMMA ServedAlone ==
    ASSUME IInv, NEW t \in Threads, Serving(t), Locked => backend # "json"
    PROVE  Alone(t) /\ Quiet /\ InMemory(mem, Src) /\ mem.settings = Src.settings
<1>1. up /\ thread[t].pc = "idle"
  BY DEF Serving, At
<1>2. ASSUME NEW s \in Threads, s # t PROVE thread[s].pc = "idle"
  <2>1. backend = "json"
    BY <1>2 DEF IInv, Orderly
  <2>2. thread[s].pc # "settings"
    BY <2>1 DEF Locked
  <2>3. Stage(thread[s])
    BY DEF IInv, OneBusy
  <2> QED
    BY <1>1, <2>1, <2>2, <2>3 DEF Stage, StageAt, Stages, Loading
<1>3. Alone(t) /\ Quiet
  BY <1>1, <1>2 DEF Alone, Quiet
<1> QED
  BY <1>1, <1>3 DEF IInv, Served

LEMMA ThreadStep ==
    ASSUME OneBusy, NEW t \in Threads, Alone(t), NEW x, Goto(t, x), StageAt(x, backend', db', mem', up', Src')
    PROVE  OneBusy' /\ (Quiet' => x.pc = "idle")
<1>1. /\ DOMAIN thread' = Threads /\ thread'[t] = x
      /\ \A s \in Threads \ {t} : thread'[s].pc = "idle"
  BY DEF OneBusy, Goto, Alone
<1>2. \A s \in Threads : Stage(thread[s])'
  BY <1>1, IdleStageAt DEF Stage
<1>3. OneBusy'
  BY <1>1, <1>2 DEF OneBusy
<1> QED
  BY <1>1, <1>3 DEF Quiet

\* A step that leaves the stores alone.
Still == UNCHANGED <<backend, file, db, mem, up, acked>>

LEMMA StillKeeps ==
    ASSUME IInv, Still
    PROVE  Orderly' /\ Stores' /\ Src' = Src /\ NoLoss(Src, Src')
<1>1. Src' = Src
  BY DEF Still, Src, Source
<1>2. Held(backend, db, Src)' <=> Held(backend, db, Src)
  BY <1>1 DEF Still, Held
<1>3. NoLoss(Src, Src)
  BY DEF NoLoss
<1>4. Orderly'
  BY DEF IInv, Still, Orderly
<1>5. Stores'
  BY <1>1, <1>2 DEF IInv, Still, Stores
<1> QED
  BY <1>1, <1>3, <1>4, <1>5

\* A step of a busy thread that stays busy and leaves the stores alone.
LEMMA StillStep ==
    ASSUME IInv, Still, NEW t \in Threads, Alone(t), NEW x, Goto(t, x), x.pc # "idle", StageAt(x, backend', db', mem', up', Src')
    PROVE  IInv' /\ NoLoss(Src, Src')
<1>1. OneBusy' /\ ~Quiet'
  BY ThreadStep DEF IInv
<1> QED
  BY <1>1, StillKeeps DEF IInv, Served

-----------------------------------------------------------------------------
(* Starting and loading. *)

LEMMA StartStep ==
    ASSUME IInv, NEW t \in Threads, Start(t) PROVE IInv' /\ NoLoss(Src, Src')
<1> DEFINE x == [pc |-> "load", boot |-> TRUE]
<1>1. Still /\ Goto(t, x) /\ ~up /\ Alone(t)
  BY DEF Start, Still, Quiet, Alone
<1>2. x.pc = "load" /\ x.boot = TRUE
  OBVIOUS
<1> HIDE DEF x
<1>3. up' = FALSE
  BY <1>1 DEF Still, IInv, Stores
<1>4. StageAt(x, backend', db', mem', up', Src')
  BY <1>2, <1>3 DEF StageAt, Stages, Loading, Carrying, Reading
<1> QED
  BY <1>1, <1>2, <1>4, StillStep

LEMMA SourceNow == IInv => IsSnapshot(Src)
BY SourceOk DEF IInv, Stores, Src

LEMMA JsonLoadStep ==
    ASSUME IInv, NEW t \in Threads, JsonLoad(t) PROVE IInv' /\ NoLoss(Src, Src')
<1> DEFINE x == [pc |-> "fill", boot |-> thread[t].boot, snapshot |-> Src]
<1>1. Still /\ Goto(t, x) /\ backend = "json" /\ thread[t].pc = "load"
  BY DEF JsonLoad, Still, Load, At, Src
<1>2. Alone(t) /\ Stage(thread[t])
  BY <1>1, Busy
<1>3. x.pc = "fill" /\ x.boot = thread[t].boot /\ x.snapshot = Src
  OBVIOUS
<1>4. IsSnapshot(Src) /\ Alike(Src, Src) /\ Src' = Src
  BY <1>1, SourceNow, AlikeSame, StillKeeps
<1> HIDE DEF x
<1>5. StageAt(x, backend', db', mem', up', Src')
  BY <1>1, <1>2, <1>3, <1>4 DEF Stage, StageAt, Still, Stages, Loading, Carrying, Reading, Held
<1> QED
  BY <1>1, <1>2, <1>3, <1>5, StillStep

LEMMA ArchiveStep ==
    ASSUME IInv, NEW t \in Threads, Archive(t) PROVE IInv' /\ NoLoss(Src, Src')
<1> DEFINE x == [pc |-> "fill", boot |-> thread[t].boot, snapshot |-> thread[t].snapshot]
<1>1. /\ UNCHANGED <<backend, db, mem, up, acked>> /\ Goto(t, x)
      /\ file' \in {None, file} /\ thread[t].pc = "archive"
  BY DEF Archive, Load, At
<1>2. Alone(t) /\ Stage(thread[t])
  BY <1>1, Busy
<1>3. x.pc = "fill" /\ x.boot = thread[t].boot /\ x.snapshot = thread[t].snapshot
  OBVIOUS
<1>4. backend # "json" /\ (Sharded(db) \/ Src = NoSnapshot)
  BY <1>1, <1>2 DEF Stage, StageAt, Held
<1>5. Src' = Source(db, file')
  BY <1>1 DEF Src, Source
<1>6. Src' = Src
  BY <1>1, <1>4, <1>5 DEF Src, Source, OrElse
<1> HIDE DEF x
<1>7. StageAt(x, backend', db', mem', up', Src')
  BY <1>1, <1>2, <1>3, <1>6 DEF Stage, StageAt, Stages, Loading, Carrying, Reading, Held
<1>8. OneBusy' /\ ~Quiet'
  BY <1>1, <1>2, <1>3, <1>7, ThreadStep DEF IInv
<1>9. Stores'
  BY <1>1, <1>6 DEF IInv, Stores, Held
<1>10. Orderly' /\ NoLoss(Src, Src')
  BY <1>1, <1>6 DEF IInv, Orderly, NoLoss
<1> QED
  BY <1>8, <1>9, <1>10 DEF IInv, Served

\* An import or a compaction: what was read is written, and read the same.
LEMMA SavesAlike ==
    ASSUME IInv, backend # "json", NEW s, IsSnapshot(s), Alike(s, Src),
           db' = Saved(s), UNCHANGED <<backend, file, mem, up, acked>>
    PROVE  /\ Orderly' /\ Stores' /\ NoLoss(Src, Src') /\ Sharded(db')
           /\ IsSnapshot(Src') /\ Alike(s, Src')
<1> DEFINE d == Saved(s)
<1>1. Src' = Source(d, file)
  BY DEF Src, Source
<1>2. DbOk(d) /\ Sharded(d) /\ IsSnapshot(Src') /\ Alike(Src', s)
  BY <1>1, SavedOk
<1> HIDE DEF d
<1>3. Alike(s, Src') /\ Alike(Src, Src') /\ IsSnapshot(Src)
  BY <1>2, AlikeTurns, AlikeChains, SourceNow
<1>4. /\ Clean(Src) => Clean(Src')
      /\ Survives(acked, Src) => Survives(acked, Src')
      /\ NoLoss(Src, Src')
  BY <1>2, <1>3, AlikeCarries
<1>5. Stores'
  BY <1>2, <1>4 DEF IInv, Stores, Held, d
<1> QED
  BY <1>2, <1>3, <1>4, <1>5 DEF IInv, Orderly, d

LEMMA SqliteLoadStep ==
    ASSUME IInv, NEW t \in Threads, SqliteLoad(t) PROVE IInv' /\ NoLoss(Src, Src')
<1> DEFINE pc == IF Sharded(db) \/ db.slot = None THEN "archive" ELSE "fill"
           x == [pc |-> pc, boot |-> thread[t].boot, snapshot |-> Src]
<1>1. /\ backend = "sqlite" /\ thread[t].pc = "load" /\ Goto(t, x)
      /\ UNCHANGED <<backend, file, mem, up, acked>>
      /\ \/ db' = Saved(Src)
         \/ UNCHANGED db /\ (Sharded(db) \/ Src = NoSnapshot)
  BY DEF SqliteLoad, At, Load, Src
<1>2. Alone(t) /\ Stage(thread[t])
  BY <1>1, Busy
<1>3. x.pc \in {"archive", "fill"} /\ x.boot = thread[t].boot /\ x.snapshot = Src
  OBVIOUS
<1>4. IsSnapshot(Src) /\ Alike(Src, Src)
  BY SourceNow, AlikeSame
<1> HIDE DEF x
<1>5. /\ Orderly' /\ Stores' /\ NoLoss(Src, Src') /\ Held(backend', db', Src')
      /\ Alike(Src, Src')
  <2>1. CASE db' = Saved(Src)
    BY <1>1, <1>4, <2>1, SavesAlike DEF Held
  <2>2. CASE UNCHANGED db /\ (Sharded(db) \/ Src = NoSnapshot)
    BY <1>1, <1>4, <2>2, StillKeeps DEF Still, Held
  <2> QED
    BY <1>1, <2>1, <2>2
<1>6. StageAt(x, backend', db', mem', up', Src')
  BY <1>1, <1>2, <1>3, <1>4, <1>5 DEF Stage, StageAt, Stages, Loading, Carrying, Reading
<1>7. OneBusy' /\ ~Quiet'
  BY <1>1, <1>2, <1>3, <1>6, ThreadStep DEF IInv
<1> QED
  BY <1>5, <1>7 DEF IInv, Served

LEMMA PgSaveStep ==
    ASSUME IInv, NEW t \in Threads, PgSave(t) PROVE IInv' /\ NoLoss(Src, Src')
<1> DEFINE s == thread[t].snapshot
           pc == IF thread[t].pc = "resave" THEN "archive" ELSE "fill"
           x == [pc |-> pc, boot |-> thread[t].boot, snapshot |-> s]
<1>1. /\ thread[t].pc \in {"resave", "import"} /\ Goto(t, x) /\ db' = Saved(s)
      /\ UNCHANGED <<backend, file, mem, up, acked>>
  BY DEF PgSave, At, Load
<1>2. Alone(t) /\ Stage(thread[t])
  BY <1>1, Busy
<1>3. x.pc \in {"archive", "fill"} /\ x.boot = thread[t].boot /\ x.snapshot = s
  OBVIOUS
<1>4. backend = "postgres" /\ IsSnapshot(s) /\ Alike(s, Src)
  BY <1>1, <1>2 DEF Stage, StageAt, Carrying
<1> HIDE DEF x, s
<1>5. /\ Orderly' /\ Stores' /\ NoLoss(Src, Src') /\ Sharded(db') /\ Alike(s, Src')
  BY <1>1, <1>4, SavesAlike
<1>6. StageAt(x, backend', db', mem', up', Src')
  BY <1>1, <1>2, <1>3, <1>4, <1>5 DEF Stage, StageAt, Stages, Loading, Carrying, Reading, Held
<1>7. OneBusy' /\ ~Quiet'
  BY <1>1, <1>2, <1>3, <1>6, ThreadStep DEF IInv
<1> QED
  BY <1>5, <1>7 DEF IInv, Served

-----------------------------------------------------------------------------
(* A load of the PostgreSQL store reads the same rows as if it had read    *)
(* them at once.                                                           *)

Took(r, to, rows) == [r EXCEPT !.pc = to, !.rows = rows]

Columnwise(rows, to) ==
    /\ DOMAIN rows = DOMAIN db.rows
    /\ \A p \in DOMAIN db.rows :
          DOMAIN rows[p] = RowColumns /\ \A f \in Read(to) : rows[p][f] = db.rows[p][f]

LEMMA ReadStep ==
    ASSUME IInv, NEW t \in Threads, Still, thread[t].pc \in Reading, NEW rows, NEW to \in Reading,
           Goto(t, Took(thread[t], to, rows)), Columnwise(rows, to)
    PROVE  IInv' /\ NoLoss(Src, Src')
<1> DEFINE r == thread[t]
           x == Took(r, to, rows)
<1>1. Alone(t) /\ Stage(r) /\ r.pc # "idle"
  BY Busy DEF Reading
<1>2. /\ DOMAIN r = {"pc", "boot", "settings", "sharded", "rows"}
      /\ r.settings = db.settings /\ r.sharded = Sharded(db) /\ backend = "postgres"
      /\ r.boot \in BOOLEAN /\ up = ~r.boot
  BY <1>1 DEF Stage, StageAt, RowsRead, Loading
<1>3. /\ DOMAIN x = {"pc", "boot", "settings", "sharded", "rows"}
      /\ x.pc = to /\ x.rows = rows /\ x.boot = r.boot /\ x.settings = r.settings
      /\ x.sharded = r.sharded
  <2> HIDE DEF r
  <2> QED
    BY <1>2 DEF Took
<1> HIDE DEF x, r
<1>4. RowsRead(x, db)
  BY <1>2, <1>3 DEF RowsRead, Columnwise
<1>5. StageAt(x, backend', db', mem', up', Src')
  BY <1>2, <1>3, <1>4 DEF StageAt, Still, Stages, Loading, Carrying, Reading
<1>6. x.pc # "idle" /\ Goto(t, x)
  BY <1>3 DEF Reading, x, r
<1> QED
  BY <1>1, <1>5, <1>6, StillStep

LEMMA Before ==
    ASSUME IInv, NEW t \in Threads, thread[t].pc \in Reading
    PROVE  /\ "pc" \in DOMAIN thread[t]
           /\ Columnwise(thread[t].rows, thread[t].pc)
<1>1. Stage(thread[t])
  BY DEF IInv, OneBusy
<1> QED
  BY <1>1 DEF Stage, StageAt, RowsRead, Columnwise

LEMMA PgReadProjectsStep ==
    ASSUME IInv, NEW t \in Threads, PgReadProjects(t) PROVE IInv' /\ NoLoss(Src, Src')
<1> DEFINE row(p) == [NoRow EXCEPT !.state = db.rows[p].state, !.shell = db.rows[p].shell]
           rows == [p \in DOMAIN db.rows |-> row(p)]
           x == [pc |-> "configs", boot |-> thread[t].boot, settings |-> db.settings,
                 sharded |-> Sharded(db), rows |-> rows]
<1>1. Still /\ Goto(t, x) /\ backend = "postgres" /\ thread[t].pc = "load"
  BY DEF PgReadProjects, Still, At
<1>2. Alone(t) /\ Stage(thread[t])
  BY <1>1, Busy
<1>3. DOMAIN NoRow = RowColumns
  BY DEF NoRow, Row, RowColumns
<1>4. \A p : /\ DOMAIN row(p) = RowColumns
             /\ row(p).state = db.rows[p].state /\ row(p).shell = db.rows[p].shell
  BY <1>3 DEF RowColumns
<1> HIDE DEF row
<1>5. Columnwise(rows, "configs")
  BY <1>4 DEF Columnwise, Read, Reading
<1>6. /\ DOMAIN x = {"pc", "boot", "settings", "sharded", "rows"}
      /\ x.pc = "configs" /\ x.rows = rows /\ x.boot = thread[t].boot
      /\ x.settings = db.settings /\ x.sharded = Sharded(db)
  OBVIOUS
<1> HIDE DEF x, rows
<1>7. RowsRead(x, db)
  BY <1>5, <1>6 DEF RowsRead, Columnwise
<1>8. StageAt(x, backend', db', mem', up', Src')
  BY <1>1, <1>2, <1>6, <1>7 DEF Stage, StageAt, Still, Stages, Loading, Carrying, Reading
<1> QED
  BY <1>1, <1>2, <1>6, <1>8, StillStep

LEMMA PgReadConfigsStep ==
    ASSUME IInv, NEW t \in Threads, PgReadConfigs(t) PROVE IInv' /\ NoLoss(Src, Src')
<1> DEFINE r == thread[t]
           row(p) == [r.rows[p] EXCEPT !.storage = Current(p).storage, !.config = Current(p).config,
                                       !.absolute = Current(p).absolute]
           rows == [p \in DOMAIN r.rows |-> row(p)]
<1>1. Still /\ r.pc = "configs" /\ Goto(t, Took(r, "points", rows))
  BY DEF PgReadConfigs, PgRead, Still, At, Took
<1>2. Columnwise(r.rows, "configs")
  BY <1>1, Before DEF Reading
<1>3. ASSUME NEW p \in DOMAIN db.rows
      PROVE  DOMAIN row(p) = RowColumns /\ \A f \in Read("points") : row(p)[f] = db.rows[p][f]
  BY <1>2 DEF Columnwise, Read, Reading, RowColumns, Current
<1> HIDE DEF row
<1>4. Columnwise(rows, "points")
  BY <1>2, <1>3 DEF Columnwise
<1> HIDE DEF rows
<1> QED
  BY <1>1, <1>4, ReadStep DEF Reading

LEMMA PgReadPointsStep ==
    ASSUME IInv, NEW t \in Threads, PgReadPoints(t) PROVE IInv' /\ NoLoss(Src, Src')
<1> DEFINE r == thread[t]
           row(p) == [r.rows[p] EXCEPT !.points = Current(p).points]
           rows == [p \in DOMAIN r.rows |-> row(p)]
<1>1. Still /\ r.pc = "points" /\ Goto(t, Took(r, "reviews", rows))
  BY DEF PgReadPoints, PgRead, Still, At, Took
<1>2. Columnwise(r.rows, "points")
  BY <1>1, Before DEF Reading
<1>3. ASSUME NEW p \in DOMAIN db.rows
      PROVE  DOMAIN row(p) = RowColumns /\ \A f \in Read("reviews") : row(p)[f] = db.rows[p][f]
  BY <1>2 DEF Columnwise, Read, Reading, RowColumns, Current
<1> HIDE DEF row
<1>4. Columnwise(rows, "reviews")
  BY <1>2, <1>3 DEF Columnwise
<1> HIDE DEF rows
<1> QED
  BY <1>1, <1>4, ReadStep DEF Reading

LEMMA PgReadReviewsStep ==
    ASSUME IInv, NEW t \in Threads, PgReadReviews(t) PROVE IInv' /\ NoLoss(Src, Src')
<1> DEFINE r == thread[t]
           row(p) == [r.rows[p] EXCEPT !.tasks = Current(p).tasks, !.queue = Current(p).queue]
           rows == [p \in DOMAIN r.rows |-> row(p)]
<1>1. Still /\ r.pc = "reviews" /\ Goto(t, Took(r, "layers", rows))
  BY DEF PgReadReviews, PgRead, Still, At, Took
<1>2. Columnwise(r.rows, "reviews")
  BY <1>1, Before DEF Reading
<1>3. ASSUME NEW p \in DOMAIN db.rows
      PROVE  DOMAIN row(p) = RowColumns /\ \A f \in Read("layers") : row(p)[f] = db.rows[p][f]
  BY <1>2 DEF Columnwise, Read, Reading, RowColumns, Current
<1> HIDE DEF row
<1>4. Columnwise(rows, "layers")
  BY <1>2, <1>3 DEF Columnwise
<1> HIDE DEF rows
<1> QED
  BY <1>1, <1>4, ReadStep DEF Reading

LEMMA PgReadLayersStep ==
    ASSUME IInv, NEW t \in Threads, PgReadLayers(t) PROVE IInv' /\ NoLoss(Src, Src')
<1> DEFINE r == thread[t]
           row(p) == [r.rows[p] EXCEPT !.layer = Current(p).layer]
           rows == [p \in DOMAIN r.rows |-> row(p)]
<1>1. Still /\ r.pc = "layers" /\ Goto(t, Took(r, "logs", rows))
  BY DEF PgReadLayers, PgRead, Still, At, Took
<1>2. Columnwise(r.rows, "layers")
  BY <1>1, Before DEF Reading
<1>3. ASSUME NEW p \in DOMAIN db.rows
      PROVE  DOMAIN row(p) = RowColumns /\ \A f \in Read("logs") : row(p)[f] = db.rows[p][f]
  BY <1>2 DEF Columnwise, Read, Reading, RowColumns, Current
<1> HIDE DEF row
<1>4. Columnwise(rows, "logs")
  BY <1>2, <1>3 DEF Columnwise
<1> HIDE DEF rows
<1> QED
  BY <1>1, <1>4, ReadStep DEF Reading

LEMMA PgReadLogsStep ==
    ASSUME IInv, NEW t \in Threads, PgReadLogs(t) PROVE IInv' /\ NoLoss(Src, Src')
<1> DEFINE r == thread[t]
           row(p) == [r.rows[p] EXCEPT !.artifact = Current(p).artifact, !.allowlist = Current(p).allowlist]
           rows == [p \in DOMAIN r.rows |-> row(p)]
<1>1. Still /\ r.pc = "logs" /\ Goto(t, Took(r, "decide", rows))
  BY DEF PgReadLogs, PgRead, Still, At, Took
<1>2. Columnwise(r.rows, "logs")
  BY <1>1, Before DEF Reading
<1>3. ASSUME NEW p \in DOMAIN db.rows
      PROVE  DOMAIN row(p) = RowColumns /\ \A f \in Read("decide") : row(p)[f] = db.rows[p][f]
  BY <1>2, ZenonT(40) DEF Columnwise, Read, Reading, RowColumns, Current
<1> HIDE DEF row
<1>4. Columnwise(rows, "decide")
  BY <1>2, <1>3 DEF Columnwise
<1> HIDE DEF rows
<1> QED
  BY <1>1, <1>4, ReadStep DEF Reading

LEMMA HydratedSame ==
    ASSUME NEW a, NEW b, \A f \in RowColumns : a[f] = b[f]
    PROVE  Hydrated(a) = Hydrated(b)
<1>1. /\ a.state = b.state /\ a.shell = b.shell /\ a.storage = b.storage /\ a.config = b.config
      /\ a.absolute = b.absolute /\ a.points = b.points /\ a.tasks = b.tasks
      /\ a.queue = b.queue /\ a.layer = b.layer /\ a.artifact = b.artifact
      /\ a.allowlist = b.allowlist
  BY DEF RowColumns
<1> QED
  BY <1>1, Zenon
     DEF Hydrated, StorageOf, ConfigOf, PointOf, TasksOf, QueueOf, LayerOf, ArtifactOf, AllowlistOf

LEMMA PgDecideStep ==
    ASSUME IInv, NEW t \in Threads, PgDecide(t) PROVE IInv' /\ NoLoss(Src, Src')
<1> DEFINE r == thread[t]
           read == Hydrate(r.settings, r.rows)
           x(pc, s) == [pc |-> pc, boot |-> r.boot, snapshot |-> s]
<1>1. Still /\ r.pc = "decide"
  BY DEF PgDecide, Still, At
<1>2. Alone(t) /\ Stage(r)
  BY <1>1, Busy
<1>3. /\ backend = "postgres" /\ RowsRead(r, db) /\ r.boot \in BOOLEAN /\ up = ~r.boot
  BY <1>1, <1>2 DEF Stage, StageAt, Loading, Reading
<1>4. read = Hydrate(db.settings, db.rows)
  <2>1. \A p \in DOMAIN db.rows : \A f \in RowColumns : r.rows[p][f] = db.rows[p][f]
    BY <1>1, <1>3 DEF RowsRead, Read, Reading, RowColumns
  <2>2. \A p \in DOMAIN db.rows : Hydrated(r.rows[p]) = Hydrated(db.rows[p])
    BY <2>1, HydratedSame
  <2>3. DOMAIN r.rows = DOMAIN db.rows /\ r.settings = db.settings
    BY <1>3 DEF RowsRead
  <2> HIDE DEF r
  <2> QED
    BY <2>2, <2>3 DEF Hydrate
<1>5. Sharded(db) => Src = read
  BY <1>3, <1>4 DEF Src, Source
<1>6. ~Sharded(db) => Src = OrElse(db.slot, OrElse(file, NoSnapshot))
  BY <1>3 DEF Src, Source
<1>7. \/ Sharded(db) /\ \E pc \in {"resave", "archive"} : Goto(t, x(pc, read))
      \/ ~Sharded(db) /\ db.slot # None /\ Goto(t, x("import", db.slot))
      \/ ~Sharded(db) /\ db.slot = None /\ file # None /\ Goto(t, x("resave", file))
      \/ ~Sharded(db) /\ db.slot = None /\ file = None /\ Goto(t, x("fill", NoSnapshot))
  <2>1. r.sharded = Sharded(db)
    BY <1>3 DEF RowsRead
  <2>2. \E stale \in BOOLEAN :
           IF r.sharded THEN Load(t, read, IF stale THEN "resave" ELSE "archive")
           ELSE IF db.slot # None THEN Load(t, db.slot, "import")
           ELSE IF file # None THEN Load(t, file, "resave")
           ELSE Load(t, NoSnapshot, "fill")
    BY Zenon DEF PgDecide
  <2> HIDE DEF read
  <2> QED
    BY <2>1, <2>2 DEF Load
<1>8. \E pc \in Carrying : Goto(t, x(pc, Src)) /\ (pc = "archive" => Sharded(db))
                           /\ (pc = "fill" => Src = NoSnapshot)
  <2> HIDE DEF x, read, r
  <2> QED
    BY <1>5, <1>6, <1>7 DEF OrElse, Carrying
<1>9. PICK pc \in Carrying : Goto(t, x(pc, Src)) /\ (pc = "archive" => Sharded(db))
                             /\ (pc = "fill" => Src = NoSnapshot)
  BY <1>8
<1> DEFINE y == x(pc, Src)
<1>10. y.pc = pc /\ y.boot = r.boot /\ y.snapshot = Src
  OBVIOUS
<1>11. IsSnapshot(Src) /\ Alike(Src, Src) /\ Src' = Src
  BY <1>1, SourceNow, AlikeSame, StillKeeps
<1> HIDE DEF y, x, r
<1>12. StageAt(y, backend', db', mem', up', Src')
  BY <1>1, <1>3, <1>9, <1>10, <1>11
     DEF StageAt, Still, Stages, Loading, Carrying, Reading, Held
<1> QED
  BY <1>1, <1>2, <1>9, <1>10, <1>12, StillStep DEF Carrying, y

-----------------------------------------------------------------------------
(* Filling the memory, and saving it. *)

LEMMA FilledEmpty ==
    ASSUME NEW m, NEW s, m.projects = Empty PROVE Filled(m, Memory(s)) = Memory(s)
BY DEF Filled, Memory, Empty

LEMMA FillStep ==
    ASSUME IInv, Bare, NEW t \in Threads, Fill(t) PROVE IInv' /\ NoLoss(Src, Src')
<1> DEFINE r == thread[t]
           s == r.snapshot
           d == Decode(s)
           migrated == \E p \in DOMAIN d : NeedsPersist(d[p])
           x == IF r.boot /\ migrated THEN [pc |-> "persist"] ELSE Idle
<1>0. /\ r.pc = "fill" /\ mem' = Filled(mem, Memory(s)) /\ Goto(t, x)
      /\ UNCHANGED <<backend, file, db, saves, acked>>
      /\ IF r.boot /\ ~migrated THEN up' = TRUE ELSE UNCHANGED up
  BY Zenon DEF Fill, At
<1>e. mem' = Memory(s)
  BY <1>0, FilledEmpty DEF Bare, Loading, Carrying
<1>1. /\ r.pc = "fill" /\ mem' = Memory(s) /\ Goto(t, x)
      /\ UNCHANGED <<backend, file, db, saves, acked>>
      /\ IF r.boot /\ ~migrated THEN up' = TRUE ELSE UNCHANGED up
  BY <1>0, <1>e
<1>2. Alone(t) /\ Stage(r)
  BY <1>1, Busy
<1>3. /\ IsSnapshot(s) /\ Alike(s, Src) /\ Held(backend, db, Src)
      /\ r.boot \in BOOLEAN /\ up = ~r.boot
  BY <1>1, <1>2 DEF Stage, StageAt, Carrying, Loading
<1>4. Src' = Src /\ IsSnapshot(Src)
  BY <1>1, SourceNow DEF Src, Source
<1>5. MemOk(mem') /\ InMemory(mem', Src) /\ mem'.settings = Src.settings
  BY <1>1, <1>3, <1>4, LoadedMemory, AlikeCarries DEF Alike
<1>6. ~migrated => Clean(s)
  BY DEF Decode, Clean, Unsettled
<1>7. ~migrated => Clean(Src)
  BY <1>3, <1>4, <1>6, AlikeCarries
<1> HIDE DEF s, d, migrated
<1>8. up' \in BOOLEAN /\ (up' => Clean(Src))
  BY <1>1, <1>3, <1>7 DEF IInv, Stores
<1>9. Stores'
  BY <1>1, <1>3, <1>4, <1>5, <1>8 DEF IInv, Stores, Held
<1>10. \/ x.pc = "persist" /\ ~up'
       \/ x.pc = "idle"
  BY <1>1, <1>3 DEF Idle
<1> HIDE DEF x, r
<1>11. StageAt(x, backend', db', mem', up', Src')
  BY <1>4, <1>5, <1>10 DEF StageAt, Stages, Loading, Carrying, Reading
<1>12. OneBusy'
  BY <1>1, <1>2, <1>11, ThreadStep DEF IInv
<1>13. Served'
  BY <1>4, <1>5 DEF Served
<1>14. Orderly' /\ NoLoss(Src, Src')
  BY <1>1, <1>4 DEF IInv, Orderly, NoLoss
<1> QED
  BY <1>9, <1>12, <1>13, <1>14 DEF IInv

\* What memory held is what is stored afterwards, in the file or in the rows.
LEMMA SaveAllOk ==
    ASSUME IInv, NEW m, MemOk(m), InMemory(m, Src), SaveAll(m),
           UNCHANGED backend
    PROVE  /\ file' = None \/ IsSnapshot(file')
           /\ DbOk(db') /\ Held(backend, db', Src')
           /\ IsSnapshot(Src') /\ InMemory(m, Src') /\ Clean(Src') /\ Src'.settings = m.settings
           /\ NoLoss(Src, Src') /\ \A k : Survives(k, Src) => Survives(k, Src')
<1>1. Src' = Source(db', file')
  BY DEF Src, Source
<1>2. IsSnapshot(m) /\ m # None /\ IsSnapshot(Src)
  BY SnapshotIsNot, SourceNow DEF MemOk
<1>3. /\ file' = None \/ IsSnapshot(file')
      /\ DbOk(db') /\ Held(backend, db', Src')
      /\ IsSnapshot(Src') /\ Alike(Src', m)
  <2>1. CASE backend = "json"
    <3>1. Src' = m /\ file' = m /\ db' = db
      BY <1>1, <1>2, <2>1 DEF SaveAll, Source, OrElse
    <3> QED
      BY <1>2, <2>1, <3>1, AlikeSame DEF IInv, Stores, Held
  <2>2. CASE backend # "json"
    <3>1. db' = Saved(m) /\ file' = file
      BY <2>2 DEF SaveAll
    <3>2. DbOk(Saved(m)) /\ Sharded(Saved(m))
      BY <1>2, <2>2, SavedOk
    <3>3. IsSnapshot(Src') /\ Alike(Src', m)
      BY <1>1, <1>2, <2>2, <3>1, SavedOk
    <3> QED
      BY <3>1, <3>2, <3>3 DEF IInv, Stores, Held
  <2> QED
    BY <2>1, <2>2
<1>4. InMemory(m, Src') /\ Clean(Src') /\ Src'.settings = m.settings
  BY <1>3, StoredMemory
<1>5. /\ DOMAIN Src.projects = DOMAIN Src'.projects
      /\ \A p \in DOMAIN Src.projects : Kept(Src.projects[p]) = Kept(Src'.projects[p])
  BY <1>4 DEF InMemory
<1>6. \A p \in DOMAIN Src.projects :
         /\ Src.projects[p].points = Src'.projects[p].points
         /\ Src.projects[p].state = Src'.projects[p].state
  <2> DEFINE a == Src
             b == Src'
  <2>1. \A p \in DOMAIN a.projects : a.projects[p] \in Payloads
    BY <1>2, SnapshotIs
  <2>2. \A p \in DOMAIN b.projects : b.projects[p] \in Payloads
    BY <1>3, SnapshotIs
  <2>3. DOMAIN a.projects = DOMAIN b.projects
    BY <1>5
  <2>4. \A p \in DOMAIN a.projects : Kept(a.projects[p]) = Kept(b.projects[p])
    BY <1>5
  <2> HIDE DEF a, b
  <2>5. \A p \in DOMAIN a.projects :
           a.projects[p].points = b.projects[p].points /\ a.projects[p].state = b.projects[p].state
    BY <2>1, <2>2, <2>3, <2>4, KeptPoints
  <2> QED
    BY <2>5 DEF a, b
<1>7. NoLoss(Src, Src')
  BY <1>5, <1>6 DEF NoLoss
<1>8. \A k : Survives(k, Src) => Survives(k, Src')
  BY <1>5, <1>6 DEF Survives
<1> QED
  BY <1>3, <1>4, <1>7, <1>8

LEMMA BootPersistStep ==
    ASSUME IInv, NEW t \in Threads, BootPersist(t) PROVE IInv' /\ NoLoss(Src, Src')
<1>1. /\ thread[t].pc = "persist" /\ SaveAll(mem) /\ up' = TRUE /\ Goto(t, Idle)
      /\ UNCHANGED <<backend, mem, saves, acked>>
  BY DEF BootPersist, At
<1>2. Alone(t) /\ Stage(thread[t])
  BY <1>1, Busy
<1>3. InMemory(mem, Src) /\ mem.settings = Src.settings
  BY <1>1, <1>2 DEF Stage, StageAt
<1>4. /\ file' = None \/ IsSnapshot(file')
      /\ DbOk(db') /\ Held(backend, db', Src')
      /\ IsSnapshot(Src') /\ InMemory(mem, Src') /\ Clean(Src') /\ Src'.settings = mem.settings
      /\ NoLoss(Src, Src') /\ \A k : Survives(k, Src) => Survives(k, Src')
  BY <1>1, <1>3, SaveAllOk DEF IInv, Stores
<1>5. Stores'
  BY <1>1, <1>4 DEF IInv, Stores
<1>6. StageAt(Idle, backend', db', mem', up', Src')
  BY IdleStageAt DEF Idle
<1>7. OneBusy'
  BY <1>1, <1>2, <1>6, ThreadStep DEF IInv
<1>8. Served'
  BY <1>1, <1>4 DEF Served
<1>9. Orderly'
  BY <1>1 DEF IInv, Orderly
<1> QED
  BY <1>4, <1>5, <1>7, <1>8, <1>9 DEF IInv

LEMMA SaveSettingsStep ==
    ASSUME IInv, NEW t \in Threads, SaveSettings(t) PROVE IInv' /\ NoLoss(Src, Src')
<1>1. /\ thread[t].pc = "settings" /\ SaveAll(thread[t].snapshot) /\ Goto(t, Idle)
      /\ UNCHANGED <<backend, mem, up, saves, acked>>
  BY DEF SaveSettings, At
<1>2. Alone(t) /\ Stage(thread[t])
  BY <1>1, Busy
<1>3. InMemory(mem, Src) /\ SaveAll(mem)
  BY <1>1, <1>2 DEF Stage, StageAt
<1>4. /\ file' = None \/ IsSnapshot(file')
      /\ DbOk(db') /\ Held(backend, db', Src')
      /\ IsSnapshot(Src') /\ InMemory(mem, Src') /\ Clean(Src') /\ Src'.settings = mem.settings
      /\ NoLoss(Src, Src') /\ \A k : Survives(k, Src) => Survives(k, Src')
  BY <1>1, <1>3, SaveAllOk DEF IInv, Stores
<1>5. Stores'
  BY <1>1, <1>4 DEF IInv, Stores
<1>6. StageAt(Idle, backend', db', mem', up', Src')
  BY IdleStageAt DEF Idle
<1>7. OneBusy'
  BY <1>1, <1>2, <1>6, ThreadStep DEF IInv
<1>8. Served'
  BY <1>1, <1>4 DEF Served
<1>9. Orderly'
  BY <1>1 DEF IInv, Orderly
<1> QED
  BY <1>4, <1>5, <1>7, <1>8, <1>9 DEF IInv

LEMMA ReloadClearStep ==
    ASSUME IInv, NEW t \in Threads, ReloadClear(t) PROVE IInv' /\ NoLoss(Src, Src')
<1> DEFINE x == [pc |-> "load", boot |-> FALSE]
<1>1. /\ thread[t].pc = "clear" /\ mem' = [mem EXCEPT !.projects = Empty] /\ Goto(t, x)
      /\ UNCHANGED <<backend, file, db, up, saves, acked>>
  BY DEF ReloadClear, At
<1>2. Alone(t) /\ Stage(thread[t])
  BY <1>1, Busy
<1>3. up /\ backend # "json" /\ x.pc = "load" /\ x.boot = FALSE
  BY <1>1, <1>2 DEF Stage, StageAt
<1>4. Src' = Src
  BY <1>1 DEF Src, Source
<1>5. MemOk(mem')
  <2>1. IsSnapshot(mem)
    BY DEF IInv, Stores, MemOk
  <2>2. Empty \in [{} -> Payloads] /\ DOMAIN Empty = {}
    BY DEF Empty
  <2>3. IsSnapshot(mem') /\ mem'.projects = Empty
    BY <1>1, <2>1, <2>2 DEF IsSnapshot, SnapshotsOf
  <2> QED
    BY <2>2, <2>3 DEF MemOk
<1> HIDE DEF x
<1>6. StageAt(x, backend', db', mem', up', Src')
  BY <1>1, <1>3 DEF StageAt, Stages, Loading, Carrying, Reading, IInv, Stores
<1>7. OneBusy' /\ ~Quiet'
  BY <1>1, <1>2, <1>3, <1>6, ThreadStep DEF IInv
<1>8. Stores'
  BY <1>1, <1>4, <1>5 DEF IInv, Stores, Held
<1>9. Orderly' /\ NoLoss(Src, Src')
  BY <1>1, <1>4 DEF IInv, Orderly, NoLoss
<1> QED
  BY <1>7, <1>8, <1>9 DEF IInv, Served

-----------------------------------------------------------------------------
(* One project is written.                                                 *)

\* A snapshot in which a start finds e for project p, and the rest as before.
Replaced(s, n, p, e) ==
    /\ n.settings = s.settings /\ DOMAIN n.projects = DOMAIN s.projects \cup {p}
    /\ \A q \in DOMAIN s.projects \ {p} : n.projects[q] = s.projects[q]
    /\ Kept(n.projects[p]) = Stored(e) /\ ~Unsettled(n.projects[p])
    /\ n.projects[p].state = e.state /\ n.projects[p].points = e.points

RowReplaced(d, n, p, e) ==
    /\ DOMAIN n = {"system", "settings", "slot", "rows"}
    /\ n.system = TRUE /\ n.settings = d.settings /\ n.slot \in {None, d.slot}
    /\ DOMAIN n.rows = DOMAIN d.rows \cup {p} /\ n.rows[p] = Row(e)
    /\ \A q \in DOMAIN d.rows \ {p} : n.rows[q] = d.rows[q]

WithProject(s, p, e) == [s EXCEPT !.projects = With(@, p, e)]

LEMMA WithProjectIs ==
    ASSUME NEW s, IsSnapshot(s), NEW p \in Projects, NEW e \in Payloads,
           NEW n, n = WithProject(s, p, e)
    PROVE  /\ IsSnapshot(n) /\ n.settings = s.settings
           /\ DOMAIN n.projects = DOMAIN s.projects \cup {p} /\ n.projects[p] = e
           /\ \A q \in DOMAIN s.projects \ {p} : n.projects[q] = s.projects[q]
<1> DEFINE f == With(s.projects, p, e)
<1>1. PICK ps \in SUBSET Projects : s \in SnapshotsOf(ps)
  BY DEF IsSnapshot
<1>2. DOMAIN s.projects = ps /\ s.projects \in [ps -> Payloads]
  BY <1>1 DEF SnapshotsOf
<1>3. f \in [ps \cup {p} -> Payloads]
  BY <1>2 DEF With
<1>4. /\ DOMAIN f = ps \cup {p} /\ f[p] = e
      /\ \A q \in ps \ {p} : f[q] = s.projects[q]
  BY <1>2 DEF With
<1>5. n = [s EXCEPT !.projects = f]
  BY DEF WithProject
<1> HIDE DEF f
<1>6. n \in SnapshotsOf(ps \cup {p}) /\ n.settings = s.settings /\ n.projects = f
  BY <1>1, <1>3, <1>5 DEF SnapshotsOf
<1>7. IsSnapshot(n)
  BY <1>6 DEF IsSnapshot
<1> QED
  BY <1>2, <1>4, <1>6, <1>7 DEF f

\* The JSON file is written as a whole, with the other projects as they were.
LEMMA FilePut ==
    ASSUME IInv, NEW p \in Projects, NEW e \in Payloads, Settled(e), backend = "json",
           Store(p, e), UNCHANGED backend
    PROVE  /\ DbOk(db') /\ IsSnapshot(file') /\ IsSnapshot(Src') /\ Held(backend', db', Src')
           /\ Replaced(Src, Src', p, e)
<1>1. Src = OrElse(file, NoSnapshot)
  BY DEF Src, Source
<1>2. file' = [Src EXCEPT !.projects = With(@, p, e)] /\ db' = db
  BY <1>1 DEF Store
<1>3. IsSnapshot(Src) /\ file' = WithProject(Src, p, e)
  BY <1>2, SourceNow, Zenon DEF WithProject
<1>4. /\ IsSnapshot(file') /\ file'.settings = Src.settings
      /\ DOMAIN file'.projects = DOMAIN Src.projects \cup {p} /\ file'.projects[p] = e
      /\ \A q \in DOMAIN Src.projects \ {p} : file'.projects[q] = Src.projects[q]
  BY <1>3, WithProjectIs
<1>5. Src' = file'
  BY <1>4, SnapshotIsNot DEF Src, Source, OrElse
<1>6. Replaced(Src, Src', p, e)
  BY <1>4, <1>5, SettledKept DEF Replaced
<1> QED
  BY <1>2, <1>4, <1>5, <1>6 DEF IInv, Stores, Held

\* The rows of one project are written.
LEMMA RowPut ==
    ASSUME IInv, up, NEW p \in Projects, NEW e \in Payloads, Settled(e), backend # "json",
           RowReplaced(db, db', p, e), UNCHANGED <<backend, file>>
    PROVE  /\ DbOk(db') /\ IsSnapshot(Src') /\ Held(backend', db', Src')
           /\ DOMAIN Src.projects = DOMAIN db.rows /\ Replaced(Src, Src', p, e)
<1>1. DbOk(db) /\ (Sharded(db) \/ Src = NoSnapshot)
  BY DEF IInv, Stores, Held
<1>2. /\ Src.settings = db.settings /\ DOMAIN Src.projects = DOMAIN db.rows
      /\ \A q \in DOMAIN db.rows : Src.projects[q] = Hydrated(db.rows[q])
  <2>1. CASE Sharded(db)
    BY <1>1, <2>1, HydrateOk DEF Src, Source
  <2>2. CASE ~Sharded(db)
    BY <1>1, <2>2, NoSnapshotOk DEF Sharded
  <2> QED
    BY <2>1, <2>2
<1>3. DbOk(db')
  BY <1>1, RowRead DEF DbOk, RowReplaced
<1>4. Sharded(db')
  BY DEF Sharded, RowReplaced
<1>5. Src' = Hydrate(db'.settings, db'.rows)
  BY <1>4 DEF Src, Source
<1>6. /\ IsSnapshot(Src') /\ Src'.settings = db'.settings
      /\ DOMAIN Src'.projects = DOMAIN db'.rows
      /\ \A q \in DOMAIN db'.rows : Src'.projects[q] = Hydrated(db'.rows[q])
  BY <1>3, <1>5, HydrateOk
<1>7. Src'.projects[p] = Hydrated(Row(e))
  BY <1>6 DEF RowReplaced
<1>8. Replaced(Src, Src', p, e)
  BY <1>2, <1>6, <1>7, RowRead, SettledKept DEF Replaced, RowReplaced
<1> QED
  BY <1>2, <1>3, <1>4, <1>6, <1>8 DEF Held

LEMMA SavedRow ==
    ASSUME NEW d, DbOk(d), NEW p, NEW e
    PROVE  RowReplaced(d, SavedProject(d, p, e), p, e)
<1> DEFINE rows == With(d.rows, p, Row(e))
           n == [d EXCEPT !.system = TRUE, !.rows = rows, !.slot = None]
<1>1. /\ DOMAIN rows = DOMAIN d.rows \cup {p} /\ rows[p] = Row(e)
      /\ \A q \in DOMAIN d.rows \ {p} : rows[q] = d.rows[q]
  BY DEF With
<1> HIDE DEF rows
<1>2. /\ DOMAIN n = {"system", "settings", "slot", "rows"} /\ n.system = TRUE
      /\ n.settings = d.settings /\ n.slot = None /\ n.rows = rows
  BY DEF DbOk
<1>3. SavedProject(d, p, e) = n
  BY DEF SavedProject, rows
<1> HIDE DEF n
<1> QED
  BY <1>1, <1>2, <1>3 DEF RowReplaced

LEMMA StorePut ==
    ASSUME IInv, up, NEW p \in Projects, NEW e \in Payloads, Settled(e), Store(p, e),
           UNCHANGED backend
    PROVE  /\ file' = None \/ IsSnapshot(file')
           /\ DbOk(db') /\ IsSnapshot(Src') /\ Held(backend', db', Src')
           /\ Replaced(Src, Src', p, e)
<1>1. CASE backend = "json"
  BY <1>1, FilePut
<1>2. CASE backend # "json"
  <2>1. db' = SavedProject(db, p, e) /\ file' = file
    BY <1>2 DEF Store
  <2>2. RowReplaced(db, db', p, e)
    BY <2>1, SavedRow DEF IInv, Stores
  <2> QED
    BY <1>2, <2>1, <2>2, RowPut DEF IInv, Stores
<1> QED
  BY <1>1, <1>2

\* What the replacement of one project carries over.
LEMMA PutCarries ==
    ASSUME NEW s, IsSnapshot(s), NEW n, IsSnapshot(n), NEW p \in Projects, NEW e,
           Replaced(s, n, p, e)
    PROVE  /\ Clean(s) => Clean(n)
           /\ \A m, w : /\ InMemory(m, s)
                        /\ DOMAIN w.projects = DOMAIN m.projects \cup {p} /\ w.projects[p] = e
                        /\ \A q \in DOMAIN m.projects \ {p} : w.projects[q] = m.projects[q]
                        => InMemory(w, n)
           /\ \A k, l : /\ Survives(k, s) /\ l[p] \subseteq DOMAIN e.points
                        /\ \A q \in Projects \ {p} : l[q] = k[q]
                        => Survives(l, n)
           /\ \/ p \notin DOMAIN s.projects
              \/ e.state = "DELETED"
              \/ EditOk(s.projects[p], e) /\ s.projects[p].state = "ACTIVE"
              => NoLoss(s, n)
<1>1. Clean(s) => Clean(n)
  BY DEF Clean, Replaced
<1>2. ASSUME NEW m, NEW w, InMemory(m, s),
             DOMAIN w.projects = DOMAIN m.projects \cup {p}, w.projects[p] = e,
             \A q \in DOMAIN m.projects \ {p} : w.projects[q] = m.projects[q]
      PROVE  InMemory(w, n)
  BY <1>2 DEF InMemory, Replaced
<1>3. ASSUME NEW k, NEW l, Survives(k, s), l[p] \subseteq DOMAIN e.points,
             \A q \in Projects \ {p} : l[q] = k[q]
      PROVE  Survives(l, n)
  BY <1>3 DEF Survives, Replaced
<1>4. ASSUME \/ p \notin DOMAIN s.projects
             \/ e.state = "DELETED"
             \/ EditOk(s.projects[p], e) /\ s.projects[p].state = "ACTIVE"
      PROVE  NoLoss(s, n)
  <2>1. ASSUME NEW q \in DOMAIN s.projects, q # p PROVE n.projects[q] = s.projects[q]
    BY <2>1 DEF Replaced
  <2>2. DOMAIN s.projects \subseteq DOMAIN n.projects
    BY DEF Replaced
  <2>3. n.projects[p].state = e.state /\ n.projects[p].points = e.points
    BY DEF Replaced
  <2> QED
    BY <1>4, <2>1, <2>2, <2>3 DEF NoLoss, EditOk
<1> QED
  BY <1>1, <1>2, <1>3, <1>4

-----------------------------------------------------------------------------
(* Serving. *)

LEMMA InMemorySame ==
    ASSUME NEW s, IsSnapshot(s), NEW m, MemOk(m), InMemory(m, s), NEW p \in DOMAIN m.projects
    PROVE  /\ p \in DOMAIN s.projects /\ p \in Projects
           /\ m.projects[p] \in Payloads /\ Settled(m.projects[p])
           /\ s.projects[p].points = m.projects[p].points
           /\ s.projects[p].state = m.projects[p].state
<1> DEFINE a == s.projects[p]
           b == m.projects[p]
<1>1. p \in DOMAIN s.projects /\ Kept(a) = Stored(b)
  BY DEF InMemory
<1>2. p \in Projects /\ a \in Payloads /\ b \in Payloads /\ Settled(b)
  BY <1>1, SnapshotIs DEF MemOk
<1> HIDE DEF a, b
<1>3. Kept(a) = Kept(b)
  BY <1>1, <1>2, SettledKept
<1>4. a.points = b.points /\ a.state = b.state
  BY <1>2, <1>3, KeptPoints
<1> QED
  BY <1>1, <1>2, <1>4 DEF a, b

\* A session: the project is stored, and published in memory.
LEMMA SessionStep ==
    ASSUME IInv, NEW t \in Threads, Serving(t), ~Locked, UNCHANGED <<backend, up, thread>>,
           NEW p \in Projects, NEW e \in Payloads, Settled(e), Store(p, e),
           MemOk(mem'), mem'.settings = mem.settings,
           DOMAIN mem'.projects = DOMAIN mem.projects \cup {p}, mem'.projects[p] = e,
           \A q \in DOMAIN mem.projects \ {p} : mem'.projects[q] = mem.projects[q],
           acked' \in [Projects -> SUBSET Points], acked'[p] \subseteq DOMAIN e.points,
           \A q \in Projects \ {p} : acked'[q] = acked[q],
           \/ p \notin DOMAIN mem.projects
           \/ e.state = "DELETED"
           \/ EditOk(mem.projects[p], e) /\ mem.projects[p].state = "ACTIVE"
    PROVE  IInv' /\ NoLoss(Src, Src')
<1>1. Alone(t) /\ Quiet /\ InMemory(mem, Src) /\ mem.settings = Src.settings /\ up
  BY ServedAlone DEF Serving
<1>2. /\ file' = None \/ IsSnapshot(file')
      /\ DbOk(db') /\ IsSnapshot(Src') /\ Held(backend', db', Src')
      /\ Replaced(Src, Src', p, e)
  BY <1>1, StorePut
<1>3. IsSnapshot(Src) /\ MemOk(mem) /\ Clean(Src) /\ Survives(acked, Src)
  BY <1>1, SourceNow DEF IInv, Stores
<1>4. \/ p \notin DOMAIN Src.projects
      \/ e.state = "DELETED"
      \/ EditOk(Src.projects[p], e) /\ Src.projects[p].state = "ACTIVE"
  <2>1. DOMAIN mem.projects = DOMAIN Src.projects
    BY <1>1 DEF InMemory
  <2>2. CASE p \in DOMAIN mem.projects
    BY <1>1, <1>3, <2>2, InMemorySame DEF EditOk
  <2> QED
    BY <2>1, <2>2
<1>5. Clean(Src') /\ NoLoss(Src, Src')
  BY <1>2, <1>3, <1>4, PutCarries
<1>6. InMemory(mem', Src')
  BY <1>1, <1>2, <1>3, PutCarries
<1>7. Survives(acked', Src')
  BY <1>2, <1>3, PutCarries
<1>8. mem'.settings = Src'.settings
  BY <1>1, <1>2 DEF Replaced
<1>9. Stores'
  BY <1>2, <1>5, <1>7 DEF IInv, Stores
<1>10. OneBusy'
  <2>1. \A s \in Threads : Stage(thread[s])'
    BY <1>1, IdleStageAt DEF Quiet, Stage
  <2> QED
    BY <2>1 DEF IInv, OneBusy
<1> QED
  BY <1>5, <1>6, <1>8, <1>9, <1>10 DEF IInv, Served, Orderly

LEMMA CommitStep ==
    ASSUME IInv, NEW t \in Threads, NEW p \in Projects, Commit(t, p)
    PROVE  IInv' /\ NoLoss(Src, Src')
<1>1. /\ Serving(t) /\ ~Locked /\ UNCHANGED <<backend, up, thread>>
      /\ p \in DOMAIN mem.projects /\ mem.projects[p].state = "ACTIVE"
  BY DEF Commit, ActiveIn
<1>2. PICK e \in Edited(mem.projects[p]) :
         /\ Store(p, e)
         /\ mem' = [mem EXCEPT !.projects = With(@, p, e)]
         /\ acked' = [acked EXCEPT ![p] = DOMAIN e.points]
  BY DEF Commit
<1>3. MemOk(mem) /\ IsSnapshot(mem) /\ acked \in [Projects -> SUBSET Points]
  BY DEF IInv, Stores, MemOk
<1>4. mem.projects[p] \in Payloads /\ Settled(mem.projects[p])
  BY <1>1, <1>3, SnapshotIs DEF MemOk
<1>5. EditOk(mem.projects[p], e)
  BY <1>1, <1>2, <1>4, EditedOk
<1>6. e \in Payloads /\ Settled(e)
  BY <1>5 DEF EditOk
<1>7. /\ IsSnapshot(mem') /\ mem'.settings = mem.settings
      /\ DOMAIN mem'.projects = DOMAIN mem.projects \cup {p} /\ mem'.projects[p] = e
      /\ \A q \in DOMAIN mem.projects \ {p} : mem'.projects[q] = mem.projects[q]
  <2>1. mem' = WithProject(mem, p, e)
    BY <1>2, Zenon DEF WithProject
  <2> QED
    BY <1>3, <1>6, <2>1, WithProjectIs
<1>8. MemOk(mem')
  BY <1>3, <1>6, <1>7 DEF MemOk
<1>9. DOMAIN e.points \in SUBSET Points
  <2>1. e.points \in PointMaps
    BY <1>6 DEF Payloads, Fields
  <2> QED
    BY <2>1 DEF PointMaps
<1>10. /\ acked' \in [Projects -> SUBSET Points] /\ acked'[p] \subseteq DOMAIN e.points
       /\ \A q \in Projects \ {p} : acked'[q] = acked[q]
  BY <1>2, <1>3, <1>9
<1> QED
  BY <1>1, <1>2, <1>5, <1>6, <1>7, <1>8, <1>10, SessionStep

LEMMA SessionCreateStep ==
    ASSUME IInv, NEW t \in Threads, NEW p \in Projects, SessionCreate(t, p)
    PROVE  IInv' /\ NoLoss(Src, Src')
<1>1. /\ Serving(t) /\ ~Locked /\ UNCHANGED <<backend, up, thread, acked>>
      /\ p \notin DOMAIN mem.projects /\ Store(p, Bootstrap)
      /\ mem' = [mem EXCEPT !.projects = With(@, p, Bootstrap)]
  BY DEF SessionCreate
<1>2. /\ MemOk(mem) /\ IsSnapshot(mem) /\ acked \in [Projects -> SUBSET Points]
      /\ Survives(acked, Src)
  BY DEF IInv, Stores, MemOk
<1>3. Bootstrap \in Payloads /\ Settled(Bootstrap)
  BY BootstrapOk, BootstrapSettled
<1>4. /\ IsSnapshot(mem') /\ mem'.settings = mem.settings
      /\ DOMAIN mem'.projects = DOMAIN mem.projects \cup {p} /\ mem'.projects[p] = Bootstrap
      /\ \A q \in DOMAIN mem.projects \ {p} : mem'.projects[q] = mem.projects[q]
  <2>1. mem' = WithProject(mem, p, Bootstrap)
    BY <1>1, Zenon DEF WithProject
  <2> QED
    BY <1>2, <1>3, <2>1, WithProjectIs
<1>5. MemOk(mem')
  BY <1>2, <1>3, <1>4 DEF MemOk
<1>6. acked[p] = {}
  <2>1. InMemory(mem, Src)
    BY <1>1, ServedAlone
  <2> QED
    BY <1>1, <1>2, <2>1 DEF InMemory, Survives
<1> QED
  BY <1>1, <1>2, <1>3, <1>4, <1>5, <1>6, SessionStep

LEMMA SessionDeleteStep ==
    ASSUME IInv, NEW t \in Threads, NEW p \in Projects, SessionDelete(t, p)
    PROVE  IInv' /\ NoLoss(Src, Src')
<1>1. /\ Serving(t) /\ ~Locked /\ UNCHANGED <<backend, up, thread>>
      /\ p \in DOMAIN mem.projects /\ Store(p, Tombstone)
      /\ mem' = [mem EXCEPT !.projects[p] = Tombstone]
      /\ acked' = [acked EXCEPT ![p] = {}]
  BY DEF SessionDelete, ActiveIn
<1>2. MemOk(mem) /\ IsSnapshot(mem) /\ acked \in [Projects -> SUBSET Points]
  BY DEF IInv, Stores, MemOk
<1>3. Tombstone \in Payloads /\ Settled(Tombstone) /\ Tombstone.state = "DELETED"
  BY TombstoneOk, TombstoneKept, TombstoneIs
<1>4. /\ IsSnapshot(mem') /\ mem'.settings = mem.settings
      /\ DOMAIN mem'.projects = DOMAIN mem.projects \cup {p} /\ mem'.projects[p] = Tombstone
      /\ \A q \in DOMAIN mem.projects \ {p} : mem'.projects[q] = mem.projects[q]
  <2>1. PICK ps \in SUBSET Projects : mem \in SnapshotsOf(ps)
    BY <1>2 DEF IsSnapshot
  <2>2. DOMAIN mem.projects = ps /\ mem.projects \in [ps -> Payloads]
    BY <2>1 DEF SnapshotsOf
  <2> DEFINE f == [mem.projects EXCEPT ![p] = Tombstone]
  <2>3. /\ f \in [ps -> Payloads] /\ DOMAIN f = ps /\ f[p] = Tombstone
        /\ \A q \in ps \ {p} : f[q] = mem.projects[q]
    BY <1>1, <1>3, <2>2
  <2>4. mem' = [mem EXCEPT !.projects = f]
    BY <1>1
  <2> HIDE DEF f
  <2>5. mem' \in SnapshotsOf(ps) /\ mem'.settings = mem.settings /\ mem'.projects = f
    BY <2>1, <2>3, <2>4 DEF SnapshotsOf
  <2>6. IsSnapshot(mem')
    BY <2>5 DEF IsSnapshot
  <2> QED
    BY <1>1, <2>2, <2>3, <2>5, <2>6
<1>5. MemOk(mem')
  BY <1>2, <1>3, <1>4 DEF MemOk
<1>6. /\ acked' \in [Projects -> SUBSET Points] /\ acked'[p] \subseteq DOMAIN Tombstone.points
      /\ \A q \in Projects \ {p} : acked'[q] = acked[q]
  BY <1>1, <1>2
<1> QED
  BY <1>1, <1>3, <1>4, <1>5, <1>6, SessionStep

\* With an SQL store a creation or a deletion writes the rows and then loads
\* every project again.
LEMMA DirectStep ==
    ASSUME IInv, NEW t \in Threads, Serving(t), Reload(t), backend # "json",
           UNCHANGED <<backend, file, mem, up>>,
           NEW p \in Projects, NEW e \in Payloads, Settled(e), RowReplaced(db, db', p, e),
           acked' \in [Projects -> SUBSET Points],
           acked'[p] = {}, \A q \in Projects \ {p} : acked'[q] = acked[q],
           p \notin DOMAIN Src.projects \/ e.state = "DELETED"
    PROVE  IInv' /\ NoLoss(Src, Src')
<1> DEFINE x == [pc |-> "clear", boot |-> FALSE]
<1>1. Alone(t) /\ up
  BY ServedAlone DEF Serving
<1>2. /\ DbOk(db') /\ IsSnapshot(Src') /\ Held(backend', db', Src')
      /\ Replaced(Src, Src', p, e)
  BY <1>1, RowPut
<1>3. IsSnapshot(Src) /\ Clean(Src) /\ Survives(acked, Src)
  BY <1>1, SourceNow DEF IInv, Stores
<1>4. Clean(Src') /\ NoLoss(Src, Src')
  BY <1>2, <1>3, PutCarries
<1>5. Survives(acked', Src')
  BY <1>2, <1>3, PutCarries
<1>6. Stores'
  BY <1>2, <1>4, <1>5 DEF IInv, Stores
<1>7. x.pc = "clear" /\ x.boot = FALSE /\ Goto(t, x)
  BY DEF Reload
<1> HIDE DEF x
<1>8. StageAt(x, backend', db', mem', up', Src')
  BY <1>1, <1>7 DEF StageAt, Stages, Loading, Carrying, Reading
<1>9. OneBusy' /\ ~Quiet'
  BY <1>1, <1>7, <1>8, ThreadStep DEF IInv
<1> QED
  BY <1>4, <1>6, <1>9 DEF IInv, Served, Orderly

LEMMA DirectCreateStep ==
    ASSUME IInv, NEW t \in Threads, NEW p \in Projects, DirectCreate(t, p)
    PROVE  IInv' /\ NoLoss(Src, Src')
<1>1. /\ Serving(t) /\ Reload(t) /\ backend # "json" /\ p \notin DOMAIN db.rows
      /\ db' = [db EXCEPT !.system = TRUE, !.rows = With(@, p, Row(Bootstrap))]
      /\ UNCHANGED <<backend, file, mem, up, acked>>
  BY DEF DirectCreate
<1>2. Bootstrap \in Payloads /\ Settled(Bootstrap)
  BY BootstrapOk, BootstrapSettled
<1>3. /\ DbOk(db) /\ acked \in [Projects -> SUBSET Points] /\ Survives(acked, Src)
  BY DEF IInv, Stores
<1>4. RowReplaced(db, db', p, Bootstrap)
  <2> DEFINE rows == With(db.rows, p, Row(Bootstrap))
  <2>1. /\ DOMAIN rows = DOMAIN db.rows \cup {p} /\ rows[p] = Row(Bootstrap)
        /\ \A q \in DOMAIN db.rows \ {p} : rows[q] = db.rows[q]
    BY DEF With
  <2>2. db' = [db EXCEPT !.system = TRUE, !.rows = rows]
    BY <1>1
  <2> HIDE DEF rows
  <2>3. /\ DOMAIN db' = {"system", "settings", "slot", "rows"} /\ db'.system = TRUE
        /\ db'.settings = db.settings /\ db'.slot = db.slot /\ db'.rows = rows
    BY <1>3, <2>2 DEF DbOk
  <2> QED
    BY <2>1, <2>3 DEF RowReplaced
<1>5. DOMAIN Src.projects = DOMAIN db.rows
  BY <1>1, <1>2, <1>4, RowPut DEF Serving
<1>6. acked[p] = {}
  BY <1>1, <1>3, <1>5 DEF Survives
<1> QED
  BY <1>1, <1>2, <1>3, <1>4, <1>5, <1>6, DirectStep

LEMMA DirectDeleteStep ==
    ASSUME IInv, NEW t \in Threads, NEW p \in Projects, DirectDelete(t, p)
    PROVE  IInv' /\ NoLoss(Src, Src')
<1>1. /\ Serving(t) /\ Reload(t) /\ backend # "json" /\ p \in DOMAIN db.rows
      /\ db' = [db EXCEPT !.system = TRUE, !.rows[p] = Row(Tombstone)]
      /\ acked' = [acked EXCEPT ![p] = {}]
      /\ UNCHANGED <<backend, file, mem, up>>
  BY DEF DirectDelete
<1>2. Tombstone \in Payloads /\ Settled(Tombstone) /\ Tombstone.state = "DELETED"
  BY TombstoneOk, TombstoneKept, TombstoneIs
<1>3. DbOk(db) /\ acked \in [Projects -> SUBSET Points]
  BY DEF IInv, Stores
<1>4. RowReplaced(db, db', p, Tombstone)
  <2> DEFINE rows == [db.rows EXCEPT ![p] = Row(Tombstone)]
  <2>1. /\ DOMAIN rows = DOMAIN db.rows \cup {p} /\ rows[p] = Row(Tombstone)
        /\ \A q \in DOMAIN db.rows \ {p} : rows[q] = db.rows[q]
    BY <1>1
  <2>2. db' = [db EXCEPT !.system = TRUE, !.rows = rows]
    BY <1>1
  <2> HIDE DEF rows
  <2>3. /\ DOMAIN db' = {"system", "settings", "slot", "rows"} /\ db'.system = TRUE
        /\ db'.settings = db.settings /\ db'.slot = db.slot /\ db'.rows = rows
    BY <1>3, <2>2 DEF DbOk
  <2> QED
    BY <2>1, <2>3 DEF RowReplaced
<1>5. /\ acked' \in [Projects -> SUBSET Points] /\ acked'[p] = {}
      /\ \A q \in Projects \ {p} : acked'[q] = acked[q]
  BY <1>1, <1>3
<1> QED
  BY <1>1, <1>2, <1>4, <1>5, DirectStep

LEMMA EncodeSettingsStep ==
    ASSUME IInv, NEW t \in Threads, EncodeSettings(t) PROVE IInv' /\ NoLoss(Src, Src')
<1> DEFINE x == [pc |-> "settings", snapshot |-> mem']
<1>1. /\ Serving(t) /\ ~Locked /\ mem' = [mem EXCEPT !.settings = "set"] /\ Goto(t, x)
      /\ UNCHANGED <<backend, file, db, up, acked>>
  BY DEF EncodeSettings
<1>2. Alone(t) /\ InMemory(mem, Src) /\ up
  BY <1>1, ServedAlone DEF Serving
<1>3. Src' = Src
  BY <1>1 DEF Src, Source
<1>4. MemOk(mem') /\ mem'.projects = mem.projects
  <2>1. PICK ps \in SUBSET Projects : mem \in SnapshotsOf(ps)
    BY DEF IInv, Stores, MemOk, IsSnapshot
  <2>2. mem' \in SnapshotsOf(ps) /\ mem'.projects = mem.projects
    BY <1>1, <2>1 DEF SnapshotsOf
  <2> QED
    BY <2>2 DEF IInv, Stores, MemOk, IsSnapshot
<1>5. InMemory(mem', Src')
  BY <1>2, <1>3, <1>4 DEF InMemory
<1>6. x.pc = "settings" /\ x.snapshot = mem'
  OBVIOUS
<1> HIDE DEF x
<1>7. StageAt(x, backend', db', mem', up', Src')
  BY <1>1, <1>2, <1>5, <1>6 DEF StageAt, Stages, Loading, Carrying, Reading
<1>8. OneBusy' /\ ~Quiet'
  BY <1>1, <1>2, <1>6, <1>7, ThreadStep DEF IInv
<1>9. Stores'
  BY <1>1, <1>3, <1>4 DEF IInv, Stores, Held
<1>10. Orderly' /\ NoLoss(Src, Src')
  BY <1>1, <1>3 DEF IInv, Orderly, NoLoss
<1> QED
  BY <1>8, <1>9, <1>10 DEF IInv, Served

LEMMA CrashStep ==
    ASSUME IInv, Crash PROVE IInv' /\ NoLoss(Src, Src')
<1>1. /\ up' = FALSE /\ mem' = NoSnapshot /\ thread' = [t \in Threads |-> Idle]
      /\ UNCHANGED <<backend, file, db, acked>>
  BY DEF Crash
<1>2. Src' = Src
  BY <1>1 DEF Src, Source
<1>3. MemOk(mem')
  BY <1>1, NoSnapshotOk DEF MemOk
<1>4. \A t \in Threads : thread'[t].pc = "idle"
  BY <1>1 DEF Idle
<1>5. \A t \in Threads : Stage(thread[t])'
  BY <1>4, IdleStageAt DEF Stage
<1>6. OneBusy'
  BY <1>1, <1>4, <1>5 DEF OneBusy
<1>7. Stores'
  BY <1>1, <1>2, <1>3 DEF IInv, Stores
<1> QED
  BY <1>1, <1>2, <1>6, <1>7 DEF IInv, Served, Orderly, NoLoss

-----------------------------------------------------------------------------
(* The initial states: nothing, or a project of an earlier version in the  *)
(* file, in the legacy row or in rows.                                     *)

OlderUpdate(b, storage, absolute, xs, y) ==
    [b EXCEPT !.storage = storage, !.absolute = absolute, !.points = xs, !.tasks = Points,
              !.queue = "idle", !.layer = y, !.artifact = "DESKTOP_WEB", !.allowlist = "list"]
OlderAs(storage, absolute, gone) ==
    OlderUpdate(Blank, storage, absolute,
                [x \in Points |-> IF x = gone THEN "DELETED" ELSE "ACTIVE"],
                [QuietLayer EXCEPT !.k = 0])

LEMMA OlderIs ==
    Older = {OlderAs(storage, absolute, gone) :
                storage \in {None, "scan", "dot"}, absolute \in BOOLEAN, gone \in Points}
BY DEF Older, OlderAs, OlderUpdate

LEMMA OlderFields ==
    ASSUME NEW b \in Fields, NEW storage \in {None, "scan", "dot"}, NEW absolute \in BOOLEAN,
           NEW xs \in PointMaps, NEW y \in Layers, NEW m,
           m = OlderUpdate(b, storage, absolute, xs, y)
    PROVE  m \in Fields /\ m.points = xs /\ m.layer = y /\ m.state = b.state
<1>1. Points \in SUBSET Points
  OBVIOUS
<1>2. m \in Fields
  BY <1>1, ZenonT(40) DEF Fields, OlderUpdate
<1>3. m.points = xs /\ m.layer = y /\ m.state = b.state
  BY DEF Fields, OlderUpdate
<1> QED
  BY <1>2, <1>3

LEMMA OlderOk ==
    ASSUME NEW m \in Older
    PROVE  m \in Payloads /\ m.state = "ACTIVE" /\ DOMAIN m.points = Points
<1>1. PICK storage \in {None, "scan", "dot"}, absolute \in BOOLEAN, gone \in Points :
         m = OlderAs(storage, absolute, gone)
  BY OlderIs
<1> DEFINE xs == [x \in Points |-> IF x = gone THEN "DELETED" ELSE "ACTIVE"]
           y == [QuietLayer EXCEPT !.k = 0]
<1>2. xs \in [Points -> States]
  OBVIOUS
<1>3. xs \in PointMaps /\ DOMAIN xs = Points
  BY <1>2 DEF PointMaps
<1>4. y \in Layers /\ y # None
  <2>1. y \in Layers
    BY QuietLayerOk DEF Layers
  <2> QED
    BY <2>1, NoneApart
<1> HIDE DEF xs, y
<1>5. m = OlderUpdate(Blank, storage, absolute, xs, y)
  BY <1>1, Zenon DEF xs, y, OlderAs
<1>6. m \in Fields /\ m.points = xs /\ m.layer = y /\ m.state = Blank.state
  BY <1>3, <1>4, <1>5, BlankIs, OlderFields
<1>7. Blank.state = "ACTIVE"
  BY DEF Blank
<1> QED
  BY <1>3, <1>4, <1>6, <1>7 DEF Payloads

LEMMA OldSnapshotOk ==
    ASSUME NEW p \in Projects, NEW m \in Payloads
    PROVE  /\ IsSnapshot(OldSnapshot(p, m))
           /\ DOMAIN OldSnapshot(p, m).projects = {p} /\ OldSnapshot(p, m).projects[p] = m
<1> DEFINE f == With(Empty, p, m)
<1>1. f \in [{p} -> Payloads] /\ DOMAIN f = {p} /\ f[p] = m
  BY DEF With, Empty
<1> HIDE DEF f
<1>2. OldSnapshot(p, m) = [settings |-> None, projects |-> f]
  BY DEF OldSnapshot, f
<1>3. IsSnapshot([settings |-> None, projects |-> f])
  BY <1>1, SnapshotMade
<1> QED
  BY <1>1, <1>2, <1>3

LEMMA NoDbOk ==
    /\ DbOk(NoDb) /\ ~Sharded(NoDb) /\ NoDb.slot = None
    /\ DOMAIN NoDb = {"system", "settings", "slot", "rows"} /\ DOMAIN NoDb.rows = {}
    /\ NoDb.system = FALSE /\ NoDb.settings = None
BY DEF NoDb, DbOk, Sharded, Empty

\* One project, stored in one of the old ways, with all its points.
LEMMA OldStart ==
    ASSUME Init
    PROVE  /\ backend \in {"json", "sqlite", "postgres"}
           /\ file = None \/ IsSnapshot(file)
           /\ DbOk(db) /\ acked \in [Projects -> SUBSET Points] /\ Survives(acked, Src)
<1>1. CASE /\ backend \in {"json", "sqlite", "postgres"}
           /\ file = None /\ db = NoDb
           /\ acked = [p \in Projects |-> {}]
  BY <1>1, NoDbOk DEF Survives
<1>2. ASSUME NEW p \in Projects, NEW m \in Older,
             acked = [q \in Projects |-> IF q = p THEN Points ELSE {}],
             \/ /\ backend \in {"json", "sqlite", "postgres"}
                /\ file = OldSnapshot(p, m) /\ db = NoDb
             \/ /\ backend \in {"sqlite", "postgres"}
                /\ file = None
                /\ \/ db = [NoDb EXCEPT !.slot = OldSnapshot(p, m)]
                   \/ db = [NoDb EXCEPT !.system = TRUE, !.rows = With(Empty, p, OldRow(m))]
      PROVE  /\ backend \in {"json", "sqlite", "postgres"}
             /\ file = None \/ IsSnapshot(file)
             /\ DbOk(db) /\ acked \in [Projects -> SUBSET Points] /\ Survives(acked, Src)
  <2>1. m \in Payloads /\ m.state = "ACTIVE" /\ DOMAIN m.points = Points
    BY OlderOk
  <2> DEFINE s == OldSnapshot(p, m)
             rows == With(Empty, p, OldRow(m))
  <2>2. IsSnapshot(s) /\ DOMAIN s.projects = {p} /\ s.projects[p] = m /\ s # None
    BY <2>1, OldSnapshotOk, SnapshotIsNot
  <2>3. DOMAIN rows = {p} /\ rows[p] = OldRow(m)
    BY DEF With, Empty
  <2>4. Hydrated(OldRow(m)) \in Payloads /\ Hydrated(OldRow(m)).points = m.points
    BY <2>1, OldRowRead
  <2>5. acked \in [Projects -> SUBSET Points]
    BY <1>2
  <2> HIDE DEF s, rows
  <2>6. ASSUME DOMAIN Src.projects = {p}, DOMAIN Src.projects[p].points = Points
        PROVE  Survives(acked, Src)
    BY <1>2, <2>6 DEF Survives
  <2>7. CASE backend \in {"json", "sqlite", "postgres"} /\ file = s /\ db = NoDb
    <3>1. Src = s
      BY <2>2, <2>7, NoDbOk DEF Src, Source, OrElse
    <3> QED
      BY <2>1, <2>2, <2>5, <2>6, <2>7, <3>1, NoDbOk
  <2>8. CASE backend \in {"sqlite", "postgres"} /\ file = None /\ db = [NoDb EXCEPT !.slot = s]
    <3>1. /\ DOMAIN db = {"system", "settings", "slot", "rows"} /\ db.slot = s
          /\ db.rows = NoDb.rows /\ db.system = FALSE /\ db.settings = None
      BY <2>8, NoDbOk
    <3>2. DbOk(db) /\ ~Sharded(db)
      BY <2>2, <3>1, NoDbOk DEF DbOk, Sharded
    <3>3. Src = s
      BY <2>2, <2>8, <3>1, <3>2 DEF Src, Source, OrElse
    <3> QED
      BY <2>1, <2>2, <2>5, <2>6, <2>8, <3>2, <3>3
  <2>9. CASE /\ backend \in {"sqlite", "postgres"} /\ file = None
             /\ db = [NoDb EXCEPT !.system = TRUE, !.rows = rows]
    <3>1. /\ DOMAIN db = {"system", "settings", "slot", "rows"} /\ db.slot = None
          /\ db.rows = rows /\ db.system = TRUE /\ db.settings = None
      BY <2>9, NoDbOk
    <3>2. DbOk(db) /\ Sharded(db)
      BY <2>3, <2>4, <3>1 DEF DbOk, Sharded
    <3>3. DOMAIN Src.projects = {p} /\ Src.projects[p] = Hydrated(OldRow(m))
      <4>1. Src = Hydrate(db.settings, db.rows)
        BY <2>9, <3>2 DEF Src, Source
      <4>2. DOMAIN Hydrate(db.settings, db.rows).projects = DOMAIN db.rows
        BY <3>2, HydrateOk
      <4>3. \A q \in DOMAIN db.rows :
               Hydrate(db.settings, db.rows).projects[q] = Hydrated(db.rows[q])
        BY <3>2, HydrateOk
      <4> QED
        BY <2>3, <3>1, <4>1, <4>2, <4>3
    <3> QED
      BY <2>1, <2>4, <2>5, <2>6, <2>9, <3>2, <3>3
  <2> QED
    BY <1>2, <2>7, <2>8, <2>9 DEF s, rows
<1> QED
  BY <1>1, <1>2 DEF Init

LEMMA InitKeeps ==
    ASSUME Init, Orderly PROVE IInv
<1>1. mem = NoSnapshot /\ up = FALSE /\ thread = [t \in Threads |-> Idle]
  BY DEF Init
<1>2. MemOk(mem)
  BY <1>1, NoSnapshotOk DEF MemOk
<1>3. Stores
  BY <1>1, <1>2, OldStart DEF Stores
<1>4. \A t \in Threads : thread[t].pc = "idle"
  BY <1>1 DEF Idle
<1>5. OneBusy
  BY <1>1, <1>4, IdleStageAt DEF OneBusy, Stage
<1> QED
  BY <1>1, <1>3, <1>5 DEF IInv, Served

LEMMA BareKept ==
    ASSUME IInv, Bare, [Next]_vars PROVE Bare'
<1>1. CASE UNCHANGED vars
  BY <1>1 DEF vars, Bare, Quiet
<1>2. CASE Crash
  BY <1>2 DEF Crash, Bare, NoSnapshot
<1>3. ASSUME NEW t \in Threads,
             \/ Start(t) \/ JsonLoad(t) \/ SqliteLoad(t) \/ Archive(t)
             \/ PgReadProjects(t) \/ PgReadConfigs(t) \/ PgReadPoints(t) \/ PgReadReviews(t)
             \/ PgReadLayers(t) \/ PgReadLogs(t) \/ PgDecide(t) \/ PgSave(t)
      PROVE  Bare'
  <2>1. mem' = mem
    BY <1>3, Zenon
       DEF Start, JsonLoad, SqliteLoad, Archive, PgReadProjects, PgReadConfigs, PgReadPoints,
           PgReadReviews, PgReadLayers, PgReadLogs, PgRead, PgDecide, PgSave
  <2>2. (~up /\ Quiet) \/ \E pc \in Loading : At(t, pc)
    <3>1. \/ ~up /\ Quiet
          \/ \E pc \in {"load", "archive", "configs", "points", "reviews", "layers", "logs",
                        "decide", "resave", "import"} : At(t, pc)
      BY <1>3, Zenon
         DEF Start, JsonLoad, SqliteLoad, Archive, PgReadProjects, PgReadConfigs, PgReadPoints,
             PgReadReviews, PgReadLayers, PgReadLogs, PgRead, PgDecide, PgSave
    <3> QED
      BY <3>1 DEF Loading, Carrying, Reading
  <2>3. mem.projects = Empty
    BY <2>2 DEF Bare, At
  <2> QED
    BY <2>1, <2>3 DEF Bare
<1>4. ASSUME NEW t \in Threads, Fill(t) PROVE Bare'
  <2>1. thread[t].pc = "fill" /\ Alone(t)
    BY <1>4, Busy DEF Fill, At
  <2>2. thread[t].boot \in BOOLEAN /\ up = ~thread[t].boot
    BY <2>1, Busy DEF Stage, StageAt, Loading, Carrying
  <2>3. \/ Goto(t, [pc |-> "persist"])
        \/ Goto(t, Idle) /\ (up' \/ (up' = up /\ ~thread[t].boot))
    BY <1>4, Zenon DEF Fill
  <2>4. \E x : Goto(t, x) /\ (x.pc = "persist" \/ (x.pc = "idle" /\ up'))
    <3>1. [pc |-> "persist"].pc = "persist" /\ Idle.pc = "idle"
      BY DEF Idle
    <3> QED
      BY <2>2, <2>3, <3>1
  <2>5. \/ thread'[t].pc = "persist"
        \/ thread'[t].pc = "idle" /\ up'
    BY <2>4 DEF IInv, OneBusy, Goto
  <2>6. \A s \in Threads \ {t} : thread'[s].pc = "idle"
    BY <2>1, <2>4 DEF IInv, OneBusy, Goto, Alone
  <2>7. ~up' => ~Quiet'
    BY <2>5 DEF Quiet
  <2>8. \A s \in Threads : thread'[s].pc \notin Loading
    BY <2>5, <2>6 DEF Loading, Carrying, Reading
  <2> QED
    BY <2>7, <2>8 DEF Bare
<1>5. ASSUME NEW t \in Threads, BootPersist(t) \/ SaveSettings(t) PROVE Bare'
  <2>1. thread[t].pc \in {"persist", "settings"} /\ Alone(t) /\ Goto(t, Idle)
    BY <1>5, Busy DEF BootPersist, SaveSettings, At
  <2>2. up'
    <3>1. thread[t].pc = "settings" => up
      BY <2>1, Busy DEF Stage, StageAt
    <3> QED
      BY <1>5, <3>1 DEF BootPersist, SaveSettings, At
  <2>3. \A s \in Threads : thread'[s].pc = "idle"
    BY <2>1 DEF IInv, OneBusy, Goto, Alone, Idle
  <2> QED
    BY <2>2, <2>3 DEF Bare, Loading, Carrying, Reading
<1>6. ASSUME NEW t \in Threads, ReloadClear(t) PROVE Bare'
  <2>1. mem'.projects = Empty
    BY <1>6 DEF ReloadClear, IInv, Stores, MemOk, IsSnapshot, SnapshotsOf
  <2> QED
    BY <2>1 DEF Bare
<1>7. ASSUME NEW t \in Threads, Serving(t), Locked => backend # "json", up' = up,
             \/ thread' = thread
             \/ \E x : Goto(t, x) /\ x.pc \in {"clear", "settings"}
      PROVE  Bare'
  <2>1. Quiet /\ up' /\ Alone(t)
    BY <1>7, ServedAlone DEF Serving
  <2>2. \A s \in Threads : thread'[s].pc \in {"idle", "clear", "settings"}
    BY <1>7, <2>1 DEF Quiet, IInv, OneBusy, Goto, Alone
  <2> QED
    BY <2>1, <2>2 DEF Bare, Loading, Carrying, Reading
<1>8. ASSUME NEW t \in Threads, EncodeSettings(t) PROVE Bare'
  <2> DEFINE x == [pc |-> "settings", snapshot |-> mem']
  <2>1. Serving(t) /\ ~Locked /\ up' = up /\ Goto(t, x)
    BY <1>8, Zenon DEF EncodeSettings
  <2>2. x.pc = "settings"
    OBVIOUS
  <2> HIDE DEF x
  <2> QED
    BY <1>7, <2>1, <2>2
<1>9. ASSUME NEW t \in Threads, NEW p \in Projects,
             \/ Commit(t, p) \/ SessionCreate(t, p) \/ SessionDelete(t, p)
      PROVE  Bare'
  <2>1. Serving(t) /\ ~Locked /\ up' = up /\ thread' = thread
    BY <1>9, Zenon DEF Commit, SessionCreate, SessionDelete
  <2> QED
    BY <1>7, <2>1
<1>10. ASSUME NEW t \in Threads, NEW p \in Projects, DirectCreate(t, p) \/ DirectDelete(t, p)
       PROVE  Bare'
  <2> DEFINE x == [pc |-> "clear", boot |-> FALSE]
  <2>1. Serving(t) /\ backend # "json" /\ up' = up /\ Goto(t, x)
    BY <1>10, Zenon DEF DirectCreate, DirectDelete, Reload
  <2>2. x.pc = "clear"
    OBVIOUS
  <2> HIDE DEF x
  <2> QED
    BY <1>7, <2>1, <2>2
<1> QED
  BY <1>1, <1>2, <1>3, <1>4, <1>5, <1>6, <1>8, <1>9, <1>10 DEF Next

LEMMA NextKeeps ==
    ASSUME IInv, Bare, [Next]_vars PROVE IInv' /\ NoLoss(Src, Src')
<1>1. CASE UNCHANGED vars
  <2>1. Still /\ thread' = thread
    BY <1>1 DEF vars, Still
  <2>2. Orderly' /\ Stores' /\ Src' = Src /\ NoLoss(Src, Src')
    BY <2>1, StillKeeps
  <2>3. OneBusy'
    BY <2>1, <2>2 DEF IInv, OneBusy, Stage, Still
  <2>4. Served'
    BY <2>1, <2>2 DEF IInv, Served, Still, Quiet
  <2> QED
    BY <2>2, <2>3, <2>4 DEF IInv
<1>2. CASE Crash
  BY <1>2, CrashStep
<1>3. ASSUME NEW t \in Threads, Start(t) \/ JsonLoad(t) \/ SqliteLoad(t) \/ Archive(t)
      PROVE  IInv' /\ NoLoss(Src, Src')
  BY <1>3, StartStep, JsonLoadStep, SqliteLoadStep, ArchiveStep
<1>4. ASSUME NEW t \in Threads,
             \/ PgReadProjects(t) \/ PgReadConfigs(t) \/ PgReadPoints(t) \/ PgReadReviews(t)
             \/ PgReadLayers(t) \/ PgReadLogs(t) \/ PgDecide(t) \/ PgSave(t)
      PROVE  IInv' /\ NoLoss(Src, Src')
  BY <1>4, PgReadProjectsStep, PgReadConfigsStep, PgReadPointsStep, PgReadReviewsStep,
     PgReadLayersStep, PgReadLogsStep, PgDecideStep, PgSaveStep
<1>5. ASSUME NEW t \in Threads,
             \/ Fill(t) \/ BootPersist(t)
             \/ ReloadClear(t) \/ EncodeSettings(t) \/ SaveSettings(t)
      PROVE  IInv' /\ NoLoss(Src, Src')
  BY <1>5, FillStep, BootPersistStep, ReloadClearStep, EncodeSettingsStep, SaveSettingsStep
<1>6. ASSUME NEW t \in Threads, NEW p \in Projects,
             \/ Commit(t, p)
             \/ SessionCreate(t, p) \/ SessionDelete(t, p)
             \/ DirectCreate(t, p) \/ DirectDelete(t, p)
      PROVE  IInv' /\ NoLoss(Src, Src')
  BY <1>6, CommitStep, SessionCreateStep, SessionDeleteStep, DirectCreateStep, DirectDeleteStep
<1> QED
  BY <1>1, <1>2, <1>3, <1>4, <1>5, <1>6 DEF Next

LEMMA BackendStays == [Next]_vars => backend' = backend
<1>1. CASE UNCHANGED vars
  BY <1>1 DEF vars
<1>2. CASE Crash
  BY <1>2 DEF Crash
<1>3. ASSUME NEW t \in Threads, Start(t) \/ JsonLoad(t) \/ SqliteLoad(t) \/ Archive(t)
      PROVE  backend' = backend
  BY <1>3, Zenon DEF Start, JsonLoad, SqliteLoad, Archive
<1>4. ASSUME NEW t \in Threads,
             \/ PgReadProjects(t) \/ PgReadConfigs(t) \/ PgReadPoints(t) \/ PgReadReviews(t)
             \/ PgReadLayers(t) \/ PgReadLogs(t) \/ PgDecide(t) \/ PgSave(t)
      PROVE  backend' = backend
  BY <1>4, Zenon
     DEF PgReadProjects, PgReadConfigs, PgReadPoints, PgReadReviews, PgReadLayers, PgReadLogs,
         PgRead, PgDecide, PgSave
<1>5. ASSUME NEW t \in Threads,
             \/ Fill(t) \/ BootPersist(t)
             \/ ReloadClear(t) \/ EncodeSettings(t) \/ SaveSettings(t)
      PROVE  backend' = backend
  BY <1>5, Zenon DEF Fill, BootPersist, ReloadClear, EncodeSettings, SaveSettings
<1>6. ASSUME NEW t \in Threads, NEW p \in Projects,
             \/ Commit(t, p)
             \/ SessionCreate(t, p) \/ SessionDelete(t, p)
             \/ DirectCreate(t, p) \/ DirectDelete(t, p)
      PROVE  backend' = backend
  BY <1>6, Zenon DEF Commit, SessionCreate, SessionDelete, DirectCreate, DirectDelete
<1> QED
  BY <1>1, <1>2, <1>3, <1>4, <1>5, <1>6 DEF Next

\* The inductive invariant, of the JSON store under any number of requests and
\* of the SQL stores under one request at a time.
THEOREM StoresAgree == Spec /\ Orderly => [](IInv /\ Bare)
<1>1. Init /\ Orderly => IInv /\ Bare
  <2>1. Init => Bare
    <3>1. Init => mem = NoSnapshot
      BY Zenon DEF Init
    <3>2. NoSnapshot.projects = Empty
      BY DEF NoSnapshot
    <3> QED
      BY <3>1, <3>2 DEF Bare
  <2> QED
    BY <2>1, InitKeeps
<1>2. IInv /\ Bare /\ [Next]_vars => (IInv /\ Bare)'
  BY NextKeeps, BareKept
<1> QED
  BY <1>1, <1>2, PTL DEF Spec

\* What is written is what is read.  Whatever the store (load_snapshot,
\* save_snapshot and save_project_snapshot of persistence_json, persistence_store
\* and postgres_store), whatever version wrote the projects, and wherever the
\* process was killed: once a start is done and no request is under way, another
\* start would find in every project, field by field, what memory holds, and would
\* have nothing left to migrate.
THEOREM RestartFindsMemory == Spec /\ Orderly => []RestartIsExact
<1>1. IInv => RestartIsExact
  <2> SUFFICES ASSUME IInv, up, Quiet
               PROVE  LET m == Memory(Src)
                      IN  /\ m.settings = mem.settings
                          /\ DOMAIN m.projects = DOMAIN mem.projects
                          /\ \A p \in DOMAIN m.projects :
                                Stored(m.projects[p]) = Stored(mem.projects[p])
                          /\ LET d == Decode(Src) IN \A p \in DOMAIN d : ~NeedsPersist(d[p])
    BY Zenon DEF RestartIsExact, Src
  <2> DEFINE s == Src
             m == Memory(s)
  <2>1. InMemory(mem, s) /\ mem.settings = s.settings /\ Clean(s)
    BY DEF IInv, Served, Stores
  <2>2. m.settings = s.settings /\ InMemory(m, s)
    BY SourceNow, LoadedMemory
  <2>3. \A p \in DOMAIN Decode(s) : ~NeedsPersist(Decode(s)[p])
    BY <2>1 DEF Decode, Clean, Unsettled
  <2> HIDE DEF s, m
  <2>4. /\ m.settings = mem.settings /\ DOMAIN m.projects = DOMAIN mem.projects
        /\ \A p \in DOMAIN m.projects : Stored(m.projects[p]) = Stored(mem.projects[p])
    BY <2>1, <2>2 DEF InMemory
  <2> QED
    BY <2>3, <2>4 DEF s, m
<1> QED
  BY <1>1, StoresAgree, PTL

\* A point that a request was told is stored is in what the next start would load,
\* at every moment of an import, a compaction, a migration, a reload or a save of
\* all projects, and through every crash between two of their steps.
THEOREM AcknowledgedIsStored == Spec /\ Orderly => []AckedSurvives
<1>1. IInv => AckedSurvives
  BY DEF IInv, Stores, Survives, AckedSurvives, Src
<1> QED
  BY <1>1, StoresAgree, PTL

\* No step, of a request, of a load or of a crash, brings back a deleted project or
\* a deleted point, or loses a stored one.
THEOREM DeletedStaysDeleted == Spec /\ Orderly => TombstonesStay
<1>1. IInv /\ Bare /\ [Next]_vars =>
         [LET s == Source(db, file).projects
              n == Source(db', file').projects
          IN  \A p \in DOMAIN s :
                 /\ p \in DOMAIN n
                 /\ s[p].state = "DELETED" => n[p].state = "DELETED"
                 /\ n[p].state = "ACTIVE" =>
                       \A x \in DOMAIN s[p].points :
                          /\ x \in DOMAIN n[p].points
                          /\ s[p].points[x] = "DELETED" => n[p].points[x] = "DELETED"]_vars
  <2> SUFFICES ASSUME IInv, Bare, [Next]_vars, vars' # vars
               PROVE  NoLoss(Src, Source(db', file'))
    BY Zenon DEF NoLoss, Src
  <2>1. NoLoss(Src, Src')
    BY NextKeeps
  <2>2. Src' = Source(db', file')
    BY BackendStays DEF Src, Source
  <2> QED
    BY <2>1, <2>2
<1> QED
  BY <1>1, StoresAgree, PTL DEF Spec, TombstonesStay

=============================================================================
