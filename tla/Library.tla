------------------------------ MODULE Library ------------------------------
(***************************************************************************)
(* The materials of one project: the files it studies (instances), the     *)
(* learning object forest over them, the recall points anchored in them,   *)
(* and the roll-up that mirrors the folders of the forest in the task tree *)
(* (src/backend/system/api.py, strategy LEARNING_OBJECT_ISOMORPHIC).       *)
(*                                                                         *)
(* Every call is one session that commits alone (SessionStore); collecting *)
(* a point from another project reads that project in a session of its     *)
(* own first.  Reviewing itself is ReviewEngine: a review queue that is    *)
(* not empty holds back submitting and the driver, and changes nothing     *)
(* here, so the steps of this module are those taken while it is empty or  *)
(* that do not ask.                                                        *)
(*                                                                         *)
(* The sequences of children are sets: their order is presentation.        *)
(***************************************************************************)
EXTENDS Naturals, SequencesExt

CONSTANTS
    Files, Dirs,   \* what may be found below the learning object root
    Root,          \* the learning object root, "."
    Up,            \* the folder a file or a folder is in
    Remote,        \* video files on the user's network disk
    Points,        \* recall points the project may get
    Sources,       \* recall points of another project of the subject
    Threads,       \* requests collecting a point at the same time
    Older,         \* instance identifiers: the order their text sorts in
    MaxFresh,      \* bound, per project type: identifiers it generates
    MaxScans,      \* bound: scans of the disk
    None

ASSUME LibraryAssumption ==
    /\ Root \in Dirs /\ Files \cap Dirs = {} /\ IsFiniteSet(Files \cup Dirs)
    /\ Up \in [(Files \cup Dirs) \ {Root} -> Dirs]
    /\ \E depth \in [Files \cup Dirs -> 0..Cardinality(Dirs)] :   \* a path ends
          \A x \in DOMAIN Up : depth[Up[x]] < depth[x]
    /\ MaxFresh \in [{"COURSE", "BOOK", "MISTAKE_BOOK"} -> Nat]
    /\ MaxScans \in Nat
    /\ \A i \in Files \cup 1..MaxFresh["COURSE"] : Older[i] \in Nat
    \* identifiers of one kind are not those of another
    /\ Remote \cap (Files \cup Dirs) = {}
    /\ Points \cap (Files \cup Dirs \cup Remote) = {}
    /\ \A x \in Files \cup Dirs \cup Remote \cup Points : x \notin Nat
    /\ None \notin Nat \cup Files \cup Dirs \cup Remote \cup Points \cup Sources

VARIABLES
    type,       \* ProjectType
    source,     \* source kind; MANUAL stands for DISABLED syncing as well
    scans,      \* scans so far
    fresh,      \* identifiers generated so far
    inst,       \* instances: [path, present]
    nodes,      \* learning object forest: [leaf, inst, parent, kids]
    points,     \* recall points: [active, anchor, from]
    tree,       \* task nodes: [leaf, parent, kids, orphan]
    regs,       \* entries registered for review: their layer
    origin,     \* points of the other project that are ACTIVE
    reading     \* what each collecting request has read

vars == <<type, source, scans, fresh, inst, nodes, points, tree,
          regs, origin, reading>>

library == <<type, source, scans, fresh, inst, nodes>>
study   == <<points, tree, regs>>
other   == <<origin, reading>>

With(f, x, value) == [y \in DOMAIN f \cup {x} |-> IF y = x THEN value ELSE f[y]]

-----------------------------------------------------------------------------
(* Forests: nodes and tree both store the parent in the child and the      *)
(* children in the parent.                                                 *)

\* the nodes met walking the children of n
Reach(f, n) ==
    LET walk[k \in Nat] ==
            IF k = 0 THEN {n}
            ELSE LET met == walk[k - 1]
                 IN  met \cup UNION {f[m].kids : m \in met \cap DOMAIN f}
    IN  walk[Cardinality(DOMAIN f)] \cap DOMAIN f

\* _validate_learning_object_tree_consistency and the one for task nodes,
\* whose children are of one kind
Broken(f, n) ==
    \/ \E c \in f[n].kids : c \notin DOMAIN f \/ f[c].parent # n
    \/ /\ f[n].parent # None
       /\ f[n].parent \notin DOMAIN f \/ n \notin f[f[n].parent].kids
    \/ \E c \in f[n].kids : n \in Reach(f, c)

Whole(f) == {n \in DOMAIN f : Broken(f, n)} = {}

OneKind == \A n \in DOMAIN tree : \A c, d \in tree[n].kids : tree[c].leaf = tree[d].leaf

\* covered_instance_id_sequence
Covered(f, n) ==
    LET cover[m \in DOMAIN f] ==
            IF f[m].leaf THEN {f[m].inst} ELSE UNION {cover[c] : c \in f[m].kids}
    IN  cover[n]

ObjLeaf(i, up)     == [leaf |-> TRUE, inst |-> i, parent |-> up, kids |-> {}]
ObjFolder(up, kids) == [leaf |-> FALSE, inst |-> None, parent |-> up, kids |-> kids]

Adopt(f, up, c) ==
    IF up = None THEN f ELSE [f EXCEPT ![up].kids = @ \cup {c}]

-----------------------------------------------------------------------------
(* Recall points. *)

ActiveAt(i) == {p \in DOMAIN points : points[p].active /\ points[p].anchor = i}

\* _actionable_missing_instance_ids
ActionableMissing ==
    {i \in DOMAIN inst : ~inst[i].present /\ ActiveAt(i) # {}}

\* learning_task_submit with one item, and the entry registered at layer 0
Submitted(p, i, from) ==
    /\ p \in Points \ DOMAIN points
    /\ points' = With(points, p, [active |-> TRUE, anchor |-> i, from |-> from])
    /\ tree' = With(tree, p, [leaf |-> TRUE, parent |-> None, kids |-> {}, orphan |-> FALSE])
    /\ regs' = With(regs, p, 0)

\* _validate_anchor_for_project_type; the form of a position is left out
AnchorOk(i) == i \in DOMAIN inst

SubmitLearningTask(p, i) ==
    /\ ActionableMissing = {}
    /\ AnchorOk(i)
    /\ Submitted(p, i, None)
    /\ UNCHANGED <<library, other>>

\* mark_deleted keeps the tombstone and its anchor
DeleteRecallPoint(p) ==
    /\ p \in DOMAIN points /\ points[p].active
    /\ points' = [points EXCEPT ![p].active = FALSE]
    /\ UNCHANGED <<library, tree, regs, other>>

\* edit_recall_point: a point is anchored elsewhere; update refuses a tombstone
EditRecallPoint(p, i) ==
    /\ p \in DOMAIN points /\ points[p].active
    /\ AnchorOk(i)
    /\ points' = [points EXCEPT ![p].anchor = i]
    /\ UNCHANGED <<library, tree, regs, other>>

\* mutant: only ACTIVE points keep their instance
PrunableByActive(i, ps) == \A p \in DOMAIN ps : ps[p].active => ps[p].anchor # i

\* InstanceRepository.delete refuses while any point, a tombstone too, is
\* anchored there.
Prunable(i, ps) == \A p \in DOMAIN ps : ps[p].anchor # i

\* bulk_remap_recall_points_instance, all points of from or those named
Remap(from, to, moved) ==
    /\ {from, to} \subseteq DOMAIN inst
    /\ moved \subseteq ActiveAt(from)
    /\ LET ps == [p \in DOMAIN points |->
                    IF p \in moved THEN [points[p] EXCEPT !.anchor = to]
                    ELSE points[p]]
           prune == /\ ~inst[from].present
                    /\ \A p \in DOMAIN ps : ps[p].active => ps[p].anchor # from
                    /\ Prunable(from, ps)
       IN  /\ points' = ps
           /\ inst' = IF prune THEN [i \in DOMAIN inst \ {from} |-> inst[i]]
                      ELSE inst
    /\ UNCHANGED <<type, source, scans, fresh, nodes, tree, regs, other>>

-----------------------------------------------------------------------------
(* Syncing with the disk: the scan replaces the forest, reuses the         *)
(* instance of a path, and marks the instances it did not see as missing.  *)

\* external: what a scan may find, the user's files being changed at will
OnDisk == {d \in SUBSET (Files \cup Dirs) : Root \in d /\ \A x \in d \ {Root} : Up[x] \in d}

\* the first instance with that path, or the one named after the path
InstanceOf(f) ==
    LET known == {i \in DOMAIN inst : inst[i].path = f}
    IN  IF known = {} THEN f
        ELSE CHOOSE i \in known : \A j \in known : Older[i] <= Older[j]

Scanned(files) ==
    LET owner == [f \in files |-> InstanceOf(f)]
        seen  == Range(owner)
    IN  [i \in DOMAIN inst \cup seen |->
            IF i \in seen
            THEN [path |-> CHOOSE f \in files : owner[f] = i, present |-> TRUE]
            ELSE [inst[i] EXCEPT !.present = FALSE]]

ForestOf(files, dirs) ==
    [x \in files \cup dirs |->
        LET up == IF x = Root THEN None ELSE Up[x]
        IN  IF x \in files THEN ObjLeaf(InstanceOf(x), up)
            ELSE ObjFolder(up, {c \in (files \cup dirs) \ {Root} : Up[c] = x})]

Replace(files, dirs) ==
    /\ scans < MaxScans
    /\ scans' = scans + 1
    /\ inst' = Scanned(files)
    /\ nodes' = ForestOf(files, dirs)
    /\ UNCHANGED <<type, fresh, study, other>>

\* sync_learning_objects_from_fs; also what the first call after a start runs
SyncFromFs(found) ==
    /\ type = "COURSE" /\ source = "SERVER_FS"
    /\ Replace(found \cap Files, found \cap Dirs)
    /\ UNCHANGED source

\* the folders on the way to a file: an empty folder is not reported
Ancestors(f) ==
    LET above[x \in DOMAIN Up \cup {Root}] ==
            IF x = Root THEN {} ELSE {Up[x]} \cup above[Up[x]]
    IN  above[f]

ImportBrowserScan(files) ==
    /\ type = "COURSE" /\ files # {}
    /\ Replace(files, UNION {Ancestors(f) : f \in files})
    /\ source' = "BROWSER_LOCAL"

SetSourceBinding(kind) ==
    /\ kind # source
    /\ source' = kind
    /\ UNCHANGED <<type, scans, fresh, inst, nodes, study, other>>

(* import_learning_objects_from_baidu_netdisk with one video: the import    *)
(* gets a folder of its own unless a leaf shows the video already.  There   *)
(* is at most one instance of a video, and one leaf of it: both are called  *)
(* after the video here.                                                    *)
ImportNetdisk(v) ==
    LET shown == \E n \in DOMAIN nodes : nodes[n].inst = v
    IN  /\ type = "COURSE"
        /\ fresh' = IF shown THEN fresh ELSE fresh + 1
        /\ fresh' <= MaxFresh[type]
        /\ inst' = With(inst, v, [path |-> v, present |-> TRUE])
        /\ nodes' = IF shown THEN nodes
                    ELSE With(With(nodes, fresh', ObjFolder(None, {v})), v, ObjLeaf(v, fresh'))
        /\ UNCHANGED <<type, source, scans, study, other>>

-----------------------------------------------------------------------------
(* Materials entered by hand. *)

ManualMaterials == source = "MANUAL"

Folders == {n \in DOMAIN nodes : ~nodes[n].leaf}

AddInstance(path) ==
    /\ ManualMaterials
    /\ fresh < MaxFresh[type]
    /\ fresh' = fresh + 1
    /\ inst' = With(inst, fresh', [path |-> path, present |-> TRUE])
    /\ UNCHANGED <<type, source, scans, nodes, study, other>>

AddLeaf(i, up) ==
    /\ ManualMaterials
    /\ up \in Folders \cup {None}
    /\ i \in DOMAIN inst
    /\ \A n \in DOMAIN nodes : nodes[n].inst # i
    /\ fresh < MaxFresh[type]
    /\ fresh' = fresh + 1
    /\ nodes' = With(Adopt(nodes, up, fresh'), fresh', ObjLeaf(i, up))
    /\ UNCHANGED <<type, source, scans, inst, study, other>>

\* the children leave their parents for the new folder
Gather(c, up, kids) ==
    LET moved == [n \in DOMAIN nodes |->
                    IF n \in kids THEN [nodes[n] EXCEPT !.parent = c]
                    ELSE [nodes[n] EXCEPT !.kids = @ \ kids]]
    IN  With(Adopt(moved, up, c), c, ObjFolder(up, kids))

\* The commit refuses a folder put below one of its own children, and a child
\* gathered together with its parent, which keeps it.
AddContainer(up, kids) ==
    /\ ManualMaterials
    /\ up \in (Folders \cup {None}) \ kids
    /\ kids \subseteq DOMAIN nodes
    /\ fresh < MaxFresh[type]
    /\ fresh' = fresh + 1
    /\ nodes' = Gather(fresh', up, kids) /\ Whole(nodes')
    /\ UNCHANGED <<type, source, scans, inst, study, other>>

(* initialize_book_learning_objects: an outline, as the depths of its      *)
(* items, becomes an empty project's forest.  Item k gets the identifiers  *)
(* 2k - 1 (its node) and 2k (its instance, if nothing is below it).        *)
Outlines(n) ==
    {d \in [1..n -> 0..(n - 1)] :
        d[1] = 0 /\ \A k \in 2..n : d[k] <= d[k - 1] + 1}

OutlineForest(d) ==
    LET items    == DOMAIN d
        node(k)  == 2 * k - 1
        chapter(k) == k + 1 \in items /\ d[k + 1] > d[k]
        above(k) == IF d[k] = 0 THEN None
                    ELSE Max({j \in items : j < k /\ d[j] = d[k] - 1})
        up(k)    == IF d[k] = 0 THEN None ELSE node(above(k))
    IN  [n \in {node(k) : k \in items} |->
            LET k == (n + 1) \div 2
            IN  IF chapter(k)
                THEN ObjFolder(up(k), {node(j) : j \in {x \in items : above(x) = k}})
                ELSE ObjLeaf(2 * k, up(k))]

InitializeBook(d) ==
    /\ type \in {"BOOK", "MISTAKE_BOOK"} /\ source = "MANUAL"
    /\ inst = <<>> /\ nodes = <<>> /\ fresh = 0
    /\ \E n \in 1..(MaxFresh[type] \div 2) : d \in Outlines(n)
    /\ fresh' = 2 * Len(d)
    /\ nodes' = OutlineForest(d)
    /\ inst' = [i \in {nodes'[n].inst : n \in DOMAIN nodes'} \ {None} |->
                  [path |-> i, present |-> TRUE]]
    /\ UNCHANGED <<type, source, scans, study, other>>

\* The outline another material of the subject has: its forest read depth first,
\* where a folder that is empty becomes an item like any other.
Flattened(forest) ==
    LET visit[n \in DOMAIN forest] ==
            LET kids  == SetToSeq(forest[n].kids)
                below == FlattenSeq([i \in DOMAIN kids |-> visit[kids[i]]])
            IN  <<0>> \o [i \in DOMAIN below |-> below[i] + 1]
        roots == SetToSeq({n \in DOMAIN forest : forest[n].parent = None})
    IN  FlattenSeq([i \in DOMAIN roots |-> visit[roots[i]]])

\* a book takes its outline from a course, a mistake book from a book as well
Materials ==
    {ForestOf(found \cap Files, found \cap Dirs) : found \in OnDisk}
    \cup (IF type = "MISTAKE_BOOK"
          THEN UNION {{OutlineForest(d) : d \in Outlines(n)} : n \in 1..(MaxFresh[type] \div 2)}
          ELSE {})

InitializeBookFromMaterial(forest) == InitializeBook(Flattened(forest))

-----------------------------------------------------------------------------
(* A mistake book collects points of the other projects of its subject.    *)

\* any change of the other project
OriginDeletes(s) ==
    /\ type = "MISTAKE_BOOK"
    /\ s \in origin
    /\ origin' = origin \ {s}
    /\ UNCHANGED <<library, study, reading>>

ReadOrigin(t, s) ==
    /\ type = "MISTAKE_BOOK"
    /\ reading[t] = None
    /\ s \in origin
    /\ reading' = [reading EXCEPT ![t] = s]
    /\ UNCHANGED <<library, study, origin>>

\* mutant: a copy already collected is not looked for
NeverCollected(s) == FALSE

Collected(s) == \E p \in DOMAIN points : points[p].active /\ points[p].from = s

GiveUp(t) ==
    /\ reading[t] # None
    /\ Collected(reading[t])
    /\ reading' = [reading EXCEPT ![t] = None]
    /\ UNCHANGED <<library, study, origin>>

Inbox ==
    /\ fresh + 2 <= MaxFresh[type]
    /\ fresh' = fresh + 2
    /\ inst' = With(inst, fresh + 1, [path |-> fresh + 1, present |-> TRUE])
    /\ nodes' = With(nodes, fresh + 2, ObjLeaf(fresh + 1, None))
    /\ UNCHANGED <<type, source, scans>>

\* _ensure_mistake_inbox_leaf_in_session makes the inbox unless a leaf has its
\* title.  Titles are left out: whether one of the leaves there has it is open.
EnsureInbox ==
    /\ type = "MISTAKE_BOOK" /\ ManualMaterials
    /\ Inbox
    /\ UNCHANGED <<study, other>>

\* collecting asks for the inbox only where there is no leaf at all
WithInbox ==
    IF \E n \in DOMAIN nodes : nodes[n].leaf THEN UNCHANGED library ELSE Inbox

\* the second session of collect; the review queue may be busy and instances
\* may be missing
Collect(t, p) ==
    /\ reading[t] # None
    /\ ~Collected(reading[t])
    /\ WithInbox
    /\ \E n \in DOMAIN nodes' :
          nodes'[n].leaf /\ Submitted(p, nodes'[n].inst, reading[t])
    /\ reading' = [reading EXCEPT ![t] = None]
    /\ UNCHANGED origin

-----------------------------------------------------------------------------
(* The driver's scan: folders whose instances all have an ACTIVE point are *)
(* mirrored in the task tree, and registered one per session, lowest first.*)

Mirrors == {n \in DOMAIN tree : ~tree[n].leaf}

Eligible(n) ==
    LET cover == Covered(nodes, n)
    IN  ~nodes[n].leaf /\ cover # {} /\ \A i \in cover : ActiveAt(i) # {}

Level ==
    LET level[n \in DOMAIN nodes] ==
            IF nodes[n].leaf \/ Covered(nodes, n) = {} THEN 0
            ELSE 1 + Max({0} \cup {level[c] : c \in nodes[n].kids})
    IN  level

\* a mirror whose folder is gone keeps its parent and its children
MirrorsMade ==
    [n \in DOMAIN tree \cup {m \in DOMAIN nodes : Eligible(m)} |->
        IF n \notin DOMAIN tree
        THEN [leaf |-> FALSE, parent |-> None, kids |-> {}, orphan |-> FALSE]
        ELSE IF tree[n].leaf THEN tree[n]
        ELSE [tree[n] EXCEPT !.orphan = n \notin DOMAIN nodes]]

\* mutant: only the children are relinked
LinkedDown ==
    LET made  == MirrorsMade
        shown == {n \in DOMAIN made \cap DOMAIN nodes : ~made[n].leaf}
    IN  [n \in DOMAIN made |->
            IF n \in shown
            THEN [made[n] EXCEPT !.kids = nodes[n].kids \cap shown]
            ELSE made[n]]

\* every mirror of a folder that exists follows the object forest
Linked ==
    LET made  == MirrorsMade
        shown == {n \in DOMAIN made \cap DOMAIN nodes : ~made[n].leaf}
        up[n \in DOMAIN nodes] ==
            LET p == nodes[n].parent
            IN  IF p = None \/ p \in shown THEN p ELSE up[p]
        down[n \in DOMAIN nodes] ==
            UNION {IF c \in shown THEN {c} ELSE down[c] : c \in nodes[n].kids}
    IN  [n \in DOMAIN made |->
            IF n \in shown
            THEN [made[n] EXCEPT !.parent = up[n], !.kids = down[n]]
            ELSE made[n]]

ScanRuns == ActionableMissing = {} /\ nodes # <<>>

Waiting == {n \in DOMAIN nodes : Eligible(n) /\ n \notin DOMAIN regs}

\* mutant: in any order
NextFoldersAny == Waiting

\* registering needs the points the mirror covers, read from a whole tree
NextFolders ==
    LET waiting == Waiting
        level   == Level
    IN  {n \in waiting : \A m \in waiting : level[n] <= level[m]}

RegisterFolder ==
    /\ ScanRuns
    /\ \E n \in NextFolders : regs' = With(regs, n, Level[n])
    /\ tree' = Linked
    /\ Whole(tree')
    /\ UNCHANGED <<library, points, other>>

\* Nothing to register: the session goes on to a tick of the engine, and
\* commits the links with it.
TickAfterScan ==
    /\ ScanRuns
    /\ Waiting = {}
    /\ tree' = Linked
    /\ Whole(tree')
    /\ UNCHANGED <<library, points, regs, other>>

-----------------------------------------------------------------------------
(* What is below a node, as the memory store and the SQL store answer it.  *)

ObjectPoints(n) == UNION {ActiveAt(i) : i \in Covered(nodes, n)}

\* the index rows walked by a stack
SqlObjectPoints(n) ==
    LET leaves == {m \in Reach(nodes, n) : nodes[m].leaf}
    IN  UNION {ActiveAt(nodes[m].inst) : m \in leaves}

\* covered_rp_ids
TaskPoints(n) ==
    LET below[m \in DOMAIN tree] ==
            IF tree[m].leaf THEN {p \in {m} : points[p].active}
            ELSE IF m \in DOMAIN nodes THEN ObjectPoints(m)
            ELSE UNION {below[c] : c \in tree[m].kids}
    IN  below[n]

\* mutant: a mirror is answered by its task nodes
SqlTaskPointsByKids(n) ==
    {p \in Reach(tree, n) : tree[p].leaf /\ points[p].active}

\* a mirror is answered by its object node alone
SqlTaskPoints(n) ==
    IF tree[n].leaf THEN {p \in {n} : points[p].active}
    ELSE IF n \in DOMAIN nodes THEN SqlObjectPoints(n) ELSE {}

-----------------------------------------------------------------------------
Init ==
    /\ type \in DOMAIN MaxFresh
    /\ source = IF type = "COURSE" THEN "SERVER_FS" ELSE "MANUAL"
    /\ scans = 0 /\ fresh = 0 /\ inst = <<>> /\ nodes = <<>>
    /\ points = <<>> /\ tree = <<>> /\ regs = <<>>
    /\ origin = Sources /\ reading = [t \in Threads |-> None]

Next ==
    \/ \E found \in OnDisk : SyncFromFs(found)
    \/ \E files \in SUBSET Files : ImportBrowserScan(files)
    \/ \E v \in Remote : ImportNetdisk(v)
    \/ \E kind \in {"SERVER_FS", "MANUAL"} : type = "COURSE" /\ SetSourceBinding(kind)
    \/ \E path \in Files \cup {fresh + 1} : AddInstance(path)
    \/ \E i \in DOMAIN inst, up \in DOMAIN nodes \cup {None} : AddLeaf(i, up)
    \/ /\ ManualMaterials /\ fresh < MaxFresh[type]
       /\ \E up \in Folders \cup {None}, kids \in SUBSET DOMAIN nodes : AddContainer(up, kids)
    \/ \E n \in 1..(MaxFresh[type] \div 2) :
          \E d \in [1..n -> 0..(n - 1)] : InitializeBook(d)
    \/ \E forest \in Materials : InitializeBookFromMaterial(forest)
    \/ \E s \in Sources : OriginDeletes(s)
    \/ \E t \in Threads, s \in Sources : ReadOrigin(t, s)
    \/ \E t \in Threads : GiveUp(t)
    \/ EnsureInbox
    \/ \E t \in Threads, p \in Points : Collect(t, p)
    \/ \E p \in Points, i \in DOMAIN inst : SubmitLearningTask(p, i)
    \/ \E p \in Points : DeleteRecallPoint(p)
    \/ \E p \in Points, i \in DOMAIN inst : EditRecallPoint(p, i)
    \/ \E from, to \in DOMAIN inst : \E moved \in SUBSET ActiveAt(from) :
          Remap(from, to, moved)
    \/ RegisterFolder
    \/ TickAfterScan

Spec == Init /\ [][Next]_vars

-----------------------------------------------------------------------------
(* Properties. *)

\* Every recall point, tombstones included, is anchored at an instance the project
\* still has: InstanceRepository.delete refuses one that is used
\* (inmemory_system.py:612).
PointsAreAnchored == \A p \in DOMAIN points : points[p].anchor \in DOMAIN inst

\* Whatever scans, entries by hand, outlines, points and remaps come in any order,
\* every recall point has its instance, no operation leaves a forest its own validator
\* would refuse (api.py:4898), and no two leaves show the same instance.
ProjectIsWhole ==
    /\ PointsAreAnchored
    /\ Whole(nodes) /\ Whole(tree) /\ OneKind
    /\ \A m, n \in DOMAIN nodes :
          nodes[m].leaf /\ nodes[m].inst = nodes[n].inst => m = n

\* The driver can go on unless a mirror whose folder is gone is linked with
\* a mirror whose folder is there (api.py:3692, 3790).
StuckByLostFoldersOnly ==
    ScanRuns /\ ~Whole(Linked) =>
        \E m \in Mirrors \ DOMAIN nodes, n \in Mirrors \cap DOMAIN nodes :
            tree[m].parent = n \/ tree[n].parent = m \/ n \in tree[m].kids

\* A folder is registered after every folder below it that still holds
\* instances, and on a higher layer than those of them registered in this
\* shape of the forest.
FoldersRollUpInOrder ==
    [][\A n \in DOMAIN regs' \ DOMAIN regs : ~tree'[n].leaf =>
          /\ \A i \in Covered(nodes, n) : ActiveAt(i) # {}
          /\ \A c \in tree'[n].kids : Covered(nodes, c) # {} => c \in DOMAIN regs]_vars

\* The memory store and the SQL store answer the same points below every node,
\* unless its folder is gone and it kept a mirror whose folder is there
\* (persistence_store.py:3404, inmemory_system.py:1297).
QueriesAgree ==
    /\ \A n \in DOMAIN nodes : ObjectPoints(n) = SqlObjectPoints(n)
    /\ \A n \in DOMAIN tree :
          \/ TaskPoints(n) = SqlTaskPoints(n)
          \/ n \notin DOMAIN nodes /\ Reach(tree, n) \cap DOMAIN nodes # {}

\* A mistake book holds at most one ACTIVE copy of a point, although the source and
\* the target of a collection are read in different sessions (api.py:4654).
CollectedOnce ==
    \A p, q \in DOMAIN points :
        /\ points[p].active /\ points[q].active
        /\ points[p].from = points[q].from /\ points[p].from # None
        => p = q

\* "Whenever the instances below an object node all have active recall points,
\* the system pushes it to its layer" (RollupPane.tsx:190).
WholeFoldersRollUp == ScanRuns /\ Waiting # {} => Whole(Linked)
=============================================================================
