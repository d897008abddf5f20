--------------------------- MODULE SubjectsProofs ---------------------------
(***************************************************************************)
(* Theorems about Subjects: what a call that fails or meets another one    *)
(* can leave behind.                                                       *)
(*                                                                         *)
(* The argument is an accounting.  Bad is what would be left behind if     *)
(* the calls at work went on undisturbed; Load adds the projects that a    *)
(* creation has in hand, and Others the calls that have none.  As long as  *)
(* something is at work, Load and Others together are one more than the    *)
(* faults and overlaps at most: a call that begins joins Others at the     *)
(* price of an overlap, a creation moves from Others to Load, a fault is   *)
(* worth one entry.  A call spoils the project another one holds only      *)
(* while it is itself in Others.                                           *)
(***************************************************************************)
EXTENDS Subjects, FiniteSetTheorems, WellFoundedInduction, NaturalsInduction,
        SequenceTheorems, TLAPS

-----------------------------------------------------------------------------
(* Who holds what. *)

Known == 1..created

Busy == {t \in Threads : calls[t].step # "idle"}

Creating(t) == calls[t].kind \in {"subject", "project", "material"}

\* A creation holds the project it has made.
Holding(t) == Creating(t) /\ calls[t].step \notin {"idle", "create"}
Hands == {calls[t].project : t \in {u \in Threads : Holding(u)}}
Others == {t \in Busy : ~Holding(t)}

ListedBy(c) == {p \in Ids : c \in Children(p)}
Orphan(c) == Active(c) /\ projects[c].link # None /\ projects[c].link \notin ListedBy(c)
Linking(t, c) == calls[t].step = "link" /\ calls[t].project = c

\* A project that materials may belong to.
Root(p) ==
    /\ p \in Known
    /\ projects[p].link = None
    /\ ListedBy(p) = {}
    /\ p \notin Hands

Item(t, i, op, p) ==
    /\ i \in DOMAIN calls[t].work
    /\ calls[t].work[i].op = op /\ calls[t].work[i].project = p

-----------------------------------------------------------------------------
(* What would be left behind. *)

\* Listed where it does not belong, unless its creator is about to link it.
Misplaced(c) ==
    \E p \in Ids :
      /\ c \in Children(p)
      /\ ~ /\ Active(c)
           /\ projects[c].link = p \/ \E t \in Threads : Linking(t, c)

\* Listed, and a call is going to delete it without taking it off the list.
Doomed(c) ==
    /\ ListedBy(c) # {}
    /\ \E t \in Threads : \E i \in DOMAIN calls[t].work :
         Item(t, i, "delete", c) /\ ~Item(t, 1, "unlink", c)

\* Listed by a subject that a call is going to delete without it.
Overlooked(c) ==
    \E p \in ListedBy(c), t \in Threads : \E i \in DOMAIN calls[t].work :
      /\ Item(t, i, "delete", p)
      /\ \A j \in DOMAIN calls[t].work : j < i => calls[t].work[j].project # c

\* No longer listed, and no call is about to delete it.
Stray(c) == Orphan(c) /\ \A t \in Threads : ~Item(t, 1, "delete", c)

\* In use, not its creator's, and no call is about to make it so.
Unseen(c) == Active(c) /\ c \notin owned /\ ~Orphan(c) /\ c \notin Hands

\* About to be linked to a subject that is gone.
Stranded(c) ==
    /\ Active(c)
    /\ \E t \in Threads, p \in Ids : Linking(t, c) /\ calls[t].subject = p /\ ~Active(p)

\* Gone, and its creator is still going to list it.
Lost(c) == ~Active(c) /\ \E t \in Threads : calls[t].step = "add" /\ calls[t].project = c

Bad == {c \in Ids : \/ Misplaced(c) \/ Doomed(c) \/ Overlooked(c)
                    \/ Stray(c) \/ Unseen(c) \/ Stranded(c) \/ Lost(c)}

Load == Bad \cup Hands

Accounts ==
    /\ Cardinality(Bad) <= faults + overlaps
    /\ Busy # {} => Cardinality(Load) + Cardinality(Others) <= faults + overlaps + 1
    /\ IsFiniteSet(Others)

-----------------------------------------------------------------------------
(* How the projects and the calls fit together. *)

Maps == UNION {[S -> Titles \cup {None}] : S \in SUBSET Ids}
Kinds == {None, "subject", "project", "material", "delete", "edit"}
Steps == {"idle", "create", "stock", "add", "link", "own", "undo",
          "delete", "forget", "title", "retitle"}
ProjectType == [state : {"absent", "active", "deleted"}, title : Titles \cup {None},
                link : Ids \cup {None}, materials : Maps]
ItemType == [op : {"visit", "unlink", "delete"}, project : Ids, subject : Ids \cup {None}]
CallType == [kind : Kinds, step : Steps, subject : Ids \cup {None},
             project : Ids \cup {None}, title : Titles \cup {None},
             related : SUBSET Ids, work : Seq(ItemType)]

TypeOk ==
    /\ projects \in [Ids -> ProjectType]
    /\ created \in 0..MaxProjects
    /\ owned \subseteq Ids
    /\ calls \in [Threads -> CallType]
    /\ faults \in Nat
    /\ overlaps \in Nat

\* The steps of each kind of call.
Stepwise(t) ==
    LET kind == calls[t].kind
        step == calls[t].step
    IN  \/ step = "idle"
        \/ kind = "subject"  /\ step \in {"create", "stock", "own", "undo"}
        \/ kind = "project"  /\ step \in {"create", "own"}
        \/ kind = "material" /\ step \in {"create", "add", "link", "own", "undo"}
        \/ kind = "delete"   /\ step \in {"delete", "forget"}
        \/ kind = "edit"     /\ step \in {"title", "retitle"}

\* A list belongs to a project in use, a link leads to the subject that lists it.
ProjectsFit ==
    /\ \A p \in Ids : p \notin Known => projects[p] = Absent
    /\ \A p \in Ids : ~Active(p) => Children(p) = {} /\ projects[p].link = None
    /\ \A p \in Ids : Children(p) # {} => Root(p)
    /\ \A p \in Ids : Children(p) \subseteq Known
    /\ \A p, s \in Ids : projects[p].link = s => Root(s)
    /\ \A p, c \in Ids : c \in Children(p) /\ projects[c].link # None => projects[c].link = p
    /\ owned \subseteq Known
    /\ \A p \in owned : Active(p) /\ projects[p].link = None => Root(p)

\* What a creation holds is its own, and not yet its owner's.
CreationFits(t) ==
    /\ Holding(t) => calls[t].project \in Known
    /\ \A c \in Ids : Holding(t) /\ calls[t].project = c =>
         /\ Active(c) => c \notin owned
         /\ \A u \in Threads : Holding(u) /\ calls[u].project = c => u = t
         /\ calls[t].kind # "material" \/ calls[t].step = "add" => ListedBy(c) = {}
         /\ calls[t].kind # "material" \/ calls[t].step # "own" => projects[c].link = None
         /\ calls[t].step = "undo" =>
              /\ \A i \in DOMAIN calls[t].work : calls[t].work[i].project = c
              /\ calls[t].work = <<>> => ~Active(c)

\* A material has a subject, and is on its list when it is linked to it.
MaterialFits(t) ==
    calls[t].kind = "material" /\ calls[t].step # "idle" =>
      /\ calls[t].subject \in Ids
      /\ \A s \in Ids : calls[t].subject = s => Root(s)
      /\ \A c, s \in Ids : calls[t].project = c /\ calls[t].subject = s =>
           /\ calls[t].step = "link" =>
                /\ ListedBy(c) \subseteq {s}
                /\ Active(s) /\ Active(c) => c \in Children(s)
           /\ calls[t].step = "own" /\ Active(c) => projects[c].link = s

\* What is left of a deletion.
WorkFits(t) ==
    /\ calls[t].work # <<>> => calls[t].step \in {"delete", "undo"}
    /\ \A i \in DOMAIN calls[t].work :
         /\ calls[t].work[i].project \in Known
         /\ \A p \in Ids : Item(t, i, "unlink", p) =>
              /\ i = 1
              /\ calls[t].work[i].subject \in Ids
              /\ Active(p) => projects[p].link = calls[t].work[i].subject
              /\ Item(t, 2, "delete", p)

\* A project whose membership a deletion is going to remove is gone or no longer
\* listed by then.
Settled(t, r) ==
    \/ ~Active(r)
    \/ Orphan(r)
    \/ \E i \in DOMAIN calls[t].work :
         \/ calls[t].work[i].project = r
         \/ \E p \in Ids : Item(t, i, "visit", p) /\ (~Active(p) \/ r \in Children(p))

DeletionFits(t) ==
    calls[t].step \in {"delete", "forget"} =>
      /\ calls[t].related # {}
      /\ calls[t].related \subseteq Known
      /\ \A r \in calls[t].related : Settled(t, r)

CallFits(t) ==
    /\ Stepwise(t)
    /\ calls[t].step \in {"title", "retitle"} => calls[t].project \in Known
    /\ calls[t].step = "retitle" => calls[t].subject # None
    /\ CreationFits(t)
    /\ MaterialFits(t)
    /\ WorkFits(t)
    /\ DeletionFits(t)

Structure == TypeOk /\ ProjectsFit /\ \A t \in Threads : CallFits(t)

\* As long as no call has met another.
Alone == overlaps = 0 => \A t, u \in Busy : t = u

\* As long as nothing has gone wrong, a title in a list is that of the project,
\* but for the call that is about to write it.
TitlesAgree ==
    overlaps = 0 =>
      /\ \A t \in Threads :
           LET p == projects[calls[t].project] IN
           /\ calls[t].step = "title" => calls[t].subject = p.link
           /\ calls[t].step \in {"add", "retitle"} => calls[t].title = p.title
      /\ faults = 0 =>
           \A p \in Ids : \A c \in Children(p) :
             \/ projects[p].materials[c] = projects[c].title
             \/ \E t \in Threads : /\ calls[t].step = "retitle" /\ calls[t].project = c
                                   /\ calls[t].subject = p /\ calls[t].title = projects[c].title

IInv == Structure /\ Accounts /\ Alone /\ TitlesAgree

-----------------------------------------------------------------------------
(* Types. *)

LEMMA NoneFacts == None \notin Ids /\ None \notin Titles
  BY SubjectsAssumption DEF Ids

LEMMA EmptyMap == <<>> \in Maps /\ DOMAIN <<>> = {}
<1>1. <<>> \in [{} -> Titles \cup {None}]
  OBVIOUS
<1>2. {} \in SUBSET Ids
  OBVIOUS
<1> QED
  BY <1>1, <1>2 DEF Maps

\* A material put on a list.
LEMMA WithFacts ==
    ASSUME NEW f \in Maps, NEW c \in Ids, NEW title \in Titles \cup {None}
    PROVE  /\ With(f, c, title) \in Maps
           /\ DOMAIN With(f, c, title) = DOMAIN f \cup {c}
           /\ With(f, c, title)[c] = title
           /\ \A x \in DOMAIN f : x # c => With(f, c, title)[x] = f[x]
<1>1. PICK S \in SUBSET Ids : f \in [S -> Titles \cup {None}]
  BY DEF Maps
<1>2. With(f, c, title) \in [S \cup {c} -> Titles \cup {None}] /\ DOMAIN f = S
  BY <1>1 DEF With
<1>3. S \cup {c} \in SUBSET Ids
  BY <1>1
<1>4. With(f, c, title) \in Maps
  BY <1>2, <1>3 DEF Maps
<1> QED
  BY <1>2, <1>4 DEF With

\* A material taken off a list.
LEMMA WithoutFacts ==
    ASSUME NEW f \in Maps, NEW c
    PROVE  /\ Without(f, c) \in Maps
           /\ DOMAIN Without(f, c) = DOMAIN f \ {c}
           /\ \A x \in DOMAIN f : x # c => Without(f, c)[x] = f[x]
<1>1. PICK S \in SUBSET Ids : f \in [S -> Titles \cup {None}]
  BY DEF Maps
<1>2. Without(f, c) \in [S \ {c} -> Titles \cup {None}] /\ DOMAIN f = S
  BY <1>1 DEF Without
<1>3. S \ {c} \in SUBSET Ids
  BY <1>1
<1>4. Without(f, c) \in Maps
  BY <1>2, <1>3 DEF Maps
<1> QED
  BY <1>2, <1>4 DEF Without

LEMMA TypeFacts ==
    ASSUME TypeOk
    PROVE  /\ \A p \in Ids : projects[p] \in ProjectType /\ Children(p) \subseteq Ids
           /\ \A p \in Ids : projects[p].materials \in Maps
           /\ \A t \in Threads : calls[t] \in CallType
           /\ Known \subseteq Ids /\ created \in Nat
<1>1. \A p \in Ids : projects[p] \in ProjectType
  BY DEF TypeOk
<1>2. \A p \in Ids : projects[p].materials \in Maps
  BY <1>1 DEF ProjectType
<1>3. \A m \in Maps : DOMAIN m \subseteq Ids
  BY DEF Maps
<1>4. Known \subseteq Ids /\ created \in Nat
  BY SubjectsAssumption DEF TypeOk, Known, Ids
<1> QED
  BY <1>1, <1>2, <1>3, <1>4 DEF TypeOk, Children

\* list is what the materials of s become when c is put among them.
Lists(list, s, c, title) == list = With(projects[s].materials, c, title)
Listed(list, s, c, title) ==
    /\ list \in Maps /\ DOMAIN list = Children(s) \cup {c} /\ list[c] = title
    /\ \A d \in Children(s) : d # c => list[d] = projects[s].materials[d]

LEMMA ListFacts ==
    ASSUME TypeOk, NEW s \in Ids, NEW c \in Ids, NEW title \in Titles \cup {None},
           NEW list, Lists(list, s, c, title)
    PROVE  Listed(list, s, c, title)
<1>1. PICK m \in Maps : m = projects[s].materials
  BY TypeFacts
<1>2. DOMAIN m = Children(s)
  BY <1>1 DEF Children
<1>3. /\ With(m, c, title) \in Maps
      /\ DOMAIN With(m, c, title) = DOMAIN m \cup {c}
      /\ With(m, c, title)[c] = title
      /\ \A x \in DOMAIN m : x # c => With(m, c, title)[x] = m[x]
  BY WithFacts
<1>4. list = With(m, c, title)
  BY <1>1 DEF Lists
<1> QED
  BY <1>1, <1>2, <1>3, <1>4 DEF Listed

-----------------------------------------------------------------------------
(* What a step does to the call that takes it. *)

Only(t) == \A u \in Threads : u # t => calls'[u] = calls[u]

\* The call of t becomes c.
Becomes(t, c) == /\ c \in CallType
                 /\ calls' = [calls EXCEPT ![t] = c]

LEMMA BecomesFacts ==
    ASSUME TypeOk, NEW t \in Threads, NEW c, Becomes(t, c)
    PROVE  calls' \in [Threads -> CallType] /\ calls'[t] = c /\ Only(t)
  BY DEF TypeOk, Becomes, Only

LEMMA NoWork == <<>> \in Seq(ItemType)
  OBVIOUS

LEMMA IdleType == Idle \in CallType
  BY DEF Idle, CallType, Kinds, Steps

LEMMA FinishFacts ==
    ASSUME TypeOk, NEW t \in Threads, Finish(t)
    PROVE  calls' \in [Threads -> CallType] /\ calls'[t] = Idle /\ Only(t)
<1>1. Becomes(t, Idle)
  BY IdleType DEF Becomes, Finish
<1> QED
  BY <1>1, BecomesFacts

LEMMA GotoFacts ==
    ASSUME TypeOk, NEW t \in Threads, NEW step \in Steps, Goto(t, step)
    PROVE  /\ calls' \in [Threads -> CallType] /\ Only(t)
           /\ calls'[t].step = step /\ calls'[t].kind = calls[t].kind
           /\ calls'[t].subject = calls[t].subject /\ calls'[t].project = calls[t].project
           /\ calls'[t].title = calls[t].title /\ calls'[t].related = calls[t].related
           /\ calls'[t].work = calls[t].work
<1> DEFINE c == [calls[t] EXCEPT !.step = step]
<1>1. calls[t] \in CallType
  BY TypeFacts
<1>2. /\ c \in CallType /\ c.step = step /\ c.kind = calls[t].kind
      /\ c.subject = calls[t].subject /\ c.project = calls[t].project
      /\ c.title = calls[t].title /\ c.related = calls[t].related /\ c.work = calls[t].work
  BY <1>1 DEF CallType
<1>3. calls' = [calls EXCEPT ![t] = c]
  BY DEF Goto
<1> HIDE DEF c
<1> QED
  BY <1>2, <1>3, BecomesFacts DEF Becomes

LEMMA VisitType == \A p \in Ids : Visit(p) \in ItemType
  BY DEF Visit, ItemType

LEMMA WorkOnlyFacts ==
    ASSUME TypeOk, NEW t \in Threads, NEW work \in Seq(ItemType),
           calls' = [calls EXCEPT ![t].work = work]
    PROVE  /\ calls' \in [Threads -> CallType] /\ Only(t)
           /\ calls'[t].step = calls[t].step /\ calls'[t].kind = calls[t].kind
           /\ calls'[t].subject = calls[t].subject /\ calls'[t].project = calls[t].project
           /\ calls'[t].title = calls[t].title /\ calls'[t].related = calls[t].related
           /\ calls'[t].work = work
<1> DEFINE c == [calls[t] EXCEPT !.work = work]
<1>1. calls[t] \in CallType
  BY TypeFacts
<1>2. /\ c \in CallType /\ c.step = calls[t].step /\ c.kind = calls[t].kind
      /\ c.subject = calls[t].subject /\ c.project = calls[t].project
      /\ c.title = calls[t].title /\ c.related = calls[t].related /\ c.work = work
  BY <1>1 DEF CallType
<1>3. calls' = [calls EXCEPT ![t] = c]
  BY DEF TypeOk
<1> HIDE DEF c
<1> QED
  BY <1>2, <1>3, BecomesFacts DEF Becomes

-----------------------------------------------------------------------------
(* What a step may do to the projects, and what that leaves as it was. *)

\* Projects are never revived, only the creator of a project lists and links it,
\* what is taken off a list in use is linked to it, and only a creation makes an
\* owner.
Moves(t) ==
    /\ Only(t)
    /\ created' >= created
    /\ \A p \in Known : Active(p)' => Active(p)
    /\ \A p \in Known : projects[p].link # None /\ Active(p)' =>
          projects'[p].link = projects[p].link
    /\ \A p \in Ids : projects[p].link = None /\ projects'[p].link # None =>
          Linking(t, p) /\ projects'[p].link = calls[t].subject
    /\ \A p, c \in Ids : c \in Children(p)' /\ c \notin Children(p) =>
          calls[t].step = "add" /\ calls[t].project = c /\ calls[t].subject = p
    /\ \A p, c \in Ids : c \in Children(p) /\ c \notin Children(p)' /\ Active(p)' /\ Active(c)' =>
          projects[c].link = p
    /\ \A p \in owned' : p \notin owned => calls[t].step = "own" /\ calls[t].project = p
    /\ Holding(t)' => \/ Holding(t) /\ calls'[t].project = calls[t].project
                      \/ calls'[t].project \notin Known
    /\ calls[t].step = "own" => ~Holding(t)'
    /\ \A p \in Ids : p \notin Known' => projects'[p] = Absent
    /\ \A p \in Ids : ~Active(p)' => Children(p)' = {} /\ projects'[p].link = None
    /\ \A p \in Ids : Children(p)' \subseteq Known'

\* The steps of a creation that has a project.
LEMMA HoldingSteps ==
    ASSUME Structure, NEW t \in Threads
    PROVE  /\ calls[t].step \in {"stock", "add", "link", "own", "undo"} => Holding(t)
           /\ calls[t].step \in {"add", "link"} => calls[t].kind = "material"
           /\ calls[t].step \in {"idle", "create", "delete", "forget", "title", "retitle"} =>
                ~Holding(t)
<1>1. Stepwise(t)
  BY DEF Structure, CallFits
<1> QED
  BY <1>1 DEF Stepwise, Holding, Creating

LEMMA KnownGrows ==
    ASSUME Structure, NEW t \in Threads, Moves(t), TypeOk'
    PROVE  Known \subseteq Known' /\ Known \subseteq Ids /\ Known' \subseteq Ids
<1>1. created \in 0..MaxProjects /\ created' \in 0..MaxProjects /\ created' >= created
  BY DEF Structure, TypeOk, Moves
<1> QED
  BY <1>1, SubjectsAssumption DEF Known, Ids

\* A root stays one: only new projects become materials.
LEMMA RootStays ==
    ASSUME Structure, NEW t \in Threads, Moves(t), TypeOk', NEW p, Root(p)
    PROVE  Root(p)'
<1>1. p \in Known /\ p \in Ids /\ p \in Known'
  BY KnownGrows DEF Root
<1>2. ~Holding(t) \/ calls[t].project # p
  BY DEF Root, Hands
<1>3. projects'[p].link = None
  BY <1>1, <1>2, HoldingSteps DEF Root, Moves, Linking
<1>4. ASSUME NEW q \in Ids, p \in Children(q)' PROVE FALSE
  <2>1. p \notin Children(q)
    BY DEF Root, ListedBy
  <2> QED
    BY <1>1, <1>2, <1>4, <2>1, HoldingSteps DEF Moves
<1>5. ASSUME NEW u \in Threads, Holding(u)', calls'[u].project = p PROVE FALSE
  <2>1. CASE u = t
    BY <1>1, <1>2, <1>5, <2>1 DEF Moves
  <2>2. CASE u # t
    BY <1>5, <2>2 DEF Moves, Only, Holding, Creating, Root, Hands
  <2> QED
    BY <2>1, <2>2
<1> QED
  BY <1>1, <1>3, <1>4, <1>5 DEF Root, ListedBy, Hands

LEMMA ProjectsStay ==
    ASSUME Structure, NEW t \in Threads, Moves(t), TypeOk'
    PROVE  ProjectsFit'
<1>0. /\ ProjectsFit /\ CreationFits(t) /\ MaterialFits(t)
      /\ calls[t].step \in {"add", "link"} =>
           calls[t].subject \in Ids /\ Root(calls[t].subject)
  BY HoldingSteps DEF Structure, CallFits, MaterialFits
<1>1. \A p : Root(p) => Root(p)'
  BY RootStays
<1>2. Known \subseteq Known' /\ Known \subseteq Ids /\ Known' \subseteq Ids
  BY KnownGrows
<1>3. ASSUME NEW p \in Ids, Children(p)' # {} PROVE Root(p)'
  <2>1. CASE Children(p) # {}
    BY <1>0, <1>1, <2>1 DEF ProjectsFit
  <2>2. CASE Children(p) = {}
    <3>1. PICK c : c \in Children(p)'
      BY <1>3
    <3>2. c \in Ids
      BY <1>2, <3>1 DEF Moves
    <3>3. calls[t].step = "add" /\ calls[t].subject = p
      BY <2>2, <3>1, <3>2 DEF Moves
    <3> QED
      BY <1>0, <1>1, <3>3
  <2> QED
    BY <2>1, <2>2
<1>4. ASSUME NEW p \in Ids, NEW s \in Ids, projects'[p].link = s PROVE Root(s)'
  <2>0. s # None
    BY NoneFacts
  <2>1. Active(p)'
    BY <1>4, <2>0 DEF Moves
  <2>2. CASE projects[p].link # None
    <3>1. p \in Known
      BY <1>0, <2>2 DEF ProjectsFit, Absent
    <3>2. projects[p].link = s
      BY <1>4, <2>1, <2>2, <3>1 DEF Moves
    <3> QED
      BY <1>0, <1>1, <3>2 DEF ProjectsFit
  <2>3. CASE projects[p].link = None
    <3>1. Linking(t, p) /\ s = calls[t].subject
      BY <1>4, <2>0, <2>3 DEF Moves
    <3> QED
      BY <1>0, <1>1, <3>1 DEF Linking
  <2> QED
    BY <2>2, <2>3
<1>5. ASSUME NEW p \in Ids, NEW c \in Ids, c \in Children(p)', projects'[c].link # None
      PROVE  projects'[c].link = p
  <2>1. Active(c)'
    BY <1>5 DEF Moves
  <2>2. CASE projects[c].link # None
    <3>1. c \in Known
      BY <1>0, <2>2 DEF ProjectsFit, Absent
    <3>2. projects'[c].link = projects[c].link
      BY <2>1, <2>2, <3>1 DEF Moves
    <3>3. c \in Children(p)
      <4>1. ASSUME c \notin Children(p) PROVE FALSE
        <5>1. calls[t].step = "add" /\ calls[t].project = c
          BY <1>5, <4>1 DEF Moves
        <5> QED
          BY <1>0, <2>2, <5>1, HoldingSteps DEF CreationFits
      <4> QED
        BY <4>1
    <3> QED
      BY <1>0, <2>2, <3>2, <3>3 DEF ProjectsFit
  <2>3. CASE projects[c].link = None
    <3>1. Linking(t, c) /\ projects'[c].link = calls[t].subject
      BY <1>5, <2>3 DEF Moves
    <3>2. c \in Children(p)
      BY <1>5, <3>1 DEF Moves, Linking
    <3>3. ListedBy(c) \subseteq {calls[t].subject}
      BY <1>0, <3>1, HoldingSteps DEF MaterialFits, Linking
    <3> QED
      BY <3>1, <3>2, <3>3 DEF ListedBy
  <2> QED
    BY <2>2, <2>3
<1>6. ASSUME NEW p \in owned' PROVE p \in Known'
  <2>1. CASE p \in owned
    BY <1>0, <1>2, <2>1 DEF ProjectsFit
  <2>2. CASE p \notin owned
    <3>1. calls[t].step = "own" /\ calls[t].project = p
      BY <2>2 DEF Moves
    <3> QED
      BY <1>0, <1>2, <3>1, HoldingSteps DEF CreationFits
  <2> QED
    BY <2>1, <2>2
<1>7. ASSUME NEW p \in owned', Active(p)', projects'[p].link = None PROVE Root(p)'
  <2>0. p \in Ids
    BY DEF TypeOk
  <2>1. CASE p \in owned
    <3>1. p \in Known
      BY <1>0, <2>1 DEF ProjectsFit
    <3>2. Active(p) /\ projects[p].link = None
      BY <1>7, <3>1 DEF Moves
    <3> QED
      BY <1>0, <1>1, <2>1, <3>2 DEF ProjectsFit
  <2>2. CASE p \notin owned
    <3>1. calls[t].step = "own" /\ calls[t].project = p
      BY <2>2 DEF Moves
    <3>2. Holding(t) /\ p \in Known
      BY <1>0, <3>1, HoldingSteps DEF CreationFits
    <3>3. Active(p) /\ projects[p].link = None
      BY <1>7, <3>2 DEF Moves
    <3>4. calls[t].kind # "material"
      BY <1>0, <2>0, <3>1, <3>3, NoneFacts DEF MaterialFits
    <3>5. ListedBy(p) = {}
      BY <1>0, <2>0, <3>1, <3>2, <3>4 DEF CreationFits
    <3>6. ListedBy(p)' = {}
      BY <2>0, <3>1, <3>5 DEF Moves, ListedBy
    <3>7. ASSUME NEW u \in Threads, Holding(u)', calls'[u].project = p PROVE FALSE
      <4>1. u # t
        BY <3>1, <3>7 DEF Moves
      <4>2. Holding(u) /\ calls[u].project = p
        BY <3>7, <4>1 DEF Moves, Only, Holding, Creating
      <4> QED
        BY <1>0, <2>0, <3>1, <3>2, <4>1, <4>2 DEF CreationFits
    <3> QED
      BY <1>2, <1>7, <3>2, <3>6, <3>7 DEF Root, Hands
  <2> QED
    BY <2>1, <2>2
<1> QED
  BY <1>3, <1>4, <1>5, <1>6, <1>7 DEF ProjectsFit, Moves

\* What is no longer listed is never listed again.
LEMMA OrphanStays ==
    ASSUME Structure, NEW t \in Threads, Moves(t), NEW r \in Known, Orphan(r)
    PROVE  ~Active(r)' \/ Orphan(r)'
<1> SUFFICES ASSUME Active(r)' PROVE Orphan(r)'
  OBVIOUS
<1>1. projects'[r].link = projects[r].link /\ projects[r].link # None /\ r \in Ids
  BY TypeFacts DEF Moves, Orphan, Structure
<1>2. ASSUME NEW p \in Ids, p = projects[r].link, r \in Children(p)' PROVE FALSE
  <2>1. calls[t].step = "add" /\ calls[t].project = r
    BY <1>1, <1>2 DEF Moves, Orphan, ListedBy
  <2>2. projects[r].link = None
    BY <1>1, <2>1, HoldingSteps DEF Structure, CallFits, CreationFits
  <2> QED
    BY <1>1, <2>2
<1> QED
  BY <1>1, <1>2 DEF Orphan, ListedBy

\* What a step of one call leaves to another.
LEMMA OthersStay ==
    ASSUME Structure, NEW t \in Threads, Moves(t), TypeOk',
           NEW u \in Threads, u # t
    PROVE  CallFits(u)'
<1>0. /\ ProjectsFit /\ CallFits(t) /\ CallFits(u) /\ TypeOk
      /\ calls'[u] = calls[u]
  BY DEF Structure, Moves, Only
<1>1. \A p : Root(p) => Root(p)'
  BY RootStays
<1>2. Known \subseteq Known' /\ Known \subseteq Ids
  BY KnownGrows
<1>3. Stepwise(u)' /\ (Holding(u)' <=> Holding(u))
  BY <1>0 DEF Stepwise, CallFits, Holding, Creating
<1>4. /\ calls'[u].step \in {"title", "retitle"} => calls'[u].project \in Known'
      /\ calls'[u].step = "retitle" => calls'[u].subject # None
  BY <1>0, <1>2 DEF CallFits
<1>5. ASSUME NEW c \in Ids, Holding(u), calls[u].project = c
      PROVE  /\ c \in Known /\ c \in Known'
             /\ ~(Holding(t) /\ calls[t].project = c)
             /\ \A p \in Ids : c \in Children(p)' => c \in Children(p)
             /\ projects[c].link = None => projects'[c].link = None
  <2>1. c \in Known /\ c \in Known'
    BY <1>0, <1>2, <1>5 DEF CallFits, CreationFits
  <2>2. ~(Holding(t) /\ calls[t].project = c)
    BY <1>0, <1>5 DEF CallFits, CreationFits
  <2> QED
    BY <2>1, <2>2, HoldingSteps DEF Moves, Linking
<1>6. CreationFits(u)'
  <2>1. ASSUME Holding(u) PROVE calls[u].project \in Known'
    BY <1>0, <1>2, <2>1 DEF CallFits, CreationFits
  <2>2. ASSUME NEW c \in Ids, Holding(u), calls[u].project = c
        PROVE  /\ Active(c)' => c \notin owned'
               /\ \A v \in Threads : Holding(v)' /\ calls'[v].project = c => v = u
               /\ calls[u].kind # "material" \/ calls[u].step = "add" => ListedBy(c)' = {}
               /\ calls[u].kind # "material" \/ calls[u].step # "own" => projects'[c].link = None
               /\ calls[u].step = "undo" =>
                    /\ \A i \in DOMAIN calls[u].work : calls[u].work[i].project = c
                    /\ calls[u].work = <<>> => ~Active(c)'
    <3>1. Active(c)' => c \notin owned'
      BY <1>0, <1>5, <2>2, HoldingSteps DEF Moves, CallFits, CreationFits
    <3>2. ASSUME NEW v \in Threads, Holding(v)', calls'[v].project = c PROVE v = u
      <4>1. CASE v = t
        BY <1>5, <2>2, <3>2, <4>1 DEF Moves
      <4>2. CASE v # t
        BY <1>0, <2>2, <3>2, <4>2 DEF Moves, Only, Holding, Creating, CallFits, CreationFits
      <4> QED
        BY <4>1, <4>2
    <3>3. ListedBy(c)' \subseteq ListedBy(c)
      BY <1>5, <2>2 DEF ListedBy
    <3>4. ~Active(c) => ~Active(c)'
      BY <1>5, <2>2 DEF Moves
    <3> QED
      BY <1>0, <1>5, <2>2, <3>1, <3>2, <3>3, <3>4 DEF CallFits, CreationFits
  <2> QED
    BY <1>0, <1>3, <2>1, <2>2 DEF CreationFits
<1>7. MaterialFits(u)'
  <2>1. ASSUME calls[u].kind = "material", calls[u].step # "idle",
               NEW s \in Ids, calls[u].subject = s
        PROVE  Root(s)'
    BY <1>0, <1>1, <2>1 DEF CallFits, MaterialFits
  <2>2. ASSUME NEW c \in Ids, NEW s \in Ids, calls[u].project = c, calls[u].subject = s,
               calls[u].step = "link"
        PROVE  ListedBy(c)' \subseteq {s} /\ (Active(s)' /\ Active(c)' => c \in Children(s)')
    <3>1. Holding(u) /\ Root(s) /\ s \in Known /\ projects[c].link = None
      BY <1>0, <2>2, HoldingSteps DEF CallFits, CreationFits, MaterialFits, Root
    <3>2. ListedBy(c)' \subseteq {s}
      BY <1>0, <1>5, <2>2, <3>1, HoldingSteps DEF ListedBy, CallFits, MaterialFits
    <3>3. Active(s)' /\ Active(c)' => c \in Children(s)
      BY <1>0, <1>5, <2>2, <3>1, HoldingSteps DEF Moves, CallFits, MaterialFits
    <3>4. Active(s)' /\ Active(c)' => c \in Children(s)'
      BY <3>1, <3>3, NoneFacts DEF Moves
    <3> QED
      BY <3>2, <3>4
  <2>3. ASSUME NEW c \in Ids, NEW s \in Ids, calls[u].project = c, calls[u].subject = s,
               calls[u].kind = "material", calls[u].step = "own", Active(c)'
        PROVE  projects'[c].link = s
    <3>1. Holding(u)
      BY <2>3, HoldingSteps
    <3>2. projects[c].link = s
      BY <1>0, <1>5, <2>3, <3>1 DEF CallFits, MaterialFits, Moves
    <3> QED
      BY <1>5, <2>3, <3>1, <3>2, NoneFacts DEF Moves
  <2>4. calls[u].kind = "material" /\ calls[u].step # "idle" => calls[u].subject \in Ids
    BY <1>0 DEF CallFits, MaterialFits
  <2> QED
    BY <1>0, <2>1, <2>2, <2>3, <2>4 DEF MaterialFits
<1>8. WorkFits(u)'
  <2>1. ASSUME NEW i \in DOMAIN calls[u].work, NEW p \in Ids, Item(u, i, "unlink", p), Active(p)'
        PROVE  projects'[p].link = calls[u].work[i].subject
    <3>1. p \in Known /\ calls[u].work[i].subject \in Ids
      BY <1>0, <2>1 DEF CallFits, WorkFits, Item
    <3>2. projects[p].link = calls[u].work[i].subject
      BY <1>0, <2>1, <3>1 DEF CallFits, WorkFits, Moves
    <3> QED
      BY <2>1, <3>1, <3>2, NoneFacts DEF Moves
  <2>2. \A i, op, p : Item(u, i, op, p)' <=> Item(u, i, op, p)
    BY <1>0 DEF Item
  <2> QED
    BY <1>0, <1>2, <2>1, <2>2 DEF CallFits, WorkFits
<1>9. DeletionFits(u)'
  <2>1. ASSUME calls[u].step \in {"delete", "forget"}, NEW r \in calls[u].related
        PROVE  Settled(u, r)'
    <3>0. r \in Known /\ r \in Ids /\ Settled(u, r)
      BY <1>0, <1>2, <2>1 DEF CallFits, DeletionFits
    <3>1. CASE ~Active(r)
      BY <3>0, <3>1 DEF Moves, Settled
    <3>2. CASE Orphan(r)
      BY <1>0, <3>0, <3>2, OrphanStays DEF Settled
    <3>3. ASSUME NEW i \in DOMAIN calls[u].work, calls[u].work[i].project = r
          PROVE  Settled(u, r)'
      BY <1>0, <3>3 DEF Settled
    <3>4. ASSUME NEW i \in DOMAIN calls[u].work, NEW p \in Ids, Item(u, i, "visit", p),
                 ~Active(p) \/ r \in Children(p)
          PROVE  Settled(u, r)'
      <4>1. p \in Known /\ Item(u, i, "visit", p)'
        BY <1>0, <3>4 DEF CallFits, WorkFits, Item
      <4>2. CASE ~Active(p)'
        BY <1>0, <3>4, <4>1, <4>2 DEF Settled
      <4>3. CASE Active(p)'
        <5>1. r \in Children(p)
          BY <3>4, <4>1, <4>3 DEF Moves
        <5>2. CASE r \in Children(p)'
          BY <1>0, <3>4, <4>1, <5>2 DEF Settled
        <5>3. CASE r \notin Children(p)' /\ ~Active(r)'
          BY <5>3 DEF Settled
        <5>4. CASE r \notin Children(p)' /\ Active(r)'
          <6>1. projects[r].link = p /\ projects'[r].link = p
            BY <3>0, <4>3, <5>1, <5>4, NoneFacts DEF Moves
          <6>2. Orphan(r)'
            BY <5>4, <6>1, NoneFacts DEF Orphan, ListedBy
          <6> QED
            BY <6>2 DEF Settled
        <5> QED
          BY <5>2, <5>3, <5>4
      <4> QED
        BY <4>2, <4>3
    <3> QED
      BY <3>0, <3>1, <3>2, <3>3, <3>4 DEF Settled
  <2> QED
    BY <1>0, <1>2, <2>1 DEF CallFits, DeletionFits
<1> QED
  BY <1>3, <1>4, <1>6, <1>7, <1>8, <1>9 DEF CallFits

-----------------------------------------------------------------------------
(* The accounts: what a step adds to them, and what pays for it. *)

\* A step that costs nothing: what it spoils was in the hands of somebody else.
Costless(t) ==
    /\ faults' = faults /\ overlaps' = overlaps
    /\ t \in Busy
    /\ Others' \subseteq Others
    /\ Hands' \subseteq Hands
    /\ Bad' \subseteq Bad \/ (Bad' \subseteq Load /\ Others # {})

\* A creation gets its project.
Creates(t, x) ==
    /\ faults' = faults /\ overlaps' = overlaps
    /\ t \in Others
    /\ Others' \subseteq Others \ {t}
    /\ Hands' \subseteq Hands \cup {x}
    /\ Bad' \subseteq Bad

\* A fault leaves at most one project behind.
Faults(t, x) ==
    /\ faults' = faults + 1 /\ overlaps' = overlaps
    /\ t \in Busy
    /\ Others' \subseteq Others
    /\ Hands' \subseteq Hands
    /\ Bad' \subseteq Bad \cup {x}

\* A call begins alone or at the price of an overlap.
Enters(t) ==
    /\ faults' = faults
    /\ (Busy = {} /\ overlaps' = overlaps) \/ overlaps' = overlaps + 1
    /\ Others' \subseteq Others \cup {t}
    /\ Hands' \subseteq Hands
    /\ Bad' \subseteq Bad

LEMMA SubsetCount ==
    ASSUME NEW S, IsFiniteSet(S), NEW T, T \subseteq S
    PROVE  /\ IsFiniteSet(T) /\ Cardinality(T) \in Nat /\ Cardinality(S) \in Nat
           /\ Cardinality(T) <= Cardinality(S)
<1>1. IsFiniteSet(T) /\ Cardinality(T) <= Cardinality(S)
  BY FS_Subset
<1> QED
  BY <1>1, FS_CardinalityType

LEMMA AddedCount ==
    ASSUME NEW S, IsFiniteSet(S), NEW x, NEW T, T \subseteq S \cup {x}
    PROVE  /\ IsFiniteSet(T) /\ Cardinality(T) \in Nat /\ Cardinality(S) \in Nat
           /\ Cardinality(T) <= Cardinality(S) + 1
<1>1. IsFiniteSet(S \cup {x}) /\ Cardinality(S) \in Nat
      /\ Cardinality(S \cup {x}) = IF x \in S THEN Cardinality(S) ELSE Cardinality(S) + 1
  BY FS_AddElement, FS_CardinalityType
<1>2. IsFiniteSet(T) /\ Cardinality(T) \in Nat /\ Cardinality(T) <= Cardinality(S \cup {x})
  BY <1>1, SubsetCount
<1> QED
  BY <1>1, <1>2

LEMMA RemovedCount ==
    ASSUME NEW S, IsFiniteSet(S), NEW x \in S, NEW T, T \subseteq S \ {x}
    PROVE  /\ IsFiniteSet(T) /\ Cardinality(T) \in Nat /\ Cardinality(S) \in Nat
           /\ Cardinality(T) + 1 <= Cardinality(S)
<1>1. IsFiniteSet(S \ {x}) /\ Cardinality(S) \in Nat
      /\ Cardinality(S \ {x}) = Cardinality(S) - 1
  BY FS_RemoveElement, FS_CardinalityType
<1>2. IsFiniteSet(T) /\ Cardinality(T) \in Nat /\ Cardinality(T) <= Cardinality(S \ {x})
  BY <1>1, SubsetCount
<1> QED
  BY <1>1, <1>2

LEMMA LoadFinite ==
    ASSUME Structure
    PROVE  /\ IsFiniteSet(Bad) /\ Cardinality(Bad) \in Nat
           /\ IsFiniteSet(Load) /\ Cardinality(Load) \in Nat
           /\ Hands \subseteq Ids /\ faults \in Nat /\ overlaps \in Nat
<1>1. IsFiniteSet(Ids)
  BY SubjectsAssumption, FS_Interval DEF Ids
<1>2. Hands \subseteq Ids
  BY TypeFacts DEF Structure, Hands, CallFits, CreationFits
<1>3. Bad \subseteq Ids /\ Load \subseteq Ids
  BY <1>2 DEF Bad, Load
<1> QED
  BY <1>1, <1>2, <1>3, SubsetCount DEF Structure, TypeOk

LEMMA OthersCount ==
    ASSUME Accounts
    PROVE  Cardinality(Others) \in Nat /\ (Others # {} => Cardinality(Others) >= 1)
<1>1. IsFiniteSet(Others)
  BY DEF Accounts
<1>2. Cardinality(Others) \in Nat /\ (Cardinality(Others) = 0 <=> Others = {})
  BY <1>1, FS_CardinalityType, FS_EmptySet
<1> QED
  BY <1>2

LEMMA CostlessAccounts ==
    ASSUME Structure, Structure', Accounts, NEW t, Costless(t)
    PROVE  Accounts'
<1>0. /\ IsFiniteSet(Bad) /\ Cardinality(Bad) \in Nat
      /\ IsFiniteSet(Load) /\ Cardinality(Load) \in Nat
      /\ faults \in Nat /\ overlaps \in Nat /\ IsFiniteSet(Others)
  BY LoadFinite DEF Accounts
<1>1. Bad' \subseteq Load /\ Load' \subseteq Load
  BY DEF Costless, Load
<1>2. IsFiniteSet(Others)' /\ Cardinality(Others') \in Nat /\ Cardinality(Others) \in Nat
      /\ Cardinality(Others') <= Cardinality(Others)
  BY <1>0, SubsetCount DEF Costless
<1>3. Cardinality(Load') \in Nat /\ Cardinality(Load') <= Cardinality(Load)
  BY <1>0, <1>1, SubsetCount
<1>4. Cardinality(Load) + Cardinality(Others) <= faults + overlaps + 1
  BY DEF Accounts, Costless
<1>5. Cardinality(Bad') <= faults + overlaps
  <2>1. CASE Bad' \subseteq Bad
    <3>1. Cardinality(Bad') \in Nat /\ Cardinality(Bad') <= Cardinality(Bad)
      BY <1>0, <2>1, SubsetCount
    <3>2. Cardinality(Bad) <= faults + overlaps
      BY DEF Accounts
    <3> QED
      BY <1>0, <3>1, <3>2
  <2>2. CASE Others # {}
    <3>1. Cardinality(Bad') \in Nat /\ Cardinality(Bad') <= Cardinality(Load)
      BY <1>0, <1>1, SubsetCount
    <3>2. Cardinality(Others) >= 1
      BY <2>2, OthersCount
    <3> QED
      BY <1>0, <1>2, <1>4, <3>1, <3>2
  <2> QED
    BY <2>1, <2>2 DEF Costless
<1>6. Cardinality(Load') + Cardinality(Others') <= faults + overlaps + 1
  BY <1>0, <1>2, <1>3, <1>4
<1> QED
  BY <1>2, <1>5, <1>6 DEF Accounts, Costless

LEMMA CreatesAccounts ==
    ASSUME Structure, Structure', Accounts, NEW t, NEW x, Creates(t, x)
    PROVE  Accounts'
<1>0. /\ IsFiniteSet(Bad) /\ Cardinality(Bad) \in Nat
      /\ IsFiniteSet(Load) /\ Cardinality(Load) \in Nat
      /\ faults \in Nat /\ overlaps \in Nat /\ IsFiniteSet(Others)
  BY LoadFinite DEF Accounts
<1>1. Load' \subseteq Load \cup {x}
  BY DEF Creates, Load
<1>2. IsFiniteSet(Others)' /\ Cardinality(Others') \in Nat /\ Cardinality(Others) \in Nat
      /\ Cardinality(Others') + 1 <= Cardinality(Others)
  BY <1>0, RemovedCount DEF Creates
<1>3. Cardinality(Load') \in Nat /\ Cardinality(Load') <= Cardinality(Load) + 1
  BY <1>0, <1>1, AddedCount
<1>4. Cardinality(Load) + Cardinality(Others) <= faults + overlaps + 1
  BY DEF Accounts, Creates, Others
<1>5. Cardinality(Bad') \in Nat /\ Cardinality(Bad') <= Cardinality(Bad)
  BY <1>0, SubsetCount DEF Creates
<1>6. Cardinality(Bad) <= faults + overlaps
  BY DEF Accounts
<1>7. Cardinality(Load') + Cardinality(Others') <= faults + overlaps + 1
  BY <1>0, <1>2, <1>3, <1>4
<1>8. Cardinality(Bad') <= faults + overlaps
  BY <1>0, <1>5, <1>6
<1> QED
  BY <1>2, <1>7, <1>8 DEF Accounts, Creates

LEMMA FaultsAccounts ==
    ASSUME Structure, Structure', Accounts, NEW t, NEW x, Faults(t, x)
    PROVE  Accounts'
<1>0. /\ IsFiniteSet(Bad) /\ Cardinality(Bad) \in Nat
      /\ IsFiniteSet(Load) /\ Cardinality(Load) \in Nat
      /\ faults \in Nat /\ overlaps \in Nat /\ IsFiniteSet(Others)
  BY LoadFinite DEF Accounts
<1>1. Load' \subseteq Load \cup {x}
  BY DEF Faults, Load
<1>2. IsFiniteSet(Others)' /\ Cardinality(Others') \in Nat /\ Cardinality(Others) \in Nat
      /\ Cardinality(Others') <= Cardinality(Others)
  BY <1>0, SubsetCount DEF Faults
<1>3. Cardinality(Load') \in Nat /\ Cardinality(Load') <= Cardinality(Load) + 1
  BY <1>0, <1>1, AddedCount
<1>4. Cardinality(Load) + Cardinality(Others) <= faults + overlaps + 1
  BY DEF Accounts, Faults
<1>5. Cardinality(Bad') \in Nat /\ Cardinality(Bad') <= Cardinality(Bad) + 1
  BY <1>0, AddedCount DEF Faults
<1>6. Cardinality(Bad) <= faults + overlaps
  BY DEF Accounts
<1>7. Cardinality(Load') + Cardinality(Others') <= (faults + 1) + overlaps + 1
  BY <1>0, <1>2, <1>3, <1>4
<1>8. Cardinality(Bad') <= (faults + 1) + overlaps
  BY <1>0, <1>5, <1>6
<1> QED
  BY <1>2, <1>7, <1>8 DEF Accounts, Faults

LEMMA EntersAccounts ==
    ASSUME Structure, Structure', Accounts, NEW t, Enters(t)
    PROVE  Accounts'
<1>0. /\ IsFiniteSet(Bad) /\ Cardinality(Bad) \in Nat
      /\ IsFiniteSet(Load) /\ Cardinality(Load) \in Nat
      /\ faults \in Nat /\ overlaps \in Nat /\ IsFiniteSet(Others)
  BY LoadFinite DEF Accounts
<1>1. Load' \subseteq Load
  BY DEF Enters, Load
<1>2. IsFiniteSet(Others)' /\ Cardinality(Others') \in Nat /\ Cardinality(Others) \in Nat
      /\ Cardinality(Others') <= Cardinality(Others) + 1
  BY <1>0, AddedCount DEF Enters
<1>3. Cardinality(Load') \in Nat /\ Cardinality(Load') <= Cardinality(Load)
  BY <1>0, <1>1, SubsetCount
<1>4. Cardinality(Bad') \in Nat /\ Cardinality(Bad') <= Cardinality(Bad)
  BY <1>0, SubsetCount DEF Enters
<1>5. Cardinality(Bad) <= faults + overlaps
  BY DEF Accounts
<1>6. CASE Busy = {} /\ overlaps' = overlaps
  <2>1. Others = {} /\ Hands = {}
    BY <1>6 DEF Others, Hands, Busy, Holding
  <2>2. Load = Bad /\ Cardinality(Others) = 0
    BY <2>1, FS_EmptySet DEF Load
  <2>3. Cardinality(Load') + Cardinality(Others') <= faults + overlaps + 1
    BY <1>0, <1>2, <1>3, <1>5, <2>2
  <2>4. Cardinality(Bad') <= faults + overlaps
    BY <1>0, <1>4, <1>5
  <2> QED
    BY <1>2, <1>6, <2>3, <2>4 DEF Accounts, Enters
<1>7. CASE overlaps' = overlaps + 1
  <2>1. Cardinality(Load) + Cardinality(Others) <= faults + overlaps + 1
    <3>1. CASE Busy # {}
      BY <3>1 DEF Accounts
    <3>2. CASE Busy = {}
      <4>1. Others = {} /\ Hands = {}
        BY <3>2 DEF Others, Hands, Busy, Holding
      <4>2. Load = Bad /\ Cardinality(Others) = 0
        BY <4>1, FS_EmptySet DEF Load
      <4> QED
        BY <1>0, <1>5, <4>2
    <3> QED
      BY <3>1, <3>2
  <2>2. Cardinality(Load') + Cardinality(Others') <= faults + (overlaps + 1) + 1
    BY <1>0, <1>2, <1>3, <2>1
  <2>3. Cardinality(Bad') <= faults + (overlaps + 1)
    BY <1>0, <1>4, <1>5
  <2> QED
    BY <1>2, <1>7, <2>2, <2>3 DEF Accounts, Enters
<1> QED
  BY <1>6, <1>7 DEF Enters

-----------------------------------------------------------------------------
(* What a step leaves as it was. *)

\* All projects but x are as they were, and where they were.
SameBut(x) ==
    \A c \in Ids :
      /\ ~Active(c)' => ~Active(c)
      /\ c # x => /\ Active(c)' <=> Active(c)
                  /\ projects'[c].link = projects[c].link
                  /\ ListedBy(c)' = ListedBy(c)

\* Nothing is spoilt but x, with which the call of t was busy.
LEMMA BadFrame ==
    ASSUME NEW t \in Threads, NEW x, Only(t), SameBut(x),
           \A c \in Ids : c # x /\ Active(c) /\ Linking(t, c) => Linking(t, c)',
           \A c \in Ids : c # x /\ Linking(t, c)' =>
              Linking(t, c) /\ calls'[t].subject = calls[t].subject,
           calls'[t].step = "add" => calls'[t].project = x,
           \A c \in Ids : c # x => /\ Doomed(c)' => Doomed(c)
                                   /\ Overlooked(c)' => Overlooked(c),
           \A c \in Ids : c # x /\ Orphan(c) /\ Item(t, 1, "delete", c) => Item(t, 1, "delete", c)',
           \A c \in Ids : c # x /\ Active(c) /\ ~Orphan(c) /\ c \notin owned' /\ c \notin Hands' =>
              c \notin owned /\ c \notin Hands
    PROVE  Bad' \subseteq Bad \cup {x}
<1> SUFFICES ASSUME NEW c \in Ids, c # x, c \in Bad' PROVE c \in Bad
  BY DEF Bad
<1>1. /\ ListedBy(c)' = ListedBy(c) /\ (Active(c)' <=> Active(c)) /\ (Orphan(c)' <=> Orphan(c))
      /\ projects'[c].link = projects[c].link
  BY DEF SameBut, Orphan
<1>2. \A u \in Threads : \A i, op, p : u # t => (Item(u, i, op, p)' <=> Item(u, i, op, p))
  BY DEF Only, Item
<1>3. CASE Misplaced(c)'
  <2>1. PICK p \in ListedBy(c) :
           ~ /\ Active(c)
             /\ projects[c].link = p \/ \E u \in Threads : Linking(u, c)'
    <3>1. \E p \in ListedBy(c)' :
             ~ /\ Active(c)'
               /\ projects'[c].link = p \/ \E u \in Threads : Linking(u, c)'
      BY <1>3 DEF Misplaced, ListedBy
    <3> QED
      BY <1>1, <3>1
  <2>2. ASSUME NEW u \in Threads, Linking(u, c), Active(c) PROVE Linking(u, c)'
    BY <2>2 DEF Only, Linking
  <2>3. Misplaced(c)
    BY <2>1, <2>2 DEF Misplaced, ListedBy
  <2> QED
    BY <2>3 DEF Bad
<1>4. CASE Doomed(c)'
  BY <1>4 DEF Bad
<1>5. CASE Overlooked(c)'
  BY <1>5 DEF Bad
<1>6. CASE Stray(c)'
  <2>1. \A u \in Threads : ~Item(u, 1, "delete", c)
    BY <1>1, <1>2, <1>6 DEF Stray
  <2>2. Stray(c)
    BY <1>1, <1>6, <2>1 DEF Stray
  <2> QED
    BY <2>2 DEF Bad
<1>7. CASE Unseen(c)'
  <2>1. Unseen(c)
    BY <1>1, <1>7 DEF Unseen
  <2> QED
    BY <2>1 DEF Bad
<1>8. CASE Stranded(c)'
  <2>1. PICK u \in Threads, p \in Ids : Linking(u, c)' /\ calls'[u].subject = p /\ ~Active(p)
    BY <1>8 DEF Stranded, SameBut
  <2>2. Linking(u, c) /\ calls[u].subject = p
    BY <2>1 DEF Only, Linking
  <2>3. Stranded(c)
    BY <1>1, <1>8, <2>1, <2>2 DEF Stranded
  <2> QED
    BY <2>3 DEF Bad
<1>9. CASE Lost(c)'
  <2>1. PICK u \in Threads : calls'[u].step = "add" /\ calls'[u].project = c
    BY <1>9 DEF Lost
  <2>2. calls'[u] = calls[u]
    BY <2>1 DEF Only
  <2>3. Lost(c)
    BY <1>1, <1>9, <2>1, <2>2 DEF Lost
  <2> QED
    BY <2>3 DEF Bad
<1> QED
  BY <1>3, <1>4, <1>5, <1>6, <1>7, <1>8, <1>9 DEF Bad

\* Nobody is going to be deleted who was not before.
LEMMA ListsFrame ==
    ASSUME NEW t \in Threads, NEW x, Only(t),
           \A c \in Ids : c # x => ListedBy(c)' = ListedBy(c),
           \/ calls'[t].work = calls[t].work
           \/ \A i \in DOMAIN calls'[t].work : calls'[t].work[i].op # "delete"
    PROVE  \A c \in Ids : c # x => /\ Doomed(c)' => Doomed(c)
                                   /\ Overlooked(c)' => Overlooked(c)
<1> SUFFICES ASSUME NEW c \in Ids, c # x
             PROVE  (Doomed(c)' => Doomed(c)) /\ (Overlooked(c)' => Overlooked(c))
  OBVIOUS
<1>1. ListedBy(c)' = ListedBy(c)
  OBVIOUS
<1>2. \A u \in Threads : \A i, p : Item(u, i, "delete", p)' =>
        Item(u, i, "delete", p) /\ calls'[u].work = calls[u].work
  BY DEF Only, Item
<1>3. ASSUME Doomed(c)' PROVE Doomed(c)
  <2>1. PICK u \in Threads : \E i \in DOMAIN calls'[u].work :
           Item(u, i, "delete", c)' /\ ~Item(u, 1, "unlink", c)'
    BY <1>3 DEF Doomed
  <2>2. \E i \in DOMAIN calls[u].work : Item(u, i, "delete", c) /\ ~Item(u, 1, "unlink", c)
    BY <1>2, <2>1 DEF Item
  <2> QED
    BY <1>1, <1>3, <2>2 DEF Doomed
<1>4. ASSUME Overlooked(c)' PROVE Overlooked(c)
  <2>1. PICK p \in ListedBy(c), u \in Threads : \E i \in DOMAIN calls'[u].work :
           /\ Item(u, i, "delete", p)'
           /\ \A j \in DOMAIN calls'[u].work : j < i => calls'[u].work[j].project # c
    BY <1>1, <1>4 DEF Overlooked
  <2>2. \E i \in DOMAIN calls[u].work :
           /\ Item(u, i, "delete", p)
           /\ \A j \in DOMAIN calls[u].work : j < i => calls[u].work[j].project # c
    BY <1>2, <2>1
  <2> QED
    BY <2>2 DEF Overlooked
<1> QED
  BY <1>3, <1>4

LEMMA WorkFrame ==
    ASSUME NEW t \in Threads, NEW x, Only(t), SameBut(x),
           \/ calls'[t].work = calls[t].work
           \/ \A i \in DOMAIN calls'[t].work : calls'[t].work[i].op # "delete"
    PROVE  \A c \in Ids : c # x => /\ Doomed(c)' => Doomed(c)
                                   /\ Overlooked(c)' => Overlooked(c)
<1>1. \A c \in Ids : c # x => ListedBy(c)' = ListedBy(c)
  BY DEF SameBut
<1> QED
  BY <1>1, ListsFrame

-----------------------------------------------------------------------------
(* Steps that leave the projects as they are. *)

LEMMA StructureStep ==
    ASSUME Structure, NEW t \in Threads, Moves(t), TypeOk', CallFits(t)'
    PROVE  Structure'
<1>1. ProjectsFit'
  BY ProjectsStay
<1>2. \A u \in Threads : u # t => CallFits(u)'
  BY OthersStay
<1> QED
  BY <1>1, <1>2 DEF Structure

\* Who is at work, and with what.
LEMMA CallSets ==
    ASSUME NEW t \in Threads, Only(t)
    PROVE  /\ (Holding(t)' => Holding(t) /\ calls'[t].project = calls[t].project) => Hands' \subseteq Hands
           /\ \A c : c \notin Hands' /\ c \in Hands =>
                /\ Holding(t) /\ calls[t].project = c
                /\ ~(Holding(t)' /\ calls'[t].project = c)
           /\ \A x : x \in Hands' => x \in Hands \/ (Holding(t)' /\ x = calls'[t].project)
           /\ (t \in Others' => t \in Others) => Others' \subseteq Others
           /\ t \notin Others' => Others' \subseteq Others \ {t}
           /\ Others' \subseteq Others \cup {t}
           /\ (t \in Busy' => t \in Busy) => Busy' \subseteq Busy
           /\ Busy' \subseteq Busy \cup {t}
<1>1. \A u \in Threads : u # t => (Holding(u)' <=> Holding(u)) /\ calls'[u] = calls[u]
  BY DEF Only, Holding, Creating
<1> QED
  BY <1>1 DEF Hands, Others, Busy

LEMMA StillMoves ==
    ASSUME Structure, NEW t \in Threads, Only(t), projects' = projects, created' = created,
           \A p \in owned' : p \notin owned => calls[t].step = "own" /\ calls[t].project = p,
           Holding(t)' => Holding(t) /\ calls'[t].project = calls[t].project,
           calls[t].step = "own" => ~Holding(t)'
    PROVE  Moves(t) /\ \A x : SameBut(x)
<1>1. /\ created \in Nat /\ Known' = Known
      /\ \A p \in Ids : (Active(p)' <=> Active(p)) /\ Children(p)' = Children(p)
                       /\ ListedBy(p)' = ListedBy(p)
  BY TypeFacts DEF Structure, Known, Active, Children, ListedBy
<1>2. \A p \in Known : p \in Ids
  BY TypeFacts DEF Structure
<1>3. ProjectsFit
  BY DEF Structure
<1> QED
  BY <1>1, <1>2, <1>3 DEF Moves, SameBut, ProjectsFit

\* An idle call fits.
LEMMA IdleFits ==
    ASSUME NEW t, calls'[t] = Idle
    PROVE  CallFits(t)' /\ ~Holding(t)' /\ t \notin Busy'
  BY DEF Idle, CallFits, Stepwise, CreationFits, MaterialFits, WorkFits, DeletionFits, Holding,
     Busy, Item

LEMMA AloneStays ==
    ASSUME Alone, NEW t, overlaps' = overlaps, Busy' \subseteq Busy
    PROVE  Alone'
  BY DEF Alone

\* As long as no call has met another, only the call at work matters.
LEMMA TitlesFrame ==
    ASSUME TitlesAgree, Alone, NEW t \in Threads, t \in Busy, Only(t), overlaps' = overlaps,
           calls'[t].step = "title" => calls'[t].subject = projects'[calls'[t].project].link,
           calls'[t].step \in {"add", "retitle"} =>
             calls'[t].title = projects'[calls'[t].project].title,
           faults' = 0 /\ overlaps = 0 =>
             \A p \in Ids : \A c \in Children(p)' :
               \/ projects'[p].materials[c] = projects'[c].title
               \/ /\ calls'[t].step = "retitle" /\ calls'[t].project = c
                  /\ calls'[t].subject = p /\ calls'[t].title = projects'[c].title
    PROVE  TitlesAgree'
<1> SUFFICES ASSUME overlaps = 0 PROVE TitlesAgree'
  BY DEF TitlesAgree
<1>1. \A u \in Threads : u # t => calls'[u].step = "idle"
  BY DEF Alone, Busy, Only
<1> QED
  BY <1>1 DEF TitlesAgree

LEMMA TitlesStay ==
    ASSUME TitlesAgree, Alone, NEW t \in Threads, t \in Busy, Only(t), overlaps' = overlaps,
           projects' = projects, faults' = faults \/ faults' # 0,
           calls[t].step # "retitle" \/ faults' # 0, calls'[t].step \notin {"title", "add", "retitle"}
    PROVE  TitlesAgree'
<1>1. ASSUME faults' = 0, overlaps = 0
      PROVE  \A p \in Ids : \A c \in Children(p)' :
               projects'[p].materials[c] = projects'[c].title
  <2>1. \A u \in Threads : calls[u].step # "retitle"
    BY <1>1 DEF Alone, Busy
  <2>2. faults = 0
    BY <1>1
  <2>3. \A p \in Ids : Children(p)' = Children(p)
    BY DEF Children
  <2> QED
    BY <1>1, <2>1, <2>2, <2>3 DEF TitlesAgree
<1> QED
  BY <1>1, TitlesFrame

\* A call begins.
LEMMA BeginStep ==
    ASSUME IInv, NEW t \in Threads, NEW call \in CallType, Begin(t, call), projects' = projects,
           call.step \in {"create", "delete", "title"},
           call.step = "create" \/ call.kind \in {"delete", "edit"},
           \A i \in DOMAIN call.work : call.work[i].op # "delete",
           call.step = "title" => call.subject = projects[call.project].link,
           Moves(t) /\ TypeOk' => CallFits(t)'
    PROVE  IInv'
<1>0. /\ Structure /\ Accounts /\ Alone /\ TitlesAgree /\ TypeOk /\ CallFits(t)
      /\ calls[t].step = "idle" /\ t \notin Busy /\ ~Holding(t)
      /\ created' = created /\ owned' = owned /\ faults' = faults
  BY HoldingSteps DEF IInv, Structure, Begin, Busy
<1>1. calls' \in [Threads -> CallType] /\ calls'[t] = call /\ Only(t)
  <2>1. Becomes(t, call)
    BY DEF Becomes, Begin
  <2> QED
    BY <1>0, <2>1, BecomesFacts
<1>2. ~Holding(t)' /\ t \in Others' /\ t \in Busy'
  BY <1>1 DEF Holding, Creating, Others, Busy
<1>3. Moves(t) /\ SameBut(None)
  BY <1>0, <1>1, <1>2, StillMoves
<1>4. overlaps' \in Nat /\ ((Quiet /\ overlaps' = overlaps) \/ overlaps' = overlaps + 1)
  BY <1>0 DEF Begin, TypeOk
<1>5. TypeOk'
  BY <1>0, <1>1, <1>4 DEF TypeOk
<1>6. Structure'
  BY <1>0, <1>3, <1>5, StructureStep
<1>7. Bad' \subseteq Bad
  <2>1. calls[t].work = <<>>
    BY <1>0 DEF CallFits, WorkFits
  <2>2. Hands' = Hands
    BY <1>0, <1>1, <1>2, CallSets
  <2>3. \A c \in Ids : ~Linking(t, c) /\ ~Linking(t, c)' /\ ~Item(t, 1, "delete", c)
    BY <1>0, <1>1, <2>1 DEF Linking, Item
  <2>4. \A i \in DOMAIN calls'[t].work : calls'[t].work[i].op # "delete"
    BY <1>1
  <2>5. Bad' \subseteq Bad \cup {None}
    BY <1>0, <1>1, <1>3, <2>2, <2>3, <2>4, BadFrame, WorkFrame
  <2> QED
    BY <2>5, NoneFacts DEF Bad
<1>8. Enters(t)
  <2>1. Hands' \subseteq Hands /\ Others' \subseteq Others \cup {t}
    BY <1>1, <1>2, CallSets
  <2>2. Quiet => Busy = {}
    BY DEF Quiet, Busy
  <2> QED
    BY <1>0, <1>4, <1>7, <2>1, <2>2 DEF Enters
<1>9. Accounts'
  BY <1>0, <1>6, <1>8, EntersAccounts
<1>10. overlaps' = 0 => overlaps = 0 /\ Quiet
  BY <1>0, <1>4 DEF TypeOk
<1>11. Alone'
  <2>1. ASSUME Quiet PROVE Busy' \subseteq {t}
    BY <1>1, <2>1, CallSets DEF Quiet, Busy
  <2> QED
    BY <1>10, <2>1 DEF Alone
<1>12. TitlesAgree'
  <2> SUFFICES ASSUME overlaps' = 0 PROVE TitlesAgree'
    BY DEF TitlesAgree
  <2>1. overlaps = 0 /\ \A u \in Threads : calls[u].step = "idle"
    BY <1>10 DEF Quiet
  <2>2. \A u \in Threads : u # t => calls'[u].step = "idle"
    BY <1>1, <2>1 DEF Only
  <2>3. faults = 0 => \A p \in Ids : \A c \in Children(p) :
           projects[p].materials[c] = projects[c].title
    BY <1>0, <2>1 DEF TitlesAgree
  <2> QED
    BY <1>0, <1>1, <2>2, <2>3 DEF TitlesAgree, Children
<1> QED
  BY <1>6, <1>9, <1>11, <1>12 DEF IInv

\* A call ends, without a fault.
LEMMA FinishStep ==
    ASSUME IInv, NEW t \in Threads, t \in Busy, Finish(t),
           projects' = projects, created' = created, faults' = faults, overlaps' = overlaps,
           calls[t].step \notin {"link", "retitle"},
           \A c \in Ids : Item(t, 1, "delete", c) => ~Orphan(c),
           \A c \in Ids : Holding(t) /\ calls[t].project = c => ~Active(c) \/ c \in owned',
           owned' \subseteq Ids,
           \A p \in owned' : p \notin owned => calls[t].step = "own" /\ calls[t].project = p,
           \A p \in owned : p \notin owned' => ~Active(p) \/ Orphan(p)
    PROVE  IInv'
<1>0. Structure /\ Accounts /\ Alone /\ TitlesAgree /\ TypeOk /\ CallFits(t)
  BY DEF IInv, Structure
<1>1. calls' \in [Threads -> CallType] /\ calls'[t] = Idle /\ Only(t)
  BY <1>0, FinishFacts
<1>2. CallFits(t)' /\ ~Holding(t)' /\ t \notin Busy'
  BY <1>1, IdleFits
<1>3. Moves(t) /\ SameBut(None)
  BY <1>0, <1>1, <1>2, StillMoves
<1>4. Structure'
  <2>1. TypeOk'
    BY <1>0, <1>1 DEF TypeOk
  <2> QED
    BY <1>0, <1>2, <1>3, <2>1, StructureStep
<1>5. Bad' \subseteq Bad
  <2>1. calls'[t].work = <<>> /\ calls'[t].step = "idle"
    BY <1>1 DEF Idle
  <2>2. \A c \in Ids : Active(c) /\ ~Orphan(c) /\ c \notin owned' /\ c \notin Hands' =>
           c \notin owned /\ c \notin Hands
    BY <1>1, CallSets
  <2>3. Bad' \subseteq Bad \cup {None}
    BY <1>1, <1>3, <2>1, <2>2, BadFrame, WorkFrame DEF Linking
  <2> QED
    BY <2>3, NoneFacts DEF Bad
<1>6. Costless(t) /\ Busy' \subseteq Busy
  <2>1. t \notin Others'
    BY <1>2 DEF Others
  <2> QED
    BY <1>1, <1>2, <1>5, <2>1, CallSets DEF Costless
<1>7. Accounts' /\ Alone'
  BY <1>0, <1>4, <1>6, CostlessAccounts, AloneStays
<1>8. TitlesAgree'
  BY <1>0, <1>1, TitlesStay DEF Idle
<1> QED
  BY <1>4, <1>7, <1>8 DEF IInv

-----------------------------------------------------------------------------
(* The calls begin. *)

LEMMA BeginFacts ==
    ASSUME IInv, NEW t \in Threads, NEW call \in CallType, Begin(t, call)
    PROVE  /\ calls'[t] = call /\ projects' = projects /\ owned' = owned /\ Known' = Known
           /\ \A p \in Ids : (Active(p)' <=> Active(p)) /\ Children(p)' = Children(p)
           /\ \A p \in Ids : Active(p) => p \in Known
<1>1. Becomes(t, call)
  BY DEF Becomes, Begin
<1>2. calls'[t] = call
  BY <1>1, BecomesFacts DEF IInv, Structure
<1>3. projects' = projects /\ created' = created /\ owned' = owned
  BY DEF Begin
<1>4. ProjectsFit
  BY DEF IInv, Structure
<1> QED
  BY <1>2, <1>3, <1>4 DEF Known, Active, Children, ProjectsFit, Absent

LEMMA BeginCreateStep ==
    ASSUME IInv, NEW t \in Threads, NEW kind \in {"subject", "project"}, NEW title \in Titles,
           BeginCreate(t, kind, title)
    PROVE  IInv'
<1> DEFINE call == [Idle EXCEPT !.kind = kind, !.step = "create", !.title = title]
<1>1. /\ call \in CallType /\ call.kind = kind /\ call.step = "create" /\ call.work = <<>>
  BY NoWork DEF Idle, CallType, Kinds, Steps
<1>2. Begin(t, call)
  BY DEF BeginCreate
<1> HIDE DEF call
<1>3. calls'[t] = call /\ projects' = projects
  BY <1>1, <1>2, BeginFacts
<1>4. CallFits(t)'
  BY <1>1, <1>3 DEF CallFits, Stepwise, CreationFits, MaterialFits, WorkFits, DeletionFits,
     Holding, Item
<1> QED
  BY <1>1, <1>2, <1>3, <1>4, BeginStep

\* A project one may see leads to a subject.
LEMMA SubjectIsRoot ==
    ASSUME IInv, NEW p \in owned, Active(SubjectOf(p))
    PROVE  SubjectOf(p) \in Ids /\ Root(SubjectOf(p))
<1>0. ProjectsFit /\ p \in Ids /\ projects[p].link \in Ids \cup {None}
  BY TypeFacts DEF IInv, Structure, TypeOk, ProjectType
<1>1. CASE projects[p].link # None
  BY <1>0, <1>1 DEF SubjectOf, ProjectsFit
<1>2. CASE projects[p].link = None
  BY <1>0, <1>2 DEF SubjectOf, ProjectsFit
<1> QED
  BY <1>1, <1>2

LEMMA BeginMaterialStep ==
    ASSUME IInv, NEW t \in Threads, NEW p \in Ids, NEW title \in Titles,
           BeginMaterial(t, p, title)
    PROVE  IInv'
<1>0. p \in owned /\ Active(SubjectOf(p))
  BY DEF BeginMaterial
<1>1. PICK s \in Ids : s = SubjectOf(p) /\ Root(s)
  BY <1>0, SubjectIsRoot
<1> DEFINE call == [Idle EXCEPT !.kind = "material", !.step = "create",
                                !.subject = s, !.title = title]
<1>2. /\ call \in CallType /\ call.kind = "material" /\ call.step = "create"
      /\ call.work = <<>> /\ call.subject = s
  BY NoWork DEF Idle, CallType, Kinds, Steps
<1>3. Begin(t, call)
  BY <1>1 DEF BeginMaterial
<1> HIDE DEF call
<1>4. calls'[t] = call /\ projects' = projects
  BY <1>2, <1>3, BeginFacts
<1>5. ASSUME Moves(t), TypeOk' PROVE CallFits(t)'
  <2>1. Root(s)'
    BY <1>1, <1>5, RootStays DEF IInv
  <2>2. MaterialFits(t)'
    BY <1>2, <1>4, <2>1 DEF MaterialFits
  <2> QED
    BY <1>2, <1>4, <2>2 DEF CallFits, Stepwise, CreationFits, WorkFits, DeletionFits,
       Holding, Item
<1> QED
  BY <1>2, <1>3, <1>4, <1>5, BeginStep

\* What a deletion is going to forget is covered by the visit it begins with.
LEMMA BeginDeletion ==
    ASSUME IInv, NEW t \in Threads, NEW call \in CallType, Begin(t, call),
           NEW target \in Ids, target \in Known, NEW related, related # {}, related \subseteq Known,
           call.kind = "delete", call.step = "delete", call.related = related,
           call.work = <<Visit(target)>>,
           \A r \in related : \/ r = target \/ ~Active(target) \/ r \in Children(target)
                              \/ Orphan(r)
    PROVE  IInv'
<1>1. /\ calls'[t] = call /\ projects' = projects /\ Known' = Known
      /\ \A p \in Ids : (Active(p)' <=> Active(p)) /\ Children(p)' = Children(p)
  BY BeginFacts
<1>2. /\ DOMAIN call.work = {1} /\ call.work[1].op = "visit" /\ call.work[1].project = target
  BY DEF Visit
<1>3. ASSUME NEW r \in related PROVE Settled(t, r)'
  <2>1. Item(t, 1, "visit", target)' /\ 1 \in DOMAIN calls'[t].work
    BY <1>1, <1>2 DEF Item
  <2>2. CASE Orphan(r)
    <3>1. Orphan(r)'
      BY <1>1, <2>2 DEF Orphan, ListedBy, Active
    <3> QED
      BY <3>1 DEF Settled
  <2>3. CASE r = target
    BY <1>1, <1>2, <2>1, <2>3 DEF Settled
  <2>4. CASE ~Active(target) \/ r \in Children(target)
    <3>1. ~Active(target)' \/ r \in Children(target)'
      BY <1>1, <2>4
    <3> QED
      BY <2>1, <3>1 DEF Settled
  <2> QED
    BY <2>2, <2>3, <2>4
<1>4. WorkFits(t)'
  BY <1>1, <1>2 DEF WorkFits, Item
<1>5. DeletionFits(t)'
  BY <1>1, <1>3 DEF DeletionFits
<1>6. CallFits(t)'
  BY <1>1, <1>4, <1>5 DEF CallFits, Stepwise, CreationFits, MaterialFits, Holding, Creating
<1> QED
  BY <1>1, <1>2, <1>6, BeginStep

LEMMA RelatedFacts ==
    ASSUME IInv, NEW p \in Ids, Active(p)
    PROVE  /\ p \in Known /\ Related(p) # {} /\ Related(p) \subseteq Known
           /\ SubjectOf(p) \in Known /\ SubjectOf(p) \in Ids
           /\ \A r \in Related(p) :
                r = p \/ r = SubjectOf(p) \/ (projects[p].link = None /\ r \in Children(p))
           /\ projects[p].link = None => SubjectOf(p) = p
           /\ p = SubjectOf(p) \/ p \in Children(SubjectOf(p)) \/ Orphan(p)
           /\ projects[p].link # None => Related(p) = {p}
<1>0. ProjectsFit /\ projects[p].link \in Ids \cup {None} /\ Known \subseteq Ids
  BY TypeFacts DEF IInv, Structure, TypeOk, ProjectType
<1>1. p \in Known /\ Children(p) \subseteq Known
  BY <1>0 DEF ProjectsFit, Absent, Active
<1>2. CASE projects[p].link = None
  BY <1>0, <1>1, <1>2 DEF Related, SubjectOf
<1>3. CASE projects[p].link # None
  BY <1>0, <1>1, <1>3 DEF Related, SubjectOf, ProjectsFit, Root, Orphan, ListedBy
<1> QED
  BY <1>2, <1>3

LEMMA DeleteType ==
    ASSUME NEW target \in Ids, NEW related \in SUBSET Ids
    PROVE  LET call == [Idle EXCEPT !.kind = "delete", !.step = "delete",
                                    !.related = related, !.work = <<Visit(target)>>]
           IN  /\ call \in CallType /\ call.kind = "delete" /\ call.step = "delete"
               /\ call.related = related /\ call.work = <<Visit(target)>>
<1>1. <<Visit(target)>> \in Seq(ItemType)
  BY VisitType
<1> QED
  BY <1>1 DEF Idle, CallType, Kinds, Steps

LEMMA BeginDeleteStep ==
    ASSUME IInv, NEW t \in Threads, NEW p \in Ids,
           BeginDeleteProject(t, p) \/ BeginDeleteSubject(t, p)
    PROVE  IInv'
<1>1. PICK target : target \in {p, SubjectOf(p)} /\ BeginDelete(t, p, target)
  BY DEF BeginDeleteProject, BeginDeleteSubject
<1>2. Active(p)
  BY <1>1 DEF BeginDelete
<1>3. /\ target \in Known /\ target \in Ids /\ Related(p) # {} /\ Related(p) \subseteq Known
      /\ Related(p) \in SUBSET Ids
      /\ \A r \in Related(p) : \/ r = target \/ ~Active(target) \/ r \in Children(target)
                               \/ Orphan(r)
  <2>1. Known \subseteq Ids
    BY TypeFacts DEF IInv, Structure
  <2> QED
    BY <1>1, <1>2, <2>1, RelatedFacts
<1> DEFINE call == [Idle EXCEPT !.kind = "delete", !.step = "delete",
                                !.related = Related(p), !.work = <<Visit(target)>>]
<1>4. /\ call \in CallType /\ call.kind = "delete" /\ call.step = "delete"
      /\ call.related = Related(p) /\ call.work = <<Visit(target)>>
  BY <1>3, DeleteType
<1>5. Begin(t, call)
  BY <1>1 DEF BeginDelete
<1> HIDE DEF call
<1> QED
  BY <1>3, <1>4, <1>5, BeginDeletion

LEMMA BeginDeleteMaterialStep ==
    ASSUME IInv, NEW t \in Threads, NEW p \in Ids, NEW child \in Ids,
           BeginDeleteMaterial(t, p, child)
    PROVE  IInv'
<1>1. PICK s : s = SubjectOf(p) /\ Active(s) /\ p \in owned /\ child \in Children(s)
  BY DEF BeginDeleteMaterial
<1>2. child \in Known
  <2>1. s \in Ids /\ ProjectsFit
    BY <1>1, SubjectIsRoot DEF IInv, Structure
  <2> QED
    BY <1>1, <2>1 DEF ProjectsFit
<1> DEFINE call == [Idle EXCEPT !.kind = "delete", !.step = "delete",
                                !.related = {child}, !.work = <<Visit(child)>>]
<1>4. /\ call \in CallType /\ call.kind = "delete" /\ call.step = "delete"
      /\ call.related = {child} /\ call.work = <<Visit(child)>>
  <2>1. {child} \in SUBSET Ids
    OBVIOUS
  <2> QED
    BY <2>1, DeleteType
<1>5. Begin(t, call)
  BY DEF BeginDeleteMaterial
<1> HIDE DEF call
<1> QED
  BY <1>2, <1>4, <1>5, BeginDeletion

LEMMA BeginEditStep ==
    ASSUME IInv, NEW t \in Threads, NEW p \in Ids, NEW title \in Titles, BeginEdit(t, p, title)
    PROVE  IInv'
<1> DEFINE call == [Idle EXCEPT !.kind = "edit", !.step = "title", !.project = p,
                                !.subject = projects[p].link, !.title = title]
<1>0. projects[p].link \in Ids \cup {None} /\ Active(p)
  BY TypeFacts DEF IInv, Structure, TypeOk, ProjectType, BeginEdit
<1>1. /\ call \in CallType /\ call.kind = "edit" /\ call.step = "title" /\ call.work = <<>>
      /\ call.project = p /\ call.subject = projects[p].link
  BY <1>0, NoWork DEF Idle, CallType, Kinds, Steps
<1>2. Begin(t, call)
  BY DEF BeginEdit
<1> HIDE DEF call
<1>3. calls'[t] = call /\ projects' = projects /\ Known' = Known /\ p \in Known
  BY <1>0, <1>1, <1>2, BeginFacts
<1>4. CallFits(t)'
  BY <1>1, <1>3 DEF CallFits, Stepwise, CreationFits, MaterialFits, WorkFits, DeletionFits,
     Holding, Creating, Item
<1> QED
  BY <1>1, <1>2, <1>3, <1>4, BeginStep

-----------------------------------------------------------------------------
(* Creations. *)

\* A creation that cannot go on deletes what it has made.
LEMMA UndoFacts ==
    ASSUME IInv, NEW t \in Threads, calls[t].step \in {"stock", "add", "link"}, Undo(t),
           projects' = projects, created' = created, owned' = owned,
           faults' \in Nat, overlaps' = overlaps
    PROVE  /\ Structure' /\ Only(t) /\ t \in Busy
           /\ Others' \subseteq Others /\ Hands' \subseteq Hands /\ Busy' \subseteq Busy
           /\ Bad' \subseteq Bad \cup {calls[t].project}
           /\ calls[t].step # "link" \/ ~Active(calls[t].project) => Bad' \subseteq Bad
           /\ calls'[t].step = "undo"
<1>0. Structure /\ TypeOk /\ CallFits(t) /\ Holding(t) /\ t \in Busy
  BY HoldingSteps DEF IInv, Structure, Busy
<1>1. PICK c \in Ids : c = calls[t].project /\ c \in Known
  BY <1>0, TypeFacts DEF CallFits, CreationFits
<1>2. <<Visit(c)>> \in Seq(ItemType) /\ "undo" \in Steps
  BY <1>1, VisitType DEF Steps
<1>3. /\ calls' \in [Threads -> CallType] /\ Only(t)
      /\ calls'[t].step = "undo" /\ calls'[t].kind = calls[t].kind
      /\ calls'[t].subject = calls[t].subject /\ calls'[t].project = c
      /\ calls'[t].work = <<Visit(c)>>
  <2>1. PICK work \in Seq(ItemType) : work = <<Visit(c)>>
    BY <1>2
  <2>2. PICK call : call = [calls[t] EXCEPT !.step = "undo", !.work = work]
    OBVIOUS
  <2>3. calls[t] \in CallType
    BY <1>0, TypeFacts
  <2>4. /\ call \in CallType /\ call.step = "undo" /\ call.kind = calls[t].kind
        /\ call.subject = calls[t].subject /\ call.project = calls[t].project
        /\ call.work = work
    BY <1>2, <2>2, <2>3 DEF CallType
  <2>5. calls' = [calls EXCEPT ![t].step = "undo", ![t].work = work]
    BY <1>1, <2>1 DEF Undo
  <2>6. calls' = [calls EXCEPT ![t] = call]
    BY <1>0, <2>2, <2>5 DEF TypeOk
  <2>7. calls' \in [Threads -> CallType] /\ calls'[t] = call /\ Only(t)
    BY <1>0, <2>4, <2>6, BecomesFacts DEF Becomes
  <2> QED
    BY <1>1, <2>1, <2>4, <2>7
<1>4. Holding(t)' /\ t \in Busy' /\ t \notin Others'
  BY <1>0, <1>3 DEF Holding, Creating, Busy, Others
<1>5. Moves(t) /\ \A x : SameBut(x)
  BY <1>0, <1>1, <1>3, <1>4, StillMoves
<1>6. /\ DOMAIN calls'[t].work = {1} /\ calls'[t].work # <<>>
      /\ calls'[t].work[1].op = "visit" /\ calls'[t].work[1].project = c
  BY <1>3 DEF Visit
<1>7. TypeOk'
  BY <1>0, <1>3 DEF TypeOk
<1>8. Known' = Known /\ Children(c)' = Children(c) /\ (Active(c)' <=> Active(c))
      /\ ListedBy(c)' = ListedBy(c)
  BY DEF Known, Children, Active, ListedBy
<1>9. CreationFits(t)'
  <2>1. ASSUME NEW u \in Threads, Holding(u)', calls'[u].project = c PROVE u = t
    BY <1>0, <1>1, <1>3, <2>1 DEF Only, Holding, Creating, CallFits, CreationFits
  <2>2. projects[c].link = None /\ (Active(c) => c \notin owned)
        /\ (calls[t].kind # "material" => ListedBy(c) = {})
    BY <1>0, <1>1 DEF CallFits, CreationFits
  <2> QED
    BY <1>1, <1>3, <1>6, <1>8, <2>1, <2>2 DEF CreationFits
<1>10. MaterialFits(t)'
  <2>1. ASSUME NEW s \in Ids, calls[t].kind = "material", calls[t].subject = s PROVE Root(s)'
    BY <1>0, <1>5, <1>7, <2>1, RootStays DEF CallFits, MaterialFits
  <2> QED
    BY <1>0, <1>3, <2>1 DEF MaterialFits, CallFits
<1>11. WorkFits(t)'
  BY <1>1, <1>3, <1>6, <1>8 DEF WorkFits, Item
<1>12. CallFits(t)'
  BY <1>0, <1>3, <1>9, <1>10, <1>11 DEF CallFits, Stepwise, DeletionFits
<1>13. Structure'
  BY <1>0, <1>5, <1>7, <1>12, StructureStep
<1>14. Others' \subseteq Others /\ Hands' \subseteq Hands /\ Hands \subseteq Hands' /\ Busy' \subseteq Busy
  BY <1>0, <1>3, <1>1, <1>4, CallSets
<1>15. ASSUME NEW x, x = c \/ calls[t].step # "link" \/ ~Active(c) PROVE Bad' \subseteq Bad \cup {x}
  <2>1. \A d \in Ids : ~Linking(t, d)' /\ (d # x /\ Active(d) => ~Linking(t, d))
    BY <1>1, <1>3, <1>15 DEF Linking
  <2>2. calls[t].work = <<>>
    BY <1>0 DEF CallFits, WorkFits
  <2>3. \A d \in Ids : ~Item(t, 1, "delete", d)
    BY <2>2 DEF Item
  <2>4. \A i \in DOMAIN calls'[t].work : calls'[t].work[i].op # "delete"
    BY <1>6
  <2> QED
    BY <1>3, <1>5, <1>14, <2>1, <2>3, <2>4, BadFrame, WorkFrame
<1>16. calls[t].step # "link" \/ ~Active(c) => Bad' \subseteq Bad
  <2>1. calls[t].step # "link" \/ ~Active(c) => Bad' \subseteq Bad \cup {None}
    BY <1>15
  <2> QED
    BY <2>1, NoneFacts DEF Bad
<1> QED
  BY <1>0, <1>1, <1>3, <1>13, <1>14, <1>15, <1>16

\* Without a fault: the project or its subject is gone.
LEMMA RaiseStep ==
    ASSUME IInv, NEW t \in Threads, calls[t].step \in {"stock", "add", "link"}, Raise(t),
           calls[t].step # "link" \/ ~Active(calls[t].project),
           projects' = projects, created' = created, owned' = owned,
           faults' = faults, overlaps' = overlaps
    PROVE  IInv'
<1>0. Undo(t) /\ faults' \in Nat
  BY DEF Raise, IInv, Structure, TypeOk
<1>1. /\ Structure' /\ Only(t) /\ t \in Busy
      /\ Others' \subseteq Others /\ Hands' \subseteq Hands /\ Busy' \subseteq Busy
      /\ Bad' \subseteq Bad /\ calls'[t].step = "undo"
  BY <1>0, UndoFacts
<1>2. Costless(t)
  BY <1>1 DEF Costless
<1>3. Accounts' /\ Alone'
  BY <1>1, <1>2, CostlessAccounts, AloneStays DEF IInv
<1>4. TitlesAgree'
  BY <1>1, TitlesStay DEF IInv
<1> QED
  BY <1>1, <1>3, <1>4 DEF IInv

LEMMA CreateProjectStep ==
    ASSUME IInv, NEW t \in Threads, CreateProject(t)
    PROVE  IInv'
<1>n. PICK n : n = created + 1
  OBVIOUS
<1>l. PICK title : title = calls[t].title
  OBVIOUS
<1>s. PICK step : step = CASE calls[t].kind = "subject"  -> "stock"
                           [] calls[t].kind = "project"  -> "own"
                           [] calls[t].kind = "material" -> "add"
  OBVIOUS
<1>c. PICK call : call = [calls[t] EXCEPT !.project = n, !.step = step]
  OBVIOUS
<1>0. /\ Structure /\ Accounts /\ Alone /\ TitlesAgree /\ TypeOk /\ ProjectsFit /\ CallFits(t)
      /\ calls[t] \in CallType /\ calls[t].step = "create" /\ calls[t].work = <<>>
      /\ faults' = faults /\ overlaps' = overlaps /\ owned' = owned /\ created' = n
  BY <1>n, TypeFacts DEF IInv, Structure, CreateProject, CallFits, WorkFits
<1>1. /\ n \in Ids /\ n \notin Known /\ Known' = Known \cup {n} /\ n \in Nat /\ created' >= created
      /\ Known \subseteq Ids /\ created' \in 0..MaxProjects
  <2>1. created \in 0..MaxProjects /\ created < MaxProjects /\ MaxProjects \in Nat
    BY <1>0, SubjectsAssumption DEF TypeOk, CreateProject
  <2> QED
    BY <1>0, <1>n, <2>1 DEF Known, Ids
<1>2. /\ calls[t].kind \in {"subject", "project", "material"}
      /\ step \in {"stock", "own", "add"} /\ (calls[t].kind = "subject" <=> step = "stock")
      /\ (calls[t].kind = "material" <=> step = "add") /\ (calls[t].kind = "project" <=> step = "own")
  <2>1. calls[t].kind \in {"subject", "project", "material"}
    BY <1>0 DEF CallFits, Stepwise
  <2> QED
    BY <2>1, <1>s
<1>3. /\ call \in CallType /\ call.kind = calls[t].kind /\ call.step = step /\ call.project = n
      /\ call.subject = calls[t].subject /\ call.title = title /\ call.work = <<>>
  BY <1>0, <1>1, <1>2, <1>c, <1>l DEF CallType, Steps
<1>4. calls' = [calls EXCEPT ![t] = call]
  <2>1. calls' = [calls EXCEPT ![t].project = n, ![t].step = step]
    BY <1>n, <1>s DEF CreateProject
  <2> QED
    BY <1>0, <1>c, <2>1 DEF TypeOk
<1>5. calls' \in [Threads -> CallType] /\ calls'[t] = call /\ Only(t)
  BY <1>0, <1>3, <1>4, BecomesFacts DEF Becomes
<1>6. title \in Titles \cup {None}
  BY <1>0, <1>l DEF CallType
<1>7. Bootstrap(title) \in ProjectType /\ Bootstrap(title).state = "active"
      /\ Bootstrap(title).link = None /\ Bootstrap(title).title = title
      /\ DOMAIN Bootstrap(title).materials = {}
  BY <1>6, EmptyMap DEF Bootstrap, Absent, ProjectType
<1>8. projects' = [projects EXCEPT ![n] = Bootstrap(title)]
  BY <1>0, <1>n, <1>l DEF CreateProject
<1>9. /\ projects' \in [Ids -> ProjectType] /\ projects'[n] = Bootstrap(title)
      /\ \A p \in Ids : p # n => projects'[p] = projects[p]
  BY <1>0, <1>1, <1>7, <1>8 DEF TypeOk
<1>10. projects[n] = Absent /\ ~Active(n) /\ Children(n) = {} /\ projects[n].link = None
  BY <1>0, <1>1, EmptyMap DEF ProjectsFit, Absent, Active, Children
<1>11. /\ \A p \in Ids : p # n => (Active(p)' <=> Active(p)) /\ projects'[p].link = projects[p].link
       /\ \A p \in Ids : Children(p)' = Children(p)
       /\ Active(n)' /\ projects'[n].link = None
  BY <1>7, <1>9, <1>10 DEF Active, Children
<1>12. \A c : ListedBy(c)' = ListedBy(c)
  BY <1>11 DEF ListedBy
<1>13. ListedBy(n) = {}
  BY <1>0, <1>1 DEF ListedBy, ProjectsFit
<1>14. TypeOk'
  BY <1>0, <1>1, <1>5, <1>9 DEF TypeOk
<1>15. Holding(t)' /\ ~Holding(t) /\ t \in Others /\ t \notin Others' /\ t \in Busy
  BY <1>0, <1>2, <1>3, <1>5 DEF Holding, Creating, Others, Busy
<1>16. Moves(t)
  <2>1. \A p \in Known : p \in Ids /\ p # n
    BY <1>1
  <2>2. \A p \in Ids : p \notin Known' => projects'[p] = Absent
    BY <1>0, <1>1, <1>9 DEF ProjectsFit
  <2>3. \A p \in Ids : ~Active(p)' => Children(p)' = {} /\ projects'[p].link = None
    BY <1>0, <1>11 DEF ProjectsFit
  <2>4. \A p \in Ids : Children(p)' \subseteq Known'
    BY <1>0, <1>1, <1>11 DEF ProjectsFit
  <2>5. \A p \in Ids : projects'[p].link = projects[p].link
    BY <1>10, <1>11
  <2> QED
    BY <1>0, <1>1, <1>3, <1>5, <1>11, <2>1, <2>2, <2>3, <2>4, <2>5 DEF Moves
<1>17. \A u \in Threads : Holding(u) => calls[u].project # n
  BY <1>0, <1>1 DEF Structure, CallFits, CreationFits
<1>18. CreationFits(t)'
  <2>1. ASSUME NEW u \in Threads, Holding(u)', calls'[u].project = n PROVE u = t
    BY <1>5, <1>17, <2>1 DEF Only, Holding, Creating
  <2>2. n \notin owned'
    BY <1>0, <1>1 DEF ProjectsFit
  <2> QED
    BY <1>1, <1>2, <1>3, <1>5, <1>11, <1>12, <1>13, <2>1, <2>2 DEF CreationFits
<1>19. MaterialFits(t)'
  <2>1. ASSUME NEW s \in Ids, calls[t].kind = "material", calls[t].subject = s PROVE Root(s)'
    BY <1>0, <1>14, <1>16, <2>1, RootStays DEF CallFits, MaterialFits
  <2> QED
    BY <1>0, <1>2, <1>3, <1>5, <2>1 DEF MaterialFits, CallFits
<1>20. CallFits(t)'
  <2>1. WorkFits(t)' /\ DeletionFits(t)'
    BY <1>2, <1>3, <1>5 DEF WorkFits, DeletionFits, Item
  <2>2. Stepwise(t)' /\ calls'[t].step \notin {"title", "retitle"}
    BY <1>2, <1>3, <1>5 DEF Stepwise
  <2> QED
    BY <1>18, <1>19, <2>1, <2>2 DEF CallFits
<1>21. Structure'
  BY <1>0, <1>14, <1>16, <1>20, StructureStep
<1>22. Hands' \subseteq Hands \cup {n} /\ Hands \subseteq Hands' /\ Others' \subseteq Others \ {t}
       /\ Busy' \subseteq Busy /\ n \in Hands'
  <2>1. n \in Hands'
    BY <1>3, <1>5, <1>15 DEF Hands
  <2> QED
    BY <1>3, <1>5, <1>15, <2>1, CallSets
<1>23. Bad' \subseteq Bad
  <2>1. SameBut(n)
    BY <1>11, <1>12 DEF SameBut
  <2>2. \A d \in Ids : ~Linking(t, d)' /\ ~Linking(t, d)
    BY <1>0, <1>2, <1>3, <1>5 DEF Linking
  <2>3. \A d \in Ids : ~Item(t, 1, "delete", d)
    BY <1>0 DEF Item
  <2>4. calls'[t].work = calls[t].work
    BY <1>0, <1>3, <1>5
  <2>5. Bad' \subseteq Bad \cup {n}
    BY <1>0, <1>3, <1>5, <1>22, <2>1, <2>2, <2>3, <2>4, BadFrame, WorkFrame
  <2>6. ASSUME n \in Bad' PROVE FALSE
    <3>1. ListedBy(n)' = {}
      BY <1>12, <1>13
    <3>2. ~Misplaced(n)' /\ ~Doomed(n)' /\ ~Overlooked(n)'
      BY <1>1, <3>1 DEF Misplaced, Doomed, Overlooked, ListedBy
    <3>3. ~Stray(n)' /\ ~Unseen(n)'
      BY <1>11, <1>22 DEF Stray, Orphan, Unseen
    <3>4. ASSUME NEW u \in Threads, Linking(u, n)' PROVE FALSE
      <4>1. Linking(u, n) /\ u # t
        BY <1>1, <1>5, <2>2, <3>4 DEF Only, Linking
      <4> QED
        BY <1>0, <1>17, <4>1, HoldingSteps DEF Linking
    <3>5. ~Stranded(n)' /\ ~Lost(n)'
      BY <1>11, <3>4 DEF Stranded, Lost
    <3> QED
      BY <2>6, <3>2, <3>3, <3>5 DEF Bad
  <2> QED
    BY <2>5, <2>6
<1>24. Accounts' /\ Alone'
  <2>1. Creates(t, n)
    BY <1>0, <1>15, <1>22, <1>23 DEF Creates
  <2> QED
    BY <1>0, <1>21, <1>22, <2>1, CreatesAccounts, AloneStays
<1>25. TitlesAgree'
  <2>1. ASSUME faults' = 0, overlaps = 0, NEW p \in Ids, NEW c \in Children(p)'
        PROVE  projects'[p].materials[c] = projects'[c].title
    <3>1. c \in Children(p) /\ c # n /\ p # n /\ c \in Ids
      BY <1>0, <1>1, <1>10, <1>11, <2>1 DEF ProjectsFit
    <3>2. \A u \in Threads : calls[u].step # "retitle"
      BY <1>0, <1>15, <2>1 DEF Alone, Busy
    <3>3. projects[p].materials[c] = projects[c].title
      BY <1>0, <2>1, <3>1, <3>2 DEF TitlesAgree
    <3> QED
      BY <1>9, <3>1, <3>3
  <2>2. calls'[t].step # "title" /\ calls'[t].title = projects'[calls'[t].project].title
    BY <1>2, <1>3, <1>5, <1>7, <1>9
  <2> QED
    BY <1>0, <1>5, <1>15, <2>1, <2>2, TitlesFrame
<1> QED
  BY <1>21, <1>24, <1>25 DEF IInv

\* A call goes on to its next step, the projects as they were.
LEMMA PassStep ==
    ASSUME IInv, NEW t \in Threads, t \in Busy, Only(t), calls' \in [Threads -> CallType],
           projects' = projects, created' = created, faults' = faults, overlaps' = overlaps,
           owned' \subseteq owned,
           calls[t].step \notin {"own", "retitle"}, calls'[t].step \notin {"title", "add", "retitle"},
           Holding(t)' <=> Holding(t), calls'[t].project = calls[t].project,
           Bad' \subseteq Bad \/ (Bad' \subseteq Load /\ Others # {}),
           Moves(t) /\ TypeOk' => CallFits(t)'
    PROVE  IInv'
<1>0. Structure /\ Accounts /\ Alone /\ TitlesAgree /\ TypeOk
  BY DEF IInv, Structure
<1>1. Moves(t)
  BY <1>0, StillMoves
<1>2. TypeOk'
  BY <1>0 DEF TypeOk
<1>3. Structure'
  BY <1>0, <1>1, <1>2, StructureStep
<1>4. Costless(t) /\ Busy' \subseteq Busy
  <2>1. t \in Others' => t \in Others
    BY DEF Others
  <2> QED
    BY <2>1, CallSets DEF Costless
<1>5. Accounts' /\ Alone' /\ TitlesAgree'
  BY <1>0, <1>3, <1>4, CostlessAccounts, AloneStays, TitlesStay
<1> QED
  BY <1>3, <1>5 DEF IInv

\* Such a step spoils nothing when it plans no deletion.
LEMMA PassBad ==
    ASSUME NEW t \in Threads, Only(t), projects' = projects,
           Holding(t)' <=> Holding(t), calls'[t].project = calls[t].project,
           calls[t].step # "link", calls'[t].step \notin {"link", "add"},
           \A c \in Ids : Orphan(c) => ~Item(t, 1, "delete", c),
           \/ calls'[t].work = calls[t].work
           \/ \A i \in DOMAIN calls'[t].work : calls'[t].work[i].op # "delete",
           \A c \in Ids : Active(c) /\ ~Orphan(c) /\ c \in owned => c \in owned'
    PROVE  Bad' \subseteq Bad
<1>1. \A x : SameBut(x)
  BY DEF SameBut, Active, ListedBy, Children
<1>2. \A c : c \notin Hands' => c \notin Hands
  BY CallSets
<1>3. Bad' \subseteq Bad \cup {None}
  BY <1>1, <1>2, BadFrame, WorkFrame DEF Linking
<1> QED
  BY <1>3, NoneFacts DEF Bad

LEMMA StockStep ==
    ASSUME IInv, NEW t \in Threads, Stock(t)
    PROVE  IInv'
<1>0. /\ Structure /\ TypeOk /\ ProjectsFit /\ CallFits(t) /\ t \in Busy /\ Holding(t)
      /\ calls[t].step = "stock" /\ calls[t].kind = "subject" /\ calls[t].work = <<>>
      /\ created' = created /\ owned' = owned /\ faults' = faults /\ overlaps' = overlaps
  <2>1. calls[t].step = "stock"
    BY DEF Stock
  <2>2. Structure /\ CallFits(t)
    BY DEF IInv, Structure
  <2> QED
    BY <2>1, <2>2, HoldingSteps DEF Structure, Stock, Rest, Busy, CallFits, Stepwise, WorkFits
<1>p. projects' = projects
  <2>1. CASE ~Active(calls[t].project)
    BY <2>1 DEF Stock
  <2>2. CASE Active(calls[t].project)
    <3>c. PICK c \in Ids : c = calls[t].project
      BY <1>0, TypeFacts DEF CallFits, CreationFits
    <3>1. projects' = [projects EXCEPT ![c].materials = <<>>]
      BY <2>2, <3>c DEF Stock
    <3>2. c \in Hands
      BY <1>0, <3>c DEF Hands
    <3>3. projects[c].materials \in Maps /\ DOMAIN projects[c].materials = {}
      BY <1>0, <3>2 DEF TypeOk, ProjectType, ProjectsFit, Root, Children
    <3>4. projects[c].materials = <<>>
      <4>1. projects[c].materials \in [{} -> Titles \cup {None}]
        BY <3>3 DEF Maps
      <4>2. <<>> \in [{} -> Titles \cup {None}]
        BY EmptyMap DEF Maps
      <4> QED
        BY <4>1, <4>2
    <3> QED
      BY <1>0, <3>1, <3>4 DEF TypeOk, ProjectType
  <2> QED
    BY <2>1, <2>2
<1>1. CASE ~Active(calls[t].project)
  <2>1. Finish(t)
    BY <1>1 DEF Stock
  <2>2. \A c \in Ids : ~Item(t, 1, "delete", c)
    BY <1>0 DEF Item
  <2> QED
    BY <1>0, <1>p, <1>1, <2>1, <2>2, FinishStep DEF TypeOk
<1>2. CASE Active(calls[t].project)
  <2>1. PICK step \in Steps : step = "own" /\ Goto(t, step)
    BY <1>2 DEF Stock, Steps
  <2>2. /\ calls' \in [Threads -> CallType] /\ Only(t)
        /\ calls'[t].step = "own" /\ calls'[t].kind = "subject"
        /\ calls'[t].project = calls[t].project /\ calls'[t].work = calls[t].work
    BY <1>0, <2>1, GotoFacts
  <2>3. Holding(t)'
    BY <2>2 DEF Holding, Creating
  <2>4. Bad' \subseteq Bad
    BY <1>0, <1>p, <2>2, <2>3, PassBad DEF Item
  <2>5. ASSUME Moves(t), TypeOk' PROVE CallFits(t)'
    <3>1. PICK c \in Ids : c = calls[t].project /\ c \in Known
      BY <1>0, TypeFacts DEF CallFits, CreationFits
    <3>2. \A u \in Threads : Holding(u)' /\ calls'[u].project = c => Holding(u) /\ calls[u].project = c
      BY <1>0, <2>2, <3>1 DEF Only, Holding, Creating
    <3>3. Known' = Known /\ (Active(c)' <=> Active(c)) /\ ListedBy(c)' = ListedBy(c)
      BY <1>0, <1>p DEF Known, Active, ListedBy, Children
    <3>4. CreationFits(t)'
      BY <1>0, <1>p, <2>2, <3>1, <3>2, <3>3 DEF CallFits, CreationFits
    <3> QED
      BY <1>0, <2>2, <3>4 DEF CallFits, Stepwise, MaterialFits, WorkFits, DeletionFits, Item
  <2> QED
    BY <1>0, <1>p, <2>2, <2>3, <2>4, <2>5, PassStep
<1> QED
  BY <1>1, <1>2

LEMMA AddOwnerStep ==
    ASSUME IInv, NEW t \in Threads, AddOwner(t)
    PROVE  IInv'
<1>0. /\ Structure /\ TypeOk /\ CallFits(t) /\ t \in Busy /\ Holding(t)
      /\ calls[t].step = "own" /\ calls[t].work = <<>>
      /\ projects' = projects /\ created' = created /\ Finish(t)
      /\ faults' = faults /\ overlaps' = overlaps
  <2>1. calls[t].step = "own"
    BY DEF AddOwner
  <2>2. Structure /\ CallFits(t)
    BY DEF IInv, Structure
  <2> QED
    BY <2>1, <2>2, HoldingSteps DEF Structure, AddOwner, Busy, CallFits, WorkFits
<1>1. PICK c \in Ids : c = calls[t].project
  BY <1>0, TypeFacts DEF CallFits, CreationFits
<1>2. owned' = owned \cup {c} /\ owned' \subseteq Ids
  BY <1>0, <1>1 DEF AddOwner, TypeOk
<1> QED
  BY <1>0, <1>1, <1>2, FinishStep DEF Item

\* Titles stay when a step leaves the lists and the titles.
LEMMA TitlesKept ==
    ASSUME TitlesAgree, Alone, NEW t \in Threads, t \in Busy, Only(t), overlaps' = overlaps,
           faults' = faults, calls[t].step # "retitle", calls'[t].step \notin {"title", "add", "retitle"},
           \A p \in Ids : \A c \in Children(p)' :
              /\ c \in Children(p) /\ projects'[p].materials[c] = projects[p].materials[c]
              /\ projects'[c].title = projects[c].title
    PROVE  TitlesAgree'
<1>1. ASSUME faults' = 0, overlaps = 0
      PROVE  \A p \in Ids : \A c \in Children(p)' :
               projects'[p].materials[c] = projects'[c].title
  <2>1. \A u \in Threads : calls[u].step # "retitle"
    BY <1>1 DEF Alone, Busy
  <2> QED
    BY <1>1, <2>1 DEF TitlesAgree
<1> QED
  BY <1>1, TitlesFrame

\* A call goes on to its next step.
LEMMA WorkStep ==
    ASSUME IInv, NEW t \in Threads, t \in Busy, Moves(t), TypeOk', CallFits(t)',
           faults' = faults, overlaps' = overlaps,
           Holding(t)' => Holding(t) /\ calls'[t].project = calls[t].project,
           t \in Others' => t \in Others,
           Bad' \subseteq Bad \/ (Bad' \subseteq Load /\ Others # {}),
           TitlesAgree'
    PROVE  IInv'
<1>0. Structure /\ Accounts /\ Alone /\ Only(t)
  BY DEF IInv, Moves
<1>1. Structure'
  BY <1>0, StructureStep
<1>2. Costless(t) /\ Busy' \subseteq Busy
  BY <1>0, CallSets DEF Costless
<1>3. Accounts' /\ Alone'
  BY <1>0, <1>1, <1>2, CostlessAccounts, AloneStays
<1> QED
  BY <1>1, <1>3 DEF IInv

LEMMA LinkMaterialStep ==
    ASSUME IInv, NEW t \in Threads, LinkMaterial(t)
    PROVE  IInv'
<1>0. /\ Structure /\ TypeOk /\ ProjectsFit /\ CallFits(t) /\ t \in Busy /\ Holding(t)
      /\ TitlesAgree /\ Alone
      /\ calls[t].step = "link" /\ calls[t].kind = "material" /\ calls[t].work = <<>>
      /\ created' = created /\ owned' = owned /\ faults' = faults /\ overlaps' = overlaps
  <2>1. calls[t].step = "link"
    BY DEF LinkMaterial
  <2>2. Structure /\ CallFits(t)
    BY DEF IInv, Structure
  <2> QED
    BY <2>1, <2>2, HoldingSteps DEF IInv, Structure, LinkMaterial, Rest, Busy, CallFits, WorkFits
<1>1. CASE ~Active(calls[t].project)
  BY <1>0, <1>1, RaiseStep DEF LinkMaterial
<1>2. CASE Active(calls[t].project)
  <2>c. PICK c \in Ids : c = calls[t].project /\ c \in Known
    BY <1>0, TypeFacts DEF CallFits, CreationFits
  <2>s. PICK s \in Ids : s = calls[t].subject
    BY <1>0 DEF CallFits, MaterialFits
  <2>1. PICK step \in Steps : step = "own" /\ Goto(t, step)
    BY <1>2 DEF LinkMaterial, Steps
  <2>2. /\ calls' \in [Threads -> CallType] /\ Only(t)
        /\ calls'[t].step = "own" /\ calls'[t].kind = "material"
        /\ calls'[t].project = c /\ calls'[t].subject = s /\ calls'[t].work = <<>>
    BY <1>0, <2>1, <2>c, <2>s, GotoFacts
  <2>3. /\ Active(c) /\ c \notin owned /\ projects[c].link = None
        /\ \A u \in Threads : Holding(u) /\ calls[u].project = c => u = t
    BY <1>0, <1>2, <2>c DEF CallFits, CreationFits
  <2>4. ListedBy(c) \subseteq {s} /\ (Active(s) => c \in Children(s)) /\ Root(s)
    BY <1>0, <2>3, <2>c, <2>s DEF CallFits, MaterialFits
  <2>5. projects' = [projects EXCEPT ![c].link = s]
    BY <1>2, <2>c, <2>s DEF LinkMaterial
  <2>6. /\ projects' \in [Ids -> ProjectType] /\ projects'[c].link = s
        /\ \A p \in Ids : /\ projects'[p].state = projects[p].state
                          /\ projects'[p].title = projects[p].title
                          /\ projects'[p].materials = projects[p].materials
        /\ \A p \in Ids : p # c => projects'[p] = projects[p]
    <3>1. PICK r : r = [projects[c] EXCEPT !.link = s]
      OBVIOUS
    <3>2. /\ r \in ProjectType /\ r.link = s /\ r.state = projects[c].state
          /\ r.title = projects[c].title /\ r.materials = projects[c].materials
      BY <1>0, <3>1 DEF TypeOk, ProjectType
    <3>3. projects' = [projects EXCEPT ![c] = r]
      BY <2>5, <3>1
    <3> QED
      BY <1>0, <3>2, <3>3 DEF TypeOk
  <2>7. /\ \A p \in Ids : (Active(p)' <=> Active(p)) /\ Children(p)' = Children(p)
        /\ \A d : ListedBy(d)' = ListedBy(d)
        /\ Known' = Known
    BY <1>0, <2>6 DEF Active, Children, ListedBy, Known
  <2>8. TypeOk'
    BY <1>0, <2>2, <2>6 DEF TypeOk
  <2>9. Holding(t)' /\ t \notin Others' /\ ~(\E d : Linking(t, d)')
    BY <2>2 DEF Holding, Creating, Others, Linking
  <2>10. Moves(t)
    <3>1. \A p \in Ids : p # c => projects'[p].link = projects[p].link
      BY <2>6
    <3>2. Linking(t, c)
      BY <1>0, <2>c DEF Linking
    <3>3. created \in Nat /\ \A p \in Known : p \in Ids
      BY <1>0, TypeFacts
    <3>4. \A p \in Ids : p \notin Known' => projects'[p] = Absent
      BY <1>0, <2>6, <2>7, <2>c DEF ProjectsFit
    <3> QED
      BY <1>0, <2>2, <2>3, <2>6, <2>7, <2>c, <2>s, <3>1, <3>2, <3>3, <3>4 DEF Moves, ProjectsFit
  <2>11. CallFits(t)'
    <3>1. \A u \in Threads : Holding(u)' /\ calls'[u].project = c => u = t
      BY <2>2, <2>3 DEF Only, Holding, Creating
    <3>2. CreationFits(t)'
      BY <1>0, <2>2, <2>3, <2>7, <2>c, <3>1 DEF CreationFits
    <3>3. Root(s)'
      BY <1>0, <2>4, <2>8, <2>10, RootStays
    <3>4. MaterialFits(t)'
      BY <2>2, <2>6, <3>3 DEF MaterialFits
    <3> QED
      BY <2>2, <3>2, <3>4 DEF CallFits, Stepwise, WorkFits, DeletionFits, Item
  <2>12. Bad' \subseteq Bad
    <3>1. SameBut(c)
      BY <2>6, <2>7 DEF SameBut
    <3>2. \A d \in Ids : (Doomed(d)' => Doomed(d)) /\ (Overlooked(d)' => Overlooked(d))
      <4>1. \A d \in Ids : d # None => ListedBy(d)' = ListedBy(d)
        BY <2>7
      <4>2. calls'[t].work = calls[t].work
        BY <1>0, <2>2
      <4>3. \A d \in Ids : d # None => (Doomed(d)' => Doomed(d)) /\ (Overlooked(d)' => Overlooked(d))
        BY <2>2, <4>1, <4>2, ListsFrame
      <4> QED
        BY <4>3, NoneFacts
    <3>3. \A d \in Ids : ~Item(t, 1, "delete", d) /\ (d # c => ~Linking(t, d))
      BY <1>0, <2>c DEF Item, Linking
    <3>4. \A d : d \notin Hands' => d \notin Hands
      BY <2>2, <2>9, <2>c, CallSets
    <3>5. Bad' \subseteq Bad \cup {c}
      BY <1>0, <2>2, <2>9, <3>1, <3>2, <3>3, <3>4, BadFrame
    <3>6. ASSUME c \in Bad' PROVE c \in Bad
      <4>1. ~Misplaced(c)'
        BY <2>3, <2>4, <2>6, <2>7 DEF Misplaced, ListedBy
      <4>2. ~Unseen(c)'
        BY <2>2, <2>9 DEF Unseen, Hands
      <4>3. \A u \in Threads : ~Linking(u, c)'
        BY <2>2, <2>3, <2>9, <2>c, HoldingSteps, <1>0 DEF Only, Linking
      <4>4. ~Stranded(c)'
        BY <4>3 DEF Stranded
      <4>5. CASE Stray(c)'
        <5>1. s \notin ListedBy(c)
          BY <2>6, <2>7, <4>5 DEF Stray, Orphan
        <5>2. ~Active(s)
          BY <2>4, <5>1 DEF ListedBy
        <5>3. Stranded(c)
          BY <1>0, <2>3, <2>c, <2>s, <5>2 DEF Stranded, Linking
        <5> QED
          BY <5>3 DEF Bad
      <4>6. ~Lost(c)'
        BY <2>3, <2>7 DEF Lost
      <4> QED
        BY <3>2, <3>6, <4>1, <4>2, <4>4, <4>5, <4>6 DEF Bad
    <3> QED
      BY <3>5, <3>6
  <2>13. TitlesAgree'
    <3>1. \A p \in Ids : \A d \in Children(p)' :
             /\ d \in Children(p) /\ projects'[p].materials[d] = projects[p].materials[d]
             /\ projects'[d].title = projects[d].title
      <4>1. \A p \in Ids : Children(p) \subseteq Ids
        BY <1>0, TypeFacts
      <4> QED
        BY <2>6, <2>7, <4>1
    <3>2. calls[t].step # "retitle" /\ calls'[t].step \notin {"title", "add", "retitle"}
      BY <1>0, <2>2
    <3> QED
      BY <1>0, <2>2, <3>1, <3>2, TitlesKept
  <2> QED
    BY <1>0, <2>2, <2>8, <2>9, <2>10, <2>11, <2>12, <2>13, <2>c, WorkStep
<1> QED
  BY <1>1, <1>2

LEMMA AddMaterialStep ==
    ASSUME IInv, NEW t \in Threads, AddMaterial(t)
    PROVE  IInv'
<1>0. /\ Structure /\ TypeOk /\ ProjectsFit /\ CallFits(t) /\ t \in Busy /\ Holding(t)
      /\ TitlesAgree /\ Alone
      /\ calls[t].step = "add" /\ calls[t].kind = "material" /\ calls[t].work = <<>>
      /\ created' = created /\ owned' = owned /\ faults' = faults /\ overlaps' = overlaps
  <2>1. calls[t].step = "add"
    BY DEF AddMaterial
  <2>2. Structure /\ CallFits(t)
    BY DEF IInv, Structure
  <2> QED
    BY <2>1, <2>2, HoldingSteps DEF IInv, Structure, AddMaterial, Rest, Busy, CallFits, WorkFits
<1>1. CASE ~Active(calls[t].subject)
  BY <1>0, <1>1, RaiseStep DEF AddMaterial
<1>2. CASE Active(calls[t].subject)
  <2>c. PICK c \in Ids : c = calls[t].project /\ c \in Known
    BY <1>0, TypeFacts DEF CallFits, CreationFits
  <2>s. PICK s \in Ids : s = calls[t].subject
    BY <1>0 DEF CallFits, MaterialFits
  <2>l. PICK title \in Titles \cup {None} : title = calls[t].title
    BY <1>0, TypeFacts DEF CallType
  <2>1. PICK step \in Steps : step = "link" /\ Goto(t, step)
    BY <1>2 DEF AddMaterial, Steps
  <2>2. /\ calls' \in [Threads -> CallType] /\ Only(t)
        /\ calls'[t].step = "link" /\ calls'[t].kind = "material"
        /\ calls'[t].project = c /\ calls'[t].subject = s /\ calls'[t].work = <<>>
    BY <1>0, <2>1, <2>c, <2>s, GotoFacts
  <2>3. /\ Active(c) => c \notin owned
        /\ projects[c].link = None /\ ListedBy(c) = {}
        /\ \A u \in Threads : Holding(u) /\ calls[u].project = c => u = t
    BY <1>0, <2>c DEF CallFits, CreationFits
  <2>4. Active(s) /\ Root(s) /\ s # c
    <3>1. Root(s)
      BY <1>0, <2>s DEF CallFits, MaterialFits
    <3> QED
      BY <1>0, <1>2, <2>c, <2>s, <3>1 DEF Root, Hands
  <2>5. projects' = [projects EXCEPT ![s].materials = With(@, c, title)]
    BY <1>2, <2>c, <2>s, <2>l DEF AddMaterial
  <2>6. /\ projects' \in [Ids -> ProjectType]
        /\ DOMAIN projects'[s].materials = Children(s) \cup {c}
        /\ projects'[s].materials[c] = title
        /\ \A d \in Children(s) : projects'[s].materials[d] = projects[s].materials[d]
        /\ \A p \in Ids : /\ projects'[p].state = projects[p].state
                          /\ projects'[p].title = projects[p].title
                          /\ projects'[p].link = projects[p].link
        /\ \A p \in Ids : p # s => projects'[p] = projects[p]
    <3>0. PICK list : Lists(list, s, c, title)
      BY DEF Lists
    <3>1. /\ list \in Maps /\ DOMAIN list = Children(s) \cup {c} /\ list[c] = title
          /\ \A d \in Children(s) : d # c => list[d] = projects[s].materials[d]
      <4>1. Listed(list, s, c, title)
        BY <1>0, <3>0, ListFacts
      <4> QED
        BY <4>1 DEF Listed
    <3>2. c \notin Children(s)
      BY <2>3 DEF ListedBy
    <3>3. PICK r : r = [projects[s] EXCEPT !.materials = list]
      OBVIOUS
    <3>4. /\ r \in ProjectType /\ r.materials = list /\ r.state = projects[s].state
          /\ r.title = projects[s].title /\ r.link = projects[s].link
      BY <1>0, <3>1, <3>3 DEF TypeOk, ProjectType
    <3>5. projects' = [projects EXCEPT ![s] = r]
      BY <2>5, <3>0, <3>3 DEF Lists
    <3>6. /\ projects' \in [Ids -> ProjectType] /\ projects'[s] = r
          /\ \A p \in Ids : p # s => projects'[p] = projects[p]
      BY <1>0, <3>4, <3>5 DEF TypeOk
    <3> QED
      BY <3>1, <3>2, <3>4, <3>6
  <2>7. /\ \A p \in Ids : Active(p)' <=> Active(p)
        /\ \A p \in Ids : p # s => Children(p)' = Children(p)
        /\ Children(s)' = Children(s) \cup {c}
        /\ Known' = Known
    BY <1>0, <2>6 DEF Active, Children, Known
  <2>8. ListedBy(c)' = {s} /\ \A d : d # c => ListedBy(d)' = ListedBy(d)
    BY <2>3, <2>7 DEF ListedBy
  <2>9. TypeOk'
    BY <1>0, <2>2, <2>6 DEF TypeOk
  <2>10. Holding(t)' /\ t \notin Others' /\ Linking(t, c)'
    BY <2>2 DEF Holding, Creating, Others, Linking
  <2>11. Moves(t)
    <3>1. created \in Nat /\ \A p \in Known : p \in Ids
      BY <1>0, TypeFacts
    <3>2. \A p \in Ids : p \notin Known' => projects'[p] = Absent
      BY <1>0, <2>4, <2>6, <2>7 DEF ProjectsFit, Root
    <3>3. \A p \in Ids : ~Active(p)' => Children(p)' = {} /\ projects'[p].link = None
      BY <1>0, <2>4, <2>6, <2>7 DEF ProjectsFit
    <3>4. \A p \in Ids : Children(p)' \subseteq Known'
      BY <1>0, <2>7, <2>c DEF ProjectsFit
    <3>5. \A p \in Ids : \A d : d \in Children(p)' /\ d \notin Children(p) => p = s /\ d = c
      BY <2>7
    <3>6. \A p \in Ids : Children(p) \subseteq Children(p)'
      BY <2>7
    <3> QED
      BY <1>0, <2>2, <2>6, <2>7, <2>c, <2>s, <3>1, <3>2, <3>3, <3>4, <3>5, <3>6 DEF Moves
  <2>12. CallFits(t)'
    <3>1. \A u \in Threads : Holding(u)' /\ calls'[u].project = c => u = t
      BY <2>2, <2>3 DEF Only, Holding, Creating
    <3>2. CreationFits(t)'
      BY <1>0, <2>2, <2>3, <2>6, <2>7, <2>c, <3>1 DEF CreationFits
    <3>3. Root(s)'
      BY <1>0, <2>4, <2>9, <2>11, RootStays
    <3>4. MaterialFits(t)'
      BY <2>2, <2>7, <2>8, <3>3 DEF MaterialFits
    <3> QED
      BY <2>2, <3>2, <3>4 DEF CallFits, Stepwise, WorkFits, DeletionFits, Item
  <2>13. Bad' \subseteq Bad \cup {c}
    <3>1. SameBut(c)
      BY <2>6, <2>7, <2>8 DEF SameBut
    <3>2. \A d \in Ids : d # c => (Doomed(d)' => Doomed(d)) /\ (Overlooked(d)' => Overlooked(d))
      BY <1>0, <2>2, <3>1, WorkFrame
    <3>3. \A d \in Ids : ~Item(t, 1, "delete", d) /\ ~Linking(t, d) /\ (d # c => ~Linking(t, d)')
      BY <1>0, <2>2 DEF Item, Linking
    <3>4. \A d : d \notin Hands' => d \notin Hands
      BY <2>2, <2>10, <2>c, CallSets
    <3> QED
      BY <1>0, <2>2, <3>1, <3>2, <3>3, <3>4, BadFrame
  <2>14. ASSUME c \in Bad', c \notin Bad PROVE Others # {}
    <3>1. \A u \in Threads : Holding(u)' /\ calls'[u].project = c => u = t
      BY <2>2, <2>3 DEF Only, Holding, Creating
    <3>2. ~Lost(c)' /\ ~Stranded(c)'
      <4>1. \A u \in Threads : calls'[u].step \in {"add", "link"} /\ calls'[u].project = c => u = t
        BY <1>0, <2>2, <2>3, HoldingSteps DEF Only
      <4> QED
        BY <2>2, <2>4, <2>7, <4>1 DEF Lost, Stranded, Linking
    <3>3. ~Stray(c)' /\ ~Unseen(c)'
      BY <2>2, <2>3, <2>6, <2>10 DEF Stray, Orphan, Unseen, Hands
    <3>4. Active(c)
      BY <1>0, <2>14, <2>c DEF Bad, Lost
    <3>4b. ~Misplaced(c)'
      <4>1. \A p \in Ids : c \in Children(p)' => p = s
        BY <2>8 DEF ListedBy
      <4> QED
        BY <2>7, <2>10, <3>4 DEF Misplaced
    <3>5. PICK u \in Threads, p \in {c, s} : \E i \in DOMAIN calls'[u].work : Item(u, i, "delete", p)'
      BY <2>8, <2>14, <3>2, <3>3, <3>4b DEF Bad, Doomed, Overlooked
    <3>6. PICK i \in DOMAIN calls[u].work : u # t /\ calls[u].work[i].project = p
      <4>1. u # t
        BY <2>2, <3>5
      <4> QED
        BY <2>2, <3>5, <4>1 DEF Only, Item
    <3>7. CallFits(u) /\ calls[u].work # <<>>
      BY <1>0, <3>6 DEF Structure
    <3>8. calls[u].step \in {"delete", "undo"}
      BY <3>7 DEF CallFits, WorkFits
    <3>9. calls[u].step # "undo"
      <4> SUFFICES ASSUME calls[u].step = "undo" PROVE FALSE
        OBVIOUS
      <4>1. Holding(u) /\ calls[u].project \in Ids
        BY <1>0, <3>7, HoldingSteps, TypeFacts DEF CallFits, CreationFits
      <4>2. calls[u].project = p
        BY <3>6, <3>7, <4>1 DEF CallFits, CreationFits
      <4>3. s \notin Hands
        BY <2>4 DEF Root
      <4> QED
        BY <2>3, <3>6, <4>1, <4>2, <4>3 DEF Hands
    <3> QED
      BY <1>0, <3>8, <3>9, HoldingSteps DEF Others, Busy
  <2>15. Bad' \subseteq Bad \/ (Bad' \subseteq Load /\ Others # {})
    <3>1. c \in Hands
      BY <1>0, <2>c DEF Hands
    <3> QED
      BY <2>13, <2>14, <3>1 DEF Load
  <2>16. TitlesAgree'
    <3>1. ASSUME faults' = 0, overlaps = 0, NEW p \in Ids, NEW d \in Children(p)'
          PROVE  projects'[p].materials[d] = projects'[d].title
      <4>1. calls[t].title = projects[c].title
        BY <1>0, <2>c, <3>1 DEF TitlesAgree
      <4>2. CASE p = s /\ d = c
        BY <2>6, <2>l, <4>1, <4>2
      <4>3. CASE d \in Children(p)
        <5>1. \A u \in Threads : calls[u].step # "retitle"
          BY <1>0, <3>1 DEF Alone, Busy
        <5>2. projects[p].materials[d] = projects[d].title
          BY <1>0, <3>1, <4>3, <5>1 DEF TitlesAgree
        <5>3. projects'[p].materials[d] = projects[p].materials[d]
          BY <2>6, <4>3
        <5>4. d \in Ids
          BY <1>0, <4>3, TypeFacts
        <5> QED
          BY <2>6, <5>2, <5>3, <5>4
      <4> QED
        BY <2>7, <3>1, <4>2, <4>3
    <3> QED
      BY <1>0, <2>2, <3>1, TitlesFrame
  <2> QED
    BY <1>0, <2>2, <2>9, <2>10, <2>11, <2>12, <2>15, <2>16, <2>c, WorkStep
<1> QED
  BY <1>1, <1>2

-----------------------------------------------------------------------------
(* Deletions. *)

\* What a deletion is about to do.
LEMMA HeadFacts ==
    ASSUME IInv, NEW t \in Threads, Deleting(t)
    PROVE  LET work == calls[t].work
           IN  /\ Structure /\ TypeOk /\ ProjectsFit /\ CallFits(t) /\ t \in Busy
               /\ Alone /\ TitlesAgree
               /\ calls[t].step \in {"delete", "undo"}
               /\ Holding(t) <=> calls[t].step = "undo"
               /\ ~Holding(t) => t \in Others
               /\ work \in Seq(ItemType) /\ work[1] \in ItemType /\ Head(work) = work[1]
               /\ 1 \in DOMAIN work /\ work[1].project \in Known /\ work[1].project \in Ids
               /\ Holding(t) => calls[t].project = work[1].project
<1>0. /\ Structure /\ TypeOk /\ ProjectsFit /\ CallFits(t) /\ t \in Busy /\ Alone /\ TitlesAgree
      /\ calls[t].step \in {"delete", "undo"} /\ calls[t].work # <<>>
  BY DEF IInv, Structure, Deleting, Busy
<1>1. calls[t].work \in Seq(ItemType) /\ Known \subseteq Ids
  BY <1>0, TypeFacts DEF CallType
<1>2. /\ 1 \in DOMAIN calls[t].work /\ calls[t].work[1] \in ItemType
      /\ Head(calls[t].work) = calls[t].work[1]
  BY <1>0, <1>1
<1>3. Holding(t) <=> calls[t].step = "undo"
  BY <1>0, HoldingSteps
<1>4. calls[t].work[1].project \in Known /\ calls[t].work[1].project \in Ids
  BY <1>0, <1>1, <1>2 DEF CallFits, WorkFits
<1>5. Holding(t) => calls[t].project = calls[t].work[1].project
  BY <1>0, <1>1, <1>2, <1>3 DEF CallFits, CreationFits
<1> QED
  BY <1>0, <1>1, <1>2, <1>3, <1>4, <1>5 DEF Others

\* What is left when the first item is done.
LEMMA TailFacts ==
    ASSUME NEW work \in Seq(ItemType), work # <<>>
    PROVE  /\ Tail(work) \in Seq(ItemType)
           /\ \A i \in DOMAIN Tail(work) :
                /\ i \in Nat /\ i >= 1 /\ i + 1 \in DOMAIN work /\ i + 1 # 1
                /\ Tail(work)[i] = work[i + 1]
           /\ \A i \in DOMAIN work : i # 1 =>
                /\ i \in Nat /\ i - 1 \in DOMAIN Tail(work) /\ i - 1 \in Nat /\ i - 1 >= 1
                /\ Tail(work)[i - 1] = work[i]
  OBVIOUS

\* Every project of a set is visited.
LEMMA AllVisited ==
    ASSUME NEW S, IsFiniteSet(S), NEW f \in SetToSeqs(S)
    PROVE  /\ f \in [1..Cardinality(S) -> S] /\ Cardinality(S) \in Nat
           /\ \A c \in S : \E i \in 1..Cardinality(S) : f[i] = c
<1>1. Cardinality(S) \in Nat
  BY FS_CardinalityType
<1> DEFINE D == 1..Cardinality(S)
<1>2. f \in [D -> S] /\ \A i, j \in D : i # j => f[i] # f[j]
  BY DEF SetToSeqs
<1>3. f \in Injection(D, S)
  BY <1>2 DEF Injection, IsInjective
<1>4. Cardinality(D) = Cardinality(S)
  BY <1>1, FS_Interval
<1> HIDE DEF D
<1>5. f \in Surjection(D, S)
  BY <1>3, <1>4, FS_Injection
<1>6. \A c \in S : \E i \in D : f[i] = c
  BY <1>2, <1>5 DEF Surjection
<1> QED
  BY <1>1, <1>2, <1>6 DEF D

\* The call of t has this work left.
Works(t, work) == calls' = [calls EXCEPT ![t].work = work]

\* A visit becomes n items and the deletion of the project itself.
Expands(t, old, p, n, new) ==
    /\ old = calls[t].work /\ old[1].op = "visit" /\ p = old[1].project /\ Active(p)
    /\ \A i \in DOMAIN new :
         i <= n + 1 \/ (i - n \in DOMAIN old /\ i - n # 1 /\ new[i] = old[i - n])
    /\ \A i \in DOMAIN old : i # 1 => i + n \in DOMAIN new /\ new[i + n] = old[i]
    /\ n + 1 \in DOMAIN new /\ new[n + 1].op = "delete" /\ new[n + 1].project = p
    /\ \A i \in DOMAIN new : i <= n =>
         /\ new[i].op # "delete" /\ new[i].project \in Known
         /\ new[i].op = "unlink" => /\ i = 1 /\ n = 1 /\ new[i].project = p
                                    /\ new[i].subject \in Ids
                                    /\ new[i].subject = projects[p].link
    /\ \A c \in Children(p) : \E j \in DOMAIN new : j <= n /\ new[j].project = c
    /\ Holding(t) => n = 0
    /\ \/ projects[p].link = None
       \/ n = 1 /\ 1 \in DOMAIN new /\ new[1].op = "unlink" /\ new[1].project = p

LEMMA ExpandStep ==
    ASSUME IInv, NEW t \in Threads, Deleting(t), NEW old, NEW p \in Ids, NEW n \in Nat,
           NEW new \in Seq(ItemType), Expands(t, old, p, n, new), Works(t, new),
           projects' = projects, created' = created, owned' = owned,
           faults' = faults, overlaps' = overlaps
    PROVE  IInv'
<1> USE DEF Expands
<1>0. /\ Structure /\ TypeOk /\ ProjectsFit /\ CallFits(t) /\ t \in Busy
      /\ calls[t].step \in {"delete", "undo"} /\ (Holding(t) <=> calls[t].step = "undo")
      /\ (~Holding(t) => t \in Others) /\ old \in Seq(ItemType) /\ 1 \in DOMAIN old
      /\ p \in Known /\ (Holding(t) => calls[t].project = p)
  BY HeadFacts
<1>1. /\ calls' \in [Threads -> CallType] /\ Only(t)
      /\ calls'[t].step = calls[t].step /\ calls'[t].kind = calls[t].kind
      /\ calls'[t].subject = calls[t].subject /\ calls'[t].project = calls[t].project
      /\ calls'[t].related = calls[t].related /\ calls'[t].work = new
  <2>1. calls'[t].related = calls[t].related
    BY <1>0 DEF TypeOk, Works
  <2> QED
    BY <1>0, <2>1, WorkOnlyFacts DEF Works
<1>2. (Holding(t)' <=> Holding(t)) /\ calls[t].step \notin {"own", "retitle", "link"}
      /\ calls'[t].step \notin {"title", "add", "retitle", "link"}
  BY <1>0, <1>1 DEF Holding, Creating
<1>3. /\ \A q \in Ids : (Active(q)' <=> Active(q)) /\ Children(q)' = Children(q)
      /\ \A q : ListedBy(q)' = ListedBy(q) /\ (Orphan(q)' <=> Orphan(q))
      /\ Known' = Known /\ \A x : SameBut(x)
  BY DEF Active, Children, ListedBy, Orphan, Known, SameBut
<1>4. /\ \A i \in DOMAIN new : i \in Nat /\ i >= 1
      /\ \A i \in DOMAIN old : i \in Nat /\ i >= 1
  BY <1>0
<1>5. ASSUME NEW i \in DOMAIN new, NEW q, new[i].op = "delete", new[i].project = q
      PROVE  \/ i = n + 1 /\ q = p
             \/ i > n + 1 /\ i - n \in DOMAIN old /\ i - n > 1 /\ i - n \in Nat /\ new[i] = old[i - n]
  <2>1. i \in Nat /\ (i <= n \/ i = n + 1 \/ i > n + 1)
    BY <1>4
  <2>2. ~(i <= n)
    BY <1>5
  <2>3. CASE i > n + 1
    <3>1. ~(i <= n + 1)
      BY <2>1, <2>3
    <3> QED
      BY <1>5, <2>1, <2>3, <3>1
  <2> QED
    BY <1>5, <2>1, <2>2, <2>3
<1>6. ASSUME NEW c \in Ids, Doomed(c)' PROVE Doomed(c) \/ (c = p /\ ListedBy(p) # {} /\ projects[p].link = None)
  <2>1. PICK u \in Threads : \E i \in DOMAIN calls'[u].work :
           Item(u, i, "delete", c)' /\ ~Item(u, 1, "unlink", c)'
    BY <1>6 DEF Doomed
  <2>2. CASE u # t
    <3>1. calls'[u] = calls[u]
      BY <1>1, <2>2 DEF Only
    <3>2. \E i \in DOMAIN calls[u].work : Item(u, i, "delete", c) /\ ~Item(u, 1, "unlink", c)
      BY <2>1, <3>1 DEF Item
    <3> QED
      BY <1>3, <1>6, <3>2 DEF Doomed
  <2>3. CASE u = t
    <3>1. PICK i \in DOMAIN new : new[i].op = "delete" /\ new[i].project = c
      BY <1>1, <2>1, <2>3 DEF Item
    <3>2. CASE i = n + 1 /\ c = p
      <4>1. projects[p].link = None
        BY <1>1, <2>1, <2>3, <3>2 DEF Item
      <4> QED
        BY <1>3, <1>6, <3>2, <4>1 DEF Doomed
    <3>3. CASE i - n \in DOMAIN old /\ new[i] = old[i - n]
      <4>1. Item(t, i - n, "delete", c) /\ ~Item(t, 1, "unlink", c)
        BY <3>1, <3>3 DEF Item
      <4> QED
        BY <1>3, <1>6, <3>3, <4>1 DEF Doomed
    <3> QED
      BY <1>5, <3>1, <3>2, <3>3
  <2> QED
    BY <2>2, <2>3
<1>7. ASSUME NEW c \in Ids, Overlooked(c)' PROVE Overlooked(c)
  <2>1. PICK q \in ListedBy(c), u \in Threads : \E i \in DOMAIN calls'[u].work :
           /\ Item(u, i, "delete", q)'
           /\ \A j \in DOMAIN calls'[u].work : j < i => calls'[u].work[j].project # c
    BY <1>3, <1>7 DEF Overlooked
  <2>2. CASE u # t
    <3>1. calls'[u] = calls[u]
      BY <1>1, <2>2 DEF Only
    <3>2. PICK i \in DOMAIN calls'[u].work :
           /\ Item(u, i, "delete", q)'
           /\ \A j \in DOMAIN calls'[u].work : j < i => calls'[u].work[j].project # c
      BY <2>1
    <3>3. Item(u, i, "delete", q) /\ i \in DOMAIN calls[u].work
      BY <3>1, <3>2 DEF Item
    <3>4. \A j \in DOMAIN calls[u].work : j < i => calls[u].work[j].project # c
      BY <3>1, <3>2
    <3> QED
      BY <3>3, <3>4 DEF Overlooked
  <2>3. CASE u = t
    <3>1. PICK i \in DOMAIN new : /\ new[i].op = "delete" /\ new[i].project = q
                                  /\ \A j \in DOMAIN new : j < i => new[j].project # c
      BY <1>1, <2>1, <2>3 DEF Item
    <3>2. ASSUME i = n + 1, q = p PROVE FALSE
      <4>1. c \in Children(p)
        BY <3>2 DEF ListedBy
      <4>2. PICK j \in DOMAIN new : j <= n /\ new[j].project = c
        BY <4>1
      <4>3. j < i
        BY <1>4, <3>2, <4>2
      <4> QED
        BY <3>1, <4>2, <4>3
    <3>3. CASE i > n + 1 /\ i - n \in DOMAIN old /\ i - n > 1 /\ i - n \in Nat /\ new[i] = old[i - n]
      <4>1. Item(t, i - n, "delete", q)
        BY <3>1, <3>3 DEF Item
      <4>2. ASSUME NEW j \in DOMAIN old, j < i - n PROVE old[j].project # c
        <5>1. j \in Nat /\ i \in Nat
          BY <1>4
        <5>2. CASE j = 1
          <6>1. n + 1 < i
            BY <3>3
          <6>2. new[n + 1].project # c
            BY <3>1, <6>1
          <6> QED
            BY <5>2, <6>2
        <5>3. CASE j # 1
          <6>1. j + n < i
            BY <4>2, <5>1
          <6>2. j + n \in DOMAIN new /\ new[j + n] = old[j]
            BY <5>3
          <6> QED
            BY <3>1, <6>1, <6>2
        <5> QED
          BY <5>2, <5>3
      <4> QED
        BY <3>3, <4>1, <4>2 DEF Overlooked
    <3> QED
      BY <1>5, <3>1, <3>2, <3>3
  <2> QED
    BY <2>2, <2>3
<1>8. ASSUME NEW x, x = p \/ ListedBy(p) = {} \/ projects[p].link # None
      PROVE  Bad' \subseteq Bad \cup {x}
  <2>1. \A c \in Ids : c # x => (Doomed(c)' => Doomed(c)) /\ (Overlooked(c)' => Overlooked(c))
    BY <1>6, <1>7, <1>8
  <2>2. \A c : ~Linking(t, c) /\ ~Linking(t, c)' /\ ~Item(t, 1, "delete", c)
    BY <1>1, <1>2 DEF Linking, Item
  <2>3. \A c : c \notin Hands' => c \notin Hands
    BY <1>1, <1>2, CallSets
  <2>4. SameBut(x) /\ calls'[t].step # "add"
    BY <1>2, <1>3
  <2> QED
    BY <1>1, <2>1, <2>2, <2>3, <2>4, BadFrame
<1>9. Bad' \subseteq Bad \/ (Bad' \subseteq Load /\ Others # {})
  <2>1. CASE ListedBy(p) = {} \/ projects[p].link # None
    <3>1. Bad' \subseteq Bad \cup {None}
      BY <1>8, <2>1
    <3> QED
      BY <3>1, NoneFacts DEF Bad
  <2>2. CASE ListedBy(p) # {} /\ projects[p].link = None
    <3>1. Bad' \subseteq Bad \cup {p}
      BY <1>8
    <3>2. CASE p \in Bad
      BY <3>1, <3>2
    <3>3. CASE p \notin Bad
      <4>1. PICK q \in Ids : p \in Children(q)
        BY <2>2 DEF ListedBy
      <4>2. PICK u \in Threads : Linking(u, p)
        BY <2>2, <3>3, <4>1, NoneFacts DEF Bad, Misplaced
      <4>3. Holding(u) /\ calls[u].project = p /\ u # t
        BY <1>0, <4>2, HoldingSteps DEF Linking
      <4>4. ~Holding(t)
        BY <1>0, <4>3 DEF Structure, CallFits, CreationFits
      <4>5. p \in Hands
        BY <4>3 DEF Hands
      <4> QED
        BY <1>0, <3>1, <4>4, <4>5 DEF Load
    <3> QED
      BY <3>2, <3>3
  <2> QED
    BY <2>1, <2>2
<1>10. ASSUME Moves(t), TypeOk' PROVE CallFits(t)'
  <2>1. CreationFits(t)'
    <3> SUFFICES ASSUME Holding(t) PROVE CreationFits(t)'
      BY <1>2 DEF CreationFits
    <3>1. \A u \in Threads : Holding(u)' /\ calls'[u].project = p => Holding(u) /\ calls[u].project = p
      BY <1>1, <1>2 DEF Only, Holding, Creating
    <3>2. ASSUME NEW i \in DOMAIN new PROVE new[i].project = p
      <4>1. i \in Nat /\ i >= 1 /\ n = 0
        BY <1>4
      <4>2. CASE i = 1
        BY <4>1, <4>2
      <4>3. CASE i # 1
        <5>1. i \in DOMAIN old /\ new[i] = old[i]
          BY <4>1, <4>3
        <5> QED
          BY <1>0, <5>1 DEF CallFits, CreationFits
      <4> QED
        BY <4>2, <4>3
    <3>3. new # <<>>
      OBVIOUS
    <3> QED
      BY <1>0, <1>1, <1>3, <3>1, <3>2, <3>3 DEF CreationFits, CallFits
  <2>2. MaterialFits(t)'
    <3>1. ASSUME NEW s \in Ids, calls[t].kind = "material", calls[t].subject = s PROVE Root(s)'
      BY <1>0, <1>10, <3>1, RootStays DEF CallFits, MaterialFits
    <3> QED
      BY <1>0, <1>1, <3>1 DEF MaterialFits, CallFits
  <2>3. WorkFits(t)'
    <3>1. ASSUME NEW i \in DOMAIN new
          PROVE  /\ new[i].project \in Known
                 /\ new[i].op = "unlink" => /\ i = 1 /\ n = 1 /\ new[i].project = p
                                            /\ new[i].subject \in Ids
                                            /\ new[i].subject = projects[p].link
      <4>1. i \in Nat /\ (i <= n \/ i = n + 1 \/ ~(i <= n + 1))
        BY <1>4
      <4>2. CASE i <= n
        BY <4>2
      <4>3. CASE i = n + 1
        BY <1>0, <4>3
      <4>4. CASE ~(i <= n + 1)
        <5>1. i - n \in DOMAIN old /\ i - n # 1 /\ new[i] = old[i - n]
          BY <4>4
        <5>2. old[i - n].project \in Known /\ old[i - n].project \in Ids
          BY <1>0, <5>1, TypeFacts DEF CallFits, WorkFits
        <5>3. old[i - n].op # "unlink"
          BY <1>0, <5>1, <5>2 DEF CallFits, WorkFits, Item
        <5>4. new[i].project \in Known /\ new[i].op # "unlink"
          BY <5>1, <5>2, <5>3
        <5> QED
          BY <5>4
      <4> QED
        BY <4>1, <4>2, <4>3, <4>4
    <3>2. n = 1 => 2 \in DOMAIN new /\ new[2].op = "delete" /\ new[2].project = p
      OBVIOUS
    <3> QED
      BY <1>0, <1>1, <1>3, <3>1, <3>2 DEF WorkFits, Item
  <2>4. DeletionFits(t)'
    <3>1. ASSUME calls[t].step \in {"delete", "forget"}, NEW r \in calls[t].related
          PROVE  Settled(t, r)'
      <4>0. Settled(t, r) /\ r \in Ids
        BY <1>0, <3>1, TypeFacts DEF CallFits, DeletionFits
      <4>1. CASE ~Active(r) \/ Orphan(r)
        BY <1>3, <4>0, <4>1 DEF Settled
      <4>2. ASSUME NEW i \in DOMAIN old, old[i].project = r PROVE Settled(t, r)'
        <5>1. CASE i = 1
          BY <1>1, <4>2, <5>1 DEF Settled
        <5>2. CASE i # 1
          BY <1>1, <4>2, <5>2 DEF Settled
        <5> QED
          BY <5>1, <5>2
      <4>3. ASSUME NEW i \in DOMAIN old, NEW q \in Ids, Item(t, i, "visit", q),
                   ~Active(q) \/ r \in Children(q)
            PROVE  Settled(t, r)'
        <5>1. CASE i = 1
          <6>1. q = p /\ r \in Children(p)
            BY <4>3, <5>1 DEF Item
          <6> QED
            BY <1>1, <6>1 DEF Settled
        <5>2. CASE i # 1
          <6>1. i + n \in DOMAIN new /\ Item(t, i + n, "visit", q)'
            BY <1>1, <4>3, <5>2 DEF Item
          <6>2. ~Active(q)' \/ r \in Children(q)'
            BY <1>3, <4>3
          <6> QED
            BY <1>1, <6>1, <6>2 DEF Settled
        <5> QED
          BY <5>1, <5>2
      <4> QED
        BY <4>0, <4>1, <4>2, <4>3 DEF Settled
    <3> QED
      BY <1>0, <1>1, <1>3, <3>1 DEF DeletionFits, CallFits
  <2>5. Stepwise(t)' /\ calls'[t].step \notin {"title", "retitle"}
    BY <1>0, <1>1 DEF CallFits, Stepwise
  <2> QED
    BY <2>1, <2>2, <2>3, <2>4, <2>5 DEF CallFits
<1> QED
  BY <1>0, <1>1, <1>2, <1>9, <1>10, PassStep

\* A function on 1..n is a sequence.
LEMMA FunSeq ==
    ASSUME NEW S, NEW n \in Nat, NEW f \in [1..n -> S]
    PROVE  f \in Seq(S) /\ Len(f) = n
<1>1. f \in Seq(S)
  BY SeqDef
<1>2. DOMAIN f = 1..Len(f) /\ DOMAIN f = 1..n /\ Len(f) \in Nat
  BY <1>1, LenProperties
<1>3. ASSUME NEW m \in Nat, 1..m = 1..n PROVE m = n
  <2>1. m >= 1 => m \in 1..n
    BY <1>3
  <2>2. n >= 1 => n \in 1..m
    BY <1>3
  <2> QED
    BY <2>1, <2>2
<1> QED
  BY <1>1, <1>2, <1>3

\* The items that a visit becomes, before what is left.
Spliced(pre, del, old) == pre \o <<del>> \o Tail(old)

LEMMA ExpandFacts ==
    ASSUME NEW n \in Nat, NEW pre \in [1..n -> ItemType], NEW del \in ItemType,
           NEW old \in Seq(ItemType), old # <<>>,
           NEW new, new = Spliced(pre, del, old)
    PROVE  /\ new \in Seq(ItemType)
           /\ \A i \in 1..n : i \in DOMAIN new /\ new[i] = pre[i]
           /\ n + 1 \in DOMAIN new /\ new[n + 1] = del
           /\ \A i \in DOMAIN new : i <= n + 1 \/ (i - n \in DOMAIN old /\ i - n # 1 /\ new[i] = old[i - n])
           /\ \A i \in DOMAIN old : i # 1 => i + n \in DOMAIN new /\ new[i + n] = old[i]
<1>1. pre \in Seq(ItemType) /\ Len(pre) = n
  BY FunSeq
<1>2. PICK rest : rest = Tail(old)
  OBVIOUS
<1>3. /\ rest \in Seq(ItemType) /\ Len(rest) = Len(old) - 1 /\ Len(old) \in Nat
      /\ \A i \in 1..Len(rest) : rest[i] = old[i + 1]
  BY <1>2, HeadTailProperties, LenProperties
<1>d. PICK one : one = <<del>>
  OBVIOUS
<1>e. one \in Seq(ItemType) /\ Len(one) = 1 /\ one[1] = del
  BY <1>d
<1>4. PICK mid : mid = pre \o one
  OBVIOUS
<1>5. /\ mid \in Seq(ItemType) /\ Len(mid) = n + 1
      /\ \A i \in 1..(n + 1) : mid[i] = IF i <= n THEN pre[i] ELSE one[i - n]
  <2>1. /\ pre \o one \in Seq(ItemType)
        /\ Len(pre \o one) = Len(pre) + Len(one)
        /\ \A i \in 1..Len(pre) + Len(one) :
             (pre \o one)[i] = IF i <= Len(pre) THEN pre[i] ELSE one[i - Len(pre)]
    BY <1>1, <1>e, ConcatProperties, Zenon
  <2> QED
    BY <1>1, <1>e, <1>4, <2>1
<1>6. new = mid \o rest
  BY <1>2, <1>4, <1>d DEF Spliced
<1>7. /\ new \in Seq(ItemType) /\ Len(new) = n + 1 + Len(rest) /\ Len(rest) \in Nat
      /\ \A i \in 1..(n + 1 + Len(rest)) :
           new[i] = IF i <= n + 1 THEN mid[i] ELSE rest[i - (n + 1)]
  <2>1. Len(rest) \in Nat
    BY <1>3, LenProperties
  <2>2. /\ mid \o rest \in Seq(ItemType)
        /\ Len(mid \o rest) = Len(mid) + Len(rest)
        /\ \A i \in 1..Len(mid) + Len(rest) :
             (mid \o rest)[i] = IF i <= Len(mid) THEN mid[i] ELSE rest[i - Len(mid)]
    BY <1>3, <1>5, ConcatProperties, Zenon
  <2> QED
    BY <1>5, <1>6, <2>1, <2>2
<1>8. PICK k \in Nat : k = Len(rest)
  BY <1>7
<1>9. /\ DOMAIN new = 1..(n + 1 + k) /\ DOMAIN old = 1..(k + 1)
  BY <1>3, <1>7, <1>8, LenProperties
<1>10. \A i \in 1..n : i \in DOMAIN new /\ new[i] = pre[i]
  <2> SUFFICES ASSUME NEW i \in 1..n PROVE i \in DOMAIN new /\ new[i] = pre[i]
    OBVIOUS
  <2>1. i \in 1..(n + 1) /\ i \in 1..(n + 1 + k) /\ i <= n /\ i <= n + 1
    OBVIOUS
  <2> QED
    BY <1>5, <1>7, <1>8, <1>9, <2>1
<1>11. n + 1 \in DOMAIN new /\ new[n + 1] = del
  <2>1. /\ n + 1 \in 1..(n + 1) /\ n + 1 \in 1..(n + 1 + k) /\ ~(n + 1 <= n) /\ n + 1 <= n + 1
        /\ (n + 1) - n = 1
    OBVIOUS
  <2> QED
    BY <1>5, <1>7, <1>8, <1>9, <1>e, <2>1
<1>12. ASSUME NEW i \in DOMAIN new, ~(i <= n + 1)
       PROVE  i - n \in DOMAIN old /\ i - n # 1 /\ new[i] = old[i - n]
  <2>1. PICK j \in 1..k : i = n + 1 + j
    <3>1. i \in 1..(n + 1 + k)
      BY <1>9
    <3>2. i - (n + 1) \in 1..k /\ i = n + 1 + (i - (n + 1))
      BY <1>12, <3>1
    <3> QED
      BY <3>2
  <2>2. i - n = j + 1 /\ i - (n + 1) = j /\ j + 1 \in 1..(k + 1) /\ j + 1 # 1
    BY <2>1
  <2>3. new[i] = rest[j]
    BY <1>7, <1>8, <1>9, <1>12, <2>2
  <2>4. rest[j] = old[j + 1]
    BY <1>3, <1>8
  <2> QED
    BY <1>9, <2>2, <2>3, <2>4
<1>13. ASSUME NEW i \in DOMAIN old, i # 1
       PROVE  i + n \in DOMAIN new /\ new[i + n] = old[i]
  <2>1. PICK j \in 1..k : i = j + 1
    <3>1. i \in 1..(k + 1)
      BY <1>9
    <3>2. i - 1 \in 1..k /\ i = (i - 1) + 1
      BY <1>13, <3>1
    <3> QED
      BY <3>2
  <2>2. /\ i + n \in 1..(n + 1 + k) /\ ~(i + n <= n + 1) /\ (i + n) - (n + 1) = j
    BY <2>1
  <2>3. new[i + n] = rest[j]
    BY <1>7, <1>8, <2>2
  <2>4. rest[j] = old[j + 1]
    BY <1>3, <1>8
  <2> QED
    BY <1>9, <2>1, <2>2, <2>3, <2>4
<1> QED
  BY <1>7, <1>10, <1>11, <1>12, <1>13

LEMMA VisitProjectStep ==
    ASSUME IInv, NEW t \in Threads, VisitProject(t)
    PROVE  IInv'
<1>old. PICK old : old = calls[t].work
  OBVIOUS
<1>p. PICK p : p = old[1].project
  OBVIOUS
<1>0. /\ Structure /\ TypeOk /\ ProjectsFit /\ CallFits(t) /\ t \in Busy
      /\ calls[t].step \in {"delete", "undo"} /\ (Holding(t) <=> calls[t].step = "undo")
      /\ old \in Seq(ItemType) /\ old # <<>> /\ 1 \in DOMAIN old /\ Head(old) = old[1]
      /\ p \in Known /\ p \in Ids /\ (Holding(t) => calls[t].project = p)
      /\ Deleting(t) /\ old[1].op = "visit"
      /\ projects' = projects /\ created' = created /\ owned' = owned
      /\ faults' = faults /\ overlaps' = overlaps
  <2>1. Deleting(t)
    BY DEF VisitProject
  <2> QED
    BY <1>old, <1>p, <2>1, HeadFacts DEF VisitProject, Rest, Deleting
<1>del. PICK del : del = [op |-> "delete", project |-> p, subject |-> None]
  OBVIOUS
<1>1. del \in ItemType /\ del.op = "delete" /\ del.project = p
  BY <1>0, <1>del DEF ItemType
<1>2. /\ p = Head(calls[t].work).project
      /\ Tail(calls[t].work) = Tail(old)
  BY <1>0, <1>old, <1>p
<1>3. CASE projects[p].link # None
  <2>s. PICK s \in Ids : s = projects[p].link
    BY <1>0, <1>3 DEF TypeOk, ProjectType
  <2>u. PICK unlink : unlink = [op |-> "unlink", project |-> p, subject |-> s]
    OBVIOUS
  <2>1. /\ unlink \in ItemType /\ unlink.op = "unlink" /\ unlink.project = p /\ unlink.subject = s
    BY <1>0, <2>u DEF ItemType
  <2>2. PICK new : new = <<unlink, del>> \o Tail(old)
    OBVIOUS
  <2>3. Works(t, new)
    BY <1>2, <1>3, <1>del, <2>s, <2>u, <2>2 DEF VisitProject, Works
  <2>4. new = <<unlink>> \o <<del>> \o Tail(old)
    <3>1. <<unlink, del>> = <<unlink>> \o <<del>>
      OBVIOUS
    <3> QED
      BY <2>2, <3>1
  <2>n. PICK n \in Nat : n = 1
    OBVIOUS
  <2>5. PICK pre \in [1..n -> ItemType] : pre = <<unlink>>
    <3>1. <<unlink>> = [i \in 1..1 |-> unlink]
      OBVIOUS
    <3> QED
      BY <2>1, <2>n, <3>1
  <2>6. new = Spliced(pre, del, old)
    BY <2>4, <2>5 DEF Spliced
  <2>7. /\ new \in Seq(ItemType)
        /\ \A i \in 1..n : i \in DOMAIN new /\ new[i] = pre[i]
        /\ n + 1 \in DOMAIN new /\ new[n + 1] = del
        /\ \A i \in DOMAIN new : i <= n + 1 \/ (i - n \in DOMAIN old /\ i - n # 1 /\ new[i] = old[i - n])
        /\ \A i \in DOMAIN old : i # 1 => i + n \in DOMAIN new /\ new[i + n] = old[i]
    BY <1>0, <1>1, <2>6, ExpandFacts
  <2>8. 1 \in DOMAIN new /\ new[1] = unlink
    BY <2>1, <2>5, <2>7, <2>n
  <2>9. Active(p) /\ Children(p) = {} /\ ~Holding(t)
    <3>1. Active(p) /\ Children(p) = {}
      BY <1>0, <1>3 DEF ProjectsFit, Root
    <3>2. ASSUME Holding(t) PROVE FALSE
      BY <1>0, <1>3, <3>2 DEF CallFits, CreationFits
    <3> QED
      BY <3>1, <3>2
  <2>10. \A i \in DOMAIN new : i <= n => i = 1
    BY <2>1, <2>5, <2>7, <2>n
  <2>11. \A i \in DOMAIN new : i <= n =>
           /\ new[i].op # "delete" /\ new[i].project \in Known
           /\ new[i].op = "unlink" => /\ i = 1 /\ n = 1 /\ new[i].project = p
                                      /\ new[i].subject \in Ids
                                      /\ new[i].subject = projects[p].link
    BY <1>0, <2>1, <2>n, <2>8, <2>10, <2>s
  <2>12. \A c \in Children(p) : \E j \in DOMAIN new : j <= n /\ new[j].project = c
    BY <2>9
  <2>13. new[n + 1].op = "delete" /\ new[n + 1].project = p /\ n + 1 \in DOMAIN new
    BY <1>1, <2>7
  <2>14. n = 1 /\ 1 \in DOMAIN new /\ new[1].op = "unlink" /\ new[1].project = p
    BY <2>1, <2>n, <2>8
  <2> QED
    <3>1. Expands(t, old, p, n, new)
      BY <1>0, <1>old, <1>p, <2>7, <2>9, <2>11, <2>12, <2>13, <2>14 DEF Expands
    <3> QED
      BY <1>0, <2>3, <2>7, <3>1, ExpandStep
<1>4. CASE projects[p].link = None /\ Active(p)
  <2>f. PICK first \in SetToSeqs(Children(p)) :
           calls' = [calls EXCEPT ![t].work =
                        [i \in DOMAIN first |-> Visit(first[i])] \o <<del>> \o Tail(old)]
    <3>1. PICK f \in SetToSeqs(Children(Head(calls[t].work).project)) :
             calls' = [calls EXCEPT ![t].work =
                [i \in DOMAIN f |-> Visit(f[i])] \o <<[op |-> "delete",
                   project |-> Head(calls[t].work).project, subject |-> None]>>
                 \o Tail(calls[t].work)]
      BY <1>2, <1>4 DEF VisitProject
    <3>2. f \in SetToSeqs(Children(p))
      BY <1>2, <3>1
    <3> QED
      BY <1>2, <1>del, <3>1, <3>2
  <2>c. IsFiniteSet(Children(p)) /\ Children(p) \subseteq Known /\ Known \subseteq Ids
    <3>1. Children(p) \subseteq Known /\ Known \subseteq Ids
      BY <1>0, TypeFacts DEF ProjectsFit
    <3>2. IsFiniteSet(Ids)
      BY SubjectsAssumption, FS_Interval DEF Ids
    <3> QED
      BY <3>1, <3>2, FS_Subset
  <2>n. PICK n \in Nat : n = Cardinality(Children(p))
    BY <2>c, FS_CardinalityType
  <2>1. /\ first \in [1..n -> Children(p)]
        /\ \A c \in Children(p) : \E i \in 1..n : first[i] = c
    BY <2>c, <2>n, AllVisited
  <2>2. PICK pre \in [1..n -> ItemType] : pre = [i \in DOMAIN first |-> Visit(first[i])]
    BY <2>1, <2>c, VisitType
  <2>3. \A i \in 1..n : pre[i].op = "visit" /\ pre[i].project = first[i]
    BY <2>1, <2>2 DEF Visit
  <2>4. PICK new : new = Spliced(pre, del, old)
    OBVIOUS
  <2>5. Works(t, new)
    BY <2>f, <2>2, <2>4 DEF Spliced, Works
  <2>7. /\ new \in Seq(ItemType)
        /\ \A i \in 1..n : i \in DOMAIN new /\ new[i] = pre[i]
        /\ n + 1 \in DOMAIN new /\ new[n + 1] = del
        /\ \A i \in DOMAIN new : i <= n + 1 \/ (i - n \in DOMAIN old /\ i - n # 1 /\ new[i] = old[i - n])
        /\ \A i \in DOMAIN old : i # 1 => i + n \in DOMAIN new /\ new[i + n] = old[i]
    BY <1>0, <1>1, <2>4, ExpandFacts
  <2>8. \A i \in DOMAIN new : i <= n => i \in 1..n
    BY <2>7
  <2>9. Holding(t) => n = 0
    <3> SUFFICES ASSUME Holding(t) PROVE n = 0
      OBVIOUS
    <3>1. ~Root(p)
      BY <1>0 DEF Root, Hands
    <3>2. Children(p) = {}
      BY <1>0, <3>1 DEF ProjectsFit
    <3> QED
      BY <2>n, <3>2, FS_EmptySet
  <2>11. \A i \in DOMAIN new : i <= n =>
           /\ new[i].op # "delete" /\ new[i].project \in Known /\ new[i].op # "unlink"
    <3>1. \A i \in 1..n : first[i] \in Known
      BY <2>1, <2>c
    <3> QED
      BY <2>3, <2>7, <2>8, <3>1
  <2>12. \A c \in Children(p) : \E j \in DOMAIN new : j <= n /\ new[j].project = c
    <3> SUFFICES ASSUME NEW c \in Children(p) PROVE \E j \in DOMAIN new : j <= n /\ new[j].project = c
      OBVIOUS
    <3>1. PICK j \in 1..n : first[j] = c
      BY <2>1
    <3>2. j \in DOMAIN new /\ j <= n /\ new[j].project = c
      BY <2>3, <2>7, <3>1
    <3> QED
      BY <3>2
  <2>13. new[n + 1].op = "delete" /\ new[n + 1].project = p /\ n + 1 \in DOMAIN new
    BY <1>1, <2>7
  <2> QED
    <3>1. Expands(t, old, p, n, new)
      BY <1>0, <1>4, <1>old, <1>p, <2>7, <2>9, <2>11, <2>12, <2>13 DEF Expands
    <3> QED
      BY <1>0, <2>5, <2>7, <3>1, ExpandStep
<1>5. CASE projects[p].link = None /\ ~Active(p)
  <2>1. Finish(t)
    BY <1>2, <1>5 DEF VisitProject
  <2>2. \A c \in Ids : ~Item(t, 1, "delete", c)
    BY <1>0, <1>old DEF Item
  <2>3. \A c \in Ids : Holding(t) /\ calls[t].project = c => ~Active(c)
    BY <1>0, <1>5
  <2> QED
    BY <1>0, <2>1, <2>2, <2>3, FinishStep DEF TypeOk
<1> QED
  BY <1>3, <1>4, <1>5

LEMMA UnlinkMaterialStep ==
    ASSUME IInv, NEW t \in Threads, UnlinkMaterial(t)
    PROVE  IInv'
<1>old. PICK old : old = calls[t].work
  OBVIOUS
<1>new. PICK new : new = Tail(old)
  OBVIOUS
<1>c. PICK c : c = old[1].project
  OBVIOUS
<1>s. PICK s : s = old[1].subject
  OBVIOUS
<1>0. /\ Structure /\ TypeOk /\ ProjectsFit /\ CallFits(t) /\ t \in Busy /\ Alone /\ TitlesAgree
      /\ calls[t].step \in {"delete", "undo"} /\ (Holding(t) <=> calls[t].step = "undo")
      /\ (~Holding(t) => t \in Others)
      /\ old \in Seq(ItemType) /\ old # <<>> /\ 1 \in DOMAIN old /\ Head(old) = old[1]
      /\ c \in Known /\ c \in Ids /\ (Holding(t) => calls[t].project = c)
      /\ Deleting(t) /\ old[1].op = "unlink"
      /\ created' = created /\ owned' = owned /\ faults' = faults /\ overlaps' = overlaps
  <2>1. Deleting(t)
    BY DEF UnlinkMaterial
  <2> QED
    BY <1>old, <1>c, <2>1, HeadFacts DEF UnlinkMaterial, Rest, Deleting
<1>1. /\ s \in Ids /\ (Active(c) => projects[c].link = s) /\ Item(t, 2, "delete", c)
  <2>1. Item(t, 1, "unlink", c)
    BY <1>0, <1>old, <1>c DEF Item
  <2> QED
    BY <1>0, <1>old, <1>s, <2>1 DEF CallFits, WorkFits
<1>2. Head(calls[t].work).project = c /\ Head(calls[t].work).subject = s
      /\ Tail(calls[t].work) = new
  BY <1>0, <1>old, <1>new, <1>c, <1>s
<1>3. CASE ~Active(s)
  <2>1. Finish(t) /\ projects' = projects
    BY <1>2, <1>3 DEF UnlinkMaterial
  <2>2. \A d \in Ids : ~Item(t, 1, "delete", d)
    BY <1>0, <1>old DEF Item
  <2>3. \A d \in Ids : Holding(t) /\ calls[t].project = d => ~Active(d)
    <3> SUFFICES ASSUME Holding(t), Active(c) PROVE FALSE
      BY <1>0
    <3>1. projects[c].link = None
      BY <1>0 DEF CallFits, CreationFits
    <3> QED
      BY <1>1, <3>1, NoneFacts
  <2> QED
    BY <1>0, <2>1, <2>2, <2>3, FinishStep DEF TypeOk
<1>4. CASE Active(s)
  <2>1. /\ projects' = [projects EXCEPT ![s].materials = Without(@, c)]
        /\ calls' = [calls EXCEPT ![t].work = new]
    <3>1. projects' = [projects EXCEPT ![s].materials = Without(@, c)]
      BY <1>2, <1>4 DEF UnlinkMaterial
    <3>2. calls' = [calls EXCEPT ![t].work = Tail(calls[t].work)]
      BY <1>0, <1>2, <1>4 DEF UnlinkMaterial, TypeOk
    <3> QED
      BY <1>2, <3>1, <3>2
  <2>n. /\ new \in Seq(ItemType)
        /\ \A i \in DOMAIN new :
                /\ i \in Nat /\ i >= 1 /\ i + 1 \in DOMAIN old /\ i + 1 # 1
                /\ new[i] = old[i + 1]
        /\ \A i \in DOMAIN old : i # 1 =>
                /\ i \in Nat /\ i - 1 \in DOMAIN new /\ i - 1 \in Nat /\ i - 1 >= 1
                /\ new[i - 1] = old[i]
    BY <1>0, <1>new, TailFacts
  <2>2. /\ calls' \in [Threads -> CallType] /\ Only(t)
        /\ calls'[t].step = calls[t].step /\ calls'[t].kind = calls[t].kind
        /\ calls'[t].subject = calls[t].subject /\ calls'[t].project = calls[t].project
        /\ calls'[t].related = calls[t].related /\ calls'[t].work = new
    <3>1. calls'[t].related = calls[t].related
      BY <1>0, <2>1 DEF TypeOk
    <3> QED
      BY <1>0, <2>1, <2>n, <3>1, WorkOnlyFacts
  <2>3. /\ (Holding(t)' <=> Holding(t)) /\ (t \in Others' => t \in Others)
        /\ calls[t].step \notin {"own", "retitle", "link", "add"}
    BY <1>0, <2>2 DEF Holding, Creating, Others
  <2>4. /\ projects' \in [Ids -> ProjectType]
        /\ DOMAIN projects'[s].materials = Children(s) \ {c}
        /\ \A d \in Children(s) : d # c => projects'[s].materials[d] = projects[s].materials[d]
        /\ \A p \in Ids : /\ projects'[p].state = projects[p].state
                          /\ projects'[p].title = projects[p].title
                          /\ projects'[p].link = projects[p].link
        /\ \A p \in Ids : p # s => projects'[p] = projects[p]
    <3>0. PICK list : list = Without(projects[s].materials, c)
      OBVIOUS
    <3>1. /\ list \in Maps /\ DOMAIN list = Children(s) \ {c}
          /\ \A d \in Children(s) : d # c => list[d] = projects[s].materials[d]
      <4>1. projects[s].materials \in Maps
        BY <1>0, <1>1, TypeFacts
      <4> QED
        BY <3>0, <4>1, WithoutFacts DEF Children
    <3>3. PICK r : r = [projects[s] EXCEPT !.materials = list]
      OBVIOUS
    <3>4. /\ r \in ProjectType /\ r.materials = list /\ r.state = projects[s].state
          /\ r.title = projects[s].title /\ r.link = projects[s].link
      BY <1>0, <1>1, <3>1, <3>3 DEF TypeOk, ProjectType
    <3>5. projects' = [projects EXCEPT ![s] = r]
      BY <2>1, <3>0, <3>3
    <3>6. /\ projects' \in [Ids -> ProjectType] /\ projects'[s] = r
          /\ \A p \in Ids : p # s => projects'[p] = projects[p]
      BY <1>0, <1>1, <3>4, <3>5 DEF TypeOk
    <3> QED
      BY <3>1, <3>4, <3>6
  <2>5. /\ \A p \in Ids : Active(p)' <=> Active(p)
        /\ \A p \in Ids : p # s => Children(p)' = Children(p)
        /\ Children(s)' = Children(s) \ {c}
        /\ Known' = Known
    BY <1>0, <1>1, <2>4 DEF Active, Children, Known
  <2>6. /\ ListedBy(c)' = ListedBy(c) \ {s} /\ \A d : d # c => ListedBy(d)' = ListedBy(d)
        /\ \A d : ListedBy(d)' \subseteq ListedBy(d)
    BY <1>1, <2>5 DEF ListedBy
  <2>7. TypeOk'
    BY <1>0, <2>2, <2>4 DEF TypeOk
  <2>8. Moves(t)
    <3>1. created \in Nat /\ \A p \in Known : p \in Ids
      BY <1>0, TypeFacts
    <3>2. \A p \in Ids : p \notin Known' => projects'[p] = Absent
      <4>1. s \in Known
        BY <1>0, <1>1, <1>4 DEF ProjectsFit, Absent, Active
      <4> QED
        BY <1>0, <2>4, <2>5, <4>1 DEF ProjectsFit
    <3>3. \A p \in Ids : ~Active(p)' => Children(p)' = {} /\ projects'[p].link = None
      BY <1>0, <1>4, <2>4, <2>5 DEF ProjectsFit
    <3>4. \A p \in Ids : Children(p)' \subseteq Children(p)
      BY <2>5
    <3>5. \A p \in Ids : Children(p)' \subseteq Known'
      BY <1>0, <2>5, <3>4 DEF ProjectsFit
    <3>6. \A p \in Ids : \A d : d \in Children(p) /\ d \notin Children(p)' => p = s /\ d = c
      BY <2>5
    <3>7. \A p, d \in Ids : d \in Children(p) /\ d \notin Children(p)' /\ Active(p)' /\ Active(d)' =>
             projects[d].link = p
      BY <1>1, <2>5, <3>6
    <3> QED
      BY <1>0, <2>2, <2>3, <2>4, <2>5, <3>1, <3>2, <3>3, <3>4, <3>5, <3>7 DEF Moves
  <2>9. CallFits(t)'
    <3>1. CreationFits(t)'
      <4> SUFFICES ASSUME Holding(t) PROVE CreationFits(t)'
        BY <2>3 DEF CreationFits
      <4>1. \A u \in Threads : Holding(u)' /\ calls'[u].project = c => Holding(u) /\ calls[u].project = c
        BY <2>2, <2>3 DEF Only, Holding, Creating
      <4>2. new # <<>>
        <5>1. 2 \in DOMAIN old
          BY <1>1, <1>old DEF Item
        <5>2. 2 - 1 \in DOMAIN new
          BY <2>n, <5>1
        <5> QED
          BY <5>2
      <4>3. \A i \in DOMAIN new : new[i].project = c
        <5>1. \A i \in DOMAIN old : old[i].project = c
          BY <1>0, <1>old DEF CallFits, CreationFits
        <5> QED
          BY <2>n, <5>1
      <4> QED
        BY <1>0, <2>2, <2>4, <2>5, <2>6, <4>1, <4>2, <4>3 DEF CreationFits, CallFits
    <3>2. MaterialFits(t)'
      <4>1. ASSUME NEW q \in Ids, calls[t].kind = "material", calls[t].subject = q PROVE Root(q)'
        BY <1>0, <2>7, <2>8, <4>1, RootStays DEF CallFits, MaterialFits
      <4> QED
        BY <1>0, <2>2, <4>1 DEF MaterialFits, CallFits
    <3>3. WorkFits(t)'
      <4>1. ASSUME NEW i \in DOMAIN new
            PROVE  new[i].project \in Known /\ new[i].op # "unlink"
        <5>1. i + 1 \in DOMAIN old /\ i + 1 # 1 /\ new[i] = old[i + 1]
          BY <2>n
        <5>2. old[i + 1].project \in Known /\ old[i + 1].project \in Ids
          BY <1>0, <1>old, <5>1, TypeFacts DEF CallFits, WorkFits
        <5>3. old[i + 1].op # "unlink"
          BY <1>0, <1>old, <5>1, <5>2 DEF CallFits, WorkFits, Item
        <5> QED
          BY <5>1, <5>2, <5>3
      <4> QED
        BY <1>0, <2>2, <2>5, <4>1 DEF WorkFits, Item
    <3>4. DeletionFits(t)'
      <4>1. ASSUME calls[t].step \in {"delete", "forget"}, NEW r \in calls[t].related
            PROVE  Settled(t, r)'
        <5>0. Settled(t, r) /\ r \in Ids /\ r \in Known
          BY <1>0, <4>1, TypeFacts DEF CallFits, DeletionFits
        <5>c. r = c => Settled(t, r)'
          <6>1. 2 \in DOMAIN old /\ old[2].project = c
            BY <1>1, <1>old DEF Item
          <6>2. PICK i \in Nat : i = 2
            OBVIOUS
          <6>3. i - 1 \in DOMAIN new /\ new[i - 1] = old[i]
            BY <2>n, <6>1, <6>2
          <6>4. new[i - 1].project = c
            BY <6>1, <6>2, <6>3
          <6> QED
            BY <2>2, <6>3, <6>4 DEF Settled
        <5>1. CASE ~Active(r) \/ Orphan(r)
          BY <1>0, <2>5, <2>8, <5>0, <5>1, OrphanStays DEF Settled
        <5>2. ASSUME NEW i \in DOMAIN old, old[i].project = r PROVE Settled(t, r)'
          <6>1. CASE i = 1
            BY <1>c, <5>2, <5>c, <6>1
          <6>2. CASE i # 1
            <7>1. i - 1 \in DOMAIN new /\ new[i - 1].project = r
              BY <2>n, <5>2, <6>2
            <7> QED
              BY <2>2, <7>1 DEF Settled
          <6> QED
            BY <6>1, <6>2
        <5>3. ASSUME NEW i \in DOMAIN old, NEW q \in Ids, Item(t, i, "visit", q),
                     ~Active(q) \/ r \in Children(q), r # c
              PROVE  Settled(t, r)'
          <6>1. i # 1
            BY <1>0, <1>old, <5>3 DEF Item
          <6>2. i - 1 \in DOMAIN new /\ Item(t, i - 1, "visit", q)'
            BY <1>old, <2>2, <2>n, <5>3, <6>1 DEF Item
          <6>3. ~Active(q)' \/ r \in Children(q)'
            BY <2>5, <5>3
          <6> QED
            BY <2>2, <6>2, <6>3 DEF Settled
        <5> QED
          BY <1>old, <5>0, <5>c, <5>1, <5>2, <5>3 DEF Settled
      <4> QED
        BY <1>0, <2>2, <2>5, <4>1 DEF DeletionFits, CallFits
    <3>5. Stepwise(t)' /\ calls'[t].step \notin {"title", "retitle"}
      BY <1>0, <2>2 DEF CallFits, Stepwise
    <3> QED
      BY <3>1, <3>2, <3>3, <3>4, <3>5 DEF CallFits
  <2>10. Bad' \subseteq Bad
    <3>1. SameBut(c)
      BY <2>4, <2>5, <2>6 DEF SameBut
    <3>2. ASSUME NEW d \in Ids, d # c, Doomed(d)' PROVE Doomed(d)
      <4>1. PICK u \in Threads : \E i \in DOMAIN calls'[u].work :
               Item(u, i, "delete", d)' /\ ~Item(u, 1, "unlink", d)'
        BY <3>2 DEF Doomed
      <4>2. PICK i \in DOMAIN calls'[u].work : Item(u, i, "delete", d)' /\ ~Item(u, 1, "unlink", d)'
        BY <4>1
      <4>3. CASE u # t
        <5>1. calls'[u] = calls[u]
          BY <2>2, <4>3 DEF Only
        <5>2. i \in DOMAIN calls[u].work /\ Item(u, i, "delete", d) /\ ~Item(u, 1, "unlink", d)
          BY <4>2, <5>1 DEF Item
        <5> QED
          BY <2>6, <3>2, <5>2 DEF Doomed
      <4>4. CASE u = t
        <5>1. i \in DOMAIN new /\ new[i].op = "delete" /\ new[i].project = d
          BY <2>2, <4>2, <4>4 DEF Item
        <5>2. i + 1 \in DOMAIN calls[t].work /\ Item(t, i + 1, "delete", d) /\ ~Item(t, 1, "unlink", d)
          BY <1>old, <1>c, <2>n, <3>2, <5>1 DEF Item
        <5> QED
          BY <2>6, <3>2, <5>2 DEF Doomed
      <4> QED
        BY <4>3, <4>4
    <3>3. ASSUME NEW d \in Ids, d # c, Overlooked(d)' PROVE Overlooked(d)
      <4>1. PICK q \in ListedBy(d), u \in Threads : \E i \in DOMAIN calls'[u].work :
               /\ Item(u, i, "delete", q)'
               /\ \A j \in DOMAIN calls'[u].work : j < i => calls'[u].work[j].project # d
        BY <2>6, <3>3 DEF Overlooked
      <4>2. PICK i \in DOMAIN calls'[u].work :
               /\ Item(u, i, "delete", q)'
               /\ \A j \in DOMAIN calls'[u].work : j < i => calls'[u].work[j].project # d
        BY <4>1
      <4>3. CASE u # t
        <5>1. calls'[u] = calls[u]
          BY <2>2, <4>3 DEF Only
        <5>2. i \in DOMAIN calls[u].work /\ Item(u, i, "delete", q)
          BY <4>2, <5>1 DEF Item
        <5>3. \A j \in DOMAIN calls[u].work : j < i => calls[u].work[j].project # d
          BY <4>2, <5>1
        <5> QED
          BY <5>2, <5>3 DEF Overlooked
      <4>4. CASE u = t
        <5>1. /\ i \in DOMAIN new /\ new[i].op = "delete" /\ new[i].project = q
              /\ \A j \in DOMAIN new : j < i => new[j].project # d
          BY <2>2, <4>2, <4>4 DEF Item
        <5>2. i \in Nat /\ i + 1 \in DOMAIN calls[t].work /\ Item(t, i + 1, "delete", q)
          BY <1>old, <2>n, <5>1 DEF Item
        <5>3. ASSUME NEW j \in DOMAIN old, j < i + 1 PROVE old[j].project # d
          <6>1. CASE j = 1
            BY <1>c, <3>3, <6>1
          <6>2. CASE j # 1
            <7>1. j \in Nat /\ j - 1 \in DOMAIN new /\ new[j - 1] = old[j]
              BY <2>n, <6>2
            <7>2. j - 1 < i
              BY <5>2, <5>3, <7>1
            <7> QED
              BY <5>1, <7>1, <7>2
          <6> QED
            BY <6>1, <6>2
        <5> QED
          BY <1>old, <5>2, <5>3 DEF Overlooked
      <4> QED
        BY <4>3, <4>4
    <3>4. \A d \in Ids : ~Item(t, 1, "delete", d) /\ ~Linking(t, d) /\ ~Linking(t, d)'
      BY <1>0, <1>old, <2>2, <2>3 DEF Item, Linking
    <3>5. \A d : d \notin Hands' => d \notin Hands
      BY <2>2, <2>3, CallSets
    <3>6. Bad' \subseteq Bad \cup {c}
      BY <1>0, <2>2, <2>3, <3>1, <3>2, <3>3, <3>4, <3>5, BadFrame
    <3>7. ASSUME c \in Bad', c \notin Bad PROVE FALSE
      <4>1. \A u \in Threads : (Linking(u, c)' <=> Linking(u, c))
        BY <2>2, <3>4 DEF Only, Linking
      <4>2. ListedBy(c)' = {}
        <5> SUFFICES ASSUME NEW q \in Ids, q # s, c \in Children(q) PROVE FALSE
          BY <2>6 DEF ListedBy
        <5>1. ~Misplaced(c)
          BY <3>7 DEF Bad
        <5>2. Active(c)
          BY <5>1 DEF Misplaced
        <5>3. projects[c].link = s
          BY <1>1, <5>2
        <5> QED
          BY <1>0, <1>1, <5>3, NoneFacts DEF ProjectsFit
      <4>3. ~Misplaced(c)' /\ ~Doomed(c)' /\ ~Overlooked(c)'
        BY <4>2 DEF Misplaced, Doomed, Overlooked, ListedBy
      <4>4. ~Stray(c)'
        <5>1. 2 \in DOMAIN old /\ old[2].op = "delete" /\ old[2].project = c
          BY <1>1, <1>old DEF Item
        <5>2. 2 - 1 \in DOMAIN new /\ new[2 - 1] = old[2]
          BY <2>n, <5>1
        <5>3. Item(t, 1, "delete", c)'
          BY <2>2, <5>1, <5>2 DEF Item
        <5> QED
          BY <5>3 DEF Stray
      <4>5. ~Unseen(c)'
        BY <1>0, <1>1, <2>4, <2>5, <2>6, NoneFacts DEF Unseen, Orphan
      <4>6. ~Stranded(c)'
        <5>1. ASSUME NEW u \in Threads, Linking(u, c), Active(c) PROVE FALSE
          <6>1. projects[c].link = None
            BY <1>0, <5>1, HoldingSteps DEF Structure, CallFits, CreationFits, Linking
          <6> QED
            BY <1>1, <5>1, <6>1, NoneFacts
        <5> QED
          BY <1>0, <2>5, <4>1, <5>1 DEF Stranded
      <4>7. ~Lost(c)'
        <5>1. \A u \in Threads : calls'[u].step = "add" /\ calls'[u].project = c =>
                 calls[u].step = "add" /\ calls[u].project = c
          BY <2>2, <2>3 DEF Only
        <5> QED
          BY <1>0, <2>5, <3>7, <5>1 DEF Lost, Bad
      <4> QED
        BY <3>7, <4>3, <4>4, <4>5, <4>6, <4>7 DEF Bad
    <3> QED
      BY <3>6, <3>7
  <2>11. TitlesAgree'
    <3>1. \A p \in Ids : \A d \in Children(p)' :
             /\ d \in Children(p) /\ projects'[p].materials[d] = projects[p].materials[d]
             /\ projects'[d].title = projects[d].title
      <4>1. \A p \in Ids : Children(p) \subseteq Ids
        BY <1>0, TypeFacts
      <4> QED
        BY <2>4, <2>5, <4>1
    <3>2. calls[t].step # "retitle" /\ calls'[t].step \notin {"title", "add", "retitle"}
      BY <1>0, <2>2
    <3> QED
      BY <1>0, <2>2, <3>1, <3>2, TitlesKept
  <2> QED
    BY <1>0, <2>2, <2>3, <2>7, <2>8, <2>9, <2>10, <2>11, WorkStep
<1> QED
  BY <1>3, <1>4

LEMMA DeleteProjectStep ==
    ASSUME IInv, NEW t \in Threads, DeleteProject(t)
    PROVE  IInv'
<1>old. PICK old : old = calls[t].work
  OBVIOUS
<1>new. PICK new : new = Tail(old)
  OBVIOUS
<1>c. PICK c : c = old[1].project
  OBVIOUS
<1>0. /\ Structure /\ TypeOk /\ ProjectsFit /\ CallFits(t) /\ t \in Busy /\ Alone /\ TitlesAgree
      /\ calls[t].step \in {"delete", "undo"} /\ (Holding(t) <=> calls[t].step = "undo")
      /\ (~Holding(t) => t \in Others)
      /\ old \in Seq(ItemType) /\ old # <<>> /\ 1 \in DOMAIN old /\ Head(old) = old[1]
      /\ c \in Known /\ c \in Ids /\ (Holding(t) => calls[t].project = c)
      /\ Deleting(t) /\ old[1].op = "delete"
      /\ created' = created /\ owned' = owned /\ faults' = faults /\ overlaps' = overlaps
  <2>1. Deleting(t)
    BY DEF DeleteProject
  <2> QED
    BY <1>old, <1>c, <2>1, HeadFacts DEF DeleteProject, Rest, Deleting
<1>1. Item(t, 1, "delete", c) /\ \A d \in Ids : Item(t, 1, "delete", d) => d = c
  BY <1>0, <1>old, <1>c DEF Item
<1>2. Head(calls[t].work).project = c /\ Tail(calls[t].work) = new
  BY <1>0, <1>old, <1>new, <1>c
<1>3. CASE ~Active(c)
  <2>1. Finish(t) /\ projects' = projects
    BY <1>2, <1>3 DEF DeleteProject
  <2>2. \A d \in Ids : Item(t, 1, "delete", d) => ~Orphan(d)
    BY <1>1, <1>3 DEF Orphan
  <2>3. \A d \in Ids : Holding(t) /\ calls[t].project = d => ~Active(d)
    BY <1>0, <1>3
  <2> QED
    BY <1>0, <2>1, <2>2, <2>3, FinishStep DEF TypeOk
<1>4. CASE Active(c)
  <2>1. /\ projects' = [projects EXCEPT ![c] = Tombstone(c)]
        /\ calls' = [calls EXCEPT ![t].work = new]
    <3>1. projects' = [projects EXCEPT ![c] = Tombstone(c)]
      BY <1>2, <1>4 DEF DeleteProject
    <3>2. calls' = [calls EXCEPT ![t].work = Tail(calls[t].work)]
      BY <1>0, <1>2, <1>4 DEF DeleteProject, TypeOk
    <3> QED
      BY <1>2, <3>1, <3>2
  <2>n. /\ new \in Seq(ItemType)
        /\ \A i \in DOMAIN new :
                /\ i \in Nat /\ i >= 1 /\ i + 1 \in DOMAIN old /\ i + 1 # 1
                /\ new[i] = old[i + 1]
        /\ \A i \in DOMAIN old : i # 1 =>
                /\ i \in Nat /\ i - 1 \in DOMAIN new /\ i - 1 \in Nat /\ i - 1 >= 1
                /\ new[i - 1] = old[i]
    BY <1>0, <1>new, TailFacts
  <2>2. /\ calls' \in [Threads -> CallType] /\ Only(t)
        /\ calls'[t].step = calls[t].step /\ calls'[t].kind = calls[t].kind
        /\ calls'[t].subject = calls[t].subject /\ calls'[t].project = calls[t].project
        /\ calls'[t].related = calls[t].related /\ calls'[t].work = new
    <3>1. calls'[t].related = calls[t].related
      BY <1>0, <2>1 DEF TypeOk
    <3> QED
      BY <1>0, <2>1, <2>n, <3>1, WorkOnlyFacts
  <2>3. /\ (Holding(t)' <=> Holding(t)) /\ (t \in Others' => t \in Others)
        /\ calls[t].step \notin {"own", "retitle", "link", "add"}
    BY <1>0, <2>2 DEF Holding, Creating, Others
  <2>4. /\ projects' \in [Ids -> ProjectType]
        /\ projects'[c].state = "deleted" /\ projects'[c].link = None
        /\ projects'[c].title = projects[c].title /\ DOMAIN projects'[c].materials = {}
        /\ \A p \in Ids : p # c => projects'[p] = projects[p]
    <3>1. PICK r : r = Tombstone(c)
      OBVIOUS
    <3>2. /\ r \in ProjectType /\ r.state = "deleted" /\ r.link = None
          /\ r.title = projects[c].title /\ DOMAIN r.materials = {}
      <4>1. projects[c].title \in Titles \cup {None}
        BY <1>0 DEF TypeOk, ProjectType
      <4> QED
        BY <3>1, <4>1, EmptyMap DEF Tombstone, Absent, ProjectType
    <3>3. projects' = [projects EXCEPT ![c] = r]
      BY <2>1, <3>1
    <3> QED
      BY <1>0, <3>2, <3>3 DEF TypeOk
  <2>5. /\ \A p \in Ids : p # c => /\ Active(p)' <=> Active(p)
                                   /\ Children(p)' = Children(p)
                                   /\ projects'[p].link = projects[p].link
        /\ ~Active(c)' /\ Children(c)' = {}
        /\ Known' = Known
    BY <1>0, <2>4 DEF Active, Children, Known
  <2>6. \A d : /\ ListedBy(d)' \subseteq ListedBy(d)
               /\ c \notin ListedBy(d) => ListedBy(d)' = ListedBy(d)
    BY <2>5 DEF ListedBy
  <2>7. TypeOk'
    BY <1>0, <2>2, <2>4 DEF TypeOk
  <2>8. Moves(t)
    <3>1. created \in Nat /\ \A p \in Known : p \in Ids
      BY <1>0, TypeFacts
    <3>2. \A p \in Ids : p \notin Known' => projects'[p] = Absent
      BY <1>0, <2>4, <2>5 DEF ProjectsFit
    <3>3. \A p \in Ids : ~Active(p)' => Children(p)' = {} /\ projects'[p].link = None
      BY <1>0, <2>4, <2>5 DEF ProjectsFit
    <3>4. \A p \in Ids : Children(p)' \subseteq Children(p)
      BY <2>5
    <3>5. \A p \in Ids : Children(p)' \subseteq Known'
      BY <1>0, <2>5, <3>4 DEF ProjectsFit
    <3>6. \A p \in Ids : \A d : d \in Children(p) /\ d \notin Children(p)' => ~Active(p)'
      BY <2>5
    <3>7. \A p \in Ids : projects'[p].link # None => projects'[p].link = projects[p].link
      BY <2>4, <2>5
    <3> QED
      BY <1>0, <2>2, <2>3, <2>5, <3>1, <3>2, <3>3, <3>4, <3>5, <3>6, <3>7 DEF Moves
  <2>9. CallFits(t)'
    <3>1. CreationFits(t)'
      <4> SUFFICES ASSUME Holding(t) PROVE CreationFits(t)'
        BY <2>3 DEF CreationFits
      <4>1. \A u \in Threads : Holding(u)' /\ calls'[u].project = c => Holding(u) /\ calls[u].project = c
        BY <2>2, <2>3 DEF Only, Holding, Creating
      <4>2. \A i \in DOMAIN new : new[i].project = c
        <5>1. \A i \in DOMAIN old : old[i].project = c
          BY <1>0, <1>old DEF CallFits, CreationFits
        <5> QED
          BY <2>n, <5>1
      <4> QED
        BY <1>0, <2>2, <2>4, <2>5, <2>6, <4>1, <4>2 DEF CreationFits, CallFits
    <3>2. MaterialFits(t)'
      <4>1. ASSUME NEW q \in Ids, calls[t].kind = "material", calls[t].subject = q PROVE Root(q)'
        BY <1>0, <2>7, <2>8, <4>1, RootStays DEF CallFits, MaterialFits
      <4> QED
        BY <1>0, <2>2, <4>1 DEF MaterialFits, CallFits
    <3>3. WorkFits(t)'
      <4>1. ASSUME NEW i \in DOMAIN new
            PROVE  new[i].project \in Known /\ new[i].op # "unlink"
        <5>1. i + 1 \in DOMAIN old /\ i + 1 # 1 /\ new[i] = old[i + 1]
          BY <2>n
        <5>2. old[i + 1].project \in Known /\ old[i + 1].project \in Ids
          BY <1>0, <1>old, <5>1, TypeFacts DEF CallFits, WorkFits
        <5>3. old[i + 1].op # "unlink"
          BY <1>0, <1>old, <5>1, <5>2 DEF CallFits, WorkFits, Item
        <5> QED
          BY <5>1, <5>2, <5>3
      <4> QED
        BY <1>0, <2>2, <2>5, <4>1 DEF WorkFits, Item
    <3>4. DeletionFits(t)'
      <4>1. ASSUME calls[t].step \in {"delete", "forget"}, NEW r \in calls[t].related
            PROVE  Settled(t, r)'
        <5>0. Settled(t, r) /\ r \in Ids /\ r \in Known
          BY <1>0, <4>1, TypeFacts DEF CallFits, DeletionFits
        <5>1. CASE ~Active(r)
          BY <2>5, <5>0, <5>1 DEF Settled
        <5>o. CASE Orphan(r)
          BY <1>0, <2>8, <5>0, <5>o, OrphanStays DEF Settled
        <5>2. ASSUME NEW i \in DOMAIN old, old[i].project = r PROVE Settled(t, r)'
          <6>1. CASE i = 1
            BY <1>c, <2>5, <5>2, <6>1 DEF Settled
          <6>2. CASE i # 1
            <7>1. i - 1 \in DOMAIN new /\ new[i - 1].project = r
              BY <2>n, <5>2, <6>2
            <7> QED
              BY <2>2, <7>1 DEF Settled
          <6> QED
            BY <6>1, <6>2
        <5>3. ASSUME NEW i \in DOMAIN old, NEW q \in Ids, Item(t, i, "visit", q),
                     ~Active(q) \/ r \in Children(q)
              PROVE  Settled(t, r)'
          <6>1. i # 1
            BY <1>0, <1>old, <5>3 DEF Item
          <6>2. i - 1 \in DOMAIN new /\ Item(t, i - 1, "visit", q)'
            BY <1>old, <2>2, <2>n, <5>3, <6>1 DEF Item
          <6>3. ~Active(q)' \/ r \in Children(q)'
            BY <2>5, <5>3
          <6> QED
            BY <2>2, <6>2, <6>3 DEF Settled
        <5> QED
          BY <1>old, <5>0, <5>1, <5>o, <5>2, <5>3 DEF Settled
      <4> QED
        BY <1>0, <2>2, <2>5, <4>1 DEF DeletionFits, CallFits
    <3>5. Stepwise(t)' /\ calls'[t].step \notin {"title", "retitle"}
      BY <1>0, <2>2 DEF CallFits, Stepwise
    <3> QED
      BY <3>1, <3>2, <3>3, <3>4, <3>5 DEF CallFits
  <2>10. /\ \A d : ~Linking(t, d) /\ ~Linking(t, d)'
         /\ \A u \in Threads : \A d : Linking(u, d)' <=> Linking(u, d)
         /\ \A u \in Threads : calls'[u].step \in {"add", "link"} => calls'[u] = calls[u] /\ u # t
         /\ \A d : d \notin Hands' => d \notin Hands
    <3>1. \A d : d \notin Hands' => d \notin Hands
      BY <2>2, <2>3, CallSets
    <3>2. \A d : ~Linking(t, d) /\ ~Linking(t, d)'
      BY <2>2, <2>3 DEF Linking
    <3> QED
      BY <2>2, <2>3, <3>1, <3>2 DEF Only, Linking
  <2>11. ASSUME NEW d \in Bad', d # c PROVE d \in Bad
    <3>0. d \in Ids
      BY DEF Bad
    <3>1. (Active(d)' <=> Active(d)) /\ projects'[d].link = projects[d].link
      BY <2>5, <2>11, <3>0
    <3> SUFFICES ASSUME d \notin Bad PROVE FALSE
      OBVIOUS
    <3>2. c \notin ListedBy(d)
      <4> SUFFICES ASSUME c \in ListedBy(d) PROVE Overlooked(d)
        BY <3>0 DEF Bad
      <4>1. 1 \in DOMAIN calls[t].work /\ \A j \in DOMAIN calls[t].work : ~(j < 1)
        BY <1>0, <1>old
      <4> QED
        BY <1>1, <4>1 DEF Overlooked
    <3>3. ListedBy(d)' = ListedBy(d) /\ (Orphan(d)' <=> Orphan(d))
      BY <2>6, <3>1, <3>2 DEF Orphan
    <3>4. ~Misplaced(d)'
      <4> SUFFICES ASSUME Misplaced(d)' PROVE Misplaced(d)
        BY <3>0 DEF Bad
      <4>1. PICK p \in Ids : /\ d \in Children(p)'
                             /\ ~ /\ Active(d)'
                                  /\ projects'[d].link = p \/ \E u \in Threads : Linking(u, d)'
        BY DEF Misplaced
      <4>2. d \in Children(p)
        BY <3>3, <4>1 DEF ListedBy
      <4>3. ~ /\ Active(d)
              /\ projects[d].link = p \/ \E u \in Threads : Linking(u, d)
        BY <2>10, <3>1, <4>1
      <4> QED
        BY <4>2, <4>3 DEF Misplaced
    <3>5. ~Doomed(d)'
      <4> SUFFICES ASSUME Doomed(d)' PROVE Doomed(d)
        BY <3>0 DEF Bad
      <4>1. PICK u \in Threads : \E i \in DOMAIN calls'[u].work :
               Item(u, i, "delete", d)' /\ ~Item(u, 1, "unlink", d)'
        BY DEF Doomed
      <4>2. PICK i \in DOMAIN calls'[u].work : Item(u, i, "delete", d)' /\ ~Item(u, 1, "unlink", d)'
        BY <4>1
      <4>3. CASE u # t
        <5>1. calls'[u] = calls[u]
          BY <2>2, <4>3 DEF Only
        <5>2. i \in DOMAIN calls[u].work /\ Item(u, i, "delete", d) /\ ~Item(u, 1, "unlink", d)
          BY <4>2, <5>1 DEF Item
        <5> QED
          BY <3>3, <5>2 DEF Doomed
      <4>4. CASE u = t
        <5>1. i \in DOMAIN new /\ new[i].op = "delete" /\ new[i].project = d
          BY <2>2, <4>2, <4>4 DEF Item
        <5>2. i + 1 \in DOMAIN calls[t].work /\ Item(t, i + 1, "delete", d) /\ ~Item(t, 1, "unlink", d)
          BY <1>0, <1>old, <2>n, <5>1 DEF Item
        <5> QED
          BY <3>3, <5>2 DEF Doomed
      <4> QED
        BY <4>3, <4>4
    <3>6. ~Overlooked(d)'
      <4> SUFFICES ASSUME Overlooked(d)' PROVE Overlooked(d)
        BY <3>0 DEF Bad
      <4>1. PICK q \in ListedBy(d), u \in Threads : \E i \in DOMAIN calls'[u].work :
               /\ Item(u, i, "delete", q)'
               /\ \A j \in DOMAIN calls'[u].work : j < i => calls'[u].work[j].project # d
        BY <3>3 DEF Overlooked
      <4>2. PICK i \in DOMAIN calls'[u].work :
               /\ Item(u, i, "delete", q)'
               /\ \A j \in DOMAIN calls'[u].work : j < i => calls'[u].work[j].project # d
        BY <4>1
      <4>3. CASE u # t
        <5>1. calls'[u] = calls[u]
          BY <2>2, <4>3 DEF Only
        <5>2. i \in DOMAIN calls[u].work /\ Item(u, i, "delete", q)
          BY <4>2, <5>1 DEF Item
        <5>3. \A j \in DOMAIN calls[u].work : j < i => calls[u].work[j].project # d
          BY <4>2, <5>1
        <5> QED
          BY <5>2, <5>3 DEF Overlooked
      <4>4. CASE u = t
        <5>1. /\ i \in DOMAIN new /\ new[i].op = "delete" /\ new[i].project = q
              /\ \A j \in DOMAIN new : j < i => new[j].project # d
          BY <2>2, <4>2, <4>4 DEF Item
        <5>2. i \in Nat /\ i + 1 \in DOMAIN calls[t].work /\ Item(t, i + 1, "delete", q)
          BY <1>old, <2>n, <5>1 DEF Item
        <5>3. ASSUME NEW j \in DOMAIN old, j < i + 1 PROVE old[j].project # d
          <6>1. CASE j = 1
            BY <1>c, <2>11, <6>1
          <6>2. CASE j # 1
            <7>1. j \in Nat /\ j - 1 \in DOMAIN new /\ new[j - 1] = old[j]
              BY <2>n, <6>2
            <7>2. j - 1 < i
              BY <5>2, <5>3, <7>1
            <7> QED
              BY <5>1, <7>1, <7>2
          <6> QED
            BY <6>1, <6>2
        <5> QED
          BY <1>old, <5>2, <5>3 DEF Overlooked
      <4> QED
        BY <4>3, <4>4
    <3>7. ~Stray(d)'
      <4> SUFFICES ASSUME Stray(d)', NEW u \in Threads, Item(u, 1, "delete", d) PROVE FALSE
        BY <3>0, <3>3 DEF Bad, Stray
      <4>1. u # t
        BY <1>1, <2>11, <3>0
      <4>2. calls'[u] = calls[u]
        BY <2>2, <4>1 DEF Only
      <4>3. Item(u, 1, "delete", d)'
        BY <4>2 DEF Item
      <4> QED
        BY <4>3 DEF Stray
    <3>8. ~Unseen(d)'
      BY <1>0, <2>10, <3>0, <3>1, <3>3 DEF Unseen, Bad
    <3>9. ~Lost(d)'
      <4> SUFFICES ASSUME Lost(d)' PROVE Lost(d)
        BY <3>0 DEF Bad
      <4>1. PICK u \in Threads : calls'[u].step = "add" /\ calls'[u].project = d
        BY DEF Lost
      <4>2. calls'[u] = calls[u]
        BY <2>10, <4>1
      <4>3. ~Active(d)
        BY <3>1 DEF Lost
      <4> QED
        BY <4>1, <4>2, <4>3 DEF Lost
    <3>10. ~Stranded(d)'
      <4> SUFFICES ASSUME Stranded(d)' PROVE FALSE
        OBVIOUS
      <4>1. PICK u \in Threads, p \in Ids : Linking(u, d)' /\ calls'[u].subject = p /\ ~Active(p)'
        BY DEF Stranded
      <4>2. Active(d) /\ Linking(u, d) /\ calls[u].subject = p
        BY <2>10, <3>1, <4>1 DEF Stranded, Linking
      <4>3. CASE p # c
        <5>1. ~Active(p)
          BY <2>5, <4>1, <4>3
        <5> QED
          BY <3>0, <4>2, <5>1 DEF Stranded, Bad
      <4>4. CASE p = c
        <5>1. CallFits(u) /\ calls[u].step = "link" /\ calls[u].project = d /\ calls[u].kind = "material"
          BY <1>0, <4>2, HoldingSteps DEF Structure, Linking
        <5>2. d \in Children(c)
          BY <1>0, <1>4, <3>0, <4>2, <4>4, <5>1 DEF CallFits, MaterialFits
        <5> QED
          BY <1>0, <3>2, <5>2 DEF ListedBy
      <4> QED
        BY <4>3, <4>4
    <3> QED
      BY <2>11, <3>4, <3>5, <3>6, <3>7, <3>8, <3>9, <3>10 DEF Bad
  <2>12. ASSUME c \in Bad', c \notin Bad PROVE c \in Hands /\ Others # {}
    <3>1. ListedBy(c) = {}
      <4>1. ~Doomed(c)
        BY <2>12 DEF Bad
      <4>2. 1 \in DOMAIN calls[t].work /\ ~Item(t, 1, "unlink", c)
        BY <1>0, <1>old DEF Item
      <4> QED
        BY <1>1, <4>1, <4>2 DEF Doomed
    <3>2. ListedBy(c)' = {}
      BY <2>6, <3>1
    <3>3. ~Misplaced(c)' /\ ~Doomed(c)' /\ ~Overlooked(c)'
      BY <3>2 DEF Misplaced, Doomed, Overlooked, ListedBy
    <3>4. ~Stray(c)' /\ ~Unseen(c)' /\ ~Stranded(c)'
      BY <2>5 DEF Stray, Orphan, Unseen, Stranded
    <3>5. Lost(c)'
      BY <2>12, <3>3, <3>4 DEF Bad
    <3>6. PICK u \in Threads : calls[u].step = "add" /\ calls[u].project = c /\ u # t
      BY <2>10, <3>5 DEF Lost
    <3>7. Holding(u)
      BY <1>0, <3>6, HoldingSteps
    <3>8. ~Holding(t)
      BY <1>0, <3>6, <3>7 DEF CallFits, CreationFits
    <3> QED
      BY <1>0, <3>6, <3>7, <3>8 DEF Hands
  <2>13. Bad' \subseteq Bad \/ (Bad' \subseteq Load /\ Others # {})
    BY <2>11, <2>12 DEF Load
  <2>14. TitlesAgree'
    <3>1. \A p \in Ids : \A d \in Children(p)' :
             /\ d \in Children(p) /\ projects'[p].materials[d] = projects[p].materials[d]
             /\ projects'[d].title = projects[d].title
      <4>1. \A p \in Ids : Children(p) \subseteq Ids
        BY <1>0, TypeFacts
      <4> QED
        BY <2>4, <2>5, <4>1
    <3>2. calls[t].step # "retitle" /\ calls'[t].step \notin {"title", "add", "retitle"}
      BY <1>0, <2>2
    <3> QED
      BY <1>0, <2>2, <3>1, <3>2, TitlesKept
  <2> QED
    BY <1>0, <2>2, <2>3, <2>7, <2>8, <2>9, <2>13, <2>14, WorkStep
<1> QED
  BY <1>3, <1>4

LEMMA EndDeleteStep ==
    ASSUME IInv, NEW t \in Threads, EndDelete(t)
    PROVE  IInv'
<1>0. /\ Structure /\ TypeOk /\ ProjectsFit /\ CallFits(t) /\ t \in Busy
      /\ calls[t].step \in {"delete", "undo"} /\ (Holding(t) <=> calls[t].step = "undo")
      /\ calls[t].work = <<>>
      /\ projects' = projects /\ created' = created /\ owned' = owned
      /\ faults' = faults /\ overlaps' = overlaps
  <2>1. Structure /\ calls[t].step \in {"delete", "undo"} /\ CallFits(t)
    BY DEF IInv, Structure, EndDelete
  <2> QED
    BY <2>1, HoldingSteps DEF Structure, EndDelete, Rest, Busy
<1>1. \A c : ~Item(t, 1, "delete", c)
  BY <1>0 DEF Item
<1>2. CASE calls[t].step = "undo"
  <2>1. Finish(t)
    BY <1>2 DEF EndDelete
  <2>2. \A c \in Ids : Holding(t) /\ calls[t].project = c => ~Active(c)
    BY <1>0, <1>2 DEF CallFits, CreationFits
  <2> QED
    BY <1>0, <1>1, <2>1, <2>2, FinishStep DEF TypeOk
<1>3. CASE calls[t].step = "delete"
  <2>1. PICK step \in Steps : step = "forget" /\ Goto(t, step)
    BY <1>3 DEF EndDelete, Steps
  <2>2. /\ calls' \in [Threads -> CallType] /\ Only(t)
        /\ calls'[t].step = "forget" /\ calls'[t].kind = calls[t].kind
        /\ calls'[t].project = calls[t].project /\ calls'[t].related = calls[t].related
        /\ calls'[t].work = calls[t].work
    BY <1>0, <2>1, GotoFacts
  <2>3. calls[t].kind = "delete" /\ ~Holding(t) /\ ~Holding(t)'
    BY <1>0, <1>3, <2>2 DEF CallFits, Stepwise, Holding, Creating
  <2>4. Bad' \subseteq Bad
    BY <1>0, <1>1, <1>3, <2>2, <2>3, PassBad
  <2>5. ASSUME Moves(t), TypeOk' PROVE CallFits(t)'
    <3>1. /\ Known' = Known /\ \A p : (Active(p)' <=> Active(p)) /\ Children(p)' = Children(p)
          /\ \A p : Orphan(p)' <=> Orphan(p)
      BY <1>0 DEF Known, Active, Children, Orphan, ListedBy
    <3>2. \A r : Settled(t, r)' <=> Settled(t, r)
      BY <2>2, <3>1 DEF Settled, Item
    <3>3. DeletionFits(t)'
      BY <1>0, <1>3, <2>2, <3>1, <3>2 DEF CallFits, DeletionFits
    <3> QED
      BY <1>0, <2>2, <2>3, <3>3 DEF CallFits, Stepwise, CreationFits, MaterialFits, WorkFits, Item
  <2> QED
    BY <1>0, <1>3, <2>2, <2>3, <2>4, <2>5, PassStep
<1> QED
  BY <1>0, <1>2, <1>3

\* The least number of a set.
LEMMA MinIn ==
    ASSUME NEW S, S \subseteq Nat, S # {}
    PROVE  Min(S) \in S
<1> DEFINE R == {p \in Nat \X Nat : p[1] < p[2]}
<1>1. IsWellFoundedOn(R, Nat)
  BY NatLessThanWellFounded DEF OpToRel
<1>2. PICK n \in S : \A m \in S : ~(<<m, n>> \in R)
  <2> HIDE DEF R
  <2> QED
    BY <1>1, WFMin
<1>3. ASSUME NEW m \in S PROVE n <= m
  <2>1. m \in Nat /\ n \in Nat
    OBVIOUS
  <2>2. <<m, n>> \in R <=> m < n
    BY <2>1
  <2>3. ~(m < n)
    BY <1>2, <2>2
  <2> HIDE DEF R
  <2> QED
    BY <2>1, <2>3
<1> QED
  BY <1>3 DEF Min

LEMMA RemoveMembershipsStep ==
    ASSUME IInv, NEW t \in Threads, RemoveMemberships(t)
    PROVE  IInv'
<1>left. PICK left : left = calls[t].related
  OBVIOUS
<1>p. PICK p : p = Min(left)
  OBVIOUS
<1>0. /\ Structure /\ TypeOk /\ ProjectsFit /\ CallFits(t) /\ t \in Busy /\ ~Holding(t)
      /\ calls[t].step = "forget" /\ calls[t].kind = "delete" /\ calls[t].work = <<>>
      /\ projects' = projects /\ created' = created /\ owned' = owned \ {p}
      /\ faults' = faults /\ overlaps' = overlaps
  <2>1. Structure /\ calls[t].step = "forget" /\ CallFits(t)
    BY DEF IInv, Structure, RemoveMemberships
  <2>2. owned' = owned \ {p}
    BY <1>left, <1>p DEF RemoveMemberships
  <2> QED
    BY <2>1, <2>2, HoldingSteps DEF Structure, RemoveMemberships, Busy, CallFits, Stepwise, WorkFits
<1>1. /\ left # {} /\ left \subseteq Known /\ left \subseteq Ids /\ p \in left
      /\ \A r \in left : ~Active(r) \/ Orphan(r)
  <2>1. left # {} /\ left \subseteq Known /\ \A r \in left : Settled(t, r)
    BY <1>0, <1>left DEF CallFits, DeletionFits
  <2>2. left \subseteq Ids /\ Ids \subseteq Nat
    BY <1>0, <2>1, TypeFacts DEF Ids
  <2>3. p \in left
    BY <1>p, <2>1, <2>2, MinIn
  <2>4. \A r \in left : ~Active(r) \/ Orphan(r)
    BY <1>0, <2>1 DEF Settled
  <2> QED
    BY <2>1, <2>2, <2>3, <2>4
<1>2. \A c : ~Item(t, 1, "delete", c)
  BY <1>0 DEF Item
<1>3. CASE left = {p}
  <2>1. Finish(t)
    BY <1>3, <1>left, <1>p DEF RemoveMemberships
  <2> QED
    BY <1>0, <1>1, <1>2, <2>1, FinishStep DEF TypeOk
<1>4. CASE left # {p}
  <2>l. PICK rest : rest = left \ {p}
    OBVIOUS
  <2>1. calls' = [calls EXCEPT ![t].related = rest]
    BY <1>4, <1>left, <1>p, <2>l DEF RemoveMemberships
  <2>c. PICK call : call = [calls[t] EXCEPT !.related = rest]
    OBVIOUS
  <2>r. rest \in SUBSET Ids /\ rest # {} /\ rest \subseteq left
    BY <1>1, <1>4, <2>l
  <2>2. /\ call \in CallType /\ call.step = "forget" /\ call.kind = "delete" /\ call.work = <<>>
        /\ call.project = calls[t].project /\ call.related = rest
    <3>1. calls[t] \in CallType
      BY <1>0, TypeFacts
    <3> QED
      BY <1>0, <2>c, <2>r, <3>1 DEF CallType
  <2>3. calls' = [calls EXCEPT ![t] = call]
    BY <1>0, <2>1, <2>c DEF TypeOk
  <2>4. calls' \in [Threads -> CallType] /\ calls'[t] = call /\ Only(t)
    BY <1>0, <2>2, <2>3, BecomesFacts DEF Becomes
  <2>5. ~Holding(t)'
    BY <2>2, <2>4 DEF Holding, Creating
  <2>6. Bad' \subseteq Bad
    <3>1. \A c \in Ids : Active(c) /\ ~Orphan(c) /\ c \in owned => c \in owned'
      BY <1>0, <1>1
    <3>2. calls'[t].work = calls[t].work
      BY <1>0, <2>2, <2>4
    <3> QED
      BY <1>0, <1>2, <2>2, <2>4, <2>5, <3>1, <3>2, PassBad
  <2>7. ASSUME Moves(t), TypeOk' PROVE CallFits(t)'
    <3>1. Known' = Known /\ \A q : (Active(q)' <=> Active(q)) /\ (Orphan(q)' <=> Orphan(q))
      BY <1>0 DEF Known, Active, Orphan, ListedBy, Children
    <3>2. \A r \in rest : Settled(t, r)'
      BY <1>1, <2>r, <3>1 DEF Settled
    <3>3. DeletionFits(t)'
      BY <1>1, <2>2, <2>4, <2>r, <3>1, <3>2 DEF DeletionFits
    <3> QED
      BY <2>2, <2>4, <2>5, <3>3 DEF CallFits, Stepwise, CreationFits, MaterialFits, WorkFits, Item
  <2> QED
    BY <1>0, <2>2, <2>4, <2>5, <2>6, <2>7, PassStep
<1> QED
  BY <1>3, <1>4

-----------------------------------------------------------------------------
(* Renaming. *)

LEMMA NothingBad ==
    ASSUME Structure, Accounts, faults = 0, overlaps = 0
    PROVE  Bad = {}
<1>1. IsFiniteSet(Bad) /\ Cardinality(Bad) \in Nat
  BY LoadFinite
<1>2. Cardinality(Bad) <= 0
  BY DEF Accounts
<1> QED
  BY <1>1, <1>2, FS_EmptySet

\* Nothing in use comes or goes: a renaming spoils no project.
LEMMA RenameBad ==
    ASSUME NEW t \in Threads, Only(t), calls[t].step \in {"title", "retitle"},
           calls[t].work = <<>>, calls'[t].work = <<>>, calls'[t].step \in {"idle", "retitle"},
           ~Holding(t), ~Holding(t)', owned' = owned,
           \A p \in Ids : /\ Active(p)' <=> Active(p)
                          /\ projects'[p].link = projects[p].link
                          /\ Children(p)' = Children(p)
    PROVE  Bad' \subseteq Bad
<1>1. SameBut(None)
  BY DEF SameBut, ListedBy
<1>2. \A d \in Ids : d # None => (Doomed(d)' => Doomed(d)) /\ (Overlooked(d)' => Overlooked(d))
  BY <1>1, WorkFrame
<1>3. \A d \in Ids : ~Item(t, 1, "delete", d) /\ ~Linking(t, d) /\ ~Linking(t, d)'
  BY DEF Item, Linking
<1>4. \A d : d \notin Hands' => d \notin Hands
  BY CallSets
<1>5. Bad' \subseteq Bad \cup {None}
  BY <1>1, <1>2, <1>3, <1>4, BadFrame
<1> QED
  BY <1>5, NoneFacts DEF Bad

\* And moves nothing.
LEMMA RenameMoves ==
    ASSUME Structure, NEW t \in Threads, Only(t), calls[t].step \in {"title", "retitle"},
           ~Holding(t)', owned' = owned, created' = created,
           \A p \in Ids : Active(p) => p \in Known,
           \A p \in Ids : ~Active(p) => projects'[p] = projects[p],
           \A p \in Ids : /\ Active(p)' <=> Active(p)
                          /\ projects'[p].link = projects[p].link
                          /\ Children(p)' = Children(p)
    PROVE  Moves(t)
<1>1. ProjectsFit /\ created \in Nat /\ \A p \in Known : p \in Ids
  BY TypeFacts DEF Structure
<1>2. Known' = Known
  BY DEF Known
<1>3. \A p \in Ids : p \notin Known' => projects'[p] = Absent
  BY <1>1, <1>2 DEF ProjectsFit
<1>4. \A p \in Ids : ~Active(p)' => Children(p)' = {} /\ projects'[p].link = None
  BY <1>1 DEF ProjectsFit
<1>5. \A p \in Ids : Children(p)' \subseteq Known'
  BY <1>1, <1>2 DEF ProjectsFit
<1> QED
  BY <1>1, <1>2, <1>3, <1>4, <1>5 DEF Moves

LEMMA EditProjectStep ==
    ASSUME IInv, NEW t \in Threads, EditProject(t)
    PROVE  IInv'
<1>0. /\ Structure /\ TypeOk /\ ProjectsFit /\ CallFits(t) /\ t \in Busy /\ ~Holding(t)
      /\ TitlesAgree /\ Alone /\ Accounts /\ t \in Others
      /\ calls[t].step = "title" /\ calls[t].kind = "edit" /\ calls[t].work = <<>>
      /\ created' = created /\ owned' = owned /\ faults' = faults /\ overlaps' = overlaps
  <2>1. calls[t].step = "title"
    BY DEF EditProject
  <2>2. Structure /\ CallFits(t)
    BY DEF IInv, Structure
  <2>3. ~Holding(t)
    BY <2>1, <2>2, HoldingSteps
  <2> QED
    BY <2>1, <2>2, <2>3 DEF IInv, Structure, EditProject, Rest, Busy, Others, CallFits, WorkFits, Stepwise
<1>1. CASE ~Active(calls[t].project)
  <2>1. Finish(t) /\ projects' = projects
    BY <1>1 DEF EditProject
  <2>2. \A d \in Ids : ~Item(t, 1, "delete", d)
    BY <1>0 DEF Item
  <2>3. owned' \subseteq Ids
    BY <1>0 DEF TypeOk
  <2> QED
    BY <1>0, <2>1, <2>2, <2>3, FinishStep
<1>2. CASE Active(calls[t].project)
  <2>c. PICK c \in Ids : c = calls[t].project /\ c \in Known /\ Active(c)
    <3>1. calls[t].project \in Known /\ calls[t].project \in Ids
      BY <1>0, TypeFacts DEF CallFits
    <3> QED
      BY <1>2, <3>1
  <2>l. PICK title \in Titles \cup {None} : title = calls[t].title
    BY <1>0, TypeFacts DEF CallType
  <2>1. projects' = [projects EXCEPT ![c].title = title]
    BY <1>2, <2>c, <2>l DEF EditProject
  <2>2. /\ projects' \in [Ids -> ProjectType]
        /\ projects'[c].title = title
        /\ \A p \in Ids : /\ projects'[p].state = projects[p].state
                          /\ projects'[p].materials = projects[p].materials
                          /\ projects'[p].link = projects[p].link
        /\ \A p \in Ids : p # c => projects'[p] = projects[p]
    <3>1. PICK r : r = [projects[c] EXCEPT !.title = title]
      OBVIOUS
    <3>2. /\ r \in ProjectType /\ r.materials = projects[c].materials
          /\ r.state = projects[c].state /\ r.title = title /\ r.link = projects[c].link
      BY <1>0, <3>1 DEF TypeOk, ProjectType
    <3>3. projects' = [projects EXCEPT ![c] = r]
      BY <2>1, <3>1
    <3>4. /\ projects' \in [Ids -> ProjectType] /\ projects'[c] = r
          /\ \A p \in Ids : p # c => projects'[p] = projects[p]
      BY <1>0, <3>2, <3>3 DEF TypeOk
    <3> QED
      BY <3>2, <3>4
  <2>3. \A p \in Ids : /\ Active(p)' <=> Active(p)
                       /\ projects'[p].link = projects[p].link
                       /\ Children(p)' = Children(p)
    BY <2>2 DEF Active, Children
  <2>4. /\ calls' \in [Threads -> CallType] /\ Only(t) /\ calls'[t].work = <<>>
        /\ \/ calls[t].subject = None /\ calls'[t] = Idle
           \/ /\ calls[t].subject # None
              /\ calls'[t].step = "retitle" /\ calls'[t].kind = "edit"
              /\ calls'[t].project = c /\ calls'[t].subject = calls[t].subject
              /\ calls'[t].title = title
    <3>1. CASE calls[t].subject = None
      <4>1. Finish(t)
        BY <1>2, <3>1 DEF EditProject
      <4>2. Idle.work = <<>>
        BY DEF Idle
      <4>3. calls' \in [Threads -> CallType] /\ calls'[t] = Idle /\ Only(t)
        BY <1>0, <4>1, FinishFacts
      <4> QED
        BY <3>1, <4>2, <4>3
    <3>2. CASE calls[t].subject # None
      <4>1. PICK step \in Steps : step = "retitle" /\ Goto(t, step)
        BY <1>2, <3>2 DEF EditProject, Steps
      <4> QED
        BY <1>0, <2>c, <2>l, <3>2, <4>1, GotoFacts
    <3> QED
      BY <3>1, <3>2
  <2>5. TypeOk'
    BY <1>0, <2>2, <2>4 DEF TypeOk
  <2>6. ~Holding(t)' /\ calls'[t].step \in {"idle", "retitle"}
    BY <2>4 DEF Holding, Creating, Idle
  <2>7. \A p \in Ids : Active(p) => p \in Known
    BY <1>0 DEF ProjectsFit, Absent, Active
  <2>8. Moves(t)
    BY <1>0, <2>2, <2>3, <2>4, <2>6, <2>7, <2>c, RenameMoves
  <2>9. CallFits(t)'
    <3>1. Known' = Known
      BY <1>0 DEF Known
    <3>2. CASE calls'[t] = Idle
      BY <3>2, IdleFits
    <3>3. CASE calls[t].subject # None /\ calls'[t].step = "retitle" /\ calls'[t].kind = "edit"
               /\ calls'[t].project = c /\ calls'[t].subject = calls[t].subject
      BY <2>4, <2>6, <2>c, <3>1, <3>3
         DEF CallFits, Stepwise, CreationFits, MaterialFits, WorkFits, DeletionFits
    <3> QED
      BY <2>4, <3>2, <3>3
  <2>10. Bad' \subseteq Bad
    BY <1>0, <2>3, <2>4, <2>6, RenameBad
  <2>11. TitlesAgree'
    <3>1. ASSUME faults' = 0, overlaps = 0, NEW p \in Ids, NEW d \in Children(p)'
          PROVE  \/ projects'[p].materials[d] = projects'[d].title
                 \/ /\ calls'[t].step = "retitle" /\ calls'[t].project = d
                    /\ calls'[t].subject = p /\ calls'[t].title = projects'[d].title
      <4>1. \A u \in Threads : calls[u].step # "retitle" /\ ~Linking(u, d)
        BY <1>0, <3>1 DEF Alone, Busy, Linking
      <4>2. d \in Children(p) /\ d \in Ids
        BY <1>0, <2>3, TypeFacts
      <4>3. projects[p].materials[d] = projects[d].title
        BY <1>0, <3>1, <4>1, <4>2 DEF TitlesAgree
      <4>4. CASE d # c
        BY <2>2, <4>2, <4>3, <4>4
      <4>5. CASE d = c
        <5>1. d \notin Bad
          BY <1>0, <3>1, NothingBad
        <5>2. projects[c].link = p
          BY <4>1, <4>2, <4>5, <5>1 DEF Bad, Misplaced
        <5>3. calls[t].subject = p
          BY <1>0, <2>c, <3>1, <5>2 DEF TitlesAgree
        <5> QED
          BY <2>2, <2>4, <4>5, <5>3, NoneFacts
      <4> QED
        BY <4>4, <4>5
    <3>2. calls'[t].step \in {"add", "retitle"} => calls'[t].title = projects'[calls'[t].project].title
      BY <2>2, <2>4 DEF Idle
    <3>3. calls'[t].step # "title"
      BY <2>6
    <3> QED
      BY <1>0, <2>4, <3>1, <3>2, <3>3, TitlesFrame
  <2> QED
    BY <1>0, <2>5, <2>6, <2>8, <2>9, <2>10, <2>11, WorkStep
<1> QED
  BY <1>1, <1>2

LEMMA EditMaterialStep ==
    ASSUME IInv, NEW t \in Threads, EditMaterial(t)
    PROVE  IInv'
<1>0. /\ Structure /\ TypeOk /\ ProjectsFit /\ CallFits(t) /\ t \in Busy /\ ~Holding(t)
      /\ TitlesAgree /\ Alone /\ Accounts /\ t \in Others
      /\ calls[t].step = "retitle" /\ calls[t].work = <<>> /\ Finish(t)
      /\ created' = created /\ owned' = owned /\ faults' = faults /\ overlaps' = overlaps
  <2>1. calls[t].step = "retitle"
    BY DEF EditMaterial
  <2>2. Structure /\ CallFits(t)
    BY DEF IInv, Structure
  <2>3. ~Holding(t)
    BY <2>1, <2>2, HoldingSteps
  <2> QED
    BY <2>1, <2>2, <2>3 DEF IInv, Structure, EditMaterial, Rest, Busy, Others, CallFits, WorkFits
<1>c. PICK c \in Ids : c = calls[t].project /\ c \in Known
  <2>1. calls[t].project \in Known /\ calls[t].project \in Ids
    BY <1>0, TypeFacts DEF CallFits
  <2> QED
    BY <2>1
<1>s. PICK s \in Ids : s = calls[t].subject
  BY <1>0, TypeFacts DEF CallFits, CallType
<1>l. PICK title \in Titles \cup {None} : title = calls[t].title
  BY <1>0, TypeFacts DEF CallType
<1>1. calls' \in [Threads -> CallType] /\ calls'[t] = Idle /\ Only(t)
  BY <1>0, FinishFacts
<1>2. /\ projects' \in [Ids -> ProjectType]
      /\ \A p \in Ids : /\ projects'[p].state = projects[p].state
                        /\ projects'[p].title = projects[p].title
                        /\ projects'[p].link = projects[p].link
                        /\ DOMAIN projects'[p].materials = DOMAIN projects[p].materials
      /\ \A p \in Ids : ~Active(p) => projects'[p] = projects[p]
      /\ \A p \in Ids : \A d \in Children(p) :
           projects'[p].materials[d] = IF p = s /\ d = c THEN title ELSE projects[p].materials[d]
  <2>1. CASE Active(s) /\ c \in Children(s)
    <3>0. PICK list : Lists(list, s, c, title)
      BY DEF Lists
    <3>1. /\ list \in Maps /\ DOMAIN list = Children(s) /\ list[c] = title
          /\ \A d \in Children(s) : d # c => list[d] = projects[s].materials[d]
      <4>1. /\ list \in Maps /\ DOMAIN list = Children(s) \cup {c} /\ list[c] = title
            /\ \A d \in Children(s) : d # c => list[d] = projects[s].materials[d]
        <5>1. Listed(list, s, c, title)
          BY <1>0, <3>0, ListFacts
        <5> QED
          BY <5>1 DEF Listed
      <4>2. Children(s) \cup {c} = Children(s)
        BY <2>1
      <4> QED
        BY <4>1, <4>2
    <3>2. PICK r : r = [projects[s] EXCEPT !.materials = list]
      OBVIOUS
    <3>3. /\ r \in ProjectType /\ r.materials = list /\ r.state = projects[s].state
          /\ r.title = projects[s].title /\ r.link = projects[s].link
      BY <1>0, <3>1, <3>2 DEF TypeOk, ProjectType
    <3>4. projects' = [projects EXCEPT ![s].materials = With(@, c, title)]
      BY <2>1, <1>c, <1>s, <1>l DEF EditMaterial
    <3>5. projects' = [projects EXCEPT ![s] = r]
      BY <3>0, <3>2, <3>4 DEF Lists
    <3>6. /\ projects' \in [Ids -> ProjectType] /\ projects'[s] = r
          /\ \A p \in Ids : p # s => projects'[p] = projects[p]
      BY <1>0, <3>3, <3>5 DEF TypeOk
    <3> QED
      BY <2>1, <3>1, <3>3, <3>6 DEF Children
  <2>2. CASE ~(Active(s) /\ c \in Children(s))
    <3>1. projects' = projects
      BY <2>2, <1>c, <1>s DEF EditMaterial
    <3>2. c \notin Children(s)
      BY <1>0, <2>2 DEF ProjectsFit
    <3> QED
      BY <1>0, <3>1, <3>2 DEF TypeOk
  <2> QED
    BY <2>1, <2>2
<1>3. \A p \in Ids : /\ Active(p)' <=> Active(p)
                     /\ projects'[p].link = projects[p].link
                     /\ Children(p)' = Children(p)
  BY <1>2 DEF Active, Children
<1>4. TypeOk'
  BY <1>0, <1>1, <1>2 DEF TypeOk
<1>5. CallFits(t)' /\ ~Holding(t)' /\ t \notin Busy'
  BY <1>1, IdleFits
<1>6. calls'[t].step = "idle" /\ calls'[t].work = <<>>
  BY <1>1 DEF Idle
<1>7. \A p \in Ids : Active(p) => p \in Known
  BY <1>0 DEF ProjectsFit, Absent, Active
<1>8. Moves(t)
  BY <1>0, <1>1, <1>2, <1>3, <1>5, <1>7, RenameMoves
<1>9. Bad' \subseteq Bad
  BY <1>0, <1>1, <1>3, <1>5, <1>6, RenameBad
<1>10. TitlesAgree'
  <2>1. ASSUME faults' = 0, overlaps = 0, NEW p \in Ids, NEW d \in Children(p)'
        PROVE  projects'[p].materials[d] = projects'[d].title
    <3>1. d \in Children(p) /\ d \in Ids
      BY <1>0, <1>3, TypeFacts
    <3>2. \A u \in Threads : calls[u].step = "retitle" => u = t
      BY <1>0, <2>1 DEF Alone, Busy
    <3>3. title = projects[c].title
      BY <1>0, <1>c, <1>l, <2>1 DEF TitlesAgree
    <3>4. CASE p = s /\ d = c
      BY <1>2, <3>1, <3>3, <3>4
    <3>5. CASE ~(p = s /\ d = c)
      <4>1. projects[p].materials[d] = projects[d].title
        BY <1>0, <1>c, <1>s, <2>1, <3>1, <3>2, <3>5 DEF TitlesAgree
      <4> QED
        BY <1>2, <3>1, <3>5, <4>1
    <3> QED
      BY <3>4, <3>5
  <2> QED
    BY <1>0, <1>1, <1>6, <2>1, TitlesFrame
<1> QED
  BY <1>0, <1>4, <1>5, <1>6, <1>8, <1>9, <1>10, WorkStep DEF Others

-----------------------------------------------------------------------------
(* A step that fails. *)

LEMMA FailStep ==
    ASSUME IInv, NEW t \in Threads, Fail(t)
    PROVE  IInv'
<1>0. /\ Structure /\ TypeOk /\ CallFits(t) /\ t \in Busy /\ TitlesAgree /\ Alone /\ Accounts
      /\ faults \in Nat /\ faults' = faults + 1 /\ faults' \in Nat /\ faults' # 0
      /\ projects' = projects /\ created' = created /\ owned' = owned /\ overlaps' = overlaps
      /\ Raise(t) \/ (calls[t].step = "stock" /\ Finish(t))
  <2>1. /\ faults' = faults + 1 /\ projects' = projects /\ created' = created
        /\ owned' = owned /\ overlaps' = overlaps /\ calls[t].step # "idle"
        /\ (Raise(t) \/ (calls[t].step = "stock" /\ Finish(t)))
    BY DEF Fail
  <2>2. Structure /\ TypeOk /\ CallFits(t) /\ faults \in Nat
    BY DEF IInv, Structure, TypeOk
  <2> QED
    BY <2>1, <2>2 DEF IInv, Busy
<1>1. CASE Undo(t) /\ calls[t].step \in {"stock", "add", "link"}
  <2>1. Undo(t)
    BY <1>1
  <2>2. /\ Structure' /\ Only(t)
        /\ Others' \subseteq Others /\ Hands' \subseteq Hands /\ Busy' \subseteq Busy
        /\ Bad' \subseteq Bad \cup {calls[t].project} /\ calls'[t].step = "undo"
    BY <1>0, <1>1, <2>1, UndoFacts
  <2>3. Faults(t, calls[t].project)
    BY <1>0, <2>2 DEF Faults
  <2>4. Accounts'
    BY <1>0, <2>2, <2>3, FaultsAccounts
  <2>5. Alone'
    BY <1>0, <2>2, AloneStays
  <2>6. TitlesAgree'
    BY <1>0, <2>2, TitlesStay
  <2> QED
    BY <2>2, <2>4, <2>5, <2>6 DEF IInv
<1>2. CASE Finish(t) /\ calls[t].step \notin {"add", "link"}
  <2>1. calls' \in [Threads -> CallType] /\ calls'[t] = Idle /\ Only(t)
    BY <1>0, <1>2, FinishFacts
  <2>2. calls'[t].step = "idle" /\ calls'[t].work = <<>>
    BY <2>1 DEF Idle
  <2>3. CallFits(t)' /\ ~Holding(t)' /\ t \notin Busy' /\ t \notin Others'
    BY <2>1, IdleFits DEF Others
  <2>4. Moves(t) /\ \A x : SameBut(x)
    BY <1>0, <2>1, <2>3, StillMoves
  <2>5. TypeOk'
    BY <1>0, <2>1 DEF TypeOk
  <2>6. Structure'
    BY <1>0, <2>3, <2>4, <2>5, StructureStep
  <2>7. Others' \subseteq Others /\ Hands' \subseteq Hands /\ Busy' \subseteq Busy
    BY <2>1, <2>3, CallSets
  <2>8. PICK x : /\ \A d : Item(t, 1, "delete", d) => d = x
                 /\ Holding(t) => calls[t].project = x
    <3>1. CASE calls[t].work = <<>>
      <4>1. \A d : ~Item(t, 1, "delete", d)
        BY <3>1 DEF Item
      <4> QED
        BY <4>1
    <3>2. CASE calls[t].work # <<>>
      <4>1. Deleting(t)
        BY <1>0, <3>2 DEF Deleting, CallFits, WorkFits
      <4>2. Holding(t) => calls[t].project = calls[t].work[1].project
        BY <4>1, HeadFacts
      <4>3. \A d : Item(t, 1, "delete", d) => d = calls[t].work[1].project
        BY DEF Item
      <4> QED
        BY <4>2, <4>3
    <3> QED
      BY <3>1, <3>2
  <2>9. Bad' \subseteq Bad \cup {x}
    <3>1. SameBut(x)
      BY <2>4
    <3>2. \A d \in Ids : d # x => (Doomed(d)' => Doomed(d)) /\ (Overlooked(d)' => Overlooked(d))
      BY <2>1, <2>2, <3>1, WorkFrame
    <3>3. \A d \in Ids : ~Linking(t, d) /\ ~Linking(t, d)'
      BY <1>2, <2>2 DEF Linking
    <3>4. \A d \in Ids : d # x => ~Item(t, 1, "delete", d)
      BY <2>8
    <3>5. \A d : d # x /\ d \notin Hands' => d \notin Hands
      BY <2>1, <2>8, CallSets
    <3> QED
      BY <1>0, <2>1, <2>2, <3>1, <3>2, <3>3, <3>4, <3>5, BadFrame
  <2>10. Faults(t, x)
    BY <1>0, <2>7, <2>9 DEF Faults
  <2>11. Accounts'
    BY <1>0, <2>6, <2>10, FaultsAccounts
  <2>12. Alone'
    BY <1>0, <2>7, AloneStays
  <2>13. TitlesAgree'
    BY <1>0, <2>1, <2>2, TitlesStay
  <2> QED
    BY <2>6, <2>11, <2>12, <2>13 DEF IInv
<1> QED
  BY <1>0, <1>1, <1>2 DEF Raise

-----------------------------------------------------------------------------
(* The invariant. *)

LEMMA InitIInv == Init => IInv
<1> SUFFICES ASSUME Init PROVE IInv
  OBVIOUS
<1>1. /\ \A p \in Ids : projects[p] = Absent
      /\ \A t \in Threads : calls[t] = Idle
      /\ created = 0 /\ owned = {} /\ faults = 0 /\ overlaps = 0
  BY DEF Init
<1>2. /\ \A p \in Ids : ~Active(p) /\ projects[p].link = None /\ Children(p) = {}
      /\ \A t \in Threads : /\ calls[t].step = "idle" /\ calls[t].work = <<>>
                            /\ ~Holding(t) /\ CallFits(t)
  <2>1. Absent.state # "active" /\ Absent.link = None /\ DOMAIN Absent.materials = {}
    BY EmptyMap DEF Absent
  <2>2. \A p \in Ids : ~Active(p) /\ projects[p].link = None /\ Children(p) = {}
    BY <1>1, <2>1 DEF Active, Children
  <2>3. Idle.step = "idle" /\ Idle.work = <<>>
    BY DEF Idle
  <2>4. ASSUME NEW t \in Threads
        PROVE  calls[t].step = "idle" /\ calls[t].work = <<>> /\ ~Holding(t)
    BY <1>1, <2>3 DEF Holding
  <2>5. ASSUME NEW t \in Threads PROVE CallFits(t)
    BY <1>1, <2>3, <2>4
       DEF CallFits, Stepwise, CreationFits, MaterialFits, WorkFits, DeletionFits, Item
  <2> QED
    BY <2>2, <2>4, <2>5
<1>3. TypeOk
  <2>1. Absent \in ProjectType
    BY EmptyMap DEF Absent, ProjectType
  <2>2. projects \in [Ids -> ProjectType]
    BY <2>1 DEF Init
  <2>3. calls \in [Threads -> CallType]
    BY IdleType DEF Init
  <2>4. 0 \in 0..MaxProjects
    BY SubjectsAssumption
  <2> QED
    BY <1>1, <2>2, <2>3, <2>4 DEF TypeOk
<1>4. ProjectsFit
  BY <1>1, <1>2, NoneFacts DEF ProjectsFit
<1>5. Bad = {} /\ Busy = {} /\ Others = {}
  <2>1. Busy = {} /\ Others = {}
    BY <1>2 DEF Busy, Others
  <2>2. \A c : ListedBy(c) = {}
    BY <1>2 DEF ListedBy
  <2>3. \A c \in Ids : /\ ~Misplaced(c) /\ ~Doomed(c) /\ ~Overlooked(c)
                       /\ ~Stray(c) /\ ~Unseen(c) /\ ~Stranded(c) /\ ~Lost(c)
    BY <1>2, <2>2 DEF Misplaced, Doomed, Overlooked, Stray, Orphan, Unseen, Stranded, Lost
  <2> QED
    BY <2>1, <2>3 DEF Bad
<1>6. Accounts
  <2>1. Cardinality(Bad) = 0 /\ IsFiniteSet(Others)
    BY <1>5, FS_EmptySet
  <2> QED
    BY <1>1, <1>5, <2>1 DEF Accounts
<1>7. Alone
  BY <1>5 DEF Alone
<1>8. TitlesAgree
  BY <1>2 DEF TitlesAgree
<1> QED
  BY <1>2, <1>3, <1>4, <1>6, <1>7, <1>8 DEF IInv, Structure

LEMMA StutterStep ==
    ASSUME IInv, UNCHANGED vars
    PROVE  IInv'
<1>1. /\ projects' = projects /\ created' = created /\ owned' = owned /\ calls' = calls
      /\ faults' = faults /\ overlaps' = overlaps
  BY DEF vars
<1>2. TypeOk' /\ Alone' /\ TitlesAgree'
  BY <1>1 DEF IInv, Structure, TypeOk, Alone, Busy, TitlesAgree, Children
<1>3. /\ Known' = Known /\ Busy' = Busy /\ Hands' = Hands /\ Others' = Others
      /\ \A p : Active(p)' <=> Active(p)
      /\ \A p : Children(p)' = Children(p)
      /\ \A p : ListedBy(p)' = ListedBy(p)
      /\ \A t : Holding(t)' <=> Holding(t)
      /\ \A p : Root(p)' <=> Root(p)
      /\ \A p : Orphan(p)' <=> Orphan(p)
  BY <1>1 DEF Known, Busy, Hands, Others, Active, Children, ListedBy, Holding, Creating, Root, Orphan
<1>4. \A t, i, op, p : Item(t, i, op, p)' <=> Item(t, i, op, p)
  BY <1>1 DEF Item
<1>5. ProjectsFit'
  BY <1>1, <1>3 DEF IInv, Structure, ProjectsFit
<1>6. ASSUME NEW t \in Threads PROVE CallFits(t)'
  <2>1. CallFits(t)
    BY DEF IInv, Structure
  <2>2. CreationFits(t)'
    BY <1>1, <1>3, <2>1 DEF CallFits, CreationFits
  <2>3. MaterialFits(t)'
    BY <1>1, <1>3, <2>1 DEF CallFits, MaterialFits
  <2>4. WorkFits(t)'
    BY <1>1, <1>3, <1>4, <2>1 DEF CallFits, WorkFits
  <2>5. DeletionFits(t)'
    BY <1>1, <1>3, <1>4, <2>1 DEF CallFits, DeletionFits, Settled
  <2> QED
    BY <1>1, <1>3, <2>1, <2>2, <2>3, <2>4, <2>5 DEF CallFits, Stepwise
<1>7. Bad' = Bad
  BY <1>1 DEF Bad, Misplaced, Doomed, Overlooked, Stray, Unseen, Stranded, Lost, Linking,
              Item, Orphan, ListedBy, Active, Children, Hands, Holding, Creating
<1>8. Accounts'
  BY <1>1, <1>3, <1>7 DEF IInv, Accounts, Load
<1> QED
  BY <1>2, <1>5, <1>6, <1>8 DEF IInv, Structure

LEMMA StepIInv == IInv /\ [Next]_vars => IInv'
<1> SUFFICES ASSUME IInv, [Next]_vars PROVE IInv'
  OBVIOUS
<1>1. CASE UNCHANGED vars
  BY <1>1, StutterStep
<1>2. ASSUME NEW t \in Threads, NEW kind \in {"subject", "project"}, NEW title \in Titles,
             BeginCreate(t, kind, title)
      PROVE  IInv'
  BY <1>2, BeginCreateStep
<1>3. ASSUME NEW t \in Threads, NEW p \in Ids, NEW title \in Titles, BeginMaterial(t, p, title)
      PROVE  IInv'
  BY <1>3, BeginMaterialStep
<1>4. ASSUME NEW t \in Threads, NEW p \in Ids, NEW title \in Titles, BeginEdit(t, p, title)
      PROVE  IInv'
  BY <1>4, BeginEditStep
<1>5. ASSUME NEW t \in Threads, CreateProject(t) PROVE IInv'
  BY <1>5, CreateProjectStep
<1>6. ASSUME NEW t \in Threads, Stock(t) PROVE IInv'
  BY <1>6, StockStep
<1>7. ASSUME NEW t \in Threads, AddMaterial(t) PROVE IInv'
  BY <1>7, AddMaterialStep
<1>8. ASSUME NEW t \in Threads, LinkMaterial(t) PROVE IInv'
  BY <1>8, LinkMaterialStep
<1>9. ASSUME NEW t \in Threads, AddOwner(t) PROVE IInv'
  BY <1>9, AddOwnerStep
<1>10. ASSUME NEW t \in Threads, NEW p \in Ids, BeginDeleteProject(t, p) \/ BeginDeleteSubject(t, p)
       PROVE  IInv'
  BY <1>10, BeginDeleteStep
<1>11. ASSUME NEW t \in Threads, NEW p \in Ids, NEW child \in Ids, BeginDeleteMaterial(t, p, child)
       PROVE  IInv'
  BY <1>11, BeginDeleteMaterialStep
<1>12. ASSUME NEW t \in Threads, VisitProject(t) PROVE IInv'
  BY <1>12, VisitProjectStep
<1>13. ASSUME NEW t \in Threads, UnlinkMaterial(t) PROVE IInv'
  BY <1>13, UnlinkMaterialStep
<1>14. ASSUME NEW t \in Threads, DeleteProject(t) PROVE IInv'
  BY <1>14, DeleteProjectStep
<1>15. ASSUME NEW t \in Threads, EndDelete(t) PROVE IInv'
  BY <1>15, EndDeleteStep
<1>16. ASSUME NEW t \in Threads, RemoveMemberships(t) PROVE IInv'
  BY <1>16, RemoveMembershipsStep
<1>17. ASSUME NEW t \in Threads, EditProject(t) PROVE IInv'
  BY <1>17, EditProjectStep
<1>18. ASSUME NEW t \in Threads, EditMaterial(t) PROVE IInv'
  BY <1>18, EditMaterialStep
<1>19. ASSUME NEW t \in Threads, Fail(t) PROVE IInv'
  BY <1>19, FailStep
<1> QED
  BY <1>1, <1>2, <1>3, <1>4, <1>5, <1>6, <1>7, <1>8, <1>9, <1>10, <1>11, <1>12, <1>13, <1>14,
     <1>15, <1>16, <1>17, <1>18, <1>19 DEF Next

LEMMA InvariantHolds == Spec => []IInv
<1>1. Init => IInv
  BY InitIInv
<1>2. IInv /\ [Next]_vars => IInv'
  BY StepIInv
<1> QED
  BY <1>1, <1>2, PTL DEF Spec

-----------------------------------------------------------------------------
(* Theorems. *)

\* With nothing at work, what is left behind is bad.
LEMMA LeftBehindIsBad ==
    ASSUME Structure, Quiet
    PROVE  Orphans \cup Dangling \cup Unowned \subseteq Bad
<1>1. \A t \in Threads : calls[t].step = "idle" /\ ~Holding(t) /\ calls[t].work = <<>>
  BY DEF Quiet, Holding, Structure, CallFits, WorkFits
<1>2. \A t \in Threads : \A c : ~Item(t, 1, "delete", c) /\ ~Linking(t, c) /\ c \notin Hands
  BY <1>1 DEF Item, Linking, Hands
<1>3. \A p \in Ids : Children(p) \subseteq Ids
  BY TypeFacts DEF Structure
<1>4. ASSUME NEW c \in Orphans PROVE c \in Bad
  <2>1. c \in Ids /\ Active(c) /\ projects[c].link # None /\ c \notin Children(projects[c].link)
    BY DEF Orphans
  <2>2. Orphan(c)
    BY <2>1 DEF Orphan, ListedBy
  <2> QED
    BY <1>2, <2>1, <2>2 DEF Bad, Stray
<1>5. ASSUME NEW c \in Dangling PROVE c \in Bad
  <2>1. PICK p \in Ids : c \in Children(p)
    BY DEF Dangling
  <2>2. c \in Ids /\ ~(Active(c) /\ projects[c].link = p)
    BY <1>3, <2>1 DEF Dangling
  <2> QED
    BY <1>2, <2>1, <2>2 DEF Bad, Misplaced
<1>6. ASSUME NEW c \in Unowned PROVE c \in Bad
  <2>1. c \in Ids /\ Active(c) /\ c \notin owned
    BY DEF Unowned
  <2>2. c \notin Hands
    BY <1>1 DEF Hands
  <2>3. CASE Orphan(c)
    BY <1>2, <2>1, <2>3 DEF Bad, Stray
  <2>4. CASE ~Orphan(c)
    BY <2>1, <2>2, <2>4 DEF Bad, Unseen
  <2> QED
    BY <2>3, <2>4
<1> QED
  BY <1>4, <1>5, <1>6

LEMMA IInvBounds == IInv => DamageIsBounded
<1> SUFFICES ASSUME IInv, Quiet
             PROVE  /\ Cardinality(Orphans \cup Dangling \cup Unowned) <= faults + overlaps
                    /\ faults + overlaps = 0 =>
                         \A p \in Ids : \A c \in Children(p) :
                            projects[p].materials[c] = projects[c].title
  BY DEF DamageIsBounded
<1>0. Structure /\ Accounts /\ TitlesAgree
  BY DEF IInv
<1>1. PICK S : S = Orphans \cup Dangling \cup Unowned
  OBVIOUS
<1>2. S \subseteq Bad
  BY <1>0, <1>1, LeftBehindIsBad
<1>3. IsFiniteSet(Bad) /\ Cardinality(Bad) \in Nat /\ faults \in Nat /\ overlaps \in Nat
  BY <1>0, LoadFinite
<1>4. Cardinality(S) <= Cardinality(Bad) /\ Cardinality(S) \in Nat
  BY <1>2, <1>3, SubsetCount
<1>5. Cardinality(Bad) <= faults + overlaps
  BY <1>0 DEF Accounts
<1>6. Cardinality(S) <= faults + overlaps
  BY <1>3, <1>4, <1>5
<1>7. ASSUME faults + overlaps = 0, NEW p \in Ids, NEW c \in Children(p)
      PROVE  projects[p].materials[c] = projects[c].title
  <2>1. faults = 0 /\ overlaps = 0
    BY <1>3, <1>7
  <2> QED
    BY <1>0, <2>1 DEF TitlesAgree, Quiet
<1> QED
  BY <1>1, <1>6, <1>7

\* However many projects, calls and titles there are: between calls, at most one
\* project or list entry has been left behind for each step that failed and for each
\* call that met another (create_subject, create_subject_material, delete_project and
\* the edits of api.py, add_project_owner and remove_project_memberships of the
\* routes).  With neither, materials, subjects and owners belong together and the
\* titles agree.
THEOREM DamageStaysBounded == Spec => []DamageIsBounded
<1>1. Spec => []IInv
  BY InvariantHolds
<1>2. IInv => DamageIsBounded
  BY IInvBounds
<1> QED
  BY <1>1, <1>2, PTL

=============================================================================
