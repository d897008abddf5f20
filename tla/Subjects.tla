----------------------------- MODULE Subjects -----------------------------
(***************************************************************************)
(* Subjects and their study materials (src/backend/system/api.py, the      *)
(* routes of src/adapter/routers/projects.py).  A subject is a project; a  *)
(* material other than its default one is a second project, the child,     *)
(* listed by the subject and linked back to it.  Who may see a project is  *)
(* a row of the auth store.                                                *)
(*                                                                         *)
(* A call commits one session per project it touches, and its rows in the  *)
(* auth store after that, so a call is a sequence of steps.  A session is  *)
(* one step here; a step may fail, because another session is open or      *)
(* because the store refuses, and the call then undoes what it can.        *)
(***************************************************************************)
EXTENDS Naturals, Sequences, FiniteSets, FiniteSetsExt, SequencesExt

CONSTANTS
    MaxProjects,   \* bound: projects ever created
    Threads,       \* calls at work at the same time
    MaxFaults,     \* bound: steps that fail
    MaxOverlaps,   \* bound: calls that begin while another is at work
    Titles,        \* titles a project may get
    None

ASSUME SubjectsAssumption ==
    /\ MaxProjects \in Nat /\ MaxFaults \in Nat /\ MaxOverlaps \in Nat
    /\ Titles # {} /\ None \notin Titles /\ None \notin Nat

VARIABLES
    projects,   \* the project store
    created,    \* projects created so far
    owned,      \* projects the user may see (project_memberships)
    calls,      \* the calls at work
    faults,     \* steps that have failed
    overlaps    \* calls begun while another was at work

vars == <<projects, created, owned, calls, faults, overlaps>>

Ids == 1..MaxProjects

(* materials maps each listed child to its title there.  The default       *)
(* material of a project is the project itself: the code lists it whether  *)
(* or not it has been stored, so it is left out.                           *)
Absent == [state |-> "absent", title |-> None, link |-> None, materials |-> <<>>]
Bootstrap(title) == [Absent EXCEPT !.state = "active", !.title = title]
Tombstone(p) == [Absent EXCEPT !.state = "deleted", !.title = projects[p].title]

Active(p) == projects[p].state = "active"
Children(p) == DOMAIN projects[p].materials
With(f, c, title) == [x \in DOMAIN f \cup {c} |-> IF x = c THEN title ELSE f[x]]
Without(f, c) == [x \in DOMAIN f \ {c} |-> f[x]]

\* _resolve_subject_project_id
SubjectOf(p) == IF projects[p].link # None THEN projects[p].link ELSE p

-----------------------------------------------------------------------------
(* Calls. *)

Idle == [kind |-> None, step |-> "idle", subject |-> None, project |-> None,
         title |-> None, related |-> {}, work |-> <<>>]

Quiet == \A t \in Threads : calls[t].step = "idle"

Begin(t, call) ==
    /\ calls[t].step = "idle"
    /\ IF Quiet THEN UNCHANGED overlaps
       ELSE overlaps < MaxOverlaps /\ overlaps' = overlaps + 1
    /\ calls' = [calls EXCEPT ![t] = call]
    /\ UNCHANGED <<projects, created, owned, faults>>

Goto(t, step) == calls' = [calls EXCEPT ![t].step = step]
Finish(t) == calls' = [calls EXCEPT ![t] = Idle]
Rest == <<created, owned, faults, overlaps>>

Visit(p) == [op |-> "visit", project |-> p, subject |-> None]

\* The compensation of a creation: delete the new project, errors swallowed.
Undo(t) ==
    calls' = [calls EXCEPT ![t].step = "undo", ![t].work = <<Visit(calls[t].project)>>]

\* An exception in a step: create_subject and create_subject_material undo, the
\* others end.
Raise(t) == IF calls[t].step \in {"stock", "add", "link"} THEN Undo(t) ELSE Finish(t)

\* create_subject begins its second session outside the try: a session that is
\* refused is not undone.
Fail(t) ==
    /\ calls[t].step # "idle"
    /\ faults < MaxFaults
    /\ faults' = faults + 1
    /\ Raise(t) \/ (calls[t].step = "stock" /\ Finish(t))
    /\ UNCHANGED <<projects, created, owned, overlaps>>

-----------------------------------------------------------------------------
(* Creating. *)

BeginCreate(t, kind, title) ==
    /\ kind \in {"subject", "project"}
    /\ Begin(t, [Idle EXCEPT !.kind = kind, !.step = "create", !.title = title])

\* create_subject_material resolves the subject and reads that it is active.
BeginMaterial(t, p, title) ==
    /\ p \in owned /\ Active(SubjectOf(p))
    /\ Begin(t, [Idle EXCEPT !.kind = "material", !.step = "create",
                             !.subject = SubjectOf(p), !.title = title])

CreateProject(t) ==
    LET c == calls[t] IN
    /\ c.step = "create"
    /\ created < MaxProjects
    /\ created' = created + 1
    /\ projects' = [projects EXCEPT ![created + 1] = Bootstrap(c.title)]
    /\ calls' = [calls EXCEPT
           ![t].project = created + 1,
           ![t].step = CASE c.kind = "subject"  -> "stock"
                         [] c.kind = "project"  -> "own"
                         [] c.kind = "material" -> "add"]
    /\ UNCHANGED <<owned, faults, overlaps>>

\* create_subject's second session makes the default material the whole list; it
\* does not begin on a project that is gone.
Stock(t) ==
    /\ calls[t].step = "stock"
    /\ IF Active(calls[t].project)
         THEN /\ projects' = [projects EXCEPT ![calls[t].project].materials = <<>>]
              /\ Goto(t, "own")
         ELSE Finish(t) /\ UNCHANGED projects
    /\ UNCHANGED Rest

\* The session on the subject reads its list again and adds the material.
AddMaterial(t) ==
    LET c == calls[t] IN
    /\ c.step = "add"
    /\ IF Active(c.subject)
         THEN /\ projects' = [projects EXCEPT
                     ![c.subject].materials = With(@, c.project, c.title)]
              /\ Goto(t, "link")
         ELSE Raise(t) /\ UNCHANGED projects
    /\ UNCHANGED Rest

LinkMaterial(t) ==
    LET c == calls[t] IN
    /\ c.step = "link"
    /\ IF Active(c.project)
         THEN /\ projects' = [projects EXCEPT ![c.project].link = c.subject]
              /\ Goto(t, "own")
         ELSE Raise(t) /\ UNCHANGED projects
    /\ UNCHANGED Rest

\* add_project_owner, by the route, after the project store is done.
AddOwner(t) ==
    /\ calls[t].step = "own"
    /\ owned' = owned \cup {calls[t].project}
    /\ Finish(t)
    /\ UNCHANGED <<projects, created, faults, overlaps>>

-----------------------------------------------------------------------------
(* Deleting.  delete_project calls itself for each material of an unlinked *)
(* project; work is what is left of those calls.                           *)

\* list_membership_cleanup_project_ids, read before anything is deleted.
Related(p) == IF projects[p].link # None THEN {p} ELSE {p} \cup Children(p)

BeginDelete(t, p, target) ==
    /\ Active(p)
    /\ Begin(t, [Idle EXCEPT !.kind = "delete", !.step = "delete",
                             !.related = Related(p), !.work = <<Visit(target)>>])

\* DELETE /projects/{p}, which checks no access.
BeginDeleteProject(t, p) == BeginDelete(t, p, p)

\* DELETE /subjects/{p}
BeginDeleteSubject(t, p) == p \in owned /\ BeginDelete(t, p, SubjectOf(p))

\* DELETE /subjects/{p}/materials/{m}: the default material is refused.
BeginDeleteMaterial(t, p, child) ==
    LET s == SubjectOf(p) IN
    /\ p \in owned /\ Active(s) /\ child \in Children(s)
    /\ Begin(t, [Idle EXCEPT !.kind = "delete", !.step = "delete",
                             !.related = {child}, !.work = <<Visit(child)>>])

Deleting(t) == calls[t].step \in {"delete", "undo"} /\ calls[t].work # <<>>

\* Reads the link and the materials; an unlinked project must be active.  The
\* materials are visited as they are dated, which may be any order.
VisitProject(t) ==
    LET p == Head(calls[t].work).project
        rest == Tail(calls[t].work)
        del == [op |-> "delete", project |-> p, subject |-> None]
        unlink == [op |-> "unlink", project |-> p, subject |-> projects[p].link]
    IN  /\ Deleting(t) /\ Head(calls[t].work).op = "visit"
        /\ \/ /\ projects[p].link # None
              /\ calls' = [calls EXCEPT ![t].work = <<unlink, del>> \o rest]
           \/ /\ projects[p].link = None /\ Active(p)
              /\ \E first \in SetToSeqs(Children(p)) :
                    calls' = [calls EXCEPT ![t].work =
                                 [i \in DOMAIN first |-> Visit(first[i])] \o <<del>> \o rest]
           \/ projects[p].link = None /\ ~Active(p) /\ Finish(t)
        /\ UNCHANGED <<projects, Rest>>

\* mutant: the material stays listed.
UnlinkMaterialKeeps(t) ==
    LET item == Head(calls[t].work) IN
    /\ Deleting(t) /\ item.op = "unlink"
    /\ calls' = [calls EXCEPT ![t].work = Tail(@)]
    /\ UNCHANGED <<projects, Rest>>

\* A session on the subject takes the material off its list.
UnlinkMaterial(t) ==
    LET item == Head(calls[t].work) IN
    /\ Deleting(t) /\ item.op = "unlink"
    /\ IF Active(item.subject)
         THEN /\ projects' = [projects EXCEPT
                     ![item.subject].materials = Without(@, item.project)]
              /\ calls' = [calls EXCEPT ![t].work = Tail(@)]
         ELSE Finish(t) /\ UNCHANGED projects
    /\ UNCHANGED Rest

\* sys.delete_project or _delete_project_sql_direct
DeleteProject(t) ==
    LET item == Head(calls[t].work) IN
    /\ Deleting(t) /\ item.op = "delete"
    /\ IF Active(item.project)
         THEN /\ projects' = [projects EXCEPT ![item.project] = Tombstone(item.project)]
              /\ calls' = [calls EXCEPT ![t].work = Tail(@)]
         ELSE Finish(t) /\ UNCHANGED projects
    /\ UNCHANGED Rest

EndDelete(t) ==
    /\ calls[t].step \in {"delete", "undo"} /\ calls[t].work = <<>>
    /\ IF calls[t].step = "undo" THEN Finish(t) ELSE Goto(t, "forget")
    /\ UNCHANGED <<projects, Rest>>

\* remove_project_memberships, one project at a time, by the route.
RemoveMemberships(t) ==
    LET left == calls[t].related
        p == Min(left)
    IN  /\ calls[t].step = "forget"
        /\ owned' = owned \ {p}
        /\ IF left = {p} THEN Finish(t)
           ELSE calls' = [calls EXCEPT ![t].related = left \ {p}]
        /\ UNCHANGED <<projects, created, faults, overlaps>>

-----------------------------------------------------------------------------
(* Renaming: the project, then its title in the subject's list. *)

\* edit_project, edit_subject, edit_subject_material: the link is read first.
BeginEdit(t, p, title) ==
    /\ Active(p)
    /\ Begin(t, [Idle EXCEPT !.kind = "edit", !.step = "title", !.project = p,
                             !.subject = projects[p].link, !.title = title])

EditProject(t) ==
    LET c == calls[t] IN
    /\ c.step = "title"
    /\ IF Active(c.project)
         THEN /\ projects' = [projects EXCEPT ![c.project].title = c.title]
              /\ IF c.subject = None THEN Finish(t) ELSE Goto(t, "retitle")
         ELSE Finish(t) /\ UNCHANGED projects
    /\ UNCHANGED Rest

EditMaterial(t) ==
    LET c == calls[t] IN
    /\ c.step = "retitle"
    /\ IF Active(c.subject) /\ c.project \in Children(c.subject)
         THEN projects' = [projects EXCEPT ![c.subject].materials = With(@, c.project, c.title)]
         ELSE UNCHANGED projects
    /\ Finish(t)
    /\ UNCHANGED Rest

-----------------------------------------------------------------------------
Init ==
    /\ projects = [p \in Ids |-> Absent]
    /\ created = 0
    /\ owned = {}
    /\ calls = [t \in Threads |-> Idle]
    /\ faults = 0
    /\ overlaps = 0

Next ==
    \E t \in Threads :
      \/ \E kind \in {"subject", "project"}, title \in Titles : BeginCreate(t, kind, title)
      \/ \E p \in Ids, title \in Titles : BeginMaterial(t, p, title) \/ BeginEdit(t, p, title)
      \/ CreateProject(t) \/ Stock(t) \/ AddMaterial(t) \/ LinkMaterial(t) \/ AddOwner(t)
      \/ \E p \in Ids : BeginDeleteProject(t, p) \/ BeginDeleteSubject(t, p)
      \/ \E p, child \in Ids : BeginDeleteMaterial(t, p, child)
      \/ VisitProject(t) \/ UnlinkMaterial(t) \/ DeleteProject(t) \/ EndDelete(t)
      \/ RemoveMemberships(t)
      \/ EditProject(t) \/ EditMaterial(t)
      \/ Fail(t)

Spec == Init /\ [][Next]_vars

-----------------------------------------------------------------------------
(* Properties. *)

\* Children whose subject does not list them or is gone: nobody can reach
\* them from a subject, nor delete them.
Orphans == {c \in Ids : Active(c) /\ projects[c].link # None
                          /\ c \notin Children(projects[c].link)}

\* Listed materials whose child is gone or does not link back: the subject
\* cannot be deleted any more.
Dangling == {c \in UNION {Children(p) : p \in Ids} :
                \A p \in Ids : c \in Children(p) => ~(Active(c) /\ projects[c].link = p)}

\* Projects in use that their creator cannot see.
Unowned == {p \in Ids : Active(p)} \ owned

\* Whatever subjects, materials and projects are created, renamed and deleted, each
\* call that fails half way leaves at most one project or list entry behind, and so
\* does each call that meets another (api.py:3880-4190).  Without either, subjects
\* and materials belong together and to their user, and a material has the title of
\* its child, although the two are written in two sessions.
DamageIsBounded ==
    Quiet =>
      /\ Cardinality(Orphans \cup Dangling \cup Unowned) <= faults + overlaps
      /\ faults + overlaps = 0 =>
            \A p \in Ids : \A c \in Children(p) : projects[p].materials[c] = projects[c].title
===========================================================================
