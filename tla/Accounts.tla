----------------------------- MODULE Accounts -----------------------------
(***************************************************************************)
(* Accounts, login sessions, roles, friends and study time: auth_store.py  *)
(* with its two backends, auth_rate_limit_store.py, the routes of          *)
(* routers/auth.py, profile.py, friends.py and admin.py that drive them,   *)
(* and the tools that back the tables up and restore them.                 *)
(*                                                                         *)
(* A request is a thread that makes several calls of the stores.  A call   *)
(* that writes holds the store's one lock; the reads of a login and of a   *)
(* session take none.  On SQLite a call is one transaction.  The           *)
(* PostgreSQL pool opens its connections with autocommit, so there each    *)
(* statement of a call commits by itself: the others see what it has       *)
(* written so far, and a statement that fails leaves the earlier ones in   *)
(* place.  A call is its guard and the sequence of statements it writes    *)
(* (Perform); Write and Break are what PostgreSQL does with them.          *)
(***************************************************************************)
EXTENDS StudyStats, FiniteSets

CONSTANTS
    Emails,        \* 1..n: an account is known by its unique email
    Threads,       \* requests at work at the same time
    Backends,      \* the backends an installation may choose
    Mixes,         \* sets of request kinds; a behaviour makes those of one set (bound)
    Limit,         \* attempts per address or email and window
    Window,        \* length of a rate limit window, in ticks
    Retention,     \* age at which an unused counter is dropped, in ticks
    SessionTtl,    \* life of a session, in ticks
    MaxTime,       \* bound on the clock
    MaxTokens,     \* bound: sessions ever created
    MaxSecrets,    \* bound: password changes of an account
    MaxRequests,   \* bound: friend requests ever made
    MaxBreaks,     \* bound: statements that fail
    None

ASSUME EmailAssumption == IsFiniteSet(Emails) /\ Emails # {} /\ Emails = 1..Cardinality(Emails)
ASSUME BackendAssumption == Backends \subseteq {"sqlite", "postgres"}
ASSUME LimitAssumption ==
    /\ Limit \in Nat \ {0} /\ Window \in Nat \ {0} /\ Retention \in Nat \ {0}
    /\ SessionTtl \in Nat \ {0} /\ MaxTime \in Nat
    /\ MaxTokens \in Nat /\ MaxSecrets \in Nat /\ MaxRequests \in Nat /\ MaxBreaks \in Nat
    /\ Cardinality(Emails) <= MaxTokens
ASSUME ThreadAssumption == IsFiniteSet(Threads)

VARIABLES
    backend,    \* the backend of this installation
    mix,        \* the kinds of request this behaviour makes
    now,        \* the clock, in ticks
    db,         \* the committed tables of the auth store
    counters,   \* the rows of the rate limit table
    threads,    \* the requests
    lock,       \* the thread that holds the store's lock
    todo,       \* the statements it has still to execute (PostgreSQL)
    broken,     \* calls that ended after some of their statements
    issued,     \* session tokens drawn so far
    bundle,     \* the sections a backup has read
    restored,   \* a backup has been restored
    sent        \* history: what browsers have reported about study time

vars == <<backend, mix, now, db, counters, threads, lock, todo, broken, issued,
          bundle, restored, sent>>

-----------------------------------------------------------------------------
(* The tables. *)

Statuses == {"active", "suspended", "deleted"}

Roles == {"super_admin", "admin"}
RequestStatuses == {"pending", "accepted", "rejected", "cancelled"}
Tokens == 1..MaxTokens
Pairs == {p \in SUBSET Emails : Cardinality(p) = 2}

ASSUME NoneAssumption ==
    None \notin Emails \cup Threads /\ None \notin Statuses /\ None \notin Tokens

SessionType == [user : Emails, proved : 0..MaxSecrets, expires : Nat]
RequestType == [from : Emails, to : Emails, status : RequestStatuses]

(* secret counts the passwords an account has had; a session's `proved` is *)
(* the count at which its holder last proved to know the password.         *)
EmptyDb ==
    [users    |-> {},
     profile  |-> [e \in Emails |-> None],
     secret   |-> [e \in Emails |-> 0],
     roles    |-> [e \in Emails |-> {}],
     sessions |-> [k \in Tokens |-> None],
     requests |-> <<>>,
     friends  |-> {},
     study    |-> [e \in Emails |-> NoStudy]]

\* Every account registered, the first as super admin, each still logged in.
SeededDb ==
    [EmptyDb EXCEPT
        !.users    = Emails,
        !.profile  = [e \in Emails |-> "active"],
        !.roles    = [e \in Emails |-> IF e = 1 THEN {"super_admin"} ELSE {}],
        !.sessions = [k \in Tokens |-> IF k \in Emails
                                         THEN [user |-> k, proved |-> 0, expires |-> SessionTtl]
                                         ELSE None]]

-----------------------------------------------------------------------------
(* The statements of a call and what each does to the tables. *)

Stmt(op, who, arg) == [op |-> op, who |-> who, arg |-> arg]

SuperAdmins(d) == {e \in Emails : "super_admin" \in d.roles[e]}

\* delete_other_sessions_for_user: the kept token proves the current password.
Ended(d, who, kept) ==
    [k \in Tokens |->
        IF d.sessions[k] = None \/ d.sessions[k].user # who THEN d.sessions[k]
        ELSE IF k = kept THEN [d.sessions[k] EXCEPT !.proved = d.secret[who]]
        ELSE None]

Apply(d, s) ==
    CASE s.op = "user"     -> [d EXCEPT !.users = @ \cup {s.who}]
      [] s.op = "profile"  -> [d EXCEPT !.profile[s.who] = "active"]
      [] s.op = "grant"    -> [d EXCEPT !.roles[s.who] = @ \cup {s.arg}]
      [] s.op = "revoke"   -> [d EXCEPT !.roles[s.who] = @ \ {s.arg}]
      [] s.op = "status"   -> [d EXCEPT !.profile[s.who] = s.arg]
      [] s.op = "session"  -> [d EXCEPT !.sessions[s.arg.token] = s.arg.row]
      [] s.op = "logout"   -> [d EXCEPT !.sessions[s.arg] = None]
      [] s.op = "end"      -> [d EXCEPT !.sessions = Ended(d, s.who, s.arg)]
      [] s.op = "secret"   -> [d EXCEPT !.secret[s.who] = @ + 1]
      [] s.op = "changed"  -> d          \* password_changed_at, updated_at
      [] s.op = "request"  -> [d EXCEPT !.requests = Append(@, s.arg)]
      [] s.op = "handle"   -> [d EXCEPT !.requests[s.who].status = s.arg]
      [] s.op = "befriend" -> [d EXCEPT !.friends = @ \cup {s.arg}]
      [] s.op = "unfriend" -> [d EXCEPT !.friends = @ \ {s.arg}]
      [] s.op = "study"    -> [d EXCEPT !.study[s.who] = Merge(@, s.arg)]

ApplyAll(d, stmts) ==
    LET after[n \in 0..Len(stmts)] == IF n = 0 THEN d ELSE Apply(after[n - 1], stmts[n])
    IN  after[Len(stmts)]

-----------------------------------------------------------------------------
(* Requests. *)

Pcs == {"idle", "check", "create", "authenticate", "failed", "reset", "session",
        "record", "resolve", "authorise", "act", "others", "write"}

Kinds == {"register", "login", "logout", "password", "status", "role", "friend",
          "answer", "unfriend", "study"}

Idle == [pc |-> "idle", kind |-> None, user |-> None, token |-> None,
         proved |-> 0, next |-> None]

ThreadType ==
    [pc : Pcs, kind : Kinds \cup {None}, user : Emails \cup {None},
     token : Tokens \cup {None}, proved : 0..MaxSecrets, next : Pcs \cup {None}]

Finish(t) == threads' = [threads EXCEPT ![t] = Idle]
Goto(t, pc) == threads' = [threads EXCEPT ![t].pc = pc]

(* A call of the store that writes: on SQLite, and when it is a single     *)
(* statement, all at once; otherwise statement by statement.               *)
AtOnce(stmts) == backend = "sqlite" \/ Len(stmts) = 1

Perform(t, stmts, pc) ==
    /\ lock = None
    /\ IF AtOnce(stmts)
         THEN /\ db' = ApplyAll(db, stmts)
              /\ threads' = [threads EXCEPT ![t] = IF pc = "idle" THEN Idle
                                                   ELSE [@ EXCEPT !.pc = pc]]
              /\ UNCHANGED <<lock, todo>>
         ELSE /\ lock' = t
              /\ todo' = stmts
              /\ threads' = [threads EXCEPT ![t].pc = "write", ![t].next = pc]
              /\ UNCHANGED db

Store == <<db, lock, todo>>
Rest == <<backend, mix, now, broken, bundle, restored>>

\* PostgreSQL commits the next statement; the last one ends the call.
Write(t) ==
    /\ threads[t].pc = "write"
    /\ db' = Apply(db, Head(todo))
    /\ todo' = Tail(todo)
    /\ IF Len(todo) > 1
         THEN UNCHANGED <<lock, threads>>
         ELSE /\ lock' = None
              /\ threads' = [threads EXCEPT
                     ![t] = IF @.next = "idle" THEN Idle
                            ELSE [@ EXCEPT !.pc = threads[t].next, !.next = None]]
    /\ UNCHANGED <<Rest, counters, issued, sent>>

(* A statement fails (a timeout, a lost connection): the call raises with  *)
(* what it has written in place, and the request ends.  A registration     *)
(* still records its attempt.                                              *)
Break(t) ==
    /\ threads[t].pc = "write"
    /\ broken < MaxBreaks
    /\ broken' = broken + 1
    /\ lock' = None
    /\ todo' = <<>>
    /\ IF threads[t].kind = "register"
         THEN threads' = [threads EXCEPT ![t].pc = "record", ![t].next = None]
         ELSE Finish(t)
    /\ UNCHANGED <<backend, mix, now, db, bundle, restored, counters, issued, sent>>

-----------------------------------------------------------------------------
(* The rate limit table: a counter per scope and key, 0 for the address.   *)
(* Its store has a lock of its own, so a check or a record is one step.    *)

Buckets == ({"login_ip", "signup_ip"} \X {0})
             \cup ({"login_email", "signup_email"} \X Emails)

LoginBuckets(e) == <<<<"login_ip", 0>>, <<"login_email", e>>>>
SignupBuckets(e) == <<<<"signup_ip", 0>>, <<"signup_email", e>>>>
BucketsOf(t) == IF threads[t].kind = "register" THEN SignupBuckets(threads[t].user)
                ELSE LoginBuckets(threads[t].user)

Elapsed(row) == row.start + Window <= now

WithoutStale ==
    [b \in Buckets |-> IF counters[b] # None /\ counters[b].last < now - Retention
                         THEN None ELSE counters[b]]

\* mutant: lets one attempt more pass.
BlockedLate(rows, bs) ==
    \E i \in DOMAIN bs : LET row == rows[bs[i]]
                         IN  row # None /\ ~Elapsed(row) /\ row.count > Limit

\* _check_many drops the rows it finds elapsed and lets pass below the limit.
Blocked(rows, bs) ==
    \E i \in DOMAIN bs : LET row == rows[bs[i]]
                         IN  row # None /\ ~Elapsed(row) /\ row.count >= Limit

Checked(rows, bs) ==
    [b \in Buckets |-> IF b \in {bs[i] : i \in DOMAIN bs} /\ rows[b] # None /\ Elapsed(rows[b])
                         THEN None ELSE rows[b]]

\* _record_many starts a window or counts one more, in each of its buckets.
Counted(rows, bs) ==
    [b \in Buckets |->
        IF \A i \in DOMAIN bs : bs[i] # b THEN rows[b]
        ELSE IF rows[b] = None \/ Elapsed(rows[b])
               THEN [start |-> now, count |-> 1, last |-> now]
               ELSE [rows[b] EXCEPT !.count = @ + 1, !.last = now]]

\* On PostgreSQL the record may fail between its two counters.
Recorded(rows, bs) ==
    {Counted(rows, bs)}
      \cup (IF backend = "postgres" /\ broken < MaxBreaks
              THEN {Counted(rows, SubSeq(bs, 1, k)) : k \in 0..(Len(bs) - 1)}
              ELSE {})

CheckAllowed(t) ==
    /\ threads[t].pc = "check"
    /\ counters' = Checked(WithoutStale, BucketsOf(t))
    /\ IF Blocked(WithoutStale, BucketsOf(t)) THEN Finish(t)
       ELSE Goto(t, IF threads[t].kind = "register" THEN "create" ELSE "authenticate")
    /\ UNCHANGED <<Rest, Store, issued, sent>>

\* record_login_failure after a refused login, record_signup_attempt at the
\* end of every sign-up.
RecordAttempt(t) ==
    /\ threads[t].pc \in {"failed", "record"}
    /\ \E rows \in Recorded(WithoutStale, BucketsOf(t)) :
         /\ counters' = rows
         /\ broken' = IF rows = Counted(WithoutStale, BucketsOf(t))
                        THEN broken ELSE broken + 1
    /\ Finish(t)
    /\ UNCHANGED <<backend, mix, now, bundle, restored, Store, issued, sent>>

\* reset_login_failures forgets the email's failures, not the address's.
ResetFailures(t) ==
    /\ threads[t].pc = "reset"
    /\ counters' = [counters EXCEPT ![<<"login_email", threads[t].user>>] = None]
    /\ Goto(t, "session")
    /\ UNCHANGED <<Rest, Store, issued, sent>>

-----------------------------------------------------------------------------
(* Sign-up, login, logout. *)

\* Sessions the requests at work may still create (for the bound on tokens).
Promised == Cardinality({t \in Threads : threads[t].kind \in {"register", "login"}})

BeginCredentials(t, kind, e) ==
    /\ threads[t].pc = "idle" /\ kind \in mix
    /\ issued + Promised < MaxTokens
    /\ threads' = [threads EXCEPT ![t] = [Idle EXCEPT !.pc = "check", !.kind = kind, !.user = e]]
    /\ UNCHANGED <<Rest, Store, counters, issued, sent>>

\* create_user: the first account becomes super admin.
CreateUser(t) ==
    LET e == threads[t].user
        first == db.users = {}
    IN  /\ threads[t].pc = "create"
        /\ IF e \in db.users
             THEN /\ lock = None
                  /\ Goto(t, "record")
                  /\ UNCHANGED Store
             ELSE Perform(t, <<Stmt("user", e, None), Stmt("profile", e, None)>>
                               \o (IF first THEN <<Stmt("grant", e, "super_admin")>> ELSE <<>>),
                          "session")
        /\ UNCHANGED <<Rest, counters, issued, sent>>

\* authenticate_user joins users with user_profiles and takes no lock.
Authenticate(t) ==
    LET e == threads[t].user IN
    /\ threads[t].pc = "authenticate"
    /\ \/ Goto(t, "failed")                         \* a wrong password
       \/ /\ e \in db.users /\ db.profile[e] = "active"
          /\ threads' = [threads EXCEPT ![t].pc = "reset", ![t].proved = db.secret[e]]
    /\ UNCHANGED <<Rest, Store, counters, issued, sent>>

CreateSession(t) ==
    LET r == threads[t]
        row == [user |-> r.user, proved |-> r.proved, expires |-> now + SessionTtl]
    IN  /\ r.pc = "session"
        /\ issued' = issued + 1
        /\ Perform(t, <<Stmt("session", r.user, [token |-> issued + 1, row |-> row])>>,
                   IF r.kind = "register" THEN "record" ELSE "idle")
        /\ UNCHANGED <<Rest, counters, sent>>

\* /auth/logout deletes the token it is given, whoever holds it.
Logout(k) ==
    /\ "logout" \in mix /\ k <= issued
    /\ lock = None
    /\ db' = Apply(db, Stmt("logout", None, k))
    /\ UNCHANGED <<Rest, lock, todo, counters, threads, issued, sent>>

-----------------------------------------------------------------------------
(* Requests of a logged-in user: the middleware resolves the session, an   *)
(* administrator's role is read next, and then the store is called.        *)

BeginSession(t, kind, k) ==
    /\ threads[t].pc = "idle" /\ kind \in mix /\ k <= issued
    /\ kind \notin {"register", "login", "logout"}
    /\ threads' = [threads EXCEPT ![t] = [Idle EXCEPT !.pc = "resolve", !.kind = kind, !.token = k]]
    /\ UNCHANGED <<Rest, Store, counters, issued, sent>>

\* get_user_by_session: a session in force of an active account.
Resolves(k) ==
    /\ db.sessions[k] # None
    /\ db.sessions[k].expires > now
    /\ db.profile[db.sessions[k].user] = "active"

Resolve(t) ==
    LET r == threads[t] IN
    /\ r.pc = "resolve"
    /\ IF ~Resolves(r.token) THEN Finish(t)
       ELSE threads' = [threads EXCEPT
              ![t].user = db.sessions[r.token].user,
              ![t].pc = IF r.kind \in {"status", "role"} THEN "authorise" ELSE "act"]
    /\ UNCHANGED <<Rest, Store, counters, issued, sent>>

\* require_admin_user, require_super_admin_user.
Authorise(t) ==
    LET r == threads[t]
        needed == IF r.kind = "role" THEN {"super_admin"} ELSE Roles
    IN  /\ r.pc = "authorise"
        /\ IF db.roles[r.user] \cap needed = {} THEN Finish(t) ELSE Goto(t, "act")
        /\ UNCHANGED <<Rest, Store, counters, issued, sent>>

Refuse(t) ==
    /\ lock = None
    /\ Finish(t)
    /\ UNCHANGED Store

\* /profile/me/password: change_password, then delete_other_sessions_for_user.
ChangePassword(t) ==
    LET e == threads[t].user IN
    /\ threads[t].pc = "act" /\ threads[t].kind = "password"
    /\ \/ Refuse(t)                                 \* the current password is wrong
       \/ /\ db.secret[e] < MaxSecrets
          /\ Perform(t, <<Stmt("secret", e, None), Stmt("changed", e, None)>>, "others")
    /\ UNCHANGED <<Rest, counters, issued, sent>>

DeleteOtherSessions(t) ==
    /\ threads[t].pc = "others"
    /\ Perform(t, <<Stmt("end", threads[t].user, threads[t].token)>>, "idle")
    /\ UNCHANGED <<Rest, counters, issued, sent>>

\* mutant: the sessions of a suspended account stay.
SetUserStatusOnly(t, e, status) ==
    /\ threads[t].pc = "act" /\ threads[t].kind = "status"
    /\ IF db.profile[e] = None THEN Refuse(t)
       ELSE Perform(t, <<Stmt("status", e, status)>>, "idle")
    /\ UNCHANGED <<Rest, counters, issued, sent>>

\* set_user_status: an account that is not active loses its sessions.
SetUserStatus(t, e, status) ==
    /\ threads[t].pc = "act" /\ threads[t].kind = "status"
    /\ IF db.profile[e] = None THEN Refuse(t)
       ELSE Perform(t, <<Stmt("status", e, status)>>
                         \o (IF status # "active" THEN <<Stmt("end", e, None)>> ELSE <<>>),
                    "idle")
    /\ UNCHANGED <<Rest, counters, issued, sent>>

\* set_user_global_role keeps the last super admin.
SetUserGlobalRole(t, e, role, enabled) ==
    /\ threads[t].pc = "act" /\ threads[t].kind = "role"
    /\ IF \/ e \notin db.users
          \/ ~enabled /\ role = "super_admin" /\ SuperAdmins(db) = {e}
         THEN Refuse(t)
         ELSE Perform(t, <<Stmt(IF enabled THEN "grant" ELSE "revoke", e, role)>>, "idle")
    /\ UNCHANGED <<Rest, counters, issued, sent>>

-----------------------------------------------------------------------------
(* Friends. *)

PendingFrom(a, b) ==
    {i \in DOMAIN db.requests : /\ db.requests[i].from = a /\ db.requests[i].to = b
                                /\ db.requests[i].status = "pending"}

\* mutant: the friendship first.
BefriendFirst(i, pair) ==
    <<Stmt("befriend", None, pair), Stmt("handle", i, "accepted")>>

\* Two statements: the request is accepted, then the friendship inserted.
Befriend(i, pair) ==
    <<Stmt("handle", i, "accepted"), Stmt("befriend", None, pair)>>

(* create_friend_request: a pending request the other way is accepted      *)
(* instead of making a second one.                                         *)
CreateFriendRequest(t, to) ==
    LET from == threads[t].user
        back == PendingFrom(to, from)
    IN  /\ threads[t].pc = "act" /\ threads[t].kind = "friend"
        /\ IF \/ from = to
              \/ db.profile[from] # "active" \/ db.profile[to] # "active"
              \/ {from, to} \in db.friends
              \/ back = {} /\ PendingFrom(from, to) # {}
             THEN Refuse(t)
           ELSE IF back # {}
             THEN Perform(t, Befriend(Max(back), {from, to}), "idle")
             ELSE /\ Len(db.requests) < MaxRequests
                  /\ Perform(t, <<Stmt("request", None,
                                       [from |-> from, to |-> to, status |-> "pending"])>>, "idle")
        /\ UNCHANGED <<Rest, counters, issued, sent>>

\* accept_friend_request and reject_friend_request by the receiver,
\* cancel_friend_request by the requester, while the request is pending.
HandleFriendRequest(t, i, status) ==
    LET r == db.requests[i] IN
    /\ threads[t].pc = "act" /\ threads[t].kind = "answer"
    /\ IF \/ r.status # "pending"
          \/ threads[t].user # (IF status = "cancelled" THEN r.from ELSE r.to)
         THEN Refuse(t)
         ELSE Perform(t, IF status = "accepted" THEN Befriend(i, {r.from, r.to})
                         ELSE <<Stmt("handle", i, status)>>, "idle")
    /\ UNCHANGED <<Rest, counters, issued, sent>>

DeleteFriendship(t, e) ==
    LET pair == {threads[t].user, e} IN
    /\ threads[t].pc = "act" /\ threads[t].kind = "unfriend"
    /\ IF pair \notin db.friends THEN Refuse(t)
       ELSE Perform(t, <<Stmt("unfriend", None, pair)>>, "idle")
    /\ UNCHANGED <<Rest, counters, issued, sent>>

-----------------------------------------------------------------------------
(* Study time. *)

SyncStudyStats(t, ms, ranges) ==
    LET e == threads[t].user IN
    /\ threads[t].pc = "act" /\ threads[t].kind = "study"
    /\ Perform(t, <<Stmt("study", e, Report(ms, ranges))>>, "idle")
    /\ sent' = [sent EXCEPT ![e] = [ms |-> Max({@.ms, ms}), points |-> @.points \cup Points(ranges)]]
    /\ UNCHANGED <<Rest, counters, issued>>

-----------------------------------------------------------------------------
(* Backup and restore, tools that run beside the server.  A backup reads   *)
(* the tables one after the other, on either backend outside any           *)
(* transaction; study time is not among them.                              *)

\* mutant: the accounts are read last.
SectionsUsersLast == <<"sessions", "profile", "roles", "requests", "friends", "users">>

Sections == <<"users", "sessions", "profile", "roles", "requests", "friends">>
ImportOrder == <<"users", "profile", "roles", "sessions", "requests", "friends">>

\* The accounts the rows of a section belong to (its foreign keys).
Owners(b, s) ==
    CASE s = "users"    -> {}
      [] s = "profile"  -> {e \in Emails : b.profile[e] # None}
      [] s = "roles"    -> {e \in Emails : b.roles[e] # {}}
      [] s = "sessions" -> {b.sessions[k].user : k \in {k \in Tokens : b.sessions[k] # None}}
      [] s = "requests" -> UNION {{b.requests[i].from, b.requests[i].to} : i \in DOMAIN b.requests}
      [] s = "friends"  -> UNION b.friends

ExportSection ==
    LET n == Cardinality(DOMAIN bundle) IN
    /\ "backup" \in mix /\ ~restored /\ n < Len(Sections)
    /\ LET s == Sections[n + 1]
           part == IF s = "users" THEN [users |-> db.users, secret |-> db.secret] ELSE db[s]
       IN  bundle' = [x \in DOMAIN bundle \cup {s} |-> IF x = s THEN part ELSE bundle[x]]
    /\ UNCHANGED <<backend, mix, now, broken, restored, Store, counters, threads, issued, sent>>

Bundled == [users    |-> bundle["users"].users,   secret  |-> bundle["users"].secret,
            profile  |-> bundle["profile"],       roles   |-> bundle["roles"],
            sessions |-> bundle["sessions"],      requests |-> bundle["requests"],
            friends  |-> bundle["friends"],       study   |-> EmptyDb.study]

\* The rows a section adds: without profiles or roles in the backup the
\* import backfills the profiles and makes the oldest account super admin.
Section(b, s) ==
    CASE s = "profile" /\ Owners(b, s) = {} ->
           [e \in Emails |-> IF e \in b.users THEN "active" ELSE None]
      [] s = "roles" /\ Owners(b, s) = {} ->
           [e \in Emails |-> IF e \in b.users /\ e = Min(b.users) THEN {"super_admin"} ELSE {}]
      [] OTHER -> b[s]

\* The tables once the first k sections are in; deleting the users has
\* deleted their study time.
Imported(b, k) ==
    LET done == {ImportOrder[i] : i \in 1..k} IN
    [x \in DOMAIN EmptyDb |->
        IF x \in done THEN Section(b, x)
        ELSE IF x = "secret" /\ k > 0 THEN b.secret ELSE EmptyDb[x]]

\* The sections before the first that names an account the backup lacks.
Importable(b) ==
    Max({k \in 0..Len(ImportOrder) :
            \A i \in 1..k : Owners(b, ImportOrder[i]) \subseteq b.users})

(* import_snapshot, the server stopped: SQLite takes all of it or, when a  *)
(* foreign key fails, none; PostgreSQL keeps what it had executed by then. *)
Restore ==
    LET b == Bundled
        n == Importable(b)
    IN  /\ "backup" \in mix /\ ~restored
        /\ DOMAIN bundle = {Sections[i] : i \in DOMAIN Sections}
        /\ \A t \in Threads : threads[t].pc = "idle"
        /\ restored' = TRUE
        /\ IF backend = "sqlite"
             THEN /\ db' = IF n = Len(ImportOrder) THEN Imported(b, n) ELSE db
                  /\ UNCHANGED broken
             ELSE \E k \in 0..n :
                    /\ k < n => broken < MaxBreaks
                    /\ db' = Imported(b, k)
                    /\ broken' = IF k < Len(ImportOrder) THEN broken + 1 ELSE broken
        /\ UNCHANGED <<backend, mix, now, bundle, lock, todo, counters, threads, issued, sent>>

Tick ==
    /\ "tick" \in mix /\ now < MaxTime
    /\ now' = now + 1
    /\ UNCHANGED <<backend, mix, broken, bundle, restored, Store, counters, threads, issued, sent>>

-----------------------------------------------------------------------------
Init ==
    /\ backend \in Backends
    /\ mix \in Mixes
    /\ now = 0
    /\ db = IF "register" \in mix THEN EmptyDb ELSE SeededDb
    /\ counters = [b \in Buckets |-> None]
    /\ threads = [t \in Threads |-> Idle]
    /\ lock = None
    /\ todo = <<>>
    /\ broken = 0
    /\ issued = IF "register" \in mix THEN 0 ELSE Cardinality(Emails)
    /\ bundle = <<>>
    /\ restored = FALSE
    /\ sent = [e \in Emails |-> [ms |-> 0, points |-> {}]]

Reports == {<<>>} \cup {<<a>> : a \in Spans} \cup {<<a, b>> : a, b \in Spans}

Next ==
    \/ \E t \in Threads :
         \/ \E e \in Emails, kind \in {"register", "login"} : BeginCredentials(t, kind, e)
         \/ \E k \in Tokens, kind \in Kinds : BeginSession(t, kind, k)
         \/ CheckAllowed(t) \/ CreateUser(t) \/ Authenticate(t) \/ ResetFailures(t)
         \/ CreateSession(t) \/ RecordAttempt(t)
         \/ Resolve(t) \/ Authorise(t)
         \/ ChangePassword(t) \/ DeleteOtherSessions(t)
         \/ \E e \in Emails :
              \/ \E s \in Statuses : SetUserStatus(t, e, s)
              \/ \E r \in Roles, on \in BOOLEAN : SetUserGlobalRole(t, e, r, on)
              \/ CreateFriendRequest(t, e)
              \/ DeleteFriendship(t, e)
         \/ \E i \in DOMAIN db.requests, s \in RequestStatuses \ {"pending"} :
              HandleFriendRequest(t, i, s)
         \/ \E ms \in {0, MaxMs - 1}, rs \in Reports : SyncStudyStats(t, ms, rs)
         \/ Write(t) \/ Break(t)
    \/ \E k \in Tokens : Logout(k)
    \/ ExportSection \/ Restore \/ Tick

Spec == Init /\ [][Next]_vars

-----------------------------------------------------------------------------
(* Properties. *)

\* Between calls, on SQLite always and on PostgreSQL as long as no call broke
\* off, every account can be used: it has its profile, and one account is
\* super admin.  A restored SQLite backup keeps this although it was read
\* table by table from a running server: a backup that mixes two moments
\* names an account it lacks, and the import refuses it.
AccountsAreWhole ==
    lock = None /\ (backend = "sqlite" \/ (broken = 0 /\ ~restored))
      => /\ \A e \in db.users : db.profile[e] # None
         /\ db.users # {} => SuperAdmins(db) # {}

\* Two accounts are strangers, or one has asked the other once, or they are friends;
\* never two of these at once, and friends only by a request that was accepted, also
\* in the middle of an acceptance and after one that broke off between its two
\* statements (auth_store.py, accept_friend_request).
FriendshipIsAgreed ==
    ~restored =>
      \A p \in Pairs :
        LET asked(status) ==
                {i \in DOMAIN db.requests :
                    {db.requests[i].from, db.requests[i].to} = p /\ db.requests[i].status = status}
        IN  /\ Cardinality(asked("pending")) <= 1
            /\ p \in db.friends => asked("pending") = {} /\ asked("accepted") # {}

\* The check and the record of an attempt are two calls, so requests that
\* arrive together pass the check before any of them counts; a window never
\* counts more than the limit and those.
GuessesAreBounded ==
    \A b \in Buckets : counters[b] # None => counters[b].count < Limit + Cardinality(Threads)

\* With nothing at work and no call broken off, the sessions that outlive a
\* change of the password or a suspension are those of logins that had passed
\* the password check before it, one for each other thread at most.
LateSessionsAreRaces ==
    (\A t \in Threads : threads[t].pc = "idle") /\ broken = 0 /\ ~restored =>
      \A e \in Emails :
        LET own == {k \in Tokens : db.sessions[k] # None /\ db.sessions[k].user = e}
            old == {k \in own : db.sessions[k].proved < db.secret[e]}
        IN  /\ Cardinality(old) <= db.secret[e] * (Cardinality(Threads) - 1)
            /\ db.profile[e] \in {"suspended", "deleted"} => Cardinality(own) < Cardinality(Threads)

\* The stored study time is the union of what was reported, in its normal
\* form, and its duration the largest reported or covered, whatever the order
\* of the reports and however often each is repeated.
StudyIsOrderFree ==
    ~restored =>
      \A e \in Emails :
        LET s == db.study[e] IN
        /\ Points(s.ranges) = sent[e].points
        /\ \A i \in 1..(Len(s.ranges) - 1) : s.ranges[i].to < s.ranges[i + 1].from
        /\ s.ms = Max({sent[e].ms, Cardinality(sent[e].points)})

=============================================================================
