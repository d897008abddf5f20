--------------------------- MODULE AccountsProofs ---------------------------
(* Theorems about Accounts: accounts stay usable, friends have agreed,      *)
(* guesses are bounded, late sessions are few and study time is what was     *)
(* reported, for any number of accounts, requests, sessions, restarts of a   *)
(* window and ranges of time, on both backends.                              *)
EXTENDS Accounts, FiniteSetTheorems, SequenceTheorems, WellFoundedInduction, TLAPS

(***************************************************************************)
(* What the variables hold.                                                *)
(***************************************************************************)

SessionRow == [user : Emails, proved : Nat, expires : Nat]

\* The tables; study time plays no part here.
Tables(d) ==
    /\ DOMAIN d = DOMAIN EmptyDb
    /\ d.users \in SUBSET Emails
    /\ d.profile \in [Emails -> Statuses \cup {None}]
    /\ d.secret \in [Emails -> Nat]
    /\ d.roles \in [Emails -> SUBSET Roles]
    /\ d.sessions \in [Tokens -> SessionRow \cup {None}]
    /\ d.requests \in Seq(RequestType)

\* A statement a call may hold.
StmtOk(s) ==
    CASE s.op \in {"user", "profile", "secret"} -> s.who \in Emails
      [] s.op \in {"grant", "revoke"} -> s.who \in Emails /\ s.arg \in Roles
      [] s.op = "status"  -> s.who \in Emails /\ s.arg \in Statuses
      [] s.op = "session" -> s.arg.row \in SessionRow
      [] s.op = "end"     -> s.who \in Emails
      [] s.op = "request" -> s.arg \in RequestType
      [] s.op = "handle"  -> s.arg \in RequestStatuses
      [] s.op \in {"logout", "changed", "befriend", "unfriend", "study"} -> TRUE
      [] OTHER -> FALSE

NextPcs == {"idle", "session", "record", "others"}

ThreadOk(r) ==
    /\ DOMAIN r = DOMAIN Idle /\ r.pc \in Pcs /\ r.proved \in Nat
    /\ r.pc \notin {"idle", "resolve"} => r.user \in Emails
    /\ r.pc = "resolve" => r.token \in Tokens
    /\ r.pc = "write" => r.next \in NextPcs

\* A call that has begun and not ended holds the lock and one to three statements.
IsSeq(ss) == ss \in Seq({ss[i] : i \in DOMAIN ss})

TypeOK ==
    /\ now \in Nat /\ broken \in Nat
    /\ DOMAIN threads = Threads /\ \A t \in Threads : ThreadOk(threads[t])
    /\ Tables(db)
    /\ IsSeq(todo) /\ Len(todo) \in 0..3 /\ \A i \in DOMAIN todo : StmtOk(todo[i])

Locking ==
    /\ \A t \in Threads : threads[t].pc = "write" => lock = t
    /\ lock = None <=> Len(todo) = 0
    /\ backend = "sqlite" => lock = None

(***************************************************************************)
(* What the tables say, after any number of the statements of a call.      *)
(***************************************************************************)

\* The tables once the first k statements of a call are in.
After(d, ss, k) ==
    IF k = 0 THEN d
    ELSE IF k = 1 THEN Apply(d, ss[1])
    ELSE IF k = 2 THEN Apply(Apply(d, ss[1]), ss[2])
    ELSE Apply(Apply(Apply(d, ss[1]), ss[2]), ss[3])

Asked(d, p, status) ==
    {i \in DOMAIN d.requests : {d.requests[i].from, d.requests[i].to} = p
                               /\ d.requests[i].status = status}

Agreed(d) ==
    \A p \in Pairs :
        /\ \A i, j \in Asked(d, p, "pending") : i = j
        /\ p \in d.friends => Asked(d, p, "pending") = {} /\ Asked(d, p, "accepted") # {}

Whole(d) ==
    /\ \A e \in d.users : d.profile[e] # None
    /\ d.users # {} => SuperAdmins(d) # {}

\* Friendship is agreed after every statement; accounts are whole once the
\* call in progress has ended.
StoreOk ==
    /\ ~restored => \A k \in 0..Len(todo) : Agreed(After(db, todo, k))
    /\ backend = "sqlite" \/ (broken = 0 /\ ~restored) => Whole(After(db, todo, Len(todo)))

SectionOk(s, v) ==
    CASE s = "users"    -> v.users \in SUBSET Emails /\ v.secret \in [Emails -> Nat]
      [] s = "profile"  -> v \in [Emails -> Statuses \cup {None}]
      [] s = "roles"    -> v \in [Emails -> SUBSET Roles]
      [] s = "sessions" -> v \in [Tokens -> SessionRow \cup {None}]
      [] s = "requests" -> v \in Seq(RequestType)
      [] OTHER          -> TRUE

\* A backup reads the accounts first, and what it reads later covers them.
BundleOk ==
    /\ IsFiniteSet(DOMAIN bundle)
    /\ DOMAIN bundle # {} => "users" \in DOMAIN bundle
    /\ \A s \in DOMAIN bundle : SectionOk(s, bundle[s])
    /\ ~restored /\ backend = "sqlite" /\ DOMAIN bundle # {} =>
         LET old == bundle["users"].users IN
         /\ old \subseteq db.users
         /\ "profile" \in DOMAIN bundle => \A e \in old : bundle["profile"][e] # None
         /\ "roles" \in DOMAIN bundle /\ old # {} =>
              \E e \in Emails : "super_admin" \in bundle["roles"][e]

IInv == TypeOK /\ Locking /\ StoreOk /\ BundleOk

(***************************************************************************)
(* The rate limit: who may still count.                                    *)
(***************************************************************************)

Credentials == {"register", "login"}
PastCheck == {"create", "authenticate", "failed", "reset", "session", "record", "write"}
Row == [start : Nat, count : Nat, last : Nat]

\* A request counts in the bucket of its address and in that of its email.
Touches(r, b) ==
    \/ r.kind = "register" /\ b \in {<<"signup_ip", 0>>, <<"signup_email", r.user>>}
    \/ r.kind # "register" /\ b \in {<<"login_ip", 0>>, <<"login_email", r.user>>}

\* The requests that have passed the check and may still count in a bucket.
Late(ts, b) ==
    {t \in Threads : /\ ts[t].kind \in Credentials /\ ts[t].pc \in PastCheck
                     /\ Touches(ts[t], b)}

\* Only a sign-up or a login goes where attempts are counted.
KindOk(r) ==
    /\ r.pc \in {"check", "create", "authenticate", "failed", "reset", "session", "record"}
         => r.kind \in Credentials
    /\ r.pc = "write" /\ r.next \in {"session", "record"} => r.kind \in Credentials

CountInv ==
    /\ counters \in [Buckets -> Row \cup {None}]
    /\ \A t \in Threads : KindOk(threads[t])
    /\ \A b \in Buckets : counters[b] # None =>
         counters[b].count + Cardinality(Late(threads, b)) < Limit + Cardinality(Threads)

-----------------------------------------------------------------------------
(* Sequences of statements. *)

LEMMA InSeq ==
    ASSUME NEW S, NEW s \in Seq(S), NEW R, \A i \in 1..Len(s) : s[i] \in R
    PROVE  s \in Seq(R)
<1>1. s = [i \in 1..Len(s) |-> s[i]] /\ Len(s) \in Nat
  OBVIOUS
<1>2. [i \in 1..Len(s) |-> s[i]] \in [1..Len(s) -> R]
  OBVIOUS
<1> QED
  BY <1>1, <1>2, SeqDef

LEMMA Updated ==
    ASSUME NEW S, NEW R, NEW f \in [S -> R], NEW k, NEW v, k \in S => v \in R
    PROVE  [f EXCEPT ![k] = v] \in [S -> R]
OBVIOUS

LEMMA OneStatement ==
    ASSUME NEW a
    PROVE  IsSeq(<<a>>) /\ Len(<<a>>) = 1 /\ <<a>>[1] = a /\ DOMAIN <<a>> = {1}
BY DEF IsSeq

LEMMA TwoStatements ==
    ASSUME NEW a, NEW b
    PROVE  /\ IsSeq(<<a, b>>) /\ Len(<<a, b>>) = 2
           /\ <<a, b>>[1] = a /\ <<a, b>>[2] = b /\ DOMAIN <<a, b>> = {1, 2}
BY DEF IsSeq

LEMMA ThreeStatements ==
    ASSUME NEW a, NEW b, NEW c
    PROVE  /\ IsSeq(<<a, b, c>>) /\ Len(<<a, b, c>>) = 3
           /\ <<a, b, c>>[1] = a /\ <<a, b, c>>[2] = b /\ <<a, b, c>>[3] = c
           /\ DOMAIN <<a, b, c>> = {1, 2, 3}
BY DEF IsSeq

LEMMA Joins ==
    ASSUME NEW a, NEW b, NEW c
    PROVE  /\ <<a>> \o <<>> = <<a>> /\ <<a>> \o <<b>> = <<a, b>>
           /\ <<a, b>> \o <<>> = <<a, b>> /\ <<a, b>> \o <<c>> = <<a, b, c>>
<1> DEFINE S == {a, b, c}
<1>1. <<a>> \in Seq(S) /\ <<b>> \in Seq(S) /\ <<c>> \in Seq(S) /\ <<a, b>> \in Seq(S)
  OBVIOUS
<1>2. <<a>> \o <<b>> = <<a, b>>
  <2> DEFINE u == <<a>> \o <<b>>
  <2>1. u \in Seq(S) /\ Len(u) = 2 /\ u[1] = a /\ u[2] = b
    BY <1>1, ConcatProperties
  <2> HIDE DEF u
  <2>2. \A i \in 1..Len(u) : u[i] = <<a, b>>[i]
    BY <2>1
  <2>3. u = <<a, b>>
    BY <1>1, <2>1, <2>2, SeqEqual
  <2> QED
    BY <2>3 DEF u
<1>3. <<a, b>> \o <<c>> = <<a, b, c>>
  <2> DEFINE u == <<a, b>> \o <<c>>
  <2>1. u \in Seq(S) /\ Len(u) = 3 /\ u[1] = a /\ u[2] = b /\ u[3] = c
    BY <1>1, ConcatProperties
  <2>2. <<a, b, c>> \in Seq(S) /\ Len(<<a, b, c>>) = 3
    OBVIOUS
  <2> HIDE DEF u
  <2>3. \A i \in 1..Len(u) : u[i] = <<a, b, c>>[i]
    BY <2>1
  <2>4. u = <<a, b, c>>
    BY <2>1, <2>2, <2>3, SeqEqual
  <2> QED
    BY <2>4 DEF u
<1>4. <<a>> \o <<>> = <<a>> /\ <<a, b>> \o <<>> = <<a, b>>
  BY <1>1, ConcatEmptySeq
<1> QED
  BY <1>2, <1>3, <1>4

\* ApplyAll executes the statements in their order.
LEMMA AllIsAfter ==
    ASSUME NEW d, NEW ss, Len(ss) \in 0..3
    PROVE  ApplyAll(d, ss) = After(d, ss, Len(ss))
<1> DEFINE F(f) == [n \in 0..Len(ss) |-> IF n = 0 THEN d ELSE Apply(f[n - 1], ss[n])]
           w == [n \in 0..Len(ss) |-> After(d, ss, n)]
           u == CHOOSE f : f = F(f)
<1>1. ASSUME NEW n \in 0..Len(ss)
      PROVE  w[n] = IF n = 0 THEN d ELSE Apply(w[n - 1], ss[n])
  <2>1. CASE n = 0
    BY <2>1 DEF After
  <2>2. CASE n = 1
    <3>1. 0 \in 0..Len(ss) /\ w[0] = d
      BY DEF After
    <3> QED
      BY <2>2, <3>1 DEF After
  <2>3. CASE n = 2
    <3>1. 1 \in 0..Len(ss) /\ w[1] = Apply(d, ss[1])
      BY <2>3 DEF After
    <3> QED
      BY <2>3, <3>1 DEF After
  <2>4. CASE n = 3
    <3>1. 2 \in 0..Len(ss) /\ w[2] = Apply(Apply(d, ss[1]), ss[2])
      BY <2>4 DEF After
    <3> QED
      BY <2>4, <3>1 DEF After
  <2> QED
    BY <2>1, <2>2, <2>3, <2>4
<1>2. w = F(w)
  <2> HIDE DEF w
  <2>1. w = [n \in 0..Len(ss) |-> w[n]]
    BY DEF w
  <2> QED
    BY <1>1, <2>1
<1>3. u = F(u)
  BY <1>2
<1>4. ApplyAll(d, ss) = u[Len(ss)]
  BY DEF ApplyAll
<1> HIDE DEF u
<1>5. \A n \in 0..Len(ss) : u[n] = IF n = 0 THEN d ELSE Apply(u[n - 1], ss[n])
  BY <1>3
<1>6. u[0] = d
  BY <1>5
<1>7. CASE Len(ss) = 0
  BY <1>4, <1>6, <1>7 DEF After
<1>8. CASE Len(ss) = 1
  BY <1>4, <1>5, <1>6, <1>8 DEF After
<1>9. CASE Len(ss) = 2
  <2>1. u[1] = Apply(d, ss[1]) /\ u[2] = Apply(u[1], ss[2])
    BY <1>5, <1>6, <1>9
  <2> QED
    BY <1>4, <1>9, <2>1 DEF After
<1>10. CASE Len(ss) = 3
  <2>1. u[1] = Apply(d, ss[1]) /\ u[2] = Apply(u[1], ss[2]) /\ u[3] = Apply(u[2], ss[3])
    BY <1>5, <1>6, <1>10
  <2> QED
    BY <1>4, <1>10, <2>1 DEF After
<1> QED
  BY <1>7, <1>8, <1>9, <1>10

\* Executing the first statement leaves the call with the others.
LEMMA RestOfCall ==
    ASSUME NEW d, NEW ss, IsSeq(ss), Len(ss) \in 1..3
    PROVE  /\ IsSeq(Tail(ss)) /\ Len(Tail(ss)) = Len(ss) - 1 /\ Head(ss) = ss[1]
           /\ \A i \in DOMAIN Tail(ss) : i + 1 \in DOMAIN ss /\ Tail(ss)[i] = ss[i + 1]
           /\ \A k \in 0..Len(Tail(ss)) :
                After(Apply(d, Head(ss)), Tail(ss), k) = After(d, ss, k + 1)
<1> DEFINE S == {ss[i] : i \in DOMAIN ss}  tl == Tail(ss)
<1>1. ss \in Seq(S) /\ ss # <<>> /\ DOMAIN ss = 1..Len(ss)
  BY DEF IsSeq
<1>2. Len(tl) = Len(ss) - 1 /\ tl \in Seq(S) /\ Head(ss) = ss[1]
  BY <1>1
<1>3. \A i \in DOMAIN tl : i \in 1..Len(tl) /\ i + 1 \in DOMAIN ss /\ tl[i] = ss[i + 1]
  BY <1>1, <1>2
<1>4. IsSeq(tl)
  <2> DEFINE R == {tl[i] : i \in DOMAIN tl}
  <2>1. \A i \in 1..Len(tl) : tl[i] \in R
    <3> HIDE DEF tl
    <3>1. DOMAIN tl = 1..Len(tl)
      BY <1>2
    <3> QED
      BY <3>1
  <2>2. tl \in Seq(R)
    <3> HIDE DEF R, tl
    <3> QED
      BY <1>2, <2>1, InSeq
  <2> QED
    BY <2>2 DEF IsSeq
<1>5. ASSUME NEW k \in 0..Len(tl)
      PROVE  After(Apply(d, Head(ss)), tl, k) = After(d, ss, k + 1)
  <2>1. CASE k = 0
    BY <1>2, <2>1 DEF After
  <2>2. CASE k = 1
    <3>1. tl[1] = ss[2]
      BY <1>2, <1>3, <2>2
    <3> QED
      BY <1>2, <2>2, <3>1 DEF After
  <2>3. CASE k = 2
    <3>1. tl[1] = ss[2] /\ tl[2] = ss[3]
      BY <1>2, <1>3, <2>3
    <3> QED
      BY <1>2, <2>3, <3>1 DEF After
  <2> QED
    BY <1>2, <2>1, <2>2, <2>3
<1> QED
  BY <1>2, <1>3, <1>4, <1>5

-----------------------------------------------------------------------------
(* What a statement does to the tables. *)

LEMMA TableNames ==
    DOMAIN EmptyDb = {"users", "profile", "secret", "roles", "sessions", "requests", "friends", "study"}
BY DEF EmptyDb

LEMMA EndedTypes ==
    ASSUME NEW d, Tables(d), NEW e \in Emails, NEW k
    PROVE  Ended(d, e, k) \in [Tokens -> SessionRow \cup {None}]
<1> SUFFICES ASSUME NEW i \in Tokens
             PROVE  (IF d.sessions[i] = None \/ d.sessions[i].user # e THEN d.sessions[i]
                     ELSE IF i = k THEN [d.sessions[i] EXCEPT !.proved = d.secret[e]]
                     ELSE None) \in SessionRow \cup {None}
  BY DEF Ended
<1>1. d.sessions[i] \in SessionRow \cup {None} /\ d.secret[e] \in Nat
  BY DEF Tables
<1>2. d.sessions[i] # None => [d.sessions[i] EXCEPT !.proved = d.secret[e]] \in SessionRow
  BY <1>1 DEF SessionRow
<1> QED
  BY <1>1, <1>2

\* What the statements of a registration do, one by one.
LEMMA RegisterStatements ==
    ASSUME NEW d, Tables(d), NEW s, StmtOk(s)
    PROVE  /\ s.op = "user" => Apply(d, s) = [d EXCEPT !.users = @ \cup {s.who}]
           /\ s.op = "profile" => Apply(d, s) = [d EXCEPT !.profile[s.who] = "active"]
           /\ s.op = "grant" => Apply(d, s) = [d EXCEPT !.roles[s.who] = @ \cup {s.arg}]
<1> DEFINE r == Apply(d, s)
<1> USE TableNames
<1>1. CASE s.op = "user"
  <2>1. r = [d EXCEPT !.users = @ \cup {s.who}]
    BY <1>1 DEF Apply
  <2> QED
    BY <1>1, <2>1
<1>2. CASE s.op = "profile"
  <2>1. r = [d EXCEPT !.profile[s.who] = "active"]
    BY <1>2 DEF Apply
  <2> QED
    BY <1>2, <2>1
<1>3. CASE s.op = "grant"
  <2>1. r = [d EXCEPT !.roles[s.who] = @ \cup {s.arg}]
    BY <1>3 DEF Apply
  <2> QED
    BY <1>3, <2>1
<1> QED
  BY <1>1, <1>2, <1>3, Zenon

\* What the statements on passwords, statuses and sessions do, one by one.
LEMMA SessionStatements ==
    ASSUME NEW d, Tables(d), NEW s
    PROVE  /\ s.op = "secret" =>
                Apply(d, s).secret = [d.secret EXCEPT ![s.who] = d.secret[s.who] + 1]
           /\ s.op = "status" => Apply(d, s).profile = [d.profile EXCEPT ![s.who] = s.arg]
           /\ s.op = "session" =>
                Apply(d, s).sessions = [d.sessions EXCEPT ![s.arg.token] = s.arg.row]
           /\ s.op = "logout" => Apply(d, s).sessions = [d.sessions EXCEPT ![s.arg] = None]
           /\ s.op = "end" => Apply(d, s).sessions = Ended(d, s.who, s.arg)
           /\ s.op = "changed" => Apply(d, s) = d
<1> DEFINE r == Apply(d, s)
<1>0. {"secret", "profile", "sessions"} \subseteq DOMAIN d
  BY TableNames DEF Tables
<1>1. CASE s.op = "secret"
  <2>1. r = [d EXCEPT !.secret[s.who] = @ + 1]
    BY <1>1 DEF Apply
  <2>2. r.secret = [d.secret EXCEPT ![s.who] = d.secret[s.who] + 1]
    BY <1>0, <2>1
  <2> QED
    BY <1>1, <2>2
<1>2. CASE s.op = "status"
  <2>1. r = [d EXCEPT !.profile[s.who] = s.arg]
    BY <1>2 DEF Apply
  <2>2. r.profile = [d.profile EXCEPT ![s.who] = s.arg]
    BY <1>0, <2>1
  <2> QED
    BY <1>2, <2>2
<1>3. CASE s.op = "session"
  <2>1. r = [d EXCEPT !.sessions[s.arg.token] = s.arg.row]
    BY <1>3 DEF Apply
  <2>2. r.sessions = [d.sessions EXCEPT ![s.arg.token] = s.arg.row]
    BY <1>0, <2>1
  <2> QED
    BY <1>3, <2>2
<1>4. CASE s.op = "logout"
  <2>1. r = [d EXCEPT !.sessions[s.arg] = None]
    BY <1>4 DEF Apply
  <2>2. r.sessions = [d.sessions EXCEPT ![s.arg] = None]
    BY <1>0, <2>1
  <2> QED
    BY <1>4, <2>2
<1>5. CASE s.op = "end"
  <2>1. r = [d EXCEPT !.sessions = Ended(d, s.who, s.arg)]
    BY <1>5 DEF Apply
  <2>2. r.sessions = Ended(d, s.who, s.arg)
    BY <1>0, <2>1
  <2> QED
    BY <1>5, <2>2
<1>6. CASE s.op = "changed"
  <2>1. r = d
    BY <1>6 DEF Apply
  <2> QED
    BY <1>6, <2>1
<1> QED
  BY <1>1, <1>2, <1>3, <1>4, <1>5, <1>6, Zenon

\* A statement keeps the types, and each touches the tables it names only.
LEMMA ApplyTypes ==
    ASSUME NEW d, Tables(d), NEW s, StmtOk(s)
    PROVE  /\ Tables(Apply(d, s))
           /\ d.users \subseteq Apply(d, s).users
           /\ s.op # "user" => Apply(d, s).users = d.users
           /\ s.op \notin {"profile", "status"} => Apply(d, s).profile = d.profile
           /\ s.op \notin {"grant", "revoke"} => Apply(d, s).roles = d.roles
           /\ s.op # "secret" => Apply(d, s).secret = d.secret
           /\ s.op \notin {"session", "logout", "end"} => Apply(d, s).sessions = d.sessions
           /\ s.op \notin {"request", "handle"} => Apply(d, s).requests = d.requests
           /\ s.op \notin {"befriend", "unfriend"} => Apply(d, s).friends = d.friends
<1> DEFINE r == Apply(d, s)
<1> USE TableNames
<1>1. CASE s.op = "user"
  <2>1. r = [d EXCEPT !.users = @ \cup {s.who}]
    BY <1>1 DEF Apply
  <2>2. s.who \in Emails
    BY <1>1 DEF StmtOk
  <2> QED
    BY <1>1, <2>1, <2>2 DEF Tables
<1>2. CASE s.op = "profile"
  <2>1. r = [d EXCEPT !.profile[s.who] = "active"]
    BY <1>2 DEF Apply
  <2>2. s.who \in Emails
    BY <1>2 DEF StmtOk
  <2> QED
    BY <1>2, <2>1, <2>2 DEF Tables, Statuses
<1>3. CASE s.op = "grant"
  <2>1. r = [d EXCEPT !.roles[s.who] = @ \cup {s.arg}]
    BY <1>3 DEF Apply
  <2>2. s.who \in Emails /\ s.arg \in Roles
    BY <1>3 DEF StmtOk
  <2> QED
    BY <1>3, <2>1, <2>2 DEF Tables
<1>4. CASE s.op = "revoke"
  <2>1. r = [d EXCEPT !.roles[s.who] = @ \ {s.arg}]
    BY <1>4 DEF Apply
  <2>2. s.who \in Emails /\ s.arg \in Roles
    BY <1>4 DEF StmtOk
  <2> QED
    BY <1>4, <2>1, <2>2 DEF Tables
<1>5. CASE s.op = "status"
  <2>1. r = [d EXCEPT !.profile[s.who] = s.arg]
    BY <1>5 DEF Apply
  <2>2. s.who \in Emails /\ s.arg \in Statuses
    BY <1>5 DEF StmtOk
  <2> QED
    BY <1>5, <2>1, <2>2 DEF Tables
<1>6. CASE s.op = "session"
  <2>1. r = [d EXCEPT !.sessions[s.arg.token] = s.arg.row]
    BY <1>6 DEF Apply
  <2>2. s.arg.row \in SessionRow
    BY <1>6 DEF StmtOk
  <2>3. [d.sessions EXCEPT ![s.arg.token] = s.arg.row] \in [Tokens -> SessionRow \cup {None}]
    BY <2>2, Updated DEF Tables
  <2> QED
    BY <1>6, <2>1, <2>3 DEF Tables
<1>7. CASE s.op = "logout"
  <2>1. r = [d EXCEPT !.sessions[s.arg] = None]
    BY <1>7 DEF Apply
  <2>2. [d.sessions EXCEPT ![s.arg] = None] \in [Tokens -> SessionRow \cup {None}]
    BY Updated DEF Tables
  <2> QED
    BY <1>7, <2>1, <2>2 DEF Tables
<1>8. CASE s.op = "end"
  <2>1. r = [d EXCEPT !.sessions = Ended(d, s.who, s.arg)]
    BY <1>8 DEF Apply
  <2>2. s.who \in Emails
    BY <1>8 DEF StmtOk
  <2>3. Ended(d, s.who, s.arg) \in [Tokens -> SessionRow \cup {None}]
    BY <2>2, EndedTypes
  <2> QED
    BY <1>8, <2>1, <2>3 DEF Tables
<1>9. CASE s.op = "secret"
  <2>1. r = [d EXCEPT !.secret[s.who] = @ + 1]
    BY <1>9 DEF Apply
  <2>2. s.who \in Emails
    BY <1>9 DEF StmtOk
  <2> QED
    BY <1>9, <2>1, <2>2 DEF Tables
<1>10. CASE s.op = "changed"
  <2>1. r = d
    BY <1>10 DEF Apply
  <2> QED
    BY <2>1
<1>11. CASE s.op = "request"
  <2>1. r = [d EXCEPT !.requests = Append(@, s.arg)]
    BY <1>11 DEF Apply
  <2>2. s.arg \in RequestType
    BY <1>11 DEF StmtOk
  <2> QED
    BY <1>11, <2>1, <2>2 DEF Tables
<1>12. CASE s.op = "handle"
  <2>1. r = [d EXCEPT !.requests[s.who].status = s.arg]
    BY <1>12 DEF Apply
  <2>2. s.arg \in RequestStatuses
    BY <1>12 DEF StmtOk
  <2>3. [d.requests EXCEPT ![s.who].status = s.arg] \in Seq(RequestType)
    <3>1. d.requests \in [1..Len(d.requests) -> RequestType] /\ Len(d.requests) \in Nat
      BY DEF Tables
    <3> DEFINE v == [d.requests[s.who] EXCEPT !.status = s.arg]
    <3>2. s.who \in 1..Len(d.requests) => v \in RequestType
      BY <2>2, <3>1 DEF RequestType
    <3>3. [d.requests EXCEPT ![s.who].status = s.arg] = [d.requests EXCEPT ![s.who] = v]
      OBVIOUS
    <3> HIDE DEF v
    <3>4. [d.requests EXCEPT ![s.who] = v] \in [1..Len(d.requests) -> RequestType]
      BY <3>1, <3>2, Updated
    <3>5. [d.requests EXCEPT ![s.who] = v] \in Seq(RequestType)
      BY <3>1, <3>4, SeqDef
    <3> QED
      BY <3>3, <3>5
  <2> QED
    BY <1>12, <2>1, <2>3 DEF Tables
<1>13. CASE s.op = "befriend"
  <2>1. r = [d EXCEPT !.friends = @ \cup {s.arg}]
    BY <1>13 DEF Apply
  <2> QED
    BY <1>13, <2>1 DEF Tables
<1>14. CASE s.op = "unfriend"
  <2>1. r = [d EXCEPT !.friends = @ \ {s.arg}]
    BY <1>14 DEF Apply
  <2> QED
    BY <1>14, <2>1 DEF Tables
<1>15. CASE s.op = "study"
  <2>1. r = [d EXCEPT !.study[s.who] = Merge(@, s.arg)]
    BY <1>15 DEF Apply
  <2> QED
    BY <1>15, <2>1 DEF Tables
<1> QED
  BY <1>1, <1>2, <1>3, <1>4, <1>5, <1>6, <1>7, <1>8, <1>9, <1>10, <1>11, <1>12, <1>13,
     <1>14, <1>15 DEF StmtOk

-----------------------------------------------------------------------------
(* What a statement does to friends and accounts. *)

LEMMA AgreedKept ==
    ASSUME NEW d, Tables(d), Agreed(d), NEW s, StmtOk(s),
           s.op \notin {"request", "handle", "befriend"}
    PROVE  Agreed(Apply(d, s))
<1> DEFINE r == Apply(d, s)
<1>1. r.requests = d.requests
  BY ApplyTypes
<1>2. r.friends \subseteq d.friends
  <2>1. CASE s.op # "unfriend"
    BY <2>1, ApplyTypes
  <2>2. CASE s.op = "unfriend"
    <3>1. r = [d EXCEPT !.friends = @ \ {s.arg}]
      BY <2>2 DEF Apply
    <3> QED
      BY <3>1, TableNames DEF Tables
  <2> QED
    BY <2>1, <2>2
<1>3. \A p, status : Asked(r, p, status) = Asked(d, p, status)
  BY <1>1 DEF Asked
<1> HIDE DEF r
<1> QED
  BY <1>2, <1>3 DEF Agreed, r

\* A new request, when neither has asked the other and they are not friends.
LEMMA AgreedRequest ==
    ASSUME NEW d, Tables(d), Agreed(d), NEW q \in RequestType, NEW s,
           s.op = "request", s.arg = q,
           {q.from, q.to} \notin d.friends, Asked(d, {q.from, q.to}, "pending") = {}
    PROVE  Agreed(Apply(d, s))
<1> DEFINE r == Apply(d, s)  n == Len(d.requests)
<1>1. r = [d EXCEPT !.requests = Append(@, q)]
  BY DEF Apply
<1>2. r.requests = Append(d.requests, q) /\ r.friends = d.friends
  BY <1>1, TableNames DEF Tables
<1>3. d.requests \in Seq(RequestType) /\ n \in Nat /\ DOMAIN d.requests = 1..n
  BY DEF Tables
<1>4. /\ DOMAIN r.requests = 1..(n + 1) /\ r.requests[n + 1] = q
      /\ \A i \in 1..n : r.requests[i] = d.requests[i]
  BY <1>2, <1>3
<1> HIDE DEF r, n
<1>5. \A p, status : Asked(d, p, status) \subseteq Asked(r, p, status)
  BY <1>3, <1>4 DEF Asked
<1>6. \A p : p # {q.from, q.to} => Asked(r, p, "pending") = Asked(d, p, "pending")
  BY <1>3, <1>4 DEF Asked
<1>7. Asked(r, {q.from, q.to}, "pending") \subseteq {n + 1}
  <2> SUFFICES ASSUME NEW i \in Asked(r, {q.from, q.to}, "pending"), i # n + 1
               PROVE  FALSE
    OBVIOUS
  <2>1. i \in 1..(n + 1) /\ {r.requests[i].from, r.requests[i].to} = {q.from, q.to}
        /\ r.requests[i].status = "pending"
    BY <1>4 DEF Asked
  <2>2. i \in 1..n /\ r.requests[i] = d.requests[i]
    BY <1>3, <1>4, <2>1
  <2>3. i \in Asked(d, {q.from, q.to}, "pending")
    BY <1>3, <2>1, <2>2 DEF Asked
  <2> QED
    BY <2>3
<1>8. ASSUME NEW p \in Pairs
      PROVE  /\ \A i, j \in Asked(r, p, "pending") : i = j
             /\ p \in r.friends => Asked(r, p, "pending") = {} /\ Asked(r, p, "accepted") # {}
  <2>1. CASE p = {q.from, q.to}
    BY <1>2, <1>7, <2>1
  <2>2. CASE p # {q.from, q.to}
    BY <1>2, <1>5, <1>6, <2>2 DEF Agreed
  <2> QED
    BY <2>1, <2>2
<1> QED
  BY <1>8 DEF Agreed, r

\* A pending request is handled: its pair has no pending request left.
LEMMA AgreedHandle ==
    ASSUME NEW d, Tables(d), Agreed(d), NEW i \in DOMAIN d.requests,
           d.requests[i].status = "pending", NEW s,
           s.op = "handle", s.who = i, s.arg \in RequestStatuses \ {"pending"}
    PROVE  /\ Agreed(Apply(d, s))
           /\ Apply(d, s).friends = d.friends
           /\ \A p : p = {d.requests[i].from, d.requests[i].to} =>
                /\ p \in Pairs => Asked(Apply(d, s), p, "pending") = {}
                /\ s.arg = "accepted" => Asked(Apply(d, s), p, "accepted") # {}
<1> DEFINE r == Apply(d, s)  q == [d.requests[i] EXCEPT !.status = s.arg]
           own == {d.requests[i].from, d.requests[i].to}
<1>1. r = [d EXCEPT !.requests[i].status = s.arg]
  BY DEF Apply
<1>2. r.requests = [d.requests EXCEPT ![i] = q] /\ r.friends = d.friends
  BY <1>1, TableNames DEF Tables
<1>3. d.requests \in Seq(RequestType) /\ d.requests[i] \in RequestType
  BY DEF Tables
<1>4. q.from = d.requests[i].from /\ q.to = d.requests[i].to /\ q.status = s.arg
  BY <1>3 DEF RequestType
<1>5. /\ DOMAIN r.requests = DOMAIN d.requests /\ r.requests[i] = q
      /\ \A j \in DOMAIN d.requests : j # i => r.requests[j] = d.requests[j]
  <2> HIDE DEF q, r
  <2> QED
    BY <1>2, <1>3
<1> HIDE DEF r, q
<1>6. \A p : Asked(r, p, "pending") = Asked(d, p, "pending") \ {i}
  BY <1>4, <1>5 DEF Asked
<1>7. \A p : Asked(d, p, "accepted") \subseteq Asked(r, p, "accepted")
  BY <1>4, <1>5 DEF Asked
<1>8. s.arg = "accepted" => i \in Asked(r, own, "accepted")
  BY <1>4, <1>5 DEF Asked
<1>9. i \in Asked(d, own, "pending")
  BY DEF Asked
<1>10. own \in Pairs => Asked(r, own, "pending") = {}
  BY <1>6, <1>9 DEF Agreed
<1>11. Agreed(r)
  BY <1>2, <1>6, <1>7 DEF Agreed
<1> QED
  BY <1>2, <1>8, <1>10, <1>11 DEF r

LEMMA AgreedBefriend ==
    ASSUME NEW d, Tables(d), Agreed(d), NEW p, NEW s, s.op = "befriend", s.arg = p,
           p \in Pairs => Asked(d, p, "pending") = {}, Asked(d, p, "accepted") # {}
    PROVE  Agreed(Apply(d, s))
<1> DEFINE r == Apply(d, s)
<1>1. r = [d EXCEPT !.friends = @ \cup {p}]
  BY DEF Apply
<1>2. r.requests = d.requests /\ r.friends = d.friends \cup {p}
  BY <1>1, TableNames DEF Tables
<1>3. \A x, status : Asked(r, x, status) = Asked(d, x, status)
  BY <1>2 DEF Asked
<1> HIDE DEF r
<1> QED
  BY <1>2, <1>3 DEF Agreed, r

LEMMA WholeKept ==
    ASSUME NEW d, Tables(d), Whole(d), NEW s, StmtOk(s), s.op \notin {"user", "revoke"}
    PROVE  Whole(Apply(d, s))
<1> DEFINE r == Apply(d, s)
<1>1. r.users = d.users /\ Tables(r)
  BY ApplyTypes
<1>2. \A e \in Emails : d.profile[e] # None => r.profile[e] # None
  <2>1. CASE s.op \notin {"profile", "status"}
    BY <2>1, ApplyTypes
  <2>2. CASE s.op = "profile"
    <3>1. r = [d EXCEPT !.profile[s.who] = "active"]
      BY <2>2 DEF Apply
    <3> QED
      BY <3>1, TableNames, NoneAssumption DEF Tables, Statuses
  <2>3. CASE s.op = "status"
    <3>1. r = [d EXCEPT !.profile[s.who] = s.arg] /\ s.arg \in Statuses
      BY <2>3 DEF Apply, StmtOk
    <3> QED
      BY <3>1, TableNames, NoneAssumption DEF Tables
  <2> QED
    BY <2>1, <2>2, <2>3
<1>3. SuperAdmins(d) \subseteq SuperAdmins(r)
  <2>1. CASE s.op # "grant"
    BY <2>1, ApplyTypes DEF SuperAdmins
  <2>2. CASE s.op = "grant"
    <3>1. r = [d EXCEPT !.roles[s.who] = @ \cup {s.arg}]
      BY <2>2 DEF Apply
    <3> QED
      BY <3>1, TableNames DEF Tables, SuperAdmins
  <2> QED
    BY <2>1, <2>2
<1> HIDE DEF r
<1> QED
  BY <1>1, <1>2, <1>3 DEF Whole, Tables, r

\* The last super admin keeps the role.
LEMMA WholeRevoke ==
    ASSUME NEW d, Tables(d), Whole(d), NEW s, StmtOk(s), s.op = "revoke",
           s.who \in d.users, s.arg = "super_admin" => SuperAdmins(d) # {s.who}
    PROVE  Whole(Apply(d, s))
<1> DEFINE r == Apply(d, s)
<1>1. r.users = d.users /\ r.profile = d.profile
  BY ApplyTypes
<1>2. r = [d EXCEPT !.roles[s.who] = @ \ {s.arg}]
  BY DEF Apply
<1>3. r.roles = [d.roles EXCEPT ![s.who] = @ \ {s.arg}] /\ d.roles \in [Emails -> SUBSET Roles]
  BY <1>2, TableNames DEF Tables
<1> HIDE DEF r
<1>4. PICK a \in Emails : "super_admin" \in d.roles[a]
  BY DEF Whole, SuperAdmins
<1>5. CASE s.arg # "super_admin"
  <2>1. "super_admin" \in r.roles[a]
    BY <1>3, <1>4, <1>5
  <2> QED
    BY <1>1, <2>1 DEF Whole, SuperAdmins, r
<1>6. CASE s.arg = "super_admin"
  <2>1. PICK b \in Emails : "super_admin" \in d.roles[b] /\ b # s.who
    BY <1>4, <1>6 DEF SuperAdmins
  <2>2. "super_admin" \in r.roles[b]
    BY <1>3, <2>1
  <2> QED
    BY <1>1, <2>2 DEF Whole, SuperAdmins, r
<1> QED
  BY <1>5, <1>6

-----------------------------------------------------------------------------
(* The calls of the store.  The statements of a call fit the tables if      *)
(* friendship is agreed after each of them and accounts are whole after all.*)

Fits(d, ss) ==
    /\ IsSeq(ss) /\ Len(ss) \in 1..3 /\ \A i \in DOMAIN ss : StmtOk(ss[i])
    /\ Agreed(d) => \A k \in 0..Len(ss) : Agreed(After(d, ss, k))
    /\ Whole(d) => Whole(After(d, ss, Len(ss)))

LEMMA FitsOne ==
    ASSUME NEW d, NEW a, StmtOk(a),
           Agreed(d) => Agreed(Apply(d, a)), Whole(d) => Whole(Apply(d, a))
    PROVE  Fits(d, <<a>>)
<1>1. /\ IsSeq(<<a>>) /\ Len(<<a>>) = 1 /\ <<a>>[1] = a /\ DOMAIN <<a>> = {1}
  BY OneStatement
<1>2. After(d, <<a>>, 0) = d /\ After(d, <<a>>, 1) = Apply(d, a)
  BY <1>1 DEF After
<1> QED
  BY <1>1, <1>2 DEF Fits

LEMMA FitsTwo ==
    ASSUME NEW d, NEW a, NEW b, StmtOk(a), StmtOk(b),
           Agreed(d) => Agreed(Apply(d, a)) /\ Agreed(Apply(Apply(d, a), b)),
           Whole(d) => Whole(Apply(Apply(d, a), b))
    PROVE  Fits(d, <<a, b>>)
<1> DEFINE ss == <<a, b>>
<1>1. IsSeq(ss) /\ Len(ss) = 2 /\ ss[1] = a /\ ss[2] = b /\ DOMAIN ss = {1, 2}
  BY TwoStatements
<1> HIDE DEF ss
<1>2. /\ After(d, ss, 0) = d /\ After(d, ss, 1) = Apply(d, a)
      /\ After(d, ss, 2) = Apply(Apply(d, a), b)
  BY <1>1 DEF After
<1>3. 0..2 = {0, 1, 2}
  OBVIOUS
<1>4. Fits(d, ss)
  BY <1>1, <1>2, <1>3 DEF Fits
<1> QED
  BY <1>4 DEF ss

LEMMA FitsThree ==
    ASSUME NEW d, NEW a, NEW b, NEW c, StmtOk(a), StmtOk(b), StmtOk(c),
           Agreed(d) => /\ Agreed(Apply(d, a)) /\ Agreed(Apply(Apply(d, a), b))
                        /\ Agreed(Apply(Apply(Apply(d, a), b), c)),
           Whole(d) => Whole(Apply(Apply(Apply(d, a), b), c))
    PROVE  Fits(d, <<a, b, c>>)
<1> DEFINE ss == <<a, b, c>>
<1>1. /\ IsSeq(ss) /\ Len(ss) = 3 /\ ss[1] = a /\ ss[2] = b /\ ss[3] = c
      /\ DOMAIN ss = {1, 2, 3}
  BY ThreeStatements
<1> HIDE DEF ss
<1>2. /\ After(d, ss, 0) = d /\ After(d, ss, 1) = Apply(d, a)
      /\ After(d, ss, 2) = Apply(Apply(d, a), b)
      /\ After(d, ss, 3) = Apply(Apply(Apply(d, a), b), c)
  BY <1>1 DEF After
<1>3. 0..3 = {0, 1, 2, 3}
  OBVIOUS
<1>4. Fits(d, ss)
  BY <1>1, <1>2, <1>3 DEF Fits
<1> QED
  BY <1>4 DEF ss

\* A statement that touches neither friends nor the list of accounts, nor takes a role.
Quiet(s) == StmtOk(s) /\ s.op \notin {"request", "handle", "befriend", "user", "revoke"}

LEMMA QuietFits ==
    ASSUME NEW d, Tables(d), NEW s, Quiet(s)
    PROVE  Fits(d, <<s>>)
<1> QED
  BY AgreedKept, WholeKept, FitsOne DEF Quiet

LEMMA QuietFitsTwo ==
    ASSUME NEW d, Tables(d), NEW a, Quiet(a), NEW b, Quiet(b)
    PROVE  Fits(d, <<a, b>>)
<1>1. StmtOk(a) /\ StmtOk(b) /\ Tables(Apply(d, a))
  BY ApplyTypes DEF Quiet
<1>2. Agreed(d) => Agreed(Apply(d, a)) /\ Agreed(Apply(Apply(d, a), b))
  BY <1>1, AgreedKept DEF Quiet
<1>3. Whole(d) => Whole(Apply(Apply(d, a), b))
  BY <1>1, WholeKept DEF Quiet
<1> QED
  BY <1>1, <1>2, <1>3, FitsTwo

\* create_user: the account, its profile, and the first becomes super admin.
LEMMA CreateFits ==
    ASSUME NEW d, Tables(d), NEW e \in Emails
    PROVE  Fits(d, <<Stmt("user", e, None), Stmt("profile", e, None)>>
                     \o (IF d.users = {} THEN <<Stmt("grant", e, "super_admin")>> ELSE <<>>))
<1> DEFINE a == Stmt("user", e, None)  b == Stmt("profile", e, None)
           c == Stmt("grant", e, "super_admin")
           d1 == Apply(d, a)  d2 == Apply(d1, b)  d3 == Apply(d2, c)
<1>1. a.op = "user" /\ b.op = "profile" /\ c.op = "grant" /\ a.who = e /\ b.who = e /\ c.who = e
      /\ c.arg = "super_admin"
  BY DEF Stmt
<1>2. StmtOk(a) /\ StmtOk(b) /\ StmtOk(c)
  BY <1>1 DEF StmtOk, Roles
<1> HIDE DEF a, b, c
<1>3. Tables(d1) /\ Tables(d2) /\ Tables(d3)
  BY <1>2, ApplyTypes
<1>4. Agreed(d) => Agreed(d1) /\ Agreed(d2) /\ Agreed(d3)
  BY <1>1, <1>2, <1>3, AgreedKept
<1>5. d1.users = d.users \cup {e} /\ d1.profile = d.profile /\ d1.roles = d.roles
  <2>1. d1 = [d EXCEPT !.users = @ \cup {e}]
    BY <1>1, <1>2, <1>3, RegisterStatements
  <2> QED
    BY <2>1, TableNames DEF Tables
<1>6. d2.users = d1.users /\ d2.profile = [d.profile EXCEPT ![e] = "active"] /\ d2.roles = d.roles
  <2>1. d2 = [d1 EXCEPT !.profile[e] = "active"]
    BY <1>1, <1>2, <1>3, RegisterStatements
  <2> HIDE DEF d1, d2
  <2>2. /\ d2.users = d1.users /\ d2.profile = [d1.profile EXCEPT ![e] = "active"]
        /\ d2.roles = d1.roles
    BY <1>3, <2>1, TableNames DEF Tables
  <2> QED
    BY <1>5, <2>2
<1>7. d3.users = d2.users /\ d3.profile = d2.profile
      /\ d3.roles = [d.roles EXCEPT ![e] = @ \cup {"super_admin"}]
  <2>1. d3 = [d2 EXCEPT !.roles[e] = @ \cup {"super_admin"}]
    BY <1>1, <1>2, <1>3, RegisterStatements
  <2> HIDE DEF d1, d2, d3
  <2>2. /\ d3.users = d2.users /\ d3.profile = d2.profile
        /\ d3.roles = [d2.roles EXCEPT ![e] = @ \cup {"super_admin"}]
    BY <1>3, <2>1, TableNames DEF Tables
  <2> QED
    BY <1>6, <2>2
<1>8. Whole(d) => \A x \in d2.users : d2.profile[x] # None
  <2> HIDE DEF d1, d2
  <2> QED
    BY <1>5, <1>6, NoneAssumption DEF Whole, Tables, Statuses
<1>9. CASE d.users = {}
  <2>1. Whole(d) => Whole(d3)
    <3>1. e \in SuperAdmins(d3)
      <4> HIDE DEF d3
      <4> QED
        BY <1>7 DEF SuperAdmins, Tables
    <3> HIDE DEF d3, d2, d1
    <3> QED
      BY <1>7, <1>8, <3>1 DEF Whole
  <2>2. Fits(d, <<a, b, c>>)
    BY <1>2, <1>4, <2>1, FitsThree
  <2>3. <<a, b>> \o <<c>> = <<a, b, c>>
    BY Joins
  <2> QED
    BY <1>9, <2>2, <2>3 DEF a, b, c
<1>10. CASE d.users # {}
  <2>1. Whole(d) => Whole(d2)
    <3> HIDE DEF d2, d1
    <3> QED
      BY <1>5, <1>6, <1>8, <1>10 DEF Whole, SuperAdmins
  <2>2. Fits(d, <<a, b>>)
    BY <1>2, <1>4, <2>1, FitsTwo
  <2>3. <<a, b>> \o <<>> = <<a, b>>
    BY Joins
  <2> QED
    BY <1>10, <2>2, <2>3 DEF a, b
<1> QED
  BY <1>9, <1>10

\* set_user_status
LEMMA StatusFits ==
    ASSUME NEW d, Tables(d), NEW e \in Emails, NEW status \in Statuses
    PROVE  Fits(d, <<Stmt("status", e, status)>>
                     \o (IF status # "active" THEN <<Stmt("end", e, None)>> ELSE <<>>))
<1> DEFINE a == Stmt("status", e, status)  b == Stmt("end", e, None)
<1>1. Quiet(a) /\ Quiet(b)
  BY DEF Quiet, StmtOk, Stmt
<1> HIDE DEF a, b
<1>2. Fits(d, <<a>>) /\ Fits(d, <<a, b>>)
  BY <1>1, QuietFits, QuietFitsTwo
<1>3. <<a>> \o <<b>> = <<a, b>> /\ <<a>> \o <<>> = <<a>>
  BY Joins
<1> QED
  BY <1>2, <1>3 DEF a, b

\* change_password
LEMMA PasswordFits ==
    ASSUME NEW d, Tables(d), NEW e \in Emails
    PROVE  Fits(d, <<Stmt("secret", e, None), Stmt("changed", e, None)>>)
<1> DEFINE a == Stmt("secret", e, None)  b == Stmt("changed", e, None)
<1>1. Quiet(a) /\ Quiet(b)
  BY DEF Quiet, StmtOk, Stmt
<1> HIDE DEF a, b
<1>2. Fits(d, <<a, b>>)
  BY <1>1, QuietFitsTwo
<1> QED
  BY <1>2 DEF a, b

\* The calls of one quiet statement.
LEMMA SingleFits ==
    ASSUME NEW d, Tables(d), NEW e \in Emails, NEW x
    PROVE  /\ Fits(d, <<Stmt("end", e, x)>>)
           /\ x.row \in SessionRow => Fits(d, <<Stmt("session", e, x)>>)
           /\ x \in Roles => Fits(d, <<Stmt("grant", e, x)>>)
           /\ Fits(d, <<Stmt("unfriend", None, x)>>)
           /\ Fits(d, <<Stmt("study", e, x)>>)
<1>1. Quiet(Stmt("end", e, x)) /\ Quiet(Stmt("unfriend", None, x)) /\ Quiet(Stmt("study", e, x))
  BY DEF Quiet, StmtOk, Stmt
<1>2. x.row \in SessionRow => Quiet(Stmt("session", e, x))
  BY DEF Quiet, StmtOk, Stmt
<1>3. x \in Roles => Quiet(Stmt("grant", e, x))
  BY DEF Quiet, StmtOk, Stmt
<1> QED
  BY <1>1, <1>2, <1>3, QuietFits

\* set_user_global_role, taking a role
LEMMA RevokeFits ==
    ASSUME NEW d, Tables(d), NEW e \in d.users, NEW role \in Roles,
           role = "super_admin" => SuperAdmins(d) # {e}
    PROVE  Fits(d, <<Stmt("revoke", e, role)>>)
<1> DEFINE a == Stmt("revoke", e, role)
<1>1. a.op = "revoke" /\ a.who = e /\ a.arg = role
  BY DEF Stmt
<1>2. e \in Emails
  BY DEF Tables
<1>3. StmtOk(a)
  BY <1>1, <1>2 DEF StmtOk
<1> HIDE DEF a
<1>4. Fits(d, <<a>>)
  BY <1>1, <1>3, AgreedKept, WholeRevoke, FitsOne
<1> QED
  BY <1>4 DEF a

\* create_friend_request, a new request
LEMMA RequestFits ==
    ASSUME NEW d, Tables(d), NEW q \in RequestType, {q.from, q.to} \notin d.friends,
           Asked(d, {q.from, q.to}, "pending") = {}
    PROVE  Fits(d, <<Stmt("request", None, q)>>)
<1> DEFINE a == Stmt("request", None, q)
<1>1. a.op = "request" /\ a.arg = q
  BY DEF Stmt
<1>2. StmtOk(a)
  BY <1>1 DEF StmtOk
<1> HIDE DEF a
<1>3. Fits(d, <<a>>)
  BY <1>1, <1>2, AgreedRequest, WholeKept, FitsOne
<1> QED
  BY <1>3 DEF a

\* reject_friend_request, cancel_friend_request
LEMMA HandleFits ==
    ASSUME NEW d, Tables(d), NEW i \in DOMAIN d.requests, d.requests[i].status = "pending",
           NEW status \in RequestStatuses \ {"pending"}
    PROVE  Fits(d, <<Stmt("handle", i, status)>>)
<1> DEFINE a == Stmt("handle", i, status)
<1>1. a.op = "handle" /\ a.who = i /\ a.arg = status
  BY DEF Stmt
<1>2. StmtOk(a)
  BY <1>1 DEF StmtOk
<1> HIDE DEF a
<1>3. Agreed(d) => Agreed(Apply(d, a))
  BY <1>1, AgreedHandle
<1>4. Fits(d, <<a>>)
  BY <1>1, <1>2, <1>3, WholeKept, FitsOne
<1> QED
  BY <1>4 DEF a

\* accept_friend_request; in a restored database the request may not be pending.
LEMMA BefriendFits ==
    ASSUME NEW d, Tables(d), NEW i, NEW p,
           Agreed(d) => /\ i \in DOMAIN d.requests /\ d.requests[i].status = "pending"
                        /\ p = {d.requests[i].from, d.requests[i].to}
    PROVE  Fits(d, Befriend(i, p))
<1> DEFINE a == Stmt("handle", i, "accepted")  b == Stmt("befriend", None, p)
           r == Apply(d, a)
<1>1. a.op = "handle" /\ a.who = i /\ a.arg = "accepted" /\ b.op = "befriend" /\ b.arg = p
  BY DEF Stmt
<1>2. StmtOk(a) /\ StmtOk(b)
  BY <1>1 DEF StmtOk, RequestStatuses
<1> HIDE DEF a, b
<1>3. Tables(r)
  BY <1>2, ApplyTypes
<1>4. ASSUME Agreed(d)
      PROVE  Agreed(r) /\ Agreed(Apply(r, b))
  <2>1. /\ i \in DOMAIN d.requests /\ d.requests[i].status = "pending"
        /\ p = {d.requests[i].from, d.requests[i].to}
        /\ a.arg \in RequestStatuses \ {"pending"}
    BY <1>1, <1>4 DEF RequestStatuses
  <2> DEFINE own == {d.requests[i].from, d.requests[i].to}
  <2>3. /\ Agreed(Apply(d, a))
        /\ \A q : q = {d.requests[i].from, d.requests[i].to} =>
              /\ q \in Pairs => Asked(Apply(d, a), q, "pending") = {}
              /\ a.arg = "accepted" => Asked(Apply(d, a), q, "accepted") # {}
    <3> HIDE DEF own, r
    <3> QED
      BY <1>1, <1>4, <2>1, AgreedHandle
  <2> HIDE DEF own
  <2>2. Agreed(r) /\ (p \in Pairs => Asked(r, p, "pending") = {})
        /\ Asked(r, p, "accepted") # {}
    BY <1>1, <2>1, <2>3 DEF own
  <2> HIDE DEF r
  <2> QED
    BY <1>1, <1>3, <2>2, AgreedBefriend
<1>5. Whole(d) => Whole(Apply(r, b))
  BY <1>1, <1>2, <1>3, WholeKept
<1>6. Fits(d, <<a, b>>)
  BY <1>2, <1>4, <1>5, FitsTwo
<1> QED
  BY <1>6 DEF Befriend, a, b

-----------------------------------------------------------------------------
(* The steps of a request. *)

LEMMA AfterTypes ==
    ASSUME NEW d, Tables(d), NEW ss, Len(ss) \in 0..3, DOMAIN ss = 1..Len(ss),
           \A i \in DOMAIN ss : StmtOk(ss[i]), NEW k \in 0..Len(ss)
    PROVE  Tables(After(d, ss, k)) /\ d.users \subseteq After(d, ss, k).users
<1> DEFINE d1 == Apply(d, ss[1])  d2 == Apply(d1, ss[2])  d3 == Apply(d2, ss[3])
<1>1. Len(ss) >= 1 => Tables(d1) /\ d.users \subseteq d1.users
  BY ApplyTypes
<1>2. Len(ss) >= 2 => Tables(d2) /\ d.users \subseteq d2.users
  <2> HIDE DEF d1
  <2>1. Len(ss) >= 2 => StmtOk(ss[2])
    OBVIOUS
  <2>2. Len(ss) >= 2 => Tables(d2) /\ d1.users \subseteq d2.users
    BY <1>1, <2>1, ApplyTypes
  <2> QED
    BY <1>1, <2>2
<1>3. Len(ss) >= 3 => Tables(d3) /\ d.users \subseteq d3.users
  <2> HIDE DEF d2
  <2>1. Len(ss) >= 3 => StmtOk(ss[3])
    OBVIOUS
  <2>2. Len(ss) >= 3 => Tables(d3) /\ d2.users \subseteq d3.users
    BY <1>2, <2>1, ApplyTypes
  <2> QED
    BY <1>2, <2>2
<1>4. CASE k = 0
  BY <1>4 DEF After
<1>5. CASE k = 1
  BY <1>1, <1>5 DEF After
<1>6. CASE k = 2
  BY <1>2, <1>6 DEF After
<1>7. CASE k = 3
  BY <1>3, <1>7 DEF After
<1> QED
  BY <1>4, <1>5, <1>6, <1>7

\* With the lock free no call is under way and the tables are as between calls.
LEMMA LockFree ==
    ASSUME IInv, lock = None
    PROVE  /\ Len(todo) = 0
           /\ \A t \in Threads : threads[t].pc # "write"
           /\ ~restored => Agreed(db)
           /\ backend = "sqlite" \/ (broken = 0 /\ ~restored) => Whole(db)
<1>1. Len(todo) = 0
  BY DEF IInv, Locking
<1>2. \A t \in Threads : threads[t].pc # "write"
  BY NoneAssumption DEF IInv, Locking
<1>3. \A ss : After(db, ss, 0) = db
  BY DEF After
<1> QED
  BY <1>1, <1>2, <1>3 DEF IInv, StoreOk

LEMMA IdleOk == ThreadOk(Idle) /\ Idle.pc = "idle"
BY DEF ThreadOk, Idle, Pcs

\* Whoever has passed `resolve` has a user and may go on.
LEMMA PcOk ==
    ASSUME NEW r, ThreadOk(r), r.pc \notin {"idle", "resolve"},
           NEW pc \in Pcs \ {"resolve", "write"}
    PROVE  ThreadOk([r EXCEPT !.pc = pc]) /\ [r EXCEPT !.pc = pc].pc = pc
BY DEF ThreadOk, Idle

\* A step that moves one request only.
LEMMA MoveKeeps ==
    ASSUME IInv, NEW t \in Threads, NEW r, ThreadOk(r), r.pc # "write",
           threads' = [threads EXCEPT ![t] = r],
           UNCHANGED <<now, db, lock, todo, backend, bundle, restored>>,
           broken' \in Nat, broken' = 0 => broken = 0
    PROVE  IInv'
<1>1. DOMAIN threads = Threads
  BY DEF IInv, TypeOK
<1>2. DOMAIN threads' = Threads /\ threads'[t] = r
      /\ \A u \in Threads \ {t} : threads'[u] = threads[u]
  BY <1>1
<1>3. TypeOK'
  BY <1>2 DEF IInv, TypeOK
<1>4. Locking'
  BY <1>2 DEF IInv, Locking
<1>5. StoreOk'
  BY DEF IInv, StoreOk
<1>6. BundleOk'
  BY DEF IInv, BundleOk
<1> QED
  BY <1>3, <1>4, <1>5, <1>6 DEF IInv

\* A step that moves nobody and changes the tables by a whole call.
LEMMA TablesKeep ==
    ASSUME IInv, lock = None, NEW ss, Fits(db, ss), db' = ApplyAll(db, ss),
           UNCHANGED <<backend, bundle, restored, lock, todo>>, broken' = broken
    PROVE  Tables(db') /\ StoreOk' /\ BundleOk'
<1>1. IsSeq(ss) /\ Len(ss) \in 1..3 /\ \A i \in DOMAIN ss : StmtOk(ss[i])
  BY DEF Fits
<1>2. DOMAIN ss = 1..Len(ss) /\ Len(ss) \in 0..Len(ss) /\ Len(ss) \in 0..3
  BY <1>1 DEF IsSeq
<1>3. db' = After(db, ss, Len(ss))
  BY <1>2, AllIsAfter
<1>4. Tables(db') /\ db.users \subseteq db'.users
  BY <1>1, <1>2, <1>3, AfterTypes DEF IInv, TypeOK
<1>5. (~restored => Agreed(db'))
      /\ (backend = "sqlite" \/ (broken = 0 /\ ~restored) => Whole(db'))
  BY <1>2, <1>3, LockFree DEF Fits
<1>6. StoreOk'
  <2>1. Len(todo) = 0 /\ 0..Len(todo) = {0}
    BY LockFree
  <2>2. \A s : After(db', s, 0) = db'
    BY DEF After
  <2> QED
    BY <1>5, <2>1, <2>2 DEF StoreOk
<1>7. BundleOk'
  BY <1>4 DEF IInv, BundleOk
<1> QED
  BY <1>4, <1>6, <1>7

\* A call of the store, at once or begun.
LEMMA PerformKeeps ==
    ASSUME IInv, NEW t \in Threads, threads[t].pc \notin {"idle", "resolve"},
           NEW ss, Fits(db, ss), NEW pc \in NextPcs, Perform(t, ss, pc),
           UNCHANGED <<now, backend, bundle, restored, broken>>
    PROVE  IInv'
<1>1. lock = None
  BY DEF Perform
<1>2. DOMAIN threads = Threads /\ ThreadOk(threads[t])
  BY DEF IInv, TypeOK
<1>3. CASE AtOnce(ss)
  <2>1. /\ db' = ApplyAll(db, ss) /\ UNCHANGED <<lock, todo>>
        /\ threads' = [threads EXCEPT ![t] = IF pc = "idle" THEN Idle ELSE [@ EXCEPT !.pc = pc]]
    BY <1>3 DEF Perform
  <2>2. Tables(db') /\ StoreOk' /\ BundleOk'
    BY <1>1, <2>1, TablesKeep
  <2>3. ThreadOk(threads'[t]) /\ threads'[t].pc # "write" /\ DOMAIN threads' = Threads
        /\ \A u \in Threads \ {t} : threads'[u] = threads[u]
    <3>1. DOMAIN threads' = Threads /\ \A u \in Threads \ {t} : threads'[u] = threads[u]
      BY <1>2, <2>1
    <3>2. CASE pc = "idle"
      BY <1>2, <2>1, <3>1, <3>2, IdleOk
    <3>3. CASE pc # "idle"
      <4>1. threads'[t] = [threads[t] EXCEPT !.pc = pc]
        BY <1>2, <2>1, <3>3
      <4>2. pc \in Pcs \ {"resolve", "write"}
        BY <3>3 DEF NextPcs, Pcs
      <4> QED
        BY <1>2, <3>1, <4>1, <4>2, PcOk
    <3> QED
      BY <3>2, <3>3
  <2>4. TypeOK'
    BY <2>1, <2>2, <2>3 DEF IInv, TypeOK
  <2>5. Locking'
    BY <2>1, <2>3 DEF IInv, Locking
  <2> QED
    BY <2>2, <2>4, <2>5 DEF IInv
<1>4. CASE ~AtOnce(ss)
  <2>1. /\ db' = db /\ lock' = t /\ todo' = ss
        /\ threads' = [threads EXCEPT ![t].pc = "write", ![t].next = pc]
    BY <1>4 DEF Perform
  <2>2. /\ DOMAIN threads' = Threads /\ \A u \in Threads \ {t} : threads'[u] = threads[u]
        /\ DOMAIN threads'[t] = DOMAIN Idle /\ threads'[t].pc = "write" /\ threads'[t].next = pc
        /\ threads'[t].user = threads[t].user /\ threads'[t].proved = threads[t].proved
    BY <1>2, <2>1 DEF ThreadOk, Idle
  <2>3. ThreadOk(threads'[t])
    BY <1>2, <2>2 DEF ThreadOk, Pcs
  <2>4. Len(ss) \in 1..3 /\ IsSeq(ss) /\ \A i \in DOMAIN ss : StmtOk(ss[i])
    BY DEF Fits
  <2>5. TypeOK'
    BY <2>1, <2>2, <2>3, <2>4 DEF IInv, TypeOK
  <2>6. Locking'
    <3>1. t # None
      BY NoneAssumption
    <3>2. \A u \in Threads \ {t} : threads'[u].pc # "write"
      BY <1>1, <2>2, LockFree
    <3>3. backend # "sqlite"
      BY <1>4 DEF AtOnce
    <3>4. lock' # None /\ Len(todo') # 0 /\ backend' # "sqlite"
      BY <2>1, <2>4, <3>1, <3>3
    <3>5. \A u \in Threads : threads'[u].pc = "write" => lock' = u
      BY <2>1, <3>2
    <3> QED
      BY <3>4, <3>5 DEF Locking
  <2>7. StoreOk'
    BY <1>1, <2>1, LockFree DEF StoreOk, Fits
  <2>8. BundleOk'
    BY <2>1 DEF IInv, BundleOk
  <2> QED
    BY <2>5, <2>6, <2>7, <2>8 DEF IInv
<1> QED
  BY <1>3, <1>4

\* PostgreSQL commits a statement.
LEMMA WriteKeeps ==
    ASSUME IInv, NEW t \in Threads, Write(t)
    PROVE  IInv'
<1>1. threads[t].pc = "write" /\ lock = t /\ lock # None
  BY NoneAssumption DEF Write, IInv, Locking
<1>2. /\ IsSeq(todo) /\ Len(todo) \in 1..3 /\ \A i \in DOMAIN todo : StmtOk(todo[i])
      /\ backend # "sqlite"
  BY <1>1 DEF IInv, TypeOK, Locking
<1>3. db' = Apply(db, Head(todo)) /\ todo' = Tail(todo)
      /\ UNCHANGED <<now, backend, bundle, restored, broken>>
  BY DEF Write, Rest
<1>4. /\ IsSeq(todo') /\ Len(todo') = Len(todo) - 1 /\ Head(todo) = todo[1]
      /\ \A i \in DOMAIN todo' : i + 1 \in DOMAIN todo /\ todo'[i] = todo[i + 1]
      /\ \A k \in 0..Len(todo') : After(db', todo', k) = After(db, todo, k + 1)
  BY <1>2, <1>3, RestOfCall
<1>5. DOMAIN todo = 1..Len(todo)
  BY <1>2 DEF IsSeq
<1>6. Tables(db')
  BY <1>2, <1>3, <1>4, <1>5, ApplyTypes DEF IInv, TypeOK
<1>7. StoreOk'
  <2>1. ~restored => \A k \in 0..Len(todo') : Agreed(After(db', todo', k))
    BY <1>2, <1>4 DEF IInv, StoreOk
  <2>2. After(db', todo', Len(todo')) = After(db, todo, Len(todo))
    BY <1>2, <1>4
  <2> QED
    BY <1>3, <2>1, <2>2 DEF IInv, StoreOk
<1>8. BundleOk'
  BY <1>2, <1>3 DEF IInv, BundleOk
<1>9. DOMAIN threads = Threads /\ ThreadOk(threads[t])
  BY DEF IInv, TypeOK
<1>10. CASE Len(todo) > 1
  <2>1. UNCHANGED <<lock, threads>>
    BY <1>10 DEF Write
  <2>2. TypeOK'
    BY <1>2, <1>3, <1>4, <1>6, <2>1 DEF IInv, TypeOK
  <2>3. Locking'
    <3>1. lock' # None /\ Len(todo') # 0 /\ backend' # "sqlite"
      BY <1>1, <1>2, <1>3, <1>4, <1>10, <2>1
    <3>2. \A u \in Threads : threads'[u].pc = "write" => lock' = u
      BY <2>1 DEF IInv, Locking
    <3> QED
      BY <3>1, <3>2 DEF Locking
  <2> QED
    BY <1>7, <1>8, <2>2, <2>3 DEF IInv
<1>11. CASE ~(Len(todo) > 1)
  <2>1. lock' = None
        /\ threads' = [threads EXCEPT
                ![t] = IF @.next = "idle" THEN Idle
                       ELSE [@ EXCEPT !.pc = threads[t].next, !.next = None]]
    BY <1>11 DEF Write
  <2>2. DOMAIN threads' = Threads /\ \A u \in Threads \ {t} : threads'[u] = threads[u]
    BY <1>9, <2>1
  <2>3. threads[t].next \in NextPcs
    BY <1>1, <1>9 DEF ThreadOk
  <2>4. ThreadOk(threads'[t]) /\ threads'[t].pc # "write"
    <3>1. CASE threads[t].next = "idle"
      BY <1>9, <2>1, <3>1, IdleOk
    <3>2. CASE threads[t].next # "idle"
      <4>1. threads'[t] = [threads[t] EXCEPT !.pc = threads[t].next, !.next = None]
        BY <1>9, <2>1, <3>2
      <4>2. /\ DOMAIN threads'[t] = DOMAIN Idle /\ threads'[t].pc = threads[t].next
            /\ threads'[t].user = threads[t].user /\ threads'[t].proved = threads[t].proved
        BY <1>9, <4>1 DEF ThreadOk, Idle
      <4> QED
        BY <1>1, <1>9, <2>3, <3>2, <4>2 DEF ThreadOk, NextPcs, Pcs
    <3> QED
      BY <3>1, <3>2
  <2>5. TypeOK'
    BY <1>2, <1>3, <1>4, <1>6, <2>2, <2>4 DEF IInv, TypeOK
  <2>6. Locking'
    <3>1. \A u \in Threads : threads'[u].pc # "write"
      BY <1>1, <2>2, <2>4 DEF IInv, Locking
    <3> QED
      BY <1>2, <1>3, <1>4, <1>11, <2>1, <3>1 DEF Locking
  <2> QED
    BY <1>7, <1>8, <2>5, <2>6 DEF IInv
<1> QED
  BY <1>10, <1>11

\* A statement fails: what has been written stays, the accounts may be in pieces.
LEMMA BreakKeeps ==
    ASSUME IInv, NEW t \in Threads, Break(t)
    PROVE  IInv'
<1>1. threads[t].pc = "write" /\ lock = t /\ lock # None /\ backend # "sqlite"
  BY NoneAssumption DEF Break, IInv, Locking
<1>2. /\ broken' = broken + 1 /\ lock' = None /\ todo' = <<>>
      /\ UNCHANGED <<now, backend, bundle, restored, db>>
  BY DEF Break
<1>3. DOMAIN threads = Threads /\ ThreadOk(threads[t]) /\ broken \in Nat
  BY DEF IInv, TypeOK
<1>4. /\ DOMAIN threads' = Threads /\ \A u \in Threads \ {t} : threads'[u] = threads[u]
      /\ ThreadOk(threads'[t]) /\ threads'[t].pc # "write"
  <2>1. CASE threads[t].kind = "register"
    <3>1. threads' = [threads EXCEPT ![t].pc = "record", ![t].next = None]
      BY <2>1 DEF Break
    <3>2. /\ DOMAIN threads' = Threads /\ \A u \in Threads \ {t} : threads'[u] = threads[u]
          /\ DOMAIN threads'[t] = DOMAIN Idle /\ threads'[t].pc = "record"
          /\ threads'[t].user = threads[t].user /\ threads'[t].proved = threads[t].proved
      BY <1>3, <3>1 DEF ThreadOk, Idle
    <3> QED
      BY <1>1, <1>3, <3>2 DEF ThreadOk, Pcs
  <2>2. CASE threads[t].kind # "register"
    <3>1. threads' = [threads EXCEPT ![t] = Idle]
      BY <2>2 DEF Break, Finish
    <3> QED
      BY <1>3, <3>1, IdleOk
  <2> QED
    BY <2>1, <2>2
<1>5. IsSeq(todo') /\ Len(todo') = 0 /\ DOMAIN todo' = {}
  BY <1>2 DEF IsSeq
<1>6. TypeOK'
  BY <1>2, <1>3, <1>4, <1>5 DEF IInv, TypeOK
<1>7. Locking'
  BY <1>1, <1>2, <1>4, <1>5 DEF IInv, Locking
<1>8. StoreOk'
  <2>1. \A ss : After(db, ss, 0) = db
    BY DEF After
  <2>2. ~restored => Agreed(db)
    BY <2>1 DEF IInv, StoreOk, TypeOK
  <2> QED
    BY <1>1, <1>2, <1>3, <1>5, <2>1, <2>2 DEF StoreOk
<1>9. BundleOk'
  BY <1>2 DEF IInv, BundleOk
<1> QED
  BY <1>6, <1>7, <1>8, <1>9 DEF IInv

-----------------------------------------------------------------------------
(* The actions of a request. *)

LEMMA FinishKeeps ==
    ASSUME IInv, NEW t \in Threads, Finish(t),
           UNCHANGED <<now, db, lock, todo, backend, bundle, restored>>,
           broken' \in Nat, broken' = 0 => broken = 0
    PROVE  IInv'
<1>1. threads' = [threads EXCEPT ![t] = Idle]
  BY DEF Finish
<1>2. ThreadOk(Idle) /\ Idle.pc # "write"
  BY IdleOk
<1> QED
  BY <1>1, <1>2, MoveKeeps

LEMMA GotoKeeps ==
    ASSUME IInv, NEW t \in Threads, threads[t].pc \notin {"idle", "resolve"},
           NEW pc \in Pcs \ {"resolve", "write"}, Goto(t, pc),
           UNCHANGED <<now, db, lock, todo, backend, bundle, restored, broken>>
    PROVE  IInv'
<1> DEFINE r == [threads[t] EXCEPT !.pc = pc]
<1>1. ThreadOk(threads[t]) /\ broken \in Nat
  BY DEF IInv, TypeOK
<1>2. threads' = [threads EXCEPT ![t] = r]
  BY DEF Goto
<1>3. ThreadOk(r) /\ r.pc # "write"
  BY <1>1, PcOk
<1> HIDE DEF r
<1> QED
  BY <1>1, <1>2, <1>3, MoveKeeps

LEMMA BeginCredentialsKeeps ==
    ASSUME IInv, NEW t \in Threads, NEW kind, NEW e \in Emails, BeginCredentials(t, kind, e)
    PROVE  IInv'
<1> DEFINE r == [Idle EXCEPT !.pc = "check", !.kind = kind, !.user = e]
<1>1. threads' = [threads EXCEPT ![t] = r] /\ broken \in Nat
      /\ UNCHANGED <<now, db, lock, todo, backend, bundle, restored, broken>>
  BY DEF BeginCredentials, Rest, Store, IInv, TypeOK
<1>2. DOMAIN r = DOMAIN Idle /\ r.pc = "check" /\ r.user = e /\ r.proved = 0
  BY DEF Idle
<1> HIDE DEF r
<1>3. ThreadOk(r)
  BY <1>2 DEF ThreadOk, Pcs
<1> QED
  BY <1>1, <1>2, <1>3, MoveKeeps

LEMMA BeginSessionKeeps ==
    ASSUME IInv, NEW t \in Threads, NEW kind, NEW k \in Tokens, BeginSession(t, kind, k)
    PROVE  IInv'
<1> DEFINE r == [Idle EXCEPT !.pc = "resolve", !.kind = kind, !.token = k]
<1>1. threads' = [threads EXCEPT ![t] = r] /\ broken \in Nat
      /\ UNCHANGED <<now, db, lock, todo, backend, bundle, restored, broken>>
  BY DEF BeginSession, Rest, Store, IInv, TypeOK
<1>2. DOMAIN r = DOMAIN Idle /\ r.pc = "resolve" /\ r.token = k /\ r.proved = 0
  BY DEF Idle
<1> HIDE DEF r
<1>3. ThreadOk(r)
  BY <1>2 DEF ThreadOk, Pcs
<1> QED
  BY <1>1, <1>2, <1>3, MoveKeeps

LEMMA CheckAllowedKeeps ==
    ASSUME IInv, NEW t \in Threads, CheckAllowed(t)
    PROVE  IInv'
<1>1. UNCHANGED <<now, db, lock, todo, backend, bundle, restored, broken>> /\ broken \in Nat
      /\ threads[t].pc = "check"
  BY DEF CheckAllowed, Rest, Store, IInv, TypeOK
<1>2. CASE Finish(t)
  BY <1>1, <1>2, FinishKeeps
<1>3. CASE Goto(t, "create")
  BY <1>1, <1>3, GotoKeeps DEF Pcs
<1>4. CASE Goto(t, "authenticate")
  BY <1>1, <1>4, GotoKeeps DEF Pcs
<1> QED
  BY <1>2, <1>3, <1>4 DEF CheckAllowed

LEMMA RecordAttemptKeeps ==
    ASSUME IInv, NEW t \in Threads, RecordAttempt(t)
    PROVE  IInv'
<1>1. UNCHANGED <<now, db, lock, todo, backend, bundle, restored>> /\ Finish(t)
      /\ broken' \in {broken, broken + 1} /\ broken \in Nat
  BY DEF RecordAttempt, Store, IInv, TypeOK
<1>2. broken' \in Nat /\ (broken' = 0 => broken = 0)
  BY <1>1
<1> QED
  BY <1>1, <1>2, FinishKeeps

LEMMA ResetFailuresKeeps ==
    ASSUME IInv, NEW t \in Threads, ResetFailures(t)
    PROVE  IInv'
<1>1. UNCHANGED <<now, db, lock, todo, backend, bundle, restored, broken>>
      /\ threads[t].pc = "reset" /\ Goto(t, "session")
  BY DEF ResetFailures, Rest, Store
<1> QED
  BY <1>1, GotoKeeps DEF Pcs

LEMMA CreateUserKeeps ==
    ASSUME IInv, NEW t \in Threads, CreateUser(t)
    PROVE  IInv'
<1> DEFINE e == threads[t].user
           ss == <<Stmt("user", e, None), Stmt("profile", e, None)>>
                   \o (IF db.users = {} THEN <<Stmt("grant", e, "super_admin")>> ELSE <<>>)
<1>1. UNCHANGED <<now, backend, bundle, restored, broken>> /\ threads[t].pc = "create"
  BY DEF CreateUser, Rest
<1>2. e \in Emails /\ Tables(db)
  BY <1>1 DEF IInv, TypeOK, ThreadOk
<1>3. CASE e \in db.users
  <2>1. Goto(t, "record") /\ UNCHANGED <<db, lock, todo>>
    BY <1>3 DEF CreateUser, Store
  <2> QED
    BY <1>1, <2>1, GotoKeeps DEF Pcs
<1>4. CASE e \notin db.users
  <2>1. Perform(t, ss, "session")
    BY <1>4 DEF CreateUser
  <2>2. Fits(db, ss)
    BY <1>2, CreateFits
  <2> HIDE DEF ss
  <2> QED
    BY <1>1, <2>1, <2>2, PerformKeeps DEF NextPcs
<1> QED
  BY <1>3, <1>4

LEMMA AuthenticateKeeps ==
    ASSUME IInv, NEW t \in Threads, Authenticate(t)
    PROVE  IInv'
<1> DEFINE e == threads[t].user
<1>1. UNCHANGED <<now, db, lock, todo, backend, bundle, restored, broken>>
      /\ threads[t].pc = "authenticate"
  BY DEF Authenticate, Rest, Store
<1>2. CASE Goto(t, "failed")
  BY <1>1, <1>2, GotoKeeps DEF Pcs
<1>3. CASE threads' = [threads EXCEPT ![t].pc = "reset", ![t].proved = db.secret[e]]
  <2> DEFINE r == [threads[t] EXCEPT !.pc = "reset", !.proved = db.secret[e]]
  <2>1. threads' = [threads EXCEPT ![t] = r]
    BY <1>3
  <2>2. ThreadOk(threads[t]) /\ Tables(db) /\ broken \in Nat
    BY DEF IInv, TypeOK
  <2>3. e \in Emails /\ db.secret[e] \in Nat
    BY <1>1, <2>2 DEF ThreadOk, Tables
  <2>4. DOMAIN r = DOMAIN Idle /\ r.pc = "reset" /\ r.proved = db.secret[e] /\ r.user = e
    BY <2>2 DEF ThreadOk, Idle
  <2> HIDE DEF r
  <2>5. ThreadOk(r)
    BY <2>3, <2>4 DEF ThreadOk, Pcs
  <2> QED
    BY <1>1, <2>1, <2>2, <2>4, <2>5, MoveKeeps
<1> QED
  BY <1>2, <1>3 DEF Authenticate

LEMMA CreateSessionKeeps ==
    ASSUME IInv, NEW t \in Threads, CreateSession(t)
    PROVE  IInv'
<1> DEFINE r == threads[t]
           row == [user |-> r.user, proved |-> r.proved, expires |-> now + SessionTtl]
           x == [token |-> issued + 1, row |-> row]
           pc == IF r.kind = "register" THEN "record" ELSE "idle"
<1>1. UNCHANGED <<now, backend, bundle, restored, broken>> /\ threads[t].pc = "session"
      /\ Perform(t, <<Stmt("session", r.user, x)>>, pc)
  BY DEF CreateSession, Rest
<1>2. r.user \in Emails /\ r.proved \in Nat /\ now \in Nat /\ Tables(db)
  BY <1>1 DEF IInv, TypeOK, ThreadOk
<1>3. row \in SessionRow
  BY <1>2, LimitAssumption DEF SessionRow
<1>4. x.row = row /\ pc \in NextPcs
  BY DEF NextPcs
<1> HIDE DEF row, x, pc
<1>5. Fits(db, <<Stmt("session", r.user, x)>>)
  BY <1>2, <1>3, <1>4, SingleFits
<1> QED
  BY <1>1, <1>4, <1>5, PerformKeeps

LEMMA ResolveKeeps ==
    ASSUME IInv, NEW t \in Threads, Resolve(t)
    PROVE  IInv'
<1> DEFINE r == threads[t]  u == db.sessions[r.token].user
           pc == IF r.kind \in {"status", "role"} THEN "authorise" ELSE "act"
           s == [threads[t] EXCEPT !.user = u, !.pc = pc]
<1>1. UNCHANGED <<now, db, lock, todo, backend, bundle, restored, broken>> /\ r.pc = "resolve"
  BY DEF Resolve, Rest, Store
<1>2. ThreadOk(r) /\ Tables(db) /\ broken \in Nat
  BY DEF IInv, TypeOK
<1>3. CASE ~Resolves(r.token)
  <2>1. Finish(t)
    BY <1>3 DEF Resolve
  <2> QED
    BY <1>1, <1>2, <2>1, FinishKeeps
<1>4. CASE Resolves(r.token)
  <2>1. threads' = [threads EXCEPT ![t].user = u, ![t].pc = pc]
    BY <1>4 DEF Resolve
  <2>2. threads' = [threads EXCEPT ![t] = s]
    BY <2>1
  <2>3. r.token \in Tokens /\ db.sessions[r.token] # None
    BY <1>1, <1>2, <1>4 DEF ThreadOk, Resolves
  <2>4. u \in Emails
    BY <1>2, <2>3 DEF Tables, SessionRow
  <2>5. /\ DOMAIN s = DOMAIN Idle /\ s.user = u /\ s.pc = pc /\ s.proved = r.proved
    BY <1>2 DEF ThreadOk, Idle
  <2>6. pc \in {"authorise", "act"}
    OBVIOUS
  <2> HIDE DEF s, u, pc
  <2>7. ThreadOk(s) /\ s.pc # "write"
    BY <1>2, <2>4, <2>5, <2>6 DEF ThreadOk, Pcs
  <2> QED
    BY <1>1, <1>2, <2>2, <2>7, MoveKeeps
<1> QED
  BY <1>3, <1>4

LEMMA AuthoriseKeeps ==
    ASSUME IInv, NEW t \in Threads, Authorise(t)
    PROVE  IInv'
<1>1. UNCHANGED <<now, db, lock, todo, backend, bundle, restored, broken>>
      /\ threads[t].pc = "authorise" /\ broken \in Nat
  BY DEF Authorise, Rest, Store, IInv, TypeOK
<1>2. CASE Finish(t)
  BY <1>1, <1>2, FinishKeeps
<1>3. CASE Goto(t, "act")
  BY <1>1, <1>3, GotoKeeps DEF Pcs
<1> QED
  BY <1>2, <1>3 DEF Authorise

\* The steps of `act` either refuse or call the store.
LEMMA ActKeeps ==
    ASSUME IInv, NEW t \in Threads, threads[t].pc \in {"act", "others"},
           UNCHANGED <<now, backend, bundle, restored, broken>>,
           \/ Refuse(t)
           \/ \E ss, pc : pc \in NextPcs /\ Fits(db, ss) /\ Perform(t, ss, pc)
    PROVE  IInv'
<1>1. CASE Refuse(t)
  <2>1. Finish(t) /\ UNCHANGED <<db, lock, todo>> /\ broken \in Nat
    BY <1>1 DEF Refuse, Store, IInv, TypeOK
  <2> QED
    BY <2>1, FinishKeeps
<1>2. CASE \E ss, pc : pc \in NextPcs /\ Fits(db, ss) /\ Perform(t, ss, pc)
  BY <1>2, PerformKeeps
<1> QED
  BY <1>1, <1>2

LEMMA ActUser ==
    ASSUME IInv, NEW t \in Threads, threads[t].pc \in {"act", "others"}
    PROVE  threads[t].user \in Emails /\ Tables(db) /\ "idle" \in NextPcs /\ "others" \in NextPcs
BY DEF IInv, TypeOK, ThreadOk, NextPcs

LEMMA ChangePasswordKeeps ==
    ASSUME IInv, NEW t \in Threads, ChangePassword(t)
    PROVE  IInv'
<1> DEFINE e == threads[t].user
           ss == <<Stmt("secret", e, None), Stmt("changed", e, None)>>
<1>1. UNCHANGED <<now, backend, bundle, restored, broken>> /\ threads[t].pc = "act"
      /\ (Refuse(t) \/ Perform(t, ss, "others"))
  BY DEF ChangePassword, Rest
<1>2. Fits(db, ss) /\ "others" \in NextPcs
  BY <1>1, ActUser, PasswordFits
<1> HIDE DEF ss
<1> QED
  BY <1>1, <1>2, ActKeeps

LEMMA DeleteOtherSessionsKeeps ==
    ASSUME IInv, NEW t \in Threads, DeleteOtherSessions(t)
    PROVE  IInv'
<1> DEFINE ss == <<Stmt("end", threads[t].user, threads[t].token)>>
<1>1. UNCHANGED <<now, backend, bundle, restored, broken>> /\ threads[t].pc = "others"
      /\ Perform(t, ss, "idle")
  BY DEF DeleteOtherSessions, Rest
<1>2. Fits(db, ss) /\ "idle" \in NextPcs
  BY <1>1, ActUser, SingleFits
<1> HIDE DEF ss
<1> QED
  BY <1>1, <1>2, ActKeeps

LEMMA SetUserStatusKeeps ==
    ASSUME IInv, NEW t \in Threads, NEW e \in Emails, NEW status \in Statuses,
           SetUserStatus(t, e, status)
    PROVE  IInv'
<1> DEFINE ss == <<Stmt("status", e, status)>>
                   \o (IF status # "active" THEN <<Stmt("end", e, None)>> ELSE <<>>)
<1>1. UNCHANGED <<now, backend, bundle, restored, broken>> /\ threads[t].pc = "act"
      /\ (Refuse(t) \/ Perform(t, ss, "idle"))
  BY DEF SetUserStatus, Rest
<1>2. Fits(db, ss) /\ "idle" \in NextPcs
  BY <1>1, ActUser, StatusFits
<1> HIDE DEF ss
<1> QED
  BY <1>1, <1>2, ActKeeps

LEMMA SetUserGlobalRoleKeeps ==
    ASSUME IInv, NEW t \in Threads, NEW e \in Emails, NEW role \in Roles, NEW on \in BOOLEAN,
           SetUserGlobalRole(t, e, role, on)
    PROVE  IInv'
<1>1. UNCHANGED <<now, backend, bundle, restored, broken>> /\ threads[t].pc = "act"
  BY DEF SetUserGlobalRole, Rest
<1>2. Tables(db) /\ "idle" \in NextPcs
  BY <1>1, ActUser
<1>3. CASE Refuse(t)
  BY <1>1, <1>3, ActKeeps
<1>4. CASE /\ e \in db.users /\ ~(~on /\ role = "super_admin" /\ SuperAdmins(db) = {e})
           /\ Perform(t, <<Stmt(IF on THEN "grant" ELSE "revoke", e, role)>>, "idle")
  <2>1. CASE on
    <3>1. Perform(t, <<Stmt("grant", e, role)>>, "idle")
      BY <1>4, <2>1
    <3>2. Fits(db, <<Stmt("grant", e, role)>>)
      BY <1>2, SingleFits
    <3> QED
      BY <1>1, <1>2, <3>1, <3>2, ActKeeps
  <2>2. CASE ~on
    <3>1. Perform(t, <<Stmt("revoke", e, role)>>, "idle")
      BY <1>4, <2>2
    <3>2. Fits(db, <<Stmt("revoke", e, role)>>)
      BY <1>2, <1>4, <2>2, RevokeFits
    <3> QED
      BY <1>1, <1>2, <3>1, <3>2, ActKeeps
  <2> QED
    BY <2>1, <2>2
<1> QED
  BY <1>3, <1>4 DEF SetUserGlobalRole

LEMMA TwoMakeAPair ==
    ASSUME NEW a \in Emails, NEW b \in Emails, a # b
    PROVE  {a, b} \in Pairs
<1>1. IsFiniteSet({a}) /\ Cardinality({a}) = 1
  BY FS_Singleton
<1>2. Cardinality({a} \cup {b}) = 2
  BY <1>1, FS_AddElement
<1>3. {a} \cup {b} = {a, b}
  OBVIOUS
<1> QED
  BY <1>2, <1>3 DEF Pairs

\* An acceptance takes the one pending request of the pair.
LEMMA TheRequestBack ==
    ASSUME Tables(db), Agreed(db), NEW a \in Emails, NEW b \in Emails, a # b,
           PendingFrom(b, a) # {}
    PROVE  LET i == Max(PendingFrom(b, a)) IN
           /\ i \in DOMAIN db.requests /\ db.requests[i].status = "pending"
           /\ {a, b} = {db.requests[i].from, db.requests[i].to}
<1> DEFINE S == PendingFrom(b, a)
<1>1. PICK j : j \in S
  OBVIOUS
<1>2. S \subseteq Asked(db, {a, b}, "pending")
  BY DEF PendingFrom, Asked
<1>3. \A i \in S : i = j
  BY <1>1, <1>2, TwoMakeAPair DEF Agreed
<1>4. S = {j}
  BY <1>1, <1>3
<1>5. j \in Int
  BY <1>1 DEF PendingFrom, Tables
<1>6. Max(S) = j
  BY <1>4, <1>5 DEF Max
<1> QED
  BY <1>1, <1>6 DEF PendingFrom

LEMMA CreateFriendRequestKeeps ==
    ASSUME IInv, NEW t \in Threads, NEW to \in Emails, CreateFriendRequest(t, to)
    PROVE  IInv'
<1> DEFINE from == threads[t].user  back == PendingFrom(to, from)
           q == [from |-> from, to |-> to, status |-> "pending"]
<1>1. UNCHANGED <<now, backend, bundle, restored, broken>> /\ threads[t].pc = "act"
  BY DEF CreateFriendRequest, Rest
<1>2. from \in Emails /\ Tables(db) /\ "idle" \in NextPcs
  BY <1>1, ActUser
<1>3. CASE Refuse(t)
  BY <1>1, <1>3, ActKeeps
<1>4. CASE from # to /\ back # {} /\ Perform(t, Befriend(Max(back), {from, to}), "idle")
  <2>1. Fits(db, Befriend(Max(back), {from, to}))
    BY <1>2, <1>4, TheRequestBack, BefriendFits
  <2> QED
    BY <1>1, <1>2, <1>4, <2>1, ActKeeps
<1>5. CASE /\ {from, to} \notin db.friends /\ back = {} /\ PendingFrom(from, to) = {}
           /\ Perform(t, <<Stmt("request", None, q)>>, "idle")
  <2>1. q \in RequestType /\ q.from = from /\ q.to = to
    BY <1>2 DEF RequestType, RequestStatuses
  <2>2. Asked(db, {from, to}, "pending") = {}
    BY <1>5 DEF Asked, PendingFrom
  <2> HIDE DEF q
  <2>3. Fits(db, <<Stmt("request", None, q)>>)
    BY <1>2, <1>5, <2>1, <2>2, RequestFits
  <2> QED
    BY <1>1, <1>2, <1>5, <2>3, ActKeeps
<1> QED
  BY <1>3, <1>4, <1>5 DEF CreateFriendRequest

LEMMA HandleFriendRequestKeeps ==
    ASSUME IInv, NEW t \in Threads, NEW i \in DOMAIN db.requests,
           NEW status \in RequestStatuses \ {"pending"}, HandleFriendRequest(t, i, status)
    PROVE  IInv'
<1> DEFINE r == db.requests[i]
<1>1. UNCHANGED <<now, backend, bundle, restored, broken>> /\ threads[t].pc = "act"
  BY DEF HandleFriendRequest, Rest
<1>2. Tables(db) /\ "idle" \in NextPcs
  BY <1>1, ActUser
<1>3. CASE Refuse(t)
  BY <1>1, <1>3, ActKeeps
<1>4. CASE r.status = "pending" /\ Perform(t, Befriend(i, {r.from, r.to}), "idle")
  <2>1. Fits(db, Befriend(i, {r.from, r.to}))
    BY <1>2, <1>4, BefriendFits
  <2> QED
    BY <1>1, <1>2, <1>4, <2>1, ActKeeps
<1>5. CASE r.status = "pending" /\ Perform(t, <<Stmt("handle", i, status)>>, "idle")
  <2>1. Fits(db, <<Stmt("handle", i, status)>>)
    BY <1>2, <1>5, HandleFits
  <2> QED
    BY <1>1, <1>2, <1>5, <2>1, ActKeeps
<1> QED
  BY <1>3, <1>4, <1>5 DEF HandleFriendRequest

LEMMA DeleteFriendshipKeeps ==
    ASSUME IInv, NEW t \in Threads, NEW e \in Emails, DeleteFriendship(t, e)
    PROVE  IInv'
<1> DEFINE ss == <<Stmt("unfriend", None, {threads[t].user, e})>>
<1>1. UNCHANGED <<now, backend, bundle, restored, broken>> /\ threads[t].pc = "act"
      /\ (Refuse(t) \/ Perform(t, ss, "idle"))
  BY DEF DeleteFriendship, Rest
<1>2. Fits(db, ss) /\ "idle" \in NextPcs
  BY <1>1, ActUser, SingleFits
<1> HIDE DEF ss
<1> QED
  BY <1>1, <1>2, ActKeeps

LEMMA SyncStudyStatsKeeps ==
    ASSUME IInv, NEW t \in Threads, NEW ms, NEW ranges, SyncStudyStats(t, ms, ranges)
    PROVE  IInv'
<1> DEFINE ss == <<Stmt("study", threads[t].user, Report(ms, ranges))>>
<1>1. UNCHANGED <<now, backend, bundle, restored, broken>> /\ threads[t].pc = "act"
      /\ Perform(t, ss, "idle")
  BY DEF SyncStudyStats, Rest
<1>2. Fits(db, ss) /\ "idle" \in NextPcs
  BY <1>1, ActUser, SingleFits
<1> HIDE DEF ss
<1> QED
  BY <1>1, <1>2, ActKeeps

LEMMA LogoutKeeps ==
    ASSUME IInv, NEW k, Logout(k)
    PROVE  IInv'
<1> DEFINE s == Stmt("logout", None, k)
<1>1. /\ lock = None /\ db' = Apply(db, s)
      /\ UNCHANGED <<now, backend, bundle, restored, broken, lock, todo, threads>>
  BY DEF Logout, Rest
<1>2. Quiet(s)
  BY DEF Quiet, StmtOk, Stmt
<1>3. Tables(db)
  BY DEF IInv, TypeOK
<1> HIDE DEF s
<1>4. Fits(db, <<s>>)
  BY <1>2, <1>3, QuietFits
<1>5. ApplyAll(db, <<s>>) = Apply(db, s)
  BY OneStatement, AllIsAfter DEF After
<1>6. Tables(db') /\ StoreOk' /\ BundleOk'
  BY <1>1, <1>4, <1>5, TablesKeep
<1>7. TypeOK' /\ Locking'
  BY <1>1, <1>6 DEF IInv, TypeOK, Locking
<1> QED
  BY <1>6, <1>7 DEF IInv

LEMMA TickKeeps ==
    ASSUME IInv, Tick
    PROVE  IInv'
<1>1. /\ now' = now + 1
      /\ UNCHANGED <<backend, bundle, restored, broken, db, lock, todo, threads>>
  BY DEF Tick, Store
<1>2. TypeOK' /\ Locking'
  BY <1>1 DEF IInv, TypeOK, Locking
<1>3. StoreOk' /\ BundleOk'
  BY <1>1 DEF IInv, StoreOk, BundleOk
<1> QED
  BY <1>2, <1>3 DEF IInv

-----------------------------------------------------------------------------
(* Backup and restore. *)

\* A section is read when those before it have been.
LEMMA NextSection ==
    ASSUME IsFiniteSet(DOMAIN bundle), Cardinality(DOMAIN bundle) < Len(Sections)
    PROVE  LET s == Sections[Cardinality(DOMAIN bundle) + 1] IN
           /\ s \in {"users", "sessions", "profile", "roles", "requests", "friends"}
           /\ s = "users" <=> DOMAIN bundle = {}
<1> DEFINE n == Cardinality(DOMAIN bundle)
<1>1. n \in Nat /\ (n = 0 <=> DOMAIN bundle = {})
  BY FS_CardinalityType, FS_EmptySet
<1>2. Len(Sections) = 6
  BY DEF Sections
<1>3. n \in 0..5
  BY <1>1, <1>2
<1> HIDE DEF n
<1>4. /\ Sections[1] = "users" /\ Sections[2] = "sessions" /\ Sections[3] = "profile"
      /\ Sections[4] = "roles" /\ Sections[5] = "requests" /\ Sections[6] = "friends"
  BY DEF Sections
<1>5. \/ n = 0 /\ Sections[n + 1] = "users"
      \/ n # 0 /\ Sections[n + 1] \in {"sessions", "profile", "roles", "requests", "friends"}
  <2>1. n = 0 \/ n = 1 \/ n = 2 \/ n = 3 \/ n = 4 \/ n = 5
    BY <1>3
  <2> QED
    BY <1>4, <2>1
<1> QED
  BY <1>1, <1>5 DEF n

LEMMA ExportSectionKeeps ==
    ASSUME IInv, ExportSection
    PROVE  IInv'
<1> DEFINE n == Cardinality(DOMAIN bundle)  s == Sections[n + 1]
           part == IF s = "users" THEN [users |-> db.users, secret |-> db.secret] ELSE db[s]
<1>1. /\ n < Len(Sections) /\ ~restored
      /\ bundle' = [x \in DOMAIN bundle \cup {s} |-> IF x = s THEN part ELSE bundle[x]]
      /\ UNCHANGED <<backend, now, broken, restored, db, lock, todo, threads>>
  BY DEF ExportSection, Store
<1>2. IsFiniteSet(DOMAIN bundle) /\ Tables(db)
  BY DEF IInv, BundleOk, TypeOK
<1>3. /\ s \in {"users", "sessions", "profile", "roles", "requests", "friends"}
      /\ s = "users" <=> DOMAIN bundle = {}
  BY <1>1, <1>2, NextSection
<1> HIDE DEF n, s
<1>4. SectionOk(s, part)
  BY <1>2, <1>3 DEF SectionOk, Tables
<1>5. /\ DOMAIN bundle' = DOMAIN bundle \cup {s} /\ bundle'[s] = part
      /\ \A x \in DOMAIN bundle : x # s => bundle'[x] = bundle[x]
  <2> HIDE DEF part
  <2> QED
    BY <1>1
<1>6. IsFiniteSet(DOMAIN bundle')
  BY <1>2, <1>5, FS_AddElement
<1>7. "users" \in DOMAIN bundle'
  BY <1>3, <1>5 DEF IInv, BundleOk
<1>8. \A x \in DOMAIN bundle' : SectionOk(x, bundle'[x])
  <2> HIDE DEF part
  <2> QED
    BY <1>4, <1>5 DEF IInv, BundleOk
<1>9. ASSUME backend = "sqlite"
      PROVE  LET old == bundle'["users"].users IN
             /\ old \subseteq db.users
             /\ "profile" \in DOMAIN bundle' => \A e \in old : bundle'["profile"][e] # None
             /\ "roles" \in DOMAIN bundle' /\ old # {} =>
                  \E e \in Emails : "super_admin" \in bundle'["roles"][e]
  <2>1. Whole(db)
    BY <1>9, LockFree DEF IInv, Locking
  <2>2. CASE s = "users"
    <3>1. DOMAIN bundle' = {"users"} /\ bundle'["users"].users = db.users
      BY <1>3, <1>5, <2>2
    <3> QED
      BY <3>1
  <2>3. CASE s # "users"
    <3>1. bundle'["users"] = bundle["users"] /\ DOMAIN bundle # {} /\ "users" \in DOMAIN bundle
      BY <1>3, <1>5, <2>3 DEF IInv, BundleOk
    <3> DEFINE old == bundle["users"].users
    <3>2. /\ old \subseteq db.users
          /\ "profile" \in DOMAIN bundle => \A e \in old : bundle["profile"][e] # None
          /\ "roles" \in DOMAIN bundle /\ old # {} =>
               \E e \in Emails : "super_admin" \in bundle["roles"][e]
      BY <1>1, <1>9, <3>1 DEF IInv, BundleOk
    <3> HIDE DEF old
    <3>3. "profile" \in DOMAIN bundle' => \A e \in old : bundle'["profile"][e] # None
      <4>1. CASE s = "profile"
        <5>1. bundle'["profile"] = db.profile
          BY <1>5, <4>1
        <5> QED
          BY <2>1, <3>2, <5>1 DEF Whole
      <4>2. CASE s # "profile"
        BY <1>5, <3>2, <4>2
      <4> QED
        BY <4>1, <4>2
    <3>4. "roles" \in DOMAIN bundle' /\ old # {} =>
            \E e \in Emails : "super_admin" \in bundle'["roles"][e]
      <4>1. CASE s = "roles"
        <5>1. bundle'["roles"] = db.roles
          BY <1>5, <4>1
        <5> QED
          BY <2>1, <3>2, <5>1 DEF Whole, SuperAdmins
      <4>2. CASE s # "roles"
        BY <1>5, <3>2, <4>2
      <4> QED
        BY <4>1, <4>2
    <3> QED
      BY <3>1, <3>2, <3>3, <3>4 DEF old
  <2> QED
    BY <2>2, <2>3
<1>10. BundleOk'
  BY <1>1, <1>6, <1>7, <1>8, <1>9 DEF BundleOk
<1>11. TypeOK' /\ Locking' /\ StoreOk'
  BY <1>1 DEF IInv, TypeOK, Locking, StoreOk
<1> QED
  BY <1>10, <1>11 DEF IInv

\* The backup holds every section.
Complete == {"users", "sessions", "profile", "roles", "requests", "friends"} \subseteq DOMAIN bundle

LEMMA SectionTypes ==
    ASSUME BundleOk, Complete
    PROVE  LET b == Bundled IN
           /\ b.users \in SUBSET Emails /\ b.secret \in [Emails -> Nat]
           /\ Section(b, "users") = b.users
           /\ Section(b, "profile") \in [Emails -> Statuses \cup {None}]
           /\ Section(b, "roles") \in [Emails -> SUBSET Roles]
           /\ Section(b, "sessions") \in [Tokens -> SessionRow \cup {None}]
           /\ Section(b, "requests") \in Seq(RequestType)
<1> DEFINE b == Bundled
<1>1. /\ b.users = bundle["users"].users /\ b.secret = bundle["users"].secret
      /\ b["profile"] = bundle["profile"] /\ b["roles"] = bundle["roles"]
      /\ b["sessions"] = bundle["sessions"] /\ b["requests"] = bundle["requests"]
      /\ b["users"] = b.users
  BY DEF Bundled
<1>2. /\ SectionOk("users", bundle["users"]) /\ SectionOk("profile", bundle["profile"])
      /\ SectionOk("roles", bundle["roles"]) /\ SectionOk("sessions", bundle["sessions"])
      /\ SectionOk("requests", bundle["requests"])
  BY DEF BundleOk, Complete
<1> HIDE DEF b
<1>3. b.users \in SUBSET Emails /\ b.secret \in [Emails -> Nat]
  BY <1>1, <1>2 DEF SectionOk
<1>4. Section(b, "users") = b.users
  BY <1>1 DEF Section
<1>5. Section(b, "profile") \in [Emails -> Statuses \cup {None}]
  <2>1. b["profile"] \in [Emails -> Statuses \cup {None}]
    BY <1>1, <1>2 DEF SectionOk
  <2>2. [e \in Emails |-> IF e \in b.users THEN "active" ELSE None]
          \in [Emails -> Statuses \cup {None}]
    BY DEF Statuses
  <2>3. \/ Section(b, "profile") = [e \in Emails |-> IF e \in b.users THEN "active" ELSE None]
        \/ Section(b, "profile") = b["profile"]
    BY DEF Section
  <2> QED
    BY <2>1, <2>2, <2>3
<1>6. Section(b, "roles") \in [Emails -> SUBSET Roles]
  <2> DEFINE first == [e \in Emails |-> IF e \in b.users /\ e = Min(b.users)
                                          THEN {"super_admin"} ELSE {}]
  <2>1. b["roles"] \in [Emails -> SUBSET Roles]
    BY <1>1, <1>2 DEF SectionOk
  <2>2. first \in [Emails -> SUBSET Roles]
    BY DEF Roles
  <2>3. Section(b, "roles") = first \/ Section(b, "roles") = b["roles"]
    BY DEF Section
  <2> QED
    BY <2>1, <2>2, <2>3
<1>7. Section(b, "sessions") \in [Tokens -> SessionRow \cup {None}]
  BY <1>1, <1>2 DEF Section, SectionOk
<1>8. Section(b, "requests") \in Seq(RequestType)
  BY <1>1, <1>2 DEF Section, SectionOk
<1> QED
  BY <1>3, <1>4, <1>5, <1>6, <1>7, <1>8 DEF b

\* What a restore leaves is well typed, however far it came.
LEMMA ImportedTypes ==
    ASSUME BundleOk, Complete, NEW k
    PROVE  Tables(Imported(Bundled, k))
<1> DEFINE b == Bundled  done == {ImportOrder[i] : i \in 1..k}  r == Imported(b, k)
           Got(x) == IF x \in done THEN Section(b, x)
                     ELSE IF x = "secret" /\ k > 0 THEN b.secret ELSE EmptyDb[x]
<1>1. /\ b.users \in SUBSET Emails /\ b.secret \in [Emails -> Nat]
      /\ Section(b, "users") = b.users
      /\ Section(b, "profile") \in [Emails -> Statuses \cup {None}]
      /\ Section(b, "roles") \in [Emails -> SUBSET Roles]
      /\ Section(b, "sessions") \in [Tokens -> SessionRow \cup {None}]
      /\ Section(b, "requests") \in Seq(RequestType)
  BY SectionTypes
<1>2. /\ EmptyDb["users"] = {} /\ EmptyDb["profile"] \in [Emails -> Statuses \cup {None}]
      /\ EmptyDb["secret"] \in [Emails -> Nat] /\ EmptyDb["roles"] \in [Emails -> SUBSET Roles]
      /\ EmptyDb["sessions"] \in [Tokens -> SessionRow \cup {None}]
      /\ EmptyDb["requests"] \in Seq(RequestType)
  BY DEF EmptyDb
<1>3. r = [x \in DOMAIN EmptyDb |-> Got(x)]
  BY DEF Imported
<1> HIDE DEF r, Got
<1>4. /\ DOMAIN r = DOMAIN EmptyDb /\ r.users = Got("users") /\ r.profile = Got("profile")
      /\ r.secret = Got("secret") /\ r.roles = Got("roles") /\ r.sessions = Got("sessions")
      /\ r.requests = Got("requests")
  BY <1>3, TableNames
<1> HIDE DEF b, done
<1>5. Section(b, "secret") = b.secret
  BY DEF Section, b, Bundled
<1>6. /\ Got("users") \in SUBSET Emails /\ Got("profile") \in [Emails -> Statuses \cup {None}]
      /\ Got("roles") \in [Emails -> SUBSET Roles]
      /\ Got("sessions") \in [Tokens -> SessionRow \cup {None}]
      /\ Got("requests") \in Seq(RequestType)
  BY <1>1, <1>2 DEF Got
<1>7. Got("secret") \in [Emails -> Nat]
  BY <1>1, <1>2, <1>5 DEF Got
<1> QED
  BY <1>4, <1>6, <1>7 DEF Tables, r, b

\* A restored SQLite backup: accounts, profiles and roles fit each other.
LEMMA ImportedWhole ==
    ASSUME BundleOk, Complete, backend = "sqlite", ~restored
    PROVE  Whole(Imported(Bundled, Len(ImportOrder)))
<1> DEFINE b == Bundled  r == Imported(b, Len(ImportOrder))
           old == bundle["users"].users
<1>1. /\ b.users = old /\ b["profile"] = bundle["profile"] /\ b["roles"] = bundle["roles"]
      /\ b.profile = b["profile"] /\ b.roles = b["roles"] /\ b["users"] = b.users
  BY DEF Bundled
<1>2. /\ \A e \in old : bundle["profile"][e] # None
      /\ old # {} => \E e \in Emails : "super_admin" \in bundle["roles"][e]
      /\ old \in SUBSET Emails
  BY DEF BundleOk, Complete, SectionOk
<1>3. /\ r.users = Section(b, "users") /\ r.profile = Section(b, "profile")
      /\ r.roles = Section(b, "roles")
  <2> DEFINE done == {ImportOrder[i] : i \in 1..Len(ImportOrder)}
  <2>1. {"users", "profile", "roles"} \subseteq done
    <3>1. /\ 1 \in 1..Len(ImportOrder) /\ 2 \in 1..Len(ImportOrder) /\ 3 \in 1..Len(ImportOrder)
          /\ ImportOrder[1] = "users" /\ ImportOrder[2] = "profile" /\ ImportOrder[3] = "roles"
      BY DEF ImportOrder
    <3> QED
      BY <3>1
  <2>2. r = [x \in DOMAIN EmptyDb |->
              IF x \in done THEN Section(b, x)
              ELSE IF x = "secret" /\ Len(ImportOrder) > 0 THEN b.secret ELSE EmptyDb[x]]
    BY DEF Imported
  <2> HIDE DEF r, b, done
  <2> QED
    BY <2>1, <2>2, TableNames
<1> HIDE DEF r, b, old
<1>4. r.users = old
  BY <1>1, <1>3 DEF Section
<1>5. ASSUME NEW e \in old
      PROVE  r.profile[e] # None
  <2>1. CASE Section(b, "profile") = b["profile"]
    BY <1>1, <1>2, <1>3, <2>1
  <2>2. CASE Section(b, "profile") = [x \in Emails |-> IF x \in b.users THEN "active" ELSE None]
    BY <1>1, <1>2, <1>3, <2>2, NoneAssumption DEF Statuses
  <2> QED
    BY <2>1, <2>2 DEF Section
<1>6. ASSUME old # {}
      PROVE  SuperAdmins(r) # {}
  <2>1. PICK a \in Emails : "super_admin" \in b["roles"][a]
    BY <1>1, <1>2, <1>6
  <2>2. Owners(b, "roles") # {}
    BY <1>1, <2>1 DEF Owners
  <2>3. Section(b, "roles") = b["roles"]
    BY <2>2 DEF Section
  <2> QED
    BY <1>3, <2>1, <2>3 DEF SuperAdmins
<1>7. Whole(r)
  BY <1>4, <1>5, <1>6 DEF Whole
<1> QED
  BY <1>7 DEF r, b

LEMMA RestoreKeeps ==
    ASSUME IInv, Restore
    PROVE  IInv'
<1>1. /\ ~restored /\ restored' = TRUE /\ \A t \in Threads : threads[t].pc = "idle"
      /\ UNCHANGED <<backend, now, bundle, lock, todo, threads>>
  BY DEF Restore
<1>2. Complete
  <2>1. DOMAIN bundle = {Sections[i] : i \in DOMAIN Sections}
    BY DEF Restore
  <2>2. DOMAIN Sections = 1..6
    BY DEF Sections
  <2>3. /\ Sections[1] = "users" /\ Sections[2] = "sessions" /\ Sections[3] = "profile"
        /\ Sections[4] = "roles" /\ Sections[5] = "requests" /\ Sections[6] = "friends"
    BY DEF Sections
  <2> QED
    BY <2>1, <2>2, <2>3 DEF Complete
<1>3. BundleOk /\ Tables(db) /\ broken \in Nat
  BY DEF IInv, TypeOK
<1>4. Tables(db') /\ broken' \in Nat /\ (backend = "sqlite" => Whole(db'))
  <2>1. CASE backend = "sqlite"
    <3>1. Whole(db)
      BY <2>1, LockFree DEF IInv, Locking
    <3>2. broken' = broken /\ (db' = Imported(Bundled, Len(ImportOrder)) \/ db' = db)
      BY <2>1 DEF Restore
    <3>3. Whole(Imported(Bundled, Len(ImportOrder))) /\ Tables(Imported(Bundled, Len(ImportOrder)))
      BY <1>1, <1>2, <1>3, <2>1, ImportedWhole, ImportedTypes
    <3> QED
      BY <1>3, <3>1, <3>2, <3>3
  <2>2. CASE backend # "sqlite"
    <3>1. PICK k : db' = Imported(Bundled, k) /\ broken' \in {broken, broken + 1}
      BY <2>2 DEF Restore
    <3> QED
      BY <1>2, <1>3, <2>2, <3>1, ImportedTypes
  <2> QED
    BY <2>1, <2>2
<1>5. TypeOK'
  BY <1>1, <1>4 DEF IInv, TypeOK
<1>6. Locking'
  BY <1>1 DEF IInv, Locking
<1>7. StoreOk'
  <2>1. backend = "sqlite" => Len(todo) = 0
    BY DEF IInv, Locking
  <2>2. \A ss : After(db', ss, 0) = db'
    BY DEF After
  <2> QED
    BY <1>1, <1>4, <2>1, <2>2 DEF StoreOk
<1>8. BundleOk'
  BY <1>1, <1>3 DEF BundleOk
<1> QED
  BY <1>5, <1>6, <1>7, <1>8 DEF IInv

-----------------------------------------------------------------------------
(* The invariant, and what it says. *)

LEMMA InitIInv == Init => IInv
<1> SUFFICES ASSUME Init PROVE IInv
  OBVIOUS
<1>1. /\ now = 0 /\ broken = 0 /\ threads = [t \in Threads |-> Idle] /\ lock = None
      /\ todo = <<>> /\ bundle = <<>> /\ restored = FALSE /\ db \in {EmptyDb, SeededDb}
  BY DEF Init
<1>2. 1 \in Emails /\ Emails \subseteq Tokens
  <2>1. Cardinality(Emails) \in Nat /\ Emails = 1..Cardinality(Emails) /\ Emails # {}
    BY EmailAssumption, FS_CardinalityType
  <2> QED
    BY <2>1, LimitAssumption DEF Tokens
<1>3. Tables(EmptyDb) /\ Agreed(EmptyDb) /\ Whole(EmptyDb)
  <2>1. /\ EmptyDb.users = {} /\ EmptyDb.profile = [e \in Emails |-> None]
        /\ EmptyDb.secret = [e \in Emails |-> 0] /\ EmptyDb.roles = [e \in Emails |-> {}]
        /\ EmptyDb.sessions = [k \in Tokens |-> None] /\ EmptyDb.requests = <<>>
        /\ EmptyDb.friends = {}
    BY DEF EmptyDb
  <2> QED
    BY <2>1 DEF Tables, Agreed, Whole, Asked
<1>4. Tables(SeededDb) /\ Agreed(SeededDb) /\ Whole(SeededDb)
  <2>1. /\ DOMAIN SeededDb = DOMAIN EmptyDb
        /\ SeededDb.users = Emails /\ SeededDb.profile = [e \in Emails |-> "active"]
        /\ SeededDb.secret = [e \in Emails |-> 0]
        /\ SeededDb.roles = [e \in Emails |-> IF e = 1 THEN {"super_admin"} ELSE {}]
        /\ SeededDb.sessions = [k \in Tokens |->
               IF k \in Emails THEN [user |-> k, proved |-> 0, expires |-> SessionTtl] ELSE None]
        /\ SeededDb.requests = <<>> /\ SeededDb.friends = {}
    BY DEF SeededDb, EmptyDb
  <2>2. SeededDb.sessions \in [Tokens -> SessionRow \cup {None}]
    BY <2>1, LimitAssumption DEF SessionRow
  <2>3. Tables(SeededDb)
    BY <2>1, <2>2 DEF Tables, Statuses, Roles
  <2>4. Agreed(SeededDb)
    BY <2>1 DEF Agreed, Asked
  <2>5. Whole(SeededDb)
    BY <1>2, <2>1, NoneAssumption DEF Whole, SuperAdmins, Statuses
  <2> QED
    BY <2>3, <2>4, <2>5
<1>5. IsSeq(todo) /\ Len(todo) = 0 /\ DOMAIN todo = {}
  BY <1>1 DEF IsSeq
<1>6. TypeOK
  BY <1>1, <1>3, <1>4, <1>5, IdleOk DEF TypeOK
<1>7. Locking
  BY <1>1, <1>5, IdleOk DEF Locking
<1>8. StoreOk
  <2>1. \A ss : After(db, ss, 0) = db
    BY DEF After
  <2> QED
    BY <1>1, <1>3, <1>4, <1>5, <2>1 DEF StoreOk
<1>9. BundleOk
  <2>1. DOMAIN bundle = {}
    BY <1>1
  <2> QED
    BY <2>1, FS_EmptySet DEF BundleOk
<1> QED
  BY <1>6, <1>7, <1>8, <1>9 DEF IInv

LEMMA StepIInv == IInv /\ [Next]_vars => IInv'
<1> SUFFICES ASSUME IInv, [Next]_vars PROVE IInv'
  OBVIOUS
<1>1. CASE UNCHANGED vars
  BY <1>1 DEF vars, IInv, TypeOK, Locking, StoreOk, BundleOk
<1>2. ASSUME NEW t \in Threads,
             \/ \E e \in Emails, kind \in {"register", "login"} : BeginCredentials(t, kind, e)
             \/ \E k \in Tokens, kind \in Kinds : BeginSession(t, kind, k)
             \/ CheckAllowed(t) \/ CreateUser(t) \/ Authenticate(t) \/ ResetFailures(t)
             \/ CreateSession(t) \/ RecordAttempt(t)
             \/ Resolve(t) \/ Authorise(t)
             \/ ChangePassword(t) \/ DeleteOtherSessions(t)
      PROVE  IInv'
  BY <1>2, BeginCredentialsKeeps, BeginSessionKeeps, CheckAllowedKeeps, CreateUserKeeps,
     AuthenticateKeeps, ResetFailuresKeeps, CreateSessionKeeps, RecordAttemptKeeps,
     ResolveKeeps, AuthoriseKeeps, ChangePasswordKeeps, DeleteOtherSessionsKeeps
<1>3. ASSUME NEW t \in Threads, NEW e \in Emails,
             \/ \E s \in Statuses : SetUserStatus(t, e, s)
             \/ \E r \in Roles, on \in BOOLEAN : SetUserGlobalRole(t, e, r, on)
             \/ CreateFriendRequest(t, e)
             \/ DeleteFriendship(t, e)
      PROVE  IInv'
  BY <1>3, SetUserStatusKeeps, SetUserGlobalRoleKeeps, CreateFriendRequestKeeps,
     DeleteFriendshipKeeps
<1>4. ASSUME NEW t \in Threads,
             \/ \E i \in DOMAIN db.requests, s \in RequestStatuses \ {"pending"} :
                  HandleFriendRequest(t, i, s)
             \/ \E ms \in {0, MaxMs - 1}, rs \in Reports : SyncStudyStats(t, ms, rs)
             \/ Write(t) \/ Break(t)
      PROVE  IInv'
  BY <1>4, HandleFriendRequestKeeps, SyncStudyStatsKeeps, WriteKeeps, BreakKeeps
<1>5. CASE \E k \in Tokens : Logout(k)
  BY <1>5, LogoutKeeps
<1>6. CASE ExportSection \/ Restore \/ Tick
  BY <1>6, ExportSectionKeeps, RestoreKeeps, TickKeeps
<1> QED
  BY <1>1, <1>2, <1>3, <1>4, <1>5, <1>6 DEF Next

LEMMA SpecIInv == Spec => []IInv
<1> QED
  BY InitIInv, StepIInv, PTL DEF Spec

\* Accounts stay usable: between two calls each has its profile and one is super admin,
\* on SQLite always, also after a backup that was read from a running server, and on
\* PostgreSQL until a call breaks off between two statements (create_user,
\* set_user_global_role, import_snapshot).
THEOREM AccountsStayUsable == Spec => []AccountsAreWhole
<1>1. IInv => AccountsAreWhole
  <2> SUFFICES ASSUME IInv, lock = None, backend = "sqlite" \/ (broken = 0 /\ ~restored)
               PROVE  /\ \A e \in db.users : db.profile[e] # None
                      /\ db.users # {} => SuperAdmins(db) # {}
    BY DEF AccountsAreWhole
  <2> QED
    BY LockFree DEF Whole
<1> QED
  BY <1>1, SpecIInv, PTL

\* Friends have agreed: nobody is asked twice, nobody is asked by a friend, and every
\* friendship rests on a request that was accepted, after every statement of every call
\* on either backend, also when an acceptance breaks off (create_friend_request,
\* accept_friend_request).
THEOREM FriendsHaveAgreed == Spec => []FriendshipIsAgreed
<1>1. IInv => FriendshipIsAgreed
  <2> SUFFICES ASSUME IInv, ~restored, NEW p \in Pairs
               PROVE  /\ Cardinality(Asked(db, p, "pending")) <= 1
                      /\ p \in db.friends => /\ Asked(db, p, "pending") = {}
                                             /\ Asked(db, p, "accepted") # {}
    BY DEF FriendshipIsAgreed, Asked
  <2>1. Agreed(db)
    <3>1. After(db, todo, 0) = db /\ 0 \in 0..Len(todo)
      BY DEF After, IInv, TypeOK
    <3> QED
      BY <3>1 DEF IInv, StoreOk
  <2>2. CASE Asked(db, p, "pending") = {}
    BY <2>1, <2>2, FS_EmptySet DEF Agreed
  <2>3. CASE Asked(db, p, "pending") # {}
    <3>1. PICK i : i \in Asked(db, p, "pending")
      BY <2>3
    <3>2. Asked(db, p, "pending") = {i}
      BY <2>1, <3>1 DEF Agreed
    <3>3. Cardinality({i}) = 1
      BY FS_Singleton
    <3> QED
      BY <2>1, <3>2, <3>3 DEF Agreed
  <2> QED
    BY <2>2, <2>3
<1> QED
  BY <1>1, SpecIInv, PTL

-----------------------------------------------------------------------------
(* The rate limit. *)

LEMMA LateSize ==
    ASSUME NEW ts, NEW b
    PROVE  /\ IsFiniteSet(Late(ts, b)) /\ Cardinality(Late(ts, b)) \in Nat
           /\ Cardinality(Late(ts, b)) <= Cardinality(Threads) /\ Cardinality(Threads) \in Nat
<1>1. Late(ts, b) \in SUBSET Threads
  BY DEF Late
<1> QED
  BY <1>1, ThreadAssumption, FS_Subset, FS_CardinalityType

\* The step of a request that does not make it count where it did not before.
Calm(t) ==
    /\ DOMAIN threads' = Threads /\ \A u \in Threads \ {t} : threads'[u] = threads[u]
    /\ KindOk(threads'[t])
    /\ \/ threads'[t].pc \notin PastCheck
       \/ threads'[t].kind \notin Credentials
       \/ /\ threads[t].pc \in PastCheck
          /\ threads'[t].kind = threads[t].kind /\ threads'[t].user = threads[t].user

LEMMA CalmShrinks ==
    ASSUME NEW t \in Threads, Calm(t), NEW b
    PROVE  /\ Late(threads', b) \subseteq Late(threads, b)
           /\ Cardinality(Late(threads', b)) <= Cardinality(Late(threads, b))
<1>1. Late(threads', b) \subseteq Late(threads, b)
  BY DEF Calm, Late, Touches
<1> QED
  BY <1>1, LateSize, FS_Subset

\* Nothing is counted: rows may be forgotten.
LEMMA CalmKeeps ==
    ASSUME CountInv, NEW t \in Threads, Calm(t),
           counters' \in [Buckets -> Row \cup {None}],
           \A b \in Buckets : counters'[b] \in {None, counters[b]}
    PROVE  CountInv'
<1>1. \A u \in Threads : KindOk(threads'[u])
  BY DEF CountInv, Calm
<1>2. ASSUME NEW b \in Buckets, counters'[b] # None
      PROVE  counters'[b].count + Cardinality(Late(threads', b)) < Limit + Cardinality(Threads)
  <2>1. counters'[b] = counters[b] /\ counters[b].count \in Nat
    BY <1>2 DEF CountInv, Row
  <2>2. counters[b].count + Cardinality(Late(threads, b)) < Limit + Cardinality(Threads)
    BY <1>2, <2>1 DEF CountInv
  <2>3. Limit \in Nat
    BY LimitAssumption
  <2> QED
    BY <2>1, <2>2, <2>3, CalmShrinks, LateSize
<1> QED
  BY <1>1, <1>2 DEF CountInv

LEMMA CalmSame ==
    ASSUME CountInv, NEW t \in Threads, Calm(t), counters' = counters
    PROVE  CountInv'
<1>1. counters' \in [Buckets -> Row \cup {None}]
  BY DEF CountInv
<1> QED
  BY <1>1, CalmKeeps

LEMMA FinishCalm ==
    ASSUME IInv, NEW t \in Threads, Finish(t)
    PROVE  Calm(t)
<1>1. DOMAIN threads = Threads
  BY DEF IInv, TypeOK
<1>2. threads' = [threads EXCEPT ![t] = Idle]
  BY DEF Finish
<1>3. Idle.pc = "idle"
  BY IdleOk
<1> QED
  BY <1>1, <1>2, <1>3 DEF Calm, KindOk, PastCheck

LEMMA GotoCalm ==
    ASSUME IInv, CountInv, NEW t \in Threads, NEW pc, Goto(t, pc),
           pc \in {"act", "failed", "reset", "session", "record"},
           pc # "act" => threads[t].pc \in PastCheck \ {"write"}
    PROVE  Calm(t)
<1>1. DOMAIN threads = Threads /\ DOMAIN threads[t] = DOMAIN Idle
  BY DEF IInv, TypeOK, ThreadOk
<1>2. threads' = [threads EXCEPT ![t] = [threads[t] EXCEPT !.pc = pc]]
  BY DEF Goto
<1>3. /\ DOMAIN threads' = Threads /\ \A u \in Threads \ {t} : threads'[u] = threads[u]
      /\ threads'[t].pc = pc /\ threads'[t].kind = threads[t].kind
      /\ threads'[t].user = threads[t].user
  BY <1>1, <1>2 DEF Idle
<1>4. KindOk(threads[t])
  BY DEF CountInv
<1> QED
  BY <1>3, <1>4 DEF Calm, KindOk, PastCheck

LEMMA PerformCalm ==
    ASSUME IInv, CountInv, NEW t \in Threads, NEW ss, NEW pc \in NextPcs, Perform(t, ss, pc),
           \/ threads[t].pc \in {"create", "session"}
           \/ threads[t].kind \notin Credentials /\ pc \in {"idle", "others"}
           \/ AtOnce(ss) /\ pc = "idle"
    PROVE  Calm(t)
<1>1. DOMAIN threads = Threads /\ DOMAIN threads[t] = DOMAIN Idle /\ KindOk(threads[t])
  BY DEF IInv, TypeOK, ThreadOk, CountInv
<1>2. CASE AtOnce(ss) /\ pc = "idle"
  <2>1. threads' = [threads EXCEPT ![t] = Idle]
    BY <1>2 DEF Perform
  <2> QED
    BY <2>1, FinishCalm DEF Finish
<1>3. CASE AtOnce(ss) /\ pc # "idle"
  <2>1. threads' = [threads EXCEPT ![t] = [threads[t] EXCEPT !.pc = pc]]
    BY <1>3 DEF Perform
  <2>2. /\ DOMAIN threads' = Threads /\ \A u \in Threads \ {t} : threads'[u] = threads[u]
        /\ threads'[t].pc = pc /\ threads'[t].kind = threads[t].kind
        /\ threads'[t].user = threads[t].user
    BY <1>1, <2>1 DEF Idle
  <2> QED
    BY <1>1, <1>3, <2>2 DEF Calm, KindOk, PastCheck, NextPcs
<1>4. CASE ~AtOnce(ss)
  <2>1. threads' = [threads EXCEPT ![t].pc = "write", ![t].next = pc]
    BY <1>4 DEF Perform
  <2>2. /\ DOMAIN threads' = Threads /\ \A u \in Threads \ {t} : threads'[u] = threads[u]
        /\ threads'[t].pc = "write" /\ threads'[t].next = pc
        /\ threads'[t].kind = threads[t].kind /\ threads'[t].user = threads[t].user
    BY <1>1, <2>1 DEF Idle
  <2> QED
    BY <1>1, <1>4, <2>2 DEF Calm, KindOk, PastCheck, NextPcs
<1> QED
  BY <1>2, <1>3, <1>4

\* The two buckets of a request.
LEMMA TwoBuckets ==
    ASSUME NEW t \in Threads
    PROVE  /\ Len(BucketsOf(t)) = 2 /\ BucketsOf(t) \in Seq({BucketsOf(t)[1], BucketsOf(t)[2]})
           /\ DOMAIN BucketsOf(t) = {1, 2}
           /\ \A b : Touches(threads[t], b) <=> b \in {BucketsOf(t)[1], BucketsOf(t)[2]}
<1>1. CASE threads[t].kind = "register"
  BY <1>1 DEF BucketsOf, SignupBuckets, Touches
<1>2. CASE threads[t].kind # "register"
  BY <1>2 DEF BucketsOf, LoginBuckets, Touches
<1> QED
  BY <1>1, <1>2

LEMMA StaleRows ==
    ASSUME CountInv
    PROVE  /\ WithoutStale \in [Buckets -> Row \cup {None}]
           /\ \A b \in Buckets : WithoutStale[b] \in {None, counters[b]}
BY DEF CountInv, WithoutStale

\* A request that passes the check finds its counters below the limit.
LEMMA CheckCounts ==
    ASSUME IInv, CountInv, NEW t \in Threads, CheckAllowed(t)
    PROVE  CountInv'
<1> DEFINE bs == BucketsOf(t)
<1>1. threads[t].pc = "check" /\ counters' = Checked(WithoutStale, bs)
  BY DEF CheckAllowed
<1>2. /\ DOMAIN bs = {1, 2} /\ Len(bs) = 2
      /\ \A b : Touches(threads[t], b) <=> b \in {bs[1], bs[2]}
  BY TwoBuckets
<1> HIDE DEF bs
<1>3. counters' \in [Buckets -> Row \cup {None}]
      /\ \A b \in Buckets : counters'[b] \in {None, counters[b]}
  BY <1>1, StaleRows DEF Checked
<1>4. CASE Finish(t)
  BY <1>3, <1>4, FinishCalm, CalmKeeps
<1>5. CASE ~Blocked(WithoutStale, bs) /\ \E pc \in {"create", "authenticate"} : Goto(t, pc)
  <2>1. PICK pc \in {"create", "authenticate"} : Goto(t, pc)
    BY <1>5
  <2>2. DOMAIN threads = Threads /\ DOMAIN threads[t] = DOMAIN Idle /\ KindOk(threads[t])
    BY DEF IInv, TypeOK, ThreadOk, CountInv
  <2>3. /\ DOMAIN threads' = Threads /\ \A u \in Threads \ {t} : threads'[u] = threads[u]
        /\ threads'[t].pc = pc /\ threads'[t].kind = threads[t].kind
        /\ threads'[t].user = threads[t].user
    BY <2>1, <2>2 DEF Goto, Idle
  <2>4. \A u \in Threads : KindOk(threads'[u])
    BY <1>1, <2>2, <2>3 DEF CountInv, KindOk
  <2>5. ASSUME NEW b \in Buckets, counters'[b] # None
        PROVE  counters'[b].count + Cardinality(Late(threads', b)) < Limit + Cardinality(Threads)
    <3>1. counters'[b] = counters[b] /\ counters[b].count \in Nat
          /\ counters'[b] = WithoutStale[b]
      BY <1>1, <1>3, <2>5, StaleRows DEF Checked, CountInv, Row
    <3>2. Limit \in Nat
      BY LimitAssumption
    <3>3. CASE Touches(threads[t], b)
      <4>1. PICK i \in DOMAIN bs : bs[i] = b
        BY <1>2, <3>3
      <4>2. WithoutStale[b] # None /\ ~Elapsed(WithoutStale[b])
        BY <1>1, <2>5, <3>1, <4>1 DEF Checked
      <4>3. ~(WithoutStale[b].count >= Limit)
        BY <1>5, <4>1, <4>2 DEF Blocked
      <4>4. counters'[b].count < Limit
        BY <3>1, <3>2, <4>3
      <4> QED
        BY <3>1, <3>2, <4>4, LateSize
    <3>4. CASE ~Touches(threads[t], b)
      <4>1. Late(threads', b) \subseteq Late(threads, b)
        BY <2>3, <3>4 DEF Late, Touches
      <4>2. Cardinality(Late(threads', b)) <= Cardinality(Late(threads, b))
        BY <4>1, LateSize, FS_Subset
      <4>3. counters[b].count + Cardinality(Late(threads, b)) < Limit + Cardinality(Threads)
        BY <2>5, <3>1 DEF CountInv
      <4> QED
        BY <3>1, <3>2, <4>2, <4>3, LateSize
    <3> QED
      BY <3>3, <3>4
  <2> QED
    BY <1>3, <2>4, <2>5 DEF CountInv
<1> QED
  BY <1>4, <1>5 DEF CheckAllowed, bs

LEMMA RowCounted ==
    ASSUME NEW r \in Row, NEW n \in Nat, NEW m \in Nat
    PROVE  [r EXCEPT !.count = n, !.last = m] \in Row
<1> DEFINE v == [r EXCEPT !.count = n]
<1>1. v \in Row
  BY DEF Row
<1> HIDE DEF v
<1>2. [v EXCEPT !.last = m] \in Row
  BY <1>1 DEF Row
<1> QED
  BY <1>2 DEF v

\* An attempt is counted by a request that was expected to count it.
LEMMA RecordCounts ==
    ASSUME IInv, CountInv, NEW t \in Threads, RecordAttempt(t)
    PROVE  CountInv'
<1> DEFINE bs == BucketsOf(t)
<1>1. threads[t].pc \in {"failed", "record"} /\ Finish(t) /\ Calm(t)
  BY FinishCalm DEF RecordAttempt
<1>2. PICK some : /\ counters' = Counted(WithoutStale, some)
                  /\ \A i \in DOMAIN some : Touches(threads[t], some[i])
  <2>1. counters' \in Recorded(WithoutStale, bs)
    BY DEF RecordAttempt
  <2>2. /\ Len(bs) = 2 /\ bs \in Seq({bs[1], bs[2]}) /\ DOMAIN bs = {1, 2}
        /\ \A b : Touches(threads[t], b) <=> b \in {bs[1], bs[2]}
    BY TwoBuckets
  <2> HIDE DEF bs
  <2>3. CASE counters' = Counted(WithoutStale, bs)
    BY <2>2, <2>3
  <2>4. CASE \E k \in 0..(Len(bs) - 1) : counters' = Counted(WithoutStale, SubSeq(bs, 1, k))
    <3>1. PICK k \in 0..1 : counters' = Counted(WithoutStale, SubSeq(bs, 1, k))
      BY <2>2, <2>4
    <3>2. \A i \in DOMAIN SubSeq(bs, 1, k) : SubSeq(bs, 1, k)[i] = bs[i] /\ i \in {1, 2}
      BY <2>2
    <3> QED
      BY <2>2, <3>1, <3>2
  <2> QED
    BY <2>1, <2>3, <2>4 DEF Recorded
<1>3. now \in Nat /\ Limit \in Nat /\ Limit >= 1
  BY LimitAssumption DEF IInv, TypeOK
<1>4. counters' \in [Buckets -> Row \cup {None}]
  <2>1. ASSUME NEW b \in Buckets
        PROVE  counters'[b] \in Row \cup {None}
    <3>1. WithoutStale[b] \in Row \cup {None}
      BY StaleRows
    <3>2. \/ counters'[b] = WithoutStale[b]
          \/ counters'[b] = [start |-> now, count |-> 1, last |-> now]
          \/ /\ WithoutStale[b] # None
             /\ counters'[b] = [WithoutStale[b] EXCEPT !.count = WithoutStale[b].count + 1,
                                                       !.last = now]
      BY <1>2 DEF Counted
    <3>3. [start |-> now, count |-> 1, last |-> now] \in Row
      BY <1>3 DEF Row
    <3>4. ASSUME WithoutStale[b] # None
          PROVE  [WithoutStale[b] EXCEPT !.count = WithoutStale[b].count + 1, !.last = now] \in Row
      <4>1. WithoutStale[b] \in Row
        BY <3>1, <3>4
      <4>2. WithoutStale[b].count + 1 \in Nat
        BY <4>1 DEF Row
      <4> QED
        BY <1>3, <4>1, <4>2, RowCounted
    <3> QED
      BY <3>1, <3>2, <3>3, <3>4
  <2>2. counters' = [b \in Buckets |-> counters'[b]]
    BY <1>2 DEF Counted
  <2> QED
    BY <2>1, <2>2
<1>5. \A u \in Threads : KindOk(threads'[u])
  BY <1>1 DEF CountInv, Calm
<1>6. ASSUME NEW b \in Buckets, counters'[b] # None
      PROVE  counters'[b].count + Cardinality(Late(threads', b)) < Limit + Cardinality(Threads)
  <2>1. /\ Cardinality(Late(threads', b)) <= Cardinality(Late(threads, b))
        /\ Late(threads', b) \subseteq Late(threads, b)
    BY <1>1, CalmShrinks
  <2>2. WithoutStale[b] # None =>
          /\ WithoutStale[b].count \in Nat
          /\ WithoutStale[b].count + Cardinality(Late(threads, b)) < Limit + Cardinality(Threads)
    BY StaleRows DEF CountInv, Row
  <2>3. CASE \A i \in DOMAIN some : some[i] # b
    <3>1. counters'[b] = WithoutStale[b]
      BY <1>2, <2>3 DEF Counted
    <3> QED
      BY <1>3, <1>6, <2>1, <2>2, <3>1, LateSize
  <2>4. CASE \E i \in DOMAIN some : some[i] = b
    <3>1. t \in Late(threads, b)
      BY <1>1, <1>2, <2>4 DEF Late, CountInv, KindOk, PastCheck
    <3>2. t \notin Late(threads', b)
      <4>1. threads'[t].pc = "idle"
        BY <1>1, IdleOk DEF Finish, IInv, TypeOK
      <4> QED
        BY <4>1 DEF Late, PastCheck
    <3>3. Cardinality(Late(threads, b) \ {t}) = Cardinality(Late(threads, b)) - 1
      BY <3>1, LateSize, FS_RemoveElement
    <3>4. Cardinality(Late(threads', b)) <= Cardinality(Late(threads, b) \ {t})
      <4>1. Late(threads', b) \in SUBSET (Late(threads, b) \ {t})
        BY <2>1, <3>2
      <4> QED
        BY <4>1, LateSize, FS_RemoveElement, FS_Subset
    <3>5. \/ counters'[b].count = 1
          \/ WithoutStale[b] # None /\ counters'[b].count = WithoutStale[b].count + 1
      <4>1. counters'[b] = IF WithoutStale[b] = None \/ Elapsed(WithoutStale[b])
                             THEN [start |-> now, count |-> 1, last |-> now]
                             ELSE [WithoutStale[b] EXCEPT !.count = @ + 1, !.last = now]
        BY <1>2, <2>4 DEF Counted
      <4>2. WithoutStale[b] \in Row \cup {None}
        BY StaleRows
      <4> QED
        BY <4>1, <4>2 DEF Row
    <3> QED
      BY <1>3, <2>2, <3>3, <3>4, <3>5, LateSize
  <2> QED
    BY <2>3, <2>4
<1> QED
  BY <1>4, <1>5, <1>6 DEF CountInv

\* The other steps of a request count nothing.
LEMMA OthersAreCalm ==
    ASSUME IInv, CountInv, NEW t \in Threads,
           \/ \E e \in Emails, kind \in {"register", "login"} : BeginCredentials(t, kind, e)
           \/ \E k \in Tokens, kind \in Kinds : BeginSession(t, kind, k)
           \/ CreateUser(t) \/ Authenticate(t) \/ CreateSession(t)
           \/ Resolve(t) \/ Authorise(t)
    PROVE  Calm(t) /\ counters' = counters
<1>0. DOMAIN threads = Threads /\ DOMAIN threads[t] = DOMAIN Idle /\ KindOk(threads[t])
  BY DEF IInv, TypeOK, ThreadOk, CountInv
<1>1. ASSUME NEW e \in Emails, NEW kind \in {"register", "login"}, BeginCredentials(t, kind, e)
      PROVE  Calm(t) /\ counters' = counters
  <2>1. threads' = [threads EXCEPT ![t] = [Idle EXCEPT !.pc = "check", !.kind = kind, !.user = e]]
        /\ counters' = counters
    BY <1>1 DEF BeginCredentials
  <2>2. /\ DOMAIN threads' = Threads /\ \A u \in Threads \ {t} : threads'[u] = threads[u]
        /\ threads'[t].pc = "check" /\ threads'[t].kind = kind
    BY <1>0, <2>1 DEF Idle
  <2> QED
    BY <2>1, <2>2 DEF Calm, KindOk, PastCheck, Credentials
<1>2. ASSUME NEW k \in Tokens, NEW kind \in Kinds, BeginSession(t, kind, k)
      PROVE  Calm(t) /\ counters' = counters
  <2>1. threads' = [threads EXCEPT ![t] = [Idle EXCEPT !.pc = "resolve", !.kind = kind, !.token = k]]
        /\ counters' = counters
    BY <1>2 DEF BeginSession
  <2>2. /\ DOMAIN threads' = Threads /\ \A u \in Threads \ {t} : threads'[u] = threads[u]
        /\ threads'[t].pc = "resolve"
    BY <1>0, <2>1 DEF Idle
  <2> QED
    BY <2>1, <2>2 DEF Calm, KindOk, PastCheck
<1>3. ASSUME CreateUser(t)
      PROVE  Calm(t) /\ counters' = counters
  <2>1. threads[t].pc = "create" /\ counters' = counters
        /\ (Goto(t, "record") \/ \E ss : Perform(t, ss, "session"))
    BY <1>3 DEF CreateUser
  <2>2. "create" \in PastCheck \ {"write"} /\ "session" \in NextPcs
    BY DEF PastCheck, NextPcs
  <2> QED
    BY <2>1, <2>2, GotoCalm, PerformCalm
<1>4. ASSUME Authenticate(t)
      PROVE  Calm(t) /\ counters' = counters
  <2>1. threads[t].pc = "authenticate" /\ counters' = counters
    BY <1>4 DEF Authenticate
  <2>2. CASE Goto(t, "failed")
    BY <2>1, <2>2, GotoCalm DEF PastCheck
  <2>3. CASE \E s : threads' = [threads EXCEPT ![t].pc = "reset", ![t].proved = s]
    <3>1. PICK s : threads' = [threads EXCEPT ![t].pc = "reset", ![t].proved = s]
      BY <2>3
    <3>2. /\ DOMAIN threads' = Threads /\ \A u \in Threads \ {t} : threads'[u] = threads[u]
          /\ threads'[t].pc = "reset" /\ threads'[t].kind = threads[t].kind
          /\ threads'[t].user = threads[t].user
      BY <1>0, <3>1 DEF Idle
    <3> QED
      BY <1>0, <2>1, <3>2 DEF Calm, KindOk, PastCheck
  <2> QED
    BY <1>4, <2>1, <2>2, <2>3 DEF Authenticate
<1>5. ASSUME CreateSession(t)
      PROVE  Calm(t) /\ counters' = counters
  <2>1. threads[t].pc = "session" /\ counters' = counters
        /\ \E ss, pc : pc \in NextPcs /\ Perform(t, ss, pc)
    BY <1>5 DEF CreateSession, NextPcs
  <2> QED
    BY <2>1, PerformCalm
<1>6. ASSUME Resolve(t)
      PROVE  Calm(t) /\ counters' = counters
  <2> DEFINE u == db.sessions[threads[t].token].user
             pc == IF threads[t].kind \in {"status", "role"} THEN "authorise" ELSE "act"
  <2>1. counters' = counters
        /\ (Finish(t) \/ threads' = [threads EXCEPT ![t].user = u, ![t].pc = pc])
    BY <1>6 DEF Resolve
  <2>2. CASE Finish(t)
    BY <2>1, <2>2, FinishCalm
  <2>3. CASE threads' = [threads EXCEPT ![t].user = u, ![t].pc = pc]
    <3>1. pc \in {"authorise", "act"}
      OBVIOUS
    <3> HIDE DEF pc, u
    <3>2. /\ DOMAIN threads' = Threads /\ \A v \in Threads \ {t} : threads'[v] = threads[v]
          /\ threads'[t].pc = pc
      BY <1>0, <2>3 DEF Idle
    <3> QED
      BY <2>1, <3>1, <3>2 DEF Calm, KindOk, PastCheck
  <2> QED
    BY <2>1, <2>2, <2>3
<1>7. ASSUME Authorise(t)
      PROVE  Calm(t) /\ counters' = counters
  <2>1. counters' = counters /\ (Finish(t) \/ Goto(t, "act"))
    BY <1>7 DEF Authorise
  <2> QED
    BY <2>1, FinishCalm, GotoCalm
<1> QED
  BY <1>1, <1>2, <1>3, <1>4, <1>5, <1>6, <1>7

LEMMA ActIsCalm ==
    ASSUME IInv, CountInv, NEW t \in Threads,
           \/ ChangePassword(t) \/ DeleteOtherSessions(t)
           \/ \E e \in Emails :
                \/ \E s \in Statuses : SetUserStatus(t, e, s)
                \/ \E r \in Roles, on \in BOOLEAN : SetUserGlobalRole(t, e, r, on)
                \/ CreateFriendRequest(t, e)
                \/ DeleteFriendship(t, e)
           \/ \E i \in DOMAIN db.requests, s \in RequestStatuses \ {"pending"} :
                HandleFriendRequest(t, i, s)
           \/ \E ms \in {0, MaxMs - 1}, rs \in Reports : SyncStudyStats(t, ms, rs)
    PROVE  Calm(t) /\ counters' = counters
<1>1. "idle" \in NextPcs /\ "others" \in NextPcs
  BY DEF NextPcs
<1>2. ASSUME NEW ss, NEW pc \in {"idle", "others"}, Perform(t, ss, pc),
             threads[t].kind \notin Credentials
      PROVE  Calm(t)
  BY <1>1, <1>2, PerformCalm
<1>3. ASSUME Refuse(t)
      PROVE  Calm(t)
  BY <1>3, FinishCalm DEF Refuse
<1>4. CASE DeleteOtherSessions(t)
  <2>1. PICK s : Perform(t, <<s>>, "idle") /\ counters' = counters
    BY <1>4 DEF DeleteOtherSessions
  <2>2. AtOnce(<<s>>)
    BY OneStatement DEF AtOnce
  <2> QED
    BY <1>1, <2>1, <2>2, PerformCalm
<1>5. CASE ChangePassword(t)
  BY <1>2, <1>3, <1>5 DEF ChangePassword, Credentials
<1>6. ASSUME NEW e \in Emails,
             \/ \E s \in Statuses : SetUserStatus(t, e, s)
             \/ \E r \in Roles, on \in BOOLEAN : SetUserGlobalRole(t, e, r, on)
      PROVE  Calm(t) /\ counters' = counters
  BY <1>2, <1>3, <1>6 DEF SetUserStatus, SetUserGlobalRole, Credentials
<1>7. ASSUME NEW e \in Emails, CreateFriendRequest(t, e) \/ DeleteFriendship(t, e)
      PROVE  Calm(t) /\ counters' = counters
  BY <1>2, <1>3, <1>7 DEF CreateFriendRequest, DeleteFriendship, Credentials
<1>8. ASSUME NEW i, NEW s, HandleFriendRequest(t, i, s)
      PROVE  Calm(t) /\ counters' = counters
  BY <1>2, <1>3, <1>8 DEF HandleFriendRequest, Credentials
<1>9. ASSUME NEW ms, NEW rs, SyncStudyStats(t, ms, rs)
      PROVE  Calm(t) /\ counters' = counters
  BY <1>2, <1>9 DEF SyncStudyStats, Credentials
<1> QED
  BY <1>4, <1>5, <1>6, <1>7, <1>8, <1>9

LEMMA WriteIsCalm ==
    ASSUME IInv, CountInv, NEW t \in Threads, Write(t) \/ Break(t)
    PROVE  Calm(t) /\ counters' = counters
<1>1. DOMAIN threads = Threads /\ DOMAIN threads[t] = DOMAIN Idle /\ KindOk(threads[t])
      /\ ThreadOk(threads[t])
  BY DEF IInv, TypeOK, ThreadOk, CountInv
<1>2. counters' = counters /\ threads[t].pc = "write"
  BY DEF Write, Break
<1>3. CASE threads' = threads
  BY <1>1, <1>2, <1>3 DEF Calm, PastCheck
<1>4. CASE Finish(t)
  BY <1>2, <1>4, FinishCalm
<1>5. ASSUME NEW pc, threads' = [threads EXCEPT ![t].pc = pc, ![t].next = None],
             pc \in {"record", "session", "others"}, pc # "others" => threads[t].kind \in Credentials
      PROVE  Calm(t)
  <2>1. /\ DOMAIN threads' = Threads /\ \A u \in Threads \ {t} : threads'[u] = threads[u]
        /\ threads'[t].pc = pc /\ threads'[t].kind = threads[t].kind
        /\ threads'[t].user = threads[t].user
    BY <1>1, <1>5 DEF Idle
  <2> QED
    BY <1>2, <1>5, <2>1 DEF Calm, KindOk, PastCheck
<1>6. CASE Break(t) /\ threads[t].kind = "register"
  <2>1. threads' = [threads EXCEPT ![t].pc = "record", ![t].next = None]
    BY <1>6 DEF Break
  <2> QED
    BY <1>2, <1>5, <1>6, <2>1 DEF Credentials
<1>7. CASE Write(t) /\ ~(Len(todo) > 1)
  <2> DEFINE pc == threads[t].next
  <2>1. threads' = [threads EXCEPT
             ![t] = IF @.next = "idle" THEN Idle
                    ELSE [@ EXCEPT !.pc = threads[t].next, !.next = None]]
    BY <1>7 DEF Write
  <2>2. pc \in NextPcs
    BY <1>1, <1>2 DEF ThreadOk
  <2>3. CASE pc = "idle"
    BY <1>2, <1>4, <2>1, <2>3 DEF Finish
  <2>4. CASE pc # "idle"
    <3>1. threads' = [threads EXCEPT ![t].pc = pc, ![t].next = None]
      BY <2>1, <2>4
    <3>2. pc \in {"record", "session", "others"}
          /\ (pc # "others" => threads[t].kind \in Credentials)
      BY <1>1, <1>2, <2>2, <2>4 DEF NextPcs, KindOk
    <3> QED
      BY <1>2, <1>5, <3>1, <3>2
  <2> QED
    BY <2>3, <2>4
<1> QED
  BY <1>2, <1>3, <1>4, <1>6, <1>7 DEF Write, Break

LEMMA InitCountInv == Init => CountInv
<1> SUFFICES ASSUME Init PROVE CountInv
  OBVIOUS
<1>1. counters = [b \in Buckets |-> None] /\ threads = [t \in Threads |-> Idle]
  BY DEF Init
<1>2. \A t \in Threads : KindOk(threads[t])
  BY <1>1, IdleOk DEF KindOk
<1> QED
  BY <1>1, <1>2 DEF CountInv

LEMMA StepCountInv == IInv /\ CountInv /\ [Next]_vars => CountInv'
<1> SUFFICES ASSUME IInv, CountInv, [Next]_vars PROVE CountInv'
  OBVIOUS
<1>1. CASE UNCHANGED <<counters, threads>>
  BY <1>1 DEF CountInv
<1>2. ASSUME NEW t \in Threads, CheckAllowed(t) \/ RecordAttempt(t)
      PROVE  CountInv'
  BY <1>2, CheckCounts, RecordCounts
<1>3. ASSUME NEW t \in Threads, ResetFailures(t)
      PROVE  CountInv'
  <2>1. /\ counters' = [counters EXCEPT ![<<"login_email", threads[t].user>>] = None]
        /\ threads[t].pc = "reset" /\ Goto(t, "session")
    BY <1>3 DEF ResetFailures
  <2>2. Calm(t)
    BY <2>1, GotoCalm DEF PastCheck
  <2>3. counters' \in [Buckets -> Row \cup {None}]
        /\ \A b \in Buckets : counters'[b] \in {None, counters[b]}
    BY <2>1 DEF CountInv
  <2> QED
    BY <2>2, <2>3, CalmKeeps
<1>4. ASSUME NEW t \in Threads, Calm(t) /\ counters' = counters
      PROVE  CountInv'
  BY <1>4, CalmSame
<1>5. CASE UNCHANGED vars
  BY <1>1, <1>5 DEF vars
<1>6. CASE \E k \in Tokens : Logout(k)
  BY <1>1, <1>6 DEF Logout
<1>7. CASE ExportSection \/ Restore \/ Tick
  BY <1>1, <1>7 DEF ExportSection, Restore, Tick
<1> QED
  BY <1>2, <1>3, <1>4, <1>5, <1>6, <1>7, OthersAreCalm, ActIsCalm, WriteIsCalm DEF Next

\* Guesses are bounded: however many requests arrive together, however windows start
\* and rows expire, no window of an address or an email counts more attempts than the
\* limit and one for each other request at work, although the check and the record of an
\* attempt are two transactions (check_login_allowed, record_login_failure).
THEOREM GuessesStayBounded == Spec => []GuessesAreBounded
<1>1. CountInv => GuessesAreBounded
  <2> SUFFICES ASSUME CountInv, NEW b \in Buckets, counters[b] # None
               PROVE  counters[b].count < Limit + Cardinality(Threads)
    BY DEF GuessesAreBounded
  <2>1. counters[b].count \in Nat
        /\ counters[b].count + Cardinality(Late(threads, b)) < Limit + Cardinality(Threads)
    BY DEF CountInv, Row
  <2>2. Limit \in Nat
    BY LimitAssumption
  <2> QED
    BY <2>1, <2>2, LateSize
<1> QED
  BY <1>1, SpecIInv, InitCountInv, StepCountInv, PTL DEF Spec

-----------------------------------------------------------------------------
(***************************************************************************)
(* Sessions that outlive what should have ended them.                      *)
(***************************************************************************)

Gone == {"suspended", "deleted"}

\* The tables once the call under way has ended.
Final == After(db, todo, Len(todo))

Own(d, e) == {k \in Tokens : d.sessions[k] # None /\ d.sessions[k].user = e}
Old(d, e) == {k \in Own(d, e) : d.sessions[k].proved < d.secret[e]}

\* A login that has passed the password check, a registration that has its account.
HasPassed(r) == r.pc \in {"reset", "session"} \/ (r.pc = "write" /\ r.next = "session")
Passed(ts, e) == {t \in Threads : HasPassed(ts[t]) /\ ts[t].user = e}
Overtaken(d, ts, e) == {t \in Passed(ts, e) : ts[t].proved < d.secret[e]}

\* A change of the password that has not yet ended the other sessions.
IsChanging(r) == r.pc = "others" \/ (r.pc = "write" /\ r.next = "others")
Changing(ts, e) == {t \in Threads : IsChanging(ts[t]) /\ ts[t].user = e}

HasAccount(r) == r.pc \in {"authorise", "act", "others", "reset", "session", "write"}

\* The lock is held by a request inside a call, which creates no session.
Holding ==
    /\ lock # None => lock \in Threads /\ threads[lock].pc = "write"
    /\ \A i \in DOMAIN todo : todo[i].op \notin {"session", "logout"}

KnownUsers ==
    /\ \A e \in Emails : e \notin Final.users => Final.secret[e] = 0
    /\ \A k \in Tokens : db.sessions[k] # None => db.sessions[k].user \in Final.users
    /\ \A t \in Threads : HasAccount(threads[t]) => threads[t].user \in Final.users

\* What the call under way is about to do to an account.
Coming(e) ==
    /\ Changing(threads, e) # {} => Final.secret[e] >= 1
    /\ \A k \in 0..Len(todo) :
         /\ After(db, todo, k).secret[e] # Final.secret[e] => Changing(threads, e) # {}
         /\ Final.profile[e] \in Gone /\ After(db, todo, k).profile[e] \notin Gone =>
              Own(Final, e) = {} /\ lock # None /\ threads[lock].next # "session"

\* The sessions that outlived a change of the password or a suspension, with
\* the requests that may still create one.
Few(d, ts, e) ==
    /\ Changing(ts, e) = {} =>
         Cardinality(Old(d, e)) + Cardinality(Overtaken(d, ts, e))
           <= d.secret[e] * (Cardinality(Threads) - 1)
    /\ d.profile[e] \in Gone =>
         Cardinality(Own(d, e)) + Cardinality(Passed(ts, e)) < Cardinality(Threads)

Undamaged == broken = 0 /\ ~restored

SessionInv ==
    /\ Holding
    /\ Undamaged => KnownUsers /\ \A e \in Emails : Coming(e) /\ Few(Final, threads, e)

(* Counting. *)

LEMMA SessionSizes ==
    ASSUME NEW d, NEW ts, NEW e
    PROVE  /\ IsFiniteSet(Own(d, e)) /\ Cardinality(Own(d, e)) \in Nat
           /\ IsFiniteSet(Old(d, e)) /\ Cardinality(Old(d, e)) \in Nat
           /\ IsFiniteSet(Passed(ts, e)) /\ Cardinality(Passed(ts, e)) \in Nat
           /\ IsFiniteSet(Overtaken(d, ts, e)) /\ Cardinality(Overtaken(d, ts, e)) \in Nat
           /\ IsFiniteSet(Threads) /\ Cardinality(Threads) \in Nat
<1>1. IsFiniteSet(Tokens)
  BY LimitAssumption, FS_Interval DEF Tokens
<1>2. Own(d, e) \in SUBSET Tokens /\ Old(d, e) \in SUBSET Tokens
  BY DEF Own, Old
<1>3. Passed(ts, e) \in SUBSET Threads /\ Overtaken(d, ts, e) \in SUBSET Threads
  BY DEF Passed, Overtaken
<1> QED
  BY <1>1, <1>2, <1>3, ThreadAssumption, FS_Subset, FS_CardinalityType

LEMMA Smaller ==
    ASSUME NEW S, NEW T, IsFiniteSet(T), S \subseteq T
    PROVE  Cardinality(S) <= Cardinality(T)
BY FS_Subset

LEMMA OneMore ==
    ASSUME NEW S, IsFiniteSet(S), NEW x, NEW T, T \subseteq S \cup {x}
    PROVE  Cardinality(T) <= Cardinality(S) + 1
<1>1. IsFiniteSet(S \cup {x})
  BY FS_AddElement
<1>2. Cardinality(S) \in Nat /\ Cardinality(S \cup {x}) \in Nat
  BY <1>1, FS_CardinalityType
<1>3. Cardinality(S \cup {x}) = Cardinality(S) \/ Cardinality(S \cup {x}) = Cardinality(S) + 1
  BY FS_AddElement
<1>4. Cardinality(T) <= Cardinality(S \cup {x}) /\ IsFiniteSet(T)
  BY <1>1, FS_Subset
<1>5. Cardinality(T) \in Nat
  BY <1>4, FS_CardinalityType
<1> QED
  BY <1>2, <1>3, <1>4, <1>5

LEMMA OneLess ==
    ASSUME NEW S, IsFiniteSet(S), NEW x \in S
    PROVE  IsFiniteSet(S \ {x}) /\ Cardinality(S \ {x}) = Cardinality(S) - 1
BY FS_RemoveElement

\* Nothing happens to an account that could leave it more sessions.
Untouched(f, g, e) ==
    /\ g.secret[e] = f.secret[e] /\ g.profile[e] = f.profile[e]
    /\ \A k \in Own(g, e) : g.sessions[k] = f.sessions[k]

\* Between two states no request has come to create a session of the account, and no
\* change of its password has come or gone.
SameWork(ts, us, e) ==
    /\ \A u \in Passed(us, e) : u \in Passed(ts, e) /\ us[u].proved = ts[u].proved
    /\ Changing(us, e) = Changing(ts, e)

LEMMA FewerSets ==
    ASSUME NEW f, NEW g, NEW ts, NEW us, NEW e, Untouched(f, g, e), SameWork(ts, us, e)
    PROVE  /\ Own(g, e) \subseteq Own(f, e) /\ Old(g, e) \subseteq Old(f, e)
           /\ Passed(us, e) \subseteq Passed(ts, e)
           /\ Overtaken(g, us, e) \subseteq Overtaken(f, ts, e)
<1>1. Own(g, e) \subseteq Own(f, e)
  BY DEF Untouched, Own
<1>2. Old(g, e) \subseteq Old(f, e)
  <2> SUFFICES ASSUME NEW k \in Old(g, e) PROVE k \in Old(f, e)
    OBVIOUS
  <2>1. k \in Own(g, e) /\ g.sessions[k].proved < g.secret[e]
    BY DEF Old
  <2>2. g.sessions[k] = f.sessions[k] /\ g.secret[e] = f.secret[e] /\ k \in Own(f, e)
    BY <1>1, <2>1 DEF Untouched
  <2> QED
    BY <2>1, <2>2 DEF Old
<1>3. Passed(us, e) \subseteq Passed(ts, e)
  BY DEF SameWork
<1>4. Overtaken(g, us, e) \subseteq Overtaken(f, ts, e)
  <2> SUFFICES ASSUME NEW u \in Overtaken(g, us, e) PROVE u \in Overtaken(f, ts, e)
    OBVIOUS
  <2>1. u \in Passed(us, e) /\ us[u].proved < g.secret[e]
    BY DEF Overtaken
  <2>2. us[u].proved = ts[u].proved /\ g.secret[e] = f.secret[e] /\ u \in Passed(ts, e)
    BY <2>1 DEF SameWork, Untouched
  <2> QED
    BY <2>1, <2>2 DEF Overtaken
<1> QED
  BY <1>1, <1>2, <1>3, <1>4

LEMMA FewKept ==
    ASSUME NEW f, NEW g, NEW ts, NEW us, NEW e, f.secret[e] \in Nat,
           Few(f, ts, e), Untouched(f, g, e), SameWork(ts, us, e)
    PROVE  Few(g, us, e)
<1>1. /\ Cardinality(Own(g, e)) <= Cardinality(Own(f, e))
      /\ Cardinality(Old(g, e)) <= Cardinality(Old(f, e))
      /\ Cardinality(Passed(us, e)) <= Cardinality(Passed(ts, e))
      /\ Cardinality(Overtaken(g, us, e)) <= Cardinality(Overtaken(f, ts, e))
  BY FewerSets, SessionSizes, Smaller
<1>2. g.secret[e] = f.secret[e] /\ g.profile[e] = f.profile[e]
      /\ Changing(us, e) = Changing(ts, e)
  BY DEF Untouched, SameWork
<1>3. /\ Cardinality(Own(g, e)) \in Nat /\ Cardinality(Own(f, e)) \in Nat
      /\ Cardinality(Old(g, e)) \in Nat /\ Cardinality(Old(f, e)) \in Nat
      /\ Cardinality(Passed(us, e)) \in Nat /\ Cardinality(Passed(ts, e)) \in Nat
      /\ Cardinality(Overtaken(g, us, e)) \in Nat /\ Cardinality(Overtaken(f, ts, e)) \in Nat
      /\ Cardinality(Threads) \in Nat
  BY SessionSizes
<1>4. Changing(us, e) = {} =>
        Cardinality(Old(g, e)) + Cardinality(Overtaken(g, us, e))
          <= g.secret[e] * (Cardinality(Threads) - 1)
  <2> SUFFICES ASSUME Changing(us, e) = {}
               PROVE  Cardinality(Old(g, e)) + Cardinality(Overtaken(g, us, e))
                        <= g.secret[e] * (Cardinality(Threads) - 1)
    OBVIOUS
  <2> DEFINE m == g.secret[e] * (Cardinality(Threads) - 1)
  <2>1. Cardinality(Old(f, e)) + Cardinality(Overtaken(f, ts, e)) <= m
    BY <1>2 DEF Few
  <2>2. m \in Int
    BY <1>2, <1>3
  <2> HIDE DEF m
  <2>3. Cardinality(Old(g, e)) + Cardinality(Overtaken(g, us, e)) <= m
    BY <1>1, <1>3, <2>1, <2>2
  <2> QED
    BY <2>3 DEF m
<1>5. g.profile[e] \in Gone =>
        Cardinality(Own(g, e)) + Cardinality(Passed(us, e)) < Cardinality(Threads)
  BY <1>1, <1>2, <1>3 DEF Few
<1> QED
  BY <1>4, <1>5 DEF Few

LEMMA UntouchedSelf ==
    ASSUME NEW d, NEW e
    PROVE  Untouched(d, d, e)
BY DEF Untouched

\* What Final is: tables, and those of the store when no call is under way.
LEMMA FinalTables ==
    ASSUME IInv
    PROVE  /\ Tables(Final) /\ db.users \subseteq Final.users
           /\ \A e \in Emails : Final.secret[e] \in Nat
           /\ lock = None => Final = db
<1>1. /\ Tables(db) /\ IsSeq(todo) /\ Len(todo) \in 0..3
      /\ \A i \in DOMAIN todo : StmtOk(todo[i])
  BY DEF IInv, TypeOK
<1>2. DOMAIN todo = 1..Len(todo) /\ Len(todo) \in 0..Len(todo)
  BY <1>1 DEF IsSeq
<1>3. Tables(Final) /\ db.users \subseteq Final.users
  BY <1>1, <1>2, AfterTypes DEF Final
<1>4. lock = None => Final = db
  BY LockFree DEF Final, After
<1> QED
  BY <1>3, <1>4 DEF Tables

-----------------------------------------------------------------------------
(* A request moves and the tables stay. *)

LEMMA MoveSessions ==
    ASSUME IInv, SessionInv, NEW t \in Threads,
           DOMAIN threads' = Threads, \A u \in Threads \ {t} : threads'[u] = threads[u],
           threads[t].pc \notin {"others", "write"}, threads'[t].pc \notin {"others", "write"},
           UNCHANGED <<db, lock, todo>>, Undamaged' => Undamaged,
           HasPassed(threads'[t]) =>
             /\ HasPassed(threads[t]) /\ threads'[t].user = threads[t].user
             /\ threads'[t].proved = threads[t].proved,
           HasAccount(threads'[t]) /\ Undamaged => threads'[t].user \in Final.users
    PROVE  SessionInv'
<1>1. Final' = Final /\ \A k : After(db', todo', k) = After(db, todo, k)
  BY DEF Final
<1>2. Holding'
  BY DEF SessionInv, Holding
<1>3. ASSUME Undamaged'
      PROVE  KnownUsers'
  <2>1. KnownUsers /\ Undamaged
    BY <1>3 DEF SessionInv
  <2>2. \A u \in Threads : HasAccount(threads'[u]) => threads'[u].user \in Final.users
    BY <2>1 DEF KnownUsers
  <2> QED
    BY <1>1, <2>1, <2>2 DEF KnownUsers
<1>4. ASSUME Undamaged', NEW e \in Emails
      PROVE  Coming(e)' /\ Few(Final, threads, e)'
  <2>1. Coming(e) /\ Few(Final, threads, e) /\ Holding
    BY <1>4 DEF SessionInv
  <2>2. SameWork(threads, threads', e)
    BY DEF SameWork, Passed, Changing, IsChanging
  <2>3. Few(Final, threads', e)
    BY <2>1, <2>2, UntouchedSelf, FewKept, FinalTables
  <2>4. Changing(threads', e) = Changing(threads, e)
    BY <2>2 DEF SameWork
  <2>5. lock # None => threads'[lock] = threads[lock]
    BY <2>1 DEF Holding
  <2>6. Coming(e)'
    BY <1>1, <2>1, <2>4, <2>5 DEF Coming
  <2> QED
    BY <1>1, <2>3, <2>6
<1> QED
  BY <1>2, <1>3, <1>4 DEF SessionInv

-----------------------------------------------------------------------------
(* PostgreSQL commits a statement: the call ends where it was to end. *)

\* A statement that is not "session" leaves no session of another user.
LEMMA SameHolders ==
    ASSUME NEW d, Tables(d), NEW s, StmtOk(s), s.op \notin {"session", "logout"}, NEW k \in Tokens,
           Apply(d, s).sessions[k] # None
    PROVE  d.sessions[k] # None /\ Apply(d, s).sessions[k].user = d.sessions[k].user
<1>1. CASE s.op # "end"
  <2>1. Apply(d, s).sessions = d.sessions
    BY <1>1, ApplyTypes
  <2> QED
    BY <2>1
<1>2. CASE s.op = "end"
  <2>1. Apply(d, s).sessions[k] =
          IF d.sessions[k] = None \/ d.sessions[k].user # s.who THEN d.sessions[k]
          ELSE IF k = s.arg THEN [d.sessions[k] EXCEPT !.proved = d.secret[s.who]]
          ELSE None
    <3>1. Apply(d, s).sessions = Ended(d, s.who, s.arg)
      BY <1>2, SessionStatements
    <3> QED
      BY <3>1 DEF Ended
  <2>2. d.sessions[k] \in SessionRow \cup {None}
    BY DEF Tables
  <2> QED
    BY <2>1, <2>2 DEF SessionRow
<1> QED
  BY <1>1, <1>2

LEMMA WriteSessions ==
    ASSUME IInv, SessionInv, NEW t \in Threads, Write(t)
    PROVE  SessionInv'
<1>1. threads[t].pc = "write" /\ lock = t /\ lock # None
  BY NoneAssumption DEF Write, IInv, Locking
<1>2. /\ IsSeq(todo) /\ Len(todo) \in 1..3 /\ \A i \in DOMAIN todo : StmtOk(todo[i])
      /\ DOMAIN todo = 1..Len(todo) /\ Tables(db) /\ DOMAIN threads = Threads
      /\ ThreadOk(threads[t])
  BY <1>1 DEF IInv, TypeOK, Locking, IsSeq
<1>3. db' = Apply(db, Head(todo)) /\ todo' = Tail(todo) /\ UNCHANGED <<restored, broken>>
  BY DEF Write, Rest
<1>4. /\ Len(todo') = Len(todo) - 1 /\ Head(todo) = todo[1]
      /\ \A i \in DOMAIN todo' : i + 1 \in DOMAIN todo /\ todo'[i] = todo[i + 1]
      /\ \A k \in 0..Len(todo') : After(db', todo', k) = After(db, todo, k + 1)
  BY <1>2, <1>3, RestOfCall
<1>5. Final' = Final
  BY <1>2, <1>4 DEF Final
<1>6. Len(todo) > 1 => UNCHANGED <<lock, threads>>
  BY DEF Write
<1>7. ~(Len(todo) > 1) =>
        /\ lock' = None /\ Len(todo') = 0
        /\ threads' = [threads EXCEPT
                ![t] = IF @.next = "idle" THEN Idle
                       ELSE [@ EXCEPT !.pc = threads[t].next, !.next = None]]
  BY <1>2, <1>4 DEF Write
<1>8. /\ DOMAIN threads' = Threads /\ \A u \in Threads \ {t} : threads'[u] = threads[u]
      /\ HasPassed(threads'[t]) => HasPassed(threads[t])
      /\ IsChanging(threads'[t]) <=> IsChanging(threads[t])
      /\ HasAccount(threads'[t]) => threads'[t].user = threads[t].user
                                    /\ threads'[t].proved = threads[t].proved
  <2>1. threads[t].next \in NextPcs
    BY <1>1, <1>2 DEF ThreadOk
  <2>2. CASE Len(todo) > 1
    BY <1>2, <1>6, <2>2
  <2>3. CASE ~(Len(todo) > 1)
    <3>1. CASE threads[t].next = "idle"
      <4>1. \A u \in Threads \ {t} : threads'[u] = threads[u]
        BY <1>2, <1>7, <2>3
      <4>2. threads'[t].pc = "idle" /\ DOMAIN threads' = Threads
        BY <1>2, <1>7, <2>3, <3>1, IdleOk
      <4> QED
        BY <1>1, <3>1, <4>1, <4>2 DEF HasPassed, IsChanging, HasAccount
    <3>2. CASE threads[t].next # "idle"
      <4>1. threads'[t] = [threads[t] EXCEPT !.pc = threads[t].next, !.next = None]
        BY <1>2, <1>7, <2>3, <3>2
      <4>2. /\ threads'[t].pc = threads[t].next /\ threads'[t].user = threads[t].user
            /\ threads'[t].proved = threads[t].proved
        BY <1>2, <4>1 DEF ThreadOk, Idle
      <4>3. DOMAIN threads' = Threads /\ \A u \in Threads \ {t} : threads'[u] = threads[u]
        BY <1>2, <1>7, <2>3
      <4> QED
        BY <1>1, <2>1, <3>2, <4>2, <4>3 DEF HasPassed, IsChanging, NextPcs
    <3> QED
      BY <3>1, <3>2
  <2> QED
    BY <2>2, <2>3
<1>9. Holding'
  <2>1. \A i \in DOMAIN todo' : todo'[i].op \notin {"session", "logout"}
    BY <1>4 DEF SessionInv, Holding
  <2>2. lock' # None => lock' \in Threads /\ threads'[lock'].pc = "write"
    BY <1>6, <1>7 DEF SessionInv, Holding
  <2> QED
    BY <2>1, <2>2 DEF Holding
<1>10. HasAccount(threads[t]) /\ (IsChanging(threads[t]) => HasAccount(threads'[t]))
       /\ (HasPassed(threads'[t]) => HasAccount(threads'[t]))
  BY <1>1, <1>8 DEF HasAccount, IsChanging, HasPassed
<1>11. ASSUME Undamaged'
       PROVE  KnownUsers'
  <2>1. KnownUsers /\ Holding
    BY <1>3, <1>11 DEF SessionInv, Undamaged
  <2>2. \A u \in Threads : HasAccount(threads'[u]) => threads'[u].user \in Final.users
    BY <1>8, <1>10, <2>1 DEF KnownUsers
  <2>3. ASSUME NEW k \in Tokens, db'.sessions[k] # None
        PROVE  db'.sessions[k].user \in Final.users
    <3>1. StmtOk(todo[1]) /\ todo[1].op \notin {"session", "logout"}
      BY <1>2, <2>1 DEF Holding
    <3>2. db.sessions[k] # None /\ db'.sessions[k].user = db.sessions[k].user
      BY <1>2, <1>3, <1>4, <2>3, <3>1, SameHolders
    <3> QED
      BY <2>1, <3>2 DEF KnownUsers
  <2> QED
    BY <1>5, <2>1, <2>2, <2>3 DEF KnownUsers
<1>12. ASSUME Undamaged', NEW e \in Emails
       PROVE  Coming(e)' /\ Few(Final, threads, e)'
  <2>1. Coming(e) /\ Few(Final, threads, e)
    BY <1>3, <1>12 DEF SessionInv, Undamaged
  <2>2. SameWork(threads, threads', e)
    BY <1>8, <1>10 DEF SameWork, Passed, Changing
  <2>3. Few(Final, threads', e)
    BY <2>1, <2>2, UntouchedSelf, FewKept, FinalTables
  <2>4. Changing(threads', e) = Changing(threads, e)
    BY <2>2 DEF SameWork
  <2>5. ASSUME NEW k \in 0..Len(todo')
        PROVE  /\ After(db', todo', k).secret[e] # Final.secret[e] => Changing(threads', e) # {}
               /\ Final.profile[e] \in Gone /\ After(db', todo', k).profile[e] \notin Gone =>
                    Own(Final, e) = {} /\ lock' # None /\ threads'[lock'].next # "session"
    <3>1. k + 1 \in 0..Len(todo) /\ After(db', todo', k) = After(db, todo, k + 1)
      BY <1>2, <1>4
    <3>2. CASE Len(todo) > 1
      BY <1>6, <2>1, <2>4, <3>1, <3>2 DEF Coming
    <3>3. CASE ~(Len(todo) > 1)
      <4>1. k = Len(todo')
        BY <1>7, <3>3
      <4>2. After(db', todo', k) = Final
        BY <1>5, <4>1 DEF Final
      <4> QED
        BY <4>2
    <3> QED
      BY <3>2, <3>3
  <2>6. Coming(e)'
    BY <1>5, <2>1, <2>4, <2>5 DEF Coming
  <2> QED
    BY <1>5, <2>3, <2>6
<1> QED
  BY <1>9, <1>11, <1>12 DEF SessionInv

-----------------------------------------------------------------------------
(* A call of the store, at once or begun. *)

LEMMA PerformMoves ==
    ASSUME IInv, NEW t \in Threads, NEW ss, Len(ss) \in 1..3, NEW pc \in NextPcs,
           Perform(t, ss, pc)
    PROVE  /\ lock = None /\ Final = db /\ Len(todo) = 0 /\ threads[t].pc # "write"
           /\ Final' = After(db, ss, Len(ss))
           /\ DOMAIN threads' = Threads /\ \A u \in Threads \ {t} : threads'[u] = threads[u]
           /\ HasPassed(threads'[t]) <=> pc = "session"
           /\ IsChanging(threads'[t]) <=> pc = "others"
           /\ HasAccount(threads'[t]) => /\ threads'[t].user = threads[t].user
                                         /\ threads'[t].proved = threads[t].proved
           /\ \/ db' = Final' /\ UNCHANGED <<lock, todo>> /\ AtOnce(ss)
              \/ /\ db' = db /\ todo' = ss /\ lock' = t /\ ~AtOnce(ss)
                 /\ threads'[t].pc = "write" /\ threads'[t].next = pc
<1>1. lock = None
  BY DEF Perform
<1>2. Final = db /\ Len(todo) = 0 /\ threads[t].pc # "write"
  BY <1>1, FinalTables, LockFree
<1>3. DOMAIN threads = Threads /\ ThreadOk(threads[t])
  BY DEF IInv, TypeOK
<1>4. CASE AtOnce(ss)
  <2>1. /\ db' = ApplyAll(db, ss) /\ UNCHANGED <<lock, todo>>
        /\ threads' = [threads EXCEPT ![t] = IF pc = "idle" THEN Idle ELSE [@ EXCEPT !.pc = pc]]
    BY <1>4 DEF Perform
  <2>2. db' = After(db, ss, Len(ss)) /\ Final' = db'
    BY <1>2, <2>1, AllIsAfter DEF Final, After
  <2>3. DOMAIN threads' = Threads /\ \A u \in Threads \ {t} : threads'[u] = threads[u]
    BY <1>3, <2>1
  <2>4. CASE pc = "idle"
    <3>1. threads'[t].pc = "idle"
      BY <1>3, <2>1, <2>4, IdleOk
    <3> QED
      BY <1>1, <1>2, <1>4, <2>1, <2>2, <2>3, <2>4, <3>1 DEF HasPassed, IsChanging, HasAccount
  <2>5. CASE pc # "idle"
    <3>1. threads'[t] = [threads[t] EXCEPT !.pc = pc]
      BY <1>3, <2>1, <2>5
    <3>2. /\ threads'[t].pc = pc /\ threads'[t].user = threads[t].user
          /\ threads'[t].proved = threads[t].proved
      BY <1>3, <3>1 DEF ThreadOk, Idle
    <3> QED
      BY <1>1, <1>2, <1>4, <2>1, <2>2, <2>3, <2>5, <3>2 DEF HasPassed, IsChanging, NextPcs
  <2> QED
    BY <2>4, <2>5
<1>5. CASE ~AtOnce(ss)
  <2>1. /\ db' = db /\ lock' = t /\ todo' = ss
        /\ threads' = [threads EXCEPT ![t].pc = "write", ![t].next = pc]
    BY <1>5 DEF Perform
  <2>2. /\ DOMAIN threads' = Threads /\ \A u \in Threads \ {t} : threads'[u] = threads[u]
        /\ threads'[t].pc = "write" /\ threads'[t].next = pc
        /\ threads'[t].user = threads[t].user /\ threads'[t].proved = threads[t].proved
    BY <1>3, <2>1 DEF ThreadOk, Idle
  <2>3. Final' = After(db, ss, Len(ss))
    BY <2>1 DEF Final
  <2> QED
    BY <1>1, <1>2, <1>5, <2>1, <2>2, <2>3 DEF HasPassed, IsChanging
<1> QED
  BY <1>4, <1>5

LEMMA PerformHolds ==
    ASSUME IInv, SessionInv, NEW t \in Threads, NEW ss, Len(ss) \in 1..3, NEW pc \in NextPcs,
           Perform(t, ss, pc),
           AtOnce(ss) \/ \A i \in DOMAIN ss : ss[i].op \notin {"session", "logout"}
    PROVE  Holding'
<1>1. lock = None /\ Holding
  BY DEF Perform, SessionInv
<1>2. CASE UNCHANGED <<lock, todo>>
  BY <1>1, <1>2 DEF Holding
<1>3. CASE todo' = ss /\ lock' = t /\ ~AtOnce(ss) /\ threads'[t].pc = "write"
  BY <1>3 DEF Holding
<1> QED
  BY <1>2, <1>3, PerformMoves

LEMMA PerformKnown ==
    ASSUME IInv, SessionInv, Undamaged, NEW t \in Threads, NEW ss, Len(ss) \in 1..3,
           NEW pc \in NextPcs, Perform(t, ss, pc),
           NEW g, g = After(db, ss, Len(ss)), db.users \subseteq g.users,
           \A e \in Emails : e \notin g.users => g.secret[e] = 0,
           \A k \in Tokens : g.sessions[k] # None => g.sessions[k].user \in g.users,
           threads[t].user \in g.users
    PROVE  KnownUsers'
<1>1. KnownUsers /\ Final = db /\ Final' = g
  BY PerformMoves DEF SessionInv
<1>2. \A u \in Threads : HasAccount(threads'[u]) => threads'[u].user \in g.users
  BY <1>1, PerformMoves DEF KnownUsers
<1>3. \A k \in Tokens : db'.sessions[k] # None => db'.sessions[k].user \in g.users
  BY <1>1, PerformMoves DEF KnownUsers
<1> QED
  BY <1>1, <1>2, <1>3 DEF KnownUsers

\* The tables seen in the middle of a call are those after some of its statements.
LEMMA PerformSeen ==
    ASSUME IInv, NEW t \in Threads, NEW ss, Len(ss) \in 1..3, NEW pc \in NextPcs,
           Perform(t, ss, pc), NEW k \in 0..Len(todo')
    PROVE  \/ After(db', todo', k) = Final'
           \/ /\ k \in 0..Len(ss) /\ After(db', todo', k) = After(db, ss, k)
              /\ lock' = t /\ lock' # None /\ threads'[lock'].next = pc
<1>1. CASE db' = Final' /\ UNCHANGED todo
  <2>1. k = 0
    BY <1>1, PerformMoves
  <2> QED
    BY <1>1, <2>1 DEF After
<1>2. CASE db' = db /\ todo' = ss /\ lock' = t /\ threads'[t].next = pc
  BY <1>2, NoneAssumption
<1> QED
  BY <1>1, <1>2, PerformMoves

\* A call that leaves the password of an account alone and does not end it.
LEMMA PerformComing ==
    ASSUME IInv, SessionInv, Undamaged, NEW t \in Threads, NEW ss, Len(ss) \in 1..3,
           NEW pc \in NextPcs, Perform(t, ss, pc),
           NEW e \in Emails, NEW g, g = After(db, ss, Len(ss)),
           \A j \in 0..Len(ss) : After(db, ss, j).secret[e] = db.secret[e],
           \/ \A j \in 0..Len(ss) : After(db, ss, j).profile[e] = db.profile[e]
           \/ g.profile[e] \notin Gone,
           Changing(threads', e) # {} => Changing(threads, e) # {}
    PROVE  Coming(e)'
<1>1. Coming(e) /\ Final = db /\ Final' = g
  BY PerformMoves DEF SessionInv
<1>2. Len(ss) \in 0..Len(ss)
  OBVIOUS
<1>3. g.secret[e] = db.secret[e]
  BY <1>2
<1>4. Changing(threads', e) # {} => g.secret[e] >= 1
  BY <1>1, <1>3 DEF Coming
<1>5. ASSUME NEW k \in 0..Len(todo')
      PROVE  /\ After(db', todo', k).secret[e] = g.secret[e]
             /\ g.profile[e] \in Gone => After(db', todo', k).profile[e] = g.profile[e]
  <2>1. CASE After(db', todo', k) = g
    BY <2>1
  <2>2. CASE k \in 0..Len(ss) /\ After(db', todo', k) = After(db, ss, k)
    BY <1>2, <1>3, <2>2
  <2> QED
    BY <1>1, <2>1, <2>2, PerformSeen
<1> QED
  BY <1>1, <1>4, <1>5 DEF Coming

\* What becomes of an account that the call does not touch.
LEMMA PerformOther ==
    ASSUME IInv, SessionInv, Undamaged, NEW t \in Threads, NEW ss, Len(ss) \in 1..3,
           NEW pc \in NextPcs, Perform(t, ss, pc),
           NEW e \in Emails, \A j \in 0..Len(ss) : Untouched(db, After(db, ss, j), e),
           \/ threads[t].user # e
           \/ pc \in {"idle", "record"} /\ threads[t].pc # "others"
    PROVE  Coming(e)' /\ Few(Final, threads, e)'
<1> DEFINE g == After(db, ss, Len(ss))
<1>1. Coming(e) /\ Few(db, threads, e) /\ Final = db /\ Final' = g
  BY PerformMoves DEF SessionInv
<1>2. Untouched(db, g, e)
  OBVIOUS
<1> HIDE DEF g
<1>3. ~(HasPassed(threads'[t]) /\ threads'[t].user = e)
  BY PerformMoves DEF HasAccount, HasPassed
<1>4. ~(IsChanging(threads'[t]) /\ threads'[t].user = e)
  BY PerformMoves DEF HasAccount, IsChanging
<1>5. ~(IsChanging(threads[t]) /\ threads[t].user = e)
  BY PerformMoves DEF IsChanging
<1>6. SameWork(threads, threads', e)
  <2>1. \A u \in Threads \ {t} : threads'[u] = threads[u]
    BY PerformMoves
  <2> QED
    BY <1>3, <1>4, <1>5, <2>1 DEF SameWork, Passed, Changing
<1>7. Few(g, threads', e)
  <2>1. db.secret[e] \in Nat
    BY DEF IInv, TypeOK, Tables
  <2> QED
    BY <1>1, <1>2, <1>6, <2>1, FewKept
<1>8. Coming(e)'
  <2>1. \A j \in 0..Len(ss) : /\ After(db, ss, j).secret[e] = db.secret[e]
                               /\ After(db, ss, j).profile[e] = db.profile[e]
    BY DEF Untouched
  <2>2. Changing(threads', e) = Changing(threads, e)
    BY <1>6 DEF SameWork
  <2> QED
    BY <2>1, <2>2, PerformComing
<1> QED
  BY <1>1, <1>7, <1>8

-----------------------------------------------------------------------------
(* Statements that have nothing to do with sessions. *)

SameAccounts(f, g) ==
    g.users = f.users /\ g.profile = f.profile /\ g.secret = f.secret /\ g.sessions = f.sessions

Aside(s) ==
    StmtOk(s) /\ s.op \in {"grant", "revoke", "request", "handle", "befriend", "unfriend", "study"}

LEMMA AsideCall ==
    ASSUME NEW d, Tables(d), NEW ss, Len(ss) \in 1..2, DOMAIN ss = 1..Len(ss),
           \A i \in DOMAIN ss : Aside(ss[i]), NEW j \in 0..Len(ss)
    PROVE  SameAccounts(d, After(d, ss, j))
<1>1. ASSUME NEW f, Tables(f), NEW s, Aside(s)
      PROVE  SameAccounts(f, Apply(f, s)) /\ Tables(Apply(f, s))
  <2>1. StmtOk(s) /\ s.op \notin {"user", "profile", "status", "secret", "session", "logout", "end"}
    BY <1>1 DEF Aside
  <2> QED
    BY <1>1, <2>1, ApplyTypes DEF SameAccounts
<1>2. CASE j = 0
  BY <1>2 DEF After, SameAccounts
<1>3. CASE j = 1
  BY <1>1, <1>3 DEF After
<1>4. CASE j = 2
  <2> DEFINE g == Apply(d, ss[1])  h == Apply(g, ss[2])
  <2>1. SameAccounts(d, g) /\ SameAccounts(g, h)
    BY <1>1, <1>4
  <2>2. After(d, ss, j) = h
    BY <1>4 DEF After
  <2> HIDE DEF g, h
  <2> QED
    BY <2>1, <2>2 DEF SameAccounts
<1> QED
  BY <1>2, <1>3, <1>4

LEMMA AsideSessions ==
    ASSUME IInv, SessionInv, NEW t \in Threads, threads[t].pc = "act",
           UNCHANGED <<restored, broken>>,
           NEW ss, Len(ss) \in 1..2, DOMAIN ss = 1..Len(ss), \A i \in DOMAIN ss : Aside(ss[i]),
           Perform(t, ss, "idle")
    PROVE  SessionInv'
<1> DEFINE g == After(db, ss, Len(ss))
<1>1. Tables(db) /\ Len(ss) \in 1..3 /\ Len(ss) \in 0..Len(ss) /\ "idle" \in NextPcs
  BY DEF IInv, TypeOK, NextPcs
<1>2. \A j \in 0..Len(ss) : SameAccounts(db, After(db, ss, j))
  BY <1>1, AsideCall
<1>3. SameAccounts(db, g)
  BY <1>1, <1>2
<1>4. Holding'
  BY <1>1, PerformHolds DEF Aside
<1>5. ASSUME Undamaged'
      PROVE  KnownUsers'
  <2>1. Undamaged /\ KnownUsers /\ Final = db
    BY <1>1, <1>5, PerformMoves DEF Undamaged, SessionInv
  <2>2. threads[t].user \in db.users
    BY <2>1 DEF KnownUsers, HasAccount
  <2> HIDE DEF g
  <2>3. /\ db.users \subseteq g.users /\ \A e \in Emails : e \notin g.users => g.secret[e] = 0
        /\ \A k \in Tokens : g.sessions[k] # None => g.sessions[k].user \in g.users
        /\ threads[t].user \in g.users
    BY <1>3, <2>1, <2>2 DEF SameAccounts, KnownUsers
  <2> QED
    BY <1>1, <2>1, <2>3, PerformKnown DEF g
<1>6. ASSUME Undamaged', NEW e \in Emails
      PROVE  Coming(e)' /\ Few(Final, threads, e)'
  <2>1. Undamaged
    BY <1>6 DEF Undamaged
  <2>2. \A j \in 0..Len(ss) : Untouched(db, After(db, ss, j), e)
    BY <1>2 DEF SameAccounts, Untouched
  <2> QED
    BY <1>1, <2>1, <2>2, PerformOther
<1> QED
  BY <1>4, <1>5, <1>6 DEF SessionInv

LEMMA RefuseSessions ==
    ASSUME IInv, SessionInv, NEW t \in Threads, threads[t].pc = "act", Refuse(t),
           UNCHANGED <<restored, broken>>
    PROVE  SessionInv'
<1>1. UNCHANGED <<db, lock, todo>> /\ threads' = [threads EXCEPT ![t] = Idle]
  BY DEF Refuse, Store, Finish
<1>2. /\ DOMAIN threads' = Threads /\ \A u \in Threads \ {t} : threads'[u] = threads[u]
      /\ threads'[t].pc = "idle"
  BY <1>1, IdleOk DEF IInv, TypeOK
<1>3. Undamaged' => Undamaged
  BY DEF Undamaged
<1>4. ~HasPassed(threads'[t]) /\ ~HasAccount(threads'[t])
  BY <1>2 DEF HasPassed, HasAccount
<1> QED
  BY <1>1, <1>2, <1>3, <1>4, MoveSessions

LEMMA OneAside ==
    ASSUME NEW s, Aside(s)
    PROVE  /\ Len(<<s>>) \in 1..2 /\ DOMAIN <<s>> = 1..Len(<<s>>)
           /\ \A i \in DOMAIN <<s>> : Aside(<<s>>[i])
<1>1. Len(<<s>>) = 1 /\ DOMAIN <<s>> = {1} /\ <<s>>[1] = s
  BY OneStatement
<1> QED
  BY <1>1

LEMMA RoleSessions ==
    ASSUME IInv, SessionInv, NEW t \in Threads, NEW e \in Emails, NEW role \in Roles,
           NEW on \in BOOLEAN, SetUserGlobalRole(t, e, role, on)
    PROVE  SessionInv'
<1> DEFINE s == Stmt(IF on THEN "grant" ELSE "revoke", e, role)
<1>1. UNCHANGED <<restored, broken>> /\ threads[t].pc = "act"
      /\ (Refuse(t) \/ Perform(t, <<s>>, "idle"))
  BY DEF SetUserGlobalRole, Rest
<1>2. Aside(s)
  BY DEF Aside, StmtOk, Stmt
<1> HIDE DEF s
<1> QED
  BY <1>1, <1>2, OneAside, RefuseSessions, AsideSessions

LEMMA AcceptAside ==
    ASSUME NEW i, NEW p
    PROVE  /\ Len(Befriend(i, p)) \in 1..2 /\ DOMAIN Befriend(i, p) = 1..Len(Befriend(i, p))
           /\ \A k \in DOMAIN Befriend(i, p) : Aside(Befriend(i, p)[k])
<1> DEFINE a == Stmt("handle", i, "accepted")  b == Stmt("befriend", None, p)
<1>1. Aside(a) /\ Aside(b)
  BY DEF Aside, StmtOk, Stmt, RequestStatuses
<1>2. Befriend(i, p) = <<a, b>>
  BY DEF Befriend
<1> HIDE DEF a, b
<1>3. Len(<<a, b>>) = 2 /\ DOMAIN <<a, b>> = {1, 2} /\ <<a, b>>[1] = a /\ <<a, b>>[2] = b
  BY TwoStatements
<1> QED
  BY <1>1, <1>2, <1>3

LEMMA FriendSessions ==
    ASSUME IInv, SessionInv, NEW t \in Threads,
           \/ \E to \in Emails : CreateFriendRequest(t, to)
           \/ \E i \in DOMAIN db.requests, status \in RequestStatuses \ {"pending"} :
                HandleFriendRequest(t, i, status)
           \/ \E e \in Emails : DeleteFriendship(t, e)
           \/ \E ms \in {0, MaxMs - 1}, rs \in Reports : SyncStudyStats(t, ms, rs)
    PROVE  SessionInv'
<1>1. UNCHANGED <<restored, broken>> /\ threads[t].pc = "act"
  BY DEF CreateFriendRequest, HandleFriendRequest, DeleteFriendship, SyncStudyStats, Rest
<1>2. threads[t].user \in Emails
  BY <1>1, ActUser
<1>3. ASSUME NEW s, Aside(s), Perform(t, <<s>>, "idle")
      PROVE  SessionInv'
  BY <1>1, <1>3, OneAside, AsideSessions
<1>4. ASSUME NEW i, NEW p, Perform(t, Befriend(i, p), "idle")
      PROVE  SessionInv'
  BY <1>1, <1>4, AcceptAside, AsideSessions
<1>5. ASSUME NEW to \in Emails, CreateFriendRequest(t, to)
      PROVE  SessionInv'
  <2> DEFINE q == [from |-> threads[t].user, to |-> to, status |-> "pending"]
             s == Stmt("request", None, q)
  <2>1. \/ Refuse(t)
        \/ \E i, p : Perform(t, Befriend(i, p), "idle")
        \/ Perform(t, <<s>>, "idle")
    BY <1>5 DEF CreateFriendRequest
  <2>2. q \in RequestType
    BY <1>2 DEF RequestType, RequestStatuses
  <2> HIDE DEF q
  <2>3. Aside(s)
    BY <2>2 DEF Aside, StmtOk, Stmt
  <2> HIDE DEF s
  <2> QED
    BY <1>1, <1>3, <1>4, <2>1, <2>3, RefuseSessions
<1>6. ASSUME NEW i \in DOMAIN db.requests, NEW status \in RequestStatuses \ {"pending"},
             HandleFriendRequest(t, i, status)
      PROVE  SessionInv'
  <2> DEFINE s == Stmt("handle", i, status)
  <2>1. \/ Refuse(t)
        \/ \E p : Perform(t, Befriend(i, p), "idle")
        \/ Perform(t, <<s>>, "idle")
    BY <1>6 DEF HandleFriendRequest
  <2>2. Aside(s)
    BY DEF Aside, StmtOk, Stmt
  <2> HIDE DEF s
  <2> QED
    BY <1>1, <1>3, <1>4, <2>1, <2>2, RefuseSessions
<1>7. ASSUME NEW e \in Emails, DeleteFriendship(t, e)
      PROVE  SessionInv'
  <2> DEFINE s == Stmt("unfriend", None, {threads[t].user, e})
  <2>1. Refuse(t) \/ Perform(t, <<s>>, "idle")
    BY <1>7 DEF DeleteFriendship
  <2>2. Aside(s)
    BY DEF Aside, StmtOk, Stmt
  <2> HIDE DEF s
  <2> QED
    BY <1>1, <1>3, <2>1, <2>2, RefuseSessions
<1>8. ASSUME NEW ms, NEW rs, SyncStudyStats(t, ms, rs)
      PROVE  SessionInv'
  <2> DEFINE s == Stmt("study", threads[t].user, Report(ms, rs))
  <2>1. Perform(t, <<s>>, "idle")
    BY <1>8 DEF SyncStudyStats
  <2>2. Aside(s)
    BY DEF Aside, StmtOk, Stmt
  <2> HIDE DEF s
  <2> QED
    BY <1>3, <2>1, <2>2
<1> QED
  BY <1>5, <1>6, <1>7, <1>8

-----------------------------------------------------------------------------
(* The steps of a request between its calls. *)

\* A step that ends a request or takes it to a point without a session to come.
LEMMA GoSessions ==
    ASSUME IInv, SessionInv, NEW t \in Threads, threads[t].pc \notin {"others", "write"},
           UNCHANGED <<db, lock, todo>>, Undamaged' => Undamaged,
           NEW r, threads' = [threads EXCEPT ![t] = r],
           r.pc \in {"idle", "check", "create", "authenticate", "failed", "record", "resolve"}
    PROVE  SessionInv'
<1>1. /\ DOMAIN threads' = Threads /\ \A u \in Threads \ {t} : threads'[u] = threads[u]
      /\ threads'[t] = r
  BY DEF IInv, TypeOK
<1>2. ~HasPassed(threads'[t]) /\ ~HasAccount(threads'[t])
      /\ threads'[t].pc \notin {"others", "write"}
  BY <1>1 DEF HasPassed, HasAccount
<1> QED
  BY <1>1, <1>2, MoveSessions

\* A request that keeps its account, its password check and its way to a session.
LEMMA OnSessions ==
    ASSUME IInv, SessionInv, NEW t \in Threads, threads[t].pc \notin {"others", "write"},
           UNCHANGED <<db, lock, todo, broken, restored>>,
           NEW pc, Goto(t, pc), pc \in Pcs,
           \/ pc = "act" /\ threads[t].pc = "authorise"
           \/ pc = "session" /\ threads[t].pc = "reset"
    PROVE  SessionInv'
<1>1. DOMAIN threads = Threads /\ ThreadOk(threads[t])
  BY DEF IInv, TypeOK
<1>2. threads' = [threads EXCEPT ![t] = [threads[t] EXCEPT !.pc = pc]]
  BY DEF Goto
<1>3. /\ DOMAIN threads' = Threads /\ \A u \in Threads \ {t} : threads'[u] = threads[u]
      /\ threads'[t].pc = pc /\ threads'[t].user = threads[t].user
      /\ threads'[t].proved = threads[t].proved
  BY <1>1, <1>2 DEF ThreadOk, Idle
<1>4. (HasPassed(threads'[t]) => HasPassed(threads[t])) /\ HasAccount(threads[t])
      /\ threads'[t].pc \notin {"others", "write"}
  BY <1>3 DEF HasPassed, HasAccount
<1>5. Undamaged => threads'[t].user \in Final.users
  BY <1>3, <1>4 DEF SessionInv, KnownUsers
<1>6. Undamaged' => Undamaged
  BY DEF Undamaged
<1> QED
  BY <1>3, <1>4, <1>5, <1>6, MoveSessions

LEMMA BetweenCallsSessions ==
    ASSUME IInv, SessionInv, NEW t \in Threads,
           \/ \E e \in Emails, kind \in {"register", "login"} : BeginCredentials(t, kind, e)
           \/ \E k \in Tokens, kind \in Kinds : BeginSession(t, kind, k)
           \/ CheckAllowed(t) \/ ResetFailures(t) \/ RecordAttempt(t) \/ Authorise(t)
    PROVE  SessionInv'
<1>1. DOMAIN threads[t] = DOMAIN Idle /\ broken \in Nat
  BY DEF IInv, TypeOK, ThreadOk
<1>2. ASSUME UNCHANGED <<db, lock, todo>>, Undamaged' => Undamaged, Finish(t),
             threads[t].pc \notin {"others", "write"}
      PROVE  SessionInv'
  BY <1>2, IdleOk, GoSessions DEF Finish
<1>3. ASSUME NEW e, NEW kind, BeginCredentials(t, kind, e)
      PROVE  SessionInv'
  <2> DEFINE r == [Idle EXCEPT !.pc = "check", !.kind = kind, !.user = e]
  <2>1. /\ UNCHANGED <<db, lock, todo>> /\ (Undamaged' => Undamaged) /\ threads[t].pc = "idle"
        /\ threads' = [threads EXCEPT ![t] = r]
    BY <1>3 DEF BeginCredentials, Store, Rest, Undamaged
  <2>2. r.pc = "check"
    BY DEF Idle
  <2> HIDE DEF r
  <2> QED
    BY <2>1, <2>2, GoSessions
<1>4. ASSUME NEW k, NEW kind, BeginSession(t, kind, k)
      PROVE  SessionInv'
  <2> DEFINE r == [Idle EXCEPT !.pc = "resolve", !.kind = kind, !.token = k]
  <2>1. /\ UNCHANGED <<db, lock, todo>> /\ (Undamaged' => Undamaged) /\ threads[t].pc = "idle"
        /\ threads' = [threads EXCEPT ![t] = r]
    BY <1>4 DEF BeginSession, Store, Rest, Undamaged
  <2>2. r.pc = "resolve"
    BY DEF Idle
  <2> HIDE DEF r
  <2> QED
    BY <2>1, <2>2, GoSessions
<1>5. ASSUME CheckAllowed(t)
      PROVE  SessionInv'
  <2> DEFINE pc == IF threads[t].kind = "register" THEN "create" ELSE "authenticate"
             r == [threads[t] EXCEPT !.pc = pc]
  <2>1. /\ UNCHANGED <<db, lock, todo>> /\ (Undamaged' => Undamaged) /\ threads[t].pc = "check"
        /\ Finish(t) \/ threads' = [threads EXCEPT ![t] = r]
    BY <1>5 DEF CheckAllowed, Goto, Store, Rest, Undamaged
  <2>2. r.pc \in {"create", "authenticate"}
    BY <1>1 DEF Idle
  <2> HIDE DEF r
  <2> QED
    BY <1>2, <2>1, <2>2, GoSessions
<1>6. ASSUME RecordAttempt(t)
      PROVE  SessionInv'
  <2>1. /\ UNCHANGED <<db, lock, todo>> /\ threads[t].pc \in {"failed", "record"} /\ Finish(t)
        /\ broken' \in {broken, broken + 1} /\ restored' = restored
    BY <1>6 DEF RecordAttempt, Store
  <2> QED
    BY <1>1, <1>2, <2>1 DEF Undamaged
<1>7. ASSUME ResetFailures(t)
      PROVE  SessionInv'
  BY <1>7, OnSessions DEF ResetFailures, Store, Rest, Pcs
<1>8. ASSUME Authorise(t)
      PROVE  SessionInv'
  <2>1. UNCHANGED <<db, lock, todo, broken, restored>> /\ threads[t].pc = "authorise"
        /\ (Finish(t) \/ Goto(t, "act"))
    BY <1>8 DEF Authorise, Store, Rest
  <2> QED
    BY <1>2, <2>1, OnSessions DEF Undamaged, Pcs
<1> QED
  BY <1>3, <1>4, <1>5, <1>6, <1>7, <1>8

LEMMA ResolveSessions ==
    ASSUME IInv, SessionInv, NEW t \in Threads, Resolve(t)
    PROVE  SessionInv'
<1> DEFINE u == db.sessions[threads[t].token].user
           pc == IF threads[t].kind \in {"status", "role"} THEN "authorise" ELSE "act"
<1>1. UNCHANGED <<db, lock, todo, broken, restored>> /\ threads[t].pc = "resolve"
  BY DEF Resolve, Store, Rest
<1>2. Undamaged' => Undamaged
  BY <1>1 DEF Undamaged
<1>3. DOMAIN threads = Threads /\ ThreadOk(threads[t])
  BY DEF IInv, TypeOK
<1>4. CASE ~Resolves(threads[t].token)
  <2>1. threads' = [threads EXCEPT ![t] = Idle]
    BY <1>4 DEF Resolve, Finish
  <2> QED
    BY <1>1, <1>2, <2>1, IdleOk, GoSessions
<1>5. CASE Resolves(threads[t].token)
  <2>1. threads' = [threads EXCEPT ![t].user = u, ![t].pc = pc]
    BY <1>5 DEF Resolve
  <2>2. threads[t].token \in Tokens /\ db.sessions[threads[t].token] # None
    BY <1>1, <1>3, <1>5 DEF ThreadOk, Resolves
  <2>3. Undamaged => u \in Final.users
    BY <2>2 DEF SessionInv, KnownUsers
  <2>4. pc \in {"authorise", "act"}
    OBVIOUS
  <2> HIDE DEF u, pc
  <2>5. /\ DOMAIN threads' = Threads /\ \A v \in Threads \ {t} : threads'[v] = threads[v]
        /\ threads'[t].pc = pc /\ threads'[t].user = u
    BY <1>3, <2>1 DEF ThreadOk, Idle
  <2>6. ~HasPassed(threads'[t]) /\ threads'[t].pc \notin {"others", "write"}
    BY <2>4, <2>5 DEF HasPassed
  <2> QED
    BY <1>1, <1>2, <2>3, <2>5, <2>6, MoveSessions
<1> QED
  BY <1>4, <1>5

\* A login passes the password check: it proves the password of now, and of an account
\* that a call is about to suspend the sessions are about to go.
LEMMA AuthenticateSessions ==
    ASSUME IInv, SessionInv, NEW t \in Threads, Authenticate(t)
    PROVE  SessionInv'
<1> DEFINE e == threads[t].user
<1>1. UNCHANGED <<db, lock, todo, broken, restored>> /\ threads[t].pc = "authenticate"
  BY DEF Authenticate, Store, Rest
<1>2. Undamaged' => Undamaged
  BY <1>1 DEF Undamaged
<1>3. DOMAIN threads = Threads /\ ThreadOk(threads[t]) /\ e \in Emails /\ Tables(db)
  BY <1>1 DEF IInv, TypeOK, ThreadOk
<1>4. CASE Goto(t, "failed")
  <2> DEFINE r == [threads[t] EXCEPT !.pc = "failed"]
  <2>1. threads' = [threads EXCEPT ![t] = r]
    BY <1>4 DEF Goto
  <2>2. r.pc = "failed"
    BY <1>3 DEF ThreadOk, Idle
  <2> HIDE DEF r
  <2> QED
    BY <1>1, <1>2, <2>1, <2>2, GoSessions
<1>5. CASE /\ e \in db.users /\ db.profile[e] = "active"
           /\ threads' = [threads EXCEPT ![t].pc = "reset", ![t].proved = db.secret[e]]
  <2>1. /\ DOMAIN threads' = Threads /\ \A u \in Threads \ {t} : threads'[u] = threads[u]
        /\ threads'[t].pc = "reset" /\ threads'[t].user = e /\ threads'[t].proved = db.secret[e]
    BY <1>3, <1>5 DEF ThreadOk, Idle
  <2>2. Final' = Final /\ \A k : After(db', todo', k) = After(db, todo, k)
    BY <1>1 DEF Final
  <2>3. Holding /\ lock # t
    BY <1>1, NoneAssumption DEF SessionInv, Holding
  <2>4. Holding'
    BY <1>1, <2>1, <2>3 DEF Holding
  <2>5. ASSUME Undamaged'
        PROVE  KnownUsers'
    <3>1. KnownUsers /\ e \in Final.users
      BY <1>2, <1>5, <2>5, FinalTables DEF SessionInv
    <3>2. \A u \in Threads : HasAccount(threads'[u]) => threads'[u].user \in Final.users
      BY <2>1, <3>1 DEF KnownUsers
    <3> QED
      BY <1>1, <2>2, <3>1, <3>2 DEF KnownUsers
  <2>6. ASSUME Undamaged', NEW x \in Emails
        PROVE  Coming(x)' /\ Few(Final, threads, x)'
    <3>1. Coming(x) /\ Few(Final, threads, x)
      BY <1>2, <2>6 DEF SessionInv
    <3>2. Changing(threads', x) = Changing(threads, x)
      BY <1>1, <2>1 DEF Changing, IsChanging
    <3>3. lock # None => threads'[lock] = threads[lock]
      BY <2>1, <2>3 DEF Holding
    <3>4. Coming(x)'
      BY <1>1, <2>2, <3>1, <3>2, <3>3 DEF Coming
    <3>5. CASE x # e
      <4>1. SameWork(threads, threads', x)
        BY <2>1, <3>2, <3>5 DEF SameWork, Passed
      <4>2. Few(Final, threads', x)
        BY <3>1, <4>1, UntouchedSelf, FewKept, FinalTables
      <4> QED
        BY <2>2, <3>4, <4>2
    <3>6. CASE x = e
      <4>0. 0 \in 0..Len(todo) /\ After(db, todo, 0) = db
        BY DEF After, IInv, TypeOK
      <4>1. Changing(threads, e) = {} => Final.secret[e] = db.secret[e]
        BY <3>1, <3>6, <4>0 DEF Coming
      <4>2. Changing(threads, e) = {} => Overtaken(Final, threads', e) \subseteq Overtaken(Final, threads, e)
        <5>1. db.secret[e] \in Nat
          BY <1>3 DEF Tables
        <5> QED
          BY <2>1, <4>1, <5>1 DEF Overtaken, Passed
      <4>3. Changing(threads', e) = {} =>
              Cardinality(Old(Final, e)) + Cardinality(Overtaken(Final, threads', e))
                <= Final.secret[e] * (Cardinality(Threads) - 1)
        <5> SUFFICES ASSUME Changing(threads', e) = {}
                     PROVE  Cardinality(Old(Final, e)) + Cardinality(Overtaken(Final, threads', e))
                              <= Final.secret[e] * (Cardinality(Threads) - 1)
          OBVIOUS
        <5> DEFINE m == Final.secret[e] * (Cardinality(Threads) - 1)
        <5>1. Cardinality(Old(Final, e)) + Cardinality(Overtaken(Final, threads, e)) <= m
          BY <3>1, <3>2, <3>6 DEF Few
        <5>2. Cardinality(Overtaken(Final, threads', e)) <= Cardinality(Overtaken(Final, threads, e))
          BY <3>2, <3>6, <4>2, SessionSizes, Smaller
        <5>3. m \in Int
          BY <1>3, FinalTables, SessionSizes
        <5> HIDE DEF m
        <5>4. Cardinality(Old(Final, e)) + Cardinality(Overtaken(Final, threads', e)) <= m
          BY <5>1, <5>2, <5>3, SessionSizes
        <5> QED
          BY <5>4 DEF m
      <4>4. Final.profile[e] \in Gone =>
              Cardinality(Own(Final, e)) + Cardinality(Passed(threads', e)) < Cardinality(Threads)
        <5> SUFFICES ASSUME Final.profile[e] \in Gone
                     PROVE  Cardinality(Own(Final, e)) + Cardinality(Passed(threads', e))
                              < Cardinality(Threads)
          OBVIOUS
        <5>1. Own(Final, e) = {} /\ lock # None /\ threads[lock].next # "session"
          BY <1>5, <3>1, <3>6, <4>0 DEF Coming, Gone
        <5>2. lock \in Threads /\ threads'[lock].pc = "write" /\ threads'[lock].next # "session"
          BY <2>3, <3>3, <5>1 DEF Holding
        <5>3. Passed(threads', e) \subseteq Threads \ {lock}
          BY <5>2 DEF Passed, HasPassed
        <5>4. Cardinality(Threads \ {lock}) = Cardinality(Threads) - 1
              /\ IsFiniteSet(Threads \ {lock})
          BY <5>2, ThreadAssumption, FS_RemoveElement
        <5>5. Cardinality(Passed(threads', e)) <= Cardinality(Threads) - 1
          BY <5>3, <5>4, Smaller
        <5>6. Cardinality(Own(Final, e)) = 0
          BY <5>1, FS_EmptySet
        <5> QED
          BY <5>5, <5>6, SessionSizes
      <4>5. Few(Final, threads', e)
        BY <4>3, <4>4 DEF Few
      <4> QED
        BY <2>2, <3>4, <3>6, <4>5
    <3> QED
      BY <3>4, <3>5, <3>6
  <2> QED
    BY <2>4, <2>5, <2>6 DEF SessionInv
<1> QED
  BY <1>4, <1>5 DEF Authenticate

LEMMA LogoutSessions ==
    ASSUME IInv, SessionInv, NEW k \in Tokens, Logout(k)
    PROVE  SessionInv'
<1> DEFINE s == Stmt("logout", None, k)
<1>1. lock = None /\ db' = Apply(db, s) /\ UNCHANGED <<lock, todo, threads, broken, restored>>
  BY DEF Logout, Rest
<1>2. Tables(db) /\ StmtOk(s) /\ s.op = "logout" /\ s.arg = k
  BY DEF IInv, TypeOK, StmtOk, Stmt
<1> HIDE DEF s
<1>3. /\ db'.users = db.users /\ db'.profile = db.profile /\ db'.secret = db.secret
      /\ db'.sessions = [db.sessions EXCEPT ![k] = None]
  <2>1. db'.users = db.users /\ db'.profile = db.profile /\ db'.secret = db.secret
    BY <1>1, <1>2, ApplyTypes
  <2>2. db'.sessions = [db.sessions EXCEPT ![s.arg] = None]
    BY <1>1, <1>2, SessionStatements
  <2> QED
    BY <1>2, <2>1, <2>2
<1>4. Final = db /\ Len(todo) = 0
  BY <1>1, FinalTables, LockFree
<1>5. Final' = db'
  BY <1>1, <1>4 DEF Final, After
<1>6. \A j \in Tokens : db'.sessions[j] \in {None, db.sessions[j]}
  BY <1>2, <1>3 DEF Tables
<1>7. Holding'
  BY <1>1 DEF SessionInv, Holding
<1>8. Undamaged' => Undamaged
  BY <1>1 DEF Undamaged
<1>9. ASSUME Undamaged'
      PROVE  KnownUsers'
  <2>1. KnownUsers
    BY <1>8, <1>9 DEF SessionInv
  <2> QED
    BY <1>1, <1>3, <1>4, <1>5, <1>6, <2>1 DEF KnownUsers
<1>10. ASSUME Undamaged', NEW e \in Emails
       PROVE  Coming(e)' /\ Few(Final, threads, e)'
  <2>1. Coming(e) /\ Few(db, threads, e)
    BY <1>4, <1>8, <1>10 DEF SessionInv
  <2>2. Untouched(db, db', e)
    BY <1>3, <1>6 DEF Untouched, Own
  <2>3. SameWork(threads, threads', e)
    BY <1>1 DEF SameWork
  <2>4. db.secret[e] \in Nat
    BY <1>2 DEF Tables
  <2>5. Few(db', threads', e)
    BY <2>1, <2>2, <2>3, <2>4, FewKept
  <2>6. \A j \in 0..Len(todo') : After(db', todo', j) = db'
    BY <1>1, <1>4 DEF After
  <2>7. Coming(e)'
    BY <1>1, <1>3, <1>4, <1>5, <2>1, <2>6 DEF Coming
  <2> QED
    BY <1>5, <2>5, <2>7
<1> QED
  BY <1>7, <1>9, <1>10 DEF SessionInv

-----------------------------------------------------------------------------
(* The calls that concern sessions. *)

\* The statements of create_user: the account, its profile, and the first becomes
\* super admin.
IsCreate(ss, e) ==
    /\ Len(ss) \in 2..3 /\ DOMAIN ss = 1..Len(ss)
    /\ ss[1] = Stmt("user", e, None) /\ ss[2] = Stmt("profile", e, None)
    /\ Len(ss) = 3 => ss[3] = Stmt("grant", e, "super_admin")

LEMMA CreateList ==
    ASSUME NEW e, NEW first \in BOOLEAN
    PROVE  IsCreate(<<Stmt("user", e, None), Stmt("profile", e, None)>>
                      \o (IF first THEN <<Stmt("grant", e, "super_admin")>> ELSE <<>>), e)
<1> DEFINE a == Stmt("user", e, None)  b == Stmt("profile", e, None)
           c == Stmt("grant", e, "super_admin")
<1>1. IsCreate(<<a, b, c>>, e) /\ IsCreate(<<a, b>>, e)
  BY DEF IsCreate
<1> HIDE DEF a, b, c
<1>2. <<a, b>> \o <<c>> = <<a, b, c>> /\ <<a, b>> \o <<>> = <<a, b>>
  BY Joins
<1>3. IsCreate(<<a, b>> \o (IF first THEN <<c>> ELSE <<>>), e)
  BY <1>1, <1>2
<1> QED
  BY <1>3 DEF a, b, c

\* The new account has no password change and no session.
Created(d, ss, e) ==
    /\ \A i \in DOMAIN ss : ss[i].op \notin {"session", "logout"}
    /\ \A j \in 0..Len(ss) :
         /\ After(d, ss, j).secret = d.secret /\ After(d, ss, j).sessions = d.sessions
         /\ \A x \in Emails \ {e} : After(d, ss, j).profile[x] = d.profile[x]
    /\ After(d, ss, Len(ss)).profile[e] = "active"
    /\ After(d, ss, Len(ss)).users = d.users \cup {e}

LEMMA CreateWrites ==
    ASSUME NEW d, Tables(d), NEW e \in Emails, NEW ss, IsCreate(ss, e)
    PROVE  Created(d, ss, e)
<1> DEFINE d1 == Apply(d, ss[1])  d2 == Apply(d1, ss[2])  d3 == Apply(d2, ss[3])
<1>1. /\ ss[1].op = "user" /\ ss[2].op = "profile" /\ ss[1].who = e /\ ss[2].who = e
      /\ StmtOk(ss[1]) /\ StmtOk(ss[2])
  BY DEF Stmt, StmtOk, IsCreate
<1>2. (Len(ss) = 3 => ss[3].op = "grant" /\ StmtOk(ss[3])) /\ Len(ss) \in 2..3
      /\ DOMAIN ss = 1..Len(ss)
  BY DEF Stmt, StmtOk, Roles, IsCreate
<1>3. Tables(d1) /\ Tables(d2)
  BY <1>1, ApplyTypes
<1>4. d1.users = d.users \cup {e}
  <2>1. d1 = [d EXCEPT !.users = @ \cup {ss[1].who}]
    BY <1>1, RegisterStatements
  <2> QED
    BY <1>1, <2>1, TableNames DEF Tables
<1>5. d2.profile = [d1.profile EXCEPT ![e] = "active"]
  <2>1. d2 = [d1 EXCEPT !.profile[e] = "active"]
    BY <1>1, <1>3, RegisterStatements
  <2> HIDE DEF d1, d2
  <2> QED
    BY <1>3, <2>1, TableNames DEF Tables
<1>6. d1.profile = d.profile /\ d1.secret = d.secret /\ d1.sessions = d.sessions
  BY <1>1, ApplyTypes
<1>7. d2.users = d1.users /\ d2.secret = d1.secret /\ d2.sessions = d1.sessions
  BY <1>1, <1>3, ApplyTypes
<1>8. Len(ss) = 3 => /\ d3.users = d2.users /\ d3.secret = d2.secret
                     /\ d3.sessions = d2.sessions /\ d3.profile = d2.profile
  BY <1>2, <1>3, ApplyTypes
<1>9. d.profile \in [Emails -> Statuses \cup {None}]
  BY DEF Tables
<1>10. /\ After(d, ss, 0) = d /\ After(d, ss, 1) = d1 /\ After(d, ss, 2) = d2
       /\ After(d, ss, 3) = d3
  BY DEF After
<1> HIDE DEF d1, d2, d3
<1>11. d2.profile[e] = "active" /\ \A x \in Emails \ {e} : d2.profile[x] = d.profile[x]
  BY <1>5, <1>6, <1>9
<1>12. ASSUME NEW j \in 0..Len(ss)
       PROVE  /\ After(d, ss, j).secret = d.secret /\ After(d, ss, j).sessions = d.sessions
              /\ \A x \in Emails \ {e} : After(d, ss, j).profile[x] = d.profile[x]
  <2>1. j \in {0, 1, 2} \/ (j = 3 /\ Len(ss) = 3)
    BY <1>2
  <2> QED
    BY <1>6, <1>7, <1>8, <1>10, <1>11, <2>1
<1>13. After(d, ss, Len(ss)).profile[e] = "active"
       /\ After(d, ss, Len(ss)).users = d.users \cup {e}
  <2>1. CASE Len(ss) = 2
    BY <1>4, <1>7, <1>10, <1>11, <2>1
  <2>2. CASE Len(ss) = 3
    BY <1>4, <1>7, <1>8, <1>10, <1>11, <2>2
  <2> QED
    BY <1>2, <2>1, <2>2
<1>14. \A i \in DOMAIN ss : ss[i].op \notin {"session", "logout"}
  BY <1>1, <1>2
<1> QED
  BY <1>12, <1>13, <1>14 DEF Created

LEMMA CreateUserSessions ==
    ASSUME IInv, SessionInv, NEW t \in Threads, CreateUser(t)
    PROVE  SessionInv'
<1> DEFINE e == threads[t].user  first == db.users = {}
<1>1. UNCHANGED <<restored, broken>> /\ threads[t].pc = "create"
  BY DEF CreateUser, Rest
<1>2. e \in Emails /\ Tables(db) /\ DOMAIN threads[t] = DOMAIN Idle /\ first \in BOOLEAN
  BY <1>1 DEF IInv, TypeOK, ThreadOk
<1>3. Undamaged' => Undamaged
  BY <1>1 DEF Undamaged
<1>4. CASE e \in db.users
  <2> DEFINE r == [threads[t] EXCEPT !.pc = "record"]
  <2>1. threads' = [threads EXCEPT ![t] = r] /\ UNCHANGED <<db, lock, todo>>
    BY <1>4 DEF CreateUser, Goto, Store
  <2>2. r.pc = "record"
    BY <1>2 DEF Idle
  <2> HIDE DEF r
  <2> QED
    BY <1>1, <1>3, <2>1, <2>2, GoSessions
<1>5. CASE e \notin db.users
  <2> DEFINE ss == <<Stmt("user", e, None), Stmt("profile", e, None)>>
                     \o (IF first THEN <<Stmt("grant", e, "super_admin")>> ELSE <<>>)
             g == After(db, ss, Len(ss))
  <2>1. Perform(t, ss, "session") /\ "session" \in NextPcs
    BY <1>5 DEF CreateUser, NextPcs
  <2>2. /\ Len(ss) \in 1..3
        /\ \A i \in DOMAIN ss : ss[i].op \notin {"session", "logout"}
        /\ \A j \in 0..Len(ss) :
             /\ After(db, ss, j).secret = db.secret /\ After(db, ss, j).sessions = db.sessions
             /\ \A x \in Emails \ {e} : After(db, ss, j).profile[x] = db.profile[x]
        /\ g.profile[e] = "active" /\ g.users = db.users \cup {e}
    <3>1. IsCreate(ss, e)
      <4> HIDE DEF first
      <4> QED
        BY <1>2, CreateList
    <3> HIDE DEF ss
    <3>2. Created(db, ss, e)
      BY <1>2, <3>1, CreateWrites
    <3> QED
      BY <3>1, <3>2 DEF IsCreate, Created
  <2> HIDE DEF ss
  <2>3. g.secret = db.secret /\ g.sessions = db.sessions
    BY <2>2
  <2>4. Holding'
    BY <2>1, <2>2, PerformHolds
  <2>5. Final = db /\ Final' = g
    BY <2>1, <2>2, PerformMoves
  <2> HIDE DEF g
  <2>6. ASSUME Undamaged'
        PROVE  KnownUsers'
    <3>1. Undamaged /\ KnownUsers
      BY <1>3, <2>6 DEF SessionInv
    <3>2. /\ db.users \subseteq g.users /\ e \in g.users
          /\ \A x \in Emails : x \notin g.users => g.secret[x] = 0
          /\ \A k \in Tokens : g.sessions[k] # None => g.sessions[k].user \in g.users
      BY <2>2, <2>3, <2>5, <3>1 DEF KnownUsers
    <3> QED
      BY <2>1, <2>2, <3>1, <3>2, PerformKnown DEF g
  <2>7. ASSUME Undamaged', NEW x \in Emails, x # e
        PROVE  Coming(x)' /\ Few(Final, threads, x)'
    <3>1. \A j \in 0..Len(ss) : Untouched(db, After(db, ss, j), x)
      BY <2>2, <2>7 DEF Untouched
    <3> QED
      BY <1>3, <2>1, <2>2, <2>7, <3>1, PerformOther
  <2>8. ASSUME Undamaged', NEW x \in Emails, x = e
        PROVE  Coming(x)' /\ Few(Final, threads, x)'
    <3>1. Undamaged /\ KnownUsers
      BY <1>3, <2>8 DEF SessionInv
    <3>2. Changing(threads', x) = Changing(threads, x)
      <4>1. /\ ~IsChanging(threads[t]) /\ ~IsChanging(threads'[t])
            /\ \A u \in Threads \ {t} : threads'[u] = threads[u]
        BY <1>1, <2>1, <2>2, PerformMoves DEF IsChanging
      <4> QED
        BY <4>1 DEF Changing
    <3>3. g.profile[x] \notin Gone
      BY <2>2, <2>8 DEF Gone
    <3>4. Coming(x)'
      BY <1>2, <2>1, <2>2, <3>1, <3>2, <3>3, PerformComing DEF g
    <3>5. g.secret[x] = 0
      BY <1>5, <2>3, <2>5, <2>8, <3>1 DEF KnownUsers
    <3>6. Old(g, x) = {}
      <4>1. \A k \in Tokens : db.sessions[k] # None => db.sessions[k].proved \in Nat
        BY <1>2 DEF Tables, SessionRow
      <4> QED
        BY <2>3, <3>5, <4>1 DEF Old, Own
    <3>7. Overtaken(g, threads', x) = {}
      <4>1. IInv'
        BY CreateUserKeeps
      <4>2. \A u \in Threads : threads'[u].proved \in Nat
        BY <4>1 DEF IInv, TypeOK, ThreadOk
      <4> QED
        BY <3>5, <4>2 DEF Overtaken, Passed
    <3>8. Few(g, threads', x)
      <4>1. Cardinality(Old(g, x)) = 0 /\ Cardinality(Overtaken(g, threads', x)) = 0
        BY <3>6, <3>7, FS_EmptySet
      <4>2. g.secret[x] * (Cardinality(Threads) - 1) = 0
        BY <3>5, SessionSizes
      <4> QED
        BY <3>3, <4>1, <4>2 DEF Few
    <3> QED
      BY <2>5, <3>4, <3>8
  <2> QED
    BY <2>4, <2>6, <2>7, <2>8 DEF SessionInv
<1> QED
  BY <1>4, <1>5

\* A login or a registration creates the session it was going to create.
LEMMA CreateSessionSessions ==
    ASSUME IInv, SessionInv, NEW t \in Threads, CreateSession(t)
    PROVE  SessionInv'
<1> DEFINE r == threads[t]
           row == [user |-> r.user, proved |-> r.proved, expires |-> now + SessionTtl]
           s == Stmt("session", r.user, [token |-> issued + 1, row |-> row])
           tok == issued + 1
           pc == IF r.kind = "register" THEN "record" ELSE "idle"
           ss == <<s>>
           g == Apply(db, s)
<1>1. UNCHANGED <<restored, broken>> /\ r.pc = "session" /\ Perform(t, ss, pc)
  BY DEF CreateSession, Rest
<1>2. r.user \in Emails /\ r.proved \in Nat /\ now \in Nat /\ Tables(db)
  BY <1>1 DEF IInv, TypeOK, ThreadOk
<1>3. row \in SessionRow /\ row.user = r.user /\ row.proved = r.proved
  BY <1>2, LimitAssumption DEF SessionRow
<1>4. pc \in {"record", "idle"} /\ pc \in NextPcs
  BY DEF NextPcs
<1>5. s.op = "session" /\ s.arg.token = tok /\ s.arg.row = row
  BY DEF Stmt
<1> HIDE DEF row, pc, s, tok
<1>6. StmtOk(s)
  BY <1>3, <1>5 DEF StmtOk
<1>7. Len(ss) = 1 /\ ss[1] = s
  BY OneStatement
<1> HIDE DEF ss
<1>8. AtOnce(ss) /\ Len(ss) \in 1..3
  BY <1>7 DEF AtOnce
<1>9. After(db, ss, 0) = db /\ After(db, ss, 1) = g /\ 0..Len(ss) = {0, 1}
      /\ After(db, ss, Len(ss)) = g
  BY <1>7 DEF After
<1>10. /\ g.users = db.users /\ g.profile = db.profile /\ g.secret = db.secret
       /\ g.sessions = [db.sessions EXCEPT ![tok] = row]
  <2>1. g.users = db.users /\ g.profile = db.profile /\ g.secret = db.secret
    BY <1>2, <1>5, <1>6, ApplyTypes
  <2>2. g.sessions = [db.sessions EXCEPT ![s.arg.token] = s.arg.row]
    BY <1>2, <1>5, SessionStatements
  <2> QED
    BY <1>5, <2>1, <2>2
<1> HIDE DEF g
<1>11. \A k \in Tokens : \/ k # tok /\ g.sessions[k] = db.sessions[k]
                         \/ k = tok /\ g.sessions[k] = row
  BY <1>2, <1>10 DEF Tables
<1>12. Final = db /\ Final' = g
  BY <1>1, <1>4, <1>8, <1>9, PerformMoves
<1>13. Undamaged' => Undamaged
  BY <1>1 DEF Undamaged
<1>14. Holding'
  BY <1>1, <1>4, <1>8, PerformHolds
<1>15. ASSUME Undamaged'
       PROVE  KnownUsers'
  <2>1. Undamaged /\ KnownUsers
    BY <1>13, <1>15 DEF SessionInv
  <2>2. r.user \in db.users
    BY <1>1, <1>12, <2>1 DEF KnownUsers, HasAccount
  <2>3. /\ db.users \subseteq g.users /\ \A x \in Emails : x \notin g.users => g.secret[x] = 0
        /\ \A k \in Tokens : g.sessions[k] # None => g.sessions[k].user \in g.users
        /\ r.user \in g.users
    BY <1>3, <1>10, <1>11, <1>12, <2>1, <2>2 DEF KnownUsers
  <2> QED
    BY <1>1, <1>4, <1>8, <1>9, <2>1, <2>3, PerformKnown
<1>16. ASSUME Undamaged', NEW x \in Emails, x # r.user
       PROVE  Coming(x)' /\ Few(Final, threads, x)'
  <2>1. Untouched(db, g, x)
    BY <1>3, <1>10, <1>11, <1>16 DEF Untouched, Own
  <2>2. \A j \in 0..Len(ss) : Untouched(db, After(db, ss, j), x)
    BY <1>9, <2>1, UntouchedSelf
  <2> QED
    BY <1>1, <1>4, <1>8, <1>13, <1>16, <2>2, PerformOther
<1>17. ASSUME Undamaged', NEW x \in Emails, x = r.user
       PROVE  Coming(x)' /\ Few(Final, threads, x)'
  <2>1. Undamaged /\ Few(db, threads, x)
    BY <1>12, <1>13, <1>17 DEF SessionInv
  <2>2. /\ ~HasPassed(threads'[t]) /\ ~IsChanging(threads'[t]) /\ ~IsChanging(threads[t])
        /\ \A u \in Threads \ {t} : threads'[u] = threads[u]
    BY <1>1, <1>4, <1>8, PerformMoves DEF IsChanging
  <2>3. Changing(threads', x) = Changing(threads, x)
    BY <2>2 DEF Changing
  <2>4. Coming(x)'
    <3>1. \A j \in 0..Len(ss) : /\ After(db, ss, j).secret[x] = db.secret[x]
                                /\ After(db, ss, j).profile[x] = db.profile[x]
      BY <1>9, <1>10
    <3> QED
      BY <1>1, <1>4, <1>8, <1>9, <2>1, <2>3, <3>1, PerformComing
  <2>5. t \in Passed(threads, x)
    BY <1>1, <1>17 DEF Passed, HasPassed
  <2>6. Passed(threads', x) = Passed(threads, x) \ {t}
    BY <2>2 DEF Passed
  <2>7. Overtaken(g, threads', x) = Overtaken(db, threads, x) \ {t}
    <3>1. \A u \in Passed(threads', x) : threads'[u] = threads[u]
      BY <2>2, <2>6 DEF Passed
    <3>2. g.secret = db.secret
      BY <1>10
    <3> QED
      BY <2>6, <3>1, <3>2 DEF Overtaken
  <2>8. Own(g, x) \subseteq Own(db, x) \cup {tok}
    BY <1>11 DEF Own
  <2>9. /\ Old(g, x) \subseteq Old(db, x) \cup {tok}
        /\ t \notin Overtaken(db, threads, x) => Old(g, x) \subseteq Old(db, x)
    BY <1>3, <1>10, <1>11, <1>17, <2>5 DEF Old, Own, Overtaken
  <2>11. /\ Cardinality(Passed(threads', x)) = Cardinality(Passed(threads, x)) - 1
         /\ Cardinality(Own(g, x)) <= Cardinality(Own(db, x)) + 1
    BY <2>5, <2>6, <2>8, OneMore, OneLess, SessionSizes
  <2>12. Cardinality(Old(g, x)) + Cardinality(Overtaken(g, threads', x))
           <= Cardinality(Old(db, x)) + Cardinality(Overtaken(db, threads, x))
    <3>1. CASE t \in Overtaken(db, threads, x)
      <4>1. Cardinality(Overtaken(g, threads', x)) = Cardinality(Overtaken(db, threads, x)) - 1
        BY <2>7, <3>1, SessionSizes, OneLess
      <4>2. Cardinality(Old(g, x)) <= Cardinality(Old(db, x)) + 1
        BY <2>9, OneMore, SessionSizes
      <4> QED
        BY <4>1, <4>2, SessionSizes
    <3>2. CASE t \notin Overtaken(db, threads, x)
      <4>1. Overtaken(g, threads', x) = Overtaken(db, threads, x)
        BY <2>7, <3>2
      <4>2. Cardinality(Old(g, x)) <= Cardinality(Old(db, x))
        BY <2>9, <3>2, SessionSizes, Smaller
      <4> QED
        BY <4>1, <4>2, SessionSizes
    <3> QED
      BY <3>1, <3>2
  <2>13. Few(g, threads', x)
    <3> DEFINE m == db.secret[x] * (Cardinality(Threads) - 1)
    <3>1. m \in Int
      <4>1. db.secret[x] \in Nat /\ Cardinality(Threads) \in Nat
        BY <1>2, SessionSizes DEF Tables
      <4> QED
        BY <4>1
    <3>2. Changing(threads, x) = {} =>
            Cardinality(Old(db, x)) + Cardinality(Overtaken(db, threads, x)) <= m
      BY <2>1 DEF Few
    <3>3. g.secret[x] * (Cardinality(Threads) - 1) = m
      BY <1>10
    <3> HIDE DEF m
    <3>4. Changing(threads', x) = {} =>
            Cardinality(Old(g, x)) + Cardinality(Overtaken(g, threads', x)) <= m
      BY <2>3, <2>12, <3>1, <3>2, SessionSizes
    <3>5. g.profile[x] \in Gone =>
            Cardinality(Own(g, x)) + Cardinality(Passed(threads', x)) < Cardinality(Threads)
      BY <1>10, <2>1, <2>11, SessionSizes DEF Few
    <3> QED
      BY <3>3, <3>4, <3>5 DEF Few
  <2> QED
    BY <1>12, <2>4, <2>13
<1> QED
  BY <1>14, <1>15, <1>16, <1>17 DEF SessionInv

\* The statements of change_password: the account has one password more.
Changed(d, ss, e) ==
    /\ Len(ss) = 2 /\ \A i \in DOMAIN ss : ss[i].op \notin {"session", "logout"}
    /\ \A j \in 0..Len(ss) :
         /\ After(d, ss, j).users = d.users /\ After(d, ss, j).sessions = d.sessions
         /\ After(d, ss, j).profile = d.profile
         /\ \A x \in Emails \ {e} : After(d, ss, j).secret[x] = d.secret[x]
    /\ After(d, ss, Len(ss)).secret[e] = d.secret[e] + 1

LEMMA ChangeWrites ==
    ASSUME NEW d, Tables(d), NEW e \in Emails
    PROVE  Changed(d, <<Stmt("secret", e, None), Stmt("changed", e, None)>>, e)
<1> DEFINE a == Stmt("secret", e, None)  b == Stmt("changed", e, None)
           d1 == Apply(d, a)  d2 == Apply(d1, b)
<1>1. a.op = "secret" /\ a.who = e /\ b.op = "changed" /\ StmtOk(a) /\ StmtOk(b)
  BY DEF Stmt, StmtOk
<1> HIDE DEF a, b
<1>2. /\ Tables(d1) /\ d1.users = d.users /\ d1.sessions = d.sessions /\ d1.profile = d.profile
      /\ d1.secret = [d.secret EXCEPT ![e] = d.secret[e] + 1]
  <2>1. Tables(d1) /\ d1.users = d.users /\ d1.sessions = d.sessions /\ d1.profile = d.profile
    BY <1>1, ApplyTypes
  <2>2. d1.secret = [d.secret EXCEPT ![e] = d.secret[e] + 1]
    BY <1>1, SessionStatements
  <2> QED
    BY <2>1, <2>2
<1>3. d2 = d1
  BY <1>1, <1>2, SessionStatements
<1> HIDE DEF d1, d2
<1>4. /\ d1.secret[e] = d.secret[e] + 1
      /\ \A x \in Emails \ {e} : d1.secret[x] = d.secret[x]
  BY <1>2 DEF Tables
<1> DEFINE ss == <<a, b>>
<1>5. Len(ss) = 2 /\ DOMAIN ss = {1, 2} /\ ss[1] = a /\ ss[2] = b
  BY TwoStatements
<1> HIDE DEF ss
<1>6. /\ After(d, ss, 0) = d /\ After(d, ss, 1) = d1 /\ After(d, ss, 2) = d2
      /\ 0..Len(ss) = {0, 1, 2}
  BY <1>5 DEF After, d1, d2
<1>7. ASSUME NEW j \in 0..Len(ss)
      PROVE  /\ After(d, ss, j).users = d.users /\ After(d, ss, j).sessions = d.sessions
             /\ After(d, ss, j).profile = d.profile
             /\ \A x \in Emails \ {e} : After(d, ss, j).secret[x] = d.secret[x]
  <2>1. After(d, ss, j) = d \/ After(d, ss, j) = d1
    BY <1>3, <1>6, <1>7
  <2> QED
    BY <1>2, <1>4, <2>1
<1>8. After(d, ss, Len(ss)).secret[e] = d.secret[e] + 1
  BY <1>3, <1>4, <1>5, <1>6
<1>9. \A i \in DOMAIN ss : ss[i].op \notin {"session", "logout"}
  BY <1>1, <1>5
<1>10. Changed(d, ss, e)
  BY <1>5, <1>7, <1>8, <1>9 DEF Changed
<1> QED
  BY <1>10 DEF ss, a, b

\* What bounds the sessions older than the password is kept where neither they nor the
\* requests that may create one become more.
LEMMA OldKept ==
    ASSUME NEW f, NEW g, NEW ts, NEW us, NEW e, f.secret[e] \in Nat, g.secret[e] = f.secret[e],
           Few(f, ts, e), Changing(us, e) = Changing(ts, e), Changing(us, e) = {},
           Old(g, e) \subseteq Old(f, e), Overtaken(g, us, e) \subseteq Overtaken(f, ts, e)
    PROVE  Cardinality(Old(g, e)) + Cardinality(Overtaken(g, us, e))
             <= g.secret[e] * (Cardinality(Threads) - 1)
<1> DEFINE m == f.secret[e] * (Cardinality(Threads) - 1)
<1>1. Cardinality(Old(f, e)) + Cardinality(Overtaken(f, ts, e)) <= m
  BY DEF Few
<1>2. m \in Int
  BY SessionSizes
<1>3. /\ Cardinality(Old(g, e)) <= Cardinality(Old(f, e))
      /\ Cardinality(Overtaken(g, us, e)) <= Cardinality(Overtaken(f, ts, e))
  BY SessionSizes, Smaller
<1> HIDE DEF m
<1>4. Cardinality(Old(g, e)) + Cardinality(Overtaken(g, us, e)) <= m
  BY <1>1, <1>2, <1>3, SessionSizes
<1> QED
  BY <1>4 DEF m

LEMMA ChangePasswordSessions ==
    ASSUME IInv, SessionInv, NEW t \in Threads, ChangePassword(t)
    PROVE  SessionInv'
<1> DEFINE e == threads[t].user
           ss == <<Stmt("secret", e, None), Stmt("changed", e, None)>>
           g == After(db, ss, Len(ss))
<1>1. UNCHANGED <<restored, broken>> /\ threads[t].pc = "act"
      /\ (Refuse(t) \/ Perform(t, ss, "others"))
  BY DEF ChangePassword, Rest
<1>2. e \in Emails /\ Tables(db) /\ "others" \in NextPcs
  BY <1>1, ActUser
<1>3. Undamaged' => Undamaged
  BY <1>1 DEF Undamaged
<1>4. Changed(db, ss, e)
  BY <1>2, ChangeWrites
<1> HIDE DEF ss
<1>5. CASE Refuse(t)
  BY <1>1, <1>5, RefuseSessions
<1>6. CASE Perform(t, ss, "others")
  <2>1. Len(ss) \in 1..3 /\ Len(ss) \in 0..Len(ss)
        /\ \A i \in DOMAIN ss : ss[i].op \notin {"session", "logout"}
    BY <1>4 DEF Changed
  <2>2. Holding'
    BY <1>2, <1>6, <2>1, PerformHolds
  <2>3. Final = db /\ Final' = g
    BY <1>2, <1>6, <2>1, PerformMoves
  <2>4. /\ g.users = db.users /\ g.sessions = db.sessions /\ g.profile = db.profile
        /\ g.secret[e] = db.secret[e] + 1
        /\ \A x \in Emails \ {e} : g.secret[x] = db.secret[x]
    BY <1>4, <2>1 DEF Changed
  <2> HIDE DEF g
  <2>5. ASSUME Undamaged'
        PROVE  KnownUsers'
    <3>1. Undamaged /\ KnownUsers
      BY <1>3, <2>5 DEF SessionInv
    <3>2. e \in db.users
      BY <1>1, <2>3, <3>1 DEF KnownUsers, HasAccount
    <3>3. /\ db.users \subseteq g.users /\ e \in g.users
          /\ \A x \in Emails : x \notin g.users => g.secret[x] = 0
          /\ \A k \in Tokens : g.sessions[k] # None => g.sessions[k].user \in g.users
      BY <2>3, <2>4, <3>1, <3>2 DEF KnownUsers
    <3> QED
      BY <1>2, <1>6, <2>1, <3>1, <3>3, PerformKnown DEF g
  <2>6. ASSUME Undamaged', NEW x \in Emails, x # threads[t].user
        PROVE  Coming(x)' /\ Few(Final, threads, x)'
    <3>1. \A j \in 0..Len(ss) : Untouched(db, After(db, ss, j), x)
      BY <1>4, <2>6 DEF Untouched, Changed
    <3> QED
      BY <1>2, <1>3, <1>6, <2>1, <2>6, <3>1, PerformOther
  <2>7. ASSUME Undamaged', NEW x \in Emails, x = threads[t].user
        PROVE  Coming(x)' /\ Few(Final, threads, x)'
    <3>1. Undamaged /\ Few(db, threads, x) /\ db.secret[x] \in Nat
      BY <1>2, <1>3, <2>3, <2>7 DEF SessionInv, Tables
    <3>2. /\ IsChanging(threads'[t]) /\ threads'[t].user = x /\ ~HasPassed(threads'[t])
          /\ \A u \in Threads \ {t} : threads'[u] = threads[u]
      <4>1. IsChanging(threads'[t]) /\ ~HasPassed(threads'[t])
            /\ \A u \in Threads \ {t} : threads'[u] = threads[u]
        BY <1>2, <1>6, <2>1, PerformMoves
      <4>2. HasAccount(threads'[t])
        BY <4>1 DEF IsChanging, HasAccount
      <4> QED
        BY <1>2, <1>6, <2>1, <2>7, <4>1, <4>2, PerformMoves
    <3>3. Changing(threads', x) # {}
      BY <3>2 DEF Changing
    <3>4. Coming(x)'
      <4>1. g.secret[x] >= 1
        BY <2>4, <2>7, <3>1
      <4>2. ASSUME NEW k \in 0..Len(todo')
            PROVE  After(db', todo', k).profile = g.profile
        <5>1. CASE After(db', todo', k) = g
          BY <5>1
        <5>2. CASE k \in 0..Len(ss) /\ After(db', todo', k) = After(db, ss, k)
          BY <1>4, <2>4, <5>2 DEF Changed
        <5> QED
          BY <1>2, <1>6, <2>1, <2>3, <5>1, <5>2, PerformSeen
      <4> QED
        BY <2>3, <3>3, <4>1, <4>2 DEF Coming
    <3>5. g.profile[x] \in Gone =>
            Cardinality(Own(g, x)) + Cardinality(Passed(threads', x)) < Cardinality(Threads)
      <4>1. Own(g, x) = Own(db, x)
        BY <2>4 DEF Own
      <4>2. Passed(threads', x) \subseteq Passed(threads, x)
        BY <3>2 DEF Passed
      <4>3. Cardinality(Passed(threads', x)) <= Cardinality(Passed(threads, x))
        BY <4>2, SessionSizes, Smaller
      <4>4. g.profile[x] \in Gone =>
              Cardinality(Own(db, x)) + Cardinality(Passed(threads, x)) < Cardinality(Threads)
        BY <2>4, <3>1 DEF Few
      <4> QED
        BY <4>1, <4>3, <4>4, SessionSizes
    <3> QED
      BY <2>3, <3>3, <3>4, <3>5 DEF Few
  <2> QED
    BY <2>2, <2>5, <2>6, <2>7 DEF SessionInv
<1> QED
  BY <1>1, <1>5, <1>6

\* The sessions of the account but the one that is kept, which proves the password of now.
Trimmed(d, s, g) ==
    /\ g.users = d.users /\ g.secret = d.secret /\ g.profile = d.profile
    /\ \A k \in Tokens : g.sessions[k] # None =>
         d.sessions[k] # None /\ g.sessions[k].user = d.sessions[k].user
    /\ \A x \in Emails \ {s.who} : Untouched(d, g, x)
    /\ Own(g, s.who) \subseteq Own(d, s.who)
    /\ Old(g, s.who) = {}
    /\ s.arg = None => Own(g, s.who) = {}

LEMMA EndWrites ==
    ASSUME NEW d, Tables(d), NEW s, s.op = "end", s.who \in Emails
    PROVE  Trimmed(d, s, Apply(d, s))
<1> DEFINE g == Apply(d, s)
<1> DEFINE e == s.who  kept == s.arg
<1>1. StmtOk(s)
  BY DEF StmtOk
<1>2. g.users = d.users /\ g.secret = d.secret /\ g.profile = d.profile
  BY <1>1, ApplyTypes
<1>3. ASSUME NEW k \in Tokens, g.sessions[k] # None
      PROVE  /\ d.sessions[k] # None /\ g.sessions[k].user = d.sessions[k].user
             /\ d.sessions[k].user # e => g.sessions[k] = d.sessions[k]
             /\ d.sessions[k].user = e => k = kept /\ g.sessions[k].proved = d.secret[e]
  <2>1. g.sessions[k] = IF d.sessions[k] = None \/ d.sessions[k].user # e THEN d.sessions[k]
                        ELSE IF k = kept THEN [d.sessions[k] EXCEPT !.proved = d.secret[e]]
                        ELSE None
    <3>1. g.sessions = Ended(d, e, kept)
      BY SessionStatements
    <3> QED
      BY <3>1 DEF Ended
  <2>2. d.sessions[k] \in SessionRow \cup {None}
    BY DEF Tables
  <2> HIDE DEF e, kept
  <2>3. CASE d.sessions[k] = None \/ d.sessions[k].user # e
    BY <1>3, <2>1, <2>3
  <2>4. CASE d.sessions[k] # None /\ d.sessions[k].user = e
    <3>1. k = kept /\ g.sessions[k] = [d.sessions[k] EXCEPT !.proved = d.secret[e]]
      BY <1>3, <2>1, <2>4
    <3> QED
      BY <2>2, <2>4, <3>1 DEF SessionRow
  <2> QED
    BY <2>3, <2>4
<1>4. d.secret[e] \in Nat
  BY DEF Tables
<1> HIDE DEF e, kept, g
<1>5. \A x \in Emails \ {e} : Untouched(d, g, x)
  BY <1>2, <1>3 DEF Untouched, Own
<1>6. Own(g, e) \subseteq Own(d, e)
  BY <1>3 DEF Own
<1>7. Old(g, e) = {}
  <2> SUFFICES ASSUME NEW k \in Old(g, e) PROVE FALSE
    OBVIOUS
  <2>1. k \in Tokens /\ g.sessions[k] # None /\ g.sessions[k].user = e
        /\ g.sessions[k].proved < g.secret[e]
    BY DEF Old, Own
  <2>2. g.sessions[k].proved = d.secret[e] /\ g.secret[e] = d.secret[e]
    BY <1>2, <1>3, <2>1
  <2> QED
    BY <1>4, <2>1, <2>2
<1>8. kept = None => Own(g, e) = {}
  BY <1>3, NoneAssumption DEF Own
<1>9. Trimmed(d, s, g)
  BY <1>2, <1>3, <1>5, <1>6, <1>7, <1>8 DEF Trimmed, e, kept
<1> QED
  BY <1>9 DEF g

LEMMA AtLeastOnce ==
    ASSUME NEW a \in Nat, NEW b \in Nat, a >= 1
    PROVE  b <= a * b
<1>1. a - 1 \in Nat /\ (a - 1) * b \in Nat
  OBVIOUS
<1>2. a * b = (a - 1) * b + b
  OBVIOUS
<1>3. a * b \in Nat
  OBVIOUS
<1> QED
  BY <1>1, <1>2, <1>3

LEMMA DeleteOtherSessionsSessions ==
    ASSUME IInv, SessionInv, NEW t \in Threads, DeleteOtherSessions(t)
    PROVE  SessionInv'
<1> DEFINE e == threads[t].user
           s == Stmt("end", e, threads[t].token)
           ss == <<s>>
           g == Apply(db, s)
<1>1. UNCHANGED <<restored, broken>> /\ threads[t].pc = "others" /\ Perform(t, ss, "idle")
  BY DEF DeleteOtherSessions, Rest
<1>2. e \in Emails /\ Tables(db) /\ "idle" \in NextPcs
  BY <1>1, ActUser
<1>3. s.op = "end" /\ s.who = e
  BY DEF Stmt
<1>4. Undamaged' => Undamaged
  BY <1>1 DEF Undamaged
<1> HIDE DEF s
<1>5. Len(ss) = 1 /\ DOMAIN ss = {1} /\ ss[1] = s
  BY OneStatement
<1> HIDE DEF ss
<1>6. Len(ss) \in 1..3 /\ \A i \in DOMAIN ss : ss[i].op \notin {"session", "logout"}
  BY <1>3, <1>5
<1>7. After(db, ss, 0) = db /\ After(db, ss, 1) = g /\ 0..Len(ss) = {0, 1}
      /\ After(db, ss, Len(ss)) = g
  BY <1>5 DEF After
<1>8. /\ g.users = db.users /\ g.secret = db.secret /\ g.profile = db.profile
      /\ \A k \in Tokens : g.sessions[k] # None =>
           db.sessions[k] # None /\ g.sessions[k].user = db.sessions[k].user
      /\ \A x \in Emails \ {e} : Untouched(db, g, x)
      /\ Own(g, e) \subseteq Own(db, e) /\ Old(g, e) = {}
  <2>1. Trimmed(db, s, g)
    BY <1>2, <1>3, EndWrites
  <2> QED
    BY <1>3, <2>1 DEF Trimmed
<1> HIDE DEF g
<1>9. Final = db /\ Final' = g
  BY <1>1, <1>2, <1>6, <1>7, PerformMoves
<1>10. Holding'
  BY <1>1, <1>2, <1>6, PerformHolds
<1>11. ASSUME Undamaged'
       PROVE  KnownUsers'
  <2>1. Undamaged /\ KnownUsers
    BY <1>4, <1>11 DEF SessionInv
  <2>2. e \in db.users
    BY <1>1, <1>9, <2>1 DEF KnownUsers, HasAccount
  <2>3. /\ db.users \subseteq g.users /\ e \in g.users
        /\ \A x \in Emails : x \notin g.users => g.secret[x] = 0
        /\ \A k \in Tokens : g.sessions[k] # None => g.sessions[k].user \in g.users
    BY <1>8, <1>9, <2>1, <2>2 DEF KnownUsers
  <2> QED
    BY <1>1, <1>2, <1>6, <1>7, <2>1, <2>3, PerformKnown
<1>12. ASSUME Undamaged', NEW x \in Emails, x # threads[t].user
       PROVE  Coming(x)' /\ Few(Final, threads, x)'
  <2>1. \A j \in 0..Len(ss) : Untouched(db, After(db, ss, j), x)
    BY <1>7, <1>8, <1>12, UntouchedSelf
  <2> QED
    BY <1>1, <1>2, <1>4, <1>6, <1>12, <2>1, PerformOther
<1>13. ASSUME Undamaged', NEW x \in Emails, x = threads[t].user
       PROVE  Coming(x)' /\ Few(Final, threads, x)'
  <2>1. Undamaged /\ Coming(x) /\ Few(db, threads, x) /\ db.secret[x] \in Nat
    BY <1>2, <1>4, <1>9, <1>13 DEF SessionInv, Tables
  <2>2. /\ ~HasPassed(threads'[t]) /\ ~IsChanging(threads'[t])
        /\ \A u \in Threads \ {t} : threads'[u] = threads[u]
    BY <1>1, <1>2, <1>6, PerformMoves
  <2>3. t \in Changing(threads, x)
    BY <1>1, <1>13 DEF Changing, IsChanging
  <2>4. Coming(x)'
    <3>1. \A j \in 0..Len(ss) : /\ After(db, ss, j).secret[x] = db.secret[x]
                                /\ After(db, ss, j).profile[x] = db.profile[x]
      BY <1>7, <1>8
    <3> QED
      BY <1>1, <1>2, <1>6, <1>7, <2>1, <2>3, <3>1, PerformComing
  <2>5. db.secret[x] >= 1
    BY <1>9, <2>1, <2>3 DEF Coming
  <2>6. Passed(threads', x) \subseteq Passed(threads, x)
        /\ Passed(threads', x) \subseteq Threads \ {t}
    BY <2>2 DEF Passed
  <2>7. Cardinality(Threads \ {t}) = Cardinality(Threads) - 1 /\ IsFiniteSet(Threads \ {t})
    BY ThreadAssumption, OneLess
  <2>8. Cardinality(Overtaken(g, threads', x)) <= Cardinality(Threads) - 1
    <3>1. Overtaken(g, threads', x) \subseteq Threads \ {t}
      BY <2>6 DEF Overtaken
    <3> QED
      BY <2>7, <3>1, Smaller
  <2>9. Cardinality(Old(g, x)) = 0
    BY <1>8, <1>13, FS_EmptySet
  <2>10. Cardinality(Old(g, x)) + Cardinality(Overtaken(g, threads', x))
           <= g.secret[x] * (Cardinality(Threads) - 1)
    <3> DEFINE n == Cardinality(Threads) - 1
    <3>1. n \in Nat
      BY <2>7, FS_CardinalityType
    <3> HIDE DEF n
    <3>2. n <= db.secret[x] * n /\ db.secret[x] * n \in Nat
      BY <2>1, <2>5, <3>1, AtLeastOnce
    <3>3. Cardinality(Overtaken(g, threads', x)) <= n
      BY <2>8 DEF n
    <3>4. Cardinality(Old(g, x)) + Cardinality(Overtaken(g, threads', x)) <= db.secret[x] * n
      BY <2>9, <3>1, <3>2, <3>3, SessionSizes
    <3> QED
      BY <1>8, <3>4 DEF n
  <2>11. g.profile[x] \in Gone =>
           Cardinality(Own(g, x)) + Cardinality(Passed(threads', x)) < Cardinality(Threads)
    <3>1. Cardinality(Own(g, x)) <= Cardinality(Own(db, x))
          /\ Cardinality(Passed(threads', x)) <= Cardinality(Passed(threads, x))
      BY <1>8, <1>13, <2>6, SessionSizes, Smaller
    <3>2. g.profile[x] \in Gone =>
            Cardinality(Own(db, x)) + Cardinality(Passed(threads, x)) < Cardinality(Threads)
      BY <1>8, <2>1 DEF Few
    <3>3. /\ Cardinality(Own(g, x)) \in Nat /\ Cardinality(Passed(threads', x)) \in Nat
          /\ Cardinality(Own(db, x)) \in Nat /\ Cardinality(Passed(threads, x)) \in Nat
          /\ Cardinality(Threads) \in Nat
      BY SessionSizes
    <3> QED
      BY <3>1, <3>2, <3>3
  <2> QED
    BY <1>9, <2>4, <2>10, <2>11 DEF Few
<1> QED
  BY <1>10, <1>11, <1>12, <1>13 DEF SessionInv

\* The statements of set_user_status: the account has its status and, when that is not
\* "active", no session.
Marked(d, ss, e, status) ==
    /\ Len(ss) \in 1..2 /\ \A i \in DOMAIN ss : ss[i].op \notin {"session", "logout"}
    /\ \A j \in 0..Len(ss) :
         /\ After(d, ss, j).users = d.users /\ After(d, ss, j).secret = d.secret
         /\ \A x \in Emails \ {e} : Untouched(d, After(d, ss, j), x)
    /\ After(d, ss, Len(ss)).profile[e] = status
    /\ \A k \in Tokens : After(d, ss, Len(ss)).sessions[k] # None =>
         /\ d.sessions[k] # None
         /\ After(d, ss, Len(ss)).sessions[k].user = d.sessions[k].user
    /\ Old(After(d, ss, Len(ss)), e) \subseteq Old(d, e)
    /\ status # "active" => Own(After(d, ss, Len(ss)), e) = {}

LEMMA MarkWrites ==
    ASSUME NEW d, Tables(d), NEW e \in Emails, NEW status \in Statuses
    PROVE  Marked(d, <<Stmt("status", e, status)>>
                       \o (IF status # "active" THEN <<Stmt("end", e, None)>> ELSE <<>>), e, status)
<1> DEFINE a == Stmt("status", e, status)  b == Stmt("end", e, None)
           d1 == Apply(d, a)  d2 == Apply(d1, b)
<1>1. /\ a.op = "status" /\ a.who = e /\ a.arg = status /\ StmtOk(a)
      /\ b.op = "end" /\ b.who = e /\ b.arg = None
  BY DEF Stmt, StmtOk
<1> HIDE DEF a, b
<1>2. /\ Tables(d1) /\ d1.users = d.users /\ d1.sessions = d.sessions /\ d1.secret = d.secret
      /\ d1.profile = [d.profile EXCEPT ![e] = status]
  <2>1. Tables(d1) /\ d1.users = d.users /\ d1.sessions = d.sessions /\ d1.secret = d.secret
    BY <1>1, ApplyTypes
  <2>2. d1.profile = [d.profile EXCEPT ![a.who] = a.arg]
    BY <1>1, SessionStatements
  <2> QED
    BY <1>1, <2>1, <2>2
<1> HIDE DEF d1
<1>3. d1.profile[e] = status /\ \A x \in Emails \ {e} : d1.profile[x] = d.profile[x]
  BY <1>2 DEF Tables
<1>4. \A x \in Emails \ {e} : Untouched(d, d1, x)
  BY <1>2, <1>3 DEF Untouched
<1>5. /\ d2.users = d1.users /\ d2.secret = d1.secret /\ d2.profile = d1.profile
      /\ \A k \in Tokens : d2.sessions[k] # None =>
           d1.sessions[k] # None /\ d2.sessions[k].user = d1.sessions[k].user
      /\ \A x \in Emails \ {e} : Untouched(d1, d2, x)
      /\ Old(d2, e) = {} /\ Own(d2, e) = {}
  <2>1. Trimmed(d1, b, d2)
    BY <1>1, <1>2, EndWrites
  <2> HIDE DEF d2
  <2> QED
    BY <1>1, <2>1 DEF Trimmed
<1> HIDE DEF d2
<1>6. \A x \in Emails \ {e} : Untouched(d, d2, x)
  BY <1>2, <1>4, <1>5 DEF Untouched
<1>7. Old(d1, e) = Old(d, e)
  BY <1>2 DEF Old, Own
<1>8. Marked(d, <<a>>, e, status) \/ status # "active"
  <2> SUFFICES ASSUME status = "active" PROVE Marked(d, <<a>>, e, status)
    OBVIOUS
  <2> DEFINE ss == <<a>>
  <2>1. Len(ss) = 1 /\ DOMAIN ss = {1} /\ ss[1] = a
    BY OneStatement
  <2> HIDE DEF ss
  <2>2. /\ After(d, ss, 0) = d /\ After(d, ss, 1) = d1 /\ 0..Len(ss) = {0, 1}
        /\ After(d, ss, Len(ss)) = d1
    <3>1. After(d, ss, 0) = d /\ After(d, ss, 1) = Apply(d, ss[1])
      BY DEF After
    <3>2. 0..Len(ss) = {0, 1}
      BY <2>1
    <3> QED
      BY <2>1, <3>1, <3>2 DEF d1
  <2>3. \A j \in 0..Len(ss) :
          /\ After(d, ss, j).users = d.users /\ After(d, ss, j).secret = d.secret
          /\ \A x \in Emails \ {e} : Untouched(d, After(d, ss, j), x)
    BY <1>2, <1>4, <2>2, UntouchedSelf
  <2>4. Len(ss) \in 1..2 /\ \A i \in DOMAIN ss : ss[i].op \notin {"session", "logout"}
    BY <1>1, <2>1
  <2>5. \A k \in Tokens : d1.sessions[k] # None =>
          d.sessions[k] # None /\ d1.sessions[k].user = d.sessions[k].user
    BY <1>2
  <2>6. d1.profile[e] = status /\ Old(d1, e) \subseteq Old(d, e)
    BY <1>3, <1>7
  <2>7. Marked(d, ss, e, status)
    BY <2>2, <2>3, <2>4, <2>5, <2>6 DEF Marked
  <2> QED
    BY <2>7 DEF ss
<1>9. Marked(d, <<a, b>>, e, status)
  <2> DEFINE ss == <<a, b>>
  <2>1. Len(ss) = 2 /\ DOMAIN ss = {1, 2} /\ ss[1] = a /\ ss[2] = b
    BY TwoStatements
  <2> HIDE DEF ss
  <2>2. /\ After(d, ss, 0) = d /\ After(d, ss, 1) = d1 /\ After(d, ss, 2) = d2
        /\ 0..Len(ss) = {0, 1, 2} /\ After(d, ss, Len(ss)) = d2
    BY <2>1 DEF After, d1, d2
  <2>3. \A j \in 0..Len(ss) :
          /\ After(d, ss, j).users = d.users /\ After(d, ss, j).secret = d.secret
          /\ \A x \in Emails \ {e} : Untouched(d, After(d, ss, j), x)
    BY <1>2, <1>4, <1>5, <1>6, <2>2, UntouchedSelf
  <2>4. Len(ss) \in 1..2 /\ \A i \in DOMAIN ss : ss[i].op \notin {"session", "logout"}
    BY <1>1, <2>1
  <2>5. \A k \in Tokens : d2.sessions[k] # None =>
          d.sessions[k] # None /\ d2.sessions[k].user = d.sessions[k].user
    BY <1>2, <1>5
  <2>6. d2.profile[e] = status /\ Old(d2, e) \subseteq Old(d, e) /\ Own(d2, e) = {}
    BY <1>3, <1>5
  <2>7. Marked(d, ss, e, status)
    BY <2>2, <2>3, <2>4, <2>5, <2>6 DEF Marked
  <2> QED
    BY <2>7 DEF ss
<1>10. <<a>> \o <<b>> = <<a, b>> /\ <<a>> \o <<>> = <<a>>
  BY Joins
<1>11. Marked(d, <<a>> \o (IF status # "active" THEN <<b>> ELSE <<>>), e, status)
  BY <1>8, <1>9, <1>10
<1> QED
  BY <1>11 DEF a, b

LEMMA SetUserStatusSessions ==
    ASSUME IInv, SessionInv, NEW t \in Threads, NEW e \in Emails, NEW status \in Statuses,
           SetUserStatus(t, e, status)
    PROVE  SessionInv'
<1> DEFINE ss == <<Stmt("status", e, status)>>
                   \o (IF status # "active" THEN <<Stmt("end", e, None)>> ELSE <<>>)
           g == After(db, ss, Len(ss))
<1>1. UNCHANGED <<restored, broken>> /\ threads[t].pc = "act"
      /\ (Refuse(t) \/ Perform(t, ss, "idle"))
  BY DEF SetUserStatus, Rest
<1>2. threads[t].user \in Emails /\ Tables(db) /\ "idle" \in NextPcs
  BY <1>1, ActUser
<1>3. Undamaged' => Undamaged
  BY <1>1 DEF Undamaged
<1>4. Marked(db, ss, e, status)
  BY <1>2, MarkWrites
<1> HIDE DEF ss
<1>5. CASE Refuse(t)
  BY <1>1, <1>5, RefuseSessions
<1>6. CASE Perform(t, ss, "idle")
  <2>1. Len(ss) \in 1..3 /\ Len(ss) \in 0..Len(ss)
        /\ \A i \in DOMAIN ss : ss[i].op \notin {"session", "logout"}
    BY <1>4 DEF Marked
  <2>2. Holding'
    BY <1>2, <1>6, <2>1, PerformHolds
  <2>3. Final = db /\ Final' = g
    BY <1>2, <1>6, <2>1, PerformMoves
  <2>4. /\ g.users = db.users /\ g.secret = db.secret /\ g.profile[e] = status
        /\ \A k \in Tokens : g.sessions[k] # None =>
             db.sessions[k] # None /\ g.sessions[k].user = db.sessions[k].user
        /\ Old(g, e) \subseteq Old(db, e)
        /\ status # "active" => Own(g, e) = {}
    BY <1>4, <2>1 DEF Marked
  <2> HIDE DEF g
  <2>5. ASSUME Undamaged'
        PROVE  KnownUsers'
    <3>1. Undamaged /\ KnownUsers
      BY <1>3, <2>5 DEF SessionInv
    <3>2. threads[t].user \in db.users
      BY <1>1, <2>3, <3>1 DEF KnownUsers, HasAccount
    <3>3. /\ db.users \subseteq g.users /\ threads[t].user \in g.users
          /\ \A x \in Emails : x \notin g.users => g.secret[x] = 0
          /\ \A k \in Tokens : g.sessions[k] # None => g.sessions[k].user \in g.users
      BY <2>3, <2>4, <3>1, <3>2 DEF KnownUsers
    <3> QED
      BY <1>2, <1>6, <2>1, <3>1, <3>3, PerformKnown DEF g
  <2>6. ASSUME Undamaged', NEW x \in Emails, x # e
        PROVE  Coming(x)' /\ Few(Final, threads, x)'
    <3>1. \A j \in 0..Len(ss) : Untouched(db, After(db, ss, j), x)
      BY <1>4, <2>6 DEF Marked
    <3> QED
      BY <1>1, <1>2, <1>3, <1>6, <2>1, <2>6, <3>1, PerformOther
  <2>7. ASSUME Undamaged'
        PROVE  Coming(e)' /\ Few(Final, threads, e)'
    <3>1. Undamaged /\ Coming(e) /\ Few(db, threads, e) /\ db.secret[e] \in Nat
      BY <1>2, <1>3, <2>3, <2>7 DEF SessionInv, Tables
    <3>2. /\ ~IsChanging(threads[t]) /\ ~IsChanging(threads'[t]) /\ ~HasPassed(threads'[t])
          /\ \A u \in Threads \ {t} : threads'[u] = threads[u]
      BY <1>1, <1>2, <1>6, <2>1, PerformMoves DEF IsChanging
    <3>3. Changing(threads', e) = Changing(threads, e)
      BY <3>2 DEF Changing
    <3>4. /\ Passed(threads', e) \subseteq Passed(threads, e)
          /\ Passed(threads', e) \subseteq Threads \ {t}
          /\ \A u \in Passed(threads', e) : threads'[u] = threads[u]
      BY <3>2 DEF Passed
    <3>5. Overtaken(g, threads', e) \subseteq Overtaken(db, threads, e)
      BY <2>4, <3>4 DEF Overtaken
    <3>6. Changing(threads', e) = {} =>
            Cardinality(Old(g, e)) + Cardinality(Overtaken(g, threads', e))
              <= g.secret[e] * (Cardinality(Threads) - 1)
      BY <2>4, <3>1, <3>3, <3>5, OldKept
    <3>7. g.profile[e] \in Gone => status # "active" /\ Own(g, e) = {}
      BY <2>4 DEF Gone
    <3>8. g.profile[e] \in Gone =>
            Cardinality(Own(g, e)) + Cardinality(Passed(threads', e)) < Cardinality(Threads)
      <4>1. Cardinality(Threads \ {t}) = Cardinality(Threads) - 1 /\ IsFiniteSet(Threads \ {t})
        BY ThreadAssumption, OneLess
      <4>2. Cardinality(Passed(threads', e)) <= Cardinality(Threads) - 1
        BY <3>4, <4>1, Smaller
      <4>3. Own(g, e) = {} => Cardinality(Own(g, e)) = 0
        BY FS_EmptySet
      <4>4. Cardinality(Passed(threads', e)) \in Nat /\ Cardinality(Threads) \in Nat
        BY SessionSizes
      <4> QED
        BY <3>7, <4>2, <4>3, <4>4
    <3>9. Coming(e)'
      <4>1. ASSUME NEW k \in 0..Len(todo')
            PROVE  /\ After(db', todo', k).secret = g.secret
                   /\ \/ After(db', todo', k) = g
                      \/ lock' # None /\ threads'[lock'].next = "idle"
        <5>1. CASE After(db', todo', k) = g
          BY <5>1
        <5>2. CASE /\ k \in 0..Len(ss) /\ After(db', todo', k) = After(db, ss, k)
                   /\ lock' # None /\ threads'[lock'].next = "idle"
          BY <1>4, <2>4, <5>2 DEF Marked
        <5> QED
          BY <1>2, <1>6, <2>1, <2>3, <5>1, <5>2, PerformSeen
      <4>2. Changing(threads', e) # {} => g.secret[e] >= 1
        BY <2>3, <2>4, <3>1, <3>3 DEF Coming
      <4> QED
        BY <2>3, <3>7, <4>1, <4>2 DEF Coming
    <3> QED
      BY <2>3, <3>6, <3>8, <3>9 DEF Few
  <2> QED
    BY <2>2, <2>5, <2>6, <2>7 DEF SessionInv
<1> QED
  BY <1>1, <1>5, <1>6

-----------------------------------------------------------------------------
(* The rest, and the theorem. *)

\* After a call that broke off and after a restore nothing is promised.
LEMMA DamageSessions ==
    ASSUME IInv, SessionInv, ExportSection \/ Restore \/ Tick \/ UNCHANGED vars
           \/ \E t \in Threads : Break(t)
    PROVE  SessionInv'
<1>1. ASSUME UNCHANGED <<db, lock, todo, threads, broken, restored>>
      PROVE  SessionInv'
  <2>1. Final' = Final /\ (Undamaged' <=> Undamaged)
    BY <1>1 DEF Final, Undamaged
  <2>2. Holding' /\ (KnownUsers => KnownUsers')
    BY <1>1, <2>1 DEF SessionInv, Holding, KnownUsers
  <2>3. \A e \in Emails : (Coming(e) => Coming(e)')
    BY <1>1, <2>1 DEF Coming
  <2> QED
    BY <1>1, <2>1, <2>2, <2>3 DEF SessionInv
<1>2. CASE Tick
  BY <1>1, <1>2 DEF Tick, Store
<1>3. CASE ExportSection
  BY <1>1, <1>3 DEF ExportSection, Store
<1>4. CASE UNCHANGED vars
  BY <1>1, <1>4 DEF vars
<1>5. CASE Restore
  <2>1. restored' = TRUE /\ UNCHANGED <<lock, todo, threads>>
    BY <1>5 DEF Restore
  <2>2. Holding' /\ ~Undamaged'
    BY <2>1 DEF SessionInv, Holding, Undamaged
  <2> QED
    BY <2>2 DEF SessionInv
<1>6. ASSUME NEW t \in Threads, Break(t)
      PROVE  SessionInv'
  <2>1. lock' = None /\ todo' = <<>> /\ broken' = broken + 1 /\ broken \in Nat
    BY <1>6 DEF Break, IInv, TypeOK
  <2>2. Holding'
    BY <2>1 DEF Holding
  <2>3. ~Undamaged'
    BY <2>1 DEF Undamaged
  <2> QED
    BY <2>2, <2>3 DEF SessionInv
<1> QED
  BY <1>2, <1>3, <1>4, <1>5, <1>6

LEMMA InitSessionInv == Init => SessionInv
<1> SUFFICES ASSUME Init PROVE SessionInv
  OBVIOUS
<1>1. /\ threads = [t \in Threads |-> Idle] /\ lock = None /\ todo = <<>>
      /\ db \in {EmptyDb, SeededDb}
  BY DEF Init
<1>2. \A t \in Threads : threads[t].pc = "idle"
  BY <1>1, IdleOk
<1>3. IInv
  BY InitIInv
<1>4. Final = db /\ Len(todo) = 0 /\ DOMAIN todo = {}
  BY <1>1, <1>3, FinalTables
<1>5. /\ \A e \in Emails : db.secret[e] = 0 /\ db.profile[e] \notin Gone
      /\ \A k \in Tokens : db.sessions[k] # None =>
           db.sessions[k].user \in db.users /\ db.sessions[k].proved = 0
  <2>1. CASE db = EmptyDb
    <3>1. /\ db.profile = [e \in Emails |-> None] /\ db.secret = [e \in Emails |-> 0]
          /\ db.sessions = [k \in Tokens |-> None]
      BY <2>1 DEF EmptyDb
    <3> QED
      BY <3>1, NoneAssumption DEF Statuses, Gone
  <2>2. CASE db = SeededDb
    <3>1. /\ db.users = Emails /\ db.profile = [e \in Emails |-> "active"]
          /\ db.secret = [e \in Emails |-> 0]
          /\ db.sessions = [k \in Tokens |->
               IF k \in Emails THEN [user |-> k, proved |-> 0, expires |-> SessionTtl] ELSE None]
      BY <2>2 DEF SeededDb, EmptyDb
    <3>2. \A k \in Tokens : db.sessions[k] # None => k \in Emails
      BY <3>1
    <3>3. \A k \in Tokens : k \in Emails =>
            db.sessions[k] = [user |-> k, proved |-> 0, expires |-> SessionTtl]
      BY <3>1
    <3>4. \A k \in Tokens : db.sessions[k] # None =>
            db.sessions[k].user \in db.users /\ db.sessions[k].proved = 0
      BY <3>1, <3>2, <3>3
    <3>5. \A e \in Emails : db.secret[e] = 0 /\ db.profile[e] \notin Gone
      BY <3>1 DEF Gone
    <3> QED
      BY <3>4, <3>5
  <2> QED
    BY <1>1, <2>1, <2>2
<1>6. Holding
  BY <1>1, <1>4 DEF Holding
<1>7. \A e \in Emails : Changing(threads, e) = {} /\ Passed(threads, e) = {}
  BY <1>2 DEF Changing, IsChanging, Passed, HasPassed
<1>8. KnownUsers
  BY <1>2, <1>4, <1>5 DEF KnownUsers, HasAccount
<1>9. ASSUME NEW e \in Emails
       PROVE  Coming(e) /\ Few(Final, threads, e)
  <2>1. \A k \in 0..Len(todo) : After(db, todo, k) = db
    BY <1>4 DEF After
  <2>2. Coming(e)
    BY <1>4, <1>7, <2>1 DEF Coming
  <2>3. Old(db, e) = {} /\ Overtaken(db, threads, e) = {}
    BY <1>5, <1>7 DEF Old, Own, Overtaken
  <2>4. Cardinality(Old(db, e)) = 0 /\ Cardinality(Overtaken(db, threads, e)) = 0
    BY <2>3, FS_EmptySet
  <2>5. db.secret[e] * (Cardinality(Threads) - 1) = 0
    BY <1>5, SessionSizes
  <2> QED
    BY <1>4, <1>5, <2>2, <2>4, <2>5 DEF Few
<1> QED
  BY <1>6, <1>8, <1>9 DEF SessionInv

LEMMA StepSessionInv == IInv /\ SessionInv /\ [Next]_vars => SessionInv'
<1> SUFFICES ASSUME IInv, SessionInv, [Next]_vars PROVE SessionInv'
  OBVIOUS
<1>1. ASSUME NEW t \in Threads,
             \/ CreateUser(t) \/ Authenticate(t) \/ CreateSession(t) \/ Resolve(t)
             \/ ChangePassword(t) \/ DeleteOtherSessions(t) \/ Write(t)
      PROVE  SessionInv'
  BY <1>1, CreateUserSessions, AuthenticateSessions, CreateSessionSessions, ResolveSessions,
     ChangePasswordSessions, DeleteOtherSessionsSessions, WriteSessions
<1>2. ASSUME NEW t \in Threads, NEW e \in Emails,
             \/ \E s \in Statuses : SetUserStatus(t, e, s)
             \/ \E r \in Roles, on \in BOOLEAN : SetUserGlobalRole(t, e, r, on)
      PROVE  SessionInv'
  BY <1>2, SetUserStatusSessions, RoleSessions
<1>3. CASE \E k \in Tokens : Logout(k)
  BY <1>3, LogoutSessions
<1> QED
  BY <1>1, <1>2, <1>3, BetweenCallsSessions, FriendSessions, DamageSessions DEF Next

\* Late sessions are races: with every request over, the sessions that survived a change
\* of the password, or the suspension of their account, are at most those of the logins
\* that were between their password check and their session, one for each other request
\* at work and change of the password (authenticate_user and create_session,
\* change_password and delete_other_sessions_for_user, set_user_status).
THEOREM LateSessionsAreFew == Spec => []LateSessionsAreRaces
<1>1. IInv /\ SessionInv => LateSessionsAreRaces
  <2> SUFFICES ASSUME IInv, SessionInv, \A t \in Threads : threads[t].pc = "idle",
                      broken = 0, ~restored, NEW e \in Emails
               PROVE  /\ Cardinality(Old(db, e)) <= db.secret[e] * (Cardinality(Threads) - 1)
                      /\ db.profile[e] \in Gone => Cardinality(Own(db, e)) < Cardinality(Threads)
    BY DEF LateSessionsAreRaces, Old, Own, Gone
  <2>1. lock = None
    BY DEF SessionInv, Holding
  <2>2. Few(db, threads, e) /\ db.secret[e] \in Nat
    BY <2>1, FinalTables DEF SessionInv, Undamaged
  <2>3. Passed(threads, e) = {} /\ Overtaken(db, threads, e) = {} /\ Changing(threads, e) = {}
    BY DEF Passed, Overtaken, Changing, HasPassed, IsChanging
  <2>4. Cardinality(Passed(threads, e)) = 0 /\ Cardinality(Overtaken(db, threads, e)) = 0
    BY <2>3, FS_EmptySet
  <2>5. Cardinality(Own(db, e)) \in Nat /\ Cardinality(Old(db, e)) \in Nat
    BY SessionSizes
  <2>6. Cardinality(Old(db, e)) <= db.secret[e] * (Cardinality(Threads) - 1)
    <3> DEFINE m == db.secret[e] * (Cardinality(Threads) - 1)
    <3>1. Cardinality(Old(db, e)) + Cardinality(Overtaken(db, threads, e)) <= m
      BY <2>2, <2>3 DEF Few
    <3> HIDE DEF m
    <3>2. Cardinality(Old(db, e)) <= m
      BY <2>4, <2>5, <3>1
    <3> QED
      BY <3>2 DEF m
  <2>7. db.profile[e] \in Gone => Cardinality(Own(db, e)) < Cardinality(Threads)
    BY <2>2, <2>4, <2>5 DEF Few
  <2> QED
    BY <2>6, <2>7
<1> QED
  BY <1>1, SpecIInv, InitSessionInv, StepSessionInv, PTL DEF Spec

(***************************************************************************)
(* Study time: the lemmas about merging first, then the rows.              *)
(***************************************************************************)

\* Where there is a number there is a least one.
LEMMA LeastNumber ==
    ASSUME NEW S, S \subseteq Nat, S # {}
    PROVE  \E n \in S : \A m \in S : n <= m
<1> DEFINE R == {p \in Nat \X Nat : p[1] < p[2]}
<1>1. IsWellFoundedOn(R, Nat)
  BY NatLessThanWellFounded DEF OpToRel
<1>2. PICK n \in S : \A m \in S : ~(<<m, n>> \in R)
  <2> HIDE DEF R
  <2> QED
    BY <1>1, WFMin
<1>3. ASSUME NEW m \in S PROVE n <= m
  <2>1. m \in Nat /\ n \in Nat
    OBVIOUS
  <2>2. <<m, n>> \in R <=> m < n
    BY <2>1
  <2>3. ~(m < n)
    BY <1>2, <2>2
  <2> HIDE DEF R
  <2> QED
    BY <2>1, <2>3
<1> QED
  BY <1>3

\* Counting up from a first value by a step, which is how the merged ranges and their
\* sum are defined, ends.
Chain(n, base, step, f) == [i \in 0..n |-> IF i = 0 THEN base ELSE step[<<f[i - 1], i>>]]

LEMMA ChainExists ==
    ASSUME NEW n \in Nat, NEW X, NEW base \in X, NEW step \in [X \X (1..n) -> X]
    PROVE  \E f \in [0..n -> X] : f = Chain(n, base, step, f)
<1> DEFINE Good(f, k) == \A i \in 0..k : f[i] = Chain(n, base, step, f)[i]
           N == {k \in 0..n : ~ \E f \in [0..n -> X] : Good(f, k)}
<1>1. CASE N = {}
  <2>1. n \in 0..n /\ n \notin N
    BY <1>1
  <2>2. PICK f \in [0..n -> X] : Good(f, n)
    BY <2>1
  <2>3. f = Chain(n, base, step, f)
    BY <2>2 DEF Chain
  <2> QED
    BY <2>3
<1>2. CASE N # {}
  <2>1. PICK k \in N : \A m \in N : k <= m
    <3>1. N \subseteq Nat
      OBVIOUS
    <3> HIDE DEF N
    <3> QED
      BY <1>2, <3>1, LeastNumber
  <2>2. k \in 0..n
    OBVIOUS
  <2>3. ASSUME k = 0 PROVE FALSE
    <3> DEFINE f == [i \in 0..n |-> base]
    <3>1. f \in [0..n -> X] /\ Good(f, 0)
      BY DEF Chain
    <3> QED
      BY <2>1, <2>3, <3>1
  <2>4. k - 1 \in 0..n /\ k - 1 \notin N
    <3>1. k - 1 \in 0..n
      BY <2>2, <2>3
    <3>2. ~(k <= k - 1)
      BY <2>2
    <3> HIDE DEF N
    <3> QED
      BY <2>1, <3>1, <3>2
  <2>5. PICK f \in [0..n -> X] : Good(f, k - 1)
    BY <2>4
  <2> DEFINE g == [f EXCEPT ![k] = step[<<f[k - 1], k>>]]
  <2>6. k \in 1..n /\ step[<<f[k - 1], k>>] \in X
    BY <2>2, <2>3, <2>4
  <2>7. g \in [0..n -> X]
    BY <2>6
  <2>8. ASSUME NEW i \in 0..k PROVE g[i] = Chain(n, base, step, g)[i]
    <3>1. i \in 0..n /\ (i # k => g[i] = f[i]) /\ g[k] = step[<<f[k - 1], k>>]
      BY <2>2
    <3>2. i # 0 => i - 1 \in 0..n /\ g[i - 1] = f[i - 1]
      BY <2>2
    <3> HIDE DEF g
    <3>3. CASE i = k
      <4>1. k # 0 /\ k \in 0..n
        BY <2>6
      <4>2. Chain(n, base, step, g)[k] = step[<<g[k - 1], k>>]
        BY <4>1 DEF Chain
      <4>3. g[k - 1] = f[k - 1]
        BY <3>2, <3>3, <4>1
      <4> QED
        BY <3>1, <3>3, <4>2, <4>3
    <3>4. CASE i # k
      <4>1. i \in 0..(k - 1)
        BY <2>2, <3>4
      <4>2. f[i] = Chain(n, base, step, f)[i]
        BY <2>5, <4>1
      <4> QED
        BY <3>1, <3>2, <3>4, <4>2 DEF Chain
    <3> QED
      BY <3>3, <3>4
  <2> QED
    BY <2>1, <2>7, <2>8
<1> QED
  BY <1>1, <1>2

-----------------------------------------------------------------------------
(* Sorting. *)

Ranges == Seq(Spans)

LEMMA SpanBounds ==
    ASSUME NEW r \in Spans
    PROVE  r.from \in Nat /\ r.to \in Nat /\ r.from < r.to /\ r.to <= MaxMs
  BY StudyStatsAssumption DEF Spans

\* A list of ranges is a function from places to ranges.
LEMMA RangesAt ==
    ASSUME NEW rs \in Ranges
    PROVE  /\ DOMAIN rs = 1..Len(rs) /\ Len(rs) \in Nat
           /\ \A i \in DOMAIN rs : /\ i \in Nat /\ rs[i] \in Spans
                                    /\ rs[i].from \in Nat /\ rs[i].to \in Nat
                                    /\ rs[i].from < rs[i].to /\ rs[i].to <= MaxMs
<1>1. /\ DOMAIN rs = 1..Len(rs) /\ Len(rs) \in Nat
      /\ \A i \in DOMAIN rs : i \in Nat /\ rs[i] \in Spans
  BY DEF Ranges
<1> QED
  BY <1>1, SpanBounds

LEMMA PlaceTypes ==
    ASSUME NEW rs \in Ranges, NEW i \in DOMAIN rs
    PROVE  Place(rs, i) \in DOMAIN rs
<1> DEFINE S == {j \in DOMAIN rs : j = i \/ Precedes(rs, j, i)}
<1>1. DOMAIN rs = 1..Len(rs) /\ Len(rs) \in Nat
  BY RangesAt
<1>2. IsFiniteSet(1..Len(rs)) /\ Cardinality(1..Len(rs)) = Len(rs)
  <2>1. 1 \in Int /\ Len(rs) \in Int /\ (1 > Len(rs) => Len(rs) = 0) /\ Len(rs) - 1 + 1 = Len(rs)
    BY <1>1
  <2> QED
    BY <2>1, FS_Interval
<1>3. S \subseteq 1..Len(rs) /\ i \in S
  BY <1>1
<1> HIDE DEF S
<1>4. IsFiniteSet(S) /\ Cardinality(S) <= Len(rs)
  BY <1>2, <1>3, FS_Subset
<1>5. Cardinality(S) \in Nat /\ Cardinality(S) # 0
  BY <1>3, <1>4, FS_CardinalityType, FS_EmptySet
<1>6. Place(rs, i) = Cardinality(S)
  BY DEF Place, S
<1> QED
  BY <1>1, <1>4, <1>5, <1>6

LEMMA PlacesRise ==
    ASSUME NEW rs \in Ranges, NEW i \in DOMAIN rs, NEW j \in DOMAIN rs, Precedes(rs, i, j)
    PROVE  Place(rs, i) < Place(rs, j)
<1> DEFINE S(k) == {l \in DOMAIN rs : l = k \/ Precedes(rs, l, k)}
<1>1. DOMAIN rs = 1..Len(rs) /\ Len(rs) \in Nat
      /\ \A k \in DOMAIN rs : k \in Nat /\ rs[k].from \in Nat
  BY RangesAt
<1>2. S(i) \subseteq S(j)
  BY <1>1 DEF Precedes
<1>3. j \in S(j) /\ j \notin S(i)
  BY <1>1 DEF Precedes
<1>4. IsFiniteSet(S(j))
  <2>1. 1 \in Int /\ Len(rs) \in Int /\ S(j) \in SUBSET (1..Len(rs))
    BY <1>1
  <2>2. IsFiniteSet(1..Len(rs))
    BY <2>1, FS_Interval
  <2> HIDE DEF S
  <2> QED
    BY <2>1, <2>2, FS_Subset
<1>5. Place(rs, i) = Cardinality(S(i)) /\ Place(rs, j) = Cardinality(S(j))
  BY DEF Place
<1>6. Place(rs, i) \in Nat /\ Place(rs, j) \in Nat
  BY <1>1, PlaceTypes
<1> HIDE DEF S
<1>7. Cardinality(S(i)) <= Cardinality(S(j)) /\ Cardinality(S(i)) # Cardinality(S(j))
  BY <1>2, <1>3, <1>4, FS_Subset
<1> QED
  BY <1>5, <1>6, <1>7

\* Every place is taken by one range.
LEMMA PlacesFilled ==
    ASSUME NEW rs \in Ranges, NEW n \in DOMAIN rs
    PROVE  \E i \in DOMAIN rs : Place(rs, i) = n
<1> DEFINE f == [i \in DOMAIN rs |-> Place(rs, i)]
<1>1. DOMAIN rs = 1..Len(rs) /\ Len(rs) \in Nat
      /\ \A k \in DOMAIN rs : k \in Nat /\ rs[k].from \in Nat
  BY RangesAt
<1>2. f \in [DOMAIN rs -> DOMAIN rs]
  BY PlaceTypes
<1>3. ASSUME NEW i \in DOMAIN rs, NEW j \in DOMAIN rs, i # j PROVE f[i] # f[j]
  <2>1. Precedes(rs, i, j) \/ Precedes(rs, j, i)
    BY <1>1, <1>3 DEF Precedes
  <2>2. Place(rs, i) \in Nat /\ Place(rs, j) \in Nat
    BY <1>1, PlaceTypes
  <2>3. Place(rs, i) < Place(rs, j) \/ Place(rs, j) < Place(rs, i)
    BY <2>1, PlacesRise
  <2> QED
    BY <2>2, <2>3
<1> HIDE DEF f
<1>4. f \in Injection(DOMAIN rs, DOMAIN rs)
  BY <1>2, <1>3, Zenon DEF Injection, IsInjective
<1>5. IsFiniteSet(DOMAIN rs)
  BY <1>1, FS_Interval
<1>6. f \in Surjection(DOMAIN rs, DOMAIN rs)
  BY <1>4, <1>5, FS_Injection
<1>7. PICK i \in DOMAIN rs : f[i] = n
  BY <1>6 DEF Surjection
<1> QED
  BY <1>7 DEF f

\* Sorting keeps the ranges and orders them by start.
LEMMA SortedRanges ==
    ASSUME NEW rs \in Ranges
    PROVE  LET s == SortedByStart(rs)
           IN  /\ s \in Ranges /\ Len(s) = Len(rs)
               /\ \A n \in DOMAIN rs : \E i \in DOMAIN rs : s[n] = rs[i]
               /\ \A i \in DOMAIN rs : \E n \in DOMAIN rs : s[n] = rs[i]
               /\ \A m, n \in DOMAIN rs : m < n => s[m].from <= s[n].from
<1> DEFINE s == SortedByStart(rs)
           at(n) == CHOOSE i \in DOMAIN rs : Place(rs, i) = n
<1>1. DOMAIN rs = 1..Len(rs) /\ Len(rs) \in Nat
      /\ \A k \in DOMAIN rs : k \in Nat /\ rs[k] \in Spans /\ rs[k].from \in Nat
  BY RangesAt
<1>2. s = [n \in DOMAIN rs |-> rs[at(n)]]
  BY DEF SortedByStart
<1>3. \A n \in DOMAIN rs : at(n) \in DOMAIN rs /\ Place(rs, at(n)) = n
  BY PlacesFilled
<1> HIDE DEF s, at
<1>4. s \in Ranges /\ Len(s) = Len(rs)
  <2>1. s \in [1..Len(rs) -> Spans]
    BY <1>1, <1>2, <1>3
  <2> QED
    BY <1>1, <2>1, SeqDef, LenProperties DEF Ranges
<1>5. ASSUME NEW i \in DOMAIN rs PROVE \E n \in DOMAIN rs : s[n] = rs[i]
  <2> DEFINE n == Place(rs, i)
  <2>1. n \in DOMAIN rs
    BY PlaceTypes
  <2>2. at(n) \in DOMAIN rs /\ Place(rs, at(n)) = Place(rs, i)
    BY <1>3, <2>1
  <2>3. at(n) = i
    <3>1. Place(rs, i) \in Nat
      BY <1>1, <2>1
    <3>2. ~(Place(rs, i) < Place(rs, i))
      BY <3>1
    <3>3. ~Precedes(rs, at(n), i) /\ ~Precedes(rs, i, at(n))
      BY <2>2, <3>2, PlacesRise
    <3> HIDE DEF n
    <3> QED
      BY <1>1, <2>2, <3>3 DEF Precedes
  <2> QED
    BY <1>2, <2>1, <2>3
<1>6. ASSUME NEW m \in DOMAIN rs, NEW n \in DOMAIN rs, m < n PROVE s[m].from <= s[n].from
  <2>1. at(m) \in DOMAIN rs /\ at(n) \in DOMAIN rs /\ Place(rs, at(m)) = m /\ Place(rs, at(n)) = n
    BY <1>3
  <2>2. ~Precedes(rs, at(n), at(m))
    <3>1. Precedes(rs, at(n), at(m)) => n < m
      BY <2>1, PlacesRise
    <3> QED
      BY <1>1, <1>6, <3>1
  <2>3. ~(rs[at(n)].from < rs[at(m)].from)
    BY <2>2 DEF Precedes
  <2> QED
    BY <1>1, <1>2, <2>1, <2>3
<1>7. \A n \in DOMAIN rs : \E i \in DOMAIN rs : s[n] = rs[i]
  BY <1>2, <1>3
<1>8. s = SortedByStart(rs)
  BY DEF s
<1> QED
  BY <1>4, <1>5, <1>6, <1>7, <1>8

-----------------------------------------------------------------------------
(* Joining. *)

LEMMA MaxOfTwo ==
    ASSUME NEW a \in Nat, NEW b \in Nat
    PROVE  Max({a, b}) = IF a >= b THEN a ELSE b
<1> DEFINE m == IF a >= b THEN a ELSE b
<1>1. m \in {a, b} /\ \A y \in {a, b} : m >= y
  OBVIOUS
<1>2. \A x \in {a, b} : (\A y \in {a, b} : x >= y) => x = m
  OBVIOUS
<1>3. Max({a, b}) = CHOOSE x \in {a, b} : \A y \in {a, b} : x >= y
  BY DEF Max
<1> HIDE DEF m
<1>4. Max({a, b}) = m
  BY <1>1, <1>2, <1>3
<1> QED
  BY <1>4 DEF m

\* Ranges that neither overlap nor touch.
Apart(rs) == \A i, j \in DOMAIN rs : i < j => rs[i].to < rs[j].from

\* What the first n ranges cover.
PointsTo(rs, n) == UNION {rs[i].from .. (rs[i].to - 1) : i \in 1..n}

LEMMA PointIn ==
    ASSUME NEW rs \in Ranges, NEW x
    PROVE  x \in Points(rs) <=> \E i \in DOMAIN rs : x \in rs[i].from .. (rs[i].to - 1)
  BY DEF Points

LEMMA PointInTo ==
    ASSUME NEW rs, NEW n, NEW x
    PROVE  x \in PointsTo(rs, n) <=> \E i \in 1..n : x \in rs[i].from .. (rs[i].to - 1)
  BY DEF PointsTo

\* Points are times that a range may hold.
LEMMA PointTypes ==
    ASSUME NEW rs \in Ranges
    PROVE  Points(rs) \subseteq 0..MaxMs
<1> SUFFICES ASSUME NEW x \in Points(rs) PROVE x \in 0..MaxMs
  OBVIOUS
<1>1. PICK i \in DOMAIN rs : x \in rs[i].from .. (rs[i].to - 1)
  BY PointIn
<1> QED
  BY <1>1, RangesAt, StudyStatsAssumption

\* One more range joined to those kept, of which the last begins no later.
LEMMA JoinedType ==
    ASSUME NEW kept \in Ranges, NEW r \in Spans
    PROVE  /\ Joined(kept, r) \in Ranges /\ Joined(kept, r) # <<>>
           /\ kept # <<>> => Len(kept) \in DOMAIN kept
           /\ LET k == Len(kept) IN
              IF kept # <<>> /\ r.from <= kept[k].to
                THEN /\ Len(Joined(kept, r)) = k
                     /\ Joined(kept, r)[k].from = kept[k].from
                     /\ Joined(kept, r)[k].to = IF kept[k].to >= r.to THEN kept[k].to ELSE r.to
                     /\ \A i \in DOMAIN kept \ {k} : Joined(kept, r)[i] = kept[i]
                ELSE /\ Len(Joined(kept, r)) = k + 1
                     /\ Joined(kept, r)[k + 1] = r
                     /\ \A i \in DOMAIN kept : Joined(kept, r)[i] = kept[i]
<1> DEFINE k == Len(kept)
           m == Max({kept[k].to, r.to})
           e == [kept[k] EXCEPT !.to = m]
<1>1. DOMAIN kept = 1..k /\ k \in Nat /\ \A i \in DOMAIN kept : i \in Nat /\ kept[i] \in Spans
  BY RangesAt
<1>2. kept # <<>> => k \in DOMAIN kept
  <2>1. kept # <<>> => k # 0
    BY EmptySeq DEF Ranges
  <2> QED
    BY <1>1, <2>1
<1>3. CASE kept # <<>> /\ r.from <= kept[k].to
  <2>1. Joined(kept, r) = [kept EXCEPT ![k] = e]
    BY <1>3 DEF Joined
  <2>2. kept[k].to \in Nat /\ r.to \in Nat /\ kept[k] \in Spans
    BY <1>1, <1>2, <1>3, SpanBounds
  <2>3. m = IF kept[k].to >= r.to THEN kept[k].to ELSE r.to
    BY <2>2, MaxOfTwo
  <2>4. e.from = kept[k].from /\ e.to = m
    BY <2>2 DEF Spans
  <2>5. e \in Spans
    <3>1. m \in 0..MaxMs /\ kept[k].from < m
      BY <2>2, <2>3, SpanBounds, StudyStatsAssumption
    <3> HIDE DEF m
    <3> QED
      BY <2>2, <3>1 DEF Spans
  <2> HIDE DEF e
  <2>6. Joined(kept, r) \in Ranges /\ Len(Joined(kept, r)) = k
    <3>1. [kept EXCEPT ![k] = e] \in [1..k -> Spans]
      BY <1>1, <2>5
    <3> QED
      BY <1>1, <2>1, <3>1, SeqDef, LenProperties DEF Ranges
  <2>7. Joined(kept, r)[k] = e /\ \A i \in DOMAIN kept \ {k} : Joined(kept, r)[i] = kept[i]
    BY <1>1, <1>2, <1>3, <2>1
  <2>8. Joined(kept, r) # <<>>
    BY <1>1, <1>2, <1>3, <2>6
  <2> QED
    BY <1>2, <1>3, <2>3, <2>4, <2>6, <2>7, <2>8
<1>4. CASE ~(kept # <<>> /\ r.from <= kept[k].to)
  <2>1. Joined(kept, r) = Append(kept, r)
    BY <1>4 DEF Joined
  <2>2. /\ Append(kept, r) \in Ranges /\ Len(Append(kept, r)) = k + 1
        /\ Append(kept, r)[k + 1] = r
        /\ \A i \in DOMAIN kept : Append(kept, r)[i] = kept[i]
    BY <1>1, AppendProperties DEF Ranges
  <2>3. Append(kept, r) # <<>>
    BY <1>1, <2>2
  <2> QED
    BY <1>2, <1>4, <2>1, <2>2, <2>3
<1> QED
  BY <1>3, <1>4

LEMMA JoinedApart ==
    ASSUME NEW kept \in Ranges, NEW r \in Spans, Apart(kept),
           kept # <<>> => kept[Len(kept)].from <= r.from
    PROVE  LET j == Joined(kept, r) IN
           /\ Apart(j) /\ j[Len(j)].from <= r.from
           /\ Points(j) = Points(kept) \cup (r.from .. (r.to - 1))
<1> DEFINE k == Len(kept)
           j == Joined(kept, r)
<1>1. j \in Ranges /\ j # <<>> /\ (kept # <<>> => k \in DOMAIN kept)
  BY JoinedType
<1>2. /\ DOMAIN kept = 1..k /\ k \in Nat
      /\ \A i \in DOMAIN kept : /\ i \in Nat /\ kept[i].from \in Nat /\ kept[i].to \in Nat
                                /\ kept[i].from < kept[i].to
  BY RangesAt
<1>3. /\ DOMAIN j = 1..Len(j)
      /\ \A i \in DOMAIN j : i \in Nat /\ j[i].from \in Nat /\ j[i].to \in Nat
  BY <1>1, RangesAt
<1>4. r.from \in Nat /\ r.to \in Nat /\ r.from < r.to
  BY SpanBounds
<1>5. CASE kept # <<>> /\ r.from <= kept[k].to
  <2>1. /\ Len(j) = k /\ DOMAIN j = DOMAIN kept /\ k \in DOMAIN kept
        /\ j[k].from = kept[k].from
        /\ j[k].to = IF kept[k].to >= r.to THEN kept[k].to ELSE r.to
        /\ \A i \in DOMAIN kept \ {k} : j[i] = kept[i]
    BY <1>1, <1>2, <1>3, <1>5, JoinedType
  <2> HIDE DEF j
  <2>2. Apart(j)
    <3> SUFFICES ASSUME NEW a \in DOMAIN j, NEW b \in DOMAIN j, a < b
                 PROVE  j[a].to < j[b].from
      BY DEF Apart
    <3>1. a # k /\ j[a] = kept[a] /\ j[b].from = kept[b].from
      BY <1>2, <2>1
    <3> QED
      BY <2>1, <3>1 DEF Apart
  <2>3. \A x \in Int : x \in kept[k].from .. (kept[k].to - 1) \/ x \in r.from .. (r.to - 1)
                         <=> x \in j[k].from .. (j[k].to - 1)
    BY <1>2, <1>4, <1>5, <2>1
  <2>4. ASSUME NEW x
        PROVE  x \in Points(j) <=> x \in Points(kept) \/ x \in r.from .. (r.to - 1)
    <3>1. x \in Points(j) <=> \/ x \in j[k].from .. (j[k].to - 1)
                              \/ \E i \in DOMAIN kept \ {k} : x \in kept[i].from .. (kept[i].to - 1)
      BY <1>1, <2>1, PointIn
    <3>2. x \in Points(kept) <=> \/ x \in kept[k].from .. (kept[k].to - 1)
                                 \/ \E i \in DOMAIN kept \ {k} : x \in kept[i].from .. (kept[i].to - 1)
      BY <2>1, PointIn
    <3>3. x \in j[k].from .. (j[k].to - 1)
             <=> x \in kept[k].from .. (kept[k].to - 1) \/ x \in r.from .. (r.to - 1)
      BY <2>3
    <3> QED
      BY <3>1, <3>2, <3>3
  <2>5. Points(j) = Points(kept) \cup (r.from .. (r.to - 1))
    BY <2>4
  <2>6. j[Len(j)].from <= r.from
    BY <1>5, <2>1
  <2> QED
    BY <2>2, <2>5, <2>6 DEF j
<1>6. CASE ~(kept # <<>> /\ r.from <= kept[k].to)
  <2>1. /\ Len(j) = k + 1 /\ j[k + 1] = r
        /\ \A i \in DOMAIN kept : j[i] = kept[i]
    BY <1>6, JoinedType
  <2> HIDE DEF j
  <2>2. DOMAIN j = DOMAIN kept \cup {k + 1}
    BY <1>2, <1>3, <2>1
  <2>3. Apart(j)
    <3> SUFFICES ASSUME NEW a \in DOMAIN j, NEW b \in DOMAIN j, a < b
                 PROVE  j[a].to < j[b].from
      BY DEF Apart
    <3>1. a \in DOMAIN kept /\ j[a] = kept[a]
      BY <1>2, <1>3, <2>1, <2>2
    <3>2. CASE b \in DOMAIN kept
      BY <2>1, <3>1, <3>2 DEF Apart
    <3>3. CASE b = k + 1
      <4>1. kept # <<>> /\ k \in DOMAIN kept
        BY <1>1, <3>1
      <4>2. kept[k].to < r.from
        BY <1>2, <1>4, <1>6, <4>1
      <4>3. kept[a].to <= kept[k].to
        BY <1>2, <3>1, <4>1 DEF Apart
      <4> QED
        BY <1>2, <1>4, <2>1, <3>1, <3>3, <4>1, <4>2, <4>3
    <3> QED
      BY <2>2, <3>2, <3>3
  <2>4. ASSUME NEW x
        PROVE  x \in Points(j) <=> x \in Points(kept) \/ x \in r.from .. (r.to - 1)
    BY <1>1, <2>1, <2>2, PointIn
  <2>5. Points(j) = Points(kept) \cup (r.from .. (r.to - 1))
    BY <2>4
  <2>6. j[Len(j)].from <= r.from
    BY <1>4, <2>1
  <2> QED
    BY <2>3, <2>5, <2>6 DEF j
<1> QED
  BY <1>5, <1>6

\* The ranges merged so far, one more at a time.
MergeOf(rs, f) ==
    [n \in 0..Len(rs) |-> IF n = 0 THEN <<>> ELSE Joined(f[n - 1], SortedByStart(rs)[n])]
Merged(rs) == CHOOSE f : f = MergeOf(rs, f)

LEMMA MergedSteps ==
    ASSUME NEW rs \in Ranges
    PROVE  /\ NormalizeRanges(rs) = Merged(rs)[Len(rs)]
           /\ Merged(rs)[0] = <<>>
           /\ \A n \in 1..Len(rs) : Merged(rs)[n] = Joined(Merged(rs)[n - 1], SortedByStart(rs)[n])
<1> DEFINE s == SortedByStart(rs)
           k == Len(rs)
           step == [p \in Ranges \X (1..k) |-> Joined(p[1], s[p[2]])]
<1>1. k \in Nat /\ DOMAIN s = 1..k /\ \A n \in 1..k : s[n] \in Spans
  <2>1. s \in Ranges /\ Len(s) = k
    BY SortedRanges
  <2> HIDE DEF s
  <2> QED
    BY <2>1, RangesAt
<1>2. <<>> \in Ranges
  BY DEF Ranges
<1> HIDE DEF s, k
<1>3. step \in [Ranges \X (1..k) -> Ranges]
  <2>1. \A p \in Ranges \X (1..k) : Joined(p[1], s[p[2]]) \in Ranges
    BY <1>1, JoinedType
  <2> QED
    BY <2>1
<1>4. \A f \in Ranges, n \in 1..k : step[<<f, n>>] = Joined(f, s[n])
  OBVIOUS
<1> HIDE DEF step
<1>5. PICK f \in [0..k -> Ranges] : f = Chain(k, <<>>, step, f)
  <2>1. k \in Nat
    BY <1>1
  <2> DEFINE base == <<>>
  <2>2. base \in Ranges
    BY <1>2
  <2> HIDE DEF base
  <2>3. \A X : \A b \in X, g \in [X \X (1..k) -> X] : \E f \in [0..k -> X] : f = Chain(k, b, g, f)
    BY <2>1, ChainExists, Zenon
  <2>4. \A b \in Ranges, g \in [Ranges \X (1..k) -> Ranges] :
           \E f \in [0..k -> Ranges] : f = Chain(k, b, g, f)
    BY <2>3, Zenon
  <2>5. \E f \in [0..k -> Ranges] : f = Chain(k, base, step, f)
    BY <2>2, <1>3, <2>4, Zenon
  <2> QED
    BY <2>5 DEF base
<1>6. ASSUME NEW n \in 0..k
      PROVE  f[n] = IF n = 0 THEN <<>> ELSE Joined(f[n - 1], s[n])
  <2>1. f[n] = IF n = 0 THEN <<>> ELSE step[<<f[n - 1], n>>]
    BY <1>5 DEF Chain
  <2>2. n # 0 => n \in 1..k /\ f[n - 1] \in Ranges
    BY <1>1, <1>5
  <2> QED
    BY <1>4, <2>1, <2>2
<1>7. f = MergeOf(rs, f)
  <2>1. f = [n \in 0..k |-> f[n]]
    BY <1>5
  <2>2. f = [n \in 0..k |-> IF n = 0 THEN <<>> ELSE Joined(f[n - 1], s[n])]
    BY <1>6, <2>1, Zenon
  <2> QED
    BY <2>2 DEF MergeOf, k, s
<1>8. Merged(rs) = MergeOf(rs, Merged(rs))
  BY <1>7, Zenon DEF Merged
<1>9. NormalizeRanges(rs) = Merged(rs)[Len(rs)]
  BY DEF NormalizeRanges, Merged, MergeOf
<1> HIDE DEF Merged
<1>10. ASSUME NEW n \in 0..k
       PROVE  Merged(rs)[n] = IF n = 0 THEN <<>> ELSE Joined(Merged(rs)[n - 1], s[n])
  BY <1>8 DEF MergeOf, k, s
<1>11. 0 \in 0..k /\ \A n \in 1..k : n \in 0..k /\ n # 0
  BY <1>1
<1> QED
  BY <1>9, <1>10, <1>11 DEF k, s

\* What the first n ranges merge to.
MergedTo(rs, n) ==
    LET m == Merged(rs)[n] IN
    /\ m \in Ranges /\ Apart(m)
    /\ Points(m) = PointsTo(SortedByStart(rs), n)
    /\ n # 0 => m[Len(m)].from <= SortedByStart(rs)[n].from

LEMMA MergedKeeps ==
    ASSUME NEW rs \in Ranges, NEW n \in 1..Len(rs), MergedTo(rs, n - 1)
    PROVE  MergedTo(rs, n)
<1> DEFINE s == SortedByStart(rs)
           kept == Merged(rs)[n - 1]
           m == Merged(rs)[n]
<1>1. s \in Ranges /\ Len(s) = Len(rs) /\ DOMAIN s = 1..Len(rs) /\ DOMAIN rs = 1..Len(rs)
      /\ Len(rs) \in Nat
  <2>1. s \in Ranges /\ Len(s) = Len(rs)
    BY SortedRanges
  <2> QED
    BY <2>1, RangesAt
<1>2. m = Joined(kept, s[n]) /\ s[n] \in Spans
  BY <1>1, MergedSteps, RangesAt
<1>3. kept \in Ranges /\ Apart(kept) /\ Points(kept) = PointsTo(s, n - 1)
      /\ (n - 1 # 0 => kept[Len(kept)].from <= s[n - 1].from)
  BY DEF MergedTo
<1>4. kept # <<>> => kept[Len(kept)].from <= s[n].from
  <2>1. CASE n = 1
    BY <2>1, MergedSteps
  <2>2. CASE n # 1
    <3>1. n - 1 \in DOMAIN rs /\ n \in DOMAIN rs /\ n - 1 < n /\ n - 1 # 0
      BY <1>1, <2>2
    <3>2. s[n - 1].from <= s[n].from
      BY <3>1, SortedRanges
    <3>3. s[n - 1].from \in Nat /\ s[n].from \in Nat
      <4> HIDE DEF s
      <4> QED
        BY <1>1, <3>1, RangesAt
    <3>4. kept # <<>> => kept[Len(kept)].from \in Nat
      <4> HIDE DEF kept
      <4> QED
        BY <1>3, JoinedType, RangesAt, <1>2
    <3> HIDE DEF s, kept
    <3> QED
      BY <1>3, <3>1, <3>2, <3>3, <3>4
  <2> QED
    BY <2>1, <2>2
<1> HIDE DEF kept, m, s
<1>5. /\ m \in Ranges /\ Apart(m) /\ m[Len(m)].from <= s[n].from
      /\ Points(m) = Points(kept) \cup (s[n].from .. (s[n].to - 1))
  BY <1>2, <1>3, <1>4, JoinedApart, JoinedType
<1>6. PointsTo(s, n) = PointsTo(s, n - 1) \cup (s[n].from .. (s[n].to - 1))
  <2>1. 1..n = 1..(n - 1) \cup {n}
    BY <1>1
  <2> QED
    BY <2>1 DEF PointsTo
<1>7. Points(m) = PointsTo(s, n)
  BY <1>3, <1>5, <1>6
<1> QED
  BY <1>5, <1>7 DEF MergedTo, s, m

\* The normal form covers what was covered, by ranges that lie apart.
LEMMA NormalForm ==
    ASSUME NEW rs \in Ranges
    PROVE  /\ NormalizeRanges(rs) \in Ranges /\ Apart(NormalizeRanges(rs))
           /\ Points(NormalizeRanges(rs)) = Points(rs)
<1> DEFINE s == SortedByStart(rs)
           N == {n \in 0..Len(rs) : ~MergedTo(rs, n)}
<1>1. s \in Ranges /\ Len(s) = Len(rs) /\ DOMAIN s = 1..Len(rs) /\ DOMAIN rs = 1..Len(rs)
      /\ Len(rs) \in Nat
  <2>1. s \in Ranges /\ Len(s) = Len(rs)
    BY SortedRanges
  <2> QED
    BY <2>1, RangesAt
<1>2. MergedTo(rs, 0)
  <2>1. Merged(rs)[0] = <<>> /\ <<>> \in Ranges /\ DOMAIN <<>> = {}
    BY MergedSteps DEF Ranges
  <2>2. Points(<<>>) = {} /\ PointsTo(s, 0) = {}
    BY <2>1 DEF Points, PointsTo
  <2> QED
    BY <2>1, <2>2 DEF MergedTo, Apart
<1>3. N = {}
  <2> SUFFICES ASSUME N # {} PROVE FALSE
    OBVIOUS
  <2>1. PICK n \in N : \A m \in N : n <= m
    <3>1. N \subseteq Nat
      OBVIOUS
    <3> HIDE DEF N
    <3> QED
      BY <3>1, LeastNumber
  <2>2. n \in 0..Len(rs) /\ ~MergedTo(rs, n)
    OBVIOUS
  <2>3. n \in 1..Len(rs) /\ n - 1 \in 0..Len(rs) /\ ~(n <= n - 1)
    BY <1>1, <1>2, <2>2
  <2>4. MergedTo(rs, n - 1)
    BY <2>1, <2>3
  <2> QED
    BY <2>2, <2>3, <2>4, MergedKeeps
<1>4. MergedTo(rs, Len(rs))
  BY <1>1, <1>3
<1>5. PointsTo(s, Len(rs)) = Points(rs)
  <2>1. \A n \in DOMAIN rs : \E i \in DOMAIN rs : s[n] = rs[i]
    BY SortedRanges
  <2>2. \A i \in DOMAIN rs : \E n \in DOMAIN rs : s[n] = rs[i]
    BY SortedRanges
  <2> HIDE DEF s
  <2>3. ASSUME NEW x PROVE x \in PointsTo(s, Len(rs)) <=> x \in Points(rs)
    <3>1. ASSUME x \in PointsTo(s, Len(rs)) PROVE x \in Points(rs)
      <4>1. PICK n \in DOMAIN rs : x \in s[n].from .. (s[n].to - 1)
        BY <1>1, <3>1, PointInTo
      <4>2. PICK i \in DOMAIN rs : s[n] = rs[i]
        BY <2>1
      <4> QED
        BY <4>1, <4>2, PointIn
    <3>2. ASSUME x \in Points(rs) PROVE x \in PointsTo(s, Len(rs))
      <4>1. PICK i \in DOMAIN rs : x \in rs[i].from .. (rs[i].to - 1)
        BY <3>2, PointIn
      <4>2. PICK n \in DOMAIN rs : s[n] = rs[i]
        BY <2>2
      <4> QED
        BY <1>1, <4>1, <4>2, PointInTo
    <3> QED
      BY <3>1, <3>2
  <2> QED
    BY <2>3
<1> QED
  BY <1>4, <1>5, MergedSteps DEF MergedTo

-----------------------------------------------------------------------------
(* Adding up. *)

SumOf(rs, f) ==
    [n \in 0..Len(rs) |-> IF n = 0 THEN 0 ELSE f[n - 1] + (rs[n].to - rs[n].from)]
Sums(rs) == CHOOSE f : f = SumOf(rs, f)

LEMMA SumSteps ==
    ASSUME NEW rs \in Ranges
    PROVE  /\ SumRanges(rs) = Sums(rs)[Len(rs)]
           /\ Sums(rs)[0] = 0
           /\ \A n \in 1..Len(rs) : Sums(rs)[n] = Sums(rs)[n - 1] + (rs[n].to - rs[n].from)
<1> DEFINE k == Len(rs)
           step == [p \in Nat \X (1..k) |-> p[1] + (rs[p[2]].to - rs[p[2]].from)]
<1>1. k \in Nat /\ \A n \in 1..k : rs[n].to - rs[n].from \in Nat
  BY RangesAt
<1> HIDE DEF k
<1>2. step \in [Nat \X (1..k) -> Nat]
  <2>1. \A p \in Nat \X (1..k) : p[1] + (rs[p[2]].to - rs[p[2]].from) \in Nat
    BY <1>1
  <2> QED
    BY <2>1
<1>3. \A f \in Nat, n \in 1..k : step[<<f, n>>] = f + (rs[n].to - rs[n].from)
  OBVIOUS
<1> HIDE DEF step
<1>4. PICK f \in [0..k -> Nat] : f = Chain(k, 0, step, f)
  <2>1. \A X : \A b \in X, g \in [X \X (1..k) -> X] : \E f \in [0..k -> X] : f = Chain(k, b, g, f)
    BY <1>1, ChainExists, Zenon
  <2>2. \A b \in Nat, g \in [Nat \X (1..k) -> Nat] : \E f \in [0..k -> Nat] : f = Chain(k, b, g, f)
    BY <2>1, Zenon
  <2>3. 0 \in Nat
    OBVIOUS
  <2> QED
    BY <1>2, <2>2, <2>3, Zenon
<1>5. ASSUME NEW n \in 0..k
      PROVE  f[n] = IF n = 0 THEN 0 ELSE f[n - 1] + (rs[n].to - rs[n].from)
  <2>1. f[n] = IF n = 0 THEN 0 ELSE step[<<f[n - 1], n>>]
    BY <1>4 DEF Chain
  <2>2. n # 0 => n \in 1..k /\ f[n - 1] \in Nat
    BY <1>1, <1>4
  <2> QED
    BY <1>3, <2>1, <2>2
<1>6. f = SumOf(rs, f)
  <2>1. f = [n \in 0..k |-> f[n]]
    BY <1>4
  <2>2. f = [n \in 0..k |-> IF n = 0 THEN 0 ELSE f[n - 1] + (rs[n].to - rs[n].from)]
    BY <1>5, <2>1, Zenon
  <2> QED
    BY <2>2 DEF SumOf, k
<1>7. Sums(rs) = SumOf(rs, Sums(rs))
  BY <1>6, Zenon DEF Sums
<1>8. SumRanges(rs) = Sums(rs)[Len(rs)]
  BY DEF SumRanges, Sums, SumOf
<1> HIDE DEF Sums
<1>9. ASSUME NEW n \in 0..k
      PROVE  Sums(rs)[n] = IF n = 0 THEN 0 ELSE Sums(rs)[n - 1] + (rs[n].to - rs[n].from)
  BY <1>7 DEF SumOf, k
<1>10. 0 \in 0..k /\ \A n \in 1..k : n \in 0..k /\ n # 0
  BY <1>1
<1> QED
  BY <1>8, <1>9, <1>10 DEF k

\* The first n ranges, which lie apart, are as long as what they cover.
Counts(rs, n) ==
    IsFiniteSet(PointsTo(rs, n)) /\ Sums(rs)[n] = Cardinality(PointsTo(rs, n))

LEMMA CountsKeep ==
    ASSUME NEW rs \in Ranges, Apart(rs), NEW n \in 1..Len(rs), Counts(rs, n - 1)
    PROVE  Counts(rs, n)
<1> DEFINE r == rs[n].from .. (rs[n].to - 1)
           old == PointsTo(rs, n - 1)
<1>1. /\ DOMAIN rs = 1..Len(rs) /\ Len(rs) \in Nat
      /\ \A i \in DOMAIN rs : /\ i \in Nat /\ rs[i].from \in Nat /\ rs[i].to \in Nat
                              /\ rs[i].from < rs[i].to
  BY RangesAt
<1>2. IsFiniteSet(r) /\ Cardinality(r) = rs[n].to - rs[n].from
  <2>1. rs[n].from \in Int /\ rs[n].to - 1 \in Int /\ ~(rs[n].from > rs[n].to - 1)
        /\ (rs[n].to - 1) - rs[n].from + 1 = rs[n].to - rs[n].from
    BY <1>1
  <2> QED
    BY <2>1, FS_Interval
<1>3. r \cap old = {}
  <2> SUFFICES ASSUME NEW x \in r, x \in old PROVE FALSE
    OBVIOUS
  <2>1. PICK i \in 1..(n - 1) : x \in rs[i].from .. (rs[i].to - 1)
    BY PointInTo
  <2>2. i \in DOMAIN rs /\ n \in DOMAIN rs /\ i < n
    BY <1>1, <2>1
  <2>3. rs[i].to < rs[n].from
    BY <2>2 DEF Apart
  <2> QED
    BY <1>1, <2>1, <2>2, <2>3
<1>4. PointsTo(rs, n) = old \cup r
  <2>1. 1..n = 1..(n - 1) \cup {n}
    BY <1>1
  <2> QED
    BY <2>1 DEF PointsTo
<1>5. IsFiniteSet(old) /\ Sums(rs)[n - 1] = Cardinality(old)
  BY DEF Counts
<1>6. Sums(rs)[n] = Sums(rs)[n - 1] + (rs[n].to - rs[n].from)
  BY SumSteps
<1> HIDE DEF r, old
<1>7. old \cap r = {} /\ Cardinality({}) = 0
  BY <1>3, FS_EmptySet
<1>8. IsFiniteSet(old \cup r) /\ Cardinality(old \cup r) = Cardinality(old) + Cardinality(r)
  <2>1. Cardinality(old) \in Nat /\ Cardinality(r) \in Nat
    BY <1>2, <1>5, FS_CardinalityType
  <2>2. IsFiniteSet(old \cup r)
        /\ Cardinality(old \cup r) = Cardinality(old) + Cardinality(r) - Cardinality(old \cap r)
    BY <1>2, <1>5, FS_Union
  <2>3. Cardinality(old \cap r) = 0
    BY <1>7, Zenon
  <2>4. Cardinality(old) + Cardinality(r) - 0 = Cardinality(old) + Cardinality(r)
    BY <2>1
  <2> QED
    BY <2>2, <2>3, <2>4
<1> QED
  BY <1>2, <1>4, <1>5, <1>6, <1>8 DEF Counts

LEMMA SumIsLength ==
    ASSUME NEW rs \in Ranges, Apart(rs)
    PROVE  SumRanges(rs) = Cardinality(Points(rs))
<1> DEFINE N == {n \in 0..Len(rs) : ~Counts(rs, n)}
<1>1. DOMAIN rs = 1..Len(rs) /\ Len(rs) \in Nat
  BY RangesAt
<1>2. Counts(rs, 0)
  <2>1. PointsTo(rs, 0) = {}
    BY DEF PointsTo
  <2> QED
    BY <2>1, SumSteps, FS_EmptySet DEF Counts
<1>3. N = {}
  <2> SUFFICES ASSUME N # {} PROVE FALSE
    OBVIOUS
  <2>1. PICK n \in N : \A m \in N : n <= m
    <3>1. N \subseteq Nat
      OBVIOUS
    <3> HIDE DEF N
    <3> QED
      BY <3>1, LeastNumber
  <2>2. n \in 0..Len(rs) /\ ~Counts(rs, n)
    OBVIOUS
  <2>3. n \in 1..Len(rs) /\ n - 1 \in 0..Len(rs) /\ ~(n <= n - 1)
    BY <1>1, <1>2, <2>2
  <2>4. Counts(rs, n - 1)
    BY <2>1, <2>3
  <2> QED
    BY <2>2, <2>3, <2>4, CountsKeep
<1>4. Counts(rs, Len(rs))
  BY <1>1, <1>3
<1>5. PointsTo(rs, Len(rs)) = Points(rs)
  BY <1>1 DEF PointsTo, Points
<1> QED
  BY <1>4, <1>5, SumSteps DEF Counts

LEMMA Concatenated ==
    ASSUME NEW a \in Ranges, NEW b \in Ranges
    PROVE  a \o b \in Ranges /\ Points(a \o b) = Points(a) \cup Points(b)
<1>1. /\ DOMAIN a = 1..Len(a) /\ Len(a) \in Nat /\ DOMAIN b = 1..Len(b) /\ Len(b) \in Nat
  BY RangesAt
<1>2. /\ a \o b \in Ranges /\ Len(a \o b) = Len(a) + Len(b)
      /\ \A i \in 1..(Len(a) + Len(b)) : (a \o b)[i] = IF i <= Len(a) THEN a[i] ELSE b[i - Len(a)]
  BY ConcatProperties DEF Ranges
<1> DEFINE c == a \o b
<1>3. DOMAIN c = 1..(Len(a) + Len(b))
  BY <1>2, RangesAt
<1>4. \A i \in DOMAIN a : i \in DOMAIN c /\ c[i] = a[i]
  BY <1>1, <1>2, <1>3
<1>5. \A i \in DOMAIN b : i + Len(a) \in DOMAIN c /\ c[i + Len(a)] = b[i]
  BY <1>1, <1>2, <1>3
<1>6. \A i \in DOMAIN c : \/ i \in DOMAIN a /\ c[i] = a[i]
                          \/ i - Len(a) \in DOMAIN b /\ c[i] = b[i - Len(a)]
  BY <1>1, <1>2, <1>3
<1>7. c \in Ranges
  BY <1>2
<1> HIDE DEF c
<1>8. ASSUME NEW x, x \in Points(c) PROVE x \in Points(a) \cup Points(b)
  <2>1. PICK i \in DOMAIN c : x \in c[i].from .. (c[i].to - 1)
    BY <1>7, <1>8, PointIn
  <2> QED
    BY <1>6, <2>1, PointIn
<1>9. ASSUME NEW x, x \in Points(a) PROVE x \in Points(c)
  <2>1. PICK i \in DOMAIN a : x \in a[i].from .. (a[i].to - 1)
    BY <1>9, PointIn
  <2> QED
    BY <1>4, <1>7, <2>1, PointIn
<1>10. ASSUME NEW x, x \in Points(b) PROVE x \in Points(c)
  <2>1. PICK i \in DOMAIN b : x \in b[i].from .. (b[i].to - 1)
    BY <1>10, PointIn
  <2> QED
    BY <1>5, <1>7, <2>1, PointIn
<1>11. Points(c) = Points(a) \cup Points(b)
  BY <1>8, <1>9, <1>10
<1> QED
  BY <1>7, <1>11 DEF c

LEMMA MaxOfThree ==
    ASSUME NEW a \in Nat, NEW b \in Nat, NEW c \in Nat
    PROVE  /\ Max({a, b, c}) \in {a, b, c}
           /\ Max({a, b, c}) >= a /\ Max({a, b, c}) >= b /\ Max({a, b, c}) >= c
<1>1. \E m \in {a, b, c} : \A y \in {a, b, c} : m >= y
  <2>1. CASE a >= b /\ a >= c
    BY <2>1
  <2>2. CASE b >= a /\ b >= c
    BY <2>2
  <2>3. CASE c >= a /\ c >= b
    BY <2>3
  <2> QED
    BY <2>1, <2>2, <2>3
<1> QED
  BY <1>1 DEF Max

LEMMA CoverSize ==
    ASSUME NEW rs \in Ranges
    PROVE  IsFiniteSet(Points(rs)) /\ Cardinality(Points(rs)) \in Nat
<1>1. Points(rs) \in SUBSET (0..MaxMs) /\ 0 \in Int /\ MaxMs \in Int
  BY PointTypes, StudyStatsAssumption
<1>2. IsFiniteSet(0..MaxMs)
  BY <1>1, FS_Interval
<1> QED
  BY <1>1, <1>2, FS_Subset, FS_CardinalityType

\* A row holds what h says was reported.
Tells(s, h) ==
    /\ h.ms \in Nat
    /\ s.ranges \in Ranges /\ Apart(s.ranges) /\ Points(s.ranges) = h.points
    /\ s.ms = Max({h.ms, Cardinality(h.points)})

LEMMA ReportTells ==
    ASSUME NEW ms \in Nat, NEW rs \in Ranges
    PROVE  Tells(Report(ms, rs), [ms |-> ms, points |-> Points(rs)])
<1> DEFINE norm == NormalizeRanges(rs)
           r == Report(ms, rs)
<1>1. norm \in Ranges /\ Apart(norm) /\ Points(norm) = Points(rs)
  BY NormalForm
<1>2. r.ranges = norm /\ r.ms = Max({ms, SumRanges(norm)})
  BY DEF Report
<1> HIDE DEF norm, r
<1>3. SumRanges(norm) = Cardinality(Points(rs))
  BY <1>1, SumIsLength
<1> QED
  BY <1>1, <1>2, <1>3 DEF Tells, r

\* Merging a report adds it to what the row tells, whatever the row holds already.
LEMMA MergeTells ==
    ASSUME NEW s, NEW h, Tells(s, h), NEW r, NEW g, Tells(r, g)
    PROVE  Tells(Merge(s, r), [ms |-> Max({h.ms, g.ms}), points |-> h.points \cup g.points])
<1> DEFINE all == s.ranges \o r.ranges
           norm == NormalizeRanges(all)
           m == Merge(s, r)
           P == Cardinality(h.points)
           Q == Cardinality(g.points)
           U == Cardinality(h.points \cup g.points)
<1>1. /\ s.ranges \in Ranges /\ r.ranges \in Ranges /\ h.ms \in Nat /\ g.ms \in Nat
      /\ Points(s.ranges) = h.points /\ Points(r.ranges) = g.points
      /\ s.ms = Max({h.ms, P}) /\ r.ms = Max({g.ms, Q})
  BY DEF Tells
<1>2. all \in Ranges /\ Points(all) = h.points \cup g.points
  BY <1>1, Concatenated
<1>3. m.ranges = norm /\ m.ms = Max({s.ms, r.ms, SumRanges(norm)})
  BY DEF Merge
<1>4. norm \in Ranges /\ Apart(norm) /\ Points(norm) = h.points \cup g.points
  <2> HIDE DEF all
  <2> QED
    BY <1>2, NormalForm
<1>5. SumRanges(norm) = U
  <2> HIDE DEF norm
  <2> QED
    BY <1>4, SumIsLength
<1>6. P \in Nat /\ Q \in Nat /\ U \in Nat /\ P <= U /\ Q <= U
  <2>1. P \in Nat /\ Q \in Nat /\ U \in Nat /\ IsFiniteSet(h.points \cup g.points)
    <3> HIDE DEF all
    <3> QED
      BY <1>1, <1>2, CoverSize
  <2>2. h.points \in SUBSET (h.points \cup g.points) /\ g.points \in SUBSET (h.points \cup g.points)
    OBVIOUS
  <2> QED
    BY <2>1, <2>2, FS_Subset
<1> HIDE DEF m, norm, P, Q, U
<1>7. /\ s.ms = IF h.ms >= P THEN h.ms ELSE P
      /\ r.ms = IF g.ms >= Q THEN g.ms ELSE Q
  BY <1>1, <1>6, MaxOfTwo
<1> DEFINE hi == Max({h.ms, g.ms})
<1>8. hi = IF h.ms >= g.ms THEN h.ms ELSE g.ms
  BY <1>1, MaxOfTwo
<1>9. hi \in Nat
  BY <1>1, <1>8
<1> HIDE DEF hi
<1>10. Max({hi, U}) = IF hi >= U THEN hi ELSE U
  BY <1>6, <1>9, MaxOfTwo
<1>11. s.ms \in Nat /\ r.ms \in Nat
  BY <1>1, <1>6, <1>7
<1>12. /\ m.ms \in {s.ms, r.ms, U} /\ m.ms >= s.ms /\ m.ms >= r.ms /\ m.ms >= U
  BY <1>3, <1>5, <1>6, <1>11, MaxOfThree
<1>13. m.ms = Max({hi, U})
  BY <1>1, <1>6, <1>7, <1>8, <1>10, <1>12
<1> QED
  BY <1>3, <1>4, <1>9, <1>13 DEF Tells, m, hi, U

-----------------------------------------------------------------------------
(* The study time of every account. *)

\* The statements of all other requests.
OtherOps == {"user", "profile", "grant", "revoke", "status", "session", "logout", "end",
             "secret", "changed", "request", "handle", "befriend", "unfriend"}

OthersOnly(ss) == IsSeq(ss) /\ Len(ss) \in 1..3 /\ \A i \in DOMAIN ss : ss[i].op \in OtherOps

\* Study time is merged at once, so no call that is under way will touch it, and the rows
\* hold what was reported.
StudyInv ==
    /\ \A i \in DOMAIN todo : todo[i].op \in OtherOps
    /\ ~restored =>
         /\ DOMAIN db.study = Emails /\ DOMAIN sent = Emails
         /\ \A e \in Emails : Tells(db.study[e], sent[e])

LEMMA OtherOpsLeaveStudy ==
    ASSUME NEW d, DOMAIN d = DOMAIN EmptyDb, NEW s, s.op \in OtherOps
    PROVE  DOMAIN Apply(d, s) = DOMAIN EmptyDb /\ Apply(d, s).study = d.study
<1> USE TableNames
<1>1. CASE s.op \in {"user", "profile", "grant", "revoke", "status"}
  BY <1>1 DEF Apply
<1>2. CASE s.op \in {"session", "logout", "end", "secret", "changed"}
  BY <1>2 DEF Apply
<1>3. CASE s.op = "request" \/ s.op = "handle"
  BY <1>3 DEF Apply
<1>4. CASE s.op = "befriend"
  <2>1. Apply(d, s) = [d EXCEPT !.friends = @ \cup {s.arg}]
    BY <1>4 DEF Apply
  <2> QED
    BY <2>1
<1>5. CASE s.op = "unfriend"
  <2>1. Apply(d, s) = [d EXCEPT !.friends = @ \ {s.arg}]
    BY <1>5 DEF Apply
  <2> QED
    BY <2>1
<1> QED
  BY <1>1, <1>2, <1>3, <1>4, <1>5 DEF OtherOps

LEMMA OthersLeaveStudy ==
    ASSUME NEW d, DOMAIN d = DOMAIN EmptyDb, NEW ss, OthersOnly(ss)
    PROVE  ApplyAll(d, ss).study = d.study
<1>1. Len(ss) \in 1..3 /\ DOMAIN ss = 1..Len(ss) /\ \A i \in DOMAIN ss : ss[i].op \in OtherOps
  BY DEF OthersOnly, IsSeq
<1>2. ApplyAll(d, ss) = After(d, ss, Len(ss))
  <2>1. Len(ss) \in 0..3
    BY <1>1
  <2> QED
    BY <2>1, AllIsAfter
<1> DEFINE a == Apply(d, ss[1])
           b == Apply(a, ss[2])
           c == Apply(b, ss[3])
<1>3. DOMAIN a = DOMAIN EmptyDb /\ a.study = d.study
  BY <1>1, OtherOpsLeaveStudy
<1>4. CASE Len(ss) = 1
  BY <1>2, <1>3, <1>4 DEF After
<1>5. CASE Len(ss) >= 2
  <2>1. ss[2].op \in OtherOps
    BY <1>1, <1>5
  <2> HIDE DEF a
  <2>2. DOMAIN b = DOMAIN EmptyDb /\ b.study = d.study
    BY <1>3, <2>1, OtherOpsLeaveStudy
  <2>3. CASE Len(ss) = 2
    BY <1>2, <2>2, <2>3 DEF After, a
  <2>4. CASE Len(ss) = 3
    <3>1. ss[3].op \in OtherOps
      BY <1>1, <2>4
    <3> HIDE DEF b
    <3>2. c.study = d.study
      BY <2>2, <3>1, OtherOpsLeaveStudy
    <3> QED
      BY <1>2, <2>4, <3>2 DEF After, a, b
  <2> QED
    BY <1>1, <1>5, <2>3, <2>4
<1> QED
  BY <1>1, <1>4, <1>5

LEMMA OneOther ==
    ASSUME NEW a, a.op \in OtherOps
    PROVE  OthersOnly(<<a>>)
  BY OneStatement DEF OthersOnly

LEMMA TwoOthers ==
    ASSUME NEW a, NEW b, a.op \in OtherOps, b.op \in OtherOps
    PROVE  OthersOnly(<<a, b>>)
  BY TwoStatements DEF OthersOnly

LEMMA ThreeOthers ==
    ASSUME NEW a, NEW b, NEW c, a.op \in OtherOps, b.op \in OtherOps, c.op \in OtherOps
    PROVE  OthersOnly(<<a, b, c>>)
  BY ThreeStatements DEF OthersOnly

LEMMA PerformLeavesStudy ==
    ASSUME IInv, StudyInv, NEW t, NEW ss, NEW pc, OthersOnly(ss), Perform(t, ss, pc),
           UNCHANGED <<restored, sent>>
    PROVE  StudyInv'
<1>1. DOMAIN db = DOMAIN EmptyDb
  BY DEF IInv, TypeOK, Tables
<1>2. CASE AtOnce(ss)
  <2>1. db' = ApplyAll(db, ss) /\ todo' = todo
    BY <1>2 DEF Perform
  <2>2. db'.study = db.study
    BY <1>1, <2>1, OthersLeaveStudy
  <2> QED
    BY <2>1, <2>2 DEF StudyInv
<1>3. CASE ~AtOnce(ss)
  <2>1. db' = db /\ todo' = ss
    BY <1>3 DEF Perform
  <2> QED
    BY <2>1 DEF StudyInv, OthersOnly
<1> QED
  BY <1>2, <1>3

LEMMA SameStudy ==
    ASSUME StudyInv, UNCHANGED <<restored, sent>>, db'.study = db.study,
           todo' = todo \/ todo' = <<>>
    PROVE  StudyInv'
<1>1. \A i \in DOMAIN todo' : todo'[i].op \in OtherOps
  BY DEF StudyInv
<1> QED
  BY <1>1 DEF StudyInv

LEMMA WriteLeavesStudy ==
    ASSUME IInv, StudyInv, NEW t \in Threads, Write(t)
    PROVE  StudyInv'
<1>1. threads[t].pc = "write" /\ lock # None
  BY NoneAssumption DEF Write, IInv, Locking
<1>2. IsSeq(todo) /\ Len(todo) \in 1..3 /\ DOMAIN todo = 1..Len(todo) /\ DOMAIN db = DOMAIN EmptyDb
  BY <1>1 DEF IInv, TypeOK, Locking, IsSeq, Tables
<1>3. db' = Apply(db, Head(todo)) /\ todo' = Tail(todo) /\ UNCHANGED <<restored, sent>>
  BY DEF Write, Rest
<1>4. /\ Head(todo) = todo[1]
      /\ \A i \in DOMAIN todo' : i + 1 \in DOMAIN todo /\ todo'[i] = todo[i + 1]
  BY <1>2, <1>3, RestOfCall
<1>5. db'.study = db.study
  BY <1>2, <1>3, <1>4, OtherOpsLeaveStudy DEF StudyInv
<1> QED
  BY <1>3, <1>4, <1>5 DEF StudyInv

LEMMA SyncTells ==
    ASSUME IInv, StudyInv, NEW t \in Threads, NEW ms \in Nat, NEW ranges \in Ranges,
           SyncStudyStats(t, ms, ranges)
    PROVE  StudyInv'
<1> DEFINE e == threads[t].user
           s == Stmt("study", e, Report(ms, ranges))
           g == [ms |-> ms, points |-> Points(ranges)]
<1>1. /\ threads[t].pc = "act" /\ Perform(t, <<s>>, "idle") /\ restored' = restored
      /\ sent' = [sent EXCEPT ![e] =
                     [ms |-> Max({@.ms, ms}), points |-> @.points \cup Points(ranges)]]
  BY DEF SyncStudyStats, Rest
<1>2. e \in Emails /\ DOMAIN db = DOMAIN EmptyDb
  BY <1>1, ActUser DEF IInv, TypeOK, Tables
<1>3. db' = Apply(db, s) /\ todo' = todo
  <2> HIDE DEF s
  <2>1. AtOnce(<<s>>) /\ ApplyAll(db, <<s>>) = Apply(db, s)
    BY OneStatement, AllIsAfter DEF After, AtOnce
  <2> QED
    BY <1>1, <2>1 DEF Perform
<1>4. db'.study = [db.study EXCEPT ![e] = Merge(@, Report(ms, ranges))]
  <2>1. s.op = "study" /\ s.who = e /\ s.arg = Report(ms, ranges)
    BY DEF Stmt
  <2> HIDE DEF s, e
  <2> QED
    BY <1>2, <1>3, <2>1, TableNames DEF Apply
<1>5. ASSUME ~restored
      PROVE  /\ DOMAIN db'.study = Emails /\ DOMAIN sent' = Emails
             /\ \A f \in Emails : Tells(db'.study[f], sent'[f])
  <2>1. /\ DOMAIN db.study = Emails /\ DOMAIN sent = Emails
        /\ \A f \in Emails : Tells(db.study[f], sent[f])
    BY <1>5 DEF StudyInv
  <2>2. Tells(Report(ms, ranges), g)
    BY ReportTells
  <2> DEFINE h == [ms |-> Max({sent[e].ms, ms}), points |-> sent[e].points \cup Points(ranges)]
  <2>3. Tells(Merge(db.study[e], Report(ms, ranges)), h)
    <3>1. g.ms = ms /\ g.points = Points(ranges)
      OBVIOUS
    <3> HIDE DEF g, e
    <3> QED
      BY <1>2, <2>1, <2>2, <3>1, MergeTells
  <2>4. sent' = [sent EXCEPT ![e] = h]
    BY <1>1
  <2> HIDE DEF h, e
  <2>5. db'.study[e] = Merge(db.study[e], Report(ms, ranges)) /\ sent'[e] = h
        /\ \A f \in Emails \ {e} : db'.study[f] = db.study[f] /\ sent'[f] = sent[f]
    BY <1>2, <1>4, <2>1, <2>4
  <2>6. DOMAIN db'.study = Emails /\ DOMAIN sent' = Emails
    BY <1>4, <2>1, <2>4
  <2> QED
    BY <2>1, <2>3, <2>5, <2>6
<1> QED
  BY <1>1, <1>3, <1>5 DEF StudyInv

LEMMA OthersStepLeavesStudy ==
    ASSUME IInv, StudyInv, NEW t \in Threads,
           \/ Refuse(t)
           \/ \E ss, pc : OthersOnly(ss) /\ Perform(t, ss, pc),
           UNCHANGED <<restored, sent>>
    PROVE  StudyInv'
  BY SameStudy, PerformLeavesStudy DEF Refuse, Store

LEMMA CreateUserLeavesStudy ==
    ASSUME IInv, StudyInv, NEW t \in Threads, CreateUser(t)
    PROVE  StudyInv'
<1> DEFINE e == threads[t].user
           a == Stmt("user", e, None)
           b == Stmt("profile", e, None)
           c == Stmt("grant", e, "super_admin")
           ss == <<a, b>> \o (IF db.users = {} THEN <<c>> ELSE <<>>)
<1>1. UNCHANGED <<restored, sent>> /\ (UNCHANGED Store \/ Perform(t, ss, "session"))
  BY DEF CreateUser, Rest
<1>2. OthersOnly(ss)
  <2>1. a.op \in OtherOps /\ b.op \in OtherOps /\ c.op \in OtherOps
    BY DEF Stmt, OtherOps
  <2> HIDE DEF a, b, c
  <2>2. ss = IF db.users = {} THEN <<a, b, c>> ELSE <<a, b>>
    BY Joins
  <2>3. OthersOnly(<<a, b, c>>) /\ OthersOnly(<<a, b>>)
    BY <2>1, TwoOthers, ThreeOthers
  <2> HIDE DEF ss
  <2> QED
    BY <2>2, <2>3
<1> HIDE DEF ss
<1> QED
  BY <1>1, <1>2, SameStudy, PerformLeavesStudy DEF Store

LEMMA SetUserStatusLeavesStudy ==
    ASSUME IInv, StudyInv, NEW t \in Threads, NEW e, NEW status, SetUserStatus(t, e, status)
    PROVE  StudyInv'
<1> DEFINE a == Stmt("status", e, status)
           b == Stmt("end", e, None)
           ss == <<a>> \o (IF status # "active" THEN <<b>> ELSE <<>>)
<1>1. UNCHANGED <<restored, sent>> /\ (Refuse(t) \/ Perform(t, ss, "idle"))
  BY DEF SetUserStatus, Rest
<1>2. OthersOnly(ss)
  <2>1. a.op \in OtherOps /\ b.op \in OtherOps
    BY DEF Stmt, OtherOps
  <2> HIDE DEF a, b
  <2>2. ss = IF status # "active" THEN <<a, b>> ELSE <<a>>
    BY Joins
  <2>3. OthersOnly(<<a, b>>) /\ OthersOnly(<<a>>)
    BY <2>1, OneOther, TwoOthers
  <2> HIDE DEF ss
  <2> QED
    BY <2>2, <2>3
<1> HIDE DEF ss
<1> QED
  BY <1>1, <1>2, OthersStepLeavesStudy

LEMMA BefriendOthers ==
    ASSUME NEW i, NEW pair
    PROVE  OthersOnly(Befriend(i, pair))
<1> DEFINE a == Stmt("handle", i, "accepted")
           b == Stmt("befriend", None, pair)
<1>1. a.op \in OtherOps /\ b.op \in OtherOps /\ Befriend(i, pair) = <<a, b>>
  BY DEF Stmt, OtherOps, Befriend
<1> HIDE DEF a, b
<1> QED
  BY <1>1, TwoOthers

LEMMA FriendsLeaveStudy ==
    ASSUME IInv, StudyInv, NEW t \in Threads,
           \/ \E e \in Emails : CreateFriendRequest(t, e) \/ DeleteFriendship(t, e)
           \/ \E i \in DOMAIN db.requests, s \in RequestStatuses \ {"pending"} :
                HandleFriendRequest(t, i, s)
    PROVE  StudyInv'
<1>1. ASSUME NEW x, NEW y, NEW op \in {"request", "unfriend", "handle"}
      PROVE  OthersOnly(<<Stmt(op, x, y)>>)
  <2>1. Stmt(op, x, y).op \in OtherOps
    BY DEF Stmt, OtherOps
  <2> QED
    BY <2>1, OneOther
<1>2. ASSUME NEW e \in Emails, CreateFriendRequest(t, e) PROVE StudyInv'
  <2>1. /\ UNCHANGED <<restored, sent>>
        /\ \/ Refuse(t)
           \/ \E i, pair : Perform(t, Befriend(i, pair), "idle")
           \/ \E y : Perform(t, <<Stmt("request", None, y)>>, "idle")
    BY <1>2 DEF CreateFriendRequest, Rest
  <2> QED
    BY <1>1, <2>1, BefriendOthers, OthersStepLeavesStudy
<1>3. ASSUME NEW e \in Emails, DeleteFriendship(t, e) PROVE StudyInv'
  <2>1. /\ UNCHANGED <<restored, sent>>
        /\ Refuse(t) \/ \E y : Perform(t, <<Stmt("unfriend", None, y)>>, "idle")
    BY <1>3 DEF DeleteFriendship, Rest
  <2> QED
    BY <1>1, <2>1, OthersStepLeavesStudy
<1>4. ASSUME NEW i, NEW s, HandleFriendRequest(t, i, s) PROVE StudyInv'
  <2>1. /\ UNCHANGED <<restored, sent>>
        /\ \/ Refuse(t)
           \/ \E pair : Perform(t, Befriend(i, pair), "idle")
           \/ Perform(t, <<Stmt("handle", i, s)>>, "idle")
    BY <1>4 DEF HandleFriendRequest, Rest
  <2> QED
    BY <1>1, <2>1, BefriendOthers, OthersStepLeavesStudy
<1> QED
  BY <1>2, <1>3, <1>4

LEMMA CallsLeaveStudy ==
    ASSUME IInv, StudyInv, NEW t \in Threads,
           \/ CreateSession(t) \/ ChangePassword(t) \/ DeleteOtherSessions(t)
           \/ \E e \in Emails, r \in Roles, on \in BOOLEAN : SetUserGlobalRole(t, e, r, on)
    PROVE  StudyInv'
<1>1. ASSUME NEW x, NEW y, NEW op \in {"session", "end", "grant", "revoke"}
      PROVE  OthersOnly(<<Stmt(op, x, y)>>)
  <2>1. Stmt(op, x, y).op \in OtherOps
    BY DEF Stmt, OtherOps
  <2> QED
    BY <2>1, OneOther
<1>2. CASE CreateSession(t)
  <2>1. /\ UNCHANGED <<restored, sent>>
        /\ \E x, y, pc : Perform(t, <<Stmt("session", x, y)>>, pc)
    BY <1>2 DEF CreateSession, Rest
  <2> QED
    BY <1>1, <2>1, OthersStepLeavesStudy
<1>3. CASE ChangePassword(t)
  <2> DEFINE a == Stmt("secret", threads[t].user, None)
             b == Stmt("changed", threads[t].user, None)
  <2>1. UNCHANGED <<restored, sent>> /\ (Refuse(t) \/ Perform(t, <<a, b>>, "others"))
    BY <1>3 DEF ChangePassword, Rest
  <2>2. a.op \in OtherOps /\ b.op \in OtherOps
    BY DEF Stmt, OtherOps
  <2> HIDE DEF a, b
  <2> QED
    BY <2>1, <2>2, TwoOthers, OthersStepLeavesStudy
<1>4. CASE DeleteOtherSessions(t)
  <2>1. /\ UNCHANGED <<restored, sent>>
        /\ \E x, y : Perform(t, <<Stmt("end", x, y)>>, "idle")
    BY <1>4 DEF DeleteOtherSessions, Rest
  <2> QED
    BY <1>1, <2>1, OthersStepLeavesStudy
<1>5. ASSUME NEW e \in Emails, NEW r \in Roles, NEW on \in BOOLEAN, SetUserGlobalRole(t, e, r, on)
      PROVE  StudyInv'
  <2> DEFINE op == IF on THEN "grant" ELSE "revoke"
  <2>1. /\ UNCHANGED <<restored, sent>>
        /\ Refuse(t) \/ Perform(t, <<Stmt(op, e, r)>>, "idle")
    BY <1>5 DEF SetUserGlobalRole, Rest
  <2>2. op \in {"session", "end", "grant", "revoke"}
    OBVIOUS
  <2> HIDE DEF op
  <2> QED
    BY <1>1, <2>1, <2>2, OthersStepLeavesStudy
<1> QED
  BY <1>2, <1>3, <1>4, <1>5

LEMMA InitStudyInv == Init => StudyInv
<1> SUFFICES ASSUME Init PROVE StudyInv
  OBVIOUS
<1>1. /\ todo = <<>> /\ db \in {EmptyDb, SeededDb}
      /\ sent = [e \in Emails |-> [ms |-> 0, points |-> {}]]
  BY DEF Init
<1>2. db.study = [e \in Emails |-> NoStudy]
  <2>1. EmptyDb.study = [e \in Emails |-> NoStudy]
    BY DEF EmptyDb
  <2>2. SeededDb.study = EmptyDb.study
    BY TableNames DEF SeededDb
  <2> QED
    BY <1>1, <2>1, <2>2
<1>3. Tells(NoStudy, [ms |-> 0, points |-> {}])
  <2>1. NoStudy.ms = 0 /\ NoStudy.ranges = <<>> /\ <<>> \in Ranges /\ DOMAIN <<>> = {}
    BY DEF NoStudy, Ranges
  <2>2. Points(<<>>) = {} /\ Apart(<<>>)
    BY <2>1 DEF Points, Apart
  <2>3. Cardinality({}) = 0 /\ Max({0, 0}) = 0
    BY FS_EmptySet, MaxOfTwo
  <2> QED
    BY <2>1, <2>2, <2>3 DEF Tells
<1> QED
  BY <1>1, <1>2, <1>3 DEF StudyInv

LEMMA StepStudyInv == IInv /\ StudyInv /\ [Next]_vars => StudyInv'
<1> SUFFICES ASSUME IInv, StudyInv, [Next]_vars PROVE StudyInv'
  OBVIOUS
<1>1. CASE UNCHANGED <<db, todo, restored, sent>>
  BY <1>1, SameStudy
<1>2. CASE UNCHANGED vars
  BY <1>1, <1>2 DEF vars
<1>3. ASSUME NEW t \in Threads,
             \/ \E e \in Emails, kind \in {"register", "login"} : BeginCredentials(t, kind, e)
             \/ \E k \in Tokens, kind \in Kinds : BeginSession(t, kind, k)
             \/ CheckAllowed(t) \/ Authenticate(t) \/ ResetFailures(t) \/ RecordAttempt(t)
             \/ Resolve(t) \/ Authorise(t)
      PROVE  StudyInv'
  BY <1>1, <1>3 DEF BeginCredentials, BeginSession, CheckAllowed, Authenticate, ResetFailures,
     RecordAttempt, Resolve, Authorise, Rest, Store
<1>4. ASSUME NEW t \in Threads,
             \/ CreateUser(t) \/ CreateSession(t) \/ ChangePassword(t) \/ DeleteOtherSessions(t)
             \/ Write(t)
      PROVE  StudyInv'
  BY <1>4, CreateUserLeavesStudy, CallsLeaveStudy, WriteLeavesStudy
<1>5. ASSUME NEW t \in Threads, NEW e \in Emails,
             \/ \E s \in Statuses : SetUserStatus(t, e, s)
             \/ \E r \in Roles, on \in BOOLEAN : SetUserGlobalRole(t, e, r, on)
             \/ CreateFriendRequest(t, e) \/ DeleteFriendship(t, e)
      PROVE  StudyInv'
  BY <1>5, SetUserStatusLeavesStudy, CallsLeaveStudy, FriendsLeaveStudy
<1>6. ASSUME NEW t \in Threads,
             \E i \in DOMAIN db.requests, s \in RequestStatuses \ {"pending"} :
               HandleFriendRequest(t, i, s)
      PROVE  StudyInv'
  BY <1>6, FriendsLeaveStudy
<1>7. ASSUME NEW t \in Threads, NEW ms \in {0, MaxMs - 1}, NEW rs \in Reports,
             SyncStudyStats(t, ms, rs)
      PROVE  StudyInv'
  <2>1. ms \in Nat
    BY StudyStatsAssumption
  <2>2. rs \in Ranges
    <3>1. <<>> \in Ranges
      BY DEF Ranges
    <3>2. ASSUME NEW a \in Spans PROVE <<a>> \in Ranges
      BY DEF Ranges
    <3>3. ASSUME NEW a \in Spans, NEW b \in Spans PROVE <<a, b>> \in Ranges
      BY DEF Ranges
    <3>4. rs = <<>> \/ (\E a \in Spans : rs = <<a>>) \/ \E a, b \in Spans : rs = <<a, b>>
      BY DEF Reports
    <3> QED
      BY <3>1, <3>2, <3>3, <3>4
  <2> QED
    BY <1>7, <2>1, <2>2, SyncTells
<1>8. ASSUME NEW t \in Threads, Break(t) PROVE StudyInv'
  <2>1. UNCHANGED <<restored, sent, db>> /\ todo' = <<>>
    BY <1>8 DEF Break
  <2> QED
    BY <2>1, SameStudy
<1>9. ASSUME NEW k \in Tokens, Logout(k) PROVE StudyInv'
  <2>1. db' = Apply(db, Stmt("logout", None, k)) /\ UNCHANGED <<restored, sent, todo>>
    BY <1>9 DEF Logout, Rest
  <2>2. Stmt("logout", None, k).op \in OtherOps /\ DOMAIN db = DOMAIN EmptyDb
    BY DEF Stmt, OtherOps, IInv, TypeOK, Tables
  <2> QED
    BY <2>1, <2>2, OtherOpsLeaveStudy, SameStudy
<1>10. CASE ExportSection \/ Tick
  BY <1>1, <1>10 DEF ExportSection, Tick, Store
<1>11. CASE Restore
  <2>1. restored' = TRUE /\ todo' = todo
    BY <1>11 DEF Restore
  <2> QED
    BY <2>1 DEF StudyInv
<1> QED
  BY <1>2, <1>3, <1>4, <1>5, <1>6, <1>7, <1>8, <1>9, <1>10, <1>11 DEF Next

\* Study time depends neither on the order of the reports nor on how often each is
\* repeated: what a row holds is the union of what browsers have reported, in a normal
\* form that no range of it touches another, and the longest duration reported or
\* covered, for any number of reports of any ranges (_normalize_study_ranges,
\* upsert_user_project_daily_study_stats).
THEOREM StudyIsWhatWasReported == Spec => []StudyIsOrderFree
<1>1. StudyInv => StudyIsOrderFree
  <2> SUFFICES ASSUME StudyInv, ~restored, NEW e \in Emails
               PROVE  LET s == db.study[e] IN
                      /\ Points(s.ranges) = sent[e].points
                      /\ \A i \in 1..(Len(s.ranges) - 1) : s.ranges[i].to < s.ranges[i + 1].from
                      /\ s.ms = Max({sent[e].ms, Cardinality(sent[e].points)})
    BY DEF StudyIsOrderFree
  <2>1. Tells(db.study[e], sent[e])
    BY DEF StudyInv
  <2>2. ASSUME NEW rs \in Ranges, Apart(rs), NEW i \in 1..(Len(rs) - 1)
        PROVE  rs[i].to < rs[i + 1].from
    <3>1. i \in DOMAIN rs /\ i + 1 \in DOMAIN rs /\ i < i + 1
      BY RangesAt
    <3> QED
      BY <2>2, <3>1 DEF Apart
  <2> QED
    BY <2>1, <2>2 DEF Tells
<1>2. Init => IInv /\ StudyInv
  BY InitIInv, InitStudyInv
<1>3. IInv /\ StudyInv /\ [Next]_vars => IInv' /\ StudyInv'
  BY StepIInv, StepStudyInv
<1> QED
  BY <1>1, <1>2, <1>3, PTL DEF Spec

=============================================================================
