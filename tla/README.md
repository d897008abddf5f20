# Learning-Pyramid in TLA+

Learning-Pyramid is a review system: a learner submits *learning tasks* (sets of
recall points), the system schedules reviews of them, and reviewed tasks are
*rolled up* into parent nodes that are reviewed again one layer higher. The
backend is Python (FastAPI over one in-process `SystemAPI`), with SQLite or
PostgreSQL behind it and a TypeScript frontend in front. Around the scheduler it
keeps study materials, accounts, a paid membership, and connections to services
for speech recognition, language models and a network disk.

This directory holds TLA+ models of these parts, TLC runs that check them on
small instances, and proofs checked by TLAPS. File and line references are to the
repository, `src/backend/system/` when no directory is given.

1. The system: components, what is hard, what makes them correct
2. The modules: how state and actions correspond to the code
3. The runs: what each checks, its bounds and why they are enough
4. Fairness
5. What the checks found
6. The proofs
7. What is left
8. Not modelled, and why

## 1. The system

### Components

| component | state | operations | interacts with |
|---|---|---|---|
| Review scheduler (`api.py` 5496-6664) | per project: task tree, review chains and rounds, the review queue, layers (managed chains, aggregation queue, cycle state, pending parent, tick quota), configuration | submit, collect, executor commit, delete a point, manual roll-up, configuration; task register, orchestrator tick, trigger A, clearing cycle, roll-up phases A and B, the driver | every step is a mutation session |
| Mutation sessions and store (`inmemory_system.py`) | published project stores, id counters, the global write lock, a session's baseline and staged objects | begin, stage, commit, rollback, bootstrap, delete; with SQL: direct create and delete, reload | persistence (before it publishes), all callers |
| Persistence (`persistence_store.py`, `persistence_json.py`, `postgres_store.py`, `repositories/`) | a payload per project, id counters, index tables, global settings | save, load, import, migration, compaction, save of all projects | commit, the direct paths, start-up |
| PostgreSQL pool (`postgres_runtime.py`) | idle queue, open counter | acquire, release, discard, warm up | persistence, accounts, rate limit |
| Subjects and materials (`api.py` 3880-4190, `routers/projects.py`) | materials of a subject, links to child projects, who owns a project | create, rename and delete subjects, materials and projects | several sessions of several projects in a row, and rows of the account store after them |
| Learning objects and instances (`api.py` 3560-3850, 4200-5490) | files the project studies, the object forest over them, points anchored in them, mirrors of folders in the task tree | file system sync, browser and netdisk import, entries by hand, outlines, collect, remap, the isomorphic scan | disk, network disk, the scheduler |
| Membership (`membership_store.py`, `membership_marketing_store.py`, `membership_payment_service.py`, `membership_maintenance.py`) | orders, payments, entitlements, coupons, invite bindings and rewards | create and close an order, confirm, notification, query, refund, grant, void, bind | payment provider, the reconciliation process |
| Accounts, sessions, friends, study time (`auth_store.py`) | users, roles, sessions, friend requests, statistics | register, login, password, status and role, friend requests, merge of study time | rate limit, pool, backup and restore |
| Login rate limit (`auth_rate_limit_store.py`) | attempt counters with a window | check, record, reset | login and signup routes |
| Speech recognition (`api.py` 900-1090, 6900-7330, `local_whisper.py`, `routers/asr.py`) | write lock, slots, clips, downloadable assets, a child process | transcribe a clip or an upload by one of three services | external services, the event loop |
| Cloud accounts (`instance_media.py`, `baidu_netdisk_client.py`) | tokens per user and netdisk account, open authorisations | connect, use, refresh, disable | the provider |
| Language model and service settings | settings per user, global or from the environment | save, ask a question | the model's service |
| HTTP adapter (`src/adapter/`) | one cached `SystemAPI` | translate requests | a pool of threads for synchronous handlers, the event loop for `async` ones, no lock of its own |
| Frontend, subtitles, tools | browser state, files | timers, conversion, packaging | HTTP |

### What is hard here

* **The scheduler is a chain of sessions.** A request commits one session and then
  drives the scheduler with up to 64 more (`api.py` 5919-5972). Other requests run
  between any two of them.
* **Guards that are evaluated once.** A threshold is tested when something is
  registered, a tick quota is spent once: what is missed is not looked at again.
* **Errors that are swallowed.** The driver catches what a step raises, rolls back
  and returns; but its `begin_session` is outside the `try`.
* **Shared memory without a lock.** One `SystemAPI` serves all threads. The write
  lock is a flag; the SQL create and delete paths rewrite the memory without it.
* **Operations of several transactions.** Subjects and materials span projects and
  two stores, with compensation that may fail too.
* **One interface, two meanings of atomic.** The account store runs on SQLite,
  where a call is a transaction, and on PostgreSQL with autocommit, where every
  statement is one.
* **Answers that are late.** Payments and refunds are reported by notifications, by
  queries and by another process, in any order and more than once.
* **Persist before publish**, and formats of several versions of the program that
  must be read as what they meant.
* **Resources across external calls.** A recognition holds the write lock, a slot,
  files and a process for minutes; a refresh token is good once.

`PROJECT.json` lists each hazard with its line and the properties that watch it.

## 2. The modules

| module | models | instance for TLC | theorems |
|---|---|---|---|
| `ReviewEngine` | the review scheduler of one project | `MCReviewEngine` | `ReviewEngineProofs` |
| `SessionStore` | sessions, memory and database, at the grain of thread switches | `MCSessionStore` | `SessionStoreProofs` |
| `SerialStore` | the abstract store that the sessions implement | | |
| `ProjectRows` | how a project is written, read, imported and migrated | `MCProjectRows` | `ProjectRowsProofs` |
| `ConnectionPool` | the PostgreSQL connection pool | `MCServices` | `ServicesProofs` |
| `Subjects` | subjects, materials and their owners | `MCSubjects` | `SubjectsProofs` |
| `Library` | files, object forest, points and the isomorphic roll-up | `MCLibrary` | `LibraryProofs` |
| `Membership` | orders, payments, refunds, coupons, invites, the provider | `MCMembership` | `MembershipProofs` |
| `Accounts` with `StudyStats` | accounts, sessions, roles, friends, rate limit, study time, backup | `MCAccounts` | `AccountsProofs` |
| `Transcription` | a speech recognition request and all it holds | `MCServices` | `ServicesProofs` |
| `CloudAccounts` | netdisk accounts and their tokens | `MCServices` | `ServicesProofs` |
| `Assistant` | settings of a service and the questions asked with them | `MCServices` | `ServicesProofs` |

How they compose: `ReviewEngine`, `Library` and `Subjects` take a session as one
step. `SessionStore` justifies it: it implements `SerialStore`, where a commit is
one step, and `session_lost` shows exactly when it does not. `ProjectRows` refines
the database of `SessionStore` into rows and files. `Library` and `ReviewEngine`
are the two roll-up strategies over the same sessions. `Accounts` includes
`StudyStats`. The services share no state.

### ReviewEngine

`db` is the committed store of one project and one action is one committed
session; `fuel[t]` is what is left of the driver loop that thread *t* runs, and
`open` holds the thread whose session has begun and not ended.

* A request action (`SubmitLearningTask`, `CollectRecallPoint`,
  `ExecutorCommitReviewTask`, `DeleteRecallPoint`, `ManualRollUp`,
  `SetLayerConfig`, `SetRollUpStrategy`) is the whole handler up to its commit,
  the threshold check or clearing cycle it ends with included, and then puts the
  thread in the driver where the handler calls it.
* A driver action is one iteration: roll-up phase B, a trigger A tick, a clearing
  tick, a stop, an exception that is swallowed (`DriverFails`), or a `begin_session`
  that raises because another thread's session is open (`DriverConflict`).
* `OpenSession` is `begin_session` alone, of a request or of an iteration. Every other
  step ends the session of its thread, which it may have opened before
  (`Session(t)`), so a step is only possible while no other thread has one. The lock
  is the server's: `EndSession` also ends sessions of other projects.
* `TaskRegister`, `PhaseA`, `PhaseB`, `Ticked`, `EnterClearing` are functions
  from stores to stores, as the code's methods are from baseline to staged
  objects. A chain holds its rounds: a `REVIEW_TASK` element has its one task from
  the start, a `CONVERGENCE` gets a round each time a tick finds the last one done
  with points missed. Whether a convergence is `TERMINATED` is derived
  (`Finished`): the code writes that status and moves the head in one session.
* Layer index *i* of the model is `layer_index` *i*-1. Ids are positions, because
  the code's counters are dense within a project.

### SessionStore and SerialStore

One action runs from one point where CPython can switch threads to the next that
matters: a call, a backward jump or I/O. The test of the lock flag and its
assignment in `begin_session` have none between them (the images are built on
Python 3.12), so `Enter` takes the lock in one action; the check before it and
the fetch of the baseline after it are what can interleave. `SqlStore` chooses
between the JSON snapshot store (create and delete are sessions) and an SQL store
(they write the database directly and reload). `Restart` loses everything but the
database.

### ProjectRows

A payload is the JSON form of a project, reduced to the fields whose way to the
tables and back is not plain copying: defaults, fields that move between the
payload, columns and index tables, status of deleted points, layer state, the
artifact's runtime. `Encode` and `Decode` follow the code field by field, for the
JSON file, SQLite and PostgreSQL; the initial states hold every format an earlier
version may have left. Start-up is a sequence of steps (`JsonLoad`, `SqliteLoad`,
`Archive`, the six reads of PostgreSQL, `PgDecide`, `PgSave`, `Fill`,
`BootPersist`), `Crash` comes between any two, and sessions, direct writes,
reloads and the save of the global settings (which writes *every* project from
memory) run in between.

### Subjects

`projects` holds title, children and the link back, `owned` the rows of the
account store. A call is a sequence of steps, each one session or one row:
`BeginCreate`, `CreateProject`, `Stock`, `AddMaterial`, `LinkMaterial`,
`AddOwner`; `BeginDelete...`, `VisitProject`, `UnlinkMaterial`, `DeleteProject`,
`RemoveMemberships`. `Fail` makes the step a call is at fail; the call then
compensates as the code does, and the compensation may fail as well. `create_subject`
begins its second session outside its `try`: a session refused there is not
compensated.

### Library

`inst` are the files the project knows, `nodes` the object forest, `points` the
recall points with their anchor and where they were collected from, `tree` the
task nodes with the mirrors of folders, `regs` what is registered for review and on
which layer. `SyncFromFs`, `ImportBrowserScan`, `ImportNetdisk`, `AddInstance`,
`AddLeaf`, `AddContainer`, `InitializeBook`, `Remap`, `SubmitLearningTask`,
`DeleteRecallPoint`, `EditRecallPoint` are whole handlers, with the pruning of instances and the
rebuilding of the forest they end with. `ReadOrigin` and `Collect` are the two
sessions of a collection. `RegisterFolder` is one scan of the driver with the
isomorphic strategy, `TickAfterScan` what follows it. The strategy is fixed. Titles
are left out, so `EnsureInbox` may make an inbox whatever leaves there are: the code
makes one unless a leaf has its title.

### Membership

`db` is the committed tables; a store operation is one SQLite transaction and one
action. It begins with the expiry of rows (`Expire`), as in the code, and an
operation that raises leaves the tables as they were. A request that checks first
and writes in another transaction is two actions (`ResolveCoupon` and
`CreateOrder`, `CheckInvite` and `BindInvite`). The provider is external: `bills`
are the payment pages it shows, `charge` what it did with the money, `reports` the
states it has reported. A report is never taken back, so every action that reads
it may happen late, after a newer one, several times or never: that is how
notifications, queries and the reconciliation process meet. The administrator's refund
route reads the order first and decides by what it read: `RefundOrder`,
`RequestRefund` and `QueryRefund` ask only for what that earlier reading leaves true.
Prices are the code's constants.

### Accounts and StudyStats

A request is a thread with a program counter between its calls of the stores. A
call is its guard and a sequence of statements (`Perform`): on SQLite they apply
at once, on PostgreSQL one by one (`Write`), and `Break` ends a call after some of
them, as a lost connection does. `ExportSection` reads one table of a backup at a
time, `Restore` loads it. `StudyStats` is the arithmetic of merging study time:
sorted, joined ranges and a duration.

### Transcription, CloudAccounts, Assistant, ConnectionPool

`Transcription` follows a request from its session to its audit event, with the
event loop as one of the workers: an `async` handler runs, and blocks, on it.
`CloudAccounts` counts grants: a refresh token is good for one trade, and only the
request that traded it knows the next. `Assistant` has saves that read, then
write, and questions that read the settings twice. In `ConnectionPool` each
operation on the idle queue and on the counter is an action of its own; connects
fail, connections break while idle or in use, waits time out. `MCServices` puts
one of the four in focus in each behaviour.

## 3. The runs

| run | instance | shows |
|---|---|---|
| `engine_points` | one thread, two tasks of up to two points, one missed round each, points deleted at any time | the queue holds exactly the open rounds of chain heads, a convergence ends only when everything was recalled; roll-ups end and every entry is reviewed |
| `engine_layers` | one thread, three leaves, three layers, five nodes | roll-ups of roll-ups: a node is in exactly one place, a layer manages its unfinished chains, a parent comes after its children's reviews, and nothing is left undone when calls have returned |
| `engine_threads` | two threads, a second configuration with a two-element template, two strategies | one roll-up at a time; a project at rest with work left is there because another thread had the write lock when the last driver ended |
| `session` | two threads over the JSON store, or one over an SQL store; two projects; crashes | acknowledged commits are durable, memory and database agree when quiet, `SerialStore` is implemented, the lock is released |
| `session_lost` | two threads over an SQL store | finding 1 |
| `rows` | two projects, two points, one request at a time, five saves, crashes anywhere, three kinds of store | a restart finds what memory held, nothing acknowledged is lost, nothing deleted comes back |
| `subjects` | three projects, two calls that may meet once, two failing steps | the damage of failures and races is bounded by their number, and there is none without them |
| `library` | two folders with a file each, a netdisk file, two points, one of another project, two collecting requests, two scans | anchors and forests stay whole, folders roll up in order, nothing is collected twice, both stores answer alike; with one strategy the scan fails only after a folder was lost |
| `library_renamed` | the same | finding 2 |
| `membership` | two users, two orders of which one goes to the provider, one coupon, one refund | entitlements, coupons, rewards and refunds agree with orders and money, and dead orders stay dead |
| `accounts` | two addresses, two requests at a time, both backends, one failing statement, mixes of requests that can meet | accounts are whole, friends agreed, guesses bounded, late sessions come from races only, study time is independent of order |
| `services` | pool: three threads, three connections of which two may be open, two breaks; recognition: two pool threads and the loop, one slot, three requests, two processes; netdisk: two users, one account, two threads, four grants; settings: one user, two threads, three saves | the properties of the four services |

**Bounds.** Each is a CONSTANT used in a guard and named as a bound in its module.

* Scheduler. Two points tell a missed point from a recalled and from a deleted one;
  three leaves and five nodes give a parent with two children and a parent of a
  parent; three layers give a layer both above and below a roll-up; two threads are
  enough for every pair of racing sessions, since at most one holds the lock.
  `MaxIterations` (64 in the code) is above what any driver run of the instance
  needs, so the limit itself is not exercised. The default thresholds (10 nodes,
  200 points) are scaled to 2 and 3, so that both are met and missed.
* Stores. Two projects let a reload, a settings save and a compaction treat one
  while the other changes; five saves are what a path from an import to a
  tombstone, with settings saved on the way, needs.
* Subjects. A subject, its child and one more; one overlap of two calls is the race
  of every pair of steps.
* Library. A file in each of two folders below a root gives renamed, emptied and
  nested folders; two scans are what a rename and its discovery take.
* Membership. Two orders of one user give a renewal, a coupon that moves and an
  order of each provider, two users give an inviter and an invitee. One tick of
  the clock, equal to the life of an order and of a period, makes every expiry
  happen before or after every other step. What this clock cannot show is a payment
  made while a period runs and reported when that period has been called expired: it
  takes lives and a clock of two ticks, with which the run would not end in time. The
  theorem `EntitlementsArePaidFor` covers it.
* Accounts. `Mixes` lists the kinds of request that are run together: those that
  read what the others of the mix write. Other combinations are not run.
* Services. One connection, slot or grant more than can be held at once.

**Deadlock** is checked except in `accounts`, `membership`, `subjects` and
`services`, whose histories are bounded (tokens, orders, projects, grants): when
the bound is used up and all calls have returned, nothing is left to do.

## 4. Fairness

* `WF(DriverStep(t) \/ DriverConflict(t))` in `ReviewEngine`: the driver is a loop in
  the request's own thread; `begin_session` does not wait for the lock but raises, so
  an iteration always comes to an end one way or the other.
* `SF(ExecutorCommitReviewTask(t, {}))` for some thread: the learner goes on
  reviewing and now and then recalls everything. This is an assumption about the
  user, without which a convergence rightly never ends.
* `WF(Progress(t))` in `SessionStore` and `ConnectionPool`: a server thread is not
  preempted for ever inside a call; every path of a session ends in commit or
  rollback, `connection()` releases in a `finally`, `connect` and `get` have
  timeouts.

No other module states fairness: payments, reports, friends' answers and learners
may never come, and their properties are about safety.

## 5. What the checks found

Two are runs with `expect: violation`; `PROJECT.json` quotes the line each
disagrees with.

1. `session_lost`: a reload can undo a commit in memory and have the next one
   overwrite it on disk (`api.py` 226). The same missing lock lets
   `begin_session` leave the write lock held by nobody (`inmemory_system.py` 2754).
2. `library_renamed`: after a folder was renamed, scanned and remapped, the mirror
   of the lost folder and its parent disagree, and every scan of the driver fails
   from then on; new entries are no longer reviewed (`api.py` 3692).

The other observations are bounded by the properties, which say how far they go:

* When all points below a pending parent are deleted, phase B raises for ever and
  the scheduler of the project stops (`api.py` 5524; `SettledUnlessStuck`).
* A driver that meets a session of another thread raises out of a request that has
  committed, and the registration waits (`api.py` 5933; `RestsOnlyByConflict`).
* A threshold reached by a collected point while the queue is busy does not start a
  cycle when it drains (`api.py` 3831).
* A subject can be deleted while a material is created for it: the child stays,
  in no list, and a list entry whose child is gone keeps its subject from being
  deleted (`api.py` 4144; `DamageIsBounded`).
* On PostgreSQL a failure inside `create_user` leaves an address that can neither
  log in nor register, perhaps without any super admin, and one inside an
  acceptance leaves an accepted request without friends (`auth_store.py` 3389,
  3727; `AccountsAreWhole`, `FriendshipIsAgreed`).
* A login that is under way while the password changes keeps its session
  (`LateSessionsAreRaces`).
* A payment made while a period runs, and reported when that period has been called
  expired, buys a period that starts at the time of payment: the two overlap, and
  the user loses the days between (`membership_store.py` 1666; `ReportedLate` in
  `EntitlementIsPaidFor`).
* A late report of a failed refund makes an order paid without rebuilding its
  entitlement (`membership_store.py` 2208).
* A disabled netdisk account is enabled again by a call that had read it before
  (`ComesBackByRaceOnly`), and a request that fails between the trade of a token
  and its storage loses the account (`GrantsAreKept`).
* An uploaded clip is never transcribed by DashScope, because the request that waits
  blocks the loop that would serve the clip (`NoUploadByBridge`).
* Overlapping saves of partial settings can pair one service's URL with another's
  key (`SettingsFollowSaves`).

## 6. The proofs

TLC checks a property on the instance above, TLAPS the theorem for every value of
the constants under the named assumptions of the modules (bounds are natural
numbers, sizes are ordered, absent values are not values, threads of the pool are
finitely many). Each argument is an inductive invariant that says more than the
property.

**Scheduler** (`ReviewEngineProofs`): `SchedulerTypes`, `OneRollUpAtATime`,
`ChainsAreManagedWhileUnfinished`, `ThresholdsFollowConfig`, from one invariant
`IInv`. `Sound(db)` says of the store: it is well typed; each layer manages exactly
its unfinished chains, refers to nodes that exist, has the configured thresholds, a
pending parent if and only if it is in a cycle, and a layer's worth of room above
it then; each chain belongs to a node and a layer, and its head is on an element or
just behind the last. Types alone are not inductive: phase B registers `pending`,
a tick indexes chains by `managed`, and both are in range only because of `Sound`.
`Exclusive(db)` is the second half: only a clearing tick that leaves the queue
empty puts a layer into `ROLL_UP`, and it runs only while no layer is there. There
is one lemma per operation of the store, and the actions are assembled from them as
the code does.

`QueueHoldsTheWork`, `ConvergenceKeepsItsPromise`, `NodesAreNeitherLostNorDoubled`
and `ParentsWaitForTheirChildren` need a second invariant, `GInv`, proved relative
to the first. `Good(db, out, free)` says: an open round is queued exactly when it is
at the head of its chain, and once (`QueueExact`); every point of a seed was
recalled in a finished round, is due in the current one, or has been deleted
(`AllTracked`); the children of a parent that is registered or about to be have
finished chains (`InOrderOfReview`); and every node has one place (`Placed`). The last
is stated with two sets of exceptions, because operations break it half way and mend
it: `free` holds the nodes that have left a queue and are not yet below a parent or
registered, `out` the layers whose pending parent is being registered. Between two
actions both are empty. Each operation is
summed up by what it does to the store (`Registers`, `PushesUp`, `Ticks`,
`Executes`; `SameWork` for those that touch none of it), so that the preservation of
`Good` is proved once per effect and not once per caller. From the same pair of
invariants: `StuckOnlyByDeletion` (`push_up` never meets a node that has a parent,
and phase B raises only for a parent whose points have all been deleted) and
`LoopLeavesNothingElse` (work is left behind only by a driver that ended while another
thread's session was open, or with its last iteration; one that stops by itself with
iterations left has found nothing to do). `SettledUnlessStuck` and
`RestsOnlyByConflict` themselves say that the iterations suffice, which is true of the bounds of a run and
not of every `MaxIterations`; what they say beyond that is these two theorems.

**Sessions** (`SessionStoreProofs`): `TypeSafety` and `SingleWriter` hold for all
sets of threads and projects, either store, any interleaving. `SessionsAreSerial`
(refinement of `SerialStore`) and `AckedCommitsAreDurable` are proved under
`Sequential`: the store writes only through sessions, or requests come one at a
time. Their invariant relates the baseline of an open session, the memory and the
database and, during a reload, what has been filled in already. `QuietStoresAgree`
adds the id counters (`CountInv`): the counters on disk never run ahead of those in
memory, and no object is stored or staged whose number has not been given out, so
no id is given out twice after a restart. Without `Sequential` they are false:
finding 1.

**Rows** (`ProjectRowsProofs`): `RestartFindsMemory`, `AcknowledgedIsStored` and
`DeletedStaysDeleted`, under `Orderly`: the store is the JSON file, or requests come
one at a time. The lemmas about the formats come first: a row read back is the
payload that was written, but for what a start would change anyway (`RowRead`); so
is a row of an earlier version (`OldRowRead`); a start leaves nothing for a second
one to do (`MigratedSettles`), and a session keeps what a start has made of a project
(`EditedOk`). Two snapshots are `Alike` if a start makes the same of both. The
invariant says that memory holds what a start would make of the store
(`InMemory`) whenever nothing is under way, and otherwise how far the one load has
come (`StageAt`): what a thread carries is `Alike` to the store, the columns it has
read are those of the rows, and before the file is archived the rows have taken
over. `Fill` overwrites the projects that were read and leaves the others, as
`_load_persisted` does; that nothing else is there, because the process is new or the
reload has cleared its memory, is an invariant of its own (`Bare`). `NoneAssumption` says that a missing value is none of the values. Without
`Orderly` the reload of an SQL store may overtake a session: finding 1 again.

**Pool** (`ServicesProofs`): `PoolExact`. The invariant is types, exact count,
exclusive use and `open <= MaxSize`: the count makes `max(0, ...)` harmless, the
bound is what `Reserve` tests, and together they give the limit.

**Membership** (`MembershipProofs`): `CouponsBackOrders`, `RefundsTakeRewards`,
`RefundsCanBeBooked`, `DeadOrdersStayDead`, `EntitlementsArePaidFor`. `StoreOk` says of the tables: a settled
order has a payment row; a used coupon names an order that holds it and is not
refunded; a reward belongs to the settled first purchase of its user, and once it is
revoked its coupon is dead. `RefundsKnown` ties them to the provider: a refund it
ever reported is of a settled order, and `Forward` - settled stays settled, dead
stays dead - is what every operation does to the tables. Without `RefundsKnown` a
late report of a failed refund could revive a closed order, since that branch of the
code does not look at the order's status.
`EntitlementsArePaidFor` rests on `Books`, which relates three things. Of the tables
(`Laid`): a period that is held belongs to an order that was bought, an expired one is
over, and two of one user lie apart unless one was reported late. Of the money
(`PriceTaken`): the provider took the price of every settled order of its own. Of the
provider (`ReportsTrue`): what it reported as paid has been paid, at a time that is not
in the future. A refund lays out the remaining periods of its user anew, by a recursive
function over the orders: that the function exists is shown from a least counterexample
in the number of orders paid earlier, for which the orders that exist must be finitely
many; they are, since each operation adds at most one. What the layout makes of the
periods does not depend on what they were before. A renewal extends the latest active
period, and the one that is expired already is where `ReportedLate` comes from. For a
clock of one tick the property holds without that case; with two it does not, and the
attempt to prove it without showed that.

**Accounts** (`AccountsProofs`): `AccountsStayUsable`, `FriendsHaveAgreed`,
`GuessesStayBounded`, `LateSessionsAreFew`, `StudyIsWhatWasReported`. On
PostgreSQL a call executes its statements one by one and may break off between two of
them, so the properties of the tables are not inductive by themselves. `StoreOk` looks ahead: `After(db, todo, k)` is what the tables will be
once `k` of the statements that remain have run; friendship is agreed after every `k`,
and every account has its profile, and one is super admin, after the last. What a call
writes is proved once, as a list of statements that `Fits` the tables it found; a
statement of somebody else cannot come in between because of `Locking`. `BundleOk` is
the same for a backup read in sections: it reads the accounts first, and no account or
last super admin is ever removed, so what it reads later covers them. `CountInv` bounds
a window together with the requests that may still count in it: a row's count plus
those past the check stays below the limit plus the threads.
`SessionInv` does for sessions what `CountInv` does for counters, as long as no call has
broken off and no backup was restored: of the tables as they will be once the call under
way has ended (`Final`), it counts the sessions of an account together with the requests
that have passed the password check and may still create one. Those older than the
password are at most one for each other thread and change, except while a thread is
between `change_password` and `delete_other_sessions_for_user` (`Changing`), which then
ends all of them but its own; those of a suspended account and the logins past their
check are fewer than the threads, because the administrator's request is one of them.
`Coming` says what such a call may still do to the tables a login reads without the lock:
one that finds the account active just before `set_user_status` suspends it finds no
session left after it. `NoneAssumption` says that a missing value is no email, no thread,
no status and no token; emails and threads are finitely many.
`StudyInv` says that every row `Tells` what was reported and that no call under way
holds a study statement, since the merge is a single one. That a merge adds a report to
what a row tells (`MergeTells`) rests on `NormalForm` and `SumIsLength`: what
`NormalizeRanges` makes of a list covers the same points with ranges that lie apart,
whose lengths add up to the number of points. Both follow the recursive functions step
by step from a least counterexample, after `ChainExists` has shown that such functions
exist; sorting is a bijection of places, so it neither loses nor repeats a range.

**Subjects** (`SubjectsProofs`): `DamageStaysBounded`, an accounting over the steps of
all calls. `DamageIsBounded` speaks of moments when nothing is at work and is far from
inductive. `Bad` is what would be left behind if the calls at work went on
undisturbed: misplaced list entries, children that some call is about to delete while
they stay listed (`Doomed`), entries of a subject about to be deleted without them
(`Overlooked`), and what no call will unlink, own or delete any more. `Load` adds the
projects that creations hold, `Others` are the calls that hold none. `Accounts` says
that `Bad` never outgrows the faults and overlaps, and that while something is at work
`Load` and `Others` together outgrow them by one at most. A call that begins joins
`Others` at the price of an overlap; a creation that gets its project moves from
`Others` to `Load`; a failing step makes one project bad; and a call can spoil a project
that a creation holds - which is in `Load` already - only while it is in `Others`
itself, so the second sum leaves room for it. The rest of the
invariant says how projects and calls fit together: lists are one level deep and a link
leads to the subject that lists the material (`ProjectsFit`), a creation is alone with
its project (`CreationFits`), what a deletion has left to do contains whatever it set
out to forget (`DeletionFits`), and without an overlap a title that differs is about to
be written (`TitlesAgree`). `BadFrame` says once what a step may do to `Bad`, and each
action only shows that it spoils nothing but the project it is busy with. The materials
of a subject are visited in any order, as the code sorts them by date.

**Library** (`LibraryProofs`): all its safety properties. `CopiesAreUnique`: only a
scan, which only a course runs, marks an instance as missing, and only a missing
instance is pruned; so the leaves of any other project show instances it has
(`KeepsMaterials`), and that is where a collection, whose request has read its point
in an earlier session (`ReadingOk`), anchors the copy.

`ForestsStayWhole` is `ProjectIsWhole`. `Whole` is what the code's validator checks:
parents and children name each other and nobody is below itself. The invariant
(`FInv`) adds to it where identifiers come from: a file's instance has the path for
its name, everything made by the project has a number it has counted, a mirror has
its folder's identifier. Without that, a new node could meet an old one and a scan
could show a path twice. That a forest is finite and nobody is below itself is also
what gives the model's recursive functions a value. `Weight`, the number of nodes
met below, falls on the way down: that is the induction from children to parents
(`BottomUp`) and from parents to children (`TopDown`) of every later proof, and
`BottomUpRecursion` and `TopDownRecursion` show once that a function defined along
them exists. A rebuilt forest is whole because it has a depth (`WholeByDepth`): the
length of a path for a scan, the position in the outline for a book.

`StoresAgree`: both walks meet the instances of the leaves below (`CoveredFacts`).
`LinksFailByLostFolders`: the driver computes parents by walking up and children by
walking down, and the two are inverse (`LinkedBelow`, `LinkedAbove`).
`FoldersWaitForTheirParts`: what is linked below a folder and holds instances is on a
lower layer (`LayersGrow`) and as eligible as the folder, so it was taken first.

The assumptions on the disk (`LibraryAssumption`) say that a path ends at the root,
that the disk is finite, and that paths, identifiers of the netdisk, points and
generated numbers are different things: the code gives identifiers it derives from
paths prefixes of their own (`lonm_`, `instm_`).

**Recognition** (`ServicesProofs`): `NothingLeftBehind`,
`BridgeNeverServesUploads`. At most one request is past its session, because the
write lock is one; so a slot is taken exactly while somebody is between the two
ends of its use, a replaced process had been doubted, and the task of the loop's own
upload is never fetched.

**Netdisk** (`ServicesProofs`): `AccountsCanBeRefreshed`,
`DisabledStaysDisabled`. The newest grant of an account is in its row, in the hands
of one request, or was dropped by a request that failed.

**Settings** (`ServicesProofs`): `SavesAreInForce`. What a save has read is what the
row holds, unless another save of the same user has overlapped it.

Only model-checked: `SettledUnlessStuck` and `RestsOnlyByConflict` as they stand
(see above), and all liveness.
Liveness under fairness and ENABLED are beyond the prover, and so are the library's
induction theorems, which take an operator as a parameter; where a number measures the
data, a least counterexample takes their place.

## 7. What is left

* A composition of `Library` with `ReviewEngine`. Each fixes the roll-up strategy where
  the other's nodes would come in, but the code switches it at any time and without a
  check (`set_project_roll_up_strategy`, `api.py` 6355), and mirrors can be registered
  while the queue is busy. By reading: with MANUAL, mirrors of a layer's queue are
  pushed up below an `AGGREGATION` parent (`api.py` 5791); after a switch back the scan
  resets the parent of each mirror (`api.py` 3790-3805) while that node still lists it
  as a child, so every commit of the scan is refused, with no folder lost. Below such a
  node SQL walks the mirrors' task nodes while memory asks the folders they are bound
  to, so `QueriesAgree` and `StuckByLostFoldersOnly` hold for one strategy only.
* `rows` with two requests at a time. A save of the global settings writes the projects
  it encoded and deletes all other rows (`api.py` 2498): by reading, a project created
  directly in between is erased. With two requests over an SQL store the properties of
  the run are false already by finding 1, so the save's share would have to be told
  apart from it.
* The reconciliation process inside the refund. The server's refund is one action
  (`RefundSucceeded`): in the server a lock of the store makes it one, although
  `sync_provider_refund` reads the order before its transaction begins
  (`membership_store.py` 2125). The reconciliation tool is another process and can
  confirm a payment between that reading and the first write. By reading, two outcomes
  are not those of some serial order: an order using the reward's coupon is confirmed
  there, and the coupon is revoked although it was just used; or, when the report
  repeats a refund already booked, the periods are laid out without an order just paid.
  Both need two orders paid through the provider: over 3.5 million states with the
  present module, more than the run has time for.

## 8. Not modelled, and why

* Parts without state of their own: subtitles, speech output and media files,
  translation of HTTP requests, runtime configuration, views, stand-alone tools.
  What matters of the adapter - threads, `async` handlers, the order of calls in a
  route - is in the modules of the stores.
* Frontend stores: timers and statistics in the browser. `StudyStats` is the server
  side and assumes nothing about the browser.
* Left out of modelled parts: optional filters and range snapshots of the scheduler;
  read-only sessions; profile texts and directory lists of accounts; legacy
  synthetic folders, titles and remote subfolders of the library; the text of
  prompts, streams and the story generator; the life time of an asset and the
  freshness of an access token; `sync_material_tree` (`api.py` 5188-5491), which
  raises at once.
* A PostgreSQL commit whose answer is lost: what a client may expect then is stated
  nowhere (`inmemory_system.py` 2882).
