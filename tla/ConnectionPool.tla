--------------------------- MODULE ConnectionPool ---------------------------
(***************************************************************************)
(* The PostgreSQL connection pool (backend/system/postgres_runtime.py):    *)
(* idle connections in a bounded queue, a counter of open connections      *)
(* under a lock, and threads that take a connection, open one, or wait.    *)
(*                                                                         *)
(* The queue and the counter have locks of their own: one action is one    *)
(* operation on either.  The queue is last-in-first-out in the code; which *)
(* idle connection is taken matters to no property, so idle is a set.      *)
(* A connection is an identity that is used again once it is closed.       *)
(***************************************************************************)
EXTENDS Integers, FiniteSets

CONSTANTS
    Threads,        \* server threads
    Connections,    \* connection identities
    NoConnection,   \* none of them
    MinSize,        \* PLM_POSTGRES_POOL_MIN_SIZE
    MaxSize,        \* PLM_POSTGRES_POOL_MAX_SIZE
    MaxBreaks       \* bound: connections that break

ASSUME PoolAssumption ==
    /\ IsFiniteSet(Threads) /\ NoConnection \notin Connections
    /\ MinSize \in Nat /\ MaxSize \in Nat /\ 1 <= MinSize /\ MinSize <= MaxSize
    /\ MaxBreaks \in Nat

VARIABLES
    idle,           \* _idle: connections in the queue
    open,           \* _open_count
    closed,         \* connections whose closed flag is set
    thread,         \* what each thread does with which connection
    breaks          \* connections broken so far

vars == <<idle, open, closed, thread, breaks>>

\* out: in no call; tested: get_nowait found nothing; connecting: in _connect_raw;
\* waiting: in get(timeout); got: before the closed test; held: the caller has it;
\* closing, closingRetry: in _discard, before the counter is decremented; retry:
\* back at the head of acquire's loop
At(t, pc) == thread[t].pc = pc
Goto(t, pc, c) == thread' = [thread EXCEPT ![t] = [pc |-> pc, conn |-> c]]
Leave(t) == Goto(t, "out", NoConnection)

WithConnection == {"got", "held"}
Users == {t \in Threads : thread[t].pc \in WithConnection}
InUse == {thread[t].conn : t \in Users}
Alive == idle \cup InUse

\* the pool after _warm_pool
Init ==
    /\ idle \in SUBSET Connections /\ IsFiniteSet(idle) /\ Cardinality(idle) = MinSize
    /\ open = MinSize
    /\ closed = {}
    /\ thread = [t \in Threads |-> [pc |-> "out", conn |-> NoConnection]]
    /\ breaks = 0

-----------------------------------------------------------------------------
(* acquire()                                                               *)

\* get_nowait
TryIdle(t) ==
    IF idle = {}
    THEN Goto(t, "tested", NoConnection) /\ UNCHANGED idle
    ELSE \E c \in idle : idle' = idle \ {c} /\ Goto(t, "got", c)

Acquire(t) == At(t, "out") /\ TryIdle(t) /\ UNCHANGED <<open, closed, breaks>>

\* under the lock: a place below the maximum, or wait
Reserve(t) ==
    /\ At(t, "tested")
    /\ IF open < MaxSize
       THEN open' = open + 1 /\ Goto(t, "connecting", NoConnection)
       ELSE Goto(t, "waiting", NoConnection) /\ UNCHANGED open
    /\ UNCHANGED <<idle, closed, breaks>>

\* a new connection is returned without the closed test
Connected(t) ==
    /\ At(t, "connecting")
    /\ \E c \in Connections \ Alive : Goto(t, "held", c) /\ closed' = closed \ {c}
    /\ UNCHANGED <<idle, open, breaks>>

Decrement == open' = IF open > 0 THEN open - 1 ELSE 0

\* mutant: the place stays taken
ConnectFailsKeepsPlace(t) ==
    /\ At(t, "connecting")
    /\ Leave(t)
    /\ UNCHANGED <<idle, open, closed, breaks>>

ConnectFails(t) ==
    /\ At(t, "connecting")
    /\ Decrement
    /\ Leave(t)
    /\ UNCHANGED <<idle, closed, breaks>>

\* get(timeout): somebody released a connection
TakeReleased(t) ==
    /\ At(t, "waiting")
    /\ \E c \in idle : idle' = idle \ {c} /\ Goto(t, "got", c)
    /\ UNCHANGED <<open, closed, breaks>>

\* mutant: get() without a timeout
NeverTimesOut(t) == FALSE /\ UNCHANGED vars

\* get(timeout): nobody did, TimeoutError
TimesOut(t) ==
    /\ At(t, "waiting")
    /\ idle = {}
    /\ Leave(t)
    /\ UNCHANGED <<idle, open, closed, breaks>>

\* the closed flag decides between the caller and _discard with another try
Test(t) ==
    /\ At(t, "got")
    /\ LET c == thread[t].conn
       IN  IF c \in closed THEN Goto(t, "closingRetry", NoConnection) ELSE Goto(t, "held", c)
    /\ UNCHANGED <<idle, open, closed, breaks>>

-----------------------------------------------------------------------------
(* release() and _discard()                                                *)

\* a closed connection, or one the full queue refuses, is discarded
Release(t) ==
    /\ At(t, "held")
    /\ LET c == thread[t].conn
       IN  IF c \in closed \/ Cardinality(idle) >= MaxSize
           THEN Goto(t, "closing", NoConnection) /\ UNCHANGED idle
           ELSE idle' = idle \cup {c} /\ Leave(t)
    /\ UNCHANGED <<open, closed, breaks>>

\* _discard: close() has returned, the counter follows
Discard(t) ==
    /\ At(t, "closing")
    /\ Decrement
    /\ Leave(t)
    /\ UNCHANGED <<idle, closed, breaks>>

\* _discard inside acquire
DiscardInAcquire(t) ==
    /\ At(t, "closingRetry")
    /\ Decrement
    /\ Goto(t, "retry", NoConnection)
    /\ UNCHANGED <<idle, closed, breaks>>

\* the loop goes on with get_nowait
Retry(t) == At(t, "retry") /\ TryIdle(t) /\ UNCHANGED <<open, closed, breaks>>

\* the server or the network drops a connection
Breaks(c) ==
    /\ breaks < MaxBreaks
    /\ c \in Alive \ closed
    /\ closed' = closed \cup {c}
    /\ breaks' = breaks + 1
    /\ UNCHANGED <<idle, open, thread>>

\* what a thread does once it is in a call
Progress(t) ==
    \/ Reserve(t) \/ Connected(t) \/ ConnectFails(t)
    \/ TakeReleased(t) \/ TimesOut(t) \/ Test(t)
    \/ Release(t) \/ Discard(t) \/ DiscardInAcquire(t) \/ Retry(t)

Next == (\E t \in Threads : Acquire(t) \/ Progress(t)) \/ \E c \in Connections : Breaks(c)

Spec == Init /\ [][Next]_vars

\* Threads run, connect() and get(timeout) return, and every holder releases its
\* connection (the finally of connection()).
FairSpec == Spec /\ \A t \in Threads : WF_vars(Progress(t))

-----------------------------------------------------------------------------
(* Properties.                                                             *)

PCs == {"out", "tested", "connecting", "waiting", "got", "held", "closing", "closingRetry", "retry"}

\* The pool's variables hold values of the shapes the code declares.
TypeOK ==
    /\ idle \in SUBSET Connections /\ IsFiniteSet(idle) /\ closed \in SUBSET Connections
    /\ open \in Nat
    /\ thread \in [Threads -> [pc: PCs, conn: Connections \cup {NoConnection}]]
    /\ \A t \in Threads : thread[t].conn = NoConnection <=> t \notin Users
    /\ breaks \in 0 .. MaxBreaks

Counted == {t \in Threads : thread[t].pc \in WithConnection \cup {"connecting", "closing", "closingRetry"}}

\* _open_count is exact: what is idle, in use, being opened or being closed.  So
\* neither a failed connect nor a broken connection costs the pool a place, and
\* max(0, ...) never hides a decrement too many.
CountIsExact == open = Cardinality(idle) + Cardinality(Counted)

\* No connection is idle and in use, or in use by two threads.
OneHolder ==
    /\ idle \cap InUse = {}
    /\ \A t, u \in Users : thread[t].conn = thread[u].conn => t = u

\* The server never sees more than max_pool_size connections of this pool, the
\* ones being opened and closed included; and a thread that releases one always
\* finds room in the queue.
WithinLimit ==
    /\ Cardinality(idle) + Cardinality(Counted) <= MaxSize
    /\ \A t \in Users : Cardinality(idle) < MaxSize

\* Every connection is in one place and counted once, whatever connects fail and
\* whichever connections break (postgres_runtime.py:94-160): the counter is exact, no
\* connection has two users, and the limit holds.
PoolIsExact == CountIsExact /\ OneHolder /\ WithinLimit

\* acquire() ends: a thread does not wait for a connection for ever, even when
\* every connection it could wait for is discarded instead of released.
AcquireEnds ==
    \A t \in Threads :
        thread[t].pc \in {"tested", "connecting", "waiting", "got", "closingRetry", "retry"}
            ~> thread[t].pc \in {"held", "out"}

=============================================================================
