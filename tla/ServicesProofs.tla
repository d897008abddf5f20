--------------------------- MODULE ServicesProofs ---------------------------
(* Theorems about the four services a request may pass through: the pool of *)
(* connections, speech recognition, cloud accounts, and the language model  *)
(* with the settings of both.  They share no state: each part has an        *)
(* invariant of its own.                                                    *)
EXTENDS ConnectionPool, Transcription, CloudAccounts, Assistant, FiniteSetTheorems, TLAPS

-----------------------------------------------------------------------------
(* Theorems about ConnectionPool: the open counter is exact and never above *)
(* the maximum, and a connection has at most one user, for any number of    *)
(* threads and connections and any pool size.                               *)

\* CountIsExact and OneHolder are inductive only together with the types and with
\* the bound Reserve tests.
PoolInv == TypeOK /\ CountIsExact /\ OneHolder /\ open <= MaxSize

CountedPC == WithConnection \cup {"connecting", "closing", "closingRetry"}

\* Cardinalities of the two sets the counter adds up.
LEMMA Sizes ==
    ASSUME TypeOK
    PROVE  /\ IsFiniteSet(idle) /\ IsFiniteSet(Counted)
           /\ Cardinality(idle) \in Nat /\ Cardinality(Counted) \in Nat
<1>1. Counted \subseteq Threads
  BY DEF Counted
<1>2. IsFiniteSet(Counted)
  BY <1>1, PoolAssumption, FS_Subset
<1> QED
  BY <1>2, FS_CardinalityType DEF TypeOK

\* A thread's step adds it to the counted threads, removes it, or does neither.
LEMMA CountedStep ==
    ASSUME TypeOK, NEW t \in Threads, NEW pc \in PCs, NEW c, Goto(t, pc, c)
    PROVE  /\ At(t, pc)' /\ thread'[t].conn = c
           /\ \A u \in Threads \ {t} : thread'[u] = thread[u]
           /\ Cardinality(Counted') = Cardinality(Counted)
                 + (IF pc \in CountedPC THEN 1 ELSE 0) - (IF t \in Counted THEN 1 ELSE 0)
<1>1. /\ thread'[t] = [pc |-> pc, conn |-> c]
      /\ \A u \in Threads \ {t} : thread'[u] = thread[u]
  BY DEF Goto, TypeOK
<1>2. IsFiniteSet(Counted) /\ Cardinality(Counted) \in Nat
  BY Sizes
<1>3. CASE pc \in CountedPC
  <2>1. Counted' = Counted \cup {t}
    BY <1>1, <1>3 DEF Counted, CountedPC
  <2>2. Cardinality(Counted \cup {t}) = IF t \in Counted THEN Cardinality(Counted) ELSE Cardinality(Counted) + 1
    BY <1>2, FS_AddElement
  <2>3. Cardinality(Counted') = Cardinality(Counted) + 1 - (IF t \in Counted THEN 1 ELSE 0)
    BY <1>2, <2>1, <2>2
  <2> QED
    BY <1>1, <1>3, <2>3 DEF At
<1>4. CASE pc \notin CountedPC
  <2>1. Counted' = Counted \ {t}
    BY <1>1, <1>4 DEF Counted, CountedPC
  <2>2. Cardinality(Counted \ {t}) = IF t \in Counted THEN Cardinality(Counted) - 1 ELSE Cardinality(Counted)
    BY <1>2, FS_RemoveElement
  <2>3. Cardinality(Counted') = Cardinality(Counted) + 0 - (IF t \in Counted THEN 1 ELSE 0)
    BY <1>2, <2>1, <2>2
  <2> QED
    BY <1>1, <1>4, <2>3 DEF At
<1> QED
  BY <1>3, <1>4

\* What taking an idle connection, or finding none, does to the invariant.
LEMMA TryIdleStep ==
    ASSUME PoolInv, NEW t \in Threads, t \notin Counted, TryIdle(t),
           UNCHANGED <<open, closed, breaks>>
    PROVE  PoolInv'
<1>1. TypeOK /\ t \notin Users
  BY DEF PoolInv, Users, Counted
<1>2. /\ IsFiniteSet(idle) /\ Cardinality(idle) \in Nat /\ Cardinality(Counted) \in Nat
  BY <1>1, Sizes
<1>3. CASE idle = {} /\ Goto(t, "tested", NoConnection) /\ UNCHANGED idle
  <2>1. Cardinality(Counted') = Cardinality(Counted)
    BY <1>1, <1>2, <1>3, CountedStep DEF PCs, CountedPC, WithConnection
  <2>2. TypeOK'
    BY <1>1, <1>3 DEF TypeOK, Goto, PCs, Users, WithConnection
  <2>3. Users' = Users /\ \A u \in Users : thread'[u] = thread[u]
    BY <1>1, <1>3 DEF TypeOK, Goto, Users, WithConnection
  <2> QED
    BY <1>3, <2>1, <2>2, <2>3 DEF PoolInv, CountIsExact, OneHolder, InUse
<1>4. ASSUME NEW c \in idle, idle' = idle \ {c}, Goto(t, "got", c)
      PROVE  PoolInv'
  <2>1. Cardinality(Counted') = Cardinality(Counted) + 1
    BY <1>1, <1>2, <1>4, CountedStep DEF PCs, CountedPC, WithConnection
  <2>2. IsFiniteSet(idle') /\ Cardinality(idle') = Cardinality(idle) - 1
    BY <1>2, <1>4, FS_RemoveElement
  <2>3. TypeOK'
    BY <1>1, <1>4, <2>2, PoolAssumption DEF TypeOK, Goto, PCs, Users, WithConnection
  <2>4. /\ Users' = Users \cup {t} /\ thread'[t].conn = c
        /\ \A u \in Users : thread'[u] = thread[u]
    BY <1>1, <1>4 DEF TypeOK, Goto, Users, WithConnection
  <2>5. c \notin InUse
    BY <1>4 DEF PoolInv, OneHolder
  <2>6. OneHolder'
    BY <1>1, <1>4, <2>4, <2>5 DEF PoolInv, OneHolder, InUse
  <2> QED
    BY <1>2, <2>1, <2>2, <2>3, <2>6 DEF PoolInv, CountIsExact
<1> QED
  BY <1>3, <1>4 DEF TryIdle

\* A step of a thread that leaves the queue alone and does not give the thread a
\* connection keeps OneHolder.
LEMMA UsersShrink ==
    ASSUME OneHolder, NEW t \in Threads, TypeOK, UNCHANGED idle,
           \A u \in Threads \ {t} : thread'[u] = thread[u],
           t \in Users' => t \in Users /\ thread'[t].conn = thread[t].conn
    PROVE  OneHolder'
<1>1. Users' \subseteq Users /\ \A u \in Users' : thread'[u].conn = thread[u].conn
  BY DEF Users
<1> QED
  BY <1>1 DEF OneHolder, InUse

LEMMA PoolInitInv == Init => PoolInv
<1> SUFFICES ASSUME Init PROVE PoolInv
  OBVIOUS
<1>1. Users = {} /\ Counted = {}
  BY DEF Init, Users, Counted, WithConnection
<1>2. Cardinality(Counted) = 0
  BY <1>1, FS_EmptySet
<1>3. TypeOK
  BY <1>1, PoolAssumption DEF Init, TypeOK, PCs
<1> QED
  BY <1>1, <1>2, <1>3, PoolAssumption DEF Init, PoolInv, CountIsExact, OneHolder, InUse

LEMMA PoolStepInv == PoolInv /\ [Next]_vars => PoolInv'
<1> SUFFICES ASSUME PoolInv, [Next]_vars PROVE PoolInv'
  OBVIOUS
<1> USE DEF At
<1>0. /\ TypeOK /\ CountIsExact /\ OneHolder /\ open <= MaxSize
      /\ IsFiniteSet(idle) /\ Cardinality(idle) \in Nat /\ Cardinality(Counted) \in Nat
      /\ MaxSize \in Nat /\ open \in Nat
  BY Sizes, PoolAssumption DEF PoolInv, TypeOK
<1>1. ASSUME NEW t \in Threads, Acquire(t) \/ Retry(t)
      PROVE  PoolInv'
  <2>1. t \notin Counted
    BY <1>1 DEF Acquire, Retry, Counted, WithConnection
  <2> QED
    BY <1>1, <2>1, TryIdleStep DEF Acquire, Retry
<1>2. ASSUME NEW t \in Threads, Reserve(t)
      PROVE  PoolInv'
  <2>1. t \notin Counted /\ t \notin Users
    BY <1>2 DEF Reserve, Counted, Users, WithConnection
  <2>2. CASE open < MaxSize /\ open' = open + 1 /\ Goto(t, "connecting", NoConnection)
    <3>1. Cardinality(Counted') = Cardinality(Counted) + 1
      BY <1>0, <2>1, <2>2, CountedStep DEF PCs, CountedPC
    <3>2. TypeOK'
      BY <1>0, <1>2, <2>1, <2>2 DEF Reserve, TypeOK, Goto, PCs, Users, WithConnection
    <3>3. OneHolder'
      BY <1>0, <1>2, <2>1, <2>2, UsersShrink DEF Reserve, Goto, TypeOK, Users, WithConnection
    <3> QED
      BY <1>0, <1>2, <2>2, <3>1, <3>2, <3>3 DEF PoolInv, CountIsExact, Reserve
  <2>3. CASE Goto(t, "waiting", NoConnection) /\ UNCHANGED open
    <3>1. Cardinality(Counted') = Cardinality(Counted)
      BY <1>0, <2>1, <2>3, CountedStep DEF PCs, CountedPC, WithConnection
    <3>2. TypeOK'
      BY <1>0, <1>2, <2>1, <2>3 DEF Reserve, TypeOK, Goto, PCs, Users, WithConnection
    <3>3. OneHolder'
      BY <1>0, <1>2, <2>1, <2>3, UsersShrink DEF Reserve, Goto, TypeOK, Users, WithConnection
    <3> QED
      BY <1>0, <1>2, <2>3, <3>1, <3>2, <3>3 DEF PoolInv, CountIsExact, Reserve
  <2> QED
    BY <1>2, <2>2, <2>3 DEF Reserve
<1>3. ASSUME NEW t \in Threads, Connected(t)
      PROVE  PoolInv'
  <2>1. t \in Counted /\ t \notin Users
    BY <1>3 DEF Connected, Counted, Users, WithConnection
  <2> PICK c \in Connections \ Alive : Goto(t, "held", c) /\ closed' = closed \ {c}
    BY <1>3 DEF Connected
  <2>2. Cardinality(Counted') = Cardinality(Counted)
    BY <1>0, <2>1, CountedStep DEF PCs, CountedPC, WithConnection
  <2>3. TypeOK'
    BY <1>0, <1>3, <2>1, PoolAssumption DEF Connected, TypeOK, Goto, PCs, Users, WithConnection
  <2>4. /\ Users' = Users \cup {t} /\ thread'[t].conn = c
        /\ \A u \in Users : thread'[u] = thread[u]
    BY <1>0, <2>1 DEF TypeOK, Goto, Users, WithConnection
  <2>5. OneHolder'
    BY <1>0, <1>3, <2>1, <2>4 DEF OneHolder, InUse, Alive, Connected
  <2> QED
    BY <1>0, <1>3, <2>2, <2>3, <2>5 DEF PoolInv, CountIsExact, Connected
<1>4. ASSUME NEW t \in Threads, ConnectFails(t) \/ Discard(t) \/ DiscardInAcquire(t)
      PROVE  PoolInv'
  <2>1. t \in Counted /\ t \notin Users
    BY <1>4 DEF ConnectFails, Discard, DiscardInAcquire, Counted, Users, WithConnection
  <2> PICK pc \in {"out", "retry"} : Goto(t, pc, NoConnection)
    BY <1>4 DEF ConnectFails, Discard, DiscardInAcquire, Leave
  <2>2. Cardinality(Counted') = Cardinality(Counted) - 1
    BY <1>0, <2>1, CountedStep DEF PCs, CountedPC, WithConnection
  <2>3. Cardinality(Counted) # 0
    BY <1>0, <2>1, Sizes, FS_EmptySet
  <2>4. open' = open - 1 /\ UNCHANGED <<idle, closed, breaks>>
    BY <1>0, <1>4, <2>3 DEF ConnectFails, Discard, DiscardInAcquire, Decrement, CountIsExact
  <2>5. open' \in Nat
    BY <1>0, <2>3, <2>4 DEF CountIsExact
  <2>6. TypeOK'
    BY <1>0, <2>1, <2>4, <2>5 DEF TypeOK, Goto, PCs, Users, WithConnection
  <2>7. OneHolder'
    BY <1>0, <2>1, <2>4, UsersShrink DEF Goto, TypeOK, Users, WithConnection
  <2> QED
    BY <1>0, <2>2, <2>4, <2>6, <2>7 DEF PoolInv, CountIsExact
<1>5. ASSUME NEW t \in Threads, TakeReleased(t)
      PROVE  PoolInv'
  <2>1. t \notin Counted /\ TryIdle(t)
    BY <1>5 DEF TakeReleased, TryIdle, Counted, WithConnection
  <2> QED
    BY <1>5, <2>1, TryIdleStep DEF TakeReleased
<1>6. ASSUME NEW t \in Threads, TimesOut(t)
      PROVE  PoolInv'
  <2>1. t \notin Counted /\ t \notin Users /\ Goto(t, "out", NoConnection)
    BY <1>6 DEF TimesOut, Leave, Counted, Users, WithConnection
  <2>2. Cardinality(Counted') = Cardinality(Counted)
    BY <1>0, <2>1, CountedStep DEF PCs, CountedPC, WithConnection
  <2>3. TypeOK'
    BY <1>0, <1>6, <2>1 DEF TimesOut, TypeOK, Goto, PCs, Users, WithConnection
  <2>4. OneHolder'
    BY <1>0, <1>6, <2>1, UsersShrink DEF TimesOut, Goto, TypeOK, Users, WithConnection
  <2> QED
    BY <1>0, <1>6, <2>2, <2>3, <2>4 DEF PoolInv, CountIsExact, TimesOut
<1>7. ASSUME NEW t \in Threads, Test(t)
      PROVE  PoolInv'
  <2>1. t \in Counted /\ t \in Users
    BY <1>7 DEF Test, Counted, Users, WithConnection
  <2>2. PICK pc \in {"closingRetry", "held"}, c \in Connections \cup {NoConnection} :
           Goto(t, pc, c) /\ IF pc = "held" THEN c = thread[t].conn ELSE c = NoConnection
    BY <1>0, <1>7 DEF Test, TypeOK
  <2>3. Cardinality(Counted') = Cardinality(Counted)
    BY <1>0, <2>1, <2>2, CountedStep DEF PCs, CountedPC, WithConnection
  <2>4. TypeOK'
    BY <1>0, <1>7, <2>1, <2>2 DEF Test, TypeOK, Goto, PCs, Users, WithConnection
  <2>5. OneHolder'
    BY <1>0, <1>7, <2>1, <2>2, UsersShrink DEF Test, Goto, TypeOK, Users, WithConnection
  <2> QED
    BY <1>0, <1>7, <2>3, <2>4, <2>5 DEF PoolInv, CountIsExact, Test
<1>8. ASSUME NEW t \in Threads, Release(t)
      PROVE  PoolInv'
  <2> DEFINE c == thread[t].conn
  <2>1. t \in Counted /\ t \in Users /\ c \in Connections /\ c \notin idle
    BY <1>0, <1>8 DEF Release, Counted, Users, WithConnection, TypeOK, OneHolder, InUse
  <2>2. CASE Goto(t, "closing", NoConnection) /\ UNCHANGED idle
    <3>1. Cardinality(Counted') = Cardinality(Counted)
      BY <1>0, <2>1, <2>2, CountedStep DEF PCs, CountedPC, WithConnection
    <3>2. TypeOK'
      BY <1>0, <1>8, <2>1, <2>2 DEF Release, TypeOK, Goto, PCs, Users, WithConnection
    <3>3. OneHolder'
      BY <1>0, <1>8, <2>1, <2>2, UsersShrink DEF Release, Goto, TypeOK, Users, WithConnection
    <3> QED
      BY <1>0, <1>8, <2>2, <3>1, <3>2, <3>3 DEF PoolInv, CountIsExact, Release
  <2>3. CASE idle' = idle \cup {c} /\ Leave(t)
    <3>1. Goto(t, "out", NoConnection)
      BY <2>3 DEF Leave
    <3>2. Cardinality(Counted') = Cardinality(Counted) - 1
      BY <1>0, <2>1, <3>1, CountedStep DEF PCs, CountedPC, WithConnection
    <3>3. IsFiniteSet(idle') /\ Cardinality(idle') = Cardinality(idle) + 1
      BY <1>0, <2>1, <2>3, FS_AddElement
    <3>4. TypeOK'
      BY <1>0, <1>8, <2>1, <2>3, <3>1, <3>3 DEF Release, TypeOK, Goto, PCs, Users, WithConnection
    <3>5. Users' = Users \ {t} /\ \A u \in Users' : thread'[u] = thread[u]
      BY <1>0, <3>1 DEF TypeOK, Goto, Users, WithConnection
    <3>6. OneHolder'
      BY <1>0, <2>1, <2>3, <3>5 DEF OneHolder, InUse
    <3> QED
      BY <1>0, <1>8, <3>2, <3>3, <3>4, <3>6 DEF PoolInv, CountIsExact, Release
  <2> QED
    BY <1>8, <2>2, <2>3 DEF Release
<1>9. ASSUME NEW c \in Connections, Breaks(c)
      PROVE  PoolInv'
  <2>1. UNCHANGED <<idle, open, thread>>
    BY <1>9 DEF Breaks
  <2>2. TypeOK'
    BY <1>0, <1>9, PoolAssumption DEF Breaks, TypeOK, Users
  <2> QED
    BY <1>0, <2>1, <2>2 DEF PoolInv, CountIsExact, OneHolder, InUse, Users, Counted
<1>10. CASE UNCHANGED vars
  BY <1>0, <1>10 DEF vars, PoolInv, TypeOK, CountIsExact, OneHolder, InUse, Users, Counted
<1> QED
  BY <1>1, <1>2, <1>3, <1>4, <1>5, <1>6, <1>7, <1>8, <1>9, <1>10 DEF Next, Progress

LEMMA PoolSpecInv == Spec => []PoolInv
BY PoolInitInv, PoolStepInv, PTL DEF Spec

\* Inside the invariant the number of connections stays within the maximum.
LEMMA InvWithinLimit == PoolInv => WithinLimit
<1> SUFFICES ASSUME PoolInv PROVE WithinLimit
  OBVIOUS
<1>1. /\ TypeOK /\ open = Cardinality(idle) + Cardinality(Counted) /\ open <= MaxSize
      /\ MaxSize \in Nat
  BY PoolAssumption DEF PoolInv, CountIsExact
<1>2. /\ IsFiniteSet(Counted) /\ Cardinality(idle) \in Nat /\ Cardinality(Counted) \in Nat
  BY <1>1, Sizes
<1>3. ASSUME NEW t \in Users
      PROVE  Cardinality(idle) < MaxSize
  <2>1. t \in Counted
    BY DEF Users, Counted
  <2>2. Cardinality(Counted) # 0
    BY <1>2, <2>1, FS_EmptySet
  <2> QED
    BY <1>1, <1>2, <2>2
<1> QED
  BY <1>1, <1>2, <1>3 DEF WithinLimit

\* Whatever connects fail and connections break: the counter is what is idle, in use,
\* being opened or being closed, no connection is handed to two callers, and the
\* server never sees more than max_pool_size of them.
THEOREM PoolExact == Spec => []PoolIsExact
<1>1. PoolInv => PoolIsExact
  BY InvWithinLimit DEF PoolInv, PoolIsExact
<1> QED
  BY <1>1, PoolSpecInv, PTL

-----------------------------------------------------------------------------
(* Theorems about Transcription: an upload is never transcribed by DashScope, *)
(* and nothing is left behind on any way out of a request, for any number of  *)
(* threads, services, requests and child processes.                          *)

Pcs == {"resolve", "slot", "extract", "call", "poll", "health", "start", "boot", "whisper",
        "reply", "commit"}
Services == RequestServices \cup SavedServices \cup {EnvService, NoService}
Busy == [pc: Pcs, target: {"point", "instance"}, asked: RequestServices \cup {NoService},
         service: Services, slot: BOOLEAN, runtime: Runtimes \cup {NoService}]

\* The variables hold values of the shapes the code declares.
AsrTypeOK ==
    /\ writeLock \in BOOLEAN /\ saved \in SavedServices \cup {NoService} /\ slots \in Int
    /\ clips \subseteq Workers /\ assets \subseteq Workers
    /\ task \in [Workers -> {"none", "queued", "fetched", "done", "failed"}]
    /\ runtime \in Runtimes \cup {NoService}
    /\ process \in [Runtimes -> {"none", "booting", "up", "hung", "gone"}]
    /\ job \in [Workers -> {Idle} \cup Busy]
    /\ doubted \subseteq Runtimes

AtWork(w) == ~Is(w, "idle")
AnyAtWork == \E w \in Workers : AtWork(w)

\* The write lock is held by one request.
OneAtWork ==
    /\ \A v, w \in Workers : AtWork(v) /\ AtWork(w) => v = w
    /\ writeLock = AnyAtWork

\* The slot is taken after "slot", and given back before "commit".
SlotsKnown ==
    /\ slots = IF \E w \in Workers : InSlot(w) THEN MaxSlots - 1 ELSE MaxSlots
    /\ \A w \in Workers : Is(w, "resolve") \/ Is(w, "slot") \/ Is(w, "commit") => ~InSlot(w)

\* A clip is its request's until the answer is parsed; an asset is one of a poll.
ClipsKnown ==
    /\ \A w \in clips : AtWork(w) /\ ~Is(w, "commit")
    /\ \A w \in Workers : Is(w, "call") => w \in clips
    /\ \A w \in assets : w \in clips /\ Is(w, "poll")

\* A process that runs is known; one that is replaced has been doubted.
Known(i) == i = runtime \/ i \in doubted \/ \E w \in Workers : Is(w, "boot") /\ job[w].runtime = i

ProcessesKnown ==
    /\ \A i \in Runtimes : Running(i) => Known(i)
    /\ \A w \in Workers : Is(w, "start") \/ Is(w, "boot") => runtime \in doubted \cup {NoService}

\* Nobody serves the clip of the request that blocks the event loop.
LoopIsBlocked ==
    /\ task[Loop] \notin {"fetched", "done"}
    /\ job[Loop].pc \in {"health", "start", "boot", "whisper", "reply", "commit"} =>
           job[Loop].service # "dashscope"
    /\ NoUploadByBridge

AsrInv == AsrTypeOK /\ OneAtWork /\ SlotsKnown /\ ClipsKnown /\ ProcessesKnown /\ LoopIsBlocked

-----------------------------------------------------------------------------
(* What an action does to the job of one worker.                           *)

\* The other workers go on with what they do.
Others(w) == \A v \in Workers \ {w} : job'[v] = job[v]

LEMMA Shape ==
    ASSUME AsrTypeOK, NEW w \in Workers
    PROVE  /\ AtWork(w) => job[w] \in Busy
           /\ ~AtWork(w) => job[w] = Idle
  BY DEF AsrTypeOK, AtWork, Is, Idle, Busy, Pcs

LEMMA RuntimesAreNumbers == NoService \notin Runtimes
  BY TranscriptionAssumption DEF Runtimes

LEMMA ToPc ==
    ASSUME AsrTypeOK, NEW w \in Workers, AtWork(w), NEW pc \in Pcs, Proceed(w, pc)
    PROVE  /\ job' \in [Workers -> {Idle} \cup Busy]
           /\ Others(w) /\ job'[w].pc = pc /\ job'[w].slot = job[w].slot
           /\ job'[w].service = job[w].service /\ job'[w].runtime = job[w].runtime
<1>1. job[w] \in Busy
  BY Shape
<1>2. [job[w] EXCEPT !.pc = pc] \in Busy
  BY <1>1 DEF Busy
<1>3. job \in [Workers -> {Idle} \cup Busy]
  BY DEF AsrTypeOK
<1>4. job' = [job EXCEPT ![w] = [job[w] EXCEPT !.pc = pc]]
  BY DEF Proceed
<1>5. job' \in [Workers -> {Idle} \cup Busy] /\ Others(w) /\ job'[w] = [job[w] EXCEPT !.pc = pc]
  BY <1>2, <1>3, <1>4 DEF Others
<1> QED
  BY <1>1, <1>5 DEF Busy

LEMMA ToSlot ==
    ASSUME AsrTypeOK, NEW w \in Workers, AtWork(w), NEW pc \in Pcs, NEW b \in BOOLEAN,
           job' = [job EXCEPT ![w].pc = pc, ![w].slot = b]
    PROVE  /\ job' \in [Workers -> {Idle} \cup Busy]
           /\ Others(w) /\ job'[w].pc = pc /\ job'[w].slot = b
           /\ job'[w].service = job[w].service /\ job'[w].runtime = job[w].runtime
<1>1. job[w] \in Busy
  BY Shape
<1>2. [job[w] EXCEPT !.pc = pc, !.slot = b] \in Busy
  BY <1>1 DEF Busy
<1>3. job \in [Workers -> {Idle} \cup Busy]
  BY DEF AsrTypeOK
<1>4. job' = [job EXCEPT ![w] = [job[w] EXCEPT !.pc = pc, !.slot = b]]
  BY <1>3
<1>5. job' \in [Workers -> {Idle} \cup Busy] /\ Others(w) /\ job'[w] = [job[w] EXCEPT !.pc = pc, !.slot = b]
  BY <1>2, <1>3, <1>4 DEF Others
<1> QED
  BY <1>1, <1>5 DEF Busy

LEMMA ToService ==
    ASSUME AsrTypeOK, NEW w \in Workers, AtWork(w), NEW pc \in Pcs, NEW s \in Services,
           job' = [job EXCEPT ![w].pc = pc, ![w].service = s]
    PROVE  /\ job' \in [Workers -> {Idle} \cup Busy]
           /\ Others(w) /\ job'[w].pc = pc /\ job'[w].slot = job[w].slot
           /\ job'[w].service = s /\ job'[w].runtime = job[w].runtime
<1>1. job[w] \in Busy
  BY Shape
<1>2. [job[w] EXCEPT !.pc = pc, !.service = s] \in Busy
  BY <1>1 DEF Busy
<1>3. job \in [Workers -> {Idle} \cup Busy]
  BY DEF AsrTypeOK
<1>4. job' = [job EXCEPT ![w] = [job[w] EXCEPT !.pc = pc, !.service = s]]
  BY <1>3
<1>5. job' \in [Workers -> {Idle} \cup Busy] /\ Others(w) /\ job'[w] = [job[w] EXCEPT !.pc = pc, !.service = s]
  BY <1>2, <1>3, <1>4 DEF Others
<1> QED
  BY <1>1, <1>5 DEF Busy

LEMMA ToRuntime ==
    ASSUME AsrTypeOK, NEW w \in Workers, AtWork(w), NEW pc \in Pcs, NEW i \in Runtimes,
           job' = [job EXCEPT ![w].pc = pc, ![w].runtime = i]
    PROVE  /\ job' \in [Workers -> {Idle} \cup Busy]
           /\ Others(w) /\ job'[w].pc = pc /\ job'[w].slot = job[w].slot
           /\ job'[w].service = job[w].service /\ job'[w].runtime = i
<1>1. job[w] \in Busy
  BY Shape
<1>2. [job[w] EXCEPT !.pc = pc, !.runtime = i] \in Busy
  BY <1>1 DEF Busy
<1>3. job \in [Workers -> {Idle} \cup Busy]
  BY DEF AsrTypeOK
<1>4. job' = [job EXCEPT ![w] = [job[w] EXCEPT !.pc = pc, !.runtime = i]]
  BY <1>3
<1>5. job' \in [Workers -> {Idle} \cup Busy] /\ Others(w) /\ job'[w] = [job[w] EXCEPT !.pc = pc, !.runtime = i]
  BY <1>2, <1>3, <1>4 DEF Others
<1> QED
  BY <1>1, <1>5 DEF Busy

LEMMA ToIdle ==
    ASSUME AsrTypeOK, NEW w \in Workers, job' = [job EXCEPT ![w] = Idle]
    PROVE  /\ job' \in [Workers -> {Idle} \cup Busy]
           /\ Others(w) /\ job'[w] = Idle /\ job'[w].pc = "idle"
  BY DEF AsrTypeOK, Others, Idle

LEMMA ToBusy ==
    ASSUME AsrTypeOK, NEW w \in Workers, NEW r \in Busy, job' = [job EXCEPT ![w] = r]
    PROVE  /\ job' \in [Workers -> {Idle} \cup Busy]
           /\ Others(w) /\ job'[w] = r
  BY DEF AsrTypeOK, Others
-----------------------------------------------------------------------------
(* The initial state, and what the invariant says.                         *)

LEMMA AsrInitInv == AsrInit => AsrInv
<1> SUFFICES ASSUME AsrInit PROVE AsrInv
  OBVIOUS
<1>1. AsrTypeOK
  <2>1. job \in [Workers -> {Idle} \cup Busy]
    BY DEF AsrInit
  <2>2. slots \in Int
    BY TranscriptionAssumption DEF AsrInit
  <2> QED
    BY <2>1, <2>2 DEF AsrInit, AsrTypeOK
<1>2. \A w \in Workers : job[w] = Idle /\ job[w].pc = "idle"
  BY DEF AsrInit, Idle
<1>3. Loop \in Workers
  BY DEF Workers
<1> QED
  BY <1>1, <1>2, <1>3
     DEF AsrInv, AsrInit, OneAtWork, AnyAtWork, AtWork, Is, SlotsKnown, InSlot, ClipsKnown,
         ProcessesKnown, Running, LoopIsBlocked, NoUploadByBridge

LEMMA AsrInvFollows == AsrInv => ResourcesHaveOwners /\ NoUploadByBridge
<1> SUFFICES ASSUME AsrInv PROVE ResourcesHaveOwners
  BY DEF AsrInv, LoopIsBlocked
<1> DEFINE S == {w \in Workers : InSlot(w)}
<1>1. slots + Cardinality(S) = MaxSlots
  <2>1. CASE \E w \in Workers : InSlot(w)
    <3>1. PICK w \in Workers : InSlot(w)
      BY <2>1
    <3>2. S = {w}
      BY <3>1 DEF AsrInv, OneAtWork, AtWork, InSlot
    <3>3. Cardinality(S) = 1
      BY <3>2, FS_Singleton
    <3> QED
      BY <2>1, <3>3, TranscriptionAssumption DEF AsrInv, SlotsKnown
  <2>2. CASE ~\E w \in Workers : InSlot(w)
    <3>1. S = {}
      BY <2>2
    <3>2. Cardinality(S) = 0
      BY <3>1, FS_EmptySet
    <3> QED
      BY <2>2, <3>2, TranscriptionAssumption DEF AsrInv, SlotsKnown
  <2> QED
    BY <2>1, <2>2
<1>2. \A v, w \in {w \in Workers : ~Is(w, "idle")} : v = w
  BY DEF AsrInv, OneAtWork, AtWork
<1>3. writeLock <=> {w \in Workers : ~Is(w, "idle")} # {}
  BY DEF AsrInv, OneAtWork, AtWork, AnyAtWork
<1>4. clips \subseteq {w \in Workers : ~Is(w, "idle")} /\ assets \subseteq {w \in clips : Is(w, "poll")}
  BY DEF AsrInv, AsrTypeOK, ClipsKnown, AtWork
<1>5. \A i \in Runtimes : Running(i) =>
        i = runtime \/ i \in doubted \/ \E w \in Workers : Is(w, "boot") /\ job[w].runtime = i
  BY DEF AsrInv, ProcessesKnown, Known
<1> HIDE DEF S
<1>6. S = {w \in Workers : InSlot(w)}
  BY DEF S
<1> QED
  BY <1>1, <1>2, <1>3, <1>4, <1>5, <1>6 DEF ResourcesHaveOwners
-----------------------------------------------------------------------------
(* What stays as it was when one request moves on from one step to another. *)

Moves(w) == AtWork(w) /\ AtWork(w)' /\ Others(w)

LEMMA WorkFrame ==
    ASSUME AsrInv, NEW w \in Workers, Moves(w), UNCHANGED writeLock
    PROVE  OneAtWork'
<1>1. \A v \in Workers : AtWork(v)' <=> AtWork(v)
  BY DEF Moves, Others, AtWork, Is
<1> QED
  BY <1>1 DEF AsrInv, OneAtWork, AnyAtWork

LEMMA SlotFrame ==
    ASSUME AsrInv, NEW w \in Workers, Moves(w), UNCHANGED slots,
           job'[w].slot = job[w].slot,
           job'[w].pc \in {"resolve", "slot", "commit"} => ~job[w].slot
    PROVE  SlotsKnown'
<1>1. \A v \in Workers : InSlot(v)' <=> InSlot(v)
  BY DEF Moves, Others, AtWork, Is, InSlot
<1>2. ASSUME NEW v \in Workers, Is(v, "resolve")' \/ Is(v, "slot")' \/ Is(v, "commit")'
      PROVE  ~InSlot(v)'
  <2>1. CASE v = w
    BY <1>2, <2>1 DEF Is, InSlot
  <2>2. CASE v # w
    BY <1>1, <1>2, <2>2 DEF Moves, Others, Is, AsrInv, SlotsKnown
  <2> QED
    BY <2>1, <2>2
<1> QED
  BY <1>1, <1>2 DEF AsrInv, SlotsKnown

LEMMA ClipFrame ==
    ASSUME AsrInv, NEW w \in Workers, Moves(w), UNCHANGED assets,
           clips' = clips \/ clips' = clips \cup {w}, ~Is(w, "poll"), job'[w].pc # "commit",
           job'[w].pc = "call" => w \in clips'
    PROVE  ClipsKnown'
  BY DEF AsrInv, AsrTypeOK, ClipsKnown, Moves, Others, AtWork, Is

LEMMA ProcessFrame ==
    ASSUME AsrInv, NEW w \in Workers, Moves(w), UNCHANGED <<runtime, process, doubted>>,
           ~Is(w, "boot"), job'[w].pc \notin {"start", "boot"}
    PROVE  ProcessesKnown'
<1>1. \A v \in Workers : Is(v, "boot") => Is(v, "boot")' /\ job'[v].runtime = job[v].runtime
  BY DEF Moves, Others, Is
<1>2. \A v \in Workers : Is(v, "start")' \/ Is(v, "boot")' => Is(v, "start") \/ Is(v, "boot")
  BY DEF Moves, Others, Is
<1>3. ASSUME NEW i \in Runtimes, Running(i)' PROVE Known(i)'
  BY <1>1, <1>3 DEF AsrInv, ProcessesKnown, Known, Running
<1> QED
  BY <1>2, <1>3 DEF AsrInv, ProcessesKnown

LEMMA LoopFrame ==
    ASSUME AsrInv, NEW w \in Workers, Others(w), task'[Loop] \notin {"fetched", "done"},
           UNCHANGED recorded,
           w = Loop => \/ job'[w].pc \in {"idle", "resolve", "slot", "extract", "call", "poll"}
                       \/ job'[w].service # "dashscope"
    PROVE  LoopIsBlocked'
<1>1. Loop \in Workers
  BY DEF Workers
<1> QED
  BY <1>1 DEF AsrInv, LoopIsBlocked, NoUploadByBridge, Others

-----------------------------------------------------------------------------
(* Leaving a request.                                                      *)

\* Whatever has been reached, everything is given back.
LEMMA AnsweredKeeps ==
    ASSUME AsrInv, NEW w \in Workers, AtWork(w), Answered(w),
           process' \in [Runtimes -> {"none", "booting", "up", "hung", "gone"}],
           \A i \in Runtimes : Running(i)' =>
               Running(i) /\ (Is(w, "boot") => i # job[w].runtime)
    PROVE  AsrInv'
<1>0. job' \in [Workers -> {Idle} \cup Busy] /\ Others(w) /\ job'[w] = Idle /\ job'[w].pc = "idle"
  BY ToIdle DEF AsrInv, Answered
<1>1. \A v \in Workers : ~AtWork(v)' /\ ~InSlot(v)'
  BY <1>0 DEF AsrInv, OneAtWork, AtWork, Is, Others, InSlot
<1>2. \A v \in Workers : v # w => ~InSlot(v)
  BY DEF AsrInv, OneAtWork, AtWork, InSlot
<1>3. slots' = MaxSlots
  BY <1>2, TranscriptionAssumption DEF AsrInv, SlotsKnown, Answered, Unwind
<1>4. AsrTypeOK'
  <2>1. clips' \subseteq Workers /\ assets' \subseteq Workers
    BY DEF AsrInv, AsrTypeOK, Answered, Unwind, Unregister
  <2>2. task' \in [Workers -> {"none", "queued", "fetched", "done", "failed"}]
    BY DEF AsrInv, AsrTypeOK, Answered
  <2>3. slots' \in Int
    BY <1>3, TranscriptionAssumption
  <2>4. writeLock' \in BOOLEAN
    BY DEF Answered
  <2> QED
    BY <1>0, <2>1, <2>2, <2>3, <2>4 DEF AsrInv, AsrTypeOK, Answered
<1>5. OneAtWork'
  BY <1>1 DEF OneAtWork, AnyAtWork, Answered
<1>6. SlotsKnown'
  BY <1>1, <1>3 DEF SlotsKnown
<1>7. ClipsKnown'
  <2>1. \A v \in clips : v = w
    BY DEF AsrInv, AsrTypeOK, ClipsKnown, OneAtWork
  <2> QED
    BY <1>1, <2>1 DEF AsrInv, ClipsKnown, Answered, Unwind, Unregister, AtWork, Is
<1>8. ProcessesKnown'
  <2>1. ASSUME NEW i \in Runtimes, Running(i)' PROVE Known(i)'
    <3>1. Running(i) /\ (Is(w, "boot") => i # job[w].runtime)
      BY <2>1
    <3>2. \A v \in Workers : Is(v, "boot") => v = w
      BY DEF AsrInv, OneAtWork, AtWork, Is
    <3>3. i = runtime \/ i \in doubted
      BY <3>1, <3>2 DEF AsrInv, ProcessesKnown, Known
    <3> QED
      BY <3>3 DEF Known, Answered
  <2> QED
    BY <1>1, <2>1 DEF ProcessesKnown, AtWork, Is
<1>9. LoopIsBlocked'
  <2>1. task'[Loop] \notin {"fetched", "done"}
    BY DEF AsrInv, LoopIsBlocked, AsrTypeOK, Answered
  <2> QED
    BY <1>0, <2>1, LoopFrame DEF Answered
<1> QED
  BY <1>4, <1>5, <1>6, <1>7, <1>8, <1>9 DEF AsrInv

LEMMA FailKeeps ==
    ASSUME AsrInv, NEW w \in Workers, AtWork(w), ~Is(w, "boot"), Fail(w)
    PROVE  AsrInv'
<1>1. \A i \in Runtimes : Running(i)' => Running(i)
  BY DEF Fail, Running
<1>2. process' \in [Runtimes -> {"none", "booting", "up", "hung", "gone"}]
  BY DEF Fail, AsrInv, AsrTypeOK
<1> QED
  BY <1>1, <1>2, AnsweredKeeps DEF Fail

LEMMA BootFailsKeeps ==
    ASSUME AsrInv, NEW w \in Workers, BootFails(w)
    PROVE  AsrInv'
<1>1. AtWork(w) /\ Is(w, "boot")
  BY DEF BootFails, AtWork, Is
<1>2. process' \in [Runtimes -> {"none", "booting", "up", "hung", "gone"}]
  BY DEF BootFails, AsrInv, AsrTypeOK
<1>3. ASSUME NEW i \in Runtimes, Running(i)' PROVE Running(i) /\ i # job[w].runtime
  BY <1>3 DEF BootFails, Running, AsrInv, AsrTypeOK
<1> QED
  BY <1>1, <1>2, <1>3, AnsweredKeeps DEF BootFails

-----------------------------------------------------------------------------
(* The steps of a request.                                                 *)

LEMMA OpenKeeps ==
    ASSUME AsrInv, NEW w \in Workers, NEW target \in {"point", "instance"},
           NEW asked \in RequestServices, Open(w, target, asked)
    PROVE  AsrInv'
<1> DEFINE r == [pc |-> "resolve", target |-> target, asked |-> asked,
                 service |-> NoService, slot |-> FALSE, runtime |-> NoService]
<1>1. r \in Busy /\ r.pc = "resolve" /\ ~r.slot
  BY DEF Busy, Pcs, Services
<1>2. job' = [job EXCEPT ![w] = r]
  BY DEF Open
<1> HIDE DEF r
<1>3. job' \in [Workers -> {Idle} \cup Busy] /\ Others(w) /\ job'[w] = r
  BY <1>1, <1>2, ToBusy DEF AsrInv
<1>4. \A v \in Workers : ~AtWork(v)
  BY DEF AsrInv, OneAtWork, AnyAtWork, Open
<1>5. \A v \in Workers : (AtWork(v)' <=> v = w) /\ ~InSlot(v)' /\ ~InSlot(v)
  BY <1>1, <1>3, <1>4 DEF AtWork, Is, Others, InSlot
<1>6. AsrTypeOK'
  <2>1. writeLock' \in BOOLEAN
    BY DEF Open
  <2> QED
    BY <1>3, <2>1 DEF AsrInv, AsrTypeOK, Open
<1>7. OneAtWork'
  BY <1>5 DEF OneAtWork, AnyAtWork, Open
<1>8. SlotsKnown'
  BY <1>5 DEF AsrInv, SlotsKnown, Open
<1>9. ClipsKnown'
  <2>1. \A v \in Workers : ~Is(v, "call")'
    BY <1>1, <1>3, <1>4 DEF AtWork, Is, Others
  <2>2. clips' = {} /\ assets' = {}
    BY <1>4 DEF AsrInv, AsrTypeOK, ClipsKnown, Open
  <2> QED
    BY <2>1, <2>2 DEF ClipsKnown
<1>10. ProcessesKnown'
  <2>1. ASSUME NEW i \in Runtimes, Running(i)' PROVE Known(i)'
    BY <1>4, <2>1 DEF AsrInv, ProcessesKnown, Known, Running, Open, AtWork, Is
  <2>2. \A v \in Workers : ~Is(v, "start")' /\ ~Is(v, "boot")'
    BY <1>1, <1>3, <1>4 DEF AtWork, Is, Others
  <2> QED
    BY <2>1, <2>2 DEF ProcessesKnown
<1>11. LoopIsBlocked'
  BY <1>1, <1>3, LoopFrame DEF AsrInv, LoopIsBlocked, Open
<1> QED
  BY <1>6, <1>7, <1>8, <1>9, <1>10, <1>11 DEF AsrInv

\* A request that has found its service; an upload never goes to the runtime.
LEMMA ResolvedKeeps ==
    ASSUME AsrInv, NEW w \in Workers, Is(w, "resolve"), NEW pc \in {"slot", "health", "call"},
           Resolved(w, pc), w = Loop => pc = "call",
           clips' = clips \/ clips' = clips \cup {w}, pc = "call" => w \in clips'
    PROVE  AsrInv'
<1>1. Served(w) \in Services /\ pc \in Pcs /\ AtWork(w)
  <2>1. job[w] \in Busy /\ AtWork(w)
    BY Shape DEF AsrInv, AtWork, Is
  <2>2. job[w].asked \in RequestServices \cup {NoService}
    BY <2>1 DEF Busy
  <2>3. Served(w) \in Services
    BY <2>2 DEF Served, AsrServiceFor, Services, AsrInv, AsrTypeOK
  <2> QED
    BY <2>1, <2>3 DEF Pcs
<1>2. /\ job' \in [Workers -> {Idle} \cup Busy]
      /\ Others(w) /\ job'[w].pc = pc /\ job'[w].slot = job[w].slot
  BY <1>1, ToService DEF AsrInv, Resolved
<1>3. Moves(w) /\ ~job[w].slot
  BY <1>1, <1>2 DEF Moves, AtWork, Is, AsrInv, SlotsKnown, InSlot
<1>4. AsrTypeOK'
  BY <1>2 DEF AsrInv, AsrTypeOK, Resolved
<1>5. OneAtWork'
  BY <1>3, WorkFrame DEF Resolved
<1>6. SlotsKnown'
  BY <1>2, <1>3, SlotFrame DEF Resolved
<1>7. ClipsKnown'
  BY <1>2, <1>3, ClipFrame DEF Resolved, Is
<1>8. ProcessesKnown'
  BY <1>2, <1>3, ProcessFrame DEF Resolved, Is
<1>9. LoopIsBlocked'
  BY <1>2, LoopFrame DEF Resolved, AsrInv, LoopIsBlocked
<1> QED
  BY <1>4, <1>5, <1>6, <1>7, <1>8, <1>9 DEF AsrInv

LEMMA InSessionKeeps ==
    ASSUME AsrInv, NEW w \in Workers,
           \/ RequestAsrInSession(w) \/ RequestInstanceAsrInSession(w)
           \/ RequestAsrFromAudioUploadInSession(w) \/ RequestInstanceAsrFromAudioUploadInSession(w)
    PROVE  AsrInv'
<1>1. Is(w, "resolve") /\ AtWork(w) /\ ~Is(w, "boot")
  BY DEF RequestAsrInSession, RequestInstanceAsrInSession, RequestAsrFromAudioUploadInSession,
         RequestInstanceAsrFromAudioUploadInSession, Resolving, Is, AtWork
<1>2. CASE w \in Pool /\ ToExtract(w)
  <2>1. w # Loop
    BY <1>2, TranscriptionAssumption
  <2> QED
    BY <1>1, <1>2, <2>1, ResolvedKeeps DEF ToExtract
<1>3. CASE w = Loop /\ ToUpload(w)
  BY <1>1, <1>3, ResolvedKeeps DEF ToUpload
<1>4. CASE Fail(w)
  BY <1>1, <1>4, FailKeeps
<1> QED
  BY <1>2, <1>3, <1>4
     DEF RequestAsrInSession, RequestInstanceAsrInSession, RequestAsrFromAudioUploadInSession,
         RequestInstanceAsrFromAudioUploadInSession

\* From one step to the next while the request keeps what it holds.
LEMMA ProceedKeeps ==
    ASSUME AsrInv, NEW w \in Workers, AtWork(w), NEW pc \in {"call", "reply"}, Proceed(w, pc),
           ~Is(w, "poll"), ~Is(w, "boot"),
           w = Loop /\ pc = "reply" => job[w].service # "dashscope",
           clips' = clips \/ clips' = clips \cup {w}, pc = "call" => w \in clips',
           UNCHANGED <<writeLock, saved, slots, assets, task, runtime, process, recorded, doubted>>
    PROVE  AsrInv'
<1>1. pc \in Pcs
  BY DEF Pcs
<1>2. /\ job' \in [Workers -> {Idle} \cup Busy]
      /\ Others(w) /\ job'[w].pc = pc /\ job'[w].slot = job[w].slot
      /\ job'[w].service = job[w].service
  BY <1>1, ToPc DEF AsrInv
<1>3. Moves(w)
  BY <1>2 DEF Moves, AtWork, Is
<1>4. AsrTypeOK'
  BY <1>2 DEF AsrInv, AsrTypeOK
<1>5. OneAtWork'
  BY <1>3, WorkFrame
<1>6. SlotsKnown'
  BY <1>2, <1>3, SlotFrame
<1>7. ClipsKnown'
  BY <1>2, <1>3, ClipFrame
<1>8. ProcessesKnown'
  BY <1>2, <1>3, ProcessFrame
<1>9. LoopIsBlocked'
  BY <1>2, LoopFrame DEF AsrInv, LoopIsBlocked
<1> QED
  BY <1>4, <1>5, <1>6, <1>7, <1>8, <1>9 DEF AsrInv

LEMMA TakeSlotKeeps ==
    ASSUME AsrInv, NEW w \in Workers, TakeSlot(w)
    PROVE  AsrInv'
<1>1. Is(w, "slot") /\ AtWork(w) /\ ~Is(w, "boot")
  BY DEF TakeSlot, Is, AtWork
<1>2. CASE Fail(w)
  BY <1>1, <1>2, FailKeeps
<1>3. CASE /\ slots' = slots - 1
           /\ job' = [job EXCEPT ![w].pc = "extract", ![w].slot = TRUE]
           /\ UNCHANGED <<writeLock, point, saved, clips, assets, task, runtime, process,
                          requests, recorded, doubted>>
  <2>1. /\ job' \in [Workers -> {Idle} \cup Busy]
        /\ Others(w) /\ job'[w].pc = "extract" /\ job'[w].slot = TRUE
    BY <1>1, <1>3, ToSlot DEF AsrInv, Pcs
  <2>2. Moves(w) /\ InSlot(w)'
    BY <1>1, <2>1 DEF Moves, AtWork, Is, InSlot
  <2>3. \A v \in Workers : ~InSlot(v) /\ (v # w => job'[v] = job[v] /\ ~AtWork(v))
    BY <1>1, <2>1 DEF AsrInv, OneAtWork, SlotsKnown, InSlot, AtWork, Is, Others
  <2>4. slots = MaxSlots /\ slots' = MaxSlots - 1
    BY <1>3, <2>3 DEF AsrInv, SlotsKnown
  <2>5. AsrTypeOK'
    BY <1>3, <2>1, <2>4, TranscriptionAssumption DEF AsrInv, AsrTypeOK
  <2>6. OneAtWork'
    BY <1>3, <2>2, WorkFrame
  <2>7. SlotsKnown'
    BY <2>1, <2>2, <2>3, <2>4 DEF SlotsKnown, Is, AtWork
  <2>8. ClipsKnown'
    BY <1>1, <1>3, <2>1, <2>2, ClipFrame DEF Is
  <2>9. ProcessesKnown'
    BY <1>1, <1>3, <2>1, <2>2, ProcessFrame
  <2>10. LoopIsBlocked'
    BY <1>3, <2>1, LoopFrame DEF AsrInv, LoopIsBlocked
  <2> QED
    BY <2>5, <2>6, <2>7, <2>8, <2>9, <2>10 DEF AsrInv
<1> QED
  BY <1>2, <1>3 DEF TakeSlot

LEMMA ExtractClipKeeps ==
    ASSUME AsrInv, NEW w \in Workers, ExtractClip(w)
    PROVE  AsrInv'
<1>1. AtWork(w) /\ ~Is(w, "boot") /\ ~Is(w, "poll")
  BY DEF ExtractClip, Is, AtWork
<1> QED
  BY <1>1, FailKeeps, ProceedKeeps DEF ExtractClip

LEMMA CallHttpKeeps ==
    ASSUME AsrInv, NEW w \in Workers, CallHttp(w)
    PROVE  AsrInv'
<1>1. AtWork(w) /\ ~Is(w, "boot") /\ ~Is(w, "poll") /\ job[w].service # "dashscope"
  BY DEF CallHttp, Is, AtWork
<1> QED
  BY <1>1, FailKeeps, ProceedKeeps DEF CallHttp, Step

LEMMA CallWhisperKeeps ==
    ASSUME AsrInv, NEW w \in Workers, CallWhisper(w)
    PROVE  AsrInv'
<1>1. AtWork(w) /\ ~Is(w, "boot") /\ ~Is(w, "poll")
  BY DEF CallWhisper, Is, AtWork
<1>2. w = Loop => job[w].service # "dashscope"
  BY DEF CallWhisper, Is, AsrInv, LoopIsBlocked
<1> QED
  BY <1>1, <1>2, FailKeeps, ProceedKeeps DEF CallWhisper, Step

LEMMA SubmitDashscopeKeeps ==
    ASSUME AsrInv, NEW w \in Workers, SubmitDashscope(w)
    PROVE  AsrInv'
<1>1. Is(w, "call") /\ AtWork(w) /\ ~Is(w, "boot") /\ ~Is(w, "poll")
  BY DEF SubmitDashscope, Is, AtWork
<1>2. CASE Fail(w)
  BY <1>1, <1>2, FailKeeps
<1>3. CASE /\ assets' = (assets \cap clips) \cup {w}
           /\ task' = [task EXCEPT ![w] = "queued"]
           /\ Proceed(w, "poll")
           /\ UNCHANGED <<writeLock, point, saved, slots, clips, runtime, process,
                          requests, recorded, doubted>>
  <2>1. /\ job' \in [Workers -> {Idle} \cup Busy]
        /\ Others(w) /\ job'[w].pc = "poll" /\ job'[w].slot = job[w].slot
    BY <1>1, <1>3, ToPc DEF AsrInv, Pcs
  <2>2. Moves(w)
    BY <1>1, <2>1 DEF Moves, AtWork, Is
  <2>3. task' \in [Workers -> {"none", "queued", "fetched", "done", "failed"}]
    BY <1>3 DEF AsrInv, AsrTypeOK
  <2>4. AsrTypeOK'
    BY <1>3, <2>1, <2>3 DEF AsrInv, AsrTypeOK
  <2>5. OneAtWork' /\ SlotsKnown'
    BY <1>3, <2>1, <2>2, WorkFrame, SlotFrame
  <2>6. ClipsKnown'
    BY <1>1, <1>3, <2>1, <2>2 DEF AsrInv, AsrTypeOK, ClipsKnown, Moves, Others, AtWork, Is
  <2>7. ProcessesKnown'
    BY <1>1, <1>3, <2>1, <2>2, ProcessFrame
  <2>8. LoopIsBlocked'
    <3>1. task'[Loop] \notin {"fetched", "done"}
      BY <1>3 DEF AsrInv, AsrTypeOK, LoopIsBlocked, Workers
    <3> QED
      BY <1>3, <2>1, <3>1, LoopFrame
  <2> QED
    BY <2>4, <2>5, <2>6, <2>7, <2>8 DEF AsrInv
<1> QED
  BY <1>2, <1>3 DEF SubmitDashscope

LEMMA PollSucceedsKeeps ==
    ASSUME AsrInv, NEW w \in Workers, PollSucceeds(w)
    PROVE  AsrInv'
<1>1. Is(w, "poll") /\ AtWork(w) /\ ~Is(w, "boot") /\ w # Loop
  BY DEF PollSucceeds, Is, AtWork, AsrInv, LoopIsBlocked
<1>2. /\ job' \in [Workers -> {Idle} \cup Busy]
      /\ Others(w) /\ job'[w].pc = "reply" /\ job'[w].slot = job[w].slot
  BY <1>1, ToPc DEF AsrInv, Pcs, PollSucceeds
<1>3. Moves(w)
  BY <1>1, <1>2 DEF Moves, AtWork, Is
<1>4. AsrTypeOK'
  <2>1. task' \in [Workers -> {"none", "queued", "fetched", "done", "failed"}]
    BY DEF AsrInv, AsrTypeOK, PollSucceeds
  <2> QED
    BY <1>2, <2>1 DEF AsrInv, AsrTypeOK, PollSucceeds, Unregister
<1>5. OneAtWork' /\ SlotsKnown'
  BY <1>2, <1>3, WorkFrame, SlotFrame DEF PollSucceeds
<1>6. ClipsKnown'
  BY <1>1, <1>2, <1>3
     DEF AsrInv, AsrTypeOK, ClipsKnown, Moves, Others, AtWork, Is, PollSucceeds, Unregister
<1>7. ProcessesKnown'
  BY <1>1, <1>2, <1>3, ProcessFrame DEF PollSucceeds
<1>8. LoopIsBlocked'
  <2>1. task'[Loop] \notin {"fetched", "done"}
    BY DEF AsrInv, AsrTypeOK, LoopIsBlocked, Workers, PollSucceeds
  <2> QED
    BY <1>1, <1>2, <2>1, LoopFrame DEF PollSucceeds
<1> QED
  BY <1>4, <1>5, <1>6, <1>7, <1>8 DEF AsrInv

LEMMA PollFailsKeeps ==
    ASSUME AsrInv, NEW w \in Workers, PollFails(w)
    PROVE  AsrInv'
<1>1. AtWork(w) /\ ~Is(w, "boot")
  BY DEF PollFails, Is, AtWork
<1> QED
  BY <1>1, FailKeeps DEF PollFails

LEMMA CheckRuntimeKeeps ==
    ASSUME AsrInv, NEW w \in Workers, CheckRuntime(w)
    PROVE  AsrInv'
<1>1. Is(w, "health") /\ AtWork(w) /\ ~Is(w, "boot") /\ ~Is(w, "poll")
  BY DEF CheckRuntime, Is, AtWork
<1>2. \A v \in Workers : ~Is(v, "boot")
  BY <1>1 DEF AsrInv, OneAtWork, AtWork, Is
<1>3. CASE Healthy
  <2>1. runtime \in Runtimes
    BY <1>3 DEF Healthy, AsrInv, AsrTypeOK
  <2>2. /\ job' \in [Workers -> {Idle} \cup Busy]
        /\ Others(w) /\ job'[w].pc = "whisper" /\ job'[w].slot = job[w].slot
        /\ job'[w].service = job[w].service
    BY <1>1, <1>3, <2>1, ToRuntime DEF AsrInv, Pcs, CheckRuntime
  <2>3. Moves(w)
    BY <1>1, <2>2 DEF Moves, AtWork, Is
  <2>4. AsrTypeOK'
    BY <1>3, <2>2 DEF AsrInv, AsrTypeOK, CheckRuntime
  <2>5. OneAtWork' /\ SlotsKnown' /\ ClipsKnown'
    BY <1>1, <2>2, <2>3, WorkFrame, SlotFrame, ClipFrame DEF CheckRuntime
  <2>6. ProcessesKnown'
    BY <1>1, <1>3, <2>2, <2>3, ProcessFrame DEF CheckRuntime
  <2>7. LoopIsBlocked'
    BY <1>1, <2>2, LoopFrame DEF AsrInv, LoopIsBlocked, CheckRuntime, Is
  <2> QED
    BY <2>4, <2>5, <2>6, <2>7 DEF AsrInv
<1>4. CASE ~Healthy
  <2>1. /\ Proceed(w, "start")
        /\ runtime' = IF runtime # NoService /\ Running(runtime) THEN runtime ELSE NoService
        /\ doubted' = doubted \cup {i \in Runtimes : i = runtime /\ Running(i)}
        /\ UNCHANGED process
    BY <1>4 DEF CheckRuntime
  <2>2. /\ job' \in [Workers -> {Idle} \cup Busy]
        /\ Others(w) /\ job'[w].pc = "start" /\ job'[w].slot = job[w].slot
        /\ job'[w].service = job[w].service
    BY <1>1, <2>1, ToPc DEF AsrInv, Pcs
  <2>3. Moves(w)
    BY <1>1, <2>2 DEF Moves, AtWork, Is
  <2>4. AsrTypeOK'
    BY <2>1, <2>2 DEF AsrInv, AsrTypeOK, CheckRuntime
  <2>5. OneAtWork' /\ SlotsKnown' /\ ClipsKnown'
    BY <1>1, <2>2, <2>3, WorkFrame, SlotFrame, ClipFrame DEF CheckRuntime
  <2>6. ProcessesKnown'
    <3>1. ASSUME NEW i \in Runtimes, Running(i)' PROVE Known(i)'
      <4>1. Running(i) /\ (i = runtime \/ i \in doubted)
        BY <1>2, <2>1, <3>1 DEF Running, AsrInv, ProcessesKnown, Known
      <4>2. i \in doubted'
        BY <2>1, <4>1
      <4> QED
        BY <4>2 DEF Known
    <3>2. runtime' \in doubted' \cup {NoService}
      BY <2>1 DEF AsrInv, AsrTypeOK
    <3> QED
      BY <3>1, <3>2 DEF ProcessesKnown
  <2>7. LoopIsBlocked'
    BY <1>1, <2>2, LoopFrame DEF AsrInv, LoopIsBlocked, CheckRuntime, Is
  <2> QED
    BY <2>4, <2>5, <2>6, <2>7 DEF AsrInv
<1> QED
  BY <1>3, <1>4

LEMMA StartRuntimeKeeps ==
    ASSUME AsrInv, NEW w \in Workers, StartRuntime(w)
    PROVE  AsrInv'
<1>1. Is(w, "start") /\ AtWork(w) /\ ~Is(w, "boot") /\ ~Is(w, "poll")
  BY DEF StartRuntime, Is, AtWork
<1>2. CASE Fail(w)
  BY <1>1, <1>2, FailKeeps
<1>3. CASE ~Fail(w)
  <2>1. PICK i \in Runtimes :
           /\ process' = [process EXCEPT ![i] = "booting"]
           /\ job' = [job EXCEPT ![w].pc = "boot", ![w].runtime = i]
    <3> DEFINE chosen == CHOOSE i \in Fresh : TRUE
    <3>1. /\ Fresh # {}
          /\ process' = [process EXCEPT ![chosen] = "booting"]
          /\ job' = [job EXCEPT ![w].pc = "boot", ![w].runtime = chosen]
      BY <1>3 DEF StartRuntime
    <3>2. chosen \in Fresh
      BY <3>1
    <3> QED
      BY <3>1, <3>2 DEF Fresh
  <2>2. UNCHANGED <<writeLock, point, saved, slots, clips, assets, task, runtime,
                    requests, recorded, doubted>>
    BY <1>3 DEF StartRuntime
  <2>3. /\ job' \in [Workers -> {Idle} \cup Busy]
        /\ Others(w) /\ job'[w].pc = "boot" /\ job'[w].slot = job[w].slot
        /\ job'[w].service = job[w].service /\ job'[w].runtime = i
    BY <1>1, <2>1, ToRuntime DEF AsrInv, Pcs
  <2>4. Moves(w)
    BY <1>1, <2>3 DEF Moves, AtWork, Is
  <2>5. AsrTypeOK'
    <3>1. process' \in [Runtimes -> {"none", "booting", "up", "hung", "gone"}]
      BY <2>1 DEF AsrInv, AsrTypeOK
    <3> QED
      BY <2>2, <2>3, <3>1 DEF AsrInv, AsrTypeOK
  <2>6. OneAtWork' /\ SlotsKnown' /\ ClipsKnown'
    BY <1>1, <2>2, <2>3, <2>4, WorkFrame, SlotFrame, ClipFrame
  <2>7. ProcessesKnown'
    <3>1. ASSUME NEW k \in Runtimes, Running(k)' PROVE Known(k)'
      <4>1. CASE k = i
        BY <2>3, <4>1 DEF Known, Is
      <4>2. CASE k # i
        <5>1. Running(k)
          BY <2>1, <3>1, <4>2 DEF Running, AsrInv, AsrTypeOK
        <5>2. \A v \in Workers : ~Is(v, "boot")
          BY <1>1 DEF AsrInv, OneAtWork, AtWork, Is
        <5> QED
          BY <2>2, <5>1, <5>2 DEF AsrInv, ProcessesKnown, Known
      <4> QED
        BY <4>1, <4>2
    <3>2. runtime' \in doubted' \cup {NoService}
      BY <1>1, <2>2 DEF AsrInv, ProcessesKnown
    <3> QED
      BY <3>1, <3>2 DEF ProcessesKnown
  <2>8. LoopIsBlocked'
    BY <1>1, <2>2, <2>3, LoopFrame DEF AsrInv, LoopIsBlocked, Is
  <2> QED
    BY <2>5, <2>6, <2>7, <2>8 DEF AsrInv
<1> QED
  BY <1>2, <1>3

LEMMA BootSucceedsKeeps ==
    ASSUME AsrInv, NEW w \in Workers, BootSucceeds(w)
    PROVE  AsrInv'
<1>1. Is(w, "boot") /\ AtWork(w) /\ ~Is(w, "poll") /\ job[w] \in Busy
  BY Shape DEF BootSucceeds, Is, AtWork, AsrInv
<1>2. /\ job' \in [Workers -> {Idle} \cup Busy]
      /\ Others(w) /\ job'[w].pc = "whisper" /\ job'[w].slot = job[w].slot
      /\ job'[w].service = job[w].service
  BY <1>1, ToPc DEF AsrInv, Pcs, BootSucceeds
<1>3. Moves(w)
  BY <1>1, <1>2 DEF Moves, AtWork, Is
<1>4. AsrTypeOK'
  <2>1. runtime' \in Runtimes \cup {NoService}
    BY <1>1 DEF BootSucceeds, Busy
  <2> QED
    BY <1>2, <2>1 DEF AsrInv, AsrTypeOK, BootSucceeds
<1>5. OneAtWork' /\ SlotsKnown' /\ ClipsKnown'
  BY <1>1, <1>2, <1>3, WorkFrame, SlotFrame, ClipFrame DEF BootSucceeds
<1>6. ProcessesKnown'
  <2>1. ASSUME NEW k \in Runtimes, Running(k)' PROVE Known(k)'
    <3>1. Running(k)
      BY <2>1 DEF Running, BootSucceeds
    <3>2. \A v \in Workers : Is(v, "boot") => v = w
      BY <1>1 DEF AsrInv, OneAtWork, AtWork, Is
    <3>3. k \in doubted \/ k = job[w].runtime
      BY <1>1, <3>1, <3>2, RuntimesAreNumbers DEF AsrInv, ProcessesKnown, Known
    <3> QED
      BY <3>3 DEF Known, BootSucceeds
  <2>2. \A v \in Workers : ~Is(v, "start")' /\ ~Is(v, "boot")'
    BY <1>1, <1>2 DEF AsrInv, OneAtWork, AtWork, Is, Others
  <2> QED
    BY <2>1, <2>2 DEF ProcessesKnown
<1>7. LoopIsBlocked'
  BY <1>1, <1>2, LoopFrame DEF AsrInv, LoopIsBlocked, BootSucceeds, Is
<1> QED
  BY <1>4, <1>5, <1>6, <1>7 DEF AsrInv

LEMMA ParseKeeps ==
    ASSUME AsrInv, NEW w \in Workers, Parse(w)
    PROVE  AsrInv'
<1>1. Is(w, "reply") /\ AtWork(w) /\ ~Is(w, "boot") /\ ~Is(w, "poll")
  BY DEF Parse, Is, AtWork
<1>2. CASE Fail(w)
  BY <1>1, <1>2, FailKeeps
<1>3. CASE /\ Unwind(w)
           /\ job' = [job EXCEPT ![w].pc = "commit", ![w].slot = FALSE]
           /\ UNCHANGED <<writeLock, point, saved, task, runtime, process,
                          requests, recorded, doubted>>
  <2>1. /\ job' \in [Workers -> {Idle} \cup Busy]
        /\ Others(w) /\ job'[w].pc = "commit" /\ job'[w].slot = FALSE
        /\ job'[w].service = job[w].service
    BY <1>1, <1>3, ToSlot DEF AsrInv, Pcs
  <2>2. Moves(w)
    BY <1>1, <2>1 DEF Moves, AtWork, Is
  <2>3. \A v \in Workers : v # w => ~AtWork(v) /\ ~InSlot(v) /\ ~AtWork(v)' /\ ~InSlot(v)'
    BY <1>1, <2>1 DEF AsrInv, OneAtWork, AtWork, InSlot, Others, Is
  <2>4. slots' = MaxSlots
    BY <1>3, <2>3, TranscriptionAssumption DEF AsrInv, SlotsKnown, Unwind
  <2>5. AsrTypeOK'
    <3>1. slots' \in Int
      BY <2>4, TranscriptionAssumption
    <3> QED
      BY <1>3, <2>1, <3>1 DEF AsrInv, AsrTypeOK, Unwind, Unregister
  <2>6. OneAtWork'
    BY <1>3, <2>2, WorkFrame
  <2>7. SlotsKnown'
    BY <2>1, <2>3, <2>4 DEF SlotsKnown, InSlot
  <2>8. ClipsKnown'
    <3>1. clips' = {} /\ assets' = {}
      BY <1>3, <2>3 DEF AsrInv, AsrTypeOK, ClipsKnown, Unwind, Unregister
    <3>2. \A v \in Workers : ~Is(v, "call")'
      BY <2>1, <2>3 DEF Is, AtWork
    <3> QED
      BY <3>1, <3>2 DEF ClipsKnown
  <2>9. ProcessesKnown'
    BY <1>1, <1>3, <2>1, <2>2, ProcessFrame
  <2>10. LoopIsBlocked'
    BY <1>1, <1>3, <2>1, LoopFrame DEF AsrInv, LoopIsBlocked, Is
  <2> QED
    BY <2>5, <2>6, <2>7, <2>8, <2>9, <2>10 DEF AsrInv
<1> QED
  BY <1>2, <1>3 DEF Parse

LEMMA RecordKeeps ==
    ASSUME AsrInv, NEW w \in Workers, Record(w)
    PROVE  AsrInv'
<1>1. Is(w, "commit") /\ AtWork(w) /\ ~Is(w, "boot") /\ ~Is(w, "poll")
  BY DEF Record, Is, AtWork
<1>2. CASE Fail(w)
  BY <1>1, <1>2, FailKeeps
<1>3. CASE /\ recorded' = recorded \cup {Event(w)}
           /\ writeLock' = FALSE
           /\ job' = [job EXCEPT ![w] = Idle]
           /\ UNCHANGED <<point, saved, slots, clips, assets, task, runtime, process,
                          requests, doubted>>
  <2>1. /\ job' \in [Workers -> {Idle} \cup Busy]
        /\ Others(w) /\ job'[w].pc = "idle"
    BY <1>3, ToIdle DEF AsrInv
  <2>2. \A v \in Workers : ~AtWork(v)' /\ ~InSlot(v)' /\ ~InSlot(v) /\ (v # w => ~AtWork(v))
    BY <1>1, <2>1 DEF AsrInv, OneAtWork, SlotsKnown, AtWork, InSlot, Others, Is
  <2>3. AsrTypeOK'
    BY <1>3, <2>1 DEF AsrInv, AsrTypeOK
  <2>4. OneAtWork'
    BY <1>3, <2>2 DEF OneAtWork, AnyAtWork
  <2>5. SlotsKnown'
    BY <1>3, <2>2 DEF AsrInv, SlotsKnown
  <2>6. ClipsKnown'
    <3>1. clips' = {} /\ assets' = {}
      BY <1>1, <1>3, <2>2 DEF AsrInv, AsrTypeOK, ClipsKnown
    <3> QED
      BY <2>2, <3>1 DEF ClipsKnown, AtWork, Is
  <2>7. ProcessesKnown'
    <3>1. ASSUME NEW i \in Runtimes, Running(i)' PROVE Known(i)'
      BY <1>1, <1>3, <2>2, <3>1 DEF Running, AsrInv, ProcessesKnown, Known, AtWork, Is
    <3> QED
      BY <2>2, <3>1 DEF ProcessesKnown, AtWork, Is
  <2>8. LoopIsBlocked'
    <3>1. Event(w).uploaded => Event(w).service # "dashscope"
      BY <1>1 DEF Event, AsrInv, LoopIsBlocked, Is
    <3>2. NoUploadByBridge'
      BY <1>3, <3>1 DEF AsrInv, LoopIsBlocked, NoUploadByBridge
    <3>3. job'[Loop].pc = "idle" /\ task'[Loop] \notin {"fetched", "done"}
      BY <1>3, <2>2 DEF Workers, AtWork, Is, AsrInv, LoopIsBlocked
    <3> QED
      BY <3>2, <3>3 DEF LoopIsBlocked
  <2> QED
    BY <2>3, <2>4, <2>5, <2>6, <2>7, <2>8 DEF AsrInv
<1> QED
  BY <1>2, <1>3 DEF Record

-----------------------------------------------------------------------------
(* The services and the rest of the server.                                *)

\* DashScope reads a clip only while the event loop is free.
LEMMA ServeClipKeeps ==
    ASSUME AsrInv, NEW w \in Workers, ServeClip(w)
    PROVE  AsrInv'
<1>1. w # Loop
  BY DEF ServeClip, AsrInv, ClipsKnown, Is
<1>2. AsrTypeOK'
  BY DEF ServeClip, AsrInv, AsrTypeOK
<1>3. task'[Loop] = task[Loop]
  BY <1>1 DEF ServeClip, AsrInv, AsrTypeOK, Workers
<1> QED
  BY <1>2, <1>3
     DEF ServeClip, AsrInv, OneAtWork, AnyAtWork, AtWork, Is, SlotsKnown, InSlot, ClipsKnown,
         ProcessesKnown, Running, Known, LoopIsBlocked, NoUploadByBridge

LEMMA TaskEndsKeeps ==
    ASSUME AsrInv, NEW w \in Workers, TaskEnds(w)
    PROVE  AsrInv'
<1>1. AsrTypeOK'
  BY DEF TaskEnds, AsrInv, AsrTypeOK
<1>2. task'[Loop] \notin {"fetched", "done"}
  BY DEF TaskEnds, AsrInv, AsrTypeOK, Workers, LoopIsBlocked
<1> QED
  BY <1>1, <1>2
     DEF TaskEnds, AsrInv, OneAtWork, AnyAtWork, AtWork, Is, SlotsKnown, InSlot, ClipsKnown,
         ProcessesKnown, Running, Known, LoopIsBlocked, NoUploadByBridge

LEMMA ProcessChangesKeeps ==
    ASSUME AsrInv, NEW i \in Runtimes, ProcessChanges(i)
    PROVE  AsrInv'
<1>1. PICK s \in {"up", "hung", "gone"} :
         Running(i) /\ process' = [process EXCEPT ![i] = s]
  BY DEF ProcessChanges, Running
<1>2. AsrTypeOK'
  <2>1. process' \in [Runtimes -> {"none", "booting", "up", "hung", "gone"}]
    BY <1>1 DEF AsrInv, AsrTypeOK
  <2> QED
    BY <2>1 DEF ProcessChanges, AsrInv, AsrTypeOK
<1>3. \A k \in Runtimes : Running(k)' => Running(k)
  BY <1>1 DEF AsrInv, AsrTypeOK, Running
<1>4. ProcessesKnown'
  BY <1>3 DEF ProcessChanges, AsrInv, ProcessesKnown, Known, Is
<1> QED
  BY <1>2, <1>4
     DEF ProcessChanges, AsrInv, OneAtWork, AnyAtWork, AtWork, Is, SlotsKnown, InSlot, ClipsKnown,
         LoopIsBlocked, NoUploadByBridge

LEMMA OutsideKeeps ==
    ASSUME AsrInv, DeletePoint \/ \E service \in SavedServices : SaveSettings(service)
    PROVE  AsrInv'
<1>1. /\ saved' \in SavedServices \cup {NoService}
      /\ UNCHANGED <<writeLock, slots, clips, assets, task, runtime, process, job,
                     recorded, doubted>>
  BY DEF DeletePoint, SaveSettings, AsrInv, AsrTypeOK
<1> QED
  BY <1>1
     DEF AsrInv, AsrTypeOK, OneAtWork, AnyAtWork, AtWork, Is, SlotsKnown, InSlot, ClipsKnown,
         ProcessesKnown, Running, Known, LoopIsBlocked, NoUploadByBridge

\* What runs after a restart was running before it.
LEMMA RestartKeeps ==
    ASSUME AsrInv, NEW inOrder \in BOOLEAN, Restart(inOrder)
    PROVE  AsrInv'
<1>1. \A w \in Workers : job'[w] = Idle /\ job'[w].pc = "idle" /\ task'[w] = "none"
  BY DEF Restart, Idle
<1>2. \A w \in Workers : ~AtWork(w)' /\ ~InSlot(w)'
  BY <1>1 DEF AtWork, InSlot, Is
<1>3. AsrTypeOK'
  <2>1. process' \in [Runtimes -> {"none", "booting", "up", "hung", "gone"}]
    BY DEF Restart, AsrInv, AsrTypeOK
  <2>2. job' \in [Workers -> {Idle} \cup Busy]
    BY DEF Restart
  <2>3. slots' \in Int /\ doubted' \subseteq Runtimes
    BY TranscriptionAssumption DEF Restart, AsrInv, AsrTypeOK
  <2>4. task' \in [Workers -> {"none", "queued", "fetched", "done", "failed"}]
    BY DEF Restart
  <2> QED
    BY <2>1, <2>2, <2>3, <2>4 DEF Restart, AsrInv, AsrTypeOK
<1>4. ProcessesKnown'
  <2>1. ASSUME NEW i \in Runtimes, Running(i)' PROVE Known(i)'
    <3>1. Running(i)
      BY <2>1 DEF Restart, Running
    <3> QED
      BY <3>1 DEF Restart, Known
  <2> QED
    BY <1>2, <2>1 DEF ProcessesKnown, AtWork, Is
<1>5. LoopIsBlocked'
  BY <1>1 DEF Workers, Restart, AsrInv, LoopIsBlocked, NoUploadByBridge
<1>6. OneAtWork' /\ SlotsKnown' /\ ClipsKnown'
  BY <1>2 DEF Restart, OneAtWork, AnyAtWork, SlotsKnown, ClipsKnown, AtWork, Is
<1> QED
  BY <1>3, <1>4, <1>5, <1>6 DEF AsrInv

-----------------------------------------------------------------------------
LEMMA RequestedKeeps ==
    ASSUME AsrInv, NEW w \in Workers, Requested(w)
    PROVE  AsrInv'
<1>1. \E asked \in RequestServices, target \in {"point", "instance"} : Open(w, target, asked)
  BY DEF Requested, RequestAsr, RequestInstanceAsr, RequestAsrFromAudioUpload,
         RequestInstanceAsrFromAudioUpload
<1> QED
  BY <1>1, OpenKeeps

LEMMA NextKeeps == AsrInv /\ [ServiceNext]_serviceVars => AsrInv'
<1> SUFFICES ASSUME AsrInv, [ServiceNext]_serviceVars PROVE AsrInv'
  OBVIOUS
<1>1. CASE UNCHANGED serviceVars
  BY <1>1 DEF serviceVars, AsrInv, AsrTypeOK, OneAtWork, AnyAtWork, AtWork, Is, SlotsKnown, InSlot,
              ClipsKnown, ProcessesKnown, Running, Known, LoopIsBlocked, NoUploadByBridge
<1>2. ASSUME NEW w \in Workers, Requested(w) \/ ServeClip(w) \/ TaskEnds(w) PROVE AsrInv'
  BY <1>2, RequestedKeeps, ServeClipKeeps, TaskEndsKeeps
<1>3. ASSUME NEW w \in Workers, Advance(w) PROVE AsrInv'
  BY <1>3, InSessionKeeps, TakeSlotKeeps, ExtractClipKeeps, CallHttpKeeps, SubmitDashscopeKeeps,
     PollSucceedsKeeps, PollFailsKeeps, CheckRuntimeKeeps, StartRuntimeKeeps, BootSucceedsKeeps,
     BootFailsKeeps, CallWhisperKeeps, ParseKeeps, RecordKeeps
     DEF Advance
<1>4. ASSUME NEW i \in Runtimes, ProcessChanges(i) PROVE AsrInv'
  BY <1>4, ProcessChangesKeeps
<1>5. CASE DeletePoint \/ \E service \in SavedServices : SaveSettings(service)
  BY <1>5, OutsideKeeps
<1>6. ASSUME NEW inOrder \in BOOLEAN, Restart(inOrder) PROVE AsrInv'
  BY <1>6, RestartKeeps
<1> QED
  BY <1>1, <1>2, <1>3, <1>4, <1>5, <1>6 DEF ServiceNext

\* On every way out of a request - an answer, an error in any of its steps, a
\* restart of the server - lock, slot, clip, asset and child process are accounted
\* for (api.py:185-192, 579-635, 970-1054; local_whisper.py:77-125).
THEOREM NothingLeftBehind == AsrSpec => []ResourcesHaveOwners
<1>1. AsrSpec => []AsrInv
  BY AsrInitInv, NextKeeps, PTL DEF AsrSpec
<1> QED
  BY <1>1, AsrInvFollows, PTL

\* A learner who uploads a clip never gets it transcribed by DashScope
\* (adapter/routers/asr.py:71, 140; api.py:1003-1026).
THEOREM BridgeNeverServesUploads == AsrSpec => []NoUploadByBridge
<1>1. AsrSpec => []AsrInv
  BY AsrInitInv, NextKeeps, PTL DEF AsrSpec
<1> QED
  BY <1>1, AsrInvFollows, PTL

-----------------------------------------------------------------------------
(* Theorems about CloudAccounts: overlapping refreshes never strand an      *)
(* account, and a disabled account comes back by a race only, for any       *)
(* number of users, accounts at the provider and threads.                   *)

Using == {"use", "refresh", "store"}
Pending == {"connect", "store"}

CallTypes ==
    {Resting}
    \cup [pc: {"exchange"}, account: Accounts]
    \cup [pc: {"connect"}, account: Accounts, grant: Nat]
    \cup [pc: Using, account: Accounts, grant: Nat, renewed: BOOLEAN, raced: BOOLEAN]

\* The variables hold values of the shapes the code declares.
CloudTypeOK ==
    /\ row \in [Accounts -> [status: {"none", "enabled", "disabled"}, grant: Nat]]
    /\ issued \in Nat /\ live \subseteq Nat
    /\ call \in [CloudThreads -> CallTypes]
    /\ dropped \subseteq Accounts

HasGrant(t) == call[t].pc \in Using \cup Pending
Bound(a) == row[a].status # "none"

\* A grant that was never issued is nowhere.
GrantsAreIssued ==
    /\ \A g \in live : g <= issued
    /\ \A a \in Accounts : row[a].grant <= issued
    /\ \A t \in CloudThreads : HasGrant(t) => call[t].grant <= issued

\* A grant that is still to be stored is good and known to its request alone.
PendingIsPrivate ==
    \A t \in CloudThreads : call[t].pc \in Pending =>
        /\ call[t].grant \in live
        /\ \A a \in Accounts : Bound(a) => row[a].grant # call[t].grant
        /\ \A u \in CloudThreads \ {t} : HasGrant(u) => call[u].grant # call[t].grant

\* A grant belongs to one account.
OneAccount ==
    /\ \A a, b \in Accounts : Bound(a) /\ Bound(b) /\ row[a].grant = row[b].grant => a = b
    /\ \A t \in CloudThreads, a \in Accounts :
          call[t].pc \in Using /\ Bound(a) /\ row[a].grant = call[t].grant => a = call[t].account

\* A request that goes on although its account was disabled knows it in the history.
RacesAreMarked ==
    \A t \in CloudThreads :
        call[t].pc \in Using /\ row[call[t].account].status = "disabled" => call[t].raced

CloudInv ==
    /\ CloudTypeOK /\ GrantsAreIssued /\ PendingIsPrivate /\ OneAccount
    /\ RacesAreMarked /\ GrantsAreKept

LEMMA CloudInitInv == CloudInit => CloudInv
<1> SUFFICES ASSUME CloudInit PROVE CloudInv
  OBVIOUS
<1>1. CloudTypeOK
  BY DEF CloudInit, CloudTypeOK, NoRow, CallTypes
<1>2. GrantsAreIssued /\ PendingIsPrivate /\ OneAccount /\ RacesAreMarked /\ GrantsAreKept
  BY DEF CloudInit, GrantsAreIssued, PendingIsPrivate, OneAccount, RacesAreMarked, GrantsAreKept,
         NoRow, Resting, HasGrant, Bound, Using, Pending, Pc
<1> QED
  BY <1>1, <1>2 DEF CloudInv

USE DEF Using, Pending, Pc

\* What is known of one call.
LEMMA CallShape ==
    ASSUME CloudTypeOK, NEW t \in CloudThreads
    PROVE  /\ call[t].pc \in {"rest", "exchange", "connect"} \cup Using
           /\ call[t].pc = "rest" => call[t] = Resting
           /\ call[t].pc # "rest" => call[t].account \in Accounts
           /\ call[t].pc = "exchange" => call[t] \in [pc: {"exchange"}, account: Accounts]
           /\ call[t].pc = "connect" =>
                 call[t] \in [pc: {"connect"}, account: Accounts, grant: Nat]
           /\ call[t].pc \in Using =>
                 call[t] \in [pc: Using, account: Accounts, grant: Nat, renewed: BOOLEAN, raced: BOOLEAN]
           /\ HasGrant(t) => call[t].grant \in Nat
  BY DEF CloudTypeOK, CallTypes, Resting, HasGrant

\* A thread that stops, or begins to talk to the provider, keeps the invariant when
\* what it was about to store is accounted for.
LEMMA Released ==
    ASSUME CloudInv, NEW t \in CloudThreads, NEW c \in CallTypes,
           c.pc \in {"rest", "exchange"},
           call' = [call EXCEPT ![t] = c], UNCHANGED <<row, issued, live>>,
           dropped' \subseteq Accounts, dropped \subseteq dropped',
           call[t].pc = "store" => Lost(call[t].account) \subseteq dropped'
    PROVE  CloudInv'
<1>1. CloudTypeOK'
  BY DEF CloudInv, CloudTypeOK
<1>2. /\ call'[t] = c /\ \A u \in CloudThreads \ {t} : call'[u] = call[u]
  BY DEF CloudInv, CloudTypeOK
<1>3. GrantsAreIssued' /\ PendingIsPrivate' /\ OneAccount' /\ RacesAreMarked'
  BY <1>2 DEF CloudInv, GrantsAreIssued, PendingIsPrivate, OneAccount, RacesAreMarked, HasGrant, Bound
<1>4. GrantsAreKept'
  BY <1>2 DEF CloudInv, GrantsAreKept, Lost
<1> QED
  BY <1>1, <1>3, <1>4 DEF CloudInv

LEMMA CloudStepInv == CloudInv /\ [CloudNext]_cloudVars => CloudInv'
<1> SUFFICES ASSUME CloudInv, [CloudNext]_cloudVars PROVE CloudInv'
  OBVIOUS
<1>0. CloudTypeOK /\ GrantsAreIssued /\ PendingIsPrivate /\ OneAccount /\ RacesAreMarked /\ GrantsAreKept
  BY DEF CloudInv
<1>1. ASSUME NEW u \in CloudUsers, BeginConnect(u)
      PROVE  CloudInv'
  BY <1>0, <1>1 DEF BeginConnect, CloudInv, CloudTypeOK, GrantsAreIssued, PendingIsPrivate, OneAccount,
                    RacesAreMarked, GrantsAreKept, HasGrant, Bound
<1>2. ASSUME NEW t \in CloudThreads, NEW u \in CloudUsers, NEW s \in DOMAIN oauth,
             NEW b \in BaiduUsers, CompleteConnect(t, u, s, b)
      PROVE  CloudInv'
  <2>1. CASE call' = [call EXCEPT ![t] = [pc |-> "exchange", account |-> <<u, b>>]]
    <3>1. [pc |-> "exchange", account |-> <<u, b>>] \in CallTypes
      BY DEF CallTypes, Accounts
    <3>2. dropped \subseteq Accounts
      BY <1>0 DEF CloudTypeOK
    <3> QED
      BY <1>2, <2>1, <3>1, <3>2, Released DEF CompleteConnect
  <2>2. CASE UNCHANGED call
    BY <1>0, <1>2, <2>2 DEF CompleteConnect, CloudInv, CloudTypeOK, GrantsAreIssued, PendingIsPrivate,
                    OneAccount, RacesAreMarked, GrantsAreKept, HasGrant, Bound
  <2> QED
    BY <1>2, <2>1, <2>2 DEF CompleteConnect
<1>3. ASSUME NEW t \in CloudThreads, NEW a \in Accounts, UseAccount(t, a)
      PROVE  CloudInv'
  <2>1. /\ call'[t] = [pc |-> "use", account |-> a, grant |-> row[a].grant, renewed |-> FALSE, raced |-> FALSE]
        /\ \A u \in CloudThreads \ {t} : call'[u] = call[u]
        /\ call[t].pc = "rest" /\ row[a].status = "enabled"
        /\ UNCHANGED <<row, issued, live, dropped>>
    BY <1>0, <1>3 DEF UseAccount, Started, CloudTypeOK
  <2>2. CloudTypeOK'
    <3>1. row[a].grant \in Nat
      BY <1>0 DEF CloudTypeOK
    <3>2. call'[t] \in CallTypes
      BY <2>1, <3>1 DEF CallTypes
    <3> QED
      BY <1>0, <1>3, <3>2 DEF UseAccount, Started, CloudTypeOK
  <2>3. GrantsAreIssued'
    BY <1>0, <2>1 DEF GrantsAreIssued, HasGrant
  <2>4. PendingIsPrivate'
    BY <1>0, <2>1 DEF PendingIsPrivate, HasGrant, Bound
  <2>5. OneAccount' /\ RacesAreMarked'
    BY <1>0, <2>1 DEF OneAccount, RacesAreMarked, Bound
  <2>6. GrantsAreKept'
    BY <1>0, <2>1 DEF GrantsAreKept
  <2> QED
    BY <2>2, <2>3, <2>4, <2>5, <2>6 DEF CloudInv
<1>4. ASSUME NEW t \in CloudThreads, ExchangeCode(t)
      PROVE  CloudInv'
  <2>1. CASE Rest(t) /\ UNCHANGED <<issued, live>>
    BY <1>0, <1>4, <2>1, Released DEF ExchangeCode, Rest, Resting, CallTypes, CloudTypeOK
  <2>2. CASE /\ Issue({})
             /\ \/ call' = [call EXCEPT ![t] = [pc |-> "connect", account |-> call[t].account, grant |-> issued + 1]]
                \/ Rest(t)
    <3> DEFINE g == issued + 1
    <3>1. /\ issued' = g /\ live' = live \cup {g} /\ g \in Nat /\ issued \in Nat
          /\ call[t].account \in Accounts /\ call[t].pc = "exchange"
          /\ UNCHANGED <<row, dropped>>
      BY <1>0, <1>4, <2>2, CallShape DEF Issue, ExchangeCode, CloudTypeOK
    <3>2. /\ \A u \in CloudThreads \ {t} : call'[u] = call[u]
          /\ \/ call'[t] = Resting
             \/ call'[t] = [pc |-> "connect", account |-> call[t].account, grant |-> g]
      BY <1>0, <2>2 DEF Rest, CloudTypeOK
    <3>3. /\ \A a \in Accounts : row[a].grant < g /\ row[a].grant \in Nat
          /\ \A u \in CloudThreads : HasGrant(u) => call[u].grant < g /\ call[u].grant \in Nat
          /\ \A h \in live : h \in Nat /\ h < g
      BY <1>0, <3>1, CallShape DEF GrantsAreIssued, CloudTypeOK
    <3>4. CloudTypeOK'
      <4>1. call'[t] \in CallTypes
        BY <3>1, <3>2 DEF CallTypes
      <4> QED
        BY <1>0, <2>2, <3>1, <4>1 DEF Rest, CloudTypeOK
    <3> HIDE DEF g
    <3>5. GrantsAreIssued'
      BY <1>0, <3>1, <3>2, <3>3 DEF GrantsAreIssued, HasGrant, Resting
    <3>6. PendingIsPrivate'
      BY <1>0, <3>1, <3>2, <3>3 DEF PendingIsPrivate, HasGrant, Bound, Resting
    <3>7. OneAccount' /\ RacesAreMarked'
      BY <1>0, <3>1, <3>2 DEF OneAccount, RacesAreMarked, Bound, Resting
    <3>8. GrantsAreKept'
      BY <1>0, <3>1, <3>2 DEF GrantsAreKept
    <3> QED
      BY <3>4, <3>5, <3>6, <3>7, <3>8 DEF CloudInv
  <2> QED
    BY <1>4, <2>1, <2>2 DEF ExchangeCode
<1>5. ASSUME NEW t \in CloudThreads, StoreConnected(t) \/ StoreRefreshed(t)
      PROVE  CloudInv'
  <2> DEFINE a == call[t].account  g == call[t].grant
  <2>1. /\ call[t].pc \in Pending /\ a \in Accounts /\ g \in Nat /\ g \in live /\ g <= issued
        /\ UNCHANGED <<issued, live>>
    BY <1>0, <1>5, CallShape
       DEF StoreConnected, StoreRefreshed, PendingIsPrivate, GrantsAreIssued, HasGrant
  <2>2. CASE Rest(t) /\ UNCHANGED row /\ dropped' \in {dropped, dropped \cup Lost(a)}
                     /\ (call[t].pc = "store" => dropped' = dropped \cup Lost(a))
    <3>1. dropped' \subseteq Accounts /\ dropped \subseteq dropped'
      BY <1>0, <2>1, <2>2 DEF CloudTypeOK, Lost
    <3> QED
      BY <2>1, <2>2, <3>1, Released DEF Rest, Resting, CallTypes
  <2>3. CASE /\ Upserted(a, g)
             /\ \/ call' = [call EXCEPT ![t].pc = "use", ![t].renewed = TRUE] /\ call[t].pc = "store"
                \/ Rest(t)
    <3>1. /\ row'[a] = [status |-> "enabled", grant |-> g]
          /\ \A b \in Accounts \ {a} : row'[b] = row[b]
          /\ dropped' = dropped \ {a}
      BY <1>0, <2>1, <2>3 DEF Upserted, CloudTypeOK
    <3>2. /\ \A u \in CloudThreads \ {t} : call'[u] = call[u]
          /\ \/ call'[t] = Resting
             \/ /\ call'[t] = [call[t] EXCEPT !.pc = "use", !.renewed = TRUE]
                /\ call[t].pc = "store"
      BY <1>0, <2>3 DEF Rest, CloudTypeOK
    <3>3. \/ call'[t] = Resting
          \/ /\ call'[t].pc = "use" /\ call'[t].account = a /\ call'[t].grant = g
             /\ call'[t] \in CallTypes
      BY <1>0, <3>2, CallShape DEF CallTypes
    <3>4. CloudTypeOK'
      <4>1. call'[t] \in CallTypes
        BY <3>3 DEF CallTypes
      <4>2. call' \in [CloudThreads -> CallTypes]
        BY <1>0, <2>3, <4>1 DEF CloudTypeOK, Rest
      <4>3. row' \in [Accounts -> [status: {"none", "enabled", "disabled"}, grant: Nat]]
        BY <1>0, <2>1, <2>3 DEF CloudTypeOK, Upserted
      <4> QED
        BY <1>0, <2>1, <3>1, <4>2, <4>3 DEF CloudTypeOK
    <3>5. /\ \A b \in Accounts : Bound(b) => row[b].grant # g
          /\ \A u \in CloudThreads \ {t} : HasGrant(u) => call[u].grant # g
      BY <1>0, <2>1 DEF PendingIsPrivate
    <3> HIDE DEF a, g
    <3>6. GrantsAreIssued'
      BY <1>0, <2>1, <3>1, <3>2, <3>3 DEF GrantsAreIssued, HasGrant, Resting
    <3>7. PendingIsPrivate'
      BY <1>0, <2>1, <3>1, <3>2, <3>3, <3>5 DEF PendingIsPrivate, HasGrant, Bound, Resting
    <3>8. OneAccount'
      BY <1>0, <2>1, <3>1, <3>2, <3>3, <3>5 DEF OneAccount, HasGrant, Bound, Resting
    <3>9. RacesAreMarked'
      BY <1>0, <2>1, <3>1, <3>2, <3>3, CallShape DEF RacesAreMarked, Resting
    <3>10. GrantsAreKept'
      <4> SUFFICES ASSUME NEW b \in Accounts, row'[b].status # "none"
                   PROVE  \/ row'[b].grant \in live'
                          \/ b \in dropped'
                          \/ \E u \in CloudThreads : call'[u].pc = "store" /\ call'[u].account = b
                                                        /\ call'[u].grant \in live'
        BY DEF GrantsAreKept
      <4>1. CASE b = a
        BY <2>1, <3>1, <4>1
      <4>2. CASE b # a
        <5>1. \A u \in CloudThreads : call[u].account = b => u # t
          BY <4>2 DEF a
        <5> QED
          BY <1>0, <2>1, <3>1, <3>2, <4>2, <5>1 DEF GrantsAreKept
      <4> QED
        BY <4>1, <4>2
    <3> QED
      BY <3>4, <3>6, <3>7, <3>8, <3>9, <3>10 DEF CloudInv
  <2> QED
    BY <1>5, <2>2, <2>3 DEF StoreConnected, StoreRefreshed
<1>6. ASSUME NEW t \in CloudThreads, CallProvider(t)
      PROVE  CloudInv'
  <2>1. CASE Rest(t)
    BY <1>0, <1>6, <2>1, Released DEF CallProvider, Rest, Resting, CallTypes, CloudTypeOK
  <2>2. CASE Move(t, "refresh")
    <3>0. call'[t] = [call[t] EXCEPT !.pc = "refresh"]
      BY <1>0, <2>2 DEF Move, CloudTypeOK
    <3>1. /\ call[t].pc = "use"
          /\ \A u \in CloudThreads \ {t} : call'[u] = call[u]
          /\ UNCHANGED <<row, issued, live, dropped>>
      BY <1>0, <1>6, <2>2 DEF CallProvider, Move, CloudTypeOK
    <3>2. /\ call'[t].pc = "refresh" /\ call'[t].account = call[t].account
          /\ call'[t].grant = call[t].grant /\ call'[t].raced = call[t].raced
          /\ call'[t] \in CallTypes
      BY <1>0, <3>0, <3>1, CallShape DEF CallTypes
    <3>3. CloudTypeOK'
      BY <1>0, <2>2, <3>1, <3>2 DEF Move, CloudTypeOK
    <3>4. GrantsAreIssued' /\ PendingIsPrivate'
      BY <1>0, <3>1, <3>2 DEF GrantsAreIssued, PendingIsPrivate, HasGrant, Bound
    <3>5. OneAccount'
      BY <1>0, <3>1, <3>2 DEF OneAccount, Bound
    <3>6. RacesAreMarked'
      BY <1>0, <3>1, <3>2 DEF RacesAreMarked
    <3>7. GrantsAreKept'
      BY <1>0, <3>1, <3>2 DEF GrantsAreKept
    <3> QED
      BY <3>3, <3>4, <3>5, <3>6, <3>7 DEF CloudInv
  <2> QED
    BY <1>6, <2>1, <2>2 DEF CallProvider
<1>7. ASSUME NEW t \in CloudThreads, Refresh(t)
      PROVE  CloudInv'
  <2> DEFINE a == call[t].account  h == call[t].grant  g == issued + 1
  <2>1. CASE Rest(t) /\ UNCHANGED <<issued, live, dropped>>
    BY <1>0, <1>7, <2>1, Released DEF Refresh, Rest, Resting, CallTypes, CloudTypeOK
  <2>2. CASE /\ h \in live /\ Issue({h})
             /\ \/ /\ call' = [call EXCEPT ![t].pc = "store", ![t].grant = g]
                   /\ UNCHANGED dropped
                \/ Rest(t) /\ dropped' = dropped \cup Holding(h)
    <3>1. /\ issued' = g /\ live' = (live \ {h}) \cup {g} /\ g \in Nat /\ issued \in Nat
          /\ call[t].pc = "refresh" /\ a \in Accounts /\ h \in Nat /\ h < g
          /\ UNCHANGED row
      BY <1>0, <1>7, <2>2, CallShape DEF Issue, Refresh, CloudTypeOK, GrantsAreIssued
    <3>2. /\ \A u \in CloudThreads \ {t} : call'[u] = call[u]
          /\ \/ /\ call'[t] = Resting /\ dropped' = dropped \cup Holding(h)
             \/ /\ call'[t] = [call[t] EXCEPT !.pc = "store", !.grant = g]
                /\ dropped' = dropped
      BY <1>0, <2>2 DEF Rest, CloudTypeOK
    <3>3. \/ call'[t] = Resting /\ dropped' = dropped \cup Holding(h)
          \/ /\ call'[t].pc = "store" /\ call'[t].account = a /\ call'[t].grant = g
             /\ call'[t].raced = call[t].raced
             /\ call'[t] \in CallTypes /\ dropped' = dropped
      BY <1>0, <3>1, <3>2, CallShape DEF CallTypes
    <3>4. /\ \A b \in Accounts : row[b].grant < g /\ row[b].grant \in Nat
          /\ \A u \in CloudThreads : HasGrant(u) => call[u].grant < g /\ call[u].grant \in Nat
          /\ \A x \in live : x \in Nat /\ x < g
      BY <1>0, <3>1, CallShape DEF GrantsAreIssued, CloudTypeOK
    <3>5. CloudTypeOK'
      <4>1. call'[t] \in CallTypes
        BY <3>3 DEF CallTypes
      <4>2. call' \in [CloudThreads -> CallTypes]
        BY <1>0, <2>2, <4>1 DEF CloudTypeOK, Rest
      <4>3. dropped' \subseteq Accounts
        BY <1>0, <3>3 DEF CloudTypeOK, Holding
      <4> QED
        BY <1>0, <3>1, <4>2, <4>3 DEF CloudTypeOK
    <3> HIDE DEF g, a, h
    <3>6. GrantsAreIssued'
      BY <1>0, <3>1, <3>2, <3>3, <3>4 DEF GrantsAreIssued, HasGrant, Resting
    <3>7. \A u \in CloudThreads \ {t} : call[u].pc \in Pending => call[u].grant \in live /\ call[u].grant # h
      BY <1>0, <3>1 DEF PendingIsPrivate, HasGrant, h
    <3>8. PendingIsPrivate'
      BY <1>0, <3>1, <3>2, <3>3, <3>4, <3>7 DEF PendingIsPrivate, HasGrant, Bound, Resting
    <3>9. OneAccount' /\ RacesAreMarked'
      BY <1>0, <3>1, <3>2, <3>3, <3>4 DEF OneAccount, RacesAreMarked, Bound, Resting, a
    <3>10. GrantsAreKept'
      <4> SUFFICES ASSUME NEW b \in Accounts, row'[b].status # "none"
                   PROVE  \/ row'[b].grant \in live'
                          \/ b \in dropped'
                          \/ \E u \in CloudThreads : call'[u].pc = "store" /\ call'[u].account = b
                                                        /\ call'[u].grant \in live'
        BY DEF GrantsAreKept
      <4>1. CASE row[b].grant = h
        <5>1. b = a
          BY <1>0, <3>1, <4>1 DEF OneAccount, Bound, a, h
        <5>2. b \in Holding(h)
          BY <3>1, <4>1 DEF Holding
        <5> QED
          BY <3>1, <3>3, <5>1, <5>2
      <4>2. CASE row[b].grant # h
        <5>1. CASE row[b].grant \in live
          BY <3>1, <4>2, <5>1
        <5>2. CASE b \in dropped
          BY <3>3, <5>2
        <5>3. ASSUME NEW u \in CloudThreads, call[u].pc = "store", call[u].account = b
              PROVE  call'[u].pc = "store" /\ call'[u].account = b /\ call'[u].grant \in live'
          BY <3>1, <3>2, <3>7, <5>3
        <5> QED
          BY <1>0, <3>1, <5>1, <5>2, <5>3 DEF GrantsAreKept
      <4> QED
        BY <4>1, <4>2
    <3> QED
      BY <3>5, <3>6, <3>8, <3>9, <3>10 DEF CloudInv
  <2> QED
    BY <1>7, <2>1, <2>2 DEF Refresh
<1>8. ASSUME NEW a \in Accounts, DisableAccount(a)
      PROVE  CloudInv'
  <2>1. /\ row'[a] = [row[a] EXCEPT !.status = "disabled"] /\ row[a].status = "enabled"
        /\ \A b \in Accounts \ {a} : row'[b] = row[b]
        /\ UNCHANGED <<issued, live, dropped>>
    BY <1>0, <1>8 DEF DisableAccount, CloudTypeOK
  <2>2. ASSUME NEW b \in Accounts
        PROVE  /\ row'[b].grant = row[b].grant
               /\ row'[b].status # "none" <=> row[b].status # "none"
               /\ row'[b].status = "disabled" => b = a \/ row[b].status = "disabled"
    BY <1>0, <2>1 DEF CloudTypeOK
  <2>3. ASSUME NEW t \in CloudThreads
        PROVE  /\ call'[t] \in CallTypes /\ call'[t].pc = call[t].pc
               /\ call[t].pc # "rest" => call'[t].account = call[t].account
               /\ HasGrant(t) => call'[t].grant = call[t].grant
               /\ call[t].pc \in Using /\ (call[t].raced \/ call[t].account = a) => call'[t].raced
    <3>1. CASE call[t].pc \in Using
      <4>1. call'[t] = [call[t] EXCEPT !.raced = @ \/ call[t].account = a]
        BY <1>8, <3>1 DEF DisableAccount
      <4> QED
        BY <1>0, <3>1, <4>1, CallShape DEF CallTypes, HasGrant
    <3>2. CASE call[t].pc \notin Using
      BY <1>0, <1>8, <3>2 DEF DisableAccount, CloudTypeOK
    <3> QED
      BY <3>1, <3>2
  <2>4. CloudTypeOK'
    <3>1. call' \in [CloudThreads -> CallTypes]
      BY <1>8, <2>3 DEF DisableAccount
    <3> QED
      BY <1>0, <1>8, <2>1, <3>1 DEF DisableAccount, CloudTypeOK
  <2>5. GrantsAreIssued' /\ PendingIsPrivate'
    BY <1>0, <2>1, <2>2, <2>3 DEF GrantsAreIssued, PendingIsPrivate, HasGrant, Bound
  <2>6. OneAccount'
    BY <1>0, <2>2, <2>3 DEF OneAccount, Bound, HasGrant
  <2>7. RacesAreMarked'
    BY <1>0, <2>2, <2>3, CallShape DEF RacesAreMarked
  <2>8. GrantsAreKept'
    BY <1>0, <2>1, <2>2, <2>3 DEF GrantsAreKept, HasGrant
  <2> QED
    BY <2>4, <2>5, <2>6, <2>7, <2>8 DEF CloudInv
<1>9. CASE CloudRestart
  <2>1. /\ \A t \in CloudThreads : call'[t] = Resting
        /\ UNCHANGED <<row, issued, live>>
        /\ \A t \in CloudThreads : call[t].pc = "store" => Lost(call[t].account) \subseteq dropped'
        /\ dropped \subseteq dropped'
    BY <1>9 DEF CloudRestart
  <2>2. dropped' \subseteq Accounts
    BY <1>0, <1>9, CallShape DEF CloudRestart, CloudTypeOK, Lost
  <2>3. CloudTypeOK'
    BY <1>0, <1>9, <2>1, <2>2 DEF CloudRestart, CloudTypeOK, CallTypes
  <2>4. GrantsAreIssued' /\ PendingIsPrivate' /\ OneAccount' /\ RacesAreMarked'
    BY <1>0, <2>1 DEF GrantsAreIssued, PendingIsPrivate, OneAccount, RacesAreMarked, HasGrant, Bound, Resting
  <2>5. GrantsAreKept'
    BY <1>0, <2>1 DEF GrantsAreKept, Lost
  <2> QED
    BY <2>3, <2>4, <2>5 DEF CloudInv
<1>10. CASE UNCHANGED cloudVars
  BY <1>0, <1>10 DEF cloudVars, CloudInv, CloudTypeOK, GrantsAreIssued, PendingIsPrivate, OneAccount,
                     RacesAreMarked, GrantsAreKept, HasGrant, Bound
<1> QED
  BY <1>1, <1>2, <1>3, <1>4, <1>5, <1>6, <1>7, <1>8, <1>9, <1>10 DEF CloudNext

LEMMA CloudSpecInv == CloudSpec => []CloudInv
BY CloudInitInv, CloudStepInv, PTL DEF CloudSpec

\* Calls that overlap in any number never leave an account with a refresh token that
\* has been used up, unless the one request that knew the newer one has failed.
THEOREM AccountsCanBeRefreshed == CloudSpec => []GrantsAreKept
BY CloudSpecInv, PTL DEF CloudInv

\* A disabled account comes back when the user connects it again, or by a call that
\* had read it before it was disabled.
THEOREM DisabledStaysDisabled == CloudSpec => ComesBackByRaceOnly
<1>1. ASSUME CloudInv, [CloudNext]_cloudVars
      PROVE  [\A a \in Accounts : row[a].status = "disabled" /\ row'[a].status = "enabled" =>
                 \E t \in CloudThreads :
                    /\ call[t].pc \in {"connect", "store"} /\ call[t].account = a
                    /\ Pc(t, "connect") \/ call[t].raced]_cloudVars
  <2> SUFFICES ASSUME CloudNext, NEW a \in Accounts,
                      row[a].status = "disabled", row'[a].status = "enabled"
               PROVE  \E t \in CloudThreads :
                         /\ call[t].pc \in {"connect", "store"} /\ call[t].account = a
                         /\ Pc(t, "connect") \/ call[t].raced
    BY <1>1
  <2>1. row \in [Accounts -> [status: {"none", "enabled", "disabled"}, grant: Nat]]
    BY <1>1 DEF CloudInv, CloudTypeOK
  <2>2. PICK t \in CloudThreads : StoreConnected(t) \/ StoreRefreshed(t)
    BY <2>1 DEF CloudNext, BeginConnect, CompleteConnect, UseAccount, ExchangeCode, CallProvider,
                Refresh, DisableAccount, CloudRestart
  <2>3. call[t].account = a /\ call[t].pc \in {"connect", "store"}
    BY <2>1, <2>2 DEF StoreConnected, StoreRefreshed, Upserted
  <2>4. call[t].pc = "connect" \/ call[t].raced
    BY <1>1, <2>3 DEF CloudInv, RacesAreMarked
  <2> QED
    BY <2>3, <2>4
<1> QED
  BY <1>1, CloudSpecInv, PTL DEF CloudSpec, ComesBackByRaceOnly

-----------------------------------------------------------------------------
(* Theorems about Assistant: settings follow the saves, and a question goes  *)
(* to the service it was put together for, for any number of users, threads  *)
(* and services.                                                            *)

Saving == [pc: {"upsert"}, user: Learners, request: Requests,
           read: Settings \cup {Unset}, disturbed: BOOLEAN]
Asking == [pc: {"transport"}, user: Learners \cup {Unset}, mode: Modes, disturbed: BOOLEAN]

\* The variables hold values of the shapes the code declares.
AskTypeOK ==
    /\ kind \in {"llm", "asr"} /\ authEnabled \in BOOLEAN /\ env \in {Unset, EnvUrl}
    /\ global \in Settings \cup {Unset}
    /\ rows \in [Learners -> Settings \cup {Unset}]
    /\ named \in [Learners -> Named]
    /\ work \in [AskThreads -> {Off} \cup Saving \cup Asking]
    /\ overlapped \subseteq Learners

\* The first conjunct of SettingsFollowSaves.
RowsFollow ==
    \A u \in Learners : rows[u] # Unset =>
        /\ rows[u].key = named[u].key
        /\ u \notin overlapped => /\ rows[u].url = Else(named[u].url, env)
                                  /\ rows[u].mode = named[u].mode

\* A user without a row has named nothing; rows are for installations with accounts.
RowsAreNamed ==
    /\ \A u \in Learners : rows[u] = Unset => named[u] = NothingNamed
    /\ \A t \in AskThreads : Doing(t, "upsert") => authEnabled

\* A save that nobody disturbed has read what is in force now; one that has read
\* nothing names the service.
ReadOk(t) ==
    Doing(t, "upsert") =>
        /\ ~work[t].disturbed => work[t].read = Base(work[t].user)
        /\ work[t].read = Unset => work[t].request.url # Unset

ReadIsCurrent == \A t \in AskThreads : ReadOk(t)

\* A question that nobody disturbed was put together for what is in force now.
ModeOk(t) ==
    Doing(t, "transport") =>
        /\ kind = "llm" /\ Asker(work[t].user)
        /\ ~work[t].disturbed => work[t].mode = EffectiveMode(work[t].user)

ModeIsCurrent == \A t \in AskThreads : ModeOk(t)

NoQuietTear == \A a \in answered : a.torn => a.disturbed

AskInv == AskTypeOK /\ RowsFollow /\ RowsAreNamed /\ ReadIsCurrent /\ ModeIsCurrent /\ NoQuietTear

\* What the environment offers is a setting, or nothing.
LEMMA EnvType ==
    ASSUME AskTypeOK
    PROVE  /\ Env \in Settings \cup {Unset} /\ (Env = Unset <=> env = Unset)
           /\ env # Unset => Env = [url |-> env, key |-> Unset, mode |-> DefaultMode]
<1>1. env # Unset => [url |-> env, key |-> Unset, mode |-> DefaultMode] \in Settings
  BY DEF AskTypeOK, Settings, Modes, DefaultMode
<1> QED
  BY <1>1, AssistantAssumption DEF Env

\* The page says "none" exactly when a question would be refused.
LEMMA SourcesAgree ==
    ASSUME AskTypeOK, NEW u \in Learners \cup {Unset}, Asker(u)
    PROVE  Source(u) = "none" <=> Effective(u) = Unset
  BY EnvType, AssistantAssumption
     DEF AskTypeOK, Source, Effective, Else, LlmUserSource, LlmGlobalSource, AsrSource, Asker

LEMMA AskInvFollows == AskInv => SettingsFollowSaves
  BY SourcesAgree DEF AskInv, RowsFollow, NoQuietTear, SettingsFollowSaves

LEMMA AskInitInv == AskInit => AskInv
<1> SUFFICES ASSUME AskInit PROVE AskInv
  OBVIOUS
<1>1. AskTypeOK
  BY DEF AskInit, AskTypeOK, NothingNamed, Named, Modes, DefaultMode
<1>2. RowsFollow /\ RowsAreNamed /\ ReadIsCurrent /\ ModeIsCurrent /\ NoQuietTear
  BY DEF AskInit, RowsFollow, RowsAreNamed, ReadIsCurrent, ReadOk, ModeIsCurrent, ModeOk,
         NoQuietTear, Doing, Off
<1> QED
  BY <1>1, <1>2 DEF AskInv

\* What is known of one thread.
LEMMA WorkShape ==
    ASSUME AskTypeOK, NEW t \in AskThreads
    PROVE  /\ Doing(t, "off") \/ Doing(t, "upsert") \/ Doing(t, "transport")
           /\ Doing(t, "off") => work[t] = Off
           /\ Doing(t, "upsert") => work[t] \in Saving
           /\ Doing(t, "transport") => work[t] \in Asking
  BY DEF AskTypeOK, Doing, Off, Saving, Asking

\* A thread that something disturbs keeps its shape.
LEMMA Disturbed ==
    ASSUME AskTypeOK, NEW t \in AskThreads, ~Doing(t, "off"),
           NEW w, w = [work[t] EXCEPT !.disturbed = TRUE]
    PROVE  /\ w \in Saving \cup Asking
           /\ w.pc = work[t].pc /\ w.disturbed /\ w.user = work[t].user
           /\ Doing(t, "upsert") => w.read = work[t].read /\ w.request = work[t].request
  BY WorkShape DEF Saving, Asking, Doing

\* A key, a service and a mode as a save leaves them.
LEMMA RequestType ==
    ASSUME NEW request \in Requests
    PROVE  /\ request.url \in Urls \cup {Unset}
           /\ request.key \in Keys \cup {Unset, "clear"}
           /\ request.mode \in Modes \cup {Unset}
  BY DEF Requests

LEMMA GlobalSave ==
    ASSUME AskInv, NEW request \in Requests, UpdateGlobalSettings(request)
    PROVE  AskInv'
<1> DEFINE default == [url |-> EnvUrl, key |-> Unset, mode |-> DefaultMode]
           current == Else(global, Else(Env, default))
<1>0. /\ AskTypeOK /\ RowsFollow /\ RowsAreNamed /\ ReadIsCurrent /\ ModeIsCurrent /\ NoQuietTear
      /\ UNCHANGED <<kind, authEnabled, env, rows, named, overlapped, answered>>
      /\ ~authEnabled
  BY DEF AskInv, UpdateGlobalSettings
<1>1. default \in Settings
  BY DEF Settings, Modes, DefaultMode
<1>2. current \in Settings
  BY <1>0, <1>1, EnvType DEF AskTypeOK, Else
<1>3. global' = [url  |-> Else(request.url, current.url),
                 key  |-> KeyAfter(request, global),
                 mode |-> Else(request.mode, current.mode)]
  BY DEF UpdateGlobalSettings
<1> HIDE DEF current
<1>4. KeyAfter(request, global) \in Keys \cup {Unset}
  BY <1>0, RequestType DEF KeyAfter, Else, AskTypeOK, Settings
<1>5. global' \in Settings
  BY <1>2, <1>3, <1>4, RequestType DEF Else, Settings
<1>6. ASSUME NEW t \in AskThreads
      PROVE  IF Doing(t, "off") THEN work'[t] = Off
             ELSE /\ work'[t] \in Saving \cup Asking /\ work'[t].pc = work[t].pc /\ work'[t].disturbed
                  /\ work'[t].user = work[t].user
                  /\ Doing(t, "upsert") => work'[t].read = work[t].read /\ work'[t].request = work[t].request
  <2>1. CASE Doing(t, "off")
    BY <1>0, <2>1, WorkShape DEF UpdateGlobalSettings
  <2>2. CASE ~Doing(t, "off")
    <3>1. work'[t] = [work[t] EXCEPT !.disturbed = TRUE]
      BY <2>2 DEF UpdateGlobalSettings
    <3> QED
      BY <1>0, <2>2, <3>1, Disturbed
  <2> QED
    BY <2>1, <2>2
<1>7. AskTypeOK'
  <2>1. work' \in [AskThreads -> {Off} \cup Saving \cup Asking]
    <3>1. \A t \in AskThreads : work'[t] \in {Off} \cup Saving \cup Asking
      BY <1>6
    <3> QED
      BY <3>1 DEF UpdateGlobalSettings
  <2> QED
    BY <1>0, <1>5, <2>1 DEF AskTypeOK
<1>8. RowsFollow' /\ NoQuietTear'
  BY <1>0 DEF RowsFollow, NoQuietTear
<1>9. RowsAreNamed'
  BY <1>0, <1>6 DEF RowsAreNamed, Doing, Off
<1>10. ASSUME NEW t \in AskThreads
       PROVE  ReadOk(t)' /\ ModeOk(t)'
  BY <1>0, <1>6 DEF ReadIsCurrent, ReadOk, ModeIsCurrent, ModeOk, Doing, Asker, Off
<1> QED
  BY <1>7, <1>8, <1>9, <1>10 DEF AskInv, ReadIsCurrent, ModeIsCurrent

\* What one upsert does to the row of its user, and to what the user has named.
LEMMA UpsertRow ==
    ASSUME AskInv, NEW t \in AskThreads, Upsert(t)
    PROVE  LET u == work[t].user
           IN  /\ u \in Learners
               /\ rows'[u] \in Settings /\ named'[u] \in Named
               /\ rows'[u].key = named'[u].key
               /\ u \notin overlapped /\ ~work[t].disturbed =>
                     /\ rows'[u].url = Else(named'[u].url, env)
                     /\ rows'[u].mode = named'[u].mode
<1> DEFINE u == work[t].user  request == work[t].request  read == work[t].read
<1>0. AskTypeOK /\ RowsFollow /\ RowsAreNamed /\ ReadIsCurrent
  BY DEF AskInv
<1>1. /\ work[t] \in Saving /\ Doing(t, "upsert")
  BY <1>0, WorkShape DEF Upsert
<1>2. u \in Learners /\ request \in Requests /\ read \in Settings \cup {Unset}
  BY <1>1 DEF Saving
<1>3. /\ rows'[u] = [url  |-> IF request.url # Unset THEN request.url ELSE read.url,
                     key  |-> KeyAfter(request, rows[u]),
                     mode |-> Else(request.mode, IF read # Unset THEN read.mode ELSE DefaultMode)]
      /\ named'[u] = [url  |-> Else(request.url, named[u].url),
                      key  |-> KeyAfter(request, named[u]),
                      mode |-> Else(request.mode, named[u].mode)]
  BY <1>0, <1>2 DEF Upsert, KeyStored, AskTypeOK
<1>4. /\ ~work[t].disturbed => read = Base(u)
      /\ read = Unset => request.url # Unset
  BY <1>0, <1>1 DEF ReadIsCurrent, ReadOk
<1>5. named[u] \in Named /\ rows[u] \in Settings \cup {Unset} /\ env \in {Unset, EnvUrl}
  BY <1>0, <1>2 DEF AskTypeOK
<1>6. /\ rows[u] = Unset => named[u] = NothingNamed
      /\ rows[u] # Unset =>
            /\ rows[u].key = named[u].key
            /\ u \notin overlapped => /\ rows[u].url = Else(named[u].url, env)
                                      /\ rows[u].mode = named[u].mode
  BY <1>0, <1>2 DEF RowsAreNamed, RowsFollow
<1> HIDE DEF u, request, read
<1>7. named[u] # Unset
  BY <1>5, AssistantAssumption
<1>8. KeyAfter(request, rows[u]) = KeyAfter(request, named[u])
  BY <1>5, <1>6, <1>7 DEF KeyAfter, Else, NothingNamed
<1>9. KeyAfter(request, rows[u]) \in Keys \cup {Unset}
  BY <1>2, <1>5, RequestType DEF KeyAfter, Else, Settings
<1>10. rows'[u] \in Settings /\ named'[u] \in Named
  BY <1>2, <1>3, <1>4, <1>5, <1>8, <1>9, RequestType DEF Else, Settings, Named, Modes, DefaultMode
<1>11. ASSUME u \notin overlapped, ~work[t].disturbed
       PROVE  rows'[u].url = Else(named'[u].url, env) /\ rows'[u].mode = named'[u].mode
  <2>1. CASE rows[u] # Unset
    <3>1. read = rows[u] /\ read # Unset
      BY <1>4, <1>11, <2>1 DEF Base, Else
    <3>2. read.url = Else(named[u].url, env) /\ read.mode = named[u].mode
      BY <1>6, <1>11, <2>1, <3>1
    <3> QED
      BY <1>2, <1>3, <1>5, <3>1, <3>2, RequestType DEF Else, Named
  <2>2. CASE rows[u] = Unset
    <3>1. named[u].url = Unset /\ named[u].mode = DefaultMode
      BY <1>6, <2>2 DEF NothingNamed
    <3>2. read = Unset \/ (read.url = env /\ read.mode = DefaultMode)
      BY <1>0, <1>4, <1>11, <2>2, EnvType DEF Base, Else
    <3> QED
      BY <1>2, <1>3, <1>4, <3>1, <3>2, RequestType DEF Else
  <2> QED
    BY <2>1, <2>2
<1> QED
  BY <1>2, <1>3, <1>8, <1>10, <1>11 DEF u

LEMMA UpsertKeeps ==
    ASSUME AskInv, NEW t \in AskThreads, Upsert(t)
    PROVE  AskInv'
<1> DEFINE u == work[t].user
<1>0. /\ AskTypeOK /\ RowsFollow /\ RowsAreNamed /\ ReadIsCurrent /\ ModeIsCurrent /\ NoQuietTear
      /\ UNCHANGED <<kind, authEnabled, env, global, answered>> /\ Doing(t, "upsert")
  BY DEF AskInv, Upsert
<1>1. /\ u \in Learners
      /\ rows'[u] \in Settings /\ named'[u] \in Named
      /\ rows'[u].key = named'[u].key
      /\ u \notin overlapped /\ ~work[t].disturbed =>
            rows'[u].url = Else(named'[u].url, env) /\ rows'[u].mode = named'[u].mode
  BY UpsertRow
<1>2. \A v \in Learners \ {u} : rows'[v] = rows[v] /\ named'[v] = named[v]
  BY <1>0 DEF Upsert, AskTypeOK
<1>3. overlapped' = IF work[t].disturbed THEN overlapped \cup {u} ELSE overlapped
  BY DEF Upsert
<1>4. work'[t] = Off
  BY DEF Upsert
<1> HIDE DEF u
<1>5. ASSUME NEW x \in AskThreads \ {t}
      PROVE  \/ work'[x] = work[x] /\ (Doing(x, "off") \/ work[x].user # u)
             \/ /\ ~Doing(x, "off") /\ work'[x] \in Saving \cup Asking
                /\ work'[x].pc = work[x].pc /\ work'[x].disturbed /\ work'[x].user = work[x].user
                /\ Doing(x, "upsert") => work'[x].read = work[x].read /\ work'[x].request = work[x].request
  <2>1. CASE Doing(x, "off") \/ work[x].user # u
    BY <2>1 DEF Upsert, u
  <2>2. CASE ~Doing(x, "off") /\ work[x].user = u
    <3>1. work'[x] = [work[x] EXCEPT !.disturbed = TRUE]
      BY <2>2 DEF Upsert, u
    <3> QED
      BY <1>0, <2>2, <3>1, Disturbed
  <2> QED
    BY <2>1, <2>2
<1>6. AskTypeOK'
  <2>1. rows' \in [Learners -> Settings \cup {Unset}] /\ named' \in [Learners -> Named]
    <3>1. /\ rows' = [rows EXCEPT ![u] = rows'[u]] /\ named' = [named EXCEPT ![u] = named'[u]]
      BY <1>0, <1>1 DEF Upsert, u, AskTypeOK
    <3> QED
      BY <1>0, <1>1, <3>1 DEF AskTypeOK
  <2>2. work' \in [AskThreads -> {Off} \cup Saving \cup Asking]
    <3>1. \A x \in AskThreads : work'[x] \in {Off} \cup Saving \cup Asking
      BY <1>0, <1>4, <1>5 DEF AskTypeOK
    <3> QED
      BY <3>1 DEF Upsert
  <2>3. overlapped' \subseteq Learners
    BY <1>0, <1>1, <1>3 DEF AskTypeOK
  <2> QED
    BY <1>0, <2>1, <2>2, <2>3 DEF AskTypeOK
<1>7. RowsFollow'
  BY <1>0, <1>1, <1>2, <1>3 DEF RowsFollow
<1>8. RowsAreNamed'
  <2>1. rows'[u] # Unset
    BY <1>1, AssistantAssumption
  <2>2. \A v \in Learners : rows'[v] = Unset => named'[v] = NothingNamed
    BY <1>0, <1>2, <2>1 DEF RowsAreNamed
  <2>3. \A x \in AskThreads : Doing(x, "upsert")' => Doing(x, "upsert")
    BY <1>4, <1>5 DEF Doing, Off
  <2> QED
    BY <1>0, <2>2, <2>3 DEF RowsAreNamed
<1>9. ReadIsCurrent'
  <2> SUFFICES ASSUME NEW x \in AskThreads, Doing(x, "upsert")'
               PROVE  ReadOk(x)'
    BY DEF ReadIsCurrent, ReadOk
  <2>1. x # t /\ Doing(x, "upsert")
    BY <1>4, <1>5 DEF Doing, Off
  <2>2. CASE work'[x] = work[x] /\ work[x].user # u
    <3>1. work[x].user \in Learners
      BY <1>0, <2>1, WorkShape DEF Saving
    <3>2. rows'[work[x].user] = rows[work[x].user]
      BY <1>2, <2>2, <3>1
    <3> QED
      BY <1>0, <2>1, <2>2, <3>2 DEF ReadIsCurrent, ReadOk, Base, Env
  <2>3. CASE work'[x].disturbed /\ work'[x].read = work[x].read /\ work'[x].request = work[x].request
    BY <1>0, <2>1, <2>3 DEF ReadIsCurrent, ReadOk
  <2> QED
    BY <1>5, <2>1, <2>2, <2>3 DEF Doing
<1>10. ModeIsCurrent'
  <2> SUFFICES ASSUME NEW x \in AskThreads, Doing(x, "transport")'
               PROVE  ModeOk(x)'
    BY DEF ModeIsCurrent, ModeOk
  <2>1. x # t /\ Doing(x, "transport")
    BY <1>4, <1>5 DEF Doing, Off
  <2>2. CASE work'[x] = work[x] /\ work[x].user # u
    <3>1. work[x].user \in Learners \cup {Unset}
      BY <1>0, <2>1, WorkShape DEF Asking
    <3>2. work[x].user # Unset => rows'[work[x].user] = rows[work[x].user]
      BY <1>2, <2>2, <3>1
    <3> QED
      BY <1>0, <2>1, <2>2, <3>2 DEF ModeIsCurrent, ModeOk, Asker, EffectiveMode
  <2>3. CASE work'[x].disturbed /\ work'[x].user = work[x].user
    BY <1>0, <2>1, <2>3 DEF ModeIsCurrent, ModeOk, Asker
  <2> QED
    BY <1>5, <2>1, <2>2, <2>3 DEF Doing
<1>11. NoQuietTear'
  BY <1>0 DEF NoQuietTear
<1> QED
  BY <1>6, <1>7, <1>8, <1>9, <1>10, <1>11 DEF AskInv

LEMMA AskStepInv == AskInv /\ [AskNext]_askVars => AskInv'
<1> SUFFICES ASSUME AskInv, [AskNext]_askVars PROVE AskInv'
  OBVIOUS
<1>0. AskTypeOK /\ RowsFollow /\ RowsAreNamed /\ ReadIsCurrent /\ ModeIsCurrent /\ NoQuietTear
  BY DEF AskInv
<1>1. ASSUME NEW request \in Requests, UpdateGlobalSettings(request)
      PROVE  AskInv'
  BY <1>1, GlobalSave
<1>2. ASSUME NEW t \in AskThreads, NEW u \in Learners, NEW request \in Requests,
             ReadSettings(t, u, request)
      PROVE  AskInv'
  <2> DEFINE w == [pc |-> "upsert", user |-> u, request |-> request, read |-> Base(u), disturbed |-> FALSE]
  <2>1. Base(u) \in Settings \cup {Unset}
    BY <1>0, EnvType DEF Base, Else, AskTypeOK
  <2>2. w \in Saving
    BY <2>1 DEF Saving
  <2>3. /\ work' = [work EXCEPT ![t] = w] /\ authEnabled
        /\ work'[t] = w /\ \A x \in AskThreads \ {t} : work'[x] = work[x]
        /\ UNCHANGED <<kind, authEnabled, env, global, rows, named, overlapped, answered>>
        /\ Base(u) = Unset => request.url # Unset
    BY <1>0, <1>2 DEF ReadSettings, AskTypeOK, Else
  <2>4. /\ w.pc = "upsert" /\ w.user = u /\ w.request = request /\ w.read = Base(u)
    OBVIOUS
  <2> HIDE DEF w
  <2>5. AskTypeOK'
    BY <1>0, <2>2, <2>3 DEF AskTypeOK
  <2>6. RowsFollow' /\ NoQuietTear'
    BY <1>0, <2>3 DEF RowsFollow, NoQuietTear
  <2>7. RowsAreNamed'
    BY <1>0, <2>3, <2>4 DEF RowsAreNamed, Doing
  <2>8. ReadIsCurrent'
    BY <1>0, <2>3, <2>4 DEF ReadIsCurrent, ReadOk, Doing, Base, Env
  <2>9. ModeIsCurrent'
    BY <1>0, <2>3, <2>4 DEF ModeIsCurrent, ModeOk, Doing, EffectiveMode, Asker
  <2> QED
    BY <2>5, <2>6, <2>7, <2>8, <2>9 DEF AskInv
<1>3. ASSUME NEW t \in AskThreads, Upsert(t)
      PROVE  AskInv'
  BY <1>3, UpsertKeeps
<1>4. ASSUME NEW t \in AskThreads, NEW u \in Learners \cup {Unset}, ChooseMode(t, u)
      PROVE  AskInv'
  <2> DEFINE w == [pc |-> "transport", user |-> u, mode |-> EffectiveMode(u), disturbed |-> FALSE]
  <2>1. EffectiveMode(u) \in Modes
    BY <1>0 DEF EffectiveMode, AskTypeOK, Settings, Modes, DefaultMode
  <2>2. w \in Asking
    BY <2>1 DEF Asking
  <2>3. /\ work' = [work EXCEPT ![t] = w] /\ kind = "llm" /\ Asker(u)
        /\ work'[t] = w /\ \A x \in AskThreads \ {t} : work'[x] = work[x]
        /\ UNCHANGED <<kind, authEnabled, env, global, rows, named, overlapped, answered>>
    BY <1>0, <1>4 DEF ChooseMode, AskTypeOK
  <2>4. /\ w.pc = "transport" /\ w.user = u /\ w.mode = EffectiveMode(u)
    OBVIOUS
  <2> HIDE DEF w
  <2>5. AskTypeOK'
    BY <1>0, <2>2, <2>3 DEF AskTypeOK
  <2>6. RowsFollow' /\ NoQuietTear'
    BY <1>0, <2>3 DEF RowsFollow, NoQuietTear
  <2>7. RowsAreNamed'
    BY <1>0, <2>3, <2>4 DEF RowsAreNamed, Doing
  <2>8. ReadIsCurrent'
    BY <1>0, <2>3, <2>4 DEF ReadIsCurrent, ReadOk, Doing, Base, Env
  <2>9. ModeIsCurrent'
    BY <1>0, <2>3, <2>4 DEF ModeIsCurrent, ModeOk, Doing, EffectiveMode, Asker
  <2> QED
    BY <2>5, <2>6, <2>7, <2>8, <2>9 DEF AskInv
<1>5. ASSUME NEW t \in AskThreads, Transport(t)
      PROVE  AskInv'
  <2> DEFINE cfg == Effective(work[t].user)  a == [torn |-> work[t].mode # cfg.mode, disturbed |-> work[t].disturbed]
  <2>1. /\ work' = [work EXCEPT ![t] = Off] /\ Doing(t, "transport") /\ work[t] \in Asking
        /\ work'[t] = Off /\ \A x \in AskThreads \ {t} : work'[x] = work[x]
        /\ UNCHANGED <<kind, authEnabled, env, global, rows, named, overlapped>>
        /\ answered' = IF cfg = Unset THEN answered ELSE answered \cup {a}
    BY <1>0, <1>5, WorkShape DEF Transport, AskTypeOK
  <2>2. ASSUME cfg # Unset, ~work[t].disturbed
        PROVE  work[t].mode = cfg.mode
    <3>1. /\ kind = "llm" /\ Asker(work[t].user) /\ work[t].mode = EffectiveMode(work[t].user)
      BY <1>0, <2>1, <2>2 DEF ModeIsCurrent, ModeOk
    <3>2. work[t].user \in Learners \cup {Unset}
      BY <2>1 DEF Asking
    <3> QED
      BY <1>0, <2>2, <3>1, <3>2, EnvType DEF Effective, EffectiveMode, Else, AskTypeOK, Asker
  <2>3. cfg # Unset /\ a.torn => a.disturbed
    BY <2>2
  <2>4. NoQuietTear'
    BY <1>0, <2>1, <2>3 DEF NoQuietTear
  <2> HIDE DEF cfg, a
  <2>5. AskTypeOK'
    BY <1>0, <2>1 DEF AskTypeOK
  <2>6. RowsFollow' /\ RowsAreNamed'
    BY <1>0, <2>1 DEF RowsFollow, RowsAreNamed, Doing, Off
  <2>7. ReadIsCurrent'
    BY <1>0, <2>1 DEF ReadIsCurrent, ReadOk, Doing, Base, Env, Off
  <2>8. ModeIsCurrent'
    BY <1>0, <2>1 DEF ModeIsCurrent, ModeOk, Doing, EffectiveMode, Asker, Off
  <2> QED
    BY <2>4, <2>5, <2>6, <2>7, <2>8 DEF AskInv
<1>6. CASE UNCHANGED askVars
  BY <1>0, <1>6 DEF askVars, AskInv, AskTypeOK, RowsFollow, RowsAreNamed, ReadIsCurrent, ReadOk,
                    ModeIsCurrent, ModeOk,
                    NoQuietTear, Doing, Base, Env, EffectiveMode, Asker
<1> QED
  BY <1>1, <1>2, <1>3, <1>4, <1>5, <1>6 DEF AskNext

\* What a user has saved is in force, the page says whether a question would be
\* refused, and an undisturbed question goes to the service it was put together for.
THEOREM SavesAreInForce == AskSpec => []SettingsFollowSaves
<1>1. AskSpec => []AskInv
  BY AskInitInv, AskStepInv, PTL DEF AskSpec
<1> QED
  BY <1>1, AskInvFollows, PTL
=============================================================================
