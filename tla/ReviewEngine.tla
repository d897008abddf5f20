---------------------------- MODULE ReviewEngine ----------------------------
(***************************************************************************)
(* The review scheduler of one project (backend/system/api.py): learning   *)
(* tasks are submitted, registered on a layer with a review chain, turned  *)
(* into review tasks by orchestrator ticks, executed in FIFO order, and    *)
(* rolled up into parent nodes that are registered one layer higher.       *)
(*                                                                         *)
(* db is the committed ProjectStore.  One action is one committed          *)
(* MutationSession: the write lock makes a session atomic (SessionStore).  *)
(* A call that commits then runs the best-effort driver, a loop of further *)
(* sessions; fuel[t] is the number of iterations thread t has left in it,  *)
(* 0 when t is in no call.  open holds the thread whose session has begun  *)
(* and not ended: begin_session of any other thread raises until it ends.  *)
(*                                                                         *)
(* Names: layers[i] is the code's layer_index i-1.  A recall point is      *)
(* <<leaf, k>>.  A review task is [chain, item, round]: the round-th task  *)
(* of the item-th element of a review chain.  A range is the set of its    *)
(* recall points (snapshots are interned by content and hold no            *)
(* duplicates; nothing here depends on their order).                       *)
(* The roll-up strategy is never LEARNING_OBJECT_ISOMORPHIC and no material *)
(* is missing: the isomorphic scan and the missing-instance gate do nothing.*)
(***************************************************************************)
EXTENDS Integers, Sequences, FiniteSets

CONSTANTS
    Threads,        \* server threads; the write lock is the server's, so a thread
                    \* may hold it for another project and change nothing here
    Strategies,     \* the roll_up_strategy values in use
    LayerConfigs,   \* the layer configurations a user may choose
    DefaultConfig,  \* the configuration a layer has until one is chosen
    MaxIterations,  \* the driver's max_iterations (64 in the code)
    MaxLeaves,      \* bound: learning tasks submitted
    MaxItems,       \* bound: recall points per learning task
    MaxNodes,       \* bound: learning task nodes, parents included
    MaxLayers,      \* bound: layers
    MaxRounds       \* bound: rounds of one convergence that end with a miss

ThresholdAuto == "THRESHOLD_AUTO"
ItemKinds == {"CONVERGENCE", "REVIEW_TASK"}
CycleStates == {"CLEARING", "ROLL_UP", "DONE"}

LayerConfig ==
    [template: Seq(ItemKinds), kNode: Nat \ {0}, kPoint: Nat \ {0}, enabled: BOOLEAN]

\* validate_review_chain_template_write_time: non-empty, with a CONVERGENCE
ASSUME ConfigAssumption ==
    /\ LayerConfigs \subseteq LayerConfig
    /\ DefaultConfig \in LayerConfig
    /\ \A c \in LayerConfigs \cup {DefaultConfig} :
          \E j \in DOMAIN c.template : c.template[j] = "CONVERGENCE"

ASSUME BoundAssumption ==
    /\ {MaxIterations, MaxLeaves, MaxItems, MaxNodes, MaxLayers} \subseteq Nat \ {0}
    /\ MaxRounds \in Nat
    /\ ThresholdAuto \in Strategies

VARIABLES db, fuel, open
vars == <<db, fuel, open>>

None == 0
SeqRange(s) == {s[j] : j \in DOMAIN s}

-----------------------------------------------------------------------------
(* Reading the store.                                                      *)

NodeIds(d) == DOMAIN d.nodes
ChainIds(d) == DOMAIN d.chains
LayerIds(d) == DOMAIN d.layers
RecallPoints(d) == UNION {d.nodes[n].items : n \in NodeIds(d)}

\* LearningTaskNodeRepository.covered_rp_ids: the ACTIVE points of the leaves
\* beneath n.  items is that set at creation; neither a leaf's task nor the
\* children of a pushed-up parent ever change.
Covered(d, n) == d.nodes[n].items \ d.deleted

SetLayer(d, i, layer) == [d EXCEPT !.layers[i] = layer]

InCycle(d, c) == {i \in LayerIds(d) : d.layers[i].cycle = c}
Lowest(S) == CHOOSE i \in S : \A j \in S : i <= j

-----------------------------------------------------------------------------
(* Task register: a new entry node gets a chain built from the template of *)
(* its layer, a registration, a place in the aggregation queue, and the    *)
(* layer gets its tick quota back.                                         *)

NewRound(range) == [input |-> range, done |-> FALSE, focus |-> {}]

NewChain(n, i, seed, template) ==
    [node |-> n, layer |-> i, seed |-> seed, items |-> template, head |-> 1,
     rounds |-> [j \in DOMAIN template |->
                    IF template[j] = "REVIEW_TASK" THEN <<NewRound(seed)>> ELSE <<>>]]

WithChain(d, n, i) ==
    [d EXCEPT !.chains = Append(@, NewChain(n, i, Covered(d, n), d.config[i].template))]

\* mutant: the layer does not take the chain over
RegisteredUnmanaged(layer, c, n) == [layer EXCEPT !.agg = Append(@, n), !.quota = 1]

Registered(layer, c, n) ==
    [layer EXCEPT !.managed = @ \cup {c}, !.agg = Append(@, n), !.quota = 1]

\* registration_seq is 1 + the maximum of the layer, taken in the transaction
\* that allocates the chain id: within a layer both orders are the same.
TaskRegister(d, n, i) ==
    SetLayer(WithChain(d, n, i), i, Registered(d.layers[i], Len(d.chains) + 1, n))

-----------------------------------------------------------------------------
(* Roll-up.  Phase A freezes the candidates under a new parent node;       *)
(* phase B registers that parent one layer higher.                         *)

\* push_up without a grand parent refuses candidates that have a parent
CanPushUp(d, i) == \A n \in SeqRange(d.layers[i].agg) : d.nodes[n].parent = None

PushUp(d, kids, by) ==
    LET p == Len(d.nodes) + 1
        under == SeqRange(kids)
    IN  Append([n \in NodeIds(d) |->
                  IF n \in under THEN [d.nodes[n] EXCEPT !.parent = p] ELSE d.nodes[n]],
               [parent |-> None, kids |-> kids, by |-> by,
                items |-> UNION {d.nodes[n].items : n \in under}])

\* mutant: the candidates stay in the aggregation queue
DrainingKeepsQueue(layer, p) == [layer EXCEPT !.pending = p, !.cycle = "CLEARING"]

Draining(layer, p) == [layer EXCEPT !.agg = <<>>, !.pending = p, !.cycle = "CLEARING"]

PhaseA(d, i, by) ==
    SetLayer([d EXCEPT !.nodes = PushUp(d, d.layers[i].agg, by)],
             i, Draining(d.layers[i], Len(d.nodes) + 1))

ThresholdEnabled(d, i) == d.strategy = ThresholdAuto /\ d.config[i].enabled

ThresholdMet(d, i) ==
    LET layer == d.layers[i]
    IN  /\ layer.agg # <<>>
        /\ \/ Len(layer.agg) >= layer.kNode
           \/ Cardinality(UNION {Covered(d, n) : n \in SeqRange(layer.agg)}) >= layer.kPoint

\* bound: a roll-up needs a node and a layer to go to
RoomToRollUp(d, i) == i < MaxLayers /\ Len(d.nodes) < MaxNodes

ThresholdRollsUp(d, i) ==
    /\ d.queue = <<>>
    /\ ThresholdEnabled(d, i)
    /\ d.layers[i].cycle = "DONE"
    /\ d.layers[i].pending = None
    /\ ThresholdMet(d, i)
    /\ RoomToRollUp(d, i)

EnterClearing(d, i) == IF ThresholdRollsUp(d, i) THEN PhaseA(d, i, "THRESHOLD_DRAIN") ELSE d

Configured(layer, cfg) == [layer EXCEPT !.kNode = cfg.kNode, !.kPoint = cfg.kPoint]

NewLayer(cfg) ==
    [managed |-> {}, agg |-> <<>>, kNode |-> cfg.kNode, kPoint |-> cfg.kPoint,
     cycle |-> "DONE", pending |-> None, quota |-> 1]

EnsureLayer(d, i) ==
    IF i \in LayerIds(d) THEN d ELSE [d EXCEPT !.layers = Append(@, NewLayer(d.config[i]))]

RegisterParent(d, i) == TaskRegister(EnsureLayer(d, i + 1), d.layers[i].pending, i + 1)

\* TaskRegister raises on an empty seed, push_up on a candidate that has a parent
PhaseBFails(d, i) ==
    \/ Covered(d, d.layers[i].pending) = {}
    \/ LET r == RegisterParent(d, i) IN ThresholdRollsUp(r, i + 1) /\ ~CanPushUp(r, i + 1)

RolledUp(layer) == [layer EXCEPT !.pending = None, !.cycle = "DONE"]

PhaseB(d, i) ==
    SetLayer(EnterClearing(RegisterParent(d, i), i + 1), i, RolledUp(d.layers[i]))

-----------------------------------------------------------------------------
(* Orchestrator tick.  Every managed chain steps over the elements that    *)
(* are finished; the first unfinished one yields at most one review task.  *)

Last(s) == s[Len(s)]

\* the input of a convergence's next round: the missed points that are still
\* covered, then the covered points that are not in the seed
NextInput(d, c, j) ==
    LET chain == d.chains[c]
        covered == Covered(d, chain.node)
    IN  IF chain.rounds[j] = <<>> THEN chain.seed
        ELSE (Last(chain.rounds[j]).focus \cap covered) \cup (covered \ chain.seed)

RoundOpen(chain, j) == chain.rounds[j] # <<>> /\ ~Last(chain.rounds[j]).done

\* a REVIEW_TASK that is DONE, a convergence whose last round missed nothing
\* or has no next input: the chain's head moves past it
\* (mutant: one round is enough)
FinishedByAnyRound(d, c, j) ==
    LET rounds == d.chains[c].rounds[j] IN rounds # <<>> /\ Last(rounds).done

Finished(d, c, j) ==
    LET rounds == d.chains[c].rounds[j]
    IN  /\ rounds # <<>>
        /\ Last(rounds).done
        /\ \/ d.chains[c].items[j] = "REVIEW_TASK"
           \/ Last(rounds).focus = {}
           \/ NextInput(d, c, j) = {}

NextHead(d, c) ==
    LET chain == d.chains[c]
    IN  Lowest({h \in chain.head .. Len(chain.items) + 1 :
                   h \in DOMAIN chain.items => ~Finished(d, c, h)})

Exhausted(d, c) == NextHead(d, c) > Len(d.chains[c].items)

\* PRODUCED_NEW: the head is a convergence with no open round
Produces(d, c) ==
    /\ ~Exhausted(d, c)
    /\ d.chains[c].items[NextHead(d, c)] = "CONVERGENCE"
    /\ ~RoundOpen(d.chains[c], NextHead(d, c))

StepChain(d, c) ==
    LET h == NextHead(d, c)
        moved == [d.chains[c] EXCEPT !.head = h]
    IN  IF Produces(d, c)
        THEN [moved EXCEPT !.rounds[h] = Append(@, NewRound(NextInput(d, c, h)))]
        ELSE moved

\* every managed chain is advancable: no convergence at a head has an open round
GateOk(d, i) ==
    /\ d.queue = <<>>
    /\ \A c \in d.layers[i].managed :
          LET chain == d.chains[c]
          IN  chain.head \in DOMAIN chain.items /\ chain.items[chain.head] = "CONVERGENCE"
                 => ~RoundOpen(chain, chain.head)

\* the tasks one tick hands to the queue: what it produced, and the pending
\* REVIEW_TASK elements that reached the head (READY_EXISTING)
Batch(d, i) ==
    {[chain |-> c, item |-> NextHead(d, c), round |-> Len(StepChain(d, c).rounds[NextHead(d, c)])] :
        c \in {k \in d.layers[i].managed :
                  /\ ~Exhausted(d, k)
                  /\ Produces(d, k) \/ d.chains[k].items[NextHead(d, k)] = "REVIEW_TASK"}}

\* the batch in registration order (there is exactly one such sequence)
InOrder(B) ==
    {q \in [1 .. Cardinality(B) -> B] : \A j, k \in DOMAIN q : j < k => q[j].chain < q[k].chain}

\* mutant: exhausted chains stay managed
StillManagedAll(d, i) == d.layers[i].managed

StillManaged(d, i) == {c \in d.layers[i].managed : ~Exhausted(d, c)}

Ticked(d, i, queue) ==
    SetLayer([d EXCEPT
                 !.chains = [c \in ChainIds(d) |->
                                IF c \in d.layers[i].managed THEN StepChain(d, c) ELSE d.chains[c]],
                 !.queue = queue],
             i, [d.layers[i] EXCEPT !.managed = StillManaged(d, i)])

TickResults(d, i) ==
    IF GateOk(d, i) THEN {Ticked(d, i, q) : q \in InOrder(Batch(d, i))} ELSE {d}

\* after a clearing tick that produced nothing the layer leaves CLEARING
\* (mutants: it leaves at once; it never leaves)
SetCycle(d, i, c) == SetLayer(d, i, [d.layers[i] EXCEPT !.cycle = c])

EndClearingAtOnce(d, i) == SetCycle(d, i, "ROLL_UP")

EndClearingNever(d, i) == d

EndClearing(d, i) ==
    IF d.queue = <<>>
    THEN SetCycle(d, i, IF d.layers[i].pending # None THEN "ROLL_UP" ELSE "DONE")
    ELSE d

Tickable(d) == {i \in InCycle(d, "CLEARING") : GateOk(d, i)}

\* _clearing_cycle: phase B if a layer is in ROLL_UP, else one tick of the
\* lowest layer in CLEARING.  A tick that produces nothing ends the loop with
\* ROLL_UP because a layer in CLEARING has a pending parent (PendingIffCycle).
ClearingCycleFails(d) ==
    d.queue = <<>> /\ InCycle(d, "ROLL_UP") # {} /\ PhaseBFails(d, Lowest(InCycle(d, "ROLL_UP")))

ClearingCycle(d) ==
    IF d.queue # <<>> THEN {d}
    ELSE IF InCycle(d, "ROLL_UP") # {} THEN {PhaseB(d, Lowest(InCycle(d, "ROLL_UP")))}
    ELSE IF Tickable(d) = {} THEN {d}
    ELSE LET i == Lowest(Tickable(d)) IN {EndClearing(e, i) : e \in TickResults(d, i)}

-----------------------------------------------------------------------------
(* Requests.  Each is one session; those with a scheduling effect then     *)
(* enter the driver.                                                       *)

Init ==
    /\ db = [nodes |-> <<>>, chains |-> <<>>, queue |-> <<>>, deleted |-> {},
             layers |-> <<NewLayer(DefaultConfig)>>,
             config |-> [i \in 1 .. MaxLayers |-> DefaultConfig],
             strategy |-> ThresholdAuto]
    /\ fuel = [t \in Threads |-> 0]
    /\ open = {}

Idle(t) == fuel[t] = 0
Drive(t) == fuel' = [fuel EXCEPT ![t] = MaxIterations]

\* begin_session and commit, or rollback: t has the write lock or takes it, and
\* gives it back
Session(t) == open \subseteq {t} /\ open' = {}

\* begin_session alone, of a request or of an iteration of the driver
OpenSession(t) ==
    /\ open = {}
    /\ open' = {t}
    /\ UNCHANGED <<db, fuel>>

\* a request that is refused, changes nothing here or serves another project
EndSession(t) ==
    /\ Idle(t)
    /\ t \in open
    /\ Session(t)
    /\ UNCHANGED <<db, fuel>>

Leaves(d) == {n \in NodeIds(d) : d.nodes[n].kids = <<>>}

AddLeaf(d, k) ==
    LET n == Len(d.nodes) + 1
    IN  [d EXCEPT !.nodes = Append(@, [parent |-> None, kids |-> <<>>, by |-> "SUBMIT",
                                       items |-> {n} \X (1 .. k)])]

SubmitLearningTask(t, k) ==
    /\ Idle(t) /\ Session(t)
    /\ db.queue = <<>>
    /\ Cardinality(Leaves(db)) < MaxLeaves /\ Len(db.nodes) < MaxNodes
    /\ LET r == TaskRegister(AddLeaf(db, k), Len(db.nodes) + 1, 1)
       IN  /\ ThresholdRollsUp(r, 1) => CanPushUp(r, 1)
           /\ db' = EnterClearing(r, 1)
    /\ Drive(t)

\* collect_recall_point_to_subject_mistake_material, for the project that takes
\* the point: a one-item task is submitted although the queue may be busy.
CollectRecallPoint(t) ==
    /\ Idle(t) /\ Session(t)
    /\ Cardinality(Leaves(db)) < MaxLeaves /\ Len(db.nodes) < MaxNodes
    /\ LET r == TaskRegister(AddLeaf(db, 1), Len(db.nodes) + 1, 1)
       IN  /\ ThresholdRollsUp(r, 1) => CanPushUp(r, 1)
           /\ db' = EnterClearing(r, 1)
    /\ Drive(t)

Executed(round, missed) == [round EXCEPT !.done = TRUE, !.focus = missed]

\* mutant: the task stays in the queue
CommitDoneKeepsTask(d, q, missed) ==
    [d EXCEPT !.chains[q.chain].rounds[q.item][q.round] = Executed(@, missed)]

\* remove_by_id drops q wherever it stands: q is the head, and is queued once
\* (QueueHoldsOpenHeads).
CommitDone(d, q, missed) ==
    [d EXCEPT
        !.chains[q.chain].rounds[q.item][q.round] = Executed(@, missed),
        !.queue = Tail(@)]

\* A task that is DONE already is left alone (no write, no driver).
ExecutorCommitReviewTask(t, missed) ==
    /\ Idle(t) /\ Session(t)
    /\ db.queue # <<>>
    /\ LET q == Head(db.queue)
           round == db.chains[q.chain].rounds[q.item][q.round]
           d == CommitDone(db, q, missed)
       IN  /\ ~round.done
           /\ missed \subseteq round.input
           /\ missed # {} => q.round <= MaxRounds
           /\ ~ClearingCycleFails(d)
           /\ db' \in ClearingCycle(d)
    /\ Drive(t)

\* mark_deleted is idempotent; the driver runs either way
DeleteRecallPoint(t, r) ==
    /\ Idle(t) /\ Session(t)
    /\ db' = [db EXCEPT !.deleted = @ \cup {r}]
    /\ Drive(t)

\* With a parent pending, or nothing to roll up, the session is rolled back.
ManualRollUp(t, i) ==
    /\ Idle(t) /\ Session(t)
    /\ db.queue = <<>>
    /\ db.layers[i].pending = None
    /\ db.layers[i].agg # <<>>
    /\ CanPushUp(db, i)
    /\ RoomToRollUp(db, i)
    /\ db' = PhaseA(db, i, "MANUAL_DRAIN")
    /\ Drive(t)

\* no scheduling effect: set_layer_config does not run the driver
SetLayerConfig(t, i, cfg) ==
    /\ Idle(t) /\ Session(t)
    /\ db' = LET d == [db EXCEPT !.config[i] = cfg]
             IN  IF i \in LayerIds(db) THEN SetLayer(d, i, Configured(db.layers[i], cfg)) ELSE d
    /\ UNCHANGED fuel

SetRollUpStrategy(t, strategy) ==
    /\ Idle(t) /\ Session(t)
    /\ db' = [db EXCEPT !.strategy = strategy]
    /\ Drive(t)

-----------------------------------------------------------------------------
(* The driver: one session per iteration, first match wins.                *)

Burn(t) == fuel' = [fuel EXCEPT ![t] = @ - 1]
Stop(t) == fuel' = [fuel EXCEPT ![t] = 0]

TriggerALayers(d) == {i \in InCycle(d, "DONE") : d.layers[i].quota = 1}

\* mutant: the loop returns after a roll-up
DriverRollUpReturns(t) ==
    /\ fuel[t] > 0 /\ Session(t)
    /\ db.queue = <<>> /\ InCycle(db, "ROLL_UP") # {}
    /\ ~ClearingCycleFails(db)
    /\ db' \in ClearingCycle(db)
    /\ Stop(t)

DriverRollUp(t) ==
    /\ fuel[t] > 0 /\ Session(t)
    /\ db.queue = <<>> /\ InCycle(db, "ROLL_UP") # {}
    /\ ~ClearingCycleFails(db)
    /\ db' \in ClearingCycle(db)
    /\ Burn(t)

\* phase B raises: the exception is swallowed and the loop returns
DriverFails(t) ==
    /\ fuel[t] > 0 /\ Session(t)
    /\ ClearingCycleFails(db)
    /\ UNCHANGED db
    /\ Stop(t)

DriverTriggerA(t) ==
    /\ fuel[t] > 0 /\ Session(t)
    /\ db.queue = <<>> /\ InCycle(db, "ROLL_UP") = {}
    /\ TriggerALayers(db) # {}
    /\ LET i == Lowest(TriggerALayers(db))
       IN  \E e \in TickResults(db, i) :
              db' = SetLayer(e, i, [e.layers[i] EXCEPT !.quota = 0])
    /\ Burn(t)

DriverClearing(t) ==
    /\ fuel[t] > 0 /\ Session(t)
    /\ db.queue = <<>> /\ InCycle(db, "ROLL_UP") = {}
    /\ TriggerALayers(db) = {}
    /\ Tickable(db) # {}
    /\ db' \in ClearingCycle(db)
    /\ Burn(t)

\* mutant: layers in CLEARING are not looked for
DriverStopsEarly(t) ==
    /\ fuel[t] > 0 /\ Session(t)
    /\ \/ db.queue # <<>>
       \/ InCycle(db, "ROLL_UP") = {} /\ TriggerALayers(db) = {}
    /\ UNCHANGED db
    /\ Stop(t)

DriverStops(t) ==
    /\ fuel[t] > 0 /\ Session(t)
    /\ \/ db.queue # <<>>
       \/ InCycle(db, "ROLL_UP") = {} /\ TriggerALayers(db) = {} /\ Tickable(db) = {}
    /\ UNCHANGED db
    /\ Stop(t)

\* begin_session raises because a session of another thread is open: the error
\* leaves the loop, although the call's own session has committed.
DriverConflict(t) ==
    /\ fuel[t] > 0
    /\ open \ {t} # {}
    /\ UNCHANGED <<db, open>>
    /\ Stop(t)

DriverStep(t) ==
    DriverRollUp(t) \/ DriverFails(t) \/ DriverTriggerA(t) \/ DriverClearing(t) \/ DriverStops(t)

Request(t) ==
    \/ \E k \in 1 .. MaxItems : SubmitLearningTask(t, k)
    \/ CollectRecallPoint(t)
    \/ \E missed \in SUBSET RecallPoints(db) : ExecutorCommitReviewTask(t, missed)
    \/ \E r \in RecallPoints(db) : DeleteRecallPoint(t, r)
    \/ \E i \in LayerIds(db) : ManualRollUp(t, i)
    \/ \E i \in 1 .. MaxLayers, cfg \in LayerConfigs : SetLayerConfig(t, i, cfg)
    \/ \E s \in Strategies : SetRollUpStrategy(t, s)

Next ==
    \E t \in Threads :
        OpenSession(t) \/ EndSession(t) \/ Request(t) \/ DriverStep(t) \/ DriverConflict(t)

Spec == Init /\ [][Next]_vars

-----------------------------------------------------------------------------
(* Types.                                                                  *)

RecallPoint == Nat \X Nat
Round == [input: SUBSET RecallPoint, done: BOOLEAN, focus: SUBSET RecallPoint]
TaskId == [chain: Nat, item: Nat, round: Nat]

NodeType ==
    [parent: Nat, kids: Seq(Nat), items: SUBSET RecallPoint,
     by: {"SUBMIT", "MANUAL_DRAIN", "THRESHOLD_DRAIN"}]

ChainType ==
    [node: Nat, layer: Nat, seed: SUBSET RecallPoint, items: Seq(ItemKinds),
     head: Nat, rounds: Seq(Seq(Round))]

LayerType ==
    [managed: SUBSET Nat, agg: Seq(Nat), kNode: Nat \ {0}, kPoint: Nat \ {0},
     cycle: CycleStates, pending: Nat, quota: {0, 1}]

StoreType ==
    [nodes: Seq(NodeType), chains: Seq(ChainType), queue: Seq(TaskId),
     deleted: SUBSET RecallPoint, layers: Seq(LayerType),
     config: [1 .. MaxLayers -> LayerConfig], strategy: Strategies]

\* The store and the drivers hold values of the shapes the models declare.
TypeOK ==
    /\ db \in StoreType
    /\ fuel \in [Threads -> 0 .. MaxIterations]
    /\ open = {} \/ \E t \in Threads : open = {t}

-----------------------------------------------------------------------------
(* Safety.                                                                 *)

\* Q1/Q2 (_validate_commit_q1_q2), and more than the commit checks: what is
\* queued is the open last round at the head of a managed chain, one task per
\* chain.  So no commit is ever refused for the queue, and executing the queue
\* moves every chain that is in it.
QueueHoldsOpenHeads ==
    /\ \A j, k \in DOMAIN db.queue : j # k => db.queue[j].chain # db.queue[k].chain
    /\ \A j \in DOMAIN db.queue :
          LET q == db.queue[j]
              chain == db.chains[q.chain]
          IN  /\ q.chain \in ChainIds(db)
              /\ q.chain \in db.layers[chain.layer].managed
              /\ q.item = chain.head
              /\ q.round = Len(chain.rounds[q.item])
              /\ RoundOpen(chain, q.item)

\* A convergence round that was produced and not executed is in the queue: no
\* review is lost between production and execution, and with an empty queue no
\* chain reports BLOCKED and no tick is gated (the gate claim of spec 4.3.6).
OpenRoundsAreQueued ==
    \A c \in ChainIds(db) : \A j \in DOMAIN db.chains[c].items :
        db.chains[c].items[j] = "CONVERGENCE" /\ RoundOpen(db.chains[c], j)
            => \E k \in DOMAIN db.queue : db.queue[k].chain = c /\ db.queue[k].item = j

\* The queue is exactly the work to do, although ticks fill it for many chains at
\* once and points are deleted meanwhile (api.py:5602-5734, 6482-6591).
QueueIsExact == QueueHoldsOpenHeads /\ OpenRoundsAreQueued

\* A chain is managed by its own layer exactly while it has work left
\* (_validate_commit_entry_registry_and_management, both directions).
ManagedIffUnfinished ==
    \A c \in ChainIds(db), i \in LayerIds(db) :
        c \in db.layers[i].managed
            <=> db.chains[c].layer = i /\ db.chains[c].head <= Len(db.chains[c].items)

\* At most one layer waits for phase B, and nothing is queued meanwhile: the
\* registration of the parent is never mixed with ticks of the old layer.
RollUpIsExclusive ==
    /\ \A i, j \in InCycle(db, "ROLL_UP") : i = j
    /\ InCycle(db, "ROLL_UP") # {} => db.queue = <<>>

\* Every learning task node is in exactly one place: below a parent, waiting in
\* an aggregation queue, or pending in a roll-up.  A node in no place would
\* never be rolled up, a node in two would be reviewed twice on one layer.
EveryNodeHasOnePlace ==
    \A n \in NodeIds(db) :
        LET above == {m \in NodeIds(db) : n \in SeqRange(db.nodes[m].kids)}
            waiting == UNION {{i} \X {j \in DOMAIN db.layers[i].agg : db.layers[i].agg[j] = n} :
                                 i \in LayerIds(db)}
            pending == {i \in LayerIds(db) : db.layers[i].pending = n}
        IN  /\ Cardinality(above) + Cardinality(waiting) + Cardinality(pending) = 1
            /\ above = IF db.nodes[n].parent = None THEN {} ELSE {db.nodes[n].parent}

ChainFinished(c) == db.chains[c].head > Len(db.chains[c].items)

\* The point of CLEARING: a parent is registered on the upper layer (or about
\* to be) only when the chain of every child it took over is finished.
RollUpAfterReview ==
    \A p \in NodeIds(db) :
        \/ \E c \in ChainIds(db) : db.chains[c].node = p
        \/ \E i \in InCycle(db, "ROLL_UP") : db.layers[i].pending = p
        => \A n \in SeqRange(db.nodes[p].kids) :
              \E c \in ChainIds(db) : db.chains[c].node = n /\ ChainFinished(c)

\* What a convergence promises: when a chain has moved past it, every recall
\* point of its seed was recalled in one of its rounds or has been deleted.
ConvergedMeansRecalled ==
    \A c \in ChainIds(db) : \A j \in DOMAIN db.chains[c].items :
        LET chain == db.chains[c]
        IN  chain.items[j] = "CONVERGENCE" /\ j < chain.head
              => \A r \in chain.seed \ db.deleted :
                    \E k \in DOMAIN chain.rounds[j] :
                        r \in chain.rounds[j][k].input \ chain.rounds[j][k].focus

\* The thresholds a layer was created with follow the project configuration.
ThresholdsMirrorConfig ==
    \A i \in LayerIds(db) :
        db.layers[i].kNode = db.config[i].kNode /\ db.layers[i].kPoint = db.config[i].kPoint

-----------------------------------------------------------------------------
(* Scheduling: when no call is running, no schedulable work is left.       *)

AllIdle == \A t \in Threads : Idle(t)

\* phase B of this layer raises each time it is tried
Stuck == \E i \in InCycle(db, "ROLL_UP") : PhaseBFails(db, i)

\* a layer outside a cycle whose last registration has not had its tick
AwaitsTick(i) == i \in TriggerALayers(db) /\ db.layers[i].managed # {}

WorkLeft ==
    db.queue = <<>> /\ ( \/ InCycle(db, "ROLL_UP") # {}
                         \/ Tickable(db) # {}
                         \/ \E i \in LayerIds(db) : AwaitsTick(i) )

\* When every call has returned, the scheduler has done all it can: work is left
\* only behind a phase B that cannot succeed.
SettledUnlessStuck == AllIdle /\ WorkLeft => Stuck

\* With several threads the last driver to run leaves work behind only when another
\* thread has the write lock at that moment (api.py:5933), whatever requests ran
\* between its iterations: a loop that ends by itself has found nothing to do.
RestsOnlyByConflict ==
    [][AllIdle' /\ ~AllIdle /\ WorkLeft' /\ ~Stuck'
          => \E t \in Threads : fuel[t] > 0 /\ open \ {t} # {}]_vars

-----------------------------------------------------------------------------
(* Liveness.  A driver loop that is running goes on (its thread is not     *)
(* preempted for ever), and the learner goes on reviewing: infinitely often*)
(* the head task is executed with every point recalled.  The second is an  *)
(* assumption about the user; without it a convergence rightly never ends. *)

Fairness ==
    /\ \A t \in Threads : WF_vars(DriverStep(t) \/ DriverConflict(t))
    /\ SF_vars(\E t \in Threads : ExecutorCommitReviewTask(t, {}))

FairSpec == Spec /\ Fairness

\* A layer that starts a roll-up finishes it, or phase B is stuck for good.
RollUpEnds ==
    \A i \in 1 .. MaxLayers :
        (i \in LayerIds(db) /\ db.layers[i].cycle # "DONE")
            ~> ((i \in LayerIds(db) /\ db.layers[i].cycle = "DONE") \/ Stuck)

\* Every chain that is registered gets its first round produced and executed.
EveryEntryIsReviewed ==
    \A c \in 1 .. MaxNodes :
        c \in ChainIds(db)
            ~> (\/ c \in ChainIds(db) /\ db.chains[c].rounds[1] # <<>> /\ db.chains[c].rounds[1][1].done
                \/ Stuck)

=============================================================================
