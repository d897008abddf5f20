------------------------- MODULE ReviewEngineProofs -------------------------
(***************************************************************************)
(* Theorems about ReviewEngine.                                            *)
(*                                                                         *)
(* IInv is the first inductive invariant: a store is Sound when the        *)
(* references between its layers, chains and nodes are in range and agree. *)
(* Each operation of the store has a lemma that it keeps a store sound,    *)
(* and with what it does to the queue, the layers and the chains, stated   *)
(* as a relation between the two stores (Registers, PushesUp, Ticks...).   *)
(*                                                                         *)
(* GInv is the second one, inductive relative to IInv: what is queued, what*)
(* was recalled, which chains are finished below a parent, and the place of*)
(* every node.  It needs no more of an operation than its relation.        *)
(***************************************************************************)
EXTENDS ReviewEngine, TLAPS, SequenceTheorems, FiniteSetTheorems, WellFoundedInduction

\* The chains of layer i that have work left.
Unfinished(d, i) ==
    {c \in ChainIds(d) : d.chains[c].layer = i /\ d.chains[c].head <= Len(d.chains[c].items)}

\* A layer manages its unfinished chains, refers to nodes that exist, follows the
\* configuration, and has room above it while a parent is pending.
SoundLayer(d, i, layer) ==
    /\ layer.managed = Unfinished(d, i)
    /\ SeqRange(layer.agg) \subseteq NodeIds(d)
    /\ layer.pending \in NodeIds(d) \cup {None}
    /\ layer.pending # None <=> layer.cycle # "DONE"
    /\ layer.pending # None => i < MaxLayers
    /\ layer.kNode = d.config[i].kNode /\ layer.kPoint = d.config[i].kPoint

\* A chain belongs to a node and a layer, has a list of rounds for each element, and its head
\* is on an element or just behind the last.
SoundChain(d, chain) ==
    /\ chain.node \in NodeIds(d) /\ chain.layer \in LayerIds(d)
    /\ Len(chain.rounds) = Len(chain.items)
    /\ chain.head \in 1 .. Len(chain.items) + 1

Configs == LayerConfigs \cup {DefaultConfig}

Sound(d) ==
    /\ d \in StoreType
    /\ Len(d.layers) \in 1 .. MaxLayers
    /\ \A i \in 1 .. MaxLayers : d.config[i] \in Configs
    /\ \A i \in LayerIds(d) : SoundLayer(d, i, d.layers[i])
    /\ \A c \in ChainIds(d) : SoundChain(d, d.chains[c])

\* At most one layer is in ROLL_UP, and nothing is queued while one is.
Exclusive(d) ==
    /\ \A i, j \in InCycle(d, "ROLL_UP") : i = j
    /\ InCycle(d, "ROLL_UP") # {} => d.queue = <<>>

\* The inductive invariant.
OneSession == open = {} \/ \E t \in Threads : open = {t}

IInv ==
    Sound(db) /\ Exclusive(db) /\ fuel \in [Threads -> 0 .. MaxIterations] /\ OneSession

\* What the operations do to a store d, as relations to the store r they leave.

KeepsReviews(d, r) == r.chains = d.chains /\ r.queue = d.queue /\ r.deleted = d.deleted

\* what a change of the settings, or a deletion, leaves as it was
SameWork(d, r) ==
    /\ r.nodes = d.nodes /\ r.chains = d.chains /\ r.queue = d.queue
    /\ d.deleted \subseteq r.deleted /\ LayerIds(r) = LayerIds(d)
    /\ \A j \in LayerIds(d) :
          /\ r.layers[j].agg = d.layers[j].agg
          /\ r.layers[j].pending = d.layers[j].pending
          /\ r.layers[j].cycle = d.layers[j].cycle

KeepsOtherLayers(d, r, i) ==
    LayerIds(r) = LayerIds(d) /\ \A k \in LayerIds(d) \ {i} : r.layers[k] = d.layers[k]

\* A layer takes over chain c and node n.
Takes(layer, new, c, n) ==
    /\ new.managed = layer.managed \cup {c} /\ new.agg = Append(layer.agg, n)
    /\ new.pending = layer.pending /\ new.cycle = layer.cycle

\* ... and is still a layer, with the thresholds it had
TakesWell(layer, new, c, n) ==
    /\ Takes(layer, new, c, n)
    /\ new \in LayerType /\ SeqRange(new.agg) = SeqRange(layer.agg) \cup {n}
    /\ new.kNode = layer.kNode /\ new.kPoint = layer.kPoint

\* Node n gets a new chain on layer i, and waits in its aggregation queue.
Registers(d, r, n, i) ==
    /\ r.nodes = d.nodes /\ r.queue = d.queue /\ r.deleted = d.deleted
    /\ ChainIds(r) = ChainIds(d) \cup {Len(d.chains) + 1}
    /\ \A c \in ChainIds(d) : r.chains[c] = d.chains[c]
    /\ r.chains[Len(d.chains) + 1] = NewChain(n, i, Covered(d, n), d.config[i].template)
    /\ KeepsOtherLayers(d, r, i)
    /\ Takes(d.layers[i], r.layers[i], Len(d.chains) + 1, n)

\* A node without children or parent is added.
AddsLeaf(d, r) ==
    LET n == Len(d.nodes) + 1
    IN  /\ KeepsReviews(d, r) /\ r.layers = d.layers
        /\ NodeIds(r) = NodeIds(d) \cup {n}
        /\ \A m \in NodeIds(d) : r.nodes[m] = d.nodes[m]
        /\ r.nodes[n].parent = None /\ r.nodes[n].kids = <<>>

\* The given nodes go below a new node p.
Lifts(d, nodes, kids, p) ==
    /\ \A n \in NodeIds(d) :
          /\ nodes[n].kids = d.nodes[n].kids /\ nodes[n].items = d.nodes[n].items
          /\ nodes[n].parent = IF n \in SeqRange(kids) THEN p ELSE d.nodes[n].parent
    /\ nodes[p].parent = None /\ nodes[p].kids = kids
    /\ nodes[p].items = UNION {d.nodes[n].items : n \in SeqRange(kids)}

\* The candidates of layer i go below a new node, which is pending in the layer.
PushesUp(d, r, i) ==
    LET p == Len(d.nodes) + 1
    IN  /\ KeepsReviews(d, r)
        /\ NodeIds(r) = NodeIds(d) \cup {p}
        /\ Lifts(d, r.nodes, d.layers[i].agg, p)
        /\ KeepsOtherLayers(d, r, i)
        /\ r.layers[i].agg = <<>> /\ r.layers[i].pending = p /\ r.layers[i].cycle = "CLEARING"

\* A chain moves to its next head, with one more round there if it produces one.
Steps(d, c, chain) ==
    LET old == d.chains[c]
        h == NextHead(d, c)
    IN  /\ chain.node = old.node /\ chain.layer = old.layer /\ chain.seed = old.seed
        /\ chain.items = old.items /\ chain.head = h /\ Len(chain.rounds) = Len(old.rounds)
        /\ \A j \in DOMAIN old.rounds :
              chain.rounds[j] = IF j = h /\ Produces(d, c)
                                THEN Append(old.rounds[j], NewRound(NextInput(d, c, j)))
                                ELSE old.rounds[j]

\* The chains that layer i manages step, and it drops those that are exhausted.
Ticks(d, r, i, queue) ==
    /\ r.nodes = d.nodes /\ r.deleted = d.deleted /\ r.queue = queue
    /\ ChainIds(r) = ChainIds(d)
    /\ \A c \in d.layers[i].managed : Steps(d, c, r.chains[c])
    /\ \A c \in ChainIds(d) \ d.layers[i].managed : r.chains[c] = d.chains[c]
    /\ KeepsOtherLayers(d, r, i)
    /\ r.layers[i].managed = StillManaged(d, i)
    /\ r.layers[i].agg = d.layers[i].agg /\ r.layers[i].pending = d.layers[i].pending
    /\ r.layers[i].cycle = d.layers[i].cycle

\* The round of task q gets its result.
Answers(old, chain, q, missed) ==
    /\ chain.node = old.node /\ chain.layer = old.layer /\ chain.seed = old.seed
    /\ chain.items = old.items /\ chain.head = old.head /\ Len(chain.rounds) = Len(old.rounds)
    /\ \A j \in DOMAIN old.rounds :
          chain.rounds[j] = IF j = q.item
                            THEN [old.rounds[j] EXCEPT ![q.round] = Executed(@, missed)]
                            ELSE old.rounds[j]

Executes(d, r, q, missed) ==
    /\ r.nodes = d.nodes /\ r.layers = d.layers /\ r.deleted = d.deleted
    /\ r.queue = Tail(d.queue)
    /\ ChainIds(r) = ChainIds(d)
    /\ \A c \in ChainIds(d) \ {q.chain} : r.chains[c] = d.chains[c]
    /\ Answers(d.chains[q.chain], r.chains[q.chain], q, missed)

-----------------------------------------------------------------------------
(* Sequences and numbers.                                                  *)

\* A function on 1 .. n is a sequence of length n.
LEMMA FunctionIsSeq ==
    ASSUME NEW S, NEW n \in Nat, NEW f \in [1 .. n -> S]
    PROVE  f \in Seq(S) /\ Len(f) = n /\ DOMAIN f = 1 .. n
BY SeqDef, LenProperties

\* A sequence is a function on 1 .. Len(s), and stays one when an element changes
\* or one is appended.
LEMMA SeqIsFunction ==
    ASSUME NEW S, NEW s \in Seq(S)
    PROVE  /\ Len(s) \in Nat /\ DOMAIN s = 1 .. Len(s)
           /\ \A j \in DOMAIN s : s[j] \in S
           /\ \A e \in S : /\ Append(s, e) \in Seq(S)
                           /\ Len(Append(s, e)) = Len(s) + 1
                           /\ DOMAIN Append(s, e) = 1 .. Len(s) + 1
                           /\ Append(s, e)[Len(s) + 1] = e
                           /\ \A j \in DOMAIN s : Append(s, e)[j] = s[j]
           /\ \A e \in S, j \in DOMAIN s : /\ [s EXCEPT ![j] = e] \in Seq(S)
                                           /\ Len([s EXCEPT ![j] = e]) = Len(s)
BY LenProperties, ElementOfSeq, AppendProperties, ExceptSeq

\* Lowest picks the least element.
LEMMA LowestIsLeast ==
    ASSUME NEW S \in SUBSET Nat, S # {}
    PROVE  Lowest(S) \in S /\ \A j \in S : Lowest(S) <= j
<1> DEFINE T == {0 .. j : j \in S}
<1>1. T # {} /\ T \subseteq FiniteSubsetsOf(Nat)
  <2>1. \A j \in S : IsFiniteSet(0 .. j) /\ 0 .. j \subseteq Nat
    BY FS_Interval
  <2> QED
    BY <2>1 DEF FiniteSubsetsOf
<1>2. \E x \in T : \A y \in T : <<y, x>> \notin StrictSubsetOrdering(Nat)
  BY <1>1, WFMin, FS_StrictSubsetOrderingWellFounded
<1>3. PICK i \in S : \A j \in S : <<0 .. j, 0 .. i>> \notin StrictSubsetOrdering(Nat)
  BY <1>2
<1>4. ASSUME NEW j \in S, j < i PROVE FALSE
  <2>1. 0 .. j \in SUBSET Nat /\ 0 .. i \in SUBSET Nat /\ 0 .. j \subseteq 0 .. i /\ 0 .. j # 0 .. i
    <3>1. i \in 0 .. i /\ i \notin 0 .. j
      BY <1>4
    <3> QED
      BY <3>1, <1>4
  <2>2. <<0 .. j, 0 .. i>> \in StrictSubsetOrdering(Nat)
    BY <2>1, Zenon DEF StrictSubsetOrdering
  <2> QED
    BY <2>2, <1>3
<1>5. \A j \in S : i <= j
  BY <1>4
<1> QED
  BY <1>5 DEF Lowest

LEMMA Bounds == {MaxIterations, MaxLeaves, MaxItems, MaxNodes, MaxLayers} \subseteq Nat \ {0}
BY BoundAssumption

-----------------------------------------------------------------------------
(* Reading and writing a store.                                            *)

\* The parts of a well-typed store.
LEMMA Parts ==
    ASSUME NEW d \in StoreType
    PROVE  /\ d.nodes \in Seq(NodeType) /\ d.chains \in Seq(ChainType) /\ d.layers \in Seq(LayerType)
           /\ d.queue \in Seq(TaskId) /\ d.deleted \in SUBSET RecallPoint
           /\ d.config \in [1 .. MaxLayers -> LayerConfig] /\ d.strategy \in Strategies
           /\ NodeIds(d) = 1 .. Len(d.nodes) /\ ChainIds(d) = 1 .. Len(d.chains)
           /\ LayerIds(d) = 1 .. Len(d.layers)
           /\ Len(d.nodes) \in Nat /\ Len(d.chains) \in Nat /\ Len(d.layers) \in Nat
           /\ \A n \in NodeIds(d) : d.nodes[n] \in NodeType /\ Covered(d, n) \in SUBSET RecallPoint
           /\ \A c \in ChainIds(d) : d.chains[c] \in ChainType
           /\ \A i \in LayerIds(d) : d.layers[i] \in LayerType
<1>1. /\ d.nodes \in Seq(NodeType) /\ d.chains \in Seq(ChainType) /\ d.layers \in Seq(LayerType)
      /\ d.queue \in Seq(TaskId) /\ d.deleted \in SUBSET RecallPoint
      /\ d.config \in [1 .. MaxLayers -> LayerConfig] /\ d.strategy \in Strategies
  BY DEF StoreType
<1>2. /\ NodeIds(d) = 1 .. Len(d.nodes) /\ ChainIds(d) = 1 .. Len(d.chains)
      /\ LayerIds(d) = 1 .. Len(d.layers)
      /\ Len(d.nodes) \in Nat /\ Len(d.chains) \in Nat /\ Len(d.layers) \in Nat
  BY <1>1, LenProperties DEF NodeIds, ChainIds, LayerIds
<1>3. /\ \A n \in NodeIds(d) : d.nodes[n] \in NodeType
      /\ \A c \in ChainIds(d) : d.chains[c] \in ChainType
      /\ \A i \in LayerIds(d) : d.layers[i] \in LayerType
  BY <1>1, <1>2, ElementOfSeq
<1>4. \A n \in NodeIds(d) : Covered(d, n) \in SUBSET RecallPoint
  BY <1>3 DEF Covered, NodeType
<1> QED
  BY <1>1, <1>2, <1>3, <1>4

\* SetLayer changes one layer.
LEMMA SetLayerFacts ==
    ASSUME NEW d \in StoreType, NEW i \in LayerIds(d), NEW layer \in LayerType
    PROVE  LET r == SetLayer(d, i, layer)
           IN  /\ r \in StoreType
               /\ r.nodes = d.nodes /\ r.chains = d.chains /\ r.queue = d.queue
               /\ r.deleted = d.deleted /\ r.config = d.config /\ r.strategy = d.strategy
               /\ NodeIds(r) = NodeIds(d) /\ ChainIds(r) = ChainIds(d)
               /\ LayerIds(r) = LayerIds(d) /\ Len(r.layers) = Len(d.layers)
               /\ r.layers[i] = layer
               /\ \A j \in LayerIds(d) \ {i} : r.layers[j] = d.layers[j]
<1> DEFINE layers == [d.layers EXCEPT ![i] = layer]
<1>1. d.layers \in Seq(LayerType) /\ i \in DOMAIN d.layers
  BY DEF StoreType, LayerIds
<1>2. layers \in Seq(LayerType) /\ Len(layers) = Len(d.layers) /\ DOMAIN layers = DOMAIN d.layers
  BY <1>1, SeqIsFunction
<1>3. layers[i] = layer /\ \A j \in LayerIds(d) \ {i} : layers[j] = d.layers[j]
  BY <1>1 DEF LayerIds
<1> HIDE DEF layers
<1>4. SetLayer(d, i, layer) = [d EXCEPT !.layers = layers]
  BY DEF SetLayer, layers
<1> QED
  BY <1>2, <1>3, <1>4 DEF StoreType, NodeIds, ChainIds, LayerIds

\* A store stays sound when one layer is replaced by a sound one.
LEMMA SetLayerSound ==
    ASSUME NEW d, Sound(d), NEW i \in LayerIds(d), NEW layer \in LayerType, SoundLayer(d, i, layer)
    PROVE  Sound(SetLayer(d, i, layer))
<1> DEFINE r == SetLayer(d, i, layer)
<1>0. d \in StoreType
  BY DEF Sound
<1>1. /\ r \in StoreType /\ r.chains = d.chains /\ r.config = d.config
      /\ NodeIds(r) = NodeIds(d) /\ ChainIds(r) = ChainIds(d)
      /\ LayerIds(r) = LayerIds(d) /\ Len(r.layers) = Len(d.layers)
      /\ r.layers[i] = layer
      /\ \A j \in LayerIds(d) \ {i} : r.layers[j] = d.layers[j]
  BY <1>0, SetLayerFacts
<1> HIDE DEF r
<1>2. \A j \in LayerIds(r) : SoundLayer(r, j, r.layers[j])
  BY <1>1 DEF Sound, SoundLayer, Unfinished
<1>3. \A c \in ChainIds(r) : SoundChain(r, r.chains[c])
  BY <1>1 DEF Sound, SoundChain
<1> QED
  BY <1>1, <1>2, <1>3 DEF Sound, r

-----------------------------------------------------------------------------
(* Task register.                                                          *)

LEMMA ConfigFacts ==
    ASSUME NEW d, Sound(d), NEW i \in LayerIds(d)
    PROVE  /\ i \in 1 .. MaxLayers /\ d.config[i] \in LayerConfig
           /\ d.config[i].template \in Seq(ItemKinds) /\ Len(d.config[i].template) \in Nat \ {0}
           /\ d.config[i].kNode \in Nat \ {0} /\ d.config[i].kPoint \in Nat \ {0}
<1>1. i \in 1 .. MaxLayers
  BY Parts, Bounds DEF Sound
<1>2. d.config[i] \in Configs
  BY <1>1 DEF Sound
<1>3. d.config[i] \in LayerConfig /\ \E j \in DOMAIN d.config[i].template : TRUE
  BY <1>2, ConfigAssumption DEF Configs
<1>4. d.config[i].template \in Seq(ItemKinds)
  BY <1>3 DEF LayerConfig
<1>5. Len(d.config[i].template) \in Nat \ {0}
  BY <1>3, <1>4, SeqIsFunction
<1> QED
  BY <1>1, <1>3, <1>4, <1>5 DEF LayerConfig

\* A new chain starts at its first element.
LEMMA NewChainFacts ==
    ASSUME NEW n \in Nat, NEW i \in Nat, NEW seed \in SUBSET RecallPoint,
           NEW template \in Seq(ItemKinds)
    PROVE  LET chain == NewChain(n, i, seed, template)
           IN  /\ chain \in ChainType
               /\ chain.node = n /\ chain.layer = i /\ chain.items = template /\ chain.head = 1
               /\ Len(chain.rounds) = Len(chain.items)
<1> DEFINE lists == [j \in DOMAIN template |->
                        IF template[j] = "REVIEW_TASK" THEN <<NewRound(seed)>> ELSE <<>>]
<1>1. NewRound(seed) \in Round
  BY DEF NewRound, Round
<1>2. <<NewRound(seed)>> \in Seq(Round) /\ <<>> \in Seq(Round)
  BY <1>1
<1>3. Len(template) \in Nat /\ DOMAIN template = 1 .. Len(template)
  BY SeqIsFunction
<1>4. lists \in [1 .. Len(template) -> Seq(Round)]
  BY <1>2, <1>3
<1>5. lists \in Seq(Seq(Round)) /\ Len(lists) = Len(template)
  BY <1>3, <1>4, FunctionIsSeq
<1> HIDE DEF lists
<1>6. NewChain(n, i, seed, template) =
          [node |-> n, layer |-> i, seed |-> seed, items |-> template, head |-> 1, rounds |-> lists]
  BY DEF NewChain, lists
<1> QED
  BY <1>5, <1>6 DEF ChainType

LEMMA AppendRange ==
    ASSUME NEW S, NEW s \in Seq(S), NEW e \in S
    PROVE  SeqRange(Append(s, e)) = SeqRange(s) \cup {e}
<1> DEFINE r == Append(s, e)  n == Len(s) + 1
<1>1. /\ Len(s) \in Nat /\ DOMAIN s = 1 .. Len(s) /\ DOMAIN r = 1 .. n
      /\ r[n] = e /\ \A j \in DOMAIN s : r[j] = s[j]
  BY SeqIsFunction
<1> HIDE DEF r
<1>2. DOMAIN r = DOMAIN s \cup {n}
  BY <1>1
<1>3. SeqRange(r) = SeqRange(s) \cup {e}
  <2>1. \A x : x \in SeqRange(r) <=> \E j \in DOMAIN r : x = r[j]
    BY DEF SeqRange
  <2>2. \A x : x \in SeqRange(s) <=> \E j \in DOMAIN s : x = s[j]
    BY DEF SeqRange
  <2> HIDE DEF n
  <2>3. \A x : x \in SeqRange(r) <=> x \in SeqRange(s) \/ x = e
    BY <1>1, <1>2, <2>1, <2>2, Zenon
  <2> QED
    BY <2>3
<1> QED
  BY <1>3 DEF r

LEMMA RegisteredFacts ==
    ASSUME NEW layer \in LayerType, NEW c \in Nat, NEW n \in Nat
    PROVE  TakesWell(layer, Registered(layer, c, n), c, n)
<1> DEFINE agg == Append(layer.agg, n)
           r == Registered(layer, c, n)
<1>1. layer.agg \in Seq(Nat)
  BY DEF LayerType
<1>2. agg \in Seq(Nat) /\ SeqRange(agg) = SeqRange(layer.agg) \cup {n}
  BY <1>1, SeqIsFunction, AppendRange
<1> HIDE DEF agg
<1>3. r = [layer EXCEPT !.managed = layer.managed \cup {c}, !.agg = agg, !.quota = 1]
  BY DEF Registered, agg
<1>4. layer.managed \cup {c} \in SUBSET Nat
  BY DEF LayerType
<1>5. /\ r.managed = layer.managed \cup {c} /\ r.agg = agg /\ r.quota = 1
      /\ r.pending = layer.pending /\ r.cycle = layer.cycle
      /\ r.kNode = layer.kNode /\ r.kPoint = layer.kPoint
  BY <1>3 DEF LayerType
<1>6. r \in LayerType
  BY <1>2, <1>3, <1>4 DEF LayerType
<1> QED
  BY <1>2, <1>5, <1>6 DEF agg, Takes, TakesWell

\* The node and the layer of a registration exist afterwards as before; the new
\* chain is managed by the layer and the node waits in its aggregation queue.
LEMMA TaskRegisterSound ==
    ASSUME NEW d, Sound(d), NEW n \in NodeIds(d), NEW i \in LayerIds(d)
    PROVE  LET r == TaskRegister(d, n, i)
           IN  /\ Sound(r)
               /\ r.nodes = d.nodes /\ r.queue = d.queue /\ r.config = d.config
               /\ NodeIds(r) = NodeIds(d) /\ LayerIds(r) = LayerIds(d)
               /\ r.layers[i].cycle = d.layers[i].cycle /\ r.layers[i].pending = d.layers[i].pending
               /\ \A j \in LayerIds(d) \ {i} : r.layers[j] = d.layers[j]
               /\ Registers(d, r, n, i)
<1> DEFINE chain == NewChain(n, i, Covered(d, n), d.config[i].template)
           c0 == Len(d.chains) + 1
           w == WithChain(d, n, i)
           layer == Registered(d.layers[i], c0, n)
           r == TaskRegister(d, n, i)
<1>1. d \in StoreType /\ n \in Nat /\ i \in Nat /\ Len(d.chains) \in Nat
  BY Parts DEF Sound
<1>2. /\ chain \in ChainType
      /\ chain.node = n /\ chain.layer = i /\ chain.head = 1
      /\ Len(chain.rounds) = Len(chain.items) /\ Len(chain.items) \in Nat \ {0}
  <2>1. Covered(d, n) \in SUBSET RecallPoint
    BY <1>1, Parts
  <2> QED
    BY <1>1, <2>1, ConfigFacts, NewChainFacts
<1> HIDE DEF chain
<1>3. w = [d EXCEPT !.chains = Append(d.chains, chain)]
  BY DEF WithChain, chain
<1>4. /\ Append(d.chains, chain) \in Seq(ChainType)
      /\ DOMAIN Append(d.chains, chain) = 1 .. c0
      /\ Append(d.chains, chain)[c0] = chain
      /\ \A c \in ChainIds(d) : Append(d.chains, chain)[c] = d.chains[c]
  BY <1>1, <1>2, Parts, SeqIsFunction DEF ChainIds
<1>5. /\ w \in StoreType /\ w.nodes = d.nodes /\ w.layers = d.layers /\ w.queue = d.queue
      /\ w.config = d.config /\ w.deleted = d.deleted /\ w.chains = Append(d.chains, chain)
      /\ NodeIds(w) = NodeIds(d) /\ LayerIds(w) = LayerIds(d) /\ ChainIds(w) = 1 .. c0
  BY <1>1, <1>3, <1>4 DEF StoreType, NodeIds, LayerIds, ChainIds
<1> HIDE DEF w
<1>6. /\ layer \in LayerType
      /\ Takes(d.layers[i], layer, c0, n)
      /\ layer.managed = d.layers[i].managed \cup {c0}
      /\ SeqRange(layer.agg) = SeqRange(d.layers[i].agg) \cup {n}
      /\ layer.pending = d.layers[i].pending /\ layer.cycle = d.layers[i].cycle
      /\ layer.kNode = d.layers[i].kNode /\ layer.kPoint = d.layers[i].kPoint
  <2> DEFINE old == d.layers[i]
  <2>1. old \in LayerType /\ c0 \in Nat /\ n \in Nat
    BY <1>1, Parts
  <2> HIDE DEF old, c0
  <2>2. TakesWell(old, Registered(old, c0, n), c0, n)
    BY <2>1, RegisteredFacts
  <2>3. TakesWell(old, layer, c0, n)
    BY <2>2 DEF old
  <2> HIDE DEF layer
  <2> QED
    BY <2>3 DEF old, Takes, TakesWell
<1> HIDE DEF layer
<1>8. r = SetLayer(w, i, layer)
  BY DEF TaskRegister, w, layer
<1>9. /\ r \in StoreType /\ r.nodes = d.nodes /\ r.queue = d.queue /\ r.config = d.config
      /\ r.chains = w.chains /\ r.deleted = d.deleted
      /\ NodeIds(r) = NodeIds(d) /\ LayerIds(r) = LayerIds(d) /\ ChainIds(r) = 1 .. c0
      /\ Len(r.layers) = Len(d.layers)
      /\ r.layers[i] = layer
      /\ \A j \in LayerIds(d) \ {i} : r.layers[j] = d.layers[j]
  BY <1>5, <1>6, <1>8, SetLayerFacts
<1> HIDE DEF r
<1>10. /\ ChainIds(r) = ChainIds(d) \cup {c0} /\ c0 \notin ChainIds(d)
       /\ r.chains[c0] = chain /\ \A c \in ChainIds(d) : r.chains[c] = d.chains[c]
  BY SMTT(40), <1>1, <1>4, <1>5, <1>9, Parts
<1>11. /\ Unfinished(r, i) = Unfinished(d, i) \cup {c0}
       /\ \A j \in LayerIds(d) \ {i} : Unfinished(r, j) = Unfinished(d, j)
  BY SMTT(40), <1>2, <1>10 DEF Unfinished
<1>12. SoundLayer(r, i, layer)
  BY <1>6, <1>9, <1>11 DEF Sound, SoundLayer
<1>13. ASSUME NEW j \in LayerIds(d), j # i PROVE SoundLayer(r, j, r.layers[j])
  <2>1. SoundLayer(d, j, d.layers[j]) /\ r.layers[j] = d.layers[j]
    BY <1>9, <1>13 DEF Sound
  <2> QED
    BY <1>9, <1>11, <1>13, <2>1 DEF SoundLayer
<1>14. SoundChain(r, chain)
  BY <1>2, <1>9 DEF SoundChain
<1>15. \A c \in ChainIds(r) : SoundChain(r, r.chains[c])
  BY <1>9, <1>10, <1>14 DEF Sound, SoundChain
<1>16. Sound(r)
  BY <1>9, <1>12, <1>13, <1>15 DEF Sound
<1>17. Registers(d, r, n, i)
  BY <1>6, <1>9, <1>10 DEF Registers, KeepsOtherLayers, c0, chain
<1> QED
  BY <1>6, <1>9, <1>16, <1>17 DEF r

-----------------------------------------------------------------------------
(* Nodes and layers are added.                                             *)

LEMMA NodesSound ==
    ASSUME NEW d, Sound(d), NEW nodes \in Seq(NodeType), Len(nodes) >= Len(d.nodes)
    PROVE  LET r == [d EXCEPT !.nodes = nodes]
           IN  /\ Sound(r)
               /\ r.nodes = nodes /\ NodeIds(r) = 1 .. Len(nodes)
               /\ r.layers = d.layers /\ KeepsReviews(d, r)
               /\ r.config = d.config /\ LayerIds(r) = LayerIds(d)
<1> DEFINE r == [d EXCEPT !.nodes = nodes]
<1>1. d \in StoreType /\ NodeIds(d) = 1 .. Len(d.nodes) /\ Len(d.nodes) \in Nat
  BY Parts DEF Sound
<1>2. Len(nodes) \in Nat /\ DOMAIN nodes = 1 .. Len(nodes)
  BY SeqIsFunction
<1>3. /\ r \in StoreType /\ r.nodes = nodes /\ r.layers = d.layers /\ r.queue = d.queue
      /\ r.chains = d.chains /\ r.config = d.config /\ r.deleted = d.deleted
  BY <1>1 DEF StoreType
<1> HIDE DEF r
<1>4. /\ NodeIds(r) = 1 .. Len(nodes) /\ LayerIds(r) = LayerIds(d) /\ ChainIds(r) = ChainIds(d)
  BY <1>2, <1>3 DEF NodeIds, LayerIds, ChainIds
<1>5. NodeIds(d) \subseteq NodeIds(r)
  BY <1>1, <1>2, <1>4
<1>6. ASSUME NEW j \in LayerIds(r) PROVE SoundLayer(r, j, r.layers[j])
  <2>1. SoundLayer(d, j, d.layers[j]) /\ r.layers[j] = d.layers[j]
    BY <1>3, <1>4, <1>6 DEF Sound
  <2>2. Unfinished(r, j) = Unfinished(d, j)
    BY <1>3, <1>4 DEF Unfinished
  <2> QED
    BY <1>3, <1>5, <2>1, <2>2 DEF SoundLayer
<1>7. \A c \in ChainIds(r) : SoundChain(r, r.chains[c])
  BY <1>3, <1>4, <1>5 DEF Sound, SoundChain
<1>8. Sound(r)
  BY <1>3, <1>6, <1>7 DEF Sound
<1> QED
  BY <1>3, <1>4, <1>8 DEF r, KeepsReviews

\* Pushing up keeps every node, but for the parent of the candidates, and adds one.
LEMMA PushUpFacts ==
    ASSUME NEW d \in StoreType, NEW kids \in Seq(Nat), SeqRange(kids) \subseteq NodeIds(d),
           NEW by \in {"SUBMIT", "MANUAL_DRAIN", "THRESHOLD_DRAIN"}
    PROVE  LET nodes == PushUp(d, kids, by)
               p == Len(d.nodes) + 1
           IN  nodes \in Seq(NodeType) /\ Len(nodes) = p /\ Lifts(d, nodes, kids, p)
<1> DEFINE p == Len(d.nodes) + 1
           below == [n \in NodeIds(d) |->
                        IF n \in SeqRange(kids) THEN [d.nodes[n] EXCEPT !.parent = p] ELSE d.nodes[n]]
           items == UNION {d.nodes[n].items : n \in SeqRange(kids)}
           top == [parent |-> None, kids |-> kids, by |-> by, items |-> items]
<1>1. /\ Len(d.nodes) \in Nat /\ NodeIds(d) = 1 .. Len(d.nodes)
      /\ \A n \in NodeIds(d) : d.nodes[n] \in NodeType
  BY Parts
<1>2. below \in [1 .. Len(d.nodes) -> NodeType]
  <2>1. ASSUME NEW n \in NodeIds(d) PROVE [d.nodes[n] EXCEPT !.parent = p] \in NodeType
    <3>1. d.nodes[n] \in NodeType /\ p \in Nat
      BY <1>1, <2>1
    <3> QED
      BY <3>1 DEF NodeType
  <2> QED
    BY <1>1, <2>1
<1>3. below \in Seq(NodeType) /\ Len(below) = Len(d.nodes)
  BY <1>1, <1>2, FunctionIsSeq
<1>4. items \in SUBSET RecallPoint
  <2>1. \A n \in SeqRange(kids) : d.nodes[n].items \in SUBSET RecallPoint
    BY <1>1 DEF NodeType
  <2> QED
    BY <2>1
<1>5. \A n \in NodeIds(d) :
         /\ below[n].kids = d.nodes[n].kids /\ below[n].items = d.nodes[n].items
         /\ below[n].parent = IF n \in SeqRange(kids) THEN p ELSE d.nodes[n].parent
  <2>1. ASSUME NEW n \in NodeIds(d)
        PROVE  LET node == [d.nodes[n] EXCEPT !.parent = p]
               IN  node.kids = d.nodes[n].kids /\ node.items = d.nodes[n].items /\ node.parent = p
    <3>1. d.nodes[n] \in NodeType
      BY <1>1, <2>1
    <3> QED
      BY <3>1 DEF NodeType
  <2> QED
    BY <2>1
<1> HIDE DEF below, items
<1>6. top \in NodeType
  BY <1>4 DEF NodeType, None
<1>7. top.parent = None /\ top.kids = kids /\ top.items = items
  OBVIOUS
<1>8. PushUp(d, kids, by) = Append(below, top)
  BY DEF PushUp, below, items
<1> HIDE DEF top
<1>9. /\ Append(below, top) \in Seq(NodeType) /\ Len(Append(below, top)) = p
      /\ \A n \in NodeIds(d) : Append(below, top)[n] = below[n]
      /\ Append(below, top)[p] = top
  BY <1>1, <1>3, <1>6, SeqIsFunction
<1>10. Lifts(d, Append(below, top), kids, p)
  BY <1>5, <1>7, <1>9, Zenon DEF Lifts, items
<1> QED
  BY <1>8, <1>9, <1>10

LEMMA DrainingFacts ==
    ASSUME NEW layer \in LayerType, NEW p \in Nat
    PROVE  LET r == Draining(layer, p)
           IN  /\ r \in LayerType
               /\ r.cycle = "CLEARING" /\ r.pending = p /\ r.agg = <<>>
               /\ r.managed = layer.managed /\ r.kNode = layer.kNode /\ r.kPoint = layer.kPoint
<1> DEFINE r == Draining(layer, p)
<1>1. "CLEARING" \in CycleStates /\ <<>> \in Seq(Nat)
  BY DEF CycleStates
<1>2. r = [layer EXCEPT !.agg = <<>>, !.pending = p, !.cycle = "CLEARING"]
  BY DEF Draining
<1>3. /\ r.cycle = "CLEARING" /\ r.pending = p /\ r.agg = <<>>
      /\ r.managed = layer.managed /\ r.kNode = layer.kNode /\ r.kPoint = layer.kPoint
  BY <1>2 DEF LayerType
<1>4. r \in LayerType
  BY <1>1, <1>2 DEF LayerType
<1> QED
  BY <1>3, <1>4

\* Phase A takes the candidates of one layer and leaves the others alone.
LEMMA PhaseASound ==
    ASSUME NEW d, Sound(d), NEW i \in LayerIds(d), i < MaxLayers,
           NEW by \in {"MANUAL_DRAIN", "THRESHOLD_DRAIN"}
    PROVE  LET r == PhaseA(d, i, by)
           IN  /\ Sound(r)
               /\ r.queue = d.queue /\ r.config = d.config /\ LayerIds(r) = LayerIds(d)
               /\ r.layers[i].cycle = "CLEARING"
               /\ \A j \in LayerIds(d) \ {i} : r.layers[j] = d.layers[j]
               /\ PushesUp(d, r, i)
<1> DEFINE old == d.layers[i]
           p == Len(d.nodes) + 1
           nodes == PushUp(d, old.agg, by)
           e == [d EXCEPT !.nodes = nodes]
           layer == Draining(old, p)
           r == PhaseA(d, i, by)
<1>1. /\ d \in StoreType /\ old \in LayerType /\ SoundLayer(d, i, old)
      /\ Len(d.nodes) \in Nat /\ p \in Nat \ {0}
  BY Parts DEF Sound
<1> HIDE DEF old
<1>2. nodes \in Seq(NodeType) /\ Len(nodes) = p /\ Lifts(d, nodes, old.agg, p)
  <2>1. old.agg \in Seq(Nat) /\ SeqRange(old.agg) \subseteq NodeIds(d)
    BY <1>1 DEF LayerType, SoundLayer
  <2> QED
    BY <1>1, <2>1, PushUpFacts
<1> HIDE DEF nodes
<1>3. /\ Sound(e) /\ e.layers = d.layers /\ KeepsReviews(d, e) /\ e.config = d.config
      /\ e.nodes = nodes
      /\ LayerIds(e) = LayerIds(d) /\ NodeIds(e) = 1 .. p /\ e \in StoreType
  <2>1. Len(nodes) >= Len(d.nodes)
    BY <1>1, <1>2
  <2>2. /\ Sound(e) /\ e.layers = d.layers /\ KeepsReviews(d, e) /\ e.config = d.config
        /\ e.nodes = nodes
        /\ LayerIds(e) = LayerIds(d) /\ NodeIds(e) = 1 .. Len(nodes)
    BY <1>2, <2>1, NodesSound
  <2> QED
    BY <1>2, <2>2 DEF Sound
<1> HIDE DEF e
<1>4. layer \in LayerType /\ layer.cycle = "CLEARING" /\ layer.pending = p /\ layer.agg = <<>>
      /\ layer.managed = old.managed /\ layer.kNode = old.kNode /\ layer.kPoint = old.kPoint
  BY <1>1, DrainingFacts
<1>5. SoundLayer(e, i, layer)
  <2>1. SoundLayer(e, i, old)
    BY <1>3 DEF Sound, old
  <2>2. SeqRange(<<>>) = {}
    BY DEF SeqRange
  <2>3. p \in NodeIds(e) /\ p # None
    BY <1>1, <1>3 DEF None
  <2> QED
    BY <1>4, <2>1, <2>2, <2>3 DEF SoundLayer
<1> HIDE DEF layer
<1>6. r = SetLayer(e, i, layer)
  BY Zenon DEF PhaseA, e, layer, nodes, old
<1>7. Sound(SetLayer(e, i, layer))
  BY <1>3, <1>4, <1>5, SetLayerSound
<1> HIDE DEF r
<1>8. /\ KeepsReviews(d, r) /\ r.config = d.config /\ LayerIds(r) = LayerIds(d)
      /\ r.nodes = nodes /\ NodeIds(r) = 1 .. p
      /\ r.layers[i] = layer
      /\ \A j \in LayerIds(d) \ {i} : r.layers[j] = d.layers[j]
  BY <1>3, <1>4, <1>6, SetLayerFacts DEF KeepsReviews
<1>9. NodeIds(r) = NodeIds(d) \cup {p}
  BY <1>1, <1>8, Parts
<1>10. PushesUp(d, r, i)
  BY <1>2, <1>4, <1>8, <1>9, Zenon DEF PushesUp, KeepsOtherLayers, old, p
<1> QED
  BY <1>4, <1>6, <1>7, <1>8, <1>10 DEF r, KeepsReviews

\* A layer that does not exist is appended, outside a cycle and without chains.
LEMMA EnsureLayerSound ==
    ASSUME NEW d, Sound(d), NEW i \in 1 .. Len(d.layers) + 1, i <= MaxLayers
    PROVE  LET r == EnsureLayer(d, i)
           IN  /\ Sound(r)
               /\ r.nodes = d.nodes /\ r.queue = d.queue /\ r.config = d.config
               /\ NodeIds(r) = NodeIds(d) /\ i \in LayerIds(r)
               /\ LayerIds(r) = LayerIds(d) \cup {i}
               /\ \A j \in LayerIds(d) : r.layers[j] = d.layers[j]
               /\ KeepsReviews(d, r)
               /\ i \notin LayerIds(d) => r.layers[i].agg = <<>> /\ r.layers[i].pending = None
                                          /\ r.layers[i].cycle = "DONE"
<1> DEFINE r == EnsureLayer(d, i)
           new == NewLayer(d.config[i])
           layers == Append(d.layers, new)
<1>1. /\ d \in StoreType /\ d.layers \in Seq(LayerType)
      /\ Len(d.layers) \in Nat /\ LayerIds(d) = 1 .. Len(d.layers) /\ MaxLayers \in Nat
  BY Parts, Bounds DEF Sound
<1>2. CASE i \in LayerIds(d)
  <2>1. r = d
    BY <1>2 DEF EnsureLayer
  <2> QED
    BY <1>2, <2>1 DEF KeepsReviews
<1>3. CASE i \notin LayerIds(d)
  <2>1. i = Len(d.layers) + 1 /\ i \in Nat /\ i \in 1 .. MaxLayers
    BY <1>1, <1>3
  <2>2. d.config[i].kNode \in Nat \ {0} /\ d.config[i].kPoint \in Nat \ {0}
    BY <2>1, ConfigAssumption DEF Sound, Configs, LayerConfig
  <2>3. /\ new \in LayerType /\ new.managed = {} /\ new.agg = <<>> /\ new.cycle = "DONE"
        /\ new.pending = None /\ new.kNode = d.config[i].kNode /\ new.kPoint = d.config[i].kPoint
    BY <2>2 DEF NewLayer, LayerType, CycleStates, None
  <2> HIDE DEF new
  <2>4. /\ layers \in Seq(LayerType) /\ Len(layers) = i /\ DOMAIN layers = 1 .. i /\ layers[i] = new
        /\ \A j \in LayerIds(d) : layers[j] = d.layers[j]
    BY <1>1, <2>1, <2>3, SeqIsFunction DEF LayerIds
  <2> HIDE DEF layers
  <2>5. r = [d EXCEPT !.layers = layers]
    BY <1>3 DEF EnsureLayer, layers, new
  <2> HIDE DEF r
  <2>6. /\ r \in StoreType /\ r.nodes = d.nodes /\ r.queue = d.queue /\ r.config = d.config
        /\ r.chains = d.chains /\ r.deleted = d.deleted /\ r.layers = layers
        /\ NodeIds(r) = NodeIds(d) /\ ChainIds(r) = ChainIds(d) /\ LayerIds(r) = 1 .. i
    BY <1>1, <2>4, <2>5 DEF StoreType, NodeIds, ChainIds, LayerIds
  <2>7. LayerIds(r) = LayerIds(d) \cup {i}
    BY <1>1, <2>1, <2>6
  <2>8. \A c \in ChainIds(r) : SoundChain(r, r.chains[c])
    BY <2>6, <2>7 DEF Sound, SoundChain
  <2>9. \A j \in Nat : Unfinished(r, j) = Unfinished(d, j)
    BY <2>6 DEF Unfinished
  <2>10. Unfinished(r, i) = {}
    BY <1>3, <2>1, <2>9 DEF Unfinished, Sound, SoundChain
  <2>11. SoundLayer(r, i, new)
    <3>1. SeqRange(<<>>) = {}
      BY DEF SeqRange
    <3> QED
      BY <2>3, <2>6, <2>10, <3>1 DEF SoundLayer
  <2>12. ASSUME NEW j \in LayerIds(d) PROVE SoundLayer(r, j, d.layers[j])
    <3>1. SoundLayer(d, j, d.layers[j]) /\ j \in Nat
      BY <1>1 DEF Sound
    <3>2. Unfinished(r, j) = Unfinished(d, j)
      BY <2>9, <3>1
    <3> QED
      BY <2>6, <3>1, <3>2 DEF SoundLayer
  <2>13. \A j \in LayerIds(r) : SoundLayer(r, j, r.layers[j])
    BY <2>4, <2>6, <2>7, <2>11, <2>12
  <2>14. Sound(r)
    BY <1>1, <2>1, <2>4, <2>6, <2>8, <2>13 DEF Sound
  <2> QED
    BY <2>3, <2>4, <2>6, <2>7, <2>14 DEF r, KeepsReviews
<1> QED
  BY <1>2, <1>3

\* Entering the aggregation cycle disturbs one layer only.
LEMMA EnterClearingSound ==
    ASSUME NEW d, Sound(d), NEW i \in LayerIds(d)
    PROVE  LET r == EnterClearing(d, i)
           IN  /\ Sound(r)
               /\ r.queue = d.queue /\ LayerIds(r) = LayerIds(d)
               /\ r.layers[i].cycle \in {d.layers[i].cycle, "CLEARING"}
               /\ \A j \in LayerIds(d) \ {i} : r.layers[j] = d.layers[j]
               /\ r = d \/ (d.layers[i].pending = None /\ PushesUp(d, r, i))
<1>1. CASE ThresholdRollsUp(d, i)
  <2>1. i < MaxLayers /\ d.layers[i].pending = None
    BY <1>1 DEF ThresholdRollsUp, RoomToRollUp
  <2> QED
    BY <1>1, <2>1, PhaseASound DEF EnterClearing
<1>2. CASE ~ThresholdRollsUp(d, i)
  BY <1>2 DEF EnterClearing
<1> QED
  BY <1>1, <1>2

LEMMA RolledUpFacts ==
    ASSUME NEW layer \in LayerType
    PROVE  LET r == RolledUp(layer)
           IN  /\ r \in LayerType
               /\ r.cycle = "DONE" /\ r.pending = None /\ r.agg = layer.agg
               /\ r.managed = layer.managed /\ r.kNode = layer.kNode /\ r.kPoint = layer.kPoint
<1> DEFINE r == RolledUp(layer)
<1>1. "DONE" \in CycleStates /\ None \in Nat
  BY DEF CycleStates, None
<1>2. r = [layer EXCEPT !.pending = None, !.cycle = "DONE"]
  BY DEF RolledUp
<1>3. /\ r.cycle = "DONE" /\ r.pending = None /\ r.agg = layer.agg
      /\ r.managed = layer.managed /\ r.kNode = layer.kNode /\ r.kPoint = layer.kPoint
  BY <1>2 DEF LayerType
<1>4. r \in LayerType
  BY <1>1, <1>2 DEF LayerType
<1> QED
  BY <1>3, <1>4

\* Phase B ends the cycle of its layer and adds no layer to ROLL_UP.
LEMMA PhaseBSound ==
    ASSUME NEW d, Sound(d), NEW i \in InCycle(d, "ROLL_UP")
    PROVE  LET r == PhaseB(d, i)
           IN  /\ Sound(r) /\ r.queue = d.queue
               /\ InCycle(r, "ROLL_UP") \subseteq InCycle(d, "ROLL_UP")
<1> DEFINE n == d.layers[i].pending
           e == EnsureLayer(d, i + 1)
           f == TaskRegister(e, n, i + 1)
           g == EnterClearing(f, i + 1)
           r == PhaseB(d, i)
<1>1. /\ d \in StoreType /\ i \in LayerIds(d) /\ d.layers[i].cycle = "ROLL_UP"
      /\ LayerIds(d) = 1 .. Len(d.layers) /\ Len(d.layers) \in Nat /\ MaxLayers \in Nat
      /\ d.layers[i] \in LayerType
  BY Parts, Bounds DEF Sound, InCycle
<1>2. n \in NodeIds(d) /\ i < MaxLayers
  BY <1>1 DEF Sound, SoundLayer
<1>3. i + 1 \in 1 .. Len(d.layers) + 1 /\ i + 1 <= MaxLayers /\ i # i + 1
  BY <1>1, <1>2
<1> HIDE DEF n
<1>4. /\ Sound(e) /\ e.queue = d.queue
      /\ NodeIds(e) = NodeIds(d) /\ i + 1 \in LayerIds(e)
      /\ LayerIds(e) = LayerIds(d) \cup {i + 1}
      /\ \A j \in LayerIds(d) : e.layers[j] = d.layers[j]
      /\ i + 1 \notin LayerIds(d) => e.layers[i + 1].cycle = "DONE"
  BY <1>3, EnsureLayerSound
<1> HIDE DEF e
<1>5. /\ Sound(f) /\ f.queue = d.queue /\ LayerIds(f) = LayerIds(e)
      /\ f.layers[i + 1].cycle = e.layers[i + 1].cycle
      /\ \A j \in LayerIds(e) \ {i + 1} : f.layers[j] = e.layers[j]
  BY <1>2, <1>4, TaskRegisterSound
<1> HIDE DEF f
<1>6. /\ Sound(g) /\ g.queue = d.queue /\ LayerIds(g) = LayerIds(e)
      /\ g.layers[i + 1].cycle \in {e.layers[i + 1].cycle, "CLEARING"}
      /\ \A j \in LayerIds(e) \ {i + 1} : g.layers[j] = e.layers[j]
  BY <1>4, <1>5, EnterClearingSound
<1> HIDE DEF g
<1>7. r = SetLayer(g, i, RolledUp(d.layers[i]))
  BY Zenon DEF PhaseB, RegisterParent, g, f, e, n
<1> DEFINE old == d.layers[i]
           layer == RolledUp(old)
<1>8. old = g.layers[i] /\ i \in LayerIds(g) /\ old \in LayerType
  BY <1>1, <1>3, <1>4, <1>6
<1>9. SoundLayer(g, i, old) /\ g \in StoreType
  BY <1>6, <1>8 DEF Sound
<1>10. layer \in LayerType /\ layer.cycle = "DONE" /\ SoundLayer(g, i, layer)
  <2> HIDE DEF old
  <2>1. /\ layer \in LayerType
        /\ layer.cycle = "DONE" /\ layer.pending = None /\ layer.agg = old.agg
        /\ layer.managed = old.managed /\ layer.kNode = old.kNode /\ layer.kPoint = old.kPoint
    BY <1>8, RolledUpFacts
  <2> QED
    BY <1>9, <2>1 DEF SoundLayer
<1> HIDE DEF layer
<1>11. Sound(SetLayer(g, i, layer))
  BY <1>6, <1>8, <1>10, SetLayerSound
<1>12. r = SetLayer(g, i, layer)
  BY <1>7 DEF layer
<1> HIDE DEF r
<1>13. /\ r.queue = d.queue /\ LayerIds(r) = LayerIds(e) /\ r.layers[i] = layer
       /\ \A j \in LayerIds(e) \ {i} : r.layers[j] = g.layers[j]
  BY <1>6, <1>8, <1>9, <1>10, <1>12, SetLayerFacts
<1>14. ASSUME NEW j \in InCycle(r, "ROLL_UP") PROVE j \in InCycle(d, "ROLL_UP")
  <2>1. j \in LayerIds(e) /\ r.layers[j].cycle = "ROLL_UP"
    BY <1>13 DEF InCycle
  <2>2. j # i /\ g.layers[j].cycle = "ROLL_UP"
    BY <1>10, <1>13, <2>1
  <2>3. e.layers[j].cycle = "ROLL_UP"
    BY <1>6, <2>1, <2>2
  <2>4. j \in LayerIds(d)
    BY <1>4, <2>1, <2>3
  <2> QED
    BY <1>4, <2>3, <2>4 DEF InCycle
<1> QED
  BY <1>11, <1>12, <1>13, <1>14 DEF r

-----------------------------------------------------------------------------
(* Ticks.                                                                  *)

\* The head moves forward, at most just behind the last element.
LEMMA NextHeadFacts ==
    ASSUME NEW d, Sound(d), NEW c \in ChainIds(d)
    PROVE  /\ NextHead(d, c) \in 1 .. Len(d.chains[c].items) + 1
           /\ Exhausted(d, c) <=> NextHead(d, c) > Len(d.chains[c].items)
           /\ ~Exhausted(d, c) => NextHead(d, c) \in 1 .. Len(d.chains[c].items)
           /\ NextHead(d, c) >= d.chains[c].head
           /\ \A j \in d.chains[c].head .. NextHead(d, c) - 1 : Finished(d, c, j)
           /\ ~Exhausted(d, c) => ~Finished(d, c, NextHead(d, c))
<1> DEFINE chain == d.chains[c]
           heads == {h \in chain.head .. Len(chain.items) + 1 :
                        h \in DOMAIN chain.items => ~Finished(d, c, h)}
<1>1. chain \in ChainType /\ SoundChain(d, chain)
  BY Parts DEF Sound
<1> HIDE DEF chain
<1>2. /\ Len(chain.items) \in Nat /\ DOMAIN chain.items = 1 .. Len(chain.items)
      /\ chain.head \in 1 .. Len(chain.items) + 1
  BY <1>1, SeqIsFunction DEF ChainType, SoundChain
<1>3. Len(chain.items) + 1 \in heads /\ heads \in SUBSET Nat
  BY <1>2
<1>4. Lowest(heads) \in heads /\ \A j \in heads : Lowest(heads) <= j
  BY <1>3, LowestIsLeast
<1>5. NextHead(d, c) = Lowest(heads)
  BY DEF NextHead, chain
<1>6. NextHead(d, c) \in chain.head .. Len(chain.items) + 1
  BY <1>4, <1>5
<1>7. Exhausted(d, c) <=> NextHead(d, c) > Len(chain.items)
  BY DEF Exhausted, chain
<1>8. /\ NextHead(d, c) \in 1 .. Len(chain.items) + 1
      /\ ~Exhausted(d, c) => NextHead(d, c) \in 1 .. Len(chain.items)
  BY <1>2, <1>6, <1>7
<1>9. ASSUME NEW j \in chain.head .. NextHead(d, c) - 1 PROVE Finished(d, c, j)
  <2>1. j \in DOMAIN chain.items /\ j \in chain.head .. Len(chain.items) + 1 /\ j < NextHead(d, c)
    BY <1>2, <1>6, <1>9
  <2>2. j \notin heads
    BY <1>2, <1>4, <1>5, <1>6, <2>1
  <2> QED
    BY <2>1, <2>2
<1>10. ~Exhausted(d, c) => ~Finished(d, c, NextHead(d, c))
  <2>1. NextHead(d, c) \in DOMAIN chain.items => ~Finished(d, c, NextHead(d, c))
    BY <1>4, <1>5
  <2> QED
    BY <1>2, <1>8, <2>1
<1>11. NextHead(d, c) >= chain.head
  BY <1>2, <1>6
<1> QED
  BY <1>7, <1>8, <1>9, <1>10, <1>11 DEF chain

\* A chain that steps keeps everything but its head and, at the new head, its rounds.
LEMMA StepChainFacts ==
    ASSUME NEW d, Sound(d), NEW c \in ChainIds(d)
    PROVE  LET chain == StepChain(d, c)
           IN  /\ chain \in ChainType
               /\ chain.node = d.chains[c].node /\ chain.layer = d.chains[c].layer
               /\ chain.items = d.chains[c].items /\ chain.head = NextHead(d, c)
               /\ Len(chain.rounds) = Len(d.chains[c].rounds)
               /\ Steps(d, c, chain)
<1> DEFINE old == d.chains[c]
           h == NextHead(d, c)
           moved == [old EXCEPT !.head = h]
           input == NextInput(d, c, h)
           longer == Append(old.rounds[h], NewRound(input))
           rounds == [old.rounds EXCEPT ![h] = longer]
           chain == StepChain(d, c)
<1>1. d \in StoreType /\ old \in ChainType /\ SoundChain(d, old)
  BY Parts DEF Sound
<1>2. /\ h \in Nat
      /\ Produces(d, c) => h \in 1 .. Len(old.items)
  BY NextHeadFacts DEF Produces
<1>3. Covered(d, old.node) \in SUBSET RecallPoint /\ old.seed \in SUBSET RecallPoint
  BY <1>1, Parts DEF SoundChain, ChainType
<1>4. input \in SUBSET RecallPoint
  <2>1. input = old.seed \/ input \subseteq Covered(d, old.node)
    BY DEF NextInput
  <2> QED
    BY <1>3, <2>1
<1> HIDE DEF input, h, old
<1>5. /\ moved \in ChainType /\ moved.head = h /\ moved.rounds = old.rounds
      /\ moved.node = old.node /\ moved.layer = old.layer /\ moved.items = old.items
      /\ moved.seed = old.seed
  BY <1>1, <1>2 DEF ChainType
<1>6. CASE ~Produces(d, c)
  <2>1. chain = moved
    BY <1>6 DEF StepChain, old, h
  <2>2. Steps(d, c, chain)
    BY <1>5, <1>6, <2>1 DEF Steps, old, h
  <2> QED
    BY <1>5, <2>1, <2>2 DEF old, h
<1>7. CASE Produces(d, c)
  <2>1. old.rounds \in Seq(Seq(Round)) /\ h \in DOMAIN old.rounds
    <3>1. old.rounds \in Seq(Seq(Round)) /\ Len(old.rounds) = Len(old.items)
      BY <1>1 DEF ChainType, SoundChain
    <3> QED
      BY <1>2, <1>7, <3>1, SeqIsFunction
  <2>2. old.rounds[h] \in Seq(Round) /\ NewRound(input) \in Round
    BY <1>4, <2>1, SeqIsFunction DEF NewRound, Round
  <2>3. longer \in Seq(Round)
    BY <2>2, SeqIsFunction
  <2> HIDE DEF longer
  <2>4. /\ rounds \in Seq(Seq(Round)) /\ Len(rounds) = Len(old.rounds)
        /\ \A j \in DOMAIN old.rounds : rounds[j] = IF j = h THEN longer ELSE old.rounds[j]
    BY <2>1, <2>3, SeqIsFunction
  <2>5. chain = [moved EXCEPT !.rounds = rounds]
    <3>1. chain = [moved EXCEPT !.rounds[h] = Append(@, NewRound(input))]
      BY <1>7, Zenon DEF StepChain, old, h, input
    <3> QED
      BY <1>5, <3>1 DEF longer
  <2> HIDE DEF rounds, moved, chain
  <2>6. /\ chain \in ChainType /\ chain.rounds = rounds /\ chain.head = h
        /\ chain.node = old.node /\ chain.layer = old.layer /\ chain.items = old.items
        /\ chain.seed = old.seed
    BY <1>5, <2>4, <2>5 DEF ChainType
  <2>7. Steps(d, c, chain)
    <3>1. \A j \in DOMAIN old.rounds :
             chain.rounds[j] = IF j = h /\ Produces(d, c)
                               THEN Append(old.rounds[j], NewRound(NextInput(d, c, j)))
                               ELSE old.rounds[j]
      BY <1>7, <2>4, <2>6 DEF longer, input
    <3> QED
      BY <2>4, <2>6, <3>1, Zenon DEF Steps, old, h
  <2> QED
    BY <2>4, <2>6, <2>7 DEF old, h, chain
<1> QED
  BY <1>6, <1>7

\* A tick's batch is a finite set of tasks of the layer's chains.
LEMMA BatchFacts ==
    ASSUME NEW d, Sound(d), NEW i \in LayerIds(d)
    PROVE  /\ Batch(d, i) \subseteq TaskId /\ IsFiniteSet(Batch(d, i))
           /\ Cardinality(Batch(d, i)) \in Nat
<1> DEFINE task(c) == [chain |-> c, item |-> NextHead(d, c),
                       round |-> Len(StepChain(d, c).rounds[NextHead(d, c)])]
           K == {k \in d.layers[i].managed :
                    /\ ~Exhausted(d, k)
                    /\ Produces(d, k) \/ d.chains[k].items[NextHead(d, k)] = "REVIEW_TASK"}
           f == [c \in K |-> task(c)]
<1>1. d.layers[i].managed \subseteq ChainIds(d) /\ ChainIds(d) = 1 .. Len(d.chains) /\ Len(d.chains) \in Nat
  BY Parts DEF Sound, SoundLayer, Unfinished
<1>2. IsFiniteSet(K)
  <2>1. IsFiniteSet(1 .. Len(d.chains)) /\ K \in SUBSET (1 .. Len(d.chains))
    BY SMTT(40), <1>1, FS_Interval
  <2> QED
    BY <2>1, FS_Subset
<1>3. Batch(d, i) = {task(c) : c \in K}
  BY DEF Batch
<1>4. ASSUME NEW c \in K PROVE task(c) \in TaskId
  <2> DEFINE h == NextHead(d, c)
             rounds == StepChain(d, c).rounds
  <2>1. c \in ChainIds(d) /\ c \in Nat /\ ~Exhausted(d, c)
    BY <1>1
  <2>2. rounds \in Seq(Seq(Round)) /\ Len(rounds) = Len(d.chains[c].items)
    <3>1. Len(d.chains[c].rounds) = Len(d.chains[c].items)
      BY <2>1 DEF Sound, SoundChain
    <3> QED
      BY <2>1, <3>1, StepChainFacts DEF ChainType
  <2>3. h \in 1 .. Len(d.chains[c].items) /\ h \in Nat
    BY <2>1, NextHeadFacts
  <2> HIDE DEF h, rounds
  <2>4. rounds[h] \in Seq(Round)
    BY <2>2, <2>3, SeqIsFunction
  <2>5. Len(rounds[h]) \in Nat
    BY <2>4, SeqIsFunction
  <2> QED
    BY <2>1, <2>3, <2>5 DEF TaskId, h, rounds
<1> HIDE DEF K, task
<1>5. f \in Surjection(K, Batch(d, i))
  BY <1>3 DEF Surjection
<1>6. IsFiniteSet(Batch(d, i))
  BY <1>2, <1>5, FS_Surjection
<1> QED
  BY <1>3, <1>4, <1>6, FS_CardinalityType

\* A tick moves the chains of one layer, drops those it finishes and changes no cycle.
LEMMA TickedSound ==
    ASSUME NEW d, Sound(d), NEW i \in LayerIds(d), NEW queue \in Seq(TaskId)
    PROVE  LET r == Ticked(d, i, queue)
           IN  /\ Sound(r) /\ r.queue = queue /\ LayerIds(r) = LayerIds(d)
               /\ \A j \in LayerIds(d) : r.layers[j].cycle = d.layers[j].cycle
               /\ Ticks(d, r, i, queue)
<1> DEFINE old == d.layers[i]
           chains == [c \in ChainIds(d) |-> IF c \in old.managed THEN StepChain(d, c) ELSE d.chains[c]]
           w == [d EXCEPT !.chains = chains, !.queue = queue]
           layer == [old EXCEPT !.managed = StillManaged(d, i)]
           r == Ticked(d, i, queue)
<1>1. /\ d \in StoreType /\ old \in LayerType /\ SoundLayer(d, i, old)
      /\ ChainIds(d) = 1 .. Len(d.chains) /\ Len(d.chains) \in Nat
      /\ LayerIds(d) = 1 .. Len(d.layers) /\ Len(d.layers) \in Nat
      /\ \A c \in ChainIds(d) : d.chains[c] \in ChainType
  BY Parts DEF Sound
<1>2. \A c \in ChainIds(d) : chains[c] \in ChainType
  BY <1>1, StepChainFacts
<1>3. chains \in Seq(ChainType) /\ Len(chains) = Len(d.chains) /\ DOMAIN chains = ChainIds(d)
  <2>1. chains = [c \in 1 .. Len(d.chains) |-> chains[c]]
    BY Zenon, <1>1
  <2> HIDE DEF chains
  <2>2. chains \in [1 .. Len(d.chains) -> ChainType]
    BY Zenon, <1>1, <1>2, <2>1
  <2> QED
    BY <1>1, <2>2, FunctionIsSeq
<1>4. \A c \in old.managed : /\ chains[c].node = d.chains[c].node /\ chains[c].layer = d.chains[c].layer
                             /\ chains[c].items = d.chains[c].items /\ chains[c].head = NextHead(d, c)
                             /\ Len(chains[c].rounds) = Len(d.chains[c].rounds)
                             /\ Steps(d, c, chains[c])
  <2>1. old.managed \subseteq ChainIds(d)
    BY <1>1 DEF SoundLayer, Unfinished
  <2> QED
    BY <2>1, StepChainFacts
<1>5. \A c \in ChainIds(d) \ old.managed : chains[c] = d.chains[c]
  OBVIOUS
<1> HIDE DEF chains
<1>6. /\ w \in StoreType /\ w.nodes = d.nodes /\ w.layers = d.layers /\ w.config = d.config
      /\ w.deleted = d.deleted /\ w.chains = chains /\ w.queue = queue
      /\ NodeIds(w) = NodeIds(d) /\ LayerIds(w) = LayerIds(d) /\ ChainIds(w) = ChainIds(d)
  BY <1>1, <1>3 DEF StoreType, NodeIds, LayerIds, ChainIds
<1>7. old.managed = Unfinished(d, i)
  BY <1>1 DEF SoundLayer
<1>8. /\ StillManaged(d, i) = {c \in old.managed : ~Exhausted(d, c)}
      /\ StillManaged(d, i) \in SUBSET Nat
  BY <1>1 DEF StillManaged, LayerType
<1> DEFINE managed == StillManaged(d, i)
<1> HIDE DEF old, managed
<1>9. /\ layer \in LayerType /\ layer.managed = managed
      /\ layer.agg = old.agg /\ layer.cycle = old.cycle /\ layer.pending = old.pending
      /\ layer.kNode = old.kNode /\ layer.kPoint = old.kPoint
  <2>1. layer = [old EXCEPT !.managed = managed] /\ managed \in SUBSET Nat
    BY <1>8 DEF managed
  <2> HIDE DEF layer
  <2>2. old \in LayerType
    BY <1>1
  <2> QED
    BY <2>1, <2>2 DEF LayerType
<1>10. r = SetLayer(w, i, layer)
  BY Zenon DEF Ticked, w, layer, chains, old
<1> HIDE DEF w, layer, r
<1>11. /\ r \in StoreType /\ r.nodes = d.nodes /\ r.config = d.config /\ r.deleted = d.deleted
       /\ r.chains = chains /\ r.queue = queue
       /\ NodeIds(r) = NodeIds(d) /\ LayerIds(r) = LayerIds(d) /\ ChainIds(r) = ChainIds(d)
       /\ Len(r.layers) = Len(d.layers) /\ r.layers[i] = layer
       /\ \A j \in LayerIds(d) \ {i} : r.layers[j] = d.layers[j]
  BY <1>6, <1>9, <1>10, SetLayerFacts
<1>12. Unfinished(r, i) = managed
  <2>1. ASSUME NEW c \in ChainIds(d)
        PROVE  c \in Unfinished(r, i) <=> c \in old.managed /\ ~Exhausted(d, c)
    <3>1. CASE c \in old.managed
      <4>1. d.chains[c].layer = i
        BY <1>7, <3>1 DEF Unfinished
      <4>2. Len(d.chains[c].items) \in Nat
        BY <1>1, SeqIsFunction DEF ChainType
      <4>3. NextHead(d, c) <= Len(d.chains[c].items) <=> ~Exhausted(d, c)
        BY <4>2, NextHeadFacts
      <4> QED
        BY <1>4, <1>11, <3>1, <4>1, <4>3 DEF Unfinished
    <3>2. CASE c \notin old.managed
      BY <1>5, <1>7, <1>11, <3>2 DEF Unfinished
    <3> QED
      BY <3>1, <3>2
  <2>2. \A c : c \in managed <=> c \in ChainIds(d) /\ c \in old.managed /\ ~Exhausted(d, c)
    BY <1>7, <1>8 DEF managed, Unfinished
  <2>3. Unfinished(r, i) \subseteq ChainIds(d)
    BY <1>11 DEF Unfinished
  <2> QED
    BY <2>1, <2>2, <2>3
<1>13. ASSUME NEW j \in LayerIds(d), j # i PROVE Unfinished(r, j) = Unfinished(d, j)
  <2>1. ASSUME NEW c \in ChainIds(d) PROVE c \in Unfinished(r, j) <=> c \in Unfinished(d, j)
    <3>1. CASE c \in old.managed
      <4>1. d.chains[c].layer = i
        BY <1>7, <3>1 DEF Unfinished
      <4> QED
        BY <1>4, <1>11, <1>13, <3>1, <4>1 DEF Unfinished
    <3>2. CASE c \notin old.managed
      BY <1>5, <1>11, <3>2 DEF Unfinished
    <3> QED
      BY <3>1, <3>2
  <2> QED
    BY <1>11, <2>1 DEF Unfinished
<1>14. SoundLayer(r, i, layer)
  BY <1>1, <1>9, <1>11, <1>12 DEF SoundLayer
<1>15. ASSUME NEW j \in LayerIds(d), j # i PROVE SoundLayer(r, j, d.layers[j])
  <2>1. SoundLayer(d, j, d.layers[j])
    BY DEF Sound
  <2> QED
    BY <1>11, <1>13, <1>15, <2>1 DEF SoundLayer
<1>16. ASSUME NEW c \in ChainIds(d) PROVE SoundChain(r, chains[c])
  <2>1. SoundChain(d, d.chains[c])
    BY DEF Sound
  <2>2. CASE c \in old.managed
    <3>1. NextHead(d, c) \in 1 .. Len(d.chains[c].items) + 1
      BY NextHeadFacts
    <3>2. /\ chains[c].node = d.chains[c].node /\ chains[c].layer = d.chains[c].layer
          /\ chains[c].items = d.chains[c].items /\ chains[c].head = NextHead(d, c)
          /\ Len(chains[c].rounds) = Len(d.chains[c].rounds)
      BY <1>4, <2>2
    <3> HIDE DEF chains
    <3> QED
      BY <1>11, <2>1, <3>1, <3>2 DEF SoundChain
  <2>3. CASE c \notin old.managed
    BY <1>5, <1>11, <2>1, <2>3 DEF SoundChain
  <2> QED
    BY <2>2, <2>3
<1>17. \A j \in LayerIds(r) : SoundLayer(r, j, r.layers[j])
  BY <1>11, <1>14, <1>15
<1>18. Sound(r)
  BY <1>11, <1>16, <1>17 DEF Sound
<1>19. Ticks(d, r, i, queue)
  <2>1. \A c \in d.layers[i].managed : Steps(d, c, r.chains[c])
    BY <1>4, <1>11 DEF old
  <2>2. \A c \in ChainIds(d) \ d.layers[i].managed : r.chains[c] = d.chains[c]
    BY <1>5, <1>11 DEF old
  <2>3. r.layers[i].managed = StillManaged(d, i)
    BY <1>9, <1>11 DEF managed
  <2>4. /\ r.layers[i].agg = d.layers[i].agg /\ r.layers[i].pending = d.layers[i].pending
        /\ r.layers[i].cycle = d.layers[i].cycle
    BY <1>9, <1>11 DEF old
  <2> QED
    BY <1>11, <2>1, <2>2, <2>3, <2>4, Zenon DEF Ticks, KeepsOtherLayers
<1> QED
  BY <1>9, <1>11, <1>18, <1>19 DEF r, old

\* A tick with a closed gate does nothing; with an open one the queue was empty.
LEMMA TickResultsSound ==
    ASSUME NEW d, Sound(d), NEW i \in LayerIds(d), NEW e \in TickResults(d, i)
    PROVE  /\ Sound(e) /\ LayerIds(e) = LayerIds(d)
           /\ InCycle(e, "ROLL_UP") = InCycle(d, "ROLL_UP")
<1>1. CASE ~GateOk(d, i)
  BY <1>1 DEF TickResults
<1>2. CASE GateOk(d, i)
  <2>1. PICK q \in InOrder(Batch(d, i)) : e = Ticked(d, i, q)
    BY <1>2 DEF TickResults
  <2>2. q \in [1 .. Cardinality(Batch(d, i)) -> TaskId] /\ Cardinality(Batch(d, i)) \in Nat
    BY BatchFacts DEF InOrder
  <2>3. q \in Seq(TaskId)
    BY <2>2, FunctionIsSeq
  <2>4. /\ Sound(e) /\ LayerIds(e) = LayerIds(d)
        /\ \A j \in LayerIds(d) : e.layers[j].cycle = d.layers[j].cycle
    BY <2>1, <2>3, TickedSound
  <2> QED
    BY <2>4 DEF InCycle
<1> QED
  BY <1>1, <1>2

LEMMA InCycleType ==
    ASSUME NEW d, Sound(d), NEW c
    PROVE  InCycle(d, c) \subseteq LayerIds(d) /\ LayerIds(d) \subseteq Nat
BY Parts DEF InCycle, Sound

\* Leaving CLEARING, with the queue empty, is the one way into ROLL_UP.
LEMMA EndClearingSound ==
    ASSUME NEW d, Sound(d), NEW i \in LayerIds(d), InCycle(d, "ROLL_UP") = {}
    PROVE  LET r == EndClearing(d, i) IN Sound(r) /\ Exclusive(r)
<1>1. CASE d.queue # <<>>
  BY <1>1 DEF EndClearing, Exclusive
<1>2. CASE d.queue = <<>>
  <2> DEFINE old == d.layers[i]
             c == IF old.pending # None THEN "ROLL_UP" ELSE "DONE"
             layer == [old EXCEPT !.cycle = c]
             r == EndClearing(d, i)
  <2>1. d \in StoreType /\ old \in LayerType /\ SoundLayer(d, i, old)
    BY Parts DEF Sound
  <2>2. c \in CycleStates /\ (old.pending # None <=> c # "DONE")
    BY DEF CycleStates
  <2>3. r = SetLayer(d, i, layer)
    BY <1>2, Zenon DEF EndClearing, SetCycle
  <2> HIDE DEF old, c
  <2>4. /\ layer \in LayerType /\ layer.cycle = c
        /\ layer.pending = old.pending /\ layer.managed = old.managed /\ layer.agg = old.agg
        /\ layer.kNode = old.kNode /\ layer.kPoint = old.kPoint
    BY <2>1, <2>2 DEF LayerType
  <2>5. SoundLayer(d, i, layer)
    BY <2>1, <2>2, <2>4 DEF SoundLayer
  <2> HIDE DEF layer, r
  <2>6. Sound(r)
    BY <2>3, <2>4, <2>5, SetLayerSound
  <2>7. /\ r.queue = d.queue /\ LayerIds(r) = LayerIds(d)
        /\ \A j \in LayerIds(d) \ {i} : r.layers[j] = d.layers[j]
    BY <2>1, <2>3, <2>4, SetLayerFacts
  <2>8. InCycle(r, "ROLL_UP") \subseteq {i}
    BY <2>7 DEF InCycle
  <2>9. Exclusive(r)
    BY <1>2, <2>7, <2>8 DEF Exclusive
  <2> QED
    BY <2>6, <2>9 DEF r
<1> QED
  BY <1>1, <1>2

\* One run of the clearing cycle, whichever branch it takes.
LEMMA ClearingCycleSound ==
    ASSUME NEW d, Sound(d), Exclusive(d), NEW e \in ClearingCycle(d)
    PROVE  Sound(e) /\ Exclusive(e)
<1>1. InCycle(d, "ROLL_UP") \in SUBSET Nat /\ Tickable(d) \in SUBSET Nat /\ Tickable(d) \subseteq LayerIds(d)
  BY InCycleType DEF Tickable
<1>2. CASE e = d
  BY <1>2
<1>3. CASE InCycle(d, "ROLL_UP") # {} /\ e = PhaseB(d, Lowest(InCycle(d, "ROLL_UP")))
  <2> DEFINE i == Lowest(InCycle(d, "ROLL_UP"))
  <2>1. i \in InCycle(d, "ROLL_UP")
    BY <1>1, <1>3, LowestIsLeast
  <2> HIDE DEF i
  <2>2. /\ Sound(PhaseB(d, i)) /\ PhaseB(d, i).queue = d.queue
        /\ InCycle(PhaseB(d, i), "ROLL_UP") \subseteq InCycle(d, "ROLL_UP")
    BY <2>1, PhaseBSound
  <2>3. e = PhaseB(d, i)
    BY <1>3 DEF i
  <2> QED
    BY <2>2, <2>3 DEF Exclusive
<1>4. CASE /\ InCycle(d, "ROLL_UP") = {} /\ Tickable(d) # {}
           /\ e \in {EndClearing(f, Lowest(Tickable(d))) : f \in TickResults(d, Lowest(Tickable(d)))}
  <2> DEFINE i == Lowest(Tickable(d))
  <2>1. i \in LayerIds(d)
    BY <1>1, <1>4, LowestIsLeast
  <2> HIDE DEF i
  <2>2. PICK f \in TickResults(d, i) : e = EndClearing(f, i)
    BY <1>4 DEF i
  <2>3. Sound(f) /\ i \in LayerIds(f) /\ InCycle(f, "ROLL_UP") = {}
    BY <1>4, <2>1, TickResultsSound
  <2> QED
    BY <2>2, <2>3, EndClearingSound
<1> QED
  BY <1>2, <1>3, <1>4, Zenon DEF ClearingCycle

-----------------------------------------------------------------------------
(* Requests.                                                               *)

\* Executing a review changes the result of one round, if it exists, and the queue.
LEMMA CommitDoneSound ==
    ASSUME NEW d, Sound(d), d.queue # <<>>, NEW q \in TaskId, NEW missed \in SUBSET RecallPoint
    PROVE  LET r == CommitDone(d, q, missed)
           IN  /\ Sound(r) /\ r.layers = d.layers
               /\ q.chain \in ChainIds(d) => Executes(d, r, q, missed)
<1> DEFINE c == q.chain  j == q.item  k == q.round
           old == d.chains[c]
           round == Executed(old.rounds[j][k], missed)
           list == [old.rounds[j] EXCEPT ![k] = round]
           rounds == [old.rounds EXCEPT ![j] = list]
           new == [old EXCEPT !.rounds = rounds]
           chains == [d.chains EXCEPT ![c] = new]
           queue == Tail(d.queue)
           r == CommitDone(d, q, missed)
<1>1. /\ d \in StoreType /\ d.chains \in Seq(ChainType) /\ ChainIds(d) = 1 .. Len(d.chains)
      /\ Len(d.chains) \in Nat /\ DOMAIN d.chains = ChainIds(d)
  BY Parts DEF Sound, ChainIds
<1>2. queue \in Seq(TaskId)
  BY <1>1 DEF StoreType
<1>3. r = [d EXCEPT !.chains = chains, !.queue = queue]
  BY Zenon DEF CommitDone
<1>4. /\ chains \in Seq(ChainType) /\ DOMAIN chains = ChainIds(d)
      /\ \A x \in ChainIds(d) : /\ chains[x].node = d.chains[x].node
                                /\ chains[x].layer = d.chains[x].layer
                                /\ chains[x].items = d.chains[x].items
                                /\ chains[x].head = d.chains[x].head
                                /\ Len(chains[x].rounds) = Len(d.chains[x].rounds)
      /\ c \in ChainIds(d) => /\ Answers(old, chains[c], q, missed)
                             /\ \A x \in ChainIds(d) \ {c} : chains[x] = d.chains[x]
  <2>1. CASE c \notin ChainIds(d)
    <3>1. chains = d.chains
      <4> HIDE DEF new
      <4> QED
        BY <1>1, <2>1, SeqIsFunction
    <3> QED
      BY <1>1, <2>1, <3>1
  <2>2. CASE c \in ChainIds(d)
    <3>1. old \in ChainType /\ old.rounds \in Seq(Seq(Round))
      <4>1. old \in ChainType
        BY <1>1, <2>2, SeqIsFunction
      <4> HIDE DEF old
      <4> QED
        BY <4>1 DEF ChainType
    <3>2. rounds \in Seq(Seq(Round)) /\ Len(rounds) = Len(old.rounds)
      <4>1. CASE j \notin DOMAIN old.rounds
        <5>1. rounds = old.rounds
          <6> HIDE DEF list, old
          <6> QED
            BY <3>1, <4>1, SeqIsFunction
        <5> QED
          BY <3>1, <5>1
      <4>2. CASE j \in DOMAIN old.rounds
        <5>1. old.rounds[j] \in Seq(Round)
          BY <3>1, <4>2, SeqIsFunction
        <5>2. list \in Seq(Round)
          <6>1. CASE k \notin DOMAIN old.rounds[j]
            <7>1. list = old.rounds[j]
              <8> HIDE DEF round, old
              <8> QED
                BY <5>1, <6>1, SeqIsFunction
            <7> QED
              BY <5>1, <7>1
          <6>2. CASE k \in DOMAIN old.rounds[j]
            <7>1. old.rounds[j][k] \in Round
              BY <5>1, <6>2, SeqIsFunction
            <7>2. round \in Round
              BY <7>1 DEF Executed, Round
            <7> HIDE DEF round
            <7> QED
              BY <5>1, <6>2, <7>2, SeqIsFunction
          <6> QED
            BY <6>1, <6>2
        <5> HIDE DEF list
        <5> QED
          BY <3>1, <4>2, <5>2, SeqIsFunction
      <4> QED
        BY <4>1, <4>2
    <3>5. \A x \in DOMAIN old.rounds :
             rounds[x] = IF x = j THEN [old.rounds[x] EXCEPT ![q.round] = Executed(@, missed)]
                                  ELSE old.rounds[x]
      <4> HIDE DEF old
      <4>1. \A x \in DOMAIN old.rounds : rounds[x] = IF x = j THEN list ELSE old.rounds[x]
        <5> HIDE DEF list
        <5> QED
          BY <3>1, SeqIsFunction
      <4> QED
        BY <4>1
    <3> HIDE DEF rounds, old
    <3>3. /\ new \in ChainType /\ new.rounds = rounds
          /\ new.node = old.node /\ new.layer = old.layer /\ new.items = old.items
          /\ new.head = old.head /\ new.seed = old.seed
      BY <3>1, <3>2 DEF ChainType
    <3>6. Answers(old, new, q, missed)
      <4> HIDE DEF new
      <4> QED
        BY <3>2, <3>3, <3>5, Zenon DEF Answers
    <3> HIDE DEF new
    <3>4. /\ chains \in Seq(ChainType) /\ DOMAIN chains = ChainIds(d) /\ chains[c] = new
          /\ \A x \in ChainIds(d) \ {c} : chains[x] = d.chains[x]
      BY <1>1, <2>2, <3>3, SeqIsFunction
    <3> HIDE DEF chains
    <3> QED
      BY <3>2, <3>3, <3>4, <3>6 DEF old
  <2> QED
    BY <2>1, <2>2
<1> HIDE DEF chains, queue, r
<1>5. /\ r \in StoreType /\ r.nodes = d.nodes /\ r.layers = d.layers /\ r.config = d.config
      /\ r.chains = chains /\ r.deleted = d.deleted /\ r.queue = queue
      /\ NodeIds(r) = NodeIds(d) /\ LayerIds(r) = LayerIds(d) /\ ChainIds(r) = ChainIds(d)
  BY <1>1, <1>2, <1>3, <1>4 DEF StoreType, NodeIds, LayerIds, ChainIds
<1>6. \A i : Unfinished(r, i) = Unfinished(d, i)
  BY <1>4, <1>5 DEF Unfinished
<1>7. \A i \in LayerIds(r) : SoundLayer(r, i, r.layers[i])
  BY <1>5, <1>6 DEF Sound, SoundLayer
<1>8. ASSUME NEW x \in ChainIds(r) PROVE SoundChain(r, r.chains[x])
  <2>1. SoundChain(d, d.chains[x])
    BY <1>5 DEF Sound
  <2> QED
    BY <1>4, <1>5, <2>1 DEF SoundChain
<1>9. Sound(r)
  BY <1>5, <1>7, <1>8 DEF Sound
<1>10. c \in ChainIds(d) => Executes(d, r, q, missed)
  BY <1>4, <1>5, Zenon DEF Executes, queue, c, old
<1> QED
  BY <1>5, <1>9, <1>10 DEF r

LEMMA AddLeafSound ==
    ASSUME NEW d, Sound(d), NEW k \in 1 .. MaxItems
    PROVE  LET r == AddLeaf(d, k)
           IN  /\ Sound(r)
               /\ Len(d.nodes) + 1 \in NodeIds(r) /\ 1 \in LayerIds(r)
               /\ r.queue = d.queue /\ InCycle(r, "ROLL_UP") = InCycle(d, "ROLL_UP")
               /\ AddsLeaf(d, r)
<1> DEFINE n == Len(d.nodes) + 1
           leaf == [parent |-> None, kids |-> <<>>, by |-> "SUBMIT", items |-> {n} \X (1 .. k)]
           nodes == Append(d.nodes, leaf)
           r == AddLeaf(d, k)
<1>1. /\ d.nodes \in Seq(NodeType) /\ Len(d.nodes) \in Nat /\ n \in Nat \ {0}
      /\ LayerIds(d) = 1 .. Len(d.layers) /\ Len(d.layers) \in 1 .. MaxLayers /\ MaxLayers \in Nat
  BY Parts, Bounds DEF Sound
<1>2. leaf \in NodeType
  <2>1. {n} \X (1 .. k) \in SUBSET RecallPoint
    BY <1>1 DEF RecallPoint
  <2> HIDE DEF n
  <2>2. None \in Nat /\ <<>> \in Seq(Nat)
    BY DEF None
  <2> QED
    BY <2>1, <2>2 DEF NodeType
<1>9. leaf.parent = None /\ leaf.kids = <<>>
  OBVIOUS
<1> HIDE DEF leaf
<1>3. /\ nodes \in Seq(NodeType) /\ Len(nodes) = n
      /\ nodes[n] = leaf /\ \A m \in NodeIds(d) : nodes[m] = d.nodes[m]
  BY <1>1, <1>2, SeqIsFunction DEF NodeIds
<1> HIDE DEF nodes
<1>4. r = [d EXCEPT !.nodes = nodes]
  BY Zenon DEF AddLeaf, nodes, leaf, n
<1>5. Len(nodes) >= Len(d.nodes)
  BY <1>1, <1>3
<1> HIDE DEF r
<1>6. /\ Sound(r) /\ NodeIds(r) = 1 .. Len(nodes) /\ r.layers = d.layers /\ KeepsReviews(d, r)
      /\ r.nodes = nodes /\ LayerIds(r) = LayerIds(d)
  BY <1>3, <1>4, <1>5, NodesSound
<1>7. n \in NodeIds(r) /\ 1 \in LayerIds(r) /\ NodeIds(r) = NodeIds(d) \cup {n}
  BY <1>1, <1>3, <1>6, Parts DEF Sound
<1>8. AddsLeaf(d, r)
  BY <1>3, <1>6, <1>7, <1>9 DEF AddsLeaf, n
<1> QED
  BY <1>6, <1>7, <1>8 DEF r, n, InCycle, KeepsReviews

\* A submission: the new leaf is registered on the first layer, which may enter
\* its cycle.
LEMMA SubmissionSound ==
    ASSUME NEW d, Sound(d), Exclusive(d), NEW k \in 1 .. MaxItems
    PROVE  LET r == EnterClearing(TaskRegister(AddLeaf(d, k), Len(d.nodes) + 1, 1), 1)
           IN  Sound(r) /\ Exclusive(r)
<1> DEFINE e == AddLeaf(d, k)
           f == TaskRegister(e, Len(d.nodes) + 1, 1)
           r == EnterClearing(f, 1)
<1>1. /\ Sound(e) /\ Len(d.nodes) + 1 \in NodeIds(e) /\ 1 \in LayerIds(e)
      /\ e.queue = d.queue /\ InCycle(e, "ROLL_UP") = InCycle(d, "ROLL_UP")
  BY AddLeafSound
<1> HIDE DEF e
<1>2. /\ Sound(f) /\ f.queue = e.queue /\ LayerIds(f) = LayerIds(e)
      /\ f.layers[1].cycle = e.layers[1].cycle
      /\ \A j \in LayerIds(e) \ {1} : f.layers[j] = e.layers[j]
  BY <1>1, TaskRegisterSound
<1> HIDE DEF f
<1>3. /\ Sound(r) /\ r.queue = f.queue /\ LayerIds(r) = LayerIds(f)
      /\ r.layers[1].cycle \in {f.layers[1].cycle, "CLEARING"}
      /\ \A j \in LayerIds(f) \ {1} : r.layers[j] = f.layers[j]
  BY <1>1, <1>2, EnterClearingSound
<1> HIDE DEF r
<1>4. InCycle(r, "ROLL_UP") \subseteq InCycle(e, "ROLL_UP")
  BY <1>1, <1>2, <1>3 DEF InCycle
<1>5. Exclusive(r)
  BY <1>1, <1>2, <1>3, <1>4 DEF Exclusive
<1> QED
  BY <1>3, <1>5 DEF r, f, e

LEMMA ConfiguredFacts ==
    ASSUME NEW layer \in LayerType, NEW cfg \in LayerConfig
    PROVE  LET r == Configured(layer, cfg)
           IN  /\ r \in LayerType /\ r.kNode = cfg.kNode /\ r.kPoint = cfg.kPoint
               /\ r.managed = layer.managed /\ r.agg = layer.agg
               /\ r.cycle = layer.cycle /\ r.pending = layer.pending
<1> DEFINE r == Configured(layer, cfg)
<1>1. cfg.kNode \in Nat \ {0} /\ cfg.kPoint \in Nat \ {0}
  BY DEF LayerConfig
<1>2. r = [layer EXCEPT !.kNode = cfg.kNode, !.kPoint = cfg.kPoint]
  BY DEF Configured
<1>3. /\ r.kNode = cfg.kNode /\ r.kPoint = cfg.kPoint
      /\ r.managed = layer.managed /\ r.agg = layer.agg
      /\ r.cycle = layer.cycle /\ r.pending = layer.pending
  BY <1>2 DEF LayerType
<1>4. r \in LayerType
  BY <1>1, <1>2 DEF LayerType
<1> QED
  BY <1>3, <1>4

\* A configuration reaches the layer it is for, if that exists already.
LEMMA LayerConfigSound ==
    ASSUME NEW d, Sound(d), Exclusive(d), NEW i \in 1 .. MaxLayers, NEW cfg \in LayerConfigs
    PROVE  LET e == [d EXCEPT !.config[i] = cfg]
               r == IF i \in LayerIds(d) THEN SetLayer(e, i, Configured(d.layers[i], cfg)) ELSE e
           IN  Sound(r) /\ Exclusive(r) /\ SameWork(d, r)
<1> DEFINE config == [d.config EXCEPT ![i] = cfg]
           e == [d EXCEPT !.config = config]
           layer == Configured(d.layers[i], cfg)
           r == IF i \in LayerIds(d) THEN SetLayer(e, i, layer) ELSE e
<1>1. /\ d \in StoreType /\ d.config \in [1 .. MaxLayers -> LayerConfig]
      /\ cfg \in LayerConfig /\ cfg \in Configs
      /\ \A j \in 1 .. MaxLayers : d.config[j] \in Configs
      /\ LayerIds(d) \subseteq 1 .. MaxLayers
  BY ConfigAssumption, Parts, Bounds DEF Sound, Configs
<1>2. /\ config \in [1 .. MaxLayers -> LayerConfig] /\ config[i] = cfg
      /\ \A j \in 1 .. MaxLayers : config[j] \in Configs
      /\ \A j \in (1 .. MaxLayers) \ {i} : config[j] = d.config[j]
  BY <1>1
<1>3. [d EXCEPT !.config[i] = cfg] = e
  OBVIOUS
<1> HIDE DEF config
<1>4. /\ e \in StoreType /\ e.config = config /\ e.layers = d.layers /\ e.queue = d.queue
      /\ e.chains = d.chains /\ e.nodes = d.nodes /\ e.deleted = d.deleted
      /\ NodeIds(e) = NodeIds(d) /\ LayerIds(e) = LayerIds(d) /\ ChainIds(e) = ChainIds(d)
  BY <1>1, <1>2 DEF StoreType, NodeIds, LayerIds, ChainIds
<1> HIDE DEF e
<1>5. ASSUME i \in LayerIds(d)
      PROVE  /\ layer \in LayerType
             /\ layer.kNode = cfg.kNode /\ layer.kPoint = cfg.kPoint
             /\ layer.managed = d.layers[i].managed /\ layer.agg = d.layers[i].agg
             /\ layer.cycle = d.layers[i].cycle /\ layer.pending = d.layers[i].pending
  <2> DEFINE old == d.layers[i]
  <2>1. old \in LayerType
    BY <1>1, <1>5, Parts
  <2> HIDE DEF old
  <2>2. LET new == Configured(old, cfg)
        IN  /\ new \in LayerType /\ new.kNode = cfg.kNode /\ new.kPoint = cfg.kPoint
            /\ new.managed = old.managed /\ new.agg = old.agg
            /\ new.cycle = old.cycle /\ new.pending = old.pending
    BY <1>1, <2>1, ConfiguredFacts
  <2> QED
    BY <2>2 DEF old
<1> HIDE DEF layer
<1>6. /\ r \in StoreType /\ r.config = config /\ r.queue = d.queue
      /\ r.chains = d.chains /\ r.nodes = d.nodes /\ r.deleted = d.deleted
      /\ NodeIds(r) = NodeIds(d) /\ LayerIds(r) = LayerIds(d) /\ ChainIds(r) = ChainIds(d)
      /\ Len(r.layers) = Len(d.layers)
      /\ i \in LayerIds(d) => r.layers[i] = layer
      /\ \A j \in LayerIds(d) \ {i} : r.layers[j] = d.layers[j]
  <2>1. CASE i \in LayerIds(d)
    BY <1>4, <1>5, <2>1, SetLayerFacts
  <2>2. CASE i \notin LayerIds(d)
    BY <1>4, <2>2
  <2> QED
    BY <2>1, <2>2
<1> HIDE DEF r
<1>7. \A j : Unfinished(r, j) = Unfinished(d, j)
  BY <1>6 DEF Unfinished
<1>8. ASSUME NEW j \in LayerIds(r) PROVE SoundLayer(r, j, r.layers[j])
  <2>1. SoundLayer(d, j, d.layers[j])
    BY <1>6 DEF Sound
  <2>2. CASE j = i
    <3>1. r.layers[j] = layer /\ i \in LayerIds(d)
      BY <1>6, <2>2
    <3>2. SoundLayer(r, i, layer)
      BY <1>2, <1>5, <1>6, <1>7, <2>1, <2>2, <3>1 DEF SoundLayer
    <3> QED
      BY <2>2, <3>1, <3>2
  <2>3. CASE j # i
    <3>1. j \in LayerIds(d) /\ r.layers[j] = d.layers[j] /\ r.config[j] = d.config[j]
      BY <1>1, <1>2, <1>6, <2>3
    <3> QED
      BY <1>6, <1>7, <2>1, <3>1 DEF SoundLayer
  <2> QED
    BY <2>2, <2>3
<1>9. \A c \in ChainIds(r) : SoundChain(r, r.chains[c])
  BY <1>6 DEF Sound, SoundChain
<1>10. Sound(r)
  BY <1>2, <1>6, <1>8, <1>9 DEF Sound
<1>11. \A j \in LayerIds(d) : /\ r.layers[j].cycle = d.layers[j].cycle
                              /\ r.layers[j].agg = d.layers[j].agg
                              /\ r.layers[j].pending = d.layers[j].pending
  BY <1>5, <1>6
<1>12. Exclusive(r)
  <2>1. InCycle(r, "ROLL_UP") = InCycle(d, "ROLL_UP")
    BY <1>6, <1>11 DEF InCycle
  <2> QED
    BY <1>6, <2>1 DEF Exclusive
<1>13. SameWork(d, r)
  BY <1>6, <1>11 DEF SameWork
<1> QED
  BY <1>3, <1>10, <1>12, <1>13 DEF r, layer

\* Deleting a point and choosing a strategy touch nothing the invariant reads.
LEMMA SettingsSound ==
    ASSUME NEW d, Sound(d), Exclusive(d), NEW deleted \in SUBSET RecallPoint,
           d.deleted \subseteq deleted, NEW s \in Strategies,
           NEW r \in {[d EXCEPT !.deleted = deleted], [d EXCEPT !.strategy = s]}
    PROVE  Sound(r) /\ Exclusive(r) /\ SameWork(d, r)
<1>1. d \in StoreType
  BY DEF Sound
<1>2. /\ r \in StoreType /\ r.config = d.config /\ r.layers = d.layers /\ r.queue = d.queue
      /\ r.chains = d.chains /\ r.nodes = d.nodes /\ d.deleted \subseteq r.deleted
      /\ NodeIds(r) = NodeIds(d) /\ LayerIds(r) = LayerIds(d) /\ ChainIds(r) = ChainIds(d)
  BY <1>1 DEF StoreType, NodeIds, LayerIds, ChainIds
<1>3. \A j : Unfinished(r, j) = Unfinished(d, j)
  BY <1>2 DEF Unfinished
<1>4. Sound(r)
  BY <1>2, <1>3 DEF Sound, SoundLayer, SoundChain
<1>5. Exclusive(r)
  BY <1>2 DEF Exclusive, InCycle
<1>6. SameWork(d, r)
  BY <1>2 DEF SameWork
<1> QED
  BY <1>4, <1>5, <1>6

\* A manual roll-up puts one layer into CLEARING.
LEMMA ManualRollUpSound ==
    ASSUME NEW d, Sound(d), Exclusive(d), NEW i \in LayerIds(d), i < MaxLayers
    PROVE  LET r == PhaseA(d, i, "MANUAL_DRAIN") IN Sound(r) /\ Exclusive(r)
<1> DEFINE r == PhaseA(d, i, "MANUAL_DRAIN")
<1>1. /\ Sound(r) /\ r.queue = d.queue /\ LayerIds(r) = LayerIds(d)
      /\ r.layers[i].cycle = "CLEARING"
      /\ \A j \in LayerIds(d) \ {i} : r.layers[j] = d.layers[j]
  BY PhaseASound
<1> HIDE DEF r
<1>2. InCycle(r, "ROLL_UP") \subseteq InCycle(d, "ROLL_UP")
  BY <1>1 DEF InCycle
<1>3. Exclusive(r)
  BY <1>1, <1>2 DEF Exclusive
<1> QED
  BY <1>1, <1>3 DEF r

\* Trigger A: a tick of a layer outside a cycle, and the quota is spent.
LEMMA TriggerASound ==
    ASSUME NEW d, Sound(d), InCycle(d, "ROLL_UP") = {}, NEW i \in LayerIds(d),
           NEW e \in TickResults(d, i)
    PROVE  LET r == SetLayer(e, i, [e.layers[i] EXCEPT !.quota = 0]) IN Sound(r) /\ Exclusive(r)
<1> DEFINE old == e.layers[i]
           layer == [old EXCEPT !.quota = 0]
           r == SetLayer(e, i, layer)
<1>1. Sound(e) /\ LayerIds(e) = LayerIds(d) /\ InCycle(e, "ROLL_UP") = {}
  BY TickResultsSound
<1>2. e \in StoreType /\ old \in LayerType /\ SoundLayer(e, i, old)
  BY <1>1, Parts DEF Sound
<1>3. old.cycle # "ROLL_UP"
  BY <1>1 DEF InCycle
<1> HIDE DEF old
<1>4. /\ layer \in LayerType /\ layer.cycle = old.cycle
      /\ layer.pending = old.pending /\ layer.managed = old.managed /\ layer.agg = old.agg
      /\ layer.kNode = old.kNode /\ layer.kPoint = old.kPoint
  BY <1>2 DEF LayerType
<1>5. SoundLayer(e, i, layer)
  BY <1>2, <1>4 DEF SoundLayer
<1> HIDE DEF layer
<1>6. Sound(r)
  BY <1>1, <1>4, <1>5, SetLayerSound
<1>7. /\ LayerIds(r) = LayerIds(e) /\ r.layers[i] = layer
      /\ \A j \in LayerIds(e) \ {i} : r.layers[j] = e.layers[j]
  BY <1>1, <1>2, <1>4, SetLayerFacts
<1> HIDE DEF r
<1>8. InCycle(r, "ROLL_UP") = {}
  BY <1>1, <1>3, <1>4, <1>7 DEF InCycle
<1>9. Exclusive(r)
  BY <1>8 DEF Exclusive
<1> QED
  BY <1>6, <1>9 DEF r, layer, old

-----------------------------------------------------------------------------
(* The specification.                                                      *)

LEMMA InitSound == Init => IInv
<1> SUFFICES ASSUME Init PROVE IInv
  OBVIOUS
<1> DEFINE new == NewLayer(DefaultConfig)
<1>1. /\ db.nodes = <<>> /\ db.chains = <<>> /\ db.queue = <<>> /\ db.deleted = {}
      /\ db.layers = <<new>> /\ db.strategy = ThresholdAuto
      /\ db.config = [i \in 1 .. MaxLayers |-> DefaultConfig]
  BY DEF Init
<1>2. DefaultConfig \in LayerConfig /\ MaxLayers \in Nat \ {0} /\ ThresholdAuto \in Strategies
  BY ConfigAssumption, BoundAssumption
<1>3. /\ new \in LayerType /\ new.managed = {} /\ new.agg = <<>> /\ new.cycle = "DONE"
      /\ new.pending = None /\ new.kNode = DefaultConfig.kNode /\ new.kPoint = DefaultConfig.kPoint
  BY <1>2 DEF NewLayer, LayerType, LayerConfig, CycleStates, None
<1> HIDE DEF new
<1>4. <<new>> \in Seq(LayerType) /\ Len(<<new>>) = 1 /\ DOMAIN <<new>> = {1} /\ <<new>>[1] = new
  BY <1>3
<1>5. db \in StoreType
  <2>1. db = [nodes |-> <<>>, chains |-> <<>>, queue |-> <<>>, deleted |-> {}, layers |-> <<new>>,
              config |-> [i \in 1 .. MaxLayers |-> DefaultConfig], strategy |-> ThresholdAuto]
    BY Zenon DEF Init, new
  <2>2. [i \in 1 .. MaxLayers |-> DefaultConfig] \in [1 .. MaxLayers -> LayerConfig]
    BY <1>2
  <2> QED
    BY <1>2, <1>4, <2>1, <2>2 DEF StoreType
<1>6. NodeIds(db) = {} /\ ChainIds(db) = {} /\ LayerIds(db) = {1}
  BY <1>1, <1>4 DEF NodeIds, ChainIds, LayerIds
<1>7. SoundLayer(db, 1, new)
  <2>1. SeqRange(<<>>) = {} /\ Unfinished(db, 1) = {}
    BY <1>6 DEF SeqRange, Unfinished
  <2> QED
    BY <1>1, <1>2, <1>3, <2>1 DEF SoundLayer
<1>8. Sound(db)
  BY <1>1, <1>2, <1>4, <1>5, <1>6, <1>7 DEF Sound, Configs
<1>9. Exclusive(db)
  BY <1>1, <1>6 DEF Exclusive, InCycle
<1>10. fuel \in [Threads -> 0 .. MaxIterations]
  BY BoundAssumption DEF Init
<1>11. OneSession
  BY DEF Init, OneSession
<1> QED
  BY <1>8, <1>9, <1>10, <1>11 DEF IInv

\* The loop counter stays in its range.
LEMMA FuelStep ==
    ASSUME IInv, NEW t \in Threads, Drive(t) \/ (fuel[t] > 0 /\ Burn(t)) \/ Stop(t) \/ UNCHANGED fuel
    PROVE  fuel' \in [Threads -> 0 .. MaxIterations]
<1>1. fuel \in [Threads -> 0 .. MaxIterations] /\ MaxIterations \in Nat
  BY BoundAssumption DEF IInv
<1> QED
  BY <1>1 DEF Drive, Burn, Stop

\* The write lock has one holder.
LEMMA SessionStep ==
    ASSUME IInv, NEW t \in Threads, Session(t) \/ open' = {t} \/ UNCHANGED open
    PROVE  OneSession'
BY DEF IInv, OneSession, Session

LEMMA SoundPoints ==
    ASSUME NEW d, Sound(d)
    PROVE  d.deleted \in SUBSET RecallPoint /\ RecallPoints(d) \subseteq RecallPoint
<1>1. d \in StoreType /\ \A n \in NodeIds(d) : d.nodes[n].items \in SUBSET RecallPoint
  BY Parts DEF Sound, NodeType
<1> QED
  BY <1>1 DEF RecallPoints, StoreType

LEMMA RequestSound ==
    ASSUME IInv, NEW t \in Threads, Request(t)
    PROVE  Sound(db)' /\ Exclusive(db)'
<1>1. Sound(db) /\ Exclusive(db) /\ db \in StoreType
  BY DEF IInv, Sound
<1>2. RecallPoints(db) \subseteq RecallPoint /\ db.deleted \in SUBSET RecallPoint
  BY <1>1, SoundPoints
<1>3. 1 \in 1 .. MaxItems
  BY BoundAssumption
<1>4. ASSUME NEW k \in 1 .. MaxItems, SubmitLearningTask(t, k) PROVE Sound(db') /\ Exclusive(db')
  BY <1>1, <1>4, SubmissionSound DEF SubmitLearningTask
<1>5. ASSUME CollectRecallPoint(t) PROVE Sound(db') /\ Exclusive(db')
  BY <1>1, <1>3, <1>5, SubmissionSound DEF CollectRecallPoint
<1>6. ASSUME NEW missed \in SUBSET RecallPoints(db), ExecutorCommitReviewTask(t, missed)
      PROVE  Sound(db') /\ Exclusive(db')
  <2> DEFINE q == Head(db.queue)
             d == CommitDone(db, q, missed)
  <2>1. db.queue # <<>> /\ db' \in ClearingCycle(d)
    BY <1>6 DEF ExecutorCommitReviewTask
  <2>2. q \in TaskId /\ missed \in SUBSET RecallPoint
    BY <1>1, <1>2, <2>1 DEF StoreType
  <2> HIDE DEF q
  <2>3. Sound(d) /\ d.layers = db.layers
    BY <1>1, <2>1, <2>2, CommitDoneSound
  <2> HIDE DEF d
  <2>4. Exclusive(d)
    BY <1>1, <2>1, <2>3 DEF Exclusive, InCycle, LayerIds
  <2> QED
    BY <2>1, <2>3, <2>4, ClearingCycleSound
<1>7. ASSUME NEW r \in RecallPoints(db), DeleteRecallPoint(t, r) PROVE Sound(db') /\ Exclusive(db')
  <2> DEFINE deleted == db.deleted \cup {r}
  <2>1. db' = [db EXCEPT !.deleted = deleted] /\ deleted \in SUBSET RecallPoint
    BY <1>1, <1>2, <1>7 DEF DeleteRecallPoint
  <2>2. db.strategy \in Strategies /\ db.deleted \subseteq deleted
    BY <1>1 DEF StoreType
  <2> HIDE DEF deleted
  <2> QED
    BY <1>1, <2>1, <2>2, SettingsSound
<1>8. ASSUME NEW i \in LayerIds(db), ManualRollUp(t, i) PROVE Sound(db') /\ Exclusive(db')
  BY <1>1, <1>8, ManualRollUpSound DEF ManualRollUp, RoomToRollUp
<1>9. ASSUME NEW i \in 1 .. MaxLayers, NEW cfg \in LayerConfigs, SetLayerConfig(t, i, cfg)
      PROVE  Sound(db') /\ Exclusive(db')
  BY <1>1, <1>9, LayerConfigSound DEF SetLayerConfig
<1>10. ASSUME NEW s \in Strategies, SetRollUpStrategy(t, s) PROVE Sound(db') /\ Exclusive(db')
  <2>1. db' = [db EXCEPT !.strategy = s] /\ db.deleted \subseteq db.deleted
    BY <1>10 DEF SetRollUpStrategy
  <2> QED
    BY <1>1, <1>2, <2>1, SettingsSound
<1>11. Sound(db') /\ Exclusive(db')
  BY <1>4, <1>5, <1>6, <1>7, <1>8, <1>9, <1>10 DEF Request
<1> QED
  BY <1>11

LEMMA DriverSound ==
    ASSUME IInv, NEW t \in Threads, DriverStep(t) \/ DriverConflict(t)
    PROVE  Sound(db)' /\ Exclusive(db)'
<1>1. Sound(db) /\ Exclusive(db)
  BY DEF IInv
<1>2. ASSUME DriverRollUp(t) \/ DriverClearing(t) PROVE Sound(db') /\ Exclusive(db')
  BY <1>1, <1>2, ClearingCycleSound DEF DriverRollUp, DriverClearing
<1>3. ASSUME DriverTriggerA(t) PROVE Sound(db') /\ Exclusive(db')
  <2> DEFINE i == Lowest(TriggerALayers(db))
  <2>1. TriggerALayers(db) # {} /\ InCycle(db, "ROLL_UP") = {}
    BY <1>3 DEF DriverTriggerA
  <2>2. TriggerALayers(db) \subseteq LayerIds(db) /\ TriggerALayers(db) \in SUBSET Nat
    BY <1>1, InCycleType DEF TriggerALayers
  <2>3. i \in LayerIds(db)
    BY <2>1, <2>2, LowestIsLeast
  <2>4. PICK e \in TickResults(db, i) : db' = SetLayer(e, i, [e.layers[i] EXCEPT !.quota = 0])
    BY <1>3 DEF DriverTriggerA
  <2> HIDE DEF i
  <2> QED
    BY <1>1, <2>1, <2>3, <2>4, TriggerASound
<1>4. ASSUME UNCHANGED db PROVE Sound(db') /\ Exclusive(db')
  BY <1>1, <1>4
<1>5. Sound(db') /\ Exclusive(db')
  BY <1>2, <1>3, <1>4 DEF DriverStep, DriverFails, DriverStops, DriverConflict
<1> QED
  BY <1>5

LEMMA NextSound == IInv /\ [Next]_vars => IInv'
<1> SUFFICES ASSUME IInv, [Next]_vars PROVE IInv'
  OBVIOUS
<1>1. CASE UNCHANGED vars
  BY <1>1 DEF IInv, OneSession, vars
<1>2. ASSUME NEW t \in Threads, OpenSession(t) \/ EndSession(t) PROVE IInv'
  <2>1. UNCHANGED <<db, fuel>> /\ (Session(t) \/ open' = {t})
    BY <1>2 DEF OpenSession, EndSession
  <2>2. OneSession'
    BY <2>1, SessionStep
  <2> QED
    BY <2>1, <2>2 DEF IInv
<1>3. ASSUME NEW t \in Threads, Request(t) PROVE IInv'
  <2>1. (Drive(t) \/ UNCHANGED fuel) /\ Session(t)
    BY <1>3 DEF Request, SubmitLearningTask, CollectRecallPoint, ExecutorCommitReviewTask,
                DeleteRecallPoint, ManualRollUp, SetLayerConfig, SetRollUpStrategy
  <2> QED
    BY <1>3, <2>1, FuelStep, SessionStep, RequestSound DEF IInv
<1>4. ASSUME NEW t \in Threads, DriverStep(t) \/ DriverConflict(t) PROVE IInv'
  <2>1. ((fuel[t] > 0 /\ Burn(t)) \/ Stop(t)) /\ (Session(t) \/ UNCHANGED open)
    BY <1>4 DEF DriverStep, DriverRollUp, DriverFails, DriverTriggerA, DriverClearing,
                DriverStops, DriverConflict
  <2> QED
    BY <1>4, <2>1, FuelStep, SessionStep, DriverSound DEF IInv
<1> QED
  BY <1>1, <1>2, <1>3, <1>4 DEF Next

LEMMA Inductive == Spec => []IInv
BY InitSound, NextSound, PTL DEF Spec

\* Whatever the requests and however many threads serve them, the store and the
\* drivers hold values of the declared shapes.
THEOREM SchedulerTypes == Spec => []TypeOK
<1>1. IInv => TypeOK
  BY DEF IInv, OneSession, Sound, TypeOK
<1> QED
  BY <1>1, Inductive, PTL

\* At most one layer waits for phase B, and the queue is empty meanwhile: parents
\* are registered one at a time, between two batches of reviews.
THEOREM OneRollUpAtATime == Spec => []RollUpIsExclusive
<1>1. IInv => RollUpIsExclusive
  BY DEF IInv, Exclusive, RollUpIsExclusive
<1> QED
  BY <1>1, Inductive, PTL

\* A chain is on the list of its layer exactly while it has work left: the tick
\* visits every chain that must move and no other.
THEOREM ChainsAreManagedWhileUnfinished == Spec => []ManagedIffUnfinished
<1>1. IInv => ManagedIffUnfinished
  BY DEF IInv, Sound, SoundLayer, Unfinished, ManagedIffUnfinished
<1> QED
  BY <1>1, Inductive, PTL

\* The thresholds of every layer are those the project has configured for it,
\* whether the layer was there when they were chosen or was created later.
THEOREM ThresholdsFollowConfig == Spec => []ThresholdsMirrorConfig
<1>1. IInv => ThresholdsMirrorConfig
  BY DEF IInv, Sound, SoundLayer, ThresholdsMirrorConfig
<1> QED
  BY <1>1, Inductive, PTL

-----------------------------------------------------------------------------
(* The second part: what the queue, the chains and the nodes say of each    *)
(* other.                                                                  *)

\* Task q is the open last round at the head of its chain.
Current(chain, q) ==
    /\ q.item = chain.head /\ q.item \in DOMAIN chain.items
    /\ q.round = Len(chain.rounds[q.item])
    /\ RoundOpen(chain, q.item)

\* A review task of the template has its round from the start; an open round of a
\* convergence is queued.
Ready(d, c, j) ==
    LET chain == d.chains[c]
    IN  /\ chain.items[j] = "REVIEW_TASK" => chain.rounds[j] # <<>>
        /\ chain.items[j] = "CONVERGENCE" /\ RoundOpen(chain, j)
              => \E k \in DOMAIN d.queue : d.queue[k].chain = c /\ d.queue[k].item = j

QueueExact(d) ==
    /\ \A j, k \in DOMAIN d.queue : d.queue[j].chain = d.queue[k].chain => j = k
    /\ \A k \in DOMAIN d.queue :
          d.queue[k].chain \in ChainIds(d) /\ Current(d.chains[d.queue[k].chain], d.queue[k])
    /\ \A c \in ChainIds(d) : \A j \in DOMAIN d.chains[c].items : Ready(d, c, j)

-----------------------------------------------------------------------------
(* Chains and their lists of rounds.                                       *)

LEMMA ChainParts ==
    ASSUME NEW d, Sound(d), NEW c \in ChainIds(d)
    PROVE  LET chain == d.chains[c]
           IN  /\ c \in Nat /\ chain \in ChainType /\ SoundChain(d, chain)
               /\ chain.node \in NodeIds(d)
               /\ Len(chain.items) \in Nat /\ DOMAIN chain.items = 1 .. Len(chain.items)
               /\ DOMAIN chain.rounds = DOMAIN chain.items
               /\ chain.head \in 1 .. Len(chain.items) + 1
               /\ chain.seed \in SUBSET RecallPoint
               /\ \A j \in DOMAIN chain.items : /\ chain.rounds[j] \in Seq(Round)
                                                /\ chain.items[j] \in ItemKinds
<1> DEFINE chain == d.chains[c]
<1>1. chain \in ChainType /\ SoundChain(d, chain) /\ c \in Nat
  BY Parts DEF Sound
<1> HIDE DEF chain
<1>2. /\ chain.items \in Seq(ItemKinds) /\ chain.rounds \in Seq(Seq(Round))
      /\ chain.seed \in SUBSET RecallPoint
  BY <1>1 DEF ChainType
<1>3. /\ Len(chain.items) \in Nat /\ DOMAIN chain.items = 1 .. Len(chain.items)
      /\ \A j \in DOMAIN chain.items : chain.items[j] \in ItemKinds
  BY <1>2, SeqIsFunction
<1>4. /\ DOMAIN chain.rounds = 1 .. Len(chain.rounds)
      /\ \A j \in DOMAIN chain.rounds : chain.rounds[j] \in Seq(Round)
  BY <1>2, SeqIsFunction
<1> QED
  BY <1>1, <1>2, <1>3, <1>4 DEF SoundChain, chain

LEMMA LastOfAppend ==
    ASSUME NEW S, NEW s \in Seq(S), NEW x \in S
    PROVE  Append(s, x) # <<>> /\ Last(Append(s, x)) = x
<1>1. Len(s) \in Nat /\ Len(Append(s, x)) = Len(s) + 1 /\ Append(s, x)[Len(s) + 1] = x
  BY SeqIsFunction
<1>2. Append(s, x) # <<>>
  <2>1. Len(<<>>) = 0
    OBVIOUS
  <2> QED
    BY <1>1, <2>1
<1> QED
  BY <1>1, <1>2 DEF Last

Answered(s, missed) == [s EXCEPT ![Len(s)] = Executed(@, missed)]

\* Giving the last round its result changes no other.
LEMMA LastAnswered ==
    ASSUME NEW s \in Seq(Round), s # <<>>, NEW missed \in SUBSET RecallPoint
    PROVE  LET t == Answered(s, missed)
           IN  /\ t # <<>> /\ Len(t) = Len(s) /\ DOMAIN t = DOMAIN s /\ Len(s) \in DOMAIN s
               /\ Last(t).input = Last(s).input /\ Last(t).done /\ Last(t).focus = missed
               /\ \A k \in DOMAIN s \ {Len(s)} : t[k] = s[k]
<1> DEFINE n == Len(s)
           round == Executed(s[n], missed)
           t == [s EXCEPT ![n] = round]
<1>1. n \in Nat /\ DOMAIN s = 1 .. n /\ n # 0
  <2>1. s # <<>> => Len(s) # 0
    BY EmptySeq
  <2> QED
    BY <2>1, SeqIsFunction
<1>2. n \in DOMAIN s /\ s[n] \in Round
  BY <1>1, SeqIsFunction
<1>3. round \in Round /\ round.input = s[n].input /\ round.done /\ round.focus = missed
  BY <1>2 DEF Executed, Round
<1> HIDE DEF round
<1>4. /\ t \in Seq(Round) /\ Len(t) = n /\ t[n] = round
      /\ \A k \in DOMAIN s \ {n} : t[k] = s[k]
  BY <1>2, <1>3, SeqIsFunction
<1> HIDE DEF t
<1>5. DOMAIN t = DOMAIN s /\ t # <<>>
  <2>1. DOMAIN t = 1 .. n
    BY <1>4, SeqIsFunction
  <2>2. Len(<<>>) = 0
    OBVIOUS
  <2> QED
    BY <1>1, <1>4, <2>1, <2>2
<1>6. Answered(s, missed) = t
  BY DEF t, round, Answered
<1> QED
  BY <1>2, <1>3, <1>4, <1>5, <1>6 DEF Last

\* A new chain: the review tasks of the template have a round, open.
Fresh(chain, n, i, seed, template) ==
    /\ chain.node = n /\ chain.layer = i /\ chain.seed = seed
    /\ chain.items = template /\ chain.head = 1
    /\ \A j \in DOMAIN template :
          chain.rounds[j] = IF template[j] = "REVIEW_TASK" THEN <<NewRound(seed)>> ELSE <<>>

LEMMA NewChainFresh ==
    ASSUME NEW n, NEW i, NEW seed, NEW template
    PROVE  Fresh(NewChain(n, i, seed, template), n, i, seed, template)
BY DEF NewChain, Fresh

-----------------------------------------------------------------------------
(* The queue.                                                              *)

\* Nothing that keeps the chains and the queue matters.
LEMMA QueueStays ==
    ASSUME NEW d, NEW r, QueueExact(d), r.chains = d.chains, r.queue = d.queue
    PROVE  QueueExact(r)
<1>1. ChainIds(r) = ChainIds(d)
  BY DEF ChainIds
<1>2. \A c \in ChainIds(d) : \A j \in DOMAIN d.chains[c].items : Ready(r, c, j)
  BY DEF QueueExact, Ready
<1> QED
  BY <1>1, <1>2 DEF QueueExact

LEMMA QueueRegister ==
    ASSUME NEW d, Sound(d), QueueExact(d), NEW r, NEW n, NEW i, Registers(d, r, n, i)
    PROVE  QueueExact(r)
<1> DEFINE c0 == Len(d.chains) + 1
           seed == Covered(d, n)
           template == d.config[i].template
<1>1. /\ r.queue = d.queue /\ ChainIds(r) = ChainIds(d) \cup {c0}
      /\ \A c \in ChainIds(d) : r.chains[c] = d.chains[c]
      /\ r.chains[c0] = NewChain(n, i, seed, template)
  BY DEF Registers
<1>2. \A k \in DOMAIN r.queue :
         r.queue[k].chain \in ChainIds(r) /\ Current(r.chains[r.queue[k].chain], r.queue[k])
  BY <1>1 DEF QueueExact
<1>3. ASSUME NEW c \in ChainIds(d), NEW j \in DOMAIN r.chains[c].items PROVE Ready(r, c, j)
  <2>1. r.chains[c] = d.chains[c] /\ Ready(d, c, j)
    BY <1>1, <1>3 DEF QueueExact
  <2> QED
    BY <1>1, <2>1 DEF Ready
<1>4. ASSUME NEW j \in DOMAIN r.chains[c0].items PROVE Ready(r, c0, j)
  <2> DEFINE chain == r.chains[c0]
  <2>1. /\ chain.items = template
        /\ chain.rounds[j] = IF template[j] = "REVIEW_TASK" THEN <<NewRound(seed)>> ELSE <<>>
    <3>1. Fresh(chain, n, i, seed, template)
      <4> HIDE DEF seed, template
      <4> QED
        BY <1>1, NewChainFresh
    <3> HIDE DEF chain, template
    <3>2. j \in DOMAIN chain.items
      BY <1>4 DEF chain
    <3> QED
      BY <3>1, <3>2 DEF Fresh
  <2> HIDE DEF chain, template
  <2>2. <<NewRound(seed)>> # <<>>
    OBVIOUS
  <2> QED
    BY <2>1, <2>2 DEF Ready, RoundOpen, chain
<1> QED
  BY <1>1, <1>2, <1>3, <1>4 DEF QueueExact

\* A batch in order names each of its tasks once.
LEMMA BatchInOrder ==
    ASSUME NEW B, IsFiniteSet(B), B \subseteq TaskId, Cardinality(B) \in Nat, NEW q \in InOrder(B)
    PROVE  /\ q \in Seq(TaskId) /\ DOMAIN q = 1 .. Cardinality(B)
           /\ \A j \in DOMAIN q : q[j] \in B
           /\ \A j, k \in DOMAIN q : q[j].chain = q[k].chain => j = k
           /\ \A b \in B : \E j \in DOMAIN q : q[j] = b
<1> DEFINE N == Cardinality(B)
<1>1. /\ q \in [1 .. N -> B]
      /\ \A j, k \in DOMAIN q : j < k => q[j].chain < q[k].chain
  BY DEF InOrder
<1> HIDE DEF N
<1>2. N \in Nat
  BY DEF N
<1>3. q \in Seq(TaskId) /\ DOMAIN q = 1 .. N /\ \A j \in DOMAIN q : q[j] \in B
  <2>1. q \in [1 .. N -> TaskId]
    BY <1>1
  <2> QED
    BY <1>1, <1>2, <2>1, FunctionIsSeq
<1>4. \A j, k \in DOMAIN q : q[j].chain = q[k].chain => j = k
  <2>1. \A j \in DOMAIN q : q[j].chain \in Nat
    BY <1>3 DEF TaskId
  <2>2. \A j, k \in DOMAIN q : j < k \/ k < j \/ j = k
    BY <1>2, <1>3
  <2>3. \A x, y \in Nat : x < y => x # y
    OBVIOUS
  <2> QED
    BY <1>1, <2>1, <2>2, <2>3
<1>5. q \in Injection(1 .. N, B)
  BY <1>1, <1>3, <1>4 DEF Injection, IsInjective
<1>6. Cardinality(1 .. N) = N
  BY <1>2, FS_Interval
<1>7. q \in Surjection(1 .. N, B)
  BY <1>5, <1>6, FS_Injection DEF N
<1> QED
  BY <1>3, <1>4, <1>7 DEF Surjection, N

\* With an empty queue no convergence has an open round.
LEMMA NoneOpen ==
    ASSUME NEW d, QueueExact(d), d.queue = <<>>, NEW c \in ChainIds(d),
           NEW j \in DOMAIN d.chains[c].items, d.chains[c].items[j] = "CONVERGENCE"
    PROVE  ~RoundOpen(d.chains[c], j)
<1>1. DOMAIN d.queue = {}
  OBVIOUS
<1> QED
  BY <1>1 DEF QueueExact, Ready

\* What a tick finds at the next head of a chain it manages, and leaves there.
LEMMA HeadAfterTick ==
    ASSUME NEW d, Sound(d), QueueExact(d), d.queue = <<>>,
           NEW c \in ChainIds(d), ~Exhausted(d, c), NEW chain, Steps(d, c, chain)
    PROVE  LET h == NextHead(d, c)
           IN  /\ h \in DOMAIN d.chains[c].items
               /\ Produces(d, c) <=> d.chains[c].items[h] = "CONVERGENCE"
               /\ chain.rounds[h] # <<>> /\ ~Last(chain.rounds[h]).done
<1> DEFINE old == d.chains[c]
           h == NextHead(d, c)
<1>1. /\ DOMAIN old.items = 1 .. Len(old.items) /\ DOMAIN old.rounds = DOMAIN old.items
      /\ \A j \in DOMAIN old.items : old.rounds[j] \in Seq(Round) /\ old.items[j] \in ItemKinds
      /\ old.seed \in SUBSET RecallPoint /\ old.node \in NodeIds(d)
  BY ChainParts
<1>2. h \in DOMAIN old.items /\ ~Finished(d, c, h)
  BY <1>1, NextHeadFacts
<1>3. Produces(d, c) <=> old.items[h] = "CONVERGENCE"
  BY <1>2, NoneOpen DEF Produces
<1>4. CASE Produces(d, c)
  <2> DEFINE round == NewRound(NextInput(d, c, h))
  <2>1. round \in Round /\ ~round.done
    <3>1. Covered(d, old.node) \in SUBSET RecallPoint
      BY <1>1, Parts DEF Sound
    <3>2. NextInput(d, c, h) \in SUBSET RecallPoint
      BY <1>1, <3>1 DEF NextInput
    <3> QED
      BY <3>2 DEF NewRound, Round
  <2> HIDE DEF round
  <2>2. chain.rounds[h] = Append(old.rounds[h], round)
    BY <1>1, <1>2, <1>4 DEF Steps, round
  <2>3. chain.rounds[h] # <<>> /\ Last(chain.rounds[h]) = round
    <3> DEFINE list == old.rounds[h]
    <3>1. list \in Seq(Round) /\ chain.rounds[h] = Append(list, round)
      BY <1>1, <1>2, <2>2
    <3> HIDE DEF list
    <3> QED
      BY <2>1, <3>1, LastOfAppend
  <2>4. ~Last(chain.rounds[h]).done
    BY <2>1, <2>3, Zenon
  <2> QED
    BY <1>2, <1>3, <2>3, <2>4
<1>5. CASE ~Produces(d, c)
  <2>1. old.items[h] = "REVIEW_TASK"
    BY <1>1, <1>2, <1>3, <1>5 DEF ItemKinds
  <2>2. old.rounds[h] # <<>>
    BY <1>2, <2>1 DEF QueueExact, Ready
  <2>3. ~Last(old.rounds[h]).done
    BY <1>2, <2>1, <2>2 DEF Finished
  <2>4. chain.rounds[h] = old.rounds[h]
    BY <1>1, <1>2, <1>5 DEF Steps
  <2> QED
    BY <1>2, <1>3, <2>2, <2>3, <2>4
<1> QED
  BY <1>4, <1>5

\* After a tick the queue holds one task for each chain that has work at its head.
LEMMA QueueTick ==
    ASSUME NEW d, Sound(d), QueueExact(d), NEW i \in LayerIds(d), GateOk(d, i),
           NEW q \in InOrder(Batch(d, i)), NEW r, Ticks(d, r, i, q)
    PROVE  QueueExact(r)
<1> DEFINE managed == d.layers[i].managed
           B == Batch(d, i)
           task(c) == [chain |-> c, item |-> NextHead(d, c),
                       round |-> Len(StepChain(d, c).rounds[NextHead(d, c)])]
           K == {k \in managed :
                    /\ ~Exhausted(d, k)
                    /\ Produces(d, k) \/ d.chains[k].items[NextHead(d, k)] = "REVIEW_TASK"}
<1>1. d.queue = <<>> /\ managed \subseteq ChainIds(d)
  BY DEF GateOk, Sound, SoundLayer, Unfinished
<1>2. /\ r.queue = q /\ ChainIds(r) = ChainIds(d)
      /\ \A c \in managed : Steps(d, c, r.chains[c])
      /\ \A c \in ChainIds(d) \ managed : r.chains[c] = d.chains[c]
  BY DEF Ticks
<1>3. /\ DOMAIN q = 1 .. Cardinality(B)
      /\ \A j \in DOMAIN q : q[j] \in B
      /\ \A j, k \in DOMAIN q : q[j].chain = q[k].chain => j = k
      /\ \A b \in B : \E j \in DOMAIN q : q[j] = b
  BY BatchFacts, BatchInOrder
<1>4. B = {task(c) : c \in K}
  BY DEF Batch
<1> HIDE DEF B, managed
<1>5. ASSUME NEW c \in K PROVE Current(r.chains[c], task(c))
  <2> DEFINE h == NextHead(d, c)
             old == d.chains[c]
             new == r.chains[c]
             step == StepChain(d, c)
  <2>1. c \in ChainIds(d) /\ ~Exhausted(d, c) /\ Steps(d, c, new) /\ Steps(d, c, step)
    BY <1>1, <1>2, StepChainFacts
  <2>2. h \in DOMAIN old.items /\ new.rounds[h] # <<>> /\ ~Last(new.rounds[h]).done
    BY <1>1, <2>1, HeadAfterTick
  <2>3. new.items = old.items /\ new.head = h /\ DOMAIN old.rounds = DOMAIN old.items
    BY <2>1, ChainParts DEF Steps
  <2>4. step.rounds[h] = new.rounds[h]
    <3>1. h \in DOMAIN old.rounds
      BY <2>2, <2>3
    <3> HIDE DEF new, step
    <3> QED
      BY <2>1, <3>1 DEF Steps
  <2> HIDE DEF h, old, new, step
  <2>5. task(c).item = h /\ task(c).round = Len(new.rounds[h])
    BY <2>4 DEF h, step
  <2> HIDE DEF task
  <2>6. Current(new, task(c))
    BY <2>2, <2>3, <2>5, Zenon DEF Current, RoundOpen
  <2> QED
    BY <2>6 DEF new
<1>6. ASSUME NEW k \in DOMAIN q PROVE q[k].chain \in ChainIds(r) /\ Current(r.chains[q[k].chain], q[k])
  <2>1. PICK c \in K : q[k] = task(c)
    BY <1>3, <1>4
  <2>2. q[k].chain = c
    BY <2>1
  <2> QED
    BY <1>1, <1>2, <1>5, <2>1, <2>2
<1>7. ASSUME NEW c \in ChainIds(d), NEW j \in DOMAIN r.chains[c].items PROVE Ready(r, c, j)
  <2> DEFINE old == d.chains[c]
             new == r.chains[c]
  <2>1. CASE new.items = old.items /\ new.rounds[j] = old.rounds[j]
    <3>1. j \in DOMAIN old.items /\ Ready(d, c, j)
      BY <1>7, <2>1 DEF QueueExact
    <3>2. old.items[j] = "REVIEW_TASK" => old.rounds[j] # <<>>
      BY <3>1 DEF Ready
    <3>3. ASSUME old.items[j] = "CONVERGENCE" PROVE ~RoundOpen(old, j)
      <4>1. d.queue = <<>> /\ QueueExact(d) /\ c \in ChainIds(d)
        BY <1>1, <1>7
      <4> QED
        BY <3>1, <3>3, <4>1, NoneOpen
    <3> HIDE DEF old, new
    <3> QED
      BY <2>1, <3>2, <3>3 DEF Ready, RoundOpen, new
  <2>2. CASE /\ c \in managed /\ j = NextHead(d, c) /\ Produces(d, c)
    <3>1. ~Exhausted(d, c) /\ c \in K
      BY <2>2 DEF Produces
    <3>2. new.items[j] = "CONVERGENCE" /\ new.rounds[j] # <<>>
      BY <1>1, <1>2, <2>2, <3>1, HeadAfterTick DEF Steps
    <3>3. PICK k \in DOMAIN q : q[k] = task(c)
      BY <1>3, <1>4, <3>1
    <3>4. q[k].chain = c /\ q[k].item = j
      BY <2>2, <3>3
    <3> QED
      BY <1>2, <3>2, <3>3, <3>4 DEF Ready
  <2>3. new.items = old.items /\ DOMAIN old.rounds = DOMAIN old.items
    BY <1>2, ChainParts DEF Steps
  <2>4. CASE c \in managed /\ ~(j = NextHead(d, c) /\ Produces(d, c))
    BY <1>2, <1>7, <2>1, <2>3, <2>4 DEF Steps
  <2>5. CASE c \notin managed
    BY <1>2, <2>1, <2>5
  <2> QED
    BY <2>2, <2>4, <2>5
<1> QED
  BY <1>2, <1>3, <1>6, <1>7 DEF QueueExact

\* A tick after which the queue is empty has finished every chain of the layer.
LEMMA EmptyTick ==
    ASSUME NEW d, Sound(d), QueueExact(d), NEW i \in LayerIds(d), GateOk(d, i),
           <<>> \in InOrder(Batch(d, i))
    PROVE  StillManaged(d, i) = {}
<1>1. d.queue = <<>> /\ d.layers[i].managed \subseteq ChainIds(d)
  BY DEF GateOk, Sound, SoundLayer, Unfinished
<1>2. Batch(d, i) = {}
  <2>1. \A b \in Batch(d, i) : \E j \in DOMAIN <<>> : <<>>[j] = b
    BY BatchFacts, BatchInOrder
  <2>2. DOMAIN <<>> = {}
    OBVIOUS
  <2> QED
    BY <2>1, <2>2
<1>3. ASSUME NEW c \in d.layers[i].managed, ~Exhausted(d, c) PROVE FALSE
  <2>1. ~Produces(d, c) /\ d.chains[c].items[NextHead(d, c)] # "REVIEW_TASK"
    BY <1>2, <1>3 DEF Batch
  <2>2. c \in ChainIds(d) /\ Steps(d, c, StepChain(d, c))
    BY <1>1, <1>3, StepChainFacts
  <2>3. /\ NextHead(d, c) \in DOMAIN d.chains[c].items
        /\ d.chains[c].items[NextHead(d, c)] # "CONVERGENCE"
    BY <1>1, <1>3, <2>1, <2>2, HeadAfterTick
  <2>4. d.chains[c].items[NextHead(d, c)] \in ItemKinds
    BY <2>2, <2>3, ChainParts
  <2> QED
    BY <2>1, <2>3, <2>4 DEF ItemKinds
<1> QED
  BY <1>3 DEF StillManaged

\* The head task is answered and leaves the queue.
LEMMA QueueExecute ==
    ASSUME NEW d, Sound(d), QueueExact(d), d.queue # <<>>, NEW missed \in SUBSET RecallPoint,
           NEW r, Executes(d, r, Head(d.queue), missed)
    PROVE  QueueExact(r)
<1> DEFINE q == d.queue[1]
           c0 == q.chain
           old == d.chains[c0]
           new == r.chains[c0]
<1>1. /\ d.queue \in Seq(TaskId) /\ Len(d.queue) \in Nat \ {0} /\ DOMAIN d.queue = 1 .. Len(d.queue)
      /\ Head(d.queue) = q /\ 1 \in DOMAIN d.queue
  BY Parts, SeqIsFunction, EmptySeq DEF Sound
<1>2. /\ r.queue = Tail(d.queue) /\ ChainIds(r) = ChainIds(d)
      /\ \A c \in ChainIds(d) \ {c0} : r.chains[c] = d.chains[c]
      /\ Answers(old, new, q, missed)
  BY <1>1 DEF Executes
<1>3. /\ DOMAIN r.queue = 1 .. Len(d.queue) - 1
      /\ \A k \in DOMAIN r.queue : k + 1 \in DOMAIN d.queue /\ k + 1 # 1 /\ r.queue[k] = d.queue[k + 1]
  <2>1. /\ Tail(d.queue) \in Seq(TaskId) /\ Len(Tail(d.queue)) = Len(d.queue) - 1
        /\ \A k \in 1 .. Len(Tail(d.queue)) : Tail(d.queue)[k] = d.queue[k + 1]
    BY <1>1, HeadTailProperties
  <2>2. DOMAIN Tail(d.queue) = 1 .. Len(d.queue) - 1
    BY <2>1, SeqIsFunction
  <2> QED
    BY <1>1, <1>2, <2>1, <2>2
<1>4. c0 \in ChainIds(d) /\ Current(old, q)
  BY <1>1 DEF QueueExact
<1>5. ASSUME NEW k \in DOMAIN r.queue
      PROVE  /\ r.queue[k].chain \in ChainIds(d) \ {c0}
             /\ Current(r.chains[r.queue[k].chain], r.queue[k])
  <2>1. k + 1 \in DOMAIN d.queue /\ k + 1 # 1 /\ r.queue[k] = d.queue[k + 1]
    BY <1>3, <1>5
  <2>2. d.queue[k + 1].chain # c0
    BY <1>1, <2>1 DEF QueueExact
  <2>3. d.queue[k + 1].chain \in ChainIds(d) /\ Current(d.chains[d.queue[k + 1].chain], d.queue[k + 1])
    BY <2>1 DEF QueueExact
  <2> QED
    BY <1>2, <2>1, <2>2, <2>3
<1>6. \A j, k \in DOMAIN r.queue : r.queue[j].chain = r.queue[k].chain => j = k
  <2>1. ASSUME NEW j \in DOMAIN r.queue, NEW k \in DOMAIN r.queue, r.queue[j].chain = r.queue[k].chain
        PROVE  j = k
    <3>1. j + 1 = k + 1
      BY <1>3, <2>1 DEF QueueExact
    <3> QED
      BY <1>1, <1>3, <3>1
  <2> QED
    BY <2>1
<1>7. ASSUME NEW c \in ChainIds(d), NEW j \in DOMAIN r.chains[c].items PROVE Ready(r, c, j)
  <2>1. CASE c = c0 /\ j = q.item
    <3>1. DOMAIN old.rounds = DOMAIN old.items /\ \A k \in DOMAIN old.items : old.rounds[k] \in Seq(Round)
      BY <1>4, ChainParts
    <3>2. /\ j \in DOMAIN old.items /\ q.round = Len(old.rounds[j]) /\ old.rounds[j] # <<>>
          /\ new.rounds[j] = Answered(old.rounds[j], missed)
      BY <1>2, <1>4, <2>1, <3>1 DEF Current, RoundOpen, Answers, Answered
    <3>3. new.rounds[j] # <<>> /\ Last(new.rounds[j]).done
      <4> DEFINE list == old.rounds[j]
      <4>1. list \in Seq(Round) /\ list # <<>>
        BY <3>1, <3>2
      <4> HIDE DEF list
      <4>2. Answered(list, missed) # <<>> /\ Last(Answered(list, missed)).done
        BY <4>1, LastAnswered
      <4> QED
        BY <3>2, <4>2 DEF list
    <3> QED
      BY <2>1, <3>3 DEF Ready, RoundOpen
  <2>2. CASE /\ r.chains[c].items = d.chains[c].items /\ r.chains[c].rounds[j] = d.chains[c].rounds[j]
             /\ c = c0 => j # q.item
    <3>1. Ready(d, c, j)
      BY <1>7, <2>2 DEF QueueExact
    <3>2. ASSUME d.chains[c].items[j] = "CONVERGENCE", RoundOpen(d.chains[c], j)
          PROVE  \E k \in DOMAIN r.queue : r.queue[k].chain = c /\ r.queue[k].item = j
      <4>1. PICK k \in DOMAIN d.queue : d.queue[k].chain = c /\ d.queue[k].item = j
        BY <3>1, <3>2 DEF Ready
      <4>2. k # 1
        BY <2>2, <4>1
      <4>3. k - 1 \in DOMAIN r.queue /\ r.queue[k - 1] = d.queue[k]
        BY <1>1, <1>3, <4>1, <4>2
      <4> QED
        BY <4>1, <4>3
    <3> QED
      BY <2>2, <3>1, <3>2 DEF Ready, RoundOpen
  <2>3. CASE c = c0 /\ j # q.item
    <3>1. r.chains[c].items = d.chains[c].items
      BY <1>2, <2>3 DEF Answers
    <3>2. r.chains[c].rounds[j] = d.chains[c].rounds[j]
      <4>1. j \in DOMAIN old.rounds
        BY <1>4, <1>7, <2>3, <3>1, ChainParts
      <4> QED
        BY <1>2, <2>3, <4>1 DEF Answers
    <3> QED
      BY <2>2, <2>3, <3>1, <3>2
  <2>4. CASE c # c0
    BY <1>2, <2>2, <2>4
  <2> QED
    BY <2>1, <2>3, <2>4
<1> QED
  BY <1>2, <1>5, <1>6, <1>7 DEF QueueExact

-----------------------------------------------------------------------------
(* What a convergence promises.                                            *)

\* Point r was recalled in a finished round of the list.
Recalled(rounds, r) == \E k \in DOMAIN rounds : rounds[k].done /\ r \in rounds[k].input \ rounds[k].focus

\* No round has been produced, r was recalled, or the last round is about r or missed it.
Tracked(rounds, r) ==
    \/ rounds = <<>>
    \/ Recalled(rounds, r)
    \/ Last(rounds).done /\ r \in Last(rounds).focus
    \/ ~Last(rounds).done /\ r \in Last(rounds).input

ChainTracked(d, chain) ==
    /\ chain.seed \subseteq d.nodes[chain.node].items
    /\ \A j \in DOMAIN chain.items : chain.items[j] = "CONVERGENCE" =>
          \A r \in chain.seed \ d.deleted :
              /\ Tracked(chain.rounds[j], r)
              /\ j < chain.head => Recalled(chain.rounds[j], r)

AllTracked(d) == \A c \in ChainIds(d) : ChainTracked(d, d.chains[c])

LEMMA TrackedStays ==
    ASSUME NEW d, Sound(d), AllTracked(d), NEW r, r.chains = d.chains, d.deleted \subseteq r.deleted,
           \A n \in NodeIds(d) : r.nodes[n].items = d.nodes[n].items
    PROVE  AllTracked(r)
<1>1. ASSUME NEW c \in ChainIds(d) PROVE ChainTracked(r, d.chains[c])
  <2>1. d.chains[c].node \in NodeIds(d) /\ ChainTracked(d, d.chains[c])
    BY ChainParts DEF AllTracked
  <2> QED
    BY <2>1 DEF ChainTracked
<1> QED
  BY <1>1 DEF AllTracked, ChainIds

LEMMA TrackedRegister ==
    ASSUME NEW d, Sound(d), AllTracked(d), NEW r, NEW n, NEW i, Registers(d, r, n, i),
           i \in LayerIds(d)
    PROVE  AllTracked(r)
<1> DEFINE c0 == Len(d.chains) + 1
           seed == Covered(d, n)
           template == d.config[i].template
           new == r.chains[c0]
<1>1. /\ r.nodes = d.nodes /\ r.deleted = d.deleted /\ ChainIds(r) = ChainIds(d) \cup {c0}
      /\ \A c \in ChainIds(d) : r.chains[c] = d.chains[c]
      /\ new = NewChain(n, i, seed, template)
  BY DEF Registers
<1>2. DOMAIN template = 1 .. Len(template) /\ Len(template) \in Nat
  BY ConfigFacts, SeqIsFunction
<1>3. seed \subseteq d.nodes[n].items
  BY DEF Covered
<1> HIDE DEF seed, template, new, c0
<1>4. Fresh(new, n, i, seed, template)
  BY <1>1, NewChainFresh
<1>5. ChainTracked(r, new)
  <2>1. \A j \in DOMAIN new.items : new.items[j] = "CONVERGENCE" => new.rounds[j] = <<>> /\ ~(j < new.head)
    BY <1>2, <1>4 DEF Fresh
  <2>2. new.seed \subseteq r.nodes[new.node].items
    BY <1>1, <1>3, <1>4 DEF Fresh
  <2> QED
    BY <2>1, <2>2 DEF ChainTracked, Tracked
<1>6. ASSUME NEW c \in ChainIds(d) PROVE ChainTracked(r, r.chains[c])
  BY <1>1 DEF AllTracked, ChainTracked
<1> QED
  BY <1>1, <1>5, <1>6 DEF AllTracked, new

LEMMA AppendTracked ==
    ASSUME NEW s \in Seq(Round), NEW x \in Round, NEW r, ~x.done
    PROVE  /\ Recalled(s, r) => Recalled(Append(s, x), r)
           /\ r \in x.input => Tracked(Append(s, x), r)
<1> DEFINE t == Append(s, x)
<1>1. /\ DOMAIN s = 1 .. Len(s) /\ DOMAIN t = 1 .. Len(s) + 1 /\ Len(s) \in Nat
      /\ \A k \in DOMAIN s : t[k] = s[k]
  BY SeqIsFunction
<1>2. Last(t) = x
  BY LastOfAppend
<1> HIDE DEF t
<1>3. DOMAIN s \subseteq DOMAIN t
  BY <1>1
<1>4. Recalled(s, r) => Recalled(t, r)
  BY <1>1, <1>3 DEF Recalled
<1>5. r \in x.input => Tracked(t, r)
  BY <1>2 DEF Tracked
<1> QED
  BY <1>4, <1>5 DEF t

LEMMA AnsweredTracked ==
    ASSUME NEW s \in Seq(Round), s # <<>>, ~Last(s).done, NEW missed \in SUBSET RecallPoint, NEW r
    PROVE  /\ Recalled(s, r) => Recalled(Answered(s, missed), r)
           /\ Tracked(s, r) => Tracked(Answered(s, missed), r)
<1> DEFINE t == Answered(s, missed)
           n == Len(s)
<1>1. /\ t # <<>> /\ DOMAIN t = DOMAIN s /\ n \in DOMAIN s /\ Len(t) = n
      /\ Last(t).input = Last(s).input /\ Last(t).done /\ Last(t).focus = missed
      /\ \A k \in DOMAIN s \ {n} : t[k] = s[k]
  BY LastAnswered
<1> HIDE DEF t
<1>2. Last(s) = s[n] /\ Last(t) = t[n]
  BY <1>1 DEF Last
<1> HIDE DEF n
<1>3. Recalled(s, r) => Recalled(t, r)
  BY <1>1, <1>2 DEF Recalled
<1>4. Tracked(s, r) => Tracked(t, r)
  <2>1. r \in Last(s).input => Recalled(t, r) \/ r \in Last(t).focus
    BY <1>1, <1>2 DEF Recalled
  <2> QED
    BY <1>1, <1>3, <2>1 DEF Tracked
<1> QED
  BY <1>3, <1>4 DEF t

\* What a chain has moved past was recalled; what it produces is about every point
\* that is still to be recalled.
LEMMA StepTracked ==
    ASSUME NEW d, Sound(d), NEW c \in ChainIds(d), ChainTracked(d, d.chains[c]),
           NEW chain, Steps(d, c, chain)
    PROVE  ChainTracked(d, chain)
<1> DEFINE old == d.chains[c]
           h == NextHead(d, c)
           points == old.seed \ d.deleted
<1>1. /\ DOMAIN old.items = 1 .. Len(old.items) /\ Len(old.items) \in Nat
      /\ DOMAIN old.rounds = DOMAIN old.items /\ old.node \in NodeIds(d)
      /\ old.seed \in SUBSET RecallPoint /\ old.head \in 1 .. Len(old.items) + 1
      /\ \A j \in DOMAIN old.items : old.rounds[j] \in Seq(Round)
  BY ChainParts
<1>2. /\ chain.node = old.node /\ chain.seed = old.seed /\ chain.items = old.items /\ chain.head = h
      /\ \A j \in DOMAIN old.items :
            chain.rounds[j] = IF j = h /\ Produces(d, c)
                              THEN Append(old.rounds[j], NewRound(NextInput(d, c, j)))
                              ELSE old.rounds[j]
  BY <1>1 DEF Steps
<1>3. /\ old.seed \subseteq d.nodes[old.node].items
      /\ \A j \in DOMAIN old.items : old.items[j] = "CONVERGENCE" =>
            \A r \in points :
                /\ Tracked(old.rounds[j], r)
                /\ j < old.head => Recalled(old.rounds[j], r)
  <2>1. ChainTracked(d, old)
    OBVIOUS
  <2> HIDE DEF old
  <2> QED
    BY <2>1 DEF ChainTracked, points
<1>4. points \subseteq Covered(d, old.node)
  BY <1>3 DEF Covered
<1>5. h \in Nat /\ \A j \in old.head .. h - 1 : Finished(d, c, j)
  BY NextHeadFacts
<1> HIDE DEF old, h, points
<1>6. ASSUME NEW j \in DOMAIN old.items, old.items[j] = "CONVERGENCE", NEW r \in points
      PROVE  /\ Tracked(chain.rounds[j], r)
             /\ j < h => Recalled(chain.rounds[j], r)
  <2>1. old.rounds[j] # <<>> /\ Last(old.rounds[j]).done /\ r \in Last(old.rounds[j]).focus
           => r \in NextInput(d, c, j)
    BY <1>4, <1>6 DEF NextInput, old
  <2>2. old.rounds[j] = <<>> => r \in NextInput(d, c, j)
    BY <1>6 DEF NextInput, old, points
  <2>3. Tracked(old.rounds[j], r)
    BY <1>3, <1>6
  <2>4. CASE j = h /\ Produces(d, c)
    <3> DEFINE x == NewRound(NextInput(d, c, j))
               s == old.rounds[j]
    <3>1. x \in Round /\ ~x.done /\ x.input = NextInput(d, c, j)
      <4>1. Covered(d, old.node) \in SUBSET RecallPoint
        BY <1>1, Parts DEF Sound
      <4>2. NextInput(d, c, j) \in SUBSET RecallPoint
        BY <1>1, <4>1 DEF NextInput, old
      <4> QED
        BY <4>2 DEF NewRound, Round
    <3>2. chain.rounds[j] = Append(s, x) /\ s \in Seq(Round)
      BY <1>1, <1>2, <2>4
    <3>3. s = <<>> \/ Last(s).done
      BY <2>4 DEF Produces, RoundOpen, h, old
    <3> HIDE DEF x, s
    <3>4. /\ Recalled(s, r) => Recalled(Append(s, x), r)
          /\ r \in x.input => Tracked(Append(s, x), r)
      BY <3>1, <3>2, AppendTracked
    <3>5. Recalled(s, r) \/ r \in NextInput(d, c, j)
      BY <2>1, <2>2, <2>3, <3>3 DEF Tracked, s
    <3>6. Tracked(chain.rounds[j], r)
      BY <3>1, <3>2, <3>4, <3>5 DEF Tracked
    <3> QED
      BY <1>5, <2>4, <3>6
  <2>5. CASE ~(j = h /\ Produces(d, c))
    <3>1. chain.rounds[j] = old.rounds[j]
      BY <1>2, <2>5
    <3>2. ASSUME j < h, ~(j < old.head) PROVE Recalled(old.rounds[j], r)
      <4>1. Finished(d, c, j)
        BY <1>1, <1>5, <3>2
      <4>2. /\ old.rounds[j] # <<>> /\ Last(old.rounds[j]).done
            /\ Last(old.rounds[j]).focus = {} \/ NextInput(d, c, j) = {}
        BY <1>6, <4>1 DEF Finished, old
      <4> QED
        BY <2>1, <2>3, <4>2 DEF Tracked
    <3> QED
      BY <1>3, <1>6, <2>3, <3>1, <3>2
  <2> QED
    BY <2>4, <2>5
<1> QED
  BY <1>2, <1>3, <1>6 DEF ChainTracked, points

LEMMA TrackedTick ==
    ASSUME NEW d, Sound(d), AllTracked(d), NEW i \in LayerIds(d), NEW q, NEW r, Ticks(d, r, i, q)
    PROVE  AllTracked(r)
<1>1. /\ r.nodes = d.nodes /\ r.deleted = d.deleted /\ ChainIds(r) = ChainIds(d)
      /\ \A c \in d.layers[i].managed : Steps(d, c, r.chains[c])
      /\ \A c \in ChainIds(d) \ d.layers[i].managed : r.chains[c] = d.chains[c]
  BY DEF Ticks
<1>2. ASSUME NEW c \in ChainIds(d) PROVE ChainTracked(d, r.chains[c])
  BY <1>1, StepTracked DEF AllTracked
<1> QED
  BY <1>1, <1>2 DEF AllTracked, ChainTracked

LEMMA TrackedExecute ==
    ASSUME NEW d, Sound(d), QueueExact(d), AllTracked(d), d.queue # <<>>,
           NEW missed \in SUBSET RecallPoint, NEW r, Executes(d, r, Head(d.queue), missed)
    PROVE  AllTracked(r)
<1> DEFINE q == d.queue[1]
           c0 == q.chain
           old == d.chains[c0]
           new == r.chains[c0]
<1>1. Head(d.queue) = q /\ 1 \in DOMAIN d.queue
  BY Parts, SeqIsFunction, EmptySeq DEF Sound
<1>2. /\ r.nodes = d.nodes /\ r.deleted = d.deleted /\ ChainIds(r) = ChainIds(d)
      /\ \A c \in ChainIds(d) \ {c0} : r.chains[c] = d.chains[c]
      /\ Answers(old, new, q, missed)
  BY <1>1 DEF Executes
<1>3. c0 \in ChainIds(d) /\ Current(old, q) /\ ChainTracked(d, old)
  BY <1>1 DEF QueueExact, AllTracked
<1>4. /\ DOMAIN old.items = 1 .. Len(old.items) /\ DOMAIN old.rounds = DOMAIN old.items
      /\ \A j \in DOMAIN old.items : old.rounds[j] \in Seq(Round)
  BY <1>3, ChainParts
<1> HIDE DEF q, c0, old, new
<1>5. /\ new.node = old.node /\ new.seed = old.seed /\ new.items = old.items /\ new.head = old.head
      /\ \A j \in DOMAIN old.items :
            new.rounds[j] = IF j = q.item THEN Answered(old.rounds[j], missed) ELSE old.rounds[j]
  <2>1. /\ new.node = old.node /\ new.seed = old.seed /\ new.items = old.items /\ new.head = old.head
        /\ \A j \in DOMAIN old.items :
              new.rounds[j] = IF j = q.item THEN [old.rounds[j] EXCEPT ![q.round] = Executed(@, missed)]
                                            ELSE old.rounds[j]
    BY <1>2, <1>4 DEF Answers
  <2>2. q.item \in DOMAIN old.items /\ q.round = Len(old.rounds[q.item])
    BY <1>3 DEF Current
  <2>3. new.rounds[q.item] = [old.rounds[q.item] EXCEPT ![q.round] = Executed(@, missed)]
    BY <2>1, <2>2
  <2>4. new.rounds[q.item] = Answered(old.rounds[q.item], missed)
    BY <2>2, <2>3 DEF Answered
  <2> QED
    BY <2>1, <2>4
<1>6. ASSUME NEW j \in DOMAIN old.items, NEW x
      PROVE  /\ Recalled(old.rounds[j], x) => Recalled(new.rounds[j], x)
             /\ Tracked(old.rounds[j], x) => Tracked(new.rounds[j], x)
  <2>1. CASE j = q.item
    <3> DEFINE s == old.rounds[j]
    <3>1. s \in Seq(Round) /\ s # <<>> /\ ~Last(s).done
      BY <1>3, <1>4, <1>6, <2>1 DEF Current, RoundOpen
    <3> HIDE DEF s
    <3>2. /\ Recalled(s, x) => Recalled(Answered(s, missed), x)
          /\ Tracked(s, x) => Tracked(Answered(s, missed), x)
      BY <3>1, AnsweredTracked
    <3> QED
      BY <1>5, <2>1, <3>2 DEF s
  <2>2. CASE j # q.item
    BY <1>5, <2>2
  <2> QED
    BY <2>1, <2>2
<1>7. ChainTracked(r, new)
  <2>1. new.seed \subseteq r.nodes[new.node].items
    BY <1>2, <1>3, <1>5 DEF ChainTracked
  <2>2. \A j \in DOMAIN new.items : new.items[j] = "CONVERGENCE" =>
           \A x \in new.seed \ r.deleted :
               /\ Tracked(new.rounds[j], x)
               /\ j < new.head => Recalled(new.rounds[j], x)
    <3>1. \A j \in DOMAIN old.items : old.items[j] = "CONVERGENCE" =>
             \A x \in old.seed \ d.deleted :
                 /\ Tracked(old.rounds[j], x)
                 /\ j < old.head => Recalled(old.rounds[j], x)
      BY <1>3 DEF ChainTracked
    <3> QED
      BY <1>2, <1>5, <1>6, <3>1
  <2> QED
    BY <2>1, <2>2, Zenon DEF ChainTracked
<1>8. ASSUME NEW c \in ChainIds(d) \ {c0} PROVE ChainTracked(r, r.chains[c])
  BY <1>2 DEF AllTracked, ChainTracked
<1> QED
  BY <1>2, <1>7, <1>8 DEF AllTracked, new

-----------------------------------------------------------------------------
(* The order of reviews and roll-ups.                                      *)

HasChain(d, n, i) == \E c \in ChainIds(d) : d.chains[c].node = n /\ d.chains[c].layer = i

NodeFinished(d, n) ==
    \E c \in ChainIds(d) : d.chains[c].node = n /\ d.chains[c].head > Len(d.chains[c].items)

KidsFinished(d, p) == \A n \in SeqRange(d.nodes[p].kids) : NodeFinished(d, n)

\* What waits on layer i, or is below the parent pending there, has a chain there.
ChainsBelow(d, i, layer) ==
    /\ \A n \in SeqRange(layer.agg) : HasChain(d, n, i)
    /\ layer.pending # None => \A n \in SeqRange(d.nodes[layer.pending].kids) : HasChain(d, n, i)

\* A parent is registered, or in ROLL_UP, only when the chains below it are finished.
InOrderOfReview(d) ==
    /\ \A i \in LayerIds(d) : ChainsBelow(d, i, d.layers[i])
    /\ \A i \in InCycle(d, "ROLL_UP") : KidsFinished(d, d.layers[i].pending)
    /\ \A c \in ChainIds(d) : KidsFinished(d, d.chains[c].node)

\* The chains stay with their nodes and layers, and finished ones stay finished.
KeepsChains(d, r) ==
    \A c \in ChainIds(d) :
        /\ c \in ChainIds(r)
        /\ r.chains[c].node = d.chains[c].node /\ r.chains[c].layer = d.chains[c].layer
        /\ d.chains[c].head > Len(d.chains[c].items) => r.chains[c].head > Len(r.chains[c].items)

LEMMA ChainsKept ==
    ASSUME NEW d, NEW r, KeepsChains(d, r)
    PROVE  /\ \A n, i : HasChain(d, n, i) => HasChain(r, n, i)
           /\ \A n : NodeFinished(d, n) => NodeFinished(r, n)
           /\ \A p : r.nodes[p].kids = d.nodes[p].kids /\ KidsFinished(d, p) => KidsFinished(r, p)
<1>1. \A n, i : HasChain(d, n, i) => HasChain(r, n, i)
  BY DEF KeepsChains, HasChain
<1>2. \A n : NodeFinished(d, n) => NodeFinished(r, n)
  BY DEF KeepsChains, NodeFinished
<1> QED
  BY <1>1, <1>2 DEF KidsFinished

LEMMA LayerParts ==
    ASSUME NEW d, Sound(d), NEW i \in LayerIds(d)
    PROVE  LET layer == d.layers[i]
           IN  /\ layer.agg \in Seq(Nat) /\ SeqRange(layer.agg) \subseteq NodeIds(d)
               /\ layer.pending \in NodeIds(d) \cup {None} /\ None \notin NodeIds(d)
               /\ layer.pending # None <=> layer.cycle # "DONE"
<1>1. d.layers[i] \in LayerType /\ SoundLayer(d, i, d.layers[i])
  BY Parts DEF Sound
<1>2. None \notin NodeIds(d)
  BY Parts DEF Sound, None
<1> QED
  BY <1>1, <1>2 DEF LayerType, SoundLayer

\* Layers that lose no more than a pending parent, or gain no more than a ROLL_UP
\* that was waited for; new layers are empty.
LEMMA OrderLayers ==
    ASSUME NEW d, Sound(d), InOrderOfReview(d), NEW r, r.nodes = d.nodes, KeepsChains(d, r),
           \A c \in ChainIds(r) : c \in ChainIds(d),
           \A i \in LayerIds(r) :
              \/ /\ r.layers[i].agg = <<>> /\ r.layers[i].pending = None
                 /\ r.layers[i].cycle # "ROLL_UP"
              \/ /\ i \in LayerIds(d) /\ r.layers[i].agg = d.layers[i].agg
                 /\ r.layers[i].pending \in {d.layers[i].pending, None}
                 /\ r.layers[i].cycle = "ROLL_UP" =>
                       /\ r.layers[i].pending = d.layers[i].pending
                       /\ i \in InCycle(d, "ROLL_UP") \/ KidsFinished(r, r.layers[i].pending)
    PROVE  InOrderOfReview(r)
<1>1. /\ \A n, i : HasChain(d, n, i) => HasChain(r, n, i)
      /\ \A p : KidsFinished(d, p) => KidsFinished(r, p)
  BY ChainsKept
<1>2. ASSUME NEW i \in LayerIds(r) PROVE ChainsBelow(r, i, r.layers[i])
  <2>1. CASE r.layers[i].agg = <<>> /\ r.layers[i].pending = None
    BY <2>1 DEF ChainsBelow, SeqRange
  <2>2. CASE /\ i \in LayerIds(d) /\ r.layers[i].agg = d.layers[i].agg
             /\ r.layers[i].pending \in {d.layers[i].pending, None}
    BY <1>1, <2>2 DEF InOrderOfReview, ChainsBelow
  <2> QED
    BY <2>1, <2>2
<1>3. ASSUME NEW i \in InCycle(r, "ROLL_UP") PROVE KidsFinished(r, r.layers[i].pending)
  <2>1. i \in LayerIds(r) /\ r.layers[i].cycle = "ROLL_UP"
    BY DEF InCycle
  <2>2. r.layers[i].pending = d.layers[i].pending
    BY <2>1
  <2>3. i \in InCycle(d, "ROLL_UP") \/ KidsFinished(r, r.layers[i].pending)
    BY <2>1
  <2> QED
    BY <1>1, <2>2, <2>3 DEF InOrderOfReview
<1>4. ASSUME NEW c \in ChainIds(r) PROVE KidsFinished(r, r.chains[c].node)
  BY <1>1 DEF InOrderOfReview, KeepsChains
<1> QED
  BY <1>2, <1>3, <1>4 DEF InOrderOfReview

LEMMA OrderAddLeaf ==
    ASSUME NEW d, Sound(d), InOrderOfReview(d), NEW r, AddsLeaf(d, r)
    PROVE  InOrderOfReview(r) /\ KidsFinished(r, Len(d.nodes) + 1)
<1> DEFINE p == Len(d.nodes) + 1
<1>1. /\ r.chains = d.chains /\ r.layers = d.layers
      /\ \A m \in NodeIds(d) : r.nodes[m] = d.nodes[m]
      /\ r.nodes[p].kids = <<>>
  BY DEF AddsLeaf, KeepsReviews
<1> HIDE DEF p
<1>2. /\ \A n, i : HasChain(d, n, i) => HasChain(r, n, i)
      /\ \A m \in NodeIds(d) : KidsFinished(d, m) => KidsFinished(r, m)
  BY <1>1 DEF HasChain, KidsFinished, NodeFinished, ChainIds
<1>3. ASSUME NEW i \in LayerIds(r) PROVE i \in LayerIds(d) /\ ChainsBelow(r, i, r.layers[i])
  <2>1. i \in LayerIds(d)
    BY <1>1 DEF LayerIds
  <2>2. d.layers[i].pending \in NodeIds(d) \cup {None}
    BY <2>1, LayerParts
  <2>3. ChainsBelow(d, i, d.layers[i])
    BY <2>1 DEF InOrderOfReview
  <2> QED
    BY <1>1, <1>2, <2>1, <2>2, <2>3 DEF ChainsBelow
<1>4. ASSUME NEW i \in InCycle(r, "ROLL_UP") PROVE KidsFinished(r, r.layers[i].pending)
  <2>1. i \in LayerIds(d) /\ i \in InCycle(d, "ROLL_UP") /\ d.layers[i].cycle = "ROLL_UP"
    BY <1>1 DEF InCycle, LayerIds
  <2>2. d.layers[i].pending \in NodeIds(d)
    BY <2>1, LayerParts
  <2> QED
    BY <1>1, <1>2, <2>1, <2>2 DEF InOrderOfReview
<1>5. ASSUME NEW c \in ChainIds(r) PROVE KidsFinished(r, r.chains[c].node)
  <2>1. c \in ChainIds(d) /\ r.chains[c] = d.chains[c]
    BY <1>1 DEF ChainIds
  <2>2. d.chains[c].node \in NodeIds(d)
    BY <2>1, ChainParts
  <2> QED
    BY <1>2, <2>1, <2>2 DEF InOrderOfReview
<1>6. KidsFinished(r, p)
  BY <1>1 DEF KidsFinished, SeqRange
<1> QED
  BY <1>3, <1>4, <1>5, <1>6 DEF InOrderOfReview, p

LEMMA OrderRegister ==
    ASSUME NEW d, Sound(d), InOrderOfReview(d), NEW n \in NodeIds(d), NEW i \in LayerIds(d),
           KidsFinished(d, n), NEW r, Registers(d, r, n, i)
    PROVE  InOrderOfReview(r)
<1> DEFINE c0 == Len(d.chains) + 1
           seed == Covered(d, n)
           template == d.config[i].template
           new == r.chains[c0]
           old == d.layers[i]
           layer == r.layers[i]
<1>1. /\ r.nodes = d.nodes /\ ChainIds(r) = ChainIds(d) \cup {c0}
      /\ \A c \in ChainIds(d) : r.chains[c] = d.chains[c]
      /\ new = NewChain(n, i, seed, template)
      /\ LayerIds(r) = LayerIds(d) /\ \A k \in LayerIds(d) \ {i} : r.layers[k] = d.layers[k]
      /\ layer.agg = Append(old.agg, n)
      /\ layer.pending = old.pending /\ layer.cycle = old.cycle
  BY DEF Registers, KeepsOtherLayers, Takes
<1>2. old.agg \in Seq(Nat) /\ n \in Nat
  BY LayerParts, Parts DEF Sound
<1> HIDE DEF old, layer, new, seed, template, c0
<1>3. new.node = n /\ new.layer = i
  <2>1. Fresh(new, n, i, seed, template)
    BY <1>1, NewChainFresh
  <2> QED
    BY <2>1 DEF Fresh
<1>4. /\ \A m, k : HasChain(d, m, k) => HasChain(r, m, k)
      /\ \A m : KidsFinished(d, m) => KidsFinished(r, m)
  <2>1. KeepsChains(d, r)
    BY <1>1 DEF KeepsChains
  <2> QED
    BY <1>1, <2>1, ChainsKept
<1>5. HasChain(r, n, i)
  BY <1>1, <1>3 DEF HasChain, new
<1>6. ChainsBelow(r, i, layer)
  <2>1. SeqRange(layer.agg) = SeqRange(old.agg) \cup {n}
    BY <1>1, <1>2, AppendRange
  <2>2. ChainsBelow(d, i, old)
    BY DEF InOrderOfReview, old
  <2> QED
    BY <1>1, <1>4, <1>5, <2>1, <2>2 DEF ChainsBelow
<1>7. ASSUME NEW k \in LayerIds(d), k # i PROVE ChainsBelow(r, k, r.layers[k])
  BY <1>1, <1>4, <1>7 DEF InOrderOfReview, ChainsBelow
<1>8. ASSUME NEW k \in InCycle(r, "ROLL_UP") PROVE KidsFinished(r, r.layers[k].pending)
  <2>1. k \in InCycle(d, "ROLL_UP") /\ r.layers[k].pending = d.layers[k].pending
    BY <1>1 DEF InCycle, old, layer
  <2> QED
    BY <1>4, <2>1 DEF InOrderOfReview
<1>9. \A c \in ChainIds(r) : KidsFinished(r, r.chains[c].node)
  BY <1>1, <1>3, <1>4 DEF InOrderOfReview, new
<1> QED
  BY <1>1, <1>6, <1>7, <1>8, <1>9 DEF InOrderOfReview, layer

LEMMA OrderPushUp ==
    ASSUME NEW d, Sound(d), InOrderOfReview(d), NEW i \in LayerIds(d), NEW r, PushesUp(d, r, i)
    PROVE  InOrderOfReview(r)
<1> DEFINE p == Len(d.nodes) + 1
           old == d.layers[i]
           layer == r.layers[i]
<1>1. /\ r.chains = d.chains
      /\ \A n \in NodeIds(d) : r.nodes[n].kids = d.nodes[n].kids
      /\ r.nodes[p].kids = old.agg
      /\ LayerIds(r) = LayerIds(d) /\ \A k \in LayerIds(d) \ {i} : r.layers[k] = d.layers[k]
      /\ layer.agg = <<>> /\ layer.pending = p /\ layer.cycle = "CLEARING"
  BY DEF PushesUp, KeepsReviews, Lifts, KeepsOtherLayers
<1> HIDE DEF p, old, layer
<1>2. /\ \A n, k : HasChain(d, n, k) => HasChain(r, n, k)
      /\ \A n \in NodeIds(d) : KidsFinished(d, n) => KidsFinished(r, n)
  BY <1>1 DEF HasChain, KidsFinished, NodeFinished, ChainIds
<1>3. ChainsBelow(r, i, layer)
  <2>1. ChainsBelow(d, i, old) /\ SeqRange(<<>>) = {}
    BY DEF InOrderOfReview, old, SeqRange
  <2> QED
    BY <1>1, <1>2, <2>1 DEF ChainsBelow
<1>4. ASSUME NEW k \in LayerIds(d), k # i PROVE ChainsBelow(r, k, r.layers[k])
  <2>1. d.layers[k].pending \in NodeIds(d) \cup {None} /\ ChainsBelow(d, k, d.layers[k])
    BY LayerParts DEF InOrderOfReview
  <2> QED
    BY <1>1, <1>2, <1>4, <2>1 DEF ChainsBelow
<1>5. ASSUME NEW k \in InCycle(r, "ROLL_UP") PROVE KidsFinished(r, r.layers[k].pending)
  <2>1. k \in LayerIds(d) \ {i} /\ d.layers[k] = r.layers[k] /\ d.layers[k].cycle = "ROLL_UP"
    BY <1>1 DEF InCycle, layer
  <2>2. d.layers[k].pending \in NodeIds(d) /\ KidsFinished(d, d.layers[k].pending)
    BY <2>1, LayerParts DEF InOrderOfReview, InCycle
  <2> QED
    BY <1>2, <2>1, <2>2
<1>6. ASSUME NEW c \in ChainIds(r) PROVE KidsFinished(r, r.chains[c].node)
  <2>1. c \in ChainIds(d) /\ r.chains[c] = d.chains[c]
    BY <1>1 DEF ChainIds
  <2>2. d.chains[c].node \in NodeIds(d)
    BY <2>1, ChainParts
  <2> QED
    BY <1>2, <2>1, <2>2 DEF InOrderOfReview
<1> QED
  BY <1>1, <1>3, <1>4, <1>5, <1>6 DEF InOrderOfReview, layer

\* A chain that is finished is not managed, so a tick leaves it alone.
LEMMA TickKeepsChains ==
    ASSUME NEW d, Sound(d), NEW i \in LayerIds(d), NEW q, NEW r, Ticks(d, r, i, q)
    PROVE  KeepsChains(d, r) /\ ChainIds(r) = ChainIds(d)
<1>1. /\ ChainIds(r) = ChainIds(d)
      /\ \A c \in d.layers[i].managed : Steps(d, c, r.chains[c])
      /\ \A c \in ChainIds(d) \ d.layers[i].managed : r.chains[c] = d.chains[c]
  BY DEF Ticks
<1>2. d.layers[i].managed = Unfinished(d, i)
  BY DEF Sound, SoundLayer
<1>3. ASSUME NEW c \in ChainIds(d), c \in d.layers[i].managed
      PROVE  /\ r.chains[c].node = d.chains[c].node /\ r.chains[c].layer = d.chains[c].layer
             /\ ~(d.chains[c].head > Len(d.chains[c].items))
  <2>1. d.chains[c].head <= Len(d.chains[c].items)
    BY <1>2, <1>3 DEF Unfinished
  <2>2. d.chains[c].head \in Nat /\ Len(d.chains[c].items) \in Nat
    BY ChainParts
  <2> QED
    BY <1>1, <1>3, <2>1, <2>2 DEF Steps
<1> QED
  BY <1>1, <1>3 DEF KeepsChains

\* When a tick has dropped every chain of layer i, what was reviewed there is finished.
LEMMA AllFinished ==
    ASSUME NEW d, Sound(d), NEW i \in LayerIds(d), d.layers[i].managed = {}, NEW n, HasChain(d, n, i)
    PROVE  NodeFinished(d, n)
<1>1. PICK c \in ChainIds(d) : d.chains[c].node = n /\ d.chains[c].layer = i
  BY DEF HasChain
<1>2. ~(d.chains[c].head <= Len(d.chains[c].items))
  BY <1>1 DEF Sound, SoundLayer, Unfinished
<1>3. d.chains[c].head \in Nat /\ Len(d.chains[c].items) \in Nat
  BY ChainParts
<1> QED
  BY <1>1, <1>2, <1>3 DEF NodeFinished

LEMMA ExecuteKeepsChains ==
    ASSUME NEW d, NEW q, NEW missed, NEW r, Executes(d, r, q, missed), q.chain \in ChainIds(d)
    PROVE  KeepsChains(d, r) /\ ChainIds(r) = ChainIds(d)
BY DEF Executes, Answers, KeepsChains

-----------------------------------------------------------------------------
(* The places of the nodes.  During a session some layers, out, have handed *)
(* their pending parent on, and some nodes, free, are in no place yet.      *)

\* Parents and children agree.
Family(d) ==
    \A n \in NodeIds(d) :
        /\ SeqRange(d.nodes[n].kids) \subseteq NodeIds(d)
        /\ d.nodes[n].parent \in NodeIds(d) \cup {None}
        /\ \A m \in NodeIds(d) : n \in SeqRange(d.nodes[m].kids) <=> d.nodes[n].parent = m

\* Place j of the aggregation queue of layer i.
Slot(d, i, j) == i \in LayerIds(d) /\ j \in DOMAIN d.layers[i].agg

WaitsOnce(d) ==
    \A i, k, j, l : /\ Slot(d, i, j) /\ Slot(d, k, l)
                    /\ d.layers[i].agg[j] = d.layers[k].agg[l]
                    => i = k /\ j = l

\* Layer i has node n pending.
Holds(d, out, i, n) == i \in LayerIds(d) \ out /\ d.layers[i].pending = n

HeldOnce(d, out) ==
    \A n \in NodeIds(d) : \A i, k : Holds(d, out, i, n) /\ Holds(d, out, k, n) => i = k

Waits(d, n) == \E i \in LayerIds(d) : n \in SeqRange(d.layers[i].agg)

OnePlace(d, out, free) ==
    \A n \in NodeIds(d) :
        /\ Waits(d, n) => /\ d.nodes[n].parent = None /\ n \notin free
                          /\ \A i : ~Holds(d, out, i, n)
        /\ \A i : Holds(d, out, i, n) => d.nodes[n].parent = None /\ n \notin free
        /\ n \in free => d.nodes[n].parent = None
        /\ d.nodes[n].parent = None =>
              n \in free \/ Waits(d, n) \/ \E i : Holds(d, out, i, n)

Placed(d, out, free) == Family(d) /\ WaitsOnce(d) /\ HeldOnce(d, out) /\ OnePlace(d, out, free)

LEMMA SlotRange ==
    ASSUME NEW d, NEW n
    PROVE  Waits(d, n) <=> \E i, j : Slot(d, i, j) /\ d.layers[i].agg[j] = n
BY DEF Waits, Slot, SeqRange

\* The queues stay and no parent is newly pending; new layers are empty.  A layer that
\* was out may come back when nothing is pending in it.
LEMMA PlacesStay ==
    ASSUME NEW d, Sound(d), NEW out, NEW free, Placed(d, out, free), NEW r, r.nodes = d.nodes,
           LayerIds(d) \subseteq LayerIds(r),
           \A i \in LayerIds(d) : r.layers[i].agg = d.layers[i].agg,
           \A i \in LayerIds(r) \ LayerIds(d) : r.layers[i].agg = <<>> /\ r.layers[i].pending = None,
           NEW back,
           \A i \in LayerIds(d) \ out : i \notin back /\ r.layers[i].pending = d.layers[i].pending,
           \A i \in LayerIds(d) \cap out : i \in back \/ r.layers[i].pending = None
    PROVE  Placed(r, back, free)
<1>1. NodeIds(r) = NodeIds(d) /\ None \notin NodeIds(d)
  BY Parts DEF NodeIds, Sound, None
<1>2. \A i, j : /\ Slot(r, i, j) <=> Slot(d, i, j)
                /\ Slot(d, i, j) => r.layers[i].agg[j] = d.layers[i].agg[j]
  <2>1. DOMAIN <<>> = {}
    OBVIOUS
  <2> QED
    BY <2>1 DEF Slot
<1>3. \A n : Waits(r, n) <=> Waits(d, n)
  BY <1>2, SlotRange
<1>4. \A n \in NodeIds(d) : \A i : Holds(r, back, i, n) => Holds(d, out, i, n)
  BY <1>1 DEF Holds
<1>5. \A n \in NodeIds(d) : \A i : Holds(d, out, i, n) => Holds(r, back, i, n)
  BY DEF Holds
<1>6. Family(r)
  BY <1>1 DEF Placed, Family
<1>7. WaitsOnce(r)
  BY <1>2 DEF Placed, WaitsOnce
<1>8. HeldOnce(r, back)
  BY <1>1, <1>4 DEF Placed, HeldOnce
<1>9. OnePlace(r, back, free)
  <2>1. OnePlace(d, out, free)
    BY DEF Placed
  <2>2. ASSUME NEW n \in NodeIds(d)
        PROVE  /\ Waits(r, n) <=> Waits(d, n)
               /\ \A i : Holds(r, back, i, n) <=> Holds(d, out, i, n)
               /\ r.nodes[n] = d.nodes[n]
    BY <1>3, <1>4, <1>5
  <2> QED
    BY <1>1, <2>1, <2>2 DEF OnePlace
<1> QED
  BY <1>6, <1>7, <1>8, <1>9 DEF Placed

\* Phase B takes the pending parent of a layer in hand.
LEMMA PlacesTake ==
    ASSUME NEW d, Sound(d), Placed(d, {}, {}), NEW i \in LayerIds(d), d.layers[i].pending # None
    PROVE  Placed(d, {i}, {d.layers[i].pending})
<1> DEFINE p == d.layers[i].pending
<1>1. p \in NodeIds(d)
  BY LayerParts
<1> HIDE DEF p
<1>2. /\ Holds(d, {}, i, p)
      /\ \A n \in NodeIds(d) : \A k : Holds(d, {i}, k, n) <=> Holds(d, {}, k, n) /\ k # i
      /\ \A n \in NodeIds(d) : Holds(d, {}, i, n) => n = p
  BY DEF Holds, p
<1>3. Family(d) /\ WaitsOnce(d) /\ HeldOnce(d, {}) /\ OnePlace(d, {}, {})
  BY DEF Placed
<1>4. HeldOnce(d, {i})
  BY <1>2, <1>3 DEF HeldOnce
<1>5. ~Waits(d, p) /\ d.nodes[p].parent = None /\ \A k : Holds(d, {}, k, p) => k = i
  BY <1>1, <1>2, <1>3 DEF OnePlace, HeldOnce
<1>6. OnePlace(d, {i}, {p})
  <2>1. ASSUME NEW n \in NodeIds(d)
        PROVE  /\ Waits(d, n) => /\ d.nodes[n].parent = None /\ n \notin {p}
                                 /\ \A k : ~Holds(d, {i}, k, n)
               /\ \A k : Holds(d, {i}, k, n) => d.nodes[n].parent = None /\ n \notin {p}
               /\ n \in {p} => d.nodes[n].parent = None
               /\ d.nodes[n].parent = None =>
                     n \in {p} \/ Waits(d, n) \/ \E k : Holds(d, {i}, k, n)
    <3>1. CASE n = p
      BY <1>2, <1>5, <3>1
    <3>2. CASE n # p
      <4>1. \A k : Holds(d, {i}, k, n) <=> Holds(d, {}, k, n)
        BY <1>2, <3>2
      <4>2. /\ Waits(d, n) => d.nodes[n].parent = None /\ \A k : ~Holds(d, {}, k, n)
            /\ \A k : Holds(d, {}, k, n) => d.nodes[n].parent = None
            /\ d.nodes[n].parent = None => Waits(d, n) \/ \E k : Holds(d, {}, k, n)
        BY <1>3 DEF OnePlace
      <4> QED
        BY <3>2, <4>1, <4>2
    <3> QED
      BY <3>1, <3>2
  <2> QED
    BY <2>1, Zenon DEF OnePlace
<1> QED
  BY <1>3, <1>4, <1>6 DEF Placed, p

LEMMA PlacesAddLeaf ==
    ASSUME NEW d, Sound(d), Placed(d, {}, {}), NEW r, AddsLeaf(d, r)
    PROVE  Placed(r, {}, {Len(d.nodes) + 1})
<1> DEFINE p == Len(d.nodes) + 1
<1>1. /\ r.layers = d.layers /\ NodeIds(r) = NodeIds(d) \cup {p}
      /\ \A m \in NodeIds(d) : r.nodes[m] = d.nodes[m]
      /\ r.nodes[p].parent = None /\ r.nodes[p].kids = <<>>
  BY DEF AddsLeaf
<1>2. p \notin NodeIds(d) /\ None \notin NodeIds(d) /\ p # None
  BY Parts DEF Sound, None
<1> HIDE DEF p
<1>3. Family(d) /\ WaitsOnce(d) /\ HeldOnce(d, {}) /\ OnePlace(d, {}, {})
  BY DEF Placed
<1>4. LayerIds(r) = LayerIds(d)
  BY <1>1 DEF LayerIds
<1>5. /\ \A i, j : Slot(r, i, j) <=> Slot(d, i, j)
      /\ \A n : Waits(r, n) <=> Waits(d, n)
      /\ \A i, n : Holds(r, {}, i, n) <=> Holds(d, {}, i, n)
  BY <1>1, <1>4 DEF Slot, Waits, Holds
<1>6. ~Waits(d, p) /\ \A i : ~Holds(d, {}, i, p)
  BY <1>2, LayerParts DEF Waits, Holds
<1>7. Family(r)
  <2>1. SeqRange(<<>>) = {}
    BY DEF SeqRange
  <2>2. ASSUME NEW n \in NodeIds(r)
        PROVE  /\ SeqRange(r.nodes[n].kids) \subseteq NodeIds(r)
               /\ r.nodes[n].parent \in NodeIds(r) \cup {None}
               /\ \A m \in NodeIds(r) : n \in SeqRange(r.nodes[m].kids) <=> r.nodes[n].parent = m
    <3>1. CASE n = p
      BY <1>1, <1>2, <1>3, <2>1, <3>1 DEF Family
    <3>2. CASE n \in NodeIds(d)
      BY <1>1, <1>2, <1>3, <2>1, <3>2 DEF Family
    <3> QED
      BY <1>1, <3>1, <3>2
  <2> QED
    BY <2>2 DEF Family
<1>8. WaitsOnce(r)
  BY <1>1, <1>3, <1>5 DEF WaitsOnce
<1>9. HeldOnce(r, {})
  BY <1>1, <1>3, <1>5, <1>6 DEF HeldOnce
<1>10. OnePlace(r, {}, {p})
  BY <1>1, <1>2, <1>3, <1>5, <1>6 DEF OnePlace
<1> QED
  BY <1>7, <1>8, <1>9, <1>10 DEF Placed, p

LEMMA PlacesRegister ==
    ASSUME NEW d, Sound(d), NEW n \in NodeIds(d), NEW i \in LayerIds(d), NEW out,
           Placed(d, out, {n}), NEW r, Registers(d, r, n, i)
    PROVE  Placed(r, out, {})
<1> DEFINE old == d.layers[i]
           layer == r.layers[i]
<1>1. /\ r.nodes = d.nodes
      /\ LayerIds(r) = LayerIds(d) /\ \A k \in LayerIds(d) \ {i} : r.layers[k] = d.layers[k]
      /\ layer.agg = Append(old.agg, n) /\ layer.pending = old.pending
  BY DEF Registers, KeepsOtherLayers, Takes
<1>2. old.agg \in Seq(Nat) /\ n \in Nat
  BY LayerParts, Parts DEF Sound
<1>3. Family(d) /\ WaitsOnce(d) /\ HeldOnce(d, out) /\ OnePlace(d, out, {n})
  BY DEF Placed
<1>4. NodeIds(r) = NodeIds(d)
  BY <1>1 DEF NodeIds
<1> DEFINE top == Len(old.agg) + 1
<1>5. /\ DOMAIN layer.agg = DOMAIN old.agg \cup {top} /\ top \notin DOMAIN old.agg
      /\ layer.agg[top] = n /\ \A j \in DOMAIN old.agg : layer.agg[j] = old.agg[j]
  <2> HIDE DEF old, layer
  <2>1. /\ Len(old.agg) \in Nat /\ DOMAIN old.agg = 1 .. Len(old.agg)
        /\ DOMAIN Append(old.agg, n) = 1 .. Len(old.agg) + 1
        /\ Append(old.agg, n)[Len(old.agg) + 1] = n
        /\ \A j \in DOMAIN old.agg : Append(old.agg, n)[j] = old.agg[j]
    BY <1>2, SeqIsFunction
  <2> QED
    BY <1>1, <2>1
<1> HIDE DEF top
<1>6. /\ \A k, j : Slot(r, k, j) <=> Slot(d, k, j) \/ (k = i /\ j = top)
      /\ \A k, j : Slot(d, k, j) => r.layers[k].agg[j] = d.layers[k].agg[j]
      /\ r.layers[i].agg[top] = n
  BY <1>1, <1>5 DEF Slot
<1>7. \A k, m : Holds(r, out, k, m) <=> Holds(d, out, k, m)
  BY <1>1 DEF Holds
<1>8. ~Waits(d, n) /\ d.nodes[n].parent = None /\ \A k : ~Holds(d, out, k, n)
  BY <1>3 DEF OnePlace
<1>9. \A m : Waits(r, m) <=> Waits(d, m) \/ m = n
  BY <1>6, SlotRange
<1>10. Family(r)
  BY <1>1, <1>3, <1>4 DEF Family
<1>11. WaitsOnce(r)
  <2>1. \A k, j : Slot(d, k, j) => d.layers[k].agg[j] # n
    BY <1>8, SlotRange
  <2>2. ASSUME NEW k, NEW l, NEW j, NEW m, Slot(r, k, j), Slot(r, l, m),
               r.layers[k].agg[j] = r.layers[l].agg[m]
        PROVE  k = l /\ j = m
    <3>1. CASE Slot(d, k, j) /\ Slot(d, l, m)
      BY <1>3, <1>6, <2>2, <3>1 DEF WaitsOnce
    <3>2. CASE (k = i /\ j = top) /\ Slot(d, l, m)
      BY <1>6, <2>1, <2>2, <3>2
    <3>3. CASE Slot(d, k, j) /\ (l = i /\ m = top)
      BY <1>6, <2>1, <2>2, <3>3
    <3>4. CASE k = i /\ j = top /\ l = i /\ m = top
      BY <3>4
    <3> QED
      BY <1>6, <2>2, <3>1, <3>2, <3>3, <3>4
  <2> QED
    BY <2>2, Zenon DEF WaitsOnce
<1>12. HeldOnce(r, out)
  BY <1>3, <1>4, <1>7 DEF HeldOnce
<1>13. OnePlace(r, out, {})
  BY <1>1, <1>3, <1>4, <1>7, <1>8, <1>9 DEF OnePlace
<1> QED
  BY <1>10, <1>11, <1>12, <1>13 DEF Placed

LEMMA PlacesPushUp ==
    ASSUME NEW d, Sound(d), NEW i \in LayerIds(d), NEW out, i \notin out, Placed(d, out, {}),
           d.layers[i].pending = None, NEW r, PushesUp(d, r, i)
    PROVE  Placed(r, out, {})
<1> DEFINE p == Len(d.nodes) + 1
           kids == d.layers[i].agg
           under == SeqRange(kids)
<1>1. /\ NodeIds(r) = NodeIds(d) \cup {p}
      /\ \A n \in NodeIds(d) : /\ r.nodes[n].kids = d.nodes[n].kids
                               /\ r.nodes[n].parent = IF n \in under THEN p ELSE d.nodes[n].parent
      /\ r.nodes[p].parent = None /\ r.nodes[p].kids = kids
      /\ LayerIds(r) = LayerIds(d) /\ \A k \in LayerIds(d) \ {i} : r.layers[k] = d.layers[k]
      /\ r.layers[i].agg = <<>> /\ r.layers[i].pending = p
  BY DEF PushesUp, Lifts, KeepsOtherLayers
<1>2. p \notin NodeIds(d) /\ None \notin NodeIds(d) /\ p # None /\ under \subseteq NodeIds(d)
  BY LayerParts, Parts DEF Sound, None
<1>3. Family(d) /\ WaitsOnce(d) /\ HeldOnce(d, out) /\ OnePlace(d, out, {})
  BY DEF Placed
<1>4. \A n \in under : Waits(d, n)
  BY DEF Waits
<1>5. \A n \in under : d.nodes[n].parent = None /\ \A k : ~Holds(d, out, k, n)
  BY <1>2, <1>3, <1>4 DEF OnePlace
<1>6. /\ \A k, j : Slot(r, k, j) <=> Slot(d, k, j) /\ k # i
      /\ \A k, j : Slot(r, k, j) => r.layers[k].agg[j] = d.layers[k].agg[j]
  <2>1. DOMAIN <<>> = {}
    OBVIOUS
  <2> QED
    BY <1>1, <2>1 DEF Slot
<1>7. \A k, n : Holds(r, out, k, n) <=> (k # i /\ Holds(d, out, k, n)) \/ (k = i /\ n = p)
  BY <1>1 DEF Holds
<1>8. \A n \in NodeIds(d) : Waits(r, n) <=> Waits(d, n) /\ n \notin under
  <2>1. \A n : Waits(r, n) <=> \E k, j : Slot(d, k, j) /\ k # i /\ d.layers[k].agg[j] = n
    BY <1>6, SlotRange
  <2>2. \A n : n \in under <=> \E j : Slot(d, i, j) /\ kids[j] = n
    BY DEF Slot, SeqRange
  <2>3. \A n, k, j : Slot(d, k, j) /\ d.layers[k].agg[j] = n /\ n \in under => k = i
    BY <1>3, <2>2, Zenon DEF WaitsOnce
  <2> QED
    BY <2>1, <2>2, <2>3, SlotRange
<1>9. ~Waits(r, p) /\ \A k : ~Holds(d, out, k, p)
  <2>1. \A k \in LayerIds(d) : p \notin SeqRange(d.layers[k].agg) /\ d.layers[k].pending # p
    BY <1>2, LayerParts
  <2>2. ~Waits(d, p)
    BY <2>1 DEF Waits
  <2> QED
    BY <1>6, <2>1, <2>2, SlotRange DEF Holds
<1>10. \A n \in NodeIds(d) : ~Holds(d, out, i, n)
  BY <1>2 DEF Holds
<1> HIDE DEF p, under
<1>11. Family(r)
  <2>1. ASSUME NEW n \in NodeIds(r)
        PROVE  /\ SeqRange(r.nodes[n].kids) \subseteq NodeIds(r)
               /\ r.nodes[n].parent \in NodeIds(r) \cup {None}
               /\ \A m \in NodeIds(r) : n \in SeqRange(r.nodes[m].kids) <=> r.nodes[n].parent = m
    <3>1. CASE n = p
      <4>1. \A m \in NodeIds(d) : p \notin SeqRange(d.nodes[m].kids)
        BY <1>2, <1>3 DEF Family
      <4>2. SeqRange(kids) \subseteq NodeIds(d) /\ p \notin SeqRange(kids)
        BY <1>2 DEF under
      <4> QED
        BY <1>1, <1>2, <3>1, <4>1, <4>2
    <3>2. CASE n \in NodeIds(d)
      <4>1. /\ SeqRange(d.nodes[n].kids) \subseteq NodeIds(d)
            /\ d.nodes[n].parent \in NodeIds(d) \cup {None}
            /\ \A m \in NodeIds(d) : n \in SeqRange(d.nodes[m].kids) <=> d.nodes[n].parent = m
        BY <1>3, <3>2 DEF Family
      <4>2. n \in SeqRange(r.nodes[p].kids) <=> n \in under
        BY <1>1 DEF under
      <4>3. ASSUME NEW m \in NodeIds(d)
            PROVE  n \in SeqRange(r.nodes[m].kids) <=> r.nodes[n].parent = m
        BY <1>1, <1>2, <1>5, <3>2, <4>1, <4>3
      <4>4. n \in SeqRange(r.nodes[p].kids) <=> r.nodes[n].parent = p
        BY <1>1, <1>2, <3>2, <4>1, <4>2
      <4> QED
        BY <1>1, <3>2, <4>1, <4>3, <4>4
    <3> QED
      BY <1>1, <3>1, <3>2
  <2> QED
    BY <2>1 DEF Family
<1>12. WaitsOnce(r)
  BY <1>3, <1>6 DEF WaitsOnce
<1>13. HeldOnce(r, out)
  BY <1>1, <1>2, <1>3, <1>7, <1>9 DEF HeldOnce
<1>14. ASSUME NEW n \in NodeIds(r)
       PROVE  /\ Waits(r, n) => r.nodes[n].parent = None /\ \A k : ~Holds(r, out, k, n)
              /\ \A k : Holds(r, out, k, n) => r.nodes[n].parent = None
              /\ r.nodes[n].parent = None => Waits(r, n) \/ \E k : Holds(r, out, k, n)
  <2>1. CASE n = p
    BY <1>1, <1>7, <1>9, <2>1
  <2>2. CASE n \in NodeIds(d)
    <3>1. /\ Waits(d, n) => d.nodes[n].parent = None /\ \A k : ~Holds(d, out, k, n)
          /\ \A k : Holds(d, out, k, n) => d.nodes[n].parent = None
          /\ d.nodes[n].parent = None => Waits(d, n) \/ \E k : Holds(d, out, k, n)
      BY <1>3, <2>2 DEF OnePlace
    <3>2. \A k : Holds(r, out, k, n) <=> Holds(d, out, k, n)
      BY <1>2, <1>7, <1>10, <2>2
    <3>3. r.nodes[n].parent = IF n \in under THEN p ELSE d.nodes[n].parent
      BY <1>1, <2>2
    <3> QED
      BY <1>2, <1>5, <1>8, <2>2, <3>1, <3>2, <3>3
  <2> QED
    BY <1>1, <2>1, <2>2
<1>15. OnePlace(r, out, {})
  BY <1>14 DEF OnePlace
<1> QED
  BY <1>11, <1>12, <1>13, <1>15 DEF Placed

\* The property of the model.
LEMMA PlacedCounts ==
    ASSUME Sound(db), Placed(db, {}, {})
    PROVE  EveryNodeHasOnePlace
<1>1. ASSUME NEW n \in NodeIds(db)
      PROVE  LET above == {m \in NodeIds(db) : n \in SeqRange(db.nodes[m].kids)}
                 waiting == UNION {{i} \X {j \in DOMAIN db.layers[i].agg : db.layers[i].agg[j] = n} :
                                      i \in LayerIds(db)}
                 pending == {i \in LayerIds(db) : db.layers[i].pending = n}
             IN  /\ Cardinality(above) + Cardinality(waiting) + Cardinality(pending) = 1
                 /\ above = IF db.nodes[n].parent = None THEN {} ELSE {db.nodes[n].parent}
  <2> DEFINE above == {m \in NodeIds(db) : n \in SeqRange(db.nodes[m].kids)}
             waiting == UNION {{i} \X {j \in DOMAIN db.layers[i].agg : db.layers[i].agg[j] = n} :
                                  i \in LayerIds(db)}
             pending == {i \in LayerIds(db) : db.layers[i].pending = n}
             parent == db.nodes[n].parent
  <2>1. Family(db) /\ WaitsOnce(db) /\ HeldOnce(db, {}) /\ OnePlace(db, {}, {})
    BY DEF Placed
  <2>2. None \notin NodeIds(db)
    BY Parts DEF Sound, None
  <2>3. above = IF parent = None THEN {} ELSE {parent}
    <3>1. parent \in NodeIds(db) \cup {None}
      BY <2>1 DEF Family
    <3>2. \A m \in NodeIds(db) : m \in above <=> m = parent
      BY <2>1 DEF Family
    <3> HIDE DEF parent, above
    <3>3. above \subseteq NodeIds(db)
      BY DEF above
    <3> QED
      BY <2>2, <3>1, <3>2, <3>3
  <2>4. \A x : x \in waiting <=> \E i, j : x = <<i, j>> /\ Slot(db, i, j) /\ db.layers[i].agg[j] = n
    BY DEF Slot
  <2>5. \A i : i \in pending <=> Holds(db, {}, i, n)
    BY DEF Holds
  <2> HIDE DEF above, waiting, pending
  <2>6. Waits(db, n) <=> waiting # {}
    BY <2>4, SlotRange
  <2>7. waiting = {} \/ \E x : waiting = {x}
    <3>1. \A x, y \in waiting : x = y
      BY <2>1, <2>4 DEF WaitsOnce
    <3> QED
      BY <3>1
  <2>8. pending = {} \/ \E x : pending = {x}
    <3>1. \A x, y \in pending : x = y
      BY <2>1, <2>5 DEF HeldOnce
    <3> QED
      BY <3>1
  <2>9. /\ waiting # {} => parent = None /\ pending = {}
        /\ pending # {} => parent = None
        /\ parent = None => waiting # {} \/ pending # {}
    BY <2>1, <2>5, <2>6 DEF OnePlace
  <2> HIDE DEF parent
  <2>10. Cardinality({}) = 0 /\ \A x : Cardinality({x}) = 1
    BY FS_EmptySet, FS_Singleton
  <2>11. Cardinality(above) + Cardinality(waiting) + Cardinality(pending) = 1
    <3>1. CASE parent # None
      <4>1. Cardinality(above) = 1 /\ Cardinality(waiting) = 0 /\ Cardinality(pending) = 0
        BY <2>3, <2>9, <2>10, <3>1
      <4> QED
        BY <4>1
    <3>2. CASE parent = None /\ waiting # {}
      <4>1. Cardinality(above) = 0 /\ Cardinality(waiting) = 1 /\ Cardinality(pending) = 0
        BY <2>3, <2>7, <2>9, <2>10, <3>2
      <4> QED
        BY <4>1
    <3>3. CASE parent = None /\ waiting = {}
      <4>1. Cardinality(above) = 0 /\ Cardinality(waiting) = 0 /\ Cardinality(pending) = 1
        BY <2>3, <2>8, <2>9, <2>10, <3>3
      <4> QED
        BY <4>1
    <3> QED
      BY <3>1, <3>2, <3>3
  <2> QED
    BY <2>3, <2>11 DEF above, waiting, pending, parent
<1> QED
  BY <1>1, Zenon DEF EveryNodeHasOnePlace

-----------------------------------------------------------------------------
(* The four parts together, and what each operation does to them.          *)

Good(d, out, free) ==
    QueueExact(d) /\ AllTracked(d) /\ InOrderOfReview(d) /\ Placed(d, out, free)

\* A change of the settings, or of what is deleted.
LEMMA GoodSettings ==
    ASSUME NEW d, Sound(d), Good(d, {}, {}), NEW r, SameWork(d, r)
    PROVE  Good(r, {}, {})
<1>1. /\ r.nodes = d.nodes /\ r.chains = d.chains /\ r.queue = d.queue
      /\ d.deleted \subseteq r.deleted /\ LayerIds(r) = LayerIds(d) /\ ChainIds(r) = ChainIds(d)
      /\ \A j \in LayerIds(d) : /\ r.layers[j].agg = d.layers[j].agg
                                /\ r.layers[j].pending = d.layers[j].pending
                                /\ r.layers[j].cycle = d.layers[j].cycle
  BY DEF SameWork, ChainIds
<1>2. QueueExact(r)
  BY <1>1, QueueStays DEF Good
<1>3. AllTracked(r)
  BY <1>1, TrackedStays DEF Good
<1>4. InOrderOfReview(r)
  <2>1. KeepsChains(d, r)
    BY <1>1 DEF KeepsChains
  <2>2. \A i \in LayerIds(r) : r.layers[i].cycle = "ROLL_UP" => i \in InCycle(d, "ROLL_UP")
    BY <1>1 DEF InCycle
  <2> QED
    BY <1>1, <2>1, <2>2, OrderLayers DEF Good
<1>5. Placed(r, {}, {})
  BY <1>1, PlacesStay DEF Good
<1> QED
  BY <1>2, <1>3, <1>4, <1>5 DEF Good

\* A layer keeps its queue and its pending parent, or hands the parent on.
LEMMA GoodSetLayer ==
    ASSUME NEW d, Sound(d), NEW out, NEW back, Good(d, out, {}), NEW i \in LayerIds(d),
           NEW layer \in LayerType, layer.agg = d.layers[i].agg,
           \/ back = out /\ layer.pending = d.layers[i].pending
           \/ back = {} /\ out = {i} /\ layer.pending = None,
           layer.cycle = "ROLL_UP" =>
              /\ layer.pending = d.layers[i].pending
              /\ i \in InCycle(d, "ROLL_UP") \/ KidsFinished(d, layer.pending)
    PROVE  Good(SetLayer(d, i, layer), back, {})
<1> DEFINE r == SetLayer(d, i, layer)
<1>1. /\ r.nodes = d.nodes /\ r.chains = d.chains /\ r.queue = d.queue /\ r.deleted = d.deleted
      /\ ChainIds(r) = ChainIds(d) /\ LayerIds(r) = LayerIds(d)
      /\ r.layers[i] = layer /\ \A j \in LayerIds(d) \ {i} : r.layers[j] = d.layers[j]
  BY SetLayerFacts DEF Sound
<1> HIDE DEF r
<1>2. QueueExact(r)
  BY <1>1, QueueStays DEF Good
<1>3. AllTracked(r)
  BY <1>1, TrackedStays DEF Good
<1>4. KeepsChains(d, r)
  BY <1>1 DEF KeepsChains
<1>5. InOrderOfReview(r)
  <2>1. \A p : KidsFinished(d, p) => KidsFinished(r, p)
    BY <1>1, <1>4, ChainsKept
  <2>2. ASSUME NEW k \in LayerIds(r)
        PROVE  /\ k \in LayerIds(d) /\ r.layers[k].agg = d.layers[k].agg
               /\ r.layers[k].pending \in {d.layers[k].pending, None}
               /\ r.layers[k].cycle = "ROLL_UP" =>
                     /\ r.layers[k].pending = d.layers[k].pending
                     /\ k \in InCycle(d, "ROLL_UP") \/ KidsFinished(r, r.layers[k].pending)
    <3>1. CASE k = i
      BY <1>1, <2>1, <3>1
    <3>2. CASE k # i
      BY <1>1, <3>2 DEF InCycle
    <3> QED
      BY <3>1, <3>2
  <2> QED
    BY <1>1, <1>4, <2>2, OrderLayers DEF Good
<1>6. Placed(r, back, {})
  <2>1. \A k \in LayerIds(d) : r.layers[k].agg = d.layers[k].agg
    BY <1>1
  <2>2. \A k \in LayerIds(d) \ out : k \notin back /\ r.layers[k].pending = d.layers[k].pending
    BY <1>1
  <2>3. \A k \in LayerIds(d) \cap out : k \in back \/ r.layers[k].pending = None
    BY <1>1
  <2> QED
    BY <1>1, <2>1, <2>2, <2>3, PlacesStay DEF Good
<1> QED
  BY <1>2, <1>3, <1>5, <1>6 DEF Good, r

LEMMA GoodRegister ==
    ASSUME NEW d, Sound(d), NEW n \in NodeIds(d), NEW i \in LayerIds(d), NEW out, Good(d, out, {n}),
           KidsFinished(d, n), NEW r, Registers(d, r, n, i)
    PROVE  Good(r, out, {})
BY QueueRegister, TrackedRegister, OrderRegister, PlacesRegister DEF Good

LEMMA GoodPushUp ==
    ASSUME NEW d, Sound(d), NEW i \in LayerIds(d), NEW out, i \notin out, Good(d, out, {}),
           d.layers[i].pending = None, NEW r, PushesUp(d, r, i)
    PROVE  Good(r, out, {})
<1>1. /\ r.chains = d.chains /\ r.queue = d.queue /\ r.deleted = d.deleted
      /\ \A n \in NodeIds(d) : r.nodes[n].items = d.nodes[n].items
  BY DEF PushesUp, KeepsReviews, Lifts
<1>2. QueueExact(r) /\ AllTracked(r)
  BY <1>1, QueueStays, TrackedStays DEF Good
<1> QED
  BY <1>2, OrderPushUp, PlacesPushUp DEF Good

LEMMA GoodAddLeaf ==
    ASSUME NEW d, Sound(d), Good(d, {}, {}), NEW r, AddsLeaf(d, r)
    PROVE  Good(r, {}, {Len(d.nodes) + 1}) /\ KidsFinished(r, Len(d.nodes) + 1)
<1>1. /\ r.chains = d.chains /\ r.queue = d.queue /\ r.deleted = d.deleted
      /\ \A n \in NodeIds(d) : r.nodes[n].items = d.nodes[n].items
  BY DEF AddsLeaf, KeepsReviews
<1>2. QueueExact(r) /\ AllTracked(r)
  BY <1>1, QueueStays, TrackedStays DEF Good
<1> QED
  BY <1>2, OrderAddLeaf, PlacesAddLeaf DEF Good

LEMMA GoodEnterClearing ==
    ASSUME NEW d, Sound(d), NEW i \in LayerIds(d), NEW out, i \notin out, Good(d, out, {})
    PROVE  Good(EnterClearing(d, i), out, {})
<1>1. \/ EnterClearing(d, i) = d
      \/ d.layers[i].pending = None /\ PushesUp(d, EnterClearing(d, i), i)
  BY EnterClearingSound
<1> QED
  BY <1>1, GoodPushUp

LEMMA GoodSubmission ==
    ASSUME NEW d, Sound(d), Good(d, {}, {}), NEW k \in 1 .. MaxItems
    PROVE  Good(EnterClearing(TaskRegister(AddLeaf(d, k), Len(d.nodes) + 1, 1), 1), {}, {})
<1> DEFINE n == Len(d.nodes) + 1
           e == AddLeaf(d, k)
           f == TaskRegister(e, n, 1)
<1>1. Sound(e) /\ n \in NodeIds(e) /\ 1 \in LayerIds(e) /\ AddsLeaf(d, e)
  BY AddLeafSound
<1> HIDE DEF e
<1>2. Good(e, {}, {n}) /\ KidsFinished(e, n)
  BY <1>1, GoodAddLeaf
<1> HIDE DEF n
<1>3. Sound(f) /\ LayerIds(f) = LayerIds(e) /\ Registers(e, f, n, 1)
  BY <1>1, TaskRegisterSound
<1> HIDE DEF f
<1>4. Good(f, {}, {})
  BY <1>1, <1>2, <1>3, GoodRegister
<1>5. Good(EnterClearing(f, 1), {}, {})
  BY <1>1, <1>3, <1>4, GoodEnterClearing
<1> QED
  BY <1>5 DEF f, e, n

\* The pending parent of layer i is registered one layer higher; it is not yet taken off
\* layer i.
LEMMA GoodParent ==
    ASSUME NEW d, Sound(d), Good(d, {}, {}), NEW i \in InCycle(d, "ROLL_UP")
    PROVE  LET f == RegisterParent(d, i)
           IN  /\ Sound(f) /\ Good(f, {i}, {}) /\ i \in LayerIds(f) /\ i + 1 \in LayerIds(f)
               /\ i # i + 1 /\ f.layers[i] = d.layers[i] /\ d.layers[i] \in LayerType
<1> DEFINE n == d.layers[i].pending
           e == EnsureLayer(d, i + 1)
           f == TaskRegister(e, n, i + 1)
<1>1. /\ i \in LayerIds(d) /\ d.layers[i].cycle = "ROLL_UP" /\ d.layers[i] \in LayerType
      /\ LayerIds(d) = 1 .. Len(d.layers) /\ Len(d.layers) \in Nat /\ MaxLayers \in Nat
  BY Parts, Bounds DEF Sound, InCycle
<1>2. n \in NodeIds(d) /\ n # None /\ i < MaxLayers
  BY <1>1 DEF Sound, SoundLayer
<1>3. i + 1 \in 1 .. Len(d.layers) + 1 /\ i + 1 <= MaxLayers /\ i # i + 1
  BY <1>1, <1>2
<1>4. KidsFinished(d, n)
  BY DEF Good, InOrderOfReview
<1>5. Placed(d, {i}, {n})
  BY <1>1, <1>2, PlacesTake DEF Good
<1> HIDE DEF n
<1>6. /\ Sound(e) /\ e.nodes = d.nodes /\ KeepsReviews(d, e)
      /\ NodeIds(e) = NodeIds(d) /\ i + 1 \in LayerIds(e)
      /\ LayerIds(e) = LayerIds(d) \cup {i + 1}
      /\ \A j \in LayerIds(d) : e.layers[j] = d.layers[j]
      /\ i + 1 \notin LayerIds(d) => e.layers[i + 1].agg = <<>> /\ e.layers[i + 1].pending = None
                                     /\ e.layers[i + 1].cycle = "DONE"
  BY <1>3, EnsureLayerSound
<1> HIDE DEF e
<1>7. e.chains = d.chains /\ e.queue = d.queue /\ e.deleted = d.deleted /\ ChainIds(e) = ChainIds(d)
  BY <1>6 DEF KeepsReviews, ChainIds
<1>8. QueueExact(e) /\ AllTracked(e)
  BY <1>6, <1>7, QueueStays, TrackedStays DEF Good
<1>9. KeepsChains(d, e)
  BY <1>7 DEF KeepsChains
<1>10. InOrderOfReview(e)
  <2>1. ASSUME NEW k \in LayerIds(e)
        PROVE  \/ /\ e.layers[k].agg = <<>> /\ e.layers[k].pending = None
                  /\ e.layers[k].cycle # "ROLL_UP"
               \/ /\ k \in LayerIds(d) /\ e.layers[k].agg = d.layers[k].agg
                  /\ e.layers[k].pending \in {d.layers[k].pending, None}
                  /\ e.layers[k].cycle = "ROLL_UP" =>
                        /\ e.layers[k].pending = d.layers[k].pending
                        /\ k \in InCycle(d, "ROLL_UP") \/ KidsFinished(e, e.layers[k].pending)
    <3>1. CASE k \in LayerIds(d)
      BY <1>6, <3>1 DEF InCycle
    <3>2. CASE k \notin LayerIds(d)
      BY <1>6, <3>2
    <3> QED
      BY <3>1, <3>2
  <2> QED
    BY <1>6, <1>7, <1>9, <2>1, OrderLayers DEF Good
<1>11. KidsFinished(e, n)
  BY <1>4, <1>6, <1>9, ChainsKept
<1>12. Placed(e, {i}, {n})
  <2>1. \A j \in LayerIds(e) \ LayerIds(d) : e.layers[j].agg = <<>> /\ e.layers[j].pending = None
    BY <1>6
  <2> QED
    BY <1>5, <1>6, <2>1, PlacesStay
<1>13. Good(e, {i}, {n})
  BY <1>8, <1>10, <1>12 DEF Good
<1>14. /\ Sound(f) /\ LayerIds(f) = LayerIds(e) /\ Registers(e, f, n, i + 1)
       /\ \A j \in LayerIds(e) \ {i + 1} : f.layers[j] = e.layers[j]
  BY <1>2, <1>6, TaskRegisterSound
<1>15. Good(f, {i}, {})
  BY <1>2, <1>6, <1>11, <1>13, <1>14, GoodRegister
<1>16. i \in LayerIds(f) /\ i + 1 \in LayerIds(f) /\ f.layers[i] = d.layers[i]
  BY <1>1, <1>3, <1>6, <1>14
<1> HIDE DEF f
<1>17. f = RegisterParent(d, i)
  BY Zenon DEF RegisterParent, f, e, n
<1> QED
  BY <1>1, <1>3, <1>14, <1>15, <1>16, <1>17

\* Phase B: the parent has a chain and a place one layer higher, and layer i lets it go.
LEMMA GoodPhaseB ==
    ASSUME NEW d, Sound(d), Good(d, {}, {}), NEW i \in InCycle(d, "ROLL_UP")
    PROVE  Good(PhaseB(d, i), {}, {})
<1> DEFINE old == d.layers[i]
           f == RegisterParent(d, i)
           g == EnterClearing(f, i + 1)
           layer == RolledUp(old)
<1>1. /\ Sound(f) /\ Good(f, {i}, {}) /\ i \in LayerIds(f) /\ i + 1 \in LayerIds(f)
      /\ i # i + 1 /\ f.layers[i] = old /\ old \in LayerType
  BY GoodParent
<1>2. PhaseB(d, i) = SetLayer(g, i, layer)
  BY Zenon DEF PhaseB
<1> HIDE DEF f, old
<1>3. /\ Sound(g) /\ LayerIds(g) = LayerIds(f)
      /\ \A j \in LayerIds(f) \ {i + 1} : g.layers[j] = f.layers[j]
  BY <1>1, EnterClearingSound
<1>4. Good(g, {i}, {})
  BY <1>1, GoodEnterClearing
<1> HIDE DEF g
<1>5. old = g.layers[i] /\ i \in LayerIds(g)
  BY <1>1, <1>3
<1>6. layer \in LayerType /\ layer.cycle = "DONE" /\ layer.pending = None /\ layer.agg = old.agg
  BY <1>1, RolledUpFacts
<1> HIDE DEF layer
<1>7. Good(SetLayer(g, i, layer), {}, {})
  BY <1>3, <1>4, <1>5, <1>6, GoodSetLayer
<1> QED
  BY <1>2, <1>7

\* A tick with an open gate: the queue it leaves is exact, and empty only when
\* every chain of the layer is finished.
LEMMA GoodTick ==
    ASSUME NEW d, Sound(d), Good(d, {}, {}), NEW i \in LayerIds(d), GateOk(d, i),
           NEW e \in TickResults(d, i)
    PROVE  /\ Sound(e) /\ LayerIds(e) = LayerIds(d) /\ Good(e, {}, {})
           /\ e.queue = <<>> => e.layers[i].managed = {}
<1>1. PICK q \in InOrder(Batch(d, i)) : e = Ticked(d, i, q)
  BY DEF TickResults
<1>2. q \in Seq(TaskId)
  BY BatchFacts, BatchInOrder
<1>3. Sound(e) /\ LayerIds(e) = LayerIds(d) /\ Ticks(d, e, i, q)
  BY <1>1, <1>2, TickedSound
<1>4. QueueExact(e) /\ AllTracked(e)
  BY <1>3, QueueTick, TrackedTick DEF Good
<1>5. /\ e.nodes = d.nodes /\ e.queue = q
      /\ e.layers[i].managed = StillManaged(d, i)
      /\ \A k \in LayerIds(d) : /\ e.layers[k].agg = d.layers[k].agg
                                /\ e.layers[k].pending = d.layers[k].pending
                                /\ e.layers[k].cycle = d.layers[k].cycle
  BY <1>3 DEF Ticks, KeepsOtherLayers
<1>6. InOrderOfReview(e)
  <2>1. KeepsChains(d, e) /\ ChainIds(e) = ChainIds(d)
    BY <1>3, TickKeepsChains
  <2>2. \A k \in LayerIds(d) : e.layers[k].cycle = "ROLL_UP" => k \in InCycle(d, "ROLL_UP")
    BY <1>5 DEF InCycle
  <2> QED
    BY <1>3, <1>5, <2>1, <2>2, OrderLayers DEF Good
<1>7. Placed(e, {}, {})
  BY <1>3, <1>5, PlacesStay DEF Good
<1>8. e.queue = <<>> => e.layers[i].managed = {}
  BY <1>5, EmptyTick DEF Good
<1> QED
  BY <1>3, <1>4, <1>6, <1>7, <1>8 DEF Good

LEMMA GoodEndClearing ==
    ASSUME NEW d, Sound(d), Good(d, {}, {}), NEW i \in LayerIds(d),
           d.queue = <<>> => d.layers[i].managed = {}
    PROVE  Good(EndClearing(d, i), {}, {})
<1>1. CASE d.queue # <<>>
  BY <1>1 DEF EndClearing
<1>2. CASE d.queue = <<>>
  <2> DEFINE old == d.layers[i]
             c == IF old.pending # None THEN "ROLL_UP" ELSE "DONE"
             layer == [old EXCEPT !.cycle = c]
  <2>1. old \in LayerType
    BY Parts DEF Sound
  <2>2. c \in CycleStates /\ (c = "ROLL_UP" => old.pending # None)
    BY DEF CycleStates
  <2>3. EndClearing(d, i) = SetLayer(d, i, layer)
    BY <1>2, Zenon DEF EndClearing, SetCycle
  <2>4. old.pending # None => KidsFinished(d, old.pending)
    <3>1. \A n : HasChain(d, n, i) => NodeFinished(d, n)
      BY <1>2, AllFinished
    <3>2. ChainsBelow(d, i, old)
      BY DEF Good, InOrderOfReview
    <3> QED
      BY <3>1, <3>2 DEF ChainsBelow, KidsFinished
  <2> HIDE DEF old, c
  <2>5. /\ layer \in LayerType /\ layer.cycle = c
        /\ layer.pending = old.pending /\ layer.agg = old.agg
    BY <2>1, <2>2 DEF LayerType
  <2> HIDE DEF layer
  <2>6. Good(SetLayer(d, i, layer), {}, {})
    BY <2>2, <2>4, <2>5, GoodSetLayer DEF old
  <2> QED
    BY <2>3, <2>6
<1> QED
  BY <1>1, <1>2

LEMMA GoodClearingCycle ==
    ASSUME NEW d, Sound(d), Good(d, {}, {}), NEW e \in ClearingCycle(d)
    PROVE  Good(e, {}, {})
<1>1. InCycle(d, "ROLL_UP") \in SUBSET Nat /\ Tickable(d) \in SUBSET Nat /\ Tickable(d) \subseteq LayerIds(d)
  BY InCycleType DEF Tickable
<1>2. CASE e = d
  BY <1>2
<1>3. CASE InCycle(d, "ROLL_UP") # {} /\ e = PhaseB(d, Lowest(InCycle(d, "ROLL_UP")))
  <2>1. Lowest(InCycle(d, "ROLL_UP")) \in InCycle(d, "ROLL_UP")
    BY <1>1, <1>3, LowestIsLeast
  <2> QED
    BY <1>3, <2>1, GoodPhaseB
<1>4. CASE /\ InCycle(d, "ROLL_UP") = {} /\ Tickable(d) # {}
           /\ e \in {EndClearing(f, Lowest(Tickable(d))) : f \in TickResults(d, Lowest(Tickable(d)))}
  <2> DEFINE i == Lowest(Tickable(d))
  <2>1. i \in Tickable(d)
    BY <1>1, <1>4, LowestIsLeast
  <2> HIDE DEF i
  <2>2. i \in LayerIds(d) /\ GateOk(d, i)
    BY <1>1, <2>1 DEF Tickable
  <2>3. PICK f \in TickResults(d, i) : e = EndClearing(f, i)
    BY <1>4 DEF i
  <2>4. /\ Sound(f) /\ i \in LayerIds(f) /\ Good(f, {}, {})
        /\ f.queue = <<>> => f.layers[i].managed = {}
    BY <2>2, <2>3, GoodTick
  <2> QED
    BY <2>3, <2>4, GoodEndClearing
<1> QED
  BY <1>2, <1>3, <1>4, Zenon DEF ClearingCycle

\* Trigger A: a tick outside a cycle, and the quota is spent.
LEMMA GoodTriggerA ==
    ASSUME NEW d, Sound(d), Good(d, {}, {}), NEW i \in LayerIds(d), NEW e \in TickResults(d, i)
    PROVE  Good(SetLayer(e, i, [e.layers[i] EXCEPT !.quota = 0]), {}, {})
<1>1. Sound(e) /\ i \in LayerIds(e) /\ Good(e, {}, {})
  <2>1. CASE GateOk(d, i)
    BY <2>1, GoodTick
  <2>2. CASE ~GateOk(d, i)
    BY <2>2 DEF TickResults
  <2> QED
    BY <2>1, <2>2
<1> DEFINE old == e.layers[i]
           layer == [old EXCEPT !.quota = 0]
<1>2. old \in LayerType /\ (old.cycle = "ROLL_UP" => i \in InCycle(e, "ROLL_UP"))
  BY <1>1, Parts DEF Sound, InCycle
<1> HIDE DEF old
<1>3. /\ layer \in LayerType /\ layer.cycle = old.cycle
      /\ layer.pending = old.pending /\ layer.agg = old.agg
  BY <1>2 DEF LayerType
<1> HIDE DEF layer
<1>4. Good(SetLayer(e, i, layer), {}, {})
  BY <1>1, <1>2, <1>3, GoodSetLayer DEF old
<1> QED
  BY <1>4 DEF layer, old

LEMMA GoodExecute ==
    ASSUME NEW d, Sound(d), Good(d, {}, {}), d.queue # <<>>, NEW missed \in SUBSET RecallPoint
    PROVE  LET r == CommitDone(d, Head(d.queue), missed) IN Sound(r) /\ Good(r, {}, {})
<1> DEFINE q == Head(d.queue)
           r == CommitDone(d, q, missed)
<1>1. q \in TaskId /\ q.chain \in ChainIds(d)
  <2>1. 1 \in DOMAIN d.queue /\ q = d.queue[1] /\ q \in TaskId
    BY Parts, SeqIsFunction, EmptySeq, HeadTailProperties DEF Sound
  <2> QED
    BY <2>1 DEF Good, QueueExact
<1> HIDE DEF q
<1>2. Sound(r) /\ r.layers = d.layers /\ Executes(d, r, q, missed)
  BY <1>1, CommitDoneSound
<1> HIDE DEF r
<1>3. QueueExact(r) /\ AllTracked(r)
  BY <1>2, QueueExecute, TrackedExecute DEF Good, q
<1>4. r.nodes = d.nodes /\ LayerIds(r) = LayerIds(d)
  BY <1>2 DEF Executes, LayerIds
<1>5. InOrderOfReview(r)
  <2>1. KeepsChains(d, r) /\ ChainIds(r) = ChainIds(d)
    BY <1>1, <1>2, ExecuteKeepsChains
  <2>2. \A k \in LayerIds(d) : r.layers[k].cycle = "ROLL_UP" => k \in InCycle(d, "ROLL_UP")
    BY <1>2 DEF InCycle
  <2> QED
    BY <1>2, <1>4, <2>1, <2>2, OrderLayers DEF Good
<1>6. Placed(r, {}, {})
  BY <1>2, <1>4, PlacesStay DEF Good
<1> QED
  BY <1>2, <1>3, <1>5, <1>6 DEF Good, r, q

LEMMA GoodManual ==
    ASSUME NEW d, Sound(d), Good(d, {}, {}), NEW i \in LayerIds(d), i < MaxLayers,
           d.layers[i].pending = None
    PROVE  Good(PhaseA(d, i, "MANUAL_DRAIN"), {}, {})
<1> DEFINE r == PhaseA(d, i, "MANUAL_DRAIN")
<1>1. PushesUp(d, r, i)
  BY PhaseASound
<1> HIDE DEF r
<1> QED
  BY <1>1, GoodPushUp DEF r

-----------------------------------------------------------------------------
(* The second invariant along the specification.                           *)

GInv == Good(db, {}, {})

LEMMA InitGood == Init => GInv
<1> SUFFICES ASSUME Init PROVE GInv
  OBVIOUS
<1> DEFINE new == NewLayer(DefaultConfig)
<1>1. db.nodes = <<>> /\ db.chains = <<>> /\ db.queue = <<>> /\ db.layers = <<new>>
  BY DEF Init
<1>2. new.agg = <<>> /\ new.pending = None /\ new.cycle = "DONE"
  BY DEF NewLayer
<1> HIDE DEF new
<1>3. NodeIds(db) = {} /\ ChainIds(db) = {} /\ LayerIds(db) = {1} /\ db.layers[1] = new
  BY <1>1 DEF NodeIds, ChainIds, LayerIds
<1>4. QueueExact(db) /\ AllTracked(db)
  BY <1>1, <1>3 DEF QueueExact, AllTracked
<1>5. SeqRange(<<>>) = {} /\ InCycle(db, "ROLL_UP") = {}
  BY <1>2, <1>3 DEF SeqRange, InCycle
<1>6. InOrderOfReview(db)
  BY <1>2, <1>3, <1>5 DEF InOrderOfReview, ChainsBelow
<1>7. \A i, j : ~Slot(db, i, j)
  BY <1>2, <1>3 DEF Slot
<1>8. Placed(db, {}, {})
  BY <1>3, <1>7 DEF Placed, Family, WaitsOnce, HeldOnce, OnePlace
<1> QED
  BY <1>4, <1>6, <1>8 DEF GInv, Good

LEMMA RequestGood ==
    ASSUME IInv, GInv, NEW t \in Threads, Request(t)
    PROVE  Good(db', {}, {})
<1>1. /\ Sound(db) /\ Exclusive(db) /\ Good(db, {}, {}) /\ db.deleted \in SUBSET RecallPoint
      /\ RecallPoints(db) \subseteq RecallPoint
  BY SoundPoints DEF IInv, GInv
<1>2. 1 \in 1 .. MaxItems
  BY BoundAssumption
<1>3. ASSUME NEW k \in 1 .. MaxItems, SubmitLearningTask(t, k) PROVE Good(db', {}, {})
  BY <1>1, <1>3, GoodSubmission DEF SubmitLearningTask
<1>4. ASSUME CollectRecallPoint(t) PROVE Good(db', {}, {})
  BY <1>1, <1>2, <1>4, GoodSubmission DEF CollectRecallPoint
<1>5. ASSUME NEW missed \in SUBSET RecallPoints(db), ExecutorCommitReviewTask(t, missed)
      PROVE  Good(db', {}, {})
  <2> DEFINE d == CommitDone(db, Head(db.queue), missed)
  <2>1. db.queue # <<>> /\ db' \in ClearingCycle(d)
    BY <1>5 DEF ExecutorCommitReviewTask
  <2>2. Sound(d) /\ Good(d, {}, {})
    BY <1>1, <2>1, GoodExecute
  <2> HIDE DEF d
  <2> QED
    BY <2>1, <2>2, GoodClearingCycle
<1>6. ASSUME NEW r \in RecallPoints(db), DeleteRecallPoint(t, r) PROVE Good(db', {}, {})
  <2> DEFINE deleted == db.deleted \cup {r}
  <2>1. db' = [db EXCEPT !.deleted = deleted] /\ deleted \in SUBSET RecallPoint
    BY <1>1, <1>6 DEF DeleteRecallPoint
  <2>2. db.strategy \in Strategies /\ db.deleted \subseteq deleted
    BY <1>1 DEF Sound, StoreType
  <2> HIDE DEF deleted
  <2> QED
    BY <1>1, <2>1, <2>2, SettingsSound, GoodSettings
<1>7. ASSUME NEW i \in LayerIds(db), ManualRollUp(t, i) PROVE Good(db', {}, {})
  BY <1>1, <1>7, GoodManual DEF ManualRollUp, RoomToRollUp
<1>8. ASSUME NEW i \in 1 .. MaxLayers, NEW cfg \in LayerConfigs, SetLayerConfig(t, i, cfg)
      PROVE  Good(db', {}, {})
  <2>1. SameWork(db, db')
    BY <1>1, <1>8, LayerConfigSound DEF SetLayerConfig
  <2> QED
    BY <1>1, <2>1, GoodSettings
<1>9. ASSUME NEW s \in Strategies, SetRollUpStrategy(t, s) PROVE Good(db', {}, {})
  <2>1. SameWork(db, db')
    BY <1>1, <1>9, SettingsSound DEF SetRollUpStrategy
  <2> QED
    BY <1>1, <2>1, GoodSettings
<1> QED
  BY <1>3, <1>4, <1>5, <1>6, <1>7, <1>8, <1>9 DEF Request

LEMMA DriverGood ==
    ASSUME IInv, GInv, NEW t \in Threads, DriverStep(t) \/ DriverConflict(t)
    PROVE  Good(db', {}, {})
<1>1. Sound(db) /\ Good(db, {}, {})
  BY DEF IInv, GInv
<1>2. ASSUME DriverRollUp(t) \/ DriverClearing(t) PROVE Good(db', {}, {})
  BY <1>1, <1>2, GoodClearingCycle DEF DriverRollUp, DriverClearing
<1>3. ASSUME DriverTriggerA(t) PROVE Good(db', {}, {})
  <2> DEFINE i == Lowest(TriggerALayers(db))
  <2>1. TriggerALayers(db) # {}
    BY <1>3 DEF DriverTriggerA
  <2>2. TriggerALayers(db) \subseteq LayerIds(db) /\ TriggerALayers(db) \in SUBSET Nat
    BY <1>1, InCycleType DEF TriggerALayers
  <2>3. i \in LayerIds(db)
    BY <2>1, <2>2, LowestIsLeast
  <2>4. PICK e \in TickResults(db, i) : db' = SetLayer(e, i, [e.layers[i] EXCEPT !.quota = 0])
    BY <1>3 DEF DriverTriggerA
  <2> HIDE DEF i
  <2> QED
    BY <1>1, <2>3, <2>4, GoodTriggerA
<1>4. ASSUME UNCHANGED db PROVE Good(db', {}, {})
  BY <1>1, <1>4
<1> QED
  BY <1>2, <1>3, <1>4 DEF DriverStep, DriverFails, DriverStops, DriverConflict

LEMMA NextGood == IInv /\ GInv /\ [Next]_vars => GInv'
<1> SUFFICES ASSUME IInv, GInv, [Next]_vars PROVE Good(db', {}, {})
  BY DEF GInv
<1>1. CASE UNCHANGED vars
  BY <1>1 DEF GInv, vars
<1>2. ASSUME NEW t \in Threads, Request(t) \/ DriverStep(t) \/ DriverConflict(t)
      PROVE  Good(db', {}, {})
  BY <1>2, RequestGood, DriverGood
<1>3. ASSUME NEW t \in Threads, OpenSession(t) \/ EndSession(t) PROVE Good(db', {}, {})
  BY <1>3 DEF OpenSession, EndSession, GInv
<1> QED
  BY <1>1, <1>2, <1>3 DEF Next

LEMMA InductiveGood == Spec => [](IInv /\ GInv)
<1>1. Init => GInv
  BY InitGood
<1>2. IInv /\ GInv /\ [Next]_vars => GInv'
  BY NextGood
<1> QED
  BY <1>1, <1>2, Inductive, PTL DEF Spec

\* The queue holds exactly the open rounds at the heads of the chains, one per chain: a
\* commit is never refused for the state of the queue, and no produced review is lost.
THEOREM QueueHoldsTheWork == Spec => []QueueIsExact
<1>1. ASSUME IInv, GInv PROVE QueueIsExact
  <2>1. Sound(db) /\ QueueExact(db)
    BY <1>1 DEF IInv, GInv, Good
  <2>2. QueueHoldsOpenHeads
    <3>1. ASSUME NEW j \in DOMAIN db.queue
          PROVE  LET q == db.queue[j]
                     chain == db.chains[q.chain]
                 IN  /\ q.chain \in ChainIds(db)
                     /\ q.chain \in db.layers[chain.layer].managed
                     /\ Current(chain, q)
      <4> DEFINE q == db.queue[j]
                 chain == db.chains[q.chain]
      <4>1. q.chain \in ChainIds(db) /\ Current(chain, q)
        BY <2>1, <3>1 DEF QueueExact
      <4> HIDE DEF q
      <4>2. /\ chain.layer \in LayerIds(db) /\ chain \in ChainType
            /\ db.layers[chain.layer].managed = Unfinished(db, chain.layer)
        <5>1. chain \in ChainType /\ SoundChain(db, chain)
          BY <2>1, <4>1, ChainParts
        <5> HIDE DEF chain
        <5> QED
          BY <2>1, <5>1 DEF Sound, SoundLayer, SoundChain
      <4>3. chain.head <= Len(chain.items)
        BY <4>1, <4>2 DEF Current, ChainType
      <4>4. q.chain \in Unfinished(db, chain.layer)
        BY <4>1, <4>3 DEF Unfinished
      <4> QED
        BY <4>1, <4>2, <4>4 DEF q
    <3> QED
      BY <2>1, <3>1 DEF QueueHoldsOpenHeads, QueueExact, Current
  <2>3. OpenRoundsAreQueued
    BY <2>1 DEF OpenRoundsAreQueued, QueueExact, Ready
  <2> QED
    BY <2>2, <2>3 DEF QueueIsExact
<1> QED
  BY <1>1, InductiveGood, PTL

\* A chain moves past a convergence only when every point of its seed has been recalled
\* in one of its rounds, or deleted.
THEOREM ConvergenceKeepsItsPromise == Spec => []ConvergedMeansRecalled
<1>1. ASSUME GInv PROVE ConvergedMeansRecalled
  BY <1>1 DEF GInv, Good, AllTracked, ChainTracked, Recalled, ConvergedMeansRecalled
<1> QED
  BY <1>1, InductiveGood, PTL

\* A node is below a parent, in one queue or pending in one roll-up, and nowhere twice.
THEOREM NodesAreNeitherLostNorDoubled == Spec => []EveryNodeHasOnePlace
<1>1. ASSUME IInv, GInv PROVE EveryNodeHasOnePlace
  <2>1. Sound(db) /\ Placed(db, {}, {})
    BY <1>1 DEF IInv, GInv, Good
  <2> QED
    BY <2>1, PlacedCounts
<1> QED
  BY <1>1, InductiveGood, PTL

\* A parent is registered, or waits for it, only when its children's chains are finished.
THEOREM ParentsWaitForTheirChildren == Spec => []RollUpAfterReview
<1>1. ASSUME GInv PROVE RollUpAfterReview
  <2>1. InOrderOfReview(db)
    BY <1>1 DEF GInv, Good
  <2>2. ASSUME NEW p \in NodeIds(db),
               \/ \E c \in ChainIds(db) : db.chains[c].node = p
               \/ \E i \in InCycle(db, "ROLL_UP") : db.layers[i].pending = p
        PROVE  KidsFinished(db, p)
    BY <2>1, <2>2 DEF InOrderOfReview
  <2> QED
    BY <2>2, Zenon DEF KidsFinished, NodeFinished, ChainFinished, RollUpAfterReview
<1> QED
  BY <1>1, InductiveGood, PTL

\* push_up never meets a candidate that has a parent, and phase B raises only when every
\* point of the parent has been deleted: the other refusal of the code is never taken.
THEOREM StuckOnlyByDeletion ==
    Spec => [](/\ \A i \in LayerIds(db) : CanPushUp(db, i)
               /\ \A i \in InCycle(db, "ROLL_UP") :
                     PhaseBFails(db, i) => Covered(db, db.layers[i].pending) = {})
<1>1. ASSUME NEW d, NEW i \in LayerIds(d), NEW out, Sound(d), Good(d, out, {}) PROVE CanPushUp(d, i)
  <2>1. SeqRange(d.layers[i].agg) \subseteq NodeIds(d)
    BY <1>1 DEF Sound, SoundLayer
  <2> QED
    BY <1>1, <2>1 DEF Good, Placed, OnePlace, Waits, CanPushUp
<1>2. ASSUME IInv, GInv
      PROVE  /\ \A i \in LayerIds(db) : CanPushUp(db, i)
             /\ \A i \in InCycle(db, "ROLL_UP") :
                   PhaseBFails(db, i) => Covered(db, db.layers[i].pending) = {}
  <2>1. Sound(db) /\ Good(db, {}, {})
    BY <1>2 DEF IInv, GInv
  <2>2. ASSUME NEW i \in InCycle(db, "ROLL_UP") PROVE CanPushUp(RegisterParent(db, i), i + 1)
    BY <1>1, <2>1, GoodParent
  <2> QED
    BY <1>1, <2>1, <2>2 DEF PhaseBFails
<1> QED
  BY <1>2, InductiveGood, PTL

\* When the last driver returns and phase B does not raise, work is left behind only if
\* another thread has the write lock at that moment or the iteration was the last: a loop
\* that stops by itself has found nothing to do.
THEOREM LoopLeavesNothingElse ==
    Spec => [][AllIdle' /\ ~AllIdle /\ WorkLeft' /\ ~Stuck'
                  => \E t \in Threads : fuel[t] > 0 /\ (open \ {t} # {} \/ fuel[t] = 1)]_vars
<1>1. ASSUME IInv, [Next]_vars, AllIdle', ~AllIdle, WorkLeft', ~Stuck'
      PROVE  \E t \in Threads : fuel[t] > 0 /\ (open \ {t} # {} \/ fuel[t] = 1)
  <2>1. fuel \in [Threads -> 0 .. MaxIterations] /\ MaxIterations \in Nat \ {0} /\ fuel' # fuel
    BY <1>1, BoundAssumption DEF IInv, AllIdle, Idle
  <2>2. PICK t \in Threads : Request(t) \/ DriverStep(t) \/ DriverConflict(t)
    <3>1. \A t \in Threads : ~OpenSession(t) /\ ~EndSession(t)
      BY <2>1 DEF OpenSession, EndSession
    <3> QED
      BY <1>1, <2>1, <3>1 DEF Next, vars
  <2>3. ~Request(t)
    <3>1. Request(t) => Drive(t) \/ UNCHANGED fuel
      BY DEF Request, SubmitLearningTask, CollectRecallPoint, ExecutorCommitReviewTask,
             DeleteRecallPoint, ManualRollUp, SetLayerConfig, SetRollUpStrategy
    <3>2. ~Drive(t)
      BY <1>1, <2>1 DEF Drive, AllIdle, Idle
    <3> QED
      BY <2>1, <3>1, <3>2
  <2>4. Burn(t) => fuel[t] = 1
    BY <1>1, <2>1 DEF Burn, AllIdle, Idle
  <2>5. ~DriverFails(t)
    <3>1. InCycle(db, "ROLL_UP") \in SUBSET Nat
      BY <1>1, InCycleType DEF IInv
    <3> SUFFICES ASSUME DriverFails(t) PROVE FALSE
      OBVIOUS
    <3>2. Lowest(InCycle(db, "ROLL_UP")) \in InCycle(db, "ROLL_UP")
      BY <3>1, LowestIsLeast DEF DriverFails, ClearingCycleFails
    <3>3. Stuck
      BY <3>2 DEF Stuck, DriverFails, ClearingCycleFails
    <3>4. Stuck'
      BY <3>3 DEF Stuck, DriverFails
    <3> QED
      BY <1>1, <3>4
  <2>6. ~DriverStops(t)
    BY <1>1 DEF DriverStops, WorkLeft, AwaitsTick
  <2> QED
    BY <2>2, <2>3, <2>4, <2>5, <2>6
    DEF DriverStep, DriverRollUp, DriverTriggerA, DriverClearing, DriverConflict
<1> QED
  BY <1>1, Inductive, PTL DEF Spec

=============================================================================
