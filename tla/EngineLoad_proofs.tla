-------------------------- MODULE EngineLoad_proofs --------------------------
(* Proofs about EngineLoad, for any artifacts and configs, any number of layers  *)
(* and of loads, and a device of any size.                                       *)
EXTENDS EngineLoad, FunctionTheorems, FiniteSetTheorems, TLAPS

-----------------------------------------------------------------------------
(* Where load() is and which objects it has made *)

Sourcing == {"device", "open", "tokenizer", "template", "fallback", "template file", "ends", "weights"}
ReadingSteps == {"global", "mlp", "mixer", "vision"}
Steps == Sourcing \cup ReadingSteps \cup {"arena", "kv", "graph", "draft"}

IsModel(m) == m = [load |-> m.load, types |-> m.types, views |-> m.views, vision |-> m.vision]

\* A member is of an earlier load before the step that replaces it, and of the running
\* load after it. A model is under construction only while tensors are read.
Order ==
  /\ pc \in Steps \cup {"idle"} /\ loads \in 0..MaxLoads /\ (pc # "idle" => loads > 0)
  /\ IsModel(building) /\ IsModel(model)
  /\ building.load = IF pc \in ReadingSteps THEN loads ELSE 0
  /\ ctx \in 0..loads /\ arena \in 0..loads /\ model.load \in 0..loads /\ kv.load \in 0..loads
  /\ graph.load \in 0..loads /\ draft.arena \in 0..loads /\ draft.graph \in 0..loads
  /\ pc \notin {"idle", "device"} => ctx = loads
  /\ pc \in Sourcing \cup ReadingSteps => model.load # loads
  /\ pc \in {"arena", "kv", "graph", "draft"} => model.load = loads
  /\ pc \in Sourcing \cup ReadingSteps \cup {"arena"} => arena # loads
  /\ pc \in {"kv", "graph", "draft"} => arena = loads
  /\ pc \in Sourcing \cup ReadingSteps \cup {"arena", "kv"} => kv.load # loads
  /\ pc \in {"graph", "draft"} => kv.load = loads
  /\ pc \in Steps \ {"draft"} => graph.load # loads
  /\ pc = "draft" => graph.load = loads
  /\ pc # "idle" => draft.arena # loads /\ draft.graph # loads

LEMMA NullObjects ==
  /\ IsModel(NoModel) /\ NoModel.load = 0 /\ NoModel.types = <<>> /\ NoModel.views = {}
  /\ NoCache.load = 0 /\ NoGraph.load = 0 /\ NoDraft.arena = 0 /\ NoDraft.graph = 0
  BY DEF NoModel, NoCache, NoGraph, NoDraft, IsModel

LEMMA OrderInit == Init => Order
  BY NullObjects, LoadAssumption DEF Init, Order, Steps, Sourcing, ReadingSteps

LEMMA OrderLoad ==
  ASSUME Order, NEW a, NEW c, Load(a, c)
  PROVE  Order'
  <1>1. /\ pc = "idle" /\ pc' = "device" /\ loads' = loads + 1 /\ loads < MaxLoads
        /\ UNCHANGED <<building, ctx, model, arena, kv, graph, draft>>
    BY DEF Load, loader, members
  <1>2. loads \in Nat /\ loads' \in 0..MaxLoads /\ loads' > 0 /\ building.load = 0
    BY <1>1, LoadAssumption DEF Order, ReadingSteps
  <1>3. \A k \in 0..loads : k \in 0..loads' /\ k # loads'
    BY <1>1, <1>2
  <1>4. \A k \in {ctx, arena, model.load, kv.load, graph.load, draft.arena, draft.graph} :
          k \in 0..loads' /\ k # loads'
    BY <1>3 DEF Order
  <1>5. pc' \in Sourcing /\ pc' \notin ReadingSteps \cup {"idle", "arena", "kv", "graph", "draft"}
    BY <1>1 DEF Sourcing, ReadingSteps
  <1>6. ctx' = ctx /\ arena' = arena /\ model' = model /\ kv' = kv /\ graph' = graph
        /\ draft' = draft /\ building' = building
    BY <1>1
  <1>7. IsModel(building') /\ IsModel(model')
    BY <1>6 DEF Order
  <1>8. /\ ctx \in 0..loads' /\ arena \in 0..loads' /\ model.load \in 0..loads'
        /\ kv.load \in 0..loads' /\ graph.load \in 0..loads'
        /\ draft.arena \in 0..loads' /\ draft.graph \in 0..loads'
        /\ arena # loads' /\ model.load # loads' /\ kv.load # loads' /\ graph.load # loads'
        /\ draft.arena # loads' /\ draft.graph # loads'
    BY <1>4
  <1> QED BY <1>1, <1>2, <1>5, <1>6, <1>7, <1>8 DEF Order, Steps

LEMMA OrderFail ==
  ASSUME Order, Fail \/ FailWithNull
  PROVE  Order'
  <1>1. /\ pc' = "idle" /\ loads' = loads /\ building' = NoModel
        /\ UNCHANGED <<ctx, arena, kv, graph, draft>>
        /\ model' = model \/ model' = NoModel
    BY DEF Fail, FailWithNull, Return, members
  <1>2. IsModel(model') /\ model'.load \in 0..loads
    BY <1>1, NullObjects, LoadAssumption DEF Order
  <1> QED BY <1>1, <1>2, NullObjects DEF Order, Steps, Sourcing, ReadingSteps

LEMMA OrderSources ==
  ASSUME Order, Sources
  PROVE  Order'
  <1> DEFINE Onward == /\ UNCHANGED <<loads, building, model, arena, kv, graph, draft>>
                       /\ pc \in Sourcing /\ pc' \in Sourcing \ {"device"}
                       /\ ctx' = loads /\ (pc # "device" => ctx' = ctx)
  <1>1. ASSUME Onward PROVE Order'
    <2>1. \A p \in Sourcing : p \notin ReadingSteps \cup {"idle", "arena", "kv", "graph", "draft"}
      BY DEF Sourcing, ReadingSteps
    <2> QED BY <1>1, <2>1 DEF Order, Steps
  <1>2. ASSUME CreateDevice PROVE Onward
    BY <1>2 DEF CreateDevice, loader, Sourcing
  <1>3. ASSUME pc \in Sourcing \ {"device"}, pc' \in Sourcing \ {"device"}, Stay
        PROVE  Onward
    BY <1>3 DEF Stay, loader, members, Order, Sourcing
  <1>4. ASSUME ~ Fail, ~ CreateDevice PROVE Onward
    <2>1. pc \in Sourcing \ {"device"} /\ pc' \in Sourcing \ {"device"} /\ Stay
      BY <1>4 DEF Sources, CreateDeviceFails, Open, OpenFails, EmbeddedTokenizer, EmbeddedTemplate,
                  TokenizerPresent, TokenizerFile, TemplateFile, CheckEnds, Sourcing
    <2> QED BY <1>3, <2>1
  <1> QED BY <1>1, <1>2, <1>4, OrderFail

LEMMA OrderWeights ==
  ASSUME Order, Weights
  PROVE  Order'
  <1> DEFINE Onward == /\ UNCHANGED <<loads, ctx, model, arena, kv, graph, draft>>
                       /\ pc \in ReadingSteps \cup {"weights"} /\ pc' \in ReadingSteps
                       /\ building'.load = loads /\ IsModel(building')
  <1>1. ASSUME Onward PROVE Order'
    <2>1. \A p \in ReadingSteps : p \notin {"device", "idle", "arena", "kv", "graph", "draft"}
      BY DEF ReadingSteps
    <2>2. "weights" \in Sourcing
      BY DEF Sourcing
    <2> QED BY <1>1, <2>1, <2>2 DEF Order, Steps
  <1>2. ASSUME NEW b, IsModel(b), NEW x
        PROVE  /\ IsModel([b EXCEPT !.views = x]) /\ [b EXCEPT !.views = x].load = b.load
               /\ IsModel([b EXCEPT !.types = x]) /\ [b EXCEPT !.types = x].load = b.load
               /\ IsModel([b EXCEPT !.load = x]) /\ [b EXCEPT !.load = x].load = x
               /\ IsModel([b EXCEPT !.vision = x]) /\ [b EXCEPT !.vision = x].load = b.load
    BY <1>2 DEF IsModel
  <1>3. CASE StartModel
    <2>1. Onward
      BY <1>2, <1>3, NullObjects DEF StartModel, Quiet, members, ReadingSteps
    <2> QED BY <1>1, <2>1
  <1>4. CASE LoadTensor \/ LoadVisionTensor \/ BeginLayer \/ DetectType \/ BeginVision
    <2>1. pc \in ReadingSteps /\ pc' \in ReadingSteps
      BY <1>4 DEF LoadTensor, Reading, LoadVisionTensor, BeginLayer, DetectType, BeginVision, ReadingSteps
    <2>2. UNCHANGED <<loads, ctx, model, arena, kv, graph, draft>>
      BY <1>4 DEF LoadTensor, LoadVisionTensor, BeginLayer, DetectType, BeginVision, Quiet, members
    <2>3. building'.load = building.load /\ IsModel(building')
      <3>1. IsModel(building)
        BY DEF Order
      <3>2. CASE LoadTensor \/ LoadVisionTensor
        <4>1. building' = [building EXCEPT !.views = building.views \cup Views(Head(work))]
          BY <3>2 DEF LoadTensor, LoadVisionTensor
        <4> QED BY <1>2, <3>1, <4>1
      <3>3. CASE DetectType
        <4>1. building' = [building EXCEPT !.types = Append(building.types, DetectedType(artifact, layer))]
          BY <3>3 DEF DetectType
        <4> QED BY <1>2, <3>1, <4>1
      <3>4. CASE BeginLayer \/ BeginVision
        BY <3>1, <3>4 DEF BeginLayer, BeginVision
      <3> QED BY <1>4, <3>2, <3>3, <3>4
    <2>4. building.load = loads
      BY <2>1 DEF Order
    <2> QED BY <1>1, <2>1, <2>2, <2>3, <2>4
  <1>5. CASE FinishModel
    <2>1. pc = "vision" /\ pc' = "arena" /\ building' = NoModel
          /\ UNCHANGED <<loads, ctx, arena, kv, graph, draft>>
      BY <1>5 DEF FinishModel
    <2>2. building.load = loads
      BY <2>1 DEF Order, ReadingSteps
    <2>3. IsModel(model') /\ model'.load = loads
      BY <1>2, <1>5, <2>2 DEF FinishModel, Order
    <2> QED BY <2>1, <2>3, NullObjects DEF Order, Steps, Sourcing, ReadingSteps
  <1>6. CASE \/ StartModelFails \/ LoadTensorFails \/ LoadTensorThrows \/ LayerTypesFail
             \/ TypeMismatch \/ LoadVisionThrows
    <2>1. Fail \/ FailWithNull
      BY <1>6 DEF StartModelFails, LoadTensorFails, LoadTensorThrows, LayerTypesFail, TypeMismatch,
                  LoadVisionThrows
    <2> QED BY <2>1, OrderFail
  <1> QED BY <1>3, <1>4, <1>5, <1>6 DEF Weights

LEMMA OrderBuilding ==
  ASSUME Order, Building
  PROVE  Order'
  <1> USE DEF Around, loader, Return
  <1> DEFINE Kept == UNCHANGED <<loads, ctx, model, building>>
  <1>1. CASE MakeArena
    BY <1>1 DEF MakeArena, Order, Steps, Sourcing, ReadingSteps
  <1>2. CASE MakeCache \/ MakeCacheFails \/ MakeEmptyCacheFails
    <2>1. kv'.load = loads
      BY <1>2 DEF MakeCache, MakeCacheFails, MakeEmptyCacheFails, NewCache
    <2> QED BY <1>2, <2>1 DEF MakeCache, MakeCacheFails, MakeEmptyCacheFails, Order, Steps, Sourcing, ReadingSteps
  <1>3. CASE MakeGraph \/ MakeGraphThrows
    <2>1. graph'.load = loads
      BY <1>3 DEF MakeGraph, MakeGraphThrows, NewGraph
    <2> QED BY <1>3, <2>1 DEF MakeGraph, MakeGraphThrows, Order, Steps, Sourcing, ReadingSteps
  <1>4. CASE MakeDraft \/ DraftGraphThrows
    <2>1. draft'.arena = loads /\ draft'.graph = loads
      <3>1. draft' = [arena |-> loads, graph |-> loads]
        BY <1>4 DEF MakeDraft, DraftGraphThrows
      <3> QED BY <3>1
    <2> QED BY <1>4, <2>1 DEF MakeDraft, DraftGraphThrows, Order, Steps, Sourcing, ReadingSteps
  <1>5. CASE NoSpeculation
    BY <1>5 DEF NoSpeculation, Order, Steps, Sourcing, ReadingSteps
  <1>6. CASE MakeArenaThrows \/ MakeDraftThrows
    <2>1. Fail
      BY <1>6 DEF MakeArenaThrows, MakeDraftThrows
    <2> QED BY <2>1, OrderFail
  <1> QED BY <1>1, <1>2, <1>3, <1>4, <1>5, <1>6 DEF Building

LEMMA OrderStutter == Order /\ UNCHANGED vars => Order'
  BY DEF Order, vars, loader, members

LEMMA OrderStep ==
  ASSUME Order, [Next]_vars
  PROVE  Order'
  BY OrderLoad, OrderSources, OrderWeights, OrderBuilding, OrderStutter DEF Next

-----------------------------------------------------------------------------
(* Device memory *)

Held(part, k) == Owner(part) = k \/ (part = "model" /\ building.load = k)

\* What nobody holds is free, a model's blocks are those it has recorded, and nothing is
\* recorded for a load that has not begun to read tensors.
Ledger ==
  /\ memory = [o \in Parts \X (1..MaxLoads) |-> memory[o]]
  /\ allocated_ptrs \in [1..MaxLoads -> Nat]
  /\ \A part \in Parts, k \in 1..MaxLoads : ~ Held(part, k) => memory[<<part, k>>] = 0
  /\ \A k \in 1..MaxLoads :
       k = model.load \/ k = building.load => memory[<<"model", k>>] = allocated_ptrs[k]
  /\ \A k \in 1..MaxLoads : k > loads \/ (k = loads /\ pc \in Sourcing) => allocated_ptrs[k] = 0

LEMMA UnheldIsFree ==
  ASSUME Ledger, NEW part \in Parts, NEW k \in 1..MaxLoads, ~ Held(part, k)
  PROVE  memory[<<part, k>>] = 0
  BY DEF Ledger

IsMemory(m) == m = [o \in Parts \X (1..MaxLoads) |-> m[o]]

LEMMA Owners ==
  /\ Owner("model") = model.load /\ Owner("arena") = arena /\ Owner("kv") = kv.load
  /\ Owner("graph") = graph.load /\ Owner("draft arena") = draft.arena
  /\ Owner("draft graph") = draft.graph
  BY DEF Owner

\* An allocation as it appears in the actions.
Put(m, part, load, n) == [m EXCEPT ![<<part, load>>] = n]

LEMMA PutBlock ==
  ASSUME NEW m, IsMemory(m), NEW part \in Parts, NEW load \in 1..MaxLoads, NEW n
  PROVE  /\ IsMemory(Put(m, part, load, n))
         /\ \A p \in Parts, k \in 1..MaxLoads :
              Put(m, part, load, n)[<<p, k>>] = IF p = part /\ k = load THEN n ELSE m[<<p, k>>]
  BY DEF IsMemory, Put

\* The destructor of an object other than a model frees what it holds, and so does that of
\* a model that has recorded all its blocks.
LEMMA FreePart ==
  ASSUME NEW m, IsMemory(m), NEW part \in Parts \ {"model"}, NEW load \in 0..MaxLoads
  PROVE  /\ IsMemory(FreedBy(m, part, load))
         /\ \A p \in Parts, k \in 1..MaxLoads :
              FreedBy(m, part, load)[<<p, k>>] = IF p = part /\ k = load THEN 0 ELSE m[<<p, k>>]
  <1>1. CASE load = 0
    BY <1>1, LoadAssumption DEF FreedBy
  <1>2. CASE load # 0
    <2>1. load \in 1..MaxLoads
      BY <1>2, LoadAssumption
    <2>2. FreedBy(m, part, load) = [m EXCEPT ![<<part, load>>] = 0]
      BY <1>2 DEF FreedBy
    <2> QED BY <2>1, <2>2 DEF IsMemory
  <1> QED BY <1>1, <1>2

LEMMA FreeModel ==
  ASSUME NEW m, IsMemory(m), NEW load \in 0..MaxLoads,
         allocated_ptrs \in [1..MaxLoads -> Nat],
         load # 0 => m[<<"model", load>>] = allocated_ptrs[load]
  PROVE  /\ IsMemory(FreedBy(m, "model", load))
         /\ \A p \in Parts, k \in 1..MaxLoads :
              FreedBy(m, "model", load)[<<p, k>>] = IF p = "model" /\ k = load THEN 0 ELSE m[<<p, k>>]
  <1>1. CASE load = 0
    BY <1>1, LoadAssumption DEF FreedBy
  <1>2. CASE load # 0
    <2>1. load \in 1..MaxLoads /\ allocated_ptrs[load] \in Nat
      BY <1>2, LoadAssumption
    <2>2. m[<<"model", load>>] - allocated_ptrs[load] = 0
      BY <1>2, <2>1
    <2>3. FreedBy(m, "model", load) = [m EXCEPT ![<<"model", load>>] = 0]
      BY <1>2, <2>2 DEF FreedBy
    <2> QED BY <2>1, <2>3 DEF IsMemory
  <1> QED BY <1>1, <1>2

LEMMA LedgerInit == Init => Ledger
  <1> SUFFICES ASSUME Init PROVE Ledger
    OBVIOUS
  <1>1. memory = [o \in Parts \X (1..MaxLoads) |-> 0]
    BY DEF Init
  <1>2. memory = [o \in Parts \X (1..MaxLoads) |-> memory[o]]
        /\ \A part \in Parts, k \in 1..MaxLoads : memory[<<part, k>>] = 0
    BY <1>1
  <1>3. allocated_ptrs \in [1..MaxLoads -> Nat] /\ \A k \in 1..MaxLoads : allocated_ptrs[k] = 0
    BY DEF Init
  <1> QED BY <1>2, <1>3 DEF Ledger, Parts

\* Steps that neither allocate nor free, and only go on within load().
LEMMA LedgerQuiet ==
  ASSUME Ledger, Order, UNCHANGED <<memory, allocated_ptrs, model, arena, kv, graph, draft>>,
         building'.load = building.load \/ (building.load = 0 /\ pc = "weights" /\ building'.load = loads),
         \/ loads' = loads /\ (pc' \in Sourcing => pc \in Sourcing)
         \/ loads' = loads + 1
  PROVE  Ledger'
  <1>1. \A p \in Parts : Owner(p)' = Owner(p)
    BY DEF Owner
  <1>2. loads \in 0..MaxLoads /\ model.load \in 0..loads
    BY DEF Order
  <1>3. \A p \in Parts, k \in 1..MaxLoads : Held(p, k) => Held(p, k)'
    <2>1. building.load # 0 => building'.load = building.load
      OBVIOUS
    <2> QED BY <1>1, <2>1, LoadAssumption DEF Held
  <1>4. ASSUME NEW k \in 1..MaxLoads, k = building'.load, building'.load # building.load
        PROVE  memory[<<"model", k>>] = 0 /\ allocated_ptrs[k] = 0
    <2>1. k = loads /\ building.load = 0 /\ pc = "weights" /\ model.load # loads
      BY <1>4 DEF Order, Sourcing
    <2>2. ~ Held("model", k)
      <3>1. k # 0 /\ Owner("model") # k
        BY <2>1, LoadAssumption DEF Owner
      <3> QED BY <2>1, <3>1 DEF Held
    <2> QED BY <2>1, <2>2 DEF Ledger, Parts, Sourcing
  <1>5. \A k \in 1..MaxLoads : k > loads' \/ (k = loads' /\ pc' \in Sourcing)
                                => k > loads \/ (k = loads /\ pc \in Sourcing)
    BY <1>2, LoadAssumption
  <1>6. \A part \in Parts, k \in 1..MaxLoads : ~ Held(part, k)' => memory'[<<part, k>>] = 0
    BY <1>3 DEF Ledger
  <1>7. \A k \in 1..MaxLoads : k = model'.load \/ k = building'.load
                                => memory'[<<"model", k>>] = allocated_ptrs'[k]
    BY <1>4 DEF Ledger
  <1> QED BY <1>5, <1>6, <1>7 DEF Ledger

\* make_unique: each of some objects is replaced by one of the running load.
LEMMA LedgerReplaced ==
  ASSUME Ledger, Order, NEW S \in SUBSET (Parts \ {"model"}), IsMemory(memory'),
         \A p \in S, k \in 1..MaxLoads : k # loads => memory'[<<p, k>>] = 0,
         \A p \in Parts \ S, k \in 1..MaxLoads : memory'[<<p, k>>] = memory[<<p, k>>],
         \A p \in S : Owner(p)' = loads,
         \A p \in Parts \ S : Owner(p)' = Owner(p),
         UNCHANGED <<building, model, loads, allocated_ptrs>>, pc' \notin Sourcing
  PROVE  Ledger'
  <1>1. ASSUME NEW p \in Parts, NEW k \in 1..MaxLoads, ~ Held(p, k)'
        PROVE  memory'[<<p, k>>] = 0
    <2>1. CASE p \in S
      <3>1. k # loads
        BY <1>1, <2>1 DEF Held
      <3> QED BY <2>1, <3>1
    <2>2. CASE p \notin S
      <3>1. ~ Held(p, k)
        BY <1>1, <2>2 DEF Held
      <3>2. memory[<<p, k>>] = 0
        BY <3>1, UnheldIsFree
      <3> QED BY <2>2, <3>2
    <2> QED BY <2>1, <2>2
  <1>2. \A k \in 1..MaxLoads : memory'[<<"model", k>>] = memory[<<"model", k>>]
    BY DEF Parts
  <1> QED BY <1>1, <1>2 DEF Ledger, IsMemory

\* What holds of every memory in which one object replaced another.
LEMMA SwapPart ==
  ASSUME Ledger, Order, loads \in 1..MaxLoads, NEW part \in Parts \ {"model"}, NEW n,
         Owner(part) \in 0..MaxLoads, Owner(part) # loads,
         \/ memory' = FreedBy(Put(memory, part, loads, n), part, Owner(part))
         \/ memory' = Put(FreedBy(memory, part, Owner(part)), part, loads, n),
         \A p \in Parts \ {part} : Owner(p)' = Owner(p), Owner(part)' = loads,
         UNCHANGED <<building, model, loads, allocated_ptrs>>, pc' \notin Sourcing
  PROVE  Ledger'
  <1> DEFINE old == Owner(part)
  <1>1. IsMemory(memory) /\ \A k \in 1..MaxLoads : k # old => memory[<<part, k>>] = 0
    BY DEF Ledger, IsMemory, Held
  <1>2. /\ IsMemory(memory')
        /\ \A p \in Parts, k \in 1..MaxLoads :
             memory'[<<p, k>>] = IF p = part /\ k = loads THEN n
                                 ELSE IF p = part /\ k = old THEN 0 ELSE memory[<<p, k>>]
    <2>1. CASE memory' = FreedBy(Put(memory, part, loads, n), part, old)
      <3> DEFINE m == Put(memory, part, loads, n)
      <3>1. /\ IsMemory(m)
            /\ \A p \in Parts, k \in 1..MaxLoads :
                 m[<<p, k>>] = IF p = part /\ k = loads THEN n ELSE memory[<<p, k>>]
        BY <1>1, PutBlock
      <3>2. memory' = FreedBy(m, part, old)
        BY <2>1
      <3> HIDE DEF m
      <3>3. /\ IsMemory(FreedBy(m, part, old))
            /\ \A p \in Parts, k \in 1..MaxLoads :
                 FreedBy(m, part, old)[<<p, k>>] = IF p = part /\ k = old THEN 0 ELSE m[<<p, k>>]
        BY <3>1, FreePart
      <3> QED BY <3>1, <3>2, <3>3
    <2>2. CASE memory' = Put(FreedBy(memory, part, old), part, loads, n)
      <3> DEFINE m == FreedBy(memory, part, old)
      <3>1. /\ IsMemory(m)
            /\ \A p \in Parts, k \in 1..MaxLoads :
                 m[<<p, k>>] = IF p = part /\ k = old THEN 0 ELSE memory[<<p, k>>]
        BY <1>1, FreePart
      <3>2. memory' = Put(m, part, loads, n)
        BY <2>2
      <3> HIDE DEF m
      <3>3. /\ IsMemory(Put(m, part, loads, n))
            /\ \A p \in Parts, k \in 1..MaxLoads :
                 Put(m, part, loads, n)[<<p, k>>] = IF p = part /\ k = loads THEN n ELSE m[<<p, k>>]
        BY <3>1, PutBlock
      <3> QED BY <3>1, <3>2, <3>3
    <2> QED BY <2>1, <2>2
  <1>3. \A k \in 1..MaxLoads : k # loads => memory'[<<part, k>>] = 0
    BY <1>1, <1>2
  <1>4. \A p \in Parts \ {part}, k \in 1..MaxLoads : memory'[<<p, k>>] = memory[<<p, k>>]
    BY <1>2
  <1>5. {part} \in SUBSET (Parts \ {"model"})
    OBVIOUS
  <1> QED BY <1>2, <1>3, <1>4, <1>5, LedgerReplaced

LEMMA LedgerParts ==
  ASSUME Ledger, Order, MakeArena \/ MakeCache \/ MakeCacheFails \/ MakeEmptyCacheFails \/ MakeGraph \/ MakeGraphThrows
  PROVE  Ledger'
  <1>0. UNCHANGED <<building, model, loads, allocated_ptrs>>
    BY DEF MakeArena, MakeCache, MakeCacheFails, MakeEmptyCacheFails, MakeGraph, MakeGraphThrows, Around, loader
  <1>1. pc' \notin Sourcing
    BY DEF MakeArena, MakeCache, MakeCacheFails, MakeEmptyCacheFails, MakeGraph, MakeGraphThrows, Return, Sourcing
  <1>2. loads \in 1..MaxLoads
    <2>1. pc # "idle"
      BY DEF MakeArena, MakeCache, MakeCacheFails, MakeEmptyCacheFails, MakeGraph, MakeGraphThrows
    <2> QED BY <2>1, LoadAssumption DEF Order
  <1>3. \A k \in 0..loads : k \in 0..MaxLoads
    BY <1>2, LoadAssumption
  <1>4. CASE MakeArena
    <2>1. /\ pc = "arena" /\ arena' = loads /\ UNCHANGED <<kv, graph, draft>>
          /\ memory' = FreedBy(Put(memory, "arena", loads, 1), "arena", arena)
      BY <1>4 DEF MakeArena, Around, Put
    <2>2. "arena" \in Parts \ {"model"} /\ Owner("arena") = arena /\ Owner("arena")' = loads
      BY <2>1 DEF Parts, Owner
    <2>3. \A p \in Parts \ {"arena"} : Owner(p)' = Owner(p)
      BY <1>0, <2>1 DEF Parts, Owner
    <2>4. arena \in 0..MaxLoads /\ arena # loads
      BY <1>3, <2>1 DEF Order
    <2> QED BY <1>0, <1>1, <1>2, <2>1, <2>2, <2>3, <2>4, SwapPart
  <1>5. CASE MakeCache \/ MakeCacheFails \/ MakeEmptyCacheFails
    <2>1. /\ pc = "kv" /\ kv' = NewCache /\ UNCHANGED <<arena, graph, draft>>
          /\ \E n : memory' = Put(FreedBy(memory, "kv", kv.load), "kv", loads, n)
      BY <1>5 DEF MakeCache, MakeCacheFails, MakeEmptyCacheFails, Around, Put
    <2>2. "kv" \in Parts \ {"model"} /\ Owner("kv") = kv.load /\ Owner("kv")' = loads
      BY <2>1 DEF Parts, Owner, NewCache
    <2>3. \A p \in Parts \ {"kv"} : Owner(p)' = Owner(p)
      BY <1>0, <2>1 DEF Parts, Owner
    <2>4. kv.load \in 0..MaxLoads /\ kv.load # loads
      BY <1>3, <2>1 DEF Order
    <2>5. PICK n : memory' = Put(FreedBy(memory, "kv", kv.load), "kv", loads, n)
      BY <2>1
    <2> QED BY <1>0, <1>1, <1>2, <2>2, <2>3, <2>4, <2>5, SwapPart
  <1>6. CASE MakeGraph \/ MakeGraphThrows
    <2>1. /\ pc = "graph" /\ graph'.load = loads /\ UNCHANGED <<arena, kv, draft>>
          /\ memory' = FreedBy(Put(memory, "graph", loads, Least(GraphBuffers, Room)), "graph", graph.load)
      <3>1. \E captured : graph' = NewGraph(captured)
        BY <1>6 DEF MakeGraph, MakeGraphThrows
      <3>2. graph'.load = loads
        BY <3>1 DEF NewGraph
      <3> QED BY <1>6, <3>2 DEF MakeGraph, MakeGraphThrows, Put
    <2>2. "graph" \in Parts \ {"model"} /\ Owner("graph") = graph.load /\ Owner("graph")' = loads
      BY <2>1 DEF Parts, Owner
    <2>3. \A p \in Parts \ {"graph"} : Owner(p)' = Owner(p)
      BY <1>0, <2>1 DEF Parts, Owner
    <2>4. graph.load \in 0..MaxLoads /\ graph.load # loads
      BY <1>3, <2>1 DEF Order, Steps
    <2> QED BY <1>0, <1>1, <1>2, <2>1, <2>2, <2>3, <2>4, SwapPart
  <1> QED BY <1>4, <1>5, <1>6

LEMMA SwapTwo ==
  ASSUME NEW mem, IsMemory(mem), loads \in 1..MaxLoads,
         NEW p \in Parts \ {"model"}, NEW q \in Parts \ {"model"}, p # q, NEW u, NEW v,
         NEW a \in 0..MaxLoads, NEW b \in 0..MaxLoads, a # loads, b # loads,
         NEW r, r = FreedBy(FreedBy(Put(Put(mem, p, loads, u), q, loads, v), p, a), q, b)
  PROVE  /\ IsMemory(r)
         /\ \A k \in 1..MaxLoads : k # loads =>
              /\ r[<<p, k>>] = IF k = a THEN 0 ELSE mem[<<p, k>>]
              /\ r[<<q, k>>] = IF k = b THEN 0 ELSE mem[<<q, k>>]
         /\ \A x \in Parts \ {p, q}, k \in 1..MaxLoads : r[<<x, k>>] = mem[<<x, k>>]
  <1> DEFINE m1 == Put(mem, p, loads, u)
             m2 == Put(m1, q, loads, v)
             m3 == FreedBy(m2, p, a)
  <1>1. /\ IsMemory(m1)
        /\ \A x \in Parts, k \in 1..MaxLoads :
             m1[<<x, k>>] = IF x = p /\ k = loads THEN u ELSE mem[<<x, k>>]
    BY PutBlock
  <1> HIDE DEF m1
  <1>2. /\ IsMemory(m2)
        /\ \A x \in Parts, k \in 1..MaxLoads :
             m2[<<x, k>>] = IF x = q /\ k = loads THEN v ELSE m1[<<x, k>>]
    BY <1>1, PutBlock
  <1> HIDE DEF m2
  <1>3. /\ IsMemory(m3)
        /\ \A x \in Parts, k \in 1..MaxLoads :
             m3[<<x, k>>] = IF x = p /\ k = a THEN 0 ELSE m2[<<x, k>>]
    BY <1>2, FreePart
  <1>4. r = FreedBy(m3, q, b)
    BY DEF m1, m2, m3
  <1> HIDE DEF m3
  <1>5. /\ IsMemory(r)
        /\ \A x \in Parts, k \in 1..MaxLoads :
             r[<<x, k>>] = IF x = q /\ k = b THEN 0 ELSE m3[<<x, k>>]
    <2>1. /\ IsMemory(FreedBy(m3, q, b))
          /\ \A x \in Parts, k \in 1..MaxLoads :
               FreedBy(m3, q, b)[<<x, k>>] = IF x = q /\ k = b THEN 0 ELSE m3[<<x, k>>]
      BY <1>3, FreePart
    <2> QED BY <1>4, <2>1
  <1> QED BY <1>1, <1>2, <1>3, <1>5

LEMMA LedgerDraft ==
  ASSUME Ledger, Order, MakeDraft \/ DraftGraphThrows
  PROVE  Ledger'
  <1> DEFINE n == IF MakeDraft THEN Least(GraphBuffers, Room - 1) ELSE Room - 1
             p == "draft arena"
             q == "draft graph"
  <1>1. /\ pc = "draft" /\ pc' = "idle" /\ draft' = [arena |-> loads, graph |-> loads]
        /\ UNCHANGED <<building, model, loads, allocated_ptrs, arena, kv, graph>>
    BY DEF MakeDraft, DraftGraphThrows, Around, loader, Return
  <1>2. memory' = FreedBy(FreedBy(Put(Put(memory, p, loads, 1), q, loads, n), p, draft.arena),
                          q, draft.graph)
    BY DEF MakeDraft, DraftGraphThrows, Put
  <1>3. /\ loads \in 1..MaxLoads
        /\ draft.arena \in 0..MaxLoads /\ draft.arena # loads
        /\ draft.graph \in 0..MaxLoads /\ draft.graph # loads
    BY <1>1, LoadAssumption DEF Order
  <1>4. p \in Parts \ {"model"} /\ q \in Parts \ {"model"} /\ p # q
    BY DEF Parts
  <1>5. IsMemory(memory)
    BY DEF Ledger, IsMemory
  <1>10. /\ \A x \in Parts \ {p, q} : Owner(x)' = Owner(x)
         /\ Owner(p)' = loads /\ Owner(q)' = loads
         /\ Owner(p) = draft.arena /\ Owner(q) = draft.graph
    BY <1>1 DEF Parts, Owner
  <1>14. pc' \notin Sourcing
    BY <1>1 DEF Sourcing
  <1> HIDE DEF n, p, q
  <1>6. /\ IsMemory(memory')
        /\ \A k \in 1..MaxLoads : k # loads =>
             /\ memory'[<<p, k>>] = IF k = draft.arena THEN 0 ELSE memory[<<p, k>>]
             /\ memory'[<<q, k>>] = IF k = draft.graph THEN 0 ELSE memory[<<q, k>>]
        /\ \A x \in Parts \ {p, q}, k \in 1..MaxLoads : memory'[<<x, k>>] = memory[<<x, k>>]
    BY <1>2, <1>3, <1>4, <1>5, SwapTwo
  <1>11. \A k \in 1..MaxLoads : /\ k # draft.arena => memory[<<p, k>>] = 0
                                /\ k # draft.graph => memory[<<q, k>>] = 0
    BY <1>4, <1>10 DEF Ledger, Held
  <1>12. \A x \in {p, q}, k \in 1..MaxLoads : k # loads => memory'[<<x, k>>] = 0
    BY <1>6, <1>11
  <1>13. {p, q} \in SUBSET (Parts \ {"model"})
    BY <1>4
  <1> QED BY <1>1, <1>6, <1>10, <1>12, <1>13, <1>14, LedgerReplaced

\* A model that dies frees what it has recorded.
LEMMA LedgerFail ==
  ASSUME Ledger, Order, Fail \/ FailWithNull
  PROVE  Ledger'
  <1> DEFINE b == building.load
             m == FreedBy(memory, "model", b)
  <1>1. /\ pc' = "idle" /\ loads' = loads /\ allocated_ptrs' = allocated_ptrs /\ building' = NoModel
        /\ UNCHANGED <<arena, kv, graph, draft>>
        /\ \/ model' = model /\ memory' = m
           \/ model' = NoModel /\ memory' = FreedBy(m, "model", model.load)
    BY DEF Fail, FailWithNull, Return, members
  <1>2. /\ loads \in 0..MaxLoads /\ b \in 0..MaxLoads /\ model.load \in 0..MaxLoads
        /\ b # 0 => model.load # b
    <2>1. loads \in 0..MaxLoads /\ b \in {0, loads} /\ model.load \in 0..loads
      BY DEF Order
    <2>2. b # 0 => model.load # b
      BY DEF Order
    <2> QED BY <2>1, <2>2, LoadAssumption
  <1>3. IsMemory(memory) /\ allocated_ptrs \in [1..MaxLoads -> Nat] /\ "model" \in Parts
    BY DEF Ledger, IsMemory, Parts
  <1>4. /\ b # 0 => memory[<<"model", b>>] = allocated_ptrs[b]
        /\ model.load # 0 => memory[<<"model", model.load>>] = allocated_ptrs[model.load]
    <2>1. \A k \in 1..MaxLoads : k = model.load \/ k = b => memory[<<"model", k>>] = allocated_ptrs[k]
      BY DEF Ledger
    <2>2. \A k \in 0..MaxLoads : k # 0 => k \in 1..MaxLoads
      BY LoadAssumption
    <2> HIDE DEF b
    <2> QED BY <1>2, <2>1, <2>2
  <1>5. /\ IsMemory(m)
        /\ \A p \in Parts, k \in 1..MaxLoads :
             m[<<p, k>>] = IF p = "model" /\ k = b THEN 0 ELSE memory[<<p, k>>]
    BY <1>2, <1>3, <1>4, FreeModel
  <1> HIDE DEF m
  <1>6. ASSUME model' = NoModel, memory' = FreedBy(m, "model", model.load)
        PROVE  /\ IsMemory(memory')
               /\ \A p \in Parts, k \in 1..MaxLoads :
                    memory'[<<p, k>>] = IF p = "model" /\ k = model.load THEN 0 ELSE m[<<p, k>>]
    <2>1. model.load # 0 => m[<<"model", model.load>>] = allocated_ptrs[model.load]
      <3>1. CASE model.load = 0
        BY <3>1
      <3>2. CASE model.load # 0
        <4>1. model.load \in 1..MaxLoads /\ model.load # b
          BY <1>2, <3>2, LoadAssumption
        <4> QED BY <1>3, <1>4, <1>5, <3>2, <4>1
      <3> QED BY <3>1, <3>2
    <2>2. /\ IsMemory(FreedBy(m, "model", model.load))
          /\ \A p \in Parts, k \in 1..MaxLoads :
               FreedBy(m, "model", model.load)[<<p, k>>]
                 = IF p = "model" /\ k = model.load THEN 0 ELSE m[<<p, k>>]
      BY <1>2, <1>3, <1>5, <2>1, FreeModel
    <2> QED BY <1>6, <2>2
  <1>7. IsMemory(memory')
    BY <1>1, <1>5, <1>6
  <1>8. building'.load = 0 /\ \A k \in 1..MaxLoads : k # 0
    BY <1>1, NullObjects, LoadAssumption
  <1>9. ASSUME NEW p \in Parts, NEW k \in 1..MaxLoads, ~ Held(p, k)'
        PROVE  memory'[<<p, k>>] = 0
    <2>1. CASE p # "model"
      <3>1. Owner(p)' = Owner(p)
        BY <1>1, <2>1 DEF Owner, Parts
      <3>2. memory[<<p, k>>] = 0
        BY <1>9, <2>1, <3>1 DEF Ledger, Held
      <3> QED BY <1>1, <1>5, <1>6, <2>1, <3>2
    <2>2. CASE p = "model"
      <3>1. k # model'.load /\ Owner(p) = model.load
        BY <1>9, <2>2 DEF Held, Owner
      <3>2. k # b /\ k # model.load => memory[<<p, k>>] = 0
        BY <2>2, <3>1 DEF Ledger, Held
      <3> QED BY <1>1, <1>3, <1>5, <1>6, <2>2, <3>1, <3>2
    <2> QED BY <2>1, <2>2
  <1>10. ASSUME NEW k \in 1..MaxLoads, k = model'.load
         PROVE  memory'[<<"model", k>>] = allocated_ptrs'[k]
    <2>1. model' = model /\ memory' = m
      BY <1>1, <1>8, <1>10, NullObjects
    <2>2. k # 0 /\ k # b /\ k = model.load
      BY <1>2, <1>8, <1>10, <2>1
    <2> QED BY <1>1, <1>3, <1>4, <1>5, <2>1, <2>2
  <1>11. pc' \notin Sourcing
    BY <1>1 DEF Sourcing
  <1> QED BY <1>1, <1>3, <1>7, <1>8, <1>9, <1>10, <1>11 DEF Ledger, IsMemory

\* alloc_dev records what it allocates.
LEMMA LedgerAlloc ==
  ASSUME Ledger, Order, pc \in ReadingSteps, pc' = pc, NEW n \in Nat, AllocDev(n),
         building'.load = building.load, UNCHANGED <<loads, model, arena, kv, graph, draft>>
  PROVE  Ledger'
  <1> DEFINE p == "model"
  <1>1. /\ memory' = Put(memory, p, loads, memory[<<p, loads>>] + n)
        /\ allocated_ptrs' = [allocated_ptrs EXCEPT ![loads] = allocated_ptrs[loads] + n]
    BY DEF AllocDev, Put
  <1>2. loads \in 1..MaxLoads /\ building.load = loads /\ model.load # loads
    <2>1. pc # "idle"
      BY DEF ReadingSteps
    <2> QED BY <2>1, LoadAssumption DEF Order
  <1>3. IsMemory(memory) /\ allocated_ptrs \in [1..MaxLoads -> Nat] /\ p \in Parts
    BY DEF Ledger, IsMemory, Parts
  <1>4. /\ allocated_ptrs' \in [1..MaxLoads -> Nat]
        /\ \A k \in 1..MaxLoads :
             allocated_ptrs'[k] = IF k = loads THEN allocated_ptrs[k] + n ELSE allocated_ptrs[k]
    BY <1>1, <1>2, <1>3
  <1>5. \A x \in Parts : Owner(x)' = Owner(x)
    BY DEF Owner
  <1>6. \A x \in Parts, k \in 1..MaxLoads : Held(x, k)' = Held(x, k)
    BY <1>5 DEF Held
  <1>7. Held(p, loads)
    BY <1>2 DEF Held
  <1>8. memory[<<p, loads>>] = allocated_ptrs[loads]
    BY <1>2 DEF Ledger
  <1>9. pc' \notin Sourcing
    BY DEF Sourcing, ReadingSteps
  <1>10. \A k \in 1..MaxLoads : k = model.load \/ k = building.load => memory[<<p, k>>] = allocated_ptrs[k]
    BY DEF Ledger
  <1> HIDE DEF p
  <1>11. /\ IsMemory(memory')
         /\ \A x \in Parts, k \in 1..MaxLoads :
              memory'[<<x, k>>] = IF x = p /\ k = loads THEN memory[<<p, loads>>] + n ELSE memory[<<x, k>>]
    BY <1>1, <1>2, <1>3, PutBlock
  <1>12. \A x \in Parts, k \in 1..MaxLoads : ~ Held(x, k)' => memory'[<<x, k>>] = 0
    <2> SUFFICES ASSUME NEW x \in Parts, NEW k \in 1..MaxLoads, ~ Held(x, k)'
                 PROVE  memory'[<<x, k>>] = 0
      OBVIOUS
    <2>1. ~ Held(x, k)
      BY <1>6
    <2>2. ~ (x = p /\ k = loads) /\ memory[<<x, k>>] = 0
      BY <1>7, <2>1, UnheldIsFree
    <2> QED BY <1>11, <2>2
  <1>13. \A k \in 1..MaxLoads : k = model'.load \/ k = building'.load => memory'[<<p, k>>] = allocated_ptrs'[k]
    BY <1>2, <1>3, <1>4, <1>8, <1>10, <1>11
  <1>14. \A k \in 1..MaxLoads : k > loads' \/ (k = loads' /\ pc' \in Sourcing) => allocated_ptrs'[k] = 0
    BY <1>2, <1>4, <1>9 DEF Ledger
  <1> QED BY <1>4, <1>11, <1>12, <1>13, <1>14 DEF Ledger, IsMemory, p

\* The finished model takes its blocks over; the one before it frees its own.
LEMMA LedgerFinish ==
  ASSUME Ledger, Order, FinishModel
  PROVE  Ledger'
  <1> DEFINE p == "model"
  <1>1. /\ pc = "vision" /\ pc' = "arena" /\ building' = NoModel
        /\ UNCHANGED <<loads, arena, kv, graph, draft, allocated_ptrs>>
        /\ model' = [building EXCEPT !.vision = VisionTensors[1].name \in building.views]
        /\ memory' = FreedBy(memory, "model", model.load)
    BY DEF FinishModel
  <1>2. /\ loads \in 1..MaxLoads /\ building.load = loads /\ model.load # loads
        /\ model.load \in 0..MaxLoads
    BY <1>1, LoadAssumption DEF Order, ReadingSteps
  <1>3. model'.load = loads
    BY <1>1, <1>2 DEF Order, IsModel
  <1>4. building'.load = 0 /\ \A k \in 1..MaxLoads : k # 0
    BY <1>1, NullObjects, LoadAssumption
  <1>5. IsMemory(memory) /\ allocated_ptrs \in [1..MaxLoads -> Nat] /\ p \in Parts
    BY DEF Ledger, IsMemory, Parts
  <1>6. \A k \in 1..MaxLoads : k = model.load \/ k = loads => memory[<<p, k>>] = allocated_ptrs[k]
    BY <1>2 DEF Ledger
  <1>7. model.load # 0 => memory[<<"model", model.load>>] = allocated_ptrs[model.load]
    <2>1. model.load # 0 => model.load \in 1..MaxLoads
      BY <1>2, LoadAssumption
    <2> QED BY <1>6, <2>1
  <1>8. /\ IsMemory(memory')
        /\ \A x \in Parts, k \in 1..MaxLoads :
             memory'[<<x, k>>] = IF x = p /\ k = model.load THEN 0 ELSE memory[<<x, k>>]
    <2>1. /\ IsMemory(FreedBy(memory, "model", model.load))
          /\ \A x \in Parts, k \in 1..MaxLoads :
               FreedBy(memory, "model", model.load)[<<x, k>>]
                 = IF x = "model" /\ k = model.load THEN 0 ELSE memory[<<x, k>>]
      BY <1>2, <1>5, <1>7, FreeModel
    <2> QED BY <1>1, <2>1
  <1>9. ASSUME NEW x \in Parts, NEW k \in 1..MaxLoads, ~ Held(x, k)'
        PROVE  memory'[<<x, k>>] = 0
    <2>1. CASE x # "model"
      <3>1. Owner(x)' = Owner(x)
        BY <1>1, <2>1 DEF Owner, Parts
      <3>2. ~ Held(x, k)
        BY <1>9, <2>1, <3>1 DEF Held
      <3>3. memory[<<x, k>>] = 0
        BY <3>2, UnheldIsFree
      <3> QED BY <1>8, <2>1, <3>3
    <2>2. CASE x = "model"
      <3>1. k # loads /\ Owner(x) = model.load
        BY <1>3, <1>9, <2>2 DEF Held, Owner
      <3>2. k # model.load => ~ Held(x, k)
        BY <1>2, <2>2, <3>1 DEF Held
      <3>3. k # model.load => memory[<<x, k>>] = 0
        BY <3>2, UnheldIsFree
      <3> QED BY <1>8, <2>2, <3>3
    <2> QED BY <2>1, <2>2
  <1>10. memory'[<<p, loads>>] = allocated_ptrs[loads]
    BY <1>2, <1>5, <1>6, <1>8
  <1>11. pc' \notin Sourcing
    BY <1>1 DEF Sourcing
  <1> QED BY <1>1, <1>2, <1>3, <1>4, <1>5, <1>8, <1>9, <1>10, <1>11 DEF Ledger, IsMemory

\* The pointers a tensor may set are finitely many.
LEMMA ViewsFinite == \A t : Cardinality(Views(t)) \in Nat
  <1> SUFFICES ASSUME NEW t PROVE Cardinality(Views(t)) \in Nat
    OBVIOUS
  <1>1. IsFiniteSet({t.name, Scales(t.name)})
    <2>1. IsFiniteSet({}) /\ {t.name, Scales(t.name)} = ({} \cup {t.name}) \cup {Scales(t.name)}
      BY FS_EmptySet
    <2>2. IsFiniteSet({} \cup {t.name})
      BY <2>1, FS_AddElement
    <2>3. IsFiniteSet(({} \cup {t.name}) \cup {Scales(t.name)})
      BY <2>2, FS_AddElement
    <2> QED BY <2>1, <2>3
  <1>2. Views(t) \in SUBSET {t.name, Scales(t.name)}
    BY DEF Views
  <1> QED BY <1>1, <1>2, FS_Subset, FS_CardinalityType

LEMMA LedgerStep ==
  ASSUME Ledger, Order, [Next]_vars
  PROVE  Ledger'
  <1>1. ASSUME NEW a, NEW c, Load(a, c) PROVE Ledger'
    <2>1. UNCHANGED <<memory, allocated_ptrs, building, model, arena, kv, graph, draft>> /\ loads' = loads + 1
      BY <1>1 DEF Load, loader, members, device
    <2> QED BY <2>1, LedgerQuiet
  <1>2. CASE Sources
    <2>1. ASSUME ~ Fail PROVE Ledger'
      <3>1. CASE CreateDevice
        <4>1. UNCHANGED <<memory, allocated_ptrs, building, model, arena, kv, graph, draft>>
              /\ loads' = loads /\ pc \in Sourcing
          BY <3>1 DEF CreateDevice, loader, device, Sourcing
        <4> QED BY <4>1, LedgerQuiet
      <3>2. CASE ~ CreateDevice
        <4>1. Stay /\ pc \in Sourcing
          BY <1>2, <2>1, <3>2
          DEF Sources, CreateDeviceFails, Open, OpenFails, EmbeddedTokenizer, EmbeddedTemplate,
              TokenizerPresent, TokenizerFile, TemplateFile, CheckEnds, Sourcing
        <4>2. UNCHANGED <<memory, allocated_ptrs, building, model, arena, kv, graph, draft>>
              /\ loads' = loads /\ pc \in Sourcing
          BY <4>1 DEF Stay, loader, device, members
        <4> QED BY <4>2, LedgerQuiet
      <3> QED BY <3>1, <3>2
    <2> QED BY <2>1, LedgerFail
  <1>3. CASE StartModel \/ BeginLayer \/ DetectType \/ BeginVision
    <2>1. /\ UNCHANGED <<memory, allocated_ptrs, model, arena, kv, graph, draft>>
          /\ loads' = loads /\ pc' \notin Sourcing
      BY <1>3 DEF StartModel, BeginLayer, DetectType, BeginVision, Quiet, members, device, Sourcing
    <2>2. building'.load = building.load \/ (building.load = 0 /\ pc = "weights" /\ building'.load = loads)
      <3>1. CASE StartModel
        <4>1. pc = "weights" /\ building' = [NoModel EXCEPT !.load = loads]
          BY <3>1 DEF StartModel
        <4> QED BY <4>1 DEF NoModel, Order, ReadingSteps
      <3>2. CASE DetectType
        <4>1. building' = [building EXCEPT !.types = Append(building.types, DetectedType(artifact, layer))]
          BY <3>2 DEF DetectType
        <4> QED BY <4>1 DEF Order, IsModel
      <3> QED BY <1>3, <3>1, <3>2 DEF BeginLayer, BeginVision
    <2> QED BY <2>1, <2>2, LedgerQuiet
  <1>4. CASE LoadTensor \/ LoadVisionTensor
    <2>1. /\ UNCHANGED <<pc, loads, model, arena, kv, graph, draft>> /\ pc \in ReadingSteps
          /\ building' = [building EXCEPT !.views = building.views \cup Views(Head(work))]
          /\ AllocDev(Allocations(Head(work))) \/ AllocDev(Cardinality(Views(Head(work))))
      BY <1>4 DEF LoadTensor, LoadVisionTensor, Reading, Quiet, members, ReadingSteps
    <2>2. building'.load = building.load
      BY <2>1 DEF Order, IsModel
    <2>3. Allocations(Head(work)) \in Nat /\ Cardinality(Views(Head(work))) \in Nat
      BY ViewsFinite DEF Allocations
    <2> QED BY <2>1, <2>2, <2>3, LedgerAlloc
  <1>5. CASE Building /\ ~ Fail
    <2>1. CASE NoSpeculation
      <3>1. UNCHANGED <<memory, allocated_ptrs, building, model, arena, kv, graph, draft>>
            /\ loads' = loads /\ pc' \notin Sourcing
        BY <2>1 DEF NoSpeculation, loader, device, Return, Sourcing
      <3> QED BY <3>1, LedgerQuiet
    <2> QED BY <1>5, <2>1, LedgerParts, LedgerDraft DEF Building, MakeArenaThrows, MakeDraftThrows
  <1>6. CASE UNCHANGED vars
    <2>1. UNCHANGED <<memory, allocated_ptrs, building, model, arena, kv, graph, draft>>
          /\ loads' = loads /\ pc' = pc
      BY <1>6 DEF vars, loader, device, members
    <2> QED BY <2>1, LedgerQuiet
  <1>7. CASE Weights /\ ~ (Fail \/ FailWithNull)
    <2>1. StartModel \/ BeginLayer \/ DetectType \/ BeginVision \/ LoadTensor \/ LoadVisionTensor \/ FinishModel
      BY <1>7 DEF Weights, StartModelFails, LoadTensorFails, LoadTensorThrows, LayerTypesFail, TypeMismatch,
                  LoadVisionThrows
    <2> QED BY <1>3, <1>4, <2>1, LedgerFinish
  <1> QED BY <1>1, <1>2, <1>5, <1>6, <1>7, LedgerFail DEF Next

\* No failure of load() leaks an allocation: every block on the device belongs to an
\* object the engine holds or to the model under construction.
THEOREM NoAllocationIsLeaked == Spec => []DeviceMemoryIsOwned
  <1>1. Init => Order /\ Ledger
    BY OrderInit, LedgerInit
  <1>2. Order /\ Ledger /\ [Next]_vars => (Order /\ Ledger)'
    BY OrderStep, LedgerStep
  <1>3. Order /\ Ledger => DeviceMemoryIsOwned
    <2> SUFFICES ASSUME Order, Ledger, NEW part \in Parts, NEW k \in 1..loads, memory[<<part, k>>] > 0
                 PROVE  Held(part, k)
      BY DEF DeviceMemoryIsOwned, Held
    <2>1. k \in 1..MaxLoads
      BY LoadAssumption DEF Order
    <2>2. CASE ~ Held(part, k)
      <3>1. memory[<<part, k>>] = 0
        BY <2>1, <2>2, UnheldIsFree
      <3> QED BY <3>1
    <2> QED BY <2>2
  <1> QED BY <1>1, <1>2, <1>3, PTL DEF Spec

-----------------------------------------------------------------------------
(* What a load leaves *)

\* load() goes on, returns false and leaves is_loaded_ as it was, or returns true.
GoesOn == pc # "idle" /\ pc' # "idle" /\ UNCHANGED <<loads, ok, is_loaded_, artifact, config>>
GivesUp == pc # "idle" /\ Return(FALSE) /\ UNCHANGED <<loads, is_loaded_, artifact, config>>
Finishes == MakeDraft \/ NoSpeculation

LEMMA KindsOfStep ==
  ASSUME Next
  PROVE  (\E call \in Calls : Load(call[1], call[2])) \/ GoesOn \/ GivesUp \/ Finishes
  <1>1. ASSUME pc # "idle", Fail \/ FailWithNull PROVE GivesUp
    BY <1>1 DEF Fail, FailWithNull, GivesUp, members, source
  <1>2. ASSUME pc # "idle", pc' # "idle", Stay PROVE GoesOn
    BY <1>2 DEF Stay, GoesOn, members
  <1>3. ASSUME pc # "idle", pc' # "idle", Quiet PROVE GoesOn
    BY <1>3 DEF Quiet, GoesOn, members, source
  <1>4. CASE Sources
    <2>1. CASE CreateDevice
      BY <2>1 DEF CreateDevice, GoesOn, source
    <2>2. CASE ~ CreateDevice
      <3>1. pc # "idle" /\ (Fail \/ (pc' # "idle" /\ Stay))
        BY <1>4, <2>2
        DEF Sources, CreateDeviceFails, Open, OpenFails, EmbeddedTokenizer, EmbeddedTemplate,
            TokenizerPresent, TokenizerFile, TemplateFile, CheckEnds
      <3> QED BY <1>1, <1>2, <3>1
    <2> QED BY <2>1, <2>2
  <1>5. CASE StartModelFails \/ LoadTensorFails \/ LoadTensorThrows \/ LayerTypesFail \/ TypeMismatch
             \/ LoadVisionThrows
    <2>1. pc # "idle" /\ (Fail \/ FailWithNull)
      BY <1>5 DEF StartModelFails, LoadTensorFails, LoadTensorThrows, LayerTypesFail, TypeMismatch,
                  LoadVisionThrows, Reading
    <2> QED BY <1>1, <2>1
  <1>6. CASE StartModel \/ LoadTensor \/ BeginLayer \/ DetectType \/ BeginVision \/ LoadVisionTensor
    <2>1. pc # "idle" /\ pc' # "idle" /\ Quiet
      BY <1>6 DEF StartModel, LoadTensor, BeginLayer, DetectType, BeginVision, LoadVisionTensor, Reading
    <2> QED BY <1>3, <2>1
  <1>7. CASE FinishModel
    BY <1>7 DEF FinishModel, GoesOn, source
  <1>8. CASE MakeArenaThrows \/ MakeDraftThrows
    BY <1>1, <1>8 DEF MakeArenaThrows, MakeDraftThrows
  <1>9. CASE MakeArena \/ MakeCache \/ MakeGraph
    BY <1>9 DEF MakeArena, MakeCache, MakeGraph, GoesOn, Around, source
  <1>10. CASE MakeCacheFails \/ MakeEmptyCacheFails \/ MakeGraphThrows \/ DraftGraphThrows
    BY <1>10 DEF MakeCacheFails, MakeEmptyCacheFails, MakeGraphThrows, DraftGraphThrows, GivesUp, Around, source
  <1> QED BY <1>4, <1>5, <1>6, <1>7, <1>8, <1>9, <1>10 DEF Next, Weights, Building, Finishes

\* is_loaded_ is set by the load that returned true and never taken back.
Ready ==
  /\ ok \in BOOLEAN /\ is_loaded_ \in BOOLEAN
  /\ loads = 0 => ~ ok /\ ~ is_loaded_
  /\ loads = 1 /\ pc # "idle" => ~ is_loaded_
  /\ loads = 1 /\ pc = "idle" => is_loaded_ = ok
  /\ pc = "idle" /\ ok =>
       /\ is_loaded_ /\ ctx = loads /\ model.load = loads /\ arena = loads
       /\ kv.load = loads /\ graph.load = loads
       /\ config.speculative => draft = [arena |-> loads, graph |-> loads]
       /\ ~ config.speculative => draft.arena # loads

LEMMA ReadyStep ==
  ASSUME Ready, Order, [Next]_vars
  PROVE  Ready'
  <1>1. ASSUME NEW a, NEW c, Load(a, c) PROVE Ready'
    <2>1. pc = "idle" /\ pc' = "device" /\ loads' = loads + 1 /\ UNCHANGED <<ok, is_loaded_>>
      BY <1>1 DEF Load, members
    <2>2. loads \in Nat
      BY LoadAssumption DEF Order
    <2>3. loads' # 0 /\ (loads' = 1 => loads = 0)
      BY <2>1, <2>2
    <2> QED BY <2>1, <2>3 DEF Ready
  <1>2. CASE GoesOn
    BY <1>2 DEF GoesOn, Ready, Order
  <1>3. CASE GivesUp
    BY <1>3 DEF GivesUp, Ready, Return
  <1>4. CASE Finishes
    <2>1. /\ pc = "draft" /\ ok' = TRUE /\ is_loaded_' = TRUE
          /\ UNCHANGED <<loads, ctx, model, arena, kv, graph, config>>
          /\ config.speculative => draft' = [arena |-> loads, graph |-> loads]
          /\ ~ config.speculative => draft' = draft
      BY <1>4 DEF Finishes, MakeDraft, NoSpeculation, Return, source
    <2>2. /\ loads > 0 /\ ctx = loads /\ model.load = loads /\ arena = loads
          /\ kv.load = loads /\ graph.load = loads /\ draft.arena # loads
      BY <2>1 DEF Order
    <2>3. /\ is_loaded_' /\ ctx' = loads' /\ model'.load = loads' /\ arena' = loads'
          /\ kv'.load = loads' /\ graph'.load = loads'
          /\ config'.speculative => draft' = [arena |-> loads', graph |-> loads']
          /\ ~ config'.speculative => draft'.arena # loads'
      BY <2>1, <2>2
    <2>4. pc' = "idle"
      BY <1>4 DEF Finishes, MakeDraft, NoSpeculation, Return
    <2>5. loads' # 0
      BY <2>1, <2>2
    <2> QED BY <2>1, <2>3, <2>4, <2>5 DEF Ready
  <1>5. CASE UNCHANGED vars
    BY <1>5 DEF Ready, vars, members, source
  <1> QED BY <1>1, <1>2, <1>3, <1>4, <1>5, KindsOfStep

\* A load() that returned true has made all that a request uses, but for the draft context
\* of an earlier load that a request with draft_tokens_num > 0 takes up, and a first load()
\* that returned false leaves the engine not loaded.
THEOREM LoadedMeansReady == Spec => []ReadyAfterLoad
  <1>1. Init => Order /\ Ready
    <2>1. Init => Ready
      BY DEF Init, Ready
    <2> QED BY <2>1, OrderInit
  <1>2. Order /\ Ready /\ [Next]_vars => (Order /\ Ready)'
    BY OrderStep, ReadyStep
  <1>3. Order /\ Ready => ReadyAfterLoad
    <2> SUFFICES ASSUME Order, Ready, pc = "idle", loads > 0
                 PROVE  /\ ok => /\ Loaded
                                 /\ \A drafts \in BOOLEAN :
                                      UsedParts(drafts) = {loads} \/ (drafts /\ DraftIsStale)
                        /\ loads = 1 => Loaded = ok
      BY DEF ReadyAfterLoad
    <2>1. loads # 0
      BY LoadAssumption DEF Order
    <2>2. CASE ok
      <3>1. Loaded
        BY <2>1, <2>2 DEF Ready, Loaded
      <3>2. ASSUME NEW drafts \in BOOLEAN
            PROVE  UsedParts(drafts) = {loads} \/ (drafts /\ DraftIsStale)
        <4>1. {ctx, model.load, arena, kv.load, graph.load} = {loads}
          BY <2>2 DEF Ready
        <4>2. CASE config.speculative
          <5>1. draft.arena = loads /\ draft.graph = loads
            BY <2>2, <4>2 DEF Ready
          <5> QED BY <4>1, <4>2, <5>1, <2>1 DEF UsedParts
        <4>3. CASE ~ config.speculative /\ (~ drafts \/ draft.arena = 0)
          BY <4>1, <4>3 DEF UsedParts
        <4>4. CASE ~ config.speculative /\ drafts /\ draft.arena # 0
          <5>1. draft.arena # loads
            BY <2>2, <4>4 DEF Ready
          <5>2. draft.arena \in 0..loads /\ loads \in Nat
            BY LoadAssumption DEF Order
          <5>3. draft.arena \in 1..loads - 1
            BY <4>4, <5>1, <5>2
          <5> QED BY <4>4, <5>3 DEF DraftIsStale
        <4> QED BY <4>2, <4>3, <4>4
      <3> QED BY <2>1, <2>2, <3>1, <3>2 DEF Ready
    <2>3. CASE ~ ok
      <3>1. loads = 1 => ~ Loaded
        BY <2>3 DEF Ready, Loaded
      <3> QED BY <2>3, <3>1 DEF Ready, Loaded
    <2> QED BY <2>2, <2>3
  <1> QED BY <1>1, <1>2, <1>3, PTL DEF Spec

-----------------------------------------------------------------------------
(* The tokenizer and the template in use *)

AfterEnds == ReadingSteps \cup {"weights", "arena", "kv", "graph", "draft"}
AfterTemplate == AfterEnds \cup {"fallback", "template file", "ends"}
AfterTokenizer == AfterTemplate \cup {"template"}

\* What the artifact carries is taken over when it is read, and no later step replaces it.
Texts ==
  /\ pc \in AfterTokenizer \/ (pc = "idle" /\ ok) =>
       (artifact.tokenizer = "good" => tokenizer = Tok("good", "artifact"))
  /\ pc \in AfterTemplate \/ (pc = "idle" /\ ok) =>
       (artifact.tokenizer = "good" /\ artifact.template = "good" => template = Tmpl(TRUE, "artifact"))
  /\ pc \in AfterEnds \/ (pc = "idle" /\ ok) => Tables(tokenizer.kind).ends

LEMMA TextsGiveUp ==
  ASSUME GivesUp
  PROVE  Texts'
  BY DEF GivesUp, Return, Texts, AfterTokenizer, AfterTemplate, AfterEnds, ReadingSteps

LEMMA GoodText == Tables("good").usable /\ Tables("good").ends /\ "good" \in Parsable
                  /\ Tok("good", "artifact").kind = "good" /\ Tmpl(TRUE, "artifact").loaded
  BY DEF Tables, Parsable, Tok, Tmpl

LEMMA TextsSources ==
  ASSUME Texts, Order, Sources, GoesOn
  PROVE  Texts'
  <1> USE DEF GoesOn, Tok, Tmpl, AfterTokenizer, AfterTemplate, AfterEnds, ReadingSteps
  <1>1. CASE CreateDevice \/ CreateDeviceFails \/ Open \/ OpenFails
    BY <1>1 DEF CreateDevice, CreateDeviceFails, Open, OpenFails, Fail, Return, Texts
  <1>2. CASE EmbeddedTokenizer
    BY <1>2, GoodText DEF EmbeddedTokenizer, Texts
  <1>3. CASE EmbeddedTemplate
    BY <1>3 DEF EmbeddedTemplate, Texts
  <1>4. CASE TokenizerPresent
    BY <1>4 DEF TokenizerPresent, Texts
  <1>5. CASE TokenizerFile
    <2>1. pc = "fallback" /\ pc' = "template file" /\ ~ Tables(tokenizer.kind).usable
      BY <1>5 DEF TokenizerFile, Fail, Return
    <2>2. artifact.tokenizer # "good"
      BY <2>1, GoodText DEF Texts
    <2> QED BY <2>1, <2>2 DEF Texts
  <1>6. CASE TemplateFile
    BY <1>6, GoodText DEF TemplateFile, Texts
  <1>7. CASE CheckEnds
    BY <1>7 DEF CheckEnds, Fail, Return, Texts
  <1> QED BY <1>1, <1>2, <1>3, <1>4, <1>5, <1>6, <1>7 DEF Sources

LEMMA TextsStep ==
  ASSUME Texts, Order, [Next]_vars
  PROVE  Texts'
  <1>1. ASSUME NEW a, NEW c, Load(a, c) PROVE Texts'
    BY <1>1 DEF Load, Texts, AfterTokenizer, AfterTemplate, AfterEnds, ReadingSteps
  <1>2. ASSUME UNCHANGED <<loads, artifact, tokenizer, template>>, pc \in AfterEnds,
               pc' \in AfterEnds \/ (pc' = "idle" /\ ok')
        PROVE  Texts'
    BY <1>2 DEF Texts, AfterTokenizer, AfterTemplate, Tok, Tmpl
  <1>3. CASE Weights /\ GoesOn
    <2>1. UNCHANGED <<loads, artifact, tokenizer, template>> /\ pc \in AfterEnds /\ pc' \in AfterEnds
      BY <1>3 DEF Weights, StartModel, LoadTensor, BeginLayer, DetectType, BeginVision, LoadVisionTensor,
                  FinishModel, StartModelFails, LoadTensorFails, LoadTensorThrows, LayerTypesFail,
                  TypeMismatch, LoadVisionThrows, Reading, Quiet, Fail, FailWithNull, Return, GoesOn, source,
                  AfterEnds, ReadingSteps
    <2> QED BY <1>2, <2>1
  <1>4. CASE Building /\ (GoesOn \/ Finishes)
    <2>1. UNCHANGED <<loads, artifact, tokenizer, template>> /\ pc \in AfterEnds
      BY <1>4 DEF Building, MakeArena, MakeCache, MakeCacheFails, MakeEmptyCacheFails, MakeGraph, MakeGraphThrows, MakeDraft,
                  NoSpeculation, MakeArenaThrows, MakeDraftThrows, DraftGraphThrows, Around, source,
                  Fail, AfterEnds
    <2>2. pc' \in AfterEnds \/ (pc' = "idle" /\ ok')
      BY <1>4 DEF Building, MakeArena, MakeCache, MakeCacheFails, MakeEmptyCacheFails, MakeGraph, MakeGraphThrows, MakeDraft,
                  NoSpeculation, MakeArenaThrows, MakeDraftThrows, DraftGraphThrows, Finishes, Return,
                  Fail, GoesOn, AfterEnds
    <2> QED BY <1>2, <2>1, <2>2
  <1>5. CASE UNCHANGED vars
    BY <1>5 DEF Texts, vars, source, Tok, Tmpl
  <1>6. Finishes => Building
    BY DEF Finishes, Building
  <1>7. ASSUME Next, Sources, Finishes PROVE FALSE
    BY <1>7 DEF Finishes, MakeDraft, NoSpeculation, Sources, CreateDevice, CreateDeviceFails, Open, OpenFails,
                EmbeddedTokenizer, EmbeddedTemplate, TokenizerPresent, TokenizerFile, TemplateFile, CheckEnds
  <1> QED BY <1>1, <1>3, <1>4, <1>5, <1>6, <1>7, KindsOfStep, TextsSources, TextsGiveUp DEF Next

\* The artifact's own tokenizer and template win over earlier and configured ones, and a
\* load that succeeded knows the end tokens.
THEOREM ArtifactTextsWin == Spec => []ArtifactsTokenizerWins
  <1>1. Init => Order /\ Texts
    <2>1. Init => Texts
      BY DEF Init, Texts, AfterTokenizer, AfterTemplate, AfterEnds, ReadingSteps
    <2> QED BY <2>1, OrderInit
  <1>2. Order /\ Texts /\ [Next]_vars => (Order /\ Texts)'
    BY OrderStep, TextsStep
  <1>3. Order /\ Texts => ArtifactsTokenizerWins
    BY DEF Texts, ArtifactsTokenizerWins
  <1> QED BY <1>1, <1>2, <1>3, PTL DEF Spec

-----------------------------------------------------------------------------
(* The tensors of a model *)

LayerTypes == {DetectedType(call[1], l) : call \in Calls, l \in 0..NumLayers - 1}
IsList(s) == s \in Seq({s[i] : i \in DOMAIN s})

\* The tensors that layers of these types read.
NeededBy(l, type) == Names(CommonTensors(l)) \cup Names(MixerTensors(l, type))
Needed(types) ==
  Names(GlobalTensors) \cup UNION {NeededBy(l, types[l + 1]) : l \in 0..Len(types) - 1}

\* What the layers so far need has been read or is still to be read.
Built ==
  /\ pc # "idle" => \E call \in Calls : artifact = call[1]
  /\ pc \in ReadingSteps => building.types \in Seq(LayerTypes)
  /\ pc \in {"global", "mlp", "mixer"} =>
       IsList(work) /\ Needed(building.types) \subseteq building.views \cup Names(work)
  /\ pc = "mlp" => /\ layer = Len(building.types) /\ layer < NumLayers
                   /\ Names(CommonTensors(layer)) \subseteq building.views \cup Names(work)
  /\ pc = "vision" => Len(building.types) = NumLayers /\ Needed(building.types) \subseteq building.views
  /\ model.load # 0 => /\ model.types \in Seq(LayerTypes) /\ Len(model.types) = NumLayers
                       /\ Needed(model.types) \subseteq model.views

LEMMA FunctionIsList ==
  ASSUME NEW s, NEW n \in Nat, s = [i \in 1..n |-> s[i]]
  PROVE  IsList(s)
  BY DEF IsList

LEMMA TensorLists ==
  /\ IsList(GlobalTensors)
  /\ \A l : IsList(CommonTensors(l))
  /\ \A l, type : IsList(MixerTensors(l, type))
  <1>2. IsList(GlobalTensors)
    <2>1. GlobalTensors = [i \in 1..3 |-> GlobalTensors[i]]
      BY DEF GlobalTensors
    <2> QED BY FunctionIsList, <2>1
  <1>3. ASSUME NEW l
        PROVE  IsList(CommonTensors(l)) /\ IsList(FullTensors(l)) /\ IsList(LinearTensors(l))
    <2>1. CommonTensors(l) = [i \in 1..5 |-> CommonTensors(l)[i]]
      BY DEF CommonTensors
    <2>2. FullTensors(l) = [i \in 1..6 |-> FullTensors(l)[i]]
      BY DEF FullTensors
    <2>3. LinearTensors(l) = [i \in 1..9 |-> LinearTensors(l)[i]]
      BY DEF LinearTensors
    <2> QED BY FunctionIsList, <2>1, <2>2, <2>3
  <1>4. \A l, type : IsList(MixerTensors(l, type))
    BY <1>3 DEF MixerTensors
  <1> QED BY <1>2, <1>3, <1>4

LEMMA ListTail ==
  ASSUME NEW s, IsList(s), s # <<>>
  PROVE  IsList(Tail(s)) /\ \A i \in DOMAIN s : i = 1 \/ (\E j \in DOMAIN Tail(s) : Tail(s)[j] = s[i])
  <1> DEFINE T == {s[i] : i \in DOMAIN s}
  <1>1. s \in Seq(T)
    BY DEF IsList
  <1> HIDE DEF T
  <1>2. Tail(s) \in Seq(T) /\ Len(s) \in Nat \ {0} /\ Len(Tail(s)) = Len(s) - 1
    BY <1>1
  <1>3. DOMAIN Tail(s) = 1..Len(s) - 1 /\ DOMAIN s = 1..Len(s)
    BY <1>1, <1>2
  <1>4. IsList(Tail(s))
    <2>1. ASSUME NEW q \in Seq(T) PROVE q = [i \in 1..Len(q) |-> q[i]] /\ Len(q) \in Nat
      OBVIOUS
    <2>2. ASSUME NEW q \in Seq(T) PROVE IsList(q)
      BY <2>1, FunctionIsList
    <2> QED BY <1>2, <2>2
  <1>5. ASSUME NEW i \in DOMAIN s, i # 1
        PROVE  i - 1 \in DOMAIN Tail(s) /\ Tail(s)[i - 1] = s[i]
    BY <1>1, <1>2, <1>3, <1>5
  <1> QED BY <1>4, <1>5

LEMMA NoNames == Names(<<>>) = {}
  BY DEF Names

\* The names of a list are those of its first tensor and those of the rest.
LEMMA NamesSplit ==
  ASSUME NEW s, IsList(s), s # <<>>
  PROVE  Names(s) \subseteq ({Head(s).name} \cup (IF Head(s).int4 THEN {Scales(Head(s).name)} ELSE {}))
                             \cup Names(Tail(s))
  <1>1. Head(s) = s[1]
    BY DEF IsList
  <1> QED BY <1>1, ListTail DEF Names

LEMMA FirstNames ==
  \A l \in Int : <<l, "q_proj">> \in NeededBy(l, Full)
                 /\ \A type : type # Full => <<l, "in_proj_qkv">> \in NeededBy(l, type)
  <1> SUFFICES ASSUME NEW l \in Int, NEW type, type # Full
               PROVE  /\ <<l, "q_proj">> \in Names(FullTensors(l))
                      /\ <<l, "in_proj_qkv">> \in Names(LinearTensors(l))
    BY DEF NeededBy, MixerTensors, Full
  <1>1. FullTensors(l)[1].name = <<l, "q_proj">> /\ 1 \in DOMAIN FullTensors(l)
    BY DEF FullTensors, Int4
  <1>2. LinearTensors(l)[1].name = <<l, "in_proj_qkv">> /\ 1 \in DOMAIN LinearTensors(l)
    BY DEF LinearTensors, Int4
  <1> QED BY <1>1, <1>2 DEF Names

LEMMA NeededByNone == Needed(<<>>) = Names(GlobalTensors)
  BY DEF Needed

LEMMA NeededAppend ==
  ASSUME NEW T, NEW types \in Seq(T), NEW t \in T
  PROVE  Needed(Append(types, t)) \subseteq Needed(types) \cup NeededBy(Len(types), t)
  <1>1. Len(Append(types, t)) = Len(types) + 1 /\ Len(types) \in Nat
    OBVIOUS
  <1>2. ASSUME NEW l \in 0..Len(types)
        PROVE  Append(types, t)[l + 1] = IF l = Len(types) THEN t ELSE types[l + 1]
    BY <1>2
  <1>3. ASSUME NEW l \in 0..Len(types)
        PROVE  NeededBy(l, Append(types, t)[l + 1]) \subseteq Needed(types) \cup NeededBy(Len(types), t)
    <2>1. CASE l = Len(types)
      BY <1>2, <2>1
    <2>2. CASE l # Len(types)
      <3>1. l \in 0..Len(types) - 1 /\ Append(types, t)[l + 1] = types[l + 1]
        BY <1>1, <1>2, <2>2
      <3> QED BY <3>1 DEF Needed
    <2> QED BY <2>1, <2>2
  <1>4. Names(GlobalTensors) \subseteq Needed(types)
    BY DEF Needed
  <1>5. 0..Len(Append(types, t)) - 1 = 0..Len(types)
    BY <1>1
  <1> QED BY <1>3, <1>4, <1>5 DEF Needed

\* Steps after which no model is under construction that was not before.
LEMMA BuiltElsewhere ==
  ASSUME Built, pc' \notin ReadingSteps, model' = model \/ model'.load = 0,
         pc' # "idle" => pc # "idle" /\ artifact' = artifact
  PROVE  Built'
  <1>1. pc' \notin {"global", "mlp", "mixer", "vision"}
    BY DEF ReadingSteps
  <1>2. (model.load # 0 => /\ model.types \in Seq(LayerTypes) /\ Len(model.types) = NumLayers
                           /\ Needed(model.types) \subseteq model.views)'
    BY DEF Built
  <1> QED BY <1>1, <1>2 DEF Built, ReadingSteps

LEMMA BuiltFail ==
  ASSUME Built, Fail \/ FailWithNull
  PROVE  Built'
  <1>1. pc' = "idle" /\ (model' = model \/ model'.load = 0)
    BY NullObjects DEF Fail, FailWithNull, Return, members
  <1> QED BY <1>1, BuiltElsewhere DEF ReadingSteps

\* A tensor that is read no longer waits.
LEMMA ReadTensor ==
  ASSUME IsList(work), work # <<>>, Loadable(artifact, Head(work)), NEW v
  PROVE  v \cup Names(work) \subseteq (v \cup Views(Head(work))) \cup Names(Tail(work))
  <1>1. {Head(work).name} \cup (IF Head(work).int4 THEN {Scales(Head(work).name)} ELSE {}) = Views(Head(work))
    BY DEF Views, Loadable
  <1> QED BY <1>1, NamesSplit

LEMMA BuiltLoads ==
  ASSUME Built, Order, LoadTensor
  PROVE  Built'
  <1> DEFINE b == building
             bb == building'
  <1>1. /\ pc \in {"global", "mlp", "mixer"} /\ work # <<>> /\ work' = Tail(work)
        /\ Loadable(artifact, Head(work))
        /\ UNCHANGED <<pc, layer, artifact, model>>
        /\ building' = [building EXCEPT !.views = building.views \cup Views(Head(work))]
    BY DEF LoadTensor, Reading, Quiet, source, members
  <1>2. bb.types = b.types /\ bb.views = b.views \cup Views(Head(work))
    BY <1>1 DEF Order, IsModel
  <1>3. IsList(work)
    BY <1>1 DEF Built
  <1>4. b.views \cup Names(work) \subseteq bb.views \cup Names(work') /\ IsList(work')
    BY <1>1, <1>2, <1>3, ReadTensor, ListTail
  <1>5. pc \in ReadingSteps /\ pc # "idle" /\ pc # "vision"
    BY <1>1 DEF ReadingSteps
  <1> QED BY <1>1, <1>2, <1>4, <1>5 DEF Built

LEMMA BuiltBegin ==
  ASSUME Built, Order, StartModel \/ BeginLayer
  PROVE  Built'
  <1>1. CASE StartModel
    <2>1. /\ pc = "weights" /\ pc' = "global" /\ UNCHANGED <<artifact, model>>
          /\ building' = [NoModel EXCEPT !.load = loads] /\ work' = GlobalTensors
      BY <1>1 DEF StartModel, Quiet, source, members
    <2>2. building'.types = <<>> /\ building'.views = {}
      BY <2>1 DEF NoModel
    <2>3. <<>> \in Seq(LayerTypes)
      OBVIOUS
    <2> QED BY <2>1, <2>2, <2>3, NeededByNone, TensorLists DEF Built
  <1>2. CASE BeginLayer
    <2>1. /\ pc \in {"global", "mixer"} /\ pc' = "mlp" /\ work = <<>>
          /\ Len(building.types) < NumLayers /\ layer' = Len(building.types)
          /\ work' = CommonTensors(layer') /\ UNCHANGED <<building, artifact, model>>
      BY <1>2 DEF BeginLayer, Quiet, source, members
    <2>2. Needed(building.types) \subseteq building.views /\ building.types \in Seq(LayerTypes)
      BY <2>1, NoNames DEF Built, ReadingSteps
    <2>3. IsList(work')
      BY <2>1, TensorLists
    <2> QED BY <2>1, <2>2, <2>3 DEF Built
  <1> QED BY <1>1, <1>2

LEMMA BuiltDetect ==
  ASSUME Built, Order, DetectType
  PROVE  Built'
  <1> DEFINE b == building
             t == DetectedType(artifact, layer)
  <1>1. /\ pc = "mlp" /\ pc' = "mixer" /\ work = <<>> /\ UNCHANGED <<layer, artifact, model>>
        /\ building' = [building EXCEPT !.types = Append(building.types, t)]
        /\ work' = MixerTensors(layer, t)
    BY DEF DetectType, Quiet, source, members
  <1>2. building'.types = Append(b.types, t) /\ building'.views = b.views
    BY <1>1 DEF Order, IsModel
  <1>3. /\ b.types \in Seq(LayerTypes) /\ layer = Len(b.types) /\ layer < NumLayers
        /\ Needed(b.types) \subseteq b.views /\ Names(CommonTensors(layer)) \subseteq b.views
    BY <1>1, NoNames DEF Built, ReadingSteps
  <1>4. t \in LayerTypes
    <2>1. layer \in 0..NumLayers - 1
      BY <1>3, WeightsAssumption
    <2>2. PICK call \in Calls : artifact = call[1]
      BY <1>1 DEF Built
    <2> QED BY <2>1, <2>2 DEF LayerTypes
  <1> HIDE DEF t
  <1>5. NeededBy(layer, t) \subseteq b.views \cup Names(work')
    BY <1>1, <1>3 DEF NeededBy
  <1>6. Needed(Append(b.types, t)) \subseteq b.views \cup Names(work')
    BY <1>3, <1>4, <1>5, NeededAppend
  <1>7. Append(b.types, t) \in Seq(LayerTypes) /\ IsList(work')
    BY <1>1, <1>3, <1>4, TensorLists
  <1> QED BY <1>1, <1>2, <1>6, <1>7 DEF Built

LEMMA BuiltEnd ==
  ASSUME Built, Order, BeginVision \/ LoadVisionTensor \/ FinishModel
  PROVE  Built'
  <1>1. CASE BeginVision
    <2>1. /\ pc = "mixer" /\ pc' = "vision" /\ work = <<>> /\ Len(building.types) = NumLayers
          /\ UNCHANGED <<building, artifact, model>>
      BY <1>1 DEF BeginVision, Quiet, source, members
    <2>2. Needed(building.types) \subseteq building.views /\ building.types \in Seq(LayerTypes)
      BY <2>1, NoNames DEF Built, ReadingSteps
    <2> QED BY <2>1, <2>2 DEF Built
  <1>2. CASE LoadVisionTensor
    <2>1. /\ pc = "vision" /\ pc' = "vision" /\ UNCHANGED <<artifact, model>>
          /\ building' = [building EXCEPT !.views = building.views \cup Views(Head(work))]
      BY <1>2 DEF LoadVisionTensor, Quiet, source, members
    <2>2. building'.types = building.types /\ building.views \subseteq building'.views
      BY <2>1 DEF Order, IsModel
    <2> QED BY <2>1, <2>2 DEF Built
  <1>3. CASE FinishModel
    <2>1. /\ pc = "vision" /\ pc' = "arena" /\ artifact' = artifact
          /\ model' = [building EXCEPT !.vision = VisionTensors[1].name \in building.views]
      BY <1>3 DEF FinishModel, source
    <2>2. model'.types = building.types /\ model'.views = building.views
      BY <2>1 DEF Order, IsModel
    <2> QED BY <2>1, <2>2 DEF Built, ReadingSteps
  <1> QED BY <1>1, <1>2, <1>3

LEMMA BuiltStep ==
  ASSUME Built, Order, [Next]_vars
  PROVE  Built'
  <1>1. ASSUME NEW call \in Calls, Load(call[1], call[2]) PROVE Built'
    <2>1. pc' = "device" /\ artifact' = call[1] /\ model' = model
      BY <1>1 DEF Load, members
    <2> QED BY <2>1 DEF Built, ReadingSteps
  <1>2. CASE Sources
    <2>1. CASE ~ Fail
      <3>1. pc' \notin ReadingSteps /\ pc # "idle" /\ UNCHANGED <<model, artifact>>
        BY <1>2, <2>1
        DEF Sources, CreateDevice, CreateDeviceFails, Open, OpenFails, EmbeddedTokenizer, EmbeddedTemplate,
            TokenizerPresent, TokenizerFile, TemplateFile, CheckEnds, Stay, members, source, ReadingSteps
      <3> QED BY <3>1, BuiltElsewhere
    <2> QED BY <2>1, BuiltFail
  <1>3. CASE Weights /\ ~ (Fail \/ FailWithNull)
    <2>1. StartModel \/ BeginLayer \/ DetectType \/ BeginVision \/ LoadTensor \/ LoadVisionTensor \/ FinishModel
      BY <1>3 DEF Weights, StartModelFails, LoadTensorFails, LoadTensorThrows, LayerTypesFail, TypeMismatch,
                  LoadVisionThrows
    <2> QED BY <2>1, BuiltBegin, BuiltDetect, BuiltEnd, BuiltLoads
  <1>4. CASE Building /\ ~ Fail
    <2>1. pc # "idle" /\ UNCHANGED <<model, artifact>>
      BY <1>4 DEF Building, MakeArena, MakeCache, MakeCacheFails, MakeEmptyCacheFails, MakeGraph, MakeGraphThrows, MakeDraft,
                  NoSpeculation, MakeArenaThrows, MakeDraftThrows, DraftGraphThrows, Around, source
    <2>2. pc' \notin ReadingSteps
      BY <1>4 DEF Building, MakeArena, MakeCache, MakeCacheFails, MakeEmptyCacheFails, MakeGraph, MakeGraphThrows, MakeDraft,
                  NoSpeculation, MakeArenaThrows, MakeDraftThrows, DraftGraphThrows, Return, ReadingSteps
    <2> QED BY <2>1, <2>2, BuiltElsewhere
  <1>5. CASE UNCHANGED vars
    BY <1>5 DEF Built, vars, members, source, loader
  <1> QED BY <1>1, <1>2, <1>3, <1>4, <1>5, BuiltFail DEF Next

LEMMA BuiltInit == Init => Built
  BY NullObjects DEF Init, Built, ReadingSteps

\* Every model the engine ever holds has all the tensors its layers read.
THEOREM ModelsAreComplete == Spec => []ModelIsComplete
  <1>1. Init => Order /\ Built
    BY OrderInit, BuiltInit
  <1>2. Order /\ Built /\ [Next]_vars => (Order /\ Built)'
    BY OrderStep, BuiltStep
  <1>3. Order /\ Built => ModelIsComplete
    <2> SUFFICES ASSUME Order, Built, model.load # 0
                 PROVE  /\ Len(model.types) = NumLayers
                        /\ Names(GlobalTensors) \subseteq model.views
                        /\ \A l \in 0..NumLayers - 1 : NeededBy(l, model.types[l + 1]) \subseteq model.views
      BY DEF ModelIsComplete, NeededBy
    <2>1. Len(model.types) = NumLayers /\ Needed(model.types) \subseteq model.views
      BY DEF Built
    <2> QED BY <2>1 DEF Needed
  <1> QED BY <1>1, <1>2, <1>3, PTL DEF Spec

-----------------------------------------------------------------------------
(* The cache *)

\* A cache is for the model of its load, whose layer types nobody changes.
Fits ==
  pc \in {"graph", "draft"} \/ (pc = "idle" /\ ok) =>
    /\ model.load # 0
    /\ kv.full = NumFullLayers(model.types) /\ kv.linear = NumLinearLayers(model.types)

LEMMA FitsStep ==
  ASSUME Fits, Order, [Next]_vars
  PROVE  Fits'
  <1>1. ASSUME NEW a, NEW c, Load(a, c) PROVE Fits'
    BY <1>1 DEF Load, Fits
  <1>2. CASE GivesUp
    BY <1>2 DEF GivesUp, Return, Fits
  <1>3. CASE GoesOn /\ (Sources \/ Weights)
    <2>1. pc' \notin {"graph", "draft", "idle"}
      BY <1>3 DEF GoesOn, Fail, FailWithNull, Return,
         Sources, CreateDevice, CreateDeviceFails, Open, OpenFails, EmbeddedTokenizer, EmbeddedTemplate,
         TokenizerPresent, TokenizerFile, TemplateFile, CheckEnds,
         Weights, StartModel, StartModelFails, LoadTensor, LoadTensorFails, LoadTensorThrows, BeginLayer,
         LayerTypesFail, DetectType, TypeMismatch, BeginVision, LoadVisionTensor, LoadVisionThrows,
         FinishModel, Reading
    <2> QED BY <2>1 DEF Fits
  <1>4. CASE Building /\ (GoesOn \/ Finishes)
    <2>1. CASE MakeCache
      <3>1. pc = "kv" /\ pc' = "graph" /\ model' = model /\ kv' = NewCache
        BY <2>1 DEF MakeCache, Around
      <3>2. kv'.full = NumFullLayers(model.types) /\ kv'.linear = NumLinearLayers(model.types)
        BY <3>1 DEF NewCache, Cache, CacheConfig
      <3>3. model.load # 0
        BY <3>1, LoadAssumption DEF Order
      <3> QED BY <3>1, <3>2, <3>3 DEF Fits
    <2>2. CASE MakeArena
      BY <2>2 DEF MakeArena, Fits
    <2>3. CASE MakeGraph \/ Finishes
      BY <2>3 DEF MakeGraph, Finishes, MakeDraft, NoSpeculation, Around, Fits
    <2>4. MakeCache \/ MakeArena \/ MakeGraph \/ Finishes
      BY <1>4 DEF Building, MakeCacheFails, MakeEmptyCacheFails, MakeGraphThrows, MakeArenaThrows, MakeDraftThrows,
                  DraftGraphThrows, Finishes, GoesOn, Fail, Return
    <2> QED BY <2>1, <2>2, <2>3, <2>4
  <1>5. CASE UNCHANGED vars
    BY <1>5 DEF Fits, vars, members
  <1>6. Finishes => Building
    BY DEF Finishes, Building
  <1> QED BY <1>1, <1>2, <1>3, <1>4, <1>5, <1>6, KindsOfStep DEF Next

\* Counting the full layers of a list from 0 or from 1 is the same.
LEMMA FullLayers ==
  ASSUME NEW T, NEW types \in Seq(T), Len(types) = NumLayers
  PROVE  LET full == {l \in 0..NumLayers - 1 : types[l + 1] = Full}
         IN /\ Cardinality(full) = NumFullLayers(types)
            /\ Cardinality((0..NumLayers - 1) \ full) = NumLinearLayers(types)
  <1> DEFINE layers == 0..NumLayers - 1
             full == {l \in layers : types[l + 1] = Full}
             counted == {l \in DOMAIN types : types[l] = Full}
             f == [l \in full |-> l + 1]
  <1>1. NumLayers \in Nat \ {0} /\ DOMAIN types = 1..NumLayers
    BY WeightsAssumption
  <1>2. IsFiniteSet(layers) /\ Cardinality(layers) = NumLayers
    <2>1. 0 \in Int /\ NumLayers - 1 \in Int
      BY <1>1
    <2>2. /\ IsFiniteSet(0..NumLayers - 1)
          /\ Cardinality(0..NumLayers - 1) = IF 0 > NumLayers - 1 THEN 0 ELSE (NumLayers - 1) - 0 + 1
      BY <2>1, FS_Interval
    <2> QED BY <1>1, <2>2
  <1>3. IsFiniteSet(full) /\ full \subseteq layers
    BY <1>2, FS_Subset
  <1>4. ExistsBijection(full, counted)
    <2>1. f \in [full -> counted]
      BY <1>1
    <2>2. \A x, y \in full : f[x] = f[y] => x = y
      BY <1>1
    <2>3. \A y \in counted : \E x \in full : f[x] = y
      <3> SUFFICES ASSUME NEW y \in counted PROVE \E x \in full : f[x] = y
        OBVIOUS
      <3>1. y - 1 \in full /\ f[y - 1] = y
        BY <1>1
      <3> QED BY <3>1
    <2> HIDE DEF f, full, counted
    <2>4. f \in Bijection(full, counted)
      BY <2>1, <2>2, <2>3, Fun_IsBij
    <2> QED BY <2>4 DEF ExistsBijection
  <1>5. Cardinality(counted) = Cardinality(full)
    BY <1>3, <1>4, FS_Bijection
  <1>6. Cardinality(layers \ full) = Cardinality(layers) - Cardinality(full)
    <2>1. layers \cap full = full
      BY <1>3
    <2> HIDE DEF layers, full
    <2>2. Cardinality(layers \ full) = Cardinality(layers) - Cardinality(layers \cap full)
      BY <1>2, FS_Difference
    <2> QED BY <2>1, <2>2
  <1> QED BY <1>2, <1>5, <1>6 DEF NumFullLayers, NumLinearLayers

\* After a successful load the cache has a slot of the right kind for every layer, and
\* every layer has the projection its kind starts with.
THEOREM CacheHasEveryLayer == Spec => []CacheFitsLayers
  <1>1. Init => Order /\ Built /\ Fits
    <2>1. Init => Fits
      BY DEF Init, Fits
    <2> QED BY <2>1, OrderInit, BuiltInit
  <1>2. Order /\ Built /\ Fits /\ [Next]_vars => (Order /\ Built /\ Fits)'
    BY OrderStep, BuiltStep, FitsStep
  <1>3. Order /\ Built /\ Fits => CacheFitsLayers
    <2> DEFINE layers == 0..NumLayers - 1
               full == {l \in layers : model.types[l + 1] = Full}
    <2> SUFFICES ASSUME Order, Built, Fits, pc = "idle", ok
                 PROVE  /\ kv.full = Cardinality(full) /\ full \subseteq LayersWith("q_proj")
                        /\ kv.linear = Cardinality(layers \ full)
                        /\ layers \ full \subseteq LayersWith("in_proj_qkv")
      BY DEF CacheFitsLayers
    <2>1. /\ model.types \in Seq(LayerTypes) /\ Len(model.types) = NumLayers
          /\ Needed(model.types) \subseteq model.views
          /\ kv.full = NumFullLayers(model.types) /\ kv.linear = NumLinearLayers(model.types)
      BY DEF Built, Fits
    <2>2. kv.full = Cardinality(full) /\ kv.linear = Cardinality(layers \ full)
      BY <2>1, FullLayers
    <2>3. \A l \in layers : NeededBy(l, model.types[l + 1]) \subseteq model.views
      BY <2>1 DEF Needed
    <2>4. layers \subseteq Int
      BY WeightsAssumption
    <2>5. full \subseteq LayersWith("q_proj")
      <3> SUFFICES ASSUME NEW l \in layers, model.types[l + 1] = Full PROVE <<l, "q_proj">> \in model.views
        BY DEF LayersWith
      <3> QED BY <2>3, <2>4, FirstNames
    <2>6. layers \ full \subseteq LayersWith("in_proj_qkv")
      <3> SUFFICES ASSUME NEW l \in layers, model.types[l + 1] # Full
                   PROVE  <<l, "in_proj_qkv">> \in model.views
        BY DEF LayersWith
      <3> QED BY <2>3, <2>4, FirstNames
    <2> QED BY <2>2, <2>5, <2>6
  <1> QED BY <1>1, <1>2, <1>3, PTL DEF Spec
=============================================================================
