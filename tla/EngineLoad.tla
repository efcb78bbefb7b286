----------------------------- MODULE EngineLoad -----------------------------
(* Engine::load (src/src/runtime/engine.cpp) step by step: the container, the    *)
(* tokenizer and the template with their fallbacks, the weights one tensor after *)
(* the other, and the arena, cache, graph and draft context built upon them, on  *)
(* a device whose memory may run out at any of them. An engine may be loaded     *)
(* again.                                                                        *)
EXTENDS ModelWeights, Functions

CONSTANTS
  Calls,                \* the pairs of an artifact and a config that load() may be called with
  GraphBuffers,         \* allocations of a DecodeGraph
  Memory,               \* how many allocations the device has room for
  MaxLoads              \* bound

ASSUME LoadAssumption ==
  GraphBuffers \in Nat \ {0} /\ Memory \in Nat /\ MaxLoads \in Nat \ {0}

VARIABLES
  pc, loads, ok,      \* where load() is, how often it was called, what it returned last
  artifact, config,
  tokenizer, template,
  building,           \* the LoadedModel under construction
  work, layer,        \* the tensors it still reads, the layer it is at
  ctx, model, arena, kv, graph, draft, is_loaded_,    \* members of EngineImpl
  memory,             \* device allocations by their owner
  allocated_ptrs      \* LoadedModel::allocated_device_ptrs_, their number by load

members == <<ctx, model, arena, kv, graph, draft, is_loaded_>>
source == <<artifact, config, tokenizer, template>>
loader == <<building, work, layer>>
device == <<memory, allocated_ptrs>>
vars == <<pc, loads, ok, source, loader, members, device>>

-----------------------------------------------------------------------------
(* Objects. Each carries the number of the load that made it; 0 is the null      *)
(* pointer. A graph refers to the model and the cache of its own load.           *)

Parts == {"model", "arena", "kv", "graph", "draft arena", "draft graph"}
NoModel == [load |-> 0, types |-> <<>>, views |-> {}, vision |-> FALSE]
NoCache == [load |-> 0, full |-> 0, linear |-> 0, int8 |-> FALSE]
NoGraph == [load |-> 0, captured |-> FALSE, whole |-> FALSE]
NoDraft == [arena |-> 0, graph |-> 0]

Least(a, b) == IF a < b THEN a ELSE b

Used == FoldFunction(+, 0, memory)

\* Other programs use the device too: config.memory is what they leave.
Room ==
  LET free == Least(Memory, config.memory) - Used IN IF free > 0 THEN free ELSE 0

\* An owner's destructor. A model frees the pointers it has recorded.
FreedBy(mem, part, load) ==
  IF load = 0 THEN mem
  ELSE [mem EXCEPT ![<<part, load>>] = IF part = "model" THEN @ - allocated_ptrs[load] ELSE 0]

\* Engine::is_loaded
Loaded == is_loaded_ /\ model.load # 0 /\ kv.load # 0

-----------------------------------------------------------------------------
(* Tokenizer and chat template *)

\* What load_from_json_buffer leaves behind for each kind of file.
Tables(kind) ==
  [usable |-> kind \in {"good", "no im_start", "no im_end"},
   ends |-> kind \in {"good", "no im_start"}]
Parsable == {"good", "no im_start", "no im_end", "no merges"}
Tok(kind, from) == [kind |-> kind, from |-> from, load |-> loads]
Tmpl(loaded, from) == [loaded |-> loaded, from |-> from, load |-> loads]
NoTok == [kind |-> "none", from |-> "none", load |-> 0]
NoTmpl == [loaded |-> FALSE, from |-> "none", load |-> 0]

-----------------------------------------------------------------------------
(* load() *)

Return(result) == pc' = "idle" /\ ok' = result

\* An exception, or a return before anything was built: a half-built model dies, the
\* members stay.
Fail ==
  /\ Return(FALSE)
  /\ building' = NoModel /\ work' = <<>>
  /\ memory' = FreedBy(memory, "model", building.load)
  /\ UNCHANGED <<loads, artifact, config, layer, members, allocated_ptrs>>

Stay == UNCHANGED <<loads, artifact, config, loader, members, device, ok>>

Load(a, c) ==
  /\ pc = "idle" /\ loads < MaxLoads
  /\ loads' = loads + 1 /\ artifact' = a /\ config' = c
  /\ pc' = "device"
  /\ UNCHANGED <<ok, tokenizer, template, loader, members, device>>

\* DeviceContext::create throws when there is no GPU.
CreateDevice ==
  /\ pc = "device" /\ config.gpu
  /\ ctx' = loads /\ pc' = "open"
  /\ UNCHANGED <<loads, ok, source, loader, model, arena, kv, graph, draft, is_loaded_, device>>

CreateDeviceFails ==
  /\ pc = "device" /\ ~ config.gpu
  /\ Fail /\ UNCHANGED <<tokenizer, template>>

\* artifact.intact: the whole file has its checksum. A damaged section can only be
\* in a file that is not intact.
Opens == artifact.opens /\ (config.validate_checksum => artifact.intact)

Open ==
  /\ pc = "open" /\ Opens
  /\ pc' = "tokenizer" /\ Stay /\ UNCHANGED <<tokenizer, template>>

OpenFails ==
  /\ pc = "open" /\ ~ Opens
  /\ Fail /\ UNCHANGED <<tokenizer, template>>

\* Mutant: the embedded tokenizer is read only if none is loaded.
EmbeddedOnlyIfNone ==
  /\ pc = "tokenizer"
  /\ tokenizer' = IF artifact.tokenizer \in Parsable /\ ~ Tables(tokenizer.kind).usable
                  THEN Tok(artifact.tokenizer, "artifact") ELSE tokenizer
  /\ pc' = "template" /\ Stay /\ UNCHANGED template

\* A section that is absent, empty or damaged leaves the tokenizer as it was; one
\* that does not parse is only reported.
EmbeddedTokenizer ==
  /\ pc = "tokenizer"
  /\ tokenizer' = IF artifact.tokenizer \in Parsable THEN Tok(artifact.tokenizer, "artifact")
                  ELSE tokenizer
  /\ pc' = "template" /\ Stay /\ UNCHANGED template

EmbeddedTemplate ==
  /\ pc = "template"
  /\ template' = IF artifact.template \in {"good", "bad"}
                 THEN Tmpl(artifact.template = "good", "artifact") ELSE template
  /\ pc' = "fallback" /\ Stay /\ UNCHANGED tokenizer

TokenizerPresent ==
  /\ pc = "fallback" /\ Tables(tokenizer.kind).usable
  /\ pc' = "template file" /\ Stay /\ UNCHANGED <<tokenizer, template>>

\* load_from_file, which ends with the template beside the tokenizer.
TokenizerFile ==
  /\ pc = "fallback" /\ ~ Tables(tokenizer.kind).usable
  /\ LET file == config.tokenizer
     IN /\ tokenizer' = IF file.kind \in Parsable THEN Tok(file.kind, "file") ELSE tokenizer
        /\ IF file.kind = "good" /\ file.agrees
           THEN /\ template' = IF file.sibling \in {"good", "bad"}
                               THEN Tmpl(file.sibling = "good", "sibling") ELSE template
                /\ pc' = "template file" /\ Stay
           ELSE Fail /\ UNCHANGED template

\* A template file that fails to load is only reported.
TemplateFile ==
  /\ pc = "template file"
  /\ template' = IF ~ template.loaded /\ config.template \in {"good", "bad"}
                 THEN Tmpl(config.template = "good", "file") ELSE template
  /\ pc' = "ends" /\ Stay /\ UNCHANGED tokenizer

CheckEnds ==
  /\ pc = "ends" /\ UNCHANGED <<tokenizer, template>>
  /\ IF Tables(tokenizer.kind).ends
     THEN pc' = "weights" /\ Stay
     ELSE Fail

-----------------------------------------------------------------------------
(* LoadedModel::load_from_artifact *)

Quiet == UNCHANGED <<loads, ok, source, members>>

\* A null result is assigned to model_, so that the model before it dies too.
FailWithNull ==
  /\ Return(FALSE)
  /\ building' = NoModel /\ work' = <<>> /\ model' = NoModel
  /\ memory' = FreedBy(FreedBy(memory, "model", building.load), "model", model.load)
  /\ UNCHANGED <<loads, source, layer, ctx, arena, kv, graph, draft, is_loaded_, allocated_ptrs>>

StartModel ==
  /\ pc = "weights" /\ ValidMetadata(artifact.meta)
  /\ building' = [NoModel EXCEPT !.load = loads] /\ work' = GlobalTensors /\ layer' = 0
  /\ pc' = "global" /\ Quiet /\ UNCHANGED device

\* A group size that is no number throws before the others are looked at.
StartModelFails ==
  /\ pc = "weights" /\ ~ ValidMetadata(artifact.meta)
  /\ \/ artifact.meta.group = -1 /\ Fail /\ UNCHANGED <<tokenizer, template>>
     \/ artifact.meta.group # -1 /\ FailWithNull

\* Mutant: the pointer of the scales is not recorded.
UntrackedScales(n) ==
  /\ memory' = [memory EXCEPT ![<<"model", loads>>] = @ + n]
  /\ allocated_ptrs' = [allocated_ptrs EXCEPT ![loads] = @ + 1]

\* alloc_dev
AllocDev(n) ==
  /\ memory' = [memory EXCEPT ![<<"model", loads>>] = @ + n]
  /\ allocated_ptrs' = [allocated_ptrs EXCEPT ![loads] = @ + n]

Reading == pc \in {"global", "mlp", "mixer"} /\ work # <<>>

\* The pointers that are set once t was read.
Views(t) ==
  {n \in {t.name} \cup (IF t.int4 THEN {Scales(t.name)} ELSE {}) : Readable(artifact, n)}

LoadTensor ==
  /\ Reading
  /\ Loadable(artifact, Head(work)) /\ Allocations(Head(work)) <= Room
  /\ AllocDev(Allocations(Head(work)))
  /\ building' = [building EXCEPT !.views = @ \cup Views(Head(work))]
  /\ work' = Tail(work)
  /\ UNCHANGED <<pc, layer>> /\ Quiet

\* The weights of a pair are on the device before the scales are read.
LoadTensorFails ==
  /\ Reading /\ ~ Loadable(artifact, Head(work))
  /\ Readable(artifact, Head(work).name) => Room > 0
  /\ FailWithNull

LoadTensorThrows ==
  /\ Reading
  /\ IF Loadable(artifact, Head(work)) THEN Allocations(Head(work)) > Room
     ELSE Readable(artifact, Head(work).name) /\ Room = 0
  /\ Fail /\ UNCHANGED <<tokenizer, template>>

\* Between the global tensors and the first layer the list of types is checked.
LayerTypesFail ==
  /\ pc = "global" /\ work = <<>> /\ ~ ValidLayerTypes(artifact.meta)
  /\ FailWithNull

BeginLayer ==
  /\ (pc = "global" /\ ValidLayerTypes(artifact.meta)) \/ pc = "mixer"
  /\ work = <<>> /\ Len(building.types) < NumLayers
  /\ layer' = Len(building.types) /\ work' = CommonTensors(layer')
  /\ pc' = "mlp" /\ UNCHANGED building /\ Quiet /\ UNCHANGED device

\* The norms and the MLP of a layer come first, then its type is determined.
DetectType ==
  /\ pc = "mlp" /\ work = <<>> /\ TypeConfirmed(artifact, layer)
  /\ building' = [building EXCEPT !.types = Append(@, DetectedType(artifact, layer))]
  /\ work' = MixerTensors(layer, DetectedType(artifact, layer))
  /\ pc' = "mixer" /\ UNCHANGED layer /\ Quiet /\ UNCHANGED device

TypeMismatch ==
  pc = "mlp" /\ work = <<>> /\ ~ TypeConfirmed(artifact, layer) /\ FailWithNull

\* The vision tensors that are there; one that cannot be read is left out.
WithVision == artifact.meta.has_vision \/ VisionTensors[1].name \in DOMAIN artifact.sections

BeginVision ==
  /\ pc = "mixer" /\ work = <<>> /\ Len(building.types) = NumLayers
  /\ work' = IF WithVision
             THEN SelectSeq(VisionTensors, LAMBDA t : t.name \in DOMAIN artifact.sections)
             ELSE <<>>
  /\ pc' = "vision" /\ UNCHANGED <<building, layer>> /\ Quiet /\ UNCHANGED device

LoadVisionTensor ==
  /\ pc = "vision" /\ work # <<>> /\ Cardinality(Views(Head(work))) <= Room
  /\ AllocDev(Cardinality(Views(Head(work))))
  /\ building' = [building EXCEPT !.views = @ \cup Views(Head(work))]
  /\ work' = Tail(work)
  /\ UNCHANGED <<pc, layer>> /\ Quiet

LoadVisionThrows ==
  /\ pc = "vision" /\ work # <<>> /\ Cardinality(Views(Head(work))) > Room
  /\ Fail /\ UNCHANGED <<tokenizer, template>>

\* The finished model is assigned to model_; the one before it dies only now.
FinishModel ==
  /\ pc = "vision" /\ work = <<>>
  /\ model' = [building EXCEPT !.vision = VisionTensors[1].name \in building.views]
  /\ building' = NoModel
  /\ memory' = FreedBy(memory, "model", model.load)
  /\ pc' = "arena"
  /\ UNCHANGED <<loads, ok, source, work, layer, ctx, arena, kv, graph, draft, is_loaded_,
                 allocated_ptrs>>

-----------------------------------------------------------------------------
(* What is built on the model *)

Around == UNCHANGED <<loads, source, loader, ctx, model, is_loaded_, allocated_ptrs>>

\* make_unique first allocates the new object, then the old one dies.
MakeArena ==
  /\ pc = "arena" /\ Room > 0
  /\ arena' = loads
  /\ memory' = FreedBy([memory EXCEPT ![<<"arena", loads>>] = 1], "arena", arena)
  /\ pc' = "kv" /\ UNCHANGED <<ok, kv, graph, draft>> /\ Around

MakeArenaThrows ==
  /\ pc = "arena" /\ Room = 0
  /\ Fail /\ UNCHANGED <<tokenizer, template>>

Cache == CacheConfig(model.types, artifact.meta, config.use_int8_kv)
NewCache == [load |-> loads, full |-> Cache.full, linear |-> Cache.linear, int8 |-> Cache.int8]

\* One block for the full layers and one for the recurrent states, if there are any.
CacheBlocks == (IF Cache.full > 0 THEN 1 ELSE 0) + (IF Cache.linear > 0 THEN 1 ELSE 0)

\* The old cache dies before the new one allocates.
RoomForCache == Room + (IF kv.load = 0 THEN 0 ELSE memory[<<"kv", kv.load>>])

MakeCache ==
  /\ pc = "kv" /\ CacheAllowed(Cache) /\ CacheBlocks <= RoomForCache
  /\ kv' = NewCache
  /\ memory' = [FreedBy(memory, "kv", kv.load) EXCEPT ![<<"kv", loads>>] = CacheBlocks]
  /\ pc' = "graph" /\ UNCHANGED <<ok, arena, graph, draft>> /\ Around

\* init() throws or allocate() returns false: the new cache stays, with what it got.
MakeCacheFails ==
  /\ pc = "kv" /\ ~ (CacheAllowed(Cache) /\ CacheBlocks <= RoomForCache)
  /\ kv' = NewCache
  /\ memory' = [FreedBy(memory, "kv", kv.load) EXCEPT
                  ![<<"kv", loads>>] = IF CacheAllowed(Cache) THEN Least(CacheBlocks, RoomForCache) ELSE 0]
  /\ Return(FALSE) /\ UNCHANGED <<arena, graph, draft>> /\ Around

\* Without full layers malloc_device is asked for no bytes at all. It may return null, which
\* allocate() takes for a failure.
MakeEmptyCacheFails ==
  /\ pc = "kv" /\ CacheAllowed(Cache) /\ Cache.full = 0
  /\ kv' = NewCache
  /\ memory' = [FreedBy(memory, "kv", kv.load) EXCEPT ![<<"kv", loads>>] = 0]
  /\ Return(FALSE) /\ UNCHANGED <<arena, graph, draft>> /\ Around

\* The constructor does not look at what malloc_device returns.
NewGraph(captured) ==
  [load |-> loads, captured |-> captured, whole |-> GraphBuffers <= Room]

\* capture() fails without the graph aspect or by an exception that it catches. That
\* is no reason to give up.
MakeGraph ==
  /\ pc = "graph"
  /\ \E captured \in BOOLEAN : graph' = NewGraph(captured)
  /\ memory' = FreedBy([memory EXCEPT ![<<"graph", loads>>] = Least(GraphBuffers, Room)], "graph", graph.load)
  /\ pc' = "draft" /\ UNCHANGED <<ok, arena, kv, draft>> /\ Around

\* The copies before the recording throw when a buffer they write is null.
MakeGraphThrows ==
  /\ pc = "graph" /\ GraphBuffers > Room
  /\ graph' = NewGraph(FALSE)
  /\ memory' = FreedBy([memory EXCEPT ![<<"graph", loads>>] = Least(GraphBuffers, Room)], "graph", graph.load)
  /\ Return(FALSE) /\ UNCHANGED <<arena, kv, draft>> /\ Around

\* Mutant: an existing draft context is kept.
KeptDraft ==
  /\ pc = "draft" /\ config.speculative /\ Room > 0
  /\ draft' = IF draft = NoDraft THEN [arena |-> loads, graph |-> loads] ELSE draft
  /\ memory' = memory
  /\ is_loaded_' = TRUE /\ Return(TRUE)
  /\ UNCHANGED <<loads, source, loader, ctx, model, arena, kv, graph, allocated_ptrs>>

\* DraftContext::init, the last step of load().
MakeDraft ==
  /\ pc = "draft" /\ config.speculative /\ Room > 0
  /\ draft' = [arena |-> loads, graph |-> loads]
  /\ memory' = FreedBy(FreedBy([memory EXCEPT ![<<"draft arena", loads>>] = 1,
                                              ![<<"draft graph", loads>>] = Least(GraphBuffers, Room - 1)],
                               "draft arena", draft.arena), "draft graph", draft.graph)
  /\ is_loaded_' = TRUE /\ Return(TRUE)
  /\ UNCHANGED <<loads, source, loader, ctx, model, arena, kv, graph, allocated_ptrs>>

MakeDraftThrows ==
  /\ pc = "draft" /\ config.speculative /\ Room = 0
  /\ Fail /\ UNCHANGED <<tokenizer, template>>

\* Its graph throws as the other one does; the new arena and graph stay.
DraftGraphThrows ==
  /\ pc = "draft" /\ config.speculative /\ Room \in 1..GraphBuffers
  /\ draft' = [arena |-> loads, graph |-> loads]
  /\ memory' = FreedBy(FreedBy([memory EXCEPT ![<<"draft arena", loads>>] = 1,
                                              ![<<"draft graph", loads>>] = Room - 1],
                               "draft arena", draft.arena), "draft graph", draft.graph)
  /\ Return(FALSE) /\ UNCHANGED <<arena, kv, graph>> /\ Around

NoSpeculation ==
  /\ pc = "draft" /\ ~ config.speculative
  /\ is_loaded_' = TRUE /\ Return(TRUE)
  /\ UNCHANGED <<loads, source, loader, ctx, model, arena, kv, graph, draft, device>>

-----------------------------------------------------------------------------
(* What generate() takes up *)

\* The load that made each part used for a request, which may ask for drafts itself.
UsedParts(drafts) ==
  {ctx, model.load, arena, kv.load, graph.load}
    \cup (IF (config.speculative \/ drafts) /\ draft.arena # 0 THEN {draft.arena, draft.graph} ELSE {})

-----------------------------------------------------------------------------
AnyCall == CHOOSE call \in Calls : TRUE

Init ==
  /\ pc = "idle" /\ loads = 0 /\ ok = FALSE
  /\ artifact = AnyCall[1] /\ config = AnyCall[2]   \* not used before the first call
  /\ tokenizer = NoTok /\ template = NoTmpl
  /\ building = NoModel /\ work = <<>> /\ layer = 0
  /\ ctx = 0 /\ model = NoModel /\ arena = 0 /\ kv = NoCache /\ graph = NoGraph /\ draft = NoDraft
  /\ is_loaded_ = FALSE
  /\ memory = [o \in Parts \X (1..MaxLoads) |-> 0]
  /\ allocated_ptrs = [k \in 1..MaxLoads |-> 0]

Sources ==
  \/ CreateDevice \/ CreateDeviceFails \/ Open \/ OpenFails
  \/ EmbeddedTokenizer \/ EmbeddedTemplate
  \/ TokenizerPresent \/ TokenizerFile \/ TemplateFile \/ CheckEnds

Weights ==
  \/ StartModel \/ StartModelFails
  \/ LoadTensor \/ LoadTensorFails \/ LoadTensorThrows
  \/ BeginLayer \/ LayerTypesFail \/ DetectType \/ TypeMismatch
  \/ BeginVision \/ LoadVisionTensor \/ LoadVisionThrows \/ FinishModel

Building ==
  \/ MakeArena \/ MakeArenaThrows \/ MakeCache \/ MakeCacheFails \/ MakeEmptyCacheFails
  \/ MakeGraph \/ MakeGraphThrows \/ MakeDraft \/ MakeDraftThrows
  \/ DraftGraphThrows \/ NoSpeculation

Next ==
  \/ \E call \in Calls : Load(call[1], call[2])
  \/ Sources \/ Weights \/ Building

Spec == Init /\ [][Next]_vars
-----------------------------------------------------------------------------
(* Properties *)

\* Type invariant.
TypeOK ==
  /\ pc \in {"idle", "device", "open", "tokenizer", "template", "fallback", "template file", "ends",
             "weights", "global", "mlp", "mixer", "vision", "arena", "kv", "graph", "draft"}
  /\ loads \in 0..MaxLoads /\ ok \in BOOLEAN /\ is_loaded_ \in BOOLEAN
  /\ <<artifact, config>> \in Calls
  /\ {ctx, arena, model.load, kv.load, graph.load, draft.arena, draft.graph, building.load}
       \subseteq 0..loads
  /\ layer \in 0..NumLayers - 1 /\ Len(building.types) <= NumLayers
  /\ memory \in [Parts \X (1..MaxLoads) -> Nat] /\ allocated_ptrs \in [1..MaxLoads -> Nat]
  /\ Used <= Memory

Owner(part) ==
  CASE part = "model" -> model.load
    [] part = "arena" -> arena
    [] part = "kv" -> kv.load
    [] part = "graph" -> graph.load
    [] part = "draft arena" -> draft.arena
    [] part = "draft graph" -> draft.graph

\* Device memory belongs to an object that the engine still holds or to the model it
\* is building: no failure of load(), returned or thrown, on the first or on a later
\* load, leaks an allocation.
DeviceMemoryIsOwned ==
  \A part \in Parts, k \in 1..loads :
    memory[<<part, k>>] > 0 => Owner(part) = k \/ (part = "model" /\ building.load = k)

\* A draft context that an earlier load made and a load without speculation kept. Its
\* graph was captured over a model and a cache that are gone.
DraftIsStale == ~ config.speculative /\ draft.arena \in 1..loads - 1

\* After a load() that returned true is_loaded() holds, and every part that a request uses
\* was made by that load, with one exception: a load without speculation keeps the draft
\* context of an earlier load with it, and a request with draft_tokens_num > 0 then runs
\* that context, over freed memory. A request without is never affected. A first load that
\* returned false leaves is_loaded() false; of a later one that failed nothing is said.
ReadyAfterLoad ==
  pc = "idle" /\ loads > 0 =>
    /\ ok => /\ Loaded
             /\ \A drafts \in BOOLEAN : UsedParts(drafts) = {loads} \/ (drafts /\ DraftIsStale)
    /\ loads = 1 => Loaded = ok

LayersWith(word) == {l \in 0..NumLayers - 1 : <<l, word>> \in model.views}
Names(tensors) ==
  {tensors[i].name : i \in DOMAIN tensors}
    \cup {Scales(tensors[i].name) : i \in {j \in DOMAIN tensors : tensors[j].int4}}

\* A model the engine holds has every tensor that its layers read, scales included.
ModelIsComplete ==
  model.load # 0 =>
    /\ Len(model.types) = NumLayers
    /\ Names(GlobalTensors) \subseteq model.views
    /\ \A l \in 0..NumLayers - 1 :
         Names(CommonTensors(l)) \cup Names(MixerTensors(l, model.types[l + 1])) \subseteq model.views

\* The cache has a slot for every layer: as many full ones as layers with a query
\* projection are run as full attention, and as many recurrent ones as there are
\* others, whether sections, list or interval decided.
CacheFitsLayers ==
  pc = "idle" /\ ok =>
    LET full == {l \in 0..NumLayers - 1 : model.types[l + 1] = Full}
    IN /\ kv.full = Cardinality(full) /\ full \subseteq LayersWith("q_proj")
       /\ kv.linear = Cardinality((0..NumLayers - 1) \ full)
       /\ (0..NumLayers - 1) \ full \subseteq LayersWith("in_proj_qkv")

\* A tokenizer that the artifact carries and that parses is the one in use after the
\* load, also when another one was loaded before or is configured, and so is the
\* template if both are carried; in any case the end tokens are known.
ArtifactsTokenizerWins ==
  pc = "idle" /\ ok =>
    /\ Tables(tokenizer.kind).ends
    /\ artifact.tokenizer = "good" =>
         /\ tokenizer = Tok("good", "artifact")
         /\ artifact.template = "good" => template = Tmpl(TRUE, "artifact")
=============================================================================
