# A TLA+ model of xInfer

xInfer runs one quantised Qwen model on an Intel GPU and serves it over an
OpenAI-style HTTP API. This directory models it along the life of a model and of
a request: the file a model is kept in (`src/artifact`), its loading
(`src/runtime`, `src/targets`), the threaded HTTP server and the admission of a
request (`src/serve`), the chat template and the tokenizer, the generation loop
over the KV cache, and the routing of the generated text back to the client. TLC
checks small instances; TLAPS proves most of the safety properties for every
instance.

Paths below are relative to the repository root.

## The system

| Component | State | Operations | Hard behaviour |
|---|---|---|---|
| `EngineImpl::generate` (`src/runtime/engine.cpp`) | token budget, `token_ids`, `current_tok`, finish reason | `generate`, `validate_tokens`, `reset`, `load` | three decoding paths (eager, graph replay, speculative) over one cache; exceptions at every device call |
| Forward passes (`src/targets/qwen3_8/forward.cpp`, `decode_graph.cpp`) | none of their own | `prefill_prompt`, `forward_chunk`, `decode_step`, `draft_decode_loop`, `forward_verify` | chunk boundaries; a pass out of bounds is skipped without an error |
| KV cache (`src/core/kv_cache.*`) | length, K/V rows, delta-rule and conv state, checkpoint | `clear`, `advance`, `set_seq_len`, `rollback`, `checkpoint_recurrent_state` | rows are never erased, only made unreachable; recurrent state cannot be shortened, only restored |
| Device arena (`src/core/arena.*`) | bump offset, persistent buffer | `allocate`, `persistent_buffer`, `reset` | who resets it, and when |
| HTTP server (`src/serve/server.*`) | `is_running_`, listening socket, queue, worker pool, `engine_mutex_` | `start`, `stop`, `accept_loop`, `worker_loop`, `handle_client` | start and stop against accepting and serving threads; condition variable; socket ownership |
| Output routing (engine `process_token`, server callback) | thinking flags | split reasoning from content | two state machines that must agree |
| Protocol (`src/serve/protocol.*`) | none | parsing of JSON and multipart requests | order of checks shared between parser, server and engine |
| Chat template (`src/targets/qwen3_8/chat_template.*`) | parameters taken from a Jinja file | `load_from_string`, `render` | a load that fails half way; turns that depend on their neighbours |
| Tokenizer (`src/targets/qwen3_8/tokenizer.*`) | vocabulary, ranks, special tokens, cache of merged words | `load_from_file`, `encode`, `decode` | a regular expression written out by hand; greedy merging; a cache that outlives a load |
| Artifact container (`src/artifact`, `tools/convert`) | a file; the reader's copy of header and table | `write_to_file`, `open`, `read_section`, `validate_checksum` | death of the writer, damage, sums of offsets and sizes from the file |
| `EngineImpl::load`, weights (`src/runtime`, `src/targets/qwen3_8_27b`) | device, model, arena, cache, graphs | `load`, `load_from_artifact` | failure at any of hundreds of allocations; a second load over the first |
| Command lists (`src/core/command_list.*`) | list, queue, fence, a flag | record, close, execute, synchronize, move | a device that runs on its own |
| Kernels (`src/ops`) | none | submit | floating point |

A request flows: `accept_loop` queues a socket; a worker takes it,
`handle_client` reads, parses and validates the request, locks `engine_mutex_`
and calls `Engine::generate`, which prefills the prompt in chunks and then
decodes token by token, calling back into the server to stream each piece.
Before that, `Engine::load` has opened the artifact, read tokenizer and template
from it or from files beside it, uploaded the weights and built the cache and the
graphs upon them.

What makes each part correct: every token is computed from exactly the tokens
before it; a call stays inside the sequence limit and its budget and returns; a
failed call leaves nothing behind for the next one; every socket is owned by
one thread and closed once; `stop` terminates and leaves nothing open; the
engine is used by one thread at a time; reasoning and answer are told apart,
and no piece of it is lost; what passes the checks of a request is what the
engine can serve; the prompt has the turns of the conversation and its tokens are
those the merge table prescribes; only a completely written, undamaged file is
used; whatever fails in a load, memory has an owner, and a load that succeeds
leaves one consistent set of parts.

## Modules

### KVCache.tla

The cache and what a forward pass leaves in it. All layers of one kind are
written by the same pass, so a K/V row is the token that was written to it
(`slots`), the delta-rule state is the sequence of tokens folded in since it
was zeroed (`delta`), the conv state is three taps (`conv`). `ForwardPass` is
`forward_chunk`, its silent early return included. `Context` is what a sampled
token was computed from, and `ExactContext(h)` what it would be without a cache.

### Generation.tla

`generate` as a program counter over prefill, chunk, loop, emit, draft and catch.
The weights are not modelled: a pass may sample any token of the vocabulary,
and what the model remembers is the context of the sample. `NextPass` names the
pass about to run. `device_throws` is a device exception with the pass done or
not done. The arena is counted in activation rows and the persistent buffer in
rows of logits; the isolated draft arena never overflows before the main one
and is left out. Within `process_token` `current_tok` is updated for every token of
a speculative round; the code does it once after the round, and reads it only then.

### RecomputeDecode.tla

The abstract specification: before every token the model is asked about the
whole history (`forward_next_token`), and a call ends with "stop", "length" or
an error. `asked` is the history the model was last asked about, as a sequence of
one, or empty. `Generation!ImplementsRecompute` states that `generate` without
speculation implements it.

### HttpServer.tla

Main thread, accept thread and workers, at the granularity of lock
acquisitions, condition-variable operations and socket calls. A request is
reduced to how `handle_client` leaves it. `CloseWakesAccept` says whether
closing the listening socket ends a blocked `accept()` (Windows: yes, Linux: no).
External parts (kernel, clients, condition variable) are modelled from their use.

### OutputRouting.tla

Where the pieces of a completion go: `process_token`, the post-processing at the
end of `generate` (`extract_block`, the loop `strip_stray`, `trim_text`) and the
server's `token_callback`. A token stands for its piece. The think tags are
tokens of their own, and each can also be spelled from two ordinary pieces, which
only the post-processing recognises; `std::string::find` and `erase` act on
sequences of pieces. The reference (`RefText`, `RefReasoning`) decides by the
positions of the tags in `token_ids` alone. `StreamCarriesEveryPiece` numbers the
tokens that are no tags by counting those before them, and compares chunk n with
token number n. `generate` never looks at the prompt, so a block the template opened
there (its default) is none of the model's: the reference counts the blocks the
completion opens. `generate_throws` is a forward pass that throws; the catch clauses
return what there is so far, without the post-processing.

### Tokenizer.tla

`load_from_file` and `encode` on one tokenizer, by one thread among others: the
server's workers run `count_tokens` without `engine_mutex_`, and `generate` encodes
beside them. Of another thread only its `bpe_merge` is seen (`OtherLookup`,
`OtherMerge`, `OtherInsert`), since the cache is all that `encode` writes and shares. An
access to the cache is one step as long as no other thread is at one of its own; where an
insertion meets another access, `Tear` is a step too, the data race of the code. What the
program does then is undefined: the phase "torn" has no step and no property speaks of
it. Loads happen while no other thread is in `encode` (`OthersIdle`): the server starts
its workers after the load. A character is a code point with a
category, its bytes, and for the byte symbols the byte it stands for. `Scan` finds
the nearest special token, the `Split*` actions are the branches of `split_qwen35`
in their order, `MergeStep` is one round of `bpe_merge`. The reference for the
splitter is the regular expression quoted above it, as the set of its matches, with its
fourth alternative restricted to what the code takes (see Observations); the
reference for the merges applies one pair at a time. `std::sort` is not stable, so
`SortSpecials` is the set of the orders it may leave. Three properties have a
hypothesis on the tables; the hand-made ones of the run meet or miss it. `TrainedRanks`:
each side of a merge is a byte symbol or the result of an earlier merge, and no two
merges have one result, as in a table with one merge for every token that is not a
byte; without the last part it fails: with the merges
(b,c), (a,b), (ab,c), (abc,a), (a,bc) in this order "abcabc" is cut otherwise than
one pair at a time. `SpecialsApart`: no ordinary token has the id of a special one.
`ClosedVocabulary`: every byte symbol and result of a merge is a token with an id of
its own, and a special token's name that holds a byte symbol holds that of the byte
it is written with; `decode_token` would turn a special token named "Ġ" into a
space.

### ChatTemplate.tla and ChatRequest.tla

ChatTemplate has the parameters of a template, what a failed load leaves of them, and
`render` on texts made of words, white space and tags. ChatRequest extends it with a
request body on its way through `parse_chat_completion_request` or the multipart
parser, and through `handle_client`: images, parameters, template, context length,
`generate`. An action is one of these checks with its early return. A number is an
integer or one of the classes the checks tell apart, and the cast of a double to
`int` outside its range has the results the builds give. `BodyAssumption` types the
bodies: what a JSON text or a form part holds once it is recognised, and that a
readable image header gives a size.

### Artifact.tla

The writer and the Python converter, which write the same file in the same order, a
reader, and the faults between them. A file is a sequence of cells (header, data,
table entry, footer), a checksum is collision free, sums of offset and size wrap at
`Wrap`. The process may die with part of the file missing, a cell may be damaged,
a tool may be started again while a reader has the file open.

### ModelWeights.tla and EngineLoad.tla

ModelWeights has what `load_from_artifact` asks of an artifact: metadata, the tensors
of each layer in reading order, how the type of a layer is found, the cache that
follows from it. EngineLoad is `load()` step by step, with every allocation, early
return and exception, and the destructors they run. Each object carries the number
of the load that made it; device memory is counted in allocations by owner, and the
pointers a model has recorded are counted apart from those it has allocated.
`UsedParts` are the parts a request takes up afterwards, with and without drafts.

### CommandList.tla

`LevelZeroCommandList`: creation in four stages, moves, recording, `execute` in its
three driver calls, `synchronize`, beside a device that completes submissions. The
driver is external and modelled from its use. The user is one thread that, like the
test of the class, synchronizes after an execution before it resets, executes again
or destroys; the class itself does not enforce this.

`MC_*.tla` give the constants their values. `*_proofs.tla` hold the theorems.

## Runs

| Run | Question | Result | Distinct states |
|---|---|---|---|
| Generation_decode | is every token computed from the history, with failures anywhere? | pass | 295,274 |
| Generation_speculative | lengths, budget, recovery and termination with speculation | pass | 34,877 |
| HttpServer_safety | ownership of sockets, exclusive generation | pass | 250,974 |
| HttpServer_liveness | stop, restart, every connection closed | pass | 166,241 |
| OutputRouting_split | is the completion split at the tags of its blocks, on every exit? | pass | 464,720 |
| Tokenizer_encode | splitter, merges, special tokens and cache against their references, beside other threads; round trip; termination | pass | 206,763 |
| ChatRequest_admission | does what is admitted fit the engine, and does the prompt follow the conversation? | pass | 178,900 |
| Artifact_crash | what opens, validates and reads after crashes, damage and rewrites? | pass | 1,346,759 |
| EngineLoad_twice | two loads, any of which may fail anywhere | pass | 205,465 |
| CommandList_replay | ownership of handles, lists in flight, what synchronize waits for | pass | 47,358 |
| Generation_spec_context | is a speculated token sampled from the history? | violated | 610 |
| HttpServer_reset_race | is engine recovery serialised too? | violated | 37,115 |

Each violated run states what a document or comment of the repository says and
shows a behaviour of the code that contradicts it; `PROJECT.json` quotes the line.

Every property has a mutant, marked as such in the modules: a variant of one mapped
definition with a plausible mistake, under which TLC finds the property violated.

## Observations

Behaviours of the code that the models contain or that were met while modelling.
The checked properties state the part that holds; the conditions in them
(`streaming`, `NoLiteralTag`, constants such as `FenceResetFails`) say where it ends.

* Speculation: `generate` asks the persistent buffer for one row of logits per draft,
  but prefill sized it for one row, so a round with two or more drafts ends the call
  (`engine.cpp:437`; the recovery is `CatchLeavesEngineReset`). `forward_verify`
  allocates without a reset, so with a captured graph the arena fills up over the
  rounds of a long completion.
* Server: an exception that leaves `handle_client` early is swallowed by
  `worker_loop` with the socket open (`server.cpp:290`). `close()` of the listening
  socket does not end a blocked `accept()` on Linux, so `stop()` does not return
  there (`CloseWakesAccept = FALSE`). An exception out of `generate` in a stream
  appends a second HTTP response instead of `data: [DONE]`. `send()` has no timeout,
  and no `MSG_NOSIGNAL`.
* Routing: `process_token` swallows the think tags before the server's callback, which
  waits for them, so a stream never has `reasoning_content`. Every prompt that
  `engine.cpp:209-211` makes is rendered with the default options, so it ends with
  `<think>` (`chat_template.cpp:465-471`); `in_thinking` starts false all the same, the
  reasoning stays in the text and its closing tag is dropped
  (`ResultSplitsAtTags` says so). A call that throws returns its text untrimmed. A second spelled block, or an opening tag whose halves
  join when a closing tag between them is erased, stays in the text
  (`NoCloseTagLeaks` is about closing tags only).
* Tokenizer: `[^\s\p{L}\p{M}\p{N}]` in the expression quoted at
  `tokenizer.cpp:218-219` takes a character of any other category; the code
  (`tokenizer.cpp:291`, `334`) does not take one that `unicode_table.h` has no range for,
  the zero width joiner, controls and other format characters among them. An emoji
  sequence joined by U+200D is one piece of the expression and several of the code.
  `SplitFollowsRegex` compares with the restricted alternative.
* Tokenizer: `bpe_cache_` is mutable (`tokenizer.h:77`) and found and written without a
  lock (`tokenizer.cpp:692`, `706`, `747`), while up to eight workers call
  `engine_.count_tokens` outside `engine_mutex_` (`server.cpp:685`), beside the `encode`
  of a running `generate`. `server.h:23` and the repository's `README.md:64` promise
  serialised inference, which does not cover this. The race is `Tear`; that it
  is reachable needs only two requests at once.
* Request: `render()` reports an error by an empty string, so the 400
  `chat_template_error` of `handle_client` is never sent; a streaming request learns
  of it after its 200. Images are validated but never passed to `generate`. A system
  message's `<image>` tag is not expanded; a form with several images gets one tag; a
  tool message at the start opens no turn. A template that fails to parse is
  replaced by the built-in parameters.
* Artifact: `open()` accepts damage in the payload; only `validate_checksum` and
  `read_section` detect it. Sums in the bounds checks can wrap, and the read behind
  them fails instead. A failed read leaves the stream failed until
  `validate_checksum` clears it. The converter truncates long section names without
  looking for duplicates.
* Load: a second load that fails leaves `is_loaded()` true over a mixture of parts. A
  second load without speculation keeps the draft context of the first
  (`engine.cpp:170-174`), whose graph was captured over a model and a cache that are
  gone; a request with `draft_tokens_num > 0` takes it up (`engine.cpp:400-401`) and
  replays it over freed memory (`DraftIsStale`, the exception in `ReadyAfterLoad`).
  Without an embedded tokenizer a second load keeps the tokenizer of the first, and
  a configured file is then not read. A model without full layers asks
  `malloc_device` for no bytes (`kv_cache.cpp:163-170`); a null pointer, which it may
  return for that, fails the load (`MakeEmptyCacheFails`). Both models are resident while
  the second is read. `DecodeGraph` does not check its allocations; the graph is then
  kept without them (`whole`).
* Command list: the result of `zeFenceReset` is ignored. If it fails, `synchronize()`
  returns at once (`FenceResetFails = TRUE` violates `SynchronizedIsDone`).

### Bounds

`Generation_decode`: prompts of length 0 to 6 with chunks of two, so prompts
take zero to two passes and end in chunks of one and two tokens; a limit of five
positions and up to three new tokens, so that prompt + completion lies below, at and
above the limit; two calls, so that a call follows a successful, a rejected and
a failed one. Passes of three and more tokens, where the conv taps are replaced,
are covered by the proof. `Generation_speculative`: three drafts, a budget of
five and a limit of seven, so that rounds are cut by the budget, the cache and
both; an arena of two rows, so that the verification overflows. The code checks the
prompt's length and the budget twice (`validate_tokens`, then `prefill_prompt`
and the loop), and the model keeps both; the second check never fires.
`HttpServer_*`: two workers, two or three
clients and a queue of one, so that the queue is empty, full and contended, and
one or two starts.
`Tokenizer_encode`: five calls (`Texts`): one of five files or an empty buffer, or a fixed
text; any text of up to three of twelve characters; a second file; and twice a text whose
pieces are in the cache of the first, these two calls beside two more threads with two
pieces to merge (`Others`, `OtherPieces`; before the fourth call nobody else is in
`encode`, which keeps the many texts of the second apart from the threads); `EmptyLoads`
are the calls that may be a load of an empty buffer. Three characters, one of them a special token by itself, reach every branch of the splitter
and every overlap of the special tokens, the longer fixed texts the merges of merges. `ChatRequest_admission`: up to
three messages of every role, with texts, tool responses and image parts, every
combination of parameters around its limits, images of every size around the limits,
forms of up to two parts, and up to two templates. `Artifact_crash`: two sections of
up to two cells at an alignment of two, two writes, one fault and three reads, so
that a damaged file is opened, validated and read, and a reader outlives a rewrite.
`EngineLoad_twice`: two layers, one of each type or both linear, thirty-odd artifacts with one
deviation each, configurations that stop the device's memory at each kind of
allocation, two loads. `CommandList_replay`: two wrappers, two creations and
recordings of two commands, so that a list is moved, assigned over, replayed and
waited for on another object than it was executed on; with three creations nothing
but another released number is added.
`OutputRouting_split`: five tokens of eight kinds, enough for a spelled block with
content, for nested halves of tags, and for text before and after a block.

Deadlock checking is off where the system may rest: OutputRouting and ChatRequest
model one call, the server may have used every client and be stopped, and the
calls of Tokenizer, EngineLoad, Artifact and CommandList are bounded. Workers and
clients are symmetric in the safety run.

### Fairness

`Generation!FairSpec`: `generate` runs on one thread, so weak fairness of its
own steps; device exceptions are never required. `HttpServer!FairSpec`: weak fairness
per thread. This assumes what the code bounds or a client does: `recv` ends by
`SO_RCVTIMEO`, `generate` returns (checked in Generation), and `send` ends because the
client reads. The last one is not enforced by the code: `send` has no timeout.
`OutputRouting!FairSpec`: the post-processing is straight-line code.
`Tokenizer!FairSpec`: a call of `encode` waits for nobody, so the steps of the thread that
makes it go on; nothing is assumed of the other threads, and nothing makes a
caller call it. `CommandList!FairSpec`: the device works through its queues and a
woken host thread returns; the user owes nothing.
Mutexes need no strong fairness in these instances because the work is finite.

## Proofs

All theorems hold for every value of the constants that satisfies the named
assumptions (`KVCacheAssumption`, `GenerationAssumption`, `ServerAssumption`,
`OutputRoutingAssumption`, `TokenizerAssumption`, `TemplateAssumption`,
`BodyAssumption`, `RequestAssumption`, `ArtifactAssumption`, `WeightsAssumption`,
`LoadAssumption`, `CommandListAssumption`),
which TLC evaluates in the runs. A theorem with a further hypothesis says so below,
with the reason: under what it excludes the property is false.

* `Generation_proofs`, on the cache: the operators of KVCache keep their types;
  `TapsShift`: the three-way tap shift equals the last three tokens of the
  concatenation; `PassExtendsContext`: a pass right after history h leaves the context
  of h followed by its tokens.
* `Generation_proofs`, on `generate`: `GenInv` = types, `Accounting` and `LengthMeansBudgetSpent`.
  `Accounting` ties the cache length, the tokens emitted, the pending tokens and
  the budget together at every program point; without it neither `PassFits` nor
  the budget property is inductive, since both depend on how many tokens the
  current round may still emit. From it: `GenTypeCorrect`, `PassesFit`,
  `LengthIsBudget` and `CatchResets`, with and without speculation. `CacheExact` adds
  that at each program point the three views of the cache agree with the history;
  with `DraftN = 0` it is inductive by `PassExtendsContext` and gives `SampledExactly`
  and `CacheAlwaysCovers`. The same invariant carries the refinement
  `GenerateRefinesRecompute`: one lemma per kind of step shows that it maps to a
  step of RecomputeDecode or to a stutter (a chunk of the prefill that is not the last,
  the loop's tests), the sampling steps to `Ask` with exactly the history. With
  speculation these three are false (Generation_spec_context).
* `HttpServer_proofs`: `ServerInv` = types, which program points hold a lock or
  a socket (`HoldingPoints`), which threads can still run after a join
  (`JoinedThreads`), `SocketsHaveOneOwner` and `NoSocketLost`. From it
  `OneOwner`, `OneGenerate` and, when nothing throws early, `CleanStop`. `Replies`
  adds what has been sent on a connection at each program point of the worker that
  owns it; it needs ownership, since only the owner may add to a response, and gives
  `StreamsEnd` when `generate` does not throw (`~EngineMayThrow`).
  `TypeOK` of server and routing is part of these invariants and proved, not run.
* `OutputRouting_proofs`: `RoutingInv` = types, `NothingYet` (no text before the
  first token, what the early returns rely on) and `NoCloseTagLeaks`. `FindFacts`
  rests on the least-number principle; `TrimKeepsOut` shows that trimming joins
  nothing. `StrayLoopShrinks` bounds the loop over stray tags. `StreamInv` adds that a
  failed send ends the tokens, and with it `StreamIsComplete`: `OrdinaryAppend` says
  how the number of ordinary tokens grows with one token. `SplitInv` compares the
  completion with the reference at each phase: while tokens come, with tags as tokens the
  two texts so far are those selected and `in_thinking` is whether the next position is
  inside; with tags spelled out all is still in the text; after the extraction the text
  is right but for at most one closing tag. `SelectedAppend` and `SelectedRanges` say
  what the reference selects when a token is added and from ranges of positions;
  `ClosedSplit`, `OpenSplit` and `NoBlock` are the places the tags of one block can have.
  `CompletionIsSplit` has no hypothesis on the prompt, whose blocks the reference does
  not count.
* `CommandList_proofs`: `ObjectInv` says which handles an object has at each stage of
  its creation, that no two wrappers have the same number, and that exactly the
  handles some wrapper holds are live; with `Busy` (a call that waits for the driver
  is on an object that has a list) it gives `OneOwner`, whether fences fail or not.
  `ListInv` ties `pending`, the queue and the fence of one number together: a queue
  holds at most the one submission the user has not synchronized with, of a closed
  list whose fence is not signaled. It is inductive only if resetting the fence
  succeeds (`~FenceResetFails`), and gives
  `NoListTouchedInFlight` and `SynchronizeWaits`.
* `EngineLoad_proofs`: `Order` says, at each step of `load()`, which members are of
  the running load and which of an earlier one. Each property adds its own part:
  `Ledger` (what nobody holds is free, and a model's blocks are those it has recorded;
  `NoAllocationIsLeaked`), `Ready` (after a successful load the five parts are of that load, and with
  speculation the draft context too; without, it is of none or of an earlier one;
  `LoadedMeansReady`), `Texts` (no later step replaces
  what the artifact carried; `ArtifactTextsWin`), `Built` (what the layers so far need
  has been read or is in the list still to be read; `ModelsAreComplete`) and `Fits`
  (`CacheHasEveryLayer`). They hold for any number of loads, layers and artifacts.
* `Artifact_proofs`: `WriterInv` describes a file under construction cell by cell;
  `VersionsInv` keeps that of every file finished so far (`FilesRoundTrip`), `CrashInv`
  that a file which is not complete has a total size in its header that is not its
  size (`TornFilesAreRefused`). `FaultInv` says that a damaged file differs from a
  finished one in one cell, `OpenInv` and `ReadInv` relate what a reader holds to a
  finished file. `ValidationIsSound` and
  `ReadsAreWritten` assume `SingleFault`: at most one fault, and a damaged
  cell that reads as a footer has the fields of one. With two faults a cell damaged before `open()` and restored
  before `validate_checksum` passes the checksum while the reader holds the damaged
  copy.
* `ChatRequest_proofs`: `FlattenSeqType` shows that the loops of the parsers yield
  sequences of what they append; the recursion of `FlattenSeq` is shown to have a
  solution, and its values to be typed, by the least-number principle. From it what
  `ParseRequest` and `ParseForm` accept is a request with checkable images and a
  positive `int` budget (`IsRequest`). `AdmissionInv` says what has been checked at
  each stage of `handle_client`, and gives `AdmissionIsSound`; `TemplateInv` gives
  `OneTemplate`; `RequestTypeCorrect` is the type invariant. `RenderInv` says that the
  request is the one of the JSON text (`FromJson`) and the prompt the one rendered from
  its messages; the template cannot change any more by then. What a prompt is like is
  then shown of `Render` for a conversation of any length. For the turns, a text is a
  `Segment` when the count of open turns walks within 0 and 1 through it, from one
  value to another, and its turns have given roles; segments can be put one behind
  another, each message contributes one, and a row of tool messages leaves its turn
  open between them (`OpenAfter`): the whole prompt is a segment from 0 to 1 with the
  roles of the conversation (`TurnsAreMessages`). For the images, the recursion of
  `ContentOf` writes one tag for each image it collects (`ContentTags`), trimming loses
  no tag, and expansion makes `Patches` pads of each, so that the pads of the
  prompt are those of all images of all messages (`ImagesArePads`). Their hypotheses
  are necessary: neither the parsers nor `render` escape anything, so a text that
  holds `<|im_start|>` itself opens a turn (`NoLiteralMarker`), one that holds `<image>` or a
  pad adds pads without an image, and an image in the system message, whose text is not
  expanded, gets none (`NoLiteralTag`).
* `Tokenizer_proofs`: `TokInv` = types (`TokenizerTypes`). The recursive functions of
  the model (`ScanFrom`, `PairAt`, the digits and letters ahead) go through a sequence
  from one end, and the least-number principle replaces induction: a claim about
  them that failed would fail at a first or last position, where it follows from its
  neighbour. Each `Split*` action is shown to end its piece where the regular
  expression's first matching alternative does (`SplitterIsTheRegex`). `MergeInv`: the
  ranks are those of a trained table, and the word at hand and every cached word have
  the reference's result (`MergesAreBytePairs`); all occurrences of the best pair may be
  merged at once because a merge makes no better pair. `OthersMerge`,
  `OthersAtoms` and `OthersSpell` say the same of the words in the hands of the other
  threads: what one of them inserts, another may read. The number of threads is arbitrary. `SpecialInv`: the
  special ids emitted so far, followed by those of the text from `pos` on, are those of
  the whole text (`SpecialsAreCutOut`), whatever the order of equal lengths. For the round
  trip `SpellInv` says that the pieces of a segment lie one behind another up to the
  cursor and that a word, cached or not, spells its piece, and `DecodeInv` what is still
  owed at each program point: the bytes decoded so far, those left of the segment and
  those of the text from `pos` on are the bytes of the text (`DecodeGivesTheText`).
  These were checked by TLC as invariants before they were proved.

Only model-checked: liveness (`GenerateReturns`, `StopReturns`, `AcceptedIsClosed`,
`PostProcessEnds`, `EncodeReturns`, `SynchronizeReturns`), which the prover does not
handle. Every invariant and every action property of the passing runs is a theorem.

## Not modelled

Floating-point kernels and INT4/INT8 numerics (out of TLC's reach); the FP16 and
INT8 caches hold the same rows. Vision input to the forward pass, which no public call
passes (there `d_all_visual_indices` is allocated from the arena that the first chunk
resets). The scanners of JSON, HTTP headers and base64, and the text of responses: the
models start from what they recognise. The generated Unicode table, beyond the
categories. Graph capture, beyond whether it succeeded. Byte offsets and alignment in
the device arena, whose sums could wrap only for requests near the width of `size_t`.
Process signals and partial sends. Logging and timing. The command-line program,
which parses arguments around one call of `load` and `generate`, and the tools that
measure and compare.

## Plan

1. Service: HttpServer composed with the promise of Generation.
