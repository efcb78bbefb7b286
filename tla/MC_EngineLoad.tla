---------------------------- MODULE MC_EngineLoad ----------------------------
(* Model-checking instance of EngineLoad: a complete artifact of two layers and   *)
(* variants of it, each with one deviation.                                       *)
EXTENDS EngineLoad

Whole(types) ==
  LET layers == UNION {Names(CommonTensors(l)) \cup Names(MixerTensors(l, types[l + 1]))
                         : l \in 0..NumLayers - 1}
  IN [n \in Names(GlobalTensors) \cup layers |-> "whole"]

Meta ==
  [group |-> GroupSize, interval |-> 2, required |-> "match", linear |-> "absent",
   layer_types |-> <<>>, int8_scheme |-> FALSE, int8_property |-> FALSE, has_vision |-> FALSE]

Base ==
  [opens |-> TRUE, intact |-> TRUE, tokenizer |-> "good", template |-> "good",
   meta |-> Meta, sections |-> Whole(<<Linear, Full>>)]

Extra(a, names, state) ==
  [a EXCEPT !.sections = [n \in DOMAIN a.sections \cup names |->
                            IF n \in names THEN state ELSE a.sections[n]]]
Without(a, name) == [a EXCEPT !.sections = [n \in DOMAIN a.sections \ {name} |-> a.sections[n]]]
Torn(a, names, state) == [Extra(a, names, state) EXCEPT !.intact = state # "damaged"]

Both == Names(FullTensors(0)) \cup Names(LinearTensors(1))
Vision == Names(VisionTensors)

MetaVariants ==
  {[Meta EXCEPT !.group = g] : g \in {-1, 0, GroupSize + 1}}
  \cup {[Meta EXCEPT !.interval = i] : i \in {0, 1, 3}}
  \cup {[Meta EXCEPT !.required = "mismatch"], [Meta EXCEPT !.linear = "mismatch"],
        [Meta EXCEPT !.int8_scheme = TRUE], [Meta EXCEPT !.int8_property = TRUE],
        [Meta EXCEPT !.layer_types = <<Linear>>], [Meta EXCEPT !.layer_types = <<Full, Linear>>],
        [Meta EXCEPT !.layer_types = <<"other", Full>>], [Meta EXCEPT !.has_vision = TRUE]}

\* The layers the other way round, as a list but not as the interval has it.
Swapped == [Base EXCEPT !.sections = Whole(<<Full, Linear>>), !.meta.layer_types = <<Full, Linear>>]

\* No layer with a K/V cache.
Recurrent ==
  [Base EXCEPT !.sections = Whole(<<Linear, Linear>>), !.meta.layer_types = <<Linear, Linear>>]

SectionVariants ==
  {Without(Base, n) : n \in {<<Outside, "embed_tokens">>, <<0, "gate_proj">>, <<1, "q_proj">>,
                             <<1, "k_proj", "scales">>, <<0, "in_proj_qkv">>}}
  \cup {Torn(Base, {n}, s) : n \in {<<Outside, "lm_head", "scales">>, <<0, "conv1d">>},
                            s \in {"wrong size", "damaged"}}
  \cup {Extra(Base, Both, "whole"), Extra(Base, Vision, "whole"),
        Torn(Extra(Base, Vision, "whole"), {VisionTensors[1].name}, "wrong size"), Swapped, Recurrent,
        Extra([Base EXCEPT !.meta.layer_types = <<"other", Full>>], Both, "whole")}

SourceVariants ==
  {[Base EXCEPT !.opens = FALSE]}
  \cup {[Base EXCEPT !.tokenizer = k] : k \in {"absent", "no im_start", "no im_end", "no merges"}}
  \cup {[Base EXCEPT !.template = k] : k \in {"absent", "bad"}}

MCArtifacts ==
  {Base} \cup {[Base EXCEPT !.meta = m] : m \in MetaVariants} \cup SectionVariants \cup SourceVariants

File(kind, agrees, sibling) == [kind |-> kind, agrees |-> agrees, sibling |-> sibling]
Plain ==
  [gpu |-> TRUE, validate_checksum |-> TRUE, tokenizer |-> File("none", TRUE, "none"),
   template |-> "none", use_int8_kv |-> FALSE, speculative |-> FALSE, memory |-> Memory]

Drafting == [Plain EXCEPT !.validate_checksum = FALSE, !.speculative = TRUE]

\* The base artifact takes 44 allocations, and 54 with everything built on it: these
\* stop it in the weights, at the arena, in the cache, at either graph and at the
\* draft arena.
Scarce == {[Plain EXCEPT !.memory = m] : m \in {40, 44, 45, 46, 48}}
          \cup {[Drafting EXCEPT !.memory = m] : m \in {50, 52}}

Odd ==
  {[Plain EXCEPT !.gpu = FALSE], [Plain EXCEPT !.use_int8_kv = TRUE]}

Files ==
  {[Plain EXCEPT !.tokenizer = File("good", TRUE, "bad"), !.template = "good"],
   [Plain EXCEPT !.tokenizer = File("good", FALSE, "good")],
   [Plain EXCEPT !.tokenizer = File("no im_end", TRUE, "good")]}

MCCalls ==
  (MCArtifacts \X {Plain, Drafting})
  \cup ({Base, Extra(Base, Vision, "whole")} \X (Scarce \cup Odd))
  \cup (({Base} \cup SourceVariants) \X Files)
=============================================================================
