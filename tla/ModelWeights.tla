---------------------------- MODULE ModelWeights ----------------------------
(* LoadedModel::load_from_artifact (src/src/targets/qwen3_8_27b/weights.cpp) and *)
(* ModelConfig (weights.h), as operators: what the metadata must say, which      *)
(* tensors a layer needs and in which order they are read, how the type of a     *)
(* layer is determined, and the caches the model asks for.                       *)
(* A tensor is named by its position and a word. An artifact is a record of its  *)
(* sections, a function from names to the state they are in, and its metadata.   *)
EXTENDS Integers, Sequences, FiniteSets

CONSTANTS
  NumLayers,    \* num_hidden_layers
  GroupSize     \* group_size of the INT4 weights

ASSUME WeightsAssumption == NumLayers \in Nat \ {0} /\ GroupSize \in Nat \ {0}

Full == "full_attention"
Linear == "linear_attention"

\* Reading a section of the container ends in one of these; an absent section is
\* not in the domain.
SectionStates == {"whole", "wrong size", "damaged"}

-----------------------------------------------------------------------------
(* Metadata *)

\* group is the one quant_scheme names, 0 if it names none, -1 if it is no number;
\* interval is 0 if the property is missing or malformed. required and linear are
\* about the sizes every artifact must state and those it may state. The vision
\* properties are compared too, but the result is not used.
ValidMetadata(meta) ==
  /\ meta.group \in {0, GroupSize}
  /\ meta.interval > 0
  /\ meta.required = "match"
  /\ meta.linear \in {"absent", "match"}

\* A list of another length is refused, an empty one means there is none.
ValidLayerTypes(meta) == Len(meta.layer_types) \in {0, NumLayers}

IsInt8Kv(meta) == meta.int8_scheme \/ meta.int8_property

-----------------------------------------------------------------------------
(* Tensors *)

Int4(word, l) == [name |-> <<l, word>>, int4 |-> TRUE]
Float(word, l) == [name |-> <<l, word>>, int4 |-> FALSE]
Scales(name) == Append(name, "scales")

Outside == -1   \* the place of the tensors that belong to no layer

GlobalTensors ==
  <<Float("embed_tokens", Outside), Float("norm", Outside), Int4("lm_head", Outside)>>

CommonTensors(l) ==
  <<Float("input_layernorm", l), Float("post_attention_layernorm", l),
    Int4("gate_proj", l), Int4("up_proj", l), Int4("down_proj", l)>>

FullTensors(l) ==
  <<Int4("q_proj", l), Int4("k_proj", l), Int4("v_proj", l), Int4("o_proj", l),
    Float("q_norm", l), Float("k_norm", l)>>

LinearTensors(l) ==
  <<Int4("in_proj_qkv", l), Int4("in_proj_z", l), Int4("in_proj_b", l), Int4("in_proj_a", l),
    Int4("out_proj", l), Float("conv1d", l), Float("A_log", l), Float("dt_bias", l),
    Float("linear_norm", l)>>

MixerTensors(l, type) == IF type = Full THEN FullTensors(l) ELSE LinearTensors(l)

VisionTensors ==
  <<Float("patch_embed.weight", Outside), Float("patch_embed.bias", Outside),
    Float("pos_embed", Outside), Float("projector.weight", Outside),
    Float("projector.bias", Outside)>>

Readable(a, name) == name \in DOMAIN a.sections /\ a.sections[name] = "whole"

\* load_linear without the check of the scales' result.
LoadableWithoutScales(a, t) == Readable(a, t.name)

\* load_linear and load_bf16_as_fp32 return a valid view.
Loadable(a, t) == Readable(a, t.name) /\ (t.int4 => Readable(a, Scales(t.name)))

\* alloc_dev is called for the weights and for the scales.
Allocations(t) == IF t.int4 THEN 2 ELSE 1

-----------------------------------------------------------------------------
(* The type of a layer *)

ExpectedByInterval(meta, l) ==
  IF l % meta.interval = meta.interval - 1 THEN Full ELSE Linear

\* What the metadata says, the list before the interval.
StatedType(meta, l) ==
  IF l < Len(meta.layer_types) THEN meta.layer_types[l + 1] ELSE ExpectedByInterval(meta, l)

\* What the sections say, and the metadata if they say nothing or both.
DetectedType(a, l) ==
  LET full == <<l, "q_proj">> \in DOMAIN a.sections
      linear == <<l, "in_proj_qkv">> \in DOMAIN a.sections
  IN IF full /\ ~ linear THEN Full
     ELSE IF linear /\ ~ full THEN Linear
     ELSE StatedType(a.meta, l)

TypeConfirmed(a, l) == DetectedType(a, l) = StatedType(a.meta, l)

-----------------------------------------------------------------------------
(* create_kv_cache_config *)

\* Mutant: full layers are counted by the stated names.
CountedByName(types) == Cardinality({l \in DOMAIN types : types[l] # Linear})

NumFullLayers(types) == Cardinality({l \in DOMAIN types : types[l] = Full})
NumLinearLayers(types) == NumLayers - NumFullLayers(types)

CacheConfig(types, meta, use_int8) ==
  [full |-> NumFullLayers(types), linear |-> NumLinearLayers(types),
   int8 |-> use_int8 \/ IsInt8Kv(meta), declared |-> meta.int8_scheme]

\* KVCache::init throws for an INT8 cache the artifact does not declare.
CacheAllowed(cfg) == cfg.int8 => cfg.declared
=============================================================================
