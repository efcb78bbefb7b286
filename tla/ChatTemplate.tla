---------------------------- MODULE ChatTemplate ----------------------------
(* QwenChatTemplate (src/src/targets/qwen3_8/chat_template.cpp): extracting the  *)
(* parameters of a Jinja template, and rendering a conversation to a prompt.     *)
(* A text is a sequence of atoms: words, white space, the tags the renderer      *)
(* looks for. A prompt is a sequence of symbols, without the line breaks around  *)
(* the markers. The empty prompt is what render() returns for an error.          *)
EXTENDS Integers, Sequences, FiniteSets, SequencesExt

CONSTANTS
  Patches,      \* options.patches_per_image
  Templates     \* the non-empty templates load_from_string() may get

VARIABLES
  is_loaded,
  effort,         \* default_reasoning_effort_
  instructions,   \* reasoning_instructions_
  raw_template

templateVars == <<is_loaded, effort, instructions, raw_template>>

Missing == "missing"
Efforts == {"xhigh", "medium", "low"}

\* A template shows whether every structural marker occurs in it, and for each
\* pattern what is found there.
TemplateType ==
  [markers : BOOLEAN, effort : Efforts \cup {"other", Missing},
   xhigh : STRING, low : STRING, medium : STRING]

ASSUME TemplateAssumption == Patches \in Nat /\ Templates \subseteq TemplateType

NoTemplate == [markers |-> FALSE, effort |-> Missing, xhigh |-> Missing,
               low |-> Missing, medium |-> Missing]

-----------------------------------------------------------------------------
(* load_from_string and parse_template *)

DefaultEffort == "xhigh"

\* init_defaults() writes the three entries.
DefaultInstructions == [e \in Efforts |-> IF e = "medium" THEN "" ELSE "default " \o e]

InitTemplate ==
  /\ is_loaded = FALSE
  /\ effort = DefaultEffort
  /\ instructions = DefaultInstructions
  /\ raw_template = NoTemplate

ParsesEffort(t) == t.effort \in Efforts

Parses(t) == t.markers /\ ParsesEffort(t) /\ t.xhigh # Missing /\ t.low # Missing

\* The instruction for medium is optional.
Extracted(t) ==
  [xhigh |-> t.xhigh, low |-> t.low,
   medium |-> IF t.medium = Missing THEN "" ELSE t.medium]

\* Mutant: a failed load keeps the parameters of the one before.
LoadKeepsOld(t) ==
  /\ raw_template' = t
  /\ is_loaded' = Parses(t)
  /\ effort' = IF Parses(t) THEN t.effort ELSE effort
  /\ instructions' = IF Parses(t) THEN Extracted(t) ELSE instructions

LoadFromString(t) ==
  /\ raw_template' = t
  /\ is_loaded' = Parses(t)
  /\ effort' = IF Parses(t) THEN t.effort ELSE DefaultEffort
  /\ instructions' = IF Parses(t) THEN Extracted(t) ELSE DefaultInstructions

\* An empty template, or a file that cannot be opened, is refused before anything
\* is cleared.
LoadEmpty == UNCHANGED templateVars

-----------------------------------------------------------------------------
(* render *)

\* trim_whitespace
Trim(text) ==
  LET solid == {i \in DOMAIN text : text[i] # "space"}
  IN IF solid = {} THEN <<>>
     ELSE SubSeq(text, CHOOSE i \in solid : \A j \in solid : i <= j,
                       CHOOSE i \in solid : \A j \in solid : j <= i)

\* Mutant: only the first tag of a text is expanded.
ExpandFirstTag(text) ==
  FlattenSeq([i \in DOMAIN text |->
    IF text[i] = "<image>" /\ \A j \in 1..(i - 1) : text[j] # "<image>"
    THEN [p \in 1..Patches |-> "pad"] ELSE <<text[i]>>])

\* expand_image_tags
ExpandImageTags(text) ==
  FlattenSeq([i \in DOMAIN text |->
    IF text[i] = "<image>" /\ Patches > 0 THEN [p \in 1..Patches |-> "pad"] ELSE <<text[i]>>])

IsToolResponse(text) ==
  /\ text # <<>>
  /\ text[1] = "<tool_response>" /\ text[Len(text)] = "</tool_response>"

Queries(messages) ==
  {i \in DOMAIN messages :
     messages[i].role = "user" /\ ~ IsToolResponse(Trim(messages[i].content))}

LastQuery(messages) ==
  CHOOSE i \in Queries(messages) : \A j \in Queries(messages) : j <= i

Accepts(messages, options) ==
  /\ messages # <<>>
  /\ \A i \in 2..Len(messages) : messages[i].role # "system"
  /\ Queries(messages) # {}
  /\ options.effort \in Efforts \cup {""}
  /\ \A i \in DOMAIN messages : messages[i].role \in {"system", "user", "assistant", "tool"}

Instruction(options) ==
  IF options.thinking
  THEN instructions[IF options.effort = "" THEN effort ELSE options.effort] ELSE ""

Turn(role, body) == <<"<|im_start|>", role>> \o body \o <<"<|im_end|>">>

\* The content of the system message is not expanded.
SystemBlock(messages, options) ==
  LET content == IF messages[1].role = "system" THEN Trim(messages[1].content) ELSE <<>>
      head == IF Instruction(options) = "" THEN <<>> ELSE <<Instruction(options)>>
  IN IF head \o content = <<>> THEN <<>> ELSE Turn("system", head \o content)

AssistantBody(messages, i, options, content) ==
  IF options.preserve \/ i > LastQuery(messages)
  THEN <<"<think>">> \o Trim(messages[i].reasoning) \o <<"</think>">> \o content
  ELSE content

IsTool(messages, i) == i \in DOMAIN messages /\ messages[i].role = "tool"

\* Mutant: every tool message is a turn of its own.
UngroupedToolBlock(messages, i, content) ==
  Turn("user", <<"<tool_response>">> \o content \o <<"</tool_response>">>)

\* Consecutive tool messages share one user turn. A tool message that comes first
\* opens none.
ToolBlock(messages, i, content) ==
  (IF i > 1 /\ ~ IsTool(messages, i - 1) THEN <<"<|im_start|>", "user">> ELSE <<>>)
  \o <<"<tool_response>">> \o content \o <<"</tool_response>">>
  \o (IF IsTool(messages, i + 1) THEN <<>> ELSE <<"<|im_end|>">>)

MessageBlock(messages, i, options) ==
  LET content == ExpandImageTags(Trim(messages[i].content))
  IN CASE messages[i].role = "system" -> <<>>
       [] messages[i].role = "user" -> Turn("user", content)
       [] messages[i].role = "assistant" ->
            Turn("assistant", AssistantBody(messages, i, options, content))
       [] messages[i].role = "tool" -> ToolBlock(messages, i, content)

GenerationPrompt(options) ==
  IF ~ options.generation THEN <<>>
  ELSE <<"<|im_start|>", "assistant", "<think>">>
       \o IF options.thinking THEN <<>> ELSE <<"</think>">>

\* The return value of render(); the message it leaves in *error_msg is dropped by
\* every caller.
Render(messages, options) ==
  IF ~ Accepts(messages, options) THEN <<>>
  ELSE SystemBlock(messages, options)
       \o FlattenSeq([i \in DOMAIN messages |-> MessageBlock(messages, i, options)])
       \o GenerationPrompt(options)

\* ChatTemplateOptions{}, the only options the engine passes.
DefaultOptions == [generation |-> TRUE, thinking |-> TRUE, preserve |-> TRUE, effort |-> ""]

-----------------------------------------------------------------------------
(* Properties of the loaded parameters *)

\* The parameters in use belong together: those of the template loaded last, or, when
\* it failed to parse, the built-in ones; never a part of an earlier template.
ParametersOfOneTemplate ==
  \/ is_loaded /\ effort = raw_template.effort /\ instructions = Extracted(raw_template)
  \/ ~ is_loaded /\ effort = DefaultEffort /\ instructions = DefaultInstructions
=============================================================================
