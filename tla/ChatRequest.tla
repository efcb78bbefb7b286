----------------------------- MODULE ChatRequest -----------------------------
(* The way of a POST /v1/chat/completions from its body to Engine::generate:      *)
(* parsing (src/src/serve/protocol.cpp), the checks of HttpServer::handle_client  *)
(* (src/src/serve/server.cpp) in their order, and the chat template. One request  *)
(* at a time: everything here is local to the thread of the connection except the *)
(* template, which only Engine::load writes.                                      *)
(* A request body is a JSON value or a list of form parts; numbers are integers   *)
(* (max_tokens), or one of the classes the checks tell apart (temperature, top_p);*)
(* a "messages" that is missing or no array is an empty one.                      *)
EXTENDS ChatTemplate

CONSTANTS
  Bodies,       \* the request bodies
  IntMax,       \* the largest int
  MaxSeqLen,    \* Engine::max_seq_len()
  DefaultMaxTokens,
  MaxResolution, MaxAspect,   \* 1024 and 4
  MaxLoads      \* bound: the templates loaded before the server starts

\* The formats whose header gives a size; an empty url and one that is no base64 are
\* formats too.
Readable == {"png", "bmp", "jpeg"}
ImageType == [format : Readable, width : Int, height : Int] \cup [format : STRING \ Readable]

\* A part of a message and an item of "messages"; a text is a sequence of atoms.
PartType ==
  [type : {"text"}, text : Seq(STRING)] \cup [type : {"image_url"}, url : ImageType]
  \cup [type : STRING \ {"text", "image_url"}]
NotObject == [not_object |-> TRUE]
ItemType ==
  [role : STRING, content : Seq(STRING)] \cup [role : STRING, parts : Seq(PartType)]
  \cup {NotObject}

MaxTokensType == [type : {"number"}, value : Int] \cup [type : STRING \ {"number"}]
JsonType ==
  [type : {"object"}, messages : Seq(ItemType), max_tokens : MaxTokensType,
   temperature : STRING, top_p : STRING, stream : BOOLEAN]
  \cup [type : STRING \ {"object"}]

\* The names under which a form carries the JSON text, in the order they are tried.
JsonNames == <<"messages", "json", "request">>

HasImage(part) == part.name \in {"image", "file"} \/ part.type = "image/*"

\* What a form part holds is what is read from it.
IsFormPart(p) ==
  /\ (\E k \in DOMAIN JsonNames : p.name = JsonNames[k]) => p.json \in JsonType
  /\ p.name = "prompt" => p.text \in Seq(STRING)
  /\ HasImage(p) => p.image \in ImageType

IsForm(form) ==
  /\ Len(form.parts) \in Nat
  /\ form.parts = [i \in 1..Len(form.parts) |-> form.parts[i]]
  /\ \A i \in 1..Len(form.parts) : IsFormPart(form.parts[i])

ASSUME BodyAssumption ==
  \A b \in Bodies : IF "json" \in DOMAIN b THEN b.json \in JsonType ELSE IsForm(b.form)

ASSUME RequestAssumption ==
  /\ IntMax \in Nat /\ MaxSeqLen \in Nat /\ DefaultMaxTokens \in 1..IntMax
  /\ MaxResolution \in Nat /\ MaxAspect \in Nat /\ MaxLoads \in Nat

VARIABLES
  stage,      \* where handle_client is
  body,
  req,        \* ChatCompletionRequest
  checked,    \* how many of req.images passed
  prompt,
  response,   \* [status, code] of the first line sent, or None
  loads

requestVars == <<stage, body, req, checked, prompt, response>>
vars == <<templateVars, requestVars, loads>>

NoBody == [none |-> TRUE]
None == [status |-> 0, code |-> ""]
EmptyRequest ==
  [messages |-> <<>>, images |-> <<>>, max_tokens |-> DefaultMaxTokens,
   temperature |-> "zero", top_p |-> "one", stream |-> FALSE]

-----------------------------------------------------------------------------
(* parse_chat_completion_request *)

Absent == "absent"

\* static_cast<int>(double): outside of int the result is undefined; the builds give
\* the smallest int, or the low bits of the 64-bit conversion.
ToInt(n) ==
  IF n <= IntMax THEN {n}
  ELSE {-IntMax - 1, ((n + IntMax + 1) % (2 * (IntMax + 1))) - IntMax - 1}

\* get_double falls back on a value that is no number; the cast to float rounds.
Temperature(t) ==
  IF t \in {Absent, "string", "tiny"} THEN "zero" ELSE t
TopP(p) == IF p \in {Absent, "string", "nearly one"} THEN "one" ELSE p

\* 0 stands for every refused value.
ParseMaxTokens(n) ==
  IF n.type = Absent THEN {DefaultMaxTokens}
  ELSE IF n.type # "number" \/ n.value <= 0 THEN {0} ELSE ToInt(n.value)

\* A part that is no object, or of another type, is skipped; so is an empty url.
IsImagePart(p) == p.type = "image_url" /\ p.url.format # "empty"
IsBadImage(p) == IsImagePart(p) /\ p.url.format = "not base64"

\* An image is announced on a line of its own.
AddPart(text, p) ==
  IF p.type = "text" THEN text \o p.text
  ELSE IF ~ IsImagePart(p) THEN text
  ELSE text \o (IF text = <<>> \/ Last(text) = "space" THEN <<>> ELSE <<"space">>) \o <<"<image>">>

ContentOf(item) ==
  IF "parts" \notin DOMAIN item THEN item.content
  ELSE LET text[k \in 0..Len(item.parts)] ==
             IF k = 0 THEN <<>> ELSE AddPart(text[k - 1], item.parts[k])
       IN text[Len(item.parts)]

ImagesOf(item) ==
  IF "parts" \in DOMAIN item
  THEN FlattenSeq([i \in DOMAIN item.parts |->
                     IF IsImagePart(item.parts[i]) THEN <<item.parts[i].url>> ELSE <<>>])
  ELSE <<>>

\* The error of one item of "messages"; an image is decoded before the role is checked.
ItemError(item) ==
  IF item = NotObject THEN "invalid_message"
  ELSE IF "parts" \in DOMAIN item /\ \E i \in DOMAIN item.parts : IsBadImage(item.parts[i])
  THEN "invalid_image_base64"
  ELSE IF item.role = "" THEN "missing_role" ELSE ""

FirstError(items) ==
  LET bad == {i \in DOMAIN items : ItemError(items[i]) # ""}
  IN IF bad = {} THEN "" ELSE ItemError(items[CHOOSE i \in bad : \A j \in bad : i <= j])

ParsedMessages(items) ==
  [i \in DOMAIN items |->
     [role |-> items[i].role, content |-> ContentOf(items[i]), reasoning |-> <<>>]]

Failed(code) == [code |-> code, req |-> EmptyRequest]

\* The results parse_chat_completion_request may give for a JSON text.
ParseRequest(json) ==
  IF json.type = "malformed" THEN {Failed("parse_error")}
  ELSE IF json.type # "object" THEN {Failed("bad_request")}
  ELSE {IF n <= 0 THEN Failed("invalid_parameter")
        ELSE IF json.messages = <<>> THEN Failed("missing_required_field")
        ELSE IF FirstError(json.messages) # "" THEN Failed(FirstError(json.messages))
        ELSE [code |-> "",
              req |-> [messages |-> ParsedMessages(json.messages),
                       images |-> FlattenSeq([i \in DOMAIN json.messages |->
                                                ImagesOf(json.messages[i])]),
                       max_tokens |-> n,
                       temperature |-> Temperature(json.temperature),
                       top_p |-> TopP(json.top_p),
                       stream |-> json.stream]]
        : n \in ParseMaxTokens(json.max_tokens)}

-----------------------------------------------------------------------------
(* parse_multipart_form_data and parse_multipart_chat_completion_request *)

\* A part without an empty line after its headers is skipped; the last one counts
\* only when a delimiter follows it.
FormParts(form) ==
  LET parts == IF form.closed THEN form.parts ELSE Front(form.parts)
  IN FlattenSeq([i \in DOMAIN parts |-> IF parts[i].headers THEN <<parts[i]>> ELSE <<>>])

FindPart(parts, names) ==
  LET named(k) == {i \in DOMAIN parts : parts[i].name = names[k]}
      known == {k \in DOMAIN names : named(k) # {}}
      k == CHOOSE n \in known : \A m \in known : n <= m
  IN IF known = {} THEN 0 ELSE CHOOSE i \in named(k) : \A j \in named(k) : i <= j

HasTag(messages) ==
  \E i \in DOMAIN messages : \E k \in DOMAIN messages[i].content :
    messages[i].content[k] = "<image>"

\* "<image>\n" is put before the first user message when no message has a tag.
AddTag(messages) ==
  LET users == {i \in DOMAIN messages : messages[i].role = "user"}
      first == CHOOSE i \in users : \A j \in users : i <= j
  IN IF HasTag(messages) \/ users = {} THEN messages
     ELSE [messages EXCEPT ![first].content = <<"<image>", "space">> \o @]

FormImages(parts) ==
  FlattenSeq([i \in DOMAIN parts |-> IF HasImage(parts[i]) THEN <<parts[i].image>> ELSE <<>>])

WithForm(parts, r) ==
  LET images == r.images \o FormImages(parts)
  IN IF r.messages = <<>> THEN Failed("missing_required_field")
     ELSE [code |-> "",
           req |-> [r EXCEPT !.images = images,
                             !.messages = IF images = <<>> THEN @ ELSE AddTag(@)]]

ParseForm(form) ==
  LET parts == FormParts(form)
      json == FindPart(parts, JsonNames)
      text == FindPart(parts, <<"prompt">>)
      user == [role |-> "user", content |-> parts[text].text, reasoning |-> <<>>]
  IN IF form.boundary # "found" THEN {Failed("multipart_parse_error")}
     ELSE IF json # 0
     THEN {IF r.code # "" THEN r ELSE WithForm(parts, r.req) : r \in ParseRequest(parts[json].json)}
     ELSE IF text # 0
     THEN {WithForm(parts, [EmptyRequest EXCEPT !.messages = <<user>>])}
     ELSE {WithForm(parts, EmptyRequest)}

-----------------------------------------------------------------------------
(* parse_image_dimensions and validate_image_dimensions *)

HeaderError(image) ==
  IF image.format \in Readable THEN "" ELSE "invalid_image_format"

\* The ratio of two lengths within the resolution is exact in float.
SizeError(image) ==
  LET long == IF image.width >= image.height THEN image.width ELSE image.height
      short == image.width + image.height - long
  IN IF long > MaxResolution THEN "image_resolution_exceeded"
     ELSE IF short <= 0 \/ long > MaxAspect * short THEN "image_aspect_ratio_exceeded"
     ELSE ""

ImageError(image) == IF HeaderError(image) # "" THEN HeaderError(image) ELSE SizeError(image)

-----------------------------------------------------------------------------
(* handle_client, from the complete body on *)

\* Each error is answered and the connection closed.
Answer(status, code) ==
  /\ response' = [status |-> status, code |-> code]
  /\ stage' = "closed"

LoadTemplate ==
  /\ stage = "load" /\ loads < MaxLoads
  /\ loads' = loads + 1
  /\ \/ \E t \in Templates : LoadFromString(t)
     \/ LoadEmpty
  /\ UNCHANGED requestVars

Receive(b) ==
  /\ stage = "load"
  /\ stage' = "parse"
  /\ body' = b
  /\ UNCHANGED <<templateVars, req, checked, prompt, response, loads>>

Parse ==
  /\ stage = "parse"
  /\ \E r \in (IF "json" \in DOMAIN body THEN ParseRequest(body.json) ELSE ParseForm(body.form)) :
       IF r.code # "" THEN Answer(400, r.code) /\ UNCHANGED req
       ELSE req' = r.req /\ stage' = "images" /\ UNCHANGED response
  /\ UNCHANGED <<templateVars, body, checked, prompt, loads>>

\* Mutant: only the first image is validated.
CheckFirstImage ==
  /\ stage = "images" /\ checked < Len(req.images)
  /\ LET error == ImageError(req.images[checked + 1])
     IN IF error # "" THEN Answer(400, error) /\ UNCHANGED checked
        ELSE checked' = Len(req.images) /\ UNCHANGED <<stage, response>>
  /\ UNCHANGED <<templateVars, body, req, prompt, loads>>

CheckImage ==
  /\ stage = "images" /\ checked < Len(req.images)
  /\ LET error == ImageError(req.images[checked + 1])
     IN IF error # "" THEN Answer(400, error) /\ UNCHANGED checked
        ELSE checked' = checked + 1 /\ UNCHANGED <<stage, response>>
  /\ UNCHANGED <<templateVars, body, req, prompt, loads>>

ParameterError ==
  IF req.max_tokens <= 0 \/ req.temperature = "negative" THEN "invalid_parameter"
  ELSE IF req.temperature # "zero" \/ req.top_p # "one" THEN "unsupported_parameter"
  ELSE ""

CheckParameters ==
  /\ stage = "images" /\ checked = Len(req.images)
  /\ IF ParameterError # "" THEN Answer(400, ParameterError)
     ELSE stage' = "template" /\ UNCHANGED response
  /\ UNCHANGED <<templateVars, body, req, checked, prompt, loads>>

\* render() throws nothing, so the 400 of the catch clause is never sent.
ApplyTemplate ==
  /\ stage = "template"
  /\ prompt' = Render(req.messages, DefaultOptions)
  /\ stage' = "context"
  /\ UNCHANGED <<templateVars, body, req, checked, response, loads>>

CountTokens(p) == Len(p)

ValidateTokens(tokens, max_new) == max_new > 0 /\ tokens + max_new <= MaxSeqLen

CheckContext ==
  /\ stage = "context"
  /\ IF ~ ValidateTokens(CountTokens(prompt), req.max_tokens)
     THEN Answer(400, "context_length_exceeded")
     ELSE stage' = "generate" /\ UNCHANGED response
  /\ UNCHANGED <<templateVars, body, req, checked, prompt, loads>>

\* generate() refuses an empty prompt, which a stream learns after its header.
Generate ==
  /\ stage = "generate"
  /\ IF req.stream \/ prompt # <<>> THEN Answer(200, "") ELSE Answer(400, "empty_prompt")
  /\ UNCHANGED <<templateVars, body, req, checked, prompt, loads>>

Init ==
  /\ InitTemplate /\ loads = 0
  /\ stage = "load" /\ body = NoBody /\ req = EmptyRequest
  /\ checked = 0 /\ prompt = <<>> /\ response = None

Next ==
  \/ LoadTemplate
  \/ \E b \in Bodies : Receive(b)
  \/ Parse \/ CheckImage \/ CheckParameters \/ ApplyTemplate \/ CheckContext \/ Generate

Spec == Init /\ [][Next]_vars
-----------------------------------------------------------------------------
(* Properties *)

\* Type invariant.
TypeOK ==
  /\ is_loaded \in BOOLEAN /\ effort \in Efforts /\ DOMAIN instructions = Efforts
  /\ stage \in {"load", "parse", "images", "template", "context", "generate", "closed"}
  /\ req.max_tokens \in 1..IntMax
  /\ checked \in 0..Len(req.images)
  /\ response.status \in {0, 200, 400}
  /\ loads \in 0..MaxLoads

InBounds(image) ==
  /\ image.width \in 1..MaxResolution /\ image.height \in 1..MaxResolution
  /\ image.width <= MaxAspect * image.height /\ image.height <= MaxAspect * image.width

\* What reaches the engine is servable, whatever path parsed it: every image is within
\* the bounds, decoding is greedy, and prompt and completion fit in the context
\* together, also when max_tokens came out of an undefined conversion.
AdmittedIsServable ==
  stage = "generate" =>
    /\ \A i \in DOMAIN req.images : InBounds(req.images[i])
    /\ req.temperature = "zero" /\ req.top_p = "one"
    /\ req.max_tokens > 0 /\ Len(prompt) + req.max_tokens <= MaxSeqLen

Markers == {"<|im_start|>", "<|im_end|>"}

Starts(p) == {i \in DOMAIN p : p[i] = "<|im_start|>"}
Ends(p) == {i \in DOMAIN p : p[i] = "<|im_end|>"}

\* The text names none of the symbols.
Lacks(text, symbols) == \A k \in DOMAIN text : text[k] \notin symbols

\* Between two turn starts there is exactly one turn end.
Alternates(p) ==
  \A i \in DOMAIN p :
    Cardinality(Ends(p) \cap 1..i) \in
      {Cardinality(Starts(p) \cap 1..i) - 1, Cardinality(Starts(p) \cap 1..i)}

TurnRoles(p) ==
  FlattenSeq([i \in DOMAIN p |-> IF p[i] = "<|im_start|>" THEN <<p[i + 1]>> ELSE <<>>])

\* The roles of the turns that message i opens: tools are users, and a row of them one.
ExpectedRole(messages, i) ==
  IF messages[i].role = "system" \/ (IsTool(messages, i) /\ IsTool(messages, i - 1)) THEN <<>>
  ELSE IF IsTool(messages, i) THEN <<"user">> ELSE <<messages[i].role>>

ExpectedRoles(messages) ==
  (IF SystemBlock(messages, DefaultOptions) = <<>> THEN <<>> ELSE <<"system">>)
  \o FlattenSeq([i \in DOMAIN messages |-> ExpectedRole(messages, i)])
  \o <<"assistant">>

NoLiteralMarker ==
  /\ Instruction(DefaultOptions) \notin Markers
  /\ \A i \in DOMAIN req.messages : Lacks(req.messages[i].content, Markers)

\* The prompt of a conversation that does not begin with a tool message, and whose texts
\* hold no marker of a turn themselves, is a row of closed turns, one for each message
\* or row of tool messages and in their order, followed by the open turn of the assistant.
TurnsFollowMessages ==
  /\ stage \in {"context", "generate"} /\ prompt # <<>>
  /\ req.messages[1].role # "tool" /\ NoLiteralMarker
  => /\ Alternates(prompt)
     /\ Cardinality(Starts(prompt)) = Cardinality(Ends(prompt)) + 1
     /\ TurnRoles(prompt) = ExpectedRoles(req.messages)

Tags == {"<image>", "pad"}

NoLiteralTag(json) ==
  /\ Instruction(DefaultOptions) \notin Tags
  /\ \A i \in DOMAIN json.messages :
       LET item == json.messages[i]
       IN IF "parts" \in DOMAIN item
          THEN /\ item.role = "system" => ImagesOf(item) = <<>>
               /\ \A k \in DOMAIN item.parts :
                    item.parts[k].type = "text" => Lacks(item.parts[k].text, Tags)
          ELSE Lacks(item.content, Tags)

\* Every image of a JSON request whose texts name no "<image>" and no patch token
\* themselves, and whose system message has no image, stands in the prompt as one run of
\* patch tokens, where the validated image is counted once: the images and the pads the
\* vision path would fill agree.
ImagesBecomePads ==
  stage = "generate" /\ "json" \in DOMAIN body /\ prompt # <<>> /\ NoLiteralTag(body.json) =>
    /\ checked = Len(req.images)
    /\ Cardinality({i \in DOMAIN prompt : prompt[i] = "pad"}) = Patches * checked
=============================================================================
