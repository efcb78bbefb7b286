---------------------------- MODULE MC_ChatRequest ----------------------------
(* Model-checking instances of ChatRequest: conversations of up to MaxMessages    *)
(* messages of every role, requests that vary each parameter, and forms.          *)
EXTENDS ChatRequest

CONSTANT MaxMessages   \* bound: the length of the conversations

Good == [markers |-> TRUE, effort |-> "low", xhigh |-> "deep", low |-> "brief", medium |-> Missing]
Quiet == [Good EXCEPT !.effort = "medium"]
NoLow == [Good EXCEPT !.low = Missing, !.markers = FALSE]
OddEffort == [Good EXCEPT !.effort = "other", !.medium = "some"]
MCTemplates == {Good, Quiet, NoLow, OddEffort}

Image(w, h) == [format |-> "png", width |-> w, height |-> h]
Text(t) == [type |-> "text", text |-> t]
Url(u) == [type |-> "image_url", url |-> u]

Word == <<"word">>
Response == <<"space", "<tool_response>", "word", "</tool_response>">>
Contents == {Word, Response}
PartLists == {<<Text(Word), Url(Image(2, 1)), Url(Image(1, 1))>>}

Roles == {"system", "user", "assistant", "tool"}
Items ==
  [role : Roles, content : Contents] \cup [role : Roles, parts : PartLists]
OddItems ==
  {NotObject, [role |-> "", content |-> Word], [role |-> "critic", content |-> Word],
   [role |-> "", parts |-> <<Url([format |-> "not base64"])>>],
   [role |-> "user", content |-> <<"<image>", "word">>],
   [role |-> "system", content |-> <<"space">>], [role |-> "assistant", content |-> <<"space">>],
   [role |-> "user", parts |-> <<[type |-> "audio"], Url([format |-> "empty"]), Text(Word)>>]}

Json(messages, max_tokens, temperature, top_p, stream) ==
  [type |-> "object", messages |-> messages, max_tokens |-> max_tokens, temperature |-> temperature,
   top_p |-> top_p, stream |-> stream]
Number(n) == [type |-> "number", value |-> n]
Plain(messages) == Json(messages, Number(1), Absent, Absent, FALSE)
Ask == [role |-> "user", content |-> Word]
Show(w, h) == [role |-> "user", parts |-> <<Url(Image(1, 1)), Url(Image(w, h))>>]

Conversations ==
  {Plain(m) : m \in BoundedSeq(Items, MaxMessages) \cup {<<Ask, i>> : i \in OddItems}
                    \cup {<<i, Ask>> : i \in OddItems}}
Parameters ==
  {Json(<<Ask>>, n, t, p, s) :
     n \in {Number(k) : k \in {-1, 0, 1, 3, IntMax, IntMax + 1, 2 * IntMax + 4}}
             \cup {[type |-> Absent], [type |-> "string"]},
     t \in {Absent, "string", "negative", "tiny", "positive"},
     p \in {Absent, "nearly one", "half"}, s \in BOOLEAN}
Sizes ==
  {Plain(<<Show(w, h)>>) : w \in 0..(MaxResolution + 1), h \in 0..(MaxResolution + 1)}
Rejected == {Json(<<[role |-> "assistant", content |-> Word]>>, Number(1), Absent, Absent, s) : s \in BOOLEAN}

Part(name, type) == [name |-> name, type |-> type, headers |-> TRUE]
FormPart ==
  {Part("prompt", "text") @@ [text |-> Word],
   Part("json", "json") @@ [json |-> Plain(<<Ask>>)],
   Part("messages", "json") @@
     [json |-> Plain(<<[role |-> "assistant", content |-> Word], Ask>>)],
   Part("request", "json") @@ [json |-> [type |-> "malformed"]],
   Part("image", "octets") @@ [image |-> Image(1, 1)],
   Part("x", "image/*") @@ [image |-> Image(1, 3)],
   Part("file", "octets") @@ [image |-> [format |-> "gif"]],
   [Part("file", "octets") EXCEPT !.headers = FALSE] @@ [image |-> [format |-> "gif"]]}
Forms == [boundary : {"found"}, closed : BOOLEAN, parts : BoundedSeq(FormPart, 2) \ {<<>>}]
         \cup {[boundary |-> "missing", closed |-> TRUE, parts |-> <<>>]}

MCBodies ==
  {[json |-> v] :
     v \in {[type |-> "malformed"], [type |-> "array"]}
            \cup Conversations \cup Parameters \cup Sizes \cup Rejected}
  \cup {[form |-> f] : f \in Forms}
=============================================================================
