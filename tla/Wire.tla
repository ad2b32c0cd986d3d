-------------------------------- MODULE Wire --------------------------------
(* The conversions a conversation goes through: the canonical messages of
   providers/wire.rs, what each provider sends for them and makes of a
   response, and the rows of ask._messages they are kept in.  A text is empty
   or not, an id is what its provider put into it, and a wire message is its
   role with its parts; JSON, URLs, headers and arguments are left out. *)
EXTENDS Naturals, Sequences, FiniteSets

CONSTANTS Null, Tools, DefaultTool

Providers == {"anthropic", "openai", "gemini"}

Text == {"", "text"}

\* An id has the function's name if Gemini's translation made it
\* ("name::call_idx"), and where the call stood.
CallId == [name : Tools \cup {Null}, at : Nat \X Nat]
ToolCall == [id : CallId, name : Tools]

ASSUME WireAssumption ==
  /\ DefaultTool \in Tools
  /\ Null \notin Tools \cup Text
  /\ Null \notin Seq(ToolCall)

-----------------------------------------------------------------------------
(* Canonical messages. *)

User(t) == [role |-> "user", text |-> t]
Assistant(t) == [role |-> "assistant", text |-> t]
Calling(t, cs) == [role |-> "assistant", text |-> t, calls |-> cs]
Result(id, err) == [role |-> "tool", id |-> id, err |-> err]

Calls(m) == "calls" \in DOMAIN m

NonEmpty(t) == IF t = "" THEN Null ELSE t
OrEmpty(t) == IF t = Null THEN "" ELSE t

-----------------------------------------------------------------------------
(* Requests. *)

Said(t) == [type |-> "text", text |-> t]
Call(key) == [type |-> "call", key |-> key]
Answer(key, err) == [type |-> "answer", key |-> key, err |-> err]

Wired(role, parts) == [role |-> role, parts |-> parts]

\* The text of a turn with calls is a part of its own, when there is one.
Optional(t) == IF t \in {"", Null} THEN <<>> ELSE <<Said(t)>>

AnthropicMessage(m) ==
  CASE m.role = "tool" -> Wired("user", <<Answer(m.id, m.err)>>)
    [] Calls(m) -> Wired("assistant",
         Optional(m.text) \o [i \in DOMAIN m.calls |-> Call(m.calls[i].id)])
    [] OTHER -> Wired(m.role, <<Said(m.text)>>)

OpenAiMessage(m) ==
  CASE m.role = "tool" -> Wired("tool", <<Answer(m.id, m.err)>>)
    [] Calls(m) -> Wired("assistant",
         <<Said(OrEmpty(m.text))>> \o [i \in DOMAIN m.calls |-> Call(m.calls[i].id)])
    [] OTHER -> Wired(m.role, <<Said(m.text)>>)

\* Gemini pairs by name; an id of another provider has none.
FunctionName(id) == IF id.name = Null THEN DefaultTool ELSE id.name

GeminiRole(role) == IF role = "assistant" THEN "model" ELSE "user"

GeminiMessage(m) ==
  CASE m.role = "tool" -> Wired("user", <<Answer(FunctionName(m.id), m.err)>>)
    [] Calls(m) -> Wired("model",
         Optional(m.text) \o [i \in DOMAIN m.calls |-> Call(m.calls[i].name)])
    [] OTHER -> Wired(GeminiRole(m.role), <<Said(m.text)>>)

AnthropicRequest(history) == [i \in DOMAIN history |-> AnthropicMessage(history[i])]

\* The system prompt is a message here; elsewhere it has a field of its own.
OpenAiRequest(history) ==
  <<Wired("system", <<Said("text")>>)>>
    \o [i \in DOMAIN history |-> OpenAiMessage(history[i])]

GeminiRequest(history) == [i \in DOMAIN history |-> GeminiMessage(history[i])]

\* The messages of a request.
Request(p, history) ==
  CASE p = "anthropic" -> AnthropicRequest(history)
    [] p = "openai" -> OpenAiRequest(history)
    [] p = "gemini" -> GeminiRequest(history)

-----------------------------------------------------------------------------
(* Responses: [parts, stop], where a part is a text or the call of a tool and
   stop says whether the provider names tool use as the reason it stopped. *)

Part == [type : {"text"}, text : Text] \cup [type : {"call"}, name : Tools]

\* Where the parts of a type are, and where the texts that are not empty.
At(parts, type) == {i \in DOMAIN parts : parts[i].type = type}
Texts(parts) == {i \in At(parts, "text") : parts[i].text # ""}

\* The elements of a finite set of numbers, the least first.
InOrder(S) ==
  CHOOSE s \in [1..Cardinality(S) -> S] : \A i, j \in DOMAIN s : i < j => s[i] < s[j]

Joined(parts, at) ==
  CASE at = {} -> Null
    [] Cardinality(at) = 1 -> parts[CHOOSE i \in at : TRUE].text
    [] OTHER -> "text"

\* The calls among the parts, the one at i with ids[i].
CallsIn(parts, ids) ==
  LET at == InOrder(At(parts, "call"))
  IN  [k \in DOMAIN at |-> [id |-> ids[at[k]], name |-> parts[at[k]].name]]

Final(t) == [kind |-> "final", text |-> t]
ToolCalls(t, cs) == [kind |-> "calls", text |-> t, calls |-> cs]
Empty == [kind |-> "empty"]

FinalOrEmpty(t) == IF t = Null THEN Empty ELSE Final(t)

\* An id that the provider issues is new; n numbers the messages.
IssuedIds(parts, n) == [i \in At(parts, "call") |-> [name |-> Null, at |-> <<n, i>>]]

AnthropicResponse(r, n) ==
  LET text == Joined(r.parts, At(r.parts, "text"))
      calls == CallsIn(r.parts, IssuedIds(r.parts, n))
  IN  IF calls # <<>> \/ r.stop THEN ToolCalls(text, calls) ELSE FinalOrEmpty(text)

OpenAiResponse(r, n) ==
  LET text == NonEmpty(Joined(r.parts, At(r.parts, "text")))
      calls == CallsIn(r.parts, IssuedIds(r.parts, n))
  IN  IF calls = <<>> /\ ~r.stop THEN FinalOrEmpty(text) ELSE ToolCalls(text, calls)

\* Mutant: an id without the position of its call.
GeminiIdsByName(parts) ==
  [i \in At(parts, "call") |-> [name |-> parts[i].name, at |-> <<0, 0>>]]

\* Gemini has no ids: the function's name and the part's index make one.
GeminiIds(parts) ==
  [i \in At(parts, "call") |-> [name |-> parts[i].name, at |-> <<0, i - 1>>]]

GeminiResponse(r) ==
  LET text == Joined(r.parts, Texts(r.parts))
      calls == CallsIn(r.parts, GeminiIds(r.parts))
  IN  IF calls # <<>> THEN ToolCalls(text, calls) ELSE FinalOrEmpty(text)

Response(p, r, n) ==
  CASE p = "anthropic" -> AnthropicResponse(r, n)
    [] p = "openai" -> OpenAiResponse(r, n)
    [] p = "gemini" -> GeminiResponse(r)

-----------------------------------------------------------------------------
(* Rows of ask._messages. *)

Row(role, content, calls, id, err) ==
  [role |-> role, content |-> content, calls |-> calls, id |-> id, err |-> err]

\* Mutant: a turn is stored with its calls only if it has some.
EncodeSomeCalls(m) ==
  CASE m.role = "tool" -> Row("tool", "text", Null, m.id, m.err)
    [] Calls(m) -> Row("assistant", OrEmpty(m.text),
                       IF m.calls = <<>> THEN Null ELSE m.calls, Null, Null)
    [] OTHER -> Row(m.role, m.text, Null, Null, Null)

Encode(m) ==
  CASE m.role = "tool" -> Row("tool", "text", Null, m.id, m.err)
    [] Calls(m) -> Row("assistant", OrEmpty(m.text), m.calls, Null, Null)
    [] OTHER -> Row(m.role, m.text, Null, Null, Null)

Decode(row) ==
  CASE row.role = "tool" -> Result(row.id, row.err)
    [] row.role = "assistant" /\ row.calls # Null -> Calling(NonEmpty(row.content), row.calls)
    [] OTHER -> [role |-> row.role, text |-> row.content]

LoadHistory(rows) == [i \in DOMAIN rows |-> Decode(rows[i])]

=============================================================================
