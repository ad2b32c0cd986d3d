------------------------------ MODULE Dialogue ------------------------------
(* What a session says to its providers: chats append turns to a stored
   history and each may use another provider; a tool call may be a recall,
   whose embedding request is retried.  One backend; who else writes to the
   session is ChatSession's subject, tools and their errors are AskCall's. *)
EXTENDS Wire

CONSTANTS
  Responses,      \* what providers respond, as [parts, stop]
  MaxIterations,  \* pg_ask.max_iterations
  MaxRetries,     \* MAX_RETRIES of the embedding clients
  MaxChats        \* bound: chats of the session

ASSUME DialogueAssumption ==
  /\ MaxIterations \in Nat \ {0}
  /\ MaxRetries \in Nat
  /\ MaxChats \in Nat
  /\ "recall" \in Tools
  /\ Responses \subseteq [parts : Seq(Part), stop : BOOLEAN]

VARIABLES
  provider,   \* pg_ask.provider, or the one the running chat was set up with
  rows,       \* ask._messages of the session
  history,    \* the history of the running chat
  prior,      \* how many of its messages were loaded
  iteration,  \* iterations of the loop so far
  pending,    \* calls of the last response that are not answered yet
  tries,      \* failed embedding requests of the running recall
  phase,      \* "idle", "asking", "calling", "recalling"
  chats,      \* bound: chats so far
  said        \* ghost: the turns of the successful chats, as the agent saw them

vars == <<provider, rows, history, prior, iteration, pending, tries, phase, chats, said>>

loopVars == <<history, prior, iteration, pending, tries>>

Phases == {"idle", "asking", "calling", "recalling"}

Init ==
  /\ provider \in Providers
  /\ rows = <<>>
  /\ history = <<>>
  /\ prior = 0
  /\ iteration = 0
  /\ pending = <<>>
  /\ tries = 0
  /\ phase = "idle"
  /\ chats = 0
  /\ said = <<>>

-----------------------------------------------------------------------------
(* The client. *)

SetProvider(p) ==
  /\ phase = "idle"
  /\ provider' = p
  /\ UNCHANGED <<rows, history, prior, iteration, pending, tries, phase, chats, said>>

\* ask.clear_session.
ClearSession ==
  /\ phase = "idle"
  /\ rows' = <<>>
  /\ said' = <<>>
  /\ UNCHANGED <<provider, history, prior, iteration, pending, tries, phase, chats>>

\* ask.chat, up to the first request.
Chat ==
  /\ phase = "idle"
  /\ chats < MaxChats
  /\ chats' = chats + 1
  /\ history' = Append(LoadHistory(rows), User("text"))
  /\ prior' = Len(rows)
  /\ iteration' = 0
  /\ phase' = "asking"
  /\ UNCHANGED <<provider, rows, pending, tries, said>>

-----------------------------------------------------------------------------
(* The loop. *)

AtRest ==
  /\ phase' = "idle"
  /\ history' = <<>>
  /\ prior' = 0
  /\ iteration' = 0
  /\ pending' = <<>>
  /\ tries' = 0

\* The chat ends with an ERROR, and nothing of it is kept.
Fail ==
  /\ AtRest
  /\ UNCHANGED <<provider, rows, chats, said>>

NewTurns(h) == SubSeq(h, prior + 1, Len(h))

\* The chat ends with the history h: its new turns are stored.
Succeed(h) ==
  /\ AtRest
  /\ said' = said \o NewTurns(h)
  /\ rows' = rows \o [i \in DOMAIN NewTurns(h) |-> Encode(NewTurns(h)[i])]
  /\ UNCHANGED <<provider, chats>>

\* Mutant: the last turn is requested without telling the model that it is.
NextRoundUntold(h) ==
  /\ history' = h
  /\ iteration' = iteration + 1
  /\ pending' = <<>>
  /\ tries' = 0
  /\ phase' = "asking"
  /\ UNCHANGED <<provider, rows, prior, chats, said>>

\* On to the next iteration, or to the last turn, which is announced.
NextRound(h) ==
  /\ history' = IF iteration + 1 = MaxIterations THEN Append(h, User("text")) ELSE h
  /\ iteration' = iteration + 1
  /\ pending' = <<>>
  /\ tries' = 0
  /\ phase' = "asking"
  /\ UNCHANGED <<provider, rows, prior, chats, said>>

\* A response without calls or final text: its text, if there is one, is the
\* answer; otherwise the model is nudged.
NoCalls(h, t) ==
  IF NonEmpty(OrEmpty(t)) # Null
  THEN Succeed(Append(h, Assistant(t)))
  ELSE NextRound(Append(h, User("text")))

Iterate(r) ==
  /\ phase = "asking"
  /\ iteration < MaxIterations
  /\ LET a == Response(provider, r, Len(history)) IN
       CASE a.kind = "empty" -> Fail
         [] a.kind = "final" -> Succeed(Append(history, Assistant(a.text)))
         [] a.kind = "calls" ->
              LET h == Append(history, Calling(a.text, a.calls)) IN
                IF a.calls = <<>>
                THEN NoCalls(h, a.text)
                ELSE /\ history' = h
                     /\ pending' = a.calls
                     /\ phase' = "calling"
                     /\ UNCHANGED <<provider, rows, prior, iteration, tries, chats, said>>

\* The turn without tools: whatever text it has is the answer.
LastTurn(r) ==
  /\ phase = "asking"
  /\ iteration = MaxIterations
  /\ LET a == Response(provider, r, Len(history)) IN
       IF a.kind # "empty" /\ a.text \notin {"", Null}
       THEN Succeed(Append(history, Assistant(a.text)))
       ELSE Fail

\* The request fails: the HTTP client reports it and the loop gives up.
RequestFails ==
  /\ phase = "asking"
  /\ Fail

-----------------------------------------------------------------------------
(* Tool calls. *)

\* The first pending call is answered.
Answered(err) ==
  LET h == Append(history, Result(Head(pending).id, err)) IN
    IF Len(pending) = 1
    THEN NextRound(h)
    ELSE /\ history' = h
         /\ pending' = Tail(pending)
         /\ tries' = 0
         /\ phase' = "calling"
         /\ UNCHANGED <<provider, rows, prior, iteration, chats, said>>

CallTool ==
  /\ phase = "calling"
  /\ Head(pending).name # "recall"
  /\ \E err \in BOOLEAN : Answered(err)

\* A recall without a query, a configuration or a memory table.
RefuseRecall ==
  /\ phase = "calling"
  /\ Head(pending).name = "recall"
  /\ Answered(TRUE)

StartRecall ==
  /\ phase = "calling"
  /\ Head(pending).name = "recall"
  /\ phase' = "recalling"
  /\ UNCHANGED <<provider, rows, loopVars, chats, said>>

\* How HttpClient::post_json fails: with a status (busy is 429 or 5xx, refused
\* any other), a failed transport, a body that is not JSON.
Failed == {"busy", "refused", "transport", "malformed"}

\* Otherwise there is a vector of the width wanted, of another, or none.
Outcomes == {"vector", "width", "none"} \cup Failed

Usable(o) == o = "vector"

\* A body that does not parse is reported as a failed transport.
Retriable == {"busy", "transport", "malformed"}

\* Mutant: one request too many.
GivesUpLate(o) == o \notin Retriable \/ tries > MaxRetries

\* The failure o ends the recall, or it sleeps and tries again.
GivesUp(o) == o \notin Retriable \/ tries = MaxRetries

\* One request; of its vector, what is found with it is a result.
Embed(o) ==
  /\ phase = "recalling"
  /\ IF o \in Failed /\ ~GivesUp(o)
     THEN /\ tries' = tries + 1
          /\ UNCHANGED <<provider, rows, history, prior, iteration, pending, phase, chats, said>>
     ELSE Answered(~Usable(o))

-----------------------------------------------------------------------------
(* Specification. *)

Next ==
  \/ \E p \in Providers : SetProvider(p)
  \/ ClearSession
  \/ Chat
  \/ \E r \in Responses : Iterate(r) \/ LastTurn(r)
  \/ RequestFails
  \/ CallTool
  \/ RefuseRecall
  \/ StartRecall
  \/ \E o \in Outcomes : Embed(o)

Spec == Init /\ [][Next]_vars

-----------------------------------------------------------------------------
(* Properties. *)

\* The variables have values of their types, a chat at rest has no history,
\* and calls are pending only while the loop is answering them.
TypeOK ==
  /\ provider \in Providers
  /\ \A i \in DOMAIN rows : rows[i].role \in {"user", "assistant", "tool"}
  /\ \A i \in DOMAIN history : history[i].role \in {"user", "assistant", "tool"}
  /\ prior \in 0..Len(history)
  /\ iteration \in 0..MaxIterations
  /\ \A i \in DOMAIN pending : pending[i].name \in Tools
  /\ tries \in 0..MaxRetries
  /\ phase \in Phases
  /\ chats \in 0..MaxChats
  /\ phase = "idle" <=> history = <<>>
  /\ pending # <<>> <=> phase \in {"calling", "recalling"}

\* The parts of a type of each message of a request.
Parts(request, type) ==
  [i \in DOMAIN request |->
    LET at == InOrder(At(request[i].parts, type))
    IN  [k \in DOMAIN at |-> request[i].parts[at[k]]]]

Keys(parts) == [k \in DOMAIN parts |-> parts[k].key]

Distinct(seq) == \A i, j \in DOMAIN seq : seq[i] = seq[j] => i = j

\* Whose id the result at i of a history answers was issued by another
\* provider than Gemini.
Foreign(h, i) == h[i].role = "tool" /\ h[i].id.name = Null

\* In every request, to whichever provider the session has moved on, the
\* messages after a turn with n calls are its n results, in the order of the
\* calls and each with its call's key; keys that are ids differ within a turn;
\* and there is no other result.  Gemini's key of an id it did not make is
\* the default tool (the tool calls of providers/*.rs and agent/run.rs).
AnswersFollowCalls ==
  phase = "asking" =>
    \A p \in Providers :
      LET shift == IF p = "openai" THEN 1 ELSE 0
          request == SubSeq(Request(p, history), 1 + shift, Len(history) + shift)
          calls == Parts(request, "call")
          answers == Parts(request, "answer")
          Covered(j) == \E i \in 1..(j - 1) : j - i <= Len(calls[i])
      IN  /\ \A i \in DOMAIN request :
               /\ p # "gemini" => Distinct(Keys(calls[i]))
               /\ \A k \in DOMAIN calls[i] :
                    /\ i + k <= Len(request)
                    /\ Len(answers[i + k]) = 1
                    /\ answers[i + k][1].key =
                         IF p = "gemini" /\ Foreign(history, i + k)
                         THEN DefaultTool ELSE calls[i][k].key
          /\ \A j \in DOMAIN request : answers[j] # <<>> => Covered(j)

\* A provider is always asked by the user's side: the last message of a
\* request is the user's or a result, and the last turn, which has no tools,
\* is announced by a message of the user (run_with_cfg's nudge and limit).
UserSpeaksLast ==
  phase = "asking" =>
    /\ history[Len(history)].role # "assistant"
    /\ iteration = MaxIterations => history[Len(history)].role = "user"

\* What a session has stored is what was said: any provider is sent the same
\* messages for the loaded history as for the messages the agent had, though
\* a text that was absent and one that was empty are stored alike
\* (session::append_messages, load_history).
StoredIsSaid ==
  \A p \in Providers : Request(p, LoadHistory(rows)) = Request(p, said)

=============================================================================
