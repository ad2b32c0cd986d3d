---------------------------- MODULE DialogueProofs ----------------------------
(***************************************************************************)
(* Proofs about Dialogue and the conversions of Wire, for any responses,   *)
(* tools and bounds: what a session has stored is what was said, every     *)
(* result follows the call it answers whichever provider reads the         *)
(* history, and a provider is never asked after its own message.           *)
(***************************************************************************)
EXTENDS Dialogue, FiniteSetTheorems, WellFoundedInduction, TLAPS

-----------------------------------------------------------------------------
(* The inductive invariant. *)

\* The calls of a turn: each id differs, and names its tool or no tool.
CallList ==
  {cs \in Seq(ToolCall) :
     /\ \A k, l \in DOMAIN cs : cs[k].id = cs[l].id => k = l
     /\ \A k \in DOMAIN cs : cs[k].id.name \in {Null, cs[k].name}}

Plain == [role : {"user", "assistant"}, text : Text \cup {Null}]
Turn == [role : {"assistant"}, text : Text \cup {Null}, calls : CallList]
Outcome == [role : {"tool"}, id : CallId, err : BOOLEAN]
Message == Plain \cup Turn \cup Outcome

\* A message as it is loaded again.
Kept(m) == Decode(Encode(m))

TypeInv ==
  /\ provider \in Providers
  /\ said \in Seq(Message)
  /\ history \in Seq(Message)
  /\ prior \in 0..Len(history)
  /\ iteration \in 0..MaxIterations
  /\ pending \in Seq(ToolCall)
  /\ tries \in 0..MaxRetries
  /\ phase \in Phases
  /\ chats \in 0..MaxChats
  /\ phase = "idle" <=> history = <<>>
  /\ pending # <<>> <=> phase \in {"calling", "recalling"}
  /\ phase \in {"calling", "recalling"} => iteration < MaxIterations

\* The rows are what was said, and the history begins with them.
StoreInv ==
  /\ rows = [i \in DOMAIN said |-> Encode(said[i])]
  /\ phase # "idle" =>
       /\ prior = Len(said)
       /\ \A i \in 1..prior : history[i] = Kept(said[i])

\* The calls of h have their results next to them or are pending.
Awaited(h, cs) ==
  \A i \in DOMAIN h : h[i] \in Turn =>
    \A k \in DOMAIN h[i].calls :
      IF i + k <= Len(h)
      THEN h[i + k].role = "tool" /\ h[i + k].id = h[i].calls[k].id
      ELSE i + k - Len(h) \in DOMAIN cs /\ cs[i + k - Len(h)] = h[i].calls[k]

\* The result at j is that of a call before it.
Called(h, j) == \E i \in 1..(j - 1) : h[i] \in Turn /\ j - i <= Len(h[i].calls)

\* A history of which the calls cs are not answered yet.
Answering(h, cs) ==
  /\ Awaited(h, cs)
  /\ \A j \in DOMAIN h : h[j].role = "tool" => Called(h, j)
  /\ cs # <<>> => \E i \in DOMAIN h : /\ h[i] \in Turn
                                      /\ i + Len(h[i].calls) = Len(h) + Len(cs)

ShapeInv == Answering(said, <<>>) /\ Answering(history, pending)

IndInv == TypeInv /\ StoreInv /\ ShapeInv /\ UserSpeaksLast

-----------------------------------------------------------------------------
(* Messages, and what is kept of them. *)

LEMMA Kinds ==
  ASSUME NEW m \in Message
  PROVE  /\ Calls(m) <=> m \in Turn
         /\ m.role = "tool" <=> m \in Outcome
         /\ m \in Turn => m.role = "assistant" /\ m.calls \in CallList
         /\ m \in Plain => m.role \in {"user", "assistant"}
<1>1. ASSUME m \in Plain PROVE m \notin Turn /\ m \notin Outcome /\ ~Calls(m) /\ m.role \in {"user", "assistant"}
  <2>1. DOMAIN m = {"role", "text"} /\ m.role \in {"user", "assistant"}
    BY <1>1 DEF Plain
  <2>2. \A x \in Turn : DOMAIN x = {"role", "text", "calls"}
    BY DEF Turn
  <2>3. \A x \in Outcome : x.role = "tool"
    BY DEF Outcome
  <2>4. QED
    BY <2>1, <2>2, <2>3 DEF Calls
<1>2. ASSUME m \in Turn
      PROVE  m \notin Outcome /\ Calls(m) /\ m.role = "assistant" /\ m.calls \in CallList
  BY <1>2 DEF Turn, Outcome, Calls
<1>3. ASSUME m \in Outcome PROVE ~Calls(m) /\ m.role = "tool"
  BY <1>3 DEF Outcome, Calls
<1>4. QED
  BY <1>1, <1>2, <1>3 DEF Message

LEMMA Makes ==
  /\ \A t \in Text \cup {Null} : User(t) \in Plain /\ Assistant(t) \in Plain
  /\ \A t \in Text \cup {Null}, cs \in CallList : Calling(t, cs) \in Turn
  /\ \A id \in CallId, e \in BOOLEAN : Result(id, e) \in Outcome
  /\ Plain \cup Turn \cup Outcome \subseteq Message
BY DEF User, Assistant, Calling, Result, Plain, Turn, Outcome, Message

\* A list of calls is not Null, so a turn is loaded with the calls it had.
LEMMA KeptIs ==
  ASSUME NEW m \in Message
  PROVE  Kept(m) = IF m \in Turn THEN Calling(NonEmpty(OrEmpty(m.text)), m.calls) ELSE m
<1>1. CASE m \in Outcome
  <2>1. m = [role |-> "tool", id |-> m.id, err |-> m.err]
    BY <1>1 DEF Outcome
  <2>2. m.role = "tool" /\ m \notin Turn /\ ~Calls(m)
    BY <1>1, Kinds
  <2>3. Encode(m) = Row("tool", "text", Null, m.id, m.err)
    BY <2>2 DEF Encode
  <2>4. Kept(m) = Result(m.id, m.err)
    BY <2>3 DEF Kept, Decode, Row
  <2>5. QED
    BY <2>1, <2>2, <2>4 DEF Result
<1>2. CASE m \in Turn
  <2>1. m.role = "assistant" /\ Calls(m) /\ m.calls \in Seq(ToolCall)
    BY <1>2, Kinds DEF CallList
  <2>2. Encode(m) = Row("assistant", OrEmpty(m.text), m.calls, Null, Null)
    BY <2>1 DEF Encode
  <2>3. m.calls # Null
    BY <2>1, WireAssumption
  <2>4. Kept(m) = Calling(NonEmpty(OrEmpty(m.text)), m.calls)
    BY <2>2, <2>3 DEF Kept, Decode, Row
  <2>5. QED
    BY <1>2, <2>4
<1>3. CASE m \in Plain
  <2>1. m.role \in {"user", "assistant"} /\ ~Calls(m) /\ m \notin Turn
    <3>1. m \notin Outcome /\ m \notin Turn
      BY <1>3 DEF Plain, Turn, Outcome
    <3>2. QED
      BY <1>3, <3>1, Kinds
  <2>2. m = [role |-> m.role, text |-> m.text]
    BY <1>3 DEF Plain
  <2>3. Encode(m) = Row(m.role, m.text, Null, Null, Null)
    BY <2>1 DEF Encode
  <2>4. Kept(m) = [role |-> m.role, text |-> m.text]
    BY <2>1, <2>3 DEF Kept, Decode, Row
  <2>5. QED
    BY <2>1, <2>2, <2>4
<1>4. QED
  BY <1>1, <1>2, <1>3 DEF Message

\* Every provider is sent the same for a message as for what is kept of it.
LEMMA KeptReadsAlike ==
  ASSUME NEW m \in Message
  PROVE  /\ AnthropicMessage(Kept(m)) = AnthropicMessage(m)
         /\ OpenAiMessage(Kept(m)) = OpenAiMessage(m)
         /\ GeminiMessage(Kept(m)) = GeminiMessage(m)
<1>1. CASE m \notin Turn
  BY <1>1, KeptIs
<1>2. CASE m \in Turn
  <2> DEFINE t == NonEmpty(OrEmpty(m.text))
             n == Calling(t, m.calls)
  <2>1. Kept(m) = n
    BY <1>2, KeptIs
  <2>2. m.role = "assistant" /\ Calls(m)
    BY <1>2, Kinds
  <2>3. n.role = "assistant" /\ Calls(n) /\ n.text = t /\ n.calls = m.calls
    BY DEF Calling, Calls
  <2>4. Optional(t) = Optional(m.text) /\ OrEmpty(t) = OrEmpty(m.text)
    BY DEF Optional, NonEmpty, OrEmpty
  <2> HIDE DEF t, n
  <2>5. AnthropicMessage(n) = AnthropicMessage(m)
    BY <2>2, <2>3, <2>4 DEF AnthropicMessage
  <2>6. OpenAiMessage(n) = OpenAiMessage(m)
    BY <2>2, <2>3, <2>4 DEF OpenAiMessage
  <2>7. GeminiMessage(n) = GeminiMessage(m)
    BY <2>2, <2>3, <2>4 DEF GeminiMessage
  <2>8. QED
    BY <2>1, <2>5, <2>6, <2>7
<1>3. QED
  BY <1>1, <1>2

-----------------------------------------------------------------------------
(* Histories. *)

LEMMA Grows ==
  ASSUME NEW h \in Seq(Message), NEW m \in Message
  PROVE  /\ Append(h, m) \in Seq(Message)
         /\ Len(h) \in Nat /\ Len(Append(h, m)) = Len(h) + 1
         /\ DOMAIN h = 1..Len(h) /\ DOMAIN Append(h, m) = 1..(Len(h) + 1)
         /\ \A i \in DOMAIN h : Append(h, m)[i] = h[i] /\ h[i] \in Message
         /\ Append(h, m)[Len(h) + 1] = m
OBVIOUS

LEMMA TurnCalls ==
  ASSUME NEW m \in Turn
  PROVE  /\ m.calls \in Seq(ToolCall) /\ m.calls \in CallList
         /\ Len(m.calls) \in Nat /\ DOMAIN m.calls = 1..Len(m.calls)
         /\ \A k \in DOMAIN m.calls : k \in Nat \ {0} /\ m.calls[k] \in ToolCall
<1>1. m.calls \in CallList
  BY DEF Turn
<1>2. m.calls \in Seq(ToolCall)
  BY <1>1 DEF CallList
<1>3. QED
  BY <1>1, <1>2

\* The results that g adds to h leave those before as they are.
LEMMA CalledStays ==
  ASSUME NEW h, NEW g, NEW j \in 1..Len(h), Len(h) \in Nat,
         \A i \in 1..Len(h) : g[i] = h[i], Called(h, j)
  PROVE  Called(g, j)
<1>1. PICK i \in 1..(j - 1) : h[i] \in Turn /\ j - i <= Len(h[i].calls)
  BY DEF Called
<1>2. g[i] = h[i]
  BY <1>1
<1>3. QED
  BY <1>1, <1>2 DEF Called

\* A message without calls that is not a result.
LEMMA AnsweringPlain ==
  ASSUME NEW h \in Seq(Message), NEW m \in Plain, Answering(h, <<>>)
  PROVE  Answering(Append(h, m), <<>>)
<1> DEFINE g == Append(h, m)
           n == Len(h)
<1>1. /\ n \in Nat /\ Len(g) = n + 1 /\ DOMAIN h = 1..n /\ DOMAIN g = 1..(n + 1)
      /\ g[n + 1] = m /\ m \in Message
      /\ \A i \in 1..n : g[i] = h[i] /\ h[i] \in Message
  BY Grows, Makes
<1>2. m \notin Turn /\ m.role # "tool"
  BY Kinds, <1>1 DEF Plain, Turn, Outcome
<1> HIDE DEF g
<1>3. Awaited(g, <<>>)
  <2>1. SUFFICES ASSUME NEW i \in DOMAIN g, g[i] \in Turn, NEW k \in DOMAIN g[i].calls
        PROVE  i + k <= Len(g) /\ g[i + k].role = "tool" /\ g[i + k].id = g[i].calls[k].id
    BY DEF Awaited
  <2>2. i \in 1..n /\ h[i] = g[i]
    BY <1>1, <1>2, <2>1
  <2>3. i + k <= n /\ h[i + k].role = "tool" /\ h[i + k].id = h[i].calls[k].id
    BY <1>1, <2>1, <2>2 DEF Answering, Awaited
  <2>4. i + k \in 1..n
    BY <2>1, <2>2, <2>3, TurnCalls, <1>1
  <2>5. QED
    BY <1>1, <2>2, <2>3, <2>4
<1>4. \A j \in DOMAIN g : g[j].role = "tool" => Called(g, j)
  <2>1. SUFFICES ASSUME NEW j \in DOMAIN g, g[j].role = "tool" PROVE Called(g, j)
    OBVIOUS
  <2>2. j \in 1..n /\ h[j].role = "tool"
    BY <1>1, <1>2, <2>1
  <2>3. Called(h, j)
    BY <1>1, <2>2 DEF Answering
  <2>4. QED
    BY <1>1, <2>2, <2>3, CalledStays
<1>5. QED
  BY <1>3, <1>4 DEF Answering, g

\* A turn with the calls cs: they are pending.
LEMMA AnsweringTurn ==
  ASSUME NEW h \in Seq(Message), NEW m \in Turn, Answering(h, <<>>)
  PROVE  Answering(Append(h, m), m.calls)
<1> DEFINE g == Append(h, m)
           n == Len(h)
           cs == m.calls
<1>1. /\ n \in Nat /\ Len(g) = n + 1 /\ DOMAIN h = 1..n /\ DOMAIN g = 1..(n + 1)
      /\ g[n + 1] = m /\ m \in Message
      /\ \A i \in 1..n : g[i] = h[i] /\ h[i] \in Message
  BY Grows, Makes
<1>2. m.role # "tool" /\ Len(cs) \in Nat /\ DOMAIN cs = 1..Len(cs)
  BY Kinds, TurnCalls, <1>1
<1> HIDE DEF g, cs
<1>3. Awaited(g, cs)
  <2>1. SUFFICES ASSUME NEW i \in DOMAIN g, g[i] \in Turn, NEW k \in DOMAIN g[i].calls
        PROVE  IF i + k <= Len(g)
               THEN g[i + k].role = "tool" /\ g[i + k].id = g[i].calls[k].id
               ELSE i + k - Len(g) \in DOMAIN cs /\ cs[i + k - Len(g)] = g[i].calls[k]
    BY DEF Awaited
  <2>2. k \in Nat \ {0}
    BY <2>1, TurnCalls
  <2>3. CASE i \in 1..n
    <3>1. h[i] = g[i]
      BY <1>1, <2>3
    <3>2. i + k <= n /\ h[i + k].role = "tool" /\ h[i + k].id = h[i].calls[k].id
      BY <1>1, <2>1, <2>3, <3>1 DEF Answering, Awaited
    <3>3. i + k \in 1..n
      BY <1>1, <2>2, <2>3, <3>2
    <3>4. QED
      BY <1>1, <3>1, <3>2, <3>3
  <2>4. CASE i = n + 1
    <3>1. ~(i + k <= Len(g)) /\ i + k - Len(g) = k
      BY <1>1, <2>2, <2>4
    <3>2. g[i].calls = cs
      BY <1>1, <2>4 DEF cs
    <3>3. QED
      BY <2>1, <3>1, <3>2
  <2>5. QED
    BY <1>1, <2>3, <2>4
<1>4. \A j \in DOMAIN g : g[j].role = "tool" => Called(g, j)
  <2>1. SUFFICES ASSUME NEW j \in DOMAIN g, g[j].role = "tool" PROVE Called(g, j)
    OBVIOUS
  <2>2. j \in 1..n /\ h[j].role = "tool"
    BY <1>1, <1>2, <2>1
  <2>3. Called(h, j)
    BY <1>1, <2>2 DEF Answering
  <2>4. QED
    BY <1>1, <2>2, <2>3, CalledStays
<1>5. g[n + 1] \in Turn /\ (n + 1) + Len(g[n + 1].calls) = Len(g) + Len(cs)
  BY <1>1, <1>2 DEF cs
<1>6. n + 1 \in DOMAIN g
  BY <1>1
<1>7. QED
  BY <1>3, <1>4, <1>5, <1>6 DEF Answering, g, cs

\* The result of the first pending call.
LEMMA AnsweringResult ==
  ASSUME NEW h \in Seq(Message), NEW cs \in Seq(ToolCall), cs # <<>>, Answering(h, cs),
         NEW e \in BOOLEAN
  PROVE  Answering(Append(h, Result(Head(cs).id, e)), Tail(cs))
<1> DEFINE m == Result(Head(cs).id, e)
           g == Append(h, m)
           n == Len(h)
           ds == Tail(cs)
<1>1. /\ Len(cs) \in Nat \ {0} /\ DOMAIN cs = 1..Len(cs)
      /\ Head(cs) = cs[1] /\ Head(cs) \in ToolCall
      /\ Len(ds) = Len(cs) - 1 /\ DOMAIN ds = 1..Len(ds)
      /\ \A k \in 1..Len(ds) : ds[k] = cs[k + 1]
  OBVIOUS
<1>2. m \in Outcome /\ m.role = "tool" /\ m.id = cs[1].id /\ m \in Message
  <2>1. Head(cs).id \in CallId
    BY <1>1 DEF ToolCall
  <2>2. QED
    BY <1>1, <2>1, Makes DEF Result
<1>3. m \notin Turn
  BY <1>2, Kinds DEF Turn, Outcome
<1> HIDE DEF m
<1>4. /\ n \in Nat /\ Len(g) = n + 1 /\ DOMAIN h = 1..n /\ DOMAIN g = 1..(n + 1)
      /\ g[n + 1] = m
      /\ \A i \in 1..n : g[i] = h[i] /\ h[i] \in Message
  BY <1>2, Grows
<1> HIDE DEF g, ds
<1>5. Awaited(g, ds)
  <2>1. SUFFICES ASSUME NEW i \in DOMAIN g, g[i] \in Turn, NEW k \in DOMAIN g[i].calls
        PROVE  IF i + k <= Len(g)
               THEN g[i + k].role = "tool" /\ g[i + k].id = g[i].calls[k].id
               ELSE i + k - Len(g) \in DOMAIN ds /\ ds[i + k - Len(g)] = g[i].calls[k]
    BY DEF Awaited
  <2>2. k \in Nat \ {0}
    BY <2>1, TurnCalls
  <2>3. i \in 1..n /\ h[i] = g[i]
    BY <1>3, <1>4, <2>1
  <2>4. IF i + k <= n
        THEN h[i + k].role = "tool" /\ h[i + k].id = h[i].calls[k].id
        ELSE i + k - n \in DOMAIN cs /\ cs[i + k - n] = h[i].calls[k]
    BY <1>4, <2>1, <2>3 DEF Answering, Awaited
  <2>5. CASE i + k <= n
    <3>1. i + k \in 1..n
      BY <2>2, <2>3, <2>5, <1>4
    <3>2. QED
      BY <1>4, <2>3, <2>4, <2>5, <3>1
  <2>6. CASE i + k = n + 1
    <3>1. cs[1] = h[i].calls[k]
      <4>1. i + k - n = 1 /\ ~(i + k <= n)
        BY <1>4, <2>2, <2>3, <2>6
      <4>2. QED
        BY <2>4, <4>1
    <3>2. QED
      BY <1>2, <1>4, <2>3, <2>6, <3>1
  <2>7. CASE i + k > n + 1
    <3>1. i + k - n \in 1..Len(cs) /\ cs[i + k - n] = h[i].calls[k]
      BY <1>1, <1>4, <2>2, <2>3, <2>4, <2>7
    <3>2. i + k - Len(g) \in 1..Len(ds) /\ (i + k - Len(g)) + 1 = i + k - n
      BY <1>1, <1>4, <2>2, <2>3, <2>7, <3>1
    <3>3. ds[i + k - Len(g)] = cs[i + k - n]
      BY <1>1, <3>2
    <3>4. ~(i + k <= Len(g)) /\ g[i].calls[k] = cs[i + k - n]
      BY <1>4, <2>2, <2>3, <2>7, <3>1
    <3>5. QED
      BY <1>1, <3>2, <3>3, <3>4
  <2>8. QED
    BY <1>4, <2>2, <2>3, <2>5, <2>6, <2>7
<1>6. PICK t \in DOMAIN h : h[t] \in Turn /\ t + Len(h[t].calls) = n + Len(cs)
  BY DEF Answering
<1>7. t \in DOMAIN g /\ g[t] = h[t] /\ Len(h[t].calls) \in Nat
  BY <1>4, <1>6, TurnCalls
<1>8. \A j \in DOMAIN g : g[j].role = "tool" => Called(g, j)
  <2>1. SUFFICES ASSUME NEW j \in DOMAIN g, g[j].role = "tool" PROVE Called(g, j)
    OBVIOUS
  <2>2. CASE j \in 1..n
    <3>1. Called(h, j)
      BY <1>4, <2>1, <2>2 DEF Answering
    <3>2. QED
      BY <1>4, <2>2, <3>1, CalledStays
  <2>3. CASE j = n + 1
    <3>1. t \in 1..(j - 1) /\ j - t <= Len(g[t].calls)
      BY <1>1, <1>4, <1>6, <1>7, <2>3
    <3>2. QED
      BY <1>6, <1>7, <3>1 DEF Called
  <2>4. QED
    BY <1>4, <2>2, <2>3
<1>9. t + Len(g[t].calls) = Len(g) + Len(ds)
  BY <1>1, <1>4, <1>6, <1>7
<1>10. QED
  BY <1>5, <1>6, <1>7, <1>8, <1>9 DEF Answering, g, ds, m

\* Messages that say who called what alike.
Alike(a, b) ==
  /\ a \in Turn <=> b \in Turn
  /\ a.role = b.role
  /\ a \in Turn => a.calls = b.calls
  /\ a.role = "tool" => a.id = b.id

LEMMA KeptAlike ==
  ASSUME NEW m \in Message
  PROVE  Kept(m) \in Message /\ Alike(Kept(m), m)
<1>1. CASE m \notin Turn
  BY <1>1, KeptIs DEF Alike
<1>2. CASE m \in Turn
  <2> DEFINE t == NonEmpty(OrEmpty(m.text))
  <2>1. t \in Text \cup {Null} /\ m.calls \in CallList /\ m.role = "assistant"
    BY <1>2, Kinds DEF Turn, NonEmpty, OrEmpty, Text
  <2>2. Kept(m) = Calling(t, m.calls)
    BY <1>2, KeptIs
  <2> HIDE DEF t
  <2>3. Kept(m) \in Turn /\ Kept(m) \in Message
    BY <2>1, <2>2, Makes
  <2>4. Kept(m).role = "assistant" /\ Kept(m).calls = m.calls
    BY <2>2 DEF Calling
  <2>5. QED
    BY <1>2, <2>1, <2>3, <2>4 DEF Alike
<1>3. QED
  BY <1>1, <1>2

LEMMA AnsweringAlike ==
  ASSUME NEW h \in Seq(Message), NEW g \in Seq(Message), Len(g) = Len(h),
         \A i \in DOMAIN h : Alike(g[i], h[i]), Answering(h, <<>>)
  PROVE  Answering(g, <<>>)
<1> DEFINE n == Len(h)
<1>1. n \in Nat /\ DOMAIN h = 1..n /\ DOMAIN g = 1..n /\ Len(g) = n
  OBVIOUS
<1>2. \A i \in 1..n : Alike(g[i], h[i])
  BY <1>1
<1>3. Awaited(g, <<>>)
  <2>1. SUFFICES ASSUME NEW i \in DOMAIN g, g[i] \in Turn, NEW k \in DOMAIN g[i].calls
        PROVE  i + k <= Len(g) /\ g[i + k].role = "tool" /\ g[i + k].id = g[i].calls[k].id
    BY DEF Awaited
  <2>2. i \in 1..n /\ h[i] \in Turn /\ h[i].calls = g[i].calls /\ k \in Nat \ {0}
    BY <1>1, <1>2, <2>1, TurnCalls DEF Alike
  <2>3. i + k <= n /\ h[i + k].role = "tool" /\ h[i + k].id = h[i].calls[k].id
    BY <1>1, <2>1, <2>2 DEF Answering, Awaited
  <2>4. i + k \in 1..n
    BY <1>1, <2>2, <2>3
  <2>5. QED
    BY <1>1, <1>2, <2>2, <2>3, <2>4 DEF Alike
<1>4. \A j \in DOMAIN g : g[j].role = "tool" => Called(g, j)
  <2>1. SUFFICES ASSUME NEW j \in 1..n, g[j].role = "tool" PROVE Called(g, j)
    BY <1>1
  <2>2. Called(h, j)
    BY <1>1, <1>2, <2>1 DEF Answering, Alike
  <2>3. PICK i \in 1..(j - 1) : h[i] \in Turn /\ j - i <= Len(h[i].calls)
    BY <2>2 DEF Called
  <2>4. i \in 1..n
    BY <1>1
  <2>5. g[i] \in Turn /\ g[i].calls = h[i].calls
    BY <1>2, <2>3, <2>4 DEF Alike
  <2>6. QED
    BY <2>3, <2>5 DEF Called
<1>5. QED
  BY <1>3, <1>4 DEF Answering

LEMMA AnsweringNothing == Answering(<<>>, <<>>)
BY DEF Answering, Awaited

\* The history that is loaded is what is kept of what was said.
LEMMA Loaded ==
  ASSUME said \in Seq(Message), StoreInv
  PROVE  /\ LoadHistory(rows) = [i \in DOMAIN said |-> Kept(said[i])]
         /\ LoadHistory(rows) \in Seq(Message)
         /\ Len(LoadHistory(rows)) = Len(said)
         /\ Len(rows) = Len(said)
<1> DEFINE l == LoadHistory(rows)
           n == Len(said)
<1>1. n \in Nat /\ DOMAIN said = 1..n /\ \A i \in 1..n : said[i] \in Message
  OBVIOUS
<1>2. rows = [i \in 1..n |-> Encode(said[i])]
  BY <1>1 DEF StoreInv
<1>3. Len(rows) = n /\ DOMAIN rows = 1..n
  BY <1>1, <1>2
<1>4. l = [i \in 1..n |-> Kept(said[i])]
  <2>1. \A i \in 1..n : Decode(rows[i]) = Kept(said[i])
    BY <1>2 DEF Kept
  <2>2. QED
    BY <1>3, <2>1 DEF LoadHistory
<1>5. \A i \in 1..n : Kept(said[i]) \in Message
  BY <1>1, KeptAlike
<1> HIDE DEF l
<1>6. l \in Seq(Message) /\ Len(l) = n
  <2>1. l \in [1..n -> Message]
    BY <1>4, <1>5
  <2>2. QED
    BY <1>1, <2>1
<1>7. QED
  BY <1>1, <1>3, <1>4, <1>6 DEF l

-----------------------------------------------------------------------------
(* Numbers in order. *)

LEMMA LeastNatural ==
  ASSUME NEW S \in SUBSET Nat, S # {}
  PROVE  \E n \in S : \A m \in S : n <= m
<1>1. PICK n \in S : \A m \in S : ~(<<m, n>> \in OpToRel(<, Nat))
  BY NatLessThanWellFounded, WFMin
<1>2. \A m \in S : ~(m < n)
  BY <1>1 DEF OpToRel
<1>3. QED
  BY <1>2

Increasing(s) == \A i, j \in DOMAIN s : i < j => s[i] < s[j]

Ordered(s, S) == s \in [1..Cardinality(S) -> S] /\ Increasing(s)

LEMMA FiniteInterval ==
  ASSUME NEW n \in Nat, NEW S \in SUBSET (1..n)
  PROVE  IsFiniteSet(S) /\ Cardinality(S) \in Nat
<1>1. 1 \in Int /\ n \in Int
  OBVIOUS
<1>2. IsFiniteSet(1..n)
  BY <1>1, FS_Interval
<1>3. IsFiniteSet(S)
  BY <1>2, FS_Subset
<1>4. QED
  BY <1>3, FS_CardinalityType

LEMMA OrderExists ==
  ASSUME NEW n \in Nat, NEW S \in SUBSET (1..n)
  PROVE  \E s : Ordered(s, S)
<1> DEFINE Bad == {k \in Nat : \E T \in SUBSET (1..k) : ~\E s : Ordered(s, T)}
<1>1. SUFFICES ASSUME Bad # {} PROVE FALSE
  <2>1. n \notin Bad
    BY <1>1
  <2>2. QED
    BY <2>1
<1>2. PICK k \in Bad : \A m \in Bad : k <= m
  <2>1. Bad \in SUBSET Nat
    OBVIOUS
  <2> HIDE DEF Bad
  <2>2. QED
    BY <1>1, <2>1, LeastNatural
<1>3. k \in Nat
  OBVIOUS
<1>4. PICK T \in SUBSET (1..k) : ~\E s : Ordered(s, T)
  BY <1>2
<1>5. IsFiniteSet(T) /\ Cardinality(T) \in Nat
  BY <1>3, FiniteInterval
<1>6. CASE k = 0
  <2>1. T = {} /\ Cardinality(T) = 0
    <3>1. T = {}
      BY <1>6
    <3>2. QED
      BY <3>1, FS_EmptySet
  <2>2. Ordered([i \in 1..0 |-> i], T)
    BY <2>1 DEF Ordered, Increasing
  <2>3. QED
    BY <1>4, <2>2
<1>7. CASE k # 0
  <2> DEFINE R == T \ {k}
  <2>1. R \in SUBSET (1..(k - 1)) /\ k - 1 \in Nat
    BY <1>3, <1>7
  <2>2. PICK s : Ordered(s, R)
    <3>1. k - 1 \notin Bad
      BY <1>2, <1>3, <1>7
    <3>2. QED
      BY <2>1, <3>1
  <2>3. CASE k \notin T
    <3>1. R = T
      BY <2>3
    <3>2. QED
      BY <1>4, <2>2, <3>1
  <2>4. CASE k \in T
    <3> DEFINE c == Cardinality(R)
               u == [i \in 1..(c + 1) |-> IF i = c + 1 THEN k ELSE s[i]]
    <3>1. Cardinality(T) = c + 1 /\ c \in Nat
      <4>1. IsFiniteSet(R) /\ Cardinality(R) = Cardinality(T) - 1
        BY <1>5, <2>4, FS_RemoveElement
      <4>2. QED
        BY <1>5, <4>1, FS_CardinalityType
    <3>2. s \in [1..c -> R] /\ Increasing(s)
      BY <2>2 DEF Ordered
    <3>3. \A i \in 1..c : s[i] \in R /\ s[i] \in 1..(k - 1)
      BY <2>1, <3>2
    <3> HIDE DEF c, R
    <3>4. u \in [1..(c + 1) -> T]
      BY <2>4, <3>1, <3>3 DEF R
    <3>5. Increasing(u)
      <4>1. SUFFICES ASSUME NEW i \in 1..(c + 1), NEW j \in 1..(c + 1), i < j
            PROVE  u[i] < u[j]
        BY DEF Increasing
      <4>2. i \in 1..c /\ u[i] = s[i]
        BY <3>1, <4>1
      <4>3. CASE j = c + 1
        BY <1>3, <1>7, <3>3, <4>2, <4>3
      <4>4. CASE j # c + 1
        <5>1. j \in 1..c /\ u[j] = s[j] /\ DOMAIN s = 1..c
          BY <3>1, <3>2, <4>4
        <5>2. s[i] < s[j]
          BY <3>2, <4>1, <4>2, <5>1 DEF Increasing
        <5>3. QED
          BY <4>2, <5>1, <5>2
      <4>5. QED
        BY <4>3, <4>4
    <3>6. Ordered(u, T)
      BY <3>1, <3>4, <3>5 DEF Ordered
    <3>7. QED
      BY <1>4, <3>6
  <2>5. QED
    BY <2>3, <2>4
<1>8. QED
  BY <1>6, <1>7

LEMMA OrderIs ==
  ASSUME NEW n \in Nat, NEW S \in SUBSET (1..n)
  PROVE  /\ Cardinality(S) \in Nat
         /\ InOrder(S) \in [1..Cardinality(S) -> S]
         /\ Increasing(InOrder(S))
<1>1. Cardinality(S) \in Nat
  BY FiniteInterval
<1>2. \E s \in [1..Cardinality(S) -> S] : \A i, j \in DOMAIN s : i < j => s[i] < s[j]
  BY OrderExists DEF Ordered, Increasing
<1>3. QED
  BY <1>1, <1>2 DEF InOrder, Increasing

\* An increasing sequence of n numbers from an interval of n is the interval.
LEMMA OrderOfInterval ==
  ASSUME NEW a \in Nat, NEW n \in Nat, NEW s \in [1..n -> (a + 1)..(a + n)], Increasing(s)
  PROVE  \A i \in 1..n : s[i] = a + i
<1>1. \A i, j \in 1..n : i < j => s[i] < s[j]
  BY DEF Increasing
<1>2. \A i \in 1..n : s[i] \in Nat /\ s[i] >= a + 1 /\ s[i] <= a + n
  OBVIOUS
<1>3. \A i \in 1..n : s[i] >= a + i
  <2> DEFINE Low == {i \in 1..n : s[i] < a + i}
  <2>1. SUFFICES ASSUME Low # {} PROVE FALSE
    BY <1>2
  <2>2. PICK i \in Low : \A m \in Low : i <= m
    <3>1. Low \in SUBSET Nat
      OBVIOUS
    <3> HIDE DEF Low
    <3>2. QED
      BY <2>1, <3>1, LeastNatural
  <2>3. i - 1 \in 1..n /\ i - 1 \notin Low
    BY <1>2, <2>2
  <2>4. QED
    BY <1>1, <1>2, <2>2, <2>3
<1>4. \A i \in 1..n : s[i] <= a + i
  <2> DEFINE High == {d \in 0..(n - 1) : s[n - d] > a + (n - d)}
  <2>1. SUFFICES ASSUME High # {} PROVE FALSE
    <3>1. ASSUME NEW i \in 1..n PROVE s[i] <= a + i
      <4>1. n - i \in 0..(n - 1) /\ n - (n - i) = i
        OBVIOUS
      <4>2. ~(s[n - (n - i)] > a + (n - (n - i)))
        BY <2>1, <4>1
      <4>3. QED
        BY <1>2, <4>1, <4>2
    <3>2. QED
      BY <3>1
  <2>2. PICK d \in High : \A m \in High : d <= m
    <3>1. High \in SUBSET Nat
      OBVIOUS
    <3> HIDE DEF High
    <3>2. QED
      BY <2>1, <3>1, LeastNatural
  <2>3. d # 0
    BY <1>2, <2>2
  <2>4. d - 1 \in 0..(n - 1)
    BY <2>2, <2>3
  <2>5. d - 1 \notin High
    <3>1. d \in Nat /\ ~(d <= d - 1)
      BY <2>2
    <3> HIDE DEF High
    <3>2. QED
      BY <2>2, <3>1
  <2>6. n - d \in 1..n /\ n - (d - 1) \in 1..n /\ n - d < n - (d - 1)
    BY <2>2, <2>3
  <2>7. s[n - d] < s[n - (d - 1)]
    BY <1>1, <2>6
  <2>8. s[n - d] > a + (n - d) /\ ~(s[n - (d - 1)] > a + (n - (d - 1)))
    BY <2>2, <2>4, <2>5
  <2>9. QED
    BY <1>2, <2>2, <2>6, <2>7, <2>8
<1>5. SUFFICES ASSUME NEW i \in 1..n PROVE s[i] = a + i
  OBVIOUS
<1>6. s[i] \in Nat /\ s[i] >= a + i /\ s[i] <= a + i
  BY <1>2, <1>3, <1>4
<1>7. QED
  BY <1>6

-----------------------------------------------------------------------------
(* Responses. *)

LEMMA PartsAt ==
  ASSUME NEW parts \in Seq(Part), NEW type \in {"text", "call"}
  PROVE  /\ Len(parts) \in Nat /\ At(parts, type) \in SUBSET (1..Len(parts))
         /\ \A i \in At(parts, "text") : parts[i].text \in Text
         /\ \A i \in At(parts, "call") : parts[i].name \in Tools /\ i \in Nat
<1>1. Len(parts) \in Nat /\ DOMAIN parts = 1..Len(parts) /\ \A i \in 1..Len(parts) : parts[i] \in Part
  OBVIOUS
<1>2. \A x \in Part : (x.type = "text" => x.text \in Text) /\ (x.type = "call" => x.name \in Tools)
  BY DEF Part
<1>3. QED
  BY <1>1, <1>2 DEF At

LEMMA JoinedIsText ==
  ASSUME NEW parts \in Seq(Part), NEW at \in SUBSET At(parts, "text")
  PROVE  Joined(parts, at) \in Text \cup {Null}
<1>1. CASE at = {}
  <2>1. Cardinality(at) # 1
    BY <1>1, FS_EmptySet
  <2>2. QED
    BY <1>1, <2>1 DEF Joined
<1>2. CASE at # {} /\ Cardinality(at) = 1
  <2>1. Joined(parts, at) = parts[CHOOSE i \in at : TRUE].text
    BY <1>2 DEF Joined
  <2>2. (CHOOSE i \in at : TRUE) \in at
    BY <1>2
  <2>3. QED
    BY <2>1, <2>2, PartsAt
<1>3. CASE at # {} /\ Cardinality(at) # 1
  BY <1>3 DEF Joined, Text
<1>4. QED
  BY <1>1, <1>2, <1>3

LEMMA CallsAreListed ==
  ASSUME NEW parts \in Seq(Part), NEW ids \in [At(parts, "call") -> CallId],
         \A i \in At(parts, "call") : ids[i].name \in {Null, parts[i].name},
         \A i, j \in At(parts, "call") : ids[i] = ids[j] => i = j
  PROVE  CallsIn(parts, ids) \in CallList
<1> DEFINE S == At(parts, "call")
           at == InOrder(S)
           n == Cardinality(S)
           cs == [k \in DOMAIN at |-> [id |-> ids[at[k]], name |-> parts[at[k]].name]]
<1>1. n \in Nat /\ at \in [1..n -> S] /\ Increasing(at)
  BY PartsAt, OrderIs
<1>2. \A i \in S : parts[i].name \in Tools /\ i \in Nat
  BY PartsAt
<1>3. CallsIn(parts, ids) = cs
  BY DEF CallsIn
<1> HIDE DEF S, at, n
<1>4. \A k \in 1..n : at[k] \in S
  BY <1>1
<1>5. ids \in [S -> CallId]
  BY DEF S
<1>6. ASSUME NEW k \in 1..n
      PROVE  cs[k].id = ids[at[k]] /\ cs[k].name = parts[at[k]].name /\ cs[k] \in ToolCall
  <2>1. ids[at[k]] \in CallId /\ parts[at[k]].name \in Tools
    BY <1>2, <1>4, <1>5
  <2>2. cs[k] = [id |-> ids[at[k]], name |-> parts[at[k]].name]
    BY <1>1
  <2> HIDE DEF cs
  <2>3. QED
    BY <2>1, <2>2 DEF ToolCall
<1>7. DOMAIN cs = 1..n /\ cs = [k \in 1..n |-> cs[k]]
  BY <1>1
<1> HIDE DEF cs
<1>8. cs \in Seq(ToolCall)
  <2>1. cs \in [1..n -> ToolCall]
    BY <1>6, <1>7
  <2>2. QED
    BY <1>1, <2>1
<1>9. \A k, l \in 1..n : cs[k].id = cs[l].id => k = l
  <2>1. SUFFICES ASSUME NEW k \in 1..n, NEW l \in 1..n, cs[k].id = cs[l].id PROVE k = l
    OBVIOUS
  <2>2. cs[k].id = ids[at[k]] /\ cs[l].id = ids[at[l]]
    BY <1>6
  <2>3. at[k] = at[l]
    BY <1>4, <2>1, <2>2 DEF S
  <2>4. at[k] \in Nat
    BY <1>2, <1>4
  <2>5. (k < l => at[k] < at[l]) /\ (l < k => at[l] < at[k])
    BY <1>1 DEF Increasing
  <2>6. k \in Nat /\ l \in Nat
    OBVIOUS
  <2>7. QED
    BY <2>3, <2>4, <2>5, <2>6
<1>10. \A k \in 1..n : cs[k].id.name \in {Null, cs[k].name}
  BY <1>4, <1>6 DEF S
<1>11. cs \in CallList
  BY <1>7, <1>8, <1>9, <1>10 DEF CallList
<1>12. QED
  BY <1>3, <1>11 DEF cs

\* What a response may be, whichever provider it comes from.
LEMMA ResponseIs ==
  ASSUME NEW r \in Responses, NEW p \in Providers, NEW n \in Nat
  PROVE  LET a == Response(p, r, n) IN
         /\ a.kind \in {"empty", "final", "calls"}
         /\ a.kind = "final" => a.text \in Text \cup {Null}
         /\ a.kind = "calls" => a.text \in Text \cup {Null} /\ a.calls \in CallList
<1> DEFINE parts == r.parts
           S == At(parts, "call")
<1>1. parts \in Seq(Part)
  BY DialogueAssumption
<1>2. /\ S \in SUBSET Nat
      /\ \A i \in S : parts[i].name \in Tools
  BY <1>1, PartsAt
<1>3. CallsIn(parts, IssuedIds(parts, n)) \in CallList
  <2> DEFINE ids == IssuedIds(parts, n)
  <2>1. ids = [i \in S |-> [name |-> Null, at |-> <<n, i>>]]
    BY DEF IssuedIds
  <2> HIDE DEF ids, S, parts
  <2>2. \A i \in S : ids[i].name = Null /\ ids[i].at = <<n, i>>
    BY <2>1
  <2>3. \A i \in S : ids[i] \in CallId
    BY <1>2, <2>1 DEF CallId
  <2>4. ids \in [S -> CallId]
    BY <2>1, <2>3
  <2>5. \A i, j \in S : ids[i] = ids[j] => i = j
    BY <2>2
  <2>6. CallsIn(parts, ids) \in CallList
    BY <1>1, <2>2, <2>4, <2>5, CallsAreListed DEF S
  <2>7. QED
    BY <2>6 DEF ids, parts
<1>4. CallsIn(parts, GeminiIds(parts)) \in CallList
  <2> DEFINE ids == GeminiIds(parts)
  <2>1. ids = [i \in S |-> [name |-> parts[i].name, at |-> <<0, i - 1>>]]
    BY DEF GeminiIds
  <2>2. \A i \in S : i - 1 \in Nat
    BY <1>1, PartsAt
  <2> HIDE DEF ids, S, parts
  <2>3. \A i \in S : ids[i].name = parts[i].name /\ ids[i].at = <<0, i - 1>>
    BY <2>1
  <2>4. \A i \in S : ids[i] \in CallId
    BY <1>2, <2>1, <2>2 DEF CallId
  <2>5. ids \in [S -> CallId]
    BY <2>1, <2>4
  <2>6. \A i, j \in S : ids[i] = ids[j] => i = j
    <3>1. ASSUME NEW i \in S, NEW j \in S, ids[i] = ids[j] PROVE i = j
      <4>1. <<0, i - 1>> = <<0, j - 1>>
        BY <2>3, <3>1
      <4>2. i - 1 = j - 1
        BY <4>1
      <4>3. i \in Nat /\ j \in Nat
        BY <1>2
      <4>4. QED
        BY <4>2, <4>3
    <3>2. QED
      BY <3>1
  <2>7. CallsIn(parts, ids) \in CallList
    BY <1>1, <2>3, <2>5, <2>6, CallsAreListed DEF S
  <2>8. QED
    BY <2>7 DEF ids, parts
<1>5. /\ Joined(parts, At(parts, "text")) \in Text \cup {Null}
      /\ Joined(parts, Texts(parts)) \in Text \cup {Null}
  BY <1>1, JoinedIsText DEF Texts
<1>6. \A t \in Text \cup {Null} : NonEmpty(t) \in Text \cup {Null}
  BY DEF NonEmpty
<1> DEFINE Fine(a) == /\ a.kind \in {"empty", "final", "calls"}
                      /\ a.kind = "final" => a.text \in Text \cup {Null}
                      /\ a.kind = "calls" => a.text \in Text \cup {Null} /\ a.calls \in CallList
<1>7. ASSUME NEW t \in Text \cup {Null}, NEW cs \in CallList
      PROVE  Fine(ToolCalls(t, cs)) /\ Fine(FinalOrEmpty(t))
  BY DEF ToolCalls, FinalOrEmpty, Final, Empty
<1> HIDE DEF Fine
<1>8. Fine(AnthropicResponse(r, n))
  BY <1>3, <1>5, <1>7 DEF AnthropicResponse
<1>9. Fine(OpenAiResponse(r, n))
  BY <1>3, <1>5, <1>6, <1>7 DEF OpenAiResponse
<1>10. Fine(GeminiResponse(r))
  BY <1>4, <1>5, <1>7 DEF GeminiResponse
<1>11. Fine(Response(p, r, n))
  BY <1>8, <1>9, <1>10 DEF Response, Providers
<1>12. QED
  BY <1>11 DEF Fine

-----------------------------------------------------------------------------
(* Steps. *)

\* h is a history that the running chat may come to.
Continues(h) ==
  /\ h \in Seq(Message)
  /\ h # <<>>
  /\ prior <= Len(h)
  /\ \A i \in 1..prior : h[i] = history[i]

LEMMA ContinuesBy ==
  ASSUME TypeInv, NEW m \in Message
  PROVE  Continues(Append(history, m))
<1>1. history \in Seq(Message) /\ prior \in 0..Len(history)
  BY DEF TypeInv
<1>2. /\ Append(history, m) \in Seq(Message) /\ Append(history, m) # <<>>
      /\ Len(Append(history, m)) = Len(history) + 1
      /\ \A i \in 1..Len(history) : Append(history, m)[i] = history[i]
  BY <1>1, Grows
<1>3. QED
  BY <1>1, <1>2 DEF Continues

LEMMA InitHolds == Init => IndInv
<1> SUFFICES ASSUME Init PROVE IndInv
  OBVIOUS
<1>1. TypeInv
  BY DialogueAssumption DEF Init, TypeInv, Phases
<1>2. StoreInv
  BY DEF Init, StoreInv
<1>3. ShapeInv
  BY AnsweringNothing DEF Init, ShapeInv
<1>4. UserSpeaksLast
  BY DEF Init, UserSpeaksLast
<1>5. QED
  BY <1>1, <1>2, <1>3, <1>4 DEF IndInv

LEMMA FailStep ==
  ASSUME IndInv, Fail
  PROVE  IndInv'
<1>1. /\ UNCHANGED <<provider, rows, chats, said>>
      /\ phase' = "idle" /\ history' = <<>> /\ prior' = 0 /\ iteration' = 0
      /\ pending' = <<>> /\ tries' = 0
  BY DEF Fail, AtRest
<1>2. TypeInv'
  BY <1>1, DialogueAssumption DEF IndInv, TypeInv, Phases
<1>3. StoreInv'
  BY <1>1 DEF IndInv, StoreInv
<1>4. ShapeInv'
  BY <1>1, AnsweringNothing DEF IndInv, ShapeInv
<1>5. UserSpeaksLast'
  BY <1>1 DEF UserSpeaksLast
<1>6. QED
  BY <1>2, <1>3, <1>4, <1>5 DEF IndInv

LEMMA SucceedStep ==
  ASSUME IndInv, phase # "idle", NEW h, Continues(h), Answering(h, <<>>), Succeed(h)
  PROVE  IndInv'
<1> DEFINE new == NewTurns(h)
           n == Len(h)
<1>1. /\ UNCHANGED <<provider, chats>>
      /\ phase' = "idle" /\ history' = <<>> /\ prior' = 0 /\ iteration' = 0
      /\ pending' = <<>> /\ tries' = 0
      /\ said' = said \o new
      /\ rows' = rows \o [i \in DOMAIN new |-> Encode(new[i])]
  BY DEF Succeed, AtRest
<1>2. /\ said \in Seq(Message) /\ prior = Len(said) /\ prior \in Nat
      /\ h \in Seq(Message) /\ n \in Nat /\ prior <= n
      /\ \A i \in 1..prior : h[i] = Kept(said[i]) /\ said[i] \in Message
  <2>1. said \in Seq(Message) /\ prior = Len(said)
    BY DEF IndInv, TypeInv, StoreInv
  <2>2. h \in Seq(Message) /\ prior <= n
    BY DEF Continues
  <2>3. \A i \in 1..prior : h[i] = Kept(said[i])
    BY DEF IndInv, StoreInv, Continues
  <2>4. \A i \in 1..prior : said[i] \in Message
    BY <2>1
  <2>5. QED
    BY <2>1, <2>2, <2>3, <2>4
<1>3. /\ new \in Seq(Message) /\ Len(new) = n - prior /\ DOMAIN new = 1..(n - prior)
      /\ \A i \in 1..(n - prior) : new[i] = h[prior + i]
  BY <1>2 DEF NewTurns
<1> HIDE DEF new
<1>4. /\ said' \in Seq(Message) /\ Len(said') = n /\ DOMAIN said' = 1..n
      /\ \A i \in 1..prior : said'[i] = said[i]
      /\ \A i \in 1..(n - prior) : said'[prior + i] = new[i]
  BY <1>1, <1>2, <1>3
<1>5. TypeInv'
  BY <1>1, <1>4, DialogueAssumption DEF IndInv, TypeInv, Phases
<1>6. StoreInv'
  <2> DEFINE e == [i \in 1..(n - prior) |-> Encode(new[i])]
             old == [i \in 1..prior |-> Encode(said[i])]
  <2>1. rows' = old \o e
    <3>1. rows = [i \in DOMAIN said |-> Encode(said[i])]
      BY DEF IndInv, StoreInv
    <3>2. DOMAIN said = 1..prior
      BY <1>2
    <3>3. rows = old
      BY <3>1, <3>2
    <3>4. [i \in DOMAIN new |-> Encode(new[i])] = e
      BY <1>3
    <3> HIDE DEF old, e
    <3>5. QED
      BY <1>1, <3>3, <3>4, Zenon
  <2>2. /\ Len(old) = prior /\ Len(e) = n - prior
        /\ \A i \in 1..prior : old[i] = Encode(said[i])
        /\ \A i \in 1..(n - prior) : e[i] = Encode(new[i])
        /\ old \in Seq({Encode(m) : m \in Message})
        /\ e \in Seq({Encode(m) : m \in Message})
    <3>1. n - prior \in Nat
      BY <1>2
    <3>2. \A i \in 1..(n - prior) : new[i] \in Message
      BY <1>3
    <3>3. /\ old \in [1..prior -> {Encode(m) : m \in Message}]
          /\ e \in [1..(n - prior) -> {Encode(m) : m \in Message}]
      BY <1>2, <3>2
    <3>4. QED
      BY <1>2, <3>1, <3>3
  <2> HIDE DEF old, e
  <2>3. rows' = [i \in 1..n |-> IF i <= prior THEN old[i] ELSE e[i - prior]]
    <3>1. rows' \in Seq({Encode(m) : m \in Message}) /\ Len(rows') = n /\ DOMAIN rows' = 1..n
      BY <1>2, <2>1, <2>2
    <3>2. \A i \in 1..n : rows'[i] = IF i <= prior THEN old[i] ELSE e[i - prior]
      BY <1>2, <2>1, <2>2
    <3>3. rows' = [i \in 1..n |-> rows'[i]]
      BY <3>1
    <3>4. QED
      BY <3>2, <3>3
  <2>4. \A i \in 1..n : (IF i <= prior THEN old[i] ELSE e[i - prior]) = Encode(said'[i])
    <3>1. SUFFICES ASSUME NEW i \in 1..n
          PROVE  (IF i <= prior THEN old[i] ELSE e[i - prior]) = Encode(said'[i])
      OBVIOUS
    <3>2. CASE i <= prior
      <4>1. i \in 1..prior
        BY <1>2, <3>2
      <4>2. QED
        BY <1>4, <2>2, <3>2, <4>1
    <3>3. CASE ~(i <= prior)
      <4>1. i - prior \in 1..(n - prior) /\ prior + (i - prior) = i
        BY <1>2, <3>3
      <4>2. said'[i] = new[i - prior]
        BY <1>4, <4>1
      <4>3. QED
        BY <2>2, <3>3, <4>1, <4>2
    <3>4. QED
      BY <3>2, <3>3
  <2>5. rows' = [i \in DOMAIN said' |-> Encode(said'[i])]
    BY <1>4, <2>3, <2>4
  <2>6. QED
    BY <1>1, <2>5 DEF StoreInv
<1>7. ShapeInv'
  <2>1. \A i \in DOMAIN h : Alike(said'[i], h[i])
    <3>1. SUFFICES ASSUME NEW i \in 1..n PROVE Alike(said'[i], h[i])
      BY <1>2
    <3>2. CASE i <= prior
      <4>1. i \in 1..prior
        BY <1>2, <3>2
      <4>2. Alike(Kept(said[i]), said[i])
        BY <1>2, <4>1, KeptAlike
      <4>3. QED
        BY <1>2, <1>4, <4>1, <4>2 DEF Alike
    <3>3. CASE ~(i <= prior)
      <4>1. i - prior \in 1..(n - prior) /\ prior + (i - prior) = i
        BY <1>2, <3>3
      <4>2. said'[i] = h[i]
        BY <1>3, <1>4, <4>1
      <4>3. QED
        BY <4>2 DEF Alike
    <3>4. QED
      BY <3>2, <3>3
  <2>2. Answering(said', <<>>)
    BY <1>2, <1>4, <2>1, AnsweringAlike
  <2>3. QED
    BY <1>1, <2>2, AnsweringNothing DEF ShapeInv
<1>8. UserSpeaksLast'
  BY <1>1 DEF UserSpeaksLast
<1>9. QED
  BY <1>5, <1>6, <1>7, <1>8 DEF IndInv

LEMMA NextRoundStep ==
  ASSUME IndInv, phase # "idle", iteration < MaxIterations, NEW h, Continues(h),
         Answering(h, <<>>), h[Len(h)].role # "assistant", NextRound(h)
  PROVE  IndInv'
<1> DEFINE last == iteration + 1 = MaxIterations
           g == IF last THEN Append(h, User("text")) ELSE h
<1>1. /\ UNCHANGED <<provider, rows, prior, chats, said>>
      /\ history' = g /\ iteration' = iteration + 1 /\ pending' = <<>>
      /\ tries' = 0 /\ phase' = "asking"
  BY DEF NextRound
<1>2. User("text") \in Plain /\ User("text") \in Message /\ User("text").role = "user"
  <2>1. "text" \in Text \cup {Null}
    BY DEF Text
  <2>2. QED
    BY <2>1, Makes DEF User
<1>3. h \in Seq(Message) /\ h # <<>> /\ prior <= Len(h) /\ \A i \in 1..prior : h[i] = history[i]
  BY DEF Continues
<1>4. prior \in Nat /\ iteration \in Nat /\ iteration + 1 <= MaxIterations /\ MaxIterations \in Nat
  BY DialogueAssumption DEF IndInv, TypeInv
<1>5. Continues(g) /\ Answering(g, <<>>)
  <2>1. CASE ~last
    BY <2>1
  <2>2. CASE last
    <3>1. g = Append(h, User("text"))
      BY <2>2
    <3>2. /\ g \in Seq(Message) /\ Len(g) = Len(h) + 1 /\ Len(h) \in Nat
          /\ \A i \in 1..Len(h) : g[i] = h[i]
      BY <1>2, <1>3, <3>1, Grows
    <3>3. Answering(g, <<>>)
      BY <1>2, <1>3, <3>1, AnsweringPlain
    <3> HIDE DEF g
    <3>4. QED
      BY <1>3, <1>4, <3>2, <3>3 DEF Continues
  <2>3. QED
    BY <2>1, <2>2
<1>6. g[Len(g)].role # "assistant" /\ (last => g[Len(g)].role = "user")
  <2>1. CASE ~last
    BY <2>1
  <2>2. CASE last
    <3>1. g = Append(h, User("text")) /\ Len(g) = Len(h) + 1 /\ g[Len(h) + 1] = User("text")
      BY <1>2, <1>3, <2>2, Grows
    <3> HIDE DEF g
    <3>2. QED
      BY <1>2, <3>1
  <2>3. QED
    BY <2>1, <2>2
<1> HIDE DEF g
<1>7. TypeInv'
  BY <1>1, <1>4, <1>5, DialogueAssumption DEF IndInv, TypeInv, Phases, Continues
<1>8. StoreInv'
  BY <1>1, <1>5 DEF IndInv, StoreInv, Continues
<1>9. ShapeInv'
  BY <1>1, <1>5 DEF IndInv, ShapeInv
<1>10. UserSpeaksLast'
  BY <1>1, <1>6 DEF UserSpeaksLast
<1>11. QED
  BY <1>7, <1>8, <1>9, <1>10 DEF IndInv

\* Calls are answered next.
LEMMA CallingStep ==
  ASSUME IndInv, phase # "idle", iteration < MaxIterations, NEW h, Continues(h),
         NEW cs \in Seq(ToolCall), cs # <<>>, Answering(h, cs),
         history' = h, pending' = cs, phase' = "calling", tries' \in 0..MaxRetries,
         UNCHANGED <<provider, rows, prior, iteration, chats, said>>
  PROVE  IndInv'
<1>1. TypeInv'
  BY DEF IndInv, TypeInv, Phases, Continues
<1>2. StoreInv'
  BY DEF IndInv, StoreInv, Continues
<1>3. ShapeInv'
  BY DEF IndInv, ShapeInv
<1>4. UserSpeaksLast'
  BY DEF UserSpeaksLast
<1>5. QED
  BY <1>1, <1>2, <1>3, <1>4 DEF IndInv

LEMMA ChatStep ==
  ASSUME IndInv, Chat
  PROVE  IndInv'
<1> DEFINE l == LoadHistory(rows)
           u == User("text")
           h == Append(l, u)
<1>1. /\ phase = "idle" /\ chats < MaxChats /\ chats' = chats + 1
      /\ history' = h /\ prior' = Len(rows) /\ iteration' = 0 /\ phase' = "asking"
      /\ UNCHANGED <<provider, rows, pending, tries, said>>
  BY DEF Chat
<1>2. said \in Seq(Message) /\ pending = <<>> /\ Answering(said, <<>>)
  BY <1>1 DEF IndInv, TypeInv, ShapeInv
<1>3. /\ l = [i \in DOMAIN said |-> Kept(said[i])]
      /\ l \in Seq(Message) /\ Len(l) = Len(said) /\ Len(rows) = Len(said)
  BY <1>2, Loaded DEF IndInv
<1>4. u \in Plain /\ u \in Message /\ u.role = "user"
  <2>1. "text" \in Text \cup {Null}
    BY DEF Text
  <2>2. QED
    BY <2>1, Makes DEF User
<1> HIDE DEF l, u
<1>5. /\ h \in Seq(Message) /\ Len(h) = Len(said) + 1 /\ Len(said) \in Nat
      /\ \A i \in 1..Len(said) : h[i] = Kept(said[i])
      /\ h[Len(h)] = u
  <2>1. /\ h \in Seq(Message) /\ Len(h) = Len(l) + 1 /\ Len(l) \in Nat
        /\ \A i \in 1..Len(l) : h[i] = l[i]
        /\ h[Len(l) + 1] = u
    BY <1>3, <1>4, Grows
  <2>2. \A i \in 1..Len(said) : l[i] = Kept(said[i])
    BY <1>2, <1>3
  <2> HIDE DEF h
  <2>3. QED
    BY <1>3, <2>1, <2>2
<1>6. Answering(h, <<>>)
  <2>1. \A i \in DOMAIN said : Alike(l[i], said[i])
    BY <1>2, <1>3, KeptAlike
  <2>2. Answering(l, <<>>)
    BY <1>2, <1>3, <2>1, AnsweringAlike
  <2>3. QED
    BY <1>3, <1>4, <2>2, AnsweringPlain
<1> HIDE DEF h
<1>7. TypeInv'
  BY <1>1, <1>2, <1>3, <1>5, DialogueAssumption DEF IndInv, TypeInv, Phases
<1>8. StoreInv'
  BY <1>1, <1>3, <1>5 DEF IndInv, StoreInv
<1>9. ShapeInv'
  BY <1>1, <1>2, <1>6 DEF ShapeInv
<1>10. UserSpeaksLast'
  BY <1>1, <1>4, <1>5, DialogueAssumption DEF UserSpeaksLast
<1>11. QED
  BY <1>7, <1>8, <1>9, <1>10 DEF IndInv

\* The chat ends with the text t.
LEMMA EndsWith ==
  ASSUME IndInv, phase = "asking", NEW h, Continues(h), Answering(h, <<>>),
         NEW t \in Text \cup {Null}, Succeed(Append(h, Assistant(t)))
  PROVE  IndInv'
<1> DEFINE a == Assistant(t)
           g == Append(h, a)
<1>1. a \in Plain /\ a \in Message
  BY Makes
<1>2. h \in Seq(Message) /\ prior <= Len(h) /\ \A i \in 1..prior : h[i] = history[i]
  BY DEF Continues
<1>3. /\ g \in Seq(Message) /\ g # <<>> /\ Len(g) = Len(h) + 1 /\ Len(h) \in Nat
      /\ \A i \in 1..Len(h) : g[i] = h[i]
  BY <1>1, <1>2, Grows
<1>4. Answering(g, <<>>)
  BY <1>1, <1>2, AnsweringPlain
<1>5. prior \in Nat
  BY DEF IndInv, TypeInv
<1> HIDE DEF g
<1>6. Continues(g)
  BY <1>2, <1>3, <1>5 DEF Continues
<1>7. QED
  BY <1>4, <1>6, SucceedStep DEF g, a

LEMMA HereContinues ==
  ASSUME IndInv, phase # "idle"
  PROVE  Continues(history)
BY DEF IndInv, TypeInv, Continues

LEMMA IterateStep ==
  ASSUME IndInv, NEW r \in Responses, Iterate(r)
  PROVE  IndInv'
<1> DEFINE a == Response(provider, r, Len(history))
           h == Append(history, Calling(a.text, a.calls))
<1>1. /\ phase = "asking" /\ iteration < MaxIterations
      /\ provider \in Providers /\ history \in Seq(Message) /\ Len(history) \in Nat
      /\ pending = <<>> /\ Answering(history, <<>>) /\ tries \in 0..MaxRetries
  BY DEF Iterate, IndInv, TypeInv, ShapeInv
<1>2. /\ a.kind \in {"empty", "final", "calls"}
      /\ a.kind = "final" => a.text \in Text \cup {Null}
      /\ a.kind = "calls" => a.text \in Text \cup {Null} /\ a.calls \in CallList
  BY <1>1, ResponseIs
<1>3. CASE a.kind = "empty"
  <2>1. Fail
    BY <1>3 DEF Iterate
  <2>2. QED
    BY <2>1, FailStep
<1>4. CASE a.kind = "final"
  <2>1. Succeed(Append(history, Assistant(a.text)))
    BY <1>4 DEF Iterate
  <2>2. Continues(history)
    BY <1>1, HereContinues
  <2>3. QED
    BY <1>1, <1>2, <1>4, <2>1, <2>2, EndsWith
<1>5. CASE a.kind = "calls"
  <2>1. Calling(a.text, a.calls) \in Turn /\ Calling(a.text, a.calls) \in Message
    BY <1>2, <1>5, Makes
  <2>2. Continues(h)
    BY <2>1, ContinuesBy DEF IndInv
  <2>3. Answering(h, a.calls)
    <3>1. Calling(a.text, a.calls).calls = a.calls
      BY DEF Calling
    <3>2. QED
      BY <1>1, <2>1, <3>1, AnsweringTurn
  <2>4. IF a.calls = <<>>
        THEN NoCalls(h, a.text)
        ELSE /\ history' = h
             /\ pending' = a.calls
             /\ phase' = "calling"
             /\ UNCHANGED <<provider, rows, prior, iteration, tries, chats, said>>
    BY <1>5 DEF Iterate
  <2>5. a.calls \in Seq(ToolCall)
    BY <1>2, <1>5 DEF CallList
  <2>6. a.text \in Text \cup {Null}
    BY <1>2, <1>5
  <2> HIDE DEF h, a
  <2>7. CASE a.calls # <<>>
    <3>1. /\ history' = h /\ pending' = a.calls /\ phase' = "calling" /\ tries' \in 0..MaxRetries
          /\ UNCHANGED <<provider, rows, prior, iteration, chats, said>>
      BY <1>1, <2>4, <2>7
    <3>2. QED
      BY <1>1, <2>2, <2>3, <2>5, <2>7, <3>1, CallingStep
  <2>8. CASE a.calls = <<>> /\ Succeed(Append(h, Assistant(a.text)))
    BY <1>1, <2>2, <2>3, <2>6, <2>8, EndsWith
  <2>9. CASE a.calls = <<>> /\ NextRound(Append(h, User("text")))
    <3> DEFINE u == User("text")
               g == Append(h, u)
    <3>1. u \in Plain /\ u \in Message /\ u.role = "user"
      <4>1. "text" \in Text \cup {Null}
        BY DEF Text
      <4>2. QED
        BY <4>1, Makes DEF User
    <3> HIDE DEF u
    <3>2. h \in Seq(Message) /\ prior <= Len(h) /\ prior \in Nat /\ \A i \in 1..prior : h[i] = history[i]
      BY <2>2 DEF Continues, IndInv, TypeInv
    <3>3. /\ g \in Seq(Message) /\ g # <<>> /\ Len(g) = Len(h) + 1 /\ Len(h) \in Nat
          /\ g[Len(g)] = u
          /\ \A i \in 1..Len(h) : g[i] = h[i]
      <4>1. /\ g \in Seq(Message) /\ Len(g) = Len(h) + 1 /\ Len(h) \in Nat
            /\ g[Len(h) + 1] = u
            /\ \A i \in 1..Len(h) : g[i] = h[i]
        BY <3>1, <3>2, Grows
      <4>2. g # <<>>
        BY <3>1, <3>2
      <4>3. QED
        BY <4>1, <4>2, Zenon
    <3>4. Answering(g, <<>>)
      BY <2>3, <2>9, <3>1, <3>2, AnsweringPlain
    <3> HIDE DEF g
    <3>5. Continues(g)
      BY <3>2, <3>3 DEF Continues
    <3>6. NextRound(g)
      BY <2>9 DEF g, u
    <3>7. g[Len(g)].role # "assistant"
      BY <3>1, <3>3
    <3>8. QED
      BY <1>1, <3>4, <3>5, <3>6, <3>7, NextRoundStep
  <2>10. QED
    BY <2>4, <2>7, <2>8, <2>9 DEF NoCalls
<1>6. QED
  BY <1>2, <1>3, <1>4, <1>5

LEMMA LastTurnStep ==
  ASSUME IndInv, NEW r \in Responses, LastTurn(r)
  PROVE  IndInv'
<1> DEFINE a == Response(provider, r, Len(history))
<1>1. /\ phase = "asking"
      /\ provider \in Providers /\ Len(history) \in Nat
      /\ pending = <<>> /\ Answering(history, <<>>)
  <2>1. phase = "asking"
    BY DEF LastTurn
  <2>2. provider \in Providers /\ history \in Seq(Message) /\ pending = <<>>
    BY <2>1 DEF IndInv, TypeInv
  <2>3. QED
    BY <2>1, <2>2 DEF IndInv, ShapeInv
<1>2. a.kind # "empty" => a.text \in Text \cup {Null}
  BY <1>1, ResponseIs
<1>3. Fail \/ (a.kind # "empty" /\ Succeed(Append(history, Assistant(a.text))))
  BY DEF LastTurn
<1>4. Continues(history)
  BY <1>1, HereContinues
<1> HIDE DEF a
<1>5. QED
  BY <1>1, <1>2, <1>3, <1>4, FailStep, EndsWith

LEMMA AnsweredStep ==
  ASSUME IndInv, phase \in {"calling", "recalling"}, NEW err \in BOOLEAN, Answered(err)
  PROVE  IndInv'
<1> DEFINE m == Result(Head(pending).id, err)
           h == Append(history, m)
<1>1. /\ pending \in Seq(ToolCall) /\ pending # <<>> /\ iteration < MaxIterations
      /\ history \in Seq(Message) /\ Answering(history, pending)
      /\ 0 \in 0..MaxRetries
  BY DialogueAssumption DEF IndInv, TypeInv, ShapeInv
<1>2. m \in Message /\ m.role = "tool"
  <2>1. Head(pending) \in ToolCall
    BY <1>1
  <2>2. Head(pending).id \in CallId
    BY <2>1 DEF ToolCall
  <2>3. QED
    BY <2>2, Makes DEF Result
<1>3. Answering(h, Tail(pending))
  BY <1>1, AnsweringResult
<1>4. Continues(h)
  BY <1>2, ContinuesBy DEF IndInv
<1>5. h[Len(h)].role # "assistant"
  <2>1. Len(h) = Len(history) + 1 /\ h[Len(history) + 1] = m
    BY <1>1, <1>2, Grows
  <2> HIDE DEF h, m
  <2>2. QED
    BY <1>2, <2>1
<1>6. /\ Tail(pending) \in Seq(ToolCall)
      /\ Len(pending) = 1 <=> Tail(pending) = <<>>
  <2>1. Tail(pending) \in Seq(ToolCall) /\ Len(Tail(pending)) = Len(pending) - 1 /\ Len(pending) \in Nat
    BY <1>1
  <2>2. QED
    BY <2>1
<1>7. IF Len(pending) = 1
      THEN NextRound(h)
      ELSE /\ history' = h
           /\ pending' = Tail(pending)
           /\ tries' = 0
           /\ phase' = "calling"
           /\ UNCHANGED <<provider, rows, prior, iteration, chats, said>>
  BY DEF Answered
<1> HIDE DEF h
<1>8. CASE Len(pending) = 1
  BY <1>1, <1>3, <1>4, <1>5, <1>6, <1>7, <1>8, NextRoundStep
<1>9. CASE Len(pending) # 1
  <2>1. /\ history' = h /\ pending' = Tail(pending) /\ tries' \in 0..MaxRetries
        /\ phase' = "calling"
        /\ UNCHANGED <<provider, rows, prior, iteration, chats, said>>
    BY <1>1, <1>7, <1>9
  <2>2. QED
    BY <1>1, <1>3, <1>4, <1>6, <1>9, <2>1, CallingStep
<1>10. QED
  BY <1>8, <1>9

LEMMA EmbedStep ==
  ASSUME IndInv, NEW o \in Outcomes, Embed(o)
  PROVE  IndInv'
<1>1. CASE Answered(~Usable(o))
  <2>1. phase \in {"calling", "recalling"}
    BY DEF Embed
  <2>2. (~Usable(o)) \in BOOLEAN
    BY DEF Usable
  <2>3. QED
    BY <1>1, <2>1, <2>2, AnsweredStep
<1>2. CASE /\ ~GivesUp(o) /\ tries' = tries + 1
           /\ UNCHANGED <<provider, rows, history, prior, iteration, pending, phase, chats, said>>
  <2>1. tries' \in 0..MaxRetries
    BY <1>2, DialogueAssumption DEF GivesUp, IndInv, TypeInv
  <2>2. TypeInv'
    BY <1>2, <2>1 DEF IndInv, TypeInv
  <2>3. StoreInv' /\ ShapeInv' /\ UserSpeaksLast'
    BY <1>2 DEF IndInv, StoreInv, ShapeInv, UserSpeaksLast
  <2>4. QED
    BY <2>2, <2>3 DEF IndInv
<1>3. QED
  BY <1>1, <1>2 DEF Embed

LEMMA NextStep ==
  ASSUME IndInv, [Next]_vars
  PROVE  IndInv'
<1>1. ASSUME NEW p \in Providers, SetProvider(p) PROVE IndInv'
  <2>1. phase = "idle" /\ provider' = p
        /\ UNCHANGED <<rows, history, prior, iteration, pending, tries, phase, chats, said>>
    BY <1>1 DEF SetProvider
  <2>2. TypeInv'
    BY <2>1 DEF IndInv, TypeInv
  <2>3. StoreInv' /\ ShapeInv' /\ UserSpeaksLast'
    BY <2>1 DEF IndInv, StoreInv, ShapeInv, UserSpeaksLast
  <2>4. QED
    BY <2>2, <2>3 DEF IndInv
<1>2. CASE ClearSession
  <2>1. /\ phase = "idle" /\ rows' = <<>> /\ said' = <<>>
        /\ UNCHANGED <<provider, history, prior, iteration, pending, tries, phase, chats>>
    BY <1>2 DEF ClearSession
  <2>2. TypeInv'
    BY <2>1 DEF IndInv, TypeInv
  <2>3. StoreInv'
    BY <2>1 DEF IndInv, StoreInv
  <2>4. ShapeInv'
    BY <2>1, AnsweringNothing DEF IndInv, ShapeInv
  <2>5. UserSpeaksLast'
    BY <2>1 DEF UserSpeaksLast
  <2>6. QED
    BY <2>2, <2>3, <2>4, <2>5 DEF IndInv
<1>3. CASE RequestFails
  BY <1>3, FailStep DEF RequestFails
<1>4. CASE CallTool \/ RefuseRecall
  BY <1>4, AnsweredStep DEF CallTool, RefuseRecall
<1>5. CASE StartRecall
  <2>1. /\ phase = "calling" /\ phase' = "recalling"
        /\ UNCHANGED <<provider, rows, history, prior, iteration, pending, tries, chats, said>>
    BY <1>5 DEF StartRecall, loopVars
  <2>2. TypeInv'
    BY <2>1 DEF IndInv, TypeInv, Phases
  <2>3. StoreInv' /\ ShapeInv' /\ UserSpeaksLast'
    BY <2>1 DEF IndInv, StoreInv, ShapeInv, UserSpeaksLast
  <2>4. QED
    BY <2>2, <2>3 DEF IndInv
<1>6. CASE UNCHANGED vars
  BY <1>6 DEF vars, IndInv, TypeInv, StoreInv, ShapeInv, UserSpeaksLast
<1>7. QED
  BY <1>1, <1>2, <1>3, <1>4, <1>5, <1>6, ChatStep, IterateStep, LastTurnStep, EmbedStep DEF Next

-----------------------------------------------------------------------------
(* What a request has for each message. *)

Pick(parts, type) ==
  LET at == InOrder(At(parts, type)) IN [k \in DOMAIN at |-> parts[at[k]]]

\* The parts of a type that stand next to each other.
LEMMA PickInterval ==
  ASSUME NEW parts, NEW type, NEW a \in Nat, NEW c \in Nat,
         At(parts, type) = (a + 1)..(a + c)
  PROVE  Pick(parts, type) = [k \in 1..c |-> parts[a + k]]
<1> DEFINE S == (a + 1)..(a + c)
           at == InOrder(S)
<1>1. S \in SUBSET (1..(a + c)) /\ a + c \in Nat
  OBVIOUS
<1>2. Cardinality(S) = c
  <2>1. a + 1 \in Int /\ a + c \in Int
    OBVIOUS
  <2>2. Cardinality(S) = IF a + 1 > a + c THEN 0 ELSE (a + c) - (a + 1) + 1
    BY <2>1, FS_Interval
  <2> HIDE DEF S
  <2>3. QED
    BY <2>2
<1>3. at \in [1..c -> S] /\ Increasing(at)
  <2> HIDE DEF S
  <2>1. QED
    BY <1>1, <1>2, OrderIs
<1> HIDE DEF at
<1>4. \A k \in 1..c : at[k] = a + k
  BY <1>3, OrderOfInterval
<1>5. Pick(parts, type) = [k \in DOMAIN at |-> parts[at[k]]]
  BY DEF Pick, at
<1>6. DOMAIN at = 1..c
  BY <1>3
<1>7. QED
  BY <1>4, <1>5, <1>6

LEMMA PickNone ==
  ASSUME NEW parts, NEW type, At(parts, type) = {}
  PROVE  Pick(parts, type) = <<>>
<1> DEFINE at == InOrder(At(parts, type))
<1>1. Cardinality(At(parts, type)) = 0 /\ At(parts, type) \in SUBSET (1..0)
  BY FS_EmptySet
<1>2. at \in [1..0 -> At(parts, type)]
  BY <1>1, OrderIs
<1> HIDE DEF at
<1>3. [k \in DOMAIN at |-> parts[at[k]]] = <<>>
  BY <1>2
<1>4. QED
  BY <1>3 DEF Pick, at

LEMMA PickOnly ==
  ASSUME NEW x, NEW type
  PROVE  Pick(<<x>>, type) = IF x.type = type THEN <<x>> ELSE <<>>
<1>1. CASE x.type = type
  <2>1. At(<<x>>, type) = (0 + 1)..(0 + 1)
    BY <1>1 DEF At
  <2>2. Pick(<<x>>, type) = [k \in 1..1 |-> <<x>>[0 + k]]
    BY <2>1, PickInterval
  <2>3. QED
    BY <1>1, <2>2
<1>2. CASE x.type # type
  <2>1. At(<<x>>, type) = {}
    BY <1>2 DEF At
  <2>2. QED
    BY <1>2, <2>1, PickNone
<1>3. QED
  BY <1>1, <1>2

\* A text, perhaps, and then calls.
LEMMA PickCalls ==
  ASSUME NEW c \in Nat, NEW f, f = [k \in 1..c |-> f[k]],
         \A k \in 1..c : f[k].type = "call",
         NEW x, x.type = "text", NEW pre \in {<<>>, <<x>>}
  PROVE  /\ Pick(pre \o f, "call") = f
         /\ Pick(pre \o f, "answer") = <<>>
<1> DEFINE X == {x} \cup {f[k] : k \in 1..c}
           ps == pre \o f
           a == Len(pre)
<1>1. f \in Seq(X) /\ Len(f) = c
  <2>1. f \in [1..c -> X]
    OBVIOUS
  <2>2. QED
    BY <2>1
<1>2. pre \in Seq(X) /\ a \in {0, 1} /\ \A i \in 1..a : pre[i] = x
  <2>1. CASE pre = <<>>
    BY <2>1
  <2>2. CASE pre = <<x>>
    <3>1. a = 1 /\ pre[1] = x /\ x \in X
      BY <2>2
    <3>2. pre \in Seq(X)
      BY <2>2, <3>1
    <3>3. QED
      BY <3>1, <3>2
  <2>3. QED
    BY <2>1, <2>2
<1> HIDE DEF X
<1>3. /\ DOMAIN ps = 1..(a + c)
      /\ \A i \in 1..a : ps[i] = x
      /\ \A k \in 1..c : ps[a + k] = f[k]
  BY <1>1, <1>2
<1> HIDE DEF ps, a
<1>4. a \in Nat
  BY <1>2
<1>5. \A i \in DOMAIN ps : i \in 1..a \/ \E k \in 1..c : i = a + k
  <2>1. SUFFICES ASSUME NEW i \in 1..(a + c), i \notin 1..a PROVE \E k \in 1..c : i = a + k
    BY <1>3
  <2>2. i - a \in 1..c /\ i = a + (i - a)
    BY <1>4, <2>1
  <2>3. QED
    BY <2>2
<1>6. At(ps, "call") = (a + 1)..(a + c)
  <2>1. ASSUME NEW i \in At(ps, "call") PROVE i \in (a + 1)..(a + c)
    <3>1. i \in DOMAIN ps /\ ps[i].type = "call"
      BY <2>1 DEF At
    <3>2. i \notin 1..a
      BY <1>3, <3>1
    <3>3. QED
      BY <1>3, <1>4, <3>1, <3>2
  <2>2. ASSUME NEW i \in (a + 1)..(a + c) PROVE i \in At(ps, "call")
    <3>1. i \in DOMAIN ps /\ i - a \in 1..c /\ i = a + (i - a)
      BY <1>3, <1>4
    <3>2. ps[i] = f[i - a]
      BY <1>3, <3>1
    <3>3. QED
      BY <3>1, <3>2 DEF At
  <2>3. QED
    BY <2>1, <2>2
<1>7. At(ps, "answer") = {}
  <2>1. \A i \in DOMAIN ps : ps[i].type \in {"text", "call"}
    BY <1>3, <1>5
  <2>2. QED
    BY <2>1 DEF At
<1>8. Pick(ps, "call") = [k \in 1..c |-> ps[a + k]]
  BY <1>4, <1>6, PickInterval
<1>9. [k \in 1..c |-> ps[a + k]] = f
  BY <1>3
<1>10. QED
  BY <1>7, <1>8, <1>9, PickNone DEF ps

\* The message of a provider, and the keys of a call and of a result in it.
Wire(p, m) ==
  CASE p = "anthropic" -> AnthropicMessage(m)
    [] p = "openai" -> OpenAiMessage(m)
    [] p = "gemini" -> GeminiMessage(m)

KeyOf(p, call) == IF p = "gemini" THEN call.name ELSE call.id
AnswerKey(p, id) == IF p = "gemini" THEN FunctionName(id) ELSE id

LEMMA WiredTurn ==
  ASSUME NEW p \in Providers, NEW m \in Turn
  PROVE  /\ Pick(Wire(p, m).parts, "call")
              = [k \in 1..Len(m.calls) |-> Call(KeyOf(p, m.calls[k]))]
         /\ Pick(Wire(p, m).parts, "answer") = <<>>
<1> DEFINE c == Len(m.calls)
           f == [k \in 1..c |-> Call(KeyOf(p, m.calls[k]))]
<1>1. m.role = "assistant" /\ Calls(m) /\ m \in Message
  BY Makes, Kinds
<1>2. c \in Nat /\ DOMAIN m.calls = 1..c
  BY TurnCalls
<1>3. f = [k \in 1..c |-> f[k]] /\ \A k \in 1..c : f[k].type = "call"
  BY DEF Call
<1>4. PICK x, pre : x.type = "text" /\ pre \in {<<>>, <<x>>} /\ Wire(p, m).parts = pre \o f
  <2>1. CASE p = "anthropic"
    <3>1. Wire(p, m).parts = Optional(m.text) \o f
      BY <1>1, <1>2, <2>1 DEF Wire, AnthropicMessage, Wired, KeyOf
    <3>2. Said(m.text).type = "text" /\ Optional(m.text) \in {<<>>, <<Said(m.text)>>}
      BY DEF Said, Optional
    <3>3. QED
      BY <3>1, <3>2
  <2>2. CASE p = "openai"
    <3>1. Wire(p, m).parts = <<Said(OrEmpty(m.text))>> \o f
      BY <1>1, <1>2, <2>2 DEF Wire, OpenAiMessage, Wired, KeyOf
    <3>2. Said(OrEmpty(m.text)).type = "text"
      BY DEF Said
    <3>3. QED
      BY <3>1, <3>2
  <2>3. CASE p = "gemini"
    <3>1. Wire(p, m).parts = Optional(m.text) \o f
      BY <1>1, <1>2, <2>3 DEF Wire, GeminiMessage, Wired, KeyOf
    <3>2. Said(m.text).type = "text" /\ Optional(m.text) \in {<<>>, <<Said(m.text)>>}
      BY DEF Said, Optional
    <3>3. QED
      BY <3>1, <3>2
  <2>4. QED
    BY <2>1, <2>2, <2>3 DEF Providers
<1> HIDE DEF f, c
<1>5. Pick(pre \o f, "call") = f /\ Pick(pre \o f, "answer") = <<>>
  BY <1>2, <1>3, <1>4, PickCalls
<1>6. QED
  BY <1>4, <1>5 DEF f, c

LEMMA WiredPlain ==
  ASSUME NEW p \in Providers, NEW m \in Plain
  PROVE  Pick(Wire(p, m).parts, "call") = <<>> /\ Pick(Wire(p, m).parts, "answer") = <<>>
<1>1. m.role \in {"user", "assistant"} /\ ~Calls(m)
  <2>1. m \notin Turn /\ m \in Message
    BY Makes DEF Plain, Turn
  <2>2. QED
    BY <2>1, Kinds
<1>2. Wire(p, m).parts = <<Said(m.text)>>
  BY <1>1 DEF Wire, Providers, AnthropicMessage, OpenAiMessage, GeminiMessage, Wired
<1>3. Said(m.text).type = "text"
  BY DEF Said
<1>4. QED
  BY <1>2, <1>3, PickOnly

LEMMA WiredOutcome ==
  ASSUME NEW p \in Providers, NEW m \in Outcome
  PROVE  /\ Pick(Wire(p, m).parts, "call") = <<>>
         /\ Pick(Wire(p, m).parts, "answer") = <<Answer(AnswerKey(p, m.id), m.err)>>
<1>1. m.role = "tool" /\ ~Calls(m)
  BY DEF Outcome, Calls
<1>2. Wire(p, m).parts = <<Answer(AnswerKey(p, m.id), m.err)>>
  BY <1>1 DEF Wire, Providers, AnthropicMessage, OpenAiMessage, GeminiMessage, Wired, AnswerKey
<1>3. Answer(AnswerKey(p, m.id), m.err).type = "answer"
  BY DEF Answer
<1>4. QED
  BY <1>2, <1>3, PickOnly

\* Without the system prompt a request has one message for each.
LEMMA RequestIs ==
  ASSUME NEW p \in Providers, NEW h \in Seq(Message)
  PROVE  LET shift == IF p = "openai" THEN 1 ELSE 0
         IN  SubSeq(Request(p, h), 1 + shift, Len(h) + shift) = [i \in 1..Len(h) |-> Wire(p, h[i])]
<1> DEFINE n == Len(h)
           f == [i \in 1..n |-> Wire(p, h[i])]
           X == {Wire(p, m) : m \in Message}
<1>1. n \in Nat /\ DOMAIN h = 1..n /\ \A i \in 1..n : h[i] \in Message
  OBVIOUS
<1>2. f \in Seq(X) /\ Len(f) = n /\ DOMAIN f = 1..n
  <2>1. f \in [1..n -> X]
    BY <1>1
  <2>2. QED
    BY <1>1, <2>1
<1>3. p = "openai" => Request(p, h) = <<Wired("system", <<Said("text")>>)>> \o f
  <2>1. SUFFICES ASSUME p = "openai" PROVE Request(p, h) = OpenAiRequest(h) /\ \A m : Wire(p, m) = OpenAiMessage(m)
    BY <1>1, <2>1 DEF OpenAiRequest
  <2>2. QED
    BY <2>1 DEF Request, Wire
<1>4. p = "anthropic" => Request(p, h) = f
  BY <1>1 DEF Request, AnthropicRequest, Wire
<1>5. p = "gemini" => Request(p, h) = f
  BY <1>1 DEF Request, GeminiRequest, Wire
<1> HIDE DEF f, X
<1>6. SubSeq(f, 1, n) = f
  BY <1>1, <1>2
<1>7. ASSUME NEW s PROVE SubSeq(<<s>> \o f, 2, n + 1) = f
  <2> DEFINE Y == X \cup {s}
             g == <<s>> \o f
  <2>1. f \in Seq(Y) /\ <<s>> \in Seq(Y)
    BY <1>2
  <2> HIDE DEF Y
  <2>2. g \in Seq(Y) /\ Len(g) = n + 1 /\ \A i \in 1..n : g[i + 1] = f[i]
    BY <1>1, <1>2, <2>1
  <2> HIDE DEF g
  <2>3. SubSeq(g, 2, n + 1) = [i \in 1..n |-> g[i + 1]]
    BY <1>1, <2>2
  <2>4. f = [i \in 1..n |-> f[i]]
    BY <1>2
  <2>5. QED
    BY <2>2, <2>3, <2>4 DEF g
<1>8. CASE p = "openai"
  BY <1>1, <1>3, <1>7, <1>8 DEF f
<1>9. CASE p # "openai"
  BY <1>1, <1>4, <1>5, <1>6, <1>9 DEF Providers, f
<1>10. QED
  BY <1>8, <1>9

\* In the messages that p is sent for h, the answers follow the calls.
InPlace(p, h, request) ==
  LET calls == Parts(request, "call")
      answers == Parts(request, "answer")
      Covered(j) == \E i \in 1..(j - 1) : j - i <= Len(calls[i])
  IN  /\ \A i \in DOMAIN request :
           /\ p # "gemini" => Distinct(Keys(calls[i]))
           /\ \A k \in DOMAIN calls[i] :
                /\ i + k <= Len(request)
                /\ Len(answers[i + k]) = 1
                /\ answers[i + k][1].key =
                     IF p = "gemini" /\ Foreign(h, i + k)
                     THEN DefaultTool ELSE calls[i][k].key
      /\ \A j \in DOMAIN request : answers[j] # <<>> => Covered(j)

LEMMA AnswersFollow ==
  ASSUME NEW h \in Seq(Message), Answering(h, <<>>), NEW p \in Providers
  PROVE  InPlace(p, h, [i \in 1..Len(h) |-> Wire(p, h[i])])
<1> DEFINE n == Len(h)
           request == [i \in 1..n |-> Wire(p, h[i])]
           calls == Parts(request, "call")
           answers == Parts(request, "answer")
<1>1. n \in Nat /\ DOMAIN h = 1..n /\ \A i \in 1..n : h[i] \in Message
  OBVIOUS
<1>2. DOMAIN request = 1..n /\ Len(request) = n
  BY <1>1
<1>3. \A i \in 1..n : /\ calls[i] = Pick(Wire(p, h[i]).parts, "call")
                      /\ answers[i] = Pick(Wire(p, h[i]).parts, "answer")
  BY DEF Parts, Pick
<1> HIDE DEF request, calls, answers
<1>4. ASSUME NEW i \in 1..n, h[i] \in Turn
      PROVE  /\ calls[i] = [k \in 1..Len(h[i].calls) |-> Call(KeyOf(p, h[i].calls[k]))]
             /\ answers[i] = <<>>
             /\ Len(calls[i]) = Len(h[i].calls)
             /\ Len(h[i].calls) \in Nat
  <2>1. /\ calls[i] = [k \in 1..Len(h[i].calls) |-> Call(KeyOf(p, h[i].calls[k]))]
        /\ answers[i] = <<>>
    BY <1>3, <1>4, WiredTurn
  <2>2. Len(h[i].calls) \in Nat
    BY <1>4, TurnCalls
  <2>3. QED
    BY <2>1, <2>2
<1>5. ASSUME NEW i \in 1..n, h[i] \in Outcome
      PROVE  calls[i] = <<>> /\ answers[i] = <<Answer(AnswerKey(p, h[i].id), h[i].err)>>
  BY <1>3, <1>5, WiredOutcome
<1>6. ASSUME NEW i \in 1..n, h[i] \in Plain
      PROVE  calls[i] = <<>> /\ answers[i] = <<>>
  BY <1>3, <1>6, WiredPlain
<1>7. ASSUME NEW i \in 1..n, p # "gemini" PROVE Distinct(Keys(calls[i]))
  <2>1. CASE h[i] \notin Turn
    <3>1. calls[i] = <<>>
      BY <1>1, <1>5, <1>6, <2>1 DEF Message
    <3>2. QED
      BY <3>1 DEF Distinct, Keys
  <2>2. CASE h[i] \in Turn
    <3> DEFINE cs == h[i].calls
    <3>1. /\ DOMAIN cs = 1..Len(cs)
          /\ \A k, l \in DOMAIN cs : cs[k].id = cs[l].id => k = l
      <4>1. cs \in CallList /\ DOMAIN cs = 1..Len(cs)
        BY <2>2, TurnCalls
      <4>2. QED
        BY <4>1 DEF CallList
    <3> HIDE DEF cs
    <3>2. calls[i] = [k \in 1..Len(cs) |-> Call(KeyOf(p, cs[k]))]
      BY <1>4, <2>2 DEF cs
    <3>3. \A k \in 1..Len(cs) : calls[i][k].key = cs[k].id
      BY <1>7, <3>2 DEF Call, KeyOf
    <3>4. Keys(calls[i]) = [k \in 1..Len(cs) |-> cs[k].id]
      BY <3>2, <3>3 DEF Keys
    <3>5. QED
      BY <3>1, <3>4 DEF Distinct
  <2>3. QED
    BY <2>1, <2>2
<1>8. ASSUME NEW i \in 1..n, NEW k \in DOMAIN calls[i]
      PROVE  /\ i + k <= Len(request)
             /\ Len(answers[i + k]) = 1
             /\ answers[i + k][1].key =
                  IF p = "gemini" /\ Foreign(h, i + k) THEN DefaultTool ELSE calls[i][k].key
  <2>1. h[i] \in Turn
    BY <1>1, <1>5, <1>6, <1>8 DEF Message
  <2> DEFINE cs == h[i].calls
             j == i + k
  <2>2. /\ cs \in CallList /\ DOMAIN cs = 1..Len(cs) /\ k \in DOMAIN cs
        /\ k \in Nat \ {0}
        /\ calls[i][k] = Call(KeyOf(p, cs[k]))
    BY <1>4, <1>8, <2>1, TurnCalls
  <2>3. j <= n /\ h[j].role = "tool" /\ h[j].id = cs[k].id
    BY <1>1, <2>1, <2>2 DEF Answering, Awaited
  <2>4. j \in 1..n
    BY <1>1, <2>2, <2>3
  <2>5. h[j] \in Outcome
    BY <1>1, <2>3, <2>4, Kinds
  <2>6. answers[j] = <<Answer(AnswerKey(p, cs[k].id), h[j].err)>>
    BY <1>5, <2>3, <2>4, <2>5
  <2>7. Len(answers[j]) = 1 /\ answers[j][1].key = AnswerKey(p, cs[k].id)
    BY <2>6 DEF Answer
  <2>8. calls[i][k].key = KeyOf(p, cs[k])
    BY <2>2 DEF Call
  <2>9. cs[k].id.name \in {Null, cs[k].name}
    BY <2>2 DEF CallList
  <2>10. Foreign(h, j) <=> cs[k].id.name = Null
    BY <2>3 DEF Foreign
  <2> HIDE DEF cs, j
  <2>11. AnswerKey(p, cs[k].id)
           = IF p = "gemini" /\ Foreign(h, j) THEN DefaultTool ELSE KeyOf(p, cs[k])
    BY <2>9, <2>10 DEF AnswerKey, KeyOf, FunctionName
  <2>12. QED
    BY <1>2, <2>3, <2>7, <2>8, <2>11 DEF j
<1>9. ASSUME NEW j \in 1..n, answers[j] # <<>>
      PROVE  \E i \in 1..(j - 1) : j - i <= Len(calls[i])
  <2>1. h[j] \in Outcome
    BY <1>1, <1>4, <1>6, <1>9 DEF Message
  <2>2. h[j].role = "tool"
    BY <2>1 DEF Outcome
  <2>3. PICK i \in 1..(j - 1) : h[i] \in Turn /\ j - i <= Len(h[i].calls)
    BY <1>1, <2>2 DEF Answering, Called
  <2>4. i \in 1..n
    BY <1>1
  <2>5. Len(calls[i]) = Len(h[i].calls)
    BY <1>4, <2>3, <2>4
  <2>6. QED
    BY <2>3, <2>5
<1>10. QED
  BY <1>2, <1>7, <1>8, <1>9 DEF InPlace, request, calls, answers

-----------------------------------------------------------------------------
(* Theorems. *)

\* Every reachable state satisfies the inductive invariant: the rows are what
\* was said, and in every history each call has its result next to it.
THEOREM SessionsAreSound == Spec => []IndInv
<1>1. QED
  BY InitHolds, NextStep, PTL DEF Spec

\* TypeOK: the variables of the loop have values of their types, and calls are
\* pending only while the loop is answering them.
THEOREM TypeCorrect == Spec => []TypeOK
<1>1. IndInv => TypeOK
  <2>1. SUFFICES ASSUME IndInv PROVE TypeOK
    OBVIOUS
  <2>2. \A m \in Message : m.role \in {"user", "assistant", "tool"} /\ Encode(m).role \in {"user", "assistant", "tool"}
    <3>1. SUFFICES ASSUME NEW m \in Message
          PROVE  m.role \in {"user", "assistant", "tool"} /\ Encode(m).role \in {"user", "assistant", "tool"}
      OBVIOUS
    <3>2. m.role \in {"user", "assistant", "tool"}
      BY DEF Message, Plain, Turn, Outcome
    <3>3. CASE m.role = "tool"
      <4>1. ~Calls(m)
        BY <3>3, Kinds
      <4>2. Encode(m) = Row("tool", "text", Null, m.id, m.err)
        BY <3>3, <4>1 DEF Encode
      <4>3. QED
        BY <3>2, <4>2 DEF Row
    <3>4. CASE m.role # "tool" /\ Calls(m)
      <4>1. Encode(m) = Row("assistant", OrEmpty(m.text), m.calls, Null, Null)
        BY <3>4 DEF Encode
      <4>2. QED
        BY <3>2, <4>1 DEF Row
    <3>5. CASE m.role # "tool" /\ ~Calls(m)
      <4>1. Encode(m) = Row(m.role, m.text, Null, Null, Null)
        BY <3>5 DEF Encode
      <4>2. QED
        BY <3>2, <4>1 DEF Row
    <3>6. QED
      BY <3>3, <3>4, <3>5
  <2>3. said \in Seq(Message) /\ history \in Seq(Message) /\ pending \in Seq(ToolCall)
    BY <2>1 DEF IndInv, TypeInv
  <2>4. \A i \in DOMAIN rows : rows[i].role \in {"user", "assistant", "tool"}
    <3>1. rows = [i \in DOMAIN said |-> Encode(said[i])]
      BY <2>1 DEF IndInv, StoreInv
    <3>2. QED
      BY <2>2, <2>3, <3>1
  <2>5. \A i \in DOMAIN history : history[i].role \in {"user", "assistant", "tool"}
    BY <2>2, <2>3
  <2>6. \A i \in DOMAIN pending : pending[i].name \in Tools
    <3>1. \A x \in ToolCall : x.name \in Tools
      BY DEF ToolCall
    <3>2. QED
      BY <2>3, <3>1
  <2>7. QED
    BY <2>1, <2>4, <2>5, <2>6 DEF IndInv, TypeInv, TypeOK
<1>2. QED
  BY <1>1, SessionsAreSound, PTL

\* UserSpeaksLast: a provider is always asked by the user's side, and the last
\* turn is announced, however nudges, empty call lists and the limit meet.
THEOREM UserIsLast == Spec => []UserSpeaksLast
<1>1. IndInv => UserSpeaksLast
  BY DEF IndInv
<1>2. QED
  BY <1>1, SessionsAreSound, PTL

\* StoredIsSaid: the rows of a session, loaded again, read to every provider
\* as what the agent had said.
THEOREM StoreIsFaithful == Spec => []StoredIsSaid
<1>1. IndInv => StoredIsSaid
  <2>1. SUFFICES ASSUME IndInv, NEW p \in Providers
        PROVE  Request(p, LoadHistory(rows)) = Request(p, said)
    BY DEF StoredIsSaid
  <2>2. said \in Seq(Message)
    BY <2>1 DEF IndInv, TypeInv
  <2>3. LoadHistory(rows) = [i \in DOMAIN said |-> Kept(said[i])]
    BY <2>1, <2>2, Loaded DEF IndInv
  <2> DEFINE l == LoadHistory(rows)
  <2>4. DOMAIN l = DOMAIN said
    BY <2>3
  <2>5. \A i \in DOMAIN said : /\ AnthropicMessage(l[i]) = AnthropicMessage(said[i])
                               /\ OpenAiMessage(l[i]) = OpenAiMessage(said[i])
                               /\ GeminiMessage(l[i]) = GeminiMessage(said[i])
    <3>1. \A i \in DOMAIN said : said[i] \in Message /\ l[i] = Kept(said[i])
      BY <2>2, <2>3
    <3> HIDE DEF l
    <3>2. QED
      BY <3>1, KeptReadsAlike
  <2> HIDE DEF l
  <2>6. AnthropicRequest(l) = AnthropicRequest(said)
    BY <2>4, <2>5 DEF AnthropicRequest
  <2>7. GeminiRequest(l) = GeminiRequest(said)
    BY <2>4, <2>5 DEF GeminiRequest
  <2>8. OpenAiRequest(l) = OpenAiRequest(said)
    <3>1. [i \in DOMAIN l |-> OpenAiMessage(l[i])] = [i \in DOMAIN said |-> OpenAiMessage(said[i])]
      BY <2>4, <2>5
    <3>2. QED
      BY <3>1 DEF OpenAiRequest
  <2>9. Request(p, l) = Request(p, said)
    BY <2>6, <2>7, <2>8 DEF Request
  <2>10. QED
    BY <2>9 DEF l
<1>2. QED
  BY <1>1, SessionsAreSound, PTL

\* AnswersFollowCalls: in every request, to whichever provider the session has
\* moved on, the results follow the turn that called for them, in its order and
\* under its keys, and there is no other result.
THEOREM AnswersAreInPlace == Spec => []AnswersFollowCalls
<1>1. IndInv => AnswersFollowCalls
  <2>1. SUFFICES ASSUME IndInv, phase = "asking"
        PROVE  AnswersFollowCalls
    BY DEF AnswersFollowCalls
  <2>2. history \in Seq(Message) /\ Answering(history, <<>>)
    BY <2>1 DEF IndInv, TypeInv, ShapeInv
  <2>3. ASSUME NEW p \in Providers
        PROVE  LET shift == IF p = "openai" THEN 1 ELSE 0
               IN  InPlace(p, history, SubSeq(Request(p, history), 1 + shift, Len(history) + shift))
    BY <2>2, RequestIs, AnswersFollow
  <2>4. QED
    BY <2>1, <2>3 DEF AnswersFollowCalls, InPlace
<1>2. QED
  BY <1>1, SessionsAreSound, PTL

===============================================================================
