---------------------------- MODULE AskCallProofs ----------------------------
(***************************************************************************)
(* Proofs about AskCall, for any set of roles, any budget of iterations,   *)
(* any number of calls and of tool calls in a reply.                       *)
(***************************************************************************)
EXTENDS AskCall, TLAPS

USE AskAssumption DEF AskAssumption

-----------------------------------------------------------------------------
(* What the actions do to a db, to the stack and to the history. *)

LEMMA SettingsMade ==
  ASSUME NEW d \in Db, NEW p \in {"client", "call"}, NEW w \in BOOLEAN
  PROVE  LET e == [d EXCEPT !.path = p, !.writable = w]
         IN  /\ e \in Db
             /\ e.writable = w
             /\ e.audit = d.audit /\ e.writes = d.writes
<1> DEFINE m == [d EXCEPT !.path = p]
           e == [m EXCEPT !.writable = w]
<1>1. m \in Db /\ m.audit = d.audit /\ m.writes = d.writes
  BY DEF Db
<1> HIDE DEF m
<1>2. e \in Db /\ e.writable = w /\ e.audit = m.audit /\ e.writes = m.writes
  BY <1>1 DEF Db
<1>3. QED
  BY <1>1, <1>2 DEF m

LEMMA RecordsCleared ==
  ASSUME NEW d \in Db
  PROVE  LET e == [d EXCEPT !.audit = {}, !.writes = {}]
         IN  /\ e \in Db
             /\ e.writes = {}
             /\ e.writable = d.writable
<1> DEFINE m == [d EXCEPT !.audit = {}]
           e == [m EXCEPT !.writes = {}]
<1>1. m \in Db /\ m.writable = d.writable
  BY DEF Db
<1> HIDE DEF m
<1>2. e \in Db /\ e.writable = m.writable /\ e.writes = {}
  BY <1>1 DEF Db
<1>3. QED
  BY <1>1, <1>2 DEF m

LEMMA TracedDb ==
  ASSUME db \in Db, ask \in 0 .. MaxAsks
  PROVE  Traced \in Db /\ Traced.writable = db.writable
<1> DEFINE m == [db EXCEPT !.traced = ask]
           e == [m EXCEPT !.audit = {}, !.writes = {}]
<1>1. m \in Db /\ m.writable = db.writable
  BY DEF Db
<1>2. Traced = e
  BY Zenon DEF Traced
<1> HIDE DEF m
<1>3. QED
  BY <1>1, <1>2, RecordsCleared

LEMMA Appended ==
  ASSUME NEW S, NEW s \in Seq(S), NEW d \in S
  PROVE  /\ Append(s, d) \in Seq(S)
         /\ Len(Append(s, d)) = Len(s) + 1
         /\ \A i \in 1 .. Len(s) : Append(s, d)[i] = s[i]
         /\ Append(s, d)[Len(s) + 1] = d
OBVIOUS

LEMMA LevelOpened ==
  ASSUME NEW s \in Seq(Db), NEW d \in Db
  PROVE  Len(s) = 1 => /\ Append(s, d) \in Seq(Db)
                       /\ Len(Append(s, d)) = 2
                       /\ Append(s, d)[2] = d
<1>1. /\ Append(s, d) \in Seq(Db)
      /\ Len(Append(s, d)) = Len(s) + 1
      /\ Append(s, d)[Len(s) + 1] = d
  OBVIOUS
<1>2. Len(s) = 1 => Len(s) + 1 = 2
  OBVIOUS
<1>3. QED
  BY <1>1, <1>2, Zenon

LEMMA LevelClosed ==
  ASSUME NEW s \in Seq(Db), Len(s) = 2
  PROVE  SubSeq(s, 1, 1) \in Seq(Db) /\ Len(SubSeq(s, 1, 1)) = 1
OBVIOUS

LEMMA Said ==
  ASSUME NEW r \in {"user", "assistant", "tool"}, NEW n \in 0 .. MaxCalls
  PROVE  Say(r, n) \in Message /\ Say(r, n).role = r /\ Say(r, n).calls = n
BY DEF Say, Message

LEMMA TwoMessages ==
  ASSUME NEW h \in Seq(Message), NEW a \in Message, NEW b \in Message
  PROVE  h \o <<a, b>> = Append(Append(h, a), b) /\ h \o <<a, b>> \in Seq(Message)
OBVIOUS

-----------------------------------------------------------------------------
(* The inductive invariant. *)

\* A tool call runs in a subtransaction or has just left it.
Running == phase \in {"body", "finish"} /\ tool # "explain"

\* The loop makes a request and counts an iteration: only a call that is about
\* to end has made a request more.
BudgetInv ==
  /\ turns <= iteration + 1
  /\ (phase \in {"turn", "dispatch"} \/ Running) => turns <= iteration

\* Calls are pending exactly while the loop dispatches them.
PendingInv ==
  /\ (phase # "dispatch" /\ ~Running) => pending = 0
  /\ phase = "dispatch" => pending > 0
  /\ tool = "explain" => phase \in {"body", "finish"}

\* What there is to return in the phase that returns it, and that the
\* subtransaction of EXPLAIN writes nothing.
ResultInv ==
  /\ phase = "finish" => result \in {"ok", "err", "raised"}
  /\ phase = "trace" => result \in {"answered", "unanswered", "failed"}
  /\ (phase = "body" /\ tool = "explain") => ~db.writable

CoreInv == TypeOK /\ BudgetInv /\ PendingInv /\ ResultInv

\* Rolling back the subtransaction brings the client's settings back.
ScopeInv ==
  /\ ReadOnlyScoped
  /\ phase = "body" => stack[2].writable = ~txnRead

\* The calls of h are answered but the last p, which are at its end.
Answered(h, p) ==
  \A i \in 1 .. Len(h) :
    h[i].calls > 0 =>
      /\ i + h[i].calls <= Len(h) + p
      /\ \A j \in 1 .. h[i].calls : i + j <= Len(h) => h[i + j].role = "tool"

\* The calls of a reply run from the last to the first, counting down: what
\* is written is written by the one that runs or by an earlier one, and of the
\* one that runs it is there until the rollback.
WritesInv ==
  /\ \A w \in db.writes \cup wrote : w >= pending /\ (w = pending => Running)
  /\ Running => (pending \in db.writes <=>
                   pending \in wrote /\ ~(phase = "finish" /\ result = "raised"))

\* Rolling back the subtransaction keeps the audit rows and undoes the writes
\* of the call that runs, and no other's.
LevelInv ==
  phase = "body" => /\ stack[2].audit = db.audit
                    /\ stack[2].writes = db.writes \ {pending}

ToldInv == \A q \in told : q[1] > pending

RecordInv == Running /\ tool \in QueryTools => <<pending, "in flight">> \in db.audit

AuditInv ==
  WritesInv /\ LevelInv /\ ToldInv /\ RecordInv /\ QueriesAudited /\ RaisedMeansUndone

-----------------------------------------------------------------------------
(* Type correctness. *)

LEMMA InitCore == Init => CoreInv
<1> SUFFICES ASSUME Init PROVE CoreInv
  OBVIOUS
<1> USE DEF Init
<1>1. db \in Db
  BY DEF Db
<1>2. stack \in Seq(Db) /\ Len(stack) = 0
  OBVIOUS
<1>3. {txnRead, cfg, cancelled} \subseteq BOOLEAN
  OBVIOUS
<1>4. {cache, offered} \subseteq UserTools
  BY DEF NoTools, UserTools
<1>5. history \in Seq(Message)
  OBVIOUS
<1>6. told \subseteq Query \X (QueryTools \cup {"user"}) \X {"ok", "err", "raised"}
  OBVIOUS
<1>7. mode \in Modes /\ phase = "idle" /\ iteration = 0 /\ turns = 0 /\ pending = 0
      /\ ask = 0 /\ tool = "none" /\ result = "none" /\ outcome = "none"
  BY DEF Modes
<1>8. TypeOK
  BY <1>1, <1>2, <1>3, <1>4, <1>5, <1>6, <1>7 DEF TypeOK
<1>9. QED
  BY <1>7, <1>8 DEF CoreInv, BudgetInv, PendingInv, ResultInv, Running

LEMMA EndedCore ==
  ASSUME CoreInv, NEW o \in {"answered", "unanswered", "failed", "raised"}, Ended(o),
         db' \in Db, stack' \in Seq(Db), Len(stack') \in {0, 1}, txnRead' \in BOOLEAN
  PROVE  CoreInv'
<1> USE DEF Ended
<1>3. {txnRead, cfg, cancelled}' \subseteq BOOLEAN
  OBVIOUS
<1>4. {cache, offered}' \subseteq UserTools
  BY DEF NoTools, UserTools, CoreInv, TypeOK
<1>5. history' \in Seq(Message)
  OBVIOUS
<1>6. (told \subseteq Query \X (QueryTools \cup {"user"}) \X {"ok", "err", "raised"})'
  OBVIOUS
<1>7. mode' \in Modes /\ phase' = "idle" /\ iteration' = 0 /\ turns' = 0 /\ pending' = 0
      /\ ask' \in 0 .. MaxAsks /\ tool' = "none" /\ result' = "none" /\ outcome' = o
  BY DEF Modes, CoreInv, TypeOK
<1>8. TypeOK'
  BY <1>3, <1>4, <1>5, <1>6, <1>7 DEF TypeOK
<1>9. QED
  BY <1>7, <1>8 DEF CoreInv, BudgetInv, PendingInv, ResultInv, Running

LEMMA AbortedCore ==
  ASSUME CoreInv, phase # "idle", NEW o \in {"failed", "raised"}, Aborted(o)
  PROVE  CoreInv'
<1>1. Len(stack) >= 1 /\ stack \in Seq(Db)
  <2>1. stack \in Seq(Db) /\ Len(stack) = IF phase = "body" THEN 2 ELSE 1
    BY DEF CoreInv, TypeOK
  <2>2. QED
    BY <2>1
<1>2. db' \in Db
  BY <1>1 DEF Aborted
<1>3. stack' \in Seq(Db)
  BY <1>1 DEF Aborted
<1>4. Len(stack') = 0
  BY <1>1 DEF Aborted
<1>5. txnRead' \in BOOLEAN
  BY <1>1 DEF Aborted
<1>6. QED
  BY <1>2, <1>3, <1>4, <1>5, EndedCore DEF Aborted

LEMMA ClientCore ==
  ASSUME CoreInv,
         \/ \E ro \in BOOLEAN : BeginTxn(ro)
         \/ CommitTxn \/ SetReadonly \/ CacheExpires
         \/ \E r \in Roles : SetRole(r)
  PROVE  CoreInv'
<1> USE DEF CoreInv, BudgetInv, PendingInv, ResultInv, Running, loopVars, callVars,
            sessionVars
<1>1. ASSUME NEW ro \in BOOLEAN, BeginTxn(ro) PROVE CoreInv'
  <2>1. db' \in Db /\ txnRead' \in BOOLEAN
    BY <1>1 DEF BeginTxn, TypeOK, Db
  <2>2. stack' \in Seq(Db) /\ Len(stack') = 1
    BY <1>1 DEF BeginTxn, TypeOK
  <2>3. QED
    BY <1>1, <2>1, <2>2 DEF BeginTxn, TypeOK
<1>2. CASE CommitTxn
  <2>1. stack[1] \in Db
    BY <1>2 DEF CommitTxn, TypeOK
  <2>2. stack[1].path \in {"client", "call"} /\ stack[1].writable \in BOOLEAN
    BY <2>1 DEF Db
  <2>3. db' \in Db
    BY <1>2, <2>2, SettingsMade DEF CommitTxn, TypeOK
  <2>4. stack' \in Seq(Db) /\ Len(stack') = 0
    BY <1>2 DEF CommitTxn
  <2>5. txnRead' \in BOOLEAN
    BY <1>2 DEF CommitTxn
  <2>6. QED
    BY <1>2, <2>3, <2>4, <2>5 DEF CommitTxn, TypeOK
<1>3. CASE SetReadonly
  <2>1. db' \in Db
    BY <1>3 DEF SetReadonly, TypeOK, Db
  <2>2. QED
    BY <1>3, <2>1 DEF SetReadonly, TypeOK
<1>4. CASE CacheExpires
  <2>1. cache' \in UserTools
    BY <1>4 DEF CacheExpires, NoTools, UserTools
  <2>2. QED
    BY <1>4, <2>1 DEF CacheExpires, TypeOK
<1>5. ASSUME NEW r \in Roles, SetRole(r) PROVE CoreInv'
  <2>1. db' \in Db
    BY <1>5 DEF SetRole, TypeOK, Db
  <2>2. QED
    BY <1>5, <2>1 DEF SetRole, TypeOK
<1>6. QED
  BY <1>1, <1>2, <1>3, <1>4, <1>5

LEMMA EnterCore ==
  ASSUME CoreInv, NEW m \in Modes, Ask(m) \/ AskUnconfigured(m)
  PROVE  CoreInv'
<1>1. Enter(m)
  BY DEF Ask, AskUnconfigured
<1>2. /\ ask' \in 0 .. MaxAsks /\ mode' \in Modes
      /\ iteration' = 0 /\ turns' = 0 /\ told' = {} /\ wrote' = {} /\ outcome' = "none"
      /\ UNCHANGED <<db, stack, txnRead, pending, tool, cancelled>>
      /\ phase = "idle" /\ stack # <<>>
  BY <1>1 DEF Enter, CoreInv, TypeOK
<1>3. cfg' \in BOOLEAN
  BY <1>1 DEF Enter, Snapshot, CoreInv, TypeOK, Db
<1>4. history' \in Seq(Message)
  BY <1>1, Said DEF Enter
<1>5. cache' \in UserTools /\ offered' \in UserTools
  <2>1. cache \in UserTools /\ NoTools \in UserTools
    BY DEF CoreInv, TypeOK, NoTools, UserTools
  <2>2. Loaded \in UserTools
    BY <2>1 DEF Loaded, CoreInv, TypeOK, UserTools, Db
  <2>3. QED
    BY <2>1, <2>2 DEF Ask, AskUnconfigured
<1>6. (phase' = "turn" /\ result' = "none") \/ (phase' = "trace" /\ result' = "failed")
  BY DEF Ask, AskUnconfigured
<1>7. db \in Db /\ stack \in Seq(Db) /\ Len(stack) = 1
  BY <1>2 DEF CoreInv, TypeOK
<1>8. pending = 0 /\ tool # "explain"
  BY <1>2 DEF CoreInv, PendingInv, Running
<1>9. TypeOK'
  BY <1>2, <1>3, <1>4, <1>5, <1>6, <1>7 DEF CoreInv, TypeOK
<1>10. QED
  BY <1>2, <1>6, <1>8, <1>9 DEF CoreInv, BudgetInv, PendingInv, ResultInv, Running

\* The steps that make a request, whatever the reply.
LEMMA RequestCore ==
  ASSUME CoreInv,
         \/ ProviderFails \/ ReplyFinal \/ ReplyText \/ ReplyNothing
         \/ LastReplyText \/ LastReplyNothing
  PROVE  CoreInv'
<1> USE DEF loopVars, callVars, sessionVars
<1>1. /\ db \in Db /\ stack \in Seq(Db) /\ Len(stack) = 1 /\ history \in Seq(Message)
      /\ phase = "turn" /\ turns <= iteration /\ pending = 0 /\ tool # "explain"
      /\ iteration \in 0 .. MaxIterations /\ turns \in Nat
  BY DEF ProviderFails, ReplyFinal, ReplyText, ReplyNothing, Request, LastReplyText,
         LastReplyNothing, LastRequest, CoreInv, TypeOK, BudgetInv, PendingInv, Running
<1>2. UNCHANGED <<db, stack, txnRead, cache, ask, mode, cfg, offered, pending, tool, told, wrote,
                  cancelled, outcome>>
  BY DEF ProviderFails, ReplyFinal, ReplyText, ReplyNothing, Request, LastReplyText,
         LastReplyNothing, LastRequest
<1>3. history' \in Seq(Message)
  <2>1. /\ Say("assistant", 0) \in Message /\ Say("user", 0) \in Message
        /\ \A m \in Message : Append(history, m) \in Seq(Message)
        /\ \A a, b \in Message : history \o <<a, b>> \in Seq(Message)
    BY <1>1, Said, Appended, TwoMessages
  <2>2. \/ history' = history
        \/ \E m \in {Say("assistant", 0), Say("user", 0)} : history' = Append(history, m)
        \/ \E a, b \in {Say("assistant", 0), Say("user", 0)} : history' = history \o <<a, b>>
    BY DEF ProviderFails, ReplyFinal, ReplyText, ReplyNothing, LastReplyText,
           LastReplyNothing
  <2>3. QED
    BY <1>1, <2>1, <2>2
<1>4. /\ turns' = turns + 1
      /\ \/ phase' = "turn" /\ iteration' = iteration + 1 /\ iteration < MaxIterations
            /\ UNCHANGED result
         \/ /\ phase' \in {"explain", "trace"}
            /\ result' \in {"answered", "failed"}
            /\ iteration' = iteration \/ (iteration < MaxIterations /\ iteration' = iteration + 1)
  BY <1>1 DEF ProviderFails, ReplyFinal, ReplyText, ReplyNothing, Request, LastReplyText,
         LastReplyNothing, LastRequest, Answers
<1>5. iteration' \in 0 .. MaxIterations /\ turns' \in 0 .. MaxIterations + 1
  BY <1>1, <1>4
<1>6. TypeOK'
  BY <1>1, <1>2, <1>3, <1>4, <1>5 DEF CoreInv, TypeOK
<1>7. BudgetInv'
  <2>1. turns' <= iteration' + 1
    BY <1>1, <1>4
  <2>2. phase' = "turn" => turns' <= iteration'
    BY <1>1, <1>4
  <2>3. phase' \notin {"dispatch", "body", "finish"}
    BY <1>4
  <2>4. QED
    BY <2>1, <2>2, <2>3 DEF BudgetInv, Running
<1>8. PendingInv' /\ ResultInv'
  BY <1>1, <1>2, <1>4 DEF PendingInv, ResultInv, Running
<1>9. QED
  BY <1>6, <1>7, <1>8 DEF CoreInv

LEMMA CallsCore ==
  ASSUME CoreInv, NEW n \in 1 .. MaxCalls, ReplyCalls(n)
  PROVE  CoreInv'
<1>1. /\ stack \in Seq(Db) /\ Len(stack) = 1
      /\ phase = "turn" /\ turns <= iteration /\ tool # "explain"
      /\ iteration' \in 0 .. MaxIterations /\ turns' \in 0 .. MaxIterations + 1
      /\ turns' = turns + 1 /\ iteration' = iteration + 1
  BY DEF ReplyCalls, Request, CoreInv, TypeOK, BudgetInv, PendingInv, Running
<1>2. db' \in Db
  BY RecordsCleared DEF ReplyCalls, CoreInv, TypeOK
<1>3. history' \in Seq(Message)
  BY Said, Appended DEF ReplyCalls, CoreInv, TypeOK
<1>4. TypeOK'
  BY <1>1, <1>2, <1>3, SMTT(30) DEF ReplyCalls, Request, CoreInv, TypeOK, callVars, sessionVars
<1>5. QED
  BY <1>1, <1>4, SMTT(30) DEF ReplyCalls, Request, CoreInv, TypeOK, BudgetInv, PendingInv, ResultInv,
     Running, callVars, sessionVars

\* A tool returns to the loop, from a subtransaction or without one.
LEMMA ReturnsCore ==
  ASSUME CoreInv, NEW ok \in BOOLEAN, ToolReturns(ok),
         phase = "dispatch" \/ (phase = "finish" /\ tool # "explain"),
         db' \in Db, told' \subseteq Query \X (QueryTools \cup {"user"}) \X {"ok", "err", "raised"},
         UNCHANGED <<stack, sessionVars, callVars, iteration, turns, wrote, cancelled, outcome>>
  PROVE  CoreInv'
<1> USE DEF callVars, sessionVars
<1>1. /\ pending \in 1 .. MaxCalls /\ turns <= iteration
      /\ stack \in Seq(Db) /\ Len(stack) = 1
  BY DEF CoreInv, TypeOK, BudgetInv, PendingInv, Running
<1>2. history' \in Seq(Message)
  BY Said, Appended DEF ToolReturns, CoreInv, TypeOK
<1>3. pending' \in 0 .. MaxCalls /\ pending' = pending - 1
  BY <1>1 DEF ToolReturns
<1>4. /\ phase' \in {"turn", "dispatch"} /\ (phase' = "turn" <=> pending' = 0)
      /\ tool' = "none" /\ result' = "none"
  BY <1>1 DEF ToolReturns
<1>5. TypeOK'
  BY <1>1, <1>2, <1>3, <1>4 DEF CoreInv, TypeOK
<1>6. QED
  BY <1>1, <1>3, <1>4, <1>5 DEF CoreInv, BudgetInv, PendingInv, ResultInv, Running

\* What a db is after the settings of a tool's subtransaction.
Recorded(t) ==
  IF t \in QueryTools THEN db.audit \cup {<<pending, "in flight">>} ELSE db.audit

LEMMA Opening ==
  ASSUME CoreInv, StartSql \/ StartSample \/ StartUserTool \/ StartExplain
  PROVE  /\ phase \in {"dispatch", "explain"} /\ phase' = "body" /\ Len(stack) = 1
         /\ stack' \in Seq(Db) /\ Len(stack') = 2 /\ stack'[2] \in Db
         /\ db' \in Db
         /\ stack'[2].writable = db.writable
         /\ stack'[2].audit = db'.audit
         /\ db'.audit = Recorded(tool')
         /\ stack'[2].writes = db.writes /\ db'.writes = db.writes
<1>1. db \in Db /\ stack \in Seq(Db) /\ cfg \in BOOLEAN
  BY DEF CoreInv, TypeOK
<1>2. phase \in {"dispatch", "explain"} /\ phase' = "body"
  BY DEF StartSql, StartSample, StartQuery, StartUserTool, StartExplain
<1>3. Len(stack) = 1
  BY <1>2 DEF CoreInv, TypeOK
<1>4. \E b \in Db, e \in Db : /\ Opened(b, e)
                              /\ b.writable = db.writable /\ b.audit = e.audit
                              /\ e.audit = Recorded(tool')
                              /\ b.writes = db.writes /\ e.writes = db.writes
  <2>1. ASSUME NEW t \in QueryTools, StartQuery(t)
        PROVE  \E b \in Db, e \in Db : /\ Opened(b, e)
                                       /\ b.writable = db.writable /\ b.audit = e.audit
                                       /\ e.audit = Recorded(tool')
                                       /\ b.writes = db.writes /\ e.writes = db.writes
    <3> DEFINE row == [db EXCEPT !.audit = @ \cup {<<pending, "in flight">>}]
               e == [row EXCEPT !.path = "call", !.writable = ~cfg]
    <3>1. pending \in Query
      <4>1. phase = "dispatch"
        BY <2>1, Zenon DEF StartQuery
      <4>2. QED
        BY <4>1 DEF CoreInv, TypeOK, PendingInv, Query
    <3>2. row \in Db /\ row.writable = db.writable /\ row.writes = db.writes
          /\ row.audit = Recorded(tool')
      <4> DEFINE a == db.audit \cup {<<pending, "in flight">>}
      <4>1. a \in SUBSET (Query \X {"in flight", "ok", "error"})
        <5>1. db.audit \in SUBSET (Query \X {"in flight", "ok", "error"})
          BY <1>1 DEF Db
        <5>2. <<pending, "in flight">> \in Query \X {"in flight", "ok", "error"}
          BY <3>1
        <5>3. QED
          BY <5>1, <5>2
      <4> HIDE DEF a
      <4>2. [db EXCEPT !.audit = a] \in Db
        BY <1>1, <4>1 DEF Db
      <4>3. row = [db EXCEPT !.audit = a]
        BY <1>1 DEF Db, a
      <4>4. tool' = t
        BY <2>1, Zenon DEF StartQuery
      <4>5. row.audit = Recorded(tool')
        BY <1>1, <4>2, <4>3, <4>4 DEF Db, Recorded, a
      <4>6. QED
        BY <1>1, <4>2, <4>3, <4>5 DEF Db
    <3>3. Opened(row, e)
      BY <2>1, Zenon DEF StartQuery
    <3> HIDE DEF row
    <3>4. e \in Db /\ e.audit = row.audit /\ e.writes = row.writes
      BY <1>1, <3>2, SettingsMade
    <3> HIDE DEF e
    <3>5. QED
      BY <3>2, <3>3, <3>4
  <2>2. CASE StartUserTool
    <3> DEFINE e == [db EXCEPT !.writable = @ /\ ~offered.readonly]
    <3>1. e \in Db /\ e.audit = db.audit /\ e.writes = db.writes
      BY <1>1 DEF CoreInv, TypeOK, UserTools, Db
    <3>2. Opened(db, e) /\ tool' = "user"
      BY <2>2, Zenon DEF StartUserTool
    <3> HIDE DEF e
    <3>3. QED
      BY <1>1, <3>1, <3>2 DEF Recorded, QueryTools
  <2>3. CASE StartExplain
    <3> DEFINE e == [db EXCEPT !.path = "call", !.writable = FALSE]
    <3>1. e \in Db /\ e.audit = db.audit /\ e.writes = db.writes
      BY <1>1, SettingsMade
    <3>2. Opened(db, e) /\ tool' = "explain"
      BY <2>3, Zenon DEF StartExplain
    <3> HIDE DEF e
    <3>3. QED
      BY <1>1, <3>1, <3>2 DEF Recorded, QueryTools
  <2>4. QED
    BY <2>1, <2>2, <2>3 DEF StartSql, StartSample, QueryTools
<1>5. PICK b \in Db, e \in Db : /\ Opened(b, e)
                                /\ b.writable = db.writable /\ b.audit = e.audit
                                /\ e.audit = Recorded(tool')
                                /\ b.writes = db.writes /\ e.writes = db.writes
  BY <1>4
<1>6. stack' = Append(stack, b) /\ db' = e
  BY <1>5 DEF Opened
<1>7. stack' \in Seq(Db) /\ Len(stack') = 2 /\ stack'[2] = b
  BY <1>1, <1>3, <1>6, LevelOpened
<1>8. QED
  BY <1>2, <1>3, <1>5, <1>6, <1>7

LEMMA OpensCore ==
  ASSUME CoreInv, StartSql \/ StartSample \/ StartUserTool \/ StartExplain
  PROVE  CoreInv'
<1>1. UNCHANGED <<txnRead, cache, ask, mode, cfg, offered, iteration, turns, history,
                  pending, told, wrote, result, cancelled, outcome>>
  BY DEF StartSql, StartSample, StartQuery, StartUserTool, StartExplain, sessionVars,
         callVars, loopVars
<1>2. \/ phase = "dispatch" /\ tool' \in QueryTools \cup {"user"}
      \/ phase = "explain" /\ tool' = "explain" /\ ~db'.writable
  <2>1. StartExplain => ~db'.writable
    BY SettingsMade DEF StartExplain, Opened, CoreInv, TypeOK
  <2>2. QED
    BY <2>1 DEF StartSql, StartSample, StartQuery, StartUserTool, StartExplain, QueryTools
<1>3. TypeOK'
  <2>1. tool' = "explain" \/ (tool' # "none" /\ pending' > 0)
    BY <1>1, <1>2 DEF CoreInv, PendingInv, QueryTools
  <2>2. tool' \in QueryTools \cup {"user", "explain", "none"}
    BY <1>2
  <2>3. QED
    BY <1>1, <2>1, <2>2, Opening DEF CoreInv, TypeOK
<1>4. BudgetInv' /\ PendingInv' /\ ResultInv'
  BY <1>1, <1>2, Opening DEF CoreInv, BudgetInv, PendingInv, ResultInv, Running, QueryTools
<1>5. QED
  BY <1>3, <1>4 DEF CoreInv

\* A body in a subtransaction, that of EXPLAIN or of a tool.
LEMMA BodyCore ==
  ASSUME CoreInv, BodyWrites \/ BodyRaises \/ \E r \in {"ok", "err"} : BodyReturns(r)
  PROVE  CoreInv'
<1> USE DEF sessionVars, callVars, loopVars
<1>1. /\ phase = "body" /\ stack \in Seq(Db) /\ Len(stack) = 2 /\ stack[2] \in Db
      /\ db \in Db
      /\ UNCHANGED <<sessionVars, callVars, loopVars, pending, tool, told, outcome>>
      /\ wrote' \subseteq Query
  <2>1. /\ phase = "body"
        /\ UNCHANGED <<sessionVars, callVars, loopVars, pending, tool, told, outcome>>
    BY DEF BodyWrites, BodyRaises, BodyReturns
  <2>2. /\ stack \in Seq(Db) /\ Len(stack) = 2 /\ db \in Db /\ wrote \subseteq Query
        /\ tool # "explain" => pending \in Query
    BY <2>1 DEF CoreInv, TypeOK, Query
  <2>3. wrote' = wrote \/ (wrote' = wrote \cup {pending} /\ tool # "explain")
    BY DEF BodyWrites, BodyRaises, BodyReturns, CoreInv, ResultInv
  <2>4. QED
    BY <2>1, <2>2, <2>3
<1>2. CASE BodyWrites
  <2>1. tool # "explain" /\ phase' = "body"
    BY <1>1, <1>2 DEF BodyWrites, CoreInv, ResultInv
  <2>2. pending \in Query
    BY <1>1, <2>1 DEF CoreInv, TypeOK, Query
  <2>3. db' \in Db
    BY <1>1, <1>2, <2>2 DEF BodyWrites, Db
  <2>4. QED
    BY <1>1, <1>2, <2>1, <2>3 DEF BodyWrites, CoreInv, TypeOK, BudgetInv, PendingInv,
       ResultInv, Running
<1>3. CASE ~BodyWrites
  <2>1. phase' = "finish" /\ result' \in {"ok", "err", "raised"} /\ cancelled' \in BOOLEAN
    BY <1>3 DEF BodyRaises, BodyReturns, CoreInv, TypeOK
  <2>2. stack' \in Seq(Db) /\ Len(stack') = 1
    BY <1>1, <1>3, LevelClosed DEF BodyRaises, BodyReturns
  <2>3. db' \in Db
    BY <1>1, <1>3 DEF BodyRaises, BodyReturns, Db
  <2>4. TypeOK'
    BY <1>1, <2>1, <2>2, <2>3 DEF CoreInv, TypeOK
  <2>5. QED
    BY <1>1, <2>1, <2>4 DEF CoreInv, BudgetInv, PendingInv, ResultInv, Running
<1>4. QED
  BY <1>2, <1>3

\* A query leaves a record of how it ended.
LEMMA FinishedDb ==
  ASSUME CoreInv, ToolFinishes
  PROVE  /\ db' \in Db /\ db'.writable = db.writable /\ db'.writes = db.writes
         /\ pending \in Query /\ result \in {"ok", "err", "raised"}
         /\ phase = "finish" /\ tool # "explain"
         /\ db'.audit = IF tool = "sql_query" /\ ~cfg THEN Finished(result) ELSE db.audit
<1>1. db \in Db /\ pending \in Query /\ result \in {"ok", "err", "raised"}
      /\ phase = "finish" /\ tool # "explain"
  BY DEF ToolFinishes, CoreInv, TypeOK, ResultInv, Query
<1>2. Finished(result) \in SUBSET (Query \X {"in flight", "ok", "error"})
  <2>1. db.audit \in SUBSET (Query \X {"in flight", "ok", "error"})
    BY <1>1 DEF Db
  <2>2. <<pending, IF result = "ok" THEN "ok" ELSE "error">>
          \in Query \X {"in flight", "ok", "error"}
    BY <1>1
  <2>3. QED
    BY <2>1, <2>2 DEF Finished
<1>3. db' = IF tool = "sql_query" /\ ~cfg THEN [db EXCEPT !.audit = Finished(result)] ELSE db
  BY DEF ToolFinishes
<1>4. QED
  BY <1>1, <1>2, <1>3 DEF Db

LEMMA FinishesCore ==
  ASSUME CoreInv, ToolFinishes
  PROVE  CoreInv'
<1>1. told' \subseteq Query \X (QueryTools \cup {"user"}) \X {"ok", "err", "raised"}
  BY FinishedDb DEF ToolFinishes, CoreInv, TypeOK
<1>2. PICK ok \in BOOLEAN : ToolReturns(ok)
  BY DEF ToolFinishes
<1>3. QED
  BY <1>1, <1>2, FinishedDb, ReturnsCore DEF ToolFinishes

LEMMA RepliedCore ==
  ASSUME CoreInv, NEW ok \in BOOLEAN, Replied(ok)
  PROVE  CoreInv'
BY ReturnsCore DEF Replied, CoreInv, TypeOK

LEMMA CallEndCore ==
  ASSUME CoreInv, ExplainRefused \/ ExplainEnds \/ StreamEnds \/ Cancel
  PROVE  CoreInv'
<1> USE DEF sessionVars, callVars, loopVars
<1>1. CASE ExplainRefused \/ ExplainEnds
  <2>1. /\ phase' = "trace" /\ result' \in {"answered", "failed"} /\ tool' = "none"
        /\ pending = 0 /\ phase \notin {"idle", "body"}
        /\ UNCHANGED <<db, stack, sessionVars, callVars, loopVars, pending, told, wrote,
                       cancelled, outcome>>
    BY <1>1 DEF ExplainRefused, ExplainEnds, Explained, CoreInv, PendingInv, Running
  <2>2. QED
    BY <2>1 DEF CoreInv, TypeOK, BudgetInv, PendingInv, ResultInv, Running
<1>2. CASE StreamEnds
  BY <1>2 DEF StreamEnds, CoreInv, TypeOK, BudgetInv, PendingInv, ResultInv, Running
<1>3. CASE Cancel
  BY <1>3 DEF Cancel, CoreInv, TypeOK, BudgetInv, PendingInv, ResultInv, Running
<1>4. QED
  BY <1>1, <1>2, <1>3

LEMMA ReturnsToClient ==
  ASSUME CoreInv, AskReturns
  PROVE  CoreInv'
<1>1. db' \in Db /\ stack \in Seq(Db) /\ Len(stack) = 1 /\ txnRead \in BOOLEAN
  BY TracedDb DEF AskReturns, CoreInv, TypeOK
<1>2. result \in {"answered", "unanswered", "failed"}
  BY DEF AskReturns, CoreInv, ResultInv
<1>3. QED
  BY <1>1, <1>2, EndedCore DEF AskReturns

\* The steps that abort the client's transaction.
Aborts == PlainToolRaises \/ AuditRaises \/ AskRaises \/ TraceRaises \/ Interrupted

LEMMA AbortsAbort ==
  ASSUME Aborts
  PROVE  phase # "idle" /\ \E o \in {"failed", "raised"} : Aborted(o)
BY DEF Aborts, PlainToolRaises, AuditRaises, AskRaises, TraceRaises, Interrupted

\* The actions in the groups the proofs treat alike.
LEMMA NextGroups ==
  ASSUME Next
  PROVE  \/ \E ro \in BOOLEAN : BeginTxn(ro)
         \/ CommitTxn \/ SetReadonly \/ CacheExpires
         \/ \E r \in Roles : SetRole(r)
         \/ \E m \in Modes : Ask(m) \/ AskUnconfigured(m)
         \/ ProviderFails \/ ReplyFinal \/ ReplyText \/ ReplyNothing
         \/ LastReplyText \/ LastReplyNothing
         \/ \E n \in 1 .. MaxCalls : ReplyCalls(n)
         \/ StartSql \/ StartSample \/ StartUserTool \/ StartExplain
         \/ BodyWrites \/ BodyRaises \/ \E r \in {"ok", "err"} : BodyReturns(r)
         \/ ToolFinishes
         \/ \E ok \in BOOLEAN : Replied(ok)
         \/ ExplainRefused \/ ExplainEnds \/ StreamEnds \/ Cancel
         \/ AskReturns
         \/ Aborts
<1>1. UnknownTool \/ QueryRefused \/ UserToolRefused \/ (\E ok \in BOOLEAN : PlainTool(ok))
      => \E ok \in BOOLEAN : Replied(ok)
  BY DEF UnknownTool, QueryRefused, UserToolRefused, PlainTool
<1>2. QED
  BY <1>1 DEF Next, AskStep, Aborts

LEMMA StutterCore == ASSUME CoreInv, UNCHANGED vars PROVE CoreInv'
BY DEF CoreInv, TypeOK, BudgetInv, PendingInv, ResultInv, Running, vars, sessionVars,
       callVars, loopVars

LEMMA CoreStep == ASSUME CoreInv, [Next]_vars PROVE CoreInv'
<1>1. CASE Next
  BY <1>1, NextGroups, ClientCore, EnterCore, RequestCore, CallsCore, OpensCore, BodyCore,
     FinishesCore, RepliedCore, CallEndCore, ReturnsToClient, AbortsAbort, AbortedCore
<1>2. QED
  BY <1>1, StutterCore

\* Every reachable state is well typed: the depth of the transaction follows
\* from the phase, so that every level a tool opens is closed before the loop
\* goes on, and no call makes more than one request beyond its iterations.
THEOREM TypeCorrect == Spec => []TypeOK
<1>1. CoreInv /\ [Next]_vars => CoreInv'
  BY CoreStep
<1>2. CoreInv => TypeOK
  BY DEF CoreInv
<1>3. QED
  BY InitCore, <1>1, <1>2, PTL DEF Spec

-----------------------------------------------------------------------------
(* The settings of a tool end with it. *)

LEMMA ScopeStep ==
  ASSUME CoreInv, ScopeInv, [Next]_vars
  PROVE  ScopeInv'
<1> USE DEF ScopeInv, ReadOnlyScoped, sessionVars, callVars, loopVars
<1>1. db \in Db /\ stack \in Seq(Db) /\ txnRead \in BOOLEAN
      /\ (phase \notin {"idle", "body"} => Len(stack) = 1)
      /\ (phase = "body" => Len(stack) = 2)
  BY DEF CoreInv, TypeOK
<1>2. CASE \E ro \in BOOLEAN : BeginTxn(ro)
  <2>1. PICK ro \in BOOLEAN : BeginTxn(ro)
    BY <1>2
  <2>2. phase' = "idle" /\ txnRead' = ro /\ db'.writable = ~ro
    BY <1>1, <2>1 DEF BeginTxn, Db
  <2>3. QED
    BY <2>2
<1>3. CASE CommitTxn \/ CacheExpires
  BY <1>1, <1>3 DEF CommitTxn, CacheExpires
<1>4. CASE SetReadonly \/ \E r \in Roles : SetRole(r)
  <2>1. phase' = "idle" /\ db'.writable = db.writable /\ UNCHANGED <<stack, txnRead>>
        /\ phase = "idle"
    BY <1>1, <1>4 DEF SetReadonly, SetRole, Db
  <2>2. QED
    BY <2>1
<1>5. CASE \E m \in Modes : Ask(m) \/ AskUnconfigured(m)
  BY <1>5 DEF Ask, AskUnconfigured, Enter
<1>6. CASE ProviderFails \/ ReplyFinal \/ ReplyText \/ ReplyNothing
           \/ LastReplyText \/ LastReplyNothing
  BY <1>6 DEF ProviderFails, ReplyFinal, ReplyText, ReplyNothing, Request, LastReplyText,
     LastReplyNothing, LastRequest, Answers
<1>7. CASE \E n \in 1 .. MaxCalls : ReplyCalls(n)
  <2>1. phase = "turn" /\ phase' = "dispatch" /\ UNCHANGED <<stack, txnRead>>
        /\ db' = [db EXCEPT !.audit = {}, !.writes = {}]
    BY <1>7 DEF ReplyCalls, Request
  <2>2. db'.writable = db.writable
    BY <1>1, <2>1, RecordsCleared
  <2>3. QED
    BY <2>1, <2>2
<1>8. CASE StartSql \/ StartSample \/ StartUserTool \/ StartExplain
  <2>1. UNCHANGED txnRead
    BY <1>8 DEF StartSql, StartSample, StartQuery, StartUserTool, StartExplain
  <2>2. db.writable = ~txnRead
    <3>1. phase # "body" /\ Len(stack) = 1
      BY <1>8, Opening
    <3>2. stack # <<>>
      BY <3>1
    <3>3. QED
      BY <3>1, <3>2
  <2>3. QED
    BY <1>8, <2>1, <2>2, Opening
<1>9. CASE BodyWrites
  BY <1>1, <1>9 DEF BodyWrites, Db
<1>10. CASE BodyRaises \/ \E r \in {"ok", "err"} : BodyReturns(r)
  <2>1. phase' = "finish" /\ UNCHANGED txnRead /\ phase = "body"
    BY <1>10 DEF BodyRaises, BodyReturns
  <2>2. db'.writable = stack[2].writable
    BY <1>1, <1>10 DEF BodyRaises, BodyReturns, Db
  <2>3. QED
    BY <2>1, <2>2
<1>11. CASE ToolFinishes
  <2>1. phase' \in {"turn", "dispatch"} /\ UNCHANGED <<stack, txnRead>>
    BY <1>11 DEF ToolFinishes, ToolReturns
  <2>2. QED
    BY <1>11, <2>1, FinishedDb
<1>12. CASE \E ok \in BOOLEAN : Replied(ok)
  BY <1>12 DEF Replied, ToolReturns
<1>13. CASE ExplainRefused \/ ExplainEnds \/ StreamEnds \/ Cancel
  BY <1>13 DEF ExplainRefused, ExplainEnds, Explained, StreamEnds, Cancel
<1>14. CASE AskReturns
  <2>1. phase = "trace" /\ phase' = "idle" /\ UNCHANGED <<stack, txnRead>> /\ db' = Traced
    BY <1>14 DEF AskReturns, Ended
  <2>2. db'.writable = db.writable
    BY <2>1, TracedDb DEF CoreInv, TypeOK
  <2>3. QED
    BY <2>1, <2>2
<1>15. CASE Aborts
  BY <1>15, AbortsAbort DEF Aborted, Ended
<1>16. CASE UNCHANGED vars
  BY <1>16 DEF vars
<1>17. QED
  BY <1>2, <1>3, <1>4, <1>5, <1>6, <1>7, <1>8, <1>9, <1>10, <1>11, <1>12, <1>13, <1>14,
     <1>15, <1>16, NextGroups

\* Outside of a tool the transaction is as writable as the client made it,
\* however the tools of the call ended: with the settings of a subtransaction
\* goes what the code restores by hand when it releases one.
THEOREM SettingsAreScoped == Spec => []ReadOnlyScoped
<1>1. Init => CoreInv /\ ScopeInv
  BY InitCore DEF Init, ScopeInv, ReadOnlyScoped
<1>2. CoreInv /\ ScopeInv /\ [Next]_vars => (CoreInv /\ ScopeInv)'
  BY CoreStep, ScopeStep
<1>3. ScopeInv => ReadOnlyScoped
  BY DEF ScopeInv
<1>4. QED
  BY <1>1, <1>2, <1>3, PTL DEF Spec

-----------------------------------------------------------------------------
(* Every tool call is answered. *)

HistoryInv == Answered(history, pending)

LEMMA CallsAreNatural ==
  ASSUME NEW h \in Seq(Message)
  PROVE  Len(h) \in Nat /\ \A i \in 1 .. Len(h) : h[i].calls \in Nat
<1>1. \A m \in Message : m.calls \in Nat
  BY DEF Message
<1>2. Len(h) \in Nat /\ \A i \in 1 .. Len(h) : h[i] \in Message
  OBVIOUS
<1>3. QED
  BY <1>1, <1>2

LEMMA AnsweredSays ==
  ASSUME NEW h \in Seq(Message), Answered(h, 0), NEW m \in Message
  PROVE  Answered(Append(h, m), m.calls)
<1> DEFINE g == Append(h, m)
<1>1. /\ Len(g) = Len(h) + 1 /\ g[Len(h) + 1] = m
      /\ \A i \in 1 .. Len(h) : g[i] = h[i]
  BY Appended
<1>2. m.calls \in Nat /\ Len(h) \in Nat /\ \A i \in 1 .. Len(h) : h[i].calls \in Nat
  <2>1. m.calls \in Nat
    BY DEF Message
  <2>2. QED
    BY <2>1, CallsAreNatural
<1> HIDE DEF g
<1>3. ASSUME NEW i \in 1 .. Len(h), g[i].calls > 0
      PROVE  /\ i + g[i].calls <= Len(h)
             /\ \A j \in 1 .. g[i].calls : g[i + j].role = "tool"
  <2>1. i + h[i].calls <= Len(h) + 0
        /\ \A j \in 1 .. h[i].calls : i + j <= Len(h) => h[i + j].role = "tool"
    BY <1>1, <1>3 DEF Answered
  <2>2. g[i] = h[i] /\ h[i].calls \in Nat
    BY <1>1, <1>2, <1>3
  <2>3. ASSUME NEW j \in 1 .. h[i].calls
        PROVE  i + j \in 1 .. Len(h) /\ h[i + j].role = "tool"
    BY <1>2, <2>1, <2>2, <2>3
  <2>4. \A j \in 1 .. h[i].calls : g[i + j] = h[i + j]
    BY <1>1, <2>3
  <2>5. \A j \in 1 .. h[i].calls : g[i + j].role = "tool"
    BY <2>3, <2>4
  <2>6. i + h[i].calls <= Len(h)
    BY <1>2, <2>1
  <2>7. QED
    BY <2>2, <2>5, <2>6
<1>4. QED
  BY <1>1, <1>2, <1>3 DEF Answered, g

LEMMA AnsweredReturns ==
  ASSUME NEW h \in Seq(Message), NEW p \in Nat \ {0}, Answered(h, p)
  PROVE  Answered(Append(h, Say("tool", 0)), p - 1)
<1> DEFINE m == Say("tool", 0)
           g == Append(h, m)
<1>0. m \in Message /\ m.role = "tool" /\ m.calls = 0
  BY Said
<1>1. /\ Len(g) = Len(h) + 1 /\ g[Len(h) + 1] = m
      /\ \A i \in 1 .. Len(h) : g[i] = h[i]
  BY <1>0, Appended
<1>2. Len(h) \in Nat /\ \A i \in 1 .. Len(h) : h[i].calls \in Nat
  BY CallsAreNatural
<1> HIDE DEF g, m
<1>3. ASSUME NEW i \in 1 .. Len(h), g[i].calls > 0
      PROVE  /\ i + g[i].calls <= Len(g) + (p - 1)
             /\ \A j \in 1 .. g[i].calls : i + j <= Len(g) => g[i + j].role = "tool"
  <2>1. i + h[i].calls <= Len(h) + p
        /\ \A j \in 1 .. h[i].calls : i + j <= Len(h) => h[i + j].role = "tool"
    BY <1>1, <1>3 DEF Answered
  <2>2. g[i] = h[i] /\ h[i].calls \in Nat
    BY <1>1, <1>2, <1>3
  <2>3. ASSUME NEW j \in 1 .. h[i].calls, i + j <= Len(g)
        PROVE  g[i + j].role = "tool"
    <3>1. CASE i + j <= Len(h)
      BY <1>1, <1>2, <2>1, <2>2, <2>3, <3>1
    <3>2. CASE i + j = Len(h) + 1
      BY <1>0, <1>1, <3>2
    <3>3. i + j <= Len(h) \/ i + j = Len(h) + 1
      <4>1. i \in Nat /\ j \in Nat /\ Len(h) \in Nat /\ i + j <= Len(h) + 1
        BY <1>1, <1>2, <2>2, <2>3
      <4>2. QED
        BY <4>1
    <3>4. QED
      BY <3>1, <3>2, <3>3
  <2>4. i + g[i].calls <= Len(g) + (p - 1)
    BY <1>1, <1>2, <2>1, <2>2
  <2>5. QED
    BY <2>2, <2>3, <2>4
<1>4. \A i \in 1 .. Len(g) : g[i].calls > 0 => i \in 1 .. Len(h)
  BY <1>0, <1>1, <1>2
<1>5. Answered(g, p - 1)
  BY <1>3, <1>4 DEF Answered
<1>6. QED
  BY <1>5 DEF g, m

LEMMA HistoryStep ==
  ASSUME CoreInv, HistoryInv, [Next]_vars
  PROVE  HistoryInv'
<1> USE DEF HistoryInv, sessionVars, callVars, loopVars
<1>1. history \in Seq(Message) /\ pending \in Nat
      /\ (phase \notin {"dispatch", "body", "finish"} => pending = 0)
      /\ (phase = "dispatch" => pending # 0)
  BY DEF CoreInv, TypeOK, PendingInv, Running
<1>2. CASE UNCHANGED <<history, pending>>
  BY <1>2
<1>3. CASE \E m \in Modes : Ask(m) \/ AskUnconfigured(m)
  <2>1. history' = <<Say("user", 0)>> /\ pending' = 0
    BY <1>1, <1>3 DEF Ask, AskUnconfigured, Enter
  <2>2. Len(history') = 1 /\ history'[1].calls = 0
    BY <2>1, Said
  <2>3. QED
    BY <2>1, <2>2 DEF Answered
<1>4. CASE ProviderFails \/ ReplyFinal \/ ReplyText \/ ReplyNothing
           \/ LastReplyText \/ LastReplyNothing
  <2> DEFINE A == Say("assistant", 0)
             U == Say("user", 0)
  <2>1. A \in Message /\ U \in Message /\ A.calls = 0 /\ U.calls = 0
    BY Said
  <2>2. pending = 0 /\ pending' = 0
    BY <1>1, <1>4 DEF ProviderFails, ReplyFinal, ReplyText, ReplyNothing, Request,
       LastReplyText, LastReplyNothing, LastRequest
  <2>3. \/ history' = history
        \/ \E m \in {A, U} : history' = Append(history, m)
        \/ \E a, b \in {A, U} : history' = history \o <<a, b>>
    BY <1>4 DEF ProviderFails, ReplyFinal, ReplyText, ReplyNothing, LastReplyText,
       LastReplyNothing
  <2> HIDE DEF A, U
  <2>4. ASSUME NEW h \in Seq(Message), Answered(h, 0), NEW m \in {A, U}
        PROVE  Append(h, m) \in Seq(Message) /\ Answered(Append(h, m), 0)
    <3>1. m \in Message /\ m.calls = 0
      BY <2>1, <2>4
    <3>2. QED
      BY <2>4, <3>1, Appended, AnsweredSays
  <2>5. CASE history' = history
    BY <2>2, <2>5
  <2>6. ASSUME NEW m \in {A, U}, history' = Append(history, m) PROVE Answered(history', 0)
    BY <1>1, <2>2, <2>4, <2>6
  <2>7. ASSUME NEW a \in {A, U}, NEW b \in {A, U}, history' = history \o <<a, b>>
        PROVE  Answered(history', 0)
    <3>1. history' = Append(Append(history, a), b)
      BY <1>1, <2>1, <2>7, TwoMessages
    <3>2. Append(history, a) \in Seq(Message) /\ Answered(Append(history, a), 0)
      BY <1>1, <2>2, <2>4
    <3>3. QED
      BY <2>4, <3>1, <3>2
  <2>8. QED
    BY <2>2, <2>3, <2>5, <2>6, <2>7
<1>5. ASSUME NEW n \in 1 .. MaxCalls, ReplyCalls(n) PROVE HistoryInv'
  <2>1. Say("assistant", n) \in Message /\ Say("assistant", n).calls = n
    BY Said
  <2>2. pending = 0 /\ pending' = n /\ history' = Append(history, Say("assistant", n))
    BY <1>1, <1>5 DEF ReplyCalls, Request
  <2>3. QED
    BY <1>1, <2>1, <2>2, AnsweredSays
<1>6. ASSUME NEW ok \in BOOLEAN, ToolReturns(ok), pending # 0 PROVE HistoryInv'
  BY <1>1, <1>6, AnsweredReturns DEF ToolReturns
<1>7. CASE ToolFinishes \/ \E ok \in BOOLEAN : Replied(ok)
  <2>1. \E ok \in BOOLEAN : ToolReturns(ok)
    BY <1>7 DEF ToolFinishes, Replied
  <2>2. pending # 0
    <3>1. ToolFinishes => pending # 0
      BY FinishedDb DEF Query
    <3>2. QED
      BY <1>1, <1>7, <3>1 DEF Replied
  <2>3. QED
    BY <1>6, <2>1, <2>2
<1>8. ASSUME NEW o, Ended(o) PROVE HistoryInv'
  <2>1. history' = <<>> /\ pending' = 0
    BY <1>8 DEF Ended
  <2>2. Len(history') = 0
    BY <2>1
  <2>3. QED
    BY <2>2 DEF Answered
<1>9. CASE AskReturns \/ Aborts
  BY <1>8, <1>9, AbortsAbort DEF AskReturns, Aborted
<1>10. CASE UNCHANGED vars
  BY <1>2, <1>10 DEF vars
<1>11. CASE \/ \E ro \in BOOLEAN : BeginTxn(ro)
            \/ CommitTxn \/ SetReadonly \/ CacheExpires
            \/ \E r \in Roles : SetRole(r)
            \/ StartSql \/ StartSample \/ StartUserTool \/ StartExplain
            \/ BodyWrites \/ BodyRaises \/ \E r \in {"ok", "err"} : BodyReturns(r)
            \/ ExplainRefused \/ ExplainEnds \/ StreamEnds \/ Cancel
  <2>1. UNCHANGED <<history, pending>>
    BY <1>11 DEF BeginTxn, CommitTxn, SetReadonly, CacheExpires, SetRole, StartSql,
       StartSample, StartQuery, StartUserTool, StartExplain, BodyWrites, BodyRaises,
       BodyReturns, ExplainRefused, ExplainEnds, Explained, StreamEnds, Cancel
  <2>2. QED
    BY <1>2, <2>1
<1>12. QED
  BY <1>3, <1>4, <1>5, <1>7, <1>9, <1>10, <1>11, NextGroups

\* The history a request sends, or a call hands to its session, has a result
\* for every tool call, however the tools ended.
THEOREM CallsAreAnswered == Spec => []CallsAnswered
<1>1. Init => CoreInv /\ HistoryInv
  <2>1. Init => history = <<>>
    BY DEF Init
  <2>2. QED
    BY InitCore, <2>1 DEF HistoryInv, Answered
<1>2. CoreInv /\ HistoryInv /\ [Next]_vars => (CoreInv /\ HistoryInv)'
  BY CoreStep, HistoryStep
<1>3. CoreInv /\ HistoryInv => CallsAnswered
  <2>1. SUFFICES ASSUME CoreInv, HistoryInv, phase \in {"turn", "trace"}
                 PROVE  \A i \in 1 .. Len(history) : history[i].calls > 0 =>
                          /\ i + history[i].calls <= Len(history)
                          /\ \A j \in 1 .. history[i].calls : history[i + j].role = "tool"
    BY DEF CallsAnswered
  <2>2. pending = 0 /\ history \in Seq(Message)
    BY <2>1 DEF CoreInv, TypeOK, PendingInv, Running
  <2>3. Len(history) \in Nat /\ \A i \in 1 .. Len(history) : history[i].calls \in Nat
    BY <2>2, CallsAreNatural
  <2>4. QED
    BY <2>1, <2>2, <2>3 DEF HistoryInv, Answered
<1>4. QED
  BY <1>1, <1>2, <1>3, PTL DEF Spec

-----------------------------------------------------------------------------
(* Queries are on record, and undone if they raised. *)

\* A reply's calls are the naturals from 1: between replies none is pending.
LEMMA WrittenByCalls ==
  ASSUME CoreInv
  PROVE  /\ pending \in Nat
         /\ \A w \in db.writes \cup wrote : w \in Nat /\ w > 0
         /\ \A q \in told : q[1] \in Nat /\ q[1] > 0
<1>1. db \in Db /\ pending \in Nat /\ told \subseteq Query \X (QueryTools \cup {"user"}) \X {"ok", "err", "raised"}
  BY DEF CoreInv, TypeOK
<1>2. \A q \in Query : q \in Nat /\ q > 0
  BY DEF Query
<1>3. db.writes \subseteq Query /\ wrote \subseteq Query /\ \A q \in told : q[1] \in Query
  BY <1>1 DEF Db, CoreInv, TypeOK
<1>4. QED
  BY <1>1, <1>2, <1>3

\* The call begins or ends.
LEMMA ForgottenAudit ==
  ASSUME CoreInv', told' = {}, wrote' = {}, pending' = 0, phase' \notin {"body", "finish"}
  PROVE  AuditInv'
<1>1. \A w \in db'.writes : w \in Nat /\ w > 0
  <2>1. db' \in Db
    BY DEF CoreInv, TypeOK
  <2>2. db'.writes \subseteq Query
    BY <2>1 DEF Db
  <2>3. QED
    BY <2>2 DEF Query
<1>2. WritesInv'
  <2>1. \A w \in db'.writes \cup wrote' : w >= pending' /\ w # pending'
    BY <1>1
  <2>2. QED
    BY <2>1 DEF WritesInv, Running
<1>3. LevelInv' /\ RecordInv'
  BY DEF LevelInv, RecordInv, Running
<1>4. ToldInv' /\ QueriesAudited' /\ RaisedMeansUndone'
  BY DEF ToldInv, QueriesAudited, RaisedMeansUndone
<1>5. QED
  BY <1>2, <1>3, <1>4 DEF AuditInv

\* No tool runs, and the step is about something else.
LEMMA QuietAudit ==
  ASSUME CoreInv, AuditInv, pending = 0, phase' \notin {"body", "finish"},
         UNCHANGED <<told, wrote, cfg, pending>>, db'.audit = db.audit, db'.writes = db.writes
  PROVE  AuditInv'
<1>1. WritesInv'
  <2>1. \A w \in db'.writes \cup wrote' : w >= pending' /\ w # pending'
    BY WrittenByCalls
  <2>2. QED
    BY <2>1 DEF WritesInv, Running
<1>2. LevelInv' /\ RecordInv'
  BY DEF LevelInv, RecordInv, Running
<1>3. ToldInv' /\ QueriesAudited' /\ RaisedMeansUndone'
  BY DEF AuditInv, ToldInv, QueriesAudited, RaisedMeansUndone
<1>4. QED
  BY <1>1, <1>2, <1>3 DEF AuditInv

LEMMA ClientAudit ==
  ASSUME CoreInv, AuditInv,
         \/ \E ro \in BOOLEAN : BeginTxn(ro)
         \/ CommitTxn \/ SetReadonly \/ CacheExpires
         \/ \E r \in Roles : SetRole(r)
  PROVE  AuditInv'
<1>1. db \in Db /\ stack \in Seq(Db)
  BY DEF CoreInv, TypeOK
<1>2. /\ phase = "idle" /\ phase' = "idle"
      /\ UNCHANGED <<told, wrote, cfg, pending>>
  BY DEF BeginTxn, CommitTxn, SetReadonly, CacheExpires, SetRole, callVars
<1>3. db'.audit = db.audit /\ db'.writes = db.writes
  <2>1. CASE CommitTxn
    <3>1. stack[1] \in Db
      BY <1>1, <2>1 DEF CommitTxn
    <3>2. stack[1].path \in {"client", "call"} /\ stack[1].writable \in BOOLEAN
      BY <3>1 DEF Db
    <3> DEFINE p == stack[1].path
               w == stack[1].writable
    <3>3. db' = [db EXCEPT !.path = p, !.writable = w]
      BY <2>1 DEF CommitTxn
    <3> HIDE DEF p, w
    <3>4. p \in {"client", "call"} /\ w \in BOOLEAN
      BY <3>2 DEF p, w
    <3>5. QED
      BY <1>1, <3>3, <3>4, SettingsMade
  <2>2. CASE ~CommitTxn
    BY <1>1, <2>2 DEF BeginTxn, SetReadonly, CacheExpires, SetRole, Db
  <2>3. QED
    BY <2>1, <2>2
<1>4. pending = 0
  BY <1>2 DEF CoreInv, PendingInv, Running
<1>5. QED
  BY <1>2, <1>3, <1>4, QuietAudit

LEMMA LoopAudit ==
  ASSUME CoreInv, AuditInv,
         \/ ProviderFails \/ ReplyFinal \/ ReplyText \/ ReplyNothing
         \/ LastReplyText \/ LastReplyNothing
         \/ ExplainRefused \/ ExplainEnds \/ StreamEnds
  PROVE  AuditInv'
<1>1. phase' \notin {"body", "finish"} /\ UNCHANGED <<db, told, wrote, cfg, pending>>
  BY DEF ProviderFails, ReplyFinal, ReplyText, ReplyNothing, Request, LastReplyText,
     LastReplyNothing, LastRequest, Answers, ExplainRefused, ExplainEnds, Explained,
     StreamEnds, callVars
<1>2. phase \in {"turn", "explain"} \/ (phase = "finish" /\ tool = "explain")
  BY DEF ProviderFails, ReplyFinal, ReplyText, ReplyNothing, Request, LastReplyText,
     LastReplyNothing, LastRequest, ExplainRefused, ExplainEnds, StreamEnds
<1>3. pending = 0
  BY <1>2 DEF CoreInv, PendingInv, Running
<1>4. QED
  BY <1>1, <1>3, QuietAudit

LEMMA CallsAudit ==
  ASSUME CoreInv, AuditInv, NEW n \in 1 .. MaxCalls, ReplyCalls(n)
  PROVE  AuditInv'
<1>1. phase' = "dispatch" /\ told' = {} /\ wrote' = {}
  BY DEF ReplyCalls
<1>2. db'.writes = {}
  BY RecordsCleared DEF ReplyCalls, CoreInv, TypeOK
<1>3. QED
  BY <1>1, <1>2 DEF AuditInv, WritesInv, LevelInv, ToldInv, RecordInv, QueriesAudited,
     RaisedMeansUndone, Running

LEMMA OpensAudit ==
  ASSUME CoreInv, AuditInv, StartSql \/ StartSample \/ StartUserTool \/ StartExplain
  PROVE  AuditInv'
<1>1. UNCHANGED <<told, wrote, cfg, pending>> /\ (phase = "dispatch" => tool' # "explain")
  BY DEF StartSql, StartSample, StartQuery, StartUserTool, StartExplain, callVars
<1>2. pending \notin db.writes /\ pending \notin wrote
  BY Opening, WrittenByCalls DEF AuditInv, WritesInv, CoreInv, PendingInv, Running
<1>3. WritesInv'
  BY <1>1, <1>2, Opening DEF AuditInv, WritesInv, Running
<1>4. LevelInv'
  BY <1>1, <1>2, Opening DEF LevelInv
<1>5. ToldInv' /\ RaisedMeansUndone'
  BY <1>1, Opening DEF AuditInv, ToldInv, RaisedMeansUndone
<1>6. RecordInv'
  BY <1>1, Opening DEF RecordInv, Recorded
<1>7. QueriesAudited'
  <2>1. \A q \in told : q[1] # pending
    BY WrittenByCalls DEF AuditInv, ToldInv
  <2>2. \A q \in told : <<q[1], "in flight">> # <<pending, "in flight">>
    BY <2>1
  <2>3. db.audit \subseteq db'.audit /\ db'.audit \subseteq db.audit \cup {<<pending, "in flight">>}
    BY Opening DEF Recorded
  <2>4. \A q \in told : <<q[1], "in flight">> \in db'.audit => <<q[1], "in flight">> \in db.audit
    BY <2>2, <2>3
  <2>5. QED
    BY <1>1, <2>3, <2>4 DEF AuditInv, QueriesAudited
<1>8. QED
  BY <1>3, <1>4, <1>5, <1>6, <1>7 DEF AuditInv

LEMMA BodyAudit ==
  ASSUME CoreInv, AuditInv, BodyWrites \/ BodyRaises \/ \E r \in {"ok", "err"} : BodyReturns(r)
  PROVE  AuditInv'
<1>1. /\ phase = "body" /\ db \in Db
      /\ UNCHANGED <<told, cfg, pending, tool>>
      /\ \A q \in told : q[1] # pending
  <2>1. phase = "body" /\ UNCHANGED <<told, cfg, pending, tool>>
    BY DEF BodyWrites, BodyRaises, BodyReturns, callVars
  <2>2. \A q \in told : q[1] # pending
    BY WrittenByCalls DEF AuditInv, ToldInv
  <2>3. QED
    BY <2>1, <2>2 DEF CoreInv, TypeOK
<1>2. CASE BodyWrites
  <2>1. /\ phase' = "body" /\ UNCHANGED stack /\ tool # "explain"
        /\ db'.audit = db.audit /\ db'.writes = db.writes \cup {pending}
        /\ wrote' = wrote \cup {pending}
    BY <1>1, <1>2 DEF BodyWrites, CoreInv, ResultInv, Db
  <2>2. WritesInv'
    BY <1>1, <2>1, WrittenByCalls DEF AuditInv, WritesInv, Running
  <2>3. LevelInv'
    BY <1>1, <2>1 DEF AuditInv, LevelInv
  <2>4. ToldInv' /\ RecordInv' /\ QueriesAudited' /\ RaisedMeansUndone'
    BY <1>1, <2>1 DEF AuditInv, ToldInv, RecordInv, QueriesAudited, RaisedMeansUndone,
       Running
  <2>5. QED
    BY <2>2, <2>3, <2>4 DEF AuditInv
<1>3. CASE ~BodyWrites
  <2>1. /\ phase' = "finish" /\ UNCHANGED wrote
        /\ db'.audit = db.audit
        /\ db'.writes = IF result' = "raised" THEN db.writes \ {pending} ELSE db.writes
    <3>1. CASE BodyRaises
      BY <1>1, <3>1 DEF BodyRaises, AuditInv, LevelInv
    <3>2. ASSUME NEW r \in {"ok", "err"}, BodyReturns(r)
          PROVE  phase' = "finish" /\ result' # "raised" /\ UNCHANGED wrote
                 /\ db'.audit = db.audit /\ db'.writes = db.writes
      BY <1>1, <3>2 DEF BodyReturns, Db
    <3>3. QED
      BY <1>3, <3>1, <3>2
  <2>2. WritesInv'
    <3>1. tool = "explain" => pending = 0
      BY DEF CoreInv, PendingInv, Running
    <3>2. \A w \in db.writes \cup wrote : w = pending => tool # "explain"
      BY <3>1, WrittenByCalls
    <3>3. QED
      BY <1>1, <2>1, <3>2 DEF AuditInv, WritesInv, Running
  <2>3. LevelInv' /\ ToldInv' /\ RecordInv' /\ QueriesAudited' /\ RaisedMeansUndone'
    BY <1>1, <2>1 DEF AuditInv, LevelInv, ToldInv, RecordInv, QueriesAudited,
       RaisedMeansUndone, Running
  <2>4. QED
    BY <2>2, <2>3 DEF AuditInv
<1>4. QED
  BY <1>2, <1>3

\* The next call is a smaller number than any that has written or told.
LEMMA ReturnsAudit ==
  ASSUME CoreInv, AuditInv, NEW ok \in BOOLEAN, ToolReturns(ok), db'.writes = db.writes,
         UNCHANGED wrote
  PROVE  WritesInv' /\ LevelInv' /\ RecordInv'
<1>1. phase' \in {"turn", "dispatch"} /\ pending' = pending - 1
  BY DEF ToolReturns
<1>2. \A w \in db.writes \cup wrote : w > pending'
  BY <1>1, WrittenByCalls DEF AuditInv, WritesInv
<1>3. WritesInv'
  <2>1. \A w \in db'.writes \cup wrote' : w >= pending' /\ w # pending'
    BY <1>1, <1>2, WrittenByCalls
  <2>2. QED
    BY <1>1, <2>1 DEF WritesInv, Running
<1>4. QED
  BY <1>1, <1>3 DEF LevelInv, RecordInv, Running

LEMMA RepliedAudit ==
  ASSUME CoreInv, AuditInv, NEW ok \in BOOLEAN, Replied(ok)
  PROVE  AuditInv'
<1>1. ToolReturns(ok) /\ pending' = pending - 1 /\ UNCHANGED <<db, told, wrote, cfg>>
  BY DEF Replied, ToolReturns, callVars
<1>2. ToldInv'
  BY <1>1, WrittenByCalls DEF AuditInv, ToldInv
<1>3. QueriesAudited' /\ RaisedMeansUndone'
  BY <1>1 DEF AuditInv, QueriesAudited, RaisedMeansUndone
<1>4. QED
  BY <1>1, <1>2, <1>3, ReturnsAudit DEF AuditInv

LEMMA FinishesAudit ==
  ASSUME CoreInv, AuditInv, ToolFinishes
  PROVE  AuditInv'
<1> DEFINE end == IF result = "ok" THEN "ok" ELSE "error"
           now == <<pending, tool, result>>
<1>1. PICK ok \in BOOLEAN : ToolReturns(ok)
  BY DEF ToolFinishes
<1>2. pending' = pending - 1 /\ UNCHANGED <<cfg, wrote>> /\ told' = told \cup {now}
  BY DEF ToolFinishes, ToolReturns, callVars
<1>3. \A q \in told' : q \in told \/ q = now
  BY <1>2
<1>4. \A q \in told : q[1] # pending
  BY WrittenByCalls DEF AuditInv, ToldInv
<1>5. ToldInv'
  BY <1>2, <1>3, WrittenByCalls DEF AuditInv, ToldInv
<1>6. RaisedMeansUndone'
  <2>1. pending \in db.writes <=> pending \in wrote /\ result # "raised"
    BY FinishedDb DEF AuditInv, WritesInv, Running
  <2>2. QED
    BY <1>2, <1>3, <2>1, FinishedDb DEF AuditInv, RaisedMeansUndone
<1>7. QueriesAudited'
  <2> DEFINE open == <<pending, "in flight">>
             closed == <<pending, end>>
  <2>1. open[1] = pending /\ closed[1] = pending /\ open # closed
    OBVIOUS
  <2>2. db'.audit = IF tool = "sql_query" /\ ~cfg THEN (db.audit \ {open}) \cup {closed}
                                                  ELSE db.audit
    BY FinishedDb DEF Finished
  <2>3. tool \in QueryTools => open \in db.audit
    BY FinishedDb DEF AuditInv, RecordInv, Running
  <2> HIDE DEF open, closed
  <2>4. \A a : a[1] # pending => (a \in db'.audit <=> a \in db.audit)
    BY <2>1, <2>2
  <2>5. tool \in QueryTools => \E a \in db'.audit : a[1] = pending
    BY <2>1, <2>2, <2>3
  <2>6. tool = "sql_query" /\ ~cfg => <<pending, end>> \in db'.audit
                                      /\ <<pending, "in flight">> \notin db'.audit
    BY <2>1, <2>2 DEF open, closed
  <2> HIDE DEF end
  <2>7. ASSUME NEW q \in told
        PROVE  q[2] \in QueryTools =>
               /\ \E a \in db'.audit : a[1] = q[1]
               /\ q[2] = "sql_query" /\ ~cfg =>
                    /\ <<q[1], IF q[3] = "ok" THEN "ok" ELSE "error">> \in db'.audit
                    /\ <<q[1], "in flight">> \notin db'.audit
    BY <1>4, <2>4 DEF AuditInv, QueriesAudited
  <2>8. tool \in QueryTools =>
          /\ \E a \in db'.audit : a[1] = now[1]
          /\ now[2] = "sql_query" /\ ~cfg =>
               /\ <<now[1], IF now[3] = "ok" THEN "ok" ELSE "error">> \in db'.audit
               /\ <<now[1], "in flight">> \notin db'.audit
    BY <2>5, <2>6 DEF end
  <2>9. now[2] = tool
    OBVIOUS
  <2> HIDE DEF now
  <2>10. QED
    BY <1>2, <1>3, <2>7, <2>8, <2>9 DEF QueriesAudited
<1>8. QED
  BY <1>1, <1>2, <1>5, <1>6, <1>7, FinishedDb, ReturnsAudit DEF AuditInv

LEMMA AuditStep ==
  ASSUME CoreInv, AuditInv, [Next]_vars
  PROVE  AuditInv'
<1>1. CoreInv'
  BY CoreStep
<1>2. CASE \E m \in Modes : Ask(m) \/ AskUnconfigured(m)
  <2>1. phase = "idle" /\ phase' \in {"turn", "trace"} /\ told' = {} /\ wrote' = {}
        /\ UNCHANGED pending
    BY <1>2 DEF Ask, AskUnconfigured, Enter
  <2>2. pending = 0
    BY <2>1 DEF CoreInv, PendingInv, Running
  <2>3. QED
    BY <1>1, <2>1, <2>2, ForgottenAudit
<1>3. ASSUME NEW o, Ended(o) PROVE AuditInv'
  BY <1>1, <1>3, ForgottenAudit DEF Ended
<1>4. CASE AskReturns \/ Aborts
  BY <1>3, <1>4, AbortsAbort DEF AskReturns, Aborted
<1>5. CASE Cancel \/ UNCHANGED vars
  <2>1. UNCHANGED <<db, stack, phase, told, wrote, cfg, pending, tool, result>>
    BY <1>5 DEF Cancel, vars, callVars
  <2>2. QED
    BY <2>1 DEF AuditInv, WritesInv, LevelInv, ToldInv, RecordInv, QueriesAudited,
       RaisedMeansUndone, Running
<1>6. QED
  BY <1>2, <1>4, <1>5, NextGroups, ClientAudit, LoopAudit, CallsAudit, OpensAudit,
     BodyAudit, RepliedAudit, FinishesAudit

LEMMA AuditAlways == Spec => [](CoreInv /\ AuditInv)
<1>1. Init => CoreInv /\ AuditInv
  <2>1. Init => told = {} /\ wrote = {} /\ phase = "idle" /\ db.writes = {}
    BY DEF Init
  <2>2. QED
    BY InitCore, <2>1 DEF AuditInv, WritesInv, LevelInv, ToldInv, RecordInv,
       QueriesAudited, RaisedMeansUndone, Running
<1>2. CoreInv /\ AuditInv /\ [Next]_vars => (CoreInv /\ AuditInv)'
  BY CoreStep, AuditStep
<1>3. QED
  BY <1>1, <1>2, PTL DEF Spec

\* The audit row outlives the rollback of the query it is about, and says how
\* the query ended as far as pg_ask.readonly lets it.
THEOREM QueriesAreAudited == Spec => []QueriesAudited
<1>1. AuditInv => QueriesAudited
  BY DEF AuditInv
<1>2. QED
  BY <1>1, AuditAlways, PTL

\* Rolling back a tool's subtransaction undoes what that tool has written, and
\* leaves what the other tools of the reply have written.
THEOREM FailedQueriesAreUndone == Spec => []RaisedMeansUndone
<1>1. AuditInv => RaisedMeansUndone
  BY DEF AuditInv
<1>2. QED
  BY <1>1, AuditAlways, PTL

==============================================================================
