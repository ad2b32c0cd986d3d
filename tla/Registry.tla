------------------------------- MODULE Registry -------------------------------
(***************************************************************************)
(* User-defined tools and the schema: ask.register_tool and                *)
(* ask.unregister_tool write ask._tools, DDL writes the catalog, and a     *)
(* call of ask() reads both when it begins, each through a cache of its    *)
(* backend that is keyed by the current role and has a time to live        *)
(* (TOOL_CACHE of tools/mod.rs, CACHE of schema/mod.rs).  sql() reads the  *)
(* schema alone, the same way, and is left out.                            *)
(*                                                                         *)
(* A tool belongs to the session_user that registered it and is offered to *)
(* the current_user that owns it.  The value of its row is the role whose  *)
(* body it has.  A relation's row stands for a table that its owner sees.  *)
(***************************************************************************)
EXTENDS Rows

CONSTANTS
  Names,      \* names of tools
  Relations,  \* names of tables
  Callers,    \* the clients that make calls (bound)
  Budgets,    \* values of pg_ask.schema_char_budget, in tables
  ToolTTL,    \* TOOL_CACHE_TTL_SECS, in ticks
  SchemaTTL,  \* CACHE_TTL, in ticks
  NoEntry

ASSUME RegistryAssumption ==
  /\ Names \subseteq Items
  /\ Relations \subseteq Items \ Names
  /\ Roles \subseteq Values
  /\ Callers \subseteq Clients
  /\ Budgets \subseteq Nat
  /\ {ToolTTL, SchemaTTL} \subseteq Nat

VARIABLES
  doing,        \* the name a registration has checked and not yet written
  toolCache,    \* TOOL_CACHE of each backend
  schemaCache,  \* CACHE of each backend
  contested,    \* ghost: names that two transactions registered at once
  shift,        \* ghost: when a row last changed as a client sees it
  called        \* ghost: when a client last began a call with a readonly flag

cacheVars == <<toolCache, schemaCache>>
vars == <<rowVars, doing, cacheVars, contested, shift, called>>

Tools == SUBSET (Names \X Row)
ToolEntry == [role : Roles, at : StartTime .. EndTime, readonly : BOOLEAN, tools : Tools]
Summary == [tables : SUBSET Relations, mode : {"full", "compact"}]
SchemaEntry == [role : Roles, at : StartTime .. EndTime, budget : Budgets, summary : Summary]

\* The type invariant; who is between the two statements of a registration is
\* inside a transaction, and so is who has written a row.
TypeOK ==
  /\ RowsTypeOK
  /\ doing \in [Clients -> Names \cup {NoOne}]
  /\ \A c \in Clients : doing[c] # NoOne => txn[c] = "open"
  /\ toolCache \in [Callers -> ToolEntry \cup {NoEntry}]
  /\ schemaCache \in [Callers -> SchemaEntry \cup {NoEntry}]
  /\ contested \subseteq Names
  /\ shift \in [Callers -> [Items -> 0 .. EndTime]]
  /\ called \in [Callers -> [BOOLEAN -> 0 .. EndTime]]

Init ==
  /\ RowsInit
  /\ doing = [c \in Clients |-> NoOne]
  /\ toolCache = [c \in Callers |-> NoEntry]
  /\ schemaCache = [c \in Callers |-> NoEntry]
  /\ contested = {}
  /\ shift = [c \in Callers |-> [i \in Items |-> 0]]
  /\ called = [c \in Callers |-> [ro \in BOOLEAN |-> 0]]

-----------------------------------------------------------------------------
(* Registering. *)

Mine(c, n) == Visible(c, n) # NoRow /\ Visible(c, n).owner = SessionUser[c]

\* Mutant: a row of another owner is no obstacle.
MayTake(c, n) == TRUE

\* _tool_register: no row, or one of the session's own.
MayRegister(c, n) == Visible(c, n) = NoRow \/ Mine(c, n)

\* The SELECT of _tool_register passes.
RegisterChecks(c, n) ==
  /\ txn[c] = "open"
  /\ doing[c] = NoOne
  /\ writes < MaxWrites
  /\ MayRegister(c, n)
  /\ doing' = [doing EXCEPT ![c] = n]
  /\ contested' = IF \E d \in Clients \ {c} : doing[d] = n \/ holder[n] = d
                  THEN contested \cup {n} ELSE contested
  /\ UNCHANGED rowVars

\* Mutant: the conflict clause also takes over the ownership.
UpsertedOwned(c, n) == [owner |-> SessionUser[c], value |-> SessionUser[c]]

\* INSERT ... ON CONFLICT (name) DO UPDATE: an update leaves the owner alone.
Upserted(c, n) ==
  IF Visible(c, n) = NoRow
  THEN [owner |-> SessionUser[c], value |-> SessionUser[c]]
  ELSE [Visible(c, n) EXCEPT !.value = SessionUser[c]]

\* The INSERT of _tool_register, once no other transaction has the row.
RegisterUpserts(c) ==
  /\ doing[c] # NoOne
  /\ Write(c, {doing[c]}, [n \in {doing[c]} |-> Upserted(c, n)])
  /\ doing' = [doing EXCEPT ![c] = NoOne]
  /\ UNCHANGED <<clock, role, txn, contested>>

\* A statement of c that writes row i, between registrations.
Puts(c, i, r) ==
  /\ txn[c] = "open"
  /\ doing[c] = NoOne
  /\ Write(c, {i}, [j \in {i} |-> r])
  /\ UNCHANGED <<clock, role, txn, doing, contested>>

\* _tool_unregister.  A DELETE that has to wait finds after the wait what it
\* would find if it began then; one that finds nothing changes nothing.
Unregister(c, n) == Mine(c, n) /\ Puts(c, n, NoRow)

\* DDL of the clients.
CreateTable(c, t) ==
  /\ Visible(c, t) = NoRow
  /\ Puts(c, t, [owner |-> role[c], value |-> role[c]])

DropTable(c, t) ==
  /\ Visible(c, t) # NoRow
  /\ Visible(c, t).owner = role[c]
  /\ Puts(c, t, NoRow)

-----------------------------------------------------------------------------
(* Reading: what list_tools() shows, and the two caches. *)

\* The tools whose owner is current_user.
OwnTools(c) ==
  {t \in Names \X {Visible(c, n) : n \in Names} :
     t[2] = Visible(c, t[1]) /\ t[2] # NoRow /\ t[2].owner = role[c]}

NewTools(c, ro) ==
  [role |-> role[c], at |-> clock, readonly |-> ro, tools |-> OwnTools(c)]

\* Mutant: every hit makes the entry young again.
ToolsServedSliding(c, ro) ==
  LET e == toolCache[c] IN
  IF e # NoEntry /\ e.role = role[c] /\ clock - e.at < ToolTTL
  THEN [e EXCEPT !.at = clock] ELSE NewTools(c, ro)

\* load_user_tools: the entry that serves the call, cached or new.  The policy
\* of the call that fills it stays in its tools.
ToolsServed(c, ro) ==
  LET e == toolCache[c] IN
  IF e # NoEntry /\ e.role = role[c] /\ clock - e.at < ToolTTL
  THEN e ELSE NewTools(c, ro)

\* compute_summary: the tables the role may read, in the render that fits.
Computed(c, b) ==
  LET seen == {t \in Relations : Visible(c, t) # NoRow /\ Visible(c, t).owner = role[c]}
  IN  [tables |-> seen, mode |-> IF Cardinality(seen) <= b THEN "full" ELSE "compact"]

NewSummary(c, b) ==
  [role |-> role[c], at |-> clock, budget |-> b, summary |-> Computed(c, b)]

\* summarize_within: the entry that serves the call, cached or new.
SchemaServed(c, b) ==
  LET e == schemaCache[c] IN
  IF e # NoEntry /\ e.role = role[c] /\ e.budget = b /\ clock - e.at < SchemaTTL
  THEN e ELSE NewSummary(c, b)

CanCall(c) == txn[c] = "open" /\ doing[c] = NoOne

\* run_with_cfg up to its first request, of a call whose settings are loaded.
StartCall(c, ro, b) ==
  /\ CanCall(c)
  /\ toolCache' = [toolCache EXCEPT ![c] = ToolsServed(c, ro)]
  /\ schemaCache' = [schemaCache EXCEPT ![c] = SchemaServed(c, b)]
  /\ called' = [called EXCEPT ![c] = [@ EXCEPT ![ro] = clock]]
  /\ UNCHANGED <<rowVars, doing, contested>>

-----------------------------------------------------------------------------
\* Mutant: a transaction that fails half way leaves its registration pending.
AbandonsHalf(c) == Undone(c) /\ UNCHANGED <<role, doing, contested>>

\* The transaction of c is undone, whatever it was doing.
Abandons(c) ==
  /\ Undone(c)
  /\ doing' = [doing EXCEPT ![c] = NoOne]
  /\ UNCHANGED <<role, contested>>

\* The name is another role's: ERROR.
RegisterRefused(c, n) ==
  /\ txn[c] = "open"
  /\ doing[c] = NoOne
  /\ ~MayRegister(c, n)
  /\ Abandons(c)

\* Rolled back by the client or by an ERROR, a deadlock's among them.
Aborts(c) == txn[c] = "open" /\ Abandons(c)

\* The connection ends: its transaction is undone, its backend's caches go.
Reconnect(c) ==
  /\ Undone(c)
  /\ doing' = [doing EXCEPT ![c] = NoOne]
  /\ role' = [role EXCEPT ![c] = SessionUser[c]]
  /\ toolCache' = [d \in Callers |-> IF d = c THEN NoEntry ELSE toolCache[d]]
  /\ schemaCache' = [d \in Callers |-> IF d = c THEN NoEntry ELSE schemaCache[d]]
  /\ UNCHANGED contested

\* What moves a transaction along.
Transact(c) ==
  \/ Begin(c) /\ UNCHANGED <<doing, contested>>
  \/ (\E r \in Roles : SetRole(c, r)) /\ UNCHANGED <<doing, contested>>
  \/ doing[c] = NoOne /\ Commit(c) /\ UNCHANGED <<doing, contested>>
  \/ Aborts(c)

Edit(c) ==
  \/ \E n \in Names : \/ RegisterChecks(c, n)
                      \/ RegisterRefused(c, n)
                      \/ Unregister(c, n)
  \/ RegisterUpserts(c)
  \/ \E t \in Relations : CreateTable(c, t) \/ DropTable(c, t)

Step ==
  \/ /\ \/ Tick /\ UNCHANGED <<doing, contested>>
        \/ \E c \in Clients : Transact(c) \/ Edit(c)
     /\ UNCHANGED <<cacheVars, called>>
  \/ \E c \in Callers, ro \in BOOLEAN, b \in Budgets : StartCall(c, ro, b)
  \/ /\ \E c \in Clients : Reconnect(c)
     /\ UNCHANGED called

\* A row of a client's view changed, by its own statement or another's commit.
Watch ==
  shift' = [c \in Callers |-> [i \in Items |->
              IF Visible(c, i)' # Visible(c, i) THEN clock ELSE shift[c][i]]]

Next == Step /\ Watch

Spec == Init /\ [][Next]_vars

-----------------------------------------------------------------------------
(* Properties. *)

\* Row i has looked the same to c for at least ttl.
Steady(c, i, ttl) == shift[c][i] + ttl <= clock

\* A call that begins now is offered a name whose row has looked the same for
\* the time to live exactly as list_tools() shows it.
ToolsFresh(c, ro) ==
  \A n \in Names : Steady(c, n, ToolTTL) =>
    {t \in ToolsServed(c, ro).tools : t[1] = n} = {t \in OwnTools(c) : t[1] = n}

\* If its tools have another readonly policy, it is that of a call which began
\* less than the time to live ago.
PolicyFresh(c, ro) ==
  ToolsServed(c, ro).readonly # ro => clock - called[c][~ro] < ToolTTL

\* Its summary is that of the tables if these have been the same for the time to
\* live, in the render that fits its own budget.
SummaryFresh(c, b) ==
  (\A t \in Relations : Steady(c, t, SchemaTTL)) =>
    SchemaServed(c, b).summary = Computed(c, b)

\* The caches lag by their times to live and no more, across roles, budgets,
\* rollbacks and other clients' commits (TOOL_CACHE and CACHE).
CachesLagBounded ==
  \A c \in Callers, ro \in BOOLEAN, b \in Budgets : CanCall(c) =>
    ToolsFresh(c, ro) /\ PolicyFresh(c, ro) /\ SummaryFresh(c, b)

\* A name passes to another role only after its owner has given it up, although
\* the check and the write of a registration are two statements.
NameStaysWithOwner ==
  [][\A n \in Names : (committed[n] # NoRow /\ committed'[n] # NoRow) =>
        committed'[n].owner = committed[n].owner]_vars

\* The body of a tool is its owner's, unless two registrations of the name
\* overlapped before the first of them was committed.
BodyOfOwner ==
  \A n \in Names \ contested :
    committed[n] # NoRow => committed[n].value = committed[n].owner
==============================================================================
