---------------------------- MODULE RegistryProofs ----------------------------
(* Proofs about Registry: who a name and its body belong to, for any clients, *)
(* roles and names and however their transactions overlap.                    *)
EXTENDS Registry, TLAPS

\* What a transaction has made of a name keeps the owner of the committed row,
\* or it has deleted a row that was its own.
Kept ==
  \A n \in Names :
    (holder[n] # NoOne /\ committed[n] # NoRow) =>
      /\ draft[n] = NoRow => committed[n].owner = SessionUser[holder[n]]
      /\ draft[n] # NoRow => draft[n].owner = committed[n].owner

\* Who is about to write a name that nobody contests may still write it, and
\* whoever else has it locked is deleting it.
Alone ==
  \A c \in Clients : \A n \in Names \ contested :
    doing[c] = n =>
      /\ MayRegister(c, n)
      /\ \A d \in Clients \ {c} : doing[d] # n /\ (holder[n] = d => draft[n] = NoRow)

\* The bodies, the written ones included.
Bodies ==
  \A n \in Names \ contested :
    /\ committed[n] # NoRow => committed[n].value = committed[n].owner
    /\ (holder[n] # NoOne /\ draft[n] # NoRow) => draft[n].value = draft[n].owner

-----------------------------------------------------------------------------
(* Types. *)

\* A statement sees rows, or none.
LEMMA VisibleTyped ==
  ASSUME RowsTypeOK, NEW c \in Clients, NEW i \in Items
  PROVE  Visible(c, i) \in Row \cup {NoRow}
BY DEF RowsTypeOK, Visible

\* A statement that writes keeps the types of the tables.
LEMMA WriteTyped ==
  ASSUME RowsTypeOK, NEW c \in Clients, txn[c] = "open",
         NEW i \in Items, NEW r \in Row \cup {NoRow},
         Write(c, {i}, [j \in {i} |-> r]), UNCHANGED <<clock, role, txn>>
  PROVE  RowsTypeOK'
<1>1. holder' = [j \in Items |-> IF j = i THEN c ELSE holder[j]]
  BY DEF Write
<1>2. draft' = [j \in Items |-> IF j = i THEN r ELSE draft[j]]
  BY DEF Write
<1>3. writes' \in 0 .. MaxWrites
  BY RowsAssumption DEF Write, RowsTypeOK
<1>4. committed' = committed /\ clock' = clock /\ role' = role /\ txn' = txn
  BY DEF Write
<1>5. QED
  BY <1>1, <1>2, <1>3, <1>4 DEF RowsTypeOK

\* The end of a transaction keeps them too.
LEMMA EndsTyped ==
  ASSUME RowsTypeOK, NEW c \in Clients,
         NEW t \in [Items -> Row \cup {NoRow}], Ends(c, t), role' \in [Clients -> Roles]
  PROVE  RowsTypeOK'
<1>1. \A i \in Items : holder'[i] # NoOne => txn'[holder'[i]] # "none"
  <2> SUFFICES ASSUME NEW i \in Items, holder'[i] # NoOne
               PROVE  txn'[holder'[i]] # "none"
    OBVIOUS
  <2>1. holder'[i] = holder[i] /\ holder[i] # c /\ holder[i] \in Clients
    BY DEF Ends, RowsTypeOK
  <2>2. txn'[holder[i]] = txn[holder[i]]
    BY <2>1 DEF Ends, RowsTypeOK
  <2>3. QED
    BY <2>1, <2>2 DEF RowsTypeOK
<1>2. /\ committed' \in [Items -> Row \cup {NoRow}]
      /\ draft' \in [Items -> Row \cup {NoRow}]
      /\ holder' \in [Items -> Clients \cup {NoOne}]
  BY DEF Ends, RowsTypeOK
<1>3. /\ txn' \in [Clients -> {"none", "open"}]
      /\ clock' \in StartTime .. EndTime
      /\ writes' \in 0 .. MaxWrites
  BY DEF Ends, RowsTypeOK
<1>4. QED
  BY <1>1, <1>2, <1>3 DEF RowsTypeOK

\* A row that a statement of c leaves behind.
LEMMA UpsertedTyped ==
  ASSUME RowsTypeOK, NEW c \in Clients, NEW n \in Names
  PROVE  Upserted(c, n) \in Row
<1>1. SessionUser[c] \in Roles /\ SessionUser[c] \in Values
  BY RowsAssumption, RegistryAssumption
<1>2. Visible(c, n) \in Row \cup {NoRow}
  BY VisibleTyped, RegistryAssumption
<1>3. QED
  BY <1>1, <1>2 DEF Upserted, Row

\* What the caches hold.
LEMMA ServedTyped ==
  ASSUME TypeOK, NEW c \in Callers, NEW ro \in BOOLEAN, NEW b \in Budgets
  PROVE  /\ ToolsServed(c, ro) \in ToolEntry \cup {NoEntry}
         /\ SchemaServed(c, b) \in SchemaEntry \cup {NoEntry}
<1>1. c \in Clients
  BY RegistryAssumption
<1>2. OwnTools(c) \in Tools
  <2> SUFFICES ASSUME NEW t \in OwnTools(c)
               PROVE  t \in Names \X Row
    BY DEF Tools
  <2>1. /\ t \in Names \X {Visible(c, n) : n \in Names}
        /\ t[2] = Visible(c, t[1])
        /\ t[2] # NoRow
    BY DEF OwnTools
  <2>2. t[1] \in Names /\ t = <<t[1], t[2]>>
    BY <2>1
  <2>3. Visible(c, t[1]) \in Row \cup {NoRow}
    BY <1>1, <2>2, VisibleTyped, RegistryAssumption DEF TypeOK
  <2>4. QED
    BY <2>1, <2>2, <2>3
<1>3. NewTools(c, ro) \in ToolEntry
  BY <1>1, <1>2 DEF NewTools, ToolEntry, TypeOK, RowsTypeOK
<1>4. Computed(c, b) \in Summary
  BY DEF Computed, Summary
<1>5. NewSummary(c, b) \in SchemaEntry
  BY <1>1, <1>4 DEF NewSummary, SchemaEntry, TypeOK, RowsTypeOK
<1>6. QED
  BY <1>3, <1>5 DEF TypeOK, ToolsServed, SchemaServed

\* An aborted transaction.
LEMMA AbandonsTyped ==
  ASSUME TypeOK, NEW c \in Clients, Undone(c), role' \in [Clients -> Roles],
         doing' = [doing EXCEPT ![c] = NoOne]
  PROVE  /\ RowsTypeOK'
         /\ doing' \in [Clients -> Names \cup {NoOne}]
         /\ \A d \in Clients : doing'[d] # NoOne => txn'[d] = "open"
<1>1. RowsTypeOK'
  BY EndsTyped DEF Undone, TypeOK, RowsTypeOK
<1>2. doing' \in [Clients -> Names \cup {NoOne}]
  BY DEF TypeOK
<1>3. \A d \in Clients : doing'[d] # NoOne => d # c /\ txn'[d] = txn[d] /\ doing[d] = doing'[d]
  BY DEF TypeOK, Undone, Ends, RowsTypeOK
<1>4. QED
  BY <1>1, <1>2, <1>3 DEF TypeOK

\* What a step does to the rows, to doing and to contested keeps their types.
Basics ==
  /\ RowsTypeOK
  /\ doing \in [Clients -> Names \cup {NoOne}]
  /\ \A c \in Clients : doing[c] # NoOne => txn[c] = "open"
  /\ contested \subseteq Names

LEMMA TransactTyped ==
  ASSUME TypeOK, NEW c \in Clients, Transact(c)
  PROVE  Basics'
<1>1. CASE Begin(c) /\ UNCHANGED <<doing, contested>>
  <2>1. txn' = [txn EXCEPT ![c] = "open"]
    BY <1>1 DEF Begin
  <2>2. QED
    BY <1>1, <2>1 DEF Begin, Basics, TypeOK, RowsTypeOK, tableVars
<1>2. CASE (\E r \in Roles : SetRole(c, r)) /\ UNCHANGED <<doing, contested>>
  <2>1. role' \in [Clients -> Roles]
    BY <1>2 DEF SetRole, TypeOK, RowsTypeOK
  <2>2. QED
    BY <1>2, <2>1 DEF SetRole, Basics, TypeOK, RowsTypeOK, tableVars
<1>3. CASE doing[c] = NoOne /\ Commit(c) /\ UNCHANGED <<doing, contested>>
  <2>1. [i \in Items |-> Visible(c, i)] \in [Items -> Row \cup {NoRow}]
    BY VisibleTyped DEF TypeOK
  <2>2. RowsTypeOK'
    BY <1>3, <2>1, EndsTyped DEF Commit, TypeOK, RowsTypeOK
  <2>3. \A d \in Clients : doing'[d] # NoOne => txn'[d] = txn[d]
    BY <1>3 DEF TypeOK, Commit, Ends, RowsTypeOK
  <2>4. QED
    BY <1>3, <2>2, <2>3 DEF Basics, TypeOK
<1>4. CASE Aborts(c)
  <2>1. Undone(c) /\ role' \in [Clients -> Roles] /\ contested' = contested
    BY <1>4 DEF Aborts, Abandons, TypeOK, RowsTypeOK
  <2>2. QED
    BY <1>4, <2>1, AbandonsTyped DEF Aborts, Abandons, Basics, TypeOK
<1>5. QED
  BY <1>1, <1>2, <1>3, <1>4 DEF Transact

LEMMA PutsTyped ==
  ASSUME TypeOK, NEW c \in Clients, NEW i \in Items, NEW r \in Row \cup {NoRow}, Puts(c, i, r)
  PROVE  Basics'
<1>1. RowsTypeOK'
  BY WriteTyped DEF Puts, TypeOK
<1>2. QED
  BY <1>1 DEF Puts, Basics, TypeOK

LEMMA EditTyped ==
  ASSUME TypeOK, NEW c \in Clients, Edit(c)
  PROVE  Basics'
<1>1. CASE \E n \in Names : RegisterChecks(c, n)
  <2>1. PICK n \in Names : RegisterChecks(c, n)
    BY <1>1
  <2>2. doing' \in [Clients -> Names \cup {NoOne}] /\ contested' \subseteq Names
    BY <2>1 DEF RegisterChecks, TypeOK
  <2>3. \A d \in Clients : doing'[d] # NoOne => txn[d] = "open"
    BY <2>1 DEF RegisterChecks, TypeOK
  <2>4. QED
    BY <2>1, <2>2, <2>3 DEF RegisterChecks, rowVars, tableVars, Basics, TypeOK, RowsTypeOK
<1>2. CASE \E n \in Names : RegisterRefused(c, n)
  <2>1. Undone(c) /\ role' \in [Clients -> Roles] /\ contested' = contested
    BY <1>2 DEF RegisterRefused, Abandons, TypeOK, RowsTypeOK
  <2>2. QED
    BY <1>2, <2>1, AbandonsTyped DEF RegisterRefused, Abandons, Basics, TypeOK
<1>3. CASE \E n \in Names : Unregister(c, n)
  BY <1>3, PutsTyped, RegistryAssumption DEF Unregister
<1>4. CASE RegisterUpserts(c)
  <2> DEFINE n == doing[c]
  <2>1. n \in Names /\ n \in Items /\ txn[c] = "open"
    BY <1>4, RegistryAssumption DEF RegisterUpserts, TypeOK
  <2>2. Upserted(c, n) \in Row
    BY <2>1, UpsertedTyped DEF TypeOK
  <2>3. [m \in {n} |-> Upserted(c, m)] = [m \in {n} |-> Upserted(c, n)]
    OBVIOUS
  <2>4. Write(c, {n}, [m \in {n} |-> Upserted(c, n)]) /\ UNCHANGED <<clock, role, txn>>
    BY <1>4, <2>3 DEF RegisterUpserts
  <2>5. RowsTypeOK'
    BY <2>1, <2>2, <2>4, WriteTyped DEF TypeOK
  <2>6. QED
    BY <1>4, <2>5 DEF RegisterUpserts, Basics, TypeOK
<1>5. CASE \E t \in Relations : CreateTable(c, t)
  <2>1. PICK t \in Relations : CreateTable(c, t)
    BY <1>5
  <2>2. [owner |-> role[c], value |-> role[c]] \in Row
    BY RegistryAssumption DEF Row, TypeOK, RowsTypeOK
  <2>3. QED
    BY <2>1, <2>2, PutsTyped, RegistryAssumption DEF CreateTable
<1>6. CASE \E t \in Relations : DropTable(c, t)
  BY <1>6, PutsTyped, RegistryAssumption DEF DropTable
<1>7. QED
  BY <1>1, <1>2, <1>3, <1>4, <1>5, <1>6 DEF Edit

LEMMA TickTyped ==
  ASSUME TypeOK, Tick, UNCHANGED <<doing, contested>>
  PROVE  Basics'
<1>1. clock' \in StartTime .. EndTime
  BY RowsAssumption DEF Tick, TypeOK, RowsTypeOK
<1>2. QED
  BY <1>1 DEF Tick, Basics, TypeOK, RowsTypeOK, tableVars

LEMMA StartCallTyped ==
  ASSUME TypeOK, NEW c \in Callers, NEW ro \in BOOLEAN, NEW b \in Budgets, StartCall(c, ro, b)
  PROVE  /\ Basics'
         /\ toolCache' \in [Callers -> ToolEntry \cup {NoEntry}]
         /\ schemaCache' \in [Callers -> SchemaEntry \cup {NoEntry}]
         /\ called' \in [Callers -> [BOOLEAN -> 0 .. EndTime]]
<1>1. clock \in 0 .. EndTime
  BY RowsAssumption DEF TypeOK, RowsTypeOK
<1>2. Basics'
  BY DEF StartCall, rowVars, tableVars, Basics, TypeOK, RowsTypeOK
<1>3. called' \in [Callers -> [BOOLEAN -> 0 .. EndTime]]
  BY <1>1 DEF StartCall, TypeOK
<1>4. QED
  BY <1>2, <1>3, ServedTyped DEF StartCall, TypeOK

LEMMA ReconnectTyped ==
  ASSUME TypeOK, NEW c \in Clients, Reconnect(c)
  PROVE  /\ Basics'
         /\ toolCache' \in [Callers -> ToolEntry \cup {NoEntry}]
         /\ schemaCache' \in [Callers -> SchemaEntry \cup {NoEntry}]
<1>1. Undone(c) /\ role' \in [Clients -> Roles] /\ contested' = contested
  BY RowsAssumption DEF Reconnect, TypeOK, RowsTypeOK
<1>2. Basics'
  BY <1>1, AbandonsTyped DEF Reconnect, Basics, TypeOK
<1>3. QED
  BY <1>2 DEF Reconnect, TypeOK

\* The ghost of the properties.
LEMMA WatchTyped ==
  ASSUME TypeOK, Watch
  PROVE  shift' \in [Callers -> [Items -> 0 .. EndTime]]
<1>1. clock \in 0 .. EndTime
  BY RowsAssumption DEF TypeOK, RowsTypeOK
<1>2. QED
  BY <1>1 DEF Watch, TypeOK

LEMMA TypeInit == Init => TypeOK
<1> SUFFICES ASSUME Init PROVE TypeOK
  OBVIOUS
<1>1. StartTime \in StartTime .. EndTime /\ 0 \in 0 .. EndTime /\ 0 \in 0 .. MaxWrites
  BY RowsAssumption
<1>2. RowsTypeOK
  BY <1>1, RowsAssumption DEF Init, RowsInit, RowsTypeOK
<1>3. QED
  BY <1>1, <1>2 DEF Init, TypeOK

LEMMA TypeStep == TypeOK /\ [Next]_vars => TypeOK'
<1> SUFFICES ASSUME TypeOK, [Next]_vars PROVE TypeOK'
  OBVIOUS
<1>1. CASE UNCHANGED vars
  BY <1>1 DEF vars, rowVars, tableVars, cacheVars, TypeOK, RowsTypeOK
<1>2. CASE Next
  <2>1. shift' \in [Callers -> [Items -> 0 .. EndTime]]
    BY <1>2, WatchTyped DEF Next
  <2>2. Basics' /\ UNCHANGED <<cacheVars, called>> => TypeOK'
    BY <2>1 DEF Basics, TypeOK, cacheVars
  <2>3. CASE Tick /\ UNCHANGED <<doing, contested>> /\ UNCHANGED <<cacheVars, called>>
    BY <2>2, <2>3, TickTyped
  <2>4. CASE (\E c \in Clients : Transact(c) \/ Edit(c)) /\ UNCHANGED <<cacheVars, called>>
    BY <2>2, <2>4, TransactTyped, EditTyped
  <2>5. CASE \E c \in Callers, ro \in BOOLEAN, b \in Budgets : StartCall(c, ro, b)
    BY <2>1, <2>5, StartCallTyped DEF Basics, TypeOK
  <2>6. CASE (\E c \in Clients : Reconnect(c)) /\ UNCHANGED called
    BY <2>1, <2>6, ReconnectTyped DEF Basics, TypeOK
  <2>7. QED
    BY <1>2, <2>3, <2>4, <2>5, <2>6 DEF Next, Step
<1>3. QED
  BY <1>1, <1>2

\* Whatever clients do, every table, cache and transaction is of its type, and
\* whoever has locked a row or checked a name is inside a transaction.
THEOREM TypeCorrect == Spec => []TypeOK
BY TypeInit, TypeStep, PTL DEF Spec

-----------------------------------------------------------------------------
(* Who names and bodies belong to. *)

Owned == Kept /\ Alone /\ Bodies

LEMMA OwnedInit == Init => Owned
<1>1. \A n \in Names : n \in Items /\ n # NoOne
  BY RowsAssumption, RegistryAssumption
<1>2. QED
  BY <1>1 DEF Init, RowsInit, Owned, Kept, Alone, Bodies

\* Steps that touch neither the rows nor the registrations.
LEMMA OwnedQuiet ==
  ASSUME Owned, UNCHANGED <<committed, holder, draft, doing, contested>>
  PROVE  Owned'
BY DEF Owned, Kept, Alone, Bodies, MayRegister, Mine, Visible

\* A name is contested from the moment a second transaction checks it.
LEMMA OwnedChecks ==
  ASSUME TypeOK, Owned, NEW c \in Clients, NEW n \in Names, RegisterChecks(c, n)
  PROVE  Owned'
<1>1. UNCHANGED <<committed, holder, draft>> /\ contested \subseteq contested'
  BY DEF RegisterChecks, rowVars, tableVars
<1>2. Kept' /\ Bodies'
  BY <1>1 DEF Owned, Kept, Bodies
<1>3. Alone'
  <2> SUFFICES ASSUME NEW d \in Clients, NEW m \in Names \ contested', doing'[d] = m
               PROVE  /\ MayRegister(d, m)
                      /\ \A e \in Clients \ {d} :
                           doing'[e] # m /\ (holder[m] = e => draft[m] = NoRow)
    BY <1>1 DEF Alone, MayRegister, Mine, Visible
  <2>1. doing' = [doing EXCEPT ![c] = n]
    BY DEF RegisterChecks
  <2>2. CASE d = c
    <3>1. m = n
      BY <2>1, <2>2 DEF TypeOK
    <3>2. \A e \in Clients \ {c} : doing[e] # n /\ holder[n] # e
      BY <3>1 DEF RegisterChecks
    <3>3. QED
      BY <2>1, <2>2, <3>1, <3>2 DEF RegisterChecks, TypeOK
  <2>3. CASE d # c
    <3>1. doing[d] = m /\ m \in Names \ contested
      BY <1>1, <2>1, <2>3 DEF TypeOK
    <3>2. m # n
      BY <2>3, <3>1 DEF RegisterChecks
    <3>3. QED
      BY <2>1, <2>3, <3>1, <3>2 DEF Owned, Alone, TypeOK
  <2>4. QED
    BY <2>2, <2>3
<1>4. QED
  BY <1>2, <1>3 DEF Owned

\* An aborted transaction leaves the committed rows and the others' alone.
LEMMA OwnedUndone ==
  ASSUME TypeOK, Owned, NEW c \in Clients, Undone(c),
         doing' = [doing EXCEPT ![c] = NoOne], contested' = contested
  PROVE  Owned'
<1>1. /\ committed' = committed
      /\ \A n \in Names : \/ holder[n] = c /\ holder'[n] = NoOne
                          \/ holder[n] # c /\ holder'[n] = holder[n] /\ draft'[n] = draft[n]
  BY RegistryAssumption DEF Undone, Ends, TypeOK, RowsTypeOK
<1>2. Kept' /\ Bodies'
  BY <1>1 DEF Owned, Kept, Bodies
<1>3. Alone'
  <2> SUFFICES ASSUME NEW d \in Clients, NEW m \in Names \ contested, doing'[d] = m
               PROVE  /\ MayRegister(d, m)'
                      /\ \A e \in Clients \ {d} :
                           doing'[e] # m /\ (holder'[m] = e => draft'[m] = NoRow)
    BY DEF Alone
  <2>1. m # NoOne
    BY RowsAssumption, RegistryAssumption
  <2>2. d # c /\ doing[d] = m
    BY <2>1 DEF TypeOK
  <2>3. /\ MayRegister(d, m)
        /\ \A e \in Clients \ {d} : doing[e] # m /\ (holder[m] = e => draft[m] = NoRow)
    BY <2>2 DEF Owned, Alone
  <2>4. Visible(d, m)' = Visible(d, m)
    BY <1>1, <2>2, RowsAssumption DEF Visible
  <2>5. \A e \in Clients : doing'[e] # m \/ doing[e] = m
    BY <2>1 DEF TypeOK
  <2>6. \A e \in Clients : holder'[m] = e => holder[m] = e /\ draft'[m] = draft[m]
    BY <1>1, RowsAssumption
  <2>7. QED
    BY <2>3, <2>4, <2>5, <2>6 DEF MayRegister, Mine
<1>4. QED
  BY <1>2, <1>3 DEF Owned

\* A commit publishes rows whose owners are those of the rows they replace.
LEMMA OwnedCommit ==
  ASSUME TypeOK, Owned, NEW c \in Clients, doing[c] = NoOne, Commit(c),
         UNCHANGED <<doing, contested>>
  PROVE  /\ Owned'
         /\ \A n \in Names : (committed[n] # NoRow /\ committed'[n] # NoRow) =>
              committed'[n].owner = committed[n].owner
<1>0. \A n \in Names : n \in Items /\ n # NoOne
  BY RowsAssumption, RegistryAssumption
<1>1. \A n \in Names :
        \/ holder[n] = c /\ holder'[n] = NoOne /\ committed'[n] = draft[n]
        \/ /\ holder[n] # c
           /\ holder'[n] = holder[n]
           /\ draft'[n] = draft[n]
           /\ committed'[n] = committed[n]
  BY <1>0 DEF Commit, Ends, Visible, TypeOK, RowsTypeOK
<1>2. c # NoOne
  BY RowsAssumption
<1>3. Kept' /\ Bodies'
  BY <1>1, <1>2 DEF Owned, Kept, Bodies
<1>4. \A n \in Names : (committed[n] # NoRow /\ committed'[n] # NoRow) =>
        committed'[n].owner = committed[n].owner
  BY <1>1, <1>2 DEF Owned, Kept
<1>5. Alone'
  <2> SUFFICES ASSUME NEW d \in Clients, NEW m \in Names \ contested, doing[d] = m
               PROVE  /\ MayRegister(d, m)'
                      /\ \A e \in Clients \ {d} :
                           doing[e] # m /\ (holder'[m] = e => draft'[m] = NoRow)
    BY DEF Alone
  <2>1. d # c
    BY <1>0
  <2>2. /\ MayRegister(d, m)
        /\ \A e \in Clients \ {d} : doing[e] # m /\ (holder[m] = e => draft[m] = NoRow)
    BY DEF Owned, Alone
  <2>3. Visible(d, m)' = Visible(d, m) \/ Visible(d, m)' = NoRow
    BY <1>1, <2>1, <2>2, RowsAssumption DEF Visible
  <2>4. \A e \in Clients : holder'[m] = e => holder[m] = e /\ draft'[m] = draft[m]
    BY <1>1, RowsAssumption
  <2>5. QED
    BY <2>2, <2>3, <2>4 DEF MayRegister, Mine
<1>6. QED
  BY <1>3, <1>4, <1>5 DEF Owned

\* The owner of a name deletes it.
LEMMA OwnedUnregister ==
  ASSUME TypeOK, Owned, NEW c \in Clients, NEW n \in Names, Unregister(c, n)
  PROVE  Owned'
<1>1. n \in Items /\ c # NoOne /\ NoOne \notin Names /\ Names \subseteq Items
  BY RowsAssumption, RegistryAssumption
<1>2. /\ holder[n] \in {NoOne, c}
      /\ holder'[n] = c
      /\ draft'[n] = NoRow
      /\ committed' = committed
      /\ \A m \in Names \ {n} : holder'[m] = holder[m] /\ draft'[m] = draft[m]
  BY <1>1 DEF Unregister, Puts, Write, Free, TypeOK, RowsTypeOK
<1>3. doing[c] = NoOne /\ doing' = doing /\ contested' = contested
  BY DEF Unregister, Puts
<1>4. Visible(c, n) # NoRow /\ Visible(c, n).owner = SessionUser[c]
  BY DEF Unregister, Mine
<1>5. Kept'
  <2>1. committed[n] # NoRow => committed[n].owner = SessionUser[c]
    BY <1>1, <1>2, <1>4 DEF Visible, Owned, Kept
  <2>2. QED
    BY <1>2, <2>1 DEF Owned, Kept
<1>6. Bodies'
  BY <1>2, <1>3 DEF Owned, Bodies
<1>7. Alone'
  <2> SUFFICES ASSUME NEW d \in Clients, NEW m \in Names \ contested, doing[d] = m
               PROVE  /\ MayRegister(d, m)'
                      /\ \A e \in Clients \ {d} :
                           doing[e] # m /\ (holder'[m] = e => draft'[m] = NoRow)
    BY <1>3 DEF Alone
  <2>1. d # c
    BY <1>1, <1>3
  <2>2. /\ MayRegister(d, m)
        /\ \A e \in Clients \ {d} : doing[e] # m /\ (holder[m] = e => draft[m] = NoRow)
    BY DEF Owned, Alone
  <2>3. Visible(d, m)' = Visible(d, m)
    BY <1>1, <1>2, <2>1, RowsAssumption DEF Visible
  <2>4. QED
    BY <1>2, <2>2, <2>3 DEF MayRegister, Mine
<1>8. QED
  BY <1>5, <1>6, <1>7 DEF Owned

\* DDL leaves the names alone.
LEMMA OwnedDDL ==
  ASSUME TypeOK, Owned, NEW c \in Clients, NEW t \in Relations, NEW r, Puts(c, t, r)
  PROVE  Owned'
<1>1. /\ committed' = committed
      /\ \A n \in Names : holder'[n] = holder[n] /\ draft'[n] = draft[n]
      /\ doing' = doing /\ contested' = contested
  BY RegistryAssumption DEF Puts, Write, TypeOK, RowsTypeOK
<1>2. QED
  BY <1>1 DEF Owned, Kept, Alone, Bodies, MayRegister, Mine, Visible

\* A registration writes a name: of the registrar's own, or with the owner that
\* the row it meets has.
LEMMA OwnedUpserts ==
  ASSUME TypeOK, Owned, NEW c \in Clients, RegisterUpserts(c)
  PROVE  Owned'
<1> DEFINE n == doing[c]
           u == Upserted(c, n)
<1>1. n \in Names /\ n \in Items /\ c # NoOne /\ NoOne \notin Names /\ Names \subseteq Items
  BY RowsAssumption, RegistryAssumption DEF RegisterUpserts, TypeOK
<1>2. Write(c, {n}, [m \in {n} |-> u])
  <2>1. [m \in {n} |-> Upserted(c, m)] = [m \in {n} |-> u]
    OBVIOUS
  <2>2. QED
    BY <2>1 DEF RegisterUpserts
<1> HIDE DEF u
<1>3. /\ holder[n] \in {NoOne, c}
      /\ holder'[n] = c
      /\ draft'[n] = u
      /\ committed' = committed
      /\ \A m \in Names \ {n} : holder'[m] = holder[m] /\ draft'[m] = draft[m]
  BY <1>1, <1>2 DEF Write, Free, TypeOK, RowsTypeOK
<1>4. doing' = [doing EXCEPT ![c] = NoOne] /\ contested' = contested
  BY DEF RegisterUpserts
<1>5. /\ u \in Row
      /\ u # NoRow
      /\ u.value = SessionUser[c]
      /\ u.owner = IF Visible(c, n) = NoRow THEN SessionUser[c] ELSE Visible(c, n).owner
  <2>1. Visible(c, n) \in Row \cup {NoRow}
    BY <1>1, VisibleTyped DEF TypeOK
  <2>2. u \in Row
    BY <1>1, UpsertedTyped DEF u, TypeOK
  <2>3. QED
    BY <2>1, <2>2, RowsAssumption DEF u, Upserted, Row
<1>6. Kept'
  <2>1. committed[n] # NoRow => u.owner = committed[n].owner
    <3>1. CASE holder[n] = NoOne
      BY <1>1, <1>5, <3>1 DEF Visible
    <3>2. CASE holder[n] = c
      BY <1>1, <1>5, <3>2 DEF Visible, Owned, Kept
    <3>3. QED
      BY <1>3, <3>1, <3>2
  <2>2. QED
    BY <1>3, <1>5, <2>1 DEF Owned, Kept
<1>7. Bodies'
  <2>1. n \notin contested => u.owner = SessionUser[c]
    BY <1>1, <1>5 DEF Owned, Alone, MayRegister, Mine
  <2>2. QED
    BY <1>3, <1>4, <1>5, <2>1 DEF Owned, Bodies
<1>8. Alone'
  <2> SUFFICES ASSUME NEW d \in Clients, NEW m \in Names \ contested, doing'[d] = m
               PROVE  /\ MayRegister(d, m)'
                      /\ \A e \in Clients \ {d} :
                           doing'[e] # m /\ (holder'[m] = e => draft'[m] = NoRow)
    BY <1>4 DEF Alone
  <2>1. d # c /\ doing[d] = m
    BY <1>1, <1>4 DEF TypeOK
  <2>2. /\ MayRegister(d, m)
        /\ \A e \in Clients \ {d} : doing[e] # m /\ (holder[m] = e => draft[m] = NoRow)
    BY <2>1 DEF Owned, Alone
  <2>3. m # n
    BY <2>1, <2>2
  <2>4. \A e \in Clients : doing'[e] # m \/ doing[e] = m
    BY <1>1, <1>4 DEF TypeOK
  <2>5. QED
    BY <1>3, <2>2, <2>3, <2>4 DEF MayRegister, Mine, Visible
<1>9. QED
  BY <1>6, <1>7, <1>8 DEF Owned

\* No step but a commit changes the committed rows.
Frozen == committed' = committed

LEMMA OwnedStep ==
  ASSUME TypeOK, Owned, [Next]_vars
  PROVE  /\ Owned'
         /\ \A n \in Names : (committed[n] # NoRow /\ committed'[n] # NoRow) =>
              committed'[n].owner = committed[n].owner
<1> DEFINE Handed == \A n \in Names : (committed[n] # NoRow /\ committed'[n] # NoRow) =>
                       committed'[n].owner = committed[n].owner
<1>0. Frozen => Handed
  BY DEF Frozen
<1>1. CASE UNCHANGED vars
  BY <1>0, <1>1, OwnedQuiet DEF Frozen, vars, rowVars, tableVars
<1>2. CASE Tick /\ UNCHANGED <<doing, contested>>
  BY <1>0, <1>2, OwnedQuiet DEF Frozen, Tick, tableVars
<1>3. CASE \E c \in Clients : Transact(c)
  <2>1. PICK c \in Clients : Transact(c)
    BY <1>3
  <2>2. CASE Begin(c) /\ UNCHANGED <<doing, contested>>
    BY <1>0, <2>2, OwnedQuiet DEF Frozen, Begin, tableVars
  <2>3. CASE (\E r \in Roles : SetRole(c, r)) /\ UNCHANGED <<doing, contested>>
    BY <1>0, <2>3, OwnedQuiet DEF Frozen, SetRole, tableVars
  <2>4. CASE doing[c] = NoOne /\ Commit(c) /\ UNCHANGED <<doing, contested>>
    BY <2>4, OwnedCommit
  <2>5. CASE Aborts(c)
    BY <1>0, <2>5, OwnedUndone DEF Frozen, Aborts, Abandons, Undone, Ends
  <2>6. QED
    BY <2>1, <2>2, <2>3, <2>4, <2>5 DEF Transact
<1>4. CASE \E c \in Clients : Edit(c)
  <2>1. PICK c \in Clients : Edit(c)
    BY <1>4
  <2>2. CASE \E n \in Names : RegisterChecks(c, n)
    BY <1>0, <2>2, OwnedChecks DEF Frozen, RegisterChecks, rowVars, tableVars
  <2>3. CASE \E n \in Names : RegisterRefused(c, n)
    BY <1>0, <2>3, OwnedUndone DEF Frozen, RegisterRefused, Abandons, Undone, Ends
  <2>4. CASE \E n \in Names : Unregister(c, n)
    BY <1>0, <2>4, OwnedUnregister DEF Frozen, Unregister, Puts, Write
  <2>5. CASE RegisterUpserts(c)
    BY <1>0, <2>5, OwnedUpserts DEF Frozen, RegisterUpserts, Write
  <2>6. CASE \E t \in Relations : CreateTable(c, t) \/ DropTable(c, t)
    <3>1. PICK t \in Relations : CreateTable(c, t) \/ DropTable(c, t)
      BY <2>6
    <3>2. PICK r : Puts(c, t, r)
      BY <3>1 DEF CreateTable, DropTable
    <3>3. QED
      BY <1>0, <3>2, OwnedDDL DEF Frozen, Puts, Write
  <2>7. QED
    BY <2>1, <2>2, <2>3, <2>4, <2>5, <2>6 DEF Edit
<1>5. CASE \E c \in Callers, ro \in BOOLEAN, b \in Budgets : StartCall(c, ro, b)
  BY <1>0, <1>5, OwnedQuiet DEF Frozen, StartCall, rowVars, tableVars
<1>6. CASE \E c \in Clients : Reconnect(c)
  BY <1>0, <1>6, OwnedUndone DEF Frozen, Reconnect, Undone, Ends
<1>7. QED
  BY <1>1, <1>2, <1>3, <1>4, <1>5, <1>6 DEF Next, Step

LEMMA Inductive == Spec => [](TypeOK /\ Owned)
<1>1. Init => TypeOK /\ Owned
  BY TypeInit, OwnedInit
<1>2. TypeOK /\ Owned /\ [Next]_vars => TypeOK' /\ Owned'
  BY TypeStep, OwnedStep
<1>3. QED
  BY <1>1, <1>2, PTL DEF Spec

\* However registrations overlap, the body of a tool that nobody else registered
\* at the same time is its owner's.
THEOREM BodyBelongsToOwner == Spec => []BodyOfOwner
<1>1. TypeOK /\ Owned => BodyOfOwner
  BY DEF Owned, Bodies, BodyOfOwner
<1>2. QED
  BY <1>1, Inductive, PTL

\* However registrations overlap, no commit hands a name from one role to
\* another: the upsert of the role that loses the race keeps the first owner.
THEOREM NameBelongsToOwner == Spec => NameStaysWithOwner
<1>1. TypeOK /\ Owned /\ [Next]_vars =>
        [\A n \in Names : (committed[n] # NoRow /\ committed'[n] # NoRow) =>
           committed'[n].owner = committed[n].owner]_vars
  BY OwnedStep
<1>2. QED
  BY <1>1, Inductive, PTL DEF Spec, NameStaysWithOwner

-----------------------------------------------------------------------------
(* The caches lag by their times to live. *)

\* What a role is offered by the row that c sees under name n.
Offered(c, n, r) == {t \in {<<n, Visible(c, n)>>} : t[2] # NoRow /\ t[2].owner = r}

\* The summary of the tables that c sees, for role r and budget b.
Rendered(c, r, b) ==
  LET seen == {t \in Relations : Visible(c, t) # NoRow /\ Visible(c, t).owner = r}
  IN  [tables |-> seen, mode |-> IF Cardinality(seen) <= b THEN "full" ELSE "compact"]

\* An entry is as the rows were that have not changed since it was made, and a
\* call with its readonly flag began no earlier.
ToolsInv(c) ==
  toolCache[c] # NoEntry =>
    /\ toolCache[c].at <= clock
    /\ toolCache[c].at <= called[c][toolCache[c].readonly]
    /\ \A n \in Names : shift[c][n] < toolCache[c].at =>
         {t \in toolCache[c].tools : t[1] = n} = Offered(c, n, toolCache[c].role)

SchemaInv(c) ==
  schemaCache[c] # NoEntry =>
    /\ schemaCache[c].at <= clock
    /\ (\A t \in Relations : shift[c][t] < schemaCache[c].at) =>
         schemaCache[c].summary = Rendered(c, schemaCache[c].role, schemaCache[c].budget)

CacheInv == \A c \in Callers : ToolsInv(c) /\ SchemaInv(c)

LEMMA OwnToolsByName ==
  ASSUME NEW c \in Callers, NEW n \in Names
  PROVE  {t \in OwnTools(c) : t[1] = n} = Offered(c, n, role[c])
<1>1. ASSUME NEW t \in OwnTools(c), t[1] = n PROVE t \in Offered(c, n, role[c])
  <2>1. t \in Names \X {Visible(c, m) : m \in Names}
        /\ t[2] = Visible(c, n) /\ t[2] # NoRow /\ t[2].owner = role[c]
    BY <1>1 DEF OwnTools
  <2>2. t = <<n, Visible(c, n)>>
    BY <1>1, <2>1
  <2>3. QED
    BY <2>1, <2>2 DEF Offered
<1>2. ASSUME NEW t \in Offered(c, n, role[c]) PROVE t \in OwnTools(c) /\ t[1] = n
  <2>1. t = <<n, Visible(c, n)>> /\ t[2] # NoRow /\ t[2].owner = role[c]
    BY DEF Offered
  <2>2. t[1] = n /\ t[2] = Visible(c, n) /\ t \in Names \X {Visible(c, m) : m \in Names}
    BY <2>1
  <2>3. QED
    BY <2>1, <2>2 DEF OwnTools
<1>3. QED
  BY <1>1, <1>2

\* Time goes on.
LEMMA CacheClock ==
  ASSUME TypeOK, [Next]_vars
  PROVE  clock \in Nat /\ clock' \in Nat /\ clock <= clock'
<1>1. clock \in Nat
  BY RowsAssumption DEF TypeOK, RowsTypeOK
<1>2. clock' = clock \/ clock' = clock + 1
  BY DEF Next, Step, Tick, Transact, Begin, SetRole, Commit, Aborts, Abandons, Undone, Ends,
     Edit, RegisterChecks, RegisterRefused, Unregister, RegisterUpserts, CreateTable,
     DropTable, Puts, StartCall, Reconnect, rowVars, vars
<1>3. QED
  BY <1>1, <1>2

\* A row that changes has changed now.
LEMMA Watched ==
  ASSUME TypeOK, [Next]_vars, NEW c \in Callers, NEW i \in Items
  PROVE  /\ shift[c][i] \in Nat
         /\ \/ Visible(c, i)' = Visible(c, i) /\ shift'[c][i] = shift[c][i]
            \/ shift'[c][i] = clock
<1>1. shift[c][i] \in Nat
  BY RowsAssumption DEF TypeOK
<1>2. \/ Visible(c, i)' = Visible(c, i) /\ shift'[c][i] = shift[c][i]
      \/ shift'[c][i] = clock
  <2>1. CASE Watch
    BY <2>1 DEF Watch
  <2>2. CASE UNCHANGED vars
    BY <2>2 DEF vars, rowVars, tableVars, Visible
  <2>3. QED
    BY <2>1, <2>2 DEF Next
<1>3. QED
  BY <1>1, <1>2

\* What a step does to the caches of one backend.
LEMMA CachesStep ==
  ASSUME TypeOK, [Next]_vars, NEW c \in Callers
  PROVE  \/ UNCHANGED <<toolCache[c], schemaCache[c], called[c]>>
         \/ /\ toolCache'[c] = NoEntry /\ schemaCache'[c] = NoEntry
            /\ UNCHANGED called[c]
         \/ \E ro \in BOOLEAN, b \in Budgets :
              /\ toolCache'[c] = ToolsServed(c, ro)
              /\ schemaCache'[c] = SchemaServed(c, b)
              /\ called'[c] = [called[c] EXCEPT ![ro] = clock]
              /\ UNCHANGED rowVars
<1>1. CASE \E d \in Callers, ro \in BOOLEAN, b \in Budgets : StartCall(d, ro, b)
  <2>1. PICK d \in Callers, ro \in BOOLEAN, b \in Budgets : StartCall(d, ro, b)
    BY <1>1
  <2>2. CASE d = c
    BY <2>1, <2>2 DEF StartCall, TypeOK
  <2>3. CASE d # c
    BY <2>1, <2>3 DEF StartCall, TypeOK
  <2>4. QED
    BY <2>2, <2>3
<1>2. CASE (\E d \in Clients : Reconnect(d)) /\ UNCHANGED called
  BY <1>2 DEF Reconnect
<1>3. CASE UNCHANGED <<cacheVars, called>>
  BY <1>3 DEF cacheVars
<1>4. QED
  BY <1>1, <1>2, <1>3 DEF Next, Step, vars

LEMMA KeptTools ==
  ASSUME TypeOK, TypeOK', [Next]_vars, NEW c \in Callers, ToolsInv(c), UNCHANGED toolCache[c],
         called'[c] = called[c] \/ \E ro \in BOOLEAN : called'[c] = [called[c] EXCEPT ![ro] = clock]
  PROVE  ToolsInv(c)'
<1> SUFFICES ASSUME toolCache[c] # NoEntry PROVE ToolsInv(c)'
  BY DEF ToolsInv
<1> DEFINE e == toolCache[c]
<1>1. e \in ToolEntry /\ e.at \in Nat /\ e.readonly \in BOOLEAN
  BY RowsAssumption DEF TypeOK, ToolEntry
<1>2. e.at <= clock /\ e.at <= called[c][e.readonly]
  BY DEF ToolsInv
<1>3. e.at <= clock'
  BY <1>1, <1>2, CacheClock
<1>4. e.at <= called'[c][e.readonly]
  BY <1>1, <1>2 DEF TypeOK
<1>5. ASSUME NEW n \in Names, shift'[c][n] < e.at
      PROVE  {t \in e.tools : t[1] = n} = Offered(c, n, e.role)'
  <2>1. n \in Items
    BY RegistryAssumption
  <2>2. Visible(c, n)' = Visible(c, n) /\ shift'[c][n] = shift[c][n]
    BY <1>1, <1>2, <1>5, <2>1, Watched, CacheClock
  <2>3. {t \in e.tools : t[1] = n} = Offered(c, n, e.role)
    BY <1>5, <2>2 DEF ToolsInv
  <2>4. QED
    BY <2>2, <2>3 DEF Offered
<1>6. QED
  BY <1>3, <1>4, <1>5 DEF ToolsInv

LEMMA KeptSchema ==
  ASSUME TypeOK, TypeOK', [Next]_vars, NEW c \in Callers, SchemaInv(c),
         UNCHANGED schemaCache[c]
  PROVE  SchemaInv(c)'
<1> SUFFICES ASSUME schemaCache[c] # NoEntry PROVE SchemaInv(c)'
  BY DEF SchemaInv
<1> DEFINE e == schemaCache[c]
<1>1. e \in SchemaEntry /\ e.at \in Nat
  BY RowsAssumption DEF TypeOK, SchemaEntry
<1>2. e.at <= clock
  BY DEF SchemaInv
<1>3. clock \in Nat /\ clock' \in Nat /\ clock <= clock'
  BY CacheClock
<1>4. e.at <= clock'
  BY <1>1, <1>2, <1>3
<1>5. ASSUME \A t \in Relations : shift'[c][t] < e.at
      PROVE  e.summary = Rendered(c, e.role, e.budget)'
  <2>1. \A t \in Relations :
          Visible(c, t)' = Visible(c, t) /\ shift'[c][t] = shift[c][t]
    BY <1>1, <1>2, <1>3, <1>5, Watched, RegistryAssumption
  <2>2. e.summary = Rendered(c, e.role, e.budget)
    BY <1>5, <2>1 DEF SchemaInv
  <2>3. Rendered(c, e.role, e.budget)' = Rendered(c, e.role, e.budget)
    <3>1. {t \in Relations : Visible(c, t)' # NoRow /\ Visible(c, t)'.owner = e.role}
            = {t \in Relations : Visible(c, t) # NoRow /\ Visible(c, t).owner = e.role}
      BY <2>1
    <3>2. QED
      BY <3>1 DEF Rendered
  <2>4. QED
    BY <2>2, <2>3
<1>6. QED
  BY <1>4, <1>5 DEF SchemaInv

\* A new entry is as the rows are.
LEMMA NewEntries ==
  ASSUME TypeOK, TypeOK', NEW c \in Callers, NEW ro \in BOOLEAN, NEW b \in Budgets,
         called'[c] = [called[c] EXCEPT ![ro] = clock], UNCHANGED rowVars
  PROVE  /\ toolCache'[c] = NewTools(c, ro) => ToolsInv(c)'
         /\ schemaCache'[c] = NewSummary(c, b) => SchemaInv(c)'
<1>1. clock \in Nat /\ clock' = clock
  BY RowsAssumption DEF TypeOK, RowsTypeOK, rowVars
<1>2. \A i : Visible(c, i)' = Visible(c, i)
  BY DEF rowVars, tableVars, Visible
<1>3. ASSUME toolCache'[c] = NewTools(c, ro) PROVE ToolsInv(c)'
  <2>1. /\ toolCache'[c].at = clock /\ toolCache'[c].readonly = ro
        /\ toolCache'[c].role = role[c] /\ toolCache'[c].tools = OwnTools(c)
    BY <1>3 DEF NewTools
  <2>2. called'[c][ro] = clock
    BY DEF TypeOK
  <2>3. \A n \in Names : {t \in OwnTools(c) : t[1] = n} = Offered(c, n, role[c])'
    BY <1>2, OwnToolsByName DEF Offered, rowVars
  <2>4. QED
    BY <1>1, <2>1, <2>2, <2>3 DEF ToolsInv, rowVars
<1>4. ASSUME schemaCache'[c] = NewSummary(c, b) PROVE SchemaInv(c)'
  <2>1. /\ schemaCache'[c].at = clock /\ schemaCache'[c].budget = b
        /\ schemaCache'[c].role = role[c] /\ schemaCache'[c].summary = Computed(c, b)
    BY <1>4 DEF NewSummary
  <2>2. Computed(c, b) = Rendered(c, role[c], b)
    BY DEF Computed, Rendered
  <2>3. Rendered(c, role[c], b)' = Rendered(c, role[c], b)
    BY DEF Rendered, rowVars, tableVars, Visible
  <2>4. QED
    BY <1>1, <2>1, <2>2, <2>3 DEF SchemaInv, rowVars
<1>5. QED
  BY <1>3, <1>4

LEMMA CacheStep ==
  ASSUME TypeOK, CacheInv, [Next]_vars
  PROVE  CacheInv'
<1>1. TypeOK'
  BY TypeStep
<1> SUFFICES ASSUME NEW c \in Callers PROVE ToolsInv(c)' /\ SchemaInv(c)'
  BY DEF CacheInv
<1>2. ToolsInv(c) /\ SchemaInv(c)
  BY DEF CacheInv
<1>3. CASE UNCHANGED <<toolCache[c], schemaCache[c], called[c]>>
  BY <1>1, <1>2, <1>3, KeptTools, KeptSchema
<1>4. CASE toolCache'[c] = NoEntry /\ schemaCache'[c] = NoEntry
  BY <1>4 DEF ToolsInv, SchemaInv
<1>5. ASSUME NEW ro \in BOOLEAN, NEW b \in Budgets,
             toolCache'[c] = ToolsServed(c, ro), schemaCache'[c] = SchemaServed(c, b),
             called'[c] = [called[c] EXCEPT ![ro] = clock], UNCHANGED rowVars
      PROVE  ToolsInv(c)' /\ SchemaInv(c)'
  <2>1. UNCHANGED toolCache[c] \/ toolCache'[c] = NewTools(c, ro)
    BY <1>5 DEF ToolsServed
  <2>2. UNCHANGED schemaCache[c] \/ schemaCache'[c] = NewSummary(c, b)
    BY <1>5 DEF SchemaServed
  <2>3. ToolsInv(c)'
    BY <1>1, <1>2, <1>5, <2>1, KeptTools, NewEntries
  <2>4. SchemaInv(c)'
    BY <1>1, <1>2, <1>5, <2>2, KeptSchema, NewEntries
  <2>5. QED
    BY <2>3, <2>4
<1>6. QED
  BY <1>3, <1>4, <1>5, CachesStep

\* A hit is younger than the time to live, and what has been steady for the
\* time to live is older than the entry.
LEMMA HitsAreFresh ==
  ASSUME TypeOK, CacheInv, NEW c \in Callers, NEW ro \in BOOLEAN, NEW b \in Budgets
  PROVE  ToolsFresh(c, ro) /\ PolicyFresh(c, ro) /\ SummaryFresh(c, b)
<1>1. clock \in Nat /\ ToolTTL \in Nat /\ SchemaTTL \in Nat
  BY RowsAssumption, RegistryAssumption DEF TypeOK, RowsTypeOK
<1>2. \A i \in Items : shift[c][i] \in Nat
  BY RowsAssumption DEF TypeOK
<1>3. Names \subseteq Items /\ Relations \subseteq Items
  BY RegistryAssumption
<1>4. ASSUME ToolsServed(c, ro) = NewTools(c, ro) PROVE ToolsFresh(c, ro) /\ PolicyFresh(c, ro)
  BY <1>4 DEF ToolsFresh, PolicyFresh, NewTools
<1>5. ASSUME ToolsServed(c, ro) # NewTools(c, ro) PROVE ToolsFresh(c, ro) /\ PolicyFresh(c, ro)
  <2> DEFINE e == toolCache[c]
  <2>1. ToolsServed(c, ro) = e /\ e # NoEntry /\ e.role = role[c] /\ clock - e.at < ToolTTL
    BY <1>5 DEF ToolsServed
  <2>2. e.at \in Nat /\ e.readonly \in BOOLEAN
    BY <2>1, RowsAssumption DEF TypeOK, ToolEntry
  <2>3. ASSUME NEW n \in Names, Steady(c, n, ToolTTL)
        PROVE  {t \in e.tools : t[1] = n} = {t \in OwnTools(c) : t[1] = n}
    <3>1. shift[c][n] < e.at
      BY <1>1, <1>2, <1>3, <2>1, <2>2, <2>3 DEF Steady
    <3>2. {t \in e.tools : t[1] = n} = Offered(c, n, role[c])
      BY <2>1, <3>1 DEF CacheInv, ToolsInv
    <3>3. QED
      BY <3>2, OwnToolsByName
  <2>4. e.readonly # ro => clock - called[c][~ro] < ToolTTL
    <3>1. SUFFICES ASSUME e.readonly # ro PROVE clock - called[c][~ro] < ToolTTL
      OBVIOUS
    <3>2. e.readonly = ~ro
      BY <2>2, <3>1
    <3>3. called[c][~ro] \in Nat
      <4>1. \A q \in BOOLEAN : called[c][q] \in 0 .. EndTime
        BY DEF TypeOK
      <4>2. called[c][~ro] \in 0 .. EndTime
        BY <3>1, <3>2, <4>1
      <4>3. QED
        BY <4>2
    <3>4. e.at <= called[c][~ro]
      BY <2>1, <3>2 DEF CacheInv, ToolsInv
    <3>5. QED
      BY <1>1, <2>1, <2>2, <3>3, <3>4
  <2>5. QED
    BY <2>1, <2>3, <2>4 DEF ToolsFresh, PolicyFresh
<1>6. SummaryFresh(c, b)
  <2> DEFINE e == schemaCache[c]
  <2>1. CASE SchemaServed(c, b) = NewSummary(c, b)
    BY <2>1 DEF SummaryFresh, NewSummary
  <2>2. CASE SchemaServed(c, b) # NewSummary(c, b)
    <3>1. /\ SchemaServed(c, b) = e /\ e # NoEntry /\ e.role = role[c] /\ e.budget = b
          /\ clock - e.at < SchemaTTL
      BY <2>2 DEF SchemaServed
    <3>2. e.at \in Nat
      BY <3>1, RowsAssumption DEF TypeOK, SchemaEntry
    <3>3. ASSUME \A t \in Relations : Steady(c, t, SchemaTTL)
          PROVE  e.summary = Computed(c, b)
      <4>1. \A t \in Relations : shift[c][t] < e.at
        BY <1>1, <1>2, <1>3, <3>1, <3>2, <3>3 DEF Steady
      <4>2. e.summary = Rendered(c, role[c], b)
        BY <3>1, <4>1 DEF CacheInv, SchemaInv
      <4>3. QED
        BY <4>2 DEF Computed, Rendered
    <3>4. QED
      BY <3>1, <3>3 DEF SummaryFresh
  <2>3. QED
    BY <2>1, <2>2
<1>7. QED
  BY <1>4, <1>5, <1>6

\* A call is served the tools and the schema as they are, or were within the
\* time to live, whatever roles, budgets and policies the backend has had in
\* between and whoever changes them.
THEOREM CachesLag == Spec => []CachesLagBounded
<1>1. Init => TypeOK /\ CacheInv
  BY TypeInit DEF Init, CacheInv, ToolsInv, SchemaInv
<1>2. TypeOK /\ CacheInv /\ [Next]_vars => (TypeOK /\ CacheInv)'
  BY TypeStep, CacheStep
<1>3. TypeOK /\ CacheInv => CachesLagBounded
  BY HitsAreFresh DEF CachesLagBounded
<1>4. QED
  BY <1>1, <1>2, <1>3, PTL DEF Spec
===============================================================================
