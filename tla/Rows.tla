--------------------------------- MODULE Rows ---------------------------------
(***************************************************************************)
(* The tables that several clients of one database share, as PostgreSQL    *)
(* gives them to READ COMMITTED transactions: a statement sees the rows    *)
(* committed before it began and those its own transaction has written; a  *)
(* statement that writes a row waits while another transaction has written *)
(* it.  An ERROR undoes the transaction and the client rolls back at once. *)
(* Registry and Settings keep their tables here.                           *)
(***************************************************************************)
EXTENDS Naturals, FiniteSets

CONSTANTS
  Clients,       \* backends, each with the connection it serves
  Roles,
  SessionUser,   \* session_user of a client
  Assumable,     \* the roles a client may SET ROLE to
  Superusers,
  Items,         \* the rows there may be
  Values,        \* what a row may hold
  NoRow, NoOne,
  StartTime, EndTime,  \* bound: the clock
  MaxWrites            \* bound: statements that write

ASSUME RowsAssumption ==
  /\ SessionUser \in [Clients -> Roles]
  /\ Assumable \in [Clients -> SUBSET Roles]
  /\ Superusers \subseteq Roles
  /\ NoOne \notin Clients \cup Items
  /\ NoRow \notin [owner : Roles, value : Values]
  /\ {StartTime, EndTime, MaxWrites} \subseteq Nat
  /\ StartTime <= EndTime

VARIABLES
  clock,      \* now, in ticks
  role,       \* current_user of each client
  txn,        \* where each client's transaction is
  committed,  \* the rows everyone sees
  holder,     \* the transaction that has written a row and not committed
  draft,      \* what it has written
  writes      \* how many statements have written

tableVars == <<committed, holder, draft, writes>>
rowVars == <<clock, role, txn, tableVars>>

Row == [owner : Roles, value : Values]

RowsTypeOK ==
  /\ clock \in StartTime .. EndTime
  /\ role \in [Clients -> Roles]
  /\ txn \in [Clients -> {"none", "open"}]
  /\ committed \in [Items -> Row \cup {NoRow}]
  /\ draft \in [Items -> Row \cup {NoRow}]
  /\ holder \in [Items -> Clients \cup {NoOne}]
  /\ \A i \in Items : holder[i] # NoOne => txn[holder[i]] # "none"
  /\ writes \in 0 .. MaxWrites

RowsInit ==
  /\ clock = StartTime
  /\ role = SessionUser
  /\ txn = [c \in Clients |-> "none"]
  /\ committed = [i \in Items |-> NoRow]
  /\ draft = [i \in Items |-> NoRow]
  /\ holder = [i \in Items |-> NoOne]
  /\ writes = 0

\* What a statement of c that begins now sees in row i.
Visible(c, i) == IF holder[i] = c THEN draft[i] ELSE committed[i]

\* No other transaction has row i locked.
Free(c, i) == holder[i] \in {NoOne, c}

\* c writes the rows S, which are free: row i becomes what f says.
Write(c, S, f) ==
  /\ writes < MaxWrites
  /\ \A i \in S : Free(c, i)
  /\ holder' = [i \in Items |-> IF i \in S THEN c ELSE holder[i]]
  /\ draft' = [i \in Items |-> IF i \in S THEN f[i] ELSE draft[i]]
  /\ writes' = writes + 1
  /\ UNCHANGED committed

\* The transaction of c ends; its rows are what t says from then on.
Ends(c, t) ==
  /\ committed' = t
  /\ holder' = [i \in Items |-> IF holder[i] = c THEN NoOne ELSE holder[i]]
  /\ draft' = [i \in Items |-> IF holder[i] = c THEN NoRow ELSE draft[i]]
  /\ txn' = [txn EXCEPT ![c] = "none"]
  /\ UNCHANGED <<clock, writes>>

Undone(c) == Ends(c, committed)

Tick ==
  /\ clock < EndTime
  /\ clock' = clock + 1
  /\ UNCHANGED <<role, txn, tableVars>>

Begin(c) ==
  /\ txn[c] = "none"
  /\ txn' = [txn EXCEPT ![c] = "open"]
  /\ UNCHANGED <<clock, role, tableVars>>

Commit(c) ==
  /\ txn[c] = "open"
  /\ Ends(c, [i \in Items |-> Visible(c, i)])
  /\ UNCHANGED role

\* The client rolls back, is cancelled while it waits, or is the one that
\* PostgreSQL picks from a cycle of transactions that wait for each other.
Rollback(c) ==
  /\ txn[c] # "none"
  /\ Undone(c)
  /\ UNCHANGED role

\* SET ROLE, between transactions.
SetRole(c, r) ==
  /\ txn[c] = "none"
  /\ r \in Assumable[c]
  /\ role' = [role EXCEPT ![c] = r]
  /\ UNCHANGED <<clock, txn, tableVars>>
==============================================================================
