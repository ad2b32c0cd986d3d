------------------------------- MODULE Settings -------------------------------
(***************************************************************************)
(* The settings a call runs with: RuntimeConfig::load resolves the string  *)
(* keys one after another, each from the session's or role's GUC and else  *)
(* from its row of ask._config.  Each row is read by a statement of its    *)
(* own, and ask.config() writes one row per call: an operator who moves    *)
(* the installation to another vendor is between two calls for a while.    *)
(* Secret rows are readable to superusers only: for others                 *)
(* ask._config_get raises.                                                 *)
(*                                                                         *)
(* The value of a provider row is the vendor, that of a key row the vendor *)
(* the key was issued by.  Numbers and flags come from GUCs alone and are  *)
(* constants of the modules that use them.  Left out: the model, the base  *)
(* URL and the lists, which resolve alike, and the fixture provider, which *)
(* needs no key.                                                           *)
(***************************************************************************)
EXTENDS Rows, Sequences

CONSTANTS
  Vendors,
  Switches,  \* the vendors ask.config() is called with (bound)
  Unset,
  Guc     \* the values the keys have as GUCs of a client

\* The order in which load() asks for them.
Keys == <<"provider", "api_key", "embedding_provider", "embedding_api_key">>
Key == {Keys[i] : i \in 1 .. Len(Keys)}
Secret == {"api_key", "embedding_api_key"}

ASSUME SettingsAssumption ==
  /\ Key \subseteq Items
  /\ Vendors \subseteq Values
  /\ Switches \subseteq Vendors
  /\ Unset \notin Vendors
  /\ Guc \in [Clients -> [Key -> Vendors \cup {Unset}]]

VARIABLES
  asked,   \* how many keys load() has resolved; 0 while it does not run
  loaded,  \* what they resolved to
  views    \* history: what it could have found, at each moment of the load

NoSettings == [k \in Key |-> Unset]

SettingsTypeOK ==
  /\ asked \in [Clients -> 0 .. Len(Keys)]
  /\ loaded \in [Clients -> [Key -> Vendors \cup {Unset}]]
  /\ views \in [Clients -> SUBSET [Key -> Vendors \cup {Unset}]]
  /\ \A c \in Clients : asked[c] > 0 => txn[c] = "open"

SettingsInit ==
  /\ asked = [c \in Clients |-> 0]
  /\ loaded = [c \in Clients |-> NoSettings]
  /\ views = [c \in Clients |-> {}]

\* The call they were loaded for is over, or the transaction of c is.
Forgotten(c) ==
  /\ asked' = [asked EXCEPT ![c] = 0]
  /\ loaded' = [loaded EXCEPT ![c] = NoSettings]

\* The transaction of c is undone: rolled back by the client or by an ERROR.
Abandons(c) ==
  /\ Undone(c)
  /\ Forgotten(c)
  /\ UNCHANGED role

\* ask.config(k, v): an upsert of one row.
Config(c, k, v) ==
  /\ txn[c] = "open"
  /\ asked[c] = 0
  /\ Write(c, {k}, [i \in {k} |-> [owner |-> SessionUser[c], value |-> v]])
  /\ UNCHANGED <<clock, role, txn, asked, loaded>>

\* required_string, optional_string: the GUC, else the row.
Resolved(c, k) ==
  IF Guc[c][k] # Unset THEN Guc[c][k]
  ELSE IF Visible(c, k) # NoRow THEN Visible(c, k).value ELSE Unset

\* The settings as the GUCs and the table of c are now.
View(c) == [k \in Key |-> Resolved(c, k)]

\* _config_get raises instead of giving c the row of k.
Refused(c, k) == k \in Secret /\ Guc[c][k] = Unset /\ role[c] \notin Superusers

Missing(c, k) == k \in {"provider", "api_key"} /\ Resolved(c, k) = Unset

\* Mutant: the chat key serves every embedding provider.
AlwaysFallback(s) ==
  IF s["embedding_api_key"] = Unset /\ s["embedding_provider"] # Unset
  THEN [s EXCEPT !["embedding_api_key"] = s["api_key"]]
  ELSE s

\* The chat key serves the embeddings too if one vendor does both.
WithFallback(s) ==
  IF /\ s["embedding_api_key"] = Unset
     /\ s["embedding_provider"] # Unset
     /\ s["embedding_provider"] = s["provider"]
  THEN [s EXCEPT !["embedding_api_key"] = s["api_key"]]
  ELSE s

\* load() resolves its next key.
Resolve(c) ==
  LET k == Keys[asked[c] + 1]
      s == [loaded[c] EXCEPT ![k] = Resolved(c, k)]
  IN  /\ txn[c] = "open"
      /\ asked[c] < Len(Keys)
      /\ ~Refused(c, k)
      /\ ~Missing(c, k)
      /\ asked' = [asked EXCEPT ![c] = @ + 1]
      /\ loaded' = [loaded EXCEPT ![c] = IF asked[c] + 1 = Len(Keys) THEN WithFallback(s) ELSE s]
      /\ UNCHANGED rowVars

\* A required key has no value, or its row is refused: ERROR.
LoadFails(c) ==
  LET k == Keys[asked[c] + 1] IN
  /\ txn[c] = "open"
  /\ asked[c] < Len(Keys)
  /\ Refused(c, k) \/ Missing(c, k)
  /\ Abandons(c)

\* c has its settings.
HasSettings(c) == asked[c] = Len(Keys)

\* The history: what c finds after this step, while its load runs.
Viewed ==
  views' = [c \in Clients |->
    IF asked'[c] = 0 THEN {} ELSE IF HasSettings(c) THEN views[c] ELSE views[c] \cup {View(c)'}]
==============================================================================
