-------------------------------- MODULE Memory --------------------------------
(***************************************************************************)
(* Long-term memory: ask.remember, ask.recall and ask.forget over rows of  *)
(* ask._memories that belong to the session_user and are shown to the      *)
(* current_user, with pgvector installed and the table there.  Recall      *)
(* ranks in two stages: the rows nearest to the query by embedding, more   *)
(* of them than asked for, and among them the best by a blended score.     *)
(* The first stage may use an approximate index, which scans a part of the *)
(* table, whoever owns the rows in it.  Every call loads its settings      *)
(* first, in its own statements' snapshots (Settings).                     *)
(***************************************************************************)
EXTENDS Settings, FiniteSetsExt

CONSTANTS
  Memories,    \* ids, each with the text it stands for
  Near,        \* cosine similarity of a memory to the query, in 1 / Scale
  TextRank,    \* ts_rank_cd of its text for the query
  Scale,
  Alpha,       \* pg_ask.memory_search_alpha, in 1 / Scale
  Limits,      \* the limits recall is called with
  Overfetch,   \* 5 in the code
  Floor,       \* 50 in the code
  HitCap       \* 100 in the code

ASSUME MemoryAssumption ==
  /\ Memories \subseteq Items \ Key
  /\ IsFiniteSet(Memories)
  /\ Roles \subseteq Values
  /\ Near \in [Memories -> 0 .. Scale]
  /\ TextRank \in [Memories -> Nat]
  /\ Alpha \in 0 .. Scale
  /\ Limits \subseteq Nat \ {0}
  /\ {Scale, Overfetch, Floor, HitCap} \subseteq Nat \ {0}

vars == <<rowVars, asked, loaded, views>>

\* The type invariant; who loads settings is inside a transaction.
TypeOK == RowsTypeOK /\ SettingsTypeOK

Init == RowsInit /\ SettingsInit

\* The settings name no vendor or no key to embed with.
CannotEmbed(c) ==
  \/ loaded[c]["embedding_provider"] = Unset
  \/ loaded[c]["embedding_api_key"] = Unset

\* remember and recall without an embedding: ERROR.
EmbeddingFails(c) ==
  /\ HasSettings(c)
  /\ CannotEmbed(c)
  /\ Abandons(c)

\* A statement of c that writes memory m with its settings loaded.
Puts(c, m, r) ==
  /\ HasSettings(c)
  /\ Write(c, {m}, [i \in {m} |-> r])
  /\ Forgotten(c)
  /\ UNCHANGED <<clock, role, txn>>

\* remember, with its embedding made: a new row, which is the session_user's.
Remember(c, m) ==
  /\ ~CannotEmbed(c)
  /\ holder[m] = NoOne
  /\ committed[m] = NoRow
  /\ Puts(c, m, [owner |-> SessionUser[c], value |-> SessionUser[c]])

\* forget; an id that is not there or not the session's changes nothing.
Forget(c, m) ==
  /\ Visible(c, m) # NoRow
  /\ Visible(c, m).owner = SessionUser[c]
  /\ Puts(c, m, NoRow)

-----------------------------------------------------------------------------
(* Recall. *)

\* The rows a client is shown: owner = current_user by the query, owner =
\* session_user by the policy, which superusers bypass.
Shown(c) ==
  {m \in Memories : /\ Visible(c, m) # NoRow
                    /\ Visible(c, m).owner = role[c]
                    /\ role[c] \in Superusers \/ Visible(c, m).owner = SessionUser[c]}

\* Mutant: the first stage fetches no more than asked for.
FetchJust(limit) == Min({limit, HitCap})

\* How many rows the first stage fetches.
Fetch(limit) == Max({limit * Overfetch, Floor})

\* The blended score, in 1 / (Scale * Scale).
Score ==
  [m \in Memories |-> Alpha * Near[m] + (Scale - Alpha) * (Scale \div (1 + TextRank[m]))]

\* The sets of n elements of S with the largest values of f, or all of S.
Top(S, n, f) ==
  {T \in kSubset(Min({n, Cardinality(S)}), S) : \A t \in T, s \in S \ T : f[t] >= f[s]}

\* hybrid_search: what recall may return if the scan of the first stage comes by
\* the memories P.  Without the index that is all of them; with it, those in the
\* lists it probes, of any owner, of which the query's filter keeps those shown.
Found(c, limit, P) ==
  UNION {Top(K, Min({limit, HitCap}), Score) :
           K \in Top(Shown(c) \cap P, Fetch(limit), Near)}

\* A call of c that writes nothing ends: recall, or one that finds nothing to do.
CallReturns(c) ==
  /\ HasSettings(c)
  /\ Forgotten(c)
  /\ UNCHANGED rowVars

-----------------------------------------------------------------------------
Idle(c) == asked[c] = 0

\* What moves a transaction along.
Transact(c) ==
  \/ /\ Idle(c)
     /\ \/ Begin(c)
        \/ Commit(c)
        \/ \E r \in Roles : SetRole(c, r)
     /\ UNCHANGED <<asked, loaded>>
  \/ Rollback(c) /\ Forgotten(c)

Next ==
  /\ \E c \in Clients :
       \/ Transact(c)
       \/ \E k \in Key, v \in Switches : Config(c, k, v)
       \/ Resolve(c)
       \/ LoadFails(c)
       \/ EmbeddingFails(c)
       \/ \E m \in Memories : Remember(c, m) \/ Forget(c, m)
       \/ CallReturns(c)
  /\ Viewed

Spec == Init /\ [][Next]_vars

-----------------------------------------------------------------------------
(* Properties. *)

\* Each key is of its provider, as far as both are set.
Coherent(w) ==
  /\ w["api_key"] = w["provider"]
  /\ Unset \notin {w["embedding_provider"], w["embedding_api_key"]} =>
       w["embedding_api_key"] = w["embedding_provider"]

\* A call has a key that its provider did not issue, or would embed with one,
\* only if the settings changed while it read them or were mixed themselves, the
\* operator between two calls of ask.config or the client's own GUCs at odds.
\* Whatever changes meanwhile, a call for which no embedding key is set embeds
\* with the key and the vendor of its chat, or not at all.
KeysMatch ==
  \A c \in Clients : HasSettings(c) =>
    /\ (\A v, w \in views[c] : v = w /\ Coherent(v)) => Coherent(loaded[c])
    /\ (\A w \in views[c] : w["embedding_api_key"] = Unset) /\ ~CannotEmbed(c) =>
         /\ loaded[c]["embedding_provider"] = loaded[c]["provider"]
         /\ loaded[c]["embedding_api_key"] = loaded[c]["api_key"]

\* Recall returns the client's own memories, as many as it is asked for if the
\* scan comes by so many of them.  It misses a better one that the scan comes by
\* only if so many others are as near to the query that the first stage may leave
\* it out; if there are no more than the first stage takes, the two stages return
\* what one ranking of all would.
RecallFindsBest ==
  \A c \in Clients, limit \in Limits, P \in SUBSET Memories : HasSettings(c) =>
    LET S == Shown(c) \cap P
        fetched == Max({limit * Overfetch, Floor})
    IN  /\ \A H \in Found(c, limit, P) :
             /\ H \subseteq S
             /\ Cardinality(H) = Min({limit, HitCap, Cardinality(S)})
             /\ \A m \in S \ H, h \in H : Score[m] > Score[h] =>
                  Cardinality({o \in S \ {m} : Near[o] >= Near[m]}) >= fetched
        /\ Cardinality(S) <= fetched =>
             Found(c, limit, P) = Top(S, Min({limit, HitCap}), Score)

\* infra/config.rs: RuntimeConfig needs, and gets, the raw value of a row,
\* whoever calls.
TableServesEveryone ==
  \A c \in Clients :
    (txn[c] = "open" /\ asked[c] < Len(Keys)) =>
      LET k == Keys[asked[c] + 1] IN
      (Guc[c][k] = Unset /\ Visible(c, k) # NoRow) => ~Refused(c, k)
==============================================================================
