----------------------------- MODULE MemoryProofs -----------------------------
(***************************************************************************)
(* Proofs about Memory, for any clients and roles, any memories and any    *)
(* similarities, text ranks and limits: which memories recall may leave    *)
(* out, and which key a call runs with.                                    *)
(***************************************************************************)
EXTENDS Memory, FiniteSetTheorems, TLAPS

-----------------------------------------------------------------------------
(* Minima and maxima. *)

LEMMA LeastIsMin ==
  ASSUME NEW S \in SUBSET Nat, NEW n \in S, \A y \in S : n <= y
  PROVE  Min(S) = n
<1>1. Min(S) \in S /\ \A y \in S : Min(S) <= y
  <2>1. \E x \in S : \A y \in S : x <= y
    OBVIOUS
  <2>2. QED
    BY <2>1, Zenon DEF Min
<1>2. Min(S) \in Nat /\ Min(S) <= n /\ n <= Min(S)
  BY <1>1
<1>3. QED
  BY <1>2

LEMMA GreatestIsMax ==
  ASSUME NEW S \in SUBSET Nat, NEW n \in S, \A y \in S : n >= y
  PROVE  Max(S) = n
<1>1. Max(S) \in S /\ \A y \in S : Max(S) >= y
  <2>1. \E x \in S : \A y \in S : x >= y
    OBVIOUS
  <2>2. QED
    BY <2>1, Zenon DEF Max
<1>2. Max(S) \in Nat /\ Max(S) >= n /\ n >= Max(S)
  BY <1>1
<1>3. QED
  BY <1>2

LEMMA MinOfTwo ==
  ASSUME NEW a \in Nat, NEW b \in Nat
  PROVE  Min({a, b}) = IF a <= b THEN a ELSE b
<1>1. CASE a <= b
  <2>1. Min({a, b}) = a
    BY <1>1, LeastIsMin
  <2>2. QED
    BY <1>1, <2>1
<1>2. CASE ~(a <= b)
  <2>1. Min({a, b}) = b
    BY <1>2, LeastIsMin
  <2>2. QED
    BY <1>2, <2>1
<1>3. QED
  BY <1>1, <1>2

LEMMA MinOfThree ==
  ASSUME NEW a \in Nat, NEW b \in Nat, NEW d \in Nat
  PROVE  Min({a, b, d}) = Min({Min({a, b}), d})
<1> DEFINE m == IF a <= b THEN a ELSE b
           n == IF m <= d THEN m ELSE d
<1>1. Min({a, b}) = m /\ m \in Nat
  BY MinOfTwo
<1> HIDE DEF m
<1>2. Min({m, d}) = n
  BY <1>1, MinOfTwo
<1>3. Min({a, b, d}) = n
  <2>1. n \in {a, b, d} /\ {a, b, d} \in SUBSET Nat
    BY DEF m
  <2>2. \A y \in {a, b, d} : n <= y
    BY DEF m
  <2> HIDE DEF n
  <2>3. QED
    BY <2>1, <2>2, LeastIsMin
<1>4. QED
  BY <1>1, <1>2, <1>3

LEMMA FetchNatural ==
  ASSUME MemoryAssumption, NEW limit \in Limits
  PROVE  Fetch(limit) \in Nat /\ Fetch(limit) >= limit
<1> DEFINE a == limit * Overfetch
<1>1. limit \in Nat /\ limit > 0 /\ Overfetch \in Nat /\ Overfetch > 0 /\ Floor \in Nat
  BY DEF MemoryAssumption
<1>2. a \in Nat /\ a >= limit
  BY <1>1
<1> HIDE DEF a
<1>3. Max({a, Floor}) \in {a, Floor} /\ Max({a, Floor}) >= a
  <2>1. CASE a >= Floor
    <3>1. Max({a, Floor}) = a
      BY <1>1, <1>2, <2>1, GreatestIsMax
    <3>2. QED
      BY <1>2, <3>1
  <2>2. CASE ~(a >= Floor)
    <3>1. Max({a, Floor}) = Floor
      BY <1>1, <1>2, <2>2, GreatestIsMax
    <3>2. QED
      BY <1>1, <1>2, <2>2, <3>1
  <2>3. QED
    BY <2>1, <2>2
<1>4. QED
  BY <1>1, <1>2, <1>3 DEF Fetch, a

-----------------------------------------------------------------------------
(* What recall finds. *)

LEMMA TopElements ==
  ASSUME NEW S, IsFiniteSet(S), NEW n \in Nat, NEW f, NEW T \in Top(S, n, f)
  PROVE  /\ T \subseteq S /\ IsFiniteSet(T)
         /\ Cardinality(T) = Min({n, Cardinality(S)})
         /\ \A t \in T, s \in S \ T : f[t] >= f[s]
BY FS_Subset DEF Top, kSubset

LEMMA ScoresAreIntegers ==
  ASSUME MemoryAssumption, NEW m \in Memories
  PROVE  Score[m] \in Int /\ Near[m] \in Int
<1>1. /\ Near[m] \in Int /\ Alpha \in Int /\ Scale \in Nat \ {0}
      /\ TextRank[m] \in Nat
  BY DEF MemoryAssumption
<1> DEFINE d == Scale \div (1 + TextRank[m])
<1>2. d \in Int
  BY <1>1
<1> HIDE DEF d
<1>3. Alpha * Near[m] \in Int /\ (Scale - Alpha) * d \in Int
  BY <1>1, <1>2
<1>4. Score[m] = Alpha * Near[m] + (Scale - Alpha) * d
  BY DEF Score, d
<1>5. QED
  BY <1>1, <1>3, <1>4

LEMMA TopOfAll ==
  ASSUME NEW S, IsFiniteSet(S), NEW n \in Nat, NEW f, Cardinality(S) <= n
  PROVE  Top(S, n, f) = {S}
<1>1. Cardinality(S) \in Nat
  BY FS_CardinalityType
<1>2. Min({n, Cardinality(S)}) = Cardinality(S)
  BY <1>1, MinOfTwo
<1>3. \A T \in SUBSET S : Cardinality(T) = Cardinality(S) => T = S
  BY FS_Subset
<1>4. kSubset(Cardinality(S), S) = {S}
  BY <1>3 DEF kSubset
<1>5. QED
  BY <1>2, <1>4 DEF Top

\* H is in S and as large as asked for, and misses a better one of S only if S
\* fills the first stage.
BestOf(S, limit, H) ==
  /\ H \subseteq S
  /\ Cardinality(H) = Min({limit, HitCap, Cardinality(S)})
  /\ \A m \in S \ H, h \in H : Score[m] > Score[h] =>
       Cardinality({o \in S \ {m} : Near[o] >= Near[m]}) >= Max({limit * Overfetch, Floor})

LEMMA RecallIsBest ==
  ASSUME MemoryAssumption, NEW c \in Clients, NEW limit \in Limits, NEW P \in SUBSET Memories,
         NEW H \in Found(c, limit, P)
  PROVE  BestOf(Shown(c) \cap P, limit, H)
<1> DEFINE S == Shown(c) \cap P
           wanted == Min({limit, HitCap})
           fetch == Fetch(limit)
<1>1. limit \in Nat /\ limit > 0 /\ HitCap \in Nat /\ HitCap > 0
  BY DEF MemoryAssumption
<1>2. S \subseteq Memories /\ IsFiniteSet(S) /\ Cardinality(S) \in Nat
  BY FS_Subset, FS_CardinalityType DEF Shown, MemoryAssumption
<1>3. fetch \in Nat /\ fetch >= limit
  BY FetchNatural
<1>4. wanted \in Nat /\ wanted <= limit
  BY <1>1, MinOfTwo
<1>5. PICK K \in Top(S, fetch, Near) : H \in Top(K, wanted, Score)
  BY DEF Found
<1> HIDE DEF S, wanted, fetch
<1>6. /\ K \subseteq S /\ IsFiniteSet(K)
      /\ Cardinality(K) = Min({fetch, Cardinality(S)})
      /\ \A t \in K, s \in S \ K : Near[t] >= Near[s]
  BY <1>2, <1>3, <1>5, TopElements
<1>7. /\ H \subseteq K
      /\ Cardinality(H) = Min({wanted, Cardinality(K)})
      /\ \A t \in H, s \in K \ H : Score[t] >= Score[s]
  BY <1>4, <1>5, <1>6, TopElements
<1>8. Cardinality(K) = IF fetch <= Cardinality(S) THEN fetch ELSE Cardinality(S)
  BY <1>2, <1>3, <1>6, MinOfTwo
<1>9. Cardinality(H) = Min({limit, HitCap, Cardinality(S)})
  <2>1. Min({limit, HitCap, Cardinality(S)})
          = IF wanted <= Cardinality(S) THEN wanted ELSE Cardinality(S)
    <3>1. \A d \in Nat : Min({limit, HitCap, d}) = Min({wanted, d})
      BY <1>1, MinOfThree DEF wanted
    <3>2. QED
      BY <1>2, <1>4, <3>1, MinOfTwo
  <2>2. Cardinality(H) = IF wanted <= Cardinality(K) THEN wanted ELSE Cardinality(K)
    BY <1>2, <1>3, <1>4, <1>7, <1>8, MinOfTwo
  <2>3. QED
    BY <1>2, <1>3, <1>4, <1>8, <2>1, <2>2
<1>10. ASSUME NEW m \in S \ H, NEW h \in H, Score[m] > Score[h]
       PROVE  Cardinality({o \in S \ {m} : Near[o] >= Near[m]}) >= fetch
  <2>1. m \notin K
    BY <1>2, <1>6, <1>7, <1>10, ScoresAreIntegers
  <2> DEFINE N == {o \in S \ {m} : Near[o] >= Near[m]}
  <2>2. K \subseteq N /\ IsFiniteSet(N) /\ Cardinality(N) \in Nat
    BY <1>2, <1>6, <2>1, FS_Subset, FS_CardinalityType
  <2>3. Cardinality(K) <= Cardinality(N)
    BY <2>2, FS_Subset
  <2>4. Cardinality(K) < Cardinality(S)
    <3>1. K # S
      BY <1>10, <2>1
    <3>2. Cardinality(K) <= Cardinality(S) /\ (Cardinality(K) = Cardinality(S) => K = S)
      BY <1>2, <1>6, FS_Subset
    <3>3. QED
      BY <1>2, <1>3, <1>8, <3>1, <3>2
  <2>5. Cardinality(K) = fetch
    BY <1>2, <1>3, <1>8, <2>4
  <2>6. QED
    BY <2>3, <2>5
<1>11. H \subseteq S
  BY <1>6, <1>7
<1>12. QED
  BY <1>9, <1>10, <1>11 DEF S, fetch, Fetch, BestOf

\* With no more memories than the first stage takes there is one ranking.
LEMMA OneStage ==
  ASSUME MemoryAssumption, NEW c \in Clients, NEW limit \in Limits, NEW P \in SUBSET Memories,
         Cardinality(Shown(c) \cap P) <= Max({limit * Overfetch, Floor})
  PROVE  Found(c, limit, P) = Top(Shown(c) \cap P, Min({limit, HitCap}), Score)
<1> DEFINE S == Shown(c) \cap P
<1>1. IsFiniteSet(S)
  BY FS_Subset DEF Shown, MemoryAssumption
<1>2. Fetch(limit) \in Nat /\ Cardinality(S) <= Fetch(limit)
  BY FetchNatural DEF Fetch
<1>3. Top(S, Fetch(limit), Near) = {S}
  BY <1>1, <1>2, TopOfAll
<1> HIDE DEF S
<1>4. UNION {Top(K, Min({limit, HitCap}), Score) : K \in {S}} = Top(S, Min({limit, HitCap}), Score)
  OBVIOUS
<1>5. QED
  BY <1>3, <1>4 DEF Found, S

\* RecallFindsBest: however many memories there are, whatever their similarities
\* and scores and whichever of them the scan of the first stage comes by, the two
\* stages return the client's own, as many as asked for, and the best of them
\* unless the first stage was full; below its size they are one ranking.
THEOREM RecallFinds == Spec => []RecallFindsBest
<1>1. RecallFindsBest
  <2>1. ASSUME NEW c \in Clients, NEW limit \in Limits, NEW P \in SUBSET Memories,
               NEW H \in Found(c, limit, P)
        PROVE  BestOf(Shown(c) \cap P, limit, H)
    BY MemoryAssumption, RecallIsBest
  <2>2. ASSUME NEW c \in Clients, NEW limit \in Limits, NEW P \in SUBSET Memories
        PROVE  Cardinality(Shown(c) \cap P) <= Max({limit * Overfetch, Floor}) =>
                 Found(c, limit, P) = Top(Shown(c) \cap P, Min({limit, HitCap}), Score)
    BY MemoryAssumption, OneStage
  <2>3. QED
    BY <2>1, <2>2, Zenon DEF RecallFindsBest, BestOf
<1>2. QED
  BY <1>1, PTL

-----------------------------------------------------------------------------
(* Which key a call runs with. *)

LEMMA KeyNames ==
  /\ Len(Keys) = 4
  /\ Keys[1] = "provider" /\ Keys[2] = "api_key"
  /\ Keys[3] = "embedding_provider" /\ Keys[4] = "embedding_api_key"
  /\ Key = {"provider", "api_key", "embedding_provider", "embedding_api_key"}
  /\ \A i \in 1 .. 4 : Keys[i] \in Key
<1>1. /\ Len(Keys) = 4
      /\ Keys[1] = "provider" /\ Keys[2] = "api_key"
      /\ Keys[3] = "embedding_provider" /\ Keys[4] = "embedding_api_key"
  BY DEF Keys
<1>2. \A i \in 1 .. 4 : i = 1 \/ i = 2 \/ i = 3 \/ i = 4
  OBVIOUS
<1> HIDE DEF Keys
<1>3. Key = {"provider", "api_key", "embedding_provider", "embedding_api_key"}
  BY <1>1, <1>2 DEF Key
<1>4. QED
  BY <1>1, <1>2, <1>3

\* A row of ask._config holds a vendor.
Vended(t) == \A k \in Key : t[k] # NoRow => t[k].value \in Vendors

\* What is stored and what is loaded.
LoadTypes ==
  /\ Vended(committed) /\ Vended(draft)
  /\ asked \in [Clients -> 0 .. 4]
  /\ loaded \in [Clients -> [Key -> Vendors \cup {Unset}]]

\* The settings had value v for k at a moment of the load of c.
Seen(c, k, v) == \E w \in views[c] : v = w[k]

\* Each value a call has loaded is one the settings had while it loaded them.
LoadInv ==
  \A c \in Clients : asked[c] > 0 =>
    IF HasSettings(c)
    THEN \E s \in [Key -> Vendors \cup {Unset}] :
           loaded[c] = WithFallback(s) /\ \A k \in Key : Seen(c, k, s[k])
    ELSE \A i \in 1 .. asked[c] : Seen(c, Keys[i], loaded[c][Keys[i]])

\* The transaction of c ends: its drafts are committed or dropped.
LEMMA VendedEnds ==
  ASSUME Vended(draft), NEW c \in Clients, NEW t, Ends(c, t), Vended(t)
  PROVE  (Vended(committed) /\ Vended(draft))'
<1>1. committed' = t /\ \A k \in Key : draft'[k] \in {NoRow, draft[k]}
  BY SettingsAssumption DEF Ends
<1>2. QED
  BY <1>1 DEF Vended

LEMMA VendedStep ==
  ASSUME Vended(committed), Vended(draft), [Next]_vars
  PROVE  (Vended(committed) /\ Vended(draft))'
<1>1. CASE UNCHANGED <<committed, draft>>
  BY <1>1 DEF Vended
<1>2. ASSUME NEW c \in Clients, Undone(c) PROVE (Vended(committed) /\ Vended(draft))'
  BY <1>2, VendedEnds DEF Undone
<1>3. ASSUME NEW c \in Clients, Transact(c) PROVE (Vended(committed) /\ Vended(draft))'
  <2>1. CASE Commit(c)
    <3> DEFINE t == [i \in Items |-> Visible(c, i)]
    <3>1. Ends(c, t)
      BY <2>1 DEF Commit
    <3>2. Vended(t)
      BY SettingsAssumption DEF Vended, Visible
    <3> HIDE DEF t
    <3>3. QED
      BY <3>1, <3>2, VendedEnds
  <2>2. CASE ~Commit(c)
    <3>1. Undone(c) \/ UNCHANGED <<committed, draft>>
      BY <1>3, <2>2 DEF Transact, Begin, SetRole, Rollback, tableVars
    <3>2. QED
      BY <1>1, <1>2, <3>1
  <2>3. QED
    BY <2>1, <2>2
<1>4. ASSUME NEW c \in Clients, NEW k \in Key, NEW v \in Switches, Config(c, k, v)
      PROVE  (Vended(committed) /\ Vended(draft))'
  <2> DEFINE r == [owner |-> SessionUser[c], value |-> v]
  <2>1. v \in Vendors /\ r.value = v /\ k \in Items
    BY SettingsAssumption
  <2> HIDE DEF r
  <2>2. Write(c, {k}, [i \in {k} |-> r])
    BY <1>4 DEF Config, r
  <2>3. committed' = committed /\ \A j \in Key : draft'[j] \in {draft[j], r}
    BY <2>2, SettingsAssumption DEF Write
  <2>4. QED
    BY <2>1, <2>3 DEF Vended
<1>5. ASSUME NEW c \in Clients, NEW m \in Memories, Remember(c, m) \/ Forget(c, m)
      PROVE  (Vended(committed) /\ Vended(draft))'
  <2>1. PICK r : Write(c, {m}, [i \in {m} |-> r])
    BY <1>5 DEF Remember, Forget, Puts
  <2>2. m \notin Key /\ Key \subseteq Items
    BY SettingsAssumption, MemoryAssumption
  <2>3. committed' = committed /\ \A k \in Key : draft'[k] = draft[k]
    BY <2>1, <2>2 DEF Write
  <2>4. QED
    BY <2>3 DEF Vended
<1>6. ASSUME NEW c \in Clients, LoadFails(c) \/ EmbeddingFails(c) PROVE Undone(c)
  BY <1>6 DEF LoadFails, EmbeddingFails, Abandons
<1>7. ASSUME NEW c \in Clients, Resolve(c) \/ CallReturns(c) PROVE UNCHANGED <<committed, draft>>
  BY <1>7 DEF Resolve, CallReturns, rowVars, tableVars
<1>8. CASE UNCHANGED vars
  BY <1>1, <1>8 DEF vars, rowVars, tableVars
<1>9. QED
  BY <1>1, <1>2, <1>3, <1>4, <1>5, <1>6, <1>7, <1>8 DEF Next

LEMMA ResolvedTypes ==
  ASSUME Vended(committed), Vended(draft), NEW c \in Clients, NEW k \in Key
  PROVE  Resolved(c, k) \in Vendors \cup {Unset}
<1>1. Guc[c][k] \in Vendors \cup {Unset}
  BY SettingsAssumption
<1>2. Visible(c, k) # NoRow => Visible(c, k).value \in Vendors
  BY DEF Visible, Vended
<1>3. QED
  BY <1>1, <1>2 DEF Resolved

\* A step loads one key, forgets what was loaded, or leaves it alone.
LEMMA LoadMoves ==
  ASSUME [Next]_vars
  PROVE  \/ UNCHANGED <<asked, loaded>>
         \/ \E c \in Clients : Forgotten(c) \/ Resolve(c)
<1>1. CASE UNCHANGED vars
  BY <1>1 DEF vars
<1>2. CASE Next
  <2>1. ASSUME NEW c \in Clients, Transact(c)
        PROVE  UNCHANGED <<asked, loaded>> \/ Forgotten(c)
    BY <2>1 DEF Transact
  <2>2. ASSUME NEW c \in Clients, NEW k \in Key, NEW v \in Switches, Config(c, k, v)
        PROVE  UNCHANGED <<asked, loaded>>
    BY <2>2 DEF Config
  <2>3. ASSUME NEW c \in Clients, LoadFails(c) \/ EmbeddingFails(c) \/ CallReturns(c)
        PROVE  Forgotten(c)
    BY <2>3 DEF LoadFails, EmbeddingFails, CallReturns, Abandons
  <2>4. ASSUME NEW c \in Clients, NEW m \in Memories, Remember(c, m) \/ Forget(c, m)
        PROVE  Forgotten(c)
    BY <2>4 DEF Remember, Forget, Puts
  <2>5. QED
    BY <1>2, <2>1, <2>2, <2>3, <2>4 DEF Next
<1>3. QED
  BY <1>1, <1>2

LEMMA FallbackTypes ==
  ASSUME NEW s \in [Key -> Vendors \cup {Unset}]
  PROVE  WithFallback(s) \in [Key -> Vendors \cup {Unset}]
BY KeyNames DEF WithFallback

\* The next key to load is one of the four.
LEMMA NextKey ==
  ASSUME LoadTypes, NEW c \in Clients, asked[c] < Len(Keys)
  PROVE  /\ asked[c] + 1 \in 1 .. 4
         /\ Keys[asked[c] + 1] \in Key
<1>1. asked[c] \in 0 .. 4 /\ asked[c] < 4
  BY KeyNames DEF LoadTypes
<1>2. asked[c] + 1 \in 1 .. 4
  BY <1>1
<1>3. QED
  BY <1>2, KeyNames

LEMMA LoadTypesStep ==
  ASSUME LoadTypes, [Next]_vars
  PROVE  LoadTypes'
<1> USE DEF LoadTypes
<1>1. (Vended(committed) /\ Vended(draft))'
  BY VendedStep
<1>2. CASE UNCHANGED <<asked, loaded>>
  BY <1>1, <1>2
<1>3. ASSUME NEW c \in Clients, Forgotten(c) PROVE LoadTypes'
  BY <1>1, <1>3 DEF Forgotten, NoSettings
<1>4. ASSUME NEW c \in Clients, Resolve(c) PROVE LoadTypes'
  <2> DEFINE k == Keys[asked[c] + 1]
             s == [loaded[c] EXCEPT ![k] = Resolved(c, k)]
             t == IF asked[c] + 1 = Len(Keys) THEN WithFallback(s) ELSE s
  <2>1. /\ asked[c] < Len(Keys)
        /\ asked' = [asked EXCEPT ![c] = @ + 1]
        /\ loaded' = [loaded EXCEPT ![c] = t]
    BY <1>4 DEF Resolve
  <2>2. asked[c] + 1 \in 1 .. 4 /\ k \in Key
    BY <2>1, NextKey
  <2>3. s \in [Key -> Vendors \cup {Unset}]
    <3>1. loaded[c] \in [Key -> Vendors \cup {Unset}]
      OBVIOUS
    <3>2. Resolved(c, k) \in Vendors \cup {Unset}
      BY <2>2, ResolvedTypes
    <3> HIDE DEF k
    <3>3. QED
      BY <3>1, <3>2
  <2>4. t \in [Key -> Vendors \cup {Unset}]
    BY <2>3, FallbackTypes
  <2> HIDE DEF t
  <2>5. QED
    BY <1>1, <2>1, <2>2, <2>4
<1>5. QED
  BY <1>2, <1>3, <1>4, LoadMoves

\* While a load runs its views are kept, and a step of it sees one.
LEMMA ViewsGrow ==
  ASSUME LoadTypes, [Next]_vars, NEW d \in Clients, asked'[d] > 0
  PROVE  /\ views[d] \subseteq views'[d]
         /\ Resolve(d) => View(d) \in views'[d]
<1>1. CASE UNCHANGED vars
  BY <1>1 DEF vars, Resolve, LoadTypes
<1>2. CASE Viewed
  <2>1. views'[d] = IF HasSettings(d) THEN views[d] ELSE views[d] \cup {View(d)'}
    BY <1>2 DEF Viewed
  <2>2. Resolve(d) => ~HasSettings(d) /\ View(d)' = View(d)
    BY KeyNames DEF Resolve, HasSettings, rowVars, tableVars, View, Resolved, Visible
  <2>3. QED
    BY <2>1, <2>2
<1>3. QED
  BY <1>1, <1>2 DEF Next

\* What is loaded stays what the settings were at a moment of the load.
LEMMA LoadStep ==
  ASSUME LoadTypes, LoadInv, [Next]_vars
  PROVE  LoadInv'
<1>1. SUFFICES ASSUME NEW d \in Clients, asked'[d] > 0
      PROVE  IF HasSettings(d)'
             THEN \E s \in [Key -> Vendors \cup {Unset}] :
                    loaded'[d] = WithFallback(s) /\ \A k \in Key : Seen(d, k, s[k])'
             ELSE \A i \in 1 .. asked'[d] : Seen(d, Keys[i], loaded[d][Keys[i]])'
  BY <1>1 DEF LoadInv, WithFallback
<1>2. \A k, v : Seen(d, k, v) => \E w \in views'[d] : v = w[k]
  BY <1>1, ViewsGrow DEF Seen
<1>3. CASE asked'[d] = asked[d] /\ loaded'[d] = loaded[d]
  <2>1. CASE HasSettings(d)
    <3>1. PICK s \in [Key -> Vendors \cup {Unset}] :
            loaded[d] = WithFallback(s) /\ \A k \in Key : Seen(d, k, s[k])
      BY <1>1, <1>3, <2>1 DEF LoadInv
    <3>2. \A k \in Key : \E w \in views'[d] : s[k] = w[k]
      BY <1>2, <3>1
    <3>3. HasSettings(d)'
      BY <1>3, <2>1 DEF HasSettings
    <3>4. QED
      BY <1>3, <3>1, <3>2, <3>3 DEF Seen
  <2>2. CASE ~HasSettings(d)
    <3>1. \A i \in 1 .. asked[d] : Seen(d, Keys[i], loaded[d][Keys[i]])
      BY <1>1, <1>3, <2>2 DEF LoadInv
    <3>2. \A i \in 1 .. asked[d] : \E w \in views'[d] : loaded[d][Keys[i]] = w[Keys[i]]
      BY <1>2, <3>1
    <3>3. ~HasSettings(d)'
      BY <1>3, <2>2 DEF HasSettings
    <3>4. QED
      BY <1>3, <3>2, <3>3 DEF Seen
  <2>3. QED
    BY <2>1, <2>2
<1>4. CASE UNCHANGED <<asked, loaded>>
  BY <1>3, <1>4
<1>5. ASSUME NEW c \in Clients, Forgotten(c)
      PROVE  asked'[d] = asked[d] /\ loaded'[d] = loaded[d]
  BY <1>1, <1>5 DEF Forgotten, LoadTypes
<1>6. CASE Resolve(d)
  <2> DEFINE key == Keys[asked[d] + 1]
             s == [loaded[d] EXCEPT ![key] = Resolved(d, key)]
             t == IF asked[d] + 1 = Len(Keys) THEN WithFallback(s) ELSE s
  <2>1. /\ asked[d] < Len(Keys)
        /\ asked'[d] = asked[d] + 1
        /\ loaded'[d] = t
    BY <1>6 DEF Resolve, LoadTypes
  <2>2. asked[d] + 1 \in 1 .. 4 /\ key \in Key /\ asked[d] \in 0 .. 3 /\ Len(Keys) = 4
    BY <2>1, NextKey, KeyNames DEF LoadTypes
  <2>3. View(d) \in views'[d] /\ View(d)[key] = Resolved(d, key)
    BY <1>1, <1>6, <2>2, ViewsGrow DEF View
  <2>4. \A i \in 1 .. asked[d] : Seen(d, Keys[i], loaded[d][Keys[i]])
    <3>1. CASE asked[d] = 0
      BY <3>1
    <3>2. CASE asked[d] > 0
      BY <2>2, <3>2 DEF LoadInv, HasSettings
    <3>3. QED
      BY <2>2, <3>1, <3>2
  <2>5. s \in [Key -> Vendors \cup {Unset}] /\ loaded[d] \in [Key -> Vendors \cup {Unset}]
    <3>1. loaded[d] \in [Key -> Vendors \cup {Unset}] /\ Resolved(d, key) \in Vendors \cup {Unset}
      BY <2>2, ResolvedTypes DEF LoadTypes
    <3> HIDE DEF key
    <3>2. QED
      BY <3>1
  <2>6. \A i \in 1 .. asked[d] + 1 : \E w \in views'[d] : s[Keys[i]] = w[Keys[i]]
    <3>1. SUFFICES ASSUME NEW i \in 1 .. asked[d] + 1
          PROVE  \E w \in views'[d] : s[Keys[i]] = w[Keys[i]]
      OBVIOUS
    <3>2. Keys[i] \in Key
      BY <2>2, KeyNames
    <3>3. CASE Keys[i] = key
      BY <2>2, <2>3, <2>5, <3>2, <3>3
    <3>4. CASE Keys[i] # key
      <4>1. i \in 1 .. asked[d]
        BY <2>2, <3>4
      <4>2. s[Keys[i]] = loaded[d][Keys[i]]
        BY <2>5, <3>2, <3>4
      <4>3. QED
        BY <1>2, <2>4, <4>1, <4>2
    <3>5. QED
      BY <3>3, <3>4
  <2> HIDE DEF s
  <2>7. CASE asked[d] = 3
    <3>1. \A k \in Key : \E i \in 1 .. 4 : k = Keys[i]
      BY KeyNames
    <3>2. \A k \in Key : \E w \in views'[d] : s[k] = w[k]
      BY <2>6, <2>7, <3>1
    <3>3. HasSettings(d)'
      BY <2>1, <2>2, <2>7 DEF HasSettings
    <3>4. loaded'[d] = WithFallback(s)
      BY <2>1, <2>2, <2>7
    <3>5. QED
      BY <2>5, <3>2, <3>3, <3>4 DEF Seen
  <2>8. CASE asked[d] # 3
    <3>1. ~HasSettings(d)' /\ loaded'[d] = s
      BY <2>1, <2>2, <2>8 DEF HasSettings
    <3>2. QED
      BY <2>1, <2>6, <3>1 DEF Seen
  <2>9. QED
    BY <2>7, <2>8
<1>7. ASSUME NEW c \in Clients, Resolve(c), c # d
      PROVE  asked'[d] = asked[d] /\ loaded'[d] = loaded[d]
  BY <1>7 DEF Resolve, LoadTypes
<1>8. QED
  BY <1>3, <1>4, <1>5, <1>6, <1>7, LoadMoves

\* Each key a call has was the settings' at a moment of its load, which is all
\* a load promises.
LEMMA LoadsAreSeen == Spec => [](LoadTypes /\ LoadInv)
<1>1. Init => LoadTypes /\ LoadInv
  <2>1. ASSUME Init PROVE LoadTypes
    <3>1. Vended(committed) /\ Vended(draft)
      BY <2>1, SettingsAssumption DEF Init, RowsInit, Vended
    <3>2. QED
      BY <2>1, <3>1 DEF Init, SettingsInit, LoadTypes, NoSettings
  <2>2. ASSUME Init PROVE LoadInv
    <3>1. \A c \in Clients : ~(asked[c] > 0)
      BY <2>2 DEF Init, SettingsInit
    <3>2. QED
      BY <3>1 DEF LoadInv
  <2>3. QED
    BY <2>1, <2>2
<1>2. LoadTypes /\ LoadInv /\ [Next]_vars => (LoadTypes /\ LoadInv)'
  BY LoadTypesStep, LoadStep
<1>3. QED
  BY <1>1, <1>2, PTL DEF Spec

\* KeysMatch: whatever rows the operator changes one by one, whoever commits
\* between two reads of a load and whatever the clients have as GUCs, a call has
\* a key of another vendor than its provider only if the settings changed while
\* it read them or were mixed themselves; and one for which no embedding key is
\* set embeds with its chat's vendor and key or not at all, even if what it read
\* was never the settings at any moment.
THEOREM KeysAreMatched == Spec => []KeysMatch
<1>1. LoadTypes /\ LoadInv => KeysMatch
  <2>1. SUFFICES ASSUME LoadTypes, LoadInv, NEW c \in Clients, HasSettings(c)
        PROVE  /\ (\A v, w \in views[c] : v = w /\ Coherent(v)) => Coherent(loaded[c])
               /\ (\A w \in views[c] : w["embedding_api_key"] = Unset) /\ ~CannotEmbed(c) =>
                    /\ loaded[c]["embedding_provider"] = loaded[c]["provider"]
                    /\ loaded[c]["embedding_api_key"] = loaded[c]["api_key"]
    BY DEF KeysMatch
  <2>2. PICK s \in [Key -> Vendors \cup {Unset}] :
          loaded[c] = WithFallback(s) /\ \A k \in Key : Seen(c, k, s[k])
    BY <2>1, KeyNames DEF LoadInv, HasSettings
  <2> DEFINE falls == /\ s["embedding_api_key"] = Unset
                      /\ s["embedding_provider"] # Unset
                      /\ s["embedding_provider"] = s["provider"]
  <2>3. CASE falls
    <3>1. /\ loaded[c]["embedding_api_key"] = s["api_key"]
          /\ loaded[c]["embedding_provider"] = s["provider"]
          /\ loaded[c]["api_key"] = s["api_key"]
          /\ loaded[c]["provider"] = s["provider"]
      BY <2>2, <2>3, KeyNames DEF WithFallback
    <3>2. ASSUME \A v, w \in views[c] : v = w /\ Coherent(v)
          PROVE  s["api_key"] = s["provider"]
      BY <2>2, <3>2, KeyNames DEF Seen, Coherent
    <3>3. QED
      BY <3>1, <3>2 DEF Coherent
  <2>4. CASE ~falls
    <3>1. loaded[c] = s
      BY <2>2, <2>4 DEF WithFallback
    <3>2. ASSUME \A v, w \in views[c] : v = w /\ Coherent(v)
          PROVE  Coherent(s)
      <4>1. PICK w \in views[c] : s["provider"] = w["provider"]
        BY <2>2, KeyNames DEF Seen
      <4>2. \A k \in Key : s[k] = w[k]
        BY <2>2, <3>2, <4>1 DEF Seen
      <4>3. QED
        BY <3>2, <4>1, <4>2, KeyNames DEF Coherent
    <3>3. ASSUME \A w \in views[c] : w["embedding_api_key"] = Unset
          PROVE  s["embedding_api_key"] = Unset
      BY <2>2, <3>3, KeyNames DEF Seen
    <3>4. QED
      BY <3>1, <3>2, <3>3 DEF CannotEmbed
  <2>5. QED
    BY <2>3, <2>4
<1>2. QED
  BY <1>1, LoadsAreSeen, PTL

===============================================================================
