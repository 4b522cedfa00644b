-------------------------- MODULE RouteCacheProofs --------------------------
(***************************************************************************)
(* Theorems about RouteCache, for any number of keys, decisions, readers   *)
(* and writers, any time to live, with faults and without.                 *)
(*                                                                         *)
(* NoUnexplainedStaleness is not inductive alone: that a fill by a query   *)
(* no commit overtook stores the truth is what CleanReturnIsTrue says of   *)
(* the query before it is stored.                                          *)
(***************************************************************************)
EXTENDS RouteCache, TLAPS

IInv == TypeOK /\ CleanReturnIsTrue /\ NoUnexplainedStaleness

-----------------------------------------------------------------------------
(* The register behind the cache.                                          *)

\* Each step of the register keeps its types.
LEMMA SourceTypes ==
  ASSUME SourceTypeOK
  PROVE  /\ Commit => SourceTypeOK'
         /\ \A r \in Readers : Return(r) => SourceTypeOK'
         /\ \A r \in Readers : Leave(r) => SourceTypeOK'
         /\ \A r \in Readers, k \in Keys : Ask(r, k) => SourceTypeOK'
<1>1. ASSUME Commit PROVE SourceTypeOK'
  <2>1. ASSUME NEW r \in Readers PROVE query'[r] \in Queries \cup {Null}
    <3>1. CASE query[r] = Null
      BY <1>1, <3>1 DEF Commit
    <3>2. CASE query[r] \in Queries
      <4>1. [query[r] EXCEPT !.clean = FALSE] \in Queries
        BY <3>2 DEF Queries
      <4>. QED  BY <1>1, <4>1 DEF Commit
    <3>. QED  BY <3>1, <3>2 DEF SourceTypeOK
  <2>. QED  BY <1>1, <2>1 DEF SourceTypeOK, Commit
<1>2. ASSUME NEW r \in Readers, Return(r) PROVE SourceTypeOK'
  <2>1. PICK v \in IF query[r].clean THEN {truth[query[r].key]} ELSE Decisions :
          query' = [query EXCEPT ![r].at = "returned", ![r].value = v]
    BY <1>2 DEF Return
  <2>2. query[r] \in Queries
    BY <1>2 DEF Return, SourceTypeOK
  <2>3. v \in Decisions
    BY <2>1, <2>2 DEF SourceTypeOK, Queries
  <2>4. [query[r] EXCEPT !.at = "returned", !.value = v] \in Queries
    BY <2>2, <2>3 DEF Queries
  <2>. QED  BY <1>2, <2>1, <2>4 DEF SourceTypeOK, Return
<1>3. \A r \in Readers : Leave(r) => SourceTypeOK'
  BY DEF SourceTypeOK, Leave
<1>4. \A r \in Readers, k \in Keys : Ask(r, k) => SourceTypeOK'
  BY DEF SourceTypeOK, Ask, Queries
<1>. QED  BY <1>1, <1>2, <1>3, <1>4

\* Each step of the register keeps what a clean query returned true.
LEMMA SourceTruth ==
  ASSUME SourceTypeOK, CleanReturnIsTrue
  PROVE  /\ Commit => CleanReturnIsTrue'
         /\ \A r \in Readers : Return(r) => CleanReturnIsTrue'
         /\ \A r \in Readers : Leave(r) => CleanReturnIsTrue'
         /\ \A r \in Readers, k \in Keys : Ask(r, k) => CleanReturnIsTrue'
<1>1. Commit => CleanReturnIsTrue'
  BY DEF SourceTypeOK, Commit, Queries, CleanReturnIsTrue
<1>2. ASSUME NEW r \in Readers, Return(r) PROVE CleanReturnIsTrue'
  <2>1. PICK v \in IF query[r].clean THEN {truth[query[r].key]} ELSE Decisions :
          query' = [query EXCEPT ![r].at = "returned", ![r].value = v]
    BY <1>2 DEF Return
  <2>2. query[r] \in Queries
    BY <1>2 DEF Return, SourceTypeOK
  <2>3. /\ query'[r].clean = query[r].clean
        /\ query'[r].key = query[r].key
        /\ query'[r].value = v
        /\ \A s \in Readers \ {r} : query'[s] = query[s]
    BY <2>1, <2>2 DEF SourceTypeOK, Queries
  <2>4. query[r].clean => v = truth[query[r].key]
    BY <2>1
  <2>5. truth' = truth
    BY <1>2 DEF Return
  <2>6. ASSUME NEW s \in Readers, query'[s] # Null, query'[s].at = "returned",
               query'[s].clean
        PROVE  query'[s].value = truth[query'[s].key]
    <3>1. CASE s = r
      BY <2>3, <2>4, <2>6, <3>1
    <3>2. CASE s # r
      BY <2>3, <2>6, <3>2 DEF CleanReturnIsTrue
    <3>. QED  BY <3>1, <3>2
  <2>. QED  BY <2>5, <2>6 DEF CleanReturnIsTrue
<1>3. \A r \in Readers : Leave(r) => CleanReturnIsTrue'
  BY DEF SourceTypeOK, Leave, CleanReturnIsTrue
<1>4. \A r \in Readers, k \in Keys : Ask(r, k) => CleanReturnIsTrue'
  BY DEF SourceTypeOK, Ask, CleanReturnIsTrue
<1>. QED  BY <1>1, <1>2, <1>3, <1>4

-----------------------------------------------------------------------------
(* One lemma per invariant, one step per action.                           *)

LEMMA InitIInv == Init => IInv
<1>. SUFFICES ASSUME Init PROVE IInv
  OBVIOUS
<1>1. TypeOK
  BY DEF Init, SourceInit, TypeOK, SourceTypeOK, Answers
<1>2. CleanReturnIsTrue
  BY DEF Init, SourceInit, CleanReturnIsTrue
<1>3. NoUnexplainedStaleness
  BY DEF Init, NoUnexplainedStaleness, Stale, Present
<1>. QED  BY <1>1, <1>2, <1>3 DEF IInv

\* Marking entries as missed, and storing one, keep the type of the cache.
LEMMA MissedType ==
  ASSUME TypeOK, NEW keys, Missed(keys)
  PROVE  cache' \in [Keys -> Entries \cup {Absent}]
BY DEF TypeOK, Missed, Present, Entries

LEMMA StoreType ==
  ASSUME TypeOK, NEW r \in Readers, Store(r)
  PROVE  /\ cache' \in [Keys -> Entries \cup {Absent}]
         /\ query[r] \in Queries
         /\ query[r].value \in Decisions
<1>1. query[r] \in Queries
  BY DEF TypeOK, SourceTypeOK, Store
<1>2. query[r].value \in Decisions /\ query[r].clean \in BOOLEAN
  BY <1>1 DEF Store, Queries
<1>3. TTL \in 1 .. TTL
  BY CacheAssumption
<1>4. [value |-> query[r].value, ttl |-> TTL,
       late |-> ~query[r].clean, missed |-> FALSE] \in Entries
  BY <1>2, <1>3 DEF Entries
<1>. QED  BY <1>1, <1>2, <1>4 DEF Store, TypeOK

LEMMA NextTypeOK == TypeOK /\ [Next]_vars => TypeOK'
<1>. SUFFICES ASSUME TypeOK, [Next]_vars PROVE TypeOK'
  OBVIOUS
<1>. USE DEF TypeOK, sourceVars
<1>1. ASSUME NEW r \in Readers, NEW k \in Keys, Hit(r, k) PROVE TypeOK'
  <2>1. cache[k].value \in Decisions
    BY <1>1 DEF Hit, Present, Entries
  <2>. QED  BY <1>1, <2>1 DEF Hit, Reply, Answers, SourceTypeOK
<1>2. ASSUME NEW r \in Readers, NEW k \in Keys, Miss(r, k) PROVE TypeOK'
  BY <1>2, SourceTypes DEF Miss
<1>3. ASSUME NEW r \in Readers, Resolved(r) PROVE TypeOK'
  BY <1>3, SourceTypes DEF Resolved
<1>4. ASSUME NEW r \in Readers, ReadFails(r) PROVE TypeOK'
  <2>1. CASE \E k \in Keys : Reply(k, Unavailable) /\ UNCHANGED query
    BY <1>4, <2>1 DEF ReadFails, Reply, Answers, SourceTypeOK
  <2>2. CASE Leave(r) /\ Reply(query[r].key, Unavailable)
    <3>1. query[r].key \in Keys
      BY <2>2 DEF Leave, SourceTypeOK, Queries
    <3>2. SourceTypeOK'
      BY <2>2, SourceTypes
    <3>. QED  BY <1>4, <2>2, <3>1, <3>2 DEF ReadFails, Reply, Answers
  <2>. QED  BY <1>4, <2>1, <2>2 DEF ReadFails
<1>5. ASSUME NEW r \in Readers, Fill(r) PROVE TypeOK'
  <2>1. SourceTypeOK'
    BY <1>5, SourceTypes DEF Fill
  <2>2. query[r] \in Queries /\ query[r].value \in Decisions
    BY <1>5, StoreType DEF Fill
  <2>3. cache' \in [Keys -> Entries \cup {Absent}]
    BY <1>5, StoreType DEF Fill
  <2>. QED  BY <1>5, <2>1, <2>2, <2>3 DEF Fill, Reply, Answers, Queries
<1>6. ASSUME NEW r \in Readers, FillUnacknowledged(r) PROVE TypeOK'
  <2>1. query[r] \in Queries /\ cache' \in [Keys -> Entries \cup {Absent}]
    BY <1>6, StoreType DEF FillUnacknowledged
  <2>2. SourceTypeOK'
    BY <1>6, SourceTypes DEF FillUnacknowledged, SourceTypeOK
  <2>3. query[r].key \in Keys
    BY <2>1 DEF Queries
  <2>4. CASE retried' = [retried EXCEPT ![r] = TRUE] /\ UNCHANGED answer
    BY <1>6, <2>1, <2>2, <2>4 DEF FillUnacknowledged
  <2>5. CASE Reply(query[r].key, Unavailable) /\ UNCHANGED retried
    BY <1>6, <2>1, <2>2, <2>3, <2>5 DEF FillUnacknowledged, Reply, Answers
  <2>. QED  BY <1>6, <2>4, <2>5 DEF FillUnacknowledged
<1>7. ASSUME NEW w \in Writers, NEW m \in WriteMethods, Mutate(w, m) PROVE TypeOK'
  <2>1. SourceTypeOK'
    BY <1>7, SourceTypes DEF Mutate
  <2>2. cache' \in [Keys -> Entries \cup {Absent}]
    BY <1>7, MissedType DEF Mutate
  <2>. QED  BY <1>7, <2>1, <2>2 DEF Mutate, SetWriter
<1>8. ASSUME NEW w \in Writers, Scan(w) PROVE TypeOK'
  BY <1>8 DEF Scan, SetWriter, Present, SourceTypeOK
<1>9. ASSUME NEW w \in Writers, Delete(w) PROVE TypeOK'
  BY <1>9 DEF Delete, SetWriter, SourceTypeOK
<1>10. ASSUME NEW w \in Writers, InvalidationFails(w) PROVE TypeOK'
  <2>1. cache' \in [Keys -> Entries \cup {Absent}]
    BY <1>10, MissedType DEF InvalidationFails
  <2>. QED  BY <1>10, <2>1 DEF InvalidationFails, SetWriter, SourceTypeOK
<1>11. CASE Tick
  <2>1. \A k \in Present : cache[k].ttl # 1 =>
          [cache[k] EXCEPT !.ttl = @ - 1] \in Entries
    BY CacheAssumption DEF Present, Entries
  <2>. QED  BY <1>11, <2>1 DEF Tick, Present, SourceTypeOK
<1>12. CASE UNCHANGED vars
  BY <1>12 DEF vars, SourceTypeOK
<1>. QED
  BY <1>1, <1>2, <1>3, <1>4, <1>5, <1>6, <1>7, <1>8, <1>9, <1>10, <1>11, <1>12
  DEF Next, Read, Write

\* Any cached route is true, or on its way out, or marked: a step keeps it so.
Explained(k) == Stale(k) => Pending(k) \/ cache[k].late \/ cache[k].missed

\* A step that changes neither the truth of a key, nor its entry, nor what the
\* writers are about to delete, keeps its staleness explained.
LEMMA ExplainedUnchanged ==
  ASSUME NEW k \in Keys, Explained(k), truth'[k] = truth[k], cache'[k] = cache[k],
         writer' = writer
  PROVE  Explained(k)'
BY DEF Explained, Stale, Present, Pending

\* An entry marked as missed is explained, whatever the writers do.
LEMMA ExplainedMissed ==
  ASSUME TypeOK, NEW keys, NEW k \in Keys, k \in keys, Missed(keys)
  PROVE  Explained(k)'
<1>1. CASE k \in Present
  BY <1>1 DEF Missed, Explained, Present, TypeOK, Entries
<1>2. CASE k \notin Present
  BY <1>2 DEF Missed, Explained, Present, Stale
<1>. QED  BY <1>1, <1>2

\* What a query stores is the truth, or is marked late.
LEMMA ExplainedStore ==
  ASSUME TypeOK, CleanReturnIsTrue, NoUnexplainedStaleness, UNCHANGED <<truth, writer>>,
         NEW r \in Readers, Store(r), NEW k \in Keys
  PROVE  Explained(k)'
<1>1. CASE k = query[r].key
  <2>1. query[r] \in Queries
    BY DEF Store, TypeOK, SourceTypeOK
  <2>2. /\ cache'[k].late = ~query[r].clean
        /\ cache'[k].value = query[r].value
    BY <1>1 DEF Store, TypeOK
  <2>3. query[r].clean => query[r].value = truth[k]
    BY <1>1 DEF CleanReturnIsTrue, Store
  <2>. QED  BY <2>1, <2>2, <2>3 DEF Explained, Stale, Queries
<1>2. CASE k # query[r].key
  BY <1>2, ExplainedUnchanged DEF Store, TypeOK, NoUnexplainedStaleness, Explained
<1>. QED  BY <1>1, <1>2

LEMMA NextStaleness ==
  ASSUME IInv, [Next]_vars
  PROVE  NoUnexplainedStaleness'
<1>. SUFFICES ASSUME NEW k \in Keys PROVE Explained(k)'
  BY DEF NoUnexplainedStaleness, Explained
<1>0. TypeOK /\ CleanReturnIsTrue /\ NoUnexplainedStaleness /\ Explained(k)
  BY DEF IInv, NoUnexplainedStaleness, Explained
<1>1. ASSUME NEW r \in Readers, NEW l \in Keys, Hit(r, l) \/ Miss(r, l)
      PROVE Explained(k)'
  BY <1>0, <1>1, ExplainedUnchanged DEF Hit, Miss, Ask, sourceVars
<1>2. ASSUME NEW r \in Readers, Resolved(r) \/ ReadFails(r) PROVE Explained(k)'
  BY <1>0, <1>2, ExplainedUnchanged DEF Resolved, Return, ReadFails
<1>3. ASSUME NEW r \in Readers, Fill(r) \/ FillUnacknowledged(r) PROVE Explained(k)'
  <2>1. Store(r) /\ UNCHANGED <<truth, writer>>
    BY <1>3 DEF Fill, Leave, FillUnacknowledged
  <2>. QED  BY <1>0, <2>1, ExplainedStore
<1>4. ASSUME NEW w \in Writers, NEW m \in WriteMethods, Mutate(w, m) PROVE Explained(k)'
  <2>1. CASE SetWriter(w, "scan", {})
    BY <1>0, <2>1 DEF SetWriter, Explained, Pending, TypeOK
  <2>2. CASE Missed(Keys)
    BY <1>0, <2>2, ExplainedMissed
  <2>. QED  BY <1>4, <2>1, <2>2 DEF Mutate
<1>5. ASSUME NEW w \in Writers, Scan(w) PROVE Explained(k)'
  <2>1. CASE k \in Present
    <3>1. writer'[w] = [at |-> "delete", keys |-> Present]
      BY <1>0, <1>5, <2>1 DEF Scan, SetWriter, TypeOK
    <3>2. Pending(k)'
      BY <2>1, <3>1 DEF Pending
    <3>. QED  BY <3>2 DEF Explained
  <2>2. CASE k \notin Present
    BY <1>5, <2>2 DEF Scan, Explained, Stale, Present
  <2>. QED  BY <2>1, <2>2
<1>6. ASSUME NEW w \in Writers, Delete(w) PROVE Explained(k)'
  <2>1. CASE k \in writer[w].keys
    BY <1>6, <2>1 DEF Delete, Explained, Stale, Present
  <2>2. CASE k \notin writer[w].keys
    <3>1. cache'[k] = cache[k] /\ truth'[k] = truth[k]
      BY <1>6, <2>2 DEF Delete, sourceVars
    <3>2. Pending(k) => Pending(k)'
      BY <1>0, <1>6, <2>2 DEF Delete, SetWriter, Pending, TypeOK
    <3>. QED  BY <1>0, <3>1, <3>2 DEF Explained, Stale, Present
  <2>. QED  BY <2>1, <2>2
<1>7. ASSUME NEW w \in Writers, InvalidationFails(w) PROVE Explained(k)'
  <2>. DEFINE keys == IF writer[w].at = "scan" THEN Keys ELSE writer[w].keys
  <2>1. Missed(keys)
    BY <1>7 DEF InvalidationFails
  <2>2. CASE k \in keys
    BY <1>0, <2>1, <2>2, ExplainedMissed
  <2>3. CASE k \notin keys
    <3>1. cache'[k] = cache[k] /\ truth'[k] = truth[k]
      BY <1>7, <2>1, <2>3 DEF Missed, InvalidationFails, sourceVars
    <3>2. Pending(k) => Pending(k)'
      BY <1>0, <1>7, <2>3 DEF InvalidationFails, SetWriter, Pending, TypeOK
    <3>. QED  BY <1>0, <3>1, <3>2 DEF Explained, Stale, Present
  <2>. QED  BY <2>2, <2>3
<1>8. CASE Tick
  <2>1. CASE k \in Present /\ cache[k].ttl # 1
    <3>1. cache[k] \in Entries /\ cache'[k] = [cache[k] EXCEPT !.ttl = @ - 1]
      BY <1>0, <1>8, <2>1 DEF Tick, Present, TypeOK
    <3>2. /\ cache'[k].value = cache[k].value
          /\ cache'[k].late = cache[k].late
          /\ cache'[k].missed = cache[k].missed
      BY <3>1 DEF Entries
    <3>3. truth' = truth /\ writer' = writer
      BY <1>8 DEF Tick, sourceVars
    <3>. QED  BY <1>0, <2>1, <3>2, <3>3 DEF Explained, Stale, Present, Pending
  <2>2. CASE k \notin Present \/ cache[k].ttl = 1
    BY <1>8, <2>2 DEF Tick, Explained, Stale, Present
  <2>. QED  BY <2>1, <2>2
<1>9. CASE UNCHANGED vars
  BY <1>0, <1>9, ExplainedUnchanged DEF vars
<1>. QED
  BY <1>1, <1>2, <1>3, <1>4, <1>5, <1>6, <1>7, <1>8, <1>9 DEF Next, Read, Write

LEMMA NextClean ==
  ASSUME IInv, [Next]_vars
  PROVE  CleanReturnIsTrue'
<1>0. SourceTypeOK /\ CleanReturnIsTrue
  BY DEF IInv, TypeOK
<1>1. CASE UNCHANGED sourceVars
  BY <1>0, <1>1 DEF sourceVars, CleanReturnIsTrue
<1>2. CASE UNCHANGED query /\ UNCHANGED truth
  BY <1>0, <1>2 DEF CleanReturnIsTrue
<1>3. ASSUME NEW r \in Readers, Read(r) PROVE CleanReturnIsTrue'
  BY <1>0, <1>1, <1>2, <1>3, SourceTruth
  DEF Read, Hit, Miss, Resolved, Fill, FillUnacknowledged, ReadFails
<1>4. ASSUME NEW w \in Writers, Write(w) PROVE CleanReturnIsTrue'
  BY <1>0, <1>1, <1>4, SourceTruth DEF Write, Mutate, Scan, Delete, InvalidationFails
<1>5. CASE Tick
  BY <1>1, <1>5 DEF Tick
<1>. QED  BY <1>1, <1>3, <1>4, <1>5 DEF Next, vars, sourceVars

-----------------------------------------------------------------------------
\* Every variable of the cache keeps its type, whatever fails.
THEOREM TypeCorrect == Spec => []TypeOK
<1>1. Init => TypeOK
  BY InitIInv DEF IInv
<1>. QED  BY <1>1, NextTypeOK, PTL DEF Spec

\* In any deployment a stale route in Redis is about to be deleted, or was filled
\* by an overtaken query, or outlived a commit that invalidates nothing.
THEOREM StalenessExplained == Spec => []NoUnexplainedStaleness
<1>1. IInv /\ [Next]_vars => IInv'
  BY NextTypeOK, NextStaleness, NextClean DEF IInv
<1>2. IInv => NoUnexplainedStaleness
  BY DEF IInv
<1>. QED  BY InitIInv, <1>1, <1>2, PTL DEF Spec

\* Only a hit and an acknowledged fill give a caller a decision, and both leave
\* it in the cache for every replica.
THEOREM AnswersShared == Spec => AnswersAreShared
<1>. DEFINE Shared ==
       answer' # answer /\ answer'.value # Unavailable =>
         /\ cache'[answer'.key] # Absent
         /\ cache'[answer'.key].value = answer'.value
<1>1. ASSUME TypeOK, [Next]_vars PROVE Shared
  <2>1. ASSUME NEW r \in Readers, NEW k \in Keys, Hit(r, k) PROVE Shared
    BY <2>1 DEF Hit, Reply, Present
  <2>2. ASSUME NEW r \in Readers, Fill(r) PROVE Shared
    <3>1. query[r] \in Queries
      BY <1>1, <2>2, StoreType DEF Fill
    <3>2. cache'[query[r].key] =
            [value |-> query[r].value, ttl |-> TTL, late |-> ~query[r].clean, missed |-> FALSE]
      BY <1>1, <2>2, <3>1 DEF Fill, Store, TypeOK, Queries
    <3>3. cache'[query[r].key] \in Entries
      <4>1. query[r].value \in Decisions /\ query[r].clean \in BOOLEAN
        BY <1>1, <2>2, <3>1, StoreType DEF Fill, Queries
      <4>2. TTL \in 1 .. TTL
        BY CacheAssumption
      <4>. QED  BY <3>2, <4>1, <4>2 DEF Entries
    <3>. QED  BY <2>2, <3>2, <3>3, CacheAssumption DEF Fill, Reply
  <2>3. ASSUME NEW r \in Readers, FillUnacknowledged(r) \/ ReadFails(r) PROVE Shared
    BY <2>3 DEF FillUnacknowledged, ReadFails, Reply
  <2>4. CASE UNCHANGED answer
    BY <2>4
  <2>. QED
    BY <1>1, <2>1, <2>2, <2>3, <2>4
    DEF Next, Read, Write, vars, Miss, Resolved, Mutate, Scan, Delete, InvalidationFails, Tick
<1>2. Spec => []TypeOK
  BY TypeCorrect
<1>. QED  BY <1>1, <1>2, PTL DEF Spec, AnswersAreShared
-----------------------------------------------------------------------------
(* What is left of staleness when nothing fails.                           *)

\* No cached entry has lost its invalidation.
NothingMissed == \A k \in Present : ~cache[k].missed

\* No mutation is between its commit and the end of its invalidation.
Settled == \A w \in Writers : writer[w].at = "idle"

\* Without faults, and with every write wrapped, each commit goes on to its scan.
LEMMA NextNothingMissed ==
  ASSUME TypeOK, NothingMissed, ~Faults, WriteMethods \subseteq Mutations, [Next]_vars
  PROVE  NothingMissed'
<1>1. ASSUME NEW r \in Readers, Fill(r) PROVE NothingMissed'
  <2>1. Store(r)
    BY <1>1 DEF Fill
  <2>. QED  BY <2>1 DEF Store, NothingMissed, Present, TypeOK
<1>2. ASSUME NEW w \in Writers, Delete(w) PROVE NothingMissed'
  BY <1>2 DEF Delete, NothingMissed, Present
<1>3. CASE Tick
  <2>1. ASSUME NEW k \in Keys, cache'[k] # Absent PROVE ~cache'[k].missed
    <3>1. k \in Present /\ cache'[k] = [cache[k] EXCEPT !.ttl = @ - 1]
      BY <1>3, <2>1 DEF Tick
    <3>2. cache[k] \in Entries
      BY <3>1 DEF TypeOK, Present
    <3>. QED  BY <3>1, <3>2 DEF NothingMissed, Entries
  <2>. QED  BY <2>1 DEF NothingMissed, Present
<1>4. CASE UNCHANGED cache
  BY <1>4 DEF NothingMissed, Present
<1>. QED
  BY <1>1, <1>2, <1>3, <1>4
  DEF Next, Read, Write, vars, Hit, Miss, Resolved, FillUnacknowledged, ReadFails, Mutate,
      Scan, InvalidationFails

\* The comment on withRedisInvalidation, as far as it is right: when no command
\* fails and every write is wrapped, the writes that are over have left nothing
\* stale but what a query they overtook filled in behind their DEL.  The late
\* fill is the one hole in the design itself.
THEOREM OnlyLateFillsStayStale ==
  ASSUME ~Faults, WriteMethods \subseteq Mutations
  PROVE  Spec => [](Settled => \A k \in Keys : Stale(k) => cache[k].late)
<1>1. Init => NothingMissed
  BY DEF Init, NothingMissed, Present
<1>2. TypeOK /\ NothingMissed /\ [Next]_vars => NothingMissed'
  BY NextNothingMissed
<1>3. NoUnexplainedStaleness /\ NothingMissed =>
        (Settled => \A k \in Keys : Stale(k) => cache[k].late)
  BY DEF NoUnexplainedStaleness, NothingMissed, Settled, Stale, Pending
<1>. QED  BY <1>1, <1>2, <1>3, TypeCorrect, StalenessExplained, PTL DEF Spec
=============================================================================
