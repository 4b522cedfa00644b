----------------------------- MODULE RouteCache -----------------------------
(***************************************************************************)
(* The route cache in Redis: RedisCachedModelResolver, which fills it on a *)
(* miss, and withRedisInvalidation, which empties it after a repository    *)
(* mutation has returned.                                                  *)
(*                                                                         *)
(* Replicas of the service share one Redis.  A reader is one resolve call: *)
(* GET, and on a miss a query of the resolver (RouteSource) and a SETEX    *)
(* with a time to live.  A writer is one repository mutation: its commit,  *)
(* KEYS, and one DEL of the keys that KEYS listed.  Every step of one may  *)
(* fall between two steps of another, and every Redis command may fail or  *)
(* lose its answer; the client sends a command once more before it gives   *)
(* up (maxRetriesPerRequest: 1).                                           *)
(***************************************************************************)
EXTENDS RouteSource, Naturals

CONSTANTS
  Writers,       \* concurrent mutations
  WriteMethods,  \* the methods and scripts by which they write
  Faults,        \* whether commands, queries and calls may fail
  Absent,        \* what GET answers when there is no entry
  Unavailable,   \* the 503 a caller is told
  TTL            \* MODEL_RESOLVE_CACHE_TTL_SECONDS, in ticks


VARIABLES
  cache,    \* what Redis holds for a key, or Absent
  retried,  \* whether a reader has sent its SETEX a second time
  writer,   \* where a mutation stands, and the keys KEYS listed for it
  answer    \* the last answer a resolve call gave

sourceVars == <<truth, query>>
vars == <<truth, query, cache, retried, writer, answer>>

\* late and missed are history, kept with the entry they are about: it was
\* stored by a query that a commit had overtaken; a commit it survived will
\* never invalidate it.
Entries ==
  [value : Decisions, ttl : 1 .. TTL, late : BOOLEAN, missed : BOOLEAN]

Answers == [key : Keys, value : Decisions \cup {Unavailable}] \cup {Null}

ASSUME CacheAssumption ==
  /\ TTL \in Nat \ {0}
  /\ Faults \in BOOLEAN
  /\ Absent \notin Entries
  /\ Unavailable \notin Decisions

TypeOK ==
  /\ SourceTypeOK
  /\ cache \in [Keys -> Entries \cup {Absent}]
  /\ retried \in [Readers -> BOOLEAN]
  /\ writer \in [Writers -> [at : {"idle", "scan", "delete"}, keys : SUBSET Keys]]
  /\ answer \in Answers

Present == {k \in Keys : cache[k] # Absent}

-----------------------------------------------------------------------------
(* Readers.                                                                *)

Reply(k, v) == answer' = [key |-> k, value |-> v]

\* Mutant of Hit: a hit renews the time to live.
HitSliding(r, k) ==
  /\ query[r] = Null
  /\ k \in Present
  /\ cache' = [cache EXCEPT ![k].ttl = TTL]
  /\ Reply(k, cache[k].value)
  /\ UNCHANGED <<sourceVars, retried, writer>>

\* GET finds an entry, the cached "no route" included.
Hit(r, k) ==
  /\ query[r] = Null
  /\ k \in Present
  /\ Reply(k, cache[k].value)
  /\ UNCHANGED <<sourceVars, cache, retried, writer>>

\* GET finds none, and the resolver is asked.
Miss(r, k) ==
  /\ k \notin Present
  /\ Ask(r, k)
  /\ retried' = [retried EXCEPT ![r] = FALSE]
  /\ UNCHANGED <<cache, writer, answer>>

Resolved(r) == Return(r) /\ UNCHANGED <<cache, retried, writer, answer>>

\* Mutant of ReadFails: a failed SETEX is swallowed and the decision returned.
ReadFailsOpen(r) ==
  /\ Faults
  /\ Leave(r)
  /\ Reply(query[r].key, IF query[r].at = "returned" THEN query[r].value ELSE Unavailable)
  /\ UNCHANGED <<truth, cache, retried, writer>>

\* GET, a query of the resolver, or a SETEX that is not applied, fails.
ReadFails(r) ==
  /\ Faults
  /\ \/ \E k \in Keys : query[r] = Null /\ Reply(k, Unavailable) /\ UNCHANGED query
     \/ Leave(r) /\ Reply(query[r].key, Unavailable)
  /\ UNCHANGED <<truth, cache, retried, writer>>

\* Mutant of Store: the time to live in milliseconds, as PSETEX takes it.
StoreMilliseconds(r) ==
  /\ query[r] # Null /\ query[r].at = "returned"
  /\ cache' = [cache EXCEPT ![query[r].key] =
                 [value |-> query[r].value, ttl |-> 1000 * TTL,
                  late |-> ~query[r].clean, missed |-> FALSE]]

Store(r) ==
  /\ query[r] # Null /\ query[r].at = "returned"
  /\ cache' = [cache EXCEPT ![query[r].key] =
                 [value |-> query[r].value, ttl |-> TTL,
                  late |-> ~query[r].clean, missed |-> FALSE]]

\* SETEX, acknowledged: the resolver's decision is the answer.
Fill(r) ==
  /\ Store(r)
  /\ Leave(r)
  /\ Reply(query[r].key, query[r].value)
  /\ UNCHANGED <<retried, writer>>

\* SETEX, applied but not acknowledged: it is sent again, or the call fails.
FillUnacknowledged(r) ==
  /\ Faults
  /\ Store(r)
  /\ \/ /\ ~retried[r]
        /\ retried' = [retried EXCEPT ![r] = TRUE]
        /\ UNCHANGED <<query, answer>>
     \/ /\ Leave(r)
        /\ Reply(query[r].key, Unavailable)
        /\ UNCHANGED retried
  /\ UNCHANGED <<truth, writer>>

-----------------------------------------------------------------------------
(* Writers.                                                                *)

\* The methods withRedisInvalidation wraps.
Mutations ==
  {"ensureProviderAccount", "ensureModelBinding", "ensureModelLabel",
   "setProviderAccountStatus", "setModelBindingStatus", "deleteProviderAccount",
   "restoreProviderAccount", "deleteModelBinding", "restoreModelBinding",
   "upsertTenantModelPolicy"}

SetWriter(w, stage, keys) ==
  writer' = [writer EXCEPT ![w] = [at |-> stage, keys |-> keys]]

\* Entries whose invalidation is not coming.
Missed(keys) ==
  cache' = [k \in Keys |-> IF k \in keys \cap Present
                           THEN [cache[k] EXCEPT !.missed = TRUE] ELSE cache[k]]

\* The commit of a mutation. A wrapped one goes on to invalidate; an unwrapped
\* one, and one whose answer is lost after it committed, does not.
Mutate(w, m) ==
  /\ writer[w].at = "idle"
  /\ Commit
  /\ \/ /\ m \in Mutations
        /\ SetWriter(w, "scan", {})
        /\ UNCHANGED cache
     \/ /\ m \notin Mutations \/ Faults
        /\ Missed(Keys)
        /\ UNCHANGED writer
  /\ UNCHANGED <<retried, answer>>

\* KEYS lists what is cached; with nothing to delete the mutation is done.
Scan(w) ==
  /\ writer[w].at = "scan"
  /\ SetWriter(w, IF Present = {} THEN "idle" ELSE "delete", Present)
  /\ UNCHANGED <<sourceVars, cache, retried, answer>>

\* Mutant of Delete: DEL gets the first of the listed keys only.
DeleteOne(w) ==
  /\ writer[w].at = "delete"
  /\ \E one \in writer[w].keys :
       cache' = [k \in Keys |-> IF k = one THEN Absent ELSE cache[k]]
  /\ SetWriter(w, "idle", {})
  /\ UNCHANGED <<sourceVars, retried, answer>>

\* DEL of the listed keys; its answer may be lost, and then it is sent again
\* or the mutation fails, with the keys deleted all the same.
Delete(w) ==
  /\ writer[w].at = "delete"
  /\ cache' = [k \in Keys |-> IF k \in writer[w].keys THEN Absent ELSE cache[k]]
  /\ \/ SetWriter(w, "idle", {})
     \/ Faults /\ UNCHANGED writer
  /\ UNCHANGED <<sourceVars, retried, answer>>

\* KEYS or DEL fails, or the process dies: the commit stands, the call throws.
InvalidationFails(w) ==
  /\ Faults
  /\ writer[w].at # "idle"
  /\ Missed(IF writer[w].at = "scan" THEN Keys ELSE writer[w].keys)
  /\ SetWriter(w, "idle", {})
  /\ UNCHANGED <<sourceVars, retried, answer>>

-----------------------------------------------------------------------------
\* Redis lets time pass: an entry lives TTL ticks after its SETEX.
Tick ==
  /\ Present # {}
  /\ cache' = [k \in Keys |->
                 IF k \notin Present \/ cache[k].ttl = 1 THEN Absent
                 ELSE [cache[k] EXCEPT !.ttl = @ - 1]]
  /\ UNCHANGED <<sourceVars, retried, writer, answer>>

Init ==
  /\ SourceInit
  /\ cache = [k \in Keys |-> Absent]
  /\ retried = [r \in Readers |-> FALSE]
  /\ writer = [w \in Writers |-> [at |-> "idle", keys |-> {}]]
  /\ answer = Null

Read(r) ==
  \/ \E k \in Keys : Hit(r, k) \/ Miss(r, k)
  \/ Resolved(r) \/ Fill(r) \/ FillUnacknowledged(r) \/ ReadFails(r)

Write(w) ==
  \/ \E m \in WriteMethods : Mutate(w, m)
  \/ Scan(w) \/ Delete(w) \/ InvalidationFails(w)

Next == Tick \/ (\E r \in Readers : Read(r)) \/ (\E w \in Writers : Write(w))

Spec == Init /\ [][Next]_vars

\* Redis lets time pass. Nothing makes a client write or read, and what follows
\* needs no query to return and no command to succeed.
FairSpec == Spec /\ WF_vars(Tick)

-----------------------------------------------------------------------------
Stale(k) == k \in Present /\ cache[k].value # truth[k]

\* A mutation that has committed and has yet to delete key k.
Pending(k) ==
  \E w \in Writers :
    \/ writer[w].at = "scan"
    \/ writer[w].at = "delete" /\ k \in writer[w].keys

\* A cached route that is no longer true is one that a mutation is about to
\* delete, or was stored by a query a commit overtook, or outlived a commit
\* without invalidation: the scan and the single DEL of any number of
\* concurrent mutations and fills leave no other way to be stale.
NoUnexplainedStaleness ==
  \A k \in Keys : Stale(k) => Pending(k) \/ cache[k].late \/ cache[k].missed

\* Every decision given to a caller is, at that moment, what all replicas share
\* for its key; a failure of Redis or of the resolver never yields a decision.
AnswersAreShared ==
  [][answer' # answer /\ answer'.value # Unavailable =>
       /\ cache'[answer'.key] # Absent
       /\ cache'[answer'.key].value = answer'.value]_vars

\* Once no more mutations commit, every cached route is true for good: what a
\* lost race or a lost invalidation left behind expires and is not renewed.
EventuallyFresh ==
  <>[][~(\E w \in Writers, m \in WriteMethods : Mutate(w, m))]_vars =>
    <>[](\A k \in Keys : ~Stale(k))

\* The comment on withRedisInvalidation: PostgreSQL writes cannot leave stale
\* route decisions. With every mutation finished, nothing cached is stale.
WritesLeaveNothingStale ==
  (\A w \in Writers : writer[w].at = "idle") => \A k \in Keys : ~Stale(k)
=============================================================================
