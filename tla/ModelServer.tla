----------------------------- MODULE ModelServer -----------------------------
(***************************************************************************)
(* One process of kokoro-model, serving HTTP (target-main.ts) or RPC       *)
(* (rpc/main.ts): its start, its requests from the access check to the     *)
(* answer, its connections, and its shutdown on either or both of two      *)
(* signals.                                                                *)
(*                                                                         *)
(* A method's statements and the commands of an invalidation are modelled  *)
(* in ModelRepository and RouteCache; here a method comes back with an     *)
(* outcome and has changed the routes or not, and an invalidation succeeds *)
(* or fails.                                                               *)
(***************************************************************************)
EXTENDS HttpRoutes

CONSTANTS
  Clients,      \* requests served at once
  Offered,      \* the routes clients ask for
  Named,        \* the callers they name
  Vaults        \* the sets of callers whose secrets a deployment configures

Signals == {"SIGINT", "SIGTERM"}

VARIABLES
  config,     \* which program, which secrets, production or not
  phase,      \* where the process stands
  shutdown,   \* where the shutdown a signal began stands
  open,       \* the clients of Redis and PostgreSQL not closed yet
  redis,      \* whether Redis answers what it is sent
  attached,   \* the clients whose connection is open
  request     \* the last request of a client

vars == <<config, phase, shutdown, open, redis, attached, request>>

Config == [surface : {"http", "rpc"}, secrets : Vaults, production : BOOLEAN]

Statuses == {200, 400, 401, 403, 404, 409, 500, 503}

\* plain, changed and swept are history, read by no guard: the url was spelled as
\* the route is registered, the call has changed which routes tenants have, and
\* the cached routes were deleted after it.
Request ==
  [route : Offered, caller : Named, plain : BOOLEAN, stage : {"refused", "called", "sweeping", "answered"},
   status : Statuses \cup {Null}, changed : BOOLEAN, swept : BOOLEAN]

ASSUME ServerAssumption ==
  /\ Offered \subseteq Routes
  /\ Vaults \subseteq SUBSET ServiceCallers
  /\ Null \notin Request \cup Statuses

TypeOK ==
  /\ config \in Config
  /\ phase \in {"starting", "serving", "stopped", "dead"}
  /\ shutdown \in [Signals -> {"none", "closing", "quitting", "disconnecting", "done"}]
  /\ open \subseteq {"redis", "postgresql"}
  /\ redis \in {"answers", "hangs"} /\ attached \subseteq Clients
  /\ request \in [Clients -> Request \cup {Null}]

\* Requests whose handler still runs.
InFlight == {c \in Clients : request[c] # Null /\ request[c].stage \in {"called", "sweeping"}}

\* Those whose client is still there to be answered.
Awaited == InFlight \cap attached

Draining == \E s \in Signals : shutdown[s] # "none"

\* A command sent to Redis now comes back with a result.
RedisAnswers == "redis" \in open /\ redis = "answers"

-----------------------------------------------------------------------------
(* Start: missing secrets and failing checks end the process before it     *)
(* listens; so does a signal, whose handlers are installed last.           *)

Start ==
  /\ phase = "starting"
  /\ \/ phase' = "dead"
     \/ /\ config.surface = "http" =>
             MissingCallers(config.secrets, config.production, RequiredCallers) = {}
        /\ phase' = "serving"
  /\ UNCHANGED <<config, shutdown, open, redis, attached, request>>

-----------------------------------------------------------------------------
(* Requests.                                                               *)

Surface == Offered \cap (IF config.surface = "http" THEN HttpSurface ELSE RpcSurface)

Level == [route \in Routes |-> LevelOf(route.path)]

\* The hook looks for the declarations in the url as it was sent, the router for
\* the route in the path it decodes from it.  A url spelled otherwise than the
\* path is registered may reach the route and match no declaration; it matches
\* none but the route's own.
LevelSeen(route, plain) == IF plain THEN Level[route] ELSE DefaultLevel

\* The RPC server checks no caller.
RefusalOf(route, plain, caller, genuine) ==
  IF config.surface = "rpc" THEN {}
  ELSE Refusal(LevelSeen(route, plain), config.secrets, caller, genuine)

\* The status of a request that does not reach its method, none if it does.
\* valid is whether body, query and tenant header are what the handler asks for;
\* probes and the manifest ask for nothing.
EarlyStatus(route, plain, caller, genuine, valid) ==
  LET refusal == RefusalOf(route, plain, caller, genuine) IN
  IF refusal # {} THEN refusal
  ELSE IF ParamsAccepted(route) /\ (valid \/ route.calls \in {"none", "checks"}) THEN {}
  ELSE {400}

Arrival(route, plain, caller, early) ==
  [route |-> route, caller |-> caller, plain |-> plain, changed |-> FALSE, swept |-> FALSE,
   stage |-> IF early = {} THEN "called" ELSE "refused",
   status |-> IF early = {} THEN Null ELSE CHOOSE s \in early : TRUE]

\* A request on a new connection or on one that was kept.  A server that closes
\* accepts no new ones; on the old ones the RPC server serves as before, and
\* Fastify answers 503 to whatever is sent, before any hook, which is no step here.
Receive(c) ==
  /\ phase = "serving" /\ (Draining => config.surface = "rpc" /\ c \in attached)
  /\ c \notin InFlight
  /\ \E route \in Surface, caller \in Named, plain, genuine, valid \in BOOLEAN :
       /\ genuine => caller \in config.secrets
       /\ request' = [request EXCEPT ![c] =
            Arrival(route, plain, caller, EarlyStatus(route, plain, caller, genuine, valid))]
  /\ attached' = attached \cup {c}
  /\ UNCHANGED <<config, phase, shutdown, open, redis>>

\* A connection ends: the client leaves, or it has been idle too long.  A handler
\* that runs for it runs on.
HangUp(c) ==
  /\ phase = "serving" /\ c \in attached
  /\ attached' = attached \ {c}
  /\ UNCHANGED <<config, phase, shutdown, open, redis, request>>

\* Mutant of Wrapped: without the status of a binding.
WrappedFewer ==
  {"ensureProviderAccount", "ensureModelBinding", "ensureModelLabel",
   "setProviderAccountStatus", "deleteProviderAccount",
   "restoreProviderAccount", "deleteModelBinding", "restoreModelBinding",
   "upsertTenantModelPolicy"}

\* The methods withRedisInvalidation wraps, and all that change routes.
Wrapped ==
  {"ensureProviderAccount", "ensureModelBinding", "ensureModelLabel",
   "setProviderAccountStatus", "setModelBindingStatus", "deleteProviderAccount",
   "restoreProviderAccount", "deleteModelBinding", "restoreModelBinding",
   "upsertTenantModelPolicy"}

Writing == {"setModelBindingStatus", "setProviderHealthStatus"} \cup Wrapped

\* How a method ends: with a value, with null, or by throwing.
Outcomes(method) ==
  CASE method = "none" -> {"value"}
    [] method = "checks" -> {"value", "unavailable"}
    [] method = "resolve" -> {"value", "null", "unavailable", "failed"}
    [] method \in {"setProviderAccountStatus", "setModelBindingStatus",
                   "setProviderHealthStatus"} -> {"value", "null", "failed"}
    [] method = "ensureProviderAccount" -> {"value", "deleted", "failed"}
    [] method = "ensureModelBinding" -> {"value", "not_found", "deleted", "failed"}
    [] method \in {"deleteProviderAccount", "restoreProviderAccount", "deleteModelBinding",
                   "restoreModelBinding", "upsertTenantModelPolicy"} ->
         {"value", "not_found", "failed"}
    [] method \in {"listModelBindingsPage", "listActiveModelLabelsPage",
                   "listPublicModelCatalog", "listProviderAccounts", "listAllModelBindings",
                   "listModelLabels", "listTenantModelPolicies"} ->
         {"value", "invalid_cursor", "failed"}
    [] OTHER -> {"value", "failed"}

\* Mutant of StatusOf: a deleted row is answered 410, which is none of the
\* statuses of this service.
StatusOfGone(route, outcome) ==
  CASE outcome = "value" -> 200
    [] outcome \in {"null", "not_found"} -> 404
    [] outcome = "deleted" -> 410
    [] outcome = "invalid_cursor" -> 400
    [] outcome = "unavailable" -> 503
    [] OTHER -> 500

\* What a handler answers; Connect's codes are those of the same meaning.
StatusOf(route, outcome) ==
  CASE outcome = "value" -> 200
    [] outcome = "null" -> 404
    [] outcome = "not_found" /\ route.errors = "mapped" -> 404
    [] outcome = "deleted" /\ route.errors = "mapped" -> 409
    [] outcome = "invalid_cursor" -> 400
    [] outcome = "unavailable" -> 503
    [] OTHER -> 500

Finish(c, status) == [request[c] EXCEPT !.stage = "answered", !.status = status]

\* A call that returns may have changed the routes, one that failed as well; one
\* refused by the repository has not (RejectedMutationKeepsRoutes).  A resolution
\* that comes back with a decision has read it from Redis or stored it there;
\* PostgreSQL answers to the end, since Prisma connects again for a query.
MethodEnds(c) ==
  /\ phase = "serving" /\ c \in InFlight /\ request[c].stage = "called"
  /\ LET route == request[c].route IN
     \E outcome \in Outcomes(route.calls), changed \in BOOLEAN :
       /\ changed => route.calls \in Writing /\ outcome \in {"value", "failed"}
       /\ route.calls = "resolve" /\ outcome \in {"value", "null"} => RedisAnswers
       /\ request' = [request EXCEPT ![c] =
            IF route.calls \in Wrapped /\ outcome \in {"value", "null"}
            THEN [request[c] EXCEPT !.stage = "sweeping", !.changed = changed,
                                    !.status = StatusOf(route, outcome)]
            ELSE [Finish(c, StatusOf(route, outcome)) EXCEPT !.changed = changed]]
  /\ UNCHANGED <<config, phase, shutdown, open, redis, attached>>

\* The wrapper's KEYS and DEL; if one fails, as both do once this process has
\* ended its client of Redis, the call throws after all.
Sweep(c) ==
  /\ phase = "serving" /\ c \in InFlight /\ request[c].stage = "sweeping"
  /\ \/ /\ RedisAnswers
        /\ request' = [request EXCEPT ![c] = [Finish(c, @.status) EXCEPT !.swept = TRUE]]
     \/ request' = [request EXCEPT ![c] = Finish(c, StatusOf(@.route, "failed"))]
  /\ UNCHANGED <<config, phase, shutdown, open, redis, attached>>

-----------------------------------------------------------------------------
(* Shutdown.  Each signal has a handler that runs once and does everything. *)

\* The second signal of a kind finds no handler and ends the process, as any
\* does before the handlers are installed.
Signal(s) ==
  /\ phase \in {"starting", "serving"}
  /\ IF phase = "serving" /\ shutdown[s] = "none"
     THEN shutdown' = [shutdown EXCEPT ![s] = "closing"] /\ UNCHANGED phase
     ELSE phase' = "dead" /\ UNCHANGED shutdown
  /\ UNCHANGED <<config, open, redis, attached, request>>

\* Mutants of Closed: the connections are not waited for; a server that another
\* signal is closing calls nobody back.
ClosedAtOnce(s) ==
  /\ phase = "serving" /\ shutdown[s] = "closing"
  /\ shutdown' = [shutdown EXCEPT ![s] = "quitting"]
  /\ UNCHANGED <<config, phase, open, redis, attached, request>>

ClosedOnce(s) ==
  /\ phase = "serving" /\ shutdown[s] = "closing"
  /\ attached = {} /\ \A t \in Signals \ {s} : shutdown[t] = "none"
  /\ shutdown' = [shutdown EXCEPT ![s] = "quitting"]
  /\ UNCHANGED <<config, phase, open, redis, attached, request>>

\* close() is called back when every connection has ended, and a second call of
\* it as well.  A handler whose client has hung up is not waited for.
Closed(s) ==
  /\ phase = "serving" /\ shutdown[s] = "closing"
  /\ attached = {}
  /\ shutdown' = [shutdown EXCEPT ![s] = "quitting"]
  /\ UNCHANGED <<config, phase, open, redis, attached, request>>

\* redis.quit() is acknowledged, or rejected because the connection is lost or
\* the other handler has ended it; nothing catches the rejection.  The client
\* sets no limit of time on a command: as long as Redis hangs, so does quit().
Quit(s) ==
  /\ phase = "serving" /\ shutdown[s] = "quitting"
  /\ "redis" \in open => redis = "answers"
  /\ \/ /\ shutdown' = [shutdown EXCEPT ![s] = "disconnecting"]
        /\ open' = open \ {"redis"}
        /\ UNCHANGED phase
     \/ phase' = "dead" /\ UNCHANGED <<shutdown, open>>
  /\ UNCHANGED <<config, redis, attached, request>>

Disconnect(s) ==
  /\ phase = "serving" /\ shutdown[s] = "disconnecting"
  /\ shutdown' = [shutdown EXCEPT ![s] = "done"]
  /\ open' = open \ {"postgresql"}
  /\ UNCHANGED <<config, phase, redis, attached, request>>

\* With both shutdowns through, nothing but a handler whose client has hung up
\* keeps the process alive, and not every wait of such a handler does.
Stop ==
  /\ phase = "serving" /\ Draining
  /\ \A s \in Signals : shutdown[s] \in {"none", "done"}
  /\ phase' = "stopped"
  /\ UNCHANGED <<config, shutdown, open, redis, attached, request>>

\* Redis stops answering, its connection still open, or answers again.
RedisTurns ==
  /\ phase = "serving" /\ "redis" \in open
  /\ redis' \in {"answers", "hangs"} \ {redis}
  /\ UNCHANGED <<config, phase, shutdown, open, attached, request>>

Init ==
  /\ config \in Config
  /\ phase = "starting"
  /\ shutdown = [s \in Signals |-> "none"]
  /\ open = {"redis", "postgresql"}
  /\ redis = "answers" /\ attached = {}
  /\ request = [c \in Clients |-> Null]

Next ==
  \/ Start \/ Stop \/ RedisTurns
  \/ \E c \in Clients : Receive(c) \/ HangUp(c) \/ MethodEnds(c) \/ Sweep(c)
  \/ \E s \in Signals : Signal(s) \/ Closed(s) \/ Quit(s) \/ Disconnect(s)

Spec == Init /\ [][Next]_vars

\* The event loop gets to what has been called back, and a process ends in which
\* nothing runs.  Nothing is assumed of clients, of the queries of a request,
\* which may take for ever, or of Redis.
Fairness ==
  /\ WF_vars(InFlight = {} /\ Stop)
  /\ \A s \in Signals : WF_vars(Closed(s)) /\ WF_vars(Quit(s)) /\ WF_vars(Disconnect(s))

FairSpec == Spec /\ Fairness

-----------------------------------------------------------------------------
\* Requests that were let through to a method or to a handler's own checks.
Admitted(c) == request[c] # Null /\ request[c].stage # "refused"

\* The comment on RUNTIME_INTERNAL_CALLERS: by the path it is registered with,
\* what lies under /admin is reached by admin alone and the catalogue of the web
\* by web-bff alone; by any spelling, web-bff reaches nothing else but the probes.
\* All this whatever secrets are configured.
CallersStayInTheirLayer ==
  \A c \in Clients : Admitted(c) /\ config.surface = "http" =>
    LET path == request[c].route.path
        caller == request[c].caller
    IN /\ request[c].plain /\ path[1] = "admin" => caller = "admin"
       /\ request[c].plain /\ path[1] = "bff" => caller = "web-bff"
       /\ caller = "web-bff" =>
            \/ path[1] = "bff"
            \/ request[c].route \in ProbeRoutes \/ path = <<"readyz">>

\* A production server that has started can be asked everything it serves: of
\* every route, some caller with a configured secret is let in.
ProductionServesEveryRoute ==
  config.surface = "http" /\ config.production /\ phase = "serving" =>
    \A route \in Surface :
      \E caller \in config.secrets : RefusalOf(route, TRUE, caller, TRUE) = {}

\* Between a change answered 200 and its answer the cached routes were deleted,
\* which a fill under way may still add to (WritesLeaveNothingStale); a request
\* answered 4xx has changed no route, however the call and the invalidation went.
AnswersTellTheTruth ==
  \A c \in Clients : request[c] # Null /\ request[c].stage = "answered" =>
    /\ request[c].status = 200 /\ request[c].changed => request[c].swept
    /\ request[c].status \in 400 .. 499 => ~request[c].changed

\* As long as a client waits for its answer, its handler has Redis and PostgreSQL,
\* though two shutdowns may be under way that know nothing of each other, and the
\* process does not stop of itself.  A client that hangs up gives this up for the
\* handler it leaves behind.
ConnectionsOutliveHandlers ==
  /\ phase = "serving" /\ Awaited # {} => open = {"redis", "postgresql"}
  /\ phase = "stopped" => Awaited = {}

\* If Redis answers in the end, a shutdown ends once every connection has ended and
\* every handler is done, whether one signal or both began one.
ShutdownEnds ==
  <>[](redis = "answers") =>
    (Draining /\ attached \cup InFlight = {} ~> phase \in {"stopped", "dead"})

-----------------------------------------------------------------------------
\* model-admin-contract.test.ts has the contract expose real actions only: one
\* that is announced is not answered, for the very path announced, that the
\* parameters of the path are wrong.
AnnouncedActionsAreServed ==
  \A c \in Clients :
    /\ request[c] # Null /\ Announced(request[c].route)
    /\ request[c].stage = "refused" /\ request[c].status = 400
    => ParamsAccepted(request[c].route)
=============================================================================
