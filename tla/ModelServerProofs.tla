-------------------------- MODULE ModelServerProofs --------------------------
(***************************************************************************)
(* For any number of clients: what an answer tells, that no handler whose  *)
(* client waits runs without Redis or PostgreSQL, and who gets to which    *)
(* route.                                                                  *)
(*                                                                         *)
(* First, for any declarations: the level of a path does not depend on     *)
(* their order, as the comment on RouteMatcher says, provided that no two  *)
(* of them give one path different levels.  Then, for those of this        *)
(* server: each has a first segment of its own, so a path has at most one, *)
(* and the level of every route can be read off the first segment.         *)
(***************************************************************************)
EXTENDS ModelServer, Minima, SequenceTheorems

DeclaredRoutes(Segments) ==
  [path : Seq(Segments), exact : BOOLEAN, level : AccessLevels]

\* A matching declaration is no longer than the path, and is its beginning.
LEMMA MatchIsPrefix ==
  ASSUME NEW Segments, NEW d \in DeclaredRoutes(Segments), NEW path \in Seq(Segments),
         Matches(d, path)
  PROVE  Len(d.path) \in Nat /\ Len(d.path) <= Len(path)
         /\ d.path = SubSeq(path, 1, Len(d.path))
<1>1. d.path \in Seq(Segments) /\ d.exact \in BOOLEAN
  BY DEF DeclaredRoutes
<1>2. CASE d.exact
  <2>1. d.path = path
    BY <1>2 DEF Matches
  <2>2. SubSeq(path, 1, Len(path)) = path
    BY SubSeqFull
  <2> QED  BY <2>1, <2>2, <1>1
<1>3. CASE ~d.exact
  BY <1>1, <1>3 DEF Matches
<1> QED  BY <1>1, <1>2, <1>3

\* The loop of resolveLevel ends with a declaration, whenever one matches.
LEMMA BestExists ==
  ASSUME NEW Segments, NEW D \in Seq(DeclaredRoutes(Segments)), NEW path \in Seq(Segments),
         Matching(D, path) # {}
  PROVE  /\ Best(D, path) \in Matching(D, path)
         /\ \A j \in Matching(D, path) :
              Len(D[j].path) <= Len(D[Best(D, path)].path)
<1> DEFINE M == Matching(D, path)
<1> DEFINE L == {Len(D[i].path) : i \in M}
<1>1. \A i \in M : /\ i \in Nat /\ D[i] \in DeclaredRoutes(Segments)
                   /\ Len(D[i].path) \in Nat /\ Len(D[i].path) <= Len(path)
  BY MatchIsPrefix DEF Matching
<1>2. PICK m \in L : \A n \in L : n <= m
  <2>1. L \subseteq Nat /\ L # {} /\ (\A n \in L : n <= Len(path)) /\ Len(path) \in Nat
    <3>1. Len(path) \in Nat
      OBVIOUS
    <3>2. L # {}
      OBVIOUS
    <3>3. \A n \in L : n \in Nat /\ n <= Len(path)
      BY <1>1
    <3> QED  BY <3>1, <3>2, <3>3
  <2> HIDE DEF L
  <2> QED  BY <2>1, GreatestNatural
<1> DEFINE T == {i \in M : Len(D[i].path) = m}
<1>3. PICK t \in T : \A u \in T : t <= u
  <2>1. T \subseteq Nat /\ T # {}
    BY <1>1, <1>2
  <2> HIDE DEF T
  <2> QED  BY <2>1, LeastNatural
<1>4. ASSUME NEW j \in M
      PROVE  \/ Len(D[j].path) < Len(D[t].path)
             \/ Len(D[j].path) = Len(D[t].path) /\ t <= j
  <2>1. Len(D[j].path) <= m /\ Len(D[t].path) = m /\ Len(D[j].path) \in Nat /\ m \in Nat
    BY <1>1, <1>2, <1>3
  <2>2. CASE Len(D[j].path) = m
    BY <2>1, <2>2, <1>3
  <2>3. CASE Len(D[j].path) # m
    BY <2>1, <2>3
  <2> QED  BY <2>2, <2>3
<1>5. t \in M
  BY <1>3
<1>6. \E i \in M : \A j \in M :
         \/ Len(D[j].path) < Len(D[i].path)
         \/ Len(D[j].path) = Len(D[i].path) /\ i <= j
  BY <1>4, <1>5
<1>7. /\ Best(D, path) \in M
      /\ \A j \in M :
           \/ Len(D[j].path) < Len(D[Best(D, path)].path)
           \/ Len(D[j].path) = Len(D[Best(D, path)].path) /\ Best(D, path) <= j
  BY <1>6 DEF Best
<1>8. ASSUME NEW j \in M PROVE Len(D[j].path) <= Len(D[Best(D, path)].path)
  <2>1. Len(D[j].path) \in Nat /\ Len(D[Best(D, path)].path) \in Nat
    BY <1>1, <1>7
  <2>2. \/ Len(D[j].path) < Len(D[Best(D, path)].path)
        \/ Len(D[j].path) = Len(D[Best(D, path)].path)
    BY <1>7
  <2> QED  BY <2>1, <2>2
<1> QED  BY <1>7, <1>8

\* "The most specific wins, independently of the order of declaration": two
\* servers that make the same declarations, in any order and any number of
\* times, guard every path with the same level. Without Consistent the first of
\* two equally long declarations would decide.
THEOREM LevelIgnoresOrder ==
  ASSUME NEW Segments,
         NEW D \in Seq(DeclaredRoutes(Segments)), NEW E \in Seq(DeclaredRoutes(Segments)),
         \A i \in DOMAIN D : \E j \in DOMAIN E : D[i] = E[j],
         \A j \in DOMAIN E : \E i \in DOMAIN D : E[j] = D[i],
         Consistent(D),
         NEW path \in Seq(Segments), NEW default
  PROVE  ResolveLevel(D, path, default) = ResolveLevel(E, path, default)
<1>1. \A i \in Matching(D, path) : \E j \in Matching(E, path) : D[i] = E[j]
  BY DEF Matching
<1>2. \A j \in Matching(E, path) : \E i \in Matching(D, path) : E[j] = D[i]
  BY DEF Matching
<1>3. CASE Matching(D, path) = {}
  BY <1>2, <1>3 DEF ResolveLevel
<1>4. CASE Matching(D, path) # {}
  <2> DEFINE i == Best(D, path)
  <2> DEFINE j == Best(E, path)
  <2>1. Matching(E, path) # {}
    BY <1>1, <1>4
  <2>2. i \in Matching(D, path) /\ \A k \in Matching(D, path) : Len(D[k].path) <= Len(D[i].path)
    BY <1>4, BestExists
  <2>3. j \in Matching(E, path) /\ \A k \in Matching(E, path) : Len(E[k].path) <= Len(E[j].path)
    BY <2>1, BestExists
  <2> HIDE DEF i, j
  <2>4. PICK k \in Matching(E, path) : D[i] = E[k]
    BY <1>1, <2>2
  <2>5. PICK l \in Matching(D, path) : E[j] = D[l]
    BY <1>2, <2>3
  <2>6. /\ i \in DOMAIN D /\ l \in DOMAIN D
        /\ D[i] \in DeclaredRoutes(Segments) /\ Matches(D[i], path)
        /\ E[j] \in DeclaredRoutes(Segments) /\ Matches(E[j], path)
    BY <2>2, <2>3, <2>5 DEF Matching
  <2>7. /\ Len(D[i].path) \in Nat /\ D[i].path = SubSeq(path, 1, Len(D[i].path))
        /\ Len(E[j].path) \in Nat /\ E[j].path = SubSeq(path, 1, Len(E[j].path))
    BY <2>6, MatchIsPrefix
  <2>8. Len(D[i].path) <= Len(E[j].path) /\ Len(E[j].path) <= Len(D[i].path)
    BY <2>2, <2>3, <2>4, <2>5
  <2>9. D[i].path = D[l].path
    <3>1. Len(D[i].path) = Len(E[j].path)
      <4>1. \A m, n \in Nat : m <= n /\ n <= m => m = n
        OBVIOUS
      <4> QED  BY <4>1, <2>7, <2>8
    <3> QED  BY <3>1, <2>7, <2>5
  <2>10. D[i].level = E[j].level
    BY <2>5, <2>6, <2>9 DEF Consistent
  <2> QED  BY <2>10, <2>1, <1>4 DEF ResolveLevel, i, j
<1> QED  BY <1>3, <1>4

-----------------------------------------------------------------------------
(* The levels of the routes of this server.                                *)

LEMMA DeclarationList ==
  /\ DOMAIN Declarations = 1 .. 10
  /\ Declarations[1] = DeclaredRoute(<<"healthz">>, TRUE, "public")
  /\ Declarations[2] = DeclaredRoute(<<"metrics">>, TRUE, "public")
  /\ Declarations[3] = DeclaredRoute(<<"admin">>, FALSE, "admin")
  /\ Declarations[7] = DeclaredRoute(<<"bff", "model-catalog">>, FALSE, "web-bff")
  /\ Declarations[9] = DeclaredRoute(<<"readyz">>, TRUE, "public")
BY DEF Declarations

\* A declaration matches no path that begins with another segment.
LEMMA MatchBeginsAlike ==
  ASSUME NEW path, NEW i \in Matching(Declarations, path)
  PROVE  i \in 1 .. 10 /\ Declarations[i].path[1] = path[1]
<1>1. i \in 1 .. 10 /\ Matches(Declarations[i], path)
  BY DeclarationList DEF Matching
<1>2. Len(Declarations[i].path) \in {1, 2}
  BY <1>1 DEF Declarations, DeclaredRoute
<1>3. \A n \in {1, 2} : SubSeq(path, 1, n)[1] = path[1]
  OBVIOUS
<1> QED  BY <1>1, <1>2, <1>3 DEF Matches

\* The one declaration with the first segment of a path decides its level.
LEMMA LevelByFirstSegment ==
  ASSUME NEW path, NEW i \in 1 .. 10, Declarations[i].path[1] = path[1]
  PROVE  LevelOf(path) = IF Matches(Declarations[i], path) THEN Declarations[i].level
                         ELSE DefaultLevel
<1>1. \A j \in 1 .. 10 : Declarations[j].path[1] = Declarations[i].path[1] => j = i
  BY DEF Declarations, DeclaredRoute
<1>2. Matching(Declarations, path) \subseteq {i}
  BY <1>1, MatchBeginsAlike
<1>3. CASE Matches(Declarations[i], path)
  <2>1. Matching(Declarations, path) = {i}
    BY <1>2, <1>3, DeclarationList DEF Matching
  <2>2. Best(Declarations, path) = i
    BY <2>1 DEF Best
  <2> QED  BY <1>3, <2>1, <2>2 DEF LevelOf, ResolveLevel
<1>4. CASE ~Matches(Declarations[i], path)
  <2>1. Matching(Declarations, path) = {}
    BY <1>2, <1>4 DEF Matching
  <2> QED  BY <1>4, <2>1 DEF LevelOf, ResolveLevel
<1> QED  BY <1>3, <1>4

LEMMA CatalogLevel == LevelOf(<<"bff", "model-catalog">>) = "web-bff"
<1> DEFINE path == <<"bff", "model-catalog">>
<1>1. SubSeq(path, 1, 2) = path /\ Len(path) = 2
  <2>1. ASSUME NEW a, NEW b PROVE SubSeq(<<a, b>>, 1, 2) = <<a, b>>
    <3> DEFINE W == {a, b}
    <3>1. <<a, b>> \in Seq(W) /\ Len(<<a, b>>) = 2
      OBVIOUS
    <3> HIDE DEF W
    <3> QED  BY <3>1, SubSeqFull, Zenon
  <2> QED  BY <2>1
<1> HIDE DEF path
<1>2. /\ Declarations[7].path = path /\ Declarations[7].level = "web-bff"
      /\ ~Declarations[7].exact
  BY DeclarationList DEF DeclaredRoute, path
<1>3. Len(Declarations[7].path) = 2
  BY DeclarationList DEF DeclaredRoute
<1>4. Matches(Declarations[7], path)
  <2>1. Len(Declarations[7].path) <= Len(path)
    BY <1>1, <1>3
  <2>2. SubSeq(path, 1, Len(Declarations[7].path)) = Declarations[7].path
    BY <1>1, <1>2, <1>3, Zenon
  <2> QED  BY <1>2, <2>1, <2>2 DEF Matches
<1> QED  BY <1>2, <1>4, LevelByFirstSegment DEF path

LEMMA OpenLevel ==
  ASSUME NEW path \in {<<"healthz">>, <<"metrics">>, <<"readyz">>}
  PROVE  LevelOf(path) = "public"
<1>1. PICK i \in {1, 2, 9} : Declarations[i] = DeclaredRoute(path, TRUE, "public")
  BY DeclarationList
<1>2. /\ Declarations[i].path = path /\ Declarations[i].exact
      /\ Declarations[i].level = "public"
  BY <1>1 DEF DeclaredRoute
<1> QED  BY <1>2, LevelByFirstSegment DEF Matches

\* A path of strings from W under /admin.
LEMMA AdminLevel ==
  ASSUME NEW W, NEW path \in Seq(W), Len(path) >= 1, path[1] = "admin"
  PROVE  LevelOf(path) = "admin"
<1>1. SubSeq(path, 1, 1) = <<"admin">>
  <2>1. /\ SubSeq(path, 1, 1) \in Seq(W) /\ Len(SubSeq(path, 1, 1)) = 1
        /\ SubSeq(path, 1, 1)[1] = path[1] /\ path[1] \in W
    OBVIOUS
  <2>2. <<path[1]>> \in Seq(W) /\ Len(<<path[1]>>) = 1 /\ <<path[1]>>[1] = path[1]
    BY <2>1
  <2>3. \A i \in 1 .. 1 : SubSeq(path, 1, 1)[i] = <<path[1]>>[i]
    BY <2>1, <2>2
  <2>4. SubSeq(path, 1, 1) = <<path[1]>>
    BY <2>1, <2>2, <2>3, SeqEqual
  <2> QED  BY <2>4
<1>2. /\ Declarations[3].path = <<"admin">> /\ Declarations[3].path[1] = path[1]
      /\ Declarations[3].level = "admin" /\ ~Declarations[3].exact
      /\ Len(Declarations[3].path) = 1
  BY DeclarationList DEF DeclaredRoute
<1>3. Matches(Declarations[3], path)
  BY <1>1, <1>2 DEF Matches
<1> QED  BY <1>2, <1>3, LevelByFirstSegment

Internal == {"provider-accounts", "model-bindings", "model-labels", "resolve"}

\* No declaration for the rest says anything but the default.
LEMMA InternalLevel ==
  ASSUME NEW path, path[1] \in Internal
  PROVE  LevelOf(path) = DefaultLevel
<1>1. \A i \in 1 .. 10 : Declarations[i].path[1] \in Internal =>
        Declarations[i].level = DefaultLevel
  BY DEF Declarations, DeclaredRoute, Internal, DefaultLevel
<1>2. \A s \in Internal : \E i \in {4, 5, 6, 10} : Declarations[i].path[1] = s
  BY DEF Declarations, DeclaredRoute, Internal
<1>3. PICK i \in {4, 5, 6, 10} : Declarations[i].path[1] = path[1]
  BY <1>2
<1> QED  BY <1>1, <1>3, LevelByFirstSegment

\* The routes under /admin by the shape of their paths.
LEMMA AdminRoutes ==
  ASSUME NEW route \in UNION {AdminListRoutes, PolicyRoutes, StatusRoutes, HealthRoutes,
                              LifecycleRoutes}
  PROVE  route.path[1] = "admin" /\ LevelOf(route.path) = "admin"
<1> DEFINE Pages == {"manifest", "provider-accounts", "bindings", "labels", "tenant-policies"}
           Ids == {":id", ":providerAccountId", ":modelBindingId"}
           Verbs == {"disable", "enable", "health", "restore"}
           W == {"admin", "models"} \cup Pages \cup Ids \cup Verbs
<1>1. CASE route.path \in {<<"admin", "models", p>> : p \in Pages}
  <2>1. PICK p \in Pages : route.path = <<"admin", "models", p>>
    BY <1>1
  <2>2. "admin" \in W /\ "models" \in W /\ p \in W
    OBVIOUS
  <2> HIDE DEF W, Pages
  <2>3. /\ <<"admin", "models", p>> \in Seq(W)
        /\ Len(<<"admin", "models", p>>) >= 1 /\ <<"admin", "models", p>>[1] = "admin"
    BY <2>2
  <2> QED  BY <2>1, <2>3, AdminLevel
<1>2. CASE route.path \in {<<"admin", "models", p, i>> : p \in Pages, i \in Ids}
  <2>1. PICK p \in Pages, i \in Ids : route.path = <<"admin", "models", p, i>>
    BY <1>2
  <2>2. "admin" \in W /\ "models" \in W /\ p \in W /\ i \in W
    OBVIOUS
  <2> HIDE DEF W, Pages, Ids
  <2>3. /\ <<"admin", "models", p, i>> \in Seq(W)
        /\ Len(<<"admin", "models", p, i>>) >= 1 /\ <<"admin", "models", p, i>>[1] = "admin"
    BY <2>2
  <2> QED  BY <2>1, <2>3, AdminLevel
<1>3. CASE route.path \in {<<"admin", "models", p, i, v>> : p \in Pages, i \in Ids, v \in Verbs}
  <2>1. PICK p \in Pages, i \in Ids, v \in Verbs : route.path = <<"admin", "models", p, i, v>>
    BY <1>3
  <2>2. "admin" \in W /\ "models" \in W /\ p \in W /\ i \in W /\ v \in W
    OBVIOUS
  <2> HIDE DEF W, Pages, Ids, Verbs
  <2>3. /\ <<"admin", "models", p, i, v>> \in Seq(W)
        /\ Len(<<"admin", "models", p, i, v>>) >= 1
        /\ <<"admin", "models", p, i, v>>[1] = "admin"
    BY <2>2
  <2> QED  BY <2>1, <2>3, AdminLevel
<1>4. CASE route \in AdminListRoutes \cup PolicyRoutes
  <2>1. route.path \in {<<"admin", "models", p>> : p \in Pages}
    BY <1>4 DEF AdminListRoutes, PolicyRoutes, At
  <2> QED  BY <1>1, <2>1
<1>5. CASE route \in StatusRoutes \cup HealthRoutes
  <2>1. route.path \in {<<"admin", "models", p, i, v>> : p \in Pages, i \in Ids, v \in Verbs}
    BY <1>5 DEF StatusRoutes, HealthRoutes, At
  <2> QED  BY <1>3, <2>1
<1>6. CASE route \in LifecycleRoutes
  <2>1. \/ route.path \in {<<"admin", "models", p, i>> : p \in Pages, i \in Ids}
        \/ route.path \in {<<"admin", "models", p, i, v>> : p \in Pages, i \in Ids, v \in Verbs}
    BY <1>6 DEF LifecycleRoutes, At
  <2> QED  BY <1>2, <1>3, <2>1
<1> QED  BY <1>4, <1>5, <1>6

\* The routes by the level they have.
LEMMA LevelsOfRoutes ==
  ASSUME NEW route \in HttpSurface
  PROVE  \/ /\ Level[route] = "public" /\ route.path[1] \in {"healthz", "metrics", "readyz"}
            /\ route \in ProbeRoutes \/ route.path = <<"readyz">>
         \/ Level[route] = "admin" /\ route.path[1] = "admin"
         \/ Level[route] = "web-bff" /\ route.path[1] = "bff"
         \/ Level[route] = DefaultLevel /\ route.path[1] \in Internal
<1>1. Level[route] = LevelOf(route.path)
  BY DEF Level, Routes
<1>2. CASE route \in ProbeRoutes
  <2>1. route.path \in {<<"healthz">>, <<"metrics">>}
    BY <1>2 DEF ProbeRoutes, At
  <2> QED  BY <1>1, <1>2, <2>1, OpenLevel
<1>3. CASE route \in TargetRoutes /\ route.path = <<"readyz">>
  BY <1>1, <1>3, OpenLevel
<1>4. CASE route.path = <<"bff", "model-catalog">>
  BY <1>1, <1>4, CatalogLevel
<1>5. CASE route.path[1] \in Internal
  BY <1>1, <1>5, InternalLevel
<1>6. CASE route \in UNION {AdminListRoutes, PolicyRoutes, StatusRoutes, HealthRoutes,
                            LifecycleRoutes}
  BY <1>1, <1>6, AdminRoutes
<1>7. CASE route \in TargetRoutes
  <2>1. route.path = <<"readyz">> \/ route.path[1] \in Internal
    BY <1>7 DEF TargetRoutes, At, Internal
  <2> QED  BY <1>3, <1>5, <1>7, <2>1
<1>8. CASE route \in CatalogRoutes
  <2>1. route.path = <<"bff", "model-catalog">> \/ route.path[1] \in Internal
    BY <1>8 DEF CatalogRoutes, At, Internal
  <2> QED  BY <1>4, <1>5, <2>1
<1>9. CASE route \in UNION {ProviderAccountRoutes, EnsureRoutes, BindingRoutes}
  <2>1. route.path[1] \in Internal
    BY <1>9 DEF ProviderAccountRoutes, EnsureRoutes, BindingRoutes, At, Internal
  <2> QED  BY <1>5, <2>1
<1> QED  BY <1>2, <1>6, <1>7, <1>8, <1>9 DEF HttpSurface

-----------------------------------------------------------------------------
(* The invariant.                                                          *)

\* A shutdown past its close has seen every connection end, nothing arrives any
\* more, and a client of the process is closed by such a shutdown only.
ClosedInOrder ==
  /\ \A s \in Signals :
       shutdown[s] \in {"quitting", "disconnecting", "done"} => attached = {}
  /\ open # {"redis", "postgresql"} =>
       \E s \in Signals : shutdown[s] \in {"disconnecting", "done"}
  /\ phase = "stopped" => \E s \in Signals : shutdown[s] = "done"

\* What is known of a request that waits for its method or its invalidation.
RequestInv(r) ==
  /\ r.stage \in {"refused", "called"} => ~r.changed
  /\ r.stage = "called" => ParamsAccepted(r.route)
  /\ r.stage = "sweeping" => r.status \in {200, 404} /\ (r.changed => r.status = 200)
  /\ r.stage = "answered" =>
       /\ r.status = 200 /\ r.changed => r.swept
       /\ r.status \in 400 .. 499 => ~r.changed

IInv ==
  /\ TypeOK
  /\ ClosedInOrder
  /\ \A c \in Clients : request[c] # Null => RequestInv(request[c])

-----------------------------------------------------------------------------
\* The one route whose method writes and is not wrapped is never entered: its
\* schema asks for a parameter its path does not have.
LEMMA OnlyHealthIsUnwrapped ==
  ASSUME NEW route \in Routes, route.calls = "setProviderHealthStatus"
  PROVE  ~ParamsAccepted(route)
<1>1. route \in HealthRoutes
  <2>1. \A r \in ProbeRoutes \cup TargetRoutes \cup ProviderAccountRoutes \cup EnsureRoutes :
          r.calls # "setProviderHealthStatus"
    BY DEF ProbeRoutes, TargetRoutes, ProviderAccountRoutes, EnsureRoutes, At
  <2>2. \A r \in CatalogRoutes \cup BindingRoutes \cup AdminListRoutes :
          r.calls # "setProviderHealthStatus"
    BY DEF CatalogRoutes, BindingRoutes, AdminListRoutes, At
  <2>3. \A r \in PolicyRoutes \cup StatusRoutes \cup LifecycleRoutes \cup RpcSurface :
          r.calls # "setProviderHealthStatus"
    BY DEF PolicyRoutes, StatusRoutes, LifecycleRoutes, RpcSurface, At
  <2> QED  BY <2>1, <2>2, <2>3 DEF Routes, HttpSurface
<1>2. /\ route.params = {":providerAccountId"}
      /\ route.path = <<"admin", "models", "provider-accounts", ":id", "health">>
  BY <1>1 DEF HealthRoutes, At, AccountId
<1>3. ":providerAccountId" \notin ParamsOf(route.path)
  <2>1. \A i \in DOMAIN route.path : route.path[i] # ":providerAccountId"
    BY <1>2
  <2> QED  BY <2>1 DEF ParamsOf
<1>4. route.params # Null /\ ~(route.params \subseteq ParamsOf(route.path))
  BY <1>2, <1>3, RoutesAssumption DEF AccountId
<1> QED  BY <1>4 DEF ParamsAccepted

LEMMA StatusTyped ==
  ASSUME NEW route, NEW outcome
  PROVE  StatusOf(route, outcome) \in Statuses \ {401, 403}
BY DEF StatusOf, Statuses

\* The status of a request that is turned away is one of the service's; one that
\* is not has met no refusal and has its parameters.
LEMMA EarlyTyped ==
  ASSUME NEW route, NEW plain, NEW caller, NEW genuine, NEW valid
  PROVE  LET early == EarlyStatus(route, plain, caller, genuine, valid) IN
         /\ early \subseteq {400, 401, 403, 503}
         /\ early = {} => RefusalOf(route, plain, caller, genuine) = {} /\ ParamsAccepted(route)
<1>1. RefusalOf(route, plain, caller, genuine) \subseteq {401, 403, 503}
  BY DEF RefusalOf, Refusal, Unauthorized, Forbidden, NotConfigured
<1> QED  BY <1>1 DEF EarlyStatus

-----------------------------------------------------------------------------
(* One lemma per action that moves a request.                              *)

\* What IInv says of the other clients is left alone by a step of one, and only
\* a process that does not drain gets a connection by it.
RequestStep(c) ==
  /\ request' = [request EXCEPT ![c] = request'[c]]
  /\ request'[c] \in Request /\ RequestInv(request'[c])
  /\ attached' \in {attached, attached \cup {c}} /\ (Draining => attached' = attached)
  /\ UNCHANGED <<config, phase, shutdown, open, redis>>

\* What a request arrives as.
LEMMA Received ==
  ASSUME IInv, NEW c \in Clients, Receive(c)
  PROVE  \E route \in Surface, caller \in Named, plain, genuine, valid \in BOOLEAN :
           request' = [request EXCEPT ![c] = Arrival(route, plain, caller,
                         EarlyStatus(route, plain, caller, genuine, valid))]
BY Zenon DEF Receive

LEMMA ReceiveInv ==
  ASSUME IInv, NEW c \in Clients, Receive(c)
  PROVE  RequestStep(c)
<1>1. PICK route \in Surface, caller \in Named, plain, genuine, valid \in BOOLEAN :
        request' = [request EXCEPT ![c] = Arrival(route, plain, caller,
                      EarlyStatus(route, plain, caller, genuine, valid))]
  BY Received
<1> DEFINE early == EarlyStatus(route, plain, caller, genuine, valid)
<1>2. request'[c] = Arrival(route, plain, caller, early)
  BY <1>1 DEF IInv, TypeOK
<1>3. early \subseteq Statuses /\ (early = {} => ParamsAccepted(route))
  BY EarlyTyped DEF Statuses
<1>4. route \in Offered
  BY DEF Surface
<1> HIDE DEF early
<1>5. request'[c] \in Request
  BY <1>2, <1>3, <1>4 DEF Arrival, Request
<1>6. RequestInv(request'[c])
  BY <1>2, <1>3 DEF Arrival, RequestInv
<1>7. request' = [request EXCEPT ![c] = request'[c]]
  <2>1. \E r : request' = [request EXCEPT ![c] = r]
    BY <1>1
  <2>2. c \in DOMAIN request
    BY DEF IInv, TypeOK
  <2> QED  BY <2>1, <2>2
<1>8. /\ attached' = attached \cup {c} /\ (Draining => attached' = attached)
      /\ UNCHANGED <<config, phase, shutdown, open, redis>>
  BY DEF Receive
<1> QED  BY <1>5, <1>6, <1>7, <1>8 DEF RequestStep

LEMMA MethodEndsInv ==
  ASSUME IInv, NEW c \in Clients, MethodEnds(c)
  PROVE  RequestStep(c)
<1> DEFINE r == request[c]
<1>1. r \in Request /\ r.stage = "called" /\ RequestInv(r)
  BY DEF IInv, TypeOK, MethodEnds, InFlight
<1>2. PICK outcome \in Outcomes(r.route.calls), changed \in BOOLEAN :
        /\ changed => r.route.calls \in Writing /\ outcome \in {"value", "failed"}
        /\ request' = [request EXCEPT ![c] =
             IF r.route.calls \in Wrapped /\ outcome \in {"value", "null"}
             THEN [r EXCEPT !.stage = "sweeping", !.changed = changed,
                            !.status = StatusOf(r.route, outcome)]
             ELSE [Finish(c, StatusOf(r.route, outcome)) EXCEPT !.changed = changed]]
  BY DEF MethodEnds
<1>3. r.route.calls # "setProviderHealthStatus"
  <2>1. ParamsAccepted(r.route) /\ r.route \in Routes
    BY <1>1, ServerAssumption DEF RequestInv, Request
  <2> QED  BY <2>1, OnlyHealthIsUnwrapped
<1>4. changed => r.route.calls \in Wrapped
  BY <1>2, <1>3 DEF Writing, Wrapped
<1> DEFINE st == StatusOf(r.route, outcome)
<1>5. st \in Statuses
  BY StatusTyped
<1>6. /\ outcome = "value" => st = 200
      /\ outcome = "null" => st = 404
      /\ outcome = "failed" => st = 500
  BY DEF StatusOf
<1> HIDE DEF st
<1>7. CASE r.route.calls \in Wrapped /\ outcome \in {"value", "null"}
  <2>1. request'[c] = [r EXCEPT !.stage = "sweeping", !.changed = changed, !.status = st]
    BY <1>2, <1>7 DEF IInv, TypeOK, st
  <2>2. request'[c] \in Request
    BY <2>1, <1>1, <1>5 DEF Request
  <2>3. /\ request'[c].stage = "sweeping" /\ request'[c].status = st
        /\ request'[c].changed = changed
    BY <2>1, <1>1 DEF Request
  <2>4. RequestInv(request'[c])
    BY <2>3, <1>2, <1>6, <1>7 DEF RequestInv
  <2> QED  BY <2>1, <2>2, <2>4, <1>2, <1>7 DEF RequestStep, MethodEnds, IInv, TypeOK
<1>8. CASE ~(r.route.calls \in Wrapped /\ outcome \in {"value", "null"})
  <2>1. request'[c] = [r EXCEPT !.stage = "answered", !.status = st, !.changed = changed]
    BY <1>2, <1>8 DEF IInv, TypeOK, st, Finish
  <2>2. request'[c] \in Request
    BY <2>1, <1>1, <1>5 DEF Request
  <2>3. /\ request'[c].stage = "answered" /\ request'[c].status = st
        /\ request'[c].changed = changed
    BY <2>1, <1>1 DEF Request
  <2>4. changed => st = 500
    BY <1>2, <1>4, <1>6, <1>8
  <2>5. RequestInv(request'[c])
    BY <2>3, <2>4 DEF RequestInv
  <2> QED  BY <2>1, <2>2, <2>5, <1>2, <1>8 DEF RequestStep, MethodEnds, IInv, TypeOK
<1> QED  BY <1>7, <1>8

LEMMA SweepInv ==
  ASSUME IInv, NEW c \in Clients, Sweep(c)
  PROVE  RequestStep(c)
<1> DEFINE r == request[c]
<1>1. r \in Request /\ r.stage = "sweeping" /\ RequestInv(r)
  BY DEF IInv, TypeOK, Sweep, InFlight
<1>2. CASE request' = [request EXCEPT ![c] = [Finish(c, @.status) EXCEPT !.swept = TRUE]]
  <2>1. request'[c] = [r EXCEPT !.stage = "answered", !.swept = TRUE]
    BY <1>1, <1>2 DEF IInv, TypeOK, Finish, Request
  <2>2. request'[c] \in Request
    BY <2>1, <1>1 DEF Request
  <2>3. RequestInv(request'[c])
    BY <2>1, <1>1 DEF RequestInv, Request
  <2> QED  BY <2>1, <2>2, <2>3, <1>2 DEF RequestStep, Sweep, IInv, TypeOK
<1>3. CASE request' = [request EXCEPT ![c] = Finish(c, StatusOf(@.route, "failed"))]
  <2> DEFINE st == StatusOf(r.route, "failed")
  <2>1. st = 500
    BY DEF StatusOf
  <2>2. st \in Statuses
    BY StatusTyped
  <2>3. request' = [request EXCEPT ![c] = Finish(c, st)]
    BY <1>3
  <2> HIDE DEF st
  <2>4. request'[c] = [r EXCEPT !.stage = "answered", !.status = st]
    BY <2>3 DEF IInv, TypeOK, Finish
  <2>5. request'[c] \in Request
    BY <2>4, <2>2, <1>1 DEF Request
  <2>6. RequestInv(request'[c])
    BY <2>4, <2>1, <1>1 DEF RequestInv, Request
  <2>7. request' = [request EXCEPT ![c] = request'[c]]
    BY <2>3 DEF IInv, TypeOK
  <2> QED  BY <2>5, <2>6, <2>7 DEF RequestStep, Sweep
<1> QED  BY <1>2, <1>3 DEF Sweep

-----------------------------------------------------------------------------
(* The invariant, action by action.                                        *)

LEMMA RequestStepInv ==
  ASSUME IInv, NEW c \in Clients, RequestStep(c)
  PROVE  IInv'
<1>1. request' \in [Clients -> Request \cup {Null}] /\ attached' \subseteq Clients
  BY DEF IInv, TypeOK, RequestStep
<1>2. TypeOK'
  BY <1>1 DEF IInv, TypeOK, RequestStep
<1>3. ClosedInOrder'
  BY DEF IInv, ClosedInOrder, RequestStep, Draining
<1>4. ASSUME NEW d \in Clients, request'[d] # Null PROVE RequestInv(request'[d])
  <2>1. CASE d = c
    BY <2>1 DEF RequestStep
  <2>2. CASE d # c
    <3>1. request'[d] = request[d]
      BY <2>2 DEF RequestStep, IInv, TypeOK
    <3> QED  BY <3>1, <1>4 DEF IInv
  <2> QED  BY <2>1, <2>2
<1> QED  BY <1>2, <1>3, <1>4 DEF IInv

LEMMA InitInv == Init => IInv
<1> SUFFICES ASSUME Init PROVE IInv
  OBVIOUS
<1>1. TypeOK
  BY DEF Init, TypeOK
<1>2. ClosedInOrder
  BY DEF Init, ClosedInOrder, Signals
<1>3. \A c \in Clients : request[c] = Null
  BY DEF Init
<1> QED  BY <1>1, <1>2, <1>3 DEF IInv

LEMMA NextInv == IInv /\ [Next]_vars => IInv'
<1> SUFFICES ASSUME IInv, [Next]_vars PROVE IInv'
  OBVIOUS
<1> USE DEF Signals
<1>1. ASSUME NEW c \in Clients, Receive(c) PROVE IInv'
  BY <1>1, ReceiveInv, RequestStepInv
<1>2. ASSUME NEW c \in Clients, MethodEnds(c) PROVE IInv'
  BY <1>2, MethodEndsInv, RequestStepInv
<1>3. ASSUME NEW c \in Clients, Sweep(c) PROVE IInv'
  BY <1>3, SweepInv, RequestStepInv
<1>4. ASSUME UNCHANGED request, TypeOK', ClosedInOrder' PROVE IInv'
  BY <1>4 DEF IInv
<1>5. CASE Start
  <2>1. TypeOK' /\ ClosedInOrder'
    BY <1>5 DEF Start, IInv, TypeOK, ClosedInOrder
  <2> QED  BY <2>1, <1>4, <1>5 DEF Start
<1>6. CASE Stop
  <2>1. TypeOK' /\ ClosedInOrder'
    BY <1>6 DEF Stop, IInv, TypeOK, ClosedInOrder, Draining
  <2> QED  BY <2>1, <1>4, <1>6 DEF Stop
<1>7. CASE RedisTurns
  <2>1. TypeOK' /\ ClosedInOrder'
    BY <1>7 DEF RedisTurns, IInv, TypeOK, ClosedInOrder
  <2> QED  BY <2>1, <1>4, <1>7 DEF RedisTurns
<1>8. ASSUME NEW c \in Clients, HangUp(c) PROVE IInv'
  <2>1. TypeOK' /\ ClosedInOrder'
    BY <1>8 DEF HangUp, IInv, TypeOK, ClosedInOrder
  <2> QED  BY <2>1, <1>4, <1>8 DEF HangUp
<1>9. ASSUME NEW s \in Signals, Signal(s) PROVE IInv'
  <2>1. TypeOK' /\ ClosedInOrder'
    BY <1>9 DEF Signal, IInv, TypeOK, ClosedInOrder
  <2> QED  BY <2>1, <1>4, <1>9 DEF Signal
<1>10. ASSUME NEW s \in Signals, Closed(s) PROVE IInv'
  <2>1. TypeOK' /\ ClosedInOrder'
    BY <1>10 DEF Closed, IInv, TypeOK, ClosedInOrder
  <2> QED  BY <2>1, <1>4, <1>10 DEF Closed
<1>11. ASSUME NEW s \in Signals, Quit(s) PROVE IInv'
  <2>1. TypeOK' /\ ClosedInOrder'
    BY <1>11 DEF Quit, IInv, TypeOK, ClosedInOrder
  <2> QED  BY <2>1, <1>4, <1>11 DEF Quit
<1>12. ASSUME NEW s \in Signals, Disconnect(s) PROVE IInv'
  <2>1. TypeOK' /\ ClosedInOrder'
    BY <1>12 DEF Disconnect, IInv, TypeOK, ClosedInOrder
  <2> QED  BY <2>1, <1>4, <1>12 DEF Disconnect
<1>13. CASE UNCHANGED vars
  <2>1. TypeOK' /\ ClosedInOrder'
    BY <1>13 DEF vars, IInv, TypeOK, ClosedInOrder
  <2> QED  BY <2>1, <1>4, <1>13 DEF vars
<1> QED
  BY <1>1, <1>2, <1>3, <1>5, <1>6, <1>7, <1>8, <1>9, <1>10, <1>11, <1>12, <1>13 DEF Next

-----------------------------------------------------------------------------
\* Every request and every stage of a shutdown keeps its type; in particular
\* no request is answered a status the service does not have.
THEOREM TypeCorrect == Spec => []TypeOK
<1>1. IInv => TypeOK
  BY DEF IInv
<1> QED  BY InitInv, NextInv, <1>1, PTL DEF Spec

\* 200 after a change means that the cached routes were deleted after it, and 4xx
\* that no route has changed.
THEOREM AnswersTruthful == Spec => []AnswersTellTheTruth
<1>1. IInv => AnswersTellTheTruth
  BY DEF IInv, RequestInv, AnswersTellTheTruth
<1> QED  BY InitInv, NextInv, <1>1, PTL DEF Spec

\* No handler whose client waits is left without Redis or PostgreSQL, whichever
\* signals are being handled: close() waits for the client's connection.
THEOREM HandlersKeepTheirConnections == Spec => []ConnectionsOutliveHandlers
<1>1. IInv => ConnectionsOutliveHandlers
  BY DEF IInv, ClosedInOrder, ConnectionsOutliveHandlers, Awaited
<1> QED  BY InitInv, NextInv, <1>1, PTL DEF Spec

-----------------------------------------------------------------------------
(* Who gets in.                                                            *)

\* A server that serves was started with the secrets it requires, and a request
\* that was let through met no refusal.
LetIn(c) ==
  /\ request[c].route \in Surface
  /\ \E genuine \in BOOLEAN :
       RefusalOf(request[c].route, request[c].plain, request[c].caller, genuine) = {}

AccessInv ==
  /\ phase = "serving" /\ config.surface = "http" =>
       MissingCallers(config.secrets, config.production, RequiredCallers) = {}
  /\ \A c \in Clients : Admitted(c) => LetIn(c)

LEMMA NextAccess ==
  ASSUME IInv, AccessInv, [Next]_vars
  PROVE  AccessInv'
<1>1. config' = config
  BY DEF Next, vars, Start, Stop, RedisTurns, Receive, HangUp, MethodEnds, Sweep, Signal,
     Closed, Quit, Disconnect
<1>3. (phase = "serving" /\ config.surface = "http" =>
         MissingCallers(config.secrets, config.production, RequiredCallers) = {})'
  BY <1>1
  DEF AccessInv, Next, vars, Start, Stop, RedisTurns, Receive, HangUp, MethodEnds, Sweep,
      Signal, Closed, Quit, Disconnect
<1>4. ASSUME NEW c \in Clients, Admitted(c)',
             request'[c] = request[c]
             \/ /\ Admitted(c)
                /\ request'[c].route = request[c].route /\ request'[c].caller = request[c].caller
                /\ request'[c].plain = request[c].plain
             \/ /\ request'[c].route \in Surface
                /\ \E genuine \in BOOLEAN :
                     RefusalOf(request'[c].route, request'[c].plain, request'[c].caller,
                               genuine) = {}
      PROVE  LetIn(c)'
  BY <1>1, <1>4 DEF AccessInv, Admitted, LetIn, RefusalOf, Surface
<1>5. ASSUME NEW c \in Clients, Admitted(c)', UNCHANGED request
      PROVE  request'[c] = request[c]
  BY <1>5
<1>6. ASSUME NEW c \in Clients, NEW d \in Clients, d # c,
             Receive(c) \/ MethodEnds(c) \/ Sweep(c)
      PROVE  request'[d] = request[d]
  BY <1>6 DEF Receive, MethodEnds, Sweep, IInv, TypeOK
<1>7. ASSUME NEW c \in Clients, Receive(c), Admitted(c)'
      PROVE  /\ request'[c].route \in Surface
             /\ \E genuine \in BOOLEAN :
                  RefusalOf(request'[c].route, request'[c].plain, request'[c].caller,
                            genuine) = {}
  <2>1. PICK route \in Surface, caller \in Named, plain, genuine, valid \in BOOLEAN :
          request' = [request EXCEPT ![c] = Arrival(route, plain, caller,
                        EarlyStatus(route, plain, caller, genuine, valid))]
    BY <1>7, Received
  <2> DEFINE early == EarlyStatus(route, plain, caller, genuine, valid)
  <2>2. /\ request'[c].route = route /\ request'[c].caller = caller
        /\ request'[c].plain = plain
        /\ request'[c].stage = IF early = {} THEN "called" ELSE "refused"
    <3>1. request'[c] = Arrival(route, plain, caller, early)
      BY <2>1 DEF IInv, TypeOK
    <3> HIDE DEF early
    <3> QED  BY <3>1 DEF Arrival
  <2>3. early = {}
    <3> HIDE DEF early
    <3> QED  BY <1>7, <2>2 DEF Admitted
  <2>4. RefusalOf(route, plain, caller, genuine) = {}
    BY <2>3, EarlyTyped
  <2> QED  BY <2>2, <2>4
<1>8. ASSUME NEW c \in Clients, MethodEnds(c) \/ Sweep(c)
      PROVE  /\ Admitted(c)
             /\ request'[c].route = request[c].route /\ request'[c].caller = request[c].caller
             /\ request'[c].plain = request[c].plain
  <2>1. request \in [Clients -> Request \cup {Null}] /\ c \in InFlight
    BY <1>8 DEF IInv, TypeOK, MethodEnds, Sweep
  <2>2. request[c] \in Request /\ Admitted(c)
    BY <2>1 DEF InFlight, Admitted
  <2>3. CASE MethodEnds(c)
    <3> DEFINE route == request[c].route
    <3>1. PICK outcome \in Outcomes(route.calls), changed \in BOOLEAN :
            request' = [request EXCEPT ![c] =
              IF route.calls \in Wrapped /\ outcome \in {"value", "null"}
              THEN [request[c] EXCEPT !.stage = "sweeping", !.changed = changed,
                                      !.status = StatusOf(route, outcome)]
              ELSE [Finish(c, StatusOf(route, outcome)) EXCEPT !.changed = changed]]
      BY <2>3 DEF MethodEnds
    <3>2. request'[c] =
            IF route.calls \in Wrapped /\ outcome \in {"value", "null"}
            THEN [request[c] EXCEPT !.stage = "sweeping", !.changed = changed,
                                    !.status = StatusOf(route, outcome)]
            ELSE [Finish(c, StatusOf(route, outcome)) EXCEPT !.changed = changed]
      BY <2>1, <3>1
    <3> QED  BY <2>2, <3>2 DEF Finish, Request
  <2>4. CASE Sweep(c)
    <3>1. \/ request'[c] = [Finish(c, request[c].status) EXCEPT !.swept = TRUE]
          \/ request'[c] = Finish(c, StatusOf(request[c].route, "failed"))
      BY <2>1, <2>4 DEF Sweep
    <3> QED  BY <2>2, <3>1 DEF Finish, Request
  <2> QED  BY <1>8, <2>2, <2>3, <2>4
<1>9. ASSUME NEW c \in Clients, Admitted(c)'
      PROVE  LetIn(c)'
  <2>1. \/ UNCHANGED request
        \/ \E d \in Clients : Receive(d) \/ MethodEnds(d) \/ Sweep(d)
    BY DEF Next, vars, Start, Stop, RedisTurns, HangUp, Signal, Closed, Quit, Disconnect
  <2> QED  BY <1>4, <1>5, <1>6, <1>7, <1>8, <1>9, <2>1
<1> QED  BY <1>3, <1>9 DEF AccessInv

LEMMA Access == Spec => [](IInv /\ AccessInv)
<1>1. Init => AccessInv
  BY DEF Init, AccessInv, Admitted
<1>2. IInv /\ AccessInv /\ [Next]_vars => AccessInv'
  BY NextAccess
<1> QED  BY InitInv, NextInv, <1>1, <1>2, PTL DEF Spec

\* Whatever a deployment configures: under /admin, spelled as it is registered, is
\* admin alone, in the catalogue of the web web-bff alone; and web-bff, however it
\* spells an url, gets to nothing but that catalogue and the probes.
THEOREM CallersKeepTheirLayers == Spec => []CallersStayInTheirLayer
<1>1. ASSUME IInv, AccessInv
      PROVE  CallersStayInTheirLayer
  <2> SUFFICES ASSUME NEW c \in Clients, Admitted(c), config.surface = "http"
               PROVE  LET path == request[c].route.path
                          caller == request[c].caller
                      IN /\ request[c].plain /\ path[1] = "admin" => caller = "admin"
                         /\ request[c].plain /\ path[1] = "bff" => caller = "web-bff"
                         /\ caller = "web-bff" =>
                              \/ path[1] = "bff"
                              \/ request[c].route \in ProbeRoutes \/ path = <<"readyz">>
    BY DEF CallersStayInTheirLayer
  <2> DEFINE route == request[c].route
             caller == request[c].caller
             plain == request[c].plain
             seen == LevelSeen(route, plain)
  <2>1. PICK genuine \in BOOLEAN : RefusalOf(route, plain, caller, genuine) = {}
    BY <1>1 DEF AccessInv, LetIn
  <2>2. route \in HttpSurface
    BY <1>1 DEF AccessInv, LetIn, Surface
  <2>3. Refusal(seen, config.secrets, caller, genuine) = {}
    BY <2>1 DEF RefusalOf
  <2>4. seen # "public" => caller \in AllowedCallers(seen)
    <3> HIDE DEF seen
    <3> QED  BY <2>3 DEF Refusal, NotConfigured, Unauthorized, Forbidden
  <2> HIDE DEF route, caller, plain
  <2>5. CASE plain
    <3>1. Level[route] # "public" => caller \in AllowedCallers(Level[route])
      BY <2>4, <2>5 DEF LevelSeen
    <3>2. /\ route.path[1] = "admin" => caller = "admin"
          /\ route.path[1] = "bff" => caller = "web-bff"
          /\ caller = "web-bff" =>
               \/ route.path[1] = "bff" \/ route \in ProbeRoutes \/ route.path = <<"readyz">>
      BY <2>2, <3>1, LevelsOfRoutes
      DEF AllowedCallers, RuntimeInternalCallers, Internal, DefaultLevel
    <3> QED  BY <3>2 DEF route, caller
  <2>6. CASE ~plain
    <3>1. caller # "web-bff"
      BY <2>4, <2>6 DEF LevelSeen, DefaultLevel, AllowedCallers, RuntimeInternalCallers
    <3> QED  BY <2>6, <3>1 DEF plain, caller
  <2> QED  BY <2>5, <2>6
<1> QED  BY <1>1, Access, PTL

\* A production server that has started lets some caller into every route.
THEOREM ProductionIsReachable == Spec => []ProductionServesEveryRoute
<1>1. ASSUME AccessInv
      PROVE  ProductionServesEveryRoute
  <2> SUFFICES ASSUME config.surface = "http", config.production, phase = "serving",
                      NEW route \in Surface
               PROVE  \E caller \in config.secrets : RefusalOf(route, TRUE, caller, TRUE) = {}
    BY DEF ProductionServesEveryRoute
  <2>1. RequiredCallers \subseteq config.secrets
    BY <1>1 DEF AccessInv, MissingCallers
  <2>2. route \in HttpSurface
    BY DEF Surface
  <2>3. ASSUME NEW caller \in {"agent", "admin", "web-bff"},
               Level[route] = "public" \/ caller \in AllowedCallers(Level[route])
        PROVE  \E c \in config.secrets : RefusalOf(route, TRUE, c, TRUE) = {}
    <3>1. caller \in config.secrets
      BY <2>1 DEF RequiredCallers
    <3>2. RefusalOf(route, TRUE, caller, TRUE) = {}
      BY <2>3, <3>1 DEF RefusalOf, Refusal, LevelSeen
    <3> QED  BY <3>1, <3>2
  <2> QED
    BY <2>2, <2>3, LevelsOfRoutes DEF AllowedCallers, RuntimeInternalCallers, DefaultLevel
<1> QED  BY <1>1, Access, PTL
-----------------------------------------------------------------------------
(* The parameters of the paths.                                            *)

\* Every other route has the parameter its schema asks for in its path.
LEMMA ParametersFit ==
  ASSUME NEW route \in Routes \ HealthRoutes
  PROVE  ParamsAccepted(route)
<1>1. route.params # Null =>
        \/ route.params = AccountId /\ \E i \in DOMAIN route.path : route.path[i] = ":providerAccountId"
        \/ route.params = BindingId /\ \E i \in DOMAIN route.path : route.path[i] = ":modelBindingId"
  <2>1. CASE route \in UNION {ProbeRoutes, TargetRoutes, EnsureRoutes, CatalogRoutes,
                              AdminListRoutes, PolicyRoutes, StatusRoutes, RpcSurface}
    <3>1. \A r \in ProbeRoutes \cup TargetRoutes \cup EnsureRoutes \cup CatalogRoutes :
            r.params = Null
      BY DEF ProbeRoutes, TargetRoutes, EnsureRoutes, CatalogRoutes, At
    <3>2. \A r \in AdminListRoutes \cup PolicyRoutes \cup StatusRoutes \cup RpcSurface :
            r.params = Null
      BY DEF AdminListRoutes, PolicyRoutes, StatusRoutes, RpcSurface, At
    <3> QED  BY <2>1, <3>1, <3>2
  <2>2. CASE route \in ProviderAccountRoutes
    BY <2>2 DEF ProviderAccountRoutes, At
  <2>3. CASE route \in BindingRoutes
    BY <2>3 DEF BindingRoutes, At
  <2>4. CASE route \in LifecycleRoutes
    BY <2>4 DEF LifecycleRoutes, At
  <2> QED  BY <2>1, <2>2, <2>3, <2>4 DEF Routes, HttpSurface
<1> QED  BY <1>1 DEF ParamsAccepted, ParamsOf, Parameters, AccountId, BindingId

\* The health action is the only one announced in vain: where nobody asks for it,
\* every action the admin contract announces is one that some request satisfies.
THEOREM HealthAloneIsAnnouncedInVain ==
  ASSUME HealthRoutes \cap Offered = {}
  PROVE  Spec => []AnnouncedActionsAreServed
<1>1. ASSUME TypeOK PROVE AnnouncedActionsAreServed
  <2> SUFFICES ASSUME NEW c \in Clients, request[c] # Null
               PROVE  ParamsAccepted(request[c].route)
    BY DEF AnnouncedActionsAreServed
  <2>1. request[c].route \in Offered
    BY <1>1 DEF TypeOK, Request
  <2> QED  BY <2>1, ParametersFit, ServerAssumption
<1> QED  BY <1>1, TypeCorrect, PTL
=============================================================================
