-------------------------- MODULE HttpServerProofs --------------------------
(***************************************************************************)
(* Proofs about HttpServer.tla, for any configurations, scopes, tasks and  *)
(* services and any number of servers.                                     *)
(*                                                                         *)
(* The invariant is stated of four values, the scopes, the listed servers, *)
(* the servers and the jobs, and not of the variables: the end of one      *)
(* closing and the beginning of the next thing the call does are one step  *)
(* of the code, and the invariant holds between them too.                  *)
(***************************************************************************)
EXTENDS HttpServer, BisectProofs, FunctionTheorems

(***************************************************************************)
(* The parts of the invariant.                                             *)
(***************************************************************************)
Phases == {"opening", "running", "closing", "closed", "failed"}

Calls == {"idle", "open", "update", "delete", "close"}

Servers(s) ==
    [scope : Scopes, phase : Phases, engine : {s[k].engine : k \in DOMAIN s}]

Jobs ==
    [op : Calls, pid : Pids, scope : Scopes, valid : BOOLEAN, server : Nat, left : Seq(Pids)]

ServersTyped(s) ==
    /\ s \in Seq(Servers(s))
    /\ \A k \in DOMAIN s : s[k].phase = "running" => "torn" \in DOMAIN s[k].engine

Types(sc, li, s, jo) ==
    /\ sc \in Seq(Scopes)
    /\ ServersTyped(s)
    /\ li \in [Pids -> 0 .. Len(s)]
    /\ jo \in [Tasks -> Jobs]
    /\ \A t \in Tasks :
         IF jo[t].op = "idle" THEN jo[t] = Idle ELSE jo[t].server \in 1 .. Len(s)

\* HandledByOne of the given values.
Handled(li, s, jo) ==
    /\ \A t \in Tasks :
         /\ jo[t].op = "open" => s[jo[t].server].phase = "opening"
         /\ jo[t].op \in {"update", "delete", "close"} => s[jo[t].server].phase = "closing"
    /\ \A t \in Tasks : \A u \in Tasks \ {t} :
         jo[t].op # "idle" => jo[t].server # jo[u].server
    /\ \A p \in Pids : li[p] # 0 =>
         /\ s[li[p]].phase = "running"
         /\ \A q \in Pids \ {p} : li[q] # li[p]

Places(sc, scope) == {i \in DOMAIN sc : sc[i] = scope}

Living(s, scope) == {k \in DOMAIN s : s[k].phase # "closed" /\ s[k].scope = scope}

\* ScopesCounted of the given values.
Counted(sc, s) ==
    \A scope \in Scopes : Cardinality(Places(sc, scope)) = Cardinality(Living(s, scope))

Good(sc, li, s, jo) == Types(sc, li, s, jo) /\ Handled(li, s, jo) /\ Counted(sc, s)

\* What holds while no two calls have overlapped: one call at most is in progress, no two
\* living servers have a scope, an update finds its scope free and its name unlisted when
\* it opens the server, and a running server is listed unless its routes did not bind.
Alone(li, s, jo) ==
    /\ \A t, u \in Tasks : jo[t].op # "idle" /\ jo[u].op # "idle" => t = u
    /\ \A k, l \in DOMAIN s :
         s[k].phase # "closed" /\ s[l].phase # "closed" /\ s[k].scope = s[l].scope => k = l
    /\ \A t \in Tasks : jo[t].op = "update" =>
         \A k \in DOMAIN s : s[k].phase # "closed" => s[k].scope # jo[t].scope
    /\ \A t \in Tasks : jo[t].op \in {"update", "open"} => li[jo[t].pid] = 0
    /\ \A k \in DOMAIN s : s[k].phase = "running" =>
         s[k].engine.torn \/ \E p \in Pids : li[p] = k

\* Once close was called: its loop comes to every name that is still listed.
Closing(li, jo) ==
    /\ \A t \in Tasks : jo[t].op \in {"idle", "close"}
    /\ \A p \in Pids : li[p] # 0 =>
         \E t \in Tasks : jo[t].op = "close" /\ p \in ToSet(jo[t].left)

\* The inductive invariant.
IInv ==
    /\ closed \in BOOLEAN /\ overlapped \in BOOLEAN
    /\ Good(scopes, listed, server, job)
    /\ ~overlapped => Alone(listed, server, job)
    /\ ~overlapped /\ closed => Closing(listed, job)

-----------------------------------------------------------------------------
(***************************************************************************)
(* What a server has bound: it is right for a set of services if it has    *)
(* their middlewares in order and, unless a binding raised, their routes.  *)
(***************************************************************************)
IsEngine(e) ==
    /\ e = [mws |-> e.mws, handlers |-> e.handlers, routes |-> e.routes, torn |-> e.torn]
    /\ e.mws \in Seq(Middlewares) /\ e.torn \in BOOLEAN

RoutesOf(handlers) == UNION {{r} \X Names(r) : r \in handlers}

RightFor(e, S) ==
    /\ IsEngine(e)
    /\ Ascending(e.mws, Len(e.mws))
    /\ Range(e.mws) = S \cap Middlewares
    /\ ~e.torn => e.handlers = S \cap Routes /\ e.routes = RoutesOf(S \cap Routes)

Seen(scope, S) == {s \in S : Matches(scope, s)}

\* Every server that runs is right for the services its trackers see.
Bound ==
    /\ registered \in SUBSET Services
    /\ \A k \in DOMAIN server : server[k].phase = "running" =>
         RightFor(server[k].engine, Seen(server[k].scope, registered))

LEMMA ServicesArePairs ==
    /\ Services \subseteq Int \X Int /\ IsFiniteSet(Services)
    /\ \A x, y \in Services : x = y \/ Less(x, y) \/ Less(y, x)
    /\ \A x \in Services : ~Less(x, x)
    /\ \A x, y \in Services : Less(x, y) => ~Less(y, x) /\ x # y
    /\ \A x, y, z \in Services : Less(x, y) /\ Less(y, z) => Less(x, z)
<1>1. Services \subseteq Int \X Int /\ IsFiniteSet(Services)
  BY ServerAssumption DEF Services
<1>2. \A x, y \in Int \X Int : x = y \/ Less(x, y) \/ Less(y, x)
  <2> SUFFICES ASSUME NEW x \in Int \X Int, NEW y \in Int \X Int
               PROVE  x = y \/ Less(x, y) \/ Less(y, x)
    OBVIOUS
  <2>1. x = <<x[1], x[2]>> /\ y = <<y[1], y[2]>>
    OBVIOUS
  <2>2. x[1] \in Int /\ x[2] \in Int /\ y[1] \in Int /\ y[2] \in Int
    OBVIOUS
  <2>3. CASE x[1] = y[1] /\ x[2] = y[2]
    BY <2>1, <2>3
  <2>4. CASE ~(x[1] = y[1] /\ x[2] = y[2])
    BY <2>2, <2>4 DEF Less
  <2> QED BY <2>3, <2>4
<1>3. \A x \in Int \X Int : ~Less(x, x)
  BY DEF Less
<1>4. \A x, y \in Int \X Int : Less(x, y) => ~Less(y, x)
  BY DEF Less
<1>5. \A x, y, z \in Int \X Int : Less(x, y) /\ Less(y, z) => Less(x, z)
  BY DEF Less
<1> QED BY <1>1, <1>2, <1>3, <1>4, <1>5

LEMMA Elements ==
    ASSUME NEW s \in Seq(Middlewares)
    PROVE  /\ Len(s) \in Nat /\ DOMAIN s = 1 .. Len(s)
           /\ \A i \in 1 .. Len(s) : s[i] \in Middlewares /\ s[i] \in Int \X Int
           /\ Range(s) = {s[i] : i \in 1 .. Len(s)} /\ ToSet(s) = Range(s)
<1>1. Len(s) \in Nat /\ DOMAIN s = 1 .. Len(s) /\ \A i \in 1 .. Len(s) : s[i] \in Middlewares
  BY LenProperties, ElementOfSeq
<1> QED BY <1>1, ServerAssumption DEF Range, ToSet

\* Middlewares.add and remove keep the list in order.
LEMMA MiddlewareAdded ==
    ASSUME NEW s \in Seq(Middlewares), Ascending(s, Len(s)), NEW m \in Middlewares,
           m \notin Range(s)
    PROVE  LET w == Inserted(s, m)
           IN  w \in Seq(Middlewares) /\ Ascending(w, Len(w)) /\ Range(w) = Range(s) \cup {m}
<1> DEFINE k == BisectLeft(s, m)
           n == Len(s)
           place == 1 + k
           w == InsertAt(s, place, m)
<1>1. /\ n \in Nat /\ \A i \in 1 .. n : s[i] \in Middlewares /\ s[i] \in Int \X Int
      /\ Range(s) = {s[i] : i \in 1 .. n}
  BY Elements
<1>2. /\ k \in 0 .. n
      /\ \A j \in 1 .. k : Less(s[j], m)
      /\ \A j \in k + 1 .. n : ~Less(s[j], m)
  <2>1. m \in Int \X Int
    BY ServerAssumption
  <2> QED BY <1>1, <2>1, BisectLeftDivides DEF Ascending
<1> HIDE DEF k
<1>3. \A j \in k + 1 .. n : Less(m, s[j])
  <2> SUFFICES ASSUME NEW j \in k + 1 .. n PROVE Less(m, s[j])
    OBVIOUS
  <2>1. j \in 1 .. n /\ ~Less(s[j], m)
    BY <1>2
  <2>2. s[j] # m /\ s[j] \in Services /\ m \in Services
    BY <1>1, <2>1 DEF Services
  <2> QED BY <2>1, <2>2, ServicesArePairs
<1>4. place \in 1 .. n + 1 /\ place = k + 1 /\ place - 1 = k
  BY <1>1, <1>2
<1> HIDE DEF place
<1>5. /\ w \in Seq(Middlewares) /\ Len(w) = n + 1
      /\ \A j \in 1 .. n + 1 :
           w[j] = IF j < place THEN s[j] ELSE IF j = place THEN m ELSE s[j - 1]
  BY <1>4, InsertAtProperties
<1>6. Range(w) = Range(s) \cup {m}
  BY <1>4, InsertAtRange
<1> HIDE DEF w
<1>7. Ascending(w, n + 1)
  <2>1. /\ \A j \in 1 .. place - 1 : Less(s[j], m)
        /\ \A j \in place .. n : Less(m, s[j])
    BY <1>2, <1>3, <1>4
  <2> QED BY <1>1, <1>4, <1>5, <2>1, InsertKeepsOrder
<1> QED BY <1>5, <1>6, <1>7 DEF Inserted, w, place, k

LEMMA MiddlewareRemoved ==
    ASSUME NEW s \in Seq(Middlewares), Ascending(s, Len(s)), NEW m \in Range(s)
    PROVE  LET w == Popped(s, m)
           IN  w \in Seq(Middlewares) /\ Ascending(w, Len(w)) /\ Range(w) = Range(s) \ {m}
<1> DEFINE n == Len(s)
<1>1. /\ n \in Nat /\ \A i \in 1 .. n : s[i] \in Middlewares /\ s[i] \in Int \X Int
      /\ Range(s) = {s[i] : i \in 1 .. n}
  BY Elements
<1>2. PICK i \in 1 .. n : s[i] = m
  BY <1>1
<1>3. BisectLeft(s, m) = i - 1
  BY <1>1, <1>2, BisectLeftFinds
<1>4. 1 + BisectLeft(s, m) = i
  BY <1>3
<1> DEFINE w == RemoveAt(s, i)
<1>5. /\ w \in Seq(Middlewares) /\ Len(w) = n - 1
      /\ \A j \in 1 .. n - 1 : w[j] = IF j < i THEN s[j] ELSE s[j + 1]
  BY RemoveAtProperties
<1>6. Range(w) = Range(s) \ {m}
  <2>1. ASSUME NEW j \in 1 .. n, NEW l \in 1 .. n, j < l PROVE s[j] # s[l]
    <3>1. Less(s[j], s[l]) /\ s[j] \in Services /\ s[l] \in Services
      BY <1>1, <2>1 DEF Ascending, Services
    <3> QED BY <3>1, ServicesArePairs
  <2>2. \A j, l \in 1 .. n : j # l => s[j] # s[l]
    BY <1>1, <2>1
  <2> QED BY <1>2, <2>2, RemoveAtRange
<1> HIDE DEF w
<1>7. Ascending(w, n - 1)
  BY <1>1, <1>5, RemoveKeepsOrder
<1> QED BY <1>4, <1>5, <1>6, <1>7 DEF Popped, w

-----------------------------------------------------------------------------
(***************************************************************************)
(* Each event keeps the engine right.                                      *)
(***************************************************************************)
LEMMA EngineBy ==
    ASSUME NEW mws \in Seq(Middlewares), NEW handlers, NEW routes, NEW torn \in BOOLEAN
    PROVE  IsEngine([mws |-> mws, handlers |-> handlers, routes |-> routes, torn |-> torn])
BY DEF IsEngine

\* Binding a view: all its routes are added, or the engine is torn.
LEMMA RoutesAdded ==
    ASSUME NEW S \in SUBSET Services, NEW e, RightFor(e, S), NEW r \in Routes
    PROVE  RightFor(bind_handler(e, r), S \cup {r})
<1> DEFINE b == bind_handler(e, r)
<1>0. /\ e = [mws |-> e.mws, handlers |-> e.handlers, routes |-> e.routes, torn |-> e.torn]
      /\ e.torn \in BOOLEAN /\ Conflicts(e, r) \in BOOLEAN
  BY DEF RightFor, IsEngine, Conflicts
<1>1. /\ b = [mws |-> e.mws, handlers |-> b.handlers, routes |-> b.routes, torn |-> b.torn]
      /\ b.routes = e.routes \cup ({r} \X Added(e, r))
      /\ b.handlers = (IF Conflicts(e, r) THEN e.handlers ELSE e.handlers \cup {r})
      /\ b.torn = (e.torn \/ Conflicts(e, r))
  <2> DEFINE routes == e.routes \cup ({r} \X Added(e, r))
             handlers == IF Conflicts(e, r) THEN e.handlers ELSE e.handlers \cup {r}
             torn == e.torn \/ Conflicts(e, r)
  <2>1. b = [e EXCEPT !.routes = routes, !.handlers = handlers, !.torn = torn]
    BY DEF bind_handler
  <2> HIDE DEF b, routes, handlers, torn
  <2>2. b = [mws |-> e.mws, handlers |-> handlers, routes |-> routes, torn |-> torn]
    BY <1>0, <2>1
  <2>3. /\ b.mws = e.mws /\ b.handlers = handlers /\ b.routes = routes /\ b.torn = torn
    BY <2>2
  <2> QED BY <2>2, <2>3 DEF handlers, routes, torn
<1>2. b.torn \in BOOLEAN /\ b.mws = e.mws
  <2>1. b.torn \in BOOLEAN
    BY <1>0, <1>1
  <2> QED BY <1>1, <2>1
<1> HIDE DEF b
<1>3. IsEngine(b)
  BY <1>1, <1>2 DEF RightFor, IsEngine
<1>4. (S \cup {r}) \cap Middlewares = S \cap Middlewares
  BY ServerAssumption
<1>5. ASSUME ~b.torn
      PROVE  b.handlers = (S \cup {r}) \cap Routes /\ b.routes = RoutesOf((S \cup {r}) \cap Routes)
  <2>1. ~e.torn /\ ~Conflicts(e, r)
    BY <1>1, <1>5
  <2>2. Added(e, r) = Names(r)
    <3>1. Views[r] \in Seq(ToSet(Views[r]))
      BY ServerAssumption
    <3>2. DOMAIN Views[r] = 1 .. Len(Views[r]) /\ Len(Views[r]) \in Nat
      BY <3>1, LenProperties
    <3>3. \A i \in DOMAIN Views[r] : \A j \in 1 .. i : j \in DOMAIN Views[r]
      BY <3>2
    <3>4. \A i \in DOMAIN Views[r] : Views[r][i] \notin Taken(e)
      BY <2>1 DEF Conflicts, Names, ToSet
    <3> QED BY <3>3, <3>4 DEF Added, Names, ToSet
  <2>3. (S \cup {r}) \cap Routes = (S \cap Routes) \cup {r}
    OBVIOUS
  <2>4. e.handlers = S \cap Routes /\ e.routes = RoutesOf(S \cap Routes)
    BY <2>1 DEF RightFor
  <2>5. RoutesOf((S \cap Routes) \cup {r}) = RoutesOf(S \cap Routes) \cup ({r} \X Names(r))
    BY DEF RoutesOf
  <2> QED BY <1>1, <2>1, <2>2, <2>3, <2>4, <2>5
<1>6. Ascending(b.mws, Len(b.mws)) /\ Range(b.mws) = (S \cup {r}) \cap Middlewares
  BY <1>2, <1>4 DEF RightFor
<1>7. RightFor(b, S \cup {r})
  BY <1>3, <1>5, <1>6 DEF RightFor
<1> QED BY <1>7 DEF b

LEMMA AddingIsRight ==
    ASSUME NEW S \in SUBSET Services, NEW e, RightFor(e, S), NEW s \in Services \ S
    PROVE  RightFor(on_adding_service(e, s), S \cup {s})
<1>1. CASE s \in Routes
  BY <1>1, RoutesAdded DEF on_adding_service
<1>2. CASE s \in Middlewares \ Routes
  <2> DEFINE b == add_middleware(e, s)
             w == Inserted(e.mws, s)
  <2>1. b = [mws |-> w, handlers |-> e.handlers, routes |-> e.routes, torn |-> e.torn]
    BY DEF add_middleware, RightFor, IsEngine
  <2>2. /\ e.mws \in Seq(Middlewares) /\ Ascending(e.mws, Len(e.mws)) /\ s \notin Range(e.mws)
        /\ Range(e.mws) = S \cap Middlewares
    BY DEF RightFor, IsEngine
  <2>3. w \in Seq(Middlewares) /\ Ascending(w, Len(w)) /\ Range(w) = Range(e.mws) \cup {s}
    BY <1>2, <2>2, MiddlewareAdded
  <2> HIDE DEF w, b
  <2>4. IsEngine(b)
    BY <2>1, <2>3 DEF RightFor, IsEngine
  <2>5. Range(w) = (S \cup {s}) \cap Middlewares /\ (S \cup {s}) \cap Routes = S \cap Routes
    BY <1>2, <2>2, <2>3
  <2>6. RightFor(b, S \cup {s})
    BY <2>1, <2>3, <2>4, <2>5 DEF RightFor
  <2> QED BY <1>2, <2>6 DEF on_adding_service, b
<1> QED BY <1>1, <1>2 DEF Services

LEMMA RemovedIsRight ==
    ASSUME NEW S \in SUBSET Services, NEW e, RightFor(e, S), NEW s \in S
    PROVE  RightFor(on_removed_service(e, s), S \ {s})
<1>1. CASE s \in Routes
  <2> DEFINE b == unbind_handler(e, s)
  <2>1. /\ IsEngine(b) /\ b.mws = e.mws /\ b.torn = e.torn
        /\ s \in e.handlers => /\ b.handlers = e.handlers \ {s}
                               /\ b.routes = e.routes \ ({s} \X Names(s))
    BY DEF unbind_handler, RightFor, IsEngine
  <2> HIDE DEF b
  <2>2. (S \ {s}) \cap Middlewares = S \cap Middlewares
    BY <1>1, ServerAssumption
  <2>3. ASSUME ~b.torn
        PROVE  b.handlers = (S \ {s}) \cap Routes /\ b.routes = RoutesOf((S \ {s}) \cap Routes)
    <3>1. e.handlers = S \cap Routes /\ e.routes = RoutesOf(S \cap Routes)
      BY <2>1, <2>3 DEF RightFor
    <3>2. s \in e.handlers /\ (S \ {s}) \cap Routes = (S \cap Routes) \ {s}
      BY <1>1, <3>1
    <3>3. RoutesOf((S \cap Routes) \ {s}) = RoutesOf(S \cap Routes) \ ({s} \X Names(s))
      BY DEF RoutesOf
    <3> QED BY <2>1, <3>1, <3>2, <3>3
  <2>4. RightFor(b, S \ {s})
    BY <2>1, <2>2, <2>3 DEF RightFor
  <2> QED BY <1>1, <2>4 DEF on_removed_service, b
<1>2. CASE s \in Middlewares \ Routes
  <2> DEFINE b == remove_middleware(e, s)
             w == Popped(e.mws, s)
  <2>1. b = [mws |-> w, handlers |-> e.handlers, routes |-> e.routes, torn |-> e.torn]
    BY DEF remove_middleware, RightFor, IsEngine
  <2>2. /\ e.mws \in Seq(Middlewares) /\ Ascending(e.mws, Len(e.mws)) /\ s \in Range(e.mws)
        /\ Range(e.mws) = S \cap Middlewares
    BY <1>2 DEF RightFor, IsEngine
  <2>3. w \in Seq(Middlewares) /\ Ascending(w, Len(w)) /\ Range(w) = Range(e.mws) \ {s}
    BY <2>2, MiddlewareRemoved
  <2>4. s \in ToSet(e.mws) \ Routes
    BY <1>2, <2>2, Elements
  <2> HIDE DEF w, b
  <2>5. IsEngine(b)
    BY <2>1, <2>3 DEF RightFor, IsEngine
  <2>6. Range(w) = (S \ {s}) \cap Middlewares /\ (S \ {s}) \cap Routes = S \cap Routes
    BY <1>2, <2>2, <2>3
  <2>7. RightFor(b, S \ {s})
    BY <2>1, <2>3, <2>5, <2>6 DEF RightFor
  <2> QED BY <1>2, <2>4, <2>7 DEF on_removed_service, b
<1> QED BY <1>1, <1>2 DEF Services

\* A view that is bound stays as it is, one that was refused is tried again.
LEMMA ModifiedIsRight ==
    ASSUME NEW S \in SUBSET Services, NEW e, RightFor(e, S), NEW s \in S
    PROVE  RightFor(on_modified_service(e, s), S)
<1>1. CASE s \in Routes \ e.handlers
  <2>1. S \cup {s} = S
    OBVIOUS
  <2>2. RightFor(bind_handler(e, s), S \cup {s})
    BY <1>1, RoutesAdded
  <2> QED BY <1>1, <2>1, <2>2 DEF on_modified_service
<1>2. CASE s \notin Routes \ e.handlers
  BY <1>2 DEF on_modified_service
<1> QED BY <1>1, <1>2

-----------------------------------------------------------------------------
(***************************************************************************)
(* Opening the trackers binds what is registered.                          *)
(***************************************************************************)
LEMMA ListOf ==
    ASSUME NEW S, NEW n \in Nat, NEW s \in [1 .. n -> S]
    PROVE  s \in Seq(S) /\ Len(s) = n
<1>1. s \in Seq(S)
  BY SeqDef
<1>2. Len(s) \in Nat /\ 1 .. Len(s) = 1 .. n
  BY <1>1, LenProperties
<1>3. Len(s) = n
  BY <1>2
<1> QED BY <1>1, <1>3

Ranking == {p \in Services \X Services : Less(p[1], p[2])}

LEMMA RankingOrders ==
    /\ Orders(Ranking, Services)
    /\ \A x, y \in Services : <<x, y>> \in Ranking <=> Less(x, y)
<1>1. \A x, y \in Services : <<x, y>> \in Ranking <=> Less(x, y)
  BY DEF Ranking
<1> QED BY <1>1, ServicesArePairs DEF Orders

LEMMA ByRankSorts ==
    ASSUME NEW S \in SUBSET Services
    PROVE  LET s == ByRank(S)
               n == Cardinality(S)
           IN  /\ n \in Nat /\ s \in [1 .. n -> S]
               /\ \A i, j \in 1 .. n : i < j => Less(s[i], s[j])
               /\ \A x \in S : \E i \in 1 .. n : s[i] = x
<1> DEFINE n == Cardinality(S)
           o == ByRank(S)
<1>1. IsFiniteSet(S) /\ n \in Nat
  BY ServicesArePairs, FS_Subset, FS_CardinalityType
<1>2. ASSUME NEW w \in [1 .. n -> S]
      PROVE  (\A i, j \in 1 .. n : i < j => Less(w[i], w[j])) <=> ByOrder(w, n, Ranking)
  <2>1. \A i \in 1 .. n : w[i] \in Services
    OBVIOUS
  <2> QED BY <2>1, RankingOrders DEF ByOrder
<1>3. \E w \in [1 .. n -> S] : \A i, j \in 1 .. n : i < j => Less(w[i], w[j])
  BY <1>1, <1>2, RankingOrders, SortedExists
<1>4. o \in [1 .. n -> S] /\ \A i, j \in 1 .. n : i < j => Less(o[i], o[j])
  BY <1>3 DEF ByRank
<1> HIDE DEF o
<1>5. \A x \in S : \E i \in 1 .. n : o[i] = x
  BY <1>1, <1>2, <1>4, RankingOrders, SortedHasAll
<1> QED BY <1>1, <1>4, <1>5 DEF o

\* Found lists what is seen, each service once and the routes last.
Lists(f, S) ==
    /\ f \in Seq(Services)
    /\ \A i \in 1 .. Len(f) : f[i] \in S
    /\ \A x \in S : \E i \in 1 .. Len(f) : f[i] = x
    /\ \A i, j \in 1 .. Len(f) : i < j => f[i] # f[j] /\ (f[i] \in Routes => f[j] \in Routes)

LEMMA FoundIsSeen ==
    ASSUME registered \in SUBSET Services, NEW scope
    PROVE  Lists(Found(scope), Seen(scope, registered))
<1> DEFINE A == {s \in registered \cap Middlewares : Matches(scope, s)}
           B == {s \in registered \cap Routes : Matches(scope, s)}
           a == ByRank(A)
           b == ByRank(B)
           f == a \o b
<1>1. /\ A \in SUBSET Services /\ B \in SUBSET Services /\ A \cap B = {}
      /\ Seen(scope, registered) = A \cup B
      /\ \A x \in A : x \notin Routes
      /\ \A x \in B : x \in Routes
  BY ServerAssumption DEF Services, Seen
<1>2. Found(scope) = f
  BY DEF Found
<1> HIDE DEF A, B
<1>3. PICK m \in Nat : /\ a \in [1 .. m -> A]
                       /\ \A i, j \in 1 .. m : i < j => Less(a[i], a[j])
                       /\ \A x \in A : \E i \in 1 .. m : a[i] = x
  BY <1>1, ByRankSorts
<1>4. PICK n \in Nat : /\ b \in [1 .. n -> B]
                       /\ \A i, j \in 1 .. n : i < j => Less(b[i], b[j])
                       /\ \A x \in B : \E i \in 1 .. n : b[i] = x
  BY <1>1, ByRankSorts
<1> HIDE DEF a, b
<1>5. a \in Seq(Services) /\ Len(a) = m /\ b \in Seq(Services) /\ Len(b) = n
  <2>1. a \in [1 .. m -> Services] /\ b \in [1 .. n -> Services]
    BY <1>1, <1>3, <1>4
  <2> QED BY <2>1, ListOf
<1>6. /\ f \in Seq(Services) /\ Len(f) = m + n
      /\ \A i \in 1 .. m + n : f[i] = IF i <= m THEN a[i] ELSE b[i - m]
  BY <1>5, ConcatProperties
<1> HIDE DEF f
<1>7. \A i \in 1 .. m + n : /\ i <= m => i \in 1 .. m /\ f[i] = a[i] /\ f[i] \in A
                            /\ i > m => i - m \in 1 .. n /\ f[i] = b[i - m] /\ f[i] \in B
  BY <1>3, <1>4, <1>6
<1>8. ASSUME NEW x \in A \cup B PROVE \E i \in 1 .. m + n : f[i] = x
  <2>1. CASE x \in A
    <3>1. PICK i \in 1 .. m : a[i] = x
      BY <1>3, <2>1
    <3>2. i \in 1 .. m + n /\ i <= m
      OBVIOUS
    <3> QED BY <1>6, <3>1, <3>2
  <2>2. CASE x \in B
    <3>1. PICK i \in 1 .. n : b[i] = x
      BY <1>4, <2>2
    <3>2. i + m \in 1 .. m + n /\ ~(i + m <= m) /\ (i + m) - m = i
      OBVIOUS
    <3> QED BY <1>6, <3>1, <3>2
  <2> QED BY <2>1, <2>2
<1>9. ASSUME NEW i \in 1 .. m + n, NEW j \in 1 .. m + n, i < j
      PROVE  f[i] # f[j] /\ (f[i] \in Routes => f[j] \in Routes)
  <2>1. CASE j <= m
    <3>1. Less(f[i], f[j]) /\ f[i] \in A /\ f[j] \in A
      BY <1>3, <1>7, <1>9, <2>1
    <3>2. f[i] \in Services /\ f[j] \in Services
      BY <1>1, <3>1
    <3> QED BY <1>1, <3>1, <3>2, ServicesArePairs
  <2>2. CASE i <= m /\ m < j
    BY <1>1, <1>7, <2>2
  <2>3. CASE m < i
    <3>1. i - m \in 1 .. n /\ j - m \in 1 .. n /\ i - m < j - m
          /\ f[i] = b[i - m] /\ f[j] = b[j - m] /\ f[i] \in B /\ f[j] \in B
      BY <1>7, <1>9, <2>3
    <3>2. Less(f[i], f[j])
      BY <1>4, <3>1
    <3>3. f[i] \in Services /\ f[j] \in Services
      BY <1>1, <3>1
    <3> QED BY <1>1, <3>1, <3>2, <3>3, ServicesArePairs
  <2> QED BY <1>9, <2>1, <2>2, <2>3
<1>10. \A i \in 1 .. m + n : f[i] \in A \cup B
  BY <1>7
<1> QED BY <1>1, <1>2, <1>6, <1>8, <1>9, <1>10 DEF Lists

\* The recursive definition of TrackersOpened has a solution.
Step(bound, f, n) == IF n = 0 THEN Unbound ELSE BindNext(bound[n - 1], f[n])

Solves(bound, f, n) == bound = [k \in 0 .. n |-> Step(bound, f, k)]

LEMMA BoundExists ==
    ASSUME NEW f, NEW n \in Nat
    PROVE  \E bound : Solves(bound, f, n)
<1> DEFINE T == {m \in Nat : \E bound : Solves(bound, f, m)}
<1>1. 0 \in T
  <2> DEFINE g == [k \in 0 .. 0 |-> Unbound]
  <2>1. \A k \in 0 .. 0 : Step(g, f, k) = Unbound
    BY DEF Step
  <2>2. Solves(g, f, 0)
    BY <2>1 DEF Solves
  <2> QED BY <2>2
<1>2. ASSUME NEW m \in Nat, m \in T PROVE m + 1 \in T
  <2>1. PICK b : Solves(b, f, m)
    BY <1>2
  <2> DEFINE g == [k \in 0 .. m + 1 |-> Step(b, f, k)]
  <2>2. ASSUME NEW k \in 0 .. m PROVE g[k] = b[k]
    <3>1. k \in 0 .. m + 1
      OBVIOUS
    <3>2. b[k] = Step(b, f, k)
      BY <2>1 DEF Solves
    <3> QED BY <3>1, <3>2
  <2>3. ASSUME NEW k \in 0 .. m + 1 PROVE Step(b, f, k) = Step(g, f, k)
    <3>1. CASE k = 0
      BY <3>1 DEF Step
    <3>2. CASE k # 0
      <4>1. k - 1 \in 0 .. m
        BY <3>2
      <4>2. g[k - 1] = b[k - 1]
        BY <2>2, <4>1
      <4> HIDE DEF g
      <4> QED BY <3>2, <4>2 DEF Step
    <3> QED BY <3>1, <3>2
  <2>4. Solves(g, f, m + 1)
    BY <2>3 DEF Solves
  <2> QED BY <2>4
<1> HIDE DEF T
<1>3. n \in T
  BY <1>1, <1>2, SetInduction
<1> QED BY <1>3 DEF T

\* When a binding raises, only routes are left.
Firsts(f, n) == {f[i] : i \in 1 .. n}

RightSoFar(e, f, n) ==
    /\ RightFor(e, Firsts(f, n))
    /\ e.torn => \A i \in n + 1 .. Len(f) : f[i] \in Routes

LEMMA BindNextIsRight ==
    ASSUME NEW S, NEW f, Lists(f, S), NEW n \in Nat, n + 1 <= Len(f),
           NEW e, RightSoFar(e, f, n)
    PROVE  RightSoFar(BindNext(e, f[n + 1]), f, n + 1)
<1> DEFINE x == f[n + 1]
           F == Firsts(f, n)
           b == BindNext(e, x)
<1>1. Len(f) \in Nat /\ \A i \in 1 .. Len(f) : f[i] \in Services
  BY LenProperties, ElementOfSeq DEF Lists
<1>2. n + 1 \in 1 .. Len(f) /\ \A i \in 1 .. n : i \in 1 .. Len(f) /\ i < n + 1
  BY <1>1
<1>3. x \in Services \ F /\ F \in SUBSET Services
  BY <1>1, <1>2 DEF Lists, Firsts
<1>4. Firsts(f, n + 1) = F \cup {x}
  <2>1. 1 .. n + 1 = (1 .. n) \cup {n + 1}
    OBVIOUS
  <2> QED BY <2>1 DEF Firsts
<1>5. x \in Routes => \A i \in (n + 1) + 1 .. Len(f) : f[i] \in Routes
  <2> SUFFICES ASSUME x \in Routes, NEW i \in (n + 1) + 1 .. Len(f) PROVE f[i] \in Routes
    OBVIOUS
  <2>1. i \in 1 .. Len(f) /\ n + 1 < i
    BY <1>1
  <2> QED BY <1>2, <2>1 DEF Lists
<1> HIDE DEF x, F
<1>6. CASE e.torn
  <2>1. n + 1 \in n + 1 .. Len(f)
    BY <1>1, <1>2
  <2>2. x \in Routes
    BY <1>6, <2>1 DEF RightSoFar, x
  <2>3. b = e
    BY <1>6 DEF BindNext
  <2>4. RightFor(e, F) /\ (F \cup {x}) \cap Middlewares = F \cap Middlewares
    BY <2>2, ServerAssumption DEF RightSoFar, F
  <2>5. RightFor(e, F \cup {x})
    BY <1>6, <2>4 DEF RightFor
  <2> QED BY <1>4, <1>5, <2>2, <2>3, <2>5 DEF RightSoFar, x
<1>7. CASE ~e.torn
  <2>1. b = on_adding_service(e, x)
    BY <1>7 DEF BindNext
  <2>2. RightFor(b, F \cup {x})
    BY <1>3, <2>1, AddingIsRight DEF RightSoFar, F
  <2>3. x \notin Routes => ~b.torn
    <3>1. e = [mws |-> e.mws, handlers |-> e.handlers, routes |-> e.routes, torn |-> e.torn]
      BY DEF RightSoFar, RightFor, IsEngine
    <3>2. add_middleware(e, x).torn = e.torn
      BY <3>1 DEF add_middleware
    <3> QED BY <1>7, <2>1, <3>2 DEF on_adding_service
  <2> HIDE DEF b
  <2> QED BY <1>4, <1>5, <2>2, <2>3 DEF RightSoFar, b, x
<1> QED BY <1>6, <1>7 DEF RightSoFar, RightFor, IsEngine

LEMMA TrackersOpenedIsRight ==
    ASSUME registered \in SUBSET Services, NEW scope
    PROVE  RightFor(TrackersOpened(scope), Seen(scope, registered))
<1> DEFINE f == Found(scope)
           n == Len(f)
           S == Seen(scope, registered)
           bound == CHOOSE b : b = [k \in 0 .. n |->
                        IF k = 0 THEN Unbound ELSE BindNext(b[k - 1], f[k])]
<1>1. Lists(f, S)
  BY FoundIsSeen
<1>2. n \in Nat
  BY <1>1, LenProperties DEF Lists
<1>3. TrackersOpened(scope) = bound[n]
  BY DEF TrackersOpened
<1> HIDE DEF f, S
<1>4. bound = [k \in 0 .. n |-> IF k = 0 THEN Unbound ELSE BindNext(bound[k - 1], f[k])]
  <2>1. PICK b : Solves(b, f, n)
    BY <1>2, BoundExists
  <2>2. b = [k \in 0 .. n |-> IF k = 0 THEN Unbound ELSE BindNext(b[k - 1], f[k])]
    BY <2>1 DEF Solves, Step
  <2> QED BY <2>2
<1> HIDE DEF bound
<1> DEFINE T == {m \in Nat : m <= n => RightSoFar(bound[m], f, m)}
<1>5. 0 \in T
  <2>1. bound[0] = Unbound
    BY <1>2, <1>4
  <2>2. /\ <<>> \in Seq(Middlewares) /\ Len(<<>>) = 0 /\ DOMAIN <<>> = {}
        /\ Range(<<>>) = {}
    BY EmptySeq DEF Range
  <2>3. Firsts(f, 0) = {} /\ RoutesOf({}) = {} /\ Ascending(<<>>, 0)
    BY DEF Firsts, RoutesOf, Ascending
  <2>4. RightFor(Unbound, {}) /\ ~Unbound.torn
    <3>1. /\ Unbound.mws = <<>> /\ Unbound.handlers = {} /\ Unbound.routes = {}
          /\ Unbound.torn = FALSE
          /\ Unbound = [mws |-> Unbound.mws, handlers |-> Unbound.handlers,
                        routes |-> Unbound.routes, torn |-> Unbound.torn]
      BY DEF Unbound
    <3>2. {} \cap Middlewares = {} /\ {} \cap Routes = {}
      OBVIOUS
    <3> QED BY <2>2, <2>3, <3>1, <3>2 DEF RightFor, IsEngine
  <2> QED BY <2>1, <2>3, <2>4 DEF RightSoFar
<1>6. ASSUME NEW m \in Nat, m \in T PROVE m + 1 \in T
  <2> SUFFICES ASSUME m + 1 <= n PROVE RightSoFar(bound[m + 1], f, m + 1)
    OBVIOUS
  <2>1. RightSoFar(bound[m], f, m)
    BY <1>2, <1>6
  <2>2. m + 1 \in 0 .. n /\ m + 1 # 0 /\ (m + 1) - 1 = m
    BY <1>2
  <2>3. bound[m + 1] = BindNext(bound[m], f[m + 1])
    BY <1>4, <2>2
  <2> QED BY <1>1, <2>1, <2>3, BindNextIsRight
<1> HIDE DEF T
<1>7. n \in T
  BY <1>2, <1>5, <1>6, SetInduction
<1>8. RightFor(bound[n], Firsts(f, n))
  BY <1>2, <1>7 DEF T, RightSoFar
<1>9. Firsts(f, n) = S
  BY <1>1 DEF Firsts, Lists
<1> QED BY <1>3, <1>8, <1>9 DEF S

-----------------------------------------------------------------------------
(***************************************************************************)
(* Sequences and how often they hold an element.                           *)
(***************************************************************************)
LEMMA PlacesFinite ==
    ASSUME NEW S, NEW s \in Seq(S), NEW e
    PROVE  IsFiniteSet(Places(s, e)) /\ Cardinality(Places(s, e)) \in Nat
<1>1. Len(s) \in Nat /\ DOMAIN s = 1 .. Len(s)
  BY LenProperties
<1>2. IsFiniteSet(1 .. Len(s))
  BY <1>1, FS_Interval
<1>3. Places(s, e) \in SUBSET (1 .. Len(s))
  BY <1>1 DEF Places
<1>4. IsFiniteSet(Places(s, e))
  BY <1>2, <1>3, FS_Subset
<1> QED BY <1>4, FS_CardinalityType

\* Returned the place i, a sequence has every element as often as at its other places.
LEMMA PlacesReturned ==
    ASSUME NEW S, NEW s \in Seq(S), NEW i \in 1 .. Len(s), NEW e
    PROVE  Cardinality(Places(RemoveAt(s, i), e)) = Cardinality(Places(s, e) \ {i})
<1> DEFINE r == RemoveAt(s, i)
           f == [j \in Places(r, e) |-> IF j < i THEN j ELSE j + 1]
<1>1. /\ r \in Seq(S) /\ Len(r) = Len(s) - 1 /\ Len(s) \in Nat
      /\ \A j \in 1 .. Len(s) - 1 : r[j] = IF j < i THEN s[j] ELSE s[j + 1]
      /\ DOMAIN r = 1 .. Len(s) - 1 /\ DOMAIN s = 1 .. Len(s)
  BY RemoveAtProperties, LenProperties
<1> HIDE DEF r
<1>2. f \in [Places(r, e) -> Places(s, e) \ {i}]
  BY <1>1 DEF Places
<1>3. \A j, l \in Places(r, e) : f[j] = f[l] => j = l
  BY <1>1 DEF Places
<1>4. \A l \in Places(s, e) \ {i} : \E j \in Places(r, e) : f[j] = l
  <2> SUFFICES ASSUME NEW l \in Places(s, e) \ {i} PROVE \E j \in Places(r, e) : f[j] = l
    OBVIOUS
  <2>1. CASE l < i
    <3>1. l \in Places(r, e)
      BY <1>1, <2>1 DEF Places
    <3> QED BY <2>1, <3>1
  <2>2. CASE ~(l < i)
    <3>1. l - 1 \in 1 .. Len(s) - 1 /\ l - 1 >= i /\ l = (l - 1) + 1
      BY <1>1, <2>2 DEF Places
    <3>2. r[l - 1] = s[l] /\ s[l] = e
      BY <1>1, <3>1 DEF Places
    <3>3. l - 1 \in Places(r, e)
      BY <1>1, <3>1, <3>2 DEF Places
    <3>4. f[l - 1] = l
      BY <3>1, <3>3
    <3> QED BY <3>3, <3>4
  <2> QED BY <2>1, <2>2
<1> HIDE DEF f
<1>5. f \in Bijection(Places(r, e), Places(s, e) \ {i})
  BY <1>2, <1>3, <1>4, Fun_IsBij
<1>6. ExistsBijection(Places(r, e), Places(s, e) \ {i})
  BY <1>5 DEF ExistsBijection
<1>7. IsFiniteSet(Places(r, e))
  BY <1>1, PlacesFinite
<1> QED BY <1>6, <1>7, FS_Bijection DEF r

LEMMA PlacesOfAppend ==
    ASSUME NEW S, NEW s \in Seq(S), NEW x \in S, NEW e
    PROVE  Cardinality(Places(Append(s, x), e)) =
               Cardinality(Places(s, e)) + IF x = e THEN 1 ELSE 0
<1> DEFINE r == Append(s, x)
           n == Len(s) + 1
<1>1. /\ r \in Seq(S) /\ Len(r) = n /\ Len(s) \in Nat
      /\ \A i \in 1 .. Len(s) : r[i] = s[i]
      /\ r[n] = x
  BY AppendProperties, LenProperties
<1>2. DOMAIN r = 1 .. n /\ DOMAIN s = 1 .. Len(s)
  BY <1>1, LenProperties
<1> HIDE DEF r
<1>3. CASE x = e
  <2>1. Places(r, e) = Places(s, e) \cup {n} /\ n \notin Places(s, e)
    BY <1>1, <1>2, <1>3 DEF Places
  <2> QED BY <1>3, <2>1, PlacesFinite, FS_AddElement DEF r
<1>4. CASE x # e
  <2>1. Places(r, e) = Places(s, e)
    BY <1>1, <1>2, <1>4 DEF Places
  <2> QED BY <1>4, <2>1, PlacesFinite DEF r
<1> QED BY <1>3, <1>4

-----------------------------------------------------------------------------
(***************************************************************************)
(* One server changes, or one is created.                                  *)
(***************************************************************************)
LEMMA ServerFields ==
    ASSUME NEW s, ServersTyped(s)
    PROVE  /\ Len(s) \in Nat /\ DOMAIN s = 1 .. Len(s)
           /\ \A k \in DOMAIN s :
                /\ s[k] = [scope |-> s[k].scope, phase |-> s[k].phase, engine |-> s[k].engine]
                /\ s[k].scope \in Scopes /\ s[k].phase \in Phases
                /\ s[k].phase = "running" => "torn" \in DOMAIN s[k].engine
<1>1. Len(s) \in Nat /\ DOMAIN s = 1 .. Len(s) /\ s \in [1 .. Len(s) -> Servers(s)]
  BY LenProperties DEF ServersTyped
<1>2. \A k \in DOMAIN s : s[k] \in Servers(s)
  BY <1>1
<1> QED BY <1>1, <1>2 DEF Servers, ServersTyped

LEMMA ServersTypedBy ==
    ASSUME NEW s, NEW n \in Nat, DOMAIN s = 1 .. n, s = [k \in 1 .. n |-> s[k]],
           \A k \in 1 .. n :
                /\ s[k] = [scope |-> s[k].scope, phase |-> s[k].phase, engine |-> s[k].engine]
                /\ s[k].scope \in Scopes /\ s[k].phase \in Phases
                /\ s[k].phase = "running" => "torn" \in DOMAIN s[k].engine
    PROVE  ServersTyped(s) /\ Len(s) = n
<1>1. \A k \in 1 .. n : s[k] \in Servers(s)
  BY DEF Servers
<1>2. s \in [1 .. n -> Servers(s)]
  BY <1>1
<1>3. s \in Seq(Servers(s))
  BY <1>2, SeqDef
<1>4. Len(s) = n
  <2>1. Len(s) \in Nat /\ DOMAIN s = 1 .. Len(s)
    BY <1>3, LenProperties
  <2> QED BY <2>1
<1> QED BY <1>3, <1>4 DEF ServersTyped

\* r is s but for server k, which is in the phase and has the engine.
Changed(s, r, k, phase, engine) ==
    /\ ServersTyped(r) /\ Len(r) = Len(s) /\ DOMAIN r = DOMAIN s
    /\ \A l \in DOMAIN s :
         /\ r[l].scope = s[l].scope
         /\ r[l].phase = IF l = k THEN phase ELSE s[l].phase
         /\ r[l].engine = IF l = k THEN engine ELSE s[l].engine

LEMMA ChangedBy ==
    ASSUME NEW s, ServersTyped(s), NEW k \in 1 .. Len(s), NEW r, NEW phase, NEW engine,
           r = [l \in 1 .. Len(s) |-> r[l]],
           \A l \in 1 .. Len(s) :
             /\ r[l] = [scope |-> r[l].scope, phase |-> r[l].phase, engine |-> r[l].engine]
             /\ r[l].scope \in Scopes /\ r[l].phase \in Phases
             /\ r[l].phase = "running" => "torn" \in DOMAIN r[l].engine
             /\ r[l].scope = s[l].scope
             /\ r[l].phase = IF l = k THEN phase ELSE s[l].phase
             /\ r[l].engine = IF l = k THEN engine ELSE s[l].engine
    PROVE  Changed(s, r, k, phase, engine)
<1>1. Len(s) \in Nat /\ DOMAIN s = 1 .. Len(s) /\ DOMAIN r = 1 .. Len(s)
  BY ServerFields
<1>2. ServersTyped(r) /\ Len(r) = Len(s)
  BY <1>1, ServersTypedBy
<1> QED BY <1>1, <1>2 DEF Changed

\* Server k goes to another phase, with whatever its engine has then.
LEMMA PhaseChanges ==
    ASSUME NEW s, ServersTyped(s), NEW k \in 1 .. Len(s), NEW r,
           NEW phase \in Phases, NEW engine,
           r = [s EXCEPT ![k] = [scope |-> s[k].scope, phase |-> phase, engine |-> engine]],
           phase = "running" => "torn" \in DOMAIN engine
    PROVE  Changed(s, r, k, phase, engine)
<1>1. Len(s) \in Nat /\ DOMAIN s = 1 .. Len(s) /\ DOMAIN r = 1 .. Len(s)
      /\ r = [l \in 1 .. Len(s) |-> r[l]]
  BY ServerFields
<1>2. ASSUME NEW l \in 1 .. Len(s)
      PROVE  /\ r[l] = [scope |-> r[l].scope, phase |-> r[l].phase, engine |-> r[l].engine]
             /\ r[l].scope \in Scopes /\ r[l].phase \in Phases
             /\ r[l].phase = "running" => "torn" \in DOMAIN r[l].engine
             /\ r[l].scope = s[l].scope
             /\ r[l].phase = IF l = k THEN phase ELSE s[l].phase
             /\ r[l].engine = IF l = k THEN engine ELSE s[l].engine
  <2>1. CASE l = k
    <3>1. r[l] = [scope |-> s[k].scope, phase |-> phase, engine |-> engine]
      BY <1>1, <2>1
    <3> QED BY <2>1, <3>1, ServerFields
  <2>2. CASE l # k
    <3>1. r[l] = s[l]
      BY <1>1, <2>2
    <3> QED BY <1>1, <2>2, <3>1, ServerFields
  <2> QED BY <2>1, <2>2
<1> QED BY <1>1, <1>2, ChangedBy

LEMMA ServerAdded ==
    ASSUME NEW s, ServersTyped(s), NEW scope \in Scopes
    PROVE  LET r == Append(s, New(scope))
               n == Len(s) + 1
           IN  /\ ServersTyped(r) /\ Len(r) = n /\ DOMAIN r = 1 .. n
               /\ \A k \in DOMAIN s : r[k] = s[k]
               /\ r[n].scope = scope /\ r[n].phase = "opening"
<1> DEFINE r == Append(s, New(scope))
           n == Len(s) + 1
           E == {s[k].engine : k \in DOMAIN s} \cup {Unbound}
           T == [scope : Scopes, phase : Phases, engine : E]
<1>1. Len(s) \in Nat /\ DOMAIN s = 1 .. Len(s)
  BY ServerFields
<1>2. s \in Seq(T)
  <2>1. Servers(s) \subseteq T
    BY DEF Servers
  <2> HIDE DEF T
  <2> QED BY <2>1, SeqMonotonic DEF ServersTyped
<1>3. New(scope) \in T
  BY DEF New, Phases
<1>4. /\ r \in Seq(T) /\ Len(r) = n
      /\ \A k \in 1 .. Len(s) : r[k] = s[k]
      /\ r[n] = New(scope)
  <2> HIDE DEF T
  <2> QED BY <1>2, <1>3, AppendProperties
<1>5. DOMAIN r = 1 .. n /\ r = [k \in 1 .. n |-> r[k]] /\ n \in Nat
  <2> HIDE DEF T, r
  <2> QED BY <1>1, <1>4, LenProperties
<1> HIDE DEF r, T
<1>6. ASSUME NEW k \in 1 .. n
      PROVE  /\ r[k] = [scope |-> r[k].scope, phase |-> r[k].phase, engine |-> r[k].engine]
             /\ r[k].scope \in Scopes /\ r[k].phase \in Phases
             /\ r[k].phase = "running" => "torn" \in DOMAIN r[k].engine
  <2>1. CASE k = n
    BY <1>4, <2>1 DEF New, Phases
  <2>2. CASE k # n
    <3>1. k \in 1 .. Len(s) /\ r[k] = s[k]
      BY <1>1, <1>4, <2>2
    <3> QED BY <1>1, <3>1, ServerFields
  <2> QED BY <2>1, <2>2
<1>7. ServersTyped(r)
  BY <1>5, <1>6, ServersTypedBy
<1>8. r[n].scope = scope /\ r[n].phase = "opening"
  BY <1>4 DEF New
<1> QED BY <1>1, <1>4, <1>5, <1>7, <1>8 DEF r

LEMMA PhaseSet ==
    ASSUME NEW s, ServersTyped(s), NEW k \in 1 .. Len(s), NEW phase \in Phases,
           phase # "running"
    PROVE  Changed(s, [s EXCEPT ![k].phase = phase], k, phase, s[k].engine)
<1> DEFINE r == [s EXCEPT ![k].phase = phase]
<1>1. s[k] = [scope |-> s[k].scope, phase |-> s[k].phase, engine |-> s[k].engine]
  BY ServerFields
<1>2. [s[k] EXCEPT !.phase = phase] =
          [scope |-> s[k].scope, phase |-> phase, engine |-> s[k].engine]
  BY <1>1
<1>3. r = [s EXCEPT ![k] = [scope |-> s[k].scope, phase |-> phase, engine |-> s[k].engine]]
  BY <1>2
<1> HIDE DEF r
<1>4. Changed(s, r, k, phase, s[k].engine)
  BY <1>3, PhaseChanges
<1> QED BY <1>4 DEF r

LEMMA PhaseAndEngineSet ==
    ASSUME NEW s, ServersTyped(s), NEW k \in 1 .. Len(s), NEW phase \in Phases, NEW engine,
           phase = "running" => "torn" \in DOMAIN engine
    PROVE  Changed(s, [s EXCEPT ![k].phase = phase, ![k].engine = engine], k, phase, engine)
<1> DEFINE q == [s EXCEPT ![k].phase = phase]
           r == [s EXCEPT ![k].phase = phase, ![k].engine = engine]
<1>1. /\ Len(s) \in Nat /\ DOMAIN s = 1 .. Len(s)
      /\ s[k] = [scope |-> s[k].scope, phase |-> s[k].phase, engine |-> s[k].engine]
  BY ServerFields
<1>2. q[k] = [scope |-> s[k].scope, phase |-> phase, engine |-> s[k].engine]
      /\ \A l \in 1 .. Len(s) : l # k => q[l] = s[l]
  BY <1>1
<1>3. [q[k] EXCEPT !.engine = engine] =
          [scope |-> s[k].scope, phase |-> phase, engine |-> engine]
  BY <1>2
<1>4. r = [s EXCEPT ![k] = [scope |-> s[k].scope, phase |-> phase, engine |-> engine]]
  BY <1>1, <1>2, <1>3
<1> HIDE DEF r
<1>5. Changed(s, r, k, phase, engine)
  BY <1>4, PhaseChanges
<1> QED BY <1>5 DEF r

-----------------------------------------------------------------------------
(***************************************************************************)
(* The count of the scopes.                                                *)
(***************************************************************************)
LEMMA LivingFinite ==
    ASSUME NEW s, ServersTyped(s), NEW scope
    PROVE  IsFiniteSet(Living(s, scope)) /\ Cardinality(Living(s, scope)) \in Nat
<1>1. Len(s) \in Nat /\ DOMAIN s = 1 .. Len(s)
  BY ServerFields
<1>2. IsFiniteSet(1 .. Len(s))
  BY <1>1, FS_Interval
<1>3. Living(s, scope) \in SUBSET (1 .. Len(s))
  BY <1>1 DEF Living
<1>4. IsFiniteSet(Living(s, scope))
  BY <1>2, <1>3, FS_Subset
<1> QED BY <1>4, FS_CardinalityType

\* A server that is not closed has its scope in the list: RemoveFirst removes it.
LEMMA ClosedIsCounted ==
    ASSUME NEW sc \in Seq(Scopes), NEW s, ServersTyped(s), Counted(sc, s),
           NEW k \in DOMAIN s, s[k].phase # "closed",
           NEW r, ServersTyped(r), DOMAIN r = DOMAIN s,
           \A l \in DOMAIN s : r[l].scope = s[l].scope
                /\ r[l].phase = IF l = k THEN "closed" ELSE s[l].phase
    PROVE  /\ RemoveFirst(sc, s[k].scope) \in Seq(Scopes)
           /\ Counted(RemoveFirst(sc, s[k].scope), r)
<1> DEFINE own == s[k].scope
<1>1. own \in Scopes /\ k \in Living(s, own)
  BY ServerFields DEF Living
<1>2. Cardinality(Places(sc, own)) = Cardinality(Living(s, own))
  BY <1>1 DEF Counted
<1>3. Places(sc, own) # {}
  <2>1. Cardinality(Living(s, own)) # 0
    BY <1>1, LivingFinite, FS_EmptySet
  <2> QED BY <1>2, <2>1, FS_EmptySet
<1>4. \E i \in 1 .. Len(sc) : sc[i] = own
  BY <1>3, LenProperties DEF Places
<1>5. PICK i \in 1 .. Len(sc) : sc[i] = own /\ RemoveFirst(sc, own) = RemoveAt(sc, i)
  BY <1>4, RemoveFirstRemoves
<1>6. RemoveAt(sc, i) \in Seq(Scopes)
  BY RemoveAtProperties
<1>7. ASSUME NEW scope \in Scopes
      PROVE  Cardinality(Places(RemoveAt(sc, i), scope)) = Cardinality(Living(r, scope))
  <2>1. Cardinality(Places(sc, scope)) = Cardinality(Living(s, scope))
    BY DEF Counted
  <2>2. Cardinality(Places(RemoveAt(sc, i), scope)) = Cardinality(Places(sc, scope) \ {i})
    BY PlacesReturned
  <2>3. Living(r, scope) = Living(s, scope) \ {k}
    BY DEF Living
  <2>4. k \in Living(s, scope) <=> i \in Places(sc, scope)
    BY <1>5, LenProperties DEF Living, Places
  <2>5. IsFiniteSet(Places(sc, scope)) /\ IsFiniteSet(Living(s, scope))
    BY PlacesFinite, LivingFinite
  <2>6. /\ Cardinality(Places(sc, scope) \ {i}) =
              IF i \in Places(sc, scope) THEN Cardinality(Places(sc, scope)) - 1
              ELSE Cardinality(Places(sc, scope))
        /\ Cardinality(Living(s, scope) \ {k}) =
              IF k \in Living(s, scope) THEN Cardinality(Living(s, scope)) - 1
              ELSE Cardinality(Living(s, scope))
    BY <2>5, FS_RemoveElement
  <2> QED BY <2>1, <2>2, <2>3, <2>4, <2>6
<1> QED BY <1>5, <1>6, <1>7 DEF Counted

LEMMA AddedIsCounted ==
    ASSUME NEW sc \in Seq(Scopes), NEW s, ServersTyped(s), Counted(sc, s),
           NEW scope \in Scopes
    PROVE  /\ Append(sc, scope) \in Seq(Scopes)
           /\ Counted(Append(sc, scope), Append(s, New(scope)))
<1> DEFINE r == Append(s, New(scope))
           n == Len(s) + 1
<1>1. /\ DOMAIN r = 1 .. n /\ Len(s) \in Nat /\ DOMAIN s = 1 .. Len(s)
      /\ \A k \in DOMAIN s : r[k] = s[k]
      /\ r[n].scope = scope /\ r[n].phase = "opening"
  BY ServerAdded, ServerFields
<1> HIDE DEF r
<1>2. ASSUME NEW e \in Scopes
      PROVE  Cardinality(Places(Append(sc, scope), e)) = Cardinality(Living(r, e))
  <2>1. Cardinality(Places(sc, e)) = Cardinality(Living(s, e))
    BY DEF Counted
  <2>2. Cardinality(Places(Append(sc, scope), e)) =
            Cardinality(Places(sc, e)) + IF scope = e THEN 1 ELSE 0
    BY PlacesOfAppend
  <2>3. CASE scope = e
    <3>1. Living(r, e) = Living(s, e) \cup {n} /\ n \notin Living(s, e)
      BY <1>1, <2>3 DEF Living
    <3>2. Cardinality(Living(r, e)) = Cardinality(Living(s, e)) + 1
      BY <3>1, LivingFinite, FS_AddElement
    <3> QED BY <2>1, <2>2, <2>3, <3>2
  <2>4. CASE scope # e
    <3>1. Living(r, e) = Living(s, e)
      BY <1>1, <2>4 DEF Living
    <3> QED BY <2>1, <2>2, <2>4, <3>1, LivingFinite
  <2> QED BY <2>3, <2>4
<1>3. Append(sc, scope) \in Seq(Scopes)
  BY AppendProperties
<1> QED BY <1>2, <1>3 DEF Counted, r

LEMMA SameIsCounted ==
    ASSUME NEW sc, NEW s, Counted(sc, s), NEW r, DOMAIN r = DOMAIN s,
           \A l \in DOMAIN s : r[l].scope = s[l].scope
                /\ (r[l].phase = "closed" <=> s[l].phase = "closed")
    PROVE  Counted(sc, r)
<1>1. \A scope \in Scopes : Living(r, scope) = Living(s, scope)
  BY DEF Living
<1> QED BY <1>1 DEF Counted

-----------------------------------------------------------------------------
(***************************************************************************)
(* What a call does from one await to another keeps Good.                  *)
(***************************************************************************)
\* The jobs when the call of t has come to an await or an end, or before it began.
Returned(jo, t) == [jo EXCEPT ![t] = Idle]

LEMMA IdleIsAJob == Idle \in Jobs /\ Idle.op = "idle" /\ Idle.server = 0
<1>1. (CHOOSE p \in Pids : TRUE) \in Pids
  BY ServerAssumption
<1>2. <<>> \in Seq(Pids)
  BY EmptySeq
<1> QED BY <1>1, <1>2, ServerAssumption DEF Idle, Jobs, Calls

\* server.close returned.
LEMMA ClosedIsGood ==
    ASSUME NEW sc, NEW li, NEW s, NEW jo, Good(sc, li, s, jo),
           NEW t \in Tasks, jo[t].op \in {"update", "delete", "close"}
    PROVE  LET k == jo[t].server
           IN  Good(RemoveFirst(sc, s[k].scope), li, [s EXCEPT ![k].phase = "closed"],
                    Returned(jo, t))
<1> DEFINE k == jo[t].server
           r == [s EXCEPT ![k].phase = "closed"]
           after == Returned(jo, t)
<1> USE DEF Returned
<1>1. /\ k \in 1 .. Len(s) /\ k \in DOMAIN s /\ s[k].phase = "closing"
      /\ ServersTyped(s) /\ sc \in Seq(Scopes) /\ Counted(sc, s)
  BY ServerFields DEF Good, Types, Handled
<1>2. /\ ServersTyped(r) /\ Len(r) = Len(s) /\ DOMAIN r = DOMAIN s
      /\ \A l \in DOMAIN s :
           r[l].scope = s[l].scope /\ r[l].phase = IF l = k THEN "closed" ELSE s[l].phase
  <2>1. "closed" \in Phases /\ "closed" # "running"
    BY DEF Phases
  <2> HIDE DEF k
  <2>2. Changed(s, r, k, "closed", s[k].engine)
    BY <1>1, <2>1, PhaseSet
  <2> QED BY <2>2 DEF Changed
<1> HIDE DEF r, k
<1>3. /\ RemoveFirst(sc, s[k].scope) \in Seq(Scopes)
      /\ Counted(RemoveFirst(sc, s[k].scope), r)
  <2>1. s[k].phase # "closed"
    BY <1>1
  <2> QED BY <1>1, <1>2, <2>1, ClosedIsCounted
<1>4. Types(RemoveFirst(sc, s[k].scope), li, r, after)
  BY <1>2, <1>3, IdleIsAJob DEF Good, Types
<1>5. Handled(li, r, after)
  <2>1. ASSUME NEW u \in Tasks
        PROVE  /\ after[u].op = "open" => r[after[u].server].phase = "opening"
               /\ after[u].op \in {"update", "delete", "close"}
                     => r[after[u].server].phase = "closing"
    <3>1. CASE u = t
      BY <3>1, IdleIsAJob DEF Good, Types
    <3>2. CASE u # t
      <4>1. after[u] = jo[u]
        BY <3>2 DEF Good, Types
      <4>2. CASE jo[u].op = "idle"
        BY <4>1, <4>2
      <4>3. CASE jo[u].op # "idle"
        <5>1. jo[u].server # k /\ jo[u].server \in DOMAIN s
          BY <3>2, <4>3, ServerFields DEF Good, Types, Handled, k
        <5> QED BY <1>2, <4>1, <5>1 DEF Good, Handled
      <4> QED BY <4>2, <4>3
    <3> QED BY <3>1, <3>2
  <2>2. ASSUME NEW u \in Tasks, NEW v \in Tasks \ {u}, after[u].op # "idle"
        PROVE  after[u].server # after[v].server
    <3>1. u # t /\ after[u] = jo[u]
      BY <2>2, IdleIsAJob DEF Good, Types
    <3>2. CASE v = t
      BY <2>2, <3>1, <3>2, IdleIsAJob, ServerFields DEF Good, Types
    <3>3. CASE v # t
      BY <2>2, <3>1, <3>3 DEF Good, Types, Handled
    <3> QED BY <3>2, <3>3
  <2>3. ASSUME NEW p \in Pids, li[p] # 0
        PROVE  r[li[p]].phase = "running" /\ \A q \in Pids \ {p} : li[q] # li[p]
    <3>1. s[li[p]].phase = "running" /\ \A q \in Pids \ {p} : li[q] # li[p]
      BY <2>3 DEF Good, Handled
    <3>2. li[p] # k /\ li[p] \in DOMAIN s
      BY <1>1, <2>3, <3>1, ServerFields DEF Good, Types
    <3> QED BY <1>2, <3>1, <3>2
  <2> HIDE DEF after
  <2> QED BY <2>1, <2>2, <2>3 DEF Handled
<1> QED BY <1>3, <1>4, <1>5 DEF Good, r, k

\* server.open returned or raised: the server runs or has failed, and it is listed or not.
LEMMA OpenedIsGood ==
    ASSUME NEW sc, NEW li, NEW s, NEW jo, Good(sc, li, s, jo),
           NEW t \in Tasks, jo[t].op = "open",
           NEW phase \in {"running", "failed"}, NEW engine,
           NEW r, Changed(s, r, jo[t].server, phase, engine),
           NEW now, \/ now = li
                    \/ phase = "running" /\ now = [li EXCEPT ![jo[t].pid] = jo[t].server]
    PROVE  Good(sc, now, r, Returned(jo, t))
<1> DEFINE k == jo[t].server
           after == Returned(jo, t)
<1> USE DEF Returned
<1>1. /\ k \in 1 .. Len(s) /\ k \in DOMAIN s /\ s[k].phase = "opening"
      /\ ServersTyped(s) /\ sc \in Seq(Scopes) /\ Counted(sc, s)
      /\ jo[t].pid \in Pids
  BY ServerFields DEF Good, Types, Handled, Jobs
<1>2. /\ ServersTyped(r) /\ Len(r) = Len(s) /\ DOMAIN r = DOMAIN s
      /\ \A l \in DOMAIN s :
           r[l].scope = s[l].scope /\ r[l].phase = IF l = k THEN phase ELSE s[l].phase
  BY DEF Changed
<1> HIDE DEF k
<1>3. Counted(sc, r)
  BY <1>1, <1>2, SameIsCounted
<1>4. now \in [Pids -> 0 .. Len(r)]
  BY <1>1, <1>2 DEF Good, Types, k
<1>5. Types(sc, now, r, after)
  BY <1>2, <1>4, IdleIsAJob DEF Good, Types
<1>6. Handled(now, r, after)
  <2>1. ASSUME NEW u \in Tasks
        PROVE  /\ after[u].op = "open" => r[after[u].server].phase = "opening"
               /\ after[u].op \in {"update", "delete", "close"}
                     => r[after[u].server].phase = "closing"
    <3>1. CASE u = t
      BY <3>1, IdleIsAJob DEF Good, Types
    <3>2. CASE u # t
      <4>1. after[u] = jo[u]
        BY <3>2 DEF Good, Types
      <4>2. CASE jo[u].op = "idle"
        BY <4>1, <4>2
      <4>3. CASE jo[u].op # "idle"
        <5>1. jo[u].server # k /\ jo[u].server \in DOMAIN s
          BY <3>2, <4>3, ServerFields DEF Good, Types, Handled, k
        <5> QED BY <1>2, <4>1, <5>1 DEF Good, Handled
      <4> QED BY <4>2, <4>3
    <3> QED BY <3>1, <3>2
  <2>2. ASSUME NEW u \in Tasks, NEW v \in Tasks \ {u}, after[u].op # "idle"
        PROVE  after[u].server # after[v].server
    <3>1. u # t /\ after[u] = jo[u]
      BY <2>2, IdleIsAJob DEF Good, Types
    <3>2. CASE v = t
      BY <2>2, <3>1, <3>2, IdleIsAJob, ServerFields DEF Good, Types
    <3>3. CASE v # t
      BY <2>2, <3>1, <3>3 DEF Good, Types, Handled
    <3> QED BY <3>2, <3>3
  <2>3. ASSUME NEW p \in Pids, li[p] # 0
        PROVE  /\ li[p] # k /\ r[li[p]].phase = "running"
               /\ \A q \in Pids \ {p} : li[q] # li[p]
    <3>1. s[li[p]].phase = "running" /\ \A q \in Pids \ {p} : li[q] # li[p]
      BY <2>3 DEF Good, Handled
    <3>2. li[p] # k /\ li[p] \in DOMAIN s
      BY <1>1, <2>3, <3>1, ServerFields DEF Good, Types
    <3> QED BY <1>2, <3>1, <3>2
  <2>4. \A p \in Pids : now[p] # 0 =>
            r[now[p]].phase = "running" /\ \A q \in Pids \ {p} : now[q] # now[p]
    <3>1. CASE now = li
      BY <2>3, <3>1
    <3>2. CASE phase = "running" /\ now = [li EXCEPT ![jo[t].pid] = k]
      <4>1. \A p \in Pids : now[p] = IF p = jo[t].pid THEN k ELSE li[p]
        BY <3>2 DEF Good, Types
      <4>2. r[k].phase = "running" /\ k # 0
        BY <1>1, <1>2, <3>2
      <4> QED BY <2>3, <4>1, <4>2
    <3> QED BY <3>1, <3>2 DEF k
  <2> HIDE DEF after
  <2> QED BY <2>1, <2>2, <2>4 DEF Handled
<1> QED BY <1>3, <1>5, <1>6 DEF Good

\* _remove takes the server of p off the list and closes its trackers.
LEMMA BegunIsGood ==
    ASSUME NEW sc, NEW li, NEW s, NEW jo, Good(sc, li, s, jo),
           NEW t \in Tasks, jo[t].op = "idle",
           NEW p \in Pids, li[p] # 0,
           NEW call \in Jobs, call.op \in {"update", "delete", "close"},
           NEW engine, NEW r, Changed(s, r, li[p], "closing", engine)
    PROVE  Good(sc, [li EXCEPT ![p] = 0], r, [jo EXCEPT ![t] = [call EXCEPT !.server = li[p]]])
<1> DEFINE k == li[p]
           own == [call EXCEPT !.server = k]
           now == [li EXCEPT ![p] = 0]
           after == [jo EXCEPT ![t] = own]
<1>1. /\ k \in 1 .. Len(s) /\ k \in DOMAIN s /\ s[k].phase = "running"
      /\ sc \in Seq(Scopes) /\ Counted(sc, s)
      /\ Len(s) \in Nat /\ DOMAIN s = 1 .. Len(s)
  BY ServerFields DEF Good, Types, Handled
<1>2. own \in Jobs /\ own.op = call.op /\ own.server = k
  BY <1>1 DEF Jobs
<1>3. /\ \A u \in Tasks : after[u] = IF u = t THEN own ELSE jo[u]
      /\ \A q \in Pids : now[q] = IF q = p THEN 0 ELSE li[q]
  BY DEF Good, Types
<1>4. /\ ServersTyped(r) /\ Len(r) = Len(s) /\ DOMAIN r = DOMAIN s
      /\ \A l \in DOMAIN s :
           r[l].scope = s[l].scope /\ r[l].phase = IF l = k THEN "closing" ELSE s[l].phase
  BY DEF Changed
<1>5. Counted(sc, r)
  BY <1>1, <1>4, SameIsCounted
<1>6. Types(sc, now, r, after)
  <2>1. now \in [Pids -> 0 .. Len(r)]
    BY <1>4 DEF Good, Types
  <2>2. after \in [Tasks -> Jobs]
    BY <1>2 DEF Good, Types
  <2>3. \A u \in Tasks :
            IF after[u].op = "idle" THEN after[u] = Idle ELSE after[u].server \in 1 .. Len(r)
    BY <1>1, <1>2, <1>3, <1>4 DEF Good, Types
  <2> HIDE DEF now, after
  <2> QED BY <1>1, <1>4, <2>1, <2>2, <2>3 DEF Types
<1> HIDE DEF k, own, now, after
\* No job has the server that was running.
<1>7. \A u \in Tasks : u # t => jo[u].server # k
  <2> SUFFICES ASSUME NEW u \in Tasks, u # t PROVE jo[u].server # k
    OBVIOUS
  <2>1. CASE jo[u].op = "idle"
    BY <1>1, <2>1, IdleIsAJob DEF Good, Types
  <2>2. CASE jo[u].op # "idle"
    <3>1. jo[u].op \in Calls
      BY DEF Good, Types, Jobs
    <3>2. s[jo[u].server].phase \in {"opening", "closing"}
      BY <2>2, <3>1 DEF Good, Handled, Calls
    <3> QED BY <1>1, <3>2
  <2> QED BY <2>1, <2>2
<1>8. Handled(now, r, after)
  <2>1. ASSUME NEW u \in Tasks
        PROVE  /\ after[u].op = "open" => r[after[u].server].phase = "opening"
               /\ after[u].op \in {"update", "delete", "close"}
                     => r[after[u].server].phase = "closing"
    <3>1. CASE u = t
      BY <1>1, <1>2, <1>3, <1>4, <3>1
    <3>2. CASE u # t
      <4>1. after[u] = jo[u] /\ jo[u].server # k
        BY <1>3, <1>7, <3>2
      <4>2. CASE jo[u].op = "idle"
        BY <4>1, <4>2
      <4>3. CASE jo[u].op # "idle"
        <5>1. jo[u].server \in DOMAIN s
          BY <1>1, <4>3 DEF Good, Types
        <5> QED BY <1>4, <4>1, <5>1 DEF Good, Handled
      <4> QED BY <4>2, <4>3
    <3> QED BY <3>1, <3>2
  <2>2. ASSUME NEW u \in Tasks, NEW v \in Tasks \ {u}, after[u].op # "idle"
        PROVE  after[u].server # after[v].server
    BY <1>2, <1>3, <1>7, <2>2 DEF Good, Handled
  <2>3. ASSUME NEW q \in Pids, now[q] # 0
        PROVE  r[now[q]].phase = "running" /\ \A w \in Pids \ {q} : now[w] # now[q]
    <3>1. q # p /\ now[q] = li[q]
      BY <1>3, <2>3
    <3>2. s[li[q]].phase = "running" /\ \A w \in Pids \ {q} : li[w] # li[q]
      BY <2>3, <3>1 DEF Good, Handled
    <3>3. li[q] # k /\ li[q] \in DOMAIN s
      BY <1>1, <2>3, <3>1, <3>2 DEF Good, Types, k
    <3>4. r[li[q]].phase = "running"
      BY <1>4, <3>2, <3>3
    <3>5. \A w \in Pids \ {q} : now[w] # now[q]
      BY <1>3, <2>3, <3>1, <3>2
    <3> QED BY <3>1, <3>4, <3>5
  <2> QED BY <2>1, <2>2, <2>3 DEF Handled
<1> QED BY <1>5, <1>6, <1>8 DEF Good, k, own, now, after

\* updated takes the scope and opens a server of it.
LEMMA CreatedIsGood ==
    ASSUME NEW sc, NEW li, NEW s, NEW jo, Good(sc, li, s, jo),
           NEW t \in Tasks, jo[t].op = "idle",
           NEW call \in Jobs
    PROVE  Good(Append(sc, call.scope), li, Append(s, New(call.scope)),
                [jo EXCEPT ![t] = [call EXCEPT !.op = "open", !.server = Len(s) + 1]])
<1> DEFINE n == Len(s) + 1
           own == [call EXCEPT !.op = "open", !.server = n]
           r == Append(s, New(call.scope))
           after == [jo EXCEPT ![t] = own]
<1>1. /\ sc \in Seq(Scopes) /\ ServersTyped(s) /\ Counted(sc, s)
      /\ Len(s) \in Nat /\ DOMAIN s = 1 .. Len(s) /\ call.scope \in Scopes
  BY ServerFields DEF Good, Types, Jobs
<1>2. own \in Jobs /\ own.op = "open" /\ own.server = n
  <2>1. n \in Nat /\ "open" \in Calls
    BY <1>1 DEF Calls
  <2> HIDE DEF n
  <2> QED BY <2>1 DEF Jobs
<1>3. \A u \in Tasks : after[u] = IF u = t THEN own ELSE jo[u]
  BY DEF Good, Types
<1>4. /\ ServersTyped(r) /\ Len(r) = n /\ DOMAIN r = 1 .. n
      /\ \A k \in DOMAIN s : r[k] = s[k]
      /\ r[n].phase = "opening"
  BY <1>1, ServerAdded
<1>5. Append(sc, call.scope) \in Seq(Scopes) /\ Counted(Append(sc, call.scope), r)
  BY <1>1, AddedIsCounted
<1>6. Types(Append(sc, call.scope), li, r, after)
  <2>1. li \in [Pids -> 0 .. Len(r)]
    BY <1>1, <1>4 DEF Good, Types
  <2>2. after \in [Tasks -> Jobs]
    BY <1>2 DEF Good, Types
  <2>3. \A u \in Tasks :
            IF after[u].op = "idle" THEN after[u] = Idle ELSE after[u].server \in 1 .. Len(r)
    BY <1>1, <1>2, <1>3, <1>4 DEF Good, Types
  <2> HIDE DEF r, after
  <2> QED BY <1>4, <1>5, <2>1, <2>2, <2>3 DEF Types
<1> HIDE DEF n, own, r, after
<1>7. \A u \in Tasks : jo[u].server # n /\ (jo[u].op # "idle" => jo[u].server \in DOMAIN s)
  BY <1>1, IdleIsAJob DEF Good, Types, n
<1>8. Handled(li, r, after)
  <2>1. ASSUME NEW u \in Tasks
        PROVE  /\ after[u].op = "open" => r[after[u].server].phase = "opening"
               /\ after[u].op \in {"update", "delete", "close"}
                     => r[after[u].server].phase = "closing"
    <3>1. CASE u = t
      BY <1>2, <1>3, <1>4, <3>1
    <3>2. CASE u # t
      BY <1>3, <1>4, <1>7, <3>2 DEF Good, Handled
    <3> QED BY <3>1, <3>2
  <2>2. ASSUME NEW u \in Tasks, NEW v \in Tasks \ {u}, after[u].op # "idle"
        PROVE  after[u].server # after[v].server
    BY <1>2, <1>3, <1>7, <2>2 DEF Good, Handled
  <2>3. ASSUME NEW q \in Pids, li[q] # 0
        PROVE  r[li[q]].phase = "running" /\ \A w \in Pids \ {q} : li[w] # li[q]
    <3>1. s[li[q]].phase = "running" /\ \A w \in Pids \ {q} : li[w] # li[q]
      BY <2>3 DEF Good, Handled
    <3>2. li[q] \in DOMAIN s
      BY <1>1, <2>3 DEF Good, Types
    <3> QED BY <1>4, <3>1, <3>2
  <2> QED BY <2>1, <2>2, <2>3 DEF Handled
<1> QED BY <1>5, <1>6, <1>8 DEF Good, n, own, r, after

-----------------------------------------------------------------------------
(***************************************************************************)
(* ... and, while nothing overlaps, Alone.                                 *)
(***************************************************************************)
AllIdle(jo) == \A u \in Tasks : jo[u].op = "idle"

\* No living server has the scope.
Free(s, scope) == \A k \in DOMAIN s : s[k].phase # "closed" => s[k].scope # scope

\* The call of the one task that is in one returns.
LEMMA IdleAfter ==
    ASSUME NEW jo \in [Tasks -> Jobs], NEW t \in Tasks, jo[t].op # "idle",
           \A u, v \in Tasks : jo[u].op # "idle" /\ jo[v].op # "idle" => u = v
    PROVE  AllIdle(Returned(jo, t))
BY IdleIsAJob DEF AllIdle, Returned

LEMMA ClosedIsAlone ==
    ASSUME NEW sc, NEW li, NEW s, NEW jo, Good(sc, li, s, jo), Alone(li, s, jo),
           NEW t \in Tasks, jo[t].op \in {"update", "delete", "close"},
           NEW r, Changed(s, r, jo[t].server, "closed", s[jo[t].server].engine)
    PROVE  /\ AllIdle(Returned(jo, t))
           /\ Alone(li, r, Returned(jo, t))
           /\ jo[t].op = "update" => Free(r, jo[t].scope) /\ li[jo[t].pid] = 0
<1> DEFINE after == Returned(jo, t)
<1>1. AllIdle(after)
  BY IdleAfter DEF Alone, Good, Types
<1>2. jo[t].op = "update" => Free(r, jo[t].scope) /\ li[jo[t].pid] = 0
  BY DEF Alone, Free, Changed
<1>3. \A k, l \in DOMAIN r :
         r[k].phase # "closed" /\ r[l].phase # "closed" /\ r[k].scope = r[l].scope => k = l
  BY DEF Alone, Changed
<1>4. \A k \in DOMAIN r : r[k].phase = "running" =>
         r[k].engine.torn \/ \E p \in Pids : li[p] = k
  BY DEF Alone, Changed
<1> HIDE DEF after
<1>5. Alone(li, r, after)
  BY <1>1, <1>3, <1>4 DEF Alone, AllIdle
<1> QED BY <1>1, <1>2, <1>5 DEF after

LEMMA OpenedIsAlone ==
    ASSUME NEW sc, NEW li, NEW s, NEW jo, Good(sc, li, s, jo), Alone(li, s, jo),
           NEW t \in Tasks, jo[t].op = "open",
           NEW phase \in {"running", "failed"}, NEW engine,
           NEW r, Changed(s, r, jo[t].server, phase, engine),
           NEW now, \/ now = li /\ (phase = "failed" \/ engine.torn)
                    \/ now = [li EXCEPT ![jo[t].pid] = jo[t].server]
    PROVE  /\ AllIdle(Returned(jo, t))
           /\ Alone(now, r, Returned(jo, t))
<1> DEFINE after == Returned(jo, t)
           k == jo[t].server
           p == jo[t].pid
<1>1. AllIdle(after)
  BY IdleAfter DEF Alone, Good, Types
<1>2. k \in DOMAIN s /\ s[k].phase = "opening" /\ p \in Pids /\ li[p] = 0 /\ 0 \notin DOMAIN s
  <2>1. k \in 1 .. Len(s) /\ jo[t] \in Jobs
    BY DEF Good, Types
  <2>2. p \in Pids
    BY <2>1 DEF Jobs
  <2>3. s[k].phase = "opening" /\ li[p] = 0
    BY DEF Good, Handled, Alone
  <2>4. DOMAIN s = 1 .. Len(s)
    BY ServerFields DEF Good, Types
  <2> QED BY <2>1, <2>2, <2>3, <2>4
<1> HIDE DEF after, k, p
<1>3. \A l, m \in DOMAIN r :
         r[l].phase # "closed" /\ r[m].phase # "closed" /\ r[l].scope = r[m].scope => l = m
  <2>1. \A l \in DOMAIN s : r[l].scope = s[l].scope
            /\ (r[l].phase # "closed" => s[l].phase # "closed")
    BY <1>2 DEF Changed, k
  <2> QED BY <2>1 DEF Alone, Changed
<1>4. \A l \in DOMAIN r : r[l].phase = "running" =>
         r[l].engine.torn \/ \E q \in Pids : now[q] = l
  <2> SUFFICES ASSUME NEW l \in DOMAIN s, r[l].phase = "running", ~r[l].engine.torn
               PROVE  \E q \in Pids : now[q] = l
    BY DEF Changed
  <2>1. CASE now = li /\ (phase = "failed" \/ engine.torn)
    <3>1. l # k
      BY <2>1 DEF Changed, k
    <3>2. s[l].phase = "running" /\ ~s[l].engine.torn
      BY <3>1 DEF Changed, k
    <3> QED BY <2>1, <3>2 DEF Alone
  <2>2. CASE now = [li EXCEPT ![p] = k]
    <3>1. \A q \in Pids : now[q] = IF q = p THEN k ELSE li[q]
      BY <2>2 DEF Good, Types
    <3>2. CASE l = k
      BY <1>2, <3>1, <3>2
    <3>3. CASE l # k
      <4>1. s[l].phase = "running" /\ ~s[l].engine.torn
        BY <3>3 DEF Changed, k
      <4>2. PICK q \in Pids : li[q] = l
        BY <4>1 DEF Alone
      <4>3. q # p
        BY <1>2, <4>2
      <4> QED BY <3>1, <4>2, <4>3
    <3> QED BY <3>2, <3>3
  <2> QED BY <2>1, <2>2 DEF k, p
<1>5. Alone(now, r, after)
  BY <1>1, <1>3, <1>4 DEF Alone, AllIdle
<1> QED BY <1>1, <1>5 DEF after

LEMMA BegunIsAlone ==
    ASSUME NEW sc, NEW li, NEW s, NEW jo, Good(sc, li, s, jo), Alone(li, s, jo), AllIdle(jo),
           NEW t \in Tasks, NEW call \in Jobs, call.op \in {"update", "delete", "close"},
           li[call.pid] # 0, call.op = "update" => Free(s, call.scope),
           NEW engine, NEW r, Changed(s, r, li[call.pid], "closing", engine)
    PROVE  Alone([li EXCEPT ![call.pid] = 0], r,
                 [jo EXCEPT ![t] = [call EXCEPT !.server = li[call.pid]]])
<1> DEFINE p == call.pid
           k == li[p]
           own == [call EXCEPT !.server = k]
           now == [li EXCEPT ![p] = 0]
           after == [jo EXCEPT ![t] = own]
<1>1. /\ p \in Pids /\ k \in DOMAIN s /\ s[k].phase = "running"
      /\ own.op = call.op /\ own.pid = p /\ own.scope = call.scope
  BY ServerFields DEF Good, Types, Handled, Jobs
<1>2. /\ \A u \in Tasks : after[u] = IF u = t THEN own ELSE jo[u]
      /\ \A q \in Pids : now[q] = IF q = p THEN 0 ELSE li[q]
  BY DEF Good, Types
<1> HIDE DEF p, k, own, now, after
<1>3. \A u, v \in Tasks : after[u].op # "idle" /\ after[v].op # "idle" => u = v
  BY <1>2 DEF AllIdle
<1>4. \A l, m \in DOMAIN r :
         r[l].phase # "closed" /\ r[m].phase # "closed" /\ r[l].scope = r[m].scope => l = m
  <2>1. \A l \in DOMAIN s : r[l].scope = s[l].scope
            /\ (r[l].phase # "closed" => s[l].phase # "closed")
    BY <1>1 DEF Changed, k, p
  <2> QED BY <2>1 DEF Alone, Changed
<1>5. \A u \in Tasks : after[u].op = "update" => Free(r, after[u].scope)
  <2>1. \A l \in DOMAIN s : r[l].scope = s[l].scope
            /\ (r[l].phase # "closed" => s[l].phase # "closed")
    BY <1>1 DEF Changed, k, p
  <2>2. call.op = "update" => Free(r, call.scope)
    BY <2>1 DEF Free, Changed
  <2> QED BY <1>1, <1>2, <2>2 DEF AllIdle
<1>6. \A u \in Tasks : after[u].op \in {"update", "open"} => now[after[u].pid] = 0
  BY <1>1, <1>2 DEF AllIdle
<1>7. \A l \in DOMAIN r : r[l].phase = "running" =>
         r[l].engine.torn \/ \E q \in Pids : now[q] = l
  <2> SUFFICES ASSUME NEW l \in DOMAIN s, r[l].phase = "running", ~r[l].engine.torn
               PROVE  \E q \in Pids : now[q] = l
    BY DEF Changed
  <2>1. l # k /\ s[l].phase = "running" /\ ~s[l].engine.torn
    BY DEF Changed, k, p
  <2>2. PICK q \in Pids : li[q] = l
    BY <2>1 DEF Alone
  <2>3. q # p
    BY <2>1, <2>2 DEF k
  <2> QED BY <1>2, <2>2, <2>3
<1>8. Alone(now, r, after)
  BY <1>3, <1>4, <1>5, <1>6, <1>7 DEF Alone, Free
<1> QED BY <1>8 DEF p, k, own, now, after

LEMMA CreatedIsAlone ==
    ASSUME NEW sc, NEW li, NEW s, NEW jo, Good(sc, li, s, jo), Alone(li, s, jo), AllIdle(jo),
           NEW t \in Tasks, NEW call \in Jobs, Free(s, call.scope), li[call.pid] = 0
    PROVE  Alone(li, Append(s, New(call.scope)),
                 [jo EXCEPT ![t] = [call EXCEPT !.op = "open", !.server = Len(s) + 1]])
<1> DEFINE n == Len(s) + 1
           own == [call EXCEPT !.op = "open", !.server = n]
           r == Append(s, New(call.scope))
           after == [jo EXCEPT ![t] = own]
<1>1. /\ call.scope \in Scopes /\ own.op = "open" /\ own.pid = call.pid
      /\ ServersTyped(s) /\ Len(s) \in Nat /\ DOMAIN s = 1 .. Len(s)
  BY ServerFields DEF Good, Types, Jobs
<1>2. \A u \in Tasks : after[u] = IF u = t THEN own ELSE jo[u]
  BY DEF Good, Types
<1>3. /\ DOMAIN r = DOMAIN s \cup {n}
      /\ \A k \in DOMAIN s : r[k] = s[k]
      /\ r[n].phase = "opening" /\ r[n].scope = call.scope
  BY <1>1, ServerAdded
<1> HIDE DEF n, own, r, after
<1>4. \A l, m \in DOMAIN r :
         r[l].phase # "closed" /\ r[m].phase # "closed" /\ r[l].scope = r[m].scope => l = m
  BY <1>3 DEF Alone, Free
<1>5. \A l \in DOMAIN r : r[l].phase = "running" =>
         r[l].engine.torn \/ \E q \in Pids : li[q] = l
  BY <1>3 DEF Alone
<1>6. Alone(li, r, after)
  BY <1>1, <1>2, <1>4, <1>5 DEF Alone, AllIdle
<1> QED BY <1>6 DEF n, own, r, after

-----------------------------------------------------------------------------
(***************************************************************************)
(* The actions.                                                            *)
(***************************************************************************)
\* What is done to an engine leaves it torn.
Torn(e, f) == "torn" \in DOMAIN f /\ (e.torn => f.torn)

LEMMA EngineStaysTorn ==
    ASSUME NEW e, "torn" \in DOMAIN e, NEW x
    PROVE  /\ Torn(e, on_adding_service(e, x))
           /\ Torn(e, on_removed_service(e, x))
           /\ Torn(e, on_modified_service(e, x))
<1>1. Torn(e, e)
  BY DEF Torn
<1>2. Torn(e, bind_handler(e, x))
  BY DEF Torn, bind_handler
<1>3. Torn(e, unbind_handler(e, x))
  BY <1>1 DEF Torn, unbind_handler
<1>4. Torn(e, add_middleware(e, x)) /\ Torn(e, remove_middleware(e, x))
  BY DEF Torn, add_middleware, remove_middleware
<1>5. Torn(e, on_removed_service(e, x))
  <2>1. CASE x \in Routes
    BY <1>3, <2>1 DEF on_removed_service
  <2>2. CASE x \in ToSet(e.mws) \ Routes
    BY <1>4, <2>2 DEF on_removed_service
  <2>3. CASE x \notin Routes /\ x \notin ToSet(e.mws)
    BY <1>1, <2>3 DEF on_removed_service
  <2> QED BY <2>1, <2>2, <2>3
<1> QED BY <1>1, <1>2, <1>4, <1>5 DEF on_adding_service, on_modified_service

LEMMA ToldKeeps ==
    ASSUME IInv, NEW x, NEW bound, Told(x, bound),
           \A k \in DOMAIN server : server[k].phase = "running" =>
               Torn(server[k].engine, bound[k]),
           UNCHANGED <<scopes, listed, job, closed, overlapped>>
    PROVE  IInv'
<1>1. /\ Len(server) \in Nat /\ DOMAIN server = 1 .. Len(server)
      /\ ServersTyped(server) /\ Counted(scopes, server)
  BY ServerFields DEF IInv, Good, Types
<1>2. DOMAIN server' = 1 .. Len(server)
      /\ server' = [k \in 1 .. Len(server) |-> server'[k]]
  BY <1>1 DEF Told
<1>3. ASSUME NEW k \in 1 .. Len(server)
      PROVE  /\ server'[k] = [scope |-> server'[k].scope, phase |-> server'[k].phase,
                              engine |-> server'[k].engine]
             /\ server'[k].scope = server[k].scope /\ server'[k].phase = server[k].phase
             /\ server[k].phase = "running" => Torn(server[k].engine, server'[k].engine)
  <2>1. /\ server[k] = [scope |-> server[k].scope, phase |-> server[k].phase,
                        engine |-> server[k].engine]
        /\ server[k].phase = "running" => "torn" \in DOMAIN server[k].engine
    BY <1>1, ServerFields
  <2>2. CASE server[k].phase = "running" /\ Matches(server[k].scope, x)
    <3>1. server'[k] = [server[k] EXCEPT !.engine = bound[k]]
      BY <1>1, <2>2 DEF Told
    <3>2. server'[k] = [scope |-> server[k].scope, phase |-> server[k].phase,
                        engine |-> bound[k]]
      BY <2>1, <3>1
    <3> QED BY <1>1, <2>2, <3>2
  <2>3. CASE ~(server[k].phase = "running" /\ Matches(server[k].scope, x))
    <3>1. server'[k] = server[k]
      BY <1>1, <2>3 DEF Told
    <3> QED BY <2>1, <3>1 DEF Torn
  <2> QED BY <2>2, <2>3
<1>4. ServersTyped(server') /\ Len(server') = Len(server)
  <2>1. \A k \in 1 .. Len(server) :
          /\ server'[k] = [scope |-> server'[k].scope, phase |-> server'[k].phase,
                           engine |-> server'[k].engine]
          /\ server'[k].scope \in Scopes /\ server'[k].phase \in Phases
          /\ server'[k].phase = "running" => "torn" \in DOMAIN server'[k].engine
    BY <1>1, <1>3, ServerFields DEF Torn
  <2> QED BY <1>1, <1>2, <2>1, ServersTypedBy
<1>5. Counted(scopes, server')
  BY <1>1, <1>2, <1>3, SameIsCounted
<1>6. Types(scopes, listed, server', job)
  BY <1>4 DEF IInv, Good, Types
<1>7. Handled(listed, server', job)
  <2>1. /\ \A t \in Tasks : job[t].op \in Calls
        /\ \A t \in Tasks : job[t].op # "idle" => job[t].server \in 1 .. Len(server)
        /\ \A p \in Pids : listed[p] # 0 => listed[p] \in 1 .. Len(server)
    BY <1>1 DEF IInv, Good, Types, Jobs
  <2> QED BY <1>3, <2>1 DEF IInv, Good, Handled
<1>8. Good(scopes, listed, server, job)'
  BY <1>5, <1>6, <1>7 DEF Good
<1>9. Alone(listed, server, job) => Alone(listed, server', job)
  <2> SUFFICES ASSUME Alone(listed, server, job) PROVE Alone(listed, server', job)
    OBVIOUS
  <2>1. \A k \in DOMAIN server' : server'[k].phase = "running" =>
          server'[k].engine.torn \/ \E p \in Pids : listed[p] = k
    BY <1>1, <1>2, <1>3 DEF Alone, Torn
  <2> QED BY <1>1, <1>2, <1>3, <2>1 DEF Alone
<1> QED BY <1>8, <1>9 DEF IInv

\* Services come and go.
LEMMA EventsKeep ==
    ASSUME IInv, NEW x, Register(x) \/ Modify(x) \/ Unregister(x)
    PROVE  IInv'
<1>1. \A k \in DOMAIN server : server[k].phase = "running" =>
          "torn" \in DOMAIN server[k].engine
  BY ServerFields DEF IInv, Good, Types
<1>2. CASE Register(x)
  <2> DEFINE bound == [k \in DOMAIN server |-> on_adding_service(server[k].engine, x)]
  <2>1. \A k \in DOMAIN server : server[k].phase = "running" =>
            Torn(server[k].engine, bound[k])
    BY <1>1, EngineStaysTorn
  <2>2. Told(x, bound) /\ UNCHANGED <<scopes, listed, job, closed, overlapped>>
    BY <1>2 DEF Register
  <2> HIDE DEF bound
  <2> QED BY <2>1, <2>2, ToldKeeps
<1>3. CASE Modify(x)
  <2> DEFINE bound == [k \in DOMAIN server |-> on_modified_service(server[k].engine, x)]
  <2>1. \A k \in DOMAIN server : server[k].phase = "running" =>
            Torn(server[k].engine, bound[k])
    BY <1>1, EngineStaysTorn
  <2>2. Told(x, bound) /\ UNCHANGED <<scopes, listed, job, closed, overlapped>>
    BY <1>3 DEF Modify
  <2> HIDE DEF bound
  <2> QED BY <2>1, <2>2, ToldKeeps
<1>4. CASE Unregister(x)
  <2> DEFINE bound == [k \in DOMAIN server |-> on_removed_service(server[k].engine, x)]
  <2>1. \A k \in DOMAIN server : server[k].phase = "running" =>
            Torn(server[k].engine, bound[k])
    BY <1>1, EngineStaysTorn
  <2>2. Told(x, bound) /\ UNCHANGED <<scopes, listed, job, closed, overlapped>>
    BY <1>4 DEF Unregister
  <2> HIDE DEF bound
  <2> QED BY <2>1, <2>2, ToldKeeps
<1> QED BY <1>2, <1>3, <1>4

\* A scope that is not in the list is that of no living server.
LEMMA RefusedOrFree ==
    ASSUME NEW sc, NEW li, NEW s, NEW jo, Good(sc, li, s, jo),
           NEW scope \in Scopes, scope \notin ToSet(sc)
    PROVE  Free(s, scope)
<1>1. Places(sc, scope) = {}
  BY DEF Places, ToSet
<1>2. Cardinality(Living(s, scope)) = 0
  BY <1>1, FS_EmptySet DEF Good, Counted
<1>3. Living(s, scope) = {}
  BY <1>2, LivingFinite, FS_EmptySet DEF Good, Types
<1> QED BY <1>3 DEF Free, Living

LEMMA BeginRemoveKeeps ==
    ASSUME NEW sc, NEW s, NEW t \in Tasks,
           Good(sc, listed, s, Returned(job, t)), job \in [Tasks -> Jobs],
           NEW call \in Jobs, call.op \in {"update", "delete", "close"},
           listed[call.pid] # 0, BeginRemove(t, call, s)
    PROVE  /\ Good(sc, listed', server', job')
           /\ Alone(listed, s, Returned(job, t)) /\ AllIdle(Returned(job, t))
                /\ (call.op = "update" => Free(s, call.scope))
                => Alone(listed', server', job')
           /\ listed' = [listed EXCEPT ![call.pid] = 0]
           /\ job' = [Returned(job, t) EXCEPT ![t] = [call EXCEPT !.server = listed[call.pid]]]
<1> DEFINE k == listed[call.pid]
           engine == TrackersClosed(s[k].engine)
<1>1. call.pid \in Pids /\ ServersTyped(s) /\ k \in 1 .. Len(s) /\ Returned(job, t)[t].op = "idle"
  BY ServerFields, IdleIsAJob DEF Good, Types, Jobs, Returned
<1>2. server' = [s EXCEPT ![k].phase = "closing", ![k].engine = engine]
  <2>1. /\ s[k] = [scope |-> s[k].scope, phase |-> s[k].phase, engine |-> s[k].engine]
        /\ DOMAIN s = 1 .. Len(s)
    BY <1>1, ServerFields
  <2>2. [s EXCEPT ![k].phase = "closing"][k].engine = s[k].engine
    BY <1>1, <2>1
  <2> QED BY <2>2 DEF BeginRemove
<1>3. Changed(s, server', k, "closing", engine)
  <2>1. "closing" \in Phases
    BY DEF Phases
  <2> HIDE DEF k, engine
  <2> QED BY <1>1, <1>2, <2>1, PhaseAndEngineSet
<1>4. /\ listed' = [listed EXCEPT ![call.pid] = 0]
      /\ job' = [Returned(job, t) EXCEPT ![t] = [call EXCEPT !.server = k]]
  BY DEF BeginRemove, Returned
<1> HIDE DEF engine
<1>5. Good(sc, listed', server', job')
  BY <1>1, <1>3, <1>4, BegunIsGood
<1>6. ASSUME Alone(listed, s, Returned(job, t)), AllIdle(Returned(job, t)), call.op = "update" => Free(s, call.scope)
      PROVE  Alone(listed', server', job')
  BY <1>1, <1>3, <1>4, <1>6, BegunIsAlone
<1> QED BY <1>4, <1>5, <1>6

LEMMA CreateKeeps ==
    ASSUME NEW sc, NEW s, NEW t \in Tasks,
           Good(sc, listed, s, Returned(job, t)), job \in [Tasks -> Jobs],
           NEW call \in Jobs, Create(t, call, sc, s)
    PROVE  /\ Good(scopes', listed, server', job')
           /\ Alone(listed, s, Returned(job, t)) /\ AllIdle(Returned(job, t))
                /\ Free(s, call.scope) /\ listed[call.pid] = 0
                => Alone(listed, server', job')
<1>1. Returned(job, t)[t].op = "idle"
  BY IdleIsAJob DEF Returned
<1>2. CASE call.valid
  <2>1. /\ scopes' = Append(sc, call.scope) /\ server' = Append(s, New(call.scope))
        /\ job' = [Returned(job, t) EXCEPT ![t] = [call EXCEPT !.op = "open", !.server = Len(s) + 1]]
    BY <1>2 DEF Create, Returned
  <2>2. Good(scopes', listed, server', job')
    BY <1>1, <2>1, CreatedIsGood
  <2>3. ASSUME Alone(listed, s, Returned(job, t)), AllIdle(Returned(job, t)), Free(s, call.scope), listed[call.pid] = 0
        PROVE  Alone(listed, server', job')
    BY <2>1, <2>3, CreatedIsAlone
  <2> QED BY <2>2, <2>3
<1>3. CASE ~call.valid
  <2>1. scopes' = sc /\ server' = s /\ job' = Returned(job, t)
    BY <1>3 DEF Create, Return, Returned
  <2> QED BY <2>1
<1> QED BY <1>2, <1>3

\* The loop of close: what is still listed is in what it has left.
LEMMA CloseOnKeeps ==
    ASSUME NEW sc, NEW s, NEW t \in Tasks,
           Good(sc, listed, s, Returned(job, t)), job \in [Tasks -> Jobs],
           NEW left \in Seq(Pids), CloseOn(t, left, s)
    PROVE  /\ Good(sc, listed', server', job')
           /\ Alone(listed, s, Returned(job, t)) /\ AllIdle(Returned(job, t)) => Alone(listed', server', job')
           /\ AllIdle(Returned(job, t)) /\ (\A p \in Pids : listed[p] # 0 => p \in ToSet(left))
                => Closing(listed', job')
<1> DEFINE Waiting == {i \in DOMAIN left : listed[left[i]] # 0}
           i == CHOOSE i \in Waiting : \A j \in Waiting : i <= j
           rest == SubSeq(left, i + 1, Len(left))
           call == [Idle EXCEPT !.op = "close", !.pid = left[i], !.left = rest]
<1>1. Len(left) \in Nat /\ DOMAIN left = 1 .. Len(left) /\ \A j \in DOMAIN left : left[j] \in Pids
  BY LenProperties, ElementOfSeq
<1>2. CASE Waiting = {}
  <2>1. job' = Returned(job, t) /\ server' = s /\ listed' = listed
    BY <1>2 DEF CloseOn, Return, Returned
  <2>2. ASSUME AllIdle(Returned(job, t)), \A p \in Pids : listed[p] # 0 => p \in ToSet(left)
        PROVE  Closing(listed', job')
    BY <1>2, <2>1, <2>2 DEF Closing, AllIdle, ToSet
  <2> QED BY <2>1, <2>2
<1>3. CASE Waiting # {}
  <2>1. \E n \in Waiting : \A j \in Waiting : n <= j
    <3>1. Waiting \in SUBSET Nat
      BY <1>1
    <3> HIDE DEF Waiting
    <3> QED BY <1>3, <3>1, LeastExists
  <2>2. i \in Waiting /\ \A j \in Waiting : i <= j
    <3> HIDE DEF Waiting
    <3> QED BY <2>1
  <2>3. BeginRemove(t, call, s)
    BY <1>3 DEF CloseOn
  <2> HIDE DEF i
  <2>4. /\ rest \in Seq(Pids)
        /\ Len(rest) = IF i + 1 <= Len(left) THEN Len(left) - (i + 1) + 1 ELSE 0
        /\ \A j \in 1 .. Len(left) - (i + 1) + 1 : rest[j] = left[(i + 1) + j - 1]
    <3>1. i \in 1 .. Len(left) /\ \A j \in i + 1 .. Len(left) : left[j] \in Pids
      BY <1>1, <2>2
    <3>2. i + 1 \in Int /\ Len(left) \in Int
      BY <1>1, <3>1
    <3> QED BY <3>1, <3>2, SubSeqProperties
  <2> HIDE DEF rest
  <2>5. call \in Jobs /\ call.op = "close" /\ call.pid = left[i] /\ call.left = rest
    <3>1. Idle \in Jobs /\ left[i] \in Pids /\ "close" \in Calls
      BY <1>1, <2>2, IdleIsAJob DEF Calls
    <3> QED BY <2>4, <3>1 DEF Jobs
  <2> HIDE DEF call
  <2>6. /\ Good(sc, listed', server', job')
        /\ Alone(listed, s, Returned(job, t)) /\ AllIdle(Returned(job, t)) => Alone(listed', server', job')
        /\ listed' = [listed EXCEPT ![call.pid] = 0]
        /\ job' = [Returned(job, t) EXCEPT ![t] = [call EXCEPT !.server = listed[call.pid]]]
    <3>1. listed[call.pid] # 0
      BY <2>2, <2>5
    <3> QED BY <2>3, <2>5, <3>1, BeginRemoveKeeps
  <2>7. ASSUME AllIdle(Returned(job, t)), \A p \in Pids : listed[p] # 0 => p \in ToSet(left)
        PROVE  Closing(listed', job')
    <3>1. /\ \A u \in Tasks : u # t => job'[u].op = "idle"
          /\ job'[t].op = "close" /\ job'[t].left = rest
      <4>1. [call EXCEPT !.server = listed[call.pid]].op = "close"
            /\ [call EXCEPT !.server = listed[call.pid]].left = rest
        BY <2>5 DEF Jobs
      <4>2. Returned(job, t) \in [Tasks -> Jobs]
        BY DEF Good, Types
      <4> QED BY <2>6, <2>7, <4>1, <4>2 DEF AllIdle
    <3>2. ASSUME NEW p \in Pids, listed'[p] # 0
          PROVE  p \in ToSet(rest)
      <4>1. p # left[i] /\ listed[p] # 0
        BY <2>5, <2>6, <3>2 DEF Good, Types
      <4>2. PICK j \in DOMAIN left : left[j] = p
        BY <2>7, <4>1 DEF ToSet
      <4>3. j > i
        BY <1>1, <2>2, <4>1, <4>2
      <4> DEFINE l == j - i
      <4>4. /\ l \in 1 .. Len(left) - (i + 1) + 1 /\ (i + 1) + l - 1 = j
            /\ Len(left) - (i + 1) + 1 = Len(rest)
        BY <1>1, <2>2, <2>4, <4>2, <4>3
      <4> HIDE DEF l
      <4>5. rest[l] = p
        BY <2>4, <4>2, <4>4
      <4>6. DOMAIN rest = 1 .. Len(rest)
        BY <2>4, LenProperties
      <4>7. l \in DOMAIN rest
        BY <4>4, <4>6
      <4> QED BY <4>5, <4>7 DEF ToSet
    <3> QED BY <3>1, <3>2 DEF Closing
  <2> QED BY <2>6, <2>7
<1> QED BY <1>2, <1>3

\* A call that begins while nothing has overlapped is the only one.
LEMMA BegunAlone ==
    ASSUME IInv, NEW t \in Tasks, job[t] = Idle, Called
    PROVE  /\ overlapped' \in BOOLEAN /\ job \in [Tasks -> Jobs] /\ Returned(job, t) = job
           /\ ~overlapped' => ~overlapped /\ AllIdle(job)
<1>1. overlapped' \in BOOLEAN /\ job \in [Tasks -> Jobs]
  BY DEF IInv, Good, Types, Called
<1>2. Returned(job, t) = job
  BY <1>1 DEF Returned
<1>3. ~overlapped' => ~overlapped /\ AllIdle(job)
  BY IdleIsAJob DEF IInv, Called, AllIdle
<1> QED BY <1>1, <1>2, <1>3

LEMMA UpdatedKeeps ==
    ASSUME IInv, NEW t \in Tasks, NEW pid \in Pids, NEW scope \in Scopes,
           NEW valid \in BOOLEAN, updated(t, pid, scope, valid)
    PROVE  IInv'
<1> DEFINE call == [Idle EXCEPT !.op = "update", !.pid = pid, !.scope = scope, !.valid = valid]
<1>1. /\ call \in Jobs /\ call.op = "update" /\ call.pid = pid /\ call.scope = scope
  BY IdleIsAJob DEF Jobs, Calls
<1>2. /\ job[t] = Idle /\ ~closed /\ closed' = closed /\ scope \notin ToSet(scopes) /\ Called
  BY DEF updated, Refused
<1>3. /\ overlapped' \in BOOLEAN /\ job \in [Tasks -> Jobs] /\ Returned(job, t) = job
      /\ ~overlapped' => ~overlapped /\ AllIdle(job)
  BY <1>2, BegunAlone
<1>4. Good(scopes, listed, server, Returned(job, t))
  BY <1>3 DEF IInv
<1>5. Free(server, scope)
  BY <1>2, <1>4, RefusedOrFree
<1>6. CASE listed[pid] # 0
  <2>1. BeginRemove(t, call, server) /\ scopes' = scopes
    BY <1>6 DEF updated
  <2> HIDE DEF call
  <2>2. /\ Good(scopes, listed', server', job')
        /\ Alone(listed, server, Returned(job, t)) /\ AllIdle(Returned(job, t)) /\ Free(server, call.scope)
             => Alone(listed', server', job')
    BY <1>1, <1>3, <1>4, <1>6, <2>1, BeginRemoveKeeps
  <2> QED BY <1>1, <1>2, <1>3, <1>5, <2>1, <2>2 DEF IInv
<1>7. CASE listed[pid] = 0
  <2>1. Create(t, call, scopes, server) /\ listed' = listed
    BY <1>7 DEF updated
  <2> HIDE DEF call
  <2>2. /\ Good(scopes', listed, server', job')
        /\ Alone(listed, server, Returned(job, t)) /\ AllIdle(Returned(job, t))
             /\ Free(server, call.scope) /\ listed[call.pid] = 0
             => Alone(listed, server', job')
    BY <1>1, <1>3, <1>4, <2>1, CreateKeeps
  <2> QED BY <1>1, <1>2, <1>3, <1>5, <1>7, <2>1, <2>2 DEF IInv
<1> QED BY <1>6, <1>7

LEMMA DeletedKeeps ==
    ASSUME IInv, NEW t \in Tasks, NEW pid \in Pids, deleted(t, pid)
    PROVE  IInv'
<1> DEFINE call == [Idle EXCEPT !.op = "delete", !.pid = pid]
<1>1. /\ call \in Jobs /\ call.op = "delete" /\ call.pid = pid
  BY IdleIsAJob DEF Jobs, Calls
<1>2. /\ job[t] = Idle /\ ~closed /\ closed' = closed /\ Called
      /\ listed[pid] # 0 /\ BeginRemove(t, call, server) /\ scopes' = scopes
  BY DEF deleted
<1>3. /\ overlapped' \in BOOLEAN /\ job \in [Tasks -> Jobs] /\ Returned(job, t) = job
      /\ ~overlapped' => ~overlapped /\ AllIdle(job)
  BY <1>2, BegunAlone
<1> HIDE DEF call
<1>4. /\ Good(scopes, listed', server', job')
      /\ Alone(listed, server, Returned(job, t)) /\ AllIdle(Returned(job, t))
           => Alone(listed', server', job')
  <2>1. Good(scopes, listed, server, Returned(job, t))
    BY <1>3 DEF IInv
  <2> QED BY <1>1, <1>2, <1>3, <2>1, BeginRemoveKeeps
<1> QED BY <1>2, <1>3, <1>4 DEF IInv

\* close takes the names as they are listed when it is called.
LEMMA CloseKeeps ==
    ASSUME IInv, NEW t \in Tasks, close(t)
    PROVE  IInv'
<1> DEFINE Names0 == {p \in Pids : listed[p] # 0}
<1>1. /\ job[t] = Idle /\ closed' = TRUE /\ Called /\ scopes' = scopes
  BY DEF close
<1>2. /\ overlapped' \in BOOLEAN /\ job \in [Tasks -> Jobs] /\ Returned(job, t) = job
      /\ ~overlapped' => ~overlapped /\ AllIdle(job)
  BY <1>1, BegunAlone
<1>3. PICK pids \in SetToSeqs(Names0) : CloseOn(t, pids, server)
  BY DEF close
<1>4. IsFiniteSet(Names0) /\ Cardinality(Names0) \in Nat
  <2>1. IsFiniteSet(Names0)
    <3>1. Names0 \in SUBSET Pids
      OBVIOUS
    <3> QED BY <3>1, FS_Subset, ServerAssumption
  <2> QED BY <2>1, FS_CardinalityType
<1> HIDE DEF Names0
<1>5. /\ pids \in [1 .. Cardinality(Names0) -> Names0]
      /\ \A i, j \in 1 .. Cardinality(Names0) : pids[i] = pids[j] => i = j
  BY <1>3 DEF SetToSeqs
<1>6. pids \in Seq(Pids)
  <2>1. pids \in [1 .. Cardinality(Names0) -> Pids]
    BY <1>5 DEF Names0
  <2> QED BY <1>4, <2>1, SeqDef
<1>7. \A p \in Names0 : p \in ToSet(pids)
  <2> DEFINE D == 1 .. Cardinality(Names0)
  <2>1. IsFiniteSet(D) /\ Cardinality(D) = Cardinality(Names0)
    <3>1. IsFiniteSet(D) /\ Cardinality(D) = IF 1 > Cardinality(Names0) THEN 0
                                             ELSE Cardinality(Names0) - 1 + 1
      BY <1>4, FS_Interval
    <3> QED BY <1>4, <3>1
  <2> HIDE DEF D
  <2>2. pids \in [D -> Names0] /\ \A i, j \in D : pids[i] = pids[j] => i = j
    BY <1>5 DEF D
  <2>3. pids \in Injection(D, Names0)
    BY <2>2, Fun_IsInj
  <2>4. pids \in Surjection(D, Names0)
    BY <1>4, <2>1, <2>3, FS_Injection
  <2> QED BY <2>4 DEF Surjection, ToSet
<1>8. /\ Good(scopes, listed', server', job')
      /\ Alone(listed, server, Returned(job, t)) /\ AllIdle(Returned(job, t))
           => Alone(listed', server', job')
      /\ AllIdle(Returned(job, t)) /\ (\A p \in Pids : listed[p] # 0 => p \in ToSet(pids))
           => Closing(listed', job')
  <2>1. Good(scopes, listed, server, Returned(job, t))
    BY <1>2 DEF IInv
  <2> QED BY <1>2, <1>3, <1>6, <2>1, CloseOnKeeps
<1>9. \A p \in Pids : listed[p] # 0 => p \in ToSet(pids)
  BY <1>7 DEF Names0
<1> QED BY <1>1, <1>2, <1>8, <1>9 DEF IInv

\* server.close returned: the scope is given back, and then the call goes on.
LEMMA RemovedKeeps ==
    ASSUME IInv, NEW t \in Tasks, Removed(t)
    PROVE  IInv'
<1> DEFINE call == job[t]
           k == call.server
           servers == [server EXCEPT ![k].phase = "closed"]
           free == RemoveFirst(scopes, server[k].scope)
<1>1. /\ Good(scopes, listed, server, job) /\ job \in [Tasks -> Jobs] /\ call \in Jobs
      /\ call.op \in {"update", "delete", "close"}
      /\ closed \in BOOLEAN /\ overlapped \in BOOLEAN
      /\ closed' = closed /\ overlapped' = overlapped
  BY DEF IInv, Good, Types, Removed
<1>2. Good(free, listed, servers, Returned(job, t))
  BY <1>1, ClosedIsGood
<1>3. ASSUME ~overlapped
      PROVE  /\ AllIdle(Returned(job, t)) /\ Alone(listed, servers, Returned(job, t))
             /\ call.op = "update" => Free(servers, call.scope) /\ listed[call.pid] = 0
  <2>1. Changed(server, servers, k, "closed", server[k].engine)
    <3>1. ServersTyped(server) /\ k \in 1 .. Len(server)
      BY <1>1 DEF Good, Types
    <3>2. "closed" \in Phases /\ "closed" # "running"
      BY DEF Phases
    <3> QED BY <3>1, <3>2, PhaseSet
  <2>2. Alone(listed, server, job)
    BY <1>3 DEF IInv
  <2> HIDE DEF servers
  <2> QED BY <1>1, <2>1, <2>2, ClosedIsAlone
<1>4. CASE call.op = "update"
  <2>1. Create(t, call, free, servers) /\ listed' = listed
    BY <1>4 DEF Removed, Freed
  <2> HIDE DEF call, k, servers, free
  <2>2. /\ Good(scopes', listed, server', job')
        /\ Alone(listed, servers, Returned(job, t)) /\ AllIdle(Returned(job, t))
             /\ Free(servers, call.scope) /\ listed[call.pid] = 0
             => Alone(listed, server', job')
    BY <1>1, <1>2, <2>1, CreateKeeps
  <2>3. ~(~overlapped /\ closed)
    BY <1>1, <1>4 DEF IInv, Closing, call
  <2> QED BY <1>1, <1>3, <1>4, <2>1, <2>2, <2>3 DEF IInv
<1>5. CASE call.op = "delete"
  <2>1. job' = Returned(job, t) /\ server' = servers /\ scopes' = free /\ listed' = listed
    BY <1>5 DEF Removed, Freed, Return, Returned
  <2> HIDE DEF k, servers, free
  <2>2. ~(~overlapped /\ closed)
    BY <1>1, <1>5 DEF IInv, Closing
  <2> QED BY <1>1, <1>2, <1>3, <2>1, <2>2 DEF IInv
<1>6. CASE call.op = "close"
  <2>1. CloseOn(t, call.left, servers) /\ scopes' = free
    BY <1>6 DEF Removed, Freed
  <2>2. call.left \in Seq(Pids)
    BY <1>1 DEF Jobs
  <2> HIDE DEF k, servers, free
  <2>3. /\ Good(scopes', listed', server', job')
        /\ Alone(listed, servers, Returned(job, t)) /\ AllIdle(Returned(job, t))
             => Alone(listed', server', job')
        /\ AllIdle(Returned(job, t)) /\ (\A p \in Pids : listed[p] # 0 => p \in ToSet(call.left))
             => Closing(listed', job')
    BY <1>1, <1>2, <2>1, <2>2, CloseOnKeeps
  <2>4. ASSUME ~overlapped, closed, NEW p \in Pids, listed[p] # 0
        PROVE  p \in ToSet(call.left)
    <3>1. PICK u \in Tasks : job[u].op = "close" /\ p \in ToSet(job[u].left)
      BY <2>4 DEF IInv, Closing
    <3>2. u = t
      BY <1>1, <2>4, <3>1 DEF IInv, Alone
    <3> QED BY <3>1, <3>2
  <2> QED BY <1>1, <1>3, <2>3, <2>4 DEF IInv
<1> QED BY <1>1, <1>4, <1>5, <1>6

\* server.open returned.
LEMMA OpenedKeeps ==
    ASSUME IInv, Bound, NEW t \in Tasks, Opened(t)
    PROVE  IInv'
<1> DEFINE k == job[t].server
           engine == TrackersOpened(server[k].scope)
<1>1. /\ Good(scopes, listed, server, job) /\ job[t].op = "open"
      /\ closed \in BOOLEAN /\ overlapped \in BOOLEAN
      /\ closed' = closed /\ overlapped' = overlapped /\ scopes' = scopes
      /\ job' = Returned(job, t) /\ listed' = Listed(t, engine)
  BY DEF IInv, Opened, Return, Returned
<1>2. "torn" \in DOMAIN engine
  <2>1. RightFor(engine, Seen(server[k].scope, registered))
    BY TrackersOpenedIsRight DEF Bound
  <2> HIDE DEF engine
  <2> QED BY <2>1 DEF RightFor, IsEngine
<1>3. server' = [server EXCEPT ![k].phase = "running", ![k].engine = engine]
  BY DEF Opened
<1> HIDE DEF engine
<1>4. Changed(server, server', k, "running", engine)
  <2>1. ServersTyped(server) /\ k \in 1 .. Len(server)
    BY <1>1 DEF Good, Types
  <2>2. "running" \in Phases
    BY DEF Phases
  <2> HIDE DEF k
  <2> QED BY <1>2, <1>3, <2>1, <2>2, PhaseAndEngineSet
<1>5. \/ listed' = listed /\ engine.torn
      \/ listed' = [listed EXCEPT ![job[t].pid] = job[t].server]
  BY <1>1 DEF Listed
<1>6. Good(scopes, listed', server', job')
  <2>1. "running" \in {"running", "failed"}
    OBVIOUS
  <2> QED BY <1>1, <1>4, <1>5, <2>1, OpenedIsGood
<1>7. ASSUME ~overlapped PROVE Alone(listed', server', job') /\ ~closed
  <2>1. Alone(listed, server, job) /\ ~closed
    BY <1>1, <1>7 DEF IInv, Closing
  <2>2. "running" \in {"running", "failed"}
    OBVIOUS
  <2>3. Alone(listed', server', job')
    BY <1>1, <1>4, <1>5, <2>1, <2>2, OpenedIsAlone
  <2> QED BY <2>1, <2>3
<1> QED BY <1>1, <1>6, <1>7 DEF IInv

\* server.open raised OSError.
LEMMA OpenFailsKeeps ==
    ASSUME IInv, NEW t \in Tasks, OpenFails(t)
    PROVE  IInv'
<1> DEFINE k == job[t].server
<1>1. /\ Good(scopes, listed, server, job) /\ job[t].op = "open"
      /\ closed \in BOOLEAN /\ overlapped \in BOOLEAN
      /\ closed' = closed /\ overlapped' = overlapped /\ scopes' = scopes
      /\ job' = Returned(job, t) /\ listed' = listed
      /\ server' = [server EXCEPT ![k].phase = "failed"]
  BY DEF IInv, OpenFails, Return, Returned
<1>2. Changed(server, server', k, "failed", server[k].engine)
  <2>1. ServersTyped(server) /\ k \in 1 .. Len(server)
    BY <1>1 DEF Good, Types
  <2>2. "failed" \in Phases /\ "failed" # "running"
    BY DEF Phases
  <2> HIDE DEF k
  <2> QED BY <1>1, <2>1, <2>2, PhaseSet
<1>3. "failed" \in {"running", "failed"}
  OBVIOUS
<1>4. Good(scopes, listed', server', job')
  BY <1>1, <1>2, <1>3, OpenedIsGood
<1>5. ASSUME ~overlapped PROVE Alone(listed', server', job') /\ ~closed
  <2>1. Alone(listed, server, job) /\ ~closed
    BY <1>1, <1>5 DEF IInv, Closing
  <2>2. Alone(listed', server', job')
    BY <1>1, <1>2, <1>3, <2>1, OpenedIsAlone
  <2> QED BY <2>1, <2>2
<1> QED BY <1>1, <1>4, <1>5 DEF IInv

LEMMA InitEstablishesIInv == Init => IInv
<1> SUFFICES ASSUME Init PROVE IInv
  OBVIOUS
<1>1. /\ scopes = <<>> /\ server = <<>> /\ Len(server) = 0
      /\ DOMAIN scopes = {} /\ DOMAIN server = {}
  BY EmptySeq DEF Init
<1>2. \A t \in Tasks : job[t] = Idle /\ job[t].op = "idle"
  BY IdleIsAJob DEF Init
<1>3. Types(scopes, listed, server, job)
  <2>1. <<>> \in Seq(Scopes) /\ server \in Seq(Servers(server))
    BY <1>1, EmptySeq
  <2>2. listed \in [Pids -> 0 .. Len(server)]
    BY <1>1 DEF Init
  <2>3. job \in [Tasks -> Jobs]
    BY IdleIsAJob DEF Init
  <2> QED BY <1>1, <1>2, <2>1, <2>2, <2>3 DEF Types, ServersTyped
<1>4. Handled(listed, server, job)
  BY <1>2 DEF Init, Handled
<1>5. Counted(scopes, server)
  BY <1>1 DEF Counted, Places, Living
<1>6. Alone(listed, server, job)
  BY <1>1, <1>2 DEF Alone
<1> QED BY <1>3, <1>4, <1>5, <1>6 DEF Init, IInv, Good

-----------------------------------------------------------------------------
(***************************************************************************)
(* What is bound stays right.                                              *)
(***************************************************************************)
\* No server of r runs that did not in s, and none has another engine.
RunningKept(s, r) ==
    \A k \in DOMAIN r : r[k].phase = "running" =>
        /\ k \in DOMAIN s /\ s[k].phase = "running"
        /\ r[k].engine = s[k].engine /\ r[k].scope = s[k].scope

LEMMA KeptIsBound ==
    ASSUME Bound, RunningKept(server, server'), registered' = registered
    PROVE  Bound'
BY DEF Bound, RunningKept

LEMMA ChangedIsKept ==
    ASSUME NEW s, NEW r, NEW k, NEW phase, phase # "running", NEW engine,
           Changed(s, r, k, phase, engine)
    PROVE  RunningKept(s, r)
BY DEF Changed, RunningKept

LEMMA BeginRemoveIsKept ==
    ASSUME NEW s, ServersTyped(s), NEW t, NEW call, BeginRemove(t, call, s)
    PROVE  RunningKept(s, server')
<1> DEFINE k == listed[call.pid]
           engine == TrackersClosed(s[k].engine)
<1>1. /\ DOMAIN s = 1 .. Len(s)
      /\ \A l \in DOMAIN s :
           s[l] = [scope |-> s[l].scope, phase |-> s[l].phase, engine |-> s[l].engine]
  BY ServerFields
<1>2. CASE k \in DOMAIN s
  <2>1. server' = [s EXCEPT ![k].phase = "closing", ![k].engine = engine]
    <3>1. [s EXCEPT ![k].phase = "closing"][k].engine = s[k].engine
      BY <1>1, <1>2
    <3> QED BY <3>1 DEF BeginRemove
  <2>2. "closing" \in Phases /\ "closing" # "running" /\ k \in 1 .. Len(s)
    BY <1>1, <1>2 DEF Phases
  <2> HIDE DEF k, engine
  <2>3. Changed(s, server', k, "closing", engine)
    BY <2>1, <2>2, PhaseAndEngineSet
  <2> QED BY <2>2, <2>3, ChangedIsKept
<1>3. CASE k \notin DOMAIN s
  <2>1. DOMAIN server' = DOMAIN s /\ \A l \in DOMAIN s : server'[l] = s[l]
    BY <1>3 DEF BeginRemove
  <2> QED BY <2>1 DEF RunningKept
<1> QED BY <1>2, <1>3

LEMMA CreateIsKept ==
    ASSUME NEW s, ServersTyped(s), NEW t, NEW call, call.scope \in Scopes, NEW sc,
           Create(t, call, sc, s)
    PROVE  RunningKept(s, server')
<1>1. CASE call.valid
  <2>1. server' = Append(s, New(call.scope))
    BY <1>1 DEF Create
  <2>2. LET n == Len(s) + 1
        IN  /\ DOMAIN server' = 1 .. n
            /\ \A k \in DOMAIN s : server'[k] = s[k]
            /\ server'[n].phase = "opening"
    BY <2>1, ServerAdded
  <2>3. Len(s) \in Nat /\ DOMAIN s = 1 .. Len(s)
    BY ServerFields
  <2>4. \A k \in DOMAIN server' : k \in DOMAIN s \/ k = Len(s) + 1
    BY <2>2, <2>3
  <2> QED BY <2>2, <2>4 DEF RunningKept
<1>2. CASE ~call.valid
  BY <1>2 DEF Create, RunningKept
<1> QED BY <1>1, <1>2

LEMMA CloseOnIsKept ==
    ASSUME NEW s, ServersTyped(s), NEW t, NEW left, CloseOn(t, left, s)
    PROVE  RunningKept(s, server')
<1>1. CASE server' = s
  BY <1>1 DEF RunningKept
<1>2. CASE \E call : BeginRemove(t, call, s)
  BY <1>2, BeginRemoveIsKept
<1> QED BY <1>1, <1>2 DEF CloseOn

\* The calls of ServerService, but for the one that opens the trackers.
LEMMA CallsKeepBound ==
    ASSUME IInv, Bound, NEW t \in Tasks,
           \/ \E pid \in Pids, scope \in Scopes, valid \in BOOLEAN : updated(t, pid, scope, valid)
           \/ \E pid \in Pids : deleted(t, pid)
           \/ close(t) \/ Removed(t) \/ OpenFails(t)
    PROVE  Bound'
<1>1. ServersTyped(server) /\ job \in [Tasks -> Jobs]
  BY DEF IInv, Good, Types
<1>2. CASE \E pid \in Pids, scope \in Scopes, valid \in BOOLEAN : updated(t, pid, scope, valid)
  <2>1. PICK pid \in Pids, scope \in Scopes, valid \in BOOLEAN : updated(t, pid, scope, valid)
    BY <1>2
  <2> DEFINE call == [Idle EXCEPT !.op = "update", !.pid = pid, !.scope = scope, !.valid = valid]
  <2>2. call.scope \in Scopes
    BY DEF Idle
  <2>3. /\ registered' = registered
        /\ BeginRemove(t, call, server) \/ Create(t, call, scopes, server)
    BY <2>1 DEF updated
  <2> HIDE DEF call
  <2>4. RunningKept(server, server')
    BY <1>1, <2>2, <2>3, BeginRemoveIsKept, CreateIsKept
  <2> QED BY <2>3, <2>4, KeptIsBound
<1>3. CASE \E pid \in Pids : deleted(t, pid)
  <2>1. registered' = registered /\ \E call : BeginRemove(t, call, server)
    BY <1>3 DEF deleted
  <2> QED BY <1>1, <2>1, BeginRemoveIsKept, KeptIsBound
<1>4. CASE close(t)
  <2>1. registered' = registered /\ \E pids : CloseOn(t, pids, server)
    BY <1>4 DEF close
  <2> QED BY <1>1, <2>1, CloseOnIsKept, KeptIsBound
<1>5. CASE Removed(t)
  <2> DEFINE k == job[t].server
             servers == [server EXCEPT ![k].phase = "closed"]
  <2>1. k \in 1 .. Len(server) /\ "closed" \in Phases /\ "closed" # "running"
    BY <1>5 DEF IInv, Good, Types, Removed, Phases
  <2>2. Changed(server, servers, k, "closed", server[k].engine)
    <3> HIDE DEF k
    <3> QED BY <1>1, <2>1, PhaseSet
  <2>3. RunningKept(server, servers)
    <3>1. \A r, phase : Changed(server, r, k, phase, server[k].engine) /\ phase # "running"
                          => RunningKept(server, r)
      <4> HIDE DEF k, servers
      <4> QED BY ChangedIsKept
    <3> QED BY <2>1, <2>2, <3>1
  <2>8. ServersTyped(servers)
    <3> HIDE DEF k
    <3> QED BY <2>2 DEF Changed
  <2>4. /\ registered' = registered
        /\ \/ \E free : Create(t, job[t], free, servers)
           \/ server' = servers
           \/ CloseOn(t, job[t].left, servers)
    <3>1. job[t].op \in {"update", "delete", "close"}
      BY <1>5 DEF Removed
    <3>2. CASE job[t].op = "update"
      BY <1>5, <3>2 DEF Removed
    <3>3. CASE job[t].op = "delete"
      BY <1>5, <3>3 DEF Removed
    <3>4. CASE job[t].op = "close"
      BY <1>5, <3>4 DEF Removed
    <3> QED BY <3>1, <3>2, <3>3, <3>4
  <2> HIDE DEF servers
  <2>5. RunningKept(servers, server')
    <3>1. job[t].scope \in Scopes
      BY <1>1 DEF Jobs
    <3>2. CASE server' = servers
      BY <3>2 DEF RunningKept
    <3>3. ASSUME NEW free, Create(t, job[t], free, servers)
          PROVE  RunningKept(servers, server')
      BY <2>8, <3>1, <3>3, CreateIsKept
    <3>4. ASSUME CloseOn(t, job[t].left, servers)
          PROVE  RunningKept(servers, server')
      BY <2>8, <3>4, CloseOnIsKept
    <3> QED BY <2>4, <3>2, <3>3, <3>4
  <2>6. RunningKept(server, server')
    BY <2>3, <2>5 DEF RunningKept
  <2> QED BY <2>4, <2>6, KeptIsBound
<1>6. CASE OpenFails(t)
  <2> DEFINE k == job[t].server
  <2>1. /\ k \in 1 .. Len(server) /\ "failed" \in Phases /\ "failed" # "running"
        /\ registered' = registered /\ server' = [server EXCEPT ![k].phase = "failed"]
    BY <1>6 DEF IInv, Good, Types, OpenFails, Phases
  <2> HIDE DEF k
  <2>2. Changed(server, server', k, "failed", server[k].engine)
    BY <1>1, <2>1, PhaseSet
  <2> QED BY <2>1, <2>2, ChangedIsKept, KeptIsBound
<1> QED BY <1>2, <1>3, <1>4, <1>5, <1>6

LEMMA OpenedKeepsBound ==
    ASSUME IInv, Bound, NEW t \in Tasks, Opened(t)
    PROVE  Bound'
<1> DEFINE k == job[t].server
           engine == TrackersOpened(server[k].scope)
<1>1. /\ server' = [server EXCEPT ![k].phase = "running", ![k].engine = engine]
      /\ registered' = registered /\ registered \in SUBSET Services
  BY DEF Opened, Bound
<1>2. RightFor(engine, Seen(server[k].scope, registered))
  BY <1>1, TrackersOpenedIsRight
<1>3. /\ ServersTyped(server) /\ k \in 1 .. Len(server) /\ "running" \in Phases
      /\ "torn" \in DOMAIN engine
  <2>1. "torn" \in DOMAIN engine
    <3> HIDE DEF engine
    <3> QED BY <1>2 DEF RightFor, IsEngine
  <2> QED BY <2>1 DEF IInv, Good, Types, Opened, Phases
<1> HIDE DEF k, engine
<1>4. Changed(server, server', k, "running", engine)
  BY <1>1, <1>3, PhaseAndEngineSet
<1> QED BY <1>1, <1>2, <1>4 DEF Bound, Changed

LEMMA ToldKeepsBound ==
    ASSUME IInv, Bound, NEW x, NEW bound, Told(x, bound), registered' \in SUBSET Services,
           \A k \in DOMAIN server : server[k].phase = "running" =>
             IF Matches(server[k].scope, x)
             THEN RightFor(bound[k], Seen(server[k].scope, registered'))
             ELSE Seen(server[k].scope, registered') = Seen(server[k].scope, registered)
    PROVE  Bound'
<1>1. ServersTyped(server)
  BY DEF IInv, Good, Types
<1>2. SUFFICES ASSUME NEW k \in DOMAIN server', server'[k].phase = "running"
               PROVE  RightFor(server'[k].engine, Seen(server'[k].scope, registered'))
  BY DEF Bound
<1>3. /\ k \in DOMAIN server
      /\ server[k] = [scope |-> server[k].scope, phase |-> server[k].phase,
                      engine |-> server[k].engine]
  BY <1>1, <1>2, ServerFields DEF Told
<1>4. CASE server[k].phase = "running" /\ Matches(server[k].scope, x)
  <2>1. server'[k] = [server[k] EXCEPT !.engine = bound[k]]
    BY <1>3, <1>4 DEF Told
  <2>2. server'[k].engine = bound[k] /\ server'[k].scope = server[k].scope
    BY <1>3, <2>1
  <2> QED BY <1>3, <1>4, <2>2
<1>5. CASE ~(server[k].phase = "running" /\ Matches(server[k].scope, x))
  <2>1. server'[k] = server[k]
    BY <1>3, <1>5 DEF Told
  <2> QED BY <1>2, <1>3, <1>5, <2>1 DEF Bound
<1> QED BY <1>4, <1>5

LEMMA EventsKeepBound ==
    ASSUME IInv, Bound, NEW x \in Services, Register(x) \/ Modify(x) \/ Unregister(x)
    PROVE  Bound'
<1>1. /\ registered \in SUBSET Services
      /\ \A k \in DOMAIN server : server[k].phase = "running" =>
           RightFor(server[k].engine, Seen(server[k].scope, registered))
  BY DEF Bound
<1>2. ASSUME NEW scope
      PROVE  /\ Seen(scope, registered) \in SUBSET Services
             /\ x \in Seen(scope, registered) <=> x \in registered /\ Matches(scope, x)
  BY <1>1 DEF Seen
<1>3. CASE Register(x)
  <2> DEFINE bound == [k \in DOMAIN server |-> on_adding_service(server[k].engine, x)]
  <2>1. x \notin registered /\ registered' = registered \cup {x} /\ Told(x, bound)
    BY <1>3 DEF Register
  <2>2. ASSUME NEW scope
        PROVE  Seen(scope, registered') = IF Matches(scope, x)
                                          THEN Seen(scope, registered) \cup {x}
                                          ELSE Seen(scope, registered)
    BY <2>1 DEF Seen
  <2>3. ASSUME NEW k \in DOMAIN server, server[k].phase = "running",
               Matches(server[k].scope, x)
        PROVE  RightFor(bound[k], Seen(server[k].scope, registered'))
    <3>1. x \in Services \ Seen(server[k].scope, registered)
      BY <1>2, <2>1
    <3>2. RightFor(on_adding_service(server[k].engine, x),
                   Seen(server[k].scope, registered) \cup {x})
      BY <1>1, <1>2, <2>3, <3>1, AddingIsRight
    <3>3. bound[k] = on_adding_service(server[k].engine, x)
      BY <2>3
    <3> QED BY <2>2, <2>3, <3>2, <3>3
  <2> HIDE DEF bound
  <2> QED BY <1>1, <2>1, <2>2, <2>3, ToldKeepsBound
<1>4. CASE Modify(x)
  <2> DEFINE bound == [k \in DOMAIN server |-> on_modified_service(server[k].engine, x)]
  <2>1. x \in registered /\ registered' = registered /\ Told(x, bound)
    BY <1>4 DEF Modify
  <2>2. ASSUME NEW k \in DOMAIN server, server[k].phase = "running",
               Matches(server[k].scope, x)
        PROVE  RightFor(bound[k], Seen(server[k].scope, registered'))
    <3>1. x \in Seen(server[k].scope, registered)
      BY <1>2, <2>1, <2>2
    <3>2. RightFor(on_modified_service(server[k].engine, x), Seen(server[k].scope, registered))
      BY <1>1, <1>2, <2>2, <3>1, ModifiedIsRight
    <3>3. bound[k] = on_modified_service(server[k].engine, x)
      BY <2>2
    <3> QED BY <2>1, <3>2, <3>3
  <2> HIDE DEF bound
  <2> QED BY <1>1, <2>1, <2>2, ToldKeepsBound
<1>5. CASE Unregister(x)
  <2> DEFINE bound == [k \in DOMAIN server |-> on_removed_service(server[k].engine, x)]
  <2>1. x \in registered /\ registered' = registered \ {x} /\ Told(x, bound)
    BY <1>5 DEF Unregister
  <2>2. ASSUME NEW scope
        PROVE  Seen(scope, registered') = IF Matches(scope, x)
                                          THEN Seen(scope, registered) \ {x}
                                          ELSE Seen(scope, registered)
    BY <2>1 DEF Seen
  <2>3. ASSUME NEW k \in DOMAIN server, server[k].phase = "running",
               Matches(server[k].scope, x)
        PROVE  RightFor(bound[k], Seen(server[k].scope, registered'))
    <3>1. x \in Seen(server[k].scope, registered)
      BY <1>2, <2>1, <2>3
    <3>2. RightFor(on_removed_service(server[k].engine, x),
                   Seen(server[k].scope, registered) \ {x})
      BY <1>1, <1>2, <2>3, <3>1, RemovedIsRight
    <3>3. bound[k] = on_removed_service(server[k].engine, x)
      BY <2>3
    <3> QED BY <2>2, <2>3, <3>2, <3>3
  <2> HIDE DEF bound
  <2> QED BY <1>1, <2>1, <2>2, <2>3, ToldKeepsBound
<1> QED BY <1>3, <1>4, <1>5

LEMMA NextKeepsBound == IInv /\ Bound /\ [Next]_vars => Bound'
<1> SUFFICES ASSUME IInv, Bound, [Next]_vars PROVE Bound'
  OBVIOUS
<1>1. CASE \E t \in Tasks :
             \/ \E pid \in Pids, scope \in Scopes, valid \in BOOLEAN : updated(t, pid, scope, valid)
             \/ \E pid \in Pids : deleted(t, pid)
             \/ close(t) \/ Removed(t) \/ OpenFails(t)
  BY <1>1, CallsKeepBound
<1>2. CASE \E t \in Tasks : Opened(t)
  BY <1>2, OpenedKeepsBound
<1>3. CASE \E x \in Services : Register(x) \/ Modify(x) \/ Unregister(x)
  BY <1>3, EventsKeepBound
<1>4. CASE UNCHANGED vars
  BY <1>4 DEF vars, Bound
<1> QED BY <1>1, <1>2, <1>3, <1>4 DEF Next

LEMMA InitEstablishesBound == Init => Bound
<1> SUFFICES ASSUME Init PROVE Bound
  OBVIOUS
<1>1. DOMAIN server = {} /\ registered \in SUBSET Services
  BY EmptySeq DEF Init
<1> QED BY <1>1 DEF Bound

(***************************************************************************)
(* The theorems.                                                           *)
(***************************************************************************)
\* The parts of IInv hold in every reachable state, between any overlapping calls of
\* ServerService.updated, deleted and close; and what is bound to a server that runs is
\* what is registered for it.
THEOREM Invariance == Spec => [](IInv /\ Bound)
<1>1. IInv /\ Bound /\ [Next]_vars => IInv'
  <2> SUFFICES ASSUME IInv, Bound, [Next]_vars PROVE IInv'
    OBVIOUS
  <2>1. CASE \E t \in Tasks, pid \in Pids, scope \in Scopes, valid \in BOOLEAN :
                 updated(t, pid, scope, valid)
    BY <2>1, UpdatedKeeps
  <2>2. CASE \E t \in Tasks, pid \in Pids : deleted(t, pid)
    BY <2>2, DeletedKeeps
  <2>3. CASE \E t \in Tasks : close(t)
    BY <2>3, CloseKeeps
  <2>4. CASE \E t \in Tasks : Removed(t)
    BY <2>4, RemovedKeeps
  <2>5. CASE \E t \in Tasks : Opened(t)
    BY <2>5, OpenedKeeps
  <2>6. CASE \E t \in Tasks : OpenFails(t)
    BY <2>6, OpenFailsKeeps
  <2>7. CASE \E x \in Services : Register(x) \/ Modify(x) \/ Unregister(x)
    BY <2>7, EventsKeep
  <2>8. CASE UNCHANGED vars
    BY <2>8 DEF vars, IInv
  <2> QED BY <2>1, <2>2, <2>3, <2>4, <2>5, <2>6, <2>7, <2>8 DEF Next
<1> QED BY <1>1, NextKeepsBound, InitEstablishesIInv, InitEstablishesBound, PTL DEF Spec

\* A server is in the hands of one call, or listed under one name and running
\* (ServerService.updated, deleted, close and _remove), whatever overlaps.
THEOREM ServersAreHandledByOne == Spec => []HandledByOne
<1>1. IInv => HandledByOne
  <2> SUFFICES ASSUME IInv PROVE HandledByOne
    OBVIOUS
  <2>1. \A t \in Tasks : job[t] = Idle <=> job[t].op = "idle"
    BY IdleIsAJob DEF IInv, Good, Types
  <2> QED BY <2>1 DEF IInv, Good, Handled, HandledByOne
<1> QED BY <1>1, Invariance, PTL

\* scopes.remove in _remove always finds the scope it gives back: the list has it as often
\* as there are servers of it that were not closed.
THEOREM ScopesAreCounted == Spec => []ScopesCounted
<1>1. IInv => ScopesCounted
  BY DEF IInv, Good, Counted, Places, Living, ScopesCounted, Count, Live
<1> QED BY <1>1, Invariance, PTL

\* While no two calls overlap, no two living servers have a scope.
THEOREM ScopesHaveOneServer == Spec => []OneServerPerScope
<1>1. IInv => OneServerPerScope
  BY DEF IInv, Alone, OneServerPerScope, Live
<1> QED BY <1>1, Invariance, PTL

\* After a close that overlapped nothing, only a server whose routes did not bind runs on.
THEOREM ClosedIsQuiet == Spec => []ClosedMeansQuiet
<1>1. IInv => ClosedMeansQuiet
  <2> SUFFICES ASSUME IInv, closed, ~overlapped, \A t \in Tasks : job[t] = Idle,
                      NEW k \in DOMAIN server, server[k].phase = "running"
               PROVE  server[k].engine.torn
    BY DEF ClosedMeansQuiet
  <2>1. \A p \in Pids : listed[p] = 0
    BY IdleIsAJob DEF IInv, Closing
  <2>2. 0 \notin DOMAIN server
    BY ServerFields DEF IInv, Good, Types
  <2> QED BY <2>1, <2>2 DEF IInv, Alone
<1> QED BY <1>1, Invariance, PTL

\* The middlewares of a running server are those registered for its scope, in the order
\* of their sort values, however they came and went: Middlewares.add inserts where
\* bisect_left says, and remove takes from there what the tracker was told to.
THEOREM MiddlewaresAreExact == Spec => []MiddlewaresExact
<1>1. Bound => MiddlewaresExact
  <2> SUFFICES ASSUME Bound, NEW k \in DOMAIN server, server[k].phase = "running"
               PROVE  LET mws == server[k].engine.mws
                      IN  /\ Sorted(mws)
                          /\ ToSet(mws) = {m \in registered \cap Middlewares :
                                              Matches(server[k].scope, m)}
    BY DEF MiddlewaresExact
  <2> DEFINE mws == server[k].engine.mws
  <2>1. /\ mws \in Seq(Middlewares) /\ Ascending(mws, Len(mws))
        /\ Range(mws) = Seen(server[k].scope, registered) \cap Middlewares
    BY DEF Bound, RightFor, IsEngine
  <2> HIDE DEF mws
  <2>2. Len(mws) \in Nat /\ ToSet(mws) = Range(mws)
    BY <2>1, Elements
  <2>3. Sorted(mws)
    BY <2>1, <2>2 DEF Sorted, Ascending
  <2>4. Range(mws) = {m \in registered \cap Middlewares : Matches(server[k].scope, m)}
    BY <2>1 DEF Seen
  <2> QED BY <2>2, <2>3, <2>4 DEF mws
<1> QED BY <1>1, Invariance, PTL

\* Unless binding a view raised on a server, its routes are those of the views registered
\* for its scope (HttpServer.bind_handler and unbind_handler, with the tracker's calls).
THEOREM RoutesAreExact == Spec => []RoutesExact
<1>1. Bound => RoutesExact
  BY DEF Bound, RightFor, RoutesOf, Seen, RoutesExact
<1> QED BY <1>1, Invariance, PTL
=============================================================================
