----------------------------- MODULE HttpServer -----------------------------
(***************************************************************************)
(* The http bundle's ServerService (trackers.py) and the servers it opens  *)
(* for its configurations, one for each scope: what HttpServer (server.py) *)
(* and its engine (engine.py) have bound while route and middleware        *)
(* services come and go.                                                   *)
(*                                                                         *)
(* A configuration call suspends in two places only, while a server opens  *)
(* and while one closes: opening and closing the trackers awaits nothing,  *)
(* since their listeners are synchronous.  An event reaches an open        *)
(* tracker in one step here; its delivery is the matter of ServiceTracker. *)
(***************************************************************************)
EXTENDS Naturals, Sequences, SequencesExt, FiniteSets, Bisect

CONSTANTS
    Pids,           \* names of configurations
    Scopes,         \* scopes, DefaultScope among them
    DefaultScope,
    Tasks,          \* tasks that call the service
    Middlewares,    \* middleware services, as the sort values of their references
    Routes,         \* route services, likewise; none is a middleware, too
    ScopeOf,        \* the scope property of a service, NoScope if it has none
    NoScope,
    Views,          \* the names of the routes of a route service, as extract_handlers has them
    MaxServers      \* bound: servers opened

ASSUME ServerAssumption ==
    /\ IsFiniteSet(Pids) /\ Pids # {} /\ DefaultScope \in Scopes /\ MaxServers \in Nat
    /\ Middlewares \cup Routes \subseteq Int \X Int /\ Middlewares \cap Routes = {}
    /\ IsFiniteSet(Middlewares \cup Routes)
    /\ \A r \in Routes : Views[r] \in Seq(ToSet(Views[r]))

VARIABLES
    registered,     \* the route and middleware services in the registry
    scopes,         \* ServerService.scopes
    listed,         \* ServerService.servers: pid -> server, 0 if absent
    server,         \* the servers created so far
    job,            \* the call each task is in
    closed,         \* ServerService.close was called
    overlapped      \* history: a call began while another one was in progress

vars == <<registered, scopes, listed, server, job, closed, overlapped>>

Services == Middlewares \cup Routes

Idle == [op |-> "idle", pid |-> CHOOSE p \in Pids : TRUE, scope |-> DefaultScope,
         valid |-> TRUE, server |-> 0, left |-> <<>>]

Unbound == [mws |-> <<>>, handlers |-> {}, routes |-> {}, torn |-> FALSE]

New(scope) == [scope |-> scope, phase |-> "opening", engine |-> Unbound]

Live(k) == server[k].phase # "closed"

Init == /\ registered \in SUBSET Services
        /\ scopes = <<>> /\ server = <<>>
        /\ listed = [p \in Pids |-> 0]
        /\ job = [t \in Tasks |-> Idle]
        /\ closed = FALSE /\ overlapped = FALSE

(***************************************************************************)
(* Which services a server's trackers see.  The text the trackers of the   *)
(* default scope use is parsed as a negated conjunction.                   *)
(***************************************************************************)
Matches(scope, s) ==
    IF scope = DefaultScope
    THEN ~(ScopeOf[s] # NoScope /\ ScopeOf[s] = DefaultScope)
    ELSE ScopeOf[s] = scope

(***************************************************************************)
(* HttpServer: middlewares in the order of sort values, and views whose    *)
(* routes the engine adds by name.  A name that is taken makes bind_handler*)
(* raise with the routes before it added.                                  *)
(***************************************************************************)
\* A mutant of Inserted: at the end of the list.
InsertedLast(mws, m) == Append(mws, m)

Inserted(mws, m) == InsertAt(mws, 1 + BisectLeft(mws, m), m)

\* Whatever stands at the place of m goes; nothing is raised while the list holds m.
Popped(mws, m) == RemoveAt(mws, 1 + BisectLeft(mws, m))

Names(r) == ToSet(Views[r])
Taken(engine) == {route[2] : route \in engine.routes}

\* The names of r that come before the first one that is taken.
Added(engine, r) ==
    {Views[r][i] : i \in {i \in DOMAIN Views[r] :
        \A j \in 1 .. i : Views[r][j] \notin Taken(engine)}}

Conflicts(engine, r) == Names(r) \cap Taken(engine) # {}

bind_handler(engine, r) ==
    [engine EXCEPT !.routes = @ \cup ({r} \X Added(engine, r)),
                   !.handlers = IF Conflicts(engine, r) THEN @ ELSE @ \cup {r},
                   !.torn = @ \/ Conflicts(engine, r)]

\* A mutant of unbind_handler: the engine keeps the last route.
unbind_all_but_last(engine, r) ==
    IF r \notin engine.handlers THEN engine
    ELSE [engine EXCEPT !.routes = @ \ ({r} \X ToSet(Front(Views[r]))), !.handlers = @ \ {r}]

unbind_handler(engine, r) ==
    IF r \notin engine.handlers THEN engine
    ELSE [engine EXCEPT !.routes = @ \ ({r} \X Names(r)), !.handlers = @ \ {r}]

add_middleware(engine, m) == [engine EXCEPT !.mws = Inserted(@, m)]
remove_middleware(engine, m) == [engine EXCEPT !.mws = Popped(@, m)]

on_adding_service(engine, s) ==
    IF s \in Routes THEN bind_handler(engine, s) ELSE add_middleware(engine, s)

\* Only what the tracker holds: a route service whose binding raised is not tracked.
on_removed_service(engine, s) ==
    CASE s \in Routes -> unbind_handler(engine, s)
      [] s \in ToSet(engine.mws) \ Routes -> remove_middleware(engine, s)
      [] OTHER -> engine

\* Services in the order of their sort values, as a tracker that opens goes through them.
ByRank(S) ==
    CHOOSE s \in [1 .. Cardinality(S) -> S] :
        \A i, j \in 1 .. Cardinality(S) : i < j => Less(s[i], s[j])

\* Both trackers open: all middlewares, then the routes until one raises.
Found(scope) ==
    LET Ranked(S) == ByRank({s \in registered \cap S : Matches(scope, s)})
    IN  Ranked(Middlewares) \o Ranked(Routes)

BindNext(engine, s) == IF engine.torn THEN engine ELSE on_adding_service(engine, s)

TrackersOpened(scope) ==
    LET found == Found(scope)
        bound[n \in 0 .. Len(found)] ==
            IF n = 0 THEN Unbound ELSE BindNext(bound[n - 1], found[n])
    IN  bound[Len(found)]

\* Both trackers close: every service they hold is removed.
TrackersClosed(engine) ==
    FoldLeft(on_removed_service, engine, ByRank(ToSet(engine.mws) \cup engine.handlers))

(***************************************************************************)
(* ServerService.  An action is what a call does from one await to another.*)
(***************************************************************************)
Called == overlapped' = (overlapped \/ \E t \in Tasks : job[t] # Idle)

Return(t) == job' = [job EXCEPT ![t] = Idle]

\* A mutant of BeginRemove: the server stays listed while it closes.
BeginRemoveListed(t, call, servers) ==
    LET k == listed[call.pid]
    IN  /\ job' = [job EXCEPT ![t] = [call EXCEPT !.server = k]]
        /\ UNCHANGED listed
        /\ server' = [servers EXCEPT ![k].phase = "closing", ![k].engine = TrackersClosed(@)]

\* _remove until its await: the server is no longer listed and its trackers are closed.
BeginRemove(t, call, servers) ==
    LET k == listed[call.pid]
    IN  /\ job' = [job EXCEPT ![t] = [call EXCEPT !.server = k]]
        /\ listed' = [listed EXCEPT ![call.pid] = 0]
        /\ server' = [servers EXCEPT ![k].phase = "closing", ![k].engine = TrackersClosed(@)]

\* The rest of updated after _remove, given the scopes and servers _remove left.
\* host and port are read before the scope is taken.
Create(t, call, taken, servers) ==
    IF call.valid
    THEN /\ Len(servers) < MaxServers
         /\ scopes' = Append(taken, call.scope)
         /\ server' = Append(servers, New(call.scope))
         /\ job' = [job EXCEPT ![t] = [call EXCEPT !.op = "open", !.server = Len(servers) + 1]]
    ELSE scopes' = taken /\ server' = servers /\ Return(t)

\* A mutant of Refused: the scopes in use are not looked at.
NeverRefused(scope) == FALSE

Refused(scope) == scope \in ToSet(scopes)

updated(t, pid, scope, valid) ==
    LET call == [Idle EXCEPT !.op = "update", !.pid = pid, !.scope = scope, !.valid = valid]
    IN  /\ job[t] = Idle /\ ~closed /\ ~Refused(scope)
        /\ IF listed[pid] # 0
           THEN BeginRemove(t, call, server) /\ UNCHANGED scopes
           ELSE Create(t, call, scopes, server) /\ UNCHANGED listed
        /\ Called
        /\ UNCHANGED <<registered, closed>>

deleted(t, pid) ==
    /\ job[t] = Idle /\ ~closed /\ listed[pid] # 0
    /\ BeginRemove(t, [Idle EXCEPT !.op = "delete", !.pid = pid], server)
    /\ Called
    /\ UNCHANGED <<registered, scopes, closed>>

\* The loop of close, from the pids it has left: the next one that is still listed.
CloseOn(t, left, servers) ==
    LET Listed == {i \in DOMAIN left : listed[left[i]] # 0}
        i == CHOOSE i \in Listed : \A j \in Listed : i <= j
    IN  IF Listed = {}
        THEN Return(t) /\ server' = servers /\ UNCHANGED listed
        ELSE BeginRemove(t, [Idle EXCEPT !.op = "close", !.pid = left[i],
                                         !.left = SubSeq(left, i + 1, Len(left))], servers)

close(t) ==
    /\ job[t] = Idle /\ ~closed
    /\ closed' = TRUE
    /\ \E pids \in SetToSeqs({p \in Pids : listed[p] # 0}) : CloseOn(t, pids, server)
    /\ Called
    /\ UNCHANGED <<registered, scopes>>

\* A mutant of Freed: every entry of the scope goes.
FreedAll(scope) == SelectSeq(scopes, LAMBDA s : s # scope)

Freed(scope) == RemoveFirst(scopes, scope)

\* server.close returned: the scope is given back, and the call goes on.
Removed(t) ==
    LET call == job[t]
        k == call.server
        servers == [server EXCEPT ![k].phase = "closed"]
        free == Freed(server[k].scope)
    IN  /\ call.op \in {"update", "delete", "close"}
        /\ CASE call.op = "update" -> Create(t, call, free, servers) /\ UNCHANGED listed
             [] call.op = "delete" ->
                    Return(t) /\ server' = servers /\ scopes' = free /\ UNCHANGED listed
             [] call.op = "close" -> CloseOn(t, call.left, servers) /\ scopes' = free
        /\ UNCHANGED <<registered, closed, overlapped>>

\* A mutant of Listed: the server is not entered.
NotListed(t, engine) == listed

\* The server is entered when both trackers are open; if one raised, it never is.
Listed(t, engine) ==
    IF engine.torn THEN listed ELSE [listed EXCEPT ![job[t].pid] = job[t].server]

\* server.open returned: the trackers are opened without an await.
Opened(t) ==
    LET k == job[t].server
        engine == TrackersOpened(server[k].scope)
    IN  /\ job[t].op = "open"
        /\ server' = [server EXCEPT ![k].phase = "running", ![k].engine = engine]
        /\ listed' = Listed(t, engine)
        /\ Return(t)
        /\ UNCHANGED <<registered, scopes, closed, overlapped>>

\* server.open raised OSError, which is logged: the scope stays taken.
OpenFails(t) ==
    /\ job[t].op = "open"
    /\ server' = [server EXCEPT ![job[t].server].phase = "failed"]
    /\ Return(t)
    /\ UNCHANGED <<registered, scopes, listed, closed, overlapped>>

(***************************************************************************)
(* Services come and go.                                                   *)
(***************************************************************************)
\* An event of s reaches the open trackers whose query it matches: what is then bound.
Told(s, bound) ==
    server' = [k \in DOMAIN server |->
        IF server[k].phase = "running" /\ Matches(server[k].scope, s)
        THEN [server[k] EXCEPT !.engine = bound[k]]
        ELSE server[k]]

Register(s) ==
    /\ s \notin registered
    /\ registered' = registered \cup {s}
    /\ Told(s, [k \in DOMAIN server |-> on_adding_service(server[k].engine, s)])
    /\ UNCHANGED <<scopes, listed, job, closed, overlapped>>

\* on_modified_service does nothing, but the tracker takes what it does not hold for new.
on_modified_service(engine, s) ==
    IF s \in Routes \ engine.handlers THEN bind_handler(engine, s) ELSE engine

Modify(s) ==
    /\ s \in registered
    /\ Told(s, [k \in DOMAIN server |-> on_modified_service(server[k].engine, s)])
    /\ UNCHANGED <<registered, scopes, listed, job, closed, overlapped>>

Unregister(s) ==
    /\ s \in registered
    /\ registered' = registered \ {s}
    /\ Told(s, [k \in DOMAIN server |-> on_removed_service(server[k].engine, s)])
    /\ UNCHANGED <<scopes, listed, job, closed, overlapped>>

Next ==
    \/ \E t \in Tasks :
         \/ \E pid \in Pids, scope \in Scopes, valid \in BOOLEAN : updated(t, pid, scope, valid)
         \/ \E pid \in Pids : deleted(t, pid)
         \/ close(t) \/ Removed(t) \/ Opened(t) \/ OpenFails(t)
    \/ \E s \in Services : Register(s) \/ Modify(s) \/ Unregister(s)

Spec == Init /\ [][Next]_vars

-----------------------------------------------------------------------------
\* A server is in the hands of the one task that opens or closes it, or it is listed under
\* one name and runs; two overlapping calls never close one server twice.
HandledByOne ==
    /\ \A t \in Tasks :
         /\ job[t].op = "open" => server[job[t].server].phase = "opening"
         /\ job[t].op \in {"update", "delete", "close"} => server[job[t].server].phase = "closing"
         /\ \A u \in Tasks \ {t} : job[t] # Idle => job[t].server # job[u].server
    /\ \A p \in Pids : listed[p] # 0 =>
         /\ server[listed[p]].phase = "running"
         /\ \A q \in Pids \ {p} : listed[q] # listed[p]

Count(scope) == Cardinality({i \in DOMAIN scopes : scopes[i] = scope})

\* A scope is taken exactly as often as there are servers of it that were not closed,
\* the failed ones and those nobody lists included: scopes.remove in _remove always
\* finds what it removes, whatever calls overlap.
ScopesCounted ==
    \A scope \in Scopes :
        Count(scope) = Cardinality({k \in DOMAIN server : Live(k) /\ server[k].scope = scope})

\* If no call of updated, deleted or close overlapped another, no two servers have a scope.
OneServerPerScope ==
    ~overlapped => \A k, l \in DOMAIN server :
        Live(k) /\ Live(l) /\ server[k].scope = server[l].scope => k = l

\* After a close that overlapped nothing, no server listens any more, unless binding a
\* route raised in the updated that opened it.
ClosedMeansQuiet ==
    closed /\ ~overlapped /\ (\A t \in Tasks : job[t] = Idle) =>
        \A k \in DOMAIN server : server[k].phase = "running" => server[k].engine.torn

Sorted(mws) == \A i \in 1 .. Len(mws) - 1 : Less(mws[i], mws[i + 1])

\* The middlewares of a running server are those registered for its scope, in the order
\* of their sort values, however they came and went (Middlewares.add and remove).
MiddlewaresExact ==
    \A k \in DOMAIN server : server[k].phase = "running" =>
        LET mws == server[k].engine.mws
        IN  /\ Sorted(mws)
            /\ ToSet(mws) = {m \in registered \cap Middlewares : Matches(server[k].scope, m)}

\* The engine's routes are those of the views bound to the server, and unless a binding
\* raised on it these are the views registered for its scope: none is left behind.
RoutesExact ==
    \A k \in DOMAIN server :
        LET engine == server[k].engine
        IN  server[k].phase = "running" /\ ~engine.torn =>
              /\ engine.routes = UNION {{r} \X Names(r) : r \in engine.handlers}
              /\ engine.handlers = {r \in registered \cap Routes : Matches(server[k].scope, r)}
=============================================================================
