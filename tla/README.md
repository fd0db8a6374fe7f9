# A verification of py-odss

py-odss is a small OSGi-like framework on asyncio: bundles (Python packages with an `Activator`)
are installed, started and stopped by a framework, register services in a registry, listen to
events, and track each other's services. On top of that core are an http server bundle, component
injection and a command line that runs the framework and reloads bundles. This directory holds
TLA+ models of them, the TLC runs that check them on small instances, and proofs of most of what
the runs check, which hold for every value of the constants.

## 1. Inventory

| Component | State it keeps | Operations | Hard behaviour | What makes it correct |
|---|---|---|---|---|
| service registry (`odss.core/registry.py`) | ids, services, a list per class kept in order with `bisect`, a list per owner, two books of use | register, unregister, set_properties, get/unget_service, lookups | references outlive services; priorities change under lists that are kept in order; operations that fail half way | lookups are exact and ordered; owners' lists cover; the books agree; ids are never reused |
| framework and bundles (`framework.py`, `bundle.py`) | framework state, active and target level, bundles by id, activators, contexts | install, uninstall, start, stop of a bundle; start, stop of the framework; the level loop | coroutines that await activators, listeners and the loader with no lock; failures between two awaits; state read before an await and used after it | the lifecycle of a bundle; level order; no service left behind; every call returns |
| event dispatcher (`events.py`) | listeners per kind; service listeners by interface and by listener | add, remove, fire | listeners run concurrently; MODIFIED versus ENDMATCH per listener | each listener sees each event it matches, with the right kind |
| service tracker (`odss.common/trackers.py`) | tracked references, ordered | open, close, service_changed | open awaits a listener between references while events arrive | tracks exactly the matching services; each added once and removed once; uses balanced |
| query (`odss.core/query/`) | none | parse, match | texts without one parenthesis; nested groups on one stack; escapes | a query selects what it says, a broken one is refused |
| event loop helpers (`loop.py`) | a queue and workers | create_task, wait_for_tasks, TaskPool start, stop, enqueue | handlers that enqueue, raise or are cancelled while stop joins the queue | stop returns, and only when every task has run |
| loader (`loader.py`) | `sys.modules`, `sys.path`, two locks | load_bundle, unload_bundle | concurrent loads; unloading by name prefix | a load leaves `sys.path` as it was |
| http engine (`odss.http.core`: `trackers.py`, `server.py`, `middewares.py`, `engine.py`) | servers by pid, scopes, routes, middlewares in order | open, close, updated, deleted, bind, unbind | reconfiguration with awaits; a port that cannot be bound; removal by bisect; a view half bound | one server per scope; no server closed twice; routes and middlewares follow services |
| csrf (`odss.http.core/csrf`) | a secret in a cookie, on the client | the middleware, a view's `token()` and `regenerate()` | two tabs race for one cookie; a view fails after it made a new secret | a page's token fits the cookie that came with it; a fresh page is accepted |
| handlers, dependencies, encoders (`odss.http.core`) | none | resolution of parameters, encoding | a parameter that is absent, invalid, or raises | a view is called with all it needs or not at all |
| component injection (`odss.cdi`) | factory contexts on classes | decorators | contexts shared by inheritance; decorators in any order; a preparation that raises half way | a component is prepared once; bind and unbind find each other |
| command line (`odss.cli`) | config, reloader task, file times | run_framework, reload, stop | a signal at any await, in the middle of a reload or of the start | after a clean exit nothing runs; a name never runs twice; the latest code runs |
| interfaces (`odss.common/core.py`, `configadmin.py`, `shell.py`, most of `odss.http.common`) | none | none | none | none of their own |

How they interact. `Framework` calls the registry synchronously, so a registry operation is atomic
among coroutines, and then awaits the event dispatcher, which runs the listeners as tasks and waits
for all of them (exceptions of listeners are printed, not raised). Activators and listeners call
back into the framework and the registry through their `BundleContext`. The tracker is a service
listener that calls the registry; the http bundle's `ServerService` opens two trackers for each
server, with queries over the scope. Requests go through the server's middlewares, csrf among
them, to the views those trackers bound. The command line drives the framework and shares its
event loop with a reloader that uninstalls, installs and starts bundles.

The hazards, each with its line and the properties that would catch it, are in `PROJECT.json`.

## 2. Modules

| Module | Models | Kind |
|---|---|---|
| `Bisect` | `bisect.bisect_left` of Python's library | algorithm |
| `ServiceRegistry` | `registry.py` | state machine |
| `Framework` | `framework.py`, `bundle.py`, over an instance of `ServiceRegistry` | state machine |
| `BundleLifecycle` | what the framework promises of its bundles, one call at a time | abstract specification |
| `ServiceTracker` | `trackers.py`, and of `events.py` the delivery of service events, over an instance of `ServiceRegistry` | state machine |
| `Query` | `create_query` and the parser of `query/`, a character at a time | state machine |
| `QueryMatch` | `Node.match`, and what a query says | algorithm |
| `TaskPool` | `TaskPool` and `TaskRunner` of `loop.py` | state machine |
| `HttpServer` | `ServerService`, its servers, middlewares and routes, over `Bisect` | state machine |
| `HttpRequests` | a request through the engine, csrf, the resolution of parameters and a view; a browser | state machine |
| `CommandLine` | `run_framework`, the signal handlers and `Reloader` | state machine |
| `Components` | the decorators of `odss.cdi` and `prepare_factory_context` | state machine |
| `MC...` | | instances for TLC |
| `BisectProofs`, `ServiceRegistryProofs`, `FrameworkProofs`, `ServiceTrackerProofs`, `HttpServerProofs`, `HttpRequestsProofs`, `CommandLineProofs` | the module of the name before `Proofs` | proofs |
| `StandaloneProofs` | `TaskPool`, `Components`, and `Query` with `QueryMatch`, which share nothing with each other; their `Init`, `Next`, `Spec` and `vars` have the component's name before them, since one module extends all three | proofs |

### ServiceRegistry and the code

`services` is the key set of `_services`, `classIndex` is `_services_classes`, `bundleServices`
`__bundle_services` (as sets: services are appended in the order of their ids), `using` the
registry's `__bundle_unsing` and `usedBy` the references' `__using_bundles`. An absent dictionary
entry is an empty or zero one. `reference` holds every reference ever made, since clients keep them.
Each method is one action. What is abstracted: properties other than the priority, lookups with a
query, and the service objects. What is kept on purpose:

- the sort value of a reference is read when it is compared, so `set_properties` leaves the lists
  unsorted, and `Unregister` deletes the element at the insertion point, whichever it is, or stops
  in the middle of the classes when the insertion point is past the end;
- `get_service` counts before it looks up;
- a rejected priority spends an id.

`resorted` is a history variable: some registered reference has changed its sort value.

### Framework and the code

The operations are coroutines of one event loop. An action of a task is the code between two
awaits. `task[t].pc` names the await at which `t` stands; `running` is the task that keeps the
processor when a loop of the code goes on without an await between two steps of the model. The
fields of `task[t]` are the locals of the coroutine: `prev` (`previous_state`), `refs` (the copy of
the bundle's services that the sweep walks), `todo`, `requested`, `down` (the level loop), and `outer`
(who called). `given` remembers whether the activator's stop was handed a context.

| Code | Actions |
|---|---|
| `start_bundle` | `BeginStart`, `CallActivatorStart`, `ActivatorRegisters`, `ActivatorStarted`, `ActivatorStartFails`, `StartedDelivered` |
| `stop_bundle` | `BeginStop`, `CallActivatorStop`, `ActivatorUnregisters`, `ActivatorStopFails`, `ActivatorStopped`, `Sweep`, `SweepRaises`, `UnregisteringDelivered`, `SweepEnd`, `StoppedDelivered` |
| `install_bundle` | `CallInstall`, `Loaded`, `LoadFails`, `InstalledDelivered` |
| `uninstall_bundle` | `CallUninstall`, (`stop_bundle`), `Uninstalled`, `UninstalledDelivered`, `Unloaded` |
| `start`, `stop` of the framework | `CallFrameworkStart`, `FwStartingDelivered`, `CallFrameworkStop`, `FwStoppingDelivered`, `FwLastDelivered` |
| `_set_active_start_level` | `EnterLevels`, `LevelStarts`, `LevelStops`, `LevelSkips`, `LevelsEnd` |
| a bundle's own use of the registry | `BundleRegisters`, `BundleUnregisters` |

An activator that calls the framework from its own `start` is covered by two tasks: one stands at
`activating` while the other makes the call. Start levels are set before the framework starts, as
`run_framework` does. Cancellation of a task from outside is modelled in `CommandLine`, not here.

Known from the model: with a start level of 0, which is also the level of a framework that is not
active, the level loop has nothing to do in either direction (`framework.py:274`), so a bundle that
was started by hand stays ACTIVE when the framework has stopped. `FrameworkStoppedQuiet` and the
refinement of `BundleLifecycle` are therefore proved for start levels above 0.

### ServiceTracker and the code

`tracked` is the order of the keys of `_ServiceTracked.tracked`, `listening` the set of trackers in
the tables of `ServiceListeners`, `opener[tr]` the `open` or `close` of a tracker with what its loop
has left, `task[t]` a client's call of the registry with the deliveries its event was split into,
and `ready` the event loop's queue of the tasks among them that have not begun. A tracker awaits its
listener; a listener that is no coroutine is the behaviour in which nothing runs in between.

| Code | Actions |
|---|---|
| `ServiceTracker.open`, `track_initial` | `Open`, `InitialAdded`, `InitialAddRaises` |
| `ServiceTracker.close` | `Close`, `ClosedRemoved`, `ClosedRemoveRaises` |
| `ServiceListeners.fire_event` with the registry's change before it | `Register`, `Unregister`, `Modify` |
| `service_changed`, `track`, `untrack` | `CallModified`, `CallAdding`, `CallRemoved`, `Ignore`, `Added`, `Modified`, `Removed`, `ListenerRaises` |

Kept on purpose: a tracker without a query walks the list the registry itself keeps, so the list moves
under it; the order in which the listeners are told is that of a Python set, so any; an exception
of a listener is printed and what was to follow the listener's call is not done. A service's
properties are one value, which a query matches or not.

What the tracker does not promise, found with the model. If a call overlaps `open`, a service may be
added twice or stay tracked after it is gone; if two events of one service overlap, it may be
tracked after its unregistration. A service that stops matching stays tracked, and if it is
unregistered then, for ever. `SettledExactly` and `TrackedInOrder` are therefore stated for
behaviours without such overlaps (`disturbed`, a history variable) and of the services that match;
`UsesCovered` holds in all.

### Query and the code

`text`, `pos`, `escaped`, `stack`, `sf` are the locals of `parse_query`, and a step is one round of
its loop (`Escaped`, `Open`, `Close`, `Other`, `End`). On the stack stand logic nodes and the places
where conditions start. `Subquery` is `subquery`; an error of any kind is `Refused`. A character the
parser looks at is a token of its own and what stands between two of them one word, so a substring
pattern either is the word or is not. `asked` is what `create_query` was called with, together with the
tree it was written from and the end that was cut from it, if any. What a written form is, of trees
of any size, is said without the parser: `asked.groups` has for each `(` of the text where its `)` is,
the node written between them and where its parts begin, and `Derives` relates it to the text, group by
group, as the grammar does (`IsGroup` for a sign and parts one behind the other, `IsCondition` for a
name, an operator and a value). What a text is whose end was cut is said by `IsWritten`, of its
parentheses alone. The runs' texts satisfy both (`WholeAssumption`, `CutsAssumption`, which TLC
evaluates). In `QueryMatch`, `Match` is `Node.match` and the reference definition is `Models`, the sets
of properties a tree describes; both are functions on `Nodes`, a set of nodes with the parts of each,
as high as they are nested (`Height`).

Known from the model and not promised by the code: a text that lacks a parenthesis at one end only
is not wrapped; `&(a=b)(c=d)`, whose group has no parentheses of its own, is read as its last part;
the backslash of an escape stays in the value; of a rule with a list of values only the first is
kept. The properties are about texts as the grammar has them, and about such texts with one end cut
off.

### TaskPool and the code

`tasks` and `unfinished` are those of `asyncio.Queue`, `worker` the tasks that `start` makes, also those
a second `start` forgets. The join is woken by the `task_done` that brings the count to zero, and
returns although something is put before it runs on. A worker takes a `CancelledError` that comes
out of a handler for its own cancellation and ends (`HandlerCancelled`). `late` and `lost` remember
the two ways in which `stop` can wait for ever: an element put behind the sentinels, a worker lost
to such an error.

### HttpServer and the code

A call of `updated`, `deleted` or `close` is in `job[t]`; it awaits in two places, the opening of the
server's socket (`Opened`, `OpenFails`) and its closing (`Removed`). Everything in between, the
opening and closing of both trackers included, is in the action before it: `updated` with `BeginRemove` and
`Create`, `deleted`, `close` with `CloseOn`. `scopes` and `listed` are `scopes` and `servers` of
`ServerService`; `server` is every `HttpServer` made. A server's engine has its middlewares, in the list
`Middlewares.add` and `remove` keep by `bisect`, and its named routes. Services come and go by
`Register`, `Modify`, `Unregister`, and each open tracker whose query matches is told in the same
step. A tracker that is told late is the subject of `ServiceTracker`.

Kept on purpose: a scope is taken before its server opens and stays taken when that fails; a route
whose name is taken makes the binding raise with the routes before it bound (`torn`), and in
`updated` it makes the server run without being listed; the default scope's trackers take every
service of another scope, which is what their query text parses to.

### HttpRequests and the code

A request of a tab goes from `Send` through `Enter` (the middleware up to the view's call, with the
resolution of parameters: 403, 422, 500, or called), the view's use of `get_csrf(request)`
(`ViewRegenerates`, `ViewTakesToken`), and one of `Responds`, `RaisesHttpError`, `Fails`, to `Receive`. Bytes are short
sequences of bits, masked by exclusive or as `one_time_pad` does. The cookie of a response has a
value, a `max_age` and whether it has an expiry in the past, because setting a cookie after its
removal keeps that expiry. The client is external: a browser that prefers `Max-Age` to `Expires`. What
a view returns, JSON, conversions and annotations are abstracted to valid, absent and invalid.

### CommandLine and the code

Two tasks of one event loop: `main`, where `run_framework` awaits, and `runner`, where `Reloader.run`
does. `bundle` holds every `Bundle` object made, `catalogue` those the framework has. `Signal` is
`GracefulExit` followed by the cancellation of all tasks: it takes `main` out of the await it is in, and
leaves a bundle that was being started STARTING, since `CancelledError` is no `Exception`.
`StopReloader` cancels the watcher; in its sleep it ends quietly, anywhere else the wait for it raises
and the framework is not stopped (`raised`). An `AttributeError` of a reload is printed and the watcher
goes on, any other exception ends it (`RunnerRaises`). `code` is what of its modules' changes a bundle
was loaded with.

| Code | Actions |
|---|---|
| `run_framework`, `Config.normalize_bundles` | `InstallNext`, `InstallFails`, `Launch`, `StopReloader`, `FrameworkStop`, `FrameworkIsNotActive` |
| the framework's level loop, as `main` goes through it | `LevelStarts`, `LevelStarted`, `LevelStartFails`, `Started`, `LevelStops`, `LevelStopped`, `LevelStopFails`, `Stopped` |
| `Reloader.run`, `ticker` | `Tick`, `ReloadEnds`, `RunnerRaises` |
| `Reloader.reload_bunldes` | `BeginReload`, `NoOwner`, `ReloadStopped`, `ReloadStopFails`, `Unloaded`, `Loaded`, `LoadFails`, `ReloadStarts`, `ReloadStarted`, `ReloadStartFails` |

Known from the model: a reload while the framework starts may uninstall a bundle that the level loop
then starts, which nobody stops (`raced`); a reload cut off by a `LoadFails` that is swallowed loses the
bundle for good; a bundle given as a dictionary without a start level ends the program with a
`TypeError` before its `try` (`crashed`).

### Components and the code

`own` is the attribute of a class that holds its context, looked up in the classes of `Mro` as
`getattr` does, so a class derived from a component shares its context until it is given one. `mark` is what the
decorators of methods leave, `Component` runs `prepare_factory_context`: the constructor's requirements
first, then `_setup_callbacks` over the methods in the order of their names, up to the first one
that raises. `Provides` keeps the specifications of its decorator from one class to the next.

## 3. Runs

| Run | Instance | Shows |
|---|---|---|
| `registry` | 2 bundles, 2 classes, 3 priorities, 3 ids, up to 2 uses | `TypeOK`, `UsageBooksAgree`, `OwnerListsCover`, `LookupExact`, `IdsNeverReused` |
| `framework_calls` | 1 task, 2 names, 2 bundles, levels 1 to 3 (start level 2), 2 services | the sequential properties, level order, and that `Framework` implements `BundleLifecycle` |
| `framework_tasks` | 2 tasks, 1 bundle, 2 services, bundles use the registry by themselves, fairness | `StartingHasStarter` and `EveryCallReturns` under every interleaving |
| `tracker` | 2 trackers (one without a query), one open at a time, 2 tasks, 2 services | `UsesCovered` under every interleaving; `SettledExactly`, `TrackedInOrder` |
| `http_server` | 2 pids, 2 scopes, 2 tasks, up to 3 servers, 2 middlewares, 2 route services that share a route's name | `HandledByOne` and `ScopesCounted` under every interleaving; `OneServerPerScope`, `ClosedMeansQuiet` without overlap; `MiddlewaresExact`, `RoutesExact` |
| `http_requests` | 2 tabs, 3 requests, 4 views, secrets of 2 bits, 2 masks | `TokenFitsCookie`, `FreshPageAccepted`, `CalledWithAll`, `NewSecretSaved` |
| `query` | every text of up to 5 tokens; every tree of 2 operators over 3 conditions, whole and cut; dictionaries of up to 2 rules | `SelectsWhatItSays`, `UnclosedRefused` |
| `command_line` | 5 configurations, 2 bundles, 3 modules, one change of each, watching or not, fairness | `CleanExitStopsAll`, `OneRunsPerName`, `ReloadedLatest`, `SignalEnds` |
| `components` | a class and one derived from it, 2 methods, 1 `provides` decorator | `PreparedForGood`, `BindsPaired` |
| `task_pool` | 3 tasks, 2 workers, 2 starts, fairness | `StopDrains`, `WorkersGone`, `StopReturns` |
| `registry_stale_lookup` | violation | a changed priority makes a lookup return a service that is gone |
| `framework_lost_context` | violation | a start that overtakes a stop's sweep: `Activator.stop(None)` |

Why the bounds are enough. An unsorted list needs two references and a wrong deletion is seen with
a third; two classes make `unregister` fail between two of them. The two books differ per bundle
and reference, so two of each and a second use show every relation; `MCBound` of `MCServiceRegistry` lets the
third service be registered only where nobody uses one, which keeps the two questions of order and
of use in one run without their product. In the framework two levels up to
the start level and one beyond it, with two bundles in every order of installation, give each case
of the level loop; two services distinguish a sweep over a copy from one over the live list; two
tasks on one bundle show each pair of concurrent calls; `MCBound` of `MCFramework` lets the second service
be registered only while one of the tasks is idle, which is where a sweep meets the bundle's own calls. Trackers meet in the dispatcher's loop only, so
`tracker` has one open at a time (`MaxOpen`). Two tasks let two events of one
service overlap, and an event overlap `open` or `close`; the second of the two services is inserted
before the first, where a walk over the registry's own list has already been.

A third server is the one that replaces a server while another stands (`MaxServers`). Two requests race for the
jar and the third sends what the race left (`MaxRequests`); two bits tell a masked secret from its
key. Five tokens are a group with one condition and a token too many or too few; the deeper trees are
given in written form. One change of each module, two of which belong to one bundle, gives a second
change of the bundle while it reloads (`MaxEdits`). A second start of a pool is the first that
forgets workers (`MaxStarts`); three tasks keep both workers busy with one waiting. One `provides`
decorator can meet both classes (`MaxDecorators`).

Fairness. `FairSpec` of `Framework` gives each task strong fairness of the steps of a call in progress, never of
making calls. asyncio queues a task whose await is over first in, first out, so it runs although
others run before it; `BLOCK_TIMEOUT` ends an activator's methods; that listeners and the loader
return is assumed. `TaskPool` has weak fairness of each worker and of the step after the join, and
thereby that a handler ends; none of enqueueing, starting or stopping. `CommandLine` has it of the two
tasks, none of the signal and of edits; a bundle's start or stop may fail, but ends. `Query` has it of the parser's
loop. Deadlock is checked in the framework's runs and that of the components; the others switch it
off because they come to rest: a registry with every id spent, a client with no request left, a
text that is read, a program that has ended, a pool that has stopped or waits for ever.

## 4. Proofs

Every theorem holds for all values of the constants that satisfy the assumption of its module
(`ConstantsAssumption`, `FrameworkAssumption` and so on, which TLC evaluates in every run); where a
theorem has a further hypothesis, it is named here. In each module the invariant is a conjunction of
named parts, of which the properties of the runs are some or follow; the others are what those lack
to be inductive. The proof has one lemma or step for each action.

- `BisectProofs`: `bisect_left` splits every ascending list and finds every element of one without
  duplicates; insertion at its answer and removal keep a list ascending. The halving loop is a
  recursive function; its correctness is proved by an induction over the set of natural numbers for
  which it fails (a least one would have a smaller one). The module also has what other proofs
  need of sequences: a least index exists, what `RemoveFirst` takes away, and that a finite set has
  exactly one sorted list, by an induction over the sizes for which it fails.
- `ServiceRegistryProofs`: `IInv` is the type invariant, that unissued ids are blank, and the safety
  invariants; `UnissuedIsBlank` is what they lack to be inductive: the id of a registration is in
  no list and in no book. `LookupExact` is the deep one: it cites `BisectProofs` at each insertion
  and deletion. All five registry properties of the runs are theorems.
- `FrameworkProofs`, under every interleaving of calls. A lemma shows that each step of the
  framework is one operation of the registry or leaves it alone, so the registry's `IInv` holds
  (`Invariance`); with it go the types (`ProgramOK`), which need that a task has a bundle in hand at
  the points of a start, a stop or an uninstallation, and that no call remembers STARTING as the
  state to restore (`InHand`). On top of that: `StartersExist` (no step leaves a bundle STARTING
  without its starter), `BundlesGoForGood`, and `SweptByOwners`. The last needs `RefsOwned`: what is
  left of a sweep was registered by the bundle that is stopped, and stays so while others register
  and unregister, since ids are never reused.
- `FrameworkProofs`, one call at a time (`OneAtATime`: there is one task and bundles do not use the
  registry by themselves, the hypothesis under which the run checks these properties, too). `SeqInv` says
  where each call stands and what holds there: which bundle states occur at which await (`Shape`),
  that a bundle's services are those its stop has still to sweep (`Handled`, `Swept`; no priority
  changes, so an owner's list is what it registered), how the level loop's list relates to the
  levels and to the bundles (`Levelled`), that levels rise in a start and fall in a stop (`Rises`,
  `Falls`), that a bundle the loop has not come to is untouched, and that a framework at rest has
  what its state says (`Quiet`). From it: `StopsGetContext`, `StoppedOwnNothing`, `BundlesAreSettled`,
  `StartsAreInOrder`, `StopsAreInReverse`, and with a start level above 0 `StoppedIsQuiet` and
  `LifecycleImplemented`, the refinement of `BundleLifecycle`: each action of the code is one of
  the abstract actions or a stutter.
- `ServiceTrackerProofs`: `UsesAreCovered` under every interleaving, `TrackersSettle` and
  `TrackedStaysInOrder` for behaviours without overlap; all three properties of the run, for any
  number of trackers, clients and services, any queries and any priorities. The invariant has the
  registry's `IInv` and the types; `UsesCovered`, which is inductive with them, because each use a tracker
  owes is at one place (its list, the walk's hand, a delivery's hand) and no step puts it at two;
  and, while nothing was disturbed, `Calm`: uses are exactly what is owed (`UsesExact`), calls are about
  different services and apart from walks (`Apart`), each list is ascending, a walk has before it
  what its tracker is still to take or give back (`WalkRight`), an event under way tells of the
  service as it is now (`DeliveryRight`), and whatever an open tracker does not track rightly it is
  still to be told of (`Following`). A step is of one of
  three kinds, of a walk, of a client that fires, or of a delivery; the preservation of `Calm` is
  proved once for each kind, and each action shown to be of its kind. `Ordered` is specified by a
  CHOOSE instead of the community modules' sort; `BisectProofs` has that there is exactly one such
  list, so no recursive operator is needed.
- `StandaloneProofs`, task pool: the count of unfinished elements is the length of the queue plus the workers in
  their handlers (`Counted`), what stop was promised was enqueued (`Kept`), and the sentinels are
  no tasks and only stop puts them (`SentinelsApart`); with these `StopDrains` and `WorkersGone` are
  inductive: a join that returns has nothing in the queue and nobody at work.
- `StandaloneProofs`, components, for any classes, lookup orders, methods and marks: a context that is
  complete was prepared from a class whose body has been executed, so its marks can change no more,
  and its handlers are what the marks of that class give (`AsPrepared`); one that is not complete
  has no handlers, also when its preparation raised half way. From that `BindsPaired`, and
  `PreparedForGood` as an action property: no decorator, on the class or on one that shares its
  context, touches what the preparation settled.
- `StandaloneProofs`, query, for a written condition of any size without its first or its last
  parenthesis: the stack is as deep as the parentheses read so far (`CutInv`), so without the first
  one the parser meets its last `)` with nothing on the stack and raises (`FirstMissing`), and
  without the last one it ends with something on the stack; below the top there are logic nodes only,
  so no part of the condition ever became the result (`LastMissing`). `UnclosedRefused` follows.
- `StandaloneProofs`, query, for a written form of any size, nested to any depth (`WholeAssumption`):
  where the parser stands is a path of groups from the outermost one inwards (`Inside`), and the stack
  has for each the logic node with the parts before the next one, or the place where the condition
  starts; each token leads to such a path (`NextToken`), `subquery` makes of a condition the node it was
  written from (`ConditionIsRead`), and the group that ends the text leaves its tree as the result
  (`WrittenAreRead`). For what a node selects, both `Match` and `Models` are recursive; that such a
  recursion has a solution is proved by an induction over the heights of nodes for which it has none
  (`RecursionOverNodes`), and that the two say the same of every node in the same way
  (`MatchSelectsModels`), for any words, properties and nodes (`NodesAssumption`, `TreesAssumption`).
  With `RulesSelect` for dictionaries, `SelectsWhatItSays` follows.
- `HttpServerProofs`: `HandledByOne` and `ScopesCounted` under every interleaving, which are inductive
  with the types (`Good`): a server is in the hands of one call or listed under one name, and each
  entry of a scope belongs to a server that is not closed. `OneServerPerScope` and `ClosedMeansQuiet`
  need what holds while no two calls overlapped (`Alone`: an update finds its scope free when it opens
  the server; `Closing`: the loop of close has every name that is still listed before it).
  `Bound` is the other half, under every interleaving: a running server has the middlewares its
  tracker sees, in order, and unless a binding raised the routes of the views it sees. It is
  inductive: a service comes or goes by one insertion or removal at the answer of `bisect_left`, and
  opening the trackers is a fold over the services in their order (`TrackersOpened`, a recursive
  function), each step of which makes the engine right for one service more. From it
  `MiddlewaresAreExact` and `RoutesAreExact`: all six properties of the run are theorems.
- `HttpRequestsProofs`, for secrets of any length: a request that stands at a view has the cookie,
  the secret and the token the middleware gave it (`RequestsWell`), and without a race the jar is
  what the last response left (`AloneHasJar`, `FreshFits`). Masking a secret twice with one key is
  the secret, position by position. All four properties of the run are theorems.
- `CommandLineProofs`: what `main` and the watcher can stand at together (`Together`), that names in
  the catalogue differ (`NamesOnce`), and, unless a reload raced with the start, that every bundle
  that is up is in the catalogue and in the level loop's reach (`UpListed`, `StartsKnown`,
  `StopReaches`). `CleanExitStopsAll` and `OneRunsPerName` follow. `ReloadedLatest` is proved where a
  module's name starts with the name of one configured bundle (`OneBundlePerModule`; of several a
  reload takes the first, as `reload_bunldes` breaks off, so the property is not true without it),
  with a reload during the start or not. Its invariant, `Latest`, says what a reload owes: a bundle
  that is behind its files has a changed module among the names that are left or among the changes
  of the next tick, and one that is not of the copy of the catalogue was made by this reload, so
  what it lacks is new (`OwedReload`); the copy has every name once (`CopyCovers`), and what the
  watcher has in its hands is for the first of the names (`InHands`).

Only model-checked: liveness (`EveryCallReturns`, `StopReturns`, `SignalEnds`), since fairness and
ENABLED are out of the prover's reach. That the parser's loop ends is not a property of a run: each
round goes one place further in the text. All other properties of the passing runs are theorems.

## 5. Plan

1. done: registry, framework, lifecycle, tracker, query, task pool, http server and requests, command
   line, components, with their runs; proofs of the registry, of bisect and of the framework.
2. done: proofs of the framework's sequential invariants and of the refinement, of the tracker, of the
   task pool, of the http server and requests, of the command line, of the components and of what a
   query refuses and selects.
3. left: the rest of the event dispatcher (tables of listeners, bundle and framework events) and of the loader.

Not modelled: interfaces and abstract classes (no behaviour); encoders by type, annotations and
conversions of values (reflection on Python types); argument parsing, configuration files, pip and
`sys.modules` in the loader (input and output); `create_job` and `run_in_future` (a thread's future);
`odss.cdi`'s `property()`, which does nothing; the development scripts; logging.
