----------------------------- MODULE Framework -----------------------------
(***************************************************************************)
(* The framework of odss.core (framework.py, bundle.py): installation of   *)
(* bundles, their start, stop and uninstallation, and the start levels by  *)
(* which the framework starts and stops all of them, over the service      *)
(* registry (ServiceRegistry.tla).                                         *)
(*                                                                         *)
(* The operations are coroutines of one event loop.  A task runs alone     *)
(* until an await, so the actions of a task are the pieces of code between *)
(* two awaits: task[t].pc names the await t has stopped at (or "idle"), or *)
(* the head of a loop t is at while it keeps the processor (running = t).  *)
(* Awaits are the delivery of an event to the listeners, a method of the   *)
(* bundle's activator, and the jobs of the loader.  An await that does not *)
(* suspend is the case in which no other task moves meanwhile.             *)
(*                                                                         *)
(* A bundle is its id; get_bundles() lists them in the order of their ids. *)
(***************************************************************************)
EXTENDS Integers, Sequences, FiniteSets

CONSTANTS
  Tasks,         \* the tasks that call the framework
  NoTask,        \* the event loop is at rest
  Names,         \* names of bundles that can be installed
  NoName,        \* the name of an id that was not issued
  Class,         \* the class the bundles register services under
  NoReference,   \* see ServiceRegistry
  Unset,         \* see ServiceRegistry
  StartLevel,    \* the framework's start level property, or its default 1
  Levels,        \* the start levels bundles are given
  MaxBundles,    \* bound: bundle ids issued
  MaxServices,   \* bound: service ids issued
  Background     \* whether a bundle's own tasks (un)register services

BundleIds == 1..MaxBundles

(* consts.py: BUNDLE_DEFAULT_STARTLEVEL.                                   *)
DefaultLevel == 1

ASSUME FrameworkAssumption ==
  /\ NoTask \notin Tasks
  /\ NoName \notin Names
  /\ StartLevel \in Nat /\ MaxBundles \in Nat /\ MaxServices \in Nat
  /\ Levels \subseteq Nat \ {0}
  /\ Background \in BOOLEAN
  /\ Unset \notin Int
  /\ NoReference \notin [bundle : BundleIds, classes : {<<Class>>}, sort : {50}]

VARIABLES
  fwState,     \* the state of the framework as a bundle
  active,      \* _active_start_level
  target,      \* _target_start_level
  installed,   \* __bundles and __bundles_map, which always change together
  nextBundle,  \* __next_id
  bundle,      \* the Bundle objects and the __activators entries by id
  task,        \* the control state of each task
  running,     \* the task that keeps the processor, or NoTask
  (* the state of the service registry *)
  nextId, services, reference, classIndex, bundleServices, using, usedBy,
  resorted

Registry == INSTANCE ServiceRegistry WITH
  Bundles <- BundleIds, Classes <- {Class}, ClassTuples <- {<<Class>>},
  Priorities <- {}, MaxUse <- 0

registryVars == <<nextId, services, reference, classIndex, bundleServices,
                  using, usedBy, resorted>>
frameworkVars == <<fwState, active, target>>
catalogue == <<installed, nextBundle>>
vars == <<frameworkVars, catalogue, bundle, task, running, registryVars>>

States == {"RESOLVED", "STARTING", "ACTIVE", "STOPPING", "UNINSTALLED"}

(* What __activators holds for a bundle: no instance, one that is not      *)
(* started, or one whose start method returned.                            *)
ActivatorStates == {"none", "fresh", "started"}

Unissued == [name |-> NoName, state |-> "RESOLVED", context |-> FALSE,
             level |-> 0, activator |-> "none"]

(* outer is the call that a start_bundle or stop_bundle in progress was    *)
(* made from: "none" for Bundle.start and stop, "uninstall" for            *)
(* uninstall_bundle, "start" and "stop" for the framework's level loop,    *)
(* whose local variables are todo (the bundles left, with their levels),   *)
(* requested and down.  bundle and prev (previous_state) are the locals    *)
(* of start_bundle and stop_bundle, refs what is left of the sweep, given  *)
(* what the activator's stop was called with.                              *)
Idle == [pc |-> "idle", outer |-> "none", bundle |-> 0, prev |-> "RESOLVED",
         name |-> NoName, todo |-> {}, requested |-> 0, down |-> FALSE,
         refs |-> {}, given |-> FALSE]

AwaitPoints == {"fwStartingEvent", "fwStartedEvent", "fwStoppingEvent", "fwStoppedEvent",
  "startingEvent", "activating", "startedEvent",
  "stoppingEvent", "deactivating", "unregisteringEvent", "stoppedEvent",
  "loading", "installedEvent", "uninstalledEvent", "unloading"}
LoopHeads == {"levels", "sweep", "uninstall"}

(* t is resumed at await point p; t is at loop head p.                     *)
Awaited(t, p) == running = NoTask /\ task[t].pc = p
At(t, p) == running = t /\ task[t].pc = p

(* t stops at await point p, or goes on to loop head p.                    *)
Await(t, p) == task' = [task EXCEPT ![t].pc = p] /\ running' = NoTask
GoTo(t, p) == task' = [task EXCEPT ![t].pc = p] /\ running' = t

(* The call t made is over, by a return or by an exception.                *)
Finish(t) == task' = [task EXCEPT ![t] = Idle] /\ running' = NoTask

(* start_bundle or stop_bundle returns to the call it was made from.       *)
Return(t) ==
  LET r == task[t]
      back == [Idle EXCEPT !.outer = r.outer, !.todo = r.todo,
                 !.requested = r.requested, !.down = r.down,
                 !.bundle = IF r.outer = "uninstall" THEN r.bundle ELSE 0]
  IN  CASE r.outer = "none" -> Finish(t)
        [] r.outer = "uninstall" ->
             task' = [task EXCEPT ![t] = [back EXCEPT !.pc = "uninstall"]] /\ running' = t
        [] OTHER ->
             task' = [task EXCEPT ![t] = [back EXCEPT !.pc = "levels"]] /\ running' = t

Init ==
  /\ fwState = "RESOLVED" /\ active = 0 /\ target = 0
  /\ installed = {} /\ nextBundle = 1
  /\ bundle = [b \in BundleIds |-> Unissued]
  /\ task = [t \in Tasks |-> Idle] /\ running = NoTask
  /\ Registry!Init

Issued(b) == b < nextBundle

(* Mutant of RestoredState: a failed start or stop leaves its state behind.*)
KeptState(r) == bundle[r.bundle].state

(* The state a failed start or stop puts its bundle back to.               *)
RestoredState(r) == r.prev

-----------------------------------------------------------------------------
(* Mutant of CanStart: only the framework is looked at.                    *)
CanStartAgain(b) == fwState \in {"STARTING", "ACTIVE"}

CanStart(b) ==
  /\ fwState \in {"STARTING", "ACTIVE"}
  /\ bundle[b].state \notin {"STARTING", "ACTIVE"}

(* Mutant of Starting: the new context is not given to the bundle.         *)
StartingBare(b) == [bundle[b] EXCEPT !.state = "STARTING"]

Starting(b) == [bundle[b] EXCEPT !.state = "STARTING", !.context = TRUE]

(* start_bundle up to its first await, for the task record r.              *)
BeginStart(t, b, r) ==
  /\ CanStart(b)
  /\ bundle' = [bundle EXCEPT ![b] = Starting(b)]
  /\ task' = [task EXCEPT ![t] = [r EXCEPT
        !.pc = "startingEvent", !.bundle = b, !.prev = bundle[b].state]]
  /\ running' = NoTask

(* __get_activator_method: the entries with one for b, made if need be.    *)
WithActivator(b) ==
  [bundle EXCEPT ![b].activator = IF @ = "none" THEN "fresh" ELSE @]

(* The STARTING event is delivered: the activator is made at its first use *)
(* and its start method is called.                                         *)
CallActivatorStart(t) ==
  LET b == task[t].bundle
  IN  /\ Awaited(t, "startingEvent")
      /\ bundle' = WithActivator(b)
      /\ Await(t, "activating")
      /\ UNCHANGED <<frameworkVars, catalogue, registryVars>>

(* The activator registers a service while it starts.                      *)
ActivatorRegisters(t) ==
  /\ Awaited(t, "activating")
  /\ Registry!Register(task[t].bundle, <<Class>>, Unset)
  /\ UNCHANGED <<frameworkVars, catalogue, bundle, task, running>>

ActivatorStarted(t) ==
  LET b == task[t].bundle
  IN  /\ Awaited(t, "activating")
      /\ bundle' = [bundle EXCEPT ![b].state = "ACTIVE", ![b].activator = "started"]
      /\ Await(t, "startedEvent")
      /\ UNCHANGED <<frameworkVars, catalogue, registryVars>>

(* The start method raises, or BLOCK_TIMEOUT ends it.                      *)
ActivatorStartFails(t) ==
  /\ Awaited(t, "activating")
  /\ bundle' = [bundle EXCEPT ![task[t].bundle].state = RestoredState(task[t])]
  /\ Finish(t)
  /\ UNCHANGED <<frameworkVars, catalogue, registryVars>>

StartedDelivered(t) ==
  /\ Awaited(t, "startedEvent")
  /\ Return(t)
  /\ UNCHANGED <<frameworkVars, catalogue, bundle, registryVars>>

-----------------------------------------------------------------------------
(* stop_bundle up to its first await, for the task record r.               *)
BeginStop(t, b, r) ==
  /\ bundle[b].state = "ACTIVE"
  /\ bundle' = [bundle EXCEPT ![b].state = "STOPPING"]
  /\ task' = [task EXCEPT ![t] = [r EXCEPT
        !.pc = "stoppingEvent", !.bundle = b, !.prev = bundle[b].state]]
  /\ running' = NoTask

(* The STOPPING event is delivered: the activator's stop method is called  *)
(* with the context the bundle has now; without an instance one is made.   *)
CallActivatorStop(t) ==
  LET b == task[t].bundle
  IN  /\ Awaited(t, "stoppingEvent")
      /\ bundle' = WithActivator(b)
      /\ task' = [task EXCEPT ![t].pc = "deactivating", ![t].given = bundle[b].context]
      /\ running' = NoTask
      /\ UNCHANGED <<frameworkVars, catalogue, registryVars>>

(* The activator unregisters one of its bundle's services while it stops.  *)
ActivatorUnregisters(t, i) ==
  /\ Awaited(t, "deactivating")
  /\ i \in Registry!Registered(task[t].bundle)
  /\ Registry!Unregister(i)
  /\ UNCHANGED <<frameworkVars, catalogue, bundle, task, running>>

ActivatorStopFails(t) ==
  /\ Awaited(t, "deactivating")
  /\ bundle' = [bundle EXCEPT ![task[t].bundle].state = RestoredState(task[t])]
  /\ Finish(t)
  /\ UNCHANGED <<frameworkVars, catalogue, registryVars>>

(* Mutant of BundleReferences: the list is not copied, so each service the *)
(* sweep unregisters makes it miss the next.                               *)
EverySecondReference(b) ==
  {i \in bundleServices[b] :
     Cardinality({j \in bundleServices[b] : j < i}) % 2 = 0}

(* Mutant of BundleReferences: the services of all bundles.                *)
AllReferences(b) == services

(* get_bundle_references: a copy of the list of the bundle's services.     *)
BundleReferences(b) == bundleServices[b]

(* The stop method returns and the sweep of the bundle's services begins.  *)
ActivatorStopped(t) ==
  LET b == task[t].bundle
  IN  /\ Awaited(t, "deactivating")
      /\ bundle' = [bundle EXCEPT ![b].activator = "fresh"]
      /\ task' = [task EXCEPT ![t].pc = "sweep", ![t].refs = BundleReferences(b)]
      /\ running' = t
      /\ UNCHANGED <<frameworkVars, catalogue, registryVars>>

(* The sweep unregisters the next service of the copy.                     *)
First(refs) == CHOOSE i \in refs : \A j \in refs : i <= j

Sweep(t) ==
  LET i == First(task[t].refs)
  IN  /\ At(t, "sweep")
      /\ task[t].refs # {}
      /\ Registry!Unregister(i)
      /\ task' = [task EXCEPT ![t].pc = "unregisteringEvent", ![t].refs = @ \ {i}]
      /\ running' = NoTask
      /\ UNCHANGED <<frameworkVars, catalogue, bundle>>

(* unregister raises for a service that is gone by now: the exception      *)
(* leaves stop_bundle before the context and the state are set.            *)
SweepRaises(t) ==
  /\ At(t, "sweep")
  /\ task[t].refs # {} /\ First(task[t].refs) \notin services
  /\ Finish(t)
  /\ UNCHANGED <<frameworkVars, catalogue, bundle, registryVars>>

UnregisteringDelivered(t) ==
  /\ Awaited(t, "unregisteringEvent")
  /\ GoTo(t, "sweep")
  /\ UNCHANGED <<frameworkVars, catalogue, bundle, registryVars>>

SweepEnd(t) ==
  LET b == task[t].bundle
  IN  /\ At(t, "sweep")
      /\ task[t].refs = {}
      /\ bundle' = [bundle EXCEPT ![b].context = FALSE, ![b].state = "RESOLVED"]
      /\ Await(t, "stoppedEvent")
      /\ UNCHANGED <<frameworkVars, catalogue, registryVars>>

StoppedDelivered(t) ==
  /\ Awaited(t, "stoppedEvent")
  /\ Return(t)
  /\ UNCHANGED <<frameworkVars, catalogue, bundle, registryVars>>

-----------------------------------------------------------------------------
(* _get_bundle_start_level.                                                *)
StartLevelOf(b) == IF bundle[b].level = 0 THEN DefaultLevel ELSE bundle[b].level

(* Mutant of IsDown: the levels only ever go up.                           *)
NeverDown(requested) == FALSE

IsDown(requested) == requested < active

(* Mutant of Precedes: the order of installation.                          *)
PrecedesById(x, y, down) == x[2] < y[2]

(* Mutant of Precedes: the stop takes the levels in the order of the start.*)
PrecedesUpward(x, y, down) == x[1] < y[1] \/ (x[1] = y[1] /\ x[2] < y[2])

(* The order in which the level loop takes bundles, given as <<level, id>>.*)
Precedes(x, y, down) ==
  \/ IF down THEN x[1] > y[1] ELSE x[1] < y[1]
  \/ x[1] = y[1] /\ x[2] < y[2]

(* _set_active_start_level up to the head of its loop, after the framework *)
(* call outer fired its first event.                                       *)
EnterLevels(t, requested) ==
  LET bundles == IF requested = active THEN {} ELSE installed
  IN  /\ target' = requested
      /\ bundle' = [b \in BundleIds |->
            IF b \in bundles
            THEN [bundle[b] EXCEPT !.level = StartLevelOf(b)] ELSE bundle[b]]
      /\ task' = [task EXCEPT ![t].pc = "levels", ![t].requested = requested,
            ![t].down = IsDown(requested),
            ![t].todo = {<<StartLevelOf(b), b>> : b \in bundles}]
      /\ running' = t
      /\ UNCHANGED <<fwState, active, catalogue, registryVars>>

(* x is the bundle whose turn it is in the loop of task record r.          *)
Turn(r, x) == x \in r.todo /\ \A y \in r.todo \ {x} : Precedes(x, y, r.down)

(* Mutant of TurnTaken: the turn does not pass on.                         *)
TurnKept(r, x) == r

TurnTaken(r, x) == [r EXCEPT !.todo = @ \ {x}]

MustStart(r, x) == ~r.down /\ x[1] <= r.requested
MustStop(r, x) == r.down /\ x[1] > r.requested

LevelStarts(t) ==
  /\ At(t, "levels")
  /\ \E x \in task[t].todo :
       /\ Turn(task[t], x) /\ MustStart(task[t], x)
       /\ BeginStart(t, x[2], TurnTaken(task[t], x))
  /\ UNCHANGED <<frameworkVars, catalogue, registryVars>>

LevelStops(t) ==
  /\ At(t, "levels")
  /\ \E x \in task[t].todo :
       /\ Turn(task[t], x) /\ MustStop(task[t], x)
       /\ BeginStop(t, x[2], TurnTaken(task[t], x))
  /\ UNCHANGED <<frameworkVars, catalogue, registryVars>>

(* A bundle of another level, or one start_bundle or stop_bundle refuses.  *)
LevelSkips(t) ==
  /\ At(t, "levels")
  /\ \E x \in task[t].todo :
       /\ Turn(task[t], x)
       /\ ~(MustStart(task[t], x) /\ CanStart(x[2]))
       /\ ~(MustStop(task[t], x) /\ bundle[x[2]].state = "ACTIVE")
       /\ task' = [task EXCEPT ![t] = TurnTaken(@, x)]
  /\ UNCHANGED <<frameworkVars, catalogue, bundle, running, registryVars>>

(* The loop is over: Framework.start or stop goes on to its last event.    *)
LevelsEnd(t) ==
  /\ At(t, "levels")
  /\ task[t].todo = {}
  /\ active' = target
  /\ \/ task[t].outer = "start" /\ fwState' = "ACTIVE" /\ Await(t, "fwStartedEvent")
     \/ task[t].outer = "stop" /\ fwState' = "RESOLVED" /\ Await(t, "fwStoppedEvent")
  /\ UNCHANGED <<target, catalogue, bundle, registryVars>>

-----------------------------------------------------------------------------
(* A free task makes a call.                                               *)
Free(t) == running = NoTask /\ task[t] = Idle

(* Framework.start and stop up to their first await.                       *)
CallFrameworkStart(t) ==
  /\ Free(t)
  /\ fwState \notin {"STARTING", "ACTIVE"}
  /\ fwState' = "STARTING"
  /\ task' = [task EXCEPT ![t].pc = "fwStartingEvent", ![t].outer = "start"]
  /\ UNCHANGED <<active, target, catalogue, bundle, running, registryVars>>

CallFrameworkStop(t) ==
  /\ Free(t)
  /\ fwState = "ACTIVE"
  /\ fwState' = "STOPPING"
  /\ task' = [task EXCEPT ![t].pc = "fwStoppingEvent", ![t].outer = "stop"]
  /\ UNCHANGED <<active, target, catalogue, bundle, running, registryVars>>

FwStartingDelivered(t) ==
  Awaited(t, "fwStartingEvent") /\ EnterLevels(t, StartLevel)

FwStoppingDelivered(t) ==
  Awaited(t, "fwStoppingEvent") /\ EnterLevels(t, 0)

FwLastDelivered(t) ==
  /\ Awaited(t, "fwStartedEvent") \/ Awaited(t, "fwStoppedEvent")
  /\ Finish(t)
  /\ UNCHANGED <<frameworkVars, catalogue, bundle, registryVars>>

(* Bundle.start and stop, of a bundle that may be uninstalled by now.      *)
CallStart(t, b) ==
  /\ Free(t) /\ Issued(b)
  /\ BeginStart(t, b, Idle)
  /\ UNCHANGED <<frameworkVars, catalogue, registryVars>>

CallStop(t, b) ==
  /\ Free(t) /\ Issued(b)
  /\ BeginStop(t, b, Idle)
  /\ UNCHANGED <<frameworkVars, catalogue, registryVars>>

(* Mutant of InstalledUnder: only running bundles are compared.            *)
RunningUnder(name) ==
  \E b \in installed : bundle[b].name = name /\ bundle[b].state = "ACTIVE"

InstalledUnder(name) == \E b \in installed : bundle[b].name = name

(* Mutant of NewBundleId: the first id no installed bundle has.            *)
FreeBundleId == First(BundleIds \ installed)

NewBundleId == nextBundle

(* install_bundle up to the import of the module.                          *)
CallInstall(t, name) ==
  /\ Free(t)
  /\ ~InstalledUnder(name)
  /\ nextBundle \in BundleIds
  /\ task' = [task EXCEPT ![t].pc = "loading", ![t].name = name]
  /\ UNCHANGED <<frameworkVars, catalogue, bundle, running, registryVars>>

(* The module is imported and the bundle entered under the next id.        *)
Loaded(t) ==
  LET b == NewBundleId
  IN  /\ Awaited(t, "loading")
      /\ nextBundle \in BundleIds
      /\ bundle' = [bundle EXCEPT ![b] = [Unissued EXCEPT !.name = task[t].name]]
      /\ installed' = installed \union {b}
      /\ nextBundle' = nextBundle + 1
      /\ Await(t, "installedEvent")
      /\ UNCHANGED <<frameworkVars, registryVars>>

LoadFails(t) ==
  /\ Awaited(t, "loading")
  /\ Finish(t)
  /\ UNCHANGED <<frameworkVars, catalogue, bundle, registryVars>>

InstalledDelivered(t) ==
  /\ Awaited(t, "installedEvent")
  /\ Finish(t)
  /\ UNCHANGED <<frameworkVars, catalogue, bundle, registryVars>>

(* uninstall_bundle up to its first await: a bundle that is not active is  *)
(* not stopped.                                                            *)
CallUninstall(t, b) ==
  LET r == [Idle EXCEPT !.outer = "uninstall", !.bundle = b]
  IN  /\ Free(t)
      /\ b \in installed
      /\ \/ BeginStop(t, b, r)
         \/ /\ bundle[b].state # "ACTIVE"
            /\ task' = [task EXCEPT ![t] = [r EXCEPT !.pc = "uninstall"]]
            /\ running' = t
            /\ UNCHANGED bundle
      /\ UNCHANGED <<frameworkVars, catalogue, registryVars>>

Uninstalled(t) ==
  /\ At(t, "uninstall")
  /\ bundle' = [bundle EXCEPT ![task[t].bundle].state = "UNINSTALLED"]
  /\ Await(t, "uninstalledEvent")
  /\ UNCHANGED <<frameworkVars, catalogue, registryVars>>

(* The bundle leaves the framework's collections, and its activator; the   *)
(* del raises for one that another call took out.                          *)
UninstalledDelivered(t) ==
  LET b == task[t].bundle
  IN  /\ Awaited(t, "uninstalledEvent")
      /\ IF b \in installed
         THEN /\ installed' = installed \ {b}
              /\ bundle' = [bundle EXCEPT ![b].activator = "none"]
              /\ Await(t, "unloading")
         ELSE Finish(t) /\ UNCHANGED <<installed, bundle>>
      /\ UNCHANGED <<frameworkVars, nextBundle, registryVars>>

Unloaded(t) ==
  /\ Awaited(t, "unloading")
  /\ Finish(t)
  /\ UNCHANGED <<frameworkVars, catalogue, bundle, registryVars>>

(* Bundle.start_level is set, as run_framework does, before the framework  *)
(* starts.                                                                 *)
SetLevel(b, level) ==
  /\ running = NoTask /\ fwState = "RESOLVED"
  /\ b \in installed
  /\ bundle' = [bundle EXCEPT ![b].level = level]
  /\ UNCHANGED <<frameworkVars, catalogue, task, running, registryVars>>

(* A bundle that was handed its context uses it from a task of its own.    *)
BundleRegisters(b) ==
  /\ Background /\ running = NoTask
  /\ bundle[b].activator # "none"
  /\ Registry!Register(b, <<Class>>, Unset)
  /\ UNCHANGED <<frameworkVars, catalogue, bundle, task, running>>

BundleUnregisters(b, i) ==
  /\ Background /\ running = NoTask
  /\ bundle[b].activator # "none"
  /\ i \in Registry!Registered(b)
  /\ Registry!Unregister(i)
  /\ UNCHANGED <<frameworkVars, catalogue, bundle, task, running>>

-----------------------------------------------------------------------------
Calls(t) ==
  \/ CallFrameworkStart(t) \/ CallFrameworkStop(t)
  \/ \E b \in BundleIds : CallStart(t, b) \/ CallStop(t, b) \/ CallUninstall(t, b)
  \/ \E name \in Names : CallInstall(t, name)

(* What the task of a call in progress does.                               *)
Steps(t) ==
  \/ CallActivatorStart(t) \/ ActivatorRegisters(t)
  \/ ActivatorStarted(t) \/ ActivatorStartFails(t) \/ StartedDelivered(t)
  \/ CallActivatorStop(t)
  \/ \E i \in 1..MaxServices : ActivatorUnregisters(t, i)
  \/ ActivatorStopFails(t) \/ ActivatorStopped(t)
  \/ Sweep(t) \/ SweepRaises(t) \/ UnregisteringDelivered(t) \/ SweepEnd(t)
  \/ StoppedDelivered(t)
  \/ LevelStarts(t) \/ LevelStops(t) \/ LevelSkips(t) \/ LevelsEnd(t)
  \/ FwStartingDelivered(t) \/ FwStoppingDelivered(t) \/ FwLastDelivered(t)
  \/ Loaded(t) \/ LoadFails(t) \/ InstalledDelivered(t)
  \/ Uninstalled(t) \/ UninstalledDelivered(t) \/ Unloaded(t)

Surroundings ==
  \/ \E b \in BundleIds, level \in Levels : SetLevel(b, level)
  \/ \E b \in BundleIds : BundleRegisters(b)
  \/ \E b \in BundleIds, i \in 1..MaxServices : BundleUnregisters(b, i)

Next == (\E t \in Tasks : Calls(t) \/ Steps(t)) \/ Surroundings

Spec == Init /\ [][Next]_vars

(* The event loop resumes every task whose await is over: BLOCK_TIMEOUT    *)
(* bounds an activator's methods, and listeners are taken to return.  The  *)
(* fairness is strong since a task waits in the loop's queue, first in,    *)
(* first out, while others keep the processor.                             *)
FairSpec == Spec /\ \A t \in Tasks : SF_vars(Steps(t))

-----------------------------------------------------------------------------
BundleRecords ==
  [name : Names \union {NoName}, state : States, context : BOOLEAN,
   level : {0, DefaultLevel} \union Levels, activator : ActivatorStates]

TaskRecords ==
  [pc : {"idle"} \union AwaitPoints \union LoopHeads,
   outer : {"none", "uninstall", "start", "stop"},
   bundle : {0} \union BundleIds, prev : States, name : Names \union {NoName},
   todo : SUBSET (({DefaultLevel} \union Levels) \X BundleIds), requested : {0, StartLevel},
   down : BOOLEAN, refs : SUBSET (1..MaxServices), given : BOOLEAN]

(* Types: every bundle the level loop takes has a level of its own, and    *)
(* a task that keeps the processor is at the head of a loop.               *)
TypeOK ==
  /\ fwState \in States \ {"UNINSTALLED"}
  /\ {active, target} \subseteq {0, StartLevel}
  /\ nextBundle \in 1..(MaxBundles + 1)
  /\ installed \subseteq 1..(nextBundle - 1)
  /\ bundle \in [BundleIds -> BundleRecords]
  /\ task \in [Tasks -> TaskRecords]
  /\ running \in Tasks \union {NoTask}
  /\ \A t \in Tasks : task[t].pc \in LoopHeads <=> running = t
  /\ Registry!TypeOK

-----------------------------------------------------------------------------
(* However calls interleave: a bundle is STARTING only while a call that   *)
(* is starting it is in progress, so no failure, stop or uninstallation    *)
(* leaves a bundle that can be neither started nor stopped.                *)
StartingHasStarter ==
  \A b \in BundleIds : bundle[b].state = "STARTING" =>
    \E t \in Tasks : /\ task[t].bundle = b
                     /\ task[t].pc \in {"startingEvent", "activating"}

(* However calls interleave: a service is unregistered only by its own     *)
(* bundle or in a stop of its own bundle, never in the stop of another.    *)
SweptByOwner ==
  [][\A i \in services \ services' :
       \/ Background
       \/ \E t \in Tasks : /\ task[t].bundle = reference[i].bundle
                           /\ task[t].pc \in {"deactivating", "sweep"}]_vars

(* However calls interleave: a bundle that left the catalogue never comes  *)
(* back, its id is never given to another, and it leaves only in a call to *)
(* uninstall it.                                                           *)
UninstalledForGood ==
  [][/\ \A b \in installed' \ installed : ~Issued(b)
     /\ \A b \in installed \ installed' :
          \E t \in Tasks : task[t].pc = "uninstalledEvent" /\ task[t].bundle = b
     /\ \A b \in BundleIds : Issued(b) => bundle'[b].name = bundle[b].name]_vars

(* Every call of the framework comes to an end, whatever the activators    *)
(* do and however the calls interleave.                                    *)
EveryCallReturns ==
  \A t \in Tasks : task[t].pc # "idle" ~> task[t].pc = "idle"

-----------------------------------------------------------------------------
(* The rest holds while calls are made one at a time (one task).           *)

(* Activator.stop is called on an activator whose start returned, with the *)
(* bundle's context.                                                       *)
StopGetsContext ==
  \A t \in Tasks : task[t].pc = "deactivating" =>
    task[t].given /\ bundle[task[t].bundle].activator = "started"

(* When the STOPPED event of a bundle is delivered, none of its services   *)
(* is registered, those it registered in an earlier, failed start included.*)
StoppedOwnsNothing ==
  \A t \in Tasks : task[t].pc = "stoppedEvent" =>
    Registry!Registered(task[t].bundle) = {}

(* Under a framework that is stopped, or was not started, no installed     *)
(* bundle is active: the stop reaches those started by hand beyond the     *)
(* start level, too.                                                       *)
FrameworkStoppedQuiet ==
  fwState = "RESOLVED" => \A b \in installed : bundle[b].state # "ACTIVE"

(* When all calls are over every bundle is at rest, and an active one has  *)
(* its context and an activator that was started: no sequence of failures  *)
(* wedges a bundle.                                                        *)
BundlesSettle ==
  (\A t \in Tasks : task[t] = Idle) =>
    \A b \in BundleIds :
      /\ bundle[b].state \in {"RESOLVED", "ACTIVE", "UNINSTALLED"}
      /\ bundle[b].state = "ACTIVE" =>
           bundle[b].context /\ bundle[b].activator = "started"

(* While the framework starts a bundle, every installed bundle before it   *)
(* in the order of levels and of installation is active already.           *)
StartsInLevelOrder ==
  \A t \in Tasks, b, c \in installed :
    /\ task[t].outer = "start" /\ task[t].bundle = b
    /\ \/ bundle[c].level < bundle[b].level
       \/ bundle[c].level = bundle[b].level /\ c < b
    => bundle[c].state = "ACTIVE"

(* While the framework stops a bundle, every installed bundle of a higher  *)
(* level, or installed before it on its level, is stopped already.         *)
StopsInReverseLevelOrder ==
  \A t \in Tasks, b, c \in installed :
    /\ task[t].outer = "stop" /\ task[t].bundle = b
    /\ \/ bundle[c].level > bundle[b].level
       \/ bundle[c].level = bundle[b].level /\ c < b
    => bundle[c].state # "ACTIVE"

Lifecycle == INSTANCE BundleLifecycle WITH
  up <- fwState # "RESOLVED",
  issued <- {b \in BundleIds : Issued(b)},
  known <- installed,
  state <- [b \in BundleIds |-> bundle[b].state]

(* With one task, the framework implements the lifecycle it promises.      *)
ImplementsLifecycle == Lifecycle!Spec

-----------------------------------------------------------------------------
(* What tests/bundles/simple.py asserts of the argument of stop: it is a   *)
(* context.  With two tasks, one starting the bundle while another's stop  *)
(* sweeps its services, the code breaks it: see framework_lost_context.    *)
StopIsGivenContext ==
  \A t \in Tasks : task[t].pc = "deactivating" => task[t].given

=============================================================================
