---------------------------- MODULE CommandLine -----------------------------
(***************************************************************************)
(* The command line (odss.cli): run_framework installs the configured      *)
(* bundles, starts the watcher and the framework, sleeps, and on a signal  *)
(* or an error stops the watcher and then the framework.  The watcher's    *)
(* task uninstalls, installs and starts the bundles whose files changed.   *)
(*                                                                         *)
(* The two tasks interleave at their awaits.  Of the framework this module *)
(* has the catalogue, the states of the Bundle objects and the calls that  *)
(* are made here; levels, events and services are Framework's.  A bundle's *)
(* start or stop is one await, which may raise.                            *)
(***************************************************************************)
EXTENDS Naturals, Sequences, SequencesExt, FiniteSetsExt

CONSTANTS
    Configs,    \* what config.bundles may hold: sequences of [name, location, startlevel]
    Entries,    \* the entry points: a function from their names to modules
    Unnamed,    \* the location or startlevel an entry does not have
    NoLevel,    \* startlevel of an entry given as a string: no level is set
    Modules,    \* the modules with files, in the order of sorted(sys.modules)
    Stems,      \* the names of bundles that a module's name starts with
    MaxEdits    \* bound: changes of files

ASSUME CommandAssumption ==
    /\ \A c \in Configs : c \in Seq(ToSet(c))
    /\ Modules \in Seq(ToSet(Modules))

VARIABLES
    config,     \* the entries still to install
    watch,      \* config.watch
    main,       \* run_framework: [at, left, was], left are the bundles of its level loop and
                \* was is the previous_state of the one it starts
    framework,  \* the framework's state
    bundle,     \* every Bundle object made: [name, state, code]
    catalogue,  \* Framework.__bundles without the framework: places in bundle
    runner,     \* Reloader.run: [at, names, bundles, current]
    changed,    \* the modules the next tick of the watcher finds changed
    edits,      \* how often each module was changed
    signalled,  \* the signal was caught
    raced,      \* history: a reload went on while the framework was starting
    swallowed,  \* history: an AttributeError ended a reload, and only that
    stopFailed  \* history: a bundle's stop raised

vars == <<config, watch, main, framework, bundle, catalogue, runner, changed, edits,
          signalled, raced, swallowed, stopFailed>>

history == <<raced, swallowed, stopFailed>>

Up == {"STARTING", "ACTIVE"}

Resting(at) == [at |-> at, names |-> <<>>, bundles |-> <<>>, current |-> 0]

Init == /\ config \in Configs /\ watch \in BOOLEAN
        /\ main = [at |-> "install", left |-> <<>>, was |-> "INSTALLED"]
        /\ framework = "INSTALLED" /\ bundle = <<>> /\ catalogue = <<>>
        /\ runner = Resting("none")
        /\ changed = {} /\ edits = [m \in ToSet(Modules) |-> 0]
        /\ signalled = FALSE /\ raced = FALSE /\ swallowed = FALSE /\ stopFailed = FALSE

(***************************************************************************)
(* What both tasks do to bundles.                                          *)
(***************************************************************************)
\* The code a bundle has when it is loaded: how often its modules were changed.
Code(name) == [m \in {m \in ToSet(Modules) : name \in Stems[m]} |-> edits[m]]

SetState(b, state) == bundle' = [bundle EXCEPT ![b].state = state]

Known(name) == {i \in DOMAIN catalogue : bundle[catalogue[i]].name = name}

\* install_bundle after the loader's await.
Installed(name) ==
    /\ bundle' = Append(bundle, [name |-> name, state |-> "INSTALLED", code |-> Code(name)])
    /\ catalogue' = Append(catalogue, Len(bundle) + 1)

(***************************************************************************)
(* run_framework                                                           *)
(***************************************************************************)
MainAt(at) == main.at = at

GoTo(at) == main' = [main EXCEPT !.at = at, !.left = <<>>]

\* Config.normalize_bundles: a location that is no entry point is replaced by the name.
Get(f, x, default) == IF x \in DOMAIN f THEN f[x] ELSE default

Location(entry) ==
    IF entry.startlevel = NoLevel THEN Get(Entries, entry.name, entry.name)
    ELSE Get(Entries, IF entry.location = Unnamed THEN entry.name ELSE entry.location, entry.name)

\* The next entry; None < 1 is a TypeError, and a level below 1 a ValueError, before the try.
InstallNext ==
    /\ MainAt("install") /\ config # <<>>
    /\ LET entry == Head(config)
           name == Location(entry)
       IN  /\ IF Known(name) # {} THEN UNCHANGED <<bundle, catalogue>> ELSE Installed(name)
           /\ IF entry.startlevel # NoLevel /\ entry.startlevel \in {Unnamed, 0}
              THEN GoTo("crashed") ELSE UNCHANGED main
    /\ config' = Tail(config)
    /\ UNCHANGED <<watch, framework, runner, changed, edits, signalled, history>>

InstallFails ==
    /\ MainAt("install") /\ config # <<>> /\ Known(Location(Head(config))) = {}
    /\ GoTo("crashed")
    /\ UNCHANGED <<config, watch, framework, bundle, catalogue, runner, changed, edits,
                   signalled, history>>

\* reloader.start and framework.start until the first bundle's start is awaited.
Launch ==
    /\ MainAt("install") /\ config = <<>>
    /\ runner' = IF watch THEN Resting("new") ELSE runner
    /\ framework' = "STARTING"
    /\ main' = [main EXCEPT !.at = "starting", !.left = catalogue]
    /\ UNCHANGED <<config, watch, bundle, catalogue, changed, edits, signalled, history>>

Loop == Head(main.left)

Rest == main' = [main EXCEPT !.at = IF main.at = "starting one" THEN "starting" ELSE "stopping",
                             !.left = Tail(@)]

LevelStarts ==
    /\ MainAt("starting") /\ main.left # <<>>
    /\ IF bundle[Loop].state \in Up
       THEN main' = [main EXCEPT !.left = Tail(@)] /\ UNCHANGED bundle
       ELSE /\ main' = [main EXCEPT !.at = "starting one", !.was = bundle[Loop].state]
            /\ SetState(Loop, "STARTING")
    /\ UNCHANGED <<config, watch, framework, catalogue, runner, changed, edits, signalled, history>>

LevelStarted ==
    /\ MainAt("starting one")
    /\ SetState(Loop, "ACTIVE") /\ Rest
    /\ UNCHANGED <<config, watch, framework, catalogue, runner, changed, edits, signalled, history>>

\* The error leaves framework.start with the framework STARTING, and goes on to the finally.
LevelStartFails ==
    /\ MainAt("starting one")
    /\ SetState(Loop, main.was) /\ GoTo("finally")
    /\ UNCHANGED <<config, watch, framework, catalogue, runner, changed, edits, signalled, history>>

Started ==
    /\ MainAt("starting") /\ main.left = <<>>
    /\ framework' = "ACTIVE" /\ GoTo("running")
    /\ UNCHANGED <<config, watch, bundle, catalogue, runner, changed, edits, signalled, history>>

\* GracefulExit leaves the loop, and cancel_tasks cancels main where it awaits.  A bundle it
\* was starting stays STARTING: CancelledError is no Exception.
Signal ==
    /\ main.at \in {"install", "starting", "starting one", "running"} /\ ~signalled
    /\ signalled' = TRUE
    /\ GoTo(IF MainAt("install") THEN "crashed" ELSE "finally")
    /\ UNCHANGED <<config, watch, framework, bundle, catalogue, runner, changed, edits, history>>

\* A mutant of FrameworkStop: the framework is stopped without waiting for the watcher.
FrameworkStopFirst ==
    /\ MainAt("finally") /\ framework = "ACTIVE"
    /\ framework' = "STOPPING" /\ main' = [main EXCEPT !.at = "stopping", !.left = Reverse(catalogue)]
    /\ UNCHANGED <<config, watch, bundle, catalogue, runner, changed, edits, signalled, history>>

\* A mutant of StopReloader: the watcher is waited for but not cancelled, and for ever.
StopReloaderWaits ==
    /\ MainAt("finally") /\ runner.at \in {"none", "failed"}
    /\ GoTo(IF runner.at = "none" THEN "stop" ELSE "raised")
    /\ UNCHANGED <<config, watch, framework, bundle, catalogue, runner, changed, edits,
                   signalled, history>>

\* reloader.stop: the watcher is cancelled where it awaits.  In its sleep it ends, and so does
\* the wait for it; anywhere else the wait raises what the watcher ended with.
StopReloader ==
    /\ MainAt("finally")
    /\ runner' = Resting(IF runner.at = "none" THEN "none" ELSE "ended")
    /\ GoTo(IF runner.at \in {"none", "sleep"} THEN "stop" ELSE "raised")
    /\ UNCHANGED <<config, watch, framework, bundle, catalogue, changed, edits, signalled, history>>

FrameworkStop ==
    /\ MainAt("stop") /\ framework = "ACTIVE"
    /\ framework' = "STOPPING" /\ main' = [main EXCEPT !.at = "stopping", !.left = Reverse(catalogue)]
    /\ UNCHANGED <<config, watch, bundle, catalogue, runner, changed, edits, signalled, history>>

FrameworkIsNotActive ==
    /\ MainAt("stop") /\ framework # "ACTIVE"
    /\ GoTo("done")
    /\ UNCHANGED <<config, watch, framework, bundle, catalogue, runner, changed, edits,
                   signalled, history>>

LevelStops ==
    /\ MainAt("stopping") /\ main.left # <<>>
    /\ IF bundle[Loop].state = "ACTIVE"
       THEN main' = [main EXCEPT !.at = "stopping one"] /\ SetState(Loop, "STOPPING")
       ELSE main' = [main EXCEPT !.left = Tail(@)] /\ UNCHANGED bundle
    /\ UNCHANGED <<config, watch, framework, catalogue, runner, changed, edits, signalled, history>>

LevelStopped ==
    /\ MainAt("stopping one")
    /\ SetState(Loop, "RESOLVED") /\ Rest
    /\ UNCHANGED <<config, watch, framework, catalogue, runner, changed, edits, signalled, history>>

LevelStopFails ==
    /\ MainAt("stopping one")
    /\ SetState(Loop, "ACTIVE") /\ GoTo("raised") /\ stopFailed' = TRUE
    /\ UNCHANGED <<config, watch, framework, catalogue, runner, changed, edits, signalled,
                   raced, swallowed>>

Stopped ==
    /\ MainAt("stopping") /\ main.left = <<>>
    /\ framework' = "RESOLVED" /\ GoTo("done")
    /\ UNCHANGED <<config, watch, bundle, catalogue, runner, changed, edits, signalled, history>>

\* The event loop resumes main after each of its awaits; the signal is not its doing.
Main == \/ InstallNext \/ InstallFails \/ Launch
        \/ LevelStarts \/ LevelStarted \/ LevelStartFails \/ Started
        \/ StopReloader \/ FrameworkStop \/ FrameworkIsNotActive
        \/ LevelStops \/ LevelStopped \/ LevelStopFails \/ Stopped

(***************************************************************************)
(* Reloader.run.  A file changed before the watcher's first tick is never  *)
(* seen to have changed: files change after it here.                       *)
(***************************************************************************)
RunnerAt(at) == runner.at = at

Reloading == runner.at \in {"next", "stopping", "unloading", "loading", "installed", "starting"}

RunnerGoesTo(at) == runner' = [runner EXCEPT !.at = at]

Edit(m) ==
    /\ RunnerAt("sleep") \/ Reloading
    /\ edits[m] < MaxEdits
    /\ edits' = [edits EXCEPT ![m] = @ + 1] /\ changed' = changed \cup {m}
    /\ UNCHANGED <<config, watch, main, framework, bundle, catalogue, runner, signalled, history>>

\* What the ticker yields: the names of the modules that changed, in their order.
Updated ==
    LET updated[n \in 0 .. Len(Modules)] ==
            IF n = 0 THEN <<>>
            ELSE IF Modules[n] \in changed THEN Append(updated[n - 1], Modules[n])
            ELSE updated[n - 1]
    IN  updated[Len(Modules)]

\* next(tick), and get_bundles if it finds changes.
Tick ==
    /\ RunnerAt("new") \/ (RunnerAt("sleep") /\ changed # {})
    /\ runner' = IF changed = {} THEN Resting("sleep")
                 ELSE [at |-> "next", names |-> Updated, bundles |-> catalogue, current |-> 0]
    /\ changed' = {}
    /\ raced' = (raced \/ (changed # {} /\ main.at \in {"starting", "starting one"}))
    /\ UNCHANGED <<config, watch, main, framework, bundle, catalogue, edits, signalled,
                   swallowed, stopFailed>>

\* The first bundle of the copy whose name the module's name starts with.
Owners(m) == {i \in DOMAIN runner.bundles : bundle[runner.bundles[i]].name \in Stems[m]}

NameDone == runner' = [runner EXCEPT !.at = "next", !.names = Tail(@)]

\* install_bundle until the loader's await, of a name the catalogue may have.
Install(b) ==
    LET known == Known(bundle[b].name)
    IN  runner' = [runner EXCEPT !.at = IF known = {} THEN "loading" ELSE "installed",
                                 !.current = IF known = {} THEN b
                                             ELSE catalogue[CHOOSE i \in known : TRUE]]

\* uninstall_bundle after Bundle.stop.
Uninstall(b) ==
    /\ SetState(b, "UNINSTALLED")
    /\ catalogue' = RemoveFirst(catalogue, b)
    /\ runner' = [runner EXCEPT !.at = "unloading", !.current = b]

\* A mutant of BeginReload: the bundle is uninstalled as it is.
BeginReloadRunning ==
    /\ RunnerAt("next") /\ runner.names # <<>>
    /\ LET owners == Owners(Head(runner.names))
           b == runner.bundles[Min(owners)]
       IN  /\ owners # {}
           /\ IF b \in ToSet(catalogue)
              THEN /\ catalogue' = RemoveFirst(catalogue, b)
                   /\ runner' = [runner EXCEPT !.at = "unloading", !.current = b]
              ELSE UNCHANGED catalogue /\ Install(b)
    /\ UNCHANGED <<config, watch, main, framework, bundle, changed, edits, signalled, history>>

BeginReload ==
    /\ RunnerAt("next") /\ runner.names # <<>>
    /\ LET owners == Owners(Head(runner.names))
           b == runner.bundles[Min(owners)]
       IN  /\ owners # {}
           /\ CASE b \notin ToSet(catalogue) -> Install(b) /\ UNCHANGED <<bundle, catalogue>>
                [] b \in ToSet(catalogue) /\ bundle[b].state = "ACTIVE" ->
                       /\ SetState(b, "STOPPING")
                       /\ runner' = [runner EXCEPT !.at = "stopping", !.current = b]
                       /\ UNCHANGED catalogue
                [] OTHER -> Uninstall(b)
    /\ UNCHANGED <<config, watch, main, framework, changed, edits, signalled, history>>

NoOwner ==
    /\ RunnerAt("next") /\ runner.names # <<>> /\ Owners(Head(runner.names)) = {}
    /\ runner' = [runner EXCEPT !.names = Tail(@)]
    /\ UNCHANGED <<config, watch, main, framework, bundle, catalogue, changed, edits,
                   signalled, history>>

\* A mutant of ReloadEnds: what changed during the reload counts as seen.
ReloadEndsSeeing ==
    /\ RunnerAt("next") /\ runner.names = <<>>
    /\ runner' = Resting("sleep") /\ changed' = {}
    /\ UNCHANGED <<config, watch, main, framework, bundle, catalogue, edits, signalled, history>>

ReloadEnds ==
    /\ RunnerAt("next") /\ runner.names = <<>>
    /\ runner' = Resting("sleep")
    /\ UNCHANGED <<config, watch, main, framework, bundle, catalogue, changed, edits,
                   signalled, history>>

\* What run does with an exception: an AttributeError ends this reload, any other the watcher.
RunnerRaises ==
    \/ runner' = Resting("sleep") /\ swallowed' = TRUE
    \/ runner' = Resting("failed") /\ UNCHANGED swallowed

ReloadStopped ==
    /\ RunnerAt("stopping") /\ Uninstall(runner.current)
    /\ UNCHANGED <<config, watch, main, framework, changed, edits, signalled, history>>

ReloadStopFails ==
    /\ RunnerAt("stopping")
    /\ SetState(runner.current, "ACTIVE") /\ stopFailed' = TRUE /\ RunnerRaises
    /\ UNCHANGED <<config, watch, main, framework, catalogue, changed, edits, signalled, raced>>

Unloaded ==
    /\ RunnerAt("unloading") /\ Install(runner.current)
    /\ UNCHANGED <<config, watch, main, framework, bundle, catalogue, changed, edits,
                   signalled, history>>

Loaded ==
    /\ RunnerAt("loading")
    /\ Installed(bundle[runner.current].name)
    /\ runner' = [runner EXCEPT !.at = "installed", !.current = Len(bundle) + 1]
    /\ UNCHANGED <<config, watch, main, framework, changed, edits, signalled, history>>

LoadFails ==
    /\ RunnerAt("loading") /\ RunnerRaises
    /\ UNCHANGED <<config, watch, main, framework, bundle, catalogue, changed, edits,
                   signalled, raced, stopFailed>>

\* start_bundle, refused unless the framework is up and the bundle is not.
ReloadStarts ==
    /\ RunnerAt("installed")
    /\ IF framework \in Up /\ bundle[runner.current].state \notin Up
       THEN SetState(runner.current, "STARTING") /\ RunnerGoesTo("starting")
       ELSE UNCHANGED bundle /\ NameDone
    /\ UNCHANGED <<config, watch, main, framework, catalogue, changed, edits, signalled, history>>

ReloadStarted ==
    /\ RunnerAt("starting")
    /\ SetState(runner.current, "ACTIVE") /\ NameDone
    /\ UNCHANGED <<config, watch, main, framework, catalogue, changed, edits, signalled, history>>

ReloadStartFails ==
    /\ RunnerAt("starting")
    /\ SetState(runner.current, "INSTALLED") /\ RunnerRaises
    /\ UNCHANGED <<config, watch, main, framework, catalogue, changed, edits, signalled,
                   raced, stopFailed>>

\* The awaits of the watcher: of activators, the loader, and the sleep between its ticks.
Watcher == \/ Tick \/ BeginReload \/ NoOwner \/ ReloadEnds \/ ReloadStopped \/ ReloadStopFails
           \/ Unloaded \/ Loaded \/ LoadFails \/ ReloadStarts \/ ReloadStarted \/ ReloadStartFails

Next == Main \/ Watcher \/ Signal \/ \E m \in ToSet(Modules) : Edit(m)

Spec == Init /\ [][Next]_vars /\ WF_vars(Watcher) /\ WF_vars(Main)
-----------------------------------------------------------------------------
(***************************************************************************)
(* Properties.                                                             *)
(***************************************************************************)
\* When run_framework has stopped the framework, no bundle is started or being started, the
\* bundles a reload had in its hands included: the watcher is gone before the level loop takes
\* its copy.  A reload during the framework's own start is excepted: the bundle that the level
\* loop starts after its uninstallation belongs to nobody.
CleanExitStopsAll ==
    main.at = "done" /\ framework = "RESOLVED" /\ ~raced =>
        \A b \in DOMAIN bundle : bundle[b].state \notin Up

\* A reload never has two bundles of one name started, whatever fails on its way (a reload
\* during the framework's start excepted).
OneRunsPerName ==
    ~raced => \A a, b \in DOMAIN bundle :
        bundle[a].name = bundle[b].name /\ {bundle[a].state, bundle[b].state} \subseteq Up => a = b

\* When the watcher sleeps and no file waits for its tick, every bundle has the code of its
\* files, those included that changed while it was reloading (unless an AttributeError ended
\* a reload and dropped the names that were left).
ReloadedLatest ==
    RunnerAt("sleep") /\ changed = {} /\ ~swallowed =>
        \A i \in DOMAIN catalogue :
            bundle[catalogue[i]].code = Code(bundle[catalogue[i]].name)

\* A signal ends run_framework, wherever it and the watcher are.
SignalEnds == signalled ~> main.at \in {"done", "raised", "crashed"}
=============================================================================
