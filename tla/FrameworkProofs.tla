-------------------------- MODULE FrameworkProofs --------------------------
(***************************************************************************)
(* Proofs about Framework.tla, for every number of tasks, bundles, names,  *)
(* services and levels.                                                    *)
(*                                                                         *)
(* The framework only ever moves the registry by its operations, so what   *)
(* ServiceRegistryProofs shows of the registry holds under the framework.  *)
(* Reg and Framework's Registry are one and the same instance under two    *)
(* names; the first lemmas say so.                                         *)
(***************************************************************************)
EXTENDS Framework, WellFoundedInduction, TLAPS

Reg == INSTANCE ServiceRegistryProofs WITH
  Bundles <- BundleIds, Classes <- {Class}, ClassTuples <- {<<Class>>},
  Priorities <- {}, MaxUse <- 0

LEMMA RegistryConstants == Reg!ConstantsAssumption
BY FrameworkAssumption DEF Reg!ConstantsAssumption, Reg!DefaultPriority

LEMMA SameInit == Registry!Init <=> Reg!Init
BY DEF Registry!Init, Reg!Init, Registry!Ids, Reg!Ids

LEMMA SameRegister ==
  ASSUME NEW b, NEW cs, NEW p
  PROVE  Registry!Register(b, cs, p) <=> Reg!Register(b, cs, p)
BY DEF Registry!Register, Reg!Register, Registry!NewId, Reg!NewId,
   Registry!books, Reg!books, Registry!Position, Reg!Position,
   Registry!SortValue, Reg!SortValue, Registry!BisectLeft, Reg!BisectLeft,
   Registry!Ids, Reg!Ids, Registry!DefaultPriority, Reg!DefaultPriority,
   Registry!Range, Reg!Range, Registry!InsertAt, Reg!InsertAt,
   Registry!Intervals, Reg!Intervals, Registry!Halve, Reg!Halve,
   Registry!Less, Reg!Less

LEMMA SameUnregister ==
  ASSUME NEW i
  PROVE  Registry!Unregister(i) <=> Reg!Unregister(i)
BY DEF Registry!Unregister, Reg!Unregister, Registry!UnlistedClasses,
   Reg!UnlistedClasses, Registry!Disowned, Reg!Disowned, Registry!books,
   Reg!books, Registry!Position, Reg!Position, Registry!SortValue,
   Reg!SortValue, Registry!BisectLeft, Reg!BisectLeft, Registry!Range,
   Reg!Range, Registry!RemoveAt, Reg!RemoveAt, Registry!Intervals,
   Reg!Intervals, Registry!Halve, Reg!Halve, Registry!Less, Reg!Less

LEMMA SameInvariants ==
  /\ Registry!TypeOK <=> Reg!TypeOK
  /\ Registry!OwnerListsCover <=> Reg!OwnerListsCover
  /\ \A b : Registry!Registered(b) = Reg!Registered(b)
<1>1. Registry!TypeOK <=> Reg!TypeOK
  BY DEF Registry!TypeOK, Reg!TypeOK, Registry!Ids, Reg!Ids,
     Registry!References, Reg!References, Registry!Sorts, Reg!Sorts,
     Registry!DefaultPriority, Reg!DefaultPriority
<1>2. \A b : Registry!Registered(b) = Reg!Registered(b)
  BY DEF Registry!Registered, Reg!Registered
<1>3. Registry!OwnerListsCover <=> Reg!OwnerListsCover
  BY <1>2 DEF Registry!OwnerListsCover, Reg!OwnerListsCover
<1> QED BY <1>1, <1>2, <1>3

-----------------------------------------------------------------------------
(* How the framework moves the registry.                                   *)
RegistryMove ==
  \/ \E b \in BundleIds : Registry!Register(b, <<Class>>, Unset)
  \/ \E i \in 1..MaxServices : Registry!Unregister(i)
  \/ UNCHANGED registryVars

(* The points of a start, a stop or an uninstallation in progress.         *)
BundlePoints == {"startingEvent", "activating", "startedEvent", "stoppingEvent",
  "deactivating", "sweep", "unregisteringEvent", "stoppedEvent",
  "uninstall", "uninstalledEvent", "unloading"}

(* There the task has a bundle in hand; and no call remembers STARTING as  *)
(* the state to put its bundle back to.                                    *)
InHand ==
  {r \in TaskRecords :
     /\ r.pc \in BundlePoints \/ r.outer = "uninstall" => r.bundle # 0
     /\ r.prev # "STARTING"}

(* The parts of the inductive invariant: with the registry's, they give    *)
(* TypeOK.                                                                 *)
LevelsOK ==
  fwState \in States \ {"UNINSTALLED"} /\ {active, target} \subseteq {0, StartLevel}
CatalogueOK ==
  nextBundle \in 1..(MaxBundles + 1) /\ installed \subseteq 1..(nextBundle - 1)
BundlesOK == bundle \in [BundleIds -> BundleRecords]
ControlOK ==
  /\ task \in [Tasks -> InHand]
  /\ running \in Tasks \union {NoTask}
  /\ \A t \in Tasks : task[t].pc \in LoopHeads <=> running = t
ProgramOK == LevelsOK /\ CatalogueOK /\ BundlesOK /\ ControlOK

LEMMA TypeOKParts == ProgramOK /\ Registry!TypeOK => TypeOK
<1> SUFFICES ASSUME ProgramOK, Registry!TypeOK PROVE TypeOK
  OBVIOUS
<1>1. InHand \subseteq TaskRecords
  BY DEF InHand
<1>2. task \in [Tasks -> TaskRecords]
  BY <1>1 DEF ProgramOK, ControlOK
<1> QED BY <1>2 DEF TypeOK, ProgramOK, LevelsOK, CatalogueOK, BundlesOK, ControlOK

LEMMA ControlPoints ==
  /\ "idle" \notin LoopHeads /\ "idle" \notin AwaitPoints
  /\ \A p \in AwaitPoints : p \notin LoopHeads
  /\ NoTask \notin Tasks
  /\ Idle \in InHand /\ Idle.pc = "idle"
<1>1. Idle \in TaskRecords /\ Idle.pc = "idle" /\ Idle.outer = "none" /\ Idle.prev = "RESOLVED"
  BY DEF Idle, TaskRecords, States
<1>2. Idle \in InHand
  BY <1>1 DEF InHand, BundlePoints
<1> QED BY <1>1, <1>2, FrameworkAssumption DEF AwaitPoints, LoopHeads

(* A step of task t that leaves it with record r.                          *)
LEMMA Moved ==
  ASSUME ControlOK, NEW t \in Tasks, running \in {t, NoTask},
         NEW r \in InHand, task' = [task EXCEPT ![t] = r],
         running' = IF r.pc \in LoopHeads THEN t ELSE NoTask
  PROVE  ControlOK'
<1>1. task' \in [Tasks -> InHand] /\ task'[t] = r
  BY DEF ControlOK
<1>2. running' \in Tasks \union {NoTask}
  OBVIOUS
<1>3. ASSUME NEW u \in Tasks
      PROVE  task'[u].pc \in LoopHeads <=> running' = u
  <2>1. CASE u = t
    BY <1>1, <2>1, ControlPoints
  <2>2. CASE u # t
    BY <2>2, ControlPoints DEF ControlOK
  <2> QED BY <2>1, <2>2
<1> QED BY <1>1, <1>2, <1>3 DEF ControlOK

(* What a record in hand is made of, component by component.               *)
LEMMA InHandParts ==
  /\ \A r \in InHand :
       /\ r \in TaskRecords
       /\ r.pc \in {"idle"} \union AwaitPoints \union LoopHeads
       /\ r.outer \in {"none", "uninstall", "start", "stop"}
       /\ r.bundle \in {0} \union BundleIds
       /\ r.prev \in States \ {"STARTING"} /\ r.name \in Names \union {NoName}
       /\ r.todo \in SUBSET (({DefaultLevel} \union Levels) \X BundleIds)
       /\ r.requested \in {0, StartLevel} /\ r.down \in BOOLEAN
       /\ r.refs \in SUBSET (1..MaxServices) /\ r.given \in BOOLEAN
       /\ r.pc \in BundlePoints \/ r.outer = "uninstall" => r.bundle \in BundleIds
BY DEF InHand, TaskRecords

(* A record that moves to point p.                                         *)
LEMMA PcMoves ==
  ASSUME NEW r \in InHand, NEW p \in AwaitPoints \union LoopHeads,
         p \in BundlePoints => r.bundle \in BundleIds
  PROVE  [r EXCEPT !.pc = p] \in InHand /\ [r EXCEPT !.pc = p].pc = p
<1> DEFINE s == [r EXCEPT !.pc = p]
<1>1. s \in TaskRecords /\ s.pc = p /\ s.outer = r.outer /\ s.bundle = r.bundle /\ s.prev = r.prev
  BY DEF InHand, TaskRecords
<1>2. 0 \notin BundleIds
  BY DEF BundleIds
<1>3. r.prev # "STARTING" /\ (r.outer = "uninstall" => r.bundle # 0)
  BY DEF InHand
<1> HIDE DEF s
<1>4. s \in InHand
  BY <1>1, <1>2, <1>3 DEF InHand
<1> QED BY <1>1, <1>4 DEF s

LEMMA AwaitMoves ==
  ASSUME ControlOK, NEW t \in Tasks, running \in {t, NoTask},
         NEW p \in AwaitPoints, Await(t, p),
         p \in BundlePoints => task[t].bundle \in BundleIds
  PROVE  ControlOK'
<1>1. task[t] \in InHand
  BY DEF ControlOK
<1>2. task' = [task EXCEPT ![t] = [task[t] EXCEPT !.pc = p]]
  BY DEF Await, ControlOK
<1>3. running' = NoTask /\ p \notin LoopHeads
  BY ControlPoints DEF Await
<1> QED BY <1>1, <1>2, <1>3, PcMoves, Moved

LEMMA FinishMoves ==
  ASSUME ControlOK, NEW t \in Tasks, running \in {t, NoTask}, Finish(t)
  PROVE  ControlOK'
BY ControlPoints, Moved DEF Finish

LEMMA ReturnMoves ==
  ASSUME ControlOK, NEW t \in Tasks, running \in {t, NoTask}, Return(t)
  PROVE  ControlOK'
<1> DEFINE q == task[t]
           back == [Idle EXCEPT !.outer = q.outer, !.todo = q.todo,
                      !.requested = q.requested, !.down = q.down,
                      !.bundle = IF q.outer = "uninstall" THEN q.bundle ELSE 0]
<1>1. q \in InHand
  BY DEF ControlOK
<1> HIDE DEF q
<1>2. /\ back.bundle = IF q.outer = "uninstall" THEN q.bundle ELSE 0
      /\ back.outer = q.outer /\ back.prev = "RESOLVED" /\ back.pc = "idle"
      /\ back = [Idle EXCEPT !.outer = q.outer, !.todo = q.todo,
                    !.requested = q.requested, !.down = q.down,
                    !.bundle = back.bundle]
  BY DEF Idle
<1> HIDE DEF back
<1>3. back \in TaskRecords
  BY <1>1, <1>2, InHandParts, ControlPoints DEF TaskRecords, InHand
<1>4. back \in InHand
  BY <1>1, <1>2, <1>3 DEF InHand, BundlePoints
<1>5. \/ Finish(t)
      \/ \E p \in LoopHeads :
           /\ task' = [task EXCEPT ![t] = [back EXCEPT !.pc = p]] /\ running' = t
           /\ p \in BundlePoints => back.bundle \in BundleIds
  <2>1. CASE q.outer = "none"
    BY <2>1 DEF Return, q
  <2>2. CASE q.outer = "uninstall"
    <3>1. back.bundle \in BundleIds
      BY <1>1, <1>2, <2>2, InHandParts
    <3>2. task' = [task EXCEPT ![t] = [back EXCEPT !.pc = "uninstall"]] /\ running' = t
      BY <2>2 DEF Return, q, back
    <3> QED BY <3>1, <3>2 DEF LoopHeads
  <2>3. CASE q.outer \notin {"none", "uninstall"}
    <3>1. task' = [task EXCEPT ![t] = [back EXCEPT !.pc = "levels"]] /\ running' = t
      BY <2>3 DEF Return, q, back
    <3> QED BY <3>1 DEF LoopHeads, BundlePoints
  <2> QED BY <2>1, <2>2, <2>3
<1>6. ASSUME NEW p \in LoopHeads, p \in BundlePoints => back.bundle \in BundleIds,
             task' = [task EXCEPT ![t] = [back EXCEPT !.pc = p]], running' = t
      PROVE  ControlOK'
  BY <1>4, <1>6, PcMoves, Moved
<1> QED BY <1>5, <1>6, FinishMoves

LEMMA BundleUpdates ==
  ASSUME BundlesOK, NEW b
  PROVE  /\ \A s \in States : [bundle EXCEPT ![b].state = s] \in [BundleIds -> BundleRecords]
         /\ \A s \in States, a \in ActivatorStates :
              [bundle EXCEPT ![b].state = s, ![b].activator = a] \in [BundleIds -> BundleRecords]
         /\ \A s \in States, c \in BOOLEAN :
              [bundle EXCEPT ![b].context = c, ![b].state = s] \in [BundleIds -> BundleRecords]
         /\ \A a \in ActivatorStates :
              [bundle EXCEPT ![b].activator = a] \in [BundleIds -> BundleRecords]
         /\ \A l \in Levels :
              [bundle EXCEPT ![b].level = l] \in [BundleIds -> BundleRecords]
         /\ WithActivator(b) \in [BundleIds -> BundleRecords]
BY DEF BundlesOK, BundleRecords, WithActivator, ActivatorStates

(* start_bundle and stop_bundle up to their first await, for the record r. *)
LEMMA BeginStartMoves ==
  ASSUME ControlOK, BundlesOK, NEW t \in Tasks, running \in {t, NoTask},
         NEW b \in BundleIds, NEW r \in InHand, BeginStart(t, b, r)
  PROVE  ControlOK' /\ BundlesOK'
<1> DEFINE s == [r EXCEPT !.pc = "startingEvent", !.bundle = b, !.prev = bundle[b].state]
<1>1. bundle[b].state \in States \ {"STARTING"}
  BY DEF BeginStart, CanStart, BundlesOK, BundleRecords
<1>2. s \in TaskRecords /\ s.pc = "startingEvent" /\ s.bundle = b /\ s.prev = bundle[b].state
  BY <1>1 DEF InHand, TaskRecords, AwaitPoints
<1>3. task' = [task EXCEPT ![t] = s] /\ running' = NoTask
  BY DEF BeginStart
<1>4. "startingEvent" \notin LoopHeads /\ 0 \notin BundleIds
  BY DEF LoopHeads, BundleIds
<1> HIDE DEF s
<1>5. s \in InHand
  BY <1>1, <1>2, <1>4 DEF InHand
<1>6. ControlOK'
  BY <1>2, <1>3, <1>4, <1>5, Moved
<1>7. BundlesOK'
  BY DEF BeginStart, Starting, BundlesOK, BundleRecords, States
<1> QED BY <1>6, <1>7

LEMMA BeginStopMoves ==
  ASSUME ControlOK, BundlesOK, NEW t \in Tasks, running \in {t, NoTask},
         NEW b \in BundleIds, NEW r \in InHand, BeginStop(t, b, r)
  PROVE  ControlOK' /\ BundlesOK'
<1> DEFINE s == [r EXCEPT !.pc = "stoppingEvent", !.bundle = b, !.prev = bundle[b].state]
<1>1. bundle[b].state \in States \ {"STARTING"}
  BY DEF BeginStop, BundlesOK, BundleRecords
<1>2. s \in TaskRecords /\ s.pc = "stoppingEvent" /\ s.bundle = b /\ s.prev = bundle[b].state
  BY <1>1 DEF InHand, TaskRecords, AwaitPoints
<1>3. task' = [task EXCEPT ![t] = s] /\ running' = NoTask
  BY DEF BeginStop
<1>4. "stoppingEvent" \notin LoopHeads /\ 0 \notin BundleIds
  BY DEF LoopHeads, BundleIds
<1> HIDE DEF s
<1>5. s \in InHand
  BY <1>1, <1>2, <1>4 DEF InHand
<1>6. ControlOK'
  BY <1>2, <1>3, <1>4, <1>5, Moved
<1>7. BundlesOK'
  BY BundleUpdates DEF BeginStop, BundlesOK, States
<1> QED BY <1>6, <1>7

LEMMA InstalledIds ==
  ASSUME CatalogueOK
  PROVE  installed \subseteq BundleIds /\ nextBundle \in Nat
<1>1. nextBundle \in Nat /\ nextBundle <= MaxBundles + 1 /\ MaxBundles \in Nat
  BY FrameworkAssumption DEF CatalogueOK
<1>2. 1..(nextBundle - 1) \subseteq 1..MaxBundles
  BY <1>1
<1> QED BY <1>1, <1>2 DEF CatalogueOK, BundleIds

LEMMA EnterLevelsMoves ==
  ASSUME ProgramOK, NEW t \in Tasks, running = NoTask,
         NEW l \in {0, StartLevel}, EnterLevels(t, l)
  PROVE  ProgramOK'
<1> DEFINE bs == IF l = active THEN {} ELSE installed
           todo == {<<StartLevelOf(b), b>> : b \in bs}
           s == [task[t] EXCEPT !.pc = "levels", !.requested = l,
                   !.down = IsDown(l), !.todo = todo]
<1> USE DEF ProgramOK
<1>1. bs \subseteq BundleIds
  BY InstalledIds
<1>2. \A b \in BundleIds : StartLevelOf(b) \in {DefaultLevel} \union Levels
  BY DEF StartLevelOf, BundlesOK, BundleRecords
<1>3. todo \in SUBSET (({DefaultLevel} \union Levels) \X BundleIds)
  BY <1>1, <1>2
<1>4. task' = [task EXCEPT ![t] = s] /\ running' = t
  BY DEF EnterLevels, ControlOK
<1> HIDE DEF todo
<1>5. s \in InHand /\ s.pc = "levels"
  <2>1. task[t] \in InHand
    BY DEF ControlOK
  <2>2. IsDown(l) \in BOOLEAN
    BY DEF IsDown
  <2>3. /\ s \in TaskRecords /\ s.pc = "levels" /\ s.outer = task[t].outer
        /\ s.bundle = task[t].bundle /\ s.prev = task[t].prev
    BY <1>3, <2>1, <2>2 DEF InHand, TaskRecords, LoopHeads
  <2> HIDE DEF s
  <2> QED BY <2>1, <2>3 DEF InHand, BundlePoints
<1>6. "levels" \in LoopHeads
  BY DEF LoopHeads
<1> HIDE DEF s
<1>7. ControlOK'
  BY <1>4, <1>5, <1>6, Moved
<1>8. BundlesOK'
  BY <1>2 DEF EnterLevels, BundlesOK, BundleRecords
<1>9. LevelsOK' /\ CatalogueOK'
  BY DEF EnterLevels, LevelsOK, CatalogueOK, catalogue
<1> QED BY <1>7, <1>8, <1>9

LEMMA Unmoved ==
  ASSUME ProgramOK
  PROVE  /\ UNCHANGED frameworkVars => LevelsOK'
         /\ UNCHANGED catalogue => CatalogueOK'
         /\ UNCHANGED bundle => BundlesOK'
         /\ UNCHANGED <<task, running>> => ControlOK'
BY DEF ProgramOK, LevelsOK, CatalogueOK, BundlesOK, ControlOK, frameworkVars, catalogue

(* The task's record, and the bundle it has in hand.                       *)
LEMMA AtPoint ==
  ASSUME ProgramOK, NEW t \in Tasks
  PROVE  /\ task[t] \in InHand
         /\ task[t].pc \in BundlePoints => task[t].bundle \in BundleIds
         /\ \A p : Awaited(t, p) \/ At(t, p) => running \in {t, NoTask} /\ task[t].pc = p
         /\ Free(t) => running \in {t, NoTask} /\ task[t] = Idle
<1>1. task[t] \in InHand
  BY DEF ProgramOK, ControlOK
<1> QED BY <1>1, InHandParts DEF Awaited, At, Free

-----------------------------------------------------------------------------
(* Each action keeps the invariant of the program, by component.           *)

(* A start in progress.                                                    *)
LEMMA StartSteps ==
  ASSUME ProgramOK, NEW t \in Tasks, 
         \/ CallActivatorStart(t) \/ ActivatorRegisters(t) \/ ActivatorStarted(t)
         \/ ActivatorStartFails(t) \/ StartedDelivered(t)
  PROVE  ProgramOK'
<1> USE DEF ProgramOK
<1>1. CASE CallActivatorStart(t)
  <2>1. ControlOK'
    BY <1>1, AtPoint, AwaitMoves DEF CallActivatorStart, AwaitPoints, BundlePoints
  <2>2. BundlesOK'
    BY <1>1, BundleUpdates DEF CallActivatorStart, BundlesOK, States, ActivatorStates
  <2> QED BY <1>1, <2>1, <2>2, Unmoved DEF CallActivatorStart
<1>2. CASE ActivatorRegisters(t)
  BY <1>2, Unmoved DEF ActivatorRegisters
<1>3. CASE ActivatorStarted(t)
  <2>1. ControlOK'
    BY <1>3, AtPoint, AwaitMoves DEF ActivatorStarted, AwaitPoints, BundlePoints
  <2>2. BundlesOK'
    BY <1>3, BundleUpdates DEF ActivatorStarted, BundlesOK, States, ActivatorStates
  <2> QED BY <1>3, <2>1, <2>2, Unmoved DEF ActivatorStarted
<1>4. CASE ActivatorStartFails(t)
  <2>1. ControlOK'
    BY <1>4, AtPoint, FinishMoves DEF ActivatorStartFails
  <2>2. RestoredState(task[t]) \in States
    BY AtPoint, InHandParts DEF RestoredState
  <2>3. BundlesOK'
    BY <1>4, <2>2, BundleUpdates DEF ActivatorStartFails, BundlesOK
  <2> QED BY <1>4, <2>1, <2>3, Unmoved DEF ActivatorStartFails
<1>5. CASE StartedDelivered(t)
  <2>1. ControlOK'
    BY <1>5, AtPoint, ReturnMoves DEF StartedDelivered
  <2> QED BY <1>5, <2>1, Unmoved DEF StartedDelivered
<1> QED BY <1>1, <1>2, <1>3, <1>4, <1>5

(* A stop in progress.                                                     *)
LEMMA StopSteps ==
  ASSUME ProgramOK, NEW t \in Tasks, Registry!TypeOK,
         \/ CallActivatorStop(t) \/ \E i \in 1..MaxServices : ActivatorUnregisters(t, i)
         \/ ActivatorStopFails(t) \/ ActivatorStopped(t)
         \/ Sweep(t) \/ SweepRaises(t) \/ UnregisteringDelivered(t)
         \/ SweepEnd(t) \/ StoppedDelivered(t)
  PROVE  ProgramOK'
<1> USE DEF ProgramOK
<1>1. CASE CallActivatorStop(t)
  <2> DEFINE r == [task[t] EXCEPT !.pc = "deactivating", !.given = bundle[task[t].bundle].context]
  <2>1. task[t] \in InHand /\ task[t].bundle \in BundleIds
    BY <1>1, AtPoint DEF CallActivatorStop, BundlePoints
  <2>2. bundle[task[t].bundle].context \in BOOLEAN
    BY <2>1 DEF BundlesOK, BundleRecords
  <2>3. task' = [task EXCEPT ![t] = r] /\ running' = NoTask /\ running \in {t, NoTask}
    BY <1>1, AtPoint DEF CallActivatorStop, ControlOK
  <2>4. /\ r \in TaskRecords /\ r.pc = "deactivating" /\ r.outer = task[t].outer
        /\ r.bundle = task[t].bundle /\ r.prev = task[t].prev
    BY <2>1, <2>2 DEF InHand, TaskRecords, AwaitPoints, LoopHeads
  <2> HIDE DEF r
  <2>5. r \in InHand
    BY <2>1, <2>4 DEF InHand, BundleIds
  <2>6. ControlOK'
    BY <2>3, <2>4, <2>5, Moved DEF LoopHeads
  <2>7. BundlesOK'
    BY <1>1, BundleUpdates DEF CallActivatorStop, BundlesOK, ActivatorStates
  <2> QED BY <1>1, <2>6, <2>7, Unmoved DEF CallActivatorStop
<1>2. ASSUME NEW i \in 1..MaxServices, ActivatorUnregisters(t, i) PROVE ProgramOK'
  BY <1>2, Unmoved DEF ActivatorUnregisters
<1>3. CASE ActivatorStopFails(t)
  <2>1. ControlOK'
    BY <1>3, AtPoint, FinishMoves DEF ActivatorStopFails
  <2>2. RestoredState(task[t]) \in States
    BY AtPoint, InHandParts DEF RestoredState
  <2>3. BundlesOK'
    BY <1>3, <2>2, BundleUpdates DEF ActivatorStopFails, BundlesOK
  <2> QED BY <1>3, <2>1, <2>3, Unmoved DEF ActivatorStopFails
<1>4. CASE ActivatorStopped(t)
  <2> DEFINE r == [task[t] EXCEPT !.pc = "sweep", !.refs = BundleReferences(task[t].bundle)]
  <2>1. task[t] \in InHand /\ task[t].bundle \in BundleIds
    BY <1>4, AtPoint DEF ActivatorStopped, BundlePoints
  <2>2. BundleReferences(task[t].bundle) \in SUBSET (1..MaxServices)
    BY <2>1 DEF BundleReferences, Registry!TypeOK, Registry!Ids
  <2>3. task' = [task EXCEPT ![t] = r] /\ running' = t /\ running \in {t, NoTask}
    BY <1>4, AtPoint DEF ActivatorStopped, ControlOK
  <2>4. /\ r \in TaskRecords /\ r.pc = "sweep" /\ r.outer = task[t].outer
        /\ r.bundle = task[t].bundle /\ r.prev = task[t].prev
    BY <2>1, <2>2 DEF InHand, TaskRecords, AwaitPoints, LoopHeads
  <2> HIDE DEF r
  <2>5. r \in InHand
    BY <2>1, <2>4 DEF InHand, BundleIds
  <2>6. ControlOK'
    BY <2>3, <2>4, <2>5, Moved DEF LoopHeads
  <2>7. BundlesOK'
    BY <1>4, BundleUpdates DEF ActivatorStopped, BundlesOK, ActivatorStates
  <2> QED BY <1>4, <2>6, <2>7, Unmoved DEF ActivatorStopped
<1>5. CASE Sweep(t)
  <2> DEFINE r == [task[t] EXCEPT !.pc = "unregisteringEvent", !.refs = task[t].refs \ {First(task[t].refs)}]
  <2>1. task[t] \in InHand /\ task[t].bundle \in BundleIds
    BY <1>5, AtPoint DEF Sweep, BundlePoints
  <2>2. task[t].refs \ {First(task[t].refs)} \in SUBSET (1..MaxServices)
    BY <2>1, InHandParts
  <2>3. task' = [task EXCEPT ![t] = r] /\ running' = NoTask /\ running \in {t, NoTask}
    BY <1>5, AtPoint DEF Sweep, ControlOK
  <2>4. /\ r \in TaskRecords /\ r.pc = "unregisteringEvent" /\ r.outer = task[t].outer
        /\ r.bundle = task[t].bundle /\ r.prev = task[t].prev
    BY <2>1, <2>2 DEF InHand, TaskRecords, AwaitPoints, LoopHeads
  <2> HIDE DEF r
  <2>5. r \in InHand
    BY <2>1, <2>4 DEF InHand, BundleIds
  <2>6. ControlOK'
    BY <2>3, <2>4, <2>5, Moved DEF LoopHeads
  <2>7. BundlesOK'
    BY <1>5 DEF Sweep, BundlesOK, ActivatorStates
  <2> QED BY <1>5, <2>6, <2>7, Unmoved DEF Sweep
<1>6. CASE SweepRaises(t)
  <2>1. ControlOK'
    BY <1>6, AtPoint, FinishMoves DEF SweepRaises
  <2> QED BY <1>6, <2>1, Unmoved DEF SweepRaises
<1>7. CASE UnregisteringDelivered(t)
  <2> DEFINE r == [task[t] EXCEPT !.pc = "sweep"]
  <2>1. task[t] \in InHand /\ task[t].bundle \in BundleIds
    BY <1>7, AtPoint DEF UnregisteringDelivered, BundlePoints
  <2>2. "sweep" \in LoopHeads
    BY DEF LoopHeads
  <2>3. task' = [task EXCEPT ![t] = r] /\ running' = t /\ running \in {t, NoTask}
    BY <1>7, AtPoint DEF UnregisteringDelivered, ControlOK, GoTo
  <2>4. /\ r \in TaskRecords /\ r.pc = "sweep" /\ r.outer = task[t].outer
        /\ r.bundle = task[t].bundle /\ r.prev = task[t].prev
    BY <2>1, <2>2 DEF InHand, TaskRecords, AwaitPoints, LoopHeads
  <2> HIDE DEF r
  <2>5. r \in InHand
    BY <2>1, <2>4 DEF InHand, BundleIds
  <2>6. ControlOK'
    BY <2>3, <2>4, <2>5, Moved DEF LoopHeads
  <2>7. BundlesOK'
    BY <1>7 DEF UnregisteringDelivered, BundlesOK, ActivatorStates
  <2> QED BY <1>7, <2>6, <2>7, Unmoved DEF UnregisteringDelivered
<1>8. CASE SweepEnd(t)
  <2>1. ControlOK'
    BY <1>8, AtPoint, AwaitMoves DEF SweepEnd, AwaitPoints, BundlePoints
  <2>2. BundlesOK'
    BY <1>8, BundleUpdates DEF SweepEnd, BundlesOK, States, ActivatorStates
  <2> QED BY <1>8, <2>1, <2>2, Unmoved DEF SweepEnd
<1>9. CASE StoppedDelivered(t)
  <2>1. ControlOK'
    BY <1>9, AtPoint, ReturnMoves DEF StoppedDelivered
  <2> QED BY <1>9, <2>1, Unmoved DEF StoppedDelivered
<1> QED BY <1>1, <1>2, <1>3, <1>4, <1>5, <1>6, <1>7, <1>8, <1>9

(* The task of a level loop passes on to the next bundle.                  *)
LEMMA TurnMoves ==
  ASSUME ProgramOK, NEW t \in Tasks, NEW x \in task[t].todo
  PROVE  /\ TurnTaken(task[t], x) \in InHand /\ x[2] \in BundleIds
         /\ TurnTaken(task[t], x).pc = task[t].pc
<1> DEFINE q == task[t]
<1>1. q \in InHand
  BY AtPoint
<1> HIDE DEF q
<1>2. q.todo \ {x} \in SUBSET (({DefaultLevel} \union Levels) \X BundleIds)
  BY <1>1, InHandParts
<1>3. TurnTaken(q, x) = [q EXCEPT !.todo = q.todo \ {x}]
  BY DEF TurnTaken
<1>4. /\ TurnTaken(q, x) \in TaskRecords
      /\ TurnTaken(q, x).pc = q.pc /\ TurnTaken(q, x).outer = q.outer
      /\ TurnTaken(q, x).bundle = q.bundle /\ TurnTaken(q, x).prev = q.prev
  BY <1>1, <1>2, <1>3 DEF InHand, TaskRecords
<1>5. TurnTaken(q, x) \in InHand
  BY <1>1, <1>4 DEF InHand
<1>6. x[2] \in BundleIds
  BY <1>1, InHandParts DEF q
<1> QED BY <1>4, <1>5, <1>6 DEF q

(* The start levels.                                                       *)
LEMMA LevelSteps ==
  ASSUME ProgramOK, NEW t \in Tasks, 
         \/ LevelStarts(t) \/ LevelStops(t) \/ LevelSkips(t) \/ LevelsEnd(t)
         \/ FwStartingDelivered(t) \/ FwStoppingDelivered(t) \/ FwLastDelivered(t)
         \/ CallFrameworkStart(t) \/ CallFrameworkStop(t)
  PROVE  ProgramOK'
<1> USE DEF ProgramOK
<1>1. CASE LevelStarts(t)
  <2>1. ControlOK' /\ BundlesOK'
    BY <1>1, TurnMoves, AtPoint, BeginStartMoves DEF LevelStarts
  <2> QED BY <1>1, <2>1, Unmoved DEF LevelStarts
<1>2. CASE LevelStops(t)
  <2>1. ControlOK' /\ BundlesOK'
    BY <1>2, TurnMoves, AtPoint, BeginStopMoves DEF LevelStops
  <2> QED BY <1>2, <2>1, Unmoved DEF LevelStops
<1>3. CASE LevelSkips(t)
  <2>1. PICK x \in task[t].todo : task' = [task EXCEPT ![t] = TurnTaken(task[t], x)]
    BY <1>3 DEF LevelSkips, ControlOK
  <2>2. task[t].pc \in LoopHeads /\ running = t /\ running' = t
    BY <1>3 DEF LevelSkips, At, LoopHeads
  <2>3. ControlOK'
    BY TurnMoves, <2>1, <2>2, Moved
  <2> QED BY <1>3, <2>3, Unmoved DEF LevelSkips
<1>4. CASE LevelsEnd(t)
  <2>1. ControlOK'
    BY <1>4, AtPoint, AwaitMoves DEF LevelsEnd, AwaitPoints, BundlePoints
  <2>2. LevelsOK'
    BY <1>4 DEF LevelsEnd, LevelsOK, States
  <2> QED BY <1>4, <2>1, <2>2, Unmoved DEF LevelsEnd
<1>5. CASE FwStartingDelivered(t)
  BY <1>5, EnterLevelsMoves DEF FwStartingDelivered, Awaited
<1>6. CASE FwStoppingDelivered(t)
  BY <1>6, EnterLevelsMoves DEF FwStoppingDelivered, Awaited
<1>7. CASE FwLastDelivered(t)
  <2>1. ControlOK'
    BY <1>7, AtPoint, FinishMoves DEF FwLastDelivered
  <2> QED BY <1>7, <2>1, Unmoved DEF FwLastDelivered
<1>8. CASE CallFrameworkStart(t)
  <2> DEFINE r == [Idle EXCEPT !.pc = "fwStartingEvent", !.outer = "start"]
  <2>1. task' = [task EXCEPT ![t] = r] /\ running = NoTask /\ running' = NoTask
    BY <1>8 DEF CallFrameworkStart, Free, ControlOK
  <2>2. r \in TaskRecords /\ r.pc = "fwStartingEvent" /\ r.outer = "start" /\ r.prev = Idle.prev
    BY ControlPoints DEF InHand, TaskRecords, AwaitPoints, Idle
  <2> HIDE DEF r
  <2>3. r \in InHand
    BY <2>2, ControlPoints DEF InHand, BundlePoints
  <2>4. ControlOK'
    BY <2>1, <2>2, <2>3, Moved DEF LoopHeads
  <2>5. LevelsOK'
    BY <1>8 DEF CallFrameworkStart, LevelsOK, States
  <2> QED BY <1>8, <2>4, <2>5, Unmoved DEF CallFrameworkStart
<1>9. CASE CallFrameworkStop(t)
  <2> DEFINE r == [Idle EXCEPT !.pc = "fwStoppingEvent", !.outer = "stop"]
  <2>1. task' = [task EXCEPT ![t] = r] /\ running = NoTask /\ running' = NoTask
    BY <1>9 DEF CallFrameworkStop, Free, ControlOK
  <2>2. r \in TaskRecords /\ r.pc = "fwStoppingEvent" /\ r.outer = "stop" /\ r.prev = Idle.prev
    BY ControlPoints DEF InHand, TaskRecords, AwaitPoints, Idle
  <2> HIDE DEF r
  <2>3. r \in InHand
    BY <2>2, ControlPoints DEF InHand, BundlePoints
  <2>4. ControlOK'
    BY <2>1, <2>2, <2>3, Moved DEF LoopHeads
  <2>5. LevelsOK'
    BY <1>9 DEF CallFrameworkStop, LevelsOK, States
  <2> QED BY <1>9, <2>4, <2>5, Unmoved DEF CallFrameworkStop
<1> QED BY <1>1, <1>2, <1>3, <1>4, <1>5, <1>6, <1>7, <1>8, <1>9

(* The record uninstall_bundle goes on with.                               *)
LEMMA UninstallBegins ==
  ASSUME NEW b \in BundleIds
  PROVE  /\ [Idle EXCEPT !.outer = "uninstall", !.bundle = b] \in InHand
         /\ [Idle EXCEPT !.outer = "uninstall", !.bundle = b].bundle = b
<1> DEFINE r == [Idle EXCEPT !.outer = "uninstall", !.bundle = b]
<1>1. /\ r \in TaskRecords /\ r.pc = "idle" /\ r.outer = "uninstall" /\ r.bundle = b
      /\ r.prev = Idle.prev
  BY ControlPoints DEF InHand, TaskRecords, Idle
<1> HIDE DEF r
<1>2. r \in InHand
  BY <1>1, ControlPoints DEF InHand, BundlePoints, BundleIds
<1> QED BY <1>1, <1>2 DEF r

(* The catalogue of bundles.                                               *)
LEMMA CatalogueSteps ==
  ASSUME ProgramOK, NEW t \in Tasks, 
         \/ \E name \in Names : CallInstall(t, name)
         \/ Loaded(t) \/ LoadFails(t) \/ InstalledDelivered(t)
         \/ \E b \in BundleIds : CallStart(t, b) \/ CallStop(t, b) \/ CallUninstall(t, b)
         \/ Uninstalled(t) \/ UninstalledDelivered(t) \/ Unloaded(t)
  PROVE  ProgramOK'
<1> USE DEF ProgramOK
<1>1. ASSUME NEW name \in Names, CallInstall(t, name) PROVE ProgramOK'
  <2> DEFINE r == [Idle EXCEPT !.pc = "loading", !.name = name]
  <2>1. task' = [task EXCEPT ![t] = r] /\ running = NoTask /\ running' = NoTask
    BY <1>1 DEF CallInstall, Free, ControlOK
  <2>2. r \in TaskRecords /\ r.pc = "loading" /\ r.outer = "none" /\ r.prev = Idle.prev
    BY ControlPoints DEF InHand, TaskRecords, AwaitPoints, Idle
  <2> HIDE DEF r
  <2>3. r \in InHand
    BY <2>2, ControlPoints DEF InHand, BundlePoints
  <2>4. ControlOK'
    BY <2>1, <2>2, <2>3, Moved DEF LoopHeads
  <2> QED BY <1>1, <2>4, Unmoved DEF CallInstall
<1>2. CASE Loaded(t)
  <2>1. ControlOK'
    BY <1>2, AtPoint, AwaitMoves DEF Loaded, AwaitPoints, BundlePoints
  <2>2. task[t].name \in Names \union {NoName}
    BY AtPoint, InHandParts
  <2>3. [Unissued EXCEPT !.name = task[t].name] \in BundleRecords
    BY <2>2 DEF Unissued, BundleRecords, States, ActivatorStates
  <2>4. BundlesOK'
    BY <1>2, <2>3 DEF Loaded, BundlesOK
  <2>5. CatalogueOK'
    BY <1>2, InstalledIds, FrameworkAssumption DEF Loaded, NewBundleId, CatalogueOK, BundleIds
  <2> QED BY <1>2, <2>1, <2>4, <2>5, Unmoved DEF Loaded
<1>3. CASE LoadFails(t)
  <2>1. ControlOK'
    BY <1>3, AtPoint, FinishMoves DEF LoadFails
  <2> QED BY <1>3, <2>1, Unmoved DEF LoadFails
<1>4. CASE InstalledDelivered(t)
  <2>1. ControlOK'
    BY <1>4, AtPoint, FinishMoves DEF InstalledDelivered
  <2> QED BY <1>4, <2>1, Unmoved DEF InstalledDelivered
<1>5. ASSUME NEW b \in BundleIds, CallStart(t, b) PROVE ProgramOK'
  <2>1. ControlOK' /\ BundlesOK'
    BY <1>5, AtPoint, ControlPoints, BeginStartMoves DEF CallStart
  <2> QED BY <1>5, <2>1, Unmoved DEF CallStart
<1>6. ASSUME NEW b \in BundleIds, CallStop(t, b) PROVE ProgramOK'
  <2>1. ControlOK' /\ BundlesOK'
    BY <1>6, AtPoint, ControlPoints, BeginStopMoves DEF CallStop
  <2> QED BY <1>6, <2>1, Unmoved DEF CallStop
<1>7. ASSUME NEW b \in BundleIds, CallUninstall(t, b) PROVE ProgramOK'
  <2> DEFINE r == [Idle EXCEPT !.outer = "uninstall", !.bundle = b]
  <2>1. r \in InHand /\ r.bundle = b
    BY UninstallBegins
  <2> HIDE DEF r
  <2>3. ASSUME BeginStop(t, b, r) PROVE ControlOK' /\ BundlesOK'
    BY <1>7, <2>1, <2>3, AtPoint, BeginStopMoves DEF CallUninstall
  <2>4. ASSUME task' = [task EXCEPT ![t] = [r EXCEPT !.pc = "uninstall"]], running' = t
        PROVE  ControlOK'
    BY <1>7, <2>1, <2>4, AtPoint, PcMoves, Moved DEF CallUninstall, LoopHeads
  <2>5. ControlOK' /\ BundlesOK'
    BY <1>7, <2>3, <2>4, Unmoved DEF CallUninstall, r
  <2> QED BY <1>7, <2>5, Unmoved DEF CallUninstall
<1>8. CASE Uninstalled(t)
  <2>1. ControlOK'
    BY <1>8, AtPoint, AwaitMoves DEF Uninstalled, AwaitPoints, BundlePoints
  <2>2. BundlesOK'
    BY <1>8, BundleUpdates DEF Uninstalled, BundlesOK, States, ActivatorStates
  <2> QED BY <1>8, <2>1, <2>2, Unmoved DEF Uninstalled
<1>9. CASE UninstalledDelivered(t)
  <2>1. ControlOK'
    BY <1>9, AtPoint, AwaitMoves, FinishMoves DEF UninstalledDelivered, AwaitPoints, BundlePoints
  <2>2. BundlesOK'
    <3>1. \/ bundle' = [bundle EXCEPT ![task[t].bundle].activator = "none"]
          \/ bundle' = bundle
      BY <1>9 DEF UninstalledDelivered
    <3>2. "none" \in ActivatorStates
      BY DEF ActivatorStates
    <3>3. CASE bundle' = [bundle EXCEPT ![task[t].bundle].activator = "none"]
      BY <3>2, <3>3, BundleUpdates DEF BundlesOK
    <3>4. CASE bundle' = bundle
      BY <3>4 DEF BundlesOK
    <3> QED BY <3>1, <3>3, <3>4
  <2>3. CatalogueOK'
    BY <1>9 DEF UninstalledDelivered, CatalogueOK
  <2> QED BY <1>9, <2>1, <2>2, <2>3, Unmoved DEF UninstalledDelivered
<1>10. CASE Unloaded(t)
  <2>1. ControlOK'
    BY <1>10, AtPoint, FinishMoves DEF Unloaded
  <2> QED BY <1>10, <2>1, Unmoved DEF Unloaded
<1> QED BY <1>1, <1>2, <1>3, <1>4, <1>5, <1>6, <1>7, <1>8, <1>9, <1>10

(* What moves without a call.                                              *)
LEMMA SurroundingsSteps ==
  ASSUME ProgramOK, Surroundings
  PROVE  ProgramOK'
<1> USE DEF ProgramOK
<1>1. ASSUME NEW b \in BundleIds, NEW l \in Levels, SetLevel(b, l) PROVE ProgramOK'
  BY <1>1, BundleUpdates, Unmoved DEF SetLevel, BundlesOK
<1>2. ASSUME NEW b \in BundleIds, BundleRegisters(b) PROVE ProgramOK'
  BY <1>2, Unmoved DEF BundleRegisters
<1>3. ASSUME NEW b \in BundleIds, NEW i \in 1..MaxServices, BundleUnregisters(b, i)
      PROVE  ProgramOK'
  BY <1>3, Unmoved DEF BundleUnregisters
<1> QED BY <1>1, <1>2, <1>3 DEF Surroundings

-----------------------------------------------------------------------------
LEMMA ProgramInit == Init => ProgramOK
<1> SUFFICES ASSUME Init PROVE ProgramOK
  OBVIOUS
<1>1. LevelsOK /\ CatalogueOK
  BY FrameworkAssumption DEF Init, LevelsOK, CatalogueOK, States
<1>2. Unissued \in BundleRecords
  BY DEF Unissued, BundleRecords, States, ActivatorStates
<1>3. BundlesOK
  BY <1>2 DEF Init, BundlesOK
<1>4. ControlOK
  BY ControlPoints DEF Init, ControlOK
<1> QED BY <1>1, <1>3, <1>4 DEF ProgramOK

LEMMA ProgramStep ==
  ASSUME ProgramOK, Registry!TypeOK, [Next]_vars
  PROVE  ProgramOK'
<1>1. ASSUME NEW t \in Tasks, Calls(t) PROVE ProgramOK'
  BY <1>1, LevelSteps, CatalogueSteps DEF Calls
<1>2. ASSUME NEW t \in Tasks, Steps(t) PROVE ProgramOK'
  BY <1>2, StartSteps, StopSteps, LevelSteps, CatalogueSteps DEF Steps
<1>3. CASE UNCHANGED vars
  BY <1>3, Unmoved DEF vars, ProgramOK
<1> QED BY <1>1, <1>2, <1>3, SurroundingsSteps DEF Next

(* All the other steps leave the registry alone.                           *)
LEMMA RestUnmoved ==
  ASSUME [Next]_vars
  PROVE  \/ \E t \in Tasks : \/ ActivatorRegisters(t) \/ Sweep(t)
                            \/ \E i \in 1..MaxServices : ActivatorUnregisters(t, i)
         \/ \E b \in BundleIds : \/ BundleRegisters(b)
                                \/ \E i \in 1..MaxServices : BundleUnregisters(b, i)
         \/ UNCHANGED registryVars
<1>1. ASSUME NEW t \in Tasks, Calls(t) PROVE UNCHANGED registryVars
  BY <1>1 DEF Calls, CallFrameworkStart, CallFrameworkStop, CallStart,
     CallStop, CallUninstall, CallInstall
<1>2. ASSUME NEW t \in Tasks,
             \/ CallActivatorStart(t) \/ ActivatorStarted(t) \/ ActivatorStartFails(t)
             \/ StartedDelivered(t) \/ CallActivatorStop(t) \/ ActivatorStopFails(t)
             \/ ActivatorStopped(t) \/ SweepRaises(t) \/ UnregisteringDelivered(t)
             \/ SweepEnd(t) \/ StoppedDelivered(t)
      PROVE  UNCHANGED registryVars
  BY <1>2 DEF CallActivatorStart, ActivatorStarted, ActivatorStartFails,
     StartedDelivered, CallActivatorStop, ActivatorStopFails, ActivatorStopped,
     SweepRaises, UnregisteringDelivered, SweepEnd, StoppedDelivered
<1>3. ASSUME NEW t \in Tasks,
             \/ LevelStarts(t) \/ LevelStops(t) \/ LevelSkips(t) \/ LevelsEnd(t)
             \/ FwStartingDelivered(t) \/ FwStoppingDelivered(t) \/ FwLastDelivered(t)
             \/ Loaded(t) \/ LoadFails(t) \/ InstalledDelivered(t)
             \/ Uninstalled(t) \/ UninstalledDelivered(t) \/ Unloaded(t)
      PROVE  UNCHANGED registryVars
  BY <1>3 DEF LevelStarts, LevelStops, LevelSkips, LevelsEnd,
     FwStartingDelivered, FwStoppingDelivered, EnterLevels, FwLastDelivered, Loaded,
     LoadFails, InstalledDelivered, Uninstalled, UninstalledDelivered, Unloaded
<1>4. ASSUME NEW t \in Tasks, Steps(t)
      PROVE  \/ ActivatorRegisters(t) \/ Sweep(t) \/ UNCHANGED registryVars
             \/ \E i \in 1..MaxServices : ActivatorUnregisters(t, i)
  BY <1>2, <1>3, <1>4 DEF Steps
<1>5. CASE Surroundings
  BY <1>5 DEF Surroundings, SetLevel
<1>6. CASE UNCHANGED vars
  BY <1>6 DEF vars
<1> QED BY <1>1, <1>4, <1>5, <1>6 DEF Next

(* Whatever the framework does, the registry does one of its operations or *)
(* nothing.                                                                *)
LEMMA RegistrySteps ==
  ASSUME ProgramOK, Registry!TypeOK, [Next]_vars
  PROVE  RegistryMove
<1>1. ASSUME NEW t \in Tasks, ActivatorRegisters(t) PROVE RegistryMove
  BY <1>1, AtPoint DEF ActivatorRegisters, RegistryMove, BundlePoints
<1>2. ASSUME NEW t \in Tasks, NEW i \in 1..MaxServices, ActivatorUnregisters(t, i)
      PROVE  RegistryMove
  BY <1>2 DEF ActivatorUnregisters, RegistryMove
<1>3. ASSUME NEW t \in Tasks, Sweep(t) PROVE RegistryMove
  <2>1. First(task[t].refs) \in services
    BY <1>3 DEF Sweep, Registry!Unregister
  <2>2. First(task[t].refs) \in 1..MaxServices
    BY <2>1 DEF Registry!TypeOK, Registry!Ids
  <2> QED BY <1>3, <2>2 DEF Sweep, RegistryMove
<1>4. ASSUME NEW b \in BundleIds,
             BundleRegisters(b) \/ \E i \in 1..MaxServices : BundleUnregisters(b, i)
      PROVE  RegistryMove
  BY <1>4 DEF BundleRegisters, BundleUnregisters, RegistryMove
<1> QED BY <1>1, <1>2, <1>3, <1>4, RestUnmoved DEF RegistryMove

LEMMA RegistryRefines == RegistryMove => [Reg!Next]_(Reg!vars)
<1>1. ASSUME NEW b \in BundleIds, Registry!Register(b, <<Class>>, Unset)
      PROVE  Reg!Next
  BY <1>1, SameRegister DEF Reg!Next
<1>2. ASSUME NEW i \in 1..MaxServices, Registry!Unregister(i)
      PROVE  Reg!Next
  BY <1>2, SameUnregister DEF Reg!Next, Reg!Ids
<1> QED BY <1>1, <1>2 DEF RegistryMove, registryVars, Reg!vars
LEMMA RegistryTypes == Reg!IInv => Registry!TypeOK
BY SameInvariants DEF Reg!IInv

LEMMA RegistryKept ==
  ASSUME ProgramOK, Reg!IInv, [Next]_vars
  PROVE  Reg!IInv' /\ [Reg!IdsStep]_(Reg!vars)
<1>1. [Reg!Next]_(Reg!vars)
  BY RegistryTypes, RegistrySteps, RegistryRefines
<1> QED BY <1>1, RegistryConstants, Reg!StepKeepsIInv, Reg!StepKeepsIds

LEMMA RegistryStarts == Init => Reg!IInv
BY RegistryConstants, SameInit, Reg!InitEstablishesIInv DEF Init

-----------------------------------------------------------------------------
(* The framework and its registry keep their invariants together: what is  *)
(* proved of the registry alone holds under every interleaving of calls.   *)
THEOREM Invariance == Spec => [](ProgramOK /\ Reg!IInv)
<1>1. Init => ProgramOK /\ Reg!IInv
  BY ProgramInit, RegistryStarts
<1>2. ProgramOK /\ Reg!IInv /\ [Next]_vars => (ProgramOK /\ Reg!IInv)'
  BY RegistryTypes, ProgramStep, RegistryKept
<1> QED BY <1>1, <1>2, PTL DEF Spec

(* Every variable keeps its type: in particular a task keeps the processor *)
(* exactly while it is at the head of a loop.                              *)
THEOREM TypeCorrect == Spec => []TypeOK
<1>1. ProgramOK /\ Reg!IInv => TypeOK
  BY RegistryTypes, TypeOKParts
<1> QED BY <1>1, Invariance, PTL

(* The owners' lists of the framework's registry miss no registered        *)
(* service, so the sweep of a stopped bundle starts from all of them.      *)
THEOREM OwnersCovered == Spec => []Registry!OwnerListsCover
<1>1. Reg!IInv => Registry!OwnerListsCover
  BY SameInvariants DEF Reg!IInv
<1> QED BY <1>1, Invariance, PTL
-----------------------------------------------------------------------------
StarterOf(t, b) == task[t].bundle = b /\ task[t].pc \in {"startingEvent", "activating"}

LEMMA OthersWait ==
  ASSUME NEW t \in Tasks, Calls(t) \/ Steps(t), NEW u \in Tasks \ {t}, ProgramOK
  PROVE  task'[u] = task[u]
<1> USE DEF ProgramOK, ControlOK
<1>1. ASSUME Calls(t) PROVE task'[u] = task[u]
  BY <1>1 DEF Calls, CallFrameworkStart, CallFrameworkStop, CallStart, CallStop,
     CallUninstall, CallInstall, BeginStart, BeginStop
<1>2. ASSUME \/ CallActivatorStart(t) \/ ActivatorRegisters(t) \/ ActivatorStarted(t)
             \/ ActivatorStartFails(t) \/ CallActivatorStop(t)
             \/ \E i \in 1..MaxServices : ActivatorUnregisters(t, i)
             \/ ActivatorStopFails(t) \/ ActivatorStopped(t) \/ Sweep(t)
             \/ SweepRaises(t) \/ UnregisteringDelivered(t) \/ SweepEnd(t)
      PROVE  task'[u] = task[u]
  BY <1>2 DEF CallActivatorStart, ActivatorRegisters, ActivatorStarted,
     ActivatorStartFails, CallActivatorStop, ActivatorUnregisters, ActivatorStopFails,
     ActivatorStopped, Sweep, SweepRaises, UnregisteringDelivered, SweepEnd,
     Await, GoTo, Finish
<1>3. ASSUME StartedDelivered(t) \/ StoppedDelivered(t) PROVE task'[u] = task[u]
  BY <1>3 DEF StartedDelivered, StoppedDelivered, Return, Finish
<1>4. ASSUME \/ LevelStarts(t) \/ LevelStops(t) \/ LevelSkips(t) \/ LevelsEnd(t)
             \/ FwStartingDelivered(t) \/ FwStoppingDelivered(t) \/ FwLastDelivered(t)
             \/ Loaded(t) \/ LoadFails(t) \/ InstalledDelivered(t)
             \/ Uninstalled(t) \/ UninstalledDelivered(t) \/ Unloaded(t)
      PROVE  task'[u] = task[u]
  BY <1>4 DEF LevelStarts, LevelStops, LevelSkips, LevelsEnd, FwStartingDelivered,
     FwStoppingDelivered, EnterLevels, FwLastDelivered, Loaded, LoadFails,
     InstalledDelivered, Uninstalled, UninstalledDelivered, Unloaded,
     BeginStart, BeginStop, Await, Finish
<1> QED BY <1>1, <1>2, <1>3, <1>4 DEF Steps

(* A step of task t keeps StartingHasStarter if each bundle it leaves      *)
(* STARTING has t as its starter, or had another.                          *)
LEMMA StarterFrame ==
  ASSUME ProgramOK, StartingHasStarter, NEW t \in Tasks,
         \A u \in Tasks \ {t} : task'[u] = task[u],
         \A b \in BundleIds : bundle'[b].state = "STARTING" =>
           \/ StarterOf(t, b)'
           \/ bundle[b].state = "STARTING" /\ ~StarterOf(t, b)
  PROVE  StartingHasStarter'
<1> SUFFICES ASSUME NEW b \in BundleIds, bundle'[b].state = "STARTING"
             PROVE  \E u \in Tasks : /\ task'[u].bundle = b
                                      /\ task'[u].pc \in {"startingEvent", "activating"}
  BY DEF StartingHasStarter
<1>1. CASE StarterOf(t, b)'
  BY <1>1 DEF StarterOf
<1>2. CASE bundle[b].state = "STARTING" /\ ~StarterOf(t, b)
  BY <1>2 DEF StartingHasStarter, StarterOf
<1> QED BY <1>1, <1>2

(* What starts a bundle, and what comes of its activator's start.          *)
LEMMA StarterBegins ==
  ASSUME ProgramOK, NEW t \in Tasks, NEW c \in BundleIds, NEW r, BeginStart(t, c, r),
         r \in InHand, task[t].pc \notin {"startingEvent", "activating"}, NEW b \in BundleIds,
         bundle'[b].state = "STARTING"
  PROVE  \/ StarterOf(t, b)'
         \/ bundle[b].state = "STARTING" /\ ~StarterOf(t, b)
<1>1. CASE b = c
  <2> DEFINE q == [r EXCEPT !.pc = "startingEvent", !.bundle = c, !.prev = bundle[c].state]
  <2>1. q.pc = "startingEvent" /\ q.bundle = c
    BY DEF InHand, TaskRecords
  <2>2. task' = [task EXCEPT ![t] = q]
    BY DEF BeginStart
  <2> HIDE DEF q
  <2>3. task'[t] = q
    BY <2>2 DEF ProgramOK, ControlOK
  <2> QED BY <1>1, <2>1, <2>3 DEF StarterOf
<1>2. CASE b # c
  BY <1>2 DEF BeginStart, ProgramOK, BundlesOK, StarterOf
<1> QED BY <1>1, <1>2

LEMMA StarterStep ==
  ASSUME ProgramOK, StartingHasStarter, [Next]_vars
  PROVE  StartingHasStarter'
<1> DEFINE Kept(t) == \A b \in BundleIds : bundle'[b].state = "STARTING" =>
             \/ StarterOf(t, b)'
             \/ bundle[b].state = "STARTING" /\ ~StarterOf(t, b)
<1> USE DEF ProgramOK, BundlesOK
<1>1. ASSUME NEW t \in Tasks, CallActivatorStart(t) PROVE Kept(t)
  BY <1>1 DEF CallActivatorStart, WithActivator, BundleRecords, StarterOf, Await, Awaited,
     ControlOK, InHand, TaskRecords
<1>2. ASSUME NEW t \in Tasks, ActivatorRegisters(t) PROVE StartingHasStarter'
  BY <1>2 DEF ActivatorRegisters, StartingHasStarter
<1>3. ASSUME NEW t \in Tasks, ActivatorStarted(t) PROVE Kept(t)
  BY <1>3 DEF ActivatorStarted, BundleRecords, StarterOf
<1>4. ASSUME NEW t \in Tasks, ActivatorStartFails(t) PROVE Kept(t)
  <2>1. RestoredState(task[t]) # "STARTING"
    BY AtPoint, InHandParts DEF RestoredState
  <2> QED BY <1>4, <2>1 DEF ActivatorStartFails, BundleRecords, StarterOf
<1>5. ASSUME NEW t \in Tasks, NEW b \in BundleIds, CallStart(t, b) PROVE Kept(t)
  <2>1. task[t].pc \notin {"startingEvent", "activating"} /\ Idle \in InHand
    BY <1>5, ControlPoints DEF CallStart, Free
  <2> QED BY <1>5, <2>1, StarterBegins DEF CallStart
<1>6. ASSUME NEW t \in Tasks, LevelStarts(t) PROVE Kept(t)
  <2>1. PICK x \in task[t].todo : BeginStart(t, x[2], TurnTaken(task[t], x))
    BY <1>6 DEF LevelStarts
  <2>2. TurnTaken(task[t], x) \in InHand /\ x[2] \in BundleIds
    BY TurnMoves
  <2>3. task[t].pc \notin {"startingEvent", "activating"}
    BY <1>6 DEF LevelStarts, At
  <2> QED BY <2>1, <2>2, <2>3, StarterBegins
(* No other step starts a bundle, or is taken by a starter.                *)
<1>7. ASSUME NEW t \in Tasks, task[t].pc \notin {"startingEvent", "activating"},
             \A b \in BundleIds : bundle'[b].state = "STARTING" => bundle[b].state = "STARTING"
      PROVE  Kept(t)
  BY <1>7 DEF StarterOf
<1>8. ASSUME NEW t \in Tasks,
             \/ StartedDelivered(t) \/ CallActivatorStop(t)
             \/ \E i \in 1..MaxServices : ActivatorUnregisters(t, i)
             \/ ActivatorStopped(t) \/ Sweep(t)
             \/ SweepRaises(t) \/ UnregisteringDelivered(t) \/ SweepEnd(t) \/ StoppedDelivered(t)
      PROVE  Kept(t)
  BY <1>7, <1>8 DEF StartedDelivered, CallActivatorStop, WithActivator,
     ActivatorUnregisters, ActivatorStopped, Sweep, SweepRaises, UnregisteringDelivered,
     SweepEnd, StoppedDelivered, Awaited, At, BundleRecords
<1>9. ASSUME NEW t \in Tasks, ActivatorStopFails(t) PROVE Kept(t)
  <2>1. RestoredState(task[t]) # "STARTING"
    BY AtPoint, InHandParts DEF RestoredState
  <2> QED BY <1>7, <1>9, <2>1 DEF ActivatorStopFails, BundleRecords, Awaited
<1>10. ASSUME NEW t \in Tasks,
              \/ LevelStops(t) \/ LevelSkips(t) \/ LevelsEnd(t)
              \/ FwStartingDelivered(t) \/ FwStoppingDelivered(t) \/ FwLastDelivered(t)
       PROVE  Kept(t)
  BY <1>7, <1>10 DEF LevelStops, BeginStop, LevelSkips, LevelsEnd, FwStartingDelivered,
     FwStoppingDelivered, EnterLevels, FwLastDelivered, Awaited, At, BundleRecords
<1>11. ASSUME NEW t \in Tasks,
              \/ Loaded(t) \/ LoadFails(t) \/ InstalledDelivered(t)
              \/ Uninstalled(t) \/ UninstalledDelivered(t) \/ Unloaded(t)
       PROVE  Kept(t)
  BY <1>7, <1>11 DEF Loaded, Unissued, LoadFails, InstalledDelivered, Uninstalled,
     UninstalledDelivered, Unloaded, Awaited, At, BundleRecords
<1>12. ASSUME NEW t \in Tasks,
              \/ CallFrameworkStart(t) \/ CallFrameworkStop(t)
              \/ \E b \in BundleIds : CallStop(t, b) \/ CallUninstall(t, b)
              \/ \E name \in Names : CallInstall(t, name)
       PROVE  Kept(t)
  BY <1>7, <1>12, ControlPoints DEF CallFrameworkStart, CallFrameworkStop, CallStop,
     CallUninstall, CallInstall, BeginStop, Free, BundleRecords
<1>13. ASSUME NEW t \in Tasks, Kept(t), Calls(t) \/ Steps(t) PROVE StartingHasStarter'
  BY <1>13, OthersWait, StarterFrame
<1> HIDE DEF Kept
<1>14. ASSUME NEW t \in Tasks, Calls(t) PROVE StartingHasStarter'
  BY <1>5, <1>12, <1>13, <1>14 DEF Calls
<1>15. ASSUME NEW t \in Tasks, Steps(t) PROVE StartingHasStarter'
  BY <1>1, <1>2, <1>3, <1>4, <1>6, <1>8, <1>9, <1>10, <1>11, <1>13, <1>15 DEF Steps
<1>16. CASE Surroundings
  BY <1>16 DEF Surroundings, SetLevel, BundleRegisters, BundleUnregisters,
     StartingHasStarter, BundleRecords
<1>17. CASE UNCHANGED vars
  BY <1>17 DEF vars, StartingHasStarter
<1> QED BY <1>14, <1>15, <1>16, <1>17 DEF Next

(* However many calls interleave, a bundle is STARTING only while a call   *)
(* that is starting it is in progress.                                     *)
THEOREM StartersExist == Spec => []StartingHasStarter
<1>1. Init => StartingHasStarter
  BY DEF Init, StartingHasStarter, Unissued
<1>2. ProgramOK /\ StartingHasStarter /\ [Next]_vars => StartingHasStarter'
  BY StarterStep
<1> QED BY <1>1, <1>2, Invariance, PTL DEF Spec
-----------------------------------------------------------------------------
(* The three parts of UninstalledForGood, for a step.                      *)
NoneReturns == \A b \in installed' \ installed : ~Issued(b)
OnlyUninstalled ==
  \A b \in installed \ installed' :
    \E t \in Tasks : task[t].pc = "uninstalledEvent" /\ task[t].bundle = b
NamesKept == \A b \in BundleIds : Issued(b) => bundle'[b].name = bundle[b].name

LEMMA CatalogueStep ==
  ASSUME ProgramOK, [Next]_vars
  PROVE  NoneReturns /\ OnlyUninstalled /\ NamesKept
<1> USE DEF ProgramOK, BundlesOK
<1>1. ASSUME NEW t \in Tasks, Loaded(t)
      PROVE  NoneReturns /\ OnlyUninstalled /\ NamesKept
  BY <1>1, InstalledIds DEF Loaded, NewBundleId, NoneReturns, OnlyUninstalled, NamesKept, Issued
<1>2. ASSUME NEW t \in Tasks, UninstalledDelivered(t)
      PROVE  NoneReturns /\ OnlyUninstalled /\ NamesKept
  BY <1>2 DEF UninstalledDelivered, Awaited, NoneReturns, OnlyUninstalled, NamesKept,
     BundleRecords
(* No other step touches the collections or the name of a bundle.          *)
<1>3. ASSUME UNCHANGED installed, \A b \in BundleIds : bundle'[b].name = bundle[b].name
      PROVE  NoneReturns /\ OnlyUninstalled /\ NamesKept
  BY <1>3 DEF NoneReturns, OnlyUninstalled, NamesKept
<1> DEFINE Same == UNCHANGED installed /\ \A b \in BundleIds : bundle'[b].name = bundle[b].name
<1>4. ASSUME NEW t \in Tasks, NEW b \in BundleIds, NEW r, BeginStart(t, b, r),
             UNCHANGED installed
      PROVE  Same
  BY <1>4 DEF BeginStart, Starting, BundleRecords
<1>5. ASSUME NEW t \in Tasks, NEW b, NEW r, BeginStop(t, b, r), UNCHANGED installed
      PROVE  Same
  BY <1>5 DEF BeginStop, BundleRecords
<1>6. ASSUME NEW t \in Tasks, Calls(t) PROVE Same
  BY <1>4, <1>5, <1>6 DEF Calls, CallFrameworkStart, CallFrameworkStop, CallStart,
     CallStop, CallUninstall, CallInstall, catalogue
<1>7. ASSUME NEW t \in Tasks,
             \/ CallActivatorStart(t) \/ ActivatorRegisters(t) \/ ActivatorStarted(t)
             \/ ActivatorStartFails(t) \/ StartedDelivered(t) \/ CallActivatorStop(t)
             \/ \E i \in 1..MaxServices : ActivatorUnregisters(t, i)
             \/ ActivatorStopFails(t) \/ ActivatorStopped(t) \/ Sweep(t)
             \/ SweepRaises(t) \/ UnregisteringDelivered(t) \/ SweepEnd(t)
             \/ StoppedDelivered(t)
      PROVE  Same
  BY <1>7 DEF CallActivatorStart, WithActivator, ActivatorRegisters, ActivatorStarted,
     ActivatorStartFails, StartedDelivered, CallActivatorStop, ActivatorUnregisters,
     ActivatorStopFails, ActivatorStopped, Sweep, SweepRaises, UnregisteringDelivered,
     SweepEnd, StoppedDelivered, BundleRecords, catalogue
<1>8. ASSUME NEW t \in Tasks, LevelStarts(t) \/ LevelStops(t) PROVE Same
  BY <1>4, <1>5, <1>8, TurnMoves DEF LevelStarts, LevelStops, catalogue
<1>9. ASSUME NEW t \in Tasks,
             \/ LevelSkips(t) \/ LevelsEnd(t) \/ FwStartingDelivered(t)
             \/ FwStoppingDelivered(t) \/ FwLastDelivered(t) \/ LoadFails(t)
             \/ InstalledDelivered(t) \/ Uninstalled(t) \/ Unloaded(t)
      PROVE  Same
  BY <1>9 DEF LevelSkips, LevelsEnd, FwStartingDelivered, FwStoppingDelivered, EnterLevels,
     FwLastDelivered, LoadFails, InstalledDelivered, Uninstalled, Unloaded, BundleRecords,
     catalogue
<1>10. CASE Surroundings
  <2>1. Same
    BY <1>10 DEF Surroundings, SetLevel, BundleRegisters, BundleUnregisters, BundleRecords,
       catalogue
  <2> QED BY <1>3, <2>1
<1>11. CASE UNCHANGED vars
  BY <1>3, <1>11 DEF vars, catalogue
<1>12. ASSUME NEW t \in Tasks, Steps(t)
       PROVE  NoneReturns /\ OnlyUninstalled /\ NamesKept
  BY <1>1, <1>2, <1>3, <1>7, <1>8, <1>9, <1>12 DEF Steps
<1> QED BY <1>3, <1>6, <1>10, <1>11, <1>12 DEF Next

(* However calls interleave, a bundle leaves the catalogue only in a call  *)
(* to uninstall it, never comes back, and its id is given to no other.     *)
THEOREM BundlesGoForGood == Spec => UninstalledForGood
<1>1. ProgramOK /\ [Next]_vars => NoneReturns /\ OnlyUninstalled /\ NamesKept
  BY CatalogueStep
<1> QED BY <1>1, Invariance, PTL
    DEF Spec, UninstalledForGood, NoneReturns, OnlyUninstalled, NamesKept
-----------------------------------------------------------------------------
(* What a sweep has left was registered by the bundle that is stopped.     *)
SweepPoints == {"sweep", "unregisteringEvent"}
RefsOwned ==
  \A t \in Tasks : task[t].pc \in SweepPoints =>
    \A i \in task[t].refs : reference[i] # NoReference /\ reference[i].bundle = task[t].bundle

LEMMA FirstIsThere ==
  ASSUME NEW refs \in SUBSET (1..MaxServices), refs # {}
  PROVE  First(refs) \in refs
<1>1. refs \subseteq Nat
  OBVIOUS
<1>2. PICK i \in refs : \A j \in refs : ~ (<<j, i>> \in OpToRel(<, Nat))
  BY <1>1, NatLessThanWellFounded, WFMin, Zenon
<1>3. \A j \in refs : j < i => <<j, i>> \in OpToRel(<, Nat)
  BY <1>1, Zenon DEF OpToRel
<1>4. \A j \in refs : i <= j
  <2>1. ASSUME NEW j \in refs, j < i PROVE FALSE
    BY <1>2, <1>3, <2>1
  <2> QED BY <1>1, <2>1
<1> QED BY <1>4 DEF First

(* References that were issued keep their owner.                           *)
LEMMA OwnersKept ==
  ASSUME ProgramOK, Reg!IInv, [Next]_vars,
         NEW i \in 1..MaxServices, reference[i] # NoReference
  PROVE  reference'[i] # NoReference /\ reference'[i].bundle = reference[i].bundle
<1>1. [Reg!IdsStep]_(Reg!vars)
  BY RegistryKept
<1> QED BY <1>1 DEF Reg!IdsStep, Reg!vars, Reg!Issued, Reg!Ids

(* A step of task t keeps RefsOwned if it sweeps what it had left, or does *)
(* not sweep.                                                              *)
LEMMA RefsFrame ==
  ASSUME ProgramOK, Reg!IInv, [Next]_vars, RefsOwned, NEW t \in Tasks,
         \A u \in Tasks \ {t} : task'[u] = task[u],
         \/ task'[t].pc \notin SweepPoints
         \/ /\ task[t].pc \in SweepPoints
            /\ task'[t].refs \subseteq task[t].refs /\ task'[t].bundle = task[t].bundle
  PROVE  RefsOwned'
<1> SUFFICES ASSUME NEW u \in Tasks, task'[u].pc \in SweepPoints, NEW i \in task'[u].refs
             PROVE  reference'[i] # NoReference /\ reference'[i].bundle = task'[u].bundle
  BY DEF RefsOwned
<1>1. /\ task[u].pc \in SweepPoints /\ i \in task[u].refs
      /\ task'[u].bundle = task[u].bundle
  OBVIOUS
<1>2. i \in 1..MaxServices
  BY <1>1, AtPoint, InHandParts
<1> QED BY <1>1, <1>2, OwnersKept DEF RefsOwned

LEMMA RefsStep ==
  ASSUME ProgramOK, Reg!IInv, RefsOwned, [Next]_vars
  PROVE  RefsOwned'
<1> DEFINE NotSweeping(t) == task'[t].pc \notin SweepPoints
           Sweeps(t) == /\ task[t].pc \in SweepPoints
                        /\ task'[t].refs \subseteq task[t].refs
                        /\ task'[t].bundle = task[t].bundle
<1> USE DEF SweepPoints
<1>0. \A t \in Tasks : /\ task[t] \in InHand /\ task[t] \in TaskRecords
                       /\ task \in [Tasks -> InHand]
  BY DEF ProgramOK, ControlOK, InHand
<1>1. ASSUME NEW t \in Tasks, NEW b, NEW r \in InHand, BeginStart(t, b, r) \/ BeginStop(t, b, r)
      PROVE  NotSweeping(t)
  <2> DEFINE q(pc) == [r EXCEPT !.pc = pc, !.bundle = b, !.prev = bundle[b].state]
  <2>1. \A pc : q(pc).pc = pc
    BY DEF InHand, TaskRecords
  <2>2. \E pc \in {"startingEvent", "stoppingEvent"} : task' = [task EXCEPT ![t] = q(pc)]
    BY <1>1 DEF BeginStart, BeginStop
  <2> HIDE DEF q
  <2> QED BY <1>0, <2>1, <2>2
<1>2. ASSUME NEW t \in Tasks, NEW p \in AwaitPoints \ SweepPoints, Await(t, p)
      PROVE  NotSweeping(t)
  BY <1>0, <1>2 DEF Await, TaskRecords
<1>3. ASSUME NEW t \in Tasks, Finish(t) PROVE NotSweeping(t)
  BY <1>0, <1>3, ControlPoints DEF Finish
<1>4. ASSUME NEW t \in Tasks, Return(t) PROVE NotSweeping(t)
  <2> DEFINE q == task[t]
             back == [Idle EXCEPT !.outer = q.outer, !.todo = q.todo,
                        !.requested = q.requested, !.down = q.down,
                        !.bundle = IF q.outer = "uninstall" THEN q.bundle ELSE 0]
  <2>1. \A p : [back EXCEPT !.pc = p].pc = p
    BY DEF Idle
  <2>2. \/ Finish(t)
        \/ \E p \in {"uninstall", "levels"} : task' = [task EXCEPT ![t] = [back EXCEPT !.pc = p]]
    BY <1>4 DEF Return
  <2> HIDE DEF back
  <2> QED BY <1>0, <1>3, <2>1, <2>2
<1>5. ASSUME NEW t \in Tasks, UnregisteringDelivered(t) \/ Sweep(t) PROVE Sweeps(t)
  BY <1>0, <1>5 DEF UnregisteringDelivered, GoTo, Sweep, Awaited, At, TaskRecords
<1>6. ASSUME NEW t \in Tasks, ActivatorStopped(t) PROVE RefsOwned'
  <2>1. /\ task'[t].bundle = task[t].bundle
        /\ task'[t].refs = bundleServices[task[t].bundle] /\ UNCHANGED reference
    BY <1>0, <1>6 DEF ActivatorStopped, BundleReferences, TaskRecords, registryVars
  <2>2. task[t].bundle \in BundleIds
    BY <1>6, AtPoint DEF ActivatorStopped, BundlePoints
  <2>3. \A i \in bundleServices[task[t].bundle] :
          reference[i] # NoReference /\ reference[i].bundle = task[t].bundle
    BY <2>2 DEF Reg!IInv, Reg!TypeOK, Reg!OwnerListsCover, Reg!UnissuedIsBlank, Reg!Issued
  <2>4. \A u \in Tasks \ {t} : task'[u] = task[u]
    BY <1>6, OthersWait DEF Steps
  <2> QED BY <2>1, <2>3, <2>4 DEF RefsOwned
<1>7. ASSUME NEW t \in Tasks,
             \/ CallActivatorStart(t) \/ ActivatorStarted(t) \/ ActivatorStartFails(t)
             \/ StartedDelivered(t) \/ ActivatorStopFails(t)
             \/ SweepRaises(t) \/ SweepEnd(t) \/ StoppedDelivered(t)
      PROVE  NotSweeping(t)
  BY <1>2, <1>3, <1>4, <1>7 DEF CallActivatorStart, ActivatorStarted, ActivatorStartFails,
     StartedDelivered, ActivatorStopFails, SweepRaises, SweepEnd, StoppedDelivered, AwaitPoints
<1>8. ASSUME NEW t \in Tasks, CallActivatorStop(t) PROVE NotSweeping(t)
  BY <1>0, <1>8 DEF CallActivatorStop, TaskRecords
<1>9. ASSUME NEW t \in Tasks,
             ActivatorRegisters(t) \/ \E i \in 1..MaxServices : ActivatorUnregisters(t, i)
      PROVE  NotSweeping(t)
  BY <1>9 DEF ActivatorRegisters, ActivatorUnregisters, Awaited
<1>10. ASSUME NEW t \in Tasks, LevelStarts(t) \/ LevelStops(t) PROVE NotSweeping(t)
  BY <1>1, <1>10, TurnMoves DEF LevelStarts, LevelStops
<1>11. ASSUME NEW t \in Tasks, LevelSkips(t) PROVE NotSweeping(t)
  BY <1>0, <1>11, TurnMoves DEF LevelSkips, At
<1>12. ASSUME NEW t \in Tasks, FwStartingDelivered(t) \/ FwStoppingDelivered(t)
       PROVE  NotSweeping(t)
  BY <1>0, <1>12 DEF FwStartingDelivered, FwStoppingDelivered, EnterLevels, TaskRecords
<1>13. ASSUME NEW t \in Tasks,
              \/ LevelsEnd(t) \/ FwLastDelivered(t) \/ Loaded(t) \/ LoadFails(t)
              \/ InstalledDelivered(t) \/ Uninstalled(t) \/ UninstalledDelivered(t)
              \/ Unloaded(t)
       PROVE  NotSweeping(t)
  BY <1>2, <1>3, <1>13 DEF LevelsEnd, FwLastDelivered, Loaded, LoadFails, InstalledDelivered,
     Uninstalled, UninstalledDelivered, Unloaded, AwaitPoints
<1>14. ASSUME NEW t \in Tasks, Calls(t) PROVE NotSweeping(t)
  <2>1. Idle \in InHand /\ \A b \in BundleIds :
          [Idle EXCEPT !.outer = "uninstall", !.bundle = b] \in InHand
    BY UninstallBegins, ControlPoints
  <2>2. ASSUME NEW b \in BundleIds, CallUninstall(t, b) PROVE NotSweeping(t)
    BY <1>0, <1>1, <2>1, <2>2 DEF CallUninstall, Idle
  <2>3. ASSUME NEW b \in BundleIds, CallStart(t, b) \/ CallStop(t, b) PROVE NotSweeping(t)
    BY <1>1, <2>1, <2>3 DEF CallStart, CallStop
  <2>4. ASSUME \/ CallFrameworkStart(t) \/ CallFrameworkStop(t)
               \/ \E name \in Names : CallInstall(t, name)
        PROVE  NotSweeping(t)
    BY <1>0, <2>4 DEF CallFrameworkStart, CallFrameworkStop, CallInstall, TaskRecords
  <2> QED BY <1>14, <2>2, <2>3, <2>4 DEF Calls
<1>15. ASSUME NEW t \in Tasks, Calls(t) \/ Steps(t), NotSweeping(t) \/ Sweeps(t)
       PROVE  RefsOwned'
  BY <1>15, OthersWait, RefsFrame
<1> HIDE DEF NotSweeping, Sweeps
<1>16. ASSUME NEW t \in Tasks, Steps(t) PROVE RefsOwned'
  BY <1>5, <1>6, <1>7, <1>8, <1>9, <1>10, <1>11, <1>12, <1>13, <1>15, <1>16 DEF Steps
<1>17. CASE UNCHANGED task
  <2>1. ASSUME NEW t \in Tasks, task[t].pc \in SweepPoints, NEW i \in task[t].refs
        PROVE  reference'[i] # NoReference /\ reference'[i].bundle = task[t].bundle
    BY <1>0, <2>1, InHandParts, OwnersKept DEF RefsOwned
  <2> QED BY <1>17, <2>1 DEF RefsOwned
<1>18. CASE Surroundings \/ UNCHANGED vars
  BY <1>17, <1>18 DEF Surroundings, SetLevel, BundleRegisters, BundleUnregisters, vars
<1> QED BY <1>14, <1>15, <1>16, <1>18 DEF Next

(* The owner of what a step unregisters is the bundle the step's task      *)
(* stops, unless a task of the bundle itself does it.                      *)
OwnersSweep ==
  \A i \in services \ services' :
    \/ Background
    \/ \E t \in Tasks : /\ task[t].bundle = reference[i].bundle
                        /\ task[t].pc \in {"deactivating", "sweep"}

LEMMA SweepStep ==
  ASSUME ProgramOK, Reg!IInv, RefsOwned, [Next]_vars
  PROVE  OwnersSweep
<1>1. ASSUME NEW t \in Tasks, Sweep(t) PROVE OwnersSweep
  <2>1. First(task[t].refs) \in task[t].refs
    BY <1>1, AtPoint, InHandParts, FirstIsThere DEF Sweep
  <2>2. services' = services \ {First(task[t].refs)} /\ task[t].pc = "sweep"
    BY <1>1 DEF Sweep, At, Registry!Unregister
  <2> QED BY <2>1, <2>2 DEF OwnersSweep, RefsOwned, SweepPoints
<1>2. ASSUME NEW t \in Tasks, NEW i \in 1..MaxServices, ActivatorUnregisters(t, i)
      PROVE  OwnersSweep
  BY <1>2 DEF ActivatorUnregisters, Awaited, Registry!Unregister, Registry!Registered,
     OwnersSweep
<1>3. CASE services \subseteq services'
  BY <1>3 DEF OwnersSweep
<1>4. ASSUME NEW b \in BundleIds, NEW i \in 1..MaxServices, BundleUnregisters(b, i)
      PROVE  OwnersSweep
  BY <1>4 DEF BundleUnregisters, OwnersSweep
<1>5. ASSUME NEW t \in Tasks, ActivatorRegisters(t) PROVE OwnersSweep
  BY <1>3, <1>5 DEF ActivatorRegisters, Registry!Register
<1>6. ASSUME NEW b \in BundleIds, BundleRegisters(b) PROVE OwnersSweep
  BY <1>3, <1>6 DEF BundleRegisters, Registry!Register
<1>7. ASSUME UNCHANGED registryVars PROVE OwnersSweep
  BY <1>3, <1>7 DEF registryVars
<1> QED BY <1>1, <1>2, <1>4, <1>5, <1>6, <1>7, RestUnmoved

(* However calls interleave, a stop unregisters only its own bundle's      *)
(* services: what is left of a sweep stays its bundle's, because an issued *)
(* reference never changes owner and no id is issued twice.                *)
THEOREM SweptByOwners == Spec => SweptByOwner
<1>1. Init => RefsOwned
  BY DEF Init, RefsOwned, Idle, SweepPoints
<1>2. ProgramOK /\ Reg!IInv /\ RefsOwned /\ [Next]_vars => RefsOwned'
  BY RefsStep
<1>3. ProgramOK /\ Reg!IInv /\ RefsOwned /\ [Next]_vars => OwnersSweep
  BY SweepStep
<1> QED BY <1>1, <1>2, <1>3, Invariance, PTL DEF Spec, SweptByOwner, OwnersSweep

-----------------------------------------------------------------------------
(***************************************************************************)
(* One call at a time.  What follows is proved for one task, and for       *)
(* bundles that use the registry only in their activators.                 *)
(***************************************************************************)
OneAtATime == (\E t : Tasks = {t}) /\ ~Background

StartPoints == {"startingEvent", "activating"}
StopPoints == {"stoppingEvent", "deactivating"} \union SweepPoints
MovingPoints == StartPoints \union StopPoints
FrameworkPoints ==
  {"fwStartingEvent", "fwStartedEvent", "fwStoppingEvent", "fwStoppedEvent", "levels"}

(* Where the call r can stand, by what it was made from.                   *)
Shape(r) ==
  /\ r.pc = "idle" => r = Idle
  /\ r.pc \in StartPoints \union {"startedEvent"} => r.outer \in {"none", "start"}
  /\ r.pc \in StopPoints \union {"stoppedEvent"} => r.outer \in {"none", "uninstall", "stop"}
  /\ r.pc \in {"uninstall", "uninstalledEvent", "unloading"} => r.outer = "uninstall"
  /\ r.pc \in {"loading", "installedEvent"} => r.outer = "none"
  /\ r.pc \in {"fwStartingEvent", "fwStartedEvent"} => r.outer = "start"
  /\ r.pc \in {"fwStoppingEvent", "fwStoppedEvent"} => r.outer = "stop"
  /\ r.pc = "levels" => r.outer \in {"start", "stop"}
  /\ r.pc \in FrameworkPoints => r.bundle = 0
  /\ r.pc \in FrameworkPoints \ {"levels"} => r.todo = {}

AtRest(b) ==
  /\ bundle[b].state \in {"RESOLVED", "ACTIVE", "UNINSTALLED"}
  /\ bundle[b].state = "ACTIVE" => bundle[b].context /\ bundle[b].activator = "started"

(* Only the bundle a call has in hand is on its way, and where the call    *)
(* stands says how far it is.                                              *)
Handled(r) ==
  /\ \A b \in BundleIds : AtRest(b) \/ (r.pc \in MovingPoints /\ r.bundle = b)
  /\ r.pc \in MovingPoints \union {"startedEvent", "stoppedEvent"} => Issued(r.bundle)
  /\ r.pc \in StartPoints =>
       /\ bundle[r.bundle].state = "STARTING" /\ bundle[r.bundle].context
       /\ r.prev \in {"RESOLVED", "UNINSTALLED"}
       /\ r.bundle \in installed => r.prev = "RESOLVED"
  /\ r.pc = "startedEvent" => bundle[r.bundle].state = "ACTIVE"
  /\ r.pc \in StopPoints => bundle[r.bundle].state = "STOPPING"
  /\ r.pc \in {"stoppingEvent", "deactivating"} =>
       /\ bundle[r.bundle].context /\ bundle[r.bundle].activator = "started"
       /\ r.prev = "ACTIVE"
  /\ r.pc = "deactivating" => r.given
  /\ r.pc \in {"stoppedEvent", "uninstall"} => bundle[r.bundle].state = "RESOLVED"
  /\ r.outer = "uninstall" /\ r.pc # "unloading" => r.bundle \in installed
  /\ \A b \in installed :
       bundle[b].state = "UNINSTALLED" <=> r.pc = "uninstalledEvent" /\ r.bundle = b

(* What a sweep has left is what its bundle has left.                      *)
Swept(r) ==
  /\ r.pc \in SweepPoints => r.refs = Registry!Registered(r.bundle)
  /\ r.pc = "stoppedEvent" => Registry!Registered(r.bundle) = {}

(* The framework's state and levels, by where its start or stop is.        *)
Levelled(r) ==
  /\ fwState = "RESOLVED" => active = 0
  /\ fwState \in {"ACTIVE", "STOPPING"} => active = StartLevel
  /\ r.outer = "start" => fwState = IF r.pc = "fwStartedEvent" THEN "ACTIVE" ELSE "STARTING"
  /\ r.outer = "stop" => fwState = IF r.pc = "fwStoppedEvent" THEN "RESOLVED" ELSE "STOPPING"
  /\ r.outer = "start" /\ r.pc # "fwStartingEvent" =>
       target = StartLevel /\ r.requested = StartLevel /\ ~r.down
  /\ r.outer = "stop" /\ r.pc # "fwStoppingEvent" =>
       target = 0 /\ r.requested = 0 /\ (r.down <=> StartLevel > 0)
  /\ r.outer \in {"start", "stop"} =>
       \A x \in r.todo : x[2] \in installed /\ x = <<bundle[x[2]].level, x[2]>>

Place(b) == <<bundle[b].level, b>>

(* A start has started every installed bundle up to the start level that   *)
(* its loop has behind it.                                                 *)
Rises(r) ==
  /\ r.outer = "start" /\ r.pc \notin {"fwStartingEvent", "fwStartedEvent"}
     /\ (r.pc = "levels" => r.todo # {}) =>
       \A b \in installed \ {r.bundle} :
         Place(b) \in r.todo \/ bundle[b].level > StartLevel \/ bundle[b].state = "ACTIVE"
  /\ r.outer = "start" /\ r.bundle # 0 =>
       /\ r.bundle \in installed /\ bundle[r.bundle].level <= StartLevel
       /\ \A y \in r.todo : Precedes(Place(r.bundle), y, FALSE)

(* A stop has no active bundle behind it.                                  *)
Falls(r) ==
  /\ r.outer = "stop" /\ r.pc \notin {"fwStoppingEvent", "fwStoppedEvent"} /\ r.down =>
       \A b \in installed \ {r.bundle} : bundle[b].state = "ACTIVE" => Place(b) \in r.todo
  /\ r.outer = "stop" /\ ~r.down => r.todo = {} /\ r.bundle = 0
  /\ r.outer = "stop" /\ r.bundle # 0 =>
       /\ r.bundle \in installed
       /\ \A y \in r.todo : Precedes(Place(r.bundle), y, TRUE)

Untouched == \A b \in BundleIds : ~Issued(b) => bundle[b].state = "RESOLVED"

Quiet ==
  fwState = "RESOLVED" /\ StartLevel > 0 =>
    \A b \in installed : bundle[b].state \in {"RESOLVED", "UNINSTALLED"}

(* What holds of the call of task t.                                       *)
Held(t) ==
  /\ Shape(task[t]) /\ Handled(task[t]) /\ Swept(task[t])
  /\ Levelled(task[t]) /\ Rises(task[t]) /\ Falls(task[t])

SeqInv == ~resorted /\ Untouched /\ Quiet /\ \A t \in Tasks : Held(t)

-----------------------------------------------------------------------------
(* What the ways to move on do to the record of a call.                    *)
Carried(r, s) ==
  /\ s.outer = r.outer /\ s.bundle = r.bundle /\ s.prev = r.prev /\ s.todo = r.todo
  /\ s.requested = r.requested /\ s.down = r.down

LEMMA IdleFields ==
  /\ Idle.pc = "idle" /\ Idle.outer = "none" /\ Idle.bundle = 0 /\ Idle.prev = "RESOLVED"
  /\ Idle.todo = {} /\ Idle.refs = {} /\ Idle.requested = 0 /\ Idle.down = FALSE
BY DEF Idle

LEMMA AwaitEffect ==
  ASSUME ProgramOK, NEW t \in Tasks, NEW p, Await(t, p) \/ GoTo(t, p)
  PROVE  /\ task'[t].pc = p /\ Carried(task[t], task'[t])
         /\ task'[t].refs = task[t].refs /\ task'[t].given = task[t].given
BY DEF ProgramOK, ControlOK, InHand, TaskRecords, Await, GoTo, Carried

LEMMA FinishEffect ==
  ASSUME ProgramOK, NEW t \in Tasks, Finish(t)
  PROVE  task'[t] = Idle
BY DEF ProgramOK, ControlOK, Finish

LEMMA ReturnEffect ==
  ASSUME ProgramOK, NEW t \in Tasks, Return(t)
  PROVE  /\ task[t].outer = "none" => task'[t] = Idle
         /\ task[t].outer # "none" =>
              /\ task'[t].pc = IF task[t].outer = "uninstall" THEN "uninstall" ELSE "levels"
              /\ task'[t].outer = task[t].outer /\ task'[t].todo = task[t].todo
              /\ task'[t].requested = task[t].requested /\ task'[t].down = task[t].down
              /\ task'[t].bundle = IF task[t].outer = "uninstall" THEN task[t].bundle ELSE 0
<1> DEFINE q == task[t]
           back == [Idle EXCEPT !.outer = q.outer, !.todo = q.todo,
                      !.requested = q.requested, !.down = q.down,
                      !.bundle = IF q.outer = "uninstall" THEN q.bundle ELSE 0]
<1>1. \A p : /\ [back EXCEPT !.pc = p].pc = p
             /\ [back EXCEPT !.pc = p].outer = q.outer
             /\ [back EXCEPT !.pc = p].todo = q.todo
             /\ [back EXCEPT !.pc = p].requested = q.requested
             /\ [back EXCEPT !.pc = p].down = q.down
             /\ [back EXCEPT !.pc = p].bundle = IF q.outer = "uninstall" THEN q.bundle ELSE 0
  BY DEF Idle
<1>2. CASE q.outer = "none"
  BY <1>2, FinishEffect DEF Return
<1>3. CASE q.outer # "none"
  <2>1. task'[t] = [back EXCEPT !.pc = IF q.outer = "uninstall" THEN "uninstall" ELSE "levels"]
    BY <1>3 DEF Return, ProgramOK, ControlOK
  <2> HIDE DEF back, q
  <2> QED BY <1>1, <1>3, <2>1 DEF q
<1> QED BY <1>2, <1>3

LEMMA BeginEffect ==
  ASSUME ProgramOK, NEW t \in Tasks, NEW b, NEW r \in InHand,
         BeginStart(t, b, r) \/ BeginStop(t, b, r)
  PROVE  /\ task'[t].pc = IF BeginStart(t, b, r) THEN "startingEvent" ELSE "stoppingEvent"
         /\ task'[t].bundle = b /\ task'[t].prev = bundle[b].state
         /\ task'[t].outer = r.outer /\ task'[t].todo = r.todo
         /\ task'[t].requested = r.requested /\ task'[t].down = r.down
<1> DEFINE q(pc) == [r EXCEPT !.pc = pc, !.bundle = b, !.prev = bundle[b].state]
<1>1. \A pc : /\ q(pc).pc = pc /\ q(pc).bundle = b /\ q(pc).prev = bundle[b].state
              /\ q(pc).outer = r.outer /\ q(pc).todo = r.todo
              /\ q(pc).requested = r.requested /\ q(pc).down = r.down
  BY DEF InHand, TaskRecords
<1>2. task'[t] = q(IF BeginStart(t, b, r) THEN "startingEvent" ELSE "stoppingEvent")
  <2>1. CASE BeginStart(t, b, r)
    BY <2>1 DEF BeginStart, ProgramOK, ControlOK
  <2>2. CASE ~BeginStart(t, b, r)
    BY <2>2 DEF BeginStop, ProgramOK, ControlOK
  <2> QED BY <2>1, <2>2
<1> HIDE DEF q
<1> QED BY <1>1, <1>2

(* Bundle b gets a state, a context and an activator; the rest stays.      *)
Remade(b, s, c, a) ==
  \A d \in BundleIds :
    /\ bundle'[d].state = IF d = b THEN s ELSE bundle[d].state
    /\ bundle'[d].context = IF d = b THEN c ELSE bundle[d].context
    /\ bundle'[d].activator = IF d = b THEN a ELSE bundle[d].activator
    /\ bundle'[d].level = bundle[d].level

LEMMA RemadeBy ==
  ASSUME ProgramOK, NEW b \in BundleIds, NEW s, NEW c, NEW a
  PROVE  /\ bundle' = [bundle EXCEPT ![b].state = s] =>
              Remade(b, s, bundle[b].context, bundle[b].activator)
         /\ bundle' = [bundle EXCEPT ![b].state = s, ![b].activator = a] =>
              Remade(b, s, bundle[b].context, a)
         /\ bundle' = [bundle EXCEPT ![b].activator = a] =>
              Remade(b, bundle[b].state, bundle[b].context, a)
         /\ bundle' = [bundle EXCEPT ![b].context = c, ![b].state = s] =>
              Remade(b, s, c, bundle[b].activator)
         /\ bundle' = WithActivator(b) =>
              \E x \in {"none", "fresh", "started"} :
                /\ Remade(b, bundle[b].state, bundle[b].context, x)
                /\ bundle[b].activator = "started" => x = "started"
         /\ bundle' = [bundle EXCEPT ![b] = Starting(b)] =>
              Remade(b, "STARTING", TRUE, bundle[b].activator)
<1> USE DEF Remade, ProgramOK, BundlesOK, BundleRecords, ActivatorStates
<1>1. bundle' = [bundle EXCEPT ![b].state = s] =>
        Remade(b, s, bundle[b].context, bundle[b].activator)
  OBVIOUS
<1>2. bundle' = [bundle EXCEPT ![b].state = s, ![b].activator = a] =>
        Remade(b, s, bundle[b].context, a)
  OBVIOUS
<1>3. \A x : bundle' = [bundle EXCEPT ![b].activator = x] =>
        Remade(b, bundle[b].state, bundle[b].context, x)
  OBVIOUS
<1>4. bundle' = [bundle EXCEPT ![b].context = c, ![b].state = s] =>
        Remade(b, s, c, bundle[b].activator)
  OBVIOUS
<1>5. bundle' = WithActivator(b) =>
        \E x \in {"none", "fresh", "started"} :
          /\ Remade(b, bundle[b].state, bundle[b].context, x)
          /\ bundle[b].activator = "started" => x = "started"
  <2> DEFINE x == IF bundle[b].activator = "none" THEN "fresh" ELSE bundle[b].activator
  <2>1. bundle' = WithActivator(b) => bundle' = [bundle EXCEPT ![b].activator = x]
    BY DEF WithActivator
  <2>2. x \in {"none", "fresh", "started"} /\ (bundle[b].activator = "started" => x = "started")
    OBVIOUS
  <2> HIDE DEF x, Remade
  <2> QED BY <1>3, <2>1, <2>2
<1>6. bundle' = [bundle EXCEPT ![b] = Starting(b)] =>
        Remade(b, "STARTING", TRUE, bundle[b].activator)
  BY DEF Starting
<1> QED BY <1>1, <1>2, <1>3, <1>4, <1>5, <1>6

-----------------------------------------------------------------------------
LEMMA UninstallFields ==
  ASSUME NEW b, NEW p
  PROVE  LET r == [Idle EXCEPT !.outer = "uninstall", !.bundle = b]
             s == [r EXCEPT !.pc = p]
         IN  /\ r.outer = "uninstall" /\ r.bundle = b /\ r.todo = {}
             /\ s.pc = p /\ s.outer = "uninstall" /\ s.bundle = b /\ s.todo = {}
BY DEF Idle

LEMMA TurnFields ==
  ASSUME ProgramOK, NEW t \in Tasks, NEW x \in task[t].todo
  PROVE  LET r == TurnTaken(task[t], x)
         IN  /\ r \in InHand /\ x[2] \in BundleIds
             /\ r.pc = task[t].pc /\ r.outer = task[t].outer /\ r.bundle = task[t].bundle
             /\ r.todo = task[t].todo \ {x}
             /\ r.requested = task[t].requested /\ r.down = task[t].down
<1>1. task[t] \in InHand
  BY AtPoint
<1>2. TurnTaken(task[t], x) \in InHand /\ x[2] \in BundleIds
  BY TurnMoves
<1>3. LET r == TurnTaken(task[t], x)
      IN  /\ r.pc = task[t].pc /\ r.outer = task[t].outer /\ r.bundle = task[t].bundle
          /\ r.todo = task[t].todo \ {x}
          /\ r.requested = task[t].requested /\ r.down = task[t].down
  BY <1>1 DEF TurnTaken, InHand, TaskRecords
<1> QED BY <1>2, <1>3

LEMMA EnterLevelsEffect ==
  ASSUME ProgramOK, NEW t \in Tasks, NEW l, EnterLevels(t, l)
  PROVE  LET bundles == IF l = active THEN {} ELSE installed
         IN  /\ task'[t].pc = "levels" /\ task'[t].outer = task[t].outer
             /\ task'[t].bundle = task[t].bundle
             /\ task'[t].requested = l /\ task'[t].down = IsDown(l)
             /\ task'[t].todo = {<<StartLevelOf(b), b>> : b \in bundles}
             /\ \A b \in BundleIds :
                  /\ bundle'[b].state = bundle[b].state
                  /\ bundle'[b].context = bundle[b].context
                  /\ bundle'[b].activator = bundle[b].activator
                  /\ bundle'[b].level = IF b \in bundles THEN StartLevelOf(b) ELSE bundle[b].level
<1> DEFINE bundles == IF l = active THEN {} ELSE installed
           todo == {<<StartLevelOf(b), b>> : b \in bundles}
           s == [task[t] EXCEPT !.pc = "levels", !.requested = l, !.down = IsDown(l),
                                !.todo = todo]
<1>1. task'[t] = s
  BY DEF EnterLevels, ProgramOK, ControlOK
<1>2. /\ s.pc = "levels" /\ s.outer = task[t].outer /\ s.bundle = task[t].bundle
      /\ s.requested = l /\ s.down = IsDown(l) /\ s.todo = todo
  <2>1. task[t] \in TaskRecords
    BY AtPoint, InHandParts
  <2> HIDE DEF todo
  <2> QED BY <2>1 DEF TaskRecords
<1>3. \A b \in BundleIds :
        /\ bundle'[b].state = bundle[b].state
        /\ bundle'[b].context = bundle[b].context
        /\ bundle'[b].activator = bundle[b].activator
        /\ bundle'[b].level = IF b \in bundles THEN StartLevelOf(b) ELSE bundle[b].level
  BY DEF EnterLevels, ProgramOK, BundlesOK, BundleRecords
<1> HIDE DEF s
<1> QED BY <1>1, <1>2, <1>3

LEMMA CallEffect ==
  ASSUME ProgramOK, NEW t \in Tasks
  PROVE  /\ CallFrameworkStart(t) =>
              /\ task'[t].pc = "fwStartingEvent" /\ task'[t].outer = "start"
              /\ task'[t].bundle = 0 /\ task'[t].todo = {}
         /\ CallFrameworkStop(t) =>
              /\ task'[t].pc = "fwStoppingEvent" /\ task'[t].outer = "stop"
              /\ task'[t].bundle = 0 /\ task'[t].todo = {} /\ task'[t].down = FALSE
         /\ \A name : CallInstall(t, name) =>
              task'[t].pc = "loading" /\ task'[t].outer = "none"
         /\ \A b \in BundleIds : CallUninstall(t, b) =>
              /\ task'[t].bundle = b /\ task'[t].outer = "uninstall"
              /\ \/ /\ task'[t].pc = "stoppingEvent" /\ task'[t].prev = bundle[b].state
                    /\ bundle[b].state = "ACTIVE"
                    /\ bundle' = [bundle EXCEPT ![b].state = "STOPPING"]
                 \/ /\ task'[t].pc = "uninstall" /\ bundle[b].state # "ACTIVE"
                    /\ bundle' = bundle
<1> USE DEF ProgramOK, ControlOK
<1>1. CallFrameworkStart(t) =>
        /\ task'[t].pc = "fwStartingEvent" /\ task'[t].outer = "start"
        /\ task'[t].bundle = 0 /\ task'[t].todo = {}
  BY DEF CallFrameworkStart, Free, Idle
<1>2. CallFrameworkStop(t) =>
        /\ task'[t].pc = "fwStoppingEvent" /\ task'[t].outer = "stop"
        /\ task'[t].bundle = 0 /\ task'[t].todo = {} /\ task'[t].down = FALSE
  BY DEF CallFrameworkStop, Free, Idle
<1>3. \A name : CallInstall(t, name) =>
        task'[t].pc = "loading" /\ task'[t].outer = "none"
  BY DEF CallInstall, Free, Idle
<1>4. ASSUME NEW b \in BundleIds, CallUninstall(t, b)
      PROVE  /\ task'[t].bundle = b /\ task'[t].outer = "uninstall"
             /\ \/ /\ task'[t].pc = "stoppingEvent" /\ task'[t].prev = bundle[b].state
                   /\ bundle[b].state = "ACTIVE"
                   /\ bundle' = [bundle EXCEPT ![b].state = "STOPPING"]
                \/ /\ task'[t].pc = "uninstall" /\ bundle[b].state # "ACTIVE"
                   /\ bundle' = bundle
  <2> DEFINE r == [Idle EXCEPT !.outer = "uninstall", !.bundle = b]
  <2>1. r \in InHand /\ r.outer = "uninstall"
    BY UninstallBegins, UninstallFields
  <2>2. CASE BeginStop(t, b, r)
    <3>1. bundle[b].state = "ACTIVE" /\ bundle' = [bundle EXCEPT ![b].state = "STOPPING"]
      BY <2>2 DEF BeginStop
    <3>2. ~BeginStart(t, b, r)
      BY <3>1 DEF BeginStart, CanStart
    <3> HIDE DEF r
    <3> QED BY <2>1, <2>2, <3>1, <3>2, BeginEffect
  <2>3. CASE ~BeginStop(t, b, r)
    <3>1. /\ bundle[b].state # "ACTIVE" /\ bundle' = bundle
          /\ task' = [task EXCEPT ![t] = [r EXCEPT !.pc = "uninstall"]]
      BY <1>4, <2>3 DEF CallUninstall
    <3>2. task'[t] = [r EXCEPT !.pc = "uninstall"]
      BY <3>1
    <3> QED BY <3>1, <3>2, UninstallFields
  <2> QED BY <2>2, <2>3
<1> QED BY <1>1, <1>2, <1>3, <1>4

(* A call or a level loop that begins to start or stop a bundle.           *)
LEMMA CallStartEffect ==
  ASSUME ProgramOK, NEW t \in Tasks, NEW b \in BundleIds, CallStart(t, b) \/ CallStop(t, b)
  PROVE  /\ task[t] = Idle /\ Issued(b) /\ task'[t].bundle = b
         /\ task'[t].prev = bundle[b].state /\ task'[t].outer = "none" /\ task'[t].todo = {}
         /\ \/ /\ task'[t].pc = "startingEvent" /\ CanStart(b)
               /\ Remade(b, "STARTING", TRUE, bundle[b].activator)
            \/ /\ task'[t].pc = "stoppingEvent" /\ bundle[b].state = "ACTIVE"
               /\ Remade(b, "STOPPING", bundle[b].context, bundle[b].activator)
<1>1. BeginStart(t, b, Idle) \/ BeginStop(t, b, Idle)
  BY DEF CallStart, CallStop
<1>2. task[t] = Idle /\ Issued(b)
  BY DEF CallStart, CallStop, Free
<1>3. /\ task'[t].pc = IF BeginStart(t, b, Idle) THEN "startingEvent" ELSE "stoppingEvent"
      /\ task'[t].bundle = b /\ task'[t].prev = bundle[b].state
      /\ task'[t].outer = "none" /\ task'[t].todo = {}
  BY <1>1, BeginEffect, ControlPoints, IdleFields
<1>4. BeginStart(t, b, Idle) => CanStart(b) /\ Remade(b, "STARTING", TRUE, bundle[b].activator)
  BY RemadeBy DEF BeginStart
<1>5. BeginStop(t, b, Idle) =>
        /\ bundle[b].state = "ACTIVE"
        /\ Remade(b, "STOPPING", bundle[b].context, bundle[b].activator)
  BY RemadeBy DEF BeginStop
<1> QED BY <1>1, <1>2, <1>3, <1>4, <1>5

LEMMA LevelEffect ==
  ASSUME ProgramOK, NEW t \in Tasks, LevelStarts(t) \/ LevelStops(t)
  PROVE  \E x \in task[t].todo :
           /\ Turn(task[t], x) /\ x[2] \in BundleIds
           /\ task[t].pc = "levels" /\ task'[t].bundle = x[2]
           /\ task'[t].prev = bundle[x[2]].state
           /\ task'[t].outer = task[t].outer /\ task'[t].todo = task[t].todo \ {x}
           /\ task'[t].requested = task[t].requested /\ task'[t].down = task[t].down
           /\ \/ /\ task'[t].pc = "startingEvent" /\ CanStart(x[2]) /\ MustStart(task[t], x)
                 /\ Remade(x[2], "STARTING", TRUE, bundle[x[2]].activator)
              \/ /\ task'[t].pc = "stoppingEvent" /\ bundle[x[2]].state = "ACTIVE"
                 /\ MustStop(task[t], x)
                 /\ Remade(x[2], "STOPPING", bundle[x[2]].context, bundle[x[2]].activator)
<1>1. PICK x \in task[t].todo :
        /\ Turn(task[t], x)
        /\ \/ MustStart(task[t], x) /\ BeginStart(t, x[2], TurnTaken(task[t], x))
           \/ MustStop(task[t], x) /\ BeginStop(t, x[2], TurnTaken(task[t], x))
  BY DEF LevelStarts, LevelStops
<1> DEFINE r == TurnTaken(task[t], x)
           b == x[2]
<1>2. /\ r \in InHand /\ b \in BundleIds /\ r.outer = task[t].outer
      /\ r.todo = task[t].todo \ {x}
      /\ r.requested = task[t].requested /\ r.down = task[t].down
  BY TurnFields
<1>3. task[t].pc = "levels"
  BY DEF LevelStarts, LevelStops, At
<1>4. BeginStart(t, b, r) => CanStart(b) /\ Remade(b, "STARTING", TRUE, bundle[b].activator)
  BY <1>2, RemadeBy DEF BeginStart
<1>5. BeginStop(t, b, r) =>
        /\ bundle[b].state = "ACTIVE"
        /\ Remade(b, "STOPPING", bundle[b].context, bundle[b].activator)
  BY <1>2, RemadeBy DEF BeginStop
<1>6. ~(BeginStart(t, b, r) /\ BeginStop(t, b, r))
  BY DEF BeginStart, BeginStop, CanStart
<1> HIDE DEF r, b
<1>7. /\ task'[t].pc = IF BeginStart(t, b, r) THEN "startingEvent" ELSE "stoppingEvent"
      /\ task'[t].bundle = b /\ task'[t].prev = bundle[b].state
      /\ task'[t].outer = r.outer /\ task'[t].todo = r.todo
      /\ task'[t].requested = r.requested /\ task'[t].down = r.down
  BY <1>1, <1>2, BeginEffect DEF r, b
<1>8. \/ MustStart(task[t], x) /\ BeginStart(t, b, r)
      \/ MustStop(task[t], x) /\ BeginStop(t, b, r)
  BY <1>1 DEF r, b
<1>9. /\ Turn(task[t], x) /\ b \in BundleIds
      /\ task[t].pc = "levels" /\ task'[t].bundle = b
      /\ task'[t].prev = bundle[b].state
      /\ task'[t].outer = task[t].outer /\ task'[t].todo = task[t].todo \ {x}
      /\ task'[t].requested = task[t].requested /\ task'[t].down = task[t].down
      /\ \/ /\ task'[t].pc = "startingEvent" /\ CanStart(b) /\ MustStart(task[t], x)
            /\ Remade(b, "STARTING", TRUE, bundle[b].activator)
         \/ /\ task'[t].pc = "stoppingEvent" /\ bundle[b].state = "ACTIVE"
            /\ MustStop(task[t], x)
            /\ Remade(b, "STOPPING", bundle[b].context, bundle[b].activator)
  BY <1>1, <1>2, <1>3, <1>4, <1>5, <1>6, <1>7, <1>8
<1> QED BY <1>9 DEF b

-----------------------------------------------------------------------------
LEMMA StopEffect ==
  ASSUME ProgramOK, NEW t \in Tasks
  PROVE  /\ CallActivatorStop(t) =>
              /\ task'[t].pc = "deactivating" /\ Carried(task[t], task'[t])
              /\ task'[t].given = bundle[task[t].bundle].context
         /\ ActivatorStopped(t) =>
              /\ task'[t].pc = "sweep" /\ Carried(task[t], task'[t])
              /\ task'[t].refs = bundleServices[task[t].bundle]
         /\ Sweep(t) =>
              /\ task'[t].pc = "unregisteringEvent" /\ Carried(task[t], task'[t])
              /\ task'[t].refs = task[t].refs \ {First(task[t].refs)}
<1>1. task[t] \in TaskRecords /\ task \in [Tasks -> InHand]
  BY AtPoint, InHandParts DEF ProgramOK, ControlOK
<1>2. ASSUME CallActivatorStop(t)
      PROVE  /\ task'[t].pc = "deactivating" /\ Carried(task[t], task'[t])
             /\ task'[t].given = bundle[task[t].bundle].context
  <2> DEFINE s(x) == [task[t] EXCEPT !.pc = "deactivating", !.given = x]
  <2>1. task'[t] = s(bundle[task[t].bundle].context)
    BY <1>1, <1>2 DEF CallActivatorStop
  <2>2. ASSUME NEW x PROVE s(x).pc = "deactivating" /\ s(x).given = x /\ Carried(task[t], s(x))
    BY <1>1 DEF TaskRecords, Carried
  <2> HIDE DEF s
  <2> QED BY <2>1, <2>2
<1>3. ASSUME ActivatorStopped(t)
      PROVE  /\ task'[t].pc = "sweep" /\ Carried(task[t], task'[t])
             /\ task'[t].refs = bundleServices[task[t].bundle]
  <2> DEFINE s(x) == [task[t] EXCEPT !.pc = "sweep", !.refs = x]
  <2>1. task'[t] = s(bundleServices[task[t].bundle])
    BY <1>1, <1>3 DEF ActivatorStopped, BundleReferences
  <2>2. ASSUME NEW x PROVE s(x).pc = "sweep" /\ s(x).refs = x /\ Carried(task[t], s(x))
    BY <1>1 DEF TaskRecords, Carried
  <2> HIDE DEF s
  <2> QED BY <2>1, <2>2
<1>4. ASSUME Sweep(t)
      PROVE  /\ task'[t].pc = "unregisteringEvent" /\ Carried(task[t], task'[t])
             /\ task'[t].refs = task[t].refs \ {First(task[t].refs)}
  <2> DEFINE s(x) == [task[t] EXCEPT !.pc = "unregisteringEvent", !.refs = x]
  <2>1. task'[t] = s(task[t].refs \ {First(task[t].refs)})
    BY <1>1, <1>4 DEF Sweep
  <2>2. ASSUME NEW x PROVE s(x).pc = "unregisteringEvent" /\ s(x).refs = x /\ Carried(task[t], s(x))
    BY <1>1 DEF TaskRecords, Carried
  <2> HIDE DEF s
  <2> QED BY <2>1, <2>2
<1> QED BY <1>2, <1>3, <1>4

LEMMA SkipEffect ==
  ASSUME ProgramOK, NEW t \in Tasks, LevelSkips(t)
  PROVE  \E x \in task[t].todo :
           /\ Turn(task[t], x)
           /\ ~(MustStart(task[t], x) /\ CanStart(x[2]))
           /\ ~(MustStop(task[t], x) /\ bundle[x[2]].state = "ACTIVE")
           /\ task[t].pc = "levels" /\ task'[t].pc = "levels"
           /\ task'[t].todo = task[t].todo \ {x}
           /\ task'[t].outer = task[t].outer /\ task'[t].bundle = task[t].bundle
           /\ task'[t].requested = task[t].requested /\ task'[t].down = task[t].down
<1>1. PICK x \in task[t].todo :
        /\ Turn(task[t], x)
        /\ ~(MustStart(task[t], x) /\ CanStart(x[2]))
        /\ ~(MustStop(task[t], x) /\ bundle[x[2]].state = "ACTIVE")
        /\ task' = [task EXCEPT ![t] = TurnTaken(@, x)]
  BY DEF LevelSkips
<1>2. task'[t] = TurnTaken(task[t], x) /\ task[t].pc = "levels"
  BY <1>1 DEF LevelSkips, At, ProgramOK, ControlOK
<1> QED BY <1>1, <1>2, TurnFields

LEMMA ShapeStep ==
  ASSUME ProgramOK, NEW t \in Tasks, Shape(task[t]), Levelled(task[t]), Falls(task[t]),
         Calls(t) \/ Steps(t)
  PROVE  Shape(task'[t])
<1> USE DEF Shape, StartPoints, StopPoints, SweepPoints, FrameworkPoints
<1>0. Shape(Idle)
  BY IdleFields
<1>1. ASSUME \/ CallActivatorStart(t) \/ ActivatorStarted(t) \/ UnregisteringDelivered(t)
             \/ SweepEnd(t)
      PROVE  Shape(task'[t])
  BY <1>1, AwaitEffect DEF CallActivatorStart, ActivatorStarted, UnregisteringDelivered,
     SweepEnd, Awaited, At, Carried
<1>2. ASSUME LevelsEnd(t) PROVE Shape(task'[t])
  BY <1>2, AwaitEffect DEF LevelsEnd, At, Carried
<1>3. ASSUME Loaded(t) \/ Uninstalled(t) PROVE Shape(task'[t])
  BY <1>3, AwaitEffect DEF Loaded, Uninstalled, Awaited, At, Carried
<1>4. ASSUME UninstalledDelivered(t) PROVE Shape(task'[t])
  BY <1>0, <1>4, AwaitEffect, FinishEffect DEF UninstalledDelivered, Awaited, Carried
<1>5. ASSUME \/ ActivatorStartFails(t) \/ ActivatorStopFails(t) \/ SweepRaises(t)
             \/ FwLastDelivered(t) \/ LoadFails(t) \/ InstalledDelivered(t) \/ Unloaded(t)
      PROVE  Shape(task'[t])
  <2>1. Finish(t)
    BY <1>5 DEF ActivatorStartFails, ActivatorStopFails, SweepRaises, FwLastDelivered,
       LoadFails, InstalledDelivered, Unloaded
  <2> QED BY <1>0, <2>1, FinishEffect
<1>6. ASSUME StartedDelivered(t) \/ StoppedDelivered(t) PROVE Shape(task'[t])
  BY <1>0, <1>6, ReturnEffect DEF StartedDelivered, StoppedDelivered, Awaited
<1>7. ASSUME ActivatorRegisters(t) \/ \E i \in 1..MaxServices : ActivatorUnregisters(t, i)
      PROVE  Shape(task'[t])
  BY <1>7 DEF ActivatorRegisters, ActivatorUnregisters
<1>8. ASSUME CallActivatorStop(t) \/ ActivatorStopped(t) \/ Sweep(t) PROVE Shape(task'[t])
  BY <1>8, StopEffect DEF CallActivatorStop, ActivatorStopped, Sweep, Awaited, At, Carried
<1>9. ASSUME LevelStarts(t) \/ LevelStops(t) PROVE Shape(task'[t])
  <2>1. PICK x \in task[t].todo :
          /\ task[t].pc = "levels" /\ task'[t].outer = task[t].outer
          /\ \/ /\ task'[t].pc = "startingEvent" /\ MustStart(task[t], x)
             \/ /\ task'[t].pc = "stoppingEvent" /\ MustStop(task[t], x)
    BY <1>9, LevelEffect
  <2>2. task[t].outer = "start" => ~MustStop(task[t], x)
    BY <2>1 DEF Levelled, MustStop
  <2>3. task[t].outer = "stop" => ~MustStart(task[t], x)
    BY <2>1 DEF Falls, MustStart
  <2> QED BY <2>1, <2>2, <2>3
<1>10. ASSUME LevelSkips(t) PROVE Shape(task'[t])
  BY <1>10, SkipEffect
<1>11. ASSUME FwStartingDelivered(t) \/ FwStoppingDelivered(t) PROVE Shape(task'[t])
  BY <1>11, EnterLevelsEffect DEF FwStartingDelivered, FwStoppingDelivered, Awaited
<1>12. ASSUME Calls(t) PROVE Shape(task'[t])
  BY <1>12, CallEffect, CallStartEffect DEF Calls
<1> QED BY <1>1, <1>2, <1>3, <1>4, <1>5, <1>6, <1>7, <1>8, <1>9, <1>10, <1>11, <1>12 DEF Steps

-----------------------------------------------------------------------------
(* A call that goes on with its bundle, and touches no other, is where it  *)
(* was among the levels.                                                   *)
LEMMA CarriedKeeps ==
  ASSUME ProgramOK, NEW t \in Tasks, Held(t),
         task[t].pc \in BundlePoints, task'[t].pc \in BundlePoints,
         Carried(task[t], task'[t]), UNCHANGED frameworkVars, UNCHANGED installed,
         \A d \in BundleIds : /\ bundle'[d].level = bundle[d].level
                              /\ d # task[t].bundle => bundle'[d].state = bundle[d].state
  PROVE  Levelled(task[t])' /\ Rises(task[t])' /\ Falls(task[t])'
<1> DEFINE r == task[t]
           s == task'[t]
<1>1. /\ s.outer = r.outer /\ s.bundle = r.bundle /\ s.todo = r.todo
      /\ s.requested = r.requested /\ s.down = r.down
  BY DEF Carried
<1>2. /\ {r.pc, s.pc} \cap FrameworkPoints = {}
      /\ \A d \in installed : d \in BundleIds /\ Place(d)' = Place(d)
      /\ installed \subseteq BundleIds
  BY InstalledIds DEF BundlePoints, FrameworkPoints, Place, ProgramOK
<1>3. r.todo \subseteq ({DefaultLevel} \union Levels) \X BundleIds
  BY AtPoint, InHandParts
<1>4. Levelled(task[t])'
  BY <1>1, <1>2, <1>3 DEF Held, Levelled, frameworkVars, FrameworkPoints
<1>5. Rises(task[t])'
  BY <1>1, <1>2 DEF Held, Rises, FrameworkPoints
<1>6. Falls(task[t])'
  BY <1>1, <1>2 DEF Held, Falls, FrameworkPoints
<1> QED BY <1>4, <1>5, <1>6

(* The parts of SeqInv that are about every bundle.                        *)
LEMMA UntouchedKeeps ==
  ASSUME ProgramOK, Untouched, NEW b \in BundleIds, Issued(b), UNCHANGED nextBundle,
         \A d \in BundleIds \ {b} : bundle'[d].state = bundle[d].state
  PROVE  Untouched'
BY DEF Untouched, Issued

LEMMA QuietKeeps ==
  ASSUME ProgramOK, Quiet, UNCHANGED fwState, installed' \subseteq installed,
         NEW b \in BundleIds,
         \/ b \notin installed
         \/ bundle[b].state \notin {"RESOLVED", "UNINSTALLED"}
         \/ fwState # "RESOLVED"
         \/ bundle'[b].state \in {"RESOLVED", "UNINSTALLED"},
         \A d \in BundleIds \ {b} : bundle'[d].state = bundle[d].state
  PROVE  Quiet'
BY InstalledIds DEF Quiet, ProgramOK

LEMMA SweptKeeps ==
  ASSUME NEW t \in Tasks, UNCHANGED registryVars, 
         task'[t].pc \notin SweepPoints \union {"stoppedEvent"}
  PROVE  Swept(task[t])'
BY DEF Swept

(* A step of a start that gets as far as the STARTED event.                *)
LEMMA StartGoesOn ==
  ASSUME ProgramOK, NEW t \in Tasks, Held(t), Untouched, Quiet,
         CallActivatorStart(t) \/ ActivatorStarted(t)
  PROVE  Handled(task[t])' /\ Swept(task[t])' /\ Untouched' /\ Quiet'
         /\ Levelled(task[t])' /\ Rises(task[t])' /\ Falls(task[t])'
<1> DEFINE r == task[t]
           b == r.bundle
<1>1. /\ r.pc \in StartPoints /\ b \in BundleIds /\ r.pc \in BundlePoints
      /\ UNCHANGED frameworkVars /\ UNCHANGED installed /\ UNCHANGED nextBundle
      /\ UNCHANGED registryVars
  BY AtPoint DEF CallActivatorStart, ActivatorStarted, Awaited, StartPoints, BundlePoints,
     catalogue
<1>2. \E x :
        \/ /\ task'[t].pc = "activating"
           /\ Remade(b, bundle[b].state, bundle[b].context, x)
        \/ /\ task'[t].pc = "startedEvent"
           /\ Remade(b, "ACTIVE", bundle[b].context, "started")
  <2>1. CASE CallActivatorStart(t)
    BY <1>1, <2>1, RemadeBy, AwaitEffect DEF CallActivatorStart
  <2>2. CASE ActivatorStarted(t)
    BY <1>1, <2>2, RemadeBy, AwaitEffect DEF ActivatorStarted
  <2> QED BY <2>1, <2>2
<1>3. Carried(r, task'[t])
  BY AwaitEffect DEF CallActivatorStart, ActivatorStarted
<1>4. Handled(task[t])'
  BY <1>1, <1>2, <1>3, InstalledIds DEF ProgramOK, Held, Shape, Handled, AtRest, Remade,
     Carried, Issued, MovingPoints, StartPoints, StopPoints, SweepPoints
<1>5. /\ task'[t].pc \in BundlePoints
      /\ \A d \in BundleIds : /\ bundle'[d].level = bundle[d].level
                              /\ d # b => bundle'[d].state = bundle[d].state
  BY <1>2 DEF Remade, BundlePoints
<1>6. Levelled(task[t])' /\ Rises(task[t])' /\ Falls(task[t])'
  BY <1>1, <1>3, <1>5, CarriedKeeps
<1>7. Swept(task[t])'
  BY <1>1, <1>2, SweptKeeps DEF SweepPoints
<1>8. Untouched' /\ Quiet'
  <2>1. Issued(b) /\ bundle[b].state = "STARTING"
    BY <1>1 DEF Held, Handled, MovingPoints
  <2> QED BY <1>1, <1>5, <2>1, UntouchedKeeps, QuietKeeps DEF frameworkVars
<1> QED BY <1>4, <1>6, <1>7, <1>8

(* A bundle's list of services is what it has registered.                  *)
LEMMA OwnListExact ==
  ASSUME Reg!IInv, ~resorted, NEW b \in BundleIds
  PROVE  bundleServices[b] = Registry!Registered(b)
BY SameInvariants DEF Reg!IInv, Reg!LookupExact

(* A step of a stop that gets as far as the STOPPED event.                 *)
LEMMA StopGoesOn ==
  ASSUME ProgramOK, Reg!IInv, ~resorted, NEW t \in Tasks, Held(t), Untouched, Quiet,
         \/ CallActivatorStop(t) \/ ActivatorStopped(t) \/ Sweep(t)
         \/ UnregisteringDelivered(t) \/ SweepEnd(t)
  PROVE  Handled(task[t])' /\ Swept(task[t])' /\ Untouched' /\ Quiet'
         /\ Levelled(task[t])' /\ Rises(task[t])' /\ Falls(task[t])'
<1> DEFINE r == task[t]
           b == r.bundle
<1>1. /\ r.pc \in StopPoints /\ b \in BundleIds /\ r.pc \in BundlePoints
      /\ UNCHANGED frameworkVars /\ UNCHANGED installed /\ UNCHANGED nextBundle
  BY AtPoint DEF CallActivatorStop, ActivatorStopped, Sweep, UnregisteringDelivered, SweepEnd,
     Awaited, At, StopPoints, SweepPoints, BundlePoints, catalogue
<1>2. \/ /\ r.pc = "stoppingEvent" /\ task'[t].pc = "deactivating"
         /\ task'[t].given = bundle[b].context
         /\ \E x : Remade(b, bundle[b].state, bundle[b].context, x)
                   /\ (bundle[b].activator = "started" => x = "started")
      \/ /\ task'[t].pc \in SweepPoints
         /\ \E x : Remade(b, bundle[b].state, bundle[b].context, x)
      \/ /\ task'[t].pc = "stoppedEvent"
         /\ \E x : Remade(b, "RESOLVED", FALSE, x)
  <2>1. CASE CallActivatorStop(t)
    BY <1>1, <2>1, RemadeBy, StopEffect DEF CallActivatorStop, Awaited
  <2>2. CASE ActivatorStopped(t)
    BY <1>1, <2>2, RemadeBy, StopEffect DEF ActivatorStopped, SweepPoints
  <2>3. CASE Sweep(t) \/ UnregisteringDelivered(t)
    <3>1. task'[t].pc \in SweepPoints /\ UNCHANGED bundle
      BY <2>3, StopEffect, AwaitEffect DEF Sweep, UnregisteringDelivered, SweepPoints
    <3>2. Remade(b, bundle[b].state, bundle[b].context, bundle[b].activator)
      BY <3>1 DEF Remade
    <3> QED BY <3>1, <3>2
  <2>4. CASE SweepEnd(t)
    BY <1>1, <2>4, RemadeBy, AwaitEffect DEF SweepEnd
  <2> QED BY <2>1, <2>2, <2>3, <2>4
<1>3. Carried(r, task'[t])
  BY AwaitEffect, StopEffect DEF UnregisteringDelivered, SweepEnd
<1>4. Handled(task[t])'
  <2> DEFINE s == task'[t]
  <2>1. /\ bundle[b].state = "STOPPING" /\ Issued(b) /\ UNCHANGED nextBundle
        /\ r.pc \notin StartPoints \union {"startedEvent"}
        /\ r.outer = "uninstall" => b \in installed
        /\ \A d \in installed : bundle[d].state # "UNINSTALLED"
        /\ \A d \in BundleIds : d # b => AtRest(d)
    BY <1>1 DEF Held, Handled, MovingPoints, StartPoints, StopPoints, SweepPoints, Issued
  <2>2. s.bundle = b /\ s.outer = r.outer /\ s.prev = r.prev
    BY <1>3 DEF Carried
  <2>3. installed \subseteq BundleIds /\ UNCHANGED installed
    BY <1>1, InstalledIds DEF ProgramOK
  <2>4. /\ \A d \in BundleIds : d # b => AtRest(d)'
        /\ \A d \in installed : bundle'[d].state # "UNINSTALLED"
        /\ s.pc \in {"deactivating"} \union SweepPoints => bundle'[b].state = "STOPPING"
        /\ s.pc = "deactivating" => bundle'[b].context /\ bundle'[b].activator = "started"
        /\ s.pc = "deactivating" => s.given /\ r.prev = "ACTIVE"
        /\ s.pc = "stoppedEvent" => bundle'[b].state = "RESOLVED" /\ ~bundle'[b].context
    <3>1. CASE s.pc = "deactivating"
      <4>1. /\ r.pc = "stoppingEvent" /\ s.given = bundle[b].context
            /\ \E x : Remade(b, bundle[b].state, bundle[b].context, x)
                   /\ (bundle[b].activator = "started" => x = "started")
        BY <1>2, <3>1 DEF SweepPoints
      <4>2. bundle[b].context /\ bundle[b].activator = "started" /\ r.prev = "ACTIVE"
        BY <4>1 DEF Held, Handled
      <4> QED BY <1>1, <2>1, <2>3, <3>1, <4>1, <4>2 DEF Remade, AtRest, SweepPoints
    <3>2. CASE s.pc \in SweepPoints
      <4>1. \E x : Remade(b, bundle[b].state, bundle[b].context, x)
        BY <1>2, <3>2 DEF SweepPoints
      <4> QED BY <1>1, <2>1, <2>3, <3>2, <4>1 DEF Remade, AtRest, SweepPoints
    <3>3. CASE s.pc = "stoppedEvent"
      <4>1. \E x : Remade(b, "RESOLVED", FALSE, x)
        BY <1>2, <3>3 DEF SweepPoints
      <4> QED BY <1>1, <2>1, <2>3, <3>3, <4>1 DEF Remade, AtRest, SweepPoints
    <3> QED BY <1>2, <3>1, <3>2, <3>3
  <2>5. s.pc \in {"deactivating", "stoppedEvent"} \union SweepPoints
    BY <1>2
  <2>6. Handled(task[t])'
    BY <1>1, <2>1, <2>2, <2>3, <2>4, <2>5
       DEF Handled, AtRest, Issued, MovingPoints, StartPoints, StopPoints, SweepPoints
  <2> QED BY <2>6
<1>5. /\ task'[t].pc \in BundlePoints
      /\ \A d \in BundleIds : /\ bundle'[d].level = bundle[d].level
                              /\ d # b => bundle'[d].state = bundle[d].state
  BY <1>2 DEF Remade, BundlePoints, SweepPoints
<1>6. Levelled(task[t])' /\ Rises(task[t])' /\ Falls(task[t])'
  BY <1>1, <1>3, <1>5, CarriedKeeps
<1>7. Swept(task[t])'
  <2>1. CASE CallActivatorStop(t)
    BY <2>1, StopEffect, SweptKeeps DEF CallActivatorStop, SweepPoints
  <2>2. CASE ActivatorStopped(t)
    <3>1. task'[t].pc = "sweep" /\ task'[t].refs = bundleServices[b] /\ task'[t].bundle = b
      BY <1>3, <2>2, StopEffect DEF Carried
    <3>2. \A d : Registry!Registered(d)' = Registry!Registered(d)
      BY <2>2 DEF ActivatorStopped, registryVars, Registry!Registered
    <3>3. task'[t].refs = Registry!Registered(task[t].bundle)'
      BY <1>1, <3>1, <3>2, OwnListExact
    <3> QED BY <3>1, <3>3 DEF Swept
  <2>3. CASE Sweep(t)
    <3>1. /\ task'[t].pc = "unregisteringEvent"
          /\ task'[t].refs = r.refs \ {First(r.refs)} /\ r.pc = "sweep"
      BY <2>3, StopEffect DEF Sweep, At
    <3>2. services' = services \ {First(r.refs)} /\ UNCHANGED reference
      BY <2>3 DEF Sweep, Registry!Unregister
    <3> QED BY <1>3, <3>1, <3>2 DEF Held, Swept, Carried, SweepPoints, Registry!Registered
  <2>4. CASE UnregisteringDelivered(t) \/ SweepEnd(t)
    <3>1. /\ r.pc \in SweepPoints /\ task'[t].refs = r.refs
          /\ task'[t].pc = "stoppedEvent" => r.refs = {}
          /\ UNCHANGED <<services, reference>>
      BY <2>4, AwaitEffect DEF UnregisteringDelivered, SweepEnd, Awaited, At, SweepPoints, registryVars
    <3> QED BY <1>3, <3>1 DEF Held, Swept, Carried, SweepPoints, Registry!Registered
  <2> QED BY <2>1, <2>2, <2>3, <2>4
<1>8. Untouched' /\ Quiet'
  <2>1. Issued(b) /\ bundle[b].state = "STOPPING"
    BY <1>1 DEF Held, Handled, MovingPoints
  <2> QED BY <1>1, <1>5, <2>1, UntouchedKeeps, QuietKeeps DEF frameworkVars
<1> QED BY <1>4, <1>6, <1>7, <1>8

(* A call that is over.                                                    *)
LEMMA IdleHeld ==
  ASSUME NEW t \in Tasks, Held(t), task'[t] = Idle, UNCHANGED frameworkVars,
         installed' \subseteq BundleIds, \A b \in BundleIds : AtRest(b)',
         \A b \in installed' : bundle'[b].state # "UNINSTALLED"
  PROVE  Handled(task[t])' /\ Swept(task[t])'
         /\ Levelled(task[t])' /\ Rises(task[t])' /\ Falls(task[t])'
<1>1. task'[t].pc = "idle" /\ task'[t].outer = "none"
  BY IdleFields
<1>2. Handled(task[t])'
  BY <1>1 DEF Handled, MovingPoints, StartPoints, StopPoints, SweepPoints
<1>3. Swept(task[t])' /\ Levelled(task[t])' /\ Rises(task[t])' /\ Falls(task[t])'
  BY <1>1 DEF Held, Swept, SweepPoints, Levelled, Rises, Falls, frameworkVars
<1> QED BY <1>2, <1>3

(* What is swept is there to be unregistered.                              *)
LEMMA SweepNeverRaises ==
  ASSUME ProgramOK, NEW t \in Tasks, Held(t)
  PROVE  ~SweepRaises(t)
<1> SUFFICES ASSUME SweepRaises(t) PROVE FALSE
  OBVIOUS
<1>1. task[t].pc = "sweep" /\ task[t].refs # {} /\ First(task[t].refs) \notin services
  BY DEF SweepRaises, At
<1>2. task[t].refs \subseteq services
  BY <1>1 DEF Held, Swept, SweepPoints, Registry!Registered
<1>3. First(task[t].refs) \in task[t].refs
  BY <1>1, AtPoint, InHandParts, FirstIsThere
<1> QED BY <1>1, <1>2, <1>3

LEMMA CallEnds ==
  ASSUME ProgramOK, NEW t \in Tasks, Held(t), Untouched, Quiet,
         \/ ActivatorStartFails(t) \/ ActivatorStopFails(t) \/ FwLastDelivered(t)
         \/ LoadFails(t) \/ InstalledDelivered(t) \/ Unloaded(t)
  PROVE  Handled(task[t])' /\ Swept(task[t])' /\ Untouched' /\ Quiet'
         /\ Levelled(task[t])' /\ Rises(task[t])' /\ Falls(task[t])'
<1> DEFINE r == task[t]
           b == r.bundle
<1>1. /\ task'[t] = Idle /\ UNCHANGED frameworkVars /\ UNCHANGED installed
      /\ UNCHANGED nextBundle /\ installed \subseteq BundleIds
  BY FinishEffect, InstalledIds DEF ActivatorStartFails, ActivatorStopFails, FwLastDelivered,
     LoadFails, InstalledDelivered, Unloaded, catalogue, ProgramOK
<1>2. CASE ActivatorStartFails(t) \/ ActivatorStopFails(t)
  <2>1. /\ b \in BundleIds /\ r.pc \in {"activating", "deactivating"}
        /\ Remade(b, r.prev, bundle[b].context, bundle[b].activator)
    <3>1. b \in BundleIds /\ r.pc \in {"activating", "deactivating"}
      BY <1>2, AtPoint DEF ActivatorStartFails, ActivatorStopFails, Awaited, BundlePoints
    <3>2. bundle' = [bundle EXCEPT ![b].state = r.prev]
      BY <1>2 DEF ActivatorStartFails, ActivatorStopFails, RestoredState
    <3> QED BY <3>1, <3>2, RemadeBy
  <2>2. /\ bundle[b].state \in {"STARTING", "STOPPING"} /\ Issued(b)
        /\ b \in installed => r.prev # "UNINSTALLED"
        /\ r.prev \in {"RESOLVED", "UNINSTALLED", "ACTIVE"}
        /\ r.prev = "ACTIVE" => bundle[b].context /\ bundle[b].activator = "started"
        /\ \A d \in BundleIds : d # b => AtRest(d)
        /\ \A d \in installed : bundle[d].state # "UNINSTALLED"
    BY <2>1 DEF Held, Handled, MovingPoints, StartPoints, StopPoints, SweepPoints
  <2>3. \A d \in BundleIds : AtRest(d)'
    BY <2>1, <2>2 DEF Remade, AtRest
  <2>4. \A d \in installed' : bundle'[d].state # "UNINSTALLED"
    BY <1>1, <2>1, <2>2 DEF Remade
  <2>5. \A d \in BundleIds \ {b} : bundle'[d].state = bundle[d].state
    BY <2>1 DEF Remade
  <2>6. Untouched' /\ Quiet'
    BY <1>1, <2>1, <2>2, <2>5, UntouchedKeeps, QuietKeeps DEF frameworkVars
  <2> QED BY <1>1, <2>3, <2>4, <2>6, IdleHeld
<1>3. CASE FwLastDelivered(t) \/ LoadFails(t) \/ InstalledDelivered(t) \/ Unloaded(t)
  <2>1. /\ r.pc \notin MovingPoints /\ r.pc # "uninstalledEvent" /\ UNCHANGED bundle
    BY <1>3 DEF FwLastDelivered, LoadFails, InstalledDelivered, Unloaded, Awaited,
       MovingPoints, StartPoints, StopPoints, SweepPoints
  <2>2. \A d \in BundleIds : AtRest(d)'
    BY <2>1 DEF Held, Handled, AtRest
  <2>3. \A d \in installed' : bundle'[d].state # "UNINSTALLED"
    BY <1>1, <2>1 DEF Held, Handled
  <2>4. Untouched' /\ Quiet'
    BY <1>1, <2>1 DEF Untouched, Quiet, Issued, frameworkVars
  <2> QED BY <1>1, <2>2, <2>3, <2>4, IdleHeld
<1> QED BY <1>2, <1>3

(* start_bundle or stop_bundle returns to the call it was made from.       *)
LEMMA CallReturns ==
  ASSUME ProgramOK, NEW t \in Tasks, Held(t), Untouched, Quiet,
         StartedDelivered(t) \/ StoppedDelivered(t)
  PROVE  Handled(task[t])' /\ Swept(task[t])' /\ Untouched' /\ Quiet'
         /\ Levelled(task[t])' /\ Rises(task[t])' /\ Falls(task[t])'
<1> DEFINE r == task[t]
           s == task'[t]
           b == r.bundle
<1>1. /\ UNCHANGED frameworkVars /\ UNCHANGED installed /\ UNCHANGED bundle
      /\ UNCHANGED nextBundle /\ installed \subseteq BundleIds
  BY InstalledIds DEF StartedDelivered, StoppedDelivered, catalogue, ProgramOK
<1>2. /\ r.pc \in {"startedEvent", "stoppedEvent"} /\ b \in BundleIds
      /\ r.outer \in {"none", "uninstall", "start", "stop"}
      /\ r.outer \in {"uninstall", "stop"} => r.pc = "stoppedEvent"
      /\ r.outer = "start" => r.pc = "startedEvent"
  BY AtPoint DEF StartedDelivered, StoppedDelivered, Awaited, Held, Shape, StartPoints,
     StopPoints, BundlePoints
<1>3. /\ \A d \in BundleIds : AtRest(d) /\ AtRest(d)'
      /\ \A d \in installed : bundle[d].state # "UNINSTALLED"
      /\ bundle[b].state = IF r.pc = "startedEvent" THEN "ACTIVE" ELSE "RESOLVED"
      /\ r.outer = "uninstall" => b \in installed
  BY <1>1, <1>2 DEF Held, Handled, AtRest, MovingPoints, StartPoints, StopPoints, SweepPoints
<1>4. Untouched' /\ Quiet'
  BY <1>1 DEF Untouched, Quiet, Issued, frameworkVars
<1>5. CASE r.outer = "none"
  <2>1. s = Idle
    BY <1>5, ReturnEffect DEF StartedDelivered, StoppedDelivered
  <2> QED BY <1>1, <1>3, <1>4, <2>1, IdleHeld
<1>6. CASE r.outer # "none"
  <2>1. /\ s.pc = IF r.outer = "uninstall" THEN "uninstall" ELSE "levels"
        /\ s.outer = r.outer /\ s.todo = r.todo
        /\ s.requested = r.requested /\ s.down = r.down
        /\ s.bundle = IF r.outer = "uninstall" THEN b ELSE 0
    BY <1>6, ReturnEffect DEF StartedDelivered, StoppedDelivered
  <2>2. Handled(task[t])' /\ Swept(task[t])'
    BY <1>1, <1>2, <1>3, <2>1
       DEF Handled, Swept, MovingPoints, StartPoints, StopPoints, SweepPoints
  <2>3. \A d \in installed : d \in BundleIds /\ Place(d)' = Place(d)
    BY <1>1 DEF Place
  <2>4. r.todo \subseteq ({DefaultLevel} \union Levels) \X BundleIds /\ 0 \notin installed
    BY <1>1, AtPoint, InHandParts DEF BundleIds
  <2>5. Levelled(task[t])'
    BY <1>1, <1>2, <2>1, <2>4 DEF Held, Levelled, frameworkVars
  <2>6. Rises(task[t])'
    BY <1>1, <1>2, <1>3, <2>1, <2>3, <2>4 DEF Held, Rises
  <2>7. Falls(task[t])'
    BY <1>1, <1>2, <1>3, <2>1, <2>3, <2>4 DEF Held, Falls
  <2> QED BY <1>4, <2>2, <2>5, <2>6, <2>7
<1> QED BY <1>5, <1>6

(* The activator registers or unregisters a service.                       *)
LEMMA ActivatorMoves ==
  ASSUME ProgramOK, NEW t \in Tasks, Held(t), Untouched, Quiet,
         ActivatorRegisters(t) \/ \E i \in 1..MaxServices : ActivatorUnregisters(t, i)
  PROVE  Handled(task[t])' /\ Swept(task[t])' /\ Untouched' /\ Quiet'
         /\ Levelled(task[t])' /\ Rises(task[t])' /\ Falls(task[t])'
<1>1. /\ UNCHANGED <<frameworkVars, catalogue, bundle, task>>
      /\ task[t].pc \in {"activating", "deactivating"}
  BY DEF ActivatorRegisters, ActivatorUnregisters, Awaited
<1>2. Handled(task[t])' /\ Swept(task[t])'
  BY <1>1 DEF Held, Handled, Swept, AtRest, Issued, catalogue, SweepPoints
<1>3. Untouched' /\ Quiet'
  BY <1>1 DEF Untouched, Quiet, Issued, catalogue, frameworkVars
<1>4. Levelled(task[t])' /\ Rises(task[t])' /\ Falls(task[t])'
  BY <1>1 DEF Held, Levelled, Rises, Falls, Place, catalogue, frameworkVars
<1> QED BY <1>2, <1>3, <1>4

-----------------------------------------------------------------------------
LEMMA InstalledIssued ==
  ASSUME ProgramOK, NEW b \in installed
  PROVE  b \in BundleIds /\ Issued(b) /\ b # 0
<1>1. nextBundle \in Nat /\ b \in BundleIds
  BY InstalledIds DEF ProgramOK
<1>2. b \in 1..(nextBundle - 1)
  BY DEF ProgramOK, CatalogueOK
<1>3. b < nextBundle /\ b # 0
  BY <1>1, <1>2
<1> QED BY <1>1, <1>3 DEF Issued

(* A bundle that a start or a stop begins with.                            *)
LEMMA BeginHandled ==
  ASSUME ProgramOK, NEW t \in Tasks, NEW b \in BundleIds, Issued(b),
         UNCHANGED installed, UNCHANGED nextBundle,
         \A d \in BundleIds : AtRest(d),
         \A d \in installed : bundle[d].state # "UNINSTALLED",
         task'[t].bundle = b, task'[t].prev = bundle[b].state,
         task'[t].outer = "uninstall" => b \in installed,
         \/ /\ task'[t].pc = "startingEvent" /\ CanStart(b)
            /\ \E x : Remade(b, "STARTING", TRUE, x)
         \/ /\ task'[t].pc = "stoppingEvent" /\ bundle[b].state = "ACTIVE"
            /\ Remade(b, "STOPPING", bundle[b].context, bundle[b].activator)
  PROVE  Handled(task[t])' /\ Swept(task[t])'
<1> DEFINE s == task'[t]
<1>1. installed \subseteq BundleIds
  BY InstalledIds DEF ProgramOK
<1>2. Swept(task[t])'
  BY DEF Swept, SweepPoints
<1>3. CASE s.pc = "startingEvent"
  <2>1. bundle[b].state \in {"RESOLVED", "UNINSTALLED"}
    BY <1>3 DEF CanStart, AtRest
  <2>2. PICK x : Remade(b, "STARTING", TRUE, x)
    BY <1>3
  <2>3. /\ bundle'[b].state = "STARTING" /\ bundle'[b].context
        /\ \A d \in BundleIds : d # b => AtRest(d)'
        /\ \A d \in installed' : d \in BundleIds /\ bundle'[d].state # "UNINSTALLED"
    BY <1>1, <2>2 DEF Remade, AtRest
  <2> QED BY <1>1, <1>2, <1>3, <2>1, <2>3 DEF Handled, Issued, MovingPoints,
      StartPoints, StopPoints, SweepPoints
<1>4. CASE s.pc = "stoppingEvent"
  <2>1. /\ bundle[b].state = "ACTIVE" /\ bundle[b].context /\ bundle[b].activator = "started"
        /\ Remade(b, "STOPPING", bundle[b].context, bundle[b].activator)
    BY <1>4 DEF AtRest
  <2> QED BY <1>1, <1>2, <1>4, <2>1 DEF Handled, AtRest, Remade, Issued, MovingPoints,
      StartPoints, StopPoints, SweepPoints
<1> QED BY <1>3, <1>4

LEMMA LevelsAreNat ==
  ASSUME ProgramOK, NEW b \in installed
  PROVE  bundle[b].level \in Nat
<1>1. bundle[b].level \in {0, DefaultLevel} \union Levels
  BY InstalledIssued DEF ProgramOK, BundlesOK, BundleRecords
<1>2. \A z \in {0, DefaultLevel} \union Levels : z \in Nat
  BY FrameworkAssumption DEF DefaultLevel
<1> QED BY <1>1, <1>2

LEMMA PlaceFields == \A d : Place(d)[1] = bundle[d].level /\ Place(d)[2] = d
BY DEF Place

(* What the level loop knows at its head.                                  *)
LEMMA AtLevels ==
  ASSUME ProgramOK, NEW t \in Tasks, Held(t), task[t].pc = "levels"
  PROVE  /\ task[t].outer \in {"start", "stop"} /\ task[t].bundle = 0
         /\ \A d \in BundleIds : AtRest(d)
         /\ \A d \in installed : bundle[d].state # "UNINSTALLED"
         /\ \A x \in task[t].todo : /\ x[2] \in installed /\ x[1] \in Nat \ {0}
                                    /\ x = Place(x[2]) /\ x[1] = bundle[x[2]].level
         /\ task[t].outer = "start" =>
              fwState = "STARTING" /\ ~task[t].down /\ task[t].requested = StartLevel
         /\ task[t].outer = "stop" =>
              /\ fwState = "STOPPING" /\ task[t].requested = 0
              /\ task[t].down \/ task[t].todo = {}
<1> DEFINE r == task[t]
<1>1. r.outer \in {"start", "stop"} /\ r.bundle = 0
  BY DEF Held, Shape, FrameworkPoints
<1>2. /\ \A d \in BundleIds : AtRest(d)
      /\ \A d \in installed : bundle[d].state # "UNINSTALLED"
  BY DEF Held, Handled, MovingPoints, StartPoints, StopPoints, SweepPoints
<1>3. ASSUME NEW x \in r.todo
      PROVE  x[2] \in installed /\ x[1] \in Nat \ {0} /\ x = Place(x[2]) /\ x[1] = bundle[x[2]].level
  <2>1. x \in ({DefaultLevel} \union Levels) \X BundleIds
    BY AtPoint, InHandParts
  <2>2. x[1] \in Nat \ {0}
    <3>1. x[1] \in {DefaultLevel} \union Levels /\ Levels \subseteq Nat \ {0}
      BY <2>1, FrameworkAssumption
    <3>2. \A z \in {DefaultLevel} \union Levels : z \in Nat \ {0}
      BY <3>1 DEF DefaultLevel
    <3> QED BY <3>1, <3>2
  <2>3. x[2] \in installed /\ x = <<bundle[x[2]].level, x[2]>>
    BY <1>1 DEF Held, Levelled
  <2> QED BY <2>2, <2>3 DEF Place
<1>4. r.outer = "start" => fwState = "STARTING" /\ ~r.down /\ r.requested = StartLevel
  BY DEF Held, Levelled
<1>5. r.outer = "stop" => fwState = "STOPPING" /\ r.requested = 0 /\ (r.down \/ r.todo = {})
  BY DEF Held, Levelled, Falls
<1> QED BY <1>1, <1>2, <1>3, <1>4, <1>5

LEMMA LevelBegins ==
  ASSUME ProgramOK, NEW t \in Tasks, Held(t), Untouched, Quiet,
         LevelStarts(t) \/ LevelStops(t)
  PROVE  Handled(task[t])' /\ Swept(task[t])' /\ Untouched' /\ Quiet'
         /\ Levelled(task[t])' /\ Rises(task[t])' /\ Falls(task[t])'
<1> DEFINE r == task[t]
           s == task'[t]
<1>0. r.pc = "levels" /\ UNCHANGED frameworkVars /\ UNCHANGED installed /\ UNCHANGED nextBundle
  BY DEF LevelStarts, LevelStops, At, catalogue
<1>1. PICK x \in r.todo :
        /\ Turn(r, x) /\ s.bundle = x[2] /\ s.prev = bundle[x[2]].state
        /\ s.outer = r.outer /\ s.todo = r.todo \ {x}
        /\ s.requested = r.requested /\ s.down = r.down
        /\ \/ /\ s.pc = "startingEvent" /\ CanStart(x[2]) /\ MustStart(r, x)
              /\ Remade(x[2], "STARTING", TRUE, bundle[x[2]].activator)
           \/ /\ s.pc = "stoppingEvent" /\ bundle[x[2]].state = "ACTIVE" /\ MustStop(r, x)
              /\ Remade(x[2], "STOPPING", bundle[x[2]].context, bundle[x[2]].activator)
  BY LevelEffect
<1> DEFINE b == x[2]
<1>2. /\ b \in installed /\ x = Place(b) /\ x[1] = bundle[b].level
      /\ b \in BundleIds /\ Issued(b) /\ b # 0
  BY <1>0, AtLevels, InstalledIssued
<1>3. /\ r.outer \in {"start", "stop"} /\ r.bundle = 0
      /\ \A d \in BundleIds : AtRest(d)
      /\ \A d \in installed : bundle[d].state # "UNINSTALLED"
      /\ \A y \in r.todo : y[2] \in installed /\ y = Place(y[2])
      /\ r.outer = "start" => fwState = "STARTING" /\ ~r.down /\ r.requested = StartLevel
      /\ r.outer = "stop" => fwState = "STOPPING" /\ r.requested = 0 /\ r.down
  BY <1>0, AtLevels
<1>4. Handled(task[t])' /\ Swept(task[t])'
  <2>1. \/ /\ s.pc = "startingEvent" /\ CanStart(b) /\ \E z : Remade(b, "STARTING", TRUE, z)
        \/ /\ s.pc = "stoppingEvent" /\ bundle[b].state = "ACTIVE"
           /\ Remade(b, "STOPPING", bundle[b].context, bundle[b].activator)
    BY <1>1
  <2>2. s.bundle = b /\ s.prev = bundle[b].state /\ s.outer # "uninstall"
    BY <1>1, <1>3
  <2> HIDE DEF b
  <2> QED BY <1>0, <1>2, <1>3, <2>1, <2>2, BeginHandled
<1>5. \A d \in BundleIds : /\ bundle'[d].level = bundle[d].level
                           /\ d # b => bundle'[d].state = bundle[d].state
  BY <1>1 DEF Remade
<1>6. Untouched' /\ Quiet'
  <2>1. fwState # "RESOLVED"
    BY <1>3
  <2> HIDE DEF b
  <2> QED BY <1>0, <1>2, <1>5, <2>1, UntouchedKeeps, QuietKeeps DEF frameworkVars
<1>7. s.pc \in {"startingEvent", "stoppingEvent"}
  BY <1>1
<1>8. installed \subseteq BundleIds /\ 0 \notin installed /\ \A d \in installed : Place(d)' = Place(d)
  BY <1>5, InstalledIds, InstalledIssued DEF Place, ProgramOK
<1>9. /\ r.outer = "start" => \A y \in s.todo : Precedes(Place(b), y, FALSE)
      /\ r.outer = "stop" => \A y \in s.todo : Precedes(Place(b), y, TRUE)
  <2>1. \A y \in s.todo : Precedes(Place(b), y, r.down)
    BY <1>1, <1>2 DEF Turn
  <2>2. r.down \in BOOLEAN
    BY AtPoint, InHandParts
  <2>3. /\ r.outer = "start" => r.down = FALSE
        /\ r.outer = "stop" => r.down = TRUE
    BY <1>3, <2>2
  <2> QED BY <2>1, <2>3
<1>10. Levelled(task[t])'
  <2>1. \A y \in s.todo : y[2] \in installed' /\ y = Place(y[2])'
    <3>1. \A y \in r.todo : y[2] \in installed /\ y = Place(y[2])
      BY <1>3
    <3>2. \A d \in installed : Place(d) = <<bundle'[d].level, d>>
      BY <1>8 DEF Place
    <3> QED BY <1>0, <1>1, <3>1, <3>2 DEF Place
  <2> QED BY <1>0, <1>1, <1>3, <1>7, <2>1 DEF Held, Levelled, frameworkVars, Place
<1>11. Rises(task[t])'
  <2>1. r.outer = "start" => s.pc = "startingEvent" /\ x[1] <= StartLevel
    BY <1>1, <1>3 DEF MustStart, MustStop
  <2>2. r.outer = "start" =>
          \A d \in installed \ {b} : \/ Place(d) \in r.todo \ {x} \/ bundle[d].level > StartLevel
                                     \/ bundle[d].state = "ACTIVE"
    <3>1. ASSUME NEW d \in installed \ {b} PROVE Place(d) # x
      BY PlaceFields
    <3> HIDE DEF b
    <3> QED BY <1>0, <1>1, <1>3, <1>8, <3>1 DEF Held, Rises
  <2> QED BY <1>0, <1>1, <1>2, <1>3, <1>5, <1>7, <1>8, <1>9, <2>1, <2>2 DEF Rises
<1>12. Falls(task[t])'
  <2>1. r.outer = "stop" =>
          \A d \in installed \ {b} : bundle[d].state = "ACTIVE" => Place(d) \in r.todo \ {x}
    <3>1. ASSUME NEW d \in installed \ {b} PROVE Place(d) # x
      BY PlaceFields
    <3> HIDE DEF b
    <3> QED BY <1>0, <1>1, <1>3, <1>8, <3>1 DEF Held, Falls
  <2>2. r.outer = "stop" =>
          \A d \in installed' \ {s.bundle} : bundle'[d].state = "ACTIVE" => Place(d)' \in s.todo
    BY <1>0, <1>1, <1>5, <1>8, <2>1
  <2>3. r.outer = "stop" => \A y \in s.todo : Precedes(Place(task[t].bundle)', y, TRUE)
    <3>1. Place(task[t].bundle)' = Place(b)
      BY <1>1, <1>2, <1>5 DEF Place
    <3> QED BY <1>9, <3>1
  <2> HIDE DEF b
  <2> QED BY <1>0, <1>1, <1>2, <1>3, <2>2, <2>3 DEF Falls
<1> QED BY <1>4, <1>6, <1>10, <1>11, <1>12

LEMMA LevelPasses ==
  ASSUME ProgramOK, NEW t \in Tasks, Held(t), Untouched, Quiet, LevelSkips(t)
  PROVE  Handled(task[t])' /\ Swept(task[t])' /\ Untouched' /\ Quiet'
         /\ Levelled(task[t])' /\ Rises(task[t])' /\ Falls(task[t])'
<1> DEFINE r == task[t]
           s == task'[t]
<1>1. /\ UNCHANGED frameworkVars /\ UNCHANGED installed /\ UNCHANGED nextBundle
      /\ UNCHANGED bundle /\ installed \subseteq BundleIds /\ 0 \notin installed
  BY InstalledIds, InstalledIssued DEF LevelSkips, catalogue, ProgramOK
<1>2. PICK x \in r.todo :
        /\ ~(MustStart(r, x) /\ CanStart(x[2]))
        /\ ~(MustStop(r, x) /\ bundle[x[2]].state = "ACTIVE")
        /\ r.pc = "levels" /\ s.pc = "levels" /\ s.todo = r.todo \ {x}
        /\ s.outer = r.outer /\ s.bundle = r.bundle
        /\ s.requested = r.requested /\ s.down = r.down
  BY SkipEffect
<1>3. /\ r.outer \in {"start", "stop"} /\ r.bundle = 0
      /\ \A d \in BundleIds : AtRest(d)
      /\ \A d \in installed : bundle[d].state # "UNINSTALLED"
      /\ x[2] \in installed /\ x[1] \in Nat \ {0} /\ x[1] = bundle[x[2]].level
      /\ r.outer = "start" => fwState = "STARTING" /\ ~r.down /\ r.requested = StartLevel
      /\ r.outer = "stop" => fwState = "STOPPING" /\ r.requested = 0 /\ r.down
  BY <1>2, AtLevels
<1>4. Handled(task[t])' /\ Swept(task[t])'
  BY <1>1, <1>2, <1>3 DEF Handled, Swept, AtRest, MovingPoints, StartPoints, StopPoints, SweepPoints
<1>5. Untouched' /\ Quiet'
  BY <1>1 DEF Untouched, Quiet, Issued, frameworkVars
<1>6. Levelled(task[t])'
  BY <1>1, <1>2 DEF Held, Levelled, frameworkVars
<1>7. \A d \in installed : Place(d)' = Place(d) /\ (Place(d) = x => x[2] = d)
  BY <1>1, PlaceFields DEF Place
<1>8. Rises(task[t])'
  <2>1. r.outer = "start" => x[1] > StartLevel \/ bundle[x[2]].state = "ACTIVE"
    <3>1. r.outer = "start" /\ bundle[x[2]].state # "ACTIVE" => CanStart(x[2])
      BY <1>1, <1>3 DEF CanStart, AtRest
    <3>2. r.outer = "start" /\ bundle[x[2]].state # "ACTIVE" => ~(x[1] <= StartLevel)
      BY <1>2, <1>3, <3>1 DEF MustStart
    <3> QED BY <1>3, <3>2, FrameworkAssumption
  <2> QED BY <1>1, <1>2, <1>3, <1>7, <2>1 DEF Held, Rises
<1>9. Falls(task[t])'
  <2>1. r.outer = "stop" => bundle[x[2]].state # "ACTIVE"
    BY <1>2, <1>3 DEF MustStop
  <2> QED BY <1>1, <1>2, <1>3, <1>7, <2>1 DEF Held, Falls
<1> QED BY <1>4, <1>5, <1>6, <1>8, <1>9

LEMMA LevelsEndHeld ==
  ASSUME ProgramOK, NEW t \in Tasks, Held(t), Untouched, Quiet, LevelsEnd(t)
  PROVE  Handled(task[t])' /\ Swept(task[t])' /\ Untouched' /\ Quiet'
         /\ Levelled(task[t])' /\ Rises(task[t])' /\ Falls(task[t])'
<1> DEFINE r == task[t]
           s == task'[t]
<1>1. /\ UNCHANGED installed /\ UNCHANGED nextBundle /\ UNCHANGED bundle
      /\ installed \subseteq BundleIds /\ 0 \notin installed
      /\ r.pc = "levels" /\ r.todo = {} /\ active' = target
  BY InstalledIds, InstalledIssued DEF LevelsEnd, At, catalogue, ProgramOK
<1>2. \/ r.outer = "start" /\ fwState' = "ACTIVE" /\ s.pc = "fwStartedEvent"
      \/ r.outer = "stop" /\ fwState' = "RESOLVED" /\ s.pc = "fwStoppedEvent"
  BY AwaitEffect DEF LevelsEnd
<1>3. Carried(r, s)
  BY AwaitEffect DEF LevelsEnd
<1>4. /\ r.bundle = 0 /\ \A d \in BundleIds : AtRest(d)
      /\ \A d \in installed : bundle[d].state # "UNINSTALLED"
  BY <1>1, AtLevels
<1>5. /\ s.outer = r.outer /\ s.bundle = 0 /\ s.todo = {} /\ s.requested = r.requested
      /\ s.down = r.down
  BY <1>1, <1>3, <1>4 DEF Carried
<1>6. Handled(task[t])' /\ Swept(task[t])'
  BY <1>1, <1>2, <1>4, <1>5
     DEF Handled, Swept, AtRest, MovingPoints, StartPoints, StopPoints, SweepPoints
<1>7. Untouched'
  BY <1>1 DEF Untouched, Issued
<1>8. target' = target /\ (r.outer = "start" => target = StartLevel)
      /\ (r.outer = "stop" => target = 0 /\ (r.down <=> StartLevel > 0))
      /\ (r.outer = "start" => r.requested = StartLevel /\ ~r.down)
      /\ (r.outer = "stop" => r.requested = 0)
  BY <1>1 DEF Held, Levelled, LevelsEnd
<1>9. Levelled(task[t])'
  BY <1>1, <1>2, <1>5, <1>8 DEF Levelled
<1>10. Quiet'
  <2>1. r.outer = "stop" /\ StartLevel > 0 => \A d \in installed : bundle[d].state = "RESOLVED"
    BY <1>1, <1>4, <1>8 DEF Held, Falls, AtRest
  <2> QED BY <1>1, <1>2, <2>1 DEF Quiet
<1>11. Rises(task[t])' /\ Falls(task[t])'
  <2>1. r.outer = "stop" /\ r.down => \A d \in installed : bundle[d].state # "ACTIVE"
    BY <1>1, <1>4 DEF Held, Falls
  <2> QED BY <1>1, <1>2, <1>5, <2>1 DEF Rises, Falls
<1> QED BY <1>6, <1>7, <1>9, <1>10, <1>11

LEMMA LevelsEntered ==
  ASSUME ProgramOK, NEW t \in Tasks, Held(t), Untouched, Quiet,
         FwStartingDelivered(t) \/ FwStoppingDelivered(t)
  PROVE  Handled(task[t])' /\ Swept(task[t])' /\ Untouched' /\ Quiet'
         /\ Levelled(task[t])' /\ Rises(task[t])' /\ Falls(task[t])'
<1> DEFINE r == task[t]
           s == task'[t]
           l == IF r.outer = "start" THEN StartLevel ELSE 0
           bundles == IF l = active THEN {} ELSE installed
<1>1. /\ r.pc \in {"fwStartingEvent", "fwStoppingEvent"} /\ r.bundle = 0
      /\ r.outer = IF r.pc = "fwStartingEvent" THEN "start" ELSE "stop"
  BY DEF FwStartingDelivered, FwStoppingDelivered, Awaited, Held, Shape, FrameworkPoints
<1>2. EnterLevels(t, l)
  BY <1>1 DEF FwStartingDelivered, FwStoppingDelivered, Awaited
<1>3. /\ s.pc = "levels" /\ s.outer = r.outer /\ s.bundle = 0
      /\ s.requested = l /\ s.down = IsDown(l)
      /\ s.todo = {<<StartLevelOf(d), d>> : d \in bundles}
      /\ \A d \in BundleIds :
           /\ bundle'[d].state = bundle[d].state
           /\ bundle'[d].context = bundle[d].context
           /\ bundle'[d].activator = bundle[d].activator
           /\ bundle'[d].level = IF d \in bundles THEN StartLevelOf(d) ELSE bundle[d].level
  BY <1>1, <1>2, EnterLevelsEffect
<1>4. /\ UNCHANGED <<fwState, active>> /\ UNCHANGED installed /\ UNCHANGED nextBundle
      /\ target' = l /\ installed \subseteq BundleIds /\ 0 \notin installed
  BY <1>2, InstalledIds, InstalledIssued DEF EnterLevels, catalogue, ProgramOK
<1>5. /\ \A d \in BundleIds : AtRest(d)
      /\ \A d \in installed : bundle[d].state # "UNINSTALLED"
      /\ fwState = IF r.outer = "start" THEN "STARTING" ELSE "STOPPING"
  BY <1>1 DEF Held, Handled, Levelled, MovingPoints, StartPoints, StopPoints, SweepPoints
<1>6. /\ r.outer = "start" => ~IsDown(l)
      /\ r.outer = "stop" => active = StartLevel /\ (IsDown(l) <=> StartLevel > 0)
  <2>1. active \in {0, StartLevel} /\ StartLevel \in Nat
    BY FrameworkAssumption DEF ProgramOK, LevelsOK
  <2>2. r.outer = "stop" => active = StartLevel
    BY <1>1, <1>5 DEF Held, Levelled
  <2> QED BY <1>1, <2>1, <2>2 DEF IsDown
<1> HIDE DEF l
<1>7. Handled(task[t])' /\ Swept(task[t])'
  BY <1>1, <1>3, <1>4, <1>5
     DEF Handled, Swept, AtRest, MovingPoints, StartPoints, StopPoints, SweepPoints
<1>8. Untouched' /\ Quiet'
  BY <1>3, <1>4 DEF Untouched, Quiet, Issued
<1>9. /\ bundles \subseteq installed
      /\ \A x \in s.todo : x[2] \in bundles /\ x = <<bundle'[x[2]].level, x[2]>>
      /\ \A d \in bundles : Place(d)' \in s.todo
      /\ s.todo # {} => bundles = installed
  <2>1. bundles \subseteq installed /\ (bundles # {} => bundles = installed)
    OBVIOUS
  <2> HIDE DEF bundles
  <2>2. \A d \in bundles : bundle'[d].level = StartLevelOf(d)
    BY <1>3, <1>4, <2>1
  <2> QED BY <1>3, <2>1, <2>2 DEF Place
<1>10. r.outer = "stop" => (bundles = IF StartLevel = 0 THEN {} ELSE installed)
  BY <1>1, <1>6 DEF l
<1> HIDE DEF bundles
<1>11. Levelled(task[t])'
  BY <1>1, <1>3, <1>4, <1>5, <1>6, <1>9 DEF Held, Levelled, l
<1>12. Rises(task[t])'
  BY <1>1, <1>3, <1>4, <1>9 DEF Rises
<1>13. Falls(task[t])'
  <2>1. r.outer = "stop" /\ ~IsDown(l) => s.todo = {}
    BY <1>3, <1>6, <1>10, FrameworkAssumption
  <2>2. r.outer = "stop" /\ IsDown(l) => bundles = installed
    BY <1>6, <1>10, FrameworkAssumption
  <2> QED BY <1>1, <1>3, <1>4, <1>9, <2>1, <2>2 DEF Falls
<1> QED BY <1>7, <1>8, <1>11, <1>12, <1>13

-----------------------------------------------------------------------------
(* What a task that is free to call knows.                                 *)
LEMMA FreeKnows ==
  ASSUME ProgramOK, NEW t \in Tasks, Held(t), task[t] = Idle
  PROVE  /\ \A d \in BundleIds : AtRest(d)
         /\ \A d \in installed : bundle[d].state # "UNINSTALLED"
         /\ installed \subseteq BundleIds /\ 0 \notin installed
BY IdleFields, InstalledIds, InstalledIssued
   DEF Held, Handled, MovingPoints, StartPoints, StopPoints, SweepPoints, ProgramOK

LEMMA FrameworkCalled ==
  ASSUME ProgramOK, NEW t \in Tasks, Held(t), Untouched, Quiet,
         \/ CallFrameworkStart(t) \/ CallFrameworkStop(t)
         \/ \E name \in Names : CallInstall(t, name)
  PROVE  Handled(task[t])' /\ Swept(task[t])' /\ Untouched' /\ Quiet'
         /\ Levelled(task[t])' /\ Rises(task[t])' /\ Falls(task[t])'
<1> DEFINE s == task'[t]
<1>1. /\ UNCHANGED <<active, target>> /\ UNCHANGED installed /\ UNCHANGED nextBundle
      /\ UNCHANGED bundle /\ task[t] = Idle
  BY DEF CallFrameworkStart, CallFrameworkStop, CallInstall, Free, catalogue, frameworkVars
<1>2. \/ /\ s.pc = "fwStartingEvent" /\ s.outer = "start" /\ s.bundle = 0 /\ s.todo = {}
         /\ fwState' = "STARTING"
      \/ /\ s.pc = "fwStoppingEvent" /\ s.outer = "stop" /\ s.bundle = 0 /\ s.todo = {}
         /\ ~s.down /\ fwState = "ACTIVE" /\ fwState' = "STOPPING"
      \/ s.pc = "loading" /\ s.outer = "none" /\ UNCHANGED fwState
  BY CallEffect DEF CallFrameworkStart, CallFrameworkStop, CallInstall, frameworkVars
<1>3. Handled(task[t])' /\ Swept(task[t])'
  BY <1>1, <1>2, FreeKnows
     DEF Handled, Swept, AtRest, MovingPoints, StartPoints, StopPoints, SweepPoints
<1>4. Untouched' /\ Quiet'
  BY <1>1, <1>2 DEF Untouched, Quiet, Issued
<1>5. Levelled(task[t])'
  BY <1>1, <1>2 DEF Held, Levelled
<1>6. Rises(task[t])' /\ Falls(task[t])'
  BY <1>2 DEF Rises, Falls
<1> QED BY <1>3, <1>4, <1>5, <1>6

LEMMA BundleCalled ==
  ASSUME ProgramOK, NEW t \in Tasks, Held(t), Untouched, Quiet, NEW b \in BundleIds,
         CallStart(t, b) \/ CallStop(t, b) \/ CallUninstall(t, b)
  PROVE  Handled(task[t])' /\ Swept(task[t])' /\ Untouched' /\ Quiet'
         /\ Levelled(task[t])' /\ Rises(task[t])' /\ Falls(task[t])'
<1> DEFINE s == task'[t]
<1>1. /\ UNCHANGED frameworkVars /\ UNCHANGED installed /\ UNCHANGED nextBundle
      /\ task[t] = Idle /\ s.bundle = b
      /\ s.outer \in {"none", "uninstall"}
      /\ s.outer = "uninstall" => b \in installed
      /\ Issued(b)
  <2>1. CASE CallStart(t, b) \/ CallStop(t, b)
    BY <2>1, CallStartEffect DEF CallStart, CallStop, catalogue
  <2>2. CASE CallUninstall(t, b)
    BY <2>2, CallEffect, InstalledIssued DEF CallUninstall, Free, catalogue
  <2> QED BY <2>1, <2>2
<1>2. \/ /\ s.pc = "startingEvent" /\ CanStart(b) /\ s.prev = bundle[b].state
         /\ \E x : Remade(b, "STARTING", TRUE, x)
      \/ /\ s.pc = "stoppingEvent" /\ bundle[b].state = "ACTIVE" /\ s.prev = bundle[b].state
         /\ Remade(b, "STOPPING", bundle[b].context, bundle[b].activator)
      \/ /\ s.pc = "uninstall" /\ bundle[b].state # "ACTIVE" /\ bundle' = bundle
         /\ b \in installed
  <2>1. CASE CallStart(t, b) \/ CallStop(t, b)
    BY <2>1, CallStartEffect
  <2>2. CASE CallUninstall(t, b)
    BY <2>2, CallEffect, RemadeBy DEF CallUninstall
  <2> QED BY <2>1, <2>2
<1>3. /\ \A d \in BundleIds : AtRest(d)
      /\ \A d \in installed : bundle[d].state # "UNINSTALLED"
      /\ installed \subseteq BundleIds
  BY <1>1, FreeKnows
<1>4. Handled(task[t])' /\ Swept(task[t])'
  <2>1. CASE s.pc = "uninstall"
    BY <1>1, <1>2, <1>3, <2>1
       DEF Handled, Swept, AtRest, MovingPoints, StartPoints, StopPoints, SweepPoints
  <2>2. CASE s.pc # "uninstall"
    BY <1>1, <1>2, <1>3, <2>2, BeginHandled
  <2> QED BY <2>1, <2>2
<1>5. \A d \in BundleIds \ {b} : bundle'[d].state = bundle[d].state
  BY <1>2 DEF Remade
<1>6. Untouched' /\ Quiet'
  <2>1. Untouched'
    BY <1>1, <1>5, UntouchedKeeps
  <2>2. CASE s.pc = "startingEvent"
    <3>1. fwState # "RESOLVED"
      BY <1>2, <2>2 DEF CanStart
    <3> QED BY <1>1, <1>5, <2>1, <3>1, QuietKeeps DEF frameworkVars
  <2>3. CASE s.pc = "stoppingEvent"
    <3>1. bundle[b].state = "ACTIVE"
      BY <1>2, <2>3
    <3> QED BY <1>1, <1>5, <2>1, <3>1, QuietKeeps DEF frameworkVars
  <2>4. CASE s.pc = "uninstall"
    BY <1>1, <1>2, <2>1, <2>4 DEF Quiet, frameworkVars
  <2> QED BY <1>2, <2>2, <2>3, <2>4
<1>7. Levelled(task[t])' /\ Rises(task[t])' /\ Falls(task[t])'
  BY <1>1 DEF Held, Levelled, Rises, Falls, frameworkVars
<1> QED BY <1>4, <1>6, <1>7

LEMMA CatalogueHeld ==
  ASSUME ProgramOK, NEW t \in Tasks, Held(t), Untouched, Quiet,
         Loaded(t) \/ Uninstalled(t) \/ UninstalledDelivered(t)
  PROVE  Handled(task[t])' /\ Swept(task[t])' /\ Untouched' /\ Quiet'
         /\ Levelled(task[t])' /\ Rises(task[t])' /\ Falls(task[t])'
<1> DEFINE r == task[t]
           s == task'[t]
           b == r.bundle
<1>1. UNCHANGED frameworkVars /\ installed \subseteq BundleIds /\ nextBundle \in Nat
  BY InstalledIds DEF Loaded, Uninstalled, UninstalledDelivered, ProgramOK
<1>2. CASE Loaded(t)
  <2> DEFINE n == nextBundle
  <2>1. /\ r.pc = "loading" /\ r.outer = "none" /\ n \in BundleIds
        /\ installed' = installed \union {n} /\ nextBundle' = n + 1
    BY <1>2 DEF Loaded, Awaited, NewBundleId, Held, Shape
  <2>2. s.pc = "installedEvent" /\ s.outer = "none"
    BY <1>2, <2>1, AwaitEffect DEF Loaded, Carried
  <2>3. \A d \in BundleIds : IF d = n THEN bundle'[d].state = "RESOLVED"
                             ELSE bundle'[d] = bundle[d]
    BY <1>2, <2>1 DEF Loaded, NewBundleId, ProgramOK, BundlesOK, Unissued
  <2>4. /\ \A d \in BundleIds : AtRest(d)
        /\ \A d \in installed : bundle[d].state # "UNINSTALLED"
    BY <2>1 DEF Held, Handled, MovingPoints, StartPoints, StopPoints, SweepPoints
  <2>5. installed' \subseteq BundleIds
    BY <1>1, <2>1
  <2> HIDE DEF n
  <2>6. Handled(task[t])' /\ Swept(task[t])'
    BY <2>1, <2>2, <2>3, <2>4, <2>5
       DEF Handled, Swept, AtRest, MovingPoints, StartPoints, StopPoints, SweepPoints
  <2>7. Quiet'
    BY <1>1, <2>1, <2>3, <2>5 DEF Quiet, frameworkVars
  <2>8. Untouched'
    BY <1>1, <2>1, <2>3 DEF Untouched, Issued, n, BundleIds
  <2>9. Levelled(task[t])' /\ Rises(task[t])' /\ Falls(task[t])'
    BY <1>1, <2>2 DEF Held, Levelled, Rises, Falls, frameworkVars
  <2> QED BY <2>6, <2>7, <2>8, <2>9
<1>3. CASE Uninstalled(t)
  <2>1. /\ r.pc = "uninstall" /\ r.outer = "uninstall" /\ b \in installed
        /\ bundle[b].state = "RESOLVED" /\ UNCHANGED installed /\ UNCHANGED nextBundle
    BY <1>3 DEF Uninstalled, At, Held, Shape, Handled, catalogue
  <2>2. s.pc = "uninstalledEvent" /\ s.outer = "uninstall" /\ s.bundle = b
    BY <1>3, <2>1, AwaitEffect DEF Uninstalled, Carried
  <2>3. Remade(b, "UNINSTALLED", bundle[b].context, bundle[b].activator)
    BY <1>1, <1>3, <2>1, RemadeBy DEF Uninstalled
  <2>4. /\ \A d \in BundleIds : AtRest(d)
        /\ \A d \in installed : bundle[d].state # "UNINSTALLED"
    BY <2>1 DEF Held, Handled, MovingPoints, StartPoints, StopPoints, SweepPoints
  <2>5. Handled(task[t])' /\ Swept(task[t])'
    BY <1>1, <2>1, <2>2, <2>3, <2>4
       DEF Handled, Swept, AtRest, Remade, MovingPoints, StartPoints, StopPoints, SweepPoints
  <2>6. /\ b \in BundleIds /\ Issued(b) /\ bundle'[b].state = "UNINSTALLED"
        /\ \A d \in BundleIds \ {b} : bundle'[d].state = bundle[d].state
    BY <2>1, <2>3, InstalledIssued DEF Remade
  <2>7. Untouched' /\ Quiet'
    BY <1>1, <2>1, <2>6, UntouchedKeeps, QuietKeeps DEF frameworkVars
  <2>8. Levelled(task[t])' /\ Rises(task[t])' /\ Falls(task[t])'
    BY <1>1, <2>2 DEF Held, Levelled, Rises, Falls, frameworkVars
  <2> QED BY <2>5, <2>7, <2>8
<1>4. CASE UninstalledDelivered(t)
  <2>1. /\ r.pc = "uninstalledEvent" /\ r.outer = "uninstall" /\ b \in installed
        /\ UNCHANGED nextBundle
    BY <1>4 DEF UninstalledDelivered, Awaited, Held, Shape, Handled
  <2>2. /\ installed' = installed \ {b} /\ Await(t, "unloading")
        /\ bundle' = [bundle EXCEPT ![b].activator = "none"]
    BY <1>4, <2>1 DEF UninstalledDelivered
  <2>3. s.pc = "unloading" /\ s.outer = "uninstall" /\ s.bundle = b
    BY <2>1, <2>2, AwaitEffect DEF Carried
  <2>4. Remade(b, bundle[b].state, bundle[b].context, "none")
    BY <1>1, <2>1, <2>2, RemadeBy
  <2>5. /\ \A d \in BundleIds : AtRest(d)
        /\ \A d \in installed : bundle[d].state = "UNINSTALLED" <=> d = b
    BY <2>1 DEF Held, Handled, MovingPoints, StartPoints, StopPoints, SweepPoints
  <2>6. Handled(task[t])' /\ Swept(task[t])'
    BY <1>1, <2>1, <2>2, <2>3, <2>4, <2>5
       DEF Handled, Swept, AtRest, Remade, MovingPoints, StartPoints, StopPoints, SweepPoints
  <2>7. Untouched' /\ Quiet'
    <3>1. \A d \in BundleIds : bundle'[d].state = bundle[d].state
      BY <2>4 DEF Remade
    <3> QED BY <1>1, <2>1, <2>2, <3>1 DEF Untouched, Quiet, Issued, frameworkVars
  <2>8. Levelled(task[t])' /\ Rises(task[t])' /\ Falls(task[t])'
    BY <1>1, <2>3 DEF Held, Levelled, Rises, Falls, frameworkVars
  <2> QED BY <2>6, <2>7, <2>8
<1> QED BY <1>2, <1>3, <1>4

LEMMA OthersHold ==
  ASSUME OneAtATime, ProgramOK, NEW t \in Tasks, Held(t), Untouched, Quiet,
         Surroundings \/ UNCHANGED vars
  PROVE  Held(t)' /\ Untouched' /\ Quiet'
<1>1. CASE UNCHANGED vars
  <2>1. /\ UNCHANGED <<fwState, active, target>> /\ UNCHANGED <<installed, nextBundle>>
        /\ UNCHANGED bundle /\ UNCHANGED task /\ UNCHANGED <<services, reference>>
    BY <1>1 DEF vars, frameworkVars, catalogue, registryVars
  <2>2. Shape(task[t])' /\ Swept(task[t])'
    BY <2>1 DEF Held, Shape, Swept, Registry!Registered
  <2>3. Handled(task[t])'
    BY <2>1 DEF Held, Handled, AtRest, Issued
  <2>4. Levelled(task[t])' /\ Rises(task[t])' /\ Falls(task[t])'
    BY <2>1 DEF Held, Levelled, Rises, Falls, Place
  <2>5. Untouched' /\ Quiet'
    BY <2>1 DEF Untouched, Quiet, Issued
  <2> QED BY <2>2, <2>3, <2>4, <2>5 DEF Held
<1>2. ASSUME NEW b \in BundleIds, NEW level \in Levels, SetLevel(b, level)
      PROVE  Held(t)' /\ Untouched' /\ Quiet'
  <2> DEFINE r == task[t]
  <2>1. /\ UNCHANGED frameworkVars /\ UNCHANGED installed /\ UNCHANGED nextBundle
        /\ UNCHANGED registryVars /\ UNCHANGED task /\ fwState = "RESOLVED"
    BY <1>2 DEF SetLevel, catalogue
  <2>2. \A d \in BundleIds : /\ bundle'[d].state = bundle[d].state
                             /\ bundle'[d].context = bundle[d].context
                             /\ bundle'[d].activator = bundle[d].activator
    BY <1>2 DEF SetLevel, ProgramOK, BundlesOK, BundleRecords
  <2>3. /\ r.outer # "start"
        /\ r.outer = "stop" => r.pc = "fwStoppedEvent" /\ r.todo = {} /\ r.bundle = 0
    BY <2>1 DEF Held, Shape, Levelled, FrameworkPoints
  <2>4. installed \subseteq BundleIds
    BY InstalledIds DEF ProgramOK
  <2>5. Untouched' /\ Quiet'
    BY <2>1, <2>2, <2>4 DEF Untouched, Quiet, Issued, frameworkVars
  <2>6. Shape(task[t])' /\ Swept(task[t])'
    BY <2>1 DEF Held, Shape, Swept, Registry!Registered, registryVars
  <2>7. Handled(task[t])'
    <3>1. \A d \in BundleIds : AtRest(d)' = AtRest(d)
      BY <2>2 DEF AtRest
    <3>2. r.pc \in MovingPoints \union {"startedEvent", "stoppedEvent", "uninstall"} =>
            r.bundle \in BundleIds
      BY AtPoint DEF BundlePoints, MovingPoints, StartPoints, StopPoints, SweepPoints
    <3> QED BY <2>1, <2>2, <2>4, <3>1, <3>2
        DEF Held, Handled, Issued, MovingPoints, StartPoints, StopPoints, SweepPoints
  <2>8. Levelled(task[t])' /\ Rises(task[t])' /\ Falls(task[t])'
    BY <2>1, <2>3 DEF Held, Levelled, Rises, Falls, frameworkVars
  <2> QED BY <2>5, <2>6, <2>7, <2>8 DEF Held
<1> QED BY <1>1, <1>2 DEF Surroundings, BundleRegisters, BundleUnregisters, OneAtATime

LEMMA NeverResorted ==
  ASSUME ProgramOK, Reg!IInv, ~resorted, [Next]_vars
  PROVE  ~resorted'
<1>1. RegistryMove
  BY RegistryTypes, RegistrySteps
<1> QED BY <1>1 DEF RegistryMove, Registry!Register, Registry!Unregister, registryVars

LEMMA SeqStep ==
  ASSUME OneAtATime, ProgramOK, Reg!IInv, SeqInv, [Next]_vars
  PROVE  SeqInv'
<1>1. PICK t : Tasks = {t}
  BY DEF OneAtATime
<1>2. t \in Tasks /\ Held(t) /\ Untouched /\ Quiet /\ ~resorted
  BY <1>1 DEF SeqInv
<1>3. ASSUME Calls(t) \/ Steps(t)
      PROVE  Held(t)' /\ Untouched' /\ Quiet'
  <2> DEFINE Rest == Handled(task[t])' /\ Swept(task[t])' /\ Untouched' /\ Quiet'
                     /\ Levelled(task[t])' /\ Rises(task[t])' /\ Falls(task[t])'
  <2>1. Shape(task[t])'
    <3>1. Shape(task'[t])
      BY <1>2, <1>3, ShapeStep DEF Held
    <3> QED BY <3>1 DEF Shape
  <2>2. ASSUME Calls(t) PROVE Rest
    BY <1>2, <2>2, FrameworkCalled, BundleCalled DEF Calls
  <2>3. ASSUME Steps(t) PROVE Rest
    BY <1>2, <2>3, StartGoesOn, StopGoesOn, CallEnds, CallReturns, SweepNeverRaises,
       ActivatorMoves, LevelBegins, LevelPasses, LevelsEndHeld, LevelsEntered, CatalogueHeld
       DEF Steps
  <2>4. Rest
    BY <1>3, <2>2, <2>3
  <2> QED BY <2>1, <2>4 DEF Held
<1>4. Held(t)' /\ Untouched' /\ Quiet'
  BY <1>1, <1>2, <1>3, OthersHold DEF Next
<1> QED BY <1>1, <1>2, <1>4, NeverResorted DEF SeqInv

LEMMA SeqStart == Init => SeqInv
<1> SUFFICES ASSUME Init PROVE SeqInv
  OBVIOUS
<1>1. /\ fwState = "RESOLVED" /\ active = 0 /\ target = 0 /\ installed = {} /\ nextBundle = 1
      /\ \A b \in BundleIds : bundle[b] = Unissued
      /\ \A t \in Tasks : task[t] = Idle
      /\ resorted = FALSE
  BY DEF Init, Registry!Init
<1>2. Unissued.state = "RESOLVED"
  BY DEF Unissued
<1>3. ASSUME NEW t \in Tasks PROVE Held(t)
  <2>1. Shape(task[t])
    BY <1>1, IdleFields DEF Shape, StartPoints, StopPoints, SweepPoints, FrameworkPoints
  <2>2. Handled(task[t])
    BY <1>1, <1>2, IdleFields
       DEF Handled, AtRest, MovingPoints, StartPoints, StopPoints, SweepPoints
  <2>3. Swept(task[t]) /\ Levelled(task[t]) /\ Rises(task[t]) /\ Falls(task[t])
    BY <1>1, IdleFields DEF Swept, SweepPoints, Levelled, Rises, Falls
  <2> QED BY <2>1, <2>2, <2>3 DEF Held
<1> QED BY <1>1, <1>2, <1>3 DEF SeqInv, Untouched, Quiet

-----------------------------------------------------------------------------
(* What holds while calls are made one at a time.                          *)
THEOREM SeqInvariance == ASSUME OneAtATime PROVE Spec => []SeqInv
<1>1. Init => SeqInv
  BY SeqStart
<1>2. ProgramOK /\ Reg!IInv /\ SeqInv /\ [Next]_vars => SeqInv'
  BY SeqStep
<1> QED BY <1>1, <1>2, Invariance, PTL DEF Spec

(* One call at a time: an activator is stopped only after its start method *)
(* returned, and is given the context of its bundle.                       *)
THEOREM StopsGetContext == ASSUME OneAtATime PROVE Spec => []StopGetsContext
<1>1. SeqInv => StopGetsContext
  BY DEF SeqInv, Held, Handled, StopGetsContext
<1> QED BY <1>1, SeqInvariance, PTL

(* One call at a time: a stop leaves none of its bundle's services.        *)
THEOREM StoppedOwnNothing == ASSUME OneAtATime PROVE Spec => []StoppedOwnsNothing
<1>1. SeqInv => StoppedOwnsNothing
  BY DEF SeqInv, Held, Swept, StoppedOwnsNothing
<1> QED BY <1>1, SeqInvariance, PTL

(* One call at a time: whatever calls fail, no bundle is left on its way.  *)
THEOREM BundlesAreSettled == ASSUME OneAtATime PROVE Spec => []BundlesSettle
<1>1. SeqInv => BundlesSettle
  <2> SUFFICES ASSUME SeqInv, \A t \in Tasks : task[t] = Idle, NEW b \in BundleIds
               PROVE  AtRest(b)
    BY DEF BundlesSettle, AtRest
  <2>1. PICK t : t \in Tasks
    BY DEF OneAtATime
  <2>2. task[t].pc = "idle" /\ Handled(task[t])
    BY <2>1, IdleFields DEF SeqInv, Held
  <2> QED BY <2>2 DEF Handled, MovingPoints, StartPoints, StopPoints, SweepPoints
<1> QED BY <1>1, SeqInvariance, PTL

(* One call at a time, and a start level above 0: under a framework that   *)
(* is stopped no installed bundle is active.  (With the start level 0 the  *)
(* stop's loop is skipped, as its start's is, and bundles that were        *)
(* started by hand stay active.)                                           *)
THEOREM StoppedIsQuiet ==
  ASSUME OneAtATime, StartLevel > 0 PROVE Spec => []FrameworkStoppedQuiet
<1>1. SeqInv => FrameworkStoppedQuiet
  BY DEF SeqInv, Quiet, FrameworkStoppedQuiet
<1> QED BY <1>1, SeqInvariance, PTL

(* One call at a time: the framework starts its bundles in the order of    *)
(* their levels, and on a level in that of their installation.             *)
THEOREM StartsAreInOrder == ASSUME OneAtATime PROVE Spec => []StartsInLevelOrder
<1>1. ProgramOK /\ SeqInv => StartsInLevelOrder
  <2> SUFFICES ASSUME ProgramOK, SeqInv, NEW t \in Tasks, NEW b \in installed, NEW c \in installed,
                      task[t].outer = "start", task[t].bundle = b,
                      \/ bundle[c].level < bundle[b].level
                      \/ bundle[c].level = bundle[b].level /\ c < b
               PROVE  bundle[c].state = "ACTIVE"
    BY DEF StartsInLevelOrder
  <2>1. b # 0 /\ task[t].pc \notin FrameworkPoints /\ Rises(task[t])
    BY InstalledIssued DEF SeqInv, Held, Shape
  <2>2. /\ \A y \in task[t].todo : Precedes(Place(b), y, FALSE)
        /\ bundle[b].level <= StartLevel
    BY <2>1 DEF Rises
  <2>3. /\ b \in Nat /\ c \in Nat /\ StartLevel \in Nat
        /\ bundle[b].level \in Nat /\ bundle[c].level \in Nat
    BY FrameworkAssumption, LevelsAreNat, InstalledIssued DEF BundleIds
  <2>4. Place(c) \notin task[t].todo
    BY <2>2, <2>3, PlaceFields DEF Precedes
  <2>5. ~(bundle[c].level > StartLevel) /\ c # b
    BY <2>2, <2>3
  <2> QED BY <2>1, <2>4, <2>5 DEF Rises, FrameworkPoints
<1> QED BY <1>1, SeqInvariance, Invariance, PTL

(* One call at a time: the framework stops its bundles from the highest    *)
(* level down, and on a level in the order of their installation.          *)
THEOREM StopsAreInReverse == ASSUME OneAtATime PROVE Spec => []StopsInReverseLevelOrder
<1>1. ProgramOK /\ SeqInv => StopsInReverseLevelOrder
  <2> SUFFICES ASSUME ProgramOK, SeqInv, NEW t \in Tasks, NEW b \in installed, NEW c \in installed,
                      task[t].outer = "stop", task[t].bundle = b,
                      \/ bundle[c].level > bundle[b].level
                      \/ bundle[c].level = bundle[b].level /\ c < b
               PROVE  bundle[c].state # "ACTIVE"
    BY DEF StopsInReverseLevelOrder
  <2>1. b # 0 /\ task[t].pc \notin FrameworkPoints /\ Falls(task[t])
    BY InstalledIssued DEF SeqInv, Held, Shape
  <2>2. task[t].down /\ \A y \in task[t].todo : Precedes(Place(b), y, TRUE)
    BY <2>1 DEF Falls
  <2>3. /\ b \in Nat /\ c \in Nat
        /\ bundle[b].level \in Nat /\ bundle[c].level \in Nat
    BY LevelsAreNat, InstalledIssued DEF BundleIds
  <2>4. Place(c) \notin task[t].todo
    BY <2>2, <2>3, PlaceFields DEF Precedes
  <2>5. c # b
    BY <2>3
  <2> QED BY <2>1, <2>2, <2>4, <2>5 DEF Falls, FrameworkPoints
<1> QED BY <1>1, SeqInvariance, Invariance, PTL

-----------------------------------------------------------------------------
(* The framework implements BundleLifecycle: the steps of the mapping.     *)
(* What of the framework the lifecycle does not see.                       *)
LifecycleSame ==
  /\ (fwState' # "RESOLVED") = (fwState # "RESOLVED")
  /\ UNCHANGED <<installed, nextBundle>>
  /\ \A b \in BundleIds : bundle'[b].state = bundle[b].state

LifecycleStep == [Lifecycle!Next]_(Lifecycle!vars)

LEMMA SameIsStutter == LifecycleSame => LifecycleStep
BY DEF LifecycleSame, LifecycleStep, Lifecycle!vars, Issued

LEMMA StateMoves ==
  ASSUME NEW b \in BundleIds, NEW from, NEW to, bundle[b].state \in from,
         bundle'[b].state \in to, \A d \in BundleIds \ {b} : bundle'[d].state = bundle[d].state,
         (fwState' # "RESOLVED") = (fwState # "RESOLVED"), UNCHANGED <<installed, nextBundle>>
  PROVE  Lifecycle!Moves(b, from, to)
<1>1. [d \in BundleIds |-> bundle'[d].state] =
        [[d \in BundleIds |-> bundle[d].state] EXCEPT ![b] = bundle'[b].state]
  OBVIOUS
<1>2. [d \in BundleIds |-> bundle[d].state][b] \in from
  OBVIOUS
<1>3. {d \in BundleIds : Issued(d)}' = {d \in BundleIds : Issued(d)}
  BY DEF Issued
<1> QED BY <1>1, <1>2, <1>3 DEF Lifecycle!Moves

LEMMA RestIsSettled ==
  ASSUME \A d \in BundleIds : AtRest(d)
  PROVE  Lifecycle!Settled
BY DEF AtRest, Lifecycle!Settled, Lifecycle!Moving

LEMMA EndIsStep ==
  ASSUME NEW b \in BundleIds,
         Lifecycle!StartEnds(b) \/ Lifecycle!StopEnds(b) \/ Lifecycle!Uninstall(b)
  PROVE  LifecycleStep
BY DEF LifecycleStep, Lifecycle!Next

(* The steps the lifecycle does not see.                                   *)
LEMMA UnseenSteps ==
  ASSUME ProgramOK, NEW t \in Tasks, Held(t),
         \/ CallActivatorStart(t) \/ ActivatorRegisters(t) \/ StartedDelivered(t)
         \/ CallActivatorStop(t) \/ \E i \in 1..MaxServices : ActivatorUnregisters(t, i)
         \/ ActivatorStopped(t) \/ Sweep(t) \/ UnregisteringDelivered(t)
         \/ StoppedDelivered(t) \/ LevelSkips(t) \/ FwStartingDelivered(t)
         \/ FwStoppingDelivered(t) \/ FwLastDelivered(t) \/ LoadFails(t)
         \/ InstalledDelivered(t) \/ Unloaded(t) \/ CallFrameworkStop(t)
         \/ \E name \in Names : CallInstall(t, name)
  PROVE  LifecycleStep
<1>1. CASE CallActivatorStart(t) \/ CallActivatorStop(t) \/ ActivatorStopped(t)
  <2>1. \A b \in BundleIds : bundle'[b].state = bundle[b].state
    BY <1>1 DEF CallActivatorStart, CallActivatorStop, ActivatorStopped, WithActivator,
       ProgramOK, BundlesOK, BundleRecords
  <2> QED BY <1>1, <2>1, SameIsStutter
      DEF LifecycleSame, CallActivatorStart, CallActivatorStop, ActivatorStopped,
          frameworkVars, catalogue
<1>2. CASE FwStartingDelivered(t) \/ FwStoppingDelivered(t)
  <2>1. PICK l : EnterLevels(t, l)
    BY <1>2 DEF FwStartingDelivered, FwStoppingDelivered
  <2>2. \A b \in BundleIds : bundle'[b].state = bundle[b].state
    BY <2>1, EnterLevelsEffect
  <2> QED BY <2>1, <2>2, SameIsStutter DEF LifecycleSame, EnterLevels, catalogue
<1>3. CASE CallFrameworkStop(t)
  BY <1>3, SameIsStutter DEF LifecycleSame, CallFrameworkStop, catalogue
<1>4. ASSUME UNCHANGED <<fwState, installed, nextBundle, bundle>> PROVE LifecycleStep
  BY <1>4, SameIsStutter DEF LifecycleSame
<1> QED BY <1>1, <1>2, <1>3, <1>4
    DEF ActivatorRegisters, StartedDelivered, ActivatorUnregisters, Sweep,
        UnregisteringDelivered, StoppedDelivered, LevelSkips, FwLastDelivered, LoadFails,
        InstalledDelivered, Unloaded, CallInstall, frameworkVars, catalogue

(* A bundle's start and stop begin under the conditions of the lifecycle.  *)
LEMMA BeginIsStep ==
  ASSUME ProgramOK, NEW b \in BundleIds, Issued(b), \A d \in BundleIds : AtRest(d),
         UNCHANGED <<fwState, installed, nextBundle>>,
         \/ CanStart(b) /\ \E x : Remade(b, "STARTING", TRUE, x)
         \/ /\ bundle[b].state = "ACTIVE"
            /\ Remade(b, "STOPPING", bundle[b].context, bundle[b].activator)
  PROVE  LifecycleStep
<1>1. Lifecycle!Settled /\ \A d \in BundleIds \ {b} : bundle'[d].state = bundle[d].state
  BY RestIsSettled DEF Remade
<1>2. CASE CanStart(b) /\ \E x : Remade(b, "STARTING", TRUE, x)
  <2>1. /\ bundle[b].state \in {"RESOLVED", "UNINSTALLED"}
        /\ bundle'[b].state \in {"STARTING"} /\ fwState # "RESOLVED"
    BY <1>2 DEF CanStart, AtRest, Remade
  <2>2. Lifecycle!Moves(b, {"RESOLVED", "UNINSTALLED"}, {"STARTING"})
    BY <1>1, <2>1, StateMoves
  <2>3. Lifecycle!Start(b)
    BY <1>1, <2>1, <2>2 DEF Lifecycle!Start
  <2> QED BY <2>3 DEF LifecycleStep, Lifecycle!Next
<1>3. CASE Remade(b, "STOPPING", bundle[b].context, bundle[b].activator) /\ bundle[b].state = "ACTIVE"
  <2>1. bundle[b].state \in {"ACTIVE"} /\ bundle'[b].state \in {"STOPPING"}
    BY <1>3 DEF Remade
  <2>2. Lifecycle!Moves(b, {"ACTIVE"}, {"STOPPING"})
    BY <1>1, <2>1, StateMoves
  <2>3. Lifecycle!Stop(b)
    BY <1>1, <2>2 DEF Lifecycle!Stop
  <2> QED BY <2>3 DEF LifecycleStep, Lifecycle!Next
<1> QED BY <1>2, <1>3

LEMMA BeginSteps ==
  ASSUME ProgramOK, NEW t \in Tasks, Held(t),
         \/ LevelStarts(t) \/ LevelStops(t)
         \/ \E b \in BundleIds : CallStart(t, b) \/ CallStop(t, b) \/ CallUninstall(t, b)
  PROVE  LifecycleStep
<1>1. UNCHANGED <<fwState, installed, nextBundle>>
  BY DEF LevelStarts, LevelStops, CallStart, CallStop, CallUninstall, frameworkVars, catalogue
<1>2. CASE LevelStarts(t) \/ LevelStops(t)
  <2>1. PICK x \in task[t].todo :
          /\ task[t].pc = "levels"
          /\ \/ CanStart(x[2]) /\ Remade(x[2], "STARTING", TRUE, bundle[x[2]].activator)
             \/ /\ bundle[x[2]].state = "ACTIVE"
                /\ Remade(x[2], "STOPPING", bundle[x[2]].context, bundle[x[2]].activator)
    BY <1>2, LevelEffect
  <2>2. x[2] \in BundleIds /\ Issued(x[2]) /\ \A d \in BundleIds : AtRest(d)
    BY <2>1, AtLevels, InstalledIssued
  <2> DEFINE b == x[2]
  <2>3. \/ CanStart(b) /\ \E z : Remade(b, "STARTING", TRUE, z)
        \/ /\ bundle[b].state = "ACTIVE"
           /\ Remade(b, "STOPPING", bundle[b].context, bundle[b].activator)
    BY <2>1
  <2>4. b \in BundleIds /\ Issued(b)
    BY <2>2
  <2> HIDE DEF b
  <2> QED BY <1>1, <2>2, <2>3, <2>4, BeginIsStep
<1>3. ASSUME NEW b \in BundleIds, CallStart(t, b) \/ CallStop(t, b) PROVE LifecycleStep
  <2>1. Issued(b) /\ \A d \in BundleIds : AtRest(d)
    BY <1>3, CallStartEffect, FreeKnows
  <2>2. \/ CanStart(b) /\ \E z : Remade(b, "STARTING", TRUE, z)
        \/ /\ bundle[b].state = "ACTIVE"
           /\ Remade(b, "STOPPING", bundle[b].context, bundle[b].activator)
    BY <1>3, CallStartEffect
  <2> QED BY <1>1, <2>1, <2>2, BeginIsStep
<1>4. ASSUME NEW b \in BundleIds, CallUninstall(t, b) PROVE LifecycleStep
  <2>1. b \in installed /\ task[t] = Idle
    BY <1>4 DEF CallUninstall, Free
  <2>2. Issued(b) /\ \A d \in BundleIds : AtRest(d)
    BY <2>1, InstalledIssued, FreeKnows
  <2>3. CASE bundle' = bundle
    BY <1>1, <2>3, SameIsStutter DEF LifecycleSame
  <2>4. CASE bundle' # bundle
    <3>1. bundle[b].state = "ACTIVE" /\ bundle' = [bundle EXCEPT ![b].state = "STOPPING"]
      BY <1>4, <2>4, CallEffect
    <3>2. Remade(b, "STOPPING", bundle[b].context, bundle[b].activator)
      BY <3>1, RemadeBy
    <3> QED BY <1>1, <2>2, <3>1, <3>2, BeginIsStep
  <2> QED BY <2>3, <2>4
<1> QED BY <1>2, <1>3, <1>4

(* A start, a stop and an uninstallation end, whatever their outcome.      *)
LEMMA EndSteps ==
  ASSUME ProgramOK, NEW t \in Tasks, Held(t),
         \/ ActivatorStarted(t) \/ ActivatorStartFails(t)
         \/ SweepEnd(t) \/ ActivatorStopFails(t) \/ Uninstalled(t)
  PROVE  LifecycleStep
<1> DEFINE r == task[t]
<1>1. /\ UNCHANGED <<fwState, installed, nextBundle>> /\ r.bundle \in BundleIds
      /\ r.pc \in {"activating", "deactivating", "sweep", "uninstall"}
  BY AtPoint DEF ActivatorStarted, ActivatorStartFails, SweepEnd, ActivatorStopFails, Uninstalled,
     frameworkVars, catalogue, Awaited, At, BundlePoints
<1>0. PICK b \in BundleIds : b = r.bundle
  BY <1>1
<1>2. CASE ActivatorStarted(t) \/ ActivatorStartFails(t)
  <2>1. r.pc = "activating"
    BY <1>2 DEF ActivatorStarted, ActivatorStartFails, Awaited
  <2>2. bundle[b].state \in {"STARTING"} /\ r.prev \in {"RESOLVED", "UNINSTALLED"}
    BY <1>0, <2>1 DEF Held, Handled, StartPoints
  <2>3. \E s \in {"ACTIVE", "RESOLVED", "UNINSTALLED"} :
          \E a : Remade(b, s, bundle[b].context, a)
    BY <1>0, <1>1, <1>2, <2>2, RemadeBy DEF ActivatorStarted, ActivatorStartFails, RestoredState
  <2>4. /\ bundle'[b].state \in {"ACTIVE", "RESOLVED", "UNINSTALLED"}
        /\ \A d \in BundleIds \ {b} : bundle'[d].state = bundle[d].state
    BY <1>1, <2>3 DEF Remade
  <2>5. bundle'[b].state \in
          {"ACTIVE"} \union (Lifecycle!States \ {"ACTIVE", "STARTING", "STOPPING"})
    BY <2>4 DEF Lifecycle!States
  <2>6. Lifecycle!StartEnds(b)
    BY <1>1, <2>2, <2>4, <2>5, StateMoves DEF Lifecycle!StartEnds
  <2> QED BY <1>1, <2>6, EndIsStep
<1>3. CASE SweepEnd(t) \/ ActivatorStopFails(t)
  <2>1. r.pc \in {"deactivating", "sweep"} /\ (ActivatorStopFails(t) => r.pc = "deactivating")
    BY <1>3 DEF SweepEnd, ActivatorStopFails, Awaited, At
  <2>2. /\ bundle[b].state \in {"STOPPING"}
        /\ ActivatorStopFails(t) => r.prev = "ACTIVE"
    BY <1>0, <2>1 DEF Held, Handled, StopPoints, SweepPoints
  <2>3. \E s \in {"RESOLVED", "ACTIVE"} : \E c, a : Remade(b, s, c, a)
    BY <1>0, <1>1, <1>3, <2>2, RemadeBy DEF SweepEnd, ActivatorStopFails, RestoredState
  <2>4. /\ bundle'[b].state \in {"RESOLVED", "ACTIVE"}
        /\ \A d \in BundleIds \ {b} : bundle'[d].state = bundle[d].state
    BY <1>1, <2>3 DEF Remade
  <2>5. Lifecycle!StopEnds(b)
    BY <1>1, <2>2, <2>4, StateMoves DEF Lifecycle!StopEnds
  <2> QED BY <1>1, <2>5, EndIsStep
<1>4. CASE Uninstalled(t)
  <2>1. r.pc = "uninstall" /\ r.outer = "uninstall"
    BY <1>4 DEF Uninstalled, At, Held, Shape
  <2>2. b \in installed /\ bundle[b].state \in {"RESOLVED"} /\ \A d \in BundleIds : AtRest(d)
    BY <1>0, <2>1 DEF Held, Handled, MovingPoints, StartPoints, StopPoints, SweepPoints
  <2>3. Remade(b, "UNINSTALLED", bundle[b].context, bundle[b].activator)
    BY <1>0, <1>1, <1>4, RemadeBy DEF Uninstalled
  <2>4. /\ bundle'[b].state \in {"UNINSTALLED"}
        /\ \A d \in BundleIds \ {b} : bundle'[d].state = bundle[d].state
    BY <1>1, <2>3 DEF Remade
  <2>5. Lifecycle!Moves(b, {"RESOLVED"}, {"UNINSTALLED"})
    BY <1>1, <2>2, <2>4, StateMoves
  <2>6. Lifecycle!Uninstall(b)
    BY <2>2, <2>5, RestIsSettled DEF Lifecycle!Uninstall
  <2> QED BY <1>1, <2>6, EndIsStep
<1> QED BY <1>2, <1>3, <1>4

(* The framework goes up and down, and its catalogue changes.              *)
LEMMA FrameworkSteps ==
  ASSUME StartLevel > 0, ProgramOK, NEW t \in Tasks, Held(t), Untouched,
         CallFrameworkStart(t) \/ LevelsEnd(t) \/ Loaded(t) \/ UninstalledDelivered(t)
  PROVE  LifecycleStep
<1>1. CASE CallFrameworkStart(t)
  <2>1. fwState' = "STARTING" /\ UNCHANGED <<installed, nextBundle, bundle>>
    BY <1>1 DEF CallFrameworkStart, catalogue
  <2>2. CASE fwState = "RESOLVED"
    <3>1. Lifecycle!Up
      BY <2>1, <2>2 DEF Lifecycle!Up, Issued
    <3> QED BY <3>1 DEF LifecycleStep, Lifecycle!Next
  <2>3. CASE fwState # "RESOLVED"
    BY <2>1, <2>3, SameIsStutter DEF LifecycleSame
  <2> QED BY <2>2, <2>3
<1>2. CASE LevelsEnd(t)
  <2>1. /\ UNCHANGED <<installed, nextBundle, bundle>> /\ task[t].pc = "levels"
        /\ task[t].todo = {}
        /\ \/ task[t].outer = "start" /\ fwState' = "ACTIVE"
           \/ task[t].outer = "stop" /\ fwState' = "RESOLVED"
    BY <1>2 DEF LevelsEnd, At, catalogue
  <2>2. /\ \A d \in BundleIds : AtRest(d)
        /\ fwState # "RESOLVED" /\ task[t].bundle = 0 /\ installed \subseteq BundleIds
        /\ 0 \notin installed
    BY <2>1, AtLevels, InstalledIds, InstalledIssued DEF ProgramOK
  <2>3. CASE task[t].outer = "start"
    BY <2>1, <2>2, <2>3, SameIsStutter DEF LifecycleSame
  <2>4. CASE task[t].outer = "stop"
    <3>1. task[t].down
      BY <2>1, <2>4 DEF Held, Levelled
    <3>2. \A d \in installed : bundle[d].state # "ACTIVE"
      BY <2>1, <2>2, <2>4, <3>1 DEF Held, Falls
    <3>3. Lifecycle!Down
      BY <2>1, <2>2, <2>4, <3>2, RestIsSettled DEF Lifecycle!Down, Issued
    <3> QED BY <3>3 DEF LifecycleStep, Lifecycle!Next
  <2> QED BY <2>1, <2>3, <2>4
<1>3. CASE Loaded(t)
  <2> DEFINE n == nextBundle
  <2>1. /\ n \in BundleIds /\ nextBundle' = n + 1 /\ installed' = installed \union {n}
        /\ UNCHANGED fwState /\ ~Issued(n)
    BY <1>3 DEF Loaded, NewBundleId, frameworkVars, Issued, BundleIds
  <2>2. \A d \in BundleIds : bundle'[d].state = bundle[d].state
    BY <1>3, <2>1 DEF Loaded, NewBundleId, Untouched, Unissued, ProgramOK, BundlesOK
  <2>3. {d \in BundleIds : Issued(d)}' = {d \in BundleIds : Issued(d)} \union {n}
    BY <2>1 DEF Issued, BundleIds
  <2>4. [d \in BundleIds |-> bundle'[d].state] = [d \in BundleIds |-> bundle[d].state]
    BY <2>2
  <2>5. PICK m \in BundleIds : m = n
    BY <2>1
  <2> HIDE DEF n
  <2>6. Lifecycle!Install(m)
    BY <2>1, <2>3, <2>4, <2>5 DEF Lifecycle!Install
  <2> QED BY <2>6 DEF LifecycleStep, Lifecycle!Next
<1>4. CASE UninstalledDelivered(t)
  <2>1. PICK b : b = task[t].bundle
    OBVIOUS
  <2>2. task[t].pc = "uninstalledEvent" /\ b \in installed /\ bundle[b].state = "UNINSTALLED"
    BY <1>4, <2>1 DEF UninstalledDelivered, Awaited, Held, Shape, Handled
  <2>3. /\ installed' = installed \ {b} /\ UNCHANGED <<fwState, nextBundle>>
        /\ bundle' = [bundle EXCEPT ![b].activator = "none"]
    BY <1>4, <2>1, <2>2 DEF UninstalledDelivered, frameworkVars
  <2>4. b \in BundleIds
    BY <2>2, InstalledIds DEF ProgramOK
  <2>5. \A d \in BundleIds : bundle'[d].state = bundle[d].state
    BY <2>3 DEF ProgramOK, BundlesOK, BundleRecords
  <2>6. [d \in BundleIds |-> bundle'[d].state] = [d \in BundleIds |-> bundle[d].state]
    BY <2>5
  <2>7. Lifecycle!Forget(b)
    BY <2>2, <2>3, <2>4, <2>6 DEF Lifecycle!Forget, Issued
  <2> QED BY <2>4, <2>7 DEF LifecycleStep, Lifecycle!Next
<1> QED BY <1>1, <1>2, <1>3, <1>4

LEMMA MapsToLifecycle ==
  ASSUME OneAtATime, StartLevel > 0, ProgramOK, SeqInv, [Next]_vars
  PROVE  LifecycleStep
<1>1. ASSUME NEW t \in Tasks, Calls(t) \/ Steps(t) PROVE LifecycleStep
  <2>1. Held(t) /\ Untouched
    BY DEF SeqInv
  <2>2. ASSUME Calls(t) PROVE LifecycleStep
    BY <2>1, <2>2, UnseenSteps, BeginSteps, FrameworkSteps DEF Calls
  <2>3. ASSUME Steps(t) PROVE LifecycleStep
    BY <2>1, <2>3, UnseenSteps, BeginSteps, EndSteps, FrameworkSteps, SweepNeverRaises DEF Steps
  <2> QED BY <1>1, <2>2, <2>3
<1>2. CASE UNCHANGED vars
  BY <1>2, SameIsStutter DEF vars, frameworkVars, catalogue, LifecycleSame
<1>3. ASSUME NEW b \in BundleIds, NEW level \in Levels, SetLevel(b, level) PROVE LifecycleStep
  <2>1. \A d \in BundleIds : bundle'[d].state = bundle[d].state
    BY <1>3 DEF SetLevel, ProgramOK, BundlesOK, BundleRecords
  <2> QED BY <1>3, <2>1, SameIsStutter DEF SetLevel, frameworkVars, catalogue, LifecycleSame
<1> QED BY <1>1, <1>2, <1>3
    DEF Next, Surroundings, BundleRegisters, BundleUnregisters, OneAtATime

(* One call at a time, and a start level above 0: the framework implements *)
(* the life of its bundles.  Each of its steps is a step of BundleLifecycle*)
(* or one that BundleLifecycle does not see.                               *)
THEOREM LifecycleImplemented ==
  ASSUME OneAtATime, StartLevel > 0 PROVE Spec => ImplementsLifecycle
<1>1. Init => Lifecycle!Init
  <2> SUFFICES ASSUME Init PROVE Lifecycle!Init
    OBVIOUS
  <2>1. /\ fwState = "RESOLVED" /\ installed = {} /\ nextBundle = 1
        /\ \A b \in BundleIds : bundle[b].state = "RESOLVED"
    BY DEF Init, Unissued
  <2>2. {b \in BundleIds : Issued(b)} = {}
    BY <2>1 DEF Issued, BundleIds
  <2> QED BY <2>1, <2>2 DEF Lifecycle!Init
<1>2. ProgramOK /\ SeqInv /\ [Next]_vars => [Lifecycle!Next]_(Lifecycle!vars)
  BY MapsToLifecycle DEF LifecycleStep
<1> QED BY <1>1, <1>2, Invariance, SeqInvariance, PTL DEF Spec, ImplementsLifecycle, Lifecycle!Spec

=============================================================================
