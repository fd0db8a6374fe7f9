-------------------------- MODULE StandaloneProofs --------------------------
(***************************************************************************)
(* Proofs about the three components that use no other one: the task pool  *)
(* (TaskPool.tla), component declarations (Components.tla) and queries     *)
(* (Query.tla, QueryMatch.tla).  Each part is about one specification,     *)
(* PoolSpec, CdiSpec and QuerySpec, and none uses the variables of another.*)
(*                                                                         *)
(* Pool: the queue's count of unfinished elements is the length of the     *)
(* queue and the number of workers in a handler: when it comes to zero,    *)
(* nothing that was enqueued is left but what has finished.                *)
(*                                                                         *)
(* Declarations: a component that is complete was prepared from a class    *)
(* that exists, and the methods of a class that exists keep their marks.   *)
(*                                                                         *)
(* Queries: the stack is as deep as the parentheses of the text so far;    *)
(* where the text is a written form, it holds the groups the parser is in, *)
(* each with the parts before, and what is parsed selects what is written. *)
(***************************************************************************)
EXTENDS TaskPool, Components, QueryMatch, BisectProofs

BusyWorkers == {w \in Workers : Busy(w)}

(***************************************************************************)
(* The inductive invariant of the task pool.                               *)
(***************************************************************************)
PoolTypes ==
    /\ loop_event \in BOOLEAN
    /\ tasks \in Seq(Tasks \cup {Sentinel})
    /\ unfinished \in Nat
    /\ starts \in 0 .. MaxStarts
    /\ worker \in [Workers -> {"none", "get", "ended"} \cup Tasks]
    /\ stopper \in {"none", "join", "joined", "stopped"}
    /\ stopper # "none" => loop_event
    /\ \A w \in Workers : w[1] > starts => worker[w] = "none"

Counted == unfinished = Len(tasks) + Cardinality(BusyWorkers)

\* No task that stop was promised is lost.
Kept == promised \subseteq Enqueued

\* Sentinels are put by stop, and are no tasks.
SentinelsApart ==
    /\ Sentinel \notin promised \cup finished
    /\ Sentinel \in ToSet(tasks) => loop_event

PoolInv == PoolTypes /\ Counted /\ Kept /\ SentinelsApart /\ StopDrains /\ WorkersGone

(***************************************************************************)
(* The workers in a handler.                                               *)
(***************************************************************************)
LEMMA BusyAreFinite == IsFiniteSet(BusyWorkers) /\ Cardinality(BusyWorkers) \in Nat
<1>1. IsFiniteSet(1 .. MaxStarts) /\ IsFiniteSet(1 .. MaxWorkers)
  BY FS_Interval, PoolAssumption
<1>2. IsFiniteSet(Workers)
  BY <1>1, FS_Product DEF Workers
<1>3. BusyWorkers \in SUBSET Workers
  BY DEF BusyWorkers
<1>4. IsFiniteSet(BusyWorkers)
  BY <1>2, <1>3, FS_Subset
<1> QED BY <1>4, FS_CardinalityType

(***************************************************************************)
(* The elements of the queue.                                              *)
(***************************************************************************)
LEMMA TailElements ==
    ASSUME NEW S, NEW s \in Seq(S), s # <<>>
    PROVE  ToSet(s) = ToSet(Tail(s)) \cup {Head(s)}
<1> DEFINE r == Tail(s)
<1>1. /\ DOMAIN s = 1 .. Len(s) /\ DOMAIN r = 1 .. Len(r) /\ Len(s) \in Nat \ {0}
      /\ Len(r) = Len(s) - 1 /\ Head(s) = s[1]
      /\ \A i \in 1 .. Len(r) : r[i] = s[i + 1]
  BY HeadTailProperties, LenProperties, EmptySeq
<1>2. ASSUME NEW x \in ToSet(s)
      PROVE  x \in ToSet(r) \cup {s[1]}
  <2>1. PICK i \in 1 .. Len(s) : x = s[i]
    BY <1>1, <1>2 DEF ToSet
  <2>2. CASE i = 1
    BY <2>1, <2>2
  <2>3. CASE i # 1
    <3>1. i - 1 \in DOMAIN r /\ r[i - 1] = s[i]
      BY <1>1, <2>3
    <3> QED BY <2>1, <3>1 DEF ToSet
  <2> QED BY <2>2, <2>3
<1>3. ASSUME NEW x \in ToSet(r) \cup {s[1]}
      PROVE  x \in ToSet(s)
  <2>1. PICK i \in 1 .. Len(s) : x = s[i]
    <3>1. CASE x = s[1]
      BY <1>1, <3>1
    <3>2. CASE x \in ToSet(r)
      <4>1. PICK j \in 1 .. Len(r) : x = r[j]
        BY <1>1, <3>2 DEF ToSet
      <4> QED BY <1>1, <4>1
    <3> QED BY <1>3, <3>1, <3>2
  <2> QED BY <1>1, <2>1 DEF ToSet
<1> QED BY <1>1, <1>2, <1>3

LEMMA ConcatElements ==
    ASSUME NEW S, NEW s \in Seq(S), NEW r \in Seq(S)
    PROVE  ToSet(s \o r) = ToSet(s) \cup ToSet(r)
<1>1. /\ DOMAIN s = 1 .. Len(s) /\ DOMAIN r = 1 .. Len(r)
      /\ Len(s) \in Nat /\ Len(r) \in Nat
  BY LenProperties
<1>2. /\ DOMAIN (s \o r) = 1 .. Len(s) + Len(r)
      /\ \A i \in 1 .. Len(s) + Len(r) :
            (s \o r)[i] = IF i <= Len(s) THEN s[i] ELSE r[i - Len(s)]
  BY ConcatProperties, LenProperties
<1>3. ASSUME NEW x \in ToSet(s \o r)
      PROVE  x \in ToSet(s) \cup ToSet(r)
  <2>1. PICK i \in 1 .. Len(s) + Len(r) : x = (s \o r)[i]
    BY <1>2, <1>3 DEF ToSet
  <2>2. CASE i <= Len(s)
    BY <1>1, <1>2, <2>1, <2>2 DEF ToSet
  <2>3. CASE ~(i <= Len(s))
    <3>1. i - Len(s) \in DOMAIN r /\ x = r[i - Len(s)]
      BY <1>1, <1>2, <2>1, <2>3
    <3> QED BY <3>1 DEF ToSet
  <2> QED BY <2>2, <2>3
<1>4. ASSUME NEW x \in ToSet(s)
      PROVE  x \in ToSet(s \o r)
  <2>1. PICK i \in 1 .. Len(s) : x = s[i]
    BY <1>1, <1>4 DEF ToSet
  <2>2. i \in 1 .. Len(s) + Len(r) /\ (s \o r)[i] = x
    BY <1>1, <1>2, <2>1
  <2> QED BY <1>2, <2>2 DEF ToSet
<1>5. ASSUME NEW x \in ToSet(r)
      PROVE  x \in ToSet(s \o r)
  <2>1. PICK i \in 1 .. Len(r) : x = r[i]
    BY <1>1, <1>5 DEF ToSet
  <2>2. i + Len(s) \in 1 .. Len(s) + Len(r) /\ (s \o r)[i + Len(s)] = x
    BY <1>1, <1>2, <2>1
  <2> QED BY <1>2, <2>2 DEF ToSet
<1> QED BY <1>3, <1>4, <1>5

(***************************************************************************)
(* Each step of a worker and of stop.                                      *)
(***************************************************************************)
\* A worker that takes a task leaves the queue one shorter and is busy with it.
LEMMA TakeTaskKeeps ==
    ASSUME PoolInv, NEW w \in Workers, TakeTask(w)
    PROVE  PoolInv'
<1> DEFINE task == Head(tasks)
<1>1. task \in Tasks /\ tasks' = Tail(tasks) /\ Len(tasks) = Len(tasks') + 1
      /\ tasks' \in Seq(Tasks \cup {Sentinel}) /\ Len(tasks') \in Nat
  BY HeadTailProperties, LenProperties DEF PoolInv, PoolTypes, TakeTask
<1>2. worker' = [worker EXCEPT ![w] = task] /\ worker[w] = "get"
  BY DEF TakeTask
<1>3. PoolTypes'
  BY <1>1, <1>2 DEF PoolInv, PoolTypes, TakeTask
<1>4. BusyWorkers' = BusyWorkers \cup {w} /\ w \notin BusyWorkers
  BY <1>1, <1>2, PoolAssumption DEF PoolInv, PoolTypes, BusyWorkers, Busy
<1>5. Cardinality(BusyWorkers') = Cardinality(BusyWorkers) + 1
  BY <1>4, BusyAreFinite, FS_AddElement
<1>6. Counted'
  BY <1>1, <1>5, BusyAreFinite DEF PoolInv, Counted, PoolTypes, TakeTask
<1>7. ToSet(tasks) = ToSet(tasks') \cup {task}
  BY <1>1, TailElements DEF PoolInv, PoolTypes, TakeTask
<1>8. Running' = Running \cup {task}
  BY <1>1, <1>2, PoolAssumption DEF PoolInv, PoolTypes, Running
<1>9. Kept'
  BY <1>7, <1>8 DEF PoolInv, Kept, Enqueued, TakeTask
<1>10. SentinelsApart'
  BY <1>7 DEF PoolInv, SentinelsApart, TakeTask
<1>11. StopDrains' /\ WorkersGone'
  BY <1>2 DEF PoolInv, PoolTypes, StopDrains, WorkersGone, TakeTask, Current
<1> QED BY <1>3, <1>6, <1>9, <1>10, <1>11 DEF PoolInv

\* task_done wakes stop when the count comes to zero: then nothing is in the queue and nobody
\* in a handler, and all that was promised has finished.
LEMMA DoneDrains ==
    ASSUME PoolInv, TaskDone, Counted', Kept', unfinished \in Nat,
           tasks' \in Seq(Tasks \cup {Sentinel}),
           IsFiniteSet(BusyWorkers'), Cardinality(BusyWorkers') \in Nat,
           worker' \in [Workers -> {"none", "get", "ended"} \cup Tasks],
           finished \subseteq finished', promised' = promised
    PROVE  StopDrains'
<1>1. CASE stopper \in {"joined", "stopped"}
  BY <1>1 DEF PoolInv, StopDrains
<1>2. CASE stopper = "join" /\ unfinished = 1
  <2>1. Len(tasks') = 0 /\ Cardinality(BusyWorkers') = 0
    BY <1>2, LenProperties DEF TaskDone, Counted
  <2>2. tasks' = <<>> /\ BusyWorkers' = {}
    BY <2>1, EmptySeq, FS_EmptySet
  <2>3. ToSet(tasks') = {}
    BY <2>2 DEF ToSet
  <2>4. Running' = {}
    <3>1. ASSUME NEW x \in Running' PROVE FALSE
      <4>1. PICK w \in Workers : worker'[w] = x /\ x \in Tasks
        BY <3>1 DEF Running
      <4>2. w \in BusyWorkers'
        BY <4>1 DEF BusyWorkers, Busy
      <4> QED BY <4>2, <2>2
    <3> QED BY <3>1
  <2> QED BY <2>3, <2>4 DEF Kept, Enqueued, StopDrains
<1>3. CASE stopper \notin {"joined", "stopped"} /\ ~(stopper = "join" /\ unfinished = 1)
  BY <1>3 DEF TaskDone, StopDrains
<1> QED BY <1>1, <1>2, <1>3

\* A worker that takes a sentinel ends.
LEMMA TakeSentinelKeeps ==
    ASSUME PoolInv, NEW w \in Workers, TakeSentinel(w)
    PROVE  PoolInv'
<1>1. /\ Head(tasks) = Sentinel /\ tasks' = Tail(tasks) /\ Len(tasks) = Len(tasks') + 1
      /\ tasks' \in Seq(Tasks \cup {Sentinel}) /\ Len(tasks') \in Nat
  BY HeadTailProperties, LenProperties DEF PoolInv, PoolTypes, TakeSentinel
<1>2. worker' = [worker EXCEPT ![w] = "ended"] /\ worker[w] = "get"
  BY DEF TakeSentinel
<1>3. BusyWorkers' = BusyWorkers /\ Running' = Running
  <2>1. BusyWorkers' = BusyWorkers
    BY <1>2, PoolAssumption DEF PoolInv, PoolTypes, BusyWorkers, Busy
  <2>2. ASSUME NEW x \in Tasks
        PROVE  (\E v \in Workers : worker'[v] = x) <=> (\E v \in Workers : worker[v] = x)
    BY <1>2, PoolAssumption DEF PoolInv, PoolTypes
  <2> QED BY <2>1, <2>2 DEF Running
<1>4. Counted' /\ unfinished' \in Nat
  BY <1>1, <1>3, BusyAreFinite DEF PoolInv, PoolTypes, Counted, TakeSentinel, TaskDone
<1>5. PoolTypes'
  BY <1>1, <1>2, <1>4 DEF PoolInv, PoolTypes, TakeSentinel, TaskDone
<1>6. ToSet(tasks) = ToSet(tasks') \cup {Sentinel}
  BY <1>1, TailElements DEF PoolInv, PoolTypes, TakeSentinel
<1>7. Kept'
  <2>1. Sentinel \notin promised
    BY DEF PoolInv, SentinelsApart
  <2> QED BY <1>3, <1>6, <2>1 DEF PoolInv, Kept, Enqueued, TakeSentinel
<1>8. StopDrains'
  BY <1>1, <1>3, <1>4, <1>5, <1>7, BusyAreFinite, DoneDrains
  DEF PoolInv, PoolTypes, TakeSentinel
<1>9. WorkersGone'
  BY <1>2 DEF PoolInv, PoolTypes, WorkersGone, TakeSentinel, TaskDone, Current
<1>10. SentinelsApart'
  BY <1>6 DEF PoolInv, SentinelsApart, TakeSentinel
<1> QED BY <1>4, <1>5, <1>7, <1>8, <1>9, <1>10 DEF PoolInv

\* A handler comes to its end, in whatever way, and its worker goes on or ends.
LEMMA HandlerEndKeeps ==
    ASSUME PoolInv, NEW w \in Workers, Busy(w), NEW next \in {"get", "ended"},
           worker' = [worker EXCEPT ![w] = next], finished' = finished \cup {worker[w]},
           TaskDone, UNCHANGED <<loop_event, tasks, starts, promised>>
    PROVE  PoolInv'
<1>1. BusyWorkers' = BusyWorkers \ {w} /\ w \in BusyWorkers
  BY PoolAssumption DEF PoolInv, PoolTypes, BusyWorkers, Busy
<1>2. Cardinality(BusyWorkers) = Cardinality(BusyWorkers') + 1
      /\ IsFiniteSet(BusyWorkers') /\ Cardinality(BusyWorkers') \in Nat
  <2>1. IsFiniteSet(BusyWorkers') /\ Cardinality(BusyWorkers') = Cardinality(BusyWorkers) - 1
    BY <1>1, BusyAreFinite, FS_RemoveElement
  <2>2. Cardinality(BusyWorkers') \in Nat
    BY <2>1, FS_CardinalityType
  <2> QED BY <2>1, <2>2, BusyAreFinite
<1>3. Counted' /\ unfinished' \in Nat
  BY <1>2, LenProperties DEF PoolInv, PoolTypes, Counted, TaskDone
<1>4. PoolTypes'
  BY <1>3, PoolAssumption DEF PoolInv, PoolTypes, TaskDone, Busy
<1>5. Running \subseteq Running' \cup {worker[w]}
  <2>1. ASSUME NEW v \in Workers, v # w PROVE worker'[v] = worker[v]
    BY <2>1 DEF PoolInv, PoolTypes
  <2> QED BY <2>1 DEF Running
<1>6. Kept'
  BY <1>5 DEF PoolInv, Kept, Enqueued
<1>7. StopDrains'
  BY <1>2, <1>3, <1>4, <1>6, DoneDrains DEF PoolInv, PoolTypes
<1>8. WorkersGone'
  BY PoolAssumption DEF PoolInv, PoolTypes, WorkersGone, TaskDone, Current, Busy
<1>9. SentinelsApart'
  BY PoolAssumption DEF PoolInv, SentinelsApart, Busy
<1> QED BY <1>3, <1>4, <1>6, <1>7, <1>8, <1>9 DEF PoolInv

LEMMA WorkKeeps ==
    ASSUME PoolInv, NEW w \in Workers, Work(w)
    PROVE  PoolInv'
<1>1. CASE TakeTask(w)
  BY <1>1, TakeTaskKeeps
<1>2. CASE TakeSentinel(w)
  BY <1>2, TakeSentinelKeeps
<1>3. CASE HandlerReturns(w)
  BY <1>3, HandlerEndKeeps DEF HandlerReturns
<1>4. CASE HandlerRaises(w)
  BY <1>4, HandlerEndKeeps DEF HandlerRaises
<1>5. CASE HandlerCancelled(w)
  BY <1>5, HandlerEndKeeps DEF HandlerCancelled
<1> QED BY <1>1, <1>2, <1>3, <1>4, <1>5 DEF Work

LEMMA EnqueueKeeps ==
    ASSUME PoolInv, NEW task \in Tasks, Enqueue(task)
    PROVE  PoolInv'
<1>1. tasks' \in Seq(Tasks \cup {Sentinel}) /\ Len(tasks') = Len(tasks) + 1
      /\ Len(tasks) \in Nat
  BY AppendProperties, LenProperties DEF PoolInv, PoolTypes, Enqueue
<1>2. BusyWorkers' = BusyWorkers /\ Running' = Running
  BY DEF Enqueue, BusyWorkers, Busy, Running
<1>3. PoolTypes'
  BY <1>1 DEF PoolInv, PoolTypes, Enqueue
<1>4. Counted'
  BY <1>1, <1>2, BusyAreFinite DEF PoolInv, PoolTypes, Counted, Enqueue
<1>5. ToSet(tasks') = ToSet(tasks) \cup ToSet(<<task>>)
  <2>1. <<task>> \in Seq(Tasks \cup {Sentinel}) /\ tasks' = tasks \o <<task>>
    BY AppendIsConcat DEF PoolInv, PoolTypes, Enqueue
  <2> QED BY <2>1, ConcatElements DEF PoolInv, PoolTypes
<1>6. Kept'
  BY <1>2, <1>5 DEF PoolInv, Kept, Enqueued, Enqueue
<1>7. SentinelsApart'
  <2>1. ToSet(<<task>>) = {task}
    BY DEF ToSet
  <2> QED BY <1>5, <2>1, PoolAssumption DEF PoolInv, SentinelsApart, Enqueue
<1>8. StopDrains' /\ WorkersGone'
  BY DEF PoolInv, StopDrains, WorkersGone, Enqueue, Current
<1> QED BY <1>3, <1>4, <1>6, <1>7, <1>8 DEF PoolInv

\* The workers of a new start were none before.
LEMMA StartKeeps ==
    ASSUME PoolInv, Start
    PROVE  PoolInv'
<1>1. stopper = "none" /\ stopper' = "none"
  BY DEF PoolInv, PoolTypes, Start
<1>2. BusyWorkers' = BusyWorkers
  BY PoolAssumption DEF PoolInv, PoolTypes, Start, BusyWorkers, Busy
<1>3. Running \subseteq Running'
  <2>1. ASSUME NEW w \in Workers, worker[w] \in Tasks PROVE worker'[w] = worker[w]
    BY <2>1, PoolAssumption DEF PoolInv, PoolTypes, Start
  <2> QED BY <2>1 DEF Running
<1>4. PoolTypes'
  BY <1>1, PoolAssumption DEF PoolInv, PoolTypes, Start, Workers
<1>5. Counted'
  BY <1>2 DEF PoolInv, Counted, Start
<1>6. Kept'
  BY <1>3 DEF PoolInv, Kept, Enqueued, Start
<1>7. SentinelsApart'
  BY DEF PoolInv, SentinelsApart, Start
<1> QED BY <1>1, <1>4, <1>5, <1>6, <1>7 DEF PoolInv, StopDrains, WorkersGone

LEMMA StopKeeps ==
    ASSUME PoolInv, Stop
    PROVE  PoolInv'
<1> DEFINE sentinels == [i \in 1 .. MaxWorkers |-> Sentinel]
<1>1. sentinels \in Seq(Tasks \cup {Sentinel}) /\ Len(sentinels) = MaxWorkers
  BY PoolAssumption
<1>2. tasks' \in Seq(Tasks \cup {Sentinel}) /\ Len(tasks') = Len(tasks) + MaxWorkers
      /\ Len(tasks) \in Nat
  BY <1>1, ConcatProperties, LenProperties DEF PoolInv, PoolTypes, Stop
<1>3. BusyWorkers' = BusyWorkers /\ Running' = Running
  BY DEF Stop, BusyWorkers, Busy, Running
<1>4. PoolTypes'
  BY <1>2, PoolAssumption DEF PoolInv, PoolTypes, Stop
<1>5. Counted'
  BY <1>2, <1>3, BusyAreFinite, PoolAssumption DEF PoolInv, PoolTypes, Counted, Stop
<1>6. ToSet(tasks) \subseteq ToSet(tasks')
  BY <1>1, ConcatElements DEF PoolInv, PoolTypes, Stop
<1>7. Kept'
  BY <1>3, <1>6 DEF Kept, Enqueued, Stop
<1>8. SentinelsApart'
  <2>1. Sentinel \notin Running
    BY PoolAssumption DEF Running
  <2> QED BY <2>1 DEF PoolInv, SentinelsApart, Enqueued, Stop
<1> QED BY <1>4, <1>5, <1>7, <1>8 DEF PoolInv, StopDrains, WorkersGone, Stop

\* The workers that stop cancels leave the count, and their tasks have finished.
LEMMA JoinedKeeps ==
    ASSUME PoolInv, Joined
    PROVE  PoolInv'
<1> DEFINE left == {w \in Current : Busy(w)}
<1>1. /\ worker' = [w \in Workers |-> IF w \in Current THEN "ended" ELSE worker[w]]
      /\ finished' = finished \cup {worker[w] : w \in left}
      /\ unfinished' = unfinished - Cardinality(left)
  BY DEF Joined
<1>2. BusyWorkers' = BusyWorkers \ left /\ BusyWorkers \cap left = left
  BY <1>1, PoolAssumption DEF PoolInv, PoolTypes, BusyWorkers, Busy, Current
<1>3. Cardinality(BusyWorkers') = Cardinality(BusyWorkers) - Cardinality(left)
      /\ Cardinality(BusyWorkers') \in Nat
  BY <1>2, BusyAreFinite, FS_Difference, FS_CardinalityType
<1>4. IsFiniteSet(left) /\ Cardinality(left) \in Nat
  BY <1>2, BusyAreFinite, FS_Intersection, FS_CardinalityType
<1>5. Counted' /\ unfinished' \in Nat
  BY <1>1, <1>3, <1>4, BusyAreFinite, LenProperties DEF PoolInv, PoolTypes, Counted, Joined
<1>6. PoolTypes'
  BY <1>1, <1>5 DEF PoolInv, PoolTypes, Joined, Current
<1>7. Running \subseteq Running' \cup {worker[w] : w \in left}
  <2>1. ASSUME NEW w \in Workers, worker[w] \in Tasks, w \notin left
        PROVE  worker'[w] = worker[w]
    BY <1>1, <2>1 DEF Current, Busy
  <2> QED BY <2>1 DEF Running
<1>8. Kept'
  BY <1>1, <1>7 DEF PoolInv, Kept, Enqueued, Joined
<1>9. StopDrains'
  BY <1>1 DEF PoolInv, StopDrains, Joined
<1>10. WorkersGone'
  BY <1>1 DEF WorkersGone, Joined, Current
<1>11. SentinelsApart'
  BY <1>1, PoolAssumption DEF PoolInv, SentinelsApart, Joined, Busy
<1> QED BY <1>5, <1>6, <1>8, <1>9, <1>10, <1>11 DEF PoolInv

(***************************************************************************)
(* The theorems about the task pool.                                       *)
(***************************************************************************)
\* In every reachable state the queue's count is the elements in the queue and the tasks in a
\* handler, and what stop was promised is in one of them or has finished.
THEOREM PoolInvariance == PoolSpec => []PoolInv
<1>1. PoolInit => PoolInv
  <2> SUFFICES ASSUME PoolInit PROVE PoolInv
    OBVIOUS
  <2>1. BusyWorkers = {}
    BY PoolAssumption DEF PoolInit, BusyWorkers, Busy
  <2>2. Counted
    BY <2>1, FS_EmptySet, EmptySeq DEF PoolInit, Counted
  <2>3. PoolTypes
    <3>1. <<>> \in Seq(Tasks \cup {Sentinel})
      OBVIOUS
    <3>2. 0 \in 0 .. MaxStarts
      BY PoolAssumption
    <3> QED BY <3>1, <3>2 DEF PoolInit, PoolTypes
  <2>4. SentinelsApart
    BY DEF PoolInit, SentinelsApart, ToSet
  <2> QED BY <2>2, <2>3, <2>4 DEF PoolInit, PoolInv, Kept, StopDrains, WorkersGone
<1>2. PoolInv /\ [PoolNext]_poolVars => PoolInv'
  <2> SUFFICES ASSUME PoolInv, [PoolNext]_poolVars PROVE PoolInv'
    OBVIOUS
  <2>1. CASE Start
    BY <2>1, StartKeeps
  <2>2. CASE Stop
    BY <2>2, StopKeeps
  <2>3. CASE Joined
    BY <2>3, JoinedKeeps
  <2>4. CASE \E w \in Workers : Work(w)
    BY <2>4, WorkKeeps
  <2>5. CASE \E task \in Tasks : Enqueue(task)
    BY <2>5, EnqueueKeeps
  <2>6. CASE UNCHANGED poolVars
    BY <2>6 DEF poolVars, PoolInv, PoolTypes, Counted, Kept, SentinelsApart, StopDrains,
       WorkersGone, BusyWorkers, Busy, Running, Enqueued, Current
  <2> QED BY <2>1, <2>2, <2>3, <2>4, <2>5, <2>6 DEF PoolNext
<1> QED BY <1>1, <1>2, PTL DEF PoolSpec

\* stop returns only after every task enqueued before it was called has run to its end
\* (TaskPool.stop and _run), for any number of workers and starts.
THEOREM StopsDrain == PoolSpec => []StopDrains
<1>1. PoolInv => StopDrains
  BY DEF PoolInv
<1> QED BY <1>1, PoolInvariance, PTL

\* When stop has returned, no worker of the last start is left.
THEOREM WorkersAreGone == PoolSpec => []WorkersGone
<1>1. PoolInv => WorkersGone
  BY DEF PoolInv
<1> QED BY <1>1, PoolInvariance, PTL
-----------------------------------------------------------------------------
(***************************************************************************)
(* The inductive invariant of component declarations.                      *)
(***************************************************************************)
Parts == DOMAIN NewContext

IsContext(ctx) ==
    /\ ctx = [part \in Parts |-> ctx[part]]
    /\ ctx.completed \in BOOLEAN

ContextTypes ==
    /\ defined \subseteq Classes
    /\ contexts \in Seq(ToSet(contexts))
    /\ \A i \in DOMAIN contexts : IsContext(contexts[i])
    /\ own \in [Classes -> 0 .. Len(contexts)]
    /\ DOMAIN mark = AllMethods

\* A component that is complete was prepared from a class whose marks are for good, none of
\* which made the preparation raise; one that is not has no handlers.
AsPrepared(ctx) ==
    /\ ctx.completed => ctx.clazz \in defined
    /\ \A c \in Classes : ctx.completed /\ ctx.clazz = c =>
           ctx.binds = Binds(c) /\ Reached(c) = Marked(c)
    /\ ~ctx.completed => ctx.binds = {}

ContextInv == ContextTypes /\ \A i \in DOMAIN contexts : AsPrepared(contexts[i])

(***************************************************************************)
(* Contexts and the classes that have them.                                *)
(***************************************************************************)
LEMMA FoundIsPlace ==
    ASSUME ContextTypes, NEW c \in Classes
    PROVE  Found(c) \in 0 .. Len(contexts)
<1> DEFINE at == {i \in DOMAIN Mro[c] : own[Mro[c][i]] # 0}
<1>1. Mro[c] \in Seq(Classes) /\ \A i \in DOMAIN Mro[c] : Mro[c][i] \in Classes
  BY ClassesAssumption
<1>2. Len(contexts) \in Nat
  BY DEF ContextTypes
<1>3. CASE at = {}
  BY <1>2, <1>3 DEF Found
<1>4. CASE at # {}
  <2>1. at \in SUBSET Nat
    BY <1>1
  <2>2. PICK n \in at : \A m \in at : n <= m
    BY <1>4, <2>1, LeastExists
  <2>3. Min(at) \in at
    BY <2>2 DEF Min
  <2>4. Mro[c][Min(at)] \in Classes
    BY <1>1, <2>3
  <2>5. Found(c) = own[Mro[c][Min(at)]]
    BY <1>4 DEF Found
  <2> QED BY <2>4, <2>5 DEF ContextTypes
<1> QED BY <1>3, <1>4

\* A call that gives c the context ctx changes no other one.
LEMMA SetContextSets ==
    ASSUME ContextTypes, NEW c \in Classes, NEW ctx, IsContext(ctx), SetContext(c, ctx)
    PROVE  /\ contexts' \in Seq(ToSet(contexts)') /\ Len(contexts) <= Len(contexts')
           /\ own' \in [Classes -> 0 .. Len(contexts')]
           /\ \E at \in DOMAIN contexts' :
                  /\ contexts'[at] = ctx
                  /\ \A i \in DOMAIN contexts' : i # at => i \in DOMAIN contexts /\ contexts'[i] = contexts[i]
                  /\ IF at \in DOMAIN contexts THEN Context(c) = contexts[at]
                     ELSE Context(c) = NewContext
<1>1. Found(c) \in 0 .. Len(contexts) /\ Len(contexts) \in Nat
      /\ contexts \in Seq(ToSet(contexts)) /\ DOMAIN contexts = 1 .. Len(contexts)
  BY FoundIsPlace DEF ContextTypes
<1> DEFINE S == ToSet(contexts) \cup {ctx}
<1>2. CASE Found(c) = 0
  <2>1. contexts' = Append(contexts, ctx) /\ own' = [own EXCEPT ![c] = Len(contexts) + 1]
        /\ Context(c) = NewContext
    BY <1>2 DEF SetContext, Context
  <2>2. contexts \in Seq(S)
    BY <1>1
  <2>3. /\ contexts' \in Seq(S) /\ Len(contexts') = Len(contexts) + 1
        /\ \A i \in 1 .. Len(contexts) : contexts'[i] = contexts[i]
        /\ contexts'[Len(contexts) + 1] = ctx
    BY <2>1, <2>2, AppendProperties
  <2>4. DOMAIN contexts' = 1 .. Len(contexts) + 1
    BY <2>3
  <2>5. contexts' \in Seq(ToSet(contexts)')
    BY <1>1, <2>3, <2>4 DEF ToSet
  <2>6. own' \in [Classes -> 0 .. Len(contexts')]
    BY <2>1, <1>1, <2>3 DEF ContextTypes
  <2> QED BY <1>1, <2>1, <2>3, <2>4, <2>5, <2>6
<1>3. CASE Found(c) # 0
  <2>1. contexts' = [contexts EXCEPT ![Found(c)] = ctx] /\ own' = own
        /\ Context(c) = contexts[Found(c)] /\ Found(c) \in DOMAIN contexts
    BY <1>1, <1>3 DEF SetContext, Context
  <2>2. /\ contexts' \in Seq(S) /\ Len(contexts') = Len(contexts)
        /\ contexts'[Found(c)] = ctx
        /\ \A i \in DOMAIN contexts : i # Found(c) => contexts'[i] = contexts[i]
    BY <1>1, <2>1, ExceptSeq
  <2>3. DOMAIN contexts' = DOMAIN contexts
    BY <2>1
  <2>4. contexts' \in Seq(ToSet(contexts)')
    BY <1>1, <2>2, <2>3 DEF ToSet
  <2>5. own' \in [Classes -> 0 .. Len(contexts')]
    BY <2>1, <2>2 DEF ContextTypes
  <2> QED BY <1>1, <2>1, <2>2, <2>3, <2>4, <2>5
<1> QED BY <1>2, <1>3

LEMMA MarksKept ==
    ASSUME NEW c \in Classes, \A m \in ToSet(Methods[c]) : mark'[m] = mark[m]
    PROVE  Marked(c)' = Marked(c) /\ Reached(c)' = Reached(c) /\ Binds(c)' = Binds(c)
<1> DEFINE M == Methods[c]
<1>1. \A i \in DOMAIN M : mark'[M[i]] = mark[M[i]]
  BY DEF ToSet
<1>2. Marked(c)' = Marked(c) /\ Marked(c) \subseteq DOMAIN M
  BY <1>1 DEF Marked
<1>3. \A i \in DOMAIN M : Requirement(M[i])' = Requirement(M[i]) /\ Raises(M[i])' = Raises(M[i])
  BY <1>1 DEF Requirement, Raises
<1>4. Reached(c)' = Reached(c) /\ Reached(c) \subseteq DOMAIN M
  BY <1>2, <1>3 DEF Reached
<1>5. \A k : OfKind(c, k)' = OfKind(c, k)
  BY <1>4, <1>1 DEF OfKind
<1>6. BindPlaces(c)' = BindPlaces(c) /\ BindPlaces(c) \subseteq DOMAIN M
  BY <1>4, <1>5 DEF BindPlaces, OfKind
<1>7. \A r, k : {i \in OfKind(c, k) : Requirement(M[i]) = r}'
                = {i \in OfKind(c, k) : Requirement(M[i]) = r}
  BY <1>3, <1>4, <1>5 DEF OfKind
<1>8. \A r, k : LastOf(c, {i \in OfKind(c, k) : Requirement(M[i]) = r}, None)'
                = LastOf(c, {i \in OfKind(c, k) : Requirement(M[i]) = r}, None)
  BY <1>7 DEF LastOf
<1>9. {Requirement(M[i]) : i \in BindPlaces(c)}' = {Requirement(M[i]) : i \in BindPlaces(c)}
  BY <1>3, <1>6
<1>10. Binds(c)' = Binds(c)
  <2> DEFINE R == {Requirement(M[i]) : i \in BindPlaces(c)}
             L(r, k) == LastOf(c, {i \in OfKind(c, k) : Requirement(M[i]) = r}, None)
             B(r) == [requirement |-> r, methods |-> [k \in Binding |-> L(r, k)]]
  <2>1. R' = R /\ \A r, k : L(r, k)' = L(r, k)
    BY <1>8, <1>9
  <2>2. Binds(c) = {B(r) : r \in R} /\ Binds(c)' = {B(r)' : r \in R'}
    BY DEF Binds
  <2> HIDE DEF L, R
  <2>3. \A r : B(r)' = B(r)
    BY <2>1
  <2> HIDE DEF B
  <2> QED BY <2>1, <2>2, <2>3
<1> QED BY <1>2, <1>4, <1>10

(***************************************************************************)
(* The handlers of a class that was prepared.                              *)
(***************************************************************************)
LEMMA LastOfPlaces ==
    ASSUME NEW c \in Classes, NEW places \in SUBSET DOMAIN Methods[c], places # {}, NEW default
    PROVE  \E i \in places : LastOf(c, places, default) = Methods[c][i]
<1>1. Methods[c] \in Seq(AllMethods) /\ Len(Methods[c]) \in Nat
      /\ DOMAIN Methods[c] = 1 .. Len(Methods[c])
  BY ClassesAssumption
<1> DEFINE n == Len(Methods[c])
           back == {n - i : i \in places}
<1>2. back \in SUBSET Nat /\ back # {}
  BY <1>1
<1>3. PICK l \in back : \A k \in back : l <= k
  BY <1>2, LeastExists
<1>4. PICK i \in places : l = n - i
  BY <1>3
<1>5. ASSUME NEW j \in places PROVE i >= j
  <2>1. n - j \in back /\ i \in 1 .. n /\ j \in 1 .. n
    BY <1>1
  <2>2. n - i <= n - j
    BY <1>3, <1>4, <2>1
  <2> QED BY <1>1, <2>1, <2>2
<1>6. Max(places) \in places
  BY <1>5 DEF Max
<1> QED BY <1>6 DEF LastOf

LEMMA BindsArePaired ==
    ASSUME NEW c \in Classes, Reached(c) = Marked(c)
    PROVE  /\ \A a, b \in Binds(c) : a.requirement = b.requirement => a = b
           /\ \A m \in ToSet(Methods[c]) :
                  mark[m] # None /\ mark[m].kind \in Binding =>
                      \E b \in Binds(c) : /\ b.requirement = Requirement(m)
                                          /\ b.methods[mark[m].kind] # None
<1> DEFINE M == Methods[c]
           R == {Requirement(M[i]) : i \in BindPlaces(c)}
           At(r, k) == {i \in OfKind(c, k) : Requirement(M[i]) = r}
           L(r, k) == LastOf(c, At(r, k), None)
           B(r) == [requirement |-> r, methods |-> [k \in Binding |-> L(r, k)]]
<1>1. Binds(c) = {B(r) : r \in R}
  BY DEF Binds
<1>2. \A r : B(r).requirement = r /\ \A k \in Binding : B(r).methods[k] = L(r, k)
  OBVIOUS
<1>3. ASSUME NEW i \in DOMAIN M, mark[M[i]] # None, mark[M[i]].kind \in Binding
      PROVE  Requirement(M[i]) \in R /\ L(Requirement(M[i]), mark[M[i]].kind) # None
  <2> DEFINE k == mark[M[i]].kind
             r == Requirement(M[i])
  <2>1. i \in OfKind(c, k)
    BY <1>3 DEF OfKind, Marked
  <2>2. i \in At(r, k) /\ i \in BindPlaces(c)
    BY <1>3, <2>1 DEF BindPlaces
  <2>3. At(r, k) \in SUBSET DOMAIN M
    BY DEF OfKind, Marked
  <2>4. PICK j \in At(r, k) : L(r, k) = M[j]
    BY <2>2, <2>3, LastOfPlaces
  <2>5. M[j] \in AllMethods
    BY <2>3, <2>4, ClassesAssumption
  <2> QED BY <2>2, <2>4, <2>5, ClassesAssumption
<1> HIDE DEF R, L, B
<1>4. ASSUME NEW m \in ToSet(Methods[c]), mark[m] # None, mark[m].kind \in Binding
      PROVE  \E b \in Binds(c) : b.requirement = Requirement(m) /\ b.methods[mark[m].kind] # None
  <2>1. PICK i \in DOMAIN M : M[i] = m
    BY DEF ToSet
  <2>2. Requirement(m) \in R /\ L(Requirement(m), mark[m].kind) # None
    BY <1>3, <1>4, <2>1
  <2>3. B(Requirement(m)) \in Binds(c)
    BY <1>1, <2>2
  <2> QED BY <1>2, <1>4, <2>2, <2>3
<1>5. ASSUME NEW a \in Binds(c), NEW b \in Binds(c), a.requirement = b.requirement
      PROVE  a = b
  BY <1>1, <1>2, <1>5
<1> QED BY <1>4, <1>5

\* What _setup_callbacks leaves is a component with its handlers, or none.
LEMMA PreparedIsPrepared ==
    ASSUME NEW c \in defined, NEW ctx, IsContext(ctx), ~ctx.completed, AsPrepared(ctx)
    PROVE  IsContext(Prepared(ctx, c)) /\ AsPrepared(Prepared(ctx, c))
<1> DEFINE raised == Reached(c) # Marked(c)
           callbacks == [k \in Kinds \ Binding |-> LastOf(c, OfKind(c, k), ctx.callbacks[k])]
           done == [ctx EXCEPT !.callbacks = callbacks, !.completed = ~raised,
                               !.binds = IF raised THEN @ ELSE Binds(c),
                               !.clazz = IF raised THEN @ ELSE c]
<1>1. Prepared(ctx, c) = done
  BY DEF Prepared
<1>2. DOMAIN ctx = Parts /\ {"completed", "binds", "clazz", "callbacks"} \subseteq Parts
  BY DEF IsContext, Parts, NewContext
<1>3. done = [part \in Parts |-> done[part]] /\ done.completed = ~raised
      /\ done.binds = (IF raised THEN ctx.binds ELSE Binds(c))
      /\ done.clazz = (IF raised THEN ctx.clazz ELSE c)
  BY <1>2 DEF IsContext
<1> QED BY <1>1, <1>3 DEF IsContext, AsPrepared

(***************************************************************************)
(* Steps of declarations: what a component may never lose.                 *)
(***************************************************************************)
Lasting == {"name", "completed", "init", "binds", "callbacks", "clazz"}

LastingKept(old, new) == old.completed => \A part \in Lasting : new[part] = old[part]

AllLasting == \A i \in DOMAIN contexts : LastingKept(contexts[i], contexts'[i])

\* A call that gives a class its context anew keeps the invariant if the context does.
LEMMA SetContextKeeps ==
    ASSUME ContextInv, NEW c \in Classes, NEW ctx, SetContext(c, ctx),
           IsContext(ctx), AsPrepared(ctx), LastingKept(Context(c), ctx),
           UNCHANGED <<defined, mark>>
    PROVE  ContextInv' /\ AllLasting
<1>1. ContextTypes /\ \A i \in DOMAIN contexts : AsPrepared(contexts[i])
  BY DEF ContextInv
<1>2. contexts' \in Seq(ToSet(contexts)') /\ Len(contexts) <= Len(contexts')
      /\ own' \in [Classes -> 0 .. Len(contexts')]
  BY <1>1, SetContextSets
<1>3. PICK at \in DOMAIN contexts' :
          /\ contexts'[at] = ctx
          /\ \A i \in DOMAIN contexts' : i # at =>
                 i \in DOMAIN contexts /\ contexts'[i] = contexts[i]
          /\ at \in DOMAIN contexts => Context(c) = contexts[at]
  BY <1>1, SetContextSets
<1>4. \A i \in DOMAIN contexts' : IsContext(contexts'[i])
  BY <1>1, <1>3 DEF ContextTypes
<1>5. ContextTypes'
  <2>1. \A i \in DOMAIN contexts' : IsContext(contexts[i])'
    BY <1>4 DEF IsContext
  <2> QED BY <1>1, <1>2, <2>1 DEF ContextTypes
<1>6. \A x : AsPrepared(x) => /\ x.completed => x.clazz \in defined'
                              /\ \A d \in Classes : x.completed /\ x.clazz = d =>
                                     x.binds = Binds(d)' /\ Reached(d)' = Marked(d)'
                              /\ ~x.completed => x.binds = {}
  <2>1. \A d \in Classes : Marked(d)' = Marked(d) /\ Reached(d)' = Reached(d) /\ Binds(d)' = Binds(d)
    BY MarksKept
  <2> QED BY <2>1 DEF AsPrepared
<1>7. \A i \in DOMAIN contexts' : AsPrepared(contexts'[i])
  BY <1>1, <1>3
<1>8. \A i \in DOMAIN contexts' : AsPrepared(contexts[i])'
  BY <1>6, <1>7 DEF AsPrepared
<1>9. AllLasting
  <2> SUFFICES ASSUME NEW i \in DOMAIN contexts PROVE LastingKept(contexts[i], contexts'[i])
    BY DEF AllLasting
  <2>1. i \in DOMAIN contexts'
    <3>1. DOMAIN contexts = 1 .. Len(contexts) /\ DOMAIN contexts' = 1 .. Len(contexts')
          /\ Len(contexts) \in Nat /\ Len(contexts') \in Nat
      BY <1>1, <1>2 DEF ContextTypes
    <3> QED BY <1>2, <3>1
  <2>2. CASE i = at
    BY <1>3, <2>2
  <2>3. CASE i # at
    BY <1>3, <2>1, <2>3 DEF LastingKept
  <2> QED BY <2>2, <2>3
<1> QED BY <1>5, <1>8, <1>9 DEF ContextInv

LEMMA ContextIsPrepared ==
    ASSUME ContextInv, NEW c \in Classes
    PROVE  IsContext(Context(c)) /\ AsPrepared(Context(c))
<1>1. CASE Found(c) = 0
  <2>1. Context(c) = NewContext
    BY <1>1 DEF Context
  <2>2. IsContext(NewContext)
    BY DEF IsContext, Parts, NewContext
  <2>3. AsPrepared(NewContext)
    BY DEF AsPrepared, NewContext
  <2> QED BY <2>1, <2>2, <2>3
<1>2. CASE Found(c) # 0
  <2>1. Found(c) \in DOMAIN contexts
    BY <1>2, FoundIsPlace DEF ContextInv, ContextTypes
  <2> QED BY <1>2, <2>1 DEF Context, ContextInv, ContextTypes
<1> QED BY <1>1, <1>2

\* provides, requires and instantiate change other parts of a context.
LEMMA OtherPartsKeep ==
    ASSUME NEW ctx, IsContext(ctx), AsPrepared(ctx), NEW part \in {"provides", "requires", "instances"},
           NEW value
    PROVE  LET new == [ctx EXCEPT ![part] = value]
           IN  IsContext(new) /\ AsPrepared(new) /\ LastingKept(ctx, new)
<1> DEFINE new == [ctx EXCEPT ![part] = value]
<1>1. DOMAIN ctx = Parts /\ Lasting \subseteq Parts
  BY DEF IsContext, Parts, NewContext, Lasting
<1>2. new = [p \in Parts |-> new[p]] /\ \A p \in Lasting : new[p] = ctx[p]
  BY <1>1 DEF IsContext, Lasting
<1>3. new.completed = ctx.completed /\ new.clazz = ctx.clazz /\ new.binds = ctx.binds
  BY <1>2 DEF Lasting
<1> QED BY <1>2, <1>3 DEF IsContext, AsPrepared, LastingKept

LEMMA ProvidesKeeps ==
    ASSUME ContextInv, NEW c \in defined, NEW d, Provides(d, c)
    PROVE  ContextInv' /\ AllLasting
<1> DEFINE ctx == Context(c)
           specs == Specifications(d, c)
           new == [ctx EXCEPT !.provides = Deduplicated(specs)]
           set == IF ctx.provides # None THEN ctx ELSE new
<1>1. c \in Classes
  BY DEF ContextInv, ContextTypes
<1>2. IsContext(ctx) /\ AsPrepared(ctx)
  BY <1>1, ContextIsPrepared
<1>3. IsContext(new) /\ AsPrepared(new) /\ LastingKept(ctx, new)
  BY <1>2, OtherPartsKeep
<1>4. LastingKept(ctx, ctx)
  BY DEF LastingKept
<1>5. SetContext(c, set) /\ UNCHANGED <<defined, mark>>
  BY DEF Provides
<1> HIDE DEF ctx, new
<1>6. IsContext(set) /\ AsPrepared(set) /\ LastingKept(ctx, set)
  BY <1>2, <1>3, <1>4
<1> QED BY <1>1, <1>5, <1>6, SetContextKeeps DEF ctx

LEMMA RequiresKeeps ==
    ASSUME ContextInv, NEW c \in defined, NEW f, NEW specs, Requires(f, specs, c)
    PROVE  ContextInv' /\ AllLasting
<1> DEFINE ctx == Context(c)
           new == [ctx EXCEPT !.requires = [ctx.requires EXCEPT ![f] = specs]]
<1>1. c \in Classes
  BY DEF ContextInv, ContextTypes
<1>2. IsContext(new) /\ AsPrepared(new) /\ LastingKept(ctx, new)
  BY <1>1, ContextIsPrepared, OtherPartsKeep
<1>3. SetContext(c, new) /\ UNCHANGED <<defined, mark>>
  BY DEF Requires
<1> QED BY <1>1, <1>2, <1>3, SetContextKeeps

LEMMA InstantiateKeeps ==
    ASSUME ContextInv, NEW c \in defined, NEW name, Instantiate(name, c)
    PROVE  ContextInv' /\ AllLasting
<1> DEFINE ctx == Context(c)
           new == [ctx EXCEPT !.instances = ctx.instances \cup {name}]
<1>1. c \in Classes
  BY DEF ContextInv, ContextTypes
<1>2. IsContext(new) /\ AsPrepared(new) /\ LastingKept(ctx, new)
  BY <1>1, ContextIsPrepared, OtherPartsKeep
<1>3. SetContext(c, new) /\ UNCHANGED <<defined, mark>>
  BY DEF Instantiate
<1> QED BY <1>1, <1>2, <1>3, SetContextKeeps

\* component prepares a context that is not complete, and leaves one that is.
LEMMA ComponentKeeps ==
    ASSUME ContextInv, NEW c \in defined, NEW name, Component(name, c)
    PROVE  ContextInv' /\ AllLasting
<1> DEFINE old == Context(c)
           named == [old EXCEPT !.name = name]
           required == InitSpecs[c] # <<>>
           init == [named EXCEPT !.init = IF required THEN InitSpecs[c] ELSE @]
           set == IF ~MayPrepare(old) THEN old
                  ELSE IF required /\ named.init # None THEN named
                  ELSE Prepared(init, c)
<1>1. c \in Classes
  BY DEF ContextInv, ContextTypes
<1>2. IsContext(old) /\ AsPrepared(old)
  BY <1>1, ContextIsPrepared
<1>3. SetContext(c, set) /\ UNCHANGED <<defined, mark>>
  BY DEF Component
<1>4. DOMAIN old = Parts /\ {"name", "init"} \subseteq Parts
  BY <1>2 DEF IsContext, Parts, NewContext
<1>5. /\ named = [part \in Parts |-> named[part]] /\ init = [part \in Parts |-> init[part]]
      /\ \A part \in {"completed", "binds", "clazz"} :
             named[part] = old[part] /\ init[part] = old[part]
  <2>1. old = [part \in Parts |-> old[part]]
    BY <1>2 DEF IsContext
  <2> HIDE DEF old
  <2>2. named = [part \in Parts |-> named[part]] /\ DOMAIN named = Parts
        /\ \A part \in {"completed", "binds", "clazz"} : named[part] = old[part]
    BY <1>4, <2>1
  <2> HIDE DEF named, required
  <2>3. init = [part \in Parts |-> init[part]]
        /\ \A part \in {"completed", "binds", "clazz"} : init[part] = named[part]
    BY <1>4, <2>2
  <2> QED BY <2>2, <2>3
<1> HIDE DEF old, named, init, required
<1>6. IsContext(named) /\ AsPrepared(named) /\ IsContext(init) /\ AsPrepared(init)
  BY <1>2, <1>5 DEF IsContext, AsPrepared
<1>7. CASE old.completed
  <2>1. set = old
    BY <1>7 DEF MayPrepare
  <2>2. LastingKept(old, old)
    BY DEF LastingKept
  <2> QED BY <1>1, <1>2, <1>3, <2>1, <2>2, SetContextKeeps DEF old
<1>8. CASE ~old.completed
  <2>1. LastingKept(old, set)
    BY <1>8 DEF LastingKept
  <2>2. ~init.completed
    BY <1>5, <1>8
  <2>3. IsContext(Prepared(init, c)) /\ AsPrepared(Prepared(init, c))
    BY <1>6, <2>2, PreparedIsPrepared
  <2>4. IsContext(set) /\ AsPrepared(set)
    BY <1>2, <1>6, <2>3
  <2> QED BY <1>1, <1>3, <2>1, <2>4, SetContextKeeps DEF old
<1> QED BY <1>7, <1>8

\* A decorator of a method finds no class that has the method: what was prepared keeps its marks.
LEMMA MarkKeeps ==
    ASSUME ContextInv, NEW m, NEW kind, NEW args, Mark(m, kind, args)
    PROVE  ContextInv' /\ AllLasting
<1>1. contexts' = contexts /\ own' = own /\ defined' = defined /\ DOMAIN mark' = DOMAIN mark
  BY DEF Mark
<1>2. \A d \in defined : Marked(d)' = Marked(d) /\ Reached(d)' = Reached(d) /\ Binds(d)' = Binds(d)
  <2> SUFFICES ASSUME NEW d \in defined
               PROVE  \A n \in ToSet(Methods[d]) : mark'[n] = mark[n]
    BY MarksKept DEF ContextInv, ContextTypes
  <2> QED BY DEF Mark
<1>3. ContextTypes'
  BY <1>1 DEF ContextInv, ContextTypes, ToSet, IsContext
<1>4. \A i \in DOMAIN contexts' : AsPrepared(contexts[i])'
  BY <1>1, <1>2 DEF ContextInv, AsPrepared
<1> QED BY <1>1, <1>3, <1>4 DEF ContextInv, AllLasting, LastingKept

LEMMA DefineKeeps ==
    ASSUME ContextInv, NEW c \in Classes, Define(c)
    PROVE  ContextInv' /\ AllLasting
<1>1. contexts' = contexts /\ own' = own /\ mark' = mark /\ defined' = defined \cup {c}
  BY DEF Define
<1>2. \A d \in Classes : Marked(d)' = Marked(d) /\ Reached(d)' = Reached(d) /\ Binds(d)' = Binds(d)
  BY <1>1, MarksKept
<1>3. ContextTypes'
  BY <1>1 DEF ContextInv, ContextTypes, ToSet, IsContext
<1>4. \A i \in DOMAIN contexts' : AsPrepared(contexts[i])'
  BY <1>1, <1>2 DEF ContextInv, AsPrepared
<1> QED BY <1>1, <1>3, <1>4 DEF ContextInv, AllLasting, LastingKept

LEMMA QuietStepKeeps ==
    ASSUME ContextInv, UNCHANGED <<defined, own, contexts, mark>>
    PROVE  ContextInv' /\ AllLasting
<1>1. \A d \in Classes : Marked(d)' = Marked(d) /\ Reached(d)' = Reached(d) /\ Binds(d)' = Binds(d)
  BY MarksKept
<1>2. ContextTypes'
  BY DEF ContextInv, ContextTypes, ToSet, IsContext
<1>3. \A i \in DOMAIN contexts' : AsPrepared(contexts[i])'
  BY <1>1 DEF ContextInv, AsPrepared
<1> QED BY <1>2, <1>3 DEF ContextInv, AllLasting, LastingKept

LEMMA DeclarationKeeps ==
    ASSUME ContextInv, [CdiNext]_cdiVars
    PROVE  ContextInv' /\ AllLasting
<1>1. CASE \E m \in AllMethods, args \in MarkArgs, kind \in Kinds : Mark(m, kind, args)
  BY <1>1, MarkKeeps
<1>2. CASE \E c \in Classes : Define(c)
  BY <1>2, DefineKeeps
<1>3. CASE \E specs \in Specs : MakeProvides(specs)
  BY <1>3, QuietStepKeeps DEF MakeProvides
<1>4. CASE \E c \in defined, d \in DOMAIN decorators : Provides(d, c)
  BY <1>4, ProvidesKeeps
<1>5. CASE \E c \in defined, f \in Fields, specs \in Specs : Requires(f, specs, c)
  BY <1>5, RequiresKeeps
<1>6. CASE \E c \in defined, name \in Names : Instantiate(name, c)
  BY <1>6, InstantiateKeeps
<1>7. CASE \E c \in defined, name \in Names : Component(name, c)
  BY <1>7, ComponentKeeps
<1>8. CASE UNCHANGED cdiVars
  BY <1>8, QuietStepKeeps DEF cdiVars
<1> QED BY <1>1, <1>2, <1>3, <1>4, <1>5, <1>6, <1>7, <1>8 DEF CdiNext, Kinds

(***************************************************************************)
(* The theorems about component declarations.                              *)
(***************************************************************************)
\* In every reachable state, a complete component has exactly the handlers of the class it was
\* prepared from, whose marks no decorator can change any more (_setup_callbacks).
THEOREM DeclarationsInvariance == CdiSpec => []ContextInv
<1>1. CdiInit => ContextInv
  <2> SUFFICES ASSUME CdiInit PROVE ContextInv
    OBVIOUS
  <2>1. contexts = <<>> /\ <<>> \in Seq(ToSet(<<>>)) /\ DOMAIN contexts = {} /\ Len(contexts) = 0
    BY DEF CdiInit
  <2> QED BY <2>1 DEF CdiInit, ContextInv, ContextTypes
<1>2. ContextInv /\ [CdiNext]_cdiVars => ContextInv'
  BY DeclarationKeeps
<1> QED BY <1>1, <1>2, PTL DEF CdiSpec

\* No decorator changes the name, the constructor's requirements, the handlers or the callbacks
\* of a component that is complete (prepare_factory_context, FactoryContext).
THEOREM PreparationIsForGood == CdiSpec => PreparedForGood
<1>1. ContextInv /\ [CdiNext]_cdiVars =>
          [\A i \in DOMAIN contexts : contexts[i].completed =>
               \A part \in {"name", "completed", "init", "binds", "callbacks", "clazz"} :
                   contexts'[i][part] = contexts[i][part]]_cdiVars
  BY DeclarationKeeps DEF AllLasting, LastingKept, Lasting
<1> QED BY <1>1, DeclarationsInvariance, PTL DEF CdiSpec, PreparedForGood

\* In a complete component every marked method has its handler, the only one of its requirement,
\* whatever the classes, their methods and the order of the decorators (_setup_callbacks).
THEOREM BindsArePairedAlways == CdiSpec => []BindsPaired
<1>1. ContextInv => BindsPaired
  <2> SUFFICES ASSUME ContextInv, NEW i \in DOMAIN contexts
               PROVE  LET ctx == contexts[i]
                      IN  /\ \A a, b \in ctx.binds : a.requirement = b.requirement => a = b
                          /\ ctx.completed => \A m \in ToSet(Methods[ctx.clazz]) :
                                 mark[m] # None /\ mark[m].kind \in Binding =>
                                     \E b \in ctx.binds : /\ b.requirement = Requirement(m)
                                                          /\ b.methods[mark[m].kind] # None
                          /\ ~ctx.completed => ctx.binds = {}
    BY DEF BindsPaired
  <2>1. AsPrepared(contexts[i]) /\ defined \subseteq Classes
    BY DEF ContextInv, ContextTypes
  <2>2. CASE contexts[i].completed
    <3>1. PICK c \in Classes : contexts[i].clazz = c
      BY <2>1, <2>2 DEF AsPrepared
    <3>2. contexts[i].binds = Binds(c) /\ Reached(c) = Marked(c)
      BY <2>1, <2>2, <3>1 DEF AsPrepared
    <3> QED BY <2>2, <3>1, <3>2, BindsArePaired
  <2>3. CASE ~contexts[i].completed
    BY <2>1, <2>3 DEF AsPrepared
  <2> QED BY <2>2, <2>3
<1> QED BY <1>1, DeclarationsInvariance, PTL
-----------------------------------------------------------------------------
(***************************************************************************)
(* The depth of parentheses after a part of a text.                        *)
(***************************************************************************)
Turn(token) == IF token = "(" THEN 1 ELSE IF token = ")" THEN -1 ELSE 0

Count(w, n, token) == Cardinality({i \in 1 .. n : w[i] = token})

LEMMA CountNext ==
    ASSUME NEW w, NEW n \in Nat, NEW token
    PROVE  /\ Count(w, n, token) \in Nat
           /\ Count(w, n + 1, token) = Count(w, n, token) + IF w[n + 1] = token THEN 1 ELSE 0
<1> DEFINE Of(m) == {i \in 1 .. m : w[i] = token}
<1>1. IsFiniteSet(Of(n)) /\ Cardinality(Of(n)) \in Nat
  <2>1. IsFiniteSet(1 .. n) /\ Of(n) \subseteq 1 .. n
    BY FS_Interval
  <2>2. IsFiniteSet(Of(n))
    BY <2>1, FS_Subset
  <2> QED BY <2>2, FS_CardinalityType
<1>2. n + 1 \notin Of(n)
  OBVIOUS
<1>3. CASE w[n + 1] = token
  <2>1. Of(n + 1) = Of(n) \cup {n + 1}
    BY <1>3
  <2> QED BY <1>1, <1>2, <1>3, <2>1, FS_AddElement DEF Count
<1>4. CASE w[n + 1] # token
  <2>1. Of(n + 1) = Of(n)
    BY <1>4
  <2> QED BY <1>1, <1>4, <2>1 DEF Count
<1> QED BY <1>3, <1>4

LEMMA DepthNext ==
    ASSUME NEW w, NEW n \in Nat
    PROVE  Depth(w, n) \in Int /\ Depth(w, n + 1) = Depth(w, n) + Turn(w[n + 1])
<1>1. \A m : Depth(w, m) = Count(w, m, "(") - Count(w, m, ")")
  BY DEF Depth, Count
<1>2. \A token : /\ Count(w, n, token) \in Nat
                 /\ Count(w, n + 1, token) = Count(w, n, token) + IF w[n + 1] = token THEN 1 ELSE 0
  BY CountNext
<1> QED BY <1>1, <1>2 DEF Turn

LEMMA DepthOfNothing == ASSUME NEW w PROVE Depth(w, 0) = 0
<1>1. \A token : {i \in 1 .. 0 : w[i] = token} = {}
  OBVIOUS
<1> QED BY <1>1, FS_EmptySet DEF Depth

(***************************************************************************)
(* A written form begins and ends with its own parentheses.                *)
(***************************************************************************)
LEMMA WrittenEnds ==
    ASSUME NEW w, w \in Seq(ToSet(w)), IsWritten(w)
    PROVE  w[1] = "(" /\ w[Len(w)] = ")" /\ w[2] # "("
<1>1. Len(w) \in Nat /\ Len(w) > 2 /\ DOMAIN w = 1 .. Len(w)
  BY DEF IsWritten
<1>2. Depth(w, 0 + 1) = Depth(w, 0) + Turn(w[0 + 1])
  BY DepthNext
<1>3. Depth(w, 1) > 0
  BY <1>1 DEF IsWritten
<1>4. w[1] = "("
  BY <1>2, <1>3, DepthOfNothing DEF Turn
<1> DEFINE n == Len(w) - 1
<1>5. n \in Nat /\ Depth(w, n) \in Int /\ Depth(w, n) > 0 /\ Depth(w, n + 1) = 0
  BY <1>1, DepthNext DEF IsWritten
<1>6. Turn(w[n + 1]) < 0
  <2>1. Depth(w, n + 1) = Depth(w, n) + Turn(w[n + 1])
    BY <1>5, DepthNext
  <2> QED BY <1>5, <2>1 DEF Turn
<1>7. w[Len(w)] = ")"
  BY <1>1, <1>6 DEF Turn
<1>8. w[2] # "("
  <2> SUFFICES ASSUME w[2] = "(" PROVE FALSE
    OBVIOUS
  <2>1. 1 \in 1 .. Len(w) - 1 /\ w[1 + 1] \notin {"&", "|", "!"}
    BY <1>1
  <2>2. PICK j \in 1 + 1 .. Len(w) : \A k \in 1 + 1 .. j : w[k] # "("
    BY <1>4, <2>1 DEF IsWritten
  <2> QED BY <2>2
<1> QED BY <1>4, <1>7, <1>8

(***************************************************************************)
(* The inductive invariant, of a text that lost a parenthesis.             *)
(***************************************************************************)
LogicNode(entry) == IsLogic(entry) /\ entry = Logic(entry.kind, entry.value)

\* The next parenthesis closes.
Closing == \A j \in pos .. Len(text) : text[j] = "(" => \E k \in pos .. j - 1 : text[k] = ")"

\* Without its first parenthesis the text runs out of open ones at its last token.
FirstMissing ==
    outcome = NoNode => pos <= Len(text) /\ Len(stack) = Depth(Uncut(asked), pos) - 1

\* Without its last one a node is left to which everything else belongs.
LastMissing ==
    outcome = NoNode =>
        /\ sf = NoNode /\ Len(stack) = Depth(Uncut(asked), pos - 1)
        /\ \A k \in 1 .. Len(stack) - 1 : LogicNode(stack[k])
        /\ stack = <<>> \/ LogicNode(Last(stack)) \/ Closing

CutText ==
    /\ asked \in Asked /\ text = asked.text
    /\ pos \in 1 .. Len(text) + 1 /\ escaped = FALSE
    /\ outcome \in {NoNode, Refused}
    /\ stack \in Seq(ToSet(stack))
    /\ asked.cut = "first" => FirstMissing
    /\ asked.cut = "last" => LastMissing

CutInv == asked.cut # "none" => CutText

\* The text and the form it was cut from.
LEMMA CutForms ==
    ASSUME NEW a \in Asked, a.cut # "none"
    PROVE  /\ a.cut \in {"first", "last"} /\ a.form = "text"
           /\ a.text \in Seq(ToSet(a.text)) /\ Len(a.text) > 1
           /\ Uncut(a) \in Seq(ToSet(Uncut(a))) /\ Len(Uncut(a)) = Len(a.text) + 1
           /\ IsWritten(Uncut(a))
           /\ a.cut = "first" => \A i \in 1 .. Len(a.text) : Uncut(a)[i + 1] = a.text[i]
           /\ a.cut = "last" => \A i \in 1 .. Len(a.text) : Uncut(a)[i] = a.text[i]
           /\ Wrapped(a.text) = a.text
           /\ "\\" \notin ToSet(a.text) /\ (a.cut = "first" => ToSet(a.text) \cap Signs # {})
<1> DEFINE w == Uncut(a)
           s == a.text
<1>1. /\ a.cut \in {"first", "last"} /\ a.form = "text" /\ s \in Seq(ToSet(s))
      /\ IsWritten(w)
  BY CutsAssumption
<1>2. Len(s) \in Nat /\ DOMAIN s = 1 .. Len(s)
  BY <1>1
<1>3. CASE a.cut = "first"
  <2>1. w = <<"(">> \o s
    BY <1>3 DEF Uncut
  <2> DEFINE S == ToSet(s) \cup {"("}
  <2>2. s \in Seq(S) /\ <<"(">> \in Seq(S)
    BY <1>1
  <2>3. w \in Seq(S) /\ Len(w) = Len(s) + 1 /\ w[1] = "("
        /\ \A i \in 1 .. Len(s) : w[i + 1] = s[i]
    BY <1>2, <2>1, <2>2
  <2>4. w \in Seq(ToSet(w)) /\ Len(w) > 2
    BY <1>1, <2>3 DEF ToSet, IsWritten
  <2>5. w[Len(w)] = ")" /\ w[2] # "("
    BY <1>1, <2>4, WrittenEnds
  <2>6. s[Len(s)] = ")" /\ s[1] # "("
    BY <1>2, <2>3, <2>4, <2>5
  <2>7. Wrapped(s) = s
    BY <2>6 DEF Wrapped, Last
  <2>8. ToSet(w) = ToSet(s) \cup {"("}
    <3>1. DOMAIN w = 1 .. Len(s) + 1
      BY <1>2, <2>3
    <3>2. \A i \in 1 .. Len(s) + 1 : i = 1 \/ (i - 1 \in 1 .. Len(s) /\ w[i] = s[i - 1])
      BY <1>2, <2>3
    <3>3. \A i \in 1 .. Len(s) : i + 1 \in 1 .. Len(s) + 1 /\ w[i + 1] = s[i]
      BY <1>2, <2>3
    <3>4. ToSet(w) = {w[i] : i \in 1 .. Len(s) + 1} /\ ToSet(s) = {s[i] : i \in 1 .. Len(s)}
      BY <1>2, <3>1 DEF ToSet
    <3>5. ToSet(w) \subseteq ToSet(s) \cup {"("}
      BY <2>3, <3>2, <3>4
    <3>6. ToSet(s) \cup {"("} \subseteq ToSet(w)
      <4>1. 1 \in 1 .. Len(s) + 1
        BY <1>2
      <4> QED BY <2>3, <3>3, <3>4, <4>1
    <3> QED BY <3>5, <3>6
  <2>9. "\\" \notin ToSet(s) /\ ToSet(s) \cap Signs # {}
    BY <1>1, <2>8 DEF IsWritten, Signs, Operators
  <2> QED BY <1>1, <1>2, <1>3, <2>3, <2>4, <2>7, <2>9
<1>4. CASE a.cut = "last"
  <2>1. w = Append(s, ")")
    BY <1>4 DEF Uncut
  <2> DEFINE S == ToSet(s) \cup {")"}
  <2>2. s \in Seq(S)
    BY <1>1
  <2>3. w \in Seq(S) /\ Len(w) = Len(s) + 1 /\ w[Len(s) + 1] = ")"
        /\ \A i \in 1 .. Len(s) : w[i] = s[i]
    BY <1>2, <2>1, <2>2, AppendProperties
  <2>4. w \in Seq(ToSet(w)) /\ Len(w) > 2
    BY <1>1, <2>3 DEF ToSet, IsWritten
  <2>5. s[1] = "("
    BY <1>1, <1>2, <2>3, <2>4, WrittenEnds
  <2>6. Wrapped(s) = s
    BY <2>5 DEF Wrapped
  <2>7. "\\" \notin ToSet(s)
    <3>1. \A i \in DOMAIN s : i \in DOMAIN w /\ w[i] = s[i]
      BY <1>2, <2>3
    <3>2. ToSet(s) \subseteq ToSet(w)
      BY <3>1 DEF ToSet
    <3> QED BY <1>1, <3>2 DEF IsWritten
  <2> QED BY <1>1, <1>2, <1>4, <2>3, <2>4, <2>6, <2>7
<1> QED BY <1>1, <1>3, <1>4

(***************************************************************************)
(* Steps of the parser on such a text.                                     *)
(***************************************************************************)
\* The form a text was cut from does not change, and what is Refused stays so.
LEMMA RefusedKeeps ==
    ASSUME CutText, asked.cut # "none", UNCHANGED <<asked, text>>, stack' = stack,
           pos' \in 1 .. Len(text) + 1, escaped' = FALSE, outcome' = Refused
    PROVE  CutText'
<1>1. ~(outcome' = NoNode)
  BY DEF Refused, NoNode
<1> QED BY <1>1 DEF CutText, FirstMissing, LastMissing, ToSet

LEMMA PlainToken ==
    ASSUME CutText, asked.cut # "none", Other
    PROVE  CutText'
<1> DEFINE w == Uncut(asked)
<1>1. /\ asked' = asked /\ text' = text /\ stack' = stack /\ sf' = sf /\ outcome' = outcome
      /\ pos' = pos + 1 /\ escaped' = (text[pos] = "\\")
      /\ outcome = NoNode /\ pos \in 1 .. Len(text) /\ text[pos] \notin {"(", ")"}
  BY DEF CutText, Other, Reading
<1>2. /\ text = asked.text /\ asked \in Asked /\ text \in Seq(ToSet(text)) /\ Len(text) \in Nat
      /\ DOMAIN text = 1 .. Len(text) /\ "\\" \notin ToSet(text)
      /\ Len(w) = Len(text) + 1 /\ w \in Seq(ToSet(w)) /\ IsWritten(w)
  BY CutForms DEF CutText
<1>3. escaped' = FALSE
  BY <1>1, <1>2 DEF ToSet
<1>4. ASSUME asked.cut = "first" PROVE FirstMissing'
  <2>1. w[pos + 1] = text[pos] /\ w[Len(w)] = ")"
    BY <1>1, <1>2, <1>4, CutForms, WrittenEnds
  <2>2. pos # Len(text)
    BY <1>1, <1>2, <2>1
  <2>3. Depth(w, pos) \in Int /\ Depth(w, pos + 1) = Depth(w, pos) + 0
    BY <1>1, <2>1, DepthNext DEF Turn
  <2>4. Len(stack) = Depth(w, pos) - 1
    BY <1>1, <1>4 DEF CutText, FirstMissing
  <2>5. pos + 1 <= Len(text) /\ Len(stack) = Depth(w, pos + 1) - 1
    BY <1>1, <1>2, <2>2, <2>3, <2>4
  <2> QED BY <1>1, <2>5 DEF FirstMissing
<1>5. ASSUME asked.cut = "last" PROVE LastMissing'
  <2>1. w[pos] = text[pos]
    BY <1>1, <1>2, <1>5, CutForms
  <2>2. Depth(w, pos - 1) \in Int /\ Depth(w, pos) = Depth(w, pos - 1) + 0
    <3>1. pos - 1 \in Nat /\ (pos - 1) + 1 = pos
      BY <1>1
    <3>2. Depth(w, pos - 1) \in Int /\ Depth(w, (pos - 1) + 1) = Depth(w, pos - 1) + Turn(w[(pos - 1) + 1])
      BY <3>1, DepthNext
    <3> QED BY <1>1, <2>1, <3>1, <3>2 DEF Turn
  <2>3. LastMissing
    BY <1>5 DEF CutText
  <2>4. Len(stack) = Depth(w, (pos + 1) - 1)
    BY <1>1, <2>2, <2>3 DEF LastMissing
  <2>5. Closing => Closing'
    <3>1. ASSUME Closing, NEW j \in pos + 1 .. Len(text), text[j] = "("
          PROVE  \E k \in pos + 1 .. j - 1 : text[k] = ")"
      <4>1. PICK k \in pos .. j - 1 : text[k] = ")"
        BY <1>1, <3>1 DEF Closing
      <4> QED BY <1>1, <4>1
    <3> QED BY <1>1, <3>1 DEF Closing
  <2> QED BY <1>1, <2>3, <2>4, <2>5 DEF LastMissing
<1>6. pos' \in 1 .. Len(text) + 1
  BY <1>1, <1>2
<1> QED BY <1>1, <1>3, <1>4, <1>5, <1>6 DEF CutText, ToSet

LEMMA PushedLogic ==
    ASSUME NEW next \in {"&", "|", "!"} PROVE LogicNode(Pushed(next))
<1>1. DOMAIN LogicKinds = {"and", "or", "not"} /\ LogicKinds["and"] = "&" /\ LogicKinds["or"] = "|"
      /\ LogicKinds["not"] = "!"
  BY DEF LogicKinds
<1>2. PICK kind \in DOMAIN LogicKinds : Pushed(next) = Logic(kind, <<>>)
  BY <1>1 DEF Pushed
<1> QED BY <1>2 DEF LogicNode, IsLogic, Logic

LEMMA OpenKeeps ==
    ASSUME CutText, asked.cut # "none", Open
    PROVE  CutText'
<1> DEFINE w == Uncut(asked)
<1>1. /\ asked' = asked /\ text' = text /\ sf' = sf /\ escaped' = FALSE
      /\ pos' = pos + 1 /\ outcome = NoNode /\ pos \in 1 .. Len(text) /\ text[pos] = "("
  BY DEF CutText, Open, Reading
<1>2. /\ text = asked.text /\ asked \in Asked /\ text \in Seq(ToSet(text)) /\ Len(text) \in Nat
      /\ Len(w) = Len(text) + 1 /\ w \in Seq(ToSet(w)) /\ IsWritten(w)
  BY CutForms DEF CutText
<1>3. pos' \in 1 .. Len(text) + 1
  BY <1>1, <1>2
<1>4. CASE pos = Len(text)
  <2>1. outcome' = Refused /\ stack' = stack
    BY <1>4 DEF Open
  <2> QED BY <1>1, <1>3, <2>1, RefusedKeeps
<1>5. CASE pos # Len(text)
  <2> DEFINE top == Pushed(text[pos + 1])
             S == ToSet(stack) \cup {top}
  <2>1. stack' = Append(stack, top) /\ outcome' = NoNode
    BY <1>1, <1>5 DEF Open
  <2>2. stack \in Seq(S) /\ Len(stack) \in Nat
    BY DEF CutText
  <2>3. /\ stack' \in Seq(S) /\ Len(stack') = Len(stack) + 1
        /\ \A k \in 1 .. Len(stack) : stack'[k] = stack[k]
        /\ stack'[Len(stack) + 1] = top
    BY <2>1, <2>2, AppendProperties
  <2>4. stack' \in Seq(ToSet(stack)')
    BY <2>3 DEF ToSet
  <2>5. ASSUME asked.cut = "first" PROVE FirstMissing'
    <3>1. w[pos + 1] = "("
      BY <1>1, <1>2, <2>5, CutForms
    <3>2. Depth(w, pos) \in Int /\ Depth(w, pos + 1) = Depth(w, pos) + 1
      BY <1>1, <3>1, DepthNext DEF Turn
    <3>3. Len(stack) = Depth(w, pos) - 1
      BY <1>1, <2>5 DEF CutText, FirstMissing
    <3>4. pos + 1 <= Len(text) /\ Len(stack') = Depth(w, pos + 1) - 1
      BY <1>1, <1>2, <1>5, <2>3, <3>2, <3>3
    <3> QED BY <1>1, <3>4 DEF FirstMissing
  <2>6. ASSUME asked.cut = "last" PROVE LastMissing'
    <3>1. \A i \in 1 .. Len(text) : w[i] = text[i]
      BY <1>2, <2>6, CutForms
    <3>2. Depth(w, pos - 1) \in Int /\ Depth(w, pos) = Depth(w, pos - 1) + 1
      <4>1. pos - 1 \in Nat /\ (pos - 1) + 1 = pos /\ w[pos] = "("
        BY <1>1, <3>1
      <4>2. Depth(w, pos - 1) \in Int /\ Depth(w, (pos - 1) + 1) = Depth(w, pos - 1) + Turn(w[(pos - 1) + 1])
        BY <4>1, DepthNext
      <4> QED BY <4>1, <4>2 DEF Turn
    <3>3. LastMissing
      BY <2>6 DEF CutText
    <3>4. sf' = NoNode /\ Len(stack') = Depth(w, (pos + 1) - 1)
      BY <1>1, <2>3, <3>2, <3>3 DEF LastMissing
    <3>5. ~Closing
      BY <1>1 DEF Closing
    <3>6. \A k \in 1 .. Len(stack) : LogicNode(stack[k])
      <4>1. stack = <<>> \/ LogicNode(stack[Len(stack)])
        BY <1>1, <3>3, <3>5 DEF LastMissing, Last
      <4> QED BY <1>1, <2>2, <3>3, <4>1 DEF LastMissing
    <3>7. \A k \in 1 .. Len(stack') - 1 : LogicNode(stack'[k])
      BY <2>2, <2>3, <3>6
    <3>8. LogicNode(Last(stack')) \/ Closing'
      <4>1. CASE text[pos + 1] \in {"&", "|", "!"}
        BY <2>3, <4>1, PushedLogic DEF Last
      <4>2. CASE text[pos + 1] \notin {"&", "|", "!"}
        <5>1. pos \in 1 .. Len(w) - 1 /\ w[pos] = "(" /\ w[pos + 1] \notin {"&", "|", "!"}
          BY <1>1, <1>2, <1>5, <3>1, <4>2
        <5>2. PICK j \in pos + 1 .. Len(w) : w[j] = ")" /\ \A k \in pos + 1 .. j : w[k] # "("
          BY <1>2, <5>1 DEF IsWritten
        <5>3. ASSUME NEW i \in pos + 1 .. Len(text), text[i] = "("
              PROVE  \E k \in pos + 1 .. i - 1 : text[k] = ")"
          <6>1. w[i] = "(" /\ i \in 1 .. Len(text) /\ j \in 1 .. Len(w)
            BY <1>1, <1>2, <3>1, <5>3
          <6>2. j < i
            BY <1>1, <5>2, <6>1
          <6>3. j \in pos + 1 .. i - 1 /\ j \in 1 .. Len(text)
            BY <1>1, <1>2, <6>1, <6>2
          <6> QED BY <3>1, <5>2, <6>3
        <5> QED BY <1>1, <5>3 DEF Closing
      <4> QED BY <4>1, <4>2
    <3> QED BY <1>1, <3>4, <3>7, <3>8 DEF LastMissing, LogicNode, IsLogic, Last
  <2> QED BY <1>1, <1>3, <2>1, <2>4, <2>5, <2>6 DEF CutText
<1> QED BY <1>4, <1>5

LEMMA GrownIsLogic ==
    ASSUME NEW entry, LogicNode(entry), NEW value
    PROVE  LogicNode([entry EXCEPT !.value = value])
<1>1. entry = Logic(entry.kind, entry.value) /\ entry.kind \in DOMAIN LogicKinds
  BY DEF LogicNode, IsLogic
<1>2. [entry EXCEPT !.value = value] = Logic(entry.kind, value)
  <2> DEFINE kind == entry.kind
             old == entry.value
  <2>1. entry = [kind |-> kind, value |-> old]
    BY <1>1 DEF Logic
  <2> HIDE DEF kind, old
  <2>2. [entry EXCEPT !.value = value] = [kind |-> kind, value |-> value]
    BY <2>1
  <2> QED BY <2>2 DEF Logic, kind
<1>3. Logic(entry.kind, value).kind = entry.kind
      /\ Logic(entry.kind, value) = Logic(Logic(entry.kind, value).kind, Logic(entry.kind, value).value)
  BY DEF Logic
<1> QED BY <1>1, <1>2, <1>3 DEF LogicNode, IsLogic

\* What pop leaves of a stack, and what is left when its last node got a part.
LEMMA PopLeaves ==
    ASSUME stack \in Seq(ToSet(stack)), stack # <<>>, NEW node, Popped(node)
    PROVE  /\ stack' \in Seq(ToSet(stack)') /\ Len(stack') = Len(stack) - 1 /\ Len(stack) \in Nat
           /\ \A k \in 1 .. Len(stack) - 2 : stack'[k] = stack[k]
           /\ Len(stack) > 1 /\ LogicNode(stack[Len(stack) - 1]) =>
                  sf' = sf /\ LogicNode(stack'[Len(stack) - 1])
<1> DEFINE rest == Front(stack)
           n == Len(stack)
           S == ToSet(stack)
<1>1. n \in Nat \ {0}
  BY EmptySeq
<1>2. rest \in Seq(S) /\ Len(rest) = n - 1 /\ \A k \in 1 .. n - 1 : rest[k] = stack[k]
  <2>1. rest = SubSeq(stack, 1, n - 1)
    BY DEF Front
  <2>2. stack \in Seq(S) /\ \A k \in 1 .. n - 1 : stack[k] \in S
    BY <1>1
  <2> HIDE DEF rest, S
  <2>3. /\ SubSeq(stack, 1, n - 1) \in Seq(S)
        /\ Len(SubSeq(stack, 1, n - 1)) = IF 1 <= n - 1 THEN (n - 1) - 1 + 1 ELSE 0
        /\ \A i \in 1 .. (n - 1) - 1 + 1 : SubSeq(stack, 1, n - 1)[i] = stack[1 + i - 1]
    BY <1>1, <2>2, SubSeqProperties
  <2> HIDE DEF n
  <2>4. \A k \in 1 .. n - 1 : rest[k] = stack[k]
    BY <1>1, <2>1, <2>3
  <2>5. Len(rest) = n - 1
    BY <1>1, <2>1, <2>3
  <2> QED BY <2>1, <2>3, <2>4, <2>5
<1>3. CASE rest # <<>> /\ IsLogic(Last(rest))
  <2> DEFINE grown == [Last(rest) EXCEPT !.value = Append(@, node)]
  <2>1. stack' = [rest EXCEPT ![n - 1] = grown] /\ sf' = sf
    BY <1>2, <1>3 DEF Popped, ReplaceAt
  <2>2. n - 1 \in 1 .. Len(rest) /\ rest \in Seq(S \cup {grown})
    <3>1. Len(rest) # 0
      BY <1>2, <1>3, EmptySeq
    <3> QED BY <1>1, <1>2, <3>1
  <2> HIDE DEF grown, rest
  <2>3. /\ stack' \in Seq(S \cup {grown}) /\ Len(stack') = n - 1
        /\ \A k \in 1 .. n - 1 : stack'[k] = IF k = n - 1 THEN grown ELSE rest[k]
    BY <1>2, <2>1, <2>2, ExceptSeq
  <2>4. stack' \in Seq(ToSet(stack)')
    BY <2>3 DEF ToSet
  <2>5. Last(rest) = stack[n - 1]
    BY <1>1, <1>2, <2>2 DEF Last
  <2>6. LogicNode(stack[n - 1]) => LogicNode(grown)
    BY <2>5, GrownIsLogic DEF grown
  <2> QED BY <1>1, <1>2, <2>1, <2>2, <2>3, <2>4, <2>6
<1>4. CASE ~(rest # <<>> /\ IsLogic(Last(rest)))
  <2>1. stack' = rest
    BY <1>4 DEF Popped
  <2>2. stack' \in Seq(ToSet(stack)')
    BY <1>2, <2>1 DEF ToSet
  <2>3. ~(n > 1 /\ LogicNode(stack[n - 1]))
    <3> SUFFICES ASSUME n > 1, LogicNode(stack[n - 1]) PROVE FALSE
      OBVIOUS
    <3>1. rest # <<>> /\ Last(rest) = stack[n - 1]
      BY <1>1, <1>2 DEF Last
    <3> QED BY <1>4, <3>1 DEF LogicNode
  <2> QED BY <1>1, <1>2, <2>1, <2>2, <2>3
<1> QED BY <1>3, <1>4

\* With nothing on the stack a closing parenthesis of a text with an operator is refused.
LEMMA NothingToClose ==
    ASSUME text \in Seq(ToSet(text)), Len(text) > 1, text[Len(text)] = ")", text # <<"*", ")">>,
           ToSet(text) \cap Signs # {}
    PROVE  Subquery(NoNode, Len(text) - 1) = Refused
<1> DEFINE sub == SubSeq(text, 1, Len(text) - 1)
           star == <<"*">>
           signed == ToSet(text) \cap Signs # {}
<1>1. Len(text) \in Nat /\ DOMAIN text = 1 .. Len(text)
  OBVIOUS
<1>2. Len(sub) = Len(text) - 1 /\ sub[1] = text[1]
  BY <1>1
<1>3. sub # <<"*">>
  <2>1. ASSUME Len(sub) = 1, sub[1] = "*" PROVE FALSE
    <3>1. Len(text) = 2 /\ text[1] = "*" /\ text[2] = ")"
      BY <1>1, <1>2, <2>1
    <3>2. text = <<"*", ")">>
      BY <1>1, <3>1
    <3> QED BY <3>2
  <2>2. Len(<<"*">>) = 1 /\ <<"*">>[1] = "*"
    OBVIOUS
  <2> HIDE DEF sub
  <2> QED BY <2>1, <2>2
<1> HIDE DEF sub
<1>4. Subquery(NoNode, Len(text) - 1) =
          CASE sub = star -> Atom("all", <<>>, <<>>)
            [] sub # star /\ (sub = <<>> \/ (signed /\ NoNode = NoNode)) -> Refused
            [] sub \notin {star, <<>>} /\ ~signed -> Atom("present", sub, star)
            [] OTHER -> Comparison(1, Len(text) - 1)
  BY DEF Subquery, sub
<1>5. sub # star /\ signed
  BY <1>3
<1> HIDE DEF star, signed
<1> QED BY <1>4, <1>5

LEMMA CloseKeeps ==
    ASSUME CutText, asked.cut # "none", Close
    PROVE  CutText'
<1> DEFINE w == Uncut(asked)
           top == IF stack = <<>> THEN NoNode ELSE Last(stack)
           node == IF IsLogic(top) THEN top ELSE Subquery(top, pos - 1)
<1>1. /\ asked' = asked /\ text' = text /\ escaped' = FALSE
      /\ pos' = pos + 1 /\ outcome = NoNode /\ pos \in 1 .. Len(text) /\ text[pos] = ")"
  BY DEF CutText, Close, Reading
<1>2. /\ text = asked.text /\ asked \in Asked /\ text \in Seq(ToSet(text)) /\ Len(text) \in Nat
      /\ Len(w) = Len(text) + 1 /\ w \in Seq(ToSet(w)) /\ IsWritten(w) /\ Len(text) > 1
      /\ stack \in Seq(ToSet(stack)) /\ Len(stack) \in Nat
  BY CutForms DEF CutText
<1>3. pos' \in 1 .. Len(text) + 1
  BY <1>1, <1>2
<1>4. IF node = Refused THEN outcome' = Refused /\ stack' = stack /\ sf' = sf
      ELSE Popped(node) /\ outcome' = outcome
  BY DEF Close
<1> HIDE DEF node
<1>5. CASE node = Refused
  BY <1>1, <1>3, <1>4, <1>5, RefusedKeeps
<1>6. CASE node # Refused /\ asked.cut = "first"
  <2>1. FirstMissing /\ w[pos + 1] = ")"
    <3>1. w[pos + 1] = asked.text[pos]
      BY <1>1, <1>2, <1>6, CutForms
    <3>2. FirstMissing
      BY <1>6 DEF CutText
    <3> QED BY <1>1, <1>2, <3>1, <3>2
  <2>2. Depth(w, pos) \in Int /\ Depth(w, pos + 1) = Depth(w, pos) - 1
    <3>1. Depth(w, pos) \in Int /\ Depth(w, pos + 1) = Depth(w, pos) + Turn(w[pos + 1])
      BY <1>1, DepthNext
    <3>2. Turn(w[pos + 1]) = -1
      BY <2>1 DEF Turn
    <3> QED BY <3>1, <3>2
  <2>3. Len(stack) = Depth(w, pos) - 1
    BY <1>1, <2>1 DEF FirstMissing
  <2>4. pos # Len(text)
    <3> SUFFICES ASSUME pos = Len(text) PROVE FALSE
      OBVIOUS
    <3>1. Depth(w, pos + 1) = 0
      BY <1>2 DEF IsWritten
    <3>2. stack = <<>>
      BY <1>2, <2>2, <2>3, <3>1, EmptySeq
    <3>3. node = Subquery(NoNode, Len(text) - 1)
      BY <3>2 DEF node, NoNode, IsLogic, LogicKinds
    <3>4. text # <<"*", ")">> /\ ToSet(text) \cap Signs # {}
      BY <1>2, <1>6, CutForms, CutsAssumption
    <3> QED BY <1>1, <1>2, <1>6, <3>3, <3>4, NothingToClose
  <2>5. Depth(w, pos + 1) > 0
    BY <1>1, <1>2, <2>4 DEF IsWritten
  <2>6. stack # <<>>
    BY <2>2, <2>3, <2>5
  <2>7. stack' \in Seq(ToSet(stack)') /\ Len(stack') = Len(stack) - 1
    BY <1>2, <1>4, <1>6, <2>6, PopLeaves
  <2>8. pos + 1 <= Len(text) /\ Len(stack') = Depth(w, pos + 1) - 1
    BY <1>1, <1>2, <2>2, <2>3, <2>4, <2>7
  <2>9. FirstMissing'
    BY <1>1, <2>8 DEF FirstMissing
  <2> QED BY <1>1, <1>3, <1>4, <1>6, <2>7, <2>9 DEF CutText
<1>7. CASE node # Refused /\ asked.cut = "last"
  <2>1. (\A i \in 1 .. Len(text) : w[i] = text[i]) /\ LastMissing
    BY <1>2, <1>7, CutForms DEF CutText
  <2>2. Depth(w, pos - 1) \in Int /\ Depth(w, pos) = Depth(w, pos - 1) - 1
    <3>1. pos - 1 \in Nat /\ (pos - 1) + 1 = pos /\ w[pos] = ")"
      BY <1>1, <2>1
    <3>2. Depth(w, pos - 1) \in Int /\ Depth(w, (pos - 1) + 1) = Depth(w, pos - 1) + Turn(w[(pos - 1) + 1])
      BY <3>1, DepthNext
    <3> QED BY <3>1, <3>2 DEF Turn
  <2>3. Depth(w, pos) > 0
    BY <1>1, <1>2 DEF IsWritten
  <2>4. Len(stack) = Depth(w, pos - 1) /\ Len(stack) > 1 /\ stack # <<>>
    BY <1>1, <2>1, <2>2, <2>3 DEF LastMissing
  <2>5. /\ stack' \in Seq(ToSet(stack)') /\ Len(stack') = Len(stack) - 1
        /\ \A k \in 1 .. Len(stack) - 2 : stack'[k] = stack[k]
        /\ LogicNode(stack[Len(stack) - 1]) => sf' = sf /\ LogicNode(stack'[Len(stack) - 1])
    BY <1>2, <1>4, <1>7, <2>4, PopLeaves
  <2>6. \A k \in 1 .. Len(stack) - 1 : LogicNode(stack[k])
    BY <1>1, <2>1 DEF LastMissing
  <2>7. LogicNode(stack[Len(stack) - 1])
    BY <1>2, <2>4, <2>6
  <2>8. sf' = NoNode /\ Len(stack') = Depth(w, (pos + 1) - 1)
    BY <1>1, <2>1, <2>2, <2>4, <2>5, <2>7 DEF LastMissing
  <2>9. \A k \in 1 .. Len(stack') - 1 : LogicNode(stack'[k])
    BY <1>2, <2>5, <2>6
  <2>10. LogicNode(Last(stack'))
    BY <2>5, <2>7 DEF Last
  <2>11. LastMissing'
    BY <1>1, <2>8, <2>9, <2>10 DEF LastMissing, LogicNode, IsLogic, Last
  <2> QED BY <1>1, <1>3, <1>4, <1>7, <2>5, <2>11 DEF CutText
<1>8. asked.cut \in {"first", "last"}
  BY <1>2, CutForms
<1> QED BY <1>5, <1>6, <1>7, <1>8

\* The text is read up to its last token only if that one was its first parenthesis's.
LEMMA EndKeeps ==
    ASSUME CutText, asked.cut # "none", End
    PROVE  CutText'
<1>1. asked.cut \in {"first", "last"} /\ Len(text) \in Nat
  BY CutForms DEF CutText
<1>2. outcome = NoNode /\ pos > Len(text) /\ pos \in 1 .. Len(text) + 1
  BY DEF End, CutText
<1>3. asked.cut = "last"
  BY <1>1, <1>2 DEF CutText, FirstMissing
<1>4. sf = NoNode
  BY <1>2, <1>3 DEF CutText, LastMissing
<1> QED BY <1>4, RefusedKeeps DEF End, CutText

(***************************************************************************)
(* The theorems about queries.                                             *)
(***************************************************************************)
\* In every reachable state the stack of a text that lost a parenthesis is as deep as the part
\* that was read, and the one that lost its last parenthesis has found no node to return.
THEOREM QueryInvariance == QuerySpec => []CutInv
<1>1. QueryInit => CutInv
  <2> SUFFICES ASSUME QueryInit, asked.cut # "none" PROVE CutText
    BY DEF CutInv
  <2> DEFINE w == Uncut(asked)
  <2>1. /\ asked \in Asked /\ text = asked.text /\ pos = 1 /\ escaped = FALSE /\ stack = <<>>
        /\ sf = NoNode /\ Len(text) \in Nat /\ Len(text) > 1 /\ asked.form = "text"
    BY CutForms DEF QueryInit
  <2>2. outcome = NoNode
    BY <2>1 DEF QueryInit
  <2>3. Depth(w, 0) = 0 /\ (asked.cut = "first" => Depth(w, 1) = 1)
    <3>1. Depth(w, 0 + 1) = Depth(w, 0) + Turn(w[0 + 1])
      BY DepthNext
    <3>2. w[1] = "("
      BY <2>1, CutForms, WrittenEnds
    <3> QED BY <3>1, <3>2, DepthOfNothing DEF Turn
  <2>4. asked.cut = "first" => FirstMissing
    BY <2>1, <2>3 DEF FirstMissing
  <2>5. asked.cut = "last" => LastMissing
    BY <2>1, <2>3 DEF LastMissing
  <2> QED BY <2>1, <2>2, <2>4, <2>5 DEF CutText
<1>2. CutInv /\ [QueryNext]_queryVars => CutInv'
  <2> SUFFICES ASSUME CutInv, [QueryNext]_queryVars, asked'.cut # "none" PROVE CutText'
    BY DEF CutInv
  <2>1. asked' = asked
    BY DEF QueryNext, queryVars, Escaped, Open, Close, Other, End
  <2>2. CutText /\ asked.cut # "none"
    BY <2>1 DEF CutInv
  <2>3. CASE Escaped
    BY <2>2, <2>3 DEF Escaped, CutText
  <2>4. CASE Open
    BY <2>2, <2>4, OpenKeeps
  <2>5. CASE Close
    BY <2>2, <2>5, CloseKeeps
  <2>6. CASE Other
    BY <2>2, <2>6, PlainToken
  <2>7. CASE End
    BY <2>2, <2>7, EndKeeps
  <2>8. CASE UNCHANGED queryVars
    BY <2>2, <2>8 DEF queryVars, CutText, FirstMissing, LastMissing, Closing, ToSet
  <2> QED BY <2>3, <2>4, <2>5, <2>6, <2>7, <2>8 DEF QueryNext
<1> QED BY <1>1, <1>2, PTL DEF QuerySpec

\* A condition of any size that lost its first or its last parenthesis is refused (parse_query).
THEOREM UnclosedAreRefused == QuerySpec => []UnclosedRefused
<1>1. CutInv => UnclosedRefused
  BY DEF CutInv, CutText, UnclosedRefused
<1> QED BY <1>1, QueryInvariance, PTL

-----------------------------------------------------------------------------
(***************************************************************************)
(* What a derivation says of the text.                                     *)
(***************************************************************************)
\* Behind the "(" of a group stands the sign of a logic node, or the name of a condition.
LEMMA GroupEnds ==
    ASSUME NEW groups, NEW w, Derives(groups, w), NEW i \in DOMAIN groups
    PROVE  /\ Len(w) \in Nat /\ DOMAIN w = 1 .. Len(w)
           /\ i \in 1 .. Len(w) /\ w[i] = "(" /\ groups[i].end \in i + 2 .. Len(w)
           /\ w[groups[i].end] = ")" /\ w[i + 1] \notin {"(", ")"}
           /\ IF IsLogic(groups[i].node) THEN IsGroup(w, groups, i) /\ w[i + 1] \in {"&", "|", "!"}
              ELSE IsCondition(w, i, groups[i]) /\ w[i + 1] \notin {"&", "|", "!"}
<1>1. Len(w) \in Nat /\ DOMAIN w = 1 .. Len(w) /\ i \in 1 .. Len(w) /\ w[i] = "("
  BY DEF Derives
<1>2. groups[i].end \in i + 2 .. Len(w) /\ w[groups[i].end] = ")"
  BY DEF Derives
<1>3. CASE IsLogic(groups[i].node)
  <2>1. IsGroup(w, groups, i)
    BY <1>3 DEF Derives
  <2>2. w[i + 1] \in {"&", "|", "!"}
    BY <1>3, <2>1 DEF IsGroup, IsLogic, LogicKinds
  <2> QED BY <1>1, <1>2, <1>3, <2>1, <2>2
<1>4. CASE ~IsLogic(groups[i].node)
  <2>1. IsCondition(w, i, groups[i])
    BY <1>4 DEF Derives
  <2>2. i + 1 \in i + 1 .. groups[i].end - 1
    BY <1>1, <1>2
  <2>3. w[i + 1] \notin {"(", ")"}
    BY <2>1, <2>2 DEF IsCondition
  <2>4. w[i + 1] \notin ToSet(<<"&", "|", "!">>)
    BY <2>1 DEF IsCondition
  <2>5. ToSet(<<"&", "|", "!">>) = {"&", "|", "!"}
    <3> DEFINE s == <<"&", "|", "!">>
    <3>1. DOMAIN s = 1 .. 3 /\ s[1] = "&" /\ s[2] = "|" /\ s[3] = "!"
      OBVIOUS
    <3> HIDE DEF s
    <3>2. ToSet(s) = {"&", "|", "!"}
      BY <3>1 DEF ToSet
    <3> QED BY <3>2 DEF s
  <2> QED BY <1>1, <1>2, <1>4, <2>1, <2>3, <2>4, <2>5
<1> QED BY <1>3, <1>4

\* Behind a part of a group comes the next part or the end of the group.
LEMMA PartPlaces ==
    ASSUME NEW groups, NEW w, Derives(groups, w), NEW i \in DOMAIN groups, IsLogic(groups[i].node)
    PROVE  /\ groups[i].parts \in Seq(DOMAIN groups) /\ Len(groups[i].parts) \in Nat
           /\ DOMAIN groups[i].parts = 1 .. Len(groups[i].parts)
           /\ PartAt(groups, i, Len(groups[i].parts) + 1) = groups[i].end
           /\ \A n \in 1 .. Len(groups[i].parts) :
                 /\ groups[i].parts[n] \in DOMAIN groups
                 /\ PartAt(groups, i, n) = groups[i].parts[n]
                 /\ PartAt(groups, i, n + 1) = groups[groups[i].parts[n]].end + 1
<1> DEFINE parts == groups[i].parts
<1>1. IsGroup(w, groups, i)
  BY GroupEnds
<1>2. /\ parts \in Seq(DOMAIN groups)
      /\ \A k \in DOMAIN parts : parts[k] = PartAt(groups, i, k)
      /\ groups[i].end = PartAt(groups, i, Len(parts) + 1)
  BY <1>1 DEF IsGroup
<1>3. Len(parts) \in Nat /\ DOMAIN parts = 1 .. Len(parts) /\ \A k \in 1 .. Len(parts) : parts[k] \in DOMAIN groups
  BY <1>2
<1>4. \A n \in 1 .. Len(parts) : PartAt(groups, i, n + 1) = groups[parts[n]].end + 1
  <2> TAKE n \in 1 .. Len(parts)
  <2>1. n + 1 # 1 /\ (n + 1) - 1 = n
    OBVIOUS
  <2> QED BY <2>1 DEF PartAt
<1> QED BY <1>2, <1>3, <1>4

(***************************************************************************)
(* Where the parser stands in a written form: in the groups of a path from *)
(* the outermost one inwards.                                              *)
(***************************************************************************)
\* The node of a group with its first n parts.
SoFar(groups, i, n) ==
    Logic(groups[i].node.kind, [k \in 1 .. n |-> groups[groups[i].parts[k]].node])

\* The parser stands in group i, with entry for it on the stack.
Innermost(groups, i, entry, at) ==
    IF IsLogic(groups[i].node)
    THEN \E n \in 0 .. Len(groups[i].parts) :
            /\ entry = SoFar(groups, i, n)
            /\ at = PartAt(groups, i, n + 1) \/ (n = 0 /\ at = i + 1)
    ELSE entry = StartAt(i + 1) /\ at \in i + 1 .. groups[i].end

\* Group j is the next part of group i, of which entry has the parts before.
Around(groups, i, j, entry) ==
    /\ IsLogic(groups[i].node)
    /\ \E n \in 1 .. Len(groups[i].parts) :
          groups[i].parts[n] = j /\ entry = SoFar(groups, i, n - 1)

\* The parser stands at the ")" of group i.
Ended(groups, i, entry, at) ==
    /\ at = groups[i].end
    /\ entry = IF IsLogic(groups[i].node) THEN groups[i].node ELSE StartAt(i + 1)

\* The stack has an entry for each group of the path.
Inside(groups, path, st, at) ==
    /\ path \in Seq(DOMAIN groups) /\ path # <<>> /\ Len(st) = Len(path) /\ path[1] = 1
    /\ \A k \in 1 .. Len(path) - 1 : Around(groups, path[k], path[k + 1], st[k])
    /\ Innermost(groups, path[Len(path)], st[Len(path)], at)

\* What the next token can be, and where it leads.
LEMMA NextToken ==
    ASSUME NEW groups, NEW w, Derives(groups, w), NEW i \in DOMAIN groups, NEW entry, NEW at,
           Innermost(groups, i, entry, at)
    PROVE  /\ at \in 1 .. Len(w)
           /\ w[at] = "(" => at \in DOMAIN groups /\ Around(groups, i, at, entry)
           /\ w[at] = ")" => Ended(groups, i, entry, at)
           /\ w[at] \notin {"(", ")"} => Innermost(groups, i, entry, at + 1)
<1>1. /\ Len(w) \in Nat /\ i \in 1 .. Len(w) /\ groups[i].end \in i + 2 .. Len(w)
      /\ w[groups[i].end] = ")" /\ w[i + 1] \notin {"(", ")"}
  BY GroupEnds
<1>2. CASE IsLogic(groups[i].node)
  <2> DEFINE parts == groups[i].parts
  <2>1. PICK n \in 0 .. Len(parts) : /\ entry = SoFar(groups, i, n)
                                     /\ at = PartAt(groups, i, n + 1) \/ (n = 0 /\ at = i + 1)
    BY <1>2 DEF Innermost
  <2>2. /\ Len(parts) \in Nat /\ DOMAIN parts = 1 .. Len(parts)
        /\ PartAt(groups, i, Len(parts) + 1) = groups[i].end
        /\ \A k \in 1 .. Len(parts) : parts[k] \in DOMAIN groups /\ PartAt(groups, i, k) = parts[k]
    BY <1>2, PartPlaces
  <2>3. CASE n = 0 /\ at = i + 1
    <3>1. PartAt(groups, i, n + 1) = i + 2
      BY <2>3 DEF PartAt
    <3>2. Innermost(groups, i, entry, at + 1)
      <4>1. at + 1 = PartAt(groups, i, n + 1)
        BY <1>1, <2>3, <3>1
      <4> QED BY <1>2, <2>1, <4>1 DEF Innermost
    <3> QED BY <1>1, <2>3, <3>2
  <2>4. CASE at = PartAt(groups, i, n + 1) /\ n < Len(parts)
    <3>1. n + 1 \in 1 .. Len(parts) /\ at = parts[n + 1] /\ at \in DOMAIN groups
      BY <2>1, <2>2, <2>4
    <3>2. at \in 1 .. Len(w) /\ w[at] = "("
      BY <3>1, GroupEnds
    <3>3. Around(groups, i, at, entry)
      BY <1>2, <2>1, <3>1 DEF Around
    <3> QED BY <3>1, <3>2, <3>3
  <2>5. CASE at = PartAt(groups, i, n + 1) /\ n = Len(parts)
    <3>1. at = groups[i].end
      BY <2>2, <2>5
    <3>2. entry = groups[i].node
      <4>1. IsGroup(w, groups, i)
        BY <1>2, GroupEnds
      <4>2. groups[i].node = Logic(groups[i].node.kind, [k \in DOMAIN parts |-> groups[parts[k]].node])
        BY <4>1 DEF IsGroup
      <4> QED BY <2>1, <2>2, <2>5, <4>2 DEF SoFar
    <3> QED BY <1>1, <1>2, <3>1, <3>2 DEF Ended
  <2> QED BY <2>1, <2>2, <2>3, <2>4, <2>5
<1>3. CASE ~IsLogic(groups[i].node)
  <2>1. entry = StartAt(i + 1) /\ at \in i + 1 .. groups[i].end
    BY <1>3 DEF Innermost
  <2>2. IsCondition(w, i, groups[i])
    BY <1>3, GroupEnds
  <2>3. \A j \in i + 1 .. groups[i].end - 1 : w[j] \notin {"(", ")"}
    BY <2>2 DEF IsCondition
  <2>4. at # groups[i].end => w[at] \notin {"(", ")"} /\ at + 1 \in i + 1 .. groups[i].end
    BY <1>1, <2>1, <2>3
  <2> QED BY <1>1, <1>3, <2>1, <2>4 DEF Innermost, Ended
<1> QED BY <1>2, <1>3

\* What is pushed for a parenthesis is the first of its group.
LEMMA FirstOfGroup ==
    ASSUME NEW groups, NEW w, Derives(groups, w), NEW i \in DOMAIN groups
    PROVE  Innermost(groups, i, IF IsLogic(groups[i].node) THEN Logic(groups[i].node.kind, <<>>)
                                ELSE StartAt(i + 1), i + 1)
<1>1. groups[i].end \in i + 2 .. Len(w) /\ i \in 1 .. Len(w) /\ Len(w) \in Nat
  BY GroupEnds
<1>2. CASE IsLogic(groups[i].node)
  <2>1. Len(groups[i].parts) \in Nat
    BY <1>2, PartPlaces
  <2>2. [k \in 1 .. 0 |-> groups[groups[i].parts[k]].node] = <<>>
    OBVIOUS
  <2>3. Logic(groups[i].node.kind, <<>>) = SoFar(groups, i, 0)
    BY <2>2 DEF SoFar
  <2> QED BY <1>2, <2>1, <2>3 DEF Innermost
<1>3. CASE ~IsLogic(groups[i].node)
  BY <1>1, <1>3 DEF Innermost
<1> QED BY <1>2, <1>3

\* What an opening parenthesis leads to: the path has a group more.
LEMMA Inwards ==
    ASSUME NEW groups, NEW w, Derives(groups, w), NEW path, NEW T, NEW st \in Seq(T), NEW at,
           Inside(groups, path, st, at), w[at] = "(",
           NEW entry, Innermost(groups, at, entry, at + 1)
    PROVE  Inside(groups, Append(path, at), Append(st, entry), at + 1)
<1> DEFINE n == Len(path)
           more == Append(path, at)
           pushed == Append(st, entry)
<1>1. /\ path \in Seq(DOMAIN groups) /\ n \in Nat \ {0} /\ Len(st) = n /\ path[1] = 1
      /\ \A k \in 1 .. n - 1 : Around(groups, path[k], path[k + 1], st[k])
      /\ Innermost(groups, path[n], st[n], at) /\ path[n] \in DOMAIN groups
  BY EmptySeq DEF Inside
<1>2. at \in DOMAIN groups /\ Around(groups, path[n], at, st[n])
  BY <1>1, NextToken
<1>3. /\ more \in Seq(DOMAIN groups) /\ more # <<>> /\ Len(more) = n + 1 /\ more[n + 1] = at
      /\ \A k \in 1 .. n : more[k] = path[k]
  BY <1>1, <1>2, AppendProperties
<1>4. Len(pushed) = n + 1 /\ pushed[n + 1] = entry /\ \A k \in 1 .. n : pushed[k] = st[k]
  <2>1. st \in Seq(T \cup {entry}) /\ entry \in T \cup {entry}
    OBVIOUS
  <2> QED BY <1>1, <2>1, AppendProperties
<1> HIDE DEF n, more, pushed
<1>5. ASSUME NEW k \in 1 .. Len(more) - 1 PROVE Around(groups, more[k], more[k + 1], pushed[k])
  <2>1. k \in 1 .. n
    BY <1>1, <1>3
  <2>2. CASE k = n
    BY <1>1, <1>2, <1>3, <1>4, <2>2
  <2>3. CASE k # n
    <3>1. k \in 1 .. n - 1 /\ k + 1 \in 1 .. n
      BY <1>1, <2>1, <2>3
    <3> QED BY <1>1, <1>3, <1>4, <3>1
  <2> QED BY <2>2, <2>3
<1>6. Innermost(groups, more[Len(more)], pushed[Len(more)], at + 1)
  BY <1>3, <1>4
<1>7. Len(pushed) = Len(more) /\ more[1] = 1
  BY <1>1, <1>3, <1>4
<1> QED BY <1>3, <1>5, <1>6, <1>7 DEF Inside, more, pushed

\* What a group's closing leaves: the group around it has a part more.
LEMMA Outwards ==
    ASSUME NEW groups, NEW w, Derives(groups, w), NEW path, NEW st, NEW at, Inside(groups, path, st, at),
           Len(path) > 1, at = groups[path[Len(path)]].end,
           NEW rest, Len(rest) = Len(path) - 1,
           \A k \in 1 .. Len(path) - 2 : rest[k] = st[k],
           rest[Len(path) - 1] = [st[Len(path) - 1] EXCEPT !.value = Append(@, groups[path[Len(path)]].node)]
    PROVE  /\ IsLogic(st[Len(path) - 1])
           /\ Inside(groups, SubSeq(path, 1, Len(path) - 1), rest, at + 1)
<1> DEFINE m == Len(path) - 1
           out == SubSeq(path, 1, m)
<1>1. /\ path \in Seq(DOMAIN groups) /\ Len(path) \in Nat /\ m \in Nat \ {0} /\ path[1] = 1
      /\ \A k \in 1 .. m : Around(groups, path[k], path[k + 1], st[k])
      /\ \A k \in 1 .. m : path[k] \in DOMAIN groups
  BY DEF Inside
<1>2. out \in Seq(DOMAIN groups) /\ Len(out) = m /\ \A k \in 1 .. m : out[k] = path[k]
  <2>1. \A k \in 1 .. m : path[1 + k - 1] = path[k]
    BY <1>1
  <2>2. /\ SubSeq(path, 1, m) \in Seq(DOMAIN groups)
        /\ Len(SubSeq(path, 1, m)) = IF 1 <= m THEN m - 1 + 1 ELSE 0
        /\ \A k \in 1 .. m - 1 + 1 : SubSeq(path, 1, m)[k] = path[1 + k - 1]
    BY <1>1, SubSeqProperties
  <2> HIDE DEF m
  <2> QED BY <1>1, <2>1, <2>2
<1> HIDE DEF out
<1> DEFINE i == path[m]
           j == path[m + 1]
<1>3. i \in DOMAIN groups /\ Around(groups, i, j, st[m]) /\ j = path[Len(path)] /\ m + 1 = Len(path)
  BY <1>1
<1>4. PICK n \in 1 .. Len(groups[i].parts) :
          groups[i].parts[n] = j /\ st[m] = SoFar(groups, i, n - 1) /\ IsLogic(groups[i].node)
  BY <1>3 DEF Around
<1>5. /\ Len(groups[i].parts) \in Nat
      /\ PartAt(groups, i, n + 1) = groups[j].end + 1
  BY <1>3, <1>4, PartPlaces
<1>6. IsLogic(st[m])
  <2>1. SoFar(groups, i, n - 1).kind = groups[i].node.kind
    BY DEF SoFar, Logic
  <2> QED BY <1>4, <2>1 DEF IsLogic
<1>7. rest[m] = SoFar(groups, i, n)
  <2> DEFINE Part(k) == groups[groups[i].parts[k]].node
             before == [k \in 1 .. n - 1 |-> Part(k)]
             after == [k \in 1 .. n |-> Part(k)]
             kind == groups[i].node.kind
  <2>1. st[m] = [kind |-> kind, value |-> before]
    BY <1>4 DEF SoFar, Logic
  <2>2. Append(before, Part(n)) = after
    <3> HIDE DEF Part
    <3>1. n - 1 \in Nat /\ (n - 1) + 1 = n
      OBVIOUS
    <3> DEFINE S == {Part(k) : k \in 1 .. n}
    <3>2. before \in Seq(S) /\ Len(before) = n - 1 /\ Part(n) \in S /\ after \in Seq(S) /\ Len(after) = n
      <4>1. \A k \in 1 .. n : Part(k) \in S
        OBVIOUS
      <4> HIDE DEF S
      <4>2. n \in Nat /\ n - 1 \in Nat /\ n \in 1 .. n /\ 1 .. n - 1 \subseteq 1 .. n
        OBVIOUS
      <4>3. before \in Seq(S) /\ Len(before) = n - 1
        BY <4>1, <4>2
      <4>4. after \in Seq(S) /\ Len(after) = n
        BY <4>1, <4>2
      <4> QED BY <4>1, <4>2, <4>3, <4>4
    <3> HIDE DEF S
    <3>3. /\ Append(before, Part(n)) \in Seq(S) /\ Len(Append(before, Part(n))) = Len(before) + 1
          /\ \A k \in 1 .. Len(before) : Append(before, Part(n))[k] = before[k]
          /\ Append(before, Part(n))[Len(before) + 1] = Part(n)
      BY <3>2, AppendProperties
    <3>4. \A k \in 1 .. n : Append(before, Part(n))[k] = after[k]
      BY <3>1, <3>2, <3>3
    <3>5. Len(Append(before, Part(n))) = Len(after)
      BY <3>1, <3>2, <3>3
    <3> HIDE DEF before, after
    <3> QED BY <3>2, <3>3, <3>4, <3>5, SeqEqual
  <2>3. rest[m] = [st[m] EXCEPT !.value = Append(@, Part(n))]
    BY <1>3, <1>4
  <2> HIDE DEF Part, before, after, kind
  <2>4. rest[m] = [kind |-> kind, value |-> Append(before, Part(n))]
    BY <2>1, <2>3
  <2>5. rest[m] = [kind |-> kind, value |-> after]
    BY <2>2, <2>4
  <2> QED BY <2>5 DEF SoFar, Logic, kind, after, Part
<1>8. Innermost(groups, i, rest[m], at + 1)
  <2>1. at + 1 = PartAt(groups, i, n + 1)
    BY <1>3, <1>5
  <2>2. n \in 0 .. Len(groups[i].parts)
    BY <1>5
  <2> QED BY <1>4, <1>7, <2>1, <2>2 DEF Innermost
<1>9. ASSUME NEW k \in 1 .. Len(out) - 1 PROVE Around(groups, out[k], out[k + 1], rest[k])
  <2>1. k \in 1 .. m /\ k + 1 \in 1 .. m /\ k \in 1 .. Len(path) - 2
    BY <1>1, <1>2
  <2>2. Around(groups, path[k], path[k + 1], st[k])
    BY <1>1, <2>1
  <2> QED BY <1>2, <2>1, <2>2
<1>10. out # <<>> /\ Len(rest) = Len(out) /\ out[1] = 1 /\ out[Len(out)] = i
  BY <1>1, <1>2
<1>11. Inside(groups, out, rest, at + 1)
  BY <1>2, <1>8, <1>9, <1>10 DEF Inside
<1> QED BY <1>6, <1>11 DEF out

(***************************************************************************)
(* subquery on a condition of a written form.                              *)
(***************************************************************************)
\* A slice of one token.
LEMMA OneToken == ASSUME NEW s, NEW n \in Int PROVE SubSeq(s, n, n) = <<s[n]>>
<1> DEFINE S == {s[n]}
           one == <<s[n]>>
<1>1. one \in Seq(S) /\ Len(one) = 1 /\ one[1] = s[n]
  OBVIOUS
<1>2. /\ SubSeq(s, n, n) \in Seq(S) /\ Len(SubSeq(s, n, n)) = IF n <= n THEN n - n + 1 ELSE 0
      /\ \A i \in 1 .. n - n + 1 : SubSeq(s, n, n)[i] = s[n + i - 1]
  <2>1. \A i \in n .. n : s[i] \in S
    OBVIOUS
  <2> HIDE DEF S
  <2> QED BY <2>1, SubSeqProperties
<1>3. Len(SubSeq(s, n, n)) = 1 /\ SubSeq(s, n, n)[1] = s[n]
  BY <1>2
<1> HIDE DEF one, S
<1>4. SubSeq(s, n, n) = one
  BY <1>1, <1>2, <1>3, SeqEqual
<1> QED BY <1>4 DEF one

\* The name of a written condition is one token.
LEMMA NameEndsAtOperator ==
    ASSUME NEW i \in Nat, NEW end \in Nat, i + 2 < end, text[i + 1] \notin Operators,
           text[i + 2] \in Operators
    PROVE  NameEnd(i + 1, end) = i + 2
<1> DEFINE At == {j \in i + 1 .. end - 1 : text[j] \in Operators}
<1>1. i + 2 \in At /\ \A j \in At : i + 2 <= j /\ j \in Nat
  <2>1. \A j \in i + 1 .. end - 1 : j = i + 1 \/ i + 2 <= j
    OBVIOUS
  <2> QED BY <2>1
<1>2. NameEnd(i + 1, end) = CHOOSE k \in At : \A j \in At : k <= j
  BY <1>1 DEF NameEnd
<1> HIDE DEF At
<1>3. \A k \in At : (\A j \in At : k <= j) => k = i + 2
  BY <1>1
<1> QED BY <1>1, <1>2, <1>3

\* Behind the name: an equality, or an ordering with the "=" of its operator.
LEMMA ComparisonIsRead ==
    ASSUME NEW i \in Nat, NEW end \in Nat, NEW kind,
           text[i + 1] \notin Operators, text[i + 2] \in Operators, i + 2 < end
    PROVE  /\ text[i + 2] = "=" =>
                 Comparison(i + 1, end) = Equality(<<text[i + 1]>>, SubSeq(text, i + 3, end))
           /\ kind \in DOMAIN Orderings /\ text[i + 2] = Orderings[kind] /\ text[i + 3] = "=" /\ i + 4 <= end =>
                 Comparison(i + 1, end) = Atom(kind, <<text[i + 1]>>, SubSeq(text, i + 4, end))
<1> DEFINE op == NameEnd(i + 1, end)
           name == SubSeq(text, i + 1, op - 1)
           From(first) == SubSeq(text, first, end)
           Ordered(k) == IF text[op + 1] = "=" /\ op + 2 <= end THEN Atom(k, name, From(op + 2)) ELSE Refused
<1>1. op = i + 2
  BY NameEndsAtOperator
<1>2. name = <<text[i + 1]>>
  <2>1. op - 1 = i + 1 /\ i + 1 \in Int
    BY <1>1
  <2> QED BY <2>1, OneToken
<1>3. Comparison(i + 1, end) =
        CASE op <= i + 1 -> Refused
          [] op > i + 1 /\ text[op] = "=" /\ op < end -> Equality(name, From(op + 1))
          [] op > i + 1 /\ text[op] = "<" -> Ordered("lte")
          [] op > i + 1 /\ text[op] = ">" -> Ordered("gte")
          [] op > i + 1 /\ text[op] = "~" -> Ordered("approx")
          [] OTHER -> Refused
  BY DEF Comparison
<1>4. op + 1 = i + 3 /\ op + 2 = i + 4 /\ ~(op <= i + 1) /\ op > i + 1 /\ op < end
  BY <1>1
<1> HIDE DEF op, name
<1>5. ASSUME text[i + 2] = "="
      PROVE  Comparison(i + 1, end) = Equality(<<text[i + 1]>>, SubSeq(text, i + 3, end))
  BY <1>1, <1>2, <1>3, <1>4, <1>5
<1>6. ASSUME kind \in DOMAIN Orderings, text[i + 2] = Orderings[kind], text[i + 3] = "=", i + 4 <= end
      PROVE  Comparison(i + 1, end) = Atom(kind, <<text[i + 1]>>, SubSeq(text, i + 4, end))
  <2>1. Ordered(kind) = Atom(kind, <<text[i + 1]>>, SubSeq(text, i + 4, end))
    BY <1>2, <1>4, <1>6
  <2>2. \/ kind = "lte" /\ text[op] = "<"
        \/ kind = "gte" /\ text[op] = ">"
        \/ kind = "approx" /\ text[op] = "~"
    BY <1>1, <1>6 DEF Orderings
  <2> HIDE DEF Ordered
  <2>3. Comparison(i + 1, end) = Ordered(kind)
    BY <1>3, <1>4, <2>2
  <2> QED BY <2>1, <2>3
<1> QED BY <1>5, <1>6

\* The value of an equality tells presence, a substring and a word apart.
LEMMA EqualityIsRead ==
    ASSUME NEW name, NEW value, value \in Seq(ToSet(value))
    PROVE  /\ "*" \notin ToSet(value) => Equality(name, value) = Atom("eq", name, value)
           /\ value = <<"*">> => Equality(name, value) = Atom("present", name, value)
           /\ "*" \in ToSet(value) /\ Len(value) # 1 => Equality(name, value) = Atom("substring", name, value)
<1>1. Contains(value, "*") <=> "*" \in ToSet(value)
  BY DEF Contains, ToSet
<1>2. value = <<"*">> => Len(value) = 1 /\ "*" \in ToSet(value)
  <2> SUFFICES ASSUME value = <<"*">> PROVE Len(value) = 1 /\ "*" \in ToSet(value)
    OBVIOUS
  <2>1. Len(value) = 1 /\ 1 \in DOMAIN value /\ value[1] = "*"
    OBVIOUS
  <2> QED BY <2>1 DEF ToSet
<1> DEFINE star == <<"*">>
<1>3. Equality(name, value) =
        CASE value = star -> Atom("present", name, value)
          [] value # star /\ Contains(value, "*") -> Atom("substring", name, value)
          [] OTHER -> Atom("eq", name, value)
  BY DEF Equality
<1>4. value = star => Len(value) = 1 /\ "*" \in ToSet(value)
  BY <1>2
<1> HIDE DEF star
<1>5. /\ "*" \notin ToSet(value) => Equality(name, value) = Atom("eq", name, value)
      /\ value = star => Equality(name, value) = Atom("present", name, value)
      /\ "*" \in ToSet(value) /\ Len(value) # 1 => Equality(name, value) = Atom("substring", name, value)
  BY <1>1, <1>3, <1>4
<1> QED BY <1>5 DEF star

\* subquery makes of a written condition the node it was written from.
LEMMA ConditionIsRead ==
    ASSUME NEW groups, Derives(groups, text), NEW i \in DOMAIN groups, ~IsLogic(groups[i].node)
    PROVE  /\ Subquery(StartAt(i + 1), groups[i].end - 1) = groups[i].node
           /\ groups[i].node # Refused
<1> DEFINE end == groups[i].end - 1
           node == groups[i].node
           sub == SubSeq(text, i + 1, end)
           Value(first) == SubSeq(text, first, end)
           Compares(kind, first) == first < groups[i].end /\ node = Atom(kind, <<text[i + 1]>>, Value(first))
<1>1. /\ Len(text) \in Nat /\ DOMAIN text = 1 .. Len(text) /\ i \in 1 .. Len(text)
      /\ groups[i].end \in i + 2 .. Len(text) /\ IsCondition(text, i, groups[i])
  BY GroupEnds
<1>2. /\ text[i + 1] \notin Operators
      /\ \/ node = Atom("all", <<>>, <<>>) /\ groups[i].end = i + 2 /\ text[i + 1] = "*"
         \/ Compares("eq", i + 3) /\ text[i + 2] = "=" /\ "*" \notin ToSet(Value(i + 3))
         \/ Compares("present", i + 3) /\ text[i + 2] = "=" /\ Value(i + 3) = <<"*">>
         \/ /\ Compares("substring", i + 3) /\ text[i + 2] = "="
            /\ "*" \in ToSet(Value(i + 3)) /\ groups[i].end > i + 4
         \/ \E kind \in DOMAIN Orderings :
               Compares(kind, i + 4) /\ text[i + 2] = Orderings[kind] /\ text[i + 3] = "="
  BY <1>1 DEF IsCondition
<1>3. node # Refused
  <2>1. \A kind, name, value : Atom(kind, name, value).kind = kind
    BY DEF Atom
  <2>2. node.kind \in {"all", "eq", "present", "substring", "lte", "gte", "approx"}
    BY <1>2, <2>1 DEF Orderings
  <2>3. Refused.kind = "refused"
    BY DEF Refused
  <2> QED BY <2>2, <2>3
<1> DEFINE signed == ToSet(text) \cap Signs # {}
           star == <<"*">>
<1>4. Subquery(StartAt(i + 1), end) =
        CASE sub = star -> Atom("all", <<>>, <<>>)
          [] sub # star /\ (sub = <<>> \/ (signed /\ FALSE)) -> Refused
          [] sub \notin {star, <<>>} /\ ~signed -> Atom("present", sub, star)
          [] OTHER -> Comparison(i + 1, end)
  <2>1. StartAt(i + 1) # NoNode /\ StartAt(i + 1).value = i + 1
    BY DEF StartAt, NoNode
  <2> QED BY <2>1 DEF Subquery
<1>5. CASE node = Atom("all", <<>>, <<>>) /\ groups[i].end = i + 2 /\ text[i + 1] = "*"
  <2>1. sub = <<"*">>
    <3>1. end = i + 1 /\ i + 1 \in Int
      BY <1>1, <1>5
    <3>2. sub = <<text[i + 1]>>
      BY <3>1, OneToken
    <3> QED BY <1>5, <3>2
  <2> HIDE DEF sub, star, signed
  <2>2. sub = star
    BY <2>1 DEF star
  <2>3. Subquery(StartAt(i + 1), end) = Atom("all", <<>>, <<>>)
    BY <1>4, <2>2
  <2> QED BY <1>3, <1>5, <2>3
<1>6. CASE ~(node = Atom("all", <<>>, <<>>) /\ groups[i].end = i + 2 /\ text[i + 1] = "*")
  <2>1. i + 2 < end /\ i \in Nat /\ end \in Nat
    <3>1. i + 3 < groups[i].end
      BY <1>1, <1>2, <1>6
    <3> QED BY <1>1, <3>1
  <2>2. text[i + 2] \in Operators
    BY <1>2, <1>6 DEF Operators, Orderings
  <2>3. sub # <<"*">> /\ sub # <<>>
    <3>1. Len(sub) # 1 /\ Len(sub) # 0
      BY <1>1, <2>1
    <3>2. Len(<<"*">>) = 1 /\ Len(<<>>) = 0
      OBVIOUS
    <3> HIDE DEF sub
    <3>3. sub = <<"*">> => Len(sub) = 1
      BY <3>2
    <3>4. sub = <<>> => Len(sub) = 0
      BY <3>2
    <3> QED BY <3>1, <3>3, <3>4
  <2>4. ToSet(text) \cap Signs # {}
    <3>1. i + 2 \in DOMAIN text
      BY <1>1, <2>1
    <3> QED BY <2>2, <3>1 DEF ToSet, Signs
  <2> HIDE DEF sub
  <2>5. sub # star /\ sub # <<>> /\ signed
    BY <2>3, <2>4
  <2> HIDE DEF star, signed
  <2>6. Subquery(StartAt(i + 1), end) = Comparison(i + 1, end)
    BY <1>4, <2>5
  <2>7. ASSUME text[i + 2] = "=", NEW kind \in {"eq", "present", "substring"}, Compares(kind, i + 3),
               \/ kind = "eq" /\ "*" \notin ToSet(Value(i + 3))
               \/ kind = "present" /\ Value(i + 3) = <<"*">>
               \/ kind = "substring" /\ "*" \in ToSet(Value(i + 3)) /\ groups[i].end > i + 4
        PROVE  Comparison(i + 1, end) = node
    <3>1. Comparison(i + 1, end) = Equality(<<text[i + 1]>>, Value(i + 3))
      BY <1>2, <2>1, <2>2, <2>7, ComparisonIsRead
    <3>2. Value(i + 3) \in Seq(ToSet(Value(i + 3)))
      <4>1. \A j \in i + 3 .. end : text[j] \in ToSet(text)
        BY <1>1 DEF ToSet
      <4>2. i + 3 \in Int /\ end \in Int
        BY <2>1
      <4>3. Value(i + 3) \in Seq(ToSet(text))
        BY <4>1, <4>2, SubSeqProperties
      <4> HIDE DEF Value
      <4> QED BY <4>3 DEF ToSet
    <3>3. groups[i].end > i + 4 => Len(Value(i + 3)) # 1
      BY <1>1, <2>1
    <3> HIDE DEF Value
    <3>4. Equality(<<text[i + 1]>>, Value(i + 3)) = Atom(kind, <<text[i + 1]>>, Value(i + 3))
      <4> DEFINE name == <<text[i + 1]>>
                 value == Value(i + 3)
      <4>1. /\ "*" \notin ToSet(value) => Equality(name, value) = Atom("eq", name, value)
            /\ value = <<"*">> => Equality(name, value) = Atom("present", name, value)
            /\ "*" \in ToSet(value) /\ Len(value) # 1 => Equality(name, value) = Atom("substring", name, value)
        BY <3>2, EqualityIsRead
      <4>2. \/ kind = "eq" /\ "*" \notin ToSet(value)
            \/ kind = "present" /\ value = <<"*">>
            \/ kind = "substring" /\ "*" \in ToSet(value) /\ Len(value) # 1
        BY <2>7, <3>3
      <4> HIDE DEF name, value
      <4>3. Equality(name, value) = Atom(kind, name, value)
        BY <4>1, <4>2, Zenon
      <4> QED BY <4>3 DEF name, value
    <3> QED BY <2>7, <3>1, <3>4
  <2>8. ASSUME NEW kind \in DOMAIN Orderings, Compares(kind, i + 4), text[i + 2] = Orderings[kind], text[i + 3] = "="
        PROVE  Comparison(i + 1, end) = node
    <3>1. i + 4 <= end
      BY <1>1, <2>8
    <3> QED BY <1>2, <2>1, <2>2, <2>8, <3>1, ComparisonIsRead
  <2> HIDE DEF Value, node
  <2>9. Comparison(i + 1, end) = node
    BY <1>2, <1>6, <2>7, <2>8
  <2> QED BY <1>3, <2>6, <2>9 DEF node
<1> QED BY <1>5, <1>6

(***************************************************************************)
(* The parser on a written form.                                           *)
(***************************************************************************)
\* What closes a group of a node on the stack gives the node one part more.
LEMMA PopGives ==
    ASSUME NEW S, stack \in Seq(S), Len(stack) > 1, IsLogic(stack[Len(stack) - 1]), NEW node, Popped(node)
    PROVE  /\ stack' \in Seq(ToSet(stack)') /\ Len(stack') = Len(stack) - 1
           /\ \A k \in 1 .. Len(stack) - 2 : stack'[k] = stack[k]
           /\ stack'[Len(stack) - 1] = [stack[Len(stack) - 1] EXCEPT !.value = Append(@, node)]
<1> DEFINE rest == Front(stack)
           m == Len(stack) - 1
           grown == [stack[m] EXCEPT !.value = Append(@, node)]
<1>1. m \in Nat \ {0} /\ Len(stack) \in Nat /\ stack # <<>> /\ \A k \in 1 .. m : stack[k] \in S
  <2>1. Len(stack) \in Nat /\ Len(stack) > 1 /\ \A k \in 1 .. Len(stack) : stack[k] \in S
    OBVIOUS
  <2>2. stack # <<>>
    BY <2>1, EmptySeq
  <2> QED BY <2>1, <2>2
<1>2. rest \in Seq(S) /\ Len(rest) = m /\ \A k \in 1 .. m : rest[k] = stack[k]
  <2>1. rest = SubSeq(stack, 1, m)
    BY DEF Front
  <2>2. \A k \in 1 .. m : stack[1 + k - 1] = stack[k]
    BY <1>1
  <2> HIDE DEF rest, m
  <2>3. /\ SubSeq(stack, 1, m) \in Seq(S)
        /\ Len(SubSeq(stack, 1, m)) = IF 1 <= m THEN m - 1 + 1 ELSE 0
        /\ \A i \in 1 .. m - 1 + 1 : SubSeq(stack, 1, m)[i] = stack[1 + i - 1]
    BY <1>1, SubSeqProperties
  <2> QED BY <1>1, <2>1, <2>2, <2>3
<1>3. rest # <<>> /\ Last(rest) = stack[m] /\ m \in 1 .. Len(rest)
  BY <1>1, <1>2 DEF Last
<1>4. stack' = [rest EXCEPT ![m] = grown]
  BY <1>1, <1>2, <1>3 DEF Popped, ReplaceAt
<1>5. rest \in Seq(S \cup {grown})
  BY <1>2
<1> HIDE DEF rest, m, grown
<1>6. /\ stack' \in Seq(S \cup {grown}) /\ Len(stack') = m
      /\ \A k \in 1 .. m : stack'[k] = IF k = m THEN grown ELSE rest[k]
  BY <1>2, <1>3, <1>4, <1>5, ExceptSeq
<1>7. stack' \in Seq(ToSet(stack)')
  BY <1>6 DEF ToSet
<1>8. \A k \in 1 .. Len(stack) - 2 : k \in 1 .. m /\ k # m
  BY <1>1 DEF m
<1>9. stack'[m] = grown
  BY <1>1, <1>6
<1> QED BY <1>2, <1>6, <1>7, <1>8, <1>9 DEF m, grown

\* Every text that is a written form is read along a path of its groups, from the first
\* token until its tree is the result.
WholeText ==
    /\ asked \in Asked /\ text = asked.text /\ escaped = FALSE
    /\ stack \in Seq(ToSet(stack))
    /\ outcome \in {NoNode, asked.tree}
    /\ outcome = NoNode =>
          \/ stack = <<>> /\ pos = 1
          \/ stack = <<>> /\ pos = Len(text) + 1 /\ sf = asked.tree
          \/ \E path : Inside(asked.groups, path, stack, pos)

IsText(a) == IsWhole(a) /\ a.form = "text"

\* A written form is not wrapped, and has a group of its own length.
LEMMA TextsDerive ==
    ASSUME NEW a \in Asked, IsText(a)
    PROVE  /\ Derives(a.groups, a.text) /\ a.tree = a.groups[1].node /\ a.tree # NoNode
           /\ 1 \in DOMAIN a.groups /\ a.text[1] = "(" /\ a.groups[1].end = Len(a.text)
           /\ a.text # <<>> /\ Len(a.text) \in Nat /\ Len(a.text) > 2 /\ Wrapped(a.text) = a.text
<1>1. Derives(a.groups, a.text) /\ a.tree = a.groups[1].node /\ a.tree # NoNode
  BY WholeAssumption DEF IsText, IsWhole
<1>2. 1 \in DOMAIN a.groups /\ a.groups[1].end = Len(a.text)
  BY <1>1 DEF Derives
<1>3. a.text[1] = "(" /\ Len(a.text) \in Nat /\ Len(a.text) > 2
  BY <1>1, <1>2, GroupEnds
<1>4. a.text # <<>>
  BY <1>3
<1>5. Wrapped(a.text) = a.text
  BY <1>3 DEF Wrapped
<1> QED BY <1>1, <1>2, <1>3, <1>4, <1>5

\* The innermost group of the path.
LEMMA WherePathEnds ==
    ASSUME NEW groups, NEW w, Derives(groups, w), NEW path, NEW st, NEW at, Inside(groups, path, st, at)
    PROVE  /\ Len(path) \in Nat \ {0} /\ path[Len(path)] \in DOMAIN groups /\ Len(st) = Len(path)
           /\ Innermost(groups, path[Len(path)], st[Len(path)], at) /\ path[1] = 1
           /\ at \in 1 .. Len(w)
<1>1. path \in Seq(DOMAIN groups) /\ path # <<>>
  BY DEF Inside
<1>2. Len(path) \in Nat \ {0} /\ path[Len(path)] \in DOMAIN groups
  BY <1>1, EmptySeq
<1>3. Innermost(groups, path[Len(path)], st[Len(path)], at) /\ path[1] = 1 /\ Len(st) = Len(path)
  BY DEF Inside
<1> QED BY <1>2, <1>3, NextToken

\* parse_query on any other token: the parser goes on in the same group.
LEMMA WholeOther ==
    ASSUME WholeText, IsText(asked), Other
    PROVE  WholeText'
<1> DEFINE groups == asked.groups
<1>1. /\ asked' = asked /\ text' = text /\ stack' = stack /\ sf' = sf /\ outcome' = outcome
      /\ pos' = pos + 1 /\ escaped' = (text[pos] = "\\")
      /\ outcome = NoNode /\ pos <= Len(text) /\ text[pos] \notin {"(", ")"}
  BY DEF Other, Reading
<1>2. /\ Derives(groups, text) /\ text[1] = "(" /\ Len(text) \in Nat
      /\ asked \in Asked /\ text = asked.text
  BY TextsDerive DEF WholeText
<1>3. PICK path : Inside(groups, path, stack, pos)
  BY <1>1, <1>2 DEF WholeText
<1> DEFINE top == path[Len(path)]
<1>4. /\ Len(path) \in Nat \ {0} /\ top \in DOMAIN groups /\ Len(stack) = Len(path)
      /\ Innermost(groups, top, stack[Len(path)], pos) /\ pos \in 1 .. Len(text)
  BY <1>2, <1>3, WherePathEnds
<1>5. Innermost(groups, top, stack[Len(path)], pos + 1)
  BY <1>1, <1>2, <1>4, NextToken
<1>6. Inside(groups, path, stack, pos + 1)
  BY <1>3, <1>5 DEF Inside
<1>7. escaped' = FALSE
  <2>1. text[pos] \in ToSet(text)
    BY <1>2, <1>4 DEF ToSet, Derives
  <2> QED BY <1>1, <1>2, <2>1 DEF Derives
<1> HIDE DEF groups, top
<1>8. \E p : Inside(asked'.groups, p, stack', pos')
  BY <1>1, <1>6 DEF groups
<1> QED BY <1>1, <1>2, <1>7, <1>8 DEF WholeText, ToSet

\* The entry that parse_query pushes is that of the group that begins.
LEMMA PushedFirst ==
    ASSUME NEW groups, Derives(groups, text), pos \in DOMAIN groups
    PROVE  Innermost(groups, pos, Pushed(text[pos + 1]), pos + 1)
<1> DEFINE node == groups[pos].node
<1>1. DOMAIN LogicKinds = {"and", "or", "not"} /\ LogicKinds["and"] = "&" /\ LogicKinds["or"] = "|"
      /\ LogicKinds["not"] = "!"
  BY DEF LogicKinds
<1>2. CASE IsLogic(node)
  <2>1. text[pos + 1] = LogicKinds[node.kind] /\ node.kind \in DOMAIN LogicKinds
    BY <1>2, GroupEnds DEF IsGroup, IsLogic
  <2>2. Pushed(text[pos + 1]) = Logic(node.kind, <<>>)
    <3> DEFINE k == CHOOSE kind \in DOMAIN LogicKinds : LogicKinds[kind] = text[pos + 1]
    <3>1. k \in DOMAIN LogicKinds /\ LogicKinds[k] = text[pos + 1]
      BY <2>1
    <3>2. Pushed(text[pos + 1]) = Logic(k, <<>>)
      BY <2>1 DEF Pushed
    <3> HIDE DEF k
    <3>3. k = node.kind
      BY <1>1, <2>1, <3>1
    <3> QED BY <3>2, <3>3
  <2> QED BY <1>2, <2>2, FirstOfGroup
<1>3. CASE ~IsLogic(node)
  <2>1. text[pos + 1] \notin {"&", "|", "!"}
    BY <1>3, GroupEnds
  <2>2. Pushed(text[pos + 1]) = StartAt(pos + 1)
    BY <1>1, <2>1 DEF Pushed
  <2> QED BY <1>3, <2>2, FirstOfGroup
<1> QED BY <1>2, <1>3

\* parse_query on an opening parenthesis.
LEMMA WholeOpen ==
    ASSUME WholeText, IsText(asked), Open
    PROVE  WholeText'
<1> DEFINE groups == asked.groups
           entry == Pushed(text[pos + 1])
<1>1. /\ asked' = asked /\ text' = text /\ sf' = sf /\ escaped' = escaped /\ pos' = pos + 1
      /\ outcome = NoNode /\ pos <= Len(text) /\ text[pos] = "("
  BY DEF Open, Reading
<1>2. /\ Derives(groups, text) /\ Len(text) \in Nat /\ asked \in Asked /\ text = asked.text
      /\ 1 \in DOMAIN groups /\ stack \in Seq(ToSet(stack)) /\ escaped = FALSE
  BY TextsDerive DEF WholeText
<1>3. \/ stack = <<>> /\ pos = 1
      \/ \E path : Inside(groups, path, stack, pos)
  BY <1>1, <1>2 DEF WholeText
<1>4. pos \in DOMAIN groups
  <2>1. CASE pos = 1
    BY <1>2, <2>1
  <2>2. ASSUME NEW path, Inside(groups, path, stack, pos) PROVE pos \in DOMAIN groups
    <3>1. pos \in 1 .. Len(text)
      BY <1>2, <2>2, WherePathEnds
    <3> QED BY <1>1, <1>2, <3>1 DEF Derives
  <2> QED BY <1>3, <2>1, <2>2
<1>5. Innermost(groups, pos, entry, pos + 1)
  BY <1>2, <1>4, PushedFirst
<1>6. pos # Len(text) /\ pos \in Nat
  BY <1>2, <1>4, GroupEnds
<1>7. stack' = Append(stack, entry) /\ outcome' = outcome
  BY <1>6 DEF Open
<1>8. stack' \in Seq(ToSet(stack)')
  <2>1. stack \in Seq(ToSet(stack) \cup {entry}) /\ entry \in ToSet(stack) \cup {entry}
    BY <1>2
  <2> HIDE DEF entry
  <2>2. stack' \in Seq(ToSet(stack) \cup {entry})
    BY <1>7, <2>1, AppendProperties
  <2> QED BY <2>2 DEF ToSet
<1> HIDE DEF groups, entry
<1>9. \E p : Inside(groups, p, stack', pos + 1)
  <2>1. CASE stack = <<>> /\ pos = 1
    <3>1. stack' = <<entry>>
      BY <1>7, <2>1
    <3> DEFINE p == <<1>>
    <3>2. p \in Seq(DOMAIN groups) /\ p # <<>> /\ Len(p) = 1 /\ p[1] = 1 /\ Len(stack') = 1 /\ stack'[1] = entry
      BY <1>2, <3>1
    <3> HIDE DEF p
    <3>3. Inside(groups, p, stack', pos + 1)
      BY <1>5, <2>1, <3>2 DEF Inside
    <3> QED BY <3>3
  <2>2. ASSUME NEW path, Inside(groups, path, stack, pos)
        PROVE  Inside(groups, Append(path, pos), stack', pos + 1)
    BY <1>1, <1>2, <1>5, <1>7, <2>2, Inwards
  <2> QED BY <1>3, <2>1, <2>2
<1>10. \E p : Inside(asked'.groups, p, stack', pos')
  BY <1>1, <1>9 DEF groups
<1> QED BY <1>1, <1>2, <1>7, <1>8, <1>10 DEF WholeText

\* parse_query on a closing one: the group is a part of the one around it, or the result.
LEMMA WholeClose ==
    ASSUME WholeText, IsText(asked), Close
    PROVE  WholeText'
<1> DEFINE groups == asked.groups
           last == IF stack = <<>> THEN NoNode ELSE Last(stack)
           node == IF IsLogic(last) THEN last ELSE Subquery(last, pos - 1)
<1>1. /\ asked' = asked /\ text' = text /\ escaped' = escaped /\ pos' = pos + 1
      /\ outcome = NoNode /\ pos <= Len(text) /\ text[pos] = ")"
      /\ IF node = Refused THEN outcome' = Refused /\ stack' = stack /\ sf' = sf
         ELSE Popped(node) /\ outcome' = outcome
  BY DEF Close, Reading
<1>2. /\ Derives(groups, text) /\ Len(text) \in Nat /\ asked \in Asked /\ text = asked.text
      /\ text[1] = "(" /\ groups[1].end = Len(text) /\ groups[1].node = asked.tree
      /\ stack \in Seq(ToSet(stack)) /\ escaped = FALSE
  BY TextsDerive DEF WholeText
<1>3. PICK path : Inside(groups, path, stack, pos)
  BY <1>1, <1>2 DEF WholeText
<1> DEFINE i == path[Len(path)]
<1>4. /\ Len(path) \in Nat \ {0} /\ i \in DOMAIN groups /\ Len(stack) = Len(path) /\ path[1] = 1
      /\ Innermost(groups, i, stack[Len(path)], pos)
  BY <1>2, <1>3, WherePathEnds
<1>5. /\ pos = groups[i].end
      /\ IsLogic(groups[i].node) => stack[Len(path)] = groups[i].node
      /\ ~IsLogic(groups[i].node) => stack[Len(path)] = StartAt(i + 1)
  <2>1. Ended(groups, i, stack[Len(path)], pos)
    BY <1>1, <1>2, <1>4, NextToken
  <2> QED BY <2>1 DEF Ended
<1>6. last = stack[Len(path)] /\ stack # <<>>
  BY <1>4, EmptySeq DEF Last
<1>7. node = groups[i].node /\ node # Refused
  <2>1. CASE IsLogic(groups[i].node)
    <3>1. node = groups[i].node
      BY <1>5, <1>6, <2>1
    <3>2. ~IsLogic(Refused)
      BY DEF IsLogic, Refused, LogicKinds
    <3> QED BY <2>1, <3>1, <3>2
  <2>2. CASE ~IsLogic(groups[i].node)
    <3>1. ~IsLogic(StartAt(i + 1))
      BY DEF IsLogic, StartAt, LogicKinds
    <3>2. node = Subquery(StartAt(i + 1), groups[i].end - 1)
      BY <1>5, <1>6, <2>2, <3>1
    <3> HIDE DEF node
    <3> QED BY <1>2, <1>4, <2>2, <3>2, ConditionIsRead
  <2> QED BY <2>1, <2>2
<1> HIDE DEF node, last, groups
<1>8. Popped(node) /\ outcome' = outcome
  BY <1>1, <1>7
<1>9. CASE Len(path) = 1
  <2>1. i = 1 /\ pos = Len(text) /\ node = asked.tree
    BY <1>2, <1>4, <1>5, <1>7, <1>9
  <2>2. Front(stack) = <<>>
    BY <1>4, <1>9 DEF Front
  <2>3. stack' = <<>> /\ sf' = node
    BY <1>6, <1>8, <2>2 DEF Popped
  <2>4. stack' \in Seq(ToSet(stack)')
    BY <2>3
  <2> QED BY <1>1, <1>2, <1>8, <2>1, <2>3, <2>4 DEF WholeText
<1>10. CASE Len(path) > 1
  <2> DEFINE m == Len(path) - 1
  <2>1. IsLogic(stack[m])
    <3>1. Around(groups, path[m], path[m + 1], stack[m])
      BY <1>3, <1>4, <1>10 DEF Inside
    <3>2. PICK n : stack[m] = SoFar(groups, path[m], n) /\ IsLogic(groups[path[m]].node)
      BY <3>1 DEF Around
    <3>3. SoFar(groups, path[m], n).kind = groups[path[m]].node.kind
      BY DEF SoFar, Logic
    <3> QED BY <3>2, <3>3 DEF IsLogic
  <2>2. /\ stack' \in Seq(ToSet(stack)') /\ Len(stack') = m
        /\ \A k \in 1 .. Len(path) - 2 : stack'[k] = stack[k]
        /\ stack'[m] = [stack[m] EXCEPT !.value = Append(@, node)]
    BY <1>2, <1>4, <1>8, <1>10, <2>1, PopGives
  <2>3. Inside(groups, SubSeq(path, 1, m), stack', pos + 1)
    <3>1. /\ Derives(groups, text) /\ Inside(groups, path, stack, pos) /\ Len(path) > 1
          /\ pos = groups[path[Len(path)]].end /\ node = groups[path[Len(path)]].node
      BY <1>2, <1>3, <1>5, <1>7, <1>10
    <3>2. stack'[Len(path) - 1] = [stack[Len(path) - 1] EXCEPT !.value = Append(@, groups[path[Len(path)]].node)]
      BY <2>2, <3>1
    <3> QED BY <2>2, <3>1, <3>2, Outwards
  <2>4. \E p : Inside(asked'.groups, p, stack', pos')
    BY <1>1, <2>3 DEF groups
  <2> QED BY <1>1, <1>2, <1>8, <2>2, <2>4 DEF WholeText
<1> QED BY <1>4, <1>9, <1>10

\* The end of the text: sf is the tree.
LEMMA WholeEnd ==
    ASSUME WholeText, IsText(asked), End
    PROVE  WholeText'
<1>1. /\ asked' = asked /\ text' = text /\ stack' = stack /\ escaped' = escaped
      /\ outcome = NoNode /\ pos > Len(text) /\ outcome' = IF sf = NoNode THEN Refused ELSE sf
  BY DEF End
<1>2. Derives(asked.groups, text) /\ Len(text) \in Nat /\ Len(text) > 2 /\ asked.tree # NoNode
  BY TextsDerive DEF WholeText
<1>3. \A path : ~Inside(asked.groups, path, stack, pos)
  BY <1>1, <1>2, WherePathEnds
<1>4. sf = asked.tree
  BY <1>1, <1>2, <1>3 DEF WholeText
<1>5. outcome' = asked.tree
  BY <1>1, <1>2, <1>4
<1> QED BY <1>1, <1>2, <1>5 DEF WholeText, ToSet

(***************************************************************************)
(* The recursive definitions of Match and Models have solutions, and these *)
(* select the same.                                                        *)
(***************************************************************************)
PartsOf(node) == IF IsLogic(node) THEN ToSet(node.value) ELSE {}

\* What a node is made of is nested less deep.
LEMMA PartsAreLower ==
    ASSUME NEW node \in Nodes
    PROVE  /\ Height[node] \in Nat
           /\ \A part \in PartsOf(node) : /\ part \in Nodes /\ Height[part] \in Nat
                                         /\ Height[part] < Height[node]
<1>1. Height[node] \in Nat
  BY NodesAssumption
<1>2. ASSUME NEW part \in PartsOf(node)
      PROVE  part \in Nodes /\ Height[part] \in Nat /\ Height[part] < Height[node]
  <2>1. IsLogic(node) /\ part \in ToSet(node.value)
    BY <1>2 DEF PartsOf
  <2>2. node.value \in Seq(Nodes) /\ \A i \in DOMAIN node.value : Height[node.value[i]] < Height[node]
    BY <2>1, NodesAssumption
  <2>3. PICK i \in DOMAIN node.value : node.value[i] = part
    BY <2>1 DEF ToSet
  <2>4. part \in Nodes /\ Height[part] < Height[node]
    BY <2>2, <2>3
  <2> QED BY <2>4, NodesAssumption
<1> QED BY <1>1, <1>2

\* f is what the recursion says of every node below a height.
Solved(F, f, n) == \A node \in Nodes : Height[node] < n => f[node] = F[f][node]

\* What F makes of a function at a node depends on the function at the parts only.
Local(F, V) ==
    /\ F \in [[Nodes -> V] -> [Nodes -> V]]
    /\ \A f, g \in [Nodes -> V] : \A node \in Nodes :
          (\A part \in PartsOf(node) : f[part] = g[part]) => F[f][node] = F[g][node]

\* Solutions for the nodes of some height are solutions for one more, and there is only one.
LEMMA SolutionsAgree ==
    ASSUME NEW V, NEW F, Local(F, V), NEW n \in Nat,
           NEW d \in [Nodes -> V], NEW e \in [Nodes -> V], Solved(F, d, n), Solved(F, e, n),
           NEW x \in Nodes, Height[x] < n
    PROVE  d[x] = e[x]
<1> DEFINE Agree(m) == \A f, g \in [Nodes -> V] : Solved(F, f, m) /\ Solved(F, g, m) =>
                          \A node \in Nodes : Height[node] < m => f[node] = g[node]
           T == {m \in Nat : Agree(m)}
<1>1. 0 \in T
  <2>1. \A node \in Nodes : ~(Height[node] < 0)
    BY PartsAreLower
  <2> QED BY <2>1
<1>2. ASSUME NEW m \in Nat, m \in T PROVE m + 1 \in T
  <2> SUFFICES ASSUME NEW f \in [Nodes -> V], NEW g \in [Nodes -> V], Solved(F, f, m + 1), Solved(F, g, m + 1),
                      NEW node \in Nodes, Height[node] < m + 1
               PROVE  f[node] = g[node]
    BY <1>2
  <2>1. \A other \in Nodes : Height[other] < m => Height[other] < m + 1
    BY <1>2, PartsAreLower
  <2>2. Solved(F, f, m) /\ Solved(F, g, m)
    BY <2>1 DEF Solved
  <2>3. \A part \in PartsOf(node) : part \in Nodes /\ Height[part] < m
    BY <1>2, PartsAreLower
  <2>4. \A part \in PartsOf(node) : f[part] = g[part]
    BY <1>2, <2>2, <2>3
  <2>5. F[f][node] = F[g][node]
    BY <2>4 DEF Local
  <2> QED BY <2>5 DEF Solved
<1> HIDE DEF T
<1>3. n \in T
  BY <1>1, <1>2, SetInduction
<1> QED BY <1>3 DEF T

\* There is a solution for the nodes below any height.
LEMMA SolutionBelow ==
    ASSUME NEW V, NEW F, Local(F, V), NEW f0 \in [Nodes -> V], NEW n \in Nat
    PROVE  \E f \in [Nodes -> V] : Solved(F, f, n)
<1> DEFINE T == {m \in Nat : \E f \in [Nodes -> V] : Solved(F, f, m)}
<1>1. 0 \in T
  <2>1. \A node \in Nodes : ~(Height[node] < 0)
    BY PartsAreLower
  <2>2. Solved(F, f0, 0)
    BY <2>1 DEF Solved
  <2> QED BY <2>2
<1>2. ASSUME NEW m \in Nat, m \in T PROVE m + 1 \in T
  <2>1. PICK f \in [Nodes -> V] : Solved(F, f, m)
    BY <1>2
  <2> DEFINE g == F[f]
  <2>2. g \in [Nodes -> V]
    BY DEF Local
  <2>3. ASSUME NEW node \in Nodes, Height[node] < m + 1 PROVE g[node] = F[g][node]
    <3>1. \A part \in PartsOf(node) : part \in Nodes /\ Height[part] < m
      BY <1>2, <2>3, PartsAreLower
    <3>2. \A part \in PartsOf(node) : f[part] = g[part]
      BY <2>1, <3>1 DEF Solved
    <3> HIDE DEF g
    <3>3. F[f][node] = F[g][node]
      BY <2>2, <3>2 DEF Local
    <3> QED BY <3>3 DEF g
  <2> HIDE DEF g
  <2>4. Solved(F, g, m + 1)
    BY <2>3 DEF Solved
  <2> QED BY <2>2, <2>4
<1> HIDE DEF T
<1>3. n \in T
  BY <1>1, <1>2, SetInduction
<1> QED BY <1>3 DEF T

\* A definition by recursion over the parts of a node has a solution.
LEMMA RecursionOverNodes ==
    ASSUME NEW V, NEW F, Local(F, V), NEW f0 \in [Nodes -> V]
    PROVE  \E f \in [Nodes -> V] : f = F[f]
<1> DEFINE Below(n) == CHOOSE f \in [Nodes -> V] : Solved(F, f, n)
           h == [node \in Nodes |-> Below(Height[node] + 1)[node]]
<1>1. \A n \in Nat : Below(n) \in [Nodes -> V] /\ Solved(F, Below(n), n)
  BY SolutionBelow
<1> HIDE DEF Below
<1>2. h \in [Nodes -> V]
  <2>1. \A node \in Nodes : Below(Height[node] + 1) \in [Nodes -> V]
    BY <1>1, PartsAreLower
  <2> QED BY <2>1
<1>3. ASSUME NEW node \in Nodes PROVE h[node] = F[h][node]
  <2> DEFINE f == Below(Height[node] + 1)
  <2>1. f \in [Nodes -> V] /\ Solved(F, f, Height[node] + 1) /\ h[node] = f[node] /\ Height[node] \in Nat
    BY <1>1, PartsAreLower
  <2>2. ASSUME NEW part \in PartsOf(node) PROVE h[part] = f[part]
    <3> DEFINE k == Height[part] + 1
    <3>1. part \in Nodes /\ k \in Nat /\ k <= Height[node] + 1 /\ Height[part] < k
      BY <2>1, PartsAreLower
    <3>2. Below(k) \in [Nodes -> V] /\ Solved(F, Below(k), k) /\ h[part] = Below(k)[part]
      BY <1>1, <3>1
    <3> HIDE DEF f, k, h
    <3>3. Solved(F, f, k)
      <4>1. \A other \in Nodes : Height[other] < k => Height[other] < Height[node] + 1
        BY <2>1, <3>1, PartsAreLower
      <4> QED BY <2>1, <4>1 DEF Solved
    <3>4. Below(k)[part] = f[part]
      BY <2>1, <3>1, <3>2, <3>3, SolutionsAgree
    <3> QED BY <3>2, <3>4
  <2> HIDE DEF h, f
  <2>3. F[h][node] = F[f][node]
    BY <1>2, <2>1, <2>2 DEF Local
  <2>4. f[node] = F[f][node]
    BY <2>1 DEF Solved
  <2> QED BY <2>1, <2>3, <2>4
<1> HIDE DEF h
<1>4. h = F[h]
  <2>1. F[h] \in [Nodes -> V]
    BY <1>2 DEF Local
  <2> QED BY <1>2, <1>3, <2>1
<1> QED BY <1>2, <1>4

\* The bodies of Match and of Models, with a function for what they say of the parts.
MatchAt(f, node, params) ==
    \/ node.kind = "all"
    \/ node.kind = "and" /\ \A i \in DOMAIN node.value : f[node.value[i]][params]
    \/ node.kind = "or" /\ \E i \in DOMAIN node.value : f[node.value[i]][params]
    \/ node.kind = "not" /\ \E i \in DOMAIN node.value : ~f[node.value[i]][params]
    \/ /\ node.kind # "all" /\ ~IsLogic(node)
       /\ node.name[1] \in DOMAIN params /\ Holds(node, params[node.name[1]])

ModelsAt(f, tree) ==
    CASE tree.kind = "all" -> Params
      [] tree.kind = "and" -> {p \in Params : \A i \in DOMAIN tree.value : p \in f[tree.value[i]]}
      [] tree.kind = "or" -> UNION {f[tree.value[i]] : i \in DOMAIN tree.value}
      [] tree.kind = "not" -> Params \ f[tree.value[1]]
      [] OTHER -> {p \in Params : tree.name[1] \in DOMAIN p /\ Holds(tree, p[tree.name[1]])}

\* The values of a logic node are its parts.
LEMMA LogicNodes ==
    ASSUME NEW node \in Nodes
    PROVE  /\ IsLogic(node) <=> node.kind \in {"and", "or", "not"}
           /\ IsLogic(node) => /\ Len(node.value) \in Nat /\ DOMAIN node.value = 1 .. Len(node.value)
                              /\ \A i \in DOMAIN node.value : node.value[i] \in Nodes /\ node.value[i] \in PartsOf(node)
           /\ node.kind = "not" => DOMAIN node.value = {1}
<1>1. IsLogic(node) <=> node.kind \in {"and", "or", "not"}
  BY DEF IsLogic, LogicKinds
<1>2. ASSUME IsLogic(node)
      PROVE  /\ Len(node.value) \in Nat /\ DOMAIN node.value = 1 .. Len(node.value)
             /\ \A i \in DOMAIN node.value : node.value[i] \in Nodes /\ node.value[i] \in PartsOf(node)
  <2>1. node.value \in Seq(Nodes)
    BY <1>2, NodesAssumption
  <2>2. \A i \in DOMAIN node.value : node.value[i] \in Nodes
    BY <2>1
  <2>3. \A i \in DOMAIN node.value : node.value[i] \in PartsOf(node)
    BY <1>2 DEF PartsOf, ToSet
  <2> QED BY <2>1, <2>2, <2>3
<1>3. ASSUME node.kind = "not" PROVE DOMAIN node.value = {1}
  <2>1. IsLogic(node) /\ Len(node.value) = 1
    BY <1>1, <1>3, NodesAssumption
  <2> QED BY <1>2, <2>1
<1> QED BY <1>1, <1>2, <1>3

\* match is what its recursion over the parts says.
LEMMA MatchIsDefined ==
    \A node \in Nodes : \A p \in Params : Match[node][p] = MatchAt(Match, node, p)
<1> DEFINE V == [Params -> BOOLEAN]
           F == [f \in [Nodes -> V] |-> [node \in Nodes |-> [params \in Params |-> MatchAt(f, node, params)]]]
           f0 == [node \in Nodes |-> [params \in Params |-> TRUE]]
<1>1. f0 \in [Nodes -> V]
  OBVIOUS
<1>2. \A f, node, params : MatchAt(f, node, params) \in BOOLEAN
  BY DEF MatchAt
<1>3. F \in [[Nodes -> V] -> [Nodes -> V]]
  BY <1>2
<1>4. ASSUME NEW f \in [Nodes -> V], NEW g \in [Nodes -> V], NEW node \in Nodes,
             \A part \in PartsOf(node) : f[part] = g[part]
      PROVE  F[f][node] = F[g][node]
  <2>1. \A params \in Params : MatchAt(f, node, params) = MatchAt(g, node, params)
    <3>1. IsLogic(node) => \A i \in DOMAIN node.value : f[node.value[i]] = g[node.value[i]]
      BY <1>4, LogicNodes
    <3>2. node.kind \in {"and", "or", "not"} => IsLogic(node)
      BY LogicNodes
    <3> QED BY <3>1, <3>2 DEF MatchAt
  <2> QED BY <2>1
<1>5. Local(F, V)
  BY <1>3, <1>4 DEF Local
<1>6. PICK f \in [Nodes -> V] : f = F[f]
  <2> HIDE DEF F, V, f0
  <2> QED BY <1>1, <1>5, RecursionOverNodes
<1>7. f = [node \in Nodes |-> [params \in Params |-> MatchAt(f, node, params)]]
  BY <1>6
<1>8. Match = [node \in Nodes |-> [params \in Params |-> MatchAt(Match, node, params)]]
  BY <1>7 DEF Match, MatchAt
<1> QED BY <1>8

\* So is what a tree says by the logic.
LEMMA ModelsAreDefined ==
    \A tree \in Nodes : Models[tree] = ModelsAt(Models, tree)
<1> DEFINE V == SUBSET Params
           F == [f \in [Nodes -> V] |-> [node \in Nodes |-> ModelsAt(f, node)]]
           f0 == [node \in Nodes |-> {}]
<1>1. f0 \in [Nodes -> V]
  OBVIOUS
<1>2. ASSUME NEW f \in [Nodes -> V], NEW node \in Nodes PROVE ModelsAt(f, node) \in V
  <2>1. node.kind \in {"and", "or", "not"} => \A i \in DOMAIN node.value : f[node.value[i]] \in V
    BY LogicNodes
  <2>2. CASE node.kind = "or"
    <3>1. ModelsAt(f, node) = UNION {f[node.value[i]] : i \in DOMAIN node.value}
      BY <2>2 DEF ModelsAt
    <3> QED BY <2>1, <2>2, <3>1
  <2>3. CASE node.kind # "or"
    BY <2>3 DEF ModelsAt
  <2> QED BY <2>2, <2>3
<1>3. F \in [[Nodes -> V] -> [Nodes -> V]]
  BY <1>2
<1>4. ASSUME NEW f \in [Nodes -> V], NEW g \in [Nodes -> V], NEW node \in Nodes,
             \A part \in PartsOf(node) : f[part] = g[part]
      PROVE  F[f][node] = F[g][node]
  <2>1. IsLogic(node) => \A i \in DOMAIN node.value : f[node.value[i]] = g[node.value[i]]
    BY <1>4, LogicNodes
  <2>2. node.kind \in {"and", "or", "not"} => IsLogic(node)
    BY LogicNodes
  <2>3. CASE node.kind = "or"
    <3>1. {f[node.value[i]] : i \in DOMAIN node.value} = {g[node.value[i]] : i \in DOMAIN node.value}
      BY <2>1, <2>2, <2>3
    <3>2. ModelsAt(f, node) = ModelsAt(g, node)
      BY <2>3, <3>1 DEF ModelsAt
    <3> QED BY <3>2
  <2>4. CASE node.kind = "not"
    <3>1. f[node.value[1]] = g[node.value[1]]
      BY <2>1, <2>2, <2>4, LogicNodes
    <3>2. ModelsAt(f, node) = ModelsAt(g, node)
      BY <2>4, <3>1 DEF ModelsAt
    <3> QED BY <3>2
  <2>5. CASE node.kind = "and"
    <3>1. ModelsAt(f, node) = ModelsAt(g, node)
      BY <2>1, <2>2, <2>5 DEF ModelsAt
    <3> QED BY <3>1
  <2>6. CASE node.kind \notin {"and", "or", "not"}
    <3>1. ModelsAt(f, node) = ModelsAt(g, node)
      BY <2>6 DEF ModelsAt
    <3> QED BY <3>1
  <2> QED BY <2>3, <2>4, <2>5, <2>6
<1>5. Local(F, V)
  BY <1>3, <1>4 DEF Local
<1>6. PICK f \in [Nodes -> V] : f = F[f]
  <2> HIDE DEF F, V, f0
  <2> QED BY <1>1, <1>5, RecursionOverNodes
<1>7. f = [tree \in Nodes |-> ModelsAt(f, tree)]
  BY <1>6
<1>8. Models = [tree \in Nodes |-> ModelsAt(Models, tree)]
  BY <1>7 DEF Models, ModelsAt
<1> QED BY <1>8

\* The property sets that a node matches.
Selected(node) == {p \in Params : Match[node][p]}

\* The loops of match select what the tree says, of every node.
LEMMA MatchSelectsModels ==
    ASSUME NEW tree \in Nodes PROVE Selected(tree) = Models[tree]
<1> DEFINE T == {n \in Nat : \A node \in Nodes : Height[node] < n => Selected(node) = Models[node]}
<1>1. 0 \in T
  <2>1. \A node \in Nodes : ~(Height[node] < 0)
    BY PartsAreLower
  <2> QED BY <2>1
<1>2. ASSUME NEW n \in Nat, n \in T PROVE n + 1 \in T
  <2> SUFFICES ASSUME NEW node \in Nodes, Height[node] < n + 1 PROVE Selected(node) = Models[node]
    BY <1>2
  <2>1. \A part \in PartsOf(node) : part \in Nodes /\ Selected(part) = Models[part]
    <3>1. \A part \in PartsOf(node) : part \in Nodes /\ Height[part] < n
      BY <1>2, PartsAreLower
    <3> QED BY <1>2, <3>1
  <2>2. IsLogic(node) => \A i \in DOMAIN node.value : \A p \in Params :
                            Match[node.value[i]][p] <=> p \in Models[node.value[i]]
    <3>1. IsLogic(node) => \A i \in DOMAIN node.value : Selected(node.value[i]) = Models[node.value[i]]
      BY <2>1, LogicNodes
    <3> QED BY <3>1 DEF Selected
  <2>3. /\ \A p \in Params : Match[node][p] = MatchAt(Match, node, p)
        /\ Models[node] = ModelsAt(Models, node)
    BY MatchIsDefined, ModelsAreDefined
  <2>4. IsLogic(node) <=> node.kind \in {"and", "or", "not"}
    BY LogicNodes
  <2>5. CASE node.kind = "all"
    <3>1. Models[node] = Params
      BY <2>3, <2>5 DEF ModelsAt
    <3>2. \A p \in Params : Match[node][p]
      BY <2>3, <2>5 DEF MatchAt
    <3> QED BY <3>1, <3>2 DEF Selected
  <2>6. CASE node.kind = "and"
    <3>1. Models[node] = {p \in Params : \A i \in DOMAIN node.value : p \in Models[node.value[i]]}
      BY <2>3, <2>6 DEF ModelsAt
    <3>2. \A p \in Params : Match[node][p] <=> \A i \in DOMAIN node.value : Match[node.value[i]][p]
      BY <2>3, <2>4, <2>6 DEF MatchAt
    <3> QED BY <2>2, <2>4, <2>6, <3>1, <3>2 DEF Selected
  <2>7. CASE node.kind = "or"
    <3>1. Models[node] = UNION {Models[node.value[i]] : i \in DOMAIN node.value}
      BY <2>3, <2>7 DEF ModelsAt
    <3>2. \A p \in Params : Match[node][p] <=> \E i \in DOMAIN node.value : Match[node.value[i]][p]
      BY <2>3, <2>4, <2>7 DEF MatchAt
    <3>3. \A i \in DOMAIN node.value : Models[node.value[i]] \subseteq Params
      BY <2>1, <2>4, <2>7, LogicNodes DEF Selected
    <3> QED BY <2>2, <2>4, <2>7, <3>1, <3>2, <3>3 DEF Selected
  <2>8. CASE node.kind = "not"
    <3>1. Models[node] = Params \ Models[node.value[1]]
      BY <2>3, <2>8 DEF ModelsAt
    <3>2. \A p \in Params : Match[node][p] <=> \E i \in DOMAIN node.value : ~Match[node.value[i]][p]
      BY <2>3, <2>4, <2>8 DEF MatchAt
    <3>3. DOMAIN node.value = {1}
      BY <2>8, LogicNodes
    <3> QED BY <2>2, <2>4, <2>8, <3>1, <3>2, <3>3 DEF Selected
  <2>9. CASE node.kind \notin {"all", "and", "or", "not"}
    <3>1. Models[node] = {p \in Params : node.name[1] \in DOMAIN p /\ Holds(node, p[node.name[1]])}
      BY <2>3, <2>9 DEF ModelsAt
    <3>2. \A p \in Params : Match[node][p] <=> node.name[1] \in DOMAIN p /\ Holds(node, p[node.name[1]])
      BY <2>3, <2>4, <2>9 DEF MatchAt
    <3> QED BY <3>1, <3>2 DEF Selected
  <2> QED BY <2>5, <2>6, <2>7, <2>8, <2>9
<1> HIDE DEF T
<1>3. \A n \in Nat : n \in T
  BY <1>1, <1>2, SetInduction
<1>4. Height[tree] \in Nat /\ Height[tree] + 1 \in Nat /\ Height[tree] < Height[tree] + 1
  BY PartsAreLower
<1> QED BY <1>3, <1>4 DEF T

(***************************************************************************)
(* A dictionary with one word for each name.                               *)
(***************************************************************************)
\* _build_query makes of the rules their conjunction, or of a single one its condition.
LEMMA RulesSelect ==
    ASSUME NEW a \in Asked, IsWhole(a), a.form = "dict"
    PROVE  /\ BuildQuery(a.rules) \in Nodes /\ BuildQuery(a.rules) # NoNode
           /\ Selected(BuildQuery(a.rules)) = Models[a.tree]
<1> DEFINE rules == a.rules
           Cond(i) == Atom("eq", <<rules[i].name>>, rules[i].value)
           all == [i \in DOMAIN rules |-> Cond(i)]
           query == BuildQuery(rules)
<1>1. /\ rules \in Seq(ToSet(rules)) /\ a.tree = Logic("and", all) /\ a.tree \in Nodes
      /\ \A i \in DOMAIN rules : rules[i].value = <<Head(rules[i].value)>>
  BY WholeAssumption, TreesAssumption
<1>2. ASSUME NEW i \in DOMAIN rules PROVE Rule(rules[i].name, rules[i].value) = Cond(i)
  <2> DEFINE value == rules[i].value
             word == Head(rules[i].value)
  <2>1. value = <<word>>
    BY <1>1
  <2> HIDE DEF value, word
  <2>2. value # <<>>
    BY <2>1
  <2>3. Rule(rules[i].name, value) = Atom("eq", <<rules[i].name>>, <<word>>)
    BY <2>2 DEF Rule, value, word
  <2> QED BY <2>1, <2>3 DEF value
<1>3. a.tree.kind = "and" /\ a.tree.value = all
  BY <1>1 DEF Logic
<1> HIDE DEF all
<1>4. /\ \A i \in DOMAIN all : all[i] \in Nodes
      /\ DOMAIN all = DOMAIN rules /\ DOMAIN rules = 1 .. Len(rules) /\ Len(rules) \in Nat
  <2>1. \A i \in DOMAIN a.tree.value : a.tree.value[i] \in Nodes
    BY <1>1, <1>3, LogicNodes
  <2>2. DOMAIN rules = 1 .. Len(rules) /\ Len(rules) \in Nat
    BY <1>1
  <2>3. DOMAIN all = DOMAIN rules
    BY DEF all
  <2> QED BY <1>3, <2>1, <2>2, <2>3
<1>5. CASE Len(rules) = 1
  <2>1. 1 \in DOMAIN rules /\ all[1] = Cond(1) /\ Cond(1) \in Nodes
    BY <1>4, <1>5 DEF all
  <2>2. query = Cond(1)
    BY <1>2, <1>5, <2>1 DEF BuildQuery
  <2>3. query # NoNode
    BY <2>2 DEF Atom, NoNode
  <2>4. ModelsAt(Models, a.tree) = {p \in Params : \A i \in DOMAIN all : p \in Models[all[i]]}
    BY <1>3 DEF ModelsAt
  <2>5. Models[a.tree] = {p \in Params : p \in Models[Cond(1)]}
    <3>1. DOMAIN all = {1}
      BY <1>4, <1>5
    <3> HIDE DEF Cond
    <3> QED BY <1>1, <2>1, <2>4, <3>1, ModelsAreDefined
  <2>6. Selected(Cond(1)) = Models[Cond(1)]
    BY <2>1, MatchSelectsModels
  <2> HIDE DEF Cond
  <2>7. Selected(Cond(1)) = Models[a.tree]
    BY <2>5, <2>6 DEF Selected
  <2> QED BY <2>1, <2>2, <2>3, <2>7
<1>6. CASE Len(rules) # 1
  <2>1. query = Logic("and", [i \in DOMAIN rules |-> Rule(rules[i].name, rules[i].value)])
    BY <1>6 DEF BuildQuery
  <2>2. [i \in DOMAIN rules |-> Rule(rules[i].name, rules[i].value)] = all
    BY <1>2 DEF all
  <2>3. query = a.tree
    BY <1>1, <2>1, <2>2
  <2>4. query # NoNode
    BY <1>3, <2>3 DEF NoNode
  <2> QED BY <1>1, <2>3, <2>4, MatchSelectsModels
<1> QED BY <1>5, <1>6

(***************************************************************************)
(* The theorems about what a query selects.                                *)
(***************************************************************************)
\* The inductive invariant of a query that says something.
ReadInv ==
    IsWhole(asked) =>
        /\ asked \in Asked
        /\ asked.form = "text" => WholeText
        /\ asked.form = "dict" => outcome = BuildQuery(asked.rules)
        /\ asked.form = "none" => outcome = Atom("all", <<>>, <<>>)

\* Of a written form of any size parse_query makes the tree it was written from, and
\* nothing else on the way; of rules and of None, create_query their node.
THEOREM WrittenAreRead == QuerySpec => []ReadInv
<1>1. QueryInit => ReadInv
  <2> SUFFICES ASSUME QueryInit, IsWhole(asked) PROVE ReadInv
    BY DEF ReadInv
  <2>1. asked \in Asked /\ text = Wrapped(asked.text) /\ pos = 1 /\ escaped = FALSE /\ stack = <<>>
    BY DEF QueryInit
  <2>2. ASSUME asked.form = "text" PROVE WholeText
    <3>1. IsText(asked)
      BY <2>2 DEF IsText
    <3>2. asked.text # <<>> /\ text = asked.text
      BY <2>1, <3>1, TextsDerive
    <3>3. outcome = NoNode
      BY <2>2, <3>2 DEF QueryInit
    <3>4. stack \in Seq(ToSet(stack))
      BY <2>1
    <3> QED BY <2>1, <3>2, <3>3, <3>4 DEF WholeText
  <2>3. asked.form = "dict" => outcome = BuildQuery(asked.rules)
    BY DEF QueryInit
  <2>4. asked.form = "none" => outcome = Atom("all", <<>>, <<>>)
    BY DEF QueryInit
  <2> QED BY <2>1, <2>2, <2>3, <2>4 DEF ReadInv
<1>2. ReadInv /\ [QueryNext]_queryVars => ReadInv'
  <2> SUFFICES ASSUME ReadInv, [QueryNext]_queryVars, IsWhole(asked)' PROVE ReadInv'
    BY DEF ReadInv
  <2>1. asked' = asked
    BY DEF QueryNext, queryVars, Escaped, Open, Close, Other, End
  <2>2. IsWhole(asked) /\ asked \in Asked
    BY <2>1 DEF ReadInv
  <2>3. CASE asked.form = "text"
    <3>1. WholeText /\ IsText(asked)
      BY <2>2, <2>3 DEF ReadInv, IsText
    <3>2. WholeText'
      <4>1. CASE Escaped
        BY <3>1, <4>1 DEF Escaped, WholeText
      <4>2. CASE Open
        BY <3>1, <4>2, WholeOpen
      <4>3. CASE Close
        BY <3>1, <4>3, WholeClose
      <4>4. CASE Other
        BY <3>1, <4>4, WholeOther
      <4>5. CASE End
        BY <3>1, <4>5, WholeEnd
      <4>6. CASE UNCHANGED queryVars
        BY <3>1, <4>6 DEF queryVars, WholeText, ToSet
      <4> QED BY <4>1, <4>2, <4>3, <4>4, <4>5, <4>6 DEF QueryNext
    <3> QED BY <2>1, <2>2, <2>3, <3>2 DEF ReadInv
  <2>4. CASE asked.form # "text"
    <3>1. outcome # NoNode
      <4>1. asked.form = "dict" \/ asked.form = "none"
        BY <2>2, <2>4, WholeAssumption
      <4>2. Atom("all", <<>>, <<>>) # NoNode
        BY DEF Atom, NoNode
      <4> QED BY <2>2, <4>1, <4>2, RulesSelect DEF ReadInv
    <3>2. outcome' = outcome
      BY <3>1 DEF QueryNext, queryVars, Escaped, Open, Close, Other, End, Reading
    <3> QED BY <2>1, <2>2, <2>4, <3>2 DEF ReadInv
  <2> QED BY <2>3, <2>4
<1> QED BY <1>1, <1>2, PTL DEF QuerySpec

\* A query written as the grammar has it, or given as a dictionary with one value for
\* each name, selects exactly the services that satisfy it (parse_query, match).
THEOREM QueriesSelectWhatTheySay == QuerySpec => []SelectsWhatItSays
<1>1. ReadInv => SelectsWhatItSays
  <2> SUFFICES ASSUME ReadInv, IsWhole(asked), outcome # NoNode
               PROVE  outcome \in Nodes /\ Selected(outcome) = Models[asked.tree]
    BY DEF SelectsWhatItSays, Selected
  <2>1. asked \in Asked /\ asked.tree \in Nodes
    BY TreesAssumption DEF ReadInv
  <2>2. CASE asked.form = "text"
    <3>1. outcome = asked.tree
      BY <2>2 DEF ReadInv, WholeText
    <3> QED BY <2>1, <3>1, MatchSelectsModels
  <2>3. CASE asked.form = "dict"
    BY <2>1, <2>3, RulesSelect DEF ReadInv
  <2>4. CASE asked.form = "none"
    <3>1. outcome = asked.tree
      BY <2>1, <2>4, WholeAssumption DEF ReadInv
    <3> QED BY <2>1, <3>1, MatchSelectsModels
  <2>5. asked.form \in {"text", "dict", "none"}
    BY <2>1, WholeAssumption
  <2> QED BY <2>2, <2>3, <2>4, <2>5
<1> QED BY <1>1, WrittenAreRead, PTL
=============================================================================
