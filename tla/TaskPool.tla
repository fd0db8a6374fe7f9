------------------------------ MODULE TaskPool ------------------------------
(***************************************************************************)
(* TaskPool and TaskRunner (odss.core, loop.py): workers that take handlers *)
(* from one queue, and a stop that sends every worker a sentinel, the      *)
(* loop_event, and joins the queue.                                        *)
(*                                                                         *)
(* Anybody may enqueue at any time, a running handler included.  A worker  *)
(* awaits the queue and the handler's coroutine, stop awaits the join.     *)
(***************************************************************************)
EXTENDS Naturals, Sequences, SequencesExt, FiniteSets

CONSTANTS
    Tasks,      \* the handlers with their arguments: each is enqueued once
    MaxWorkers, \* max_workers
    MaxStarts,  \* bound: calls of start that do something
    Sentinel    \* loop_event, as an element of the queue

ASSUME PoolAssumption ==
    /\ MaxWorkers \in Nat \ {0} /\ MaxStarts \in Nat /\ Sentinel \notin Tasks
    /\ Tasks \cap {"none", "get", "ended"} = {}

VARIABLES
    loop_event, \* loop_event is set
    tasks,      \* the queue: elements of Tasks and sentinels
    unfinished, \* the queue's count of elements put and not reported done
    starts,     \* how often start made workers; the last ones are self.workers
    worker,     \* by <<start, i>>: "none", "get", "ended", or the task in its hands
    stopper,    \* stop: "none", "join", "joined" (the queue woke it), "stopped"
    finished,   \* history: the tasks whose handler returned or raised
    promised,   \* history: the tasks enqueued when stop was called
    late,       \* history: a task was enqueued while stop joined the queue
    lost        \* history: a handler ended with CancelledError, and its worker with it

poolVars == <<loop_event, tasks, unfinished, starts, worker, stopper, finished, promised, late, lost>>

Workers == (1 .. MaxStarts) \X (1 .. MaxWorkers)

Current == {w \in Workers : w[1] = starts}

Busy(w) == worker[w] \in Tasks

Running == {worker[w] : w \in Workers} \cap Tasks

Enqueued == finished \cup ToSet(tasks) \cup Running

PoolInit ==
    /\ loop_event = FALSE /\ tasks = <<>> /\ unfinished = 0
    /\ starts = 0 /\ worker = [w \in Workers |-> "none"]
    /\ stopper = "none"
    /\ finished = {} /\ promised = {} /\ late = FALSE /\ lost = FALSE

\* put_nowait.
Enqueue(task) ==
    /\ task \notin Enqueued
    /\ tasks' = Append(tasks, task) /\ unfinished' = unfinished + 1
    /\ late' = (late \/ stopper = "join")
    /\ UNCHANGED <<loop_event, starts, worker, stopper, finished, promised, lost>>

\* A second start forgets the workers of the first, which go on.
Start ==
    /\ ~loop_event /\ starts < MaxStarts
    /\ starts' = starts + 1
    /\ worker' = [w \in Workers |-> IF w[1] = starts + 1 THEN "get" ELSE worker[w]]
    /\ UNCHANGED <<loop_event, tasks, unfinished, stopper, finished, promised, late, lost>>

\* A mutant of Stop: the queue is not joined.
StopUnjoined ==
    /\ ~loop_event
    /\ loop_event' = TRUE
    /\ tasks' = tasks \o [i \in 1 .. MaxWorkers |-> Sentinel]
    /\ unfinished' = unfinished + MaxWorkers
    /\ stopper' = "joined" /\ promised' = Enqueued
    /\ UNCHANGED <<starts, worker, finished, late, lost>>

\* put does not wait in a queue without a limit: the sentinels go in together.
Stop ==
    /\ ~loop_event
    /\ loop_event' = TRUE
    /\ tasks' = tasks \o [i \in 1 .. MaxWorkers |-> Sentinel]
    /\ unfinished' = unfinished + MaxWorkers
    /\ stopper' = "join" /\ promised' = Enqueued
    /\ UNCHANGED <<starts, worker, finished, late, lost>>

\* task_done: the last one wakes the join, which returns whatever is put meanwhile.
TaskDone ==
    /\ unfinished' = unfinished - 1
    /\ stopper' = IF stopper = "join" /\ unfinished = 1 THEN "joined" ELSE stopper

TakeTask(w) ==
    /\ worker[w] = "get" /\ tasks # <<>> /\ Head(tasks) # Sentinel
    /\ worker' = [worker EXCEPT ![w] = Head(tasks)] /\ tasks' = Tail(tasks)
    /\ UNCHANGED <<loop_event, unfinished, starts, stopper, finished, promised, late, lost>>

TakeSentinel(w) ==
    /\ worker[w] = "get" /\ tasks # <<>> /\ Head(tasks) = Sentinel
    /\ worker' = [worker EXCEPT ![w] = "ended"] /\ tasks' = Tail(tasks)
    /\ TaskDone
    /\ UNCHANGED <<loop_event, starts, finished, promised, late, lost>>

\* A mutant of HandlerRaises: the task is reported done only when its handler returns.
HandlerRaisesUndone(w) ==
    /\ Busy(w)
    /\ worker' = [worker EXCEPT ![w] = "get"] /\ finished' = finished \cup {worker[w]}
    /\ UNCHANGED <<loop_event, tasks, unfinished, starts, stopper, promised, late, lost>>

HandlerReturns(w) ==
    /\ Busy(w)
    /\ worker' = [worker EXCEPT ![w] = "get"] /\ finished' = finished \cup {worker[w]}
    /\ TaskDone
    /\ UNCHANGED <<loop_event, tasks, starts, promised, late, lost>>

\* The exception is logged.
HandlerRaises(w) ==
    /\ Busy(w)
    /\ worker' = [worker EXCEPT ![w] = "get"] /\ finished' = finished \cup {worker[w]}
    /\ TaskDone
    /\ UNCHANGED <<loop_event, tasks, starts, promised, late, lost>>

\* A CancelledError of what the handler awaited looks like one of the worker: it breaks.
HandlerCancelled(w) ==
    /\ Busy(w)
    /\ worker' = [worker EXCEPT ![w] = "ended"] /\ finished' = finished \cup {worker[w]}
    /\ TaskDone /\ lost' = TRUE
    /\ UNCHANGED <<loop_event, tasks, starts, promised, late>>

\* A mutant of Joined: the workers that are left are not cancelled.
JoinedOnly ==
    /\ stopper = "joined" /\ stopper' = "stopped"
    /\ UNCHANGED <<loop_event, tasks, unfinished, starts, worker, finished, promised, late, lost>>

\* Stop goes on after the join and cancels self.workers: one in the queue's get ends, and one
\* with a task reports it done and ends.
Joined ==
    /\ stopper = "joined" /\ stopper' = "stopped"
    /\ LET left == {w \in Current : Busy(w)}
       IN  /\ worker' = [w \in Workers |-> IF w \in Current THEN "ended" ELSE worker[w]]
           /\ finished' = finished \cup {worker[w] : w \in left}
           /\ unfinished' = unfinished - Cardinality(left)
    /\ UNCHANGED <<loop_event, tasks, starts, promised, late, lost>>

Work(w) == \/ TakeTask(w) \/ TakeSentinel(w)
           \/ HandlerReturns(w) \/ HandlerRaises(w) \/ HandlerCancelled(w)

PoolNext ==
    \/ Start \/ Stop \/ Joined
    \/ \E w \in Workers : Work(w)
    \/ \E task \in Tasks : Enqueue(task)

\* The event loop resumes what can run on, and a handler comes to an end.
PoolSpec ==
    /\ PoolInit /\ [][PoolNext]_poolVars
    /\ WF_poolVars(Joined) /\ \A w \in Workers : WF_poolVars(Work(w))
-----------------------------------------------------------------------------
(***************************************************************************)
(* Properties.                                                             *)
(***************************************************************************)
\* stop returns after every task enqueued before it was called has run to its end, none of
\* them cut off by the cancellation of the workers, however often start was called.
StopDrains == stopper \in {"joined", "stopped"} => promised \subseteq finished

\* When stop has returned, the workers of the last start are gone.
WorkersGone == stopper = "stopped" => \A w \in Current : worker[w] \in {"none", "ended"}

\* A stop returns, unless no start came before it, a task was enqueued behind the sentinels,
\* or a handler's CancelledError took a worker along: then it waits for ever.
StopReturns ==
    stopper = "join" ~> stopper = "stopped" \/ starts = 0 \/ late \/ lost
=============================================================================
