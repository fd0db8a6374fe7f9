--------------------------- MODULE ServiceTracker ---------------------------
(***************************************************************************)
(* Service trackers (odss.common, trackers.py) over the service registry   *)
(* and the delivery of service events to listeners (odss.core, events.py). *)
(*                                                                         *)
(* Each tracker follows the services of one class, all of them or those    *)
(* its query matches; its owner does not call open and close at once.      *)
(* Client tasks register and unregister services and change their          *)
(* properties; each of these fires an event, for which the dispatcher      *)
(* makes one asyncio task for each tracker that is to see it, and the      *)
(* client waits for all of them.  The tracker awaits its listener          *)
(* (on_adding_service and so on) in the middle of what it does, in open,   *)
(* in close and in these deliveries, and other tasks move meanwhile.       *)
(*                                                                         *)
(* A service's properties are the member of Properties a query sees; its   *)
(* priority is fixed here (a change of it is in ServiceRegistry).          *)
(***************************************************************************)
EXTENDS Integers, Sequences, FiniteSets, SequencesExt

CONSTANTS
  Trackers,      \* the trackers, each with a context of its own
  Owner,         \* the bundle that registers the services
  Tasks,         \* the client tasks
  Class,         \* the class all services are registered under
  Properties,    \* what the properties of a service can be
  Query,         \* for each tracker, the properties its query matches
  Priority,      \* the priority each service is registered with
  NoReference, Unset, MaxServices,   \* see ServiceRegistry
  MaxUse,        \* bound: uses of a service a call may start with
  MaxOpen        \* bound: trackers that are not closed at a time

Ids == 1..MaxServices

ASSUME TrackerAssumption ==
  /\ Owner \notin Trackers
  /\ Query \in [Trackers -> SUBSET Properties] /\ Properties # {}
  /\ IsFiniteSet(Tasks) /\ MaxServices \in Nat /\ MaxUse \in Nat
  /\ Unset \notin Int
  /\ Priority \in [Ids -> Int \union {Unset}]
  /\ NoReference \notin [bundle : Trackers \union {Owner}, classes : {<<Class>>},
                         sort : (Range(Priority) \ {Unset}) \union {50}]

VARIABLES
  listening,   \* the trackers in the dispatcher's tables of service listeners
  tracked,     \* the references each tracker holds, in the order of its dict
  opener,      \* the open or close of each tracker, if one is in progress
  task,        \* the call of each client: the service, the deliveries left
  ready,       \* the tasks some of whose deliveries have not begun, in order
  props,       \* the properties of each service
  disturbed,   \* history: a call overlapped another on the same service or
               \* the open or close of a tracker, a listener raised, or an
               \* event came to a tracker as of the wrong kind
  (* the state of the service registry *)
  nextId, services, reference, classIndex, bundleServices, using, usedBy,
  resorted

Registry == INSTANCE ServiceRegistry WITH
  Bundles <- Trackers \union {Owner}, Classes <- {Class},
  ClassTuples <- {<<Class>>}, Priorities <- Range(Priority) \ {Unset},
  MaxUse <- MaxUse + Cardinality(Tasks) + 1

registryVars == <<nextId, services, reference, classIndex, bundleServices,
                  using, usedBy, resorted>>
trackerVars == <<listening, tracked, opener>>
clientVars == <<task, ready, props>>
vars == <<trackerVars, clientVars, disturbed, registryVars>>

Kinds == {"REGISTERED", "MODIFIED", "UNREGISTERING", "MODIFIED_ENDMATCH"}

(* The locals of open and close: the reference the listener is called for, *)
(* and what the loop has left.  A tracker without a query walks the very   *)
(* list the registry keeps (live), from index at; one with a query a copy. *)
Closed == [pc |-> "closed", ref |-> 0, live |-> FALSE, at |-> 1, rest |-> <<>>]
Opened == [Closed EXCEPT !.pc = "open"]

Idle == [ref |-> 0, pending |-> <<>>]

Init ==
  /\ listening = {}
  /\ tracked = [tr \in Trackers |-> <<>>]
  /\ opener = [tr \in Trackers |-> Closed]
  /\ task = [t \in Tasks |-> Idle] /\ ready = <<>>
  /\ props = [i \in Ids |-> CHOOSE q \in Properties : TRUE]
  /\ disturbed = FALSE
  /\ Registry!Init

Matches(tr, i) == props[i] \in Query[tr]

(* A bundle's call of a tracker or a client's call is left to begin only   *)
(* below the bound on uses.                                                *)
BelowBound == \A tr \in Trackers, i \in Ids : using[tr][i] < MaxUse

Walking == {tr \in Trackers : opener[tr].pc \in {"adding", "removing"}}
Calling == {t \in Tasks : task[t] # Idle}

-----------------------------------------------------------------------------
Before(i, j) == Registry!Less(Registry!SortValue(i), Registry!SortValue(j))

(* sorted: the references from the first to the last.                      *)
Ordered(refs) ==
  CHOOSE s \in [1..Cardinality(refs) -> refs] :
    \A j, k \in 1..Cardinality(refs) : j < k => Before(s[j], s[k])

(* _ServiceTracked.tracked with a reference set: a new key comes last.     *)
Entered(tr, i) ==
  IF Contains(tracked[tr], i) THEN tracked[tr] ELSE Append(tracked[tr], i)

(* Mutant of EnteredInOrder: no sort.                                      *)
EnteredLast(tr, i) == Entered(tr, i)

(* track: the new reference is set and the dictionary sorted.              *)
EnteredInOrder(tr, i) == Ordered(Range(Entered(tr, i)))

(* Mutant of Untracked: the entry goes only after the listener returned.   *)
StillTracked(tr, i) == tracked[tr]

(* untrack: the entry is deleted before the listener is called.            *)
Untracked(tr, i) == Ordered(Range(tracked[tr]) \ {i})

-----------------------------------------------------------------------------
(* get_service_references of the tracker's class and query: the registry's *)
(* own list if there is no query and some service is in it, otherwise those*)
(* of it the query matches, in its order (which is that of the priorities, *)
(* for none changes here).                                                 *)
InitialReferences(tr) ==
  IF Query[tr] = Properties /\ classIndex[Class] # <<>>
  THEN [Opened EXCEPT !.live = TRUE]
  ELSE [Opened EXCEPT !.rest =
          Ordered({i \in Range(classIndex[Class]) : Matches(tr, i)})]

(* What the loop of track_initial has left.                                *)
Left(walk) ==
  IF walk.live THEN SubSeq(classIndex[Class], walk.at, Len(classIndex[Class]))
  ELSE walk.rest

(* track_initial goes on with what walk has left up to its next await:     *)
(* get_service raises, out of open, for a service that is gone by now.     *)
WalkOn(tr, walk) ==
  \/ /\ Left(walk) = <<>>
     /\ opener' = [opener EXCEPT ![tr] = Opened]
     /\ UNCHANGED registryVars
  \/ /\ Left(walk) # <<>>
     /\ LET i == Head(Left(walk))
        IN  /\ Registry!GetService(tr, i)
            /\ opener' = [opener EXCEPT ![tr] =
                 IF i \notin services THEN Opened
                 ELSE [walk EXCEPT !.pc = "adding", !.ref = i,
                         !.at = IF walk.live THEN @ + 1 ELSE @,
                         !.rest = IF walk.live THEN @ ELSE Tail(@)]]

(* close goes on to the next reference of its list that is still tracked.  *)
CloseOn(tr, refs) ==
  LET k == SelectInSeq(refs, LAMBDA i : Contains(tracked[tr], i))
  IN  IF k = 0
      THEN opener' = [opener EXCEPT ![tr] = Closed] /\ UNCHANGED tracked
      ELSE /\ tracked' = [tracked EXCEPT ![tr] = Untracked(tr, refs[k])]
           /\ opener' = [opener EXCEPT ![tr] =
                [Closed EXCEPT !.pc = "removing", !.ref = refs[k],
                               !.rest = SubSeq(refs, k + 1, Len(refs))]]

(* ServiceTracker.open up to its first await, and its loop.                *)
Open(tr) ==
  /\ opener[tr].pc = "closed" /\ BelowBound
  /\ Cardinality({o \in Trackers : opener[o].pc # "closed"}) < MaxOpen
  /\ listening' = listening \union {tr}
  /\ WalkOn(tr, InitialReferences(tr))
  /\ disturbed' = (disturbed \/ Calling # {})
  /\ UNCHANGED <<tracked, clientVars>>

InitialAdded(tr) ==
  /\ opener[tr].pc = "adding"
  /\ tracked' = [tracked EXCEPT ![tr] = Entered(tr, opener[tr].ref)]
  /\ WalkOn(tr, opener[tr])
  /\ UNCHANGED <<listening, clientVars, disturbed>>

InitialAddRaises(tr) ==
  /\ opener[tr].pc = "adding"
  /\ opener' = [opener EXCEPT ![tr] = Opened]
  /\ disturbed' = TRUE
  /\ UNCHANGED <<listening, tracked, clientVars, registryVars>>

(* ServiceTracker.close up to its first await, and its loop.               *)
Close(tr) ==
  /\ opener[tr].pc = "open"
  /\ listening' = listening \ {tr}
  /\ CloseOn(tr, Ordered(Range(tracked[tr])))
  /\ disturbed' = (disturbed \/ Calling # {})
  /\ UNCHANGED <<clientVars, registryVars>>

ClosedRemoved(tr) ==
  /\ opener[tr].pc = "removing"
  /\ Registry!UngetService(tr, opener[tr].ref)
  /\ CloseOn(tr, opener[tr].rest)
  /\ UNCHANGED <<listening, clientVars, disturbed>>

(* The exception of on_removed_service ends close; no use is returned.     *)
ClosedRemoveRaises(tr) ==
  /\ opener[tr].pc = "removing"
  /\ opener' = [opener EXCEPT ![tr] = Closed]
  /\ disturbed' = TRUE
  /\ UNCHANGED <<listening, tracked, clientVars, registryVars>>

-----------------------------------------------------------------------------
(* ServiceListeners.fire_event: which trackers see an event, and as what.  *)
(* The listeners come in any order.  The first of them that the properties *)
(* no longer match, after a modification, makes the event MODIFIED_ENDMATCH*)
(* for itself and for all that come after it, of which those that do not   *)
(* match either see nothing.                                               *)
Matched(now) == {tr \in listening : now \in Query[tr]}

Leavers(kind, now, before) ==
  IF kind = "MODIFIED"
  THEN {tr \in listening \ Matched(now) : before \in Query[tr]} ELSE {}

SentAs(kind, now, first, early) ==
  [tr \in Matched(now) \union {first} |->
     IF tr \in early THEN kind ELSE "MODIFIED_ENDMATCH"]

Deliveries(kind, now, before) ==
  IF Leavers(kind, now, before) = {} THEN {[tr \in Matched(now) |-> kind]}
  ELSE {SentAs(kind, now, first, early) :
          first \in Leavers(kind, now, before), early \in SUBSET Matched(now)}

(* The client's call, after its change of the registry, fires its event    *)
(* and waits for the deliveries it made tasks of.                          *)
Fire(t, i, kind, now, before, overlaps) ==
  \E out \in Deliveries(kind, now, before) :
    /\ task' = [task EXCEPT ![t] =
         IF DOMAIN out = {} THEN Idle
         ELSE [ref |-> i,
               pending |-> [tr \in DOMAIN out |-> [kind |-> out[tr], pc |-> "scheduled"]]]]
    /\ ready' = IF DOMAIN out = {} THEN ready ELSE Append(ready, t)
    /\ disturbed' = \/ disturbed \/ overlaps
                    \/ \E tr \in DOMAIN out : out[tr] # kind /\ now \in Query[tr]

Free(t) == task[t] = Idle /\ BelowBound

(* A call on service i begins.                                             *)
Overlaps(i) == Walking # {} \/ \E u \in Calling : task[u].ref = i

Register(t, q) ==
  /\ Free(t)
  /\ nextId \in Ids
  /\ Registry!Register(Owner, <<Class>>, Priority[nextId])
  /\ props' = [props EXCEPT ![nextId] = q]
  /\ Fire(t, nextId, "REGISTERED", q, q, Walking # {})
  /\ UNCHANGED trackerVars

(* A walk over the registry's own list keeps the list when the registry    *)
(* drops it empty, and sees nothing of what is registered later.           *)
Unregister(t, i) ==
  /\ Free(t)
  /\ Registry!Unregister(i)
  /\ Fire(t, i, "UNREGISTERING", props[i], props[i], Overlaps(i))
  /\ opener' = [tr \in Trackers |->
       IF classIndex'[Class] = <<>> /\ opener[tr].live
       THEN [opener[tr] EXCEPT !.live = FALSE, !.at = 1] ELSE opener[tr]]
  /\ UNCHANGED <<listening, tracked, props>>

(* ServiceRegistration.set_properties, of a service that may be gone.      *)
Modify(t, i, q) ==
  /\ Free(t) /\ Registry!Issued(i)
  /\ props' = [props EXCEPT ![i] = q]
  /\ Fire(t, i, "MODIFIED", q, props[i], Overlaps(i) \/ i \notin services)
  /\ UNCHANGED <<trackerVars, registryVars>>

-----------------------------------------------------------------------------
(* The delivery of t's event to tr begins: t has the turn in the event     *)
(* loop's queue.                                                           *)
Turn(t, tr) ==
  /\ ready # <<>> /\ Head(ready) = t
  /\ tr \in DOMAIN task[t].pending /\ task[t].pending[tr].pc = "scheduled"

Scheduled(pending) == {tr \in DOMAIN pending : pending[tr].pc = "scheduled"}

(* The deliveries t waits for are now those of pending.                    *)
Wait(t, pending) ==
  /\ task' = [task EXCEPT ![t] =
       IF DOMAIN pending = {} THEN Idle ELSE [@ EXCEPT !.pending = pending]]
  /\ ready' = IF Scheduled(task[t].pending) # {} /\ Scheduled(pending) = {}
              THEN SelectSeq(ready, LAMBDA u : u # t) ELSE ready

(* The delivery to tr stops at an await, or is over.                       *)
Await(t, tr, p) == Wait(t, [task[t].pending EXCEPT ![tr].pc = p])
Finish(t, tr) ==
  Wait(t, [o \in DOMAIN task[t].pending \ {tr} |-> task[t].pending[o]])

Awaited(t, tr, p) == tr \in DOMAIN task[t].pending /\ task[t].pending[tr].pc = p

(* _ServiceTracked.service_changed.                                        *)
Handles(kind) ==
  CASE kind \in {"REGISTERED", "MODIFIED"} -> "track"
    [] kind = "UNREGISTERING" -> "untrack"
    [] OTHER -> "none"

(* Mutant of Knows: a reference is added whether it is tracked or not.     *)
KnowsNone(tr, i) == FALSE

Knows(tr, i) == Contains(tracked[tr], i)

(* track of a reference that is tracked already.                           *)
CallModified(t, tr) ==
  /\ Turn(t, tr) /\ Handles(task[t].pending[tr].kind) = "track"
  /\ Knows(tr, task[t].ref)
  /\ Await(t, tr, "modifying")
  /\ UNCHANGED <<trackerVars, props, disturbed, registryVars>>

(* track of another: the service is obtained, which raises if it is gone.  *)
CallAdding(t, tr) ==
  LET i == task[t].ref
  IN  /\ Turn(t, tr) /\ Handles(task[t].pending[tr].kind) = "track"
      /\ ~Knows(tr, i)
      /\ Registry!GetService(tr, i)
      /\ IF i \in services THEN Await(t, tr, "adding") ELSE Finish(t, tr)
      /\ UNCHANGED <<trackerVars, props, disturbed>>

CallRemoved(t, tr) ==
  /\ Turn(t, tr) /\ Handles(task[t].pending[tr].kind) = "untrack"
  /\ Contains(tracked[tr], task[t].ref)
  /\ tracked' = [tracked EXCEPT ![tr] = Untracked(tr, task[t].ref)]
  /\ Await(t, tr, "removing")
  /\ UNCHANGED <<listening, opener, props, disturbed, registryVars>>

(* An event that is not handled, or whose reference is not tracked.        *)
Ignore(t, tr) ==
  LET handles == Handles(task[t].pending[tr].kind)
  IN  /\ Turn(t, tr)
      /\ \/ handles = "none"
         \/ handles = "untrack" /\ ~Contains(tracked[tr], task[t].ref)
      /\ Finish(t, tr)
      /\ UNCHANGED <<trackerVars, props, disturbed, registryVars>>

Added(t, tr) ==
  /\ Awaited(t, tr, "adding")
  /\ tracked' = [tracked EXCEPT ![tr] = EnteredInOrder(tr, task[t].ref)]
  /\ Finish(t, tr)
  /\ UNCHANGED <<listening, opener, props, disturbed, registryVars>>

Modified(t, tr) ==
  /\ Awaited(t, tr, "modifying")
  /\ Finish(t, tr)
  /\ UNCHANGED <<trackerVars, props, disturbed, registryVars>>

Removed(t, tr) ==
  /\ Awaited(t, tr, "removing")
  /\ Registry!UngetService(tr, task[t].ref)
  /\ Finish(t, tr)
  /\ UNCHANGED <<trackerVars, props, disturbed>>

(* The listener raises; the dispatcher prints it, and what was to follow   *)
(* the listener's call is not done.                                        *)
ListenerRaises(t, tr) ==
  /\ \E p \in {"adding", "modifying", "removing"} : Awaited(t, tr, p)
  /\ Finish(t, tr)
  /\ disturbed' = TRUE
  /\ UNCHANGED <<trackerVars, props, registryVars>>

-----------------------------------------------------------------------------
Next ==
  \/ \E tr \in Trackers : \/ Open(tr) \/ InitialAdded(tr) \/ InitialAddRaises(tr)
                          \/ Close(tr) \/ ClosedRemoved(tr) \/ ClosedRemoveRaises(tr)
  \/ \E t \in Tasks :
       \/ \E q \in Properties : Register(t, q)
       \/ \E i \in Ids : Unregister(t, i)
       \/ \E i \in Ids, q \in Properties : Modify(t, i, q)
  \/ \E t \in Tasks, tr \in Trackers :
       \/ CallModified(t, tr) \/ CallAdding(t, tr) \/ CallRemoved(t, tr)
       \/ Ignore(t, tr) \/ Added(t, tr) \/ Modified(t, tr) \/ Removed(t, tr)
       \/ ListenerRaises(t, tr)

Spec == Init /\ [][Next]_vars

-----------------------------------------------------------------------------

(* The uses of i that tr has obtained and has still to return: for the     *)
(* reference it tracks, for one its listener is being told of.             *)
Owed(tr, i) ==
  (IF Contains(tracked[tr], i) THEN 1 ELSE 0)
  + (IF opener[tr].pc \in {"adding", "removing"} /\ opener[tr].ref = i THEN 1 ELSE 0)
  + Cardinality({t \in Tasks : /\ task[t].ref = i
                               /\ \E p \in {"adding", "removing"} : Awaited(t, tr, p)})

(* However open, close and the events interleave, a tracker never returns  *)
(* a use it does not have: what it tracks, what its listener is being told *)
(* of and what it is about to return is still in use.                      *)
UsesCovered ==
  \A tr \in Trackers, i \in Ids : Owed(tr, i) <= using[tr][i]

(* As long as no call overlapped another on the same service, or the open  *)
(* or close of a tracker, no listener raised and no event came to a tracker*)
(* as of the wrong kind: at rest, of the services its query matches now,   *)
(* an open tracker tracks the registered ones and no other, a closed one   *)
(* tracks nothing, and each service is in use once for each tracker of it. *)
(* (A service that stopped to match stays tracked, and what became of it is*)
(* not seen: ENDMATCH is not handled.)                                     *)
SettledExactly ==
  ~disturbed /\ Walking = {} /\ Calling = {} =>
    \A tr \in Trackers :
      /\ {i \in Range(tracked[tr]) : Matches(tr, i)} =
           IF opener[tr].pc = "open" THEN {i \in services : Matches(tr, i)} ELSE {}
      /\ opener[tr].pc = "closed" => tracked[tr] = <<>>
      /\ \A i \in Ids : using[tr][i] = IF Contains(tracked[tr], i) THEN 1 ELSE 0

(* As long, get_service returns the service of the first of the tracked    *)
(* references in the order of priorities, in the middle of open, too.      *)
TrackedInOrder ==
  ~disturbed => \A tr \in Trackers : tracked[tr] = Ordered(Range(tracked[tr]))

=============================================================================
