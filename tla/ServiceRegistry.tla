-------------------------- MODULE ServiceRegistry --------------------------
(***************************************************************************)
(* The service registry of odss.core (registry.py): which services exist,  *)
(* the per-class lists kept in priority order with bisect, the list of     *)
(* services each bundle registered, and two independent books of use: the  *)
(* registry's (bundle -> reference -> count) and the reference's           *)
(* (bundle -> count).                                                      *)
(*                                                                         *)
(* Every method of the registry is synchronous, so each is one action.  A  *)
(* reference outlives its registration: a client may hold one of a service *)
(* that is gone, use it, and even set the properties of its registration.  *)
(* An entry of a dictionary is absent when its value is empty or zero      *)
(* here: the code deletes such entries or treats both alike.               *)
(***************************************************************************)
EXTENDS Integers, Sequences, SequencesExt, Bisect

CONSTANTS
  Bundles,       \* the bundles that register and use services
  Classes,       \* the class names services are registered under
  ClassTuples,   \* the tuples of distinct classes a registration may name
  Priorities,    \* the service priority values a client passes
  Unset,         \* a registration that names no service priority
  NoReference,   \* the id was not issued, or its registration was rejected
  MaxServices,   \* bound: ids issued
  MaxUse         \* bound: unbalanced get_service calls of a bundle on an id

DefaultPriority == 50

Ids == 1..MaxServices

ASSUME ConstantsAssumption ==
  /\ Priorities \subseteq Int
  /\ Unset \notin Int
  /\ ClassTuples \subseteq Seq(Classes)
  /\ \A cs \in ClassTuples :
       \A j, k \in DOMAIN cs : cs[j] = cs[k] => j = k
  /\ MaxServices \in Nat /\ MaxUse \in Nat
  /\ NoReference \notin [bundle : Bundles, classes : ClassTuples,
                         sort : Priorities \union {DefaultPriority}]

VARIABLES
  nextId,          \* _next_service_id
  services,        \* the keys of _services
  reference,       \* every reference issued, registered or not
  classIndex,      \* _services_classes
  bundleServices,  \* __bundle_services (appended to in the order of the ids)
  using,           \* __bundle_unsing of the registry
  usedBy,          \* __using_bundles of each reference
  resorted         \* history: a registered reference changed its sort value

vars == <<nextId, services, reference, classIndex, bundleServices,
          using, usedBy, resorted>>

books == <<using, usedBy>>

Sorts == Priorities \union {DefaultPriority}

References == [bundle : Bundles, classes : ClassTuples, sort : Sorts]

Issued(i) == reference[i] # NoReference
Registered(b) == {i \in services : reference[i].bundle = b}

-----------------------------------------------------------------------------
(* The order of references is that of the pairs (priority, id), and a      *)
(* reference's pair is read when it is compared: a list that holds it is   *)
(* not told that its priority changed.                                     *)
SortValue(i) == <<reference[i].sort, i>>

(* Where bisect_left puts sort value x in the list of class c, from 1.     *)
Position(c, x) ==
  1 + BisectLeft([k \in DOMAIN classIndex[c] |-> SortValue(classIndex[c][k])], x)

(* find_service_references and find_service_reference by class, no query.  *)
FindReferences(c) == classIndex[c]
FindReference(c) == IF classIndex[c] = <<>> THEN 0 ELSE Head(classIndex[c])

(* Mutant of NewId: the first id that is free.                             *)
FreeId == CHOOSE i \in Ids \ services : \A j \in Ids \ services : i <= j

(* The id of the next registration, spent whatever comes of it.            *)
NewId == nextId

(* Mutant of Disowned: the owner's whole list goes.                        *)
DisownedAll(i) == [bundleServices EXCEPT ![reference[i].bundle] = {}]

(* The owners' lists without i.                                            *)
Disowned(i) == [bundleServices EXCEPT ![reference[i].bundle] = @ \ {i}]

(* Mutant of Lowered: a count is lowered without a look at what it is.     *)
LoweredBlindly(n) == n - 1

(* A count of uses after one is returned: an entry is deleted when it is   *)
(* used up, and there is nothing to lower in one that is not there.        *)
Lowered(n) == IF n > 0 THEN n - 1 ELSE 0

(* ServiceReference.used_by and unused_by, which do not count the owner.   *)
used_by(i, b) ==
  IF b = reference[i].bundle THEN usedBy ELSE [usedBy EXCEPT ![i][b] = @ + 1]

(* Mutant of unused_by: the entry is deleted with its last uses unreturned.*)
unused_by_all(i, b) ==
  IF b = reference[i].bundle THEN usedBy ELSE [usedBy EXCEPT ![i][b] = 0]

unused_by(i, b) ==
  IF b = reference[i].bundle THEN usedBy
  ELSE [usedBy EXCEPT ![i][b] = Lowered(@)]

-----------------------------------------------------------------------------
Init ==
  /\ nextId = 1
  /\ services = {}
  /\ reference = [i \in Ids |-> NoReference]
  /\ classIndex = [c \in Classes |-> <<>>]
  /\ bundleServices = [b \in Bundles |-> {}]
  /\ using = [b \in Bundles |-> [i \in Ids |-> 0]]
  /\ usedBy = [i \in Ids |-> [b \in Bundles |-> 0]]
  /\ resorted = FALSE

(* register, of a service whose priority is an integer or left out.        *)
Register(b, cs, p) ==
  LET i == NewId
      sort == IF p = Unset THEN DefaultPriority ELSE p
  IN  /\ nextId \in Ids
      /\ nextId' = nextId + 1
      /\ services' = services \union {i}
      /\ reference' = [reference EXCEPT ![i] =
            [bundle |-> b, classes |-> cs, sort |-> sort]]
      /\ classIndex' = [c \in Classes |->
            IF c \in Range(cs)
            THEN InsertAt(classIndex[c], Position(c, <<sort, i>>), i)
            ELSE classIndex[c]]
      /\ bundleServices' = [bundleServices EXCEPT ![b] = @ \union {i}]
      /\ UNCHANGED <<books, resorted>>

(* register, when int() of the priority raises in the new reference: the   *)
(* id is spent and nothing else has happened.                              *)
RegisterRejected ==
  /\ nextId \in Ids
  /\ nextId' = nextId + 1
  /\ UNCHANGED <<services, reference, classIndex, bundleServices, books,
                 resorted>>

(* The classes of i whose list loses an element when i is unregistered:    *)
(* the loop raises at the first class whose key is gone (KeyError) or      *)
(* where the insertion point of i is past the end (IndexError).  What is   *)
(* deleted is whatever stands at the insertion point.                      *)
UnlistedClasses(i) ==
  LET cs == reference[i].classes
      listed(k) == Position(cs[k], SortValue(i)) <= Len(classIndex[cs[k]])
  IN  {cs[k] : k \in {k \in DOMAIN cs : \A j \in 1..k : listed(j)}}

(* unregister; the owner's list is reached only if the loop finished.      *)
Unregister(i) ==
  LET unlisted == UnlistedClasses(i)
  IN  /\ i \in services
      /\ services' = services \ {i}
      /\ classIndex' = [c \in Classes |->
            IF c \in unlisted
            THEN RemoveAt(classIndex[c], Position(c, SortValue(i)))
            ELSE classIndex[c]]
      /\ bundleServices' =
            IF unlisted = Range(reference[i].classes)
            THEN Disowned(i)
            ELSE bundleServices
      /\ UNCHANGED <<nextId, reference, books, resorted>>

(* ServiceRegistration.set_properties with a new service priority: the     *)
(* sort value follows it and no list moves.  (A priority that int() rejects*)
(* is stored, but check_sort_update raises and the sort value stays.)      *)
SetProperties(i, p) ==
  /\ Issued(i)
  /\ reference' = [reference EXCEPT ![i].sort = p]
  /\ resorted' = \/ resorted
                 \/ (i \in services /\ p # reference[i].sort)
  /\ UNCHANGED <<nextId, services, classIndex, bundleServices, books>>

(* get_service: the registry's count is raised before the service is       *)
(* looked up, the reference's (not kept for the owner) only if it is found.*)
GetService(b, i) ==
  /\ Issued(i)
  /\ using[b][i] < MaxUse
  /\ using' = [using EXCEPT ![b][i] = @ + 1]
  /\ usedBy' = IF i \in services THEN used_by(i, b) ELSE usedBy
  /\ UNCHANGED <<nextId, services, reference, classIndex, bundleServices,
                 resorted>>

(* unget_service: each book lowers its own count if it has one.            *)
UngetService(b, i) ==
  /\ Issued(i)
  /\ usedBy' = unused_by(i, b)
  /\ using' = [using EXCEPT ![b][i] = Lowered(@)]
  /\ UNCHANGED <<nextId, services, reference, classIndex, bundleServices,
                 resorted>>

Next ==
  \/ \E b \in Bundles, cs \in ClassTuples, p \in Priorities \union {Unset} :
       Register(b, cs, p)
  \/ RegisterRejected
  \/ \E i \in Ids : Unregister(i)
  \/ \E i \in Ids, p \in Priorities : SetProperties(i, p)
  \/ \E b \in Bundles, i \in Ids : GetService(b, i) \/ UngetService(b, i)

Spec == Init /\ [][Next]_vars

-----------------------------------------------------------------------------
(* Types, and what an id that was not issued yet can have: nothing.        *)
TypeOK ==
  /\ nextId \in 1..(MaxServices + 1)
  /\ services \subseteq Ids
  /\ reference \in [Ids -> References \union {NoReference}]
  /\ classIndex \in [Classes -> Seq(Ids)]
  /\ bundleServices \in [Bundles -> SUBSET Ids]
  /\ using \in [Bundles -> [Ids -> Nat]]
  /\ usedBy \in [Ids -> [Bundles -> Nat]]
  /\ resorted \in BOOLEAN

(* Every registered service is in the list of the bundle that registered   *)
(* it and no list holds another bundle's service, whatever happens to the  *)
(* class lists: the sweep of a stopping bundle misses none of its services.*)
OwnerListsCover ==
  \A b \in Bundles :
    /\ Registered(b) \subseteq bundleServices[b]
    /\ \A i \in bundleServices[b] : reference[i].bundle = b

(* The two books of use agree on a service that is still registered, the   *)
(* reference never counts more uses than the registry, and it counts none  *)
(* by its owner: get_using_bundles and get_bundle_using_services tell one  *)
(* story however gets, ungets and registrations interleave.                *)
UsageBooksAgree ==
  \A b \in Bundles, i \in Ids :
    /\ usedBy[i][b] <= using[b][i]
    /\ Issued(i) /\ reference[i].bundle = b => usedBy[i][b] = 0
    /\ i \in services /\ reference[i].bundle # b => usedBy[i][b] = using[b][i]

(* Until a registered reference changes its sort value, a lookup by class  *)
(* returns exactly the registered services of the class, best first, and   *)
(* the owners' lists hold exactly their registered services: bisect finds  *)
(* in every list the very reference it is asked to delete.                 *)
LookupExact ==
  ~resorted =>
    /\ \A c \in Classes :
         LET refs == FindReferences(c)
         IN  /\ \A j, k \in DOMAIN refs :
                  j < k => Less(SortValue(refs[j]), SortValue(refs[k]))
             /\ Range(refs) =
                  {i \in services : c \in Range(reference[i].classes)}
    /\ \A b \in Bundles : bundleServices[b] = Registered(b)

(* An id is registered at most once in the life of the registry, and a     *)
(* reference keeps its owner and its classes: a held reference never comes *)
(* to denote another service.                                              *)
IdsNeverReused ==
  [][ /\ \A i \in services' \ services : i >= nextId
      /\ \A i \in Ids : Issued(i) =>
           /\ Issued(i)'
           /\ reference'[i].bundle = reference[i].bundle
           /\ reference'[i].classes = reference[i].classes ]_vars

-----------------------------------------------------------------------------
(* What the tests expect once the services of a class are gone             *)
(* (tests/core/test_services.py): no lookup by the class finds anything.   *)
(* The code breaks it: see the run registry_stale_lookup.                  *)
GoneMeansNotFound ==
  \A c \in Classes :
    (\A i \in services : c \notin Range(reference[i].classes))
      => FindReference(c) = 0

=============================================================================
