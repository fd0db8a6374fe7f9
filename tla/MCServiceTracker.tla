-------------------------- MODULE MCServiceTracker --------------------------
(* Instances of ServiceTracker for TLC: a tracker of all services of the   *)
(* class, which walks the registry's list, and one with a query.           *)
EXTENDS ServiceTracker, TLC

CONSTANTS all, some, hit, miss

MCQuery ==
  [tr \in Trackers |-> CASE tr = all -> Properties [] tr = some -> {hit}]

(* The later a service is registered, the earlier it stands in the list.   *)
MCPriority == [i \in Ids |-> IF i = 1 THEN Unset ELSE 10 * (MaxServices - i)]

MCSymmetry == Permutations(Tasks)

=============================================================================
