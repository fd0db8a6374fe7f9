--------------------------- MODULE BundleLifecycle ---------------------------
(***************************************************************************)
(* What the framework promises of its bundles while one call at a time is  *)
(* made: the life of a bundle is RESOLVED, STARTING, ACTIVE, STOPPING and  *)
(* RESOLVED again; one bundle at a time is on its way; bundles run only    *)
(* under a framework that is up, which goes down when none of them is      *)
(* left active.  Framework.tla implements it.                              *)
(***************************************************************************)
CONSTANT BundleIds

VARIABLES up, issued, known, state

vars == <<up, issued, known, state>>

States == {"RESOLVED", "STARTING", "ACTIVE", "STOPPING", "UNINSTALLED"}

Init ==
  /\ up = FALSE
  /\ issued = {} /\ known = {}
  /\ state = [b \in BundleIds |-> "RESOLVED"]

Moving(b) == state[b] \in {"STARTING", "STOPPING"}
Settled == \A b \in BundleIds : ~Moving(b)

(* b goes from a state of from to a state of to; the rest stays.           *)
Moves(b, from, to) ==
  /\ state[b] \in from
  /\ \E s \in to : state' = [state EXCEPT ![b] = s]
  /\ UNCHANGED <<up, issued, known>>

Up == up' = TRUE /\ ~up /\ UNCHANGED <<issued, known, state>>

Down ==
  /\ up /\ Settled
  /\ \A b \in known : state[b] # "ACTIVE"
  /\ up' = FALSE
  /\ UNCHANGED <<issued, known, state>>

Install(b) ==
  /\ b \notin issued
  /\ issued' = issued \union {b} /\ known' = known \union {b}
  /\ UNCHANGED <<up, state>>

(* An uninstalled bundle may be started too.                               *)
Start(b) ==
  /\ up /\ Settled /\ b \in issued
  /\ Moves(b, {"RESOLVED", "UNINSTALLED"}, {"STARTING"})

StartEnds(b) ==
  Moves(b, {"STARTING"}, {"ACTIVE"} \union (States \ {"ACTIVE", "STARTING", "STOPPING"}))

Stop(b) == Settled /\ Moves(b, {"ACTIVE"}, {"STOPPING"})

StopEnds(b) == Moves(b, {"STOPPING"}, {"RESOLVED", "ACTIVE"})

Uninstall(b) ==
  /\ Settled /\ b \in known
  /\ Moves(b, {"RESOLVED"}, {"UNINSTALLED"})

Forget(b) ==
  /\ b \in known /\ state[b] = "UNINSTALLED"
  /\ known' = known \ {b}
  /\ UNCHANGED <<up, issued, state>>

Next ==
  \/ Up \/ Down
  \/ \E b \in BundleIds :
       \/ Install(b) \/ Start(b) \/ StartEnds(b) \/ Stop(b) \/ StopEnds(b)
       \/ Uninstall(b) \/ Forget(b)

Spec == Init /\ [][Next]_vars

=============================================================================
