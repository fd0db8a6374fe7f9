---------------------------- MODULE MCFramework ----------------------------
(* Small instances of the framework for TLC.                               *)
EXTENDS Framework, TLC

(* A second service only while one task at most is in a call: the two       *)
(* services of a sweep need no second call beside it, but the bundle's own. *)
MCBound == nextId > 2 => \E t \in Tasks : task[t] = Idle

MCSymmetry == Permutations(Names) \union Permutations(Tasks)

=============================================================================
