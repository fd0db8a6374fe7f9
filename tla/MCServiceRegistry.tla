------------------------- MODULE MCServiceRegistry -------------------------
(* Instances of ServiceRegistry for TLC, and the mutants of its checks.    *)
EXTENDS ServiceRegistry, FiniteSets, TLC

(* Every way to name some of the classes, each once, in some order.        *)
MCClassTuples ==
  {cs \in UNION {[1..n -> Classes] : n \in 1..Cardinality(Classes)} :
     \A j, k \in DOMAIN cs : cs[j] = cs[k] => j = k}

(* Below and above the default priority.                                   *)
MCPriorities == {10, 90}

(* The bound: a third service where no bundle uses one.                    *)
MCBound == (\A b \in Bundles, i \in Ids : using[b][i] = 0) \/ nextId <= 3

MCSymmetry == Permutations(Bundles) \union Permutations(Classes)

=============================================================================
