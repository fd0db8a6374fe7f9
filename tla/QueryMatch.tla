------------------------------ MODULE QueryMatch ----------------------------
(***************************************************************************)
(* What a query selects (odss.core/query): node.match on the node that     *)
(* Query.tla makes of a text or of rules, and what the query says.         *)
(***************************************************************************)
EXTENDS Query

CONSTANTS Words,   \* the words, in the order in which strings compare
          Params,  \* the properties of services: partial functions from names to sets of words
          Height   \* how deep each node is nested

Nodes == DOMAIN Height

\* The parts of a node are nodes; a negation has one.
ASSUME NodesAssumption ==
    \A node \in Nodes :
        /\ Height[node] \in Nat
        /\ IF IsLogic(node)
           THEN /\ node.value \in Seq(Nodes)
                /\ node.kind = "not" => Len(node.value) = 1
                /\ \A i \in DOMAIN node.value : Height[node.value[i]] < Height[node]
           ELSE node.kind # "all" => Len(node.name) = 1

ASSUME TreesAssumption == \A a \in Asked : IsWhole(a) => a.tree \in Nodes

(***************************************************************************)
(* node.match(params).  params gives some names a word or a list of words, *)
(* both written as the set of the words; <= and >= are for a word only.    *)
(***************************************************************************)
Rank(word) == CHOOSE i \in DOMAIN Words : Words[i] = word

RemoveAll(s, token) == SelectSeq(s, LAMBDA t : t # token)

Holds(node, words) ==
    \E w \in words :
        CASE node.kind = "present" -> TRUE
          [] node.kind \in {"eq", "approx"} -> node.value = <<w>>
          [] node.kind = "substring" -> RemoveAll(node.value, "*") \in {<<>>, <<w>>}
          [] node.kind = "lte" -> Rank(w) <= Rank(node.value[1])
          [] node.kind = "gte" -> Rank(w) >= Rank(node.value[1])

Match[node \in Nodes] ==
    [params \in Params |->
        \/ node.kind = "all"
        \/ node.kind = "and" /\ \A i \in DOMAIN node.value : Match[node.value[i]][params]
        \/ node.kind = "or" /\ \E i \in DOMAIN node.value : Match[node.value[i]][params]
        \/ node.kind = "not" /\ \E i \in DOMAIN node.value : ~Match[node.value[i]][params]
        \/ /\ node.kind # "all" /\ ~IsLogic(node)
           /\ node.name[1] \in DOMAIN params /\ Holds(node, params[node.name[1]])]

-----------------------------------------------------------------------------
(***************************************************************************)
(* Properties.                                                             *)
(***************************************************************************)
\* The property sets that satisfy a tree, by the logic and not by the code's loops.
Models[tree \in Nodes] ==
    CASE tree.kind = "all" -> Params
      [] tree.kind = "and" ->
            {p \in Params : \A i \in DOMAIN tree.value : p \in Models[tree.value[i]]}
      [] tree.kind = "or" -> UNION {Models[tree.value[i]] : i \in DOMAIN tree.value}
      [] tree.kind = "not" -> Params \ Models[tree.value[1]]
      [] OTHER -> {p \in Params : /\ tree.name[1] \in DOMAIN p
                                  /\ Holds(tree, p[tree.name[1]])}

\* A query written as the grammar has it, or given as a dictionary with one value
\* for each name, selects exactly the services that satisfy it (parse_query, match).
SelectsWhatItSays ==
    IsWhole(asked) /\ outcome # NoNode =>
        /\ outcome \in Nodes
        /\ {p \in Params : Match[outcome][p]} = Models[asked.tree]
=============================================================================
