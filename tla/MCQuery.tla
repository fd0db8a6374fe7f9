------------------------------- MODULE MCQuery ------------------------------
(***************************************************************************)
(* What the query module is asked: every text of up to MaxText tokens, the *)
(* written form of every tree of Trees, the same without its first or its  *)
(* last parenthesis, and dictionaries of rules.                            *)
(***************************************************************************)
EXTENDS QueryMatch

CONSTANT MaxText

MCWords == <<"x", "y">>

\* A list only under the name that is never compared by order.
MCParams == {p \in UNION {[names -> {{"x"}, {"y"}, {"x", "y"}}] : names \in SUBSET {"a", "b"}} :
                "b" \in DOMAIN p => p["b"] # {"x", "y"}}

Tokens == {"(", ")", "&", "!", "=", "*", "\\", "a"}

Atoms == {Atom("eq", <<"a">>, <<"x">>), Atom("present", <<"b">>, <<"*">>),
          Atom("lte", <<"b">>, <<"x">>)}

Extra == {Atom("all", <<>>, <<>>), Atom("approx", <<"a">>, <<"y">>),
          Atom("gte", <<"b">>, <<"y">>), Atom("substring", <<"a">>, <<"x", "*">>)}

Combined(T) == {Logic(kind, <<s, t>>) : kind \in {"and", "or"}, s \in T, t \in T}
               \cup {Logic("not", <<t>>) : t \in T}

Trees == LET one == Atoms \cup Combined(Atoms)
         IN  Extra \cup one \cup Combined(one)

RECURSIVE Written(_)
Written(tree) ==
    LET Op == [eq |-> <<"=">>, present |-> <<"=">>, substring |-> <<"=">>, all |-> <<"*">>,
               lte |-> <<"<", "=">>, gte |-> <<">", "=">>, approx |-> <<"~", "=">>]
    IN  <<"(">>
        \o (IF IsLogic(tree)
            THEN <<LogicKinds[tree.kind]>> \o FlattenSeq([i \in DOMAIN tree.value |-> Written(tree.value[i])])
            ELSE tree.name \o Op[tree.kind] \o tree.value)
        \o <<")">>

\* The groups of a tree's written form when it stands at a place of a text.
RECURSIVE Groups(_, _)
Groups(tree, at) ==
    LET parts == IF IsLogic(tree) THEN tree.value ELSE <<>>
        Place[k \in 1 .. Len(parts) + 1] ==
            IF k = 1 THEN at + 2 ELSE Place[k - 1] + Len(Written(parts[k - 1]))
        own == at :> [end |-> at + Len(Written(tree)) - 1, node |-> tree,
                      parts |-> [k \in DOMAIN parts |-> Place[k]]]
    IN  FoldSeq(LAMBDA k, groups : groups @@ Groups(parts[k], Place[k]), own,
                [k \in DOMAIN parts |-> k])

Ask(form, txt, rules, tree, groups, cut) ==
    [form |-> form, text |-> txt, rules |-> rules, tree |-> tree, groups |-> groups, cut |-> cut]

Texts == {Ask("text", txt, <<>>, NoNode, <<>>, "none") : txt \in BoundedSeq(Tokens, MaxText)}

Whole == {Ask("text", Written(t), <<>>, t, Groups(t, 1), "none") : t \in Trees}

Cut == {Ask("text", Tail(Written(t)), <<>>, t, <<>>, "first") : t \in Trees \ {Atom("all", <<>>, <<>>)}}
       \cup {Ask("text", Front(Written(t)), <<>>, t, <<>>, "last") : t \in Trees}

EqRule(rule) == Atom("eq", <<rule.name>>, rule.value)

Dicts == {Ask("dict", <<>>, rules, Logic("and", [i \in DOMAIN rules |-> EqRule(rules[i])]), <<>>, "none") :
            rules \in UNION {[1 .. n -> [name : {"a", "b"}, value : {<<"x">>, <<"y">>}]] : n \in 0 .. 2}}
         \cup {Ask("none", <<>>, <<>>, Atom("all", <<>>, <<>>), <<>>, "none")}

MCAsked == Texts \cup Whole \cup Cut \cup Dicts

RECURSIVE Depths(_)
Depths(tree) == IF IsLogic(tree) THEN 1 + Max({0} \cup {Depths(tree.value[i]) : i \in DOMAIN tree.value})
                ELSE 0

MCHeight ==
    LET conditions == {Atom("eq", <<n>>, <<v>>) : n \in {"a", "b"}, v \in {"x", "y"}}
    IN  [node \in Trees \cup {a.tree : a \in Dicts} \cup conditions |-> Depths(node)]
=============================================================================
