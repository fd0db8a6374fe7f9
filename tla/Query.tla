------------------------------- MODULE Query -------------------------------
(***************************************************************************)
(* The query language (odss.core/query): create_query turns a text or a    *)
(* dictionary of rules into a node.                                        *)
(*                                                                         *)
(* A text is a sequence of tokens: the characters the parser looks at, and *)
(* words for what stands between them.  A word contains no other word.     *)
(* One step is one round of parse_query's loop; anything it raises, be it  *)
(* a ValueError, an IndexError or a TypeError, is the outcome Refused.     *)
(***************************************************************************)
EXTENDS Integers, Sequences, SequencesExt, FiniteSets

CONSTANT Asked \* what create_query is called with: [form, text, rules, tree, groups, cut]

VARIABLES asked, text, pos, escaped, stack, sf, outcome

queryVars == <<asked, text, pos, escaped, stack, sf, outcome>>

Operators == {"=", "<", ">", "~"}
Signs == Operators \cup {"$", "^", "*"}

Logic(kind, value) == [kind |-> kind, value |-> value]
Atom(kind, name, value) == [kind |-> kind, name |-> name, value |-> value]

LogicKinds == [and |-> "&", or |-> "|", not |-> "!"]

\* Not nodes of a query: the start of a text on the stack, no node, and an error.
StartAt(p) == [kind |-> "start", value |-> p]
NoNode == [kind |-> "none"]
Refused == [kind |-> "refused"]

IsLogic(entry) == entry.kind \in DOMAIN LogicKinds

(***************************************************************************)
(* subquery(query, start, end): a condition without parentheses, between   *)
(* two places of the text.  Whether there is a sign is asked of the whole  *)
(* query.                                                                  *)
(***************************************************************************)
NameEnd(start, end) ==
    LET At == {i \in start .. end - 1 : text[i] \in Operators}
    IN  IF At = {} THEN end ELSE CHOOSE i \in At : \A j \in At : i <= j

Equality(name, value) ==
    CASE value = <<"*">> -> Atom("present", name, value)
      [] value # <<"*">> /\ Contains(value, "*") -> Atom("substring", name, value)
      [] OTHER -> Atom("eq", name, value)

Comparison(start, end) ==
    LET op == NameEnd(start, end)
        name == SubSeq(text, start, op - 1)
        From(first) == SubSeq(text, first, end)
        Ordered(kind) == IF text[op + 1] = "=" /\ op + 2 <= end
                         THEN Atom(kind, name, From(op + 2)) ELSE Refused
    IN  CASE op <= start -> Refused
          [] op > start /\ text[op] = "=" /\ op < end -> Equality(name, From(op + 1))
          [] op > start /\ text[op] = "<" -> Ordered("lte")
          [] op > start /\ text[op] = ">" -> Ordered("gte")
          [] op > start /\ text[op] = "~" -> Ordered("approx")
          [] OTHER -> Refused

\* With nothing on the stack top is None: the slice starts at 0, then None < end raises.
Subquery(top, end) ==
    LET start == IF top = NoNode THEN 1 ELSE top.value
        sub == SubSeq(text, start, end)
        signed == ToSet(text) \cap Signs # {}
    IN  CASE sub = <<"*">> -> Atom("all", <<>>, <<>>)
          [] sub # <<"*">> /\ (sub = <<>> \/ (signed /\ top = NoNode)) -> Refused
          [] sub \notin {<<"*">>, <<>>} /\ ~signed -> Atom("present", sub, <<"*">>)
          [] OTHER -> Comparison(start, end)

(***************************************************************************)
(* parse_query, a step for each character.                                 *)
(***************************************************************************)
\* A mutant of Wrapped: a text is wrapped when one end lacks its parenthesis.
WrappedAtEither(query) ==
    IF query # <<>> /\ (Head(query) # "(" \/ Last(query) # ")")
    THEN <<"(">> \o query \o <<")">>
    ELSE query

Wrapped(query) ==
    IF query # <<>> /\ Head(query) # "(" /\ Last(query) # ")"
    THEN <<"(">> \o query \o <<")">>
    ELSE query

\* _build_query.  Of a rule with a list of values only the first value is kept.
Rule(name, value) ==
    CASE value = <<>> -> Logic("or", <<>>)
      [] OTHER -> Atom("eq", <<name>>, <<Head(value)>>)

BuildQuery(rules) ==
    IF Len(rules) = 1 THEN Rule(rules[1].name, rules[1].value)
    ELSE Logic("and", [i \in DOMAIN rules |-> Rule(rules[i].name, rules[i].value)])

QueryInit ==
    /\ asked \in Asked
    /\ text = Wrapped(asked.text)
    /\ pos = 1 /\ escaped = FALSE /\ stack = <<>> /\ sf = NoNode
    /\ outcome = CASE asked.form = "none" -> Atom("all", <<>>, <<>>)
                   [] asked.form = "dict" -> BuildQuery(asked.rules)
                   [] asked.form = "text" /\ asked.text = <<>> -> Refused
                   [] OTHER -> NoNode

Reading == outcome = NoNode /\ pos <= Len(text)

Escaped == /\ Reading /\ escaped
           /\ escaped' = FALSE /\ pos' = pos + 1
           /\ UNCHANGED <<asked, text, stack, sf, outcome>>

Pushed(next) == IF \E kind \in DOMAIN LogicKinds : LogicKinds[kind] = next
                THEN Logic(CHOOSE kind \in DOMAIN LogicKinds : LogicKinds[kind] = next, <<>>)
                ELSE StartAt(pos + 1)

Open == /\ Reading /\ ~escaped /\ text[pos] = "("
        /\ IF pos = Len(text)
           THEN outcome' = Refused /\ UNCHANGED stack
           ELSE stack' = Append(stack, Pushed(text[pos + 1])) /\ UNCHANGED outcome
        /\ pos' = pos + 1
        /\ UNCHANGED <<asked, text, escaped, sf>>

\* A mutant of Popped: a node keeps only the last of its parts.
PoppedLast(node) ==
    LET rest == IF stack = <<>> THEN <<>> ELSE Front(stack)
    IN  IF rest # <<>> /\ IsLogic(Last(rest))
        THEN /\ stack' = ReplaceAt(rest, Len(rest), [Last(rest) EXCEPT !.value = <<node>>])
             /\ UNCHANGED sf
        ELSE stack' = rest /\ sf' = node

\* What a closing parenthesis ends goes to the logic node around it, or is the result so far.
Popped(node) ==
    LET rest == IF stack = <<>> THEN <<>> ELSE Front(stack)
    IN  IF rest # <<>> /\ IsLogic(Last(rest))
        THEN /\ stack' = ReplaceAt(rest, Len(rest),
                             [Last(rest) EXCEPT !.value = Append(@, node)])
             /\ UNCHANGED sf
        ELSE stack' = rest /\ sf' = node

Close == /\ Reading /\ ~escaped /\ text[pos] = ")"
         /\ LET top == IF stack = <<>> THEN NoNode ELSE Last(stack)
                node == IF IsLogic(top) THEN top ELSE Subquery(top, pos - 1)
            IN  IF node = Refused
                THEN outcome' = Refused /\ UNCHANGED <<stack, sf>>
                ELSE Popped(node) /\ UNCHANGED outcome
         /\ pos' = pos + 1
         /\ UNCHANGED <<asked, text, escaped>>

Other == /\ Reading /\ ~escaped /\ text[pos] \notin {"(", ")"}
         /\ escaped' = (text[pos] = "\\") /\ pos' = pos + 1
         /\ UNCHANGED <<asked, text, stack, sf, outcome>>

End == /\ outcome = NoNode /\ pos > Len(text)
       /\ outcome' = IF sf = NoNode THEN Refused ELSE sf
       /\ UNCHANGED <<asked, text, pos, escaped, stack, sf>>

QueryNext == Escaped \/ Open \/ Close \/ Other \/ End

QuerySpec == QueryInit /\ [][QueryNext]_queryVars /\ WF_queryVars(QueryNext)
-----------------------------------------------------------------------------
(***************************************************************************)
(* Properties.  Where asked.tree is a tree, asked.text is its written form *)
(* or, if asked.cut is an end, that form without its token at this end.    *)
(* Of a written form, asked.groups has for each "(" the place of its ")",  *)
(* the node written between them, and the places of the "(" of its parts.  *)
(***************************************************************************)
Orderings == [lte |-> "<", gte |-> ">", approx |-> "~"]

\* *, or a name, an operator and a value.
IsCondition(w, i, g) ==
    LET Value(first) == SubSeq(w, first, g.end - 1)
        Compares(kind, first) == first < g.end /\ g.node = Atom(kind, <<w[i + 1]>>, Value(first))
    IN  /\ \A j \in i + 1 .. g.end - 1 : w[j] \notin {"(", ")"}
        /\ w[i + 1] \notin ToSet(<<"&", "|", "!">>) \cup Operators
        /\ \/ g.node = Atom("all", <<>>, <<>>) /\ g.end = i + 2 /\ w[i + 1] = "*"
           \/ Compares("eq", i + 3) /\ w[i + 2] = "=" /\ "*" \notin ToSet(Value(i + 3))
           \/ Compares("present", i + 3) /\ w[i + 2] = "=" /\ Value(i + 3) = <<"*">>
           \/ /\ Compares("substring", i + 3) /\ w[i + 2] = "="
              /\ "*" \in ToSet(Value(i + 3)) /\ g.end > i + 4
           \/ \E kind \in DOMAIN Orderings :
                 Compares(kind, i + 4) /\ w[i + 2] = Orderings[kind] /\ w[i + 3] = "="

\* Where a part begins, and behind the last one, where the group ends.
PartAt(groups, i, k) == IF k = 1 THEN i + 2 ELSE groups[groups[i].parts[k - 1]].end + 1

\* The sign and the parts, one behind the other.
IsGroup(w, groups, i) ==
    LET g == groups[i]
    IN  /\ w[i + 1] = LogicKinds[g.node.kind]
        /\ g.parts \in Seq(DOMAIN groups)
        /\ \A k \in DOMAIN g.parts : g.parts[k] = PartAt(groups, i, k)
        /\ g.end = PartAt(groups, i, Len(g.parts) + 1)
        /\ g.node = Logic(g.node.kind, [k \in DOMAIN g.parts |-> groups[g.parts[k]].node])

\* groups says how the text w is nested, and of what node each of its groups is the written form.
Derives(groups, w) ==
    /\ w \in Seq(ToSet(w)) /\ "\\" \notin ToSet(w)
    /\ DOMAIN groups = {i \in DOMAIN w : w[i] = "("}
    /\ 1 \in DOMAIN groups /\ groups[1].end = Len(w)
    /\ \A i \in DOMAIN groups :
          /\ groups[i].end \in i + 2 .. Len(w) /\ w[groups[i].end] = ")"
          /\ IF IsLogic(groups[i].node) THEN IsGroup(w, groups, i) ELSE IsCondition(w, i, groups[i])

IsWhole(a) == a.tree # NoNode /\ a.cut = "none"

\* What a text, a dictionary with a word for each name and None say.
ASSUME WholeAssumption ==
    \A a \in Asked : IsWhole(a) =>
        \/ a.form = "text" /\ Derives(a.groups, a.text) /\ a.tree = a.groups[1].node
        \/ /\ a.form = "dict" /\ a.rules \in Seq(ToSet(a.rules))
           /\ \A i \in DOMAIN a.rules : a.rules[i].value = <<Head(a.rules[i].value)>>
           /\ a.tree = Logic("and", [i \in DOMAIN a.rules |->
                                      Atom("eq", <<a.rules[i].name>>, a.rules[i].value)])
        \/ a.form = "none" /\ a.tree = Atom("all", <<>>, <<>>)

Depth(w, n) ==
    Cardinality({i \in 1 .. n : w[i] = "("}) - Cardinality({i \in 1 .. n : w[i] = ")"})

\* What a written form is, of trees of any size: the first and the last token belong together,
\* a parenthesis that begins no conjunction, disjunction or negation closes before the next one
\* opens, and there is an operator.
IsWritten(w) ==
    /\ Len(w) > 2 /\ Depth(w, Len(w)) = 0 /\ \A n \in 1 .. Len(w) - 1 : Depth(w, n) > 0
    /\ \A i \in 1 .. Len(w) - 1 : w[i] = "(" /\ w[i + 1] \notin {"&", "|", "!"} =>
           \E j \in i + 1 .. Len(w) : w[j] = ")" /\ \A k \in i + 1 .. j : w[k] # "("
    /\ ToSet(w) \cap Signs # {} /\ "\\" \notin ToSet(w)

Uncut(a) == IF a.cut = "first" THEN <<"(">> \o a.text ELSE Append(a.text, ")")

\* (*) without its first parenthesis is a query of its own: the prefix is cut from no other.
ASSUME CutsAssumption ==
    \A a \in Asked : a.cut # "none" =>
        /\ a.form = "text" /\ a.cut \in {"first", "last"}
        /\ a.text \in Seq(ToSet(a.text)) /\ IsWritten(Uncut(a))
        /\ a.cut = "first" => a.text # <<"*", ")">>

\* A condition that lost its first or its last parenthesis is refused: it is never
\* taken for another one (the wrapping and the final sf of parse_query).
UnclosedRefused ==
    asked.cut # "none" /\ outcome # NoNode => outcome = Refused
=============================================================================
