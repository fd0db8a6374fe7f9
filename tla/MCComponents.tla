---------------------------- MODULE MCComponents ----------------------------
(***************************************************************************)
(* An instance of Components: a class and one derived from it that         *)
(* overrides its constructor and adds a method.                            *)
(***************************************************************************)
EXTENDS Components, TLC

CONSTANTS base, derived, none

MCMro == base :> <<base>> @@ derived :> <<derived, base>>

MCBases == base :> <<"object">> @@ derived :> <<"Base">>

MCInitSpecs == base :> <<"Log">> @@ derived :> <<>>

MCMethods == base :> <<"add">> @@ derived :> <<"add", "drop">>

MCAnnotated == "add" :> "Foo" @@ "drop" :> none

MCMarkArgs == {none} \cup
    {[specification |-> "Foo", spec_filter |-> f, reference |-> FALSE] : f \in {"", none}}

MCSpecs == {<<>>, <<"Foo", "Bar", "Foo">>}
=============================================================================
