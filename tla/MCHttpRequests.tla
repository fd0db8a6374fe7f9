--------------------------- MODULE MCHttpRequests ---------------------------
(* A browser with two tabs, and four views: one without parameters, two    *)
(* with a body, and one with a query, a list and the request.               *)
EXTENDS HttpRequests

Field(kind, default) == [kind |-> kind, default |-> default]

MCViews == {<<>>, <<Field("body", FALSE)>>, <<Field("body", TRUE)>>,
            <<Field("query", TRUE), Field("list", FALSE), Field("request", FALSE)>>}

MCKeys == {<<0, 1>>, <<1, 1>>}

\* All that a view needs, or one parameter without its value.
MCGifts(view) ==
    LET good == [i \in DOMAIN view |-> "valid"]
    IN  {good} \cup {[good EXCEPT ![i] = gift] : i \in DOMAIN view, gift \in {"absent", "invalid"}}
=============================================================================
