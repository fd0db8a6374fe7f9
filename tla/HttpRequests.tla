---------------------------- MODULE HttpRequests ----------------------------
(***************************************************************************)
(* A request on its way through the http server: the engine's _handle, the *)
(* csrf middleware with its cookie and its tokens, the resolution of the   *)
(* handler's parameters, the handler, and the cookies of the response.     *)
(*                                                                         *)
(* The client is a browser with one cookie jar and some tabs, each with    *)
(* the page it got last and at most one request under way.  Requests share *)
(* nothing on the server, so each is answered in a few steps of its own;   *)
(* what they race for is the jar.                                          *)
(*                                                                         *)
(* Bytes are sequences of bits; base64 is left out, decoding what encoding *)
(* made.  Random bytes are any bytes, for secrets any that are not in use. *)
(***************************************************************************)
EXTENDS Naturals, Sequences, SequencesExt

CONSTANTS
    Tabs,
    Methods,
    Absent,       \* no cookie, token, page or cookie of a response
    Views,        \* the handlers, as the sequences of their parameters: [kind, default]
    Gifts(_),     \* what a request may give for each parameter of a view
    SecretLength, \* SECRET_LENGTH, in bits
    Keys,         \* the random bytes that mask a token
    MaxRequests   \* bound: requests the client makes

Bytes == [1 .. SecretLength -> {0, 1}]

\* What the cookie storage and the tokens are made of, and the kinds of parameters there are.
ASSUME RequestsAssumption ==
    /\ SecretLength \in Nat \ {0} /\ Keys \subseteq Bytes
    /\ Absent \notin Bytes \cup Nat
    /\ Absent \notin [value : Bytes \cup {<<>>}, max_age : Nat, expires : BOOLEAN]
    /\ \A view \in Views : \A i \in DOMAIN view :
          /\ view[i].kind \in {"request", "query", "param", "list", "body"}
          /\ view[i].default \in BOOLEAN

VARIABLES
    jar,          \* the client's csrf cookie
    page,         \* the token in the page each tab shows
    request,      \* the request of each tab
    sent,         \* requests made so far
    fresh         \* history: since a tab got its page it was alone in changing the jar

vars == <<jar, page, request, sent, fresh>>

PROTECTED_METHODS == {"POST", "PUT", "UPDATE", "DELETE"}
BodyMethods == {"POST", "PUT", "PATCH", "DELETE"}

(***************************************************************************)
(* csrf/crypto.py                                                          *)
(***************************************************************************)
\* zip stops at the shorter one, and cycle repeats the key, of nothing if it is empty.
one_time_pad(msg, key) ==
    IF key = <<>> THEN <<>>
    ELSE [i \in DOMAIN msg |-> (msg[i] + key[1 + ((i - 1) % Len(key))]) % 2]

mask_token(token, key) == key \o one_time_pad(token, key)

unmask_token(data) ==
    one_time_pad(SubSeq(data, SecretLength + 1, Len(data)), SubSeq(data, 1, SecretLength))

(***************************************************************************)
(* The cookies of a response: the one entry the csrf storage uses.         *)
(* Setting an entry again keeps the attributes it is not given: what       *)
(* remove left has the coded value '""', which set does not recognise.     *)
(***************************************************************************)
\* A mutant of set_cookie: max_age is not passed on.
set_cookie_briefly(entry, value, max_age, expires) ==
    [value |-> value, max_age |-> Absent,
     expires |-> expires \/ (entry # Absent /\ entry.expires)]

set_cookie(entry, value, max_age, expires) ==
    [value |-> value, max_age |-> max_age,
     expires |-> expires \/ (entry # Absent /\ entry.expires)]

remove_cookie(entry) == set_cookie(entry, <<>>, 0, TRUE)

\* What a browser makes of a Set-Cookie header: Max-Age goes before Expires.
Stored(old, entry) ==
    CASE entry = Absent -> old
      [] entry # Absent /\ entry.max_age # Absent ->
            IF entry.max_age = 0 THEN Absent ELSE entry.value
      [] entry # Absent /\ entry.max_age = Absent ->
            IF entry.expires THEN Absent ELSE entry.value

(***************************************************************************)
(* deps.py: the parameters in their order, until one is not resolved.      *)
(***************************************************************************)
\* A field's value, or how its resolver ends otherwise.
Resolve(field, gift, method) ==
    CASE field.kind = "request" -> "value"
      [] field.kind \in {"query", "param"} ->
            IF gift = "valid" \/ (gift = "absent" /\ field.default) THEN "value" ELSE "invalid"
      [] field.kind = "list" ->
            (CASE gift = "absent" -> "raises" [] gift = "valid" -> "value" [] OTHER -> "invalid")
      [] field.kind = "body" ->
            (CASE method \notin BodyMethods \/ gift = "absent" -> "none"
               [] method \in BodyMethods /\ gift = "valid" -> "value"
               [] OTHER -> "invalid")

\* A mutant of resolve_dependency: only the last field's outcome is looked at.
resolve_last(fields, gifts, method) ==
    LET last == Len(fields)
        Outcome == Resolve(fields[last], gifts[last], method)
    IN  CASE last = 0 \/ Outcome \in {"value", "none"} -> "called"
          [] last # 0 /\ Outcome = "invalid" -> "422"
          [] last # 0 /\ Outcome = "raises" -> "500"

\* resolve_dependency and the call of the handler with what it returns: "called", or the
\* status of the answer.  A body that is not there is only missed by the call itself.
resolve_dependency(fields, gifts, method) ==
    LET Outcome(i) == Resolve(fields[i], gifts[i], method)
        ends == {i \in DOMAIN fields : Outcome(i) \in {"invalid", "raises"}}
        missed == {i \in DOMAIN fields : Outcome(i) = "none" /\ ~fields[i].default}
    IN  IF ends # {} THEN IF Outcome(Min(ends)) = "invalid" THEN "422" ELSE "500"
        ELSE IF missed # {} THEN "500" ELSE "called"

(***************************************************************************)
(* The client sends a request with its cookie and, perhaps, the token of   *)
(* the tab's page: where is "form", "header" or "none".                    *)
(***************************************************************************)
NoRequest == [stage |-> "none"]

Init == /\ jar = Absent /\ sent = 0
        /\ page = [tab \in Tabs |-> Absent]
        /\ request = [tab \in Tabs |-> NoRequest]
        /\ fresh = [tab \in Tabs |-> FALSE]

Alone(tab) == \A other \in Tabs \ {tab} : request[other] = NoRequest

Send(tab, method, where, view, gifts) ==
    /\ request[tab] = NoRequest /\ sent < MaxRequests
    /\ sent' = sent + 1
    /\ request' = [request EXCEPT ![tab] =
         [stage |-> "sent", method |-> method, view |-> view, gifts |-> gifts,
          cookie |-> jar, form |-> IF where = "form" THEN page[tab] ELSE Absent,
          header |-> IF where = "header" THEN page[tab] ELSE Absent,
          secret |-> jar, update |-> Absent, token |-> Absent, alone |-> Alone(tab),
          due |-> fresh[tab] /\ where # "none"]]
    /\ UNCHANGED <<jar, page, fresh>>

Going(tab, stage) == request[tab].stage = stage

Become(tab, changed) ==
    /\ request' = [request EXCEPT ![tab] = changed]
    /\ UNCHANGED <<jar, page, sent, fresh>>

\* What is left of a request when it is answered.
Answered(r, status, set, token) ==
    [stage |-> "answered", cookie |-> r.cookie, secret |-> r.secret, update |-> r.update,
     alone |-> r.alone, due |-> r.due, status |-> status, set |-> set, token |-> token]

(***************************************************************************)
(* CsrfMiddleware.__call__ until it calls the handler.                     *)
(***************************************************************************)
\* A mutant of get_token: the first policy's answer is taken, whatever it is.
get_first_token(r) == r.form

\* FormAndHeaderPolicy: the first policy that finds a token.
get_token(r) == IF r.form # Absent THEN r.form ELSE r.header

Accepted(r) ==
    r.method \in PROTECTED_METHODS =>
        /\ r.cookie # Absent
        /\ get_token(r) # Absent
        /\ unmask_token(get_token(r)) = r.cookie

\* The middleware, then request_handler of create_request_handler until the view's call.
Enter(tab) ==
    LET r == request[tab]
        outcome == IF Accepted(r) THEN resolve_dependency(r.view, r.gifts, r.method) ELSE "403"
    IN  /\ Going(tab, "sent")
        /\ Become(tab, IF outcome = "called"
                       THEN [r EXCEPT !.stage = "called", !.form = Absent, !.header = Absent]
                       ELSE Answered(r, outcome, Absent, Absent))

(***************************************************************************)
(* What a view does with get_csrf(request).                                *)
(***************************************************************************)
Secrets == Bytes \ ({jar} \cup {request[tab].secret : tab \in {u \in Tabs : request[u] # NoRequest}})

Regenerated(r, secret) == [r EXCEPT !.secret = secret, !.update = secret, !.token = Absent]

ViewRegenerates(tab) ==
    /\ Going(tab, "called") /\ request[tab].update = Absent
    /\ \E secret \in Secrets : Become(tab, Regenerated(request[tab], secret))

\* A mutant of Tokened: the secret is made up for the token alone.
TokenedOnly(r, secret, key) == [r EXCEPT !.token = mask_token(secret, key)]

Tokened(r, secret, key) ==
    IF r.secret = Absent
    THEN [Regenerated(r, secret) EXCEPT !.token = mask_token(secret, key)]
    ELSE [r EXCEPT !.token = mask_token(r.secret, key)]

ViewTakesToken(tab) ==
    /\ Going(tab, "called") /\ request[tab].token = Absent
    /\ \E secret \in Secrets \cup {request[tab].secret}, key \in Keys :
         /\ secret # Absent /\ (request[tab].secret # Absent => secret = request[tab].secret)
         /\ Become(tab, Tokened(request[tab], secret, key))

(***************************************************************************)
(* What comes of the view: a response, of which it may have removed the    *)
(* cookie; a value, which is encoded or not; an HttpError; another error.  *)
(* check_response saves a new secret in the response.  An HttpError has no *)
(* cookies: with a new secret to save, it is an AttributeError that leaves *)
(* the middleware.                                                         *)
(***************************************************************************)
max_age == 31536000

save_secret(entry, r) ==
    IF r.update = Absent THEN entry ELSE set_cookie(entry, r.update, max_age, FALSE)

Responds(tab, removes) ==
    LET r == request[tab]
        entry == IF removes THEN remove_cookie(Absent) ELSE Absent
    IN  /\ Going(tab, "called")
        /\ Become(tab, Answered(r, "200", save_secret(entry, r), r.token))

RaisesHttpError(tab) ==
    LET r == request[tab]
    IN  /\ Going(tab, "called")
        /\ Become(tab, Answered(r, IF r.update = Absent THEN "error" ELSE "500", Absent, Absent))

Fails(tab) ==
    /\ Going(tab, "called")
    /\ Become(tab, Answered(request[tab], "500", Absent, Absent))

(***************************************************************************)
(* The client takes the answer: the cookie, and a page if it has a token.  *)
(***************************************************************************)
Receive(tab) ==
    LET r == request[tab]
        after == Stored(jar, r.set)
        shown == r.status = "200" /\ r.token # Absent
    IN  /\ Going(tab, "answered")
        /\ jar' = after
        /\ page' = IF shown THEN [page EXCEPT ![tab] = r.token] ELSE page
        /\ fresh' = [u \in Tabs |->
             IF u = tab /\ shown THEN r.alone /\ after # Absent ELSE fresh[u] /\ after = jar]
        /\ request' = [u \in Tabs |->
             IF u = tab \/ request[u] = NoRequest THEN IF u = tab THEN NoRequest ELSE request[u]
             ELSE [request[u] EXCEPT !.alone = FALSE]]
        /\ UNCHANGED sent

Next == \E tab \in Tabs :
    \/ \E method \in Methods, where \in {"form", "header", "none"}, view \in Views :
         \E gifts \in Gifts(view) : Send(tab, method, where, view, gifts)
    \/ Enter(tab) \/ ViewRegenerates(tab) \/ ViewTakesToken(tab)
    \/ \E removes \in BOOLEAN : Responds(tab, removes)
    \/ RaisesHttpError(tab) \/ Fails(tab)
    \/ Receive(tab)

Spec == Init /\ [][Next]_vars

-----------------------------------------------------------------------------
\* A page goes out with a token that fits the cookie the client has once it has taken the
\* answer, whether the view found a secret, made one or renewed it, also if it removed the
\* cookie before; only a view that removes it and makes none leaves a page without.
TokenFitsCookie ==
    \A tab \in Tabs :
        LET r == request[tab]
        IN  Going(tab, "answered") /\ r.status = "200" /\ r.token # Absent
              => \/ unmask_token(r.token) = Stored(r.cookie, r.set)
                 \/ r.cookie # Absent /\ r.update = Absent /\ Stored(r.cookie, r.set) = Absent

\* A form of a page that was loaded while nothing else was under way, and sent before the
\* cookie changed again, is accepted: the double submit of CsrfMiddleware works.
FreshPageAccepted ==
    \A tab \in Tabs :
        Going(tab, "answered") /\ request[tab].due => request[tab].status # "403"

\* The view runs only if each of its parameters is given a valid value or has a default and
\* is not given (a body that the request's method cannot have counts as not given), by the
\* reading of the request and not by the order of the resolvers.
CalledWithAll ==
    \A tab \in Tabs : Going(tab, "called") =>
        \A i \in DOMAIN request[tab].view :
            LET field == request[tab].view[i]
                gift == request[tab].gifts[i]
            IN  \/ field.kind = "request" \/ gift = "valid"
                \/ field.default /\ gift = "absent"
                \/ field.default /\ field.kind = "body" /\ request[tab].method \notin BodyMethods

\* A secret that a view made reaches the client with the response, unless the answer is an
\* error: no other page's token is made worthless without the cookie that explains it.
NewSecretSaved ==
    \A tab \in Tabs :
        LET r == request[tab]
        IN  Going(tab, "answered") /\ r.update # Absent =>
              IF r.status = "200" THEN Stored(r.cookie, r.set) = r.update ELSE r.set = Absent
=============================================================================
