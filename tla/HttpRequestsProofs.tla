------------------------- MODULE HttpRequestsProofs -------------------------
(***************************************************************************)
(* Proofs about HttpRequests: what masking is undone by, that a page goes  *)
(* out with a token that fits the client's cookie, that a form of a fresh  *)
(* page is accepted, and when the view is called.                          *)
(***************************************************************************)
EXTENDS HttpRequests, TLAPS

Secret == Bytes \cup {Absent}

(***************************************************************************)
(* Masking is undone by unmasking: adding the key a second time.           *)
(***************************************************************************)
LEMMA PadTwice == \A a, b \in {0, 1} : (((a + b) % 2) + b) % 2 = a
<1> SUFFICES ASSUME NEW a \in {0, 1}, NEW b \in {0, 1}
             PROVE  (((a + b) % 2) + b) % 2 = a
  OBVIOUS
<1>1. (a = 0 /\ b = 0) \/ (a = 0 /\ b = 1) \/ (a = 1 /\ b = 0) \/ (a = 1 /\ b = 1)
  OBVIOUS
<1> QED BY <1>1

LEMMA UnmaskTakesMaskBack ==
  ASSUME NEW secret \in Bytes, NEW key \in Bytes
  PROVE  unmask_token(mask_token(secret, key)) = secret
<1> DEFINE n == SecretLength
           At(i) == 1 + ((i - 1) % n)
           masked == [i \in 1..n |-> (secret[i] + key[At(i)]) % 2]
           data == key \o masked
<1>1. n \in Nat \ {0}
  BY RequestsAssumption
<1>2. \A i \in 1..n : At(i) \in 1..n
  BY <1>1
<1>3. /\ key \in Seq({0, 1}) /\ Len(key) = n /\ key # <<>> /\ DOMAIN secret = 1..n
      /\ \A i \in 1..n : secret[i] \in {0, 1} /\ key[i] \in {0, 1}
  BY <1>1 DEF Bytes
<1>4. \A i \in 1..n : masked[i] = (secret[i] + key[At(i)]) % 2 /\ masked[i] \in {0, 1}
  BY <1>1, <1>2, <1>3
<1>5. masked \in Seq({0, 1}) /\ Len(masked) = n
  BY <1>1, <1>4
<1> HIDE DEF masked
<1>6. /\ data \in Seq({0, 1}) /\ Len(data) = n + n
      /\ \A i \in 1..n : data[i] = key[i] /\ data[n + i] = masked[i]
  BY <1>1, <1>3, <1>5
<1> HIDE DEF data
<1>7. SubSeq(data, 1, n) = key
  <2>1. /\ SubSeq(data, 1, n) = [i \in 1..n |-> data[i]]
    BY <1>1, <1>6
  <2>2. key = [i \in 1..n |-> key[i]]
    BY DEF Bytes
  <2> QED BY <1>6, <2>1, <2>2
<1>8. SubSeq(data, n + 1, Len(data)) = masked
  <2> DEFINE rest == SubSeq(data, n + 1, n + n)
  <2>1. rest \in Seq({0, 1}) /\ Len(rest) = n /\ \A i \in 1..n : rest[i] = data[n + i]
    BY <1>1, <1>6
  <2> HIDE DEF rest
  <2>2. rest = masked
    BY <1>1, <1>5, <1>6, <2>1
  <2> QED BY <1>6, <2>2 DEF rest
<1>9. DOMAIN masked = 1..n
  BY <1>1, <1>5
<1>10. one_time_pad(secret, key) = masked
  BY <1>3 DEF one_time_pad, masked
<1>11. one_time_pad(masked, key) = [i \in 1..n |-> (masked[i] + key[At(i)]) % 2]
  BY <1>3, <1>9 DEF one_time_pad
<1>12. ASSUME NEW i \in 1..n PROVE (masked[i] + key[At(i)]) % 2 = secret[i]
  <2>1. At(i) \in 1..n
    BY <1>2
  <2>2. secret[i] \in {0, 1} /\ key[At(i)] \in {0, 1}
    BY <1>3, <2>1
  <2> QED BY <1>4, <2>2, PadTwice
<1>13. one_time_pad(masked, key) = secret
  <2>1. secret = [i \in 1..n |-> secret[i]]
    BY DEF Bytes
  <2> QED BY <1>11, <1>12, <2>1
<1> QED BY <1>7, <1>8, <1>10, <1>13 DEF mask_token, unmask_token, data

(***************************************************************************)
(* The invariant.  A request under way has the shape its stage gives it,   *)
(* knows the secret that its token was made of, and has the cookie that    *)
(* is still in the jar for as long as it is alone.                         *)
(***************************************************************************)
Tokens == {mask_token(secret, key) : secret \in Bytes, key \in Keys}

Pages == Tokens \cup {Absent}

Entries == [value : Bytes \cup {<<>>}, max_age : {0, max_age}, expires : BOOLEAN]

GiftsOfViews == UNION {Gifts(view) : view \in Views}

Flying == [stage : {"sent", "called"}, method : Methods, view : Views, gifts : GiftsOfViews,
           cookie : Secret, form : Pages, header : Pages, secret : Secret, update : Secret,
           token : Pages, alone : BOOLEAN, due : BOOLEAN]

Landed == [stage : {"answered"}, cookie : Secret, secret : Secret, update : Secret,
           alone : BOOLEAN, due : BOOLEAN, status : {"200", "403", "422", "500", "error"},
           set : Entries \cup {Absent}, token : Pages]

Types == /\ jar \in Secret
         /\ page \in [Tabs -> Pages]
         /\ fresh \in [Tabs -> BOOLEAN]
         /\ request \in [Tabs -> {NoRequest} \cup Flying \cup Landed]

\* The secret is the client's unless the view made one, and the token was made of it.
SecretKept(r) ==
    /\ r.secret = IF r.update = Absent THEN r.cookie ELSE r.update
    /\ r.token # Absent => r.secret # Absent /\ unmask_token(r.token) = r.secret

\* A request that is due has the token that the middleware looks for.
SentWell(r) ==
    /\ r.update = Absent /\ r.token = Absent
    /\ r.due => r.cookie # Absent /\ get_token(r) # Absent /\ unmask_token(get_token(r)) = r.cookie

\* A field of the view, the gift for it and the method of the request.
Supplied(field, gift, method) ==
    \/ field.kind = "request" \/ gift = "valid"
    \/ field.default /\ gift = "absent"
    \/ field.default /\ field.kind = "body" /\ method \notin BodyMethods

CalledWell(r) == \A i \in DOMAIN r.view : Supplied(r.view[i], r.gifts[i], r.method)

\* Only a response has a cookie or a token: with the secret to save, if there is one.
AnsweredWell(r) ==
    /\ r.due => r.status # "403"
    /\ IF r.status = "200"
       THEN r.set \in {save_secret(Absent, r), save_secret(remove_cookie(Absent), r)}
       ELSE r.set = Absent /\ r.token = Absent

Well(r) == /\ SecretKept(r)
           /\ r.stage = "sent" => SentWell(r)
           /\ r.stage = "called" => CalledWell(r)
           /\ r.stage = "answered" => AnsweredWell(r)

RequestsWell == \A tab \in Tabs : request[tab] # NoRequest => Well(request[tab])

AloneHasJar == \A tab \in Tabs :
    request[tab] # NoRequest /\ request[tab].alone => request[tab].cookie = jar

FreshFits == \A tab \in Tabs : fresh[tab] =>
    page[tab] # Absent /\ jar # Absent /\ unmask_token(page[tab]) = jar

IInv == Types /\ RequestsWell /\ AloneHasJar /\ FreshFits

-----------------------------------------------------------------------------
(***************************************************************************)
(* What the helpers return.                                                *)
(***************************************************************************)
LEMMA AbsentIsApart ==
  /\ Absent \notin Bytes /\ Absent # 0 /\ Absent # max_age /\ max_age # 0
  /\ Absent \notin Entries
<1>1. Absent \notin Bytes \cup Nat
  BY RequestsAssumption
<1>2. Entries \subseteq [value : Bytes \cup {<<>>}, max_age : Nat, expires : BOOLEAN]
  <2>1. {0, max_age} \subseteq Nat
    BY DEF max_age
  <2> QED BY <2>1 DEF Entries
<1>3. Absent \notin [value : Bytes \cup {<<>>}, max_age : Nat, expires : BOOLEAN]
  BY RequestsAssumption
<1> QED BY <1>1, <1>2, <1>3 DEF max_age

\* A token that was made of a secret is one that unmasks to it.
LEMMA TokenOf ==
  ASSUME NEW secret \in Bytes, NEW key \in Keys
  PROVE  mask_token(secret, key) \in Tokens /\ unmask_token(mask_token(secret, key)) = secret
<1>1. key \in Bytes
  BY RequestsAssumption
<1> QED BY <1>1, UnmaskTakesMaskBack DEF Tokens

\* What the browser makes of the entry that check_response leaves.
LEMMA SavedIsStored ==
  ASSUME NEW r, r.update \in Secret, NEW old,
         NEW set \in {save_secret(Absent, r), save_secret(remove_cookie(Absent), r)}
  PROVE  /\ set \in Entries \cup {Absent}
         /\ r.update # Absent => Stored(old, set) = r.update
         /\ r.update = Absent => Stored(old, set) \in {old, Absent}
<1> DEFINE removed == [value |-> <<>>, max_age |-> 0, expires |-> TRUE]
<1>0. remove_cookie(Absent) = removed /\ removed \in Entries /\ removed # Absent
  <2>1. remove_cookie(Absent) = removed
    BY DEF remove_cookie, set_cookie
  <2>2. removed \in Entries
    BY DEF Entries
  <2> QED BY <2>1, <2>2, AbsentIsApart
<1>1. CASE r.update = Absent
  <2>1. set \in {Absent, removed}
    BY <1>0, <1>1 DEF save_secret
  <2>2. Stored(old, Absent) = old
    BY DEF Stored
  <2>3. Stored(old, removed) = Absent
    BY <1>0, AbsentIsApart DEF Stored
  <2> QED BY <1>0, <1>1, <2>1, <2>2, <2>3
<1>2. CASE r.update # Absent
  <2> DEFINE saved(e) == [value |-> r.update, max_age |-> max_age, expires |-> e]
  <2>1. \E e \in BOOLEAN : set = saved(e)
    <3>1. CASE set = save_secret(Absent, r)
      <4>1. set = saved(FALSE)
        BY <1>2, <3>1 DEF save_secret, set_cookie
      <4> QED BY <4>1
    <3>2. CASE set = save_secret(remove_cookie(Absent), r)
      <4> DEFINE kept == FALSE \/ (removed # Absent /\ removed.expires)
      <4>0. kept = TRUE
        BY <1>0
      <4>1. set = saved(kept)
        BY <1>0, <1>2, <3>2 DEF save_secret, set_cookie
      <4>2. set = saved(TRUE)
        BY <4>0, <4>1
      <4> QED BY <4>2
    <3> QED BY <3>1, <3>2
  <2>2. ASSUME NEW e \in BOOLEAN PROVE saved(e) \in Entries /\ Stored(old, saved(e)) = r.update
    <3>1. saved(e) \in Entries
      BY <1>2 DEF Entries, Secret
    <3>2. saved(e) # Absent
      BY <3>1, AbsentIsApart
    <3> QED BY <3>1, <3>2, AbsentIsApart DEF Stored
  <2> QED BY <1>2, <2>1, <2>2
<1> QED BY <1>1, <1>2

LEMMA ResolvedIsSupplied ==
  ASSUME NEW field, NEW gift, NEW method,
         field.kind \in {"request", "query", "param", "list", "body"}, field.default \in BOOLEAN,
         Resolve(field, gift, method) \notin {"invalid", "raises"},
         Resolve(field, gift, method) = "none" => field.default
  PROVE  Supplied(field, gift, method)
<1>1. CASE field.kind = "request"
  BY <1>1 DEF Supplied
<1>2. CASE field.kind \in {"query", "param"}
  BY <1>2 DEF Supplied, Resolve
<1>3. CASE field.kind = "list"
  BY <1>3 DEF Supplied, Resolve
<1>4. CASE field.kind = "body"
  BY <1>4 DEF Supplied, Resolve
<1> QED BY <1>1, <1>2, <1>3, <1>4

\* The outcomes of a resolution, and when it lets the view be called.
LEMMA ResolutionEnds ==
  ASSUME NEW view \in Views, NEW gifts, NEW method
  PROVE  LET outcome == resolve_dependency(view, gifts, method)
         IN  /\ outcome \in {"called", "422", "500"}
             /\ outcome = "called" =>
                  \A i \in DOMAIN view : Supplied(view[i], gifts[i], method)
<1> DEFINE Outcome(i) == Resolve(view[i], gifts[i], method)
           ends == {i \in DOMAIN view : Outcome(i) \in {"invalid", "raises"}}
           missed == {i \in DOMAIN view : Outcome(i) = "none" /\ ~view[i].default}
           answer == IF Outcome(Min(ends)) = "invalid" THEN "422" ELSE "500"
<1>1. resolve_dependency(view, gifts, method) =
        IF ends # {} THEN answer ELSE IF missed # {} THEN "500" ELSE "called"
  BY DEF resolve_dependency
<1>2. answer \in {"422", "500"}
  OBVIOUS
<1> HIDE DEF answer
<1>3. ASSUME ends = {}, missed = {}, NEW i \in DOMAIN view
      PROVE  Supplied(view[i], gifts[i], method)
  <2>1. Outcome(i) \notin {"invalid", "raises"}
    BY <1>3
  <2>2. Outcome(i) = "none" => view[i].default
    BY <1>3
  <2>3. /\ view[i].kind \in {"request", "query", "param", "list", "body"}
        /\ view[i].default \in BOOLEAN
    BY RequestsAssumption
  <2> QED BY <2>1, <2>2, <2>3, ResolvedIsSupplied
<1> QED BY <1>1, <1>2, <1>3

-----------------------------------------------------------------------------
(***************************************************************************)
(* The steps.                                                              *)
(***************************************************************************)
LEMMA GoingIs ==
  ASSUME IInv, NEW tab \in Tabs, NEW stage, Going(tab, stage), stage # "none"
  PROVE  LET r == request[tab]
         IN  /\ r # NoRequest /\ r.stage = stage /\ Well(r)
             /\ stage \in {"sent", "called"} => r \in Flying
             /\ stage = "answered" => r \in Landed
<1>1. request[tab] \in {NoRequest} \cup Flying \cup Landed /\ request[tab].stage = stage
  BY DEF IInv, Types, Going
<1>2. request[tab] # NoRequest
  BY <1>1 DEF NoRequest
<1>3. Well(request[tab])
  BY <1>2 DEF IInv, RequestsWell
<1>4. \A r \in Flying : r.stage \in {"sent", "called"}
  BY DEF Flying
<1>5. \A r \in Landed : r.stage = "answered"
  BY DEF Landed
<1> QED BY <1>1, <1>2, <1>3, <1>4, <1>5

\* A request that goes on with its cookie, in its place.
LEMMA BecomeKeeps ==
  ASSUME IInv, NEW tab \in Tabs, request[tab] # NoRequest,
         NEW r \in Flying \cup Landed, Become(tab, r), Well(r),
         r.cookie = request[tab].cookie, r.alone = request[tab].alone
  PROVE  IInv'
<1> USE DEF Become
<1>1. /\ request' = [request EXCEPT ![tab] = r] /\ request \in [Tabs -> {NoRequest} \cup Flying \cup Landed]
      /\ UNCHANGED <<jar, page, sent, fresh>>
  BY DEF IInv, Types
<1>2. /\ request'[tab] = r /\ \A u \in Tabs \ {tab} : request'[u] = request[u]
      /\ request' \in [Tabs -> {NoRequest} \cup Flying \cup Landed]
  BY <1>1
<1>3. Types'
  BY <1>1, <1>2 DEF IInv, Types
<1>4. RequestsWell'
  <2> SUFFICES ASSUME NEW u \in Tabs, request'[u] # NoRequest PROVE Well(request'[u])
    BY DEF RequestsWell, Well, SecretKept, SentWell, CalledWell, AnsweredWell, Supplied
  <2>1. CASE u = tab
    BY <1>2, <2>1
  <2>2. CASE u # tab
    BY <1>2, <2>2 DEF IInv, RequestsWell
  <2> QED BY <2>1, <2>2
<1>5. AloneHasJar'
  BY <1>1, <1>2 DEF IInv, AloneHasJar
<1>6. FreshFits'
  BY <1>1 DEF IInv, FreshFits
<1> QED BY <1>3, <1>4, <1>5, <1>6 DEF IInv

LEMMA AnsweredFields ==
  ASSUME NEW r \in Flying, NEW status \in {"200", "403", "422", "500", "error"},
         NEW set \in Entries \cup {Absent}, NEW token \in Pages
  PROVE  LET a == Answered(r, status, set, token)
         IN  /\ a \in Landed /\ a.stage = "answered"
             /\ a.cookie = r.cookie /\ a.secret = r.secret /\ a.update = r.update
             /\ a.alone = r.alone /\ a.due = r.due /\ a.status = status /\ a.set = set
             /\ a.token = token /\ r.update \in Secret
BY DEF Answered, Flying, Landed

LEMMA InitHolds == Init => IInv
<1> SUFFICES ASSUME Init PROVE IInv
  OBVIOUS
<1>1. Types
  BY DEF Init, Types, Secret, Pages
<1> QED BY <1>1 DEF Init, IInv, RequestsWell, AloneHasJar, FreshFits

LEMMA SendKeeps ==
  ASSUME IInv, NEW tab \in Tabs, NEW method \in Methods, NEW where \in {"form", "header", "none"},
         NEW view \in Views, NEW gifts \in Gifts(view), Send(tab, method, where, view, gifts)
  PROVE  IInv'
<1> DEFINE form == IF where = "form" THEN page[tab] ELSE Absent
           header == IF where = "header" THEN page[tab] ELSE Absent
           due == fresh[tab] /\ where # "none"
           r == [stage |-> "sent", method |-> method, view |-> view, gifts |-> gifts,
                 cookie |-> jar, form |-> form, header |-> header, secret |-> jar,
                 update |-> Absent, token |-> Absent, alone |-> Alone(tab), due |-> due]
<1>1. /\ request' = [request EXCEPT ![tab] = r] /\ UNCHANGED <<jar, page, fresh>>
      /\ request \in [Tabs -> {NoRequest} \cup Flying \cup Landed]
  BY DEF Send, IInv, Types
<1>2. /\ jar \in Secret /\ page[tab] \in Pages /\ fresh[tab] \in BOOLEAN
      /\ Absent \in Pages /\ Absent \in Secret
  BY DEF IInv, Types, Pages, Secret
<1>3. form \in Pages /\ header \in Pages
  BY <1>2
<1>4. gifts \in GiftsOfViews
  BY DEF GiftsOfViews
<1>5. Alone(tab) \in BOOLEAN /\ due \in BOOLEAN
  BY <1>2 DEF Alone
<1>6. fresh[tab] => page[tab] # Absent /\ jar # Absent /\ unmask_token(page[tab]) = jar
  BY DEF IInv, FreshFits
<1>7. due => (IF form # Absent THEN form ELSE header) = page[tab]
  BY <1>6
<1> HIDE DEF form, header, due
<1>8. r \in Flying
  BY <1>2, <1>3, <1>4, <1>5 DEF Flying
<1>9. /\ r.stage = "sent" /\ r.cookie = jar /\ r.secret = jar /\ r.update = Absent
      /\ r.token = Absent /\ r.form = form /\ r.header = header /\ r.due = due
  OBVIOUS
<1> HIDE DEF r
<1>10. Well(r)
  <2>1. SecretKept(r)
    BY <1>9 DEF SecretKept
  <2>2. SentWell(r)
    <3>1. due => fresh[tab]
      BY DEF due
    <3> QED BY <1>6, <1>7, <1>9, <3>1 DEF SentWell, get_token
  <2> QED BY <1>9, <2>1, <2>2 DEF Well
<1>11. /\ request'[tab] = r /\ \A u \in Tabs \ {tab} : request'[u] = request[u]
       /\ request' \in [Tabs -> {NoRequest} \cup Flying \cup Landed]
  BY <1>1, <1>8
<1>12. Types'
  BY <1>1, <1>11 DEF IInv, Types
<1>13. RequestsWell'
  <2> SUFFICES ASSUME NEW u \in Tabs, request'[u] # NoRequest PROVE Well(request'[u])
    BY DEF RequestsWell, Well, SecretKept, SentWell, CalledWell, AnsweredWell, Supplied
  <2>1. CASE u = tab
    BY <1>10, <1>11, <2>1
  <2>2. CASE u # tab
    BY <1>11, <2>2 DEF IInv, RequestsWell
  <2> QED BY <2>1, <2>2
<1>14. AloneHasJar'
  BY <1>1, <1>9, <1>11 DEF IInv, AloneHasJar
<1>15. FreshFits'
  BY <1>1 DEF IInv, FreshFits
<1> QED BY <1>12, <1>13, <1>14, <1>15 DEF IInv

LEMMA EnterKeeps ==
  ASSUME IInv, NEW tab \in Tabs, Enter(tab)
  PROVE  IInv'
<1> DEFINE r == request[tab]
           resolved == resolve_dependency(r.view, r.gifts, r.method)
           outcome == IF Accepted(r) THEN resolved ELSE "403"
           called == [r EXCEPT !.stage = "called", !.form = Absent, !.header = Absent]
           answered == Answered(r, outcome, Absent, Absent)
<1>1. Going(tab, "sent") /\ Become(tab, IF outcome = "called" THEN called ELSE answered)
  BY DEF Enter
<1>2. r # NoRequest /\ r.stage = "sent" /\ Well(r) /\ r \in Flying
  BY <1>1, GoingIs
<1>3. SecretKept(r) /\ SentWell(r) /\ r.view \in Views /\ Absent \in Pages
  BY <1>2 DEF Well, Flying, Pages
<1>4. /\ resolved \in {"called", "422", "500"}
      /\ resolved = "called" => \A i \in DOMAIN r.view : Supplied(r.view[i], r.gifts[i], r.method)
  BY <1>3, ResolutionEnds
<1>5. r.due => Accepted(r)
  BY <1>3 DEF SentWell, Accepted
<1>6. outcome \in {"called", "422", "500", "403"} /\ (r.due => outcome # "403")
      /\ (outcome = "called" => resolved = "called")
  BY <1>4, <1>5
<1> HIDE DEF resolved, outcome
<1>7. CASE outcome = "called"
  <2>1. /\ called \in Flying /\ called.stage = "called" /\ called.cookie = r.cookie
        /\ called.secret = r.secret /\ called.update = r.update /\ called.token = r.token
        /\ called.view = r.view /\ called.gifts = r.gifts /\ called.method = r.method
        /\ called.alone = r.alone
    BY <1>2, <1>3 DEF Flying
  <2> HIDE DEF called
  <2>2. SecretKept(called)
    BY <1>3, <2>1 DEF SecretKept
  <2>3. CalledWell(called)
    BY <1>4, <1>6, <1>7, <2>1 DEF CalledWell
  <2>4. Well(called)
    BY <2>1, <2>2, <2>3 DEF Well
  <2>5. Become(tab, called)
    BY <1>1, <1>7
  <2> HIDE DEF r
  <2> QED BY <1>2, <2>1, <2>4, <2>5, BecomeKeeps DEF r
<1>8. CASE outcome # "called"
  <2>1. outcome \in {"200", "403", "422", "500", "error"} /\ outcome # "200"
    BY <1>6, <1>8
  <2>2. /\ answered \in Landed /\ answered.stage = "answered"
        /\ answered.cookie = r.cookie /\ answered.secret = r.secret
        /\ answered.update = r.update /\ answered.alone = r.alone /\ answered.due = r.due
        /\ answered.status = outcome /\ answered.set = Absent /\ answered.token = Absent
    <3>1. Absent \in Entries \cup {Absent}
      OBVIOUS
    <3>2. r \in Flying /\ Absent \in Pages /\ outcome \in {"200", "403", "422", "500", "error"}
      BY <1>2, <1>3, <2>1
    <3> HIDE DEF r
    <3> QED BY <3>1, <3>2, AnsweredFields
  <2> HIDE DEF answered
  <2>3. SecretKept(answered)
    BY <1>3, <2>2 DEF SecretKept
  <2>4. AnsweredWell(answered)
    BY <1>6, <2>1, <2>2 DEF AnsweredWell
  <2>5. Well(answered)
    BY <2>2, <2>3, <2>4 DEF Well
  <2>6. Become(tab, answered)
    BY <1>1, <1>8
  <2> HIDE DEF r
  <2> QED BY <1>2, <2>2, <2>5, <2>6, BecomeKeeps DEF r
<1> QED BY <1>7, <1>8

\* A request that the view has made a token or a secret for, or both, and nothing else.
LEMMA CalledKeeps ==
  ASSUME IInv, NEW tab \in Tabs, Going(tab, "called"),
         NEW secret \in Secret, NEW update \in Secret, NEW token \in Pages,
         secret = IF update = Absent THEN request[tab].cookie ELSE update,
         token # Absent => secret # Absent /\ unmask_token(token) = secret,
         Become(tab, [request[tab] EXCEPT !.secret = secret, !.update = update, !.token = token])
  PROVE  IInv'
<1> DEFINE r == request[tab]
           changed == [r EXCEPT !.secret = secret, !.update = update, !.token = token]
<1>1. r # NoRequest /\ r.stage = "called" /\ Well(r) /\ r \in Flying
  BY GoingIs
<1>2. /\ changed \in Flying /\ changed.stage = "called" /\ changed.cookie = r.cookie
      /\ changed.secret = secret /\ changed.update = update /\ changed.token = token
      /\ changed.view = r.view /\ changed.gifts = r.gifts /\ changed.method = r.method
      /\ changed.alone = r.alone
  BY <1>1 DEF Flying
<1>3. Become(tab, changed)
  OBVIOUS
<1> HIDE DEF changed
<1>4. CalledWell(changed)
  BY <1>1, <1>2 DEF Well, CalledWell
<1>5. SecretKept(changed)
  BY <1>2 DEF SecretKept
<1>6. Well(changed)
  BY <1>2, <1>4, <1>5 DEF Well
<1> QED BY <1>1, <1>2, <1>3, <1>6, BecomeKeeps

LEMMA ViewRegeneratesKeeps ==
  ASSUME IInv, NEW tab \in Tabs, ViewRegenerates(tab)
  PROVE  IInv'
<1> DEFINE r == request[tab]
<1>1. /\ Going(tab, "called")
      /\ \E secret \in Secrets : Become(tab, Regenerated(r, secret))
  BY DEF ViewRegenerates
<1>2. PICK secret \in Secrets : Become(tab, Regenerated(r, secret))
  BY <1>1
<1>3. secret \in Bytes /\ secret # Absent
  BY AbsentIsApart DEF Secrets
<1>4. Regenerated(r, secret) = [r EXCEPT !.secret = secret, !.update = secret, !.token = Absent]
  BY DEF Regenerated
<1>5. secret \in Secret /\ Absent \in Pages
  BY <1>3 DEF Secret, Pages
<1> QED BY <1>1, <1>2, <1>3, <1>4, <1>5, CalledKeeps

LEMMA ViewTakesTokenKeeps ==
  ASSUME IInv, NEW tab \in Tabs, ViewTakesToken(tab)
  PROVE  IInv'
<1> DEFINE r == request[tab]
<1>1. /\ Going(tab, "called") /\ r.token = Absent
      /\ \E secret \in Secrets \cup {r.secret}, key \in Keys :
            /\ secret # Absent /\ (r.secret # Absent => secret = r.secret)
            /\ Become(tab, Tokened(r, secret, key))
  BY DEF ViewTakesToken
<1>2. PICK secret \in Secrets \cup {r.secret}, key \in Keys :
        /\ secret # Absent /\ (r.secret # Absent => secret = r.secret)
        /\ Become(tab, Tokened(r, secret, key))
  BY <1>1
<1>3. r \in Flying /\ Well(r)
  BY <1>1, GoingIs
<1>4. r.secret \in Secret /\ r.update \in Secret /\ SecretKept(r)
  BY <1>3 DEF Flying, Well
<1>5. secret \in Bytes /\ secret \in Secret
  BY <1>2, <1>4 DEF Secrets, Secret
<1> DEFINE token == mask_token(secret, key)
<1>6. token \in Tokens /\ token \in Pages /\ unmask_token(token) = secret
  BY <1>5, TokenOf DEF Pages
<1> HIDE DEF token
<1>7. CASE r.secret = Absent
  <2>1. Tokened(r, secret, key) = [r EXCEPT !.secret = secret, !.update = secret, !.token = token]
    <3>1. Tokened(r, secret, key) = [Regenerated(r, secret) EXCEPT !.token = token]
      BY <1>7 DEF Tokened, token
    <3> QED BY <1>3, <3>1 DEF Regenerated, Flying
  <2> HIDE DEF r
  <2>2. Become(tab, [r EXCEPT !.secret = secret, !.update = secret, !.token = token])
    BY <1>2, <2>1
  <2> QED BY <1>1, <1>2, <1>5, <1>6, <2>2, CalledKeeps DEF r
<1>8. CASE r.secret # Absent
  <2>1. secret = r.secret
    BY <1>2, <1>8
  <2>2. Tokened(r, secret, key) =
          [r EXCEPT !.secret = r.secret, !.update = r.update, !.token = token]
    <3>1. Tokened(r, secret, key) = [r EXCEPT !.token = token]
      BY <1>8, <2>1 DEF Tokened, token
    <3> QED BY <1>3, <3>1 DEF Flying
  <2>3. r.secret = IF r.update = Absent THEN r.cookie ELSE r.update
    BY <1>4 DEF SecretKept
  <2>4. Become(tab, [r EXCEPT !.secret = r.secret, !.update = r.update, !.token = token])
    BY <1>2, <2>2
  <2>5. unmask_token(token) = r.secret
    BY <1>6, <2>1
  <2> QED BY <1>1, <1>4, <1>6, <1>8, <2>3, <2>4, <2>5, CalledKeeps
<1> QED BY <1>7, <1>8

\* An answer to a request that was called, with the cookies its status allows.
LEMMA AnswerKeeps ==
  ASSUME IInv, NEW tab \in Tabs, Going(tab, "called"),
         NEW status \in {"200", "422", "500", "error"}, NEW set \in Entries \cup {Absent},
         NEW token \in {Absent, request[tab].token},
         IF status = "200"
         THEN set \in {save_secret(Absent, request[tab]),
                       save_secret(remove_cookie(Absent), request[tab])}
         ELSE set = Absent /\ token = Absent,
         Become(tab, Answered(request[tab], status, set, token))
  PROVE  IInv'
<1> DEFINE r == request[tab]
           a == Answered(r, status, set, token)
<1>1. r # NoRequest /\ r.stage = "called" /\ Well(r) /\ r \in Flying
  BY GoingIs
<1>2. SecretKept(r) /\ token \in Pages
  BY <1>1 DEF Well, Flying, Pages
<1>3. /\ a \in Landed /\ a.stage = "answered"
      /\ a.cookie = r.cookie /\ a.secret = r.secret /\ a.update = r.update
      /\ a.alone = r.alone /\ a.due = r.due /\ a.status = status /\ a.set = set
      /\ a.token = token /\ r.update \in Secret
  BY <1>1, <1>2, AnsweredFields
<1>4. Become(tab, a)
  OBVIOUS
<1> HIDE DEF a
<1>5. \A entry : save_secret(entry, a) = save_secret(entry, r)
  BY <1>3 DEF save_secret
<1>6. SecretKept(a)
  BY <1>2, <1>3 DEF SecretKept
<1>7. AnsweredWell(a)
  BY <1>3, <1>5 DEF AnsweredWell
<1>8. Well(a)
  BY <1>3, <1>6, <1>7 DEF Well
<1> QED BY <1>1, <1>3, <1>4, <1>8, BecomeKeeps

LEMMA RespondsKeeps ==
  ASSUME IInv, NEW tab \in Tabs, NEW removes \in BOOLEAN, Responds(tab, removes)
  PROVE  IInv'
<1> DEFINE r == request[tab]
           set == save_secret(IF removes THEN remove_cookie(Absent) ELSE Absent, r)
<1>1. Going(tab, "called") /\ Become(tab, Answered(r, "200", set, r.token))
  BY DEF Responds
<1>2. r.update \in Secret
  BY <1>1, GoingIs DEF Flying
<1>3. set \in {save_secret(Absent, r), save_secret(remove_cookie(Absent), r)}
  OBVIOUS
<1> HIDE DEF set
<1>4. set \in Entries \cup {Absent}
  BY <1>2, <1>3, SavedIsStored
<1> QED BY <1>1, <1>3, <1>4, AnswerKeeps

LEMMA FailureKeeps ==
  ASSUME IInv, NEW tab \in Tabs, RaisesHttpError(tab) \/ Fails(tab)
  PROVE  IInv'
<1> DEFINE r == request[tab]
<1>1. PICK status \in {"200", "422", "500", "error"} :
        /\ status # "200" /\ Going(tab, "called")
        /\ Become(tab, Answered(r, status, Absent, Absent))
  <2>1. CASE Fails(tab)
    BY <2>1 DEF Fails
  <2>2. CASE RaisesHttpError(tab)
    <3> DEFINE status == IF r.update = Absent THEN "error" ELSE "500"
    <3>1. Going(tab, "called") /\ Become(tab, Answered(r, status, Absent, Absent))
      BY <2>2 DEF RaisesHttpError
    <3>2. status \in {"error", "500"}
      OBVIOUS
    <3> HIDE DEF status
    <3> QED BY <3>1, <3>2
  <2> QED BY <2>1, <2>2
<1>2. Absent \in Entries \cup {Absent} /\ Absent \in {Absent, r.token}
  OBVIOUS
<1> QED BY <1>1, <1>2, AnswerKeeps

\* What the client has once it took an answer with a token: a cookie that the token fits.
LEMMA AnswerFits ==
  ASSUME NEW r \in Landed, Well(r), r.stage = "answered", r.status = "200", r.token # Absent,
         NEW old \in Secret, old = r.cookie
  PROVE  LET after == Stored(old, r.set)
         IN  \/ after = unmask_token(r.token)
             \/ r.cookie # Absent /\ r.update = Absent /\ after = Absent
<1>1. /\ r.secret = IF r.update = Absent THEN r.cookie ELSE r.update
      /\ r.secret # Absent /\ unmask_token(r.token) = r.secret
  BY DEF Well, SecretKept
<1>2. r.set \in {save_secret(Absent, r), save_secret(remove_cookie(Absent), r)}
  BY DEF Well, AnsweredWell
<1>3. r.update \in Secret
  BY DEF Landed
<1>4. /\ r.update # Absent => Stored(old, r.set) = r.update
      /\ r.update = Absent => Stored(old, r.set) \in {old, Absent}
  BY <1>2, <1>3, SavedIsStored
<1> QED BY <1>1, <1>4

\* The jar only ever has a secret.
LEMMA StoredIsSecret ==
  ASSUME NEW r \in Landed, Well(r), NEW old \in Secret
  PROVE  Stored(old, r.set) \in Secret
<1>1. r.stage = "answered" /\ r.update \in Secret
  BY DEF Landed
<1>2. CASE r.status = "200"
  <2>1. r.set \in {save_secret(Absent, r), save_secret(remove_cookie(Absent), r)}
    BY <1>1, <1>2 DEF Well, AnsweredWell
  <2>2. /\ r.update # Absent => Stored(old, r.set) = r.update
        /\ r.update = Absent => Stored(old, r.set) \in {old, Absent}
    BY <1>1, <2>1, SavedIsStored
  <2> QED BY <1>1, <2>2 DEF Secret
<1>3. CASE r.status # "200"
  <2>1. r.set = Absent
    BY <1>1, <1>3 DEF Well, AnsweredWell
  <2> QED BY <2>1 DEF Stored
<1> QED BY <1>2, <1>3

LEMMA ReceiveKeeps ==
  ASSUME IInv, NEW tab \in Tabs, Receive(tab)
  PROVE  IInv'
<1> DEFINE r == request[tab]
           after == Stored(jar, r.set)
           shown == r.status = "200" /\ r.token # Absent
           silent(q) == [q EXCEPT !.alone = FALSE]
<1>1. /\ Going(tab, "answered")
      /\ jar' = after
      /\ page' = IF shown THEN [page EXCEPT ![tab] = r.token] ELSE page
      /\ fresh' = [u \in Tabs |->
           IF u = tab /\ shown THEN r.alone /\ after # Absent ELSE fresh[u] /\ after = jar]
      /\ request' = [u \in Tabs |->
           IF u = tab \/ request[u] = NoRequest THEN IF u = tab THEN NoRequest ELSE request[u]
           ELSE silent(request[u])]
  BY DEF Receive
<1>2. r # NoRequest /\ r.stage = "answered" /\ Well(r) /\ r \in Landed
  BY <1>1, GoingIs
<1>3. /\ jar \in Secret /\ page \in [Tabs -> Pages] /\ fresh \in [Tabs -> BOOLEAN]
      /\ request \in [Tabs -> {NoRequest} \cup Flying \cup Landed]
  BY DEF IInv, Types
<1>4. after \in Secret /\ r.token \in Pages /\ r.alone \in BOOLEAN
  BY <1>2, <1>3, StoredIsSecret DEF Landed
<1>5. ASSUME NEW u \in Tabs, u # tab, request[u] # NoRequest
      PROVE  LET q == silent(request[u])
             IN  q \in Flying \cup Landed /\ Well(q) /\ q.alone = FALSE
  <2> DEFINE o == request[u]
             q == silent(o)
  <2>1. o \in Flying \cup Landed /\ Well(o)
    BY <1>3, <1>5 DEF IInv, RequestsWell
  <2>2. CASE o \in Flying
    <3>1. /\ q \in Flying /\ q.alone = FALSE /\ q.stage = o.stage /\ q.method = o.method
          /\ q.view = o.view /\ q.gifts = o.gifts /\ q.cookie = o.cookie /\ q.form = o.form
          /\ q.header = o.header /\ q.secret = o.secret /\ q.update = o.update
          /\ q.token = o.token /\ q.due = o.due /\ o.stage \in {"sent", "called"}
      BY <2>2 DEF Flying
    <3> HIDE DEF q
    <3>2. SecretKept(q) /\ (SentWell(o) => SentWell(q)) /\ (CalledWell(o) => CalledWell(q))
      BY <2>1, <3>1 DEF Well, SecretKept, SentWell, CalledWell, get_token
    <3>3. Well(q)
      BY <2>1, <3>1, <3>2 DEF Well
    <3> QED BY <3>1, <3>3 DEF q
  <2>3. CASE o \in Landed
    <3>1. /\ q \in Landed /\ q.alone = FALSE /\ q.stage = o.stage /\ q.cookie = o.cookie
          /\ q.secret = o.secret /\ q.update = o.update /\ q.due = o.due
          /\ q.status = o.status /\ q.set = o.set /\ q.token = o.token
          /\ o.stage = "answered"
      BY <2>3 DEF Landed
    <3> HIDE DEF q
    <3>2. \A entry : save_secret(entry, q) = save_secret(entry, o)
      BY <3>1 DEF save_secret
    <3>3. SecretKept(q)
      BY <2>1, <3>1 DEF Well, SecretKept
    <3>4. AnsweredWell(q)
      BY <2>1, <3>1, <3>2 DEF Well, AnsweredWell
    <3>5. Well(q)
      BY <3>1, <3>3, <3>4 DEF Well
    <3> QED BY <3>1, <3>5 DEF q
  <2> QED BY <2>1, <2>2, <2>3
<1> HIDE DEF silent, after, shown
<1>6. /\ request'[tab] = NoRequest
      /\ \A u \in Tabs \ {tab} :
            request'[u] = IF request[u] = NoRequest THEN NoRequest ELSE silent(request[u])
  BY <1>1
<1>7. Types'
  <2>1. jar' \in Secret /\ page' \in [Tabs -> Pages]
    BY <1>1, <1>3, <1>4
  <2>2. fresh' \in [Tabs -> BOOLEAN]
    <3>1. ASSUME NEW u \in Tabs PROVE fresh'[u] \in BOOLEAN
      BY <1>1, <1>3, <1>4
    <3> QED BY <1>1, <3>1
  <2>3. request' \in [Tabs -> {NoRequest} \cup Flying \cup Landed]
    <3>1. ASSUME NEW u \in Tabs PROVE request'[u] \in {NoRequest} \cup Flying \cup Landed
      BY <1>5, <1>6
    <3>2. request' = [u \in Tabs |-> request'[u]]
      BY <1>1
    <3> QED BY <3>1, <3>2
  <2> QED BY <2>1, <2>2, <2>3 DEF Types
<1>8. RequestsWell'
  <2> SUFFICES ASSUME NEW u \in Tabs, request'[u] # NoRequest PROVE Well(request'[u])
    BY DEF RequestsWell, Well, SecretKept, SentWell, CalledWell, AnsweredWell, Supplied
  <2> QED BY <1>5, <1>6
<1>9. AloneHasJar'
  <2>1. ASSUME NEW u \in Tabs, request'[u] # NoRequest PROVE request'[u].alone = FALSE
    BY <1>5, <1>6, <2>1
  <2> QED BY <2>1 DEF AloneHasJar
<1>10. FreshFits'
  <2> SUFFICES ASSUME NEW u \in Tabs, fresh'[u]
               PROVE  page'[u] # Absent /\ jar' # Absent /\ unmask_token(page'[u]) = jar'
    BY DEF FreshFits
  <2>1. CASE u = tab /\ shown
    <3>1. r.alone /\ after # Absent
      BY <1>1, <2>1
    <3>2. jar = r.cookie
      BY <1>2, <3>1 DEF IInv, AloneHasJar
    <3>3. r.status = "200" /\ r.token # Absent
      BY <2>1 DEF shown
    <3>4. after = unmask_token(r.token)
      BY <1>2, <1>3, <3>1, <3>2, <3>3, AnswerFits DEF after
    <3>5. page'[u] = r.token
      BY <1>1, <1>3, <2>1
    <3> QED BY <1>1, <3>1, <3>3, <3>4, <3>5
  <2>2. CASE ~(u = tab /\ shown)
    <3>1. fresh[u] /\ after = jar
      BY <1>1, <2>2
    <3>2. page'[u] = page[u]
      BY <1>1, <1>3, <2>2
    <3> QED BY <1>1, <3>1, <3>2 DEF IInv, FreshFits
  <2> QED BY <2>1, <2>2
<1> QED BY <1>7, <1>8, <1>9, <1>10 DEF IInv

-----------------------------------------------------------------------------
(***************************************************************************)
(* The theorems.                                                           *)
(***************************************************************************)
\* The invariant holds: whatever the client's tabs do, a request keeps the secret its token
\* was made of, and a fresh page has a token of the client's cookie.
THEOREM Invariance == Spec => []IInv
<1>1. Init => IInv
  BY InitHolds
<1>2. IInv /\ [Next]_vars => IInv'
  <2> SUFFICES ASSUME IInv, [Next]_vars PROVE IInv'
    OBVIOUS
  <2>1. CASE UNCHANGED vars
    BY <2>1 DEF vars, IInv, Types, RequestsWell, AloneHasJar, FreshFits, Well, SecretKept,
                SentWell, CalledWell, AnsweredWell, Supplied
  <2>2. ASSUME NEW tab \in Tabs, NEW method \in Methods, NEW where \in {"form", "header", "none"},
               NEW view \in Views, NEW gifts \in Gifts(view), Send(tab, method, where, view, gifts)
        PROVE  IInv'
    BY <2>2, SendKeeps
  <2>3. ASSUME NEW tab \in Tabs, Enter(tab) PROVE IInv'
    BY <2>3, EnterKeeps
  <2>4. ASSUME NEW tab \in Tabs, ViewRegenerates(tab) PROVE IInv'
    BY <2>4, ViewRegeneratesKeeps
  <2>5. ASSUME NEW tab \in Tabs, ViewTakesToken(tab) PROVE IInv'
    BY <2>5, ViewTakesTokenKeeps
  <2>6. ASSUME NEW tab \in Tabs, NEW removes \in BOOLEAN, Responds(tab, removes) PROVE IInv'
    BY <2>6, RespondsKeeps
  <2>7. ASSUME NEW tab \in Tabs, RaisesHttpError(tab) \/ Fails(tab) PROVE IInv'
    BY <2>7, FailureKeeps
  <2>8. ASSUME NEW tab \in Tabs, Receive(tab) PROVE IInv'
    BY <2>8, ReceiveKeeps
  <2> QED BY <2>1, <2>2, <2>3, <2>4, <2>5, <2>6, <2>7, <2>8 DEF Next
<1> QED BY <1>1, <1>2, PTL DEF Spec

\* A page goes out with a token that fits the cookie the client has once it has the answer,
\* for every length of the secrets and every key.
THEOREM TokensFit == Spec => []TokenFitsCookie
<1>1. IInv => TokenFitsCookie
  <2> SUFFICES ASSUME IInv, NEW tab \in Tabs, Going(tab, "answered"),
                      request[tab].status = "200", request[tab].token # Absent
               PROVE  LET r == request[tab]
                      IN  \/ unmask_token(r.token) = Stored(r.cookie, r.set)
                          \/ r.cookie # Absent /\ r.update = Absent /\ Stored(r.cookie, r.set) = Absent
    BY DEF TokenFitsCookie
  <2>1. request[tab].stage = "answered" /\ Well(request[tab]) /\ request[tab] \in Landed
    BY GoingIs
  <2>2. request[tab].cookie \in Secret
    BY <2>1 DEF Landed
  <2> QED BY <2>1, <2>2, AnswerFits
<1> QED BY <1>1, Invariance, PTL

\* The form of a page that was loaded alone and sent before the cookie changed is accepted.
THEOREM FreshPagesAreAccepted == Spec => []FreshPageAccepted
<1>1. IInv => FreshPageAccepted
  <2> SUFFICES ASSUME IInv, NEW tab \in Tabs, Going(tab, "answered"), request[tab].due
               PROVE  request[tab].status # "403"
    BY DEF FreshPageAccepted
  <2>1. request[tab].stage = "answered" /\ Well(request[tab])
    BY GoingIs
  <2> QED BY <2>1 DEF Well, AnsweredWell
<1> QED BY <1>1, Invariance, PTL

\* A view that runs was given each of its parameters, whatever the parameters of the views.
THEOREM ViewsAreCalledWithAll == Spec => []CalledWithAll
<1>1. IInv => CalledWithAll
  <2> SUFFICES ASSUME IInv, NEW tab \in Tabs, Going(tab, "called"), NEW i \in DOMAIN request[tab].view
               PROVE  Supplied(request[tab].view[i], request[tab].gifts[i], request[tab].method)
    BY DEF CalledWithAll, Supplied
  <2>1. request[tab].stage = "called" /\ Well(request[tab])
    BY GoingIs
  <2> QED BY <2>1 DEF Well, CalledWell
<1> QED BY <1>1, Invariance, PTL

\* A secret that a view made is in the cookie of the response, or the answer is an error.
THEOREM NewSecretsAreSaved == Spec => []NewSecretSaved
<1>1. IInv => NewSecretSaved
  <2> SUFFICES ASSUME IInv, NEW tab \in Tabs, Going(tab, "answered"), request[tab].update # Absent
               PROVE  LET r == request[tab]
                      IN  IF r.status = "200" THEN Stored(r.cookie, r.set) = r.update
                          ELSE r.set = Absent
    BY DEF NewSecretSaved
  <2> DEFINE r == request[tab]
  <2>1. r.stage = "answered" /\ Well(r) /\ r.update \in Secret
    BY GoingIs DEF Landed
  <2>2. AnsweredWell(r)
    BY <2>1 DEF Well
  <2>3. CASE r.status = "200"
    <3>1. r.set \in {save_secret(Absent, r), save_secret(remove_cookie(Absent), r)}
      BY <2>2, <2>3 DEF AnsweredWell
    <3>2. Stored(r.cookie, r.set) = r.update
      BY <2>1, <3>1, SavedIsStored
    <3> QED BY <2>3, <3>2
  <2>4. CASE r.status # "200"
    BY <2>2, <2>4 DEF AnsweredWell
  <2> QED BY <2>3, <2>4
<1> QED BY <1>1, Invariance, PTL
=============================================================================
