---------------------------- MODULE BisectProofs ----------------------------
(***************************************************************************)
(* What bisect_left returns on every list, sorted or not, and on a sorted  *)
(* one.  The induction is on the width of the interval, stated with a set  *)
(* in the place of a predicate.  With it, what inserting into a list and   *)
(* removing from it do, for the modules whose lists are kept that way, and *)
(* that a finite set has exactly one sorted list.                          *)
(***************************************************************************)
EXTENDS Bisect, SequencesExt, SequenceTheorems, FiniteSetTheorems, TLAPS

(* Induction over the natural numbers: a set that holds 0 and is closed    *)
(* under successor holds them all, because a least counterexample is a     *)
(* minimal finite set.                                                     *)
LEMMA SetInduction ==
  ASSUME NEW T, 0 \in T, \A n \in Nat : n \in T => n + 1 \in T
  PROVE  Nat \subseteq T
<1> DEFINE R == StrictSubsetOrdering(Nat)
           Bad == {1..n : n \in Nat \ T}
<1>1. SUFFICES ASSUME Bad # {} PROVE FALSE
  OBVIOUS
<1>2. Bad \subseteq FiniteSubsetsOf(Nat)
  <2> SUFFICES ASSUME NEW n \in Nat PROVE 1..n \in FiniteSubsetsOf(Nat)
    OBVIOUS
  <2>1. IsFiniteSet(1..n)
    BY FS_Interval
  <2> QED BY <2>1 DEF FiniteSubsetsOf
<1>3. PICK B \in Bad : \A C \in Bad : <<C, B>> \notin R
  <2>1. IsWellFoundedOn(R, FiniteSubsetsOf(Nat))
    BY FS_StrictSubsetOrderingWellFounded
  <2> HIDE DEF R, Bad
  <2> QED BY <1>1, <1>2, <2>1, WFMin
<1>4. PICK n \in Nat \ T : B = 1..n
  OBVIOUS
<1>5. n - 1 \in Nat \ T
  OBVIOUS
<1>6. <<1..(n-1), 1..n>> \in R
  <2>1. n \in 1..n /\ n \notin 1..(n-1)
    BY <1>4, <1>5
  <2> QED BY <1>5, <2>1 DEF StrictSubsetOrdering
<1> QED BY <1>3, <1>4, <1>5, <1>6

-----------------------------------------------------------------------------
(* The intervals of width at most m, and the functions that answer them.   *)
Narrow(n, m) == {p \in Intervals(n) : p[2] - p[1] <= m}
Answers(f, values, x, m) ==
  f = [p \in Narrow(Len(values), m) |-> Halve(f, values, x, p)]

(* The two halves of an interval are intervals, and narrower.              *)
LEMMA HalvesAreNarrower ==
  ASSUME NEW n \in Nat, NEW m \in Nat,
         NEW p \in Narrow(n, m + 1), p[1] < p[2]
  PROVE  LET mid == (p[1] + p[2]) \div 2
         IN  /\ mid \in p[1]..(p[2] - 1)
             /\ <<mid + 1, p[2]>> \in Narrow(n, m)
             /\ <<p[1], mid>> \in Narrow(n, m)
<1> DEFINE mid == (p[1] + p[2]) \div 2
<1>1. p[1] \in 0..n /\ p[2] \in 0..n /\ p[2] - p[1] <= m + 1
  BY DEF Narrow, Intervals
<1>2. mid \in Int /\ p[1] <= mid /\ mid < p[2]
  BY <1>1
<1> HIDE DEF mid
<1>3. mid \in 0..n /\ mid + 1 \in 0..n
  BY <1>1, <1>2
<1>4. <<mid + 1, p[2]>> \in Narrow(n, m)
  BY <1>1, <1>2, <1>3 DEF Narrow, Intervals
<1>5. <<p[1], mid>> \in Narrow(n, m)
  BY <1>1, <1>2, <1>3 DEF Narrow, Intervals
<1>6. mid \in p[1]..(p[2] - 1)
  BY <1>1, <1>2
<1> QED BY <1>4, <1>5, <1>6 DEF mid

(* The recursive definition of the search has a solution.                  *)
LEMMA SearchExists ==
  ASSUME NEW values, NEW x, Len(values) \in Nat
  PROVE  \E f : f = [p \in Intervals(Len(values)) |-> Halve(f, values, x, p)]
<1> DEFINE n == Len(values)
           T == {m \in Nat : \E f : Answers(f, values, x, m)}
<1>1. 0 \in T
  <2> DEFINE f == [p \in Narrow(n, 0) |-> p[1]]
  <2>1. ASSUME NEW p \in Narrow(n, 0) PROVE p[1] >= p[2]
    BY DEF Narrow, Intervals
  <2>2. Answers(f, values, x, 0)
    BY <2>1 DEF Answers, Halve
  <2> QED BY <2>2
<1>2. ASSUME NEW m \in Nat, m \in T PROVE m + 1 \in T
  <2>1. PICK f : Answers(f, values, x, m)
    BY <1>2
  <2> DEFINE g == [p \in Narrow(n, m + 1) |-> Halve(f, values, x, p)]
  <2>2. ASSUME NEW q \in Narrow(n, m) PROVE q \in Narrow(n, m + 1) /\ g[q] = f[q]
    <3>1. q \in Narrow(n, m + 1)
      BY DEF Narrow, Intervals
    <3> QED BY <2>1, <3>1 DEF Answers
  <2>3. ASSUME NEW p \in Narrow(n, m + 1)
        PROVE  Halve(f, values, x, p) = Halve(g, values, x, p)
    <3>1. CASE p[1] >= p[2]
      BY <3>1 DEF Halve
    <3>2. CASE ~(p[1] >= p[2])
      <4>1. p[1] < p[2]
        BY <3>2 DEF Narrow, Intervals
      <4> DEFINE mid == (p[1] + p[2]) \div 2
      <4>2. <<mid + 1, p[2]>> \in Narrow(n, m) /\ <<p[1], mid>> \in Narrow(n, m)
        BY <4>1, HalvesAreNarrower
      <4> HIDE DEF mid, g
      <4>3. f[<<mid + 1, p[2]>>] = g[<<mid + 1, p[2]>>] /\ f[<<p[1], mid>>] = g[<<p[1], mid>>]
        BY <4>2, <2>2
      <4> QED BY <4>3 DEF Halve, mid
    <3> QED BY <3>1, <3>2
  <2>4. Answers(g, values, x, m + 1)
    BY <2>3 DEF Answers
  <2> QED BY <2>4
<1>3. n \in T
  <2> HIDE DEF T
  <2> QED BY <1>1, <1>2, SetInduction
<1>4. Narrow(n, n) = Intervals(n)
  BY DEF Narrow, Intervals
<1> QED BY <1>3, <1>4 DEF Answers

(* The answer for an interval is in it; what is before it is less than x   *)
(* and what stands at it is not, if that is so of the interval's bounds.   *)
Outside(values, x, p) ==
  /\ p[1] <= p[2]
  /\ p[1] > 0 => Less(values[p[1]], x)
  /\ p[2] < Len(values) => ~Less(values[p[2] + 1], x)

LEMMA SearchIsRight ==
  ASSUME NEW values, NEW x, Len(values) \in Nat, NEW f,
         f = [p \in Intervals(Len(values)) |-> Halve(f, values, x, p)],
         NEW p \in Intervals(Len(values)), Outside(values, x, p)
  PROVE  Outside(values, x, <<f[p], f[p]>>) /\ f[p] \in p[1]..p[2]
<1> DEFINE n == Len(values)
           Right(q) == Outside(values, x, <<f[q], f[q]>>) /\ f[q] \in q[1]..q[2]
           T == {m \in Nat : \A q \in Narrow(n, m) : Outside(values, x, q) => Right(q)}
<1>0. ASSUME NEW q \in Intervals(n), q[1] >= q[2], Outside(values, x, q)
      PROVE  Right(q)
  <2>1. f[q] = q[1]
    BY <1>0 DEF Halve
  <2>2. q[1] \in 0..n /\ q[2] \in 0..n /\ q[1] = q[2]
    BY <1>0 DEF Intervals, Outside
  <2>3. q = <<q[1], q[2]>>
    BY DEF Intervals
  <2> QED BY <2>1, <2>2, <2>3, <1>0
<1>1. 0 \in T
  <2>1. ASSUME NEW q \in Narrow(n, 0) PROVE q \in Intervals(n) /\ q[1] >= q[2]
    BY DEF Narrow, Intervals
  <2> QED BY <2>1, <1>0
<1>2. ASSUME NEW m \in Nat, m \in T PROVE m + 1 \in T
  <2> SUFFICES ASSUME NEW q \in Narrow(n, m + 1), Outside(values, x, q)
               PROVE  Right(q)
    OBVIOUS
  <2>1. q \in Intervals(n) /\ q[1] \in 0..n /\ q[2] \in 0..n
    BY DEF Narrow, Intervals
  <2>2. CASE q[1] >= q[2]
    BY <2>1, <2>2, <1>0
  <2>3. CASE q[1] < q[2]
    <3> DEFINE mid == (q[1] + q[2]) \div 2
               upper == <<mid + 1, q[2]>>
               lower == <<q[1], mid>>
    <3>1. mid \in q[1]..(q[2] - 1) /\ upper \in Narrow(n, m) /\ lower \in Narrow(n, m)
      BY <2>3, HalvesAreNarrower
    <3>2. f[q] = IF Less(values[mid + 1], x) THEN f[upper] ELSE f[lower]
      <4>1. f[q] = Halve(f, values, x, q)
        BY <2>1
      <4>2. ~(q[1] >= q[2])
        BY <2>1, <2>3
      <4> QED BY <4>1, <4>2, Zenon DEF Halve
    <3> HIDE DEF mid
    <3>3. CASE Less(values[mid + 1], x)
      <4>1. Outside(values, x, upper)
        BY <3>1, <3>3, <2>1 DEF Outside
      <4>2. Right(upper)
        BY <3>1, <4>1, <1>2
      <4> HIDE DEF upper
      <4>3. upper[1] >= q[1] /\ upper[2] = q[2] /\ upper[1] \in Int
        BY <3>1, <2>1 DEF upper
      <4> QED BY <3>2, <3>3, <4>2, <4>3, <2>1
    <3>4. CASE ~Less(values[mid + 1], x)
      <4>1. Outside(values, x, lower)
        BY <3>1, <3>4, <2>1 DEF Outside
      <4>2. Right(lower)
        BY <3>1, <4>1, <1>2
      <4> HIDE DEF lower
      <4>3. lower[2] <= q[2] /\ lower[1] = q[1] /\ lower[2] \in Int
        BY <3>1, <2>1 DEF lower
      <4> QED BY <3>2, <3>4, <4>2, <4>3, <2>1
    <3> QED BY <3>3, <3>4
  <2> QED BY <2>1, <2>2, <2>3
<1>3. n \in T
  <2> HIDE DEF T
  <2> QED BY <1>1, <1>2, SetInduction
<1>4. p \in Narrow(n, n)
  BY DEF Narrow, Intervals
<1> QED BY <1>3, <1>4

(* On every list bisect_left returns a point the element before which is   *)
(* less than x and the element at which is not.                            *)
THEOREM BisectLeftSplits ==
  ASSUME NEW values, NEW x, Len(values) \in Nat
  PROVE  LET k == BisectLeft(values, x)
         IN  /\ k \in 0..Len(values)
             /\ k > 0 => Less(values[k], x)
             /\ k < Len(values) => ~Less(values[k + 1], x)
<1> DEFINE n == Len(values)
           search == CHOOSE f : f = [p \in Intervals(n) |-> Halve(f, values, x, p)]
<1>1. search = [p \in Intervals(n) |-> Halve(search, values, x, p)]
  BY SearchExists
<1>2. BisectLeft(values, x) = search[<<0, n>>]
  BY DEF BisectLeft
<1> HIDE DEF search
<1>3. <<0, n>> \in Intervals(n) /\ Outside(values, x, <<0, n>>)
  BY DEF Intervals, Outside
<1>4. Outside(values, x, <<search[<<0, n>>], search[<<0, n>>]>>) /\ search[<<0, n>>] \in 0..n
  BY <1>1, <1>3, SearchIsRight
<1> QED BY <1>2, <1>4 DEF Outside

(* On a sorted list the point divides the list: all before it is less than *)
(* x, and nothing from it on is.                                           *)
THEOREM BisectLeftDivides ==
  ASSUME NEW values, NEW x \in Int \X Int, Len(values) \in Nat,
         \A j \in 1..Len(values) : values[j] \in Int \X Int,
         \A j, k \in 1..Len(values) : j < k => Less(values[j], values[k])
  PROVE  LET k == BisectLeft(values, x)
         IN  /\ k \in 0..Len(values)
             /\ \A j \in 1..k : Less(values[j], x)
             /\ \A j \in (k + 1)..Len(values) : ~Less(values[j], x)
<1> DEFINE n == Len(values)
           k == BisectLeft(values, x)
<1>1. /\ k \in 0..n
      /\ k > 0 => Less(values[k], x)
      /\ k < n => ~Less(values[k + 1], x)
  BY BisectLeftSplits
<1> HIDE DEF k
<1>2. \A u, v, w \in Int \X Int : Less(u, v) /\ Less(v, w) => Less(u, w)
  BY DEF Less
<1>3. ASSUME NEW j \in 1..k PROVE Less(values[j], x)
  <2>1. CASE j = k
    BY <2>1, <1>1
  <2>2. CASE j < k
    <3>1. k \in 1..n /\ j \in 1..n
      BY <1>1
    <3>2. Less(values[j], values[k]) /\ Less(values[k], x)
      BY <2>2, <3>1, <1>1
    <3> QED BY <3>1, <3>2, <1>2
  <2> QED BY <2>1, <2>2, <1>1
<1>4. ASSUME NEW j \in (k + 1)..n PROVE ~Less(values[j], x)
  <2>1. k + 1 \in 1..n /\ j \in 1..n /\ ~Less(values[k + 1], x)
    BY <1>1
  <2>2. CASE j = k + 1
    BY <2>1, <2>2
  <2>3. CASE j > k + 1
    <3>1. Less(values[k + 1], values[j])
      BY <2>1, <2>3, <1>1
    <3> QED BY <2>1, <3>1, <1>2
  <2> QED BY <1>1, <2>2, <2>3
<1> QED BY <1>1, <1>3, <1>4 DEF k

-----------------------------------------------------------------------------
(* What insertion into a list and removal from it do to its elements.      *)
LEMMA InsertAtProperties ==
  ASSUME NEW S, NEW s \in Seq(S), NEW k \in 1..(Len(s) + 1), NEW e \in S
  PROVE  /\ InsertAt(s, k, e) \in Seq(S)
         /\ Len(InsertAt(s, k, e)) = Len(s) + 1
         /\ \A j \in 1..(Len(s) + 1) : InsertAt(s, k, e)[j] =
              IF j < k THEN s[j] ELSE IF j = k THEN e ELSE s[j - 1]
<1> DEFINE a == SubSeq(s, 1, k - 1)
           b == SubSeq(s, k, Len(s))
           ae == a \o <<e>>
<1>0. Len(s) \in Nat /\ k \in Int /\ \A j \in 1..Len(s) : s[j] \in S
  BY LenProperties, ElementOfSeq
<1>1. /\ a \in Seq(S) /\ Len(a) = k - 1
      /\ \A j \in 1..(k - 1) : a[j] = s[j]
  <2>1. \A j \in 1..(k - 1) : s[j] \in S
    BY <1>0
  <2> QED BY <1>0, <2>1, SubSeqProperties
<1>2. /\ b \in Seq(S) /\ Len(b) = Len(s) - k + 1
      /\ \A j \in 1..(Len(s) - k + 1) : b[j] = s[k + j - 1]
  <2>1. \A j \in k..Len(s) : s[j] \in S
    BY <1>0
  <2> QED BY <1>0, <2>1, SubSeqProperties
<1>3. <<e>> \in Seq(S) /\ Len(<<e>>) = 1 /\ <<e>>[1] = e
  OBVIOUS
<1> HIDE DEF a, b
<1>4. /\ ae \in Seq(S) /\ Len(ae) = k
      /\ \A j \in 1..k : ae[j] = IF j < k THEN s[j] ELSE e
  BY <1>0, <1>1, <1>3, ConcatProperties
<1> HIDE DEF ae
<1>5. /\ ae \o b \in Seq(S) /\ Len(ae \o b) = Len(s) + 1
      /\ \A j \in 1..(Len(s) + 1) :
           (ae \o b)[j] = IF j <= k THEN ae[j] ELSE b[j - k]
  <2>1. /\ ae \o b \in Seq(S) /\ Len(ae \o b) = Len(ae) + Len(b)
        /\ \A j \in 1..(Len(ae) + Len(b)) :
             (ae \o b)[j] = IF j <= Len(ae) THEN ae[j] ELSE b[j - Len(ae)]
    BY <1>2, <1>4, ConcatProperties, Zenon
  <2>2. Len(ae) + Len(b) = Len(s) + 1
    BY <1>0, <1>2, <1>4
  <2> QED BY <2>1, <2>2, <1>4, Zenon
<1>6. ASSUME NEW j \in 1..(Len(s) + 1), j > k PROVE b[j - k] = s[j - 1]
  BY <1>0, <1>2, <1>6
<1>7. InsertAt(s, k, e) = ae \o b
  BY DEF InsertAt, ae, a, b
<1> QED BY <1>0, <1>4, <1>5, <1>6, <1>7

LEMMA RemoveAtProperties ==
  ASSUME NEW S, NEW s \in Seq(S), NEW k \in 1..Len(s)
  PROVE  /\ RemoveAt(s, k) \in Seq(S)
         /\ Len(RemoveAt(s, k)) = Len(s) - 1
         /\ \A j \in 1..(Len(s) - 1) :
              RemoveAt(s, k)[j] = IF j < k THEN s[j] ELSE s[j + 1]
<1> DEFINE a == SubSeq(s, 1, k - 1)
           b == SubSeq(s, k + 1, Len(s))
<1>0. Len(s) \in Nat /\ k \in Int /\ \A j \in 1..Len(s) : s[j] \in S
  BY LenProperties, ElementOfSeq
<1>1. /\ a \in Seq(S) /\ Len(a) = k - 1
      /\ \A j \in 1..(k - 1) : a[j] = s[j]
  <2>1. \A j \in 1..(k - 1) : s[j] \in S
    BY <1>0
  <2> QED BY <1>0, <2>1, SubSeqProperties
<1>2. /\ b \in Seq(S) /\ Len(b) = Len(s) - k
      /\ \A j \in 1..(Len(s) - k) : b[j] = s[k + j]
  <2>1. \A j \in (k + 1)..Len(s) : s[j] \in S
    BY <1>0
  <2> QED BY <1>0, <2>1, SubSeqProperties
<1> HIDE DEF a, b
<1>3. /\ a \o b \in Seq(S) /\ Len(a \o b) = Len(s) - 1
      /\ \A j \in 1..(Len(s) - 1) :
           (a \o b)[j] = IF j < k THEN a[j] ELSE b[j - k + 1]
  <2>1. /\ a \o b \in Seq(S) /\ Len(a \o b) = Len(a) + Len(b)
        /\ \A j \in 1..(Len(a) + Len(b)) :
             (a \o b)[j] = IF j <= Len(a) THEN a[j] ELSE b[j - Len(a)]
    BY <1>1, <1>2, ConcatProperties, Zenon
  <2>2. Len(a) + Len(b) = Len(s) - 1
    BY <1>0, <1>1, <1>2
  <2>3. ASSUME NEW j \in 1..(Len(s) - 1)
        PROVE  (j <= Len(a) <=> j < k) /\ j - Len(a) = j - k + 1
    BY <1>0, <1>1
  <2> QED BY <2>1, <2>2, <2>3, Zenon
<1>4. ASSUME NEW j \in 1..(Len(s) - 1), j >= k PROVE b[j - k + 1] = s[j + 1]
  BY <1>0, <1>2, <1>4
<1>5. RemoveAt(s, k) = a \o b
  BY DEF RemoveAt, a, b
<1> QED BY <1>0, <1>1, <1>3, <1>4, <1>5

LEMMA InsertAtRange ==
  ASSUME NEW S, NEW s \in Seq(S), NEW k \in 1..(Len(s) + 1), NEW e \in S
  PROVE  Range(InsertAt(s, k, e)) = Range(s) \union {e}
<1> DEFINE r == InsertAt(s, k, e)
<1>a. r \in Seq(S) /\ Len(r) = Len(s) + 1
  BY InsertAtProperties
<1>b. \A j \in 1..(Len(s) + 1) :
        r[j] = IF j < k THEN s[j] ELSE IF j = k THEN e ELSE s[j - 1]
  BY InsertAtProperties
<1> HIDE DEF r
<1>1. /\ r \in Seq(S) /\ Len(r) = Len(s) + 1
      /\ \A j \in 1..(Len(s) + 1) :
           r[j] = IF j < k THEN s[j] ELSE IF j = k THEN e ELSE s[j - 1]
  BY <1>a, <1>b
<1>2. DOMAIN r = 1..(Len(s) + 1) /\ DOMAIN s = 1..Len(s) /\ Len(s) \in Nat
  BY <1>1, LenProperties
<1>3. ASSUME NEW j \in 1..(Len(s) + 1) PROVE r[j] \in Range(s) \union {e}
  <2>1. CASE j < k
    BY <1>1, <1>2, <2>1 DEF Range
  <2>2. CASE j = k
    BY <1>1, <2>2
  <2>3. CASE j > k
    <3>1. j - 1 \in 1..Len(s) /\ r[j] = s[j - 1]
      BY <1>1, <1>2, <2>3
    <3> QED BY <1>2, <3>1 DEF Range
  <2> QED BY <1>2, <2>1, <2>2, <2>3
<1>4. e \in Range(r)
  BY <1>1, <1>2 DEF Range
<1>5. ASSUME NEW j \in 1..Len(s) PROVE s[j] \in Range(r)
  <2>1. CASE j < k
    <3>1. j \in 1..(Len(s) + 1) /\ r[j] = s[j]
      BY <1>1, <1>2, <2>1
    <3> QED BY <3>1, <1>2 DEF Range
  <2>2. CASE j >= k
    <3>1. j + 1 \in 1..(Len(s) + 1) /\ r[j + 1] = s[j]
      BY <1>1, <1>2, <2>2
    <3> QED BY <3>1, <1>2 DEF Range
  <2> QED BY <1>2, <2>1, <2>2
<1>6. Range(r) \subseteq Range(s) \union {e}
  BY <1>2, <1>3 DEF Range
<1>7. Range(s) \subseteq Range(r)
  BY <1>2, <1>5 DEF Range
<1> QED BY <1>4, <1>6, <1>7 DEF r

LEMMA RemoveAtRange ==
  ASSUME NEW S, NEW s \in Seq(S), NEW k \in 1..Len(s),
         \A j, l \in 1..Len(s) : j # l => s[j] # s[l]
  PROVE  Range(RemoveAt(s, k)) = Range(s) \ {s[k]}
<1> DEFINE r == RemoveAt(s, k)
<1>1. /\ r \in Seq(S) /\ Len(r) = Len(s) - 1
      /\ \A j \in 1..(Len(s) - 1) : r[j] = IF j < k THEN s[j] ELSE s[j + 1]
  BY RemoveAtProperties
<1> HIDE DEF r
<1>2. DOMAIN r = 1..(Len(s) - 1) /\ DOMAIN s = 1..Len(s) /\ Len(s) \in Nat
  BY <1>1, LenProperties
<1>3. ASSUME NEW j \in 1..(Len(s) - 1) PROVE r[j] \in Range(s) \ {s[k]}
  <2>1. CASE j < k
    BY <1>1, <1>2, <2>1 DEF Range
  <2>2. CASE j >= k
    <3>1. j + 1 \in 1..Len(s) /\ j + 1 # k /\ r[j] = s[j + 1]
      BY <1>1, <1>2, <2>2
    <3> QED BY <1>2, <3>1 DEF Range
  <2> QED BY <1>2, <2>1, <2>2
<1>4. ASSUME NEW j \in 1..Len(s), j # k PROVE s[j] \in Range(r)
  <2>1. CASE j < k
    <3>1. j \in 1..(Len(s) - 1) /\ r[j] = s[j]
      BY <1>1, <1>2, <2>1
    <3> QED BY <3>1, <1>2 DEF Range
  <2>2. CASE j > k
    <3>1. j - 1 \in 1..(Len(s) - 1) /\ r[j - 1] = s[j]
      <4>1. j - 1 \in 1..(Len(s) - 1) /\ ~(j - 1 < k) /\ (j - 1) + 1 = j
        BY <1>2, <2>2
      <4> QED BY <4>1, <1>1
    <3> QED BY <3>1, <1>2 DEF Range
  <2> QED BY <1>2, <1>4, <2>1, <2>2
<1>5. Range(r) \subseteq Range(s) \ {s[k]}
  BY <1>2, <1>3 DEF Range
<1>6. Range(s) \ {s[k]} \subseteq Range(r)
  BY <1>2, <1>4 DEF Range
<1> QED BY <1>5, <1>6 DEF r

(* A set of natural numbers that is not empty has a least element.         *)
LEMMA LeastExists ==
    ASSUME NEW S \in SUBSET Nat, S # {}
    PROVE  \E n \in S : \A m \in S : n <= m
<1> DEFINE T == {n \in Nat : \A m \in 0 .. n : m \notin S}
<1> SUFFICES ASSUME \A n \in S : \E m \in S : m < n PROVE FALSE
  OBVIOUS
<1>1. 0 \in T
  <2>1. 0 \notin S
    OBVIOUS
  <2> QED BY <2>1
<1>2. ASSUME NEW n \in Nat, n \in T PROVE n + 1 \in T
  <2>1. n + 1 \notin S
    BY <1>2
  <2> QED BY <1>2, <2>1
<1>3. Nat \subseteq T
  <2> HIDE DEF T
  <2> QED BY <1>1, <1>2, SetInduction
<1>4. PICK n \in S : TRUE
  OBVIOUS
<1>5. n \in 0 .. n /\ n \in T
  BY <1>3
<1> QED BY <1>4, <1>5

(* RemoveFirst takes away an occurrence, if there is one.                  *)
LEMMA RemoveFirstRemoves ==
    ASSUME NEW S, NEW s \in Seq(S), NEW e, \E i \in 1 .. Len(s) : s[i] = e
    PROVE  \E i \in 1 .. Len(s) : s[i] = e /\ RemoveFirst(s, e) = RemoveAt(s, i)
<1> DEFINE I == {i \in 1 .. Len(s) : s[i] = e}
           i == Min(I)
<1>1. Len(s) \in Nat
  BY LenProperties
<1>2. \E n \in I : \A m \in I : n <= m
  <2>1. I \in SUBSET Nat /\ I # {}
    BY <1>1
  <2> QED BY <2>1, LeastExists
<1>3. i \in I
  <2>1. i = CHOOSE n \in I : \A m \in I : n <= m
    BY DEF Min
  <2> HIDE DEF I, i
  <2> QED BY <1>2, <2>1
<1>4. RemoveFirst(s, e) = RemoveAt(s, i)
  <2>1. SelectInSeq(s, LAMBDA v : v = e) = i
    BY <1>2 DEF SelectInSeq
  <2> QED BY <2>1 DEF RemoveFirst
<1> QED BY <1>3, <1>4

(* Insertion where bisect_left says, and removal, keep a list in order.    *)
Ascending(v, n) == \A j, l \in 1..n : j < l => Less(v[j], v[l])

LEMMA InsertKeepsOrder ==
  ASSUME NEW n \in Nat, NEW k \in 1..(n + 1), NEW x, NEW v, NEW w,
         Ascending(v, n),
         \A j \in 1..(k - 1) : Less(v[j], x),
         \A j \in k..n : Less(x, v[j]),
         \A j \in 1..(n + 1) : w[j] = IF j < k THEN v[j] ELSE IF j = k THEN x ELSE v[j - 1]
  PROVE  Ascending(w, n + 1)
<1> SUFFICES ASSUME NEW j \in 1..(n + 1), NEW l \in 1..(n + 1), j < l
             PROVE  Less(w[j], w[l])
  BY DEF Ascending
<1>1. CASE l < k
  <2>1. j \in 1..n /\ l \in 1..n /\ w[j] = v[j] /\ w[l] = v[l]
    BY <1>1
  <2> QED BY <2>1 DEF Ascending
<1>2. CASE l = k
  <2>1. j \in 1..(k - 1) /\ w[j] = v[j] /\ w[l] = x
    BY <1>2
  <2> QED BY <2>1
<1>3. CASE l > k /\ j < k
  <2>1. j \in 1..n /\ l - 1 \in 1..n /\ j < l - 1 /\ w[j] = v[j] /\ w[l] = v[l - 1]
    BY <1>3
  <2> QED BY <2>1 DEF Ascending
<1>4. CASE l > k /\ j = k
  <2>1. l - 1 \in k..n /\ w[j] = x /\ w[l] = v[l - 1]
    BY <1>4
  <2> QED BY <2>1
<1>5. CASE l > k /\ j > k
  <2>1. j - 1 \in 1..n /\ l - 1 \in 1..n /\ j - 1 < l - 1 /\ w[j] = v[j - 1] /\ w[l] = v[l - 1]
    BY <1>5
  <2> QED BY <2>1 DEF Ascending
<1> QED BY <1>1, <1>2, <1>3, <1>4, <1>5

LEMMA RemoveKeepsOrder ==
  ASSUME NEW n \in Nat, NEW k \in 1..n, NEW v, NEW w,
         Ascending(v, n),
         \A j \in 1..(n - 1) : w[j] = IF j < k THEN v[j] ELSE v[j + 1]
  PROVE  Ascending(w, n - 1)
<1> SUFFICES ASSUME NEW j \in 1..(n - 1), NEW l \in 1..(n - 1), j < l
             PROVE  Less(w[j], w[l])
  BY DEF Ascending
<1>1. CASE l < k
  <2>1. j \in 1..n /\ l \in 1..n /\ w[j] = v[j] /\ w[l] = v[l]
    BY <1>1
  <2> QED BY <2>1 DEF Ascending
<1>2. CASE l >= k /\ j < k
  <2>1. j \in 1..n /\ l + 1 \in 1..n /\ j < l + 1 /\ w[j] = v[j] /\ w[l] = v[l + 1]
    BY <1>2
  <2> QED BY <2>1 DEF Ascending
<1>3. CASE l >= k /\ j >= k
  <2>1. j + 1 \in 1..n /\ l + 1 \in 1..n /\ j + 1 < l + 1 /\ w[j] = v[j + 1] /\ w[l] = v[l + 1]
    BY <1>3
  <2> QED BY <2>1 DEF Ascending
<1> QED BY <1>1, <1>2, <1>3

(* In a sorted list bisect_left finds the very element it is given.        *)
THEOREM BisectLeftFinds ==
  ASSUME NEW values, NEW m \in 1..Len(values), Len(values) \in Nat,
         \A j \in 1..Len(values) : values[j] \in Int \X Int,
         Ascending(values, Len(values))
  PROVE  BisectLeft(values, values[m]) = m - 1
<1> DEFINE k == BisectLeft(values, values[m])
<1>1. /\ k \in 0..Len(values)
      /\ \A j \in 1..k : Less(values[j], values[m])
      /\ \A j \in (k + 1)..Len(values) : ~Less(values[j], values[m])
  BY BisectLeftDivides DEF Ascending
<1> HIDE DEF k
<1>2. ~Less(values[m], values[m])
  BY DEF Less
<1>3. m > k
  BY <1>1, <1>2
<1>4. ASSUME k + 1 < m PROVE FALSE
  <2>1. k + 1 \in 1..Len(values) /\ k + 1 \in (k + 1)..Len(values)
    BY <1>1, <1>4
  <2>2. Less(values[k + 1], values[m])
    BY <1>4, <2>1 DEF Ascending
  <2> QED BY <1>1, <2>1, <2>2
<1> QED BY <1>1, <1>3, <1>4 DEF k

-----------------------------------------------------------------------------
(* Sorted lists, for a strict total order R of I.                          *)
Orders(R, I) ==
  /\ \A a \in I : <<a, a>> \notin R
  /\ \A a, b, c \in I : <<a, b>> \in R /\ <<b, c>> \in R => <<a, c>> \in R
  /\ \A a, b \in I : a = b \/ <<a, b>> \in R \/ <<b, a>> \in R

ByOrder(s, n, R) == \A j, k \in 1..n : j < k => <<s[j], s[k]>> \in R

(* A further element goes before the first that comes after it.            *)
LEMMA SortedInsert ==
  ASSUME NEW I, NEW R, Orders(R, I), NEW n \in Nat, NEW S \in SUBSET I, NEW x \in I,
         x \notin S, NEW s \in [1..n -> S], ByOrder(s, n, R)
  PROVE  \E w \in [1..(n + 1) -> S \union {x}] : ByOrder(w, n + 1, R)
<1> DEFINE K == {k \in 1..(n + 1) : k = n + 1 \/ <<x, s[k]>> \in R}
<1>1. PICK k \in K : \A m \in K : k <= m
  <2>1. K \in SUBSET Nat /\ n + 1 \in K
    OBVIOUS
  <2> QED BY <2>1, LeastExists
<1>2. k \in 1..(n + 1)
  OBVIOUS
<1>3. ASSUME NEW j \in 1..n, j < k PROVE <<s[j], x>> \in R
  <2>1. j \notin K
    BY <1>1, <1>2, <1>3
  <2>2. <<x, s[j]>> \notin R
    BY <2>1
  <2>3. s[j] \in I /\ s[j] # x
    OBVIOUS
  <2> QED BY <2>2, <2>3 DEF Orders
<1>4. ASSUME NEW j \in 1..n, k <= j PROVE <<x, s[j]>> \in R
  <2>1. k \in 1..n /\ <<x, s[k]>> \in R
    BY <1>2, <1>4
  <2>2. s[k] \in I /\ s[j] \in I
    BY <2>1
  <2>3. CASE j = k
    BY <2>1, <2>3
  <2>4. CASE k < j
    <3>1. <<s[k], s[j]>> \in R
      BY <2>1, <2>4 DEF ByOrder
    <3> QED BY <2>1, <2>2, <3>1 DEF Orders
  <2> QED BY <1>2, <1>4, <2>3, <2>4
<1> HIDE DEF K
<1> DEFINE w == [j \in 1..(n + 1) |-> IF j < k THEN s[j] ELSE IF j = k THEN x ELSE s[j - 1]]
<1>5. /\ \A j \in 1..(n + 1) : j < k => j \in 1..n /\ w[j] = s[j]
      /\ w[k] = x
      /\ \A j \in 1..(n + 1) : k < j => j - 1 \in 1..n /\ k <= j - 1 /\ w[j] = s[j - 1]
  BY <1>2
<1>6. w \in [1..(n + 1) -> S \union {x}]
  BY <1>2
<1> HIDE DEF w
<1>7. ASSUME NEW j \in 1..(n + 1), NEW l \in 1..(n + 1), j < l
      PROVE  <<w[j], w[l]>> \in R
  <2>1. CASE l < k
    <3>1. j \in 1..n /\ l \in 1..n /\ w[j] = s[j] /\ w[l] = s[l]
      BY <2>1, <1>2, <1>5, <1>7
    <3> QED BY <3>1, <1>7 DEF ByOrder
  <2>2. CASE l = k
    <3>1. j \in 1..n /\ j < k /\ w[j] = s[j] /\ w[l] = x
      BY <2>2, <1>2, <1>5, <1>7
    <3> QED BY <3>1, <1>3
  <2>3. CASE k < l /\ j < k
    <3>1. j \in 1..n /\ l - 1 \in 1..n /\ j < l - 1 /\ w[j] = s[j] /\ w[l] = s[l - 1]
      BY <2>3, <1>2, <1>5, <1>7
    <3> QED BY <3>1 DEF ByOrder
  <2>4. CASE k < l /\ j = k
    <3>1. l - 1 \in 1..n /\ k <= l - 1 /\ w[j] = x /\ w[l] = s[l - 1]
      BY <2>4, <1>2, <1>5, <1>7
    <3> QED BY <3>1, <1>4
  <2>5. CASE k < j
    <3>1. /\ j - 1 \in 1..n /\ l - 1 \in 1..n /\ j - 1 < l - 1
          /\ w[j] = s[j - 1] /\ w[l] = s[l - 1]
      BY <2>5, <1>2, <1>5, <1>7
    <3> QED BY <3>1 DEF ByOrder
  <2> QED BY <1>2, <1>7, <2>1, <2>2, <2>3, <2>4, <2>5
<1> QED BY <1>6, <1>7 DEF ByOrder

LEMMA SortedExists ==
  ASSUME NEW I, NEW R, Orders(R, I), NEW S \in SUBSET I, IsFiniteSet(S)
  PROVE  \E s \in [1..Cardinality(S) -> S] : ByOrder(s, Cardinality(S), R)
<1> DEFINE Sorts(U, n) == \E s \in [1..n -> U] : ByOrder(s, n, R)
           T == {n \in Nat : \A U \in SUBSET I :
                   IsFiniteSet(U) /\ Cardinality(U) = n => Sorts(U, n)}
<1>1. 0 \in T
  <2> SUFFICES ASSUME NEW U \in SUBSET I, IsFiniteSet(U), Cardinality(U) = 0 PROVE Sorts(U, 0)
    OBVIOUS
  <2> DEFINE s == [j \in 1..0 |-> CHOOSE u \in U : TRUE]
  <2>1. s \in [1..0 -> U] /\ ByOrder(s, 0, R)
    BY DEF ByOrder
  <2> HIDE DEF s
  <2> QED BY <2>1
<1>2. ASSUME NEW n \in Nat, n \in T PROVE n + 1 \in T
  <2> SUFFICES ASSUME NEW U \in SUBSET I, IsFiniteSet(U), Cardinality(U) = n + 1
               PROVE  Sorts(U, n + 1)
    OBVIOUS
  <2>1. U # {}
    BY FS_EmptySet
  <2>2. PICK x \in U : TRUE
    BY <2>1
  <2>3. IsFiniteSet(U \ {x}) /\ Cardinality(U \ {x}) = n
    <3>1. IsFiniteSet(U \ {x}) /\ Cardinality(U \ {x}) = Cardinality(U) - 1
      BY <2>2, FS_RemoveElement
    <3> QED BY <3>1
  <2>4. U \ {x} \in SUBSET I /\ x \in I /\ x \notin U \ {x} /\ (U \ {x}) \union {x} = U
    OBVIOUS
  <2>5. Sorts(U \ {x}, n)
    BY <2>3, <2>4, <1>2
  <2>6. PICK s \in [1..n -> U \ {x}] : ByOrder(s, n, R)
    BY <2>5
  <2>7. \E w \in [1..(n + 1) -> (U \ {x}) \union {x}] : ByOrder(w, n + 1, R)
    BY <2>4, <2>6, SortedInsert
  <2> QED BY <2>4, <2>7
<1>3. Cardinality(S) \in Nat
  BY FS_CardinalityType
<1> HIDE DEF T
<1>4. Nat \subseteq T
  BY <1>1, <1>2, SetInduction
<1>5. Cardinality(S) \in T
  BY <1>3, <1>4
<1> QED BY <1>5 DEF T

(* A sorted list of as many elements as the set has all of them.           *)
LEMMA SortedHasAll ==
  ASSUME NEW I, NEW R, Orders(R, I), NEW S \in SUBSET I, IsFiniteSet(S),
         NEW s \in [1..Cardinality(S) -> S], ByOrder(s, Cardinality(S), R)
  PROVE  \A x \in S : \E j \in 1..Cardinality(S) : s[j] = x
<1> DEFINE n == Cardinality(S)
<1>1. n \in Nat
  BY FS_CardinalityType
<1>2. ASSUME NEW j \in 1..n, NEW k \in 1..n, s[j] = s[k] PROVE j = k
  <2>1. s[j] \in I /\ <<s[j], s[k]>> \notin R /\ <<s[k], s[j]>> \notin R
    BY <1>2 DEF Orders
  <2> QED BY <1>1, <2>1 DEF ByOrder
<1>3. s \in Injection(1..n, S)
  BY <1>2 DEF Injection, IsInjective
<1>4. IsFiniteSet(1..n) /\ Cardinality(1..n) = n
  BY <1>1, FS_Interval
<1>5. s \in Surjection(1..n, S)
  BY <1>3, <1>4, FS_Injection
<1> QED BY <1>5 DEF Surjection

(* Two sorted lists of the same elements are the same list.                *)
LEMMA SortedIsUnique ==
  ASSUME NEW I, NEW R, Orders(R, I), NEW n \in Nat,
         NEW s \in [1..n -> I], ByOrder(s, n, R),
         NEW t \in [1..n -> I], ByOrder(t, n, R),
         \A j \in 1..n : \E k \in 1..n : s[j] = t[k],
         \A j \in 1..n : \E k \in 1..n : t[j] = s[k]
  PROVE  s = t
<1> DEFINE D == {j \in 1..n : s[j] # t[j]}
<1> SUFFICES ASSUME s # t PROVE FALSE
  OBVIOUS
<1>0. D # {}
  <2> SUFFICES ASSUME \A j \in 1..n : s[j] = t[j] PROVE s = t
    OBVIOUS
  <2>1. s = [j \in 1..n |-> s[j]] /\ t = [j \in 1..n |-> t[j]]
    OBVIOUS
  <2>2. [j \in 1..n |-> s[j]] = [j \in 1..n |-> t[j]]
    OBVIOUS
  <2> QED BY <2>1, <2>2
<1>1. PICK j \in D : \A m \in D : j <= m
  <2>1. D \in SUBSET Nat
    OBVIOUS
  <2> QED BY <1>0, <2>1, LeastExists
<1>2. j \in 1..n /\ s[j] # t[j] /\ \A m \in 1..n : m < j => s[m] = t[m]
  BY <1>1
<1> HIDE DEF D
<1>3. \A a \in I, b \in I : <<a, b>> \in R => <<b, a>> \notin R /\ a # b
  BY DEF Orders
<1>4. CASE <<s[j], t[j]>> \in R
  <2>1. PICK k \in 1..n : s[j] = t[k]
    BY <1>2
  <2>2. CASE k < j
    <3>1. s[k] = s[j] /\ <<s[k], s[j]>> \in R
      BY <1>2, <2>1, <2>2 DEF ByOrder
    <3> QED BY <3>1, <1>2, <1>3
  <2>3. CASE k = j
    BY <2>1, <2>3, <1>2
  <2>4. CASE j < k
    <3>1. <<t[j], s[j]>> \in R
      BY <1>2, <2>1, <2>4 DEF ByOrder
    <3> QED BY <3>1, <1>2, <1>3, <1>4
  <2> QED BY <1>2, <2>2, <2>3, <2>4
<1>5. CASE <<t[j], s[j]>> \in R
  <2>1. PICK k \in 1..n : t[j] = s[k]
    BY <1>2
  <2>2. CASE k < j
    <3>1. t[k] = t[j] /\ <<t[k], t[j]>> \in R
      BY <1>2, <2>1, <2>2 DEF ByOrder
    <3> QED BY <3>1, <1>2, <1>3
  <2>3. CASE k = j
    BY <2>1, <2>3, <1>2
  <2>4. CASE j < k
    <3>1. <<s[j], t[j]>> \in R
      BY <1>2, <2>1, <2>4 DEF ByOrder
    <3> QED BY <3>1, <1>2, <1>3, <1>5
  <2> QED BY <1>2, <2>2, <2>3, <2>4
<1>6. s[j] = t[j] \/ <<s[j], t[j]>> \in R \/ <<t[j], s[j]>> \in R
  BY <1>2 DEF Orders
<1> QED BY <1>2, <1>4, <1>5, <1>6

=============================================================================
