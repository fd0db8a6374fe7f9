------------------------ MODULE ServiceTrackerProofs ------------------------
(***************************************************************************)
(* Proofs about ServiceTracker.tla, for every number of trackers, clients  *)
(* and services, every query and every assignment of priorities.           *)
(*                                                                         *)
(* As in FrameworkProofs, Reg and ServiceTracker's Registry are one and    *)
(* the same instance under two names.                                      *)
(*                                                                         *)
(* Every action is one of three kinds of step, WalkerStep (open and close),*)
(* FireStep (a client's call) and DeliveryStep (an event at a tracker).    *)
(* Each kind keeps the invariant, which is proved once, whatever the       *)
(* action, from what a step of the kind may change; and for each action    *)
(* there is a lemma that it is a step of its kind.                         *)
(***************************************************************************)
EXTENDS ServiceTracker, BisectProofs

-----------------------------------------------------------------------------
(* The registry under the trackers.                                        *)
Reg == INSTANCE ServiceRegistryProofs WITH
  Bundles <- Trackers \union {Owner}, Classes <- {Class},
  ClassTuples <- {<<Class>>}, Priorities <- Range(Priority) \ {Unset},
  MaxUse <- MaxUse + Cardinality(Tasks) + 1

LEMMA RegistryConstants == Reg!ConstantsAssumption
<1>1. Cardinality(Tasks) \in Nat
  BY TrackerAssumption, FS_CardinalityType
<1>2. MaxUse + Cardinality(Tasks) + 1 \in Nat
  BY <1>1, TrackerAssumption
<1>3. Range(Priority) \ {Unset} \subseteq Int
  BY TrackerAssumption DEF Range
<1>4. {<<Class>>} \subseteq Seq({Class})
  OBVIOUS
<1>5. \A cs \in {<<Class>>} : \A j, k \in DOMAIN cs : cs[j] = cs[k] => j = k
  OBVIOUS
<1> QED BY <1>2, <1>3, <1>4, <1>5, TrackerAssumption
        DEF Reg!ConstantsAssumption, Reg!DefaultPriority

LEMMA SameInit == Registry!Init <=> Reg!Init
BY DEF Registry!Init, Reg!Init, Registry!Ids, Reg!Ids

LEMMA SameRegister ==
  ASSUME NEW b, NEW cs, NEW p
  PROVE  Registry!Register(b, cs, p) <=> Reg!Register(b, cs, p)
BY DEF Registry!Register, Reg!Register, Registry!NewId, Reg!NewId,
   Registry!books, Reg!books, Registry!Position, Reg!Position,
   Registry!SortValue, Reg!SortValue, Registry!BisectLeft, Reg!BisectLeft,
   Registry!Ids, Reg!Ids, Registry!DefaultPriority, Reg!DefaultPriority,
   Registry!Range, Reg!Range, Registry!InsertAt, Reg!InsertAt,
   Registry!Intervals, Reg!Intervals, Registry!Halve, Reg!Halve,
   Registry!Less, Reg!Less

LEMMA SameUnregister ==
  ASSUME NEW i
  PROVE  Registry!Unregister(i) <=> Reg!Unregister(i)
BY DEF Registry!Unregister, Reg!Unregister, Registry!UnlistedClasses,
   Reg!UnlistedClasses, Registry!Disowned, Reg!Disowned, Registry!books,
   Reg!books, Registry!Position, Reg!Position, Registry!SortValue,
   Reg!SortValue, Registry!BisectLeft, Reg!BisectLeft, Registry!Range,
   Reg!Range, Registry!RemoveAt, Reg!RemoveAt, Registry!Intervals,
   Reg!Intervals, Registry!Halve, Reg!Halve, Registry!Less, Reg!Less

LEMMA SameUses ==
  ASSUME NEW b, NEW i
  PROVE  /\ Registry!GetService(b, i) <=> Reg!GetService(b, i)
         /\ Registry!UngetService(b, i) <=> Reg!UngetService(b, i)
BY DEF Registry!GetService, Reg!GetService, Registry!UngetService, Reg!UngetService,
   Registry!Issued, Reg!Issued, Registry!used_by, Reg!used_by,
   Registry!unused_by, Reg!unused_by, Registry!Lowered, Reg!Lowered

IssuedIds == {i \in Ids : Registry!Issued(i)}

(* The sort values, whose order is that of Bisect's Less.                  *)
Sort(i) == <<reference[i].sort, i>>

LEMMA BeforeIsLess == \A i, j : Before(i, j) <=> Less(Sort(i), Sort(j))
BY DEF Before, Registry!Less, Less, Registry!SortValue, Sort

(* What the registry's invariant says of the tracker's class.              *)
RegOK ==
  /\ nextId \in 1..(MaxServices + 1) /\ nextId \notin IssuedIds
  /\ services \subseteq IssuedIds
  /\ reference \in [Ids -> Reg!References \union {NoReference}]
  /\ DOMAIN classIndex = {Class}
  /\ using \in [Trackers \union {Owner} -> [Ids -> Nat]]
  /\ ~resorted =>
       /\ classIndex[Class] \in Seq(IssuedIds)
       /\ Range(classIndex[Class]) = services
       /\ \A j, k \in 1..Len(classIndex[Class]) :
            j < k => Before(classIndex[Class][j], classIndex[Class][k])

LEMMA RegistrySays == Reg!IInv => RegOK
<1> SUFFICES ASSUME Reg!IInv PROVE RegOK
  OBVIOUS
<1>1. Reg!TypeOK /\ Reg!UnissuedIsBlank /\ Reg!LookupExact
  BY DEF Reg!IInv
<1>2. Reg!Ids = Ids /\ \A i : Registry!Issued(i) <=> Reg!Issued(i)
  BY DEF Reg!Ids, Ids, Registry!Issued, Reg!Issued
<1>3. /\ nextId \in 1..(MaxServices + 1)
      /\ nextId \notin IssuedIds /\ services \subseteq IssuedIds
      /\ reference \in [Ids -> Reg!References \union {NoReference}]
      /\ classIndex \in [{Class} -> Seq(Ids)]
      /\ using \in [Trackers \union {Owner} -> [Ids -> Nat]]
  BY <1>1, <1>2 DEF Reg!TypeOK, Reg!UnissuedIsBlank, IssuedIds
<1>4. ASSUME ~resorted
      PROVE  /\ classIndex[Class] \in Seq(IssuedIds)
             /\ Range(classIndex[Class]) = services
             /\ \A j, k \in 1..Len(classIndex[Class]) :
                  j < k => Before(classIndex[Class][j], classIndex[Class][k])
  <2> DEFINE refs == classIndex[Class]
  <2>1. refs \in Seq(Ids)
    BY <1>3
  <2>2. /\ \A j, k \in DOMAIN refs :
             j < k => Reg!Less(Reg!SortValue(refs[j]), Reg!SortValue(refs[k]))
        /\ Reg!Range(refs) = {i \in services : Class \in Reg!Range(reference[i].classes)}
    BY <1>1, <1>4 DEF Reg!LookupExact, Reg!FindReferences
  <2>3. \A i \in services : reference[i].classes = <<Class>>
    <3> SUFFICES ASSUME NEW i \in services PROVE reference[i].classes = <<Class>>
      OBVIOUS
    <3>1. i \in Ids /\ Reg!Issued(i)
      BY <1>2, <1>3 DEF IssuedIds
    <3>2. reference[i] \in Reg!References
      BY <3>1, <1>3 DEF Reg!Issued
    <3> QED BY <3>2 DEF Reg!References
  <2>4. Class \in Reg!Range(<<Class>>)
    BY DEF Reg!Range
  <2>5. Range(refs) = services
    BY <2>2, <2>3, <2>4 DEF Reg!Range, Range
  <2>6. DOMAIN refs = 1..Len(refs)
    BY <2>1, LenProperties
  <2>7. \A j, k \in 1..Len(refs) : j < k => Before(refs[j], refs[k])
    BY <2>2, <2>6 DEF Before, Registry!Less, Reg!Less, Registry!SortValue, Reg!SortValue
  <2>8. refs \in Seq(IssuedIds)
    <3>1. refs \in Seq(Range(refs))
      BY <2>1, SeqOfRange
    <3> QED BY <3>1, <2>5, <1>3, SeqMonotonic
  <2> QED BY <2>5, <2>7, <2>8
<1> QED BY <1>3, <1>4 DEF RegOK

(* The issued references are ordered by their sort values.                 *)
Precedence == {p \in IssuedIds \X IssuedIds : Before(p[1], p[2])}

LEMMA PrecedenceIs ==
  \A i, j \in IssuedIds : <<i, j>> \in Precedence <=> Before(i, j)
BY DEF Precedence

LEMMA SortTypes ==
  ASSUME RegOK, NEW i \in IssuedIds
  PROVE  reference[i].sort \in Int /\ i \in Int
<1>1. reference[i] \in Reg!References
  BY DEF RegOK, IssuedIds, Registry!Issued
<1>2. Reg!Sorts \subseteq Int
  BY RegistryConstants, Reg!ReferenceTypes
<1>3. i \in Int
  BY TrackerAssumption DEF IssuedIds, Ids
<1> QED BY <1>1, <1>2, <1>3 DEF Reg!References

LEMMA BeforeOrders ==
  ASSUME RegOK
  PROVE  Orders(Precedence, IssuedIds)
<1>1. \A i \in IssuedIds : reference[i].sort \in Int /\ i \in Int
  BY SortTypes
<1>2. \A i, j \in IssuedIds : Before(i, j) <=>
        \/ reference[i].sort < reference[j].sort
        \/ reference[i].sort = reference[j].sort /\ i < j
  BY BeforeIsLess DEF Less, Sort
<1>3. \A a \in IssuedIds : ~Before(a, a)
  BY <1>1, <1>2
<1>4. \A a, b, c \in IssuedIds : Before(a, b) /\ Before(b, c) => Before(a, c)
  BY <1>1, <1>2
<1>5. \A a, b \in IssuedIds : a = b \/ Before(a, b) \/ Before(b, a)
  BY <1>1, <1>2
<1> QED BY <1>3, <1>4, <1>5, PrecedenceIs DEF Orders

(* References in the order of their sort values.                           *)
Ascends(s) == \A j, k \in 1..Len(s) : j < k => Before(s[j], s[k])

LEMMA IssuedFinite == ASSUME NEW S \in SUBSET IssuedIds PROVE IsFiniteSet(S)
<1>1. IsFiniteSet(Ids)
  BY TrackerAssumption, FS_Interval DEF Ids
<1>2. S \in SUBSET Ids
  BY DEF IssuedIds
<1> QED BY <1>1, <1>2, FS_Subset

(* sorted returns a list of the same references, in order.                 *)
LEMMA OrderedIs ==
  ASSUME RegOK, NEW S \in SUBSET IssuedIds
  PROVE  /\ Ordered(S) \in Seq(IssuedIds)
         /\ Ascends(Ordered(S))
         /\ Range(Ordered(S)) = S
<1> DEFINE n == Cardinality(S)
           P(s) == \A j, k \in 1..n : j < k => Before(s[j], s[k])
<1>1. IsFiniteSet(S) /\ n \in Nat
  BY IssuedFinite, FS_CardinalityType
<1>2. ASSUME NEW s \in [1..n -> S]
      PROVE  P(s) <=> ByOrder(s, n, Precedence)
  <2>1. \A j \in 1..n : s[j] \in IssuedIds
    OBVIOUS
  <2> QED BY <2>1, PrecedenceIs DEF ByOrder
<1>3. \E s \in [1..n -> S] : P(s)
  BY <1>1, <1>2, BeforeOrders, SortedExists
<1> DEFINE o == Ordered(S)
<1>4. o \in [1..n -> S] /\ P(o)
  BY <1>3 DEF Ordered
<1> HIDE DEF o
<1>5. \A x \in S : \E j \in 1..n : o[j] = x
  BY <1>1, <1>2, <1>4, BeforeOrders, SortedHasAll
<1>6. o \in Seq(S) /\ Len(o) = n /\ DOMAIN o = 1..n
  BY <1>1, <1>4, SeqDef
<1>7. o \in Seq(IssuedIds)
  BY <1>6, SeqMonotonic
<1>8. Range(o) = S
  BY <1>4, <1>5, <1>6 DEF Range
<1>9. Ascends(o)
  BY <1>4, <1>6 DEF Ascends
<1> QED BY <1>7, <1>8, <1>9 DEF o

LEMMA AscendsByOrder ==
  ASSUME NEW s \in Seq(IssuedIds), Ascends(s)
  PROVE  s \in [1..Len(s) -> IssuedIds] /\ ByOrder(s, Len(s), Precedence)
<1>1. s \in [1..Len(s) -> IssuedIds]
  BY LenProperties
<1>2. \A j \in 1..Len(s) : s[j] \in IssuedIds
  BY <1>1
<1> QED BY <1>1, <1>2, PrecedenceIs DEF Ascends, ByOrder

LEMMA AscendsLength ==
  ASSUME RegOK, NEW s \in Seq(IssuedIds), Ascends(s)
  PROVE  Cardinality(Range(s)) = Len(s)
<1> DEFINE n == Len(s)
<1>1. n \in Nat /\ DOMAIN s = 1..n /\ s \in [1..n -> IssuedIds]
  BY LenProperties
<1>2. \A a \in IssuedIds : ~Before(a, a)
  BY BeforeOrders, PrecedenceIs DEF Orders
<1>3. ASSUME NEW j \in 1..n, NEW k \in 1..n, s[j] = s[k] PROVE j = k
  <2>1. s[j] \in IssuedIds /\ ~Before(s[j], s[k]) /\ ~Before(s[k], s[j])
    BY <1>1, <1>2, <1>3
  <2> QED BY <1>1, <2>1 DEF Ascends
<1>4. s \in [1..n -> Range(s)]
  BY <1>1 DEF Range
<1>5. s \in Bijection(1..n, Range(s))
  BY <1>1, <1>3, <1>4 DEF Range, Bijection, Injection, Surjection, IsInjective
<1>6. IsFiniteSet(1..n) /\ Cardinality(1..n) = n
  BY <1>1, FS_Interval
<1>7. ExistsBijection(1..n, Range(s))
  BY <1>5 DEF ExistsBijection
<1> QED BY <1>6, <1>7, FS_Bijection

(* A list in order is what sorted makes of its elements.                   *)
LEMMA AscendsIsOrdered ==
  ASSUME RegOK, NEW s \in Seq(IssuedIds), Ascends(s)
  PROVE  s = Ordered(Range(s))
<1> DEFINE o == Ordered(Range(s))
<1>1. Range(s) \in SUBSET IssuedIds
  BY RangeOfSeq
<1>2. o \in Seq(IssuedIds) /\ Ascends(o) /\ Range(o) = Range(s)
  BY <1>1, OrderedIs
<1> HIDE DEF o
<1>3. Len(o) = Len(s)
  BY <1>2, AscendsLength
<1>4. Len(s) \in Nat
  BY LenProperties
<1>5. /\ s \in [1..Len(s) -> IssuedIds] /\ ByOrder(s, Len(s), Precedence)
      /\ o \in [1..Len(s) -> IssuedIds] /\ ByOrder(o, Len(s), Precedence)
  BY <1>2, <1>3, AscendsByOrder
<1>6. Range(s) = {s[j] : j \in 1..Len(s)} /\ Range(o) = {o[j] : j \in 1..Len(s)}
  BY <1>2, <1>3, RangeEquality
<1>7. /\ \A j \in 1..Len(s) : \E k \in 1..Len(s) : s[j] = o[k]
      /\ \A j \in 1..Len(s) : \E k \in 1..Len(s) : o[j] = s[k]
  BY <1>2, <1>6
<1>8. Orders(Precedence, IssuedIds)
  BY BeforeOrders
<1>9. s = o
  BY <1>4, <1>5, <1>7, <1>8, SortedIsUnique
<1> QED BY <1>9 DEF o

-----------------------------------------------------------------------------
(* What the registry's operations do, as far as the trackers see.          *)
Unchanging == reference' = reference /\ resorted' = resorted

LEMMA Registers ==
  ASSUME RegOK, NEW p, Registry!Register(Owner, <<Class>>, p)
  PROVE  /\ nextId \in Ids /\ nextId \notin IssuedIds
         /\ \A i \in IssuedIds : reference'[i] = reference[i]
         /\ IssuedIds \subseteq IssuedIds'
         /\ services' = services \union {nextId}
         /\ using' = using /\ resorted' = resorted
<1>1. /\ nextId \in Ids /\ nextId \notin IssuedIds
      /\ services' = services \union {nextId}
      /\ using' = using /\ resorted' = resorted
  BY DEF Registry!Register, Registry!NewId, Registry!Ids, Ids, Registry!books, RegOK
<1>2. \A i \in Ids : i # nextId => reference'[i] = reference[i]
  BY DEF Registry!Register, Registry!NewId, RegOK
<1> QED BY <1>1, <1>2 DEF IssuedIds, Registry!Issued

LEMMA Unregisters ==
  ASSUME NEW i, Registry!Unregister(i)
  PROVE  /\ i \in services /\ services' = services \ {i}
         /\ using' = using /\ Unchanging
BY DEF Registry!Unregister, Registry!books, Unchanging

LEMMA GetsService ==
  ASSUME RegOK, NEW tr \in Trackers, NEW i \in Ids, Registry!GetService(tr, i)
  PROVE  /\ services' = services /\ classIndex' = classIndex /\ Unchanging
         /\ \A o \in Trackers, j \in Ids : using'[o][j] =
              IF o = tr /\ j = i THEN using[o][j] + 1 ELSE using[o][j]
<1>1. using \in [Trackers \union {Owner} -> [Ids -> Nat]]
  BY DEF RegOK
<1>2. using' = [using EXCEPT ![tr][i] = @ + 1]
  BY DEF Registry!GetService
<1> QED BY <1>1, <1>2 DEF Registry!GetService, Unchanging

LEMMA UngetsService ==
  ASSUME RegOK, NEW tr \in Trackers, NEW i \in Ids, Registry!UngetService(tr, i)
  PROVE  /\ services' = services /\ classIndex' = classIndex /\ Unchanging
         /\ \A o \in Trackers, j \in Ids : using'[o][j] =
              IF o = tr /\ j = i
              THEN IF using[o][j] > 0 THEN using[o][j] - 1 ELSE 0
              ELSE using[o][j]
<1>1. using \in [Trackers \union {Owner} -> [Ids -> Nat]]
  BY DEF RegOK
<1>2. using' = [using EXCEPT ![tr][i] = IF @ > 0 THEN @ - 1 ELSE 0]
  BY DEF Registry!UngetService, Registry!Lowered
<1> QED BY <1>1, <1>2 DEF Registry!UngetService, Unchanging

-----------------------------------------------------------------------------
(***************************************************************************)
(* The inductive invariant: the types, and what holds while no call has    *)
(* disturbed another.                                                      *)
(***************************************************************************)
Held(tr) == Range(tracked[tr])

Stages == {"scheduled", "adding", "modifying", "removing"}

Walks == [pc : {"closed", "open", "adding", "removing"}, ref : Ids \union {0},
          live : BOOLEAN, at : Nat \ {0}, rest : Seq(IssuedIds)]

TrackersOK ==
  /\ listening = {tr \in Trackers : opener[tr].pc \in {"open", "adding"}}
  /\ tracked \in [Trackers -> Seq(IssuedIds)]
  /\ opener \in [Trackers -> Walks]
  /\ \A tr \in Walking : opener[tr].ref \in IssuedIds

(* A client's call: one that is over has nothing to deliver.               *)
IsCall(r) ==
  /\ r = [ref |-> r.ref, pending |-> r.pending]
  /\ DOMAIN r.pending \subseteq Trackers
  /\ DOMAIN r.pending = {} => r = Idle
  /\ \A tr \in DOMAIN r.pending :
       r.ref \in IssuedIds /\ r.pending[tr] \in [kind : Kinds, pc : Stages]

ClientsOK == DOMAIN task = Tasks /\ \A t \in Tasks : IsCall(task[t])

Types ==
  /\ TrackersOK /\ ClientsOK
  /\ props \in [Ids -> Properties] /\ disturbed \in BOOLEAN
  /\ ~resorted

(* A tracker's uses are those it owes.                                     *)
UsesExact == \A tr \in Trackers, i \in Ids : Owed(tr, i) = using[tr][i]

(* The calls in progress do not meet.                                      *)
Apart ==
  /\ Walking = {} \/ Calling = {}
  /\ \A t, u \in Calling : task[t].ref = task[u].ref => t = u

Matching(tr) == {i \in services : Matches(tr, i)}

(* Where the loop of an open or close stands.                              *)
AddingRight(tr) ==
  LET ref == opener[tr].ref
      left == Left(opener[tr])
  IN  /\ \A i \in Held(tr) : Before(i, ref)
      /\ \A i \in Range(left) : Before(ref, i)
      /\ Ascends(left)
      /\ Held(tr) \union {ref} \union Range(left) = Matching(tr)

RemovingRight(tr) ==
  tracked[tr] = opener[tr].rest /\ opener[tr].ref \notin Held(tr)

WalkRight(tr) ==
  /\ opener[tr].pc = "closed" => tracked[tr] = <<>>
  /\ opener[tr].pc = "removing" => RemovingRight(tr)
  /\ opener[tr].pc = "adding" => AddingRight(tr)

(* A delivery d is of the service i as it is now.                          *)
RightOf(d, i, tr, held) ==
  /\ Handles(d.kind) = "none" => d.pc = "scheduled" /\ ~Matches(tr, i)
  /\ Handles(d.kind) = "track" => i \in services /\ d.pc # "removing"
  /\ Handles(d.kind) = "untrack" => i \notin services /\ d.pc \in {"scheduled", "removing"}
  /\ d.pc = "modifying" => i \in held
  /\ d.pc \in {"adding", "removing"} => i \notin held

DeliveryRight(t, tr) ==
  /\ opener[tr].pc = "open"
  /\ RightOf(task[t].pending[tr], task[t].ref, tr, Held(tr))

(* What an open tracker does not track rightly, it is still to be told of. *)
Following(tr) ==
  opener[tr].pc = "open" =>
    \A i \in Ids :
      \/ i \in Held(tr) <=> i \in services
      \/ ~Matches(tr, i)
      \/ \E t \in Tasks : task[t].ref = i /\ tr \in DOMAIN task[t].pending

TrackerCalm(tr) == Ascends(tracked[tr]) /\ WalkRight(tr) /\ Following(tr)

Calm ==
  /\ UsesExact
  /\ Apart
  /\ \A tr \in Trackers : TrackerCalm(tr)
  /\ \A t \in Tasks : \A tr \in DOMAIN task[t].pending : DeliveryRight(t, tr)

IInv == Types /\ UsesCovered /\ (~disturbed => Calm)

-----------------------------------------------------------------------------
(* What the parts of an action do.                                         *)
LEMMA ListTypes ==
  ASSUME NEW s \in Seq(IssuedIds)
  PROVE  /\ Range(s) \subseteq IssuedIds
         /\ DOMAIN s = 1..Len(s) /\ Len(s) \in Nat
         /\ \A i : Contains(s, i) <=> i \in Range(s)
<1>1. DOMAIN s = 1..Len(s) /\ Len(s) \in Nat
  BY LenProperties
<1>2. Range(s) \subseteq IssuedIds
  BY RangeOfSeq
<1> QED BY <1>1, <1>2 DEF Contains, Range

LEMMA WalkParts ==
  ASSUME NEW w \in Walks
  PROVE  /\ w.pc \in {"closed", "open", "adding", "removing"} /\ w.ref \in Ids \union {0}
         /\ w.live \in BOOLEAN /\ w.at \in Nat \ {0} /\ w.rest \in Seq(IssuedIds)
BY DEF Walks

(* A walk with other values of some of its fields.                         *)
LEMMA WalkOpened ==
  ASSUME NEW w \in Walks
  PROVE  LET v == [w EXCEPT !.pc = "open"]
         IN  v \in Walks /\ v.pc = "open" /\ v.rest = w.rest /\ v.live = w.live
BY DEF Walks

AddingWalk(w, i, a, s) == [w EXCEPT !.pc = "adding", !.ref = i, !.at = a, !.rest = s]

LEMMA WalkAdding ==
  ASSUME NEW w \in Walks, NEW i \in Ids, NEW a \in Nat \ {0}, NEW s \in Seq(IssuedIds)
  PROVE  LET v == AddingWalk(w, i, a, s)
         IN  /\ v \in Walks /\ v.pc = "adding" /\ v.ref = i
             /\ v.live = w.live /\ v.at = a /\ v.rest = s
BY DEF Walks, AddingWalk

RemovingWalk(i, s) == [Closed EXCEPT !.pc = "removing", !.ref = i, !.rest = s]

LEMMA WalkRemoving ==
  ASSUME NEW i \in Ids, NEW s \in Seq(IssuedIds), Closed \in Walks
  PROVE  LET v == RemovingWalk(i, s)
         IN  /\ v \in Walks /\ v.pc = "removing" /\ v.ref = i
             /\ v.live = Closed.live /\ v.rest = s
BY DEF Walks, RemovingWalk

LEMMA ClosedAndOpened ==
  /\ Closed \in Walks /\ Closed.pc = "closed" /\ Closed.rest = <<>> /\ ~Closed.live
  /\ Opened \in Walks /\ Opened.pc = "open" /\ Opened.rest = <<>> /\ ~Opened.live
<1>1. <<>> \in Seq(IssuedIds)
  BY EmptySeq
<1>2. Closed \in Walks /\ Closed.pc = "closed" /\ Closed.rest = <<>> /\ ~Closed.live
  BY <1>1 DEF Closed, Walks
<1> QED BY <1>2, WalkOpened DEF Opened

LEMMA IdleIs ==
  IsCall(Idle) /\ DOMAIN Idle.pending = {} /\ Idle.ref = 0
BY DEF IsCall, Idle

LEMMA LeftTypes ==
  ASSUME RegOK, ~resorted, NEW w \in Walks
  PROVE  Left(w) \in Seq(IssuedIds)
<1> DEFINE c == classIndex[Class]
<1>1. c \in Seq(IssuedIds) /\ w.at \in Nat \ {0}
  BY WalkParts DEF RegOK
<1>2. CASE w.live
  <2>1. Len(c) \in Nat /\ \A k \in w.at..Len(c) : c[k] \in IssuedIds
    BY <1>1, <1>2, LenProperties, ElementOfSeq
  <2>2. SubSeq(c, w.at, Len(c)) \in Seq(IssuedIds)
    BY <1>1, <2>1, SubSeqProperties
  <2> QED BY <1>2, <2>2 DEF Left
<1>3. CASE ~w.live
  BY <1>3, WalkParts DEF Left
<1> QED BY <1>2, <1>3

(* track_initial goes on: it is over, or it has obtained the next service, *)
(* or the next service is gone.                                            *)
Walked(tr, walk, w) ==
  LET i == Head(Left(walk))
  IN  \/ /\ Left(walk) = <<>> /\ w.pc = "open"
         /\ using' = using
      \/ /\ Left(walk) # <<>> /\ i \in IssuedIds
         /\ \A o \in Trackers, j \in Ids : using'[o][j] =
              IF o = tr /\ j = i THEN using[o][j] + 1 ELSE using[o][j]
         /\ IF i \in services
            THEN w.pc = "adding" /\ w.ref = i /\ Left(w) = Tail(Left(walk))
            ELSE w.pc = "open"

LEMMA WalkOnDoes ==
  ASSUME RegOK, ~resorted, NEW tr \in Trackers, NEW walk \in Walks, WalkOn(tr, walk)
  PROVE  /\ services' = services /\ classIndex' = classIndex /\ Unchanging
         /\ \E w \in Walks : opener' = [opener EXCEPT ![tr] = w] /\ Walked(tr, walk, w)
<1> DEFINE left == Left(walk)
           i == Head(left)
<1>1. left \in Seq(IssuedIds)
  BY LeftTypes
<1>2. CASE left = <<>> /\ opener' = [opener EXCEPT ![tr] = Opened] /\ UNCHANGED registryVars
  BY <1>2, ClosedAndOpened DEF Walked, registryVars, Unchanging
<1>3. CASE /\ left # <<>>
           /\ Registry!GetService(tr, i)
           /\ opener' = [opener EXCEPT ![tr] =
                IF i \notin services THEN Opened
                ELSE [walk EXCEPT !.pc = "adding", !.ref = i,
                        !.at = IF walk.live THEN @ + 1 ELSE @,
                        !.rest = IF walk.live THEN @ ELSE Tail(@)]]
  <2> HIDE DEF left
  <2>1. i \in IssuedIds /\ i \in Ids
    BY <1>1, <1>3, HeadTailProperties DEF IssuedIds
  <2>2. /\ services' = services /\ classIndex' = classIndex /\ Unchanging
        /\ \A o \in Trackers, j \in Ids : using'[o][j] =
             IF o = tr /\ j = i THEN using[o][j] + 1 ELSE using[o][j]
    BY <1>3, <2>1, GetsService
  <2>3. CASE i \notin services
    BY <1>3, <2>1, <2>2, <2>3, ClosedAndOpened DEF Walked, left
  <2>4. CASE i \in services
    <3> DEFINE a == IF walk.live THEN walk.at + 1 ELSE walk.at
               s == IF walk.live THEN walk.rest ELSE Tail(walk.rest)
               w == AddingWalk(walk, i, a, s)
    <3>1. opener' = [opener EXCEPT ![tr] = w]
      BY <1>3, <2>4 DEF AddingWalk
    <3>a. i \in Ids /\ a \in Nat \ {0} /\ s \in Seq(IssuedIds)
      <4>1. ~walk.live => Tail(walk.rest) \in Seq(IssuedIds)
        <5> SUFFICES ASSUME ~walk.live PROVE Tail(walk.rest) \in Seq(IssuedIds)
          OBVIOUS
        <5>1. left = walk.rest
          BY DEF left, Left
        <5> QED BY <1>1, <1>3, <5>1, HeadTailProperties
      <4> QED BY <2>1, <4>1, WalkParts
    <3> HIDE DEF a, s
    <3>b. /\ w \in Walks /\ w.pc = "adding" /\ w.ref = i /\ w.live = walk.live
          /\ w.at = a /\ w.rest = s
      BY <3>a, WalkAdding
    <3> HIDE DEF w
    <3>2. CASE walk.live
      <4>1. /\ w \in Walks /\ w.pc = "adding" /\ w.ref = i /\ w.live
            /\ w.at = walk.at + 1 /\ walk.at \in Nat \ {0}
        BY <3>2, <3>b, WalkParts DEF a
      <4>2. left = SubSeq(classIndex[Class], walk.at, Len(classIndex[Class]))
        BY <3>2 DEF left, Left
      <4>3. classIndex[Class] \in Seq(IssuedIds) /\ Len(classIndex[Class]) \in Nat
        BY LenProperties DEF RegOK
      <4>4. walk.at <= Len(classIndex[Class])
        <5> SUFFICES ASSUME Len(classIndex[Class]) < walk.at PROVE FALSE
          BY <4>1, <4>3
        <5>1. left = <<>>
          BY <4>1, <4>2, <4>3, SubSeqEmpty
        <5> QED BY <5>1, <1>3
      <4>5. Tail(left) = SubSeq(classIndex[Class], walk.at + 1, Len(classIndex[Class]))
        <5>1. walk.at \in 1..Len(classIndex[Class])
          BY <4>1, <4>3, <4>4
        <5>2. Len(classIndex[Class]) \in walk.at..Len(classIndex[Class])
          BY <4>3, <5>1
        <5> QED BY <4>2, <4>3, <5>1, <5>2, HeadTailOfSubSeq
      <4>6. Left(w) = Tail(left)
        BY <4>1, <4>5 DEF Left
      <4> QED BY <1>3, <2>1, <2>2, <2>4, <3>1, <4>1, <4>6 DEF Walked, left
    <3>3. CASE ~walk.live
      <4>1. left = walk.rest
        BY <3>3 DEF left, Left
      <4>3. /\ w \in Walks /\ w.pc = "adding" /\ w.ref = i /\ ~w.live
            /\ w.rest = Tail(walk.rest)
        BY <3>3, <3>b DEF s
      <4>4. Left(w) = Tail(left)
        BY <4>1, <4>3 DEF Left
      <4> QED BY <1>3, <2>1, <2>2, <2>4, <3>1, <4>3, <4>4 DEF Walked, left
    <3> QED BY <3>2, <3>3
  <2> QED BY <2>3, <2>4
<1> QED BY <1>2, <1>3 DEF WalkOn

LEMMA UntrackedIs ==
  ASSUME RegOK, TrackersOK, NEW tr \in Trackers, NEW i
  PROVE  /\ Untracked(tr, i) \in Seq(IssuedIds)
         /\ Ascends(Untracked(tr, i))
         /\ Range(Untracked(tr, i)) = Held(tr) \ {i}
<1>1. Held(tr) \ {i} \in SUBSET IssuedIds
  BY ListTypes DEF TrackersOK, Held
<1> QED BY <1>1, OrderedIs DEF Untracked, Held

(* close goes on: to the next reference that is tracked, or to its end.    *)
LEMMA CloseOnDoes ==
  ASSUME RegOK, TrackersOK, NEW tr \in Trackers, NEW refs \in Seq(IssuedIds),
         CloseOn(tr, refs)
  PROVE  \/ /\ Range(refs) \intersect Held(tr) = {}
            /\ opener' = [opener EXCEPT ![tr] = Closed] /\ tracked' = tracked
         \/ \E k \in 1..Len(refs) : \E w \in Walks :
              /\ refs[k] \in Held(tr) /\ refs[k] \in IssuedIds
              /\ \A j \in 1..(k - 1) : refs[j] \notin Held(tr)
              /\ tracked' = [tracked EXCEPT ![tr] = Untracked(tr, refs[k])]
              /\ opener' = [opener EXCEPT ![tr] = w]
              /\ w.pc = "removing" /\ w.ref = refs[k] /\ ~w.live
              /\ w.rest = SubSeq(refs, k + 1, Len(refs))
<1> DEFINE I == {j \in 1..Len(refs) : Contains(tracked[tr], refs[j])}
<1>1. \A i : Contains(tracked[tr], i) <=> i \in Held(tr)
  BY ListTypes DEF TrackersOK, Held
<1>2. Len(refs) \in Nat /\ DOMAIN refs = 1..Len(refs)
  BY ListTypes
<1>3. CASE I = {}
  <2>1. SelectInSeq(refs, LAMBDA i : Contains(tracked[tr], i)) = 0
    BY <1>3 DEF SelectInSeq
  <2>2. Range(refs) \intersect Held(tr) = {}
    BY <1>1, <1>2, <1>3 DEF Range
  <2>3. opener' = [opener EXCEPT ![tr] = Closed] /\ tracked' = tracked
    BY <2>1 DEF CloseOn
  <2> QED BY <2>2, <2>3
<1>4. CASE I # {}
  <2> DEFINE k == Min(I)
  <2>1. \E n \in I : \A m \in I : n <= m
    <3>1. I \in SUBSET Nat
      BY <1>2
    <3> HIDE DEF I
    <3> QED BY <1>4, <3>1, LeastExists
  <2>2. k \in I /\ \A m \in I : k <= m
    <3>1. k = CHOOSE n \in I : \A m \in I : n <= m
      BY DEF Min
    <3> HIDE DEF I, k
    <3> QED BY <2>1, <3>1
  <2>3. SelectInSeq(refs, LAMBDA i : Contains(tracked[tr], i)) = k
    BY <1>4 DEF SelectInSeq
  <2> HIDE DEF k
  <2>4. k \in 1..Len(refs) /\ refs[k] \in Held(tr)
    BY <1>1, <2>2
  <2>5. \A j \in 1..(k - 1) : refs[j] \notin Held(tr)
    BY <1>1, <1>2, <2>2, <2>4
  <2>6. refs[k] \in IssuedIds /\ k # 0 /\ k \in Nat
    BY <1>2, <2>4, ElementOfSeq
  <2>7. SubSeq(refs, k + 1, Len(refs)) \in Seq(IssuedIds)
    <3>1. \A j \in (k + 1)..Len(refs) : refs[j] \in IssuedIds
      BY <1>2, <2>6, ElementOfSeq
    <3> QED BY <1>2, <2>6, <3>1, SubSeqProperties
  <2> DEFINE w == RemovingWalk(refs[k], SubSeq(refs, k + 1, Len(refs)))
  <2>8. /\ w \in Walks /\ w.pc = "removing" /\ w.ref = refs[k] /\ ~w.live
        /\ w.rest = SubSeq(refs, k + 1, Len(refs))
    <3>1. refs[k] \in Ids
      BY <2>6 DEF IssuedIds
    <3> QED BY <2>7, <3>1, WalkRemoving, ClosedAndOpened
  <2>9. /\ tracked' = [tracked EXCEPT ![tr] = Untracked(tr, refs[k])]
        /\ opener' = [opener EXCEPT ![tr] = w]
    BY <2>3, <2>6 DEF CloseOn, RemovingWalk
  <2> HIDE DEF w
  <2> QED BY <2>4, <2>5, <2>6, <2>8, <2>9
<1> QED BY <1>3, <1>4

(* An event goes to every listening tracker whose query matches now, to    *)
(* others only as the end of a match.                                      *)
LEMMA DeliveriesAre ==
  ASSUME NEW kind, NEW now, NEW before, NEW out \in Deliveries(kind, now, before)
  PROVE  /\ DOMAIN out \subseteq listening
         /\ \A tr \in listening : now \in Query[tr] => tr \in DOMAIN out
         /\ \A tr \in DOMAIN out : out[tr] \in {kind, "MODIFIED_ENDMATCH"}
<1> DEFINE left == Leavers(kind, now, before)
<1>1. /\ left \subseteq listening /\ Matched(now) \subseteq listening
      /\ \A tr \in listening : now \in Query[tr] => tr \in Matched(now)
  BY DEF Leavers, Matched
<1>2. CASE left = {}
  <2>1. out = [tr \in Matched(now) |-> kind]
    BY <1>2 DEF Deliveries
  <2> QED BY <1>1, <2>1
<1>3. CASE left # {}
  <2>1. PICK first \in left, early \in SUBSET Matched(now) :
          out = SentAs(kind, now, first, early)
    BY <1>3 DEF Deliveries
  <2>2. /\ DOMAIN out = Matched(now) \union {first}
        /\ \A tr \in DOMAIN out : out[tr] \in {kind, "MODIFIED_ENDMATCH"}
    BY <2>1 DEF SentAs
  <2>3. first \in listening
    BY <1>1
  <2> QED BY <1>1, <2>2, <2>3
<1> QED BY <1>2, <1>3

(* The call that t makes: its event on i is to go to some trackers.        *)
Fired(i, kind, now, r) ==
  /\ IF DOMAIN r.pending = {} THEN r = Idle
     ELSE r = [ref |-> i, pending |-> r.pending]
  /\ DOMAIN r.pending \subseteq listening
  /\ \A tr \in listening : now \in Query[tr] => tr \in DOMAIN r.pending
  /\ \A tr \in DOMAIN r.pending :
       /\ r.ref = i
       /\ r.pending[tr] \in [kind : {kind, "MODIFIED_ENDMATCH"}, pc : {"scheduled"}]
  /\ ~disturbed' =>
       \A tr \in DOMAIN r.pending : r.pending[tr].kind # kind => now \notin Query[tr]

LEMMA FireDoes ==
  ASSUME NEW t, NEW i, NEW kind, NEW now, NEW before, NEW overlaps,
         Fire(t, i, kind, now, before, overlaps)
  PROVE  /\ \E r : task' = [task EXCEPT ![t] = r] /\ Fired(i, kind, now, r)
         /\ disturbed' \in BOOLEAN /\ (~disturbed' => ~disturbed /\ ~overlaps)
<1>1. PICK out \in Deliveries(kind, now, before) :
        /\ task' = [task EXCEPT ![t] =
             IF DOMAIN out = {} THEN Idle
             ELSE [ref |-> i, pending |->
                     [tr \in DOMAIN out |-> [kind |-> out[tr], pc |-> "scheduled"]]]]
        /\ disturbed' = \/ disturbed \/ overlaps
                        \/ \E tr \in DOMAIN out : out[tr] # kind /\ now \in Query[tr]
  BY DEF Fire
<1>2. /\ DOMAIN out \subseteq listening
      /\ \A tr \in listening : now \in Query[tr] => tr \in DOMAIN out
      /\ \A tr \in DOMAIN out : out[tr] \in {kind, "MODIFIED_ENDMATCH"}
  BY DeliveriesAre
<1> DEFINE p == [tr \in DOMAIN out |-> [kind |-> out[tr], pc |-> "scheduled"]]
           r == IF DOMAIN out = {} THEN Idle ELSE [ref |-> i, pending |-> p]
<1>3. DOMAIN p = DOMAIN out
  OBVIOUS
<1>4. \A tr \in DOMAIN out : p[tr] = [kind |-> out[tr], pc |-> "scheduled"]
  OBVIOUS
<1>5. ~disturbed' =>
        /\ ~disturbed /\ ~overlaps
        /\ \A tr \in DOMAIN out : out[tr] # kind => now \notin Query[tr]
  BY <1>1
<1> HIDE DEF p
<1>6. CASE DOMAIN out = {}
  <2>1. r = Idle /\ DOMAIN r.pending = {}
    BY <1>6, IdleIs
  <2>2. Fired(i, kind, now, r)
    BY <1>2, <1>6, <2>1 DEF Fired
  <2>3. task' = [task EXCEPT ![t] = r] /\ disturbed' \in BOOLEAN
    BY <1>1, <1>6
  <2> HIDE DEF r
  <2> QED BY <1>5, <2>2, <2>3
<1>7. CASE DOMAIN out # {}
  <2>1. r = [ref |-> i, pending |-> p]
    BY <1>7
  <2>2. r.ref = i /\ r.pending = p /\ DOMAIN r.pending = DOMAIN out
    BY <2>1, <1>3
  <2>3. \A tr \in DOMAIN out :
          /\ p[tr] \in [kind : {kind, "MODIFIED_ENDMATCH"}, pc : {"scheduled"}]
          /\ p[tr].kind = out[tr]
    <3> SUFFICES ASSUME NEW tr \in DOMAIN out
                 PROVE  /\ p[tr] \in [kind : {kind, "MODIFIED_ENDMATCH"}, pc : {"scheduled"}]
                        /\ p[tr].kind = out[tr]
      OBVIOUS
    <3>1. p[tr] = [kind |-> out[tr], pc |-> "scheduled"]
      BY <1>4
    <3>2. out[tr] \in {kind, "MODIFIED_ENDMATCH"}
      BY <1>2
    <3> QED BY <3>1, <3>2
  <2>4. task' = [task EXCEPT ![t] = r]
    BY <1>1 DEF p
  <2>5. disturbed' \in BOOLEAN
    BY <1>1
  <2> HIDE DEF r
  <2>6. Fired(i, kind, now, r)
    BY <1>2, <1>5, <1>7, <2>1, <2>2, <2>3 DEF Fired
  <2> QED BY <1>5, <2>4, <2>5, <2>6
<1> QED BY <1>6, <1>7

(* A delivery of t to tr stops at stage p, or is over.                     *)
Went(t, tr, p, r) ==
  LET old == task[t].pending
  IN  /\ r = [ref |-> r.ref, pending |-> r.pending] /\ r.ref = task[t].ref
      /\ DOMAIN r.pending = DOMAIN old
      /\ r.pending[tr] = [kind |-> old[tr].kind, pc |-> p]
      /\ \A o \in DOMAIN old \ {tr} : r.pending[o] = old[o]

Ended(t, tr, r) ==
  LET old == task[t].pending
  IN  /\ r = [ref |-> r.ref, pending |-> r.pending]
      /\ DOMAIN r.pending = DOMAIN old \ {tr}
      /\ IF DOMAIN r.pending = {} THEN r = Idle ELSE r.ref = task[t].ref
      /\ \A o \in DOMAIN old \ {tr} : r.pending[o] = old[o]

LEMMA WaitDoes ==
  ASSUME ClientsOK, NEW t \in Tasks, NEW pending, Wait(t, pending)
  PROVE  \E r : /\ task' = [task EXCEPT ![t] = r]
                /\ IF DOMAIN pending = {} THEN r = Idle
                   ELSE r = [ref |-> task[t].ref, pending |-> pending]
<1>1. task[t] = [ref |-> task[t].ref, pending |-> task[t].pending] /\ t \in DOMAIN task
  BY DEF ClientsOK, IsCall
<1>2. [task[t] EXCEPT !.pending = pending] = [ref |-> task[t].ref, pending |-> pending]
  <2> DEFINE a == task[t].ref
             b == task[t].pending
  <2>1. task[t] = [ref |-> a, pending |-> b]
    BY <1>1
  <2> HIDE DEF a, b
  <2>2. [[ref |-> a, pending |-> b] EXCEPT !.pending = pending] = [ref |-> a, pending |-> pending]
    OBVIOUS
  <2>3. [task[t] EXCEPT !.pending = pending] = [ref |-> a, pending |-> pending]
    BY <2>1, <2>2
  <2> QED BY <2>3 DEF a
<1>3. task' = [task EXCEPT ![t] =
        IF DOMAIN pending = {} THEN Idle ELSE [task[t] EXCEPT !.pending = pending]]
  BY <1>1 DEF Wait
<1> QED BY <1>2, <1>3

LEMMA AwaitDoes ==
  ASSUME ClientsOK, NEW t \in Tasks, NEW tr \in DOMAIN task[t].pending, NEW p,
         Await(t, tr, p)
  PROVE  \E r : task' = [task EXCEPT ![t] = r] /\ Went(t, tr, p, r)
<1> DEFINE old == task[t].pending
           new == [old EXCEPT ![tr].pc = p]
<1>1. old[tr] \in [kind : Kinds, pc : Stages]
  BY DEF ClientsOK, IsCall
<1>2. DOMAIN new = DOMAIN old /\ \A o \in DOMAIN old \ {tr} : new[o] = old[o]
  OBVIOUS
<1>3. new[tr] = [old[tr] EXCEPT !.pc = p]
  OBVIOUS
<1>4. new[tr] = [kind |-> old[tr].kind, pc |-> p]
  <2>1. old[tr] = [kind |-> old[tr].kind, pc |-> old[tr].pc]
    BY <1>1
  <2> QED BY <1>3, <2>1
<1> HIDE DEF new
<1>5. PICK r : /\ task' = [task EXCEPT ![t] = r]
               /\ IF DOMAIN new = {} THEN r = Idle
                  ELSE r = [ref |-> task[t].ref, pending |-> new]
  <2>1. Wait(t, new)
    BY DEF Await, new
  <2> QED BY <2>1, WaitDoes
<1>6. r = [ref |-> task[t].ref, pending |-> new]
  BY <1>2, <1>5
<1>7. r.ref = task[t].ref /\ r.pending = new
  BY <1>6
<1> QED BY <1>2, <1>4, <1>5, <1>6, <1>7 DEF Went

LEMMA FinishDoes ==
  ASSUME ClientsOK, NEW t \in Tasks, NEW tr \in DOMAIN task[t].pending, Finish(t, tr)
  PROVE  \E r : task' = [task EXCEPT ![t] = r] /\ Ended(t, tr, r)
<1> DEFINE old == task[t].pending
           new == [o \in DOMAIN old \ {tr} |-> old[o]]
<1>1. DOMAIN new = DOMAIN old \ {tr} /\ \A o \in DOMAIN old \ {tr} : new[o] = old[o]
  OBVIOUS
<1>2. Wait(t, new)
  BY DEF Finish
<1> HIDE DEF new
<1>3. PICK r : /\ task' = [task EXCEPT ![t] = r]
               /\ IF DOMAIN new = {} THEN r = Idle
                  ELSE r = [ref |-> task[t].ref, pending |-> new]
  BY <1>2, WaitDoes
<1>4. CASE DOMAIN new = {}
  <2>1. r = Idle /\ DOMAIN r.pending = {} /\ r = [ref |-> r.ref, pending |-> r.pending]
    BY <1>3, <1>4, IdleIs DEF IsCall
  <2> QED BY <1>1, <1>3, <1>4, <2>1 DEF Ended
<1>5. CASE DOMAIN new # {}
  <2>1. r = [ref |-> task[t].ref, pending |-> new]
    BY <1>3, <1>5
  <2>2. r.ref = task[t].ref /\ r.pending = new
    BY <2>1
  <2> QED BY <1>1, <1>3, <1>5, <2>1, <2>2 DEF Ended
<1> QED BY <1>4, <1>5

-----------------------------------------------------------------------------
(* A tracker owes a use of i for what it holds, what its open or close     *)
(* tells of and what the deliveries to it tell of.                         *)
InHandOf(l, w, i) ==
  (IF i \in Range(l) THEN 1 ELSE 0)
  + (IF w.pc \in {"adding", "removing"} /\ w.ref = i THEN 1 ELSE 0)

InHand(tr, i) == InHandOf(tracked[tr], opener[tr], i)

Tells(r, tr, i) ==
  r.ref = i /\ tr \in DOMAIN r.pending /\ r.pending[tr].pc \in {"adding", "removing"}

Telling(tr, i) == {t \in Tasks : Tells(task[t], tr, i)}

OwedSplits ==
  \A tr \in Trackers, i \in Ids :
    /\ Owed(tr, i) = InHand(tr, i) + Cardinality(Telling(tr, i))
    /\ InHand(tr, i) \in Nat /\ Cardinality(Telling(tr, i)) \in Nat
    /\ IsFiniteSet(Telling(tr, i))

LEMMA OwedIs == TrackersOK => OwedSplits
<1> SUFFICES ASSUME TrackersOK, NEW tr \in Trackers, NEW i \in Ids
             PROVE  /\ Owed(tr, i) = InHand(tr, i) + Cardinality(Telling(tr, i))
                    /\ InHand(tr, i) \in Nat /\ Cardinality(Telling(tr, i)) \in Nat
                    /\ IsFiniteSet(Telling(tr, i))
  BY DEF OwedSplits
<1>1. Contains(tracked[tr], i) <=> i \in Range(tracked[tr])
  BY ListTypes DEF TrackersOK
<1>2. Telling(tr, i) = {t \in Tasks : /\ task[t].ref = i
                                      /\ \E p \in {"adding", "removing"} : Awaited(t, tr, p)}
  BY DEF Telling, Tells, Awaited
<1>3. InHand(tr, i) = (IF Contains(tracked[tr], i) THEN 1 ELSE 0)
        + (IF opener[tr].pc \in {"adding", "removing"} /\ opener[tr].ref = i THEN 1 ELSE 0)
  BY <1>1 DEF InHand, InHandOf
<1>4. Owed(tr, i) = InHand(tr, i) + Cardinality(Telling(tr, i))
  BY <1>2, <1>3 DEF Owed
<1>5. IsFiniteSet(Telling(tr, i))
  <2>1. Telling(tr, i) \subseteq Tasks
    BY DEF Telling
  <2> QED BY <2>1, TrackerAssumption, FS_Subset
<1>6. Cardinality(Telling(tr, i)) \in Nat
  BY <1>5, FS_CardinalityType
<1>7. InHand(tr, i) \in Nat
  BY DEF InHand, InHandOf
<1> QED BY <1>4, <1>5, <1>6, <1>7

LEMMA OwedIsNext == TrackersOK' => OwedSplits'
BY OwedIs, PTL

(* What an action may add to what is owed is what it adds to the uses.     *)
UsesKept ==
  \A tr \in Trackers, i \in Ids :
    LET owes == InHand(tr, i)' + Cardinality(Telling(tr, i)') + using[tr][i]
        owed == InHand(tr, i) + Cardinality(Telling(tr, i)) + using'[tr][i]
    IN  owes <= owed /\ (~disturbed' => owes = owed)

LEMMA UsesFollow ==
  ASSUME RegOK, RegOK', TrackersOK, TrackersOK', UsesKept,
         UsesCovered, ~disturbed => UsesExact, ~disturbed' => ~disturbed
  PROVE  UsesCovered' /\ (~disturbed' => UsesExact')
<1>1. ASSUME NEW tr \in Trackers, NEW i \in Ids
      PROVE  /\ Owed(tr, i)' <= using'[tr][i]
             /\ ~disturbed' => Owed(tr, i)' = using'[tr][i]
  <2> DEFINE a == InHand(tr, i)
             b == Cardinality(Telling(tr, i))
             c == InHand(tr, i)'
             d == Cardinality(Telling(tr, i)')
             u == using[tr][i]
             v == using'[tr][i]
  <2>1. Owed(tr, i) = a + b /\ a \in Nat /\ b \in Nat
    BY OwedIs DEF OwedSplits
  <2>2. Owed(tr, i)' = c + d /\ c \in Nat /\ d \in Nat
    BY OwedIsNext DEF OwedSplits
  <2>3. u \in Nat /\ v \in Nat
    BY DEF RegOK
  <2>4. c + d + u <= a + b + v /\ (~disturbed' => c + d + u = a + b + v)
    BY DEF UsesKept
  <2>5. Owed(tr, i) <= u
    BY DEF UsesCovered
  <2>6. ~disturbed' => Owed(tr, i) = u
    BY DEF UsesExact
  <2> HIDE DEF a, b, c, d, u, v
  <2> QED BY <2>1, <2>2, <2>3, <2>4, <2>5, <2>6 DEF v
<1> QED BY <1>1 DEF UsesCovered, UsesExact

-----------------------------------------------------------------------------
(***************************************************************************)
(* A step of the open or close of tr: its walk is w and its list l then,   *)
(* and nothing moves outside of it.                                        *)
(***************************************************************************)
Elsewhere == UNCHANGED <<task, props, services, classIndex, reference, resorted>>

WalkerStep(tr, w, l) ==
  /\ opener' = [opener EXCEPT ![tr] = w] /\ w \in Walks
  /\ tracked' = [tracked EXCEPT ![tr] = l] /\ l \in Seq(IssuedIds)
  /\ listening' = IF w.pc \in {"open", "adding"} THEN listening \union {tr}
                  ELSE listening \ {tr}
  /\ w.pc \in {"adding", "removing"} => w.ref \in IssuedIds
  /\ Elsewhere
  /\ disturbed' \in BOOLEAN /\ (~disturbed' => ~disturbed /\ Calling = {})
  /\ \A o \in Trackers, j \in Ids : o # tr => using'[o][j] = using[o][j]
  /\ \A j \in Ids :
       LET owes == InHandOf(l, w, j) + using[tr][j]
           owed == InHand(tr, j) + using'[tr][j]
       IN  owes <= owed /\ (~disturbed' => owes = owed)
  /\ ~disturbed' => TrackerCalm(tr)'

LEMMA SameIssued ==
  ASSUME reference' = reference
  PROVE  IssuedIds' = IssuedIds /\ \A i, j : Before(i, j)' <=> Before(i, j)
BY DEF IssuedIds, Registry!Issued, Before, Registry!Less, Registry!SortValue

LEMMA WalkerTypes ==
  ASSUME Types, NEW tr \in Trackers, NEW w, NEW l, WalkerStep(tr, w, l)
  PROVE  Types'
<1>1. IssuedIds' = IssuedIds
  BY SameIssued DEF WalkerStep, Elsewhere
<1>2. TrackersOK'
  <2>1. tracked' \in [Trackers -> Seq(IssuedIds')] /\ opener' \in [Trackers -> Walks']
    <3>1. Walks' = Walks
      BY <1>1 DEF Walks
    <3> QED BY <1>1, <3>1 DEF Types, TrackersOK, WalkerStep
  <2>2. opener'[tr] = w /\ \A o \in Trackers : o # tr => opener'[o] = opener[o]
    BY DEF Types, TrackersOK, WalkerStep
  <2>3. listening' = {o \in Trackers : opener'[o].pc \in {"open", "adding"}}
    BY <2>2 DEF Types, TrackersOK, WalkerStep
  <2>4. \A o \in Walking' : opener'[o].ref \in IssuedIds'
    BY <1>1, <2>2 DEF Types, TrackersOK, WalkerStep, Walking
  <2> QED BY <2>1, <2>3, <2>4 DEF TrackersOK
<1>3. ClientsOK'
  BY <1>1 DEF Types, ClientsOK, IsCall, WalkerStep, Elsewhere
<1> QED BY <1>2, <1>3 DEF Types, WalkerStep, Elsewhere

LEMMA WalkerUses ==
  ASSUME Types, RegOK, RegOK', NEW tr \in Trackers, NEW w, NEW l, WalkerStep(tr, w, l)
  PROVE  UsesKept
<1> SUFFICES ASSUME NEW o \in Trackers, NEW j \in Ids
             PROVE  LET owes == InHand(o, j)' + Cardinality(Telling(o, j)') + using[o][j]
                        owed == InHand(o, j) + Cardinality(Telling(o, j)) + using'[o][j]
                    IN  owes <= owed /\ (~disturbed' => owes = owed)
  BY DEF UsesKept
<1> DEFINE n == Cardinality(Telling(o, j))
           u == using[o][j]
           v == using'[o][j]
<1>1. Telling(o, j)' = Telling(o, j)
  BY DEF Telling, Tells, WalkerStep, Elsewhere
<1>2. Cardinality(Telling(o, j)') = n
  BY <1>1
<1>3. n \in Nat /\ InHand(o, j) \in Nat /\ u \in Nat /\ v \in Nat
  BY OwedIs DEF OwedSplits, Types, RegOK
<1>4. CASE o # tr
  <2>1. opener'[o] = opener[o] /\ tracked'[o] = tracked[o] /\ v = u
    BY <1>4 DEF WalkerStep, Types, TrackersOK
  <2>2. InHand(o, j)' = InHand(o, j)
    BY <2>1 DEF InHand
  <2> HIDE DEF n, u, v
  <2> QED BY <1>2, <1>3, <2>1, <2>2 DEF n, u, v
<1>5. CASE o = tr
  <2>1. opener'[o] = w /\ tracked'[o] = l
    BY <1>5 DEF WalkerStep, Types, TrackersOK
  <2>2. InHand(o, j)' = InHandOf(l, w, j)
    BY <2>1 DEF InHand
  <2>3. InHandOf(l, w, j) \in Nat
    BY DEF InHandOf
  <2>4. /\ InHandOf(l, w, j) + u <= InHand(o, j) + v
        /\ ~disturbed' => InHandOf(l, w, j) + u = InHand(o, j) + v
    BY <1>5 DEF WalkerStep
  <2> HIDE DEF n, u, v
  <2> QED BY <1>2, <1>3, <2>2, <2>3, <2>4 DEF n, u, v
<1> QED BY <1>4, <1>5

LEMMA CallingIs ==
  ASSUME ClientsOK, NEW t \in Tasks
  PROVE  t \in Calling <=> DOMAIN task[t].pending # {}
BY IdleIs DEF Calling, ClientsOK, IsCall

LEMMA WalkerCalm ==
  ASSUME Types, ~disturbed => Calm, NEW tr \in Trackers, NEW w, NEW l,
         WalkerStep(tr, w, l), ~disturbed', UsesExact'
  PROVE  Calm'
<1>1. ~disturbed /\ Calling = {} /\ Calm
  BY DEF WalkerStep
<1>2. \A t \in Tasks : DOMAIN task'[t].pending = {}
  BY <1>1, CallingIs DEF Types, WalkerStep, Elsewhere
<1>3. Apart'
  <2>1. Calling' = {}
    BY <1>1 DEF Calling, WalkerStep, Elsewhere
  <2> QED BY <2>1 DEF Apart
<1>4. ASSUME NEW o \in Trackers PROVE TrackerCalm(o)'
  <2>1. CASE o = tr
    BY <2>1 DEF WalkerStep
  <2>2. CASE o # tr
    <3>1. opener'[o] = opener[o] /\ tracked'[o] = tracked[o]
      BY <2>2 DEF WalkerStep, Types, TrackersOK
    <3>2. Ascends(tracked[o])' <=> Ascends(tracked[o])
      BY <3>1, SameIssued DEF Ascends, WalkerStep, Elsewhere
    <3>3. Left(opener[o])' = Left(opener[o])
      BY <3>1 DEF Left, WalkerStep, Elsewhere
    <3>4. Matching(o)' = Matching(o) /\ Held(o)' = Held(o)
      BY <3>1 DEF Matching, Matches, Held, WalkerStep, Elsewhere
    <3>5. WalkRight(o)' <=> WalkRight(o)
      <4>1. AddingRight(o)' <=> AddingRight(o)
        BY <3>1, <3>3, <3>4, SameIssued DEF AddingRight, Ascends, WalkerStep, Elsewhere
      <4>2. RemovingRight(o)' <=> RemovingRight(o)
        BY <3>1, <3>4 DEF RemovingRight
      <4> QED BY <3>1, <4>1, <4>2 DEF WalkRight
    <3>6. Following(o)' <=> Following(o)
      BY <3>1, <3>4 DEF Following, Matches, WalkerStep, Elsewhere
    <3> QED BY <1>1, <3>2, <3>5, <3>6 DEF TrackerCalm, Calm
  <2> QED BY <2>1, <2>2
<1>5. \A t \in Tasks : \A o \in DOMAIN task'[t].pending : DeliveryRight(t, o)'
  BY <1>2
<1> QED BY <1>3, <1>4, <1>5 DEF Calm

LEMMA WalkerKeeps ==
  ASSUME RegOK, RegOK', IInv, NEW tr \in Trackers, NEW w, NEW l, WalkerStep(tr, w, l)
  PROVE  IInv'
<1>1. Types /\ UsesCovered /\ (~disturbed => Calm)
  BY DEF IInv
<1>2. Types'
  BY <1>1, WalkerTypes
<1>3. UsesKept
  BY <1>1, WalkerUses
<1>4. UsesCovered' /\ (~disturbed' => UsesExact')
  <2>1. ~disturbed => UsesExact
    BY <1>1 DEF Calm
  <2>2. ~disturbed' => ~disturbed
    BY DEF WalkerStep
  <2> QED BY <1>1, <1>2, <1>3, <2>1, <2>2, UsesFollow DEF Types
<1>5. ASSUME ~disturbed' PROVE Calm'
  BY <1>1, <1>4, <1>5, WalkerCalm
<1> QED BY <1>2, <1>4, <1>5 DEF IInv

-----------------------------------------------------------------------------
(* What each action of open and close does.                                *)
LEMMA SameAt ==
  ASSUME NEW S, NEW T, NEW f \in [S -> T], NEW x \in S
  PROVE  [f EXCEPT ![x] = f[x]] = f
<1> DEFINE g == [f EXCEPT ![x] = f[x]]
<1>1. g \in [S -> T] /\ \A y \in S : g[y] = f[y]
  OBVIOUS
<1>2. g = [y \in S |-> g[y]] /\ f = [y \in S |-> f[y]]
  BY <1>1
<1> HIDE DEF g
<1>3. [y \in S |-> g[y]] = [y \in S |-> f[y]]
  BY <1>1
<1> QED BY <1>2, <1>3 DEF g

LEMMA ListHead ==
  ASSUME NEW s \in Seq(IssuedIds), s # <<>>
  PROVE  /\ Head(s) \in IssuedIds /\ Tail(s) \in Seq(IssuedIds)
         /\ Range(s) = {Head(s)} \union Range(Tail(s))
         /\ Ascends(s) => /\ Ascends(Tail(s))
                          /\ \A i \in Range(Tail(s)) : Before(Head(s), i)
<1> DEFINE n == Len(s)
           r == Tail(s)
<1>1. /\ Head(s) = s[1] /\ r \in Seq(IssuedIds) /\ Len(r) = n - 1
      /\ \A k \in 1..(n - 1) : r[k] = s[k + 1]
  BY HeadTailProperties
<1>2. n \in Nat /\ n # 0 /\ s \in [1..n -> IssuedIds]
  BY LenProperties, EmptySeq
<1>3. DOMAIN s = 1..n /\ DOMAIN r = 1..(n - 1)
  BY <1>1, LenProperties
<1> HIDE DEF n, r
<1>4. Head(s) \in IssuedIds
  BY <1>1, <1>2
<1>5. Range(s) = {Head(s)} \union Range(r)
  <2>1. \A k \in 1..n : k = 1 \/ (k - 1 \in 1..(n - 1) /\ s[k] = r[k - 1])
    BY <1>1, <1>2
  <2>2. \A k \in 1..(n - 1) : k + 1 \in 1..n /\ s[k + 1] = r[k]
    BY <1>1, <1>2
  <2>3. \A i \in Range(s) : i \in {Head(s)} \union Range(r)
    BY <1>1, <1>3, <2>1 DEF Range
  <2>4. \A i \in Range(r) : i \in Range(s)
    BY <1>3, <2>2 DEF Range
  <2>5. Head(s) \in Range(s)
    BY <1>1, <1>2, <1>3 DEF Range
  <2> QED BY <2>3, <2>4, <2>5
<1>6. ASSUME Ascends(s) PROVE Ascends(r) /\ \A i \in Range(r) : Before(Head(s), i)
  <2>1. \A j, k \in 1..n : j < k => Before(s[j], s[k])
    BY <1>6 DEF Ascends, n
  <2>2. \A k \in 1..(n - 1) : k + 1 \in 1..n /\ 1 \in 1..n /\ 1 < k + 1
    BY <1>2
  <2>3. \A k \in 1..(n - 1) : Before(s[1], r[k])
    BY <1>1, <2>1, <2>2
  <2>4. \A j, k \in 1..(n - 1) : j < k => Before(r[j], r[k])
    <3> SUFFICES ASSUME NEW j \in 1..(n - 1), NEW k \in 1..(n - 1), j < k
                 PROVE  Before(r[j], r[k])
      OBVIOUS
    <3>1. j + 1 \in 1..n /\ k + 1 \in 1..n /\ j + 1 < k + 1
      BY <1>2
    <3>2. Before(s[j + 1], s[k + 1])
      BY <2>1, <3>1
    <3> QED BY <1>1, <3>2
  <2> QED BY <1>1, <1>3, <2>3, <2>4 DEF Ascends, Range
<1> QED BY <1>1, <1>4, <1>5, <1>6 DEF r

(* What open begins with: all services that the query matches, in order.   *)
LEMMA InitialIs ==
  ASSUME RegOK, Types, NEW tr \in Trackers
  PROVE  LET walk == InitialReferences(tr)
         IN  /\ walk \in Walks /\ Left(walk) \in Seq(IssuedIds)
             /\ Ascends(Left(walk)) /\ Range(Left(walk)) = Matching(tr)
<1> DEFINE c == classIndex[Class]
           S == {i \in Range(c) : Matches(tr, i)}
           walk == InitialReferences(tr)
<1>1. c \in Seq(IssuedIds) /\ Range(c) = services /\ Ascends(c)
  BY DEF RegOK, Types, Ascends
<1>2. S = Matching(tr) /\ S \in SUBSET IssuedIds
  <2>1. S = Matching(tr)
    BY <1>1 DEF Matching
  <2>2. services \subseteq IssuedIds
    BY DEF RegOK
  <2> QED BY <1>1, <2>1, <2>2
<1>3. Opened \in Walks /\ Opened.at = 1 /\ ~Opened.live
  BY ClosedAndOpened DEF Opened, Closed
<1> HIDE DEF c, S
<1>4. CASE Query[tr] = Properties /\ c # <<>>
  <2>1. walk = [Opened EXCEPT !.live = TRUE]
    BY <1>4 DEF InitialReferences, c
  <2>2. walk \in Walks /\ walk.live /\ walk.at = 1
    <3> HIDE DEF walk
    <3>1. \A w \in Walks : LET v == [w EXCEPT !.live = TRUE]
                           IN  v \in Walks /\ v.live /\ v.at = w.at
      BY DEF Walks
    <3> QED BY <1>3, <2>1, <3>1
  <2>3. Len(c) \in Nat /\ c \in [1..Len(c) -> IssuedIds]
    BY <1>1, LenProperties
  <2>4. SubSeq(c, 1, Len(c)) = c
    BY <1>1, SubSeqFull
  <2>5. Left(walk) = c
    BY <2>2, <2>4 DEF Left, c
  <2>6. services = Matching(tr)
    <3>1. services \subseteq Ids
      BY DEF RegOK, IssuedIds
    <3> QED BY <1>4, <3>1 DEF Matching, Matches, Types
  <2> QED BY <1>1, <2>2, <2>5, <2>6
<1>5. CASE ~(Query[tr] = Properties /\ c # <<>>)
  <2>1. walk = [Opened EXCEPT !.rest = Ordered(S)]
    BY <1>5 DEF InitialReferences, c, S
  <2>2. Ordered(S) \in Seq(IssuedIds) /\ Ascends(Ordered(S)) /\ Range(Ordered(S)) = S
    BY <1>2, OrderedIs
  <2>3. walk \in Walks /\ ~walk.live /\ walk.rest = Ordered(S)
    <3> DEFINE o == Ordered(S)
    <3>1. \A w \in Walks, s \in Seq(IssuedIds) :
            LET v == [w EXCEPT !.rest = s]
            IN  v \in Walks /\ v.live = w.live /\ v.rest = s
      BY DEF Walks
    <3> HIDE DEF walk
    <3> QED BY <1>3, <2>1, <2>2, <3>1
  <2>4. Left(walk) = Ordered(S)
    BY <2>3 DEF Left
  <2> QED BY <1>2, <2>2, <2>3, <2>4
<1> QED BY <1>4, <1>5

(* The loop of open goes on with the list l in hand.                       *)
LEMMA WalkedUses ==
  ASSUME RegOK, RegOK', NEW tr \in Trackers, NEW walk, NEW w, NEW l, NEW h \in [Ids -> Nat],
         Left(walk) \in Seq(IssuedIds), Walked(tr, walk, w),
         \A j \in Ids : (IF j \in Range(l) THEN 1 ELSE 0) <= h[j],
         ~disturbed' =>
                 /\ \A j \in Ids : (IF j \in Range(l) THEN 1 ELSE 0) = h[j]
                 /\ Range(Left(walk)) \subseteq services
  PROVE  /\ \A o \in Trackers, j \in Ids : o # tr => using'[o][j] = using[o][j]
         /\ \A j \in Ids :
              LET owes == InHandOf(l, w, j) + using[tr][j]
                  owed == h[j] + using'[tr][j]
              IN  owes <= owed /\ (~disturbed' => owes = owed)
<1> DEFINE i == Head(Left(walk))
<1>1. \A o \in Trackers, j \in Ids : using[o][j] \in Nat /\ using'[o][j] \in Nat
  BY DEF RegOK
<1>2. CASE Left(walk) = <<>> /\ w.pc = "open" /\ using' = using
  <2>1. \A j \in Ids : InHandOf(l, w, j) = IF j \in Range(l) THEN 1 ELSE 0
    BY <1>2 DEF InHandOf
  <2> QED BY <1>1, <1>2, <2>1
<1>3. CASE /\ Left(walk) # <<>> /\ i \in IssuedIds
           /\ \A o \in Trackers, j \in Ids : using'[o][j] =
                IF o = tr /\ j = i THEN using[o][j] + 1 ELSE using[o][j]
           /\ IF i \in services
              THEN w.pc = "adding" /\ w.ref = i /\ Left(w) = Tail(Left(walk))
              ELSE w.pc = "open"
  <2>1. ~disturbed' => i \in services
    BY <1>3, ListHead
  <2> HIDE DEF i
  <2>2. \A j \in Ids : InHandOf(l, w, j) =
          (IF j \in Range(l) THEN 1 ELSE 0) + (IF i \in services /\ j = i THEN 1 ELSE 0)
    BY <1>3 DEF InHandOf
  <2>3. \A j \in Ids :
          LET owes == InHandOf(l, w, j) + using[tr][j]
              owed == h[j] + using'[tr][j]
          IN  owes <= owed /\ (~disturbed' => owes = owed)
    <3> SUFFICES ASSUME NEW j \in Ids
                 PROVE  LET owes == InHandOf(l, w, j) + using[tr][j]
                            owed == h[j] + using'[tr][j]
                        IN  owes <= owed /\ (~disturbed' => owes = owed)
      OBVIOUS
    <3> DEFINE x == IF j \in Range(l) THEN 1 ELSE 0
    <3>1. x \in Nat /\ x <= h[j] /\ (~disturbed' => x = h[j])
      OBVIOUS
    <3>2. InHandOf(l, w, j) = x + (IF i \in services /\ j = i THEN 1 ELSE 0)
      BY <2>2
    <3>3. using'[tr][j] = using[tr][j] + (IF j = i THEN 1 ELSE 0)
      BY <1>1, <1>3
    <3> HIDE DEF x
    <3> QED BY <1>1, <2>1, <3>1, <3>2, <3>3
  <2> QED BY <1>3, <2>3
<1> QED BY <1>2, <1>3 DEF Walked

LEMMA WalkedCalm ==
  ASSUME RegOK, NEW tr \in Trackers, NEW walk, NEW w, NEW l \in Seq(IssuedIds),
         Left(walk) \in Seq(IssuedIds), Walked(tr, walk, w), Elsewhere,
         opener'[tr] = w, tracked'[tr] = l, Ascends(l), Ascends(Left(walk)),
         \A i \in Range(l), j \in Range(Left(walk)) : Before(i, j),
         Range(l) \union Range(Left(walk)) = Matching(tr)
  PROVE  TrackerCalm(tr)'
<1>1. /\ \A s : Ascends(s)' <=> Ascends(s)
      /\ \A i, j : Before(i, j)' <=> Before(i, j)
  BY SameIssued DEF Ascends, Elsewhere
<1>2. Matching(tr)' = Matching(tr) /\ Held(tr)' = Range(l) /\ services' = services
  BY DEF Matching, Matches, Held, Elsewhere
<1>3. Ascends(tracked[tr])'
  BY <1>1
<1>4. CASE Left(walk) = <<>> /\ w.pc = "open"
  <2>1. Held(tr)' = Matching(tr)
    BY <1>2, <1>4, EmptySeq DEF Range
  <2>2. Following(tr)'
    <3>1. \A i \in Ids : (i \in Held(tr)' <=> i \in services') \/ ~Matches(tr, i)'
      BY <1>2, <2>1 DEF Matching, Matches, Elsewhere
    <3> QED BY <3>1 DEF Following
  <2>3. WalkRight(tr)'
    BY <1>4 DEF WalkRight
  <2> QED BY <1>3, <2>2, <2>3 DEF TrackerCalm
<1>5. CASE Left(walk) # <<>>
  <2> DEFINE i == Head(Left(walk))
             left == Tail(Left(walk))
  <2>1. /\ Range(Left(walk)) = {i} \union Range(left)
        /\ Ascends(left) /\ \A j \in Range(left) : Before(i, j)
    BY <1>5, ListHead
  <2>2. i \in services
    BY <2>1 DEF Matching
  <2>3. w.pc = "adding" /\ w.ref = i /\ Left(w) = left
    BY <1>5, <2>2 DEF Walked
  <2>4. Left(opener[tr])' = left
    BY <2>3 DEF Left, Elsewhere
  <2> HIDE DEF i, left
  <2>5. AddingRight(tr)'
    <3>1. \A j \in Held(tr)' : Before(j, i)
      BY <1>2, <2>1
    <3>2. Held(tr)' \union {i} \union Range(left) = Matching(tr)'
      BY <1>2, <2>1
    <3>3. opener'[tr].ref = i
      BY <2>3
    <3> QED BY <1>1, <2>1, <2>4, <3>1, <3>2, <3>3 DEF AddingRight
  <2>6. WalkRight(tr)' /\ Following(tr)'
    BY <2>3, <2>5 DEF WalkRight, Following
  <2> QED BY <1>3, <2>6 DEF TrackerCalm
<1> QED BY <1>4, <1>5 DEF Walked

LEMMA OpenDoes ==
  ASSUME RegOK, RegOK', IInv, NEW tr \in Trackers, Open(tr)
  PROVE  \E w, l : WalkerStep(tr, w, l)
<1> DEFINE walk == InitialReferences(tr)
           l == tracked[tr]
           h == [j \in Ids |-> InHand(tr, j)]
<1>1. Types /\ (~disturbed => Calm)
  BY DEF IInv
<1>2. /\ walk \in Walks /\ Left(walk) \in Seq(IssuedIds)
      /\ Ascends(Left(walk)) /\ Range(Left(walk)) = Matching(tr)
  BY <1>1, InitialIs
<1> HIDE DEF walk
<1>3. WalkOn(tr, walk) /\ opener[tr].pc = "closed" /\ listening' = listening \union {tr}
  BY DEF Open, walk
<1>4. services' = services /\ classIndex' = classIndex /\ Unchanging
  BY <1>1, <1>2, <1>3, WalkOnDoes DEF Types
<1>5. PICK w \in Walks : opener' = [opener EXCEPT ![tr] = w] /\ Walked(tr, walk, w)
  BY <1>1, <1>2, <1>3, WalkOnDoes DEF Types
<1>6. Elsewhere
  BY <1>4 DEF Elsewhere, Unchanging, Open, clientVars
<1>7. /\ l \in Seq(IssuedIds) /\ tracked' = [tracked EXCEPT ![tr] = l]
      /\ opener'[tr] = w /\ tracked'[tr] = l
  <2>1. tracked \in [Trackers -> Seq(IssuedIds)] /\ opener \in [Trackers -> Walks]
    BY <1>1 DEF Types, TrackersOK
  <2>2. tracked' = tracked
    BY DEF Open
  <2> QED BY <1>5, <2>1, <2>2, SameAt
<1>8. w.pc \in {"open", "adding"} /\ (w.pc = "adding" => w.ref \in IssuedIds)
  BY <1>5 DEF Walked
<1>9. disturbed' \in BOOLEAN /\ (~disturbed' => ~disturbed /\ Calling = {})
  BY <1>1 DEF Open, Types
<1>10. \A j \in Ids : h[j] = (IF j \in Range(l) THEN 1 ELSE 0) /\ h[j] \in Nat
  BY <1>3 DEF InHand, InHandOf
<1>11. /\ \A o \in Trackers, j \in Ids : o # tr => using'[o][j] = using[o][j]
       /\ \A j \in Ids :
            LET owes == InHandOf(l, w, j) + using[tr][j]
                owed == InHand(tr, j) + using'[tr][j]
            IN  owes <= owed /\ (~disturbed' => owes = owed)
  <2>1. h \in [Ids -> Nat] /\ \A j \in Ids : h[j] = InHand(tr, j)
    BY <1>10
  <2>2. \A j \in Ids : /\ (IF j \in Range(l) THEN 1 ELSE 0) <= h[j]
                       /\ (IF j \in Range(l) THEN 1 ELSE 0) = h[j]
    BY <1>10
  <2>3. Range(Left(walk)) \subseteq services
    BY <1>2 DEF Matching
  <2> HIDE DEF h
  <2>5. /\ \A o \in Trackers, j \in Ids : o # tr => using'[o][j] = using[o][j]
        /\ \A j \in Ids :
             LET owes == InHandOf(l, w, j) + using[tr][j]
                 owed == h[j] + using'[tr][j]
             IN  owes <= owed /\ (~disturbed' => owes = owed)
    BY <1>2, <1>5, <2>1, <2>2, <2>3, WalkedUses
  <2> QED BY <2>1, <2>5
<1>12. ASSUME ~disturbed' PROVE TrackerCalm(tr)'
  <2>1. l = <<>>
    BY <1>1, <1>3, <1>9, <1>12 DEF Calm, TrackerCalm, WalkRight
  <2>2. Range(l) = {} /\ Ascends(l)
    BY <2>1, EmptySeq DEF Range, Ascends
  <2> QED BY <1>2, <1>5, <1>6, <1>7, <2>2, WalkedCalm
<1> HIDE DEF l
<1>13. WalkerStep(tr, w, l)
  BY <1>3, <1>5, <1>6, <1>7, <1>8, <1>9, <1>11, <1>12 DEF WalkerStep
<1> QED BY <1>13

LEMMA EnteredIs ==
  ASSUME TrackersOK, NEW tr \in Trackers, NEW i \in IssuedIds
  PROVE  /\ Entered(tr, i) \in Seq(IssuedIds)
         /\ Range(Entered(tr, i)) = Held(tr) \union {i}
         /\ i \notin Held(tr) /\ Ascends(tracked[tr]) /\ (\A j \in Held(tr) : Before(j, i))
              => Ascends(Entered(tr, i))
<1> DEFINE s == tracked[tr]
           n == Len(s)
           e == Append(s, i)
<1>1. s \in Seq(IssuedIds) /\ n \in Nat /\ DOMAIN s = 1..n
  BY ListTypes DEF TrackersOK
<1>2. Contains(s, i) <=> i \in Held(tr)
  BY <1>1, ListTypes DEF Held
<1>3. CASE i \in Held(tr)
  BY <1>1, <1>2, <1>3 DEF Entered, Held
<1>4. CASE i \notin Held(tr)
  <2>1. Entered(tr, i) = e
    BY <1>2, <1>4 DEF Entered
  <2>2. /\ e \in Seq(IssuedIds) /\ Len(e) = n + 1
        /\ \A k \in 1..n : e[k] = s[k]
        /\ e[n + 1] = i
    BY <1>1, AppendProperties
  <2>3. DOMAIN e = 1..(n + 1)
    BY <2>2, ListTypes
  <2>4. Held(tr) = Range(s)
    BY DEF Held
  <2> HIDE DEF e, n, s
  <2>5. Range(e) = Held(tr) \union {i}
    <3>1. \A k \in 1..(n + 1) : k \in 1..n \/ k = n + 1
      BY <1>1
    <3>2. \A k \in 1..n : k \in 1..(n + 1)
      BY <1>1
    <3>3. n + 1 \in 1..(n + 1)
      BY <1>1
    <3> QED BY <1>1, <2>2, <2>3, <2>4, <3>1, <3>2, <3>3 DEF Range
  <2>6. ASSUME Ascends(s), \A j \in Held(tr) : Before(j, i)
        PROVE  Ascends(e)
    <3> SUFFICES ASSUME NEW j \in 1..(n + 1), NEW k \in 1..(n + 1), j < k
                 PROVE  Before(e[j], e[k])
      BY <2>2 DEF Ascends
    <3>1. j \in 1..n /\ e[j] = s[j] /\ s[j] \in Held(tr)
      BY <1>1, <2>2, <2>4 DEF Range
    <3>2. CASE k = n + 1
      BY <2>2, <2>6, <3>1, <3>2
    <3>3. CASE k # n + 1
      <4>1. k \in 1..n /\ e[k] = s[k]
        BY <1>1, <2>2, <3>3
      <4> QED BY <2>6, <3>1, <4>1 DEF Ascends, n
    <3> QED BY <3>2, <3>3
  <2> QED BY <2>1, <2>2, <2>5, <2>6 DEF s
<1> QED BY <1>3, <1>4

LEMMA InitialAddedDoes ==
  ASSUME RegOK, RegOK', IInv, NEW tr \in Trackers, InitialAdded(tr)
  PROVE  \E w, l : WalkerStep(tr, w, l)
<1> DEFINE walk == opener[tr]
           ref == walk.ref
           l == Entered(tr, ref)
           h == [j \in Ids |-> InHand(tr, j)]
<1>1. Types /\ (~disturbed => Calm)
  BY DEF IInv
<1>2. tracked \in [Trackers -> Seq(IssuedIds)] /\ opener \in [Trackers -> Walks]
  BY <1>1 DEF Types, TrackersOK
<1>3. /\ walk \in Walks /\ walk.pc = "adding" /\ WalkOn(tr, walk)
      /\ tracked' = [tracked EXCEPT ![tr] = l] /\ listening' = listening
  BY <1>2 DEF InitialAdded
<1>4. tr \in Walking /\ tr \in listening /\ ref \in IssuedIds
  BY <1>1, <1>3 DEF Walking, Types, TrackersOK
<1>5. Left(walk) \in Seq(IssuedIds)
  BY <1>1, <1>3, LeftTypes DEF Types
<1>6. services' = services /\ classIndex' = classIndex /\ Unchanging
  BY <1>1, <1>3, WalkOnDoes DEF Types
<1>7. PICK w \in Walks : opener' = [opener EXCEPT ![tr] = w] /\ Walked(tr, walk, w)
  BY <1>1, <1>3, WalkOnDoes DEF Types
<1>8. Elsewhere
  BY <1>6 DEF Elsewhere, Unchanging, InitialAdded, clientVars
<1>9. /\ l \in Seq(IssuedIds) /\ Range(l) = Held(tr) \union {ref}
      /\ ref \notin Held(tr) /\ Ascends(tracked[tr]) /\ (\A j \in Held(tr) : Before(j, ref))
           => Ascends(l)
  BY <1>1, <1>4, EnteredIs DEF Types
<1>10. opener'[tr] = w /\ tracked'[tr] = l
  BY <1>2, <1>3, <1>7
<1>11. w.pc \in {"open", "adding"} /\ (w.pc = "adding" => w.ref \in IssuedIds)
  BY <1>7 DEF Walked
<1>12. disturbed' = disturbed
  BY DEF InitialAdded
<1>13. ASSUME ~disturbed
       PROVE  /\ Calling = {} /\ AddingRight(tr) /\ Ascends(tracked[tr])
              /\ ref \notin Held(tr)
  <2>1. Calling = {} /\ AddingRight(tr) /\ Ascends(tracked[tr])
    BY <1>1, <1>3, <1>4, <1>13 DEF Calm, Apart, TrackerCalm, WalkRight
  <2>2. ~Before(ref, ref)
    BY <1>4, BeforeOrders, PrecedenceIs DEF Orders
  <2> QED BY <2>1, <2>2 DEF AddingRight
<1>14. listening' = listening \union {tr}
  BY <1>3, <1>4
<1> HIDE DEF l, ref
<1>15. /\ \A o \in Trackers, j \in Ids : o # tr => using'[o][j] = using[o][j]
       /\ \A j \in Ids :
            LET owes == InHandOf(l, w, j) + using[tr][j]
                owed == InHand(tr, j) + using'[tr][j]
            IN  owes <= owed /\ (~disturbed' => owes = owed)
  <2>1. \A j \in Ids : InHand(tr, j) =
          (IF j \in Held(tr) THEN 1 ELSE 0) + (IF j = ref THEN 1 ELSE 0)
    BY <1>3 DEF InHand, InHandOf, Held, ref
  <2>2. h \in [Ids -> Nat] /\ \A j \in Ids : h[j] = InHand(tr, j)
    BY <2>1
  <2> HIDE DEF h
  <2>3. \A j \in Ids : /\ (IF j \in Range(l) THEN 1 ELSE 0) <= h[j]
                       /\ ref \notin Held(tr) => (IF j \in Range(l) THEN 1 ELSE 0) = h[j]
    BY <1>9, <2>1, <2>2
  <2>4. ~disturbed' =>
          /\ \A j \in Ids : (IF j \in Range(l) THEN 1 ELSE 0) = h[j]
          /\ Range(Left(walk)) \subseteq services
    BY <1>12, <1>13, <2>3 DEF AddingRight, Matching
  <2>5. \A j \in Ids : (IF j \in Range(l) THEN 1 ELSE 0) <= h[j]
    BY <2>3
  <2>6. /\ \A o \in Trackers, j \in Ids : o # tr => using'[o][j] = using[o][j]
        /\ \A j \in Ids :
             LET owes == InHandOf(l, w, j) + using[tr][j]
                 owed == h[j] + using'[tr][j]
             IN  owes <= owed /\ (~disturbed' => owes = owed)
    <3> HIDE DEF walk
    <3> QED BY <1>5, <1>7, <2>2, <2>4, <2>5, WalkedUses
  <2> QED BY <2>2, <2>6
<1>16. ASSUME ~disturbed' PROVE TrackerCalm(tr)'
  <2>1. AddingRight(tr) /\ Ascends(tracked[tr]) /\ ref \notin Held(tr)
    BY <1>12, <1>13, <1>16
  <2>2. /\ \A i \in Held(tr) : Before(i, ref)
        /\ \A i \in Range(Left(walk)) : Before(ref, i)
        /\ Ascends(Left(walk))
        /\ Held(tr) \union {ref} \union Range(Left(walk)) = Matching(tr)
    BY <2>1 DEF AddingRight, ref
  <2> HIDE DEF walk
  <2>3. Ascends(l)
    BY <1>9, <2>1, <2>2
  <2>4. \A i, j, k \in IssuedIds : Before(i, j) /\ Before(j, k) => Before(i, k)
    BY BeforeOrders, PrecedenceIs DEF Orders
  <2>5. Held(tr) \subseteq IssuedIds /\ Range(Left(walk)) \subseteq IssuedIds
    BY <1>2, <1>5, ListTypes DEF Held
  <2>6. \A i \in Range(l), j \in Range(Left(walk)) : Before(i, j)
    BY <1>4, <1>9, <2>2, <2>4, <2>5
  <2>7. Range(l) \union Range(Left(walk)) = Matching(tr)
    BY <1>9, <2>2
  <2> QED BY <1>5, <1>7, <1>8, <1>9, <1>10, <2>2, <2>3, <2>6, <2>7, WalkedCalm
<1>17. disturbed' \in BOOLEAN /\ (~disturbed' => ~disturbed /\ Calling = {})
  BY <1>1, <1>12, <1>13 DEF Types
<1>18. WalkerStep(tr, w, l)
  BY <1>3, <1>7, <1>8, <1>9, <1>11, <1>14, <1>15, <1>16, <1>17 DEF WalkerStep
<1> QED BY <1>18

(* The exceptions of a listener end open and close where they are.         *)
LEMMA RaisesDoes ==
  ASSUME RegOK, RegOK', IInv, NEW tr \in Trackers,
         InitialAddRaises(tr) \/ ClosedRemoveRaises(tr)
  PROVE  \E w, l : WalkerStep(tr, w, l)
<1> DEFINE l == tracked[tr]
           w == IF InitialAddRaises(tr) THEN Opened ELSE Closed
<1>1. Types
  BY DEF IInv
<1>2. /\ w \in Walks /\ opener' = [opener EXCEPT ![tr] = w]
      /\ w.pc = IF InitialAddRaises(tr) THEN "open" ELSE "closed"
  BY ClosedAndOpened DEF InitialAddRaises, ClosedRemoveRaises
<1>3. l \in Seq(IssuedIds) /\ tracked' = [tracked EXCEPT ![tr] = l]
  <2>1. tracked \in [Trackers -> Seq(IssuedIds)] /\ tracked' = tracked
    BY <1>1 DEF Types, TrackersOK, InitialAddRaises, ClosedRemoveRaises
  <2> QED BY <2>1, SameAt
<1>4. listening' = listening /\ opener[tr].pc = IF InitialAddRaises(tr) THEN "adding" ELSE "removing"
  BY DEF InitialAddRaises, ClosedRemoveRaises
<1>5. listening' = IF w.pc \in {"open", "adding"} THEN listening \union {tr}
                   ELSE listening \ {tr}
  BY <1>1, <1>2, <1>4 DEF Types, TrackersOK
<1>6. Elsewhere /\ using' = using
  BY DEF Elsewhere, InitialAddRaises, ClosedRemoveRaises, clientVars, registryVars
<1>7. disturbed'
  BY DEF InitialAddRaises, ClosedRemoveRaises
<1>8. \A j \in Ids : InHandOf(l, w, j) <= InHand(tr, j) /\ InHandOf(l, w, j) \in Nat
                     /\ InHand(tr, j) \in Nat
  BY <1>2 DEF InHandOf, InHand
<1>9. disturbed' \in BOOLEAN
  BY DEF InitialAddRaises, ClosedRemoveRaises
<1> HIDE DEF l, w
<1>10. \A j \in Ids : using[tr][j] \in Nat
  BY DEF RegOK
<1>11. WalkerStep(tr, w, l)
  BY <1>2, <1>3, <1>5, <1>6, <1>7, <1>8, <1>9, <1>10 DEF WalkerStep
<1> QED BY <1>11

-----------------------------------------------------------------------------
(* close goes on: one reference less is tracked, which is in hand.         *)
LEMMA CloseOnGives ==
  ASSUME RegOK, Types, NEW tr \in Trackers, NEW refs \in Seq(IssuedIds),
         CloseOn(tr, refs)
  PROVE  \E w, l :
           /\ opener' = [opener EXCEPT ![tr] = w] /\ w \in Walks
           /\ tracked' = [tracked EXCEPT ![tr] = l] /\ l \in Seq(IssuedIds)
           /\ w.pc \in {"closed", "removing"}
           /\ w.pc = "removing" => w.ref \in IssuedIds
           /\ \A j \in Ids : InHandOf(l, w, j) = IF j \in Held(tr) THEN 1 ELSE 0
           /\ refs = tracked[tr] /\ Ascends(refs) =>
                /\ Ascends(l)
                /\ w.pc = "closed" => l = <<>>
                /\ w.pc = "removing" => l = w.rest /\ w.ref \notin Range(l)
<1>1. tracked \in [Trackers -> Seq(IssuedIds)] /\ opener \in [Trackers -> Walks]
  BY DEF Types, TrackersOK
<1>2. DOMAIN refs = 1..Len(refs) /\ Len(refs) \in Nat
  BY ListTypes
<1>3. CASE /\ Range(refs) \intersect Held(tr) = {}
           /\ opener' = [opener EXCEPT ![tr] = Closed] /\ tracked' = tracked
  <2> DEFINE l == tracked[tr]
             w == Closed
  <2>1. tracked' = [tracked EXCEPT ![tr] = l] /\ l \in Seq(IssuedIds)
    BY <1>1, <1>3, SameAt
  <2>2. w \in Walks /\ w.pc = "closed" /\ opener' = [opener EXCEPT ![tr] = w]
    BY <1>3, ClosedAndOpened
  <2>3. \A j \in Ids : InHandOf(l, w, j) = IF j \in Held(tr) THEN 1 ELSE 0
    BY <2>2 DEF InHandOf, Held
  <2>4. ASSUME refs = tracked[tr], Ascends(refs) PROVE Ascends(l) /\ l = <<>>
    <3>1. Range(refs) = {}
      BY <1>3, <2>4 DEF Held
    <3>2. Len(refs) = 0
      <4> SUFFICES ASSUME Len(refs) # 0 PROVE FALSE
        OBVIOUS
      <4>1. 1 \in DOMAIN refs
        BY <1>2
      <4> QED BY <3>1, <4>1 DEF Range
    <3> QED BY <2>4, <3>2, EmptySeq
  <2> HIDE DEF l, w
  <2> QED BY <2>1, <2>2, <2>3, <2>4
<1>4. ASSUME NEW k \in 1..Len(refs), NEW w \in Walks,
             refs[k] \in Held(tr), refs[k] \in IssuedIds,
             \A j \in 1..(k - 1) : refs[j] \notin Held(tr),
             tracked' = [tracked EXCEPT ![tr] = Untracked(tr, refs[k])],
             opener' = [opener EXCEPT ![tr] = w],
             w.pc = "removing", w.ref = refs[k], ~w.live,
             w.rest = SubSeq(refs, k + 1, Len(refs))
      PROVE  \E l :
               /\ tracked' = [tracked EXCEPT ![tr] = l] /\ l \in Seq(IssuedIds)
               /\ \A j \in Ids : InHandOf(l, w, j) = IF j \in Held(tr) THEN 1 ELSE 0
               /\ refs = tracked[tr] /\ Ascends(refs) =>
                    /\ Ascends(l)
                    /\ l = w.rest /\ w.ref \notin Range(l)
  <2> DEFINE l == Untracked(tr, refs[k])
  <2>1. l \in Seq(IssuedIds) /\ Ascends(l) /\ Range(l) = Held(tr) \ {refs[k]}
    BY UntrackedIs DEF Types
  <2>2. \A j \in Ids : InHandOf(l, w, j) = IF j \in Held(tr) THEN 1 ELSE 0
    <3> HIDE DEF l
    <3> QED BY <1>4, <2>1 DEF InHandOf
  <2>3. ASSUME refs = tracked[tr], Ascends(refs) PROVE l = w.rest
    <3>1. k = 1
      <4> SUFFICES ASSUME k # 1 PROVE FALSE
        OBVIOUS
      <4>1. 1 \in 1..(k - 1) /\ 1 \in DOMAIN refs
        BY <1>2
      <4> QED BY <1>4, <2>3, <4>1 DEF Held, Range
    <3>2. refs # <<>> /\ refs[1] = Head(refs)
      BY <1>2, <1>4, EmptySeq
    <3>3. w.rest = Tail(refs)
      <4>1. w.rest = SubSeq(refs, 2, Len(refs))
        BY <1>4, <3>1
      <4> QED BY <3>2, <4>1, TailIsSubSeq
    <3>4. /\ Tail(refs) \in Seq(IssuedIds) /\ Ascends(Tail(refs))
          /\ Range(refs) = {Head(refs)} \union Range(Tail(refs))
          /\ \A i \in Range(Tail(refs)) : Before(Head(refs), i)
          /\ Head(refs) \in IssuedIds
      BY <2>3, <3>2, ListHead
    <3>5. Head(refs) \notin Range(Tail(refs))
      <4>1. ~Before(Head(refs), Head(refs))
        BY <3>4, BeforeOrders, PrecedenceIs DEF Orders
      <4> QED BY <3>4, <4>1
    <3>6. Range(Tail(refs)) = Held(tr) \ {refs[k]}
      BY <2>3, <3>1, <3>2, <3>4, <3>5 DEF Held
    <3>7. Tail(refs) = Ordered(Range(Tail(refs)))
      BY <3>4, AscendsIsOrdered
    <3>8. l = Ordered(Held(tr) \ {refs[k]})
      BY DEF Untracked, Held
    <3> QED BY <3>3, <3>6, <3>7, <3>8
  <2>4. refs[k] \notin Range(l)
    BY <2>1
  <2> HIDE DEF l
  <2> QED BY <1>4, <2>1, <2>2, <2>3, <2>4 DEF l
<1>5. TrackersOK
  BY DEF Types
<1>6. CASE \E k \in 1..Len(refs) : \E w \in Walks :
             /\ refs[k] \in Held(tr) /\ refs[k] \in IssuedIds
             /\ \A j \in 1..(k - 1) : refs[j] \notin Held(tr)
             /\ tracked' = [tracked EXCEPT ![tr] = Untracked(tr, refs[k])]
             /\ opener' = [opener EXCEPT ![tr] = w]
             /\ w.pc = "removing" /\ w.ref = refs[k] /\ ~w.live
             /\ w.rest = SubSeq(refs, k + 1, Len(refs))
  <2>1. PICK k \in 1..Len(refs), w \in Walks :
             /\ refs[k] \in Held(tr) /\ refs[k] \in IssuedIds
             /\ \A j \in 1..(k - 1) : refs[j] \notin Held(tr)
             /\ tracked' = [tracked EXCEPT ![tr] = Untracked(tr, refs[k])]
             /\ opener' = [opener EXCEPT ![tr] = w]
             /\ w.pc = "removing" /\ w.ref = refs[k] /\ ~w.live
             /\ w.rest = SubSeq(refs, k + 1, Len(refs))
    BY <1>6
  <2>2. PICK l :
          /\ tracked' = [tracked EXCEPT ![tr] = l] /\ l \in Seq(IssuedIds)
          /\ \A j \in Ids : InHandOf(l, w, j) = IF j \in Held(tr) THEN 1 ELSE 0
          /\ refs = tracked[tr] /\ Ascends(refs) =>
               /\ Ascends(l)
               /\ l = w.rest /\ w.ref \notin Range(l)
    BY <1>4, <2>1
  <2>3. w.pc \in {"closed", "removing"} /\ w.pc # "closed" /\ w.ref \in IssuedIds
    BY <2>1
  <2>4. /\ opener' = [opener EXCEPT ![tr] = w] /\ w \in Walks
        /\ tracked' = [tracked EXCEPT ![tr] = l] /\ l \in Seq(IssuedIds)
        /\ w.pc \in {"closed", "removing"}
        /\ w.pc = "removing" => w.ref \in IssuedIds
        /\ \A j \in Ids : InHandOf(l, w, j) = IF j \in Held(tr) THEN 1 ELSE 0
        /\ refs = tracked[tr] /\ Ascends(refs) =>
             /\ Ascends(l)
             /\ w.pc = "closed" => l = <<>>
             /\ w.pc = "removing" => l = w.rest /\ w.ref \notin Range(l)
    BY <2>1, <2>2, <2>3
  <2> QED BY <2>4, Zenon
<1> QED BY <1>3, <1>5, <1>6, CloseOnDoes

LEMMA CloseDoes ==
  ASSUME RegOK, RegOK', IInv, NEW tr \in Trackers, Close(tr) \/ ClosedRemoved(tr)
  PROVE  \E w, l : WalkerStep(tr, w, l)
<1> DEFINE closing == opener[tr].pc = "open"
           refs == IF closing THEN Ordered(Range(tracked[tr])) ELSE opener[tr].rest
           ref == opener[tr].ref
<1>1. Types /\ UsesCovered /\ (~disturbed => Calm)
  BY DEF IInv
<1>2. tracked \in [Trackers -> Seq(IssuedIds)] /\ opener \in [Trackers -> Walks]
  BY <1>1 DEF Types, TrackersOK
<1>3. /\ CloseOn(tr, refs)
      /\ IF closing THEN Close(tr) ELSE opener[tr].pc = "removing" /\ ClosedRemoved(tr)
  BY DEF Close, ClosedRemoved
<1>4. refs \in Seq(IssuedIds) /\ (closing /\ Ascends(tracked[tr]) => refs = tracked[tr])
  <2>1. Range(tracked[tr]) \in SUBSET IssuedIds
    BY <1>2, ListTypes
  <2>2. Ordered(Range(tracked[tr])) \in Seq(IssuedIds)
    BY <2>1, OrderedIs
  <2>3. opener[tr].rest \in Seq(IssuedIds)
    BY <1>2, WalkParts
  <2>4. Ascends(tracked[tr]) => tracked[tr] = Ordered(Range(tracked[tr]))
    BY <1>2, AscendsIsOrdered
  <2> QED BY <2>2, <2>3, <2>4
<1> HIDE DEF refs
<1>5. PICK w, l :
           /\ opener' = [opener EXCEPT ![tr] = w] /\ w \in Walks
           /\ tracked' = [tracked EXCEPT ![tr] = l] /\ l \in Seq(IssuedIds)
           /\ w.pc \in {"closed", "removing"}
           /\ w.pc = "removing" => w.ref \in IssuedIds
           /\ \A j \in Ids : InHandOf(l, w, j) = IF j \in Held(tr) THEN 1 ELSE 0
           /\ refs = tracked[tr] /\ Ascends(refs) =>
                /\ Ascends(l)
                /\ w.pc = "closed" => l = <<>>
                /\ w.pc = "removing" => l = w.rest /\ w.ref \notin Range(l)
  BY <1>1, <1>3, <1>4, CloseOnGives
<1>6. opener'[tr] = w /\ tracked'[tr] = l
  BY <1>2, <1>5
<1>7. listening' = listening \ {tr}
  BY <1>1, <1>3 DEF Close, ClosedRemoved, Types, TrackersOK
<1>8. ref \in IssuedIds \/ closing
  BY <1>1, <1>3 DEF Types, TrackersOK, Walking
<1>9. ~closing => /\ services' = services /\ classIndex' = classIndex /\ Unchanging
                  /\ \A o \in Trackers, j \in Ids : using'[o][j] =
                       IF o = tr /\ j = ref
                       THEN IF using[o][j] > 0 THEN using[o][j] - 1 ELSE 0
                       ELSE using[o][j]
  <2> SUFFICES ASSUME ~closing
               PROVE  /\ services' = services /\ classIndex' = classIndex /\ Unchanging
                      /\ \A o \in Trackers, j \in Ids : using'[o][j] =
                           IF o = tr /\ j = ref
                           THEN IF using[o][j] > 0 THEN using[o][j] - 1 ELSE 0
                           ELSE using[o][j]
    OBVIOUS
  <2>1. ref \in Ids /\ Registry!UngetService(tr, ref)
    BY <1>3, <1>8 DEF ClosedRemoved, IssuedIds
  <2> HIDE DEF ref
  <2> QED BY <2>1, UngetsService
<1>10. closing => UNCHANGED registryVars
  BY <1>3 DEF Close
<1>11. Elsewhere
  <2>1. UNCHANGED <<task, props>>
    BY <1>3 DEF Close, ClosedRemoved, clientVars
  <2>2. UNCHANGED <<services, classIndex, reference, resorted>>
    BY <1>9, <1>10 DEF registryVars, Unchanging
  <2> QED BY <2>1, <2>2 DEF Elsewhere
<1>12. disturbed' \in BOOLEAN /\ (~disturbed' => ~disturbed /\ Calling = {})
  <2>1. ~closing => disturbed' = disturbed /\ tr \in Walking
    BY <1>3 DEF ClosedRemoved, Walking
  <2>2. closing => disturbed' = (disturbed \/ Calling # {})
    BY <1>3 DEF Close
  <2>3. ~disturbed => Walking = {} \/ Calling = {}
    BY <1>1 DEF Calm, Apart
  <2> QED BY <1>1, <2>1, <2>2, <2>3 DEF Types
<1>13. /\ \A o \in Trackers, j \in Ids : o # tr => using'[o][j] = using[o][j]
       /\ \A j \in Ids :
            LET owes == InHandOf(l, w, j) + using[tr][j]
                owed == InHand(tr, j) + using'[tr][j]
            IN  owes <= owed /\ (~disturbed' => owes = owed)
  <2>1. \A o \in Trackers, j \in Ids : using[o][j] \in Nat
    BY DEF RegOK
  <2>2. CASE closing
    <3>1. using' = using
      BY <1>10, <2>2 DEF registryVars
    <3>2. \A j \in Ids : InHand(tr, j) = IF j \in Held(tr) THEN 1 ELSE 0
      BY <2>2 DEF InHand, InHandOf, Held
    <3> QED BY <1>5, <2>1, <3>1, <3>2
  <2>3. CASE ~closing
    <3>1. \A j \in Ids : InHand(tr, j) =
            (IF j \in Held(tr) THEN 1 ELSE 0) + (IF j = ref THEN 1 ELSE 0)
      BY <1>3, <2>3 DEF InHand, InHandOf, Held
    <3>2. using[tr][ref] > 0
      <4>1. ref \in Ids
        BY <1>8, <2>3 DEF IssuedIds
      <4>2. /\ Owed(tr, ref) = InHand(tr, ref) + Cardinality(Telling(tr, ref))
            /\ Cardinality(Telling(tr, ref)) \in Nat
        BY <1>1, <4>1, OwedIs DEF OwedSplits, Types
      <4>3. Owed(tr, ref) <= using[tr][ref]
        BY <1>1, <4>1 DEF UsesCovered
      <4>4. using[tr][ref] \in Nat /\ InHand(tr, ref) >= 1 /\ InHand(tr, ref) \in Nat
        BY <2>1, <3>1, <4>1
      <4> QED BY <4>2, <4>3, <4>4
    <3>3. ref \in Ids
      BY <1>8, <2>3 DEF IssuedIds
    <3> HIDE DEF closing, ref
    <3>4. \A o \in Trackers, j \in Ids : o # tr => using'[o][j] = using[o][j]
      BY <1>9, <2>3
    <3>5. \A j \in Ids :
            LET owes == InHandOf(l, w, j) + using[tr][j]
                owed == InHand(tr, j) + using'[tr][j]
            IN  owes = owed /\ owes <= owed
      <4> SUFFICES ASSUME NEW j \in Ids
                   PROVE  LET owes == InHandOf(l, w, j) + using[tr][j]
                              owed == InHand(tr, j) + using'[tr][j]
                          IN  owes = owed /\ owes <= owed
        OBVIOUS
      <4>1. using'[tr][j] = IF j = ref THEN using[tr][j] - 1 ELSE using[tr][j]
        BY <1>9, <2>3, <3>2
      <4>2. InHandOf(l, w, j) = IF j \in Held(tr) THEN 1 ELSE 0
        BY <1>5
      <4>3. InHand(tr, j) = (IF j \in Held(tr) THEN 1 ELSE 0) + (IF j = ref THEN 1 ELSE 0)
        BY <3>1
      <4> QED BY <2>1, <4>1, <4>2, <4>3
    <3> QED BY <3>4, <3>5
  <2> QED BY <2>2, <2>3
<1>14. ASSUME ~disturbed' PROVE TrackerCalm(tr)'
  <2>1. Ascends(tracked[tr]) /\ (~closing => RemovingRight(tr))
    BY <1>1, <1>3, <1>12, <1>14 DEF Calm, TrackerCalm, WalkRight
  <2>2. refs = tracked[tr]
    BY <1>4, <2>1 DEF RemovingRight, refs
  <2>3. /\ Ascends(l)
        /\ w.pc = "closed" => l = <<>>
        /\ w.pc = "removing" => l = w.rest /\ w.ref \notin Range(l)
    BY <1>5, <2>1, <2>2
  <2>4. Ascends(tracked[tr])'
    BY <1>6, <1>11, <2>3, SameIssued DEF Ascends, Elsewhere
  <2>5. WalkRight(tr)' /\ Following(tr)'
    BY <1>5, <1>6, <2>3 DEF WalkRight, RemovingRight, Held, Following
  <2> QED BY <2>4, <2>5 DEF TrackerCalm
<1>15. listening' = IF w.pc \in {"open", "adding"} THEN listening \union {tr}
                    ELSE listening \ {tr}
  BY <1>5, <1>7
<1>16. w.pc \in {"adding", "removing"} => w.ref \in IssuedIds
  BY <1>5
<1> HIDE DEF closing, ref
<1>17. WalkerStep(tr, w, l)
  BY <1>5, <1>11, <1>12, <1>13, <1>14, <1>15, <1>16 DEF WalkerStep
<1> QED BY <1>17

-----------------------------------------------------------------------------
(* A client's call r instead of task[t] changes who is told by this much.  *)
LEMMA TellingMoves ==
  ASSUME ClientsOK, NEW t \in Tasks, NEW r, task' = [task EXCEPT ![t] = r], NEW o, NEW j
  PROVE  /\ Cardinality(Telling(o, j)') + (IF Tells(task[t], o, j) THEN 1 ELSE 0)
              = Cardinality(Telling(o, j)) + (IF Tells(r, o, j) THEN 1 ELSE 0)
         /\ Cardinality(Telling(o, j)) \in Nat /\ Cardinality(Telling(o, j)') \in Nat
<1> DEFINE T == Telling(o, j)
           U == Telling(o, j)'
<1>1. task'[t] = r /\ \A u \in Tasks : u # t => task'[u] = task[u]
  BY DEF ClientsOK
<1>2. T = {u \in Tasks : Tells(task[u], o, j)}
  BY DEF Telling
<1>3. U = {u \in Tasks : Tells(task'[u], o, j)}
  BY DEF Telling, Tells
<1>4. /\ t \in T <=> Tells(task[t], o, j)
      /\ t \in U <=> Tells(r, o, j)
      /\ T \ {t} = U \ {t}
  BY <1>1, <1>2, <1>3
<1>5. IsFiniteSet(T) /\ IsFiniteSet(U)
  <2>1. T \subseteq Tasks /\ U \subseteq Tasks
    BY <1>2, <1>3
  <2> QED BY <2>1, TrackerAssumption, FS_Subset
<1> HIDE DEF T, U
<1>6. \A S : IsFiniteSet(S) =>
        /\ Cardinality(S) \in Nat /\ Cardinality(S \ {t}) \in Nat
        /\ Cardinality(S) = Cardinality(S \ {t}) + (IF t \in S THEN 1 ELSE 0)
  <2> SUFFICES ASSUME NEW S, IsFiniteSet(S)
               PROVE  /\ Cardinality(S) \in Nat /\ Cardinality(S \ {t}) \in Nat
                      /\ Cardinality(S) = Cardinality(S \ {t}) + (IF t \in S THEN 1 ELSE 0)
    OBVIOUS
  <2>1. /\ IsFiniteSet(S \ {t})
        /\ Cardinality(S \ {t}) = IF t \in S THEN Cardinality(S) - 1 ELSE Cardinality(S)
    BY FS_RemoveElement
  <2>2. Cardinality(S) \in Nat /\ Cardinality(S \ {t}) \in Nat
    BY <2>1, FS_CardinalityType
  <2> QED BY <2>1, <2>2
<1>7. /\ Cardinality(T) \in Nat /\ Cardinality(U) \in Nat /\ Cardinality(T \ {t}) \in Nat
      /\ Cardinality(T) = Cardinality(T \ {t}) + (IF t \in T THEN 1 ELSE 0)
      /\ Cardinality(U) = Cardinality(T \ {t}) + (IF t \in U THEN 1 ELSE 0)
  BY <1>4, <1>5, <1>6
<1>8. Cardinality(U) + (IF t \in T THEN 1 ELSE 0) = Cardinality(T) + (IF t \in U THEN 1 ELSE 0)
  BY <1>7
<1>9. /\ (IF t \in T THEN 1 ELSE 0) = (IF Tells(task[t], o, j) THEN 1 ELSE 0)
      /\ (IF t \in U THEN 1 ELSE 0) = (IF Tells(r, o, j) THEN 1 ELSE 0)
  BY <1>4
<1> QED BY <1>7, <1>8, <1>9 DEF T, U

(***************************************************************************)
(* A step of the delivery of t's event to tr: the call is r and the        *)
(* tracker's list l then.                                                  *)
(***************************************************************************)
Moved(t, tr, r) ==
  LET old == task[t].pending
  IN  /\ IsCall(r)
      /\ DOMAIN r.pending \ {tr} = DOMAIN old \ {tr}
      /\ DOMAIN r.pending # {} => r.ref = task[t].ref
      /\ \A o \in DOMAIN old \ {tr} : r.pending[o] = old[o]

DeliveryStep(t, tr, r, l) ==
  LET i == task[t].ref
      owes == (IF i \in Range(l) THEN 1 ELSE 0) + (IF Tells(r, tr, i) THEN 1 ELSE 0)
                + using[tr][i]
      owed == (IF i \in Held(tr) THEN 1 ELSE 0) + (IF Tells(task[t], tr, i) THEN 1 ELSE 0)
                + using'[tr][i]
  IN  /\ task' = [task EXCEPT ![t] = r] /\ Moved(t, tr, r)
      /\ tracked' = [tracked EXCEPT ![tr] = l] /\ l \in Seq(IssuedIds)
      /\ Range(l) \ {i} = Held(tr) \ {i}
      /\ UNCHANGED <<listening, opener, props, services, classIndex, reference, resorted>>
      /\ disturbed' \in BOOLEAN /\ (~disturbed' => ~disturbed)
      /\ \A o \in Trackers, j \in Ids : o # tr \/ j # i => using'[o][j] = using[o][j]
      /\ owes <= owed /\ (~disturbed' => owes = owed)
      /\ ~disturbed' =>
           /\ Ascends(l)
           /\ IF tr \in DOMAIN r.pending THEN RightOf(r.pending[tr], i, tr, Range(l))
              ELSE (i \in Range(l) <=> i \in services) \/ ~Matches(tr, i)

LEMMA WentMoves ==
  ASSUME ClientsOK, NEW t \in Tasks, NEW tr \in DOMAIN task[t].pending,
         NEW p \in Stages, NEW r, Went(t, tr, p, r)
  PROVE  /\ Moved(t, tr, r) /\ tr \in DOMAIN r.pending
         /\ r.pending[tr].kind = task[t].pending[tr].kind /\ r.pending[tr].pc = p
         /\ Tells(r, tr, task[t].ref) <=> p \in {"adding", "removing"}
<1> DEFINE old == task[t].pending
           d == r.pending[tr]
<1>1. /\ r = [ref |-> r.ref, pending |-> r.pending] /\ r.ref = task[t].ref
      /\ DOMAIN r.pending = DOMAIN old
      /\ d = [kind |-> old[tr].kind, pc |-> p]
      /\ \A o \in DOMAIN old \ {tr} : r.pending[o] = old[o]
  BY DEF Went
<1>2. /\ DOMAIN old \subseteq Trackers /\ r.ref \in IssuedIds
      /\ \A o \in DOMAIN old : old[o] \in [kind : Kinds, pc : Stages]
  BY <1>1 DEF ClientsOK, IsCall
<1>3. d.kind = old[tr].kind /\ d.pc = p /\ d \in [kind : Kinds, pc : Stages]
  BY <1>1, <1>2
<1> HIDE DEF d, old
<1>4. \A o \in DOMAIN r.pending : r.pending[o] \in [kind : Kinds, pc : Stages]
  BY <1>1, <1>2, <1>3 DEF d
<1>5. tr \in DOMAIN r.pending
  BY <1>1 DEF old
<1>6. IsCall(r)
  BY <1>1, <1>2, <1>4, <1>5 DEF IsCall
<1>7. Moved(t, tr, r)
  BY <1>1, <1>6 DEF Moved, old
<1> QED BY <1>1, <1>3, <1>5, <1>7 DEF Tells, d, old

LEMMA EndedMoves ==
  ASSUME ClientsOK, NEW t \in Tasks, NEW tr \in DOMAIN task[t].pending,
         NEW r, Ended(t, tr, r)
  PROVE  Moved(t, tr, r) /\ tr \notin DOMAIN r.pending /\ ~Tells(r, tr, task[t].ref)
<1> DEFINE old == task[t].pending
<1>1. /\ r = [ref |-> r.ref, pending |-> r.pending]
      /\ DOMAIN r.pending = DOMAIN old \ {tr}
      /\ IF DOMAIN r.pending = {} THEN r = Idle ELSE r.ref = task[t].ref
      /\ \A o \in DOMAIN old \ {tr} : r.pending[o] = old[o]
  BY DEF Ended
<1>2. /\ DOMAIN old \subseteq Trackers /\ task[t].ref \in IssuedIds
      /\ \A o \in DOMAIN old : old[o] \in [kind : Kinds, pc : Stages]
  BY DEF ClientsOK, IsCall
<1> HIDE DEF old
<1>3. IsCall(r)
  BY <1>1, <1>2 DEF IsCall
<1>4. Moved(t, tr, r)
  BY <1>1, <1>3 DEF Moved, old
<1> QED BY <1>1, <1>4 DEF Tells

LEMMA DeliveryTypes ==
  ASSUME Types, NEW t \in Tasks, NEW tr \in Trackers, NEW r, NEW l,
         DeliveryStep(t, tr, r, l)
  PROVE  Types'
<1>1. IssuedIds' = IssuedIds
  BY SameIssued DEF DeliveryStep
<1>2. TrackersOK'
  <2>1. Walks' = Walks
    BY <1>1 DEF Walks
  <2>2. tracked' \in [Trackers -> Seq(IssuedIds')]
    BY <1>1 DEF Types, TrackersOK, DeliveryStep
  <2> QED BY <1>1, <2>1, <2>2 DEF Types, TrackersOK, DeliveryStep, Walking
<1>3. ClientsOK'
  <2>1. DOMAIN task' = Tasks /\ \A u \in Tasks : IsCall(task'[u])
    BY DEF Types, ClientsOK, DeliveryStep, Moved
  <2>2. \A x : IsCall(x)' <=> IsCall(x)
    BY <1>1 DEF IsCall
  <2> QED BY <1>1, <2>1 DEF ClientsOK, IsCall
<1> QED BY <1>2, <1>3 DEF Types, DeliveryStep

LEMMA DeliveryUses ==
  ASSUME Types, RegOK, RegOK', NEW t \in Tasks, NEW tr \in Trackers, NEW r, NEW l,
         DeliveryStep(t, tr, r, l)
  PROVE  UsesKept
<1> SUFFICES ASSUME NEW o \in Trackers, NEW j \in Ids
             PROVE  LET owes == InHand(o, j)' + Cardinality(Telling(o, j)') + using[o][j]
                        owed == InHand(o, j) + Cardinality(Telling(o, j)) + using'[o][j]
                    IN  owes <= owed /\ (~disturbed' => owes = owed)
  BY DEF UsesKept
<1> DEFINE i == task[t].ref
           n == Cardinality(Telling(o, j))
           m == Cardinality(Telling(o, j)')
           u == using[o][j]
           v == using'[o][j]
           g == IF opener[o].pc \in {"adding", "removing"} /\ opener[o].ref = j THEN 1 ELSE 0
           x == IF j \in Held(o) THEN 1 ELSE 0
           y == IF j \in Range(tracked'[o]) THEN 1 ELSE 0
           a == IF Tells(task[t], o, j) THEN 1 ELSE 0
           b == IF Tells(r, o, j) THEN 1 ELSE 0
<1>1. m + a = n + b /\ n \in Nat /\ m \in Nat
  <2>1. ClientsOK /\ task' = [task EXCEPT ![t] = r]
    BY DEF DeliveryStep, Types
  <2>2. /\ Cardinality(Telling(o, j)') + (IF Tells(task[t], o, j) THEN 1 ELSE 0)
             = Cardinality(Telling(o, j)) + (IF Tells(r, o, j) THEN 1 ELSE 0)
        /\ Cardinality(Telling(o, j)) \in Nat /\ Cardinality(Telling(o, j)') \in Nat
    BY <2>1, TellingMoves
  <2> QED BY <2>2
<1>2. u \in Nat /\ v \in Nat
  BY DEF RegOK
<1>3. InHand(o, j) = x + g
  BY DEF InHand, InHandOf, Held
<1>4. InHand(o, j)' = y + g
  BY DEF InHand, InHandOf, DeliveryStep
<1>5. x \in Nat /\ y \in Nat /\ g \in Nat /\ a \in Nat /\ b \in Nat
  OBVIOUS
<1>6. y + b + u <= x + a + v /\ (~disturbed' => y + b + u = x + a + v)
  <2>1. CASE o = tr /\ j = i
    <3>1. tracked'[o] = l
      BY <2>1 DEF DeliveryStep, Types, TrackersOK
    <3> QED BY <2>1, <3>1 DEF DeliveryStep
  <2>2. CASE o # tr \/ j # i
    <3>1. v = u
      BY <2>2 DEF DeliveryStep
    <3>2. y = x
      <4>1. CASE o # tr
        <5>1. tracked'[o] = tracked[o]
          BY <4>1 DEF DeliveryStep, Types, TrackersOK
        <5> QED BY <5>1 DEF Held
      <4>2. CASE o = tr /\ j # i
        <5>1. tracked'[o] = l
          BY <4>2 DEF DeliveryStep, Types, TrackersOK
        <5>2. j \in Range(l) <=> j \in Held(o)
          BY <4>2 DEF DeliveryStep
        <5> QED BY <5>1, <5>2
      <4> QED BY <2>2, <4>1, <4>2
    <3>3. Tells(task[t], o, j) <=> Tells(r, o, j)
      <4>1. /\ DOMAIN r.pending \ {tr} = DOMAIN task[t].pending \ {tr}
            /\ DOMAIN r.pending # {} => r.ref = i
            /\ \A q \in DOMAIN task[t].pending \ {tr} : r.pending[q] = task[t].pending[q]
        BY DEF DeliveryStep, Moved
      <4>2. CASE o # tr
        <5>1. o \in DOMAIN r.pending <=> o \in DOMAIN task[t].pending
          BY <4>1, <4>2
        <5>2. o \in DOMAIN r.pending => r.ref = i /\ r.pending[o] = task[t].pending[o]
          BY <4>1, <4>2, <5>1
        <5> QED BY <5>1, <5>2 DEF Tells
      <4>3. CASE j # i
        BY <4>1, <4>3 DEF Tells
      <4> QED BY <2>2, <4>2, <4>3
    <3>4. a = b
      BY <3>3
    <3> HIDE DEF a, b, x, y, u, v
    <3> QED BY <1>2, <1>5, <3>1, <3>2, <3>4
  <2> QED BY <2>1, <2>2
<1> HIDE DEF n, m, u, v, g, x, y, a, b
<1>7. y + g + m + u <= x + g + n + v /\ (~disturbed' => y + g + m + u = x + g + n + v)
  BY <1>1, <1>2, <1>5, <1>6
<1> QED BY <1>3, <1>4, <1>7 DEF n, m, u, v

LEMMA DeliveryCalm ==
  ASSUME Types, ~disturbed => Calm, NEW t \in Tasks, NEW tr \in DOMAIN task[t].pending,
         NEW r, NEW l, DeliveryStep(t, tr, r, l), ~disturbed', UsesExact'
  PROVE  Calm'
<1> DEFINE i == task[t].ref
<1>1. Calm /\ tr \in Trackers
  BY DEF DeliveryStep, Types, ClientsOK, IsCall
<1>2. t \in Calling /\ Walking = {} /\ opener[tr].pc = "open"
  <2>1. t \in Calling
    BY CallingIs DEF Types
  <2>2. DeliveryRight(t, tr)
    BY <1>1 DEF Calm
  <2> QED BY <1>1, <2>1, <2>2 DEF Calm, Apart, DeliveryRight
<1>3. /\ task'[t] = r /\ tracked'[tr] = l
      /\ \A u \in Tasks : u # t => task'[u] = task[u]
      /\ \A o \in Trackers : o # tr => tracked'[o] = tracked[o]
      /\ opener' = opener /\ props' = props /\ services' = services
  BY <1>1 DEF DeliveryStep, Types, TrackersOK, ClientsOK
<1>4. /\ IsCall(r)
      /\ DOMAIN r.pending \ {tr} = DOMAIN task[t].pending \ {tr}
      /\ DOMAIN r.pending # {} => r.ref = i
      /\ \A o \in DOMAIN task[t].pending \ {tr} : r.pending[o] = task[t].pending[o]
  BY DEF DeliveryStep, Moved
<1>5. /\ Ascends(l) /\ Range(l) \ {i} = Held(tr) \ {i}
      /\ IF tr \in DOMAIN r.pending THEN RightOf(r.pending[tr], i, tr, Range(l))
         ELSE (i \in Range(l) <=> i \in services) \/ ~Matches(tr, i)
  BY DEF DeliveryStep
<1>6. /\ Held(tr)' = Range(l)
      /\ \A o \in Trackers : o # tr => Held(o)' = Held(o)
  BY <1>3 DEF Held
<1>7. Apart'
  <2>1. Walking' = {}
    BY <1>2, <1>3 DEF Walking
  <2>2. Calling' = {u \in Tasks : task'[u] # Idle}
    BY DEF Calling, Idle
  <2>3. t \in Calling' => r.ref = i
    <3>1. r # Idle => DOMAIN r.pending # {}
      BY <1>4 DEF IsCall
    <3> QED BY <1>3, <1>4, <2>2, <3>1
  <2>4. \A u \in Calling' : u \in Calling /\ task'[u].ref = task[u].ref
    BY <1>2, <1>3, <2>2, <2>3 DEF Calling
  <2>5. \A u, v \in Calling : task[u].ref = task[v].ref => u = v
    BY <1>1 DEF Calm, Apart
  <2> QED BY <2>1, <2>4, <2>5 DEF Apart
<1>8. \A s : Ascends(s)' <=> Ascends(s)
  BY SameIssued DEF Ascends, DeliveryStep
<1>9. ASSUME NEW o \in Trackers PROVE TrackerCalm(o)'
  <2>1. TrackerCalm(o) /\ opener[o].pc \in {"closed", "open"}
    BY <1>1, <1>2 DEF Calm, Walking, Types, TrackersOK, Walks
  <2>2. Ascends(tracked[o])'
    <3>1. CASE o = tr
      BY <1>3, <1>5, <1>8, <3>1
    <3>2. CASE o # tr
      BY <1>3, <1>8, <2>1, <3>2 DEF TrackerCalm
    <3> QED BY <3>1, <3>2
  <2>3. WalkRight(o)'
    <3>1. opener[o].pc = "closed" => o # tr /\ tracked[o] = <<>>
      BY <1>2, <2>1 DEF TrackerCalm, WalkRight
    <3> QED BY <1>3, <2>1, <3>1 DEF WalkRight
  <2>4. ASSUME opener[o].pc = "open", NEW j \in Ids
        PROVE  \/ j \in Held(o)' <=> j \in services
               \/ ~Matches(o, j)
               \/ \E u \in Tasks : task'[u].ref = j /\ o \in DOMAIN task'[u].pending
    <3>1. \/ j \in Held(o) <=> j \in services
          \/ ~Matches(o, j)
          \/ \E u \in Tasks : task[u].ref = j /\ o \in DOMAIN task[u].pending
      BY <2>1, <2>4 DEF TrackerCalm, Following
    <3>2. CASE o # tr \/ j # i
      <4>1. j \in Held(o)' <=> j \in Held(o)
        BY <1>5, <1>6, <3>2
      <4>2. ASSUME NEW u \in Tasks, task[u].ref = j, o \in DOMAIN task[u].pending
            PROVE  task'[u].ref = j /\ o \in DOMAIN task'[u].pending
        <5>1. CASE u # t
          BY <1>3, <4>2, <5>1
        <5>2. CASE u = t
          <6>1. o # tr
            BY <3>2, <4>2, <5>2
          <6>2. o \in DOMAIN r.pending
            BY <1>4, <4>2, <5>2, <6>1
          <6> QED BY <1>3, <1>4, <4>2, <5>2, <6>2
        <5> QED BY <5>1, <5>2
      <4> QED BY <3>1, <4>1, <4>2
    <3>3. CASE o = tr /\ j = i
      <4>1. CASE tr \in DOMAIN r.pending
        <5>1. r.ref = i
          BY <1>4, <4>1
        <5> QED BY <1>3, <3>3, <4>1, <5>1
      <4>2. CASE tr \notin DOMAIN r.pending
        BY <1>5, <1>6, <3>3, <4>2
      <4> QED BY <4>1, <4>2
    <3> QED BY <3>2, <3>3
  <2>5. Following(o)'
    BY <1>3, <2>4 DEF Following, Matches
  <2> QED BY <2>2, <2>3, <2>5 DEF TrackerCalm
<1>10. ASSUME NEW u \in Tasks, NEW o \in DOMAIN task'[u].pending
       PROVE  DeliveryRight(u, o)'
  <2>1. \A d, j, q, held : RightOf(d, j, q, held)' <=> RightOf(d, j, q, held)
    BY <1>3 DEF RightOf, Matches
  <2>2. CASE u # t
    <3>1. task'[u] = task[u] /\ o \in DOMAIN task[u].pending
      BY <1>3, <2>2
    <3>2. DeliveryRight(u, o)
      BY <1>1, <3>1 DEF Calm
    <3>3. u \in Calling /\ task[u].ref # i
      <4>1. u \in Calling
        BY <3>1, CallingIs DEF Types
      <4> QED BY <1>1, <1>2, <2>2, <4>1 DEF Calm, Apart
    <3>4. o \in Trackers
      BY <3>1 DEF Types, ClientsOK, IsCall
    <3>5. task[u].ref \in Held(o)' <=> task[u].ref \in Held(o)
      BY <1>5, <1>6, <3>3, <3>4
    <3>6. RightOf(task[u].pending[o], task[u].ref, o, Held(o)')
      BY <3>2, <3>5 DEF DeliveryRight, RightOf
    <3> QED BY <1>3, <2>1, <3>1, <3>2, <3>6 DEF DeliveryRight
  <2>3. CASE u = t /\ o # tr
    <3>1. task'[u] = r /\ o \in DOMAIN task[t].pending
      BY <1>3, <1>4, <2>3
    <3>2. r.ref = i /\ r.pending[o] = task[t].pending[o]
      BY <1>3, <1>4, <2>3, <3>1
    <3>3. DeliveryRight(t, o)
      BY <1>1, <3>1 DEF Calm
    <3>4. Held(o)' = Held(o)
      BY <1>6, <2>3, <3>1 DEF Types, ClientsOK, IsCall
    <3>5. RightOf(r.pending[o], r.ref, o, Held(o)')
      BY <3>2, <3>3, <3>4 DEF DeliveryRight
    <3> QED BY <1>3, <2>1, <3>1, <3>3, <3>5 DEF DeliveryRight
  <2>4. CASE u = t /\ o = tr
    <3>1. task'[u] = r /\ tr \in DOMAIN r.pending /\ r.ref = i
      BY <1>3, <1>4, <2>4
    <3>2. RightOf(r.pending[tr], r.ref, tr, Held(tr)')
      BY <1>5, <1>6, <3>1
    <3> QED BY <1>2, <1>3, <2>1, <2>4, <3>1, <3>2 DEF DeliveryRight
  <2> QED BY <2>2, <2>3, <2>4
<1> QED BY <1>7, <1>9, <1>10 DEF Calm

LEMMA DeliveryKeeps ==
  ASSUME RegOK, RegOK', IInv, NEW t \in Tasks, NEW tr \in DOMAIN task[t].pending,
         NEW r, NEW l, DeliveryStep(t, tr, r, l)
  PROVE  IInv'
<1>1. Types /\ UsesCovered /\ (~disturbed => Calm) /\ tr \in Trackers
  BY DEF IInv, Types, ClientsOK, IsCall
<1>2. Types'
  BY <1>1, DeliveryTypes
<1>3. UsesKept
  BY <1>1, DeliveryUses
<1>4. UsesCovered' /\ (~disturbed' => UsesExact')
  <2>1. ~disturbed => UsesExact
    BY <1>1 DEF Calm
  <2>2. ~disturbed' => ~disturbed
    BY DEF DeliveryStep
  <2> QED BY <1>1, <1>2, <1>3, <2>1, <2>2, UsesFollow DEF Types
<1>5. ASSUME ~disturbed' PROVE Calm'
  BY <1>1, <1>4, <1>5, DeliveryCalm
<1> QED BY <1>2, <1>4, <1>5 DEF IInv

-----------------------------------------------------------------------------
(* What each action of a delivery does.                                    *)
LEMMA DeliveryNow ==
  ASSUME RegOK, IInv, NEW t \in Tasks, NEW tr \in DOMAIN task[t].pending
  PROVE  LET i == task[t].ref
             d == task[t].pending[tr]
         IN  /\ Types /\ ClientsOK /\ TrackersOK /\ tr \in Trackers
             /\ i \in IssuedIds /\ i \in Ids
             /\ tracked \in [Trackers -> Seq(IssuedIds)]
             /\ Contains(tracked[tr], i) <=> i \in Held(tr)
             /\ Tells(task[t], tr, i) <=> d.pc \in {"adding", "removing"}
             /\ d.kind \in Kinds
             /\ using[tr][i] \in Nat /\ (Tells(task[t], tr, i) => using[tr][i] > 0)
             /\ ~disturbed => RightOf(d, i, tr, Held(tr)) /\ Ascends(tracked[tr])
             /\ disturbed \in BOOLEAN
<1> DEFINE i == task[t].ref
           d == task[t].pending[tr]
<1>1. Types /\ UsesCovered /\ (~disturbed => Calm) /\ ClientsOK /\ TrackersOK
  BY DEF IInv, Types
<1>2. tr \in Trackers /\ i \in IssuedIds /\ i \in Ids /\ d.kind \in Kinds
  <2>1. tr \in Trackers /\ i \in IssuedIds /\ d \in [kind : Kinds, pc : Stages]
    BY <1>1 DEF ClientsOK, IsCall
  <2> QED BY <2>1 DEF IssuedIds
<1>3. tracked \in [Trackers -> Seq(IssuedIds)]
  BY <1>1 DEF TrackersOK
<1>4. Contains(tracked[tr], i) <=> i \in Held(tr)
  BY <1>2, <1>3, ListTypes DEF Held
<1>5. Tells(task[t], tr, i) <=> d.pc \in {"adding", "removing"}
  BY DEF Tells
<1>6. using[tr][i] \in Nat
  BY <1>2 DEF RegOK
<1>7. ASSUME Tells(task[t], tr, i) PROVE using[tr][i] > 0
  <2> HIDE DEF i
  <2>1. /\ Owed(tr, i) = InHand(tr, i) + Cardinality(Telling(tr, i))
        /\ InHand(tr, i) \in Nat /\ Cardinality(Telling(tr, i)) \in Nat
        /\ IsFiniteSet(Telling(tr, i))
    BY <1>1, <1>2, OwedIs DEF OwedSplits
  <2>2. t \in Telling(tr, i)
    BY <1>7 DEF Telling
  <2>3. Cardinality(Telling(tr, i)) # 0
    BY <2>1, <2>2, FS_EmptySet
  <2>4. Owed(tr, i) <= using[tr][i]
    BY <1>1, <1>2 DEF UsesCovered
  <2> QED BY <1>6, <2>1, <2>3, <2>4
<1>8. ~disturbed => RightOf(d, i, tr, Held(tr)) /\ Ascends(tracked[tr])
  BY <1>1, <1>2 DEF Calm, DeliveryRight, TrackerCalm
<1>9. disturbed \in BOOLEAN
  BY <1>1 DEF Types
<1> QED BY <1>1, <1>2, <1>3, <1>4, <1>5, <1>6, <1>7, <1>8, <1>9

LEMMA HandlesIs ==
  \A k \in Kinds : Handles(k) \in {"track", "untrack", "none"}
BY DEF Handles, Kinds

LEMMA CallModifiedDoes ==
  ASSUME RegOK, RegOK', IInv, NEW t \in Tasks, NEW tr \in DOMAIN task[t].pending,
         CallModified(t, tr)
  PROVE  \E r, l : DeliveryStep(t, tr, r, l)
<1> DEFINE i == task[t].ref
           d == task[t].pending[tr]
           l == tracked[tr]
<1>1. /\ Types /\ ClientsOK /\ TrackersOK /\ tr \in Trackers /\ i \in IssuedIds /\ i \in Ids
      /\ tracked \in [Trackers -> Seq(IssuedIds)] /\ (Contains(tracked[tr], i) <=> i \in Held(tr))
      /\ Tells(task[t], tr, i) <=> d.pc \in {"adding", "removing"}
      /\ using[tr][i] \in Nat /\ disturbed \in BOOLEAN
      /\ ~disturbed => RightOf(d, i, tr, Held(tr)) /\ Ascends(tracked[tr])
  BY DeliveryNow
<1>2. /\ d.pc = "scheduled" /\ Handles(d.kind) = "track" /\ i \in Held(tr)
      /\ Await(t, tr, "modifying")
      /\ UNCHANGED <<trackerVars, props, disturbed, registryVars>>
  BY <1>1 DEF CallModified, Turn, Knows
<1>3. PICK r : task' = [task EXCEPT ![t] = r] /\ Went(t, tr, "modifying", r)
  BY <1>1, <1>2, AwaitDoes
<1>4. /\ Moved(t, tr, r) /\ tr \in DOMAIN r.pending
      /\ r.pending[tr].kind = d.kind /\ r.pending[tr].pc = "modifying"
      /\ ~Tells(r, tr, i)
  <2>1. "modifying" \in Stages
    BY DEF Stages
  <2> QED BY <1>1, <1>3, <2>1, WentMoves
<1>5. l \in Seq(IssuedIds) /\ tracked' = [tracked EXCEPT ![tr] = l] /\ Range(l) = Held(tr)
  <2>1. tracked' = tracked
    BY <1>2 DEF trackerVars
  <2> QED BY <1>1, <2>1, SameAt DEF Held
<1>6. /\ UNCHANGED <<listening, opener, props, services, classIndex, reference, resorted>>
      /\ disturbed' = disturbed /\ using' = using
  BY <1>2 DEF trackerVars, registryVars
<1>7. ~disturbed => Ascends(l) /\ RightOf(r.pending[tr], i, tr, Range(l))
  BY <1>1, <1>2, <1>4, <1>5 DEF RightOf
<1>8. ~Tells(task[t], tr, i)
  BY <1>1, <1>2
<1> HIDE DEF l
<1>9. DeliveryStep(t, tr, r, l)
  BY <1>1, <1>3, <1>4, <1>5, <1>6, <1>7, <1>8 DEF DeliveryStep
<1> QED BY <1>9

LEMMA CallAddingDoes ==
  ASSUME RegOK, RegOK', IInv, NEW t \in Tasks, NEW tr \in DOMAIN task[t].pending,
         CallAdding(t, tr)
  PROVE  \E r, l : DeliveryStep(t, tr, r, l)
<1> DEFINE i == task[t].ref
           d == task[t].pending[tr]
           l == tracked[tr]
<1>1. /\ Types /\ ClientsOK /\ TrackersOK /\ tr \in Trackers /\ i \in IssuedIds /\ i \in Ids
      /\ tracked \in [Trackers -> Seq(IssuedIds)] /\ (Contains(tracked[tr], i) <=> i \in Held(tr))
      /\ Tells(task[t], tr, i) <=> d.pc \in {"adding", "removing"}
      /\ using[tr][i] \in Nat /\ disturbed \in BOOLEAN
      /\ ~disturbed => RightOf(d, i, tr, Held(tr)) /\ Ascends(tracked[tr])
  BY DeliveryNow
<1>2. /\ d.pc = "scheduled" /\ Handles(d.kind) = "track" /\ i \notin Held(tr)
      /\ Registry!GetService(tr, i)
      /\ IF i \in services THEN Await(t, tr, "adding") ELSE Finish(t, tr)
      /\ UNCHANGED <<trackerVars, props, disturbed>>
  BY <1>1 DEF CallAdding, Turn, Knows
<1>3. /\ services' = services /\ classIndex' = classIndex /\ Unchanging
      /\ \A o \in Trackers, j \in Ids : using'[o][j] =
           IF o = tr /\ j = i THEN using[o][j] + 1 ELSE using[o][j]
  <2> HIDE DEF i
  <2> QED BY <1>1, <1>2, GetsService
<1>4. l \in Seq(IssuedIds) /\ tracked' = [tracked EXCEPT ![tr] = l] /\ Range(l) = Held(tr)
  <2>1. tracked' = tracked
    BY <1>2 DEF trackerVars
  <2> QED BY <1>1, <2>1, SameAt DEF Held
<1>5. /\ UNCHANGED <<listening, opener, props, services, classIndex, reference, resorted>>
      /\ disturbed' = disturbed
  BY <1>2, <1>3 DEF trackerVars, Unchanging
<1>6. ~Tells(task[t], tr, i)
  BY <1>1, <1>2
<1>7. /\ using'[tr][i] = using[tr][i] + 1
      /\ \A o \in Trackers, j \in Ids : o # tr \/ j # i => using'[o][j] = using[o][j]
  BY <1>1, <1>3
<1>8. CASE i \in services
  <2>1. PICK r : task' = [task EXCEPT ![t] = r] /\ Went(t, tr, "adding", r)
    BY <1>1, <1>2, <1>8, AwaitDoes
  <2>2. /\ Moved(t, tr, r) /\ tr \in DOMAIN r.pending
        /\ r.pending[tr].kind = d.kind /\ r.pending[tr].pc = "adding"
        /\ Tells(r, tr, i)
    <3>1. "adding" \in Stages
      BY DEF Stages
    <3> QED BY <1>1, <2>1, <3>1, WentMoves
  <2>3. ~disturbed => Ascends(l) /\ RightOf(r.pending[tr], i, tr, Range(l))
    BY <1>1, <1>2, <1>4, <2>2 DEF RightOf
  <2> HIDE DEF l
  <2>4. DeliveryStep(t, tr, r, l)
    BY <1>1, <1>4, <1>5, <1>6, <1>7, <2>1, <2>2, <2>3 DEF DeliveryStep
  <2> QED BY <2>4
<1>9. CASE i \notin services
  <2>1. PICK r : task' = [task EXCEPT ![t] = r] /\ Ended(t, tr, r)
    BY <1>1, <1>2, <1>9, FinishDoes
  <2>2. Moved(t, tr, r) /\ tr \notin DOMAIN r.pending /\ ~Tells(r, tr, i)
    BY <1>1, <2>1, EndedMoves
  <2>3. disturbed
    BY <1>1, <1>2, <1>9 DEF RightOf
  <2> HIDE DEF l
  <2>4. DeliveryStep(t, tr, r, l)
    BY <1>1, <1>4, <1>5, <1>6, <1>7, <2>1, <2>2, <2>3 DEF DeliveryStep
  <2> QED BY <2>4
<1> QED BY <1>8, <1>9

LEMMA CallRemovedDoes ==
  ASSUME RegOK, RegOK', IInv, NEW t \in Tasks, NEW tr \in DOMAIN task[t].pending,
         CallRemoved(t, tr)
  PROVE  \E r, l : DeliveryStep(t, tr, r, l)
<1> DEFINE i == task[t].ref
           d == task[t].pending[tr]
           l == Untracked(tr, i)
<1>1. /\ Types /\ ClientsOK /\ TrackersOK /\ tr \in Trackers /\ i \in IssuedIds /\ i \in Ids
      /\ tracked \in [Trackers -> Seq(IssuedIds)] /\ (Contains(tracked[tr], i) <=> i \in Held(tr))
      /\ Tells(task[t], tr, i) <=> d.pc \in {"adding", "removing"}
      /\ using[tr][i] \in Nat /\ disturbed \in BOOLEAN
      /\ ~disturbed => RightOf(d, i, tr, Held(tr)) /\ Ascends(tracked[tr])
  BY DeliveryNow
<1>2. /\ d.pc = "scheduled" /\ Handles(d.kind) = "untrack" /\ i \in Held(tr)
      /\ tracked' = [tracked EXCEPT ![tr] = l]
      /\ Await(t, tr, "removing")
      /\ UNCHANGED <<listening, opener, props, disturbed, registryVars>>
  BY <1>1 DEF CallRemoved, Turn
<1>3. PICK r : task' = [task EXCEPT ![t] = r] /\ Went(t, tr, "removing", r)
  BY <1>1, <1>2, AwaitDoes
<1>4. /\ Moved(t, tr, r) /\ tr \in DOMAIN r.pending
      /\ r.pending[tr].kind = d.kind /\ r.pending[tr].pc = "removing"
      /\ Tells(r, tr, i)
  <2>1. "removing" \in Stages
    BY DEF Stages
  <2> QED BY <1>1, <1>3, <2>1, WentMoves
<1>5. l \in Seq(IssuedIds) /\ Ascends(l) /\ Range(l) = Held(tr) \ {i}
  BY <1>1, UntrackedIs
<1>6. /\ UNCHANGED <<listening, opener, props, services, classIndex, reference, resorted>>
      /\ disturbed' = disturbed /\ using' = using
  BY <1>2 DEF registryVars
<1> HIDE DEF l
<1>7. ~disturbed => RightOf(r.pending[tr], i, tr, Range(l))
  BY <1>1, <1>2, <1>4, <1>5 DEF RightOf
<1>8. ~Tells(task[t], tr, i) /\ i \notin Range(l)
  BY <1>1, <1>2, <1>5
<1>9. DeliveryStep(t, tr, r, l)
  BY <1>1, <1>2, <1>3, <1>4, <1>5, <1>6, <1>7, <1>8 DEF DeliveryStep
<1> QED BY <1>9

LEMMA AddedDoes ==
  ASSUME RegOK, RegOK', IInv, NEW t \in Tasks, NEW tr \in DOMAIN task[t].pending,
         Added(t, tr)
  PROVE  \E r, l : DeliveryStep(t, tr, r, l)
<1> DEFINE i == task[t].ref
           d == task[t].pending[tr]
           l == EnteredInOrder(tr, i)
<1>1. /\ Types /\ ClientsOK /\ TrackersOK /\ tr \in Trackers /\ i \in IssuedIds /\ i \in Ids
      /\ tracked \in [Trackers -> Seq(IssuedIds)] /\ d.kind \in Kinds
      /\ Tells(task[t], tr, i) <=> d.pc \in {"adding", "removing"}
      /\ using[tr][i] \in Nat /\ disturbed \in BOOLEAN
      /\ ~disturbed => RightOf(d, i, tr, Held(tr)) /\ Ascends(tracked[tr])
  BY DeliveryNow
<1>2. /\ d.pc = "adding" /\ tracked' = [tracked EXCEPT ![tr] = l] /\ Finish(t, tr)
      /\ UNCHANGED <<listening, opener, props, disturbed, registryVars>>
  BY DEF Added, Awaited
<1>3. PICK r : task' = [task EXCEPT ![t] = r] /\ Ended(t, tr, r)
  BY <1>1, <1>2, FinishDoes
<1>4. Moved(t, tr, r) /\ tr \notin DOMAIN r.pending /\ ~Tells(r, tr, i)
  BY <1>1, <1>3, EndedMoves
<1>5. l \in Seq(IssuedIds) /\ Ascends(l) /\ Range(l) = Held(tr) \union {i}
  <2>1. Entered(tr, i) \in Seq(IssuedIds) /\ Range(Entered(tr, i)) = Held(tr) \union {i}
    BY <1>1, EnteredIs
  <2>2. Range(Entered(tr, i)) \in SUBSET IssuedIds
    BY <2>1, ListTypes
  <2> QED BY <2>1, <2>2, OrderedIs DEF EnteredInOrder
<1>6. /\ UNCHANGED <<listening, opener, props, services, classIndex, reference, resorted>>
      /\ disturbed' = disturbed /\ using' = using
  BY <1>2 DEF registryVars
<1> HIDE DEF l
<1>7. ~disturbed => i \in services /\ i \notin Held(tr)
  BY <1>1, <1>2, HandlesIs DEF RightOf
<1>8. Tells(task[t], tr, i) /\ i \in Range(l)
  BY <1>1, <1>2, <1>5
<1>9. DeliveryStep(t, tr, r, l)
  BY <1>1, <1>2, <1>3, <1>4, <1>5, <1>6, <1>7, <1>8 DEF DeliveryStep
<1> QED BY <1>9

LEMMA RemovedDoes ==
  ASSUME RegOK, RegOK', IInv, NEW t \in Tasks, NEW tr \in DOMAIN task[t].pending,
         Removed(t, tr)
  PROVE  \E r, l : DeliveryStep(t, tr, r, l)
<1> DEFINE i == task[t].ref
           d == task[t].pending[tr]
           l == tracked[tr]
<1>1. /\ Types /\ ClientsOK /\ TrackersOK /\ tr \in Trackers /\ i \in IssuedIds /\ i \in Ids
      /\ tracked \in [Trackers -> Seq(IssuedIds)] /\ d.kind \in Kinds
      /\ Tells(task[t], tr, i) <=> d.pc \in {"adding", "removing"}
      /\ using[tr][i] \in Nat /\ disturbed \in BOOLEAN
      /\ Tells(task[t], tr, i) => using[tr][i] > 0
      /\ ~disturbed => RightOf(d, i, tr, Held(tr)) /\ Ascends(tracked[tr])
  BY DeliveryNow
<1>2. /\ d.pc = "removing" /\ Registry!UngetService(tr, i) /\ Finish(t, tr)
      /\ UNCHANGED <<trackerVars, props, disturbed>>
  BY DEF Removed, Awaited
<1>3. /\ services' = services /\ classIndex' = classIndex /\ Unchanging
      /\ \A o \in Trackers, j \in Ids : using'[o][j] =
           IF o = tr /\ j = i
           THEN IF using[o][j] > 0 THEN using[o][j] - 1 ELSE 0
           ELSE using[o][j]
  <2> HIDE DEF i
  <2> QED BY <1>1, <1>2, UngetsService
<1>4. PICK r : task' = [task EXCEPT ![t] = r] /\ Ended(t, tr, r)
  BY <1>1, <1>2, FinishDoes
<1>5. Moved(t, tr, r) /\ tr \notin DOMAIN r.pending /\ ~Tells(r, tr, i)
  BY <1>1, <1>4, EndedMoves
<1>6. l \in Seq(IssuedIds) /\ tracked' = [tracked EXCEPT ![tr] = l] /\ Range(l) = Held(tr)
  <2>1. tracked' = tracked
    BY <1>2 DEF trackerVars
  <2> QED BY <1>1, <2>1, SameAt DEF Held
<1>7. /\ UNCHANGED <<listening, opener, props, services, classIndex, reference, resorted>>
      /\ disturbed' = disturbed
  BY <1>2, <1>3 DEF trackerVars, Unchanging
<1>8. /\ using'[tr][i] = using[tr][i] - 1
      /\ \A o \in Trackers, j \in Ids : o # tr \/ j # i => using'[o][j] = using[o][j]
  BY <1>1, <1>2, <1>3
<1> HIDE DEF l
<1>9. ~disturbed => i \notin services /\ i \notin Held(tr)
  BY <1>1, <1>2, HandlesIs DEF RightOf
<1>10. Tells(task[t], tr, i)
  BY <1>1, <1>2
<1>11. ~disturbed => Ascends(l)
  BY <1>1 DEF l
<1>12. DeliveryStep(t, tr, r, l)
  BY <1>1, <1>4, <1>5, <1>6, <1>7, <1>8, <1>9, <1>10, <1>11 DEF DeliveryStep
<1> QED BY <1>12

(* A delivery that ends without more.                                      *)
LEMMA EndsDoes ==
  ASSUME RegOK, RegOK', IInv, NEW t \in Tasks, NEW tr \in DOMAIN task[t].pending,
         Ignore(t, tr) \/ Modified(t, tr) \/ ListenerRaises(t, tr)
  PROVE  \E r, l : DeliveryStep(t, tr, r, l)
<1> DEFINE i == task[t].ref
           d == task[t].pending[tr]
           l == tracked[tr]
<1>1. /\ Types /\ ClientsOK /\ TrackersOK /\ tr \in Trackers /\ i \in IssuedIds /\ i \in Ids
      /\ tracked \in [Trackers -> Seq(IssuedIds)] /\ (Contains(tracked[tr], i) <=> i \in Held(tr))
      /\ Tells(task[t], tr, i) <=> d.pc \in {"adding", "removing"}
      /\ using[tr][i] \in Nat /\ disturbed \in BOOLEAN /\ d.kind \in Kinds
      /\ ~disturbed => RightOf(d, i, tr, Held(tr)) /\ Ascends(tracked[tr])
  BY DeliveryNow
<1>2. /\ Finish(t, tr) /\ UNCHANGED <<trackerVars, props, registryVars>>
      /\ disturbed' \in BOOLEAN /\ (~disturbed' => ~disturbed)
  BY <1>1 DEF Ignore, Modified, ListenerRaises
<1>3. ~disturbed' =>
        \/ d.pc = "scheduled" /\ Handles(d.kind) = "none"
        \/ d.pc = "scheduled" /\ Handles(d.kind) = "untrack" /\ i \notin Held(tr)
        \/ d.pc = "modifying"
  BY <1>1 DEF Ignore, Modified, ListenerRaises, Turn, Awaited
<1>4. PICK r : task' = [task EXCEPT ![t] = r] /\ Ended(t, tr, r)
  BY <1>1, <1>2, FinishDoes
<1>5. Moved(t, tr, r) /\ tr \notin DOMAIN r.pending /\ ~Tells(r, tr, i)
  BY <1>1, <1>4, EndedMoves
<1>6. l \in Seq(IssuedIds) /\ tracked' = [tracked EXCEPT ![tr] = l] /\ Range(l) = Held(tr)
  <2>1. tracked' = tracked
    BY <1>2 DEF trackerVars
  <2> QED BY <1>1, <2>1, SameAt DEF Held
<1>7. /\ UNCHANGED <<listening, opener, props, services, classIndex, reference, resorted>>
      /\ using' = using
  BY <1>2 DEF trackerVars, registryVars
<1>8. ~disturbed' => /\ Ascends(l) /\ ~Tells(task[t], tr, i)
                     /\ (i \in Range(l) <=> i \in services) \/ ~Matches(tr, i)
  <2> SUFFICES ASSUME ~disturbed'
               PROVE  /\ Ascends(l) /\ ~Tells(task[t], tr, i)
                      /\ (i \in Range(l) <=> i \in services) \/ ~Matches(tr, i)
    OBVIOUS
  <2>1. Ascends(l) /\ RightOf(d, i, tr, Range(l))
    BY <1>1, <1>2, <1>6
  <2>2. ~Tells(task[t], tr, i)
    BY <1>1, <1>3
  <2>3. (i \in Range(l) <=> i \in services) \/ ~Matches(tr, i)
    BY <1>1, <1>3, <1>6, <2>1, HandlesIs DEF RightOf
  <2> QED BY <2>1, <2>2, <2>3
<1> HIDE DEF l
<1>9. DeliveryStep(t, tr, r, l)
  BY <1>1, <1>2, <1>4, <1>5, <1>6, <1>7, <1>8 DEF DeliveryStep
<1> QED BY <1>9

-----------------------------------------------------------------------------
(***************************************************************************)
(* A client's call on the service i, which now is as its query shows, and  *)
(* the event of it.                                                        *)
(***************************************************************************)
FireStep(t, i, kind, now, r) ==
  /\ task[t] = Idle /\ task' = [task EXCEPT ![t] = r] /\ Fired(i, kind, now, r)
  /\ kind \in {"REGISTERED", "MODIFIED", "UNREGISTERING"}
  /\ listening' = listening /\ tracked' = tracked
  /\ opener' \in [Trackers -> Walks']
  /\ \A o \in Trackers : opener'[o].pc = opener[o].pc /\ opener'[o].ref = opener[o].ref
  /\ i \in Ids /\ props' \in [Ids -> Properties] /\ props'[i] = now
  /\ \A j \in Ids : j # i => props'[j] = props[j] /\ (j \in services' <=> j \in services)
  /\ i \in IssuedIds' /\ IssuedIds \subseteq IssuedIds'
  /\ \A j \in IssuedIds : reference'[j] = reference[j]
  /\ using' = using /\ ~resorted' /\ disturbed' \in BOOLEAN
  /\ ~disturbed' =>
       /\ ~disturbed /\ Walking = {} /\ \A u \in Calling : task[u].ref # i
       /\ i \in services' <=> kind # "UNREGISTERING"

LEMMA FireTypes ==
  ASSUME Types, NEW t \in Tasks, NEW i, NEW kind, NEW now, NEW r,
         FireStep(t, i, kind, now, r)
  PROVE  Types'
<1>1. TrackersOK'
  <2>1. tracked' \in [Trackers -> Seq(IssuedIds')]
    <3>1. Seq(IssuedIds) \subseteq Seq(IssuedIds')
      BY SeqMonotonic DEF FireStep
    <3> QED BY <3>1 DEF Types, TrackersOK, FireStep
  <2>2. listening' = {o \in Trackers : opener'[o].pc \in {"open", "adding"}}
    BY DEF Types, TrackersOK, FireStep
  <2>3. \A o \in Walking' : opener'[o].ref \in IssuedIds'
    BY DEF Types, TrackersOK, FireStep, Walking
  <2> QED BY <2>1, <2>2, <2>3 DEF TrackersOK, FireStep
<1>2. IsCall(r)'
  <2>1. CASE DOMAIN r.pending = {}
    <3>1. r = Idle
      BY <2>1 DEF FireStep, Fired
    <3> QED BY <3>1 DEF IsCall, Idle
  <2>2. CASE DOMAIN r.pending # {}
    <3>1. r = [ref |-> i, pending |-> r.pending] /\ r.ref = i
      BY <2>2 DEF FireStep, Fired
    <3>2. DOMAIN r.pending \subseteq Trackers
      BY DEF FireStep, Fired, Types, TrackersOK
    <3>3. ASSUME NEW o \in DOMAIN r.pending
          PROVE  r.pending[o] \in [kind : Kinds, pc : Stages]
      <4>1. r.pending[o] \in [kind : {kind, "MODIFIED_ENDMATCH"}, pc : {"scheduled"}]
        BY DEF FireStep, Fired
      <4>2. {kind, "MODIFIED_ENDMATCH"} \subseteq Kinds /\ {"scheduled"} \subseteq Stages
        BY DEF FireStep, Kinds, Stages
      <4> QED BY <4>1, <4>2
    <3>4. r.ref \in IssuedIds'
      BY <3>1 DEF FireStep
    <3>5. r = [ref |-> r.ref, pending |-> r.pending]
      BY <3>1
    <3> QED BY <2>2, <3>2, <3>3, <3>4, <3>5 DEF IsCall
  <2> QED BY <2>1, <2>2
<1>3. ClientsOK'
  <2>1. DOMAIN task' = Tasks /\ task'[t] = r /\ \A u \in Tasks : u # t => task'[u] = task[u]
    BY DEF Types, ClientsOK, FireStep
  <2>2. \A x : IsCall(x) => IsCall(x)'
    BY DEF IsCall, FireStep
  <2>3. \A u \in Tasks : IsCall(task[u])
    BY DEF Types, ClientsOK
  <2>4. ASSUME NEW u \in Tasks PROVE IsCall(task[u])'
    <3>1. CASE u = t
      BY <1>2, <2>1, <3>1 DEF IsCall
    <3>2. CASE u # t
      <4>1. task'[u] = task[u] /\ IsCall(task[u])
        BY <2>1, <2>3, <3>2
      <4> QED BY <4>1 DEF IsCall, FireStep
    <3> QED BY <3>1, <3>2
  <2> QED BY <2>1, <2>4 DEF ClientsOK
<1> QED BY <1>1, <1>3 DEF Types, FireStep

LEMMA FireUses ==
  ASSUME Types, RegOK, RegOK', NEW t \in Tasks, NEW i, NEW kind, NEW now, NEW r,
         FireStep(t, i, kind, now, r)
  PROVE  UsesKept
<1> SUFFICES ASSUME NEW o \in Trackers, NEW j \in Ids
             PROVE  LET owes == InHand(o, j)' + Cardinality(Telling(o, j)') + using[o][j]
                        owed == InHand(o, j) + Cardinality(Telling(o, j)) + using'[o][j]
                    IN  owes <= owed /\ (~disturbed' => owes = owed)
  BY DEF UsesKept
<1>1. ClientsOK /\ task' = [task EXCEPT ![t] = r] /\ using' = using
  BY DEF Types, FireStep
<1>2. ~Tells(task[t], o, j) /\ ~Tells(r, o, j)
  BY IdleIs DEF Tells, FireStep, Fired
<1>3. /\ Cardinality(Telling(o, j)') + (IF Tells(task[t], o, j) THEN 1 ELSE 0)
           = Cardinality(Telling(o, j)) + (IF Tells(r, o, j) THEN 1 ELSE 0)
      /\ Cardinality(Telling(o, j)) \in Nat /\ Cardinality(Telling(o, j)') \in Nat
  BY <1>1, TellingMoves
<1>4. Cardinality(Telling(o, j)') = Cardinality(Telling(o, j))
  BY <1>2, <1>3
<1>5. InHand(o, j)' = InHand(o, j) /\ InHand(o, j) \in Nat
  BY DEF InHand, InHandOf, FireStep
<1>6. using[o][j] \in Nat
  BY DEF RegOK
<1> QED BY <1>1, <1>3, <1>4, <1>5, <1>6

LEMMA FireCalm ==
  ASSUME Types, ~disturbed => Calm, NEW t \in Tasks, NEW i, NEW kind, NEW now, NEW r,
         FireStep(t, i, kind, now, r), ~disturbed', UsesExact'
  PROVE  Calm'
<1>1. /\ Calm /\ Walking = {} /\ \A u \in Calling : task[u].ref # i
      /\ i \in services' <=> kind # "UNREGISTERING"
  BY DEF FireStep
<1>2. /\ task[t] = Idle /\ task'[t] = r /\ DOMAIN task[t].pending = {}
      /\ \A u \in Tasks : u # t => task'[u] = task[u]
  BY IdleIs DEF FireStep, Types, ClientsOK
<1>3. /\ listening' = listening /\ tracked' = tracked
      /\ \A o \in Trackers : opener'[o].pc = opener[o].pc
      /\ i \in Ids /\ props'[i] = now
      /\ \A j \in Ids : j # i => props'[j] = props[j] /\ (j \in services' <=> j \in services)
  BY DEF FireStep
<1>4. /\ IF DOMAIN r.pending = {} THEN r = Idle
         ELSE r = [ref |-> i, pending |-> r.pending]
      /\ DOMAIN r.pending \subseteq listening
      /\ \A o \in listening : now \in Query[o] => o \in DOMAIN r.pending
      /\ \A o \in DOMAIN r.pending :
           /\ r.ref = i
           /\ r.pending[o] \in [kind : {kind, "MODIFIED_ENDMATCH"}, pc : {"scheduled"}]
      /\ \A o \in DOMAIN r.pending : r.pending[o].kind # kind => now \notin Query[o]
  BY DEF FireStep, Fired
<1>5. \A o \in Trackers : o \in listening <=> opener[o].pc = "open"
  BY <1>1 DEF Types, TrackersOK, Walking
<1>6. \A o \in Trackers, j \in Ids :
        /\ Matches(o, j)' <=> props'[j] \in Query[o]
        /\ Held(o)' = Held(o)
  BY <1>3 DEF Matches, Held
<1>7. Apart'
  <2>1. Walking' = {}
    BY <1>1, <1>3 DEF Walking
  <2>2. Calling' = {u \in Tasks : task'[u] # Idle}
    BY DEF Calling, Idle
  <2>3. \A u \in Calling' : IF u = t THEN task'[u].ref = i
                            ELSE u \in Calling /\ task'[u].ref = task[u].ref
    BY <1>2, <1>4, <2>2 DEF Calling
  <2>4. \A u, v \in Calling : task[u].ref = task[v].ref => u = v
    BY <1>1 DEF Calm, Apart
  <2>5. \A u, v \in Calling' : task'[u].ref = task'[v].ref => u = v
    BY <1>1, <2>3, <2>4
  <2> QED BY <2>1, <2>5 DEF Apart
<1>8. ASSUME NEW o \in Trackers PROVE TrackerCalm(o)'
  <2>1. TrackerCalm(o) /\ opener[o].pc \in {"closed", "open"}
    BY <1>1 DEF Calm, Walking, Types, TrackersOK, Walks
  <2>2. Ascends(tracked[o])'
    <3>1. \A j, k \in IssuedIds : Before(j, k)' <=> Before(j, k)
      BY DEF FireStep, Before, Registry!Less, Registry!SortValue
    <3>2. tracked[o] \in Seq(IssuedIds)
      BY DEF Types, TrackersOK
    <3>3. \A k \in 1..Len(tracked[o]) : tracked[o][k] \in IssuedIds
      BY <3>2, ElementOfSeq
    <3> QED BY <1>3, <2>1, <3>1, <3>3 DEF TrackerCalm, Ascends
  <2>3. WalkRight(o)'
    BY <1>3, <2>1 DEF TrackerCalm, WalkRight
  <2>4. ASSUME opener[o].pc = "open", NEW j \in Ids
        PROVE  \/ j \in Held(o)' <=> j \in services'
               \/ ~Matches(o, j)'
               \/ \E u \in Tasks : task'[u].ref = j /\ o \in DOMAIN task'[u].pending
    <3>1. CASE j = i
      <4>1. CASE now \in Query[o]
        <5>1. o \in DOMAIN r.pending
          BY <1>4, <1>5, <2>4, <4>1
        <5> QED BY <1>2, <1>4, <3>1, <5>1
      <4>2. CASE now \notin Query[o]
        BY <1>3, <1>6, <3>1, <4>2
      <4> QED BY <4>1, <4>2
    <3>2. CASE j # i
      <4>1. \/ j \in Held(o) <=> j \in services
            \/ ~Matches(o, j)
            \/ \E u \in Tasks : task[u].ref = j /\ o \in DOMAIN task[u].pending
        BY <2>1, <2>4 DEF TrackerCalm, Following
      <4>2. /\ j \in Held(o)' <=> j \in Held(o)
            /\ j \in services' <=> j \in services
            /\ Matches(o, j)' <=> Matches(o, j)
        BY <1>3, <1>6, <3>2 DEF Matches
      <4>3. ASSUME NEW u \in Tasks, task[u].ref = j, o \in DOMAIN task[u].pending
            PROVE  task'[u].ref = j /\ o \in DOMAIN task'[u].pending
        BY <1>2, <4>3
      <4> QED BY <4>1, <4>2, <4>3
    <3> QED BY <3>1, <3>2
  <2>5. Following(o)'
    BY <1>3, <2>4 DEF Following
  <2> QED BY <2>2, <2>3, <2>5 DEF TrackerCalm
<1>9. ASSUME NEW u \in Tasks, NEW o \in DOMAIN task'[u].pending
      PROVE  DeliveryRight(u, o)'
  <2>1. CASE u # t
    <3>1. task'[u] = task[u] /\ o \in DOMAIN task[u].pending
      BY <1>2, <2>1
    <3>2. DeliveryRight(u, o)
      BY <1>1, <3>1 DEF Calm
    <3>3. task[u].ref # i
      <4>1. u \in Calling
        BY <3>1, CallingIs DEF Types
      <4> QED BY <1>1, <4>1
    <3>4. o \in Trackers /\ task[u].ref \in Ids
      BY <3>1 DEF Types, ClientsOK, IsCall, IssuedIds
    <3>5. /\ Matches(o, task[u].ref)' <=> Matches(o, task[u].ref)
          /\ task[u].ref \in services' <=> task[u].ref \in services
      BY <1>3, <3>1, <3>3, <3>4 DEF Matches
    <3>6. Held(o)' = Held(o) /\ opener'[o].pc = opener[o].pc
      BY <1>3, <3>4 DEF Held
    <3> QED BY <3>1, <3>2, <3>5, <3>6 DEF DeliveryRight, RightOf
  <2>2. CASE u = t
    <3>1. task'[u] = r /\ o \in DOMAIN r.pending /\ r.ref = i /\ o \in listening
      BY <1>2, <1>4, <2>2
    <3>2. o \in Trackers
      BY <3>1 DEF Types, TrackersOK
    <3>3. opener'[o].pc = "open"
      BY <1>3, <1>5, <3>1, <3>2
    <3>4. /\ r.pending[o].kind \in {kind, "MODIFIED_ENDMATCH"} /\ r.pending[o].pc = "scheduled"
          /\ r.pending[o].kind # kind => now \notin Query[o]
      BY <1>4, <3>1
    <3>5. kind \in {"REGISTERED", "MODIFIED", "UNREGISTERING"}
      BY DEF FireStep
    <3>6. /\ Handles("MODIFIED_ENDMATCH") = "none"
          /\ Handles(kind) = IF kind = "UNREGISTERING" THEN "untrack" ELSE "track"
      BY <3>5 DEF Handles
    <3>7. ~Matches(o, i)' <=> now \notin Query[o]
      BY <1>3 DEF Matches
    <3>8. RightOf(r.pending[o], i, o, Held(o))'
      <4>1. CASE r.pending[o].kind = kind
        BY <1>1, <3>4, <3>6, <4>1 DEF RightOf
      <4>2. CASE r.pending[o].kind = "MODIFIED_ENDMATCH" /\ r.pending[o].kind # kind
        BY <3>4, <3>6, <3>7, <4>2 DEF RightOf
      <4> QED BY <3>4, <4>1, <4>2
    <3> QED BY <3>1, <3>3, <3>8 DEF DeliveryRight, RightOf, Held
  <2> QED BY <2>1, <2>2
<1> QED BY <1>7, <1>8, <1>9 DEF Calm

LEMMA FireKeeps ==
  ASSUME RegOK, RegOK', IInv, NEW t \in Tasks, NEW i, NEW kind, NEW now, NEW r,
         FireStep(t, i, kind, now, r)
  PROVE  IInv'
<1>1. Types /\ UsesCovered /\ (~disturbed => Calm)
  BY DEF IInv
<1>2. Types'
  BY <1>1, FireTypes
<1>3. UsesKept
  BY <1>1, FireUses
<1>4. UsesCovered' /\ (~disturbed' => UsesExact')
  <2>1. ~disturbed => UsesExact
    BY <1>1 DEF Calm
  <2>2. ~disturbed' => ~disturbed
    BY DEF FireStep
  <2> QED BY <1>1, <1>2, <1>3, <2>1, <2>2, UsesFollow DEF Types
<1>5. ASSUME ~disturbed' PROVE Calm'
  BY <1>1, <1>4, <1>5, FireCalm
<1> QED BY <1>2, <1>4, <1>5 DEF IInv

LEMMA RegisterDoes ==
  ASSUME RegOK, RegOK', IInv, NEW t \in Tasks, NEW q \in Properties, Register(t, q)
  PROVE  \E i, kind, now, r : FireStep(t, i, kind, now, r)
<1> DEFINE i == nextId
<1>1. Types /\ ClientsOK /\ TrackersOK
  BY DEF IInv, Types
<1>2. /\ task[t] = Idle /\ Registry!Register(Owner, <<Class>>, Priority[i])
      /\ props' = [props EXCEPT ![i] = q] /\ UNCHANGED trackerVars
      /\ Fire(t, i, "REGISTERED", q, q, Walking # {})
  BY DEF Register, Free
<1>3. /\ i \in Ids /\ i \notin IssuedIds
      /\ \A j \in IssuedIds : reference'[j] = reference[j]
      /\ IssuedIds \subseteq IssuedIds'
      /\ services' = services \union {i}
      /\ using' = using /\ resorted' = resorted
  BY <1>2, Registers
<1>4. i \in IssuedIds'
  BY <1>3 DEF RegOK
<1> HIDE DEF i
<1>5. PICK r : task' = [task EXCEPT ![t] = r] /\ Fired(i, "REGISTERED", q, r)
  BY <1>2, FireDoes
<1>6. disturbed' \in BOOLEAN /\ (~disturbed' => ~disturbed /\ Walking = {})
  BY <1>2, FireDoes
<1>7. \A u \in Calling : task[u].ref # i
  BY <1>1, <1>3, CallingIs DEF ClientsOK, IsCall, Calling
<1>8. opener' \in [Trackers -> Walks']
  <2>1. Seq(IssuedIds) \subseteq Seq(IssuedIds')
    BY <1>3, SeqMonotonic
  <2>2. Walks \subseteq Walks'
    BY <2>1 DEF Walks
  <2>3. opener \in [Trackers -> Walks] /\ opener' = opener
    BY <1>1, <1>2 DEF TrackersOK, trackerVars
  <2> QED BY <2>2, <2>3
<1>9. /\ listening' = listening /\ tracked' = tracked
      /\ \A o \in Trackers : opener'[o].pc = opener[o].pc /\ opener'[o].ref = opener[o].ref
  BY <1>2 DEF trackerVars
<1>10. /\ props' \in [Ids -> Properties] /\ props'[i] = q
       /\ \A j \in Ids : j # i => props'[j] = props[j]
  BY <1>1, <1>2, <1>3 DEF Types
<1>11. i \in services' /\ \A j \in Ids : j # i => (j \in services' <=> j \in services)
  BY <1>3
<1>12. ~resorted'
  BY <1>1, <1>3 DEF Types
<1>13. FireStep(t, i, "REGISTERED", q, r)
  BY <1>2, <1>3, <1>4, <1>5, <1>6, <1>7, <1>8, <1>9, <1>10, <1>11, <1>12 DEF FireStep
<1> QED BY <1>13

LEMMA UnregisterDoes ==
  ASSUME RegOK, RegOK', IInv, NEW t \in Tasks, NEW i \in Ids, Unregister(t, i)
  PROVE  \E kind, now, r : FireStep(t, i, kind, now, r)
<1> DEFINE now == props[i]
<1>1. Types /\ ClientsOK /\ TrackersOK
  BY DEF IInv, Types
<1>2. /\ task[t] = Idle /\ Registry!Unregister(i) /\ UNCHANGED <<listening, tracked, props>>
      /\ Fire(t, i, "UNREGISTERING", now, now, Overlaps(i))
      /\ opener' = [tr \in Trackers |->
           IF classIndex'[Class] = <<>> /\ opener[tr].live
           THEN [opener[tr] EXCEPT !.live = FALSE, !.at = 1] ELSE opener[tr]]
  BY DEF Unregister, Free
<1>3. /\ i \in services /\ services' = services \ {i}
      /\ using' = using /\ Unchanging
  BY <1>2, Unregisters
<1>4. IssuedIds' = IssuedIds /\ i \in IssuedIds
  BY <1>3, SameIssued DEF Unchanging, RegOK
<1> HIDE DEF now
<1>5. PICK r : task' = [task EXCEPT ![t] = r] /\ Fired(i, "UNREGISTERING", now, r)
  BY <1>2, FireDoes
<1>6. disturbed' \in BOOLEAN /\ (~disturbed' => ~disturbed /\ ~Overlaps(i))
  BY <1>2, FireDoes DEF Overlaps
<1>7. ~Overlaps(i) => Walking = {} /\ \A u \in Calling : task[u].ref # i
  BY DEF Overlaps
<1>8. /\ opener' \in [Trackers -> Walks']
      /\ \A o \in Trackers : opener'[o].pc = opener[o].pc /\ opener'[o].ref = opener[o].ref
  <2>1. Walks' = Walks
    BY <1>4 DEF Walks
  <2>2. ASSUME NEW w \in Walks
        PROVE  LET v == [w EXCEPT !.live = FALSE, !.at = 1]
               IN  v \in Walks /\ v.pc = w.pc /\ v.ref = w.ref
    <3> DEFINE u == [w EXCEPT !.live = FALSE]
               v == [u EXCEPT !.at = 1]
    <3>1. u \in Walks /\ u.pc = w.pc /\ u.ref = w.ref
      BY DEF Walks
    <3>2. [w EXCEPT !.live = FALSE, !.at = 1] = v
      OBVIOUS
    <3> HIDE DEF u
    <3>3. v \in Walks /\ v.pc = u.pc /\ v.ref = u.ref
      BY <3>1 DEF Walks
    <3> HIDE DEF v
    <3> QED BY <3>1, <3>2, <3>3
  <2>3. ASSUME NEW o \in Trackers
        PROVE  opener'[o] \in Walks /\ opener'[o].pc = opener[o].pc /\ opener'[o].ref = opener[o].ref
    <3>1. opener[o] \in Walks
      BY <1>1 DEF TrackersOK
    <3>2. opener'[o] = opener[o] \/ opener'[o] = [opener[o] EXCEPT !.live = FALSE, !.at = 1]
      BY <1>2
    <3> QED BY <2>2, <3>1, <3>2
  <2>4. opener' = [tr \in Trackers |-> opener'[tr]]
    BY <1>2
  <2> QED BY <2>1, <2>3, <2>4
<1>9. /\ listening' = listening /\ tracked' = tracked
      /\ props' = props /\ props \in [Ids -> Properties] /\ props[i] = now
  BY <1>1, <1>2 DEF Types, now
<1>10. i \notin services' /\ \A j \in Ids : j # i => (j \in services' <=> j \in services)
  BY <1>3
<1>11. ~resorted'
  BY <1>1, <1>3 DEF Types, Unchanging
<1>12. \A j \in IssuedIds : reference'[j] = reference[j]
  BY <1>3 DEF Unchanging
<1>13. FireStep(t, i, "UNREGISTERING", now, r)
  BY <1>2, <1>3, <1>4, <1>5, <1>6, <1>7, <1>8, <1>9, <1>10, <1>11, <1>12 DEF FireStep
<1> QED BY <1>13

LEMMA ModifyDoes ==
  ASSUME RegOK, RegOK', IInv, NEW t \in Tasks, NEW i \in Ids, NEW q \in Properties,
         Modify(t, i, q)
  PROVE  \E kind, now, r : FireStep(t, i, kind, now, r)
<1>1. Types /\ ClientsOK /\ TrackersOK
  BY DEF IInv, Types
<1>2. /\ task[t] = Idle /\ i \in IssuedIds /\ props' = [props EXCEPT ![i] = q]
      /\ Fire(t, i, "MODIFIED", q, props[i], Overlaps(i) \/ i \notin services)
      /\ UNCHANGED <<trackerVars, registryVars>>
  BY DEF Modify, Free, IssuedIds
<1>3. /\ listening' = listening /\ tracked' = tracked /\ opener' = opener
      /\ services' = services /\ reference' = reference /\ using' = using
      /\ resorted' = resorted
  BY <1>2 DEF trackerVars, registryVars
<1>4. IssuedIds' = IssuedIds
  BY <1>3, SameIssued
<1>5. PICK r : task' = [task EXCEPT ![t] = r] /\ Fired(i, "MODIFIED", q, r)
  BY <1>2, FireDoes
<1>6. /\ disturbed' \in BOOLEAN
      /\ ~disturbed' => ~disturbed /\ ~(Overlaps(i) \/ i \notin services)
  BY <1>2, FireDoes
<1>7. ~Overlaps(i) => Walking = {} /\ \A u \in Calling : task[u].ref # i
  BY DEF Overlaps
<1>8. opener' \in [Trackers -> Walks']
  <2>1. Walks' = Walks
    BY <1>4 DEF Walks
  <2> QED BY <1>1, <1>3, <2>1 DEF TrackersOK
<1>9. /\ props' \in [Ids -> Properties] /\ props'[i] = q
      /\ \A j \in Ids : j # i => props'[j] = props[j]
  BY <1>1, <1>2 DEF Types
<1>10. ~resorted'
  BY <1>1, <1>3 DEF Types
<1>11. FireStep(t, i, "MODIFIED", q, r)
  BY <1>2, <1>3, <1>4, <1>5, <1>6, <1>7, <1>8, <1>9, <1>10 DEF FireStep
<1> QED BY <1>11

-----------------------------------------------------------------------------
(* Every step of the model is one of the registry or leaves it alone.      *)
RegistryMove ==
  \/ \E i \in Ids : Registry!Register(Owner, <<Class>>, Priority[i])
  \/ \E i \in Ids : Registry!Unregister(i)
  \/ \E tr \in Trackers, i \in Ids : Registry!GetService(tr, i) \/ Registry!UngetService(tr, i)
  \/ UNCHANGED registryVars

LEMMA RegistryRefines == RegistryMove => [Reg!Next]_(Reg!vars)
<1>0. Reg!Ids = Ids
  BY DEF Reg!Ids, Ids
<1>1. ASSUME NEW i \in Ids, Registry!Register(Owner, <<Class>>, Priority[i])
      PROVE  Reg!Next
  <2>1. Priority[i] \in (Range(Priority) \ {Unset}) \union {Unset}
    BY TrackerAssumption DEF Range
  <2>2. Reg!Register(Owner, <<Class>>, Priority[i])
    BY <1>1, SameRegister
  <2> QED BY <2>1, <2>2 DEF Reg!Next
<1>2. ASSUME NEW i \in Ids, Registry!Unregister(i)
      PROVE  Reg!Next
  <2>1. Reg!Unregister(i)
    BY <1>2, SameUnregister
  <2> QED BY <1>0, <2>1 DEF Reg!Next
<1>3. ASSUME NEW tr \in Trackers, NEW i \in Ids,
             Registry!GetService(tr, i) \/ Registry!UngetService(tr, i)
      PROVE  Reg!Next
  <2>1. Reg!GetService(tr, i) \/ Reg!UngetService(tr, i)
    BY <1>3, SameUses
  <2> QED BY <1>0, <2>1 DEF Reg!Next
<1> QED BY <1>1, <1>2, <1>3 DEF RegistryMove, registryVars, Reg!vars

LEMMA RegistryMoves ==
  ASSUME IInv, RegOK, Next
  PROVE  RegistryMove
<1>1. Types /\ ClientsOK /\ TrackersOK
  BY DEF IInv, Types
<1>2. ASSUME NEW tr \in Trackers, NEW walk \in Walks, WalkOn(tr, walk)
      PROVE  RegistryMove
  <2>1. Left(walk) \in Seq(IssuedIds)
    BY <1>1, LeftTypes DEF Types
  <2>2. Left(walk) # <<>> => Head(Left(walk)) \in Ids
    BY <2>1, ListHead DEF IssuedIds
  <2> QED BY <1>2, <2>2 DEF WalkOn, RegistryMove
<1>3. ASSUME NEW tr \in Trackers,
             \/ Open(tr) \/ InitialAdded(tr) \/ InitialAddRaises(tr)
             \/ Close(tr) \/ ClosedRemoved(tr) \/ ClosedRemoveRaises(tr)
      PROVE  RegistryMove
  <2>1. CASE Open(tr)
    <3>1. InitialReferences(tr) \in Walks
      BY <1>1, InitialIs
    <3> QED BY <1>2, <2>1, <3>1 DEF Open
  <2>2. CASE InitialAdded(tr)
    <3>1. opener[tr] \in Walks
      BY <1>1 DEF TrackersOK
    <3> QED BY <1>2, <2>2, <3>1 DEF InitialAdded
  <2>3. CASE ClosedRemoved(tr)
    <3>1. opener[tr].ref \in Ids
      BY <1>1, <2>3 DEF ClosedRemoved, TrackersOK, Walking, IssuedIds
    <3> QED BY <2>3, <3>1 DEF ClosedRemoved, RegistryMove
  <2>4. CASE InitialAddRaises(tr) \/ Close(tr) \/ ClosedRemoveRaises(tr)
    BY <2>4 DEF InitialAddRaises, Close, ClosedRemoveRaises, RegistryMove
  <2> QED BY <1>3, <2>1, <2>2, <2>3, <2>4
<1>4. ASSUME NEW t \in Tasks,
             \/ \E q \in Properties : Register(t, q)
             \/ \E i \in Ids : Unregister(t, i)
             \/ \E i \in Ids, q \in Properties : Modify(t, i, q)
      PROVE  RegistryMove
  BY <1>4 DEF Register, Unregister, Modify, RegistryMove
<1>5. ASSUME NEW t \in Tasks, NEW tr \in Trackers,
             \/ CallModified(t, tr) \/ CallAdding(t, tr) \/ CallRemoved(t, tr)
             \/ Ignore(t, tr) \/ Added(t, tr) \/ Modified(t, tr) \/ Removed(t, tr)
             \/ ListenerRaises(t, tr)
      PROVE  RegistryMove
  <2>1. CASE CallAdding(t, tr) \/ Removed(t, tr)
    <3>1. tr \in DOMAIN task[t].pending
      BY <2>1 DEF CallAdding, Removed, Turn, Awaited
    <3>2. task[t].ref \in Ids
      BY <1>1, <3>1 DEF ClientsOK, IsCall, IssuedIds
    <3> QED BY <2>1, <3>2 DEF CallAdding, Removed, RegistryMove
  <2>2. CASE \/ CallModified(t, tr) \/ CallRemoved(t, tr) \/ Ignore(t, tr)
             \/ Added(t, tr) \/ Modified(t, tr) \/ ListenerRaises(t, tr)
    BY <2>2 DEF CallModified, CallRemoved, Ignore, Added, Modified, ListenerRaises, RegistryMove
  <2> QED BY <1>5, <2>1, <2>2
<1> QED BY <1>3, <1>4, <1>5 DEF Next

-----------------------------------------------------------------------------
LEMMA StepKeeps ==
  ASSUME RegOK, RegOK', IInv, Next
  PROVE  IInv'
<1>1. ASSUME NEW tr \in Trackers,
             \/ Open(tr) \/ InitialAdded(tr) \/ InitialAddRaises(tr)
             \/ Close(tr) \/ ClosedRemoved(tr) \/ ClosedRemoveRaises(tr)
      PROVE  IInv'
  <2>1. \E w, l : WalkerStep(tr, w, l)
    BY <1>1, OpenDoes, InitialAddedDoes, RaisesDoes, CloseDoes
  <2> QED BY <2>1, WalkerKeeps
<1>2. ASSUME NEW t \in Tasks,
             \/ \E q \in Properties : Register(t, q)
             \/ \E i \in Ids : Unregister(t, i)
             \/ \E i \in Ids, q \in Properties : Modify(t, i, q)
      PROVE  IInv'
  <2>1. \E i, kind, now, r : FireStep(t, i, kind, now, r)
    <3>1. CASE \E q \in Properties : Register(t, q)
      BY <3>1, RegisterDoes
    <3>2. CASE \E i \in Ids : Unregister(t, i)
      BY <3>2, UnregisterDoes
    <3>3. CASE \E i \in Ids, q \in Properties : Modify(t, i, q)
      BY <3>3, ModifyDoes
    <3> QED BY <1>2, <3>1, <3>2, <3>3
  <2> QED BY <2>1, FireKeeps
<1>3. ASSUME NEW t \in Tasks, NEW tr \in Trackers,
             \/ CallModified(t, tr) \/ CallAdding(t, tr) \/ CallRemoved(t, tr)
             \/ Ignore(t, tr) \/ Added(t, tr) \/ Modified(t, tr) \/ Removed(t, tr)
             \/ ListenerRaises(t, tr)
      PROVE  IInv'
  <2>1. tr \in DOMAIN task[t].pending
    BY <1>3 DEF CallModified, CallAdding, CallRemoved, Ignore, Added, Modified, Removed,
                ListenerRaises, Turn, Awaited
  <2>2. \E r, l : DeliveryStep(t, tr, r, l)
    BY <1>3, <2>1, CallModifiedDoes, CallAddingDoes, CallRemovedDoes, AddedDoes,
       RemovedDoes, EndsDoes
  <2> QED BY <2>1, <2>2, DeliveryKeeps
<1> QED BY <1>1, <1>2, <1>3 DEF Next

LEMMA RegOKNext == Reg!IInv' => RegOK'
BY RegistrySays, PTL

LEMMA StutterKeeps == ASSUME UNCHANGED vars, IInv PROVE IInv'
<1>1. /\ UNCHANGED <<listening, tracked, opener, task, props, disturbed>>
      /\ UNCHANGED <<services, reference, classIndex, using, resorted>>
  BY DEF vars, trackerVars, clientVars, registryVars
<1>2. /\ IssuedIds' = IssuedIds /\ Walks' = Walks /\ Walking' = Walking /\ Calling' = Calling
      /\ \A i, j : Before(i, j)' <=> Before(i, j)
      /\ \A r : IsCall(r)' <=> IsCall(r)
  <2>1. IssuedIds' = IssuedIds /\ \A i, j : Before(i, j)' <=> Before(i, j)
    BY <1>1, SameIssued
  <2> QED BY <1>1, <2>1 DEF Walks, Walking, Calling, IsCall
<1>3. Types'
  <2>1. TrackersOK'
    BY <1>1, <1>2 DEF IInv, Types, TrackersOK
  <2>2. ClientsOK'
    BY <1>1, <1>2 DEF IInv, Types, ClientsOK, IsCall
  <2> QED BY <1>1, <2>1, <2>2 DEF IInv, Types
<1>4. \A tr \in Trackers, i \in Ids : Owed(tr, i)' = Owed(tr, i)
  BY <1>1 DEF Owed, Awaited
<1>5. UsesCovered' /\ (UsesExact => UsesExact')
  BY <1>1, <1>4 DEF IInv, UsesCovered, UsesExact
<1>6. Apart => Apart'
  BY <1>1, <1>2 DEF Apart
<1>7. \A tr \in Trackers : TrackerCalm(tr) => TrackerCalm(tr)'
  <2> SUFFICES ASSUME NEW tr \in Trackers, TrackerCalm(tr) PROVE TrackerCalm(tr)'
    OBVIOUS
  <2>1. Held(tr)' = Held(tr) /\ Matching(tr)' = Matching(tr) /\ Left(opener[tr])' = Left(opener[tr])
    BY <1>1 DEF Held, Matching, Matches, Left
  <2>2. \A s : Ascends(s)' <=> Ascends(s)
    BY <1>2 DEF Ascends
  <2>3. Ascends(tracked[tr])'
    BY <1>1, <2>2 DEF TrackerCalm
  <2>4. WalkRight(tr)'
    <3>1. Ascends(Left(opener[tr])') <=> Ascends(Left(opener[tr]))
      BY <2>1
    <3> QED BY <1>1, <1>2, <2>1, <2>2, <3>1
            DEF TrackerCalm, WalkRight, AddingRight, RemovingRight, Ascends
  <2>5. Following(tr)'
    BY <1>1, <2>1 DEF TrackerCalm, Following, Matches
  <2> QED BY <2>3, <2>4, <2>5 DEF TrackerCalm
<1>8. \A t \in Tasks : \A tr \in DOMAIN task[t].pending : DeliveryRight(t, tr) => DeliveryRight(t, tr)'
  BY <1>1 DEF DeliveryRight, RightOf, Matches, Held
<1>9. Calm => Calm'
  BY <1>1, <1>5, <1>6, <1>7, <1>8 DEF Calm
<1> QED BY <1>1, <1>3, <1>5, <1>9 DEF IInv

Inv == Reg!IInv /\ IInv

LEMMA StepKeepsInv == Inv /\ [Next]_vars => Inv'
<1> SUFFICES ASSUME Inv, [Next]_vars PROVE Inv'
  OBVIOUS
<1>1. CASE UNCHANGED vars
  <2>1. UNCHANGED Reg!vars
    BY <1>1 DEF vars, registryVars, Reg!vars
  <2>2. Reg!IInv'
    BY <2>1, Reg!StepKeepsIInv, RegistryConstants DEF Inv
  <2>3. IInv'
    BY <1>1, StutterKeeps DEF Inv
  <2> QED BY <2>2, <2>3 DEF Inv
<1>2. CASE Next
  <2>1. RegOK /\ IInv
    BY RegistrySays DEF Inv
  <2>2. [Reg!Next]_(Reg!vars)
    BY <1>2, <2>1, RegistryMoves, RegistryRefines
  <2>3. Reg!IInv'
    BY <2>2, Reg!StepKeepsIInv, RegistryConstants DEF Inv
  <2>4. IInv'
    BY <1>2, <2>1, <2>3, RegOKNext, StepKeeps
  <2> QED BY <2>3, <2>4 DEF Inv
<1> QED BY <1>1, <1>2

LEMMA InitInv == Init => Inv
<1> SUFFICES ASSUME Init PROVE Inv
  OBVIOUS
<1>1. Reg!IInv
  BY SameInit, Reg!InitEstablishesIInv, RegistryConstants DEF Init
<1>2. RegOK
  BY <1>1, RegistrySays
<1>3. /\ listening = {} /\ tracked = [tr \in Trackers |-> <<>>]
      /\ opener = [tr \in Trackers |-> Closed] /\ task = [t \in Tasks |-> Idle]
      /\ props \in [Ids -> Properties] /\ disturbed = FALSE
  <2>1. (CHOOSE q \in Properties : TRUE) \in Properties
    BY TrackerAssumption
  <2> QED BY <2>1 DEF Init
<1>4. /\ ~resorted /\ services = {}
      /\ using = [b \in Trackers \union {Owner} |-> [i \in Ids |-> 0]]
  BY DEF Init, Registry!Init, Registry!Ids, Ids
<1>5. <<>> \in Seq(IssuedIds) /\ Len(<<>>) = 0 /\ Range(<<>>) = {}
  BY EmptySeq DEF Range
<1>6. Types
  <2>1. TrackersOK
    BY <1>3, <1>5, ClosedAndOpened DEF TrackersOK, Walking
  <2>2. ClientsOK
    BY <1>3, IdleIs DEF ClientsOK
  <2> QED BY <1>3, <1>4, <2>1, <2>2 DEF Types
<1>7. Walking = {} /\ Calling = {}
  BY <1>3, ClosedAndOpened DEF Walking, Calling
<1>8. ASSUME NEW tr \in Trackers, NEW i \in Ids
      PROVE  Owed(tr, i) = 0 /\ using[tr][i] = 0
  <2>1. InHand(tr, i) = 0
    BY <1>3, <1>5, ClosedAndOpened DEF InHand, InHandOf
  <2>2. Telling(tr, i) = {}
    BY <1>3, IdleIs DEF Telling, Tells
  <2>3. Cardinality(Telling(tr, i)) = 0
    BY <2>2, FS_EmptySet
  <2>4. Owed(tr, i) = InHand(tr, i) + Cardinality(Telling(tr, i))
    BY <1>6, OwedIs DEF OwedSplits, Types
  <2> QED BY <1>4, <2>1, <2>3, <2>4
<1>9. UsesCovered /\ UsesExact
  BY <1>8 DEF UsesCovered, UsesExact
<1>10. \A tr \in Trackers : TrackerCalm(tr)
  BY <1>3, <1>5, ClosedAndOpened DEF TrackerCalm, Ascends, WalkRight, Following
<1>11. Calm
  BY <1>3, <1>7, <1>9, <1>10, IdleIs DEF Calm, Apart
<1> QED BY <1>1, <1>6, <1>9, <1>11 DEF Inv, IInv

-----------------------------------------------------------------------------
LEMMA InvSays == Inv => UsesCovered /\ SettledExactly /\ TrackedInOrder
<1> SUFFICES ASSUME Inv PROVE UsesCovered /\ SettledExactly /\ TrackedInOrder
  OBVIOUS
<1>1. RegOK /\ Types /\ UsesCovered /\ (~disturbed => Calm)
  BY RegistrySays DEF Inv, IInv
<1>2. ASSUME ~disturbed, Walking = {}, Calling = {}, NEW tr \in Trackers
      PROVE  /\ {i \in Range(tracked[tr]) : Matches(tr, i)} =
                  IF opener[tr].pc = "open" THEN {i \in services : Matches(tr, i)} ELSE {}
             /\ opener[tr].pc = "closed" => tracked[tr] = <<>>
             /\ \A i \in Ids : using[tr][i] = IF Contains(tracked[tr], i) THEN 1 ELSE 0
  <2>1. TrackerCalm(tr) /\ UsesExact
    BY <1>1, <1>2 DEF Calm
  <2>2. tracked[tr] \in Seq(IssuedIds) /\ opener[tr].pc \in {"closed", "open"}
    BY <1>1, <1>2 DEF Types, TrackersOK, Walking, Walks
  <2>3. opener[tr].pc = "closed" => tracked[tr] = <<>>
    BY <2>1 DEF TrackerCalm, WalkRight
  <2>4. \A t \in Tasks : DOMAIN task[t].pending = {}
    BY <1>1, <1>2, CallingIs DEF Types
  <2>5. Range(tracked[tr]) \subseteq Ids /\ services \subseteq Ids
    BY <1>1, <2>2, ListTypes DEF RegOK, IssuedIds
  <2>6. opener[tr].pc = "open" =>
          {i \in Range(tracked[tr]) : Matches(tr, i)} = {i \in services : Matches(tr, i)}
    BY <2>1, <2>4, <2>5 DEF TrackerCalm, Following, Held
  <2>7. Range(<<>>) = {}
    BY EmptySeq DEF Range
  <2>8. ASSUME NEW i \in Ids PROVE using[tr][i] = IF Contains(tracked[tr], i) THEN 1 ELSE 0
    <3>1. Telling(tr, i) = {}
      BY <2>4 DEF Telling, Tells
    <3>2. Cardinality(Telling(tr, i)) = 0
      BY <3>1, FS_EmptySet
    <3>3. Owed(tr, i) = InHand(tr, i) + Cardinality(Telling(tr, i)) /\ Owed(tr, i) = using[tr][i]
      BY <1>1, <2>1, OwedIs DEF OwedSplits, Types, UsesExact
    <3>4. InHand(tr, i) = IF Contains(tracked[tr], i) THEN 1 ELSE 0
      BY <2>2, ListTypes DEF InHand, InHandOf
    <3> QED BY <3>2, <3>3, <3>4
  <2> QED BY <2>2, <2>3, <2>6, <2>7, <2>8
<1>3. SettledExactly
  BY <1>2 DEF SettledExactly
<1>4. TrackedInOrder
  <2>1. ASSUME ~disturbed, NEW tr \in Trackers PROVE tracked[tr] = Ordered(Range(tracked[tr]))
    BY <1>1, <2>1, AscendsIsOrdered DEF Calm, TrackerCalm, Types, TrackersOK
  <2> QED BY <2>1 DEF TrackedInOrder
<1> QED BY <1>1, <1>3, <1>4

(* The inductive invariant: the registry's own, the types and UsesCovered  *)
(* always, and while no call disturbed another what Calm says of the       *)
(* registry, the deliveries under way and each tracker (trackers.py;       *)
(* events.py, fire_event).                                                 *)
THEOREM Invariance == Spec => []Inv
BY InitInv, StepKeepsInv, PTL DEF Spec

(* A tracker never returns a use it does not have (trackers.py, open,      *)
(* close and service_changed; registry.py, unget_service), however its     *)
(* open and close, the events and the listener's failures interleave.      *)
THEOREM UsesAreCovered == Spec => []UsesCovered
BY Invariance, InvSays, PTL

(* While no call disturbed another, a tracker at rest tracks the           *)
(* registered services its query matches, no others, with one use of each  *)
(* (trackers.py, track and untrack; events.py, fire_event).                *)
THEOREM TrackersSettle == Spec => []SettledExactly
BY Invariance, InvSays, PTL

(* As long, what a tracker holds is in the order of priorities at every    *)
(* moment, in the middle of its open too (trackers.py, track and           *)
(* track_initial).                                                         *)
THEOREM TrackedStaysInOrder == Spec => []TrackedInOrder
BY Invariance, InvSays, PTL
=============================================================================
