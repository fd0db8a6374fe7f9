----------------------- MODULE ServiceRegistryProofs -----------------------
(***************************************************************************)
(* The registry's invariants hold for every set of bundles, classes and    *)
(* priorities and every number of services.                                *)
(***************************************************************************)
EXTENDS ServiceRegistry, BisectProofs

(* An id that was not issued has left no trace, and what is registered was *)
(* issued, before the next id.                                             *)
UnissuedIsBlank ==
  /\ \A i \in Ids : Issued(i) => i < nextId
  /\ \A i \in services : Issued(i)
  /\ \A b \in Bundles, i \in Ids :
       ~Issued(i) => using[b][i] = 0 /\ usedBy[i][b] = 0 /\ i \notin bundleServices[b]

IInv ==
  TypeOK /\ UnissuedIsBlank /\ OwnerListsCover /\ UsageBooksAgree /\ LookupExact

LEMMA ReferenceTypes ==
  /\ NoReference \notin References
  /\ Sorts \subseteq Int
  /\ \A r \in References : /\ r.bundle \in Bundles
                           /\ r.classes \in ClassTuples
                           /\ r.classes \in Seq(Classes)
                           /\ r.sort \in Sorts
BY ConstantsAssumption DEF References, Sorts, DefaultPriority

LEMMA IssuedTypes ==
  ASSUME TypeOK, NEW i \in Ids, Issued(i)
  PROVE  /\ reference[i] \in References
         /\ reference[i].bundle \in Bundles
         /\ reference[i].classes \in Seq(Classes)
         /\ reference[i].sort \in Sorts
BY ReferenceTypes DEF TypeOK, Issued

(* The sort values of a list of class references.                          *)
Values(c) == [k \in DOMAIN classIndex[c] |-> SortValue(classIndex[c][k])]

LEMMA ValuesProperties ==
  ASSUME TypeOK, NEW c \in Classes
  PROVE  /\ classIndex[c] \in Seq(Ids)
         /\ Len(classIndex[c]) \in Nat
         /\ DOMAIN classIndex[c] = 1..Len(classIndex[c])
         /\ \A k \in 1..Len(classIndex[c]) : classIndex[c][k] \in Ids
         /\ Len(Values(c)) = Len(classIndex[c])
         /\ \A k \in 1..Len(classIndex[c]) : Values(c)[k] = SortValue(classIndex[c][k])
<1>1. classIndex[c] \in Seq(Ids)
  BY DEF TypeOK
<1> DEFINE s == classIndex[c]
<1>2. Len(s) \in Nat /\ DOMAIN s = 1..Len(s)
  BY <1>1, LenProperties
<1>3. \A k \in 1..Len(s) : s[k] \in Ids
  BY <1>1, <1>2, ElementOfSeq
<1>4. Values(c) \in Seq(Range(Values(c))) /\ DOMAIN Values(c) = 1..Len(s)
  <2>1. DOMAIN Values(c) = 1..Len(s)
    BY <1>2 DEF Values
  <2>2. Values(c) \in [1..Len(s) -> Range(Values(c))]
    BY <2>1, <1>2 DEF Values, Range
  <2> QED BY <2>1, <2>2, <1>2, SeqDef
<1>5. Len(Values(c)) = Len(s)
  BY <1>2, <1>4, LenProperties
<1> QED BY <1>1, <1>2, <1>3, <1>5 DEF Values

LEMMA PositionType ==
  ASSUME TypeOK, NEW c \in Classes, NEW x
  PROVE  Position(c, x) \in 1..(Len(classIndex[c]) + 1)
<1>1. BisectLeft(Values(c), x) \in 0..Len(classIndex[c])
  BY ValuesProperties, BisectLeftSplits
<1>2. Position(c, x) = 1 + BisectLeft(Values(c), x)
  BY DEF Position, Values
<1> QED BY <1>1, <1>2, ValuesProperties

-----------------------------------------------------------------------------
LEMMA InitEstablishesIInv == Init => IInv
<1> SUFFICES ASSUME Init PROVE IInv
  OBVIOUS
<1>1. TypeOK
  <2>1. nextId \in 1..(MaxServices + 1)
    BY ConstantsAssumption DEF Init
  <2>2. classIndex \in [Classes -> Seq(Ids)]
    <3>1. <<>> \in Seq(Ids)
      BY EmptySeq
    <3> QED BY <3>1 DEF Init
  <2> QED BY <2>1, <2>2 DEF Init, TypeOK
<1>2. \A i \in Ids : ~Issued(i)
  BY DEF Init, Issued
<1>3. UnissuedIsBlank /\ OwnerListsCover /\ UsageBooksAgree
  BY <1>2 DEF Init, UnissuedIsBlank, OwnerListsCover, UsageBooksAgree, Registered
<1>4. LookupExact
  BY DEF Init, LookupExact, FindReferences, Registered, Range
<1> QED BY <1>1, <1>3, <1>4 DEF IInv

LEMMA TypeStep ==
  ASSUME IInv, [Next]_vars
  PROVE  TypeOK'
<1> USE DEF IInv
<1>1. ASSUME NEW b \in Bundles, NEW cs \in ClassTuples,
             NEW p \in Priorities \union {Unset}, Register(b, cs, p)
      PROVE  TypeOK'
  <2> DEFINE sort == IF p = Unset THEN DefaultPriority ELSE p
  <2>1. sort \in Sorts /\ nextId \in Ids /\ nextId + 1 \in 1..(MaxServices + 1)
    BY <1>1, ConstantsAssumption DEF Register, TypeOK, Sorts, Ids
  <2>2. reference' \in [Ids -> References \union {NoReference}]
    BY <1>1, <2>1 DEF Register, NewId, TypeOK, References
  <2>3. classIndex' \in [Classes -> Seq(Ids)]
    <3>1. ASSUME NEW c \in Classes
          PROVE  InsertAt(classIndex[c], Position(c, <<sort, nextId>>), nextId) \in Seq(Ids)
      BY <2>1, PositionType, ValuesProperties, InsertAtProperties
    <3>2. classIndex' = [c \in Classes |->
            IF c \in Range(cs)
            THEN InsertAt(classIndex[c], Position(c, <<sort, nextId>>), nextId)
            ELSE classIndex[c]]
      BY <1>1 DEF Register, NewId
    <3> QED BY <3>1, <3>2, ValuesProperties
  <2>4. services' \subseteq Ids /\ bundleServices' \in [Bundles -> SUBSET Ids]
    BY <1>1, <2>1 DEF Register, NewId, TypeOK
  <2> QED BY <1>1, <2>1, <2>2, <2>3, <2>4 DEF Register, TypeOK, books
<1>2. CASE RegisterRejected
  BY <1>2, ConstantsAssumption DEF RegisterRejected, TypeOK, books, Ids
<1>3. ASSUME NEW i \in Ids, Unregister(i) PROVE TypeOK'
  <2>1. Issued(i) /\ reference[i].bundle \in Bundles /\ reference[i].classes \in Seq(Classes)
    BY <1>3, IssuedTypes DEF Unregister, UnissuedIsBlank
  <2>2. bundleServices' \in [Bundles -> SUBSET Ids]
    BY <1>3, <2>1 DEF Unregister, Disowned, TypeOK
  <2>3. classIndex' \in [Classes -> Seq(Ids)]
    <3>1. ASSUME NEW c \in UnlistedClasses(i)
          PROVE  c \in Classes /\ Position(c, SortValue(i)) <= Len(classIndex[c])
      <4> DEFINE cs == reference[i].classes
      <4>1. PICK k \in DOMAIN cs :
              /\ c = cs[k]
              /\ \A j \in 1..k : Position(cs[j], SortValue(i)) <= Len(classIndex[cs[j]])
        BY DEF UnlistedClasses
      <4>2. k \in 1..Len(cs) /\ cs[k] \in Classes /\ Len(cs) \in Nat
        BY <2>1, LenProperties, ElementOfSeq
      <4>3. k \in 1..k
        BY <4>2
      <4> QED BY <4>1, <4>2, <4>3
    <3>2. ASSUME NEW c \in UnlistedClasses(i)
          PROVE  RemoveAt(classIndex[c], Position(c, SortValue(i))) \in Seq(Ids)
      <4>1. Position(c, SortValue(i)) \in 1..Len(classIndex[c])
        BY <3>1, PositionType, ValuesProperties
      <4> QED BY <3>1, <4>1, ValuesProperties, RemoveAtProperties
    <3>3. classIndex' = [c \in Classes |->
            IF c \in UnlistedClasses(i)
            THEN RemoveAt(classIndex[c], Position(c, SortValue(i)))
            ELSE classIndex[c]]
      BY <1>3 DEF Unregister
    <3> QED BY <3>2, <3>3, ValuesProperties
  <2> QED BY <1>3, <2>2, <2>3 DEF Unregister, TypeOK, books
<1>4. ASSUME NEW i \in Ids, NEW p \in Priorities, SetProperties(i, p) PROVE TypeOK'
  <2>1. reference[i] \in References /\ [reference[i] EXCEPT !.sort = p] \in References
    BY <1>4, IssuedTypes DEF SetProperties, References, Sorts
  <2>2. reference' \in [Ids -> References \union {NoReference}]
    BY <1>4, <2>1 DEF SetProperties, TypeOK
  <2> QED BY <1>4, <2>2 DEF SetProperties, TypeOK, books
<1>5. ASSUME NEW b \in Bundles, NEW i \in Ids, GetService(b, i) PROVE TypeOK'
  BY <1>5 DEF GetService, TypeOK, used_by
<1>6. ASSUME NEW b \in Bundles, NEW i \in Ids, UngetService(b, i) PROVE TypeOK'
  BY <1>6 DEF UngetService, TypeOK, unused_by, Lowered
<1>7. CASE UNCHANGED vars
  BY <1>7 DEF vars, TypeOK
<1> QED BY <1>1, <1>2, <1>3, <1>4, <1>5, <1>6, <1>7 DEF Next

LEMMA BooksStep ==
  ASSUME IInv, [Next]_vars
  PROVE  UnissuedIsBlank' /\ OwnerListsCover' /\ UsageBooksAgree'
<1> USE DEF IInv
<1>0. nextId \in Ids => ~Issued(nextId)
  BY DEF UnissuedIsBlank, TypeOK
<1>1. ASSUME NEW b \in Bundles, NEW cs \in ClassTuples,
             NEW p \in Priorities \union {Unset}, Register(b, cs, p)
      PROVE  UnissuedIsBlank' /\ OwnerListsCover' /\ UsageBooksAgree'
  <2>1. /\ nextId \in Ids /\ nextId \in Nat /\ nextId' = nextId + 1
        /\ services' = services \union {nextId}
        /\ \A i \in Ids \ {nextId} : reference'[i] = reference[i]
        /\ reference'[nextId].bundle = b /\ reference'[nextId] # NoReference
        /\ bundleServices' = [bundleServices EXCEPT ![b] = @ \union {nextId}]
        /\ using' = using /\ usedBy' = usedBy
    <3>1. IF p = Unset THEN DefaultPriority \in Sorts ELSE p \in Sorts
      BY DEF Sorts
    <3>2. reference'[nextId] = [bundle |-> b, classes |-> cs,
                sort |-> IF p = Unset THEN DefaultPriority ELSE p]
      BY <1>1 DEF Register, NewId, TypeOK
    <3>3. reference'[nextId] \in References
      BY <3>1, <3>2 DEF References
    <3>4. nextId \in Nat
      BY DEF TypeOK
    <3> QED BY <1>1, <3>2, <3>3, <3>4, ReferenceTypes DEF Register, NewId, TypeOK, books
  <2>2. \A c \in Bundles : nextId \notin bundleServices[c] /\ using[c][nextId] = 0 /\ usedBy[nextId][c] = 0
    BY <2>1, <1>0 DEF UnissuedIsBlank
  <2>3. UnissuedIsBlank'
    BY <2>1, <2>2 DEF UnissuedIsBlank, Issued, TypeOK, Ids
  <2>4. OwnerListsCover'
    <3> SUFFICES ASSUME NEW c \in Bundles
                 PROVE  /\ Registered(c)' \subseteq bundleServices'[c]
                        /\ \A i \in bundleServices'[c] : reference'[i].bundle = c
      BY DEF OwnerListsCover
    <3>1. services \subseteq Ids /\ bundleServices[c] \subseteq Ids /\ nextId \notin services
      BY <2>1, <1>0 DEF UnissuedIsBlank, TypeOK
    <3>2. bundleServices'[c] = IF c = b THEN bundleServices[c] \union {nextId} ELSE bundleServices[c]
      BY <2>1 DEF TypeOK
    <3>3. Registered(c)' = IF c = b THEN Registered(c) \union {nextId} ELSE Registered(c)
      BY <2>1, <3>1 DEF Registered
    <3>4. Registered(c) \subseteq bundleServices[c]
      BY DEF OwnerListsCover
    <3>5. ASSUME NEW i \in bundleServices'[c] PROVE reference'[i].bundle = c
      <4>1. CASE i = nextId
        BY <2>1, <2>2, <3>2, <3>5, <4>1
      <4>2. CASE i # nextId
        <5>1. i \in bundleServices[c] /\ i \in Ids
          BY <3>1, <3>2, <3>5, <4>2
        <5> QED BY <2>1, <4>2, <5>1 DEF OwnerListsCover
      <4> QED BY <4>1, <4>2
    <3> QED BY <3>2, <3>3, <3>4, <3>5
  <2>5. UsageBooksAgree'
    BY <2>1, <2>2, <1>0 DEF UsageBooksAgree, UnissuedIsBlank, Issued, TypeOK
  <2> QED BY <2>3, <2>4, <2>5
<1>2. CASE RegisterRejected
  <2>1. UnissuedIsBlank'
    BY <1>2 DEF RegisterRejected, UnissuedIsBlank, Issued, TypeOK, books, Ids
  <2> QED BY <1>2, <2>1 DEF RegisterRejected, OwnerListsCover, Registered, UsageBooksAgree,
                            Issued, books
<1>3. ASSUME NEW i \in Ids, Unregister(i)
      PROVE  UnissuedIsBlank' /\ OwnerListsCover' /\ UsageBooksAgree'
  <2>1. /\ services' = services \ {i}
        /\ nextId' = nextId /\ reference' = reference
        /\ using' = using /\ usedBy' = usedBy
        /\ bundleServices' = bundleServices \/ bundleServices' = Disowned(i)
    BY <1>3 DEF Unregister, books
  <2>2. \A b \in Bundles : /\ bundleServices'[b] \subseteq bundleServices[b]
                           /\ bundleServices[b] \ {i} \subseteq bundleServices'[b]
    BY <2>1 DEF Disowned, TypeOK
  <2>3. UnissuedIsBlank'
    BY <2>1, <2>2 DEF UnissuedIsBlank, Issued
  <2>4. OwnerListsCover'
    BY <2>1, <2>2 DEF OwnerListsCover, Registered
  <2>5. UsageBooksAgree'
    BY <2>1 DEF UsageBooksAgree, Issued
  <2> QED BY <2>3, <2>4, <2>5
<1>4. ASSUME NEW i \in Ids, NEW p \in Priorities, SetProperties(i, p)
      PROVE  UnissuedIsBlank' /\ OwnerListsCover' /\ UsageBooksAgree'
  <2>1. \A j \in Ids : Issued(j)' = Issued(j) /\ (Issued(j) => reference'[j].bundle = reference[j].bundle)
    <3>1. reference[i] \in References /\ [reference[i] EXCEPT !.sort = p] \in References
      BY <1>4, IssuedTypes DEF SetProperties, References, Sorts
    <3>2. reference' = [reference EXCEPT ![i] = [reference[i] EXCEPT !.sort = p]]
      BY <1>4 DEF SetProperties
    <3>3. [reference[i] EXCEPT !.sort = p].bundle = reference[i].bundle
      BY <3>1 DEF References
    <3> QED BY <3>1, <3>2, <3>3, ReferenceTypes DEF Issued, TypeOK
  <2>2. UnissuedIsBlank'
    BY <1>4, <2>1 DEF SetProperties, UnissuedIsBlank, TypeOK, books
  <2>3. OwnerListsCover'
    BY <1>4, <2>1 DEF SetProperties, OwnerListsCover, Registered, UnissuedIsBlank, TypeOK
  <2>4. UsageBooksAgree'
    BY <1>4, <2>1 DEF SetProperties, UsageBooksAgree, UnissuedIsBlank, TypeOK, books
  <2> QED BY <2>2, <2>3, <2>4
<1>5. ASSUME NEW b \in Bundles, NEW i \in Ids, GetService(b, i)
      PROVE  UnissuedIsBlank' /\ OwnerListsCover' /\ UsageBooksAgree'
  <2>1. UnissuedIsBlank' /\ OwnerListsCover'
    BY <1>5 DEF GetService, used_by, UnissuedIsBlank, OwnerListsCover, Registered, Issued, TypeOK
  <2>2. UsageBooksAgree'
    BY <1>5 DEF GetService, used_by, UsageBooksAgree, Issued, TypeOK
  <2> QED BY <2>1, <2>2
<1>6. ASSUME NEW b \in Bundles, NEW i \in Ids, UngetService(b, i)
      PROVE  UnissuedIsBlank' /\ OwnerListsCover' /\ UsageBooksAgree'
  <2>1. UnissuedIsBlank' /\ OwnerListsCover'
    BY <1>6 DEF UngetService, unused_by, Lowered, UnissuedIsBlank, OwnerListsCover, Registered,
                Issued, TypeOK
  <2>2. UsageBooksAgree'
    BY <1>6 DEF UngetService, unused_by, Lowered, UsageBooksAgree, Issued, TypeOK
  <2> QED BY <2>1, <2>2
<1>7. CASE UNCHANGED vars
  BY <1>7 DEF vars, books, UnissuedIsBlank, OwnerListsCover, Registered, UsageBooksAgree, Issued
<1> QED BY <1>1, <1>2, <1>3, <1>4, <1>5, <1>6, <1>7 DEF Next

-----------------------------------------------------------------------------
(* The two halves of LookupExact, for one class and one owner.             *)
ClassExact(c) ==
  /\ Ascending(Values(c), Len(classIndex[c]))
  /\ Range(classIndex[c]) = {i \in services : c \in Range(reference[i].classes)}

ListsExact ==
  ~resorted => /\ \A c \in Classes : ClassExact(c)
               /\ \A b \in Bundles : bundleServices[b] = Registered(b)

LEMMA LookupExactIs == TypeOK => (LookupExact <=> ListsExact)
<1> SUFFICES ASSUME TypeOK PROVE LookupExact <=> ListsExact
  OBVIOUS
<1>1. ASSUME NEW c \in Classes
      PROVE  ClassExact(c) <=>
               /\ \A j, k \in DOMAIN classIndex[c] :
                    j < k => Less(SortValue(classIndex[c][j]), SortValue(classIndex[c][k]))
               /\ Range(classIndex[c]) = {i \in services : c \in Range(reference[i].classes)}
  BY ValuesProperties DEF ClassExact, Ascending
<1> QED BY <1>1 DEF LookupExact, FindReferences, ListsExact

(* What the elements of an exact class list are.                           *)
LEMMA ClassExactElements ==
  ASSUME TypeOK, UnissuedIsBlank, NEW c \in Classes, ClassExact(c)
  PROVE  /\ \A j \in 1..Len(classIndex[c]) :
              /\ classIndex[c][j] \in services /\ classIndex[c][j] \in Ids
              /\ Values(c)[j] = SortValue(classIndex[c][j])
              /\ Values(c)[j] \in Int \X Int
         /\ \A j, l \in 1..Len(classIndex[c]) : j # l => classIndex[c][j] # classIndex[c][l]
<1>1. ASSUME NEW j \in 1..Len(classIndex[c])
      PROVE  /\ classIndex[c][j] \in services /\ classIndex[c][j] \in Ids
             /\ Values(c)[j] = SortValue(classIndex[c][j])
             /\ Values(c)[j] \in Int \X Int
  <2>1. classIndex[c][j] \in services /\ classIndex[c][j] \in Ids
    BY ValuesProperties DEF ClassExact, Range
  <2>2. reference[classIndex[c][j]].sort \in Int
    BY <2>1, IssuedTypes, ReferenceTypes DEF UnissuedIsBlank
  <2>3. SortValue(classIndex[c][j]) \in Int \X Int
    BY <2>1, <2>2 DEF SortValue, Ids
  <2> QED BY <2>1, <2>3, ValuesProperties
<1>2. ASSUME NEW j \in 1..Len(classIndex[c]), NEW l \in 1..Len(classIndex[c]), j < l
      PROVE  classIndex[c][j] # classIndex[c][l]
  <2>1. Less(Values(c)[j], Values(c)[l])
    BY <1>2 DEF ClassExact, Ascending
  <2>2. ~Less(Values(c)[j], Values(c)[j])
    BY <1>1 DEF Less
  <2> QED BY <1>1, <2>1, <2>2
<1>3. ASSUME NEW j \in 1..Len(classIndex[c]), NEW l \in 1..Len(classIndex[c]), j # l
      PROVE  classIndex[c][j] # classIndex[c][l]
  <2>1. j < l \/ l < j
    BY <1>3, ValuesProperties
  <2> QED BY <1>2, <2>1
<1> QED BY <1>1, <1>3

(* A list no element of which is touched stays exact.                      *)
LEMMA ClassExactFrame ==
  ASSUME IInv, TypeOK', NEW c \in Classes, ClassExact(c),
         classIndex'[c] = classIndex[c],
         \A i \in Range(classIndex[c]) : reference'[i] = reference[i],
         {i \in services' : c \in Range(reference'[i].classes)} =
           {i \in services : c \in Range(reference[i].classes)}
  PROVE  ClassExact(c)'
<1>1. \A j \in 1..Len(classIndex[c]) : Values(c)'[j] = Values(c)[j]
  BY ValuesProperties DEF Values, SortValue, Range, IInv
<1> QED BY <1>1 DEF ClassExact, Ascending

LEMMA RegisterLookupStep ==
  ASSUME IInv, TypeOK', NEW b \in Bundles, NEW cs \in ClassTuples,
         NEW p \in Priorities \union {Unset}, Register(b, cs, p)
  PROVE  LookupExact'
<1> DEFINE sort == IF p = Unset THEN DefaultPriority ELSE p
           x == <<sort, nextId>>
<1> USE DEF IInv
<1> SUFFICES ASSUME ~resorted
             PROVE  /\ \A c \in Classes : ClassExact(c)'
                    /\ \A d \in Bundles : (bundleServices[d] = Registered(d))'
  <2>1. resorted' = resorted
    BY DEF Register
  <2>2. (TypeOK => (LookupExact <=> ListsExact))'
    BY LookupExactIs, PTL
  <2> QED BY <2>1, <2>2 DEF ListsExact
<1>1. /\ \A c \in Classes : ClassExact(c)
      /\ \A d \in Bundles : bundleServices[d] = Registered(d)
  BY LookupExactIs DEF ListsExact
<1>2. /\ nextId \in Ids /\ nextId \in Nat /\ nextId \notin services /\ ~Issued(nextId)
      /\ services' = services \union {nextId} /\ services \subseteq Ids
      /\ \A i \in Ids \ {nextId} : reference'[i] = reference[i]
      /\ reference'[nextId] = [bundle |-> b, classes |-> cs, sort |-> sort]
      /\ bundleServices' = [bundleServices EXCEPT ![b] = @ \union {nextId}]
      /\ \A c \in Classes : classIndex'[c] =
            IF c \in Range(cs) THEN InsertAt(classIndex[c], Position(c, x), nextId)
            ELSE classIndex[c]
      /\ reference'[nextId].bundle = b /\ reference'[nextId].classes = cs
      /\ reference'[nextId].sort = sort /\ sort \in Int
  <2>1. nextId \in Ids => ~Issued(nextId)
    BY DEF UnissuedIsBlank, TypeOK
  <2>2. sort \in Int
    BY ConstantsAssumption DEF DefaultPriority
  <2>3. nextId \in Nat
    BY DEF TypeOK
  <2> QED BY <2>1, <2>2, <2>3 DEF Register, NewId, TypeOK, UnissuedIsBlank
<1> HIDE DEF sort
<1>3. ASSUME NEW d \in Bundles PROVE (bundleServices[d] = Registered(d))'
  <2>1. bundleServices'[d] = IF d = b THEN bundleServices[d] \union {nextId} ELSE bundleServices[d]
    BY <1>2 DEF TypeOK
  <2>2. \A i \in services : reference'[i] = reference[i]
    BY <1>2
  <2>3. Registered(d)' = IF d = b THEN Registered(d) \union {nextId} ELSE Registered(d)
    BY <1>2, <2>2 DEF Registered
  <2> QED BY <1>1, <2>1, <2>3
<1>4. ASSUME NEW c \in Classes, c \notin Range(cs) PROVE ClassExact(c)'
  <2>1. \A i \in Range(classIndex[c]) : i \in services
    BY <1>1 DEF ClassExact
  <2>2. \A i \in Range(classIndex[c]) : reference'[i] = reference[i]
    BY <1>2, <2>1
  <2>3. {i \in services' : c \in Range(reference'[i].classes)} =
          {i \in services : c \in Range(reference[i].classes)}
    <3>1. \A i \in services : reference'[i] = reference[i]
      BY <1>2
    <3> QED BY <1>2, <1>4, <3>1
  <2> QED BY <1>1, <1>2, <1>4, <2>2, <2>3, ClassExactFrame
<1>5. ASSUME NEW c \in Classes, c \in Range(cs) PROVE ClassExact(c)'
  <2> DEFINE s == classIndex[c]
             n == Len(classIndex[c])
             k == Position(c, x)
             r == InsertAt(s, k, nextId)
  <2>1. ClassExact(c) /\ classIndex'[c] = r
    BY <1>1, <1>2, <1>5
  <2>2. s \in Seq(Ids) /\ n \in Nat /\ k \in 1..(n + 1)
    BY ValuesProperties, PositionType
  <2>3. /\ \A j \in 1..n : /\ s[j] \in services /\ s[j] \in Ids
                           /\ Values(c)[j] = SortValue(s[j])
                           /\ Values(c)[j] \in Int \X Int
    BY <2>1, ClassExactElements
  <2>4. /\ \A j \in 1..(k - 1) : Less(Values(c)[j], x)
        /\ \A j \in k..n : ~Less(Values(c)[j], x)
    <3>1. k = 1 + BisectLeft(Values(c), x)
      BY DEF Position, Values
    <3>2. BisectLeft(Values(c), x) \in 0..n
      BY <2>2, ValuesProperties, BisectLeftSplits
    <3>3. k - 1 = BisectLeft(Values(c), x) /\ k = (k - 1) + 1
      BY <3>1, <3>2
    <3>4. x \in Int \X Int /\ Len(Values(c)) = n
      BY <1>2, ValuesProperties
    <3> HIDE DEF k, x
    <3> QED BY <2>1, <2>2, <2>3, <3>3, <3>4, BisectLeftDivides DEF ClassExact, Ascending
  <2>5. \A j \in k..n : Less(x, Values(c)[j])
    <3> SUFFICES ASSUME NEW j \in k..n PROVE Less(x, Values(c)[j])
      OBVIOUS
    <3>1. j \in 1..n
      BY <2>2
    <3>2. SortValue(s[j])[2] = s[j] /\ s[j] # nextId
      BY <1>2, <2>3, <3>1 DEF SortValue
    <3>3. Values(c)[j][2] # x[2] /\ Values(c)[j] \in Int \X Int
      BY <2>3, <3>1, <3>2
    <3>4. ~Less(Values(c)[j], x)
      BY <2>4
    <3> QED BY <1>2, <3>3, <3>4 DEF Less
  <2>6. /\ Len(r) = n + 1 /\ Range(r) = Range(s) \union {nextId}
        /\ \A j \in 1..(n + 1) :
             r[j] = IF j < k THEN s[j] ELSE IF j = k THEN nextId ELSE s[j - 1]
    <3> HIDE DEF k, s
    <3>1. nextId \in Ids /\ k \in 1..(Len(s) + 1) /\ s \in Seq(Ids)
      BY <1>2, <2>2 DEF s
    <3>2. /\ Len(r) = Len(s) + 1
          /\ \A j \in 1..(Len(s) + 1) :
               r[j] = IF j < k THEN s[j] ELSE IF j = k THEN nextId ELSE s[j - 1]
      BY <3>1, InsertAtProperties, SMTT(60)
    <3>3. Range(r) = Range(s) \union {nextId}
      BY <3>1, InsertAtRange
    <3> QED BY <3>2, <3>3 DEF s
  <2> HIDE DEF r, k
  <2>7. \A j \in 1..(n + 1) :
          Values(c)'[j] = IF j < k THEN Values(c)[j] ELSE IF j = k THEN x ELSE Values(c)[j - 1]
    <3> SUFFICES ASSUME NEW j \in 1..(n + 1)
                 PROVE  Values(c)'[j] = IF j < k THEN Values(c)[j]
                                        ELSE IF j = k THEN x ELSE Values(c)[j - 1]
      OBVIOUS
    <3>1. Values(c)'[j] = <<reference'[r[j]].sort, r[j]>>
      <4>1. DOMAIN r = 1..(n + 1)
        <5>1. r \in Seq(Ids)
          BY <2>1 DEF TypeOK
        <5> QED BY <2>6, <5>1, LenProperties
      <4> QED BY <2>1, <4>1 DEF Values, SortValue
    <3>2. ASSUME NEW l \in 1..n PROVE <<reference'[s[l]].sort, s[l]>> = Values(c)[l]
      <4>1. s[l] \in Ids \ {nextId}
        BY <1>2, <2>3
      <4> QED BY <1>2, <2>3, <4>1 DEF SortValue
    <3>4. <<reference'[nextId].sort, nextId>> = x
      BY <1>2
    <3>5. CASE j < k
      BY <2>2, <2>6, <3>1, <3>2, <3>5
    <3>6. CASE j = k
      BY <2>6, <3>1, <3>4, <3>6
    <3>7. CASE j > k
      BY <2>2, <2>6, <3>1, <3>2, <3>7
    <3> QED BY <2>2, <3>5, <3>6, <3>7
  <2>8. Ascending(Values(c), Len(classIndex[c]))'
    <3>1. Ascending(Values(c)', n + 1)
      <4> HIDE DEF x
      <4>1. Ascending(Values(c), n)
        BY <2>1 DEF ClassExact
      <4> QED BY <4>1, <2>2, <2>4, <2>5, <2>7, InsertKeepsOrder
    <3> QED BY <3>1, <2>1, <2>6 DEF Ascending
  <2>9. Range(classIndex'[c]) = {i \in services' : c \in Range(reference'[i].classes)}
    <3>1. c \in Range(reference'[nextId].classes)
      BY <1>2, <1>5
    <3> QED BY <1>2, <2>1, <2>6, <3>1 DEF ClassExact
  <2> QED BY <2>8, <2>9 DEF ClassExact
<1> QED BY <1>3, <1>4, <1>5

LEMMA UnregisterLookupStep ==
  ASSUME IInv, TypeOK', NEW i \in Ids, Unregister(i)
  PROVE  LookupExact'
<1> USE DEF IInv
<1> SUFFICES ASSUME ~resorted
             PROVE  /\ \A c \in Classes : ClassExact(c)'
                    /\ \A d \in Bundles : (bundleServices[d] = Registered(d))'
  <2>1. resorted' = resorted
    BY DEF Unregister
  <2>2. (TypeOK => (LookupExact <=> ListsExact))'
    BY LookupExactIs, PTL
  <2> QED BY <2>1, <2>2 DEF ListsExact
<1> DEFINE cs == reference[i].classes
           x == SortValue(i)
<1>1. /\ \A c \in Classes : ClassExact(c)
      /\ \A d \in Bundles : bundleServices[d] = Registered(d)
  BY LookupExactIs DEF ListsExact
<1>2. /\ i \in services /\ services' = services \ {i} /\ reference' = reference
      /\ reference[i].bundle \in Bundles /\ cs \in Seq(Classes)
      /\ Len(cs) \in Nat /\ DOMAIN cs = 1..Len(cs)
      /\ \A k \in 1..Len(cs) : cs[k] \in Classes
  BY IssuedTypes, LenProperties, ElementOfSeq DEF Unregister, UnissuedIsBlank
(* In every list of a class of i the point of i is where i stands.         *)
<1>3. ASSUME NEW c \in Classes, c \in Range(cs)
      PROVE  /\ Position(c, x) \in 1..Len(classIndex[c])
             /\ classIndex[c][Position(c, x)] = i
  <2>1. i \in Range(classIndex[c])
    BY <1>1, <1>2, <1>3 DEF ClassExact
  <2>2. PICK m \in 1..Len(classIndex[c]) : classIndex[c][m] = i
    BY <2>1, ValuesProperties DEF Range
  <2>3. Values(c)[m] = x
    BY <2>2, ValuesProperties
  <2>4. BisectLeft(Values(c), Values(c)[m]) = m - 1
    BY <1>1, ValuesProperties, ClassExactElements, BisectLeftFinds DEF ClassExact
  <2>5. Position(c, x) = 1 + BisectLeft(Values(c), x)
    BY DEF Position, Values
  <2> HIDE DEF x
  <2>6. Position(c, x) = m
    BY <2>3, <2>4, <2>5
  <2> QED BY <2>2, <2>6
<1>4. UnlistedClasses(i) = Range(cs)
  <2>1. \A k \in 1..Len(cs) : Position(cs[k], x) <= Len(classIndex[cs[k]])
    <3> SUFFICES ASSUME NEW k \in 1..Len(cs)
                 PROVE  Position(cs[k], x) <= Len(classIndex[cs[k]])
      OBVIOUS
    <3>1. cs[k] \in Range(cs) /\ cs[k] \in Classes
      BY <1>2 DEF Range
    <3>2. Position(cs[k], x) \in 1..Len(classIndex[cs[k]])
      BY <1>3, <3>1
    <3> QED BY <3>1, <3>2, ValuesProperties
  <2>2. UnlistedClasses(i) = {cs[k] : k \in {k \in DOMAIN cs :
          \A j \in 1..k : Position(cs[j], x) <= Len(classIndex[cs[j]])}}
    BY DEF UnlistedClasses
  <2>3. {k \in DOMAIN cs : \A j \in 1..k : Position(cs[j], x) <= Len(classIndex[cs[j]])}
          = DOMAIN cs
    <3> SUFFICES ASSUME NEW k \in 1..Len(cs), NEW j \in 1..k
                 PROVE  Position(cs[j], x) <= Len(classIndex[cs[j]])
      BY <1>2, Zenon
    <3>1. j \in 1..Len(cs)
      BY <1>2
    <3> QED BY <2>1, <3>1
  <2> QED BY <2>2, <2>3 DEF Range
<1>5. ASSUME NEW d \in Bundles PROVE (bundleServices[d] = Registered(d))'
  <2>1. bundleServices' = [bundleServices EXCEPT ![reference[i].bundle] = @ \ {i}]
    BY <1>4 DEF Unregister, Disowned
  <2>2. bundleServices'[d] = IF d = reference[i].bundle THEN bundleServices[d] \ {i}
                             ELSE bundleServices[d]
    BY <2>1 DEF TypeOK
  <2>3. Registered(d)' = Registered(d) \ {i}
    BY <1>2 DEF Registered
  <2>4. i \in Registered(d) <=> d = reference[i].bundle
    BY <1>2 DEF Registered
  <2> QED BY <1>1, <2>2, <2>3, <2>4
<1>6. ASSUME NEW c \in Classes, c \notin Range(cs) PROVE ClassExact(c)'
  <2>1. classIndex'[c] = classIndex[c]
    BY <1>4, <1>6 DEF Unregister
  <2>2. {j \in services' : c \in Range(reference'[j].classes)} =
          {j \in services : c \in Range(reference[j].classes)}
    BY <1>2, <1>6
  <2> QED BY <1>1, <1>2, <2>1, <2>2, ClassExactFrame
<1>7. ASSUME NEW c \in Classes, c \in Range(cs) PROVE ClassExact(c)'
  <2> DEFINE s == classIndex[c]
             n == Len(classIndex[c])
             k == Position(c, x)
             r == RemoveAt(s, k)
  <2>1. ClassExact(c) /\ classIndex'[c] = r
    BY <1>1, <1>4, <1>7 DEF Unregister
  <2>2. s \in Seq(Ids) /\ n \in Nat /\ k \in 1..n /\ s[k] = i
    BY <1>3, <1>7, ValuesProperties
  <2>3. \A j, l \in 1..n : j # l => s[j] # s[l]
    BY <2>1, ClassExactElements
  <2>4. /\ Len(r) = n - 1 /\ Range(r) = Range(s) \ {i}
        /\ \A j \in 1..(n - 1) : r[j] = IF j < k THEN s[j] ELSE s[j + 1]
    <3> HIDE DEF k, s
    <3>1. k \in 1..Len(s) /\ s \in Seq(Ids) /\ s[k] = i
      BY <2>2 DEF s
    <3>2. /\ Len(r) = Len(s) - 1
          /\ \A j \in 1..(Len(s) - 1) : r[j] = IF j < k THEN s[j] ELSE s[j + 1]
      BY <3>1, RemoveAtProperties
    <3>3. \A j, l \in 1..Len(s) : j # l => s[j] # s[l]
      BY <2>3 DEF s
    <3>4. Range(r) = Range(s) \ {s[k]}
      BY <3>1, <3>3, RemoveAtRange
    <3> QED BY <3>1, <3>2, <3>4 DEF s
  <2> HIDE DEF r, k
  <2>5. \A j \in 1..(n - 1) :
          Values(c)'[j] = IF j < k THEN Values(c)[j] ELSE Values(c)[j + 1]
    <3> SUFFICES ASSUME NEW j \in 1..(n - 1)
                 PROVE  Values(c)'[j] = IF j < k THEN Values(c)[j] ELSE Values(c)[j + 1]
      OBVIOUS
    <3>1. Values(c)'[j] = <<reference'[r[j]].sort, r[j]>>
      <4>1. r \in Seq(Ids)
        BY <2>1 DEF TypeOK
      <4>2. DOMAIN r = 1..(n - 1)
        BY <2>4, <4>1, LenProperties
      <4> QED BY <2>1, <4>2 DEF Values, SortValue
    <3>2. \A l \in 1..n : <<reference'[s[l]].sort, s[l]>> = Values(c)[l]
      BY <1>2, ValuesProperties DEF SortValue
    <3>3. j \in 1..n /\ j + 1 \in 1..n
      BY <2>2
    <3> QED BY <2>4, <3>1, <3>2, <3>3
  <2>6. Ascending(Values(c), Len(classIndex[c]))'
    <3>1. Ascending(Values(c)', n - 1)
      <4>1. Ascending(Values(c), n)
        BY <2>1 DEF ClassExact
      <4> QED BY <4>1, <2>2, <2>5, RemoveKeepsOrder
    <3> QED BY <3>1, <2>1, <2>4 DEF Ascending
  <2>7. Range(classIndex'[c]) = {j \in services' : c \in Range(reference'[j].classes)}
    BY <1>2, <2>1, <2>4 DEF ClassExact
  <2> QED BY <2>6, <2>7 DEF ClassExact
<1> QED BY <1>5, <1>6, <1>7

LEMMA SetPropertiesLookupStep ==
  ASSUME IInv, TypeOK', NEW i \in Ids, NEW p \in Priorities, SetProperties(i, p)
  PROVE  LookupExact'
<1> USE DEF IInv
<1> SUFFICES ASSUME ~resorted'
             PROVE  /\ \A c \in Classes : ClassExact(c)'
                    /\ \A d \in Bundles : (bundleServices[d] = Registered(d))'
  <2>2. (TypeOK => (LookupExact <=> ListsExact))'
    BY LookupExactIs, PTL
  <2> QED BY <2>2 DEF ListsExact
<1>1. ~resorted /\ (i \notin services \/ p = reference[i].sort)
  BY DEF SetProperties
<1>2. /\ \A c \in Classes : ClassExact(c)
      /\ \A d \in Bundles : bundleServices[d] = Registered(d)
  BY <1>1, LookupExactIs DEF ListsExact
<1>3. \A j \in services : reference'[j] = reference[j]
  <2>1. reference' = [reference EXCEPT ![i] = [reference[i] EXCEPT !.sort = p]]
    BY DEF SetProperties
  <2>2. p = reference[i].sort => [reference[i] EXCEPT !.sort = p] = reference[i]
    BY IssuedTypes DEF SetProperties, References
  <2> QED BY <1>1, <2>1, <2>2 DEF TypeOK
<1>4. services' = services /\ classIndex' = classIndex /\ bundleServices' = bundleServices
  BY DEF SetProperties
<1>5. ASSUME NEW d \in Bundles PROVE (bundleServices[d] = Registered(d))'
  BY <1>2, <1>3, <1>4 DEF Registered
<1>6. ASSUME NEW c \in Classes PROVE ClassExact(c)'
  <2>1. \A j \in Range(classIndex[c]) : reference'[j] = reference[j]
    BY <1>2, <1>3 DEF ClassExact
  <2>2. {j \in services' : c \in Range(reference'[j].classes)} =
          {j \in services : c \in Range(reference[j].classes)}
    BY <1>3, <1>4
  <2> QED BY <1>2, <1>4, <2>1, <2>2, ClassExactFrame
<1> QED BY <1>5, <1>6

LEMMA LookupStep ==
  ASSUME IInv, [Next]_vars
  PROVE  LookupExact'
<1>0. TypeOK'
  BY TypeStep
<1>1. ASSUME NEW b \in Bundles, NEW cs \in ClassTuples,
             NEW p \in Priorities \union {Unset}, Register(b, cs, p)
      PROVE  LookupExact'
  BY <1>0, <1>1, RegisterLookupStep
<1>2. ASSUME NEW i \in Ids, Unregister(i) PROVE LookupExact'
  BY <1>0, <1>2, UnregisterLookupStep
<1>3. ASSUME NEW i \in Ids, NEW p \in Priorities, SetProperties(i, p) PROVE LookupExact'
  BY <1>0, <1>3, SetPropertiesLookupStep
<1>4. CASE UNCHANGED <<services, reference, classIndex, bundleServices, resorted>>
  BY <1>4 DEF IInv, LookupExact, FindReferences, SortValue, Registered
<1>5. ASSUME NEW b \in Bundles, NEW i \in Ids, GetService(b, i) \/ UngetService(b, i)
      PROVE  LookupExact'
  BY <1>4, <1>5 DEF GetService, UngetService
<1>6. CASE RegisterRejected \/ UNCHANGED vars
  BY <1>4, <1>6 DEF RegisterRejected, vars
<1> QED BY <1>1, <1>2, <1>3, <1>5, <1>6 DEF Next

-----------------------------------------------------------------------------
LEMMA StepKeepsIInv == IInv /\ [Next]_vars => IInv'
BY TypeStep, BooksStep, LookupStep DEF IInv

(* The registry keeps its inductive invariant.                             *)
THEOREM Invariance == Spec => []IInv
BY InitEstablishesIInv, StepKeepsIInv, PTL DEF Spec

(* Every variable keeps its type.                                          *)
THEOREM TypeCorrect == Spec => []TypeOK
<1>1. IInv => TypeOK
  BY DEF IInv
<1> QED BY <1>1, Invariance, PTL

(* The owners' lists miss no registered service: stop's sweep sees all.    *)
THEOREM OwnersCovered == Spec => []OwnerListsCover
<1>1. IInv => OwnerListsCover
  BY DEF IInv
<1> QED BY <1>1, Invariance, PTL

(* The registry's and the references' books of use tell one story.         *)
THEOREM BooksAgree == Spec => []UsageBooksAgree
<1>1. IInv => UsageBooksAgree
  BY DEF IInv
<1> QED BY <1>1, Invariance, PTL

(* While no registered reference changes its priority, lookups are exact   *)
(* and in order: bisect deletes the reference it was asked to delete.      *)
THEOREM LookupsAreExact == Spec => []LookupExact
<1>1. IInv => LookupExact
  BY DEF IInv
<1> QED BY <1>1, Invariance, PTL

(* A step registers only an id that was not issued, and an issued          *)
(* reference keeps its owner and its classes.                              *)
IdsStep ==
  /\ \A i \in services' \ services : i >= nextId
  /\ \A i \in Ids : Issued(i) =>
       /\ Issued(i)'
       /\ reference'[i].bundle = reference[i].bundle
       /\ reference'[i].classes = reference[i].classes

LEMMA StepKeepsIds == IInv /\ [Next]_vars => [IdsStep]_vars
<1> SUFFICES ASSUME IInv, Next PROVE IdsStep
  BY DEF vars
<1> USE DEF IInv, IdsStep
<1>1. ASSUME NEW b \in Bundles, NEW cs \in ClassTuples,
             NEW p \in Priorities \union {Unset}, Register(b, cs, p)
      PROVE  IdsStep
  <2>1. ~Issued(nextId) /\ nextId \in Ids /\ nextId \in Int
    BY <1>1 DEF Register, UnissuedIsBlank, TypeOK
  <2> QED BY <1>1, <2>1 DEF Register, NewId, Issued, TypeOK
<1>2. ASSUME NEW i \in Ids, NEW p \in Priorities, SetProperties(i, p)
      PROVE  IdsStep
  <2>1. reference[i] \in References /\ [reference[i] EXCEPT !.sort = p] \in References
    BY <1>2, IssuedTypes DEF SetProperties, References, Sorts
  <2>2. reference' = [reference EXCEPT ![i] = [reference[i] EXCEPT !.sort = p]]
    BY <1>2 DEF SetProperties
  <2>3. /\ [reference[i] EXCEPT !.sort = p].bundle = reference[i].bundle
        /\ [reference[i] EXCEPT !.sort = p].classes = reference[i].classes
    BY <2>1 DEF References
  <2>4. services' = services
    BY <1>2 DEF SetProperties
  <2> QED BY <2>1, <2>2, <2>3, <2>4, ReferenceTypes DEF IdsStep, Issued, TypeOK
<1>3. CASE RegisterRejected
  BY <1>3 DEF RegisterRejected, Issued
<1>4. ASSUME NEW i \in Ids, Unregister(i) PROVE IdsStep
  BY <1>4 DEF Unregister, Issued
<1>5. ASSUME NEW b \in Bundles, NEW i \in Ids, GetService(b, i) \/ UngetService(b, i)
      PROVE  IdsStep
  BY <1>5 DEF GetService, UngetService, Issued
<1> QED BY <1>1, <1>2, <1>3, <1>4, <1>5 DEF Next

(* No id is registered twice and no reference changes owner or classes.    *)
THEOREM IdsAreNeverReused == Spec => IdsNeverReused
BY StepKeepsIds, Invariance, PTL DEF Spec, IdsNeverReused, IdsStep

=============================================================================
