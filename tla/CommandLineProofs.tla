------------------------- MODULE CommandLineProofs --------------------------
(***************************************************************************)
(* Proofs about CommandLine.tla, for every configuration and any modules   *)
(* and bundles: that two bundles of one name are never started together,   *)
(* that a clean exit leaves no bundle started, and that what runs has the  *)
(* code of its files when the watcher is at rest.                          *)
(***************************************************************************)
EXTENDS CommandLine, BisectProofs

ConfigEntries == UNION {ToSet(c) : c \in Configs}

Names == {Location(entry) : entry \in ConfigEntries}

States == {"INSTALLED", "RESOLVED", "STARTING", "ACTIVE", "STOPPING", "UNINSTALLED"}

Codes == UNION {[S -> Nat] : S \in SUBSET ToSet(Modules)}

Bundles == [name : Names, state : States, code : Codes]

\* The places of the Bundle objects.
Objects == DOMAIN bundle

LoopPlaces == {"starting", "starting one", "stopping", "stopping one"}

MainPlaces == LoopPlaces \cup {"install", "running", "finally", "stop", "done", "raised", "crashed"}

\* Where the watcher has a bundle in its hands.
Holding == {"stopping", "unloading", "loading", "installed", "starting"}

WatcherPlaces == Holding \cup {"none", "new", "sleep", "next", "failed", "ended"}

IsRunner(r) ==
    r = [at |-> r.at, names |-> r.names, bundles |-> r.bundles, current |-> r.current]

Types ==
    /\ config \in Seq(ConfigEntries)
    /\ main \in [at : MainPlaces, left : Seq(Objects), was : States]
    /\ main.at \in {"starting one", "stopping one"} => main.left # <<>>
    /\ bundle \in Seq(Bundles)
    /\ catalogue \in Seq(Objects)
    /\ IsRunner(runner) /\ runner.at \in WatcherPlaces /\ runner.bundles \in Seq(Objects)
    /\ runner.at \in Holding => runner.current \in Objects
    /\ edits \in [ToSet(Modules) -> Nat]
    /\ raced \in BOOLEAN

\* Where the two tasks can be at once, and the framework's state there: the watcher is not
\* there before the bundles are installed, and is gone before the framework is stopped.
Together ==
    /\ main.at \in {"install", "crashed"} => runner.at = "none"
    /\ main.at \in {"starting", "starting one"} =>
         framework = "STARTING" /\ (~raced => runner.at \in {"none", "new", "sleep"})
    /\ main.at = "running" => framework = "ACTIVE"
    /\ main.at \in {"finally", "stop"} => framework \in {"STARTING", "ACTIVE"}
    /\ main.at \in {"stop", "stopping", "stopping one", "done", "raised"} =>
         runner.at \in {"none", "ended"}
    /\ main.at \in {"stopping", "stopping one"} => framework = "STOPPING"

\* The catalogue has a name once, also when the loader comes back to a reload, and has the
\* bundle that the watcher stops or starts.
NamesOnce ==
    /\ runner.at \in {"stopping", "installed", "starting"} => runner.current \in ToSet(catalogue)
    /\ \A i, j \in DOMAIN catalogue :
         bundle[catalogue[i]].name = bundle[catalogue[j]].name => i = j
    /\ runner.at = "loading" =>
         \A i \in DOMAIN catalogue : bundle[catalogue[i]].name # bundle[runner.current].name

\* The bundles that are started or that a task is about to start are those of the catalogue.
UpListed ==
    /\ \A b \in DOMAIN bundle : bundle[b].state \in Up => b \in ToSet(catalogue)
    /\ main.at \in LoopPlaces => ToSet(main.left) \subseteq ToSet(catalogue)
    /\ main.at = "starting one" => main.was \notin Up

\* A bundle is being started by one of the tasks, or its start was cancelled or overtaken:
\* then the framework was not started, or run_framework ends with an error.
StartingBy(b) ==
    \/ main.at = "starting one" /\ b = Head(main.left)
    \/ runner.at = "starting" /\ b = runner.current
    \/ framework = "STARTING" /\ main.at \in {"finally", "stop", "done"}
    \/ main.at = "raised"

StartsKnown == \A b \in DOMAIN bundle : bundle[b].state = "STARTING" => StartingBy(b)

\* The level loop of the stop comes to every bundle that is started, and leaves none.
StopReaches ==
    \A b \in DOMAIN bundle : bundle[b].state \in Up =>
        /\ main.at \in {"stopping", "stopping one"} => b \in ToSet(main.left)
        /\ ~(main.at = "done" /\ framework = "RESOLVED")

\* The inductive invariant.  All but the names is said of runs without a reload during the
\* framework's start.
IInv == /\ Types /\ Together /\ NamesOnce
        /\ ~raced => UpListed /\ StartsKnown /\ StopReaches

-----------------------------------------------------------------------------
(***************************************************************************)
(* Lists and what they hold.                                               *)
(***************************************************************************)
LEMMA SeqOfMore ==
  ASSUME NEW S, NEW T, S \subseteq T
  PROVE  Seq(S) \subseteq Seq(T)
OBVIOUS

LEMMA ElementsOfSeq ==
  ASSUME NEW S, NEW s \in Seq(S)
  PROVE  <<>> \in Seq(S) /\ (\A i \in DOMAIN s : s[i] \in S) /\ ToSet(s) \subseteq S
BY DEF ToSet

LEMMA EmptyHoldsNothing == ToSet(<<>>) = {}
<1>1. DOMAIN <<>> = {}
  OBVIOUS
<1> QED BY <1>1, Zenon DEF ToSet

LEMMA HeadAndTail ==
  ASSUME NEW S, NEW s \in Seq(S), s # <<>>
  PROVE  /\ Head(s) \in S /\ Tail(s) \in Seq(S)
         /\ ToSet(s) = {Head(s)} \cup ToSet(Tail(s))
<1>1. Len(s) \in Nat \ {0} /\ DOMAIN s = 1..Len(s)
  OBVIOUS
<1>2. /\ Head(s) = s[1] /\ Head(s) \in S /\ Tail(s) \in Seq(S)
      /\ Len(Tail(s)) = Len(s) - 1 /\ DOMAIN Tail(s) = 1..(Len(s) - 1)
      /\ \A i \in 1..(Len(s) - 1) : Tail(s)[i] = s[i + 1]
  BY <1>1
<1>3. ASSUME NEW e \in ToSet(s) PROVE e \in {Head(s)} \cup ToSet(Tail(s))
  <2>1. PICK i \in 1..Len(s) : e = s[i]
    BY <1>1 DEF ToSet
  <2>2. CASE i = 1
    BY <1>2, <2>1, <2>2
  <2>3. CASE i # 1
    <3>1. i - 1 \in 1..(Len(s) - 1) /\ (i - 1) + 1 = i
      BY <1>1, <2>3
    <3>2. Tail(s)[i - 1] = e
      BY <1>2, <2>1, <3>1
    <3> QED BY <1>2, <3>1, <3>2 DEF ToSet
  <2> QED BY <2>2, <2>3
<1>4. ASSUME NEW e \in {Head(s)} \cup ToSet(Tail(s)) PROVE e \in ToSet(s)
  <2>1. 1 \in 1..Len(s) /\ \A i \in 1..(Len(s) - 1) : i + 1 \in 1..Len(s)
    BY <1>1
  <2> QED BY <1>1, <1>2, <2>1 DEF ToSet
<1> QED BY <1>2, <1>3, <1>4

LEMMA ReverseHolds ==
  ASSUME NEW S, NEW s \in Seq(S)
  PROVE  Reverse(s) \in Seq(S) /\ ToSet(Reverse(s)) = ToSet(s)
<1> DEFINE n == Len(s)
<1>1. n \in Nat /\ DOMAIN s = 1..n /\ \A i \in 1..n : s[i] \in S
  OBVIOUS
<1>2. \A i \in 1..n : (n - i) + 1 \in 1..n /\ (n - ((n - i) + 1)) + 1 = i
  BY <1>1
<1>3. /\ DOMAIN Reverse(s) = 1..n /\ \A i \in 1..n : Reverse(s)[i] = s[(n - i) + 1]
      /\ Reverse(s) \in Seq(S)
  BY <1>1, <1>2 DEF Reverse
<1>4. \A i \in 1..n : Reverse(s)[(n - i) + 1] = s[i]
  BY <1>2, <1>3
<1> QED BY <1>1, <1>2, <1>3, <1>4 DEF ToSet

LEMMA AppendHolds ==
  ASSUME NEW S, NEW s \in Seq(S), NEW e
  PROVE  /\ Append(s, e) \in Seq(S \cup {e}) /\ DOMAIN s = 1..Len(s) /\ Len(s) \in Nat
         /\ DOMAIN Append(s, e) = 1..(Len(s) + 1)
         /\ Append(s, e)[Len(s) + 1] = e /\ \A i \in DOMAIN s : Append(s, e)[i] = s[i]
         /\ ToSet(Append(s, e)) = ToSet(s) \cup {e}
<1>1. /\ Append(s, e) \in Seq(S \cup {e}) /\ Len(s) \in Nat /\ DOMAIN s = 1..Len(s)
      /\ DOMAIN Append(s, e) = 1..(Len(s) + 1)
      /\ Append(s, e)[Len(s) + 1] = e /\ \A i \in 1..Len(s) : Append(s, e)[i] = s[i]
  OBVIOUS
<1>2. 1..(Len(s) + 1) = (1..Len(s)) \cup {Len(s) + 1}
  BY <1>1
<1> QED BY <1>1, <1>2 DEF ToSet

LEMMA AppendToSet ==
  ASSUME NEW S, NEW s \in Seq(S), NEW e
  PROVE  ToSet(Append(s, e)) = ToSet(s) \cup {e}
BY AppendHolds

\* RemoveFirst of an element that a list without repetitions has.
LEMMA RemoveFirstHolds ==
  ASSUME NEW S, NEW s \in Seq(S), NEW e \in ToSet(s)
  PROVE  LET r == RemoveFirst(s, e)
         IN  /\ r \in Seq(S)
             /\ \A x \in ToSet(s) : x # e => x \in ToSet(r)
             /\ ToSet(r) \subseteq ToSet(s)
             /\ \A i, j \in DOMAIN r : i # j =>
                  \E k, l \in DOMAIN s : k # l /\ r[i] = s[k] /\ r[j] = s[l]
             /\ (\A k, l \in DOMAIN s : s[k] = s[l] => k = l) => e \notin ToSet(r)
<1>1. Len(s) \in Nat /\ DOMAIN s = 1..Len(s)
  OBVIOUS
<1>2. PICK p \in 1..Len(s) : s[p] = e /\ RemoveFirst(s, e) = RemoveAt(s, p)
  <2>1. \E i \in 1..Len(s) : s[i] = e
    BY <1>1 DEF ToSet
  <2> QED BY <2>1, RemoveFirstRemoves
<1> DEFINE r == RemoveAt(s, p)
           From(i) == IF i < p THEN i ELSE i + 1
<1>3. r \in Seq(S) /\ DOMAIN r = 1..(Len(s) - 1)
  BY RemoveAtProperties
<1>4. ASSUME NEW i \in 1..(Len(s) - 1) PROVE From(i) \in 1..Len(s) /\ r[i] = s[From(i)]
  <2>1. r[i] = IF i < p THEN s[i] ELSE s[i + 1]
    BY RemoveAtProperties
  <2> QED BY <1>1, <2>1
<1> HIDE DEF r
<1>5. ASSUME NEW x \in ToSet(s), x # e PROVE x \in ToSet(r)
  <2>1. PICK k \in 1..Len(s) : s[k] = x
    BY <1>1 DEF ToSet
  <2>2. CASE k < p
    <3>1. k \in 1..(Len(s) - 1) /\ From(k) = k
      BY <1>1, <2>2
    <3> QED BY <1>3, <1>4, <2>1, <3>1 DEF ToSet
  <2>3. CASE k > p
    <3>1. k - 1 \in 1..(Len(s) - 1) /\ From(k - 1) = k
      BY <1>1, <2>3
    <3> QED BY <1>3, <1>4, <2>1, <3>1 DEF ToSet
  <2> QED BY <1>2, <1>5, <2>1, <2>2, <2>3
<1>6. ToSet(r) \subseteq ToSet(s)
  BY <1>1, <1>3, <1>4 DEF ToSet
<1>7. ASSUME NEW i \in DOMAIN r, NEW j \in DOMAIN r, i # j
      PROVE  \E k, l \in DOMAIN s : k # l /\ r[i] = s[k] /\ r[j] = s[l]
  <2>1. From(i) # From(j)
    BY <1>1, <1>3, <1>7
  <2> HIDE DEF From
  <2> QED BY <1>1, <1>3, <1>4, <2>1
<1>8. ASSUME \A k, l \in DOMAIN s : s[k] = s[l] => k = l PROVE e \notin ToSet(r)
  <2>1. \A i \in 1..(Len(s) - 1) : From(i) # p
    BY <1>1
  <2> HIDE DEF From
  <2> QED BY <1>1, <1>2, <1>3, <1>4, <1>8, <2>1 DEF ToSet
<1> QED BY <1>2, <1>3, <1>5, <1>6, <1>7, <1>8 DEF r

-----------------------------------------------------------------------------
(***************************************************************************)
(* What the steps do to bundles and to run_framework.                      *)
(***************************************************************************)
LEMMA InitHolds == Init => IInv
<1> SUFFICES ASSUME Init PROVE IInv
  OBVIOUS
<1> USE DEF Init, Resting
<1>1. config \in Seq(ConfigEntries)
  <2>1. config \in Configs /\ config \in Seq(ToSet(config))
    BY CommandAssumption
  <2>2. ToSet(config) \subseteq ConfigEntries
    BY <2>1 DEF ConfigEntries
  <2> QED BY <2>1, <2>2, SeqOfMore
<1>2. main.at = "install" /\ runner.at = "none"
  OBVIOUS
<1>3. Types
  <2>1. main \in [at : MainPlaces, left : Seq(Objects), was : States]
    <3>1. <<>> \in Seq(Objects)
      BY <1>1, ElementsOfSeq
    <3> QED BY <3>1 DEF MainPlaces, LoopPlaces, States
  <2>2. bundle \in Seq(Bundles) /\ catalogue \in Seq(Objects)
    OBVIOUS
  <2>3. /\ IsRunner(runner) /\ runner.at \in WatcherPlaces /\ runner.at \notin Holding
        /\ runner.bundles \in Seq(Objects)
    BY DEF IsRunner, WatcherPlaces, Holding
  <2>4. edits \in [ToSet(Modules) -> Nat] /\ raced \in BOOLEAN
    OBVIOUS
  <2> QED BY <1>1, <1>2, <2>1, <2>2, <2>3, <2>4 DEF Types
<1>4. Together /\ NamesOnce
  BY DEF Together, NamesOnce
<1>5. UpListed /\ StartsKnown /\ StopReaches
  BY DEF UpListed, StartsKnown, StopReaches, LoopPlaces
<1> QED BY <1>3, <1>4, <1>5 DEF IInv

\* bundle' is bundle but for the state of b.
Restated(b, state) ==
    /\ bundle' \in Seq(Bundles) /\ DOMAIN bundle' = DOMAIN bundle
    /\ \A c \in DOMAIN bundle : /\ bundle'[c].name = bundle[c].name
                                /\ bundle'[c].code = bundle[c].code
                                /\ bundle'[c].state = IF c = b THEN state ELSE bundle[c].state

LEMMA SetStateRestates ==
  ASSUME Types, NEW b \in DOMAIN bundle, NEW state \in States, SetState(b, state)
  PROVE  Restated(b, state)
<1>1. bundle \in Seq(Bundles) /\ bundle' = [bundle EXCEPT ![b].state = state]
  BY DEF Types, SetState
<1>2. bundle[b] \in Bundles
  BY <1>1
<1> DEFINE restated == [bundle[b] EXCEPT !.state = state]
<1>3. /\ restated \in Bundles /\ restated.name = bundle[b].name /\ restated.state = state
      /\ restated.code = bundle[b].code
  BY <1>2 DEF Bundles
<1>4. bundle' = [bundle EXCEPT ![b] = restated]
  BY <1>1
<1> HIDE DEF restated
<1>5. /\ bundle' \in Seq(Bundles) /\ DOMAIN bundle' = DOMAIN bundle
      /\ \A c \in DOMAIN bundle : bundle'[c] = IF c = b THEN restated ELSE bundle[c]
  BY <1>1, <1>3, <1>4
<1> QED BY <1>3, <1>5 DEF Restated

\* The names that the catalogue has do not depend on the states of the bundles.
LEMMA RestatedKeepsNames ==
  ASSUME IInv, NEW b \in DOMAIN bundle, NEW state \in States, Restated(b, state),
         catalogue' = catalogue, runner.at # "loading", runner' = runner
  PROVE  NamesOnce'
<1>1. \A i \in DOMAIN catalogue : catalogue[i] \in DOMAIN bundle
  BY ElementsOfSeq DEF IInv, Types, Objects
<1>2. \A i \in DOMAIN catalogue : bundle'[catalogue[i]].name = bundle[catalogue[i]].name
  BY <1>1 DEF Restated
<1> QED BY <1>2 DEF IInv, NamesOnce

LEMMA GoToMoves ==
  ASSUME Types, NEW at \in MainPlaces \ {"starting one", "stopping one"}, GoTo(at)
  PROVE  /\ main'.at = at /\ main'.left = <<>>
         /\ main' \in [at : MainPlaces, left : Seq(Objects), was : States]
<1>1. <<>> \in Seq(Objects)
  BY ElementsOfSeq DEF Types
<1> QED BY <1>1 DEF Types, GoTo

-----------------------------------------------------------------------------
(***************************************************************************)
(* The steps of the watcher.                                               *)
(***************************************************************************)
\* The runner that the watcher goes on with.
RunnerTyped == /\ IsRunner(runner') /\ runner'.at \in WatcherPlaces
               /\ runner'.bundles \in Seq(Objects)
               /\ runner'.at \in Holding => runner'.current \in Objects

\* A step of the watcher alone, that is not the end of a bundle's start.
LEMMA WatcherMoves ==
  ASSUME IInv, UNCHANGED <<config, main, framework, bundle, catalogue, edits>>, RunnerTyped,
         runner.at \notin {"none", "ended", "starting"}, raced' \in BOOLEAN, raced => raced',
         main.at \in {"starting", "starting one"} /\ ~raced' => runner'.at = "sleep",
         runner'.at = "loading" =>
           \A i \in DOMAIN catalogue : bundle[catalogue[i]].name # bundle[runner'.current].name,
         runner'.at \in {"stopping", "installed", "starting"} => runner'.current \in ToSet(catalogue)
  PROVE  IInv'
<1>1. Types'
  BY DEF IInv, Types, RunnerTyped, Objects, IsRunner
<1>2. Together'
  BY DEF IInv, Together
<1>3. NamesOnce'
  BY DEF IInv, NamesOnce
<1>4. ASSUME ~raced' PROVE UpListed' /\ StartsKnown' /\ StopReaches'
  <2>1. UpListed /\ StartsKnown /\ StopReaches
    BY <1>4 DEF IInv
  <2>2. UpListed'
    BY <2>1 DEF UpListed
  <2>3. StartsKnown'
    BY <2>1 DEF StartsKnown, StartingBy
  <2>4. StopReaches'
    BY <2>1 DEF StopReaches
  <2> QED BY <2>2, <2>3, <2>4
<1> QED BY <1>1, <1>2, <1>3, <1>4 DEF IInv

\* A step of the watcher that sets the state of a bundle, and may take it from the catalogue.
LEMMA WatcherRestates ==
  ASSUME IInv, UNCHANGED <<config, main, framework, edits, raced>>, RunnerTyped,
         runner.at \in Holding \cup {"next"}, runner.at # "loading",
         runner'.at # "loading",
         NEW b \in Objects, NEW state \in States, Restated(b, state),
         \/ catalogue' = catalogue /\ (state \in Up => b \in ToSet(catalogue))
         \/ /\ catalogue' = RemoveFirst(catalogue, b) /\ b \in ToSet(catalogue)
            /\ state \notin Up /\ runner'.at = "unloading",
         runner'.at \in {"stopping", "installed", "starting"} => runner'.current \in ToSet(catalogue),
         state = "STARTING" => runner'.at = "starting" /\ runner'.current = b,
         runner.at = "starting" => b = runner.current
  PROVE  IInv'
<1>1. /\ Types /\ catalogue \in Seq(Objects) /\ Objects' = Objects
      /\ \A c \in Objects : /\ bundle'[c].name = bundle[c].name
                            /\ bundle'[c].state = IF c = b THEN state ELSE bundle[c].state
  BY DEF IInv, Types, Restated, Objects
<1>2. /\ catalogue' \in Seq(Objects)
      /\ \A x \in ToSet(catalogue) :
            x # b \/ catalogue' = catalogue => x \in ToSet(catalogue')
      /\ \A i, j \in DOMAIN catalogue' : i # j =>
           \E k, l \in DOMAIN catalogue :
              k # l /\ catalogue'[i] = catalogue[k] /\ catalogue'[j] = catalogue[l]
  <2>1. CASE catalogue' = catalogue
    BY <1>1, <2>1
  <2>2. CASE catalogue' = RemoveFirst(catalogue, b) /\ b \in ToSet(catalogue)
    <3> DEFINE r == RemoveFirst(catalogue, b)
    <3>1. r \in Seq(Objects) /\ \A x \in ToSet(catalogue) : x # b => x \in ToSet(r)
      BY <1>1, <2>2, RemoveFirstHolds
    <3>2. \A i, j \in DOMAIN r : i # j =>
            \E k, l \in DOMAIN catalogue : k # l /\ r[i] = catalogue[k] /\ r[j] = catalogue[l]
      BY <1>1, <2>2, RemoveFirstHolds
    <3>3. catalogue' = catalogue => r = catalogue
      BY <2>2
    <3>4. catalogue' = r
      BY <2>2
    <3> HIDE DEF r
    <3> QED BY <2>2, <3>1, <3>2, <3>3, <3>4
  <2> QED BY <2>1, <2>2
<1>3. Types'
  BY <1>1, <1>2 DEF Types, RunnerTyped, IsRunner, Restated
<1>4. Together'
  BY DEF IInv, Together, Holding
<1>5. NamesOnce'
  <2>1. \A i \in DOMAIN catalogue : catalogue[i] \in Objects
    BY <1>1, ElementsOfSeq
  <2>2. \A i, j \in DOMAIN catalogue : bundle[catalogue[i]].name = bundle[catalogue[j]].name => i = j
    BY DEF IInv, NamesOnce
  <2>3. ASSUME NEW i \in DOMAIN catalogue', NEW j \in DOMAIN catalogue', i # j
        PROVE  bundle'[catalogue'[i]].name # bundle'[catalogue'[j]].name
    <3>1. PICK k \in DOMAIN catalogue, l \in DOMAIN catalogue :
            k # l /\ catalogue'[i] = catalogue[k] /\ catalogue'[j] = catalogue[l]
      BY <1>2, <2>3
    <3> QED BY <1>1, <2>1, <2>2, <3>1
  <2>4. runner'.at \in {"stopping", "installed", "starting"} => runner'.current \in ToSet(catalogue')
    BY <1>2
  <2> QED BY <2>3, <2>4 DEF NamesOnce
<1>6. ASSUME ~raced' PROVE UpListed' /\ StartsKnown' /\ StopReaches'
  <2>1. UpListed /\ StartsKnown /\ StopReaches
    BY <1>6 DEF IInv
  <2>2. main.at \in {"running", "finally"}
    BY <1>6 DEF IInv, Together, Types, MainPlaces, LoopPlaces, Holding
  <2>3. UpListed'
    BY <1>1, <1>2, <2>1, <2>2 DEF UpListed, LoopPlaces, Objects, Up
  <2>4. StartsKnown'
    BY <1>1, <2>1, <2>2 DEF StartsKnown, StartingBy, Objects
  <2>5. StopReaches'
    BY <2>2 DEF StopReaches
  <2> QED BY <2>3, <2>4, <2>5
<1> QED BY <1>3, <1>4, <1>5, <1>6 DEF IInv

LEMMA RunnerIs ==
  ASSUME IInv
  PROVE  /\ runner = [at |-> runner.at, names |-> runner.names, bundles |-> runner.bundles,
                      current |-> runner.current]
         /\ runner.bundles \in Seq(Objects) /\ raced \in BOOLEAN
         /\ runner.at \in Holding => runner.current \in Objects
         /\ ~raced /\ main.at \in {"starting", "starting one"} => runner.at \in {"none", "new", "sleep"}
BY DEF IInv, Types, IsRunner, Together

LEMMA RestingIsTyped ==
  ASSUME NEW at \in {"sleep", "failed", "ended", "none", "new"}, runner' = Resting(at)
  PROVE  RunnerTyped /\ runner'.at = at
<1>1. <<>> \in Seq(Objects)
  BY EmptySeq
<1> QED BY <1>1 DEF RunnerTyped, IsRunner, WatcherPlaces, Holding, Resting

LEMMA TickKeeps == IInv /\ Tick => IInv'
<1> SUFFICES ASSUME IInv, Tick PROVE IInv'
  OBVIOUS
<1>1. /\ UNCHANGED <<config, main, framework, bundle, catalogue, edits>>
      /\ runner.at \in {"new", "sleep"}
      /\ raced' = (raced \/ (changed # {} /\ main.at \in {"starting", "starting one"}))
      /\ catalogue \in Seq(Objects) /\ raced \in BOOLEAN
  BY DEF Tick, RunnerAt, IInv, Types
<1> DEFINE names == Updated
           found == [at |-> "next", names |-> names, bundles |-> catalogue, current |-> 0]
<1>2. IF changed = {} THEN runner' = Resting("sleep") ELSE runner' = found
  BY DEF Tick
<1> HIDE DEF names
<1>3. RunnerTyped /\ runner'.at \in {"sleep", "next"} /\ (runner'.at = "next" => changed # {})
  <2>1. <<>> \in Seq(Objects)
    BY <1>1, ElementsOfSeq
  <2>2. CASE runner' = Resting("sleep")
    BY <2>1, <2>2 DEF RunnerTyped, IsRunner, WatcherPlaces, Holding, Resting
  <2>3. CASE runner' = found /\ changed # {}
    BY <1>1, <2>3 DEF RunnerTyped, IsRunner, WatcherPlaces, Holding
  <2> HIDE DEF found
  <2> QED BY <1>2, <2>2, <2>3
<1>4. raced' \in BOOLEAN /\ (raced => raced')
  BY <1>1
<1>5. main.at \in {"starting", "starting one"} /\ ~raced' => runner'.at = "sleep"
  BY <1>1, <1>3
<1>6. runner'.at \notin {"loading", "stopping", "installed", "starting"}
  BY <1>3
<1> QED BY <1>1, <1>3, <1>4, <1>5, <1>6, WatcherMoves

\* Install, for a name that a Bundle object has.
LEMMA InstallKeeps ==
  ASSUME IInv, NEW b \in Objects, Install(b), UNCHANGED <<config, main, framework, bundle, catalogue, edits, raced>>,
         runner.at \in {"next", "unloading"}
  PROVE  IInv'
<1> DEFINE known == Known(bundle[b].name)
           place == CHOOSE i \in known : TRUE
<1>1. runner' = [runner EXCEPT !.at = IF known = {} THEN "loading" ELSE "installed",
                               !.current = IF known = {} THEN b ELSE catalogue[place]]
  BY DEF Install
<1>2. catalogue \in Seq(Objects) /\ \A i \in DOMAIN catalogue : catalogue[i] \in Objects
  BY ElementsOfSeq DEF IInv, Types
<1>3. known # {} => place \in DOMAIN catalogue
  BY DEF Known
<1>4. known = {} => \A i \in DOMAIN catalogue : bundle[catalogue[i]].name # bundle[b].name
  BY DEF Known
<1> HIDE DEF known, place
<1>5. /\ RunnerTyped /\ runner'.at = IF known = {} THEN "loading" ELSE "installed"
      /\ runner'.current = IF known = {} THEN b ELSE catalogue[place]
  BY <1>1, <1>2, <1>3, RunnerIs DEF RunnerTyped, IsRunner, WatcherPlaces, Holding
<1>6. runner'.at = "installed" => runner'.current \in ToSet(catalogue)
  BY <1>3, <1>5 DEF ToSet
<1>7. runner'.at = "loading" =>
        \A i \in DOMAIN catalogue : bundle[catalogue[i]].name # bundle[runner'.current].name
  BY <1>4, <1>5
<1>8. main.at \in {"starting", "starting one"} => raced
  BY RunnerIs
<1>9. raced' \in BOOLEAN /\ (raced => raced') /\ runner'.at \notin {"stopping", "starting"}
  BY <1>5, RunnerIs
<1> QED BY <1>5, <1>6, <1>7, <1>8, <1>9, WatcherMoves

\* Uninstall, of a bundle that has stopped or does not run.
LEMMA UninstallKeeps ==
  ASSUME IInv, NEW b \in ToSet(catalogue), Uninstall(b), UNCHANGED <<config, main, framework, edits, raced>>,
         runner.at \in {"next", "stopping"}
  PROVE  IInv'
<1>1. b \in Objects
  BY ElementsOfSeq DEF IInv, Types
<1>2. Restated(b, "UNINSTALLED")
  BY <1>1, SetStateRestates DEF Uninstall, IInv, Objects, States
<1>3. catalogue' = RemoveFirst(catalogue, b)
  BY DEF Uninstall
<1>4. RunnerTyped /\ runner'.at = "unloading"
  BY <1>1, RunnerIs DEF Uninstall, RunnerTyped, IsRunner, WatcherPlaces, Holding
<1>5. "UNINSTALLED" \in States /\ "UNINSTALLED" \notin Up
  BY DEF States, Up
<1>6. runner.at \in Holding \cup {"next"} /\ runner.at \notin {"loading", "starting"}
      /\ runner'.at \notin {"loading", "stopping", "installed", "starting"}
  BY <1>4 DEF Holding
<1> HIDE DEF Uninstall
<1> QED BY <1>1, <1>2, <1>3, <1>4, <1>5, <1>6, WatcherRestates

\* A step that starts or ends a bundle's start or stop, or gives it up.
LEMMA RunnerRestates ==
  ASSUME IInv, UNCHANGED <<config, main, framework, edits, raced, catalogue>>,
         runner.at \in {"next", "stopping", "installed", "starting"},
         NEW b \in ToSet(catalogue), NEW state \in {"ACTIVE", "STARTING", "STOPPING", "INSTALLED"},
         SetState(b, state), RunnerTyped,
         runner'.at \notin {"loading", "unloading", "installed"},
         runner'.at \in {"stopping", "starting"} => runner'.current = b,
         state = "STARTING" => runner'.at = "starting",
         runner.at = "starting" => b = runner.current
  PROVE  IInv'
<1>1. b \in Objects
  BY ElementsOfSeq DEF IInv, Types
<1>2. state \in States
  BY DEF States
<1>3. Restated(b, state)
  BY <1>1, <1>2, SetStateRestates DEF IInv, Objects
<1>4. runner.at \in Holding \cup {"next"} /\ runner.at # "loading" /\ runner'.at # "loading"
  BY DEF Holding
<1>5. /\ runner'.at \in {"stopping", "installed", "starting"} => runner'.current \in ToSet(catalogue)
      /\ state = "STARTING" => runner'.at = "starting" /\ runner'.current = b
  OBVIOUS
<1> QED BY <1>1, <1>2, <1>3, <1>4, <1>5, WatcherRestates

\* The bundle that a module belongs to is one of the copy of the catalogue.
LEMMA OwnerIsBundle ==
  ASSUME IInv, NEW m, Owners(m) # {}
  PROVE  LET b == runner.bundles[Min(Owners(m))]
         IN  b \in Objects /\ b \in ToSet(runner.bundles) /\ bundle[b].name \in Stems[m]
<1>1. runner.bundles \in Seq(Objects) /\ Owners(m) \subseteq DOMAIN runner.bundles
  BY RunnerIs DEF Owners
<1>2. Owners(m) \in SUBSET Nat
  BY <1>1
<1>3. PICK n \in Owners(m) : \A k \in Owners(m) : n <= k
  BY <1>2, LeastExists
<1>4. Min(Owners(m)) \in Owners(m)
  BY <1>3 DEF Min
<1>5. runner.bundles[Min(Owners(m))] \in Objects
  BY <1>1, <1>4, ElementsOfSeq
<1> QED BY <1>1, <1>4, <1>5 DEF Owners, ToSet

LEMMA BeginReloadKeeps == IInv /\ BeginReload => IInv'
<1> SUFFICES ASSUME IInv, BeginReload PROVE IInv'
  OBVIOUS
<1> DEFINE b == runner.bundles[Min(Owners(Head(runner.names)))]
<1>1. /\ runner.at = "next" /\ Owners(Head(runner.names)) # {}
      /\ UNCHANGED <<config, main, framework, edits, raced>>
      /\ \/ b \notin ToSet(catalogue) /\ Install(b) /\ UNCHANGED <<bundle, catalogue>>
         \/ /\ b \in ToSet(catalogue) /\ SetState(b, "STOPPING") /\ UNCHANGED catalogue
            /\ runner' = [runner EXCEPT !.at = "stopping", !.current = b]
         \/ b \in ToSet(catalogue) /\ Uninstall(b)
  BY DEF BeginReload, RunnerAt, history
<1>2. b \in Objects
  BY <1>1, OwnerIsBundle
<1> HIDE DEF b
<1>3. CASE b \notin ToSet(catalogue) /\ Install(b) /\ UNCHANGED <<bundle, catalogue>>
  BY <1>1, <1>2, <1>3, InstallKeeps
<1>4. CASE /\ b \in ToSet(catalogue) /\ SetState(b, "STOPPING") /\ UNCHANGED catalogue
           /\ runner' = [runner EXCEPT !.at = "stopping", !.current = b]
  <2>1. RunnerTyped /\ runner'.at = "stopping" /\ runner'.current = b
    BY <1>2, <1>4, RunnerIs DEF RunnerTyped, IsRunner, WatcherPlaces, Holding
  <2> QED BY <1>1, <1>4, <2>1, RunnerRestates
<1>5. CASE b \in ToSet(catalogue) /\ Uninstall(b)
  BY <1>1, <1>5, UninstallKeeps
<1> QED BY <1>1, <1>3, <1>4, <1>5

LEMMA NoOwnerKeeps == IInv /\ (NoOwner \/ ReloadEnds \/ LoadFails) => IInv'
<1> SUFFICES ASSUME IInv, NoOwner \/ ReloadEnds \/ LoadFails PROVE IInv'
  OBVIOUS
<1>1. /\ UNCHANGED <<config, main, framework, bundle, catalogue, edits, raced>>
      /\ runner.at \in {"next", "loading"}
      /\ \/ runner.at = "next" /\ runner' = [runner EXCEPT !.names = Tail(@)]
         \/ runner' = Resting("sleep") \/ runner' = Resting("failed")
  BY DEF NoOwner, ReloadEnds, LoadFails, RunnerRaises, RunnerAt, history
<1>2. <<>> \in Seq(Objects)
  BY RunnerIs, ElementsOfSeq
<1>3. RunnerTyped /\ runner'.at \in {"next", "sleep", "failed"}
  <2>1. CASE runner.at = "next" /\ runner' = [runner EXCEPT !.names = Tail(@)]
    BY <2>1, RunnerIs DEF RunnerTyped, IsRunner, WatcherPlaces, Holding
  <2>2. CASE runner' = Resting("sleep") \/ runner' = Resting("failed")
    BY <2>2, RestingIsTyped
  <2> QED BY <1>1, <2>1, <2>2
<1>4. main.at \in {"starting", "starting one"} => raced
  BY <1>1, RunnerIs
<1>5. raced' \in BOOLEAN /\ (raced => raced')
      /\ runner'.at \notin {"loading", "stopping", "installed", "starting"}
  BY <1>1, <1>3, RunnerIs
<1> QED BY <1>1, <1>3, <1>4, <1>5, WatcherMoves

LEMMA ReloadStoppedKeeps == IInv /\ (ReloadStopped \/ Unloaded) => IInv'
<1> SUFFICES ASSUME IInv, ReloadStopped \/ Unloaded PROVE IInv'
  OBVIOUS
<1>1. CASE ReloadStopped
  <2>1. runner.at = "stopping" /\ Uninstall(runner.current)
        /\ UNCHANGED <<config, main, framework, edits, raced>>
    BY <1>1 DEF ReloadStopped, RunnerAt, Uninstall, history
  <2>2. runner.current \in ToSet(catalogue)
    BY <2>1 DEF IInv, NamesOnce
  <2> QED BY <2>1, <2>2, UninstallKeeps
<1>2. CASE Unloaded
  <2>1. runner.at = "unloading" /\ Install(runner.current)
        /\ UNCHANGED <<config, main, framework, bundle, catalogue, edits, raced>>
    BY <1>2 DEF Unloaded, RunnerAt, history
  <2>2. runner.current \in Objects
    BY <2>1, RunnerIs DEF Holding
  <2> QED BY <2>1, <2>2, InstallKeeps
<1> QED BY <1>1, <1>2

LEMMA ReloadStopFailsKeeps == IInv /\ ReloadStopFails => IInv'
<1> SUFFICES ASSUME IInv, ReloadStopFails PROVE IInv'
  OBVIOUS
<1>1. /\ UNCHANGED <<config, main, framework, catalogue, edits, raced>>
      /\ runner.at = "stopping" /\ SetState(runner.current, "ACTIVE")
      /\ runner' = Resting("sleep") \/ runner' = Resting("failed")
  BY DEF ReloadStopFails, RunnerRaises, RunnerAt
<1>2. RunnerTyped /\ runner'.at \in {"sleep", "failed"}
  BY <1>1, RestingIsTyped
<1>3. runner.current \in ToSet(catalogue)
  BY <1>1 DEF IInv, NamesOnce
<1> QED BY <1>1, <1>2, <1>3, RunnerRestates

LEMMA ReloadStartEndsKeeps == IInv /\ (ReloadStarted \/ ReloadStartFails) => IInv'
<1> SUFFICES ASSUME IInv, ReloadStarted \/ ReloadStartFails PROVE IInv'
  OBVIOUS
<1>1. PICK state \in {"ACTIVE", "INSTALLED"} :
        /\ UNCHANGED <<config, main, framework, catalogue, edits, raced>>
        /\ runner.at = "starting" /\ SetState(runner.current, state)
        /\ \/ runner' = [runner EXCEPT !.at = "next", !.names = Tail(@)]
           \/ runner' = Resting("sleep") \/ runner' = Resting("failed")
  <2>1. CASE ReloadStarted
    BY <2>1 DEF ReloadStarted, NameDone, RunnerAt, history
  <2>2. CASE ReloadStartFails
    BY <2>2 DEF ReloadStartFails, RunnerRaises, RunnerAt
  <2> QED BY <2>1, <2>2
<1>2. RunnerTyped /\ runner'.at \in {"next", "sleep", "failed"}
  <2>1. CASE runner' = [runner EXCEPT !.at = "next", !.names = Tail(@)]
    BY <2>1, RunnerIs DEF RunnerTyped, IsRunner, WatcherPlaces, Holding
  <2>2. CASE runner' = Resting("sleep") \/ runner' = Resting("failed")
    BY <2>2, RestingIsTyped
  <2> QED BY <1>1, <2>1, <2>2
<1>3. runner.current \in ToSet(catalogue)
  BY <1>1 DEF IInv, NamesOnce
<1> QED BY <1>1, <1>2, <1>3, RunnerRestates

LEMMA ReloadStartsKeeps == IInv /\ ReloadStarts => IInv'
<1> SUFFICES ASSUME IInv, ReloadStarts PROVE IInv'
  OBVIOUS
<1>1. /\ UNCHANGED <<config, main, framework, catalogue, edits, raced>>
      /\ runner.at = "installed"
      /\ \/ SetState(runner.current, "STARTING") /\ runner' = [runner EXCEPT !.at = "starting"]
         \/ UNCHANGED bundle /\ runner' = [runner EXCEPT !.at = "next", !.names = Tail(@)]
  BY DEF ReloadStarts, NameDone, RunnerGoesTo, RunnerAt, history
<1>2. runner.current \in ToSet(catalogue) /\ runner.current \in Objects
  BY <1>1, RunnerIs DEF IInv, NamesOnce, Holding
<1>3. CASE SetState(runner.current, "STARTING") /\ runner' = [runner EXCEPT !.at = "starting"]
  <2>1. RunnerTyped /\ runner'.at = "starting" /\ runner'.current = runner.current
    BY <1>2, <1>3, RunnerIs DEF RunnerTyped, IsRunner, WatcherPlaces, Holding
  <2> QED BY <1>1, <1>2, <1>3, <2>1, RunnerRestates
<1>4. CASE UNCHANGED bundle /\ runner' = [runner EXCEPT !.at = "next", !.names = Tail(@)]
  <2>1. RunnerTyped /\ runner'.at = "next"
    BY <1>4, RunnerIs DEF RunnerTyped, IsRunner, WatcherPlaces, Holding
  <2>2. main.at \in {"starting", "starting one"} => raced
    BY <1>1, RunnerIs
  <2>3. raced' \in BOOLEAN /\ (raced => raced')
        /\ runner'.at \notin {"loading", "stopping", "installed", "starting"}
    BY <1>1, <2>1, RunnerIs
  <2> QED BY <1>1, <1>4, <2>1, <2>2, <2>3, WatcherMoves
<1> QED BY <1>1, <1>3, <1>4

\* install_bundle, of a name that the catalogue does not have.
LEMMA InstalledAdds ==
  ASSUME IInv, NEW name \in Names, Installed(name),
         \A i \in DOMAIN catalogue : bundle[catalogue[i]].name # name
  PROVE  /\ bundle' \in Seq(Bundles) /\ Objects' = Objects \cup {Len(bundle) + 1}
         /\ Len(bundle) + 1 \notin Objects
         /\ \A b \in Objects : bundle'[b] = bundle[b]
         /\ bundle'[Len(bundle) + 1].name = name /\ bundle'[Len(bundle) + 1].state = "INSTALLED"
         /\ bundle'[Len(bundle) + 1].code = Code(name)
         /\ catalogue' \in Seq(Objects')
         /\ ToSet(catalogue') = ToSet(catalogue) \cup {Len(bundle) + 1}
         /\ \A i, j \in DOMAIN catalogue' :
              bundle'[catalogue'[i]].name = bundle'[catalogue'[j]].name => i = j
<1> DEFINE new == Len(bundle) + 1
           made == [name |-> name, state |-> "INSTALLED", code |-> Code(name)]
<1>1. /\ bundle \in Seq(Bundles) /\ catalogue \in Seq(Objects) /\ edits \in [ToSet(Modules) -> Nat]
      /\ \A i, j \in DOMAIN catalogue : bundle[catalogue[i]].name = bundle[catalogue[j]].name => i = j
  BY DEF IInv, Types, NamesOnce
<1>2. made \in Bundles
  <2> DEFINE S == {m \in ToSet(Modules) : name \in Stems[m]}
  <2>1. Code(name) = [m \in S |-> edits[m]]
    BY DEF Code
  <2>2. S \in SUBSET ToSet(Modules)
    OBVIOUS
  <2> HIDE DEF S
  <2>3. Code(name) \in [S -> Nat]
    BY <1>1, <2>1, <2>2
  <2>4. Code(name) \in Codes
    BY <2>2, <2>3 DEF Codes
  <2> QED BY <2>4 DEF Bundles, States
<1>3. made.name = name /\ made.state = "INSTALLED" /\ made.code = Code(name)
  OBVIOUS
<1>4. bundle' = Append(bundle, made) /\ catalogue' = Append(catalogue, new)
  BY DEF Installed
<1> HIDE DEF made
<1>5. /\ bundle' \in Seq(Bundles \cup {made}) /\ Objects = 1..Len(bundle) /\ Len(bundle) \in Nat
      /\ DOMAIN bundle' = 1..(Len(bundle) + 1)
      /\ bundle'[Len(bundle) + 1] = made /\ \A b \in Objects : bundle'[b] = bundle[b]
  BY <1>1, <1>4, AppendHolds DEF Objects
<1>6. /\ bundle' \in Seq(Bundles) /\ Objects' = Objects \cup {new} /\ new \notin Objects
  <2>1. Bundles \cup {made} = Bundles
    BY <1>2
  <2>2. 1..(Len(bundle) + 1) = (1..Len(bundle)) \cup {Len(bundle) + 1} /\ Len(bundle) + 1 \notin 1..Len(bundle)
    BY <1>5
  <2> QED BY <1>5, <2>1, <2>2 DEF Objects
<1>7. /\ catalogue' \in Seq(Objects \cup {new}) /\ DOMAIN catalogue = 1..Len(catalogue)
      /\ Len(catalogue) \in Nat /\ DOMAIN catalogue' = 1..(Len(catalogue) + 1)
      /\ catalogue'[Len(catalogue) + 1] = new
      /\ \A i \in DOMAIN catalogue : catalogue'[i] = catalogue[i]
      /\ ToSet(catalogue') = ToSet(catalogue) \cup {new}
  <2> HIDE DEF new
  <2>1. catalogue \in Seq(Objects) /\ catalogue' = Append(catalogue, new)
    BY <1>1, <1>4
  <2> DEFINE r == Append(catalogue, new)
  <2>2. /\ r \in Seq(Objects \cup {new}) /\ DOMAIN catalogue = 1..Len(catalogue)
        /\ Len(catalogue) \in Nat /\ DOMAIN r = 1..(Len(catalogue) + 1)
        /\ r[Len(catalogue) + 1] = new /\ \A i \in DOMAIN catalogue : r[i] = catalogue[i]
    BY <2>1, AppendHolds
  <2>3. ToSet(r) = ToSet(catalogue) \cup {new}
    BY <2>1, AppendToSet, Zenon
  <2> HIDE DEF r
  <2> QED BY <2>1, <2>2, <2>3 DEF r
<1>8. ASSUME NEW i \in DOMAIN catalogue', NEW j \in DOMAIN catalogue',
             bundle'[catalogue'[i]].name = bundle'[catalogue'[j]].name
      PROVE  i = j
  <2>1. \A k \in DOMAIN catalogue : catalogue[k] \in Objects
    BY <1>1, ElementsOfSeq
  <2>2. \A k \in DOMAIN catalogue : bundle'[catalogue'[k]].name = bundle[catalogue[k]].name
    BY <1>5, <1>7, <2>1
  <2>3. bundle'[catalogue'[Len(catalogue) + 1]].name = name
    BY <1>3, <1>5, <1>7
  <2>4. \A k \in DOMAIN catalogue' : k \in DOMAIN catalogue \/ k = Len(catalogue) + 1
    BY <1>7
  <2> QED BY <1>1, <1>8, <2>2, <2>3, <2>4
<1> QED BY <1>3, <1>5, <1>6, <1>7, <1>8

LEMMA LoadedKeeps == IInv /\ Loaded => IInv'
<1> SUFFICES ASSUME IInv, Loaded PROVE IInv'
  OBVIOUS
<1> DEFINE name == bundle[runner.current].name
           new == Len(bundle) + 1
<1>1. /\ UNCHANGED <<config, main, framework, edits, raced>> /\ runner.at = "loading"
      /\ Installed(name) /\ runner' = [runner EXCEPT !.at = "installed", !.current = new]
  BY DEF Loaded, RunnerAt, history
<1>2. runner.current \in Objects /\ \A i \in DOMAIN catalogue : bundle[catalogue[i]].name # name
  BY <1>1, RunnerIs DEF IInv, NamesOnce, Holding
<1>3. name \in Names
  <2>1. bundle[runner.current] \in Bundles
    BY <1>2, ElementsOfSeq DEF IInv, Types, Objects
  <2> QED BY <2>1 DEF Bundles
<1> HIDE DEF name
<1>4. /\ bundle' \in Seq(Bundles) /\ Objects' = Objects \cup {new} /\ new \notin Objects
      /\ \A b \in Objects : bundle'[b] = bundle[b]
      /\ bundle'[new].state = "INSTALLED"
      /\ catalogue' \in Seq(Objects') /\ ToSet(catalogue') = ToSet(catalogue) \cup {new}
      /\ \A i, j \in DOMAIN catalogue' :
            bundle'[catalogue'[i]].name = bundle'[catalogue'[j]].name => i = j
  BY <1>1, <1>2, <1>3, InstalledAdds
<1> HIDE DEF new
<1>5. /\ IsRunner(runner') /\ runner'.at = "installed" /\ runner'.current = new
      /\ runner'.bundles = runner.bundles /\ runner.bundles \in Seq(Objects)
  BY <1>1, RunnerIs DEF IsRunner
<1>6. Seq(Objects) \subseteq Seq(Objects')
  BY <1>4, SeqOfMore
<1>7. Types'
  <2>1. main' \in [at : MainPlaces, left : Seq(Objects'), was : States]
    BY <1>1, <1>6 DEF IInv, Types
  <2>2. runner'.at \in WatcherPlaces /\ runner'.current \in Objects'
    BY <1>4, <1>5 DEF WatcherPlaces, Holding
  <2> QED BY <1>1, <1>4, <1>5, <1>6, <2>1, <2>2 DEF IInv, Types
<1>8. Together'
  BY <1>1, <1>5 DEF IInv, Together
<1>9. NamesOnce'
  BY <1>4, <1>5 DEF NamesOnce
<1>10. ASSUME ~raced' PROVE UpListed' /\ StartsKnown' /\ StopReaches'
  <2>1. UpListed /\ StartsKnown /\ StopReaches /\ main.at \in {"running", "finally"}
    BY <1>1, <1>10 DEF IInv, Together, Types, MainPlaces, LoopPlaces
  <2>2. UpListed'
    BY <1>1, <1>4, <2>1 DEF UpListed, LoopPlaces, Objects, Up
  <2>3. StartsKnown'
    BY <1>1, <1>4, <1>5, <2>1 DEF StartsKnown, StartingBy, Objects
  <2>4. StopReaches'
    BY <1>1, <2>1 DEF StopReaches
  <2> QED BY <2>2, <2>3, <2>4
<1> QED BY <1>7, <1>8, <1>9, <1>10 DEF IInv

LEMMA EditKeeps == ASSUME IInv, NEW m \in ToSet(Modules), Edit(m) PROVE IInv'
<1>1. /\ UNCHANGED <<config, main, framework, bundle, catalogue, runner, raced>>
      /\ edits' = [edits EXCEPT ![m] = @ + 1]
  BY DEF Edit, history
<1>2. edits' \in [ToSet(Modules) -> Nat]
  <2>1. edits \in [ToSet(Modules) -> Nat]
    BY DEF IInv, Types
  <2>2. edits[m] \in Nat
    BY <2>1
  <2>3. edits[m] + 1 \in Nat
    BY <2>2
  <2> DEFINE more == edits[m] + 1
  <2>4. edits' = [edits EXCEPT ![m] = more]
    BY <1>1
  <2> HIDE DEF more
  <2> QED BY <2>1, <2>3, <2>4 DEF more
<1>3. Types'
  BY <1>1, <1>2 DEF IInv, Types, Objects
<1> QED BY <1>1, <1>3 DEF IInv, Together, NamesOnce, UpListed, StartsKnown, StartingBy, StopReaches

-----------------------------------------------------------------------------
(***************************************************************************)
(* The steps of run_framework, and the signal.                             *)
(***************************************************************************)
LEMMA InstallNextKeeps == IInv /\ (InstallNext \/ InstallFails) => IInv'
<1> SUFFICES ASSUME IInv, InstallNext \/ InstallFails PROVE IInv'
  OBVIOUS
<1> DEFINE entry == Head(config)
           name == Location(entry)
           new == Len(bundle) + 1
<1>1. /\ UNCHANGED <<framework, runner, edits, raced>> /\ main.at = "install" /\ config # <<>>
      /\ config' \in {config, Tail(config)}
      /\ main' = main \/ GoTo("crashed")
      /\ \/ UNCHANGED <<bundle, catalogue>>
         \/ Known(name) = {} /\ Installed(name)
  BY DEF InstallNext, InstallFails, MainAt, history
<1>2. /\ config \in Seq(ConfigEntries) /\ main \in [at : MainPlaces, left : Seq(Objects), was : States]
      /\ Types /\ Together /\ NamesOnce /\ runner.at = "none" /\ raced \in BOOLEAN
  BY <1>1 DEF IInv, Types, Together
<1>3. /\ entry \in ConfigEntries /\ config' \in Seq(ConfigEntries)
  <2>1. config \in Seq(ConfigEntries) /\ config # <<>>
    BY <1>1, <1>2
  <2>2. Head(config) \in ConfigEntries /\ Tail(config) \in Seq(ConfigEntries)
    BY <2>1, HeadAndTail
  <2>3. config' = config \/ config' = Tail(config)
    BY <1>1
  <2> QED BY <2>1, <2>2, <2>3
<1>4. /\ main'.at \in {"install", "crashed"} /\ main' \in [at : MainPlaces, left : Seq(Objects), was : States]
  BY <1>1, <1>2, GoToMoves DEF MainPlaces, LoopPlaces
<1>5. name \in Names
  BY <1>3 DEF Names
<1> HIDE DEF name, entry
<1>6. Together'
  BY <1>1, <1>2, <1>4 DEF Together
<1>7. CASE UNCHANGED <<bundle, catalogue>>
  <2>1. Types'
    BY <1>1, <1>2, <1>3, <1>4, <1>7 DEF Types, Objects
  <2>2. NamesOnce'
    BY <1>1, <1>2, <1>7 DEF NamesOnce
  <2>3. ASSUME ~raced' PROVE UpListed' /\ StartsKnown' /\ StopReaches'
    <3>1. UpListed /\ StartsKnown
      BY <1>1, <2>3 DEF IInv
    <3> QED BY <1>1, <1>2, <1>4, <1>7, <3>1 DEF UpListed, StartsKnown, StartingBy, StopReaches, LoopPlaces
  <2> QED BY <1>6, <2>1, <2>2, <2>3 DEF IInv
<1>8. CASE Known(name) = {} /\ Installed(name)
  <2>1. \A i \in DOMAIN catalogue : bundle[catalogue[i]].name # name
    BY <1>8 DEF Known
  <2>2. /\ bundle' \in Seq(Bundles) /\ Objects' = Objects \cup {new} /\ new \notin Objects
        /\ \A b \in Objects : bundle'[b] = bundle[b]
        /\ bundle'[new].state = "INSTALLED"
        /\ catalogue' \in Seq(Objects') /\ ToSet(catalogue') = ToSet(catalogue) \cup {new}
        /\ \A i, j \in DOMAIN catalogue' :
              bundle'[catalogue'[i]].name = bundle'[catalogue'[j]].name => i = j
    BY <1>5, <1>8, <2>1, InstalledAdds
  <2> HIDE DEF new
  <2>3. Types'
    <3>1. Seq(Objects) \subseteq Seq(Objects')
      BY <2>2, SeqOfMore
    <3>2. main' \in [at : MainPlaces, left : Seq(Objects'), was : States]
      BY <1>4, <3>1
    <3>3. /\ IsRunner(runner) /\ runner.bundles \in Seq(Objects') /\ runner.at \notin Holding
          /\ runner.at \in WatcherPlaces /\ edits \in [ToSet(Modules) -> Nat]
      BY <1>2, <3>1 DEF Types, Holding
    <3> QED BY <1>1, <1>2, <1>3, <1>4, <2>2, <3>2, <3>3 DEF Types
  <2>4. NamesOnce'
    BY <1>1, <1>2, <2>2 DEF NamesOnce
  <2>5. ASSUME ~raced' PROVE UpListed' /\ StartsKnown' /\ StopReaches'
    <3>1. UpListed /\ StartsKnown
      BY <1>1, <2>5 DEF IInv
    <3>2. UpListed'
      BY <1>1, <1>4, <2>2, <3>1 DEF UpListed, LoopPlaces, Objects, Up
    <3>3. StartsKnown'
      BY <1>1, <1>2, <1>4, <2>2, <3>1 DEF StartsKnown, StartingBy, Objects
    <3>4. StopReaches'
      BY <1>4 DEF StopReaches
    <3> QED BY <3>2, <3>3, <3>4
  <2> QED BY <1>6, <2>3, <2>4, <2>5 DEF IInv
<1> QED BY <1>1, <1>7, <1>8

\* A step of run_framework that leaves the bundles alone, and perhaps the watcher at rest.
LEMMA MainMoves ==
  ASSUME IInv, UNCHANGED <<config, bundle, catalogue, edits, raced>>,
         main' \in [at : MainPlaces, left : Seq(Objects), was : States],
         main'.at \notin {"starting one", "stopping one"},
         main'.at \in LoopPlaces => ToSet(main'.left) \subseteq ToSet(catalogue),
         RunnerTyped, runner' = runner \/ runner'.at \in {"none", "new", "ended"},
         Together', ~raced => StartsKnown' /\ StopReaches'
  PROVE  IInv'
<1>1. Types'
  BY DEF IInv, Types, RunnerTyped, Objects
<1>2. NamesOnce'
  BY DEF IInv, NamesOnce
<1>3. ~raced' => UpListed'
  BY DEF IInv, UpListed
<1> QED BY <1>1, <1>2, <1>3 DEF IInv

LEMMA RunnerStays ==
  ASSUME IInv, UNCHANGED <<runner>>
  PROVE  RunnerTyped
BY DEF IInv, Types, RunnerTyped

LEMMA LaunchKeeps == IInv /\ Launch => IInv'
<1> SUFFICES ASSUME IInv, Launch PROVE IInv'
  OBVIOUS
<1>1. /\ UNCHANGED <<config, bundle, catalogue, edits, raced>> /\ main.at = "install"
      /\ runner' = Resting("new") \/ runner' = runner
      /\ framework' = "STARTING"
      /\ main' = [main EXCEPT !.at = "starting", !.left = catalogue]
  BY DEF Launch, MainAt, history
<1>2. /\ main'.at = "starting" /\ main'.left = catalogue
      /\ main' \in [at : MainPlaces, left : Seq(Objects), was : States]
  BY <1>1 DEF IInv, Types, MainPlaces, LoopPlaces
<1>3. RunnerTyped /\ runner'.at \in {"none", "new"} /\ (runner' = runner \/ runner'.at = "new")
  <2>1. runner.at = "none"
    BY <1>1 DEF IInv, Together
  <2>2. CASE runner' = Resting("new")
    BY <2>2, RestingIsTyped
  <2>3. CASE runner' = runner
    BY <2>1, <2>3, RunnerStays
  <2> QED BY <1>1, <2>2, <2>3
<1>4. Together'
  BY <1>1, <1>2, <1>3 DEF Together
<1>5. ~raced => StartsKnown' /\ StopReaches'
  BY <1>1, <1>2, <1>3 DEF IInv, StartsKnown, StartingBy, StopReaches, Together
<1> QED BY <1>1, <1>2, <1>3, <1>4, <1>5, MainMoves

LEMMA StartedKeeps == IInv /\ Started => IInv'
<1> SUFFICES ASSUME IInv, Started PROVE IInv'
  OBVIOUS
<1>1. /\ UNCHANGED <<config, bundle, catalogue, runner, edits, raced>> /\ main.at = "starting"
      /\ framework' = "ACTIVE" /\ GoTo("running")
  BY DEF Started, MainAt, history
<1>2. /\ main'.at = "running" /\ main' \in [at : MainPlaces, left : Seq(Objects), was : States]
  BY <1>1, GoToMoves DEF IInv, MainPlaces, LoopPlaces
<1>3. Together'
  BY <1>1, <1>2 DEF IInv, Together
<1>4. ~raced => StartsKnown' /\ StopReaches'
  BY <1>1, <1>2 DEF IInv, StartsKnown, StartingBy, StopReaches, Together
<1> QED BY <1>1, <1>2, <1>3, <1>4, RunnerStays, MainMoves DEF LoopPlaces

LEMMA SignalKeeps == IInv /\ Signal => IInv'
<1> SUFFICES ASSUME IInv, Signal PROVE IInv'
  OBVIOUS
<1>1. /\ UNCHANGED <<config, framework, bundle, catalogue, runner, edits, raced>>
      /\ \/ main.at = "install" /\ GoTo("crashed")
         \/ main.at \in {"starting", "starting one", "running"} /\ GoTo("finally")
  BY DEF Signal, MainAt, history
<1>2. /\ \/ main.at = "install" /\ main'.at = "crashed"
         \/ main.at \in {"starting", "starting one", "running"} /\ main'.at = "finally"
      /\ main' \in [at : MainPlaces, left : Seq(Objects), was : States]
  BY <1>1, GoToMoves DEF IInv, MainPlaces, LoopPlaces
<1>3. Together /\ Together'
  <2>1. Together /\ (main.at = "running" => framework = "ACTIVE")
    BY DEF IInv, Together
  <2> QED BY <1>1, <1>2, <2>1 DEF Together
<1>4. ~raced => StartsKnown' /\ StopReaches'
  BY <1>1, <1>2, <1>3 DEF IInv, StartsKnown, StartingBy, StopReaches, Together
<1> QED BY <1>1, <1>2, <1>3, <1>4, RunnerStays, MainMoves DEF LoopPlaces

LEMMA StopReloaderKeeps == IInv /\ StopReloader => IInv'
<1> SUFFICES ASSUME IInv, StopReloader PROVE IInv'
  OBVIOUS
<1> DEFINE at == IF runner.at \in {"none", "sleep"} THEN "stop" ELSE "raised"
           rest == IF runner.at = "none" THEN "none" ELSE "ended"
<1>1. /\ UNCHANGED <<config, framework, bundle, catalogue, edits, raced>> /\ main.at = "finally"
      /\ runner' = Resting(rest) /\ GoTo(at)
  BY DEF StopReloader, MainAt, history
<1>2. /\ at \in {"stop", "raised"} /\ (at = "stop" => runner.at # "starting")
      /\ rest \in {"none", "ended"}
  OBVIOUS
<1> HIDE DEF at, rest
<1>3. main'.at = at /\ main' \in [at : MainPlaces, left : Seq(Objects), was : States]
  BY <1>1, <1>2, GoToMoves DEF IInv, MainPlaces, LoopPlaces
<1>4. RunnerTyped /\ runner'.at \in {"none", "ended"}
  BY <1>1, <1>2, RestingIsTyped
<1>5. Together /\ Together'
  <2>1. Together
    BY DEF IInv
  <2> QED BY <1>1, <1>2, <1>3, <1>4, <2>1 DEF Together
<1>6. ~raced => StartsKnown' /\ StopReaches'
  BY <1>1, <1>2, <1>3, <1>5 DEF IInv, StartsKnown, StartingBy, StopReaches
<1> QED BY <1>1, <1>2, <1>3, <1>4, <1>5, <1>6, MainMoves DEF LoopPlaces

\* The stop of the framework, with its copy of the catalogue: no bundle is being started.
LEMMA FrameworkStopKeeps == IInv /\ FrameworkStop => IInv'
<1> SUFFICES ASSUME IInv, FrameworkStop PROVE IInv'
  OBVIOUS
<1> DEFINE copy == Reverse(catalogue)
<1>1. /\ UNCHANGED <<config, bundle, catalogue, runner, edits, raced>> /\ main.at = "stop"
      /\ framework = "ACTIVE" /\ framework' = "STOPPING"
      /\ main' = [main EXCEPT !.at = "stopping", !.left = copy]
  BY DEF FrameworkStop, MainAt, history
<1>2. copy \in Seq(Objects) /\ ToSet(copy) = ToSet(catalogue)
  BY ReverseHolds DEF IInv, Types
<1> HIDE DEF copy
<1>3. /\ main'.at = "stopping" /\ main'.left = copy
      /\ main' \in [at : MainPlaces, left : Seq(Objects), was : States]
  BY <1>1, <1>2 DEF IInv, Types, MainPlaces, LoopPlaces
<1>4. Together /\ runner.at \in {"none", "ended"} /\ Together'
  <2>1. Together /\ runner.at \in {"none", "ended"}
    BY <1>1 DEF IInv, Together
  <2> QED BY <1>1, <1>3, <2>1 DEF Together
<1>5. ASSUME ~raced PROVE StartsKnown' /\ StopReaches'
  <2>1. StartsKnown /\ UpListed
    BY <1>5 DEF IInv
  <2>2. \A b \in DOMAIN bundle : bundle[b].state # "STARTING"
    BY <1>1, <1>4, <2>1 DEF StartsKnown, StartingBy
  <2>3. StopReaches'
    BY <1>1, <1>2, <1>3, <2>1 DEF StopReaches, UpListed
  <2> QED BY <1>1, <2>2, <2>3 DEF StartsKnown
<1> QED BY <1>1, <1>2, <1>3, <1>4, <1>5, RunnerStays, MainMoves

LEMMA FrameworkIsNotActiveKeeps == IInv /\ FrameworkIsNotActive => IInv'
<1> SUFFICES ASSUME IInv, FrameworkIsNotActive PROVE IInv'
  OBVIOUS
<1>1. /\ UNCHANGED <<config, framework, bundle, catalogue, runner, edits, raced>> /\ main.at = "stop"
      /\ framework # "ACTIVE" /\ GoTo("done")
  BY DEF FrameworkIsNotActive, MainAt, history
<1>2. main'.at = "done" /\ main' \in [at : MainPlaces, left : Seq(Objects), was : States]
  BY <1>1, GoToMoves DEF IInv, MainPlaces
<1>3. framework = "STARTING" /\ Together'
  BY <1>1, <1>2 DEF IInv, Together
<1>4. ~raced => StartsKnown' /\ StopReaches'
  BY <1>1, <1>2, <1>3 DEF IInv, StartsKnown, StartingBy, StopReaches, Together
<1> QED BY <1>1, <1>2, <1>3, <1>4, RunnerStays, MainMoves DEF LoopPlaces

LEMMA StoppedKeeps == IInv /\ Stopped => IInv'
<1> SUFFICES ASSUME IInv, Stopped PROVE IInv'
  OBVIOUS
<1>1. /\ UNCHANGED <<config, bundle, catalogue, runner, edits, raced>> /\ main.at = "stopping"
      /\ main.left = <<>> /\ framework' = "RESOLVED" /\ GoTo("done")
  BY DEF Stopped, MainAt, history
<1>2. main'.at = "done" /\ main' \in [at : MainPlaces, left : Seq(Objects), was : States]
  BY <1>1, GoToMoves DEF IInv, MainPlaces
<1>3. Together'
  BY <1>1, <1>2 DEF IInv, Together
<1>4. ASSUME ~raced PROVE StartsKnown' /\ StopReaches'
  <2>1. ToSet(main.left) = {}
    BY <1>1 DEF ToSet
  <2>2. \A b \in DOMAIN bundle : bundle[b].state \notin Up
    BY <1>1, <1>4, <2>1 DEF IInv, StopReaches
  <2> QED BY <1>1, <2>2 DEF StartsKnown, StopReaches, Up
<1> QED BY <1>1, <1>2, <1>3, <1>4, RunnerStays, MainMoves DEF LoopPlaces

\* A step of the level loop, at the first of the bundles that are left: it goes on with all of
\* them or without that one, or gives the loop up.
LEMMA LoopRestates ==
  ASSUME IInv, UNCHANGED <<config, framework, catalogue, runner, edits, raced>>,
         main.at \in LoopPlaces, main.left # <<>>,
         NEW state \in States, Restated(Loop, state),
         main' \in [at : MainPlaces, left : Seq(Objects), was : States],
         \/ main'.left \in {main.left, Tail(main.left)}
         \/ main'.left = <<>> /\ main'.at \in {"finally", "raised"},
         main'.at \in {"starting one", "stopping one"} => main'.left = main.left,
         \/ main.at \in {"starting", "starting one"} /\ main'.at \in {"starting", "starting one", "finally"}
         \/ main.at \in {"stopping", "stopping one"} /\ main'.at \in {"stopping", "stopping one", "raised"},
         main'.at = "starting one" => main'.was \notin Up,
         ~raced /\ state = "STARTING" =>
           main'.at = "starting one" \/ (framework = "STARTING" /\ main'.at = "finally"),
         ~raced /\ state \in Up => main'.at # "stopping one" /\ (main'.at = "stopping" => main'.left = main.left)
  PROVE  IInv'
<1>1. /\ Types /\ Objects' = Objects /\ main.left \in Seq(Objects) /\ Loop = Head(main.left)
      /\ \A c \in Objects : /\ bundle'[c].name = bundle[c].name
                            /\ bundle'[c].state = IF c = Loop THEN state ELSE bundle[c].state
  BY DEF IInv, Types, Restated, Objects, Loop
<1>2. /\ Loop \in Objects /\ Tail(main.left) \in Seq(Objects)
      /\ ToSet(main.left) = {Loop} \cup ToSet(Tail(main.left)) /\ ToSet(<<>>) = {}
  <2>1. ToSet(<<>>) = {}
    BY EmptyHoldsNothing
  <2>2. main.left \in Seq(Objects) /\ main.left # <<>>
    BY <1>1
  <2>3. /\ Head(main.left) \in Objects /\ Tail(main.left) \in Seq(Objects)
        /\ ToSet(main.left) = {Head(main.left)} \cup ToSet(Tail(main.left))
    BY <2>2, HeadAndTail
  <2> QED BY <2>1, <2>3 DEF Loop
<1>3. Types'
  BY <1>1 DEF Types, Restated
<1>4. Together'
  BY DEF IInv, Together
<1>5. NamesOnce'
  <2>1. \A i \in DOMAIN catalogue : catalogue[i] \in Objects
    BY ElementsOfSeq DEF IInv, Types
  <2>2. runner.at = "loading" => runner.current \in Objects
    BY RunnerIs DEF Holding
  <2>3. \A i \in DOMAIN catalogue : bundle'[catalogue[i]].name = bundle[catalogue[i]].name
    BY <1>1, <2>1
  <2>4. runner.at = "loading" => bundle'[runner.current].name = bundle[runner.current].name
    BY <1>1, <2>2
  <2>5. NamesOnce
    BY DEF IInv
  <2> QED BY <2>3, <2>4, <2>5 DEF NamesOnce
<1>6. ASSUME ~raced' PROVE UpListed' /\ StartsKnown' /\ StopReaches'
  <2>1. UpListed /\ StartsKnown /\ StopReaches
    BY <1>6 DEF IInv
  <2>2. ToSet(main'.left) \subseteq ToSet(main.left) /\ ToSet(main.left) \subseteq ToSet(catalogue)
    BY <1>2, <2>1 DEF UpListed
  <2>3. UpListed'
    BY <1>1, <1>2, <2>1, <2>2 DEF UpListed, Objects
  <2>4. StartsKnown'
    <3> SUFFICES ASSUME NEW b \in Objects, bundle'[b].state = "STARTING" PROVE StartingBy(b)'
      BY <1>1 DEF StartsKnown, Objects
    <3>1. CASE b = Loop
      BY <1>1, <1>6, <3>1 DEF StartingBy
    <3>2. CASE b # Loop
      <4>1. StartingBy(b)
        BY <1>1, <2>1, <3>2 DEF StartsKnown, Objects
      <4>2. runner.at = "starting" /\ b = runner.current
        BY <1>1, <3>2, <4>1 DEF StartingBy, LoopPlaces
      <4>3. runner' = runner
        OBVIOUS
      <4>4. runner'.at = "starting" /\ b = runner'.current
        BY <4>2, <4>3
      <4> QED BY <4>4 DEF StartingBy
    <3> QED BY <3>1, <3>2
  <2>5. StopReaches'
    <3> SUFFICES ASSUME NEW b \in Objects, bundle'[b].state \in Up,
                        main'.at \in {"stopping", "stopping one"}
                 PROVE  b \in ToSet(main'.left)
      BY <1>1 DEF StopReaches, Objects
    <3>1. CASE b = Loop
      BY <1>1, <1>2, <1>6, <3>1
    <3>2. CASE b # Loop
      <4>1. b \in ToSet(main.left)
        BY <1>1, <2>1, <3>2 DEF StopReaches, Objects
      <4>2. main'.left \in {main.left, Tail(main.left)}
        OBVIOUS
      <4> QED BY <1>2, <3>2, <4>1, <4>2
    <3> QED BY <3>1, <3>2
  <2> QED BY <2>3, <2>4, <2>5
<1> QED BY <1>3, <1>4, <1>5, <1>6 DEF IInv

\* Where the level loop is, and how it goes on.
LEMMA LoopIs ==
  ASSUME IInv, main.at \in LoopPlaces, main.left # <<>>
  PROVE  /\ Loop \in Objects /\ bundle[Loop].state \in States
         /\ Tail(main.left) \in Seq(Objects) /\ main.left \in Seq(Objects)
         /\ main \in [at : MainPlaces, left : Seq(Objects), was : States]
         /\ ~raced /\ main.at = "starting one" => main.was \notin Up
<1>1. /\ main.left \in Seq(Objects) /\ bundle \in Seq(Bundles)
      /\ main \in [at : MainPlaces, left : Seq(Objects), was : States]
  BY DEF IInv, Types
<1>2. Loop \in Objects /\ Tail(main.left) \in Seq(Objects)
  BY <1>1, HeadAndTail DEF Loop
<1>3. bundle[Loop] \in Bundles
  BY <1>1, <1>2, ElementsOfSeq DEF Objects
<1> QED BY <1>1, <1>2, <1>3 DEF Bundles, IInv, UpListed

\* A bundle that the level loop passes keeps its state.
LEMMA UnchangedRestates ==
  ASSUME IInv, NEW b \in Objects, UNCHANGED bundle
  PROVE  Restated(b, bundle[b].state)
BY DEF IInv, Types, Restated, Objects

LEMMA LevelStartsKeeps == IInv /\ LevelStarts => IInv'
<1> SUFFICES ASSUME IInv, LevelStarts PROVE IInv'
  OBVIOUS
<1>1. /\ UNCHANGED <<config, framework, catalogue, runner, edits, raced>>
      /\ main.at = "starting" /\ main.at \in LoopPlaces /\ main.left # <<>>
      /\ \/ /\ bundle[Loop].state \in Up /\ UNCHANGED bundle
            /\ main' = [main EXCEPT !.left = Tail(@)]
         \/ /\ bundle[Loop].state \notin Up /\ SetState(Loop, "STARTING")
            /\ main' = [main EXCEPT !.at = "starting one", !.was = bundle[Loop].state]
  BY DEF LevelStarts, MainAt, LoopPlaces, history
<1>2. /\ Loop \in Objects /\ bundle[Loop].state \in States
      /\ Tail(main.left) \in Seq(Objects) /\ main.left \in Seq(Objects)
      /\ main \in [at : MainPlaces, left : Seq(Objects), was : States]
  BY <1>1, LoopIs
<1>3. CASE /\ bundle[Loop].state \in Up /\ UNCHANGED bundle
           /\ main' = [main EXCEPT !.left = Tail(@)]
  <2>1. /\ main'.at = "starting" /\ main'.left = Tail(main.left)
        /\ main' \in [at : MainPlaces, left : Seq(Objects), was : States]
    BY <1>1, <1>2, <1>3
  <2>2. Restated(Loop, bundle[Loop].state)
    BY <1>2, <1>3, UnchangedRestates
  <2>3. ~raced => bundle[Loop].state # "STARTING"
    BY <1>1, <1>2 DEF IInv, StartsKnown, StartingBy, Together, Objects
  <2> QED BY <1>1, <1>2, <2>1, <2>2, <2>3, LoopRestates
<1>4. CASE /\ bundle[Loop].state \notin Up /\ SetState(Loop, "STARTING")
           /\ main' = [main EXCEPT !.at = "starting one", !.was = bundle[Loop].state]
  <2>1. /\ main'.at = "starting one" /\ main'.left = main.left /\ main'.was \notin Up
        /\ main' \in [at : MainPlaces, left : Seq(Objects), was : States]
    BY <1>1, <1>2, <1>4 DEF MainPlaces, LoopPlaces
  <2>2. Restated(Loop, "STARTING") /\ "STARTING" \in States
    BY <1>2, <1>4, SetStateRestates DEF IInv, Objects, States
  <2> QED BY <1>1, <1>2, <2>1, <2>2, LoopRestates
<1> QED BY <1>1, <1>3, <1>4

LEMMA LevelStartEndsKeeps == IInv /\ (LevelStarted \/ LevelStartFails) => IInv'
<1> SUFFICES ASSUME IInv, LevelStarted \/ LevelStartFails PROVE IInv'
  OBVIOUS
<1>1. /\ UNCHANGED <<config, framework, catalogue, runner, edits, raced>>
      /\ main.at = "starting one" /\ main.at \in LoopPlaces /\ main.left # <<>>
      /\ \/ SetState(Loop, "ACTIVE") /\ main' = [main EXCEPT !.at = "starting", !.left = Tail(@)]
         \/ SetState(Loop, main.was) /\ GoTo("finally")
  BY DEF LevelStarted, LevelStartFails, Rest, MainAt, LoopPlaces, history, IInv, Types
<1>2. /\ Loop \in Objects /\ bundle[Loop].state \in States
      /\ Tail(main.left) \in Seq(Objects) /\ main.left \in Seq(Objects)
      /\ main \in [at : MainPlaces, left : Seq(Objects), was : States]
      /\ ~raced => main.was \notin Up
  BY <1>1, LoopIs
<1>3. CASE SetState(Loop, "ACTIVE") /\ main' = [main EXCEPT !.at = "starting", !.left = Tail(@)]
  <2>1. /\ main'.at = "starting" /\ main'.left = Tail(main.left)
        /\ main' \in [at : MainPlaces, left : Seq(Objects), was : States]
    BY <1>1, <1>2, <1>3 DEF MainPlaces, LoopPlaces
  <2>2. Restated(Loop, "ACTIVE") /\ "ACTIVE" \in States
    BY <1>2, <1>3, SetStateRestates DEF IInv, Objects, States
  <2> QED BY <1>1, <1>2, <2>1, <2>2, LoopRestates
<1>4. CASE SetState(Loop, main.was) /\ GoTo("finally")
  <2>1. /\ main'.at = "finally" /\ main'.left = <<>>
        /\ main' \in [at : MainPlaces, left : Seq(Objects), was : States]
    BY <1>1, <1>2, <1>4, GoToMoves DEF IInv, MainPlaces
  <2>2. Restated(Loop, main.was) /\ main.was \in States
    BY <1>2, <1>4, SetStateRestates DEF IInv, Objects
  <2>3. ~raced => main.was # "STARTING"
    BY <1>2 DEF Up
  <2> QED BY <1>1, <1>2, <2>1, <2>2, <2>3, LoopRestates
<1> QED BY <1>1, <1>3, <1>4

LEMMA LevelStopsKeeps == IInv /\ LevelStops => IInv'
<1> SUFFICES ASSUME IInv, LevelStops PROVE IInv'
  OBVIOUS
<1>1. /\ UNCHANGED <<config, framework, catalogue, runner, edits, raced>>
      /\ main.at = "stopping" /\ main.at \in LoopPlaces /\ main.left # <<>>
      /\ \/ /\ bundle[Loop].state # "ACTIVE" /\ UNCHANGED bundle
            /\ main' = [main EXCEPT !.left = Tail(@)]
         \/ SetState(Loop, "STOPPING") /\ main' = [main EXCEPT !.at = "stopping one"]
  BY DEF LevelStops, MainAt, LoopPlaces, history
<1>2. /\ Loop \in Objects /\ bundle[Loop].state \in States
      /\ Tail(main.left) \in Seq(Objects) /\ main.left \in Seq(Objects)
      /\ main \in [at : MainPlaces, left : Seq(Objects), was : States]
  BY <1>1, LoopIs
<1>3. CASE /\ bundle[Loop].state # "ACTIVE" /\ UNCHANGED bundle
           /\ main' = [main EXCEPT !.left = Tail(@)]
  <2>1. /\ main'.at = "stopping" /\ main'.left = Tail(main.left)
        /\ main' \in [at : MainPlaces, left : Seq(Objects), was : States]
    BY <1>1, <1>2, <1>3
  <2>2. Restated(Loop, bundle[Loop].state)
    BY <1>2, <1>3, UnchangedRestates
  <2>3. ~raced => bundle[Loop].state # "STARTING"
    BY <1>1, <1>2 DEF IInv, StartsKnown, StartingBy, Together, Objects
  <2>4. ~raced => bundle[Loop].state \notin Up
    BY <1>3, <2>3 DEF Up
  <2> QED BY <1>1, <1>2, <2>1, <2>2, <2>3, <2>4, LoopRestates
<1>4. CASE SetState(Loop, "STOPPING") /\ main' = [main EXCEPT !.at = "stopping one"]
  <2>1. /\ main'.at = "stopping one" /\ main'.left = main.left
        /\ main' \in [at : MainPlaces, left : Seq(Objects), was : States]
    BY <1>1, <1>2, <1>4 DEF MainPlaces, LoopPlaces
  <2>2. Restated(Loop, "STOPPING") /\ "STOPPING" \in States /\ "STOPPING" \notin Up
    BY <1>2, <1>4, SetStateRestates DEF IInv, Objects, States, Up
  <2> QED BY <1>1, <1>2, <2>1, <2>2, LoopRestates
<1> QED BY <1>1, <1>3, <1>4

LEMMA LevelStopEndsKeeps == IInv /\ (LevelStopped \/ LevelStopFails) => IInv'
<1> SUFFICES ASSUME IInv, LevelStopped \/ LevelStopFails PROVE IInv'
  OBVIOUS
<1>1. /\ UNCHANGED <<config, framework, catalogue, runner, edits, raced>>
      /\ main.at = "stopping one" /\ main.at \in LoopPlaces /\ main.left # <<>>
      /\ \/ SetState(Loop, "RESOLVED") /\ main' = [main EXCEPT !.at = "stopping", !.left = Tail(@)]
         \/ SetState(Loop, "ACTIVE") /\ GoTo("raised")
  BY DEF LevelStopped, LevelStopFails, Rest, MainAt, LoopPlaces, history, IInv, Types
<1>2. /\ Loop \in Objects /\ Tail(main.left) \in Seq(Objects) /\ main.left \in Seq(Objects)
      /\ main \in [at : MainPlaces, left : Seq(Objects), was : States]
  BY <1>1, LoopIs
<1>3. CASE SetState(Loop, "RESOLVED") /\ main' = [main EXCEPT !.at = "stopping", !.left = Tail(@)]
  <2>1. /\ main'.at = "stopping" /\ main'.left = Tail(main.left)
        /\ main' \in [at : MainPlaces, left : Seq(Objects), was : States]
    BY <1>1, <1>2, <1>3 DEF MainPlaces, LoopPlaces
  <2>2. Restated(Loop, "RESOLVED") /\ "RESOLVED" \in States /\ "RESOLVED" \notin Up
    BY <1>2, <1>3, SetStateRestates DEF IInv, Objects, States, Up
  <2> QED BY <1>1, <1>2, <2>1, <2>2, LoopRestates
<1>4. CASE SetState(Loop, "ACTIVE") /\ GoTo("raised")
  <2>1. /\ main'.at = "raised" /\ main'.left = <<>>
        /\ main' \in [at : MainPlaces, left : Seq(Objects), was : States]
    BY <1>1, <1>2, <1>4, GoToMoves DEF IInv, MainPlaces
  <2>2. Restated(Loop, "ACTIVE") /\ "ACTIVE" \in States
    BY <1>2, <1>4, SetStateRestates DEF IInv, Objects, States
  <2> QED BY <1>1, <1>2, <2>1, <2>2, LoopRestates
<1> QED BY <1>1, <1>3, <1>4

-----------------------------------------------------------------------------
(***************************************************************************)
(* What the watcher still owes to the bundles whose files changed.         *)
(***************************************************************************)
\* Every module that is new for a bundle's code is one of those in S.
Fresh(b, S) == \A m \in DOMAIN bundle[b].code : bundle[b].code[m] # edits[m] => m \in S

\* A module's name starts with the name of one configured bundle at most.  Of several, a
\* reload takes the first (Reloader.reload_bunldes).
OneBundlePerModule == \A m \in ToSet(Modules) : \A a, b \in Stems[m] \cap Names : a = b

\* The bundles that are reloaded are those of a copy of the catalogue.  It has a name once,
\* and all names that the catalogue has.
CopyCovers ==
    /\ \A i, j \in DOMAIN runner.bundles :
         bundle[runner.bundles[i]].name = bundle[runner.bundles[j]].name => i = j
    /\ \A b \in ToSet(catalogue) : \E i \in DOMAIN runner.bundles :
         bundle[runner.bundles[i]].name = bundle[b].name

\* A bundle that waits for its reload has a changed module among the names that are left; one
\* that is not of the copy was made by this reload.
OwedReload ==
    /\ \A b \in ToSet(catalogue) :
         /\ Fresh(b, changed \cup ToSet(runner.names))
         /\ b \notin ToSet(runner.bundles) => Fresh(b, changed)
    /\ runner.at \in {"installed", "starting"} => Fresh(runner.current, changed)

\* Where the watcher has a bundle in its hands it reloads it for the first of the names, and
\* until that is installed anew the bundle is one of the copy.
InHands ==
    /\ runner.names \in Seq(ToSet(Modules))
    /\ runner.at \in Holding =>
         runner.names # <<>> /\ bundle[runner.current].name \in Stems[Head(runner.names)]
    /\ runner.at \in {"stopping", "unloading", "loading"} =>
         runner.current \in ToSet(runner.bundles)
    /\ runner.at \in {"unloading", "loading"} => runner.current \notin ToSet(catalogue)

CodesAreOfNames == \A b \in Objects :
    DOMAIN bundle[b].code = {m \in ToSet(Modules) : bundle[b].name \in Stems[m]}

Latest ==
    /\ CodesAreOfNames /\ InHands
    /\ runner.at \in {"none", "new"} => changed = {} /\ \A b \in ToSet(catalogue) : Fresh(b, {})
    /\ RunnerAt("sleep") /\ ~swallowed => \A b \in ToSet(catalogue) : Fresh(b, changed)
    /\ Reloading => CopyCovers
    /\ Reloading /\ ~swallowed => OwedReload

\* The recursive definition of Updated has a solution.
UpdatedAt(f, n) ==
    IF n = 0 THEN <<>>
    ELSE IF Modules[n] \in changed THEN Append(f[n - 1], Modules[n]) ELSE f[n - 1]

SolvesUpdated(f, n) == f = [i \in 0 .. n |-> UpdatedAt(f, i)]

LEMMA UpdatedExists ==
  ASSUME NEW n \in Nat
  PROVE  \E f : SolvesUpdated(f, n)
<1> DEFINE T == {k \in Nat : \E f : SolvesUpdated(f, k)}
<1>1. 0 \in T
  <2> DEFINE g == [i \in 0 .. 0 |-> <<>>]
  <2>1. \A i \in 0 .. 0 : UpdatedAt(g, i) = <<>>
    BY DEF UpdatedAt
  <2>2. SolvesUpdated(g, 0)
    BY <2>1 DEF SolvesUpdated
  <2> QED BY <2>2
<1>2. ASSUME NEW k \in Nat, k \in T PROVE k + 1 \in T
  <2>1. PICK f : SolvesUpdated(f, k)
    BY <1>2
  <2> DEFINE g == [i \in 0 .. k + 1 |-> UpdatedAt(f, i)]
  <2>2. ASSUME NEW i \in 0 .. k PROVE g[i] = f[i]
    <3>1. i \in 0 .. k + 1 /\ f[i] = UpdatedAt(f, i)
      BY <2>1 DEF SolvesUpdated
    <3> QED BY <3>1
  <2>3. ASSUME NEW i \in 0 .. k + 1 PROVE UpdatedAt(f, i) = UpdatedAt(g, i)
    <3>1. CASE i = 0
      BY <3>1 DEF UpdatedAt
    <3>2. CASE i # 0
      <4>1. i - 1 \in 0 .. k
        BY <3>2
      <4>2. g[i - 1] = f[i - 1]
        BY <2>2, <4>1
      <4> HIDE DEF g
      <4> QED BY <3>2, <4>2 DEF UpdatedAt
    <3> QED BY <3>1, <3>2
  <2>4. SolvesUpdated(g, k + 1)
    BY <2>3 DEF SolvesUpdated
  <2> QED BY <2>4
<1> HIDE DEF T
<1>3. n \in T
  BY <1>1, <1>2, SetInduction
<1> QED BY <1>3 DEF T

\* The watcher goes through the modules that changed.
LEMMA UpdatedHolds ==
  /\ Updated \in Seq(ToSet(Modules))
  /\ ToSet(Updated) = {m \in ToSet(Modules) : m \in changed}
<1> DEFINE n == Len(Modules)
           M == ToSet(Modules)
           Found(k) == {Modules[i] : i \in {j \in 1 .. k : Modules[j] \in changed}}
           updated == CHOOSE f : f = [i \in 0 .. n |->
                        IF i = 0 THEN <<>>
                        ELSE IF Modules[i] \in changed THEN Append(f[i - 1], Modules[i])
                        ELSE f[i - 1]]
<1>1. Modules \in Seq(M) /\ n \in Nat /\ DOMAIN Modules = 1 .. n
  BY CommandAssumption
<1>2. Updated = updated[n]
  BY DEF Updated
<1>3. updated = [i \in 0 .. n |->
                   IF i = 0 THEN <<>>
                   ELSE IF Modules[i] \in changed THEN Append(updated[i - 1], Modules[i])
                   ELSE updated[i - 1]]
  <2>1. PICK f : SolvesUpdated(f, n)
    BY <1>1, UpdatedExists
  <2>2. f = [i \in 0 .. n |->
               IF i = 0 THEN <<>>
               ELSE IF Modules[i] \in changed THEN Append(f[i - 1], Modules[i])
               ELSE f[i - 1]]
    BY <2>1 DEF SolvesUpdated, UpdatedAt
  <2> QED BY <2>2
<1> HIDE DEF updated
<1> DEFINE T == {k \in Nat : k <= n => updated[k] \in Seq(M) /\ ToSet(updated[k]) = Found(k)}
<1>4. 0 \in T
  <2>1. updated[0] = <<>>
    BY <1>1, <1>3
  <2>2. Found(0) = {} /\ <<>> \in Seq(M)
    BY EmptySeq
  <2> QED BY <2>1, <2>2, EmptyHoldsNothing
<1>5. ASSUME NEW k \in Nat, k \in T PROVE k + 1 \in T
  <2> SUFFICES ASSUME k + 1 <= n
               PROVE  updated[k + 1] \in Seq(M) /\ ToSet(updated[k + 1]) = Found(k + 1)
    OBVIOUS
  <2> DEFINE m == Modules[k + 1]
  <2>1. updated[k] \in Seq(M) /\ ToSet(updated[k]) = Found(k)
    BY <1>1, <1>5
  <2>2. k + 1 \in 0 .. n /\ k + 1 # 0 /\ (k + 1) - 1 = k /\ k + 1 \in 1 .. n
    BY <1>1
  <2>3. updated[k + 1] = IF m \in changed THEN Append(updated[k], m) ELSE updated[k]
    BY <1>3, <2>2
  <2>4. 1 .. k + 1 = (1 .. k) \cup {k + 1}
    OBVIOUS
  <2>5. Found(k + 1) = IF m \in changed THEN Found(k) \cup {m} ELSE Found(k)
    BY <2>4
  <2>6. m \in M
    BY <1>1, <2>2, ElementsOfSeq
  <2> HIDE DEF Found, m
  <2>7. CASE m \in changed
    <3>1. Append(updated[k], m) \in Seq(M)
      BY <2>1, <2>6
    <3>2. ToSet(Append(updated[k], m)) = ToSet(updated[k]) \cup {m}
      BY <2>1, AppendToSet
    <3> QED BY <2>1, <2>3, <2>5, <2>7, <3>1, <3>2
  <2> QED BY <2>1, <2>3, <2>5, <2>7
<1> HIDE DEF T
<1>6. n \in T
  BY <1>1, <1>4, <1>5, SetInduction
<1>7. updated[n] \in Seq(M) /\ ToSet(updated[n]) = Found(n)
  BY <1>1, <1>6 DEF T
<1>8. Found(n) = {m \in M : m \in changed}
  BY <1>1 DEF ToSet
<1> QED BY <1>2, <1>7, <1>8

LEMMA PlacesAreObjects ==
  ASSUME IInv
  PROVE  /\ catalogue \in Seq(Objects) /\ ToSet(catalogue) \subseteq Objects
         /\ runner.bundles \in Seq(Objects) /\ ToSet(runner.bundles) \subseteq Objects
         /\ \A i \in DOMAIN runner.bundles : runner.bundles[i] \in Objects
         /\ runner.at \in Holding => runner.current \in Objects
         /\ \A b \in Objects : bundle[b].name \in Names /\ bundle[b].code \in Codes
<1>1. /\ catalogue \in Seq(Objects) /\ runner.bundles \in Seq(Objects) /\ bundle \in Seq(Bundles)
      /\ runner.at \in Holding => runner.current \in Objects
  BY DEF IInv, Types
<1>2. \A b \in Objects : bundle[b] \in Bundles
  BY <1>1, ElementsOfSeq DEF Objects
<1>3. ToSet(catalogue) \subseteq Objects
  BY <1>1, ElementsOfSeq
<1>4. /\ ToSet(runner.bundles) \subseteq Objects
      /\ \A i \in DOMAIN runner.bundles : runner.bundles[i] \in Objects
  BY <1>1, ElementsOfSeq
<1> QED BY <1>1, <1>2, <1>3, <1>4 DEF Bundles

LEMMA OneOfAName ==
  ASSUME IInv, NEW a \in ToSet(catalogue), NEW b \in ToSet(catalogue),
         bundle[a].name = bundle[b].name
  PROVE  a = b
<1>1. PICK i \in DOMAIN catalogue, j \in DOMAIN catalogue : a = catalogue[i] /\ b = catalogue[j]
  BY DEF ToSet
<1> QED BY <1>1 DEF IInv, NamesOnce

LEMMA OneOfTheCopy ==
  ASSUME CopyCovers, NEW a \in ToSet(runner.bundles), NEW b \in ToSet(runner.bundles),
         bundle[a].name = bundle[b].name
  PROVE  a = b
<1>1. PICK i \in DOMAIN runner.bundles, j \in DOMAIN runner.bundles :
        a = runner.bundles[i] /\ b = runner.bundles[j]
  BY DEF ToSet
<1> QED BY <1>1 DEF CopyCovers

\* The bundles keep their names and codes.
CodesKept ==
    /\ DOMAIN bundle' = DOMAIN bundle
    /\ \A b \in DOMAIN bundle : /\ bundle'[b].name = bundle[b].name
                                /\ bundle'[b].code = bundle[b].code

LEMMA StateKeepsCodes ==
  ASSUME IInv, NEW b \in Objects, NEW state \in States, SetState(b, state)
  PROVE  CodesKept
BY SetStateRestates DEF IInv, Objects, Restated, CodesKept

\* A step that concerns no reload.
LEMMA LatestStays ==
  ASSUME IInv, Latest, CodesKept, UNCHANGED <<catalogue, runner, changed, edits, swallowed>>
  PROVE  Latest'
<1>1. /\ Objects' = Objects
      /\ \A b \in Objects : /\ bundle'[b].name = bundle[b].name
                            /\ bundle'[b].code = bundle[b].code
  BY DEF CodesKept, Objects
<1>2. CodesAreOfNames'
  BY <1>1 DEF Latest, CodesAreOfNames
<1>3. InHands'
  BY <1>1, PlacesAreObjects DEF Latest, InHands
<1>4. CopyCovers => CopyCovers'
  <2>1. ASSUME CopyCovers, NEW b \in ToSet(catalogue)
        PROVE  \E i \in DOMAIN runner.bundles : bundle'[runner.bundles[i]].name = bundle'[b].name
    BY <1>1, <2>1, PlacesAreObjects DEF CopyCovers
  <2> QED BY <1>1, <2>1, PlacesAreObjects DEF CopyCovers
<1>5. OwedReload => OwedReload'
  BY <1>1, PlacesAreObjects DEF OwedReload, Fresh, Holding
<1>6. ASSUME NEW b \in ToSet(catalogue), NEW S, Fresh(b, S)
      PROVE  \A m \in DOMAIN bundle'[b].code : bundle'[b].code[m] # edits[m] => m \in S
  BY <1>1, <1>6, PlacesAreObjects DEF Fresh
<1> QED BY <1>2, <1>3, <1>4, <1>5, <1>6 DEF Latest, RunnerAt, Reloading, Fresh

\* The watcher comes to rest, and if it sleeps because of an AttributeError.
LEMMA LatestRests ==
  ASSUME IInv, Latest, CodesKept, UNCHANGED <<catalogue, changed, edits>>,
         NEW at \in {"none", "new", "ended", "failed", "sleep"}, runner' = Resting(at),
         at \in {"none", "new"} => runner.at = "none",
         at = "sleep" => swallowed'
  PROVE  Latest'
<1>1. /\ Objects' = Objects
      /\ \A b \in Objects : /\ bundle'[b].name = bundle[b].name
                            /\ bundle'[b].code = bundle[b].code
  BY DEF CodesKept, Objects
<1>2. /\ runner'.at = at /\ runner'.names = <<>> /\ <<>> \in Seq(ToSet(Modules))
      /\ at \notin Holding /\ ~Reloading'
  BY EmptySeq DEF Resting, Holding, Reloading
<1>3. CodesAreOfNames'
  BY <1>1 DEF Latest, CodesAreOfNames
<1>4. InHands'
  BY <1>2 DEF InHands, Holding
<1>5. ASSUME at \in {"none", "new"}, NEW b \in ToSet(catalogue)
      PROVE  changed = {} /\ \A m \in DOMAIN bundle'[b].code : bundle'[b].code[m] = edits[m]
  BY <1>1, <1>5, PlacesAreObjects DEF Latest, Fresh
<1>6. at \in {"none", "new"} => changed = {}
  BY DEF Latest
<1> QED BY <1>2, <1>3, <1>4, <1>5, <1>6 DEF Latest, RunnerAt, Fresh

\* The steps of run_framework and the signal reload nothing.
LEMMA LevelsAreLatest ==
  ASSUME IInv, Latest,
         LevelStarts \/ LevelStarted \/ LevelStartFails \/ LevelStops \/ LevelStopped \/ LevelStopFails
  PROVE  Latest'
<1>1. /\ UNCHANGED <<catalogue, runner, changed, edits, swallowed>>
      /\ UNCHANGED bundle \/ \E state \in States : SetState(Loop, state)
      /\ main.at \in LoopPlaces /\ main.left # <<>>
  BY DEF LevelStarts, LevelStarted, LevelStartFails, LevelStops, LevelStopped, LevelStopFails,
         MainAt, LoopPlaces, history, States, IInv, Types
<1>2. Loop \in Objects
  BY <1>1, LoopIs
<1>3. CodesKept
  BY <1>1, <1>2, StateKeepsCodes DEF CodesKept
<1> QED BY <1>1, <1>3, LatestStays

LEMMA MainIsLatest ==
  ASSUME IInv, Latest, Started \/ Signal \/ FrameworkStop \/ FrameworkIsNotActive \/ Stopped
                       \/ InstallFails \/ UNCHANGED vars
  PROVE  Latest'
<1>1. UNCHANGED <<catalogue, runner, changed, edits, swallowed, bundle>>
  BY DEF Started, Signal, FrameworkStop, FrameworkIsNotActive, Stopped, InstallFails, history, vars
<1> QED BY <1>1, LatestStays DEF CodesKept

LEMMA LaunchIsLatest == IInv /\ Latest /\ (Launch \/ StopReloader) => Latest'
<1> SUFFICES ASSUME IInv, Latest, Launch \/ StopReloader PROVE Latest'
  OBVIOUS
<1>1. UNCHANGED <<catalogue, changed, edits, swallowed, bundle>> /\ CodesKept
  BY DEF Launch, StopReloader, history, CodesKept
<1>2. CASE Launch
  <2>1. runner.at = "none" /\ (runner' = Resting("new") \/ runner' = runner)
    BY <1>2 DEF Launch, MainAt, IInv, Together
  <2> QED BY <1>1, <2>1, LatestRests, LatestStays
<1>3. CASE StopReloader
  <2>1. \/ runner.at = "none" /\ runner' = Resting("none")
        \/ runner' = Resting("ended")
    BY <1>3 DEF StopReloader
  <2> QED BY <1>1, <2>1, LatestRests
<1> QED BY <1>2, <1>3

\* What a new Bundle object has of the code is all that there is.
LEMMA NewIsFresh ==
  ASSUME IInv, NEW name, NEW m \in DOMAIN Code(name)
  PROVE  Code(name)[m] = edits[m]
BY DEF Code

\* install_bundle after the loader's await, in run_framework or the watcher.
LEMMA InstalledIsFresh ==
  ASSUME IInv, Latest, NEW name \in Names, Installed(name), UNCHANGED edits,
         \A i \in DOMAIN catalogue : bundle[catalogue[i]].name # name
  PROVE  LET new == Len(bundle) + 1
         IN  /\ Objects' = Objects \cup {new} /\ new \notin Objects
             /\ \A b \in Objects : bundle'[b] = bundle[b]
             /\ bundle'[new].name = name
             /\ ToSet(catalogue') = ToSet(catalogue) \cup {new}
             /\ \A m \in DOMAIN bundle'[new].code : bundle'[new].code[m] = edits[m]
             /\ CodesAreOfNames'
<1> DEFINE new == Len(bundle) + 1
<1>1. /\ Objects' = Objects \cup {new} /\ new \notin Objects
      /\ \A b \in Objects : bundle'[b] = bundle[b]
      /\ bundle'[new].name = name /\ bundle'[new].code = Code(name)
      /\ ToSet(catalogue') = ToSet(catalogue) \cup {new}
  BY InstalledAdds
<1> HIDE DEF new
<1>2. DOMAIN Code(name) = {m \in ToSet(Modules) : name \in Stems[m]}
  BY DEF Code
<1>3. CodesAreOfNames'
  BY <1>1, <1>2 DEF Latest, CodesAreOfNames
<1>4. \A m \in DOMAIN bundle'[new].code : bundle'[new].code[m] = edits[m]
  BY <1>1, NewIsFresh
<1> QED BY <1>1, <1>3, <1>4 DEF new

LEMMA InstallNextIsLatest == IInv /\ Latest /\ InstallNext => Latest'
<1> SUFFICES ASSUME IInv, Latest, InstallNext PROVE Latest'
  OBVIOUS
<1> DEFINE name == Location(Head(config))
<1>1. /\ UNCHANGED <<runner, changed, edits, swallowed>> /\ runner.at = "none" /\ config # <<>>
      /\ UNCHANGED <<bundle, catalogue>> \/ (Known(name) = {} /\ Installed(name))
  BY DEF InstallNext, MainAt, history, IInv, Together
<1>2. CASE UNCHANGED <<bundle, catalogue>>
  BY <1>1, <1>2, LatestStays DEF CodesKept
<1>3. CASE Known(name) = {} /\ Installed(name)
  <2>1. config \in Seq(ConfigEntries) /\ Head(config) \in ConfigEntries
    BY <1>1, HeadAndTail DEF IInv, Types
  <2>2. name \in Names /\ \A i \in DOMAIN catalogue : bundle[catalogue[i]].name # name
    BY <1>3, <2>1 DEF Names, Known
  <2> HIDE DEF name
  <2> DEFINE new == Len(bundle) + 1
  <2>3. /\ Objects' = Objects \cup {new}
        /\ \A b \in Objects : bundle'[b] = bundle[b]
        /\ ToSet(catalogue') = ToSet(catalogue) \cup {new}
        /\ \A m \in DOMAIN bundle'[new].code : bundle'[new].code[m] = edits[m]
        /\ CodesAreOfNames'
    BY <1>1, <1>3, <2>2, InstalledIsFresh
  <2> HIDE DEF new
  <2>4. changed = {} /\ \A b \in ToSet(catalogue) : Fresh(b, {})
    BY <1>1 DEF Latest
  <2>5. \A b \in ToSet(catalogue') : \A m \in DOMAIN bundle'[b].code :
           bundle'[b].code[m] = edits[m]
    BY <2>3, <2>4, PlacesAreObjects DEF Fresh
  <2>6. InHands'
    BY <1>1 DEF Latest, InHands, Holding
  <2> QED BY <1>1, <2>3, <2>4, <2>5, <2>6 DEF Latest, RunnerAt, Reloading, Fresh
<1> QED BY <1>1, <1>2, <1>3

\* A file that changes while the watcher reloads waits for the next tick.
LEMMA EditIsLatest ==
  ASSUME IInv, Latest, NEW f \in ToSet(Modules), Edit(f)
  PROVE  Latest'
<1>1. /\ UNCHANGED <<bundle, catalogue, runner, swallowed>> /\ changed' = changed \cup {f}
      /\ edits' = [edits EXCEPT ![f] = @ + 1] /\ edits \in [ToSet(Modules) -> Nat]
      /\ runner.at = "sleep" \/ Reloading
  BY DEF Edit, history, RunnerAt, IInv, Types
<1>2. \A m \in ToSet(Modules) : m # f => edits'[m] = edits[m]
  BY <1>1
<1>3. ASSUME NEW b \in Objects, NEW m \in DOMAIN bundle[b].code
      PROVE  m = f \/ edits'[m] = edits[m]
  BY <1>2 DEF Latest, CodesAreOfNames
<1>4. ASSUME NEW b \in Objects, Fresh(b, changed)
      PROVE  \A m \in DOMAIN bundle[b].code : bundle[b].code[m] # edits'[m] => m \in changed'
  BY <1>1, <1>3, <1>4 DEF Fresh
<1>5. ASSUME NEW b \in Objects, Fresh(b, changed \cup ToSet(runner.names))
      PROVE  \A m \in DOMAIN bundle[b].code :
               bundle[b].code[m] # edits'[m] => m \in changed' \cup ToSet(runner.names)
  BY <1>1, <1>3, <1>5 DEF Fresh
<1>6. CodesAreOfNames' /\ InHands' /\ (CopyCovers => CopyCovers')
  BY <1>1 DEF Latest, CodesAreOfNames, InHands, CopyCovers, Objects
<1>7. OwedReload => OwedReload'
  <2>1. ASSUME OwedReload, NEW b \in ToSet(catalogue')
        PROVE  /\ Fresh(b, changed \cup ToSet(runner.names))'
               /\ b \notin ToSet(runner'.bundles) => Fresh(b, changed)'
    BY <1>1, <1>4, <1>5, <2>1, PlacesAreObjects DEF OwedReload, Fresh
  <2>2. ASSUME OwedReload, runner'.at \in {"installed", "starting"}
        PROVE  Fresh(runner.current, changed)'
    BY <1>1, <1>4, <2>2, PlacesAreObjects DEF OwedReload, Fresh, Holding
  <2> QED BY <2>1, <2>2 DEF OwedReload
<1>8. ASSUME RunnerAt("sleep"), ~swallowed, NEW b \in ToSet(catalogue')
      PROVE  Fresh(b, changed)'
  BY <1>1, <1>4, <1>8, PlacesAreObjects DEF Latest, Fresh
<1> QED BY <1>1, <1>6, <1>7, <1>8 DEF Latest, RunnerAt, Reloading

LEMMA TickIsLatest == IInv /\ Latest /\ Tick => Latest'
<1> SUFFICES ASSUME IInv, Latest, Tick PROVE Latest'
  OBVIOUS
<1>1. /\ UNCHANGED <<bundle, catalogue, edits, swallowed>> /\ changed' = {}
      /\ runner.at = "new" \/ (runner.at = "sleep" /\ changed # {})
      /\ runner' = IF changed = {} THEN Resting("sleep")
                   ELSE [at |-> "next", names |-> Updated, bundles |-> catalogue, current |-> 0]
  BY DEF Tick, RunnerAt
<1>2. CodesAreOfNames'
  BY <1>1 DEF Latest, CodesAreOfNames, Objects
<1>3. CASE changed = {}
  <2>1. /\ runner'.at = "sleep" /\ runner'.names = <<>> /\ <<>> \in Seq(ToSet(Modules))
        /\ \A b \in ToSet(catalogue) : Fresh(b, {})
    BY <1>1, <1>3, EmptySeq DEF Resting, Latest
  <2>2. InHands'
    BY <2>1 DEF InHands, Holding
  <2> QED BY <1>1, <1>2, <2>1, <2>2 DEF Latest, RunnerAt, Reloading, Fresh
<1>4. CASE changed # {}
  <2>1. /\ runner'.at = "next" /\ runner'.names = Updated /\ runner'.bundles = catalogue
        /\ runner.at = "sleep"
    BY <1>1, <1>4 DEF Latest
  <2>2. Updated \in Seq(ToSet(Modules)) /\ ToSet(Updated) = {m \in ToSet(Modules) : m \in changed}
    BY UpdatedHolds
  <2>3. InHands'
    BY <2>1, <2>2 DEF InHands, Holding
  <2>4. CopyCovers'
    BY <1>1, <2>1 DEF IInv, NamesOnce, CopyCovers, ToSet
  <2>5. ASSUME ~swallowed, NEW b \in ToSet(catalogue)
        PROVE  \A m \in DOMAIN bundle[b].code : bundle[b].code[m] # edits[m] => m \in ToSet(Updated)
    <3>1. Fresh(b, changed) /\ DOMAIN bundle[b].code \subseteq ToSet(Modules)
      BY <2>1, <2>5, PlacesAreObjects DEF Latest, RunnerAt, CodesAreOfNames
    <3> QED BY <2>2, <3>1 DEF Fresh
  <2>6. ~swallowed => OwedReload'
    BY <1>1, <2>1, <2>5 DEF OwedReload, Fresh
  <2> QED BY <1>1, <1>2, <2>1, <2>3, <2>4, <2>6 DEF Latest, RunnerAt
<1> QED BY <1>3, <1>4

\* install_bundle of a bundle that was uninstalled: if the catalogue has the name again, this
\* reload made that bundle.
LEMMA InstallIsLatest ==
  ASSUME IInv, Latest, UNCHANGED <<bundle, catalogue, changed, edits, swallowed>>,
         runner.at \in {"next", "unloading"}, runner.names # <<>>,
         NEW b \in ToSet(runner.bundles), b \notin ToSet(catalogue),
         bundle[b].name \in Stems[Head(runner.names)], Install(b)
  PROVE  Latest'
<1> DEFINE known == Known(bundle[b].name)
           c == catalogue[CHOOSE i \in known : TRUE]
<1>1. /\ runner'.at = IF known = {} THEN "loading" ELSE "installed"
      /\ runner'.current = IF known = {} THEN b ELSE c
      /\ runner'.names = runner.names /\ runner'.bundles = runner.bundles
  <2>1. runner' = [runner EXCEPT !.at = IF known = {} THEN "loading" ELSE "installed",
                                 !.current = IF known = {} THEN b ELSE c]
    BY DEF Install
  <2> HIDE DEF known, c
  <2> QED BY <2>1, RunnerIs
<1>2. known # {} => c \in ToSet(catalogue) /\ bundle[c].name = bundle[b].name
  BY DEF Known, ToSet
<1> HIDE DEF known, c
<1>3. CodesAreOfNames' /\ CopyCovers /\ CopyCovers'
  BY <1>1 DEF Latest, CodesAreOfNames, CopyCovers, Objects, Reloading
<1>4. InHands'
  <2>1. known # {} => bundle[c].name \in Stems[Head(runner.names)]
    BY <1>2
  <2> QED BY <1>1, <2>1 DEF Latest, InHands
<1>5. ASSUME ~swallowed PROVE OwedReload'
  <2>1. OwedReload
    BY <1>5 DEF Latest, Reloading
  <2>2. known # {} => c \notin ToSet(runner.bundles)
    BY <1>2, <1>3, OneOfTheCopy
  <2>3. known # {} => Fresh(c, changed)
    BY <1>2, <2>1, <2>2 DEF OwedReload
  <2> QED BY <1>1, <2>1, <2>3 DEF OwedReload, Fresh
<1>6. runner'.at \in {"loading", "installed"}
  BY <1>1
<1> QED BY <1>3, <1>4, <1>5, <1>6 DEF Latest, RunnerAt

\* uninstall_bundle of the bundle that the first of the names belongs to.
LEMMA UninstallIsLatest ==
  ASSUME IInv, Latest, UNCHANGED <<changed, edits, swallowed>>,
         runner.at \in {"next", "stopping"}, runner.names # <<>>,
         NEW b \in ToSet(runner.bundles), b \in ToSet(catalogue),
         bundle[b].name \in Stems[Head(runner.names)], Uninstall(b)
  PROVE  Latest'
<1>1. /\ runner'.at = "unloading" /\ runner'.current = b
      /\ runner'.names = runner.names /\ runner'.bundles = runner.bundles
  BY RunnerIs DEF Uninstall
<1>2. CodesKept /\ b \in Objects
  <2>1. b \in Objects
    BY PlacesAreObjects
  <2> QED BY <2>1, StateKeepsCodes DEF Uninstall, States
<1>3. ToSet(catalogue') \subseteq ToSet(catalogue) /\ b \notin ToSet(catalogue')
  <2>1. \A k, l \in DOMAIN catalogue : catalogue[k] = catalogue[l] => k = l
    BY DEF IInv, NamesOnce
  <2>2. catalogue' = RemoveFirst(catalogue, b) /\ catalogue \in Seq(Objects)
    BY PlacesAreObjects DEF Uninstall
  <2>3. LET r == RemoveFirst(catalogue, b)
        IN  ToSet(r) \subseteq ToSet(catalogue) /\ b \notin ToSet(r)
    BY <2>1, <2>2, RemoveFirstHolds
  <2> QED BY <2>2, <2>3
<1>4. /\ Objects' = Objects
      /\ \A o \in Objects : /\ bundle'[o].name = bundle[o].name
                            /\ bundle'[o].code = bundle[o].code
  BY <1>2 DEF CodesKept, Objects
<1>5. CodesAreOfNames'
  BY <1>4 DEF Latest, CodesAreOfNames
<1>6. InHands'
  BY <1>1, <1>2, <1>3, <1>4 DEF Latest, InHands
<1>7. CopyCovers'
  <2>1. CopyCovers
    BY DEF Latest, Reloading
  <2>2. ASSUME NEW o \in ToSet(catalogue')
        PROVE  \E i \in DOMAIN runner.bundles : bundle'[runner.bundles[i]].name = bundle'[o].name
    BY <1>3, <1>4, <2>1, PlacesAreObjects DEF CopyCovers
  <2> QED BY <1>1, <1>4, <2>1, <2>2, PlacesAreObjects DEF CopyCovers
<1>8. ASSUME ~swallowed PROVE OwedReload'
  <2>1. OwedReload
    BY <1>8 DEF Latest, Reloading
  <2> QED BY <1>1, <1>3, <1>4, <2>1, PlacesAreObjects DEF OwedReload, Fresh
<1> QED BY <1>1, <1>5, <1>6, <1>7, <1>8 DEF Latest, RunnerAt

\* The bundle in the watcher's hands is stopped or started; it keeps it in its hands.
LEMMA HoldingIsLatest ==
  ASSUME IInv, Latest, CodesKept, UNCHANGED <<catalogue, changed, edits, swallowed>>,
         runner'.names = runner.names, runner'.bundles = runner.bundles,
         \/ /\ runner.at = "next" /\ runner'.at = "stopping" /\ runner.names # <<>>
            /\ runner'.current \in Objects /\ runner'.current \in ToSet(runner.bundles)
            /\ bundle[runner'.current].name \in Stems[Head(runner.names)]
         \/ runner.at = "installed" /\ runner'.at = "starting" /\ runner'.current = runner.current
  PROVE  Latest'
<1>1. /\ Objects' = Objects
      /\ \A o \in Objects : /\ bundle'[o].name = bundle[o].name
                            /\ bundle'[o].code = bundle[o].code
  BY DEF CodesKept, Objects
<1>2. CodesAreOfNames'
  BY <1>1 DEF Latest, CodesAreOfNames
<1>3. InHands'
  BY <1>1, PlacesAreObjects DEF Latest, InHands, Holding
<1>4. CopyCovers'
  <2>1. CopyCovers
    BY DEF Latest, Reloading
  <2>2. ASSUME NEW o \in ToSet(catalogue)
        PROVE  \E i \in DOMAIN runner.bundles : bundle'[runner.bundles[i]].name = bundle'[o].name
    BY <1>1, <2>1, PlacesAreObjects DEF CopyCovers
  <2> QED BY <1>1, <2>1, <2>2, PlacesAreObjects DEF CopyCovers
<1>5. ASSUME ~swallowed PROVE OwedReload'
  <2>1. OwedReload
    BY <1>5 DEF Latest, Reloading
  <2> QED BY <1>1, <2>1, PlacesAreObjects DEF OwedReload, Fresh, Holding
<1> QED BY <1>2, <1>3, <1>4, <1>5 DEF Latest, RunnerAt

LEMMA BeginReloadIsLatest == IInv /\ Latest /\ BeginReload => Latest'
<1> SUFFICES ASSUME IInv, Latest, BeginReload PROVE Latest'
  OBVIOUS
<1> DEFINE b == runner.bundles[Min(Owners(Head(runner.names)))]
<1>1. /\ runner.at = "next" /\ runner.names # <<>> /\ Owners(Head(runner.names)) # {}
      /\ UNCHANGED <<changed, edits, swallowed>>
      /\ \/ b \notin ToSet(catalogue) /\ Install(b) /\ UNCHANGED <<bundle, catalogue>>
         \/ /\ b \in ToSet(catalogue) /\ SetState(b, "STOPPING") /\ UNCHANGED catalogue
            /\ runner' = [runner EXCEPT !.at = "stopping", !.current = b]
         \/ b \in ToSet(catalogue) /\ Uninstall(b)
  BY DEF BeginReload, RunnerAt, history
<1>2. b \in Objects /\ b \in ToSet(runner.bundles) /\ bundle[b].name \in Stems[Head(runner.names)]
  BY <1>1, OwnerIsBundle
<1> HIDE DEF b
<1>3. CASE b \notin ToSet(catalogue) /\ Install(b) /\ UNCHANGED <<bundle, catalogue>>
  BY <1>1, <1>2, <1>3, InstallIsLatest
<1>4. CASE /\ b \in ToSet(catalogue) /\ SetState(b, "STOPPING") /\ UNCHANGED catalogue
           /\ runner' = [runner EXCEPT !.at = "stopping", !.current = b]
  <2>1. /\ runner'.at = "stopping" /\ runner'.current = b
        /\ runner'.names = runner.names /\ runner'.bundles = runner.bundles
    BY <1>4, RunnerIs
  <2>2. CodesKept
    BY <1>2, <1>4, StateKeepsCodes DEF States
  <2> QED BY <1>1, <1>2, <1>4, <2>1, <2>2, HoldingIsLatest
<1>5. CASE b \in ToSet(catalogue) /\ Uninstall(b)
  BY <1>1, <1>2, <1>5, UninstallIsLatest
<1> QED BY <1>1, <1>3, <1>4, <1>5

LEMMA ReloadStoppedIsLatest == IInv /\ Latest /\ (ReloadStopped \/ Unloaded) => Latest'
<1> SUFFICES ASSUME IInv, Latest, ReloadStopped \/ Unloaded PROVE Latest'
  OBVIOUS
<1>1. UNCHANGED <<changed, edits, swallowed>>
  BY DEF ReloadStopped, Unloaded, history
<1>2. runner.at \in {"stopping", "unloading"} =>
        /\ runner.names # <<>> /\ bundle[runner.current].name \in Stems[Head(runner.names)]
        /\ runner.current \in ToSet(runner.bundles)
  BY DEF Latest, InHands, Holding
<1>3. CASE ReloadStopped
  <2>1. runner.at = "stopping" /\ Uninstall(runner.current) /\ runner.current \in ToSet(catalogue)
    BY <1>3 DEF ReloadStopped, RunnerAt, IInv, NamesOnce
  <2> QED BY <1>1, <1>2, <2>1, UninstallIsLatest
<1>4. CASE Unloaded
  <2>1. /\ runner.at = "unloading" /\ Install(runner.current) /\ UNCHANGED <<bundle, catalogue>>
        /\ runner.current \notin ToSet(catalogue)
    BY <1>4 DEF Unloaded, RunnerAt, Latest, InHands
  <2> QED BY <1>1, <1>2, <2>1, InstallIsLatest
<1> QED BY <1>3, <1>4

LEMMA FailsIsLatest ==
  IInv /\ Latest /\ (ReloadStopFails \/ LoadFails \/ ReloadStartFails) => Latest'
<1> SUFFICES ASSUME IInv, Latest, ReloadStopFails \/ LoadFails \/ ReloadStartFails PROVE Latest'
  OBVIOUS
<1>1. /\ UNCHANGED <<catalogue, changed, edits>>
      /\ \/ runner' = Resting("sleep") /\ swallowed'
         \/ runner' = Resting("failed")
      /\ \/ UNCHANGED bundle
         \/ runner.at \in Holding /\ \E state \in States : SetState(runner.current, state)
  BY DEF ReloadStopFails, LoadFails, ReloadStartFails, RunnerRaises, RunnerAt, Holding, States
<1>2. CodesKept
  BY <1>1, StateKeepsCodes, PlacesAreObjects DEF CodesKept
<1> QED BY <1>1, <1>2, LatestRests

\* The watcher goes on to the next name, when every bundle that is behind in this one has a
\* change of it that waits for the next tick.
LEMMA PassingIsLatest ==
  ASSUME IInv, Latest, CodesKept, UNCHANGED <<catalogue, changed, edits, swallowed>>,
         runner.at \in {"next", "installed", "starting"}, runner.names # <<>>,
         runner'.at = "next", runner'.names = Tail(runner.names),
         runner'.bundles = runner.bundles,
         ~swallowed => \A b \in ToSet(catalogue) :
           LET m == Head(runner.names)
           IN  m \in DOMAIN bundle[b].code /\ bundle[b].code[m] # edits[m] => m \in changed
  PROVE  Latest'
<1>1. /\ Objects' = Objects
      /\ \A o \in Objects : /\ bundle'[o].name = bundle[o].name
                            /\ bundle'[o].code = bundle[o].code
  BY DEF CodesKept, Objects
<1>2. /\ Tail(runner.names) \in Seq(ToSet(Modules))
      /\ ToSet(runner.names) = {Head(runner.names)} \cup ToSet(Tail(runner.names))
  <2>1. runner.names \in Seq(ToSet(Modules))
    BY DEF Latest, InHands
  <2> QED BY <2>1, HeadAndTail
<1>3. CodesAreOfNames'
  BY <1>1 DEF Latest, CodesAreOfNames
<1>4. InHands'
  BY <1>2 DEF InHands, Holding
<1>5. CopyCovers'
  <2>1. CopyCovers
    BY DEF Latest, Reloading
  <2>2. ASSUME NEW o \in ToSet(catalogue)
        PROVE  \E i \in DOMAIN runner.bundles : bundle'[runner.bundles[i]].name = bundle'[o].name
    BY <1>1, <2>1, PlacesAreObjects DEF CopyCovers
  <2> QED BY <1>1, <2>1, <2>2, PlacesAreObjects DEF CopyCovers
<1>6. ASSUME ~swallowed PROVE OwedReload'
  <2>1. OwedReload
    BY <1>6 DEF Latest, Reloading
  <2>2. ASSUME NEW b \in ToSet(catalogue)
        PROVE  /\ \A m \in DOMAIN bundle[b].code :
                    bundle[b].code[m] # edits[m] => m \in changed \cup ToSet(Tail(runner.names))
               /\ b \notin ToSet(runner.bundles) => Fresh(b, changed)
    BY <1>2, <1>6, <2>1 DEF OwedReload, Fresh
  <2> QED BY <1>1, <2>2, PlacesAreObjects DEF OwedReload, Fresh
<1> QED BY <1>3, <1>4, <1>5, <1>6 DEF Latest, RunnerAt

LEMMA NoOwnerIsLatest == IInv /\ Latest /\ NoOwner => Latest'
<1> SUFFICES ASSUME IInv, Latest, NoOwner PROVE Latest'
  OBVIOUS
<1> DEFINE m == Head(runner.names)
<1>1. /\ UNCHANGED <<bundle, catalogue, changed, edits, swallowed>>
      /\ runner.at = "next" /\ runner.names # <<>> /\ Owners(m) = {}
      /\ runner'.at = "next" /\ runner'.names = Tail(runner.names)
      /\ runner'.bundles = runner.bundles
  BY RunnerIs DEF NoOwner, RunnerAt, history
<1>2. ASSUME NEW b \in ToSet(catalogue) PROVE m \notin DOMAIN bundle[b].code
  <2>1. CopyCovers
    BY <1>1 DEF Latest, Reloading
  <2>2. PICK i \in DOMAIN runner.bundles : bundle[runner.bundles[i]].name = bundle[b].name
    BY <2>1 DEF CopyCovers
  <2>3. bundle[b].name \notin Stems[m]
    BY <1>1, <2>2 DEF Owners
  <2> QED BY <2>3, PlacesAreObjects DEF Latest, CodesAreOfNames
<1>3. CodesKept
  BY <1>1 DEF CodesKept
<1> QED BY <1>1, <1>2, <1>3, PassingIsLatest

LEMMA ReloadEndsIsLatest == IInv /\ Latest /\ ReloadEnds => Latest'
<1> SUFFICES ASSUME IInv, Latest, ReloadEnds PROVE Latest'
  OBVIOUS
<1>1. /\ UNCHANGED <<bundle, catalogue, changed, edits, swallowed>>
      /\ runner.at = "next" /\ runner.names = <<>>
      /\ runner'.at = "sleep" /\ runner'.names = <<>>
  BY DEF ReloadEnds, RunnerAt, history, Resting
<1>2. ASSUME ~swallowed, NEW b \in ToSet(catalogue) PROVE Fresh(b, changed)
  <2>1. Fresh(b, changed \cup ToSet(runner.names))
    BY <1>1, <1>2 DEF Latest, Reloading, OwedReload
  <2> QED BY <1>1, <2>1, EmptyHoldsNothing DEF Fresh
<1>3. CodesAreOfNames' /\ InHands'
  BY <1>1 DEF Latest, CodesAreOfNames, InHands, Objects, Holding
<1> QED BY <1>1, <1>2, <1>3 DEF Latest, RunnerAt, Reloading, Fresh

\* The reload of a name ends, its bundle started or not: it is the only one with that module,
\* and was installed after the tick.
LEMMA NameDoneIsLatest ==
  OneBundlePerModule /\ IInv /\ Latest /\ (ReloadStarts \/ ReloadStarted) => Latest'
<1> SUFFICES ASSUME OneBundlePerModule, IInv, Latest, ReloadStarts \/ ReloadStarted PROVE Latest'
  OBVIOUS
<1> DEFINE c == runner.current
           m == Head(runner.names)
<1>1. /\ UNCHANGED <<catalogue, changed, edits, swallowed>>
      /\ runner.at \in {"installed", "starting"}
      /\ UNCHANGED bundle \/ \E state \in States : SetState(c, state)
      /\ \/ runner.at = "installed" /\ runner' = [runner EXCEPT !.at = "starting"]
         \/ runner' = [runner EXCEPT !.at = "next", !.names = Tail(@)]
  BY DEF ReloadStarts, ReloadStarted, NameDone, RunnerGoesTo, RunnerAt, history, States
<1>2. /\ c \in Objects /\ c \in ToSet(catalogue) /\ runner.names # <<>>
      /\ runner.names \in Seq(ToSet(Modules)) /\ bundle[c].name \in Stems[m]
  BY <1>1, PlacesAreObjects DEF IInv, NamesOnce, Latest, InHands, Holding
<1>3. CodesKept
  BY <1>1, <1>2, StateKeepsCodes DEF CodesKept
<1>4. CASE runner.at = "installed" /\ runner' = [runner EXCEPT !.at = "starting"]
  <2>1. /\ runner'.at = "starting" /\ runner'.current = runner.current
        /\ runner'.names = runner.names /\ runner'.bundles = runner.bundles
    BY <1>4, RunnerIs
  <2> QED BY <1>1, <1>3, <1>4, <2>1, HoldingIsLatest
<1>5. CASE runner' = [runner EXCEPT !.at = "next", !.names = Tail(@)]
  <2>1. /\ runner'.at = "next" /\ runner'.names = Tail(runner.names)
        /\ runner'.bundles = runner.bundles
    BY <1>5, RunnerIs
  <2>2. ASSUME ~swallowed, NEW b \in ToSet(catalogue), m \in DOMAIN bundle[b].code,
               bundle[b].code[m] # edits[m]
        PROVE  m \in changed
    <3>1. b \in Objects /\ m \in ToSet(Modules) /\ bundle[b].name \in Stems[m]
      BY <2>2, PlacesAreObjects DEF Latest, CodesAreOfNames
    <3>2. bundle[b].name \in Names /\ bundle[c].name \in Names
      BY <1>2, <3>1, PlacesAreObjects
    <3>3. bundle[b].name = bundle[c].name
      BY <1>2, <3>1, <3>2 DEF OneBundlePerModule
    <3>4. b = c
      BY <1>2, <3>3, OneOfAName
    <3>5. Fresh(c, changed)
      BY <1>1, <2>2 DEF Latest, Reloading, OwedReload
    <3> QED BY <2>2, <3>4, <3>5 DEF Fresh
  <2> QED BY <1>1, <1>2, <1>3, <2>1, <2>2, PassingIsLatest
<1> QED BY <1>1, <1>4, <1>5

LEMMA LoadedIsLatest == IInv /\ Latest /\ Loaded => Latest'
<1> SUFFICES ASSUME IInv, Latest, Loaded PROVE Latest'
  OBVIOUS
<1> DEFINE name == bundle[runner.current].name
           new == Len(bundle) + 1
<1>1. /\ UNCHANGED <<changed, edits, swallowed>> /\ runner.at = "loading" /\ Installed(name)
      /\ runner'.at = "installed" /\ runner'.current = new
      /\ runner'.names = runner.names /\ runner'.bundles = runner.bundles
  BY RunnerIs DEF Loaded, RunnerAt, history
<1>2. /\ runner.current \in Objects /\ name \in Names
      /\ \A i \in DOMAIN catalogue : bundle[catalogue[i]].name # name
      /\ runner.current \in ToSet(runner.bundles)
      /\ runner.names # <<>> /\ name \in Stems[Head(runner.names)]
  BY <1>1, PlacesAreObjects DEF IInv, NamesOnce, Latest, InHands, Holding
<1> HIDE DEF name
<1>3. /\ Objects' = Objects \cup {new} /\ new \notin Objects
      /\ \A b \in Objects : bundle'[b] = bundle[b]
      /\ bundle'[new].name = name
      /\ ToSet(catalogue') = ToSet(catalogue) \cup {new}
      /\ \A m \in DOMAIN bundle'[new].code : bundle'[new].code[m] = edits[m]
      /\ CodesAreOfNames'
  BY <1>1, <1>2, InstalledIsFresh
<1> HIDE DEF new
<1>4. InHands'
  BY <1>1, <1>2, <1>3 DEF Latest, InHands
<1>5. CopyCovers'
  <2>1. CopyCovers
    BY <1>1 DEF Latest, Reloading
  <2>2. PICK j \in DOMAIN runner.bundles : runner.bundles[j] = runner.current
    BY <1>2 DEF ToSet
  <2>3. bundle'[runner.bundles[j]].name = bundle'[new].name
    BY <1>2, <1>3, <2>2 DEF name
  <2>4. ASSUME NEW o \in ToSet(catalogue')
        PROVE  \E i \in DOMAIN runner.bundles : bundle'[runner.bundles[i]].name = bundle'[o].name
    <3>1. CASE o = new
      BY <2>3, <3>1
    <3>2. CASE o \in ToSet(catalogue)
      BY <1>3, <2>1, <3>2, PlacesAreObjects DEF CopyCovers
    <3> QED BY <1>3, <3>1, <3>2
  <2> QED BY <1>1, <1>3, <2>1, <2>4, PlacesAreObjects DEF CopyCovers
<1>6. ASSUME ~swallowed PROVE OwedReload'
  <2>1. OwedReload
    BY <1>1, <1>6 DEF Latest, Reloading
  <2> QED BY <1>1, <1>3, <2>1, PlacesAreObjects DEF OwedReload, Fresh
<1> QED BY <1>1, <1>3, <1>4, <1>5, <1>6 DEF Latest, RunnerAt


-----------------------------------------------------------------------------
(***************************************************************************)
(* The theorems.                                                           *)
(***************************************************************************)
\* The invariant holds: run_framework and the watcher are together only where they may be,
\* the catalogue has a name once, and what runs is in it and in the reach of the stop.
THEOREM Invariance == Spec => []IInv
<1>1. Init => IInv
  BY InitHolds
<1>2. IInv /\ [Next]_vars => IInv'
  <2> SUFFICES ASSUME IInv, [Next]_vars PROVE IInv'
    OBVIOUS
  <2>1. CASE Main
    BY <2>1, InstallNextKeeps, LaunchKeeps, LevelStartsKeeps, LevelStartEndsKeeps, StartedKeeps,
       StopReloaderKeeps, FrameworkStopKeeps, FrameworkIsNotActiveKeeps, LevelStopsKeeps,
       LevelStopEndsKeeps, StoppedKeeps DEF Main
  <2>2. CASE Watcher
    BY <2>2, TickKeeps, BeginReloadKeeps, NoOwnerKeeps, ReloadStoppedKeeps, ReloadStopFailsKeeps,
       LoadedKeeps, ReloadStartsKeeps, ReloadStartEndsKeeps DEF Watcher
  <2>3. CASE Signal
    BY <2>3, SignalKeeps
  <2>4. ASSUME NEW m \in ToSet(Modules), Edit(m) PROVE IInv'
    BY <2>4, EditKeeps
  <2>5. CASE UNCHANGED vars
    BY <2>5 DEF vars, IInv, Types, Objects, Together, NamesOnce, UpListed, StartsKnown, StartingBy,
                StopReaches
  <2> QED BY <2>1, <2>2, <2>3, <2>4, <2>5 DEF Next
<1> QED BY <1>1, <1>2, PTL DEF Spec

\* A reload never has two bundles of one name started, whatever fails on its way.
THEOREM OneBundlePerName == Spec => []OneRunsPerName
<1>1. IInv => OneRunsPerName
  <2> SUFFICES ASSUME IInv, ~raced, NEW a \in DOMAIN bundle, NEW b \in DOMAIN bundle,
                      bundle[a].name = bundle[b].name,
                      bundle[a].state \in Up, bundle[b].state \in Up
               PROVE  a = b
    BY DEF OneRunsPerName
  <2>1. a \in ToSet(catalogue) /\ b \in ToSet(catalogue)
    BY DEF IInv, UpListed
  <2>2. PICK i \in DOMAIN catalogue, j \in DOMAIN catalogue : a = catalogue[i] /\ b = catalogue[j]
    BY <2>1 DEF ToSet
  <2> QED BY <2>2 DEF IInv, NamesOnce
<1> QED BY <1>1, Invariance, PTL

\* When run_framework has stopped the framework, no bundle is started or being started.
THEOREM CleanExitLeavesNone == Spec => []CleanExitStopsAll
<1>1. IInv => CleanExitStopsAll
  BY DEF IInv, StopReaches, CleanExitStopsAll
<1> QED BY <1>1, Invariance, PTL

\* What the watcher owes, where a module belongs to one bundle: a bundle whose files changed
\* is one of those that the reload under way, or the next one, comes to.
THEOREM LatestInvariance == ASSUME OneBundlePerModule PROVE Spec => [](IInv /\ Latest)
<1>1. Init => Latest
  <2> SUFFICES ASSUME Init PROVE Latest
    OBVIOUS
  <2>1. /\ bundle = <<>> /\ catalogue = <<>> /\ changed = {}
        /\ runner.at = "none" /\ runner.names = <<>>
    BY DEF Init, Resting
  <2>2. /\ Objects = {} /\ ToSet(catalogue) = {} /\ <<>> \in Seq(ToSet(Modules))
    BY <2>1, EmptyHoldsNothing, EmptySeq DEF Objects
  <2> QED BY <2>1, <2>2 DEF Latest, CodesAreOfNames, InHands, Holding, RunnerAt, Reloading
<1>2. IInv /\ Latest /\ [Next]_vars => Latest'
  <2> SUFFICES ASSUME IInv, Latest, [Next]_vars PROVE Latest'
    OBVIOUS
  <2>1. CASE Main
    BY <2>1, InstallNextIsLatest, MainIsLatest, LaunchIsLatest, LevelsAreLatest DEF Main
  <2>2. CASE Watcher
    BY <2>2, TickIsLatest, BeginReloadIsLatest, NoOwnerIsLatest, ReloadEndsIsLatest,
       ReloadStoppedIsLatest, FailsIsLatest, LoadedIsLatest, NameDoneIsLatest DEF Watcher
  <2>3. CASE Signal
    BY <2>3, MainIsLatest
  <2>4. ASSUME NEW m \in ToSet(Modules), Edit(m) PROVE Latest'
    BY <2>4, EditIsLatest
  <2>5. CASE UNCHANGED vars
    BY <2>5, MainIsLatest
  <2> QED BY <2>1, <2>2, <2>3, <2>4, <2>5 DEF Next
<1> QED BY <1>1, <1>2, Invariance, PTL DEF Spec

\* When the watcher sleeps and no file waits for its tick, every bundle has the code of its
\* files, if a module belongs to one bundle and no AttributeError ended a reload.
THEOREM ReloadsAreLatest == ASSUME OneBundlePerModule PROVE Spec => []ReloadedLatest
<1>1. IInv /\ Latest => ReloadedLatest
  <2> SUFFICES ASSUME IInv, Latest, RunnerAt("sleep"), changed = {}, ~swallowed,
                      NEW i \in DOMAIN catalogue
               PROVE  bundle[catalogue[i]].code = Code(bundle[catalogue[i]].name)
    BY DEF ReloadedLatest
  <2> DEFINE b == catalogue[i]
             D == {m \in ToSet(Modules) : bundle[b].name \in Stems[m]}
  <2>1. b \in ToSet(catalogue) /\ b \in Objects
    BY PlacesAreObjects DEF ToSet
  <2> HIDE DEF b
  <2>2. /\ DOMAIN bundle[b].code = D /\ bundle[b].code \in Codes
        /\ \A m \in D : bundle[b].code[m] = edits[m]
    BY <2>1, PlacesAreObjects DEF Latest, CodesAreOfNames, Fresh
  <2> HIDE DEF D
  <2>3. bundle[b].code = [m \in D |-> edits[m]]
    <3>1. PICK S \in SUBSET ToSet(Modules) : bundle[b].code \in [S -> Nat]
      BY <2>2 DEF Codes
    <3> QED BY <2>2, <3>1
  <2> QED BY <2>3 DEF Code, D, b
<1> QED BY <1>1, LatestInvariance, PTL
=============================================================================
