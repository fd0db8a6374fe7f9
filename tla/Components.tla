----------------------------- MODULE Components -----------------------------
(***************************************************************************)
(* Component declarations (odss.cdi): decorators of classes and methods    *)
(* that fill the FactoryContext of a class.                                *)
(*                                                                         *)
(* The context is an attribute of the class and is looked up with getattr, *)
(* so a class without one of its own shares that of the nearest base.       *)
(* Decorators are plain calls, in any order and on any class; one that     *)
(* raises leaves what it had done so far.                                  *)
(***************************************************************************)
EXTENDS Naturals, Sequences, SequencesExt, FiniteSets

CONSTANTS
    Classes,
    Mro,        \* where an attribute of a class is looked up: in itself, then in its bases
    Bases,      \* the names of __bases__, a sequence
    InitSpecs,  \* the annotations of __init__ (_get_init_spec), a sequence
    Methods,    \* the methods of a class, inherited ones too, in the order of names
    Annotated,  \* the annotation of a method's first argument, None if it has none
    MarkArgs,   \* arguments of bind and unbind: None if used bare, or a requirement
    Names,      \* names of components and instances
    Fields,     \* fields of requires
    Specs,      \* arguments of provides and requires: sequences of names, <<>> if empty
    None,
    MaxDecorators \* bound: provides decorators

VARIABLES
    defined,    \* the classes whose body has been executed
    own,        \* a class's own attribute ODSS_FACTORY_CONTEXT: a place in contexts, or 0
    contexts,   \* the FactoryContexts
    decorators, \* the specifications of the decorators that provides made
    mark        \* a method's attribute METHOD_CALLBACK: [kind, args], or None

cdiVars == <<defined, own, contexts, decorators, mark>>

Binding == {"bind", "unbind"}
Kinds == Binding \cup {"validate", "invalidate"}

AllMethods == UNION {ToSet(Methods[c]) : c \in Classes}

ASSUME ClassesAssumption ==
    /\ Mro \in [Classes -> Seq(Classes)] /\ Methods \in [Classes -> Seq(AllMethods)]
    /\ \A c \in Classes : Mro[c] # <<>> /\ Head(Mro[c]) = c
    /\ None \notin AllMethods /\ MaxDecorators \in Nat

\* clazz is history: the class that was prepared.  A handler that is not set is None.
NewContext == [name |-> "", completed |-> FALSE, instances |-> {}, provides |-> None,
               requires |-> [f \in Fields |-> None], init |-> None, binds |-> {},
               callbacks |-> [k \in Kinds \ Binding |-> None], clazz |-> None]

CdiInit ==
    /\ defined = {} /\ own = [c \in Classes |-> 0] /\ contexts = <<>>
    /\ decorators = <<>> /\ mark = [m \in AllMethods |-> None]

\* getattr(target, ODSS_FACTORY_CONTEXT).
Found(c) ==
    LET at == {i \in DOMAIN Mro[c] : own[Mro[c][i]] # 0}
    IN  IF at = {} THEN 0 ELSE own[Mro[c][Min(at)]]

\* get_factory_context: makes a context if there is none.
Context(c) == IF Found(c) = 0 THEN NewContext ELSE contexts[Found(c)]

\* The context of c, which may be new, becomes ctx.
SetContext(c, ctx) ==
    IF Found(c) = 0
    THEN contexts' = Append(contexts, ctx) /\ own' = [own EXCEPT ![c] = Len(contexts) + 1]
    ELSE contexts' = [contexts EXCEPT ![Found(c)] = ctx] /\ UNCHANGED own

(***************************************************************************)
(* bind, unbind, validate and invalidate: the last one on a method counts. *)
(* A method is decorated in the body of its class, before the class is.    *)
(***************************************************************************)
Mark(m, kind, args) ==
    /\ \A c \in defined : m \notin ToSet(Methods[c])
    /\ mark' = [mark EXCEPT ![m] = [kind |-> kind, args |-> args]]
    /\ UNCHANGED <<defined, own, contexts, decorators>>

Define(c) ==
    /\ c \notin defined /\ ToSet(Mro[c]) \subseteq defined \cup {c}
    /\ defined' = defined \cup {c}
    /\ UNCHANGED <<own, contexts, decorators, mark>>

(***************************************************************************)
(* provides: the decorator keeps the bases of the first class it meets.    *)
(***************************************************************************)
MakeProvides(specs) ==
    /\ Len(decorators) < MaxDecorators
    /\ decorators' = Append(decorators, specs)
    /\ UNCHANGED <<defined, own, contexts, mark>>

Specifications(d, c) ==
    IF decorators[d] = <<>> THEN Bases[c] ELSE decorators[d]

\* filtered_specs: the first of equal names.
Deduplicated(specs) ==
    LET Add(acc, s) == IF s \in ToSet(acc) THEN acc ELSE Append(acc, s)
    IN  FoldLeft(Add, <<>>, specs)

\* set_handler raises if the context has one.
Provides(d, c) ==
    LET specs == Specifications(d, c)
        ctx == Context(c)
    IN  /\ decorators' = [decorators EXCEPT ![d] = specs]
        /\ SetContext(c, IF ctx.provides # None THEN ctx
                         ELSE [ctx EXCEPT !.provides = Deduplicated(specs)])
        /\ UNCHANGED <<defined, mark>>

Requires(f, specs, c) ==
    /\ specs # <<>>
    /\ SetContext(c, [Context(c) EXCEPT !.requires[f] = specs])
    /\ UNCHANGED <<defined, decorators, mark>>

\* add_instance raises if the context has the name.
Instantiate(name, c) ==
    /\ SetContext(c, [Context(c) EXCEPT !.instances = @ \cup {name}])
    /\ UNCHANGED <<defined, decorators, mark>>

(***************************************************************************)
(* component: prepare_factory_context.                                     *)
(***************************************************************************)
\* The places of the marked methods, in the order of names.
Marked(c) == {i \in DOMAIN Methods[c] : mark[Methods[c][i]] # None}

\* prepare_requirement.
Requirement(m) ==
    IF mark[m].args = None
    THEN [specification |-> Annotated[m], spec_filter |-> "", reference |-> FALSE]
    ELSE mark[m].args

\* No annotation is an IndexError; to hash a requirement whose filter is None, a TypeError.
Raises(m) ==
    /\ mark[m].kind \in Binding
    /\ Requirement(m).specification = None \/ Requirement(m).spec_filter = None

\* The places _setup_callbacks comes to before a method raises.
Reached(c) == {i \in Marked(c) : \A j \in Marked(c) : j <= i => ~Raises(Methods[c][j])}

\* The places of a kind, of those reached, and the method at the last of some places.
OfKind(c, kind) == {i \in Reached(c) : mark[Methods[c][i]].kind = kind}

LastOf(c, places, default) == IF places = {} THEN default ELSE Methods[c][Max(places)]

BindPlaces(c) == UNION {OfKind(c, k) : k \in Binding}

\* A mutant of Binds: every method is a handler of its own.
BindsApart(c) ==
    {[requirement |-> Requirement(Methods[c][i]),
      methods |-> [k \in Binding |-> IF i \in OfKind(c, k) THEN Methods[c][i] ELSE None]] :
        i \in BindPlaces(c)}

\* binds: one handler for a requirement, with the last method of each kind.
Binds(c) ==
    {[requirement |-> r,
      methods |-> [k \in Binding |->
          LastOf(c, {i \in OfKind(c, k) : Requirement(Methods[c][i]) = r}, None)]] :
        r \in {Requirement(Methods[c][i]) : i \in BindPlaces(c)}}

\* What is left of a context when _setup_callbacks has run, or raised on the way.
Prepared(ctx, c) ==
    LET callbacks == [k \in Kinds \ Binding |-> LastOf(c, OfKind(c, k), ctx.callbacks[k])]
        raised == Reached(c) # Marked(c)
    IN  [ctx EXCEPT !.callbacks = callbacks, !.completed = ~raised,
                    !.binds = IF raised THEN @ ELSE Binds(c),
                    !.clazz = IF raised THEN @ ELSE c]

\* A mutant of MayPrepare: a class is prepared again.
MayPrepareAgain(ctx) == TRUE

MayPrepare(ctx) == ~ctx.completed

\* The constructor's requirements are set once, by set_handler, which raises the second time.
Component(name, c) ==
    LET ctx == [Context(c) EXCEPT !.name = name]
        required == InitSpecs[c] # <<>>
        init == [ctx EXCEPT !.init = IF required THEN InitSpecs[c] ELSE @]
    IN  /\ SetContext(c, IF ~MayPrepare(Context(c)) THEN Context(c)
                         ELSE IF required /\ ctx.init # None THEN ctx
                         ELSE Prepared(init, c))
        /\ UNCHANGED <<defined, decorators, mark>>

CdiNext ==
    \/ \E m \in AllMethods, args \in MarkArgs :
           \/ \E kind \in Binding : Mark(m, kind, args)
           \/ \E kind \in Kinds \ Binding : args = None /\ Mark(m, kind, args)
    \/ \E specs \in Specs : MakeProvides(specs)
    \/ \E c \in Classes : Define(c)
    \/ \E c \in defined :
           \/ \E d \in DOMAIN decorators : Provides(d, c)
           \/ \E f \in Fields, specs \in Specs : Requires(f, specs, c)
           \/ \E name \in Names : Instantiate(name, c) \/ Component(name, c)

CdiSpec == CdiInit /\ [][CdiNext]_cdiVars
-----------------------------------------------------------------------------
(***************************************************************************)
(* Properties.                                                             *)
(***************************************************************************)
\* Preparation is for good: no decorator of the class or of one derived from it, however often
\* applied, changes the name, the constructor's requirements, the binds or the callbacks of a
\* component that is complete.
PreparedForGood ==
    [][\A i \in DOMAIN contexts : contexts[i].completed =>
           \A part \in {"name", "completed", "init", "binds", "callbacks", "clazz"} :
               contexts'[i][part] = contexts[i][part]]_cdiVars

\* In a complete component, a method that binds and one that unbinds the same requirement are
\* in one handler, every marked method's requirement has its handler, and a component whose
\* preparation raised has none.
BindsPaired ==
    \A i \in DOMAIN contexts :
        LET ctx == contexts[i]
        IN  /\ \A a, b \in ctx.binds : a.requirement = b.requirement => a = b
            /\ ctx.completed => \A m \in ToSet(Methods[ctx.clazz]) :
                   mark[m] # None /\ mark[m].kind \in Binding =>
                       \E b \in ctx.binds : /\ b.requirement = Requirement(m)
                                            /\ b.methods[mark[m].kind] # None
            /\ ~ctx.completed => ctx.binds = {}
=============================================================================
