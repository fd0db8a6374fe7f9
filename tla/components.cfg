SPECIFICATION CdiSpec
CONSTANTS
    base = base
    derived = derived
    none = none
    None = none
    Classes = {base, derived}
    Mro <- MCMro
    Bases <- MCBases
    InitSpecs <- MCInitSpecs
    Methods <- MCMethods
    Annotated <- MCAnnotated
    MarkArgs <- MCMarkArgs
    Names = {"one", "two"}
    Fields = {"foo"}
    Specs <- MCSpecs
    MaxDecorators = 1
INVARIANTS
    BindsPaired
PROPERTY PreparedForGood
