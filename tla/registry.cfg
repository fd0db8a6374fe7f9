\* The books of use with two services, each used up to twice, and the class lists with three.
CONSTANTS
  Bundles = {b1, b2}
  Classes = {c1, c2}
  ClassTuples <- MCClassTuples
  Priorities <- MCPriorities
  Unset = Unset
  NoReference = NoReference
  MaxServices = 3
  MaxUse = 2
SPECIFICATION Spec
\* A registry waits for calls; with every id spent and rejected none is left.
CHECK_DEADLOCK FALSE
SYMMETRY MCSymmetry
CONSTRAINT MCBound
INVARIANTS TypeOK UsageBooksAgree OwnerListsCover LookupExact
PROPERTY IdsNeverReused
