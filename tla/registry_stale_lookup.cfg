\* A priority that changes while the service is registered.
CONSTANTS
  Bundles = {b1, b2}
  Classes = {c1, c2}
  ClassTuples <- MCClassTuples
  Priorities <- MCPriorities
  Unset = Unset
  NoReference = NoReference
  MaxServices = 3
  MaxUse = 0
SPECIFICATION Spec
\* A registry waits for calls; with every id spent and rejected none is left.
CHECK_DEADLOCK FALSE
INVARIANT GoneMeansNotFound
