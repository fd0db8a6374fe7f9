\* A tracker without a query and one with, open one at a time; two client tasks
\* and two services, the second of which stands first in the registry's list.
CONSTANTS
  all = all
  some = some
  hit = hit
  miss = miss
  Trackers = {all, some}
  Owner = Owner
  Tasks = {t1, t2}
  Class = Class
  Properties = {hit, miss}
  Query <- MCQuery
  Priority <- MCPriority
  NoReference = NoReference
  Unset = Unset
  MaxServices = 2
  MaxUse = 2
  MaxOpen = 1
SPECIFICATION Spec
\* With every service id spent and the uses at their bound no call is left.
CHECK_DEADLOCK FALSE
SYMMETRY MCSymmetry
INVARIANTS UsesCovered SettledExactly 
