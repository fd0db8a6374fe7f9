\* A start during the sweep of a stop.
CONSTANTS
  NoTask = NoTask
  NoName = NoName
  Class = Class
  NoReference = NoReference
  Unset = Unset
  Tasks = {t1, t2}
  Names = {m}
  StartLevel = 1
  Levels = {}
  MaxBundles = 1
  MaxServices = 0
  Background = FALSE
SPECIFICATION Spec
INVARIANTS StopIsGivenContext
