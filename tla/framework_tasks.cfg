\* Two calls at a time on one bundle, which also uses the registry by itself, under fairness.
CONSTANTS
  NoTask = NoTask
  NoName = NoName
  Class = Class
  NoReference = NoReference
  Unset = Unset
  Tasks = {t1, t2}
  Names = {m}
  StartLevel = 1
  Levels = {}
  MaxBundles = 1
  MaxServices = 2
  Background = TRUE
SPECIFICATION FairSpec
CONSTRAINT MCBound
INVARIANTS StartingHasStarter
PROPERTIES EveryCallReturns
