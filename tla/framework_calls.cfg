\* One call at a time: two bundles, three levels, start level 2, two services.
CONSTANTS
  NoTask = NoTask
  NoName = NoName
  Class = Class
  NoReference = NoReference
  Unset = Unset
  Tasks = {t1}
  Names = {m, n}
  StartLevel = 2
  Levels = {1, 2, 3}
  MaxBundles = 2
  MaxServices = 2
  Background = FALSE
SPECIFICATION Spec
SYMMETRY MCSymmetry
INVARIANTS StopGetsContext StoppedOwnsNothing 
  FrameworkStoppedQuiet StartsInLevelOrder StopsInReverseLevelOrder
PROPERTIES SweptByOwner UninstalledForGood 
