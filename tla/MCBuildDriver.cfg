\* build_project over at most three programs; it stops once it has returned.
CONSTANTS
  d1 = d1
  d2 = d2
  s1 = s1
  s2 = s2
  o1 = o1
  o2 = o2
  Dirs <- MCDirs
  Stems <- MCStems
  Outs <- MCOuts
  MaxObjs = 3

SPECIFICATION Spec

INVARIANT BuiltObjectsDistinct
INVARIANT FailureDamagesOnlyItsObject

CHECK_DEADLOCK FALSE
