CONSTANTS
  PtrSize = 8
  U32 = 1073741824
  Build = "debug"
  Objs = {1, 2}
  Btfs = {1, 2, 3}
  Handles = {1, 2}
  Tables <- MCTables
SPECIFICATION Spec
INVARIANTS TypeOK NoUseAfterFree FreedOnce AlignmentAgrees
CHECK_DEADLOCK FALSE
