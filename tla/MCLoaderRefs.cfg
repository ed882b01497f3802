CONSTANTS
  Width = 4
  HdrSize = 2
  NumRecs = 2
  MaxScan = 4
  Tags = {2, 8}
  Names = {"s"}
  MemberNames = {"m"}
  Vlens = {0}
  Refs = {0, 1, 2, 3}
  Inputs <- MCInputs
  Builds <- MCBuilds
SPECIFICATION Spec
INVARIANT RefsResolve
CHECK_DEADLOCK FALSE
