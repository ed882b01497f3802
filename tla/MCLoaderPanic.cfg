CONSTANTS
  Width = 4
  HdrSize = 2
  NumRecs = 1
  MaxScan = 3
  Tags = {2, 4}
  Names = {"", "s", "#oob"}
  MemberNames = {"m"}
  Vlens = {0, 1}
  Refs = {0}
  Inputs <- MCInputs
  Builds <- MCBuilds
SPECIFICATION Spec
INVARIANT NoPanic
CHECK_DEADLOCK FALSE
