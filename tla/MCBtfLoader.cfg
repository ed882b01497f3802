CONSTANTS
  Width = 4
  HdrSize = 2
  NumRecs = 2
  MaxScan = 4
  Tags = {0, 1, 2, 3, 4, 5, 6, 13, 14, 15, 17, 19, 25}
  Names = {"", "s", "#utf8"}
  MemberNames = {"m"}
  Vlens = {0, 2}
  Refs = {0, 1}
  Inputs <- MCInputs
  Builds <- MCBuilds
SPECIFICATION Spec
INVARIANTS TypeOK DecodedMatchesRecords AnonNamesInOrder
PROPERTIES Terminates
CHECK_DEADLOCK FALSE
