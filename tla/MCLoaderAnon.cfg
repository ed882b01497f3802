\* Sections of structs and enums, anonymous or named, where a name may be
\* __anon_1, the form of a synthesized name.
CONSTANTS
  Width = 4
  HdrSize = 2
  NumRecs = 2
  MaxScan = 4
  Tags = {4, 6}
  Names = {"", "s", "__anon_1"}
  MemberNames = {"m"}
  Vlens = {0}
  Refs = {0}
  Inputs <- MCInputs
  Builds <- MCBuilds
SPECIFICATION Spec
INVARIANT AnonNamesUnique
CHECK_DEADLOCK FALSE
