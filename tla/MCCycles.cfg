\* Tables where a pointer or typedef may refer to itself.
CONSTANTS
  PtrSize = 8
  U32 = 1073741824
  Build = "debug"
  NumTypes = 1
  MaxMembers = 2
  Shape <- BroadShape
  EmptyUnions = FALSE
  AlignedMembers = FALSE
  SelfCycles = TRUE
  AnonMembers = FALSE
  Inputs <- MCInputs
SPECIFICATION Spec
CHECK_DEADLOCK FALSE
PROPERTY Terminates
