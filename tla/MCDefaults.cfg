\* Natural C tables in which struct and union members may be anonymous;
\* does the Default printed for each definition compile?
CONSTANTS
  PtrSize = 8
  U32 = 1073741824
  Build = "debug"
  NumTypes = 2
  MaxMembers = 2
  Shape <- BroadShape
  EmptyUnions = FALSE
  AlignedMembers = FALSE
  SelfCycles = FALSE
  AnonMembers = TRUE
  Inputs <- MCInputs
SPECIFICATION Spec
CHECK_DEADLOCK FALSE
INVARIANT DefaultCompiles
