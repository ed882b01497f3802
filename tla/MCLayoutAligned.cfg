\* Two scalars, then a struct or union of them, then the requested aggregate;
\* the last member of a struct may carry __attribute__((aligned(4))).
CONSTANTS
  PtrSize = 8
  U32 = 1073741824
  Build = "debug"
  NumTypes = 3
  MaxMembers = 2
  Shape <- NestedShape
  EmptyUnions = FALSE
  AlignedMembers = TRUE
  SelfCycles = FALSE
  AnonMembers = FALSE
  Inputs <- MCInputs
SPECIFICATION Spec
CHECK_DEADLOCK FALSE
INVARIANT LayoutMatchesBtf
