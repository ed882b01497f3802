\* Natural C tables of one id below the requested one in which a union may
\* have no member, and the malformed tables, under u32 scaled to 10 bits in
\* a debug build (the profile cargo compiles build scripts with).
CONSTANTS
  PtrSize = 8
  U32 = 1024
  Build = "debug"
  NumTypes = 1
  MaxMembers = 2
  Shape <- BroadShape
  EmptyUnions = TRUE
  AlignedMembers = FALSE
  SelfCycles = FALSE
  AnonMembers = FALSE
  Inputs <- PanicInputs
SPECIFICATION Spec
CHECK_DEADLOCK FALSE
INVARIANT NoPanic
