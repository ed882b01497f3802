\* Natural C tables of every class of type, two ids below the requested one,
\* and nested ones of two scalars and an aggregate below it; members of
\* struct or union type may be anonymous.
CONSTANTS
  PtrSize = 8
  U32 = 1073741824
  Build = "debug"
  NumTypes = 2
  MaxMembers = 2
  Shape <- BroadShape
  EmptyUnions = FALSE
  AlignedMembers = FALSE
  SelfCycles = FALSE
  AnonMembers = TRUE
  Inputs <- NaturalInputs
SPECIFICATION Spec
\* type_definition returns; a returned call has no further step.
CHECK_DEADLOCK FALSE
INVARIANTS TypeOK DefinitionsClosed LayoutMatchesBtf
PROPERTIES Terminates WorklistRefined
