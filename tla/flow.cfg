CONSTANT Declared <- MCDeclared
CONSTANT Values <- MCValues
CONSTANT Program <- ProgramAt
CONSTANT Programs <- ProgramNumbers
SPECIFICATION Spec
CHECK_DEADLOCK FALSE
INVARIANT NarrowingNeverInvents
INVARIANT EachReadCheckedOnce
INVARIANT DeadIsDead
