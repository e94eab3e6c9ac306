SPECIFICATION Spec
CHECK_DEADLOCK FALSE
CONSTANTS
  Property = {"p", "q"}
  Parameter = {"T", "U"}
  Literal = {"a", "b"}
  Digest <- Collide
  MaxDistribution = 4
  Files <- MCFiles
  Value <- MCValue
INVARIANTS GivenIsKept InferenceFindsWhatServes ResultIsCallers FirstMemberThatTakesIt ArityIsCertain
