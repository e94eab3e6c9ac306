SPECIFICATION Spec
CHECK_DEADLOCK FALSE
CONSTANTS
  Property = {"p", "q"}
  Parameter <- MCParameter
  Literal = {"a", "b"}
  Digest <- Collide
  MaxDistribution = 4
  Files <- SuspectFiles
  Value <- MCValue
INVARIANT MeansWhatItMeantThere
