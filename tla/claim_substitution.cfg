SPECIFICATION Spec
CHECK_DEADLOCK FALSE
CONSTANTS
  Property = {"p", "q"}
  Parameter = {"T", "U"}
  Literal = {"a", "b"}
  Digest <- Collide
  MaxDistribution = 4
  Files <- Linked
  Value <- MCValue
INVARIANT SubstitutionIsTotal
