SPECIFICATION Spec
CHECK_DEADLOCK FALSE
CONSTANTS
  Property = {"p", "q"}
  Parameter = {"T", "U"}
  Literal = {"a", "b"}
  Digest <- Collide
  MaxDistribution = 4
  Scenarios <- MCScenarios
  Value <- MCValue
  MaxAsks = 2
  Followed = {1}
INVARIANTS AnswersAreCurrent MeansWhatIsWritten RelationsAreSound SubtypeIsGreatest FunctionsSubstitutable
