SPECIFICATION Spec
CHECK_DEADLOCK FALSE
CONSTANTS
  Property = {"p", "q"}
  Parameter <- MCParameter
  Literal = {"a", "b"}
  Digest <- Collide
  MaxDistribution = 4
  Files <- MCFiles
  Value <- MCValue
INVARIANTS MeansWhatItMeantThere RoundTrips ExportIsCanonical NothingDangles
