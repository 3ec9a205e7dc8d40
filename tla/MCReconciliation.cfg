SPECIFICATION Spec
CONSTANTS
  Null = Null
  Numeric <- MCNumeric
  GrainKeys <- MCGrainKeys
  Sampling = full
  Files <- MCFiles
  Rewrites <- MCRewrites
  MetricColumn = "amount"
  GroupBy <- MCGroupBy
  MaxDisturbances = 2
INVARIANTS
  VerdictsAreTrue
  PassingPackMeansEqualKeys
  ScansStayInBudget
  GroupedComparisonIsComplete
CHECK_DEADLOCK FALSE
