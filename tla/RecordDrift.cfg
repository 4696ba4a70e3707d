SPECIFICATION MCSpec
CONSTANTS
  NumCases = 1
  Runs = 3
  Alphas <- AlphasValue
  CaseShares <- CaseSharesValue
  SuiteShares <- SuiteSharesValue
  MinDrop = 1
  NumOutputs = 1
  Distances = {0}
  Threshold = 1
  RecordCases = 2
  RecordRuns = 2
  Expect <- ExpectValue
  RanExpect <- EditedExpect
  Shapes <- ShapesValue
  MaxBad = 1
  Orders <- OrdersValue
  MaxReasons = 1
  TextAlike = 40
  MeaningAlike = 100
  MinAgreement = 60
INVARIANTS VerdictsAreAnchored
CHECK_DEADLOCK FALSE
