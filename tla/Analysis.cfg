SPECIFICATION MCSpec
CONSTANTS
  NumCases = 3
  Runs = 3
  Alphas <- AlphasValue
  CaseShares <- CaseSharesValue
  SuiteShares <- SuiteSharesValue
  MinDrop = 1
  NumOutputs = 4
  Distances = {0, 1, 2}
  Threshold = 1
  RecordCases = 2
  RecordRuns = 2
  Expect <- ExpectValue
  RanExpect <- ExpectValue
  Shapes <- ShapesValue
  MaxBad = 1
  Orders <- OrdersValue
  MaxReasons = 1
  TextAlike = 40
  MeaningAlike = 100
  MinAgreement = 60
INVARIANTS FalseAlarmsBounded TestsAreExact FindingsAreChains PagesAreWhole ExportIsTheRecord VerdictsAreAnchored
CHECK_DEADLOCK FALSE
