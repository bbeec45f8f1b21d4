SPECIFICATION FairSpec
CONSTANTS
  c1 = c1
  c2 = c2
  Call = {c1, c2}
  Scenarios <- MCScenarios
  TxCap = 2
INVARIANTS AnswerIsOwn SessionInv WatcherInv DrainedMeansAnswered TimeoutMeansSilence
PROPERTIES CallsReturn CloseEnds RequestsAreAnswered
CHECK_DEADLOCK FALSE
