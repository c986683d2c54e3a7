CONSTANTS
  Message = {1}
  MaxConnectRetries = 2
  MaxFailures = 3
SPECIFICATION FairSpec
INVARIANTS ConnectionTypeOK AnswersAreExpected RunsAlone
PROPERTIES RerunsOnlyIfSpent QueriesEnd
CHECK_DEADLOCK FALSE
