CONSTANTS
  Jobs = {a}
  Concurrency = 1
SPECIFICATION FairSpec
PROPERTIES AnsweredRuns
