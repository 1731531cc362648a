SPECIFICATION Spec
CONSTANTS
  NumItems = 3
  MaxJobs = 2
INVARIANTS
  SuccessIsComplete
  ReportIsTrue
  IndexesAfterDocuments
