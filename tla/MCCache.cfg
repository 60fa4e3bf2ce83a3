SPECIFICATION Spec
CONSTANTS
  LineSize = 2
  Sets = 2
  Ways = 1
  UnrollBy = 2
  Lines = 3
  Value = {0, 1}
  Jobs <- MCJobs
INVARIANTS
  DmaExact
  FetchSees
