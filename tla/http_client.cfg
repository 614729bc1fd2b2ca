SPECIFICATION Spec
CONSTANTS
  Callers = {g1, g2}
  NULL = NULL
  MaxErrors = 3
  NvdMaxDelay = 8
  TimeBetweenRequests = 1
  TooManyPause = 3
  ServerErrorPause = 2
  MaxReset = 2
  NvdDownloads = 2
  GithubDownloads = 1
INVARIANTS TypeOK HandleOwned BackoffGrows RequestsComplete
PROPERTIES PatienceKept EveryDownloadReturns
