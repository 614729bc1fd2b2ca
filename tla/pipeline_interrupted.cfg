SPECIFICATION SafeSpec
CONSTANTS
  e1 = e1
  e2 = e2
  e3 = e3
  n1 = n1
  n2 = n2
  n3 = n3
  Entries = {e1, e2, e3}
  GithubWorkers = {g1}
  ParsingWorkers = {p1}
  CweCount = 1
  FileNames = {n1, n2, n3}
  FileName <- DistinctNames
  MaxRuns = 2
  SectionLen = 2
  UintMod = 16
  NULL = NULL
INVARIANTS EachNamedCommitHasItsFile
