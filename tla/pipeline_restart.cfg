SPECIFICATION Spec
CONSTANTS
  e1 = e1
  e2 = e2
  e3 = e3
  n1 = n1
  n2 = n2
  n3 = n3
  Entries = {e1, e2}
  GithubWorkers = {g1}
  ParsingWorkers = {p1}
  CweCount = 2
  FileNames = {n1}
  FileName <- SharedPair
  MaxRuns = 3
  SectionLen = 1
  UintMod = 16
  NULL = NULL
INVARIANTS NothingLeft
PROPERTIES FilesKept RunEnds
