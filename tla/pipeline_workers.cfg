SPECIFICATION SafeSpec
CONSTANTS
  e1 = e1
  e2 = e2
  e3 = e3
  n1 = n1
  n2 = n2
  n3 = n3
  Entries = {e1, e2, e3}
  GithubWorkers = {g1, g2}
  ParsingWorkers = {p1, p2}
  CweCount = 1
  FileNames = {n1, n2}
  FileName <- SharedName
  MaxRuns = 1
  SectionLen = 2
  UintMod = 16
  NULL = NULL
INVARIANTS TypeOK CountersTell OwnLine RedrawInPlace OneHolder NoPushAfterFinish
SYMMETRY Interchangeable
