SPECIFICATION Spec
CONSTANTS
  c1 = c1
  c2 = c2
  c3 = c3
  c4 = c4
  Cves = {c1, c2, c3, c4}
  NULL = NULL
  References <- MCReferences
  Descriptions <- MCDescriptions
  Prefix = "https://github.com/"
  Suffix = "/commit/"
  HashLen = 2
  CwesOf <- MCCwesOf
  CweCount = 2
  SecondsPerDay = 2
  DaysPerWindow = 2
  ResultsPerPage = 2
  After = 0
  Days = 3
  Dates <- MCDates
  Catalogues <- MCCatalogues
  MaxChanges = 2
INVARIANTS TypeOK WindowsTile EachCommitOnce OnlyChangesDisturb
