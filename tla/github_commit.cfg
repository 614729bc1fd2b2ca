SPECIFICATION Spec
CONSTANTS
  NULL = NULL
  Paths <- MCPaths
  Ext <- MCExt
  Documents <- MCDocuments
  FilesPage = 3
  Trees <- MCTrees
  TreeLimits = {4, 10}
  Configs <- MCConfigs
  MaxDepth = 5
  Origin <- MCOrigin
  Binary <- MCBinary
INVARIANTS TypeOK ExportedIsWhole ContextIsSurroundings RejectedForAReason ExitedForAReason ContentAskedLast NothingAskedTwice
