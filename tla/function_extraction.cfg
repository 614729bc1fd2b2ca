SPECIFICATION ParseSpec
CONSTANTS
  NULL = NULL
  Names <- MCNames
  Contents <- MCContents
  Trees <- MCTrees
INVARIANTS PlainFunctionsFound ReportsAreTrue DifferenceReported
