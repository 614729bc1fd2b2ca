SPECIFICATION ParseSpec
CONSTANTS
  NULL = NULL
  Names <- MCNames
  Contents <- MCContents
  Trees <- MCTrees
INVARIANT NamesAreRight
