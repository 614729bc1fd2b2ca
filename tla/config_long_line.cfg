SPECIFICATION Spec
CONSTANTS
  NULL = NULL
  Files <- MCFiles
  Fields <- MCFields
  Now = 1788234567
  LineSize = 8
  UintMod = 1000
INVARIANTS EveryCweRead
