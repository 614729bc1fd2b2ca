SPECIFICATION Spec
CONSTANTS
  Jobs = {j1, j2, j3}
  Producers = {p1, p2}
  Workers = {w1, w2}
  Main = main
  NULL = NULL
INVARIANTS TypeOK ListIsQueue OneOwner NoLostWakeup CleanTeardown
PROPERTIES ImplementsWorkQueue Terminates
