CONSTANTS
  NumRuns    = 2
  Workers    = {w1, w2}
  NoWorker   = NoWorker
  MaxRetries = 1
SPECIFICATION Spec
SYMMETRY Symmetry
INVARIANTS
  TypeOK
  Inv
  OneWorkerPerAttempt
  DraftIffSolved
  AuditAgrees
  SolvedSnapshotIsOwn
PROPERTIES
  TerminalFrozen
  ImplementsLifecycle
