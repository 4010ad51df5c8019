CONSTANTS
  ingestor = ingestor
  digest = digest
  Writers <- MCWriters
  Ids <- MCIds
  Times <- MCTimes
  Bodies <- MCBodies
SPECIFICATION Spec
INVARIANTS
  EmptyMeansIntact
  AlteredIsReported
  ReportsHaveACause
