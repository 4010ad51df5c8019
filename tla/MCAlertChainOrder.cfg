CONSTANTS
  ingestor = ingestor
  digest = digest
  Writers <- MCOneWriter
  Ids <- MCIds
  Times <- MCTimes
  Bodies <- MCBodies
SPECIFICATION Spec
INVARIANT UneditedVerifies
