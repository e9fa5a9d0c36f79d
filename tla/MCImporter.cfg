CONSTANTS
  Hashes = {h1, h2}
  NoVector = NoVector
  Imports = {m1, m2}
  MaxRows = 3
  ChunkSize = 2
  MaxRowErrors = 1
  MaxFaults = 1
SPECIFICATION Spec
SYMMETRY Symmetry
INVARIANTS TypeOK ReportAddsUp CreatedOnce VectorFollowsText
PROPERTY VectorsStay
