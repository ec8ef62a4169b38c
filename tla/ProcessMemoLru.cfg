CONSTANTS
  Keys = {k1, k2, k3}
  Values = {"passed", "failed"}
  Weights = {1, 2, 4, 5}
  MaxEntries = 2
  MaxWeight = 4
  MaxU64 = 5
SPECIFICATION Spec
INVARIANTS
  TypeOK
  RecencyIndexExact
  EntryLimit
  BytesAccounted
PROPERTIES
  ImplementsLru
  InsertCompletes
