SPECIFICATION Spec
CONSTANTS
  m1 = m1
  m2 = m2
  m3 = m3
  m4 = m4
  Releases <- MCReleases
  Requests <- MCRequests
  Declared = {m2}
  Origins = {o}
  Outs = {a1, a2}
  Processes = {p1, p2}
  Nobody = Nobody
  NoFile = NoFile
  Reordered = FALSE
  FirstSchema = 2
  MaxEntries = 3
  MaxEvents = 2
  MaxEventRows = 1
  MaxComparisons = 3
  MaxArtifact = 36
  MaxJournal = 30
  MaxFaults = 2
CHECK_DEADLOCK FALSE
INVARIANTS RegistryAttested EveryChangeRepresentable
PROPERTIES HistoryKept RecoveryFinishes
