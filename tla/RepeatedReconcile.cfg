SPECIFICATION Spec
CONSTANTS
  m1 = m1
  m2 = m2
  m3 = m3
  m4 = m4
  Releases <- MCReleases
  Requests <- MCRequests
  Declared = {m2}
  Origins = {o}
  Outs = {a1}
  Processes = {p1, p2}
  Nobody = Nobody
  NoFile = NoFile
  Reordered = FALSE
  FirstSchema = 2
  MaxEntries = 4
  MaxEvents = 4
  MaxEventRows = 4
  MaxComparisons = 4
  MaxArtifact = 200
  MaxJournal = 200
  MaxFaults = 0
CHECK_DEADLOCK FALSE
INVARIANT IdempotentApply
