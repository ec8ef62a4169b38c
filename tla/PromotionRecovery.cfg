CONSTANTS
  Promotions = {p1, p2}
  Shared = shared
  Foreign = foreign
  NoFile = NoFile
  Partial = Partial
  Recoverer = recoverer
  Nobody = Nobody
  MaxEvents = 1
SPECIFICATION Spec
INVARIANT
  RecoverySucceeds
