CONSTANTS
  Promotions = {p1, p2}
  Shared = shared
  Foreign = foreign
  NoFile = NoFile
  Partial = Partial
  Recoverer = recoverer
  Nobody = Nobody
  MaxEvents = 2
SPECIFICATION Spec
INVARIANTS
  TypeOK
  RefusedIsWhole
PROPERTIES
  ImplementsAtomicPromotion
  LockIsReleased
