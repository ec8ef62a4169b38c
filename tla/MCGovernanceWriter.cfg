SPECIFICATION Spec
CONSTANTS
  c1 = c1
  r1 = r1
  a1 = a1
  a2 = a2
  Commands = {c1, r1, a1, a2}
  Nobody = Nobody
  Policy <- MCPolicy
INVARIANT WrittenIsKept
