SPECIFICATION Spec
CONSTANTS
  Locals = {p1, p2, p3}
  Raws = {w1, w2}
  Descriptors = {0, 1, 2}
INVARIANTS OneOwner HeldIsOpen NothingElseLeaks FlagsMatch
