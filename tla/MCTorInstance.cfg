SPECIFICATION Spec
CONSTANTS
  Pids = {p1, p2, p3}
  NoPid = NoPid
INVARIANTS
  NoTorLeft
  OnlyAnHeirIsHurt
PROPERTIES
  LifeSpec
