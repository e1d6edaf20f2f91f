SPECIFICATION Spec
CONSTANTS
  Pids = {p1, p2}
  NoPid = NoPid
INVARIANTS
  OnlyTorIsStopped
