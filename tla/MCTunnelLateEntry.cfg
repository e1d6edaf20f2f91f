SPECIFICATION Spec
CONSTANTS
  Procs = {p1}
  MaxNs = 1
  MaxCrashes = 0
INVARIANTS
  NobodyInsideWhenRulesGo
