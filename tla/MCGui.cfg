SPECIFICATION Spec
CONSTANTS
  MaxPolls = 2
  Jobs = {j1, j2}
  MaxClicks = 2
  MaxChanges = 0
INVARIANTS
  AloneIsHeld
  DeadIsInHand
