SPECIFICATION MapSpec
CONSTANTS
  Places <- MCPlaces
  Unplaced = Unplaced
  Coast <- MCCoast
  Sizes <- MCSizes
  MaxCircuits = 1
  MaxHops = 3
INVARIANTS
  InSight
  TwoAreShort
  NoStreaks
