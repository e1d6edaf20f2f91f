SPECIFICATION FairSpec
CONSTANTS
  Clients = {c1, c2}
  Nobody = Nobody
  MaxCrashes = 1
INVARIANTS
  HeardAtTheEnd
PROPERTIES
  OnlyPeopleHoldIt
