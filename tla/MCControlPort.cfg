SPECIFICATION FairSpec
CONSTANTS
  MaxCircuits = 3
  MaxTimeouts = 8
INVARIANTS
  TypeOK
  HopsAreTheirOwn
  ListingIsWhole
  LateIsEarlier
PROPERTIES
  Returns
\* circuits() returns, and the connection is gone.
CHECK_DEADLOCK FALSE
