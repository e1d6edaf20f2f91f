SPECIFICATION FairSpec
CONSTANTS
  Operators = {o1, o2}
  Nobody = Nobody
  Watched = {o1}
INVARIANTS
  LoneDownCleans
  OwnNetIsUndone
PROPERTIES
  EveryOperatorEnds
