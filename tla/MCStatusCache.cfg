SPECIFICATION FairSpec
CONSTANTS
  Threads = {t1, t2}
  MaxTunnels = 3
INVARIANTS
  OneRefresh
  WrongIsOvertaken
PROPERTIES
  WrongIsReplaced
