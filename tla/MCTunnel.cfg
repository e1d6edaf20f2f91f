SPECIFICATION FairSpec
CONSTANTS
  Procs = {p1, p2}
  MaxNs = 2
  MaxCrashes = 1
INVARIANTS
  TypeOK
  StrandedIsLate
  TorNeedsNetns
  DownMeansDown
  NftAfterBootstrap
  UnverifiedNeedsMishap
  FailedUpIsClean
  StrayLinkNeedsMishap
PROPERTIES
  GateSpec
  TorLifeSpec
  EveryOperationEnds
