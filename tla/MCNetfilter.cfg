SPECIFICATION Spec
INVARIANTS
  Contained
  Carried
  TorIsNotAProxy
  NothingForwardedIn
  OthersUntouched
