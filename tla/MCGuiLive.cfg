SPECIFICATION FairSpec
CONSTANTS
  MaxPolls = 2
  Jobs = {j1}
  MaxClicks = 1
  MaxChanges = 1
PROPERTIES
  ButtonComesBack
  StaleCircuitsGo
  Settles
