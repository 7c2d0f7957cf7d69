SPECIFICATION FairSpec
CONSTANTS
  MaxTasks = 4
  MaxCpu = 3
  MaxDeaths = 1
  Cancel = Cancel
INVARIANTS
  EachInOnePlace
  MappedAll
PROPERTY Ends
CHECK_DEADLOCK FALSE
