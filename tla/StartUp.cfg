SPECIFICATION FairSpec
CONSTANTS
  i1 = i1
  i2 = i2
  i3 = i3
  Instance = {i1, i2, i3}
  Pid <- PidOf
  Configs <- ConfigsOf
  None = None
INVARIANTS OneServer NoDeadListener LockFileIsHolders
PROPERTY SomeoneServes
CHECK_DEADLOCK FALSE
