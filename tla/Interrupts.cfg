SPECIFICATION FairSpec
CONSTANTS
  Thread = {a, b, idle}
  Idle = idle
  Device = {5, 14}
  Faults = {0, 13, 14}
INVARIANTS
  TypeOK
  KernelIsLeftClean
PROPERTIES
  RefinesVirtualCpus
  TimerPreempts
  KeysAreRead
