SPECIFICATION FairSpec
CONSTANTS
  Tasks = {t1, t2, t3}
  MinTasks = 1
  MaxTasks = 3
  Raising = TRUE
  MaxRequests = 3
  MaxInterrupts = 1
  MaxEntries = 1
INVARIANTS
  TypeOK
  CountersRight
  SomebodyReads
  FewIdle
PROPERTIES
  RequestsReceived
  
CHECK_DEADLOCK FALSE
