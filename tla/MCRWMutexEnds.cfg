\* One thread, one ReadLock.
CONSTANTS
  Threads = {t1}
  NoThread = NoThread
SPECIFICATION FairSpec
PROPERTY GuardsEnd
CHECK_DEADLOCK FALSE
