\* Four threads that read and write.  They do hang: that is what the model shows.
CONSTANTS
  Threads = {t1, t2, t3, t4}
  NoThread = NoThread
SPECIFICATION Spec
INVARIANTS
  TypeOK
  Exclusive
  OneEscapes
CHECK_DEADLOCK FALSE
