\* One thread, one timer: what is due is to be collected.
CONSTANTS
  Threads = {t1}
  Timers = {1}
  NoTimer = NoTimer
  Delays = {1}
  Hour = 1
  Earliest = 1
  Latest = 3
  Never = 9
SPECIFICATION Spec
PROPERTY CollectsAllDue
