\* Two threads, two timers; the clock can be set back by more than Hour.
CONSTANTS
  Threads = {t1, t2}
  Timers = {1, 2}
  NoTimer = NoTimer
  Delays = {0, 1}
  Hour = 1
  Earliest = 1
  Latest = 3
  Never = 9
SPECIFICATION Spec
SYMMETRY Symmetry
INVARIANTS
  TypeOK
  Ordered
  ArmedInTree
  OneShotOnce
  NoMissedFront
