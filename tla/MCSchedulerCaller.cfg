\* One pool thread and the caller as second worker (IOManager's default);
\* up to two parties may schedule a sleeping fiber, at any time.
CONSTANTS
  Pool = {w1}
  Main = Main
  UseCaller = TRUE
  Jobs = {j1, j2, j3}
  Callbacks = {j1}
  NoJob = NoJob
  AnyThread = AnyThread
  MaxYields = 1
  MaxWakers = 2
SPECIFICATION Spec
SYMMETRY Symmetry
INVARIANTS
  Counters
  NeverLost
  RunningTruth
  Drained
