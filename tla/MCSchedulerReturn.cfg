\* No pool thread, the caller is the only worker: IOManager(1), the default.
CONSTANTS
  Pool = {}
  Main = Main
  UseCaller = TRUE
  Jobs = {j1}
  Callbacks = {j1}
  NoJob = NoJob
  AnyThread = AnyThread
  MaxYields = 0
  MaxWakers = 0
SPECIFICATION Spec
INVARIANT CallerResumed
