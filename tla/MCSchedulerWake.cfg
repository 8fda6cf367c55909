\* Two pool threads and one fiber that one other party may schedule.
CONSTANTS
  Pool = {w1, w2}
  Main = Main
  UseCaller = FALSE
  Jobs = {j1}
  Callbacks = {}
  NoJob = NoJob
  AnyThread = AnyThread
  MaxYields = 1
  MaxWakers = 1
SPECIFICATION Spec
INVARIANT NoSharedStack
