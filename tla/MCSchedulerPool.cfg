\* Two pool threads; the caller only submits, starts and stops; fibers
\* reschedule themselves on their own thread.
CONSTANTS
  Pool = {w1, w2}
  Main = Main
  UseCaller = FALSE
  Jobs = {j1, j2, j3}
  Callbacks = {j1}
  NoJob = NoJob
  AnyThread = AnyThread
  MaxYields = 1
  MaxWakers = 0
SPECIFICATION FairSpec
INVARIANTS
  TypeOK
  StopComplete
  NoFault
PROPERTIES
  ImplementsFairly
  EveryJobEnds
  StopReturns
