\* Two workers, one fd, a fiber and a callback it may register or schedule; the
\* table starts too short for the fd, the pipe holds one byte.
CONSTANTS
  Workers = {w1, w2}
  Fds = {2}
  Pipe = Pipe
  FirstSize = 2
  j1 = j1
  cb = cb
  Jobs = {j1, cb}
  Callbacks = {cb}
  Initial <- InitialJobs
  NoJob = NoJob
  None = None
  PipeSize = 1
  FirstOps = {"ADD", "DEL"}
  MaxCalls = 3
SPECIFICATION FairSpec
CHECK_DEADLOCK FALSE
INVARIANTS
  TypeOK
  PendingExact
  OnePlace
  
  Watched
  OneKindSafe
  Attended

  
