\* A fiber and a thread without hooks, one open socket and one free number.
CONSTANTS
  Hooked = {f1}
  Plain = {p}
  Fds = {s1, s2}
  Given = {s1}
  None = None
  Built = {TRUE, FALSE}
  MaxCalls = 3
SPECIFICATION FairSpec
CHECK_DEADLOCK FALSE
INVARIANTS
  TypeOK
  Modes
  OwnTimeout
  

  
