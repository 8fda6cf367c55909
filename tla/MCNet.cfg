\* Two sockets, two fibers, two numbers that are used again; a server with two
\* addresses and at most two loops at a time.
CONSTANTS
  Objects = {o1, o2}
  Fibers = {g1, g2}
  Numbers = {5, 6}
  NoObject = NoObject
  MaxOps = 5
  Listeners = {l1, l2}
  Loops = {1, 2}
  Keeps = {TRUE, FALSE}
  MaxClients = 1
SPECIFICATION NetSpec
CHECK_DEADLOCK FALSE
INVARIANTS
  NetTypeOK
  OwnNumber
  Named

  
