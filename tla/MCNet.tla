---------------------------------- MODULE MCNet ----------------------------------
(***************************************************************************)
(* Socket objects, and a TcpServer: two models that share nothing, checked *)
(* in one run on small instances.  A behaviour is one of either.           *)
(***************************************************************************)
EXTENDS Socket, TcpServer
VARIABLE subject    \* which of the two moves; it never changes

NetInit == subject \in {"socket", "server"} /\ SocketInit /\ TcpServerInit

NetNext ==
  \/ subject = "socket" /\ SocketNext /\ UNCHANGED <<serverVars, subject>>
  \/ subject = "server" /\ TcpServerNext /\ UNCHANGED <<socketVars, subject>>

NetSpec == NetInit /\ [][NetNext]_<<socketVars, serverVars, subject>> /\ TcpServerFairness

NetTypeOK == SocketTypeOK /\ TcpServerTypeOK
=============================================================================
