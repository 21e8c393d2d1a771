---------------------------- MODULE MCTcpServer -----------------------------
(***************************************************************************)
(* TLC instances of TcpServer.  With fewer descriptors than clients        *)
(* accept() runs into EMFILE and descriptors are used again.               *)
(***************************************************************************)
EXTENDS TcpServer

CONSTANTS c1, c2, c3, f1, f2      \* clients and descriptors, as model values

ThreeClients == {c1, c2, c3}
TwoClients == {c1, c2}
OneClient == {c1}
TwoFds == {f1, f2}
=============================================================================
