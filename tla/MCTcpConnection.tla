-------------------------- MODULE MCTcpConnection ---------------------------
(***************************************************************************)
(* TLC instances of TcpConnection.                                         *)
(***************************************************************************)
EXTENDS TcpConnection

\* EchoServer::onMessage.
EchoScripts == {<<"send", "shutdown">>}
=============================================================================
