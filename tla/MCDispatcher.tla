---------------------------- MODULE MCDispatcher ----------------------------
(* Dispatcher with every build: two implementations, three kinds, with and *)
(* without _SEND_MSG_AUTO, with an array and sets that hold all three      *)
(* descriptors or one too few.                                             *)
EXTENDS Dispatcher

MCBuilds ==
  {b \in [impl : {"c", "cpp"}, kind : {"epoll", "poll", "select"}, auto : BOOLEAN,
           max : {2, 3}] : b.kind = "epoll" => b.max = 3}
=============================================================================
