--------------------------- MODULE MCEpollPoller ----------------------------
(***************************************************************************)
(* TLC instance of EpollPoller.                                            *)
(***************************************************************************)
EXTENDS EpollPoller

\* Nothing, data, and everything at once: enough to meet every mask.
MixedReadiness == {{}, {"read"}, Reports}
=============================================================================
