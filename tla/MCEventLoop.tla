---------------------------- MODULE MCEventLoop -----------------------------
(***************************************************************************)
(* TLC instances of EventLoop.                                             *)
(***************************************************************************)
EXTENDS EventLoop

CONSTANTS a, b, loop      \* threads, as model values

TwoCallers == {a, b}

\* Each thread hands over one functor.
OneTaskEach == [t \in {a, b, loop} |-> 1]
=============================================================================
