---------------------------- MODULE FunctorQueue ----------------------------
(***************************************************************************)
(* What EventLoop promises to whoever hands it a functor, whatever threads *)
(* and wake-ups are needed to get it there: functors that go through       *)
(* queueInloop() are run once each, in the order in which they were        *)
(* queued; a functor given to runInloop() on the loop's own thread is run  *)
(* on the spot, ahead of the queue.  Nothing is said about functors that   *)
(* are still queued when the loop stops.                                   *)
(***************************************************************************)
EXTENDS Sequences

CONSTANT Functors          \* the functors that can be handed to the loop

VARIABLES submitted,       \* functors handed over so far
          queue,           \* queued functors that have not been run
          ran              \* functors run so far, in the order they ran

vars == <<submitted, queue, ran>>

Init == submitted = {} /\ queue = <<>> /\ ran = <<>>

\* queueInloop(f): f goes to the tail of the queue.
Submit(f) ==
  /\ f \notin submitted
  /\ submitted' = submitted \cup {f}
  /\ queue' = Append(queue, f)
  /\ ran' = ran

\* runInloop(f) on the loop thread: f runs at once.
RunDirect(f) ==
  /\ f \notin submitted
  /\ submitted' = submitted \cup {f}
  /\ queue' = queue
  /\ ran' = Append(ran, f)

\* The loop runs the functor at the head of the queue.
RunHead ==
  /\ queue # <<>>
  /\ queue' = Tail(queue)
  /\ ran' = Append(ran, Head(queue))
  /\ UNCHANGED submitted

Next == RunHead \/ \E f \in Functors : Submit(f) \/ RunDirect(f)

Spec == Init /\ [][Next]_vars
=============================================================================
