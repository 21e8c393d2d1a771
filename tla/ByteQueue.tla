----------------------------- MODULE ByteQueue ------------------------------
(***************************************************************************)
(* What a Buffer promises: a first-in first-out queue of bytes.  Whatever  *)
(* is put in at one end comes out at the other, unchanged; nothing is said *)
(* about where the bytes lie in memory.                                    *)
(***************************************************************************)
EXTENDS Sequences, Naturals

CONSTANT Chunks      \* strings of bytes that can be put in

VARIABLES queue,     \* bytes put in and not yet taken out
          out        \* what the last operation gave out

vars == <<queue, out>>

Init == queue = <<>> /\ out = <<>>

\* Bytes come in at the end.
Put(data) ==
  /\ queue' = queue \o data
  /\ out' = <<>>

\* The first n bytes are looked at, leave, or both.
Peek(n) ==
  /\ out' = SubSeq(queue, 1, n)
  /\ UNCHANGED queue

Drop(n) ==
  /\ queue' = SubSeq(queue, n + 1, Len(queue))
  /\ out' = <<>>

Take(n) ==
  /\ out' = SubSeq(queue, 1, n)
  /\ queue' = SubSeq(queue, n + 1, Len(queue))

Next ==
  \/ \E data \in Chunks : Put(data)
  \/ \E n \in 0..Len(queue) : Peek(n) \/ Drop(n) \/ Take(n)

Spec == Init /\ [][Next]_vars
=============================================================================
