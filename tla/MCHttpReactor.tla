--------------------------- MODULE MCHttpReactor ----------------------------
(* Two clients for HttpReactor.  They are alike, so that one of them sends *)
(* a GET and the other anything.  A descriptor is below, at or above the   *)
(* size of the C map, or the size it grows to; below or at the limit of    *)
(* select().                                                               *)
EXTENDS HttpReactor, TLC

CONSTANTS c1, c2

Setup(i, n, f, k) ==
  [impl |-> i, threadNum |-> n, fds |-> f, kind |-> (c1 :> "get") @@ (c2 :> k)]

MCSetups ==
  {Setup(i, n, f, k) : i \in {"c", "cpp"}, n \in {0, 1}, f \in {{1, 2}, {1, 3}},
                       k \in Kinds}
    \cup {Setup("c", n, {1, 4}, "get") : n \in {0, 1}}
    \cup {Setup(i, 2, {1, 3}, k) : i \in {"c", "cpp"}, k \in {"get", "partial"}}
=============================================================================
