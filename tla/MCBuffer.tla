------------------------------ MODULE MCBuffer ------------------------------
(***************************************************************************)
(* TLC instance of Buffer.  Two kinds of bytes are enough to see any one   *)
(* of them missing, doubled or out of place; data of every length up to    *)
(* three falls short of, meets and exceeds every room there is.            *)
(***************************************************************************)
EXTENDS Buffer

SmallBytes == {0, 1}
UpTo3 == UNION {[1..n -> SmallBytes] : n \in 0..3}
=============================================================================
