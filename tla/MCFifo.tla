------------------------------- MODULE MCFifo -------------------------------
(***************************************************************************)
(* Fifo for TLC.  The bounds are in the configurations: two or three       *)
(* callers of each kind and a ring of two slots are enough for a full      *)
(* ring, an empty ring, wrap-around, and two sleepers on one wait list.    *)
(***************************************************************************)
EXTENDS Fifo, TLC

CONSTANTS w1, w2, w3, r1, r2, f1, m1, m2

Sym == Permutations({w1, w2}) \cup Permutations({r1, r2})
         \cup Permutations({m1, m2})
=============================================================================
