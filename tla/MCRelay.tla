------------------------------- MODULE MCRelay -------------------------------
(* Two requests over queues of one frame. *)
EXTENDS Relay, TLC

Symmetry == Permutations(Requests)
=============================================================================
