------------------------------ MODULE MCSession ------------------------------
(* Two sessions over two tunnels: a takeover, and tunnels that App.Stop     *)
(* visits while sessions of both come and go.                               *)
EXTENDS Session, TLC

(* Only the runs without a temporal property use it. *)
Symmetry == Permutations(Sessions) \cup Permutations(Tunnels)
=============================================================================
