------------------------------- MODULE MCForward -------------------------------
(* Two requests over two connections. *)
EXTENDS Forward
=============================================================================
