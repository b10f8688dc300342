------------------------------ MODULE MCClient ------------------------------
(* The client as the programs in cmd/ use it: Stop only while it is online *)
(* (the GUI's close button calls it at any time, and ends the process).    *)
EXTENDS Client
=============================================================================
