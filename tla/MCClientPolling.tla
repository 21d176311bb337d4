--------------------------- MODULE MCClientPolling ---------------------------
(* Instances of ClientPolling for TLC. *)
EXTENDS ClientPolling

MCLoops == 1..5
=============================================================================
