--------------------------- MODULE MCTbnAsyncFifo ---------------------------
(* Instances of TbnAsyncFifo for TLC. *)
EXTENDS TbnAsyncFifo
=============================================================================
