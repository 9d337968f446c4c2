----------------------------- MODULE MCTbnFifo ------------------------------
(* Instances of TbnFifo for TLC. *)
EXTENDS TbnFifo

(* AWIDTH = (DEPTH < 2) ? 1 : $clog2(DEPTH) *)
AWidth == IF Depth < 2 THEN 1
          ELSE CHOOSE k \in 1 .. Depth : 2^k >= Depth /\ 2^(k - 1) < Depth

ASSUME PtrRange = 2 ^ AWidth

=============================================================================
