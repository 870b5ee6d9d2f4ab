------------------------------ MODULE MCReader ------------------------------
(***************************************************************************)
(* A small instance of Reader for TLC.                                     *)
(***************************************************************************)
EXTENDS Reader, TLC

CONSTANTS c1, c2, k1, k2, k3

=============================================================================
