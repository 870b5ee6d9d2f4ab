------------------------------ MODULE MCServer ------------------------------
(***************************************************************************)
(* A small instance of Server for TLC.                                     *)
(***************************************************************************)
EXTENDS Server, TLC

CONSTANTS r1, r2, a1, a2, http, grpc

=============================================================================
