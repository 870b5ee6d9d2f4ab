---------------------------- MODULE MCBookIndex ----------------------------
(***************************************************************************)
(* A small instance of BookIndex for TLC.                                  *)
(***************************************************************************)
EXTENDS BookIndex, TLC

CONSTANTS b1, t1, t2, e1, e2, e3

=============================================================================
