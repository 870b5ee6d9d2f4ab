----------------------------- MODULE MCChapter -----------------------------
(***************************************************************************)
(* A small instance of Chapter for TLC.                                    *)
(***************************************************************************)
EXTENDS Chapter, TLC

CONSTANTS r1, r2, g1

=============================================================================
