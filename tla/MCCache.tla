------------------------------ MODULE MCCache ------------------------------
(***************************************************************************)
(* Small instances of Cache for TLC.                                       *)
(***************************************************************************)
EXTENDS Cache, TLC

CONSTANTS n1, n2, r1, r2, r3, k1, k2

\* Every request runs in the first process, or r2 (and r3) in the second one.
OneHome == [x \in Readers \cup Writers |-> n1]
TwoHomes == [x \in Readers \cup Writers |-> IF x = r2 THEN n2 ELSE n1]

=============================================================================
