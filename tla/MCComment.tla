----------------------------- MODULE MCComment -----------------------------
(***************************************************************************)
(* Small instances of Comment for TLC.                                     *)
(***************************************************************************)
EXTENDS Comment, TLC

CONSTANTS u1, u2, l1, l2, l3, a1, a2, cm1

Everybody == Permutations(Likers) \cup Permutations(Users) \cup Permutations(Admins)

=============================================================================
