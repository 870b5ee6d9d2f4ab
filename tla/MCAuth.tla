------------------------------- MODULE MCAuth -------------------------------
(***************************************************************************)
(* Small instances of Auth for TLC.                                        *)
(***************************************************************************)
EXTENDS Auth, TLC

CONSTANTS ann, eve, reader, admin, t1, q1, q2, browser

OneBrowser == [t \in Tabs |-> browser]
OneTab == [q \in Requests |-> t1]
Peers == Permutations(Requests)
AllAdmins == [u \in Users |-> [role |-> admin, open |-> TRUE]]

=============================================================================
