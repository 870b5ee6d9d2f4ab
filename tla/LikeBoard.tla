------------------------------ MODULE LikeBoard ------------------------------
(***************************************************************************)
(* What comments promise to their readers, without transactions, locks and *)
(* replicas: a like or its removal is one step that changes who likes the  *)
(* comment and its counter together, by exactly one; a report asks for a   *)
(* decision on a comment that is up, once, and only a decision takes a     *)
(* comment down or puts it back.                                           *)
(***************************************************************************)
EXTENDS Integers

CONSTANTS Users, Comments,
          Absent    \* the status of a comment that was not written yet

VARIABLES
    status,  \* status[c]: Absent, 0 down, 1 up, 2 up and reported
    fans,    \* fans[c]: who likes c
    count    \* count[c]: the number that is shown

board == <<status, fans, count>>

Init ==
    /\ status = [c \in Comments |-> Absent]
    /\ fans = [c \in Comments |-> {}]
    /\ count = [c \in Comments |-> 0]

Write(c) ==
    /\ status[c] = Absent
    /\ status' = [status EXCEPT ![c] = 1]
    /\ UNCHANGED <<fans, count>>

Like(u, c) ==
    /\ status[c] # Absent
    /\ u \notin fans[c]
    /\ fans' = [fans EXCEPT ![c] = fans[c] \cup {u}]
    /\ count' = [count EXCEPT ![c] = count[c] + 1]
    /\ UNCHANGED status

\* The counter is never already at zero.
Unlike(u, c) ==
    /\ u \in fans[c]
    /\ count[c] > 0
    /\ fans' = [fans EXCEPT ![c] = fans[c] \ {u}]
    /\ count' = [count EXCEPT ![c] = count[c] - 1]
    /\ UNCHANGED status

Report(c) ==
    /\ status[c] = 1
    /\ status' = [status EXCEPT ![c] = 2]
    /\ UNCHANGED <<fans, count>>

Decide(c, s) ==
    /\ status[c] # Absent
    /\ status' = [status EXCEPT ![c] = s]
    /\ UNCHANGED <<fans, count>>

Next ==
    \E c \in Comments :
        \/ Write(c) \/ Report(c) \/ Decide(c, 0) \/ Decide(c, 1)
        \/ \E u \in Users : Like(u, c) \/ Unlike(u, c)

Spec == Init /\ [][Next]_board

=============================================================================
