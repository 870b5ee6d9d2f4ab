------------------------------ MODULE Comment ------------------------------
(***************************************************************************)
(* Comments: biz/comment.go on novel_comment and novel_like.               *)
(*                                                                         *)
(* LikeComment and UnlikeComment are transactions of two statements.  Each *)
(* statement takes the lock of the row it writes, the like behind its      *)
(* unique key, then the comment, and keeps it until commit; nothing is     *)
(* visible before.  ReportComment, SetCommentStatus and the second half of *)
(* HandleCommentReport are single UPDATEs that wait for the comment's row. *)
(* What is read without the dbresolver's Write clause comes from a replica *)
(* if there is one: the status it shows is one the comment had.            *)
(***************************************************************************)
EXTENDS Integers, FiniteSets

CONSTANTS
    Users, Comments,
    Likers,      \* handlers of LikeComment and UnlikeComment
    Admins,      \* handlers of administrators
    Lagging,     \* a replica is configured
    MaxReports,  \* bound of the model
    None

Row == [status: 0..2, likes: Nat, reports: Nat]   \* 0 down, 1 normal, 2 pending

ASSUME CommentAssumption ==
    /\ Lagging \in BOOLEAN
    /\ MaxReports \in Nat
    /\ IsFiniteSet(Users)
    /\ None \notin Users \cup Comments \cup Row \cup 0..2

VARIABLES
    comment,  \* novel_comment
    replica,  \* the status column a reader of the replica sees
    liked,    \* novel_like: who likes what
    like,     \* the handlers of likers ...
    decide    \* ... and of administrators, between read and write

vars == <<comment, replica, liked, like, decide>>

LikeCall == [at: {"idle", "begin", "row", "commit"}, undo: BOOLEAN,
             user: Users \cup {None}, on: Comments \cup {None}]
NoLike == [at |-> "idle", undo |-> FALSE, user |-> None, on |-> None]
Decision == [on: Comments, status: 0..1]

TypeOK ==
    /\ comment \in [Comments -> Row \cup {None}]
    /\ replica \in [Comments -> 0..2 \cup {None}]
    /\ liked \subseteq Users \X Comments
    /\ like \in [Likers -> LikeCall]
    /\ decide \in [Admins -> Decision \cup {None}]

Init ==
    /\ comment = [c \in Comments |-> None]
    /\ replica = [c \in Comments |-> None]
    /\ liked = {}
    /\ like = [l \in Likers |-> NoLike]
    /\ decide = [a \in Admins |-> None]

-----------------------------------------------------------------------------
StatusOf(c) == IF comment[c] = None THEN None ELSE comment[c].status

\* What First() finds without the Write clause.
Shown(c) == IF Lagging THEN replica[c] ELSE StatusOf(c)

Replicate(c) ==
    /\ Lagging
    /\ replica[c] # StatusOf(c)
    /\ replica' = [replica EXCEPT ![c] = StatusOf(c)]
    /\ UNCHANGED <<comment, liked, like, decide>>

\* Row locks of the open transactions.
LikeLocked(u, c) ==
    \E l \in Likers : like[l].at \in {"row", "commit"} /\ like[l].user = u /\ like[l].on = c
CommentLocked(c) == \E l \in Likers : like[l].at = "commit" /\ like[l].on = c

CreateComment(c) ==
    /\ comment[c] = None
    /\ comment' = [comment EXCEPT ![c] = [status |-> 1, likes |-> 0, reports |-> 0]]
    /\ UNCHANGED <<replica, liked, like, decide>>

-----------------------------------------------------------------------------
(* LikeComment and UnlikeComment. *)

At(l, step) == [at |-> step, undo |-> like[l].undo, user |-> like[l].user, on |-> like[l].on]

\* The comment is looked up, and must not be down.
LikeComment(l, u, c) ==
    /\ like[l].at = "idle"
    /\ Shown(c) \in {1, 2}
    /\ like' = [like EXCEPT ![l] = [at |-> "begin", undo |-> FALSE, user |-> u, on |-> c]]
    /\ UNCHANGED <<comment, replica, liked, decide>>

\* Nothing is looked up.
UnlikeComment(l, u, c) ==
    /\ like[l].at = "idle"
    /\ like' = [like EXCEPT ![l] = [at |-> "begin", undo |-> TRUE, user |-> u, on |-> c]]
    /\ UNCHANGED <<comment, replica, liked, decide>>

\* Mutant: no unique key on the likes.
WritesLikeAlways(l) == like[l].undo => <<like[l].user, like[l].on>> \in liked

\* The INSERT meets no duplicate, the DELETE finds its row.
WritesLike(l) == like[l].undo <=> <<like[l].user, like[l].on>> \in liked

LikeWrite(l) ==
    /\ like[l].at = "begin"
    /\ ~LikeLocked(like[l].user, like[l].on)
    /\ like' = [like EXCEPT ![l] = IF WritesLike(l) THEN At(l, "row") ELSE NoLike]
    /\ UNCHANGED <<comment, replica, liked, decide>>

\* UPDATE of like_count: the comment's row is locked from here on.
LikeCount(l) ==
    /\ like[l].at = "row"
    /\ ~CommentLocked(like[l].on)
    /\ like' = [like EXCEPT ![l] = At(l, "commit")]
    /\ UNCHANGED <<comment, replica, liked, decide>>

\* like_count + 1, or GREATEST(like_count - 1, 0); no row, no effect.
Counted(l) ==
    LET r == comment[like[l].on]
    IN  IF r = None THEN None
        ELSE [status |-> r.status, reports |-> r.reports,
              likes |-> IF ~like[l].undo THEN r.likes + 1
                        ELSE IF r.likes > 0 THEN r.likes - 1 ELSE 0]

LikeCommit(l) ==
    LET pair == <<like[l].user, like[l].on>>
    IN  /\ like[l].at = "commit"
        /\ comment' = [comment EXCEPT ![like[l].on] = Counted(l)]
        /\ liked' = IF like[l].undo THEN liked \ {pair} ELSE liked \cup {pair}
        /\ like' = [like EXCEPT ![l] = NoLike]
        /\ UNCHANGED <<replica, decide>>

\* An error or a lost connection: rolled back.
LikeAbort(l) ==
    /\ like[l].at # "idle"
    /\ like' = [like EXCEPT ![l] = NoLike]
    /\ UNCHANGED <<comment, replica, liked, decide>>

-----------------------------------------------------------------------------
(* Reports and decisions. *)

\* Mutant: the row is saved whole, from a struct without its counters.
WithStatusSaved(c, s) == [status |-> s, likes |-> 0, reports |-> 0]

WithStatus(c, s) == [status |-> s, likes |-> comment[c].likes, reports |-> comment[c].reports]

\* Mutant: the UPDATE has no condition on status.
ReportableExisting(c) == comment[c] # None

\* UPDATE ... WHERE id = ? AND status = 1
Reportable(c) == StatusOf(c) = 1

ReportComment(c) ==
    /\ Reportable(c)
    /\ comment[c].reports < MaxReports
    /\ ~CommentLocked(c)
    /\ comment' = [comment EXCEPT ![c] =
         [status |-> 2, likes |-> comment[c].likes, reports |-> comment[c].reports + 1]]
    /\ UNCHANGED <<replica, liked, like, decide>>

SetCommentStatus(c, s) ==
    /\ comment[c] # None
    /\ ~CommentLocked(c)
    /\ comment' = [comment EXCEPT ![c] = WithStatus(c, s)]
    /\ UNCHANGED <<replica, liked, like, decide>>

\* Mutant: a rejected report stays pending.
VerdictStays(approved) == IF approved THEN 0 ELSE 2

\* A confirmed report takes the comment down, a rejected one restores it.
Verdict(approved) == IF approved THEN 0 ELSE 1

\* HandleCommentReport reads the comment ...
HandleRead(a, c, approved) ==
    /\ decide[a] = None
    /\ Shown(c) = 2
    /\ decide' = [decide EXCEPT ![a] = [on |-> c, status |-> Verdict(approved)]]
    /\ UNCHANGED <<comment, replica, liked, like>>

\* ... and updates it by its id alone.
HandleWrite(a) ==
    /\ decide[a] # None
    /\ ~CommentLocked(decide[a].on)
    /\ comment' = [comment EXCEPT ![decide[a].on] = WithStatus(decide[a].on, decide[a].status)]
    /\ decide' = [decide EXCEPT ![a] = None]
    /\ UNCHANGED <<replica, liked, like>>

HandleFail(a) ==
    /\ decide[a] # None
    /\ decide' = [decide EXCEPT ![a] = None]
    /\ UNCHANGED <<comment, replica, liked, like>>

-----------------------------------------------------------------------------
Liker(l) ==
    \/ \E u \in Users, c \in Comments : LikeComment(l, u, c) \/ UnlikeComment(l, u, c)
    \/ LikeWrite(l) \/ LikeCount(l) \/ LikeCommit(l) \/ LikeAbort(l)

Moderation(c) == \E s \in {0, 1} : SetCommentStatus(c, s)

Administrator(a) ==
    \/ \E c \in Comments, approved \in BOOLEAN : HandleRead(a, c, approved)
    \/ HandleWrite(a) \/ HandleFail(a)

Next ==
    \/ \E c \in Comments : Replicate(c) \/ CreateComment(c) \/ ReportComment(c) \/ Moderation(c)
    \/ \E l \in Likers : Liker(l)
    \/ \E a \in Admins : Administrator(a)

Spec == Init /\ [][Next]_vars

-----------------------------------------------------------------------------
(* What must hold. *)

\* like_count is exactly the number of users who like the comment, although
\* likes and unlikes of one user overlap, fail half-way and hit comments that
\* are taken down meanwhile; so the subtraction on the unsigned column never
\* starts from zero.
LikesCounted ==
    \A c \in Comments : comment[c] # None =>
        comment[c].likes = Cardinality({u \in Users : <<u, c>> \in liked})

\* What an administrator took down comes back only by an administrator's
\* decision: no report and no like, however late, brings it back.
DownStaysDown ==
    [][\A c \in Comments : StatusOf(c) = 0 /\ StatusOf(c)' # 0 =>
          SetCommentStatus(c, 1) \/ \E a \in Admins : decide[a] # None /\ decide[a].on = c /\ HandleWrite(a)]_vars

-----------------------------------------------------------------------------
(* The board that this module implements: the two statements of a like, and *)
(* the read and the write of a decision, look like one step.                *)

Statuses == [c \in Comments |-> StatusOf(c)]
Fans == [c \in Comments |-> {u \in Users : <<u, c>> \in liked}]
Counts == [c \in Comments |-> IF comment[c] = None THEN 0 ELSE comment[c].likes]

Board == INSTANCE LikeBoard WITH
    Absent <- None, status <- Statuses, fans <- Fans, count <- Counts

BoardSpec == Board!Spec

=============================================================================
