---------------------------- MODULE CommentProofs ----------------------------
(***************************************************************************)
(* Proof that the counter of likes is exact and that only administrators   *)
(* bring a comment back, for every number of users, comments and handlers. *)
(*                                                                         *)
(* The lock of the like's unique key is what counts: from the INSERT or    *)
(* DELETE to the commit nobody else changes whether this user likes this   *)
(* comment, so the step of the counter fits the like when both show.       *)
(***************************************************************************)
EXTENDS Comment, FiniteSetTheorems, TLAPS

\* Comments do not go away, and what is known of one is known of a comment
\* that exists.
Exists(c) == comment[c] # None

Shape ==
    /\ TypeOK
    /\ \A l \in Likers : like[l].at # "idle" => like[l].user \in Users /\ like[l].on \in Comments

Known ==
    /\ \A c \in Comments : replica[c] # None => Exists(c)
    /\ \A a \in Admins : decide[a] # None => Exists(decide[a].on)
    /\ \A u \in Users, c \in Comments : <<u, c>> \in liked => Exists(c)
    /\ \A l \in Likers : like[l].at # "idle" /\ ~like[l].undo => Exists(like[l].on)

Writing(l) == like[l].at \in {"row", "commit"}

\* The lock of the unique key.
OneWriter ==
    \A l, m \in Likers :
        Writing(l) /\ Writing(m) /\ like[l].user = like[m].user /\ like[l].on = like[m].on => l = m

\* What a transaction found stays so until it commits.
FoundStays ==
    \A l \in Likers : Writing(l) => (like[l].undo <=> <<like[l].user, like[l].on>> \in liked)

IInv == Shape /\ Known /\ OneWriter /\ FoundStays /\ LikesCounted

-----------------------------------------------------------------------------
LEMMA NoneIsNoRow == None \notin Row /\ None \notin Users /\ None \notin Comments /\ None \notin 0..2
  BY CommentAssumption

LEMMA NoLikeType == NoLike \in LikeCall /\ NoLike.at = "idle"
  BY DEF NoLike, LikeCall

LEMMA InitInv == Init => IInv
<1> SUFFICES ASSUME Init PROVE IInv
  OBVIOUS
<1>1. Shape
  BY NoLikeType DEF Init, Shape, TypeOK
<1>2. Known /\ OneWriter /\ FoundStays
  BY NoLikeType DEF Init, Known, OneWriter, FoundStays, Writing, Exists
<1>3. LikesCounted
  BY DEF Init, LikesCounted
<1> QED
  BY <1>1, <1>2, <1>3 DEF IInv


\* A handler of a liker that goes on, or ends, without a commit.
LEMMA LikeStep ==
    ASSUME IInv, NEW l \in Likers, NEW r \in LikeCall,
           like' = [like EXCEPT ![l] = r], UNCHANGED <<comment, replica, liked, decide>>,
           r.at # "idle" => /\ r.user \in Users /\ r.on \in Comments
                            /\ r.undo \/ Exists(r.on),
           r.at \in {"row", "commit"} =>
              /\ Writing(l) \/ ~LikeLocked(r.user, r.on)
              /\ Writing(l) => r.user = like[l].user /\ r.on = like[l].on
              /\ r.undo <=> <<r.user, r.on>> \in liked
    PROVE  IInv'
<1>1. Shape /\ Known /\ OneWriter /\ FoundStays /\ LikesCounted
  BY DEF IInv
<1>2. like'[l] = r /\ \A m \in Likers : m # l => like'[m] = like[m]
  BY <1>1 DEF Shape, TypeOK
<1>3. Shape'
  BY <1>1, <1>2 DEF Shape, TypeOK
<1>4. Known'
  BY <1>1, <1>2 DEF Known, Exists
<1>5. OneWriter'
  <2>1. ASSUME NEW m \in Likers, m # l, Writing(m), r.at \in {"row", "commit"}
        PROVE  ~(r.user = like[m].user /\ r.on = like[m].on)
    BY <1>1, <2>1 DEF LikeLocked, OneWriter, Writing
  <2> QED
    BY <1>1, <1>2, <2>1 DEF OneWriter, Writing
<1>6. FoundStays'
  BY <1>1, <1>2 DEF FoundStays, Writing
<1>7. LikesCounted'
  BY <1>1 DEF LikesCounted
<1> QED
  BY <1>3, <1>4, <1>5, <1>6, <1>7 DEF IInv

\* A single UPDATE of a comment, which leaves its counter alone.
LEMMA CommentStep ==
    ASSUME IInv, NEW c \in Comments, NEW r \in Row,
           comment' = [comment EXCEPT ![c] = r], UNCHANGED <<replica, liked, like>>,
           decide' \in [Admins -> Decision \cup {None}],
           \A a \in Admins : decide'[a] # None => decide'[a] = decide[a],
           r.likes = IF Exists(c) THEN comment[c].likes ELSE 0
    PROVE  IInv'
<1>1. Shape /\ Known /\ OneWriter /\ FoundStays /\ LikesCounted
  BY DEF IInv
<1>2. comment'[c] = r /\ r # None /\ \A d \in Comments : d # c => comment'[d] = comment[d]
  BY <1>1, NoneIsNoRow DEF Shape, TypeOK
<1>3. Shape'
  BY <1>1 DEF Shape, TypeOK
<1>4. Known'
  <2>1. \A d \in Comments : Exists(d) => Exists(d)'
    BY <1>2 DEF Exists
  <2>2. \A a \in Admins : decide[a] # None => decide[a].on \in Comments
    BY <1>1 DEF Shape, TypeOK, Decision
  <2> QED
    BY <1>1, <2>1, <2>2 DEF Known, Shape
<1>5. OneWriter' /\ FoundStays'
  BY <1>1 DEF OneWriter, FoundStays, Writing
<1>6. LikesCounted'
  <2>1. CASE Exists(c)
    BY <1>1, <1>2, <2>1 DEF LikesCounted, Exists
  <2>2. CASE ~Exists(c)
    <3>1. {u \in Users : <<u, c>> \in liked} = {}
      BY <1>1, <2>2 DEF Known
    <3>2. Cardinality({u \in Users : <<u, c>> \in liked}) = 0
      BY <3>1, FS_EmptySet
    <3> QED
      BY <1>1, <1>2, <2>2, <3>2 DEF LikesCounted, Exists
  <2> QED
    BY <2>1, <2>2
<1> QED
  BY <1>3, <1>4, <1>5, <1>6 DEF IInv

\* The commit shows the like and the new counter together.
LEMMA CommitStep ==
    ASSUME IInv, NEW l \in Likers, LikeCommit(l)
    PROVE  IInv'
<1> DEFINE u == like[l].user
           c == like[l].on
           LikersOf(d) == {x \in Users : <<x, d>> \in liked}
           LikersAfter(d) == {x \in Users : <<x, d>> \in liked'}
<1>1. Shape /\ Known /\ OneWriter /\ FoundStays /\ LikesCounted
  BY DEF IInv
<1>2. u \in Users /\ c \in Comments /\ like[l].undo \in BOOLEAN /\ Writing(l)
  BY <1>1 DEF LikeCommit, Shape, TypeOK, LikeCall, Writing
<1>3. like[l].undo <=> <<u, c>> \in liked
  BY <1>1, <1>2 DEF FoundStays
<1>4. Exists(c)
  BY <1>1, <1>2, <1>3 DEF Known, LikeCommit
<1>5. comment[c] \in Row /\ comment[c].likes \in Nat /\ comment[c].likes = Cardinality(LikersOf(c))
  BY <1>1, <1>2, <1>4 DEF Shape, TypeOK, Exists, Row, LikesCounted
<1>6. IsFiniteSet(LikersOf(c))
  BY CommentAssumption, FS_Subset, LikersOf(c) \in SUBSET Users
<1> HIDE DEF LikersOf, LikersAfter
<1>7. /\ like[l].undo => comment[c].likes > 0
      /\ Cardinality(LikersAfter(c)) = IF like[l].undo THEN comment[c].likes - 1 ELSE comment[c].likes + 1
  <2>1. CASE like[l].undo
    <3>1. LikersAfter(c) = LikersOf(c) \ {u}
      BY <1>2, <2>1 DEF LikeCommit, LikersOf, LikersAfter
    <3>2. u \in LikersOf(c)
      BY <1>2, <1>3, <2>1 DEF LikersOf
    <3>3. Cardinality(LikersOf(c) \ {u}) = comment[c].likes - 1
      BY <1>5, <1>6, <3>2, FS_RemoveElement
    <3>4. IsFiniteSet(LikersOf(c) \ {u})
      BY <1>6, FS_RemoveElement
    <3>5. Cardinality(LikersOf(c) \ {u}) \in Nat
      BY <3>4, FS_CardinalityType
    <3> QED
      BY <1>5, <2>1, <3>1, <3>3, <3>5
  <2>2. CASE ~like[l].undo
    <3>1. LikersAfter(c) = LikersOf(c) \cup {u}
      BY <1>2, <2>2 DEF LikeCommit, LikersOf, LikersAfter
    <3>2. u \notin LikersOf(c)
      BY <1>2, <1>3, <2>2 DEF LikersOf
    <3> QED
      BY <1>5, <1>6, <2>2, <3>1, <3>2, FS_AddElement
  <2> QED
    BY <2>1, <2>2
<1>8. \A d \in Comments : d # c => LikersAfter(d) = LikersOf(d)
  BY DEF LikeCommit, LikersOf, LikersAfter
<1>9. /\ Counted(l) \in Row
      /\ Counted(l).likes = IF like[l].undo THEN comment[c].likes - 1 ELSE comment[c].likes + 1
  BY <1>4, <1>5, <1>7 DEF Counted, Exists, Row
<1>10. /\ comment' = [comment EXCEPT ![c] = Counted(l)]
       /\ like' = [like EXCEPT ![l] = NoLike]
       /\ UNCHANGED <<replica, decide>>
  BY DEF LikeCommit
<1>11. /\ comment'[c] = Counted(l) /\ comment'[c] # None
       /\ \A d \in Comments : d # c => comment'[d] = comment[d]
       /\ like'[l] = NoLike /\ \A m \in Likers : m # l => like'[m] = like[m]
  BY <1>1, <1>2, <1>9, <1>10, NoneIsNoRow DEF Shape, TypeOK
<1>12. Shape'
  <2>1. liked' \subseteq Users \X Comments
    BY <1>1, <1>2 DEF LikeCommit, Shape, TypeOK
  <2> QED
    BY <1>1, <1>9, <1>10, <1>11, <2>1, NoLikeType DEF Shape, TypeOK
<1>13. Known'
  <2>1. \A d \in Comments : Exists(d) => Exists(d)'
    BY <1>11 DEF Exists
  <2>2. \A a \in Admins : decide[a] # None => decide[a].on \in Comments
    BY <1>1 DEF Shape, TypeOK, Decision
  <2>3. \A x \in Users, d \in Comments : <<x, d>> \in liked' => <<x, d>> \in liked \/ d = c
    BY DEF LikeCommit
  <2> QED
    BY <1>1, <1>4, <1>10, <1>11, <2>1, <2>2, <2>3, NoLikeType DEF Known, Shape
<1>14. OneWriter'
  BY <1>1, <1>11, NoLikeType DEF OneWriter, Writing
<1>15. FoundStays'
  <2>1. ASSUME NEW m \in Likers, Writing(m)'
        PROVE  (like[m].undo <=> <<like[m].user, like[m].on>> \in liked') /\ like'[m] = like[m]
    <3>1. m # l /\ like'[m] = like[m] /\ Writing(m)
      BY <1>11, <2>1, NoLikeType DEF Writing
    <3>2. <<like[m].user, like[m].on>> # <<u, c>>
      BY <1>1, <1>2, <3>1 DEF OneWriter
    <3> QED
      BY <1>1, <3>1, <3>2 DEF FoundStays, LikeCommit
  <2> QED
    BY <2>1 DEF FoundStays
<1>16. LikesCounted'
  <2>1. \A d \in Comments : Exists(d) => comment[d].likes = Cardinality(LikersOf(d))
    BY <1>1 DEF LikesCounted, Exists, LikersOf
  <2>2. \A d \in Comments : Exists(d)' => comment'[d].likes = Cardinality(LikersAfter(d))
    BY <1>7, <1>8, <1>9, <1>11, <2>1 DEF Exists
  <2> QED
    BY <2>2 DEF LikesCounted, Exists, LikersAfter
<1> QED
  BY <1>12, <1>13, <1>14, <1>15, <1>16 DEF IInv

LEMMA LikerStep ==
    ASSUME IInv, NEW l \in Likers, Liker(l)
    PROVE  IInv'
<1>1. /\ Shape /\ Known /\ OneWriter /\ FoundStays
      /\ like[l] \in LikeCall
      /\ like[l].at # "idle" => like[l].user \in Users /\ like[l].on \in Comments
      /\ like[l].at # "idle" => like[l].undo \/ Exists(like[l].on)
  BY DEF IInv, Shape, TypeOK, Known
<1>2. \A step \in {"row", "commit"} : At(l, step) \in LikeCall
  BY <1>1 DEF At, LikeCall
<1>3. ASSUME NEW u \in Users, NEW c \in Comments, LikeComment(l, u, c) PROVE IInv'
  <2>1. Exists(c)
    BY <1>1, <1>3, NoneIsNoRow DEF LikeComment, Shown, StatusOf, Known, Exists
  <2>2. [at |-> "begin", undo |-> FALSE, user |-> u, on |-> c] \in LikeCall
    BY DEF LikeCall
  <2> QED
    BY <1>3, <2>1, <2>2, LikeStep DEF LikeComment
<1>4. ASSUME NEW u \in Users, NEW c \in Comments, UnlikeComment(l, u, c) PROVE IInv'
  <2>1. [at |-> "begin", undo |-> TRUE, user |-> u, on |-> c] \in LikeCall
    BY DEF LikeCall
  <2> QED
    BY <1>4, <2>1, LikeStep DEF UnlikeComment
<1>5. ASSUME LikeWrite(l) PROVE IInv'
  <2>1. CASE WritesLike(l)
    <3>1. At(l, "row").undo <=> <<like[l].user, like[l].on>> \in liked
      BY <2>1 DEF WritesLike, At
    <3>2. ~Writing(l)
      BY <1>5 DEF LikeWrite, Writing
    <3> QED
      BY <1>1, <1>2, <1>5, <2>1, <3>1, <3>2, LikeStep DEF LikeWrite, At
  <2>2. CASE ~WritesLike(l)
    BY <1>5, <2>2, NoLikeType, LikeStep DEF LikeWrite
  <2> QED
    BY <2>1, <2>2
<1>6. ASSUME LikeCount(l) PROVE IInv'
  <2>1. Writing(l) /\ (like[l].undo <=> <<like[l].user, like[l].on>> \in liked)
    BY <1>1, <1>6 DEF LikeCount, Writing, FoundStays
  <2> QED
    BY <1>1, <1>2, <1>6, <2>1, LikeStep DEF LikeCount, At
<1>7. ASSUME LikeAbort(l) PROVE IInv'
  BY <1>7, NoLikeType, LikeStep DEF LikeAbort
<1> QED
  BY <1>3, <1>4, <1>5, <1>6, <1>7, CommitStep DEF Liker

LEMMA CommentRowStep ==
    ASSUME IInv, NEW c \in Comments,
           CreateComment(c) \/ ReportComment(c) \/ Moderation(c)
    PROVE  IInv'
<1>1. /\ comment[c] \in Row \cup {None}
      /\ decide \in [Admins -> Decision \cup {None}]
  BY DEF IInv, Shape, TypeOK
<1>2. CASE CreateComment(c)
  <2>1. [status |-> 1, likes |-> 0, reports |-> 0] \in Row
    BY DEF Row
  <2> QED
    BY <1>1, <1>2, <2>1, CommentStep DEF CreateComment, Exists
<1>3. CASE ReportComment(c)
  <2> DEFINE r == [status |-> 2, likes |-> comment[c].likes, reports |-> comment[c].reports + 1]
  <2>1. Exists(c)
    BY <1>3, NoneIsNoRow DEF ReportComment, Reportable, StatusOf, Exists
  <2>2. r \in Row
    BY <1>1, <2>1 DEF Row, Exists
  <2> QED
    BY <1>1, <1>3, <2>1, <2>2, CommentStep DEF ReportComment
<1>4. ASSUME NEW s \in {0, 1}, SetCommentStatus(c, s) PROVE IInv'
  <2>1. WithStatus(c, s) \in Row /\ WithStatus(c, s).likes = comment[c].likes
    BY <1>1, <1>4 DEF SetCommentStatus, WithStatus, Row
  <2> QED
    BY <1>1, <1>4, <2>1, CommentStep DEF SetCommentStatus, Exists
<1> QED
  BY <1>2, <1>3, <1>4 DEF Moderation

LEMMA DecisionStep ==
    ASSUME IInv, NEW a \in Admins, Administrator(a)
    PROVE  IInv'
<1>1. Shape /\ Known /\ OneWriter /\ FoundStays /\ LikesCounted
  BY DEF IInv
<1>2. ASSUME NEW c \in Comments, NEW approved \in BOOLEAN, HandleRead(a, c, approved) PROVE IInv'
  <2> DEFINE d == [on |-> c, status |-> Verdict(approved)]
  <2>1. Exists(c)
    BY <1>1, <1>2, NoneIsNoRow DEF HandleRead, Shown, StatusOf, Known, Exists
  <2>2. d \in Decision
    BY DEF Verdict, Decision
  <2>3. decide' = [decide EXCEPT ![a] = d] /\ UNCHANGED <<comment, replica, liked, like>>
    BY <1>2 DEF HandleRead
  <2>4. Shape' /\ Known'
    BY <1>1, <2>1, <2>2, <2>3 DEF Shape, TypeOK, Known, Exists
  <2> QED
    BY <1>1, <2>3, <2>4 DEF IInv, OneWriter, FoundStays, Writing, LikesCounted
<1>3. ASSUME HandleWrite(a) PROVE IInv'
  <2> DEFINE c == decide[a].on
             r == WithStatus(c, decide[a].status)
  <2>1. c \in Comments /\ decide[a].status \in 0..2 /\ Exists(c) /\ comment[c] \in Row
    BY <1>1, <1>3 DEF HandleWrite, Shape, TypeOK, Known, Decision, Exists
  <2>2. r \in Row /\ r.likes = comment[c].likes
    BY <2>1 DEF WithStatus, Row
  <2>3. /\ decide' \in [Admins -> Decision \cup {None}]
        /\ \A b \in Admins : decide'[b] # None => decide'[b] = decide[b]
    BY <1>1, <1>3 DEF HandleWrite, Shape, TypeOK
  <2>4. comment' = [comment EXCEPT ![c] = r] /\ UNCHANGED <<replica, liked, like>>
    BY <1>3 DEF HandleWrite
  <2> QED
    BY <2>1, <2>2, <2>3, <2>4, CommentStep
<1>4. ASSUME HandleFail(a) PROVE IInv'
  <2>1. decide' = [decide EXCEPT ![a] = None] /\ UNCHANGED <<comment, replica, liked, like>>
    BY <1>4 DEF HandleFail
  <2>2. Shape' /\ Known'
    BY <1>1, <2>1 DEF Shape, TypeOK, Known, Exists
  <2> QED
    BY <1>1, <2>1, <2>2 DEF IInv, OneWriter, FoundStays, Writing, LikesCounted
<1> QED
  BY <1>2, <1>3, <1>4 DEF Administrator

LEMMA QuietStep ==
    ASSUME IInv, (\E c \in Comments : Replicate(c)) \/ UNCHANGED vars
    PROVE  IInv'
<1>1. Shape /\ Known /\ OneWriter /\ FoundStays /\ LikesCounted
  BY DEF IInv
<1>2. ASSUME NEW c \in Comments, Replicate(c) PROVE IInv'
  <2>1. StatusOf(c) \in 0..2 \cup {None} /\ (StatusOf(c) # None => Exists(c))
    BY <1>1 DEF StatusOf, Shape, TypeOK, Row, Exists
  <2>2. Shape' /\ Known'
    BY <1>1, <1>2, <2>1 DEF Replicate, Shape, TypeOK, Known, Exists
  <2> QED
    BY <1>1, <1>2, <2>2 DEF Replicate, IInv, OneWriter, FoundStays, Writing, LikesCounted
<1>3. CASE UNCHANGED vars
  BY <1>1, <1>3 DEF vars, IInv, Shape, TypeOK, Known, Exists, OneWriter, FoundStays, Writing,
                    LikesCounted
<1> QED
  BY <1>2, <1>3

LEMMA Invariance == Spec => []IInv
<1>1. IInv /\ [Next]_vars => IInv'
  BY LikerStep, CommentRowStep, DecisionStep, QuietStep DEF Next
<1> QED
  BY InitInv, <1>1, PTL DEF Spec

-----------------------------------------------------------------------------
\* The variables keep their types: nothing else is in a comment, a like or a
\* handler of biz/comment.go, whatever overlaps.
THEOREM TypeCorrect == Spec => []TypeOK
<1>1. IInv => TypeOK
  BY DEF IInv, Shape
<1> QED
  BY Invariance, <1>1, PTL

\* like_count is the number of users who like the comment, for any number of
\* overlapping LikeComment and UnlikeComment of any users.
THEOREM CountersAreExact == Spec => []LikesCounted
<1>1. IInv => LikesCounted
  BY DEF IInv
<1> QED
  BY Invariance, <1>1, PTL

\* A comment that was taken down comes back by SetCommentStatus or by the
\* decision of a report, and by nothing else.
THEOREM DownIsFinal == Spec => DownStaysDown
<1> DEFINE Restored(c) == \/ SetCommentStatus(c, 1)
                          \/ \E a \in Admins : decide[a] # None /\ decide[a].on = c /\ HandleWrite(a)
           Kept(c) == StatusOf(c) = 0 /\ StatusOf(c)' # 0 => Restored(c)
           Final == \A c \in Comments : StatusOf(c) = 0 /\ StatusOf(c)' # 0 =>
                       SetCommentStatus(c, 1)
                       \/ \E a \in Admins : decide[a] # None /\ decide[a].on = c /\ HandleWrite(a)
<1>1. ASSUME IInv, [Next]_vars, NEW c \in Comments PROVE Kept(c)
  <2>0. comment \in [Comments -> Row \cup {None}]
    BY <1>1 DEF IInv, Shape, TypeOK
  <2>1. CASE UNCHANGED comment
    BY <2>1 DEF StatusOf
  <2>2. ASSUME NEW d \in Comments, CreateComment(d) \/ ReportComment(d) PROVE Kept(c)
    <3>1. StatusOf(d) # 0
      BY <2>0, <2>2, NoneIsNoRow DEF CreateComment, ReportComment, Reportable, StatusOf
    <3> QED
      BY <2>0, <2>2, <3>1 DEF CreateComment, ReportComment, StatusOf
  <2>3. ASSUME NEW d \in Comments, NEW s \in {0, 1}, SetCommentStatus(d, s) PROVE Kept(c)
    <3>1. CASE d # c
      BY <2>0, <2>3, <3>1 DEF SetCommentStatus, StatusOf
    <3>2. CASE d = c /\ s = 0
      <4>1. WithStatus(c, 0) \in Row
        BY <2>0, <2>3, <3>2 DEF SetCommentStatus, WithStatus, Row
      <4>2. comment'[c] = WithStatus(c, 0) /\ WithStatus(c, 0) # None
        BY <2>0, <2>3, <3>2, <4>1, NoneIsNoRow DEF SetCommentStatus
      <4>3. StatusOf(c)' = 0
        BY <4>2 DEF StatusOf, WithStatus
      <4> QED
        BY <4>3
    <3>3. CASE d = c /\ s = 1
      BY <2>3, <3>3
    <3> QED
      BY <3>1, <3>2, <3>3
  <2>4. ASSUME NEW l \in Likers, LikeCommit(l) PROVE Kept(c)
    <3>1. CASE like[l].on # c
      BY <2>0, <2>4, <3>1 DEF LikeCommit, StatusOf
    <3>2. CASE like[l].on = c
      <4>1. CASE comment[c] = None
        BY <4>1, NoneIsNoRow DEF StatusOf
      <4>2. CASE comment[c] # None
        <5>1. comment'[c] = Counted(l)
          BY <2>0, <2>4, <3>2 DEF LikeCommit
        <5>2. comment'[c].status = comment[c].status /\ comment'[c] \in Row
          BY <2>0, <3>2, <4>2, <5>1 DEF Counted, Row
        <5> QED
          BY <4>2, <5>2, NoneIsNoRow DEF StatusOf
      <4> QED
        BY <4>1, <4>2
    <3> QED
      BY <3>1, <3>2
  <2>5. ASSUME NEW a \in Admins, HandleWrite(a) PROVE Kept(c)
    <3>1. CASE decide[a].on # c
      BY <2>0, <2>5, <3>1 DEF HandleWrite, StatusOf
    <3>2. CASE decide[a].on = c
      BY <2>5, <3>2 DEF HandleWrite
    <3> QED
      BY <3>1, <3>2
  <2>6. ASSUME NEW l \in Likers, Liker(l) PROVE Kept(c)
    BY <2>1, <2>4, <2>6 DEF Liker, LikeComment, UnlikeComment, LikeWrite, LikeCount, LikeAbort
  <2>7. ASSUME NEW a \in Admins, Administrator(a) PROVE Kept(c)
    BY <2>1, <2>5, <2>7 DEF Administrator, HandleRead, HandleFail
  <2>8. ASSUME NEW d \in Comments, Replicate(d) PROVE Kept(c)
    BY <2>1, <2>8 DEF Replicate
  <2> HIDE DEF Kept
  <2> QED
    BY <1>1, <2>1, <2>2, <2>3, <2>6, <2>7, <2>8 DEF Next, Moderation, vars
<1>2. IInv /\ [Next]_vars => [Final]_vars
  BY <1>1
<1> QED
  BY Invariance, <1>2, PTL DEF Spec, DownStaysDown

-----------------------------------------------------------------------------
(* The refinement.  A like counts when its transaction commits, a decision   *)
(* when its UPDATE runs, and the statements before that change nothing on    *)
(* the board.                                                                *)

LEMMA BoardInit == Init => Board!Init
  BY DEF Init, Board!Init, Statuses, Fans, Counts, StatusOf

\* A single UPDATE of a comment changes its status and nothing else.
LEMMA BoardRow ==
    ASSUME IInv, NEW c \in Comments, NEW r \in Row,
           comment' = [comment EXCEPT ![c] = r], UNCHANGED liked,
           r.likes = IF Exists(c) THEN comment[c].likes ELSE 0
    PROVE  /\ Statuses' = [Statuses EXCEPT ![c] = r.status]
           /\ UNCHANGED <<Fans, Counts>>
<1>1. /\ comment'[c] = r /\ r # None
      /\ \A d \in Comments : d # c => comment'[d] = comment[d]
  BY NoneIsNoRow DEF IInv, Shape, TypeOK
<1>2. Statuses' = [Statuses EXCEPT ![c] = r.status]
  <2>1. StatusOf(c)' = r.status
    BY <1>1 DEF StatusOf
  <2>2. \A d \in Comments : d # c => StatusOf(d)' = StatusOf(d)
    BY <1>1 DEF StatusOf
  <2> QED
    BY <2>1, <2>2 DEF Statuses
<1>3. Counts' = Counts
  BY <1>1 DEF Counts, Exists
<1>4. Fans' = Fans
  BY DEF Fans
<1> QED
  BY <1>2, <1>3, <1>4

\* A commit is a like or its removal, and the subtraction on the unsigned
\* column is one.
LEMMA BoardCommit ==
    ASSUME IInv, NEW l \in Likers, LikeCommit(l)
    PROVE  Board!Next
<1> DEFINE u == like[l].user
           c == like[l].on
<1>1. Shape /\ Known /\ FoundStays /\ LikesCounted
  BY DEF IInv
<1>2. u \in Users /\ c \in Comments /\ like[l].undo \in BOOLEAN /\ Writing(l)
  BY <1>1 DEF LikeCommit, Shape, TypeOK, LikeCall, Writing
<1>3. like[l].undo <=> <<u, c>> \in liked
  BY <1>1, <1>2 DEF FoundStays
<1>4. Exists(c)
  BY <1>1, <1>2, <1>3 DEF Known, LikeCommit
<1>5. comment[c] \in Row /\ comment[c].likes \in Nat
  BY <1>1, <1>2, <1>4 DEF Shape, TypeOK, Exists, Row
<1>6. /\ Statuses[c] # None
      /\ Fans[c] = {x \in Users : <<x, c>> \in liked}
      /\ Counts[c] = comment[c].likes
  BY <1>2, <1>4, <1>5, NoneIsNoRow DEF Statuses, StatusOf, Fans, Counts, Exists, Row
<1>7. /\ comment' = [comment EXCEPT ![c] = Counted(l)]
      /\ liked' = IF like[l].undo THEN liked \ {<<u, c>>} ELSE liked \cup {<<u, c>>}
  BY DEF LikeCommit
<1>8. like[l].undo => comment[c].likes > 0
  <2> SUFFICES ASSUME like[l].undo PROVE comment[c].likes > 0
    OBVIOUS
  <2>1. IsFiniteSet(Fans[c])
    BY <1>6, CommentAssumption, FS_Subset, {x \in Users : <<x, c>> \in liked} \in SUBSET Users
  <2>2. u \in Fans[c]
    BY <1>2, <1>3, <1>6
  <2>3. Cardinality(Fans[c]) # 0
    BY <2>1, <2>2, FS_EmptySet
  <2>4. comment[c].likes = Cardinality(Fans[c])
    BY <1>1, <1>2, <1>4, <1>6 DEF LikesCounted, Exists
  <2> QED
    BY <1>5, <2>3, <2>4
<1>9. /\ Counted(l) \in Row
      /\ Counted(l).status = comment[c].status
      /\ Counted(l).likes = IF like[l].undo THEN comment[c].likes - 1 ELSE comment[c].likes + 1
  BY <1>4, <1>5, <1>8 DEF Counted, Exists, Row
<1> HIDE DEF u, c
<1>10. /\ comment'[c] = Counted(l) /\ comment'[c] # None
       /\ \A d \in Comments : d # c => comment'[d] = comment[d]
  BY <1>1, <1>2, <1>7, <1>9, NoneIsNoRow DEF Shape, TypeOK
<1>11. UNCHANGED Statuses
  BY <1>4, <1>9, <1>10 DEF Statuses, StatusOf, Exists
<1>12. Counts' = [Counts EXCEPT ![c] = IF like[l].undo THEN Counts[c] - 1 ELSE Counts[c] + 1]
  BY <1>6, <1>9, <1>10 DEF Counts
<1>13. CASE like[l].undo
  <2>1. Fans' = [Fans EXCEPT ![c] = Fans[c] \ {u}]
    BY <1>2, <1>7, <1>13 DEF Fans
  <2>2. Counts' = [Counts EXCEPT ![c] = Counts[c] - 1]
    BY <1>12, <1>13
  <2>3. u \in Fans[c] /\ Counts[c] > 0
    BY <1>2, <1>3, <1>6, <1>8, <1>13 DEF u, c
  <2>4. Board!Unlike(u, c)
    BY <1>11, <2>1, <2>2, <2>3 DEF Board!Unlike
  <2> QED
    BY <1>2, <2>4 DEF Board!Next
<1>14. CASE ~like[l].undo
  <2>1. Fans' = [Fans EXCEPT ![c] = Fans[c] \cup {u}]
    BY <1>2, <1>7, <1>14 DEF Fans
  <2>2. Counts' = [Counts EXCEPT ![c] = Counts[c] + 1]
    BY <1>12, <1>14
  <2>3. u \notin Fans[c]
    BY <1>3, <1>6, <1>14 DEF u, c
  <2>4. Board!Like(u, c)
    BY <1>6, <1>11, <2>1, <2>2, <2>3 DEF Board!Like
  <2> QED
    BY <1>2, <2>4 DEF Board!Next
<1> QED
  BY <1>13, <1>14

LEMMA BoardStep == IInv /\ [Next]_vars => [Board!Next]_(Board!board)
<1> SUFFICES ASSUME IInv, [Next]_vars PROVE [Board!Next]_(Board!board)
  OBVIOUS
<1>t. Shape /\ Known
  BY DEF IInv
<1>q. ASSUME UNCHANGED <<comment, liked>> PROVE UNCHANGED Board!board
  BY <1>q DEF Board!board, Statuses, Fans, Counts, StatusOf
<1>1. ASSUME NEW c \in Comments, CreateComment(c) PROVE Board!Next
  <2> DEFINE r == [status |-> 1, likes |-> 0, reports |-> 0]
  <2>1. r \in Row /\ r.status = 1 /\ r.likes = 0
    BY DEF Row
  <2>2. ~Exists(c) /\ comment' = [comment EXCEPT ![c] = r] /\ UNCHANGED liked
    BY <1>1 DEF CreateComment, Exists
  <2>3. Statuses[c] = None
    BY <2>2 DEF Statuses, StatusOf, Exists
  <2> HIDE DEF r
  <2>4. Statuses' = [Statuses EXCEPT ![c] = 1] /\ UNCHANGED <<Fans, Counts>>
    BY <2>1, <2>2, BoardRow
  <2> QED
    BY <2>3, <2>4 DEF Board!Write, Board!Next
<1>2. ASSUME NEW c \in Comments, ReportComment(c) PROVE Board!Next
  <2> DEFINE r == [status |-> 2, likes |-> comment[c].likes, reports |-> comment[c].reports + 1]
  <2>1. Exists(c) /\ comment[c] \in Row /\ Statuses[c] = 1
    BY <1>2, <1>t, NoneIsNoRow DEF ReportComment, Reportable, StatusOf, Statuses, Exists, Shape, TypeOK
  <2>2. r \in Row /\ r.status = 2 /\ r.likes = comment[c].likes
    BY <2>1 DEF Row
  <2>3. comment' = [comment EXCEPT ![c] = r] /\ UNCHANGED liked
    BY <1>2 DEF ReportComment
  <2> HIDE DEF r
  <2>4. Statuses' = [Statuses EXCEPT ![c] = 2] /\ UNCHANGED <<Fans, Counts>>
    BY <2>1, <2>2, <2>3, BoardRow
  <2> QED
    BY <2>1, <2>4 DEF Board!Report, Board!Next
\* What an administrator writes.
<1>d. ASSUME NEW c \in Comments, NEW s \in {0, 1}, Exists(c), UNCHANGED liked,
             comment' = [comment EXCEPT ![c] = WithStatus(c, s)]
      PROVE  Board!Next
  <2>1. comment[c] \in Row /\ Statuses[c] # None
    BY <1>d, <1>t, NoneIsNoRow DEF Statuses, StatusOf, Exists, Shape, TypeOK, Row
  <2>2. /\ WithStatus(c, s) \in Row /\ WithStatus(c, s).status = s
        /\ WithStatus(c, s).likes = comment[c].likes
    BY <2>1 DEF WithStatus, Row
  <2>3. Statuses' = [Statuses EXCEPT ![c] = s] /\ UNCHANGED <<Fans, Counts>>
    BY <1>d, <2>2, BoardRow
  <2>4. Board!Decide(c, s)
    BY <2>1, <2>3 DEF Board!Decide
  <2>5. s = 0 \/ s = 1
    OBVIOUS
  <2> QED
    BY <2>4, <2>5 DEF Board!Next
<1>3. ASSUME NEW c \in Comments, NEW s \in {0, 1}, SetCommentStatus(c, s) PROVE Board!Next
  BY <1>3, <1>d DEF SetCommentStatus, Exists
<1>4. ASSUME NEW a \in Admins, HandleWrite(a) PROVE Board!Next
  <2>1. decide[a].on \in Comments /\ decide[a].status \in {0, 1} /\ Exists(decide[a].on)
    BY <1>4, <1>t DEF HandleWrite, Shape, TypeOK, Known, Decision
  <2> QED
    BY <1>4, <1>d, <2>1 DEF HandleWrite
<1>5. ASSUME NEW l \in Likers, Liker(l) PROVE Board!Next \/ UNCHANGED <<comment, liked>>
  BY <1>5, BoardCommit DEF Liker, LikeComment, UnlikeComment, LikeWrite, LikeCount, LikeAbort
<1>6. ASSUME NEW a \in Admins, Administrator(a) PROVE Board!Next \/ UNCHANGED <<comment, liked>>
  BY <1>4, <1>6 DEF Administrator, HandleRead, HandleFail
<1>7. ASSUME (\E c \in Comments : Replicate(c)) \/ UNCHANGED vars PROVE UNCHANGED <<comment, liked>>
  BY <1>7 DEF Replicate, vars
<1> QED
  BY <1>1, <1>2, <1>3, <1>5, <1>6, <1>7, <1>q DEF Next, Moderation

\* biz/comment.go implements the board: although a like is two statements and
\* a decision a read and a write, readers see single steps, the counter moves
\* by one with every like, and it is never lowered below zero.
THEOREM ImplementsBoard == Spec => BoardSpec
  BY Invariance, BoardInit, BoardStep, PTL DEF Spec, BoardSpec, Board!Spec

=============================================================================
